----------------------------- MODULE TargetRegistry -----------------------------
(****************************************************************************)
(* The agents an organization registers and the keys their telemetry comes  *)
(* with: registering a version, configuring its telemetry boundary and      *)
(* checking its connection, which both rewrite one column of the version's  *)
(* row, and rotating, revoking and resolving ingest keys                    *)
(* (governance-persistence, lib.rs and evaluation_runs.rs; loco_app.rs of   *)
(* governance-api; authenticate of the telemetry gateway).                  *)
(*                                                                          *)
(* One agent: its versions share their keys.  A rotation is one transaction *)
(* under an advisory lock; what it wrote before its commit shows to nobody, *)
(* but others that update the same rows wait for it.                        *)
(****************************************************************************)
EXTENDS Rows, FiniteSets

CONSTANTS
    Versions,     \* versions of the agent
    Boundaries,   \* telemetry boundaries
    Keys,         \* keys that rotations draw
    Consoles      \* requests of the console

ASSUME RegistryAssumption == None \notin Consoles

VARIABLES
    agent,     \* agent[v]: [boundary, reachable], or None
    latest,    \* the version registered last, or None
    key,       \* key[k]: "none", "active" or "revoked", as committed
    holder,    \* the request that holds the rotation lock, or None
    console    \* console[r]: where the request stands

registryVars == <<agent, latest, key, holder, console>>

Registered == {v \in Versions : agent[v] # None}

ActiveKeys == {k \in Keys : key[k] = "active"}

RegistryInit ==
    /\ agent = [v \in Versions |-> None]
    /\ latest = None
    /\ key = [k \in Keys |-> "none"]
    /\ holder = None
    /\ console = [r \in Consoles |-> [step |-> "new"]]

ConsoleAt(r, step) == console[r].step = step

Stand(r, place) == console' = [console EXCEPT ![r] = place]

Done(r) == Stand(r, [step |-> "done"])

-----------------------------------------------------------------------------
(* Versions *)

(* loco_create_target: a pack that is not publishable, a driver that        *)
(* refuses or a version that is there is an error.                          *)
CreateTarget(r, v, b) ==
    /\ ConsoleAt(r, "new") /\ agent[v] = None
    /\ agent' = [agent EXCEPT ![v] = [boundary |-> b, reachable |-> TRUE]]
    /\ latest' = v
    /\ Done(r)
    /\ UNCHANGED <<key, holder>>

(* Everything a request can be refused for before it writes.                *)
Refused(r) ==
    /\ ConsoleAt(r, "new")
    /\ Done(r)
    /\ UNCHANGED <<agent, latest, key, holder>>

(* save_telemetry_boundary and save_capability_report read the column ...   *)
Configure(r, v, b) ==
    /\ ConsoleAt(r, "new") /\ v \in Registered
    /\ Stand(r, [column |-> [agent[v] EXCEPT !.boundary = b], step |-> "write", version |-> v])
    /\ UNCHANGED <<agent, latest, key, holder>>

Recheck(r, v, reachable) ==
    /\ ConsoleAt(r, "new") /\ v \in Registered
    /\ Stand(r, [column |-> [agent[v] EXCEPT !.reachable = reachable],
                 step |-> "write", version |-> v])
    /\ UNCHANGED <<agent, latest, key, holder>>

(* ... and write it in a second statement.                                  *)
WriteColumn(r) ==
    /\ ConsoleAt(r, "write")
    /\ agent' = [agent EXCEPT ![console[r].version] = console[r].column]
    /\ Done(r)
    /\ UNCHANGED <<latest, key, holder>>

(* get_telemetry_boundary: requests are read by the latest version's.       *)
Boundary == IF latest = None THEN None ELSE agent[latest].boundary

-----------------------------------------------------------------------------
(* Keys *)

(* Faulty variant of LockFree: the advisory lock is not waited for.         *)
LockIgnored == TRUE

LockFree == holder = None

BeginRotation(r, k) ==
    /\ ConsoleAt(r, "new") /\ Registered # {} /\ key[k] = "none"
    /\ \A q \in Consoles : console[q].step \in {"revoke", "commit"} => console[q].key # k
    /\ LockFree
    /\ holder' = r
    /\ Stand(r, [key |-> k, step |-> "revoke"])
    /\ UNCHANGED <<agent, latest, key>>

(* The keys a transaction under way has revoked and not yet committed.      *)
Updated ==
    UNION {console[q].revoked : q \in {q \in Consoles : ConsoleAt(q, "commit")}}

RevokeActive(r) ==
    /\ ConsoleAt(r, "revoke") /\ ActiveKeys \cap Updated = {}
    /\ Stand(r, [key |-> console[r].key, revoked |-> ActiveKeys, step |-> "commit"])
    /\ UNCHANGED <<agent, latest, key, holder>>

CommitRotation(r) ==
    /\ ConsoleAt(r, "commit")
    /\ key' = [k \in Keys |->
           CASE k = console[r].key -> "active"
             [] k \in console[r].revoked -> "revoked"
             [] OTHER -> key[k]]
    /\ holder' = None
    /\ Done(r)
    /\ UNCHANGED <<agent, latest>>

(* A statement fails or the process stops: the transaction never was.       *)
RollBack(r) ==
    /\ console[r].step \in {"revoke", "commit"}
    /\ holder' = None
    /\ Done(r)
    /\ UNCHANGED <<agent, latest, key>>

(* revoke_target_keys takes no lock: it finds the keys that are active ...  *)
FindActive(r) ==
    /\ ConsoleAt(r, "new") /\ Registered # {}
    /\ Stand(r, [found |-> ActiveKeys, step |-> "update"])
    /\ UNCHANGED <<agent, latest, key, holder>>

(* ... waits for whoever updates them and looks at them again.              *)
RevokeFound(r) ==
    /\ ConsoleAt(r, "update") /\ console[r].found \cap Updated = {}
    /\ key' = [k \in Keys |->
           IF k \in console[r].found /\ key[k] = "active" THEN "revoked" ELSE key[k]]
    /\ Done(r)
    /\ UNCHANGED <<agent, latest, holder>>

(* resolve_key of the gateway; a key may have expired.                      *)
Resolves(k) == k \in ActiveKeys

RegistryNext ==
    \E r \in Consoles :
        \/ \E v \in Versions, b \in Boundaries : CreateTarget(r, v, b) \/ Configure(r, v, b)
        \/ \E v \in Versions, reachable \in BOOLEAN : Recheck(r, v, reachable)
        \/ WriteColumn(r) \/ Refused(r)
        \/ \E k \in Keys : BeginRotation(r, k)
        \/ RevokeActive(r) \/ CommitRotation(r) \/ RollBack(r)
        \/ FindActive(r) \/ RevokeFound(r)

RegistrySpec == RegistryInit /\ [][RegistryNext]_registryVars

-----------------------------------------------------------------------------
(* Properties *)

RegistryTypeOK ==
    /\ \A v \in Registered : agent[v] \in [boundary : Boundaries, reachable : BOOLEAN]
    /\ latest \in Registered \cup {None}
    /\ key \in [Keys -> {"none", "active", "revoked"}]
    /\ holder \in Consoles \cup {None}

(* However rotations and revocations of several people interleave, fail or  *)
(* roll back, at most one key identifies an agent (rotate_key, "The         *)
(* previous active key is revoked." of telemetry-setup.tsx).                *)
OneActiveKey == \A j, k \in Keys : Resolves(j) /\ Resolves(k) => j = k
=================================================================================
