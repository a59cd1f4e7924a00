------------------------------ MODULE PolicyPacks ------------------------------
(****************************************************************************)
(* The policy_packs, sources and obligations tables                         *)
(* (governance-persistence, lib.rs): saving a pack as a draft, approving    *)
(* it, disabling and enabling it.                                           *)
(*                                                                          *)
(* A pack stands for its key and version and content for its rules.  A      *)
(* source is a pair of its id and what it says, an obligation a pair of its *)
(* source's id and its key.  reviewed says whether every obligation carries *)
(* a human approval; no statement changes an obligation after it is saved,  *)
(* and packs posted by hand bring sources of their own.  An administrator   *)
(* is one API request, so each makes at most one decision; its entry in     *)
(* policy_reviews is left out, since it is only displayed.  Transactions    *)
(* run at READ COMMITTED: one that reads without a row lock is two steps.   *)
(****************************************************************************)
CONSTANTS
    Packs,    \* (key, version) pairs
    Admins    \* requests to approve, disable or enable a pack

VARIABLES
    packs,        \* packs[k]: the row of policy_packs with its rules
    sources,      \* sources: <<id, content>>
    obligations,  \* obligations: <<source id, key>>
    admin         \* admin[a]: where the request stands

tableVars == <<packs, sources, obligations>>

packVars == <<tableVars, admin>>

PackStatus == {"draft", "approved", "disabled"}

(* There is no row for this key and version. *)
Absent == [status |-> "absent", content |-> {}, reviewed |-> FALSE]

Saved(k) == packs[k].status # "absent"

Waiting == [step |-> "waiting"]
Answered == [step |-> "answered"]
Approving(k) == [step |-> "approving", pack |-> k]

----------------------------------------------------------------------------
(* Saving *)

NewPack(content, reviewed) ==
    [status |-> "draft", content |-> content, reviewed |-> reviewed]

(* Faulty variant of VersionFree: versions are not checked. *)
VersionIgnored(k) == k \in Packs

(* ensure_version_available, with the unique index behind it. *)
VersionFree(k) == ~Saved(k)

(* insert_sources: a source that is there must say the same. *)
SourcesFit(srcs) ==
    \A new \in srcs, old \in sources : new[1] = old[1] => new = old

(* insert_obligations, under uq_obligation_source_key. *)
ObligationsFit(obls) == obls \cap obligations = {}

BundleFits(k, srcs, obls) ==
    VersionFree(k) /\ SourcesFit(srcs) /\ ObligationsFit(obls)

PersistBundle(k, content, reviewed, srcs, obls) ==
    /\ packs' = [packs EXCEPT ![k] = NewPack(content, reviewed)]
    /\ sources' = sources \cup srcs
    /\ obligations' = obligations \cup obls

(* save_bundle: a pack written by hand and posted to the API. *)
ImportPack(k, content, reviewed) ==
    /\ VersionFree(k)
    /\ PersistBundle(k, content, reviewed, {}, {})
    /\ UNCHANGED admin

----------------------------------------------------------------------------
(* Decisions *)

Decided(k, status) ==
    /\ packs' = [packs EXCEPT ![k].status = status]
    /\ UNCHANGED <<sources, obligations>>

(* Faulty variant of Approvable: the obligations are not looked at. *)
ApprovableDraft(k) == packs[k].status = "draft"

Approvable(k) == packs[k].status = "draft" /\ packs[k].reviewed

(* approve reads the row without locking it. *)
ApproveRead(a, k) ==
    /\ admin[a] = Waiting
    /\ Saved(k)
    /\ admin' = [admin EXCEPT ![a] =
           IF Approvable(k) THEN Approving(k) ELSE Answered]
    /\ UNCHANGED tableVars

(* The update names the row by its id alone. *)
ApproveWrite(a) ==
    /\ admin[a].step = "approving"
    /\ Decided(admin[a].pack, "approved")
    /\ admin' = [admin EXCEPT ![a] = Answered]

(* transition_pack_status locks the row before it looks at its status. *)
TransitionPackStatus(a, k, expected, next) ==
    /\ admin[a] = Waiting
    /\ Saved(k)
    /\ admin' = [admin EXCEPT ![a] = Answered]
    /\ IF packs[k].status = expected
       THEN Decided(k, next)
       ELSE UNCHANGED tableVars

Disable(a, k) == TransitionPackStatus(a, k, "approved", "disabled")

Enable(a, k) == TransitionPackStatus(a, k, "disabled", "approved")

PacksInit ==
    /\ packs = [k \in Packs |-> Absent]
    /\ sources = {}
    /\ obligations = {}
    /\ admin = [a \in Admins |-> Waiting]

DecisionNext ==
    \E a \in Admins :
        \/ ApproveWrite(a)
        \/ \E k \in Packs : ApproveRead(a, k) \/ Disable(a, k) \/ Enable(a, k)

----------------------------------------------------------------------------
(* Properties *)

(* A saved pack keeps its rules, whoever compiles or imports the same key   *)
(* and version again ("already exists and is immutable").                   *)
ContentStays ==
    [][\A k \in Packs : Saved(k) =>
           Saved(k)' /\ packs'[k].content = packs[k].content]_packVars

(* "Every extracted obligation must have a persisted human approval": no     *)
(* pack is or was approved without it, by approve or by enable.             *)
ApprovedIsReviewed ==
    \A k \in Packs :
        packs[k].status \in {"approved", "disabled"} => packs[k].reviewed
================================================================================
