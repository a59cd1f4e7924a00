--------------------------- MODULE CollectionVersions ---------------------------
(****************************************************************************)
(* The versions of a policy collection: creating one, cloning one into a    *)
(* later version member by member, and adding and removing members while    *)
(* others do (create_policy_collection and clone_policy_collection of       *)
(* governance-application, policy_collections.rs of governance-persistence  *)
(* and of governance-api).                                                  *)
(*                                                                          *)
(* One key.  A row is named by its version, which is unique; what compiling *)
(* takes from a collection is in PolicyImports.                             *)
(****************************************************************************)
EXTENDS Rows, FiniteSets, Naturals, Sequences

CONSTANTS
    Numbers,      \* the versions of the collection
    Imports,      \* imports that may become members
    SourceOf,     \* SourceOf[i]: the source import i is a revision of
    Editors       \* requests

VARIABLES
    draft,        \* draft[v]: TRUE, FALSE once compiled, or None
    rows,         \* rows[v]: the rows [import, position] of version v
    removed,      \* removed[v]: what was removed from version v, for the properties
    editor        \* editor[e]: where request e stands

versionVars == <<draft, rows, removed, editor>>

VersionsInit ==
    /\ draft = [v \in Numbers |-> None]
    /\ rows = [v \in Numbers |-> {}]
    /\ removed = [v \in Numbers |-> {}]
    /\ editor = [e \in Editors |-> [step |-> "new"]]

Is(e, step) == editor[e].step = step

Goes(e, place) == editor' = [editor EXCEPT ![e] = place]

Ends(e, step) == Goes(e, [step |-> step])

ImportsOf(members) == {m.import : m \in members}

-----------------------------------------------------------------------------
(* create: key and version are unique; a request that is not answered is    *)
(* "failed", whatever it did.                                               *)
CreateCollection(e, v) ==
    /\ Is(e, "new")
    /\ IF draft[v] = None
       THEN draft' = [draft EXCEPT ![v] = TRUE] /\ Ends(e, "done")
       ELSE UNCHANGED draft /\ Ends(e, "failed")
    /\ UNCHANGED <<rows, removed>>

(* What a request may be refused for before it reads or writes anything.    *)
Reject(e) ==
    /\ ~Is(e, "done") /\ ~Is(e, "failed") /\ ~Is(e, "cloned")
    /\ Ends(e, "failed")
    /\ UNCHANGED <<draft, rows, removed>>

\* What a row may not repeat of another: import, source or position.
Clashes(members, i, position) ==
    \E m \in members :
        m.import = i \/ SourceOf[m.import] = SourceOf[i] \/ m.position = position

(* add_import, one transaction under a lock of the collection: the position *)
(* is the number of the members.                                            *)
Addable(v, i) ==
    draft[v] = TRUE /\ ~Clashes(rows[v], i, Cardinality(rows[v]))

AddRow(v, i) ==
    rows' = [rows EXCEPT ![v] = @ \cup {[import |-> i, position |-> Cardinality(@)]}]

AddImport(e, v, i) ==
    /\ Is(e, "new")
    /\ IF Addable(v, i) THEN AddRow(v, i) /\ Ends(e, "done")
                        ELSE UNCHANGED rows /\ Ends(e, "failed")
    /\ UNCHANGED <<draft, removed>>

RemoveImport(e, v, i) ==
    /\ Is(e, "new")
    /\ IF draft[v] = TRUE /\ i \in ImportsOf(rows[v])
       THEN /\ rows' = [rows EXCEPT ![v] = {m \in @ : m.import # i}]
            /\ removed' = [removed EXCEPT ![v] = @ \cup {i}]
            /\ Ends(e, "done")
       ELSE UNCHANGED <<rows, removed>> /\ Ends(e, "failed")
    /\ UNCHANGED draft

(* Compiled: the members stay what they are.                                *)
CompileCollection(v) ==
    /\ draft[v] = TRUE /\ rows[v] # {}
    /\ draft' = [draft EXCEPT ![v] = FALSE]
    /\ UNCHANGED <<rows, removed, editor>>

-----------------------------------------------------------------------------
(* clone_policy_collection *)

CloneRead(e, v, w) ==
    /\ Is(e, "new") /\ draft[v] # None /\ w > v
    /\ Goes(e, [from |-> v, step |-> "members", to |-> w])
    /\ UNCHANGED <<draft, rows, removed>>

(* The members in the order of their positions.                             *)
InOrder(members) ==
    [k \in 1..Cardinality(members) |->
        (CHOOSE m \in members :
            Cardinality({n \in members : n.position < m.position}) = k - 1).import]

CloneMembers(e) ==
    /\ Is(e, "members")
    /\ Goes(e, [from |-> editor[e].from, read |-> InOrder(rows[editor[e].from]),
                step |-> "create", to |-> editor[e].to])
    /\ UNCHANGED <<draft, rows, removed>>

CloneCreate(e) ==
    /\ Is(e, "create")
    /\ IF draft[editor[e].to] = None
       THEN /\ draft' = [draft EXCEPT ![editor[e].to] = TRUE]
            /\ Goes(e, [added |-> 0, read |-> editor[e].read, step |-> "add",
                        to |-> editor[e].to])
       ELSE UNCHANGED draft /\ Ends(e, "failed")
    /\ UNCHANGED <<rows, removed>>

(* Faulty variant of CloneAdd: a member that is refused is left out.        *)
CloneAddForgiving(e) ==
    /\ Is(e, "add") /\ editor[e].added < Len(editor[e].read)
    /\ LET i == editor[e].read[editor[e].added + 1]
       IN  IF Addable(editor[e].to, i) THEN AddRow(editor[e].to, i) ELSE UNCHANGED rows
    /\ Goes(e, [editor[e] EXCEPT !.added = @ + 1])
    /\ UNCHANGED <<draft, removed>>

CloneAdd(e) ==
    /\ Is(e, "add") /\ editor[e].added < Len(editor[e].read)
    /\ LET i == editor[e].read[editor[e].added + 1]
       IN  IF Addable(editor[e].to, i)
           THEN /\ AddRow(editor[e].to, i)
                /\ Goes(e, [editor[e] EXCEPT !.added = @ + 1])
           ELSE UNCHANGED rows /\ Ends(e, "failed")
    /\ UNCHANGED <<draft, removed>>

CloneAnswered(e) ==
    /\ Is(e, "add") /\ editor[e].added = Len(editor[e].read)
    /\ Goes(e, [read |-> editor[e].read, step |-> "cloned", to |-> editor[e].to])
    /\ UNCHANGED <<draft, rows, removed>>

VersionsNext ==
    \/ \E e \in Editors :
        \/ \E v \in Numbers : CreateCollection(e, v)
        \/ \E v \in Numbers, i \in Imports : AddImport(e, v, i) \/ RemoveImport(e, v, i)
        \/ \E v, w \in Numbers : CloneRead(e, v, w)
        \/ CloneMembers(e) \/ CloneCreate(e) \/ CloneAdd(e) \/ CloneAnswered(e)
        \/ Reject(e)
    \/ \E v \in Numbers : CompileCollection(v)

VersionsSpec == VersionsInit /\ [][VersionsNext]_versionVars

-----------------------------------------------------------------------------
(* Properties *)

VersionsTypeOK ==
    \A v \in Numbers :
        /\ draft[v] \in {None, TRUE, FALSE}
        /\ draft[v] = None => rows[v] = {}
        /\ rows[v] \in SUBSET [import : Imports, position : Nat]

(* A version that cloning answered with holds every member that was read,   *)
(* but for those removed from it since, and as long as none was in the      *)
(* order it had, whatever others did to either version meanwhile            *)
(* (clone_policy_collection).                                               *)
CloneIsFaithful ==
    \A e \in Editors : Is(e, "cloned") =>
        LET v == editor[e].to  read == editor[e].read IN
        /\ \A k \in DOMAIN read : read[k] \in ImportsOf(rows[v]) \cup removed[v]
        /\ removed[v] = {} =>
               \A m, n \in rows[v] : \A j, k \in DOMAIN read :
                   j < k /\ m.import = read[j] /\ n.import = read[k]
                       => m.position < n.position
=================================================================================
