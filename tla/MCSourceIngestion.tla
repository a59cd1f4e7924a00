--------------------------- MODULE MCSourceIngestion ---------------------------
(* How documents come in, three questions on one instance each: connecting  *)
(* accounts and acquiring their files (SourceIngestion, a behaviour makes   *)
(* the requests of one of Scenarios, on one file of one account), what is   *)
(* extracted from a document (Extraction), and the versions of the          *)
(* collection the imports go to (CollectionVersions).  They share no state, *)
(* so a behaviour takes one of them (lane) and the others rest where they   *)
(* begin.                                                                   *)
EXTENDS SourceIngestion, SourceRequests, Extraction, CollectionVersions

CONSTANTS
    Scenarios,   \* what happens together, see SourceRequests
    Late,        \* callbacks still to come when the requests begin
    Questions    \* the lanes

VARIABLE lane

WorkerSymmetry == Permutations(Workers)

Excerpt(segment, from, to, sound) ==
    [from |-> from, segment |-> segment, sound |-> sound, to |-> to]

SmallDocuments == UNION {[1..n -> {1, 2, 5}] : n \in 1..3}

\* Excerpts of three segments, across a cut, past the end, and one that is refused.
SmallExcerpts ==
    {Excerpt(1, 1, 2, TRUE), Excerpt(2, 3, 4, TRUE), Excerpt(2, 1, 1, FALSE),
     Excerpt(3, 1, 1, TRUE), Excerpt(1, 4, 5, TRUE), Excerpt(4, 1, 1, TRUE)}

\* i1 and i2 are revisions of one source.
SmallLineage == [i \in Imports |-> IF i = "i3" THEN "s2" ELSE "s1"]

Connection == CHOOSE c \in ConnectionIds : TRUE

(* The account was authorized; the callbacks in Late are still to come.     *)
AccountInit(authorized) ==
    /\ oauth = [s \in OAuthStates |-> IF Late = {} THEN "used" ELSE "none"]
    /\ callback = [k \in Callbacks |->
           [id |-> None, state |-> None, step |-> IF k \in Late THEN "new" ELSE "done"]]
    /\ conn = IF authorized
              THEN [credential |-> Connection, id |-> Connection, status |-> "active"]
              ELSE None

(* The selection is done and what it acquired was reviewed and compiled.    *)
AcquiredInit ==
    /\ sub = [f \in Files |-> [last |-> 1, seen |-> 1, status |-> "active"]]
    /\ item = [i \in Items |->
           IF i = 1 THEN [import |-> 1, status |-> "review_required"] ELSE None]
    /\ batch = [b \in Batches |->
           IF b = "select"
           THEN [failed |-> 0, status |-> "complete", succeeded |-> 1, unchanged |-> 0]
           ELSE None]
    /\ import = [i \in Items |->
           IF i = 1 THEN [parent |-> None, revision |-> 1, source |-> 1,
                          status |-> "compiled", stored |-> "complete", version |-> 1]
           ELSE None]
    /\ members = IF "select" \in Gathered THEN {1} ELSE {}

ScenarioInit(s) ==
    /\ AccountInit(s.account)
    /\ remote = [f \in Files |-> 1]
    /\ acquire = [i \in Items |-> 0] /\ extract = [i \in Items |-> 0]
    /\ at = [a \in Actors |-> IF a \in s.makes THEN New ELSE Free]
    /\ IF s.acquired THEN AcquiredInit
       ELSE /\ sub = [f \in Files |-> None]
            /\ item = [i \in Items |-> None] /\ batch = [b \in Batches |-> None]
            /\ import = [i \in Items |-> None] /\ members = {}

(* Nobody asks for anything: only people come to authorize the account.     *)
ConnectionsOnly == Init /\ at = [a \in Actors |-> Free]

RequestsInit == ConnectionsOnly \/ \E s \in Scenarios : ScenarioInit(s)

(* A draft with two members, of which a reader wants a later version.       *)
VersionOne ==
    /\ draft = [v \in Numbers |-> IF v = 1 THEN TRUE ELSE None]
    /\ rows = [v \in Numbers |->
           IF v = 1 THEN {[import |-> "i1", position |-> 0], [import |-> "i3", position |-> 1]}
           ELSE {}]
    /\ removed = [v \in Numbers |-> {}]
    /\ editor = [e \in Editors |-> [step |-> "new"]]

MCInit ==
    /\ lane \in Questions
    /\ IF lane = "requests" THEN RequestsInit ELSE ConnectionsOnly
    /\ ExtractionInit
    /\ lane # "extract" => document = CHOOSE d \in Documents : TRUE
    /\ VersionOne

(* The second of two selections has begun. *)
SelectedAgain ==
    "again" \in Batches /\ (at["again"].step \notin {"new", "free"} \/ batch["again"] # None)

(* Bound: the account is not disconnected any more when a file is selected  *)
(* again.                                                                   *)
AccountKept == SelectedAgain => conn' = conn \/ conn'.status # "disconnected"

Stopped == {w \in Workers : at[w].step = "stopped"}

(* Bound: one worker stops; the other goes on.                              *)
OneStops == Cardinality(Stopped') <= 1

(* Bound: when a file is selected again, it changes or a worker stops.      *)
OneUpset == SelectedAgain' => Stopped' = {} \/ \A f \in Files : remote'[f] = 1

MCNext ==
    \/ /\ lane = "requests"
       /\ Next /\ AccountKept /\ OneStops /\ OneUpset
       /\ UNCHANGED <<lane, extractionVars, versionVars>>
    \/ lane = "extract" /\ ExtractionNext /\ UNCHANGED <<lane, vars, versionVars>>
    \/ lane = "versions" /\ VersionsNext /\ UNCHANGED <<lane, vars, extractionVars>>

MCSpec == MCInit /\ [][MCNext]_<<lane, vars, extractionVars, versionVars>>

(* Type invariant of the three. *)
TypesOK ==
    /\ lane = "requests" => SourcesTypeOK
    /\ lane = "extract" => ExtractionTypeOK
    /\ lane = "versions" => VersionsTypeOK
================================================================================
