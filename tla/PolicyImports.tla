----------------------------- MODULE PolicyImports -----------------------------
(****************************************************************************)
(* The policy lane: a document is uploaded, parsed and extracted by a       *)
(* worker into candidate rules, reviewed by people, and compiled into a     *)
(* draft pack, alone or as a member of a collection                         *)
(* (governance-application and -persistence, policy_import*.rs and          *)
(* policy_collections.rs; governance-worker, policy_import.rs;              *)
(* governance-api, policy_imports.rs).                                      *)
(*                                                                          *)
(* A call is one API request and goes through its database statements one   *)
(* by one; a transaction that locks the import's row first is one step.     *)
(* The upload request of an import is a call named like the import.         *)
(* updated_at is a number that every write of the row raises: stamps are    *)
(* only compared for equality.  A candidate is named by what was extracted  *)
(* and the stamp of its extraction, a rule by import, candidate and stamp,  *)
(* so that a rule stands for one wording.  A collection is named by the key *)
(* and version it reserves.                                                 *)
(*                                                                          *)
(* Left out: object storage (content-addressed, never updated), documents   *)
(* and wordings, batch items (written by the worker, never read by these    *)
(* handlers), creating and cloning collections.                             *)
(****************************************************************************)
EXTENDS PolicyPacks, Naturals, FiniteSets, Functions

CONSTANTS
    Imports,         \* policy imports
    Extracted,       \* what the model can extract from a document
    ImportWorkers,   \* workers of the extraction queue
    Calls,           \* API requests
    Collections,     \* draft collections, by the key and version reserved
    PolicySource,    \* PolicySource[i]: the document import i is a revision of
    PolicyFaults,    \* which of "stop" and "lost" may happen
    NoPack,          \* the import was not compiled into a pack
    NoSource,        \* the import was not compiled
    NoImport,        \* the import has not been uploaded
    NoWork           \* a worker without a job

VARIABLES
    imports,   \* imports[i]: the policy_imports row
    cands,     \* cands[i]: its policy_candidates, a function on their ids
    reviews,   \* policy_candidate_reviews: rules with the decision on them
    queue,     \* queue[i]: jobs waiting for import i
    work,      \* work[w]: the job worker w performs
    call,      \* call[p]: where request p stands
    coll       \* coll[g]: members with their positions, and the status

importVars == <<imports, cands, reviews, queue, work, call, coll>>

vars == <<packVars, importVars>>

Callers == Calls \cup Imports

ImportStatus ==
    {"uploading", "queued", "parsing", "extracting", "review_required",
     "ready_to_compile", "compiled", "needs_ocr", "failed_retryable",
     "failed_terminal"}

InReview(s) == s \in {"review_required", "ready_to_compile"}

ImportSources ==
    {NoSource} \cup {<<"import", i>> : i \in Imports}
               \cup {<<"stable", PolicySource[i]>> : i \in Imports}

ImportRows ==
    [status : ImportStatus, verified : {"pending", "verified", "rejected"},
     complete : BOOLEAN, ocr : BOOLEAN, pack : Packs \cup {NoPack},
     source : ImportSources, stamp : Nat]

CandidateType ==
    [status : {"pending", "approved", "rejected"}, ready : BOOLEAN, stamp : Nat]

Jobs ==
    [import : Imports, step : {"claim", "parse", "extract", "mark"},
     to : {"needs_ocr", "failed_retryable", "failed_terminal"}]

ASSUME PolicyAssumption ==
    /\ Collections \subseteq Packs
    /\ Calls \cap Imports = {}
    /\ PolicyFaults \subseteq {"stop", "lost"}
    /\ NoImport \notin Imports \cup ImportRows
    /\ NoWork \notin Jobs
    /\ NoPack \notin Packs

(* The steps of a request about one import. *)
ImportSteps ==
    {"store", "enqueue", "mark", "activate", "candidate", "save", "manual",
     "refresh", "list", "set", "material", "bundle"}

Begin == [step |-> "begin"]
Done == [step |-> "done"]
At(step, i) == [step |-> step, import |-> i]

Goto(p, c) == call' = [call EXCEPT ![p] = c]

----------------------------------------------------------------------------
(* Rows *)

NewImport == [status |-> "uploading", verified |-> "pending",
              complete |-> FALSE, ocr |-> FALSE, pack |-> NoPack,
              source |-> NoSource, stamp |-> 1]

Write(i, row) == imports' = [imports EXCEPT ![i] = [row EXCEPT !.stamp = @ + 1]]

SetStatus(i, s) == Write(i, [imports[i] EXCEPT !.status = s])

(* Faulty variant of Transition: the expected status is not in the filter. *)
TransitionBlind(i, expected, next) == SetStatus(i, next)

(* transition, a compare-and-set on the status. *)
Transition(i, expected, next) ==
    imports[i].status = expected /\ SetStatus(i, next)

(* mark_failure writes the status over whatever it is. *)
MarkFailure(i, s) == SetStatus(i, s)

----------------------------------------------------------------------------
(* Readiness *)

Approved(cs) == {id \in DOMAIN cs : cs[id].status = "approved"}

Disposed(cs) ==
    DOMAIN cs # {} /\ \A id \in DOMAIN cs : cs[id].status # "pending"

ReviewComplete(row, cs) ==
    /\ row.verified = "verified"
    /\ row.complete
    /\ Disposed(cs)
    /\ \A id \in Approved(cs) : cs[id].ready

IsReady(row, cs) == ReviewComplete(row, cs) /\ Approved(cs) # {}

(* Faulty variant of Rules: rejected candidates are compiled too. *)
RulesOfAll(i, cs) == {<<i, id, cs[id].stamp>> : id \in DOMAIN cs}

Rules(i, cs) == {<<i, id, cs[id].stamp>> : id \in Approved(cs)}

----------------------------------------------------------------------------
(* Uploading and queueing *)

CreateImport(i) ==
    /\ call[i] = Begin
    /\ imports' = [imports EXCEPT ![i] = NewImport]
    /\ Goto(i, At("store", i))
    /\ UNCHANGED <<cands, reviews, queue, work, coll, packVars>>

SourceStored(i) ==
    /\ call[i].step = "store"
    /\ Transition(i, "uploading", "queued")
    /\ Goto(i, At("enqueue", i))
    /\ UNCHANGED <<cands, reviews, queue, work, coll, packVars>>

SourceNotStored(i) ==
    /\ call[i].step = "store"
    /\ MarkFailure(i, "failed_retryable")
    /\ Goto(i, Done)
    /\ UNCHANGED <<cands, reviews, queue, work, coll, packVars>>

JobQueued(p) ==
    /\ call[p].step = "enqueue"
    /\ queue' = [queue EXCEPT ![call[p].import] = @ + 1]
    /\ Goto(p, Done)
    /\ UNCHANGED <<imports, cands, reviews, work, coll, packVars>>

(* perform_later answers an error; with a lost reply the job exists.  *)
JobRefused(p) ==
    /\ call[p].step = "enqueue"
    /\ queue' = [queue EXCEPT ![call[p].import] =
           @ + IF "lost" \in PolicyFaults THEN 1 ELSE 0]
    /\ Goto(p, At("mark", call[p].import))
    /\ UNCHANGED <<imports, cands, reviews, work, coll, packVars>>

(* The batch upload leaves the import as it is. *)
BatchJobRefused(i) ==
    /\ call[i].step = "enqueue"
    /\ Goto(i, Done)
    /\ UNCHANGED <<imports, cands, reviews, queue, work, coll, packVars>>

MarkRefused(p) ==
    /\ call[p].step = "mark"
    /\ MarkFailure(call[p].import, "failed_retryable")
    /\ Goto(p, Done)
    /\ UNCHANGED <<cands, reviews, queue, work, coll, packVars>>

(* retry_policy_import *)
Retry(p, i) ==
    /\ call[p] = Begin
    /\ Transition(i, "failed_retryable", "queued")
    /\ Goto(p, At("enqueue", i))
    /\ UNCHANGED <<cands, reviews, queue, work, coll, packVars>>

AwaitsOcr(row) == row.status = "needs_ocr" /\ ~row.ocr

(* AttachPolicyImportTransformation reads, stores the text and activates. *)
AttachOcr(p, i) ==
    /\ call[p] = Begin
    /\ AwaitsOcr(imports[i])
    /\ Goto(p, At("activate", i))
    /\ UNCHANGED <<imports, cands, reviews, queue, work, coll, packVars>>

ActivateOcr(p) ==
    LET i == call[p].import IN
    /\ call[p].step = "activate"
    /\ IF AwaitsOcr(imports[i])
       THEN /\ Write(i, [imports[i] EXCEPT !.ocr = TRUE, !.status = "queued",
                                           !.verified = "pending"])
            /\ Goto(p, At("enqueue", i))
       ELSE Goto(p, Done) /\ UNCHANGED imports
    /\ UNCHANGED <<cands, reviews, queue, work, coll, packVars>>

----------------------------------------------------------------------------
(* The extraction worker *)

Working(w, step) == work[w] # NoWork /\ work[w].step = step

Job(i, step) == [import |-> i, step |-> step, to |-> "failed_retryable"]

Failing(i, s) == [import |-> i, step |-> "mark", to |-> s]

WorkOn(w, j) == work' = [work EXCEPT ![w] = j]

TakeJob(w, i) ==
    /\ work[w] = NoWork
    /\ queue[i] > 0
    /\ queue' = [queue EXCEPT ![i] = @ - 1]
    /\ WorkOn(w, Job(i, "claim"))
    /\ UNCHANGED <<imports, cands, reviews, call, coll, packVars>>

BeginParsing(w) ==
    LET i == work[w].import IN
    /\ Working(w, "claim")
    /\ \/ Transition(i, "queued", "parsing") /\ WorkOn(w, Job(i, "parse"))
       \/ imports[i].status # "queued" /\ WorkOn(w, NoWork) /\ UNCHANGED imports
    /\ UNCHANGED <<cands, reviews, queue, call, coll, packVars>>

(* The extraction worker is not configured. *)
SetupFails(w) ==
    /\ Working(w, "claim")
    /\ WorkOn(w, Failing(work[w].import, "failed_retryable"))
    /\ UNCHANGED <<imports, cands, reviews, queue, call, coll, packVars>>

(* The artifact cannot be read or parsed, or has no text. *)
ParseFails(w) ==
    /\ Working(w, "parse")
    /\ \E s \in {"needs_ocr", "failed_retryable", "failed_terminal"} :
           WorkOn(w, Failing(work[w].import, s))
    /\ UNCHANGED <<imports, cands, reviews, queue, call, coll, packVars>>

MarkParsed(w) ==
    LET i == work[w].import IN
    /\ Working(w, "parse")
    /\ IF imports[i].status = "parsing"
       THEN /\ Write(i, [imports[i] EXCEPT !.status = "extracting",
                                           !.complete = FALSE])
            /\ WorkOn(w, Job(i, "extract"))
       ELSE WorkOn(w, Failing(i, "failed_retryable")) /\ UNCHANGED imports
    /\ UNCHANGED <<cands, reviews, queue, call, coll, packVars>>

(* The model answers an error, or candidates that do not match the text:    *)
(* those end the job without a word to the row.                             *)
ExtractFails(w) ==
    /\ Working(w, "extract")
    /\ WorkOn(w, NoWork) \/ WorkOn(w, Failing(work[w].import, "failed_retryable"))
    /\ UNCHANGED <<imports, cands, reviews, queue, call, coll, packVars>>

Reviewed(c) == c.status # "pending"

(* replace_unreviewed_candidates *)
ReplaceCandidates(w) ==
    LET i == work[w].import IN
    /\ Working(w, "extract")
    /\ IF /\ imports[i].status = "extracting"
          /\ \A id \in DOMAIN cands[i] : ~Reviewed(cands[i][id])
       THEN /\ \E found \in SUBSET Extracted, mapped \in BOOLEAN, all \in BOOLEAN :
                 /\ cands' = [cands EXCEPT ![i] =
                        [id \in found \X {imports[i].stamp} |->
                           [status |-> "pending", ready |-> mapped, stamp |-> 1]]]
                 /\ Write(i, [imports[i] EXCEPT
                        !.complete = all,
                        !.status = IF all THEN "review_required"
                                          ELSE "failed_retryable"])
            /\ WorkOn(w, NoWork)
       ELSE /\ WorkOn(w, Failing(i, "failed_retryable"))
            /\ UNCHANGED <<imports, cands>>
    /\ UNCHANGED <<reviews, queue, call, coll, packVars>>

MarkFailed(w) ==
    /\ Working(w, "mark")
    /\ MarkFailure(work[w].import, work[w].to)
    /\ WorkOn(w, NoWork)
    /\ UNCHANGED <<cands, reviews, queue, call, coll, packVars>>

----------------------------------------------------------------------------
(* Review *)

(* review_policy_candidate: read the import, read the candidate, save. *)
Review(p, i) ==
    /\ call[p] = Begin
    /\ InReview(imports[i].status)
    /\ Goto(p, At("candidate", i))
    /\ UNCHANGED <<imports, cands, reviews, queue, work, coll, packVars>>

(* The client sends no expected_updated_at (0), the current one or an older *)
(* one; the one before stands for all the older ones.                       *)
ReadCandidate(p) ==
    LET i == call[p].import IN
    /\ call[p].step = "candidate"
    /\ \E id \in DOMAIN cands[i] :
       \E expected \in {0, cands[i][id].stamp - 1, cands[i][id].stamp} :
           Goto(p, [step |-> "save", import |-> i, id |-> id,
                    copy |-> cands[i][id], expected |-> expected])
    /\ UNCHANGED <<imports, cands, reviews, queue, work, coll, packVars>>

(* Faulty variant of Mutable: only the first look at the status counts. *)
MutableAnyway(i) == i \in Imports

Mutable(i) == imports[i].status # "compiled"

SaveReview(p) ==
    LET c == call[p]  i == c.import IN
    /\ c.step = "save"
    /\ IF /\ Mutable(i)
          /\ c.id \in DOMAIN cands[i]
          /\ c.expected \in {0, cands[i][c.id].stamp}
       THEN \E decision \in {"approved", "rejected"}, ready \in BOOLEAN :
              LET stamp == cands[i][c.id].stamp + 1 IN
              /\ cands' = [cands EXCEPT ![i][c.id] =
                     [c.copy EXCEPT !.status = decision, !.ready = ready,
                                    !.stamp = stamp]]
              /\ reviews' = reviews \cup
                     {[rule |-> <<i, c.id, stamp>>, decision |-> decision]}
              /\ Goto(p, At("refresh", i))
       ELSE Goto(p, Done) /\ UNCHANGED <<cands, reviews>>
    /\ UNCHANGED <<imports, queue, work, coll, packVars>>

(* add_manual_policy_candidate *)
AddManual(p, i) ==
    /\ call[p] = Begin
    /\ InReview(imports[i].status)
    /\ Goto(p, At("manual", i))
    /\ UNCHANGED <<imports, cands, reviews, queue, work, coll, packVars>>

SaveManual(p) ==
    LET i == call[p].import  id == <<"manual", p>> IN
    /\ call[p].step = "manual"
    /\ IF InReview(imports[i].status)
       THEN /\ cands' = [cands EXCEPT ![i] =
                   [x \in DOMAIN @ \cup {id} |->
                      IF x = id THEN [status |-> "approved", ready |-> TRUE,
                                      stamp |-> 1]
                                ELSE @[x]]]
            /\ reviews' = reviews \cup
                   {[rule |-> <<i, id, 1>>, decision |-> "approved"]}
            /\ Write(i, imports[i])
            /\ Goto(p, At("refresh", i))
       ELSE Goto(p, Done) /\ UNCHANGED <<imports, cands, reviews>>
    /\ UNCHANGED <<queue, work, coll, packVars>>

VerifySource(p, i) ==
    /\ call[p] = Begin
    /\ InReview(imports[i].status)
    /\ \E v \in {"verified", "rejected"} :
           Write(i, [imports[i] EXCEPT !.verified = v])
    /\ Goto(p, At("refresh", i))
    /\ UNCHANGED <<cands, reviews, queue, work, coll, packVars>>

(* refresh_import_readiness: read the import, list the candidates, write. *)
RefreshRead(p) ==
    LET i == call[p].import IN
    /\ call[p].step = "refresh"
    /\ Goto(p, [step |-> "list", import |-> i, row |-> imports[i]])
    /\ UNCHANGED <<imports, cands, reviews, queue, work, coll, packVars>>

RefreshList(p) ==
    LET i == call[p].import IN
    /\ call[p].step = "list"
    /\ Goto(p, [step |-> "set", import |-> i,
                to |-> IF ReviewComplete(call[p].row, cands[i])
                       THEN "ready_to_compile" ELSE "review_required"])
    /\ UNCHANGED <<imports, cands, reviews, queue, work, coll, packVars>>

SetReviewState(p) ==
    LET i == call[p].import IN
    /\ call[p].step = "set"
    /\ IF InReview(imports[i].status) THEN SetStatus(i, call[p].to)
                                      ELSE UNCHANGED imports
    /\ Goto(p, Done)
    /\ UNCHANGED <<cands, reviews, queue, work, coll, packVars>>

----------------------------------------------------------------------------
(* Compiling one import *)

Compile(p, i, k) ==
    /\ call[p] = Begin
    /\ imports[i] # NoImport
    /\ Goto(p, IF imports[i].pack = NoPack
               THEN [step |-> "material", import |-> i, pack |-> k,
                     row |-> imports[i]]
               ELSE Done)
    /\ UNCHANGED <<imports, cands, reviews, queue, work, coll, packVars>>

CompileList(p) ==
    LET c == call[p]  cs == cands[c.import] IN
    /\ c.step = "material"
    /\ Goto(p, IF IsReady(c.row, cs) /\ c.row.status = "ready_to_compile"
               THEN [step |-> "bundle", import |-> c.import, pack |-> c.pack,
                     content |-> Rules(c.import, cs)]
               ELSE Done)
    /\ UNCHANGED <<imports, cands, reviews, queue, work, coll, packVars>>

(* save_compiled_bundle looks at the status of the import, not at what the  *)
(* bundle was made from.                                                    *)
CompileSave(p) ==
    LET c == call[p]
        i == c.import
        source == <<"import", i>>
        obls == {<<source, <<"plain", r[2]>>>> : r \in c.content}
    IN
    /\ c.step = "bundle"
    /\ IF /\ imports[i].pack = NoPack
          /\ imports[i].status = "ready_to_compile"
          /\ BundleFits(c.pack, {<<source, i>>}, obls)
       THEN /\ PersistBundle(c.pack, c.content, TRUE, {<<source, i>>}, obls)
            /\ Write(i, [imports[i] EXCEPT !.status = "compiled",
                                           !.pack = c.pack, !.source = source])
       ELSE UNCHANGED <<tableVars, imports>>
    /\ Goto(p, Done)
    /\ UNCHANGED <<cands, reviews, queue, work, coll, admin>>

----------------------------------------------------------------------------
(* Collections *)

Members(g) == DOMAIN coll[g].members

Draft(g) == ~coll[g].compiled

Extend(f, i, v) == [j \in DOMAIN f \cup {i} |-> IF j = i THEN v ELSE f[j]]

NextPosition(g) == Cardinality(Members(g))

(* The insert of the member breaks one of the unique indexes. *)
MemberRefused(g, i) ==
    \/ \E j \in Members(g) : PolicySource[j] = PolicySource[i]
    \/ NextPosition(g) \in Range(coll[g].members)

AddMember(p, g, i) ==
    /\ call[p] = Begin
    /\ imports[i] # NoImport
    /\ Draft(g)
    /\ coll' = [coll EXCEPT ![g].members =
           IF MemberRefused(g, i) THEN @ ELSE Extend(@, i, NextPosition(g))]
    /\ Goto(p, Done)
    /\ UNCHANGED <<imports, cands, reviews, queue, work, packVars>>

(* The members that stay keep their positions. *)
RemoveMember(p, g, i) ==
    /\ call[p] = Begin
    /\ Draft(g)
    /\ i \in Members(g)
    /\ coll' = [coll EXCEPT ![g].members = Restrict(@, Members(g) \ {i})]
    /\ Goto(p, Done)
    /\ UNCHANGED <<imports, cands, reviews, queue, work, packVars>>

(* compile_policy_collection: the members, then each with its candidates. *)
Gather(p, g) ==
    /\ call[p] = Begin
    /\ Draft(g)
    /\ Members(g) # {}
    /\ Goto(p, [step |-> "gather", coll |-> g, left |-> Members(g),
                rows |-> <<>>, lists |-> <<>>])
    /\ UNCHANGED <<imports, cands, reviews, queue, work, coll, packVars>>

Compilable(row) == row.status \in {"ready_to_compile", "compiled"}

GatherImport(p) ==
    LET c == call[p] IN
    /\ c.step = "gather"
    /\ \E i \in c.left :
         Goto(p, IF Compilable(imports[i])
                 THEN [c EXCEPT !.step = "gather_list", !.left = @ \ {i},
                                !.rows = Extend(@, i, imports[i])]
                 ELSE Done)
    /\ UNCHANGED <<imports, cands, reviews, queue, work, coll, packVars>>

GatherCandidates(p) ==
    LET c == call[p] IN
    /\ c.step = "gather_list"
    /\ \E i \in DOMAIN c.rows \ DOMAIN c.lists :
         Goto(p, [c EXCEPT !.step = IF c.left = {} THEN "collect" ELSE "gather",
                           !.lists = Extend(@, i, cands[i])])
    /\ UNCHANGED <<imports, cands, reviews, queue, work, coll, packVars>>

CollectionReady(c) ==
    /\ \A i \in DOMAIN c.rows : ReviewComplete(c.rows[i], c.lists[i])
    /\ \E i \in DOMAIN c.rows : Approved(c.lists[i]) # {}

SourceId(c, i) ==
    IF c.rows[i].source = NoSource THEN <<"stable", PolicySource[i]>>
                                   ELSE c.rows[i].source

CollectedSources(c) == {<<SourceId(c, i), i>> : i \in DOMAIN c.rows}

CollectedRules(c) == UNION {Rules(i, c.lists[i]) : i \in DOMAIN c.rows}

CollectedObligations(c) ==
    {<<SourceId(c, r[1]), <<"collected", r[2]>>>> : r \in CollectedRules(c)}

(* Faulty variant of SnapshotHolds: the candidates are not looked at again. *)
SnapshotOfImports(c) ==
    /\ DOMAIN c.rows = Members(c.coll)
    /\ \A i \in DOMAIN c.rows :
         imports[i].stamp = c.rows[i].stamp /\ Compilable(imports[i])

(* The review snapshot, compared under locks on every row of it. *)
SnapshotHolds(c) ==
    /\ DOMAIN c.rows = Members(c.coll)
    /\ \A i \in DOMAIN c.rows :
         /\ imports[i].stamp = c.rows[i].stamp
         /\ Compilable(imports[i])
         /\ \A id \in DOMAIN c.lists[i] :
              id \in DOMAIN cands[i] /\ cands[i][id].stamp = c.lists[i][id].stamp

Unchanged(c) == CollectionReady(c) /\ Draft(c.coll) /\ SnapshotHolds(c)

Collected(c, i) ==
    [imports[i] EXCEPT !.status = "compiled", !.stamp = @ + 1,
                       !.source = SourceId(c, i),
                       !.pack = IF @ = NoPack THEN c.coll ELSE @]

CollectionSave(p) ==
    LET c == call[p] IN
    /\ c.step = "collect"
    /\ IF /\ Unchanged(c)
          /\ BundleFits(c.coll, CollectedSources(c), CollectedObligations(c))
       THEN /\ PersistBundle(c.coll, CollectedRules(c), TRUE,
                             CollectedSources(c), CollectedObligations(c))
            /\ imports' = [i \in Imports |->
                   IF i \in DOMAIN c.rows THEN Collected(c, i) ELSE imports[i]]
            /\ coll' = [coll EXCEPT ![c.coll].compiled = TRUE]
       ELSE UNCHANGED <<tableVars, imports, coll>>
    /\ Goto(p, Done)
    /\ UNCHANGED <<cands, reviews, queue, work, admin>>

----------------------------------------------------------------------------
(* Faults *)

(* A worker stops; its job is not given to anybody else. *)
ImportWorkerStops(w) ==
    /\ "stop" \in PolicyFaults
    /\ work[w] # NoWork
    /\ WorkOn(w, NoWork)
    /\ UNCHANGED <<imports, cands, reviews, queue, call, coll, packVars>>

CallStops(p) ==
    /\ "stop" \in PolicyFaults
    /\ call[p] \notin {Begin, Done}
    /\ Goto(p, Done)
    /\ UNCHANGED <<imports, cands, reviews, queue, work, coll, packVars>>

----------------------------------------------------------------------------
(* An import that has come through extraction and review the normal way. *)
ReviewedImport == [NewImport EXCEPT !.status = "ready_to_compile",
                                    !.verified = "verified", !.complete = TRUE]

(* Some imports are there and reviewed, and some of these are members. *)
Prepared(there) ==
    /\ imports = [i \in Imports |-> IF i \in there THEN ReviewedImport
                                                   ELSE NoImport]
    /\ cands = [i \in Imports |->
         [id \in (IF i \in there THEN Extracted \X {0} ELSE {}) |->
            [status |-> "approved", ready |-> TRUE, stamp |-> 2]]]
    /\ reviews = UNION {{[rule |-> <<i, <<x, 0>>, 2>>, decision |-> "approved"] :
                             x \in Extracted} : i \in there}
    /\ call = [p \in Callers |-> IF p \in there THEN Done ELSE Begin]
    /\ \E members \in [Collections -> UNION
             {Bijection(S, 0 .. Cardinality(S) - 1) : S \in SUBSET there}] :
         coll = [g \in Collections |->
                   [members |-> members[g], compiled |-> FALSE]]

Init ==
    /\ PacksInit
    /\ \E there \in SUBSET Imports : Prepared(there)
    /\ queue = [i \in Imports |-> 0]
    /\ work = [w \in ImportWorkers |-> NoWork]

UploadStep(i) ==
    CreateImport(i) \/ SourceStored(i) \/ SourceNotStored(i) \/ BatchJobRefused(i)

SubmitStep(p) == JobQueued(p) \/ JobRefused(p) \/ MarkRefused(p)

WorkerStep(w) ==
    \/ \E i \in Imports : TakeJob(w, i)
    \/ SetupFails(w) \/ BeginParsing(w) \/ ParseFails(w) \/ MarkParsed(w)
    \/ ExtractFails(w) \/ ReplaceCandidates(w) \/ MarkFailed(w)

Request(p, i) ==
    /\ imports[i] # NoImport
    /\ \/ Retry(p, i) \/ AttachOcr(p, i) \/ Review(p, i) \/ AddManual(p, i)
       \/ VerifySource(p, i)
       \/ \E g \in Collections : AddMember(p, g, i) \/ RemoveMember(p, g, i)
       \/ \E k \in Packs : Compile(p, i, k)

CallStep(p) ==
    \/ \E i \in Imports : Request(p, i)
    \/ ActivateOcr(p) \/ ReadCandidate(p) \/ SaveReview(p) \/ SaveManual(p)
    \/ RefreshRead(p) \/ RefreshList(p) \/ SetReviewState(p)
    \/ CompileList(p) \/ CompileSave(p)
    \/ \E g \in Collections : Gather(p, g)
    \/ GatherImport(p) \/ GatherCandidates(p) \/ CollectionSave(p)

PostedRule == <<NoImport, NoImport, 0>>

(* A pack posted by hand has nothing to do with the imports. *)
PackStep ==
    \/ /\ \E k \in Packs, reviewed \in BOOLEAN : ImportPack(k, {PostedRule}, reviewed)
       /\ UNCHANGED importVars
    \/ DecisionNext /\ UNCHANGED importVars

Next ==
    \/ \E i \in Imports : UploadStep(i)
    \/ \E p \in Callers : SubmitStep(p) \/ CallStops(p)
    \/ \E w \in ImportWorkers : WorkerStep(w) \/ ImportWorkerStops(w)
    \/ \E p \in Calls : CallStep(p)
    \/ PackStep

Spec == Init /\ [][Next]_vars

----------------------------------------------------------------------------
(* Properties *)

(* Every row, list and job has its type, no pack is empty, and a request    *)
(* past its first step works on an import that was uploaded.                *)
PolicyTypeOK ==
    /\ \A k \in Packs : Saved(k) =>
         packs[k].status \in PackStatus /\ packs[k].content # {}
    /\ imports \in [Imports -> ImportRows \cup {NoImport}]
    /\ \A i \in Imports : cands[i] \in [DOMAIN cands[i] -> CandidateType]
    /\ queue \in [Imports -> Nat]
    /\ work \in [ImportWorkers -> Jobs \cup {NoWork}]
    /\ \A w \in ImportWorkers : work[w] # NoWork =>
         imports[work[w].import] # NoImport
    /\ \A p \in Callers : call[p].step \in ImportSteps =>
         call[p].import \in Imports /\ imports[call[p].import] # NoImport
    /\ \A g \in Collections :
         Members(g) \subseteq Imports /\ coll[g].compiled \in BOOLEAN

(* However often an import is retried and its job queued, one worker at a   *)
(* time parses it or extracts from it.                                      *)
OneExtraction ==
    \A v, w \in ImportWorkers :
        /\ work[v] # NoWork /\ work[w] # NoWork
        /\ work[v].import = work[w].import
        /\ {work[v].step, work[w].step} \subseteq {"parse", "extract", "mark"}
        => v = w

(* "Compiled imports are immutable": no reviewer, verifier, refresh or      *)
(* worker that set out earlier changes what a pack was compiled from.       *)
CompiledImmutable ==
    [][\A i \in Imports :
         imports[i] # NoImport /\ imports[i].status = "compiled" =>
           /\ imports'[i].status = "compiled"
           /\ imports'[i].verified = imports[i].verified
           /\ imports'[i].pack = imports[i].pack
           /\ cands'[i] = cands[i]]_vars

(* A collection is compiled from what its members' reviews say at that      *)
(* moment, all of them complete, whoever reviewed while it was compiled.    *)
CollectionFaithful ==
    [][\A g \in Collections : Draft(g) /\ coll'[g].compiled =>
         /\ packs'[g].content = UNION {Rules(i, cands[i]) : i \in Members(g)}
         /\ \A i \in Members(g) : ReviewComplete(imports[i], cands[i])]_vars

(* Every compiled rule was approved by a person, in the wording compiled.   *)
PackRulesReviewed ==
    \A k \in Packs : Saved(k) =>
        \A r \in packs[k].content \ {PostedRule} :
            [rule |-> r, decision |-> "approved"] \in reviews

(* A pack compiled from one import holds the rules approved at that moment, *)
(* of an import that is ready at that moment.                               *)
SingleFaithful ==
    [][\A i \in Imports :
         /\ imports[i] # NoImport
         /\ imports[i].pack = NoPack /\ imports'[i].pack # NoPack
         /\ coll' = coll
         => /\ packs'[imports'[i].pack].content = Rules(i, cands[i])
            /\ IsReady(imports[i], cands[i])]_vars

(* "A stable source ID is reused in later pack versions": a collection that *)
(* is ready and unchanged is compiled if its version is free, whatever was  *)
(* compiled from its members before.                                        *)
LaterVersionsCompile ==
    \A p \in Calls :
        LET c == call[p] IN
        c.step = "collect" /\ Unchanged(c) /\ VersionFree(c.coll) =>
            BundleFits(c.coll, CollectedSources(c), CollectedObligations(c))
================================================================================
