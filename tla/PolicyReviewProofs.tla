--------------------------- MODULE PolicyReviewProofs ---------------------------
(****************************************************************************)
(* What a pack is compiled from, for any number of imports, requests,       *)
(* workers, candidates and collections: rules a person approved, and for a  *)
(* collection the reviews of all its members as they are at that moment.    *)
(* Without a lost answer of the queue, one worker at a time extracts from   *)
(* an import, and what is compiled stays as it is.                          *)
(*                                                                          *)
(* The requests read in one statement and write in a later one.  CallInv    *)
(* says what a request holds and what of it is still so: a row it read is   *)
(* the row unless its stamp has passed it, and so are the candidates.       *)
(****************************************************************************)
EXTENDS PolicyImports, TLAPS

----------------------------------------------------------------------------
(****************************************************************************)
(* What the policy lane can do to the packs, and why no order of            *)
(* compilations, posts and decisions changes the rules of a pack or         *)
(* publishes one that was not reviewed.                                     *)
(****************************************************************************)

----------------------------------------------------------------------------
(* The inductive invariant *)

(* A row has the three fields and nothing else. *)
PackRow(r) ==
    /\ r = [status |-> r.status, content |-> r.content, reviewed |-> r.reviewed]
    /\ r.status \in PackStatus \cup {"absent"}
    /\ r.reviewed \in BOOLEAN

AdminStates == {Waiting, Answered} \cup {Approving(k) : k \in Packs}

PacksTyped ==
    /\ packs = [k \in Packs |-> packs[k]]
    /\ \A k \in Packs : PackRow(packs[k])
    /\ admin \in [Admins -> AdminStates]

(* An approval that was granted but not yet written is of a reviewed pack;  *)
(* nothing takes that pack away in between.                                 *)
GrantedIsReviewed ==
    \A a \in Admins : admin[a].step = "approving" =>
        /\ admin[a].pack \in Packs
        /\ Saved(admin[a].pack)
        /\ packs[admin[a].pack].reviewed

PacksInv == PacksTyped /\ GrantedIsReviewed /\ ApprovedIsReviewed

----------------------------------------------------------------------------
(* What a step does to the packs *)

(* What a save writes: a rule posted by hand, what a request compiled from  *)
(* one import, or what it collected.                                        *)
Savable(content) ==
    \/ content = {PostedRule}
    \/ \E p \in Calls : call[p].step = "bundle" /\ content = call[p].content
    \/ \E p \in Calls : /\ call[p].step = "collect" /\ Unchanged(call[p])
                        /\ content = CollectedRules(call[p])

(* Nothing but a save writes a pack the lane did not know, and nothing but  *)
(* a decision writes one that is there.                                     *)
PacksSave ==
    /\ UNCHANGED admin
    /\ \E k, content : \E reviewed \in BOOLEAN :
         /\ VersionFree(k) /\ Savable(content)
         /\ packs' = [packs EXCEPT ![k] = NewPack(content, reviewed)]

LEMMA StepOfPacks ==
    ASSUME [Next]_vars
    PROVE  UNCHANGED <<packs, admin>> \/ PacksSave \/ DecisionNext
PROOF
<1> USE DEF packVars, tableVars
<1>1. ASSUME NEW i \in Imports, UploadStep(i) PROVE UNCHANGED <<packs, admin>>
    BY <1>1 DEF UploadStep, CreateImport, SourceStored, SourceNotStored, BatchJobRefused
<1>2. ASSUME NEW p \in Callers, SubmitStep(p) \/ CallStops(p)
      PROVE  UNCHANGED <<packs, admin>>
    BY SMTT(30), <1>2 DEF SubmitStep, JobQueued, JobRefused, MarkRefused, CallStops
<1>3. ASSUME NEW w \in ImportWorkers, WorkerStep(w) \/ ImportWorkerStops(w)
      PROVE  UNCHANGED <<packs, admin>>
    BY <1>3 DEF WorkerStep, TakeJob, SetupFails, BeginParsing, ParseFails, MarkParsed,
        ExtractFails, ReplaceCandidates, MarkFailed, ImportWorkerStops
<1>4. ASSUME NEW p \in Calls, CallStep(p)
      PROVE  UNCHANGED <<packs, admin>> \/ PacksSave
    <2>1. ASSUME NEW i \in Imports, Request(p, i) PROVE UNCHANGED <<packs, admin>>
        BY <2>1 DEF Request, Retry, AttachOcr, Review, AddManual, VerifySource,
            AddMember, RemoveMember, Compile
    <2>2. CASE CompileSave(p)
        BY <2>2 DEF CompileSave, PersistBundle, BundleFits, PacksSave, Savable
    <2>3. CASE CollectionSave(p)
        BY <2>3 DEF CollectionSave, PersistBundle, BundleFits, PacksSave, Savable
    <2>4. CASE \E g \in Collections : Gather(p, g)
        BY <2>4 DEF Gather
    <2>5. CASE \/ ActivateOcr(p) \/ ReadCandidate(p) \/ SaveReview(p) \/ SaveManual(p)
               \/ RefreshRead(p) \/ RefreshList(p) \/ SetReviewState(p)
               \/ CompileList(p) \/ GatherImport(p) \/ GatherCandidates(p)
        BY <2>5 DEF ActivateOcr, ReadCandidate, SaveReview, SaveManual, RefreshRead,
            RefreshList, SetReviewState, CompileList, GatherImport, GatherCandidates
    <2> QED BY <1>4, <2>1, <2>2, <2>3, <2>4, <2>5 DEF CallStep
<1>5. CASE PackStep
    <2>1. CASE \E k \in Packs, reviewed \in BOOLEAN : ImportPack(k, {PostedRule}, reviewed)
        BY <2>1 DEF ImportPack, PersistBundle, PacksSave, Savable
    <2> QED BY <1>5, <2>1 DEF PackStep
<1>6. CASE UNCHANGED vars
    BY <1>6 DEF vars
<1> QED BY <1>1, <1>2, <1>3, <1>4, <1>5, <1>6 DEF Next

----------------------------------------------------------------------------
(* Decisions *)

(* Writing a status keeps the rest of the row and every other row. *)
LEMMA DecidedKeepsRows ==
    ASSUME PacksTyped, NEW k \in Packs, NEW s \in PackStatus, Decided(k, s)
    PROVE  /\ packs' = [j \in Packs |-> packs'[j]]
           /\ \A j \in Packs : PackRow(packs'[j])
           /\ \A j \in Packs : /\ packs'[j].content = packs[j].content
                               /\ packs'[j].reviewed = packs[j].reviewed
                               /\ j # k => packs'[j] = packs[j]
           /\ packs'[k].status = s
PROOF
<1> DEFINE row == packs[k]
<1>1. packs' = [packs EXCEPT ![k] = [row EXCEPT !.status = s]]
    BY DEF Decided
<1>2. PackRow(row)
    BY DEF PacksTyped
<1>3. [row EXCEPT !.status = s]
        = [status |-> s, content |-> row.content, reviewed |-> row.reviewed]
    BY <1>2 DEF PackRow
<1>4. \A j \in Packs : packs'[j] =
         IF j = k THEN [status |-> s, content |-> row.content, reviewed |-> row.reviewed]
                  ELSE packs[j]
    BY <1>1, <1>3 DEF PacksTyped
<1>5. packs' = [j \in Packs |-> packs'[j]]
    BY <1>1 DEF PacksTyped
<1>6. \A j \in Packs : PackRow(packs'[j])
    BY <1>2, <1>4 DEF PacksTyped, PackRow
<1> QED BY <1>4, <1>5, <1>6

(* A save adds one row where there was none. *)
LEMMA SaveKeepsRows ==
    ASSUME PacksTyped, PacksSave
    PROVE  /\ packs' = [j \in Packs |-> packs'[j]]
           /\ \A j \in Packs : PackRow(packs'[j])
           /\ \A j \in Packs : Saved(j) => packs'[j] = packs[j]
           /\ \A j \in Packs : packs'[j] = packs[j] \/ packs'[j].status = "draft"
PROOF
<1>1. PICK k, content : \E reviewed \in BOOLEAN :
         VersionFree(k) /\ packs' = [packs EXCEPT ![k] = NewPack(content, reviewed)]
    BY DEF PacksSave
<1>2. PICK reviewed \in BOOLEAN :
         VersionFree(k) /\ packs' = [packs EXCEPT ![k] = NewPack(content, reviewed)]
    BY <1>1
<1>3. packs' = [j \in Packs |-> packs'[j]]
    BY <1>2 DEF PacksTyped
<1>4. \A j \in Packs :
         packs'[j] = IF j = k THEN NewPack(content, reviewed) ELSE packs[j]
    BY <1>2 DEF PacksTyped
<1>5. PackRow(NewPack(content, reviewed))
    BY DEF PackRow, NewPack, PackStatus
<1>6. \A j \in Packs : PackRow(packs'[j])
    BY <1>4, <1>5 DEF PacksTyped
<1>7. \A j \in Packs : Saved(j) => packs'[j] = packs[j]
    BY <1>2, <1>4 DEF VersionFree
<1>8. \A j \in Packs : packs'[j] = packs[j] \/ packs'[j].status = "draft"
    BY <1>4 DEF NewPack
<1> QED BY <1>3, <1>6, <1>7, <1>8

(* Every decision that writes does it to a saved and reviewed pack. *)
LEMMA DecisionsAreReviewed ==
    ASSUME PacksInv, DecisionNext
    PROVE  \/ UNCHANGED packs
           \/ \E k \in Packs : \E s \in {"approved", "disabled"} :
                 Decided(k, s) /\ Saved(k) /\ packs[k].reviewed
PROOF
<1> USE DEF tableVars
<1>1. PICK a \in Admins :
         \/ ApproveWrite(a)
         \/ \E k \in Packs : ApproveRead(a, k) \/ Disable(a, k) \/ Enable(a, k)
    BY DEF DecisionNext
<1>2. CASE ApproveWrite(a)
    <2>1. /\ admin[a].pack \in Packs
          /\ Saved(admin[a].pack)
          /\ packs[admin[a].pack].reviewed
        BY <1>2 DEF PacksInv, GrantedIsReviewed, ApproveWrite
    <2> QED BY <1>2, <2>1 DEF ApproveWrite
<1>3. ASSUME NEW k \in Packs, ApproveRead(a, k) PROVE UNCHANGED packs
    BY <1>3 DEF ApproveRead
<1>4. ASSUME NEW k \in Packs, Disable(a, k) \/ Enable(a, k)
      PROVE  \/ UNCHANGED packs
             \/ \E s \in {"approved", "disabled"} :
                   Decided(k, s) /\ Saved(k) /\ packs[k].reviewed
    <2>1. packs[k].status \in {"approved", "disabled"} => packs[k].reviewed
        BY DEF PacksInv, ApprovedIsReviewed
    <2> QED BY <1>4, <2>1 DEF Disable, Enable, TransitionPackStatus, Saved
<1> QED BY <1>1, <1>2, <1>3, <1>4

(* What becomes of the requests: only ApproveRead grants an approval. *)
LEMMA DecisionsOfAdmins ==
    ASSUME PacksInv, DecisionNext
    PROVE  /\ admin' \in [Admins -> AdminStates]
           /\ \A a \in Admins : admin'[a].step = "approving" =>
                \/ admin'[a] = admin[a]
                \/ \E k \in Packs : /\ admin'[a] = Approving(k)
                                    /\ Saved(k) /\ packs[k].reviewed
PROOF
<1> USE DEF tableVars, AdminStates, Waiting, Answered, Approving
<1>1. PICK a \in Admins :
         \/ ApproveWrite(a)
         \/ \E k \in Packs : ApproveRead(a, k) \/ Disable(a, k) \/ Enable(a, k)
    BY DEF DecisionNext
<1>2. admin \in [Admins -> AdminStates]
    BY DEF PacksInv, PacksTyped
<1>3. ASSUME admin' = [admin EXCEPT ![a] = Answered]
      PROVE  /\ admin' \in [Admins -> AdminStates]
             /\ \A b \in Admins : admin'[b].step = "approving" => admin'[b] = admin[b]
    BY <1>2, <1>3
<1>4. ASSUME NEW k \in Packs, Saved(k), packs[k].reviewed,
             admin' = [admin EXCEPT ![a] = Approving(k)]
      PROVE  /\ admin' \in [Admins -> AdminStates]
             /\ \A b \in Admins : admin'[b] = admin[b] \/ admin'[b] = Approving(k)
    BY <1>2, <1>4
<1>5. CASE ApproveWrite(a)
    BY <1>3, <1>5 DEF ApproveWrite
<1>6. CASE \E k \in Packs : Disable(a, k) \/ Enable(a, k)
    BY <1>3, <1>6 DEF Disable, Enable, TransitionPackStatus
<1>7. ASSUME NEW k \in Packs, ApproveRead(a, k)
      PROVE  \/ admin' = [admin EXCEPT ![a] = Answered]
             \/ /\ Saved(k) /\ packs[k].reviewed
                /\ admin' = [admin EXCEPT ![a] = Approving(k)]
    BY <1>7 DEF ApproveRead, Approvable
<1>8. CASE \E k \in Packs : ApproveRead(a, k)
    BY <1>3, <1>4, <1>7, <1>8
<1> QED BY <1>1, <1>5, <1>6, <1>8

----------------------------------------------------------------------------
(* The invariant is inductive *)

LEMMA PacksInvInit == Init => PacksInv
PROOF
<1> SUFFICES ASSUME Init PROVE PacksInv
    OBVIOUS
<1>1. packs = [k \in Packs |-> Absent] /\ admin = [a \in Admins |-> Waiting]
    BY DEF Init, PacksInit
<1>2. PacksTyped
    BY <1>1 DEF PacksTyped, PackRow, Absent, AdminStates
<1>3. GrantedIsReviewed
    BY <1>1 DEF GrantedIsReviewed, Waiting
<1>4. ApprovedIsReviewed
    BY <1>1 DEF ApprovedIsReviewed, Absent
<1> QED BY <1>2, <1>3, <1>4 DEF PacksInv

LEMMA PacksInvNext == PacksInv /\ [Next]_vars => PacksInv'
PROOF
<1> SUFFICES ASSUME PacksInv, [Next]_vars PROVE PacksInv'
    OBVIOUS
<1> USE DEF PacksInv
<1>1. CASE UNCHANGED <<packs, admin>>
    BY <1>1 DEF PacksTyped, GrantedIsReviewed, ApprovedIsReviewed, Saved
<1>2. CASE PacksSave
    <2>1. /\ packs' = [j \in Packs |-> packs'[j]]
          /\ \A j \in Packs : PackRow(packs'[j])
          /\ \A j \in Packs : Saved(j) => packs'[j] = packs[j]
          /\ \A j \in Packs : packs'[j] = packs[j] \/ packs'[j].status = "draft"
        BY <1>2, SaveKeepsRows
    <2>2. admin' = admin
        BY <1>2 DEF PacksSave
    <2>3. PacksTyped'
        BY <2>1, <2>2 DEF PacksTyped
    <2>4. GrantedIsReviewed'
        BY <2>1, <2>2 DEF GrantedIsReviewed, Saved
    <2>5. ApprovedIsReviewed'
        BY <2>1 DEF ApprovedIsReviewed
    <2> QED BY <2>3, <2>4, <2>5
<1>3. CASE DecisionNext
    <2>1. /\ admin' \in [Admins -> AdminStates]
          /\ \A a \in Admins : admin'[a].step = "approving" =>
               \/ admin'[a] = admin[a]
               \/ \E k \in Packs : /\ admin'[a] = Approving(k)
                                   /\ Saved(k) /\ packs[k].reviewed
        BY <1>3, DecisionsOfAdmins
    <2>2. ASSUME NEW a \in Admins, admin'[a].step = "approving"
          PROVE  /\ admin'[a].pack \in Packs
                 /\ Saved(admin'[a].pack)
                 /\ packs[admin'[a].pack].reviewed
        BY <2>1, <2>2 DEF GrantedIsReviewed, Approving
    <2>3. CASE UNCHANGED packs
        BY <2>1, <2>2, <2>3 DEF PacksTyped, GrantedIsReviewed, ApprovedIsReviewed, Saved
    <2>4. ASSUME NEW k \in Packs, NEW s \in {"approved", "disabled"},
                 Decided(k, s), Saved(k), packs[k].reviewed
          PROVE  PacksInv'
        <3>1. /\ packs' = [j \in Packs |-> packs'[j]]
              /\ \A j \in Packs : PackRow(packs'[j])
              /\ \A j \in Packs : /\ packs'[j].content = packs[j].content
                                  /\ packs'[j].reviewed = packs[j].reviewed
                                  /\ j # k => packs'[j] = packs[j]
              /\ packs'[k].status = s
            BY <2>4, DecidedKeepsRows DEF PackStatus
        <3>2. PacksTyped'
            BY <2>1, <3>1 DEF PacksTyped
        <3>3. GrantedIsReviewed'
            BY <2>2, <2>4, <3>1 DEF GrantedIsReviewed, Saved
        <3>4. ApprovedIsReviewed'
            BY <2>4, <3>1 DEF ApprovedIsReviewed
        <3> QED BY <3>2, <3>3, <3>4
    <2> QED BY <1>3, <2>3, <2>4, DecisionsAreReviewed
<1> QED BY <1>1, <1>2, <1>3, StepOfPacks

----------------------------------------------------------------------------
(* Theorems *)

(* No pack whose obligations were not all approved by a person is ever      *)
(* approved or disabled, whatever approve, disable and enable requests meet *)
(* each other, and however many imports and collections are compiled.       *)
THEOREM PublishedIsReviewed == Spec => []ApprovedIsReviewed
PROOF
<1>1. PacksInv => ApprovedIsReviewed
    BY DEF PacksInv
<1> QED BY <1>1, PacksInvInit, PacksInvNext, PTL DEF Spec

(* The rules of a saved pack never change: not by another compilation or    *)
(* post of the same key and version, and not by a decision on it.           *)
THEOREM RulesArePermanent == Spec => ContentStays
PROOF
<1>1. ASSUME PacksInv, [Next]_vars
      PROVE  [\A k \in Packs : Saved(k) =>
                 Saved(k)' /\ packs'[k].content = packs[k].content]_packVars
    <2>1. SUFFICES ASSUME NEW k \in Packs, Saved(k)
                   PROVE  Saved(k)' /\ packs'[k].content = packs[k].content
        OBVIOUS
    <2>2. CASE UNCHANGED <<packs, admin>>
        BY <2>1, <2>2 DEF Saved
    <2>3. CASE PacksSave
        BY <1>1, <2>1, <2>3, SaveKeepsRows DEF PacksInv, Saved
    <2>4. CASE DecisionNext
        <3>1. ASSUME NEW j \in Packs, NEW s \in {"approved", "disabled"}, Decided(j, s)
              PROVE  Saved(k)' /\ packs'[k].content = packs[k].content
            BY <1>1, <2>1, <3>1, DecidedKeepsRows DEF PacksInv, PackStatus, Saved
        <3> QED BY <1>1, <2>1, <2>4, <3>1, DecisionsAreReviewed DEF Saved
    <2> QED BY <1>1, <2>2, <2>3, <2>4, StepOfPacks
<1> QED BY <1>1, PacksInvInit, PacksInvNext, PTL DEF Spec, ContentStays

----------------------------------------------------------------------------

----------------------------------------------------------------------------
(* The inductive invariant *)

Steps == ImportSteps \cup {"begin", "done", "gather", "gather_list", "collect"}

IsCands(cs) == cs \in [DOMAIN cs -> CandidateType]

(* A row of policy_collections with its members. *)
CollRow(r) ==
    /\ r = [members |-> r.members, compiled |-> r.compiled]
    /\ \A i \in DOMAIN r.members : i \in Imports /\ imports[i] # NoImport
    /\ r.compiled \in BOOLEAN

LaneTyped ==
    /\ imports \in [Imports -> ImportRows \cup {NoImport}]
    /\ cands = [i \in Imports |-> cands[i]] /\ \A i \in Imports : IsCands(cands[i])
    /\ queue \in [Imports -> Nat]
    /\ \A i \in Imports : queue[i] > 0 => imports[i] # NoImport
    /\ work \in [ImportWorkers -> Jobs \cup {NoWork}]
    /\ \A w \in ImportWorkers : work[w] # NoWork => imports[work[w].import] # NoImport
    /\ call = [p \in Callers |-> call[p]]
    /\ coll = [g \in Collections |-> coll[g]] /\ \A g \in Collections : CollRow(coll[g])

RulesReviewed(rules) ==
    \A r \in rules : [rule |-> r, decision |-> "approved"] \in reviews

(* Every approved candidate has the review that approved its wording.       *)
CandidatesReviewed == \A i \in Imports : RulesReviewed(Rules(i, cands[i]))

PacksFilled == \A k \in Packs : Saved(k) => packs[k].content # {}

(* The upload of an import is its first request. *)
NotUploaded == \A i \in Imports : call[i].step = "begin" => imports[i] = NoImport

(* A row that was read is the row as long as its stamp is.                  *)
RowKnown(i, row) ==
    /\ row \in ImportRows
    /\ imports[i] # NoImport
    /\ row.stamp <= imports[i].stamp
    /\ row.stamp = imports[i].stamp => row = imports[i]

(* Candidates listed after it: while the row stays none is added or taken   *)
(* away, and each is the one listed as long as its own stamp is.            *)
ListKnown(i, row, cs) ==
    row.stamp = imports[i].stamp =>
        /\ DOMAIN cs = DOMAIN cands[i]
        /\ \A id \in DOMAIN cs : /\ cs[id].stamp <= cands[i][id].stamp
                                 /\ cs[id].stamp = cands[i][id].stamp => cs[id] = cands[i][id]

GatherInv(c) ==
    /\ DOMAIN c = {"step", "coll", "left", "rows", "lists"}
    /\ c.coll \in Collections
    /\ \A i \in c.left : i \in Imports /\ imports[i] # NoImport /\ i \notin DOMAIN c.rows
    /\ DOMAIN c.rows \subseteq Imports /\ DOMAIN c.lists \subseteq DOMAIN c.rows
    /\ c.step \in {"gather", "collect"} => DOMAIN c.lists = DOMAIN c.rows
    /\ c.step = "gather_list" =>
           \A i, j \in DOMAIN c.rows \ DOMAIN c.lists : i = j
    /\ \A i \in DOMAIN c.rows : RowKnown(i, c.rows[i])
    /\ \A i \in DOMAIN c.lists : /\ IsCands(c.lists[i])
                                 /\ RulesReviewed(Rules(i, c.lists[i]))
                                 /\ ListKnown(i, c.rows[i], c.lists[i])

(* What request p holds. *)
CallInv(p) ==
    LET c == call[p] IN
    /\ c.step \in Steps
    /\ c.step \in ImportSteps => c.import \in Imports /\ imports[c.import] # NoImport
    /\ c.step = "store" => c.import = p
    /\ c.step = "save" => c.copy \in CandidateType
    /\ c.step = "set" => c.to \in {"ready_to_compile", "review_required"}
    /\ c.step \in {"material", "bundle"} => c.pack \in Packs
    /\ c.step = "bundle" => c.content # {} /\ RulesReviewed(c.content)
    /\ c.step \in {"gather", "gather_list", "collect"} => GatherInv(c)

TableInv ==
    /\ LaneTyped /\ CandidatesReviewed /\ PackRulesReviewed /\ PacksFilled
    /\ NotUploaded

LaneInv == PacksInv /\ TableInv /\ \A p \in Callers : CallInv(p)

----------------------------------------------------------------------------
(* One holder *)

(* The upload or the request that is about to queue a job for i.            *)
Submits(p, i) == call[p].step \in {"store", "enqueue", "mark"} /\ call[p].import = i

Works(w, i) == work[w] # NoWork /\ work[w].import = i

(* An import has one request, one job in the queue or one worker that will  *)
(* say what its status is next, and meanwhile the status stays theirs.      *)
OneHolder(i) ==
    /\ queue[i] <= 1
    /\ \A p, r \in Callers : Submits(p, i) /\ Submits(r, i) => p = r
    /\ \A v, w \in ImportWorkers : Works(v, i) /\ Works(w, i) => v = w
    /\ \A p \in Callers : Submits(p, i) =>
           queue[i] = 0 /\ \A w \in ImportWorkers : ~Works(w, i)
    /\ \A w \in ImportWorkers : Works(w, i) => queue[i] = 0

HeldStatus(i) ==
    /\ \A p \in Callers : Submits(p, i) =>
           imports[i].status = IF call[p].step = "store" THEN "uploading" ELSE "queued"
    /\ queue[i] > 0 => imports[i].status = "queued"
    /\ \A w \in ImportWorkers : Works(w, i) =>
           /\ work[w].step = "claim" => imports[i].status = "queued"
           /\ work[w].step = "parse" => imports[i].status = "parsing"
           /\ work[w].step = "extract" => imports[i].status = "extracting"
           /\ work[w].step = "mark" => imports[i].status \in {"queued", "parsing", "extracting"}

PackAgrees(row) == row.status = "compiled" <=> row.pack # NoPack

CompiledHasPack == \A i \in Imports : imports[i] # NoImport => PackAgrees(imports[i])

HolderInv == CompiledHasPack /\ \A i \in Imports : OneHolder(i) /\ HeldStatus(i)

----------------------------------------------------------------------------
(* What a step leaves alone *)

(* Uploaded imports stay, their stamps never go back, and under one stamp   *)
(* of the row nothing is added to its candidates or taken away.             *)
Grows ==
    /\ reviews \subseteq reviews'
    /\ \A i \in Imports : imports[i] # NoImport =>
         /\ imports'[i] # NoImport
         /\ imports[i].stamp <= imports'[i].stamp
         /\ imports'[i].stamp = imports[i].stamp =>
              /\ imports'[i] = imports[i]
              /\ DOMAIN cands'[i] = DOMAIN cands[i]
              /\ \A id \in DOMAIN cands[i] :
                   /\ cands[i][id].stamp <= cands'[i][id].stamp
                   /\ cands'[i][id].stamp = cands[i][id].stamp =>
                          cands'[i][id] = cands[i][id]

LEMMA RowFields ==
    ASSUME NEW row \in ImportRows
    PROVE  row.stamp \in Nat /\ row.status \in ImportStatus
  BY DEF ImportRows

LEMMA Uploaded ==
    ASSUME LaneTyped, NEW i \in Imports, imports[i] # NoImport
    PROVE  imports[i] \in ImportRows /\ imports[i].stamp \in Nat
  BY RowFields DEF LaneTyped

LEMMA KnownStays ==
    ASSUME LaneTyped, LaneTyped', Grows, NEW i \in Imports, NEW row, RowKnown(i, row)
    PROVE  RowKnown(i, row)' /\ \A cs : IsCands(cs) /\ ListKnown(i, row, cs) => ListKnown(i, row, cs)'
  <1>1. /\ imports[i] \in ImportRows /\ imports[i].stamp \in Nat
        /\ imports'[i] \in ImportRows /\ imports'[i].stamp \in Nat
        /\ row \in ImportRows /\ row.stamp \in Nat
    <2>1. imports[i] # NoImport /\ imports'[i] # NoImport
      BY DEF RowKnown, Grows
    <2>2. imports'[i] \in ImportRows
      BY <2>1 DEF LaneTyped
    <2> QED BY <2>1, <2>2, Uploaded, RowFields DEF RowKnown
  <1>2. RowKnown(i, row)'
    BY <1>1 DEF RowKnown, Grows
  <1>3. ASSUME NEW cs, IsCands(cs), ListKnown(i, row, cs), row.stamp = imports'[i].stamp
        PROVE  /\ DOMAIN cs = DOMAIN cands'[i]
               /\ \A id \in DOMAIN cs : /\ cs[id].stamp <= cands'[i][id].stamp
                                        /\ cs[id].stamp = cands'[i][id].stamp => cs[id] = cands'[i][id]
    <2>1. row.stamp = imports[i].stamp /\ imports'[i].stamp = imports[i].stamp
      BY <1>1, <1>3 DEF RowKnown, Grows
    <2>2. /\ DOMAIN cands'[i] = DOMAIN cands[i] /\ DOMAIN cs = DOMAIN cands[i]
          /\ \A id \in DOMAIN cands[i] :
               /\ cands[i][id].stamp <= cands'[i][id].stamp
               /\ cands'[i][id].stamp = cands[i][id].stamp => cands'[i][id] = cands[i][id]
      BY <1>1, <1>3, <2>1 DEF Grows, ListKnown, RowKnown
    <2>3. \A id \in DOMAIN cs : /\ cs[id].stamp \in Nat /\ cands[i][id].stamp \in Nat
                                /\ cands'[i][id].stamp \in Nat
      BY <1>3, <2>2 DEF IsCands, LaneTyped, CandidateType
    <2> QED BY <1>3, <2>1, <2>2, <2>3 DEF ListKnown
  <1> QED BY <1>2, <1>3 DEF ListKnown

LEMMA ReviewsStay ==
    ASSUME reviews \subseteq reviews', NEW rules, RulesReviewed(rules)
    PROVE  RulesReviewed(rules)'
  BY DEF RulesReviewed

(* A request that does not move still holds what it held.                   *)
LEMMA OthersStay ==
    ASSUME LaneTyped, LaneTyped', Grows, NEW p \in Callers, CallInv(p), call'[p] = call[p]
    PROVE  CallInv(p)'
  <1> DEFINE c == call[p]
  <1>1. c.step \in ImportSteps => c.import \in Imports /\ imports'[c.import] # NoImport
    BY DEF CallInv, Grows
  <1>2. c.step = "bundle" => c.content # {} /\ RulesReviewed(c.content)'
    BY DEF CallInv, Grows, RulesReviewed
  <1>3. ASSUME GatherInv(c) PROVE GatherInv(c)'
    <2>1. \A i \in DOMAIN c.rows : RowKnown(i, c.rows[i])'
      BY <1>3, KnownStays DEF GatherInv
    <2>2. \A i \in DOMAIN c.lists : ListKnown(i, c.rows[i], c.lists[i])'
      BY <1>3, KnownStays DEF GatherInv
    <2>3. \A i \in DOMAIN c.lists : RulesReviewed(Rules(i, c.lists[i]))'
      BY <1>3 DEF GatherInv, Grows, RulesReviewed
    <2>4. \A i \in c.left : i \in Imports /\ imports'[i] # NoImport /\ i \notin DOMAIN c.rows
      BY <1>3 DEF GatherInv, Grows
    <2> QED BY <1>3, <2>1, <2>2, <2>3, <2>4 DEF GatherInv
  <1> QED BY <1>1, <1>2, <1>3 DEF CallInv

(* The step is that of one request. *)
Moves(p, c) == call' = [call EXCEPT ![p] = c]

LEMMA Moved ==
    ASSUME LaneTyped, NEW p \in Callers, NEW c, Moves(p, c)
    PROVE  /\ call' = [x \in Callers |-> call'[x]]
           /\ call'[p] = c /\ \A x \in Callers : x # p => call'[x] = call[x]
  BY DEF LaneTyped, Moves

LEMMA RequestMoves ==
    ASSUME LaneInv, PacksInv', TableInv', Grows,
           NEW p \in Callers, NEW c, Moves(p, c), CallInv(p)'
    PROVE  LaneInv'
  BY Moved, OthersStay DEF LaneInv, TableInv

LEMMA NoRequestMoves ==
    ASSUME LaneInv, PacksInv', TableInv', Grows, UNCHANGED call
    PROVE  LaneInv'
  BY OthersStay DEF LaneInv, TableInv

LEMMA TablesStay ==
    ASSUME TableInv, UNCHANGED <<imports, cands, reviews, packs>>
    PROVE  /\ Grows
           /\ CandidatesReviewed' /\ PackRulesReviewed' /\ PacksFilled'
  <1>1. \A i \in Imports : imports[i] # NoImport => imports[i].stamp \in Nat
    BY Uploaded DEF TableInv
  <1>2. \A i \in Imports : \A id \in DOMAIN cands[i] : cands[i][id].stamp \in Nat
    BY DEF TableInv, LaneTyped, IsCands, CandidateType
  <1>3. Grows
    BY <1>1, <1>2 DEF Grows
  <1>4. CandidatesReviewed'
    BY DEF TableInv, CandidatesReviewed, RulesReviewed, Rules, Approved
  <1> QED BY <1>3, <1>4 DEF TableInv, PackRulesReviewed, PacksFilled, Saved

(* A request reads, or ends.                                                *)
LEMMA Reads ==
    ASSUME LaneInv, UNCHANGED <<imports, cands, reviews, queue, work, coll, packVars>>,
           NEW p \in Callers, NEW c, Moves(p, c), c.step # "begin", CallInv(p)'
    PROVE  LaneInv'
  <1>1. call' = [x \in Callers |-> call'[x]] /\ call'[p] = c
        /\ \A x \in Callers : x # p => call'[x] = call[x]
    BY Moved DEF LaneInv, TableInv
  <1>2. LaneTyped'
    BY <1>1 DEF LaneInv, TableInv, LaneTyped, IsCands, CollRow
  <1>3. NotUploaded'
    BY <1>1 DEF LaneInv, TableInv, NotUploaded, Callers
  <1>4. Grows /\ TableInv'
    BY <1>2, <1>3, TablesStay DEF LaneInv, TableInv, packVars, tableVars
  <1>5. PacksInv'
    BY DEF LaneInv, PacksInv, PacksTyped, GrantedIsReviewed, ApprovedIsReviewed, Saved,
           packVars, tableVars
  <1> QED BY <1>4, <1>5, RequestMoves

LEMMA Ends ==
    ASSUME LaneInv, UNCHANGED <<imports, cands, reviews, queue, work, coll, packVars>>,
           NEW p \in Callers, Goto(p, Done)
    PROVE  LaneInv'
  <1>1. Moves(p, Done) /\ Done.step = "done"
    BY DEF Goto, Moves, Done
  <1>2. call'[p] = Done
    BY <1>1, Moved DEF LaneInv, TableInv
  <1>3. CallInv(p)'
    BY <1>1, <1>2 DEF CallInv, Steps, ImportSteps
  <1> QED BY <1>1, <1>3, Reads

(* A request goes on about an import that was uploaded.                     *)
LEMMA GoesOn ==
    ASSUME LaneInv, UNCHANGED <<imports, cands, reviews, queue, work, coll, packVars>>,
           NEW p \in Callers, NEW i \in Imports, imports[i] # NoImport,
           NEW step \in {"enqueue", "mark", "activate", "candidate", "manual", "refresh"},
           Goto(p, At(step, i))
    PROVE  LaneInv'
  <1>1. Moves(p, At(step, i)) /\ At(step, i).step = step /\ At(step, i).import = i
    BY DEF Goto, Moves, At
  <1>2. call'[p] = At(step, i)
    BY <1>1, Moved DEF LaneInv, TableInv
  <1>3. CallInv(p)'
    BY <1>1, <1>2 DEF CallInv, Steps, ImportSteps
  <1> QED BY <1>1, <1>3, Reads

LEMMA ReadsOnly ==
    ASSUME LaneInv, NEW p \in Calls, NEW i \in Imports, imports[i] # NoImport,
           AttachOcr(p, i) \/ Review(p, i) \/ AddManual(p, i)
    PROVE  LaneInv'
  BY GoesOn DEF AttachOcr, Review, AddManual, Callers

LEMMA EndsOnly ==
    ASSUME LaneInv, NEW p \in Callers, BatchJobRefused(p) \/ CallStops(p)
    PROVE  LaneInv'
  BY Ends DEF BatchJobRefused, CallStops

LEMMA ReadCandidateKeeps ==
    ASSUME LaneInv, NEW p \in Calls, ReadCandidate(p)
    PROVE  LaneInv'
  <1>1. PICK i : i = call[p].import
    OBVIOUS
  <1>2. /\ call[p].step = "candidate" /\ p \in Callers
        /\ i \in Imports /\ imports[i] # NoImport
    BY <1>1 DEF LaneInv, CallInv, ReadCandidate, ImportSteps, Callers
  <1>3. PICK id, expected :
            /\ id \in DOMAIN cands[i]
            /\ Goto(p, [step |-> "save", import |-> i, id |-> id,
                        copy |-> cands[i][id], expected |-> expected])
    BY <1>1 DEF ReadCandidate
  <1> DEFINE c == [step |-> "save", import |-> i, id |-> id,
                   copy |-> cands[i][id], expected |-> expected]
  <1>4. PICK new : new = c
    OBVIOUS
  <1>5. /\ new.step = "save" /\ new.import = i /\ new.copy = cands[i][id]
        /\ Moves(p, new)
    BY <1>3, <1>4 DEF Goto, Moves
  <1>6. cands[i][id] \in CandidateType
    BY <1>2, <1>3 DEF LaneInv, TableInv, LaneTyped, IsCands
  <1>7. call'[p] = new
    BY <1>2, <1>5, Moved DEF LaneInv, TableInv
  <1>8. CallInv(p)'
    BY <1>2, <1>5, <1>6, <1>7 DEF CallInv, Steps, ImportSteps, ReadCandidate
  <1> QED BY <1>2, <1>5, <1>8, Reads DEF ReadCandidate

LEMMA RefreshReadKeeps ==
    ASSUME LaneInv, NEW p \in Calls, RefreshRead(p) \/ RefreshList(p)
    PROVE  LaneInv'
  <1>1. PICK i : i = call[p].import
    OBVIOUS
  <1>2. p \in Callers /\ i \in Imports /\ imports[i] # NoImport
    BY <1>1 DEF LaneInv, CallInv, RefreshRead, RefreshList, ImportSteps, Callers
  <1>3. PICK new :
            /\ Moves(p, new) /\ new.step \in {"list", "set"} /\ new.import = i
            /\ new.step = "set" => new.to \in {"ready_to_compile", "review_required"}
    BY <1>1 DEF RefreshRead, RefreshList, Goto, Moves
  <1>4. call'[p] = new
    BY <1>2, <1>3, Moved DEF LaneInv, TableInv
  <1>5. /\ UNCHANGED <<imports, cands, reviews, queue, work, coll, packVars>>
    BY DEF RefreshRead, RefreshList
  <1>6. CallInv(p)'
    BY <1>2, <1>3, <1>4, <1>5 DEF CallInv, Steps, ImportSteps
  <1> QED BY <1>2, <1>3, <1>5, <1>6, Reads

LEMMA CompileKeeps ==
    ASSUME LaneInv, NEW p \in Calls, NEW i \in Imports, NEW k \in Packs, Compile(p, i, k)
    PROVE  LaneInv'
  <1>1. p \in Callers /\ UNCHANGED <<imports, cands, reviews, queue, work, coll, packVars>>
    BY DEF Callers, Compile
  <1>2. CASE Goto(p, Done)
    BY <1>1, <1>2, Ends
  <1>3. CASE ~Goto(p, Done)
    <2> DEFINE c == [step |-> "material", import |-> i, pack |-> k, row |-> imports[i]]
    <2>1. Goto(p, c)
      BY <1>3 DEF Compile
    <2>2. PICK new : new = c
      OBVIOUS
    <2>3. Moves(p, new) /\ new.step = "material" /\ new.import = i /\ new.pack = k
      BY <2>1, <2>2 DEF Goto, Moves
    <2>4. call'[p] = new
      BY <1>1, <2>3, Moved DEF LaneInv, TableInv
    <2>5. CallInv(p)'
      BY <1>1, <2>3, <2>4 DEF CallInv, Steps, ImportSteps, Compile
    <2> QED BY <1>1, <2>3, <2>5, Reads
  <1> QED BY <1>2, <1>3

LEMMA CompileListKeeps ==
    ASSUME LaneInv, NEW p \in Calls, CompileList(p)
    PROVE  LaneInv'
  <1>1. p \in Callers /\ UNCHANGED <<imports, cands, reviews, queue, work, coll, packVars>>
    BY DEF Callers, CompileList
  <1>2. CASE Goto(p, Done)
    BY <1>1, <1>2, Ends
  <1>3. CASE ~Goto(p, Done)
    <2>1. PICK j : j = call[p].import
      OBVIOUS
    <2>2. /\ j \in Imports /\ imports[j] # NoImport /\ call[p].pack \in Packs
      BY <1>1, <2>1 DEF LaneInv, CallInv, CompileList, ImportSteps
    <2> DEFINE c == [step |-> "bundle", import |-> j, pack |-> call[p].pack,
                     content |-> Rules(j, cands[j])]
    <2>3. Goto(p, c) /\ Approved(cands[j]) # {}
      BY <1>3, <2>1 DEF CompileList, IsReady
    <2>4. PICK new : new = c
      OBVIOUS
    <2>5. /\ Moves(p, new) /\ new.step = "bundle"
          /\ new.import = j /\ new.pack = call[p].pack
          /\ new.content = Rules(j, cands[j]) /\ Approved(cands[j]) # {}
      BY <2>3, <2>4 DEF Goto, Moves
    <2>6. call'[p] = new
      BY <1>1, <2>5, Moved DEF LaneInv, TableInv
    <2>7. new.content # {} /\ RulesReviewed(new.content)
      BY <2>2, <2>5 DEF Rules, LaneInv, TableInv, CandidatesReviewed
    <2>8. CallInv(p)'
      BY <1>1, <2>2, <2>5, <2>6, <2>7 DEF CallInv, Steps, ImportSteps, RulesReviewed
    <2> QED BY <1>1, <2>5, <2>8, Reads
  <1> QED BY <1>2, <1>3

LEMMA GatherKeeps ==
    ASSUME LaneInv, NEW p \in Calls, NEW g \in Collections, Gather(p, g)
    PROVE  LaneInv'
  <1> DEFINE c == [step |-> "gather", coll |-> g, left |-> Members(g),
                   rows |-> <<>>, lists |-> <<>>]
  <1>1. p \in Callers /\ UNCHANGED <<imports, cands, reviews, queue, work, coll, packVars>>
    BY DEF Callers, Gather
  <1>2. PICK new : new = c
    OBVIOUS
  <1>3. Moves(p, new)
    BY <1>2 DEF Gather, Goto, Moves
  <1>4. call'[p] = new
    BY <1>1, <1>3, Moved DEF LaneInv, TableInv
  <1>5. /\ DOMAIN new = {"step", "coll", "left", "rows", "lists"}
        /\ new.step = "gather" /\ new.coll = g /\ new.left = Members(g)
        /\ DOMAIN new.rows = {} /\ DOMAIN new.lists = {}
    BY <1>2
  <1>6. \A i \in Members(g) : i \in Imports /\ imports[i] # NoImport
    BY DEF Members, LaneInv, TableInv, LaneTyped, CollRow
  <1>7. GatherInv(new)'
    BY <1>1, <1>5, <1>6 DEF GatherInv
  <1>8. CallInv(p)'
    BY <1>4, <1>5, <1>7 DEF CallInv, Steps, ImportSteps
  <1> QED BY <1>1, <1>3, <1>5, <1>8, Reads

LEMMA GatherHolds ==
    ASSUME LaneInv, NEW p \in Calls, call[p].step \in {"gather", "gather_list", "collect"}
    PROVE  p \in Callers /\ GatherInv(call[p])
  BY DEF LaneInv, CallInv, Callers

LEMMA GatherStays ==
    ASSUME UNCHANGED <<imports, cands, reviews>>, NEW c, GatherInv(c)
    PROVE  GatherInv(c)'
  BY DEF GatherInv, RowKnown, ListKnown, RulesReviewed

LEMMA ReadRow ==
    ASSUME LaneTyped, NEW i \in Imports, imports[i] # NoImport
    PROVE  /\ RowKnown(i, imports[i])
           /\ IsCands(cands[i])
           /\ \A row : ListKnown(i, row, cands[i])
  <1>1. imports[i] \in ImportRows /\ imports[i].stamp \in Nat
    BY Uploaded
  <1>2. IsCands(cands[i]) /\ \A id \in DOMAIN cands[i] : cands[i][id].stamp \in Nat
    BY DEF LaneTyped, IsCands, CandidateType
  <1> QED BY <1>1, <1>2 DEF RowKnown, ListKnown

LEMMA GatherImportKeeps ==
    ASSUME LaneInv, NEW p \in Calls, GatherImport(p)
    PROVE  LaneInv'
  <1>1. PICK c : c = call[p]
    OBVIOUS
  <1>2. /\ p \in Callers /\ c.step = "gather" /\ GatherInv(c)
        /\ UNCHANGED <<imports, cands, reviews, queue, work, coll, packVars>>
    BY <1>1, GatherHolds DEF GatherImport
  <1>3. CASE Goto(p, Done)
    BY <1>2, <1>3, Ends
  <1>4. ASSUME NEW i \in c.left,
               Goto(p, [c EXCEPT !.step = "gather_list", !.left = @ \ {i},
                                 !.rows = Extend(@, i, imports[i])])
        PROVE  LaneInv'
    <2>1. i \in Imports /\ imports[i] # NoImport
      BY <1>2, <1>4 DEF GatherInv
    <2>3. PICK new : new = [c EXCEPT !.step = "gather_list", !.left = @ \ {i},
                                     !.rows = Extend(@, i, imports[i])]
      OBVIOUS
    <2>4. Moves(p, new)
      BY <1>4, <2>3 DEF Goto, Moves
    <2>5. call'[p] = new
      BY <1>2, <2>4, Moved DEF LaneInv, TableInv
    <2>6. /\ DOMAIN new = DOMAIN c /\ new.step = "gather_list" /\ new.coll = c.coll
          /\ new.left = c.left \ {i} /\ new.lists = c.lists
          /\ DOMAIN new.rows = DOMAIN c.rows \cup {i}
          /\ new.rows[i] = imports[i]
          /\ \A j \in DOMAIN c.rows : j # i => new.rows[j] = c.rows[j]
      <3>1. DOMAIN c = {"step", "coll", "left", "rows", "lists"}
        BY <1>2 DEF GatherInv
      <3>2. /\ DOMAIN new = DOMAIN c /\ new.step = "gather_list" /\ new.coll = c.coll
            /\ new.left = c.left \ {i} /\ new.lists = c.lists
            /\ new.rows = Extend(c.rows, i, imports[i])
        BY <2>3, <3>1
      <3> QED BY <3>2 DEF Extend
    <2>7. i \notin DOMAIN c.rows /\ DOMAIN c.lists = DOMAIN c.rows
      BY <1>2, <1>4 DEF GatherInv
    <2>8. \A j \in DOMAIN new.rows : RowKnown(j, new.rows[j])
      BY <1>2, <2>1, <2>6, ReadRow DEF GatherInv, LaneInv, TableInv
    <2>9. \A j \in DOMAIN new.lists : /\ IsCands(new.lists[j])
                                      /\ RulesReviewed(Rules(j, new.lists[j]))
                                      /\ ListKnown(j, new.rows[j], new.lists[j])
      BY <1>2, <2>6, <2>7 DEF GatherInv
    <2>10. GatherInv(new)
      BY <1>2, <1>4, <2>1, <2>6, <2>7, <2>8, <2>9 DEF GatherInv
    <2>11. CallInv(p)'
      BY <1>2, <2>5, <2>6, <2>10, GatherStays DEF CallInv, Steps, ImportSteps
    <2> QED BY <1>2, <2>4, <2>6, <2>11, Reads
  <1> QED BY <1>1, <1>3, <1>4 DEF GatherImport

LEMMA GatherCandidatesKeeps ==
    ASSUME LaneInv, NEW p \in Calls, GatherCandidates(p)
    PROVE  LaneInv'
  <1>1. PICK c : c = call[p]
    OBVIOUS
  <1>2. /\ p \in Callers /\ c.step = "gather_list" /\ GatherInv(c)
        /\ UNCHANGED <<imports, cands, reviews, queue, work, coll, packVars>>
    BY <1>1, GatherHolds DEF GatherCandidates
  <1>3. PICK i \in DOMAIN c.rows \ DOMAIN c.lists :
            Goto(p, [c EXCEPT !.step = IF c.left = {} THEN "collect" ELSE "gather",
                              !.lists = Extend(@, i, cands[i])])
    BY <1>1 DEF GatherCandidates
  <1>4. PICK new : new = [c EXCEPT !.step = IF c.left = {} THEN "collect" ELSE "gather",
                                   !.lists = Extend(@, i, cands[i])]
    OBVIOUS
  <1>5. Moves(p, new)
    BY <1>3, <1>4 DEF Goto, Moves
  <1>6. call'[p] = new
    BY <1>2, <1>5, Moved DEF LaneInv, TableInv
  <1>7. /\ DOMAIN new = DOMAIN c /\ new.step \in {"gather", "collect"} /\ new.coll = c.coll
        /\ new.left = c.left /\ new.rows = c.rows
        /\ DOMAIN new.lists = DOMAIN c.lists \cup {i}
        /\ new.lists[i] = cands[i]
        /\ \A j \in DOMAIN c.lists : j # i => new.lists[j] = c.lists[j]
    <2>1. DOMAIN c = {"step", "coll", "left", "rows", "lists"}
      BY <1>2 DEF GatherInv
    <2>2. /\ DOMAIN new = DOMAIN c /\ new.step \in {"gather", "collect"} /\ new.coll = c.coll
          /\ new.left = c.left /\ new.rows = c.rows
          /\ new.lists = Extend(c.lists, i, cands[i])
      BY <1>4, <2>1
    <2> QED BY <2>2 DEF Extend
  <1>8. i \in Imports /\ imports[i] # NoImport /\ i \in DOMAIN c.rows
    BY <1>2, <1>3 DEF GatherInv, RowKnown
  <1>9. DOMAIN new.lists = DOMAIN new.rows
    BY <1>2, <1>3, <1>7 DEF GatherInv
  <1>10. /\ IsCands(cands[i]) /\ RulesReviewed(Rules(i, cands[i]))
         /\ \A row : ListKnown(i, row, cands[i])
    BY <1>8, ReadRow DEF LaneInv, TableInv, CandidatesReviewed
  <1>11. \A j \in DOMAIN new.lists : /\ IsCands(new.lists[j])
                                     /\ RulesReviewed(Rules(j, new.lists[j]))
                                     /\ ListKnown(j, new.rows[j], new.lists[j])
    BY <1>2, <1>7, <1>10 DEF GatherInv
  <1>12. GatherInv(new)
    BY <1>2, <1>7, <1>9, <1>11 DEF GatherInv
  <1>13. CallInv(p)'
    BY <1>2, <1>6, <1>7, <1>12, GatherStays DEF CallInv, Steps, ImportSteps
  <1> QED BY <1>2, <1>5, <1>7, <1>13, Reads

----------------------------------------------------------------------------
(* Rows that are written and jobs that move *)

RowsGrow ==
    /\ imports' \in [Imports -> ImportRows \cup {NoImport}]
    /\ \A i \in Imports :
         /\ imports[i] = NoImport <=> imports'[i] = NoImport
         /\ imports'[i] = imports[i] \/ imports[i].stamp < imports'[i].stamp

(* Every write of a row raises its stamp. *)
LEMMA RowWritten ==
    ASSUME LaneTyped, NEW i \in Imports, imports[i] # NoImport,
           NEW row \in ImportRows, row.stamp = imports[i].stamp, Write(i, row)
    PROVE  /\ RowsGrow
           /\ imports'[i] \in ImportRows /\ imports'[i] # NoImport
           /\ imports'[i].status = row.status /\ imports'[i].pack = row.pack
           /\ imports'[i].verified = row.verified
           /\ \A x \in Imports : x # i => imports'[x] = imports[x]
  <1> DEFINE new == [row EXCEPT !.stamp = row.stamp + 1]
  <1>1. /\ new \in ImportRows /\ new.status = row.status /\ new.pack = row.pack
        /\ new.verified = row.verified /\ new.stamp = imports[i].stamp + 1
        /\ imports[i].stamp \in Nat
    BY DEF ImportRows
  <1>2. new # NoImport
    BY <1>1, PolicyAssumption
  <1>3. imports' = [imports EXCEPT ![i] = new]
    BY DEF Write
  <1> HIDE DEF new
  <1>4. imports'[i] = new /\ \A x \in Imports : x # i => imports'[x] = imports[x]
    BY <1>3 DEF LaneTyped
  <1>5. imports' \in [Imports -> ImportRows \cup {NoImport}]
    BY <1>1, <1>3 DEF LaneTyped
  <1>6. RowsGrow
    BY <1>1, <1>2, <1>4, <1>5 DEF RowsGrow
  <1> QED BY <1>1, <1>2, <1>4, <1>6

LEMMA StatusSet ==
    ASSUME LaneTyped, NEW i \in Imports, imports[i] # NoImport,
           NEW s \in ImportStatus, SetStatus(i, s)
    PROVE  /\ RowsGrow
           /\ imports'[i] \in ImportRows /\ imports'[i] # NoImport
           /\ imports'[i].status = s /\ imports'[i].pack = imports[i].pack
           /\ imports'[i].verified = imports[i].verified
           /\ \A x \in Imports : x # i => imports'[x] = imports[x]
  <1>1. PICK row : row = [imports[i] EXCEPT !.status = s]
    OBVIOUS
  <1>2. imports[i] \in ImportRows
    BY Uploaded
  <1>3. /\ row \in ImportRows /\ row.stamp = imports[i].stamp /\ row.status = s
        /\ row.pack = imports[i].pack /\ row.verified = imports[i].verified
    BY <1>1, <1>2 DEF ImportRows
  <1>4. Write(i, row)
    BY <1>1 DEF SetStatus
  <1> QED BY <1>3, <1>4, RowWritten

LEMMA RowsKept ==
    ASSUME LaneTyped, UNCHANGED imports
    PROVE  RowsGrow
  BY DEF LaneTyped, RowsGrow

QueueStep ==
    /\ queue' \in [Imports -> Nat]
    /\ \A i \in Imports : queue'[i] > 0 => imports[i] # NoImport

LEMMA QueueKept ==
    ASSUME LaneTyped, UNCHANGED queue
    PROVE  QueueStep
  BY DEF LaneTyped, QueueStep

LEMMA QueueMoves ==
    ASSUME LaneTyped, NEW i \in Imports, imports[i] # NoImport, NEW n \in Nat,
           queue' = [queue EXCEPT ![i] = n]
    PROVE  QueueStep
  BY DEF LaneTyped, QueueStep

LEMMA PacksStay ==
    ASSUME PacksInv, UNCHANGED packVars
    PROVE  PacksInv'
  BY DEF PacksInv, PacksTyped, GrantedIsReviewed, ApprovedIsReviewed, Saved, packVars, tableVars

LEMMA GrowsOfRows ==
    ASSUME LaneTyped, RowsGrow, UNCHANGED <<cands, reviews>>
    PROVE  Grows
  <1>1. \A i \in Imports : imports[i] # NoImport =>
            /\ imports[i].stamp \in Nat /\ imports'[i].stamp \in Nat
            /\ \A id \in DOMAIN cands[i] : cands[i][id].stamp \in Nat
    <2>1. ASSUME NEW i \in Imports, imports[i] # NoImport
          PROVE  /\ imports[i].stamp \in Nat /\ imports'[i].stamp \in Nat
                 /\ \A id \in DOMAIN cands[i] : cands[i][id].stamp \in Nat
      <3>1. imports[i] \in ImportRows /\ imports'[i] \in ImportRows
        BY <2>1 DEF LaneTyped, RowsGrow
      <3>2. \A id \in DOMAIN cands[i] : cands[i][id].stamp \in Nat
        BY DEF LaneTyped, IsCands, CandidateType
      <3> QED BY <3>1, <3>2, RowFields
    <2> QED BY <2>1
  <1> QED BY <1>1 DEF Grows, RowsGrow

LEMMA RowsChange ==
    ASSUME LaneInv, RowsGrow, UNCHANGED <<cands, reviews, coll, packVars>>,
           QueueStep, work' \in [ImportWorkers -> Jobs \cup {NoWork}],
           \A w \in ImportWorkers : work'[w] # NoWork => imports'[work'[w].import] # NoImport,
           call' = [p \in Callers |-> call'[p]],
           \A i \in Imports : call'[i].step = "begin" => call[i].step = "begin"
    PROVE  Grows /\ TableInv' /\ PacksInv'
  <1>2. Grows
    BY GrowsOfRows DEF LaneInv, TableInv
  <1>3. LaneTyped'
    BY DEF LaneInv, TableInv, LaneTyped, IsCands, CollRow, RowsGrow, QueueStep
  <1>4. NotUploaded'
    BY DEF LaneInv, TableInv, NotUploaded, RowsGrow
  <1>5. CandidatesReviewed' /\ PackRulesReviewed' /\ PacksFilled'
    BY DEF LaneInv, TableInv, CandidatesReviewed, RulesReviewed, Rules, Approved,
           PackRulesReviewed, PacksFilled, Saved, packVars, tableVars
  <1> QED BY <1>2, <1>3, <1>4, <1>5, PacksStay DEF LaneInv, TableInv

(* ... by a request that goes on with an import, or ends.                   *)
LEMMA RequestWrites ==
    ASSUME LaneInv, RowsGrow, UNCHANGED <<cands, reviews, work, coll, packVars>>,
           QueueStep, NEW p \in Callers, NEW c, Goto(p, c),
           \/ c = Done
           \/ \E i \in Imports : \E step \in {"enqueue", "mark", "refresh"} :
                  c = At(step, i) /\ imports[i] # NoImport
    PROVE  LaneInv'
  <1>1. /\ Moves(p, c) /\ c.step \in {"done", "enqueue", "mark", "refresh"}
        /\ c.step # "done" => c.import \in Imports /\ imports[c.import] # NoImport
    BY DEF Goto, Moves, Done, At
  <1>2. call' = [x \in Callers |-> call'[x]] /\ call'[p] = c
        /\ \A x \in Callers : x # p => call'[x] = call[x]
    BY <1>1, Moved DEF LaneInv, TableInv
  <1>3. \A w \in ImportWorkers : work'[w] # NoWork => imports'[work'[w].import] # NoImport
    BY DEF LaneInv, TableInv, LaneTyped, RowsGrow, Jobs
  <1>4. Grows /\ TableInv' /\ PacksInv'
    BY <1>1, <1>2, <1>3, RowsChange DEF LaneInv, TableInv, LaneTyped, Callers
  <1>5. CallInv(p)'
    BY <1>1, <1>2 DEF CallInv, Steps, ImportSteps, RowsGrow
  <1> QED BY <1>1, <1>4, <1>5, RequestMoves

(* ... by a worker. *)
LEMMA WorkerWrites ==
    ASSUME LaneInv, RowsGrow, UNCHANGED <<cands, reviews, call, coll, packVars>>,
           QueueStep, NEW w \in ImportWorkers, NEW j, WorkOn(w, j),
           j = NoWork \/ (j \in Jobs /\ imports[j.import] # NoImport)
    PROVE  LaneInv'
  <1>1. work' \in [ImportWorkers -> Jobs \cup {NoWork}]
        /\ work'[w] = j /\ \A x \in ImportWorkers : x # w => work'[x] = work[x]
    BY DEF WorkOn, LaneInv, TableInv, LaneTyped
  <1>2. \A x \in ImportWorkers : work'[x] # NoWork => imports'[work'[x].import] # NoImport
    BY <1>1 DEF LaneInv, TableInv, LaneTyped, RowsGrow, Jobs
  <1>3. Grows /\ TableInv' /\ PacksInv'
    BY <1>1, <1>2, RowsChange DEF LaneInv, TableInv, LaneTyped
  <1> QED BY <1>3, NoRequestMoves

----------------------------------------------------------------------------
(* The actions that do so *)

LEMMA AboutImport ==
    ASSUME LaneInv, NEW p \in Callers, call[p].step \in ImportSteps
    PROVE  call[p].import \in Imports /\ imports[call[p].import] # NoImport
  BY DEF LaneInv, CallInv

LEMMA SubmitsKeep ==
    ASSUME LaneInv, NEW p \in Callers, SubmitStep(p)
    PROVE  LaneInv'
  <1>1. PICK i : i = call[p].import
    OBVIOUS
  <1>2. i \in Imports /\ imports[i] # NoImport
    BY <1>1, AboutImport DEF SubmitStep, JobQueued, JobRefused, MarkRefused, ImportSteps
  <1>3. LaneTyped /\ queue[i] \in Nat /\ (UNCHANGED queue => QueueStep)
    BY <1>2, QueueKept DEF LaneInv, TableInv, LaneTyped
  <1>4. CASE JobQueued(p)
    <2>1. QueueStep
      <3>1. queue' = [queue EXCEPT ![i] = queue[i] + 1] /\ queue[i] + 1 \in Nat
        BY <1>1, <1>3, <1>4 DEF JobQueued
      <3> QED BY <1>2, <1>3, <3>1, QueueMoves
    <2> QED BY <1>3, <1>4, <2>1, RowsKept, RequestWrites DEF JobQueued
  <1>5. CASE JobRefused(p)
    <2>1. QueueStep
      <3>1. PICK n \in {0, 1} : queue' = [queue EXCEPT ![i] = queue[i] + n]
        BY <1>1, <1>5 DEF JobRefused
      <3>2. queue[i] + n \in Nat
        BY <1>3
      <3> QED BY <1>2, <1>3, <3>1, <3>2, QueueMoves
    <2>2. Goto(p, At("mark", i))
      BY <1>1, <1>5 DEF JobRefused
    <2> QED BY <1>2, <1>3, <1>5, <2>1, <2>2, RowsKept, RequestWrites DEF JobRefused
  <1>6. CASE MarkRefused(p)
    <2>1. SetStatus(i, "failed_retryable")
      BY <1>1, <1>6 DEF MarkRefused, MarkFailure
    <2>2. RowsGrow
      BY <1>2, <1>3, <2>1, StatusSet DEF ImportStatus
    <2> QED BY <1>3, <1>6, <2>2, RequestWrites DEF MarkRefused
  <1> QED BY <1>4, <1>5, <1>6 DEF SubmitStep

LEMMA StoredKeeps ==
    ASSUME LaneInv, NEW i \in Imports, SourceStored(i) \/ SourceNotStored(i)
    PROVE  LaneInv'
  <1>1. i \in Callers /\ call[i].import = i /\ imports[i] # NoImport
    BY DEF LaneInv, CallInv, SourceStored, SourceNotStored, Callers, ImportSteps
  <1>2. SetStatus(i, "queued") \/ SetStatus(i, "failed_retryable")
    BY DEF SourceStored, SourceNotStored, Transition, MarkFailure
  <1>3. RowsGrow /\ (UNCHANGED queue => QueueStep)
    BY <1>1, <1>2, StatusSet, QueueKept DEF LaneInv, TableInv, ImportStatus
  <1> QED BY <1>1, <1>3, RequestWrites DEF SourceStored, SourceNotStored

LEMMA RetryKeeps ==
    ASSUME LaneInv, NEW p \in Calls, NEW i \in Imports, imports[i] # NoImport,
           Retry(p, i) \/ VerifySource(p, i)
    PROVE  LaneInv'
  <1>1. p \in Callers /\ (UNCHANGED queue => QueueStep) /\ LaneTyped
    BY QueueKept DEF Callers, LaneInv, TableInv
  <1>2. CASE Retry(p, i)
    <2>1. RowsGrow
      BY <1>1, <1>2, StatusSet DEF Retry, Transition, ImportStatus
    <2> QED BY <1>1, <1>2, <2>1, RequestWrites DEF Retry
  <1>3. CASE VerifySource(p, i)
    <2>1. PICK v \in {"verified", "rejected"} : Write(i, [imports[i] EXCEPT !.verified = v])
      BY <1>3 DEF VerifySource
    <2>2. PICK row : row = [imports[i] EXCEPT !.verified = v]
      OBVIOUS
    <2>3. row \in ImportRows /\ row.stamp = imports[i].stamp
      BY <1>1, <2>2, Uploaded DEF ImportRows
    <2>4. RowsGrow
      BY <1>1, <2>1, <2>2, <2>3, RowWritten
    <2> QED BY <1>1, <1>3, <2>4, RequestWrites DEF VerifySource
  <1> QED BY <1>2, <1>3

LEMMA ActivateKeeps ==
    ASSUME LaneInv, NEW p \in Calls, ActivateOcr(p) \/ SetReviewState(p)
    PROVE  LaneInv'
  <1>1. PICK i : i = call[p].import
    OBVIOUS
  <1>2. /\ p \in Callers /\ (UNCHANGED queue => QueueStep) /\ LaneTyped
        /\ i \in Imports /\ imports[i] # NoImport
    BY <1>1, AboutImport, QueueKept
       DEF Callers, LaneInv, TableInv, ActivateOcr, SetReviewState, ImportSteps
  <1>3. CASE ActivateOcr(p) /\ AwaitsOcr(imports[i])
    <2>1. PICK row : row = [imports[i] EXCEPT !.ocr = TRUE, !.status = "queued",
                                              !.verified = "pending"]
      OBVIOUS
    <2>2. row \in ImportRows /\ row.stamp = imports[i].stamp
      BY <1>2, <2>1, Uploaded DEF ImportRows, ImportStatus
    <2>3. RowsGrow
      BY <1>1, <1>2, <1>3, <2>1, <2>2, RowWritten DEF ActivateOcr
    <2> QED BY <1>1, <1>2, <1>3, <2>3, RequestWrites DEF ActivateOcr
  <1>4. CASE ActivateOcr(p) /\ ~AwaitsOcr(imports[i])
    BY <1>1, <1>2, <1>4, Ends DEF ActivateOcr
  <1>5. CASE SetReviewState(p)
    <2>1. call[p].to \in ImportStatus
      BY <1>2, <1>5 DEF LaneInv, CallInv, SetReviewState, ImportStatus
    <2>2. RowsGrow
      BY <1>1, <1>2, <1>5, <2>1, StatusSet, RowsKept DEF SetReviewState
    <2> QED BY <1>2, <1>5, <2>2, RequestWrites DEF SetReviewState
  <1> QED BY <1>3, <1>4, <1>5

(* A job a worker holds. *)
LEMMA JobHeld ==
    ASSUME LaneInv, NEW w \in ImportWorkers, work[w] # NoWork
    PROVE  /\ work[w] \in Jobs /\ work[w].import \in Imports
           /\ imports[work[w].import] # NoImport
  BY DEF LaneInv, TableInv, LaneTyped, Jobs

LEMMA JobsAre ==
    ASSUME NEW i \in Imports
    PROVE  /\ \A step \in {"claim", "parse", "extract"} :
                  Job(i, step) \in Jobs /\ Job(i, step).import = i /\ Job(i, step).step = step
           /\ \A s \in {"needs_ocr", "failed_retryable", "failed_terminal"} :
                  /\ Failing(i, s) \in Jobs /\ Failing(i, s).import = i
                  /\ Failing(i, s).step = "mark" /\ Failing(i, s).to = s
  BY DEF Job, Failing, Jobs

LEMMA WorkersKeep ==
    ASSUME LaneInv, NEW w \in ImportWorkers,
           \/ \E i \in Imports : TakeJob(w, i)
           \/ SetupFails(w) \/ BeginParsing(w) \/ ParseFails(w) \/ MarkParsed(w)
           \/ ExtractFails(w) \/ MarkFailed(w) \/ ImportWorkerStops(w)
    PROVE  LaneInv'
  <1>2. LaneTyped /\ (UNCHANGED queue => QueueStep)
    BY QueueKept DEF LaneInv, TableInv
  <1>3. ASSUME NEW i \in Imports, TakeJob(w, i) PROVE LaneInv'
    <2>1. imports[i] # NoImport /\ queue[i] - 1 \in Nat
      BY <1>2, <1>3 DEF TakeJob, LaneTyped
    <2>2. QueueStep
      BY <1>2, <1>3, <2>1, QueueMoves DEF TakeJob
    <2> QED BY <1>2, <1>3, <2>1, <2>2, JobsAre, RowsKept, WorkerWrites DEF TakeJob
  <1>4. PICK i : i = work[w].import
    OBVIOUS
  <1>6. CASE SetupFails(w) \/ ParseFails(w) \/ ExtractFails(w) \/ ImportWorkerStops(w)
    <2>1. i \in Imports /\ imports[i] # NoImport
      BY <1>4, <1>6, JobHeld
         DEF Working, SetupFails, ParseFails, ExtractFails, ImportWorkerStops
    <2>2. PICK j : WorkOn(w, j) /\ (j = NoWork \/ \E s \in {"needs_ocr", "failed_retryable",
                                                 "failed_terminal"} : j = Failing(i, s))
      BY <1>4, <1>6 DEF SetupFails, ParseFails, ExtractFails, ImportWorkerStops
    <2> QED BY <1>2, <1>6, <2>1, <2>2, JobsAre, RowsKept, WorkerWrites
            DEF SetupFails, ParseFails, ExtractFails, ImportWorkerStops
  <1>7. CASE BeginParsing(w)
    <2>1. i \in Imports /\ imports[i] # NoImport
      BY <1>4, <1>7, JobHeld DEF Working, BeginParsing
    <2>2. RowsGrow
      BY <1>2, <1>4, <1>7, <2>1, StatusSet, RowsKept DEF BeginParsing, Transition, ImportStatus
    <2> QED BY <1>2, <1>4, <1>7, <2>1, <2>2, JobsAre, WorkerWrites DEF BeginParsing
  <1>8. CASE MarkParsed(w)
    <2>1. i \in Imports /\ imports[i] # NoImport
      BY <1>4, <1>8, JobHeld DEF Working, MarkParsed
    <2>2. PICK row : row = [imports[i] EXCEPT !.status = "extracting", !.complete = FALSE]
      OBVIOUS
    <2>3. row \in ImportRows /\ row.stamp = imports[i].stamp
      BY <1>2, <2>1, <2>2, Uploaded DEF ImportRows, ImportStatus
    <2>4. RowsGrow
      BY <1>2, <1>4, <1>8, <2>1, <2>2, <2>3, RowWritten, RowsKept DEF MarkParsed
    <2> QED BY <1>2, <1>4, <1>8, <2>1, <2>4, JobsAre, WorkerWrites DEF MarkParsed
  <1>9. CASE MarkFailed(w)
    <2>1. i \in Imports /\ imports[i] # NoImport /\ work[w].to \in ImportStatus
      BY <1>4, <1>9, JobHeld DEF Working, MarkFailed, Jobs, ImportStatus
    <2>2. RowsGrow
      BY <1>2, <1>4, <1>9, <2>1, StatusSet DEF MarkFailed, MarkFailure
    <2> QED BY <1>2, <1>9, <2>2, WorkerWrites DEF MarkFailed
  <1> QED BY <1>3, <1>6, <1>7, <1>8, <1>9

(* The row of a document that is uploaded. *)
LEMMA CreateImportKeeps ==
    ASSUME LaneInv, NEW i \in Imports, CreateImport(i)
    PROVE  LaneInv'
  <1>1. i \in Callers /\ call[i].step = "begin" /\ imports[i] = NoImport
    BY DEF CreateImport, Begin, LaneInv, TableInv, NotUploaded, Callers
  <1>2. PICK c : c = At("store", i)
    OBVIOUS
  <1>3. Moves(i, c) /\ c.step = "store" /\ c.import = i
    BY <1>2 DEF CreateImport, Goto, Moves, At
  <1>4. /\ call' = [x \in Callers |-> call'[x]] /\ call'[i] = c
        /\ \A x \in Callers : x # i => call'[x] = call[x]
    BY <1>1, <1>3, Moved DEF LaneInv, TableInv
  <1>5. NewImport \in ImportRows /\ NewImport # NoImport
    <2>1. NewImport \in ImportRows
      BY DEF NewImport, ImportRows, ImportStatus, ImportSources
    <2> QED BY <2>1, PolicyAssumption
  <1>6. /\ imports' \in [Imports -> ImportRows \cup {NoImport}] /\ imports'[i] # NoImport
        /\ \A x \in Imports : x # i => imports'[x] = imports[x]
    BY <1>5 DEF CreateImport, LaneInv, TableInv, LaneTyped
  <1>7. UNCHANGED <<cands, reviews, queue, work, coll, packVars>>
    BY DEF CreateImport
  <1>8. LaneTyped'
    BY <1>1, <1>4, <1>6, <1>7 DEF LaneInv, TableInv, LaneTyped, IsCands, CollRow, Jobs
  <1>9. NotUploaded'
    BY <1>3, <1>4, <1>6 DEF LaneInv, TableInv, NotUploaded, Callers
  <1>10. Grows
    <2>1. \A x \in Imports : imports[x] # NoImport =>
              /\ imports[x].stamp \in Nat
              /\ \A id \in DOMAIN cands[x] : cands[x][id].stamp \in Nat
      BY Uploaded DEF LaneInv, TableInv, LaneTyped, IsCands, CandidateType
    <2> QED BY <1>1, <1>6, <1>7, <2>1 DEF Grows
  <1>11. CandidatesReviewed' /\ PackRulesReviewed' /\ PacksFilled'
    BY <1>7 DEF LaneInv, TableInv, CandidatesReviewed, RulesReviewed, Rules, Approved,
       PackRulesReviewed, PacksFilled, Saved, packVars, tableVars
  <1>12. CallInv(i)'
    BY <1>1, <1>3, <1>4, <1>6 DEF CallInv, Steps, ImportSteps
  <1> QED BY <1>1, <1>3, <1>7, <1>8, <1>9, <1>10, <1>11, <1>12, PacksStay, RequestMoves
          DEF LaneInv, TableInv

(* The candidates of one import change: under another stamp of its row, or  *)
(* one after the other under new stamps of their own.                       *)
LEMMA CandidatesChange ==
    ASSUME LaneInv, RowsGrow, NEW i \in Imports, imports[i] # NoImport,
           NEW cs, IsCands(cs), cands' = [cands EXCEPT ![i] = cs],
           reviews \subseteq reviews', RulesReviewed(Rules(i, cs))',
           \/ imports'[i] # imports[i]
           \/ /\ DOMAIN cs = DOMAIN cands[i]
              /\ \A id \in DOMAIN cs : /\ cands[i][id].stamp <= cs[id].stamp
                                       /\ cs[id].stamp = cands[i][id].stamp => cs[id] = cands[i][id],
           UNCHANGED <<queue, coll, packVars>>,
           work' \in [ImportWorkers -> Jobs \cup {NoWork}],
           \A w \in ImportWorkers : work'[w] # NoWork => imports'[work'[w].import] # NoImport,
           call' = [p \in Callers |-> call'[p]],
           \A x \in Imports : call'[x].step = "begin" => call[x].step = "begin"
    PROVE  Grows /\ TableInv' /\ PacksInv'
  <1>1. /\ cands' = [x \in Imports |-> cands'[x]] /\ cands'[i] = cs
        /\ \A x \in Imports : x # i => cands'[x] = cands[x]
    BY DEF LaneInv, TableInv, LaneTyped
  <1>a. \A r : [rule |-> r, decision |-> "approved"] \in reviews =>
                   [rule |-> r, decision |-> "approved"] \in reviews'
    OBVIOUS
  <1>2. \A x \in Imports : imports[x] # NoImport =>
            /\ imports[x].stamp \in Nat /\ imports'[x].stamp \in Nat
            /\ \A id \in DOMAIN cands[x] : cands[x][id].stamp \in Nat
    <2>1. ASSUME NEW x \in Imports, imports[x] # NoImport
          PROVE  /\ imports[x].stamp \in Nat /\ imports'[x].stamp \in Nat
                 /\ \A id \in DOMAIN cands[x] : cands[x][id].stamp \in Nat
      <3>1. imports[x] \in ImportRows /\ imports'[x] \in ImportRows
        BY <2>1 DEF LaneInv, TableInv, LaneTyped, RowsGrow
      <3>2. \A id \in DOMAIN cands[x] : cands[x][id].stamp \in Nat
        BY DEF LaneInv, TableInv, LaneTyped, IsCands, CandidateType
      <3> QED BY <3>1, <3>2, RowFields
    <2> QED BY <2>1
  <1>3. Grows
    BY <1>1, <1>2 DEF Grows, RowsGrow
  <1>4. \A x \in Imports : IsCands(cands[x])'
    BY <1>1 DEF LaneInv, TableInv, LaneTyped, IsCands
  <1>5. LaneTyped'
    BY <1>1, <1>4 DEF LaneInv, TableInv, LaneTyped, CollRow, RowsGrow
  <1>6. NotUploaded'
    BY DEF LaneInv, TableInv, NotUploaded, RowsGrow
  <1>7. CandidatesReviewed'
    <2>1. ASSUME NEW x \in Imports, NEW r \in Rules(x, cands'[x])
          PROVE  [rule |-> r, decision |-> "approved"] \in reviews'
      <3>1. CASE x = i
        BY <1>1, <2>1, <3>1 DEF RulesReviewed, Rules, Approved
      <3>2. CASE x # i
        BY <1>1, <1>a, <2>1, <3>2
           DEF LaneInv, TableInv, CandidatesReviewed, RulesReviewed
      <3> QED BY <3>1, <3>2
    <2> QED BY <2>1 DEF CandidatesReviewed, RulesReviewed, Rules, Approved
  <1>8. PackRulesReviewed' /\ PacksFilled'
    BY DEF LaneInv, TableInv, PackRulesReviewed, PacksFilled, Saved, packVars, tableVars
  <1> QED BY <1>3, <1>5, <1>6, <1>7, <1>8, PacksStay DEF LaneInv, TableInv

LEMMA Redecided ==
    ASSUME NEW copy \in CandidateType, NEW d \in {"approved", "rejected"},
           NEW ready \in BOOLEAN, NEW n \in Nat,
           NEW new, new = [copy EXCEPT !.status = d, !.ready = ready, !.stamp = n]
    PROVE  new \in CandidateType /\ new.status = d /\ new.stamp = n
  BY DEF CandidateType

(* A review that is saved raises the stamp of its candidate.                *)
LEMMA SaveReviewKeeps ==
    ASSUME LaneInv, NEW p \in Calls, SaveReview(p)
    PROVE  LaneInv'
  <1>1. PICK i : i = call[p].import
    OBVIOUS
  <1>2. PICK id : id = call[p].id
    OBVIOUS
  <1>3. /\ p \in Callers /\ LaneTyped /\ call[p].step = "save"
        /\ i \in Imports /\ imports[i] # NoImport /\ call[p].copy \in CandidateType
        /\ UNCHANGED <<imports, queue, work, coll, packVars>>
    BY <1>1 DEF Callers, LaneInv, TableInv, CallInv, SaveReview, ImportSteps
  <1>4. CASE Goto(p, Done) /\ UNCHANGED <<cands, reviews>>
    BY <1>3, <1>4, Ends
  <1>5. CASE ~(Goto(p, Done) /\ UNCHANGED <<cands, reviews>>)
    <2>1. PICK decision \in {"approved", "rejected"}, ready \in BOOLEAN :
              /\ id \in DOMAIN cands[i]
              /\ cands' = [cands EXCEPT ![i][id] =
                     [call[p].copy EXCEPT !.status = decision, !.ready = ready,
                                          !.stamp = cands[i][id].stamp + 1]]
              /\ reviews' = reviews \cup
                     {[rule |-> <<i, id, cands[i][id].stamp + 1>>, decision |-> decision]}
              /\ Goto(p, At("refresh", i))
      BY <1>1, <1>2, <1>5 DEF SaveReview
    <2>2. PICK new : new = [call[p].copy EXCEPT !.status = decision, !.ready = ready,
                                                !.stamp = cands[i][id].stamp + 1]
      OBVIOUS
    <2>3. /\ IsCands(cands[i])
          /\ \A x \in DOMAIN cands[i] : cands[i][x].stamp \in Nat
      BY <1>3 DEF LaneTyped, IsCands, CandidateType
    <2>4. /\ new \in CandidateType /\ new.status = decision
          /\ new.stamp = cands[i][id].stamp + 1
      <3>1. PICK copy \in CandidateType : copy = call[p].copy
        BY <1>3
      <3>2. PICK n \in Nat : n = cands[i][id].stamp + 1
        BY <2>1, <2>3
      <3>3. new = [copy EXCEPT !.status = decision, !.ready = ready, !.stamp = n]
        BY <2>2, <3>1, <3>2
      <3>4. new \in CandidateType /\ new.status = decision /\ new.stamp = n
        BY <3>3 DEF CandidateType
      <3> QED BY <3>2, <3>4
    <2>5. PICK cs : cs = [cands[i] EXCEPT ![id] = new]
      OBVIOUS
    <2>6. /\ IsCands(cs) /\ DOMAIN cs = DOMAIN cands[i] /\ cs[id] = new
          /\ \A x \in DOMAIN cs : x # id => cs[x] = cands[i][x]
      BY <2>1, <2>3, <2>4, <2>5 DEF IsCands
    <2>7. cands' = [cands EXCEPT ![i] = cs]
      BY <2>1, <2>2, <2>5
    <2>8. reviews \subseteq reviews'
      BY <2>1
    <2>9. RulesReviewed(Rules(i, cs))'
      <3>1. ASSUME NEW x \in DOMAIN cs, cs[x].status = "approved"
            PROVE  [rule |-> <<i, x, cs[x].stamp>>, decision |-> "approved"] \in reviews'
        <4>1. CASE x = id
          BY <2>1, <2>4, <2>6, <3>1, <4>1
        <4>2. CASE x # id
          <5>1. /\ cs[x] = cands[i][x] /\ x \in DOMAIN cands[i]
            BY <2>6, <4>2
          <5>2. <<i, x, cs[x].stamp>> \in Rules(i, cands[i])
            BY <3>1, <5>1 DEF Rules, Approved
          <5> QED BY <1>3, <2>8, <5>2
                  DEF LaneInv, TableInv, CandidatesReviewed, RulesReviewed
        <4> QED BY <4>1, <4>2
      <3> QED BY <3>1 DEF RulesReviewed, Rules, Approved
    <2>10. RowsGrow
      BY <1>3, RowsKept
    <2>11. PICK c : c = At("refresh", i)
      OBVIOUS
    <2>12. Moves(p, c) /\ c.step = "refresh" /\ c.import = i
      BY <2>1, <2>11 DEF Goto, Moves, At
    <2>13. /\ call' = [x \in Callers |-> call'[x]] /\ call'[p] = c
           /\ \A x \in Callers : x # p => call'[x] = call[x]
      BY <1>3, <2>12, Moved
    <2>14. \A id2 \in DOMAIN cs : /\ cands[i][id2].stamp <= cs[id2].stamp
                                  /\ cs[id2].stamp = cands[i][id2].stamp => cs[id2] = cands[i][id2]
      BY <2>3, <2>4, <2>6
    <2>15. Grows /\ TableInv' /\ PacksInv'
      <3>1. /\ work' \in [ImportWorkers -> Jobs \cup {NoWork}]
            /\ \A w \in ImportWorkers : work'[w] # NoWork => imports'[work'[w].import] # NoImport
        BY <1>3 DEF LaneTyped
      <3>2. \A x \in Imports : call'[x].step = "begin" => call[x].step = "begin"
        BY <1>3, <2>12, <2>13 DEF Callers
      <3> QED BY <1>3, <2>6, <2>7, <2>8, <2>9, <2>10, <2>13, <2>14, <3>1, <3>2, CandidatesChange
    <2>16. CallInv(p)'
      BY <1>3, <2>12, <2>13 DEF CallInv, Steps, ImportSteps
    <2> QED BY SMTT(30), <1>3, <2>12, <2>15, <2>16, RequestMoves
  <1> QED BY <1>4, <1>5

(* A rule added by hand is approved as it is added, under a new stamp of    *)
(* the import.                                                              *)
LEMMA SaveManualKeeps ==
    ASSUME LaneInv, NEW p \in Calls, SaveManual(p)
    PROVE  LaneInv'
  <1>1. PICK i : i = call[p].import
    OBVIOUS
  <1>2. PICK id : id = <<"manual", p>>
    OBVIOUS
  <1>3. /\ p \in Callers /\ LaneTyped /\ call[p].step = "manual"
        /\ i \in Imports /\ imports[i] # NoImport
        /\ UNCHANGED <<queue, work, coll, packVars>>
    BY <1>1 DEF Callers, LaneInv, TableInv, CallInv, SaveManual, ImportSteps
  <1>4. CASE Goto(p, Done) /\ UNCHANGED <<imports, cands, reviews>>
    BY <1>3, <1>4, Ends
  <1>5. CASE ~(Goto(p, Done) /\ UNCHANGED <<imports, cands, reviews>>)
    <2>1. PICK new : new = [status |-> "approved", ready |-> TRUE, stamp |-> 1]
      OBVIOUS
    <2>2. PICK cs : cs = [x \in DOMAIN cands[i] \cup {id} |->
                             IF x = id THEN new ELSE cands[i][x]]
      OBVIOUS
    <2>3. /\ cands' = [cands EXCEPT ![i] = cs] /\ Write(i, imports[i])
          /\ reviews' = reviews \cup {[rule |-> <<i, id, 1>>, decision |-> "approved"]}
          /\ Goto(p, At("refresh", i))
      BY <1>1, <1>2, <1>5, <2>1, <2>2 DEF SaveManual
    <2>4. new \in CandidateType /\ new.stamp = 1
      BY <2>1 DEF CandidateType
    <2>5. /\ IsCands(cs)
          /\ \A x \in DOMAIN cs : x = id \/ (x \in DOMAIN cands[i] /\ cs[x] = cands[i][x])
          /\ cs[id] = new
      BY <1>3, <2>2, <2>4 DEF IsCands, LaneTyped
    <2>6. RowsGrow /\ imports'[i] # imports[i]
      <3>1. /\ imports[i] \in ImportRows /\ imports[i].stamp \in Nat
        BY <1>3, Uploaded
      <3>2. RowsGrow
        BY <1>3, <2>3, <3>1, RowWritten
      <3>3. imports'[i].stamp = imports[i].stamp + 1
        BY <1>3, <2>3, <3>1 DEF Write, LaneTyped, ImportRows
      <3> QED BY <3>1, <3>2, <3>3
    <2>7. reviews \subseteq reviews'
      BY <2>3
    <2>8. RulesReviewed(Rules(i, cs))'
      <3>1. ASSUME NEW x \in DOMAIN cs, cs[x].status = "approved"
            PROVE  [rule |-> <<i, x, cs[x].stamp>>, decision |-> "approved"] \in reviews'
        <4>1. CASE x = id
          BY <2>3, <2>4, <2>5, <3>1, <4>1
        <4>2. CASE x # id
          <5>1. <<i, x, cs[x].stamp>> \in Rules(i, cands[i])
            BY <2>5, <3>1, <4>2 DEF Rules, Approved
          <5> QED BY <1>3, <2>7, <5>1
                  DEF LaneInv, TableInv, CandidatesReviewed, RulesReviewed
        <4> QED BY <4>1, <4>2
      <3> QED BY <3>1 DEF RulesReviewed, Rules, Approved
    <2>9. PICK c : c = At("refresh", i)
      OBVIOUS
    <2>10. Moves(p, c) /\ c.step = "refresh" /\ c.import = i
      BY <2>3, <2>9 DEF Goto, Moves, At
    <2>11. /\ call' = [x \in Callers |-> call'[x]] /\ call'[p] = c
           /\ \A x \in Callers : x # p => call'[x] = call[x]
      BY <1>3, <2>10, Moved
    <2>12. Grows /\ TableInv' /\ PacksInv'
      <3>1. /\ work' \in [ImportWorkers -> Jobs \cup {NoWork}]
            /\ \A w \in ImportWorkers : work'[w] # NoWork => imports'[work'[w].import] # NoImport
        BY <1>3, <2>6 DEF LaneTyped, RowsGrow, Jobs
      <3>2. \A x \in Imports : call'[x].step = "begin" => call[x].step = "begin"
        BY <1>3, <2>10, <2>11 DEF Callers
      <3> QED BY <1>3, <2>3, <2>5, <2>6, <2>7, <2>8, <2>11, <3>1, <3>2, CandidatesChange
    <2>13. CallInv(p)'
      BY <1>3, <2>6, <2>10, <2>11 DEF CallInv, Steps, ImportSteps, RowsGrow
    <2> QED BY <1>3, <2>10, <2>12, <2>13, RequestMoves
  <1> QED BY <1>4, <1>5

(* What is extracted replaces candidates nobody has reviewed, under a new   *)
(* stamp of the import, and waits for a decision.                           *)
LEMMA ReplaceKeeps ==
    ASSUME LaneInv, NEW w \in ImportWorkers, ReplaceCandidates(w)
    PROVE  LaneInv'
  <1>1. PICK i : i = work[w].import
    OBVIOUS
  <1>2. /\ LaneTyped /\ i \in Imports /\ imports[i] # NoImport
        /\ UNCHANGED <<reviews, queue, call, coll, packVars>>
    BY <1>1, JobHeld DEF LaneInv, TableInv, ReplaceCandidates, Working
  <1>3. CASE WorkOn(w, Failing(i, "failed_retryable")) /\ UNCHANGED <<imports, cands>>
    BY <1>2, <1>3, JobsAre, RowsKept, QueueKept, WorkerWrites
  <1>4. CASE ~(WorkOn(w, Failing(i, "failed_retryable")) /\ UNCHANGED <<imports, cands>>)
    <2>1. PICK found \in SUBSET Extracted, mapped \in BOOLEAN, all \in BOOLEAN :
              /\ cands' = [cands EXCEPT ![work[w].import] =
                     [id \in found \X {imports[work[w].import].stamp} |->
                        [status |-> "pending", ready |-> mapped, stamp |-> 1]]]
              /\ Write(work[w].import, [imports[work[w].import] EXCEPT
                     !.complete = all,
                     !.status = IF all THEN "review_required" ELSE "failed_retryable"])
              /\ WorkOn(w, NoWork)
      <3>1. ~(/\ WorkOn(w, Failing(work[w].import, "failed_retryable"))
              /\ UNCHANGED <<imports, cands>>)
        BY <1>1, <1>4
      <3> QED BY ZenonT(30), <3>1 DEF ReplaceCandidates
    <2>2. PICK cs : cs = [id \in found \X {imports[i].stamp} |->
                            [status |-> "pending", ready |-> mapped, stamp |-> 1]]
      OBVIOUS
    <2>3. cands' = [cands EXCEPT ![i] = cs]
      BY <1>1, <2>1, <2>2
    <2>4. IsCands(cs) /\ \A x \in DOMAIN cs : cs[x].status = "pending"
      BY <2>2 DEF IsCands, CandidateType
    <2>5. RulesReviewed(Rules(i, cs))'
      BY <2>4 DEF RulesReviewed, Rules, Approved
    <2>6. PICK row : row = [imports[i] EXCEPT
                     !.complete = all,
                     !.status = IF all THEN "review_required" ELSE "failed_retryable"]
      OBVIOUS
    <2>7. row \in ImportRows /\ row.stamp = imports[i].stamp
      BY <1>2, <2>6, Uploaded DEF ImportRows, ImportStatus
    <2>8. Write(i, row)
      BY <1>1, <2>1, <2>6
    <2>9. RowsGrow /\ imports'[i] # imports[i]
      <3>1. /\ imports[i] \in ImportRows /\ imports[i].stamp \in Nat
        BY <1>2, Uploaded
      <3>2. RowsGrow
        BY <1>2, <2>7, <2>8, RowWritten
      <3>3. imports'[i].stamp = imports[i].stamp + 1
        BY <1>2, <2>7, <2>8 DEF Write, LaneTyped, ImportRows
      <3> QED BY <3>1, <3>2, <3>3
    <2>10. /\ work' \in [ImportWorkers -> Jobs \cup {NoWork}]
           /\ work'[w] = NoWork
           /\ \A x \in ImportWorkers : x # w => work'[x] = work[x]
      BY <1>2, <2>1 DEF WorkOn, LaneTyped
    <2>11. \A x \in ImportWorkers : work'[x] # NoWork => imports'[work'[x].import] # NoImport
      BY <1>2, <2>9, <2>10 DEF LaneTyped, RowsGrow, Jobs
    <2>12. call' = [x \in Callers |-> call'[x]] /\ reviews \subseteq reviews'
      BY <1>2 DEF LaneTyped
    <2>13. \A x \in Imports : call'[x].step = "begin" => call[x].step = "begin"
      BY <1>2
    <2>14. Grows /\ TableInv' /\ PacksInv'
      BY <1>2, <2>3, <2>4, <2>5, <2>9, <2>10, <2>11, <2>12, <2>13, CandidatesChange
    <2> QED BY <1>2, <2>14, NoRequestMoves
  <1> QED BY <1>1, <1>3, <1>4 DEF ReplaceCandidates

(* Members come and go while a collection is a draft. *)
LEMMA MembersChange ==
    ASSUME LaneInv, UNCHANGED <<imports, cands, reviews, queue, work, packVars>>,
           NEW p \in Callers, Goto(p, Done), NEW g \in Collections,
           NEW row, CollRow(row), coll' = [coll EXCEPT ![g] = row]
    PROVE  LaneInv'
  <1>1. PICK c : c = Done
    OBVIOUS
  <1>2. Moves(p, c) /\ c.step = "done"
    BY <1>1 DEF Goto, Moves, Done
  <1>3. /\ call' = [x \in Callers |-> call'[x]] /\ call'[p] = c
        /\ \A x \in Callers : x # p => call'[x] = call[x]
    BY <1>2, Moved DEF LaneInv, TableInv
  <1>4. CallInv(p)'
    BY <1>2, <1>3 DEF CallInv, Steps, ImportSteps
  <1>5. coll' = [x \in Collections |-> coll'[x]] /\ \A x \in Collections : CollRow(coll[x])'
    <2>1. coll = [x \in Collections |-> coll[x]] /\ \A x \in Collections : CollRow(coll[x])
      BY DEF LaneInv, TableInv, LaneTyped
    <2>2. /\ coll' = [x \in Collections |-> coll'[x]]
          /\ \A x \in Collections : coll'[x] = IF x = g THEN row ELSE coll[x]
      BY <2>1
    <2>3. \A x \in Collections : CollRow(coll'[x])
      BY <2>1, <2>2
    <2> QED BY <2>2, <2>3 DEF CollRow
  <1>6. LaneTyped'
    BY <1>3, <1>5 DEF LaneInv, TableInv, LaneTyped, IsCands
  <1>7. NotUploaded'
    BY <1>2, <1>3 DEF LaneInv, TableInv, NotUploaded, Callers
  <1>8. Grows /\ TableInv' /\ PacksInv'
    BY <1>6, <1>7, TablesStay, PacksStay DEF LaneInv, TableInv, packVars, tableVars
  <1> QED BY <1>2, <1>4, <1>8, RequestMoves

LEMMA MembersKeep ==
    ASSUME LaneInv, NEW p \in Calls, NEW g \in Collections,
           NEW i \in Imports, imports[i] # NoImport,
           AddMember(p, g, i) \/ RemoveMember(p, g, i)
    PROVE  LaneInv'
  <1>1. /\ p \in Callers /\ Goto(p, Done)
        /\ UNCHANGED <<imports, cands, reviews, queue, work, packVars>>
    BY DEF Callers, AddMember, RemoveMember
  <1>2. CollRow(coll[g]) /\ coll = [x \in Collections |-> coll[x]]
    BY DEF LaneInv, TableInv, LaneTyped
  <1>3. PICK members : /\ coll' = [coll EXCEPT ![g].members = members]
                       /\ DOMAIN members \subseteq DOMAIN coll[g].members \cup {i}
    <2>1. CASE AddMember(p, g, i)
      <3>1. PICK v : v = NextPosition(g)
        OBVIOUS
      <3>2. PICK more : more = Extend(coll[g].members, i, v)
        OBVIOUS
      <3>3. DOMAIN more = DOMAIN coll[g].members \cup {i}
        BY <3>2 DEF Extend
      <3>4. \/ coll' = [coll EXCEPT ![g].members = coll[g].members]
            \/ coll' = [coll EXCEPT ![g].members = more]
        BY <2>1, <3>1, <3>2 DEF AddMember
      <3> QED BY <3>3, <3>4
    <2>2. CASE RemoveMember(p, g, i)
      <3>1. PICK less : less = Restrict(coll[g].members, Members(g) \ {i})
        OBVIOUS
      <3>2. DOMAIN less \subseteq DOMAIN coll[g].members
        BY <3>1 DEF Restrict, Members
      <3>3. coll' = [coll EXCEPT ![g].members = less]
        BY <2>2, <3>1 DEF RemoveMember
      <3> QED BY <3>2, <3>3
    <2> QED BY <2>1, <2>2
  <1>4. PICK row : row = [coll[g] EXCEPT !.members = members]
    OBVIOUS
  <1>5. /\ row = [members |-> row.members, compiled |-> row.compiled]
        /\ row.members = members /\ row.compiled = coll[g].compiled
    BY <1>2, <1>4 DEF CollRow
  <1>6. CollRow(row)
    BY <1>2, <1>3, <1>5 DEF CollRow
  <1>7. coll' = [coll EXCEPT ![g] = row]
    BY <1>3, <1>4
  <1> QED BY <1>1, <1>6, <1>7, MembersChange

----------------------------------------------------------------------------
(* Saving packs *)

(* Whatever is saved is not empty, and reviewed unless it was posted.       *)
LEMMA SavableReviewed ==
    ASSUME LaneInv, NEW content, Savable(content)
    PROVE  content # {} /\ RulesReviewed(content \ {PostedRule})
  <1>1. CASE content = {PostedRule}
    BY <1>1 DEF RulesReviewed
  <1>2. ASSUME NEW p \in Calls, call[p].step = "bundle", content = call[p].content
        PROVE  content # {} /\ RulesReviewed(content)
    BY <1>2 DEF LaneInv, CallInv, Callers
  <1>3. ASSUME NEW p \in Calls, call[p].step = "collect", Unchanged(call[p]),
               content = CollectedRules(call[p])
        PROVE  content # {} /\ RulesReviewed(content)
    <2>1. PICK c : c = call[p]
      OBVIOUS
    <2>2. GatherInv(c) /\ c.step = "collect"
      BY <1>3, <2>1, GatherHolds
    <2>3. DOMAIN c.lists = DOMAIN c.rows
          /\ \A i \in DOMAIN c.rows : RulesReviewed(Rules(i, c.lists[i]))
      BY <2>2 DEF GatherInv
    <2>4. \E i \in DOMAIN c.rows : Rules(i, c.lists[i]) # {}
      BY <1>3, <2>1 DEF Unchanged, CollectionReady, Rules
    <2>5. content = UNION {Rules(i, c.lists[i]) : i \in DOMAIN c.rows}
      BY <1>3, <2>1 DEF CollectedRules
    <2> QED BY <2>3, <2>4, <2>5 DEF RulesReviewed
  <1> QED BY <1>1, <1>2, <1>3 DEF Savable, RulesReviewed

LEMMA SaveReviewed ==
    ASSUME LaneInv, PacksSave, reviews' = reviews
    PROVE  PackRulesReviewed' /\ PacksFilled'
  <1>1. PICK k, content : \E reviewed \in BOOLEAN :
            /\ VersionFree(k) /\ Savable(content)
            /\ packs' = [packs EXCEPT ![k] = NewPack(content, reviewed)]
    BY DEF PacksSave
  <1>2. content # {} /\ RulesReviewed(content \ {PostedRule})
    BY <1>1, SavableReviewed
  <1>3. /\ packs = [j \in Packs |-> packs[j]] /\ PackRulesReviewed /\ PacksFilled
    BY DEF LaneInv, PacksInv, PacksTyped, TableInv
  <1>4. \A j \in Packs : packs'[j] = packs[j] \/ packs'[j].content = content
    BY <1>1, <1>3 DEF NewPack
  <1>5. PackRulesReviewed'
    BY <1>2, <1>3, <1>4 DEF PackRulesReviewed, RulesReviewed, Saved
  <1>6. PacksFilled'
    BY <1>2, <1>3, <1>4 DEF PacksFilled, Saved
  <1> QED BY <1>5, <1>6

LEMMA DecisionReviewed ==
    ASSUME LaneInv, DecisionNext, reviews' = reviews
    PROVE  PackRulesReviewed' /\ PacksFilled'
  <1>1. CASE UNCHANGED packs
    BY <1>1 DEF LaneInv, TableInv, PackRulesReviewed, PacksFilled, Saved
  <1>2. ASSUME NEW k \in Packs, NEW s \in {"approved", "disabled"}, Decided(k, s), Saved(k)
        PROVE  PackRulesReviewed' /\ PacksFilled'
    <2>1. \A j \in Packs : /\ packs'[j].content = packs[j].content
                           /\ j # k => packs'[j] = packs[j]
      BY <1>2, DecidedKeepsRows DEF LaneInv, PacksInv, PackStatus
    <2>2. \A j \in Packs : Saved(j)' => Saved(j)
      BY <1>2, <2>1 DEF Saved
    <2> QED BY <2>1, <2>2 DEF LaneInv, TableInv, PackRulesReviewed, PacksFilled
  <1> QED BY <1>1, <1>2, DecisionsAreReviewed DEF LaneInv

(* A decision or a posted pack. *)
LEMMA PacksKeep ==
    ASSUME LaneInv, PacksInv', UNCHANGED importVars, PacksSave \/ DecisionNext
    PROVE  LaneInv'
  <1>1. PackRulesReviewed' /\ PacksFilled'
    BY SaveReviewed, DecisionReviewed DEF importVars
  <1>2. LaneTyped' /\ NotUploaded' /\ CandidatesReviewed'
    <2>1. LaneTyped /\ NotUploaded /\ CandidatesReviewed
      BY DEF LaneInv, TableInv
    <2>2. LaneTyped'
      BY <2>1 DEF LaneTyped, IsCands, CollRow, importVars
    <2>3. NotUploaded'
      BY <2>1 DEF NotUploaded, importVars
    <2>4. CandidatesReviewed'
      BY <2>1 DEF CandidatesReviewed, RulesReviewed, Rules, Approved, importVars
    <2> QED BY <2>2, <2>3, <2>4
  <1>3. Grows
    BY RowsKept, GrowsOfRows DEF LaneInv, TableInv, importVars
  <1> QED BY <1>1, <1>2, <1>3, NoRequestMoves DEF TableInv, importVars

(* The request that saves ends with it. *)
LEMMA SavesKeep ==
    ASSUME LaneInv, PacksInv', PackRulesReviewed', PacksFilled', RowsGrow,
           UNCHANGED <<cands, reviews, queue, work>>,
           coll' = [g \in Collections |-> coll'[g]],
           \A g \in Collections : CollRow(coll[g])',
           NEW p \in Callers, Goto(p, Done)
    PROVE  LaneInv'
  <1>1. PICK c : c = Done
    OBVIOUS
  <1>2. Moves(p, c) /\ c.step = "done"
    BY <1>1 DEF Goto, Moves, Done
  <1>3. /\ call' = [x \in Callers |-> call'[x]] /\ call'[p] = c
        /\ \A x \in Callers : x # p => call'[x] = call[x]
    BY <1>2, Moved DEF LaneInv, TableInv
  <1>4. CallInv(p)'
    BY <1>2, <1>3 DEF CallInv, Steps, ImportSteps
  <1>5. LaneTyped'
    BY <1>3 DEF LaneInv, TableInv, LaneTyped, IsCands, RowsGrow, Jobs
  <1>6. NotUploaded'
    BY <1>2, <1>3 DEF LaneInv, TableInv, NotUploaded, Callers, RowsGrow
  <1>7. CandidatesReviewed'
    BY DEF LaneInv, TableInv, CandidatesReviewed, RulesReviewed, Rules, Approved
  <1>8. Grows
    BY GrowsOfRows DEF LaneInv, TableInv
  <1> QED BY <1>2, <1>4, <1>5, <1>6, <1>7, <1>8, RequestMoves DEF TableInv

LEMMA CompileSaveKeeps ==
    ASSUME LaneInv, PacksInv', NEW p \in Calls, CompileSave(p)
    PROVE  LaneInv'
  <1>1. PICK i : i = call[p].import
    OBVIOUS
  <1>2. /\ p \in Callers /\ LaneTyped /\ call[p].step = "bundle"
        /\ i \in Imports /\ imports[i] # NoImport /\ call[p].pack \in Packs
        /\ Goto(p, Done) /\ UNCHANGED <<cands, reviews, queue, work, coll, admin>>
    BY <1>1 DEF Callers, LaneInv, TableInv, CallInv, CompileSave, ImportSteps
  <1>3. CASE UNCHANGED <<tableVars, imports>>
    BY <1>2, <1>3, Ends DEF packVars
  <1>4. CASE ~UNCHANGED <<tableVars, imports>>
    <2>1. PICK source : source = <<"import", i>>
      OBVIOUS
    <2>2. PICK row : row = [imports[i] EXCEPT !.status = "compiled",
                                              !.pack = call[p].pack, !.source = source]
      OBVIOUS
    <2>3. /\ VersionFree(call[p].pack) /\ Write(i, row)
          /\ packs' = [packs EXCEPT ![call[p].pack] = NewPack(call[p].content, TRUE)]
      BY <1>1, <1>4, <2>1, <2>2 DEF CompileSave, BundleFits, PersistBundle
    <2>4. row \in ImportRows /\ row.stamp = imports[i].stamp
      <3>1. source \in ImportSources
        BY <1>2, <2>1 DEF ImportSources
      <3> QED BY <1>2, <2>2, <3>1, Uploaded DEF ImportRows, ImportStatus
    <2>5. RowsGrow
      BY <1>2, <2>3, <2>4, RowWritten
    <2>6. PacksSave
      BY <1>2, <2>3 DEF PacksSave, Savable
    <2>7. PackRulesReviewed' /\ PacksFilled'
      BY <1>2, <2>6, SaveReviewed
    <2>8. /\ coll' = [g \in Collections |-> coll'[g]]
          /\ \A g \in Collections : CollRow(coll[g])'
      BY <1>2, <2>5 DEF LaneTyped, CollRow, RowsGrow
    <2> QED BY <1>2, <2>5, <2>7, <2>8, SavesKeep
  <1> QED BY <1>3, <1>4

(* The row a member gets when its collection is compiled. *)
LEMMA CollectedRow ==
    ASSUME LaneTyped, NEW c, GatherInv(c), NEW i \in DOMAIN c.rows
    PROVE  /\ Collected(c, i) \in ImportRows
           /\ Collected(c, i).stamp = imports[i].stamp + 1
           /\ Collected(c, i).status = "compiled"
           /\ Collected(c, i).verified = imports[i].verified
           /\ Collected(c, i).pack = IF imports[i].pack = NoPack THEN c.coll
                                                                ELSE imports[i].pack
  <1>1. i \in Imports /\ imports[i] \in ImportRows /\ c.rows[i] \in ImportRows /\ c.coll \in Packs
    BY Uploaded, PolicyAssumption DEF GatherInv, RowKnown
  <1>2. PICK source : source = SourceId(c, i)
    OBVIOUS
  <1>3. source \in ImportSources
    BY <1>1, <1>2 DEF SourceId, ImportSources, ImportRows
  <1>4. PICK pack \in Packs \cup {NoPack} :
            pack = IF imports[i].pack = NoPack THEN c.coll ELSE imports[i].pack
    BY <1>1 DEF ImportRows
  <1>5. PICK n \in Nat : n = imports[i].stamp + 1
    BY <1>1 DEF ImportRows
  <1>6. Collected(c, i) = [imports[i] EXCEPT !.status = "compiled", !.stamp = n,
                                             !.source = source, !.pack = pack]
    BY <1>2, <1>4, <1>5 DEF Collected
  <1>7. PICK row \in ImportRows : row = imports[i]
    BY <1>1
  <1>8. PICK new : new = [row EXCEPT !.status = "compiled", !.stamp = n,
                                     !.source = source, !.pack = pack]
    OBVIOUS
  <1>9. /\ new \in ImportRows /\ new.stamp = n /\ new.status = "compiled"
        /\ new.verified = row.verified /\ new.pack = pack
    BY <1>3, <1>8 DEF ImportRows, ImportStatus
  <1> QED BY <1>4, <1>5, <1>6, <1>7, <1>8, <1>9

LEMMA CollectionSaveKeeps ==
    ASSUME LaneInv, PacksInv', NEW p \in Calls, CollectionSave(p)
    PROVE  LaneInv'
  <1>1. PICK c : c = call[p]
    OBVIOUS
  <1>2. /\ p \in Callers /\ LaneTyped /\ c.step = "collect" /\ GatherInv(c)
        /\ Goto(p, Done) /\ UNCHANGED <<cands, reviews, queue, work, admin>>
    BY <1>1, GatherHolds DEF CollectionSave, LaneInv, TableInv
  <1>3. CASE UNCHANGED <<tableVars, imports, coll>>
    BY <1>2, <1>3, Ends DEF packVars
  <1>4. CASE ~UNCHANGED <<tableVars, imports, coll>>
    <2>1. /\ Unchanged(c) /\ VersionFree(c.coll)
          /\ packs' = [packs EXCEPT ![c.coll] = NewPack(CollectedRules(c), TRUE)]
          /\ imports' = [i \in Imports |->
                 IF i \in DOMAIN c.rows THEN Collected(c, i) ELSE imports[i]]
          /\ coll' = [coll EXCEPT ![c.coll].compiled = TRUE]
      BY <1>1, <1>4 DEF CollectionSave, BundleFits, PersistBundle
    <2>2. PacksSave
      BY <1>1, <1>2, <2>1 DEF PacksSave, Savable
    <2>3. PackRulesReviewed' /\ PacksFilled'
      BY <1>2, <2>2, SaveReviewed
    <2>4. RowsGrow
      <3>1. \A i \in Imports : i \in DOMAIN c.rows =>
                /\ imports'[i] \in ImportRows /\ imports'[i] # NoImport
                /\ imports[i] # NoImport /\ imports[i].stamp < imports'[i].stamp
        <4>1. ASSUME NEW i \in DOMAIN c.rows
              PROVE  /\ Collected(c, i) \in ImportRows /\ Collected(c, i) # NoImport
                     /\ imports[i] # NoImport /\ imports[i].stamp < Collected(c, i).stamp
          <5>1. imports[i] # NoImport /\ i \in Imports
            BY <1>2 DEF GatherInv, RowKnown
          <5>2. imports[i].stamp \in Nat
            BY <1>2, <5>1, Uploaded
          <5> QED BY <1>2, <5>1, <5>2, CollectedRow, PolicyAssumption
        <4> QED BY <2>1, <4>1
      <3>2. \A i \in Imports : i \notin DOMAIN c.rows => imports'[i] = imports[i]
        BY <2>1
      <3>3. \A i \in Imports : imports'[i] \in ImportRows \cup {NoImport}
        BY <1>2, <3>1, <3>2 DEF LaneTyped
      <3>4. imports' = [i \in Imports |-> imports'[i]]
        BY <2>1
      <3> QED BY <3>1, <3>2, <3>3, <3>4 DEF RowsGrow
    <2>5. /\ coll' = [g \in Collections |-> coll'[g]]
          /\ \A g \in Collections : CollRow(coll[g])'
      <3>1. /\ coll = [g \in Collections |-> coll[g]]
            /\ \A g \in Collections : CollRow(coll[g])
        BY <1>2 DEF LaneTyped
      <3>2. PICK h \in Collections : h = c.coll
        BY <1>2 DEF GatherInv
      <3>3. PICK row, yes : row = [coll[h] EXCEPT !.compiled = yes] /\ yes = TRUE
        OBVIOUS
      <3>4. /\ coll' = [x \in Collections |-> coll'[x]]
            /\ \A x \in Collections : coll'[x] = IF x = h THEN row ELSE coll[x]
        BY <2>1, <3>1, <3>2, <3>3
      <3>5. /\ row = [members |-> row.members, compiled |-> row.compiled]
            /\ row.members = coll[h].members /\ row.compiled = yes
        <4>1. CollRow(coll[h])
          BY <3>1
        <4> QED BY <3>3, <4>1 DEF CollRow
      <3>9. CollRow(row)
        BY <3>1, <3>3, <3>5 DEF CollRow
      <3>6. \A x \in Collections : CollRow(coll'[x])
        BY <3>1, <3>4, <3>9
      <3>7. \A i \in Imports : imports[i] # NoImport => imports'[i] # NoImport
        BY <2>4 DEF RowsGrow
      <3>8. \A g \in Collections : CollRow(coll[g])'
        BY <3>6, <3>7 DEF CollRow
      <3> QED BY <3>4, <3>8
    <2> QED BY <1>2, <2>3, <2>4, <2>5, SavesKeep
  <1> QED BY <1>3, <1>4

----------------------------------------------------------------------------
(* The invariant is inductive *)

LEMMA LaneInit == Init => LaneInv
  <1> SUFFICES ASSUME Init PROVE LaneInv
    OBVIOUS
  <1>1. PacksInv
    BY PacksInvInit
  <1>2. PICK there \in SUBSET Imports : Prepared(there)
    BY DEF Init
  <1>3. /\ queue = [i \in Imports |-> 0] /\ work = [w \in ImportWorkers |-> NoWork]
        /\ packs = [k \in Packs |-> Absent]
    BY DEF Init, PacksInit
  <1>4. ReviewedImport \in ImportRows /\ ReviewedImport # NoImport
    <2>1. NewImport \in ImportRows
      BY DEF NewImport, ImportRows, ImportStatus, ImportSources
    <2>2. ReviewedImport \in ImportRows
      BY <2>1 DEF ReviewedImport, ImportRows, ImportStatus
    <2> QED BY <2>2, PolicyAssumption
  <1>5. \A i \in Imports : imports[i] = IF i \in there THEN ReviewedImport ELSE NoImport
    BY <1>2 DEF Prepared
  <1>6. \A i \in Imports : IsCands(cands[i])
    BY <1>2 DEF Prepared, IsCands, CandidateType
  <1>7. /\ coll = [g \in Collections |-> coll[g]]
        /\ \A g \in Collections : CollRow(coll[g])
    <2>1. PICK members \in [Collections -> UNION
                  {Bijection(S, 0 .. Cardinality(S) - 1) : S \in SUBSET there}] :
              coll = [g \in Collections |-> [members |-> members[g], compiled |-> FALSE]]
      BY <1>2 DEF Prepared
    <2>2. \A g \in Collections : DOMAIN members[g] \subseteq there
      <3>1. ASSUME NEW g \in Collections PROVE DOMAIN members[g] \subseteq there
        <4>1. PICK S \in SUBSET there : members[g] \in Bijection(S, 0 .. Cardinality(S) - 1)
          BY <2>1
        <4> QED BY <4>1 DEF Bijection, Injection
      <3> QED BY <3>1
    <2> QED BY <1>4, <1>5, <2>1, <2>2 DEF CollRow
  <1>8. LaneTyped
    <2>1. imports \in [Imports -> ImportRows \cup {NoImport}]
      BY <1>2, <1>4 DEF Prepared
    <2>2. /\ cands = [i \in Imports |-> cands[i]] /\ call = [p \in Callers |-> call[p]]
      BY <1>2 DEF Prepared
    <2>3. /\ queue \in [Imports -> Nat] /\ work \in [ImportWorkers -> Jobs \cup {NoWork}]
          /\ \A i \in Imports : queue[i] = 0
          /\ \A w \in ImportWorkers : work[w] = NoWork
      BY <1>3
    <2> QED BY <1>6, <1>7, <2>1, <2>2, <2>3 DEF LaneTyped
  <1>9. CandidatesReviewed
    <2>1. ASSUME NEW i \in Imports, NEW r \in Rules(i, cands[i])
          PROVE  [rule |-> r, decision |-> "approved"] \in reviews
      <3>1. PICK id \in DOMAIN cands[i] : r = <<i, id, cands[i][id].stamp>>
        BY <2>1 DEF Rules, Approved
      <3>2. i \in there /\ id \in Extracted \X {0} /\ cands[i][id].stamp = 2
        BY <1>2, <3>1 DEF Prepared
      <3>3. PICK x \in Extracted : id = <<x, 0>>
        BY <3>2
      <3>4. [rule |-> <<i, <<x, 0>>, 2>>, decision |-> "approved"] \in reviews
        <4>1. reviews = UNION {{[rule |-> <<j, <<y, 0>>, 2>>, decision |-> "approved"] :
                                    y \in Extracted} : j \in there}
          BY <1>2 DEF Prepared
        <4>2. [rule |-> <<i, <<x, 0>>, 2>>, decision |-> "approved"]
                  \in {[rule |-> <<i, <<y, 0>>, 2>>, decision |-> "approved"] :
                          y \in Extracted}
          OBVIOUS
        <4> QED BY <3>2, <4>1, <4>2
      <3> QED BY <3>1, <3>2, <3>3, <3>4
    <2> QED BY <2>1 DEF CandidatesReviewed, RulesReviewed
  <1>10. PackRulesReviewed /\ PacksFilled
    BY <1>3 DEF PackRulesReviewed, PacksFilled, Saved, Absent
  <1>11. NotUploaded
    BY <1>2, <1>5 DEF Prepared, NotUploaded, Callers, Done
  <1>12. \A p \in Callers : CallInv(p)
    <2>1. \A p \in Callers : call[p].step \in {"begin", "done"}
      BY <1>2 DEF Prepared, Begin, Done
    <2> QED BY <2>1 DEF CallInv, Steps, ImportSteps
  <1> QED BY <1>1, <1>8, <1>9, <1>10, <1>11, <1>12 DEF LaneInv, TableInv

LEMMA LaneStep == LaneInv /\ [Next]_vars => LaneInv'
  <1> SUFFICES ASSUME LaneInv, [Next]_vars PROVE LaneInv'
    OBVIOUS
  <1>1. PacksInv'
    BY PacksInvNext DEF LaneInv
  <1>2. ASSUME NEW i \in Imports, UploadStep(i) PROVE LaneInv'
    BY <1>2, CreateImportKeeps, StoredKeeps, EndsOnly DEF UploadStep, Callers
  <1>3. ASSUME NEW p \in Callers, SubmitStep(p) \/ CallStops(p) PROVE LaneInv'
    BY <1>3, SubmitsKeep, EndsOnly
  <1>4. ASSUME NEW w \in ImportWorkers, WorkerStep(w) \/ ImportWorkerStops(w)
        PROVE  LaneInv'
    BY <1>4, WorkersKeep, ReplaceKeeps DEF WorkerStep
  <1>5. ASSUME NEW p \in Calls, CallStep(p) PROVE LaneInv'
    <2>1. ASSUME NEW i \in Imports, Request(p, i) PROVE LaneInv'
      BY <2>1, RetryKeeps, ReadsOnly, MembersKeep, CompileKeeps DEF Request
    <2>2. CASE \/ ActivateOcr(p) \/ ReadCandidate(p) \/ SaveReview(p) \/ SaveManual(p)
               \/ RefreshRead(p) \/ RefreshList(p) \/ SetReviewState(p)
      BY <2>2, ActivateKeeps, ReadCandidateKeeps, SaveReviewKeeps, SaveManualKeeps,
         RefreshReadKeeps
    <2>3. CASE CompileSave(p) \/ CollectionSave(p)
      BY <1>1, <2>3, CompileSaveKeeps, CollectionSaveKeeps
    <2>4. CASE GatherImport(p) \/ GatherCandidates(p) \/ \E g \in Collections : Gather(p, g)
      BY <2>4, GatherKeeps, GatherImportKeeps, GatherCandidatesKeeps
    <2>5. CASE CompileList(p)
      BY <2>5, CompileListKeeps
    <2> QED BY <1>5, <2>1, <2>2, <2>3, <2>4, <2>5 DEF CallStep
  <1>6. CASE PackStep
    <2>1. UNCHANGED importVars /\ (PacksSave \/ DecisionNext)
      BY <1>6 DEF PackStep, ImportPack, PersistBundle, PacksSave, Savable
    <2> QED BY <1>1, <2>1, PacksKeep
  <1>7. CASE UNCHANGED vars
    <2>1. UNCHANGED importVars /\ UNCHANGED packVars
      BY <1>7 DEF vars
    <2>2. LaneTyped' /\ NotUploaded'
      BY <2>1 DEF LaneInv, TableInv, LaneTyped, IsCands, CollRow, NotUploaded, importVars
    <2>3. Grows /\ TableInv'
      BY <2>1, <2>2, TablesStay DEF LaneInv, TableInv, importVars, packVars, tableVars
    <2> QED BY <1>1, <2>1, <2>3, NoRequestMoves DEF importVars
  <1> QED BY <1>2, <1>3, <1>4, <1>5, <1>6, <1>7 DEF Next

----------------------------------------------------------------------------
(* What is collected *)

(* Only the save at the end of a compilation turns a draft into a version.  *)
LEMMA OnlySaveCompiles ==
    ASSUME LaneInv, [Next]_vars, NEW g \in Collections, Draft(g), coll'[g].compiled
    PROVE  \E p \in Calls : CollectionSave(p)
  <1> SUFFICES ASSUME ~\E p \in Calls : CollectionSave(p)
               PROVE  coll'[g].compiled = coll[g].compiled
    BY DEF Draft
  <1>1. CASE UNCHANGED coll
    BY <1>1
  <1>2. ASSUME NEW p \in Calls, NEW h \in Collections, NEW i \in Imports,
               AddMember(p, h, i) \/ RemoveMember(p, h, i)
        PROVE  coll'[g].compiled = coll[g].compiled
    <2>1. CollRow(coll[g]) /\ CollRow(coll[h]) /\ coll = [x \in Collections |-> coll[x]]
      BY DEF LaneInv, TableInv, LaneTyped
    <2>2. PICK members : coll' = [coll EXCEPT ![h].members = members]
      BY <1>2 DEF AddMember, RemoveMember
    <2>3. PICK row : row = [coll[h] EXCEPT !.members = members]
      OBVIOUS
    <2>4. row.compiled = coll[h].compiled
      BY <2>1, <2>3 DEF CollRow
    <2>5. coll' = [coll EXCEPT ![h] = row]
      BY <2>2, <2>3
    <2> QED BY <2>1, <2>4, <2>5
  <1>3. ASSUME NEW i \in Imports, UploadStep(i) PROVE UNCHANGED coll
    BY <1>3 DEF UploadStep, CreateImport, SourceStored, SourceNotStored, BatchJobRefused
  <1>4. ASSUME NEW p \in Callers, SubmitStep(p) \/ CallStops(p) PROVE UNCHANGED coll
    BY SMTT(30), <1>4 DEF SubmitStep, JobQueued, JobRefused, MarkRefused, CallStops
  <1>5. ASSUME NEW w \in ImportWorkers, WorkerStep(w) \/ ImportWorkerStops(w)
        PROVE  UNCHANGED coll
    BY <1>5 DEF WorkerStep, TakeJob, SetupFails, BeginParsing, ParseFails, MarkParsed,
       ExtractFails, ReplaceCandidates, MarkFailed, ImportWorkerStops
  <1>6. ASSUME NEW p \in Calls, CallStep(p) PROVE coll'[g].compiled = coll[g].compiled
    <2>1. ASSUME NEW i \in Imports, Request(p, i) PROVE coll'[g].compiled = coll[g].compiled
      BY <1>2, <2>1 DEF Request, Retry, AttachOcr, Review, AddManual, VerifySource, Compile
    <2>2. CASE \/ ActivateOcr(p) \/ ReadCandidate(p) \/ SaveReview(p) \/ SaveManual(p)
               \/ RefreshRead(p) \/ RefreshList(p) \/ SetReviewState(p)
               \/ CompileList(p) \/ CompileSave(p) \/ GatherImport(p) \/ GatherCandidates(p)
      BY <2>2 DEF ActivateOcr, ReadCandidate, SaveReview, SaveManual, RefreshRead,
         RefreshList, SetReviewState, CompileList, CompileSave, GatherImport, GatherCandidates
    <2>3. CASE \E h \in Collections : Gather(p, h)
      BY <2>3 DEF Gather
    <2> QED BY <1>6, <2>1, <2>2, <2>3 DEF CallStep
  <1>7. CASE PackStep
    BY <1>7 DEF PackStep, importVars
  <1>8. CASE UNCHANGED vars
    BY <1>8 DEF vars, importVars
  <1> QED BY <1>3, <1>4, <1>5, <1>6, <1>7, <1>8 DEF Next

(* A snapshot that holds is what the tables say. *)
LEMMA SnapshotIsCurrent ==
    ASSUME LaneTyped, NEW c, GatherInv(c), c.step = "collect", SnapshotHolds(c),
           NEW i \in DOMAIN c.rows
    PROVE  c.rows[i] = imports[i] /\ c.lists[i] = cands[i]
  <1>1. i \in Imports /\ i \in DOMAIN c.lists /\ c.rows[i].stamp = imports[i].stamp
    BY DEF GatherInv, SnapshotHolds
  <1>2. c.rows[i] = imports[i]
    BY <1>1 DEF GatherInv, RowKnown
  <1>3. PICK cs : cs = c.lists[i]
    OBVIOUS
  <1>4. IsCands(cs) /\ ListKnown(i, c.rows[i], cs)
    BY <1>1, <1>3 DEF GatherInv
  <1>5. DOMAIN cs = DOMAIN cands[i] /\ \A id \in DOMAIN cs : cs[id] = cands[i][id]
    BY <1>1, <1>3, <1>4 DEF ListKnown, SnapshotHolds
  <1>6. IsCands(cands[i])
    BY <1>1 DEF LaneTyped
  <1>7. cs = cands[i]
    BY <1>4, <1>5, <1>6 DEF IsCands
  <1> QED BY <1>2, <1>3, <1>7

LEMMA CollectsFaithfully ==
    ASSUME LaneInv, NEW p \in Calls, CollectionSave(p),
           NEW g \in Collections, Draft(g), coll'[g].compiled
    PROVE  /\ packs'[g].content = UNION {Rules(i, cands[i]) : i \in Members(g)}
           /\ \A i \in Members(g) : ReviewComplete(imports[i], cands[i])
  <1>1. PICK c : c = call[p]
    OBVIOUS
  <1>2. LaneTyped /\ c.step = "collect" /\ GatherInv(c)
    BY <1>1, GatherHolds DEF CollectionSave, LaneInv, TableInv
  <1>3. /\ Unchanged(c)
        /\ packs' = [packs EXCEPT ![c.coll] = NewPack(CollectedRules(c), TRUE)]
        /\ coll' = [coll EXCEPT ![c.coll].compiled = TRUE]
    BY <1>1 DEF CollectionSave, BundleFits, PersistBundle, Draft
  <1>4. g = c.coll
    BY <1>2, <1>3 DEF Draft, LaneTyped
  <1>5. packs'[g].content = CollectedRules(c)
    BY <1>3, <1>4, PolicyAssumption DEF NewPack, LaneInv, PacksInv, PacksTyped
  <1>6. DOMAIN c.rows = Members(g)
    BY <1>3, <1>4 DEF Unchanged, SnapshotHolds
  <1>7. \A i \in DOMAIN c.rows : c.rows[i] = imports[i] /\ c.lists[i] = cands[i]
    BY <1>2, <1>3, SnapshotIsCurrent DEF Unchanged
  <1>8. CollectedRules(c) = UNION {Rules(i, cands[i]) : i \in Members(g)}
    BY <1>6, <1>7 DEF CollectedRules
  <1>9. \A i \in Members(g) : ReviewComplete(imports[i], cands[i])
    BY <1>3, <1>6, <1>7 DEF Unchanged, CollectionReady
  <1> QED BY <1>5, <1>8, <1>9

----------------------------------------------------------------------------
(* Theorems *)

(* Every row, list, job and request of the lane has its type in every       *)
(* reachable state, and a request past its first step works on an import    *)
(* that was uploaded.                                                       *)
THEOREM PolicyTypes == Spec => []PolicyTypeOK
  <1>1. LaneInv => PolicyTypeOK
    <2> SUFFICES ASSUME LaneInv PROVE PolicyTypeOK
      OBVIOUS
    <2>1. LaneTyped /\ PacksTyped /\ PacksFilled
      BY DEF LaneInv, PacksInv, TableInv
    <2>2. \A k \in Packs : Saved(k) => packs[k].status \in PackStatus /\ packs[k].content # {}
      BY <2>1 DEF PacksTyped, PackRow, PacksFilled, Saved
    <2>3. \A p \in Callers : call[p].step \in ImportSteps =>
              call[p].import \in Imports /\ imports[call[p].import] # NoImport
      BY DEF LaneInv, CallInv
    <2>4. \A g \in Collections : Members(g) \subseteq Imports /\ coll[g].compiled \in BOOLEAN
      <3>1. \A g \in Collections : CollRow(coll[g])
        BY <2>1 DEF LaneTyped
      <3> QED BY <3>1 DEF CollRow, Members
    <2>5. \A i \in Imports : cands[i] \in [DOMAIN cands[i] -> CandidateType]
      BY <2>1 DEF LaneTyped, IsCands
    <2> QED BY <2>1, <2>2, <2>3, <2>4, <2>5 DEF LaneTyped, PolicyTypeOK
  <1> QED BY <1>1, LaneInit, LaneStep, PTL DEF Spec

(* Every rule of a pack that came from documents was approved by a person   *)
(* in the wording the pack holds, in whatever order requests reviewed,      *)
(* extraction replaced candidates and compilations read and saved.          *)
THEOREM CompiledIsApproved == Spec => []PackRulesReviewed
  <1>1. LaneInv => PackRulesReviewed
    BY DEF LaneInv, TableInv
  <1> QED BY <1>1, LaneInit, LaneStep, PTL DEF Spec

(* A collection is compiled from the reviews of exactly its members as they *)
(* are in the step that saves it: save_compiled_collection refuses when a   *)
(* member, a row or a candidate is not what the compilation read.           *)
THEOREM CollectionsAreFaithful == Spec => CollectionFaithful
  <1>1. ASSUME LaneInv, [Next]_vars
        PROVE  [\A g \in Collections : Draft(g) /\ coll'[g].compiled =>
                   /\ packs'[g].content = UNION {Rules(i, cands[i]) : i \in Members(g)}
                   /\ \A i \in Members(g) : ReviewComplete(imports[i], cands[i])]_vars
    BY <1>1, OnlySaveCompiles, CollectsFaithfully
  <1> QED BY <1>1, LaneInit, LaneStep, PTL DEF Spec, CollectionFaithful

----------------------------------------------------------------------------
(* Holders *)

HeldStates == {"uploading", "queued", "parsing", "extracting"}

Submitting == {"store", "enqueue", "mark"}

(* What CompiledImmutable says of one import. *)
CompiledStays(i) ==
    imports[i] # NoImport /\ imports[i].status = "compiled" =>
        /\ imports'[i].status = "compiled"
        /\ imports'[i].verified = imports[i].verified
        /\ imports'[i].pack = imports[i].pack
        /\ cands'[i] = cands[i]

Keeps == HolderInv' /\ \A i \in Imports : CompiledStays(i)

LEMMA Unheld ==
    ASSUME LaneInv, HolderInv, NEW i \in Imports,
           imports[i] = NoImport \/ imports[i].status \notin HeldStates
    PROVE  /\ queue[i] = 0
           /\ \A p \in Callers : ~Submits(p, i)
           /\ \A w \in ImportWorkers : ~Works(w, i)
  <1>1. HeldStatus(i) /\ queue[i] \in Nat
    BY DEF HolderInv, LaneInv, TableInv, LaneTyped
  <1>2. CASE imports[i] = NoImport
    <2>1. queue[i] = 0
      BY <1>1, <1>2 DEF LaneInv, TableInv, LaneTyped
    <2>2. \A p \in Callers : ~Submits(p, i)
      BY <1>2 DEF LaneInv, CallInv, Submits, ImportSteps
    <2>3. \A w \in ImportWorkers : ~Works(w, i)
      BY <1>2 DEF LaneInv, TableInv, LaneTyped, Works
    <2> QED BY <2>1, <2>2, <2>3
  <1>3. CASE imports[i].status \notin HeldStates
    <2>1. queue[i] = 0
      BY <1>1, <1>3 DEF HeldStatus, HeldStates
    <2>2. \A p \in Callers : ~Submits(p, i)
      BY <1>1, <1>3 DEF HeldStatus, HeldStates
    <2>3. \A w \in ImportWorkers : ~Works(w, i)
      <3>1. \A w \in ImportWorkers : Works(w, i) =>
                work[w].step \in {"claim", "parse", "extract", "mark"}
        BY DEF Works, LaneInv, TableInv, LaneTyped, Jobs
      <3> QED BY <1>1, <1>3, <3>1 DEF HeldStatus, HeldStates
    <2> QED BY <2>1, <2>2, <2>3
  <1> QED BY <1>2, <1>3

(* A step that concerns another import: who holds this one still does, or   *)
(* no longer.                                                               *)
Aside(i) ==
    /\ queue'[i] = queue[i]
    /\ \A p \in Callers : Submits(p, i)' => Submits(p, i) /\ call'[p].step = call[p].step
    /\ \A w \in ImportWorkers : Works(w, i)' => Works(w, i) /\ work'[w] = work[w]
    /\ \/ imports'[i].status = imports[i].status
       \/ imports[i] # NoImport /\ imports[i].status \notin HeldStates

LEMMA AsideKeeps ==
    ASSUME LaneInv, HolderInv, NEW i \in Imports, Aside(i)
    PROVE  OneHolder(i)' /\ HeldStatus(i)'
  <1>1. OneHolder(i) /\ HeldStatus(i)
    BY DEF HolderInv
  <1>2. OneHolder(i)'
    BY <1>1 DEF OneHolder, Aside
  <1>3. CASE imports'[i].status = imports[i].status
    <2>1. \A p \in Callers : Submits(p, i)' =>
              imports'[i].status = IF call'[p].step = "store" THEN "uploading" ELSE "queued"
      BY <1>1, <1>3 DEF HeldStatus, Aside
    <2>2. queue'[i] > 0 => imports'[i].status = "queued"
      BY <1>1, <1>3 DEF HeldStatus, Aside
    <2>3. \A w \in ImportWorkers : Works(w, i)' =>
           /\ work'[w].step = "claim" => imports'[i].status = "queued"
           /\ work'[w].step = "parse" => imports'[i].status = "parsing"
           /\ work'[w].step = "extract" => imports'[i].status = "extracting"
           /\ work'[w].step = "mark" => imports'[i].status \in {"queued", "parsing", "extracting"}
      BY <1>1, <1>3 DEF HeldStatus, Aside
    <2> QED BY <1>2, <2>1, <2>2, <2>3 DEF HeldStatus
  <1>4. CASE imports[i].status \notin HeldStates
    <2>1. /\ queue'[i] = 0
          /\ \A p \in Callers : ~Submits(p, i)'
          /\ \A w \in ImportWorkers : ~Works(w, i)'
      BY <1>4, Unheld DEF Aside
    <2> QED BY <1>2, <2>1 DEF HeldStatus
  <1> QED BY <1>2, <1>3, <1>4 DEF Aside

(* What a step of somebody who holds nothing may do to a row: nothing a     *)
(* holder minds, and nothing to what is compiled.                           *)
RowStep(i) ==
    \/ /\ imports'[i] = imports[i]
       /\ cands'[i] = cands[i] \/ imports[i].status # "compiled"
    \/ /\ imports[i] # NoImport /\ imports[i].status \notin HeldStates
       /\ PackAgrees(imports'[i]) /\ CompiledStays(i)

LEMMA RequestAside ==
    ASSUME LaneInv, HolderInv, UNCHANGED <<queue, work>>,
           NEW p \in Callers, NEW c, Moves(p, c), c.step \notin Submitting,
           \A i \in Imports : RowStep(i)
    PROVE  Keeps
  <1>1. call'[p] = c /\ \A x \in Callers : x # p => call'[x] = call[x]
    BY Moved DEF LaneInv, TableInv
  <1>2. \A i \in Imports : Aside(i)
    BY <1>1 DEF Aside, Submits, Works, RowStep, Submitting
  <1>3. \A i \in Imports : OneHolder(i)' /\ HeldStatus(i)'
    BY <1>2, AsideKeeps
  <1>4. CompiledHasPack'
    BY DEF HolderInv, CompiledHasPack, RowStep, PackAgrees
  <1>5. \A i \in Imports : CompiledStays(i)
    BY DEF RowStep, CompiledStays
  <1> QED BY <1>3, <1>4, <1>5 DEF HolderInv, Keeps

(* The step that changes who holds import i. *)
LEMMA HolderMoves ==
    ASSUME LaneInv, HolderInv, NEW i \in Imports,
           \A x \in Imports : x # i => imports'[x] = imports[x] /\ cands'[x] = cands[x],
           \A x \in Imports : x # i => Aside(x),
           PackAgrees(imports'[i]), OneHolder(i)', HeldStatus(i)',
           imports[i] = NoImport \/ imports[i].status # "compiled"
    PROVE  Keeps
  <1>1. \A x \in Imports : OneHolder(x)' /\ HeldStatus(x)'
    BY AsideKeeps
  <1>2. CompiledHasPack'
    BY DEF HolderInv, CompiledHasPack, PackAgrees
  <1>3. \A x \in Imports : CompiledStays(x)
    BY DEF CompiledStays
  <1> QED BY <1>1, <1>2, <1>3 DEF HolderInv, Keeps

(* ... made by the upload or a request, when nobody else holds it.          *)
LEMMA SubmitterMoves ==
    ASSUME LaneInv, HolderInv, UNCHANGED <<cands, work>>, NEW i \in Imports,
           \A x \in Imports : x # i => imports'[x] = imports[x] /\ queue'[x] = queue[x],
           NEW p \in Callers, NEW c, Moves(p, c),
           c.step \in Submitting => c.import = i,
           call[p].step \in Submitting => call[p].import = i,
           \A r \in Callers : Submits(r, i) => r = p,
           \A w \in ImportWorkers : ~Works(w, i),
           queue'[i] \in {0, 1},
           queue'[i] = 1 => c.step \notin Submitting /\ imports'[i].status = "queued",
           c.step \in Submitting =>
               imports'[i].status = IF c.step = "store" THEN "uploading" ELSE "queued",
           PackAgrees(imports'[i]),
           imports[i] = NoImport \/ imports[i].status # "compiled"
    PROVE  Keeps
  <1>1. call'[p] = c /\ \A x \in Callers : x # p => call'[x] = call[x]
    BY Moved DEF LaneInv, TableInv
  <1>2. \A x \in Imports : x # i => Aside(x)
    BY <1>1 DEF Aside, Submits, Works, Submitting
  <1>3. /\ \A r \in Callers : Submits(r, i)' => r = p /\ c.step \in Submitting
        /\ \A w \in ImportWorkers : ~Works(w, i)'
    BY <1>1 DEF Submits, Works, Submitting
  <1>4. OneHolder(i)'
    BY <1>3 DEF OneHolder
  <1>5. HeldStatus(i)'
    BY <1>1, <1>3 DEF HeldStatus, Submits
  <1> QED BY <1>2, <1>4, <1>5, HolderMoves

(* ... or by a worker. *)
LEMMA WorkerMoves ==
    ASSUME LaneInv, HolderInv, UNCHANGED call, NEW i \in Imports,
           \A x \in Imports : x # i => /\ imports'[x] = imports[x] /\ cands'[x] = cands[x]
                                       /\ queue'[x] = queue[x],
           NEW w \in ImportWorkers, NEW j, WorkOn(w, j),
           j = NoWork \/ (j # NoWork /\ j.import = i),
           Works(w, i) \/ work[w] = NoWork,
           \A r \in Callers : ~Submits(r, i),
           \A v \in ImportWorkers : Works(v, i) => v = w,
           queue'[i] = 0,
           j # NoWork =>
               /\ j.step = "claim" => imports'[i].status = "queued"
               /\ j.step = "parse" => imports'[i].status = "parsing"
               /\ j.step = "extract" => imports'[i].status = "extracting"
               /\ j.step = "mark" => imports'[i].status \in {"queued", "parsing", "extracting"},
           PackAgrees(imports'[i]),
           imports[i] = NoImport \/ imports[i].status # "compiled"
    PROVE  Keeps
  <1>1. work'[w] = j /\ \A x \in ImportWorkers : x # w => work'[x] = work[x]
    BY DEF WorkOn, LaneInv, TableInv, LaneTyped
  <1>2. \A x \in Imports : x # i => Aside(x)
    BY <1>1 DEF Aside, Submits, Works
  <1>3. /\ \A r \in Callers : ~Submits(r, i)'
        /\ \A v \in ImportWorkers : Works(v, i)' => v = w /\ j # NoWork
    BY <1>1 DEF Submits, Works
  <1>4. OneHolder(i)'
    BY <1>3 DEF OneHolder
  <1>5. HeldStatus(i)'
    BY <1>1, <1>3 DEF HeldStatus
  <1> QED BY <1>2, <1>4, <1>5, HolderMoves

----------------------------------------------------------------------------
(* Who holds an import, action by action *)

LEMMA ReadsHold ==
    ASSUME LaneInv, HolderInv, UNCHANGED <<imports, cands, queue, work>>,
           NEW p \in Callers, NEW c, Goto(p, c), c.step \notin Submitting
    PROVE  Keeps
  BY RequestAside DEF RowStep, Goto, Moves

LEMMA EndsHold ==
    ASSUME LaneInv, HolderInv, UNCHANGED <<imports, cands, queue, work>>,
           NEW p \in Callers, Goto(p, Done)
    PROVE  Keeps
  BY ReadsHold DEF Done, Submitting

LEMMA GoesOnHolds ==
    ASSUME LaneInv, HolderInv, UNCHANGED <<imports, cands, queue, work>>,
           NEW p \in Callers, NEW step, step \notin Submitting, NEW i, Goto(p, At(step, i))
    PROVE  Keeps
  BY ReadsHold DEF At

LEMMA ReadersHold ==
    ASSUME LaneInv, HolderInv, NEW p \in Calls,
           \/ \E i \in Imports : AttachOcr(p, i) \/ Review(p, i) \/ AddManual(p, i)
           \/ \E i \in Imports : \E g \in Collections : AddMember(p, g, i) \/ RemoveMember(p, g, i)
    PROVE  Keeps
  BY GoesOnHolds, EndsHold
     DEF AttachOcr, Review, AddManual, AddMember, RemoveMember, Callers, Submitting

LEMMA RefreshHolds ==
    ASSUME LaneInv, HolderInv, NEW p \in Calls,
           ReadCandidate(p) \/ RefreshRead(p) \/ RefreshList(p)
    PROVE  Keeps
  <1>1. p \in Callers /\ UNCHANGED <<imports, cands, queue, work>>
    BY DEF Callers, ReadCandidate, RefreshRead, RefreshList
  <1>2. PICK i : i = call[p].import
    OBVIOUS
  <1>3. CASE ReadCandidate(p)
    <2>1. PICK id, expected :
              Goto(p, [step |-> "save", import |-> i, id |-> id,
                       copy |-> cands[i][id], expected |-> expected])
      BY <1>2, <1>3 DEF ReadCandidate
    <2> QED BY SMTT(30), <1>1, <2>1, ReadsHold DEF Submitting
  <1>4. CASE RefreshRead(p)
    <2>1. Goto(p, [step |-> "list", import |-> i, row |-> imports[i]])
      BY <1>2, <1>4 DEF RefreshRead
    <2> QED BY <1>1, <2>1, ReadsHold DEF Submitting
  <1>5. CASE RefreshList(p)
    <2>1. PICK to : Goto(p, [step |-> "set", import |-> i, to |-> to])
      BY <1>2, <1>5 DEF RefreshList
    <2> QED BY <1>1, <2>1, ReadsHold DEF Submitting
  <1> QED BY <1>3, <1>4, <1>5

LEMMA CompileReadsHold ==
    ASSUME LaneInv, HolderInv, NEW p \in Calls,
           \/ \E i \in Imports : \E k \in Packs : Compile(p, i, k)
           \/ CompileList(p) \/ \E g \in Collections : Gather(p, g)
    PROVE  Keeps
  <1>1. p \in Callers /\ UNCHANGED <<imports, cands, queue, work>>
    BY DEF Callers, Compile, CompileList, Gather
  <1>2. CASE Goto(p, Done)
    BY <1>1, <1>2, EndsHold
  <1>3. CASE ~Goto(p, Done)
    <2>1. ASSUME NEW i \in Imports, NEW k \in Packs, Compile(p, i, k)
          PROVE  Keeps
      <3>1. Goto(p, [step |-> "material", import |-> i, pack |-> k, row |-> imports[i]])
        BY <1>3, <2>1 DEF Compile
      <3> QED BY <1>1, <3>1, ReadsHold DEF Submitting
    <2>2. CASE CompileList(p)
      <3>1. Goto(p, [step |-> "bundle", import |-> call[p].import, pack |-> call[p].pack,
                     content |-> Rules(call[p].import, cands[call[p].import])])
        BY <1>3, <2>2 DEF CompileList
      <3> QED BY <1>1, <3>1, ReadsHold DEF Submitting
    <2>3. ASSUME NEW g \in Collections, Gather(p, g)
          PROVE  Keeps
      <3>1. Goto(p, [step |-> "gather", coll |-> g, left |-> Members(g),
                     rows |-> <<>>, lists |-> <<>>])
        BY <2>3 DEF Gather
      <3> QED BY <1>1, <3>1, ReadsHold DEF Submitting
    <2> QED BY <2>1, <2>2, <2>3
  <1> QED BY <1>2, <1>3

LEMMA GatherHoldsOn ==
    ASSUME LaneInv, HolderInv, NEW p \in Calls, GatherImport(p) \/ GatherCandidates(p)
    PROVE  Keeps
  <1>1. p \in Callers /\ UNCHANGED <<imports, cands, queue, work>>
    BY DEF Callers, GatherImport, GatherCandidates
  <1>2. PICK c : c = call[p]
    BY SMTT(30)
  <1>3. DOMAIN c = {"step", "coll", "left", "rows", "lists"}
    BY <1>2, GatherHolds DEF GatherImport, GatherCandidates, GatherInv
  <1>4. CASE Goto(p, Done)
    BY <1>1, <1>4, EndsHold
  <1>5. CASE GatherImport(p) /\ ~Goto(p, Done)
    <2>1. PICK i \in c.left :
              Goto(p, [c EXCEPT !.step = "gather_list", !.left = @ \ {i},
                                !.rows = Extend(@, i, imports[i])])
      BY <1>2, <1>5 DEF GatherImport
    <2>2. PICK new : new = [c EXCEPT !.step = "gather_list", !.left = @ \ {i},
                                     !.rows = Extend(@, i, imports[i])]
      OBVIOUS
    <2>3. new.step = "gather_list" /\ Goto(p, new)
      BY <1>3, <2>1, <2>2
    <2> QED BY <1>1, <2>3, ReadsHold DEF Submitting
  <1>6. CASE GatherCandidates(p)
    <2>1. PICK i \in DOMAIN c.rows \ DOMAIN c.lists :
            Goto(p, [c EXCEPT !.step = IF c.left = {} THEN "collect" ELSE "gather",
                              !.lists = Extend(@, i, cands[i])])
      BY <1>2, <1>6 DEF GatherCandidates
    <2>2. PICK new : new = [c EXCEPT !.step = IF c.left = {} THEN "collect" ELSE "gather",
                                     !.lists = Extend(@, i, cands[i])]
      OBVIOUS
    <2>3. new.step \in {"collect", "gather"} /\ Goto(p, new)
      BY <1>3, <2>1, <2>2
    <2> QED BY SMTT(30), <1>1, <2>3, ReadsHold DEF Submitting
  <1> QED BY SMTT(30), <1>4, <1>5, <1>6

(* Requests that write the row of an import in review. *)
LEMMA VerifyHolds ==
    ASSUME LaneInv, HolderInv, NEW p \in Calls, NEW i \in Imports, imports[i] # NoImport,
           VerifySource(p, i)
    PROVE  Keeps
  <1>1. p \in Callers /\ LaneTyped /\ UNCHANGED <<queue, work, cands>>
    BY DEF Callers, LaneInv, TableInv, VerifySource
  <1>2. PICK v \in {"verified", "rejected"} : Write(i, [imports[i] EXCEPT !.verified = v])
    BY DEF VerifySource
  <1>3. PICK row : row = [imports[i] EXCEPT !.verified = v]
    OBVIOUS
  <1>4. /\ row \in ImportRows /\ row.stamp = imports[i].stamp
        /\ row.status = imports[i].status /\ row.pack = imports[i].pack
    BY <1>1, <1>3, Uploaded DEF ImportRows
  <1>5. /\ imports'[i].status = imports[i].status /\ imports'[i].pack = imports[i].pack
        /\ \A x \in Imports : x # i => imports'[x] = imports[x]
    BY <1>1, <1>2, <1>3, <1>4, RowWritten
  <1>6. imports[i].status \in {"review_required", "ready_to_compile"} /\ PackAgrees(imports[i])
    BY DEF VerifySource, InReview, HolderInv, CompiledHasPack
  <1>7. \A x \in Imports : RowStep(x)
    BY <1>1, <1>5, <1>6 DEF RowStep, HeldStates, PackAgrees, CompiledStays
  <1>8. PICK c : c = At("refresh", i)
    OBVIOUS
  <1>9. Moves(p, c) /\ c.step = "refresh"
    BY <1>8 DEF VerifySource, Goto, Moves, At
  <1> QED BY <1>1, <1>7, <1>9, RequestAside DEF Submitting

LEMMA SetHolds ==
    ASSUME LaneInv, HolderInv, NEW p \in Calls, SetReviewState(p)
    PROVE  Keeps
  <1>1. PICK i : i = call[p].import
    OBVIOUS
  <1>2. /\ p \in Callers /\ LaneTyped /\ i \in Imports /\ imports[i] # NoImport
        /\ call[p].to \in {"ready_to_compile", "review_required"}
        /\ Goto(p, Done) /\ UNCHANGED <<queue, work, cands>>
    BY <1>1 DEF LaneInv, TableInv, CallInv, SetReviewState, Callers, ImportSteps
  <1>3. CASE UNCHANGED imports
    BY <1>2, <1>3, EndsHold
  <1>4. CASE ~UNCHANGED imports
    <2>1. InReview(imports[i].status) /\ SetStatus(i, call[p].to)
      BY <1>1, <1>4 DEF SetReviewState
    <2>2. /\ imports'[i].status = call[p].to /\ imports'[i].pack = imports[i].pack
          /\ \A x \in Imports : x # i => imports'[x] = imports[x]
      BY <1>2, <2>1, StatusSet DEF ImportStatus
    <2>3. PackAgrees(imports[i])
      BY <1>2 DEF HolderInv, CompiledHasPack
    <2>4. \A x \in Imports : RowStep(x)
      BY <1>2, <2>1, <2>2, <2>3
         DEF RowStep, HeldStates, PackAgrees, CompiledStays, InReview
    <2>5. PICK c : c = Done
      OBVIOUS
    <2>6. Moves(p, c) /\ c.step = "done"
      BY <1>2, <2>5 DEF Goto, Moves, Done
    <2> QED BY <1>2, <2>4, <2>6, RequestAside DEF Submitting
  <1> QED BY <1>3, <1>4

LEMMA ReviewersHold ==
    ASSUME LaneInv, HolderInv, NEW p \in Calls, SaveReview(p) \/ SaveManual(p)
    PROVE  Keeps
  <1>1. PICK i : i = call[p].import
    BY SMTT(30)
  <1>2. /\ p \in Callers /\ LaneTyped /\ i \in Imports /\ imports[i] # NoImport
        /\ UNCHANGED <<queue, work>>
    BY <1>1 DEF LaneInv, TableInv, CallInv, SaveReview, SaveManual, Callers, ImportSteps
  <1>3. CASE Goto(p, Done) /\ UNCHANGED <<imports, cands>>
    BY <1>2, <1>3, EndsHold
  <1>4. CASE ~(Goto(p, Done) /\ UNCHANGED <<imports, cands>>)
    <2>1. /\ imports[i].status # "compiled" /\ Goto(p, At("refresh", i))
          /\ \E cs : cands' = [cands EXCEPT ![i] = cs]
          /\ \/ UNCHANGED imports
             \/ InReview(imports[i].status) /\ Write(i, imports[i])
      <3>1. CASE SaveReview(p)
        BY <1>1, <1>4, <3>1 DEF SaveReview, Mutable
      <3>2. CASE SaveManual(p)
        BY <1>1, <1>4, <3>2 DEF SaveManual, InReview
      <3> QED BY SMTT(30), <3>1, <3>2
    <2>2. \A x \in Imports : x # i => cands'[x] = cands[x]
      BY <1>2, <2>1 DEF LaneTyped
    <2>3. /\ imports'[i].status = imports[i].status /\ imports'[i].pack = imports[i].pack
          /\ \A x \in Imports : x # i => imports'[x] = imports[x]
      BY <1>2, <2>1, Uploaded, RowWritten
    <2>4. PackAgrees(imports[i])
      BY <1>2 DEF HolderInv, CompiledHasPack
    <2>5. \A x \in Imports : RowStep(x)
      BY <1>2, <2>1, <2>2, <2>3, <2>4
         DEF RowStep, HeldStates, PackAgrees, CompiledStays, InReview
    <2>6. PICK c : c = At("refresh", i)
      OBVIOUS
    <2>7. Moves(p, c) /\ c.step = "refresh"
      BY <2>1, <2>6 DEF Goto, Moves, At
    <2> QED BY <1>2, <2>5, <2>7, RequestAside DEF Submitting
  <1> QED BY <1>3, <1>4

LEMMA CompileSaveHolds ==
    ASSUME LaneInv, HolderInv, NEW p \in Calls, CompileSave(p)
    PROVE  Keeps
  <1>1. PICK i : i = call[p].import
    OBVIOUS
  <1>2. /\ p \in Callers /\ LaneTyped /\ call[p].step = "bundle"
        /\ i \in Imports /\ imports[i] # NoImport /\ call[p].pack \in Packs
        /\ Goto(p, Done) /\ UNCHANGED <<cands, queue, work>>
    BY <1>1 DEF Callers, LaneInv, TableInv, CallInv, CompileSave, ImportSteps
  <1>3. CASE UNCHANGED imports
    BY <1>2, <1>3, EndsHold
  <1>4. CASE ~UNCHANGED imports
    <2>1. PICK source : source = <<"import", i>>
      OBVIOUS
    <2>2. PICK row : row = [imports[i] EXCEPT !.status = "compiled",
                                              !.pack = call[p].pack, !.source = source]
      OBVIOUS
    <2>3. imports[i].status = "ready_to_compile" /\ Write(i, row)
      BY <1>1, <1>4, <2>1, <2>2 DEF CompileSave
    <2>4. /\ row \in ImportRows /\ row.stamp = imports[i].stamp
          /\ row.status = "compiled" /\ row.pack = call[p].pack
      <3>1. source \in ImportSources
        BY <1>2, <2>1 DEF ImportSources
      <3> QED BY <1>2, <2>2, <3>1, Uploaded DEF ImportRows, ImportStatus
    <2>5. /\ imports'[i].status = "compiled" /\ imports'[i].pack = call[p].pack
          /\ \A x \in Imports : x # i => imports'[x] = imports[x]
      BY <1>2, <2>3, <2>4, RowWritten
    <2>6. \A x \in Imports : RowStep(x)
      BY <1>2, <2>3, <2>5, PolicyAssumption
         DEF RowStep, HeldStates, PackAgrees, CompiledStays
    <2>7. PICK c : c = Done
      OBVIOUS
    <2>8. Moves(p, c) /\ c.step = "done"
      BY <1>2, <2>7 DEF Goto, Moves, Done
    <2> QED BY <1>2, <2>6, <2>8, RequestAside DEF Submitting
  <1> QED BY <1>3, <1>4

LEMMA CollectionSaveHolds ==
    ASSUME LaneInv, HolderInv, NEW p \in Calls, CollectionSave(p)
    PROVE  Keeps
  <1>1. PICK c : c = call[p]
    OBVIOUS
  <1>2. /\ p \in Callers /\ LaneTyped /\ GatherInv(c) /\ c.coll \in Packs
        /\ Goto(p, Done) /\ UNCHANGED <<cands, queue, work>>
    BY <1>1, GatherHolds, PolicyAssumption
       DEF CollectionSave, LaneInv, TableInv, Callers, GatherInv
  <1>3. CASE UNCHANGED imports
    BY <1>2, <1>3, EndsHold
  <1>4. CASE ~UNCHANGED imports
    <2>1. /\ SnapshotHolds(c)
          /\ imports' = [i \in Imports |->
                 IF i \in DOMAIN c.rows THEN Collected(c, i) ELSE imports[i]]
      BY <1>1, <1>4 DEF CollectionSave, Unchanged
    <2>2. ASSUME NEW i \in Imports PROVE RowStep(i)
      <3>1. CASE i \notin DOMAIN c.rows
        BY <1>2, <2>1, <3>1 DEF RowStep
      <3>2. CASE i \in DOMAIN c.rows
        <4>1. /\ imports'[i].status = "compiled"
              /\ imports'[i].verified = imports[i].verified
              /\ imports'[i].pack = IF imports[i].pack = NoPack THEN c.coll
                                                               ELSE imports[i].pack
          BY <1>2, <2>1, <3>2, CollectedRow
        <4>2. /\ imports[i] # NoImport
              /\ imports[i].status \in {"ready_to_compile", "compiled"}
          BY <1>2, <2>1, <3>2 DEF GatherInv, RowKnown, SnapshotHolds, Compilable
        <4>3. PackAgrees(imports[i])
          BY <4>2 DEF HolderInv, CompiledHasPack
        <4> QED BY <1>2, <4>1, <4>2, <4>3, PolicyAssumption
                DEF RowStep, HeldStates, PackAgrees, CompiledStays
      <3> QED BY <3>1, <3>2
    <2>3. PICK d : d = Done
      OBVIOUS
    <2>4. Moves(p, d) /\ d.step = "done"
      BY <1>2, <2>3 DEF Goto, Moves, Done
    <2> QED BY <1>2, <2>2, <2>4, RequestAside DEF Submitting
  <1> QED BY <1>3, <1>4

(* Who takes hold of an import nobody holds. *)
LEMMA TakesHold ==
    ASSUME LaneInv, HolderInv, UNCHANGED <<cands, queue, work>>,
           NEW i \in Imports, \A x \in Imports : x # i => imports'[x] = imports[x],
           imports[i] = NoImport \/ imports[i].status \notin HeldStates \cup {"compiled"},
           NEW p \in Callers, call[p].step = "begin" \/ call[p].step = "activate",
           NEW step \in {"store", "enqueue"}, Goto(p, At(step, i)),
           imports'[i].status = IF step = "store" THEN "uploading" ELSE "queued",
           PackAgrees(imports'[i])
    PROVE  Keeps
  <1>1. PICK c : c = At(step, i)
    OBVIOUS
  <1>2. Moves(p, c) /\ c.step = step /\ c.import = i
    BY <1>1 DEF Goto, Moves, At
  <1>3. /\ queue'[i] = 0
        /\ \A r \in Callers : ~Submits(r, i)
        /\ \A w \in ImportWorkers : ~Works(w, i)
    BY Unheld
  <1> QED BY <1>2, <1>3, SubmitterMoves DEF Submitting

LEMMA CreateHolds ==
    ASSUME LaneInv, HolderInv, NEW i \in Imports, CreateImport(i)
    PROVE  Keeps
  <1>1. i \in Callers /\ call[i].step = "begin" /\ imports[i] = NoImport
    BY DEF CreateImport, Begin, LaneInv, TableInv, NotUploaded, Callers
  <1>2. /\ imports'[i] = NewImport /\ \A x \in Imports : x # i => imports'[x] = imports[x]
    BY DEF CreateImport, LaneInv, TableInv, LaneTyped
  <1>3. imports'[i].status = "uploading" /\ PackAgrees(imports'[i])
    BY <1>2 DEF NewImport, PackAgrees
  <1> QED BY <1>1, <1>2, <1>3, TakesHold DEF CreateImport

LEMMA RetryHolds ==
    ASSUME LaneInv, HolderInv, NEW p \in Calls, NEW i \in Imports, imports[i] # NoImport,
           Retry(p, i)
    PROVE  Keeps
  <1>1. /\ p \in Callers /\ LaneTyped /\ call[p].step = "begin"
        /\ imports[i].status = "failed_retryable" /\ SetStatus(i, "queued")
        /\ Goto(p, At("enqueue", i)) /\ UNCHANGED <<cands, queue, work>>
    BY DEF Retry, Transition, Begin, Callers, LaneInv, TableInv
  <1>2. /\ imports'[i].status = "queued" /\ imports'[i].pack = imports[i].pack
        /\ \A x \in Imports : x # i => imports'[x] = imports[x]
    BY <1>1, StatusSet DEF ImportStatus
  <1>3. PackAgrees(imports'[i])
    BY <1>1, <1>2 DEF PackAgrees, HolderInv, CompiledHasPack
  <1> QED BY <1>1, <1>2, <1>3, TakesHold DEF HeldStates

LEMMA ActivateHolds ==
    ASSUME LaneInv, HolderInv, NEW p \in Calls, ActivateOcr(p)
    PROVE  Keeps
  <1>1. PICK i : i = call[p].import
    OBVIOUS
  <1>2. /\ p \in Callers /\ LaneTyped /\ call[p].step = "activate"
        /\ i \in Imports /\ imports[i] # NoImport /\ UNCHANGED <<cands, queue, work>>
    BY <1>1 DEF LaneInv, TableInv, CallInv, ActivateOcr, Callers, ImportSteps
  <1>3. CASE Goto(p, Done) /\ UNCHANGED imports
    BY <1>2, <1>3, EndsHold
  <1>4. CASE AwaitsOcr(imports[i])
    <2>1. PICK row : row = [imports[i] EXCEPT !.ocr = TRUE, !.status = "queued",
                                              !.verified = "pending"]
      OBVIOUS
    <2>2. /\ row \in ImportRows /\ row.stamp = imports[i].stamp
          /\ row.status = "queued" /\ row.pack = imports[i].pack
      BY <1>2, <2>1, Uploaded DEF ImportRows, ImportStatus
    <2>3. Write(i, row) /\ Goto(p, At("enqueue", i))
      BY <1>1, <1>4, <2>1 DEF ActivateOcr
    <2>4. /\ imports'[i].status = "queued" /\ imports'[i].pack = imports[i].pack
          /\ \A x \in Imports : x # i => imports'[x] = imports[x]
      BY <1>2, <2>2, <2>3, RowWritten
    <2>5. imports[i].status = "needs_ocr"
      BY <1>4 DEF AwaitsOcr
    <2>6. PackAgrees(imports'[i])
      BY <1>2, <2>4, <2>5 DEF PackAgrees, HolderInv, CompiledHasPack
    <2> QED BY <1>2, <2>3, <2>4, <2>5, <2>6, TakesHold DEF HeldStates
  <1> QED BY <1>1, <1>3, <1>4 DEF ActivateOcr

(* What follows when a submitter stores, queues or gives up. *)
LEMMA SubmittersHold ==
    ASSUME LaneInv, HolderInv, "lost" \notin PolicyFaults, NEW p \in Callers,
           \/ p \in Imports /\ (SourceStored(p) \/ SourceNotStored(p))
           \/ SubmitStep(p)
    PROVE  Keeps
  <1>1. PICK i : i = call[p].import
    OBVIOUS
  <1>2. /\ LaneTyped /\ i \in Imports /\ imports[i] # NoImport
        /\ call[p].step \in Submitting /\ UNCHANGED <<cands, work>>
        /\ p \in Imports /\ call[p].step = "store" => i = p
    BY <1>1 DEF LaneInv, TableInv, CallInv, SourceStored, SourceNotStored, SubmitStep,
       JobQueued, JobRefused, MarkRefused, ImportSteps, Submitting
  <1>3. /\ queue[i] = 0
        /\ \A r \in Callers : Submits(r, i) => r = p
        /\ \A w \in ImportWorkers : ~Works(w, i)
        /\ imports[i].status = IF call[p].step = "store" THEN "uploading" ELSE "queued"
    BY <1>1, <1>2 DEF HolderInv, OneHolder, HeldStatus, Submits, Submitting
  <1>4. PackAgrees(imports[i]) /\ imports[i].status # "compiled"
    BY <1>2, <1>3 DEF HolderInv, CompiledHasPack
  <1>5. ASSUME NEW s \in ImportStatus \ {"compiled"}, SetStatus(i, s)
        PROVE  /\ imports'[i].status = s /\ PackAgrees(imports'[i])
               /\ \A x \in Imports : x # i => imports'[x] = imports[x]
    BY <1>2, <1>4, <1>5, StatusSet DEF PackAgrees
  <1>6. CASE p \in Imports /\ SourceStored(p)
    <2>1. PICK c : c = At("enqueue", i)
      OBVIOUS
    <2>2. Moves(p, c) /\ c.step = "enqueue" /\ c.import = i
      BY <1>2, <1>6, <2>1 DEF SourceStored, Goto, Moves, At
    <2>3. SetStatus(i, "queued") /\ UNCHANGED queue
      BY <1>2, <1>6 DEF SourceStored, Transition
    <2>4. /\ imports'[i].status = "queued" /\ PackAgrees(imports'[i])
          /\ \A x \in Imports : x # i => imports'[x] = imports[x]
      BY <1>5, <2>3 DEF ImportStatus
    <2> QED BY <1>1, <1>2, <1>3, <1>4, <2>2, <2>3, <2>4, SubmitterMoves
  <1>7. CASE (p \in Imports /\ SourceNotStored(p)) \/ MarkRefused(p)
    <2>1. PICK c : c = Done
      OBVIOUS
    <2>2. Moves(p, c) /\ c.step \notin Submitting
      BY <1>7, <2>1 DEF SourceNotStored, MarkRefused, Goto, Moves, Done, Submitting
    <2>3. SetStatus(i, "failed_retryable") /\ UNCHANGED queue
      BY <1>1, <1>2, <1>7 DEF SourceNotStored, MarkRefused, MarkFailure
    <2>4. /\ PackAgrees(imports'[i])
          /\ \A x \in Imports : x # i => imports'[x] = imports[x]
      BY <1>5, <2>3 DEF ImportStatus
    <2> QED BY <1>1, <1>2, <1>3, <1>4, <2>2, <2>3, <2>4, SubmitterMoves
  <1>8. CASE JobQueued(p)
    <2>1. PICK c : c = Done
      OBVIOUS
    <2>2. Moves(p, c) /\ c.step \notin Submitting
      BY <1>8, <2>1 DEF JobQueued, Goto, Moves, Done, Submitting
    <2>3. queue' = [queue EXCEPT ![i] = queue[i] + 1] /\ UNCHANGED imports
          /\ call[p].step = "enqueue"
      BY <1>1, <1>8 DEF JobQueued
    <2>4. queue'[i] = 1 /\ \A x \in Imports : x # i => queue'[x] = queue[x]
      BY <1>2, <1>3, <2>3 DEF LaneTyped
    <2> QED BY <1>1, <1>2, <1>3, <1>4, <2>2, <2>3, <2>4, SubmitterMoves
  <1>9. CASE JobRefused(p)
    <2>1. PICK c : c = At("mark", i)
      OBVIOUS
    <2>2. Moves(p, c) /\ c.step = "mark" /\ c.import = i
      BY <1>1, <1>9, <2>1 DEF JobRefused, Goto, Moves, At
    <2>3. queue' = [queue EXCEPT ![i] = queue[i] + 0] /\ UNCHANGED imports
          /\ call[p].step = "enqueue"
      BY <1>1, <1>9 DEF JobRefused
    <2>4. queue'[i] = 0 /\ \A x \in Imports : x # i => queue'[x] = queue[x]
      BY <1>2, <1>3, <2>3 DEF LaneTyped
    <2> QED BY <1>1, <1>2, <1>3, <1>4, <2>2, <2>3, <2>4, SubmitterMoves
  <1> QED BY <1>6, <1>7, <1>8, <1>9 DEF SubmitStep

(* A worker that takes a job is the holder from then on. *)
LEMMA TakeHolds ==
    ASSUME LaneInv, HolderInv, NEW w \in ImportWorkers, NEW i \in Imports, TakeJob(w, i)
    PROVE  Keeps
  <1>1. /\ LaneTyped /\ work[w] = NoWork /\ queue[i] > 0 /\ imports[i] # NoImport
        /\ queue' = [queue EXCEPT ![i] = queue[i] - 1]
        /\ UNCHANGED <<imports, cands, call>>
    BY DEF TakeJob, LaneInv, TableInv, LaneTyped
  <1>2. /\ queue[i] = 1 /\ imports[i].status = "queued"
        /\ \A r \in Callers : ~Submits(r, i)
        /\ \A v \in ImportWorkers : ~Works(v, i)
    <2>1. OneHolder(i) /\ HeldStatus(i) /\ queue[i] \in Nat
      BY <1>1 DEF HolderInv, LaneTyped
    <2> QED BY <1>1, <2>1 DEF OneHolder, HeldStatus
  <1>3. queue'[i] = 0 /\ \A x \in Imports : x # i => queue'[x] = queue[x]
    BY <1>1, <1>2 DEF LaneTyped
  <1>4. PICK j : j = Job(i, "claim")
    OBVIOUS
  <1>5. WorkOn(w, j) /\ j.step = "claim" /\ j.import = i /\ j # NoWork
    BY <1>4, JobsAre, PolicyAssumption DEF TakeJob
  <1>6. PackAgrees(imports'[i])
    BY <1>1 DEF HolderInv, CompiledHasPack
  <1> QED BY <1>1, <1>2, <1>3, <1>5, <1>6, WorkerMoves

(* What a worker that holds import i may do. *)
LEMMA HeldByWorker ==
    ASSUME LaneInv, HolderInv, NEW w \in ImportWorkers, work[w] # NoWork,
           NEW i, i = work[w].import
    PROVE  /\ i \in Imports /\ imports[i] # NoImport /\ Works(w, i)
           /\ queue[i] = 0
           /\ \A r \in Callers : ~Submits(r, i)
           /\ \A v \in ImportWorkers : Works(v, i) => v = w
           /\ work[w].step = "claim" => imports[i].status = "queued"
           /\ work[w].step = "parse" => imports[i].status = "parsing"
           /\ work[w].step = "extract" => imports[i].status = "extracting"
           /\ work[w].step = "mark" => imports[i].status \in {"queued", "parsing", "extracting"}
           /\ work[w].step \in {"claim", "parse", "extract", "mark"}
           /\ PackAgrees(imports[i]) /\ imports[i].status # "compiled"
  <1>1. /\ i \in Imports /\ imports[i] # NoImport /\ Works(w, i)
        /\ work[w].step \in {"claim", "parse", "extract", "mark"}
    BY JobHeld DEF Works, Jobs
  <1>2. OneHolder(i) /\ HeldStatus(i) /\ PackAgrees(imports[i])
    BY <1>1 DEF HolderInv, CompiledHasPack
  <1>3. /\ queue[i] = 0
        /\ \A r \in Callers : ~Submits(r, i)
        /\ \A v \in ImportWorkers : Works(v, i) => v = w
    BY <1>1, <1>2 DEF OneHolder
  <1>4. /\ work[w].step = "claim" => imports[i].status = "queued"
        /\ work[w].step = "parse" => imports[i].status = "parsing"
        /\ work[w].step = "extract" => imports[i].status = "extracting"
        /\ work[w].step = "mark" => imports[i].status \in {"queued", "parsing", "extracting"}
    BY <1>1, <1>2 DEF HeldStatus
  <1> QED BY <1>1, <1>2, <1>3, <1>4

(* ... let go of it ... *)
LEMMA Releases ==
    ASSUME LaneInv, HolderInv, NEW w \in ImportWorkers, work[w] # NoWork,
           NEW i, i = work[w].import, UNCHANGED <<queue, call>>,
           \A x \in Imports : x # i => imports'[x] = imports[x] /\ cands'[x] = cands[x],
           WorkOn(w, NoWork), PackAgrees(imports'[i])
    PROVE  Keeps
  <1>1. PICK j : j = NoWork
    OBVIOUS
  <1>2. WorkOn(w, j)
    BY <1>1
  <1> QED BY <1>1, <1>2, HeldByWorker, WorkerMoves

(* ... or go on with it, and its status says how far it is.                 *)
LEMMA WorksOn ==
    ASSUME LaneInv, HolderInv, NEW w \in ImportWorkers, work[w] # NoWork,
           NEW i, i = work[w].import, UNCHANGED <<queue, call, cands>>,
           \A x \in Imports : x # i => imports'[x] = imports[x],
           NEW j \in Jobs, WorkOn(w, j), j.import = i,
           \/ j.step = "parse" /\ imports'[i].status = "parsing"
           \/ j.step = "extract" /\ imports'[i].status = "extracting"
           \/ j.step = "mark" /\ imports'[i].status \in {"queued", "parsing", "extracting"},
           imports'[i].pack = imports[i].pack
    PROVE  Keeps
  <1>1. PackAgrees(imports'[i])
    BY HeldByWorker DEF PackAgrees
  <1>2. j # NoWork
    BY PolicyAssumption
  <1> QED BY <1>1, <1>2, HeldByWorker, WorkerMoves

LEMMA WorkersHold ==
    ASSUME LaneInv, HolderInv, NEW w \in ImportWorkers,
           \/ SetupFails(w) \/ BeginParsing(w) \/ ParseFails(w) \/ MarkParsed(w)
           \/ ExtractFails(w) \/ ReplaceCandidates(w) \/ MarkFailed(w)
           \/ ImportWorkerStops(w)
    PROVE  Keeps
  <1>1. PICK i : i = work[w].import
    BY SMTT(30)
  <1>2. work[w] # NoWork /\ LaneTyped /\ UNCHANGED <<queue, call>>
    BY DEF SetupFails, BeginParsing, ParseFails, MarkParsed, ExtractFails,
       ReplaceCandidates, MarkFailed, ImportWorkerStops, Working, LaneInv, TableInv
  <1>3. /\ i \in Imports /\ imports[i] # NoImport
        /\ work[w].step = "claim" => imports[i].status = "queued"
        /\ work[w].step = "parse" => imports[i].status = "parsing"
        /\ work[w].step = "extract" => imports[i].status = "extracting"
        /\ imports[i].status \in {"queued", "parsing", "extracting"}
        /\ PackAgrees(imports[i])
    BY <1>1, <1>2, HeldByWorker
  <1>4. ASSUME WorkOn(w, NoWork), UNCHANGED <<imports, cands>> PROVE Keeps
    BY <1>1, <1>2, <1>3, <1>4, Releases
  <1>5. ASSUME NEW s \in {"needs_ocr", "failed_retryable", "failed_terminal"},
               WorkOn(w, Failing(i, s)), UNCHANGED <<imports, cands>>
        PROVE  Keeps
    BY <1>1, <1>2, <1>3, <1>5, JobsAre, WorksOn
  <1>6. CASE SetupFails(w)
    BY <1>1, <1>5, <1>6 DEF SetupFails
  <1>7. CASE ParseFails(w)
    BY <1>1, <1>5, <1>7 DEF ParseFails
  <1>8. CASE ExtractFails(w)
    BY <1>1, <1>4, <1>5, <1>8 DEF ExtractFails
  <1>9. CASE ImportWorkerStops(w)
    BY <1>4, <1>9 DEF ImportWorkerStops
  <1>10. CASE BeginParsing(w)
    <2>1. work[w].step = "claim" /\ UNCHANGED cands
      BY <1>10 DEF BeginParsing, Working
    <2>2. SetStatus(i, "parsing") /\ WorkOn(w, Job(i, "parse"))
      BY <1>1, <1>3, <1>10, <2>1 DEF BeginParsing, Transition
    <2>3. /\ imports'[i].status = "parsing" /\ imports'[i].pack = imports[i].pack
          /\ \A x \in Imports : x # i => imports'[x] = imports[x]
      BY <1>2, <1>3, <2>2, StatusSet DEF ImportStatus
    <2> QED BY <1>1, <1>2, <1>3, <2>1, <2>2, <2>3, JobsAre, WorksOn
  <1>11. CASE MarkParsed(w)
    <2>1. work[w].step = "parse" /\ UNCHANGED cands
      BY <1>11 DEF MarkParsed, Working
    <2>2. PICK row : row = [imports[i] EXCEPT !.status = "extracting", !.complete = FALSE]
      OBVIOUS
    <2>3. Write(i, row) /\ WorkOn(w, Job(i, "extract"))
      BY <1>1, <1>3, <1>11, <2>1, <2>2 DEF MarkParsed
    <2>4. /\ row \in ImportRows /\ row.stamp = imports[i].stamp
          /\ row.status = "extracting" /\ row.pack = imports[i].pack
      BY <1>2, <1>3, <2>2, Uploaded DEF ImportRows, ImportStatus
    <2>5. /\ imports'[i].status = "extracting" /\ imports'[i].pack = imports[i].pack
          /\ \A x \in Imports : x # i => imports'[x] = imports[x]
      BY <1>2, <1>3, <2>3, <2>4, RowWritten
    <2> QED BY <1>1, <1>2, <1>3, <2>1, <2>3, <2>5, JobsAre, WorksOn
  <1>12. CASE MarkFailed(w)
    <2>1. UNCHANGED cands /\ WorkOn(w, NoWork) /\ SetStatus(i, work[w].to)
      BY <1>1, <1>12 DEF MarkFailed, MarkFailure
    <2>2. work[w].to \in {"needs_ocr", "failed_retryable", "failed_terminal"}
      BY <1>2, JobHeld DEF Jobs
    <2>3. /\ imports'[i].status = work[w].to /\ imports'[i].pack = imports[i].pack
          /\ \A x \in Imports : x # i => imports'[x] = imports[x]
      BY <1>2, <1>3, <2>1, <2>2, StatusSet DEF ImportStatus
    <2>4. PackAgrees(imports'[i])
      BY <1>3, <2>2, <2>3 DEF PackAgrees
    <2> QED BY <1>1, <1>2, <2>1, <2>3, <2>4, Releases
  <1>13. CASE ReplaceCandidates(w)
    <2>1. CASE WorkOn(w, Failing(work[w].import, "failed_retryable")) /\ UNCHANGED <<imports, cands>>
      BY <1>1, <1>5, <2>1
    <2>2. CASE ~(WorkOn(w, Failing(work[w].import, "failed_retryable")) /\ UNCHANGED <<imports, cands>>)
      <3>1. PICK found \in SUBSET Extracted, mapped \in BOOLEAN, all \in BOOLEAN :
              /\ cands' = [cands EXCEPT ![work[w].import] =
                     [id \in found \X {imports[work[w].import].stamp} |->
                        [status |-> "pending", ready |-> mapped, stamp |-> 1]]]
              /\ Write(work[w].import, [imports[work[w].import] EXCEPT
                     !.complete = all,
                     !.status = IF all THEN "review_required" ELSE "failed_retryable"])
              /\ WorkOn(w, NoWork)
        BY ZenonT(30), <1>13, <2>2 DEF ReplaceCandidates
      <3>2. PICK s \in {"review_required", "failed_retryable"} :
                s = IF all THEN "review_required" ELSE "failed_retryable"
        OBVIOUS
      <3>3. PICK row : row = [imports[i] EXCEPT !.complete = all, !.status = s]
        OBVIOUS
      <3>4. Write(i, row)
        BY <1>1, <3>1, <3>2, <3>3
      <3>5. /\ row \in ImportRows /\ row.stamp = imports[i].stamp
            /\ row.status = s /\ row.pack = imports[i].pack
        BY <1>2, <1>3, <3>3, Uploaded DEF ImportRows, ImportStatus
      <3>6. /\ imports'[i].status = s /\ imports'[i].pack = imports[i].pack
            /\ \A x \in Imports : x # i => imports'[x] = imports[x]
        BY <1>2, <1>3, <3>4, <3>5, RowWritten
      <3>7. \A x \in Imports : x # i => cands'[x] = cands[x]
        BY <1>1, <1>2, <3>1 DEF LaneTyped
      <3>8. PackAgrees(imports'[i])
        BY <1>3, <3>6 DEF PackAgrees
      <3> QED BY SMTT(30), <1>1, <1>2, <3>1, <3>6, <3>7, <3>8, Releases
    <2> QED BY <2>1, <2>2
  <1> QED BY <1>6, <1>7, <1>8, <1>9, <1>10, <1>11, <1>12, <1>13

----------------------------------------------------------------------------
(* One holder is inductive *)

LEMMA HolderInit == Init => HolderInv
  <1> SUFFICES ASSUME Init PROVE HolderInv
    OBVIOUS
  <1>1. PICK there \in SUBSET Imports : Prepared(there)
    BY DEF Init
  <1>2. /\ \A i \in Imports : queue[i] = 0
        /\ \A w \in ImportWorkers : work[w] = NoWork
    BY DEF Init
  <1>3. \A p \in Callers : call[p].step \in {"begin", "done"}
    BY <1>1 DEF Prepared, Begin, Done
  <1>4. CompiledHasPack
    BY <1>1 DEF Prepared, CompiledHasPack, PackAgrees, ReviewedImport, NewImport
  <1>5. \A i \in Imports : OneHolder(i) /\ HeldStatus(i)
    BY <1>2, <1>3 DEF OneHolder, HeldStatus, Submits, Works
  <1> QED BY <1>4, <1>5 DEF HolderInv

LEMMA HolderStep ==
    ASSUME LaneInv, HolderInv, "lost" \notin PolicyFaults, [Next]_vars
    PROVE  Keeps
  <1>1. ASSUME NEW i \in Imports, UploadStep(i) PROVE Keeps
    BY <1>1, CreateHolds, SubmittersHold, EndsHold
       DEF UploadStep, BatchJobRefused, Callers
  <1>2. ASSUME NEW p \in Callers, SubmitStep(p) \/ CallStops(p) PROVE Keeps
    BY <1>2, SubmittersHold, EndsHold DEF CallStops
  <1>3. ASSUME NEW w \in ImportWorkers, WorkerStep(w) \/ ImportWorkerStops(w) PROVE Keeps
    BY <1>3, TakeHolds, WorkersHold DEF WorkerStep
  <1>4. ASSUME NEW p \in Calls, CallStep(p) PROVE Keeps
    <2>1. ASSUME NEW i \in Imports, Request(p, i) PROVE Keeps
      <3>1. imports[i] # NoImport
        BY <2>1 DEF Request
      <3>2. CASE Retry(p, i) \/ VerifySource(p, i)
        BY <3>1, <3>2, RetryHolds, VerifyHolds
      <3>3. CASE AttachOcr(p, i) \/ Review(p, i) \/ AddManual(p, i)
        BY <3>3, ReadersHold
      <3>4. CASE \E g \in Collections : AddMember(p, g, i) \/ RemoveMember(p, g, i)
        BY <3>4, ReadersHold
      <3>5. CASE \E k \in Packs : Compile(p, i, k)
        BY <3>5, CompileReadsHold
      <3> QED BY <2>1, <3>2, <3>3, <3>4, <3>5 DEF Request
    <2>2. CASE \/ ActivateOcr(p) \/ ReadCandidate(p) \/ SaveReview(p) \/ SaveManual(p)
               \/ RefreshRead(p) \/ RefreshList(p) \/ SetReviewState(p)
      BY <2>2, ActivateHolds, RefreshHolds, ReviewersHold, SetHolds
    <2>3. CASE CompileList(p) \/ \E g \in Collections : Gather(p, g)
      BY <2>3, CompileReadsHold
    <2>4. CASE GatherImport(p) \/ GatherCandidates(p)
      BY <2>4, GatherHoldsOn
    <2>5. CASE CompileSave(p) \/ CollectionSave(p)
      BY <2>5, CompileSaveHolds, CollectionSaveHolds
    <2> QED BY <1>4, <2>1, <2>2, <2>3, <2>4, <2>5 DEF CallStep
  <1>5. CASE UNCHANGED importVars
    <2>1. /\ UNCHANGED <<imports, cands, queue, work, call>>
      BY <1>5 DEF importVars
    <2>2. \A i \in Imports : Aside(i) /\ CompiledStays(i)
      BY <2>1 DEF Aside, CompiledStays, Submits, Works
    <2>3. CompiledHasPack'
      BY <2>1 DEF HolderInv, CompiledHasPack, PackAgrees
    <2> QED BY <2>2, <2>3, AsideKeeps DEF HolderInv, Keeps
  <1> QED BY <1>1, <1>2, <1>3, <1>4, <1>5 DEF Next, PackStep, vars

(* As long as the queue does not lose its answer to a request that did      *)
(* queue a job, one worker at a time has a job of an import, however often  *)
(* its upload, its retries and its OCR texts are submitted: each submits    *)
(* from a status that only the previous holder could have written.          *)
THEOREM OneWorkerExtracts ==
    ASSUME "lost" \notin PolicyFaults
    PROVE  Spec => []OneExtraction
  <1>1. LaneInv /\ HolderInv => OneExtraction
    <2> SUFFICES ASSUME LaneInv, HolderInv, NEW v \in ImportWorkers, NEW w \in ImportWorkers,
                        work[v] # NoWork, work[w] # NoWork,
                        work[v].import = work[w].import
                 PROVE  v = w
      BY DEF OneExtraction
    <2>1. work[v].import \in Imports
      BY JobHeld
    <2> QED BY <2>1 DEF HolderInv, OneHolder, Works
  <1>2. LaneInv /\ HolderInv /\ [Next]_vars => LaneInv' /\ HolderInv'
    BY LaneStep, HolderStep DEF Keeps
  <1> QED BY <1>1, <1>2, LaneInit, HolderInit, PTL DEF Spec

(* What a pack was compiled from stays as it is: every write that could     *)
(* change it either looks at the status in the statement that writes, or is *)
(* that of a holder, and a compiled import has none.                        *)
THEOREM CompiledNeverChanges ==
    ASSUME "lost" \notin PolicyFaults
    PROVE  Spec => CompiledImmutable
  <1>1. LaneInv /\ HolderInv /\ [Next]_vars => LaneInv' /\ HolderInv'
    BY LaneStep, HolderStep DEF Keeps
  <1>2. ASSUME LaneInv, HolderInv, [Next]_vars
        PROVE  [\A i \in Imports :
                 imports[i] # NoImport /\ imports[i].status = "compiled" =>
                   /\ imports'[i].status = "compiled"
                   /\ imports'[i].verified = imports[i].verified
                   /\ imports'[i].pack = imports[i].pack
                   /\ cands'[i] = cands[i]]_vars
    BY <1>2, HolderStep DEF Keeps, CompiledStays
  <1> QED BY <1>1, <1>2, LaneInit, HolderInit, PTL DEF Spec, CompiledImmutable
==============================================================================
