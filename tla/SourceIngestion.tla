---------------------------- MODULE SourceIngestion ----------------------------
(****************************************************************************)
(* Batches of sources: a request creates a batch of items, workers acquire  *)
(* the remote ones, and every item that brings something new becomes a      *)
(* policy import, a revision of its subscription's lineage, that is         *)
(* extracted and then reviewed (governance-persistence,                     *)
(* source_ingestion.rs; governance-worker, source_acquisition.rs and        *)
(* policy_import.rs; governance-api, policy_collections.rs and              *)
(* source_connections.rs; CreatePolicyImport of governance-application).    *)
(*                                                                          *)
(* An actor is a worker or the request that makes a batch; at[a] is the     *)
(* statement it is at.  update_item reads the row and writes it in two      *)
(* statements.  Workers may stop anywhere, requests run to their end.  An   *)
(* import is named by the item it was made of: the index                    *)
(* uq_policy_imports_ingestion_item allows no other.  A lineage is named by *)
(* its first import.  A version stands for the external revision and the    *)
(* content at once.  All batches are for one collection.  Extraction and    *)
(* review are those of PolicyImports, in one step each.                     *)
(****************************************************************************)
EXTENDS SourceConnections, Naturals, Sequences, FiniteSets

CONSTANTS
    Workers,      \* workers of the acquisition and extraction queues
    Batches,      \* requests that make a batch, or upload a revision
    Kind,         \* Kind[b]: "upload", "paste", "url", "selection", "sync" or
                  \* "revise"
    ItemsOf,      \* ItemsOf[b]: its items in order
    FileOf,       \* FileOf[i]: the file of the account, None for other items
    Gathered,     \* the batches that name the collection
    OutcomesOf,   \* OutcomesOf[i]: how extracting the document of i may end;
                  \* "no_provider": before it begins; "unsupported": it
                  \* is not even imported
    MaxVersion,   \* bound: versions of a file
    Faults        \* "stop": a worker stops anywhere; "queue": perform_later
                  \* fails, and there is no job

Items == UNION {{ItemsOf[b][n] : n \in DOMAIN ItemsOf[b]} : b \in Batches}

BatchOf ==
    [i \in Items |-> CHOOSE b \in Batches : \E n \in DOMAIN ItemsOf[b] : ItemsOf[b][n] = i]

Actors == Workers \cup Batches

(* How an extraction ends: with all candidates, with those of some chunks,  *)
(* without a text, or with an error, of which the import may not be told.   *)
Errors == {"failed_retryable", "failed_terminal", "unmarked"}

Outcomes == {"review_required", "partial", "needs_ocr"} \cup Errors

Ended == {"review_required", "unchanged", "blocked", "failed"}

ItemStatuses == {"pending", "acquiring", "queued", "processing"} \cup Ended

ImportStatuses ==
    {"uploading", "queued", "parsing", "review_required", "compiled", "needs_ocr",
     "failed_retryable", "failed_terminal"}

ItemRows == [import : Items \cup {None}, status : ItemStatuses]

ImportRows ==
    [parent : Items \cup {None}, revision : Nat, source : Items,
     status : ImportStatuses, stored : {"none", "partial", "complete"}, version : Nat]

BatchRows ==
    [failed : Nat, status : {"pending", "running", "partial", "failed", "complete"},
     succeeded : Nat, unchanged : Nat]

SubscriptionRows ==
    [last : Items \cup {None}, seen : Nat, status : {"active", "disconnected"}]

(* An item is in one place of one batch, no batch is empty (the handlers    *)
(* refuse one), and only selections and syncs are of files.                 *)
ASSUME IngestionAssumption ==
    /\ None \notin Items \cup Files \cup ItemRows \cup ImportRows \cup SubscriptionRows
    /\ None \notin BatchRows
    /\ ItemsOf \in [Batches -> Seq(Items) \ {<<>>}]
    /\ \A b, c \in Batches : \A m \in DOMAIN ItemsOf[b], n \in DOMAIN ItemsOf[c] :
           ItemsOf[b][m] = ItemsOf[c][n] => b = c /\ m = n
    /\ \A b \in Batches : Kind[b] = "revise" => Len(ItemsOf[b]) = 1
    /\ \A i \in Items :
           /\ FileOf[i] \in Files \cup {None}
           /\ FileOf[i] # None <=> Kind[BatchOf[i]] \in {"selection", "sync"}
    /\ Workers \cap Batches = {}
    /\ MaxVersion \in Nat \ {0}
    /\ \A i \in Items : OutcomesOf[i] \subseteq Outcomes \cup {"no_provider", "unsupported"}
    /\ Faults \subseteq {"stop", "queue"}

VARIABLES
    item,      \* item[i]: [import, status], or None
    batch,     \* batch[b]: [failed, status, succeeded, unchanged], or None
    import,    \* import[i]: [parent, revision, source, status, stored, version],
               \* or None; stored: the candidates of which chunks it has
    members,   \* imports in the collection
    remote,    \* remote[f]: the version the provider has
    acquire,   \* acquire[i]: acquisition jobs waiting
    extract,   \* extract[i]: extraction jobs waiting
    at         \* at[a]: where actor a is

ingestVars == <<item, batch, import, members, remote, acquire, extract, at>>
vars == <<connVars, ingestVars>>

New == [step |-> "new"]
Free == [step |-> "free"]
Doing(step, i) == [item |-> i, step |-> step]
Down == [batch |-> None, step |-> "stopped"]
Goto(a, s) == at' = [at EXCEPT ![a] = s]
At(a, step) == at[a].step = step

IngestInit ==
    /\ item = [i \in Items |-> None]
    /\ batch = [b \in Batches |-> None]
    /\ import = [i \in Items |-> None]
    /\ members = {}
    /\ remote = [f \in Files |-> 1]
    /\ acquire = [i \in Items |-> 0]
    /\ extract = [i \in Items |-> 0]
    /\ at \in [Actors -> {Free, New, Down}]
    /\ \A w \in Workers : at[w] # New
    /\ \A b \in Batches : at[b] # Down

Init == ConnInit /\ IngestInit

-----------------------------------------------------------------------------
(* Items and batches *)

(* can_transition_to *)
Transitions ==
    {<<"pending", "acquiring">>, <<"acquiring", "queued">>,
     <<"acquiring", "unchanged">>, <<"acquiring", "blocked">>,
     <<"acquiring", "failed">>, <<"queued", "processing">>,
     <<"queued", "failed">>, <<"processing", "review_required">>,
     <<"processing", "blocked">>, <<"processing", "failed">>,
     <<"failed", "pending">>}

Having(b, statuses) ==
    Cardinality({n \in DOMAIN ItemsOf[b] : item[ItemsOf[b][n]].status \in statuses})

(* Faulty variant of BatchStatus: a blocked item is not a failure.          *)
BatchStatusForgiving(b) ==
    IF Having(b, Ended) < Len(ItemsOf[b]) THEN "running"
    ELSE IF Having(b, {"failed"}) = Len(ItemsOf[b]) THEN "failed"
    ELSE IF Having(b, {"failed"}) > 0 THEN "partial"
    ELSE "complete"

BatchStatus(b) ==
    IF Having(b, Ended) < Len(ItemsOf[b]) THEN "running"
    ELSE IF Having(b, {"failed", "blocked"}) = Len(ItemsOf[b]) THEN "failed"
    ELSE IF Having(b, {"failed", "blocked"}) > 0 THEN "partial"
    ELSE "complete"

Summary(b) ==
    [failed |-> Having(b, {"failed"}), status |-> BatchStatus(b),
     succeeded |-> Having(b, {"review_required"}),
     unchanged |-> Having(b, {"unchanged"})]

Recomputing(i) == [batch |-> BatchOf[i], step |-> "recompute"]

(* recompute_batch, under the lock of the batch.                            *)
Recompute(a) ==
    /\ At(a, "recompute")
    /\ batch' = [batch EXCEPT ![at[a].batch] = Summary(at[a].batch)]
    /\ Goto(a, Free)
    /\ UNCHANGED <<connVars, item, import, members, remote, acquire, extract>>

(* update_item to a status and with an import; what follows if it succeeds  *)
(* and what if it is refused.                                               *)
Setting(i, to, imp, then, else) ==
    [else |-> else, import |-> imp, item |-> i, step |-> "set", then |-> then, to |-> to]

Failing(i) == Setting(i, "failed", None, Recomputing(i), Recomputing(i))

ReadItem(a) ==
    LET now == item[at[a].item].status IN
    /\ At(a, "set")
    /\ Goto(a, IF now = at[a].to \/ <<now, at[a].to>> \in Transitions
               THEN [at[a] EXCEPT !.step = "write"]
               ELSE at[a].else)
    /\ UNCHANGED <<connVars, item, batch, import, members, remote, acquire, extract>>

WriteItem(a) ==
    /\ At(a, "write")
    /\ item' = [item EXCEPT ![at[a].item] =
           [import |-> IF at[a].import = None THEN @.import ELSE at[a].import,
            status |-> at[a].to]]
    /\ Goto(a, at[a].then)
    /\ UNCHANGED <<connVars, batch, import, members, remote, acquire, extract>>

(* claim_item, under the lock of the item.                                  *)
Claimable(i) == item[i].status \in {"pending", "failed"}

Claim(i) == item' = [item EXCEPT ![i].status = "acquiring"]

-----------------------------------------------------------------------------
(* The requests that make batches *)

Todo(step, rest) == [rest |-> rest, step |-> step]

(* A selection of files: the connection must be active, and every file is   *)
(* subscribed before the batch is created.                                  *)
Select(b) ==
    /\ At(b, "new") /\ Kind[b] = "selection"
    /\ Goto(b, IF Active THEN Todo("subscribe", ItemsOf[b]) ELSE Free)
    /\ UNCHANGED <<connVars, item, batch, import, members, remote, acquire, extract>>

(* upsert_subscription, its reads.                                          *)
ReadSubscription(b) ==
    LET f == FileOf[Head(at[b].rest)] IN
    /\ At(b, "subscribe") /\ at[b].rest # <<>>
    /\ Goto(b, IF ~Active THEN Free
               ELSE IF sub[f] = None THEN Todo("insert", at[b].rest)
               ELSE Todo("subscribe", Tail(at[b].rest)))
    /\ UNCHANGED <<connVars, item, batch, import, members, remote, acquire, extract>>

InsertSubscription(b) ==
    LET f == FileOf[Head(at[b].rest)] IN
    /\ At(b, "insert")
    /\ \/ Subscribe(f) /\ Goto(b, Todo("subscribe", Tail(at[b].rest)))
       \/ sub[f] # None /\ Goto(b, Free) /\ UNCHANGED connVars
    /\ UNCHANGED <<item, batch, import, members, remote, acquire, extract>>

(* sync: of the subscriptions that are active.                              *)
Syncable(b) ==
    \A n \in DOMAIN ItemsOf[b] :
        LET f == FileOf[ItemsOf[b][n]] IN sub[f] # None /\ sub[f].status = "active"

CreateBatch(b) ==
    /\ \/ At(b, "new") /\ Kind[b] \in {"upload", "paste", "url"}
       \/ At(b, "new") /\ Kind[b] = "sync" /\ conn # None /\ Syncable(b)
       \/ At(b, "subscribe") /\ at[b].rest = <<>>
    /\ batch' = [batch EXCEPT ![b] =
           [failed |-> 0, status |-> "pending", succeeded |-> 0, unchanged |-> 0]]
    /\ item' = [i \in Items |-> IF BatchOf[i] = b
                                THEN [import |-> None, status |-> "pending"]
                                ELSE item[i]]
    /\ Goto(b, Todo(IF Kind[b] \in {"upload", "paste"} THEN "next" ELSE "enqueue", ItemsOf[b]))
    /\ UNCHANGED <<connVars, import, members, remote, acquire, extract>>

EnqueueAcquisition(b) ==
    LET i == Head(at[b].rest) IN
    /\ At(b, "enqueue") /\ at[b].rest # <<>>
    /\ acquire' = [acquire EXCEPT ![i] = @ + 1]
    /\ Goto(b, Todo("enqueue", Tail(at[b].rest)))
    /\ UNCHANGED <<connVars, item, batch, import, members, remote, extract>>

(* perform_later answers an error.                                          *)
AcquisitionRefused(b) ==
    LET i == Head(at[b].rest)
        rest == Todo("enqueue", Tail(at[b].rest)) IN
    /\ At(b, "enqueue") /\ at[b].rest # <<>> /\ "queue" \in Faults
    /\ Goto(b, Setting(i, "failed", None, rest, rest))
    /\ UNCHANGED <<connVars, item, batch, import, members, remote, acquire, extract>>

(* The last step of a request.                                              *)
EndBatch(b) ==
    /\ at[b].step \in {"enqueue", "next"} /\ at[b].rest = <<>>
    /\ Goto(b, [batch |-> b, step |-> "recompute"])
    /\ UNCHANGED <<connVars, item, batch, import, members, remote, acquire, extract>>

(* upload_batch and paste_batch handle one file after the other.  What      *)
(* refuses a claim there is a failing database.                             *)
ClaimUpload(b) ==
    LET i == Head(at[b].rest) IN
    /\ At(b, "next") /\ at[b].rest # <<>>
    /\ Claimable(i) /\ Claim(i)
    /\ Goto(b, [item |-> i, parent |-> None, rest |-> Tail(at[b].rest),
                step |-> "create", version |-> 1])
    /\ UNCHANGED <<connVars, batch, import, members, remote, acquire, extract>>

(* A revision is uploaded by its own request, without an item.              *)
Revise(b, p) ==
    /\ At(b, "new") /\ Kind[b] = "revise"
    /\ import[p] # None /\ import[p].status = "compiled"
    /\ Goto(b, [item |-> Head(ItemsOf[b]), parent |-> p, rest |-> <<>>,
                step |-> "create", version |-> MaxVersion + 1])
    /\ UNCHANGED <<connVars, item, batch, import, members, remote, acquire, extract>>

(* After a failure an upload goes on with the next file.                    *)
UploadFails(b, imp) ==
    LET rest == Todo("next", at[b].rest) IN Setting(at[b].item, "failed", imp, rest, rest)

(* The bytes are of no known format.                                        *)
RefuseFormat(b) ==
    /\ At(b, "create") /\ Kind[b] = "upload"
    /\ "unsupported" \in OutcomesOf[at[b].item]
    /\ Goto(b, UploadFails(b, None))
    /\ UNCHANGED <<connVars, item, batch, import, members, remote, acquire, extract>>

EnqueueExtraction(b) ==
    /\ At(b, "job")
    /\ extract' = [extract EXCEPT ![at[b].item] = @ + 1]
    /\ Goto(b, IF Kind[b] = "revise" THEN Free ELSE Todo("next", at[b].rest))
    /\ UNCHANGED <<connVars, item, batch, import, members, remote, acquire>>

ExtractionRefused(b) ==
    LET i == at[b].item IN
    /\ At(b, "job") /\ "queue" \in Faults
    /\ Goto(b, IF Kind[b] = "revise" THEN Doing("mark", i) ELSE UploadFails(b, i))
    /\ UNCHANGED <<connVars, item, batch, import, members, remote, acquire, extract>>

(* upload_policy_import: mark_failure over whatever the status is.          *)
MarkRefused(b) ==
    /\ At(b, "mark")
    /\ import' = [import EXCEPT ![at[b].item].status = "failed_retryable"]
    /\ Goto(b, Free)
    /\ UNCHANGED <<connVars, item, batch, members, remote, acquire, extract>>

-----------------------------------------------------------------------------
(* CreatePolicyImport and what follows, for workers and requests alike *)

(* What an actor does after an error: a worker stops where it is and leaves *)
(* the item as it is, an upload notes it, a revision answers an error.      *)
OnError(a, imp) ==
    IF a \in Workers \/ Kind[a] = "revise" THEN Free ELSE UploadFails(a, imp)

Source(i, p) == IF p = None THEN i ELSE import[p].source
Revision(p) == IF p = None THEN 1 ELSE import[p].revision + 1

(* Faulty variant of RevisionFree: no index on source and revision.         *)
RevisionIgnored(p) == TRUE

RevisionFree(p) ==
    \A j \in Items : import[j] # None =>
        ~(/\ import[j].source = Source(j, p)
          /\ import[j].revision = Revision(p)
          /\ p # None)

(* resolve_import_lineage *)
Supersedes(p, version) ==
    p # None => /\ import[p].status = "compiled"
                /\ import[p].version # version

CreateImport(a) ==
    LET i == at[a].item
        p == at[a].parent
        v == at[a].version IN
    /\ At(a, "create")
    /\ \/ /\ Supersedes(p, v) /\ RevisionFree(p)
          /\ import' = [import EXCEPT ![i] =
                 [parent |-> p, revision |-> Revision(p), source |-> Source(i, p),
                  status |-> "uploading", stored |-> "none", version |-> v]]
          /\ Goto(a, [at[a] EXCEPT !.step = "store"])
       \/ /\ ~(Supersedes(p, v) /\ RevisionFree(p))
          /\ Goto(a, OnError(a, None))
          /\ UNCHANGED import
    /\ UNCHANGED <<connVars, item, batch, members, remote, acquire, extract>>

Stored(a) ==
    LET i == at[a].item IN
    /\ At(a, "store")
    /\ import' = [import EXCEPT ![i].status = "queued"]
    /\ Goto(a, [at[a] EXCEPT !.step =
           IF a \in Batches THEN (IF Kind[a] = "revise" THEN "job" ELSE "member")
           ELSE IF FileOf[i] # None THEN "record"
           ELSE IF BatchOf[i] \in Gathered THEN "member" ELSE "queue"])
    /\ UNCHANGED <<connVars, item, batch, members, remote, acquire, extract>>

StoreFails(a) ==
    /\ At(a, "store") /\ "stop" \in Faults
    /\ import' = [import EXCEPT ![at[a].item].status = "failed_retryable"]
    /\ Goto(a, OnError(a, None))
    /\ UNCHANGED <<connVars, item, batch, members, remote, acquire, extract>>

Record(w) ==
    LET i == at[w].item IN
    /\ At(w, "record")
    /\ RecordImport(FileOf[i], i, at[w].version)
    /\ Goto(w, [at[w] EXCEPT !.step = IF BatchOf[i] \in Gathered THEN "member" ELSE "queue"])
    /\ UNCHANGED <<item, batch, import, members, remote, acquire, extract>>

(* add_import: one revision of a source in a collection.                    *)
AddMember(a) ==
    LET i == at[a].item IN
    /\ At(a, "member")
    /\ \/ /\ \A j \in members : import[j].source # import[i].source
          /\ members' = members \cup {i}
          /\ Goto(a, [at[a] EXCEPT !.step = "queue"])
       \/ /\ \E j \in members : import[j].source = import[i].source
          /\ Goto(a, OnError(a, i))
          /\ UNCHANGED members
    /\ UNCHANGED <<connVars, item, batch, import, remote, acquire, extract>>

(* The worker extracts what it acquired itself; an upload queues a job,     *)
(* whether or not the item could be updated.                                *)
Queue(a) ==
    LET i == at[a].item
        job == [at[a] EXCEPT !.step = "job"]
        own == [item |-> i, onError |-> Free, step |-> "extract"] IN
    /\ At(a, "queue")
    /\ Goto(a, IF a \in Batches THEN Setting(i, "queued", i, job, job)
               ELSE Setting(i, "queued", i, Setting(i, "processing", i, own, Free), Free))
    /\ UNCHANGED <<connVars, item, batch, import, members, remote, acquire, extract>>

-----------------------------------------------------------------------------
(* The extraction worker *)

TakeExtraction(w, i) ==
    LET then == [item |-> i, onError |-> Setting(i, "failed", i, Recomputing(i), Free),
                 step |-> "extract"] IN
    /\ At(w, "free") /\ extract[i] > 0
    /\ extract' = [extract EXCEPT ![i] = @ - 1]
    /\ Goto(w, IF item[i] = None THEN [then EXCEPT !.onError = Free]
               ELSE Setting(i, "processing", i, then, then))
    /\ UNCHANGED <<connVars, item, batch, import, members, remote, acquire>>

(* The worker has no extraction provider: mark_failure over whatever the    *)
(* status is, and the item follows.                                         *)
SetupFails(w, i) ==
    /\ At(w, "free") /\ extract[i] > 0 /\ "no_provider" \in OutcomesOf[i]
    /\ extract' = [extract EXCEPT ![i] = @ - 1]
    /\ import' = [import EXCEPT ![i].status = "failed_retryable"]
    /\ Goto(w, IF item[i] = None THEN Free
               ELSE Setting(i, "failed", i, Recomputing(i), Free))
    /\ UNCHANGED <<connVars, item, batch, members, remote, acquire>>

(* transition from queued.  Whoever queued the import left one job for it,  *)
(* or extracts it himself, so that nothing finds it elsewhere.              *)
BeginExtraction(w) ==
    LET i == at[w].item IN
    /\ At(w, "extract") /\ import[i].status = "queued"
    /\ import' = [import EXCEPT ![i].status = "parsing"]
    /\ Goto(w, [at[w] EXCEPT !.step = "finish"])
    /\ UNCHANGED <<connVars, item, batch, members, remote, acquire, extract>>

(* Faulty variant of ItemStatus: needs_ocr is not looked at.                *)
ItemStatusOf(outcome) == "review_required"

ItemStatus(outcome) == IF outcome = "needs_ocr" THEN "blocked" ELSE "review_required"

(* replace_unreviewed_candidates stores the candidates of the chunks that   *)
(* were extracted.  When others failed the import is to be retried, and the *)
(* call succeeds all the same, so that the item goes on to its review.      *)
FinishExtraction(w, outcome) ==
    LET i == at[w].item IN
    /\ At(w, "finish") /\ outcome \in OutcomesOf[i]
    /\ import' = [import EXCEPT
           ![i].status = IF outcome = "unmarked" THEN @
                         ELSE IF outcome = "partial" THEN "failed_retryable"
                         ELSE outcome,
           ![i].stored = IF outcome = "review_required" THEN "complete"
                         ELSE IF outcome = "partial" THEN "partial"
                         ELSE @]
    /\ Goto(w, IF outcome \in Errors THEN at[w].onError
               ELSE IF item[i] = None THEN Free
               ELSE Setting(i, ItemStatus(outcome), i, Recomputing(i), Free))
    /\ UNCHANGED <<connVars, item, batch, members, remote, acquire, extract>>

(* What people do to imports, as far as items and lineages depend on it:    *)
(* retry, a text recognized by hand, and review up to compilation.          *)
RetryImport(i) ==
    /\ import[i].status \in {"failed_retryable", "needs_ocr"}
    /\ import' = [import EXCEPT ![i].status = "queued"]
    /\ extract' = [extract EXCEPT ![i] = @ + 1]
    /\ UNCHANGED <<connVars, item, batch, members, remote, acquire, at>>

CompileImport(i) ==
    /\ import[i].status = "review_required"
    /\ import' = [import EXCEPT ![i].status = "compiled"]
    /\ UNCHANGED <<connVars, item, batch, members, remote, acquire, extract, at>>

-----------------------------------------------------------------------------
(* The acquisition worker *)

(* An item has one job; a second delivery of it would find the item claimed *)
(* and end.                                                                 *)
TakeAcquisition(w, i) ==
    /\ At(w, "free") /\ acquire[i] > 0
    /\ acquire' = [acquire EXCEPT ![i] = @ - 1]
    /\ Claimable(i) /\ Claim(i)
    /\ Goto(w, Doing(IF FileOf[i] = None THEN "fetch" ELSE "credential", i))
    /\ UNCHANGED <<connVars, batch, import, members, remote, extract>>

(* encrypted_credential and decrypt; an expired access token is refreshed.  *)
ReadCredential(w) ==
    LET i == at[w].item IN
    /\ At(w, "credential")
    /\ \/ /\ conn.credential = conn.id
          /\ \E step \in {"fetch", "refresh"} : Goto(w, Doing(step, i))
       \/ conn.credential # conn.id /\ Goto(w, Failing(i))
    /\ UNCHANGED <<connVars, item, batch, import, members, remote, acquire, extract>>

SaveRefreshed(w) ==
    /\ At(w, "refresh")
    /\ StoreRefreshed
    /\ Goto(w, Doing("fetch", at[w].item))
    /\ UNCHANGED <<item, batch, import, members, remote, acquire, extract>>

(* The setup or the acquisition fails.                                      *)
AcquisitionFails(w) ==
    /\ at[w].step \in {"refresh", "fetch"}
    /\ Goto(w, Failing(at[w].item))
    /\ UNCHANGED <<connVars, item, batch, import, members, remote, acquire, extract>>

Reauthorize(w) ==
    /\ At(w, "fetch") /\ FileOf[at[w].item] # None
    /\ MarkReauthorize
    /\ Goto(w, Failing(at[w].item))
    /\ UNCHANGED <<item, batch, import, members, remote, acquire, extract>>

Fetch(w) ==
    LET i == at[w].item IN
    /\ At(w, "fetch")
    /\ Goto(w, IF FileOf[i] = None
               THEN [item |-> i, parent |-> None, step |-> "create", version |-> 1]
               ELSE [item |-> i, step |-> "list", version |-> remote[FileOf[i]]])
    /\ UNCHANGED <<connVars, item, batch, import, members, remote, acquire, extract>>

(* list_subscriptions: what the new import would supersede is read here.    *)
ListSubscriptions(w) ==
    LET i == at[w].item IN
    /\ At(w, "list")
    /\ Goto(w, [item |-> i, parent |-> sub[FileOf[i]].last, step |-> "reserve",
                version |-> at[w].version])
    /\ UNCHANGED <<connVars, item, batch, import, members, remote, acquire, extract>>

(* reserve_revision locks subscription and import only to decide.           *)
ReserveRevision(w) ==
    LET i == at[w].item
        last == sub[FileOf[i]].last
        unchanged == /\ last # None
                     /\ at[w].version \in {sub[FileOf[i]].seen, import[last].version}
        blocked == last # None /\ ~unchanged /\ import[last].status # "compiled" IN
    /\ At(w, "reserve")
    /\ Goto(w, IF unchanged THEN Setting(i, "unchanged", at[w].parent, Recomputing(i), Free)
               ELSE IF blocked THEN Setting(i, "blocked", at[w].parent, Recomputing(i), Free)
               ELSE [item |-> i, parent |-> IF last = None THEN None ELSE at[w].parent,
                     step |-> "create", version |-> at[w].version])
    /\ UNCHANGED <<connVars, item, batch, import, members, remote, acquire, extract>>

(* A worker stops, or a statement whose error it hands on fails.  Nothing   *)
(* takes up its job again.                                                  *)
Stop(w) ==
    /\ at[w].step \notin {"free", "stopped"} /\ "stop" \in Faults
    /\ Goto(w, [batch |-> IF At(w, "recompute") THEN at[w].batch ELSE BatchOf[at[w].item],
                step |-> "stopped"])
    /\ UNCHANGED <<connVars, item, batch, import, members, remote, acquire, extract>>

RemoteChanges(f) ==
    /\ remote[f] < MaxVersion
    /\ remote' = [remote EXCEPT ![f] = @ + 1]
    /\ UNCHANGED <<connVars, item, batch, import, members, acquire, extract, at>>

-----------------------------------------------------------------------------
(* The handlers *)

ItemUpdates(a) == ReadItem(a) \/ WriteItem(a) \/ Recompute(a)

ImportSteps(a) == CreateImport(a) \/ Stored(a) \/ StoreFails(a)

(* The documents of a request, one after the other.                         *)
EachDocument(b) ==
    \/ CreateBatch(b) \/ ClaimUpload(b)
    \/ ImportSteps(b) \/ AddMember(b) \/ Queue(b)
    \/ EnqueueExtraction(b) \/ ExtractionRefused(b) \/ EndBatch(b)

UploadBatch(b) == Kind[b] = "upload" /\ (EachDocument(b) \/ RefuseFormat(b) \/ ItemUpdates(b))

PasteBatch(b) == Kind[b] = "paste" /\ (EachDocument(b) \/ ItemUpdates(b))

(* One acquisition job for each item.                                       *)
EachJob(b) ==
    CreateBatch(b) \/ EnqueueAcquisition(b) \/ AcquisitionRefused(b) \/ EndBatch(b)

UrlBatch(b) == Kind[b] = "url" /\ (EachJob(b) \/ ItemUpdates(b))

ProviderSelectionBatch(b) ==
    /\ Kind[b] = "selection"
    /\ \/ Select(b) \/ ReadSubscription(b) \/ InsertSubscription(b)
       \/ EachJob(b) \/ ItemUpdates(b)

Sync(b) == Kind[b] = "sync" /\ (EachJob(b) \/ ItemUpdates(b))

UploadRevision(b) ==
    /\ Kind[b] = "revise"
    /\ \/ \E p \in Items : Revise(b, p)
       \/ ImportSteps(b) \/ EnqueueExtraction(b) \/ ExtractionRefused(b) \/ MarkRefused(b)

RequestStep(b) ==
    \/ UploadBatch(b) \/ PasteBatch(b) \/ UrlBatch(b)
    \/ ProviderSelectionBatch(b) \/ Sync(b) \/ UploadRevision(b)

AcquireSource(w) ==
    \/ \E i \in Items : TakeAcquisition(w, i)
    \/ ReadCredential(w) \/ SaveRefreshed(w) \/ AcquisitionFails(w) \/ Reauthorize(w)
    \/ Fetch(w) \/ ListSubscriptions(w) \/ ReserveRevision(w)
    \/ ImportSteps(w) \/ Record(w) \/ AddMember(w) \/ Queue(w)

ProcessImport(w) ==
    \/ \E i \in Items : TakeExtraction(w, i) \/ SetupFails(w, i)
    \/ BeginExtraction(w)
    \/ \E outcome \in Outcomes : FinishExtraction(w, outcome)

WorkerStep(w) == AcquireSource(w) \/ ProcessImport(w) \/ ItemUpdates(w) \/ Stop(w)

Busy == {a \in Actors : at[a].step \notin {"free", "stopped"}}

Next ==
    \/ ConnNext /\ UNCHANGED ingestVars
    \/ \E b \in Busy \cap Batches : RequestStep(b)
    \/ \E w \in Workers : WorkerStep(w)
    \/ \E i \in Items : import[i] # None /\ (RetryImport(i) \/ CompileImport(i))
    \/ \E f \in Files : RemoteChanges(f)

Spec == Init /\ [][Next]_vars

-----------------------------------------------------------------------------
(* Properties *)

Steps ==
    {"new", "free", "recompute", "set", "write", "subscribe", "insert", "enqueue",
     "next", "job", "mark", "create", "store", "record", "member", "queue",
     "extract", "finish", "stopped", "credential", "refresh", "fetch", "list", "reserve"}

(* What the tables, the queues and the statements of the handlers hold.     *)
SourcesTypeOK ==
    /\ ConnTypeOK
    /\ \A i \in Items :
           /\ item[i] # None => item[i] \in ItemRows
           /\ import[i] # None => import[i] \in ImportRows
    /\ \A b \in Batches : batch[b] # None => batch[b] \in BatchRows
    /\ \A f \in Files : sub[f] # None => sub[f] \in SubscriptionRows
    /\ members \subseteq {i \in Items : import[i] # None}
    /\ remote \in [Files -> 1..MaxVersion]
    /\ acquire \in [Items -> Nat] /\ extract \in [Items -> Nat]
    /\ \A a \in Actors : at[a].step \in Steps

(* Every request and worker is done; a worker that was stopped was at       *)
(* another batch.                                                           *)
Settled(b) ==
    /\ \A a \in Actors :
           at[a].step \in {"free", "new"} \/ (At(a, "stopped") /\ at[a].batch # b)
    /\ \A i \in Items : BatchOf[i] = b => acquire[i] = 0 /\ extract[i] = 0

OfBatch(b, statuses) ==
    {i \in Items : BatchOf[i] = b /\ item[i].status \in statuses}

(* What a batch reports as finished is finished: once everybody who worked  *)
(* on it is done, its counts are those of its items, and it is complete     *)
(* only if no item failed or is blocked, whichever of the request and the   *)
(* workers updated an item last (recompute_batch, update_item).  An item    *)
(* some chunks of which failed counts as one that succeeded.                *)
ReportedIsTrue ==
    \A b \in Batches :
        Settled(b) /\ batch[b] # None /\ batch[b].status \notin {"pending", "running"}
            => LET lost == OfBatch(b, {"failed", "blocked"})
                   kept == OfBatch(b, {"review_required", "unchanged"}) IN
               /\ lost \cup kept = {i \in Items : BatchOf[i] = b}
               /\ batch[b].failed = Cardinality(OfBatch(b, {"failed"}))
               /\ batch[b].succeeded = Cardinality(OfBatch(b, {"review_required"}))
               /\ batch[b].unchanged = Cardinality(OfBatch(b, {"unchanged"}))
               /\ batch[b].status = "complete" <=> lost = {}
               /\ batch[b].status = "failed" <=> kept = {}

(* Two workers that acquire the same file, and a person who uploads a       *)
(* revision meanwhile, never fork a lineage: a revision supersedes a        *)
(* compiled one, and no other revision has its number.                      *)
LineageIsLinear ==
    \A i, j \in Items : import[i] # None /\ import[j] # None =>
        /\ import[i].source = import[j].source /\ import[i].revision = import[j].revision
               => i = j
        /\ import[i].parent = j =>
               /\ import[j].status = "compiled"
               /\ import[j].source = import[i].source
               /\ import[j].revision + 1 = import[i].revision

(* Workers that finish out of order never take a subscription back to an    *)
(* earlier revision of a lineage (record_subscription_import).              *)
LastAdvances ==
    [][\A f \in Files :
          LET was == sub[f].last
              now == sub'[f].last IN
          sub[f] # None /\ was # None /\ now # was
              => \/ import[now].source # import[was].source
                 \/ import[now].revision > import[was].revision]_vars

(* An item that is reported as ready for review has an import for which an  *)
(* extraction stored what it found, whoever extracted it and however often  *)
(* it was tried.  The import itself is open to review, or compiled, exactly *)
(* if no chunk failed: otherwise it waits for a retry, or goes through one, *)
(* while its item is ready for review already (FinishExtraction).           *)
ReviewableItem ==
    \A i \in Items : item[i] # None /\ item[i].status = "review_required"
        => /\ import[i] # None /\ import[i].stored # "none"
           /\ import[i].stored = "complete"
                  <=> import[i].status \in {"review_required", "compiled"}

(* Nothing is left that would take a queued import further.                 *)
Stranded(i) ==
    /\ import[i] # None /\ import[i].status = "queued"
    /\ extract[i] = 0
    /\ \A a \in Actors : at[a] = Free \/ at[a] = New

(* "Every accepted item becomes immutable evidence and a separate review"   *)
(* (apps/web, policy-source-acquisition.tsx).  The code does not keep it    *)
(* without any fault: a sync of a changed file into the collection that     *)
(* holds the previous revision leaves the new import queued for ever.       *)
AcceptedIsReviewed == \A i \in Items : ~Stranded(i)
=============================================================================
