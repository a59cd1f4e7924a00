------------------------- MODULE SourceIngestionProofs -------------------------
(****************************************************************************)
(* What the rows of connections, items and imports keep, for any number of  *)
(* batches, items, files, workers and callbacks.  The difficulty is that a  *)
(* handler carries what it will do next through several statements: a       *)
(* setting of an item holds what follows it, and that may hold the right to *)
(* extract an import, or the items a request has yet to begin.  Core finds  *)
(* that in at[a].  An item is then before its import or has one in hand,    *)
(* and one actor or one queued job at a time has the item (Passes).         *)
(****************************************************************************)
EXTENDS SourceIngestion, FiniteSetTheorems, TLAPS

(* The items left in a list, and lists without repetition.                  *)
Left(s) == {s[n] : n \in 1..Len(s)}

Lists == {s \in Seq(Items) : \A m, n \in 1..Len(s) : s[m] = s[n] => m = n}

(* What an actor does when its settings are done or refused.                *)
Core(x) ==
    IF x.step \in {"set", "write"}
    THEN IF x.then.step = "set" THEN x.then.then ELSE x.then
    ELSE x

Acquiring == {"credential", "refresh", "fetch", "list", "reserve"}
Keeping == {"store", "record", "member", "queue", "job", "mark", "extract", "finish"}

(* A request: the items it has not begun.                                   *)
Ahead(a, x) ==
    IF a \notin Batches THEN {}
    ELSE IF x.step \in {"new", "subscribe", "insert"} THEN Left(ItemsOf[a])
    ELSE IF Core(x).step \in {"enqueue", "next", "create", "store", "member", "queue", "job"}
    THEN Left(Core(x).rest)
    ELSE {}

Before(a, x, i) ==
    \/ i \in Ahead(a, x)
    \/ Core(x).step \in Acquiring \cup {"create"} /\ Core(x).item = i

Holds(x, i) == Core(x).step \in Keeping /\ Core(x).item = i

Owns(a, x, i) == Before(a, x, i) \/ Holds(x, i)

-----------------------------------------------------------------------------
(* What at[a] can be *)

Idle == {New, Free} \cup [batch : Batches \cup {None}, step : {"stopped"}]
                    \cup [batch : Batches, step : {"recompute"}]

OnFail(i) == {Free, Setting(i, "failed", i, Recomputing(i), Free)}

Extraction(i, steps) == [item : {i}, onError : OnFail(i), step : steps]

Sets(i, to, imports, then, else) ==
    [else : else, import : imports, item : {i}, step : {"set", "write"}, then : then, to : to]

Closing(i) ==
    Sets(i, Ended, Items \cup {None}, {Recomputing(i)}, {Recomputing(i), Free})

Processing(i) ==
    Sets(i, {"processing"}, {i}, Extraction(i, {"extract"}), Extraction(i, {"extract"}) \cup {Free})

Queueing(i) ==
    Sets(i, {"queued"}, {i}, {x \in Processing(i) : x.step = "set"}, {Free})

Acquisition(i) ==
    [item : {i}, step : {"credential", "refresh", "fetch"}]
    \cup [item : {i}, step : {"list"}, version : Nat]
    \cup [item : {i}, parent : Items \cup {None}, version : Nat,
          step : {"reserve", "create", "store", "record", "member", "queue"}]

WorkerForm(x) ==
    \/ x \in Idle /\ x # New
    \/ \E i \in Items :
           \/ x \in Acquisition(i) \cup Extraction(i, {"extract", "finish"})
           \/ x \in Closing(i) \cup Processing(i) \cup Queueing(i)

Upload(i, steps) ==
    {x \in [item : {i}, parent : Items \cup {None}, rest : Lists, step : steps, version : Nat] :
         i \notin Left(x.rest)}

QueueingUpload(i) ==
    Sets(i, {"queued"}, {i}, Upload(i, {"job"}), Upload(i, {"job"}))

FailingUpload(i) ==
    Sets(i, {"failed"}, Items \cup {None}, [rest : Lists, step : {"enqueue", "next"}],
                                          [rest : Lists, step : {"enqueue", "next"}])

RequestForm(x) ==
    \/ x \in Idle \cup [rest : Lists, step : {"subscribe", "insert", "enqueue", "next"}]
    \/ \E i \in Items :
           \/ x \in Upload(i, {"create", "store", "member", "queue", "job"})
           \/ x = Doing("mark", i)
           \/ x \in QueueingUpload(i) \cup FailingUpload(i) /\ x.then = x.else

Forms ==
    /\ \A w \in Workers : WorkerForm(at[w])
    /\ \A b \in Batches : RequestForm(at[b])

-----------------------------------------------------------------------------
(* What an actor knows of the rows, and what does not change any more *)

Known(i) == item[i] # None

ReviewedImport(i) == import[i] # None /\ import[i].stored # "none"

Reviewable == {"review_required", "compiled"}

Knows(a) ==
    LET x == at[a] IN
    /\ x.step \in {"set", "write"} => /\ Known(x.item)
                                      /\ x.to = "review_required" => ReviewedImport(x.item)
    /\ Core(x).step \in {"reserve", "create"} =>
           Core(x).parent = None \/ import[Core(x).parent] # None
    /\ Core(x).step \in {"extract", "finish"} =>
           Core(x).onError = Free \/ Known(Core(x).item)

KnowsWorker(w) ==
    Core(at[w]).step \in Acquiring \cup {"create", "store", "record", "member", "queue"} =>
        /\ Known(Core(at[w]).item)
        /\ Core(at[w]).step \in {"credential", "refresh", "list", "reserve", "record"} =>
               FileOf[Core(at[w]).item] # None

KnowsRequest(b) ==
    LET x == at[b]
        y == Core(x) IN
    /\ x.step \in {"subscribe", "insert"} =>
           /\ Kind[b] = "selection" /\ conn # None
           /\ \A i \in Left(ItemsOf[b]) : i \in Left(x.rest) \/ sub[FileOf[i]] # None
    /\ x.step = "insert" => x.rest # <<>>
    /\ y.step \in {"enqueue", "next"} => Kind[b] # "revise"
    /\ y.step \in {"enqueue", "next", "create", "store", "member", "queue", "job"} =>
           \A i \in Left(y.rest) : Known(i)
    /\ y.step \in {"create", "store", "member", "queue", "job"} =>
           Kind[b] = "revise" \/ Known(y.item)

Knowledge ==
    /\ \A a \in Actors : Knows(a)
    /\ \A w \in Workers : KnowsWorker(w)
    /\ \A b \in Batches : KnowsRequest(b)

(* An item of a file has its connection and its subscription.               *)
FilesKnown ==
    \A i \in Items : item[i] # None /\ FileOf[i] # None =>
        conn # None /\ sub[FileOf[i]] # None

JobsKnown == \A i \in Items : acquire[i] > 0 => Known(i)

LastKnown == \A f \in Files : sub[f] # None /\ sub[f].last # None => import[sub[f].last] # None

-----------------------------------------------------------------------------
(* Who has an item *)

StatusAt(step) ==
    IF step = "store" THEN "uploading"
    ELSE IF step = "finish" THEN "parsing"
    ELSE "queued"

OneOwner(i) ==
    /\ acquire[i] + extract[i] \in {0, 1}
    /\ \A a \in Actors : Owns(a, at[a], i) => acquire[i] + extract[i] = 0
    /\ \A a, c \in Actors : Owns(a, at[a], i) /\ Owns(c, at[c], i) => a = c

OwnedStatus(i) ==
    /\ acquire[i] > 0 => import[i] = None
    /\ extract[i] > 0 => import[i] # None /\ import[i].status = "queued"
    /\ \A a \in Actors :
           /\ Before(a, at[a], i) => import[i] = None
           /\ Holds(at[a], i) =>
                  import[i] # None /\ import[i].status = StatusAt(Core(at[a]).step)

Owners == \A i \in Items : OneOwner(i) /\ OwnedStatus(i)

(* A lineage begins with an import that is there. *)
SourcesKnown ==
    \A i \in Items : import[i] # None =>
        /\ import[import[i].source] # None
        /\ import[i].parent # None => import[import[i].parent] # None

-----------------------------------------------------------------------------
(* Connections *)

CallbacksKnown ==
    \A k \in Callbacks :
        /\ callback[k].step = "new" => callback[k].state = None
        /\ callback[k].state # None => oauth[callback[k].state] = "used"
        /\ callback[k].step = "save" => callback[k].id # None

ConnInv == ConnTypeOK /\ CallbacksKnown /\ StateUsedOnce /\ SealedForOwner

(* Candidates are there when an item is reported as ready for review, and   *)
(* an import is open to review, or compiled, when it has those of all       *)
(* chunks.                                                                  *)
CandidatesKnown ==
    /\ \A i \in Items : item[i] # None /\ item[i].status = "review_required" => ReviewedImport(i)
    /\ \A i \in Items : import[i] # None =>
           (import[i].stored = "complete" <=> import[i].status \in Reviewable)

(* The tables and queues. *)
RowsTyped ==
    /\ item = [i \in Items |-> item[i]] /\ import = [i \in Items |-> import[i]]
    /\ sub = [f \in Files |-> sub[f]]
    /\ \A i \in Items : item[i] \in ItemRows \cup {None} /\ import[i] \in ImportRows \cup {None}
    /\ \A f \in Files : sub[f] \in SubscriptionRows \cup {None}
    /\ members \subseteq {i \in Items : import[i] # None}
    /\ remote \in [Files -> 1..MaxVersion]
    /\ acquire \in [Items -> Nat] /\ extract \in [Items -> Nat]

Tables ==
    /\ ConnInv /\ RowsTyped
    /\ FilesKnown /\ JobsKnown /\ LastKnown
    /\ SourcesKnown /\ LineageIsLinear /\ CandidatesKnown

ActorsTyped == at = [a \in Actors |-> at[a]]

SourceInv == Tables /\ ActorsTyped /\ Forms /\ Knowledge /\ Owners

-----------------------------------------------------------------------------
(* Lists of items *)

LEMMA HeadAndTail ==
    ASSUME NEW s \in Lists, s # <<>>
    PROVE  /\ Head(s) \in Items /\ Head(s) \in Left(s)
           /\ Tail(s) \in Lists /\ Left(Tail(s)) \subseteq Left(s)
           /\ Head(s) \notin Left(Tail(s))
           /\ \A i \in Left(s) : i = Head(s) \/ i \in Left(Tail(s))
  <1>1. s \in Seq(Items) /\ Len(s) \in Nat /\ Len(s) >= 1
    BY DEF Lists
  <1>2. \A m, n \in 1..Len(s) : s[m] = s[n] => m = n
    BY DEF Lists
  <1>3. /\ Tail(s) \in Seq(Items) /\ Len(Tail(s)) = Len(s) - 1 /\ Head(s) = s[1]
        /\ \A n \in 1..Len(Tail(s)) : Tail(s)[n] = s[n + 1]
    BY <1>1
  <1>4. \A m, n \in 1..Len(Tail(s)) : Tail(s)[m] = Tail(s)[n] => m = n
    BY <1>1, <1>2, <1>3
  <1>5. Tail(s) \in Lists
    BY <1>3, <1>4 DEF Lists
  <1>6. Head(s) \in Items /\ Head(s) \in Left(s)
    BY <1>1, <1>3 DEF Left
  <1>7. Left(Tail(s)) \subseteq Left(s)
    BY <1>1, <1>3 DEF Left
  <1>8. Head(s) \notin Left(Tail(s))
    BY <1>1, <1>2, <1>3 DEF Left
  <1>9. ASSUME NEW i \in Left(s) PROVE i = Head(s) \/ i \in Left(Tail(s))
    <2>1. PICK n \in 1..Len(s) : i = s[n]
      BY DEF Left
    <2>2. CASE n = 1
      BY <1>3, <2>1, <2>2
    <2>3. CASE n # 1
      <3>1. n - 1 \in 1..Len(Tail(s)) /\ Tail(s)[n - 1] = s[n]
        BY <1>1, <1>3, <2>3
      <3> QED BY <2>1, <3>1 DEF Left
    <2> QED BY <2>2, <2>3
  <1> QED BY <1>5, <1>6, <1>7, <1>8, <1>9

LEMMA LeftItems ==
    ASSUME NEW s \in Lists
    PROVE  Left(s) \subseteq Items
  BY DEF Lists, Left

LEMMA EmptyList == <<>> \in Lists /\ Left(<<>>) = {}
  BY DEF Lists, Left

(* The items of a batch are those that have it as their batch.              *)
LEMMA BatchItems ==
    ASSUME NEW b \in Batches
    PROVE  /\ ItemsOf[b] \in Lists
           /\ \A i \in Items : BatchOf[i] = b <=> i \in Left(ItemsOf[b])
  <1>1. ItemsOf[b] \in Seq(Items)
    BY IngestionAssumption
  <1>2. DOMAIN ItemsOf[b] = 1..Len(ItemsOf[b])
    BY <1>1
  <1>3. ItemsOf[b] \in Lists
    BY <1>1, <1>2, IngestionAssumption DEF Lists
  <1>4. ASSUME NEW i \in Items
        PROVE  BatchOf[i] = b <=> i \in Left(ItemsOf[b])
    <2>1. \E c \in Batches : \E n \in DOMAIN ItemsOf[c] : ItemsOf[c][n] = i
      BY DEF Items
    <2>2. /\ BatchOf[i] \in Batches
          /\ \E n \in DOMAIN ItemsOf[BatchOf[i]] : ItemsOf[BatchOf[i]][n] = i
      BY <2>1 DEF BatchOf
    <2>3. BatchOf[i] = b => i \in Left(ItemsOf[b])
      BY <1>2, <2>2 DEF Left
    <2>4. i \in Left(ItemsOf[b]) => BatchOf[i] = b
      BY <1>2, <2>2, IngestionAssumption DEF Left
    <2> QED BY <2>3, <2>4
  <1> QED BY <1>3, <1>4

LEMMA ItemBatch ==
    ASSUME NEW i \in Items
    PROVE  BatchOf[i] \in Batches /\ i \in Left(ItemsOf[BatchOf[i]])
  <1>1. \E c \in Batches : \E n \in DOMAIN ItemsOf[c] : ItemsOf[c][n] = i
    BY DEF Items
  <1>2. BatchOf[i] \in Batches
    BY <1>1 DEF BatchOf
  <1> QED BY <1>2, BatchItems

-----------------------------------------------------------------------------
(* One actor moves *)

(* What becomes of an item when a goes on to y: who had it may keep it,     *)
(* drop it or make it a job, and who takes its job has it alone.            *)
Passes(a, y, i) ==
    /\ acquire'[i] \in Nat /\ extract'[i] \in Nat
    /\ acquire'[i] + extract'[i] \in {0, 1}
    /\ Owns(a, y, i) => acquire'[i] + extract'[i] = 0
    /\ \/ Owns(a, at[a], i)
       \/ acquire[i] + extract[i] = 1
       \/ /\ ~Owns(a, y, i) /\ import'[i] = import[i]
          /\ acquire'[i] = acquire[i] /\ extract'[i] = extract[i]
    /\ acquire'[i] > 0 \/ Before(a, y, i) => import'[i] = None
    /\ extract'[i] > 0 => import'[i] # None /\ import'[i].status = "queued"
    /\ Holds(y, i) => import'[i] # None /\ import'[i].status = StatusAt(Core(y).step)

(* Rows that are there stay.                                                *)
RowsStay ==
    /\ \A i \in Items : item[i] # None => item'[i] # None
    /\ \A i \in Items : import[i] # None => import'[i] # None
    /\ \A i \in Items : ReviewedImport(i) => ReviewedImport(i)'
    /\ conn # None => conn' # None
    /\ \A f \in Files : sub[f] # None => sub'[f] # None

LEMMA OthersStay ==
    ASSUME ActorsTyped, NEW a \in Actors, NEW y, Goto(a, y)
    PROVE  /\ at'[a] = y /\ \A c \in Actors : c # a => at'[c] = at[c]
           /\ at' = [c \in Actors |-> at'[c]]
  BY DEF ActorsTyped, Goto

LEMMA OwnersPass ==
    ASSUME SourceInv, NEW a \in Actors, NEW y, Goto(a, y),
           \A i \in Items : Passes(a, y, i)
    PROVE  Owners'
  <1> USE DEF SourceInv
  <1>1. at'[a] = y /\ \A c \in Actors : c # a => at'[c] = at[c]
    BY OthersStay
  <1>2. SUFFICES ASSUME NEW i \in Items PROVE OneOwner(i)' /\ OwnedStatus(i)'
    BY DEF Owners
  <1>3. Passes(a, y, i) /\ OneOwner(i) /\ OwnedStatus(i)
    BY DEF Owners
  <1>4. acquire[i] \in Nat /\ extract[i] \in Nat
    BY DEF Tables, RowsTyped
  <1>5. ASSUME NEW c \in Actors, c # a, Owns(c, at[c], i)
        PROVE  /\ ~Owns(a, y, i) /\ import'[i] = import[i]
               /\ acquire'[i] = acquire[i] /\ extract'[i] = extract[i]
    <2>1. acquire[i] + extract[i] = 0 /\ ~Owns(a, at[a], i)
      BY <1>3, <1>5 DEF OneOwner
    <2> QED BY <1>3, <2>1 DEF Passes
  <1>6. \A c \in Actors : Owns(c, at'[c], i) =>
            (c = a /\ Owns(a, y, i)) \/ (c # a /\ Owns(c, at[c], i))
    BY SMTT(30), <1>1
  <1>7. OneOwner(i)'
    <2>1. \A c \in Actors : Owns(c, at'[c], i) => acquire'[i] + extract'[i] = 0
      BY <1>3, <1>5, <1>6 DEF Passes, OneOwner
    <2>2. \A c, d \in Actors : Owns(c, at'[c], i) /\ Owns(d, at'[d], i) => c = d
      BY SMTT(30), <1>3, <1>5, <1>6 DEF OneOwner
    <2> QED BY ZenonT(30), <1>3, <2>1, <2>2 DEF Passes, OneOwner, Owns, Before, Holds, Ahead, Core
  <1>8. OwnedStatus(i)'
    <2>1. ASSUME NEW c \in Actors
          PROVE  /\ Before(c, at'[c], i) => import'[i] = None
                 /\ Holds(at'[c], i) =>
                        import'[i] # None /\ import'[i].status = StatusAt(Core(at'[c]).step)
      <3>1. CASE c = a
        BY <1>1, <1>3, <3>1 DEF Passes
      <3>2. CASE c # a
        <4>1. at'[c] = at[c]
          BY <1>1, <3>2
        <4>2. Before(c, at[c], i) \/ Holds(at[c], i) => import'[i] = import[i]
          BY <1>5, <3>2 DEF Owns
        <4>3. /\ Before(c, at[c], i) => import[i] = None
              /\ Holds(at[c], i) =>
                     import[i] # None /\ import[i].status = StatusAt(Core(at[c]).step)
          BY <1>3 DEF OwnedStatus
        <4> QED BY <4>1, <4>2, <4>3
      <3> QED BY <3>1, <3>2
    <2> QED BY <1>3, <2>1 DEF Passes, OwnedStatus, Before, Holds, Ahead, Core
  <1> QED BY <1>7, <1>8

-----------------------------------------------------------------------------
(* The shape of at[a], step by step *)

Makers == {"create", "store", "member", "queue", "job"}

LEMMA WorkerShape ==
    ASSUME NEW x, WorkerForm(x)
    PROVE  /\ x.step \in {"free", "stopped", "recompute", "set", "write", "extract", "finish"}
                  \cup Acquiring \cup {"create", "store", "record", "member", "queue"}
           /\ x.step = "free" => x = Free
           /\ x.step \in {"credential", "refresh", "fetch", "list", "reserve", "create",
                          "store", "record", "member", "queue"} =>
                  x.item \in Items /\ x \in Acquisition(x.item)
           /\ x.step \in {"extract", "finish"} =>
                  x.item \in Items /\ x \in Extraction(x.item, {"extract", "finish"})
           /\ x.step \in {"set", "write"} =>
                  /\ x.item \in Items
                  /\ x \in Closing(x.item) \cup Processing(x.item) \cup Queueing(x.item)
  <1>1. CASE x \in Idle /\ x # New
    BY <1>1 DEF Idle, Free, New, Acquiring
  <1>2. ASSUME NEW i \in Items, x \in Acquisition(i)
        PROVE  x.item = i /\ x.step \in Acquiring \cup {"create", "store", "record", "member", "queue"}
    BY <1>2 DEF Acquisition, Acquiring
  <1>3. ASSUME NEW i \in Items, x \in Extraction(i, {"extract", "finish"})
        PROVE  x.item = i /\ x.step \in {"extract", "finish"}
    BY <1>3 DEF Extraction
  <1>4. ASSUME NEW i \in Items, x \in Closing(i) \cup Processing(i) \cup Queueing(i)
        PROVE  x.item = i /\ x.step \in {"set", "write"}
    BY <1>4 DEF Closing, Processing, Queueing, Sets
  <1>5. CASE ~(x \in Idle /\ x # New)
    <2>1. PICK i \in Items :
              \/ x \in Acquisition(i)
              \/ x \in Extraction(i, {"extract", "finish"})
              \/ x \in Closing(i) \cup Processing(i) \cup Queueing(i)
      BY <1>5 DEF WorkerForm
    <2> QED BY <1>2, <1>3, <1>4, <2>1 DEF Acquiring
  <1> QED BY <1>1, <1>5

LEMMA RequestShape ==
    ASSUME NEW x, RequestForm(x)
    PROVE  /\ x.step \in {"new", "free", "stopped", "recompute", "subscribe", "insert", "enqueue",
                          "next", "mark", "set", "write"} \cup Makers
           /\ x.step = "new" => x = New
           /\ x.step = "free" => x = Free
           /\ x.step \in {"subscribe", "insert", "enqueue", "next"} =>
                  x \in [rest : Lists, step : {"subscribe", "insert", "enqueue", "next"}]
           /\ x.step \in Makers =>
                  x.item \in Items /\ x \in Upload(x.item, Makers)
           /\ x.step = "mark" => x.item \in Items /\ x = Doing("mark", x.item)
           /\ x.step \in {"set", "write"} =>
                  /\ x.item \in Items /\ x.then = x.else
                  /\ x \in QueueingUpload(x.item) \cup FailingUpload(x.item)
  <1>1. CASE x \in Idle
    BY <1>1 DEF Idle, Free, New, Makers
  <1>2. CASE x \in [rest : Lists, step : {"subscribe", "insert", "enqueue", "next"}]
    BY <1>2 DEF Makers
  <1>3. ASSUME NEW i \in Items, x \in Upload(i, {"create", "store", "member", "queue", "job"})
        PROVE  x.item = i /\ x.step \in Makers /\ x \in Upload(i, Makers)
    BY <1>3 DEF Upload, Makers
  <1>4. ASSUME NEW i \in Items, x = Doing("mark", i)
        PROVE  x.item = i /\ x.step = "mark"
    BY <1>4 DEF Doing
  <1>5. ASSUME NEW i \in Items, x \in QueueingUpload(i) \cup FailingUpload(i)
        PROVE  x.item = i /\ x.step \in {"set", "write"}
    BY <1>5 DEF QueueingUpload, FailingUpload, Sets
  <1>6. CASE ~(x \in Idle \cup [rest : Lists, step : {"subscribe", "insert", "enqueue", "next"}])
    <2>1. PICK i \in Items :
           \/ x \in Upload(i, {"create", "store", "member", "queue", "job"})
           \/ x = Doing("mark", i)
           \/ x \in QueueingUpload(i) \cup FailingUpload(i) /\ x.then = x.else
      BY <1>6 DEF RequestForm
    <2>2. CASE x \in Upload(i, {"create", "store", "member", "queue", "job"})
      BY <1>3, <2>2 DEF Makers
    <2>3. CASE x = Doing("mark", i)
      BY <1>4, <2>3 DEF Makers
    <2>4. CASE x.step \in {"set", "write"} /\ x.item = i
      BY <2>1, <2>4, <1>3, <1>4 DEF Makers
    <2> QED BY <1>5, <2>1, <2>2, <2>3, <2>4
  <1> QED BY <1>1, <1>2, <1>6

(* What a worker will do next, and what a request will.                     *)
LEMMA WorkerCore ==
    ASSUME NEW x, WorkerForm(x)
    PROVE  /\ Core(x).step \in {"free", "stopped", "recompute", "extract", "finish", "create",
                                "store", "record", "member", "queue"} \cup Acquiring
           /\ Core(x).step \in Acquiring \cup {"create"} \cup Keeping => Core(x).item \in Items
           /\ Core(x).step \in {"reserve", "create"} => Core(x).parent \in Items \cup {None}
           /\ x.step \in {"set", "write"} =>
                  /\ Core(x).step \in {"recompute", "extract"}
                  /\ Core(x).step = "extract" => Core(x).item = x.item
  <1>1. CASE x.step \notin {"set", "write"}
    <2>1. Core(x) = x
      BY <1>1 DEF Core
    <2> QED BY <1>1, <2>1, WorkerShape DEF Acquisition, Extraction, Acquiring, Keeping
  <1>2. CASE x.step \in {"set", "write"}
    <2> DEFINE i == x.item
    <2>1. i \in Items /\ x \in Closing(i) \cup Processing(i) \cup Queueing(i)
      BY <1>2, WorkerShape
    <2>2. CASE x \in Closing(i)
      <3>1. Core(x) = Recomputing(i)
        BY <2>2 DEF Closing, Sets, Core, Recomputing
      <3> QED BY <3>1 DEF Recomputing, Acquiring, Keeping
    <2>3. ASSUME NEW z \in Processing(i)
          PROVE  /\ z.then.step = "extract" /\ z.then.item = i
                 /\ z.step \in {"set", "write"}
      BY <2>3 DEF Processing, Sets, Extraction
    <2>4. CASE x \in Processing(i)
      <3>1. Core(x) = x.then
        BY <2>3, <2>4 DEF Core
      <3> QED BY <1>2, <2>1, <2>3, <2>4, <3>1 DEF Acquiring
    <2>5. CASE x \in Queueing(i)
      <3>1. x.then \in Processing(i) /\ x.then.step = "set"
        BY <2>5 DEF Queueing, Sets
      <3>2. Core(x) = x.then.then
        BY <1>2, <3>1 DEF Core
      <3> QED BY <1>2, <2>1, <2>3, <3>1, <3>2 DEF Acquiring
    <2> QED BY <2>1, <2>2, <2>4, <2>5
  <1> QED BY <1>1, <1>2

LEMMA RequestCore ==
    ASSUME NEW x, RequestForm(x)
    PROVE  /\ Core(x).step \in {"new", "free", "stopped", "recompute", "subscribe", "insert",
                                "enqueue", "next", "mark"} \cup Makers
           /\ Core(x).step \in {"mark"} \cup Makers => Core(x).item \in Items
           /\ Core(x).step = "create" => Core(x).parent \in Items \cup {None}
           /\ x.step \in {"subscribe", "insert"} => x.rest \in Lists
           /\ Core(x).step \in {"enqueue", "next"} \cup Makers => Core(x).rest \in Lists
           /\ Core(x).step \in Makers => Core(x).item \notin Left(Core(x).rest)
           /\ x.step \in {"set", "write"} =>
                  /\ Core(x) = x.then /\ Core(x).step \in {"enqueue", "next", "job"}
                  /\ Core(x).step = "job" => Core(x).item = x.item
  <1>1. CASE x.step \notin {"set", "write"}
    <2>1. Core(x) = x
      BY <1>1 DEF Core
    <2>2. x.step \in Makers =>
              /\ x.item \in Items /\ x.parent \in Items \cup {None}
              /\ x.rest \in Lists /\ x.item \notin Left(x.rest)
      <3>1. x.step \in Makers => x.item \in Items /\ x \in Upload(x.item, Makers)
        BY RequestShape
      <3> QED BY <3>1 DEF Upload
    <2>3. x.step \in {"subscribe", "insert", "enqueue", "next"} => x.rest \in Lists
      <3>1. x.step \in {"subscribe", "insert", "enqueue", "next"} =>
                x \in [rest : Lists, step : {"subscribe", "insert", "enqueue", "next"}]
        BY RequestShape
      <3> QED BY <3>1
    <2>4. x.step = "mark" => x.item \in Items
      BY RequestShape
    <2>5. x.step \in {"new", "free", "stopped", "recompute", "subscribe", "insert", "enqueue",
                       "next", "mark", "set", "write"} \cup Makers
      BY RequestShape
    <2> QED BY <1>1, <2>1, <2>2, <2>3, <2>4, <2>5 DEF Makers
  <1>2. CASE x.step \in {"set", "write"}
    <2> DEFINE i == x.item
    <2>1. i \in Items
      BY <1>2, RequestShape
    <2>2. x.then.step # "set" => Core(x) = x.then
      BY <1>2 DEF Core
    <2>3. CASE x \in QueueingUpload(i)
      BY <1>2, <2>1, <2>2, <2>3 DEF QueueingUpload, Sets, Upload, Makers
    <2>4. CASE x \in FailingUpload(i)
      BY <1>2, <2>1, <2>2, <2>4 DEF FailingUpload, Sets, Makers
    <2> QED BY <1>2, <2>3, <2>4, RequestShape
  <1> QED BY <1>1, <1>2

(* Rows that stay keep what an actor knows who does nothing.                *)
LEMMA OthersKnow ==
    ASSUME SourceInv, RowsStay, NEW c \in Actors, at'[c] = at[c]
    PROVE  /\ Knows(c)'
           /\ c \in Workers => KnowsWorker(c)'
           /\ c \in Batches => KnowsRequest(c)'
  <1> USE DEF SourceInv
  <1>1. Knows(c)'
    <2> DEFINE x == at[c]
    <2>1. at'[c] = x /\ Knows(c)
      BY DEF Knowledge
    <2>2. WorkerForm(x) \/ RequestForm(x)
      BY DEF Forms, Actors
    <2>3. /\ x.step \in {"set", "write"} => x.item \in Items
          /\ Core(x).step \in {"reserve", "create"} => Core(x).parent \in Items \cup {None}
          /\ Core(x).step \in {"extract", "finish"} => Core(x).item \in Items
      BY <2>2, WorkerShape, RequestShape, WorkerCore, RequestCore DEF Keeping, Makers, Acquiring
    <2>4. Core(x)' = Core(at'[c])
      BY DEF Core
    <2> QED BY <2>1, <2>3 DEF Knows, RowsStay, Known, Core
  <1>2. ASSUME c \in Workers PROVE KnowsWorker(c)'
    <2>1. KnowsWorker(c) /\ WorkerForm(at[c])
      BY <1>2 DEF Knowledge, Forms
    <2>2. Core(at[c]).step \in Acquiring \cup {"create"} \cup Keeping => Core(at[c]).item \in Items
      BY <2>1, WorkerCore
    <2> QED BY <2>1, <2>2 DEF KnowsWorker, RowsStay, Known, Core, Keeping
  <1>3. ASSUME c \in Batches PROVE KnowsRequest(c)'
    <2> DEFINE x == at[c]
    <2>1. at'[c] = x /\ KnowsRequest(c) /\ RequestForm(x)
      BY <1>3 DEF Knowledge, Forms
    <2>2. /\ Core(x).step \in Makers => Core(x).item \in Items
          /\ x.step \in {"subscribe", "insert"} => x.rest \in Lists
          /\ Core(x).step \in {"enqueue", "next"} \cup Makers => Core(x).rest \in Lists
      BY <2>1, RequestCore
    <2>3. x.step \in {"subscribe", "insert"} =>
              /\ Kind[c] = "selection" /\ conn' # None
              /\ \A i \in Left(ItemsOf[c]) : i \in Left(x.rest) \/ sub'[FileOf[i]] # None
      <3>1. SUFFICES ASSUME x.step \in {"subscribe", "insert"}
                     PROVE  /\ Kind[c] = "selection" /\ conn' # None
                            /\ \A i \in Left(ItemsOf[c]) :
                                   i \in Left(x.rest) \/ sub'[FileOf[i]] # None
        OBVIOUS
      <3>2. /\ Kind[c] = "selection" /\ conn # None
            /\ \A i \in Left(ItemsOf[c]) : i \in Left(x.rest) \/ sub[FileOf[i]] # None
        BY <2>1, <3>1 DEF KnowsRequest
      <3>3. \A i \in Left(ItemsOf[c]) : FileOf[i] \in Files
        BY <1>3, <3>2, BatchItems, LeftItems, IngestionAssumption
      <3> QED BY <3>2, <3>3 DEF RowsStay
    <2>4. Core(x).step \in {"enqueue", "next"} \cup Makers =>
              \A i \in Left(Core(x).rest) : item'[i] # None
      BY <2>1, <2>2, LeftItems DEF KnowsRequest, RowsStay, Known, Makers
    <2>5. Core(x).step \in Makers => Kind[c] = "revise" \/ item'[Core(x).item] # None
      BY <2>1, <2>2 DEF KnowsRequest, RowsStay, Known, Makers
    <2>6. /\ Core(x).step \in {"enqueue", "next"} => Kind[c] # "revise"
          /\ x.step = "insert" => x.rest # <<>>
      BY <2>1 DEF KnowsRequest
    <2> QED BY <2>1, <2>3, <2>4, <2>5, <2>6 DEF KnowsRequest, Known, Core, Makers
  <1> QED BY <1>1, <1>2, <1>3

LEMMA KnowledgeStays ==
    ASSUME SourceInv, RowsStay, NEW a \in Actors, NEW y, Goto(a, y),
           a \in Workers => WorkerForm(y) /\ KnowsWorker(a)',
           a \in Batches => RequestForm(y) /\ KnowsRequest(a)',
           Knows(a)'
    PROVE  Forms' /\ Knowledge'
  <1>1. at'[a] = y /\ \A c \in Actors : c # a => at'[c] = at[c]
    BY OthersStay DEF SourceInv
  <1>2. Forms'
    BY <1>1 DEF SourceInv, Forms, Actors, WorkerForm, RequestForm
  <1>3. \A c \in Actors : c # a =>
            /\ Knows(c)'
            /\ c \in Workers => KnowsWorker(c)'
            /\ c \in Batches => KnowsRequest(c)'
    BY <1>1, OthersKnow
  <1> QED BY <1>2, <1>3 DEF Knowledge, Actors

-----------------------------------------------------------------------------
(* One step of an actor *)

(* What y has to be for a to go on to it.                                   *)
Takes(a, y) ==
    /\ a \in Workers => WorkerForm(y) /\ KnowsWorker(a)'
    /\ a \in Batches => RequestForm(y) /\ KnowsRequest(a)'
    /\ Knows(a)'
    /\ \A i \in Items : Passes(a, y, i)

LEMMA StepKeeps ==
    ASSUME SourceInv, NEW a \in Actors, NEW y, Goto(a, y),
           Takes(a, y), RowsStay, Tables'
    PROVE  SourceInv'
  <1>1. Forms' /\ Knowledge'
    BY KnowledgeStays DEF Takes
  <1>2. Owners'
    BY OwnersPass DEF Takes
  <1>3. ActorsTyped'
    BY OthersStay DEF SourceInv, ActorsTyped
  <1> QED BY <1>1, <1>2, <1>3 DEF SourceInv

(* The statements that only read, or write what no property looks at.       *)
OnlyReads == UNCHANGED <<connVars, item, import, members, remote>>

LEMMA ReadsStay ==
    ASSUME Tables, OnlyReads
    PROVE  RowsStay
  BY DEF OnlyReads, RowsStay, connVars, ReviewedImport

LEMMA ReadsKeep ==
    ASSUME Tables, OnlyReads, UNCHANGED <<acquire, extract>>
    PROVE  Tables'
  <1> USE DEF OnlyReads, Tables, connVars
  <1>1. ConnInv'
    BY DEF ConnInv, ConnTypeOK, CallbacksKnown, StateUsedOnce, SealedForOwner
  <1>2. RowsTyped'
    BY DEF RowsTyped
  <1>3. FilesKnown' /\ JobsKnown' /\ LastKnown'
    BY DEF FilesKnown, JobsKnown, LastKnown, Known
  <1>4. SourcesKnown' /\ LineageIsLinear' /\ CandidatesKnown'
    BY DEF SourcesKnown, LineageIsLinear, CandidatesKnown, ReviewedImport
  <1> QED BY <1>1, <1>2, <1>3, <1>4

(* A job is added or taken. *)
LEMMA JobsKeep ==
    ASSUME Tables, OnlyReads,
           acquire' \in [Items -> Nat], extract' \in [Items -> Nat],
           \A i \in Items : acquire'[i] > 0 => Known(i)
    PROVE  Tables'
  <1> USE DEF OnlyReads, Tables, connVars
  <1>1. ConnInv'
    BY DEF ConnInv, ConnTypeOK, CallbacksKnown, StateUsedOnce, SealedForOwner
  <1>2. RowsTyped'
    BY DEF RowsTyped
  <1>3. FilesKnown' /\ JobsKnown' /\ LastKnown'
    BY DEF FilesKnown, JobsKnown, LastKnown, Known
  <1>4. SourcesKnown' /\ LineageIsLinear' /\ CandidatesKnown'
    BY DEF SourcesKnown, LineageIsLinear, CandidatesKnown, ReviewedImport
  <1> QED BY <1>1, <1>2, <1>3, <1>4

(* An item that is there is written. *)
LEMMA ItemsKeep ==
    ASSUME Tables, UNCHANGED <<connVars, import, members, remote, acquire, extract>>,
           NEW i \in Items, NEW row \in ItemRows, row # None, Known(i),
           item' = [j \in Items |-> item'[j]],
           \A j \in Items : item'[j] = IF j = i THEN row ELSE item[j],
           row.status = "review_required" => ReviewedImport(i)
    PROVE  Tables'
  <1> USE DEF Tables, connVars
  <1>1. ConnInv'
    BY DEF ConnInv, ConnTypeOK, CallbacksKnown, StateUsedOnce, SealedForOwner
  <1>2. RowsTyped'
    BY DEF RowsTyped
  <1>3. FilesKnown' /\ JobsKnown' /\ LastKnown'
    BY DEF FilesKnown, JobsKnown, LastKnown, Known
  <1>4. SourcesKnown' /\ LineageIsLinear'
    BY DEF SourcesKnown, LineageIsLinear
  <1>5. CandidatesKnown'
    BY DEF CandidatesKnown, ReviewedImport
  <1> QED BY <1>1, <1>2, <1>3, <1>4, <1>5

(* Who goes on with what he had passes every item.                          *)
LEMMA SamePass ==
    ASSUME SourceInv, NEW a \in Actors, NEW y, NEW i \in Items,
           import'[i] = import[i], acquire'[i] = acquire[i], extract'[i] = extract[i],
           Before(a, y, i) => Before(a, at[a], i),
           Holds(y, i) => /\ Holds(at[a], i)
                          /\ StatusAt(Core(y).step) = StatusAt(Core(at[a]).step)
    PROVE  Passes(a, y, i)
  <1>1. OneOwner(i) /\ OwnedStatus(i)
    BY DEF SourceInv, Owners
  <1>2. acquire[i] \in Nat /\ extract[i] \in Nat
    BY DEF SourceInv, Tables, RowsTyped
  <1>3. Owns(a, y, i) => Owns(a, at[a], i)
    BY DEF Owns
  <1>4. Owns(a, y, i) => acquire'[i] + extract'[i] = 0
    BY <1>1, <1>3 DEF OneOwner
  <1>5. /\ Before(a, y, i) => import'[i] = None
        /\ Holds(y, i) => import'[i] # None /\ import'[i].status = StatusAt(Core(y).step)
    BY <1>1 DEF OwnedStatus
  <1>6. /\ acquire'[i] > 0 => import'[i] = None
        /\ extract'[i] > 0 => import'[i] # None /\ import'[i].status = "queued"
    BY <1>1 DEF OwnedStatus
  <1>7. \/ Owns(a, at[a], i)
        \/ /\ ~Owns(a, y, i) /\ import'[i] = import[i]
           /\ acquire'[i] = acquire[i] /\ extract'[i] = extract[i]
    BY <1>3
  <1>8. acquire'[i] + extract'[i] \in {0, 1}
    BY <1>1 DEF OneOwner
  <1> QED BY <1>2, <1>4, <1>5, <1>6, <1>7, <1>8 DEF Passes

(* Where an actor has nothing in hand. *)
Resting(y) ==
    \/ y = Free
    \/ \E b \in Batches \cup {None} : y = [batch |-> b, step |-> "stopped"]
    \/ \E b \in Batches : y = [batch |-> b, step |-> "recompute"]

LEMMA RestingForm ==
    ASSUME NEW y, Resting(y), NEW a
    PROVE  /\ WorkerForm(y) /\ RequestForm(y)
           /\ Core(y) = y /\ y.step \in {"free", "stopped", "recompute"}
           /\ \A i : ~Owns(a, y, i)
  <1>1. y \in Idle /\ y # New /\ y.step \in {"free", "stopped", "recompute"}
    BY DEF Resting, Idle, Free, New
  <1>2. Core(y) = y
    BY <1>1 DEF Core
  <1>3. \A i : ~Owns(a, y, i)
    BY <1>1, <1>2 DEF Owns, Before, Holds, Ahead, Acquiring, Keeping
  <1> QED BY <1>1, <1>2, <1>3 DEF WorkerForm, RequestForm

LEMMA RestingTakes ==
    ASSUME SourceInv, NEW a \in Actors, NEW y, Goto(a, y), Resting(y),
           \A i \in Items : import'[i] = import[i] /\ acquire'[i] = acquire[i]
                            /\ extract'[i] = extract[i]
    PROVE  Takes(a, y)
  <1>1. at'[a] = y
    BY OthersStay DEF SourceInv
  <1>2. /\ WorkerForm(y) /\ RequestForm(y)
        /\ Core(y) = y /\ y.step \in {"free", "stopped", "recompute"}
        /\ \A i : ~Owns(a, y, i)
    BY RestingForm
  <1>3. \A i \in Items : Passes(a, y, i)
    BY <1>2, SamePass DEF Owns
  <1>4. Knows(a)'
    BY <1>1, <1>2 DEF Knows, Core
  <1>5. KnowsWorker(a)'
    BY <1>1, <1>2 DEF KnowsWorker, Core, Acquiring
  <1>6. KnowsRequest(a)'
    BY <1>1, <1>2 DEF KnowsRequest, Core
  <1> QED BY <1>2, <1>3, <1>4, <1>5, <1>6 DEF Takes

LEMMA RestKeeps ==
    ASSUME SourceInv, NEW a \in Actors, NEW y, Goto(a, y), Resting(y),
           OnlyReads, UNCHANGED <<acquire, extract>>
    PROVE  SourceInv'
  <1>1. Tables' /\ RowsStay
    BY ReadsKeep, ReadsStay DEF SourceInv
  <1>2. Takes(a, y)
    BY RestingTakes DEF OnlyReads
  <1> QED BY <1>1, <1>2, StepKeeps

(* Setting an item: what is written, and what follows. *)
LEMMA WorkerSettings ==
    ASSUME NEW x, WorkerForm(x), x.step \in {"set", "write"},
           NEW z \in {x.then, x.else, [x EXCEPT !.step = "write"]}
    PROVE  /\ WorkerForm(z) /\ Core(z).step \in {"free", "recompute", "extract"}
           /\ Core(z).step = "extract" =>
                  /\ Core(x).step = "extract" /\ Core(x).item = x.item
                  /\ Core(z).item = x.item
           /\ z.step \in {"set", "write"} =>
                  z.item = x.item /\ (z.to = "review_required" => x.to = "review_required")
  <1> DEFINE i == x.item
  <1>1. i \in Items /\ x \in Closing(i) \cup Processing(i) \cup Queueing(i)
    BY WorkerShape
  <1>2. ASSUME NEW v, v = Free \/ v = Recomputing(i)
        PROVE  WorkerForm(v) /\ Core(v) = v /\ v.step \in {"free", "recompute"}
    BY <1>1, <1>2, RestingForm, ItemBatch DEF Resting, Recomputing, Free
  <1>3. CASE x \in Closing(i)
    <2>1. CASE z = x.then \/ z = x.else
      <3>1. z = Free \/ z = Recomputing(i)
        BY <1>3, <2>1 DEF Closing, Sets
      <3> QED BY <1>2, <3>1
    <2>2. CASE z = [x EXCEPT !.step = "write"]
      <3>1. z \in Closing(i) /\ z.then = Recomputing(i) /\ z.step = "write" /\ z.item = i /\ z.to = x.to
        BY <1>3, <2>2 DEF Closing, Sets
      <3>2. Core(z) = Recomputing(i)
        BY <3>1 DEF Core, Recomputing
      <3>3. Core(z).step = "recompute"
        BY <3>2 DEF Recomputing
      <3> QED BY <1>1, <3>1, <3>3 DEF WorkerForm
    <2> QED BY <2>1, <2>2
  <1>4. ASSUME NEW v \in Extraction(i, {"extract"})
        PROVE  WorkerForm(v) /\ Core(v) = v /\ v.step = "extract" /\ v.item = i
    <2>1. v \in Extraction(i, {"extract", "finish"}) /\ v.step = "extract" /\ v.item = i
      BY DEF Extraction
    <2>2. Core(v) = v
      BY <2>1 DEF Core
    <2> QED BY <1>1, <2>1, <2>2 DEF WorkerForm
  <1>5. ASSUME NEW v \in Processing(i)
        PROVE  /\ WorkerForm(v) /\ v.step \in {"set", "write"} /\ v.item = i
               /\ v.to = "processing" /\ v.then \in Extraction(i, {"extract"})
               /\ v.else \in Extraction(i, {"extract"}) \cup {Free}
               /\ Core(v).step = "extract" /\ Core(v).item = i
    <2>1. /\ v.step \in {"set", "write"} /\ v.item = i /\ v.to = "processing"
          /\ v.then \in Extraction(i, {"extract"})
          /\ v.else \in Extraction(i, {"extract"}) \cup {Free}
      BY DEF Processing, Sets
    <2>2. Core(v) = v.then
      BY <1>4, <2>1 DEF Core
    <2> QED BY <1>1, <1>4, <2>1, <2>2 DEF WorkerForm
  <1>6. CASE x \in Processing(i)
    <2>1. CASE z = x.then \/ z = x.else
      BY <1>2, <1>4, <1>5, <1>6, <2>1 DEF Free
    <2>2. CASE z = [x EXCEPT !.step = "write"]
      <3>1. z \in Processing(i)
        BY <1>6, <2>2 DEF Processing, Sets
      <3> QED BY <1>5, <1>6, <3>1
    <2> QED BY <2>1, <2>2
  <1>7. CASE x \in Queueing(i)
    <2>1. /\ x.then \in Processing(i) /\ x.then.step = "set" /\ x.else = Free
      BY <1>7 DEF Queueing, Sets
    <2>2. Core(x) = x.then.then /\ Core(x).step = "extract" /\ Core(x).item = i
      BY <1>4, <1>5, <2>1 DEF Core
    <2>3. CASE z = x.then \/ z = x.else
      BY <1>2, <1>5, <2>1, <2>2, <2>3 DEF Free
    <2>4. CASE z = [x EXCEPT !.step = "write"]
      <3>1. z \in Queueing(i) /\ z.step = "write" /\ z.item = i /\ z.to = "queued" /\ z.then = x.then
        BY <1>7, <2>4 DEF Queueing, Sets
      <3>2. Core(z) = x.then.then
        BY <2>1, <3>1 DEF Core
      <3> QED BY <1>1, <2>2, <3>1, <3>2 DEF WorkerForm
    <2> QED BY <2>3, <2>4
  <1> QED BY <1>1, <1>3, <1>6, <1>7

LEMMA RequestSettings ==
    ASSUME NEW x, RequestForm(x), x.step \in {"set", "write"},
           NEW z \in {x.then, x.else, [x EXCEPT !.step = "write"]}
    PROVE  /\ RequestForm(z) /\ Core(z) = x.then /\ Core(x) = x.then
           /\ Core(z).step \in {"enqueue", "next", "job"}
           /\ Core(z).step = "job" => Core(z).item = x.item
           /\ z.step \in {"set", "write", "enqueue", "next", "job"}
           /\ z.step \in {"set", "write"} => z.item = x.item /\ z.to = x.to
           /\ x.to # "review_required"
  <1> DEFINE i == x.item
  <1>1. i \in Items /\ x.then = x.else /\ x \in QueueingUpload(i) \cup FailingUpload(i)
    BY RequestShape
  <1>2. Core(x) = x.then /\ x.then.step \in {"enqueue", "next", "job"}
        /\ (x.then.step = "job" => x.then.item = i)
    BY RequestCore
  <1>3. RequestForm(x.then)
    <2>1. CASE x \in QueueingUpload(i)
      <3>1. x.then \in Upload(i, {"job"})
        BY <2>1 DEF QueueingUpload, Sets
      <3>2. x.then \in Upload(i, {"create", "store", "member", "queue", "job"})
        BY <3>1 DEF Upload
      <3> QED BY <1>1, <3>2 DEF RequestForm
    <2>2. CASE x \in FailingUpload(i)
      <3>1. x.then \in [rest : Lists, step : {"subscribe", "insert", "enqueue", "next"}]
        BY <2>2 DEF FailingUpload, Sets
      <3> QED BY <3>1 DEF RequestForm
    <2> QED BY <1>1, <2>1, <2>2
  <1>4. x.to # "review_required"
    BY <1>1 DEF QueueingUpload, FailingUpload, Sets
  <1>5. CASE z = x.then
    <2>1. Core(z) = x.then
      BY <1>2, <1>5 DEF Core
    <2> QED BY <1>2, <1>3, <1>4, <1>5, <2>1
  <1>6. CASE z = [x EXCEPT !.step = "write"]
    <2>1. /\ z \in QueueingUpload(i) \cup FailingUpload(i) /\ z.then = z.else
          /\ z.then = x.then /\ z.step = "write" /\ z.item = i /\ z.to = x.to
      BY <1>1, <1>6 DEF QueueingUpload, FailingUpload, Sets
    <2>2. Core(z) = x.then
      BY <1>2, <2>1 DEF Core
    <2> QED BY <1>1, <1>2, <1>4, <2>1, <2>2 DEF RequestForm
  <1> QED BY <1>1, <1>5, <1>6

LEMMA SettingTakes ==
    ASSUME SourceInv, NEW a \in Actors, at[a].step \in {"set", "write"},
           NEW z \in {at[a].then, at[a].else, [at[a] EXCEPT !.step = "write"]}, Goto(a, z),
           RowsStay,
           \A i \in Items : import'[i] = import[i] /\ acquire'[i] = acquire[i]
                            /\ extract'[i] = extract[i]
    PROVE  Takes(a, z)
  <1> DEFINE x == at[a]
  <1>1. at'[a] = z /\ Knows(a)
    BY OthersStay DEF SourceInv, Knowledge
  <1>2. ASSUME a \in Workers PROVE Takes(a, z)
    <2>1. WorkerForm(x) /\ a \notin Batches
      BY <1>2, IngestionAssumption DEF SourceInv, Forms
    <2>2. x.item \in Items /\ Known(x.item)
          /\ (x.to = "review_required" => ReviewedImport(x.item))
      BY <1>1, <2>1, WorkerShape DEF Knows
    <2>3. /\ WorkerForm(z) /\ Core(z).step \in {"free", "recompute", "extract"}
          /\ Core(z).step = "extract" =>
                  Core(x).step = "extract" /\ Core(x).item = x.item /\ Core(z).item = x.item
          /\ z.step \in {"set", "write"} =>
                  z.item = x.item /\ (z.to = "review_required" => x.to = "review_required")
      BY ZenonT(30), <2>1, WorkerSettings
    <2>4. ASSUME NEW i \in Items PROVE Passes(a, z, i)
      <3>1. ~Before(a, z, i)
        BY <2>1, <2>3 DEF Before, Ahead, Acquiring
      <3>2. Holds(z, i) => Holds(x, i) /\ Core(z).step = Core(x).step
        BY <2>3 DEF Holds, Keeping
      <3> QED BY <3>1, <3>2, SamePass
    <2>5. Knows(a)'
      <3>1. PICK i : i = x.item
        OBVIOUS
      <3>2. item'[i] # None /\ (x.to = "review_required" => ReviewedImport(i)')
        BY <2>2, <3>1 DEF RowsStay, Known
      <3>3. z.step \in {"set", "write"} =>
                /\ at'[a].item = i
                /\ at'[a].to = "review_required" => x.to = "review_required"
        BY <1>1, <2>3, <3>1
      <3>4. /\ Core(z)' = Core(z)
            /\ Core(z).step \notin {"reserve", "create", "finish"}
            /\ Core(z).step = "extract" => Core(z).item = i
        BY <2>3, <3>1 DEF Core
      <3> QED BY <1>1, <3>2, <3>3, <3>4 DEF Knows, Known, Core, ReviewedImport
    <2>6. KnowsWorker(a)'
      BY <1>1, <2>3 DEF KnowsWorker, Core, Acquiring
    <2> QED BY <2>1, <2>3, <2>4, <2>5, <2>6 DEF Takes
  <1>3. ASSUME a \in Batches PROVE Takes(a, z)
    <2>1. RequestForm(x) /\ a \notin Workers /\ KnowsRequest(a)
      BY <1>3, IngestionAssumption DEF SourceInv, Forms, Knowledge
    <2>2. x.item \in Items /\ Known(x.item)
      BY <1>1, <2>1, RequestShape DEF Knows
    <2>3. /\ RequestForm(z) /\ Core(z) = Core(x)
          /\ Core(z).step \in {"enqueue", "next", "job"}
          /\ Core(z).step = "job" => Core(z).item = x.item
          /\ z.step \in {"set", "write", "enqueue", "next", "job"}
          /\ z.step \in {"set", "write"} => z.item = x.item /\ z.to # "review_required"
      <3>1. /\ RequestForm(z) /\ Core(z) = x.then /\ Core(x) = x.then
            /\ Core(z).step \in {"enqueue", "next", "job"}
            /\ Core(z).step = "job" => Core(z).item = x.item
            /\ z.step \in {"set", "write", "enqueue", "next", "job"}
            /\ z.step \in {"set", "write"} => z.item = x.item /\ z.to = x.to
            /\ x.to # "review_required"
        BY <2>1, RequestSettings
      <3> QED BY <3>1
    <2>4. ASSUME NEW i \in Items PROVE Passes(a, z, i)
      <3>1. Before(a, z, i) => Before(a, x, i)
        BY <1>3, <2>3 DEF Before, Ahead
      <3>2. Holds(z, i) => Holds(x, i) /\ Core(z).step = Core(x).step
        BY <2>3 DEF Holds, Keeping
      <3> QED BY <3>1, <3>2, SamePass
    <2>5. item'[x.item] # None
      BY <2>2 DEF RowsStay, Known
    <2>6. Knows(a)'
      BY <1>1, <2>3, <2>5 DEF Knows, Core, Known
    <2>7. KnowsRequest(a)'
      <3>1. Core(x).rest \in Lists /\ \A i \in Left(Core(x).rest) : item[i] # None
        BY <2>1, <2>3, RequestCore DEF KnowsRequest, Known
      <3>2. \A i \in Left(Core(x).rest) : item'[i] # None
        BY <3>1, LeftItems DEF RowsStay
      <3>3. Core(x).step \in {"enqueue", "next"} => Kind[a] # "revise"
        BY <2>1 DEF KnowsRequest
      <3> QED BY <1>1, <2>3, <2>5, <3>2, <3>3 DEF KnowsRequest, Core, Known
    <2> QED BY <2>1, <2>3, <2>4, <2>6, <2>7 DEF Takes
  <1> QED BY <1>2, <1>3 DEF Actors

LEMMA ReadItemKeeps ==
    ASSUME SourceInv, NEW a \in Actors, ReadItem(a)
    PROVE  SourceInv'
  <1>1. PICK z \in {at[a].then, at[a].else, [at[a] EXCEPT !.step = "write"]} : Goto(a, z)
    BY DEF ReadItem
  <1>2. Tables' /\ RowsStay
    BY ReadsKeep, ReadsStay DEF SourceInv, ReadItem, OnlyReads
  <1>3. Takes(a, z)
    BY <1>1, <1>2, SettingTakes DEF ReadItem, At
  <1> QED BY <1>1, <1>2, <1>3, StepKeeps

LEMMA WriteItemKeeps ==
    ASSUME SourceInv, NEW a \in Actors, WriteItem(a)
    PROVE  SourceInv'
  <1> DEFINE x == at[a]
  <1>1. PICK i : i = x.item
    OBVIOUS
  <1>2. /\ x.step = "write" /\ Goto(a, x.then)
        /\ UNCHANGED <<connVars, import, members, remote, acquire, extract>>
        /\ Tables
    BY DEF WriteItem, At, SourceInv
  <1>3. /\ i \in Items /\ x.to \in ItemStatuses /\ x.import \in Items \cup {None}
        /\ Known(i) /\ (x.to = "review_required" => ReviewedImport(i))
    <2>1. Known(i) /\ (x.to = "review_required" => ReviewedImport(i))
      BY <1>1, <1>2 DEF SourceInv, Knowledge, Knows
    <2>2. CASE a \in Workers
      <3>1. i \in Items /\ x \in Closing(i) \cup Processing(i) \cup Queueing(i)
        BY <1>1, <1>2, <2>2, WorkerShape DEF SourceInv, Forms
      <3>2. x.to \in ItemStatuses /\ x.import \in Items \cup {None}
        BY <3>1 DEF Closing, Processing, Queueing, Sets, ItemStatuses
      <3> QED BY <2>1, <3>1, <3>2
    <2>3. CASE a \in Batches
      <3>1. i \in Items /\ x \in QueueingUpload(i) \cup FailingUpload(i)
        BY <1>1, <1>2, <2>3, RequestShape DEF SourceInv, Forms
      <3>2. x.to \in ItemStatuses /\ x.import \in Items \cup {None}
        BY <3>1 DEF QueueingUpload, FailingUpload, Sets, ItemStatuses, Ended
      <3> QED BY <2>1, <3>1, <3>2
    <2> QED BY <2>2, <2>3 DEF Actors
  <1>4. PICK row : row = [import |-> IF x.import = None THEN item[i].import ELSE x.import,
                          status |-> x.to]
    OBVIOUS
  <1>5. item' = [item EXCEPT ![i] = row]
    BY <1>1, <1>4 DEF WriteItem
  <1>6. row \in ItemRows /\ row # None /\ row.status = x.to
    <2>1. item[i] \in ItemRows
      BY <1>2, <1>3 DEF Tables, RowsTyped, Known
    <2>2. row \in ItemRows
      BY <1>3, <1>4, <2>1 DEF ItemRows
    <2> QED BY <1>4, <2>2, IngestionAssumption
  <1>7. /\ item' = [j \in Items |-> item'[j]]
        /\ \A j \in Items : item'[j] = IF j = i THEN row ELSE item[j]
    BY <1>2, <1>5 DEF Tables, RowsTyped
  <1>8. RowsStay
    BY <1>2, <1>6, <1>7 DEF RowsStay, ReviewedImport, connVars
  <1>9. Tables'
    BY <1>2, <1>3, <1>6, <1>7, ItemsKeep
  <1>10. Takes(a, x.then)
    BY <1>2, <1>8, SettingTakes
  <1> QED BY <1>2, <1>8, <1>9, <1>10, StepKeeps

-----------------------------------------------------------------------------
(* Connections and subscriptions *)

(* A connection and its subscriptions are written; imports and items stay.  *)
LEMMA ConnectionsKeep ==
    ASSUME Tables, ConnInv', UNCHANGED <<item, import, members, remote, acquire, extract>>,
           conn # None => conn' # None,
           sub' = [f \in Files |-> sub'[f]],
           \A f \in Files :
               /\ sub'[f] \in SubscriptionRows \cup {None}
               /\ sub[f] # None => sub'[f] # None
               /\ sub'[f] # None /\ sub'[f].last # None => import[sub'[f].last] # None
    PROVE  Tables' /\ RowsStay
  <1> USE DEF Tables
  <1>1. RowsTyped'
    BY DEF RowsTyped
  <1>2. FilesKnown'
    BY IngestionAssumption DEF FilesKnown
  <1>3. JobsKnown' /\ LastKnown' /\ SourcesKnown' /\ LineageIsLinear' /\ CandidatesKnown'
    BY DEF JobsKnown, LastKnown, Known, SourcesKnown, LineageIsLinear, CandidatesKnown, ReviewedImport
  <1>4. RowsStay
    BY DEF RowsStay, ReviewedImport
  <1> QED BY <1>1, <1>2, <1>3, <1>4

LEMMA SubscriptionsTyped ==
    ASSUME Tables
    PROVE  /\ sub = [f \in Files |-> sub[f]]
           /\ \A f \in Files :
               /\ sub[f] \in SubscriptionRows \cup {None}
               /\ sub[f] # None /\ sub[f].last # None => import[sub[f].last] # None
  BY DEF Tables, RowsTyped, LastKnown

(* Nobody at a handler moves. *)
LEMMA PeopleKeep ==
    ASSUME SourceInv, RowsStay, Tables', Owners', UNCHANGED at
    PROVE  SourceInv'
  <1>1. \A c \in Actors : /\ Knows(c)'
                          /\ c \in Workers => KnowsWorker(c)'
                          /\ c \in Batches => KnowsRequest(c)'
    BY OthersKnow
  <1>2. Knowledge'
    BY <1>1 DEF Knowledge, Actors
  <1>3. Forms' /\ ActorsTyped'
    BY SMTT(30) DEF SourceInv, Forms, WorkerForm, RequestForm, ActorsTyped
  <1> QED BY <1>2, <1>3 DEF SourceInv

LEMMA OwnersStay ==
    ASSUME Owners, UNCHANGED <<at, import, acquire, extract>>
    PROVE  Owners'
  BY DEF Owners, OneOwner, OwnedStatus, Owns, Before, Holds, Ahead, Core

LEMMA AuthorizeKeeps ==
    ASSUME ConnInv, NEW s \in OAuthStates, Authorize(s)
    PROVE  ConnInv' /\ UNCHANGED <<conn, sub>>
  <1> USE DEF ConnInv
  <1>1. oauth[s] = "none" /\ oauth' = [oauth EXCEPT ![s] = "open"]
        /\ UNCHANGED <<callback, conn, sub>>
    BY DEF Authorize
  <1>2. ConnTypeOK'
    BY <1>1 DEF ConnTypeOK
  <1>3. CallbacksKnown'
    BY <1>1 DEF CallbacksKnown, ConnTypeOK
  <1>4. StateUsedOnce' /\ SealedForOwner'
    BY <1>1 DEF StateUsedOnce, SealedForOwner
  <1> QED BY <1>1, <1>2, <1>3, <1>4

LEMMA ConsumeStateKeeps ==
    ASSUME ConnInv, NEW k \in Callbacks, NEW s \in OAuthStates, ConsumeState(k, s)
    PROVE  ConnInv' /\ UNCHANGED <<conn, sub>>
  <1> USE DEF ConnInv
  <1>1. /\ callback[k].step = "new" /\ oauth[s] = "open"
        /\ oauth' = [oauth EXCEPT ![s] = "used"]
        /\ callback' = [callback EXCEPT ![k] =
               [step |-> "exchange", state |-> s, id |-> None]]
        /\ UNCHANGED <<conn, sub>>
    BY DEF ConsumeState, Consumable
  <1>2. ConnTypeOK'
    BY <1>1 DEF ConnTypeOK
  <1>3. \A j \in Callbacks : callback[j].state # s
    BY <1>1, ConnectionAssumption DEF CallbacksKnown
  <1>4. /\ callback'[k].state = s /\ callback'[k].step = "exchange"
        /\ \A j \in Callbacks : j # k => callback'[j] = callback[j]
        /\ oauth'[s] = "used" /\ \A t \in OAuthStates : t # s => oauth'[t] = oauth[t]
    BY <1>1 DEF ConnTypeOK
  <1>5. CallbacksKnown'
    <2>1. \A j \in Callbacks : callback[j].state \in OAuthStates \cup {None}
      BY DEF ConnTypeOK
    <2> QED BY <1>3, <1>4, <2>1 DEF CallbacksKnown
  <1>6. StateUsedOnce' /\ SealedForOwner'
    BY <1>1, <1>3, <1>4 DEF StateUsedOnce, SealedForOwner
  <1> QED BY <1>1, <1>2, <1>5, <1>6

LEMMA CallbackFailsKeeps ==
    ASSUME ConnInv, NEW k \in Callbacks, CallbackFails(k)
    PROVE  ConnInv' /\ UNCHANGED <<conn, sub>>
  <1> USE DEF ConnInv
  <1>1. /\ callback' = [callback EXCEPT ![k].step = "done"]
        /\ UNCHANGED <<oauth, conn, sub>>
    BY DEF CallbackFails
  <1>2. ConnTypeOK'
    BY <1>1 DEF ConnTypeOK
  <1>3. /\ callback'[k].state = callback[k].state /\ callback'[k].step = "done"
        /\ \A j \in Callbacks : j # k => callback'[j] = callback[j]
    BY <1>1 DEF ConnTypeOK
  <1>4. CallbacksKnown'
    BY <1>1, <1>3 DEF CallbacksKnown
  <1>5. StateUsedOnce'
    BY <1>1, <1>3 DEF StateUsedOnce
  <1>6. SealedForOwner'
    BY <1>1 DEF SealedForOwner
  <1> QED BY <1>1, <1>2, <1>4, <1>5, <1>6

LEMMA ChooseConnectionKeeps ==
    ASSUME ConnInv, NEW k \in Callbacks, NEW c \in ConnectionIds, ChooseConnection(k, c)
    PROVE  ConnInv' /\ UNCHANGED <<conn, sub>>
  <1> USE DEF ConnInv
  <1>1. /\ callback' = [callback EXCEPT ![k].step = "save", ![k].id = c]
        /\ UNCHANGED <<oauth, conn, sub>>
    BY DEF ChooseConnection
  <1>2. ConnTypeOK'
    BY ZenonT(30), <1>1 DEF ConnTypeOK
  <1>3. /\ callback'[k].state = callback[k].state /\ callback'[k].step = "save"
        /\ callback'[k].id = c
        /\ \A j \in Callbacks : j # k => callback'[j] = callback[j]
    BY <1>1 DEF ConnTypeOK
  <1>4. CallbacksKnown'
    <2>1. \A j \in Callbacks :
              /\ callback'[j].state = callback[j].state
              /\ callback'[j].step = "new" => callback[j].step = "new"
              /\ callback'[j].step = "save" => callback'[j].id = c \/ callback'[j] = callback[j]
      BY <1>3
    <2>2. c # None /\ oauth' = oauth
      BY <1>1, ConnectionAssumption
    <2> QED BY <2>1, <2>2 DEF CallbacksKnown
  <1>5. StateUsedOnce'
    <2>1. \A j \in Callbacks : callback'[j].state = callback[j].state
      BY <1>3
    <2> QED BY <2>1 DEF StateUsedOnce
  <1>6. SealedForOwner'
    BY <1>1 DEF SealedForOwner
  <1> QED BY <1>1, <1>2, <1>4, <1>5, <1>6

LEMMA SaveConnectionKeeps ==
    ASSUME ConnInv, NEW k \in Callbacks, SaveConnection(k)
    PROVE  ConnInv' /\ (conn # None => conn' # None) /\ UNCHANGED sub
  <1> USE DEF ConnInv
  <1>1. PICK c : c = callback[k].id
    OBVIOUS
  <1>2. /\ callback[k].step = "save"
        /\ callback' = [callback EXCEPT ![k].step = "done"]
        /\ UNCHANGED <<oauth, sub>>
    BY DEF SaveConnection
  <1>3. c \in ConnectionIds
    BY <1>1, <1>2 DEF CallbacksKnown, ConnTypeOK
  <1>4. /\ callback'[k].state = callback[k].state /\ callback'[k].step = "done"
        /\ \A j \in Callbacks : j # k => callback'[j] = callback[j]
        /\ callback' \in [Callbacks ->
               [step : {"new", "exchange", "save", "done"},
                state : OAuthStates \cup {None}, id : ConnectionIds \cup {None}]]
    BY <1>2 DEF ConnTypeOK
  <1>5. CallbacksKnown' /\ StateUsedOnce'
    BY <1>2, <1>4 DEF CallbacksKnown, StateUsedOnce
  <1>6. \/ UNCHANGED conn
        \/ /\ conn' = [credential |-> c, id |-> c, status |-> "active"]
           /\ conn' \in Connections
    BY <1>1, <1>3 DEF SaveConnection, SameConnection, Connections
  <1>7. conn' # None => conn' \in Connections /\ (conn'.status = "active" => conn'.credential # None)
    BY <1>3, <1>6, ConnectionAssumption DEF ConnTypeOK
  <1>8. ConnTypeOK'
    BY <1>2, <1>4, <1>7 DEF ConnTypeOK
  <1>9. SealedForOwner' /\ (conn # None => conn' # None)
    BY <1>6, ConnectionAssumption DEF SealedForOwner
  <1> QED BY <1>2, <1>5, <1>8, <1>9

LEMMA DisconnectKeeps ==
    ASSUME Tables, Disconnect
    PROVE  /\ ConnInv' /\ conn' # None
           /\ sub' = [f \in Files |-> sub'[f]]
           /\ \A f \in Files :
               /\ sub'[f] \in SubscriptionRows \cup {None}
               /\ sub[f] # None => sub'[f] # None
               /\ sub'[f] # None /\ sub'[f].last # None => import[sub'[f].last] # None
  <1>1. /\ conn # None /\ conn' = Disconnected(conn) /\ UNCHANGED <<oauth, callback>>
        /\ sub' = [f \in Files |->
              IF sub[f] = None THEN None ELSE [sub[f] EXCEPT !.status = "disconnected"]]
    BY DEF Disconnect
  <1>2. conn \in Connections /\ ConnInv
    BY <1>1 DEF Tables, ConnInv, ConnTypeOK
  <1>3. /\ conn' \in Connections /\ conn'.credential = None /\ conn'.status = "disconnected"
    BY <1>1, <1>2 DEF Disconnected, Connections
  <1>4. ConnInv' /\ conn' # None
    BY <1>1, <1>2, <1>3, ConnectionAssumption
       DEF ConnInv, ConnTypeOK, CallbacksKnown, StateUsedOnce, SealedForOwner
  <1>5. ASSUME NEW f \in Files
        PROVE  /\ sub'[f] \in SubscriptionRows \cup {None}
               /\ sub[f] # None => sub'[f] # None
               /\ sub'[f] # None /\ sub'[f].last # None => import[sub'[f].last] # None
    <2>1. CASE sub[f] = None
      BY <1>1, <2>1
    <2>2. CASE sub[f] # None
      <3>1. sub[f] \in SubscriptionRows
        BY <2>2, SubscriptionsTyped
      <3>2. sub'[f] = [sub[f] EXCEPT !.status = "disconnected"]
        BY <1>1, <2>2
      <3>3. sub'[f] \in SubscriptionRows /\ sub'[f].last = sub[f].last
        BY <3>1, <3>2 DEF SubscriptionRows
      <3> QED BY <2>2, <3>3, SubscriptionsTyped, IngestionAssumption
    <2> QED BY <2>1, <2>2
  <1>6. sub' = [f \in Files |-> sub'[f]]
    BY <1>1
  <1> QED BY <1>4, <1>5, <1>6

LEMMA ConnNextKeeps ==
    ASSUME SourceInv, ConnNext, UNCHANGED ingestVars
    PROVE  SourceInv'
  <1>1. Tables /\ ConnInv /\ UNCHANGED <<item, import, members, remote, acquire, extract, at>>
    BY DEF SourceInv, Tables, ingestVars
  <1>2. CASE Disconnect
    BY <1>1, <1>2, DisconnectKeeps, ConnectionsKeep, OwnersStay, PeopleKeep DEF SourceInv
  <1>3. CASE ~Disconnect
    <2>1. ConnInv' /\ (conn # None => conn' # None) /\ UNCHANGED sub
      BY <1>1, <1>3, AuthorizeKeeps, ConsumeStateKeeps, CallbackFailsKeeps,
         ChooseConnectionKeeps, SaveConnectionKeeps DEF ConnNext
    <2>2. Tables' /\ RowsStay
      BY <1>1, <2>1, ConnectionsKeep, SubscriptionsTyped
    <2> QED BY <1>1, <2>2, OwnersStay, PeopleKeep DEF SourceInv
  <1> QED BY <1>2, <1>3

-----------------------------------------------------------------------------
(* Workers that go on *)

LEMMA ReadStep ==
    ASSUME SourceInv, NEW a \in Actors, NEW y, Goto(a, y),
           OnlyReads, UNCHANGED <<acquire, extract>>, Takes(a, y)
    PROVE  SourceInv'
  <1>1. Tables' /\ RowsStay
    BY ReadsKeep, ReadsStay DEF SourceInv
  <1> QED BY <1>1, StepKeeps

LEMMA RecomputeKeeps ==
    ASSUME SourceInv, NEW a \in Actors, Recompute(a)
    PROVE  SourceInv'
  <1>1. Goto(a, Free) /\ Resting(Free) /\ OnlyReads /\ UNCHANGED <<acquire, extract>>
    BY DEF Recompute, Resting, OnlyReads
  <1> QED BY <1>1, RestKeeps

(* What a worker that is busy works on is of a batch. *)
LEMMA BatchWorkedOn ==
    ASSUME SourceInv, NEW w \in Workers, at[w].step \notin {"free", "stopped"}
    PROVE  /\ at[w].step = "recompute" => at[w].batch \in Batches
           /\ at[w].step # "recompute" => at[w].item \in Items /\ BatchOf[at[w].item] \in Batches
  <1>1. WorkerForm(at[w])
    BY DEF SourceInv, Forms
  <1>2. at[w].step # "recompute" => at[w].item \in Items
    BY <1>1, WorkerShape DEF Acquiring
  <1>3. CASE at[w].step = "recompute"
    <2>1. at[w] \in Idle
      BY <1>1, <1>3 DEF WorkerForm, Acquisition, Extraction, Closing, Processing, Queueing, Sets
    <2> QED BY <1>3, <2>1 DEF Idle, New, Free
  <1> QED BY <1>2, <1>3, ItemBatch

LEMMA StopKeeps ==
    ASSUME SourceInv, NEW w \in Workers, Stop(w)
    PROVE  SourceInv'
  <1>1. PICK b : b = IF At(w, "recompute") THEN at[w].batch ELSE BatchOf[at[w].item]
    OBVIOUS
  <1>2. /\ Goto(w, [batch |-> b, step |-> "stopped"]) /\ at[w].step \notin {"free", "stopped"}
        /\ OnlyReads /\ UNCHANGED <<acquire, extract>>
    BY <1>1 DEF Stop, OnlyReads
  <1>3. b \in Batches
    BY <1>1, <1>2, BatchWorkedOn DEF At
  <1>4. Resting([batch |-> b, step |-> "stopped"]) /\ w \in Actors
    BY <1>3 DEF Resting, Actors
  <1> QED BY <1>2, <1>4, RestKeeps

(* A setting after which the actor has nothing in hand. *)
LEMMA ClosingForm ==
    ASSUME NEW i \in Items, NEW y \in Closing(i), NEW w \in Workers
    PROVE  /\ WorkerForm(y) /\ Core(y) = Recomputing(i) /\ Core(y).step = "recompute"
           /\ y.step \in {"set", "write"} /\ y.item = i
           /\ \A j : ~Owns(w, y, j)
  <1>1. y.then = Recomputing(i) /\ y.step \in {"set", "write"} /\ y.item = i
    BY DEF Closing, Sets
  <1>2. Core(y) = Recomputing(i) /\ Core(y).step = "recompute"
    BY <1>1 DEF Core, Recomputing
  <1>3. \A j : ~Owns(w, y, j)
    BY <1>2, IngestionAssumption DEF Owns, Before, Holds, Ahead, Acquiring, Keeping
  <1> QED BY <1>1, <1>2, <1>3 DEF WorkerForm

LEMMA ClosingTakes ==
    ASSUME SourceInv, NEW w \in Workers, NEW i \in Items, NEW y \in Closing(i), Goto(w, y),
           item'[i] # None, y.to = "review_required" => ReviewedImport(i)',
           \A j \in Items : Passes(w, y, j)
    PROVE  Takes(w, y)
  <1>1. at'[w] = y /\ w \notin Batches
    BY OthersStay, IngestionAssumption DEF SourceInv, Actors
  <1>2. /\ WorkerForm(y) /\ Core(y).step = "recompute"
        /\ y.step \in {"set", "write"} /\ y.item = i
    BY ClosingForm
  <1>3. Knows(w)'
    BY <1>1, <1>2 DEF Knows, Known, ReviewedImport, Core
  <1>4. KnowsWorker(w)'
    BY <1>1, <1>2 DEF KnowsWorker, Core, Acquiring
  <1> QED BY <1>1, <1>2, <1>3, <1>4 DEF Takes

LEMMA ClosingReads ==
    ASSUME SourceInv, NEW w \in Workers, NEW i \in Items, NEW y \in Closing(i), Goto(w, y),
           Known(i), y.to # "review_required",
           RowsStay, UNCHANGED <<import, acquire, extract>>
    PROVE  Takes(w, y)
  <1>1. \A j \in Items : Passes(w, y, j)
    BY ClosingForm, SamePass DEF Owns, Actors
  <1>2. item'[i] # None
    BY DEF Known, RowsStay
  <1> QED BY <1>1, <1>2, ClosingTakes

LEMMA FailingCloses ==
    ASSUME NEW i \in Items
    PROVE  Failing(i) \in Closing(i) /\ Failing(i).to = "failed"
  BY DEF Failing, Setting, Closing, Sets, Ended

(* What a worker knows that acquires an item, or has an import of it.       *)
Fetching == {"credential", "refresh", "fetch", "list", "reserve", "create",
             "store", "record", "member", "queue"}

LEMMA Acquirer ==
    ASSUME SourceInv, NEW w \in Workers, at[w].step \in Fetching
    PROVE  /\ at[w].item \in Items /\ at[w] \in Acquisition(at[w].item) /\ Known(at[w].item)
           /\ Core(at[w]) = at[w]
           /\ at[w].step \in {"credential", "refresh", "list", "reserve", "record"} =>
                  FileOf[at[w].item] # None
           /\ at[w].step \in Acquiring \cup {"create"} => Before(w, at[w], at[w].item)
           /\ at[w].step \in Keeping => Holds(at[w], at[w].item)
           /\ at[w].step \in {"reserve", "create"} =>
                  at[w].parent = None \/ import[at[w].parent] # None
  <1>1. Core(at[w]) = at[w]
    BY DEF Core, Fetching
  <1>2. at[w].item \in Items /\ at[w] \in Acquisition(at[w].item)
    BY WorkerShape DEF SourceInv, Forms, Fetching
  <1>3. KnowsWorker(w) /\ Knows(w)
    BY DEF SourceInv, Knowledge, Actors
  <1> QED BY <1>1, <1>2, <1>3 DEF KnowsWorker, Knows, Fetching, Acquiring, Keeping, Before, Holds

(* It goes on with the item it has. *)
LEMMA AcquirerTakes ==
    ASSUME SourceInv, NEW w \in Workers, NEW i \in Items, NEW y \in Acquisition(i), Goto(w, y),
           y.step \in Fetching, item'[i] # None,
           y.step \in {"credential", "refresh", "list", "reserve", "record"} => FileOf[i] # None,
           y.step \in {"reserve", "create"} => y.parent = None \/ import'[y.parent] # None,
           \A j \in Items : Passes(w, y, j)
    PROVE  Takes(w, y)
  <1>1. at'[w] = y /\ w \notin Batches
    BY OthersStay, IngestionAssumption DEF SourceInv, Actors
  <1>2. Core(y) = y /\ y.item = i
    BY DEF Core, Fetching, Acquisition
  <1>3. WorkerForm(y)
    BY DEF WorkerForm
  <1>4. Knows(w)'
    BY <1>1, <1>2 DEF Knows, Known, Core, Fetching
  <1>5. KnowsWorker(w)'
    BY <1>1, <1>2 DEF KnowsWorker, Known, Core
  <1> QED BY <1>1, <1>3, <1>4, <1>5 DEF Takes

LEMMA AcquirerOwns ==
    ASSUME NEW w \in Workers, NEW i \in Items, NEW y \in Acquisition(i), y.step \in Fetching
    PROVE  /\ Core(y) = y /\ y.item = i
           /\ \A j : Before(w, y, j) <=> j = i /\ y.step \in Acquiring \cup {"create"}
           /\ \A j : Holds(y, j) <=> j = i /\ y.step \in Keeping
  <1>1. Core(y) = y /\ y.item = i
    BY DEF Core, Fetching, Acquisition
  <1> QED BY <1>1, IngestionAssumption DEF Before, Holds, Ahead

LEMMA AcquirerReads ==
    ASSUME SourceInv, NEW w \in Workers, NEW i \in Items, NEW y \in Acquisition(i), Goto(w, y),
           at[w].step \in Fetching, at[w].item = i,
           y.step \in Fetching,
           y.step \in {"credential", "refresh", "list", "reserve", "record"} => FileOf[i] # None,
           y.step \in {"reserve", "create"} => y.parent = None \/ import[y.parent] # None,
           \/ at[w].step \in Acquiring /\ y.step \in Acquiring \cup {"create"}
           \/ /\ at[w].step \in Keeping /\ y.step \in Keeping
              /\ StatusAt(y.step) = StatusAt(at[w].step),
           RowsStay, UNCHANGED <<import, acquire, extract>>
    PROVE  Takes(w, y)
  <1>1. Known(i) /\ Core(at[w]) = at[w]
        /\ (at[w].step \in Acquiring \cup {"create"} => Before(w, at[w], i))
        /\ (at[w].step \in Keeping => Holds(at[w], i))
    BY Acquirer
  <1>2. /\ Core(y) = y
        /\ \A j : Before(w, y, j) <=> j = i /\ y.step \in Acquiring \cup {"create"}
        /\ \A j : Holds(y, j) <=> j = i /\ y.step \in Keeping
    BY AcquirerOwns
  <1>3. Acquiring \cap Keeping = {} /\ "create" \notin Keeping
    BY DEF Acquiring, Keeping
  <1>4. ASSUME NEW j \in Items PROVE Passes(w, y, j)
    BY <1>1, <1>2, <1>3, SamePass DEF Actors
  <1>5. item'[i] # None
    BY <1>1 DEF Known, RowsStay
  <1> QED BY <1>4, <1>5, AcquirerTakes

-----------------------------------------------------------------------------
(* The acquisition worker *)

LEMMA ReadCredentialKeeps ==
    ASSUME SourceInv, NEW w \in Workers, ReadCredential(w)
    PROVE  SourceInv'
  <1>1. PICK i : i = at[w].item
    OBVIOUS
  <1>2. /\ at[w].step = "credential" /\ OnlyReads /\ UNCHANGED <<acquire, extract>>
        /\ \/ \E step \in {"fetch", "refresh"} : Goto(w, Doing(step, i))
           \/ Goto(w, Failing(i))
    BY <1>1 DEF ReadCredential, At, OnlyReads
  <1>3. i \in Items /\ Known(i) /\ FileOf[i] # None /\ w \in Actors
    BY <1>1, <1>2, Acquirer DEF Fetching, Actors
  <1>4. RowsStay
    BY <1>2, ReadsStay DEF SourceInv
  <1>5. UNCHANGED <<import, acquire, extract>>
    BY <1>2 DEF OnlyReads
  <1>6. CASE Goto(w, Failing(i))
    BY <1>2, <1>3, <1>4, <1>5, <1>6, FailingCloses, ClosingReads, ReadStep
  <1>7. ASSUME NEW step \in {"fetch", "refresh"}, Goto(w, Doing(step, i))
        PROVE  SourceInv'
    <2>1. Doing(step, i) \in Acquisition(i) /\ Doing(step, i).step = step
      BY DEF Doing, Acquisition
    <2>2. Takes(w, Doing(step, i))
      BY <1>1, <1>2, <1>3, <1>4, <1>5, <1>7, <2>1, AcquirerReads DEF Fetching, Acquiring
    <2> QED BY <1>2, <1>3, <1>7, <2>2, ReadStep
  <1> QED BY <1>2, <1>6, <1>7

LEMMA AcquisitionFailsKeeps ==
    ASSUME SourceInv, NEW w \in Workers, AcquisitionFails(w)
    PROVE  SourceInv'
  <1>1. PICK i : i = at[w].item
    OBVIOUS
  <1>2. /\ at[w].step \in {"refresh", "fetch"} /\ OnlyReads /\ UNCHANGED <<acquire, extract>>
        /\ Goto(w, Failing(i))
    BY <1>1 DEF AcquisitionFails, OnlyReads
  <1>3. i \in Items /\ Known(i) /\ w \in Actors
    BY <1>1, <1>2, Acquirer DEF Fetching, Actors
  <1>4. RowsStay
    BY <1>2, ReadsStay DEF SourceInv
  <1>5. UNCHANGED <<import, acquire, extract>>
    BY <1>2 DEF OnlyReads
  <1> QED BY <1>2, <1>3, <1>4, <1>5, FailingCloses, ClosingReads, ReadStep

LEMMA FetchKeeps ==
    ASSUME SourceInv, NEW w \in Workers, Fetch(w)
    PROVE  SourceInv'
  <1>1. PICK i : i = at[w].item
    OBVIOUS
  <1>2. PICK y : y = IF FileOf[i] = None
                     THEN [item |-> i, parent |-> None, step |-> "create", version |-> 1]
                     ELSE [item |-> i, step |-> "list", version |-> remote[FileOf[i]]]
    OBVIOUS
  <1>3. /\ at[w].step = "fetch" /\ OnlyReads /\ UNCHANGED <<acquire, extract>>
        /\ Goto(w, y)
    BY <1>1, <1>2 DEF Fetch, At, OnlyReads
  <1>4. i \in Items /\ Known(i) /\ w \in Actors
    BY <1>1, <1>3, Acquirer DEF Fetching, Actors
  <1>5. FileOf[i] # None => remote[FileOf[i]] \in Nat
    BY <1>4, IngestionAssumption DEF SourceInv, Tables, RowsTyped
  <1>6. y \in Acquisition(i) /\ y.step \in {"create", "list"}
        /\ (y.step = "create" => y.parent = None) /\ (y.step = "list" => FileOf[i] # None)
    BY <1>2, <1>4, <1>5 DEF Acquisition
  <1>7. RowsStay /\ UNCHANGED <<import, acquire, extract>>
    BY <1>3, ReadsStay DEF SourceInv, OnlyReads
  <1>8. Takes(w, y)
    BY <1>1, <1>3, <1>4, <1>6, <1>7, AcquirerReads DEF Fetching, Acquiring
  <1> QED BY <1>3, <1>4, <1>8, ReadStep

LEMMA ListSubscriptionsKeeps ==
    ASSUME SourceInv, NEW w \in Workers, ListSubscriptions(w)
    PROVE  SourceInv'
  <1>1. PICK i : i = at[w].item
    OBVIOUS
  <1>2. PICK y : y = [item |-> i, parent |-> sub[FileOf[i]].last, step |-> "reserve",
                      version |-> at[w].version]
    OBVIOUS
  <1>3. /\ at[w].step = "list" /\ OnlyReads /\ UNCHANGED <<acquire, extract>>
        /\ Goto(w, y)
    BY <1>1, <1>2 DEF ListSubscriptions, At, OnlyReads
  <1>4. /\ i \in Items /\ Known(i) /\ w \in Actors /\ FileOf[i] # None
        /\ at[w] \in Acquisition(i)
    BY <1>1, <1>3, Acquirer DEF Fetching, Actors
  <1>5. at[w].version \in Nat
    BY <1>3, <1>4 DEF Acquisition
  <1>6. FileOf[i] \in Files /\ sub[FileOf[i]] # None
    BY <1>4, IngestionAssumption DEF SourceInv, Tables, FilesKnown, Known
  <1>7. sub[FileOf[i]].last \in Items \cup {None}
        /\ (sub[FileOf[i]].last # None => import[sub[FileOf[i]].last] # None)
    BY <1>6, SubscriptionsTyped DEF SourceInv, SubscriptionRows
  <1>8. y \in Acquisition(i) /\ y.step = "reserve"
        /\ (y.parent = None \/ import[y.parent] # None)
    BY <1>2, <1>4, <1>5, <1>7 DEF Acquisition
  <1>9. RowsStay /\ UNCHANGED <<import, acquire, extract>>
    BY <1>3, ReadsStay DEF SourceInv, OnlyReads
  <1>10. Takes(w, y)
    BY <1>1, <1>3, <1>4, <1>8, <1>9, AcquirerReads DEF Fetching, Acquiring
  <1> QED BY <1>3, <1>4, <1>10, ReadStep

LEMMA ReserveRevisionKeeps ==
    ASSUME SourceInv, NEW w \in Workers, ReserveRevision(w)
    PROVE  SourceInv'
  <1>1. PICK i : i = at[w].item
    OBVIOUS
  <1>2. /\ at[w].step = "reserve" /\ OnlyReads /\ UNCHANGED <<acquire, extract>>
        /\ \E y : /\ Goto(w, y)
                  /\ \/ y = Setting(i, "unchanged", at[w].parent, Recomputing(i), Free)
                     \/ y = Setting(i, "blocked", at[w].parent, Recomputing(i), Free)
                     \/ \E p \in {None, at[w].parent} :
                            y = [item |-> i, parent |-> p, step |-> "create",
                                 version |-> at[w].version]
    BY ZenonT(30), <1>1 DEF ReserveRevision, At, OnlyReads
  <1>3. PICK y : /\ Goto(w, y)
                 /\ \/ y = Setting(i, "unchanged", at[w].parent, Recomputing(i), Free)
                    \/ y = Setting(i, "blocked", at[w].parent, Recomputing(i), Free)
                    \/ \E p \in {None, at[w].parent} :
                           y = [item |-> i, parent |-> p, step |-> "create",
                                version |-> at[w].version]
    BY <1>2
  <1>4. /\ i \in Items /\ Known(i) /\ w \in Actors /\ at[w] \in Acquisition(i)
        /\ (at[w].parent = None \/ import[at[w].parent] # None)
    BY <1>1, <1>2, Acquirer DEF Fetching, Actors
  <1>5. at[w].parent \in Items \cup {None} /\ at[w].version \in Nat
    BY <1>2, <1>4 DEF Acquisition
  <1>6. RowsStay /\ UNCHANGED <<import, acquire, extract>>
    BY <1>2, ReadsStay DEF SourceInv, OnlyReads
  <1>7. ASSUME NEW to \in {"unchanged", "blocked"},
               y = Setting(i, to, at[w].parent, Recomputing(i), Free)
        PROVE  Takes(w, y)
    <2>1. y \in Closing(i) /\ y.to # "review_required"
      BY <1>5, <1>7 DEF Setting, Closing, Sets, Ended
    <2> QED BY <1>3, <1>4, <1>6, <2>1, ClosingReads
  <1>8. ASSUME NEW p \in {None, at[w].parent},
               y = [item |-> i, parent |-> p, step |-> "create", version |-> at[w].version]
        PROVE  Takes(w, y)
    <2>1. y \in Acquisition(i) /\ y.step = "create" /\ (y.parent = None \/ import[y.parent] # None)
      BY <1>4, <1>5, <1>8 DEF Acquisition
    <2> QED BY <1>1, <1>2, <1>3, <1>4, <1>6, <2>1, AcquirerReads DEF Fetching, Acquiring
  <1>9. Takes(w, y)
    BY <1>3, <1>7, <1>8
  <1> QED BY SMTT(30), <1>2, <1>3, <1>4, <1>9, ReadStep

(* The connection is written by a worker. *)
LEMMA CredentialWritten ==
    ASSUME Tables, conn # None, StoreRefreshed \/ MarkReauthorize,
           UNCHANGED <<item, import, members, remote, acquire, extract>>
    PROVE  Tables' /\ RowsStay
  <1>1. ConnInv /\ conn \in Connections /\ UNCHANGED <<oauth, callback, sub>>
    BY DEF Tables, ConnInv, ConnTypeOK, StoreRefreshed, MarkReauthorize
  <1>2. conn' \in Connections /\ conn'.id = conn.id
        /\ (conn'.credential = conn.id \/ conn'.credential = conn.credential)
        /\ (conn'.status = "active" => conn'.credential = conn.id)
    BY <1>1 DEF StoreRefreshed, MarkReauthorize, Connections
  <1>3. conn' # None /\ conn.id # None
    BY <1>1, <1>2, ConnectionAssumption DEF Connections
  <1>4. ConnTypeOK'
    BY <1>1, <1>2, <1>3 DEF ConnInv, ConnTypeOK
  <1>5. SealedForOwner'
    BY <1>1, <1>2 DEF ConnInv, SealedForOwner
  <1>6. CallbacksKnown' /\ StateUsedOnce'
    BY <1>1 DEF ConnInv, CallbacksKnown, StateUsedOnce
  <1>7. ConnInv'
    BY <1>4, <1>5, <1>6 DEF ConnInv
  <1> QED BY <1>1, <1>3, <1>7, ConnectionsKeep, SubscriptionsTyped

LEMMA SaveRefreshedKeeps ==
    ASSUME SourceInv, NEW w \in Workers, SaveRefreshed(w)
    PROVE  SourceInv'
  <1>1. PICK i : i = at[w].item
    OBVIOUS
  <1>2. /\ at[w].step = "refresh" /\ StoreRefreshed /\ Goto(w, Doing("fetch", i))
        /\ UNCHANGED <<item, import, members, remote, acquire, extract>>
    BY <1>1 DEF SaveRefreshed, At
  <1>3. i \in Items /\ Known(i) /\ FileOf[i] # None /\ w \in Actors
    BY <1>1, <1>2, Acquirer DEF Fetching, Actors
  <1>4. conn # None
    BY <1>3 DEF SourceInv, Tables, FilesKnown, Known
  <1>5. Tables' /\ RowsStay
    BY <1>2, <1>4, CredentialWritten DEF SourceInv
  <1>6. Doing("fetch", i) \in Acquisition(i) /\ Doing("fetch", i).step = "fetch"
    BY DEF Doing, Acquisition
  <1>7. Takes(w, Doing("fetch", i))
    BY <1>1, <1>2, <1>3, <1>5, <1>6, AcquirerReads DEF Fetching, Acquiring
  <1> QED BY <1>2, <1>3, <1>5, <1>7, StepKeeps

LEMMA ReauthorizeKeeps ==
    ASSUME SourceInv, NEW w \in Workers, Reauthorize(w)
    PROVE  SourceInv'
  <1>1. PICK i : i = at[w].item
    OBVIOUS
  <1>2. /\ at[w].step = "fetch" /\ FileOf[i] # None /\ MarkReauthorize /\ Goto(w, Failing(i))
        /\ UNCHANGED <<item, import, members, remote, acquire, extract>>
    BY <1>1 DEF Reauthorize, At
  <1>3. i \in Items /\ Known(i) /\ w \in Actors
    BY <1>1, <1>2, Acquirer DEF Fetching, Actors
  <1>4. conn # None
    BY <1>2, <1>3 DEF SourceInv, Tables, FilesKnown, Known
  <1>5. Tables' /\ RowsStay
    BY <1>2, <1>4, CredentialWritten DEF SourceInv
  <1>6. Takes(w, Failing(i))
    BY <1>2, <1>3, <1>5, FailingCloses, ClosingReads
  <1> QED BY <1>2, <1>3, <1>5, <1>6, StepKeeps

(* record_subscription_import *)
LEMMA RecordKeeps ==
    ASSUME SourceInv, NEW w \in Workers, Record(w)
    PROVE  SourceInv'
  <1>1. PICK i : i = at[w].item
    OBVIOUS
  <1>2. PICK y : y = [at[w] EXCEPT !.step = IF BatchOf[i] \in Gathered THEN "member" ELSE "queue"]
    OBVIOUS
  <1>3. PICK f : f = FileOf[i]
    OBVIOUS
  <1>4. /\ at[w].step = "record" /\ RecordImport(f, i, at[w].version) /\ Goto(w, y)
        /\ UNCHANGED <<item, import, members, remote, acquire, extract>>
    BY <1>1, <1>2, <1>3 DEF Record, At
  <1>5. /\ i \in Items /\ Known(i) /\ w \in Actors /\ f # None
        /\ at[w] \in Acquisition(i) /\ Holds(at[w], i)
    BY <1>1, <1>3, <1>4, Acquirer DEF Fetching, Actors, Keeping
  <1>6. at[w].version \in Nat
    BY <1>4, <1>5 DEF Acquisition
  <1>7. f \in Files /\ sub[f] # None /\ import[i] # None
    BY <1>3, <1>5, IngestionAssumption
       DEF SourceInv, Tables, FilesKnown, Known, Owners, OwnedStatus, Actors
  <1>8. PICK row : row = [last |-> i, seen |-> at[w].version, status |-> "active"]
    OBVIOUS
  <1>9. /\ sub' = [sub EXCEPT ![f] = row] /\ UNCHANGED <<oauth, callback, conn>>
        /\ row \in SubscriptionRows /\ row # None /\ row.last = i
    BY <1>4, <1>5, <1>6, <1>8, IngestionAssumption DEF RecordImport, SubscriptionRows
  <1>10. ConnInv'
    BY <1>9 DEF SourceInv, Tables, ConnInv, ConnTypeOK, CallbacksKnown, StateUsedOnce, SealedForOwner
  <1>11. /\ sub' = [g \in Files |-> sub'[g]]
         /\ \A g \in Files : sub'[g] = IF g = f THEN row ELSE sub[g]
    BY <1>9, SubscriptionsTyped DEF SourceInv
  <1>12. Tables' /\ RowsStay
    BY <1>4, <1>7, <1>9, <1>10, <1>11, ConnectionsKeep, SubscriptionsTyped DEF SourceInv
  <1>13. y \in Acquisition(i) /\ y.step \in {"member", "queue"}
    BY <1>2, <1>4, <1>5 DEF Acquisition
  <1>14. Takes(w, y)
    BY <1>1, <1>4, <1>5, <1>12, <1>13, AcquirerReads DEF Fetching, Acquiring, Keeping, StatusAt
  <1> QED BY <1>4, <1>5, <1>12, <1>14, StepKeeps

(* claim_item *)
LEMMA ClaimKeeps ==
    ASSUME Tables, NEW i \in Items, Known(i), Claim(i),
           UNCHANGED <<connVars, import, members, remote>>,
           acquire' \in [Items -> Nat], extract' \in [Items -> Nat],
           \A j \in Items : acquire'[j] > 0 => Known(j)
    PROVE  Tables' /\ RowsStay /\ item'[i] # None
  <1>1. item[i] \in ItemRows
    BY DEF Tables, Known, RowsTyped
  <1>2. PICK row : row = [item[i] EXCEPT !.status = "acquiring"]
    OBVIOUS
  <1>3. "acquiring" \in ItemStatuses
    BY DEF ItemStatuses
  <1>4. row \in ItemRows /\ row.status = "acquiring"
    BY <1>1, <1>2, <1>3 DEF ItemRows
  <1>5. row # None
    BY <1>4, IngestionAssumption
  <1>6. /\ item' = [j \in Items |-> item'[j]]
        /\ \A j \in Items : item'[j] = IF j = i THEN row ELSE item[j]
    BY <1>2 DEF Tables, RowsTyped, Claim
  <1>7. RowsStay
    BY <1>5, <1>6 DEF RowsStay, ReviewedImport, connVars
  <1> USE DEF Tables, connVars
  <1>8. ConnInv'
    BY DEF ConnInv, ConnTypeOK, CallbacksKnown, StateUsedOnce, SealedForOwner
  <1>9. RowsTyped'
    BY <1>4, <1>6 DEF RowsTyped
  <1>10. FilesKnown' /\ LastKnown'
    BY <1>5, <1>6 DEF FilesKnown, LastKnown, Known
  <1>11. JobsKnown'
    BY <1>5, <1>6 DEF JobsKnown, Known
  <1>12. SourcesKnown' /\ LineageIsLinear'
    BY DEF SourcesKnown, LineageIsLinear
  <1>13. CandidatesKnown'
    BY <1>4, <1>6 DEF CandidatesKnown, ReviewedImport
  <1> QED BY <1>5, <1>6, <1>7, <1>8, <1>9, <1>10, <1>11, <1>12, <1>13

(* A worker that claims takes the job of the item. *)
LEMMA TakeAcquisitionKeeps ==
    ASSUME SourceInv, NEW w \in Workers, NEW i \in Items, TakeAcquisition(w, i)
    PROVE  SourceInv'
  <1>1. PICK y : y = Doing(IF FileOf[i] = None THEN "fetch" ELSE "credential", i)
    OBVIOUS
  <1>2. /\ at[w].step = "free" /\ acquire[i] > 0 /\ Claim(i) /\ Goto(w, y)
        /\ acquire' = [acquire EXCEPT ![i] = @ - 1]
        /\ UNCHANGED <<connVars, import, members, remote, extract>>
    BY <1>1 DEF TakeAcquisition, At
  <1>3. /\ Known(i) /\ w \in Actors /\ Tables
        /\ acquire \in [Items -> Nat] /\ extract \in [Items -> Nat]
    BY <1>2 DEF SourceInv, Tables, JobsKnown, Known, RowsTyped, Actors
  <1>4. /\ acquire' \in [Items -> Nat] /\ acquire'[i] = acquire[i] - 1
        /\ \A j \in Items : j # i => acquire'[j] = acquire[j]
    BY <1>2, <1>3
  <1>5. \A j \in Items : acquire'[j] > 0 => Known(j)
    BY <1>3, <1>4 DEF Tables, JobsKnown
  <1>6. Tables' /\ RowsStay /\ item'[i] # None
    BY <1>2, <1>3, <1>4, <1>5, ClaimKeeps
  <1>7. y \in Acquisition(i) /\ y.step \in {"fetch", "credential"}
         /\ (y.step = "credential" => FileOf[i] # None)
    BY <1>1 DEF Doing, Acquisition
  <1>8. /\ Core(y) = y
        /\ \A j : Before(w, y, j) <=> j = i
        /\ \A j : ~Holds(y, j)
    BY <1>7, AcquirerOwns DEF Fetching, Acquiring, Keeping
  <1>9. ASSUME NEW j \in Items PROVE Passes(w, y, j)
    <2>1. CASE j # i
      BY <1>2, <1>3, <1>4, <1>8, <2>1, SamePass
    <2>2. CASE j = i
      <3>1. acquire[i] + extract[i] \in {0, 1} /\ import[i] = None
        BY <1>2 DEF SourceInv, Owners, OneOwner, OwnedStatus
      <3>2. acquire[i] = 1 /\ extract[i] = 0 /\ acquire'[i] = 0 /\ extract'[i] = 0
        BY <1>2, <1>3, <1>4, <3>1
      <3>3. import'[i] = None
        BY <1>2, <3>1
      <3> QED BY <1>8, <2>2, <3>2, <3>3 DEF Passes
    <2> QED BY <2>1, <2>2
  <1>10. Takes(w, y)
    BY <1>2, <1>3, <1>6, <1>7, <1>9, AcquirerTakes DEF Fetching
  <1> QED BY <1>2, <1>3, <1>6, <1>10, StepKeeps

-----------------------------------------------------------------------------
(* Requests that go on *)

LEMMA Maker ==
    ASSUME SourceInv, NEW b \in Batches, at[b].step \in Makers
    PROVE  /\ at[b].item \in Items /\ at[b] \in Upload(at[b].item, Makers)
           /\ at[b].rest \in Lists /\ at[b].item \notin Left(at[b].rest)
           /\ Core(at[b]) = at[b]
           /\ \A j \in Left(at[b].rest) : Known(j)
           /\ Kind[b] = "revise" \/ Known(at[b].item)
           /\ at[b].step = "create" => at[b].parent = None \/ import[at[b].parent] # None
  <1>1. Core(at[b]) = at[b]
    BY DEF Core, Makers
  <1>2. at[b].item \in Items /\ at[b] \in Upload(at[b].item, Makers)
    BY RequestShape DEF SourceInv, Forms
  <1>3. at[b].rest \in Lists /\ at[b].item \notin Left(at[b].rest)
    BY <1>2 DEF Upload
  <1>4. KnowsRequest(b) /\ Knows(b)
    BY DEF SourceInv, Knowledge, Actors
  <1> QED BY <1>1, <1>2, <1>3, <1>4 DEF KnowsRequest, Knows, Makers

LEMMA MakerOwns ==
    ASSUME NEW b \in Batches, NEW i \in Items, NEW y \in Upload(i, Makers)
    PROVE  /\ Core(y) = y /\ y.item = i /\ y.rest \in Lists /\ y.step \in Makers
           /\ \A j : Before(b, y, j) <=> j \in Left(y.rest) \/ (j = i /\ y.step = "create")
           /\ \A j : Holds(y, j) <=> j = i /\ y.step # "create"
  <1>1. y.item = i /\ y.rest \in Lists /\ y.step \in Makers
    BY DEF Upload
  <1>2. Core(y) = y
    BY <1>1 DEF Core, Makers
  <1>3. Ahead(b, y) = Left(y.rest)
    BY <1>1, <1>2 DEF Ahead, Makers
  <1>4. y.step \in Acquiring \cup {"create"} <=> y.step = "create"
    BY <1>1 DEF Acquiring, Makers
  <1>5. y.step \in Keeping <=> y.step # "create"
    BY <1>1 DEF Keeping, Makers
  <1> QED BY <1>1, <1>2, <1>3, <1>4, <1>5 DEF Before, Holds

LEMMA MakerTakes ==
    ASSUME SourceInv, NEW b \in Batches, NEW i \in Items, NEW y \in Upload(i, Makers), Goto(b, y),
           \A j \in Left(y.rest) : item'[j] # None,
           Kind[b] = "revise" \/ item'[i] # None,
           y.step = "create" => y.parent = None \/ import'[y.parent] # None,
           \A j \in Items : Passes(b, y, j)
    PROVE  Takes(b, y)
  <1>1. at'[b] = y /\ b \notin Workers
    BY OthersStay, IngestionAssumption DEF SourceInv, Actors
  <1>2. Core(y) = y /\ y.item = i /\ y.step \in Makers
    BY MakerOwns
  <1>3. y \in Upload(i, {"create", "store", "member", "queue", "job"})
    BY DEF Makers
  <1>4. RequestForm(y)
    BY <1>3 DEF RequestForm
  <1>5. Knows(b)'
    BY <1>1, <1>2 DEF Knows, Core, Makers
  <1>6. KnowsRequest(b)'
    BY <1>1, <1>2 DEF KnowsRequest, Known, Core, Makers
  <1> QED BY <1>1, <1>4, <1>5, <1>6 DEF Takes

(* A list of items that the request goes through, at once or after a        *)
(* setting that fails an item.                                              *)
Listing(y, rest) ==
    \/ \E step \in {"enqueue", "next"} : y = Todo(step, rest)
    \/ \E i \in Items, imp \in Items \cup {None}, step \in {"enqueue", "next"} :
           y = Setting(i, "failed", imp, Todo(step, rest), Todo(step, rest))

LEMMA ListingOwns ==
    ASSUME NEW b \in Batches, NEW rest \in Lists, NEW y, Listing(y, rest)
    PROVE  /\ RequestForm(y)
           /\ y.step \in {"enqueue", "next", "set"}
           /\ Core(y).step \in {"enqueue", "next"} /\ Core(y).rest = rest
           /\ y.step = "set" => y.item \in Items /\ y.to = "failed"
           /\ \A j : Before(b, y, j) <=> j \in Left(rest)
           /\ \A j : ~Holds(y, j)
  <1>1. ASSUME NEW step \in {"enqueue", "next"}
        PROVE  /\ Todo(step, rest) \in [rest : Lists, step : {"enqueue", "next"}]
               /\ Todo(step, rest).step = step /\ Todo(step, rest).rest = rest
    BY DEF Todo
  <1>2. ASSUME NEW step \in {"enqueue", "next"}, y = Todo(step, rest)
        PROVE  RequestForm(y) /\ Core(y) = y
    <2>1. y \in [rest : Lists, step : {"subscribe", "insert", "enqueue", "next"}]
      BY <1>2 DEF Todo
    <2>2. Core(y) = y
      BY <1>1, <1>2 DEF Core
    <2> QED BY <2>1, <2>2 DEF RequestForm
  <1>3. ASSUME NEW i \in Items, NEW imp \in Items \cup {None}, NEW step \in {"enqueue", "next"},
               y = Setting(i, "failed", imp, Todo(step, rest), Todo(step, rest))
        PROVE  /\ RequestForm(y) /\ Core(y) = Todo(step, rest)
               /\ y.step = "set" /\ y.item = i /\ y.to = "failed"
    <2>1. y \in FailingUpload(i) /\ y.then = y.else /\ y.then = Todo(step, rest)
          /\ y.step = "set" /\ y.item = i /\ y.to = "failed"
      BY <1>1, <1>3 DEF Setting, FailingUpload, Sets
    <2>2. Core(y) = Todo(step, rest)
      BY <1>1, <2>1 DEF Core
    <2> QED BY <2>1, <2>2 DEF RequestForm
  <1>4. /\ RequestForm(y) /\ y.step \in {"enqueue", "next", "set"}
        /\ Core(y).step \in {"enqueue", "next"} /\ Core(y).rest = rest
        /\ (y.step = "set" => y.item \in Items /\ y.to = "failed")
    BY <1>1, <1>2, <1>3 DEF Listing
  <1>5. Ahead(b, y) = Left(rest)
    BY <1>4 DEF Ahead
  <1>6. \A j : Before(b, y, j) <=> j \in Left(rest)
    BY <1>4, <1>5 DEF Before, Acquiring
  <1>7. \A j : ~Holds(y, j)
    BY <1>4 DEF Holds, Keeping
  <1> QED BY <1>4, <1>6, <1>7

LEMMA ListingTakes ==
    ASSUME SourceInv, NEW b \in Batches, NEW rest \in Lists, NEW y, Listing(y, rest), Goto(b, y),
           Kind[b] # "revise", \A j \in Left(rest) : item'[j] # None,
           y.step = "set" => item'[y.item] # None,
           \A j \in Items : Passes(b, y, j)
    PROVE  Takes(b, y)
  <1>1. at'[b] = y /\ b \notin Workers
    BY OthersStay, IngestionAssumption DEF SourceInv, Actors
  <1>2. /\ RequestForm(y)
        /\ y.step \in {"enqueue", "next", "set"}
        /\ Core(y).step \in {"enqueue", "next"} /\ Core(y).rest = rest
        /\ (y.step = "set" => y.to = "failed")
    BY ListingOwns
  <1>3. Knows(b)'
    BY <1>1, <1>2 DEF Knows, Known, Core
  <1>4. KnowsRequest(b)'
    BY <1>1, <1>2 DEF KnowsRequest, Known, Core
  <1> QED BY <1>1, <1>2, <1>3, <1>4 DEF Takes

-----------------------------------------------------------------------------
(* Imports *)

LEMMA OwnedPass ==
    ASSUME SourceInv, NEW a \in Actors, NEW y, NEW i \in Items, Owns(a, at[a], i),
           acquire'[i] = acquire[i], extract'[i] = extract[i],
           Before(a, y, i) => import'[i] = None,
           Holds(y, i) => import'[i] # None /\ import'[i].status = StatusAt(Core(y).step)
    PROVE  Passes(a, y, i)
  <1>1. acquire[i] \in Nat /\ extract[i] \in Nat /\ acquire[i] + extract[i] = 0
    BY DEF SourceInv, Tables, RowsTyped, Owners, OneOwner
  <1>2. acquire[i] = 0 /\ extract[i] = 0
    BY <1>1
  <1> QED BY <1>1, <1>2 DEF Passes

(* The row of an import that is there is written: candidates are added to  *)
(* it or replaced, or its status changes.                                   *)
LEMMA ImportKeeps ==
    ASSUME Tables, NEW i \in Items, import[i] # None, NEW row \in ImportRows,
           row.parent = import[i].parent, row.revision = import[i].revision,
           row.source = import[i].source,
           import[i].status = "compiled" => row.status = "compiled",
           import[i].stored # "none" => row.stored # "none",
           row.stored = "complete" <=> row.status \in Reviewable,
           import' = [import EXCEPT ![i] = row],
           UNCHANGED <<connVars, item, members, remote>>,
           acquire' \in [Items -> Nat], extract' \in [Items -> Nat],
           \A j \in Items : acquire'[j] > 0 => Known(j)
    PROVE  Tables' /\ RowsStay
  <1>4. row # None
    BY IngestionAssumption
  <1>5. /\ import' = [j \in Items |-> import'[j]]
        /\ \A j \in Items : import'[j] = IF j = i THEN row ELSE import[j]
    BY DEF Tables, RowsTyped
  <1>6. /\ \A j \in Items : import[j] # None <=> import'[j] # None
        /\ \A j \in Items : import'[j].parent = import[j].parent
                            /\ import'[j].revision = import[j].revision
                            /\ import'[j].source = import[j].source
        /\ \A j \in Items : import[j] # None /\ import[j].status = "compiled" =>
               import'[j].status = "compiled"
        /\ \A j \in Items : ReviewedImport(j) => ReviewedImport(j)'
    BY <1>4, <1>5 DEF ReviewedImport
  <1>7. RowsStay
    BY <1>6 DEF RowsStay, connVars
  <1> USE DEF Tables, connVars
  <1>8. ConnInv'
    BY DEF ConnInv, ConnTypeOK, CallbacksKnown, StateUsedOnce, SealedForOwner
  <1>9. RowsTyped'
    BY <1>5, <1>6 DEF RowsTyped
  <1>10. FilesKnown' /\ JobsKnown'
    BY DEF FilesKnown, JobsKnown, Known
  <1>11. LastKnown'
    BY <1>6, SubscriptionsTyped DEF LastKnown, SubscriptionRows
  <1>12. SourcesKnown'
    <2>1. \A j \in Items : import[j] # None => import[j].source \in Items
                                               /\ import[j].parent \in Items \cup {None}
      BY DEF RowsTyped, ImportRows
    <2> QED BY <1>6, <2>1 DEF SourcesKnown
  <1>13. LineageIsLinear'
    BY <1>6 DEF LineageIsLinear
  <1>14. CandidatesKnown'
    BY <1>5, <1>6 DEF CandidatesKnown
  <1> QED BY <1>7, <1>8, <1>9, <1>10, <1>11, <1>12, <1>13, <1>14

LEMMA StatusKeeps ==
    ASSUME Tables, NEW i \in Items, NEW status \in ImportStatuses, import[i] # None,
           IF import[i].status \in Reviewable THEN status = "compiled" ELSE status \notin Reviewable,
           import' = [import EXCEPT ![i].status = status],
           UNCHANGED <<connVars, item, members, remote>>,
           acquire' \in [Items -> Nat], extract' \in [Items -> Nat],
           \A j \in Items : acquire'[j] > 0 => Known(j)
    PROVE  Tables' /\ RowsStay
  <1>1. import[i] \in ImportRows
    BY DEF Tables, RowsTyped
  <1>2. PICK row : row = [import[i] EXCEPT !.status = status]
    OBVIOUS
  <1>3. /\ row \in ImportRows /\ row.status = status /\ row.stored = import[i].stored
        /\ row.parent = import[i].parent /\ row.revision = import[i].revision
        /\ row.source = import[i].source
    BY <1>1, <1>2 DEF ImportRows
  <1>4. row.stored = "complete" <=> row.status \in Reviewable
    BY <1>3 DEF Tables, CandidatesKnown, Reviewable
  <1>5. import[i].status = "compiled" => row.status = "compiled"
    BY <1>3 DEF Reviewable
  <1>6. import' = [import EXCEPT ![i] = row]
    BY <1>2
  <1> QED BY <1>3, <1>4, <1>5, <1>6, ImportKeeps

-----------------------------------------------------------------------------
(* CreatePolicyImport and what follows, of workers and requests *)

Making == {"create", "store", "member", "queue"}

LEMMA Owner ==
    ASSUME SourceInv, NEW a \in Actors, at[a].step \in Making
    PROVE  /\ at[a].item \in Items /\ at[a].parent \in Items \cup {None} /\ at[a].version \in Nat
           /\ at[a].step = "create" =>
                  /\ Before(a, at[a], at[a].item) /\ import[at[a].item] = None
                  /\ at[a].parent = None \/ import[at[a].parent] # None
           /\ at[a].step # "create" =>
                  /\ Holds(at[a], at[a].item) /\ import[at[a].item] # None
                  /\ import[at[a].item].status = StatusAt(at[a].step)
           /\ a \in Workers \/ Kind[a] # "revise" => Known(at[a].item)
  <1>1. PICK i : i = at[a].item
    OBVIOUS
  <1>2. CASE a \in Workers
    <2>1. /\ i \in Items /\ at[a] \in Acquisition(i) /\ Known(i) /\ Core(at[a]) = at[a]
          /\ (at[a].step = "create" => Before(a, at[a], i))
          /\ (at[a].step # "create" => Holds(at[a], i))
          /\ (at[a].step = "create" => at[a].parent = None \/ import[at[a].parent] # None)
      BY <1>1, <1>2, Acquirer DEF Fetching, Making, Keeping
    <2>2. at[a].parent \in Items \cup {None} /\ at[a].version \in Nat
      BY <2>1 DEF Acquisition, Making
    <2>3. OwnedStatus(i)
      BY <2>1 DEF SourceInv, Owners
    <2> QED BY <1>1, <2>1, <2>2, <2>3 DEF OwnedStatus
  <1>3. CASE a \in Batches
    <2>1. /\ i \in Items /\ at[a] \in Upload(i, Makers) /\ Core(at[a]) = at[a]
          /\ (Kind[a] = "revise" \/ Known(i))
          /\ (at[a].step = "create" => at[a].parent = None \/ import[at[a].parent] # None)
      BY <1>1, <1>3, Maker DEF Makers, Making
    <2>2. at[a].parent \in Items \cup {None} /\ at[a].version \in Nat
      BY <2>1 DEF Upload
    <2>3. /\ at[a].step = "create" => Before(a, at[a], i)
          /\ at[a].step # "create" => Holds(at[a], i)
      BY <1>3, <2>1, MakerOwns
    <2>4. OwnedStatus(i)
      BY <2>1 DEF SourceInv, Owners
    <2> QED BY <1>1, <1>3, <2>1, <2>2, <2>3, <2>4, IngestionAssumption DEF OwnedStatus
  <1> QED BY <1>2, <1>3 DEF Actors

LEMMA MakesOn ==
    ASSUME SourceInv, NEW a \in Actors, at[a].step \in Making \cup {"record"}, NEW i, i = at[a].item,
           NEW step \in {"store", "record", "member", "queue", "job"},
           a \in Workers => step # "job" /\ (step = "record" => FileOf[i] # None),
           a \in Batches => step # "record" /\ at[a].step # "record",
           Goto(a, [at[a] EXCEPT !.step = step]),
           RowsStay, UNCHANGED <<acquire, extract>>,
           \A j \in Items : j # i => import'[j] = import[j],
           import'[i] # None, import'[i].status = StatusAt(step)
    PROVE  Takes(a, [at[a] EXCEPT !.step = step])
  <1>1. PICK y : y = [at[a] EXCEPT !.step = step]
    OBVIOUS
  <1>2. CASE a \in Workers
    <2>1. /\ i \in Items /\ at[a] \in Acquisition(i) /\ Known(i) /\ Core(at[a]) = at[a]
          /\ (at[a].step = "create" => Before(a, at[a], i))
          /\ (at[a].step # "create" => Holds(at[a], i))
      BY <1>2, Acquirer DEF Fetching, Making, Keeping
    <2>2. y \in Acquisition(i) /\ y.step = step /\ step \in Fetching
      BY <1>1, <1>2, <2>1 DEF Acquisition, Making, Fetching
    <2>3. /\ Core(y) = y
          /\ \A j : Before(a, y, j) <=> j = i /\ y.step \in Acquiring \cup {"create"}
          /\ \A j : Holds(y, j) <=> j = i /\ y.step \in Keeping
      BY <1>2, <2>1, <2>2, AcquirerOwns
    <2>4. step \notin Acquiring \cup {"create"} /\ Owns(a, at[a], i)
      BY <2>1 DEF Acquiring, Owns
    <2>5. ASSUME NEW j \in Items PROVE Passes(a, y, j)
      <3>1. CASE j = i
        BY <2>1, <2>2, <2>3, <2>4, <3>1, OwnedPass
      <3>2. CASE j # i
        BY <2>2, <2>3, <2>4, <3>2, SamePass
      <3> QED BY <3>1, <3>2
    <2>6. item'[i] # None
      BY <2>1 DEF RowsStay, Known
    <2>7. Takes(a, y)
      BY <1>1, <1>2, <2>1, <2>2, <2>5, <2>6, AcquirerTakes
    <2> QED BY <1>1, <2>7
  <1>3. CASE a \in Batches
    <2>1. /\ i \in Items /\ at[a] \in Upload(i, Makers) /\ Core(at[a]) = at[a]
          /\ at[a].rest \in Lists /\ i \notin Left(at[a].rest)
          /\ (\A j \in Left(at[a].rest) : Known(j))
          /\ (Kind[a] = "revise" \/ Known(i))
      BY <1>3, Maker DEF Makers, Making
    <2>2. y \in Upload(i, Makers) /\ y.step = step /\ y.rest = at[a].rest
      BY <1>1, <1>3, <2>1 DEF Upload, Makers
    <2>3. /\ Core(y) = y
          /\ \A j : Before(a, y, j) <=> j \in Left(y.rest)
          /\ \A j : Holds(y, j) <=> j = i
      BY <1>3, <2>1, <2>2, MakerOwns
    <2>4. /\ \A j : Before(a, at[a], j) <=> j \in Left(y.rest) \/ (j = i /\ at[a].step = "create")
          /\ \A j : Holds(at[a], j) <=> j = i /\ at[a].step # "create"
      BY <1>3, <2>1, <2>2, MakerOwns
    <2>5. ASSUME NEW j \in Items PROVE Passes(a, y, j)
      <3>1. CASE j = i
        BY <2>1, <2>2, <2>3, <2>4, <3>1, OwnedPass DEF Owns
      <3>2. CASE j # i
        BY <2>2, <2>3, <2>4, <3>2, SamePass
      <3> QED BY <3>1, <3>2
    <2>6. /\ Kind[a] = "revise" \/ item'[i] # None
          /\ \A j \in Left(y.rest) : item'[j] # None
      BY <2>1, <2>2, LeftItems DEF RowsStay, Known
    <2>7. Takes(a, y)
      BY <1>1, <1>3, <2>1, <2>2, <2>5, <2>6, MakerTakes
    <2> QED BY <1>1, <2>7
  <1> QED BY <1>2, <1>3 DEF Actors

(* What follows an error owns no more than the files an upload has left.    *)
LEMMA ErrorTakes ==
    ASSUME SourceInv, NEW a \in Actors, at[a].step \in Making, NEW i, i = at[a].item,
           NEW imp \in Items \cup {None}, Goto(a, OnError(a, imp)),
           RowsStay, UNCHANGED <<acquire, extract>>,
           \A j \in Items : j # i => import'[j] = import[j]
    PROVE  Takes(a, OnError(a, imp))
  <1>1. PICK y : y = OnError(a, imp)
    OBVIOUS
  <1>2. i \in Items /\ Owns(a, at[a], i)
    BY Owner DEF Owns
  <1>3. CASE y = Free
    <2>1. /\ WorkerForm(y) /\ RequestForm(y)
          /\ Core(y) = y /\ y.step \in {"free", "stopped", "recompute"}
          /\ \A j : ~Owns(a, y, j)
      BY <1>3, RestingForm DEF Resting
    <2>2. ASSUME NEW j \in Items PROVE Passes(a, y, j)
      <3>1. CASE j = i
        BY <1>2, <2>1, <3>1, OwnedPass DEF Owns
      <3>2. CASE j # i
        BY <2>1, <3>2, SamePass DEF Owns
      <3> QED BY <3>1, <3>2
    <2>3. at'[a] = y
      BY <1>1, OthersStay DEF SourceInv
    <2>4. Knows(a)' /\ KnowsWorker(a)' /\ KnowsRequest(a)'
      BY <2>1, <2>3 DEF Knows, KnowsWorker, KnowsRequest, Core, Acquiring
    <2> QED BY <1>1, <2>1, <2>2, <2>4 DEF Takes
  <1>4. CASE y # Free
    <2>1. a \in Batches /\ Kind[a] # "revise" /\ y = UploadFails(a, imp)
      BY <1>1, <1>4 DEF OnError, Actors
    <2>2. /\ at[a] \in Upload(i, Makers) /\ Core(at[a]) = at[a]
          /\ at[a].rest \in Lists /\ i \notin Left(at[a].rest)
          /\ (\A j \in Left(at[a].rest) : Known(j))
          /\ Known(i)
      BY <2>1, Maker DEF Makers, Making
    <2>3. PICK rest : rest = at[a].rest
      OBVIOUS
    <2>4. y = Setting(i, "failed", imp, Todo("next", rest), Todo("next", rest))
      BY <2>1, <2>3 DEF UploadFails
    <2>5. Listing(y, rest) /\ y.item = i /\ rest \in Lists
      BY <1>2, <2>2, <2>3, <2>4 DEF Listing, Setting
    <2>6. /\ \A j : Before(a, y, j) <=> j \in Left(rest)
          /\ \A j : ~Holds(y, j)
      BY <2>1, <2>5, ListingOwns
    <2>7. \A j \in Left(rest) : Before(a, at[a], j)
      BY <1>2, <2>1, <2>2, <2>3, MakerOwns
    <2>8. ASSUME NEW j \in Items PROVE Passes(a, y, j)
      <3>1. CASE j = i
        BY <1>2, <2>2, <2>3, <2>6, <3>1, OwnedPass
      <3>2. CASE j # i
        BY <2>6, <2>7, <3>2, SamePass
      <3> QED BY <3>1, <3>2
    <2>9. item'[i] # None /\ \A j \in Left(rest) : item'[j] # None
      BY <1>2, <2>2, <2>3, LeftItems DEF RowsStay, Known
    <2>10. Takes(a, y)
      BY <1>1, <2>1, <2>5, <2>8, <2>9, ListingTakes
    <2> QED BY <1>1, <2>10
  <1> QED BY <1>3, <1>4

(* A new import keeps the lineages linear: its source is new, or it follows *)
(* a compiled revision that no other revision follows.                      *)
LEMMA ImportAdded ==
    ASSUME Tables, NEW i \in Items, import[i] = None,
           NEW p \in Items \cup {None}, p = None \/ import[p] # None, NEW version \in Nat,
           Supersedes(p, version), RevisionFree(p),
           import' = [import EXCEPT ![i] =
               [parent |-> p, revision |-> Revision(p), source |-> Source(i, p),
                status |-> "uploading", stored |-> "none", version |-> version]],
           UNCHANGED <<connVars, item, members, remote, acquire, extract>>
    PROVE  Tables' /\ RowsStay /\ import'[i] # None /\ import'[i].status = "uploading"
  <1>1. PICK row : row = [parent |-> p, revision |-> Revision(p), source |-> Source(i, p),
                          status |-> "uploading", stored |-> "none", version |-> version]
    OBVIOUS
  <1>2. /\ \A j \in Items : import[j] # None => import[j] \in ImportRows
        /\ i # None
    BY IngestionAssumption DEF Tables, RowsTyped
  <1>3. p # None => /\ p \in Items /\ p # i /\ import[p] \in ImportRows /\ import[p] # None
                    /\ import[p].status = "compiled"
                    /\ Revision(p) = import[p].revision + 1 /\ Source(i, p) = import[p].source
    BY <1>2 DEF Supersedes, Revision, Source
  <1>4. p = None => Revision(p) = 1 /\ Source(i, p) = i
    BY DEF Revision, Source
  <1>5. Revision(p) \in Nat /\ Source(i, p) \in Items
    BY <1>3, <1>4 DEF ImportRows
  <1>6. row \in ImportRows
    BY <1>1, <1>5 DEF ImportRows, ImportStatuses
  <1>7. row # None
    BY <1>6, IngestionAssumption
  <1>8. /\ import' = [j \in Items |-> import'[j]] /\ import'[i] = row
        /\ \A j \in Items : j # i => import'[j] = import[j]
    BY <1>1 DEF Tables, RowsTyped
  <1>9. RowsStay
    BY <1>7, <1>8 DEF RowsStay, ReviewedImport, connVars
  <1> USE DEF Tables, connVars
  <1>10. ConnInv'
    BY DEF ConnInv, ConnTypeOK, CallbacksKnown, StateUsedOnce, SealedForOwner
  <1>11. RowsTyped'
    BY <1>6, <1>7, <1>8 DEF RowsTyped
  <1>12. FilesKnown' /\ JobsKnown'
    BY DEF FilesKnown, JobsKnown, Known
  <1>13. LastKnown'
    BY <1>7, <1>8, SubscriptionsTyped DEF LastKnown, SubscriptionRows
  <1>14. SourcesKnown'
    <2>1. ASSUME NEW j \in Items, import'[j] # None
          PROVE  /\ import'[import'[j].source] # None
                 /\ import'[j].parent # None => import'[import'[j].parent] # None
      <3>1. CASE j = i
        <4>1. import'[j].source = Source(i, p) /\ import'[j].parent = p
          BY <1>1, <1>8, <3>1
        <4>2. CASE p = None
          BY <1>4, <1>7, <1>8, <4>1, <4>2
        <4>3. CASE p # None
          <5>1. import[import[p].source] # None /\ import[p].source \in Items
            BY <1>3, <4>3 DEF SourcesKnown, ImportRows
          <5> QED BY <1>3, <1>7, <1>8, <4>1, <4>3, <5>1
        <4> QED BY <4>2, <4>3
      <3>2. CASE j # i
        <4>1. import'[j] = import[j] /\ import[j] \in ImportRows
          BY <1>2, <1>8, <2>1, <3>2
        <4>2. /\ import[import[j].source] # None
              /\ import[j].parent # None => import[import[j].parent] # None
          BY <2>1, <4>1 DEF SourcesKnown
        <4>3. import[j].source \in Items /\ import[j].parent \in Items \cup {None}
          BY <4>1 DEF ImportRows
        <4> QED BY <1>7, <1>8, <4>1, <4>2, <4>3
      <3> QED BY <3>1, <3>2
    <2> QED BY <2>1 DEF SourcesKnown
  <1>15. LineageIsLinear'
    <2>1. ASSUME NEW j \in Items, import[j] # None
          PROVE  /\ ~(import[j].source = Source(i, p) /\ import[j].revision = Revision(p))
                 /\ import[j].parent # i
      <3>1. import[import[j].source] # None
            /\ (import[j].parent # None => import[import[j].parent] # None)
        BY <2>1 DEF SourcesKnown
      <3>2. import[j].parent # i /\ import[j].source # i
        BY <1>2, <3>1
      <3>3. CASE p = None
        BY <1>4, <3>2, <3>3
      <3>4. CASE p # None
        <4>1. ~(import[j].source = Source(j, p) /\ import[j].revision = Revision(p))
          BY <2>1, <3>4 DEF RevisionFree
        <4>2. Source(j, p) = Source(i, p)
          BY <3>4 DEF Source
        <4> QED BY <3>2, <4>1, <4>2
      <3> QED BY <3>3, <3>4
    <2>2. ASSUME NEW j \in Items, NEW k \in Items, import'[j] # None, import'[k] # None,
                 import'[j].source = import'[k].source, import'[j].revision = import'[k].revision
          PROVE  j = k
      <3>1. import'[i].source = Source(i, p) /\ import'[i].revision = Revision(p)
        BY <1>1, <1>8
      <3>2. CASE j # i /\ k # i
        BY <1>8, <2>2, <3>2 DEF LineageIsLinear
      <3>3. CASE j = i /\ k # i
        BY <1>8, <2>1, <2>2, <3>1, <3>3
      <3>4. CASE j # i /\ k = i
        BY <1>8, <2>1, <2>2, <3>1, <3>4
      <3> QED BY <3>2, <3>3, <3>4
    <2>3. ASSUME NEW j \in Items, NEW k \in Items, import'[j] # None, import'[k] # None,
                 import'[j].parent = k
          PROVE  /\ import'[k].status = "compiled"
                 /\ import'[k].source = import'[j].source
                 /\ import'[k].revision + 1 = import'[j].revision
      <3>1. import'[i].source = Source(i, p) /\ import'[i].revision = Revision(p)
            /\ import'[i].parent = p
        BY <1>1, <1>8
      <3>2. CASE j = i
        <4>1. k = p /\ p # None
          BY <2>3, <3>1, <3>2, IngestionAssumption
        <4> QED BY <1>3, <1>8, <3>1, <3>2, <4>1
      <3>3. CASE j # i
        <4>1. import[j] # None /\ import[j].parent = k /\ k # i
          BY <1>8, <2>1, <2>3, <3>3
        <4> QED BY <1>8, <2>3, <3>3, <4>1 DEF LineageIsLinear
      <3> QED BY <3>2, <3>3
    <2> QED BY <2>2, <2>3 DEF LineageIsLinear
  <1>16. CandidatesKnown'
    BY <1>1, <1>7, <1>8 DEF CandidatesKnown, ReviewedImport, Reviewable
  <1> QED BY <1>1, <1>7, <1>8, <1>9, <1>10, <1>11, <1>12, <1>13, <1>14, <1>15, <1>16

LEMMA CreateImportKeeps ==
    ASSUME SourceInv, NEW a \in Actors, CreateImport(a)
    PROVE  SourceInv'
  <1>1. PICK i : i = at[a].item
    OBVIOUS
  <1>2. PICK p : p = at[a].parent
    OBVIOUS
  <1>3. PICK v : v = at[a].version
    OBVIOUS
  <1>4. /\ at[a].step = "create" /\ Tables
        /\ UNCHANGED <<connVars, item, members, remote, acquire, extract>>
    BY DEF CreateImport, At, SourceInv
  <1>5. /\ i \in Items /\ import[i] = None /\ p \in Items \cup {None} /\ v \in Nat
        /\ (p = None \/ import[p] # None)
    BY <1>1, <1>2, <1>3, <1>4, Owner DEF Making
  <1>6. CASE /\ Supersedes(p, v) /\ RevisionFree(p)
             /\ import' = [import EXCEPT ![i] =
                    [parent |-> p, revision |-> Revision(p), source |-> Source(i, p),
                     status |-> "uploading", stored |-> "none", version |-> v]]
             /\ Goto(a, [at[a] EXCEPT !.step = "store"])
    <2>1. Tables' /\ RowsStay /\ import'[i] # None /\ import'[i].status = "uploading"
      BY <1>4, <1>5, <1>6, ImportAdded
    <2>2. \A j \in Items : j # i => import'[j] = import[j]
      BY <1>6 DEF SourceInv, Tables, RowsTyped
    <2>3. Takes(a, [at[a] EXCEPT !.step = "store"])
      BY ZenonT(30), <1>1, <1>4, <1>6, <2>1, <2>2, MakesOn DEF Making, StatusAt
    <2> QED BY <1>6, <2>1, <2>3, StepKeeps
  <1>7. CASE Goto(a, OnError(a, None)) /\ UNCHANGED import
    <2>1. OnlyReads /\ UNCHANGED <<acquire, extract>>
      BY <1>4, <1>7 DEF OnlyReads
    <2>2. Takes(a, OnError(a, None))
      BY <1>1, <1>4, <1>7, <2>1, ReadsStay, ErrorTakes DEF Making
    <2> QED BY <1>7, <2>1, <2>2, ReadStep
  <1> QED BY <1>1, <1>2, <1>3, <1>6, <1>7 DEF CreateImport

LEMMA StoredKeeps ==
    ASSUME SourceInv, NEW a \in Actors, Stored(a)
    PROVE  SourceInv'
  <1>1. PICK i : i = at[a].item
    OBVIOUS
  <1>2. PICK step : step =
            IF a \in Batches THEN (IF Kind[a] = "revise" THEN "job" ELSE "member")
            ELSE IF FileOf[i] # None THEN "record"
            ELSE IF BatchOf[i] \in Gathered THEN "member" ELSE "queue"
    OBVIOUS
  <1>3. /\ at[a].step = "store" /\ Tables
        /\ import' = [import EXCEPT ![i].status = "queued"]
        /\ Goto(a, [at[a] EXCEPT !.step = step])
        /\ UNCHANGED <<connVars, item, members, remote, acquire, extract>>
    BY <1>1, <1>2 DEF Stored, At, SourceInv
  <1>4. i \in Items /\ import[i] # None /\ import[i].status = "uploading"
    BY <1>1, <1>3, Owner DEF Making, StatusAt
  <1>5. import[i].status \notin Reviewable /\ "queued" \in ImportStatuses \ Reviewable
    BY <1>4 DEF Reviewable, ImportStatuses
  <1>6. acquire \in [Items -> Nat] /\ extract \in [Items -> Nat] /\ import[i] \in ImportRows
        /\ \A j \in Items : acquire[j] > 0 => Known(j)
    BY <1>3, <1>4 DEF Tables, RowsTyped, JobsKnown
  <1>7. Tables' /\ RowsStay
    BY <1>3, <1>4, <1>5, <1>6, StatusKeeps
  <1>8. /\ \A j \in Items : j # i => import'[j] = import[j]
        /\ import'[i] = [import[i] EXCEPT !.status = "queued"]
    BY <1>3, <1>4 DEF Tables, RowsTyped
  <1>9. import'[i] # None /\ import'[i].status = "queued"
    BY <1>4, <1>6, <1>7, <1>8 DEF RowsStay, ImportRows
  <1>10. /\ step \in {"record", "member", "queue", "job"} /\ StatusAt(step) = "queued"
         /\ (a \in Workers => step # "job" /\ (step = "record" => FileOf[i] # None))
         /\ (a \in Batches => step # "record")
    BY <1>2, IngestionAssumption DEF StatusAt
  <1>11. Takes(a, [at[a] EXCEPT !.step = step])
    <2>1. at[a].step \in Making \cup {"record"} /\ at[a].step # "record"
      BY <1>3 DEF Making
    <2>2. UNCHANGED <<acquire, extract>>
      BY <1>3
    <2>3. import'[i] # None /\ import'[i].status = StatusAt(step)
      BY <1>9, <1>10
    <2>4. step \in {"store", "record", "member", "queue", "job"}
      BY <1>10
    <2>5. Goto(a, [at[a] EXCEPT !.step = step])
      BY <1>3
    <2> QED BY ZenonT(30), <1>1, <1>7, <1>8, <1>10, <2>1, <2>2, <2>3, <2>4, <2>5, MakesOn
  <1> QED BY <1>3, <1>7, <1>11, StepKeeps

LEMMA StoreFailsKeeps ==
    ASSUME SourceInv, NEW a \in Actors, StoreFails(a)
    PROVE  SourceInv'
  <1>1. PICK i : i = at[a].item
    OBVIOUS
  <1>2. /\ at[a].step = "store" /\ Tables
        /\ import' = [import EXCEPT ![i].status = "failed_retryable"]
        /\ Goto(a, OnError(a, None))
        /\ UNCHANGED <<connVars, item, members, remote, acquire, extract>>
    BY <1>1 DEF StoreFails, At, SourceInv
  <1>3. i \in Items /\ import[i] # None /\ import[i].status = "uploading"
    BY <1>1, <1>2, Owner DEF Making, StatusAt
  <1>4. import[i].status \notin Reviewable /\ "failed_retryable" \in ImportStatuses \ Reviewable
    BY <1>3 DEF Reviewable, ImportStatuses
  <1>5. acquire \in [Items -> Nat] /\ extract \in [Items -> Nat]
        /\ \A j \in Items : acquire[j] > 0 => Known(j)
    BY <1>2 DEF Tables, RowsTyped, JobsKnown
  <1>6. Tables' /\ RowsStay
    BY <1>2, <1>3, <1>4, <1>5, StatusKeeps
  <1>7. \A j \in Items : j # i => import'[j] = import[j]
    BY <1>2 DEF Tables, RowsTyped
  <1>8. Takes(a, OnError(a, None))
    BY <1>1, <1>2, <1>6, <1>7, ErrorTakes DEF Making
  <1> QED BY <1>2, <1>6, <1>8, StepKeeps

LEMMA AddMemberKeeps ==
    ASSUME SourceInv, NEW a \in Actors, AddMember(a)
    PROVE  SourceInv'
  <1>1. PICK i : i = at[a].item
    OBVIOUS
  <1>2. /\ at[a].step = "member" /\ Tables
        /\ UNCHANGED <<connVars, item, import, remote, acquire, extract>>
    BY DEF AddMember, At, SourceInv
  <1>3. i \in Items /\ import[i] # None /\ import[i].status = "queued"
    BY <1>1, <1>2, Owner DEF Making, StatusAt
  <1>4. CASE members' = members \cup {i} /\ Goto(a, [at[a] EXCEPT !.step = "queue"])
    <2>1. RowsStay
      BY <1>2 DEF RowsStay, ReviewedImport, connVars
    <2>2. Tables'
      <3> USE DEF Tables, connVars
      <3>1. ConnInv'
        BY <1>2 DEF ConnInv, ConnTypeOK, CallbacksKnown, StateUsedOnce, SealedForOwner
      <3>2. RowsTyped'
        BY <1>2, <1>3, <1>4 DEF RowsTyped
      <3>3. FilesKnown' /\ JobsKnown' /\ LastKnown'
        BY <1>2 DEF FilesKnown, JobsKnown, LastKnown, Known
      <3>4. SourcesKnown' /\ LineageIsLinear' /\ CandidatesKnown'
        BY <1>2 DEF SourcesKnown, LineageIsLinear, CandidatesKnown, ReviewedImport
      <3> QED BY <3>1, <3>2, <3>3, <3>4
    <2>3. Takes(a, [at[a] EXCEPT !.step = "queue"])
      BY <1>1, <1>2, <1>3, <1>4, <2>1, MakesOn DEF Making, StatusAt
    <2> QED BY <1>4, <2>1, <2>2, <2>3, StepKeeps
  <1>5. CASE Goto(a, OnError(a, i)) /\ UNCHANGED members
    <2>1. OnlyReads /\ UNCHANGED <<acquire, extract>>
      BY <1>2, <1>5 DEF OnlyReads
    <2>2. Takes(a, OnError(a, i))
      BY <1>1, <1>2, <1>3, <1>5, <2>1, ReadsStay, ErrorTakes DEF Making
    <2> QED BY <1>5, <2>1, <2>2, ReadStep
  <1> QED BY <1>1, <1>4, <1>5 DEF AddMember

-----------------------------------------------------------------------------
(* Extraction *)

LEMMA ExtractingForm ==
    ASSUME NEW i \in Items, NEW w \in Workers,
           NEW y \in Processing(i) \cup Queueing(i) \cup Extraction(i, {"extract", "finish"})
    PROVE  /\ WorkerForm(y) /\ Core(y).step \in {"extract", "finish"} /\ Core(y).item = i
           /\ y.step \in {"set", "write"} =>
                  Core(y).step = "extract" /\ y.item = i /\ y.to # "review_required"
           /\ y.step \in {"set", "write", "extract", "finish"}
           /\ y.step \in {"extract", "finish"} => Core(y) = y
           /\ \A j : ~Before(w, y, j)
           /\ \A j : Holds(y, j) <=> j = i
  <1>1. ASSUME NEW v \in Extraction(i, {"extract", "finish"})
        PROVE  v.step \in {"extract", "finish"} /\ v.item = i /\ Core(v) = v
    BY DEF Extraction, Core
  <1>2. ASSUME NEW v \in Processing(i)
        PROVE  /\ v.step \in {"set", "write"} /\ v.item = i /\ v.to = "processing"
               /\ Core(v) = v.then /\ v.then.step = "extract" /\ v.then.item = i
    <2>1. /\ v.step \in {"set", "write"} /\ v.item = i /\ v.to = "processing"
          /\ v.then \in Extraction(i, {"extract"})
      BY DEF Processing, Sets
    <2>2. v.then.step = "extract" /\ v.then.item = i
      BY <2>1 DEF Extraction
    <2> QED BY <2>1, <2>2 DEF Core
  <1>3. ASSUME NEW v \in Queueing(i)
        PROVE  /\ v.step \in {"set", "write"} /\ v.item = i /\ v.to = "queued"
               /\ Core(v) = v.then.then /\ v.then.then.step = "extract" /\ v.then.then.item = i
    <2>1. /\ v.step \in {"set", "write"} /\ v.item = i /\ v.to = "queued"
          /\ v.then \in Processing(i) /\ v.then.step = "set"
      BY DEF Queueing, Sets
    <2>2. v.then.then.step = "extract" /\ v.then.then.item = i
      BY <1>2, <2>1
    <2> QED BY <2>1, <2>2 DEF Core
  <1>4. /\ WorkerForm(y) /\ Core(y).step \in {"extract", "finish"} /\ Core(y).item = i
        /\ (y.step \in {"set", "write"} =>
                Core(y).step = "extract" /\ y.item = i /\ y.to # "review_required")
        /\ y.step \in {"set", "write", "extract", "finish"}
        /\ (y.step \in {"extract", "finish"} => Core(y) = y)
    <2>1. CASE y \in Extraction(i, {"extract", "finish"})
      BY <1>1, <2>1 DEF WorkerForm
    <2>2. CASE y \in Processing(i)
      BY <1>2, <2>2 DEF WorkerForm
    <2>3. CASE y \in Queueing(i)
      BY <1>3, <2>3 DEF WorkerForm
    <2> QED BY <2>1, <2>2, <2>3
  <1>5. \A j : ~Before(w, y, j)
    BY <1>4, IngestionAssumption DEF Before, Ahead, Acquiring
  <1>6. \A j : Holds(y, j) <=> j = i
    BY <1>4 DEF Holds, Keeping
  <1> QED BY <1>4, <1>5, <1>6

LEMMA ExtractingTakes ==
    ASSUME SourceInv, NEW i \in Items, NEW w \in Workers,
           NEW y \in Processing(i) \cup Queueing(i) \cup Extraction(i, {"extract", "finish"}),
           Goto(w, y),
           item'[i] # None \/ (y.step \in {"extract", "finish"} /\ y.onError = Free),
           \A j \in Items : Passes(w, y, j)
    PROVE  Takes(w, y)
  <1>1. at'[w] = y /\ w \notin Batches
    BY OthersStay, IngestionAssumption DEF SourceInv, Actors
  <1>2. /\ WorkerForm(y) /\ Core(y).step \in {"extract", "finish"} /\ Core(y).item = i
        /\ (y.step \in {"set", "write"} =>
                Core(y).step = "extract" /\ y.item = i /\ y.to # "review_required")
        /\ y.step \in {"set", "write", "extract", "finish"}
        /\ (y.step \in {"extract", "finish"} => Core(y) = y)
    BY ExtractingForm
  <1>3. Knows(w)'
    BY <1>1, <1>2 DEF Knows, Known, Core
  <1>4. KnowsWorker(w)'
    BY <1>1, <1>2 DEF KnowsWorker, Core, Acquiring
  <1> QED BY <1>1, <1>2, <1>3, <1>4 DEF Takes

LEMMA QueueKeeps ==
    ASSUME SourceInv, NEW a \in Actors, a \in Workers \/ Kind[a] # "revise", Queue(a)
    PROVE  SourceInv'
  <1>1. PICK i : i = at[a].item
    OBVIOUS
  <1>2. /\ at[a].step = "queue" /\ OnlyReads /\ UNCHANGED <<acquire, extract>>
    BY DEF Queue, At, OnlyReads
  <1>3. i \in Items /\ import[i] # None /\ import[i].status = "queued"
    BY <1>1, <1>2, Owner DEF Making, StatusAt
  <1>4. RowsStay /\ UNCHANGED import
    BY <1>2, ReadsStay DEF SourceInv, OnlyReads
  <1>5. CASE a \in Workers
    <2>1. PICK own : own = [item |-> i, onError |-> Free, step |-> "extract"]
      OBVIOUS
    <2>2. PICK z : z = Setting(i, "processing", i, own, Free)
      OBVIOUS
    <2>3. PICK y : y = Setting(i, "queued", i, z, Free)
      OBVIOUS
    <2>4. Goto(a, y)
      BY <1>1, <1>5, <2>1, <2>2, <2>3, IngestionAssumption DEF Queue
    <2>5. own \in Extraction(i, {"extract"})
      BY <2>1 DEF Extraction, OnFail
    <2>6. z \in Processing(i) /\ z.step = "set"
      BY <2>2, <2>5 DEF Setting, Processing, Sets
    <2>7. y \in Queueing(i)
      BY <2>3, <2>6 DEF Setting, Queueing, Sets
    <2>8. /\ \A j : ~Before(a, y, j)
          /\ \A j : Holds(y, j) <=> j = i
          /\ Core(y).step \in {"extract", "finish"} /\ y.step = "set"
          /\ (y.step = "set" => Core(y).step = "extract")
      <3>1. y.step = "set"
        BY <2>3 DEF Setting
      <3> QED BY <1>3, <1>5, <2>7, <3>1, ExtractingForm
    <2>9. Known(i) /\ Core(at[a]) = at[a] /\ Holds(at[a], i)
      BY <1>1, <1>2, <1>5, Acquirer DEF Fetching, Keeping
    <2>10. ASSUME NEW j \in Items PROVE Passes(a, y, j)
      BY <1>2, <1>4, <2>8, <2>9, SamePass DEF StatusAt
    <2>11. item'[i] # None
      BY <1>3, <1>4, <2>9 DEF RowsStay, Known
    <2>12. Takes(a, y)
      BY <1>3, <1>5, <2>4, <2>7, <2>10, <2>11, ExtractingTakes
    <2> QED BY <1>2, <2>4, <2>12, ReadStep
  <1>6. CASE a \in Batches
    <2>1. PICK job : job = [at[a] EXCEPT !.step = "job"]
      OBVIOUS
    <2>2. PICK y : y = Setting(i, "queued", i, job, job)
      OBVIOUS
    <2>3. Goto(a, y)
      BY <1>1, <1>6, <2>1, <2>2 DEF Queue
    <2>4. /\ at[a] \in Upload(i, Makers) /\ Core(at[a]) = at[a]
          /\ at[a].rest \in Lists /\ i \notin Left(at[a].rest)
          /\ (\A j \in Left(at[a].rest) : Known(j))
          /\ (Kind[a] = "revise" \/ Known(i))
      BY <1>1, <1>2, <1>6, Maker DEF Makers
    <2>5. job \in Upload(i, {"job"}) /\ job.step = "job" /\ job.rest = at[a].rest /\ job.item = i
      BY <2>1, <2>4 DEF Upload
    <2>6. /\ y \in QueueingUpload(i) /\ y.then = y.else /\ y.step = "set"
          /\ y.item = i /\ y.to = "queued" /\ Core(y) = job
      BY <2>2, <2>5 DEF Setting, QueueingUpload, Sets, Core
    <2>7. RequestForm(y)
      BY <1>3, <2>6 DEF RequestForm
    <2>8. job \in Upload(i, Makers)
      BY <2>5 DEF Upload, Makers
    <2>9. /\ \A j : Before(a, job, j) <=> j \in Left(job.rest)
          /\ \A j : Holds(job, j) <=> j = i
          /\ Core(job) = job
      BY <1>3, <1>6, <2>5, <2>8, MakerOwns
    <2>10. /\ \A j : Before(a, y, j) <=> j \in Left(job.rest)
           /\ \A j : Holds(y, j) <=> j = i
      <3>1. Ahead(a, y) = Left(job.rest)
        BY <1>6, <2>5, <2>6 DEF Ahead
      <3> QED BY <2>5, <2>6, <3>1 DEF Before, Holds, Acquiring, Keeping
    <2>11. /\ \A j : Before(a, at[a], j) <=> j \in Left(job.rest)
           /\ \A j : Holds(at[a], j) <=> j = i
      BY <1>2, <1>3, <1>6, <2>4, <2>5, MakerOwns
    <2>12. StatusAt(Core(y).step) = StatusAt(Core(at[a]).step)
      BY <1>2, <2>4, <2>5, <2>6 DEF StatusAt
    <2>13. ASSUME NEW j \in Items PROVE Passes(a, y, j)
      BY <1>2, <1>4, <2>10, <2>11, <2>12, SamePass
    <2>14. at'[a] = y /\ a \notin Workers
      BY <1>6, <2>3, OthersStay, IngestionAssumption DEF SourceInv
    <2>15. Kind[a] # "revise"
      BY <1>6, IngestionAssumption
    <2>16. item'[i] # None /\ \A j \in Left(job.rest) : item'[j] # None
      BY <1>3, <1>4, <2>4, <2>5, <2>15, LeftItems DEF RowsStay, Known
    <2>17. Knows(a)'
      BY <2>5, <2>6, <2>14, <2>16 DEF Knows, Known, Core
    <2>18. KnowsRequest(a)'
      BY <2>5, <2>6, <2>14, <2>16 DEF KnowsRequest, Known, Core
    <2>19. Takes(a, y)
      BY <1>6, <2>7, <2>13, <2>14, <2>17, <2>18 DEF Takes
    <2> QED BY <1>2, <2>3, <2>19, ReadStep
  <1> QED BY <1>5, <1>6 DEF Actors

(* The job of an import is taken: who takes it has the import alone.        *)
LEMMA JobTaken ==
    ASSUME SourceInv, NEW i \in Items, extract[i] > 0,
           extract' = [extract EXCEPT ![i] = @ - 1], UNCHANGED acquire
    PROVE  /\ acquire[i] = 0 /\ extract[i] = 1 /\ extract'[i] = 0
           /\ extract' \in [Items -> Nat] /\ acquire' \in [Items -> Nat]
           /\ \A j \in Items : j # i => extract'[j] = extract[j]
           /\ import[i] # None /\ import[i].status = "queued"
           /\ \A j \in Items : acquire'[j] > 0 => Known(j)
  <1>1. acquire \in [Items -> Nat] /\ extract \in [Items -> Nat]
    BY DEF SourceInv, Tables, RowsTyped
  <1>2. acquire[i] + extract[i] \in {0, 1}
    BY DEF SourceInv, Owners, OneOwner
  <1>3. acquire[i] = 0 /\ extract[i] = 1
    BY <1>1, <1>2
  <1>4. extract' \in [Items -> Nat] /\ extract'[i] = 0
        /\ \A j \in Items : j # i => extract'[j] = extract[j]
    BY <1>1, <1>3
  <1>5. import[i] # None /\ import[i].status = "queued"
    BY DEF SourceInv, Owners, OwnedStatus
  <1>6. \A j \in Items : acquire'[j] > 0 => Known(j)
    BY DEF SourceInv, Tables, JobsKnown
  <1> QED BY <1>1, <1>3, <1>4, <1>5, <1>6

LEMMA TakeExtractionKeeps ==
    ASSUME SourceInv, NEW w \in Workers, NEW i \in Items, TakeExtraction(w, i)
    PROVE  SourceInv'
  <1>1. PICK x : x = [item |-> i, onError |-> Setting(i, "failed", i, Recomputing(i), Free),
                      step |-> "extract"]
    OBVIOUS
  <1>2. PICK y : y = IF item[i] = None THEN [x EXCEPT !.onError = Free]
                     ELSE Setting(i, "processing", i, x, x)
    OBVIOUS
  <1>3. /\ at[w].step = "free" /\ extract[i] > 0 /\ Goto(w, y) /\ w \in Actors
        /\ extract' = [extract EXCEPT ![i] = @ - 1] /\ UNCHANGED acquire /\ OnlyReads
    BY <1>1, <1>2 DEF TakeExtraction, At, OnlyReads, Actors
  <1>4. /\ acquire[i] = 0 /\ extract[i] = 1 /\ extract'[i] = 0
        /\ extract' \in [Items -> Nat] /\ acquire' \in [Items -> Nat]
        /\ \A j \in Items : j # i => extract'[j] = extract[j]
        /\ import[i] # None /\ import[i].status = "queued"
        /\ \A j \in Items : acquire'[j] > 0 => Known(j)
    BY <1>3, JobTaken
  <1>5. Tables' /\ RowsStay
    BY <1>3, <1>4, JobsKeep, ReadsStay DEF SourceInv
  <1>6. x \in Extraction(i, {"extract"})
    BY <1>1 DEF Extraction, OnFail
  <1>7. y \in Processing(i) \cup Queueing(i) \cup Extraction(i, {"extract", "finish"})
    <2>1. CASE item[i] = None
      BY <1>1, <1>2, <2>1 DEF Extraction, OnFail
    <2>2. CASE item[i] # None
      BY <1>2, <1>6, <2>2 DEF Setting, Processing, Sets
    <2> QED BY <2>1, <2>2
  <1>8. /\ item[i] = None => y.step = "extract" /\ y.onError = Free
        /\ item[i] # None => y.step = "set"
    BY <1>1, <1>2 DEF Setting
  <1>9. /\ \A j : ~Before(w, y, j)
        /\ \A j : Holds(y, j) <=> j = i
        /\ Core(y).step = "extract"
    BY <1>7, <1>8, ExtractingForm
  <1>10. ASSUME NEW j \in Items PROVE Passes(w, y, j)
    <2>1. CASE j # i
      BY <1>3, <1>4, <1>9, <2>1, SamePass DEF OnlyReads
    <2>2. CASE j = i
      BY <1>3, <1>4, <1>9, <2>2 DEF OnlyReads, Passes, StatusAt
    <2> QED BY <2>1, <2>2
  <1>11. item'[i] # None \/ (y.step \in {"extract", "finish"} /\ y.onError = Free)
    BY <1>5, <1>8 DEF RowsStay
  <1>12. Takes(w, y)
    BY <1>3, <1>7, <1>10, <1>11, ExtractingTakes
  <1> QED BY <1>3, <1>5, <1>12, StepKeeps

LEMMA SetupFailsKeeps ==
    ASSUME SourceInv, NEW w \in Workers, NEW i \in Items, SetupFails(w, i)
    PROVE  SourceInv'
  <1>1. PICK y : y = IF item[i] = None THEN Free
                     ELSE Setting(i, "failed", i, Recomputing(i), Free)
    OBVIOUS
  <1>2. /\ at[w].step = "free" /\ extract[i] > 0 /\ Goto(w, y) /\ w \in Actors /\ Tables
        /\ extract' = [extract EXCEPT ![i] = @ - 1] /\ UNCHANGED acquire
        /\ import' = [import EXCEPT ![i].status = "failed_retryable"]
        /\ UNCHANGED <<connVars, item, members, remote>>
    BY <1>1 DEF SetupFails, At, Actors, SourceInv
  <1>3. /\ acquire[i] = 0 /\ extract[i] = 1 /\ extract'[i] = 0
        /\ extract' \in [Items -> Nat] /\ acquire' \in [Items -> Nat]
        /\ \A j \in Items : j # i => extract'[j] = extract[j]
        /\ import[i] # None /\ import[i].status = "queued"
        /\ \A j \in Items : acquire'[j] > 0 => Known(j)
    BY <1>2, JobTaken
  <1>4. import[i].status \notin Reviewable /\ "failed_retryable" \in ImportStatuses \ Reviewable
    BY <1>3 DEF Reviewable, ImportStatuses
  <1>5. Tables' /\ RowsStay
    BY <1>2, <1>3, <1>4, StatusKeeps
  <1>6. \A j \in Items : j # i => import'[j] = import[j]
    BY <1>2 DEF Tables, RowsTyped
  <1>7. \A j : ~Owns(w, y, j)
    <2>1. CASE item[i] = None
      BY <1>1, <2>1, RestingForm DEF Resting
    <2>2. CASE item[i] # None
      <3>1. y \in Closing(i)
        BY <1>1, <2>2 DEF Setting, Closing, Sets, Ended
      <3> QED BY <3>1, ClosingForm
    <2> QED BY <2>1, <2>2
  <1>8. ASSUME NEW j \in Items PROVE Passes(w, y, j)
    <2>1. CASE j # i
      BY <1>2, <1>3, <1>6, <1>7, <2>1, SamePass DEF Owns
    <2>2. CASE j = i
      BY <1>2, <1>3, <1>7, <2>2 DEF Passes, Owns
    <2> QED BY <2>1, <2>2
  <1>9. Takes(w, y)
    <2>1. CASE item[i] = None
      <3>1. WorkerForm(y) /\ RequestForm(y) /\ Core(y) = y /\ y.step = "free"
        BY <1>1, <2>1, RestingForm DEF Resting, Free
      <3>2. at'[w] = y
        BY <1>2, OthersStay DEF SourceInv
      <3>3. Knows(w)' /\ KnowsWorker(w)' /\ KnowsRequest(w)'
        BY <3>1, <3>2 DEF Knows, KnowsWorker, KnowsRequest, Core, Acquiring
      <3> QED BY <1>8, <3>1, <3>3 DEF Takes
    <2>2. CASE item[i] # None
      <3>1. y \in Closing(i) /\ y.to = "failed"
        BY <1>1, <2>2 DEF Setting, Closing, Sets, Ended
      <3>2. item'[i] # None
        BY <1>5, <2>2 DEF RowsStay
      <3> QED BY <1>2, <1>8, <3>1, <3>2, ClosingTakes
    <2> QED BY <2>1, <2>2
  <1> QED BY <1>2, <1>5, <1>9, StepKeeps

(* Who has begun or will begin the extraction of an import.                 *)
LEMMA Extractor ==
    ASSUME SourceInv, NEW w \in Workers, at[w].step \in {"extract", "finish"}
    PROVE  /\ at[w].item \in Items
           /\ at[w] \in Extraction(at[w].item, {"extract", "finish"})
           /\ Holds(at[w], at[w].item) /\ \A j : Holds(at[w], j) => j = at[w].item
           /\ at[w].onError = Free \/ Known(at[w].item)
           /\ import[at[w].item] # None
           /\ import[at[w].item].status = StatusAt(at[w].step)
  <1>1. PICK i : i = at[w].item
    OBVIOUS
  <1>2. i \in Items /\ at[w] \in Extraction(i, {"extract", "finish"})
    BY <1>1, WorkerShape DEF SourceInv, Forms
  <1>3. Core(at[w]) = at[w] /\ Holds(at[w], i) /\ \A j : Holds(at[w], j) => j = i
    BY <1>2, ExtractingForm
  <1>4. at[w].onError = Free \/ Known(i)
    BY <1>1, <1>3 DEF SourceInv, Knowledge, Knows, Actors
  <1>5. import[i] # None /\ import[i].status = StatusAt(at[w].step)
    BY <1>2, <1>3 DEF SourceInv, Owners, OwnedStatus, Actors
  <1> QED BY <1>1, <1>2, <1>3, <1>4, <1>5

LEMMA BeginExtractionKeeps ==
    ASSUME SourceInv, NEW w \in Workers, BeginExtraction(w)
    PROVE  SourceInv'
  <1>1. PICK i : i = at[w].item
    OBVIOUS
  <1>2. PICK y : y = [at[w] EXCEPT !.step = "finish"]
    OBVIOUS
  <1>3. /\ at[w].step = "extract" /\ Goto(w, y) /\ w \in Actors /\ Tables
        /\ import' = [import EXCEPT ![i].status = "parsing"]
        /\ UNCHANGED <<connVars, item, members, remote, acquire, extract>>
    BY <1>1, <1>2 DEF BeginExtraction, At, Actors, SourceInv
  <1>4. /\ i \in Items /\ at[w] \in Extraction(i, {"extract", "finish"})
        /\ Holds(at[w], i) /\ (at[w].onError = Free \/ Known(i))
        /\ import[i] # None /\ import[i].status = "queued"
    BY <1>1, <1>3, Extractor DEF StatusAt
  <1>5. import[i].status \notin Reviewable /\ "parsing" \in ImportStatuses \ Reviewable
    BY <1>4 DEF Reviewable, ImportStatuses
  <1>6. acquire \in [Items -> Nat] /\ extract \in [Items -> Nat] /\ import[i] \in ImportRows
        /\ \A j \in Items : acquire[j] > 0 => Known(j)
    BY <1>3, <1>4 DEF Tables, RowsTyped, JobsKnown
  <1>7. Tables' /\ RowsStay
    BY <1>3, <1>4, <1>5, <1>6, StatusKeeps
  <1>8. /\ \A j \in Items : j # i => import'[j] = import[j]
        /\ import'[i] = [import[i] EXCEPT !.status = "parsing"]
    BY <1>3, <1>4 DEF Tables, RowsTyped
  <1>9. import'[i] # None /\ import'[i].status = "parsing"
    BY <1>4, <1>6, <1>7, <1>8 DEF RowsStay, ImportRows
  <1>10. y \in Extraction(i, {"extract", "finish"}) /\ y.step = "finish"
         /\ y.onError = at[w].onError
    BY <1>2, <1>4 DEF Extraction
  <1>11. /\ \A j : ~Before(w, y, j)
         /\ \A j : Holds(y, j) <=> j = i
         /\ Core(y).step = "finish"
    BY <1>4, <1>10, ExtractingForm
  <1>12. ASSUME NEW j \in Items PROVE Passes(w, y, j)
    <2>1. CASE j # i
      BY <1>3, <1>8, <1>11, <2>1, SamePass
    <2>2. CASE j = i
      BY <1>3, <1>4, <1>9, <1>11, <2>2, OwnedPass DEF Owns, StatusAt
    <2> QED BY <2>1, <2>2
  <1>13. item'[i] # None \/ (y.step \in {"extract", "finish"} /\ y.onError = Free)
    BY <1>4, <1>7, <1>10 DEF RowsStay, Known
  <1>14. Takes(w, y)
    BY <1>3, <1>4, <1>10, <1>12, <1>13, ExtractingTakes
  <1> QED BY <1>3, <1>7, <1>14, StepKeeps

LEMMA FinishExtractionKeeps ==
    ASSUME SourceInv, NEW w \in Workers, NEW outcome \in Outcomes, FinishExtraction(w, outcome)
    PROVE  SourceInv'
  <1>1. PICK i : i = at[w].item
    OBVIOUS
  <1>2. PICK y : y = IF outcome \in Errors THEN at[w].onError
                     ELSE IF item[i] = None THEN Free
                     ELSE Setting(i, ItemStatus(outcome), i, Recomputing(i), Free)
    OBVIOUS
  <1>3. /\ at[w].step = "finish" /\ Goto(w, y) /\ w \in Actors /\ Tables
        /\ UNCHANGED <<connVars, item, members, remote, acquire, extract>>
    BY <1>1, <1>2 DEF FinishExtraction, At, Actors, SourceInv
  <1>4. /\ i \in Items /\ at[w] \in Extraction(i, {"extract", "finish"})
        /\ Holds(at[w], i) /\ (at[w].onError = Free \/ Known(i))
        /\ import[i] # None /\ import[i].status = "parsing"
    BY <1>1, <1>3, Extractor DEF StatusAt
  <1>5. PICK row : row = [import[i] EXCEPT
               !.status = IF outcome = "unmarked" THEN @
                          ELSE IF outcome = "partial" THEN "failed_retryable"
                          ELSE outcome,
               !.stored = IF outcome = "review_required" THEN "complete"
                          ELSE IF outcome = "partial" THEN "partial"
                          ELSE @]
    OBVIOUS
  <1>6. acquire \in [Items -> Nat] /\ extract \in [Items -> Nat] /\ import[i] \in ImportRows
        /\ \A j \in Items : acquire[j] > 0 => Known(j)
    BY <1>3, <1>4 DEF Tables, RowsTyped, JobsKnown
  <1>7. Tables' /\ RowsStay /\ (outcome \notin Errors /\ outcome # "needs_ocr" => ReviewedImport(i)')
    <2>1. import' = [import EXCEPT ![i] = row]
      BY <1>1, <1>5 DEF FinishExtraction
    <2>2. /\ row.parent = import[i].parent /\ row.revision = import[i].revision
          /\ row.source = import[i].source
          /\ row.status = IF outcome = "unmarked" THEN import[i].status
                          ELSE IF outcome = "partial" THEN "failed_retryable"
                          ELSE outcome
          /\ row.stored = IF outcome = "review_required" THEN "complete"
                          ELSE IF outcome = "partial" THEN "partial"
                          ELSE import[i].stored
      BY <1>5, <1>6 DEF ImportRows
    <2>3. row \in ImportRows
      BY <1>5, <1>6 DEF ImportRows, ImportStatuses, Outcomes, Errors
    <2>4. import[i].stored # "complete"
      BY <1>3, <1>4 DEF Tables, CandidatesKnown, Reviewable
    <2>5. row.stored = "complete" <=> row.status \in Reviewable
      BY <1>4, <2>2, <2>4 DEF Reviewable, Outcomes, Errors
    <2>6. import[i].stored # "none" => row.stored # "none"
      BY <2>2
    <2>7. Tables' /\ RowsStay
      BY <1>3, <1>4, <1>6, <2>1, <2>2, <2>3, <2>5, <2>6, ImportKeeps
    <2>8. import'[i] = row /\ row # None
      BY <1>3, <1>4, <2>1, <2>3, IngestionAssumption DEF Tables, RowsTyped
    <2> QED BY <2>2, <2>7, <2>8 DEF ReviewedImport, Outcomes, Errors
  <1>8. \A j \in Items : j # i => import'[j] = import[j]
    BY <1>1, <1>3 DEF Tables, RowsTyped, FinishExtraction
  <1>10. \/ y = Free
         \/ /\ y \in Closing(i) /\ Known(i)
            /\ y.to = "review_required" => ReviewedImport(i)'
    <2>1. at[w].onError \in OnFail(i)
      BY <1>4 DEF Extraction
    <2>2. CASE outcome \in Errors
      <3>1. y = at[w].onError
        BY <1>2, <2>2
      <3>2. CASE y = Free
        BY <3>2
      <3>3. CASE y # Free
        <4>1. y = Setting(i, "failed", i, Recomputing(i), Free) /\ Known(i)
          BY <1>4, <2>1, <3>1, <3>3 DEF OnFail
        <4> QED BY <1>4, <4>1 DEF Setting, Closing, Sets, Ended
      <3> QED BY <3>2, <3>3
    <2>3. CASE outcome \notin Errors /\ item[i] # None
      <3>1. y = Setting(i, ItemStatus(outcome), i, Recomputing(i), Free)
        BY <1>2, <2>3
      <3>2. ItemStatus(outcome) \in Ended
            /\ (ItemStatus(outcome) = "review_required" => ReviewedImport(i)')
        BY <1>7, <2>3 DEF ItemStatus, Ended
      <3> QED BY <1>4, <2>3, <3>1, <3>2 DEF Setting, Closing, Sets, Known
    <2>4. CASE outcome \notin Errors /\ item[i] = None
      BY <1>2, <2>4
    <2> QED BY <2>2, <2>3, <2>4
  <1>11. \A j : ~Owns(w, y, j)
    BY <1>4, <1>10, RestingForm, ClosingForm DEF Resting
  <1>12. ASSUME NEW j \in Items PROVE Passes(w, y, j)
    <2>1. CASE j # i
      BY <1>3, <1>8, <1>11, <2>1, SamePass DEF Owns
    <2>2. CASE j = i
      BY <1>3, <1>4, <1>11, <2>2, OwnedPass DEF Owns
    <2> QED BY <2>1, <2>2
  <1>13. Takes(w, y)
    <2>1. CASE y = Free
      <3>1. WorkerForm(y) /\ RequestForm(y) /\ Core(y) = y /\ y.step = "free"
        BY <2>1, RestingForm DEF Resting, Free
      <3>2. at'[w] = y
        BY <1>3, OthersStay DEF SourceInv
      <3>3. Knows(w)' /\ KnowsWorker(w)' /\ KnowsRequest(w)'
        BY <3>1, <3>2 DEF Knows, KnowsWorker, KnowsRequest, Core, Acquiring
      <3> QED BY <1>12, <3>1, <3>3 DEF Takes
    <2>2. CASE y # Free
      <3>1. y \in Closing(i) /\ Known(i) /\ (y.to = "review_required" => ReviewedImport(i)')
        BY <1>10, <2>2
      <3>2. item'[i] # None
        BY <1>4, <1>7, <3>1 DEF RowsStay, Known
      <3> QED BY <1>3, <1>4, <1>12, <3>1, <3>2, ClosingTakes
    <2> QED BY <2>1, <2>2
  <1> QED BY <1>3, <1>7, <1>13, StepKeeps

-----------------------------------------------------------------------------
(* The requests that make batches *)

LEMMA SubscribingTakes ==
    ASSUME SourceInv, NEW b \in Batches, at[b].step \in {"new", "subscribe", "insert"},
           NEW step \in {"subscribe", "insert"}, NEW rest \in Lists, step = "insert" => rest # <<>>,
           Goto(b, Todo(step, rest)), UNCHANGED <<import, acquire, extract>>,
           Kind[b] = "selection", conn' # None,
           \A i \in Left(ItemsOf[b]) : i \in Left(rest) \/ sub'[FileOf[i]] # None
    PROVE  Takes(b, Todo(step, rest))
  <1>1. PICK y : y = Todo(step, rest)
    OBVIOUS
  <1>2. /\ y \in [rest : Lists, step : {"subscribe", "insert", "enqueue", "next"}]
        /\ y.step = step /\ y.rest = rest
    BY <1>1 DEF Todo
  <1>3. at'[b] = y /\ b \notin Workers /\ b \in Actors
    BY <1>1, OthersStay, IngestionAssumption DEF SourceInv, Actors
  <1>4. Core(y) = y /\ RequestForm(y)
    BY <1>2 DEF Core, RequestForm
  <1>5. /\ \A j : Before(b, y, j) => Before(b, at[b], j)
        /\ \A j : ~Holds(y, j)
    BY <1>2, <1>4 DEF Before, Ahead, Holds, Acquiring, Keeping
  <1>6. \A j \in Items : Passes(b, y, j)
    BY <1>3, <1>5, SamePass
  <1>7. Knows(b)'
    BY <1>2, <1>3, <1>4 DEF Knows, Core
  <1>8. KnowsRequest(b)'
    BY <1>2, <1>3, <1>4 DEF KnowsRequest, Core
  <1> QED BY <1>1, <1>3, <1>4, <1>6, <1>7, <1>8 DEF Takes

LEMMA SelectKeeps ==
    ASSUME SourceInv, NEW b \in Batches, Select(b)
    PROVE  SourceInv'
  <1>1. /\ at[b].step = "new" /\ Kind[b] = "selection" /\ b \in Actors
        /\ OnlyReads /\ UNCHANGED <<acquire, extract>>
    BY DEF Select, At, OnlyReads, Actors
  <1>2. CASE Goto(b, Free)
    BY <1>1, <1>2, RestKeeps DEF Resting
  <1>3. CASE Active /\ Goto(b, Todo("subscribe", ItemsOf[b]))
    <2>1. conn' # None
      BY <1>1, <1>3 DEF Active, OnlyReads, connVars
    <2>2. UNCHANGED import
      BY <1>1 DEF OnlyReads
    <2>3. Takes(b, Todo("subscribe", ItemsOf[b]))
      BY <1>1, <1>3, <2>1, <2>2, BatchItems, SubscribingTakes
    <2> QED BY <1>1, <1>3, <2>3, ReadStep
  <1> QED BY <1>2, <1>3 DEF Select

LEMMA Subscriber ==
    ASSUME SourceInv, NEW b \in Batches, at[b].step \in {"subscribe", "insert"}
    PROVE  /\ at[b].rest \in Lists /\ Kind[b] = "selection" /\ conn # None
           /\ \A i \in Left(ItemsOf[b]) : i \in Left(at[b].rest) \/ sub[FileOf[i]] # None
           /\ at[b].step = "insert" => at[b].rest # <<>>
  <1>1. at[b].rest \in Lists
    BY RequestCore DEF SourceInv, Forms
  <1>2. KnowsRequest(b)
    BY DEF SourceInv, Knowledge
  <1> QED BY <1>1, <1>2 DEF KnowsRequest

LEMMA ReadSubscriptionKeeps ==
    ASSUME SourceInv, NEW b \in Batches, ReadSubscription(b)
    PROVE  SourceInv'
  <1>1. PICK rest : rest = at[b].rest
    OBVIOUS
  <1>2. /\ at[b].step = "subscribe" /\ rest # <<>> /\ b \in Actors
        /\ OnlyReads /\ UNCHANGED <<acquire, extract>>
        /\ \/ Goto(b, Free)
           \/ Goto(b, Todo("insert", rest))
           \/ sub[FileOf[Head(rest)]] # None /\ Goto(b, Todo("subscribe", Tail(rest)))
    BY <1>1 DEF ReadSubscription, At, OnlyReads, Actors
  <1>3. /\ rest \in Lists /\ Kind[b] = "selection" /\ conn # None
        /\ \A i \in Left(ItemsOf[b]) : i \in Left(rest) \/ sub[FileOf[i]] # None
    BY <1>1, <1>2, Subscriber
  <1>4. UNCHANGED <<import, conn, sub>>
    BY <1>2 DEF OnlyReads, connVars
  <1>5. CASE Goto(b, Free)
    BY <1>2, <1>5, RestKeeps DEF Resting
  <1>6. CASE Goto(b, Todo("insert", rest))
    <2>1. Takes(b, Todo("insert", rest))
      BY <1>2, <1>3, <1>4, <1>6, SubscribingTakes
    <2> QED BY <1>2, <1>6, <2>1, ReadStep
  <1>7. CASE sub[FileOf[Head(rest)]] # None /\ Goto(b, Todo("subscribe", Tail(rest)))
    <2>1. \A i \in Left(ItemsOf[b]) : i \in Left(Tail(rest)) \/ sub'[FileOf[i]] # None
      BY <1>2, <1>3, <1>4, <1>7, HeadAndTail
    <2>2. Tail(rest) \in Lists
      BY <1>2, <1>3, HeadAndTail
    <2>3. Takes(b, Todo("subscribe", Tail(rest)))
      BY <1>2, <1>3, <1>4, <1>7, <2>1, <2>2, SubscribingTakes
    <2> QED BY <1>2, <1>7, <2>3, ReadStep
  <1> QED BY <1>2, <1>5, <1>6, <1>7

LEMMA InsertSubscriptionKeeps ==
    ASSUME SourceInv, NEW b \in Batches, InsertSubscription(b)
    PROVE  SourceInv'
  <1>1. PICK rest : rest = at[b].rest
    OBVIOUS
  <1>2. PICK f : f = FileOf[Head(rest)]
    OBVIOUS
  <1>3. /\ at[b].step = "insert" /\ b \in Actors /\ Tables
        /\ UNCHANGED <<item, import, members, remote, acquire, extract>>
        /\ \/ Subscribe(f) /\ Goto(b, Todo("subscribe", Tail(rest)))
           \/ sub[f] # None /\ Goto(b, Free) /\ UNCHANGED connVars
    BY <1>1, <1>2 DEF InsertSubscription, At, Actors, SourceInv
  <1>4. /\ rest \in Lists /\ rest # <<>> /\ Kind[b] = "selection" /\ conn # None
        /\ \A i \in Left(ItemsOf[b]) : i \in Left(rest) \/ sub[FileOf[i]] # None
    BY <1>1, <1>3, Subscriber
  <1>5. CASE Goto(b, Free) /\ UNCHANGED connVars
    BY <1>3, <1>5, RestKeeps DEF Resting, OnlyReads
  <1>6. CASE Subscribe(f) /\ Goto(b, Todo("subscribe", Tail(rest)))
    <2>1. PICK row : row = [last |-> None, seen |-> 0, status |-> "active"]
      OBVIOUS
    <2>2. row \in SubscriptionRows /\ row # None /\ row.last = None
      BY <2>1, IngestionAssumption DEF SubscriptionRows
    <2>3. /\ sub' = [sub EXCEPT ![f] = row] /\ UNCHANGED <<oauth, callback, conn>>
      BY <1>6, <2>1 DEF Subscribe
    <2>4. /\ sub' = [g \in Files |-> sub'[g]]
          /\ \A g \in Files : sub'[g] = IF g = f THEN row ELSE sub[g]
      BY <1>3, <2>3, SubscriptionsTyped
    <2>5. ConnInv'
      BY <1>3, <2>3
         DEF Tables, ConnInv, ConnTypeOK, CallbacksKnown, StateUsedOnce, SealedForOwner
    <2>6. Tables' /\ RowsStay
      BY <1>3, <2>2, <2>3, <2>4, <2>5, ConnectionsKeep, SubscriptionsTyped
    <2>7. /\ Tail(rest) \in Lists
          /\ \A i \in Left(rest) : i = Head(rest) \/ i \in Left(Tail(rest))
      BY <1>4, HeadAndTail
    <2>8. \A i \in Left(ItemsOf[b]) : FileOf[i] \in Files
      BY <1>4, BatchItems, LeftItems, IngestionAssumption
    <2>9. \A i \in Left(ItemsOf[b]) : i \in Left(Tail(rest)) \/ sub'[FileOf[i]] # None
      BY <1>2, <1>4, <2>2, <2>4, <2>7, <2>8
    <2>10. Takes(b, Todo("subscribe", Tail(rest)))
      BY <1>3, <1>4, <1>6, <2>3, <2>7, <2>9, SubscribingTakes
    <2> QED BY <1>3, <1>6, <2>6, <2>10, StepKeeps
  <1> QED BY <1>3, <1>5, <1>6

(* A batch and its items are there. *)
LEMMA BatchCreated ==
    ASSUME Tables, NEW b \in Batches,
           item' = [i \in Items |-> IF BatchOf[i] = b
                                    THEN [import |-> None, status |-> "pending"]
                                    ELSE item[i]],
           \A i \in Items : BatchOf[i] = b /\ FileOf[i] # None => conn # None /\ sub[FileOf[i]] # None,
           UNCHANGED <<connVars, import, members, remote, acquire, extract>>
    PROVE  Tables' /\ RowsStay /\ \A i \in Left(ItemsOf[b]) : item'[i] # None
  <1>1. PICK row : row = [import |-> None, status |-> "pending"]
    OBVIOUS
  <1>2. row \in ItemRows /\ row # None /\ row.status = "pending"
    BY <1>1, IngestionAssumption DEF ItemRows, ItemStatuses
  <1>3. /\ item' = [i \in Items |-> item'[i]]
        /\ \A i \in Items : item'[i] = IF BatchOf[i] = b THEN row ELSE item[i]
    BY <1>1
  <1>4. RowsStay
    BY <1>2, <1>3 DEF RowsStay, ReviewedImport, connVars
  <1>5. \A i \in Left(ItemsOf[b]) : item'[i] # None
    BY <1>2, <1>3, BatchItems, LeftItems
  <1> USE DEF Tables, connVars
  <1>6. ConnInv'
    BY DEF ConnInv, ConnTypeOK, CallbacksKnown, StateUsedOnce, SealedForOwner
  <1>7. RowsTyped'
    BY <1>2, <1>3 DEF RowsTyped
  <1>8. FilesKnown'
    BY <1>3 DEF FilesKnown
  <1>9. JobsKnown' /\ LastKnown'
    BY <1>2, <1>3 DEF JobsKnown, LastKnown, Known
  <1>10. SourcesKnown' /\ LineageIsLinear'
    BY DEF SourcesKnown, LineageIsLinear
  <1>11. CandidatesKnown'
    BY <1>2, <1>3 DEF CandidatesKnown, ReviewedImport
  <1> QED BY <1>4, <1>5, <1>6, <1>7, <1>8, <1>9, <1>10, <1>11

LEMMA CreateBatchKeeps ==
    ASSUME SourceInv, NEW b \in Batches, CreateBatch(b)
    PROVE  SourceInv'
  <1>1. PICK y : y = Todo(IF Kind[b] \in {"upload", "paste"} THEN "next" ELSE "enqueue", ItemsOf[b])
    OBVIOUS
  <1>2. /\ \/ At(b, "new") /\ Kind[b] \in {"upload", "paste", "url"}
           \/ At(b, "new") /\ Kind[b] = "sync" /\ conn # None /\ Syncable(b)
           \/ At(b, "subscribe") /\ at[b].rest = <<>>
        /\ item' = [i \in Items |-> IF BatchOf[i] = b
                                    THEN [import |-> None, status |-> "pending"]
                                    ELSE item[i]]
        /\ Goto(b, y) /\ b \in Actors /\ Tables
        /\ UNCHANGED <<connVars, import, members, remote, acquire, extract>>
    BY <1>1 DEF CreateBatch, Actors, SourceInv
  <1>3. ItemsOf[b] \in Lists
    BY BatchItems
  <1>4. /\ Kind[b] # "revise"
        /\ \A i \in Items : BatchOf[i] = b /\ FileOf[i] # None => conn # None /\ sub[FileOf[i]] # None
    <2>1. \A i \in Items : BatchOf[i] = b /\ FileOf[i] # None =>
              Kind[b] \in {"selection", "sync"} /\ i \in Left(ItemsOf[b])
      BY BatchItems, IngestionAssumption
    <2>2. CASE Kind[b] \in {"upload", "paste", "url"}
      BY <2>1, <2>2
    <2>3. CASE Kind[b] = "sync" /\ conn # None /\ Syncable(b)
      <3>1. \A i \in Left(ItemsOf[b]) : sub[FileOf[i]] # None
        BY <1>3, <2>3 DEF Syncable, Left, Lists
      <3> QED BY <2>1, <2>3, <3>1
    <2>4. CASE At(b, "subscribe") /\ at[b].rest = <<>>
      <3>1. /\ Kind[b] = "selection" /\ conn # None
            /\ \A i \in Left(ItemsOf[b]) : i \in Left(at[b].rest) \/ sub[FileOf[i]] # None
        BY <2>4, Subscriber DEF At
      <3> QED BY <2>1, <2>4, <3>1, EmptyList
    <2> QED BY <1>2, <2>2, <2>3, <2>4
  <1>5. Tables' /\ RowsStay /\ \A i \in Left(ItemsOf[b]) : item'[i] # None
    BY <1>2, <1>4, BatchCreated
  <1>6. Listing(y, ItemsOf[b]) /\ y.step # "set"
    BY <1>1 DEF Listing, Todo
  <1>7. /\ \A j : Before(b, y, j) <=> j \in Left(ItemsOf[b])
        /\ \A j : ~Holds(y, j)
    BY <1>3, <1>6, ListingOwns
  <1>8. \A j \in Left(ItemsOf[b]) : Before(b, at[b], j)
    BY <1>2 DEF Before, Ahead, At
  <1>9. ASSUME NEW j \in Items PROVE Passes(b, y, j)
    BY <1>2, <1>7, <1>8, SamePass
  <1>10. Takes(b, y)
    BY <1>2, <1>3, <1>4, <1>5, <1>6, <1>9, ListingTakes
  <1> QED BY <1>2, <1>5, <1>10, StepKeeps

LEMMA Lister ==
    ASSUME SourceInv, NEW b \in Batches, at[b].step \in {"enqueue", "next"}
    PROVE  /\ at[b].rest \in Lists /\ Kind[b] # "revise" /\ Core(at[b]) = at[b]
           /\ \A j \in Left(at[b].rest) : Known(j)
           /\ \A j : Before(b, at[b], j) <=> j \in Left(at[b].rest)
           /\ \A j : ~Holds(at[b], j)
  <1>1. Core(at[b]) = at[b]
    BY DEF Core
  <1>2. at[b].rest \in Lists
    BY <1>1, RequestCore DEF SourceInv, Forms
  <1>3. KnowsRequest(b)
    BY DEF SourceInv, Knowledge
  <1>4. Ahead(b, at[b]) = Left(at[b].rest)
    BY <1>1 DEF Ahead
  <1>5. \A j : Before(b, at[b], j) <=> j \in Left(at[b].rest)
    BY <1>1, <1>4 DEF Before, Acquiring
  <1>6. \A j : ~Holds(at[b], j)
    BY <1>1 DEF Holds, Keeping
  <1> QED BY <1>1, <1>2, <1>3, <1>5, <1>6 DEF KnowsRequest

LEMMA EnqueueAcquisitionKeeps ==
    ASSUME SourceInv, NEW b \in Batches, EnqueueAcquisition(b)
    PROVE  SourceInv'
  <1>1. PICK rest : rest = at[b].rest
    OBVIOUS
  <1>2. PICK i : i = Head(rest)
    OBVIOUS
  <1>3. PICK y : y = Todo("enqueue", Tail(rest))
    OBVIOUS
  <1>4. /\ at[b].step = "enqueue" /\ rest # <<>> /\ Goto(b, y) /\ b \in Actors /\ Tables
        /\ acquire' = [acquire EXCEPT ![i] = @ + 1] /\ OnlyReads /\ UNCHANGED extract
    BY <1>1, <1>2, <1>3 DEF EnqueueAcquisition, At, OnlyReads, Actors, SourceInv
  <1>5. /\ rest \in Lists /\ Kind[b] # "revise"
        /\ \A j \in Left(rest) : Known(j)
        /\ \A j : Before(b, at[b], j) <=> j \in Left(rest)
    BY <1>1, <1>4, Lister
  <1>6. /\ i \in Items /\ i \in Left(rest) /\ i \notin Left(Tail(rest))
        /\ Tail(rest) \in Lists /\ Left(Tail(rest)) \subseteq Left(rest)
    BY <1>2, <1>4, <1>5, HeadAndTail
  <1>7. acquire \in [Items -> Nat] /\ extract \in [Items -> Nat]
    BY <1>4 DEF Tables, RowsTyped
  <1>8. acquire[i] = 0 /\ extract[i] = 0 /\ import[i] = None
    <2>1. acquire[i] + extract[i] = 0 /\ import[i] = None
      BY <1>4, <1>5, <1>6 DEF SourceInv, Owners, OneOwner, OwnedStatus, Owns
    <2> QED BY <1>6, <1>7, <2>1
  <1>9. /\ acquire' \in [Items -> Nat] /\ extract' \in [Items -> Nat] /\ acquire'[i] = 1
        /\ \A j \in Items : j # i => acquire'[j] = acquire[j]
    BY <1>4, <1>6, <1>7, <1>8
  <1>10. \A j \in Items : acquire'[j] > 0 => Known(j)
    BY <1>4, <1>5, <1>6, <1>9 DEF Tables, JobsKnown
  <1>11. Tables' /\ RowsStay
    BY <1>4, <1>9, <1>10, JobsKeep, ReadsStay
  <1>12. Listing(y, Tail(rest)) /\ y.step # "set"
    BY <1>3 DEF Listing, Todo
  <1>13. /\ \A j : Before(b, y, j) <=> j \in Left(Tail(rest))
         /\ \A j : ~Holds(y, j)
    BY <1>6, <1>12, ListingOwns
  <1>14. ASSUME NEW j \in Items PROVE Passes(b, y, j)
    <2>1. CASE j # i
      BY <1>4, <1>5, <1>6, <1>9, <1>13, <2>1, SamePass DEF OnlyReads
    <2>2. CASE j = i
      <3>1. ~Owns(b, y, i) /\ Owns(b, at[b], i)
        BY <1>5, <1>6, <1>13 DEF Owns
      <3>2. import'[i] = None /\ extract'[i] = 0
        BY <1>4, <1>8 DEF OnlyReads
      <3> QED BY <1>9, <1>13, <2>2, <3>1, <3>2 DEF Passes, Owns
    <2> QED BY <2>1, <2>2
  <1>15. \A j \in Left(Tail(rest)) : item'[j] # None
    BY <1>5, <1>6, <1>11, LeftItems DEF RowsStay, Known
  <1>16. Takes(b, y)
    BY <1>4, <1>5, <1>6, <1>12, <1>14, <1>15, ListingTakes
  <1> QED BY <1>4, <1>11, <1>16, StepKeeps

(* An item whose job is refused is failed, and the list goes on without it. *)
LEMMA AcquisitionRefusedKeeps ==
    ASSUME SourceInv, NEW b \in Batches, AcquisitionRefused(b)
    PROVE  SourceInv'
  <1>1. PICK rest : rest = at[b].rest
    OBVIOUS
  <1>2. PICK i : i = Head(rest)
    OBVIOUS
  <1>3. PICK y : y = Setting(i, "failed", None, Todo("enqueue", Tail(rest)), Todo("enqueue", Tail(rest)))
    OBVIOUS
  <1>4. /\ at[b].step = "enqueue" /\ rest # <<>> /\ Goto(b, y) /\ b \in Actors
        /\ OnlyReads /\ UNCHANGED <<acquire, extract>>
    BY <1>1, <1>2, <1>3 DEF AcquisitionRefused, At, OnlyReads, Actors
  <1>5. /\ rest \in Lists /\ Kind[b] # "revise"
        /\ \A j \in Left(rest) : Known(j)
        /\ \A j : Before(b, at[b], j) <=> j \in Left(rest)
    BY <1>1, <1>4, Lister
  <1>6. /\ i \in Items /\ i \in Left(rest)
        /\ Tail(rest) \in Lists /\ Left(Tail(rest)) \subseteq Left(rest)
    BY <1>2, <1>4, <1>5, HeadAndTail
  <1>7. Listing(y, Tail(rest)) /\ y.item = i
    BY <1>3, <1>6 DEF Listing, Setting
  <1>8. /\ \A j : Before(b, y, j) <=> j \in Left(Tail(rest))
        /\ \A j : ~Holds(y, j)
    BY <1>6, <1>7, ListingOwns
  <1>9. UNCHANGED import /\ RowsStay
    BY <1>4, ReadsStay DEF OnlyReads, SourceInv
  <1>10. ASSUME NEW j \in Items PROVE Passes(b, y, j)
    BY <1>4, <1>5, <1>6, <1>8, <1>9, SamePass
  <1>11. item'[i] # None /\ \A j \in Left(Tail(rest)) : item'[j] # None
    BY <1>5, <1>6, <1>9, LeftItems DEF RowsStay, Known
  <1>12. Takes(b, y)
    BY <1>4, <1>5, <1>6, <1>7, <1>10, <1>11, ListingTakes
  <1> QED BY <1>4, <1>12, ReadStep

LEMMA EndBatchKeeps ==
    ASSUME SourceInv, NEW b \in Batches, EndBatch(b)
    PROVE  SourceInv'
  <1>1. /\ Goto(b, [batch |-> b, step |-> "recompute"]) /\ b \in Actors
        /\ OnlyReads /\ UNCHANGED <<acquire, extract>>
        /\ Resting([batch |-> b, step |-> "recompute"])
    BY DEF EndBatch, OnlyReads, Actors, Resting
  <1> QED BY <1>1, RestKeeps

LEMMA ClaimUploadKeeps ==
    ASSUME SourceInv, NEW b \in Batches, ClaimUpload(b)
    PROVE  SourceInv'
  <1>1. PICK rest : rest = at[b].rest
    OBVIOUS
  <1>2. PICK i : i = Head(rest)
    OBVIOUS
  <1>3. PICK y : y = [item |-> i, parent |-> None, rest |-> Tail(rest),
                      step |-> "create", version |-> 1]
    OBVIOUS
  <1>4. /\ at[b].step = "next" /\ rest # <<>> /\ Goto(b, y) /\ b \in Actors /\ Tables /\ Claim(i)
        /\ UNCHANGED <<connVars, import, members, remote, acquire, extract>>
    BY <1>1, <1>2, <1>3 DEF ClaimUpload, At, Actors, SourceInv
  <1>5. /\ rest \in Lists /\ Kind[b] # "revise"
        /\ \A j \in Left(rest) : Known(j)
        /\ \A j : Before(b, at[b], j) <=> j \in Left(rest)
    BY <1>1, <1>4, Lister
  <1>6. /\ i \in Items /\ i \in Left(rest) /\ i \notin Left(Tail(rest))
        /\ Tail(rest) \in Lists /\ Left(Tail(rest)) \subseteq Left(rest)
    BY <1>2, <1>4, <1>5, HeadAndTail
  <1>7. Tables' /\ RowsStay /\ item'[i] # None
    <2>1. /\ acquire' \in [Items -> Nat] /\ extract' \in [Items -> Nat]
          /\ \A j \in Items : acquire'[j] > 0 => Known(j)
      BY <1>4 DEF Tables, RowsTyped, JobsKnown
    <2> QED BY <1>4, <1>5, <1>6, <2>1, ClaimKeeps
  <1>8. y \in Upload(i, Makers) /\ y.step = "create" /\ y.parent = None /\ y.rest = Tail(rest)
    BY <1>3, <1>6 DEF Upload, Makers
  <1>9. /\ \A j : Before(b, y, j) <=> j \in Left(Tail(rest)) \/ j = i
        /\ \A j : ~Holds(y, j)
    <2>1. /\ \A j : Before(b, y, j) <=> j \in Left(y.rest) \/ (j = i /\ y.step = "create")
          /\ \A j : Holds(y, j) <=> j = i /\ y.step # "create"
      <3>1. i \in Items
        BY <1>6
      <3>2. y \in Upload(i, Makers)
        BY <1>8
      <3> HIDE <1>2, <1>3
      <3> QED BY <3>1, <3>2, MakerOwns
    <2> QED BY <1>8, <2>1
  <1>10. ASSUME NEW j \in Items PROVE Passes(b, y, j)
    BY <1>4, <1>5, <1>6, <1>9, SamePass
  <1>11. \A j \in Left(y.rest) : item'[j] # None
    BY <1>5, <1>6, <1>7, <1>8, LeftItems DEF RowsStay, Known
  <1>12. Takes(b, y)
    BY <1>4, <1>6, <1>7, <1>8, <1>10, <1>11, MakerTakes
  <1> QED BY <1>4, <1>7, <1>12, StepKeeps

LEMMA ReviseKeeps ==
    ASSUME SourceInv, NEW b \in Batches, NEW p \in Items, Revise(b, p)
    PROVE  SourceInv'
  <1>1. PICK i : i = Head(ItemsOf[b])
    OBVIOUS
  <1>2. PICK y : y = [item |-> i, parent |-> p, rest |-> <<>>,
                      step |-> "create", version |-> MaxVersion + 1]
    OBVIOUS
  <1>3. /\ at[b].step = "new" /\ Kind[b] = "revise" /\ Goto(b, y) /\ b \in Actors
        /\ import[p] # None /\ OnlyReads /\ UNCHANGED <<acquire, extract>>
    BY <1>1, <1>2 DEF Revise, At, OnlyReads, Actors
  <1>4. ItemsOf[b] \in Lists /\ ItemsOf[b] # <<>>
    <2>1. Len(ItemsOf[b]) = 1
      BY <1>3, IngestionAssumption
    <2>2. Len(<<>>) = 0
      OBVIOUS
    <2> QED BY <2>1, <2>2, BatchItems
  <1>5. i \in Items /\ i \in Left(ItemsOf[b])
    BY <1>1, <1>4, HeadAndTail
  <1>6. y \in Upload(i, Makers) /\ y.step = "create" /\ y.parent = p /\ y.rest = <<>>
    <2>1. MaxVersion + 1 \in Nat
      BY IngestionAssumption
    <2> QED BY <1>2, <1>5, <2>1, EmptyList DEF Upload, Makers
  <1>7. /\ \A j : Before(b, y, j) <=> j = i
        /\ \A j : ~Holds(y, j)
    BY <1>5, <1>6, MakerOwns, EmptyList
  <1>8. Before(b, at[b], i)
    BY <1>3, <1>5 DEF Before, Ahead
  <1>9. UNCHANGED import
    BY <1>3 DEF OnlyReads
  <1>10. ASSUME NEW j \in Items PROVE Passes(b, y, j)
    BY <1>3, <1>7, <1>8, <1>9, SamePass
  <1>11. \A j \in Left(y.rest) : item'[j] # None
    BY <1>6, EmptyList
  <1>12. Takes(b, y)
    BY <1>3, <1>5, <1>6, <1>9, <1>10, <1>11, MakerTakes
  <1> QED BY <1>3, <1>12, ReadStep

LEMMA RefuseFormatKeeps ==
    ASSUME SourceInv, NEW b \in Batches, Kind[b] = "upload", RefuseFormat(b)
    PROVE  SourceInv'
  <1>1. OnError(b, None) = UploadFails(b, None)
    BY IngestionAssumption DEF OnError
  <1>2. /\ at[b].step = "create" /\ Goto(b, OnError(b, None)) /\ b \in Actors
        /\ OnlyReads /\ UNCHANGED <<acquire, extract>>
    BY <1>1 DEF RefuseFormat, At, OnlyReads, Actors
  <1>3. UNCHANGED import /\ RowsStay
    BY <1>2, ReadsStay DEF OnlyReads, SourceInv
  <1>4. PICK i : i = at[b].item
    OBVIOUS
  <1>5. Takes(b, OnError(b, None))
    BY <1>2, <1>3, <1>4, ErrorTakes DEF Making
  <1> QED BY <1>2, <1>5, ReadStep

(* The job of an uploaded import is queued, or refused.                     *)
LEMMA Jobber ==
    ASSUME SourceInv, NEW b \in Batches, at[b].step = "job"
    PROVE  /\ at[b].item \in Items /\ at[b].rest \in Lists /\ at[b].item \notin Left(at[b].rest)
           /\ \A j \in Left(at[b].rest) : Known(j)
           /\ Kind[b] = "revise" \/ Known(at[b].item)
           /\ \A j : Before(b, at[b], j) <=> j \in Left(at[b].rest)
           /\ \A j : Holds(at[b], j) <=> j = at[b].item
           /\ import[at[b].item] # None /\ import[at[b].item].status = "queued"
           /\ acquire[at[b].item] = 0 /\ extract[at[b].item] = 0
  <1>1. PICK i : i = at[b].item
    OBVIOUS
  <1>2. /\ i \in Items /\ at[b] \in Upload(i, Makers)
        /\ at[b].rest \in Lists /\ i \notin Left(at[b].rest)
        /\ Core(at[b]) = at[b]
        /\ \A j \in Left(at[b].rest) : Known(j)
        /\ Kind[b] = "revise" \/ Known(i)
    BY <1>1, Maker DEF Makers
  <1>3. /\ \A j : Before(b, at[b], j) <=> j \in Left(at[b].rest) \/ (j = i /\ at[b].step = "create")
        /\ \A j : Holds(at[b], j) <=> j = i /\ at[b].step # "create"
    BY <1>2, MakerOwns
  <1>4. Holds(at[b], i)
    BY <1>3
  <1>5. import[i] # None /\ import[i].status = "queued" /\ acquire[i] + extract[i] = 0
    BY <1>2, <1>4 DEF SourceInv, Owners, OneOwner, OwnedStatus, Owns, StatusAt, Actors
  <1>6. acquire[i] \in Nat /\ extract[i] \in Nat
    BY <1>2 DEF SourceInv, Tables, RowsTyped
  <1>7. acquire[i] = 0 /\ extract[i] = 0
    BY <1>5, <1>6
  <1> QED BY <1>1, <1>2, <1>3, <1>5, <1>7

LEMMA EnqueueExtractionKeeps ==
    ASSUME SourceInv, NEW b \in Batches, EnqueueExtraction(b)
    PROVE  SourceInv'
  <1>1. PICK i : i = at[b].item
    OBVIOUS
  <1>2. PICK rest : rest = at[b].rest
    OBVIOUS
  <1>3. PICK y : y = IF Kind[b] = "revise" THEN Free ELSE Todo("next", rest)
    OBVIOUS
  <1>4. /\ at[b].step = "job" /\ Goto(b, y) /\ b \in Actors /\ b \notin Workers /\ Tables
        /\ extract' = [extract EXCEPT ![i] = @ + 1] /\ OnlyReads /\ UNCHANGED acquire
    BY <1>1, <1>2, <1>3, IngestionAssumption
       DEF EnqueueExtraction, At, OnlyReads, Actors, SourceInv
  <1>5. /\ i \in Items /\ rest \in Lists /\ i \notin Left(rest)
        /\ \A j \in Left(rest) : Known(j)
        /\ \A j : Before(b, at[b], j) <=> j \in Left(rest)
        /\ \A j : Holds(at[b], j) <=> j = i
        /\ import[i] # None /\ import[i].status = "queued"
        /\ acquire[i] = 0 /\ extract[i] = 0
    BY <1>1, <1>2, <1>4, Jobber
  <1>6. /\ acquire \in [Items -> Nat] /\ extract \in [Items -> Nat]
        /\ \A j \in Items : acquire[j] > 0 => Known(j)
    BY <1>4 DEF Tables, RowsTyped, JobsKnown
  <1>7. /\ acquire' \in [Items -> Nat] /\ extract' \in [Items -> Nat] /\ extract'[i] = 1
        /\ \A j \in Items : j # i => extract'[j] = extract[j]
    BY <1>4, <1>5, <1>6
  <1>8. Tables' /\ RowsStay
    BY <1>4, <1>6, <1>7, JobsKeep, ReadsStay
  <1>9. /\ \A j : Before(b, y, j) => j \in Left(rest)
        /\ \A j : ~Holds(y, j)
    <2>1. CASE Kind[b] = "revise"
      BY <1>3, <2>1, RestingForm DEF Resting, Owns
    <2>2. CASE Kind[b] # "revise"
      <3>1. Listing(y, rest)
        BY <1>3, <2>2 DEF Listing
      <3> QED BY <1>5, <3>1, ListingOwns
    <2> QED BY <2>1, <2>2
  <1>10. ASSUME NEW j \in Items PROVE Passes(b, y, j)
    <2>1. CASE j # i
      BY <1>4, <1>5, <1>7, <1>9, <2>1, SamePass DEF OnlyReads
    <2>2. CASE j = i
      <3>1. ~Owns(b, y, i) /\ Owns(b, at[b], i)
        BY <1>5, <1>9 DEF Owns
      <3>2. import'[i] # None /\ import'[i].status = "queued" /\ acquire'[i] = 0
        BY <1>4, <1>5 DEF OnlyReads
      <3> QED BY <1>7, <2>2, <3>1, <3>2 DEF Passes, Owns
    <2> QED BY <2>1, <2>2
  <1>11. Takes(b, y)
    <2>1. CASE Kind[b] = "revise"
      <3>1. WorkerForm(y) /\ RequestForm(y) /\ Core(y) = y /\ y.step = "free"
        BY <1>3, <2>1, RestingForm DEF Resting, Free
      <3>2. at'[b] = y
        BY <1>4, OthersStay DEF SourceInv
      <3>3. Knows(b)' /\ KnowsWorker(b)' /\ KnowsRequest(b)'
        BY <3>1, <3>2 DEF Knows, KnowsWorker, KnowsRequest, Core, Acquiring
      <3> QED BY <1>10, <3>1, <3>3 DEF Takes
    <2>2. CASE Kind[b] # "revise"
      <3>1. Listing(y, rest) /\ y.step # "set"
        BY <1>3, <2>2 DEF Listing, Todo
      <3>2. \A j \in Left(rest) : item'[j] # None
        BY <1>5, <1>8, LeftItems DEF RowsStay, Known
      <3> QED BY <1>4, <1>5, <1>10, <2>2, <3>1, <3>2, ListingTakes
    <2> QED BY <2>1, <2>2
  <1> QED BY <1>4, <1>8, <1>11, StepKeeps

LEMMA ExtractionRefusedKeeps ==
    ASSUME SourceInv, NEW b \in Batches, ExtractionRefused(b)
    PROVE  SourceInv'
  <1>1. PICK i : i = at[b].item
    OBVIOUS
  <1>2. PICK rest : rest = at[b].rest
    OBVIOUS
  <1>3. PICK y : y = IF Kind[b] = "revise" THEN Doing("mark", i)
                     ELSE Setting(i, "failed", i, Todo("next", rest), Todo("next", rest))
    OBVIOUS
  <1>4. /\ at[b].step = "job" /\ Goto(b, y) /\ b \in Actors /\ b \notin Workers
        /\ OnlyReads /\ UNCHANGED <<acquire, extract>>
    BY <1>1, <1>2, <1>3, IngestionAssumption
       DEF ExtractionRefused, UploadFails, At, OnlyReads, Actors
  <1>5. /\ i \in Items /\ rest \in Lists /\ i \notin Left(rest)
        /\ \A j \in Left(rest) : Known(j)
        /\ Kind[b] = "revise" \/ Known(i)
        /\ \A j : Before(b, at[b], j) <=> j \in Left(rest)
        /\ \A j : Holds(at[b], j) <=> j = i
    BY <1>1, <1>2, <1>4, Jobber
  <1>6. UNCHANGED import /\ RowsStay
    BY <1>4, ReadsStay DEF OnlyReads, SourceInv
  <1>7. CASE Kind[b] = "revise"
    <2>1. y.step = "mark" /\ y.item = i /\ y = Doing("mark", i)
      BY <1>3, <1>7 DEF Doing
    <2>2. Core(y) = y /\ RequestForm(y)
      BY <1>5, <2>1 DEF Core, RequestForm
    <2>3. /\ \A j : ~Before(b, y, j)
          /\ \A j : Holds(y, j) <=> j = i
      BY <2>1, <2>2 DEF Before, Ahead, Holds, Acquiring, Keeping
    <2>4. StatusAt(Core(y).step) = StatusAt(Core(at[b]).step)
      BY <1>4, <2>1, <2>2 DEF StatusAt, Core
    <2>5. ASSUME NEW j \in Items PROVE Passes(b, y, j)
      BY <1>4, <1>5, <1>6, <2>3, <2>4, SamePass
    <2>6. at'[b] = y
      BY <1>4, OthersStay DEF SourceInv
    <2>7. Knows(b)' /\ KnowsRequest(b)'
      BY <2>1, <2>2, <2>6 DEF Knows, KnowsRequest, Core
    <2>8. Takes(b, y)
      BY <1>4, <2>2, <2>5, <2>7 DEF Takes
    <2> QED BY <1>4, <2>8, ReadStep
  <1>8. CASE Kind[b] # "revise"
    <2>1. Listing(y, rest) /\ y.item = i
      BY <1>3, <1>5, <1>8 DEF Listing, Setting
    <2>2. /\ \A j : Before(b, y, j) <=> j \in Left(rest)
          /\ \A j : ~Holds(y, j)
      BY <1>5, <2>1, ListingOwns
    <2>3. ASSUME NEW j \in Items PROVE Passes(b, y, j)
      BY <1>4, <1>5, <1>6, <2>2, SamePass
    <2>4. item'[i] # None /\ \A j \in Left(rest) : item'[j] # None
      BY <1>5, <1>6, <1>8, LeftItems DEF RowsStay, Known
    <2>5. Takes(b, y)
      BY <1>4, <1>5, <1>8, <2>1, <2>3, <2>4, ListingTakes
    <2> QED BY <1>4, <2>5, ReadStep
  <1> QED BY <1>7, <1>8

LEMMA MarkRefusedKeeps ==
    ASSUME SourceInv, NEW b \in Batches, MarkRefused(b)
    PROVE  SourceInv'
  <1>1. PICK i : i = at[b].item
    OBVIOUS
  <1>2. /\ at[b].step = "mark" /\ Goto(b, Free) /\ b \in Actors /\ Tables
        /\ import' = [import EXCEPT ![i].status = "failed_retryable"]
        /\ UNCHANGED <<connVars, item, members, remote, acquire, extract>>
    BY <1>1 DEF MarkRefused, At, Actors, SourceInv
  <1>3. i \in Items /\ Core(at[b]) = at[b]
    BY <1>1, <1>2, RequestShape DEF SourceInv, Forms, Core
  <1>4. Holds(at[b], i)
    BY <1>1, <1>2, <1>3 DEF Holds, Keeping
  <1>5. import[i] # None /\ import[i].status = "queued"
    BY <1>2, <1>3, <1>4 DEF SourceInv, Owners, OwnedStatus, StatusAt
  <1>6. import[i].status \notin Reviewable /\ "failed_retryable" \in ImportStatuses \ Reviewable
    BY <1>5 DEF Reviewable, ImportStatuses
  <1>7. acquire \in [Items -> Nat] /\ extract \in [Items -> Nat]
        /\ \A j \in Items : acquire[j] > 0 => Known(j)
    BY <1>2 DEF Tables, RowsTyped, JobsKnown
  <1>8. Tables' /\ RowsStay
    BY <1>2, <1>3, <1>5, <1>6, <1>7, StatusKeeps
  <1>9. \A j \in Items : j # i => import'[j] = import[j]
    BY <1>2 DEF Tables, RowsTyped
  <1>10. /\ WorkerForm(Free) /\ RequestForm(Free) /\ Core(Free) = Free /\ Free.step = "free"
         /\ \A j : ~Owns(b, Free, j)
    BY RestingForm DEF Resting, Free
  <1>11. ASSUME NEW j \in Items PROVE Passes(b, Free, j)
    <2>1. CASE j # i
      BY <1>2, <1>9, <1>10, <2>1, SamePass DEF Owns
    <2>2. CASE j = i
      BY <1>2, <1>3, <1>4, <1>10, <2>2, OwnedPass DEF Owns
    <2> QED BY <2>1, <2>2
  <1>12. at'[b] = Free
    BY <1>2, OthersStay DEF SourceInv
  <1>13. Knows(b)' /\ KnowsWorker(b)' /\ KnowsRequest(b)'
    BY <1>10, <1>12 DEF Knows, KnowsWorker, KnowsRequest, Core, Acquiring
  <1>14. Takes(b, Free)
    BY <1>10, <1>11, <1>13 DEF Takes
  <1> QED BY <1>2, <1>8, <1>14, StepKeeps

-----------------------------------------------------------------------------
(* People and providers *)

(* An import that a person works on has no owner: its status is not one of  *)
(* those that go with an owner or a job.                                    *)
LEMMA ReviewedUnowned ==
    ASSUME SourceInv, NEW i \in Items, import[i] # None,
           import[i].status \in {"failed_retryable", "needs_ocr", "review_required"}
    PROVE  /\ acquire[i] = 0 /\ extract[i] = 0
           /\ \A a \in Actors : ~Owns(a, at[a], i)
  <1>1. OneOwner(i) /\ OwnedStatus(i)
    BY DEF SourceInv, Owners
  <1>2. acquire[i] \in Nat /\ extract[i] \in Nat
    BY DEF SourceInv, Tables, RowsTyped
  <1>3. ~(acquire[i] > 0) /\ ~(extract[i] > 0)
    BY <1>1 DEF OwnedStatus
  <1>4. \A step : StatusAt(step) \in {"uploading", "parsing", "queued"}
    BY DEF StatusAt
  <1>5. \A a \in Actors : ~Owns(a, at[a], i)
    BY <1>1, <1>4 DEF OwnedStatus, Owns
  <1> QED BY <1>2, <1>3, <1>5

(* The import of an item that nobody has is written. *)
LEMMA UnownedStay ==
    ASSUME SourceInv, NEW i \in Items, UNCHANGED <<at, acquire>>,
           acquire[i] = 0, \A a \in Actors : ~Owns(a, at[a], i),
           extract'[i] \in {0, 1}, import'[i] # None, extract'[i] = 1 => import'[i].status = "queued",
           \A j \in Items : j # i => import'[j] = import[j] /\ extract'[j] = extract[j]
    PROVE  Owners'
  <1>1. \A a, j : /\ Owns(a, at[a], j)' = Owns(a, at[a], j)
                  /\ Before(a, at[a], j)' = Before(a, at[a], j)
                  /\ Holds(at[a], j)' = Holds(at[a], j)
                  /\ Core(at[a])' = Core(at[a])
    BY DEF Owns, Before, Holds, Ahead, Core
  <1>2. ASSUME NEW j \in Items PROVE OneOwner(j)' /\ OwnedStatus(j)'
    <2>1. OneOwner(j) /\ OwnedStatus(j)
      BY DEF SourceInv, Owners
    <2>2. CASE j # i
      <3>1. import'[j] = import[j] /\ extract'[j] = extract[j] /\ acquire'[j] = acquire[j]
        BY <2>2
      <3>2. OneOwner(j)'
        BY <1>1, <2>1, <3>1 DEF OneOwner
      <3>3. OwnedStatus(j)'
        BY <1>1, <2>1, <3>1 DEF OwnedStatus
      <3> QED BY <3>2, <3>3
    <2>3. CASE j = i
      <3>1. OneOwner(i)'
        BY <1>1 DEF OneOwner
      <3>2. OwnedStatus(i)'
        BY <1>1 DEF OwnedStatus, Owns
      <3> QED BY <2>3, <3>1, <3>2
    <2> QED BY <2>2, <2>3
  <1> QED BY <1>2 DEF Owners

LEMMA RetryImportKeeps ==
    ASSUME SourceInv, NEW i \in Items, import[i] # None, RetryImport(i)
    PROVE  SourceInv'
  <1>1. /\ import[i].status \in {"failed_retryable", "needs_ocr"} /\ Tables
        /\ import' = [import EXCEPT ![i].status = "queued"]
        /\ extract' = [extract EXCEPT ![i] = @ + 1]
        /\ UNCHANGED <<connVars, item, members, remote, acquire, at>>
    BY DEF RetryImport, SourceInv
  <1>2. /\ acquire[i] = 0 /\ extract[i] = 0
        /\ \A a \in Actors : ~Owns(a, at[a], i)
    BY <1>1, ReviewedUnowned
  <1>3. /\ acquire \in [Items -> Nat] /\ extract \in [Items -> Nat] /\ import[i] \in ImportRows
        /\ \A j \in Items : acquire[j] > 0 => Known(j)
    BY <1>1 DEF Tables, RowsTyped, JobsKnown
  <1>4. /\ acquire' \in [Items -> Nat] /\ extract' \in [Items -> Nat] /\ extract'[i] = 1
        /\ \A j \in Items : j # i => extract'[j] = extract[j]
    BY <1>1, <1>2, <1>3
  <1>5. import[i].status \notin Reviewable /\ "queued" \in ImportStatuses \ Reviewable
    BY <1>1 DEF Reviewable, ImportStatuses
  <1>6. Tables' /\ RowsStay
    BY <1>1, <1>3, <1>4, <1>5, StatusKeeps
  <1>7. /\ \A j \in Items : j # i => import'[j] = import[j]
        /\ import'[i] = [import[i] EXCEPT !.status = "queued"]
    BY <1>1 DEF Tables, RowsTyped
  <1>8. import'[i] # None /\ import'[i].status = "queued"
    BY <1>3, <1>6, <1>7 DEF RowsStay, ImportRows
  <1>9. Owners'
    BY <1>1, <1>2, <1>4, <1>7, <1>8, UnownedStay
  <1> QED BY <1>1, <1>6, <1>9, PeopleKeep

LEMMA CompileImportKeeps ==
    ASSUME SourceInv, NEW i \in Items, import[i] # None, CompileImport(i)
    PROVE  SourceInv'
  <1>1. /\ import[i].status = "review_required" /\ Tables
        /\ import' = [import EXCEPT ![i].status = "compiled"]
        /\ UNCHANGED <<connVars, item, members, remote, acquire, extract, at>>
    BY DEF CompileImport, SourceInv
  <1>2. /\ acquire[i] = 0 /\ extract[i] = 0
        /\ \A a \in Actors : ~Owns(a, at[a], i)
    BY <1>1, ReviewedUnowned
  <1>3. /\ acquire \in [Items -> Nat] /\ extract \in [Items -> Nat]
        /\ \A j \in Items : acquire[j] > 0 => Known(j)
    BY <1>1 DEF Tables, RowsTyped, JobsKnown
  <1>4. "compiled" \in ImportStatuses /\ import[i].status \in Reviewable
    BY <1>1 DEF ImportStatuses, Reviewable
  <1>5. Tables' /\ RowsStay
    BY <1>1, <1>3, <1>4, StatusKeeps
  <1>6. \A j \in Items : j # i => import'[j] = import[j] /\ extract'[j] = extract[j]
    BY <1>1 DEF Tables, RowsTyped
  <1>7. import'[i] # None /\ extract'[i] = 0
    BY <1>1, <1>2, <1>5 DEF RowsStay
  <1>8. Owners'
    BY <1>1, <1>2, <1>6, <1>7, UnownedStay
  <1> QED BY <1>1, <1>5, <1>8, PeopleKeep

LEMMA RemoteChangesKeeps ==
    ASSUME SourceInv, NEW f \in Files, RemoteChanges(f)
    PROVE  SourceInv'
  <1>1. /\ remote[f] < MaxVersion /\ remote' = [remote EXCEPT ![f] = @ + 1] /\ Tables
        /\ UNCHANGED <<connVars, item, import, members, acquire, extract, at>>
    BY DEF RemoteChanges, SourceInv
  <1>2. remote' \in [Files -> 1..MaxVersion]
    <2>1. remote \in [Files -> 1..MaxVersion] /\ MaxVersion \in Nat
      BY <1>1, IngestionAssumption DEF Tables, RowsTyped
    <2>2. remote[f] + 1 \in 1..MaxVersion
      BY <1>1, <2>1
    <2> QED BY <1>1, <2>1, <2>2
  <1>3. RowsStay
    BY <1>1 DEF RowsStay, ReviewedImport, connVars
  <1>4. Tables'
    <2> USE <1>1 DEF Tables, connVars
    <2>1. ConnInv'
      BY DEF ConnInv, ConnTypeOK, CallbacksKnown, StateUsedOnce, SealedForOwner
    <2>2. RowsTyped'
      BY <1>2 DEF RowsTyped
    <2>3. FilesKnown' /\ JobsKnown' /\ LastKnown'
      BY DEF FilesKnown, JobsKnown, LastKnown, Known
    <2>4. SourcesKnown' /\ LineageIsLinear' /\ CandidatesKnown'
      BY DEF SourcesKnown, LineageIsLinear, CandidatesKnown, ReviewedImport
    <2> QED BY <2>1, <2>2, <2>3, <2>4
  <1>5. Owners'
    BY <1>1, OwnersStay DEF SourceInv
  <1> QED BY <1>1, <1>3, <1>4, <1>5, PeopleKeep

-----------------------------------------------------------------------------
(* The invariant *)

LEMMA InitHolds ==
    ASSUME Init
    PROVE  SourceInv
  <1> USE DEF Init, ConnInit, IngestInit
  <1>1. ConnInv
    <2>1. ConnTypeOK
      BY DEF ConnTypeOK
    <2>2. CallbacksKnown /\ StateUsedOnce /\ SealedForOwner
      BY ConnectionAssumption DEF CallbacksKnown, StateUsedOnce, SealedForOwner
    <2> QED BY <2>1, <2>2 DEF ConnInv
  <1>2. RowsTyped
    <2>1. 1 \in 1..MaxVersion
      BY IngestionAssumption
    <2> QED BY <2>1 DEF RowsTyped
  <1>3. FilesKnown /\ JobsKnown /\ LastKnown /\ SourcesKnown /\ LineageIsLinear /\ CandidatesKnown
    BY DEF FilesKnown, JobsKnown, LastKnown, SourcesKnown, LineageIsLinear, CandidatesKnown
  <1>4. Tables /\ ActorsTyped
    BY <1>1, <1>2, <1>3 DEF Tables, ActorsTyped
  <1>5. /\ \A w \in Workers : at[w] = Free \/ at[w] = Down
        /\ \A b \in Batches : at[b] = Free \/ at[b] = New
    BY DEF Actors
  <1>6. /\ Free \in Idle /\ New \in Idle /\ Down \in Idle /\ Free # New /\ Down # New
        /\ Free.step = "free" /\ New.step = "new" /\ Down.step = "stopped"
    BY DEF Idle, Free, New, Down
  <1>7. Forms
    BY <1>5, <1>6 DEF Forms, WorkerForm, RequestForm
  <1>8. \A a \in Actors : at[a].step \in {"new", "free", "stopped"} /\ Core(at[a]) = at[a]
    BY <1>5, <1>6 DEF Core, Actors
  <1>9. Knowledge
    BY <1>8 DEF Knowledge, Knows, KnowsWorker, KnowsRequest, Acquiring, Actors
  <1>10. ASSUME NEW i \in Items
         PROVE  OneOwner(i) /\ OwnedStatus(i)
    <2>1. \A a \in Actors : ~Holds(at[a], i)
      BY <1>8 DEF Holds, Keeping
    <2>2. ASSUME NEW a \in Actors, Before(a, at[a], i)
          PROVE  a = BatchOf[i]
      <3>1. i \in Ahead(a, at[a])
        BY <1>8, <2>2 DEF Before, Acquiring
      <3>2. a \in Batches /\ i \in Left(ItemsOf[a])
        BY <1>8, <3>1 DEF Ahead
      <3> QED BY <3>2, BatchItems
    <2>3. OneOwner(i)
      BY <2>1, <2>2 DEF OneOwner, Owns
    <2>4. OwnedStatus(i)
      BY <2>1 DEF OwnedStatus
    <2> QED BY <2>3, <2>4
  <1>11. Owners
    BY <1>10 DEF Owners
  <1> QED BY <1>4, <1>7, <1>9, <1>11 DEF SourceInv

LEMMA NothingKeeps ==
    ASSUME SourceInv, UNCHANGED vars
    PROVE  SourceInv'
  <1>1. /\ UNCHANGED <<item, import, members, remote, acquire, extract, at>>
        /\ UNCHANGED connVars /\ OnlyReads /\ Tables
    BY DEF vars, ingestVars, OnlyReads, SourceInv
  <1>2. Tables' /\ RowsStay
    BY <1>1, ReadsKeep, ReadsStay
  <1>3. Owners'
    BY <1>1, OwnersStay DEF SourceInv
  <1> QED BY <1>1, <1>2, <1>3, PeopleKeep

LEMMA ItemUpdatesKeep ==
    ASSUME SourceInv, NEW a \in Actors, ItemUpdates(a)
    PROVE  SourceInv'
  BY ReadItemKeeps, WriteItemKeeps, RecomputeKeeps DEF ItemUpdates

LEMMA ImportStepsKeep ==
    ASSUME SourceInv, NEW a \in Actors, ImportSteps(a)
    PROVE  SourceInv'
  BY CreateImportKeeps, StoredKeeps, StoreFailsKeeps DEF ImportSteps

LEMMA RequestStepKeeps ==
    ASSUME SourceInv, NEW b \in Batches, RequestStep(b)
    PROVE  SourceInv'
  <1>1. b \in Actors
    BY DEF Actors
  <1>2. ASSUME Kind[b] # "revise", EachDocument(b)
        PROVE  SourceInv'
    BY <1>1, <1>2, CreateBatchKeeps, ClaimUploadKeeps, ImportStepsKeep, AddMemberKeeps, QueueKeeps,
       EnqueueExtractionKeeps, ExtractionRefusedKeeps, EndBatchKeeps DEF EachDocument
  <1>3. ASSUME EachJob(b)
        PROVE  SourceInv'
    BY <1>3, CreateBatchKeeps, EnqueueAcquisitionKeeps, AcquisitionRefusedKeeps, EndBatchKeeps
       DEF EachJob
  <1>4. CASE UploadBatch(b)
    BY <1>1, <1>2, <1>4, RefuseFormatKeeps, ItemUpdatesKeep DEF UploadBatch
  <1>5. CASE PasteBatch(b)
    BY <1>1, <1>2, <1>5, ItemUpdatesKeep DEF PasteBatch
  <1>6. CASE UrlBatch(b)
    BY <1>1, <1>3, <1>6, ItemUpdatesKeep DEF UrlBatch
  <1>7. CASE ProviderSelectionBatch(b)
    BY <1>1, <1>3, <1>7, SelectKeeps, ReadSubscriptionKeeps, InsertSubscriptionKeeps, ItemUpdatesKeep
       DEF ProviderSelectionBatch
  <1>8. CASE Sync(b)
    BY <1>1, <1>3, <1>8, ItemUpdatesKeep DEF Sync
  <1>9. CASE UploadRevision(b)
    BY <1>1, <1>9, ReviseKeeps, ImportStepsKeep, EnqueueExtractionKeeps, ExtractionRefusedKeeps,
       MarkRefusedKeeps DEF UploadRevision
  <1> QED BY <1>4, <1>5, <1>6, <1>7, <1>8, <1>9 DEF RequestStep

LEMMA WorkerStepKeeps ==
    ASSUME SourceInv, NEW w \in Workers, WorkerStep(w)
    PROVE  SourceInv'
  <1>1. w \in Actors
    BY DEF Actors
  <1>2. CASE AcquireSource(w)
    BY <1>1, <1>2, TakeAcquisitionKeeps, ReadCredentialKeeps, SaveRefreshedKeeps,
       AcquisitionFailsKeeps, ReauthorizeKeeps, FetchKeeps, ListSubscriptionsKeeps,
       ReserveRevisionKeeps, ImportStepsKeep, RecordKeeps, AddMemberKeeps, QueueKeeps
       DEF AcquireSource
  <1>3. CASE ProcessImport(w)
    BY <1>3, TakeExtractionKeeps, SetupFailsKeeps, BeginExtractionKeeps, FinishExtractionKeeps
       DEF ProcessImport
  <1> QED BY <1>1, <1>2, <1>3, ItemUpdatesKeep, StopKeeps DEF WorkerStep

LEMMA InvariantKept == SourceInv /\ [Next]_vars => SourceInv'
  <1> SUFFICES ASSUME SourceInv, [Next]_vars PROVE SourceInv'
    OBVIOUS
  <1>1. CASE ConnNext /\ UNCHANGED ingestVars
    BY <1>1, ConnNextKeeps
  <1>2. ASSUME NEW b \in Batches, RequestStep(b) PROVE SourceInv'
    BY <1>2, RequestStepKeeps
  <1>3. ASSUME NEW w \in Workers, WorkerStep(w) PROVE SourceInv'
    BY <1>3, WorkerStepKeeps
  <1>4. ASSUME NEW i \in Items, import[i] # None, RetryImport(i) \/ CompileImport(i)
        PROVE  SourceInv'
    BY <1>4, RetryImportKeeps, CompileImportKeeps
  <1>5. ASSUME NEW f \in Files, RemoteChanges(f) PROVE SourceInv'
    BY <1>5, RemoteChangesKeeps
  <1>6. CASE UNCHANGED vars
    BY <1>6, NothingKeeps
  <1> QED BY <1>1, <1>2, <1>3, <1>4, <1>5, <1>6 DEF Next

LEMMA Invariant == Spec => []SourceInv
  BY InitHolds, InvariantKept, PTL DEF Spec


(* However many callbacks present a one-time state, and in whatever order,  *)
(* it authorizes one of them (consume_oauth_state).                         *)
THEOREM StatesUsedOnce == Spec => []StateUsedOnce
  <1>1. SourceInv => StateUsedOnce
    BY DEF SourceInv, Tables, ConnInv
  <1> QED BY Invariant, <1>1, PTL

(* The credential of a connection is one that the id of its row opens,      *)
(* whatever callbacks, refreshing workers and a disconnecting person do     *)
(* meanwhile (save_connection, update_encrypted_credential).                *)
THEOREM CredentialsSealed == Spec => []SealedForOwner
  <1>1. SourceInv => SealedForOwner
    BY DEF SourceInv, Tables, ConnInv
  <1> QED BY Invariant, <1>1, PTL

(* No two workers, and no worker and a person who uploads a revision, fork  *)
(* a lineage, and what a revision follows stays compiled                    *)
(* (resolve_import_lineage, the index on source and revision).              *)
THEOREM LineagesAreLinear == Spec => []LineageIsLinear
  <1>1. SourceInv => LineageIsLinear
    BY DEF SourceInv, Tables
  <1> QED BY Invariant, <1>1, PTL

(* An item reported as ready for review has an import for which an          *)
(* extraction stored what it found, from all chunks exactly if the import   *)
(* is open to review or compiled, whoever extracted it, however many actors *)
(* update items at the same time and however an extraction ends             *)
(* (replace_unreviewed_candidates).                                         *)
THEOREM ReviewablesHaveImports == Spec => []ReviewableItem
  <1>1. SourceInv => ReviewableItem
    BY DEF SourceInv, Tables, CandidatesKnown, ReviewedImport, Reviewable, ReviewableItem
  <1> QED BY Invariant, <1>1, PTL

-----------------------------------------------------------------------------
(* What a batch reports.  An item is young until it reached extraction:     *)
(* whoever has it knows its status, nobody else closes it, and its batch is *)
(* still pending or running.  Otherwise the batch reports what its items    *)
(* say, or somebody is still to count it.                                   *)

Settling(x) == x.step \in {"set", "write"}

(* An item a has and has not brought to extraction.                         *)
Young(a, x, i) ==
    \/ Before(a, x, i)
    \/ /\ Holds(x, i)
       /\ \/ x.step \in {"store", "record", "member", "queue"}
          \/ Settling(x) /\ x.to = "queued"
          \/ Settling(x) /\ x.to = "processing" /\ Core(x).onError = Free

YoungStatus(a, x, i) ==
    IF i \in Ahead(a, x) THEN "pending"
    ELSE IF Settling(x) /\ x.to = "processing" THEN "queued"
    ELSE "acquiring"

(* An actor that will set an item it does not have.                         *)
Closes(x, i) == Settling(x) /\ x.item = i /\ Core(x).step \notin {"extract", "job"}

Youth(i) ==
    /\ acquire[i] > 0 => item[i].status = "pending"
    /\ \A a \in Actors : Young(a, at[a], i) =>
           item[i] = None \/ item[i].status = YoungStatus(a, at[a], i)
    /\ (acquire[i] > 0 \/ \E a \in Actors : Young(a, at[a], i)) =>
           \A c \in Actors : ~Closes(at[c], i)

Backed(b) == Kind[b] = "revise" \/ batch[b] # None

OwnItems(b, x) ==
    /\ Core(x).step \in {"enqueue", "next"} \cup Makers =>
           Left(Core(x).rest) \subseteq Left(ItemsOf[b]) /\ Backed(b)
    /\ Core(x).step \in Makers => Core(x).item \in Left(ItemsOf[b])
    /\ Settling(x) => x.item \in Left(ItemsOf[b])
    /\ x.step = "recompute" => x.batch = b /\ batch[b] # None
    /\ x.step # "stopped"

Early == {"pending", "acquiring", "queued"}
Open == {"pending", "running"}

BatchesKept ==
    /\ batch = [b \in Batches |-> batch[b]]
    /\ \A b \in Batches : batch[b] # None => batch[b] \in BatchRows
    /\ \A w \in Workers : at[w].step = "recompute" => batch[at[w].batch] # None
    /\ \A i \in Items : item[i] # None <=> batch[BatchOf[i]] # None
    /\ \A b \in Batches :
           Kind[b] = "revise" \/ at[b].step \in {"new", "subscribe", "insert"} => batch[b] = None
    /\ \A i \in Items : item[i] # None /\ item[i].status \in Early =>
           batch[BatchOf[i]].status \in Open

Owes(a, x, b) ==
    \/ x.step = "stopped" /\ x.batch = b
    \/ a = b /\ x.step \notin {"new", "free"}
    \/ /\ a \in Workers
       /\ \/ x.step = "recompute" /\ x.batch = b
          \/ x.step = "write" /\ x.to \in Ended /\ BatchOf[x.item] = b
          \/ /\ x.step = "set" /\ x.to \in {"review_required", "blocked", "failed"}
             /\ BatchOf[x.item] = b /\ item[x.item].status = "processing"
          \/ /\ x.step \in {"extract", "finish"} /\ x.onError # Free
             /\ BatchOf[x.item] = b /\ item[x.item].status = "processing"

Reported(b) ==
    batch[b] # None /\ batch[b].status \notin Open =>
        batch[b] = Summary(b) \/ \E a \in Actors : Owes(a, at[a], b)

ReportInv ==
    /\ \A i \in Items : Youth(i)
    /\ \A b \in Batches : OwnItems(b, at[b])
    /\ BatchesKept
    /\ \A b \in Batches : Reported(b)

-----------------------------------------------------------------------------
(* What an actor is to an item, by its shape *)

LEMMA YoungOwns ==
    ASSUME NEW a \in Actors, NEW x, NEW i \in Items, Young(a, x, i)
    PROVE  Owns(a, x, i)
  BY DEF Young, Owns

LEMMA AcquirerYoung ==
    ASSUME NEW w \in Workers, NEW i \in Items, NEW y \in Acquisition(i), y.step \in Fetching
    PROVE  /\ \A j \in Items : Young(w, y, j) <=> j = i
           /\ \A j \in Items : ~Closes(y, j)
           /\ \A j \in Items : YoungStatus(w, y, j) = "acquiring"
           /\ \A b \in Batches : ~Owes(w, y, b)
  <1>1. /\ Core(y) = y /\ y.item = i
        /\ \A j : Before(w, y, j) <=> j = i /\ y.step \in Acquiring \cup {"create"}
        /\ \A j : Holds(y, j) <=> j = i /\ y.step \in Keeping
    BY AcquirerOwns
  <1>2. ~Settling(y) /\ w \notin Batches /\ Ahead(w, y) = {}
    BY IngestionAssumption DEF Settling, Fetching, Ahead
  <1>3. ASSUME NEW j \in Items PROVE Young(w, y, j) <=> j = i
    BY <1>1, <1>2, <1>3 DEF Young, Fetching, Acquiring, Keeping
  <1>4. ASSUME NEW b \in Batches PROVE ~Owes(w, y, b)
    BY <1>2 DEF Owes, Fetching
  <1> QED BY <1>2, <1>3, <1>4 DEF Closes, YoungStatus

LEMMA RestingYoung ==
    ASSUME NEW a \in Actors, NEW y, Resting(y)
    PROVE  \A j \in Items : ~Young(a, y, j) /\ ~Closes(y, j)
  <1>1. /\ y.step \in {"free", "stopped", "recompute"}
        /\ \A i : ~Owns(a, y, i)
    BY RestingForm
  <1> QED BY <1>1, YoungOwns DEF Closes, Settling

LEMMA ClosingYoung ==
    ASSUME NEW w \in Workers, NEW i \in Items, NEW y \in Closing(i)
    PROVE  /\ \A j \in Items : ~Young(w, y, j)
           /\ \A j \in Items : Closes(y, j) <=> j = i
  <1>1. /\ Core(y).step = "recompute"
        /\ y.step \in {"set", "write"} /\ y.item = i
        /\ \A j : ~Owns(w, y, j)
    BY ClosingForm
  <1> QED BY <1>1, YoungOwns DEF Closes, Settling, Actors

(* A worker that has the item in extraction, and one that will set it to    *)
(* queued or processing first.                                              *)
LEMMA ExtractingYoung ==
    ASSUME NEW i \in Items, NEW w \in Workers,
           NEW y \in Processing(i) \cup Queueing(i) \cup Extraction(i, {"extract", "finish"})
    PROVE  /\ \A j \in Items : ~Closes(y, j)
           /\ \A j \in Items : Young(w, y, j) => j = i /\ Settling(y)
           /\ y \in Processing(i) =>
                  /\ y.to = "processing" /\ Core(y) = y.then
                  /\ Young(w, y, i) <=> y.then.onError = Free
                  /\ YoungStatus(w, y, i) = "queued"
           /\ y \in Queueing(i) =>
                  /\ y.to = "queued" /\ Young(w, y, i) /\ YoungStatus(w, y, i) = "acquiring"
           /\ y \notin Extraction(i, {"extract", "finish"}) => Settling(y)
           /\ y.step # "recompute"
  <1>1. /\ Core(y).step \in {"extract", "finish"} /\ Core(y).item = i
        /\ (y.step \in {"set", "write"} => Core(y).step = "extract")
        /\ y.step \in {"set", "write", "extract", "finish"}
        /\ \A j : ~Before(w, y, j)
        /\ \A j : Holds(y, j) <=> j = i
    BY ExtractingForm
  <1>2. Ahead(w, y) = {}
    BY IngestionAssumption DEF Ahead
  <1>3. \A j \in Items : ~Closes(y, j)
    BY <1>1 DEF Closes, Settling
  <1>4. \A j \in Items : Young(w, y, j) => j = i /\ Settling(y)
    BY <1>1 DEF Young
  <1>5. ASSUME y \in Processing(i)
        PROVE  /\ y.to = "processing" /\ Core(y) = y.then /\ Settling(y)
               /\ Young(w, y, i) <=> y.then.onError = Free
               /\ YoungStatus(w, y, i) = "queued"
    <2>1. /\ y.to = "processing" /\ y.step \in {"set", "write"}
          /\ y.then \in Extraction(i, {"extract"})
      BY <1>5 DEF Processing, Sets
    <2>2. y.then.step = "extract"
      BY <2>1 DEF Extraction
    <2>3. Core(y) = y.then /\ Settling(y)
      BY <2>1, <2>2 DEF Core, Settling
    <2> QED BY <1>1, <1>2, <2>1, <2>3 DEF Young, YoungStatus, Settling
  <1>6. ASSUME y \in Queueing(i)
        PROVE  /\ y.to = "queued" /\ Young(w, y, i) /\ YoungStatus(w, y, i) = "acquiring"
               /\ Settling(y)
    <2>1. y.to = "queued" /\ y.step \in {"set", "write"}
      BY <1>6 DEF Queueing, Sets
    <2> QED BY <1>1, <1>2, <2>1 DEF Young, YoungStatus, Settling
  <1> QED BY <1>1, <1>3, <1>4, <1>5, <1>6

LEMMA MakerYoung ==
    ASSUME NEW b \in Batches, NEW i \in Items, NEW y \in Upload(i, Makers)
    PROVE  /\ \A j \in Items : ~Closes(y, j)
           /\ \A j \in Items : Young(b, y, j) <=> j \in Left(y.rest) \/ (j = i /\ y.step # "job")
           /\ \A j \in Left(y.rest) : YoungStatus(b, y, j) = "pending"
           /\ i \notin Left(y.rest) /\ YoungStatus(b, y, i) = "acquiring"
           /\ OwnItems(b, y) <=> /\ i \in Left(ItemsOf[b]) /\ Left(y.rest) \subseteq Left(ItemsOf[b])
                               /\ Backed(b)
  <1>1. /\ Core(y) = y /\ y.item = i /\ y.rest \in Lists /\ y.step \in Makers
        /\ \A j : Before(b, y, j) <=> j \in Left(y.rest) \/ (j = i /\ y.step = "create")
        /\ \A j : Holds(y, j) <=> j = i /\ y.step # "create"
    BY MakerOwns
  <1>2. ~Settling(y) /\ Ahead(b, y) = Left(y.rest) /\ i \notin Left(y.rest)
    BY <1>1 DEF Settling, Ahead, Makers, Upload
  <1>3. \A j \in Items : Young(b, y, j) <=> j \in Left(y.rest) \/ (j = i /\ y.step # "job")
    BY <1>1, <1>2 DEF Young, Makers
  <1>4. OwnItems(b, y) <=> /\ i \in Left(ItemsOf[b]) /\ Left(y.rest) \subseteq Left(ItemsOf[b])
                               /\ Backed(b)
    BY <1>1, <1>2 DEF OwnItems, Makers
  <1> QED BY <1>2, <1>3, <1>4 DEF Closes, YoungStatus

LEMMA QueueingUploadYoung ==
    ASSUME NEW b \in Batches, NEW i \in Items, NEW y \in QueueingUpload(i), y.then = y.else
    PROVE  /\ \A j \in Items : ~Closes(y, j)
           /\ \A j \in Items : Young(b, y, j) <=> j \in Left(y.then.rest) \/ j = i
           /\ \A j \in Left(y.then.rest) : YoungStatus(b, y, j) = "pending"
           /\ i \notin Left(y.then.rest) /\ YoungStatus(b, y, i) = "acquiring"
           /\ OwnItems(b, y) <=>
                  /\ i \in Left(ItemsOf[b]) /\ Left(y.then.rest) \subseteq Left(ItemsOf[b])
                  /\ Backed(b)
           /\ y.to = "queued" /\ y.item = i /\ Settling(y) /\ y.then \in Upload(i, Makers)
           /\ y.then.step = "job"
  <1>1. /\ y.to = "queued" /\ y.item = i /\ y.step \in {"set", "write"}
        /\ y.then \in Upload(i, {"job"})
    BY DEF QueueingUpload, Sets
  <1>2. y.then \in Upload(i, Makers) /\ y.then.step = "job" /\ y.then.item = i
        /\ i \notin Left(y.then.rest)
    BY <1>1 DEF Upload, Makers
  <1>3. Core(y) = y.then /\ Settling(y)
    BY <1>1, <1>2 DEF Core, Settling
  <1>4. Ahead(b, y) = Left(y.then.rest)
    BY <1>1, <1>2, <1>3 DEF Ahead
  <1>5. \A j \in Items : Before(b, y, j) <=> j \in Left(y.then.rest)
    BY <1>2, <1>3, <1>4 DEF Before, Acquiring
  <1>6. \A j \in Items : Holds(y, j) <=> j = i
    BY <1>2, <1>3 DEF Holds, Keeping
  <1>7. \A j \in Items : Young(b, y, j) <=> j \in Left(y.then.rest) \/ j = i
    BY <1>1, <1>3, <1>5, <1>6 DEF Young
  <1>8. OwnItems(b, y) <=>
            /\ i \in Left(ItemsOf[b]) /\ Left(y.then.rest) \subseteq Left(ItemsOf[b])
            /\ Backed(b)
    BY <1>1, <1>2, <1>3 DEF OwnItems, Makers
  <1> QED BY <1>1, <1>2, <1>3, <1>4, <1>7, <1>8 DEF Closes, YoungStatus

LEMMA FailingUploadYoung ==
    ASSUME NEW b \in Batches, NEW i \in Items, NEW y \in FailingUpload(i), y.then = y.else
    PROVE  /\ \A j \in Items : Closes(y, j) <=> j = i
           /\ \A j \in Items : Young(b, y, j) <=> j \in Left(y.then.rest)
           /\ \A j \in Left(y.then.rest) : YoungStatus(b, y, j) = "pending"
           /\ OwnItems(b, y) <=>
                  /\ i \in Left(ItemsOf[b]) /\ Left(y.then.rest) \subseteq Left(ItemsOf[b])
                  /\ Backed(b)
           /\ y.to = "failed" /\ y.item = i /\ Settling(y) /\ y.then.rest \in Lists
           /\ y.then.step \in {"enqueue", "next"}
  <1>1. /\ y.to = "failed" /\ y.item = i /\ y.step \in {"set", "write"}
        /\ y.then.step \in {"enqueue", "next"} /\ y.then.rest \in Lists
    BY DEF FailingUpload, Sets
  <1>2. Core(y) = y.then /\ Settling(y)
    BY <1>1 DEF Core, Settling
  <1>3. Ahead(b, y) = Left(y.then.rest)
    BY <1>1, <1>2 DEF Ahead
  <1>4. \A j \in Items : Before(b, y, j) <=> j \in Left(y.then.rest)
    BY <1>1, <1>2, <1>3 DEF Before, Acquiring
  <1>5. \A j \in Items : ~Holds(y, j)
    BY <1>1, <1>2 DEF Holds, Keeping
  <1>6. \A j \in Items : Young(b, y, j) <=> j \in Left(y.then.rest)
    BY <1>4, <1>5 DEF Young
  <1>7. OwnItems(b, y) <=>
            /\ i \in Left(ItemsOf[b]) /\ Left(y.then.rest) \subseteq Left(ItemsOf[b])
            /\ Backed(b)
    BY <1>1, <1>2 DEF OwnItems, Makers
  <1> QED BY <1>1, <1>2, <1>3, <1>6, <1>7 DEF Closes, YoungStatus

LEMMA TodoYoung ==
    ASSUME NEW b \in Batches, NEW rest \in Lists, NEW step \in {"enqueue", "next"},
           NEW y, y = Todo(step, rest)
    PROVE  /\ \A j \in Items : ~Closes(y, j)
           /\ \A j \in Items : Young(b, y, j) <=> j \in Left(rest)
           /\ \A j \in Left(rest) : YoungStatus(b, y, j) = "pending"
           /\ OwnItems(b, y) <=> Left(rest) \subseteq Left(ItemsOf[b]) /\ Backed(b)
           /\ y.step = step
  <1>1. y.step = step /\ y.rest = rest
    BY DEF Todo
  <1>2. Core(y) = y /\ ~Settling(y)
    BY <1>1 DEF Core, Settling
  <1>3. Ahead(b, y) = Left(rest)
    BY <1>1, <1>2 DEF Ahead
  <1>4. \A j \in Items : Before(b, y, j) <=> j \in Left(rest)
    BY <1>1, <1>2, <1>3 DEF Before, Acquiring
  <1>5. \A j \in Items : ~Holds(y, j)
    BY <1>1, <1>2 DEF Holds, Keeping
  <1> QED BY <1>1, <1>2, <1>3, <1>4, <1>5 DEF Closes, YoungStatus, OwnItems, Young, Makers

(* A request that has not created its batch.                                *)
LEMMA UnbegunYoung ==
    ASSUME NEW b \in Batches, NEW y, y.step \in {"new", "subscribe", "insert"}
    PROVE  /\ \A j \in Items : ~Closes(y, j)
           /\ \A j \in Items : Young(b, y, j) <=> j \in Left(ItemsOf[b])
           /\ \A j \in Left(ItemsOf[b]) : YoungStatus(b, y, j) = "pending"
           /\ OwnItems(b, y)
  <1>1. Core(y) = y /\ ~Settling(y) /\ Ahead(b, y) = Left(ItemsOf[b])
    BY DEF Core, Settling, Ahead
  <1>2. \A j \in Items : Before(b, y, j) <=> j \in Left(ItemsOf[b])
    BY <1>1 DEF Before, Acquiring
  <1>3. \A j \in Items : ~Holds(y, j)
    BY <1>1 DEF Holds, Keeping
  <1> QED BY <1>1, <1>2, <1>3 DEF Closes, YoungStatus, OwnItems, Young, Makers

-----------------------------------------------------------------------------
(* One actor moves, and items with it *)

(* The item is a's: it has it, takes its job, or sets it.                   *)
Mine(a, i) ==
    \/ Owns(a, at[a], i) \/ Closes(at[a], i)
    \/ acquire[i] + extract[i] = 1 /\ acquire'[i] + extract'[i] = 0

Ages(a, y, i) ==
    /\ Mine(a, i) \/ /\ item'[i] = item[i] /\ acquire'[i] = acquire[i]
                     /\ ~Young(a, y, i) /\ ~Closes(y, i)
    /\ acquire'[i] > 0 => item'[i].status = "pending" /\ ~Closes(y, i)
    /\ Young(a, y, i) =>
           /\ item'[i] = None \/ item'[i].status = YoungStatus(a, y, i)
           /\ ~Closes(y, i)
    /\ acquire'[i] > 0 \/ Young(a, y, i) => Young(a, at[a], i) \/ acquire[i] > 0

(* Nobody else has an item that is young or waits for its acquisition, and  *)
(* nobody else will set it.                                                 *)
LEMMA YouthPasses ==
    ASSUME SourceInv, NEW a \in Actors, NEW y, Goto(a, y),
           NEW i \in Items, Youth(i), Ages(a, y, i)
    PROVE  Youth(i)'
  <1>1. at'[a] = y /\ \A c \in Actors : c # a => at'[c] = at[c]
    BY OthersStay DEF SourceInv
  <1>2. OneOwner(i)
    BY DEF SourceInv, Owners
  <1>3. ASSUME NEW c \in Actors, c # a, Young(c, at[c], i)
        PROVE  item'[i] = item[i] /\ ~Closes(y, i)
    <2>1. Owns(c, at[c], i)
      BY <1>3, YoungOwns
    <2>2. ~Owns(a, at[a], i) /\ acquire[i] + extract[i] = 0
      BY <1>2, <1>3, <2>1 DEF OneOwner
    <2>3. ~Closes(at[a], i)
      BY <1>3 DEF Youth
    <2>4. ~Mine(a, i)
      BY <2>2, <2>3 DEF Mine
    <2> QED BY <2>4 DEF Ages
  <1>4. \A c \in Actors : Young(c, at'[c], i) =>
            (c = a /\ Young(a, y, i)) \/ (c # a /\ Young(c, at[c], i) /\ at'[c] = at[c])
    BY <1>1
  <1>5. \A c \in Actors : Closes(at'[c], i) =>
            (c = a /\ Closes(y, i)) \/ (c # a /\ Closes(at[c], i))
    BY <1>1
  <1>6. acquire'[i] > 0 => item'[i].status = "pending"
    BY DEF Ages
  <1>7. ASSUME NEW c \in Actors, Young(c, at'[c], i)
        PROVE  item'[i] = None \/ item'[i].status = YoungStatus(c, at'[c], i)
    <2>1. CASE c = a
      BY <1>1, <1>7, <2>1 DEF Ages
    <2>2. CASE c # a
      <3>1. Young(c, at[c], i) /\ at'[c] = at[c]
        BY <1>1, <1>7, <2>2
      <3> QED BY <1>3, <2>2, <3>1 DEF Youth
    <2> QED BY <2>1, <2>2
  <1>8. ASSUME acquire'[i] > 0 \/ \E c \in Actors : Young(c, at'[c], i), NEW d \in Actors
        PROVE  ~Closes(at'[d], i)
    <2>1. ~Closes(y, i)
      BY <1>3, <1>4, <1>8 DEF Ages
    <2>2. acquire[i] > 0 \/ \E c \in Actors : Young(c, at[c], i)
      BY <1>4, <1>8 DEF Ages
    <2>3. ~Closes(at[d], i)
      BY <2>2 DEF Youth
    <2> QED BY <1>5, <2>1, <2>3
  <1>9. \A c \in Actors : Young(c, at'[c], i) =>
            item'[i] = None \/ item'[i].status = YoungStatus(c, at'[c], i)
    BY <1>7
  <1>10. acquire'[i] > 0 \/ (\E c \in Actors : Young(c, at'[c], i)) =>
             \A d \in Actors : ~Closes(at'[d], i)
    BY SMTT(30), <1>8
  <1>11. /\ Youth(i)' <=>
                /\ acquire'[i] > 0 => item'[i].status = "pending"
                /\ \A c \in Actors : Young(c, at'[c], i) =>
                       item'[i] = None \/ item'[i].status = YoungStatus(c, at'[c], i)
                /\ (acquire'[i] > 0 \/ \E c \in Actors : Young(c, at'[c], i)) =>
                       \A c \in Actors : ~Closes(at'[c], i)
    BY DEF Youth, Young, YoungStatus, Closes, Before, Holds, Ahead, Core, Settling
  <1> QED BY <1>6, <1>9, <1>10, <1>11

(* A step that leaves the item as it is, and who has it.                    *)
LEMMA AgesOn ==
    ASSUME SourceInv, NEW a \in Actors, NEW y, NEW i \in Items, Youth(i),
           item'[i] = item[i], acquire'[i] = acquire[i],
           Young(a, y, i) => /\ Young(a, at[a], i) /\ ~Closes(y, i)
                             /\ YoungStatus(a, y, i) = YoungStatus(a, at[a], i),
           Closes(y, i) => Owns(a, at[a], i) \/ Closes(at[a], i)
    PROVE  Ages(a, y, i)
  <1>1. OneOwner(i) /\ acquire[i] \in Nat /\ extract[i] \in Nat
    BY DEF SourceInv, Owners, Tables, RowsTyped
  <1>2. Young(a, y, i) => Owns(a, at[a], i)
    BY YoungOwns
  <1>3. acquire[i] > 0 => ~Closes(y, i)
    <2>1. acquire[i] > 0 => ~Owns(a, at[a], i)
      BY <1>1 DEF OneOwner
    <2>2. acquire[i] > 0 => ~Closes(at[a], i)
      BY DEF Youth
    <2> QED BY <2>1, <2>2
  <1> QED BY <1>2, <1>3 DEF Ages, Mine, Youth

-----------------------------------------------------------------------------
(* Reports *)

(* What a request keeps beside its items.                                   *)
Begins(b, y) ==
    /\ OwnItems(b, y)
    /\ y.step \in {"new", "subscribe", "insert"} => batch[b] = None

LEMMA ReadsReport ==
    ASSUME SourceInv, ReportInv, NEW a \in Actors, NEW y, Goto(a, y), UNCHANGED <<item, batch>>,
           \A i \in Items : Ages(a, y, i), a \in Batches => Begins(a, y),
           a \in Workers /\ y.step = "recompute" => batch[y.batch] # None,
           \A b \in Batches : batch[b] # None /\ Owes(a, at[a], b) => Owes(a, y, b)
    PROVE  ReportInv'
  <1>1. at'[a] = y /\ \A c \in Actors : c # a => at'[c] = at[c]
    BY OthersStay DEF SourceInv
  <1>2. \A i \in Items : Youth(i)'
    BY YouthPasses DEF ReportInv
  <1>3. \A b \in Batches : OwnItems(b, at[b])'
    <2>1. \A b \in Batches : OwnItems(b, at'[b])
      BY <1>1 DEF ReportInv, Begins, Actors
    <2> QED BY <2>1 DEF OwnItems, Core, Settling, Backed
  <1>4. BatchesKept'
    <2>1. \A b \in Batches : at'[b].step \in {"new", "subscribe", "insert"} => batch[b] = None
      BY <1>1 DEF ReportInv, BatchesKept, Begins, Actors
    <2>2. \A w \in Workers : at'[w].step = "recompute" => batch[at'[w].batch] # None
      BY <1>1 DEF ReportInv, BatchesKept, Actors
    <2> QED BY <2>1, <2>2 DEF ReportInv, BatchesKept
  <1>5. \A b \in Batches : Reported(b)'
    <2>1. SUFFICES ASSUME NEW b \in Batches, batch[b] # None, batch[b].status \notin Open,
                          NEW c \in Actors, Owes(c, at[c], b)
                   PROVE  Owes(c, at'[c], b)
      <3>1. \A b \in Batches : Summary(b)' = Summary(b)
        BY DEF Summary, BatchStatus, Having
      <3>2. \A b \in Batches : \A c \in Actors : Owes(c, at[c], b)' <=> Owes(c, at'[c], b)
        BY DEF Owes
      <3> QED BY <2>1, <3>1, <3>2 DEF ReportInv, Reported
    <2> QED BY <1>1, <2>1
  <1> QED BY <1>2, <1>3, <1>4, <1>5 DEF ReportInv

LEMMA WorkerReports ==
    ASSUME SourceInv, ReportInv, NEW w \in Workers, NEW y, Goto(w, y), UNCHANGED <<item, batch>>,
           \A i \in Items : Ages(w, y, i), y.step = "recompute" => batch[y.batch] # None,
           \A b \in Batches : batch[b] # None /\ Owes(w, at[w], b) => Owes(w, y, b)
    PROVE  ReportInv'
  BY ReadsReport, IngestionAssumption DEF Actors

LEMMA RequestReports ==
    ASSUME SourceInv, ReportInv, NEW b \in Batches, NEW y, Goto(b, y), UNCHANGED <<item, batch>>,
           \A i \in Items : Ages(b, y, i), OwnItems(b, y), at[b].step # "stopped",
           y.step \in {"new", "subscribe", "insert", "free"} => batch[b] = None
    PROVE  ReportInv'
  <1>1. b \notin Workers /\ b \in Actors
    BY IngestionAssumption DEF Actors
  <1>2. \A c \in Batches : batch[c] # None /\ Owes(b, at[b], c) => Owes(b, y, c)
    BY <1>1 DEF Owes
  <1> QED BY <1>1, <1>2, ReadsReport DEF Begins

-----------------------------------------------------------------------------
(* The worker with an item *)

LEMMA AcquirerReports ==
    ASSUME SourceInv, ReportInv, NEW w \in Workers, at[w].step \in Fetching, NEW i, i = at[w].item,
           NEW y \in Acquisition(i), y.step \in Fetching, Goto(w, y),
           UNCHANGED <<item, batch, acquire>>
    PROVE  ReportInv'
  <1>1. i \in Items /\ at[w] \in Acquisition(i) /\ w \in Actors
    BY Acquirer DEF Actors
  <1>2. /\ \A j \in Items : Young(w, y, j) <=> Young(w, at[w], j)
        /\ \A j \in Items : ~Closes(y, j) /\ YoungStatus(w, y, j) = YoungStatus(w, at[w], j)
        /\ \A b \in Batches : ~Owes(w, at[w], b)
    BY <1>1, AcquirerYoung
  <1>3. \A j \in Items : Ages(w, y, j)
    BY <1>1, <1>2, AgesOn DEF ReportInv
  <1> QED BY <1>2, <1>3, WorkerReports DEF Fetching

(* A worker that will set an item it had, or whose job it took.             *)
LEMMA ClosingReports ==
    ASSUME SourceInv, ReportInv, NEW w \in Workers, NEW i \in Items, NEW y \in Closing(i),
           Goto(w, y), UNCHANGED <<item, batch, acquire>>,
           Owns(w, at[w], i) \/ (acquire[i] = 0 /\ extract[i] = 1 /\ extract'[i] = 0),
           \A b \in Batches : batch[b] # None /\ Owes(w, at[w], b) => Owes(w, y, b)
    PROVE  ReportInv'
  <1>1. w \in Actors
    BY DEF Actors
  <1>2. /\ \A j \in Items : ~Young(w, y, j)
        /\ \A j \in Items : Closes(y, j) <=> j = i
    BY ClosingYoung
  <1>3. \A j \in Items : j # i => Ages(w, y, j)
    BY <1>1, <1>2, AgesOn DEF ReportInv
  <1>4. Ages(w, y, i)
    <2>1. acquire[i] = 0
      BY <1>1 DEF SourceInv, Owners, OneOwner, Tables, RowsTyped
    <2>2. Mine(w, i)
      BY <2>1 DEF Mine
    <2> QED BY <1>2, <2>1, <2>2 DEF Ages
  <1>5. y.step # "recompute"
    BY ClosingForm
  <1> QED BY <1>3, <1>4, <1>5, WorkerReports

(* A worker that leaves an item or its job to nobody.                       *)
LEMMA RestingReports ==
    ASSUME SourceInv, ReportInv, NEW w \in Workers, NEW y, Resting(y), y.step # "recompute",
           Goto(w, y), UNCHANGED <<item, batch, acquire>>,
           \A b \in Batches : batch[b] # None /\ Owes(w, at[w], b) => Owes(w, y, b)
    PROVE  ReportInv'
  <1>1. w \in Actors
    BY DEF Actors
  <1>2. \A j \in Items : ~Young(w, y, j) /\ ~Closes(y, j)
    BY <1>1, RestingYoung
  <1>3. \A j \in Items : Ages(w, y, j)
    BY <1>1, <1>2, AgesOn DEF ReportInv
  <1> QED BY <1>3, WorkerReports

LEMMA FreeRests == Resting(Free) /\ Free.step = "free"
  BY DEF Resting, Free

LEMMA ReadCredentialReports ==
    ASSUME SourceInv, ReportInv, NEW w \in Workers, ReadCredential(w)
    PROVE  ReportInv'
  <1>1. PICK i : i = at[w].item
    OBVIOUS
  <1>2. /\ at[w].step = "credential" /\ UNCHANGED <<item, batch, acquire>>
        /\ \/ \E step \in {"fetch", "refresh"} : Goto(w, Doing(step, i))
           \/ Goto(w, Failing(i))
    BY <1>1 DEF ReadCredential, At
  <1>3. i \in Items /\ Owns(w, at[w], i) /\ at[w] \in Acquisition(i)
    BY <1>1, <1>2, Acquirer DEF Fetching, Acquiring, Owns
  <1>4. \A b \in Batches : ~Owes(w, at[w], b)
    BY <1>2, <1>3, AcquirerYoung DEF Fetching
  <1>5. CASE Goto(w, Failing(i))
    BY <1>2, <1>3, <1>4, <1>5, FailingCloses, ClosingReports
  <1>6. ASSUME NEW step \in {"fetch", "refresh"}, Goto(w, Doing(step, i))
        PROVE  ReportInv'
    <2>1. Doing(step, i) \in Acquisition(i) /\ Doing(step, i).step = step
      BY DEF Doing, Acquisition
    <2> QED BY <1>1, <1>2, <1>6, <2>1, AcquirerReports DEF Fetching
  <1> QED BY <1>2, <1>5, <1>6

LEMMA AcquisitionFailsReports ==
    ASSUME SourceInv, ReportInv, NEW w \in Workers, AcquisitionFails(w) \/ Reauthorize(w)
    PROVE  ReportInv'
  <1>1. PICK i : i = at[w].item
    OBVIOUS
  <1>2. /\ at[w].step \in {"refresh", "fetch"} /\ UNCHANGED <<item, batch, acquire>>
        /\ Goto(w, Failing(i))
    BY <1>1 DEF AcquisitionFails, Reauthorize, At
  <1>3. i \in Items /\ Owns(w, at[w], i) /\ at[w] \in Acquisition(i)
    BY <1>1, <1>2, Acquirer DEF Fetching, Acquiring, Owns
  <1>4. \A b \in Batches : ~Owes(w, at[w], b)
    BY <1>2, <1>3, AcquirerYoung DEF Fetching
  <1> QED BY <1>2, <1>3, <1>4, FailingCloses, ClosingReports

LEMMA SaveRefreshedReports ==
    ASSUME SourceInv, ReportInv, NEW w \in Workers, SaveRefreshed(w)
    PROVE  ReportInv'
  <1>1. PICK i : i = at[w].item
    OBVIOUS
  <1>2. /\ at[w].step = "refresh" /\ UNCHANGED <<item, batch, acquire>>
        /\ Goto(w, Doing("fetch", i))
    BY <1>1 DEF SaveRefreshed, At
  <1>3. i \in Items
    BY <1>1, <1>2, Acquirer DEF Fetching
  <1>4. Doing("fetch", i) \in Acquisition(i) /\ Doing("fetch", i).step = "fetch"
    BY DEF Doing, Acquisition
  <1> QED BY <1>1, <1>2, <1>3, <1>4, AcquirerReports DEF Fetching

LEMMA FetchReports ==
    ASSUME SourceInv, ReportInv, NEW w \in Workers, Fetch(w)
    PROVE  ReportInv'
  <1>1. PICK i : i = at[w].item
    OBVIOUS
  <1>2. PICK y : /\ y = IF FileOf[i] = None
                         THEN [item |-> i, parent |-> None, step |-> "create", version |-> 1]
                         ELSE [item |-> i, step |-> "list", version |-> remote[FileOf[i]]]
                 /\ at[w].step = "fetch" /\ Goto(w, y)
                 /\ UNCHANGED <<item, batch, acquire>>
    BY <1>1 DEF Fetch, At
  <1>3. i \in Items
    BY <1>1, <1>2, Acquirer DEF Fetching
  <1>4. FileOf[i] # None => remote[FileOf[i]] \in Nat
    BY <1>3, IngestionAssumption DEF SourceInv, Tables, RowsTyped
  <1>5. y \in Acquisition(i) /\ y.step \in {"create", "list"}
    <2>1. CASE FileOf[i] = None
      BY <1>2, <2>1 DEF Acquisition
    <2>2. CASE FileOf[i] # None
      BY <1>2, <1>4, <2>2 DEF Acquisition
    <2> QED BY <2>1, <2>2
  <1> QED BY <1>1, <1>2, <1>5, AcquirerReports DEF Fetching

LEMMA ListSubscriptionsReports ==
    ASSUME SourceInv, ReportInv, NEW w \in Workers, ListSubscriptions(w)
    PROVE  ReportInv'
  <1>1. PICK i : i = at[w].item
    OBVIOUS
  <1>2. PICK y : /\ y = [item |-> i, parent |-> sub[FileOf[i]].last, step |-> "reserve",
                         version |-> at[w].version]
                 /\ at[w].step = "list" /\ Goto(w, y)
                 /\ UNCHANGED <<item, batch, acquire>>
    BY <1>1 DEF ListSubscriptions, At
  <1>3. /\ i \in Items /\ at[w] \in Acquisition(i) /\ Known(i) /\ FileOf[i] # None
    BY <1>1, <1>2, Acquirer DEF Fetching
  <1>4. at[w].version \in Nat
    BY <1>2, <1>3 DEF Acquisition
  <1>5. sub[FileOf[i]] \in SubscriptionRows
    BY <1>3, IngestionAssumption DEF SourceInv, Tables, RowsTyped, FilesKnown, Known
  <1>6. y \in Acquisition(i) /\ y.step = "reserve"
    BY <1>2, <1>4, <1>5 DEF Acquisition, SubscriptionRows
  <1> QED BY <1>1, <1>2, <1>6, AcquirerReports DEF Fetching

LEMMA ReserveRevisionReports ==
    ASSUME SourceInv, ReportInv, NEW w \in Workers, ReserveRevision(w)
    PROVE  ReportInv'
  <1>1. PICK i : i = at[w].item
    OBVIOUS
  <1>2. /\ at[w].step = "reserve" /\ UNCHANGED <<item, batch, acquire>>
        /\ \/ \E to \in {"unchanged", "blocked"} :
                  Goto(w, Setting(i, to, at[w].parent, Recomputing(i), Free))
           \/ \E p \in {None, at[w].parent} :
                  Goto(w, [item |-> i, parent |-> p, step |-> "create", version |-> at[w].version])
    BY <1>1 DEF ReserveRevision, At
  <1>3. /\ i \in Items /\ at[w] \in Acquisition(i) /\ Owns(w, at[w], i)
    BY <1>1, <1>2, Acquirer DEF Fetching, Acquiring, Owns
  <1>4. at[w].version \in Nat /\ at[w].parent \in Items \cup {None}
    BY <1>2, <1>3 DEF Acquisition
  <1>5. \A b \in Batches : ~Owes(w, at[w], b)
    BY <1>2, <1>3, AcquirerYoung DEF Fetching
  <1>6. ASSUME NEW to \in {"unchanged", "blocked"},
               Goto(w, Setting(i, to, at[w].parent, Recomputing(i), Free))
        PROVE  ReportInv'
    <2>1. Setting(i, to, at[w].parent, Recomputing(i), Free) \in Closing(i)
      BY <1>4 DEF Setting, Closing, Sets, Ended
    <2> QED BY <1>2, <1>3, <1>5, <1>6, <2>1, ClosingReports
  <1>7. ASSUME NEW p \in {None, at[w].parent},
               Goto(w, [item |-> i, parent |-> p, step |-> "create", version |-> at[w].version])
        PROVE  ReportInv'
    <2> DEFINE y == [item |-> i, parent |-> p, step |-> "create", version |-> at[w].version]
    <2>1. y \in Acquisition(i) /\ y.step = "create"
      BY <1>4 DEF Acquisition
    <2> QED BY <1>1, <1>2, <1>7, <2>1, AcquirerReports DEF Fetching
  <1> QED BY SMTT(30), <1>2, <1>6, <1>7

LEMMA RecordReports ==
    ASSUME SourceInv, ReportInv, NEW w \in Workers, Record(w)
    PROVE  ReportInv'
  <1>1. PICK i : i = at[w].item
    OBVIOUS
  <1>2. PICK step \in {"member", "queue"} :
            /\ at[w].step = "record" /\ Goto(w, [at[w] EXCEPT !.step = step])
            /\ UNCHANGED <<item, batch, acquire>>
    BY <1>1 DEF Record, At
  <1>3. i \in Items /\ at[w] \in Acquisition(i)
    BY <1>1, <1>2, Acquirer DEF Fetching
  <1>4. [at[w] EXCEPT !.step = step] \in Acquisition(i)
        /\ [at[w] EXCEPT !.step = step].step = step
    BY <1>2, <1>3 DEF Acquisition
  <1> QED BY <1>1, <1>2, <1>4, AcquirerReports DEF Fetching

-----------------------------------------------------------------------------
(* The worker with an import *)

LEMMA ExtractingOwes ==
    ASSUME NEW w \in Workers, NEW i \in Items, NEW y \in Extraction(i, {"extract", "finish"})
    PROVE  \A b \in Batches : Owes(w, y, b) <=>
               /\ y.onError # Free /\ BatchOf[i] = b /\ item[i].status = "processing"
  <1>1. y.item = i /\ y.step \in {"extract", "finish"} /\ w \notin Batches
    BY IngestionAssumption DEF Extraction
  <1> QED BY <1>1 DEF Owes

LEMMA QueueReports ==
    ASSUME SourceInv, ReportInv, NEW w \in Workers, Queue(w)
    PROVE  ReportInv'
  <1>1. PICK i : i = at[w].item
    OBVIOUS
  <1> DEFINE own == [item |-> i, onError |-> Free, step |-> "extract"]
             process == Setting(i, "processing", i, own, Free)
             y == Setting(i, "queued", i, process, Free)
  <1>2. at[w].step = "queue" /\ Goto(w, y) /\ UNCHANGED <<item, batch, acquire>>
        /\ w \in Actors /\ w \notin Batches
    BY <1>1, IngestionAssumption DEF Queue, At, Actors
  <1>3. i \in Items /\ at[w] \in Acquisition(i)
    BY <1>1, <1>2, Acquirer DEF Fetching
  <1>4. y \in Queueing(i)
    <2>1. own \in Extraction(i, {"extract"})
      BY DEF Extraction, OnFail
    <2>2. process \in Processing(i) /\ process.step = "set"
      BY <2>1 DEF Processing, Sets, Setting
    <2> QED BY <2>2 DEF Queueing, Sets, Setting
  <1>5. /\ \A j \in Items : Young(w, at[w], j) <=> j = i
        /\ YoungStatus(w, at[w], i) = "acquiring"
        /\ \A b \in Batches : ~Owes(w, at[w], b)
    BY <1>2, <1>3, AcquirerYoung DEF Fetching
  <1>6. /\ \A j \in Items : ~Closes(y, j)
        /\ \A j \in Items : Young(w, y, j) => j = i
        /\ YoungStatus(w, y, i) = "acquiring"
        /\ y.step # "recompute"
    BY <1>3, <1>4, ExtractingYoung
  <1>7. \A j \in Items : Ages(w, y, j)
    BY <1>2, <1>5, <1>6, AgesOn DEF ReportInv
  <1> QED BY <1>2, <1>5, <1>6, <1>7, WorkerReports

LEMMA TakeExtractionReports ==
    ASSUME SourceInv, ReportInv, NEW w \in Workers, NEW i \in Items, TakeExtraction(w, i)
    PROVE  ReportInv'
  <1> DEFINE fail == Setting(i, "failed", i, Recomputing(i), Free)
             then == [item |-> i, onError |-> fail, step |-> "extract"]
             bare == [item |-> i, onError |-> Free, step |-> "extract"]
             process == Setting(i, "processing", i, then, then)
  <1>1. /\ at[w].step = "free" /\ UNCHANGED <<item, batch, acquire>>
        /\ w \in Actors /\ w \notin Batches
        /\ Goto(w, bare) \/ Goto(w, process)
    BY IngestionAssumption DEF TakeExtraction, At, Actors
  <1>2. \A b \in Batches : ~Owes(w, at[w], b)
    BY <1>1 DEF Owes
  <1>3. fail # Free
    BY DEF Setting, Free
  <1>4. bare \in Extraction(i, {"extract", "finish"}) /\ ~Settling(bare)
    BY DEF Extraction, OnFail, Settling
  <1>5. process \in Processing(i) /\ process.then.onError = fail
    <2>1. then \in Extraction(i, {"extract"})
      BY DEF Extraction, OnFail
    <2> QED BY <2>1 DEF Processing, Sets, Setting
  <1>6. ASSUME NEW y \in {bare, process}, Goto(w, y)
        PROVE  ReportInv'
    <2>1. /\ \A j \in Items : ~Closes(y, j)
          /\ \A j \in Items : Young(w, y, j) => j = i /\ Settling(y)
          /\ y.step # "recompute"
      BY <1>4, <1>5, ExtractingYoung
    <2>2. ~Young(w, y, i)
      <3>1. CASE y = bare
        BY <1>4, <2>1, <3>1
      <3>2. CASE y = process
        BY <1>3, <1>5, <3>2, ExtractingYoung
      <3> QED BY <3>1, <3>2
    <2>3. \A j \in Items : Ages(w, y, j)
      BY <1>1, <2>1, <2>2, AgesOn DEF ReportInv
    <2> QED BY <1>1, <1>2, <1>6, <2>1, <2>3, WorkerReports
  <1> QED BY <1>1, <1>6

LEMMA SetupFailsReports ==
    ASSUME SourceInv, ReportInv, NEW w \in Workers, NEW i \in Items, SetupFails(w, i)
    PROVE  ReportInv'
  <1> DEFINE fail == Setting(i, "failed", i, Recomputing(i), Free)
  <1>1. /\ at[w].step = "free" /\ UNCHANGED <<item, batch, acquire>>
        /\ extract[i] > 0 /\ extract' = [extract EXCEPT ![i] = @ - 1]
        /\ Goto(w, Free) \/ Goto(w, fail)
    BY DEF SetupFails, At
  <1>2. \A b \in Batches : ~Owes(w, at[w], b)
    BY <1>1, IngestionAssumption DEF Owes
  <1>3. acquire[i] = 0 /\ extract[i] = 1 /\ extract'[i] = 0
    BY <1>1, JobTaken
  <1>4. fail \in Closing(i)
    BY DEF Setting, Closing, Sets, Ended
  <1>5. CASE Goto(w, Free)
    BY <1>1, <1>2, <1>5, RestingReports, FreeRests
  <1>6. CASE Goto(w, fail)
    BY <1>1, <1>2, <1>3, <1>4, <1>6, ClosingReports
  <1> QED BY <1>1, <1>5, <1>6

LEMMA BeginExtractionReports ==
    ASSUME SourceInv, ReportInv, NEW w \in Workers, BeginExtraction(w)
    PROVE  ReportInv'
  <1>1. PICK i : i = at[w].item
    OBVIOUS
  <1>2. PICK y : y = [at[w] EXCEPT !.step = "finish"]
    OBVIOUS
  <1>3. /\ at[w].step = "extract" /\ UNCHANGED <<item, batch, acquire>> /\ Goto(w, y)
        /\ w \in Actors
    BY <1>2 DEF BeginExtraction, At, Actors
  <1>4. i \in Items /\ at[w] \in Extraction(i, {"extract", "finish"})
    BY <1>1, <1>3, Extractor
  <1>5. y \in Extraction(i, {"extract", "finish"}) /\ y.onError = at[w].onError
        /\ ~Settling(y)
    BY <1>2, <1>4 DEF Extraction, Settling
  <1>6. /\ \A j \in Items : ~Closes(y, j) /\ ~Young(w, y, j)
        /\ y.step # "recompute"
    BY <1>4, <1>5, ExtractingYoung
  <1>7. \A j \in Items : Ages(w, y, j)
    BY <1>3, <1>6, AgesOn DEF ReportInv
  <1>8. \A b \in Batches : Owes(w, at[w], b) => Owes(w, y, b)
    <2>1. \A b \in Batches : Owes(w, at[w], b) <=>
              /\ at[w].onError # Free /\ BatchOf[i] = b /\ item[i].status = "processing"
      BY <1>4, ExtractingOwes
    <2>2. \A b \in Batches : Owes(w, y, b) <=>
              /\ y.onError # Free /\ BatchOf[i] = b /\ item[i].status = "processing"
      BY <1>4, <1>5, ExtractingOwes
    <2> QED BY <1>5, <2>1, <2>2
  <1> QED BY <1>3, <1>6, <1>7, <1>8, WorkerReports

LEMMA FinishExtractionReports ==
    ASSUME SourceInv, ReportInv, NEW w \in Workers, NEW outcome \in Outcomes,
           FinishExtraction(w, outcome)
    PROVE  ReportInv'
  <1> DEFINE i == at[w].item
             close == Setting(i, ItemStatus(outcome), i, Recomputing(i), Free)
             fail == Setting(i, "failed", i, Recomputing(i), Free)
  <1>1. /\ at[w].step = "finish" /\ UNCHANGED <<item, batch, acquire>>
        /\ Goto(w, IF outcome \in Errors THEN at[w].onError
                   ELSE IF item[i] = None THEN Free ELSE close)
    BY DEF FinishExtraction, At
  <1>2. /\ i \in Items /\ at[w] \in Extraction(i, {"extract", "finish"})
        /\ Owns(w, at[w], i) /\ (at[w].onError = Free \/ Known(i))
    BY <1>1, Extractor DEF Owns
  <1>3. at[w].onError \in {Free, fail}
    BY <1>2 DEF Extraction, OnFail
  <1>4. \A b \in Batches : Owes(w, at[w], b) =>
            /\ at[w].onError # Free /\ BatchOf[i] = b /\ item[i].status = "processing"
    BY <1>2, ExtractingOwes
  <1>5. ASSUME NEW y \in {close, fail}, Goto(w, y)
        PROVE  ReportInv'
    <2>1. /\ y \in Closing(i) /\ y.step = "set" /\ y.item = i
          /\ y.to \in {"review_required", "blocked", "failed"}
      BY <1>2 DEF Setting, Closing, Sets, Ended, ItemStatus
    <2>2. \A b \in Batches : Owes(w, at[w], b) => Owes(w, y, b)
      BY <1>4, <2>1 DEF Owes
    <2> QED BY <1>1, <1>2, <1>5, <2>1, <2>2, ClosingReports
  <1>6. CASE Goto(w, Free) /\ at[w].onError = Free
    BY <1>1, <1>4, <1>6, RestingReports, FreeRests
  <1>7. Goto(w, Free) => at[w].onError = Free \/ Goto(w, fail) \/ Goto(w, close)
    <2>1. CASE outcome \in Errors
      BY <1>1, <1>3, <2>1
    <2>2. CASE outcome \notin Errors
      BY <1>1, <1>2, <2>2 DEF Known
    <2> QED BY <2>1, <2>2
  <1>8. Goto(w, Free) \/ Goto(w, fail) \/ Goto(w, close)
    BY <1>1, <1>3
  <1> QED BY <1>5, <1>6, <1>7, <1>8

LEMMA StopReports ==
    ASSUME SourceInv, ReportInv, NEW w \in Workers, Stop(w)
    PROVE  ReportInv'
  <1> DEFINE b == IF At(w, "recompute") THEN at[w].batch ELSE BatchOf[at[w].item]
             y == [batch |-> b, step |-> "stopped"]
  <1>1. /\ Goto(w, y) /\ at[w].step \notin {"free", "stopped"}
        /\ UNCHANGED <<item, batch, acquire>>
    BY DEF Stop
  <1>2. b \in Batches
    BY <1>1, BatchWorkedOn DEF At
  <1>3. Resting(y) /\ y.step = "stopped"
    BY <1>2 DEF Resting
  <1>4. \A c \in Batches : Owes(w, at[w], c) => Owes(w, y, c)
    <2>1. w \notin Batches
      BY IngestionAssumption
    <2> QED BY <1>1, <2>1 DEF Owes, At
  <1> QED BY <1>1, <1>3, <1>4, RestingReports

-----------------------------------------------------------------------------
(* The imports of workers and requests *)

LEMMA RevisionUnreported ==
    ASSUME ReportInv, NEW b \in Batches, Kind[b] = "revise"
    PROVE  batch[b] = None
  BY DEF ReportInv, BatchesKept

LEMMA MakesOnReports ==
    ASSUME SourceInv, ReportInv, NEW a \in Actors, at[a].step \in {"create", "store", "member"},
           NEW step \in {"store", "record", "member", "queue", "job"},
           a \in Workers => step # "job", a \in Batches => step # "record",
           Goto(a, [at[a] EXCEPT !.step = step]), UNCHANGED <<item, batch, acquire>>
    PROVE  ReportInv'
  <1>1. PICK i : i = at[a].item
    OBVIOUS
  <1>2. PICK y : y = [at[a] EXCEPT !.step = step]
    OBVIOUS
  <1>3. Goto(a, y)
    BY <1>2
  <1>4. CASE a \in Workers
    <2>1. i \in Items /\ at[a] \in Acquisition(i)
      BY <1>1, <1>4, Acquirer DEF Fetching
    <2>2. at[a] \in [item : {i}, parent : Items \cup {None}, version : Nat,
                     step : {"reserve", "create", "store", "record", "member", "queue"}]
      BY <2>1 DEF Acquisition
    <2>3. y \in Acquisition(i) /\ y.step = step
      BY <1>2, <1>4, <2>2 DEF Acquisition
    <2> QED BY <1>1, <1>3, <1>4, <2>3, AcquirerReports DEF Fetching
  <1>5. CASE a \in Batches
    <2>1. i \in Items /\ at[a] \in Upload(i, Makers)
      BY <1>1, <1>5, Maker DEF Makers
    <2>2. y \in Upload(i, Makers) /\ y.step = step /\ y.rest = at[a].rest
      BY <1>2, <1>5, <2>1 DEF Upload, Makers
    <2>3. /\ \A j \in Items : ~Closes(y, j)
          /\ \A j \in Items : Young(a, y, j) => j \in Left(y.rest) \/ j = i
          /\ \A j \in Left(y.rest) : YoungStatus(a, y, j) = "pending"
          /\ YoungStatus(a, y, i) = "acquiring"
          /\ OwnItems(a, y) <=>
                i \in Left(ItemsOf[a]) /\ Left(y.rest) \subseteq Left(ItemsOf[a]) /\ Backed(a)
      BY <1>5, <2>1, <2>2, MakerYoung
    <2>4. /\ \A j \in Items : Young(a, at[a], j) <=> j \in Left(at[a].rest) \/ j = i
          /\ \A j \in Left(at[a].rest) : YoungStatus(a, at[a], j) = "pending"
          /\ YoungStatus(a, at[a], i) = "acquiring"
          /\ OwnItems(a, at[a]) <=>
                i \in Left(ItemsOf[a]) /\ Left(at[a].rest) \subseteq Left(ItemsOf[a]) /\ Backed(a)
      BY <1>5, <2>1, MakerYoung
    <2>5. \A j \in Items : Ages(a, y, j)
      BY <2>2, <2>3, <2>4, AgesOn DEF ReportInv
    <2>6. OwnItems(a, y)
      BY <1>5, <2>2, <2>3, <2>4 DEF ReportInv
    <2> QED BY <1>3, <1>5, <2>2, <2>5, <2>6, RequestReports
  <1> QED BY <1>4, <1>5 DEF Actors

(* A request that goes on with its list, at once or after it failed an item *)
(* that was its own.                                                        *)
LEMMA ListingReports ==
    ASSUME SourceInv, ReportInv, NEW b \in Batches, at[b].step # "stopped",
           NEW rest \in Lists, NEW y, Listing(y, rest), Goto(b, y),
           UNCHANGED <<item, batch, acquire>>,
           \A j \in Left(rest) : Young(b, at[b], j) /\ YoungStatus(b, at[b], j) = "pending",
           Left(rest) \subseteq Left(ItemsOf[b]), Backed(b),
           y.step = "set" => /\ Owns(b, at[b], y.item) /\ y.item \notin Left(rest)
                             /\ y.item \in Left(ItemsOf[b])
    PROVE  ReportInv'
  <1>1. b \in Actors
    BY DEF Actors
  <1>2. ASSUME NEW step \in {"enqueue", "next"}, y = Todo(step, rest)
        PROVE  ReportInv'
    <2>1. /\ \A j \in Items : ~Closes(y, j)
          /\ \A j \in Items : Young(b, y, j) <=> j \in Left(rest)
          /\ \A j \in Left(rest) : YoungStatus(b, y, j) = "pending"
          /\ OwnItems(b, y) /\ y.step = step
      BY <1>2, TodoYoung
    <2>2. \A j \in Items : Ages(b, y, j)
      BY <1>1, <2>1, AgesOn DEF ReportInv
    <2> QED BY <1>2, <2>1, <2>2, RequestReports
  <1>3. ASSUME NEW i \in Items, NEW imp \in Items \cup {None}, NEW step \in {"enqueue", "next"},
               y = Setting(i, "failed", imp, Todo(step, rest), Todo(step, rest))
        PROVE  ReportInv'
    <2>1. /\ y \in FailingUpload(i) /\ y.then = y.else /\ y.then.rest = rest
          /\ y.step = "set" /\ y.item = i
      BY <1>3 DEF Setting, FailingUpload, Sets, Todo
    <2>2. /\ \A j \in Items : Closes(y, j) <=> j = i
          /\ \A j \in Items : Young(b, y, j) <=> j \in Left(rest)
          /\ \A j \in Left(rest) : YoungStatus(b, y, j) = "pending"
          /\ OwnItems(b, y)
      BY <2>1, FailingUploadYoung
    <2>3. \A j \in Items : Ages(b, y, j)
      BY <1>1, <2>1, <2>2, AgesOn DEF ReportInv
    <2> QED BY <2>1, <2>2, <2>3, RequestReports
  <1> QED BY <1>2, <1>3 DEF Listing

(* What a request that makes an import keeps.                               *)
LEMMA MakerReports ==
    ASSUME SourceInv, ReportInv, NEW b \in Batches, at[b].step \in Makers
    PROVE  /\ at[b].item \in Items /\ at[b].rest \in Lists
           /\ Owns(b, at[b], at[b].item) /\ at[b].item \notin Left(at[b].rest)
           /\ at[b].item \in Left(ItemsOf[b]) /\ Left(at[b].rest) \subseteq Left(ItemsOf[b])
           /\ Backed(b)
           /\ \A j \in Left(at[b].rest) :
                  Young(b, at[b], j) /\ YoungStatus(b, at[b], j) = "pending"
  <1>1. PICK i : i = at[b].item
    OBVIOUS
  <1>2. /\ i \in Items /\ at[b] \in Upload(i, Makers) /\ at[b].rest \in Lists
        /\ i \notin Left(at[b].rest)
    BY <1>1, Maker
  <1>3. Owns(b, at[b], i)
    BY <1>2, MakerOwns DEF Owns
  <1>4. /\ \A j \in Left(at[b].rest) : j \in Items
    BY <1>2, LeftItems
  <1>5. OwnItems(b, at[b])
    BY DEF ReportInv
  <1> QED BY <1>1, <1>2, <1>3, <1>4, <1>5, MakerYoung

LEMMA ErrorReports ==
    ASSUME SourceInv, ReportInv, NEW a \in Actors, at[a].step \in Making,
           NEW imp \in Items \cup {None}, Goto(a, OnError(a, imp)),
           UNCHANGED <<item, batch, acquire>>
    PROVE  ReportInv'
  <1>1. CASE a \in Workers
    <2>1. Goto(a, Free)
      BY <1>1 DEF OnError
    <2>2. \A b \in Batches : ~Owes(a, at[a], b)
      <3>1. at[a].item \in Items /\ at[a] \in Acquisition(at[a].item)
        BY <1>1, Acquirer DEF Making, Fetching
      <3> QED BY <1>1, <3>1, AcquirerYoung DEF Making, Fetching
    <2> QED BY <1>1, <2>1, <2>2, RestingReports, FreeRests
  <1>2. CASE a \in Batches /\ Kind[a] = "revise"
    <2>1. Goto(a, Free)
      BY <1>2 DEF OnError
    <2>2. \A j \in Items : ~Young(a, Free, j) /\ ~Closes(Free, j)
      BY RestingYoung, FreeRests
    <2>3. \A j \in Items : Ages(a, Free, j)
      BY <2>2, AgesOn DEF ReportInv
    <2>4. OwnItems(a, Free)
      BY <1>2, FreeRests DEF OwnItems, Core, Settling, Makers
    <2> QED BY <1>2, <2>1, <2>3, <2>4, RevisionUnreported, RequestReports DEF Making
  <1>3. CASE a \in Batches /\ Kind[a] # "revise"
    <2>1. PICK rest : rest = at[a].rest
      OBVIOUS
    <2>2. PICK i : i = at[a].item
      OBVIOUS
    <2>3. PICK y : y = OnError(a, imp)
      OBVIOUS
    <2>4. y = Setting(i, "failed", imp, Todo("next", rest), Todo("next", rest))
      BY <1>3, <2>1, <2>2, <2>3, IngestionAssumption DEF OnError, UploadFails
    <2>5. /\ i \in Items /\ rest \in Lists /\ Owns(a, at[a], i) /\ i \notin Left(rest)
          /\ i \in Left(ItemsOf[a]) /\ Left(rest) \subseteq Left(ItemsOf[a]) /\ Backed(a)
          /\ \A j \in Left(rest) : Young(a, at[a], j) /\ YoungStatus(a, at[a], j) = "pending"
      BY <1>3, <2>1, <2>2, MakerReports DEF Making, Makers
    <2>6. Listing(y, rest) /\ y.item = i
      BY <2>4, <2>5 DEF Listing, Setting
    <2> QED BY <1>3, <2>3, <2>5, <2>6, ListingReports DEF Making
  <1> QED BY <1>1, <1>2, <1>3 DEF Actors

LEMMA CreateImportReports ==
    ASSUME SourceInv, ReportInv, NEW a \in Actors, CreateImport(a)
    PROVE  ReportInv'
  <1>1. at[a].step = "create" /\ UNCHANGED <<item, batch, acquire>>
        /\ (Goto(a, [at[a] EXCEPT !.step = "store"]) \/ Goto(a, OnError(a, None)))
    BY DEF CreateImport, At
  <1> QED BY <1>1, MakesOnReports, ErrorReports DEF Making

LEMMA StoredReports ==
    ASSUME SourceInv, ReportInv, NEW a \in Actors, Stored(a)
    PROVE  ReportInv'
  <1>1. PICK step : step =
            IF a \in Batches THEN (IF Kind[a] = "revise" THEN "job" ELSE "member")
            ELSE IF FileOf[at[a].item] # None THEN "record"
            ELSE IF BatchOf[at[a].item] \in Gathered THEN "member" ELSE "queue"
    OBVIOUS
  <1>2. /\ at[a].step = "store" /\ UNCHANGED <<item, batch, acquire>>
        /\ Goto(a, [at[a] EXCEPT !.step = step])
    BY <1>1 DEF Stored, At
  <1>3. /\ step \in {"record", "member", "queue", "job"}
        /\ (a \in Workers => step # "job") /\ (a \in Batches => step # "record")
    BY <1>1, IngestionAssumption
  <1> QED BY <1>2, <1>3, MakesOnReports

LEMMA StoreFailsReports ==
    ASSUME SourceInv, ReportInv, NEW a \in Actors, StoreFails(a)
    PROVE  ReportInv'
  BY ErrorReports DEF StoreFails, At, Making

LEMMA AddMemberReports ==
    ASSUME SourceInv, ReportInv, NEW a \in Actors, AddMember(a)
    PROVE  ReportInv'
  <1>1. at[a].step = "member" /\ UNCHANGED <<item, batch, acquire>>
        /\ (Goto(a, [at[a] EXCEPT !.step = "queue"]) \/ Goto(a, OnError(a, at[a].item)))
    BY DEF AddMember, At
  <1>2. at[a].item \in Items
    BY <1>1, Owner DEF Making
  <1> QED BY <1>1, <1>2, MakesOnReports, ErrorReports DEF Making

-----------------------------------------------------------------------------
(* The requests that make batches *)

LEMMA EndedRequestReports ==
    ASSUME SourceInv, ReportInv, NEW b \in Batches, at[b].step # "stopped", Goto(b, Free),
           batch[b] = None, UNCHANGED <<item, batch, acquire>>
    PROVE  ReportInv'
  <1>1. \A j \in Items : ~Young(b, Free, j) /\ ~Closes(Free, j)
    BY RestingYoung, FreeRests DEF Actors
  <1>2. \A j \in Items : Ages(b, Free, j)
    BY <1>1, AgesOn DEF ReportInv, Actors
  <1>3. OwnItems(b, Free)
    BY FreeRests DEF OwnItems, Core, Settling, Makers
  <1> QED BY <1>2, <1>3, RequestReports

LEMMA RequestQueueReports ==
    ASSUME SourceInv, ReportInv, NEW b \in Batches, Queue(b)
    PROVE  ReportInv'
  <1>1. PICK i : i = at[b].item
    OBVIOUS
  <1>2. PICK job : job = [at[b] EXCEPT !.step = "job"]
    OBVIOUS
  <1>3. PICK y : y = Setting(i, "queued", i, job, job)
    OBVIOUS
  <1>4. at[b].step = "queue" /\ Goto(b, y) /\ UNCHANGED <<item, batch, acquire>> /\ b \in Actors
    BY <1>1, <1>2, <1>3 DEF Queue, At, Actors
  <1>5. /\ i \in Items /\ at[b] \in Upload(i, Makers)
        /\ i \in Left(ItemsOf[b]) /\ Left(at[b].rest) \subseteq Left(ItemsOf[b]) /\ Backed(b)
    BY <1>1, <1>4, Maker, MakerReports DEF Makers
  <1>6. job \in Upload(i, {"job"}) /\ job.rest = at[b].rest
    BY <1>2, <1>5 DEF Upload, Makers
  <1>7. y \in QueueingUpload(i) /\ y.then = y.else /\ y.then = job /\ y.step = "set"
    BY <1>3, <1>5, <1>6 DEF QueueingUpload, Sets, Setting
  <1>8. /\ \A j \in Items : ~Closes(y, j)
        /\ \A j \in Items : Young(b, y, j) <=> j \in Left(at[b].rest) \/ j = i
        /\ \A j \in Left(at[b].rest) : YoungStatus(b, y, j) = "pending"
        /\ YoungStatus(b, y, i) = "acquiring"
        /\ OwnItems(b, y)
    <2>1. y.then.rest = at[b].rest
      BY <1>6, <1>7
    <2>2. /\ \A j \in Items : ~Closes(y, j)
          /\ \A j \in Items : Young(b, y, j) <=> j \in Left(y.then.rest) \/ j = i
          /\ \A j \in Left(y.then.rest) : YoungStatus(b, y, j) = "pending"
          /\ YoungStatus(b, y, i) = "acquiring"
          /\ OwnItems(b, y) <=>
                 /\ i \in Left(ItemsOf[b]) /\ Left(y.then.rest) \subseteq Left(ItemsOf[b])
                 /\ Backed(b)
      BY ZenonT(30), <1>5, <1>7, QueueingUploadYoung
    <2> QED BY <1>5, <2>1, <2>2
  <1>9. /\ \A j \in Items : Young(b, at[b], j) <=> j \in Left(at[b].rest) \/ j = i
        /\ \A j \in Left(at[b].rest) : YoungStatus(b, at[b], j) = "pending"
        /\ YoungStatus(b, at[b], i) = "acquiring"
    BY <1>4, <1>5, MakerYoung
  <1>10. \A j \in Items : Ages(b, y, j)
    BY <1>4, <1>8, <1>9, AgesOn DEF ReportInv
  <1> QED BY <1>4, <1>7, <1>8, <1>10, RequestReports

LEMMA EnqueueExtractionReports ==
    ASSUME SourceInv, ReportInv, NEW b \in Batches, EnqueueExtraction(b)
    PROVE  ReportInv'
  <1>1. PICK rest : rest = at[b].rest
    OBVIOUS
  <1>2. /\ at[b].step = "job" /\ UNCHANGED <<item, batch, acquire>>
        /\ Goto(b, IF Kind[b] = "revise" THEN Free ELSE Todo("next", rest))
    BY <1>1 DEF EnqueueExtraction, At
  <1>3. CASE Kind[b] = "revise"
    BY <1>2, <1>3, RevisionUnreported, EndedRequestReports
  <1>4. CASE Kind[b] # "revise"
    <2>1. PICK y : y = Todo("next", rest)
      OBVIOUS
    <2>2. Listing(y, rest) /\ y.step = "next"
      BY <2>1 DEF Listing, Todo
    <2>3. /\ rest \in Lists /\ Left(rest) \subseteq Left(ItemsOf[b]) /\ Backed(b)
          /\ \A j \in Left(rest) : Young(b, at[b], j) /\ YoungStatus(b, at[b], j) = "pending"
      BY <1>1, <1>2, MakerReports DEF Makers
    <2> QED BY <1>2, <1>4, <2>1, <2>2, <2>3, ListingReports
  <1> QED BY <1>3, <1>4

LEMMA ExtractionRefusedReports ==
    ASSUME SourceInv, ReportInv, NEW b \in Batches, ExtractionRefused(b)
    PROVE  ReportInv'
  <1>1. PICK rest : rest = at[b].rest
    OBVIOUS
  <1>2. PICK i : i = at[b].item
    OBVIOUS
  <1>3. PICK y : y = IF Kind[b] = "revise" THEN Doing("mark", i)
                     ELSE Setting(i, "failed", i, Todo("next", rest), Todo("next", rest))
    OBVIOUS
  <1>4. /\ at[b].step = "job" /\ UNCHANGED <<item, batch, acquire>> /\ Goto(b, y) /\ b \in Actors
    BY <1>1, <1>2, <1>3 DEF ExtractionRefused, UploadFails, At, Actors
  <1>5. CASE Kind[b] = "revise"
    <2>1. y.step = "mark" /\ Core(y) = y /\ ~Settling(y)
      BY <1>3, <1>5 DEF Doing, Core, Settling
    <2>2. \A j \in Items : ~Young(b, y, j) /\ ~Closes(y, j)
      BY <2>1 DEF Young, Before, Ahead, Holds, Acquiring, Closes
    <2>3. \A j \in Items : Ages(b, y, j)
      BY <1>4, <2>2, AgesOn DEF ReportInv
    <2>4. OwnItems(b, y)
      BY <2>1 DEF OwnItems, Makers
    <2> QED BY <1>4, <2>1, <2>3, <2>4, RequestReports
  <1>6. CASE Kind[b] # "revise"
    <2>1. /\ i \in Items /\ rest \in Lists /\ Owns(b, at[b], i) /\ i \notin Left(rest)
          /\ i \in Left(ItemsOf[b]) /\ Left(rest) \subseteq Left(ItemsOf[b]) /\ Backed(b)
          /\ \A j \in Left(rest) : Young(b, at[b], j) /\ YoungStatus(b, at[b], j) = "pending"
      BY <1>1, <1>2, <1>4, MakerReports DEF Makers
    <2>2. Listing(y, rest) /\ y.item = i
      BY <1>3, <1>6, <2>1 DEF Listing, Setting
    <2> QED BY <1>4, <2>1, <2>2, ListingReports
  <1> QED BY <1>5, <1>6

LEMMA MarkRefusedReports ==
    ASSUME SourceInv, ReportInv, NEW b \in Batches, Kind[b] = "revise", MarkRefused(b)
    PROVE  ReportInv'
  BY RevisionUnreported, EndedRequestReports DEF MarkRefused, At

(* A request before it creates its batch.                                   *)
LEMMA SubscribingReports ==
    ASSUME SourceInv, ReportInv, NEW b \in Batches, at[b].step \in {"new", "subscribe", "insert"},
           UNCHANGED <<item, batch, acquire>>,
           \/ Goto(b, Free)
           \/ \E step \in {"subscribe", "insert"} : \E rest : Goto(b, Todo(step, rest))
    PROVE  ReportInv'
  <1>1. batch[b] = None /\ b \in Actors
    BY DEF ReportInv, BatchesKept, Actors
  <1>2. CASE Goto(b, Free)
    BY <1>1, <1>2, EndedRequestReports
  <1>3. ASSUME NEW step \in {"subscribe", "insert"}, NEW rest, Goto(b, Todo(step, rest))
        PROVE  ReportInv'
    <2>1. PICK y : y = Todo(step, rest)
      OBVIOUS
    <2>2. y.step = step
      BY <2>1 DEF Todo
    <2>3. /\ \A j \in Items : ~Closes(y, j)
          /\ \A j \in Items : Young(b, y, j) <=> Young(b, at[b], j)
          /\ \A j \in Items : Young(b, y, j) => YoungStatus(b, y, j) = YoungStatus(b, at[b], j)
          /\ OwnItems(b, y)
      BY <2>2, UnbegunYoung
    <2>4. \A j \in Items : Ages(b, y, j)
      BY <1>1, <2>3, AgesOn DEF ReportInv
    <2> QED BY <1>1, <1>3, <2>1, <2>3, <2>4, RequestReports
  <1> QED BY <1>2, <1>3

LEMMA SelectReports ==
    ASSUME SourceInv, ReportInv, NEW b \in Batches,
           Select(b) \/ ReadSubscription(b) \/ InsertSubscription(b)
    PROVE  ReportInv'
  <1>1. /\ at[b].step \in {"new", "subscribe", "insert"} /\ UNCHANGED <<item, batch, acquire>>
    BY DEF Select, ReadSubscription, InsertSubscription, At
  <1>2. \/ Goto(b, Free)
        \/ \E step \in {"subscribe", "insert"} : \E rest : Goto(b, Todo(step, rest))
    BY DEF Select, ReadSubscription, InsertSubscription
  <1> QED BY <1>1, <1>2, SubscribingReports

(* What a request that goes through its list keeps.                         *)
LEMMA ListerReports ==
    ASSUME SourceInv, ReportInv, NEW b \in Batches, at[b].step \in {"enqueue", "next"}
    PROVE  /\ at[b].rest \in Lists /\ Left(at[b].rest) \subseteq Left(ItemsOf[b])
           /\ Kind[b] # "revise" /\ batch[b] # None /\ Backed(b)
           /\ \A j \in Items : ~Closes(at[b], j)
           /\ \A j \in Items : Young(b, at[b], j) <=> j \in Left(at[b].rest)
           /\ \A j \in Left(at[b].rest) :
                  /\ YoungStatus(b, at[b], j) = "pending" /\ Owns(b, at[b], j)
                  /\ item[j] # None /\ item[j].status = "pending"
  <1>1. /\ at[b].rest \in Lists /\ Kind[b] # "revise"
        /\ \A j \in Left(at[b].rest) : Known(j)
        /\ \A j : Before(b, at[b], j) <=> j \in Left(at[b].rest)
    BY Lister
  <1>2. at[b] = Todo(at[b].step, at[b].rest)
    BY RequestShape DEF SourceInv, Forms, Todo
  <1>3. PICK step \in {"enqueue", "next"}, rest \in Lists : at[b] = Todo(step, rest)
    BY <1>1, <1>2
  <1>4. rest = at[b].rest
    BY <1>3 DEF Todo
  <1>5. PICK x : x = at[b]
    OBVIOUS
  <1>6. /\ \A j \in Items : ~Closes(x, j)
        /\ \A j \in Items : Young(b, x, j) <=> j \in Left(rest)
        /\ \A j \in Left(rest) : YoungStatus(b, x, j) = "pending"
        /\ OwnItems(b, x) <=> Left(rest) \subseteq Left(ItemsOf[b]) /\ Backed(b)
    BY <1>3, <1>5, TodoYoung
  <1>7. OwnItems(b, x)
    BY <1>5 DEF ReportInv
  <1>8. \A j \in Left(rest) : j \in Items
    BY LeftItems
  <1>9. ASSUME NEW j \in Left(rest)
        PROVE  item[j] # None /\ item[j].status = "pending"
    BY <1>1, <1>4, <1>5, <1>6, <1>8 DEF ReportInv, Youth, Known, Actors
  <1> QED BY <1>1, <1>4, <1>5, <1>6, <1>7, <1>9 DEF Owns, Backed

LEMMA EnqueueAcquisitionReports ==
    ASSUME SourceInv, ReportInv, NEW b \in Batches, EnqueueAcquisition(b)
    PROVE  ReportInv'
  <1>1. PICK rest : rest = at[b].rest
    OBVIOUS
  <1>2. PICK i : i = Head(rest)
    OBVIOUS
  <1>3. PICK y : y = Todo("enqueue", Tail(rest))
    OBVIOUS
  <1>4. /\ at[b].step = "enqueue" /\ rest # <<>> /\ Goto(b, y) /\ b \in Actors
        /\ acquire' = [acquire EXCEPT ![i] = @ + 1] /\ UNCHANGED <<item, batch>>
    BY <1>1, <1>2, <1>3 DEF EnqueueAcquisition, At, Actors
  <1>5. /\ rest \in Lists /\ Left(rest) \subseteq Left(ItemsOf[b]) /\ Backed(b)
        /\ \A j \in Items : Young(b, at[b], j) <=> j \in Left(rest)
        /\ \A j \in Left(rest) : /\ YoungStatus(b, at[b], j) = "pending" /\ Owns(b, at[b], j)
                                 /\ item[j] # None /\ item[j].status = "pending"
    BY <1>1, <1>4, ListerReports
  <1>6. /\ i \in Items /\ i \in Left(rest) /\ i \notin Left(Tail(rest))
        /\ Tail(rest) \in Lists /\ Left(Tail(rest)) \subseteq Left(rest)
    BY <1>2, <1>4, <1>5, HeadAndTail
  <1>7. /\ \A j \in Items : ~Closes(y, j)
        /\ \A j \in Items : Young(b, y, j) <=> j \in Left(Tail(rest))
        /\ \A j \in Left(Tail(rest)) : YoungStatus(b, y, j) = "pending"
        /\ OwnItems(b, y) <=> Left(Tail(rest)) \subseteq Left(ItemsOf[b]) /\ Backed(b)
        /\ y.step = "enqueue"
    BY <1>3, <1>6, TodoYoung
  <1>8. acquire \in [Items -> Nat]
    BY DEF SourceInv, Tables, RowsTyped
  <1>9. ASSUME NEW j \in Items PROVE Ages(b, y, j)
    <2>1. CASE j # i
      <3>1. acquire'[j] = acquire[j]
        BY <1>4, <1>8, <2>1
      <3> QED BY <1>4, <1>5, <1>6, <1>7, <3>1, AgesOn DEF ReportInv
    <2>2. CASE j = i
      BY <1>4, <1>5, <1>6, <1>7, <2>2 DEF Ages, Mine
    <2> QED BY <2>1, <2>2
  <1> QED BY <1>4, <1>5, <1>6, <1>7, <1>9, RequestReports

LEMMA AcquisitionRefusedReports ==
    ASSUME SourceInv, ReportInv, NEW b \in Batches, AcquisitionRefused(b)
    PROVE  ReportInv'
  <1>1. PICK rest : rest = at[b].rest
    OBVIOUS
  <1>2. PICK i : i = Head(rest)
    OBVIOUS
  <1>3. PICK y : y = Setting(i, "failed", None, Todo("enqueue", Tail(rest)), Todo("enqueue", Tail(rest)))
    OBVIOUS
  <1>4. /\ at[b].step = "enqueue" /\ rest # <<>> /\ Goto(b, y) /\ b \in Actors
        /\ UNCHANGED <<item, batch, acquire>>
    BY <1>1, <1>2, <1>3 DEF AcquisitionRefused, At, Actors
  <1>5. /\ rest \in Lists /\ Left(rest) \subseteq Left(ItemsOf[b]) /\ Backed(b)
        /\ \A j \in Items : Young(b, at[b], j) <=> j \in Left(rest)
        /\ \A j \in Left(rest) : YoungStatus(b, at[b], j) = "pending" /\ Owns(b, at[b], j)
    BY <1>1, <1>4, ListerReports
  <1>6. /\ i \in Items /\ i \in Left(rest) /\ i \notin Left(Tail(rest))
        /\ Tail(rest) \in Lists /\ Left(Tail(rest)) \subseteq Left(rest)
    BY <1>2, <1>4, <1>5, HeadAndTail
  <1>7. Listing(y, Tail(rest)) /\ y.item = i
    BY <1>3, <1>6 DEF Listing, Setting
  <1>8. \A j \in Left(Tail(rest)) : Young(b, at[b], j) /\ YoungStatus(b, at[b], j) = "pending"
    BY <1>5, <1>6, LeftItems
  <1>9. Left(Tail(rest)) \subseteq Left(ItemsOf[b])
    BY <1>5, <1>6
  <1> QED BY <1>4, <1>5, <1>6, <1>7, <1>8, <1>9, ListingReports

LEMMA EndBatchReports ==
    ASSUME SourceInv, ReportInv, NEW b \in Batches, EndBatch(b)
    PROVE  ReportInv'
  <1>1. PICK y : y = [batch |-> b, step |-> "recompute"]
    OBVIOUS
  <1>2. /\ at[b].step \in {"enqueue", "next"} /\ Goto(b, y) /\ b \in Actors
        /\ UNCHANGED <<item, batch, acquire>> /\ Resting(y)
        /\ y.step = "recompute" /\ y.batch = b
    BY <1>1 DEF EndBatch, Actors, Resting
  <1>3. \A j \in Items : ~Young(b, y, j) /\ ~Closes(y, j)
    BY <1>2, RestingYoung
  <1>4. \A j \in Items : Ages(b, y, j)
    BY <1>2, <1>3, AgesOn DEF ReportInv
  <1>5. OwnItems(b, y)
    BY <1>2, ListerReports DEF OwnItems, Core, Settling, Makers
  <1> QED BY <1>2, <1>4, <1>5, RequestReports

LEMMA ReviseReports ==
    ASSUME SourceInv, ReportInv, NEW b \in Batches, NEW p \in Items, Revise(b, p)
    PROVE  ReportInv'
  <1>1. PICK i : i = Head(ItemsOf[b])
    OBVIOUS
  <1>2. PICK y : y = [item |-> i, parent |-> p, rest |-> <<>>,
                      step |-> "create", version |-> MaxVersion + 1]
    OBVIOUS
  <1>3. /\ at[b].step = "new" /\ Kind[b] = "revise" /\ Goto(b, y) /\ b \in Actors
        /\ UNCHANGED <<item, batch, acquire>>
    BY <1>1, <1>2 DEF Revise, At, Actors
  <1>4. ItemsOf[b] \in Lists /\ ItemsOf[b] # <<>>
    <2>1. Len(ItemsOf[b]) = 1
      BY <1>3, IngestionAssumption
    <2>2. Len(<<>>) = 0
      OBVIOUS
    <2> QED BY <2>1, <2>2, BatchItems
  <1>5. i \in Items /\ i \in Left(ItemsOf[b])
    BY <1>1, <1>4, HeadAndTail
  <1>6. y \in Upload(i, Makers) /\ y.step = "create" /\ y.rest = <<>>
    <2>1. MaxVersion + 1 \in Nat
      BY IngestionAssumption
    <2> QED BY <1>2, <1>5, <2>1, EmptyList DEF Upload, Makers
  <1>7. /\ \A j \in Items : ~Closes(y, j)
        /\ \A j \in Items : Young(b, y, j) <=> j = i
        /\ OwnItems(b, y)
    BY <1>3, <1>5, <1>6, MakerYoung, EmptyList DEF Backed
  <1>8. item[i] = None
    <2>1. BatchOf[i] = b
      BY <1>5, BatchItems
    <2> QED BY <1>3, <1>5, <2>1, RevisionUnreported DEF ReportInv, BatchesKept
  <1>9. Young(b, at[b], i)
    BY <1>3, <1>5, UnbegunYoung
  <1>10. ASSUME NEW j \in Items PROVE Ages(b, y, j)
    <2>1. CASE j # i
      BY <1>3, <1>7, <2>1, AgesOn DEF ReportInv
    <2>2. CASE j = i
      <3>1. Owns(b, at[b], i)
        BY <1>3, <1>5, <1>9, YoungOwns
      <3> QED BY <1>3, <1>5, <1>7, <1>8, <1>9, <2>2, <3>1 DEF Ages, Mine, Youth, ReportInv
    <2> QED BY <2>1, <2>2
  <1> QED BY <1>3, <1>6, <1>7, <1>10, RequestReports

LEMMA RefuseFormatReports ==
    ASSUME SourceInv, ReportInv, NEW b \in Batches, Kind[b] = "upload", RefuseFormat(b)
    PROVE  ReportInv'
  <1>1. OnError(b, None) = UploadFails(b, None)
    BY IngestionAssumption DEF OnError
  <1>2. /\ at[b].step = "create" /\ Goto(b, OnError(b, None)) /\ b \in Actors
        /\ UNCHANGED <<item, batch, acquire>>
    BY <1>1 DEF RefuseFormat, At, Actors
  <1> QED BY <1>2, ErrorReports DEF Making

-----------------------------------------------------------------------------
(* An item is set *)

Written(x) == [x EXCEPT !.step = "write"]

(* A worker that may set its item, or may not.                              *)
LEMMA WorkerSettingYoung ==
    ASSUME NEW w \in Workers, NEW i \in Items, NEW x \in Closing(i) \cup Processing(i) \cup Queueing(i),
           x.step = "set", NEW z \in {x.else, Written(x)}
    PROVE  /\ \A j \in Items : Closes(z, j) => Closes(x, j)
           /\ \A j \in Items : Young(w, z, j) =>
                  /\ Young(w, x, j) /\ ~Closes(z, j)
                  /\ YoungStatus(w, z, j) = YoungStatus(w, x, j)
           /\ z.step = "recompute" => z = Recomputing(i)
           /\ z = Written(x) =>
                  z.step = "write" /\ z.to = x.to /\ z.item = i
  <1>1. /\ x.item = i
        /\ z = Written(x) => z.step = "write" /\ z.to = x.to /\ z.item = i
    BY DEF Closing, Processing, Queueing, Sets, Written
  <1>2. ASSUME z = Free \/ z = Recomputing(i)
        PROVE  /\ \A j \in Items : ~Young(w, z, j) /\ ~Closes(z, j)
               /\ z.step = "recompute" => z = Recomputing(i)
    <2>1. Resting(z)
      BY <1>2, ItemBatch DEF Resting, Recomputing
    <2> QED BY <1>2, <2>1, RestingYoung, FreeRests DEF Actors
  <1>3. CASE x \in Closing(i)
    <2>1. CASE z = x.else
      <3>1. z = Free \/ z = Recomputing(i)
        BY <1>3, <2>1 DEF Closing, Sets
      <3> QED BY <1>1, <1>2, <3>1
    <2>2. CASE z = Written(x)
      <3>1. z \in Closing(i) /\ z.step = "write"
        BY <1>3, <2>2 DEF Closing, Sets, Written
      <3> QED BY <1>1, <1>3, <3>1, ClosingYoung
    <2> QED BY <2>1, <2>2
  <1>4. CASE x \in Processing(i)
    <2>1. CASE z = x.else
      <3>1. z \in Extraction(i, {"extract"}) \/ z = Free
        BY <1>4, <2>1 DEF Processing, Sets
      <3>2. ASSUME z \in Extraction(i, {"extract"})
            PROVE  z \in Extraction(i, {"extract", "finish"}) /\ ~Settling(z) /\ z.step # "recompute"
        BY <3>2 DEF Extraction, Settling
      <3> QED BY <1>1, <1>2, <3>1, <3>2, ExtractingYoung
    <2>2. CASE z = Written(x)
      <3>1. z \in Processing(i) /\ z.step = "write" /\ z.then = x.then
        BY <1>4, <2>2 DEF Processing, Sets, Written
      <3>2. /\ \A j \in Items : ~Closes(z, j)
            /\ \A j \in Items : Young(w, z, j) => j = i
            /\ Young(w, z, i) <=> z.then.onError = Free
            /\ YoungStatus(w, z, i) = "queued"
        BY <3>1, ExtractingYoung
      <3>3. /\ Young(w, x, i) <=> x.then.onError = Free
            /\ YoungStatus(w, x, i) = "queued"
        BY <1>4, ExtractingYoung
      <3> QED BY <1>1, <3>1, <3>2, <3>3
    <2> QED BY <2>1, <2>2
  <1>5. CASE x \in Queueing(i)
    <2>1. CASE z = x.else
      <3>1. z = Free
        BY <1>5, <2>1 DEF Queueing, Sets
      <3> QED BY <1>1, <1>2, <3>1
    <2>2. CASE z = Written(x)
      <3>1. z \in Queueing(i) /\ z.step = "write"
        BY <1>5, <2>2 DEF Queueing, Sets, Written
      <3>2. /\ \A j \in Items : ~Closes(z, j)
            /\ \A j \in Items : Young(w, z, j) => j = i
            /\ YoungStatus(w, z, i) = "acquiring"
        BY <3>1, ExtractingYoung
      <3>3. Young(w, x, i) /\ YoungStatus(w, x, i) = "acquiring"
        BY <1>5, ExtractingYoung
      <3> QED BY <1>1, <3>1, <3>2, <3>3
    <2> QED BY <2>1, <2>2
  <1> QED BY <1>3, <1>4, <1>5

(* A request that sets an item, or has set it.                              *)
LEMMA RequestSettingYoung ==
    ASSUME NEW b \in Batches, NEW i \in Items, NEW x \in QueueingUpload(i) \cup FailingUpload(i),
           x.then = x.else, OwnItems(b, x), NEW z \in {x.then, Written(x)}
    PROVE  /\ \A j \in Items : Closes(z, j) => Closes(x, j) /\ z.step = "write"
           /\ \A j \in Items : Young(b, z, j) =>
                  Young(b, x, j) /\ YoungStatus(b, z, j) = YoungStatus(b, x, j)
           /\ OwnItems(b, z) /\ z.step \in {"write", "job", "enqueue", "next"}
           /\ x.item = i /\ i \in Left(ItemsOf[b])
           /\ Owns(b, x, i) \/ Closes(x, i)
           /\ z = x.then /\ Young(b, z, i) => Closes(x, i)
  <1>1. ASSUME x \in QueueingUpload(i)
        PROVE  /\ x.item = i /\ i \in Left(ItemsOf[b]) /\ Young(b, x, i) /\ Backed(b)
               /\ x.then \in Upload(i, Makers) /\ x.then.step = "job"
               /\ \A j \in Items : Young(b, x, j) <=> j \in Left(x.then.rest) \/ j = i
               /\ \A j \in Left(x.then.rest) : YoungStatus(b, x, j) = "pending"
               /\ YoungStatus(b, x, i) = "acquiring" /\ i \notin Left(x.then.rest)
               /\ Left(x.then.rest) \subseteq Left(ItemsOf[b])
    BY <1>1, QueueingUploadYoung
  <1>2. ASSUME x \in FailingUpload(i)
        PROVE  /\ x.item = i /\ Closes(x, i) /\ i \in Left(ItemsOf[b]) /\ Backed(b)
               /\ \A j \in Items : Closes(x, j) <=> j = i
               /\ \A j \in Items : Young(b, x, j) <=> j \in Left(x.then.rest)
               /\ \A j \in Left(x.then.rest) : YoungStatus(b, x, j) = "pending"
               /\ x.then.rest \in Lists /\ Left(x.then.rest) \subseteq Left(ItemsOf[b])
               /\ x.then.step \in {"enqueue", "next"}
    BY <1>2, FailingUploadYoung
  <1>3. CASE x \in QueueingUpload(i) /\ z = x.then
    <2>1. /\ \A j \in Items : ~Closes(z, j)
          /\ \A j \in Items : Young(b, z, j) <=> j \in Left(z.rest)
          /\ \A j \in Left(z.rest) : YoungStatus(b, z, j) = "pending"
          /\ OwnItems(b, z)
      BY <1>1, <1>3, MakerYoung
    <2> QED BY <1>1, <1>3, <2>1, YoungOwns DEF Actors
  <1>4. CASE x \in QueueingUpload(i) /\ z = Written(x)
    <2>1. z \in QueueingUpload(i) /\ z.then = z.else /\ z.then = x.then /\ z.step = "write"
      BY <1>4 DEF QueueingUpload, Sets, Written
    <2>2. /\ \A j \in Items : ~Closes(z, j)
          /\ \A j \in Items : Young(b, z, j) <=> j \in Left(z.then.rest) \/ j = i
          /\ \A j \in Left(z.then.rest) : YoungStatus(b, z, j) = "pending"
          /\ YoungStatus(b, z, i) = "acquiring"
          /\ OwnItems(b, z) <=>
                 /\ i \in Left(ItemsOf[b]) /\ Left(z.then.rest) \subseteq Left(ItemsOf[b])
                 /\ Backed(b)
      BY ZenonT(30), <2>1, QueueingUploadYoung
    <2>3. z # x.then
      BY <1>1, <1>4, <2>1
    <2> QED BY <1>1, <1>4, <2>1, <2>2, <2>3, YoungOwns DEF Actors
  <1>5. CASE x \in FailingUpload(i) /\ z = x.then
    <2>1. z = Todo(z.step, z.rest)
      BY <1>5 DEF FailingUpload, Sets, Todo
    <2>2. /\ \A j \in Items : ~Closes(z, j)
          /\ \A j \in Items : Young(b, z, j) <=> j \in Left(z.rest)
          /\ \A j \in Left(z.rest) : YoungStatus(b, z, j) = "pending"
          /\ OwnItems(b, z)
      <3>1. z.rest \in Lists /\ z.step \in {"enqueue", "next"}
        BY <1>2, <1>5
      <3> QED BY <1>2, <1>5, <2>1, <3>1, TodoYoung
    <2> QED BY <1>2, <1>5, <2>2
  <1>6. CASE x \in FailingUpload(i) /\ z = Written(x)
    <2>1. z \in FailingUpload(i) /\ z.then = z.else /\ z.then = x.then /\ z.step = "write"
      BY <1>6 DEF FailingUpload, Sets, Written
    <2>2. /\ \A j \in Items : Closes(z, j) <=> j = i
          /\ \A j \in Items : Young(b, z, j) <=> j \in Left(z.then.rest)
          /\ \A j \in Left(z.then.rest) : YoungStatus(b, z, j) = "pending"
          /\ OwnItems(b, z) <=>
                 /\ i \in Left(ItemsOf[b]) /\ Left(z.then.rest) \subseteq Left(ItemsOf[b])
                 /\ Backed(b)
      <3>1. z \in FailingUpload(i) /\ z.then = z.else
        BY <2>1
      <3> QED BY <3>1, FailingUploadYoung
    <2> QED BY <1>2, <1>6, <2>1, <2>2
  <1> QED BY <1>3, <1>4, <1>5, <1>6

LEMMA ReadItemReports ==
    ASSUME SourceInv, ReportInv, NEW a \in Actors, ReadItem(a)
    PROVE  ReportInv'
  <1>1. PICK x : x = at[a]
    OBVIOUS
  <1>2. PICK i : i = x.item
    OBVIOUS
  <1>3. PICK z \in {x.else, Written(x)} :
            /\ Goto(a, z)
            /\ <<item[i].status, x.to>> \in Transitions => z = Written(x)
    BY <1>1, <1>2 DEF ReadItem, Written
  <1>4. x.step = "set" /\ UNCHANGED <<item, batch, acquire>> /\ Known(i)
    BY <1>1, <1>2 DEF ReadItem, At, SourceInv, Knowledge, Knows
  <1>5. CASE a \in Workers
    <2>1. i \in Items /\ x \in Closing(i) \cup Processing(i) \cup Queueing(i)
      BY <1>1, <1>2, <1>4, <1>5, WorkerShape DEF SourceInv, Forms
    <2>2. /\ \A j \in Items : Closes(z, j) => Closes(x, j)
          /\ \A j \in Items : Young(a, z, j) =>
                 /\ Young(a, x, j) /\ ~Closes(z, j)
                 /\ YoungStatus(a, z, j) = YoungStatus(a, x, j)
          /\ z.step = "recompute" => z = Recomputing(i)
          /\ z = Written(x) => z.step = "write" /\ z.to = x.to /\ z.item = i
      BY <1>3, <1>4, <1>5, <2>1, WorkerSettingYoung
    <2>3. \A j \in Items : Ages(a, z, j)
      BY <1>1, <1>4, <2>2, AgesOn DEF ReportInv
    <2>4. z.step = "recompute" => batch[z.batch] # None
      BY <1>4, <2>1, <2>2 DEF Recomputing, ReportInv, BatchesKept, Known
    <2>5. ASSUME NEW b \in Batches, Owes(a, x, b) PROVE Owes(a, z, b)
      <3>1. /\ x.to \in {"review_required", "blocked", "failed"} /\ BatchOf[i] = b
            /\ item[i].status = "processing"
        BY <1>2, <1>4, <1>5, <2>5, IngestionAssumption DEF Owes
      <3>2. <<item[i].status, x.to>> \in Transitions
        <4>1. \A to \in {"review_required", "blocked", "failed"} : <<"processing", to>> \in Transitions
          BY DEF Transitions
        <4> QED BY <3>1, <4>1
      <3> QED BY <1>3, <1>5, <2>2, <3>1, <3>2 DEF Owes, Ended
    <2> QED BY <1>1, <1>3, <1>4, <1>5, <2>3, <2>4, <2>5, WorkerReports
  <1>6. CASE a \in Batches
    <2>1. i \in Items /\ x.then = x.else /\ x \in QueueingUpload(i) \cup FailingUpload(i)
      BY <1>1, <1>2, <1>4, <1>6, RequestShape DEF SourceInv, Forms
    <2>2. OwnItems(a, x)
      BY <1>1, <1>6 DEF ReportInv
    <2>3. /\ \A j \in Items : Closes(z, j) => Closes(x, j)
          /\ \A j \in Items : Young(a, z, j) =>
                 Young(a, x, j) /\ YoungStatus(a, z, j) = YoungStatus(a, x, j)
          /\ OwnItems(a, z) /\ z.step \in {"write", "job", "enqueue", "next"}
      BY <1>3, <1>6, <2>1, <2>2, RequestSettingYoung
    <2>4. \A j \in Items : Young(a, x, j) => ~Closes(x, j)
      BY <1>1 DEF ReportInv, Youth
    <2>5. \A j \in Items : Ages(a, z, j)
      BY <1>1, <1>4, <2>3, <2>4, AgesOn DEF ReportInv
    <2> QED BY <1>1, <1>3, <1>4, <1>6, <2>3, <2>5, RequestReports
  <1> QED BY <1>5, <1>6 DEF Actors

-----------------------------------------------------------------------------
(* A row of an item or of a batch is written *)

LEMMA SummaryStays ==
    ASSUME NEW b \in Batches, \A j \in Items : BatchOf[j] = b => item'[j] = item[j]
    PROVE  Summary(b)' = Summary(b)
  <1>1. \A n \in DOMAIN ItemsOf[b] : item'[ItemsOf[b][n]] = item[ItemsOf[b][n]]
    BY BatchItems, IngestionAssumption DEF Left, Items
  <1>2. ASSUME NEW statuses PROVE Having(b, statuses)' = Having(b, statuses)
    BY <1>1 DEF Having
  <1>3. BatchStatus(b)' = BatchStatus(b)
    BY <1>2 DEF BatchStatus
  <1> QED BY <1>2, <1>3 DEF Summary

(* What is written concerns one batch, B, and a owed nothing to another.    *)
LEMMA OthersReported ==
    ASSUME SourceInv, ReportInv, NEW a \in Actors, NEW y, Goto(a, y), NEW B,
           \A j \in Items : BatchOf[j] # B => item'[j] = item[j],
           \A c \in Batches : c # B => batch'[c] = batch[c] /\ ~Owes(a, at[a], c),
           NEW b \in Batches, b # B
    PROVE  Reported(b)'
  <1>1. Summary(b)' = Summary(b) /\ batch'[b] = batch[b]
    BY SummaryStays
  <1>2. ASSUME NEW c \in Actors, Owes(c, at[c], b)
        PROVE  Owes(c, at[c], b)'
    <2>1. c # a
      BY <1>2
    <2>2. at'[c] = at[c]
      BY <2>1, OthersStay DEF SourceInv
    <2>3. ASSUME c \in Workers, at[c].step \in {"set", "extract", "finish"},
                 BatchOf[at[c].item] = b
          PROVE  item'[at[c].item] = item[at[c].item]
      <3>1. at[c].item \in Items
        BY <2>3, WorkerShape DEF SourceInv, Forms
      <3> QED BY <2>3, <3>1
    <2> QED BY <1>2, <2>2, <2>3 DEF Owes
  <1> QED BY <1>1, <1>2 DEF ReportInv, Reported

(* What a owes once the item is written.                                    *)
Repays(a, y, i, status) ==
    \/ a = BatchOf[i] /\ y.step \notin {"new", "free"}
    \/ a \in Workers /\ y.step = "recompute" /\ y.batch = BatchOf[i]
    \/ /\ a \in Workers /\ y.step = "extract" /\ y.onError # Free
       /\ y.item = i /\ status = "processing"

LEMMA ItemWrittenReports ==
    ASSUME SourceInv, ReportInv, NEW a \in Actors, NEW y, Goto(a, y),
           NEW i \in Items, Known(i), NEW row, row # None,
           item' = [item EXCEPT ![i] = row], UNCHANGED batch,
           row.status \in Early => batch[BatchOf[i]].status \in Open,
           \A j \in Items : Ages(a, y, j), a \in Batches => Begins(a, y),
           a \in Workers /\ y.step = "recompute" => batch[y.batch] # None,
           \A c \in Batches : c # BatchOf[i] => ~Owes(a, at[a], c),
           batch[BatchOf[i]].status \in Open \/ Repays(a, y, i, row.status)
    PROVE  ReportInv'
  <1>1. at'[a] = y /\ \A c \in Actors : c # a => at'[c] = at[c]
    BY OthersStay DEF SourceInv
  <1>2. \A j \in Items : item'[j] = IF j = i THEN row ELSE item[j]
    BY DEF SourceInv, Tables, RowsTyped
  <1>3. \A j \in Items : Youth(j)'
    BY YouthPasses DEF ReportInv
  <1>4. \A b \in Batches : OwnItems(b, at[b])'
    <2>1. \A b \in Batches : OwnItems(b, at'[b])
      BY <1>1 DEF ReportInv, Begins, Actors
    <2> QED BY <2>1 DEF OwnItems, Core, Settling, Backed
  <1>5. BatchesKept'
    <2>1. \A b \in Batches : at'[b].step \in {"new", "subscribe", "insert"} => batch[b] = None
      BY <1>1 DEF ReportInv, BatchesKept, Begins, Actors
    <2>2. \A w \in Workers : at'[w].step = "recompute" => batch[at'[w].batch] # None
      BY <1>1 DEF ReportInv, BatchesKept, Actors
    <2>3. \A j \in Items : item'[j] # None <=> item[j] # None
      BY <1>2 DEF Known
    <2>4. \A j \in Items : item'[j] # None /\ item'[j].status \in Early =>
              batch[BatchOf[j]].status \in Open
      BY <1>2 DEF ReportInv, BatchesKept
    <2> QED BY <2>1, <2>2, <2>3, <2>4 DEF ReportInv, BatchesKept
  <1>6. ASSUME NEW b \in Batches PROVE Reported(b)'
    <2>1. CASE b # BatchOf[i]
      <3>1. \A j \in Items : BatchOf[j] # BatchOf[i] => item'[j] = item[j]
        BY <1>2
      <3> QED BY <2>1, <3>1, OthersReported
    <2>2. CASE b = BatchOf[i] /\ batch[b].status \in Open
      BY <2>2 DEF Reported
    <2>3. CASE b = BatchOf[i] /\ Repays(a, y, i, row.status)
      <3>1. Owes(a, at[a], b)'
        BY <1>1, <1>2, <2>3 DEF Repays, Owes
      <3> QED BY <3>1 DEF Reported
    <2> QED BY <2>1, <2>2, <2>3
  <1> QED BY <1>3, <1>4, <1>5, <1>6 DEF ReportInv

(* Who sets an item has it or closes it, and nobody waits for it.           *)
LEMMA SetterAlone ==
    ASSUME SourceInv, ReportInv, NEW a \in Actors, NEW i \in Items, i = at[a].item,
           Owns(a, at[a], i) \/ Closes(at[a], i)
    PROVE  acquire[i] = 0
  BY DEF SourceInv, Owners, OneOwner, Tables, RowsTyped, ReportInv, Youth

LEMMA WorkerWriteReports ==
    ASSUME SourceInv, ReportInv, NEW w \in Workers, WriteItem(w)
    PROVE  ReportInv'
  <1>1. PICK x : x = at[w]
    OBVIOUS
  <1>2. PICK i : i = x.item
    OBVIOUS
  <1>3. PICK z : z = x.then
    OBVIOUS
  <1>4. PICK row : row = [import |-> IF x.import = None THEN item[i].import ELSE x.import,
                          status |-> x.to]
    OBVIOUS
  <1>5. /\ x.step = "write" /\ Goto(w, z) /\ w \in Actors /\ w \notin Batches
        /\ item' = [item EXCEPT ![i] = row] /\ UNCHANGED <<batch, acquire>>
    BY <1>1, <1>2, <1>3, <1>4, IngestionAssumption DEF WriteItem, At, Actors
  <1>6. /\ i \in Items /\ x \in Closing(i) \cup Processing(i) \cup Queueing(i) /\ Known(i)
    BY <1>1, <1>2, <1>5, WorkerShape DEF SourceInv, Forms, Knowledge, Knows
  <1>7. row # None /\ row.status = x.to
    <2>1. x.import \in Items \cup {None} /\ x.to \in ItemStatuses
      BY <1>6 DEF Closing, Processing, Queueing, Sets, ItemStatuses
    <2>2. item[i] \in ItemRows
      BY <1>6 DEF SourceInv, Tables, RowsTyped, Known
    <2>3. row \in ItemRows
      BY <1>4, <2>1, <2>2 DEF ItemRows
    <2> QED BY <1>4, <2>3, IngestionAssumption
  <1>8. \A c \in Batches : c # BatchOf[i] => ~Owes(w, x, c)
    BY <1>2, <1>5 DEF Owes
  <1>9. item[i].status \in Early => batch[BatchOf[i]].status \in Open
    BY <1>6 DEF ReportInv, BatchesKept, Known
  <1>10. \A j \in Items : j # i => item'[j] = item[j]
    BY <1>5 DEF SourceInv, Tables, RowsTyped
  <1>11. item'[i] = row
    BY <1>5, <1>6 DEF SourceInv, Tables, RowsTyped
  <1>12. ASSUME Owns(w, x, i) \/ Closes(x, i), \A j \in Items : ~Closes(z, j),
                \A j \in Items : Young(w, z, j) => /\ j = i /\ Young(w, x, i)
                                                  /\ YoungStatus(w, z, i) = x.to
         PROVE  \A j \in Items : Ages(w, z, j)
    <2>1. acquire[i] = 0
      BY <1>1, <1>2, <1>5, <1>6, <1>12, SetterAlone
    <2>2. \A j \in Items : j # i => Ages(w, z, j)
      BY <1>5, <1>10, <1>12, AgesOn DEF ReportInv
    <2>3. Ages(w, z, i)
      BY <1>1, <1>5, <1>6, <1>7, <1>11, <1>12, <2>1 DEF Ages, Mine
    <2> QED BY <2>2, <2>3
  <1>13. CASE x \in Closing(i)
    <2>1. z = Recomputing(i) /\ x.to \in Ended
      BY <1>3, <1>13 DEF Closing, Sets
    <2>2. z.step = "recompute" /\ z.batch = BatchOf[i] /\ BatchOf[i] \in Batches /\ Resting(z)
      BY <1>6, <2>1, ItemBatch DEF Recomputing, Resting
    <2>3. \A j \in Items : Ages(w, z, j)
      BY <1>5, <1>6, <1>12, <1>13, <2>2, ClosingYoung, RestingYoung
    <2>4. x.to \notin Early
      BY <2>1 DEF Ended, Early
    <2>5. batch[z.batch] # None
      BY <1>6, <2>2 DEF ReportInv, BatchesKept, Known
    <2>6. Repays(w, z, i, row.status)
      BY <2>2 DEF Repays
    <2> QED BY <1>1, <1>5, <1>6, <1>7, <1>8, <2>3, <2>4, <2>5, <2>6, ItemWrittenReports
  <1>14. CASE x \in Processing(i)
    <2>1. z \in Extraction(i, {"extract"}) /\ x.to = "processing"
      BY <1>3, <1>14 DEF Processing, Sets
    <2>2. /\ z \in Extraction(i, {"extract", "finish"}) /\ z.step = "extract" /\ z.item = i
          /\ ~Settling(z)
      BY <2>1 DEF Extraction, Settling
    <2>3. Owns(w, x, i) /\ (Young(w, x, i) <=> z.onError = Free)
          /\ YoungStatus(w, x, i) = "queued"
      BY <1>3, <1>6, <1>14, ExtractingForm, ExtractingYoung DEF Owns
    <2>4. \A j \in Items : ~Closes(z, j) /\ ~Young(w, z, j)
      BY <1>6, <2>2, ExtractingYoung
    <2>5. \A j \in Items : Ages(w, z, j)
      BY <1>12, <2>3, <2>4
    <2>6. x.to \notin Early
      BY <2>1 DEF Early
    <2>7. z.onError = Free => batch[BatchOf[i]].status \in Open
      <3>1. z.onError = Free => item[i].status = "queued"
        BY <1>1, <1>5, <1>6, <2>3 DEF ReportInv, Youth, Known
      <3> QED BY <1>9, <3>1 DEF Early
    <2>8. batch[BatchOf[i]].status \in Open \/ Repays(w, z, i, row.status)
      BY <1>7, <2>1, <2>2, <2>7 DEF Repays
    <2> QED BY <1>1, <1>5, <1>6, <1>7, <1>8, <2>2, <2>5, <2>6, <2>8, ItemWrittenReports
  <1>15. CASE x \in Queueing(i)
    <2>1. z \in Processing(i) /\ z.step = "set" /\ x.to = "queued"
      BY <1>3, <1>15 DEF Queueing, Sets
    <2>2. Owns(w, x, i) /\ Young(w, x, i) /\ YoungStatus(w, x, i) = "acquiring"
      BY <1>6, <1>15, ExtractingForm, ExtractingYoung DEF Owns
    <2>3. /\ \A j \in Items : ~Closes(z, j)
          /\ \A j \in Items : Young(w, z, j) => j = i
          /\ YoungStatus(w, z, i) = "queued"
      BY <1>6, <2>1, ExtractingYoung
    <2>4. \A j \in Items : Ages(w, z, j)
      BY <1>12, <2>1, <2>2, <2>3
    <2>5. batch[BatchOf[i]].status \in Open
      <3>1. item[i].status = "acquiring"
        BY <1>1, <1>5, <1>6, <2>2 DEF ReportInv, Youth, Known
      <3> QED BY <1>9, <3>1 DEF Early
    <2> QED BY <1>1, <1>5, <1>6, <1>7, <1>8, <2>1, <2>4, <2>5, ItemWrittenReports
  <1> QED BY <1>6, <1>13, <1>14, <1>15

LEMMA RequestWriteReports ==
    ASSUME SourceInv, ReportInv, NEW b \in Batches, WriteItem(b)
    PROVE  ReportInv'
  <1>1. PICK x : x = at[b]
    OBVIOUS
  <1>2. PICK i : i = x.item
    OBVIOUS
  <1>3. PICK z : z = x.then
    OBVIOUS
  <1>4. PICK row : row = [import |-> IF x.import = None THEN item[i].import ELSE x.import,
                          status |-> x.to]
    OBVIOUS
  <1>5. /\ x.step = "write" /\ Goto(b, z) /\ b \in Actors /\ b \notin Workers
        /\ item' = [item EXCEPT ![i] = row] /\ UNCHANGED <<batch, acquire>>
    BY <1>1, <1>2, <1>3, <1>4, IngestionAssumption DEF WriteItem, At, Actors
  <1>6. /\ i \in Items /\ x \in QueueingUpload(i) \cup FailingUpload(i) /\ x.then = x.else
        /\ Known(i) /\ OwnItems(b, x)
    BY <1>1, <1>2, <1>5, RequestShape DEF SourceInv, Forms, Knowledge, Knows, ReportInv
  <1>7. row # None /\ row.status = x.to /\ x.to \in {"queued", "failed"}
    <2>1. x.import \in Items \cup {None} /\ x.to \in {"queued", "failed"}
      BY <1>6 DEF QueueingUpload, FailingUpload, Sets
    <2>2. item[i] \in ItemRows
      BY <1>6 DEF SourceInv, Tables, RowsTyped, Known
    <2>3. row \in ItemRows
      BY <1>4, <2>1, <2>2 DEF ItemRows, ItemStatuses, Ended
    <2> QED BY <1>4, <2>1, <2>3, IngestionAssumption
  <1>8. /\ \A j \in Items : Closes(z, j) => Closes(x, j) /\ z.step = "write"
        /\ \A j \in Items : Young(b, z, j) =>
               Young(b, x, j) /\ YoungStatus(b, z, j) = YoungStatus(b, x, j)
        /\ OwnItems(b, z) /\ z.step \in {"write", "job", "enqueue", "next"}
        /\ i \in Left(ItemsOf[b])
        /\ Owns(b, x, i) \/ Closes(x, i)
        /\ Young(b, z, i) => Closes(x, i)
    BY <1>3, <1>6, RequestSettingYoung
  <1>9. BatchOf[i] = b
    BY <1>6, <1>8, BatchItems
  <1>10. z.step # "write"
    BY <1>3, <1>6 DEF QueueingUpload, FailingUpload, Sets, Upload
  <1>11. /\ \A j \in Items : j # i => item'[j] = item[j]
         /\ item'[i] = row
    BY <1>5, <1>6 DEF SourceInv, Tables, RowsTyped
  <1>12. ~Young(b, z, i) /\ acquire[i] = 0
    <2>1. acquire[i] = 0
      BY <1>1, <1>2, <1>5, <1>6, <1>8, SetterAlone
    <2>2. ~(Young(b, x, i) /\ Closes(x, i))
      BY <1>1, <1>5, <1>6 DEF ReportInv, Youth
    <2> QED BY <1>6, <1>8, <2>1, <2>2
  <1>13. ASSUME NEW j \in Items PROVE Ages(b, z, j)
    <2>1. CASE j # i
      BY <1>1, <1>5, <1>8, <1>10, <1>11, <2>1, AgesOn DEF ReportInv
    <2>2. CASE j = i
      BY <1>1, <1>5, <1>8, <1>10, <1>12, <2>2 DEF Ages, Mine
    <2> QED BY <2>1, <2>2
  <1>14. x.to \in Early => batch[BatchOf[i]].status \in Open
    <2>1. CASE x \in FailingUpload(i)
      BY <2>1 DEF FailingUpload, Sets, Early
    <2>2. CASE x \in QueueingUpload(i)
      <3>1. Young(b, x, i) /\ YoungStatus(b, x, i) = "acquiring"
        BY <1>6, <2>2, QueueingUploadYoung
      <3>2. item[i].status = "acquiring"
        BY <1>1, <1>5, <1>6, <3>1 DEF ReportInv, Youth, Known
      <3> QED BY <1>6, <3>2 DEF ReportInv, BatchesKept, Known, Early
    <2> QED BY <1>6, <2>1, <2>2
  <1>15. Begins(b, z)
    BY <1>8 DEF Begins
  <1>16. Repays(b, z, i, row.status)
    BY <1>8, <1>9 DEF Repays
  <1>17. \A c \in Batches : c # BatchOf[i] => ~Owes(b, x, c)
    BY <1>5, <1>9 DEF Owes
  <1> QED BY <1>1, <1>5, <1>6, <1>7, <1>13, <1>14, <1>15, <1>16, <1>17, ItemWrittenReports

(* Who counts a batch names it.                                             *)
LEMMA RecomputerShape ==
    ASSUME NEW x, WorkerForm(x) \/ RequestForm(x), x.step = "recompute"
    PROVE  x.batch \in Batches
  <1>1. ASSUME NEW i \in Items
        PROVE  /\ x \notin Acquisition(i) \cup Extraction(i, {"extract", "finish"})
               /\ x \notin Upload(i, {"create", "store", "member", "queue", "job"})
               /\ x # Doing("mark", i)
    BY DEF Acquisition, Extraction, Upload, Doing
  <1>2. ASSUME NEW i \in Items
        PROVE  /\ x \notin Closing(i) \cup Processing(i) \cup Queueing(i)
               /\ x \notin QueueingUpload(i) \cup FailingUpload(i)
    BY DEF Closing, Processing, Queueing, QueueingUpload, FailingUpload, Sets
  <1>3. x \notin [rest : Lists, step : {"subscribe", "insert", "enqueue", "next"}]
    OBVIOUS
  <1>4. x \in Idle
    BY <1>1, <1>2, <1>3 DEF WorkerForm, RequestForm
  <1> QED BY <1>4 DEF Idle, New, Free

(* A pending item is claimed, by whoever has it or takes its job.           *)
LEMMA ClaimReports ==
    ASSUME SourceInv, ReportInv, NEW a \in Actors, NEW y, Goto(a, y), NEW i \in Items,
           Known(i), item[i].status = "pending", Claim(i), UNCHANGED batch,
           \A j \in Items : j # i => acquire'[j] = acquire[j], acquire'[i] = 0,
           Mine(a, i), Young(a, at[a], i) \/ acquire[i] > 0,
           \A j \in Items : ~Closes(y, j),
           \A j \in Items : j # i /\ Young(a, y, j) =>
               Young(a, at[a], j) /\ YoungStatus(a, y, j) = YoungStatus(a, at[a], j),
           Young(a, y, i) /\ YoungStatus(a, y, i) = "acquiring",
           a \in Batches => Begins(a, y), y.step # "recompute",
           \A c \in Batches : c # BatchOf[i] => ~Owes(a, at[a], c)
    PROVE  ReportInv'
  <1>1. item[i] \in ItemRows
    BY DEF SourceInv, Tables, Known, RowsTyped
  <1>2. PICK row : row = [item[i] EXCEPT !.status = "acquiring"]
    OBVIOUS
  <1>3. row \in ItemRows /\ row.status = "acquiring"
    BY <1>1, <1>2 DEF ItemRows, ItemStatuses
  <1>4. row # None /\ item' = [item EXCEPT ![i] = row]
    BY <1>2, <1>3, IngestionAssumption DEF Claim
  <1>5. \A j \in Items : item'[j] = IF j = i THEN row ELSE item[j]
    BY <1>4 DEF SourceInv, Tables, RowsTyped
  <1>6. batch[BatchOf[i]].status \in Open
    BY DEF ReportInv, BatchesKept, Known, Early
  <1>7. ASSUME NEW j \in Items PROVE Ages(a, y, j)
    <2>1. CASE j # i
      BY <1>5, <2>1, AgesOn DEF ReportInv
    <2>2. CASE j = i
      BY <1>3, <1>5, <2>2 DEF Ages
    <2> QED BY <2>1, <2>2
  <1> QED BY <1>3, <1>4, <1>6, <1>7, ItemWrittenReports

LEMMA TakeAcquisitionReports ==
    ASSUME SourceInv, ReportInv, NEW w \in Workers, NEW i \in Items, TakeAcquisition(w, i)
    PROVE  ReportInv'
  <1>1. PICK y : y = Doing(IF FileOf[i] = None THEN "fetch" ELSE "credential", i)
    OBVIOUS
  <1>2. /\ at[w].step = "free" /\ acquire[i] > 0 /\ Claim(i) /\ Goto(w, y)
        /\ acquire' = [acquire EXCEPT ![i] = @ - 1] /\ UNCHANGED <<batch, extract>>
        /\ w \in Actors /\ w \notin Batches
    BY <1>1, IngestionAssumption DEF TakeAcquisition, At, Actors
  <1>3. /\ Known(i) /\ acquire \in [Items -> Nat] /\ extract \in [Items -> Nat]
        /\ acquire[i] + extract[i] \in {0, 1}
    BY <1>2 DEF SourceInv, Tables, JobsKnown, RowsTyped, Owners, OneOwner
  <1>4. /\ acquire[i] = 1 /\ extract[i] = 0 /\ acquire'[i] = 0 /\ extract'[i] = 0
        /\ \A j \in Items : j # i => acquire'[j] = acquire[j]
    BY <1>2, <1>3
  <1>5. item[i].status = "pending"
    BY <1>2 DEF ReportInv, Youth
  <1>6. y \in Acquisition(i) /\ y.step \in {"fetch", "credential"}
    BY <1>1 DEF Doing, Acquisition
  <1>7. /\ \A j \in Items : Young(w, y, j) <=> j = i
        /\ \A j \in Items : ~Closes(y, j)
        /\ \A j \in Items : YoungStatus(w, y, j) = "acquiring"
    BY <1>6, AcquirerYoung DEF Fetching
  <1>8. \A c \in Batches : ~Owes(w, at[w], c)
    BY <1>2 DEF Owes
  <1>9. Mine(w, i)
    BY <1>4 DEF Mine
  <1> QED BY <1>2, <1>3, <1>4, <1>5, <1>6, <1>7, <1>8, <1>9, ClaimReports

LEMMA ClaimUploadReports ==
    ASSUME SourceInv, ReportInv, NEW b \in Batches, ClaimUpload(b)
    PROVE  ReportInv'
  <1>1. PICK rest : rest = at[b].rest
    OBVIOUS
  <1>2. PICK i : i = Head(rest)
    OBVIOUS
  <1>3. PICK y : y = [item |-> i, parent |-> None, rest |-> Tail(rest),
                      step |-> "create", version |-> 1]
    OBVIOUS
  <1>4. /\ at[b].step = "next" /\ rest # <<>> /\ Goto(b, y) /\ b \in Actors /\ b \notin Workers
        /\ Claim(i) /\ UNCHANGED <<batch, acquire>>
    BY <1>1, <1>2, <1>3, IngestionAssumption DEF ClaimUpload, At, Actors
  <1>5. /\ rest \in Lists /\ Left(rest) \subseteq Left(ItemsOf[b]) /\ Backed(b)
        /\ \A j \in Items : Young(b, at[b], j) <=> j \in Left(rest)
        /\ \A j \in Left(rest) : /\ YoungStatus(b, at[b], j) = "pending" /\ Owns(b, at[b], j)
                                 /\ item[j] # None /\ item[j].status = "pending"
    BY <1>1, <1>4, ListerReports
  <1>6. /\ i \in Items /\ i \in Left(rest) /\ i \notin Left(Tail(rest))
        /\ Tail(rest) \in Lists /\ Left(Tail(rest)) \subseteq Left(rest)
    BY <1>2, <1>4, <1>5, HeadAndTail
  <1>7. y \in Upload(i, Makers) /\ y.step = "create" /\ y.rest = Tail(rest)
    BY <1>3, <1>6 DEF Upload, Makers
  <1>8. /\ \A j \in Items : ~Closes(y, j)
        /\ \A j \in Items : Young(b, y, j) <=> j \in Left(y.rest) \/ (j = i /\ y.step # "job")
        /\ \A j \in Left(y.rest) : YoungStatus(b, y, j) = "pending"
        /\ YoungStatus(b, y, i) = "acquiring"
        /\ OwnItems(b, y) <=> /\ i \in Left(ItemsOf[b]) /\ Left(y.rest) \subseteq Left(ItemsOf[b])
                              /\ Backed(b)
    <2>1. i \in Items /\ y \in Upload(i, Makers)
      BY <1>6, <1>7
    <2> QED BY <2>1, MakerYoung
  <1>9. Begins(b, y) /\ BatchOf[i] = b
    BY <1>5, <1>6, <1>7, <1>8, BatchItems DEF Begins
  <1>10. \A c \in Batches : c # BatchOf[i] => ~Owes(b, at[b], c)
    BY <1>4, <1>9 DEF Owes
  <1>11. /\ Known(i) /\ item[i].status = "pending" /\ Young(b, at[b], i) /\ Mine(b, i)
    BY <1>5, <1>6 DEF Known, Mine
  <1>12. acquire'[i] = 0
    <2>1. i \in Items /\ Owns(b, at[b], i) /\ b \in Actors
      BY <1>4, <1>5, <1>6
    <2>2. acquire[i] + extract[i] = 0
      BY <2>1 DEF SourceInv, Owners, OneOwner
    <2>3. acquire[i] \in Nat /\ extract[i] \in Nat
      BY <2>1 DEF SourceInv, Tables, RowsTyped
    <2> QED BY <1>4, <2>2, <2>3
  <1>13. \A j \in Items : j # i /\ Young(b, y, j) =>
               Young(b, at[b], j) /\ YoungStatus(b, y, j) = YoungStatus(b, at[b], j)
    BY <1>5, <1>6, <1>7, <1>8
  <1> QED BY <1>4, <1>6, <1>7, <1>8, <1>9, <1>10, <1>11, <1>12, <1>13, ClaimReports

LEMMA CreateBatchReports ==
    ASSUME SourceInv, ReportInv, NEW b \in Batches, Kind[b] # "revise", CreateBatch(b)
    PROVE  ReportInv'
  <1>1. PICK y : y = Todo(IF Kind[b] \in {"upload", "paste"} THEN "next" ELSE "enqueue", ItemsOf[b])
    OBVIOUS
  <1>2. PICK row : row = [failed |-> 0, status |-> "pending", succeeded |-> 0, unchanged |-> 0]
    OBVIOUS
  <1>3. /\ at[b].step \in {"new", "subscribe"} /\ Goto(b, y) /\ UNCHANGED acquire
        /\ batch' = [batch EXCEPT ![b] = row] /\ b \in Actors /\ b \notin Workers
        /\ item' = [i \in Items |-> IF BatchOf[i] = b
                                    THEN [import |-> None, status |-> "pending"]
                                    ELSE item[i]]
    BY <1>1, <1>2, IngestionAssumption DEF CreateBatch, At, Actors
  <1>4. row \in BatchRows /\ row # None /\ row.status \in Open
    BY <1>2, IngestionAssumption DEF BatchRows, Open
  <1>5. /\ batch' = [c \in Batches |-> batch'[c]]
        /\ \A c \in Batches : batch'[c] = IF c = b THEN row ELSE batch[c]
    BY <1>3 DEF ReportInv, BatchesKept
  <1>6. \A i \in Items :
            IF BatchOf[i] = b THEN item'[i] # None /\ item'[i].status = "pending"
            ELSE item'[i] = item[i]
    <2>1. [import |-> None, status |-> "pending"] \in ItemRows
      BY DEF ItemRows, ItemStatuses
    <2> QED BY <1>3, <2>1, IngestionAssumption
  <1>7. ItemsOf[b] \in Lists
    BY BatchItems
  <1>8. /\ \A j \in Items : ~Closes(y, j)
        /\ \A j \in Items : Young(b, y, j) <=> j \in Left(ItemsOf[b])
        /\ \A j \in Left(ItemsOf[b]) : YoungStatus(b, y, j) = "pending"
        /\ y.step \in {"enqueue", "next"} /\ Core(y) = y /\ y.rest = ItemsOf[b]
    <2>1. PICK step \in {"enqueue", "next"} : y = Todo(step, ItemsOf[b])
      BY <1>1
    <2>2. Core(y) = y /\ y.step = step /\ y.rest = ItemsOf[b]
      BY <2>1 DEF Todo, Core
    <2> QED BY <1>7, <2>1, <2>2, TodoYoung
  <1>9. /\ \A j \in Items : Young(b, at[b], j) <=> j \in Left(ItemsOf[b])
        /\ \A j \in Left(ItemsOf[b]) : YoungStatus(b, at[b], j) = "pending"
    BY <1>3, UnbegunYoung
  <1>10. ASSUME NEW j \in Items PROVE Ages(b, y, j)
    <2>1. BatchOf[j] = b <=> j \in Left(ItemsOf[b])
      BY BatchItems
    <2>2. CASE BatchOf[j] = b
      <3>1. Owns(b, at[b], j)
        BY <1>3, <1>9, <2>1, <2>2, YoungOwns
      <3> QED BY <1>6, <1>8, <1>9, <2>1, <2>2, <3>1 DEF Ages, Mine
    <2>3. CASE BatchOf[j] # b
      BY <1>3, <1>6, <1>8, <2>1, <2>3, AgesOn DEF ReportInv
    <2> QED BY <2>2, <2>3
  <1>11. at'[b] = y /\ \A c \in Actors : c # b => at'[c] = at[c]
    BY <1>3, OthersStay DEF SourceInv
  <1>12. \A j \in Items : Youth(j)'
    BY <1>3, <1>10, YouthPasses DEF ReportInv
  <1>13. \A c \in Batches : OwnItems(c, at[c])'
    <2>1. ASSUME NEW c \in Batches, c # b PROVE OwnItems(c, at[c])'
      <3>1. OwnItems(c, at[c]) /\ at'[c] = at[c] /\ batch'[c] = batch[c]
        BY <1>5, <1>11, <2>1 DEF ReportInv, Actors
      <3> QED BY <3>1 DEF OwnItems, Core, Settling, Backed
    <2>2. OwnItems(b, at[b])'
      <3>1. Left(y.rest) \subseteq Left(ItemsOf[b]) /\ Core(at'[b]) = y /\ Backed(b)'
        BY <1>4, <1>5, <1>8, <1>11 DEF Backed
      <3> QED BY <1>8, <1>11, <3>1 DEF OwnItems, Settling, Makers, Core
    <2> QED BY <2>1, <2>2
  <1>14. BatchesKept'
    <2>1. /\ \A c \in Batches : batch'[c] # None => batch'[c] \in BatchRows
          /\ \A w \in Workers : at'[w].step = "recompute" => batch'[at'[w].batch] # None
          /\ \A c \in Batches :
                 Kind[c] = "revise" \/ at'[c].step \in {"new", "subscribe", "insert"} => batch'[c] = None
      <3>1. \A w \in Workers : at[w].step = "recompute" => at[w].batch \in Batches
        BY RecomputerShape DEF SourceInv, Forms
      <3>2. \A w \in Workers : at'[w] = at[w]
        BY <1>3, <1>11 DEF Actors
      <3>3. \A w \in Workers : at'[w].step = "recompute" => batch'[at'[w].batch] # None
        BY <1>4, <1>5, <3>1, <3>2 DEF ReportInv, BatchesKept
      <3> QED BY <1>4, <1>5, <1>8, <1>11, <3>3 DEF ReportInv, BatchesKept, Actors
    <2>2. \A i \in Items :
              /\ item'[i] # None <=> batch'[BatchOf[i]] # None
              /\ item'[i] # None /\ item'[i].status \in Early => batch'[BatchOf[i]].status \in Open
      BY <1>4, <1>5, <1>6, ItemBatch DEF ReportInv, BatchesKept
    <2> QED BY <1>5, <2>1, <2>2 DEF BatchesKept
  <1>15. ASSUME NEW c \in Batches PROVE Reported(c)'
    <2>1. CASE c = b
      BY <1>4, <1>5, <2>1 DEF Reported
    <2>2. CASE c # b
      <3>1. \A d \in Batches : d # b => ~Owes(b, at[b], d)
        BY <1>3 DEF Owes
      <3>2. \A j \in Items : BatchOf[j] # b => item'[j] = item[j]
        BY <1>6
      <3> QED BY <1>3, <1>5, <2>2, <3>1, <3>2, OthersReported
    <2> QED BY <2>1, <2>2
  <1> QED BY <1>12, <1>13, <1>14, <1>15 DEF ReportInv

(* What Having counts: the items of the batch, each in one place.           *)
LEMMA HavingCounts ==
    ASSUME NEW b \in Batches, NEW statuses
    PROVE  /\ Having(b, statuses) \in Nat /\ Having(b, statuses) <= Len(ItemsOf[b])
           /\ Len(ItemsOf[b]) \in Nat /\ Len(ItemsOf[b]) > 0
           /\ Having(b, statuses) = Len(ItemsOf[b]) <=>
                  \A i \in Items : BatchOf[i] = b => item[i].status \in statuses
           /\ Having(b, statuses) = Cardinality(OfBatch(b, statuses))
           /\ Having(b, statuses) = 0 <=> OfBatch(b, statuses) = {}
  <1>1. PICK list : list = ItemsOf[b]
    OBVIOUS
  <1>2. /\ list \in Seq(Items) /\ list # <<>> /\ list \in Lists
        /\ \A i \in Items : BatchOf[i] = b <=> i \in Left(list)
    BY <1>1, BatchItems, IngestionAssumption
  <1>3. /\ DOMAIN list = 1..Len(list) /\ Len(list) \in Nat /\ Len(list) > 0
        /\ \A n \in 1..Len(list) : list[n] \in Items
    BY <1>2
  <1>4. PICK places : places = {n \in 1..Len(list) : item[list[n]].status \in statuses}
    OBVIOUS
  <1>5. Having(b, statuses) = Cardinality(places)
    BY <1>1, <1>3, <1>4 DEF Having
  <1>6. PICK all : all = 1..Len(list)
    OBVIOUS
  <1>7. IsFiniteSet(all) /\ Cardinality(all) = Len(list)
    <2>1. 1 \in Int /\ Len(list) \in Int /\ ~(1 > Len(list)) /\ Len(list) - 1 + 1 = Len(list)
      BY <1>3
    <2>2. /\ IsFiniteSet(1..Len(list))
          /\ Cardinality(1..Len(list)) = IF 1 > Len(list) THEN 0 ELSE Len(list) - 1 + 1
      BY <2>1, FS_Interval
    <2> QED BY <1>6, <2>1, <2>2
  <1>8. places \in SUBSET all
    BY <1>4, <1>6
  <1>9. /\ IsFiniteSet(places) /\ Cardinality(places) <= Cardinality(all)
        /\ Cardinality(all) = Cardinality(places) => all = places
    BY <1>7, <1>8, FS_Subset
  <1>10. Cardinality(places) \in Nat
    BY <1>9, FS_CardinalityType
  <1>11. Cardinality(places) = Len(list) <=>
             \A i \in Items : BatchOf[i] = b => item[i].status \in statuses
    <2>1. Cardinality(places) = Len(list) <=> places = all
      BY <1>7, <1>9
    <2>2. places = all <=> \A n \in 1..Len(list) : item[list[n]].status \in statuses
      BY <1>4, <1>6
    <2>3. (\A n \in 1..Len(list) : item[list[n]].status \in statuses) <=>
              \A i \in Items : BatchOf[i] = b => item[i].status \in statuses
      BY <1>2, <1>3 DEF Left
    <2> QED BY <2>1, <2>2, <2>3
  <1>12. PICK found : found = OfBatch(b, statuses)
    OBVIOUS
  <1>13. Cardinality(found) = Cardinality(places) /\ IsFiniteSet(found)
    <2>1. PICK f : f = [n \in places |-> list[n]]
      OBVIOUS
    <2>2. \A n \in places : n \in 1..Len(list) /\ f[n] = list[n]
      BY <1>4, <2>1
    <2>3. f \in [places -> found]
      <3>1. \A n \in places : list[n] \in found
        BY <1>2, <1>3, <1>4, <1>12 DEF OfBatch, Left
      <3> QED BY <2>1, <3>1
    <2>4. f \in Injection(places, found)
      <3>1. \A m, n \in places : f[m] = f[n] => m = n
        BY <1>2, <2>2 DEF Lists
      <3> QED BY <2>3, <3>1 DEF Injection, IsInjective
    <2>5. f \in Surjection(places, found)
      <3>1. \A i \in found : \E n \in places : f[n] = i
        <4>1. SUFFICES ASSUME NEW i \in found PROVE \E n \in places : f[n] = i
          OBVIOUS
        <4>2. i \in Items /\ i \in Left(list) /\ item[i].status \in statuses
          BY <1>2, <1>12, <4>1 DEF OfBatch
        <4>3. PICK n \in 1..Len(list) : list[n] = i
          BY <4>2 DEF Left
        <4>4. n \in places
          BY <1>4, <4>2, <4>3
        <4> QED BY <2>2, <4>3, <4>4
      <3> QED BY <2>3, <3>1 DEF Surjection
    <2>6. ExistsBijection(places, found)
      BY <2>4, <2>5 DEF Bijection, ExistsBijection
    <2> QED BY <1>9, <2>6, FS_Bijection, Zenon
  <1>14. Cardinality(found) = 0 <=> found = {}
    BY <1>13, FS_EmptySet
  <1> QED BY <1>1, <1>3, <1>5, <1>7, <1>9, <1>10, <1>11, <1>12, <1>13, <1>14

LEMMA SummaryType ==
    ASSUME NEW b \in Batches
    PROVE  Summary(b) \in BatchRows /\ Summary(b) # None
  <1>1. \A statuses : Having(b, statuses) \in Nat
    BY HavingCounts
  <1>2. BatchStatus(b) \in {"pending", "running", "partial", "failed", "complete"}
    BY DEF BatchStatus
  <1>3. Summary(b) \in BatchRows
    BY <1>1, <1>2 DEF Summary, BatchRows
  <1> QED BY <1>3, IngestionAssumption

(* A batch is counted: whoever counts it owed nothing else.                 *)
LEMMA RecomputeReports ==
    ASSUME SourceInv, ReportInv, NEW a \in Actors, Recompute(a)
    PROVE  ReportInv'
  <1>1. PICK B : B = at[a].batch
    OBVIOUS
  <1>2. PICK row : row = Summary(B)
    OBVIOUS
  <1>3. /\ at[a].step = "recompute" /\ Goto(a, Free) /\ UNCHANGED <<item, acquire>>
        /\ batch' = [batch EXCEPT ![B] = row]
    BY <1>1, <1>2 DEF Recompute, At
  <1>4. B \in Batches /\ batch[B] # None /\ (a \in Batches => B = a)
    <2>1. WorkerForm(at[a]) \/ RequestForm(at[a])
      BY DEF SourceInv, Forms, Actors
    <2>2. B \in Batches
      BY <1>1, <1>3, <2>1, RecomputerShape
    <2>3. a \in Workers => batch[B] # None
      BY <1>1, <1>3 DEF ReportInv, BatchesKept
    <2>4. a \in Batches => B = a /\ batch[B] # None
      BY <1>1, <1>3 DEF ReportInv, OwnItems
    <2> QED BY <2>2, <2>3, <2>4 DEF Actors
  <1>5. row \in BatchRows /\ row # None
    BY <1>2, <1>4, SummaryType
  <1>6. at'[a] = Free /\ \A c \in Actors : c # a => at'[c] = at[c]
    BY <1>3, OthersStay DEF SourceInv
  <1>7. /\ batch' = [c \in Batches |-> batch'[c]]
        /\ \A c \in Batches : batch'[c] = IF c = B THEN row ELSE batch[c]
    BY <1>3 DEF ReportInv, BatchesKept
  <1>8. \A c \in Batches : batch'[c] # None <=> batch[c] # None
    BY <1>4, <1>5, <1>7
  <1>9. ASSUME NEW j \in Items PROVE Youth(j)'
    <2>1. ~Young(a, Free, j) /\ ~Closes(Free, j)
      BY FreeRests, RestingYoung
    <2>2. Ages(a, Free, j)
      BY <1>3, <2>1, AgesOn DEF ReportInv
    <2> QED BY <1>3, <2>2, YouthPasses DEF ReportInv
  <1>10. ASSUME NEW c \in Batches PROVE OwnItems(c, at[c])'
    <2>1. Backed(c)' <=> Backed(c)
      BY <1>8 DEF Backed
    <2>2. CASE c = a
      <3>1. at'[c] = Free /\ Core(Free) = Free /\ Free.step = "free"
        BY <1>6, <2>2 DEF Core, Free
      <3> QED BY <3>1 DEF OwnItems, Settling, Makers, Core
    <2>3. CASE c # a
      <3>1. OwnItems(c, at[c]) /\ at'[c] = at[c]
        BY <1>6, <2>3 DEF ReportInv, Actors
      <3> QED BY <1>8, <2>1, <3>1 DEF OwnItems, Core, Settling
    <2> QED BY <2>2, <2>3
  <1>11. BatchesKept'
    <2>1. \A c \in Batches : batch'[c] # None => batch'[c] \in BatchRows
      BY <1>5, <1>7 DEF ReportInv, BatchesKept
    <2>2. \A w \in Workers : at'[w].step = "recompute" => batch'[at'[w].batch] # None
      <3>1. ASSUME NEW w \in Workers, at'[w].step = "recompute"
            PROVE  batch'[at'[w].batch] # None
        <4>1. w \in Actors /\ at'[w] = at[w]
          BY <1>6, <3>1 DEF Actors, Free
        <4>2. at[w].batch \in Batches /\ batch[at[w].batch] # None
          BY <3>1, <4>1, RecomputerShape DEF SourceInv, Forms, ReportInv, BatchesKept
        <4> QED BY <1>8, <4>1, <4>2
      <3> QED BY <3>1
    <2>3. \A i \in Items : item'[i] # None <=> batch'[BatchOf[i]] # None
      BY <1>3, <1>8, ItemBatch DEF ReportInv, BatchesKept
    <2>4. \A c \in Batches :
              Kind[c] = "revise" \/ at'[c].step \in {"new", "subscribe", "insert"} =>
                  batch'[c] = None
      <3>1. ASSUME NEW c \in Batches, at'[c].step \in {"new", "subscribe", "insert"}
            PROVE  at[c].step \in {"new", "subscribe", "insert"}
        BY <1>6, <3>1 DEF Actors, Free
      <3> QED BY <1>8, <3>1 DEF ReportInv, BatchesKept
    <2>5. \A i \in Items : item'[i] # None /\ item'[i].status \in Early =>
              batch'[BatchOf[i]].status \in Open
      <3>1. ASSUME NEW i \in Items, item[i].status \in Early, BatchOf[i] = B
            PROVE  row.status \in Open
        <4>1. Having(B, Ended) # Len(ItemsOf[B])
          <5>1. item[i].status \notin Ended
            BY <3>1 DEF Early, Ended
          <5> QED BY <1>4, <3>1, <5>1, HavingCounts
        <4>2. Having(B, Ended) < Len(ItemsOf[B])
          BY <1>4, <4>1, HavingCounts
        <4> QED BY <1>2, <4>2 DEF Summary, BatchStatus, Open
      <3> QED BY <1>3, <1>7, <3>1, ItemBatch DEF ReportInv, BatchesKept
    <2> QED BY <1>7, <2>1, <2>2, <2>3, <2>4, <2>5 DEF BatchesKept
  <1>12. ASSUME NEW c \in Batches PROVE Reported(c)'
    <2>1. Summary(c)' = Summary(c)
      BY <1>3, SummaryStays
    <2>2. CASE c = B
      BY <1>2, <1>7, <2>1, <2>2 DEF Reported
    <2>3. CASE c # B
      <3>1. \A d \in Batches : d # B => ~Owes(a, at[a], d)
        BY <1>1, <1>3, <1>4 DEF Owes
      <3> QED BY <1>3, <1>7, <2>3, <3>1, OthersReported
    <2> QED BY <2>2, <2>3
  <1> QED BY <1>9, <1>10, <1>11, <1>12 DEF ReportInv

(* Nobody moves, and the rows stay.                                         *)
LEMMA RowsReport ==
    ASSUME ReportInv, UNCHANGED <<item, batch, acquire, at>>
    PROVE  ReportInv'
  <1>1. \A i \in Items : Youth(i)'
    BY DEF ReportInv, Youth, Young, YoungStatus, Closes, Before, Holds, Ahead, Core, Settling
  <1>2. \A b \in Batches : OwnItems(b, at[b])'
    BY DEF ReportInv, OwnItems, Core, Settling, Backed
  <1>3. BatchesKept'
    BY DEF ReportInv, BatchesKept
  <1>4. \A b \in Batches : Reported(b)'
    <2>1. \A b \in Batches : Summary(b)' = Summary(b)
      BY SummaryStays
    <2>2. \A b \in Batches : \A a \in Actors : Owes(a, at[a], b)' <=> Owes(a, at[a], b)
      BY DEF Owes
    <2> QED BY <2>1, <2>2 DEF ReportInv, Reported
  <1> QED BY <1>1, <1>2, <1>3, <1>4 DEF ReportInv

LEMMA InitReports ==
    ASSUME Init
    PROVE  ReportInv
  <1>1. /\ item = [i \in Items |-> None] /\ batch = [b \in Batches |-> None]
        /\ acquire = [i \in Items |-> 0]
        /\ \A w \in Workers : at[w] = Free \/ at[w] = Down
        /\ \A b \in Batches : at[b] = Free \/ at[b] = New
    BY DEF Init, IngestInit, Actors
  <1>2. Free.step = "free" /\ New.step = "new" /\ Down.step = "stopped"
    BY DEF Free, New, Down
  <1>3. \A a \in Actors :
            /\ at[a].step \in {"new", "free", "stopped"} /\ Core(at[a]) = at[a]
            /\ ~Settling(at[a])
    BY <1>1, <1>2 DEF Core, Settling, Actors
  <1>4. \A i \in Items : Youth(i)
    BY <1>1, <1>3 DEF Youth, Closes
  <1>5. \A b \in Batches : OwnItems(b, at[b])
    BY <1>1, <1>2, <1>3 DEF OwnItems, Makers, Actors
  <1>6. BatchesKept
    BY <1>1, <1>3, ItemBatch DEF BatchesKept, Actors
  <1>7. \A b \in Batches : Reported(b)
    BY <1>1 DEF Reported
  <1> QED BY <1>4, <1>5, <1>6, <1>7 DEF ReportInv

LEMMA ItemUpdatesReport ==
    ASSUME SourceInv, ReportInv, NEW a \in Actors, ItemUpdates(a)
    PROVE  ReportInv'
  <1>1. CASE WriteItem(a)
    BY <1>1, WorkerWriteReports, RequestWriteReports DEF Actors
  <1> QED BY <1>1, ReadItemReports, RecomputeReports DEF ItemUpdates

LEMMA ImportStepsReport ==
    ASSUME SourceInv, ReportInv, NEW a \in Actors, ImportSteps(a)
    PROVE  ReportInv'
  BY CreateImportReports, StoredReports, StoreFailsReports DEF ImportSteps

LEMMA RequestStepReports ==
    ASSUME SourceInv, ReportInv, NEW b \in Batches, RequestStep(b)
    PROVE  ReportInv'
  <1>1. b \in Actors
    BY DEF Actors
  <1>2. ASSUME Kind[b] # "revise", EachDocument(b)
        PROVE  ReportInv'
    BY <1>1, <1>2, CreateBatchReports, ClaimUploadReports, ImportStepsReport, AddMemberReports,
       RequestQueueReports, EnqueueExtractionReports, ExtractionRefusedReports, EndBatchReports
       DEF EachDocument
  <1>3. ASSUME Kind[b] # "revise", EachJob(b)
        PROVE  ReportInv'
    BY <1>3, CreateBatchReports, EnqueueAcquisitionReports, AcquisitionRefusedReports,
       EndBatchReports DEF EachJob
  <1>4. CASE UploadBatch(b)
    BY <1>1, <1>2, <1>4, RefuseFormatReports, ItemUpdatesReport DEF UploadBatch
  <1>5. CASE PasteBatch(b)
    BY <1>1, <1>2, <1>5, ItemUpdatesReport DEF PasteBatch
  <1>6. CASE UrlBatch(b)
    BY <1>1, <1>3, <1>6, ItemUpdatesReport DEF UrlBatch
  <1>7. CASE ProviderSelectionBatch(b)
    BY <1>1, <1>3, <1>7, SelectReports, ItemUpdatesReport DEF ProviderSelectionBatch
  <1>8. CASE Sync(b)
    BY <1>1, <1>3, <1>8, ItemUpdatesReport DEF Sync
  <1>9. CASE UploadRevision(b)
    BY <1>1, <1>9, ReviseReports, ImportStepsReport, EnqueueExtractionReports,
       ExtractionRefusedReports, MarkRefusedReports DEF UploadRevision
  <1> QED BY <1>4, <1>5, <1>6, <1>7, <1>8, <1>9 DEF RequestStep

LEMMA WorkerStepReports ==
    ASSUME SourceInv, ReportInv, NEW w \in Workers, WorkerStep(w)
    PROVE  ReportInv'
  <1>1. w \in Actors
    BY DEF Actors
  <1>2. CASE AcquireSource(w)
    BY <1>1, <1>2, TakeAcquisitionReports, ReadCredentialReports, SaveRefreshedReports,
       AcquisitionFailsReports, FetchReports, ListSubscriptionsReports, ReserveRevisionReports,
       ImportStepsReport, RecordReports, AddMemberReports, QueueReports
       DEF AcquireSource
  <1>3. CASE ProcessImport(w)
    BY <1>3, TakeExtractionReports, SetupFailsReports, BeginExtractionReports,
       FinishExtractionReports DEF ProcessImport
  <1> QED BY <1>1, <1>2, <1>3, ItemUpdatesReport, StopReports DEF WorkerStep

LEMMA ReportsKept == SourceInv /\ ReportInv /\ [Next]_vars => ReportInv'
  <1> SUFFICES ASSUME SourceInv, ReportInv, [Next]_vars PROVE ReportInv'
    OBVIOUS
  <1>1. CASE ConnNext /\ UNCHANGED ingestVars
    BY <1>1, RowsReport DEF ingestVars
  <1>2. ASSUME NEW b \in Batches, RequestStep(b) PROVE ReportInv'
    BY <1>2, RequestStepReports
  <1>3. ASSUME NEW w \in Workers, WorkerStep(w) PROVE ReportInv'
    BY <1>3, WorkerStepReports
  <1>4. ASSUME NEW i \in Items, RetryImport(i) \/ CompileImport(i) PROVE ReportInv'
    BY <1>4, RowsReport DEF RetryImport, CompileImport
  <1>5. ASSUME NEW f \in Files, RemoteChanges(f) PROVE ReportInv'
    BY <1>5, RowsReport DEF RemoteChanges
  <1>6. CASE UNCHANGED vars
    BY <1>6, RowsReport DEF vars, ingestVars
  <1> QED BY <1>1, <1>2, <1>3, <1>4, <1>5, <1>6 DEF Next

LEMMA ReportInvariant == Spec => [](SourceInv /\ ReportInv)
  <1>1. SourceInv /\ ReportInv /\ [Next]_vars => (SourceInv /\ ReportInv)'
    BY InvariantKept, ReportsKept
  <1> QED BY <1>1, InitHolds, InitReports, PTL DEF Spec

LEMMA SettledReports ==
    ASSUME ReportInv
    PROVE  ReportedIsTrue
  <1>1. SUFFICES
            ASSUME NEW b \in Batches, Settled(b), batch[b] # None,
                   batch[b].status \notin {"pending", "running"},
                   NEW lost, lost = OfBatch(b, {"failed", "blocked"}),
                   NEW kept, kept = OfBatch(b, {"review_required", "unchanged"})
            PROVE  /\ lost \cup kept = {i \in Items : BatchOf[i] = b}
                   /\ batch[b].failed = Cardinality(OfBatch(b, {"failed"}))
                   /\ batch[b].succeeded = Cardinality(OfBatch(b, {"review_required"}))
                   /\ batch[b].unchanged = Cardinality(OfBatch(b, {"unchanged"}))
                   /\ batch[b].status = "complete" <=> lost = {}
                   /\ batch[b].status = "failed" <=> kept = {}
    BY DEF ReportedIsTrue
  <1>2. batch[b] = Summary(b)
    <2>1. at[b].step # "stopped"
      BY DEF ReportInv, OwnItems
    <2>2. \A a \in Actors : ~Owes(a, at[a], b)
      BY <1>1, <2>1 DEF Settled, Owes, At
    <2> QED BY <1>1, <2>2 DEF ReportInv, Reported, Open
  <1>3. /\ batch[b].failed = Cardinality(OfBatch(b, {"failed"}))
        /\ batch[b].succeeded = Cardinality(OfBatch(b, {"review_required"}))
        /\ batch[b].unchanged = Cardinality(OfBatch(b, {"unchanged"}))
        /\ batch[b].status = BatchStatus(b)
    BY <1>2, HavingCounts DEF Summary
  <1>4. \A i \in Items : BatchOf[i] = b => item[i].status \in Ended
    <2>1. ~(Having(b, Ended) < Len(ItemsOf[b]))
      BY <1>1, <1>3 DEF BatchStatus
    <2>2. Having(b, Ended) = Len(ItemsOf[b])
      BY <2>1, HavingCounts
    <2> QED BY <2>2, HavingCounts
  <1>5. lost \cup kept = {i \in Items : BatchOf[i] = b}
    BY <1>1, <1>4 DEF OfBatch, Ended
  <1>6. batch[b].status = "complete" <=> lost = {}
    <2>1. Having(b, {"failed", "blocked"}) = 0 <=> lost = {}
      BY <1>1, HavingCounts
    <2>2. BatchStatus(b) = "complete" <=> Having(b, {"failed", "blocked"}) = 0
      <3>1. ~(Having(b, Ended) < Len(ItemsOf[b]))
        BY <1>1, <1>3 DEF BatchStatus
      <3>2. /\ Having(b, {"failed", "blocked"}) \in Nat
            /\ Len(ItemsOf[b]) \in Nat /\ Len(ItemsOf[b]) > 0
        BY HavingCounts
      <3> QED BY <3>1, <3>2 DEF BatchStatus
    <2> QED BY <1>3, <2>1, <2>2
  <1>7. batch[b].status = "failed" <=> kept = {}
    <2>1. kept = {} <=> \A i \in Items : BatchOf[i] = b => item[i].status \in {"failed", "blocked"}
      BY <1>1, <1>4 DEF OfBatch, Ended
    <2>2. kept = {} <=> Having(b, {"failed", "blocked"}) = Len(ItemsOf[b])
      BY <2>1, HavingCounts
    <2>3. BatchStatus(b) = "failed" <=> Having(b, {"failed", "blocked"}) = Len(ItemsOf[b])
      <3>1. ~(Having(b, Ended) < Len(ItemsOf[b]))
        BY <1>1, <1>3 DEF BatchStatus
      <3> QED BY <3>1 DEF BatchStatus
    <2> QED BY <1>3, <2>2, <2>3
  <1> QED BY <1>3, <1>5, <1>6, <1>7

LEMMA InvariantTypes ==
    ASSUME SourceInv, ReportInv
    PROVE  SourcesTypeOK
  <1>1. ConnTypeOK /\ RowsTyped
    BY DEF SourceInv, Tables, ConnInv
  <1>2. \A b \in Batches : batch[b] # None => batch[b] \in BatchRows
    BY DEF ReportInv, BatchesKept
  <1>3. ASSUME NEW a \in Actors PROVE at[a].step \in Steps
    <2>1. CASE a \in Workers
      BY <2>1, WorkerShape DEF SourceInv, Forms, Steps, Acquiring
    <2>2. CASE a \in Batches
      BY <2>2, RequestShape DEF SourceInv, Forms, Steps, Makers
    <2> QED BY <2>1, <2>2 DEF Actors
  <1> QED BY <1>1, <1>2, <1>3 DEF SourcesTypeOK, RowsTyped

(* The tables, the queues and the statements of the handlers hold what      *)
(* their columns and types allow.                                           *)
THEOREM SourcesTyped == Spec => []SourcesTypeOK
  BY ReportInvariant, InvariantTypes, PTL

(* Once nobody works on a batch any more, what it reports is true of its    *)
(* items, in whatever order its request and any number of workers updated   *)
(* items and counted, and whichever workers of other batches were stopped   *)
(* (recompute_batch, update_item).                                          *)
THEOREM ReportsAreTrue == Spec => []ReportedIsTrue
  BY ReportInvariant, SettledReports, PTL

=============================================================================
