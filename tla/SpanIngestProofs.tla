---------------------------- MODULE SpanIngestProofs ----------------------------
(****************************************************************************)
(* To which run a span belongs, for any number of requests, spans, runs,    *)
(* sessions and changes of the configuration.  What a request remembers     *)
(* between its statements is the difficulty: a run it found or authorized   *)
(* earlier, a session it read from a span, the runs it will reconcile.      *)
(* RequestInv says what of that still holds, RowsInv what the tables hold.  *)
(****************************************************************************)
EXTENDS SpanIngest, TargetRegistry, FiniteSetTheorems, TLAPS

(* A run is closed to the idle and the terminal signal: it never opens.     *)
Closing(r) == run[r].state \notin {"created", "collecting"}

Live(r) == run[r] # None /\ run[r].state \notin {"cancelled", "failed"}

(* The index uq_eval_runs_external_boundary. *)
OneLiveRun ==
    \A r1, r2 \in Runs :
        Live(r1) /\ Live(r2) /\ run[r1].session = run[r2].session /\ run[r1].session # None
        => r1 = r2

(* A span that names no run is in a run of its session.                     *)
InSession(p, r) ==
    p.run = None => /\ p.session # None
                    /\ run[r] # None /\ run[r].session = p.session

SpansKnown ==
    \A s \in Spans : stored[s] # None =>
        /\ stored[s].content.span = s
        /\ stored[s].owner # None =>
               run[stored[s].owner] # None /\ InSession(stored[s].content, stored[s].owner)

AnsweredKnown == \A r \in answered : run[r] # None /\ Closing(r)

RowsInv ==
    OneLiveRun /\ SpansKnown /\ AnsweredKnown /\ TraceHasOneOwner /\ CountIsEvidence

(* Where a request stands: what it holds of the span at hand.               *)
PlaceInv(q) ==
    LET pc == req[q].pc IN
    /\ pc \in {"span", "resolve", "pack", "create", "winner"} => req[q].run = None
    /\ pc \in {"timeout", "authorize"} => req[q].run # None
    /\ pc \in {"span", "resolve", "authorize", "insert"} => req[q].sent # None
    /\ pc # "span" /\ req[q].sent # None => req[q].batch # <<>>
    /\ pc \in {"resolve", "pack", "create", "winner", "timeout"} /\ req[q].sent # None =>
           /\ Current(q).run = None
           /\ Current(q).session = req[q].session
           /\ req[q].session # None
    /\ pc \in {"insert", "timeout"} /\ req[q].run # None => run[req[q].run] # None
    /\ pc \in {"insert", "timeout", "authorize"} /\ req[q].run # None /\ req[q].sent # None =>
           InSession(Current(q), req[q].run)

(* What it remembers of runs: they are there, and one whose terminal span   *)
(* it counted is closing or will be reconciled with that signal.            *)
MemoryInv(q) ==
    /\ \A r \in DOMAIN req[q].authorized : req[q].authorized[r] => run[r] # None
    /\ \A r \in DOMAIN req[q].seen : run[r] # None
    /\ \A r \in req[q].counted :
           /\ run[r] # None
           /\ Closing(r) \/ (r \in DOMAIN req[q].seen /\ req[q].seen[r])

RequestInv(q) == req[q] # IdleRequest => PlaceInv(q) /\ MemoryInv(q)

IngestInv == IngestTypeOK /\ RowsInv /\ \A q \in Exporters : RequestInv(q)

-----------------------------------------------------------------------------
(* Requests and what they hold. *)

LEMMA SanitizedPayload ==
    ASSUME NEW p \in Payloads, NEW cfg
    PROVE  /\ Sanitized(p, cfg) \in Payloads
           /\ Sanitized(p, cfg).run = p.run /\ Sanitized(p, cfg).span = p.span
  BY DEF Sanitized, Payloads

(* A request that is under way. *)
LEMMA Underway ==
    ASSUME IngestTypeOK, NEW q \in Exporters, req[q].pc # "idle"
    PROVE  req[q] \in RequestRows
  BY DEF IngestTypeOK, IdleRequest

LEMMA UnderwayInv ==
    ASSUME IngestInv, NEW q \in Exporters, req[q].pc # "idle"
    PROVE  PlaceInv(q) /\ MemoryInv(q)
  BY DEF IngestInv, RequestInv, IdleRequest

LEMMA SpanAtHand ==
    ASSUME IngestTypeOK, NEW q \in Exporters, req[q].pc # "idle", req[q].batch # <<>>
    PROVE  Current(q) \in Payloads /\ Tail(req[q].batch) \in Seq(Payloads)
  <1>1. req[q] \in RequestRows
    BY Underway
  <1>2. Head(req[q].batch) \in Payloads /\ Tail(req[q].batch) \in Seq(Payloads)
    BY <1>1 DEF RequestRows
  <1> QED BY <1>2, SanitizedPayload DEF Current

LEMMA FlagsOf ==
    ASSUME NEW f \in Flags
    PROVE  /\ DOMAIN f \subseteq Runs
           /\ \A r \in DOMAIN f : f[r] \in BOOLEAN
  BY DEF Flags

LEMMA FlagsAre ==
    ASSUME NEW known \in SUBSET Runs, NEW f \in [known -> BOOLEAN]
    PROVE  f \in Flags
  BY DEF Flags

-----------------------------------------------------------------------------
(* What a step of one request leaves alone. *)

(* Runs are never removed, keep their session and never open again.         *)
Grows ==
    \A r \in Runs : run[r] # None =>
        run'[r] # None /\ run'[r].session = run[r].session /\ (Closing(r) => Closing(r)')

LEMMA OthersStay ==
    ASSUME IngestTypeOK, Grows, NEW p \in Exporters, RequestInv(p), req'[p] = req[p]
    PROVE  RequestInv(p)'
  <1> SUFFICES ASSUME req[p] # IdleRequest
               PROVE  PlaceInv(p)' /\ MemoryInv(p)'
    BY DEF RequestInv
  <1>1. req[p] \in RequestRows /\ PlaceInv(p) /\ MemoryInv(p)
    BY DEF RequestInv, IngestTypeOK
  <1>2. Current(p)' = Current(p)
    BY DEF Current
  <1>3. PlaceInv(p)'
    BY <1>1, <1>2 DEF PlaceInv, Grows, InSession, RequestRows
  <1>4. MemoryInv(p)'
    <2>1. /\ DOMAIN req[p].authorized \subseteq Runs
          /\ DOMAIN req[p].seen \subseteq Runs
          /\ req[p].counted \subseteq Runs
      BY <1>1, FlagsOf DEF RequestRows
    <2> QED BY <1>1, <2>1 DEF MemoryInv, Grows
  <1> QED BY <1>3, <1>4

(* The step is that of one request. *)
Moves(q) == req' = [req EXCEPT ![q] = req'[q]]

(* A step of a request that changes only what the request holds.            *)
LEMMA OnlyRequest ==
    ASSUME IngestInv, NEW q \in Exporters,
           UNCHANGED <<run, stored, answered>>,
           config' \in Configs, approved' \in BOOLEAN, changes' \in 0..MaxChanges,
           timeout' \subseteq Runs, sends' \in 0..MaxSends,
           Moves(q), req'[q] \in RequestRows \cup {IdleRequest},
           RequestInv(q)'
    PROVE  IngestInv'
  <1>1. IngestTypeOK'
    BY DEF IngestInv, IngestTypeOK, Moves
  <1>2. RowsInv'
    BY DEF IngestInv, RowsInv, OneLiveRun, Live, SpansKnown, InSession, AnsweredKnown, Closing,
           TraceHasOneOwner, StoredSpans, CountIsEvidence, EvidenceOf
  <1>3. \A p \in Exporters : RequestInv(p)'
    <2>1. \A p \in Exporters : p # q => req'[p] = req[p]
      BY DEF IngestInv, IngestTypeOK, Moves
    <2>2. Grows
      BY DEF Grows, Closing
    <2> QED BY <2>1, <2>2, OthersStay DEF IngestInv
  <1> QED BY <1>1, <1>2, <1>3 DEF IngestInv

LEMMA Ends ==
    ASSUME IngestInv, NEW q \in Exporters,
           UNCHANGED <<env, run, stored, answered, sends>>, timeout' \subseteq Runs,
           req' = [req EXCEPT ![q] = IdleRequest]
    PROVE  IngestInv'
  <1>1. RequestInv(q)' /\ req'[q] = IdleRequest
    BY DEF RequestInv, IngestInv, IngestTypeOK
  <1> QED BY <1>1, OnlyRequest DEF IngestInv, IngestTypeOK, env, Moves

(* A step within a request. *)
LEMMA GoesOn ==
    ASSUME IngestInv, NEW q \in Exporters,
           UNCHANGED <<env, run, stored, answered, sends>>, timeout' \subseteq Runs,
           Moves(q), req'[q] \in RequestRows,
           PlaceInv(q)', MemoryInv(q)'
    PROVE  IngestInv'
  BY OnlyRequest DEF RequestInv, IngestInv, IngestTypeOK, env

(* ... that keeps what the request remembers of runs.                       *)
LEMMA GoesOnTo ==
    ASSUME IngestInv, NEW q \in Exporters, req[q].pc # "idle",
           UNCHANGED <<env, run, stored, answered, sends>>, timeout' \subseteq Runs,
           Moves(q), req'[q] \in RequestRows,
           req'[q].authorized = req[q].authorized, req'[q].seen = req[q].seen,
           req'[q].counted = req[q].counted,
           PlaceInv(q)'
    PROVE  IngestInv'
  <1>1. MemoryInv(q)'
    BY UnderwayInv DEF MemoryInv, Closing
  <1> QED BY <1>1, GoesOn

LEMMA Begins ==
    ASSUME IngestInv, NEW q \in Exporters, sends' \in 0..MaxSends,
           UNCHANGED <<env, run, timeout, stored, answered>>,
           Moves(q), req'[q] \in RequestRows,
           req'[q].authorized = [r \in {} |-> TRUE], req'[q].seen = [r \in {} |-> FALSE],
           req'[q].counted = {}, PlaceInv(q)'
    PROVE  IngestInv'
  <1>1. MemoryInv(q)'
    BY DEF MemoryInv
  <1> QED BY <1>1, OnlyRequest DEF RequestInv, IngestInv, IngestTypeOK, env

LEMMA SendKeeps ==
    ASSUME IngestInv, NEW q \in Exporters, NEW b \in Sent, Send(q, b)
    PROVE  IngestInv'
  <1> DEFINE row ==
        [pc |-> "span", sent |-> b, batch |-> b, cfg |-> config, session |-> None,
         run |-> None, authorized |-> [r \in {} |-> TRUE],
         seen |-> [r \in {} |-> FALSE], counted |-> {}]
  <1>1. row \in RequestRows
    <2>1. [r \in {} |-> TRUE] \in Flags /\ [r \in {} |-> FALSE] \in Flags
      BY FlagsAre, [r \in {} |-> TRUE] \in [{} -> BOOLEAN], [r \in {} |-> FALSE] \in [{} -> BOOLEAN]
    <2> QED BY <2>1, IngestAssumption DEF RequestRows, IngestInv, IngestTypeOK
  <1>2. Moves(q) /\ req'[q] = row
    BY DEF Send, Moves, IngestInv, IngestTypeOK
  <1>3. PlaceInv(q)'
    BY <1>2, IngestAssumption DEF PlaceInv
  <1>4. sends' \in 0..MaxSends
    BY IngestAssumption DEF Send, IngestInv, IngestTypeOK
  <1> HIDE DEF row
  <1>5. row.authorized = [r \in {} |-> TRUE] /\ row.seen = [r \in {} |-> FALSE] /\ row.counted = {}
    BY DEF row
  <1> QED BY <1>1, <1>2, <1>3, <1>4, <1>5, Begins DEF Send

LEMMA CallKeeps ==
    ASSUME IngestInv, NEW q \in Exporters, NEW e \in Sessions \cup {None}, CallCreate(q, e)
    PROVE  IngestInv'
  <1> DEFINE row ==
        [pc |-> "pack", sent |-> None, batch |-> <<>>, cfg |-> config,
         session |-> e, run |-> None, authorized |-> [r \in {} |-> TRUE],
         seen |-> [r \in {} |-> FALSE], counted |-> {}]
  <1>1. row \in RequestRows
    <2>1. [r \in {} |-> TRUE] \in Flags /\ [r \in {} |-> FALSE] \in Flags
      BY FlagsAre, [r \in {} |-> TRUE] \in [{} -> BOOLEAN], [r \in {} |-> FALSE] \in [{} -> BOOLEAN]
    <2> QED BY <2>1 DEF RequestRows, IngestInv, IngestTypeOK
  <1>2. Moves(q) /\ req'[q] = row
    BY DEF CallCreate, Moves, IngestInv, IngestTypeOK
  <1>3. PlaceInv(q)'
    BY <1>2 DEF PlaceInv
  <1>4. sends' \in 0..MaxSends
    BY IngestAssumption DEF CallCreate, IngestInv, IngestTypeOK
  <1> HIDE DEF row
  <1>5. row.authorized = [r \in {} |-> TRUE] /\ row.seen = [r \in {} |-> FALSE] /\ row.counted = {}
    BY DEF row
  <1> QED BY <1>1, <1>2, <1>3, <1>4, <1>5, Begins DEF CallCreate

LEMMA SkipKeeps ==
    ASSUME IngestInv, NEW q \in Exporters, SkipSpan(q)
    PROVE  IngestInv'
  <1>1. req[q] \in RequestRows /\ PlaceInv(q) /\ req[q].pc = "span"
    BY Underway, UnderwayInv DEF SkipSpan, RequestAt, IngestInv
  <1>2. Tail(req[q].batch) \in Seq(Payloads)
    BY <1>1, SpanAtHand DEF SkipSpan, IngestInv
  <1>3. Moves(q) /\ req'[q] = [req[q] EXCEPT !.batch = Tail(@)]
    BY DEF SkipSpan, Moves, IngestInv, IngestTypeOK
  <1>4. /\ req'[q] \in RequestRows
        /\ req'[q].authorized = req[q].authorized /\ req'[q].seen = req[q].seen
        /\ req'[q].counted = req[q].counted
        /\ req'[q].pc = "span" /\ req'[q].sent = req[q].sent /\ req'[q].run = req[q].run
    BY <1>1, <1>2, <1>3 DEF RequestRows
  <1>5. PlaceInv(q)'
    BY <1>1, <1>4 DEF PlaceInv
  <1> QED BY <1>1, <1>3, <1>4, <1>5, GoesOnTo DEF SkipSpan, IngestInv, IngestTypeOK

(* A request goes on at another place, with a run and a session, and with   *)
(* the same span at hand.                                                   *)
GoesTo(q, pc, r, session) ==
    /\ Moves(q)
    /\ req'[q] \in RequestRows
    /\ req'[q].pc = pc /\ req'[q].run = r /\ req'[q].session = session
    /\ req'[q].sent = req[q].sent
    /\ req'[q].batch = req[q].batch
    /\ Current(q)' = Current(q)
    /\ req'[q].authorized = req[q].authorized
    /\ req'[q].seen = req[q].seen
    /\ req'[q].counted = req[q].counted

Places ==
    {"span", "resolve", "pack", "create", "winner", "timeout", "authorize", "insert"}

LEMMA GotoGoesTo ==
    ASSUME IngestTypeOK, NEW q \in Exporters, req[q] \in RequestRows, NEW pc \in Places,
           RequestGoto(q, pc)
    PROVE  GoesTo(q, pc, req[q].run, req[q].session)
  BY DEF IngestTypeOK, RequestGoto, GoesTo, Moves, Current, RequestRows, Places

LEMMA GotoWithGoesTo ==
    ASSUME IngestTypeOK, NEW q \in Exporters, req[q] \in RequestRows, NEW pc \in Places,
           NEW r \in Runs \cup {None}, RequestGotoWith(q, pc, r)
    PROVE  GoesTo(q, pc, r, req[q].session)
  BY DEF IngestTypeOK, RequestGotoWith, GoesTo, Moves, Current, RequestRows, Places

LEMMA GoesToKeeps ==
    ASSUME IngestInv, NEW q \in Exporters, req[q].pc # "idle",
           UNCHANGED <<env, run, stored, answered, sends>>, timeout' \subseteq Runs,
           NEW pc, NEW r, NEW session, GoesTo(q, pc, r, session), PlaceInv(q)'
    PROVE  IngestInv'
  BY GoesOnTo DEF GoesTo

LEMMA NextSpanKeeps ==
    ASSUME IngestInv, NEW q \in Exporters, NextSpan(q)
    PROVE  IngestInv'
  <1>1. /\ req[q] \in RequestRows /\ req[q].pc = "span"
        /\ req[q].batch # <<>> /\ req[q].run = None /\ req[q].sent # None
    BY Underway, UnderwayInv DEF NextSpan, RequestAt, IngestInv, PlaceInv
  <1>2. Current(q).run \in Runs \cup {None} /\ Current(q).session \in Sessions \cup {None}
    BY <1>1, SpanAtHand DEF IngestInv, Payloads
  <1>3. CASE Current(q).run # None
    <2>1. GoesTo(q, "authorize", Current(q).run, req[q].session)
      BY <1>1, <1>2, <1>3, GotoWithGoesTo DEF NextSpan, IngestInv, Places
    <2>2. PlaceInv(q)'
      BY <1>1, <1>3, <2>1 DEF PlaceInv, InSession, GoesTo
    <2> QED BY <1>1, <2>1, <2>2, GoesToKeeps DEF NextSpan, IngestInv, IngestTypeOK
  <1>4. CASE Current(q).run = None /\ Current(q).session # None
    <2>1. GoesTo(q, "resolve", None, Current(q).session)
      BY <1>1, <1>2, <1>4 DEF NextSpan, GoesTo, Moves, Current, RequestRows, IngestInv, IngestTypeOK
    <2>2. PlaceInv(q)'
      BY <1>1, <1>4, <2>1 DEF PlaceInv, GoesTo
    <2> QED BY <1>1, <2>1, <2>2, GoesToKeeps DEF NextSpan, IngestInv, IngestTypeOK
  <1>5. CASE Current(q).run = None /\ Current(q).session = None
    <2>1. GoesTo(q, "insert", None, req[q].session)
      BY <1>1, <1>5, GotoWithGoesTo DEF NextSpan, IngestInv, Places
    <2>2. PlaceInv(q)'
      BY <1>1, <2>1 DEF PlaceInv, GoesTo
    <2> QED BY <1>1, <2>1, <2>2, GoesToKeeps DEF NextSpan, IngestInv, IngestTypeOK
  <1> QED BY <1>3, <1>4, <1>5

LEMMA LiveRunsAre ==
    ASSUME IngestTypeOK, NEW session, session # None, NEW r \in LiveRuns(session)
    PROVE  r \in Runs /\ run[r] # None /\ run[r].session = session
  BY DEF LiveRuns

LEMMA ResolveKeeps ==
    ASSUME IngestInv, NEW q \in Exporters, Resolve(q)
    PROVE  IngestInv'
  <1>1. /\ req[q] \in RequestRows /\ req[q].pc = "resolve"
        /\ req[q].batch # <<>> /\ req[q].run = None /\ req[q].sent # None
        /\ Current(q).run = None /\ Current(q).session = req[q].session /\ req[q].session # None
    BY Underway, UnderwayInv DEF Resolve, RequestAt, IngestInv, PlaceInv
  <1>2. ASSUME NEW r \in LiveRuns(req[q].session), RequestGotoWith(q, "authorize", r)
        PROVE  IngestInv'
    <2>1. r \in Runs /\ run[r] # None /\ run[r].session = req[q].session /\ r # None
      BY <1>1, LiveRunsAre, IngestAssumption DEF IngestInv
    <2>2. GoesTo(q, "authorize", r, req[q].session)
      BY <1>1, <1>2, <2>1, GotoWithGoesTo DEF IngestInv, Places
    <2>3. PlaceInv(q)'
      BY <1>1, <2>1, <2>2 DEF PlaceInv, InSession, GoesTo, Resolve
    <2> QED BY <1>1, <2>2, <2>3, GoesToKeeps DEF Resolve, IngestInv, IngestTypeOK
  <1>3. ASSUME NEW pc \in {"pack", "insert"}, RequestGoto(q, pc)
        PROVE  IngestInv'
    <2>1. GoesTo(q, pc, None, req[q].session)
      BY <1>1, <1>3, GotoGoesTo DEF IngestInv, Places
    <2>2. PlaceInv(q)'
      BY <1>1, <1>3, <2>1 DEF PlaceInv, GoesTo
    <2> QED BY <1>1, <2>1, <2>2, GoesToKeeps DEF Resolve, IngestInv, IngestTypeOK
  <1> QED BY <1>2, <1>3 DEF Resolve

LEMMA PackKeeps ==
    ASSUME IngestInv, NEW q \in Exporters, ReadPack(q) \/ PackRefused(q)
    PROVE  IngestInv'
  <1>1. CASE ReadPack(q)
    <2>1. req[q] \in RequestRows /\ req[q].pc = "pack" /\ PlaceInv(q)
      BY <1>1, Underway, UnderwayInv DEF ReadPack, RequestAt, IngestInv
    <2>2. GoesTo(q, "create", None, req[q].session)
      BY <1>1, <2>1, GotoGoesTo DEF ReadPack, IngestInv, Places, PlaceInv
    <2>3. PlaceInv(q)'
      BY <2>1, <2>2 DEF PlaceInv, GoesTo
    <2> QED BY <1>1, <2>1, <2>2, <2>3, GoesToKeeps DEF ReadPack, IngestInv, IngestTypeOK
  <1>2. CASE PackRefused(q)
    BY <1>2, Ends DEF PackRefused, IngestInv, IngestTypeOK
  <1> QED BY <1>1, <1>2

LEMMA CreateRefusedKeeps ==
    ASSUME IngestInv, NEW q \in Exporters, CreateRefused(q)
    PROVE  IngestInv'
  <1>1. req[q] \in RequestRows /\ req[q].pc = "create" /\ PlaceInv(q)
    BY Underway, UnderwayInv DEF CreateRefused, RequestAt, IngestInv
  <1>2. GoesTo(q, "winner", None, req[q].session)
    BY <1>1, GotoGoesTo DEF CreateRefused, IngestInv, Places, PlaceInv
  <1>3. PlaceInv(q)'
    BY <1>1, <1>2 DEF PlaceInv, GoesTo
  <1> QED BY <1>1, <1>2, <1>3, GoesToKeeps DEF CreateRefused, IngestInv, IngestTypeOK

LEMMA WinnerKeeps ==
    ASSUME IngestInv, NEW q \in Exporters, Winner(q)
    PROVE  IngestInv'
  <1>1. req[q] \in RequestRows /\ req[q].pc = "winner" /\ PlaceInv(q)
    BY Underway, UnderwayInv DEF Winner, RequestAt, IngestInv
  <1>2. ASSUME NEW r \in LiveRuns(req[q].session), RequestGotoWith(q, "timeout", r)
        PROVE  IngestInv'
    <2>1. r \in Runs /\ run[r] # None /\ run[r].session = req[q].session /\ r # None
      BY IngestAssumption DEF LiveRuns
    <2>2. GoesTo(q, "timeout", r, req[q].session)
      BY <1>1, <1>2, <2>1, GotoWithGoesTo DEF IngestInv, Places
    <2>3. PlaceInv(q)'
      BY <1>1, <2>1, <2>2 DEF PlaceInv, InSession, GoesTo, Winner
    <2> QED BY <1>1, <2>2, <2>3, GoesToKeeps DEF Winner, IngestInv, IngestTypeOK
  <1> QED BY <1>2, Ends DEF Winner, IngestInv, IngestTypeOK

LEMMA EnqueueTimeoutKeeps ==
    ASSUME IngestInv, NEW q \in Exporters, EnqueueTimeout(q)
    PROVE  IngestInv'
  <1>1. req[q] \in RequestRows /\ req[q].pc = "timeout" /\ PlaceInv(q)
    BY Underway, UnderwayInv DEF EnqueueTimeout, RequestAt, IngestInv
  <1>2. req[q].run \in Runs
    BY <1>1 DEF RequestRows, PlaceInv
  <1>3. timeout' \subseteq Runs
    BY <1>2 DEF EnqueueTimeout, IngestInv, IngestTypeOK
  <1>4. CASE req[q].sent = None
    BY <1>3, <1>4, Ends DEF EnqueueTimeout, Created
  <1>5. CASE req[q].sent # None
    <2>1. GoesTo(q, "authorize", req[q].run, req[q].session)
      BY <1>1, <1>2, <1>5, GotoWithGoesTo DEF EnqueueTimeout, Created, IngestInv, Places
    <2>2. PlaceInv(q)'
      BY <1>1, <1>5, <2>1 DEF PlaceInv, InSession, GoesTo, EnqueueTimeout
    <2> QED BY <1>1, <1>3, <2>1, <2>2, GoesToKeeps DEF EnqueueTimeout
  <1> QED BY <1>4, <1>5

-----------------------------------------------------------------------------
(* Steps that change the tables.                                            *)

LEMMA TablesChange ==
    ASSUME IngestInv, NEW q \in Exporters, Moves(q), Grows,
           IngestTypeOK', RowsInv', RequestInv(q)'
    PROVE  IngestInv'
  <1>1. \A p \in Exporters : p # q => req'[p] = req[p]
    BY DEF IngestInv, IngestTypeOK, Moves
  <1> QED BY <1>1, OthersStay DEF IngestInv

LEMMA NewRunRow ==
    ASSUME NEW session \in Sessions \cup {None}
    PROVE  /\ NewRun(session) \in RunRows /\ NewRun(session) # None
           /\ NewRun(session).session = session /\ NewRun(session).state = "created"
           /\ NewRun(session).count = 0
  <1>1. NewRun(session) \in RunRows
    BY DEF NewRun, RunRows, RunStates
  <1> QED BY <1>1, IngestAssumption DEF NewRun

(* A run is created where there was none, for a session that is free.       *)
LEMMA RunIsCreated ==
    ASSUME IngestInv, NEW r \in Runs, run[r] = None,
           NEW session \in Sessions \cup {None}, SessionFree(session),
           run' = [run EXCEPT ![r] = NewRun(session)],
           UNCHANGED <<stored, answered>>
    PROVE  /\ run' \in [Runs -> RunRows \cup {None}] /\ RowsInv' /\ Grows
           /\ run'[r] = NewRun(session)
  <1> USE DEF IngestInv, RowsInv
  <1>1. run' \in [Runs -> RunRows \cup {None}] /\ run'[r] = NewRun(session)
    BY NewRunRow DEF IngestTypeOK
  <1>2. \A x \in Runs : x # r => run'[x] = run[x]
    BY DEF IngestTypeOK
  <1>3. Grows
    BY <1>2 DEF Grows, Closing
  <1>4. OneLiveRun'
    <2>1. \A x \in Runs : x # r /\ Live(x)' => Live(x)
      BY <1>2 DEF Live
    <2>2. \A x \in Runs : x # r /\ Live(x) /\ run[x].session = session => session = None
      BY DEF SessionFree, LiveRuns, Live
    <2>3. run'[r].session = session
      BY <1>1, NewRunRow
    <2> QED BY <1>2, <2>1, <2>2, <2>3 DEF OneLiveRun
  <1>5. SpansKnown'
    <2>1. \A s \in Spans : stored[s] # None => stored[s].owner \in Runs \cup {None}
      BY DEF IngestTypeOK, SpanRows
    <2> QED BY <1>2, <2>1 DEF SpansKnown, InSession
  <1>6. AnsweredKnown'
    BY <1>2 DEF AnsweredKnown, Closing, IngestTypeOK
  <1>7. TraceHasOneOwner'
    BY DEF TraceHasOneOwner, StoredSpans
  <1>8. CountIsEvidence'
    <2>1. EvidenceOf(r) = {}
      <3>1. r # None
        BY IngestAssumption
      <3> QED BY <3>1 DEF EvidenceOf, StoredSpans, SpansKnown
    <2>2. \A x \in Runs : EvidenceOf(x)' = EvidenceOf(x)
      BY DEF EvidenceOf, StoredSpans
    <2>3. run'[r].count = 0 /\ Cardinality(EvidenceOf(r)) = 0 /\ 0 <= MaxSpans
      BY <1>1, <2>1, NewRunRow, FS_EmptySet, IngestAssumption
    <2> QED BY <1>2, <2>2, <2>3 DEF CountIsEvidence
  <1> QED BY <1>1, <1>3, <1>4, <1>5, <1>6, <1>7, <1>8

LEMMA CreateRunKeeps ==
    ASSUME IngestInv, NEW q \in Exporters, CreateRun(q)
    PROVE  IngestInv'
  <1>1. /\ req[q] \in RequestRows /\ req[q].pc = "create" /\ PlaceInv(q) /\ MemoryInv(q)
        /\ req[q].session \in Sessions \cup {None}
    BY Underway, UnderwayInv DEF CreateRun, RequestAt, IngestInv, RequestRows
  <1>2. PICK r \in Runs : /\ run[r] = None
                          /\ run' = [run EXCEPT ![r] = NewRun(req[q].session)]
                          /\ timeout' = timeout \cup {r}
                          /\ Created(q, r)
    BY DEF CreateRun
  <1>3. /\ run' \in [Runs -> RunRows \cup {None}] /\ RowsInv' /\ Grows
        /\ run'[r] = NewRun(req[q].session)
    BY <1>1, <1>2, RunIsCreated DEF CreateRun
  <1>4. /\ UNCHANGED <<env, stored, answered, sends>> /\ timeout' \subseteq Runs
    BY <1>2 DEF CreateRun, IngestInv, IngestTypeOK
  <1>5. CASE req[q].sent = None
    <2>1. Moves(q) /\ req'[q] = IdleRequest
      BY <1>2, <1>5 DEF Created, Moves, IngestInv, IngestTypeOK
    <2>2. IngestTypeOK' /\ RequestInv(q)'
      BY <1>3, <1>4, <2>1 DEF IngestInv, IngestTypeOK, Moves, env, RequestInv
    <2> QED BY <1>3, <2>1, <2>2, TablesChange
  <1>6. CASE req[q].sent # None
    <2>1. GoesTo(q, "authorize", r, req[q].session) /\ r # None
      BY <1>1, <1>2, <1>6, GotoWithGoesTo, IngestAssumption DEF Created, IngestInv, Places
    <2>2. IngestTypeOK'
      BY <1>3, <1>4, <2>1 DEF IngestInv, IngestTypeOK, GoesTo, Moves, env
    <2>3. PlaceInv(q)'
      BY <1>1, <1>3, <1>6, <2>1, NewRunRow DEF PlaceInv, GoesTo, InSession
    <2>4. MemoryInv(q)'
      <3>1. /\ DOMAIN req[q].authorized \subseteq Runs
            /\ DOMAIN req[q].seen \subseteq Runs
            /\ req[q].counted \subseteq Runs
        BY <1>1, FlagsOf DEF RequestRows
      <3> QED BY <1>1, <1>3, <2>1, <3>1 DEF MemoryInv, Grows, GoesTo
    <2> QED BY <1>3, <2>1, <2>2, <2>3, <2>4, TablesChange DEF RequestInv, GoesTo
  <1> QED BY <1>5, <1>6

LEMMA AuthorizeKeeps ==
    ASSUME IngestInv, NEW q \in Exporters, AuthorizeSpan(q)
    PROVE  IngestInv'
  <1> DEFINE r == req[q].run
             known == [x \in DOMAIN req[q].authorized \cup {r} |-> Permitted(q, x)]
  <1>1. /\ req[q] \in RequestRows /\ req[q].pc = "authorize" /\ PlaceInv(q) /\ MemoryInv(q)
        /\ UNCHANGED <<env, run, timeout, stored, answered, sends>>
    BY Underway, UnderwayInv DEF AuthorizeSpan, RequestAt, IngestInv
  <1>2. r \in Runs /\ r # None /\ req[q].sent # None /\ req[q].batch # <<>> /\ InSession(Current(q), r)
    BY <1>1 DEF PlaceInv, RequestRows
  <1>3. /\ req[q].authorized \in Flags /\ DOMAIN req[q].authorized \subseteq Runs
        /\ \A x \in DOMAIN req[q].authorized : req[q].authorized[x] \in BOOLEAN
    BY <1>1, FlagsOf DEF RequestRows
  <1>4. \A x \in Runs : Permitted(q, x) \in BOOLEAN /\ (Permitted(q, x) => run[x] # None)
    BY <1>1, <1>3 DEF Permitted, MemoryInv
  <1>5. known \in Flags
    <2>1. known \in [DOMAIN req[q].authorized \cup {r} -> BOOLEAN]
      BY <1>2, <1>3, <1>4
    <2> QED BY <1>2, <1>3, <2>1, FlagsAre
  <1>6. Tail(req[q].batch) \in Seq(Payloads)
    BY <1>1, <1>2, SpanAtHand DEF IngestInv
  <1>7. \A x \in DOMAIN known : known[x] => run[x] # None
    BY <1>2, <1>3, <1>4
  <1>8. req' = IF Permitted(q, r)
               THEN [req EXCEPT ![q].pc = "insert", ![q].authorized = known]
               ELSE [req EXCEPT ![q].pc = "span", ![q].run = None,
                                ![q].batch = Tail(@), ![q].authorized = known]
    BY DEF AuthorizeSpan
  <1> HIDE DEF r, known
  <1>9. /\ Moves(q)
        /\ req'[q] \in RequestRows
        /\ req'[q].authorized = known
        /\ req'[q].seen = req[q].seen
        /\ req'[q].counted = req[q].counted
        /\ req'[q].sent = req[q].sent
        /\ \/ /\ Permitted(q, r)
              /\ req'[q].pc = "insert" /\ req'[q].run = req[q].run
              /\ req'[q].batch = req[q].batch /\ req'[q].cfg = req[q].cfg
           \/ req'[q].pc = "span" /\ req'[q].run = None
    <2>1. CASE Permitted(q, r)
      BY <1>1, <1>5, <1>8, <2>1 DEF Moves, IngestInv, IngestTypeOK, RequestRows
    <2>2. CASE ~Permitted(q, r)
      BY <1>1, <1>5, <1>6, <1>8, <2>2 DEF Moves, IngestInv, IngestTypeOK, RequestRows
    <2> QED BY <2>1, <2>2
  <1>10. MemoryInv(q)'
    BY <1>1, <1>7, <1>9 DEF MemoryInv, Closing
  <1>11. PlaceInv(q)'
    <2>1. CASE Permitted(q, r) /\ req'[q].pc = "insert" /\ req'[q].run = req[q].run
               /\ req'[q].batch = req[q].batch /\ req'[q].cfg = req[q].cfg
      <3>1. Current(q)' = Current(q)
        BY <2>1 DEF Current
      <3>2. run[r] # None
        BY <1>2, <1>4, <2>1
      <3> QED BY <1>1, <1>2, <1>9, <2>1, <3>1, <3>2 DEF PlaceInv, InSession, r
    <2>2. CASE req'[q].pc = "span" /\ req'[q].run = None
      BY <1>2, <1>9, <2>2 DEF PlaceInv
    <2> QED BY <1>9, <2>1, <2>2
  <1>12. timeout' \subseteq Runs
    BY <1>1 DEF IngestInv, IngestTypeOK
  <1> QED BY <1>1, <1>9, <1>10, <1>11, <1>12, GoesOn

LEMMA RowsStay ==
    ASSUME RowsInv, UNCHANGED <<run, stored, answered>>
    PROVE  RowsInv' /\ Grows
  BY DEF RowsInv, OneLiveRun, Live, SpansKnown, InSession, AnsweredKnown, Closing, Grows,
         TraceHasOneOwner, StoredSpans, CountIsEvidence, EvidenceOf

(* The request goes on with the next span.                                  *)
LEMMA SpanDoneMoves ==
    ASSUME IngestTypeOK, NEW q \in Exporters, req[q] \in RequestRows, req[q].batch # <<>>,
           NEW rejected \in BOOLEAN, NEW seen \in Flags, SpanDone(q, rejected, seen)
    PROVE  /\ Moves(q) /\ req'[q] \in RequestRows
           /\ req'[q].pc = "span" /\ req'[q].run = None /\ req'[q].sent = req[q].sent
           /\ req'[q].authorized = req[q].authorized
           /\ req'[q].seen = seen
           /\ \A r \in req'[q].counted \ req[q].counted :
                  r = req[q].run /\ r # None /\ ~rejected /\ Current(q).terminal
  <1> DEFINE counted == IF ~rejected /\ Current(q).terminal
                        THEN req[q].counted \cup ({req[q].run} \ {None}) ELSE req[q].counted
  <1>1. Tail(req[q].batch) \in Seq(Payloads)
    BY SpanAtHand DEF RequestRows
  <1>2. counted \in SUBSET Runs
    BY DEF RequestRows
  <1>3. req' = [req EXCEPT ![q].pc = "span", ![q].run = None,
                           ![q].batch = Tail(req[q].batch),
                           ![q].counted = counted, ![q].seen = seen]
    BY DEF SpanDone, IngestTypeOK
  <1>4. \A r \in counted \ req[q].counted :
            r = req[q].run /\ r # None /\ ~rejected /\ Current(q).terminal
    OBVIOUS
  <1> HIDE DEF counted
  <1>5. /\ Moves(q) /\ req'[q] \in RequestRows
        /\ req'[q].pc = "span" /\ req'[q].run = None /\ req'[q].sent = req[q].sent
        /\ req'[q].authorized = req[q].authorized
        /\ req'[q].seen = seen /\ req'[q].counted = counted
    BY <1>1, <1>2, <1>3 DEF Moves, IngestTypeOK, RequestRows
  <1> QED BY <1>4, <1>5

LEMMA SpanDoneKeeps ==
    ASSUME IngestInv, NEW q \in Exporters, RequestAt(q, "insert"),
           UNCHANGED <<env, timeout, answered, sends>>,
           run' \in [Runs -> RunRows \cup {None}], stored' \in [Spans -> SpanRows \cup {None}],
           Grows, RowsInv',
           NEW rejected \in BOOLEAN, NEW seen \in Flags, SpanDone(q, rejected, seen),
           \A r \in DOMAIN seen : run'[r] # None,
           \A r \in DOMAIN req[q].seen : r \in DOMAIN seen /\ (req[q].seen[r] => seen[r]),
           ~rejected /\ Current(q).terminal /\ req[q].run # None =>
               req[q].run \in DOMAIN seen /\ seen[req[q].run]
    PROVE  IngestInv'
  <1>1. /\ req[q] \in RequestRows /\ PlaceInv(q) /\ MemoryInv(q)
        /\ req[q].batch # <<>> /\ req[q].sent # None
    BY Underway, UnderwayInv DEF RequestAt, IngestInv, PlaceInv
  <1>2. /\ Moves(q) /\ req'[q] \in RequestRows
        /\ req'[q].pc = "span" /\ req'[q].run = None /\ req'[q].sent = req[q].sent
        /\ req'[q].authorized = req[q].authorized
        /\ req'[q].seen = seen
        /\ \A r \in req'[q].counted \ req[q].counted :
               r = req[q].run /\ r # None /\ ~rejected /\ Current(q).terminal
    BY <1>1, SpanDoneMoves DEF IngestInv
  <1>3. IngestTypeOK'
    BY <1>2 DEF IngestInv, IngestTypeOK, Moves, env
  <1>4. PlaceInv(q)'
    BY <1>1, <1>2 DEF PlaceInv
  <1>5. MemoryInv(q)'
    <2>1. /\ DOMAIN req[q].authorized \subseteq Runs
          /\ req[q].counted \subseteq Runs
      BY <1>1, FlagsOf DEF RequestRows
    <2>2. \A r \in DOMAIN req'[q].authorized : req'[q].authorized[r] => run'[r] # None
      BY <1>1, <1>2, <2>1 DEF MemoryInv, Grows
    <2>3. ASSUME NEW r \in req'[q].counted
          PROVE  run'[r] # None /\ (Closing(r)' \/ (r \in DOMAIN seen /\ seen[r]))
      <3>1. CASE r \in req[q].counted
        BY <1>1, <2>1, <3>1 DEF MemoryInv, Grows
      <3>2. CASE r \notin req[q].counted
        BY <1>2, <2>3, <3>2
      <3> QED BY <3>1, <3>2
    <2> QED BY <1>2, <2>2, <2>3 DEF MemoryInv
  <1> QED BY <1>2, <1>3, <1>4, <1>5, TablesChange DEF RequestInv

LEMMA MetRemembers ==
    ASSUME IngestInv, NEW q \in Exporters, RequestAt(q, "insert"), req[q].run # None
    PROVE  /\ Met(q) \in Flags
           /\ DOMAIN Met(q) = DOMAIN req[q].seen \cup {req[q].run}
           /\ \A r \in DOMAIN Met(q) : run[r] # None
           /\ \A r \in DOMAIN req[q].seen : r \in DOMAIN Met(q) /\ (req[q].seen[r] => Met(q)[r])
           /\ Current(q).terminal => Met(q)[req[q].run]
  <1>1. /\ req[q] \in RequestRows /\ PlaceInv(q) /\ MemoryInv(q)
        /\ req[q].batch # <<>> /\ req[q].sent # None
    BY Underway, UnderwayInv DEF RequestAt, IngestInv, PlaceInv
  <1>2. req[q].run \in Runs /\ run[req[q].run] # None
    BY <1>1 DEF PlaceInv, RequestAt, RequestRows
  <1>3. /\ DOMAIN req[q].seen \subseteq Runs
        /\ \A r \in DOMAIN req[q].seen : req[q].seen[r] \in BOOLEAN
    BY <1>1, FlagsOf DEF RequestRows
  <1>4. Current(q).terminal \in BOOLEAN
    BY <1>1, SpanAtHand DEF IngestInv, RequestAt, Payloads
  <1>5. Met(q) \in [DOMAIN req[q].seen \cup {req[q].run} -> BOOLEAN]
    BY <1>3, <1>4 DEF Met
  <1>6. Met(q) \in Flags
    BY <1>2, <1>3, <1>5, FlagsAre
  <1>7. DOMAIN Met(q) = DOMAIN req[q].seen \cup {req[q].run}
    BY DEF Met
  <1>8. \A r \in DOMAIN Met(q) : run[r] # None
    BY <1>1, <1>2, <1>7 DEF MemoryInv
  <1> QED BY <1>3, <1>6, <1>7, <1>8 DEF Met

LEMMA InsertKnownKeeps ==
    ASSUME IngestInv, NEW q \in Exporters, InsertKnown(q) \/ InsertRefused(q)
    PROVE  IngestInv'
  <1>1. /\ RequestAt(q, "insert") /\ UNCHANGED <<env, run, timeout, stored, answered, sends>>
        /\ RowsInv' /\ Grows
        /\ run' \in [Runs -> RunRows \cup {None}] /\ stored' \in [Spans -> SpanRows \cup {None}]
    BY RowsStay DEF InsertKnown, InsertRefused, IngestInv, IngestTypeOK
  <1>2. /\ req[q] \in RequestRows /\ MemoryInv(q) /\ req[q].seen \in Flags
    BY <1>1, Underway, UnderwayInv DEF RequestAt, IngestInv, RequestRows
  <1>3. CASE SpanDone(q, TRUE, req[q].seen)
    BY <1>1, <1>2, <1>3, SpanDoneKeeps DEF MemoryInv
  <1>4. CASE SpanDone(q, FALSE, MetAgain(q)) /\ req[q].run # None
    BY <1>1, <1>4, MetRemembers, SpanDoneKeeps DEF MetAgain
  <1>5. CASE SpanDone(q, FALSE, MetAgain(q)) /\ req[q].run = None
    BY <1>1, <1>2, <1>5, SpanDoneKeeps DEF MemoryInv, MetAgain
  <1> QED BY <1>3, <1>4, <1>5 DEF InsertKnown, InsertRefused

(* A span is stored under the lock of its trace.                            *)
LEMMA SpanIsStored ==
    ASSUME IngestInv, NEW q \in Exporters, RequestAt(q, "insert"),
           stored[Current(q).span] = None, NEW late \in BOOLEAN,
           stored' = [stored EXCEPT ![Current(q).span] = SpanRow(q, late)],
           req[q].run # None => OwnerAgrees(q),
           Grows
    PROVE  /\ Current(q).span \in Spans
           /\ stored' \in [Spans -> SpanRows \cup {None}]
           /\ SpansKnown' /\ TraceHasOneOwner'
           /\ \A r \in Runs : EvidenceOf(r)' = IF r = req[q].run /\ ~late
                                               THEN EvidenceOf(r) \cup {Current(q).span}
                                               ELSE EvidenceOf(r)
           /\ \A r \in Runs : Current(q).span \notin EvidenceOf(r)
  <1> DEFINE p == Current(q)
             o == req[q].run
             row == SpanRow(q, late)
  <1> USE DEF IngestInv, RowsInv
  <1>1. /\ req[q] \in RequestRows /\ PlaceInv(q)
        /\ req[q].batch # <<>> /\ req[q].sent # None
    BY Underway, UnderwayInv DEF RequestAt, PlaceInv
  <1>2. p \in Payloads /\ p.span \in Spans
    BY <1>1, SpanAtHand DEF RequestAt, Payloads
  <1>3. o \in Runs \cup {None} /\ (o # None => run[o] # None /\ InSession(p, o))
    BY <1>1 DEF RequestRows, PlaceInv, RequestAt
  <1>4. /\ row \in SpanRows /\ row # None
        /\ row.owner = o /\ row.late = late /\ row.content = p
    BY <1>2, <1>3, IngestAssumption DEF SpanRow, SpanRows
  <1>5. o # None => \A s \in Spans : stored[s] # None /\ Trace(s) = Trace(p.span)
                                     /\ stored[s].owner # None => stored[s].owner = o
    BY DEF OwnerAgrees, TraceOwners
  <1> HIDE DEF row
  <1>6. /\ stored' \in [Spans -> SpanRows \cup {None}]
        /\ stored'[p.span] = row
        /\ \A s \in Spans : s # p.span => stored'[s] = stored[s]
    BY <1>2, <1>4 DEF IngestTypeOK, row
  <1> HIDE DEF p, o
  <1>7. \A s \in Spans : stored[s] # None => stored[s].owner \in Runs \cup {None}
    BY DEF IngestTypeOK, SpanRows
  <1>8. SpansKnown'
    <2>1. ASSUME NEW s \in Spans, stored[s] # None
          PROVE  /\ stored[s].content.span = s
                 /\ stored'[s] = stored[s]
                 /\ stored[s].owner # None =>
                        run'[stored[s].owner] # None /\ InSession(stored[s].content, stored[s].owner)'
      BY <1>6, <1>7, <2>1 DEF SpansKnown, Grows, InSession, p
    <2>2. o # None => /\ run'[o] # None
                      /\ p.run = None => p.session # None /\ run'[o].session = p.session
      BY <1>3 DEF Grows, InSession
    <2>3. stored'[p.span].content = p /\ stored'[p.span].owner = o
      BY <1>4, <1>6
    <2> QED BY <1>6, <2>1, <2>2, <2>3 DEF SpansKnown, InSession
  <1>9. TraceHasOneOwner'
    BY <1>4, <1>5, <1>6, <1>7 DEF TraceHasOneOwner, StoredSpans
  <1>10. \A r \in Runs : p.span \notin EvidenceOf(r)
    BY <1>2 DEF EvidenceOf, StoredSpans, p
  <1>11. ASSUME NEW r \in Runs
         PROVE  EvidenceOf(r)' = IF r = o /\ ~late THEN EvidenceOf(r) \cup {p.span} ELSE EvidenceOf(r)
    BY <1>2, <1>4, <1>6, stored[p.span] = None DEF EvidenceOf, StoredSpans, p
  <1> QED BY <1>2, <1>6, <1>8, <1>9, <1>10, <1>11 DEF p, o

LEMMA InsertOutsideKeeps ==
    ASSUME IngestInv, NEW q \in Exporters, InsertUnassigned(q) \/ InsertLate(q)
    PROVE  IngestInv'
  <1> DEFINE late == req[q].run # None
  <1>1. /\ RequestAt(q, "insert") /\ UNCHANGED <<env, run, timeout, answered, sends>>
        /\ stored[Current(q).span] = None
        /\ stored' = [stored EXCEPT ![Current(q).span] = SpanRow(q, late)]
        /\ late => OwnerAgrees(q)
        /\ SpanDone(q, late, req[q].seen)
    BY DEF InsertUnassigned, InsertLate
  <1>2. late \in BOOLEAN
    OBVIOUS
  <1>3. Grows
    BY <1>1 DEF Grows, Closing
  <1>4. /\ stored' \in [Spans -> SpanRows \cup {None}]
        /\ SpansKnown' /\ TraceHasOneOwner'
        /\ \A r \in Runs : EvidenceOf(r)' = IF r = req[q].run /\ ~late
                                            THEN EvidenceOf(r) \cup {Current(q).span}
                                            ELSE EvidenceOf(r)
    BY <1>1, <1>2, <1>3, SpanIsStored
  <1>5. \A r \in Runs : EvidenceOf(r)' = EvidenceOf(r)
    BY <1>4, IngestAssumption
  <1>6. RowsInv'
    BY <1>1, <1>4, <1>5
       DEF IngestInv, RowsInv, OneLiveRun, Live, AnsweredKnown, Closing, CountIsEvidence
  <1>7. run' \in [Runs -> RunRows \cup {None}]
    BY <1>1 DEF IngestInv, IngestTypeOK
  <1>8. /\ req[q] \in RequestRows /\ MemoryInv(q) /\ req[q].seen \in Flags
    BY <1>1, Underway, UnderwayInv DEF RequestAt, IngestInv, RequestRows
  <1>9. \A r \in DOMAIN req[q].seen : run'[r] # None
    BY <1>1, <1>8 DEF MemoryInv
  <1> QED BY <1>1, <1>2, <1>3, <1>4, <1>6, <1>7, <1>8, <1>9, SpanDoneKeeps

(* One more span is counted.                                                *)
LEMMA CountGrows ==
    ASSUME IngestInv, NEW o \in Runs, run[o] # None, run[o].count < MaxSpans,
           run' = [run EXCEPT ![o].count = @ + 1]
    PROVE  /\ run' \in [Runs -> RunRows \cup {None}] /\ Grows
           /\ run'[o] # None /\ run'[o].count = run[o].count + 1
           /\ \A r \in Runs : r # o => run'[r] = run[r]
           /\ \A r \in Runs : run[r] = None <=> run'[r] = None
           /\ \A r \in Runs : run[r] # None => /\ run'[r].state = run[r].state
                                               /\ run'[r].session = run[r].session
  <1>1. run[o] \in RunRows
    BY DEF IngestInv, IngestTypeOK
  <1> DEFINE row == [run[o] EXCEPT !.count = run[o].count + 1]
  <1>2. row \in RunRows /\ row.count = run[o].count + 1 /\ row.state = run[o].state
        /\ row.session = run[o].session
    BY <1>1 DEF RunRows
  <1>3. row # None
    BY <1>2, IngestAssumption
  <1>4. run' = [run EXCEPT ![o] = row]
    OBVIOUS
  <1> HIDE DEF row
  <1>5. run'[o] = row /\ \A r \in Runs : r # o => run'[r] = run[r]
    BY <1>4 DEF IngestInv, IngestTypeOK
  <1>6. run' \in [Runs -> RunRows \cup {None}]
    BY <1>2, <1>4 DEF IngestInv, IngestTypeOK
  <1>7. Grows
    BY <1>2, <1>3, <1>5 DEF Grows, Closing
  <1> QED BY <1>2, <1>3, <1>5, <1>6, <1>7

LEMMA InsertAssignedKeeps ==
    ASSUME IngestInv, NEW q \in Exporters, InsertAssigned(q)
    PROVE  IngestInv'
  <1>0. PICK o : o = req[q].run
    OBVIOUS
  <1>1. /\ RequestAt(q, "insert") /\ UNCHANGED <<env, timeout, answered, sends>>
        /\ stored[Current(q).span] = None
        /\ o # None /\ OwnerAgrees(q)
        /\ stored' = [stored EXCEPT ![Current(q).span] = SpanRow(q, FALSE)]
        /\ run' = [run EXCEPT ![o].count = @ + 1]
        /\ SpanDone(q, FALSE, Met(q))
    BY <1>0 DEF InsertAssigned
  <1>2. /\ req[q] \in RequestRows /\ PlaceInv(q)
    BY <1>1, Underway, UnderwayInv DEF RequestAt, IngestInv
  <1>3. o \in Runs /\ run[o] # None
    BY <1>0, <1>1, <1>2 DEF PlaceInv, RequestAt, RequestRows
  <1>4. run[o] \in RunRows /\ run[o].count \in Nat
    BY <1>3 DEF IngestInv, IngestTypeOK, RunRows
  <1>5. run[o].count < MaxSpans
    BY <1>0, <1>4, IngestAssumption DEF InsertAssigned, FullRun
  <1>6. /\ run' \in [Runs -> RunRows \cup {None}] /\ Grows
        /\ run'[o] # None /\ run'[o].count = run[o].count + 1
        /\ \A r \in Runs : r # o => run'[r] = run[r]
        /\ \A r \in Runs : run[r] = None <=> run'[r] = None
        /\ \A r \in Runs : run[r] # None => /\ run'[r].state = run[r].state
                                            /\ run'[r].session = run[r].session
    BY <1>1, <1>3, <1>5, CountGrows
  <1>7. /\ Current(q).span \in Spans
        /\ stored' \in [Spans -> SpanRows \cup {None}]
        /\ SpansKnown' /\ TraceHasOneOwner'
        /\ \A r \in Runs : EvidenceOf(r)' = IF r = o /\ ~FALSE
                                            THEN EvidenceOf(r) \cup {Current(q).span}
                                            ELSE EvidenceOf(r)
        /\ \A r \in Runs : Current(q).span \notin EvidenceOf(r)
    BY <1>0, <1>1, <1>6, SpanIsStored
  <1>8. OneLiveRun'
    BY <1>6 DEF IngestInv, RowsInv, OneLiveRun, Live
  <1>9. AnsweredKnown'
    BY <1>1, <1>6 DEF IngestInv, IngestTypeOK, RowsInv, AnsweredKnown, Closing
  <1>10. CountIsEvidence'
    <2>1. IsFiniteSet(EvidenceOf(o))
      BY IngestAssumption, FS_Subset DEF EvidenceOf, StoredSpans
    <2>2. Cardinality(EvidenceOf(o) \cup {Current(q).span}) = Cardinality(EvidenceOf(o)) + 1
      BY <1>3, <1>7, <2>1, FS_AddElement
    <2>3. run[o].count = Cardinality(EvidenceOf(o))
      BY <1>3 DEF IngestInv, RowsInv, CountIsEvidence
    <2>4. run'[o].count = Cardinality(EvidenceOf(o)') /\ run'[o].count <= MaxSpans
      <3>1. EvidenceOf(o)' = EvidenceOf(o) \cup {Current(q).span}
        BY <1>3, <1>7
      <3>2. run'[o].count <= MaxSpans
        BY <1>4, <1>5, <1>6, IngestAssumption
      <3> QED BY <1>6, <2>2, <2>3, <3>1, <3>2
    <2>5. \A r \in Runs : r # o /\ run[r] # None =>
              run'[r].count = Cardinality(EvidenceOf(r)') /\ run'[r].count <= MaxSpans
      BY <1>6, <1>7 DEF IngestInv, RowsInv, CountIsEvidence
    <2> QED BY <1>6, <2>4, <2>5 DEF CountIsEvidence
  <1>11. RowsInv'
    BY <1>7, <1>8, <1>9, <1>10 DEF RowsInv
  <1>12. /\ Met(q) \in Flags
         /\ DOMAIN Met(q) = DOMAIN req[q].seen \cup {o}
         /\ \A r \in DOMAIN Met(q) : run[r] # None
         /\ \A r \in DOMAIN req[q].seen : r \in DOMAIN Met(q) /\ (req[q].seen[r] => Met(q)[r])
         /\ Current(q).terminal => Met(q)[o]
    BY <1>0, <1>1, MetRemembers
  <1>13. \A r \in DOMAIN Met(q) : run'[r] # None
    BY <1>6, <1>12, FlagsOf
  <1>14. ~FALSE /\ Current(q).terminal /\ req[q].run # None =>
             req[q].run \in DOMAIN Met(q) /\ Met(q)[req[q].run]
    BY <1>0, <1>12
  <1> QED BY <1>1, <1>6, <1>7, <1>11, <1>12, <1>13, <1>14, SpanDoneKeeps

(* The state of a run changes: it does not open, and what is over stays so. *)
LEMMA StateKeeps ==
    ASSUME IngestInv, NEW r \in Runs, run[r] # None, NEW after \in RunStates,
           run[r].state \in {"cancelled", "failed"} => after \in {"cancelled", "failed"},
           Closing(r) => after \notin {"created", "collecting"},
           run' = [run EXCEPT ![r].state = after],
           UNCHANGED <<stored, answered>>
    PROVE  /\ run' \in [Runs -> RunRows \cup {None}] /\ Grows /\ RowsInv'
           /\ run'[r].state = after
  <1>1. run[r] \in RunRows
    BY DEF IngestInv, IngestTypeOK
  <1> DEFINE row == [run[r] EXCEPT !.state = after]
  <1>2. /\ row \in RunRows /\ row.count = run[r].count /\ row.state = after
        /\ row.session = run[r].session
    BY <1>1 DEF RunRows
  <1>3. row # None
    BY <1>2, IngestAssumption
  <1>4. run' = [run EXCEPT ![r] = row]
    OBVIOUS
  <1> HIDE DEF row
  <1>5. run'[r] = row /\ \A x \in Runs : x # r => run'[x] = run[x]
    BY <1>4 DEF IngestInv, IngestTypeOK
  <1>6. run' \in [Runs -> RunRows \cup {None}]
    BY <1>2, <1>4 DEF IngestInv, IngestTypeOK
  <1>7. Grows
    BY <1>2, <1>3, <1>5 DEF Grows, Closing
  <1>8. OneLiveRun'
    <2>1. \A x \in Runs : Live(x)' => Live(x) /\ run'[x].session = run[x].session
      BY <1>2, <1>5 DEF Live
    <2> QED BY <2>1 DEF IngestInv, RowsInv, OneLiveRun
  <1>9. SpansKnown'
    <2>1. \A s \in Spans : stored[s] # None => stored[s].owner \in Runs \cup {None}
      BY DEF IngestInv, IngestTypeOK, SpanRows
    <2> QED BY <1>7, <2>1 DEF IngestInv, RowsInv, SpansKnown, InSession, Grows
  <1>10. AnsweredKnown'
    BY <1>7 DEF IngestInv, RowsInv, IngestTypeOK, AnsweredKnown, Grows
  <1>11. TraceHasOneOwner'
    BY DEF IngestInv, RowsInv, TraceHasOneOwner, StoredSpans
  <1>12. CountIsEvidence'
    <2>1. \A x \in Runs : EvidenceOf(x)' = EvidenceOf(x)
      BY DEF EvidenceOf, StoredSpans
    <2>2. \A x \in Runs : run'[x] # None => run[x] # None /\ run'[x].count = run[x].count
      BY <1>2, <1>5
    <2> QED BY <2>1, <2>2 DEF IngestInv, RowsInv, CountIsEvidence
  <1> QED BY <1>2, <1>5, <1>6, <1>7, <1>8, <1>9, <1>10, <1>11, <1>12 DEF RowsInv

LEMMA ReconcileKeeps ==
    ASSUME IngestInv, NEW q \in Exporters, Reconcile(q)
    PROVE  IngestInv'
  <1>1. /\ req[q] \in RequestRows /\ req[q].pc = "span" /\ PlaceInv(q) /\ MemoryInv(q)
        /\ UNCHANGED <<env, timeout, stored, answered, sends>>
    BY Underway, UnderwayInv DEF Reconcile, RequestAt, IngestInv
  <1>2. PICK r \in DOMAIN req[q].seen :
            /\ run' = [run EXCEPT ![r].state = Reconciled(@, req[q].seen[r])]
            /\ req' = [req EXCEPT ![q].seen = [x \in DOMAIN @ \ {r} |-> @[x]]]
    BY DEF Reconcile
  <1>3. /\ req[q].seen \in Flags /\ DOMAIN req[q].seen \subseteq Runs
        /\ \A x \in DOMAIN req[q].seen : req[q].seen[x] \in BOOLEAN
        /\ DOMAIN req[q].authorized \subseteq Runs
    BY <1>1, FlagsOf DEF RequestRows
  <1>4. r \in Runs /\ run[r] # None /\ run[r] \in RunRows /\ run[r].state \in RunStates
    BY <1>1, <1>2, <1>3 DEF MemoryInv, IngestInv, IngestTypeOK, RunRows
  <1> DEFINE state == Reconciled(run[r].state, req[q].seen[r])
             rest == [x \in DOMAIN req[q].seen \ {r} |-> req[q].seen[x]]
  <1>5. /\ state \in RunStates
        /\ state \in {"cancelled", "failed"} <=> run[r].state \in {"cancelled", "failed"}
        /\ Closing(r) \/ req[q].seen[r] => state \notin {"created", "collecting"}
    BY <1>3, <1>4 DEF Reconciled, RunStates, Closing
  <1>6. rest \in Flags
    <2>1. rest \in [DOMAIN req[q].seen \ {r} -> BOOLEAN]
      BY <1>3
    <2> QED BY <1>3, <2>1, FlagsAre
  <1>7. /\ run' = [run EXCEPT ![r].state = state]
        /\ req' = [req EXCEPT ![q].seen = rest]
    BY <1>1, <1>2, <1>4 DEF IngestInv, IngestTypeOK
  <1>8. DOMAIN rest = DOMAIN req[q].seen \ {r} /\ \A x \in DOMAIN rest : rest[x] = req[q].seen[x]
    OBVIOUS
  <1> HIDE DEF rest
  <1>9. /\ Moves(q) /\ req'[q] \in RequestRows
        /\ req'[q].pc = "span" /\ req'[q].sent = req[q].sent /\ req'[q].run = req[q].run
        /\ req'[q].authorized = req[q].authorized /\ req'[q].counted = req[q].counted
        /\ req'[q].seen = rest
    BY <1>1, <1>6, <1>7 DEF Moves, IngestInv, IngestTypeOK, RequestRows
  <1>10. PICK after : after = state
    OBVIOUS
  <1> HIDE DEF state
  <1>11. /\ run' = [run EXCEPT ![r].state = after] /\ after \in RunStates
         /\ after \in {"cancelled", "failed"} <=> run[r].state \in {"cancelled", "failed"}
         /\ Closing(r) => after \notin {"created", "collecting"}
    BY <1>5, <1>7, <1>10
  <1>12. /\ run' \in [Runs -> RunRows \cup {None}] /\ Grows /\ RowsInv'
         /\ run'[r].state = after
    BY <1>1, <1>4, <1>11, StateKeeps
  <1>13. IngestTypeOK'
    BY <1>1, <1>9, <1>12 DEF IngestInv, IngestTypeOK, Moves, env
  <1>14. PlaceInv(q)'
    BY <1>1, <1>9 DEF PlaceInv
  <1>15. MemoryInv(q)'
    <2>1. req[q].counted \subseteq Runs
      BY <1>1 DEF RequestRows
    <2>2. \A x \in Runs : run[x] # None => run'[x] # None /\ (Closing(x) => Closing(x)')
      BY <1>12 DEF Grows
    <2>3. req[q].seen[r] => Closing(r)'
      BY <1>5, <1>10, <1>12 DEF Closing
    <2> QED BY <1>1, <1>3, <1>8, <1>9, <2>1, <2>2, <2>3 DEF MemoryInv
  <1> QED BY <1>9, <1>12, <1>13, <1>14, <1>15, TablesChange DEF RequestInv

LEMMA AnswerKeeps ==
    ASSUME IngestInv, NEW q \in Exporters, Answer(q)
    PROVE  IngestInv'
  <1>1. /\ req[q] \in RequestRows /\ MemoryInv(q)
        /\ DOMAIN req[q].seen = {} /\ answered' = answered \cup req[q].counted
        /\ req' = [req EXCEPT ![q] = IdleRequest]
        /\ UNCHANGED <<env, run, timeout, stored, sends>>
    BY Underway, UnderwayInv DEF Answer, RequestAt, IngestInv
  <1>2. \A r \in req[q].counted : r \in Runs /\ run[r] # None /\ Closing(r)
    BY <1>1 DEF MemoryInv, RequestRows
  <1>3. Moves(q) /\ req'[q] = IdleRequest
    BY <1>1 DEF Moves, IngestInv, IngestTypeOK
  <1>4. IngestTypeOK' /\ RequestInv(q)'
    BY <1>1, <1>2, <1>3 DEF IngestInv, IngestTypeOK, Moves, env, RequestInv
  <1>5. RowsInv' /\ Grows
    BY <1>1, <1>2 DEF IngestInv, RowsInv, OneLiveRun, Live, SpansKnown, InSession, AnsweredKnown,
       Closing, Grows, TraceHasOneOwner, StoredSpans, CountIsEvidence, EvidenceOf
  <1> QED BY <1>3, <1>4, <1>5, TablesChange

LEMMA StopsKeeps ==
    ASSUME IngestInv, NEW q \in Exporters, RequestStops(q)
    PROVE  IngestInv'
  BY Ends DEF RequestStops, RequestFails, IngestInv, IngestTypeOK

(* Nothing a request holds changes.                                         *)
LEMMA NoRequest ==
    ASSUME IngestInv, UNCHANGED req, Grows, IngestTypeOK', RowsInv'
    PROVE  IngestInv'
  BY OthersStay DEF IngestInv

LEMMA MoveRunKeeps ==
    ASSUME IngestInv, NEW r \in Runs, MoveRun(r)
    PROVE  IngestInv'
  <1>1. PICK t \in {"settling", "finalizing", "cancelled"} :
            /\ Lifecycle!Allowed(run[r].state, t)
            /\ run' = [run EXCEPT ![r].state = t]
    BY DEF MoveRun
  <1>2. run[r] # None /\ UNCHANGED <<env, timeout, stored, req, answered, sends>>
    BY DEF MoveRun
  <1>3. run[r].state \notin {"cancelled", "failed"}
    BY <1>1 DEF Lifecycle!Allowed, Lifecycle!IsTerminal
  <1>4. /\ run' \in [Runs -> RunRows \cup {None}] /\ Grows /\ RowsInv'
    BY <1>1, <1>2, <1>3, StateKeeps DEF RunStates
  <1>5. IngestTypeOK'
    BY <1>2, <1>4 DEF IngestInv, IngestTypeOK, env
  <1> QED BY <1>2, <1>4, <1>5, NoRequest

LEMMA EnvironmentKeeps ==
    ASSUME IngestInv, UNCHANGED <<run, timeout, stored, req, answered, sends>>,
           config' \in Configs, approved' \in BOOLEAN, changes' \in 0..MaxChanges
    PROVE  IngestInv'
  <1>1. IngestTypeOK'
    BY DEF IngestInv, IngestTypeOK
  <1>2. RowsInv' /\ Grows
    BY RowsStay DEF IngestInv
  <1> QED BY <1>1, <1>2, NoRequest

-----------------------------------------------------------------------------
(* The invariant. *)

LEMMA IngestInit == SpansInit => IngestInv
  <1> SUFFICES ASSUME SpansInit PROVE IngestInv
    OBVIOUS
  <1>1. IngestTypeOK
    BY IngestAssumption DEF SpansInit, IngestTypeOK
  <1>2. RowsInv
    BY DEF SpansInit, RowsInv, OneLiveRun, Live, SpansKnown, AnsweredKnown, TraceHasOneOwner,
           StoredSpans, CountIsEvidence
  <1>3. \A q \in Exporters : RequestInv(q)
    BY DEF SpansInit, RequestInv
  <1> QED BY <1>1, <1>2, <1>3 DEF IngestInv

LEMMA IngestStep == IngestInv /\ [SpansNext]_spansVars => IngestInv'
  <1> SUFFICES ASSUME IngestInv, [SpansNext]_spansVars PROVE IngestInv'
    OBVIOUS
  <1>1. ASSUME NEW q \in Exporters, NEW b \in Sent, Send(q, b) PROVE IngestInv'
    BY <1>1, SendKeeps
  <1>2. ASSUME NEW q \in Exporters, NEW e \in Sessions \cup {None}, CallCreate(q, e)
        PROVE  IngestInv'
    BY <1>2, CallKeeps
  <1>3. ASSUME NEW q \in Exporters, SpansStep(q) PROVE IngestInv'
    <2>1. CASE SkipSpan(q) \/ NextSpan(q) \/ Resolve(q)
      BY <2>1, SkipKeeps, NextSpanKeeps, ResolveKeeps
    <2>2. CASE ReadPack(q) \/ PackRefused(q)
      BY <2>2, PackKeeps
    <2>3. CASE CreateRun(q) \/ CreateRefused(q) \/ Winner(q) \/ EnqueueTimeout(q)
      BY <2>3, CreateRunKeeps, CreateRefusedKeeps, WinnerKeeps, EnqueueTimeoutKeeps
    <2>4. CASE AuthorizeSpan(q)
      BY <2>4, AuthorizeKeeps
    <2>5. CASE InsertKnown(q) \/ InsertRefused(q)
      BY <2>5, InsertKnownKeeps
    <2>6. CASE InsertUnassigned(q) \/ InsertLate(q) \/ InsertAssigned(q)
      BY <2>6, InsertOutsideKeeps, InsertAssignedKeeps
    <2>7. CASE Reconcile(q) \/ Answer(q) \/ RequestStops(q)
      BY <2>7, ReconcileKeeps, AnswerKeeps, StopsKeeps
    <2> QED BY <1>3, <2>1, <2>2, <2>3, <2>4, <2>5, <2>6, <2>7 DEF SpansStep
  <1>4. ASSUME NEW r \in Runs, MoveRun(r) PROVE IngestInv'
    BY <1>4, MoveRunKeeps
  <1>5. ASSUME NEW c \in Configs, ChangeBoundary(c) PROVE IngestInv'
    BY <1>5, EnvironmentKeeps, IngestAssumption DEF ChangeBoundary, IngestInv, IngestTypeOK
  <1>6. CASE SwitchPack
    BY <1>6, EnvironmentKeeps, IngestAssumption DEF SwitchPack, IngestInv, IngestTypeOK
  <1>7. CASE UNCHANGED spansVars
    BY <1>7, EnvironmentKeeps DEF spansVars, IngestInv, IngestTypeOK
  <1> QED BY <1>1, <1>2, <1>3, <1>4, <1>5, <1>6, <1>7 DEF SpansNext

LEMMA IngestInvHolds == SpansSpec => []IngestInv
  BY IngestInit, IngestStep, PTL DEF SpansSpec

-----------------------------------------------------------------------------
(* What follows for the rows of spans and runs. *)

(* The rows of runs, spans and requests have their types.                   *)
THEOREM IngestTypes == SpansSpec => []IngestTypeOK
  <1>1. IngestInv => IngestTypeOK
    BY DEF IngestInv
  <1> QED BY <1>1, IngestInvHolds, PTL

(* All correlated spans of a trace belong to one run.  insert_span asks for *)
(* the owner of the trace in the transaction that stores the span.          *)
THEOREM TracesHaveOneOwner == SpansSpec => []TraceHasOneOwner
  <1>1. IngestInv => TraceHasOneOwner
    BY DEF IngestInv, RowsInv
  <1> QED BY <1>1, IngestInvHolds, PTL

(* The spans that name a session and no run are in one run of it, cancelled *)
(* runs aside: each was put into a run of its session (InSession), and the  *)
(* index allows one of these to be live (OneLiveRun).                       *)
THEOREM SessionsAreOneRun == SpansSpec => []SessionIsOneRun
  <1>1. IngestInv => SessionIsOneRun
    <2> SUFFICES ASSUME IngestInv,
                        NEW s \in StoredSpans, NEW t \in StoredSpans,
                        stored[s].owner # None, stored[t].owner # None,
                        stored[s].content.run = None, stored[t].content.run = None,
                        stored[s].content.session = stored[t].content.session,
                        run[stored[s].owner].state # "cancelled",
                        run[stored[t].owner].state # "cancelled"
                 PROVE  stored[s].owner = stored[t].owner
      BY DEF SessionIsOneRun
    <2>1. \A x \in {s, t} : stored[x].owner \in Runs /\ run[stored[x].owner] # None
      BY DEF StoredSpans, IngestInv, RowsInv, SpansKnown, IngestTypeOK, SpanRows
    <2>2. \A x \in {s, t} : /\ run[stored[x].owner].session = stored[x].content.session
                            /\ stored[x].content.session # None
      BY DEF StoredSpans, IngestInv, RowsInv, SpansKnown, InSession
    <2>3. \A x \in {s, t} : Live(stored[x].owner)
      BY <2>1 DEF Live, IngestInv, IngestTypeOK, RunRows, RunStates
    <2> QED BY <2>1, <2>2, <2>3 DEF IngestInv, RowsInv, OneLiveRun
  <1> QED BY <1>1, IngestInvHolds, PTL

(* span_count is the number of spans the evidence of the run lists and is   *)
(* never above max_spans_per_run, also for requests that were authorized    *)
(* before the run was full.                                                 *)
THEOREM CountsAreEvidence == SpansSpec => []CountIsEvidence
  <1>1. IngestInv => CountIsEvidence
    BY DEF IngestInv, RowsInv
  <1> QED BY <1>1, IngestInvHolds, PTL

(* An answered terminal span has closed its run: what the request counted   *)
(* is closing or in its list of runs to reconcile, and it answers when the  *)
(* list is empty.                                                           *)
THEOREM AnsweredIsClosing == SpansSpec => []AnsweredMeansClosing
  <1>1. IngestInv => AnsweredMeansClosing
    BY DEF IngestInv, RowsInv, AnsweredKnown, Closing, AnsweredMeansClosing
  <1> QED BY <1>1, IngestInvHolds, PTL

----------------------------------------------------------------------------
(****************************************************************************)
(* One key identifies an agent, for any number of keys, versions and        *)
(* requests of the console.  OneActiveKey is not inductive: what keeps a    *)
(* second key away is that a rotation which is about to commit holds the    *)
(* lock and has revoked every key that is still active, although others     *)
(* revoked keys in between.                                                 *)
(****************************************************************************)

Rotating(r) == console[r].step \in {"revoke", "commit"}

(* Only the holder of the lock is inside a rotation. *)
HolderRotates == \A r \in Consoles : Rotating(r) => holder = r

(* No key becomes active while a rotation has revoked the active ones. *)
RevokedAllActive == \A r \in Consoles : ConsoleAt(r, "commit") => ActiveKeys \subseteq console[r].revoked

KeysInv ==
    /\ DOMAIN console = Consoles
    /\ HolderRotates
    /\ RevokedAllActive
    /\ OneActiveKey

LEMMA InitKeys == RegistryInit => KeysInv
  BY DEF RegistryInit, KeysInv, HolderRotates, RevokedAllActive, OneActiveKey,
         Rotating, ConsoleAt, Resolves, ActiveKeys

(* A request that leaves keys and lock alone and goes on outside a rotation. *)
LEMMA StandsOutside ==
    ASSUME KeysInv, NEW r \in Consoles, NEW place,
           Stand(r, place), place.step \notin {"revoke", "commit"},
           UNCHANGED <<key, holder>>
    PROVE  KeysInv'
  BY DEF Stand, KeysInv, HolderRotates, RevokedAllActive, OneActiveKey,
         Rotating, ConsoleAt, Resolves, ActiveKeys

(* The same request, when it ends and frees the lock or revokes keys. *)
LEMMA EndsWithFewerKeys ==
    ASSUME KeysInv, NEW r \in Consoles, Done(r),
           ActiveKeys' \subseteq ActiveKeys,
           holder' = holder \/ holder = r
    PROVE  KeysInv'
  <1>1. DOMAIN console' = Consoles
    BY DEF Done, Stand, KeysInv
  <1>2. \A q \in Consoles : Rotating(q)' => q # r /\ Rotating(q) /\ console'[q] = console[q]
    BY DEF Done, Stand, KeysInv, Rotating
  <1>3. HolderRotates'
    BY <1>2 DEF KeysInv, HolderRotates
  <1>4. RevokedAllActive'
    BY <1>2 DEF KeysInv, RevokedAllActive, ConsoleAt, Rotating
  <1>5. OneActiveKey'
    BY DEF KeysInv, OneActiveKey, Resolves
  <1> QED BY <1>1, <1>3, <1>4, <1>5 DEF KeysInv

LEMMA BeginKeepsKeys ==
    ASSUME KeysInv, NEW r \in Consoles, NEW k \in Keys,
           BeginRotation(r, k)
    PROVE  KeysInv'
  <1>1. \A q \in Consoles : ~Rotating(q)
    BY RegistryAssumption DEF BeginRotation, LockFree, KeysInv, HolderRotates
  <1>2. \A q \in Consoles : Rotating(q)' => q = r /\ console'[q].step = "revoke"
    BY <1>1 DEF BeginRotation, Stand, KeysInv, Rotating
  <1> QED
    BY <1>2 DEF BeginRotation, Stand, KeysInv, HolderRotates, RevokedAllActive,
                OneActiveKey, Rotating, ConsoleAt, Resolves, ActiveKeys

LEMMA RevokeKeepsKeys ==
    ASSUME KeysInv, NEW r \in Consoles, RevokeActive(r)
    PROVE  KeysInv'
  <1>1. holder = r /\ holder' = r /\ ActiveKeys' = ActiveKeys
    BY DEF RevokeActive, KeysInv, HolderRotates, Rotating, ConsoleAt, ActiveKeys
  <1>2. \A q \in Consoles \ {r} : console'[q] = console[q]
    BY DEF RevokeActive, Stand, KeysInv
  <1>3. console'[r] = [key |-> console[r].key, revoked |-> ActiveKeys, step |-> "commit"]
    BY DEF RevokeActive, Stand, KeysInv
  <1>4. HolderRotates'
    BY <1>1, <1>2 DEF KeysInv, HolderRotates, Rotating
  <1>5. RevokedAllActive'
    BY <1>1, <1>2, <1>3 DEF KeysInv, RevokedAllActive, ConsoleAt
  <1> QED
    BY <1>1, <1>4, <1>5 DEF RevokeActive, Stand, KeysInv, OneActiveKey, Resolves

LEMMA CommitKeepsKeys ==
    ASSUME KeysInv, NEW r \in Consoles, CommitRotation(r)
    PROVE  KeysInv'
  <1>1. ActiveKeys \subseteq console[r].revoked /\ holder = r
    BY DEF CommitRotation, KeysInv, RevokedAllActive, HolderRotates, Rotating, ConsoleAt
  <1>2. ActiveKeys' \subseteq {console[r].key}
    BY <1>1 DEF CommitRotation, ActiveKeys
  <1>3. \A q \in Consoles : ~Rotating(q)'
    BY <1>1 DEF CommitRotation, Done, Stand, KeysInv, HolderRotates, Rotating
  <1> QED
    BY <1>2, <1>3 DEF CommitRotation, Done, Stand, KeysInv, HolderRotates,
                      RevokedAllActive, OneActiveKey, Rotating, ConsoleAt, Resolves

LEMMA NextKeys ==
    ASSUME KeysInv, [RegistryNext]_registryVars
    PROVE  KeysInv'
  <1>1. CASE UNCHANGED registryVars
    BY <1>1 DEF registryVars, KeysInv, HolderRotates, RevokedAllActive, OneActiveKey,
                Rotating, ConsoleAt, Resolves, ActiveKeys
  <1>2. ASSUME NEW r \in Consoles, NEW v \in Versions, NEW b \in Boundaries,
               CreateTarget(r, v, b)
        PROVE  KeysInv'
    BY <1>2, EndsWithFewerKeys DEF CreateTarget, ActiveKeys
  <1>3. ASSUME NEW r \in Consoles, NEW v \in Versions, NEW b \in Boundaries,
               Configure(r, v, b)
        PROVE  KeysInv'
    BY <1>3, StandsOutside DEF Configure
  <1>4. ASSUME NEW r \in Consoles, NEW v \in Versions, NEW reachable \in BOOLEAN,
               Recheck(r, v, reachable)
        PROVE  KeysInv'
    BY <1>4, StandsOutside DEF Recheck
  <1>5. ASSUME NEW r \in Consoles, WriteColumn(r) \/ Refused(r)
        PROVE  KeysInv'
    BY <1>5, EndsWithFewerKeys DEF WriteColumn, Refused, ActiveKeys
  <1>6. ASSUME NEW r \in Consoles, FindActive(r)
        PROVE  KeysInv'
    BY <1>6, StandsOutside DEF FindActive
  <1>7. ASSUME NEW r \in Consoles, RevokeFound(r)
        PROVE  KeysInv'
    <2>1. ActiveKeys' \subseteq ActiveKeys
      BY <1>7 DEF RevokeFound, ActiveKeys
    <2> QED BY <1>7, <2>1, EndsWithFewerKeys DEF RevokeFound
  <1>8. ASSUME NEW r \in Consoles, RollBack(r)
        PROVE  KeysInv'
    <2>1. holder = r
      BY <1>8 DEF RollBack, KeysInv, HolderRotates, Rotating
    <2> QED BY <1>8, <2>1, EndsWithFewerKeys DEF RollBack, ActiveKeys
  <1> QED
    BY <1>1, <1>2, <1>3, <1>4, <1>5, <1>6, <1>7, <1>8,
       BeginKeepsKeys, RevokeKeepsKeys, CommitKeepsKeys DEF RegistryNext

(* At most one key identifies an agent, whatever rotations and revocations  *)
(* interleave, fail or roll back (rotate_key under its advisory lock).      *)
THEOREM OneKeyIdentifies == RegistrySpec => []OneActiveKey
  <1>1. KeysInv => OneActiveKey
    BY DEF KeysInv
  <1> QED
    BY <1>1, InitKeys, NextKeys, PTL DEF RegistrySpec
==============================================================================
