----------------------------- MODULE RunLifecycle -----------------------------
(****************************************************************************)
(* The domain rules of an evaluation run (governance-domain,                *)
(* evaluation_run.rs): its states, the transitions it may make and what     *)
(* starting the settle window does to it.  A run is the part of the         *)
(* eval_runs row that update_run writes and that the rules look at:         *)
(*   state       the lifecycle state                                        *)
(*   completion  completion_reason with terminal_state, or NoCompletion     *)
(*   settleUntil the end of the settle window; 0 stands for none, which     *)
(*               the code treats like a window that has passed              *)
(*   lastSeen    the latest span; 0 stands for none, replaced in the code   *)
(*               by the creation time                                       *)
(*   spanCount   the number of spans counted in                             *)
(*   verdict     the verdict column                                         *)
(*   updatedAt   the time stamp of the last write; only ever compared for   *)
(*               equality, so a stamp names the write instead of its time   *)
(****************************************************************************)
EXTENDS Naturals

CONSTANTS
    HardDeadline,   \* hard_deadline_at of the run
    NoCompletion    \* completion_reason is NULL

RunStates == {"created", "collecting", "settling", "finalizing", "evaluating",
              "completed", "cancelled", "failed"}

IsTerminal(s) == s \in {"completed", "cancelled", "failed"}

(* Faulty variant of AcceptsSpans: a run being finalized still accepts. *)
AcceptsWhileFinalizing(s) == s \in {"created", "collecting", "settling", "finalizing"}

AcceptsSpans(s) == s \in {"created", "collecting", "settling"}

(* The transitions transition_to allows besides staying put. *)
Allowed(s, t) ==
    \/ s = "created" /\ t \in {"collecting", "settling"}
    \/ s = "collecting" /\ t = "settling"
    \/ s = "settling" /\ t = "finalizing"
    \/ s = "finalizing" /\ t = "evaluating"
    \/ s = "evaluating" /\ t = "completed"
    \/ ~IsTerminal(s) /\ t \in {"cancelled", "failed"}

CanEnter(s, t) == s = t \/ Allowed(s, t)

TransitionTo(r, t, stamp) ==
    IF r.state = t THEN r ELSE [r EXCEPT !.state = t, !.updatedAt = stamp]

(* A second completion signal must repeat the first one. *)
CanBeginSettling(r, c) ==
    IF r.completion = NoCompletion THEN CanEnter(r.state, "settling")
                                   ELSE r.completion = c

SettleEnd(until) == IF until <= HardDeadline THEN until ELSE HardDeadline

BeginSettling(r, c, until, stamp) ==
    IF r.completion = NoCompletion
    THEN [TransitionTo(r, "settling", stamp) EXCEPT
              !.completion = c, !.settleUntil = SettleEnd(until)]
    ELSE IF r.state = "settling"
         THEN [r EXCEPT !.settleUntil = SettleEnd(until), !.updatedAt = stamp]
         ELSE r
================================================================================
