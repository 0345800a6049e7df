--------------------------- MODULE WatchEvaluator ---------------------------
(***************************************************************************)
(* tools/coordinator_watch.py: what one evaluation of a watch returns.     *)
(*                                                                         *)
(* Evaluate(o, s) is evaluate(facts, watch_state) for an observation o of  *)
(* a packet and the durable state s of one watch.  An observation carries  *)
(* the planner's decision (tools/coordinator.py) in place of the facts the *)
(* planner reads, and the other facts the evaluator reads itself.  The     *)
(* decision "RETRY" stands for the planner's transient-failure branch,     *)
(* whose outcome depends on the retry count the evaluator binds into it.   *)
(*                                                                         *)
(* Times are natural numbers, 0 for a time that is absent.                 *)
(***************************************************************************)
EXTENDS Integers

CONSTANTS BASE_RECHECK, MAX_RECHECK   \* seconds, in the model's time unit

ASSUME RecheckAssumption ==
  /\ BASE_RECHECK \in Nat \ {0}
  /\ MAX_RECHECK \in Nat
  /\ BASE_RECHECK <= MAX_RECHECK

Wakes    == {"ADMIT_IMPLEMENTATION", "AUDIT_DIRTY_TREE", "AUTHORIZE_PUBLICATION", "AUDIT_REVIEW",
             "MERGE_READY", "REPLAN_SEMANTIC_FAILURE", "STALE_WORKER"}
Waits    == {"WAIT_EXTERNAL", "WAIT_EXACT_HEAD_CI"}
Quiet    == Waits \cup {"YIELD_RESOURCE", "NOOP_PAUSED"}
Typed    == {"WAKE_COORDINATOR", "RESUME_ADMITTED_WORKER", "NOTIFY_OWNER"}
Results  == Typed \cup {"NO_CHANGE", "RECHECK_LATER", "CLOSE_WATCH", "BLOCK_RECONCILIATION"}

(* What the planner's order guarantees of an observation: COMPLETE packets *)
(* and no others are NOOP_COMPLETE, a transient failure comes before the   *)
(* branches below it, and only an admitted worker is resumable.            *)
UnderTransient == {"NOOP_COMPLETE", "NOOP_PAUSED", "BLOCK_HUMAN", "STALE_WORKER",
                   "REPLAN_SEMANTIC_FAILURE", "YIELD_RESOURCE", "RETRY"}

Consistent(o) ==
  /\ o.complete <=> o.plan = "NOOP_COMPLETE"
  /\ o.plan = "RETRY" => o.transient
  /\ o.transient /\ ~o.ambiguous => o.plan \in UnderTransient
  /\ o.resumable => o.plan = "RESUME_WORKER"

Max2(a, b) == IF a >= b THEN a ELSE b
Min2(a, b) == IF a <= b THEN a ELSE b

NoKey     == <<>>
NoDigest  == <<>>
NoSubject == <<>>

(* What _parse_state makes of a missing file.                              *)
Fresh == [subject |-> NoSubject, digest |-> NoDigest, decision |-> "", key |-> NoKey,
          transition |-> 0, observed |-> 0, failures |-> 0, next |-> 0, closed |-> FALSE]

(* The identity of an observation: intent revision and subject version.    *)
Identity(o) == <<o.revision, o.subject>>

Key(identity, result, decision) == <<identity, result, decision>>

(* The digest covers the decision and what is observed, admission and      *)
(* resource included; it does not cover the failure class or the time.     *)
DigestOfData(o, decision) == <<decision, o.revision, o.data>>   \* faulty: admission left out
Digest(o, decision) == <<decision, o.revision, o.data, o.resumable>>

(* _bind_transient_retry: the persisted counter wins over a smaller one in *)
(* the facts.                                                              *)
CallerRetries(o, s) == o.retries   \* faulty: the persisted counter is ignored
BoundRetries(o, s) == Max2(s.failures, o.retries)

Planned(o, s) ==
  IF o.ambiguous THEN "RECONCILE_AMBIGUOUS"
  ELSE IF o.plan # "RETRY" THEN o.plan
  ELSE IF BoundRetries(o, s) < o.budget THEN "WAIT_EXTERNAL" ELSE "BLOCK_HUMAN"

-----------------------------------------------------------------------------
(* Backoff.                                                                *)

UncappedBackoff(s, unchanged) ==   \* faulty: doubles for ever
  IF ~unchanged \/ s.next = 0 \/ s.next <= s.transition THEN BASE_RECHECK
  ELSE 2 * (s.next - s.transition)

Backoff(s, unchanged) ==
  IF ~unchanged \/ s.next = 0 \/ s.transition = 0 \/ s.next <= s.transition
  THEN BASE_RECHECK
  ELSE Min2(2 * (s.next - s.transition), MAX_RECHECK)

-----------------------------------------------------------------------------
(* Emitting a result with the watch state to persist for it.               *)

(* No transition time is kept for a result other than NO_CHANGE.           *)
Emit(o, s, result, decision, closed, next, unchanged) ==
  LET key == IF result = "NO_CHANGE" /\ s.key # NoKey
             THEN s.key ELSE Key(Identity(o), result, decision)
  IN  [result |-> result, decision |-> decision, key |-> key,
       state  |-> [subject    |-> Identity(o),
                   digest     |-> Digest(o, decision),
                   decision   |-> decision,
                   key        |-> key,
                   transition |-> IF result = "NO_CHANGE" /\ unchanged /\ s.transition # 0
                                  THEN s.transition ELSE o.at,
                   observed   |-> o.at,
                   failures   |-> IF o.transient THEN s.failures + 1 ELSE 0,
                   next       |-> next,
                   closed     |-> closed]]

Now(o, s, result, decision) == Emit(o, s, result, decision, FALSE, 0, FALSE)

Later(o, s, result, decision, unchanged) ==
  Emit(o, s, result, decision, FALSE, o.at + Backoff(s, unchanged), unchanged)

(* preserve_durable: the durable state is reported and written back.       *)
Preserve(s, result) ==
  [result |-> result, decision |-> s.decision, key |-> s.key, state |-> s]

(* _close_stale: the watch keeps the identity it was opened for.           *)
CloseStale(o, s) ==
  LET identity == IF s.subject # NoSubject THEN s.subject
                  ELSE <<IF o.bound # 0 THEN o.bound ELSE o.revision, o.subject>>
      key      == Key(<<o.revision, identity[2]>>, "CLOSE_WATCH", "STALE_WATCH")
  IN  [result |-> "CLOSE_WATCH", decision |-> "STALE_WATCH", key |-> key,
       state  |-> [subject |-> identity, digest |-> <<"STALE">>, decision |-> "STALE_WATCH",
                   key |-> key, transition |-> o.at, observed |-> o.at,
                   failures |-> IF o.transient THEN s.failures + 1 ELSE 0,
                   next |-> 0, closed |-> TRUE]]

-----------------------------------------------------------------------------
(* _map_decision.                                                          *)

NotifyOwner(o, s) ==
  IF s.key = Key(Identity(o), "NOTIFY_OWNER", "BLOCK_HUMAN")
  THEN Later(o, s, "NO_CHANGE", "BLOCK_HUMAN", TRUE)
  ELSE Now(o, s, "NOTIFY_OWNER", "BLOCK_HUMAN")

ResumeWorker(o, s) ==
  LET unchanged == s.digest = Digest(o, "RESUME_WORKER") IN
  IF o.class # "worker_progress_or_yield"
  THEN [Now(o, s, "BLOCK_RECONCILIATION", "OUT_OF_SCOPE")
          EXCEPT !.state.digest = Digest(o, "RESUME_WORKER")]
  ELSE IF ~o.resumable THEN Later(o, s, "RECHECK_LATER", "RESUME_WORKER", unchanged)
  ELSE IF s.decision = "RESUME_WORKER" /\ unchanged
  THEN Later(o, s, "NO_CHANGE", "RESUME_WORKER", TRUE)
  ELSE Later(o, s, "RESUME_ADMITTED_WORKER", "RESUME_WORKER", FALSE)

WakeAgain(o, s, name) ==   \* faulty: no comparison with the last decision
  Later(o, s, "WAKE_COORDINATOR", name, FALSE)

Wake(o, s, name) ==
  IF s.decision = name
  THEN Later(o, s, "NO_CHANGE", name, TRUE)
  ELSE Later(o, s, "WAKE_COORDINATOR", name, FALSE)

MapDecision(o, s) ==
  LET name == Planned(o, s) IN
  IF name = "NOOP_COMPLETE" \/ o.complete THEN Emit(o, s, "CLOSE_WATCH", name, TRUE, 0, FALSE)
  ELSE IF name = "RECONCILE_AMBIGUOUS"    THEN Now(o, s, "BLOCK_RECONCILIATION", name)
  ELSE IF name = "BLOCK_HUMAN"            THEN NotifyOwner(o, s)
  ELSE IF name = "RESUME_WORKER"          THEN ResumeWorker(o, s)
  ELSE IF name \in Quiet
  THEN Later(o, s, "RECHECK_LATER", name, s.digest = Digest(o, name))
  ELSE Wake(o, s, name)

-----------------------------------------------------------------------------
(* evaluate.                                                               *)

IsStale(o, s) ==
  \/ s.subject # NoSubject /\ s.subject # Identity(o)
  \/ o.bound # 0 /\ o.bound # o.revision

AlwaysCurrent(o, s) == FALSE   \* faulty: delayed observations are taken as current
IsOlder(o, s) == s.observed # 0 /\ o.at < s.observed

EvaluateReopening(o, s) ==   \* faulty: a closed watch is evaluated like an open one
  IF IsStale(o, s)      THEN CloseStale(o, s)
  ELSE IF IsOlder(o, s) THEN Preserve(s, "NO_CHANGE")
  ELSE MapDecision(o, s)

Evaluate(o, s) ==
  IF s.closed           THEN Preserve(s, "CLOSE_WATCH")
  ELSE IF IsStale(o, s) THEN CloseStale(o, s)
  ELSE IF IsOlder(o, s) THEN Preserve(s, "NO_CHANGE")
  ELSE MapDecision(o, s)
=============================================================================
