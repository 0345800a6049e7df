-------------------------- MODULE CoordinatorWatch --------------------------
(***************************************************************************)
(* One watch of tools/coordinator_watch.py over its life: observations of  *)
(* the packet arrive, each is evaluated against the durable state, and the *)
(* state to persist replaces it.  A collector may be slow, so observations *)
(* arrive in any order and may repeat.  A typed result may fail to be      *)
(* delivered; its caller then keeps the state it had.                      *)
(***************************************************************************)
EXTENDS WatchEvaluator

CONSTANTS
  WatchClass,             \* the watch's class, one of WATCH_CLASSES
  Revision, Subject, Data,
  Plan,                   \* decisions of the planner considered
  Budget,                 \* retry budgets the facts may state
  MaxTime, MaxFailures    \* bounds of the model, not of the code

ASSUME WatchAssumption ==
  /\ Revision \subseteq Nat \ {0} /\ Budget \subseteq Nat
  /\ Plan \subseteq Wakes \cup Quiet \cup {"RETRY", "BLOCK_HUMAN", "RESUME_WORKER", "NOOP_COMPLETE"}
  /\ MaxTime \in Nat \ {0} /\ MaxFailures \in Nat

VARIABLES
  state,    \* the durable watch state
  now,      \* time
  streak    \* transient observations accepted since the last other one

vars == <<state, now, streak>>

Observation ==
  {o \in [class : {WatchClass}, revision : Revision, subject : Subject, bound : {0} \cup Revision,
          plan : Plan, data : Data, at : 1 .. MaxTime, complete : BOOLEAN, ambiguous : BOOLEAN,
          transient : BOOLEAN, resumable : BOOLEAN, retries : {0}, budget : Budget] :
     Consistent(o)}

(* The observation reached _map_decision with the planner's decision.      *)
Heard(o, s) == ~s.closed /\ ~IsStale(o, s) /\ ~IsOlder(o, s) /\ ~o.ambiguous

Observe(o, kept) ==
  LET r == Evaluate(o, state) IN
  /\ o.at <= now
  /\ o.transient => state.failures < MaxFailures
  /\ kept \/ r.result \in Typed
  /\ state' = IF kept THEN r.state ELSE state
  /\ streak' = IF ~kept \/ state.closed \/ IsStale(o, state) \/ IsOlder(o, state) THEN streak
               ELSE IF o.transient THEN streak + 1 ELSE 0
  /\ UNCHANGED now

Tick ==
  /\ now < MaxTime
  /\ now' = now + 1
  /\ UNCHANGED <<state, streak>>

Init ==
  /\ state = Fresh
  /\ now = 1
  /\ streak = 0

Next == (\E o \in Observation, kept \in BOOLEAN : Observe(o, kept)) \/ Tick

Spec == Init /\ [][Next]_vars

-----------------------------------------------------------------------------
(* Properties.  Those that speak of what is returned hold of every         *)
(* observation that may arrive in the state the watch has reached.         *)

Arriving == {o \in Observation : o.at <= now}

(* A closed watch is final: no observation, however late or new, changes   *)
(* what is persisted for it.                                               *)
ClosedIsFinal == [][state.closed => state' = state]_vars

(* While the watch is open, the latest accepted observation never moves    *)
(* back in time, whatever order observations arrive in.                    *)
NeverRollsBack == [][~state'.closed => state'.observed >= state.observed]_vars

(* A wake or an owner notice is not returned again while the state still   *)
(* carries its key.                                                        *)
ToldOnce ==
  \A o \in Arriving :
    Evaluate(o, state).result \in {"WAKE_COORDINATOR", "NOTIFY_OWNER"}
      => Evaluate(o, state).key # state.key

(* An action is suppressed as already told only if the state carries the   *)
(* key of that very action: a resume withheld for lack of admission, or    *)
(* another decision in between, never counts as told.                      *)
Action(decision) ==
  IF decision = "BLOCK_HUMAN" THEN "NOTIFY_OWNER"
  ELSE IF decision = "RESUME_WORKER" THEN "RESUME_ADMITTED_WORKER" ELSE "WAKE_COORDINATOR"

SuppressedWasTold ==
  \A o \in Arriving :
    LET r == Evaluate(o, state) IN
    Heard(o, state) /\ r.result = "NO_CHANGE"
      => state.key = Key(Identity(o), Action(r.decision), r.decision)

(* A recheck is scheduled between BASE_RECHECK and MAX_RECHECK after the   *)
(* observation, however many rechecks and suppressed actions came before.  *)
RecheckBounded ==
  state.next # 0 => state.next - state.observed \in BASE_RECHECK .. MAX_RECHECK

(* Once as many transient failures in a row have been persisted as the     *)
(* budget allows, one more goes to the owner, even if the process that     *)
(* reports it counts from zero again.                                      *)
TransientEscalates ==
  \A o \in Arriving :
    Heard(o, state) /\ o.plan = "RETRY" /\ streak >= o.budget
      => Evaluate(o, state).decision = "BLOCK_HUMAN"

(* tools/coordinator_watch.py:780: an observation older than the latest    *)
(* accepted one does not change the durable watch state.                   *)
OlderChangesNothing ==
  \A o \in Arriving : IsOlder(o, state) => Evaluate(o, state).state = state
=============================================================================
