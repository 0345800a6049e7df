------------------------ MODULE CoordinatorWatchProofs ------------------------
(***************************************************************************)
(* One watch, for any observations in any order: what its durable state    *)
(* promises about the past, and what follows for the next evaluation.      *)
(***************************************************************************)
EXTENDS CoordinatorWatch, TLAPS

(* A recheck lies within its bounds after the observation, which is not    *)
(* before the last transition: the distance backoff doubles is bounded.    *)
Timed(s) ==
  /\ s.transition \in Nat /\ s.observed \in Nat /\ s.next \in Nat /\ s.failures \in Nat
  /\ s.closed \in BOOLEAN
  /\ s.transition <= s.observed
  /\ s.next # 0 => s.next - s.observed \in BASE_RECHECK .. MAX_RECHECK

(* The key of an open watch names its subject and its decision, and the    *)
(* action that was taken if the decision asks for one.                     *)
Withheld(s) == \A o \in Observation : o.resumable => s.digest # Digest(o, "RESUME_WORKER")

NamedBy(s, result) ==
  /\ s.key = Key(s.subject, result, s.decision)
  /\ s.subject # NoSubject
  /\ s.decision \in Wakes => result = "WAKE_COORDINATOR"
  /\ s.decision = "RESUME_WORKER" => result = "RESUME_ADMITTED_WORKER" \/ Withheld(s)

Named(s) == s = Fresh \/ s.closed \/ \E result \in Results : NamedBy(s, result)

(* Transient failures in a row are persisted, while the watch is open.     *)
Counted == ~state.closed => streak <= state.failures

WatchInv ==
  /\ Timed(state) /\ Named(state) /\ Counted
  /\ now \in Nat /\ streak \in Nat

-----------------------------------------------------------------------------
LEMMA ObservationType ==
  ASSUME NEW o \in Observation
  PROVE  /\ o.at \in Nat \ {0} /\ o.plan \in Plan /\ Consistent(o) /\ o.retries = 0
         /\ o.transient \in BOOLEAN /\ o.resumable \in BOOLEAN /\ o.budget \in Nat
<1>1. /\ o.at \in 1 .. MaxTime /\ o.plan \in Plan /\ Consistent(o) /\ o.retries \in {0}
      /\ o.transient \in BOOLEAN /\ o.resumable \in BOOLEAN /\ o.budget \in Budget
  BY Zenon DEF Observation
<1>2. MaxTime \in Nat \ {0} /\ Budget \subseteq Nat
  BY WatchAssumption
<1>3. o.at \in Nat \ {0}
  BY <1>1, <1>2
<1>4. o.retries = 0 /\ o.budget \in Nat
  BY <1>1, <1>2
<1> QED
  BY <1>1, <1>3, <1>4, Zenon

LEMMA IdentityIsASubject ==
  ASSUME NEW o PROVE Identity(o) # NoSubject
BY DEF Identity, NoSubject

(* Backoff keeps within the bounds of a recheck.                           *)
LEMMA BackoffBounded ==
  ASSUME NEW s, Timed(s), NEW unchanged
  PROVE  Backoff(s, unchanged) \in BASE_RECHECK .. MAX_RECHECK
<1>1. BASE_RECHECK \in Nat \ {0} /\ MAX_RECHECK \in Nat /\ BASE_RECHECK <= MAX_RECHECK
  BY RecheckAssumption
<1>2. CASE ~unchanged \/ s.next = 0 \/ s.transition = 0 \/ s.next <= s.transition
  BY <1>1, <1>2 DEF Backoff
<1>3. CASE ~(~unchanged \/ s.next = 0 \/ s.transition = 0 \/ s.next <= s.transition)
  <2>1. s.next \in Nat /\ s.transition \in Nat /\ s.observed \in Nat /\ s.transition <= s.observed
        /\ s.next - s.observed >= BASE_RECHECK
    BY <1>1, <1>3 DEF Timed
  <2>2. 2 * (s.next - s.transition) >= BASE_RECHECK /\ 2 * (s.next - s.transition) \in Nat
    BY <1>1, <2>1
  <2>3. Backoff(s, unchanged) = Min2(2 * (s.next - s.transition), MAX_RECHECK)
    BY <1>3 DEF Backoff
  <2> QED
    BY <1>1, <2>2, <2>3 DEF Min2
<1> QED
  BY <1>2, <1>3

(* What a result emitted with its state is.                                *)
Carries(o, s, r, result, decision, closed) ==
  /\ r.result = result /\ r.decision = decision /\ r.key = r.state.key
  /\ r.state.subject = Identity(o) /\ r.state.digest = Digest(o, decision)
  /\ r.state.decision = decision /\ r.state.closed = closed
  /\ r.state.observed = o.at /\ s.observed <= o.at
  /\ r.state.failures = (IF o.transient THEN s.failures + 1 ELSE 0)
  /\ r.state.key = (IF result = "NO_CHANGE" /\ s.key # NoKey
                    THEN s.key ELSE Key(Identity(o), result, decision))
  /\ Timed(r.state)

LEMMA Emitted ==
  ASSUME NEW s, NEW o \in Observation, Timed(s), ~IsOlder(o, s),
         NEW result, NEW decision, NEW closed \in BOOLEAN, NEW unchanged,
         NEW next \in Nat, next = 0 \/ next - o.at \in BASE_RECHECK .. MAX_RECHECK,
         NEW r, r = Emit(o, s, result, decision, closed, next, unchanged)
  PROVE  Carries(o, s, r, result, decision, closed)
<1>1. o.at \in Nat \ {0} /\ s.observed <= o.at
  BY ObservationType DEF Timed, IsOlder
<1>2. /\ r.result = result /\ r.decision = decision /\ r.key = r.state.key
      /\ r.state.subject = Identity(o) /\ r.state.digest = Digest(o, decision)
      /\ r.state.decision = decision
      /\ r.state.observed = o.at
      /\ r.state.failures = (IF o.transient THEN s.failures + 1 ELSE 0)
      /\ r.state.key = (IF result = "NO_CHANGE" /\ s.key # NoKey
                        THEN s.key ELSE Key(Identity(o), result, decision))
      /\ r.state.next = next
      /\ r.state.transition \in {o.at, s.transition}
  BY DEF Emit
<1>3. r.state.closed = closed
  BY Zenon DEF Emit
<1> QED
  BY <1>1, <1>2, <1>3 DEF Timed, Carries

RecheckAt(o, s, unchanged) == o.at + Backoff(s, unchanged)

LEMMA EmittedLater ==
  ASSUME NEW s, NEW o \in Observation, Timed(s), NEW unchanged
  PROVE  /\ RecheckAt(o, s, unchanged) \in Nat
         /\ RecheckAt(o, s, unchanged) - o.at \in BASE_RECHECK .. MAX_RECHECK
<1>1. o.at \in Nat
  BY ObservationType
<1>2. Backoff(s, unchanged) \in BASE_RECHECK .. MAX_RECHECK /\ BASE_RECHECK \in Nat /\ MAX_RECHECK \in Nat
  BY BackoffBounded, RecheckAssumption
<1> QED
  BY <1>1, <1>2 DEF RecheckAt

(* The results of _map_decision, with when each is returned.  A name for   *)
(* each truth value keeps them apart from formulas.                        *)
Open == FALSE
Shut == TRUE

Returns(o, s, result, decision, closed) ==
  \E next \in Nat : \E unchanged :
    /\ next = 0 \/ next - o.at \in BASE_RECHECK .. MAX_RECHECK
    /\ MapDecision(o, s) = Emit(o, s, result, decision, closed, next, unchanged)

OutOfScope(o, s) ==
  MapDecision(o, s) = [Now(o, s, "BLOCK_RECONCILIATION", "OUT_OF_SCOPE")
                         EXCEPT !.state.digest = Digest(o, "RESUME_WORKER")]

OwnerTold(o, s) == s.key = Key(Identity(o), "NOTIFY_OWNER", "BLOCK_HUMAN")

Suppressed(o, s) ==
  \/ OwnerTold(o, s) /\ Returns(o, s, "NO_CHANGE", "BLOCK_HUMAN", Open)
  \/ /\ o.resumable /\ s.decision = "RESUME_WORKER" /\ s.digest = Digest(o, "RESUME_WORKER")
     /\ Returns(o, s, "NO_CHANGE", "RESUME_WORKER", Open)
  \/ s.decision \in Wakes /\ Returns(o, s, "NO_CHANGE", s.decision, Open)

Acted(o, s) ==
  \/ Returns(o, s, "BLOCK_RECONCILIATION", "RECONCILE_AMBIGUOUS", Open)
  \/ ~OwnerTold(o, s) /\ Returns(o, s, "NOTIFY_OWNER", "BLOCK_HUMAN", Open)
  \/ OutOfScope(o, s)
  \/ ~o.resumable /\ Returns(o, s, "RECHECK_LATER", "RESUME_WORKER", Open)
  \/ Returns(o, s, "RESUME_ADMITTED_WORKER", "RESUME_WORKER", Open)
  \/ \E name \in Quiet : Returns(o, s, "RECHECK_LATER", name, Open)
  \/ \E name \in Wakes : s.decision # name /\ Returns(o, s, "WAKE_COORDINATOR", name, Open)

LEMMA ReturnsThat ==
  ASSUME NEW o, NEW s, NEW result, NEW decision, NEW closed, NEW unchanged, NEW next \in Nat,
         next = 0 \/ next - o.at \in BASE_RECHECK .. MAX_RECHECK,
         MapDecision(o, s) = Emit(o, s, result, decision, closed, next, unchanged)
  PROVE  Returns(o, s, result, decision, closed)
BY Zenon DEF Returns

LEMMA Mapped ==
  ASSUME NEW s, Timed(s), NEW o \in Observation
  PROVE  \/ Returns(o, s, "CLOSE_WATCH", Planned(o, s), Shut)
         \/ Suppressed(o, s) \/ Acted(o, s)
<1> DEFINE name == Planned(o, s)
<1>1. ASSUME NEW result, NEW decision, NEW unchanged,
             MapDecision(o, s) = Later(o, s, result, decision, unchanged)
      PROVE  Returns(o, s, result, decision, Open)
  <2>1. /\ RecheckAt(o, s, unchanged) \in Nat
        /\ RecheckAt(o, s, unchanged) - o.at \in BASE_RECHECK .. MAX_RECHECK
    BY EmittedLater
  <2>2. MapDecision(o, s) = Emit(o, s, result, decision, Open, RecheckAt(o, s, unchanged), unchanged)
    BY <1>1 DEF Later, Open, RecheckAt
  <2> QED
    BY <2>1, <2>2, ReturnsThat
<1>2. ASSUME NEW result, NEW decision, MapDecision(o, s) = Now(o, s, result, decision)
      PROVE  Returns(o, s, result, decision, Open)
  <2>1. MapDecision(o, s) = Emit(o, s, result, decision, Open, 0, FALSE)
    BY <1>2 DEF Now, Open
  <2> QED
    BY <2>1, ReturnsThat
<1>3. name \in Wakes \cup Quiet \cup {"BLOCK_HUMAN", "RESUME_WORKER", "NOOP_COMPLETE", "RECONCILE_AMBIGUOUS"}
  BY ObservationType, WatchAssumption DEF Planned, Quiet, Waits
<1>a. "NOOP_COMPLETE" \notin Wakes \cup Quiet /\ "RECONCILE_AMBIGUOUS" \notin Wakes \cup Quiet
      /\ "BLOCK_HUMAN" \notin Wakes \cup Quiet /\ "RESUME_WORKER" \notin Wakes \cup Quiet
  BY DEF Wakes, Quiet, Waits
<1> HIDE DEF name
<1>4. CASE name = "NOOP_COMPLETE" \/ o.complete
  <2>1. MapDecision(o, s) = Emit(o, s, "CLOSE_WATCH", name, Shut, 0, FALSE)
    BY <1>4 DEF MapDecision, name, Shut
  <2> QED
    BY <2>1 DEF Returns, name
<1>5. CASE ~o.complete /\ name = "RECONCILE_AMBIGUOUS"
  <2>1. MapDecision(o, s) = Now(o, s, "BLOCK_RECONCILIATION", name)
    BY <1>5 DEF MapDecision, name
  <2> QED
    BY <1>2, <1>5, <2>1 DEF Acted
<1>6. CASE ~o.complete /\ name = "BLOCK_HUMAN"
  <2>1. MapDecision(o, s) = NotifyOwner(o, s)
    BY <1>6 DEF MapDecision, name
  <2> QED
    BY <1>1, <1>2, <2>1 DEF NotifyOwner, OwnerTold, Suppressed, Acted
<1>7. CASE ~o.complete /\ name = "RESUME_WORKER"
  <2>1. MapDecision(o, s) = ResumeWorker(o, s)
    BY <1>7 DEF MapDecision, name
  <2>2. CASE o.class # "worker_progress_or_yield"
    BY <2>1, <2>2 DEF ResumeWorker, OutOfScope, Acted
  <2>3. CASE o.class = "worker_progress_or_yield" /\ ~o.resumable
    <3>1. MapDecision(o, s) = Later(o, s, "RECHECK_LATER", "RESUME_WORKER", s.digest = Digest(o, "RESUME_WORKER"))
      BY <2>1, <2>3 DEF ResumeWorker
    <3> QED
      BY <1>1, <2>3, <3>1 DEF Acted
  <2>4. CASE o.class = "worker_progress_or_yield" /\ o.resumable
             /\ s.decision = "RESUME_WORKER" /\ s.digest = Digest(o, "RESUME_WORKER")
    <3>1. MapDecision(o, s) = Later(o, s, "NO_CHANGE", "RESUME_WORKER", TRUE)
      BY <2>1, <2>4 DEF ResumeWorker
    <3> QED
      BY <1>1, <2>4, <3>1 DEF Suppressed
  <2>5. CASE o.class = "worker_progress_or_yield" /\ o.resumable
             /\ ~(s.decision = "RESUME_WORKER" /\ s.digest = Digest(o, "RESUME_WORKER"))
    <3>1. MapDecision(o, s) = Later(o, s, "RESUME_ADMITTED_WORKER", "RESUME_WORKER", FALSE)
      BY <2>1, <2>5 DEF ResumeWorker
    <3> QED
      BY <1>1, <3>1 DEF Acted
  <2> QED
    BY <2>2, <2>3, <2>4, <2>5
<1>8. CASE ~o.complete /\ name \in Quiet
  <2>1. MapDecision(o, s) = Later(o, s, "RECHECK_LATER", name, s.digest = Digest(o, name))
    BY <1>8, <1>a DEF MapDecision, name
  <2> QED
    BY <1>1, <1>8, <2>1 DEF Acted
<1>9. CASE ~o.complete /\ name \in Wakes /\ name \notin Quiet
  <2>1. MapDecision(o, s) = Wake(o, s, name)
    BY <1>9, <1>a DEF MapDecision, name
  <2> QED
    BY <1>1, <1>9, <2>1 DEF Wake, Suppressed, Acted
<1> QED
  BY <1>3, <1>4, <1>5, <1>6, <1>7, <1>8, <1>9

(* What Returns says of the state that is persisted.                       *)
LEMMA Returned ==
  ASSUME NEW s, NEW o \in Observation, Timed(s), ~IsOlder(o, s),
         NEW result, NEW decision, NEW closed \in BOOLEAN, Returns(o, s, result, decision, closed),
         NEW r, r = MapDecision(o, s)
  PROVE  Carries(o, s, r, result, decision, closed)
<1>1. PICK next \in Nat : \E unchanged :
        /\ next = 0 \/ next - o.at \in BASE_RECHECK .. MAX_RECHECK
        /\ r = Emit(o, s, result, decision, closed, next, unchanged)
  BY Zenon DEF Returns
<1>2. PICK unchanged : r = Emit(o, s, result, decision, closed, next, unchanged)
  BY <1>1
<1> QED
  BY <1>1, <1>2, Emitted, Zenon

-----------------------------------------------------------------------------
LEMMA KeyTells ==
  ASSUME NEW a, NEW b, NEW c PROVE Key(a, b, c) # NoKey
BY DEF Key, NoKey

(* The digest tells an admitted worker from one that is not.               *)
LEMMA DigestTells ==
  ASSUME NEW o \in Observation, NEW x \in Observation, NEW decision,
         Digest(o, decision) = Digest(x, decision), x.resumable
  PROVE  o.resumable
<1>1. o.resumable \in BOOLEAN /\ x.resumable \in BOOLEAN
  BY ObservationType, Zenon
<1>2. Digest(o, decision)[4] = o.resumable /\ Digest(x, decision)[4] = x.resumable
  BY DEF Digest
<1> QED
  BY <1>1, <1>2

LEMMA DecisionsApart ==
  /\ \A d \in Quiet \cup {"BLOCK_HUMAN", "RESUME_WORKER", "RECONCILE_AMBIGUOUS", "OUT_OF_SCOPE", ""} : d \notin Wakes
  /\ "RESUME_WORKER" \notin Quiet \cup Wakes
BY DEF Wakes, Quiet, Waits

(* An action that is taken is named by the state it leaves.                *)
LEMMA ActedIsNamed ==
  ASSUME NEW s, NEW o \in Observation, Timed(s), ~IsOlder(o, s), Acted(o, s),
         NEW r, r = MapDecision(o, s)
  PROVE  /\ r.state.observed >= s.observed /\ Timed(r.state) /\ ~r.state.closed
         /\ r.state.failures = (IF o.transient THEN s.failures + 1 ELSE 0)
         /\ r.result \in Results \ {"NO_CHANGE"} /\ NamedBy(r.state, r.result)
         /\ r.key = r.state.key /\ r.state.subject = Identity(o)
<1>1. ASSUME NEW result \in Results \ {"NO_CHANGE"}, NEW decision, Returns(o, s, result, decision, Open),
             decision \in Wakes => result = "WAKE_COORDINATOR",
             decision = "RESUME_WORKER" => result = "RESUME_ADMITTED_WORKER" \/ ~o.resumable
      PROVE  /\ r.state.observed >= s.observed /\ Timed(r.state) /\ ~r.state.closed
             /\ r.state.failures = (IF o.transient THEN s.failures + 1 ELSE 0)
             /\ r.result \in Results \ {"NO_CHANGE"} /\ NamedBy(r.state, r.result)
             /\ r.key = r.state.key /\ r.state.subject = Identity(o)
  <2>1. Carries(o, s, r, result, decision, Open)
    <3>1. Open \in BOOLEAN
      BY DEF Open
    <3> QED
      BY <1>1, <3>1, Returned
  <2>2. /\ r.result = result /\ r.state.subject = Identity(o) /\ r.state.digest = Digest(o, decision)
        /\ r.state.decision = decision /\ r.state.key = Key(Identity(o), result, decision)
        /\ r.key = r.state.key
    BY <1>1, <2>1 DEF Carries
  <2>3. decision = "RESUME_WORKER" /\ ~o.resumable => Withheld(r.state)
    BY <2>2, DigestTells DEF Withheld
  <2>4. NamedBy(r.state, r.result)
    BY <1>1, <2>2, <2>3, IdentityIsASubject DEF NamedBy
  <2>5. r.state.observed = o.at /\ s.observed <= o.at /\ Timed(r.state)
        /\ r.state.failures = (IF o.transient THEN s.failures + 1 ELSE 0)
    BY <2>1 DEF Carries
  <2>6. r.state.observed >= s.observed
    BY <2>5
  <2>7. ~r.state.closed
    BY <2>1, Zenon DEF Carries, Open
  <2> QED
    BY <1>1, <2>2, <2>4, <2>5, <2>6, <2>7
<1>2. CASE OutOfScope(o, s)
  <2> DEFINE n == Now(o, s, "BLOCK_RECONCILIATION", "OUT_OF_SCOPE")
  <2>1. n = Emit(o, s, "BLOCK_RECONCILIATION", "OUT_OF_SCOPE", Open, 0, Open)
    BY DEF Now, Open
  <2>2. Carries(o, s, n, "BLOCK_RECONCILIATION", "OUT_OF_SCOPE", Open)
    <3>1. Open \in BOOLEAN
      BY DEF Open
    <3> HIDE DEF n
    <3> QED
      BY <2>1, <3>1, Emitted
  <2>3. r = [n EXCEPT !.state.digest = Digest(o, "RESUME_WORKER")]
    BY <1>2 DEF OutOfScope
  <2>4. n = [result |-> n.result, decision |-> n.decision, key |-> n.key, state |-> n.state]
        /\ n.state = [subject |-> n.state.subject, digest |-> n.state.digest,
                      decision |-> n.state.decision, key |-> n.state.key,
                      transition |-> n.state.transition, observed |-> n.state.observed,
                      failures |-> n.state.failures, next |-> n.state.next, closed |-> n.state.closed]
    BY <2>1 DEF Emit
  <2> HIDE DEF n
  <2>5. /\ r.result = n.result /\ r.key = n.key
        /\ r.state = [n.state EXCEPT !.digest = Digest(o, "RESUME_WORKER")]
    BY <2>3, <2>4
  <2>6. /\ r.state.subject = n.state.subject /\ r.state.decision = n.state.decision
        /\ r.state.key = n.state.key /\ r.state.transition = n.state.transition
        /\ r.state.observed = n.state.observed /\ r.state.failures = n.state.failures
        /\ r.state.next = n.state.next /\ r.state.closed = n.state.closed
    BY <2>4, <2>5
  <2>7. /\ n.result = "BLOCK_RECONCILIATION" /\ n.key = n.state.key
        /\ n.state.subject = Identity(o) /\ n.state.decision = "OUT_OF_SCOPE"
        /\ n.state.key = Key(Identity(o), "BLOCK_RECONCILIATION", "OUT_OF_SCOPE")
        /\ n.state.observed = o.at /\ s.observed <= o.at /\ Timed(n.state)
        /\ n.state.failures = (IF o.transient THEN s.failures + 1 ELSE 0)
    BY <2>2 DEF Carries
  <2>8. ~r.state.closed /\ r.state.closed \in BOOLEAN
    <3>1. n.state.closed = Open
      BY <2>2, Zenon DEF Carries
    <3> QED
      BY <2>6, <3>1, Zenon DEF Open
  <2>9. Timed(r.state)
    BY <2>6, <2>7, <2>8 DEF Timed
  <2>10. NamedBy(r.state, r.result)
    <3>1. /\ r.state.key = Key(r.state.subject, r.result, r.state.decision)
          /\ r.state.decision = "OUT_OF_SCOPE" /\ r.state.subject = Identity(o)
      BY <2>5, <2>6, <2>7
    <3>2. r.state.subject # NoSubject
      BY <3>1, IdentityIsASubject
    <3>3. r.state.decision \notin Wakes /\ r.state.decision # "RESUME_WORKER"
      BY <3>1, DecisionsApart
    <3> QED
      BY <3>1, <3>2, <3>3 DEF NamedBy
  <2> QED
    BY <2>5, <2>6, <2>7, <2>8, <2>9, <2>10 DEF Results
<1>3. {"BLOCK_RECONCILIATION", "NOTIFY_OWNER", "RECHECK_LATER", "RESUME_ADMITTED_WORKER", "WAKE_COORDINATOR"}
        \subseteq Results \ {"NO_CHANGE"}
  BY DEF Results, Typed
<1>4. CASE Returns(o, s, "BLOCK_RECONCILIATION", "RECONCILE_AMBIGUOUS", Open)
  BY <1>1, <1>3, <1>4, DecisionsApart
<1>5. CASE Returns(o, s, "NOTIFY_OWNER", "BLOCK_HUMAN", Open)
  BY <1>1, <1>3, <1>5, DecisionsApart
<1>6. CASE ~o.resumable /\ Returns(o, s, "RECHECK_LATER", "RESUME_WORKER", Open)
  BY <1>1, <1>3, <1>6, DecisionsApart
<1>7. CASE Returns(o, s, "RESUME_ADMITTED_WORKER", "RESUME_WORKER", Open)
  BY <1>1, <1>3, <1>7, DecisionsApart
<1>8. CASE \E name \in Quiet : Returns(o, s, "RECHECK_LATER", name, Open)
  BY <1>1, <1>3, <1>8, DecisionsApart
<1>9. CASE \E name \in Wakes : s.decision # name /\ Returns(o, s, "WAKE_COORDINATOR", name, Open)
  BY <1>1, <1>3, <1>9, DecisionsApart
<1> QED
  BY <1>2, <1>4, <1>5, <1>6, <1>7, <1>8, <1>9 DEF Acted

(* An action that is suppressed is the one the state is named by.          *)
Repeats(o, s, decision) ==
  /\ s.key = Key(Identity(o), Action(decision), decision)
  /\ Returns(o, s, "NO_CHANGE", decision, Open)
  /\ decision \in Wakes \cup {"BLOCK_HUMAN", "RESUME_WORKER"}

LEMMA FreshDecidesNothing == Fresh.decision = ""
BY DEF Fresh

LEMMA SuppressedRepeats ==
  ASSUME NEW s, NEW o \in Observation, Named(s), ~s.closed, ~IsStale(o, s), Suppressed(o, s)
  PROVE  \E decision : Repeats(o, s, decision)
<1>1. CASE OwnerTold(o, s) /\ Returns(o, s, "NO_CHANGE", "BLOCK_HUMAN", Open)
  <2>1. Repeats(o, s, "BLOCK_HUMAN")
    BY <1>1 DEF Repeats, OwnerTold, Action
  <2> QED
    BY <2>1
<1>2. CASE /\ o.resumable /\ s.decision = "RESUME_WORKER" /\ s.digest = Digest(o, "RESUME_WORKER")
           /\ Returns(o, s, "NO_CHANGE", "RESUME_WORKER", Open)
  <2>1. PICK result \in Results : NamedBy(s, result)
    <3>1. s # Fresh
      BY <1>2, FreshDecidesNothing
    <3> QED
      BY <1>2, <3>1, Zenon DEF Named
  <2>2. result = "RESUME_ADMITTED_WORKER" /\ s.subject = Identity(o)
    BY <1>2, <2>1 DEF NamedBy, Withheld, IsStale
  <2>3. Repeats(o, s, "RESUME_WORKER")
    BY <1>2, <2>1, <2>2 DEF Repeats, NamedBy, Action
  <2> QED
    BY <2>3
<1>3. CASE s.decision \in Wakes /\ Returns(o, s, "NO_CHANGE", s.decision, Open)
  <2>0. s.decision # "" /\ s.decision # "BLOCK_HUMAN" /\ s.decision # "RESUME_WORKER"
    BY <1>3, DecisionsApart
  <2>1. PICK result \in Results : NamedBy(s, result)
    <3>1. s # Fresh
      BY <2>0, FreshDecidesNothing
    <3> QED
      BY <3>1, Zenon DEF Named
  <2>2. result = "WAKE_COORDINATOR" /\ s.subject = Identity(o)
    BY <1>3, <2>1 DEF NamedBy, IsStale
  <2>3. Repeats(o, s, s.decision)
    BY <1>3, <2>0, <2>1, <2>2 DEF Repeats, NamedBy, Action
  <2> QED
    BY <2>3
<1> QED
  BY <1>1, <1>2, <1>3 DEF Suppressed

LEMMA RepeatedIsNamed ==
  ASSUME NEW s, NEW o \in Observation, Timed(s), ~IsOlder(o, s), NEW decision, Repeats(o, s, decision),
         NEW r, r = MapDecision(o, s)
  PROVE  /\ r.state.observed >= s.observed /\ Timed(r.state) /\ ~r.state.closed
         /\ r.state.failures = (IF o.transient THEN s.failures + 1 ELSE 0)
         /\ r.result = "NO_CHANGE" /\ r.decision = decision
         /\ NamedBy(r.state, Action(decision)) /\ Action(decision) \in Results
<1>1. Open \in BOOLEAN
  BY DEF Open
<1>2. Carries(o, s, r, "NO_CHANGE", decision, Open)
  BY <1>1, Returned DEF Repeats
<1>3. s.key # NoKey
  BY KeyTells DEF Repeats
<1>4. /\ r.result = "NO_CHANGE" /\ r.decision = decision
      /\ r.state.subject = Identity(o) /\ r.state.decision = decision
      /\ r.state.key = Key(Identity(o), Action(decision), decision)
      /\ r.state.observed = o.at /\ s.observed <= o.at /\ Timed(r.state)
      /\ r.state.failures = (IF o.transient THEN s.failures + 1 ELSE 0)
  BY <1>2, <1>3 DEF Carries, Repeats
<1>5. r.state.observed >= s.observed
  BY <1>4
<1>6. ~r.state.closed
  BY <1>2, Zenon DEF Carries, Open
<1>7. decision \in Wakes => Action(decision) = "WAKE_COORDINATOR"
  BY DecisionsApart DEF Action
<1>8. decision = "RESUME_WORKER" => Action(decision) = "RESUME_ADMITTED_WORKER"
  BY DEF Action
<1>9. NamedBy(r.state, Action(decision)) /\ Action(decision) \in Results
  <2>1. Action(decision) \in Results
    BY DEF Action, Results, Typed
  <2>2. r.state.subject # NoSubject
    BY <1>4, IdentityIsASubject
  <2>3. NamedBy(r.state, Action(decision))
    BY <1>4, <1>7, <1>8, <2>2 DEF NamedBy
  <2> QED
    BY <2>1, <2>3
<1> QED
  BY <1>4, <1>5, <1>6, <1>9

-----------------------------------------------------------------------------
(* What one evaluation leaves, whatever it returns.                        *)
LEMMA Evaluated ==
  ASSUME NEW s, NEW o \in Observation, Timed(s), Named(s), NEW r, r = Evaluate(o, s)
  PROVE  /\ Timed(r.state) /\ Named(r.state)
         /\ s.closed => r.state = s
         /\ ~r.state.closed => r.state.observed >= s.observed
         /\ ~r.state.closed =>
              /\ ~IsStale(o, s)
              /\ IsOlder(o, s) => r.state = s
              /\ ~IsOlder(o, s) => r.state.failures = (IF o.transient THEN s.failures + 1 ELSE 0)
<1>1. CASE s.closed
  BY <1>1 DEF Evaluate, Preserve, Named
<1>2. CASE ~s.closed /\ IsStale(o, s)
  <2>1. r = CloseStale(o, s)
    BY <1>2 DEF Evaluate
  <2>2. /\ r.state.transition = o.at /\ r.state.observed = o.at /\ r.state.next = 0
        /\ r.state.failures = (IF o.transient THEN s.failures + 1 ELSE 0)
    BY <2>1 DEF CloseStale
  <2>3. r.state.closed
    BY <2>1 DEF CloseStale
  <2>a. r.state.closed \in BOOLEAN
    <3>1. PICK identity, key, failures :
            r = [result |-> "CLOSE_WATCH", decision |-> "STALE_WATCH", key |-> key,
                 state  |-> [subject |-> identity, digest |-> <<"STALE">>, decision |-> "STALE_WATCH",
                             key |-> key, transition |-> o.at, observed |-> o.at,
                             failures |-> failures, next |-> 0, closed |-> Shut]]
      BY <2>1, Zenon DEF CloseStale, Shut
    <3>2. r.state.closed = Shut
      BY <3>1
    <3> QED
      BY <3>2, Zenon DEF Shut
  <2>4. r.state.failures \in Nat /\ o.at \in Nat
    BY <2>2, ObservationType DEF Timed
  <2>5. Timed(r.state)
    BY <2>2, <2>a, <2>4 DEF Timed
  <2> QED
    BY <1>2, <2>3, <2>5 DEF Named
<1>3. CASE ~s.closed /\ ~IsStale(o, s) /\ IsOlder(o, s)
  <2>1. r.state = s
    BY <1>3 DEF Evaluate, Preserve
  <2> QED
    BY <1>3, <2>1 DEF Timed
<1>4. CASE ~s.closed /\ ~IsStale(o, s) /\ ~IsOlder(o, s)
  <2>1. r = MapDecision(o, s)
    BY <1>4 DEF Evaluate
  <2>2. CASE Acted(o, s)
    BY <1>4, <2>1, <2>2, ActedIsNamed DEF Named
  <2>3. CASE Suppressed(o, s)
    <3>1. PICK decision : Repeats(o, s, decision)
      BY <1>4, <2>3, SuppressedRepeats
    <3> QED
      BY <1>4, <2>1, <3>1, RepeatedIsNamed DEF Named
  <2>4. CASE Returns(o, s, "CLOSE_WATCH", Planned(o, s), Shut)
    <3>1. Shut \in BOOLEAN
      BY DEF Shut
    <3>2. Carries(o, s, r, "CLOSE_WATCH", Planned(o, s), Shut)
      BY <1>4, <2>1, <2>4, <3>1, Returned
    <3>3. r.state.closed /\ Timed(r.state)
      BY <3>2, Zenon DEF Carries, Shut
    <3> QED
      BY <1>4, <3>3 DEF Named
  <2> QED
    BY <2>2, <2>3, <2>4, Mapped
<1> QED
  BY <1>1, <1>2, <1>3, <1>4

-----------------------------------------------------------------------------
LEMMA WatchInit == Init => WatchInv
<1> SUFFICES ASSUME Init PROVE WatchInv
  OBVIOUS
<1>1. /\ state.transition = 0 /\ state.observed = 0 /\ state.next = 0 /\ state.failures = 0
  BY DEF Init, Fresh
<1>2. state.closed \in BOOLEAN
  <2>1. state.closed = Open
    BY DEF Init, Fresh, Open
  <2> QED
    BY <2>1, Zenon DEF Open
<1>3. Timed(state)
  BY <1>1, <1>2 DEF Timed
<1>4. Named(state) /\ now \in Nat /\ streak \in Nat /\ streak = 0
  BY DEF Init, Named
<1> QED
  BY <1>1, <1>3, <1>4 DEF WatchInv, Counted

(* What an observation that is kept leaves.                                *)
LEMMA KeptStep ==
  ASSUME WatchInv, NEW o \in Observation, Observe(o, TRUE)
  PROVE  /\ WatchInv'
         /\ state.closed => state' = state
         /\ ~state'.closed => state'.observed >= state.observed
<1> DEFINE r == Evaluate(o, state)
<1>1. state' = r.state
  BY Zenon DEF Observe
<1>2. /\ Timed(r.state) /\ Named(r.state)
      /\ state.closed => r.state = state
      /\ ~r.state.closed => r.state.observed >= state.observed
      /\ ~r.state.closed =>
           /\ ~IsStale(o, state)
           /\ IsOlder(o, state) => r.state = state
           /\ ~IsOlder(o, state) => r.state.failures = (IF o.transient THEN state.failures + 1 ELSE 0)
  BY Evaluated DEF WatchInv
<1> HIDE DEF r
<1>3. /\ now' = now
      /\ streak' = IF state.closed \/ IsStale(o, state) \/ IsOlder(o, state) THEN streak
                   ELSE IF o.transient THEN streak + 1 ELSE 0
  BY Zenon DEF Observe
<1>4. state.failures \in Nat /\ streak \in Nat /\ now \in Nat
  BY DEF WatchInv, Timed
<1>5. streak' \in Nat /\ now' \in Nat
  BY <1>3, <1>4
<1>6. ~state.closed => streak <= state.failures
  BY DEF WatchInv, Counted
<1>7. ~state'.closed => streak' <= state'.failures
  <2> SUFFICES ASSUME ~state'.closed PROVE streak' <= state'.failures
    OBVIOUS
  <2>1. ~state.closed
    BY <1>1, <1>2
  <2>2. CASE IsOlder(o, state)
    BY <1>1, <1>2, <1>3, <1>6, <2>1, <2>2
  <2>3. CASE ~IsOlder(o, state)
    BY <1>1, <1>2, <1>3, <1>4, <1>6, <2>1, <2>3
  <2> QED
    BY <2>2, <2>3
<1>8. Counted'
  BY <1>7 DEF Counted
<1>9. Timed(state)' /\ Named(state)'
  BY <1>1, <1>2
<1> QED
  BY <1>1, <1>2, <1>5, <1>8, <1>9 DEF WatchInv

LEMMA WatchStep ==
  ASSUME WatchInv, [Next]_vars
  PROVE  /\ WatchInv'
         /\ state.closed => state' = state
         /\ ~state'.closed => state'.observed >= state.observed
<1>0. state.observed \in Nat /\ now \in Nat
  BY DEF WatchInv, Timed
<1>1. ASSUME state' = state, streak' = streak, now' \in Nat
      PROVE  /\ WatchInv'
             /\ state.closed => state' = state
             /\ ~state'.closed => state'.observed >= state.observed
  BY <1>0, <1>1 DEF WatchInv, Counted
<1>2. CASE \E o \in Observation, kept \in BOOLEAN : Observe(o, kept)
  <2>1. PICK o \in Observation, kept \in BOOLEAN : Observe(o, kept)
    BY <1>2
  <2>2. CASE kept
    <3>1. Observe(o, TRUE)
      BY <2>1, <2>2, Zenon DEF Observe
    <3> QED
      BY <3>1, KeptStep
  <2>3. CASE ~kept
    <3>1. state' = state /\ streak' = streak /\ now' = now
      BY <2>1, <2>3, Zenon DEF Observe
    <3> QED
      BY <1>0, <1>1, <3>1
  <2> QED
    BY <2>2, <2>3
<1>3. CASE Tick
  <2>1. state' = state /\ streak' = streak /\ now' = now + 1
    BY <1>3 DEF Tick
  <2> QED
    BY <1>0, <1>1, <2>1
<1>4. CASE UNCHANGED vars
  BY <1>0, <1>1, <1>4 DEF vars
<1> QED
  BY <1>2, <1>3, <1>4 DEF Next

LEMMA WatchInvariant == Spec => []WatchInv
<1>1. Init => WatchInv
  BY WatchInit
<1>2. WatchInv /\ [Next]_vars => WatchInv'
  BY WatchStep
<1> QED
  BY <1>1, <1>2, PTL DEF Spec

-----------------------------------------------------------------------------
(* The theorems.                                                           *)

(* A closed watch is final: whatever observation evaluate() is given next, *)
(* the state it returns to persist is the one it was given.                *)
THEOREM ClosedStaysClosed == Spec => ClosedIsFinal
<1>1. WatchInv /\ [Next]_vars => [state.closed => state' = state]_vars
  BY WatchStep
<1> QED
  BY <1>1, WatchInvariant, PTL DEF Spec, ClosedIsFinal

(* While the watch is open, observed_at in its state never goes back,      *)
(* however observations are delayed, repeated or reordered.                *)
THEOREM ObservationsAdvance == Spec => NeverRollsBack
<1>1. WatchInv /\ [Next]_vars => [~state'.closed => state'.observed >= state.observed]_vars
  BY WatchStep
<1> QED
  BY <1>1, WatchInvariant, PTL DEF Spec, NeverRollsBack

(* next_recheck_at lies between BASE_RECHECK and MAX_RECHECK after the     *)
(* observation, whatever those two delays are.                             *)
THEOREM RechecksAreBounded == Spec => []RecheckBounded
<1>1. WatchInv => RecheckBounded
  BY DEF WatchInv, Timed, RecheckBounded
<1> QED
  BY <1>1, WatchInvariant, PTL

(* _map_decision does not return a wake or an owner notice again while the *)
(* state still carries its action key.                                     *)
THEOREM NothingIsToldTwice == Spec => []ToldOnce
<1>1. WatchInv => ToldOnce
  <2> SUFFICES ASSUME WatchInv, NEW o \in Arriving, NEW r, r = Evaluate(o, state),
                      r.result \in {"WAKE_COORDINATOR", "NOTIFY_OWNER"}
               PROVE  r.key # state.key
    BY DEF ToldOnce
  <2>1. o \in Observation
    BY DEF Arriving
  <2>2. r = MapDecision(o, state) /\ ~IsOlder(o, state)
    BY DEF Evaluate, Preserve, CloseStale
  <2>3. Timed(state) /\ Named(state)
    BY DEF WatchInv
  <2>4. Open \in BOOLEAN /\ Shut \in BOOLEAN
    BY DEF Open, Shut
  <2>5. ASSUME NEW result, NEW decision, NEW closed \in BOOLEAN, Returns(o, state, result, decision, closed)
        PROVE  /\ r.result = result
               /\ r.result # "NO_CHANGE" => r.key = Key(Identity(o), result, decision)
    <3>1. Carries(o, state, r, result, decision, closed)
      BY <2>1, <2>2, <2>3, <2>5, Returned
    <3> QED
      BY <3>1 DEF Carries
  <2>6. CASE ~OwnerTold(o, state) /\ r.key = Key(Identity(o), "NOTIFY_OWNER", "BLOCK_HUMAN")
    BY <2>6 DEF OwnerTold
  <2>7. ASSUME NEW name \in Wakes, state.decision # name, r.key = Key(Identity(o), "WAKE_COORDINATOR", name)
        PROVE  r.key # state.key
    <3> SUFFICES ASSUME r.key = state.key PROVE FALSE
      OBVIOUS
    <3>1. state # Fresh
      <4>1. Fresh.key = NoKey
        BY DEF Fresh
      <4> QED
        BY <2>7, <4>1, KeyTells
    <3>2. ~state.closed
      BY DEF Evaluate, Preserve
    <3>3. PICK result \in Results : NamedBy(state, result)
      BY <2>3, <3>1, <3>2, Zenon DEF Named
    <3>4. state.key = Key(state.subject, result, state.decision)
      BY <3>3 DEF NamedBy
    <3>5. name = state.decision
      <4>1. Key(Identity(o), "WAKE_COORDINATOR", name) = Key(state.subject, result, state.decision)
        BY <2>7, <3>4
      <4> QED
        BY <4>1 DEF Key
    <3> QED
      BY <2>7, <3>5
  <2>8. ~Returns(o, state, "CLOSE_WATCH", Planned(o, state), Shut)
    BY <2>4, <2>5
  <2>9. ~Suppressed(o, state)
    BY <2>4, <2>5 DEF Suppressed
  <2>10. ~OutOfScope(o, state)
    <3>1. OutOfScope(o, state) => r.result = "BLOCK_RECONCILIATION"
      BY <2>2 DEF OutOfScope, Now, Emit
    <3> QED
      BY <3>1
  <2>11. \/ ~OwnerTold(o, state) /\ Returns(o, state, "NOTIFY_OWNER", "BLOCK_HUMAN", Open)
         \/ \E name \in Wakes : state.decision # name /\ Returns(o, state, "WAKE_COORDINATOR", name, Open)
    BY <2>1, <2>3, <2>4, <2>5, <2>8, <2>9, <2>10, Mapped DEF Acted
  <2> QED
    BY <2>4, <2>5, <2>6, <2>7, <2>11
<1> QED
  BY <1>1, WatchInvariant, PTL

(* _map_decision answers NO_CHANGE to an action only if the state carries  *)
(* the key of that very action.                                            *)
THEOREM SuppressionIsEarned == Spec => []SuppressedWasTold
<1>1. WatchInv => SuppressedWasTold
  <2> SUFFICES ASSUME WatchInv, NEW o \in Arriving, NEW r, r = Evaluate(o, state),
                      Heard(o, state), r.result = "NO_CHANGE"
               PROVE  state.key = Key(Identity(o), Action(r.decision), r.decision)
    BY Zenon DEF SuppressedWasTold
  <2>1. o \in Observation
    BY DEF Arriving
  <2>2. r = MapDecision(o, state) /\ ~IsOlder(o, state) /\ ~IsStale(o, state) /\ ~state.closed
    BY DEF Evaluate, Heard
  <2>3. Timed(state) /\ Named(state)
    BY DEF WatchInv
  <2>4. ~Acted(o, state)
    BY <2>1, <2>2, <2>3, ActedIsNamed
  <2>5. ~Returns(o, state, "CLOSE_WATCH", Planned(o, state), Shut)
    <3>1. Shut \in BOOLEAN
      BY DEF Shut
    <3>2. ASSUME Returns(o, state, "CLOSE_WATCH", Planned(o, state), Shut) PROVE FALSE
      <4>1. Carries(o, state, r, "CLOSE_WATCH", Planned(o, state), Shut)
        BY <2>1, <2>2, <2>3, <3>1, <3>2, Returned
      <4> QED
        BY <4>1 DEF Carries
    <3> QED
      BY <3>2
  <2>6. PICK decision : Repeats(o, state, decision)
    BY <2>1, <2>2, <2>3, <2>4, <2>5, Mapped, SuppressedRepeats
  <2>7. r.decision = decision
    BY <2>1, <2>2, <2>3, <2>6, RepeatedIsNamed
  <2> QED
    BY <2>6, <2>7 DEF Repeats
<1> QED
  BY <1>1, WatchInvariant, PTL

(* Once as many transient failures in a row have been persisted as the     *)
(* budget allows, _bind_transient_retry turns one more into BLOCK_HUMAN.   *)
THEOREM TransientFailuresEscalate == Spec => []TransientEscalates
<1>1. WatchInv => TransientEscalates
  <2> SUFFICES ASSUME WatchInv, NEW o \in Arriving, Heard(o, state), o.plan = "RETRY", streak >= o.budget
               PROVE  Evaluate(o, state).decision = "BLOCK_HUMAN"
    BY DEF TransientEscalates
  <2>1. /\ o \in Observation /\ Consistent(o) /\ o.retries = 0 /\ o.budget \in Nat
    BY ObservationType DEF Arriving
  <2>2. /\ ~state.closed /\ ~IsStale(o, state) /\ ~IsOlder(o, state) /\ ~o.ambiguous
    BY DEF Heard
  <2>3. state.failures \in Nat /\ streak \in Nat /\ streak <= state.failures
    BY <2>2 DEF WatchInv, Timed, Counted
  <2>4. ~(BoundRetries(o, state) < o.budget)
    BY <2>1, <2>3 DEF BoundRetries, Max2
  <2>5. Planned(o, state) = "BLOCK_HUMAN"
    BY <2>2, <2>4 DEF Planned
  <2>6. ~o.complete
    BY <2>1 DEF Consistent
  <2>7. Evaluate(o, state) = NotifyOwner(o, state)
    BY <2>2, <2>5, <2>6 DEF Evaluate, MapDecision
  <2> QED
    BY <2>7 DEF NotifyOwner, Later, Now, Emit
<1> QED
  BY <1>1, WatchInvariant, PTL
===============================================================================
