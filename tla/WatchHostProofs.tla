--------------------------- MODULE WatchHostProofs ---------------------------
(***************************************************************************)
(* One watch never sends twice, a dispatch never authorizes two things,    *)
(* and what the watch remembers as told was delivered, for any number of   *)
(* overlapping runs, crashes, dispatches and changes of the packet.        *)
(*                                                                         *)
(* The argument, first HostInv: the flock leaves at most one run past      *)
(* Acquire; the journal leaves INTENT before the send primitive is called  *)
(* and never comes back to it; and a run gets to the send only with a      *)
(* marker that was created for it and that nothing has used.  Then DataInv: *)
(* the run that holds the lock judged the watch state that is still there, *)
(* at most one message was ever posted, and every step after the send      *)
(* knows that it arrived.                                                  *)
(***************************************************************************)
EXTENDS WatchHost, TLAPS

Holding == Pcs \ {"idle", "collected"}
Unsent  == {"reserve", "reserving", "reserved"}
Carried == Holding \ {"evaluated"}

Shape ==
  /\ pc \in [Run -> Pcs] /\ DOMAIN run = Run
  /\ DOMAIN registry = Dispatch
  /\ calls \in Nat /\ uses \in [Dispatch -> Nat]
  /\ \A p \in Run : pc[p] \in Carried => run[p].dispatch \in Dispatch

Exclusive == \A p \in Run : pc[p] \in Holding => lock = p

JournalOK ==
  \/ journal = NoJournal
  \/ /\ "phase" \in DOMAIN journal
     /\ journal.phase \in {"INTENT", "SENDING", "AMBIGUOUS", "RECEIPT"}

(* Until the send is announced in the journal, nothing was sent.           *)
Announced ==
  /\ \A p \in Run : pc[p] \in Unsent => journal.phase = "INTENT"
  /\ \A p \in Run : pc[p] = "send" => journal.phase = "SENDING" /\ calls = 0
  /\ calls <= 1
  /\ calls >= 1 => journal.phase \notin {"NONE", "INTENT"}

(* What a marker says of the uses of its dispatch.                         *)
Marked ==
  /\ \A d \in Dispatch :
       /\ uses[d] <= 1
       /\ uses[d] >= 1 => registry[d] # Free
       /\ (uses[d] >= 1 /\ registry[d].state = "reserved") => calls >= 1
  /\ \A p \in Run :
       /\ pc[p] = "reserving" =>
            registry[run[p].dispatch] = Taken /\ uses[run[p].dispatch] = 0
       /\ pc[p] \in {"reserved", "send"} => registry[run[p].dispatch].state = "reserved"

HostInv == Shape /\ Exclusive /\ JournalOK /\ Announced /\ Marked

LEMMA MarkersDiffer ==
  /\ Free.state = "free" /\ Taken.state = "taken" /\ Free # Taken
  /\ \A a : Reserved(a).state = "reserved" /\ Reserved(a) # Free /\ Reserved(a) # Taken
  /\ \A a : Consumed(a).state = "consumed" /\ Consumed(a) # Free
  BY DEF Free, Taken, Reserved, Consumed

LEMMA HostInvInit == Init => HostInv
  <1>. SUFFICES ASSUME Init PROVE HostInv
    OBVIOUS
  <1>1. Shape
    BY DEF Init, Shape, Pcs, Carried, Holding
  <1>2. Exclusive /\ JournalOK /\ Announced
    BY DEF Init, Exclusive, JournalOK, Announced, Holding, Unsent, Pcs
  <1>3. Marked
    BY DEF Init, Marked, Free
  <1>. QED
    BY <1>1, <1>2, <1>3 DEF HostInv

LEMMA HostInvStep == HostInv /\ [Next]_vars => HostInv'
  <1>. SUFFICES ASSUME HostInv, [Next]_vars PROVE HostInv'
    OBVIOUS
  <1>. USE DEF HostInv, Shape, Exclusive, JournalOK, Announced, Marked, Holding, Unsent, Carried, Pcs
  <1>1. ASSUME NEW p \in Run, Begin(p) PROVE HostInv'
    <2>1. CASE Collect(p)
      BY <2>1 DEF Collect, Enter, At, world, files, history
    <2>2. CASE LockHeld(p)
      BY <2>2 DEF LockHeld, Enter, At, world, files, history
    <2>3. CASE Acquire(p)
      BY <2>3, RunAssumption DEF Acquire, LockFree, Enter, At, world, files, history
    <2>4. CASE PersistUntyped(p)
      BY <2>4 DEF PersistUntyped, Release, Enter, At, world, files, history
    <2>. QED
      BY <1>1, <2>1, <2>2, <2>3, <2>4 DEF Begin
  <1>2. ASSUME NEW p \in Run, Judge(p) PROVE HostInv'
    <2>1. CASE Refuse(p)
      BY <2>1 DEF Refuse, Release, Enter, At, world, files, history
    <2>2. CASE Dedup(p)
      BY <2>2 DEF Dedup, Rechecked, Release, Enter, At, world, files, history
    <2>3. ASSUME NEW d \in Dispatch, Mismatch(p, d) PROVE HostInv'
      BY <2>3 DEF Mismatch, Authorized, Rechecked, Settled, Release, Enter, At, NoJournal,
                  world, files, history
    <2>4. ASSUME NEW d \in Dispatch, Intent(p, d) PROVE HostInv'
      BY <2>4 DEF Intent, Authorized, Rechecked, Proceed, Enter, At, NoJournal, history
    <2>5. ASSUME NEW d \in Dispatch, Resume(p, d) PROVE HostInv'
      BY <2>5 DEF Resume, Authorized, Rechecked, Settled, Proceed, Enter, At, world, files, history
    <2>. QED
      BY <1>2, <2>1, <2>2, <2>3, <2>4, <2>5 DEF Judge
  <1>3. ASSUME NEW p \in Run, Reserve(p) PROVE HostInv'
    <2>1. CASE ReserveCreate(p)
      BY <2>1, MarkersDiffer
      DEF ReserveCreate, Creates, Marker, SetMarker, Goto, At, world, files, history
    <2>2. CASE ReserveWrite(p)
      BY <2>2, MarkersDiffer DEF ReserveWrite, SetMarker, Goto, At, world, files, history
    <2>3. CASE ReserveOwned(p)
      BY <2>3, MarkersDiffer DEF ReserveOwned, Marker, Goto, At, world, files, history
    <2>4. CASE ReserveRefused(p)
      BY <2>4 DEF ReserveRefused, Release, Enter, At, world, files, history
    <2>. QED
      BY <1>3, <2>1, <2>2, <2>3, <2>4 DEF Reserve
  <1>4. ASSUME NEW p \in Run, Deliver(p) PROVE HostInv'
    <2>1. CASE CommitSending(p)
      BY <2>1 DEF CommitSending, JournalSending, Journal, Goto, At, NoJournal, world, history
    <2>2. ASSUME NEW arrives \in BOOLEAN, NEW succeeds \in BOOLEAN, Send(p, arrives, succeeds)
          PROVE  HostInv'
      BY <2>2, MarkersDiffer DEF Send, AfterSend, Goto, At, world, files
    <2>3. CASE CommitAmbiguous(p)
      BY <2>3 DEF CommitAmbiguous, Journal, Goto, At, NoJournal, world, history
    <2>4. CASE RecordAmbiguous(p)
      BY <2>4 DEF RecordAmbiguous, Release, Enter, At, world, history
    <2>5. CASE CommitReceipt(p)
      BY <2>5 DEF CommitReceipt, Journal, Goto, At, NoJournal, world, history
    <2>. QED
      BY <1>4, <2>1, <2>2, <2>3, <2>4, <2>5 DEF Deliver
  <1>5. ASSUME NEW p \in Run, Finish(p) PROVE HostInv'
    <2>1. CASE FinalizeTruncate(p)
      BY <2>1, MarkersDiffer
      DEF FinalizeTruncate, Marker, SetMarker, Goto, At, world, files, history
    <2>2. CASE FinalizeWrite(p)
      BY <2>2, MarkersDiffer DEF FinalizeWrite, SetMarker, Goto, At, world, files, history
    <2>3. CASE FinalizedBefore(p)
      BY <2>3 DEF FinalizedBefore, Goto, At, world, files, history
    <2>4. CASE FinalizeRefused(p)
      BY <2>4 DEF FinalizeRefused, Release, Enter, At, world, files, history
    <2>5. CASE RecordApplied(p)
      BY <2>5 DEF RecordApplied, Goto, At, world, history
    <2>6. CASE PersistTyped(p)
      BY <2>6 DEF PersistTyped, Release, Enter, At, world, history
    <2>. QED
      BY <1>5, <2>1, <2>2, <2>3, <2>4, <2>5, <2>6 DEF Finish
  <1>6. ASSUME NEW p \in Run, Crash(p) PROVE HostInv'
    BY <1>6 DEF Crash, Enter, files, history
  <1>7. ASSUME NEW d \in Dispatch, AdapterConsume(d) PROVE HostInv'
    BY <1>7, MarkersDiffer DEF AdapterConsume, Creates, files, runs
  <1>8. ASSUME NEW f \in Facts, ChangePacket(f) PROVE HostInv'
    BY <1>8 DEF ChangePacket, files, runs, history
  <1>9. CASE Tick
    BY <1>9 DEF Tick, files, runs, history
  <1>10. CASE UNCHANGED vars
    BY <1>10 DEF vars, files, runs, history
  <1>. HIDE DEF HostInv
  <1>. QED
    BY <1>1, <1>2, <1>3, <1>4, <1>5, <1>6, <1>7, <1>8, <1>9, <1>10 DEF Next, RunOnce

LEMMA HostInvHolds == Spec => []HostInv
  BY HostInvInit, HostInvStep, PTL DEF Spec

(* A watch calls the send primitive at most once in its life, however many *)
(* runs overlap, die or are retried (_execute_authorized's journal).       *)
THEOREM SendsAtMostOnce == Spec => []AtMostOneSend
  <1>1. HostInv => AtMostOneSend
    BY DEF HostInv, Announced, AtMostOneSend
  <1>. QED
    BY <1>1, HostInvHolds, PTL

(* No dispatch authorizes a send of the host and a write of the adapter,   *)
(* or two of either (reserve_dispatch and consume_dispatch_once).          *)
THEOREM DispatchesUsedOnce == Spec => []DispatchUsedOnce
  <1>1. HostInv => DispatchUsedOnce
    BY DEF HostInv, Marked, DispatchUsedOnce
  <1>. QED
    BY <1>1, HostInvHolds, PTL

-----------------------------------------------------------------------------
(* What the watch state remembers.  A run that holds the lock judges the   *)
(* very state that is still there when it writes; a message that is        *)
(* recorded has arrived, and the steps after the send know it has.         *)

Delivered(key) == [key |-> key, outcome |-> "APPLIED"] \in ledger /\ key \in DeliveredKeys

Remembers(s) ==
  /\ s.observed \in Nat /\ s.closed \in BOOLEAN /\ s.subject \in {NoSubject, TheIdentity}
  /\ s.decision \in Wakes => Delivered(TellsOf(s.decision))
  /\ s.decision = "BLOCK_HUMAN" => s.key = TellsOf("BLOCK_HUMAN")
  /\ s.key = TellsOf("BLOCK_HUMAN") => Delivered(TellsOf("BLOCK_HUMAN"))

Reading ==
  \A p \in Run :
    /\ pc[p] = "collected" => run[p].facts \in Facts /\ run[p].at \in Nat \ {0}
    /\ pc[p] \in Holding =>
         \E f \in Facts, t \in Nat \ {0} : run[p].result = Evaluate(Observation(f, t), watch)
    /\ pc[p] \in Carried => run[p].result.result \in Typed

(* Names for the truth values, which keep them apart from formulas.        *)
Open == FALSE
Shut == TRUE

(* What the host reads of a result that was emitted at time t.             *)
Carries(r, s, t, result, decision, closed) ==
  /\ r.result = result /\ r.decision = decision /\ r.key = r.state.key
  /\ r.state.decision = decision /\ r.state.subject = TheIdentity
  /\ r.state.observed = t /\ r.state.closed = closed
  /\ r.state.key = IF result = "NO_CHANGE" /\ s.key # NoKey
                   THEN s.key ELSE Key(TheIdentity, result, decision)

LEMMA ObservedFacts ==
  ASSUME NEW f, NEW t, NEW o, o = Observation(f, t)
  PROVE  /\ Identity(o) = TheIdentity /\ o.at = t /\ o.bound = 0 /\ o.revision = 1
         /\ o.plan = f.plan /\ o.class # "worker_progress_or_yield"
BY DEF Observation, Identity, TheIdentity

LEMMA EmitCarries ==
  ASSUME NEW s, NEW o, Identity(o) = TheIdentity, NEW result, NEW decision, NEW closed,
         NEW next, NEW unchanged, NEW r, r = Emit(o, s, result, decision, closed, next, unchanged)
  PROVE  Carries(r, s, o.at, result, decision, closed)
<1>1. /\ r.result = result /\ r.decision = decision /\ r.key = r.state.key
      /\ r.state.decision = decision /\ r.state.subject = TheIdentity /\ r.state.observed = o.at
      /\ r.state.key = IF result = "NO_CHANGE" /\ s.key # NoKey
                       THEN s.key ELSE Key(TheIdentity, result, decision)
  BY DEF Emit
<1>2. r.state.closed = closed
  BY Zenon DEF Emit
<1> QED
  BY <1>1, <1>2 DEF Carries

(* What the host's observations can lead to, as far as it matters here.    *)
LEMMA HostMaps ==
  ASSUME NEW s, NEW f, NEW t, NEW o, o = Observation(f, t), NEW r, r = MapDecision(o, s)
  PROVE  \/ Carries(r, s, t, "CLOSE_WATCH", "NOOP_COMPLETE", Shut)
         \/ Carries(r, s, t, "BLOCK_RECONCILIATION", "RECONCILE_AMBIGUOUS", Open)
         \/ Carries(r, s, t, "BLOCK_RECONCILIATION", "OUT_OF_SCOPE", Open)
         \/ \E name \in Quiet : Carries(r, s, t, "RECHECK_LATER", name, Open)
         \/ s.key = TellsOf("BLOCK_HUMAN") /\ Carries(r, s, t, "NO_CHANGE", "BLOCK_HUMAN", Open)
         \/ Carries(r, s, t, "NOTIFY_OWNER", "BLOCK_HUMAN", Open)
         \/ \E name : /\ name # "BLOCK_HUMAN"
                      /\ \/ s.decision = name /\ Carries(r, s, t, "NO_CHANGE", name, Open)
                         \/ Carries(r, s, t, "WAKE_COORDINATOR", name, Open)
<1> DEFINE name == Planned(o, s)
<1>0. Identity(o) = TheIdentity /\ o.at = t /\ o.class # "worker_progress_or_yield"
  BY ObservedFacts
<1>1. ASSUME NEW result, NEW decision, NEW unchanged, r = Later(o, s, result, decision, unchanged)
      PROVE  Carries(r, s, t, result, decision, Open)
  <2>1. r = Emit(o, s, result, decision, Open, o.at + Backoff(s, unchanged), unchanged)
    BY <1>1 DEF Later, Open
  <2> QED
    BY <1>0, <2>1, EmitCarries
<1>2. ASSUME NEW result, NEW decision, r = Now(o, s, result, decision)
      PROVE  Carries(r, s, t, result, decision, Open)
  <2>1. r = Emit(o, s, result, decision, Open, 0, FALSE)
    BY <1>2 DEF Now, Open
  <2> QED
    BY <1>0, <2>1, EmitCarries
<1>3. (o.complete <=> f.plan = "NOOP_COMPLETE") /\ (o.ambiguous <=> f.plan = "RECONCILE_AMBIGUOUS")
  BY DEF Observation, IsAmbiguous
<1>4. o.complete => name = "NOOP_COMPLETE"
  BY <1>3, ObservedFacts DEF Planned
<1> HIDE DEF name
<1>5. CASE name = "NOOP_COMPLETE"
  <2>1. r = Emit(o, s, "CLOSE_WATCH", "NOOP_COMPLETE", Shut, 0, FALSE)
    BY <1>5 DEF MapDecision, name, Shut
  <2> QED
    BY <1>0, <2>1, EmitCarries
<1>6. CASE ~o.complete /\ name = "RECONCILE_AMBIGUOUS"
  <2>1. r = Now(o, s, "BLOCK_RECONCILIATION", "RECONCILE_AMBIGUOUS")
    BY <1>6 DEF MapDecision, name
  <2> QED
    BY <1>2, <2>1
<1>7. CASE ~o.complete /\ name = "BLOCK_HUMAN"
  <2>1. r = NotifyOwner(o, s)
    BY <1>7 DEF MapDecision, name
  <2>2. TellsOf("BLOCK_HUMAN") = Key(Identity(o), "NOTIFY_OWNER", "BLOCK_HUMAN")
    BY <1>0 DEF TellsOf
  <2> QED
    BY <1>1, <1>2, <2>1, <2>2 DEF NotifyOwner
<1>8. CASE ~o.complete /\ name = "RESUME_WORKER"
  <2>1. r = ResumeWorker(o, s)
    BY <1>8 DEF MapDecision, name
  <2> DEFINE n == Now(o, s, "BLOCK_RECONCILIATION", "OUT_OF_SCOPE")
  <2>2. r = [n EXCEPT !.state.digest = Digest(o, "RESUME_WORKER")]
    BY <1>0, <2>1 DEF ResumeWorker
  <2>3. n = Emit(o, s, "BLOCK_RECONCILIATION", "OUT_OF_SCOPE", Open, 0, FALSE)
    BY DEF Now, Open
  <2>4. n = [result |-> n.result, decision |-> n.decision, key |-> n.key, state |-> n.state]
        /\ n.state = [subject |-> n.state.subject, digest |-> n.state.digest,
                      decision |-> n.state.decision, key |-> n.state.key,
                      transition |-> n.state.transition, observed |-> n.state.observed,
                      failures |-> n.state.failures, next |-> n.state.next, closed |-> n.state.closed]
    BY <2>3 DEF Emit
  <2> HIDE DEF n
  <2>5. Carries(n, s, t, "BLOCK_RECONCILIATION", "OUT_OF_SCOPE", Open)
    BY <1>0, <2>3, EmitCarries
  <2>6. /\ r.result = n.result /\ r.key = n.key /\ r.decision = n.decision
        /\ r.state = [n.state EXCEPT !.digest = Digest(o, "RESUME_WORKER")]
    BY <2>2, <2>4
  <2>7. /\ r.state.subject = n.state.subject /\ r.state.decision = n.state.decision
        /\ r.state.key = n.state.key /\ r.state.observed = n.state.observed
        /\ r.state.closed = n.state.closed
    BY <2>4, <2>6
  <2>8. Carries(r, s, t, "BLOCK_RECONCILIATION", "OUT_OF_SCOPE", Open)
    BY <2>5, <2>6, <2>7 DEF Carries
  <2> QED
    BY <2>8
<1>9. CASE /\ ~o.complete
           /\ name \notin {"NOOP_COMPLETE", "RECONCILE_AMBIGUOUS", "BLOCK_HUMAN", "RESUME_WORKER"}
  <2>1. CASE name \in Quiet
    <3>1. r = Later(o, s, "RECHECK_LATER", name, s.digest = Digest(o, name))
      BY <1>9, <2>1 DEF MapDecision, name
    <3> QED
      BY <1>1, <2>1, <3>1
  <2>2. CASE name \notin Quiet
    <3>1. r = Wake(o, s, name)
      BY <1>9, <2>2 DEF MapDecision, name
    <3> QED
      BY <1>1, <1>9, <3>1 DEF Wake
  <2> QED
    BY <2>1, <2>2
<1> QED
  BY <1>4, <1>5, <1>6, <1>7, <1>8, <1>9

LEMMA HostEvaluates ==
  ASSUME NEW s, NEW f, NEW t \in Nat \ {0}, s.observed \in Nat,
         s.subject \in {NoSubject, TheIdentity}, NEW o, o = Observation(f, t)
  PROVE  \/ s.closed /\ Evaluate(o, s) = Preserve(s, "CLOSE_WATCH")
         \/ ~s.closed /\ Evaluate(o, s) = Preserve(s, "NO_CHANGE")
         \/ ~s.closed /\ t >= s.observed /\ Evaluate(o, s) = MapDecision(o, s)
<1>1. Identity(o) = TheIdentity /\ o.at = t /\ o.bound = 0
  BY ObservedFacts
<1>2. ~IsStale(o, s)
  BY <1>1 DEF IsStale
<1>3. ~IsOlder(o, s) => t >= s.observed
  BY <1>1 DEF IsOlder
<1> QED
  BY <1>2, <1>3 DEF Evaluate

LEMMA TellsApart ==
  /\ \A result, name : Key(TheIdentity, result, name) # NoKey
  /\ \A result, name : Key(TheIdentity, result, name) = TellsOf("BLOCK_HUMAN")
                         => result = "NOTIFY_OWNER" /\ name = "BLOCK_HUMAN"
  /\ \A name \in Wakes : TellsOf(name) = Key(TheIdentity, "WAKE_COORDINATOR", name)
  /\ Key(TheIdentity, "NOTIFY_OWNER", "BLOCK_HUMAN") = TellsOf("BLOCK_HUMAN")
  /\ "BLOCK_HUMAN" \notin Wakes /\ "BLOCK_HUMAN" \notin Quiet
  /\ \A name \in Quiet \cup {"NOOP_COMPLETE", "RECONCILE_AMBIGUOUS", "OUT_OF_SCOPE"} : name \notin Wakes
BY DEF Key, NoKey, TellsOf, Wakes, Quiet, Waits

(* One evaluation by the host: an untyped result may be persisted at once, *)
(* a typed one after its delivery; neither takes the state back in time,   *)
(* and a closed watch gives no typed result.                               *)
LEMMA Judged ==
  ASSUME NEW s, NEW f, NEW t \in Nat \ {0}, Remembers(s), NEW r, r = Evaluate(Observation(f, t), s)
  PROVE  /\ r.state.observed >= s.observed
         /\ r.result \in Typed => ~s.closed
         /\ r.result \notin Typed \/ Delivered(r.key) => Remembers(r.state)
<1> DEFINE o == Observation(f, t)
<1>1. s.observed \in Nat /\ s.subject \in {NoSubject, TheIdentity}
  BY DEF Remembers
<1>2. \/ s.closed /\ r = Preserve(s, "CLOSE_WATCH")
      \/ ~s.closed /\ r = Preserve(s, "NO_CHANGE")
      \/ ~s.closed /\ t >= s.observed /\ r = MapDecision(o, s)
  BY <1>1, HostEvaluates
<1> HIDE DEF o
<1>3. CASE \/ s.closed /\ r = Preserve(s, "CLOSE_WATCH")
           \/ ~s.closed /\ r = Preserve(s, "NO_CHANGE")
  <2>1. r.state = s /\ r.result \notin Typed
    BY <1>3 DEF Preserve, Typed
  <2> QED
    BY <1>1, <2>1
<1>4. CASE ~s.closed /\ t >= s.observed /\ r = MapDecision(o, s)
  <2>1. ASSUME NEW result, NEW decision, NEW closed \in BOOLEAN,
               Carries(r, s, t, result, decision, closed)
        PROVE  /\ r.result = result /\ r.key = r.state.key
               /\ r.state.observed \in Nat /\ r.state.observed >= s.observed
               /\ r.state.closed \in BOOLEAN /\ r.state.subject \in {NoSubject, TheIdentity}
               /\ r.state.decision = decision
               /\ r.state.key = IF result = "NO_CHANGE" /\ s.key # NoKey
                                THEN s.key ELSE Key(TheIdentity, result, decision)
    <3>1. r.state.closed \in BOOLEAN
      BY <2>1, Zenon DEF Carries
    <3> QED
      BY <1>1, <1>4, <2>1, <3>1 DEF Carries
  <2>2. Open \in BOOLEAN /\ Shut \in BOOLEAN
    BY DEF Open, Shut
  <2>3. CASE \/ Carries(r, s, t, "CLOSE_WATCH", "NOOP_COMPLETE", Shut)
             \/ Carries(r, s, t, "BLOCK_RECONCILIATION", "RECONCILE_AMBIGUOUS", Open)
             \/ Carries(r, s, t, "BLOCK_RECONCILIATION", "OUT_OF_SCOPE", Open)
             \/ \E name \in Quiet : Carries(r, s, t, "RECHECK_LATER", name, Open)
    <3>1. PICK result \in {"CLOSE_WATCH", "BLOCK_RECONCILIATION", "RECHECK_LATER"},
               name \in Quiet \cup {"NOOP_COMPLETE", "RECONCILE_AMBIGUOUS", "OUT_OF_SCOPE"},
               closed \in BOOLEAN : Carries(r, s, t, result, name, closed)
      BY <2>2, <2>3
    <3>2. /\ r.result = result /\ r.state.key = Key(TheIdentity, result, name)
          /\ r.state.decision = name /\ r.state.observed >= s.observed
          /\ r.state.observed \in Nat /\ r.state.closed \in BOOLEAN
          /\ r.state.subject \in {NoSubject, TheIdentity}
      BY <2>1, <3>1
    <3>3. r.state.key # TellsOf("BLOCK_HUMAN") /\ name \notin Wakes /\ name # "BLOCK_HUMAN"
      BY <3>1, <3>2, TellsApart
    <3>4. Remembers(r.state)
      BY <3>2, <3>3 DEF Remembers
    <3>5. r.result \notin Typed
      BY <3>1, <3>2 DEF Typed
    <3> QED
      BY <3>2, <3>4, <3>5
  <2>4. CASE s.key = TellsOf("BLOCK_HUMAN") /\ Carries(r, s, t, "NO_CHANGE", "BLOCK_HUMAN", Open)
    <3>1. s.key # NoKey /\ Delivered(TellsOf("BLOCK_HUMAN"))
      BY <2>4, TellsApart DEF Remembers
    <3>2. /\ r.result = "NO_CHANGE" /\ r.state.key = TellsOf("BLOCK_HUMAN")
          /\ r.state.decision = "BLOCK_HUMAN" /\ r.state.observed >= s.observed
          /\ r.state.observed \in Nat /\ r.state.closed \in BOOLEAN
          /\ r.state.subject \in {NoSubject, TheIdentity}
      BY <2>1, <2>2, <2>4, <3>1
    <3>3. Remembers(r.state)
      BY <3>1, <3>2, TellsApart DEF Remembers
    <3> QED
      BY <1>4, <3>2, <3>3
  <2>5. CASE Carries(r, s, t, "NOTIFY_OWNER", "BLOCK_HUMAN", Open)
    <3>1. /\ r.result = "NOTIFY_OWNER" /\ r.key = r.state.key
          /\ r.state.key = Key(TheIdentity, "NOTIFY_OWNER", "BLOCK_HUMAN")
          /\ r.state.decision = "BLOCK_HUMAN" /\ r.state.observed >= s.observed
          /\ r.state.observed \in Nat /\ r.state.closed \in BOOLEAN
          /\ r.state.subject \in {NoSubject, TheIdentity}
      BY <2>1, <2>2, <2>5
    <3>2. Delivered(r.key) => Remembers(r.state)
      BY <3>1, TellsApart DEF Remembers
    <3> QED
      BY <1>4, <3>1, <3>2 DEF Typed
  <2>6. ASSUME NEW name, name # "BLOCK_HUMAN", s.decision = name, Carries(r, s, t, "NO_CHANGE", name, Open)
        PROVE  r.state.observed >= s.observed /\ Remembers(r.state)
    <3>1. /\ r.state.key = IF s.key # NoKey THEN s.key ELSE Key(TheIdentity, "NO_CHANGE", name)
          /\ r.state.decision = name /\ r.state.observed >= s.observed
          /\ r.state.observed \in Nat /\ r.state.closed \in BOOLEAN
          /\ r.state.subject \in {NoSubject, TheIdentity}
      BY <2>1, <2>2, <2>6
    <3>2. r.state.key = TellsOf("BLOCK_HUMAN") => s.key = TellsOf("BLOCK_HUMAN")
      BY <3>1, TellsApart
    <3> QED
      BY <2>6, <3>1, <3>2 DEF Remembers
  <2>7. ASSUME NEW name, name # "BLOCK_HUMAN", Carries(r, s, t, "WAKE_COORDINATOR", name, Open)
        PROVE  /\ r.state.observed >= s.observed
               /\ r.result \in Typed
               /\ Delivered(r.key) => Remembers(r.state)
    <3>1. /\ r.result = "WAKE_COORDINATOR" /\ r.key = r.state.key
          /\ r.state.key = Key(TheIdentity, "WAKE_COORDINATOR", name)
          /\ r.state.decision = name /\ r.state.observed >= s.observed
          /\ r.state.observed \in Nat /\ r.state.closed \in BOOLEAN
          /\ r.state.subject \in {NoSubject, TheIdentity}
      BY <2>1, <2>2, <2>7
    <3>2. r.state.key # TellsOf("BLOCK_HUMAN") /\ (name \in Wakes => TellsOf(name) = r.state.key)
      BY <3>1, TellsApart
    <3>3. Delivered(r.key) => Remembers(r.state)
      BY <2>7, <3>1, <3>2 DEF Remembers
    <3> QED
      BY <3>1, <3>3 DEF Typed
  <2> QED
    BY <1>4, <2>3, <2>4, <2>5, <2>6, <2>7, HostMaps DEF o
<1> QED
  BY <1>2, <1>3, <1>4

(* What is remembered stays true while nothing recorded or posted is lost. *)
LEMMA StillRemembers ==
  ASSUME NEW s, Remembers(s), ledger \subseteq ledger', posted \subseteq posted'
  PROVE  Remembers(s)'
BY DEF Remembers, Delivered, DeliveredKeys

-----------------------------------------------------------------------------
(* The type invariant.                                                     *)

LEMMA MarkerTypes ==
  /\ Free \in MarkerRec /\ Taken \in MarkerRec
  /\ \A a \in Attempt : Reserved(a) \in MarkerRec /\ Consumed(a) \in MarkerRec
BY DEF MarkerRec

LEMMA TypeInit == Init => TypeOK /\ now > 0
<1> SUFFICES ASSUME Init PROVE TypeOK /\ now > 0
  OBVIOUS
<1>1. watch.observed \in Nat
  BY DEF Init, Fresh
<1>2. watch.closed \in BOOLEAN
  <2>1. watch.closed = Open
    BY DEF Init, Fresh, Open
  <2> QED
    BY <2>1, Zenon DEF Open
<1>3. registry \in [Dispatch -> MarkerRec]
  BY MarkerTypes DEF Init
<1>4. /\ facts \in Facts /\ now \in Nat /\ now > 0 /\ attempts \in 0 .. MaxAttempts
      /\ env \in [changes : Nat, crashes : Nat, adapter : Nat]
      /\ lock \in Run \cup {NoRun} /\ ledger = {} /\ journal \in IntentRec \cup {NoJournal}
      /\ calls \in Nat /\ posted = {} /\ uses \in [Dispatch -> Nat]
  BY BoundAssumption DEF Init
<1>5. pc \in [Run -> Pcs] /\ DOMAIN run = Run /\ \A p \in Run : pc[p] = "idle"
  BY DEF Init, Pcs
<1> QED
  BY <1>1, <1>2, <1>3, <1>4, <1>5 DEF TypeOK

(* The directory's files, and what a run carries to them.                  *)
Directory ==
  /\ ledger \subseteq [key : Keys, outcome : {"APPLIED", "AMBIGUOUS"}]
  /\ journal \in IntentRec \cup {NoJournal}
  /\ registry \in [Dispatch -> MarkerRec]

Memory ==
  /\ pc \in [Run -> Pcs] /\ DOMAIN run = Run
  /\ \A p \in Run : pc[p] \notin {"idle", "collected", "evaluated"} =>
       /\ run[p].attempt \in Attempt /\ run[p].dispatch \in Dispatch
       /\ run[p].dispatch.effect = EffectOf(p)

World ==
  /\ facts \in Facts /\ now \in Nat /\ now > 0 /\ attempts \in 0 .. MaxAttempts
  /\ env \in [changes : Nat, crashes : Nat, adapter : Nat]
  /\ lock \in Run \cup {NoRun}
  /\ calls \in Nat /\ posted \subseteq Effect /\ uses \in [Dispatch -> Nat]

LEMMA CarriedEffect ==
  ASSUME Memory, NEW p \in Run, pc[p] \notin {"idle", "collected", "evaluated"}
  PROVE  EffectOf(p) \in Effect /\ run[p].result.key \in Keys
<1>1. EffectOf(p) \in Effect
  BY DEF Memory, Dispatch
<1>2. EffectOf(p).key = run[p].result.key
  BY DEF EffectOf
<1> QED
  BY <1>1, <1>2 DEF Keys

LEMMA WorldStep == World /\ Memory /\ Directory /\ Next => World'
<1> SUFFICES ASSUME World, Memory, Directory, Next PROVE World'
  OBVIOUS
<1> USE DEF World
<1>1. ASSUME NEW p \in Run, Begin(p) PROVE World'
  BY <1>1 DEF Begin, Collect, LockHeld, Acquire, PersistUntyped, Release, world, history
<1>2. ASSUME NEW p \in Run, Judge(p) PROVE World'
  <2>1. CASE Refuse(p) \/ Dedup(p)
    BY <2>1 DEF Refuse, Dedup, Release, world, history
  <2>2. ASSUME NEW d \in Dispatch, Mismatch(p, d) \/ Resume(p, d) PROVE World'
    BY <2>2 DEF Mismatch, Resume, Release, world, history
  <2>3. ASSUME NEW d \in Dispatch, Intent(p, d) PROVE World'
    BY <2>3, BoundAssumption DEF Intent, history
  <2> QED
    BY <1>2, <2>1, <2>2, <2>3 DEF Judge
<1>3. ASSUME NEW p \in Run, Reserve(p) PROVE World'
  BY <1>3 DEF Reserve, ReserveCreate, ReserveWrite, ReserveOwned, ReserveRefused, Release, world, history
<1>4. ASSUME NEW p \in Run, Deliver(p) PROVE World'
  <2>1. ASSUME NEW arrives \in BOOLEAN, NEW succeeds \in BOOLEAN, Send(p, arrives, succeeds)
        PROVE  World'
    <3>1. EffectOf(p) \in Effect
      BY <2>1, CarriedEffect DEF Send, At
    <3>2. posted' \subseteq Effect
      BY <2>1, <3>1 DEF Send
    <3>3. run[p].dispatch \in Dispatch
      BY <2>1 DEF Send, At, Memory
    <3> QED
      BY <2>1, <3>2, <3>3 DEF Send, world
  <2>2. CASE CommitSending(p) \/ CommitAmbiguous(p) \/ RecordAmbiguous(p) \/ CommitReceipt(p)
    BY <2>2 DEF CommitSending, CommitAmbiguous, RecordAmbiguous, CommitReceipt, Release, world, history
  <2> QED
    BY <1>4, <2>1, <2>2 DEF Deliver
<1>5. ASSUME NEW p \in Run, Finish(p) PROVE World'
  BY <1>5 DEF Finish, FinalizeTruncate, FinalizeWrite, FinalizedBefore, FinalizeRefused, RecordApplied,
              PersistTyped, Release, world, history
<1>6. ASSUME NEW p \in Run, Crash(p) PROVE World'
  <2>1. env' \in [changes : Nat, crashes : Nat, adapter : Nat]
    BY <1>6 DEF Crash
  <2> QED
    BY <1>6, <2>1 DEF Crash, history
<1>7. ASSUME NEW d \in Dispatch, AdapterConsume(d) PROVE World'
  <2>1. env' \in [changes : Nat, crashes : Nat, adapter : Nat]
    BY <1>7 DEF AdapterConsume
  <2> QED
    BY <1>7, <2>1 DEF AdapterConsume
<1>8. ASSUME NEW f \in Facts, ChangePacket(f) PROVE World'
  <2>1. env' \in [changes : Nat, crashes : Nat, adapter : Nat]
    BY <1>8 DEF ChangePacket
  <2> QED
    BY <1>8, <2>1 DEF ChangePacket, history
<1>9. CASE Tick
  BY <1>9 DEF Tick, history
<1> QED
  BY <1>1, <1>2, <1>3, <1>4, <1>5, <1>6, <1>7, <1>8, <1>9 DEF Next, RunOnce

LEMMA MemoryStep == World /\ Memory /\ Directory /\ Next => Memory'
<1> SUFFICES ASSUME World, Memory, Directory, Next PROVE Memory'
  OBVIOUS
<1>0. Memory => /\ pc \in [Run -> Pcs] /\ DOMAIN run = Run
  BY DEF Memory
<1>1. ASSUME NEW p \in Run, NEW where \in {"idle", "collected", "evaluated"}, NEW data, Enter(p, where, data)
      PROVE  Memory'
  BY <1>1 DEF Enter, Memory, Pcs, EffectOf
<1>2. ASSUME NEW p \in Run, NEW where \in Pcs, Goto(p, where),
             pc[p] \notin {"idle", "collected", "evaluated"}
      PROVE  Memory'
  BY <1>2 DEF Goto, Memory, EffectOf
<1>3. ASSUME NEW p \in Run, NEW where \in Pcs, NEW d \in Dispatch, NEW attempt \in Attempt,
             d.effect = EffectOf(p), Proceed(p, where, d, attempt)
      PROVE  Memory'
  BY <1>3 DEF Proceed, Enter, Memory, EffectOf
<1>4. ASSUME UNCHANGED runs PROVE Memory'
  BY <1>4 DEF runs, Memory, EffectOf
<1>5. ASSUME NEW p \in Run, Release(p) PROVE Memory'
  BY <1>1, <1>5 DEF Release
<1>6. ASSUME NEW p \in Run, Begin(p) PROVE Memory'
  BY <1>1, <1>5, <1>6 DEF Begin, Collect, LockHeld, Acquire, PersistUntyped
<1>7. ASSUME NEW p \in Run, Judge(p) PROVE Memory'
  <2>1. CASE Refuse(p) \/ Dedup(p)
    BY <1>5, <2>1 DEF Refuse, Dedup
  <2>2. ASSUME NEW d \in Dispatch, Mismatch(p, d) PROVE Memory'
    BY <1>5, <2>2 DEF Mismatch
  <2>3. ASSUME NEW d \in Dispatch, Intent(p, d) PROVE Memory'
    <3>1. attempts + 1 \in Attempt
      BY <2>3, BoundAssumption DEF Intent, World, Attempt
    <3>2. d.effect = EffectOf(p) /\ Proceed(p, "reserve", d, attempts + 1)
      BY <2>3 DEF Intent, Authorized, BoundTo
    <3> QED
      BY <1>3, <3>1, <3>2 DEF Pcs
  <2>4. ASSUME NEW d \in Dispatch, Resume(p, d) PROVE Memory'
    <3>1. journal.attempt \in Attempt
      BY <2>4 DEF Resume, Directory, IntentRec
    <3>2. /\ d.effect = EffectOf(p)
          /\ Proceed(p, IF journal.phase = "RECEIPT" THEN "finalize" ELSE "reserve", d, journal.attempt)
      BY <2>4 DEF Resume, Authorized, BoundTo
    <3> QED
      BY <1>3, <3>1, <3>2 DEF Pcs
  <2> QED
    BY <1>7, <2>1, <2>2, <2>3, <2>4 DEF Judge
<1>8. ASSUME NEW p \in Run, Reserve(p) PROVE Memory'
  BY <1>2, <1>5, <1>8
  DEF Reserve, ReserveCreate, ReserveWrite, ReserveOwned, ReserveRefused, At, Pcs
<1>9. ASSUME NEW p \in Run, Deliver(p) PROVE Memory'
  <2>1. ASSUME NEW arrives \in BOOLEAN, NEW succeeds \in BOOLEAN, Send(p, arrives, succeeds)
        PROVE  Memory'
    <3>1. AfterSend(succeeds) \in Pcs
      BY DEF AfterSend, Pcs
    <3> QED
      BY <1>2, <2>1, <3>1 DEF Send, At
  <2>2. CASE CommitSending(p) \/ CommitAmbiguous(p) \/ RecordAmbiguous(p) \/ CommitReceipt(p)
    BY <1>2, <1>5, <2>2 DEF CommitSending, CommitAmbiguous, RecordAmbiguous, CommitReceipt, At, Pcs
  <2> QED
    BY <1>9, <2>1, <2>2 DEF Deliver
<1>10. ASSUME NEW p \in Run, Finish(p) PROVE Memory'
  BY <1>2, <1>5, <1>10
  DEF Finish, FinalizeTruncate, FinalizeWrite, FinalizedBefore, FinalizeRefused, RecordApplied,
      PersistTyped, At, Pcs
<1>11. ASSUME NEW p \in Run, Crash(p) PROVE Memory'
  BY <1>1, <1>11 DEF Crash
<1>12. CASE (\E d \in Dispatch : AdapterConsume(d)) \/ (\E f \in Facts : ChangePacket(f)) \/ Tick
  BY <1>4, <1>12 DEF AdapterConsume, ChangePacket, Tick
<1> QED
  BY <1>6, <1>7, <1>8, <1>9, <1>10, <1>11, <1>12 DEF Next, RunOnce

LEMMA DirectoryStep == World /\ Memory /\ Directory /\ Next => Directory'
<1> SUFFICES ASSUME World, Memory, Directory, Next PROVE Directory'
  OBVIOUS
<1>1. ASSUME UNCHANGED <<ledger, journal, registry>> PROVE Directory'
  BY <1>1 DEF Directory
<1>2. ASSUME NEW p \in Run, pc[p] \notin {"idle", "collected", "evaluated"}, NEW outcome \in {"APPLIED", "AMBIGUOUS"},
             ledger' = ledger \cup {[key |-> run[p].result.key, outcome |-> outcome]},
             UNCHANGED <<journal, registry>>
      PROVE  Directory'
  BY <1>2, CarriedEffect DEF Directory
<1>3. ASSUME NEW p \in Run, pc[p] \notin {"idle", "collected", "evaluated"},
             NEW phase \in {"INTENT", "SENDING", "AMBIGUOUS", "RECEIPT"},
             journal' = Journal(p, phase), UNCHANGED <<ledger, registry>>
      PROVE  Directory'
  <2>1. EffectOf(p) \in Effect /\ run[p].dispatch \in Dispatch /\ run[p].attempt \in Attempt
    BY <1>3, CarriedEffect DEF Memory
  <2>2. journal' \in IntentRec
    BY <1>3, <2>1 DEF Journal, IntentRec
  <2> QED
    BY <1>3, <2>2 DEF Directory
<1>4. ASSUME NEW d \in Dispatch, NEW m \in MarkerRec, registry' = [registry EXCEPT ![d] = m],
             UNCHANGED <<ledger, journal>>
      PROVE  Directory'
  BY <1>4 DEF Directory
<1>5. ASSUME NEW p \in Run, Begin(p) PROVE Directory'
  BY <1>1, <1>5 DEF Begin, Collect, LockHeld, Acquire, PersistUntyped, files
<1>6. ASSUME NEW p \in Run, Judge(p) PROVE Directory'
  <2>1. CASE Refuse(p) \/ Dedup(p)
    BY <1>1, <2>1 DEF Refuse, Dedup
  <2>2. ASSUME NEW d \in Dispatch, Mismatch(p, d) PROVE Directory'
    <3>1. journal' \in IntentRec
      BY <2>2 DEF Mismatch, Directory, IntentRec
    <3> QED
      BY <2>2, <3>1 DEF Mismatch, Directory
  <2>3. ASSUME NEW d \in Dispatch, Intent(p, d) PROVE Directory'
    <3>1. attempts + 1 \in Attempt
      BY <2>3, BoundAssumption DEF Intent, World, Attempt
    <3>2. d.effect = EffectOf(p) /\ d.effect \in Effect
      BY <2>3 DEF Intent, Authorized, BoundTo, Dispatch
    <3>3. journal' \in IntentRec
      BY <2>3, <3>1, <3>2 DEF Intent, IntentRec
    <3> QED
      BY <2>3, <3>3 DEF Intent, Directory
  <2>4. ASSUME NEW d \in Dispatch, Resume(p, d) PROVE Directory'
    BY <1>1, <2>4 DEF Resume, files
  <2> QED
    BY <1>6, <2>1, <2>2, <2>3, <2>4 DEF Judge
<1>7. ASSUME NEW p \in Run, Reserve(p) PROVE Directory'
  <2>1. CASE ReserveCreate(p) \/ ReserveWrite(p)
    BY <1>4, <2>1, MarkerTypes DEF ReserveCreate, ReserveWrite, SetMarker, At, Memory, files
  <2>2. CASE ReserveOwned(p) \/ ReserveRefused(p)
    BY <1>1, <2>2 DEF ReserveOwned, ReserveRefused, files
  <2> QED
    BY <1>7, <2>1, <2>2 DEF Reserve
<1>8. ASSUME NEW p \in Run, Deliver(p) PROVE Directory'
  <2>1. ASSUME NEW arrives \in BOOLEAN, NEW succeeds \in BOOLEAN, Send(p, arrives, succeeds)
        PROVE  Directory'
    BY <1>1, <2>1 DEF Send, files
  <2>2. CASE CommitSending(p) \/ CommitAmbiguous(p) \/ CommitReceipt(p)
    BY <1>3, <2>2 DEF CommitSending, JournalSending, CommitAmbiguous, CommitReceipt, At
  <2>3. CASE RecordAmbiguous(p)
    BY <1>2, <2>3 DEF RecordAmbiguous, At
  <2> QED
    BY <1>8, <2>1, <2>2, <2>3 DEF Deliver
<1>9. ASSUME NEW p \in Run, Finish(p) PROVE Directory'
  <2>1. CASE FinalizeTruncate(p) \/ FinalizeWrite(p)
    BY <1>4, <2>1, MarkerTypes DEF FinalizeTruncate, FinalizeWrite, SetMarker, At, Memory, files
  <2>2. CASE FinalizedBefore(p) \/ FinalizeRefused(p) \/ PersistTyped(p)
    BY <1>1, <2>2 DEF FinalizedBefore, FinalizeRefused, PersistTyped, files
  <2>3. CASE RecordApplied(p)
    BY <1>2, <2>3 DEF RecordApplied, At
  <2> QED
    BY <1>9, <2>1, <2>2, <2>3 DEF Finish
<1>10. ASSUME NEW d \in Dispatch, AdapterConsume(d) PROVE Directory'
  BY <1>4, <1>10, MarkerTypes DEF AdapterConsume, files
<1>11. CASE (\E p \in Run : Crash(p)) \/ (\E f \in Facts : ChangePacket(f)) \/ Tick
  BY <1>1, <1>11 DEF Crash, ChangePacket, Tick, files
<1> QED
  BY <1>5, <1>6, <1>7, <1>8, <1>9, <1>10, <1>11 DEF Next, RunOnce

-----------------------------------------------------------------------------
(* What a step of one run may do to its own memory and to the watch state. *)
Moves(p) ==
  /\ \A q \in Run \ {p} : pc'[q] = pc[q] /\ run'[q] = run[q]
  /\ pc'[p] = "collected" => run'[p].facts = facts /\ run'[p].at = now
  /\ pc'[p] \in Holding => Acquire(p) \/ (pc[p] \in Holding /\ run'[p].result = run[p].result)
  /\ pc'[p] \in Carried => pc[p] \in Carried \/ run[p].result.result \in Typed
  /\ pc'[p] \in Carried => pc[p] \in Holding /\ run'[p].result = run[p].result
  /\ watch' # watch =>
       /\ watch' = run[p].result.state /\ pc[p] \in Holding /\ pc'[p] = "idle"
       /\ run[p].result.result \notin Typed \/ InLedger(p, "APPLIED") \/ pc[p] = "persist"

LEMMA EveryRunMoves ==
  ASSUME Memory, NEW p \in Run, RunOnce(p) \/ Crash(p)
  PROVE  Moves(p)
<1>0. pc \in [Run -> Pcs] /\ DOMAIN run = Run
  BY DEF Memory
<1>1. ASSUME Release(p),
             \/ watch' = watch
             \/ /\ watch' = run[p].result.state /\ pc[p] \in Holding
                /\ run[p].result.result \notin Typed \/ InLedger(p, "APPLIED") \/ pc[p] = "persist"
      PROVE  Moves(p)
  BY <1>0, <1>1 DEF Moves, Release, Enter, Holding, Carried, Pcs
<1>2. ASSUME NEW where, Goto(p, where), pc[p] \in Carried, where \in Carried, watch' = watch PROVE Moves(p)
  BY <1>0, <1>2 DEF Moves, Goto, Holding, Carried, Pcs
<1>3. ASSUME NEW where \in Carried, NEW d, NEW attempt, Proceed(p, where, d, attempt), pc[p] = "evaluated",
             run[p].result.result \in Typed, watch' = watch
      PROVE  Moves(p)
  BY <1>0, <1>3 DEF Moves, Proceed, Enter, Holding, Carried, Pcs
<1>4. CASE Collect(p)
  BY <1>0, <1>4 DEF Moves, Collect, Enter, Holding, Carried, Pcs, files
<1>5. CASE Acquire(p)
  BY <1>0, <1>5 DEF Moves, Acquire, Enter, Holding, Carried, Pcs, files
<1>6. CASE LockHeld(p) \/ Crash(p)
  BY <1>0, <1>6 DEF Moves, LockHeld, Crash, Enter, Holding, Carried, Pcs, files
<1>7. CASE PersistUntyped(p)
  BY <1>1, <1>7 DEF PersistUntyped, At, Holding, Pcs
<1>8. CASE Judge(p)
  <2>1. CASE Refuse(p)
    BY <1>1, <2>1 DEF Refuse, StateRefused
  <2>2. CASE Dedup(p)
    BY <1>1, <2>2 DEF Dedup, Rechecked, At, Holding, Pcs
  <2>3. ASSUME NEW d \in Dispatch, Mismatch(p, d) PROVE Moves(p)
    BY <1>1, <2>3 DEF Mismatch
  <2>4. ASSUME NEW d \in Dispatch, Intent(p, d) PROVE Moves(p)
    BY <1>3, <2>4 DEF Intent, Authorized, Rechecked, At, Carried, Holding, Pcs
  <2>5. ASSUME NEW d \in Dispatch, Resume(p, d) PROVE Moves(p)
    BY <1>3, <2>5 DEF Resume, Authorized, Rechecked, At, Carried, Holding, Pcs, files
  <2> QED
    BY <1>8, <2>1, <2>2, <2>3, <2>4, <2>5 DEF Judge
<1>9. CASE Reserve(p)
  BY <1>1, <1>2, <1>9
  DEF Reserve, ReserveCreate, ReserveWrite, ReserveOwned, ReserveRefused, At, Carried, Holding, Pcs, files
<1>10. CASE Deliver(p)
  <2>1. ASSUME NEW arrives \in BOOLEAN, NEW succeeds \in BOOLEAN, Send(p, arrives, succeeds)
        PROVE  Moves(p)
    <3>1. AfterSend(succeeds) \in Carried
      BY DEF AfterSend, Carried, Holding, Pcs
    <3> QED
      BY <1>2, <2>1, <3>1 DEF Send, At, Carried, Holding, Pcs, files
  <2>2. CASE CommitSending(p) \/ CommitAmbiguous(p) \/ RecordAmbiguous(p) \/ CommitReceipt(p)
    BY <1>1, <1>2, <2>2
    DEF CommitSending, CommitAmbiguous, RecordAmbiguous, CommitReceipt, At, Carried, Holding, Pcs
  <2> QED
    BY <1>10, <2>1, <2>2 DEF Deliver
<1>11. CASE Finish(p)
  BY <1>1, <1>2, <1>11
  DEF Finish, FinalizeTruncate, FinalizeWrite, FinalizedBefore, FinalizeRefused, RecordApplied,
      PersistTyped, At, Carried, Holding, Pcs, files
<1> QED
  BY <1>4, <1>5, <1>6, <1>7, <1>8, <1>9, <1>10, <1>11 DEF RunOnce, Begin

LEMMA OthersMoveNoRun ==
  ASSUME Next, ~\E p \in Run : RunOnce(p) \/ Crash(p)
  PROVE  UNCHANGED <<watch, ledger, journal, posted, calls>> /\ UNCHANGED runs
BY DEF Next, AdapterConsume, ChangePacket, Tick, files, history

LEMMA ReadingStep == HostInv /\ World /\ Memory /\ Reading /\ Next => Reading'
<1> SUFFICES ASSUME HostInv, World, Memory, Reading, Next PROVE Reading'
  OBVIOUS
<1>1. ASSUME NEW p \in Run, RunOnce(p) \/ Crash(p) PROVE Reading'
  <2>1. Moves(p)
    BY <1>1, EveryRunMoves
  <2> SUFFICES ASSUME NEW q \in Run
               PROVE  /\ pc'[q] = "collected" => run'[q].facts \in Facts /\ run'[q].at \in Nat \ {0}
                      /\ pc'[q] \in Holding =>
                           \E f \in Facts, t \in Nat \ {0} : run'[q].result = Evaluate(Observation(f, t), watch')
                      /\ pc'[q] \in Carried => run'[q].result.result \in Typed
    BY DEF Reading, Evaluate, Observation
  <2>2. CASE q = p
    <3>1. facts \in Facts /\ now \in Nat \ {0}
      BY DEF World
    <3>2. CASE Acquire(p)
      <4>1. /\ run'[p].result = Evaluate(Observation(run[p].facts, run[p].at), watch) /\ watch' = watch
            /\ pc'[p] = "evaluated"
        BY <3>2 DEF Acquire, Enter, files, Memory
      <4>2. run[p].facts \in Facts /\ run[p].at \in Nat \ {0}
        BY <3>2 DEF Acquire, At, Reading
      <4> QED
        BY <2>2, <4>1, <4>2 DEF Carried, Holding
    <3>3. CASE ~Acquire(p)
      <4>1. pc'[p] \in Holding => watch' = watch
        BY <2>1 DEF Moves, Holding
      <4> QED
        BY <2>1, <2>2, <3>1, <3>3, <4>1 DEF Moves, Reading
    <3> QED
      BY <3>2, <3>3
  <2>3. CASE q # p
    <3>1. pc[q] \in Holding => watch' = watch
      BY <2>1, <2>3 DEF Moves, HostInv, Exclusive
    <3> QED
      BY <2>1, <2>3, <3>1 DEF Moves, Reading, Carried
  <2> QED
    BY <2>2, <2>3
<1>2. CASE ~\E p \in Run : RunOnce(p) \/ Crash(p)
  <2>1. UNCHANGED <<watch, pc, run>>
    BY <1>2, OthersMoveNoRun DEF runs
  <2> QED
    BY <2>1 DEF Reading
<1> QED
  BY <1>1, <1>2

-----------------------------------------------------------------------------
(* What has arrived.                                                       *)
Sent == {"sent", "finalize", "finalizing", "record_applied"}

LEMMA NothingIsLost == Next => ledger \subseteq ledger' /\ posted \subseteq posted'
<1> SUFFICES ASSUME Next PROVE ledger \subseteq ledger' /\ posted \subseteq posted'
  OBVIOUS
<1>1. ASSUME NEW p \in Run, RunOnce(p) \/ Crash(p) PROVE ledger \subseteq ledger' /\ posted \subseteq posted'
  <2>1. CASE Begin(p) \/ Judge(p) \/ Crash(p)
    BY <2>1
    DEF Begin, Collect, LockHeld, Acquire, PersistUntyped, Judge, Refuse, Dedup, Mismatch, Intent, Resume,
        Crash, files, history
  <2>2. CASE Reserve(p) \/ Finish(p)
    BY <2>2
    DEF Reserve, ReserveCreate, ReserveWrite, ReserveOwned, ReserveRefused, Finish, FinalizeTruncate,
        FinalizeWrite, FinalizedBefore, FinalizeRefused, RecordApplied, PersistTyped, files, history
  <2>3. CASE Deliver(p)
    BY <2>3 DEF Deliver, CommitSending, Send, CommitAmbiguous, RecordAmbiguous, CommitReceipt, files, history
  <2> QED
    BY <1>1, <2>1, <2>2, <2>3 DEF RunOnce
<1> QED
  BY <1>1, OthersMoveNoRun

(* What was posted, apart from the places of the runs, and at them.        *)
Recorded ==
  /\ calls = 0 => posted = {}
  /\ \A e1, e2 \in posted : e1 = e2
  /\ \A l \in ledger : l.outcome = "APPLIED" => l.key \in DeliveredKeys
  /\ journal.phase = "RECEIPT" => journal.effect \in posted

Placed ==
  \A p \in Run :
    /\ pc[p] \in Sent => EffectOf(p) \in posted
    /\ pc[p] = "persist" => Delivered(run[p].result.key)

LEMMA RecordedStep == HostInv /\ Memory /\ Directory /\ Recorded /\ Placed /\ Next => Recorded'
<1> SUFFICES ASSUME HostInv, Memory, Directory, Recorded, Placed, Next PROVE Recorded'
  OBVIOUS
<1>1. ASSUME UNCHANGED <<calls, posted, ledger, journal>> PROVE Recorded'
  BY <1>1 DEF Recorded, DeliveredKeys
<1>2. ASSUME UNCHANGED <<calls, posted, ledger>>, journal'.phase # "RECEIPT" PROVE Recorded'
  BY <1>2 DEF Recorded, DeliveredKeys
<1>3. ASSUME NEW p \in Run, Begin(p) \/ Reserve(p) \/ Crash(p) PROVE Recorded'
  BY <1>1, <1>3
  DEF Begin, Collect, LockHeld, Acquire, PersistUntyped, Reserve, ReserveCreate, ReserveWrite, ReserveOwned,
      ReserveRefused, Crash, files, history
<1>4. ASSUME NEW p \in Run, Judge(p) PROVE Recorded'
  <2>1. CASE Refuse(p) \/ Dedup(p)
    BY <1>1, <2>1 DEF Refuse, Dedup, history
  <2>2. ASSUME NEW d \in Dispatch, Mismatch(p, d) PROVE Recorded'
    <3>1. journal'.phase = "AMBIGUOUS"
      BY <2>2 DEF Mismatch, Directory, IntentRec
    <3> QED
      BY <1>2, <2>2, <3>1 DEF Mismatch, history
  <2>3. ASSUME NEW d \in Dispatch, Intent(p, d) PROVE Recorded'
    BY <1>2, <2>3 DEF Intent, history
  <2>4. ASSUME NEW d \in Dispatch, Resume(p, d) PROVE Recorded'
    BY <1>1, <2>4 DEF Resume, files, history
  <2> QED
    BY <1>4, <2>1, <2>2, <2>3, <2>4 DEF Judge
<1>5. ASSUME NEW p \in Run, Deliver(p) PROVE Recorded'
  <2>1. ASSUME NEW arrives \in BOOLEAN, NEW succeeds \in BOOLEAN, Send(p, arrives, succeeds)
        PROVE  Recorded'
    <3>1. calls = 0 /\ journal.phase = "SENDING"
      BY <2>1 DEF Send, At, HostInv, Announced
    <3>2. posted = {}
      BY <3>1 DEF Recorded
    <3>3. calls' = 1 /\ \A e1, e2 \in posted' : e1 = e2
      BY <2>1, <3>1, <3>2 DEF Send
    <3>4. UNCHANGED <<ledger, journal>> /\ posted \subseteq posted'
      BY <2>1 DEF Send, files
    <3> QED
      BY <3>1, <3>3, <3>4 DEF Recorded, DeliveredKeys
  <2>2. CASE CommitSending(p) \/ CommitAmbiguous(p)
    BY <1>2, <2>2 DEF CommitSending, JournalSending, CommitAmbiguous, Journal, history
  <2>3. CASE RecordAmbiguous(p)
    BY <2>3 DEF RecordAmbiguous, Recorded, DeliveredKeys, history
  <2>4. CASE CommitReceipt(p)
    <3>1. EffectOf(p) \in posted
      BY <2>4 DEF CommitReceipt, At, Placed, Sent
    <3>2. journal'.effect = EffectOf(p)
      BY <2>4 DEF CommitReceipt, Journal
    <3> QED
      BY <2>4, <3>1, <3>2 DEF CommitReceipt, Recorded, DeliveredKeys, history
  <2> QED
    BY <1>5, <2>1, <2>2, <2>3, <2>4 DEF Deliver
<1>6. ASSUME NEW p \in Run, Finish(p) PROVE Recorded'
  <2>1. CASE FinalizeTruncate(p) \/ FinalizeWrite(p) \/ FinalizedBefore(p) \/ FinalizeRefused(p) \/ PersistTyped(p)
    BY <1>1, <2>1 DEF FinalizeTruncate, FinalizeWrite, FinalizedBefore, FinalizeRefused, PersistTyped,
                      files, history
  <2>2. CASE RecordApplied(p)
    <3>1. EffectOf(p) \in posted /\ EffectOf(p).key = run[p].result.key
      BY <2>2 DEF RecordApplied, At, Placed, Sent, EffectOf
    <3>2. run[p].result.key \in DeliveredKeys
      BY <3>1 DEF DeliveredKeys
    <3> QED
      BY <2>2, <3>2 DEF RecordApplied, Recorded, DeliveredKeys, history
  <2> QED
    BY <1>6, <2>1, <2>2 DEF Finish
<1>7. CASE ~\E p \in Run : RunOnce(p) \/ Crash(p)
  BY <1>1, <1>7, OthersMoveNoRun
<1> QED
  BY <1>3, <1>4, <1>5, <1>6, <1>7 DEF RunOnce

LEMMA PlacedStep == HostInv /\ Memory /\ Directory /\ Recorded /\ Placed /\ Next => Placed'
<1> SUFFICES ASSUME HostInv, Memory, Directory, Recorded, Placed, Next PROVE Placed'
  OBVIOUS
<1>0. ledger \subseteq ledger' /\ posted \subseteq posted'
  BY NothingIsLost
<1>a. \A key : Delivered(key) => Delivered(key)'
  BY <1>0 DEF Delivered, DeliveredKeys
<1>1. ASSUME NEW p \in Run, RunOnce(p) \/ Crash(p),
             pc'[p] \in Sent => EffectOf(p)' \in posted',
             pc'[p] = "persist" => Delivered(run[p].result.key)' /\ run'[p].result = run[p].result
      PROVE  Placed'
  BY <1>0, <1>a, <1>1, EveryRunMoves DEF Placed, Moves, EffectOf, Delivered, DeliveredKeys
<1>2. ASSUME NEW p \in Run, RunOnce(p) \/ Crash(p), pc'[p] \notin Sent \cup {"persist"} PROVE Placed'
  BY <1>1, <1>2
<1>3. ASSUME NEW p \in Run, NEW where, Enter(p, where, Nothing) \/ Goto(p, where),
             where \notin Sent \cup {"persist"}, RunOnce(p) \/ Crash(p)
      PROVE  Placed'
  BY <1>2, <1>3 DEF Enter, Goto, Memory
<1>4. ASSUME NEW p \in Run, NEW where, Goto(p, where), pc[p] \in Sent, where \in Sent, RunOnce(p)
      PROVE  Placed'
  BY <1>0, <1>1, <1>4 DEF Goto, Memory, Placed, Sent, EffectOf
<1>5. ASSUME NEW p \in Run, Release(p), RunOnce(p) PROVE Placed'
  BY <1>3, <1>5 DEF Release, Sent
<1>6. ASSUME NEW p \in Run, Begin(p) PROVE Placed'
  BY <1>2, <1>5, <1>6
  DEF RunOnce, Begin, Collect, LockHeld, Acquire, PersistUntyped, Enter, Memory, Sent
<1>7. ASSUME NEW p \in Run, Judge(p) PROVE Placed'
  <2>1. CASE Refuse(p) \/ Dedup(p)
    BY <1>5, <1>7, <2>1 DEF RunOnce, Refuse, Dedup
  <2>2. ASSUME NEW d \in Dispatch, Mismatch(p, d) PROVE Placed'
    BY <1>5, <1>7, <2>2 DEF RunOnce, Mismatch
  <2>3. ASSUME NEW d \in Dispatch, Intent(p, d) PROVE Placed'
    BY <1>2, <1>7, <2>3 DEF RunOnce, Intent, Proceed, Enter, Memory, Sent
  <2>4. ASSUME NEW d \in Dispatch, Resume(p, d) PROVE Placed'
    <3>1. /\ pc'[p] = IF journal.phase = "RECEIPT" THEN "finalize" ELSE "reserve"
          /\ run'[p].result = run[p].result /\ run'[p].facts = run[p].facts
      BY <2>4 DEF Resume, Proceed, Enter, Memory
    <3>2. EffectOf(p)' = EffectOf(p)
      BY <3>1 DEF EffectOf
    <3>3. journal.effect = EffectOf(p)
      BY <2>4 DEF Resume
    <3> QED
      BY <1>0, <1>1, <1>7, <3>1, <3>2, <3>3 DEF RunOnce, Recorded, Sent
  <2> QED
    BY <1>7, <2>1, <2>2, <2>3, <2>4 DEF Judge
<1>8. ASSUME NEW p \in Run, Reserve(p) PROVE Placed'
  BY <1>3, <1>5, <1>8
  DEF RunOnce, Reserve, ReserveCreate, ReserveWrite, ReserveOwned, ReserveRefused, Sent
<1>9. ASSUME NEW p \in Run, Deliver(p) PROVE Placed'
  <2>1. ASSUME NEW arrives \in BOOLEAN, NEW succeeds \in BOOLEAN, Send(p, arrives, succeeds)
        PROVE  Placed'
    <3>1. pc'[p] = AfterSend(succeeds) /\ run' = run
      BY <2>1 DEF Send, Goto, Memory
    <3>2. CASE succeeds
      <4>1. EffectOf(p) \in posted'
        BY <2>1, <3>2 DEF Send
      <4>2. EffectOf(p)' = EffectOf(p)
        BY <3>1 DEF EffectOf
      <4> QED
        BY <1>1, <1>9, <3>1, <3>2, <4>1, <4>2 DEF RunOnce, AfterSend
    <3>3. CASE ~succeeds
      BY <1>2, <1>9, <3>1, <3>3 DEF RunOnce, AfterSend, Sent
    <3> QED
      BY <3>2, <3>3
  <2>2. CASE CommitSending(p) \/ CommitAmbiguous(p)
    BY <1>3, <1>9, <2>2 DEF RunOnce, CommitSending, CommitAmbiguous, Sent
  <2>3. CASE RecordAmbiguous(p)
    BY <1>5, <1>9, <2>3 DEF RunOnce, RecordAmbiguous
  <2>4. CASE CommitReceipt(p)
    BY <1>4, <1>9, <2>4 DEF RunOnce, CommitReceipt, At, Sent
  <2> QED
    BY <1>9, <2>1, <2>2, <2>3, <2>4 DEF Deliver
<1>10. ASSUME NEW p \in Run, Finish(p) PROVE Placed'
  <2>1. CASE FinalizeTruncate(p) \/ FinalizeWrite(p) \/ FinalizedBefore(p)
    BY <1>4, <1>10, <2>1 DEF RunOnce, FinalizeTruncate, FinalizeWrite, FinalizedBefore, At, Sent
  <2>2. CASE FinalizeRefused(p) \/ PersistTyped(p)
    BY <1>5, <1>10, <2>2 DEF RunOnce, FinalizeRefused, PersistTyped
  <2>3. CASE RecordApplied(p)
    <3>1. EffectOf(p) \in posted /\ EffectOf(p).key = run[p].result.key
      BY <2>3 DEF RecordApplied, At, Placed, Sent, EffectOf
    <3>2. run[p].result.key \in DeliveredKeys'
      BY <1>0, <3>1 DEF DeliveredKeys
    <3>3. run' = run /\ pc'[p] = "persist"
      BY <2>3 DEF RecordApplied, Goto, Memory
    <3>4. Delivered(run[p].result.key)'
      BY <2>3, <3>2, <3>3 DEF RecordApplied, Delivered
    <3> QED
      BY <1>1, <1>10, <3>3, <3>4 DEF RunOnce, Sent
  <2> QED
    BY <1>10, <2>1, <2>2, <2>3 DEF Finish
<1>11. ASSUME NEW p \in Run, Crash(p) PROVE Placed'
  BY <1>3, <1>11 DEF Crash, Sent
<1>12. CASE ~\E p \in Run : RunOnce(p) \/ Crash(p)
  <2>1. UNCHANGED <<ledger, posted, pc, run>>
    BY <1>12, OthersMoveNoRun DEF runs
  <2> QED
    BY <2>1 DEF Placed, EffectOf, Delivered, DeliveredKeys
<1> QED
  BY <1>6, <1>7, <1>8, <1>9, <1>10, <1>11, <1>12 DEF RunOnce

-----------------------------------------------------------------------------
(* The watch state.                                                        *)

LEMMA WatchStep ==
  HostInv /\ Reading /\ Memory /\ Recorded /\ Placed /\ Remembers(watch) /\ Next
    => Remembers(watch)' /\ watch'.observed >= watch.observed
<1> SUFFICES ASSUME HostInv, Reading, Memory, Recorded, Placed, Remembers(watch), Next
             PROVE  Remembers(watch)' /\ watch'.observed >= watch.observed
  OBVIOUS
<1>0. ledger \subseteq ledger' /\ posted \subseteq posted'
  BY NothingIsLost
<1>1. CASE watch' = watch
  <2>1. PICK s : s = watch
    OBVIOUS
  <2>2. Remembers(s) /\ s.observed \in Nat
    BY <2>1 DEF Remembers
  <2>3. Remembers(s)'
    BY <1>0, <2>2, StillRemembers
  <2> QED
    BY <1>1, <2>1, <2>2, <2>3 DEF Remembers
<1>2. CASE watch' # watch
  <2>1. PICK p \in Run : RunOnce(p) \/ Crash(p)
    BY <1>2, OthersMoveNoRun
  <2>2. /\ watch' = run[p].result.state /\ pc[p] \in Holding
        /\ run[p].result.result \notin Typed \/ InLedger(p, "APPLIED") \/ pc[p] = "persist"
    BY <1>2, <2>1, EveryRunMoves DEF Moves
  <2>3. PICK f \in Facts, t \in Nat \ {0} : run[p].result = Evaluate(Observation(f, t), watch)
    BY <2>2 DEF Reading
  <2>4. InLedger(p, "APPLIED") \/ pc[p] = "persist" => Delivered(run[p].result.key)
    BY DEF InLedger, Delivered, Recorded, Placed
  <2>5. PICK r : r = run[p].result
    OBVIOUS
  <2>6. r.state.observed >= watch.observed /\ Remembers(r.state)
    BY <2>2, <2>3, <2>4, <2>5, Judged
  <2>7. Remembers(r.state)'
    BY <1>0, <2>6, StillRemembers
  <2> QED
    BY <2>2, <2>5, <2>6, <2>7 DEF Remembers
<1> QED
  BY <1>1, <1>2

DataInv ==
  /\ HostInv /\ World /\ Memory /\ Directory
  /\ Reading /\ Recorded /\ Placed /\ Remembers(watch)

LEMMA TypesAre == World /\ Memory /\ Directory /\ Remembers(watch) => TypeOK
BY DEF World, Memory, Directory, Remembers, TypeOK

LEMMA DataInit == Init => DataInv
<1> SUFFICES ASSUME Init PROVE DataInv
  OBVIOUS
<1>1. TypeOK /\ now > 0 /\ HostInv
  BY TypeInit, HostInvInit
<1>2. World /\ Memory /\ Directory
  BY <1>1 DEF TypeOK, World, Memory, Directory
<1>3. \A p \in Run : pc[p] = "idle"
  BY DEF Init
<1>4. Reading /\ Placed
  BY <1>3 DEF Reading, Placed, Holding, Carried, Pcs, Sent
<1>5. Recorded
  BY DEF Init, Recorded, NoJournal
<1>6. Remembers(watch)
  <2>1. watch.observed \in Nat /\ watch.closed \in BOOLEAN
    BY <1>1 DEF TypeOK
  <2>2. watch.decision = "" /\ watch.key = NoKey /\ watch.subject = NoSubject
    BY DEF Init, Fresh
  <2>3. "" \notin Wakes /\ TellsOf("BLOCK_HUMAN") # NoKey
    BY TellsApart DEF Wakes
  <2> QED
    BY <2>1, <2>2, <2>3 DEF Remembers
<1> QED
  BY <1>1, <1>2, <1>4, <1>5, <1>6 DEF DataInv

LEMMA DataStep == DataInv /\ [Next]_vars => DataInv'
<1>1. DataInv /\ Next => DataInv'
  BY HostInvStep, WorldStep, MemoryStep, DirectoryStep, ReadingStep, RecordedStep, PlacedStep, WatchStep
  DEF DataInv
<1>2. DataInv /\ UNCHANGED vars => DataInv'
  <2> SUFFICES ASSUME DataInv, UNCHANGED vars PROVE DataInv'
    OBVIOUS
  <2>1. HostInv'
    BY HostInvStep DEF DataInv
  <2>2. UNCHANGED <<facts, now, env, attempts, lock, watch, ledger, journal, registry, pc, run, calls, posted, uses>>
    BY DEF vars, world, files, runs, history
  <2>3. (World /\ Memory /\ Directory)'
    BY <2>2 DEF DataInv, World, Memory, Directory, EffectOf
  <2>4. (Reading /\ Recorded /\ Placed)'
    BY <2>2 DEF DataInv, Reading, Recorded, Placed, EffectOf, Delivered, DeliveredKeys
  <2>5. Remembers(watch)'
    BY <2>2 DEF DataInv, Remembers, Delivered, DeliveredKeys
  <2> QED
    BY <2>1, <2>3, <2>4, <2>5 DEF DataInv
<1> QED
  BY <1>1, <1>2

LEMMA DataHolds == Spec => []DataInv
  BY DataInit, DataStep, PTL DEF Spec

(* The files hold what their readers accept, and a run past the journal    *)
(* carries a dispatch signed for its effect, in every behaviour.           *)
THEOREM FilesWellFormed == Spec => []TypeOK
<1>1. DataInv => TypeOK
  BY TypesAre DEF DataInv
<1> QED
  BY <1>1, DataHolds, PTL

(* No wake and no notice is lost: what watch-state.json remembers as told, *)
(* and _map_decision therefore suppresses, is APPLIED in the ledger and    *)
(* was posted, for any overlapping runs and crashes.                       *)
THEOREM RememberedIsDelivered == Spec => []RememberedWasDelivered
<1>1. DataInv => RememberedWasDelivered
  BY TellsApart DEF DataInv, Remembers, RememberedWasDelivered, Delivered
<1> QED
  BY <1>1, DataHolds, PTL

(* The watch state never goes back to an older observation, although runs  *)
(* that overlap finish in any order.                                       *)
THEOREM WatchAdvances == Spec => WatchNeverRollsBack
<1>1. DataInv /\ [Next]_vars => [watch'.observed >= watch.observed]_vars
  BY WatchStep DEF DataInv
<1> QED
  BY <1>1, DataHolds, PTL DEF Spec, WatchNeverRollsBack

(* Once the watch is closed no run sends for it: a run that is about to    *)
(* send judged the state that is still there, and it was open.             *)
THEOREM ClosedIsSilent == Spec => ClosedWatchNeverSends
<1>1. DataInv /\ [Next]_vars => [watch.closed => calls' = calls]_vars
  <2> SUFFICES ASSUME DataInv, Next, watch.closed PROVE calls' = calls
    OBVIOUS
  <2>1. ASSUME NEW p \in Run, NEW arrives \in BOOLEAN, NEW succeeds \in BOOLEAN, Send(p, arrives, succeeds)
        PROVE  FALSE
    <3>1. pc[p] \in Holding /\ run[p].result.result \in Typed
      BY <2>1 DEF Send, At, DataInv, Reading, Carried, Holding, Pcs
    <3>2. PICK f \in Facts, t \in Nat \ {0} : run[p].result = Evaluate(Observation(f, t), watch)
      BY <3>1 DEF DataInv, Reading
    <3>3. ~watch.closed
      BY <3>1, <3>2, Judged DEF DataInv
    <3> QED
      BY <3>3
  <2>2. ASSUME NEW p \in Run, RunOnce(p) \/ Crash(p),
               ~\E arrives, succeeds \in BOOLEAN : Send(p, arrives, succeeds)
        PROVE  calls' = calls
    <3>1. CASE Begin(p) \/ Judge(p) \/ Crash(p)
      BY <3>1
      DEF Begin, Collect, LockHeld, Acquire, PersistUntyped, Judge, Refuse, Dedup, Mismatch, Intent, Resume,
          Crash, files, history
    <3>2. CASE Reserve(p) \/ Finish(p)
      BY <3>2
      DEF Reserve, ReserveCreate, ReserveWrite, ReserveOwned, ReserveRefused, Finish, FinalizeTruncate,
          FinalizeWrite, FinalizedBefore, FinalizeRefused, RecordApplied, PersistTyped, files, history
    <3>3. CASE Deliver(p)
      BY <2>2, <3>3 DEF Deliver, CommitSending, CommitAmbiguous, RecordAmbiguous, CommitReceipt, history
    <3> QED
      BY <2>2, <3>1, <3>2, <3>3 DEF RunOnce
  <2> QED
    BY <2>1, <2>2, OthersMoveNoRun
<1> QED
  BY <1>1, DataHolds, PTL DEF Spec, ClosedWatchNeverSends

-----------------------------------------------------------------------------
(* The refinement of DeliveryPromise.                                      *)

RecordedKeys == {e.key : e \in {l \in ledger : l.outcome = "APPLIED"}}

PromiseStep ==
  [Promise!Attempt \/ Promise!Record]_<<calls > 0, DeliveredKeys, RecordedKeys>>

LEMMA UnseenStep ==
  ASSUME UNCHANGED <<calls, posted>>, RecordedKeys' = RecordedKeys
  PROVE  PromiseStep
BY DEF PromiseStep, DeliveredKeys

(* An AMBIGUOUS entry of the ledger is no record of a delivery.            *)
LEMMA PromiseKept == DataInv /\ Next => PromiseStep
<1> SUFFICES ASSUME DataInv, Next PROVE PromiseStep
  OBVIOUS
<1>1. ASSUME UNCHANGED <<calls, posted, ledger>> PROVE PromiseStep
  BY <1>1, UnseenStep DEF RecordedKeys
<1>2. ASSUME NEW p \in Run, Begin(p) \/ Judge(p) \/ Crash(p) PROVE PromiseStep
  BY <1>1, <1>2
  DEF Begin, Collect, LockHeld, Acquire, PersistUntyped, Judge, Refuse, Dedup, Mismatch, Intent, Resume,
      Crash, files, history
<1>3. ASSUME NEW p \in Run, Reserve(p) PROVE PromiseStep
  BY <1>1, <1>3
  DEF Reserve, ReserveCreate, ReserveWrite, ReserveOwned, ReserveRefused, files, history
<1>4. ASSUME NEW p \in Run, NEW arrives \in BOOLEAN, NEW succeeds \in BOOLEAN, Send(p, arrives, succeeds)
      PROVE  PromiseStep
  <2>1. calls = 0 /\ calls' = 1
    BY <1>4 DEF Send, At, DataInv, HostInv, Announced
  <2>2. posted = {} /\ DeliveredKeys = {}
    BY <2>1 DEF DataInv, Recorded, DeliveredKeys
  <2>3. EffectOf(p) \in Effect
    BY <1>4, CarriedEffect DEF Send, At, DataInv
  <2>4. DeliveredKeys' = {} \/ DeliveredKeys' = {EffectOf(p).key}
    BY <1>4, <2>2 DEF Send, DeliveredKeys
  <2>5. EffectOf(p).key \in Keys
    BY <2>3 DEF Keys
  <2>6. RecordedKeys' = RecordedKeys
    BY <1>4 DEF Send, files, RecordedKeys
  <2>7. ~(calls > 0) /\ (calls > 0)' = TRUE
    BY <2>1
  <2>8. Promise!Attempt
    BY <2>2, <2>4, <2>5, <2>6, <2>7 DEF Promise!Attempt, RecordedKeys
  <2> QED
    BY <2>8 DEF PromiseStep
<1>5. ASSUME NEW p \in Run, Deliver(p), ~\E arrives, succeeds \in BOOLEAN : Send(p, arrives, succeeds)
      PROVE  PromiseStep
  <2>1. CASE CommitSending(p) \/ CommitAmbiguous(p) \/ CommitReceipt(p)
    BY <1>1, <2>1 DEF CommitSending, CommitAmbiguous, CommitReceipt, history
  <2>2. CASE RecordAmbiguous(p)
    <3>1. {l \in ledger' : l.outcome = "APPLIED"} = {l \in ledger : l.outcome = "APPLIED"}
      BY <2>2 DEF RecordAmbiguous
    <3> QED
      BY <2>2, <3>1, UnseenStep DEF RecordAmbiguous, RecordedKeys, history
  <2> QED
    BY <1>5, <2>1, <2>2 DEF Deliver
<1>6. ASSUME NEW p \in Run, Finish(p) PROVE PromiseStep
  <2>1. CASE FinalizeTruncate(p) \/ FinalizeWrite(p) \/ FinalizedBefore(p) \/ FinalizeRefused(p) \/ PersistTyped(p)
    BY <1>1, <2>1 DEF FinalizeTruncate, FinalizeWrite, FinalizedBefore, FinalizeRefused, PersistTyped,
                      files, history
  <2>2. CASE RecordApplied(p)
    <3>1. EffectOf(p) \in posted /\ EffectOf(p).key = run[p].result.key
      BY <2>2 DEF RecordApplied, At, DataInv, Placed, Sent, EffectOf
    <3>2. DeliveredKeys = {run[p].result.key}
      BY <3>1 DEF DeliveredKeys, DataInv, Recorded
    <3>3. \A l \in ledger : l.outcome = "APPLIED" => l.key = run[p].result.key
      BY <3>2 DEF DataInv, Recorded
    <3>4. RecordedKeys' = {run[p].result.key}
      <4> DEFINE entry == [key |-> run[p].result.key, outcome |-> "APPLIED"]
      <4>1. ledger' = ledger \cup {entry} /\ entry.key = run[p].result.key /\ entry.outcome = "APPLIED"
        BY <2>2 DEF RecordApplied
      <4> HIDE DEF entry
      <4>2. \A l \in ledger' : l.outcome = "APPLIED" => l.key = run[p].result.key
        BY <3>3, <4>1
      <4>3. entry \in {l \in ledger' : l.outcome = "APPLIED"}
        BY <4>1
      <4> QED
        BY <4>1, <4>2, <4>3 DEF RecordedKeys
    <3>5. UNCHANGED <<calls, posted>>
      BY <2>2 DEF RecordApplied, history
    <3>6. Promise!Record
      BY <3>2, <3>4, <3>5 DEF Promise!Record, RecordedKeys, DeliveredKeys
    <3> QED
      BY <3>6 DEF PromiseStep
  <2> QED
    BY <1>6, <2>1, <2>2 DEF Finish
<1>7. CASE ~\E p \in Run : RunOnce(p) \/ Crash(p)
  BY <1>1, <1>7, OthersMoveNoRun
<1> QED
  BY <1>2, <1>3, <1>4, <1>5, <1>6, <1>7 DEF RunOnce

(* The directory, read through its ledger and what was posted, implements  *)
(* DeliveryPromise: every write of every run, and every crash, is one      *)
(* attempt, one record, or invisible.                                      *)
THEOREM HostImplementsPromise == Spec => DeliveryKept
<1>1. Init => Promise!Init
  <2> SUFFICES ASSUME Init PROVE Promise!Init
    OBVIOUS
  <2>1. calls = 0 /\ posted = {} /\ ledger = {}
    BY DEF Init
  <2>2. (calls > 0) = FALSE
    BY <2>1
  <2> QED
    BY <2>1, <2>2 DEF Promise!Init, DeliveredKeys
<1>2. DataInv /\ [Next]_vars => PromiseStep
  <2>1. UNCHANGED vars => UNCHANGED <<calls, posted, ledger>>
    BY DEF vars, files, history
  <2>2. UNCHANGED vars => PromiseStep
    BY <2>1, UnseenStep DEF RecordedKeys
  <2> QED
    BY <2>2, PromiseKept
<1>3. DataInv /\ [Next]_vars =>
        [Promise!Attempt \/ Promise!Record]_<<calls > 0, DeliveredKeys, RecordedKeys>>
  BY <1>2 DEF PromiseStep
<1> QED
  BY <1>1, <1>3, DataHolds, PTL DEF Spec, DeliveryKept, Promise!Spec, Promise!vars, RecordedKeys
=============================================================================
