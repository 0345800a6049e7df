------------------------------ MODULE WatchHost ------------------------------
(***************************************************************************)
(* tools/coordinator_watch_host.py: the runs of the watch host on one      *)
(* watch, that is, on one directory of canonical_watch_dir.                *)
(*                                                                         *)
(* An external scheduler starts run-once whenever it likes, so runs        *)
(* overlap; each is a process that may die between any two of its writes.  *)
(* The lock, the watch state, the ledger and the effect journal are files  *)
(* of the directory.  The dispatch registry is the replay directory of     *)
(* tools/skills-contract.py, which the worker adapter uses as well.        *)
(*                                                                         *)
(* The repository, workstream, intent revision and subject are fixed by    *)
(* the directory.  What varies is the packet's status and branch, and the  *)
(* planner's decision.                                                     *)
(***************************************************************************)
EXTENDS WatchEvaluator, FiniteSets

CONSTANTS
  Run,                     \* processes running run-once
  Plan, Branch,            \* planner decisions and branches of the packet
  Nonce,                   \* a dispatch is an effect, signed, with a nonce
  MaxTime, MaxChanges, MaxCrashes, MaxAdapter, MaxAttempts   \* bounds of the model

VARIABLES
  facts,      \* the authoritative packet: planner decision and branch
  now,        \* time
  lock,       \* the run that holds the directory's flock, or NoRun
  watch,      \* watch-state.json
  ledger,     \* ledger.json
  journal,    \* effect-journal.json
  registry,   \* the markers of the replay directory
  pc,         \* what each run does next
  run,        \* what each run holds in memory
  calls,      \* calls of send_effect so far
  posted,     \* effects that reached GitHub or Telegram
  uses,       \* how often each dispatch authorized a send or a write
  attempts,   \* attempt ids drawn so far
  env         \* changes of the packet, crashes and adapter calls so far

files   == <<watch, ledger, journal>>
history == <<calls, posted, uses>>
world   == <<facts, now, env, attempts>>
runs    == <<pc, run>>
vars    == <<world, lock, files, registry, runs, history>>

NoRun == "none"

ASSUME RunAssumption == NoRun \notin Run
ASSUME BoundAssumption == MaxAttempts \in Nat

TheIdentity == <<1, "head">>

Effect   == [key : {Key(TheIdentity, "WAKE_COORDINATOR", d) : d \in Plan \cap Wakes}
                   \cup {Key(TheIdentity, "NOTIFY_OWNER", "BLOCK_HUMAN")},
             branch : Branch]
Dispatch == [effect : Effect, nonce : Nonce]

NoJournal == [phase |-> "NONE"]
Free      == [state |-> "free"]
Taken     == [state |-> "taken"]    \* a marker without a readable binding
Reserved(a) == [state |-> "reserved", attempt |-> a]
Consumed(a) == [state |-> "consumed", attempt |-> a]

IsAmbiguous(plan) == plan = "RECONCILE_AMBIGUOUS"

(* The fields of _snapshot that the directory does not fix: the packet's   *)
(* status, which COMPLETE, PAUSED and BLOCKED decide the plan by, and its  *)
(* branch.                                                                 *)
Status(plan) ==
  IF plan \in {"NOOP_COMPLETE", "NOOP_PAUSED", "BLOCK_HUMAN"} THEN plan ELSE "ACTIVE"
Snapshot(f) == <<Status(f.plan), f.branch>>

(* collect_authoritative never reports worker or failure facts.            *)
Observation(f, t) ==
  [class |-> "work_packet_state", revision |-> 1, subject |-> "head", bound |-> 0,
   plan |-> f.plan, data |-> Snapshot(f), at |-> t, complete |-> f.plan = "NOOP_COMPLETE",
   ambiguous |-> IsAmbiguous(f.plan), transient |-> FALSE, resumable |-> FALSE,
   retries |-> 0, budget |-> 3]

-----------------------------------------------------------------------------
(* The life of a run.                                                      *)

Nothing == <<>>

At(p, where) == pc[p] = where
Goto(p, where) ==
  /\ pc' = [pc EXCEPT ![p] = where]
  /\ UNCHANGED run
Enter(p, where, data) ==
  /\ pc' = [pc EXCEPT ![p] = where]
  /\ run' = [run EXCEPT ![p] = data]
EffectOf(p) == [key |-> run[p].result.key, branch |-> run[p].facts.branch]

Release(p) ==
  /\ lock' = NoRun
  /\ Enter(p, "idle", Nothing)

Collect(p) ==
  /\ At(p, "idle")
  /\ Enter(p, "collected", [facts |-> facts, at |-> now])
  /\ UNCHANGED <<world, lock, files, registry, history>>

LockHeld(p) ==
  /\ At(p, "collected") /\ lock # NoRun
  /\ Enter(p, "idle", Nothing)
  /\ UNCHANGED <<world, lock, files, registry, history>>

LockIgnored == TRUE   \* faulty: a shared lock
LockFree == lock = NoRun

(* The lock is taken and the watch evaluated; only its holder writes the   *)
(* files of the directory.                                                 *)
Acquire(p) ==
  /\ At(p, "collected") /\ LockFree
  /\ lock' = p
  /\ Enter(p, "evaluated",
           [facts  |-> run[p].facts,
            result |-> Evaluate(Observation(run[p].facts, run[p].at), watch)])
  /\ UNCHANGED <<world, files, registry, history>>

PersistUntyped(p) ==
  /\ At(p, "evaluated") /\ run[p].result.result \notin Typed
  /\ watch' = run[p].result.state
  /\ Release(p)
  /\ UNCHANGED <<world, ledger, journal, registry, history>>

-----------------------------------------------------------------------------
(* _finish_typed and _execute_authorized up to the reservation.            *)

InLedger(p, outcome) == [key |-> run[p].result.key, outcome |-> outcome] \in ledger

(* The run ends before it has written anything: the second collection      *)
(* differs or blocks, the key is ambiguous in the ledger, verification is  *)
(* missing or denied, no delivery boundary is configured, or the journal   *)
(* says a send may have happened.                                          *)
StateAdvanced(p) == run[p].result.state   \* faulty: as if it had been told
StateRefused(p) == watch

Refuse(p) ==
  /\ At(p, "evaluated") /\ run[p].result.result \in Typed
  /\ watch' = StateRefused(p)
  /\ Release(p)
  /\ UNCHANGED <<world, ledger, journal, registry, history>>

Rechecked(p) ==
  /\ At(p, "evaluated") /\ run[p].result.result \in Typed
  /\ Snapshot(facts) = Snapshot(run[p].facts) /\ ~IsAmbiguous(facts.plan)
  /\ ~InLedger(p, "AMBIGUOUS")

Dedup(p) ==
  /\ Rechecked(p) /\ InLedger(p, "APPLIED")
  /\ watch' = run[p].result.state
  /\ Release(p)
  /\ UNCHANGED <<world, ledger, journal, registry, history>>

(* The dispatch is signed for this very effect.                            *)
BoundToAny(p, d) == TRUE   \* faulty: any valid signature will do
BoundTo(p, d) == d.effect = EffectOf(p)

Authorized(p, d) ==
  /\ Rechecked(p) /\ ~InLedger(p, "APPLIED")
  /\ BoundTo(p, d)

Settled == journal.phase \notin {"SENDING", "AMBIGUOUS"}

(* An older intent that names another effect.                              *)
Mismatch(p, d) ==
  /\ Authorized(p, d) /\ Settled
  /\ journal # NoJournal /\ journal.effect # EffectOf(p)
  /\ journal' = [journal EXCEPT !.phase = "AMBIGUOUS"]
  /\ Release(p)
  /\ UNCHANGED <<world, watch, ledger, registry, history>>

Proceed(p, where, d, attempt) ==
  Enter(p, where, [facts    |-> run[p].facts, result  |-> run[p].result,
                   dispatch |-> d,            attempt |-> attempt])

Journal(p, phase) ==
  [phase |-> phase, effect |-> EffectOf(p), dispatch |-> run[p].dispatch, attempt |-> run[p].attempt]

Intent(p, d) ==
  /\ Authorized(p, d) /\ journal = NoJournal /\ attempts < MaxAttempts
  /\ attempts' = attempts + 1
  /\ journal' = [phase |-> "INTENT", effect |-> EffectOf(p), dispatch |-> d, attempt |-> attempts + 1]
  /\ Proceed(p, "reserve", d, attempts + 1)
  /\ UNCHANGED <<facts, now, env, lock, watch, ledger, registry, history>>

(* A run died after its intent, or after its receipt.                      *)
Resume(p, d) ==
  /\ Authorized(p, d) /\ Settled
  /\ journal # NoJournal /\ journal.effect = EffectOf(p)
  /\ Proceed(p, IF journal.phase = "RECEIPT" THEN "finalize" ELSE "reserve", d, journal.attempt)
  /\ UNCHANGED <<world, lock, files, registry, history>>

-----------------------------------------------------------------------------
(* reserve_dispatch: the marker is created exclusively, then written.      *)

Marker(p) == registry[run[p].dispatch]
SetMarker(p, m) == registry' = [registry EXCEPT ![run[p].dispatch] = m]

(* The marker can only be created where there is none.                     *)
CreatesAnyway(m) == m.state \in {"free", "taken"}   \* faulty: no O_EXCL
Creates(m) == m = Free

ReserveCreate(p) ==
  /\ At(p, "reserve") /\ Creates(Marker(p))
  /\ SetMarker(p, Taken)
  /\ Goto(p, "reserving")
  /\ UNCHANGED <<world, lock, files, history>>

ReserveWrite(p) ==
  /\ At(p, "reserving")
  /\ SetMarker(p, Reserved(run[p].attempt))
  /\ Goto(p, "reserved")
  /\ UNCHANGED <<world, lock, files, history>>

ReserveOwned(p) ==
  /\ At(p, "reserve") /\ Marker(p) = Reserved(run[p].attempt)
  /\ Goto(p, "reserved")
  /\ UNCHANGED <<world, lock, files, registry, history>>

(* Held by another owner, consumed, or the registry is unavailable.        *)
ReserveRefused(p) ==
  /\ At(p, "reserve")
  /\ Release(p)
  /\ UNCHANGED <<world, files, registry, history>>

-----------------------------------------------------------------------------
(* Sending.                                                                *)

JournalUnsent(p) == journal' = journal   \* faulty: the send is not announced
JournalSending(p) == journal' = Journal(p, "SENDING")

CommitSending(p) ==
  /\ At(p, "reserved")
  /\ JournalSending(p)
  /\ Goto(p, "send")
  /\ UNCHANGED <<world, lock, watch, ledger, registry, history>>

(* The outcome is SUCCEEDED with a receipt, or it is not: the request was  *)
(* not sent, was answered with an error, or timed out after it was posted. *)
AfterSendTrusting(succeeds) == "sent"   \* faulty: the receipt is not looked at
AfterSend(succeeds) == IF succeeds THEN "sent" ELSE "unsure"

Send(p, arrives, succeeds) ==
  /\ At(p, "send") /\ (succeeds => arrives)
  /\ calls' = calls + 1
  /\ uses' = [uses EXCEPT ![run[p].dispatch] = @ + 1]
  /\ posted' = IF arrives THEN posted \cup {EffectOf(p)} ELSE posted
  /\ Goto(p, AfterSend(succeeds))
  /\ UNCHANGED <<world, lock, files, registry>>

CommitAmbiguous(p) ==
  /\ At(p, "unsure")
  /\ journal' = Journal(p, "AMBIGUOUS")
  /\ Goto(p, "record_ambiguous")
  /\ UNCHANGED <<world, lock, watch, ledger, registry, history>>

RecordAmbiguous(p) ==
  /\ At(p, "record_ambiguous")
  /\ ledger' = ledger \cup {[key |-> run[p].result.key, outcome |-> "AMBIGUOUS"]}
  /\ Release(p)
  /\ UNCHANGED <<world, watch, journal, registry, history>>

CommitReceipt(p) ==
  /\ At(p, "sent")
  /\ journal' = Journal(p, "RECEIPT")
  /\ Goto(p, "finalize")
  /\ UNCHANGED <<world, lock, watch, ledger, registry, history>>

-----------------------------------------------------------------------------
(* finalize_dispatch truncates the marker and rewrites it; then            *)
(* _record_applied writes the ledger and the watch state.                  *)

FinalizeTruncate(p) ==
  /\ At(p, "finalize") /\ Marker(p) = Reserved(run[p].attempt)
  /\ SetMarker(p, Taken)
  /\ Goto(p, "finalizing")
  /\ UNCHANGED <<world, lock, files, history>>

FinalizeWrite(p) ==
  /\ At(p, "finalizing")
  /\ SetMarker(p, Consumed(run[p].attempt))
  /\ Goto(p, "record_applied")
  /\ UNCHANGED <<world, lock, files, history>>

FinalizedBefore(p) ==
  /\ At(p, "finalize") /\ Marker(p) = Consumed(run[p].attempt)
  /\ Goto(p, "record_applied")
  /\ UNCHANGED <<world, lock, files, registry, history>>

(* Another owner's marker, none, or one torn by a crash.                   *)
FinalizeRefused(p) ==
  /\ At(p, "finalize")
  /\ Release(p)
  /\ UNCHANGED <<world, files, registry, history>>

RecordApplied(p) ==
  /\ At(p, "record_applied")
  /\ ledger' = ledger \cup {[key |-> run[p].result.key, outcome |-> "APPLIED"]}
  /\ Goto(p, "persist")
  /\ UNCHANGED <<world, lock, watch, journal, registry, history>>

PersistTyped(p) ==
  /\ At(p, "persist")
  /\ watch' = run[p].result.state
  /\ Release(p)
  /\ UNCHANGED <<world, ledger, journal, registry, history>>

-----------------------------------------------------------------------------
(* The rest of the world.                                                  *)

(* A process dies, or a write fails and the run is given up: the kernel    *)
(* drops the flock.  A request already handed to gh may still arrive.      *)
Crash(p) ==
  /\ pc[p] # "idle" /\ env.crashes < MaxCrashes
  /\ env' = [env EXCEPT !.crashes = @ + 1]
  /\ lock' = IF lock = p THEN NoRun ELSE lock
  /\ Enter(p, "idle", Nothing)
  /\ UNCHANGED <<facts, now, attempts, files, registry, history>>

(* The worker adapter, run on its own, consumes a dispatch for a write.    *)
AdapterConsume(d) ==
  /\ d.effect.key[2] = "WAKE_COORDINATOR"
  /\ Creates(registry[d]) /\ env.adapter < MaxAdapter
  /\ registry' = [registry EXCEPT ![d] = Taken]
  /\ uses' = [uses EXCEPT ![d] = @ + 1]
  /\ env' = [env EXCEPT !.adapter = @ + 1]
  /\ UNCHANGED <<facts, now, attempts, lock, files, runs, calls, posted>>

ChangePacket(f) ==
  /\ f # facts /\ env.changes < MaxChanges
  /\ facts' = f
  /\ env' = [env EXCEPT !.changes = @ + 1]
  /\ UNCHANGED <<now, attempts, lock, files, registry, runs, history>>

Tick ==
  /\ now < MaxTime
  /\ now' = now + 1
  /\ UNCHANGED <<facts, env, attempts, lock, files, registry, runs, history>>

-----------------------------------------------------------------------------
Facts == [plan : Plan, branch : Branch]

Init ==
  /\ facts \in Facts /\ now = 1
  /\ lock = NoRun
  /\ watch = Fresh /\ ledger = {} /\ journal = NoJournal
  /\ registry = [d \in Dispatch |-> Free]
  /\ pc = [p \in Run |-> "idle"] /\ run = [p \in Run |-> Nothing]
  /\ calls = 0 /\ posted = {} /\ uses = [d \in Dispatch |-> 0]
  /\ attempts = 0
  /\ env = [changes |-> 0, crashes |-> 0, adapter |-> 0]

Begin(p)    == Collect(p) \/ LockHeld(p) \/ Acquire(p) \/ PersistUntyped(p)
Judge(p)    == \/ Refuse(p) \/ Dedup(p)
               \/ \E d \in Dispatch : Mismatch(p, d) \/ Intent(p, d) \/ Resume(p, d)
Reserve(p)  == ReserveCreate(p) \/ ReserveWrite(p) \/ ReserveOwned(p) \/ ReserveRefused(p)
Deliver(p)  == \/ CommitSending(p)
               \/ \E arrives, succeeds \in BOOLEAN : Send(p, arrives, succeeds)
               \/ CommitAmbiguous(p) \/ RecordAmbiguous(p) \/ CommitReceipt(p)
Finish(p)   == \/ FinalizeTruncate(p) \/ FinalizeWrite(p) \/ FinalizedBefore(p)
               \/ FinalizeRefused(p) \/ RecordApplied(p) \/ PersistTyped(p)
RunOnce(p)  == Begin(p) \/ Judge(p) \/ Reserve(p) \/ Deliver(p) \/ Finish(p)

Next ==
  \/ \E p \in Run : RunOnce(p) \/ Crash(p)
  \/ \E d \in Dispatch : AdapterConsume(d)
  \/ \E f \in Facts : ChangePacket(f)
  \/ Tick

Spec == Init /\ [][Next]_vars

-----------------------------------------------------------------------------
(* Properties.                                                             *)

Keys      == {e.key : e \in Effect}
Attempt   == 1 .. MaxAttempts
MarkerRec == {Free, Taken} \cup {Reserved(a) : a \in Attempt} \cup {Consumed(a) : a \in Attempt}
IntentRec == [phase : {"INTENT", "SENDING", "AMBIGUOUS", "RECEIPT"}, effect : Effect,
              dispatch : Dispatch, attempt : Attempt]
Pcs       == {"idle", "collected", "evaluated", "reserve", "reserving", "reserved", "send", "unsure",
              "record_ambiguous", "sent", "finalize", "finalizing", "record_applied", "persist"}

(* The files hold what their readers accept, and a run past the journal    *)
(* carries a dispatch signed for its effect.                               *)
TypeOK ==
  /\ facts \in Facts /\ now \in Nat /\ attempts \in 0 .. MaxAttempts
  /\ env \in [changes : Nat, crashes : Nat, adapter : Nat]
  /\ lock \in Run \cup {NoRun}
  /\ ledger \subseteq [key : Keys, outcome : {"APPLIED", "AMBIGUOUS"}]
  /\ journal \in IntentRec \cup {NoJournal}
  /\ registry \in [Dispatch -> MarkerRec]
  /\ watch.observed \in Nat /\ watch.closed \in BOOLEAN
  /\ pc \in [Run -> Pcs] /\ DOMAIN run = Run
  /\ \A p \in Run :
       /\ pc[p] \notin {"idle", "collected", "evaluated"} =>
            /\ run[p].attempt \in Attempt /\ run[p].dispatch \in Dispatch
            /\ run[p].dispatch.effect = EffectOf(p)
  /\ calls \in Nat /\ posted \subseteq Effect /\ uses \in [Dispatch -> Nat]

(* Runs that overlap, die and are retried, with any number of dispatches,  *)
(* call the send primitive at most once for one watch.                     *)
AtMostOneSend == calls <= 1

(* A dispatch authorizes one thing: one send of the host or one write of   *)
(* the worker adapter, never both and never twice.                         *)
DispatchUsedOnce == \A d \in Dispatch : uses[d] <= 1

(* No wake and no notice is lost: the watch state remembers a decision as  *)
(* told, and so suppresses it, only if the ledger holds its delivery and   *)
(* the message was really posted.                                          *)
DeliveredKeys == {e.key : e \in posted}

TellsOf(decision) ==
  IF decision = "BLOCK_HUMAN" THEN Key(TheIdentity, "NOTIFY_OWNER", decision)
  ELSE Key(TheIdentity, "WAKE_COORDINATOR", decision)

RememberedWasDelivered ==
  watch.decision \in Wakes \cup {"BLOCK_HUMAN"} =>
    /\ [key |-> TellsOf(watch.decision), outcome |-> "APPLIED"] \in ledger
    /\ TellsOf(watch.decision) \in DeliveredKeys

(* Once a run has closed the watch, no run sends anything for it, a run    *)
(* that collected its facts before the packet completed included.          *)
ClosedWatchNeverSends == [][watch.closed => calls' = calls]_vars

(* Overlapping runs finish in any order; the watch state does not go back  *)
(* to an older observation.                                                *)
WatchNeverRollsBack == [][watch'.observed >= watch.observed]_vars

(* The journal and the ledger promise what DeliveryPromise says.           *)
Promise == INSTANCE DeliveryPromise WITH
             Message  <- Keys,
             called   <- calls > 0,
             arrived  <- DeliveredKeys,
             recorded <- {e.key : e \in {l \in ledger : l.outcome = "APPLIED"}}

DeliveryKept == Promise!Spec

(* coordinator_watch_host.py:858: an AMBIGUOUS journal means the outcome   *)
(* of a send is unknown, and so never that its receipt was recorded.       *)
AmbiguousMeansUnknown ==
  journal.phase = "AMBIGUOUS" =>
    [key |-> journal.effect.key, outcome |-> "APPLIED"] \notin ledger
=============================================================================
