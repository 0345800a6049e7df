---------------------------- MODULE WatchedPacket ----------------------------
(***************************************************************************)
(* The watch host over a packet that changes while it is being looked at:  *)
(* coordinator_watch_collect.py reads GitHub and the host piece by piece,  *)
(* coordinator.py plans on what was read, coordinator_watch.py decides     *)
(* whether anybody is to be told, and coordinator_watch_host.py reads      *)
(* everything a second time before it tells.                               *)
(*                                                                         *)
(* Everybody else changes the packet's issue, the branch, the verdicts and *)
(* the host between any two reads.  Runs overlap.  A run may fail or die   *)
(* at any read, and a delivery may be refused, break off or remain in      *)
(* doubt.  What a request is signed for is up to those who sign.           *)
(*                                                                         *)
(* A watch is a directory per intent revision and head.  Its lock is held  *)
(* by the run past Evaluated on that directory.  The steps of a delivery   *)
(* are those of WatchHost, taken here at once.                             *)
(***************************************************************************)
EXTENDS WatchEvaluator, Coordinator, FiniteSets

CONSTANTS
  Run,                   \* processes running run-once
  Packet,                \* the contents the packet's issue may have
  Origin,                \* the worlds to start in
  Verdicts, Claims,      \* what CI may report, what the claim directory may say
  MaxTrouble             \* bound on changes of the world and faults together

VARIABLES
  world,     \* the packet, the branch, verdicts, pull request, worktree and host
  pushed,    \* commits the branch has been at
  changes,   \* changes of the world so far; time is counted in them
  faults,    \* reads, runs and deliveries that failed so far
  pc,        \* what each run does next
  run,       \* what each run has read
  watch,     \* watch-state.json of each directory
  ledger,    \* the keys each directory's ledger says were applied
  journal,   \* the effect each directory's journal names
  told,      \* history: keys that were delivered
  reported   \* history: verdicts on heads and audits of revisions given so far

disk  == <<watch, ledger, journal>>
outer == <<world, pushed, changes, reported>>
vars  == <<outer, faults, pc, run, disk, told>>

Directory == {p.intent_revision : p \in Packet} \X Heads
NoEffect  == <<>>
Nothing   == <<>>
clock     == changes + 1
WatchClass == "work_packet_state"

(* A commit is not the word for no commit, and only the branch has been    *)
(* seen by CI when a behaviour starts.                                     *)
ASSUME PacketAssumption ==
  /\ "UNKNOWN" \notin Heads
  /\ Origin \subseteq [packet : Packet, head : Heads,
                      ci : [Heads -> {"UNKNOWN", "PENDING", "PASS", "FAIL"}], pull : BOOLEAN,
                      tree : [head : Heads, dirty : Seen, unpushed : Seen], resource : {"PASS", "WARN", "BLOCK"},
                      claim : Claims]
  /\ \A w \in Origin : \A h \in Heads \ {w.head} : w.ci[h] = "UNKNOWN"

-----------------------------------------------------------------------------
(* What a collection makes of its reads.                                   *)

Blank == [packet |-> Nothing, head |-> "NONE", ci |-> "UNKNOWN", pull |-> FALSE,
          dirty |-> "UNKNOWN", unpushed |-> "UNKNOWN", resource |-> "UNKNOWN", claim |-> "NONE",
          at |-> 0, then |-> "NONE"]    \* then: history, the branch when the issue was read

(* A claim that is ambiguous or cannot be read admits nothing.             *)
Admission(c) ==
  CASE c.resource = "UNKNOWN" -> [decision |-> "UNKNOWN"]
    [] c.resource = "BLOCK"   -> [decision |-> "DENY", deny_class |-> "HOST_BUDGET"]
    [] OTHER -> [decision |-> IF c.claim = "ACTIVE" THEN "ALLOW" ELSE "UNKNOWN"]

(* What git did not answer is left out.                                    *)
GitFacts(c) ==
  Over([head |-> c.head, yielded_for_audit |-> FALSE],
       Over(IF c.dirty = "UNKNOWN" THEN <<>> ELSE [dirty |-> c.dirty],
            IF c.unpushed = "UNKNOWN" THEN <<>> ELSE [unpushed |-> c.unpushed]))

Publication(p) ==
  Over([coordinator_audit |-> p.audit],
       IF p.authorized = 0 THEN <<>> ELSE [authorized_intent_revision |-> p.authorized])

(* gh lists open pull requests only, and neither reviews nor mergeability  *)
(* are read.                                                               *)
PullFacts(c) ==
  IF c.pull THEN [exists |-> TRUE, state |-> "OPEN", head |-> c.head, mergeable |-> "UNKNOWN"]
            ELSE [exists |-> FALSE]

Facts(c) ==
  [packet      |-> [status |-> c.packet.status, intent_revision |-> c.packet.intent_revision,
                    change_risk |-> c.packet.change_risk,
                    dependencies |-> c.packet.dependencies],
   git         |-> GitFacts(c),
   resource    |-> [result |-> c.resource],
   admission   |-> Admission(c),
   mutation    |-> [ambiguous |-> c.packet.ambiguous],
   failure     |-> [class |-> "NONE", identical_semantic_count |-> 0],
   publication |-> Publication(c.packet),
   pr          |-> PullFacts(c),
   ci          |-> [state |-> c.ci, subject_head |-> c.head],
   review      |-> [actionable_open |-> "NO", state |-> "UNKNOWN"],
   wait        |-> [external |-> FALSE, retry_count |-> 0, retry_budget |-> 3],
   gates       |-> [org_rollout |-> "NOT_REQUIRED"]]

ResumeAllowed(f) ==
  /\ f.worker.present /\ f.worker.progress_evidence
  /\ f.worker.starting_intent_revision = f.packet.intent_revision
  /\ f.resource.result \in {"PASS", "WARN"}
  /\ f.admission.decision = "ALLOW"

(* What the evaluator makes of planner facts: the observation it evaluates.*)
Observation(f, class, at) ==
  [class |-> class, revision |-> f.packet.intent_revision, subject |-> SubjectVersion(f),
   bound |-> 0, plan |-> Branch(f), at |-> at,
   data  |-> <<f.admission, f.ci, f.packet.status, f.pr.head, f.resource, f.review, f.worker>>,
   complete  |-> f.packet.status = "COMPLETE",
   ambiguous |-> f.mutation.ambiguous \/ f.failure.class = "AMBIGUOUS_MUTATION",
   transient |-> f.failure.class = "TRANSIENT",
   resumable |-> Branch(f) = "RESUME_WORKER" /\ ResumeAllowed(f),
   retries |-> f.wait.retry_count, budget |-> f.wait.retry_budget]

DirectoryOf(c) == <<c.packet.intent_revision, c.head>>

-----------------------------------------------------------------------------
(* The world changes.  The branch moves to new commits only, and the       *)
(* revision of the packet never goes down.                                 *)

Change(w) ==
  /\ changes + faults < MaxTrouble /\ w # world
  /\ changes' = changes + 1
  /\ world' = w
  /\ UNCHANGED <<faults, pc, run, disk, told>>

(* A passed audit is for the revision the issue says it was authorized for.*)
AuditOf(p) == <<IF p.audit = "PASS" THEN p.authorized ELSE p.intent_revision, p.audit>>

EditIssue(p) ==
  /\ p.intent_revision >= world.packet.intent_revision
  /\ Change([world EXCEPT !.packet = p])
  /\ reported' = reported \cup {AuditOf(p)}
  /\ UNCHANGED pushed

(* From the pinned worktree or from another clone.                         *)
Pushed(h) == [head |-> h, dirty |-> "NO", unpushed |-> "NO"]

Push(h, here) ==
  /\ h \notin pushed
  /\ Change([world EXCEPT !.head = h, !.tree = IF here THEN Pushed(h) ELSE @])
  /\ pushed' = pushed \cup {h}
  /\ UNCHANGED reported

Verdict(h, v) ==
  /\ h \in pushed
  /\ Change([world EXCEPT !.ci[h] = v])
  /\ reported' = reported \cup {<<h, v>>}
  /\ UNCHANGED pushed

ChangeElse ==
  /\ \/ Change([world EXCEPT !.pull = ~@])
     \/ \E d \in Seen : Change([world EXCEPT !.tree.dirty = d])
     \/ \E u \in Seen : Change([world EXCEPT !.tree.unpushed = u])
     \/ \E m \in {"PASS", "BLOCK"} : Change([world EXCEPT !.resource = m])
     \/ \E c \in Claims : Change([world EXCEPT !.claim = c])
  /\ UNCHANGED <<pushed, reported>>

Outside ==
  \/ \E p \in Packet : EditIssue(p)
  \/ \E h \in Heads, here \in BOOLEAN : Push(h, here)
  \/ \E h \in Heads, v \in Verdicts : Verdict(h, v)
  \/ ChangeElse

-----------------------------------------------------------------------------
(* collect_authoritative, one read after the other.  A run collects twice; *)
(* what it read first is in run[r].first the second time.                  *)

At(r, where) == pc[r] = where
Again(r)     == run[r].first # Nothing
End(r)       == /\ pc' = [pc EXCEPT ![r] = "idle"]
                /\ run' = [run EXCEPT ![r] = Nothing]

Step(r, where, c) ==
  /\ pc' = [pc EXCEPT ![r] = where]
  /\ run' = [run EXCEPT ![r].c = c]
  /\ UNCHANGED <<outer, faults, disk, told>>

Collecting(c, first, result) == [c |-> c, o |-> Nothing, first |-> first, result |-> result]

(* A run begins with the issue, and so does its second collection.         *)
ReadIssue(r) ==
  /\ At(r, "idle") \/ At(r, "issue")
  /\ pc' = [pc EXCEPT ![r] = "head"]
  /\ LET then == IF At(r, "issue") THEN world.head ELSE "NONE"
         c    == [Blank EXCEPT !.packet = world.packet, !.then = then]
     IN  run' = [run EXCEPT ![r] = IF At(r, "issue") THEN [@ EXCEPT !.c = c]
                                   ELSE Collecting(c, Nothing, Nothing)]
  /\ UNCHANGED <<outer, faults, disk, told>>

ReadHead(r) ==
  /\ At(r, "head")
  /\ Step(r, "status", [run[r].c EXCEPT !.head = world.head])

ReadStatus(r) ==
  /\ At(r, "status")
  /\ Step(r, "pulls", [run[r].c EXCEPT !.ci = world.ci[run[r].c.head]])

(* An open pull request must be at the head that was read.                 *)
ReadPulls(r) ==
  /\ At(r, "pulls")
  /\ IF world.pull /\ world.head # run[r].c.head
     THEN End(r) /\ UNCHANGED <<outer, faults, disk, told>>
     ELSE Step(r, "host", [run[r].c EXCEPT !.pull = world.pull])

(* The worktree, the memory, the claims and the time.  A worktree that is  *)
(* not at the head is not observed; git may fail to answer, or the branch  *)
(* may lack an upstream, and the memory may not be readable.               *)
Answer(lost, tree, c, which) ==
  IF which \in lost \/ tree.head # c.head THEN "UNKNOWN" ELSE tree[which]

Completed(c, lost) ==
  [c EXCEPT !.dirty    = Answer(lost, world.tree, c, "dirty"),
            !.unpushed = Answer(lost, world.tree, c, "unpushed"),
            !.resource = IF "resource" \in lost THEN "UNKNOWN" ELSE world.resource,
            !.claim    = world.claim,
            !.at       = clock]

Collected(r, complete) ==
  /\ \E c \in {complete} : \E raw \in {Facts(c)} : \E f \in {Normalized(raw)} :
       IF WellFormed(raw)
       THEN /\ pc' = [pc EXCEPT ![r] = IF Again(r) THEN "recheck" ELSE "collected"]
            /\ run' = [run EXCEPT ![r].c = c, ![r].o = Observation(f, WatchClass, c.at)]
       ELSE End(r)
  /\ UNCHANGED <<outer, disk, told>>

ReadHost(r) ==
  /\ At(r, "host")
  /\ Collected(r, Completed(run[r].c, {}))
  /\ UNCHANGED faults

-----------------------------------------------------------------------------
(* run_once under the directory's lock.                                    *)

Holds(r, d) == run[r] # Nothing /\ Again(r) /\ DirectoryOf(run[r].first) = d
LockFree(d) == ~\E r \in Run : Holds(r, d)

LockHeld(r) ==
  /\ At(r, "collected") /\ ~LockFree(DirectoryOf(run[r].c))
  /\ End(r)
  /\ UNCHANGED <<outer, faults, disk, told>>

(* A result nobody is to be told of is persisted; for one that is, the     *)
(* world is read again.                                                    *)
Evaluated(r) ==
  LET c == run[r].c
      d == DirectoryOf(c)
  IN  /\ At(r, "collected") /\ LockFree(d)
      /\ \E e \in {Evaluate(run[r].o, watch[d])} :
           IF e.result \in Typed
           THEN /\ pc' = [pc EXCEPT ![r] = "issue"]
                /\ run' = [run EXCEPT ![r] = Collecting(Blank, c, e)]
                /\ UNCHANGED watch
           ELSE /\ End(r)
                /\ watch' = [watch EXCEPT ![d] = e.state]
      /\ UNCHANGED <<outer, faults, ledger, journal, told>>

Snapshot(c) == <<c.packet.intent_revision, c.packet.status, c.head, c.pull>>

DiffersInIssue(a, b) == a.packet # b.packet   \* faulty: the heads are not compared
Differs(a, b) == Snapshot(a) # Snapshot(b)

(* _reconcile.                                                             *)
Blocked(a, b) ==
  \/ b.packet.ambiguous
  \/ Differs(a, b)
  \/ b.resource = "BLOCK"
  \/ a.resource # b.resource \/ Admission(a) # Admission(b)

TheKey(r)  == run[r].result.key
Place(r)   == DirectoryOf(run[r].first)
IsNotice(r) == run[r].result.result = "NOTIFY_OWNER"

(* A wake is bound to the status of the packet, a notice is not.           *)
EffectOf(r) == <<TheKey(r), IF IsNotice(r) THEN "NONE" ELSE run[r].c.packet.status>>

Applied(r)   == TheKey(r) \in ledger[Place(r)]
Rechecked(r) == At(r, "recheck") /\ ~Blocked(run[r].first, run[r].c)

(* The worker adapter admits a wake only under a live claim; the notice to *)
(* the owner does not go through it.                                       *)
Withheld(r) == ~IsNotice(r) /\ Admission(run[r].c).decision # "ALLOW"

Allowed(r) == Rechecked(r) /\ ~Applied(r) /\ ~Withheld(r)

InJournal(r, phases) == journal[Place(r)] # NoEffect /\ journal[Place(r)].phase \in phases
Journals(r, phase) ==
  journal' = [journal EXCEPT ![Place(r)] = [effect |-> EffectOf(r), phase |-> phase]]
ThisEffect(r) == journal[Place(r)].effect = EffectOf(r)

StateAdvanced(r) == [watch EXCEPT ![Place(r)] = run[r].result.state]   \* faulty: as if told
StateKept(r) == watch

(* The second look differs, the effect is not admitted, or is in doubt:    *)
(* nothing is written.  Nor is it for an effect the request holds no valid *)
(* dispatch for, or one that was received under another dispatch, and who  *)
(* signs what is not ours to say: any effect may be refused.               *)
Refuse(r) ==
  /\ At(r, "recheck") /\ (Rechecked(r) => ~Applied(r))
  /\ watch' = StateKept(r)
  /\ End(r)
  /\ UNCHANGED <<outer, faults, ledger, journal, told>>

Recorded(r) ==
  /\ ledger' = [ledger EXCEPT ![Place(r)] = @ \cup {TheKey(r)}]
  /\ watch' = [watch EXCEPT ![Place(r)] = run[r].result.state]
  /\ End(r)
  /\ UNCHANGED <<outer, faults>>

Dedup(r) ==
  /\ Rechecked(r) /\ Applied(r)
  /\ Recorded(r)
  /\ UNCHANGED <<journal, told>>

(* The journal names another effect, sent before or only meant to be.      *)
Mismatch(r) ==
  /\ Allowed(r)
  /\ InJournal(r, {"INTENT", "RECEIPT"}) /\ ~ThisEffect(r)
  /\ journal' = [journal EXCEPT ![Place(r)].phase = "AMBIGUOUS"]
  /\ End(r)
  /\ UNCHANGED <<outer, faults, watch, ledger, told>>

(* A run received the answer and died: with its dispatch another finishes. *)
Settle(r) ==
  /\ Allowed(r)
  /\ InJournal(r, {"RECEIPT"}) /\ ThisEffect(r)
  /\ Recorded(r)
  /\ UNCHANGED <<journal, told>>

Sends(r) ==
  /\ Allowed(r)
  /\ journal[Place(r)] = NoEffect \/ (InJournal(r, {"INTENT"}) /\ ThisEffect(r))

Deliver(r) ==
  /\ Sends(r)
  /\ Journals(r, "RECEIPT")
  /\ told' = told \cup {TheKey(r)}
  /\ Recorded(r)

-----------------------------------------------------------------------------
(* What may go wrong.                                                      *)

Fault == changes + faults < MaxTrouble /\ faults' = faults + 1

(* gh does not answer in 30 seconds, nothing is configured to deliver      *)
(* with, or the run dies.                                                  *)
RunFails(r) ==
  /\ Fault /\ ~At(r, "idle")
  /\ End(r)
  /\ UNCHANGED <<outer, disk, told>>

ReadHostPartly(r, lost) ==
  /\ Fault /\ At(r, "host")
  /\ Collected(r, Completed(run[r].c, lost))

(* The dispatch is refused after the intent was journalled; the effect may *)
(* have arrived; or it did, and the run dies before it records it.         *)
BreakOff(r, phase, arrives) ==
  /\ Fault /\ Sends(r)
  /\ phase = "INTENT" => ~arrives
  /\ phase = "RECEIPT" => arrives
  /\ Journals(r, phase)
  /\ told' = IF arrives THEN told \cup {TheKey(r)} ELSE told
  /\ End(r)
  /\ UNCHANGED <<outer, watch, ledger>>

Fails(r) ==
  \/ RunFails(r)
  \/ \E lost \in {{"dirty"}, {"unpushed"}, {"resource"}} : ReadHostPartly(r, lost)
  \/ \E phase \in {"INTENT", "AMBIGUOUS", "RECEIPT"}, arrives \in BOOLEAN :
        BreakOff(r, phase, arrives)

-----------------------------------------------------------------------------
Init ==
  /\ world \in Origin
  /\ pushed = {world.head}
  /\ changes = 0 /\ faults = 0
  /\ reported = {AuditOf(world.packet),
                 <<world.head, world.ci[world.head]>>}
  /\ pc = [r \in Run |-> "idle"]
  /\ run = [r \in Run |-> Nothing]
  /\ watch = [d \in Directory |-> Fresh]
  /\ ledger = [d \in Directory |-> {}]
  /\ journal = [d \in Directory |-> NoEffect]
  /\ told = {}

Collect(r) == ReadIssue(r) \/ ReadHead(r) \/ ReadStatus(r) \/ ReadPulls(r) \/ ReadHost(r)
Decide(r)  == LockHeld(r) \/ Evaluated(r)
Signed(r)  == Mismatch(r) \/ Settle(r) \/ Deliver(r)
Finish(r)  == Refuse(r) \/ Dedup(r) \/ Signed(r)
RunOnce(r) == Collect(r) \/ Decide(r) \/ Finish(r)

Next == Outside \/ \E r \in Run : RunOnce(r) \/ Fails(r)

(* A run that was started goes on: every read ends within its timeout, and *)
(* no run waits for a lock.  Nobody has to start a run, or to sign.        *)
Fairness == \A r \in Run : WF_vars(~At(r, "idle") /\ RunOnce(r))

Spec == Init /\ [][Next]_vars /\ Fairness

-----------------------------------------------------------------------------
(* Properties.                                                             *)

(* The collector and the planner produce only observations the evaluator   *)
(* is written for: coordinator.py decides COMPLETE before anything else,   *)
(* and a retry only for a transient failure.                               *)
PlannedConsistently ==
  \A r \in Run : At(r, "collected") => Consistent(run[r].o)

(* The reads of a collection are torn, yet what is told was true at one    *)
(* instant: when _reconcile accepts, the packet's revision and status, and *)
(* the head of its branch, were together what the decision was made on at  *)
(* the moment the issue was read the second time.                          *)
ToldOfOneInstant ==
  \A r \in Run : Rechecked(r) => run[r].c.then = run[r].first.head

(* A verdict that is told belongs to the commit it is told of: a review is *)
(* asked for only of a commit whose checks passed, a new plan only where   *)
(* its checks or the audit of its revision failed, and publication only    *)
(* where the audit of its revision passed.                                 *)
VerdictOfTheSubject ==
  \A k \in told :
    LET revision == k[1][1]
        head     == k[1][2]
    IN  /\ k[3] = "AUDIT_REVIEW" => <<head, "PASS">> \in reported
        /\ k[3] = "REPLAN_SEMANTIC_FAILURE" =>
              <<head, "FAIL">> \in reported \/ <<revision, "FAIL">> \in reported
        /\ k[3] = "AUTHORIZE_PUBLICATION" => <<revision, "PASS">> \in reported

(* What a run that saw the world as it is would decide to tell, and may.   *)
View == Completed([Blank EXCEPT !.packet = world.packet, !.head = world.head,
                                !.ci = world.ci[world.head], !.pull = world.pull], {})

Due ==
  \E c \in {View} : \E raw \in {Facts(c)} : \E f \in {Normalized(raw)} :
    LET d    == DirectoryOf(c)
        plan == Planned(Observation(f, WatchClass, clock), Fresh)
    IN  /\ WellFormed(raw)
        /\ ~watch[d].closed
        /\ journal[d] = NoEffect \/ journal[d].phase = "INTENT"
        /\ ~Blocked(c, c)
        /\ plan = "BLOCK_HUMAN" \/ (plan \in Wakes /\ Admission(c).decision = "ALLOW")

(* A watch that has sent nothing does not owe a wake for ever: provided    *)
(* that runs keep being started, and that one that may send, again and     *)
(* again, does not always lack a dispatch for what it sends, the wake is   *)
(* sent or in doubt once the world keeps still.  The code keeps the watch  *)
(* state it had whenever a typed result was not delivered, and takes up an *)
(* intent that was never reserved.                                         *)
Started == []<><<\E r \in Run : At(r, "idle") /\ ReadIssue(r)>>_vars
SignedAtLast == SF_vars(\E r \in Run : Signed(r))

DueIsTold == Started /\ SignedAtLast => []<>~Due
=============================================================================
