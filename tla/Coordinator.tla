----------------------------- MODULE Coordinator -----------------------------
(***************************************************************************)
(* tools/coordinator.py: the planner, a pure function from facts to one    *)
(* next action.                                                            *)
(*                                                                         *)
(* Raw facts are a record of the groups a caller supplies; a group is a    *)
(* record of the fields it supplies.  Normalized(raw) is normalize_facts   *)
(* on the facts WellFormed(raw) accepts: every group complete, a field     *)
(* that was left out at its default.  Plan(f) is plan on such facts.       *)
(*                                                                         *)
(* "UNKNOWN" stands for an answer that was not observed (None or "UNKNOWN" *)
(* in the code), 0 for a revision that is absent.  Of the dependencies     *)
(* only the set of their statuses is kept.  The repository and workstream  *)
(* are fixed: they are a constant part of every key.                       *)
(***************************************************************************)
EXTENDS Integers, Sequences

CONSTANT Heads        \* the Git commits

PacketStatuses       == {"ACTIVE", "PAUSED", "BLOCKED", "COMPLETE"}
ActiveWorkerStatuses == {"CLAIMED", "ACTIVE", "WAIT", "YIELD", "RETRY"}
WorkerStatuses       == ActiveWorkerStatuses \cup {"COMPLETE", "ABANDON", "SUPERSEDED", "RELEASED"}
HighRisks            == {"HIGH", "CRITICAL"}
FailureClasses       == {"NONE", "TRANSIENT", "SEMANTIC", "RESOURCE", "AUTHORITY",
                         "AMBIGUOUS_MUTATION", "HUMAN_REQUIRED"}
WaitDecisions        == {"WAIT_EXTERNAL", "WAIT_EXACT_HEAD_CI"}
QuietMicrosteps      == {"RESUME_WORKER"}

Revisions  == Nat \ {0}
Seen       == {"YES", "NO"}                \* a boolean that may also be missing
Shas       == Heads \cup {"UNKNOWN"}
Unobserved == {"UNKNOWN"}                  \* dependencies that were not supplied
NoDecision == [key |-> <<>>, decision |-> ""]

-----------------------------------------------------------------------------
(* normalize_facts.                                                        *)

(* What a missing field, or a missing group, stands for.                   *)
Defaults ==
  [packet      |-> [status |-> "", intent_revision |-> 0, change_risk |-> "MEDIUM",
                    dependencies |-> Unobserved],
   worker      |-> [present |-> FALSE, status |-> "", starting_intent_revision |-> 0,
                    progress_evidence |-> FALSE],
   git         |-> [head |-> "UNKNOWN", dirty |-> "UNKNOWN", unpushed |-> "UNKNOWN",
                    yielded_for_audit |-> FALSE],
   resource    |-> [result |-> "UNKNOWN"],
   admission   |-> [decision |-> "UNKNOWN", deny_class |-> ""],
   mutation    |-> [ambiguous |-> FALSE],
   failure     |-> [class |-> "NONE", identical_semantic_count |-> 0],
   publication |-> [coordinator_audit |-> "UNKNOWN", authorized_intent_revision |-> 0],
   pr          |-> [exists |-> FALSE, state |-> "", head |-> "UNKNOWN", mergeable |-> "UNKNOWN"],
   ci          |-> [state |-> "UNKNOWN", subject_head |-> "UNKNOWN"],
   review      |-> [actionable_open |-> "UNKNOWN", state |-> "UNKNOWN", subject_head |-> "UNKNOWN"],
   wait        |-> [external |-> FALSE, retry_count |-> 0, retry_budget |-> 3],
   gates       |-> [org_rollout |-> "NOT_REQUIRED"],
   previous_decision |-> NoDecision]

(* What a supplied field may be.                                           *)
Legal ==
  [packet      |-> [status |-> PacketStatuses, intent_revision |-> Revisions,
                    change_risk |-> {"LOW", "MEDIUM"} \cup HighRisks,
                    dependencies |-> SUBSET PacketStatuses],
   worker      |-> [present |-> BOOLEAN, status |-> WorkerStatuses,
                    starting_intent_revision |-> Revisions, progress_evidence |-> BOOLEAN],
   git         |-> [head |-> Shas, dirty |-> Seen, unpushed |-> Seen, yielded_for_audit |-> BOOLEAN],
   resource    |-> [result |-> {"PASS", "WARN", "BLOCK", "UNKNOWN"}],
   admission   |-> [decision |-> {"ALLOW", "DENY", "UNKNOWN"}, deny_class |-> STRING],
   mutation    |-> [ambiguous |-> BOOLEAN],
   failure     |-> [class |-> FailureClasses, identical_semantic_count |-> Nat],
   publication |-> [coordinator_audit |-> {"UNKNOWN", "PASS", "FAIL"},
                    authorized_intent_revision |-> Revisions],
   pr          |-> [exists |-> BOOLEAN, state |-> {"OPEN", "MERGED", "CLOSED"}, head |-> Shas,
                    mergeable |-> {"YES", "NO", "UNKNOWN"}],
   ci          |-> [state |-> {"UNKNOWN", "PENDING", "PASS", "FAIL"}, subject_head |-> Shas],
   review      |-> [actionable_open |-> Seen, state |-> {"UNKNOWN", "OPEN", "CLEAR"},
                    subject_head |-> Shas],
   wait        |-> [external |-> BOOLEAN, retry_count |-> Nat, retry_budget |-> Nat],
   gates       |-> [org_rollout |-> {"NOT_REQUIRED", "PENDING", "AUTHORIZED"}],
   previous_decision |-> [key |-> Seq(Int \cup STRING \cup Heads), decision |-> STRING]]

(* The fields a group must supply.                                         *)
Required(group, g) ==
  CASE group = "packet"                -> {"status", "intent_revision"}
    [] group = "worker" /\ g.present   -> {"present", "status", "starting_intent_revision"}
    [] group = "worker" /\ ~g.present  -> {"present"}
    [] group = "pr" /\ g.exists        -> {"exists", "state"}
    [] group = "pr" /\ ~g.exists       -> {"exists"}
    [] OTHER                           -> {}

(* An absent worker or pull request has no other field.                    *)
Absent(group, g) == (group = "worker" /\ ~g.present) \/ (group = "pr" /\ ~g.exists)

WellFormed(raw) ==
  /\ DOMAIN raw \subseteq DOMAIN Defaults
  /\ "packet" \in DOMAIN raw
  /\ \A group \in DOMAIN raw : LET g == raw[group] IN
       /\ DOMAIN g \subseteq DOMAIN Defaults[group]
       /\ \A field \in DOMAIN g : g[field] \in Legal[group][field]
       /\ Required(group, g) \subseteq DOMAIN g
       /\ Absent(group, g) => DOMAIN g = Required(group, g)

(* The fields of g, and those of d that g leaves out.                      *)
Over(g, d) == [x \in DOMAIN g \cup DOMAIN d |-> IF x \in DOMAIN g THEN g[x] ELSE d[x]]

Normalized(raw) ==
  [group \in DOMAIN Defaults |->
     IF group \in DOMAIN raw THEN Over(raw[group], Defaults[group]) ELSE Defaults[group]]

-----------------------------------------------------------------------------
(* What plan asks of the facts.                                            *)

DependenciesEligible(f) == f.packet.dependencies \subseteq {"COMPLETE"}

LiveWorker(f) == f.worker.present /\ f.worker.status \in ActiveWorkerStatuses

ActiveWorker(f) ==
  LiveWorker(f) /\ f.worker.starting_intent_revision = f.packet.intent_revision

AuthorizedOnce(f) == f.publication.coordinator_audit = "PASS"   \* faulty: for any revision

(* The audit passed for the revision the packet has now.                   *)
Authorized(f) ==
  /\ f.publication.coordinator_audit = "PASS"
  /\ f.publication.authorized_intent_revision = f.packet.intent_revision

(* The pull request is at the commit that was observed.                    *)
ExactTree(f) == f.pr.head # "UNKNOWN" /\ f.git.head = f.pr.head

ReviewClear(f) ==
  /\ f.review.actionable_open = "NO"
  /\ f.review.state = "CLEAR"
  /\ f.review.subject_head = f.pr.head

ResourceBlocked(f) ==
  \/ f.resource.result = "BLOCK"
  \/ f.failure.class = "RESOURCE"
  \/ f.admission.decision = "DENY" /\ f.admission.deny_class = "HOST_BUDGET"

WorkerMayStart(f) ==
  /\ f.git.dirty = "NO" /\ f.git.unpushed # "UNKNOWN"
  /\ f.resource.result \in {"PASS", "WARN"}
  /\ f.admission.decision = "ALLOW"

-----------------------------------------------------------------------------
(* plan: the first branch whose condition holds decides.                   *)

AuditOrAuthorize(f) ==
  IF f.publication.coordinator_audit = "FAIL" THEN "REPLAN_SEMANTIC_FAILURE"
  ELSE IF Authorized(f) THEN "AUTHORIZE_PUBLICATION" ELSE "AUDIT_DIRTY_TREE"

PrPipeline(f) ==
  IF f.pr.state # "OPEN" THEN "WAIT_EXTERNAL"
  ELSE IF ~ExactTree(f) THEN "WAIT_EXACT_HEAD_CI"
  ELSE IF f.ci.state = "FAIL" /\ f.ci.subject_head = f.pr.head THEN "REPLAN_SEMANTIC_FAILURE"
  ELSE IF f.ci.state # "PASS" \/ f.ci.subject_head # f.pr.head THEN "WAIT_EXACT_HEAD_CI"
  ELSE IF ~ReviewClear(f) THEN "AUDIT_REVIEW"
  ELSE IF f.git.dirty # "NO" THEN "AUDIT_DIRTY_TREE"
  ELSE IF \/ f.git.unpushed # "NO"
          \/ f.gates.org_rollout = "PENDING"
          \/ f.packet.change_risk \in HighRisks /\ ~Authorized(f)
          \/ f.pr.mergeable # "YES"
  THEN "WAIT_EXTERNAL"
  ELSE "MERGE_READY"

ImplementationPath(f) ==
  IF f.git.yielded_for_audit \/ (f.git.dirty = "YES" /\ ~ActiveWorker(f)) THEN AuditOrAuthorize(f)
  ELSE IF ActiveWorker(f)
  THEN IF f.worker.progress_evidence THEN "RESUME_WORKER" ELSE "WAIT_EXTERNAL"
  ELSE IF WorkerMayStart(f) THEN "ADMIT_IMPLEMENTATION" ELSE "WAIT_EXTERNAL"

AmbiguityFirst(f) ==   \* faulty: the mutation is asked before the status
  IF f.mutation.ambiguous THEN "RECONCILE_AMBIGUOUS"
  ELSE IF f.packet.status = "COMPLETE" THEN "NOOP_COMPLETE"
  ELSE IF f.packet.status = "BLOCKED" THEN "BLOCK_HUMAN"
  ELSE IF f.pr.exists THEN PrPipeline(f) ELSE ImplementationPath(f)

(* "RETRY" is the branch of a transient failure.                           *)
Branch(f) ==
  IF f.packet.status = "COMPLETE" THEN "NOOP_COMPLETE"
  ELSE IF f.packet.status = "PAUSED" THEN "NOOP_PAUSED"
  ELSE IF f.packet.status = "BLOCKED" THEN "BLOCK_HUMAN"
  ELSE IF f.mutation.ambiguous \/ f.failure.class = "AMBIGUOUS_MUTATION" THEN "RECONCILE_AMBIGUOUS"
  ELSE IF LiveWorker(f) /\ ~ActiveWorker(f) THEN "STALE_WORKER"
  ELSE IF f.failure.class = "SEMANTIC" \/ f.failure.identical_semantic_count >= 2
  THEN "REPLAN_SEMANTIC_FAILURE"
  ELSE IF f.failure.class \in {"HUMAN_REQUIRED", "AUTHORITY"} THEN "BLOCK_HUMAN"
  ELSE IF ResourceBlocked(f) THEN "YIELD_RESOURCE"
  ELSE IF f.failure.class = "TRANSIENT" THEN "RETRY"
  ELSE IF ~DependenciesEligible(f) THEN "WAIT_EXTERNAL"
  ELSE IF f.pr.exists THEN PrPipeline(f)
  ELSE IF f.wait.external THEN "WAIT_EXTERNAL"
  ELSE ImplementationPath(f)

Retried(f) == IF f.wait.retry_count < f.wait.retry_budget THEN "WAIT_EXTERNAL" ELSE "BLOCK_HUMAN"

Plan(f) == IF Branch(f) = "RETRY" THEN Retried(f) ELSE Branch(f)

-----------------------------------------------------------------------------
(* The report of a decision.                                               *)

SubjectVersion(f) ==
  IF f.pr.head # "UNKNOWN" THEN f.pr.head
  ELSE IF f.ci.subject_head # "UNKNOWN" THEN f.ci.subject_head
  ELSE IF f.git.head # "UNKNOWN" THEN f.git.head ELSE "NONE"

(* Waiting for the verdict of a pull request is about its head only.       *)
DecisionSubject(f, decision) ==
  IF decision = "WAIT_EXACT_HEAD_CI" /\ f.pr.head = "UNKNOWN" THEN "NONE" ELSE SubjectVersion(f)

DecisionClass(decision) == IF decision \in WaitDecisions THEN "WAIT" ELSE decision

DecisionKey(f, decision) ==
  <<f.packet.intent_revision, DecisionClass(decision), DecisionSubject(f, decision)>>

(* _emit: a notification is sent unless it is a worker's micro-step or the *)
(* caller passes in the key of the same decision.                          *)
Report(f) ==
  LET decision == Plan(f)
      key      == DecisionKey(f, decision)
  IN  [decision |-> decision, key |-> key,
       disposition |-> IF decision \in QuietMicrosteps \/ f.previous_decision.key = key
                       THEN "SUPPRESS" ELSE "SEND",
       launches_worker |-> decision = "ADMIT_IMPLEMENTATION"]
=============================================================================
