------------------------- MODULE WatchedPacketProofs -------------------------
(***************************************************************************)
(* What overlapping runs tell of a packet that changes under their reads,  *)
(* for any packets, commits, verdicts and faults: theorems about           *)
(* WatchedPacket.                                                          *)
(***************************************************************************)
EXTENDS WatchedPacket, TLAPS

-----------------------------------------------------------------------------
(* The planner's facts are what was read.                                  *)

LEMMA Supplied ==
  ASSUME NEW raw, NEW group \in DOMAIN Defaults
  PROVE  Normalized(raw)[group] =
           IF group \in DOMAIN raw THEN Over(raw[group], Defaults[group]) ELSE Defaults[group]
  BY DEF Normalized

LEMMA Merged ==
  ASSUME NEW g, NEW d, NEW x \in DOMAIN g \cup DOMAIN d
  PROVE  Over(g, d)[x] = IF x \in DOMAIN g THEN g[x] ELSE d[x]
  BY DEF Over

LEMMA FactsRead ==
  ASSUME NEW c, c.head \in Heads, NEW f, f = Normalized(Facts(c)), WellFormed(Facts(c))
  PROVE  /\ f.packet.intent_revision = c.packet.intent_revision
         /\ f.packet.intent_revision \in Nat \ {0}
         /\ f.ci.state = c.ci /\ f.ci.subject_head = c.head
         /\ f.pr.head = IF c.pull THEN c.head ELSE "UNKNOWN"
         /\ f.failure.class = "NONE" /\ f.failure.identical_semantic_count = 0
         /\ f.publication.coordinator_audit = c.packet.audit
         /\ f.publication.authorized_intent_revision = c.packet.authorized
  <1>. DEFINE raw == Facts(c)
  <1>1. DOMAIN Defaults = {"packet", "worker", "git", "resource", "admission", "mutation", "failure",
                           "publication", "pr", "ci", "review", "wait", "gates", "previous_decision"}
    BY DEF Defaults
  <1>2. /\ f.packet = Over(raw.packet, Defaults.packet)
        /\ f.ci = Over(raw.ci, Defaults.ci)
        /\ f.pr = Over(raw.pr, Defaults.pr)
        /\ f.failure = Over(raw.failure, Defaults.failure)
        /\ f.publication = Over(raw.publication, Defaults.publication)
    BY <1>1, Supplied DEF Facts
  <1>3. f.packet.intent_revision = c.packet.intent_revision
    BY <1>2 DEF Facts, Over
  <1>4. f.ci.state = c.ci /\ f.ci.subject_head = c.head
    BY <1>2 DEF Facts, Over
  <1>5. f.failure.class = "NONE" /\ f.failure.identical_semantic_count = 0
    BY <1>2 DEF Facts, Over
  <1>6. f.pr.head = IF c.pull THEN c.head ELSE "UNKNOWN"
    <2>1. raw.pr = PullFacts(c) /\ Defaults.pr.head = "UNKNOWN" /\ "head" \in DOMAIN Defaults.pr
      BY DEF Facts, Defaults
    <2>2. CASE c.pull
      <3>1. raw.pr = [exists |-> TRUE, state |-> "OPEN", head |-> c.head, mergeable |-> "UNKNOWN"]
        BY <2>1, <2>2 DEF PullFacts
      <3>2. raw.pr.head = c.head /\ "head" \in DOMAIN raw.pr
        BY <3>1
      <3>. QED  BY <1>2, <2>2, <3>2 DEF Over
    <2>3. CASE ~c.pull
      <3>1. raw.pr = [exists |-> FALSE]
        BY <2>1, <2>3 DEF PullFacts
      <3>2. "head" \notin DOMAIN raw.pr
        BY <3>1
      <3>. QED  BY <1>2, <2>1, <2>3, <3>2 DEF Over
    <2>. QED  BY <2>2, <2>3
  <1>7. f.publication.coordinator_audit = c.packet.audit
    BY <1>2 DEF Facts, Publication, Over
  <1>8. f.publication.authorized_intent_revision = c.packet.authorized
    <2>. DEFINE x == "authorized_intent_revision"
                p == raw.publication
    <2>1. x \in DOMAIN Defaults.publication /\ Defaults.publication[x] = 0
      BY DEF Defaults
    <2>2. CASE c.packet.authorized = 0
      <3>1. p = Over([coordinator_audit |-> c.packet.audit], <<>>)
        BY <2>2 DEF Facts, Publication
      <3>2. x \notin DOMAIN <<>>
        OBVIOUS
      <3>3. x \notin DOMAIN p
        BY <3>1, <3>2 DEF Over
      <3>. HIDE DEF p
      <3>. QED  BY <1>2, <2>1, <2>2, <3>3 DEF Over, p
    <2>3. CASE c.packet.authorized # 0
      <3>1. p = Over([coordinator_audit |-> c.packet.audit],
                     [authorized_intent_revision |-> c.packet.authorized])
        BY <2>3 DEF Facts, Publication
      <3>2. x \in DOMAIN p /\ p[x] = c.packet.authorized
        BY <3>1 DEF Over
      <3>. HIDE DEF p
      <3>. QED  BY <1>2, <2>1, <3>2 DEF Over, p
    <2>. QED  BY <2>2, <2>3
  <1>9. c.packet.intent_revision \in Nat \ {0}
    BY DEF WellFormed, Facts, Legal, Revisions
  <1>. QED  BY <1>3, <1>4, <1>5, <1>6, <1>7, <1>8, <1>9

-----------------------------------------------------------------------------
(* What an evaluation tells.                                               *)

LEMMA EmittedKey ==
  ASSUME NEW o, NEW s, NEW result, NEW decision, NEW closed, NEW next, NEW unchanged,
         NEW e, e = Emit(o, s, result, decision, closed, next, unchanged), e.result \in Typed
  PROVE  e.key = Key(Identity(o), result, decision)
  <1>1. e.result = result
    BY DEF Emit
  <1>2. result # "NO_CHANGE"
    BY <1>1 DEF Typed
  <1>. QED  BY <1>2 DEF Emit

(* Names for the truth values, which keep them apart from formulas.        *)
Open == FALSE
Shut == TRUE

(* Every typed result is for the decision the planner made, unless it is   *)
(* one the evaluator makes itself.                                         *)
Verdictful == {"AUDIT_REVIEW", "REPLAN_SEMANTIC_FAILURE", "AUTHORIZE_PUBLICATION"}

TellsPlan(o, key) ==
  \E result, decision : /\ key = Key(Identity(o), result, decision)
                        /\ decision \in Verdictful => decision = o.plan

LEMMA LaterTells ==
  ASSUME NEW o, NEW s, NEW result, NEW decision, NEW unchanged, NEW e,
         e = Later(o, s, result, decision, unchanged) \/ e = Now(o, s, result, decision),
         e.result \in Typed, decision \in Verdictful => decision = o.plan
  PROVE  TellsPlan(o, e.key)
  <1>1. CASE e = Later(o, s, result, decision, unchanged)
    <2>1. e.key = Key(Identity(o), result, decision)
      <3>1. e = Emit(o, s, result, decision, Open, o.at + Backoff(s, unchanged), unchanged)
        BY <1>1 DEF Later, Open
      <3>. QED  BY <3>1, EmittedKey
    <2>. QED  BY <2>1 DEF TellsPlan
  <1>2. CASE e = Now(o, s, result, decision)
    <2>1. e.key = Key(Identity(o), result, decision)
      <3>1. e = Emit(o, s, result, decision, Open, 0, Open)
        BY <1>2 DEF Now, Open
      <3>. QED  BY <3>1, EmittedKey
    <2>. QED  BY <2>1 DEF TellsPlan
  <1>. QED  BY <1>1, <1>2

LEMMA MappedTells ==
  ASSUME NEW o, NEW s, NEW e, e = MapDecision(o, s), e.result \in Typed
  PROVE  TellsPlan(o, e.key)
  <1>1. PICK name : name = Planned(o, s)
    OBVIOUS
  <1>2. name \in Verdictful => name = o.plan
    BY <1>1 DEF Planned, Verdictful
  <1>3. CASE name = "NOOP_COMPLETE" \/ o.complete
    <2>1. e = Emit(o, s, "CLOSE_WATCH", name, Shut, 0, Open)
      BY <1>1, <1>3 DEF MapDecision, Shut, Open
    <2>2. e.key = Key(Identity(o), "CLOSE_WATCH", name)
      BY <2>1, EmittedKey
    <2>. QED  BY <1>2, <2>2 DEF TellsPlan
  <1>4. CASE ~(name = "NOOP_COMPLETE" \/ o.complete) /\ name = "RECONCILE_AMBIGUOUS"
    <2>1. e = Now(o, s, "BLOCK_RECONCILIATION", name)
      BY <1>1, <1>4 DEF MapDecision
    <2>. QED  BY <1>2, <2>1, LaterTells
  <1>5. CASE ~(name = "NOOP_COMPLETE" \/ o.complete) /\ name = "BLOCK_HUMAN"
    <2>1. e = NotifyOwner(o, s)
      BY <1>1, <1>5 DEF MapDecision
    <2>2. "BLOCK_HUMAN" \notin Verdictful
      BY DEF Verdictful
    <2>. QED  BY <2>1, <2>2, LaterTells DEF NotifyOwner
  <1>6. CASE ~(name = "NOOP_COMPLETE" \/ o.complete) /\ name = "RESUME_WORKER"
    <2>1. e = ResumeWorker(o, s)
      BY <1>1, <1>6 DEF MapDecision
    <2>2. "RESUME_WORKER" \notin Verdictful
      BY DEF Verdictful
    <2>3. CASE o.class # "worker_progress_or_yield"
      <3>1. e = [Now(o, s, "BLOCK_RECONCILIATION", "OUT_OF_SCOPE")
                   EXCEPT !.state.digest = Digest(o, "RESUME_WORKER")]
        BY <2>1, <2>3 DEF ResumeWorker
      <3>2. e.result = "BLOCK_RECONCILIATION"
        BY <3>1 DEF Now, Emit
      <3>. QED  BY <3>2 DEF Typed
    <2>4. CASE o.class = "worker_progress_or_yield"
      <3>1. \E result, unchanged : e = Later(o, s, result, "RESUME_WORKER", unchanged)
        BY <2>1, <2>4 DEF ResumeWorker
      <3>. QED  BY <2>2, <3>1, LaterTells
    <2>. QED  BY <2>3, <2>4
  <1>7. CASE ~(name = "NOOP_COMPLETE" \/ o.complete)
             /\ name \notin {"RECONCILE_AMBIGUOUS", "BLOCK_HUMAN", "RESUME_WORKER"}
    <2>1. \E result, unchanged : e = Later(o, s, result, name, unchanged)
      BY <1>1, <1>7 DEF MapDecision, Wake
    <2>. QED  BY <1>2, <2>1, LaterTells
  <1>. QED  BY <1>3, <1>4, <1>5, <1>6, <1>7

LEMMA EvaluatedTells ==
  ASSUME NEW o, NEW s, NEW e, e = Evaluate(o, s), e.result \in Typed
  PROVE  TellsPlan(o, e.key)
  <1>1. e # Preserve(s, "CLOSE_WATCH") /\ e # Preserve(s, "NO_CHANGE") /\ e # CloseStale(o, s)
    BY DEF Preserve, CloseStale, Typed
  <1>2. e = MapDecision(o, s)
    BY <1>1 DEF Evaluate
  <1>. QED  BY <1>2, MappedTells

(* The branches of the planner that name a verdict, on facts like those    *)
(* the collector supplies.                                                 *)
LEMMA BranchHasVerdict ==
  ASSUME NEW f, f.failure.class = "NONE", f.failure.identical_semantic_count = 0
  PROVE  /\ Branch(f) = "AUDIT_REVIEW" => f.ci.state = "PASS"
         /\ Branch(f) = "REPLAN_SEMANTIC_FAILURE" =>
              f.ci.state = "FAIL" \/ f.publication.coordinator_audit = "FAIL"
         /\ Branch(f) = "AUTHORIZE_PUBLICATION" => Authorized(f)
  <1>1. /\ PrPipeline(f) = "AUDIT_REVIEW" => f.ci.state = "PASS"
        /\ PrPipeline(f) = "REPLAN_SEMANTIC_FAILURE" => f.ci.state = "FAIL"
        /\ PrPipeline(f) # "AUTHORIZE_PUBLICATION"
    BY DEF PrPipeline
  <1>2. /\ AuditOrAuthorize(f) # "AUDIT_REVIEW"
        /\ AuditOrAuthorize(f) = "REPLAN_SEMANTIC_FAILURE" => f.publication.coordinator_audit = "FAIL"
        /\ AuditOrAuthorize(f) = "AUTHORIZE_PUBLICATION" => Authorized(f)
    BY DEF AuditOrAuthorize
  <1>3. ImplementationPath(f) \in Verdictful => ImplementationPath(f) = AuditOrAuthorize(f)
    BY DEF ImplementationPath, Verdictful
  <1>4. Branch(f) \in Verdictful => Branch(f) \in {PrPipeline(f), ImplementationPath(f)}
    BY DEF Branch, Verdictful
  <1>. QED  BY <1>1, <1>2, <1>3, <1>4 DEF Verdictful

LEMMA SubjectIsTheHead ==
  ASSUME NEW c, c.head \in Heads, NEW f, f.pr.head = (IF c.pull THEN c.head ELSE "UNKNOWN"),
         f.ci.subject_head = c.head
  PROVE  SubjectVersion(f) = c.head
  BY PacketAssumption DEF SubjectVersion

LEMMA EveryPlanIsConsistent ==
  ASSUME NEW f, NEW class, NEW at PROVE Consistent(Observation(f, class, at))
  <1>. DEFINE o == Observation(f, class, at)
  <1>1. /\ o.plan = Branch(f)
        /\ o.complete <=> f.packet.status = "COMPLETE"
        /\ o.ambiguous <=> f.mutation.ambiguous \/ f.failure.class = "AMBIGUOUS_MUTATION"
        /\ o.transient <=> f.failure.class = "TRANSIENT"
        /\ o.resumable => Branch(f) = "RESUME_WORKER"
    BY DEF Observation
  <1>. HIDE DEF o
  <1>2. Branch(f) = "NOOP_COMPLETE" <=> f.packet.status = "COMPLETE"
    BY DEF Branch, PrPipeline, ImplementationPath, AuditOrAuthorize
  <1>3. Branch(f) = "RETRY" => f.failure.class = "TRANSIENT"
    BY DEF Branch, PrPipeline, ImplementationPath, AuditOrAuthorize
  <1>4. f.failure.class = "TRANSIENT" /\ ~(f.mutation.ambiguous \/ f.failure.class = "AMBIGUOUS_MUTATION")
          => Branch(f) \in UnderTransient
    BY DEF Branch, UnderTransient
  <1>. QED  BY <1>1, <1>2, <1>3, <1>4 DEF Consistent, o

-----------------------------------------------------------------------------
(* The inductive invariant.                                                *)

(* The world has the shape it started with, the branch has been at its     *)
(* head, and what CI and the issue say was reported.                       *)
IsWorld(w) ==
  w = [packet |-> w.packet, head |-> w.head, ci |-> w.ci, pull |-> w.pull, tree |-> w.tree,
       resource |-> w.resource, claim |-> w.claim]

Passed == {"PASS", "FAIL"}

Backed(h, v) == v \in Passed => <<h, v>> \in reported

WorldInv ==
  /\ IsWorld(world) /\ DOMAIN world.ci = Heads /\ world.ci = [h \in Heads |-> world.ci[h]]
  /\ world.head \in pushed /\ pushed \subseteq Heads
  /\ AuditOf(world.packet) \in reported
  /\ \A h \in Heads : Backed(h, world.ci[h])

(* What a run has read is as it was read, and was reported.                *)
Began   == {"head", "status", "pulls", "host", "collected", "recheck"}
Headed  == Began \ {"head"}
Checked == Headed \ {"status"}

IsRun(x) == x = [c |-> x.c, o |-> x.o, first |-> x.first, result |-> x.result]

IsRead(c) ==
  c = [packet |-> c.packet, head |-> c.head, ci |-> c.ci, pull |-> c.pull, dirty |-> c.dirty,
       unpushed |-> c.unpushed, resource |-> c.resource, claim |-> c.claim, at |-> c.at, then |-> c.then]

Reads(r) ==
  /\ pc[r] \in Began => IsRead(run[r].c) /\ AuditOf(run[r].c.packet) \in reported
  /\ pc[r] \in Headed => run[r].c.head \in pushed
  /\ pc[r] \in Checked => Backed(run[r].c.head, run[r].c.ci)
  /\ pc[r] = "collected" =>
       /\ WellFormed(Facts(run[r].c))
       /\ run[r].o = Observation(Normalized(Facts(run[r].c)), WatchClass, run[r].c.at)

(* A run that has something to tell looks a second time.  The branch never *)
(* returns to a commit, so once it was elsewhere it stays elsewhere.       *)
Vouched(k) ==
  LET revision == k[1][1]
      head     == k[1][2]
  IN  /\ k[3] = "AUDIT_REVIEW" => <<head, "PASS">> \in reported
      /\ k[3] = "REPLAN_SEMANTIC_FAILURE" =>
            <<head, "FAIL">> \in reported \/ <<revision, "FAIL">> \in reported
      /\ k[3] = "AUTHORIZE_PUBLICATION" => <<revision, "PASS">> \in reported

Twice(r) == pc[r] \in {"issue", "recheck"} \/ (pc[r] \in Began /\ Again(r))

SecondLook(r) ==
  Twice(r) =>
    /\ run[r].first.head \in pushed
    /\ Vouched(run[r].result.key)
    /\ (pc[r] = "head" /\ run[r].c.then # run[r].first.head) => world.head # run[r].first.head
    /\ (pc[r] \in Headed /\ run[r].c.then # run[r].first.head) => run[r].c.head # run[r].first.head

RunInv(r) ==
  /\ pc[r] \in Began \cup {"idle", "issue"}
  /\ pc[r] # "idle" => IsRun(run[r])
  /\ Reads(r) /\ SecondLook(r)

PacketInv ==
  /\ pc = [r \in Run |-> pc[r]] /\ run = [r \in Run |-> run[r]]
  /\ WorldInv
  /\ \A r \in Run : RunInv(r)
  /\ \A k \in told : Vouched(k)

-----------------------------------------------------------------------------
(* A key that an evaluation tells of a collection is vouched for.          *)

LEMMA KeyParts ==
  ASSUME NEW o, NEW result, NEW decision, NEW k, k = Key(Identity(o), result, decision)
  PROVE  k[1][1] = o.revision /\ k[1][2] = o.subject /\ k[3] = decision
  BY DEF Key, Identity

LEMMA VouchedKey ==
  ASSUME NEW c, c.head \in Heads, Backed(c.head, c.ci), AuditOf(c.packet) \in reported,
         WellFormed(Facts(c)), NEW o, o = Observation(Normalized(Facts(c)), WatchClass, c.at),
         NEW s, NEW e, e = Evaluate(o, s), e.result \in Typed
  PROVE  Vouched(e.key)
  <1>1. PICK result, decision :
          e.key = Key(Identity(o), result, decision) /\ (decision \in Verdictful => decision = o.plan)
    BY EvaluatedTells DEF TellsPlan
  <1>2. PICK k : k = e.key
    OBVIOUS
  <1>3. k[1][1] = o.revision /\ k[1][2] = o.subject /\ k[3] = decision
    BY <1>1, <1>2, KeyParts
  <1>4. PICK f : f = Normalized(Facts(c))
    OBVIOUS
  <1>5. o.revision = f.packet.intent_revision /\ o.subject = SubjectVersion(f) /\ o.plan = Branch(f)
    BY <1>4 DEF Observation
  <1>6. /\ f.packet.intent_revision = c.packet.intent_revision
        /\ f.packet.intent_revision \in Nat \ {0}
        /\ f.ci.state = c.ci /\ f.ci.subject_head = c.head
        /\ f.pr.head = (IF c.pull THEN c.head ELSE "UNKNOWN")
        /\ f.failure.class = "NONE" /\ f.failure.identical_semantic_count = 0
        /\ f.publication.coordinator_audit = c.packet.audit
        /\ f.publication.authorized_intent_revision = c.packet.authorized
    BY <1>4, FactsRead
  <1>7. o.subject = c.head /\ o.revision = c.packet.intent_revision
    BY <1>5, <1>6, SubjectIsTheHead
  <1>8. /\ Branch(f) = "AUDIT_REVIEW" => c.ci = "PASS"
        /\ Branch(f) = "REPLAN_SEMANTIC_FAILURE" => c.ci = "FAIL" \/ c.packet.audit = "FAIL"
        /\ Branch(f) = "AUTHORIZE_PUBLICATION" => Authorized(f)
    BY <1>6, BranchHasVerdict
  <1>9. CASE decision \notin Verdictful
    BY <1>2, <1>3, <1>9 DEF Vouched, Verdictful
  <1>10. CASE decision = "AUDIT_REVIEW"
    <2>1. c.ci = "PASS"
      BY <1>1, <1>5, <1>8, <1>10 DEF Verdictful
    <2>2. <<c.head, "PASS">> \in reported
      BY <2>1 DEF Backed, Passed
    <2>. QED  BY <1>2, <1>3, <1>7, <1>10, <2>2 DEF Vouched
  <1>11. CASE decision = "REPLAN_SEMANTIC_FAILURE"
    <2>1. c.ci = "FAIL" \/ c.packet.audit = "FAIL"
      BY <1>1, <1>5, <1>8, <1>11 DEF Verdictful
    <2>2. c.ci = "FAIL" => <<c.head, "FAIL">> \in reported
      BY DEF Backed, Passed
    <2>3. c.packet.audit = "FAIL" => <<c.packet.intent_revision, "FAIL">> \in reported
      BY DEF AuditOf
    <2>. QED  BY <1>2, <1>3, <1>7, <1>11, <2>1, <2>2, <2>3 DEF Vouched
  <1>12. CASE decision = "AUTHORIZE_PUBLICATION"
    <2>1. c.packet.audit = "PASS" /\ c.packet.authorized = c.packet.intent_revision
      BY <1>1, <1>5, <1>6, <1>8, <1>12 DEF Verdictful, Authorized
    <2>2. <<c.packet.intent_revision, "PASS">> \in reported
      BY <2>1 DEF AuditOf
    <2>. QED  BY <1>2, <1>3, <1>7, <1>12, <2>2 DEF Vouched
  <1>. QED  BY <1>9, <1>10, <1>11, <1>12 DEF Verdictful

-----------------------------------------------------------------------------
(* The world outside.                                                      *)

(* What was reported stays so, and the branch does not return to a commit. *)
Grows ==
  /\ pushed \subseteq pushed' /\ reported \subseteq reported'
  /\ \A h \in pushed : world.head # h => world'.head # h

LEMMA OutsideStep ==
  ASSUME WorldInv, Outside
  PROVE  WorldInv' /\ Grows /\ UNCHANGED <<pc, run, told>>
  <1>0. IsWorld(world) /\ world.head \in pushed /\ pushed \subseteq Heads
    BY DEF WorldInv
  <1>1. ASSUME NEW p \in Packet, EditIssue(p)
        PROVE  WorldInv' /\ Grows /\ UNCHANGED <<pc, run, told>>
    <2>1. /\ world' = [world EXCEPT !.packet = p] /\ reported' = reported \cup {AuditOf(p)}
          /\ UNCHANGED <<pushed, pc, run, told>>
      BY <1>1 DEF EditIssue, Change
    <2>2. IsWorld(world') /\ world'.packet = p /\ world'.head = world.head /\ world'.ci = world.ci
      BY <1>0, <2>1 DEF IsWorld
    <2>. QED  BY <2>1, <2>2 DEF WorldInv, Grows, Backed
  <1>2. ASSUME NEW h \in Heads, NEW here \in BOOLEAN, Push(h, here)
        PROVE  WorldInv' /\ Grows /\ UNCHANGED <<pc, run, told>>
    <2>1. /\ world' = [world EXCEPT !.head = h, !.tree = IF here THEN Pushed(h) ELSE @]
          /\ pushed' = pushed \cup {h} /\ h \notin pushed
          /\ UNCHANGED <<reported, pc, run, told>>
      BY <1>2 DEF Push, Change
    <2>2. IsWorld(world') /\ world'.packet = world.packet /\ world'.head = h /\ world'.ci = world.ci
      BY <1>0, <2>1 DEF IsWorld
    <2>. QED  BY <2>1, <2>2 DEF WorldInv, Grows, Backed
  <1>3. ASSUME NEW h \in Heads, NEW v \in Verdicts, Verdict(h, v)
        PROVE  WorldInv' /\ Grows /\ UNCHANGED <<pc, run, told>>
    <2>1. /\ world' = [world EXCEPT !.ci[h] = v] /\ reported' = reported \cup {<<h, v>>}
          /\ UNCHANGED <<pushed, pc, run, told>>
      BY <1>3 DEF Verdict, Change
    <2>2. /\ IsWorld(world') /\ world'.packet = world.packet /\ world'.head = world.head
          /\ world'.ci = [world.ci EXCEPT ![h] = v]
      BY <1>0, <2>1 DEF IsWorld
    <2>. QED  BY <2>1, <2>2 DEF WorldInv, Grows, Backed
  <1>4. ASSUME ChangeElse
        PROVE  WorldInv' /\ Grows /\ UNCHANGED <<pc, run, told>>
    <2>1. UNCHANGED <<pushed, reported, pc, run, told>>
      BY <1>4 DEF ChangeElse, Change
    <2>2. IsWorld(world') /\ world'.packet = world.packet /\ world'.head = world.head /\ world'.ci = world.ci
      BY <1>0, <1>4 DEF ChangeElse, Change, IsWorld
    <2>. QED  BY <2>1, <2>2 DEF WorldInv, Grows, Backed
  <1>. QED  BY <1>1, <1>2, <1>3, <1>4 DEF Outside

(* A run that does not move keeps what it knows.                           *)
LEMMA VouchedStays ==
  ASSUME NEW k, Vouched(k), reported \subseteq reported' PROVE Vouched(k)'
  BY DEF Vouched

LEMMA RunStays ==
  ASSUME NEW r, RunInv(r), Grows, pc'[r] = pc[r], run'[r] = run[r]
  PROVE  RunInv(r)'
  <1>1. Reads(r)'
    BY DEF RunInv, Reads, Grows, Backed
  <1>2. SecondLook(r)'
    <2>. SUFFICES ASSUME Twice(r)
                  PROVE  /\ run[r].first.head \in pushed'
                         /\ Vouched(run[r].result.key)'
                         /\ (pc[r] = "head" /\ run[r].c.then # run[r].first.head) => world'.head # run[r].first.head
                         /\ (pc[r] \in Headed /\ run[r].c.then # run[r].first.head)
                               => run[r].c.head # run[r].first.head
      BY DEF SecondLook, Twice, Again, Vouched
    <2>1. /\ run[r].first.head \in pushed
          /\ Vouched(run[r].result.key)
          /\ (pc[r] = "head" /\ run[r].c.then # run[r].first.head) => world.head # run[r].first.head
          /\ (pc[r] \in Headed /\ run[r].c.then # run[r].first.head) => run[r].c.head # run[r].first.head
      BY DEF RunInv, SecondLook
    <2>. QED  BY <2>1 DEF Grows, Vouched
  <1>3. pc'[r] \in Began \cup {"idle", "issue"} /\ (pc'[r] # "idle" => IsRun(run'[r]))
    BY DEF RunInv
  <1>. QED  BY <1>1, <1>2, <1>3 DEF RunInv

-----------------------------------------------------------------------------
(* The steps of one run, which leave the world and the other runs alone.   *)

Functional == pc = [q \in Run |-> pc[q]] /\ run = [q \in Run |-> run[q]]

OthersStay(r) == \A q \in Run : q # r => pc'[q] = pc[q] /\ run'[q] = run[q]

LEMMA EndOfRun ==
  ASSUME Functional, NEW r \in Run, End(r)
  PROVE  RunInv(r)' /\ OthersStay(r) /\ Functional'
  <1>1. pc'[r] = "idle" /\ OthersStay(r) /\ Functional'
    BY DEF Functional, End, OthersStay
  <1>2. RunInv(r)'
    BY <1>1 DEF RunInv, Reads, SecondLook, Twice, Began, Headed, Checked
  <1>. QED  BY <1>1, <1>2

LEMMA StepOfRun ==
  ASSUME Functional, NEW r \in Run, RunInv(r), pc[r] # "idle", NEW where, NEW c, Step(r, where, c)
  PROVE  /\ pc'[r] = where /\ run'[r].c = c /\ run'[r].first = run[r].first
         /\ run'[r].result = run[r].result /\ IsRun(run'[r])
         /\ OthersStay(r) /\ Functional' /\ UNCHANGED <<world, pushed, reported, told>>
  <1>1. IsRun(run[r])
    BY DEF RunInv
  <1>2. /\ pc' = [pc EXCEPT ![r] = where] /\ run' = [run EXCEPT ![r].c = c]
        /\ UNCHANGED <<world, pushed, reported, told>>
    BY DEF Step, outer
  <1>3. run'[r] = [run[r] EXCEPT !.c = c] /\ pc'[r] = where /\ OthersStay(r) /\ Functional'
    BY <1>2 DEF Functional, OthersStay
  <1>4. /\ run'[r].c = c /\ run'[r].first = run[r].first
        /\ run'[r].result = run[r].result /\ IsRun(run'[r])
    BY <1>1, <1>3 DEF IsRun
  <1>. QED  BY <1>2, <1>3, <1>4

LEMMA ReadIssueStep ==
  ASSUME Functional, WorldInv, NEW r \in Run, RunInv(r), ReadIssue(r)
  PROVE  RunInv(r)' /\ OthersStay(r) /\ Functional'
  <1>1. PICK c : c = [Blank EXCEPT !.packet = world.packet,
                                   !.then = IF At(r, "issue") THEN world.head ELSE "NONE"]
    OBVIOUS
  <1>2. /\ pc' = [pc EXCEPT ![r] = "head"]
        /\ run' = [run EXCEPT ![r] = IF At(r, "issue") THEN [@ EXCEPT !.c = c]
                                     ELSE Collecting(c, Nothing, Nothing)]
        /\ UNCHANGED <<world, pushed, reported>>
    BY <1>1 DEF ReadIssue, outer
  <1>3. pc'[r] = "head" /\ OthersStay(r) /\ Functional'
    BY <1>2 DEF Functional, OthersStay
  <1>4. IsRead(c) /\ c.packet = world.packet /\ (At(r, "issue") => c.then = world.head)
    BY <1>1 DEF IsRead, Blank
  <1>5. CASE At(r, "issue")
    <2>1. run'[r] = [run[r] EXCEPT !.c = c] /\ IsRun(run[r]) /\ SecondLook(r) /\ Twice(r)
      BY <1>2, <1>5 DEF Functional, RunInv, At, Twice
    <2>2. /\ run'[r].c = c /\ run'[r].first = run[r].first
          /\ run'[r].result = run[r].result /\ IsRun(run'[r])
      BY <2>1 DEF IsRun
    <2>3. run[r].first.head \in pushed /\ Vouched(run[r].result.key)
      BY <2>1 DEF SecondLook
    <2>4. Reads(r)'
      BY <1>2, <1>3, <1>4, <2>2 DEF Reads, Headed, Checked, Began, WorldInv
    <2>5. SecondLook(r)'
      BY <1>2, <1>3, <1>4, <1>5, <2>2, <2>3 DEF SecondLook, Headed, Began, Vouched
    <2>. QED  BY <1>3, <2>2, <2>4, <2>5 DEF RunInv, Began
  <1>6. CASE ~At(r, "issue")
    <2>1. run'[r] = Collecting(c, Nothing, Nothing)
      BY <1>2, <1>6 DEF Functional
    <2>2. run'[r].c = c /\ run'[r].first = Nothing /\ IsRun(run'[r])
      BY <2>1 DEF Collecting, IsRun
    <2>3. Reads(r)'
      BY <1>2, <1>3, <1>4, <2>2 DEF Reads, Headed, Checked, Began, WorldInv
    <2>4. SecondLook(r)'
      BY <1>3, <2>2 DEF SecondLook, Twice, Again
    <2>. QED  BY <1>3, <2>2, <2>3, <2>4 DEF RunInv, Began
  <1>. QED  BY <1>3, <1>5, <1>6

LEMMA ReadHeadStep ==
  ASSUME Functional, WorldInv, NEW r \in Run, RunInv(r), ReadHead(r)
  PROVE  RunInv(r)' /\ OthersStay(r) /\ Functional'
  <1>1. PICK c : c = [run[r].c EXCEPT !.head = world.head]
    OBVIOUS
  <1>2. pc[r] = "head" /\ Step(r, "status", c)
    BY <1>1 DEF ReadHead, At
  <1>3. /\ pc'[r] = "status" /\ run'[r].c = c /\ run'[r].first = run[r].first
        /\ run'[r].result = run[r].result /\ IsRun(run'[r])
        /\ OthersStay(r) /\ Functional' /\ UNCHANGED <<world, pushed, reported>>
    BY <1>2, StepOfRun
  <1>4. IsRead(run[r].c) /\ AuditOf(run[r].c.packet) \in reported
    BY <1>2 DEF RunInv, Reads, Began
  <1>5. IsRead(c) /\ c.packet = run[r].c.packet /\ c.then = run[r].c.then /\ c.head = world.head
    BY <1>1, <1>4 DEF IsRead
  <1>6. Reads(r)'
    BY <1>3, <1>4, <1>5 DEF Reads, Headed, Checked, Began, WorldInv
  <1>7. SecondLook(r)'
    <2>1. Twice(r)' => Twice(r)
      BY <1>2, <1>3 DEF Twice, Again, Began
    <2>. QED  BY <1>2, <1>3, <1>5, <2>1 DEF RunInv, SecondLook, Vouched, Headed, Began
  <1>. QED  BY <1>3, <1>6, <1>7 DEF RunInv, Began

LEMMA ReadStatusStep ==
  ASSUME Functional, WorldInv, NEW r \in Run, RunInv(r), ReadStatus(r)
  PROVE  RunInv(r)' /\ OthersStay(r) /\ Functional'
  <1>1. PICK c : c = [run[r].c EXCEPT !.ci = world.ci[run[r].c.head]]
    OBVIOUS
  <1>2. pc[r] = "status" /\ Step(r, "pulls", c)
    BY <1>1 DEF ReadStatus, At
  <1>3. /\ pc'[r] = "pulls" /\ run'[r].c = c /\ run'[r].first = run[r].first
        /\ run'[r].result = run[r].result /\ IsRun(run'[r])
        /\ OthersStay(r) /\ Functional' /\ UNCHANGED <<world, pushed, reported>>
    BY <1>2, StepOfRun
  <1>4. IsRead(run[r].c) /\ AuditOf(run[r].c.packet) \in reported /\ run[r].c.head \in pushed
    BY <1>2 DEF RunInv, Reads, Began, Headed
  <1>5. /\ IsRead(c) /\ c.packet = run[r].c.packet /\ c.then = run[r].c.then
        /\ c.head = run[r].c.head /\ c.ci = world.ci[c.head]
    BY <1>1, <1>4 DEF IsRead
  <1>6. Backed(c.head, c.ci)
    BY <1>4, <1>5 DEF WorldInv
  <1>7. Reads(r)'
    BY <1>3, <1>4, <1>5, <1>6 DEF Reads, Headed, Checked, Began, Backed
  <1>8. SecondLook(r)'
    <2>1. Twice(r)' => Twice(r)
      BY <1>2, <1>3 DEF Twice, Again, Began
    <2>. QED  BY <1>2, <1>3, <1>5, <2>1 DEF RunInv, SecondLook, Vouched, Headed, Began
  <1>. QED  BY <1>3, <1>7, <1>8 DEF RunInv, Began

LEMMA ReadPullsStep ==
  ASSUME Functional, WorldInv, NEW r \in Run, RunInv(r), ReadPulls(r)
  PROVE  RunInv(r)' /\ OthersStay(r) /\ Functional'
  <1>1. PICK c : c = [run[r].c EXCEPT !.pull = world.pull]
    OBVIOUS
  <1>2. pc[r] = "pulls" /\ (End(r) \/ Step(r, "host", c))
    BY <1>1 DEF ReadPulls, At
  <1>3. CASE End(r)
    BY <1>3, EndOfRun
  <1>4. CASE Step(r, "host", c)
    <2>1. /\ pc'[r] = "host" /\ run'[r].c = c /\ run'[r].first = run[r].first
          /\ run'[r].result = run[r].result /\ IsRun(run'[r])
          /\ OthersStay(r) /\ Functional' /\ UNCHANGED <<world, pushed, reported>>
      BY <1>2, <1>4, StepOfRun
    <2>2. /\ IsRead(run[r].c) /\ AuditOf(run[r].c.packet) \in reported /\ run[r].c.head \in pushed
          /\ Backed(run[r].c.head, run[r].c.ci)
      BY <1>2 DEF RunInv, Reads, Began, Headed, Checked
    <2>3. /\ IsRead(c) /\ c.packet = run[r].c.packet /\ c.then = run[r].c.then
          /\ c.head = run[r].c.head /\ c.ci = run[r].c.ci
      BY <1>1, <2>2 DEF IsRead
    <2>4. Reads(r)'
      BY <2>1, <2>2, <2>3 DEF Reads, Headed, Checked, Began, Backed
    <2>5. SecondLook(r)'
      <3>1. Twice(r)' => Twice(r)
        BY <1>2, <2>1 DEF Twice, Again, Began
      <3>. QED  BY <1>2, <2>1, <2>3, <3>1 DEF RunInv, SecondLook, Vouched, Headed, Began
    <2>. QED  BY <2>1, <2>4, <2>5 DEF RunInv, Began
  <1>. QED  BY <1>2, <1>3, <1>4

(* The last reads of a collection, however many of them failed.            *)
LEMMA CollectedStep ==
  ASSUME Functional, NEW r \in Run, RunInv(r), pc[r] = "host", NEW lost,
         Collected(r, Completed(run[r].c, lost))
  PROVE  RunInv(r)' /\ OthersStay(r) /\ Functional'
  <1>1. PICK c : c = Completed(run[r].c, lost)
    OBVIOUS
  <1>2. PICK f : f = Normalized(Facts(c))
    OBVIOUS
  <1>3. PICK o : o = Observation(f, WatchClass, c.at)
    OBVIOUS
  <1>4. UNCHANGED <<world, pushed, reported>>
    BY DEF Collected, outer
  <1>5. \/ End(r)
        \/ /\ WellFormed(Facts(c))
           /\ pc' = [pc EXCEPT ![r] = IF Again(r) THEN "recheck" ELSE "collected"]
           /\ run' = [run EXCEPT ![r].c = c, ![r].o = o]
    BY <1>1, <1>2, <1>3 DEF Collected
  <1>6. CASE End(r)
    BY <1>6, EndOfRun
  <1>7. CASE /\ WellFormed(Facts(c))
             /\ pc' = [pc EXCEPT ![r] = IF Again(r) THEN "recheck" ELSE "collected"]
             /\ run' = [run EXCEPT ![r].c = c, ![r].o = o]
    <2>1. /\ pc'[r] = (IF Again(r) THEN "recheck" ELSE "collected")
          /\ run'[r] = [run[r] EXCEPT !.c = c, !.o = o]
          /\ OthersStay(r) /\ Functional'
      BY <1>7 DEF Functional, OthersStay
    <2>2. IsRun(run[r])
      BY DEF RunInv
    <2>3. /\ run'[r].c = c /\ run'[r].o = o /\ run'[r].first = run[r].first
          /\ run'[r].result = run[r].result /\ IsRun(run'[r])
      BY <2>1, <2>2 DEF IsRun
    <2>4. /\ IsRead(run[r].c) /\ AuditOf(run[r].c.packet) \in reported /\ run[r].c.head \in pushed
          /\ Backed(run[r].c.head, run[r].c.ci)
      BY DEF RunInv, Reads, Began, Headed, Checked
    <2>5. /\ IsRead(c) /\ c.packet = run[r].c.packet /\ c.then = run[r].c.then
          /\ c.head = run[r].c.head /\ c.ci = run[r].c.ci
      BY <1>1, <2>4 DEF IsRead, Completed
    <2>6. Reads(r)'
      <3>1. o = Observation(Normalized(Facts(run'[r].c)), WatchClass, run'[r].c.at)
        BY <1>2, <1>3, <2>3
      <3>2. run'[r].o = Observation(Normalized(Facts(run'[r].c)), WatchClass, run'[r].c.at)
            /\ WellFormed(Facts(run'[r].c))
        BY <1>7, <2>3, <3>1
      <3>3. /\ IsRead(run'[r].c) /\ AuditOf(run'[r].c.packet) \in reported' /\ run'[r].c.head \in pushed'
            /\ Backed(run[r].c.head, run[r].c.ci)'
        BY <1>4, <2>3, <2>4, <2>5 DEF Backed
      <3>. QED  BY <3>2, <3>3 DEF Reads
    <2>7. SecondLook(r)'
      <3>1. Twice(r)' => Twice(r)
        BY <2>1 DEF Twice, Again, Began
      <3>. QED  BY <1>4, <2>1, <2>3, <2>5, <3>1 DEF RunInv, SecondLook, Vouched, Headed, Began
    <2>. QED  BY <2>1, <2>3, <2>6, <2>7 DEF RunInv, Began
  <1>. QED  BY <1>5, <1>6, <1>7

LEMMA EvaluatedStep ==
  ASSUME Functional, WorldInv, NEW r \in Run, RunInv(r), Evaluated(r)
  PROVE  RunInv(r)' /\ OthersStay(r) /\ Functional'
  <1>1. PICK c : c = run[r].c
    OBVIOUS
  <1>2. PICK d : d = DirectoryOf(c)
    OBVIOUS
  <1>3. PICK e : e = Evaluate(run[r].o, watch[d])
    OBVIOUS
  <1>4. /\ pc[r] = "collected" /\ UNCHANGED <<world, pushed, reported>>
        /\ \/ End(r)
           \/ /\ e.result \in Typed
              /\ pc' = [pc EXCEPT ![r] = "issue"]
              /\ run' = [run EXCEPT ![r] = Collecting(Blank, c, e)]
    BY <1>1, <1>2, <1>3 DEF Evaluated, At, outer
  <1>5. CASE End(r)
    BY <1>5, EndOfRun
  <1>6. CASE /\ e.result \in Typed
             /\ pc' = [pc EXCEPT ![r] = "issue"]
             /\ run' = [run EXCEPT ![r] = Collecting(Blank, c, e)]
    <2>1. /\ pc'[r] = "issue" /\ run'[r] = Collecting(Blank, c, e)
          /\ OthersStay(r) /\ Functional'
      BY <1>6 DEF Functional, OthersStay
    <2>2. IsRun(run'[r]) /\ run'[r].first = c /\ run'[r].result = e
      BY <2>1 DEF IsRun, Collecting
    <2>3. /\ AuditOf(c.packet) \in reported /\ c.head \in pushed /\ Backed(c.head, c.ci)
          /\ WellFormed(Facts(c))
      BY <1>1, <1>4 DEF RunInv, Reads, Began, Headed, Checked
    <2>4. run[r].o = Observation(Normalized(Facts(c)), WatchClass, c.at)
      BY <1>1, <1>4 DEF RunInv, Reads
    <2>5. Vouched(e.key)
      BY <1>3, <1>6, <2>3, <2>4, VouchedKey DEF WorldInv
    <2>6. Reads(r)'
      BY <2>1 DEF Reads, Began, Headed, Checked
    <2>7. SecondLook(r)'
      BY <1>4, <2>1, <2>2, <2>3, <2>5 DEF SecondLook, Began, Headed, Vouched
    <2>. QED  BY <2>1, <2>2, <2>6, <2>7 DEF RunInv
  <1>. QED  BY <1>4, <1>5, <1>6

(* What a run tells was vouched for when it was decided.                   *)
LEMMA TellingStep ==
  ASSUME Functional, NEW r \in Run, RunInv(r),
         \/ LockHeld(r) \/ Finish(r) \/ RunFails(r)
         \/ \E phase, arrives : BreakOff(r, phase, arrives)
  PROVE  /\ RunInv(r)' /\ OthersStay(r) /\ Functional'
         /\ UNCHANGED <<world, pushed, reported>>
         /\ \A k \in told' : k \in told \/ Vouched(k)
  <1>1. End(r) /\ UNCHANGED <<world, pushed, reported>>
    BY DEF LockHeld, Finish, Refuse, Dedup, Signed, Mismatch, Settle, Deliver, Recorded,
           RunFails, BreakOff, outer
  <1>2. told' = told \/ (told' = told \cup {TheKey(r)} /\ At(r, "recheck"))
    BY DEF LockHeld, Finish, Refuse, Dedup, Signed, Mismatch, Settle, Deliver, Recorded,
           RunFails, BreakOff, Sends, Allowed, Rechecked
  <1>3. At(r, "recheck") => Vouched(TheKey(r))
    BY DEF At, RunInv, SecondLook, Twice, TheKey
  <1>. QED  BY <1>1, <1>2, <1>3, EndOfRun

LEMMA PacketInit ==
  ASSUME Init PROVE PacketInv
  <1>1. /\ world \in Origin /\ pushed = {world.head} /\ told = {}
        /\ reported = {AuditOf(world.packet), <<world.head, world.ci[world.head]>>}
        /\ pc = [r \in Run |-> "idle"] /\ run = [r \in Run |-> Nothing]
    BY DEF Init
  <1>2. WorldInv
    <2>1. IsWorld(world) /\ world.head \in Heads
          /\ world.ci \in [Heads -> {"UNKNOWN", "PENDING", "PASS", "FAIL"}]
      BY <1>1, PacketAssumption DEF IsWorld
    <2>2. ASSUME NEW h \in Heads PROVE Backed(h, world.ci[h])
      <3>1. CASE h = world.head
        BY <1>1, <3>1 DEF Backed
      <3>2. CASE h # world.head
        <4>1. world.ci[h] = "UNKNOWN"
          BY <1>1, <3>2, PacketAssumption
        <4>. QED  BY <4>1 DEF Backed, Passed
      <3>. QED  BY <3>1, <3>2
    <2>. QED  BY <1>1, <2>1, <2>2 DEF WorldInv
  <1>3. \A r \in Run : RunInv(r)
    BY <1>1 DEF RunInv, Reads, SecondLook, Twice, Began, Headed, Checked
  <1>. QED  BY <1>1, <1>2, <1>3 DEF PacketInv

LEMMA PacketStep ==
  ASSUME PacketInv, [Next]_vars PROVE PacketInv'
  <1>1. Functional /\ WorldInv /\ (\A r \in Run : RunInv(r)) /\ \A k \in told : Vouched(k)
    BY DEF PacketInv, Functional
  <1>2. CASE Outside
    <2>1. WorldInv' /\ Grows /\ UNCHANGED <<pc, run, told>>
      BY <1>1, <1>2, OutsideStep
    <2>2. \A r \in Run : RunInv(r)'
      BY <1>1, <2>1, RunStays
    <2>3. \A k \in told' : Vouched(k)'
      BY <1>1, <2>1, VouchedStays DEF Grows
    <2>. QED  BY <1>1, <2>1, <2>2, <2>3 DEF PacketInv, Functional
  <1>3. ASSUME UNCHANGED <<world, pushed, reported>>, \A k \in told' : k \in told \/ Vouched(k),
               NEW r \in Run, RunInv(r)', OthersStay(r), Functional'
        PROVE  PacketInv'
    <2>1. Grows
      BY <1>3 DEF Grows
    <2>2. WorldInv'
      BY <1>1, <1>3 DEF WorldInv, Backed
    <2>3. \A q \in Run : RunInv(q)'
      BY <1>1, <1>3, <2>1, RunStays DEF OthersStay
    <2>4. \A k \in told' : Vouched(k)'
      BY <1>1, <1>3, VouchedStays
    <2>. QED  BY <1>3, <2>2, <2>3, <2>4 DEF PacketInv, Functional
  <1>4. ASSUME NEW r \in Run,
               \/ ReadIssue(r) \/ ReadHead(r) \/ ReadStatus(r) \/ ReadPulls(r) \/ ReadHost(r)
               \/ \E lost : ReadHostPartly(r, lost)
        PROVE  PacketInv'
    <2>1. UNCHANGED <<world, pushed, reported, told>>
      BY <1>4
      DEF ReadIssue, ReadHead, ReadStatus, ReadPulls, ReadHost, ReadHostPartly, Collected, Step, outer
    <2>2. CASE ReadHost(r) \/ \E lost : ReadHostPartly(r, lost)
      <3>1. pc[r] = "host" /\ \E lost : Collected(r, Completed(run[r].c, lost))
        BY <2>2 DEF ReadHost, ReadHostPartly, At
      <3>2. RunInv(r)' /\ OthersStay(r) /\ Functional'
        BY <1>1, <3>1, CollectedStep
      <3>. QED  BY <1>3, <2>1, <3>2
    <2>3. CASE ReadIssue(r) \/ ReadHead(r) \/ ReadStatus(r) \/ ReadPulls(r)
      <3>1. RunInv(r)' /\ OthersStay(r) /\ Functional'
        BY <1>1, <2>3, ReadIssueStep, ReadHeadStep, ReadStatusStep, ReadPullsStep
      <3>. QED  BY <1>3, <2>1, <3>1
    <2>. QED  BY <1>4, <2>2, <2>3
  <1>5. ASSUME NEW r \in Run, Evaluated(r) PROVE PacketInv'
    <2>1. UNCHANGED <<world, pushed, reported, told>>
      BY <1>5 DEF Evaluated, outer
    <2>2. RunInv(r)' /\ OthersStay(r) /\ Functional'
      BY <1>1, <1>5, EvaluatedStep
    <2>. QED  BY <1>3, <2>1, <2>2
  <1>6. ASSUME NEW r \in Run,
               \/ LockHeld(r) \/ Finish(r) \/ RunFails(r)
               \/ \E phase, arrives : BreakOff(r, phase, arrives)
        PROVE  PacketInv'
    BY <1>1, <1>3, <1>6, TellingStep
  <1>7. CASE UNCHANGED vars
    <2>1. UNCHANGED <<world, pushed, reported, pc, run, told>>
      BY <1>7 DEF vars, outer
    <2>2. Grows
      BY <2>1 DEF Grows
    <2>3. \A r \in Run : RunInv(r)'
      BY <1>1, <2>1, <2>2, RunStays
    <2>4. \A k \in told' : Vouched(k)'
      BY <1>1, <2>1, VouchedStays
    <2>5. WorldInv'
      BY <1>1, <2>1 DEF WorldInv, Backed
    <2>. QED  BY <1>1, <2>1, <2>3, <2>4, <2>5 DEF PacketInv, Functional
  <1>. QED  BY <1>2, <1>4, <1>5, <1>6, <1>7 DEF Next, RunOnce, Collect, Decide, Fails

(* Every state has the inductive invariant, however runs and the world     *)
(* interleave.                                                             *)
THEOREM PacketInvariant == Spec => []PacketInv
  <1>1. Init => PacketInv
    BY PacketInit
  <1>2. PacketInv /\ [Next]_vars => PacketInv'
    BY PacketStep
  <1>. QED  BY <1>1, <1>2, PTL DEF Spec

-----------------------------------------------------------------------------
(* What follows for those who are told.                                    *)

(* Whatever the collector could read, the facts it collected are planned   *)
(* into an observation the evaluator is written for.                       *)
THEOREM CollectionsArePlanned == Spec => []PlannedConsistently
  <1>1. PacketInv => PlannedConsistently
    BY EveryPlanIsConsistent DEF PacketInv, RunInv, Reads, PlannedConsistently, At
  <1>. QED  BY <1>1, PacketInvariant, PTL

(* When _reconcile accepts, the branch was at the head that was decided on *)
(* at the moment the issue was read again: it is there after, it was there *)
(* before, and the branch does not return to a commit.                     *)
THEOREM ToldAtOneInstant == Spec => []ToldOfOneInstant
  <1>1. PacketInv => ToldOfOneInstant
    <2>. SUFFICES ASSUME PacketInv, NEW r \in Run, Rechecked(r)
                  PROVE  run[r].c.then = run[r].first.head
      BY DEF ToldOfOneInstant
    <2>1. pc[r] = "recheck" /\ ~Differs(run[r].first, run[r].c)
      BY DEF Rechecked, At, Blocked
    <2>2. run[r].c.head = run[r].first.head
      BY <2>1 DEF Differs, Snapshot
    <2>. QED  BY <2>1, <2>2 DEF PacketInv, RunInv, SecondLook, Twice, Headed, Began
  <1>. QED  BY <1>1, PacketInvariant, PTL

(* Whoever is told of a verdict, it was given on the commit or the         *)
(* revision it is told of, however many verdicts, commits and revisions    *)
(* came in between the reads.                                              *)
THEOREM VerdictsAreTheirs == Spec => []VerdictOfTheSubject
  <1>1. PacketInv => VerdictOfTheSubject
    BY DEF PacketInv, Vouched, VerdictOfTheSubject
  <1>. QED  BY <1>1, PacketInvariant, PTL
=============================================================================
