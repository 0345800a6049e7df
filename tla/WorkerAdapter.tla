---------------------------- MODULE WorkerAdapter ----------------------------
(***************************************************************************)
(* tools/worker_adapter.py and the authorize path of                       *)
(* tools/skills-contract.py: what is said of one request for an external   *)
(* write.                                                                  *)
(*                                                                         *)
(* A request names the effect: the packet it is bound to and the content   *)
(* to write.  Hashes are injective, so an effect stands for its digest.    *)
(* A signed dispatch names the effect it is for, the binding it goes with  *)
(* and when it expires.  What is wrong with the signed files, if anything  *)
(* is, is the dispatch's flaw.                                             *)
(***************************************************************************)
EXTENDS Integers

AllowedAction == {"update_work_packet", "comment_work_packet", "create_pull_request",
                  "update_pull_request", "authorize_publication"}

OnlyUnknownOutcomes == {"UNKNOWN", "AMBIGUOUS"}   \* faulty: a timeout is no outcome
AmbiguousOutcomes == {"TIMEOUT", "UNKNOWN", "AMBIGUOUS"}

NoFlaw == "NONE"

(* What the adapter itself asks of the files, in its order, and then       *)
(* authorize: the scope of a high risk class is checked before the         *)
(* dispatch's id and expiry, the policy and the classes after it.          *)
AdapterFlaw   == {"ASSERTION_MISSING", "BOUNDARY_UNAVAILABLE", "SIGNATURE_MISMATCH",
                  "NOT_AN_EXTERNAL_WRITE", "PERMISSION_TOO_WEAK", "WORKTREE_INVALID"}
AssertionFlaw == {"TRUST_ANCHOR_MISMATCH", "BINDING_ASSERTION_MISMATCH"}
ScopeFlaw     == {"AUTHORITY_SCOPE_MISSING", "AUTHORITY_SCOPE_INVALID",
                  "WORKTREE_SCOPE_MISMATCH", "SESSION_SCOPE_MISMATCH"}
ReplayFlaw    == {"REPLAY_CONTRACT_INCOMPLETE"}
PolicyFlaw    == {"POLICY_DIGEST_MISMATCH", "UNKNOWN_PROFILE", "AUTHORITY_UNTRUSTED",
                  "CLASSIFICATION_TAMPER", "CLASS_DENIED", "APPROVAL_REQUIRED"}
Flaws == {NoFlaw} \cup AdapterFlaw \cup AssertionFlaw \cup ScopeFlaw \cup ReplayFlaw \cup PolicyFlaw

(* _high_risk_scope_problem: the scope the binding was signed for is that  *)
(* of the effect, and the dispatch was signed for this scope.              *)
ScopeProblem(dispatch, effect) ==
  IF dispatch.flaw \in ScopeFlaw THEN dispatch.flaw
  ELSE IF dispatch.scope # effect.bound THEN "AUTHORITY_SCOPE_MISMATCH"
  ELSE NoFlaw

(* authorize, up to the consumption of the dispatch.                       *)
Authorize(dispatch, effect, time) ==
  IF dispatch.flaw \in AssertionFlaw THEN dispatch.flaw
  ELSE IF dispatch.effect # effect THEN "REQUEST_BINDING_MISMATCH"
  ELSE IF ScopeProblem(dispatch, effect) # NoFlaw THEN ScopeProblem(dispatch, effect)
  ELSE IF dispatch.flaw \in ReplayFlaw THEN dispatch.flaw
  ELSE IF time >= dispatch.expires THEN "DISPATCH_EXPIRED"
  ELSE IF dispatch.flaw \in PolicyFlaw THEN dispatch.flaw
  ELSE "ALLOW"

(* consume_dispatch_once: an exclusive create of the marker.               *)
ConsumeAgain(dispatch, consumed) == "ALLOW"   \* faulty: opens the marker it finds
Consume(dispatch, consumed) == IF dispatch.id \in consumed THEN "REPLAY" ELSE "ALLOW"

(* _authorize_concrete_effect, which consumes the dispatch.                *)
Gate(dispatch, effect, time, consumed) ==
  IF dispatch.flaw \in AdapterFlaw THEN dispatch.flaw
  ELSE IF Authorize(dispatch, effect, time) # "ALLOW" THEN Authorize(dispatch, effect, time)
  ELSE Consume(dispatch, consumed)

(* faulty: takes any revision of the packet.                               *)
MovedButForRevision(q) == [q.authoritative EXCEPT !.revision = q.effect.bound.revision] # q.effect.bound
Moved(q) == q.authoritative # q.effect.bound

(* evaluate: q is the request, gate what _authorize_concrete_effect says   *)
(* when it is asked.                                                       *)
Evaluate(q, gate) ==
  IF q.forbidden \/ q.action \notin AllowedAction THEN "AUTHORITY_DENIED"
  ELSE IF Moved(q) THEN "STALE_WORKER"
  ELSE IF q.outcome \in AmbiguousOutcomes THEN "RECONCILE_AMBIGUOUS"
  ELSE IF q.failure = "SEMANTIC" THEN "FAILED_SEMANTIC"
  ELSE IF q.resource = "BLOCK" \/ q.admission # "ALLOW" THEN "RESOURCE_BLOCKED"
  ELSE IF q.prior = q.effect \/ q.outcome = "APPLIED" THEN "NO_CHANGE"
  ELSE IF q.failure = "TRANSIENT"
    THEN IF q.retries < q.budget THEN "TRANSIENT_RETRYABLE" ELSE "RECONCILE_AMBIGUOUS"
  ELSE IF gate = "REPLAY" THEN "NO_CHANGE"
  ELSE IF gate = "ALLOW" THEN "APPLIED"
  ELSE "AUTHORITY_DENIED"
=============================================================================
