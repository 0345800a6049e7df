----------------------------- MODULE AdmittedWork -----------------------------
(***************************************************************************)
(* Workers under claims.  One coordinator lists the claim directory, asks  *)
(* work_admission.py and writes, deletes or cleans up; the workers edit    *)
(* their worktrees and report; callers collect the admission facts, as     *)
(* coordinator_watch_collect.py does, and ask worker_adapter.py for one    *)
(* external write.                                                         *)
(*                                                                         *)
(* The decisions and the scans are the repository's code.  The coordinator *)
(* and the workers are not in it: they use the decisions as the requests   *)
(* of work_admission.py are laid out, and nothing locks the claim          *)
(* directory, so that there is one coordinator is an assumption.           *)
(***************************************************************************)
EXTENDS WorkAdmission, WorkerAdapter

CONSTANTS
  Proposal,        \* the claims proposed, one file of the directory for each id
  Files,           \* claim ids are 1..Files, in the order the files are listed
  File,            \* the files of the repositories, as their components
  WIP_LIMIT,
  Packet, Content, \* the authoritative packet's values, contents to write
  Scene,           \* bounds: the proposals made, the statuses reported, what else
                   \* the workers do, whether worktrees are cleaned up, who calls,
                   \* what is signed, how much time passes, how often the packet changes
  Caller, DispatchId,
  Unknown,         \* the ambiguous outcomes a caller reports
  DISPATCH_TTL, RETRY_BUDGET,
  MaxCrashes       \* bound of the model

VARIABLES
  claims,      \* the claim directory
  tree,        \* what git says of each worktree
  coordinator, \* what the coordinator does next
  packet,      \* the authoritative packet
  signed,      \* the dispatches signed so far
  consumed,    \* the markers of the replay directory
  caller,      \* the evaluation each caller is in
  memory,      \* what each caller remembers of each effect
  github,      \* the effects that are on GitHub
  held,        \* history: the revisions whose claims were live since the caller read
  wrote,       \* history: writes that reached GitHub under each dispatch
  landed,      \* history: the effects each caller's writes reached, since it last began
  scene,       \* what this behaviour is about, never changed
  now, changes, crashes

work    == <<claims, tree, coordinator>>
outside == <<packet, signed, consumed, github>>
known   == <<memory, wrote, landed>>
writing == <<outside, caller, known>>
clock   == <<now, changes, crashes, scene>>
vars    == <<work, writing, held, clock>>

Id     == 1..Files
Effect == [bound : Packet, content : Content]

(* What parse_claim lets through, of the values proposed.                  *)
Claim ==
  [id : Id, repository : {p.repository : p \in Proposal},
   workstream : {p.workstream : p \in Proposal}, revision : Nat \ {0},
   worktree : {p.worktree : p \in Proposal}, paths : {p.paths : p \in Proposal},
   status : ActiveStatus \cup ReleasableStatus, runtime : {p.runtime : p \in Proposal},
   dirty : BOOLEAN, unpushed : BOOLEAN, ambiguous : BOOLEAN]

ASSUME WorkAssumption ==
  /\ Files \in Nat /\ WIP_LIMIT \in Nat \ {0}
  /\ Proposal \subseteq Claim /\ File \subseteq Seq(STRING)
  /\ \A p \in Proposal : \A path \in p.paths : Normalized(path) \in Seq(STRING)
  /\ Unknown \subseteq {"TIMEOUT", "UNKNOWN", "AMBIGUOUS"}
  /\ \A s \in Scene : s.proposals \subseteq Proposal /\ s.statuses \subseteq ActiveStatus \cup ReleasableStatus

Absent == [status |-> "absent"]
Torn   == [status |-> "torn"]    \* half written

Present == {i \in Id : claims[i] # Absent}
HasTorn == \E i \in Id : claims[i] = Torn

Worktree == {Canonical(p.worktree) : p \in Proposal}
TreeOf(i) == Canonical(claims[i].worktree)
IsAt(i, w) == claims[i] \notin {Absent, Torn} /\ TreeOf(i) = w

-----------------------------------------------------------------------------
(* The claims a caller looks for.                                          *)

IsOfStream(claim, p) == claim.repository = p.repository /\ claim.workstream = p.workstream
IsClaimOf(claim, p) == IsOfStream(claim, p) /\ claim.revision = p.revision

Resting == [at |-> "idle"]

(* For the history: the revisions of the caller's workstream that these    *)
(* claims are for.                                                         *)
Revisions(these, c) ==
  {claim.revision : claim \in {x \in these : caller[c] # Resting /\ IsOfStream(x, caller[c].packet)}}

-----------------------------------------------------------------------------
(* The coordinator.                                                        *)

Idle == [at |-> "idle"]

(* The facts of a request: the claims, with what git says of each one's    *)
(* worktree now.                                                           *)
Reconciled ==
  [i \in Present |-> [claims[i] EXCEPT !.dirty    = tree[TreeOf(i)] = "dirty",
                                       !.unpushed = tree[TreeOf(i)] = "unpushed"]]

(* A half-written file is removed by hand.                                 *)
Repair(i) ==
  /\ coordinator = Idle /\ claims[i] = Torn
  /\ claims' = [claims EXCEPT ![i] = Absent]
  /\ UNCHANGED <<tree, coordinator, writing, held, clock>>

(* The coordinator lists the directory and asks; what it does next happens *)
(* in a directory that has moved on.                                       *)
Asks == coordinator = Idle /\ ~HasTorn

Propose(p, host) ==
  /\ Asks /\ p \in scene.proposals
  /\ EvaluateAdmit(p, Reconciled, host, WIP_LIMIT) = "ALLOW"
  /\ coordinator' = [at |-> "admitted", claim |-> p]
  /\ UNCHANGED <<claims, tree, writing, held, clock>>

BeginClaim ==
  /\ coordinator.at = "admitted"
  /\ claims' = [claims EXCEPT ![coordinator.claim.id] = Torn]
  /\ coordinator' = [coordinator EXCEPT !.at = "writing"]
  /\ UNCHANGED <<tree, writing, held, clock>>

EndClaim ==
  /\ coordinator.at = "writing"
  /\ claims' = [claims EXCEPT ![coordinator.claim.id] = coordinator.claim]
  /\ held' = [c \in Caller |-> held[c] \cup Revisions({coordinator.claim}, c)]
  /\ coordinator' = Idle
  /\ UNCHANGED <<tree, writing, clock>>

ReleaseClaim(i) ==
  /\ Asks
  /\ EvaluateRelease("release-claim", i, Reconciled) = "ALLOW"
  /\ claims' = [claims EXCEPT ![i] = Absent]
  /\ UNCHANGED <<tree, coordinator, writing, held, clock>>

Cleanup(i) ==
  /\ Asks /\ scene.cleanups
  /\ EvaluateRelease("cleanup-worktree", i, Reconciled) = "ALLOW"
  /\ coordinator' = [at |-> "cleaning", id |-> i, worktree |-> TreeOf(i)]
  /\ UNCHANGED <<claims, tree, writing, held, clock>>

RemoveWorktree ==
  /\ coordinator.at = "cleaning"
  /\ tree' = [tree EXCEPT ![coordinator.worktree] = "clean"]
  /\ coordinator' = Idle
  /\ UNCHANGED <<claims, writing, held, clock>>

CoordinatorCrash ==
  /\ coordinator # Idle /\ crashes < MaxCrashes
  /\ coordinator' = Idle
  /\ crashes' = crashes + 1
  /\ UNCHANGED <<claims, tree, writing, held, now, changes, scene>>

-----------------------------------------------------------------------------
(* The workers: one to a live claim, in its worktree.                      *)

After(state) == CASE state = "clean"    -> "dirty"
                  [] state = "dirty"    -> "unpushed"
                  [] state = "unpushed" -> "clean"

Work(i) ==
  /\ IsActive(claims[i]) /\ "edit" \in scene.workers
  /\ tree' = [tree EXCEPT ![TreeOf(i)] = After(@)]
  /\ UNCHANGED <<claims, coordinator, writing, held, clock>>

Report(i, status) ==
  /\ IsActive(claims[i])
  /\ claims' = [claims EXCEPT ![i].status = status]
  /\ UNCHANGED <<tree, coordinator, writing, held, clock>>

LoseTrack(i) ==
  /\ IsActive(claims[i]) /\ "vanish" \in scene.workers
  /\ claims' = [claims EXCEPT ![i].ambiguous = TRUE]
  /\ UNCHANGED <<tree, coordinator, writing, held, clock>>

-----------------------------------------------------------------------------
(* The packet, the owner's signatures, time.                               *)

ChangePacket(p) ==
  /\ p # packet /\ changes < scene.changes
  /\ packet' = p
  /\ changes' = changes + 1
  /\ UNCHANGED <<work, signed, consumed, github, caller, known, held, now, crashes, scene>>

Sign(id, content, flaw) ==
  /\ Cardinality(signed) < scene.dispatches /\ \A d \in signed : d.id # id
  /\ signed' = signed \cup {[id |-> id, effect |-> [bound |-> packet, content |-> content],
                             scope |-> packet, flaw |-> flaw, expires |-> now + DISPATCH_TTL]}
  /\ UNCHANGED <<work, packet, consumed, github, caller, known, held, clock>>

Tick ==
  /\ now < scene.time
  /\ now' = now + 1
  /\ UNCHANGED <<work, writing, held, changes, crashes, scene>>

-----------------------------------------------------------------------------
(* A caller: it reads the packet, lists the claim directory, reads it file *)
(* by file, asks the adapter with what it read, and sends when it is told  *)
(* APPLIED.  Each evaluation reads everything again; what became of an     *)
(* effect is remembered from one to the next, whatever the adapter said.   *)

NoEffect == [bound |-> "none"]
NoDispatch == "none"

Untried == [outcome |-> "NOT_SENT", failure |-> "NONE", retries |-> 0]

LiveClaims == {claims[i] : i \in {j \in Live(claims) : ~claims[j].ambiguous}}

Keep(c, evaluation) == caller' = [caller EXCEPT ![c] = evaluation]
Rests(c) == Keep(c, Resting) /\ held' = [held EXCEPT ![c] = {}]

(* _observe_admission up to the scan.                                      *)
Observed(resource) ==
  CASE resource = "UNKNOWN" -> "UNKNOWN"
    [] resource = "BLOCK"   -> "DENY"
    [] resource = "PASS"    -> "SCAN"

Begin(c) ==
  /\ caller[c] = Resting /\ c \in scene.callers
  /\ Keep(c, [at |-> "reading", packet |-> packet, resource |-> "UNKNOWN", admission |-> "UNKNOWN",
              unread |-> {}, matched |-> FALSE, effect |-> NoEffect, dispatch |-> NoDispatch])
  /\ held' = [held EXCEPT ![c] = {claim.revision : claim \in {x \in LiveClaims : IsOfStream(x, packet)}}]
  /\ UNCHANGED <<work, outside, known, clock>>

(* The resource, and the names in the directory when it passes.            *)
Lists(c, resource) ==
  /\ caller[c].at = "reading"
  /\ LET scans == Observed(resource) = "SCAN" IN
     Keep(c, [caller[c] EXCEPT !.at = IF scans THEN "scanning" ELSE "ready", !.resource = resource,
                 !.admission = Observed(resource), !.unread = IF scans THEN Present ELSE {}])
  /\ UNCHANGED <<work, outside, known, held, clock>>

First(ids) == CHOOSE i \in ids : \A j \in ids : i <= j

Admission(c, is) == Keep(c, [caller[c] EXCEPT !.at = "ready", !.admission = is, !.unread = {}])
Pass(c, matched) == Keep(c, [caller[c] EXCEPT !.unread = @ \ {First(@)}, !.matched = matched])

MatchesClaim(file, p) == IsActive(file) /\ IsClaimOf(file, p)

(* _matching_claim: the directory is listed once, and its files are read   *)
(* one at a time.  One that is gone by then is skipped, or it goes after   *)
(* is_file and cannot be read; a torn one is no JSON.                      *)
Scan(c) ==
  /\ caller[c].at = "scanning" /\ caller[c].unread # {}
  /\ LET file == claims[First(caller[c].unread)]
         matches == MatchesClaim(file, caller[c].packet)
     IN \/ (file \in {Torn, Absent} \/ (matches /\ file.ambiguous)) /\ Admission(c, "UNKNOWN")
        \/ file # Torn /\ ~matches /\ Pass(c, caller[c].matched)
        \/ matches /\ ~file.ambiguous /\ Pass(c, TRUE)
  /\ UNCHANGED <<work, outside, known, held, clock>>

ScanEnds(c) ==
  /\ caller[c].at = "scanning" /\ caller[c].unread = {}
  /\ Admission(c, IF caller[c].matched THEN "ALLOW" ELSE "UNKNOWN")
  /\ UNCHANGED <<work, outside, known, held, clock>>

Request(c, effect, action) ==
  [forbidden |-> FALSE, action |-> action, authoritative |-> caller[c].packet,
   effect |-> effect, outcome |-> memory[c][effect].outcome, failure |-> memory[c][effect].failure,
   resource |-> caller[c].resource, admission |-> caller[c].admission,
   prior |-> NoEffect, retries |-> memory[c][effect].retries, budget |-> RETRY_BUDGET]

AsksGate(q) == Evaluate(q, "ALLOW") = "APPLIED"

Remember(c, effect, what) == memory' = [memory EXCEPT ![c][effect] = what]

(* Only an APPLIED lets the caller send.  A TRANSIENT_RETRYABLE is a retry *)
(* without the failure; any other answer leaves what the caller knows as   *)
(* it is, a RECONCILE_AMBIGUOUS too.                                       *)
Told(c, result, effect, d) ==
  /\ IF result = "APPLIED"
     THEN /\ Keep(c, [caller[c] EXCEPT !.at = "sending", !.effect = effect, !.dispatch = d.id])
          /\ UNCHANGED held
     ELSE Rests(c)
  /\ IF result = "TRANSIENT_RETRYABLE"
     THEN Remember(c, effect, [memory[c][effect] EXCEPT !.retries = @ + 1, !.failure = "NONE"])
     ELSE UNCHANGED memory

Ask(c, d, effect, action) ==
  /\ caller[c].at = "ready"
  /\ LET q    == Request(c, effect, action)
         gate == Gate(d, effect, now, consumed)
     IN /\ Told(c, Evaluate(q, gate), effect, d)
        /\ consumed' = IF AsksGate(q) /\ gate = "ALLOW" THEN consumed \cup {d.id} ELSE consumed
  /\ UNCHANGED <<work, packet, signed, github, wrote, landed, clock>>

(* The write reaches GitHub or not, and the caller remembers what it saw.  *)
Sent(c, outcome, failure, reached) ==
  LET effect == caller[c].effect
      new    == IF reached THEN {effect} ELSE {}
  IN /\ Rests(c)
     /\ Remember(c, effect, [memory[c][effect] EXCEPT !.outcome = outcome, !.failure = failure])
     /\ github' = github \cup new
     /\ landed' = [landed EXCEPT ![c] = @ \cup new]
     /\ wrote' = [wrote EXCEPT ![caller[c].dispatch] = @ + Cardinality(new)]

Send(c) ==
  /\ caller[c].at = "sending"
  /\ \/ Sent(c, "APPLIED", "NONE", TRUE)
     \/ \E reached \in BOOLEAN, outcome \in Unknown : Sent(c, outcome, "NONE", reached)
     \/ Sent(c, "NOT_SENT", "TRANSIENT", FALSE)
     \/ Sent(c, "NOT_SENT", "SEMANTIC", FALSE)
  /\ UNCHANGED <<work, packet, signed, consumed, clock>>

(* An unknown outcome is settled by looking at GitHub, and by nothing else. *)
Reconcile(c, effect) ==
  /\ caller[c] = Resting /\ memory[c][effect].outcome \in Unknown
  /\ Remember(c, effect, [memory[c][effect] EXCEPT
                  !.outcome = IF effect \in github THEN "APPLIED" ELSE "NOT_SENT"])
  /\ UNCHANGED <<work, outside, caller, wrote, landed, held, clock>>

(* A caller that dies forgets.                                             *)
CallerCrash(c) ==
  /\ caller[c] # Resting \/ \E e \in Effect : memory[c][e] # Untried
  /\ crashes < MaxCrashes
  /\ Rests(c)
  /\ memory' = [memory EXCEPT ![c] = [e \in Effect |-> Untried]]
  /\ landed' = [landed EXCEPT ![c] = {}]
  /\ crashes' = crashes + 1
  /\ UNCHANGED <<work, outside, wrote, now, changes, scene>>

-----------------------------------------------------------------------------
Init ==
  /\ claims = [i \in Id |-> Absent]
  /\ tree = [w \in Worktree |-> "clean"]
  /\ coordinator = Idle
  /\ packet \in Packet
  /\ signed = {} /\ consumed = {} /\ github = {}
  /\ caller = [c \in Caller |-> Resting]
  /\ memory = [c \in Caller |-> [e \in Effect |-> Untried]]
  /\ held = [c \in Caller |-> {}]
  /\ landed = [c \in Caller |-> {}]
  /\ wrote = [d \in DispatchId |-> 0]
  /\ scene \in Scene
  /\ now = 0 /\ changes = 0 /\ crashes = 0

Coordinate ==
  \/ BeginClaim \/ EndClaim \/ RemoveWorktree \/ CoordinatorCrash
  \/ \E p \in Proposal, host \in {"WARN", "BLOCK"} : Propose(p, host)
  \/ \E i \in Id : Repair(i) \/ ReleaseClaim(i) \/ Cleanup(i)

Working == \E i \in Id : Work(i) \/ LoseTrack(i) \/ \E s \in scene.statuses : Report(i, s)

Call(c) ==
  \/ \E r \in {"PASS", "BLOCK", "UNKNOWN"} : Lists(c, r)
  \/ Begin(c) \/ Scan(c) \/ ScanEnds(c) \/ Send(c) \/ CallerCrash(c)
  \/ \E d \in signed, effect \in Effect, action \in {"update_work_packet", "merge_pull_request"} :
       Ask(c, d, effect, action)
  \/ \E effect \in Effect : Reconcile(c, effect)

World ==
  \/ \E p \in Packet : ChangePacket(p)
  \/ \E id \in DispatchId, content \in Content, flaw \in scene.flaws : Sign(id, content, flaw)
  \/ Tick

Next == Coordinate \/ Working \/ World \/ \E c \in Caller : Call(c)

Spec == Init /\ [][Next]_vars

-----------------------------------------------------------------------------
(* Properties.                                                             *)

Owns(claim, file) ==
  claim.paths = {} \/ \E path \in claim.paths : StartsWith(file, Normalized(path))

Independent(a, b) ==
  /\ ~ShareRuntime(a, b)
  /\ a.repository = b.repository =>
       /\ a.workstream # b.workstream
       /\ Canonical(a.worktree) # Canonical(b.worktree)
       /\ \A file \in File : ~(Owns(a, file) /\ Owns(b, file))

(* Whatever was proposed, listed and reported, and wherever the            *)
(* coordinator died, the live claims never outnumber the limit, and no two *)
(* of them work in one worktree, on one workstream, on one file of a       *)
(* repository or on a runtime that is not isolated (evaluate_admit).       *)
ClaimsIndependent ==
  /\ Cardinality(Live(claims)) <= WIP_LIMIT
  /\ \A i, j \in Live(claims) : i # j => Independent(claims[i], claims[j])

(* A cleanup that evaluate_release allowed never takes work that was not   *)
(* pushed, unless another claim stands for the same worktree: the facts it *)
(* looked at are those of the named claim only, and they may have aged.    *)
CleanupLosesNothing ==
  [][\A w \in Worktree :
       (coordinator.at = "cleaning" /\ tree[w] # "clean" /\ coordinator' = Idle /\ tree'[w] = "clean")
       => \E i \in Id : i # coordinator.id /\ IsAt(i, w)]_vars

(* When evaluate lets a write go out, a claim of the revision it is bound  *)
(* to was live and not ambiguous at some instant since the caller read the *)
(* packet (_observe_admission and the comparison with the bound request).  *)
WrittenUnderItsClaim ==
  \A c \in Caller :
    caller[c].at = "sending" =>
      caller[c].effect.bound.revision \in held[c]

(* A dispatch lets at most one write go out, whoever presents it, again or *)
(* at the same time, and whoever crashed in between (consume_dispatch_once *)
(* as the last step of authorize).                                         *)
WrittenOnce == \A d \in DispatchId : wrote[d] <= 1

(* A caller that has not died since is never told to send what its write   *)
(* already brought to GitHub: not after an answer that was lost, not after *)
(* it was refused any number of times, not under a second dispatch for the *)
(* same effect (AMBIGUOUS_OUTCOMES and the NO_CHANGE of evaluate).         *)
NeverResent == \A c \in Caller : caller[c].at = "sending" => caller[c].effect \notin landed[c]
=============================================================================
