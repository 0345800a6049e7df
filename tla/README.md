# A verification development for datarelay-link-plugin

The repository has two halves. `relay/` is a small HTTP server in front of one MCP upstream,
with a single-user OAuth authorization server of its own. `tools/` is the Engineering System:
a planner, a watch that re-evaluates a work packet, a host that turns the watch's result into
one external action, and the contracts those rely on. The specifications here model the parts
whose correctness depends on order, on failure and on what survives a restart. Each definition
that models code is tied to its source lines in `PROJECT.json` under `map`.

## Inventory

### relay/

| Component | State | Operations | Hard behaviour |
|---|---|---|---|
| `oauth.py` authorization server | clients, pending requests, codes, access and refresh tokens; three rate limiters | `register_client`, `begin_authorization`, `complete_authorization`, `exchange_token`, `revoke`, `validate_bearer`, start | a thread per request; two handlers release the lock half-way; saves that fail; eviction of clients; expiry |
| `oauth_state.py` durable store | one JSON file | `load`, `save` | a whole snapshot replaced atomically; a failure after the replace |
| `server.py`, `binding.py`, `proxy.py` | none of their own | HTTP handlers, bearer to upstream binding, pass-through | answers lost between server and client |
| `config.py`, `audit.py` | none | validation, redaction | none |

The server calls `OAuthService` on the request's thread; `OAuthService` calls the store under
its lock; the binding asks `validate_bearer` before the proxy forwards.

What makes it correct: a refresh token is honoured at most once and its successor at most once,
before and after restarts; a client keeps a token nobody has taken from it; an approval yields
one chain of tokens; the tables stay within their caps; a consent is not broken by cleanup.

### tools/

| Component | State | Operations | Hard behaviour |
|---|---|---|---|
| `coordinator.py` planner | none | `plan` | a long ordered decision table |
| `coordinator_watch.py` evaluator | the durable watch state it is handed | `evaluate` | late observations, deduplication, backoff, retry counting |
| `coordinator_watch_host.py`, `coordinator_watch_effects.py` | lock, watch state, ledger and effect journal of a directory | `run_once` | overlapping runs, death between writes, unknown send outcomes |
| `skills-contract.py` dispatch registry | one marker file for each dispatch | `consume_dispatch_once`, `reserve_dispatch`, `finalize_dispatch`, `authorize` | two users of one registry; torn markers |
| `worker_adapter.py` | none (uses the registry) | `evaluate` | an ordered decision table; the write comes after the dispatch is spent |
| `coordinator_watch_collect.py` | none | `collect_authoritative` | the packet changes between two reads and between two collections; claims are listed once and read one by one |
| `work_admission.py` | none; its callers keep the claim files | admit, size, release | claims that change after they were read; a cleanup of what another claim uses |
| `context_epoch.py`, `handoff_contract.py`, `independent_verifier.py` | none | decision functions | order of refusals |
| governance, verification, runtime, knowledge, profile contracts | none | validators over files and Git | parsing |

An external scheduler starts `run_once`; it collects facts, calls the evaluator, which calls
the planner, collects again, calls the worker adapter, which calls `authorize`; then the host
reserves the dispatch, sends through `gh` or Telegram and finalizes the dispatch.

What makes it correct: one action for one decision however runs overlap and die; a signed
dispatch used once by whoever uses it; no decision remembered as told that was not delivered;
a closed watch stays closed; rechecks and retries are bounded; what is told was true together at
one instant; workers side by side share nothing; a write goes out under a live claim, and once.

## Modules

| Module | Models |
|---|---|
| `OAuthService` | `oauth.py` and `oauth_state.py`: every lock acquisition is a step |
| `GrantLifecycle` | the abstract promise about grants, as read in the durable file |
| `RateLimiter` | `_SlidingWindow` as operators on a table |
| `RelayServer` | `config.py`, `server.py`, `binding.py`, `proxy.py` and the access tokens of `oauth.py`; composes `RateLimiter` |
| `Coordinator` | `coordinator.py`: `normalize_facts` and `plan` as operators |
| `WatchEvaluator` | `coordinator_watch.evaluate` as an operator of an observation and a state |
| `CoordinatorWatch` | one watch: observations in any order, results that may not be delivered |
| `WatchHost` | runs of `run_once` on one directory, with the dispatch registry and the adapter; composes `WatchEvaluator` |
| `DeliveryPromise` | the abstract promise about a watch's typed actions |
| `WatchedPacket` | collector, planner, evaluator and host over a packet that changes; composes `Coordinator` and `WatchEvaluator` |
| `WorkAdmission` | `work_admission.py` as operators on claims |
| `WorkerAdapter` | `worker_adapter.evaluate` and `authorize` of `skills-contract.py` as operators |
| `AdmittedWork` | claims, workers, cleanups and callers of the adapter; composes `WorkAdmission` and `WorkerAdapter` |
| `MC...` | constants and symmetry for TLC |
| `OAuthServiceProofs`, `OAuthTokenProofs`, `OAuthConsentProofs` | theorems about `OAuthService`: types, tokens, consents and clients |
| `RelayServerProofs`, `CoordinatorWatchProofs`, `WatchHostProofs`, `WatchedPacketProofs`, `AdmittedWorkProofs` | theorems about the module each is named for |

### OAuthService

`clients`, `pending`, `codes` and `refresh` are the dictionaries of `OAuthService`, `disk` is the
file, `thread` is what a handler carries between its lock acquisitions, and the other variables
are the clock, the process, and histories: what answers delivered (`known`, `held`), what
clients presented (`tried`), what was acknowledged (`spent`), what the file has honoured (`ever`).

- `begin_authorization` is `BeginLookup`, then `BeginAdmit` or `BeginRefused`.
  `complete_authorization` is `CompletePop` (or `CompleteDismiss`), then `CompleteReinsert` or
  `CompleteApprove`, then `CompleteIssue`. Every other handler is one action.
- A save ends `answered`, `unanswered` (the file is replaced, the caller sees an error or no
  answer) or `unsaved`. Memory has changed in all three, as in the code.
- `Evictions` is the set of client sets one cleanup may remove: the code's final tie-break is a
  random identifier, so every tie is a choice.
- Abstracted: redirect URIs, PKCE, scopes and resources are one bit, a request that matches or
  one that does not; a limiter's verdict is a free choice; random values are names drawn fresh.

### WatchEvaluator and CoordinatorWatch

An observation carries the planner's decision instead of the facts it is computed from, plus
what the evaluator reads itself: revision, subject, time, transient or ambiguous failure,
admission. `Consistent` keeps only combinations the planner can produce. `Evaluate` follows the
code's order: closed, stale, older, ambiguous, planned. `Observe(o, kept)` either persists the
returned state or, for a typed result that was not delivered, leaves the old one.

### WatchHost

The files are variables of their own; `pc` and `run` are each process's place and memory. A run
is `Collect`, then `LockHeld` or `Acquire`, then one action per write. Each file write is a
rename, so it is one step; a dispatch marker is created and then written, and truncated and then
rewritten, so those are two. `Crash` may come between any two steps, and stands for a failing
write as well, which ends the run with the lock released. The `Refuse` disjunct stands for every
return of `_finish_typed` and `_execute_authorized` that writes nothing. A dispatch is a signed
effect with a nonce, because `_authorize_concrete_effect` compares the signed digest with the
effect. An effect is the notification key and the branch; the other fields of its digest are
fixed by the directory. `Branch` has one value in the runs: two keys already give two effects.
`RESUME_ADMITTED_WORKER` is absent: `collect_authoritative` never calls `_observe_worker`, so
the planner sees no worker and cannot decide to resume one in a host run.

Power loss is not modelled (only the journal is fsynced), nor is the test-only in-memory
registry.

### Coordinator and WatchedPacket

`Coordinator` takes the facts a caller supplies, a record of groups that may leave fields out.
`WellFormed` is what `normalize_facts` accepts, `Normalized` its result, `Plan` the decision: `plan`,
`_pr_pipeline`, `_implementation_path` and `_audit_or_authorize` are one operator each, their
branches in the code's order.

`WatchedPacket` starts runs that read the packet piece by piece in the collector's order: issue,
branch head, checks and pull request, each read a step, then worktree, memory and claims in one step,
since no property tells those reads apart. Meanwhile everybody else changes the packet, pushes, reports checks and moves the claims. A run decides, collects a second
time, compares as `_reconcile` does, and tells. A directory is one intent revision and head, as in
the host. Git may answer for uncommitted changes, for unpushed commits, for both or for neither, and
each answer that is missing is left out of the facts.

A wake goes out only if the adapter admits it, which takes a live claim in both collections
(`Withheld`); a notice to the owner does not pass the adapter. The journal is kept with its phase.
An intent whose dispatch was refused, expired or torn before anything was sent (`BreakOff` with
INTENT) is taken up by a later run that holds another dispatch for the same effect; a receipt is
settled without sending; another effect makes the journal ambiguous (`Mismatch`). Who signs
dispatches is outside, so any effect may be refused at any time (`Refuse`). The delivery that
succeeds is one step here; its crash points are `WatchHost`'s. `MaxTrouble` bounds changes of the
world and faults together.

That the branch never returns to a commit it left is an assumption (`Push`). A force-push back to an
earlier commit between two reads is not modelled, and `ToldAtOneInstant` rests on its absence.

### RateLimiter and RelayServer

`failed` is the limiter's table from a source to the times of its failures. `Recorded` is a set of
tables, because the victim of a full table is any source whose first event is oldest.

In `RelayServer` a start picks an environment that `load_config` accepts, reads the chains from the
file if there is one, and forgets everything else: access tokens, the mock revocation and the
limiter. A start and a registration evict inactive clients with their chains; a chain that is
neither revoked nor expired protects its client, so `Register` and `Start` take any set of `Ended`
chains. A refresh must come before the token expires; one that asks for more scopes spends the token
and saves nothing (`Overreach`). `approved` is the resource a grant was approved for, which a
renewed token keeps though the process may serve another one by then (`AudienceKept`), and `kept` is
until when a chain was acknowledged in public (`PublicGrantsKept`). A call is read, bound (`bind` in
`binding.py`, `validate_bearer`), sent and answered in steps of its own, and revocations, expiry and
crashes come in between. A grant stands for its chain of refresh tokens, which `OAuthService` has in
detail, with the tables' caps and who is evicted first. Each behaviour is either about calls or
about the owner's failed approvals (`traffic`), because the two share no state.

### WorkAdmission, WorkerAdapter and AdmittedWork

A path is the sequence of its components, so `normalize_path` and `canonicalize_worktree` are folds
over them that resolve "." and ".."; the check for a drive letter is left out, being about
characters. `EvaluateAdmit` and `EvaluateRelease` follow the code's order of refusals; `Conflict` is
the body of the loop over live claims. In `WorkerAdapter` a dispatch names the effect it was signed
for, its scope and its expiry; what else may be wrong with the signed files is its `flaw`, and
`Authorize` gives the reasons in the code's order. Digests are injective.

`AdmittedWork` puts both to use as the request formats intend. A coordinator asks, and writes,
deletes or cleans up in later steps; a claim file is torn while it is written. The coordinator may
die at each step. Workers edit, report and vanish. Callers read the packet (`Begin`), list the claim
directory (`Lists`), read it file by file (`_matching_claim`), ask the adapter and send when told
APPLIED; the send may fail before it, succeed, or leave an unknown outcome, and a caller asks again
after it read everything again. That there is one coordinator is an assumption: no code locks the
claim directory, and two coordinators that admit at the same time would break `ClaimsIndependent`.

A caller remembers, for each effect, the outcome it saw and its retries (`memory`), as
`worker_adapter.py` asks of it, whatever the adapter answers in between: an unknown outcome stays
unknown through any number of RECONCILE_AMBIGUOUS, under any dispatch, until the caller has looked at
GitHub (`Reconcile`). `NeverResent` then says that such a caller is not told to send what its write
already brought there. Only a crash makes a caller forget; what it may then be told under a new
dispatch is not promised, and only the dispatch protects the write (`WrittenOnce`). A request that is
still under way when the caller looks, and lands later, is not modelled.

## Runs

| Run | Question | Bounds | Outcome |
|---|---|---|---|
| `oauth_durable` | Do refresh tokens survive rotation, eviction, failed saves and restart? | 2 clients, 2 grants, 2 tokens of each, 1 crash, times 0 to 2 | holds, implements `GrantLifecycle` |
| `oauth_concurrent` | Do caps and protections hold between threads? | 2 threads, 3 clients and requests, pending cap 1, a crash | holds |
| `oauth_pending_cap` | Is the pending table capped? | 2 threads | violated |
| `oauth_pending_client` | Does cleanup spare open consents? | 2 threads, inactive cap 1 | violated |
| `oauth_expired_saved` | Does a save drop expired records? | 1 grant, refresh lifetime 0 | violated |
| `watch_evaluator` | Is a watch told once, bounded and monotone? | 2 revisions, subjects and data, times 1 to 3, backoff 1 to 3, budget 2 | holds |
| `watch_older` | Does an older observation change nothing? | 2 revisions | violated |
| `watch_host` | Do overlapping, dying runs deliver at most once? | 2 runs, 2 dispatches per effect, 2 crashes, 2 packet changes, 1 adapter call, 2 attempts | holds, implements `DeliveryPromise` |
| `watch_host_receipt` | Does AMBIGUOUS mean the outcome is unknown? | 1 run, no crash | violated |
| `watched_packet` | Is what is told true, of one instant, and eventually told? | 2 runs, 2 commits, 4 packets, claims that are live or not, 2 changes or faults | holds |
| `relay_server` | Who is served, what survives which restart, what may the limiter forget? | 18 environments, 1 thread, 3 sources for 2 places, 2 events a window, 6 failures, 2 tokens, 2 crashes, times 0 to 3, access lifetime 1, refresh lifetime 2 | holds |
| `admitted_work` | Do workers share nothing, does cleanup lose nothing, does a write go out once and under its claim? | 5 proposals for 3 files, limit 2, 1 crash, and one of 3 scenes | holds |

Why the bounds are enough. For tokens, the second token of a grant is where rotation and
resurrection differ, the second grant shares a save with the first, the second client takes the
first one's place, and one crash after failed saves shows a stale file. Two threads give every
pair of handlers. `CODE_TTL`, `REFRESH_TTL` and `INACTIVE_CLIENT_TTL` of 0 or 1 put expiry on,
before and after each use. In the host, two runs overlap, the second crash is the crash of the
recovery of the first, and two packet changes let a packet change and change back. Three times
give an older, an equal and a newer observation. `MAX_RECHECK` of 3 is not a power of two times
the base, so the cap cuts.

In `watched_packet` two troubles are enough for a read that is torn by a change and changed back,
and for a fault in the run that sees it; a claim that ends and comes back withholds a wake and lets
it go. The world starts with a live claim: starting without one would only save the change that ends
it.

In `relay_server` the lifetimes end within the time there is, the access token's before the refresh
token's, so a chain is renewed, expires and is evicted. The third source evicts one of two, three
failures reach the limit of two, and two crashes give three lives under different environments. One
thread is enough because each request only reads what others wrote, and those are steps of their
own.

The scenes of `admitted_work` keep apart what has no state in common: all five proposals (an alias
of one path, an alias of one worktree, a second revision, an empty path set in another repository
with a shared runtime) with edits, reports, lost workers and cleanups, which are in this scene only;
one caller with two dispatches while a revision takes the other's place and the packet changes, so
that an effect can be asked for again under the second dispatch after an answer was lost; two
callers with one dispatch, with expiry and an unapproved one.

`CHECK_DEADLOCK FALSE` is set in the OAuth and relay runs and in `admitted_work`: their names, time
and crashes are bounded, so a run can end with nothing left to draw. The watches and the host never
stop.

### The violated properties

Each states a sentence of the repository that the code does not keep; `PROJECT.json` quotes it.

1. A denied consent is put back without the admission test, so `pending` can exceed its cap.
   `PendingOvershootBounded` (checked and proved) says by how much: fewer than the threads.
2. While the owner's answer is judged the request is in no table, so a registration may evict
   its client, and the approval that follows gives a code no exchange accepts.
3. The purge of the file tests `expired and revoked`, its comment says expired.
4. After a delivered action the journal is left at RECEIPT. The next typed action of the same
   watch has another digest, so the host turns the journal into AMBIGUOUS for good. Nothing is
   sent twice; the watch is stuck although every outcome is known.
5. The evaluator tests staleness before age, so a late observation of an earlier revision closes
   the watch. In the host the directory is chosen by revision and subject, so it cannot happen.

### What else reading the code showed

- `cleanup-worktree` is allowed on the facts of the named claim only. A claim that has ended keeps
  its worktree path, and a claim admitted since may work in the same place; the cleanup of the first
  is then allowed while the second is live and its tree is clean, and the tree may be dirty by the
  time it goes. `CleanupLosesNothing` therefore excepts a worktree another claim stands for.
- `_observe_worker` of the collector is never called, and the collector reports review and
  mergeability as UNKNOWN, so the host never sees a worker and never reaches MERGE_READY.
- The adapter spends the dispatch before the write. A write that then fails before it is sent is
  TRANSIENT_RETRYABLE on the next request and NO_CHANGE on the one after, with the same dispatch.
- Without a live claim no wake is ever delivered: the adapter answers RESOURCE_BLOCKED on every run,
  and the watch state stays as it was. Only notices to the owner go out.
- A torn claim file makes every later admission observation UNKNOWN until somebody removes it.

## Fairness

`WatchedPacket` assumes weak fairness of the steps of a run that was started, and of nothing else:
every read has a timeout, and a run that meets a held lock ends instead of waiting. Starting runs is up
to an external scheduler and signing dispatches up to their owner, so neither is assumed of the code:
`DueIsTold` states both as its premise. `Started` says that runs are started again and again;
`SignedAtLast` says that runs which may send, again and again, do not always lack a valid dispatch for
what they send (strong fairness, because the chance comes and goes with each run). Under that premise a
watch does not owe a wake for ever once the world keeps still: it is sent, or its effect is received or
in doubt in the journal, which is the state the host leaves to an operator or to the same dispatch.
A wake without a live claim is not owed (`Due`), since the adapter withholds it. An intent that was
journalled and never sent is still owed; were it not taken up with another dispatch, the property would
fail. Changes of the world and faults are not fair, and the bound counts them together.

No other module assumes fairness: whether a client comes back, whether an owner answers and whether a
worker reports is up to the world.

## Proofs

Theorems are checked by TLAPS for every value of the constants. Every property of a run that is
expected to hold has one, except the liveness property. They rest on these assumptions, which TLC
evaluates in the runs of their modules:

| Assumption | Says |
|---|---|
| `CapAssumption`, `TimeAssumption` | caps of the OAuth tables are positive; lifetimes and bounds are numbers |
| `SetAssumption` | finitely many threads, at least one |
| `LimitAssumption` | the limiter has room for an event and a source; its window is a number |
| `RelayAssumption` | the lifetimes of access and refresh tokens and the bound on tokens are numbers; refresh tokens are neither access tokens nor the mock token, which are distinct random strings in the code |
| `RunAssumption`, `BoundAssumption` | the mark of a free lock is not the name of a run; the bound on attempts is a number |
| `RecheckAssumption`, `WatchAssumption` | the delays are ordered; the plans are the planner's |
| `PacketAssumption` | no commit is the word UNKNOWN; worlds start in the shape the collector reads; only the head of the branch starts with a verdict of the checks |
| `WorkAssumption` | what `parse_claim` lets through, and that a proposal's normalized paths are sequences of strings, which is a fold over data and so out of the prover's reach |

No single property is inductive. What each proof adds:

- `TypeCorrect`: the type invariant of `OAuthService` is inductive. Lemmas about `Put`, `Drop`,
  `Touched`, `Revoked` and `Persist` come first, then one step per action.
- `TokensAlwaysOwned`, `RotationLeavesOne`, `SpentStaysDead`, `FileImplementsLifecycle`: these
  follow from `TokenInv`. Memory may be ahead of the file, because tables change before a save
  that can fail, so none of the properties is inductive alone. `Ahead` says how: a token memory
  honours and the file does not is newer than every token of its grant the file has honoured, and
  its grant is one the file still honours or has never seen. `Numbered` bounds every token ever
  drawn by the grant's counter and `FreshGrants` says an unspent code has drawn none. With these a
  save at any moment, of any memory, is a step of `GrantLifecycle`.
- `HeldStaysGood`: from `TokenInv` and `HeldInv`. A token the client has and has not used is in the
  file and, while the process is up, in memory, and both have the expiry it was issued with. The
  expiry is what makes it inductive: cleanup judges by the service's and the client by its own.
  Every write is then shown to spare such a token: it revokes only what was presented, and the lemma
  `EvictionsKeep` says that no tie of a cleanup takes a client with a live token.
- `ConsentHeldOnce`, `OvershootBounded`: from `ConsentInv`. Requests are fresh, so the table and
  the judging threads are disjoint; the bound counts the table and the judging threads together,
  because popping and putting back only moves a request between them.
- `CapHolds`, `CleanupSparesClients`: from `ClientInv`. The table of clients and its copy in the file
  are both capped, because a start copies the one into the other, and a registration tests for room
  after its cleanup. `EvictionsSpare` says that a cleanup takes only clients that may be evicted,
  whichever of the ties it picks.
- `OwnCredentials`, `AcknowledgedGrantsKept`, `RevocationHolds`, `AudienceChecked`: from `RelayInv`.
  `BoundInv` says that a call is bound only as long as the configuration that bound it. `KeptInv` says
  that a chain acknowledged in public lives in the file, and in the memory of a process that uses the
  file, until the expiry of the token that was answered; being unexpired, neither the sweep of a start
  nor that of a registration may take it. `DeadInv` says that what was revoked is marked wherever it is
  known, `ApprovedInv` that every token and chain has the resource its grant was approved for, whatever
  the process served when it was renewed.
- `LimiterBounded`, `LockoutOnlyByCrowd`: from `LimitInv`. The table holds the tail of each source's
  failures (`HoldsLast`). Every failure it forgot is `Excused`: older than the window, or pushed out
  when more sources than the table holds had failed within one window. The victim has the oldest
  first event, so the others in the table are as recent as it is; that step is where the crowd is
  counted. The end of the argument takes the least of a set of times, from the well-foundedness of
  the numbers, because induction itself is out of reach.
- `SendsAtMostOnce`, `DispatchesUsedOnce`: from `HostInv`. `Exclusive` (the lock has one holder
  past `Acquire`), `Announced` (nothing is sent while the journal says INTENT, and a journal past
  INTENT never returns to it), `Marked` (a run reaches the send only with a marker that was created
  for it and that nothing has used).
- `FilesWellFormed`, `RememberedIsDelivered`, `WatchAdvances`, `ClosedIsSilent`,
  `HostImplementsPromise`: from `DataInv`, which adds the data to `HostInv`. A run that got past the
  lock judged the watch state that is still in the file (`Reading`). At
  most one message was ever posted, and a RECEIPT or an APPLIED line names it (`Recorded`). A run past
  its send knows that it arrived (`Placed`). What the watch remembers as told was delivered (`Remembers`).
  With these a crash anywhere, and the recovery of what it left, is a step of `DeliveryPromise` or
  none.
- `CollectionsArePlanned`, `ToldAtOneInstant`, `VerdictsAreTheirs`: from `PacketInv`. A run that reads
  while the world moves knows only that what it read was so once: `Reads` says it was reported.
  `SecondLook` is the heart of it. The collector reads the branch after the issue, and `then` is where
  the branch was when the issue was read; the branch never returns to a commit it left, so if `then`
  is not the head that was decided on, no later read is, and the comparison refuses. `Vouched`
  carries the verdict from the first collection to the telling.
- `NothingIsToldTwice`, `SuppressionIsEarned`, `TransientFailuresEscalate`, `RechecksAreBounded`,
  `ObservationsAdvance`, `ClosedStaysClosed`: from `WatchInv`. `Mapped` lists what `_map_decision`
  can return, and the rest of the argument is on that list. `Named` says the key of an open watch is
  that of its subject and decision, and that a decision to wake or resume was carried out, or, for a
  resume (`Withheld`), that no admitted observation has the digest it left: that the digest covers
  admission is what makes suppressing a resume sound. `Timed` bounds the distance backoff doubles,
  and `Counted` relates the failures in a row to the persisted counter.
- `ClaimsStayIndependent`: from `ClaimsInv`. `Room` is the part that is not in the property: while
  the coordinator holds a claim it was allowed and has not written yet, that claim is independent of
  every live one and there is a place for it, because claims only end meanwhile. The lemma
  `OwnersOverlap` ties the code's test on normalized prefixes to files two claims both own.
- `CleanupIsSafe`: from `CleanInv`. While the coordinator cleans up, the named claim has ended, so
  whoever dirtied the tree since has another claim of the same worktree.
- `ADispatchWritesOnce`, `NothingIsResent`, `WritesHaveTheirClaim`: from `WriteInv`, which adds
  `CallInv` to `ClaimsInv`. `DispatchSafe` says a dispatch is unused, with exactly one caller, or
  spent; `Knows` relates what a caller remembers to the history: what it holds for not sent its writes
  have not brought to GitHub, through refusals, retries and reconciling. `CallerSafe` says that it sends
  only what it so holds, and that a claim it saw, or can still see while it scans, was live since it
  read the packet.

Only model-checked: `DueIsTold`, since fairness and ENABLED are beyond the proof system used here,
and what recursive functions and folds over data compute (the normalization of paths, the backoff
as a power of two), since inductions over data are.

## Not modelled

- Signature bytes, policy files and worktree checks of `authorize` are inputs (a dispatch's flaw).
- `evaluate_size` of `work_admission.py`: a sizing table over counts without state.
- `context_epoch.py`, `handoff_contract.py`, `independent_verifier.py`: single decisions over facts
  a caller supplies, without state of their own, mostly identity checks of one text against another.
- The governance, verification, runtime, knowledge and profile contracts: validators over files and
  Git, parsing and text matching.
- HTTP parsing, the pinned connection, redaction, schemas, owner notification and scripts: I/O.

`PROJECT.json` gives the reason for each component.

## Plan

Done: the OAuth server and its durable file; the relay with its configurations and its limiter; the
planner, the evaluator, the host and their composition; admission, the adapter and their
composition; a theorem for every safety, action and refinement property that a run checks.

Next, most important first:

1. `WatchHost` and `AdmittedWork` over one dispatch registry with reservations, as one module.
2. `ContextEpoch` and `IndependentVerifier`: decision tables against declarative definitions.
3. `WatchedPacket` as an instance of the host: that its one-step delivery is what `DeliveryPromise`
   lets a host do.
