---------------------------- MODULE OAuthService ----------------------------
(***************************************************************************)
(* The OAuth authorization server of the relay: relay/oauth.py over the    *)
(* durable file of relay/oauth_state.py.                                   *)
(*                                                                         *)
(* The relay serves each HTTP request on a thread of its own.  A handler   *)
(* that runs under one acquisition of OAuthService._lock is one action;    *)
(* begin_authorization and complete_authorization take the lock two and    *)
(* three times, so they are several actions of a thread and `thread` says  *)
(* what each thread carries from one to the next.                          *)
(*                                                                         *)
(* A grant is what one authorization code stands for, and the refresh      *)
(* tokens rotated out of it are <<g, 1>>, <<g, 2>>, ...: the code draws    *)
(* both at random, the model names them by where they come from.           *)
(***************************************************************************)
EXTENDS Integers, FiniteSets

CONSTANTS
  Client, Request, Grant,        \* values _new_token can return, by prefix
  Thread,                        \* threads of the HTTP server
  MAX_DCR_CLIENTS, MAX_INACTIVE_DCR_CLIENTS,
  MAX_PENDING_AUTHORIZATIONS, MAX_PENDING_PER_CLIENT,
  CODE_TTL, REFRESH_TTL, INACTIVE_CLIENT_TTL,
  MaxTime, MaxGen, MaxCrashes    \* bounds of the model, not of the code

ASSUME CapAssumption ==
  /\ MAX_DCR_CLIENTS \in Nat \ {0}
  /\ MAX_INACTIVE_DCR_CLIENTS \in Nat \ {0}
  /\ MAX_PENDING_AUTHORIZATIONS \in Nat \ {0}
  /\ MAX_PENDING_PER_CLIENT \in Nat \ {0}

ASSUME TimeAssumption ==
  /\ CODE_TTL \in Nat /\ REFRESH_TTL \in Nat /\ INACTIVE_CLIENT_TTL \in Nat
  /\ MaxTime \in Nat /\ MaxGen \in Nat /\ MaxCrashes \in Nat

ASSUME SetAssumption == IsFiniteSet(Thread) /\ Thread # {}

VARIABLES
  clients,    \* OAuthService.clients
  pending,    \* OAuthService.pending
  codes,      \* OAuthService.codes
  refresh,    \* OAuthService.refresh_tokens
  disk,       \* the durable state file
  thread,     \* what a thread inside a multi-step handler holds
  up,         \* the process is running
  now,        \* time.time()
  crashes,    \* crashes so far
  gen,        \* refresh tokens drawn so far for each grant
  minted,     \* client, request and code values drawn so far
  known,      \* client ids and codes an answer has delivered to a client
  held,       \* refresh tokens an answer has delivered, with their expiry
  tried,      \* refresh tokens a client has presented or revoked
  spent,      \* refresh tokens whose rotation or revocation was acknowledged
  ever        \* refresh tokens the file has ever held unrevoked

memory  == <<clients, pending, codes, refresh>>
history == <<gen, minted, known, held, tried, spent>>
vars    == <<memory, disk, thread, up, now, crashes, history, ever>>

-----------------------------------------------------------------------------
(* Python dictionaries.                                                    *)

Empty         == [x \in {} |-> x]
Put(d, k, v)  == [x \in DOMAIN d \cup {k} |-> IF x = k THEN v ELSE d[x]]
Drop(d, S)    == [x \in DOMAIN d \ S |-> d[x]]
IsDict(d, K, V) == DOMAIN d \subseteq K /\ d \in [DOMAIN d -> V]

Token         == Grant \X (1 .. MaxGen)
Time          == Nat
ClientRec     == [issued_at : Time, last_used_at : Time]
PendingRec    == [client : Client, expires_at : Time]
RefreshRec    == [client : Client, expires_at : Time, revoked : BOOLEAN]
IsFile(f)     == /\ f = [clients |-> f.clients, refresh |-> f.refresh]
                 /\ IsDict(f.clients, Client, ClientRec)
                 /\ IsDict(f.refresh, Token, RefreshRec)

-----------------------------------------------------------------------------
(* Who is protected from DCR cleanup.                                      *)

LiveUntilExpiry(rec) == ~rec.revoked /\ rec.expires_at > now   \* faulty: < for <=
Live(rec) == ~rec.revoked /\ rec.expires_at >= now

HasLiveRefresh(rts, c) == \E t \in DOMAIN rts : rts[t].client = c /\ Live(rts[t])

HasLivePending(c) ==
  \E r \in DOMAIN pending : pending[r].client = c /\ pending[r].expires_at >= now

Inactive(cls, rts) == {c \in DOMAIN cls : ~HasLiveRefresh(rts, c)}

EvictableUnlessActive(cls, rts) == Inactive(cls, rts)   \* faulty: open consents forgotten
Evictable(cls, rts) == {c \in Inactive(cls, rts) : ~HasLivePending(c)}

Stale(cls, rts) ==
  {c \in Evictable(cls, rts) : now - cls[c].last_used_at >= INACTIVE_CLIENT_TTL}

Older(a, b) ==
  \/ a.issued_at < b.issued_at
  \/ a.issued_at = b.issued_at /\ a.last_used_at <= b.last_used_at

(* The clients one _cleanup_inactive_clients_locked may remove: all stale  *)
(* ones, then the oldest evictable ones until both budgets hold or none is *)
(* left.  Equal ages are ordered by the random client_id: any order.       *)
Least(a, b) == IF a <= b THEN a ELSE b
Most(a, b)  == IF a >= b THEN a ELSE b

Excess(cls, rts, reserve) ==
  Most(0, Most(Cardinality(Inactive(cls, rts)) - Most(0, MAX_INACTIVE_DCR_CLIENTS - reserve),
               Cardinality(DOMAIN cls) - Most(0, MAX_DCR_CLIENTS - reserve)))

Evictions(cls, rts, reserve) ==
  LET stale == Stale(cls, rts)
      rest  == Drop(cls, stale)
      pool  == Evictable(rest, rts)
      n     == Least(Cardinality(pool), Excess(rest, rts, reserve))
  IN  {stale \cup V : V \in {W \in SUBSET pool :
         /\ Cardinality(W) = n
         /\ \A v \in W, u \in pool \ W : Older(cls[v], cls[u])}}

(* _remove_client_locked: a client goes with its refresh tokens.           *)
TokensLeftBehind(rts, gone) == rts   \* faulty: no cascade
TokensWithout(rts, gone) == Drop(rts, {t \in DOMAIN rts : rts[t].client \in gone})

-----------------------------------------------------------------------------
(* Writing the file.  The payload is a snapshot of memory.  A save ends in *)
(* one of three ways: it succeeds and the answer reaches the client; the   *)
(* file is replaced but the caller sees no answer (a failure after         *)
(* os.replace, or a lost response); or the file is left as it was.         *)

Outcome == {"answered", "unanswered", "unsaved"}

Purged(rts) == Drop(rts, {t \in DOMAIN rts : rts[t].revoked /\ rts[t].expires_at < now})

Unrevoked(rts) == {t \in DOMAIN rts : ~rts[t].revoked}

(* Faulty: a dirty check that looks at the clients only.                   *)
WriteFileIfClientsChanged(cls, rts, outcome) ==
  IF outcome = "unsaved" \/ cls = disk.clients
  THEN UNCHANGED <<disk, ever>>
  ELSE /\ disk' = [clients |-> cls, refresh |-> rts]
       /\ ever' = ever \cup Unrevoked(rts)

WriteFile(cls, rts, outcome) ==
  IF outcome = "unsaved"
  THEN UNCHANGED <<disk, ever>>
  ELSE /\ disk' = [clients |-> cls, refresh |-> rts]
       /\ ever' = ever \cup Unrevoked(rts)

Persist(cls, rts, outcome) ==
  /\ clients' = cls
  /\ refresh' = Purged(rts)
  /\ WriteFile(cls, Purged(rts), outcome)

Answer(outcome, value) == known' = IF outcome = "answered" THEN known \cup {value} ELSE known

-----------------------------------------------------------------------------
(* Dynamic client registration.                                            *)

(* Faulty: the cap on all clients is left to the eviction.                 *)
RoomForInactive(cls, rts) == Cardinality(Inactive(cls, rts)) < MAX_INACTIVE_DCR_CLIENTS

RoomForClient(cls, rts) ==
  /\ Cardinality(Inactive(cls, rts)) < MAX_INACTIVE_DCR_CLIENTS
  /\ Cardinality(DOMAIN cls) < MAX_DCR_CLIENTS

Register(c, outcome) ==
  /\ up /\ c \notin minted
  /\ \E gone \in Evictions(clients, refresh, 1) :
       LET cls == Drop(clients, gone)
           rts == TokensWithout(refresh, gone)
       IN  /\ RoomForClient(cls, rts)
           /\ Persist(Put(cls, c, [issued_at |-> now, last_used_at |-> now]), rts, outcome)
  /\ minted' = minted \cup {c}
  /\ Answer(outcome, c)
  /\ UNCHANGED <<pending, codes, thread, up, now, crashes, gen, held, tried, spent>>

(* No room, or metadata that fails validation: both are found out after    *)
(* the cleanup, and what it removed is not written to the file.            *)
RegisterRefused ==
  /\ up
  /\ \E gone \in Evictions(clients, refresh, 1) :
       /\ clients' = Drop(clients, gone)
       /\ refresh' = TokensWithout(refresh, gone)
  /\ UNCHANGED <<pending, codes, disk, thread, up, now, crashes, history, ever>>

-----------------------------------------------------------------------------
(* begin_authorization: the client is looked up under the lock, the rest   *)
(* of the query is validated without it, and the request is admitted under *)
(* a second acquisition that does not look the client up again.            *)

Idle == [op |-> "idle"]

BeginLookup(th, c) ==
  /\ up /\ thread[th] = Idle
  /\ c \in known \cap DOMAIN clients
  /\ thread' = [thread EXCEPT ![th] =
                  [op |-> "begin", client |-> c, expires_at |-> now + CODE_TTL]]
  /\ UNCHANGED <<memory, disk, up, now, crashes, history, ever>>

Swept(p) == Drop(p, {r \in DOMAIN p : p[r].expires_at < now})

RoomForPendingOffByOne(p, c) == Cardinality(DOMAIN p) <= MAX_PENDING_AUTHORIZATIONS   \* faulty

RoomForPending(p, c) ==
  /\ Cardinality({r \in DOMAIN p : p[r].client = c}) < MAX_PENDING_PER_CLIENT
  /\ Cardinality(DOMAIN p) < MAX_PENDING_AUTHORIZATIONS

BeginAdmit(th, r) ==
  /\ up /\ thread[th].op = "begin"
  /\ r \notin minted
  /\ RoomForPending(Swept(pending), thread[th].client)
  /\ pending' = Put(Swept(pending), r, [client     |-> thread[th].client,
                                        expires_at |-> thread[th].expires_at])
  /\ minted' = minted \cup {r}
  /\ thread' = [thread EXCEPT ![th] = Idle]
  /\ UNCHANGED <<clients, codes, refresh, disk, up, now, crashes, gen, known, held, tried, spent, ever>>

(* Rate limited (nothing swept), or swept and found full.                  *)
BeginRefused(th) ==
  /\ up /\ thread[th].op = "begin"
  /\ \/ UNCHANGED pending
     \/ /\ ~RoomForPending(Swept(pending), thread[th].client)
        /\ pending' = Swept(pending)
  /\ thread' = [thread EXCEPT ![th] = Idle]
  /\ UNCHANGED <<clients, codes, refresh, disk, up, now, crashes, history, ever>>

-----------------------------------------------------------------------------
(* complete_authorization: the request is popped, the owner's secret is    *)
(* judged under a second acquisition, and the code is stored and the state *)
(* persisted under a third.                                                *)

Peeked(r) == pending   \* faulty: read, not popped
Popped(r) == Drop(pending, {r})

(* Popped and found expired, or denied by the owner: the request is over.  *)
CompleteDismiss(r) ==
  /\ up /\ r \in DOMAIN pending
  /\ pending' = Popped(r)
  /\ UNCHANGED <<clients, codes, refresh, disk, thread, up, now, crashes, history, ever>>

CompletePop(th, r) ==
  /\ up /\ thread[th] = Idle
  /\ r \in DOMAIN pending /\ now <= pending[r].expires_at
  /\ pending' = Popped(r)
  /\ thread' = [thread EXCEPT ![th] =
                  [op |-> "judge", request |-> r, client |-> pending[r].client,
                   expires_at |-> pending[r].expires_at]]
  /\ UNCHANGED <<clients, codes, refresh, disk, up, now, crashes, history, ever>>

(* Locked out or wrong secret: the request goes back, whatever the table   *)
(* has become meanwhile.                                                   *)
CompleteReinsert(th) ==
  /\ up /\ thread[th].op = "judge"
  /\ pending' = Put(pending, thread[th].request,
                    [client |-> thread[th].client, expires_at |-> thread[th].expires_at])
  /\ thread' = [thread EXCEPT ![th] = Idle]
  /\ UNCHANGED <<clients, codes, refresh, disk, up, now, crashes, history, ever>>

Touched(cls, c) == IF c \in DOMAIN cls THEN [cls EXCEPT ![c].last_used_at = now] ELSE cls

CompleteApprove(th) ==
  /\ up /\ thread[th].op = "judge"
  /\ clients' = Touched(clients, thread[th].client)
  /\ thread' = [thread EXCEPT ![th] =
                  [op |-> "code", client |-> thread[th].client, expires_at |-> now + CODE_TTL]]
  /\ UNCHANGED <<pending, codes, refresh, disk, up, now, crashes, history, ever>>

CompleteIssue(th, g, outcome) ==
  /\ up /\ thread[th].op = "code"
  /\ g \notin minted
  /\ codes' = Put(codes, g, [client     |-> thread[th].client,
                             expires_at |-> thread[th].expires_at])
  /\ Persist(clients, refresh, outcome)
  /\ minted' = minted \cup {g}
  /\ Answer(outcome, g)
  /\ thread' = [thread EXCEPT ![th] = Idle]
  /\ UNCHANGED <<pending, up, now, crashes, gen, held, tried, spent>>

-----------------------------------------------------------------------------
(* The token endpoint.                                                     *)

NewRefreshBackdated(c) ==   \* faulty: the lifetime subtracted
  [client |-> c, expires_at |-> now - REFRESH_TTL, revoked |-> FALSE]

NewRefresh(c) == [client |-> c, expires_at |-> now + REFRESH_TTL, revoked |-> FALSE]

NotRevoked(rts, t) == rts   \* faulty: the old token is left alone
Revoked(rts, t) == IF t \in DOMAIN rts THEN [rts EXCEPT ![t].revoked = TRUE] ELSE rts

(* _issue_tokens for grant g, into the refresh tokens rts.                 *)
Issue(g, c, rts, outcome) ==
  LET t == <<g, gen[g] + 1>>
  IN  /\ gen[g] < MaxGen
      /\ gen' = [gen EXCEPT ![g] = @ + 1]
      /\ Persist(Touched(clients, c), Put(rts, t, NewRefresh(c)), outcome)
      /\ held' = IF outcome = "answered" THEN Put(held, t, now + REFRESH_TTL) ELSE held

Replayable(g) == codes   \* faulty: the code survives its use
Consumed(g) == Drop(codes, {g})

(* The client's name, redirect_uri, resource and verifier all match.       *)
ExchangeCode(g, outcome) ==
  /\ up /\ g \in known \cap DOMAIN codes
  /\ now <= codes[g].expires_at
  /\ codes[g].client \in DOMAIN clients
  /\ codes' = Consumed(g)
  /\ Issue(g, codes[g].client, refresh, outcome)
  /\ UNCHANGED <<pending, thread, up, now, crashes, minted, known, tried, spent>>

(* Expired, unknown client, or any mismatch: the code is gone all the same. *)
ExchangeCodeRefused(g) ==
  /\ up /\ g \in known \cap DOMAIN codes
  /\ codes' = Consumed(g)
  /\ UNCHANGED <<clients, pending, refresh, disk, thread, up, now, crashes, history, ever>>

Refreshable(t) ==
  /\ t \in DOMAIN held \cap DOMAIN refresh
  /\ ~refresh[t].revoked
  /\ now <= refresh[t].expires_at

ExchangeRefresh(t, outcome) ==
  /\ up /\ Refreshable(t)
  /\ Issue(t[1], refresh[t].client, Revoked(refresh, t), outcome)
  /\ tried' = tried \cup {t}
  /\ spent' = IF outcome = "answered" THEN spent \cup {t} ELSE spent
  /\ UNCHANGED <<pending, codes, thread, up, now, crashes, minted, known>>

(* A scope that is unsupported or wider than the grant's is rejected after *)
(* the old token was marked revoked, and the mark is not persisted.        *)
ExchangeRefreshBadScope(t) ==
  /\ up /\ Refreshable(t)
  /\ refresh' = Revoked(refresh, t)
  /\ tried' = tried \cup {t}
  /\ UNCHANGED <<clients, pending, codes, disk, thread, up, now, crashes, gen, minted, known,
                 held, spent, ever>>

(* revoke answers 200 for any token, after a save of the whole state.      *)
Revoke(t, outcome) ==
  /\ up /\ t \in DOMAIN held
  /\ Persist(clients, Revoked(refresh, t), outcome)
  /\ tried' = tried \cup {t}
  /\ spent' = IF outcome = "answered" THEN spent \cup {t} ELSE spent
  /\ UNCHANGED <<pending, codes, thread, up, now, crashes, gen, minted, known, held>>

-----------------------------------------------------------------------------
(* Process death and start: __post_init__ loads the file, evicts with no   *)
(* slot reserved, and fails to start if it cannot persist an eviction.     *)

Crash ==
  /\ up /\ crashes < MaxCrashes
  /\ up' = FALSE
  /\ crashes' = crashes + 1
  /\ clients' = Empty /\ pending' = Empty /\ codes' = Empty /\ refresh' = Empty
  /\ thread' = [th \in Thread |-> Idle]
  /\ UNCHANGED <<disk, now, history, ever>>

Start(outcome) ==
  /\ ~up
  /\ \E gone \in Evictions(disk.clients, disk.refresh, 0) :
       LET cls == Drop(disk.clients, gone)
           rts == TokensWithout(disk.refresh, gone)
       IN  IF gone = {}
           THEN /\ outcome = "answered"
                /\ clients' = cls /\ refresh' = rts
                /\ up' = TRUE
                /\ UNCHANGED <<disk, ever>>
           ELSE IF outcome = "answered"
           THEN Persist(cls, rts, outcome) /\ up' = TRUE
           ELSE WriteFile(cls, Purged(rts), outcome) /\ UNCHANGED <<clients, refresh, up>>
  /\ UNCHANGED <<pending, codes, thread, now, crashes, history>>

Tick ==
  /\ now < MaxTime
  /\ now' = now + 1
  /\ UNCHANGED <<memory, disk, thread, up, crashes, history, ever>>

-----------------------------------------------------------------------------
Init ==
  /\ clients = Empty /\ pending = Empty /\ codes = Empty /\ refresh = Empty
  /\ disk = [clients |-> Empty, refresh |-> Empty]
  /\ thread = [th \in Thread |-> Idle]
  /\ up = TRUE /\ now = 0 /\ crashes = 0
  /\ gen = [g \in Grant |-> 0]
  /\ minted = {} /\ known = {} /\ held = Empty /\ tried = {} /\ spent = {}
  /\ ever = {}

Registration == (\E c \in Client, o \in Outcome : Register(c, o)) \/ RegisterRefused

Authorization ==
  \/ \E th \in Thread, c \in Client : BeginLookup(th, c)
  \/ \E th \in Thread, r \in Request : BeginAdmit(th, r)
  \/ \E th \in Thread : BeginRefused(th)
  \/ \E r \in Request : CompleteDismiss(r)
  \/ \E th \in Thread, r \in Request : CompletePop(th, r)
  \/ \E th \in Thread : CompleteReinsert(th)
  \/ \E th \in Thread : CompleteApprove(th)
  \/ \E th \in Thread, g \in Grant, o \in Outcome : CompleteIssue(th, g, o)

TokenEndpoint ==
  \/ \E g \in Grant, o \in Outcome : ExchangeCode(g, o)
  \/ \E g \in Grant : ExchangeCodeRefused(g)
  \/ \E t \in Token, o \in Outcome : ExchangeRefresh(t, o)
  \/ \E t \in Token : ExchangeRefreshBadScope(t)
  \/ \E t \in Token, o \in Outcome : Revoke(t, o)

Next ==
  \/ Registration
  \/ Authorization
  \/ TokenEndpoint
  \/ Crash
  \/ \E o \in Outcome : Start(o)
  \/ Tick

Spec == Init /\ [][Next]_vars

-----------------------------------------------------------------------------
(* Properties.                                                             *)

ThreadRec ==
  {Idle}
  \cup [op : {"begin", "code"}, client : Client, expires_at : Time]
  \cup [op : {"judge"}, request : Request, client : Client, expires_at : Time]

(* Every table of the service, the file and every thread hold values of    *)
(* the shapes relay/oauth.py declares.                                     *)
TypeOK ==
  /\ IsDict(clients, Client, ClientRec)
  /\ IsDict(pending, Request, PendingRec)
  /\ IsDict(codes, Grant, PendingRec)
  /\ IsDict(refresh, Token, RefreshRec)
  /\ IsFile(disk)
  /\ thread \in [Thread -> ThreadRec]
  /\ up \in BOOLEAN /\ now \in Time /\ crashes \in Nat
  /\ gen \in [Grant -> 0 .. MaxGen]
  /\ minted \subseteq Client \cup Request \cup Grant
  /\ known \subseteq Client \cup Grant
  /\ IsDict(held, Token, Time)
  /\ tried \subseteq Token /\ spent \subseteq Token /\ ever \subseteq Token

(* Registration, eviction, restart and resurrection from the file together *)
(* never leave more clients than MAX_DCR_CLIENTS in memory or in the file. *)
ClientsCapped ==
  /\ Cardinality(DOMAIN clients) <= MAX_DCR_CLIENTS
  /\ Cardinality(DOMAIN disk.clients) <= MAX_DCR_CLIENTS

(* A request that awaits the owner is in one place: the pending table or   *)
(* the hands of one thread, so one consent never becomes two codes.        *)
Judging == {th \in Thread : thread[th].op = "judge"}

RequestHeldOnce ==
  /\ \A th \in Judging : thread[th].request \notin DOMAIN pending
  /\ \A th1, th2 \in Judging : thread[th1].request = thread[th2].request => th1 = th2

(* What is left of the global cap when consents are judged concurrently:   *)
(* requests in the table or in a thread's hands exceed it by fewer than    *)
(* the number of threads.                                                  *)
PendingOvershootBounded ==
  Cardinality(DOMAIN pending) + Cardinality(Judging)
    <= MAX_PENDING_AUTHORIZATIONS + Cardinality(Thread) - 1

(* docs/auth-seam.md: pending requests are capped globally and per client. *)
PendingCapped ==
  /\ Cardinality(DOMAIN pending) <= MAX_PENDING_AUTHORIZATIONS
  /\ \A c \in Client :
       Cardinality({r \in DOMAIN pending : pending[r].client = c}) <= MAX_PENDING_PER_CLIENT

(* No step of a running service takes a client away while it has a live    *)
(* refresh token, or a live request in the pending table.                  *)
ProtectedClientsStay ==
  [][\A c \in DOMAIN clients :
       (up' /\ (HasLiveRefresh(refresh, c) \/ HasLivePending(c))) => c \in DOMAIN clients']_vars

(* docs/auth-seam.md, and the docstring at relay/oauth.py:396: cleanup does *)
(* not break an open consent page.  A page stays open while a thread judges *)
(* the owner's answer, which may be a mistyped secret.                      *)
OpenConsents ==
  {[client |-> pending[r].client, expires_at |-> pending[r].expires_at] : r \in DOMAIN pending}
  \cup {[client |-> thread[th].client, expires_at |-> thread[th].expires_at] : th \in Judging}

OpenConsentsSpared ==
  [][\A p \in OpenConsents :
       (up' /\ p.expires_at >= now /\ p.client \in DOMAIN clients) => p.client \in DOMAIN clients']_vars

(* relay/oauth.py:304: a save drops expired refresh records from the file. *)
ExpiredNeverSaved ==
  [][disk' # disk => \A t \in DOMAIN disk'.refresh : disk'.refresh[t].expires_at >= now]_vars

(* Refresh tokens, in memory and in the file, belong to registered clients *)
(* whatever was evicted, lost or reloaded.                                 *)
Owned(cls, rts) == \A t \in DOMAIN rts : rts[t].client \in DOMAIN cls

RefreshTokensOwned == Owned(clients, refresh) /\ Owned(disk.clients, disk.refresh)

(* Rotation leaves at most one refresh token of a grant unrevoked, in      *)
(* memory and in the file, across failed saves and restarts.               *)
AtMostOneLive(rts) ==
  \A t1, t2 \in DOMAIN rts : (t1[1] = t2[1] /\ ~rts[t1].revoked /\ ~rts[t2].revoked) => t1 = t2

OneLiveTokenPerGrant == AtMostOneLive(refresh) /\ AtMostOneLive(disk.refresh)

(* A refresh token whose rotation or revocation was acknowledged is never  *)
(* honoured again, in this life of the process or the next.                *)
Dead(rts, t) == t \in DOMAIN rts => rts[t].revoked

SpentTokensDead == \A t \in spent : Dead(refresh, t) /\ Dead(disk.refresh, t)

(* A refresh token that reached its client, is unexpired and was never     *)
(* presented is still good, here and after any restart: no eviction, crash *)
(* or failed save of somebody else's request takes it away.                *)
Good(rts, t) == t \in DOMAIN rts /\ ~rts[t].revoked

HeldTokensKept ==
  \A t \in DOMAIN held \ tried :
    held[t] >= now => Good(disk.refresh, t) /\ (up => Good(refresh, t))

(* The durable file, read grant by grant, behaves as GrantLifecycle says:  *)
(* at most one token, only forward, never reopened, across failed saves,   *)
(* lost answers, evictions and restarts.                                   *)
Lifecycle == INSTANCE GrantLifecycle WITH live <- Unrevoked(disk.refresh)

GrantPromise == Lifecycle!Spec
=============================================================================
