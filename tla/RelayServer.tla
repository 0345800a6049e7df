---------------------------- MODULE RelayServer ----------------------------
(***************************************************************************)
(* The relay as a process: the configuration it starts with                *)
(* (relay/config.py), the threads that serve /mcp and /oauth               *)
(* (relay/server.py), the identity each call is bound to (relay/binding.py *)
(* and validate_bearer of relay/oauth.py), the one upstream request a      *)
(* bound call becomes (relay/proxy.py), and the limiter of failed owner    *)
(* approvals.                                                              *)
(*                                                                         *)
(* A grant stands for the chain of refresh tokens rotated out of one       *)
(* approval; OAuthService has the chain and the clients, this module the   *)
(* access tokens, which that one leaves out, and what a restart with       *)
(* another configuration makes of both.  A chain is evicted with its       *)
(* client, and clients are evicted here by any choice among those without  *)
(* a live refresh token: the caps and ages that choose are OAuthService's. *)
(* A call's body has arrived when the call appears: reading it from a      *)
(* silent client has no time limit.                                        *)
(***************************************************************************)
EXTENDS RateLimiter

CONSTANTS
  Thread,              \* threads of the HTTP server
  Grant,
  Environment,         \* what the operator may start the relay with
  ACCESS_TTL, REFRESH_TTL,
  MaxTime, MaxTokens, MaxCrashes, MaxFailures,   \* bounds of the model, not of the code
  Traffic              \* "calls", "owner": the kind of request a behaviour has

VARIABLES
  env,        \* the RelayConfig of this life of the process
  up,
  access,     \* OAuthService.access_tokens
  refresh,    \* OAuthService.refresh_tokens, a record for a chain
  disk,       \* the chains in the durable file
  revoked,    \* MockBindingStore._revoked holds the one binding
  thread,     \* what each thread is doing
  failed,     \* _owner_fail_limiter._events
  now, crashes, traffic,
  drawn,      \* access tokens drawn for each grant
  approved,   \* the resource the owner approved each grant for
  kept,       \* for a chain acknowledged in public, when its last token expires
  dead,       \* tokens and chains whose revocation was acknowledged
  log         \* the times of every source's failures in this life

tables == <<access, refresh, disk, drawn, approved, kept, dead>>
limits == <<failed, log>>
vars   == <<env, up, tables, revoked, thread, limits, now, crashes, traffic>>

Token     == Grant \X (1 .. MaxTokens)
MockToken == <<"mock">>   \* config.mock_plugin_token

(* Access tokens, refresh tokens and the configured mock token are drawn   *)
(* apart: no string is two of them.                                        *)
ASSUME RelayAssumption ==
  /\ ACCESS_TTL \in Nat /\ REFRESH_TTL \in Nat /\ MaxTokens \in Nat
  /\ Grant \cap (Token \cup {MockToken}) = {}

-----------------------------------------------------------------------------
(* load_config.  An environment says which of its settings are given, and  *)
(* where hosts are: "loopback", "public", or another kind of address.      *)

Public(e) == e.bind # "loopback" \/ (e.mode = "oauth" /\ e.base # "loopback")

(* Every address the upstream's name resolves to is checked, not only the  *)
(* one that will be dialled.                                               *)
UpstreamAllowed(e) ==
  /\ e.upstream = "loopback" => e.allow_loopback
  /\ e.upstream # "loopback" => e.https
  /\ e.addresses # {}
  /\ \A a \in e.addresses : a = "public" \/ (a = "loopback" /\ e.allow_loopback)

DurableWhenBoth(e) == e.bind # "loopback" /\ e.base # "loopback"   \* faulty: either is enough
RequiresDurable(e) == e.bind # "loopback" \/ e.base # "loopback"

OAuthAllowed(e) ==
  /\ e.owner_secret
  /\ e.state_path => ~e.ephemeral
  /\ ~e.state_path => ~RequiresDurable(e) /\ e.ephemeral

MockAllowed(e) == e.bind # "loopback" => e.legacy_bind /\ ~e.default_token

Accepted(e) ==
  /\ UpstreamAllowed(e)
  /\ e.mode = "oauth" => OAuthAllowed(e)
  /\ e.mode = "mock" => MockAllowed(e)

-----------------------------------------------------------------------------
Empty         == [x \in {} |-> x]
Put(d, k, v)  == [x \in DOMAIN d \cup {k} |-> IF x = k THEN v ELSE d[x]]
Without(d, S) == [x \in DOMAIN d \ S |-> d[x]]

Idle == [op |-> "idle"]

(* _client_has_live_refresh, of the chains it does not protect; and those  *)
(* of them _persist_locked drops, which are revoked as well as expired.    *)
Ended(chains)  == {g \in DOMAIN chains : chains[g].revoked \/ chains[g].expires_at < now}
Purged(chains) ==
  Without(chains, {g \in DOMAIN chains : chains[g].revoked /\ chains[g].expires_at < now})

(* _persist_locked: with no state path there is nothing to fail.  A failed *)
(* save leaves memory ahead of the file and the request without an answer. *)
Outcome == {"answered", "unanswered", "unsaved"}

Persist(chains, outcome) ==
  /\ outcome = "unsaved" => env.state_path
  /\ refresh' = IF env.state_path THEN Purged(chains) ELSE chains
  /\ disk' = IF env.state_path /\ outcome # "unsaved" THEN refresh' ELSE disk

Acknowledged(S, value, outcome) == IF outcome = "answered" THEN S \cup {value} ELSE S

(* _issue_tokens for the chain g.                                          *)
Issue(g, resource, outcome) ==
  /\ drawn[g] < MaxTokens
  /\ drawn' = [drawn EXCEPT ![g] = @ + 1]
  /\ access' = Put(access, <<g, drawn[g] + 1>>,
                   [resource |-> resource, expires_at |-> now + ACCESS_TTL, revoked |-> FALSE])
  /\ Persist(Put(refresh, g, [resource |-> resource, expires_at |-> now + REFRESH_TTL,
                              revoked |-> FALSE]), outcome)
  /\ kept' = IF Public(env) /\ outcome = "answered" THEN Put(kept, g, now + REFRESH_TTL) ELSE kept

Serving(kind) == up /\ env.mode = "oauth" /\ traffic = kind

(* A code exchanged for the first tokens of a grant: the client names the  *)
(* resource, which is the code's and this process's.                       *)
Connect(g, outcome) ==
  /\ Serving("calls") /\ drawn[g] = 0
  /\ Issue(g, env.resource, outcome)
  /\ approved' = [approved EXCEPT ![g] = env.resource]
  /\ UNCHANGED <<env, up, revoked, thread, limits, now, crashes, traffic, dead>>

Redeemable(g) ==
  /\ Serving("calls")
  /\ g \in DOMAIN refresh /\ ~refresh[g].revoked /\ now <= refresh[g].expires_at

(* A refresh need not name a resource, and then none is compared: the new  *)
(* pair has the chain's.                                                   *)
RenewedForThisRelay(g) == env.resource   \* faulty: what the process serves now
Renewed(g) == refresh[g].resource

Reconnect(g, outcome) ==
  /\ Redeemable(g)
  /\ Issue(g, Renewed(g), outcome)
  /\ UNCHANGED <<env, up, revoked, thread, limits, now, crashes, traffic, approved, dead>>

Marked(table, t) == IF t \in DOMAIN table THEN [table EXCEPT ![t].revoked = TRUE] ELSE table

(* A refresh that asks for more scopes than the chain has: the token is    *)
(* spent before they are compared, and nothing is saved.                   *)
Overreach(g) ==
  /\ Redeemable(g)
  /\ refresh' = Marked(refresh, g)
  /\ kept' = Without(kept, {g})
  /\ UNCHANGED <<env, up, access, disk, drawn, approved, dead, revoked, thread, limits, now,
                 crashes, traffic>>

(* register_client evicts before it refuses or saves; gone may be empty,   *)
(* and then this is any other save, like that of a code.                   *)
Register(gone, saved) ==
  /\ Serving("calls") /\ gone \subseteq Ended(refresh)
  /\ IF saved THEN Persist(Without(refresh, gone), "answered")
     ELSE refresh' = Without(refresh, gone) /\ disk' = disk
  /\ UNCHANGED <<env, up, access, drawn, approved, kept, dead, revoked, thread, limits, now,
                 crashes, traffic>>

(* A client may present what was drawn for it, and nothing it could guess.  *)
Drawn(t) == IF t \in Grant THEN drawn[t] > 0 ELSE t[2] <= drawn[t[1]]

(* revoke: the hint says which table is searched first, and no hint keeps  *)
(* a token of the other table alive.  An unknown token is acknowledged too,  *)
(* which says nothing of a chain in a file this process does not have.     *)
Hints == {"", "access_token", "refresh_token"}

MarkedAsHinted(table, t, hint, kind) ==   \* faulty: a wrong hint is believed
  IF hint \in {"", kind} THEN Marked(table, t) ELSE table

MarkedWhatever(table, t, hint, kind) == Marked(table, t)

Revoke(t, hint, outcome) ==
  /\ Serving("calls") /\ Drawn(t)
  /\ access' = MarkedWhatever(access, t, hint, "access_token")
  /\ Persist(MarkedWhatever(refresh, t, hint, "refresh_token"), outcome)
  /\ dead' = IF env.state_path \/ t \notin DOMAIN disk THEN Acknowledged(dead, t, outcome) ELSE dead
  /\ kept' = Without(kept, {t} \cap DOMAIN refresh)
  /\ UNCHANGED <<env, up, revoked, thread, limits, now, crashes, traffic, drawn, approved>>

(* MockBindingStore.revoke and reconnect.                                  *)
MockSwitch ==
  /\ up /\ env.mode = "mock"
  /\ revoked' = ~revoked
  /\ UNCHANGED <<env, up, tables, thread, limits, now, crashes, traffic>>

-----------------------------------------------------------------------------
(* _handle_mcp on a thread: the body is read, the identity resolved under  *)
(* the lock, and the upstream dialled with neither.                        *)

Nothing    == <<"none">>   \* no header, or one that is no bearer token of the relay
Credential == Token \cup {MockToken, Nothing}

Receive(th, cred) ==
  /\ up /\ traffic = "calls" /\ thread[th] = Idle
  /\ cred \in Token => Drawn(cred)
  /\ thread' = [thread EXCEPT ![th] = [op |-> "read", cred |-> cred]]
  /\ UNCHANGED <<env, up, tables, revoked, limits, now, crashes, traffic>>

ValidBearer(t) ==
  /\ t \in DOMAIN access
  /\ ~access[t].revoked
  /\ now <= access[t].expires_at
  /\ access[t].resource = env.resource

(* BindingResolver.resolve.  In OAuth mode the mock token is like any      *)
(* other string that is no access token.                                   *)
ResolvesEither(cred) == (cred = MockToken /\ ~revoked) \/ ValidBearer(cred)   \* faulty: a fallback
Resolves(cred) ==
  \/ env.mode = "oauth" /\ ValidBearer(cred)
  \/ env.mode = "mock" /\ cred = MockToken /\ ~revoked

(* The 401 or 403 with its challenge.                                      *)
Deny(th) ==
  /\ up /\ thread[th].op = "read" /\ ~Resolves(thread[th].cred)
  /\ thread' = [thread EXCEPT ![th] = Idle]
  /\ UNCHANGED <<env, up, tables, revoked, limits, now, crashes, traffic>>

Bind(th) ==
  /\ up /\ thread[th].op = "read" /\ Resolves(thread[th].cred)
  /\ thread' = [thread EXCEPT ![th] = [op |-> "bound", cred |-> thread[th].cred, mode |-> env.mode]]
  /\ UNCHANGED <<env, up, tables, revoked, limits, now, crashes, traffic>>

(* The upstream's answer, whatever its status, is the client's.  Refused,  *)
(* broken off or silent for request_timeout_s: 502, and nobody asks again. *)
Answer(th) ==
  /\ up /\ thread[th].op = "bound"
  /\ thread' = [thread EXCEPT ![th] = Idle]
  /\ UNCHANGED <<env, up, tables, revoked, limits, now, crashes, traffic>>

-----------------------------------------------------------------------------
(* The owner's secret at complete_authorization, which is judged under one *)
(* acquisition of the lock.                                                *)

OwnerFails(s) ==
  /\ Serving("owner") /\ Allowed(failed, s, now)
  /\ Cardinality({f \in Source \X (1 .. MaxFailures) : f[2] <= Len(log[f[1]])}) < MaxFailures
  /\ failed' \in Recorded(Looked(failed, s, now), s, now)
  /\ log' = [log EXCEPT ![s] = Append(@, now)]
  /\ UNCHANGED <<env, up, tables, revoked, thread, now, crashes, traffic>>

(* Locked out, or the right secret: only the look prunes.                  *)
OwnerLooks(s) ==
  /\ Serving("owner")
  /\ failed' = Looked(failed, s, now)
  /\ UNCHANGED <<env, up, tables, revoked, thread, log, now, crashes, traffic>>

-----------------------------------------------------------------------------
(* main: load_config, create_server, serve_forever.  The file is read, and *)
(* saved again if a client was evicted; a save that fails then keeps the   *)
(* process from starting, which changes nothing.                           *)

Swept(chains) == {Purged(Without(chains, gone)) : gone \in SUBSET Ended(chains)}

Start ==
  /\ ~up
  /\ env' \in {e \in Environment : Accepted(e)}
  /\ up' = TRUE
  /\ IF env'.mode = "oauth" /\ env'.state_path
     THEN disk' \in {disk} \cup Swept(disk) /\ refresh' = disk'
     ELSE disk' = disk /\ refresh' = Empty
  /\ UNCHANGED <<access, drawn, approved, kept, dead, revoked, thread, limits, now, crashes, traffic>>

Crash ==
  /\ up /\ crashes < MaxCrashes
  /\ crashes' = crashes + 1
  /\ up' = FALSE
  /\ access' = Empty /\ refresh' = Empty /\ revoked' = FALSE
  /\ failed' = NoEvents /\ log' = [s \in Source |-> <<>>]
  /\ thread' = [th \in Thread |-> Idle]
  /\ UNCHANGED <<env, disk, drawn, approved, kept, dead, now, traffic>>

Tick ==
  /\ now < MaxTime
  /\ now' = now + 1
  /\ UNCHANGED <<env, up, tables, revoked, thread, limits, crashes, traffic>>

Init ==
  /\ env \in {e \in Environment : Accepted(e)}
  /\ up = TRUE
  /\ access = Empty /\ refresh = Empty /\ disk = Empty /\ revoked = FALSE
  /\ thread = [th \in Thread |-> Idle]
  /\ failed = NoEvents /\ log = [s \in Source |-> <<>>]
  /\ now = 0 /\ crashes = 0 /\ traffic \in Traffic
  /\ drawn = [g \in Grant |-> 0] /\ approved = [g \in Grant |-> "none"]
  /\ kept = Empty /\ dead = {}

Next ==
  \/ \E g \in Grant, o \in Outcome : Connect(g, o) \/ Reconnect(g, o)
  \/ \E g \in Grant : Overreach(g)
  \/ \E gone \in SUBSET Grant, saved \in BOOLEAN : Register(gone, saved)
  \/ \E t \in Token \cup Grant, h \in Hints, o \in Outcome : Revoke(t, h, o)
  \/ MockSwitch
  \/ \E th \in Thread, c \in Credential : Receive(th, c)
  \/ \E th \in Thread : Deny(th) \/ Bind(th) \/ Answer(th)
  \/ \E s \in Source : OwnerFails(s) \/ OwnerLooks(s)
  \/ Start \/ Crash \/ Tick

Spec == Init /\ [][Next]_vars

-----------------------------------------------------------------------------
(* Properties.                                                             *)

(* docs/auth-seam.md:58: production OAuth mode never falls back to mock    *)
(* bearer tokens, and a listener reachable from elsewhere never serves the *)
(* token everybody knows.  The mode is the one the call was bound in.      *)
CredentialOfItsMode ==
  \A th \in Thread : thread[th].op = "bound" =>
    /\ thread[th].mode = "oauth" => thread[th].cred \in Token
    /\ thread[th].mode = "mock" => thread[th].cred = MockToken /\ ~(Public(env) /\ env.default_token)

(* docs/auth-seam.md:35: what a relay reachable from elsewhere has         *)
(* acknowledged it still has, in every later life of the process that is   *)
(* reachable from elsewhere, until the last token it answered with         *)
(* expires, and unless its client revoked it or asked for more scopes.     *)
Lives(table, g, until) ==
  g \in DOMAIN table /\ ~table[g].revoked /\ table[g].expires_at >= until

PublicGrantsKept ==
  \A g \in DOMAIN kept :
    (kept[g] >= now /\ up /\ env.mode = "oauth" /\ Public(env)) => Lives(refresh, g, kept[g])

(* No call is bound to a token after its revocation was acknowledged, nor  *)
(* is a new token issued for a revoked chain, in this life or a later one. *)
RevokedNeverServed ==
  [][/\ \A th \in Thread : (thread'[th].op = "bound" /\ thread[th].op # "bound")
                             => thread[th].cred \notin dead
     /\ \A t \in DOMAIN access' \ DOMAIN access : t[1] \notin dead]_vars

(* A call goes upstream only on a grant the owner approved for the very    *)
(* resource of this process, however its chain came through files written  *)
(* under another, and refreshes that named none.                           *)
AudienceKept ==
  \A th \in Thread :
    (thread[th].op = "bound" /\ thread[th].cred \in Token)
      => approved[thread[th].cred[1]] = env.resource

(* docs/auth-seam.md:56: a source fails more than MAX_EVENTS times within  *)
(* a window only if more than MAX_SOURCES sources failed within two.       *)
Recent(s, span) == {n \in 1 .. Len(log[s]) : log[s][n] >= now - span}

LockoutHolds ==
  \A s \in Source :
    Cardinality(Recent(s, WINDOW)) > MAX_EVENTS
      => Cardinality({u \in Source : Recent(u, 2 * WINDOW) # {}}) > MAX_SOURCES

(* docs/auth-seam.md:57: the distinct-source map is capped, and no source  *)
(* has more events in it than the limit.                                   *)
SourcesCapped ==
  /\ Cardinality(DOMAIN failed) <= MAX_SOURCES
  /\ \A s \in DOMAIN failed : Len(failed[s]) \in 1 .. MAX_EVENTS
=============================================================================
