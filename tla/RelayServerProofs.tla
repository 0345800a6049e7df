------------------------- MODULE RelayServerProofs -------------------------
(* Why a relay serves only the credentials of its mode, keeps the grants   *)
(* it acknowledged, never serves what was revoked, and how far the limiter *)
(* of failed owner approvals can be trusted: theorems about RelayServer.   *)
EXTENDS RelayServer, FiniteSetTheorems, WellFoundedInduction, TLAPS

-----------------------------------------------------------------------------
(* The inductive invariant, in six parts.                                  *)

IsDict(d, K, V) == DOMAIN d \subseteq K /\ d \in [DOMAIN d -> V]

Resource  == {e.resource : e \in Environment}
AccessRec == [resource : Resource, expires_at : Nat, revoked : BOOLEAN]
ChainRec  == [resource : Resource, expires_at : Nat, revoked : BOOLEAN]

ThreadRec ==
  {Idle}
  \cup [op : {"read"}, cred : Credential]
  \cup [op : {"bound"}, cred : Credential, mode : {e.mode : e \in Environment}]

RelayType ==
  /\ env \in Environment /\ Accepted(env)
  /\ IsDict(access, Token, AccessRec)
  /\ IsDict(refresh, Grant, ChainRec)
  /\ IsDict(disk, Grant, ChainRec)
  /\ thread \in [Thread -> ThreadRec]
  /\ now \in Nat
  /\ drawn \in [Grant -> 0 .. MaxTokens]
  /\ approved \in [Grant -> Resource \cup {"none"}]
  /\ IsDict(kept, Grant, Nat)
  /\ dead \subseteq Token \cup Grant

(* A call stays bound only as long as the configuration that bound it.     *)
BoundInv ==
  /\ ~up => thread = [th \in Thread |-> Idle]
  /\ \A th \in Thread : thread[th].op = "bound" =>
       /\ thread[th].mode = env.mode
       /\ env.mode = "oauth" => thread[th].cred \in Token
       /\ env.mode = "mock" => thread[th].cred = MockToken

(* What was kept in public is alive in the file, and in the memory of a    *)
(* process that reads and writes it, as long as the acknowledged token.    *)
KeptInv ==
  \A g \in DOMAIN kept :
    /\ kept[g] <= now + REFRESH_TTL
    /\ kept[g] >= now =>
         /\ Lives(disk, g, kept[g])
         /\ (up /\ env.mode = "oauth" /\ env.state_path) => Lives(refresh, g, kept[g])

(* The dead were drawn, and are marked wherever they are known.            *)
Cut(table, t) == t \in DOMAIN table => table[t].revoked

DeadInv == \A t \in dead : Drawn(t) /\ Cut(access, t) /\ Cut(refresh, t) /\ Cut(disk, t)

(* Tokens and chains have the resource their grant was approved for, which *)
(* for a bound call is the resource of the process.                        *)
ChainsApproved(chains) ==
  \A g \in DOMAIN chains : drawn[g] > 0 /\ chains[g].resource = approved[g]

ApprovedInv ==
  /\ \A t \in DOMAIN access : drawn[t[1]] > 0 /\ access[t].resource = approved[t[1]]
  /\ ChainsApproved(refresh) /\ ChainsApproved(disk)
  /\ \A th \in Thread : (thread[th].op = "bound" /\ thread[th].cred \in Token) =>
       drawn[thread[th].cred[1]] > 0 /\ approved[thread[th].cred[1]] = env.resource

(* The limiter holds the last failures of a source.  What it has forgotten *)
(* is old, or was pushed out when more sources than it can hold had failed *)
(* within one window.                                                      *)
Bucket(table, s) == IF s \in DOMAIN table THEN table[s] ELSE <<>>

IsTail(part, whole) ==
  /\ Len(part) <= Len(whole)
  /\ \A i \in 1 .. Len(part) : part[i] = whole[Len(whole) - Len(part) + i]

Busy == {s \in Source : log[s] # <<>>}

Crowd(e) == {u \in Source : \E m \in 1 .. Len(log[u]) : e - WINDOW <= log[u][m] /\ log[u][m] <= e}

Excused(t) ==
  \/ t < now - WINDOW
  \/ \E e \in t .. now : Cardinality(Crowd(e)) > MAX_SOURCES

LogInv ==
  /\ log \in [Source -> Seq(Nat)]
  /\ \A s \in Source : \A n \in 1 .. Len(log[s]) : log[s][n] <= now
  /\ IsFiniteSet(Busy)

Few(S) == IsFiniteSet(S) /\ Cardinality(S) <= MAX_SOURCES

HoldsLast(table) ==
  /\ DOMAIN table \subseteq Source
  /\ \A s \in DOMAIN table :
       /\ table[s] \in Seq(Nat)
       /\ Len(table[s]) \in 1 .. MAX_EVENTS
       /\ IsTail(table[s], log[s])

Justified(table) ==
  \A s \in Source : \A n \in 1 .. Len(log[s]) - Len(Bucket(table, s)) : Excused(log[s][n])

LimitInv == LogInv /\ Few(DOMAIN failed) /\ HoldsLast(failed) /\ Justified(failed)

RelayInv == RelayType /\ BoundInv /\ KeptInv /\ DeadInv /\ ApprovedInv /\ LimitInv

-----------------------------------------------------------------------------
(* Types.                                                                  *)

LEMMA EmptyIsDict ==
  ASSUME NEW K, NEW V PROVE IsDict(Empty, K, V)
  BY DEF IsDict, Empty

LEMMA PutIsDict ==
  ASSUME NEW K, NEW V, NEW d, IsDict(d, K, V), NEW k \in K, NEW v \in V
  PROVE  IsDict(Put(d, k, v), K, V)
  BY DEF IsDict, Put

LEMMA MarkedAccess ==
  ASSUME NEW t, IsDict(access, Token, AccessRec)
  PROVE  IsDict(Marked(access, t), Token, AccessRec)
  BY DEF IsDict, Marked, AccessRec

LEMMA MarkedRefresh ==
  ASSUME NEW t, IsDict(refresh, Grant, ChainRec)
  PROVE  IsDict(Marked(refresh, t), Grant, ChainRec)
  BY DEF IsDict, Marked, ChainRec

(* A table that lost some of its entries.                                  *)
Part(part, whole) ==
  DOMAIN part \subseteq DOMAIN whole /\ part = [g \in DOMAIN part |-> whole[g]]

IsTable(d) == d = [x \in DOMAIN d |-> d[x]]

LEMMA Tables ==
  /\ \A d, k, v : IsTable(Put(d, k, v))
  /\ \A d, S : IsTable(Without(d, S))
  /\ \A d, K, V : IsDict(d, K, V) => IsTable(d)
  BY DEF IsTable, IsDict, Put, Without

LEMMA PartOfDict ==
  ASSUME NEW part, NEW whole, Part(part, whole)
  PROVE  /\ \A g \in DOMAIN part : part[g] = whole[g]
         /\ \A t : Cut(whole, t) => Cut(part, t)
         /\ \A K, V : IsDict(whole, K, V) => IsDict(part, K, V)
  BY DEF Part, Cut, IsDict

LEMMA WithoutIsPart ==
  ASSUME NEW d, NEW S
  PROVE  Part(Without(d, S), d) /\ DOMAIN Without(d, S) = DOMAIN d \ S
  BY DEF Without, Part

LEMMA PurgedIsPart ==
  ASSUME NEW chains
  PROVE  /\ Part(Purged(chains), chains)
         /\ \A g \in DOMAIN chains : ~chains[g].revoked => g \in DOMAIN Purged(chains)
  BY WithoutIsPart DEF Purged

(* What a save leaves in memory, and in the file.                          *)
LEMMA Persisted ==
  ASSUME NEW chains, IsTable(chains), NEW o, Persist(chains, o)
  PROVE  /\ Part(refresh', chains)
         /\ \A g \in DOMAIN chains : ~chains[g].revoked => g \in DOMAIN refresh'
         /\ disk' = disk \/ (env.state_path /\ disk' = refresh')
         /\ (env.state_path /\ o # "unsaved") => disk' = refresh'
  <1>1. refresh' = Purged(chains) \/ refresh' = chains
    BY DEF Persist
  <1>2. Part(chains, chains)
    BY DEF Part, IsTable
  <1>. QED  BY <1>1, <1>2, PurgedIsPart DEF Persist

LEMMA PersistType ==
  ASSUME NEW o, NEW chains, Persist(chains, o), IsDict(chains, Grant, ChainRec),
         IsDict(disk, Grant, ChainRec)
  PROVE  IsDict(refresh', Grant, ChainRec) /\ IsDict(disk', Grant, ChainRec)
  BY Tables, Persisted, PartOfDict

LEMMA IssueType ==
  ASSUME RelayType, NEW g \in Grant, NEW r \in Resource, NEW o, Issue(g, r, o)
  PROVE  /\ IsDict(access', Token, AccessRec)
         /\ IsDict(refresh', Grant, ChainRec)
         /\ IsDict(disk', Grant, ChainRec)
         /\ drawn' \in [Grant -> 0 .. MaxTokens]
         /\ IsDict(kept', Grant, Nat)
  <1>1. drawn[g] \in 0 .. MaxTokens /\ drawn[g] < MaxTokens /\ MaxTokens \in Nat
    BY RelayAssumption DEF RelayType, Issue
  <1>2. <<g, drawn[g] + 1>> \in Token
    BY <1>1 DEF Token
  <1>3. [resource |-> r, expires_at |-> now + ACCESS_TTL, revoked |-> FALSE] \in AccessRec
    BY RelayAssumption DEF RelayType, AccessRec
  <1>4. IsDict(access', Token, AccessRec)
    BY <1>2, <1>3, PutIsDict DEF Issue, RelayType
  <1>5. [resource |-> r, expires_at |-> now + REFRESH_TTL, revoked |-> FALSE] \in ChainRec
    BY RelayAssumption DEF ChainRec, RelayType
  <1>6. IsDict(refresh', Grant, ChainRec) /\ IsDict(disk', Grant, ChainRec)
    <2>1. IsDict(Put(refresh, g, [resource |-> r, expires_at |-> now + REFRESH_TTL, revoked |-> FALSE]),
                 Grant, ChainRec)
      BY <1>5, PutIsDict DEF RelayType
    <2>. QED  BY <2>1, PersistType DEF Issue, RelayType
  <1>7. drawn' \in [Grant -> 0 .. MaxTokens]
    BY <1>1 DEF Issue, RelayType
  <1>8. IsDict(kept', Grant, Nat)
    <2>1. now + REFRESH_TTL \in Nat
      BY RelayAssumption DEF RelayType
    <2>. QED  BY <2>1, PutIsDict DEF Issue, RelayType
  <1>. QED  BY <1>4, <1>6, <1>7, <1>8

(* Steps that leave the grants, the tokens and the clock alone.            *)
LEMMA ThreadType ==
  ASSUME RelayType, NEW th \in Thread, NEW v \in ThreadRec,
         thread' = [thread EXCEPT ![th] = v], UNCHANGED <<env, tables, now>>
  PROVE  RelayType'
  BY DEF RelayType, tables

LEMMA RestType ==
  ASSUME RelayType, UNCHANGED <<env, tables, thread>>, now' \in Nat
  PROVE  RelayType'
  BY DEF RelayType, tables

LEMMA IdleType == Idle \in ThreadRec
  BY DEF ThreadRec

LEMMA ReadCred ==
  ASSUME RelayType, NEW th \in Thread, thread[th].op = "read"
  PROVE  thread[th].cred \in Credential
  <1>1. thread[th] \in ThreadRec
    BY DEF RelayType
  <1>. QED  BY <1>1 DEF ThreadRec, Idle

(* A process starts from a part of the file that has all its live chains.  *)
LEMMA StartedFrom ==
  ASSUME Start, IsDict(disk, Grant, ChainRec)
  PROVE  /\ Part(disk', disk)
         /\ \A g \in DOMAIN disk \ Ended(disk) : g \in DOMAIN disk'
         /\ refresh' = disk' \/ (refresh' = Empty /\ ~(env'.mode = "oauth" /\ env'.state_path))
  <1>1. Part(disk, disk)
    BY DEF Part, IsDict
  <1>2. ASSUME NEW gone \in SUBSET Ended(disk), disk' = Purged(Without(disk, gone))
        PROVE  Part(disk', disk) /\ \A g \in DOMAIN disk \ Ended(disk) : g \in DOMAIN disk'
    <2>1. Part(Without(disk, gone), disk) /\ DOMAIN Without(disk, gone) = DOMAIN disk \ gone
      BY WithoutIsPart
    <2>2. /\ Part(disk', Without(disk, gone))
          /\ \A g \in DOMAIN Without(disk, gone) : ~Without(disk, gone)[g].revoked => g \in DOMAIN disk'
      BY <1>2, PurgedIsPart
    <2>3. \A g \in DOMAIN disk \ Ended(disk) : ~disk[g].revoked
      BY DEF Ended
    <2>. QED  BY <2>1, <2>2, <2>3 DEF Part
  <1>3. disk' = disk \/ \E gone \in SUBSET Ended(disk) : disk' = Purged(Without(disk, gone))
    BY DEF Start, Swept
  <1>4. refresh' = disk' \/ (refresh' = Empty /\ ~(env'.mode = "oauth" /\ env'.state_path))
    BY DEF Start
  <1>. QED  BY <1>1, <1>2, <1>3, <1>4

LEMMA RelayTypeStep ==
  ASSUME RelayType, [Next]_vars PROVE RelayType'
  <1>1. ASSUME NEW g \in Grant, NEW o \in Outcome, Connect(g, o) PROVE RelayType'
    <2>1. env.resource \in Resource
      BY DEF RelayType, Resource
    <2>2. Issue(g, env.resource, o) /\ UNCHANGED <<env, thread, now, dead>>
      BY <1>1 DEF Connect
    <2>3. approved' \in [Grant -> Resource \cup {"none"}]
      BY <1>1, <2>1 DEF Connect, RelayType
    <2>. QED  BY <2>1, <2>2, <2>3, IssueType DEF RelayType
  <1>2. ASSUME NEW g \in Grant, NEW o \in Outcome, Reconnect(g, o) PROVE RelayType'
    <2>1. refresh[g].resource \in Resource
      BY <1>2 DEF RelayType, Reconnect, Redeemable, IsDict, ChainRec
    <2>2. Issue(g, refresh[g].resource, o) /\ UNCHANGED <<env, thread, now, approved, dead>>
      BY <1>2 DEF Reconnect, Renewed
    <2>. QED  BY <2>1, <2>2, IssueType DEF RelayType
  <1>3. ASSUME NEW t \in Token \cup Grant, NEW h \in Hints, NEW o \in Outcome, Revoke(t, h, o)
        PROVE  RelayType'
    <2>1. /\ access' = Marked(access, t)
          /\ Persist(Marked(refresh, t), o)
          /\ kept' = Without(kept, {t} \cap DOMAIN refresh)
          /\ UNCHANGED <<env, thread, now, drawn, approved>>
      BY <1>3 DEF Revoke, MarkedWhatever
    <2>2. IsDict(access', Token, AccessRec) /\ IsDict(Marked(refresh, t), Grant, ChainRec)
      BY <2>1, MarkedAccess, MarkedRefresh DEF RelayType
    <2>3. /\ IsDict(refresh', Grant, ChainRec) /\ IsDict(disk', Grant, ChainRec)
          /\ IsDict(kept', Grant, Nat)
      BY <2>1, <2>2, PersistType, WithoutIsPart, PartOfDict DEF RelayType
    <2>4. dead' \subseteq Token \cup Grant
      BY <1>3 DEF Revoke, RelayType, Acknowledged
    <2>. QED  BY <2>1, <2>2, <2>3, <2>4 DEF RelayType
  <1>4. CASE MockSwitch
    BY <1>4, RestType DEF MockSwitch, RelayType
  <1>5. ASSUME NEW th \in Thread, NEW c \in Credential, Receive(th, c) PROVE RelayType'
    <2>1. [op |-> "read", cred |-> c] \in ThreadRec
      BY DEF ThreadRec
    <2>. QED  BY <1>5, <2>1, ThreadType DEF Receive
  <1>6. ASSUME NEW th \in Thread, Deny(th) \/ Answer(th) PROVE RelayType'
    BY <1>6, IdleType, ThreadType DEF Deny, Answer
  <1>7. ASSUME NEW th \in Thread, Bind(th) PROVE RelayType'
    <2>1. thread[th].cred \in Credential /\ env \in Environment
      BY <1>7, ReadCred DEF Bind, RelayType
    <2>2. [op |-> "bound", cred |-> thread[th].cred, mode |-> env.mode] \in ThreadRec
      BY <2>1 DEF ThreadRec
    <2>. QED  BY <1>7, <2>2, ThreadType DEF Bind
  <1>8. ASSUME NEW s \in Source, OwnerFails(s) \/ OwnerLooks(s) PROVE RelayType'
    BY <1>8, RestType DEF OwnerFails, OwnerLooks, RelayType
  <1>9. CASE Start
    <2>1. env' \in Environment /\ Accepted(env)'
      BY <1>9 DEF Start, Accepted, UpstreamAllowed, OAuthAllowed, MockAllowed
    <2>2. IsDict(refresh', Grant, ChainRec) /\ IsDict(disk', Grant, ChainRec)
      BY <1>9, EmptyIsDict, StartedFrom, PartOfDict DEF Start, RelayType
    <2>. QED  BY <1>9, <2>1, <2>2 DEF Start, RelayType
  <1>10. CASE Crash
    <2>1. IsDict(access', Token, AccessRec) /\ IsDict(refresh', Grant, ChainRec)
      BY <1>10, EmptyIsDict DEF Crash
    <2>2. thread' \in [Thread -> ThreadRec]
      BY <1>10, IdleType DEF Crash
    <2>3. UNCHANGED <<env, disk, drawn, approved, kept, dead, now>>
      BY <1>10 DEF Crash
    <2>. QED  BY <2>1, <2>2, <2>3 DEF RelayType
  <1>11. CASE Tick
    <2>1. now' \in Nat
      BY <1>11 DEF Tick, RelayType
    <2>. QED  BY <1>11, <2>1, RestType DEF Tick
  <1>12. CASE UNCHANGED vars
    BY <1>12, RestType DEF vars, RelayType
  <1>13. ASSUME NEW g \in Grant, Overreach(g) PROVE RelayType'
    <2>1. /\ refresh' = Marked(refresh, g) /\ kept' = Without(kept, {g})
          /\ UNCHANGED <<env, access, disk, drawn, approved, dead, thread, now>>
      BY <1>13 DEF Overreach
    <2>2. IsDict(refresh', Grant, ChainRec) /\ IsDict(kept', Grant, Nat)
      BY <2>1, MarkedRefresh, WithoutIsPart, PartOfDict DEF RelayType
    <2>. QED  BY <2>1, <2>2 DEF RelayType
  <1>14. ASSUME NEW gone \in SUBSET Grant, NEW saved \in BOOLEAN, Register(gone, saved)
         PROVE  RelayType'
    <2>1. UNCHANGED <<env, access, drawn, approved, kept, dead, thread, now>>
      BY <1>14 DEF Register
    <2>2. IsDict(Without(refresh, gone), Grant, ChainRec)
      BY WithoutIsPart, PartOfDict DEF RelayType
    <2>3. IsDict(refresh', Grant, ChainRec) /\ IsDict(disk', Grant, ChainRec)
      BY <1>14, <2>2, PersistType DEF Register, RelayType
    <2>. QED  BY <2>1, <2>3 DEF RelayType
  <1>. QED  BY <1>1, <1>2, <1>3, <1>4, <1>5, <1>6, <1>7, <1>8, <1>9, <1>10, <1>11, <1>12, <1>13, <1>14
            DEF Next

-----------------------------------------------------------------------------
(* How calls are bound.                                                    *)

LEMMA Resolved ==
  ASSUME RelayType, NEW cred, Resolves(cred)
  PROVE  /\ env.mode = "oauth" => cred \in Token /\ ValidBearer(cred)
         /\ env.mode = "mock" => cred = MockToken
  BY DEF Resolves, ValidBearer, RelayType, IsDict

(* A step binds a thread only as Bind does, in a running process.          *)
Binds ==
  \A th \in Thread :
    thread'[th].op = "bound" =>
      \/ thread[th].op = "bound" /\ thread'[th] = thread[th]
      \/ /\ thread[th].op = "read" /\ Resolves(thread[th].cred)
         /\ thread'[th] = [op |-> "bound", cred |-> thread[th].cred, mode |-> env.mode]

LEMMA BindsStep ==
  ASSUME RelayType, [Next]_vars PROVE Binds
  <1>0. thread \in [Thread -> ThreadRec]
    BY DEF RelayType
  <1>1. ASSUME NEW th \in Thread, NEW c \in Credential, Receive(th, c) PROVE Binds
    BY <1>0, <1>1 DEF Receive, Binds
  <1>2. ASSUME NEW th \in Thread, Deny(th) \/ Answer(th) PROVE Binds
    BY <1>0, <1>2 DEF Deny, Answer, Binds, Idle
  <1>3. ASSUME NEW th \in Thread, Bind(th) PROVE Binds
    BY <1>0, <1>3 DEF Bind, Binds
  <1>4. CASE Crash
    BY <1>4 DEF Crash, Binds, Idle
  <1>5. CASE thread' = thread
    BY <1>5 DEF Binds
  <1>6. ASSUME NEW g \in Grant, NEW o \in Outcome, Connect(g, o) \/ Reconnect(g, o)
        PROVE  thread' = thread
    BY <1>6 DEF Connect, Reconnect
  <1>7. ASSUME NEW t \in Token \cup Grant, NEW h \in Hints, NEW o \in Outcome, Revoke(t, h, o)
        PROVE  thread' = thread
    BY <1>7 DEF Revoke
  <1>8. ASSUME NEW s \in Source, OwnerFails(s) \/ OwnerLooks(s) PROVE thread' = thread
    BY <1>8 DEF OwnerFails, OwnerLooks
  <1>9. ASSUME MockSwitch \/ Start \/ Tick \/ UNCHANGED vars PROVE thread' = thread
    BY <1>9 DEF MockSwitch, Start, Tick, vars
  <1>10. ASSUME NEW g \in Grant, Overreach(g) PROVE thread' = thread
    BY <1>10 DEF Overreach
  <1>11. ASSUME NEW gone \in SUBSET Grant, NEW saved \in BOOLEAN, Register(gone, saved)
         PROVE  thread' = thread
    BY <1>11 DEF Register
  <1>. QED  BY <1>1, <1>2, <1>3, <1>4, <1>5, <1>6, <1>7, <1>8, <1>9, <1>10, <1>11 DEF Next

(* The configuration changes only when a process starts, whose threads are *)
(* all idle; a process that is down has no busy thread.                    *)
LEMMA Restarts ==
  ASSUME BoundInv, [Next]_vars
  PROVE  /\ env' = env \/ (~up /\ thread' = thread)
         /\ ~up' => thread' = [th \in Thread |-> Idle]
  <1>0. ASSUME NEW gone \in SUBSET Grant, NEW saved \in BOOLEAN, Register(gone, saved)
        PROVE  env' = env /\ up'
    BY <1>0 DEF Register, Serving
  <1>1. ASSUME NEW g \in Grant, NEW o \in Outcome, Connect(g, o) \/ Reconnect(g, o)
        PROVE  env' = env /\ up'
    BY <1>1 DEF Connect, Reconnect, Redeemable, Serving
  <1>10. ASSUME NEW g \in Grant, Overreach(g) PROVE env' = env /\ up'
    BY <1>10 DEF Overreach, Redeemable, Serving
  <1>2. ASSUME NEW t \in Token \cup Grant, NEW h \in Hints, NEW o \in Outcome, Revoke(t, h, o)
        PROVE  env' = env /\ up'
    BY <1>2 DEF Revoke, Serving
  <1>3. ASSUME NEW th \in Thread, NEW c \in Credential, Receive(th, c) PROVE env' = env /\ up'
    BY <1>3 DEF Receive
  <1>4. ASSUME NEW th \in Thread, Deny(th) \/ Bind(th) \/ Answer(th) PROVE env' = env /\ up'
    BY <1>4 DEF Deny, Bind, Answer
  <1>5. ASSUME NEW s \in Source, OwnerFails(s) \/ OwnerLooks(s) PROVE env' = env /\ up'
    BY <1>5 DEF OwnerFails, OwnerLooks, Serving
  <1>6. CASE MockSwitch
    BY <1>6 DEF MockSwitch
  <1>7. CASE Start
    BY <1>7 DEF Start
  <1>8. CASE Crash
    BY <1>8 DEF Crash
  <1>9. CASE Tick \/ UNCHANGED vars
    BY <1>9 DEF Tick, vars, BoundInv
  <1>. QED  BY <1>0, <1>1, <1>2, <1>3, <1>4, <1>5, <1>6, <1>7, <1>8, <1>9, <1>10 DEF Next

LEMMA BoundStep ==
  ASSUME RelayType, BoundInv, [Next]_vars PROVE BoundInv'
  <1>1. ~up' => thread' = [th \in Thread |-> Idle]
    BY Restarts
  <1>. SUFFICES ASSUME NEW th \in Thread, thread'[th].op = "bound"
                PROVE  /\ thread'[th].mode = env'.mode
                       /\ env'.mode = "oauth" => thread'[th].cred \in Token
                       /\ env'.mode = "mock" => thread'[th].cred = MockToken
    BY <1>1 DEF BoundInv
  <1>2. env' = env
    <2>1. CASE ~up /\ thread' = thread
      BY <2>1 DEF BoundInv, Idle
    <2>. QED  BY <2>1, Restarts
  <1>3. CASE thread[th].op = "bound" /\ thread'[th] = thread[th]
    BY <1>2, <1>3 DEF BoundInv
  <1>4. CASE /\ thread[th].op = "read" /\ Resolves(thread[th].cred)
             /\ thread'[th] = [op |-> "bound", cred |-> thread[th].cred, mode |-> env.mode]
    BY <1>2, <1>4, Resolved
  <1>. QED  BY <1>3, <1>4, BindsStep DEF Binds

-----------------------------------------------------------------------------
(* What becomes of grants.                                                 *)

(* The environments a public grant is acknowledged in keep a file.         *)
LEMMA PublicIsDurable ==
  ASSUME Accepted(env), env.mode = "oauth", Public(env)
  PROVE  env.state_path
  BY DEF Accepted, OAuthAllowed, RequiresDurable, Public

LEMMA MarkedCut ==
  ASSUME NEW K, NEW V, V = AccessRec \/ V = ChainRec, NEW table, IsDict(table, K, V), NEW t
  PROVE  /\ DOMAIN Marked(table, t) = DOMAIN table
         /\ Cut(Marked(table, t), t)
         /\ \A u : Cut(table, u) => Cut(Marked(table, t), u)
  BY DEF IsDict, Marked, Cut, AccessRec, ChainRec

LEMMA DrawnStays ==
  ASSUME RelayType, NEW g \in Grant, drawn' = [drawn EXCEPT ![g] = @ + 1],
         NEW t \in Token \cup Grant, Drawn(t)
  PROVE  Drawn(t)'
  <1>1. \A h \in Grant : drawn[h] \in Nat /\ drawn'[h] \in Nat /\ drawn[h] <= drawn'[h]
    BY RelayAssumption DEF RelayType
  <1>2. CASE t \in Grant
    BY <1>1, <1>2 DEF Drawn
  <1>3. CASE t \notin Grant
    <2>1. t \in Token /\ t[1] \in Grant /\ t[2] \in Int
      BY <1>3, RelayAssumption DEF Token
    <2>. QED  BY <1>1, <1>3, <2>1 DEF Drawn
  <1>. QED  BY <1>2, <1>3

(* What Issue makes of the tables: the chain g is new or renewed, every    *)
(* other entry is one that was there.                                      *)
LEMMA IssueTables ==
  ASSUME RelayType, NEW g \in Grant, NEW r, NEW o, Issue(g, r, o)
  PROVE  /\ DOMAIN access' = DOMAIN access \cup {<<g, drawn[g] + 1>>}
         /\ access'[<<g, drawn[g] + 1>>].resource = r
         /\ \A t \in DOMAIN access : t # <<g, drawn[g] + 1>> => access'[t] = access[t]
         /\ g \in DOMAIN refresh' /\ ~refresh'[g].revoked
         /\ refresh'[g].expires_at = now + REFRESH_TTL /\ refresh'[g].resource = r
         /\ \A h \in DOMAIN refresh' : h # g => h \in DOMAIN refresh /\ refresh'[h] = refresh[h]
         /\ \A h \in DOMAIN refresh : (h # g /\ ~refresh[h].revoked) => h \in DOMAIN refresh'
         /\ drawn' = [drawn EXCEPT ![g] = @ + 1]
         /\ disk' = disk \/ (env.state_path /\ disk' = refresh')
         /\ (env.state_path /\ o # "unsaved") => disk' = refresh'
  <1>. DEFINE rec    == [resource |-> r, expires_at |-> now + REFRESH_TTL, revoked |-> FALSE]
              chains == Put(refresh, g, rec)
  <1>1. Persist(chains, o)
    BY DEF Issue
  <1>2. /\ DOMAIN chains = DOMAIN refresh \cup {g} /\ chains[g] = rec
        /\ \A h \in DOMAIN refresh : h # g => chains[h] = refresh[h]
    BY DEF Put
  <1>3. /\ ~rec.revoked /\ rec.expires_at = now + REFRESH_TTL /\ rec.resource = r
        /\ IsTable(chains)
    BY Tables
  <1>. HIDE DEF chains, rec
  <1>4. /\ DOMAIN refresh' \subseteq DOMAIN chains
        /\ \A h \in DOMAIN refresh' : refresh'[h] = chains[h]
        /\ \A h \in DOMAIN chains : ~chains[h].revoked => h \in DOMAIN refresh'
        /\ disk' = disk \/ (env.state_path /\ disk' = refresh')
        /\ (env.state_path /\ o # "unsaved") => disk' = refresh'
    BY <1>1, <1>3, Persisted, PartOfDict DEF Part
  <1>5. /\ g \in DOMAIN refresh' /\ refresh'[g] = rec
        /\ \A h \in DOMAIN refresh' : h # g => h \in DOMAIN refresh /\ refresh'[h] = refresh[h]
        /\ \A h \in DOMAIN refresh : (h # g /\ ~refresh[h].revoked) => h \in DOMAIN refresh'
    BY <1>2, <1>3, <1>4
  <1>6. /\ DOMAIN access' = DOMAIN access \cup {<<g, drawn[g] + 1>>}
        /\ access'[<<g, drawn[g] + 1>>].resource = r
        /\ \A t \in DOMAIN access : t # <<g, drawn[g] + 1>> => access'[t] = access[t]
        /\ drawn' = [drawn EXCEPT ![g] = @ + 1]
    BY DEF Issue, Put
  <1>. QED  BY <1>3, <1>4, <1>5, <1>6

(* The two ways to be issued a pair.                                       *)
LEMMA Issues ==
  ASSUME NEW g \in Grant, NEW o \in Outcome, Connect(g, o) \/ Reconnect(g, o)
  PROVE  /\ up /\ env.mode = "oauth" /\ UNCHANGED <<env, up, now, dead>>
         /\ \/ /\ drawn[g] = 0 /\ Issue(g, env.resource, o)
               /\ approved' = [approved EXCEPT ![g] = env.resource]
            \/ /\ g \in DOMAIN refresh /\ ~refresh[g].revoked
               /\ Issue(g, refresh[g].resource, o) /\ approved' = approved
         /\ \E r : Issue(g, r, o)
  BY DEF Connect, Reconnect, Redeemable, Serving, Renewed

(* Which steps change the tables.                                          *)
LEMMA TablesStep ==
  ASSUME [Next]_vars
  PROVE  \/ \E g \in Grant, o \in Outcome : Connect(g, o) \/ Reconnect(g, o)
         \/ \E g \in Grant : Overreach(g)
         \/ \E gone \in SUBSET Grant, saved \in BOOLEAN : Register(gone, saved)
         \/ \E t \in Token \cup Grant, h \in Hints, o \in Outcome : Revoke(t, h, o)
         \/ Start \/ Crash \/ Tick
         \/ UNCHANGED <<env, up, tables, now>>
  <1>1. ASSUME NEW th \in Thread, NEW c \in Credential, Receive(th, c)
        PROVE  UNCHANGED <<env, up, tables, now>>
    BY <1>1 DEF Receive
  <1>2. ASSUME NEW th \in Thread, Deny(th) \/ Bind(th) \/ Answer(th)
        PROVE  UNCHANGED <<env, up, tables, now>>
    BY <1>2 DEF Deny, Bind, Answer
  <1>3. ASSUME NEW s \in Source, OwnerFails(s) \/ OwnerLooks(s)
        PROVE  UNCHANGED <<env, up, tables, now>>
    BY <1>3 DEF OwnerFails, OwnerLooks
  <1>4. ASSUME MockSwitch \/ UNCHANGED vars PROVE UNCHANGED <<env, up, tables, now>>
    BY <1>4 DEF MockSwitch, vars
  <1>. QED  BY <1>1, <1>2, <1>3, <1>4 DEF Next

-----------------------------------------------------------------------------
(* What was acknowledged in public is kept.                                *)

(* A step of a running process keeps the invariant if every chain it keeps *)
(* stays alive in memory, or is alive in memory and in the file.           *)
LEMMA KeptAlive ==
  ASSUME RelayType, KeptInv, up, env.mode = "oauth", UNCHANGED <<env, up, now>>,
         disk' = disk \/ (env.state_path /\ disk' = refresh'),
         \A g \in DOMAIN kept' :
           /\ kept'[g] <= now + REFRESH_TTL
           /\ \/ /\ g \in DOMAIN kept /\ kept'[g] = kept[g]
                 /\ (kept[g] >= now /\ Lives(refresh, g, kept[g])) => Lives(refresh', g, kept[g])
              \/ env.state_path /\ disk' = refresh' /\ Lives(refresh', g, kept'[g])
  PROVE  KeptInv'
  <1>. SUFFICES ASSUME NEW g \in DOMAIN kept', kept'[g] >= now
                PROVE  /\ Lives(disk', g, kept'[g])
                       /\ env.state_path => Lives(refresh', g, kept'[g])
    BY DEF KeptInv, Lives
  <1>1. CASE env.state_path /\ disk' = refresh' /\ Lives(refresh', g, kept'[g])
    BY <1>1
  <1>2. CASE /\ g \in DOMAIN kept /\ kept'[g] = kept[g]
             /\ (kept[g] >= now /\ Lives(refresh, g, kept[g])) => Lives(refresh', g, kept[g])
    <2>1. Lives(disk, g, kept[g]) /\ (env.state_path => Lives(refresh, g, kept[g]))
      BY <1>2 DEF KeptInv
    <2>. QED  BY <1>2, <2>1
  <1>. QED  BY <1>1, <1>2

LEMMA IssueKept ==
  ASSUME RelayType, KeptInv, NEW g \in Grant, NEW r, NEW o, Issue(g, r, o),
         up, env.mode = "oauth", UNCHANGED <<env, up, now>>
  PROVE  KeptInv'
  <1>1. /\ g \in DOMAIN refresh' /\ ~refresh'[g].revoked /\ refresh'[g].expires_at = now + REFRESH_TTL
        /\ \A h \in DOMAIN refresh' : h # g => h \in DOMAIN refresh /\ refresh'[h] = refresh[h]
        /\ \A h \in DOMAIN refresh : (h # g /\ ~refresh[h].revoked) => h \in DOMAIN refresh'
        /\ disk' = disk \/ (env.state_path /\ disk' = refresh')
        /\ (env.state_path /\ o # "unsaved") => disk' = refresh'
    BY IssueTables
  <1>2. kept' = IF Public(env) /\ o = "answered" THEN Put(kept, g, now + REFRESH_TTL) ELSE kept
    BY DEF Issue
  <1>3. now + REFRESH_TTL \in Nat /\ \A h \in DOMAIN kept : kept[h] \in Nat
    BY RelayAssumption DEF RelayType, IsDict
  <1>4. \A until \in Nat : until <= now + REFRESH_TTL => Lives(refresh', g, until)
    BY <1>1, <1>3 DEF Lives
  <1>5. \A h \in DOMAIN kept :
          (h # g /\ Lives(refresh, h, kept[h])) => Lives(refresh', h, kept[h])
    BY <1>1 DEF Lives
  <1>6. \A h \in DOMAIN kept :
          /\ kept[h] <= now + REFRESH_TTL
          /\ (kept[h] >= now /\ Lives(refresh, h, kept[h])) => Lives(refresh', h, kept[h])
    BY <1>3, <1>4, <1>5 DEF KeptInv
  <1>7. CASE kept' = kept
    BY <1>1, <1>6, <1>7, KeptAlive
  <1>8. CASE Public(env) /\ o = "answered" /\ kept' = Put(kept, g, now + REFRESH_TTL)
    <2>1. env.state_path
      BY <1>8, PublicIsDurable DEF RelayType
    <2>2. disk' = refresh'
      BY <1>1, <1>8, <2>1
    <2>3. /\ DOMAIN kept' = DOMAIN kept \cup {g} /\ kept'[g] = now + REFRESH_TTL
          /\ \A h \in DOMAIN kept : h # g => kept'[h] = kept[h]
      BY <1>8 DEF Put
    <2>4. Lives(refresh', g, kept'[g]) /\ kept'[g] <= now + REFRESH_TTL
      BY <1>3, <1>4, <2>3
    <2>5. \A h \in DOMAIN kept' :
            /\ kept'[h] <= now + REFRESH_TTL
            /\ \/ /\ h \in DOMAIN kept /\ kept'[h] = kept[h]
                  /\ (kept[h] >= now /\ Lives(refresh, h, kept[h])) => Lives(refresh', h, kept[h])
               \/ env.state_path /\ disk' = refresh' /\ Lives(refresh', h, kept'[h])
      BY <1>6, <2>1, <2>2, <2>3, <2>4
    <2>. QED  BY <1>1, <2>5, KeptAlive
  <1>. QED  BY <1>2, <1>7, <1>8

(* Marking a chain hurts no other, and its own is kept no more.            *)
LEMMA MarkKept ==
  ASSUME RelayType, KeptInv, up, env.mode = "oauth", UNCHANGED <<env, up, now>>,
         NEW t, NEW chains, chains = Marked(refresh, t), Part(refresh', chains),
         \A g \in DOMAIN chains : ~chains[g].revoked => g \in DOMAIN refresh',
         disk' = disk \/ (env.state_path /\ disk' = refresh'),
         kept' = Without(kept, {t} \cap DOMAIN refresh) \/ kept' = Without(kept, {t})
  PROVE  KeptInv'
  <1>1. DOMAIN kept' \subseteq DOMAIN kept /\ \A g \in DOMAIN kept' : kept'[g] = kept[g]
    BY DEF Without
  <1>2. \A g \in DOMAIN kept' : g \in DOMAIN refresh => g # t
    BY DEF Without
  <1>3. /\ DOMAIN chains = DOMAIN refresh
        /\ \A g \in DOMAIN refresh : g # t => chains[g] = refresh[g]
    BY DEF Marked, RelayType, IsDict
  <1>4. \A g \in DOMAIN kept' : Lives(refresh, g, kept[g]) => Lives(refresh', g, kept[g])
    BY <1>2, <1>3, PartOfDict DEF Lives, Part
  <1>5. \A g \in DOMAIN kept' : kept'[g] <= now + REFRESH_TTL
    BY <1>1 DEF KeptInv
  <1>. QED  BY <1>1, <1>4, <1>5, KeptAlive

LEMMA RegisterKept ==
  ASSUME RelayType, KeptInv, NEW gone \in SUBSET Grant, NEW saved \in BOOLEAN, Register(gone, saved)
  PROVE  KeptInv'
  <1>. DEFINE chains == Without(refresh, gone)
  <1>1. /\ gone \subseteq Ended(refresh) /\ up /\ env.mode = "oauth"
        /\ UNCHANGED <<env, up, now, kept>>
        /\ Persist(chains, "answered") \/ (refresh' = chains /\ disk' = disk)
    BY DEF Register, Serving
  <1>2. DOMAIN chains = DOMAIN refresh \ gone /\ \A g \in DOMAIN chains : chains[g] = refresh[g]
    BY WithoutIsPart, PartOfDict
  <1>3. Part(chains, chains) /\ IsTable(chains)
    BY Tables DEF Part, IsTable
  <1>. HIDE DEF chains
  <1>4. /\ DOMAIN refresh' \subseteq DOMAIN chains /\ \A g \in DOMAIN refresh' : refresh'[g] = chains[g]
        /\ \A g \in DOMAIN chains : ~chains[g].revoked => g \in DOMAIN refresh'
        /\ disk' = disk \/ (env.state_path /\ disk' = refresh')
    BY <1>1, <1>3, Persisted, PartOfDict DEF Part
  <1>5. ASSUME NEW g \in DOMAIN kept, kept[g] >= now, Lives(refresh, g, kept[g])
        PROVE  Lives(refresh', g, kept[g])
    <2>1. g \in DOMAIN refresh /\ ~refresh[g].revoked /\ refresh[g].expires_at >= kept[g]
      BY <1>5 DEF Lives
    <2>2. kept[g] \in Nat /\ now \in Nat /\ refresh[g].expires_at \in Nat
      BY <2>1 DEF RelayType, IsDict, ChainRec
    <2>3. ~(refresh[g].expires_at < now)
      BY <1>5, <2>1, <2>2
    <2>4. g \notin gone
      BY <1>1, <2>1, <2>3 DEF Ended
    <2>. QED  BY <1>2, <1>4, <2>1, <2>4 DEF Lives
  <1>6. \A g \in DOMAIN kept : kept[g] <= now + REFRESH_TTL
    BY DEF KeptInv
  <1>. QED  BY <1>1, <1>4, <1>5, <1>6, KeptAlive

LEMMA StartKept ==
  ASSUME RelayType, KeptInv, Start PROVE KeptInv'
  <1>1. /\ DOMAIN disk' \subseteq DOMAIN disk /\ \A g \in DOMAIN disk' : disk'[g] = disk[g]
        /\ \A g \in DOMAIN disk \ Ended(disk) : g \in DOMAIN disk'
        /\ refresh' = disk' \/ ~(env'.mode = "oauth" /\ env'.state_path)
    BY StartedFrom, PartOfDict DEF RelayType, Part
  <1>2. UNCHANGED <<kept, now>>
    BY DEF Start
  <1>3. ASSUME NEW g \in DOMAIN kept, kept[g] >= now PROVE Lives(disk', g, kept[g])
    <2>1. g \in DOMAIN disk /\ ~disk[g].revoked /\ disk[g].expires_at >= kept[g]
      BY <1>3 DEF KeptInv, Lives
    <2>2. kept[g] \in Nat /\ now \in Nat /\ disk[g].expires_at \in Nat
      BY <2>1 DEF RelayType, IsDict, ChainRec
    <2>3. g \notin Ended(disk)
      BY <1>3, <2>1, <2>2 DEF Ended
    <2>. QED  BY <1>1, <2>1, <2>3 DEF Lives
  <1>4. \A g \in DOMAIN kept : kept[g] <= now + REFRESH_TTL
    BY DEF KeptInv
  <1>. QED  BY <1>1, <1>2, <1>3, <1>4 DEF KeptInv, Lives

LEMMA KeptStep ==
  ASSUME RelayType, KeptInv, [Next]_vars PROVE KeptInv'
  <1>1. ASSUME NEW g \in Grant, NEW o \in Outcome, Connect(g, o) \/ Reconnect(g, o) PROVE KeptInv'
    BY <1>1, Issues, IssueKept
  <1>2. ASSUME NEW g \in Grant, Overreach(g) PROVE KeptInv'
    <2>1. /\ up /\ env.mode = "oauth" /\ refresh' = Marked(refresh, g)
          /\ kept' = Without(kept, {g}) /\ UNCHANGED <<env, up, disk, now>>
      BY <1>2 DEF Overreach, Redeemable, Serving
    <2>2. Part(refresh', refresh')
      <3>1. IsDict(Marked(refresh, g), Grant, ChainRec)
        BY MarkedRefresh DEF RelayType
      <3>. QED  BY <2>1, <3>1 DEF Part, IsDict
    <2>. QED  BY <2>1, <2>2, MarkKept
  <1>3. ASSUME NEW gone \in SUBSET Grant, NEW saved \in BOOLEAN, Register(gone, saved) PROVE KeptInv'
    BY <1>3, RegisterKept
  <1>4. ASSUME NEW t \in Token \cup Grant, NEW h \in Hints, NEW o \in Outcome, Revoke(t, h, o)
        PROVE  KeptInv'
    <2>1. /\ up /\ env.mode = "oauth" /\ Persist(Marked(refresh, t), o)
          /\ kept' = Without(kept, {t} \cap DOMAIN refresh) /\ UNCHANGED <<env, up, now>>
      BY <1>4 DEF Revoke, Serving, MarkedWhatever
    <2>2. IsTable(Marked(refresh, t))
      BY MarkedRefresh, Tables DEF RelayType
    <2>. QED  BY <2>1, <2>2, Persisted, MarkKept
  <1>5. CASE Start
    BY <1>5, StartKept
  <1>6. CASE Crash
    <2>1. ~up' /\ UNCHANGED <<disk, kept, now>>
      BY <1>6 DEF Crash
    <2>. QED  BY <2>1 DEF KeptInv, Lives
  <1>7. CASE Tick
    <2>1. now \in Nat /\ now' = now + 1 /\ UNCHANGED <<env, up, refresh, disk, kept>>
      BY <1>7 DEF Tick, tables, RelayType
    <2>2. \A g \in DOMAIN kept : kept[g] \in Nat /\ REFRESH_TTL \in Nat
      BY RelayAssumption DEF RelayType, IsDict
    <2>. QED  BY <2>1, <2>2 DEF KeptInv, Lives
  <1>8. CASE UNCHANGED <<env, up, tables, now>>
    BY <1>8 DEF KeptInv, Lives, tables
  <1>. QED  BY <1>1, <1>2, <1>3, <1>4, <1>5, <1>6, <1>7, <1>8, TablesStep

-----------------------------------------------------------------------------
(* What was revoked stays revoked.                                         *)

(* A pair is issued only for a grant that is not dead, and the access      *)
(* token is new.                                                           *)
LEMMA IssueDead ==
  ASSUME RelayType, DeadInv, NEW g \in Grant, NEW r, NEW o, Issue(g, r, o),
         g \notin dead, dead' = dead
  PROVE  /\ DeadInv'
         /\ \A t \in DOMAIN access' \ DOMAIN access : t[1] = g
  <1>. DEFINE new == <<g, drawn[g] + 1>>
  <1>1. /\ DOMAIN access' = DOMAIN access \cup {new}
        /\ \A t \in DOMAIN access : t # new => access'[t] = access[t]
        /\ \A h \in DOMAIN refresh' : h # g => h \in DOMAIN refresh /\ refresh'[h] = refresh[h]
        /\ drawn' = [drawn EXCEPT ![g] = @ + 1]
        /\ disk' = disk \/ disk' = refresh'
    BY IssueTables
  <1>2. drawn[g] \in Nat /\ drawn[g] < MaxTokens /\ new \in Token /\ new[1] = g
    BY RelayAssumption DEF RelayType, Issue, Token
  <1>3. new \notin dead
    <2>. SUFFICES ASSUME new \in dead PROVE FALSE
      OBVIOUS
    <2>1. new \notin Grant /\ Drawn(new)
      BY <1>2, RelayAssumption DEF DeadInv
    <2>. QED  BY <1>2, <2>1 DEF Drawn
  <1>. HIDE DEF new
  <1>4. \A t \in dead : Cut(access', t) /\ Cut(refresh', t) /\ Cut(disk', t)
    BY <1>1, <1>3 DEF DeadInv, Cut
  <1>5. \A t \in dead : Drawn(t)'
    BY <1>1, DrawnStays DEF DeadInv, RelayType
  <1>. QED  BY <1>1, <1>2, <1>4, <1>5 DEF DeadInv, new

LEMMA ConnectDead ==
  ASSUME RelayType, DeadInv, NEW g \in Grant, NEW o \in Outcome, Connect(g, o) \/ Reconnect(g, o)
  PROVE  DeadInv' /\ \A t \in DOMAIN access' \ DOMAIN access : t[1] \notin dead
  <1>1. dead' = dead /\ \E r : Issue(g, r, o)
    BY Issues
  <1>2. g \notin dead
    <2>1. drawn[g] = 0 \/ (g \in DOMAIN refresh /\ ~refresh[g].revoked)
      BY Issues
    <2>. QED  BY <2>1 DEF DeadInv, Drawn, Cut
  <1>. QED  BY <1>1, <1>2, IssueDead

LEMMA RevokeDead ==
  ASSUME RelayType, DeadInv, NEW t \in Token \cup Grant, NEW h \in Hints, NEW o \in Outcome,
         Revoke(t, h, o)
  PROVE  DeadInv' /\ DOMAIN access' = DOMAIN access
  <1>1. /\ access' = Marked(access, t) /\ Persist(Marked(refresh, t), o) /\ Drawn(t)
        /\ drawn' = drawn
        /\ dead' = IF env.state_path \/ t \notin DOMAIN disk THEN Acknowledged(dead, t, o) ELSE dead
    BY DEF Revoke, MarkedWhatever
  <1>0. IsTable(Marked(refresh, t))
    BY MarkedRefresh, Tables DEF RelayType
  <1>2. /\ DOMAIN access' = DOMAIN access /\ Cut(access', t)
        /\ \A u : Cut(access, u) => Cut(access', u)
    <2>1. IsDict(access, Token, AccessRec)
      BY DEF RelayType
    <2>. QED  BY <1>1, <2>1, MarkedCut
  <1>3. Cut(refresh', t) /\ \A u : Cut(refresh, u) => Cut(refresh', u)
    <2>1. /\ Cut(Marked(refresh, t), t)
          /\ \A u : Cut(refresh, u) => Cut(Marked(refresh, t), u)
      BY MarkedCut DEF RelayType
    <2>. QED  BY <1>0, <1>1, <2>1, Persisted, PartOfDict
  <1>4. /\ disk' = disk \/ disk' = refresh'
        /\ (env.state_path /\ o # "unsaved") => disk' = refresh'
    BY <1>0, <1>1, Persisted
  <1>5. \A u \in dead : Drawn(u)' /\ Cut(access', u) /\ Cut(refresh', u) /\ Cut(disk', u)
    BY <1>1, <1>2, <1>3, <1>4 DEF DeadInv, Drawn
  <1>6. t \in dead' => t \in dead \/ (Drawn(t)' /\ Cut(access', t) /\ Cut(refresh', t) /\ Cut(disk', t))
    <2>1. Drawn(t)'
      BY <1>1 DEF Drawn
    <2>2. t \in dead' /\ t \notin dead => o = "answered" /\ (env.state_path \/ t \notin DOMAIN disk)
      BY <1>1 DEF Acknowledged
    <2>3. t \in dead' /\ t \notin dead => Cut(disk', t)
      BY <1>3, <1>4, <2>2 DEF Cut
    <2>. QED  BY <1>2, <1>3, <2>1, <2>3
  <1>7. \A u \in dead' : u \in dead \/ u = t
    BY <1>1 DEF Acknowledged
  <1>. QED  BY <1>2, <1>5, <1>6, <1>7 DEF DeadInv

(* Entries that go, or are marked, bring nothing back to life.             *)
LEMMA DeadAlone ==
  ASSUME DeadInv, UNCHANGED <<drawn, dead>>,
         \A t : Cut(access, t) => Cut(access', t),
         \A t : (Cut(refresh, t) /\ Cut(disk, t)) => (Cut(refresh', t) /\ Cut(disk', t))
  PROVE  DeadInv'
  BY DEF DeadInv, Drawn

LEMMA DeadStep ==
  ASSUME RelayType, DeadInv, [Next]_vars
  PROVE  DeadInv' /\ \A t \in DOMAIN access' \ DOMAIN access : t[1] \notin dead
  <1>0. \A t : Cut(Empty, t)
    BY DEF Cut, Empty
  <1>1. ASSUME NEW g \in Grant, Overreach(g) PROVE DeadInv' /\ access' = access
    <2>1. refresh' = Marked(refresh, g) /\ UNCHANGED <<access, disk, drawn, dead>>
      BY <1>1 DEF Overreach
    <2>2. \A t : Cut(refresh, t) => Cut(refresh', t)
      BY <2>1, MarkedCut DEF RelayType
    <2>. QED  BY <2>1, <2>2, DeadAlone
  <1>2. ASSUME NEW gone \in SUBSET Grant, NEW saved \in BOOLEAN, Register(gone, saved)
        PROVE  DeadInv' /\ access' = access
    <2>1. /\ Persist(Without(refresh, gone), "answered") \/ (refresh' = Without(refresh, gone) /\ disk' = disk)
          /\ UNCHANGED <<access, drawn, dead>>
      BY <1>2 DEF Register
    <2>2. \A t : Cut(refresh, t) => Cut(refresh', t)
      BY <2>1, Tables, Persisted, WithoutIsPart, PartOfDict
    <2>3. disk' = disk \/ disk' = refresh'
      BY <2>1, Tables, Persisted
    <2>. QED  BY <2>1, <2>2, <2>3, DeadAlone
  <1>3. CASE Start
    <2>1. UNCHANGED <<access, drawn, dead>>
      BY <1>3 DEF Start
    <2>2. \A t : Cut(disk, t) => Cut(disk', t) /\ Cut(refresh', t)
      BY <1>0, <1>3, StartedFrom, PartOfDict DEF RelayType
    <2>. QED  BY <2>1, <2>2, DeadAlone
  <1>4. CASE Crash
    <2>1. UNCHANGED <<disk, drawn, dead>> /\ access' = Empty /\ refresh' = Empty
      BY <1>4 DEF Crash
    <2>2. DeadInv'
      BY <1>0, <2>1, DeadAlone
    <2>3. DOMAIN access' = {}
      BY <2>1 DEF Empty
    <2>. QED  BY <2>2, <2>3
  <1>5. CASE Tick \/ UNCHANGED <<env, up, tables, now>>
    <2>1. UNCHANGED tables
      BY <1>5 DEF Tick
    <2>. QED  BY <2>1, DeadAlone DEF tables
  <1>. QED  BY <1>1, <1>2, <1>3, <1>4, <1>5, ConnectDead, RevokeDead, TablesStep

-----------------------------------------------------------------------------
(* A grant stays with the resource it was approved for.                    *)

LEMMA ApprovalStays ==
  ASSUME RelayType, [Next]_vars, NEW g \in Grant, drawn[g] > 0
  PROVE  drawn'[g] > 0 /\ approved'[g] = approved[g]
  <1>1. ASSUME NEW h \in Grant, NEW o \in Outcome, Connect(h, o) \/ Reconnect(h, o)
        PROVE  drawn'[g] > 0 /\ approved'[g] = approved[g]
    <2>0. drawn' = [drawn EXCEPT ![h] = @ + 1]
      BY <1>1, Issues DEF Issue
    <2>1. drawn' = [drawn EXCEPT ![h] = @ + 1] /\ drawn[g] \in Nat /\ drawn[h] \in Nat
      BY <2>0, RelayAssumption DEF RelayType
    <2>2. approved' = approved \/ (drawn[h] = 0 /\ approved' = [approved EXCEPT ![h] = env.resource])
      BY <1>1, Issues
    <2>. QED  BY <2>1, <2>2 DEF RelayType
  <1>2. CASE UNCHANGED <<drawn, approved>>
    BY <1>2
  <1>3. ASSUME NEW h \in Grant, Overreach(h) PROVE UNCHANGED <<drawn, approved>>
    BY <1>3 DEF Overreach
  <1>4. ASSUME NEW gone \in SUBSET Grant, NEW saved \in BOOLEAN, Register(gone, saved)
        PROVE  UNCHANGED <<drawn, approved>>
    BY <1>4 DEF Register
  <1>5. ASSUME NEW t \in Token \cup Grant, NEW h \in Hints, NEW o \in Outcome, Revoke(t, h, o)
        PROVE  UNCHANGED <<drawn, approved>>
    BY <1>5 DEF Revoke
  <1>6. ASSUME Start \/ Crash \/ Tick \/ UNCHANGED <<env, up, tables, now>>
        PROVE  UNCHANGED <<drawn, approved>>
    BY <1>6 DEF Start, Crash, Tick, tables
  <1>. QED  BY <1>1, <1>2, <1>3, <1>4, <1>5, <1>6, TablesStep

(* The resource of a table's entries, through the steps that issue none.   *)
Resourced(new, old) ==
  DOMAIN new \subseteq DOMAIN old /\ \A t \in DOMAIN new : new[t].resource = old[t].resource

LEMMA MarkedResourced ==
  ASSUME NEW K, NEW V, V = AccessRec \/ V = ChainRec, NEW table, IsDict(table, K, V), NEW t
  PROVE  Resourced(Marked(table, t), table)
  BY DEF Resourced, Marked, IsDict, AccessRec, ChainRec

LEMMA PartResourced ==
  ASSUME NEW part, NEW whole, Part(part, whole)
  PROVE  Resourced(part, whole)
  BY PartOfDict DEF Resourced, Part

LEMMA TablesResourced ==
  ASSUME RelayType, ApprovedInv, [Next]_vars,
         Resourced(access', access),
         Resourced(refresh', refresh) \/ Resourced(refresh', disk),
         disk' = refresh' \/ Resourced(disk', disk)
  PROVE  /\ \A t \in DOMAIN access' : drawn'[t[1]] > 0 /\ access'[t].resource = approved'[t[1]]
         /\ ChainsApproved(refresh)' /\ ChainsApproved(disk)'
  <1>0. /\ \A t \in DOMAIN access : t[1] \in Grant
        /\ \A g \in DOMAIN refresh \cup DOMAIN disk : g \in Grant
    BY DEF RelayType, IsDict, Token
  <1>1. \A t \in DOMAIN access' : drawn'[t[1]] > 0 /\ access'[t].resource = approved'[t[1]]
    BY <1>0, ApprovalStays DEF ApprovedInv, Resourced
  <1>2. ASSUME NEW chains, Resourced(chains, refresh) \/ Resourced(chains, disk)
        PROVE  \A g \in DOMAIN chains : drawn'[g] > 0 /\ chains[g].resource = approved'[g]
    BY <1>0, <1>2, ApprovalStays DEF ApprovedInv, ChainsApproved, Resourced
  <1>. QED  BY <1>1, <1>2 DEF ChainsApproved

LEMMA IssueResourced ==
  ASSUME RelayType, ApprovedInv, [Next]_vars, NEW g \in Grant, NEW o \in Outcome,
         Connect(g, o) \/ Reconnect(g, o)
  PROVE  /\ \A t \in DOMAIN access' : drawn'[t[1]] > 0 /\ access'[t].resource = approved'[t[1]]
         /\ ChainsApproved(refresh)' /\ ChainsApproved(disk)'
  <1>0. /\ \A t \in DOMAIN access : t[1] \in Grant
        /\ \A h \in DOMAIN refresh \cup DOMAIN disk : h \in Grant
    BY DEF RelayType, IsDict, Token
  <1>1. PICK r : Issue(g, r, o) /\ r = approved'[g]
    <2>1. CASE Issue(g, env.resource, o) /\ approved' = [approved EXCEPT ![g] = env.resource]
      BY <2>1 DEF RelayType
    <2>2. CASE Issue(g, refresh[g].resource, o) /\ g \in DOMAIN refresh /\ approved' = approved
      BY <2>2 DEF ApprovedInv, ChainsApproved
    <2>. QED  BY <2>1, <2>2, Issues
  <1>2. /\ DOMAIN access' = DOMAIN access \cup {<<g, drawn[g] + 1>>}
        /\ access'[<<g, drawn[g] + 1>>].resource = r
        /\ \A t \in DOMAIN access : t # <<g, drawn[g] + 1>> => access'[t] = access[t]
        /\ refresh'[g].resource = r
        /\ \A h \in DOMAIN refresh' : h # g => h \in DOMAIN refresh /\ refresh'[h] = refresh[h]
        /\ drawn' = [drawn EXCEPT ![g] = @ + 1]
        /\ disk' = disk \/ disk' = refresh'
    BY <1>1, IssueTables
  <1>3. drawn'[g] > 0
    <2>1. drawn[g] \in Nat /\ drawn'[g] = drawn[g] + 1
      BY <1>2, RelayAssumption DEF RelayType
    <2>. QED  BY <2>1
  <1>4. \A t \in DOMAIN access' : drawn'[t[1]] > 0 /\ access'[t].resource = approved'[t[1]]
    <2>. SUFFICES ASSUME NEW t \in DOMAIN access'
                  PROVE  drawn'[t[1]] > 0 /\ access'[t].resource = approved'[t[1]]
      OBVIOUS
    <2>1. CASE t = <<g, drawn[g] + 1>>
      BY <1>1, <1>2, <1>3, <2>1
    <2>2. CASE t # <<g, drawn[g] + 1>>
      BY <1>0, <1>2, <2>2, ApprovalStays DEF ApprovedInv
    <2>. QED  BY <2>1, <2>2
  <1>5. \A h \in DOMAIN refresh' : drawn'[h] > 0 /\ refresh'[h].resource = approved'[h]
    BY <1>0, <1>1, <1>2, <1>3, ApprovalStays DEF ApprovedInv, ChainsApproved
  <1>6. \A h \in DOMAIN disk : drawn'[h] > 0 /\ disk[h].resource = approved'[h]
    BY <1>0, ApprovalStays DEF ApprovedInv, ChainsApproved
  <1>. QED  BY <1>2, <1>4, <1>5, <1>6 DEF ChainsApproved

LEMMA OtherResourced ==
  ASSUME RelayType, [Next]_vars,
         ~ \E g \in Grant, o \in Outcome : Connect(g, o) \/ Reconnect(g, o)
  PROVE  /\ Resourced(access', access)
         /\ Resourced(refresh', refresh) \/ Resourced(refresh', disk)
         /\ disk' = refresh' \/ Resourced(disk', disk)
  <1>0. \A d : Resourced(d, d) /\ Resourced(Empty, d)
    BY DEF Resourced, Empty
  <1>1. ASSUME NEW g \in Grant, Overreach(g)
        PROVE  Resourced(access', access) /\ Resourced(refresh', refresh) /\ Resourced(disk', disk)
    <2>1. refresh' = Marked(refresh, g) /\ access' = access /\ disk' = disk
      BY <1>1 DEF Overreach
    <2>2. Resourced(refresh', refresh)
      BY <2>1, MarkedResourced DEF RelayType
    <2>. QED  BY <1>0, <2>1, <2>2
  <1>2. ASSUME NEW gone \in SUBSET Grant, NEW saved \in BOOLEAN, Register(gone, saved)
        PROVE  /\ Resourced(access', access) /\ Resourced(refresh', refresh)
               /\ disk' = refresh' \/ Resourced(disk', disk)
    <2>1. /\ Persist(Without(refresh, gone), "answered") \/ (refresh' = Without(refresh, gone) /\ disk' = disk)
          /\ access' = access
      BY <1>2 DEF Register
    <2>2. Resourced(Without(refresh, gone), refresh)
      BY WithoutIsPart, PartResourced
    <2>3. Part(refresh', Without(refresh, gone)) \/ refresh' = Without(refresh, gone)
      BY <2>1, Tables, Persisted
    <2>4. Resourced(refresh', Without(refresh, gone))
      BY <1>0, <2>3, PartResourced
    <2>5. Resourced(refresh', refresh)
      BY <2>2, <2>4 DEF Resourced
    <2>6. disk' = disk \/ disk' = refresh'
      BY <2>1, Tables, Persisted
    <2>. QED  BY <1>0, <2>1, <2>5, <2>6
  <1>3. ASSUME NEW t \in Token \cup Grant, NEW h \in Hints, NEW o \in Outcome, Revoke(t, h, o)
        PROVE  /\ Resourced(access', access) /\ Resourced(refresh', refresh)
               /\ disk' = refresh' \/ Resourced(disk', disk)
    <2>1. access' = Marked(access, t) /\ Persist(Marked(refresh, t), o)
      BY <1>3 DEF Revoke, MarkedWhatever
    <2>2. Resourced(access', access) /\ Resourced(Marked(refresh, t), refresh)
      BY <2>1, MarkedResourced DEF RelayType
    <2>3. IsTable(Marked(refresh, t))
      BY MarkedRefresh, Tables DEF RelayType
    <2>4. Resourced(refresh', Marked(refresh, t)) /\ (disk' = disk \/ disk' = refresh')
      BY <2>1, <2>3, Persisted, PartResourced
    <2>5. Resourced(refresh', refresh)
      BY <2>2, <2>4 DEF Resourced
    <2>. QED  BY <1>0, <2>2, <2>4, <2>5
  <1>4. CASE Start
    <2>1. access' = access
      BY <1>4 DEF Start
    <2>2. Resourced(disk', disk) /\ (refresh' = disk' \/ refresh' = Empty)
      BY <1>4, StartedFrom, PartResourced DEF RelayType
    <2>. QED  BY <1>0, <2>1, <2>2
  <1>5. CASE Crash
    <2>1. access' = Empty /\ refresh' = Empty /\ disk' = disk
      BY <1>5 DEF Crash
    <2>. QED  BY <1>0, <2>1
  <1>6. CASE Tick \/ UNCHANGED <<env, up, tables, now>>
    <2>1. access' = access /\ refresh' = refresh /\ disk' = disk
      BY <1>6 DEF Tick, tables
    <2>. QED  BY <1>0, <2>1
  <1>. QED  BY <1>1, <1>2, <1>3, <1>4, <1>5, <1>6, TablesStep

LEMMA TablesApproved ==
  ASSUME RelayType, ApprovedInv, [Next]_vars
  PROVE  /\ \A t \in DOMAIN access' : drawn'[t[1]] > 0 /\ access'[t].resource = approved'[t[1]]
         /\ ChainsApproved(refresh)' /\ ChainsApproved(disk)'
  <1>1. CASE \E g \in Grant, o \in Outcome : Connect(g, o) \/ Reconnect(g, o)
    BY <1>1, IssueResourced
  <1>2. CASE ~ \E g \in Grant, o \in Outcome : Connect(g, o) \/ Reconnect(g, o)
    BY <1>2, OtherResourced, TablesResourced
  <1>. QED  BY <1>1, <1>2

LEMMA ApprovedStep ==
  ASSUME RelayType, BoundInv, ApprovedInv, [Next]_vars PROVE ApprovedInv'
  <1>1. ASSUME NEW th \in Thread, thread'[th].op = "bound", thread'[th].cred \in Token
        PROVE  drawn'[thread'[th].cred[1]] > 0 /\ approved'[thread'[th].cred[1]] = env'.resource
    <2>1. env' = env
      <3>1. CASE ~up /\ thread' = thread
        BY <1>1, <3>1 DEF BoundInv, Idle
      <3>. QED  BY <3>1, Restarts
    <2>2. thread'[th].cred[1] \in Grant
      BY <1>1 DEF Token
    <2>3. CASE thread[th].op = "bound" /\ thread'[th] = thread[th]
      BY <1>1, <2>1, <2>2, <2>3, ApprovalStays DEF ApprovedInv
    <2>4. CASE /\ Resolves(thread[th].cred)
               /\ thread'[th] = [op |-> "bound", cred |-> thread[th].cred, mode |-> env.mode]
      <3>1. thread'[th].cred = thread[th].cred
        BY <2>4
      <3>2. thread[th].cred # MockToken
        BY <1>1, <3>1 DEF MockToken, Token
      <3>3. thread[th].cred \in DOMAIN access /\ access[thread[th].cred].resource = env.resource
        BY <2>4, <3>2 DEF Resolves, ValidBearer
      <3>. QED  BY <2>1, <2>2, <3>1, <3>3, ApprovalStays DEF ApprovedInv
    <2>. QED  BY <1>1, <2>3, <2>4, BindsStep DEF Binds
  <1>. QED  BY <1>1, TablesApproved DEF ApprovedInv

-----------------------------------------------------------------------------
(* What the limiter's operators do.                                        *)

LEMMA LeastNatural ==
  ASSUME NEW S \in SUBSET Nat, S # {}
  PROVE  \E m \in S : \A n \in S : m <= n
  <1>. DEFINE less == {ss \in Nat \X Nat : ss[1] < ss[2]}
  <1>1. IsWellFoundedOn(less, Nat)
    BY NatLessThanWellFounded DEF OpToRel
  <1>2. \A m, n \in Nat : n < m => <<n, m>> \in less
    OBVIOUS
  <1>. HIDE DEF less
  <1>3. PICK m \in S : \A n \in S : ~ (<<n, m>> \in less)
    BY <1>1, WFMin
  <1>4. ASSUME NEW n \in S PROVE m <= n
    <2>1. ~(n < m)
      BY <1>2, <1>3, Zenon
    <2>. QED  BY <2>1
  <1>. QED  BY <1>4

(* Pruning keeps a tail that starts within the window, and drops only what *)
(* is older.                                                               *)
LEMMA WithinFacts ==
  ASSUME NEW b \in Seq(Nat), NEW ts \in Nat
  PROVE  LET w == Within(b, ts)
         IN  /\ w \in Seq(Nat)
             /\ IsTail(w, b)
             /\ \A i \in 1 .. Len(b) - Len(w) : b[i] < ts - WINDOW
             /\ w # <<>> => Len(w) \in Nat \ {0} /\ w[1] >= ts - WINDOW
  <1>. DEFINE w     == Within(b, ts)
              fresh == {n \in DOMAIN b : b[n] >= ts - WINDOW}
              first == CHOOSE n \in fresh : \A m \in fresh : n <= m
  <1>0. WINDOW \in Nat /\ DOMAIN b = 1 .. Len(b) /\ Len(b) \in Nat
        /\ \A i \in 1 .. Len(b) : b[i] \in Nat
    BY LimitAssumption
  <1>1. CASE fresh = {}
    <2>1. w = <<>> /\ Len(w) = 0
      BY <1>1 DEF Within
    <2>2. \A i \in 1 .. Len(b) : b[i] < ts - WINDOW
      BY <1>0, <1>1
    <2>. HIDE DEF w, fresh
    <2>3. IsTail(w, b) /\ w \in Seq(Nat)
      BY <2>1, <1>0 DEF IsTail
    <2>. QED  BY <2>1, <2>2, <2>3, <1>0 DEF w
  <1>2. CASE fresh # {}
    <2>1. fresh \in SUBSET Nat
      BY <1>0
    <2>2. \E n \in fresh : \A m \in fresh : n <= m
      <3>. HIDE DEF fresh
      <3>. QED  BY <1>2, <2>1, LeastNatural
    <2>3. first \in fresh /\ \A m \in fresh : first <= m
      <3>. HIDE DEF fresh
      <3>. QED  BY <2>2
    <2>4. w = SubSeq(b, first, Len(b))
      BY <1>2 DEF Within
    <2>. HIDE DEF first
    <2>5. first \in 1 .. Len(b) /\ b[first] >= ts - WINDOW
          /\ \A i \in 1 .. Len(b) : i < first => b[i] < ts - WINDOW
      BY <1>0, <2>3
    <2>. HIDE DEF fresh, w
    <2>6. /\ w \in Seq(Nat)
          /\ Len(w) = Len(b) - first + 1
          /\ \A i \in 1 .. Len(w) : w[i] = b[first + i - 1]
      BY <1>0, <2>4, <2>5
    <2>7. IsTail(w, b)
      <3>1. \A i \in 1 .. Len(w) : Len(b) - Len(w) + i = first + i - 1
        BY <1>0, <2>5, <2>6
      <3>. QED  BY <1>0, <2>5, <2>6, <3>1 DEF IsTail
    <2>8. w[1] = b[first]
      <3>1. 1 \in 1 .. Len(w) /\ first + 1 - 1 = first
        BY <1>0, <2>5, <2>6
      <3>2. w[1] = b[first + 1 - 1]
        BY <2>6, <3>1
      <3>. QED  BY <3>1, <3>2
    <2>9. ASSUME NEW i \in 1 .. Len(b) - Len(w) PROVE b[i] < ts - WINDOW
      <3>1. i \in 1 .. Len(b) /\ i < first
        BY <1>0, <2>5, <2>6
      <3>. QED  BY <2>5, <3>1
    <2>. QED  BY <1>0, <2>5, <2>6, <2>7, <2>8, <2>9 DEF w
  <1>. QED  BY <1>1, <1>2

LEMMA TailOfTail ==
  ASSUME NEW a \in Seq(Nat), NEW b \in Seq(Nat), NEW c \in Seq(Nat), IsTail(a, b), IsTail(b, c)
  PROVE  IsTail(a, c)
  <1>1. Len(a) \in Nat /\ Len(b) \in Nat /\ Len(c) \in Nat /\ Len(a) <= Len(c)
    BY DEF IsTail
  <1>2. ASSUME NEW i \in 1 .. Len(a) PROVE a[i] = c[Len(c) - Len(a) + i]
    <2>1. Len(b) - Len(a) + i \in 1 .. Len(b) /\ a[i] = b[Len(b) - Len(a) + i]
      BY <1>1 DEF IsTail
    <2>2. b[Len(b) - Len(a) + i] = c[Len(c) - Len(b) + (Len(b) - Len(a) + i)]
      BY <2>1 DEF IsTail
    <2>3. Len(c) - Len(b) + (Len(b) - Len(a) + i) = Len(c) - Len(a) + i
      BY <1>1
    <2>. QED  BY <2>1, <2>2, <2>3
  <1>. QED  BY <1>1, <1>2 DEF IsTail

(* What pruning newly drops from the last failures is old.                 *)
LEMMA NewlyDropped ==
  ASSUME NEW n \in Int, NEW l \in Int, NEW k \in Int, NEW w \in Int,
         n \in 1 .. l - w, ~(n \in 1 .. l - k)
  PROVE  \E i \in 1 .. k - w : n = l - k + i
  <1>1. n - l + k \in 1 .. k - w /\ n = l - k + (n - l + k)
    OBVIOUS
  <1>. QED  BY <1>1

LEMMA DroppedIsOld ==
  ASSUME NEW b \in Seq(Nat), NEW c \in Seq(Nat), IsTail(b, c), NEW ts \in Nat, NEW n \in Int,
         n \in 1 .. Len(c) - Len(Within(b, ts)), ~(n \in 1 .. Len(c) - Len(b))
  PROVE  c[n] < ts - WINDOW
  <1>1. PICK w \in Seq(Nat) :
          /\ w = Within(b, ts)
          /\ \A i \in 1 .. Len(b) - Len(w) : b[i] < ts - WINDOW
    BY WithinFacts
  <1>2. Len(b) \in Int /\ Len(c) \in Int /\ Len(w) \in Int /\ n \in 1 .. Len(c) - Len(w)
    BY <1>1
  <1>3. PICK i \in 1 .. Len(b) - Len(w) : n = Len(c) - Len(b) + i
    <2>1. \A l, k, m \in Int :
            (n \in 1 .. l - m /\ ~(n \in 1 .. l - k)) => \E i \in 1 .. k - m : n = l - k + i
      BY NewlyDropped
    <2>. QED  BY <1>2, <2>1, Zenon
  <1>4. c[n] = b[i]
    <2>1. i \in 1 .. Len(b)
      BY <1>2
    <2>. QED  BY <1>3, <2>1 DEF IsTail
  <1>. QED  BY <1>1, <1>4

(* Pruning some buckets leaves a table that holds the last failures of its *)
(* sources, has forgotten nothing recent, and starts within the window.    *)
LEMMA PrunedHolds ==
  ASSUME LogInv, now \in Nat, NEW table, NEW S, HoldsLast(table), Justified(table)
  PROVE  LET left == Pruned(table, S, now)
         IN  /\ DOMAIN left \subseteq DOMAIN table
             /\ HoldsLast(left) /\ Justified(left)
             /\ \A s \in DOMAIN left : Len(left[s]) <= Len(table[s])
             /\ \A s \in DOMAIN left \cap S : left[s][1] >= now - WINDOW
  <1>. DEFINE left == Pruned(table, S, now)
  <1>0. WINDOW \in Nat /\ MAX_EVENTS \in Nat
    BY LimitAssumption
  <1>1. /\ DOMAIN left = {s \in DOMAIN table : s \in S => Within(table[s], now) # <<>>}
        /\ \A s \in DOMAIN left : left[s] = IF s \in S THEN Within(table[s], now) ELSE table[s]
    BY DEF Pruned
  <1>. HIDE DEF left
  <1>2. ASSUME NEW s \in DOMAIN table
        PROVE  /\ s \in Source /\ log[s] \in Seq(Nat) /\ table[s] \in Seq(Nat)
               /\ Len(table[s]) \in 1 .. MAX_EVENTS
               /\ IsTail(table[s], log[s])
    BY DEF HoldsLast, LogInv
  <1>3. ASSUME NEW s \in DOMAIN left
        PROVE  /\ left[s] \in Seq(Nat) /\ Len(left[s]) \in 1 .. MAX_EVENTS
               /\ IsTail(left[s], log[s]) /\ Len(left[s]) <= Len(table[s])
               /\ s \in S => left[s][1] >= now - WINDOW
    <2>1. s \in DOMAIN table
      BY <1>1
    <2>2. CASE s \notin S
      BY <1>0, <1>1, <1>2, <2>1, <2>2
    <2>3. CASE s \in S
      <3>1. left[s] = Within(table[s], now) /\ left[s] # <<>>
        BY <1>1, <2>3
      <3>2. /\ left[s] \in Seq(Nat) /\ IsTail(left[s], table[s])
            /\ Len(left[s]) \in Nat \ {0} /\ left[s][1] >= now - WINDOW
        BY <1>2, <2>1, <3>1, WithinFacts
      <3>3. Len(left[s]) <= Len(table[s])
        BY <3>2 DEF IsTail
      <3>4. IsTail(left[s], log[s])
        BY <1>2, <2>1, <3>2, TailOfTail
      <3>. QED  BY <1>0, <1>2, <2>1, <3>2, <3>3, <3>4
    <2>. QED  BY <2>2, <2>3
  <1>4. HoldsLast(left)
    BY <1>1, <1>2, <1>3 DEF HoldsLast
  <1>5. Justified(left)
    <2>. SUFFICES ASSUME NEW s \in Source, NEW n \in 1 .. Len(log[s]) - Len(Bucket(left, s)),
                         ~(n \in 1 .. Len(log[s]) - Len(Bucket(table, s)))
                  PROVE  Excused(log[s][n])
      BY DEF Justified
    <2>0. log[s] \in Seq(Nat) /\ Len(log[s]) \in Nat
      BY DEF LogInv
    <2>1. s \in DOMAIN table /\ s \in S
      <3>1. CASE s \notin DOMAIN table
        BY <1>1, <3>1 DEF Bucket
      <3>2. CASE s \in DOMAIN table /\ s \notin S
        BY <1>1, <3>2 DEF Bucket
      <3>. QED  BY <3>1, <3>2
    <2>2. Bucket(table, s) = table[s] /\ Bucket(left, s) = Within(table[s], now)
      BY <1>1, <2>1 DEF Bucket
    <2>3. n \in Int
      OBVIOUS
    <2>4. log[s][n] < now - WINDOW
      BY <1>2, <2>1, <2>2, <2>3, DroppedIsOld
    <2>. QED  BY <2>4 DEF Excused
  <1>. QED  BY <1>1, <1>3, <1>4, <1>5 DEF left

-----------------------------------------------------------------------------
(* The clock and the log only grow, and so does what excuses forgetting.   *)

LEMMA CrowdFinite ==
  ASSUME LogInv, NEW e PROVE IsFiniteSet(Crowd(e))
  <1>1. Crowd(e) \subseteq Busy
    BY DEF Crowd, Busy, LogInv
  <1>. QED  BY <1>1, FS_Subset DEF LogInv

LEMMA StillExcused ==
  ASSUME LogInv, LogInv', now \in Nat, now' \in Nat, now <= now',
         \A u \in Source : /\ Len(log[u]) <= Len(log'[u])
                           /\ \A m \in 1 .. Len(log[u]) : log'[u][m] = log[u][m],
         NEW t \in Nat, Excused(t)
  PROVE  Excused(t)'
  <1>0. WINDOW \in Nat /\ MAX_SOURCES \in Nat
    BY LimitAssumption
  <1>1. CASE t < now - WINDOW
    <2>1. t < now' - WINDOW
      BY <1>0, <1>1
    <2>. QED  BY <2>1 DEF Excused
  <1>2. CASE \E e \in t .. now : Cardinality(Crowd(e)) > MAX_SOURCES
    <2>1. PICK e \in t .. now : Cardinality(Crowd(e)) > MAX_SOURCES
      BY <1>2
    <2>2. Crowd(e) \subseteq Crowd(e)'
      <3>1. \A u \in Source : Len(log[u]) \in Nat /\ Len(log'[u]) \in Nat
        BY DEF LogInv
      <3>. QED  BY <3>1 DEF Crowd
    <2>3. IsFiniteSet(Crowd(e)')
      <3>1. Crowd(e)' \subseteq Busy'
        BY DEF Crowd, Busy, LogInv
      <3>. QED  BY <3>1, FS_Subset DEF LogInv
    <2>. DEFINE before == Crowd(e)
                after  == Crowd(e)'
    <2>. HIDE DEF before, after
    <2>4. IsFiniteSet(before) /\ IsFiniteSet(after) /\ before \subseteq after
          /\ Cardinality(before) > MAX_SOURCES
      BY <2>1, <2>2, <2>3, CrowdFinite DEF before, after
    <2>5. Cardinality(after) > MAX_SOURCES
      BY <1>0, <2>4, FS_Subset, FS_CardinalityType
    <2>6. e \in t .. now'
      BY <2>1
    <2>. QED  BY <2>5, <2>6 DEF Excused, after
  <1>. QED  BY <1>1, <1>2 DEF Excused

(* A look at the table, and steps that leave the limiter alone.            *)
LEMMA LookedHolds ==
  ASSUME LimitInv, now \in Nat, NEW s
  PROVE  LET left == Looked(failed, s, now)
         IN  Few(DOMAIN left) /\ HoldsLast(left) /\ Justified(left)
  <1>1. LET left == Looked(failed, s, now)
        IN  DOMAIN left \subseteq DOMAIN failed /\ HoldsLast(left) /\ Justified(left)
    BY PrunedHolds DEF Looked, LimitInv
  <1>2. Few(DOMAIN failed)
    BY DEF LimitInv
  <1>. DEFINE left == Looked(failed, s, now)
  <1>. HIDE DEF left
  <1>3. DOMAIN left \subseteq DOMAIN failed /\ HoldsLast(left) /\ Justified(left)
    BY <1>1 DEF left
  <1>4. Few(DOMAIN left)
    BY <1>2, <1>3, FS_Subset, FS_CardinalityType, LimitAssumption DEF Few
  <1>. QED  BY <1>3, <1>4 DEF left

LEMMA OnlyTime ==
  ASSUME LogInv, log' = log, now \in Nat, now' \in Nat, now <= now',
         NEW left, failed' = left, Few(DOMAIN left), HoldsLast(left), Justified(left)
  PROVE  LimitInv'
  <1>1. LogInv'
    <2>1. \A s \in Source : \A n \in 1 .. Len(log[s]) : log[s][n] <= now'
      BY DEF LogInv
    <2>. QED  BY <2>1 DEF LogInv, Busy
  <1>2. HoldsLast(failed)' /\ Few(DOMAIN failed)'
    BY DEF HoldsLast, Few
  <1>3. ASSUME NEW s \in Source, NEW n \in 1 .. Len(log[s]) - Len(Bucket(left, s))
        PROVE  Excused(log[s][n])'
    <2>1. Excused(log[s][n])
      BY DEF Justified
    <2>2. /\ log[s] \in Seq(Nat)
          /\ Len(log[s]) \in Nat /\ Len(Bucket(left, s)) \in Nat
          /\ \A u \in Source : Len(log[u]) \in Nat
      <3>1. s \in DOMAIN left => left[s] \in Seq(Nat)
        BY DEF HoldsLast
      <3>. QED  BY <3>1 DEF LogInv, Bucket
    <2>3. PICK t \in Nat : t = log[s][n]
      BY <2>2
    <2>4. Excused(t)'
      BY <1>1, <2>1, <2>2, <2>3, StillExcused
    <2>. QED  BY <2>3, <2>4
  <1>4. Justified(failed)'
    BY <1>3 DEF Justified, Bucket
  <1>. QED  BY <1>1, <1>2, <1>4 DEF LimitInv

LEMMA LookStep ==
  ASSUME LimitInv, now \in Nat, NEW s, failed' = Looked(failed, s, now), log' = log, now' = now
  PROVE  LimitInv'
  <1>1. PICK left : left = Looked(failed, s, now)
    OBVIOUS
  <1>2. Few(DOMAIN left) /\ HoldsLast(left) /\ Justified(left)
    BY <1>1, LookedHolds
  <1>. QED  BY <1>1, <1>2, OnlyTime DEF LimitInv

LEMMA LimitAlone ==
  ASSUME LimitInv, now \in Nat, now' \in Nat, now <= now', UNCHANGED limits
  PROVE  LimitInv'
  <1>1. PICK left : left = failed
    OBVIOUS
  <1>2. failed' = left /\ log' = log
    BY <1>1 DEF limits
  <1>. QED  BY <1>1, <1>2, OnlyTime DEF LimitInv

-----------------------------------------------------------------------------
LEMMA AppendTail ==
  ASSUME NEW b \in Seq(Nat), NEW c \in Seq(Nat), IsTail(b, c), NEW t \in Nat
  PROVE  IsTail(Append(b, t), Append(c, t))
  <1>1. Append(b, t) \in Seq(Nat) /\ Append(c, t) \in Seq(Nat)
    OBVIOUS
  <1>2. PICK a \in Seq(Nat), d \in Seq(Nat) : a = Append(b, t) /\ d = Append(c, t)
    BY <1>1
  <1>3. /\ Len(a) = Len(b) + 1 /\ Len(d) = Len(c) + 1
        /\ a[Len(b) + 1] = t /\ d[Len(c) + 1] = t
        /\ \A i \in 1 .. Len(b) : a[i] = b[i]
        /\ \A i \in 1 .. Len(c) : d[i] = c[i]
    BY <1>2
  <1>4. /\ Len(b) \in Nat /\ Len(c) \in Nat /\ Len(b) <= Len(c)
        /\ Len(a) = Len(b) + 1 /\ Len(d) = Len(c) + 1
    BY <1>2 DEF IsTail
  <1>5. ASSUME NEW i \in 1 .. Len(a) PROVE a[i] = d[Len(d) - Len(a) + i]
    <2>0. i \in Nat /\ i <= Len(b) + 1 /\ 1 <= i /\ Len(d) - Len(a) + i = Len(c) - Len(b) + i
      BY <1>4
    <2>1. CASE i = Len(b) + 1
      <3>1. Len(c) - Len(b) + i = Len(c) + 1
        BY <1>4, <2>1
      <3>. QED  BY <1>3, <2>0, <2>1, <3>1
    <2>2. CASE i <= Len(b)
      <3>1. i \in 1 .. Len(b) /\ Len(c) - Len(b) + i \in 1 .. Len(c)
        BY <1>4, <2>0, <2>2
      <3>2. b[i] = c[Len(c) - Len(b) + i]
        BY <3>1 DEF IsTail
      <3>. QED  BY <1>3, <2>0, <3>1, <3>2
    <2>. QED  BY <1>4, <2>0, <2>1, <2>2
  <1>6. Len(a) <= Len(d)
    BY <1>4
  <1>7. IsTail(a, d)
    BY <1>5, <1>6 DEF IsTail
  <1>. QED  BY <1>2, <1>7

(* A failure is logged.                                                    *)
LEMMA LogGrows ==
  ASSUME LogInv, now \in Nat, now' = now, NEW s \in Source, log' = [log EXCEPT ![s] = Append(@, now)]
  PROVE  /\ LogInv'
         /\ log'[s] = Append(log[s], now)
         /\ Len(log'[s]) = Len(log[s]) + 1
         /\ log'[s][Len(log[s]) + 1] = now
         /\ \A u \in Source :
              /\ u # s => log'[u] = log[u]
              /\ Len(log[u]) \in Nat /\ Len(log[u]) <= Len(log'[u])
              /\ \A m \in 1 .. Len(log[u]) : log'[u][m] = log[u][m]
  <1>0. /\ log[s] \in Seq(Nat) /\ log \in [Source -> Seq(Nat)]
        /\ \A u \in Source : Len(log[u]) \in Nat
    BY DEF LogInv
  <1>1. /\ log'[s] = Append(log[s], now)
        /\ \A u \in Source : u # s => log'[u] = log[u]
        /\ log' \in [Source -> Seq(Nat)]
    BY <1>0
  <1>2. /\ Len(log'[s]) = Len(log[s]) + 1
        /\ log'[s][Len(log[s]) + 1] = now
        /\ \A n \in 1 .. Len(log[s]) : log'[s][n] = log[s][n]
    BY <1>0, <1>1
  <1>3. ASSUME NEW u \in Source, NEW n \in 1 .. Len(log'[u]) PROVE log'[u][n] <= now'
    <2>1. CASE u # s
      BY <1>1, <2>1 DEF LogInv
    <2>2. CASE u = s
      BY <1>0, <1>2, <2>2 DEF LogInv
    <2>. QED  BY <2>1, <2>2
  <1>4. IsFiniteSet(Busy')
    <2>1. Busy' \subseteq Busy \cup {s}
      BY <1>1 DEF Busy
    <2>. QED  BY <2>1, FS_AddElement, FS_Subset DEF LogInv
  <1>5. LogInv'
    BY <1>1, <1>3, <1>4 DEF LogInv
  <1>. QED  BY <1>0, <1>1, <1>2, <1>5

(* What a table has forgotten of a source.                                 *)
Forgotten(table, u) == 1 .. Len(log[u]) - Len(Bucket(table, u))

LEMMA ForgottenExcused ==
  ASSUME NEW table, Justified(table), NEW u \in Source, NEW n \in Forgotten(table, u),
         NEW t, t = log[u][n]
  PROVE  Excused(t)
  <1>1. Excused(log[u][n])
    BY DEF Justified, Forgotten
  <1>. QED  BY <1>1

LEMMA ForgottenOfNone ==
  ASSUME LogInv, NEW table, NEW u \in Source, u \notin DOMAIN table,
         NEW n \in Forgotten(table, u), NEW t, t = log[u][n]
  PROVE  t <= now
  <1>1. log[u] \in Seq(Nat) /\ Bucket(table, u) = <<>>
    BY DEF LogInv, Bucket
  <1>2. n \in 1 .. Len(log[u])
    BY <1>1 DEF Forgotten
  <1>. QED  BY <1>2 DEF LogInv

LEMMA FewMore ==
  ASSUME NEW S, Few(S), NEW s, s \in S \/ Cardinality(S) < MAX_SOURCES
  PROVE  Few(S \cup {s})
  <1>1. CASE s \in S
    <2>1. S \cup {s} = S
      BY <1>1
    <2>. QED  BY <2>1
  <1>2. CASE s \notin S
    <2>1. IsFiniteSet(S \cup {s}) /\ Cardinality(S \cup {s}) = Cardinality(S) + 1
      BY <1>2, FS_AddElement DEF Few
    <2>2. Cardinality(S) \in Nat /\ MAX_SOURCES \in Nat
      BY FS_CardinalityType, LimitAssumption DEF Few
    <2>. QED  BY <1>2, <2>1, <2>2 DEF Few
  <1>. QED  BY <1>1, <1>2

(* A failure is recorded in a table that has room for its source.          *)
LEMMA AppendedHolds ==
  ASSUME LogInv, now \in Nat, now' = now, NEW s \in Source, NEW table,
         log' = [log EXCEPT ![s] = Append(@, now)], failed' = Appended(table, s, now),
         HoldsLast(table), Few(DOMAIN table \cup {s}),
         s \in DOMAIN table => Len(table[s]) < MAX_EVENTS,
         \A u \in Source : \A n \in Forgotten(table, u) :
           \A t \in Nat : t = log[u][n] => Excused(t)'
  PROVE  LimitInv'
  <1>0. MAX_EVENTS \in Nat \ {0} /\ log[s] \in Seq(Nat)
    BY LimitAssumption DEF LogInv
  <1>1. /\ LogInv'
        /\ log'[s] = Append(log[s], now)
        /\ Len(log'[s]) = Len(log[s]) + 1
        /\ \A u \in Source :
             /\ u # s => log'[u] = log[u]
             /\ Len(log[u]) \in Nat
             /\ \A m \in 1 .. Len(log[u]) : log'[u][m] = log[u][m]
    BY LogGrows
  <1>4. /\ DOMAIN failed' = DOMAIN table \cup {s}
        /\ \A u \in DOMAIN table : u # s => failed'[u] = table[u]
        /\ failed'[s] = Append(Bucket(table, s), now)
    BY DEF Appended, Bucket
  <1>5. /\ Bucket(table, s) \in Seq(Nat) /\ Len(Bucket(table, s)) \in Nat
        /\ Len(Bucket(table, s)) < MAX_EVENTS
        /\ IsTail(Bucket(table, s), log[s])
    <2>1. CASE s \in DOMAIN table
      BY <2>1 DEF HoldsLast, Bucket
    <2>2. CASE s \notin DOMAIN table
      BY <1>0, <2>2 DEF Bucket, IsTail
    <2>. QED  BY <2>1, <2>2
  <1>6. IsTail(failed'[s], log'[s]) /\ Len(failed'[s]) = Len(Bucket(table, s)) + 1
        /\ failed'[s] \in Seq(Nat)
    BY <1>0, <1>1, <1>4, <1>5, AppendTail
  <1>7. HoldsLast(failed)'
    <2>1. ASSUME NEW u \in DOMAIN failed'
          PROVE  /\ failed'[u] \in Seq(Nat)
                 /\ Len(failed'[u]) \in 1 .. MAX_EVENTS
                 /\ IsTail(failed'[u], log'[u])
      <3>1. CASE u = s
        BY <1>0, <1>5, <1>6, <3>1
      <3>2. CASE u # s
        <4>1. u \in DOMAIN table /\ u \in Source /\ failed'[u] = table[u] /\ log'[u] = log[u]
          BY <1>1, <1>4, <3>2 DEF HoldsLast
        <4>. QED  BY <4>1 DEF HoldsLast
      <3>. QED  BY <3>1, <3>2
    <2>2. DOMAIN failed' \subseteq Source
      BY <1>4 DEF HoldsLast
    <2>. QED  BY <2>1, <2>2 DEF HoldsLast
  <1>8. Justified(failed)'
    <2>. SUFFICES ASSUME NEW u \in Source, NEW n \in 1 .. Len(log'[u]) - Len(Bucket(failed', u))
                  PROVE  Excused(log[u][n])'
      BY DEF Justified, Bucket
    <2>1. n \in 1 .. Len(log[u]) - Len(Bucket(table, u)) /\ log'[u][n] = log[u][n]
      <3>1. CASE u # s
        BY <1>1, <1>4, <3>1 DEF Bucket
      <3>2. CASE u = s
        <4>1. Bucket(failed', s) = failed'[s]
          BY <1>4 DEF Bucket
        <4>2. n \in 1 .. Len(log[s]) - Len(Bucket(table, s))
          BY <1>0, <1>1, <1>5, <1>6, <3>2, <4>1
        <4>3. n \in 1 .. Len(log[s])
          BY <1>1, <1>5, <4>2
        <4>. QED  BY <1>1, <3>2, <4>2, <4>3
      <3>. QED  BY <3>1, <3>2
    <2>2. n \in 1 .. Len(log[u])
      <3>1. u \in DOMAIN table => table[u] \in Seq(Nat)
        BY DEF HoldsLast
      <3>2. Len(Bucket(table, u)) \in Nat
        BY <3>1 DEF Bucket
      <3>. QED  BY <1>1, <2>1, <3>2
    <2>3. PICK t \in Nat : t = log[u][n]
      BY <2>2 DEF LogInv
    <2>4. n \in Forgotten(table, u)
      BY <2>1 DEF Forgotten
    <2>5. Excused(t)'
      BY <2>3, <2>4
    <2>. QED  BY <2>1, <2>3, <2>5
  <1>9. Few(DOMAIN failed)'
    BY <1>4 DEF Few
  <1>. QED  BY <1>1, <1>7, <1>8, <1>9 DEF LimitInv

(* A full table that gives a place away is the sign of a crowd: each of    *)
(* its sources, and the one that comes, has failed within the window.      *)
LEMMA FullTableIsCrowd ==
  ASSUME LogInv, now \in Nat, now' = now, NEW s \in Source,
         log' = [log EXCEPT ![s] = Append(@, now)],
         NEW table, HoldsLast(table), Few(DOMAIN table),
         \A u \in DOMAIN table : table[u][1] >= now - WINDOW,
         s \notin DOMAIN table, ~(Cardinality(DOMAIN table) < MAX_SOURCES),
         NEW t \in Nat, t <= now
  PROVE  Excused(t)'
  <1>0. WINDOW \in Nat /\ MAX_SOURCES \in Nat
    BY LimitAssumption
  <1>1. /\ LogInv'
        /\ Len(log'[s]) = Len(log[s]) + 1
        /\ log'[s][Len(log[s]) + 1] = now
        /\ \A u \in Source :
             /\ u # s => log'[u] = log[u]
             /\ Len(log[u]) \in Nat
    BY LogGrows
  <1>2. PICK e \in Nat : e = now
    OBVIOUS
  <1>3. ASSUME NEW u \in DOMAIN table PROVE u \in Crowd(e)'
    <2>1. /\ u \in Source /\ u # s /\ table[u] \in Seq(Nat) /\ Len(table[u]) \in 1 .. MAX_EVENTS
          /\ IsTail(table[u], log[u])
      BY DEF HoldsLast
    <2>2. PICK k \in Nat, l \in Nat : k = Len(table[u]) /\ l = Len(log[u]) /\ 1 <= k /\ k <= l
      BY <1>1, <2>1 DEF IsTail
    <2>3. l - k + 1 \in 1 .. l /\ 1 \in 1 .. k
      BY <2>2
    <2>4. log[u][l - k + 1] = table[u][1]
      BY <2>1, <2>2, <2>3 DEF IsTail
    <2>5. log[u][l - k + 1] <= now
      BY <2>1, <2>2, <2>3 DEF LogInv
    <2>6. e - WINDOW <= log'[u][l - k + 1] /\ log'[u][l - k + 1] <= e
      BY <1>1, <1>2, <2>1, <2>4, <2>5
    <2>7. log'[u] = log[u]
      BY <1>1, <2>1
    <2>. QED  BY <2>1, <2>2, <2>3, <2>6, <2>7 DEF Crowd
  <1>4. s \in Crowd(e)'
    <2>1. Len(log[s]) + 1 \in 1 .. Len(log'[s])
      BY <1>1
    <2>. QED  BY <1>0, <1>1, <1>2, <2>1 DEF Crowd
  <1>5. IsFiniteSet(Crowd(e)')
    <2>1. Crowd(e)' \subseteq Busy'
      BY <1>1 DEF Crowd, Busy, LogInv
    <2>. QED  BY <1>1, <2>1, FS_Subset DEF LogInv
  <1>. DEFINE crowd == Crowd(e)'
              names == DOMAIN table
  <1>. HIDE DEF crowd, names
  <1>6. names \cup {s} \subseteq crowd /\ IsFiniteSet(crowd) /\ IsFiniteSet(names)
        /\ s \notin names /\ ~(Cardinality(names) < MAX_SOURCES)
    BY <1>3, <1>4, <1>5 DEF crowd, names, Few
  <1>7. Cardinality(names \cup {s}) = Cardinality(names) + 1 /\ Cardinality(names) \in Nat
        /\ IsFiniteSet(names \cup {s})
    BY <1>6, FS_AddElement, FS_CardinalityType
  <1>8. Cardinality(crowd) > MAX_SOURCES
    <2>1. Cardinality(names \cup {s}) <= Cardinality(crowd) /\ Cardinality(crowd) \in Nat
      BY <1>6, FS_Subset, FS_CardinalityType
    <2>. QED  BY <1>0, <1>6, <1>7, <2>1
  <1>9. e \in t .. now'
    BY <1>2
  <1>. QED  BY <1>8, <1>9 DEF Excused, crowd

LEMMA FailStep ==
  ASSUME LimitInv, now \in Nat, NEW s \in Source, OwnerFails(s) PROVE LimitInv'
  <1>0. /\ Allowed(failed, s, now) /\ now' = now
        /\ failed' \in Recorded(Looked(failed, s, now), s, now)
        /\ log' = [log EXCEPT ![s] = Append(@, now)]
        /\ LogInv
    BY DEF OwnerFails, LimitInv
  <1>1. PICK seen : seen = Looked(failed, s, now)
    OBVIOUS
  <1>2. Few(DOMAIN seen) /\ HoldsLast(seen) /\ Justified(seen)
    BY <1>1, LookedHolds
  <1>3. s \in DOMAIN seen => Len(seen[s]) < MAX_EVENTS
    BY <1>0, <1>1 DEF Allowed
  <1>4. PICK left : left = Pruned(seen, DOMAIN seen, now)
    OBVIOUS
  <1>5. /\ DOMAIN left \subseteq DOMAIN seen
        /\ HoldsLast(left) /\ Justified(left)
        /\ \A u \in DOMAIN left : Len(left[u]) <= Len(seen[u])
        /\ \A u \in DOMAIN left : left[u][1] >= now - WINDOW
    <2>1. /\ DOMAIN left \subseteq DOMAIN seen
          /\ HoldsLast(left) /\ Justified(left)
          /\ \A u \in DOMAIN left : Len(left[u]) <= Len(seen[u])
          /\ \A u \in DOMAIN left \cap DOMAIN seen : left[u][1] >= now - WINDOW
      BY <1>0, <1>2, <1>4, PrunedHolds
    <2>. QED  BY <2>1
  <1>6. Few(DOMAIN left) /\ MAX_SOURCES \in Nat \ {0}
    BY <1>2, <1>5, FS_Subset, FS_CardinalityType, LimitAssumption DEF Few
  <1>7. s \in DOMAIN left => Len(left[s]) < MAX_EVENTS
    <2>. SUFFICES ASSUME s \in DOMAIN left PROVE Len(left[s]) < MAX_EVENTS
      OBVIOUS
    <2>1. s \in DOMAIN seen /\ Len(left[s]) <= Len(seen[s]) /\ Len(seen[s]) < MAX_EVENTS
      BY <1>3, <1>5
    <2>2. Len(left[s]) \in Nat /\ Len(seen[s]) \in Nat /\ MAX_EVENTS \in Nat
      BY <1>2, <1>5, <2>1, LimitAssumption DEF HoldsLast
    <2>. QED  BY <2>1, <2>2
  <1>8. PICK table \in MadeRoom(left, s) : failed' = Appended(table, s, now)
    BY <1>0, <1>1, <1>4 DEF Recorded
  <1>9. ASSUME NEW u \in Source, NEW n \in Forgotten(left, u),
               NEW t \in Nat, t = log[u][n]
        PROVE  Excused(t)'
    <2>1. Excused(t)
      BY <1>5, <1>9, ForgottenExcused
    <2>2. /\ LogInv'
          /\ \A v \in Source : /\ Len(log[v]) <= Len(log'[v])
                               /\ \A m \in 1 .. Len(log[v]) : log'[v][m] = log[v][m]
      BY <1>0, LogGrows
    <2>. QED  BY <1>0, <2>1, <2>2, StillExcused
  <1>10. CASE s \in DOMAIN left \/ Cardinality(DOMAIN left) < MAX_SOURCES
    <2>1. table = left
      BY <1>8, <1>10 DEF MadeRoom
    <2>2. Few(DOMAIN left \cup {s})
      BY <1>6, <1>10, FewMore
    <2>. QED  BY <1>0, <1>5, <1>7, <1>8, <1>9, <2>1, <2>2, AppendedHolds
  <1>11. CASE ~(s \in DOMAIN left \/ Cardinality(DOMAIN left) < MAX_SOURCES)
    <2>1. PICK v \in DOMAIN left : table = [u \in DOMAIN left \ {v} |-> left[u]]
      BY <1>8, <1>11 DEF MadeRoom, Victims
    <2>2. DOMAIN table = DOMAIN left \ {v} /\ \A u \in DOMAIN table : table[u] = left[u]
      BY <2>1
    <2>3. HoldsLast(table) /\ s \notin DOMAIN table
      BY <1>5, <1>11, <2>2 DEF HoldsLast
    <2>4. Few(DOMAIN table \cup {s})
      <3>. DEFINE all  == DOMAIN left
                  rest == DOMAIN table
      <3>. HIDE DEF all, rest
      <3>1. v \in all /\ rest = all \ {v} /\ s \notin rest /\ Few(all)
        BY <1>6, <2>1, <2>2, <2>3 DEF all, rest
      <3>2. IsFiniteSet(rest) /\ Cardinality(rest) = Cardinality(all) - 1 /\ Cardinality(all) \in Nat
        BY <3>1, FS_RemoveElement, FS_CardinalityType DEF Few
      <3>3. IsFiniteSet(rest \cup {s}) /\ Cardinality(rest \cup {s}) = Cardinality(rest) + 1
        BY <3>1, <3>2, FS_AddElement
      <3>4. Cardinality(rest \cup {s}) <= MAX_SOURCES
        BY <1>6, <3>1, <3>2, <3>3 DEF Few
      <3>. QED  BY <3>3, <3>4 DEF Few, rest
    <2>5. ASSUME NEW u \in Source, NEW n \in Forgotten(table, u),
                 NEW t \in Nat, t = log[u][n]
          PROVE  Excused(t)'
      <3>1. CASE u # v
        <4>1. n \in Forgotten(left, u)
          BY <2>2, <3>1 DEF Bucket, Forgotten
        <4>. QED  BY <1>9, <2>5, <4>1
      <3>2. CASE u = v
        <4>1. u \notin DOMAIN table
          BY <2>2, <3>2
        <4>2. t <= now
          BY <1>0, <2>5, <4>1, ForgottenOfNone
        <4>. QED  BY <1>0, <1>5, <1>6, <1>11, <4>2, FullTableIsCrowd
      <3>. QED  BY <3>1, <3>2
    <2>. QED  BY <1>0, <1>8, <2>3, <2>4, <2>5, AppendedHolds
  <1>. QED  BY <1>10, <1>11

LEMMA CrashLimits ==
  ASSUME now \in Nat, Crash PROVE LimitInv'
  <1>1. failed' = NoEvents /\ log' = [s \in Source |-> <<>>] /\ now' = now
    BY DEF Crash
  <1>2. /\ log' \in [Source -> Seq(Nat)] /\ Busy' = {}
        /\ \A s \in Source : Len(log'[s]) = 0
    BY <1>1 DEF Busy
  <1>3. DOMAIN failed' = {}
    BY <1>1 DEF NoEvents
  <1>4. IsFiniteSet({}) /\ Cardinality({}) = 0 /\ MAX_SOURCES \in Nat
    BY FS_EmptySet, LimitAssumption
  <1>5. LogInv'
    BY <1>2, <1>4 DEF LogInv
  <1>6. Few(DOMAIN failed)' /\ HoldsLast(failed)'
    BY <1>3, <1>4 DEF Few, HoldsLast
  <1>7. Justified(failed)'
    <2>1. \A s \in Source : Len(Bucket(failed', s)) = 0 /\ Len(log'[s]) = 0
      BY <1>2, <1>3 DEF Bucket
    <2>2. \A s \in Source : 1 .. Len(log'[s]) - Len(Bucket(failed', s)) = {}
      BY <2>1
    <2>. QED  BY <2>2 DEF Justified, Bucket
  <1>. QED  BY <1>5, <1>6, <1>7 DEF LimitInv

LEMMA LimitStep ==
  ASSUME LimitInv, now \in Nat, [Next]_vars PROVE LimitInv'
  <1>0. ASSUME NEW gone \in SUBSET Grant, NEW saved \in BOOLEAN, Register(gone, saved)
        PROVE  UNCHANGED limits /\ now' = now
    BY <1>0 DEF Register
  <1>1. ASSUME NEW g \in Grant, NEW o \in Outcome, Connect(g, o) \/ Reconnect(g, o)
        PROVE  UNCHANGED limits /\ now' = now
    BY <1>1 DEF Connect, Reconnect
  <1>11. ASSUME NEW g \in Grant, Overreach(g) PROVE UNCHANGED limits /\ now' = now
    BY <1>11 DEF Overreach
  <1>2. ASSUME NEW t \in Token \cup Grant, NEW h \in Hints, NEW o \in Outcome, Revoke(t, h, o)
        PROVE  UNCHANGED limits /\ now' = now
    BY <1>2 DEF Revoke
  <1>3. ASSUME NEW th \in Thread, NEW c \in Credential, Receive(th, c)
        PROVE  UNCHANGED limits /\ now' = now
    BY <1>3 DEF Receive
  <1>4. ASSUME NEW th \in Thread, Deny(th) \/ Bind(th) \/ Answer(th)
        PROVE  UNCHANGED limits /\ now' = now
    BY <1>4 DEF Deny, Bind, Answer
  <1>5. ASSUME MockSwitch \/ Start \/ UNCHANGED vars PROVE UNCHANGED limits /\ now' = now
    BY <1>5 DEF MockSwitch, Start, vars
  <1>6. CASE Tick
    <2>1. UNCHANGED limits /\ now' \in Nat /\ now <= now'
      BY <1>6 DEF Tick
    <2>. QED  BY <2>1, LimitAlone
  <1>7. ASSUME NEW s \in Source, OwnerFails(s) PROVE LimitInv'
    BY <1>7, FailStep
  <1>8. ASSUME NEW s \in Source, OwnerLooks(s) PROVE LimitInv'
    <2>1. failed' = Looked(failed, s, now) /\ log' = log /\ now' = now
      BY <1>8 DEF OwnerLooks
    <2>. QED  BY <2>1, LookStep
  <1>9. CASE Crash
    BY <1>9, CrashLimits
  <1>10. CASE UNCHANGED limits /\ now' = now
    BY <1>10, LimitAlone
  <1>. QED  BY <1>0, <1>1, <1>2, <1>3, <1>4, <1>5, <1>6, <1>7, <1>8, <1>9, <1>10, <1>11 DEF Next

-----------------------------------------------------------------------------
(* The invariant of every behaviour.                                       *)

LEMMA InitLimits ==
  ASSUME Init PROVE LimitInv
  <1>1. failed = NoEvents /\ log = [s \in Source |-> <<>>] /\ now = 0
    BY DEF Init
  <1>2. log \in [Source -> Seq(Nat)] /\ Busy = {} /\ \A s \in Source : Len(log[s]) = 0
    BY <1>1 DEF Busy
  <1>3. DOMAIN failed = {}
    BY <1>1 DEF NoEvents
  <1>4. IsFiniteSet({}) /\ Cardinality({}) = 0 /\ MAX_SOURCES \in Nat
    BY FS_EmptySet, LimitAssumption
  <1>5. LogInv
    BY <1>2, <1>4 DEF LogInv
  <1>6. Few(DOMAIN failed) /\ HoldsLast(failed)
    BY <1>3, <1>4 DEF Few, HoldsLast
  <1>7. Justified(failed)
    <2>1. \A s \in Source : Len(Bucket(failed, s)) = 0 /\ Len(log[s]) = 0
      BY <1>2, <1>3 DEF Bucket
    <2>2. \A s \in Source : 1 .. Len(log[s]) - Len(Bucket(failed, s)) = {}
      BY <2>1
    <2>. QED  BY <2>2 DEF Justified
  <1>. QED  BY <1>5, <1>6, <1>7 DEF LimitInv

LEMMA RelayInit ==
  ASSUME Init PROVE RelayInv
  <1>1. /\ env \in Environment /\ Accepted(env) /\ now = 0 /\ kept = Empty /\ dead = {}
        /\ access = Empty /\ refresh = Empty /\ disk = Empty
        /\ thread = [th \in Thread |-> Idle]
        /\ drawn = [g \in Grant |-> 0] /\ approved = [g \in Grant |-> "none"]
    BY DEF Init
  <1>2. RelayType
    <2>1. /\ IsDict(access, Token, AccessRec) /\ IsDict(refresh, Grant, ChainRec)
          /\ IsDict(disk, Grant, ChainRec) /\ IsDict(kept, Grant, Nat)
      BY <1>1, EmptyIsDict
    <2>2. thread \in [Thread -> ThreadRec]
      BY <1>1 DEF ThreadRec
    <2>3. drawn \in [Grant -> 0 .. MaxTokens]
      BY <1>1, RelayAssumption
    <2>. QED  BY <1>1, <2>1, <2>2, <2>3 DEF RelayType
  <1>3. BoundInv
    BY <1>1 DEF BoundInv, Idle
  <1>4. KeptInv /\ DeadInv
    BY <1>1 DEF KeptInv, DeadInv, Empty
  <1>5. ApprovedInv
    BY <1>1 DEF ApprovedInv, ChainsApproved, Empty, Idle
  <1>. QED  BY <1>2, <1>3, <1>4, <1>5, InitLimits DEF RelayInv

LEMMA RelayStep ==
  ASSUME RelayInv, [Next]_vars PROVE RelayInv'
  <1>1. /\ RelayType /\ BoundInv /\ KeptInv /\ DeadInv /\ ApprovedInv /\ LimitInv
        /\ now \in Nat
    BY DEF RelayInv, RelayType
  <1>2. RelayType'
    BY <1>1, RelayTypeStep
  <1>3. BoundInv'
    BY <1>1, BoundStep
  <1>4. KeptInv' /\ DeadInv' /\ ApprovedInv'
    BY <1>1, KeptStep, DeadStep, ApprovedStep
  <1>5. LimitInv'
    BY <1>1, LimitStep
  <1>. QED  BY <1>2, <1>3, <1>4, <1>5 DEF RelayInv

(* Every state the relay reaches has the inductive invariant.              *)
THEOREM RelayInvariant == Spec => []RelayInv
  <1>1. Init => RelayInv
    BY RelayInit
  <1>2. RelayInv /\ [Next]_vars => RelayInv'
    BY RelayStep
  <1>. QED  BY <1>1, <1>2, PTL DEF Spec

-----------------------------------------------------------------------------
(* What follows for callers and their grants.                              *)

(* Under every configuration load_config accepts, a call bound in OAuth    *)
(* mode holds an access token, and one bound in mock mode holds the mock   *)
(* token, which is not the well-known default where others can reach it.   *)
THEOREM OwnCredentials == Spec => []CredentialOfItsMode
  <1>1. RelayInv => CredentialOfItsMode
    <2>. SUFFICES ASSUME RelayInv, NEW th \in Thread, thread[th].op = "bound"
                  PROVE  /\ thread[th].mode = "oauth" => thread[th].cred \in Token
                         /\ thread[th].mode = "mock" =>
                              thread[th].cred = MockToken /\ ~(Public(env) /\ env.default_token)
      BY DEF CredentialOfItsMode
    <2>1. /\ thread[th].mode = env.mode
          /\ env.mode = "oauth" => thread[th].cred \in Token
          /\ env.mode = "mock" => thread[th].cred = MockToken
      BY DEF RelayInv, BoundInv
    <2>2. env.mode = "mock" => ~(Public(env) /\ env.default_token)
      BY DEF RelayInv, RelayType, Accepted, MockAllowed, Public
    <2>. QED  BY <2>1, <2>2
  <1>. QED  BY <1>1, RelayInvariant, PTL

(* A chain a relay reachable from elsewhere has acknowledged is there, not *)
(* revoked and not about to expire sooner, whenever such a relay runs up   *)
(* to the expiry it was issued with: however often the process was         *)
(* restarted, whatever configurations it had in between, and whatever      *)
(* clients were evicted.                                                   *)
THEOREM AcknowledgedGrantsKept == Spec => []PublicGrantsKept
  <1>1. RelayInv => PublicGrantsKept
    BY PublicIsDurable DEF RelayInv, RelayType, KeptInv, PublicGrantsKept
  <1>. QED  BY <1>1, RelayInvariant, PTL

(* The limiter's table has at most MAX_SOURCES sources, none of them with  *)
(* more than MAX_EVENTS times or with none.                                *)
THEOREM LimiterBounded == Spec => []SourcesCapped
  <1>1. RelayInv => SourcesCapped
    BY DEF RelayInv, LimitInv, Few, HoldsLast, SourcesCapped
  <1>. QED  BY <1>1, RelayInvariant, PTL

(* Once a revocation is acknowledged no thread binds a call to the token,  *)
(* and no pair is issued for the chain, across restarts from the file.     *)
THEOREM RevocationHolds == Spec => RevokedNeverServed
  <1>. DEFINE Never ==
         /\ \A th \in Thread : (thread'[th].op = "bound" /\ thread[th].op # "bound")
                                 => thread[th].cred \notin dead
         /\ \A t \in DOMAIN access' \ DOMAIN access : t[1] \notin dead
  <1>1. RelayInv /\ [Next]_vars => Never
    <2>. SUFFICES ASSUME RelayInv, [Next]_vars PROVE Never
      OBVIOUS
    <2>1. RelayType /\ DeadInv
      BY DEF RelayInv
    <2>2. ASSUME NEW th \in Thread, thread'[th].op = "bound", thread[th].op # "bound"
          PROVE  thread[th].cred \notin dead
      <3>1. Resolves(thread[th].cred)
        BY <2>1, <2>2, BindsStep DEF Binds
      <3>2. CASE ValidBearer(thread[th].cred)
        BY <2>1, <3>2 DEF ValidBearer, DeadInv, Cut
      <3>3. CASE thread[th].cred = MockToken
        <4>1. MockToken \notin Token /\ MockToken \notin Grant
          BY RelayAssumption DEF MockToken, Token
        <4>. QED  BY <2>1, <3>3, <4>1 DEF RelayType
      <3>. QED  BY <3>1, <3>2, <3>3 DEF Resolves
    <2>3. \A t \in DOMAIN access' \ DOMAIN access : t[1] \notin dead
      BY <2>1, DeadStep
    <2>. QED  BY <2>2, <2>3
  <1>2. RelayInv /\ [Next]_vars => [Never]_vars
    BY <1>1
  <1>. QED  BY <1>2, RelayInvariant, PTL DEF Spec, RevokedNeverServed, Never

(* A call in a thread's hands goes upstream on a grant the owner approved  *)
(* for the resource the process was started with: no rotation, restart or  *)
(* file of another configuration moves a grant to another resource.        *)
THEOREM AudienceChecked == Spec => []AudienceKept
  <1>1. RelayInv => AudienceKept
    BY DEF RelayInv, ApprovedInv, AudienceKept
  <1>. QED  BY <1>1, RelayInvariant, PTL

LEMMA LongerThanItsTail ==
  ASSUME NEW l \in Nat, NEW k \in 0 .. l, NEW S, S \subseteq 1 .. l, Cardinality(S) > k
  PROVE  \E n \in S : n \in 1 .. l - k
  <1>. SUFFICES ASSUME \A n \in S : n \notin 1 .. l - k PROVE FALSE
    OBVIOUS
  <1>1. S \subseteq l - k + 1 .. l
    OBVIOUS
  <1>2. IsFiniteSet(l - k + 1 .. l) /\ Cardinality(l - k + 1 .. l) = k
    <2>1. PICK a \in Int : a = l - k + 1
      OBVIOUS
    <2>2. IsFiniteSet(a .. l) /\ Cardinality(a .. l) = IF a > l THEN 0 ELSE l - a + 1
      BY FS_Interval
    <2>. QED  BY <2>1, <2>2
  <1>3. Cardinality(S) \in Nat /\ Cardinality(S) <= k
    BY <1>1, <1>2, FS_Subset, FS_CardinalityType
  <1>. QED  BY <1>3

LEMMA LockedOut ==
  ASSUME LimitInv, now \in Nat, NEW s \in Source, Cardinality(Recent(s, WINDOW)) > MAX_EVENTS
  PROVE  Cardinality({u \in Source : Recent(u, 2 * WINDOW) # {}}) > MAX_SOURCES
  <1>0. WINDOW \in Nat /\ MAX_SOURCES \in Nat /\ MAX_EVENTS \in Nat /\ LogInv
    BY LimitAssumption DEF LimitInv
  <1>1. PICK l \in Nat, k \in Nat :
          /\ l = Len(log[s]) /\ k = Len(Bucket(failed, s))
          /\ k <= l /\ k <= MAX_EVENTS
    <2>1. log[s] \in Seq(Nat)
      BY <1>0 DEF LogInv
    <2>2. CASE s \in DOMAIN failed
      <3>1. /\ failed[s] \in Seq(Nat) /\ Len(failed[s]) \in 1 .. MAX_EVENTS
            /\ Len(failed[s]) <= Len(log[s])
        BY <2>2 DEF LimitInv, HoldsLast, IsTail
      <3>. QED  BY <1>0, <2>1, <2>2, <3>1 DEF Bucket
    <2>3. CASE s \notin DOMAIN failed
      BY <1>0, <2>1, <2>3 DEF Bucket
    <2>. QED  BY <2>2, <2>3
  <1>2. PICK recent : recent = Recent(s, WINDOW)
    OBVIOUS
  <1>3. recent \subseteq 1 .. l /\ Cardinality(recent) > MAX_EVENTS
    BY <1>1, <1>2 DEF Recent
  <1>4. PICK n \in recent : n \in 1 .. l - k
    <2>1. IsFiniteSet(recent) /\ Cardinality(recent) \in Nat
      <3>1. IsFiniteSet(1 .. l)
        BY FS_Interval
      <3>. QED  BY <1>3, <3>1, FS_Subset, FS_CardinalityType
    <2>2. Cardinality(recent) > k /\ k \in 0 .. l
      BY <1>0, <1>1, <1>3, <2>1
    <2>. QED  BY <1>3, <2>2, LongerThanItsTail
  <1>5. PICK t \in Nat : t = log[s][n] /\ t >= now - WINDOW
    <2>1. n \in 1 .. Len(log[s]) /\ log[s][n] >= now - WINDOW
      BY <1>2, <1>4 DEF Recent
    <2>. QED  BY <1>0, <2>1 DEF LogInv
  <1>6. Excused(t)
    BY <1>1, <1>4, <1>5 DEF LimitInv, Justified
  <1>7. PICK e \in t .. now : Cardinality(Crowd(e)) > MAX_SOURCES
    BY <1>0, <1>5, <1>6 DEF Excused
  <1>8. PICK crowd, all : crowd = Crowd(e) /\ all = {u \in Source : Recent(u, 2 * WINDOW) # {}}
    OBVIOUS
  <1>9. crowd \subseteq all
    <2>1. \A x \in Nat : e - WINDOW <= x => x >= now - 2 * WINDOW
      BY <1>0, <1>5
    <2>2. ASSUME NEW u \in crowd PROVE u \in all
      <3>1. PICK m \in 1 .. Len(log[u]) : e - WINDOW <= log[u][m]
        BY <1>8 DEF Crowd
      <3>2. u \in Source /\ log[u][m] \in Nat
        BY <1>0, <1>8 DEF Crowd, LogInv
      <3>3. m \in Recent(u, 2 * WINDOW)
        BY <2>1, <3>1, <3>2 DEF Recent
      <3>. QED  BY <1>8, <3>2, <3>3
    <2>. QED  BY <2>2
  <1>10. all \subseteq Busy
    BY <1>0, <1>8 DEF Recent, Busy, LogInv
  <1>11. IsFiniteSet(all) /\ IsFiniteSet(crowd)
    BY <1>0, <1>9, <1>10, FS_Subset DEF LogInv
  <1>12. Cardinality(crowd) <= Cardinality(all) /\ Cardinality(crowd) \in Nat /\ Cardinality(all) \in Nat
    BY <1>9, <1>11, FS_Subset, FS_CardinalityType
  <1>. QED  BY <1>0, <1>7, <1>8, <1>12

(* What the limiter promises: a source that failed more often than         *)
(* MAX_EVENTS times within a window was let through because the table had  *)
(* to forget it, which takes more than MAX_SOURCES sources that failed     *)
(* within two windows.                                                     *)
THEOREM LockoutOnlyByCrowd == Spec => []LockoutHolds
  <1>1. RelayInv => LockoutHolds
    BY LockedOut DEF RelayInv, RelayType, LockoutHolds
  <1>. QED  BY <1>1, RelayInvariant, PTL
=============================================================================
