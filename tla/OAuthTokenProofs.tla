-------------------------- MODULE OAuthTokenProofs --------------------------
(* Why refresh tokens are safe across rotation, eviction, failed saves and *)
(* restarts: the theorems about the token half of OAuthService.            *)
EXTENDS OAuthServiceProofs

-----------------------------------------------------------------------------
(* The inductive invariant.  Memory may be ahead of the file, because a    *)
(* save failed after the tables changed.  What keeps the file sound is that *)
(* memory is only ever ahead: every token it honours and the file does not *)
(* is newer than all the file has honoured, and belongs to a grant the     *)
(* file still honours or has never seen.                                   *)

Ahead(rts, file, seen) ==
  \A t \in Unrevoked(rts) \ Unrevoked(file.refresh) :
    /\ \A u \in seen : u[1] = t[1] => u[2] < t[2]
    /\ (\E u \in seen : u[1] = t[1]) => (\E u \in Unrevoked(file.refresh) : u[1] = t[1])

AllDead(rts, S) == \A t \in S : Dead(rts, t)

(* A candidate for memory, or for the payload of a save.                   *)
Sound(cls, rts) == Owned(cls, rts) /\ AtMostOneLive(rts) /\ AllDead(rts, spent)

Seen == DOMAIN refresh \cup DOMAIN disk.refresh \cup DOMAIN held \cup spent \cup ever

Numbered == \A t \in Seen : t[2] <= gen[t[1]]

FreshGrants ==
  /\ DOMAIN codes \subseteq minted
  /\ \A g \in Grant : (g \in DOMAIN codes \/ g \notin minted) => gen[g] = 0

EmptyWhenDown == ~up => clients = Empty /\ refresh = Empty

TokenInv ==
  /\ TypeOK
  /\ Numbered
  /\ FreshGrants
  /\ EmptyWhenDown
  /\ Sound(clients, refresh)
  /\ Sound(disk.clients, disk.refresh)
  /\ Ahead(refresh, disk, ever)

-----------------------------------------------------------------------------
(* What the operators on the refresh table do.                             *)

LEMMA DropFacts ==
  ASSUME NEW d, NEW S
  PROVE  /\ DOMAIN Drop(d, S) = DOMAIN d \ S
         /\ \A k \in DOMAIN d \ S : Drop(d, S)[k] = d[k]
  BY DEF Drop

LEMMA RevokedFacts ==
  ASSUME NEW rts, IsDict(rts, Token, RefreshRec), NEW t
  PROVE  /\ DOMAIN Revoked(rts, t) = DOMAIN rts
         /\ \A u \in DOMAIN rts : Revoked(rts, t)[u].client = rts[u].client
         /\ \A u \in DOMAIN rts : Revoked(rts, t)[u].revoked <=> rts[u].revoked \/ u = t
  BY DEF Revoked, IsDict, RefreshRec

(* A part of a sound table is sound, and no less behind.                   *)
LEMMA DropSound ==
  ASSUME NEW cls, NEW rts, NEW S, Sound(cls, rts), Ahead(rts, disk, ever)
  PROVE  Sound(cls, Drop(rts, S)) /\ Ahead(Drop(rts, S), disk, ever)
  <1>1. DOMAIN Drop(rts, S) \subseteq DOMAIN rts
        /\ \A k \in DOMAIN Drop(rts, S) : Drop(rts, S)[k] = rts[k]
    BY DEF Drop
  <1>. HIDE DEF Drop
  <1>2. Unrevoked(Drop(rts, S)) \subseteq Unrevoked(rts)
    BY <1>1 DEF Unrevoked
  <1>3. Sound(cls, Drop(rts, S))
    BY <1>1 DEF Sound, Owned, AtMostOneLive, AllDead, Dead
  <1>. QED  BY <1>2, <1>3 DEF Ahead

LEMMA EvictSound ==
  ASSUME NEW cls, NEW rts, NEW gone, Sound(cls, rts), Ahead(rts, disk, ever)
  PROVE  /\ Sound(Drop(cls, gone), TokensWithout(rts, gone))
         /\ Ahead(TokensWithout(rts, gone), disk, ever)
  <1>. DEFINE left == TokensWithout(rts, gone)
  <1>1. Sound(cls, left) /\ Ahead(left, disk, ever)
    BY DropSound DEF TokensWithout
  <1>2. \A t \in DOMAIN left : t \in DOMAIN rts /\ left[t] = rts[t] /\ rts[t].client \notin gone
    BY DEF Drop, TokensWithout
  <1>3. DOMAIN Drop(cls, gone) = DOMAIN cls \ gone
    BY DropFacts
  <1>4. Owned(Drop(cls, gone), left)
    <2>. HIDE DEF left
    <2>. QED  BY <1>2, <1>3 DEF Sound, Owned
  <1>. QED  BY <1>1, <1>4 DEF Sound

LEMMA RevokeSound ==
  ASSUME NEW cls, NEW rts, NEW t, IsDict(rts, Token, RefreshRec),
         Sound(cls, rts), Ahead(rts, disk, ever)
  PROVE  /\ Sound(cls, Revoked(rts, t))
         /\ Ahead(Revoked(rts, t), disk, ever)
         /\ Dead(Revoked(rts, t), t)
  <1>1. /\ DOMAIN Revoked(rts, t) = DOMAIN rts
        /\ \A u \in DOMAIN rts : Revoked(rts, t)[u].client = rts[u].client
        /\ \A u \in DOMAIN rts : Revoked(rts, t)[u].revoked <=> rts[u].revoked \/ u = t
    BY RevokedFacts
  <1>2. Unrevoked(Revoked(rts, t)) \subseteq Unrevoked(rts)
    BY <1>1 DEF Unrevoked
  <1>3. Sound(cls, Revoked(rts, t)) /\ Dead(Revoked(rts, t), t)
    BY <1>1 DEF Sound, Owned, AtMostOneLive, AllDead, Dead
  <1>. QED  BY <1>2, <1>3 DEF Ahead

LEMMA GrowSound ==
  ASSUME NEW cls, NEW more, NEW rts, DOMAIN cls \subseteq DOMAIN more, Sound(cls, rts)
  PROVE  Sound(more, rts)
  BY DEF Sound, Owned

(* A new token for grant g: sound when the grant honours no other, and     *)
(* ahead when the file honours the grant or never saw it.                  *)
LEMMA NewTokenSound ==
  ASSUME TokenInv, NEW g \in Grant, NEW c, NEW cls, NEW rts,
         IsDict(rts, Token, RefreshRec), c \in DOMAIN cls,
         Sound(cls, rts), Ahead(rts, disk, ever),
         \A t \in Unrevoked(rts) : t[1] # g,
         (\E u \in ever : u[1] = g) => (\E u \in Unrevoked(disk.refresh) : u[1] = g)
  PROVE  LET new == Put(rts, <<g, gen[g] + 1>>, NewRefresh(c))
         IN  Sound(cls, new) /\ Ahead(new, disk, ever)
  <1>. DEFINE t == <<g, gen[g] + 1>>
              new == Put(rts, t, NewRefresh(c))
  <1>1. /\ DOMAIN new = DOMAIN rts \cup {t}
        /\ new[t] = NewRefresh(c)
        /\ \A x \in DOMAIN rts : x # t => new[x] = rts[x]
    BY DEF Put
  <1>2. gen[g] \in Nat /\ \A u \in Seen : u[1] = g => u[2] <= gen[g]
    BY TimeAssumption DEF TokenInv, TypeOK, Numbered
  <1>3. t \notin spent /\ t[1] = g /\ t[2] = gen[g] + 1
    BY <1>2 DEF Seen
  <1>4. NewRefresh(c).client = c /\ ~NewRefresh(c).revoked
    BY DEF NewRefresh
  <1>. HIDE DEF new, t
  <1>5. Owned(cls, new)
    BY <1>1, <1>4 DEF Sound, Owned
  <1>6. AtMostOneLive(new)
    BY <1>1, <1>3 DEF Sound, AtMostOneLive, Unrevoked
  <1>7. AllDead(new, spent)
    BY <1>1, <1>3 DEF Sound, AllDead, Dead
  <1>8. Ahead(new, disk, ever)
    <2>1. Unrevoked(new) \subseteq Unrevoked(rts) \cup {t}
      BY <1>1 DEF Unrevoked
    <2>2. \A u \in ever : u[1] = g => u[2] < t[2]
      <3>. SUFFICES ASSUME NEW u \in ever, u[1] = g PROVE u[2] < t[2]
        OBVIOUS
      <3>1. u \in Token /\ u[2] <= gen[g]
        BY <1>2 DEF TokenInv, TypeOK, Seen
      <3>2. u[2] \in Int
        BY <3>1, TimeAssumption DEF Token
      <3>. QED  BY <1>2, <1>3, <3>1, <3>2
    <2>. QED  BY <2>1, <2>2, <1>3 DEF Ahead
  <1>. QED  BY <1>5, <1>6, <1>7, <1>8 DEF Sound, new, t

-----------------------------------------------------------------------------
(* What a save does to the file: a step of GrantLifecycle, or none.        *)

FileStep == [Lifecycle!Save]_<<Unrevoked(disk.refresh), ever>>

LEMMA NoFileStep == UNCHANGED <<disk, ever>> => FileStep
  BY DEF FileStep, Unrevoked

LEMMA WriteSound ==
  ASSUME NEW cls, NEW rts, NEW o,
         Sound(cls, rts), Ahead(rts, disk, ever), Sound(disk.clients, disk.refresh),
         WriteFile(cls, rts, o)
  PROVE  /\ Sound(disk'.clients, disk'.refresh)
         /\ Ahead(rts, disk', ever')
         /\ ever' \subseteq ever \cup DOMAIN rts
         /\ DOMAIN disk'.refresh \subseteq DOMAIN rts \cup DOMAIN disk.refresh
         /\ FileStep
  <1>1. CASE o = "unsaved"
    <2>1. UNCHANGED <<disk, ever>>
      BY <1>1 DEF WriteFile
    <2>2. disk' = disk /\ ever' = ever
      BY <2>1
    <2>. QED  BY <2>1, <2>2, NoFileStep
  <1>2. CASE o # "unsaved"
    <2>1. disk' = [clients |-> cls, refresh |-> rts] /\ ever' = ever \cup Unrevoked(rts)
      BY <1>2 DEF WriteFile
    <2>2. disk'.clients = cls /\ disk'.refresh = rts
      BY <2>1
    <2>3. Ahead(rts, disk', ever')
      BY <2>2 DEF Ahead
    <2>4. Unrevoked(rts) \subseteq DOMAIN rts
      BY DEF Unrevoked
    <2>5. FileStep
      <3>1. \A t, u \in Unrevoked(rts) : t[1] = u[1] => t = u
        BY DEF Sound, AtMostOneLive, Unrevoked
      <3>2. Lifecycle!Save
        <4>1. Unrevoked(disk'.refresh) = Unrevoked(rts)
          BY <2>2
        <4>. QED  BY <2>1, <4>1, <3>1 DEF Lifecycle!Save, Lifecycle!Newer, Lifecycle!NotReopened, Ahead
      <3>. QED  BY <3>2 DEF FileStep
    <2>. QED  BY <2>1, <2>2, <2>3, <2>4, <2>5
  <1>. QED  BY <1>1, <1>2

LEMMA PersistSound ==
  ASSUME NEW cls, NEW rts, NEW o,
         Sound(cls, rts), Ahead(rts, disk, ever), Sound(disk.clients, disk.refresh),
         Persist(cls, rts, o)
  PROVE  /\ Sound(clients', refresh')
         /\ Sound(disk'.clients, disk'.refresh)
         /\ Ahead(refresh', disk', ever')
         /\ ever' \subseteq ever \cup DOMAIN rts
         /\ DOMAIN refresh' \subseteq DOMAIN rts
         /\ DOMAIN disk'.refresh \subseteq DOMAIN rts \cup DOMAIN disk.refresh
         /\ FileStep
  <1>1. /\ clients' = cls /\ refresh' = Purged(rts)
        /\ WriteFile(cls, Purged(rts), o)
    BY DEF Persist
  <1>2. Sound(cls, Purged(rts)) /\ Ahead(Purged(rts), disk, ever)
    BY DropSound DEF Purged
  <1>3. DOMAIN Purged(rts) \subseteq DOMAIN rts
    BY DEF Purged, Drop
  <1>4. /\ Sound(disk'.clients, disk'.refresh)
        /\ Ahead(Purged(rts), disk', ever')
        /\ ever' \subseteq ever \cup DOMAIN Purged(rts)
        /\ DOMAIN disk'.refresh \subseteq DOMAIN Purged(rts) \cup DOMAIN disk.refresh
        /\ FileStep
    BY <1>1, <1>2, WriteSound
  <1>. QED  BY <1>1, <1>2, <1>3, <1>4

-----------------------------------------------------------------------------
(* Steps that leave the refresh tokens and the file alone.                 *)

LEMMA SeenStep ==
  ASSUME Numbered, Seen' \subseteq Seen, gen' = gen PROVE Numbered'
  BY DEF Numbered

LEMMA QuietStep ==
  ASSUME TokenInv, TypeOK',
         UNCHANGED <<refresh, disk, up, gen, held, spent, ever>>,
         DOMAIN clients \subseteq DOMAIN clients', up \/ clients' = clients,
         DOMAIN codes' \subseteq DOMAIN codes, minted \subseteq minted'
  PROVE  TokenInv' /\ FileStep
  <1>1. Numbered'
    BY SeenStep DEF TokenInv, Seen
  <1>2. FreshGrants'
    BY DEF TokenInv, FreshGrants
  <1>3. Sound(clients, refresh)' /\ Sound(disk.clients, disk.refresh)'
    BY DEF TokenInv, Sound, Owned
  <1>4. Ahead(refresh, disk, ever)' /\ EmptyWhenDown'
    BY DEF TokenInv, EmptyWhenDown
  <1>. QED  BY <1>1, <1>2, <1>3, <1>4, NoFileStep DEF TokenInv

(* The authorization handlers before the code is stored.                   *)
LEMMA ConsentTokenStep ==
  ASSUME TokenInv, TypeOK', Authorization,
         ~ \E th \in Thread, g \in Grant, o \in Outcome : CompleteIssue(th, g, o)
  PROVE  TokenInv' /\ FileStep
  <1>1. ASSUME NEW th \in Thread, NEW c \in Client, BeginLookup(th, c)
        PROVE  TokenInv' /\ FileStep
    BY <1>1, QuietStep DEF BeginLookup, memory, history
  <1>2. ASSUME NEW th \in Thread, NEW r \in Request, BeginAdmit(th, r)
        PROVE  TokenInv' /\ FileStep
    BY <1>2, QuietStep DEF BeginAdmit
  <1>3. ASSUME NEW th \in Thread, BeginRefused(th) PROVE TokenInv' /\ FileStep
    BY <1>3, QuietStep DEF BeginRefused, history
  <1>4. ASSUME NEW r \in Request, CompleteDismiss(r) PROVE TokenInv' /\ FileStep
    BY <1>4, QuietStep DEF CompleteDismiss, history
  <1>5. ASSUME NEW th \in Thread, NEW r \in Request, CompletePop(th, r)
        PROVE  TokenInv' /\ FileStep
    BY <1>5, QuietStep DEF CompletePop, history
  <1>6. ASSUME NEW th \in Thread, CompleteReinsert(th) PROVE TokenInv' /\ FileStep
    BY <1>6, QuietStep DEF CompleteReinsert, history
  <1>7. ASSUME NEW th \in Thread, CompleteApprove(th) PROVE TokenInv' /\ FileStep
    BY <1>7, QuietStep, TouchedDomain DEF CompleteApprove, history
  <1>. QED  BY <1>1, <1>2, <1>3, <1>4, <1>5, <1>6, <1>7 DEF Authorization

-----------------------------------------------------------------------------
(* Steps that save.                                                        *)

LEMMA RegistrationTokenStep ==
  ASSUME TokenInv, TypeOK', Registration PROVE TokenInv' /\ FileStep
  <1>1. ASSUME NEW c \in Client, NEW o \in Outcome, Register(c, o)
        PROVE  TokenInv' /\ FileStep
    <2>1. PICK gone \in Evictions(clients, refresh, 1) :
            Persist(Put(Drop(clients, gone), c, [issued_at |-> now, last_used_at |-> now]),
                    TokensWithout(refresh, gone), o)
      BY <1>1 DEF Register
    <2>. DEFINE cls == Put(Drop(clients, gone), c, [issued_at |-> now, last_used_at |-> now])
                rts == TokensWithout(refresh, gone)
    <2>2. Sound(Drop(clients, gone), rts) /\ Ahead(rts, disk, ever)
      BY EvictSound DEF TokenInv
    <2>3. Sound(cls, rts)
      <3>1. DOMAIN Drop(clients, gone) \subseteq DOMAIN cls
        BY DEF Put
      <3>. QED  BY <3>1, <2>2, GrowSound
    <2>4. Persist(cls, rts, o)
      BY <2>1
    <2>5. DOMAIN rts \subseteq DOMAIN refresh
      BY DEF TokensWithout, Drop
    <2>. HIDE DEF cls, rts
    <2>6. /\ Sound(clients', refresh')
          /\ Sound(disk'.clients, disk'.refresh)
          /\ Ahead(refresh', disk', ever')
          /\ ever' \subseteq ever \cup DOMAIN rts
          /\ DOMAIN refresh' \subseteq DOMAIN rts
          /\ DOMAIN disk'.refresh \subseteq DOMAIN rts \cup DOMAIN disk.refresh
          /\ FileStep
      BY <2>2, <2>3, <2>4, PersistSound DEF TokenInv
    <2>7. Numbered'
      BY <1>1, <2>5, <2>6, SeenStep DEF TokenInv, Seen, Register
    <2>8. FreshGrants'
      BY <1>1 DEF TokenInv, FreshGrants, Register
    <2>9. EmptyWhenDown'
      BY <1>1 DEF EmptyWhenDown, Register
    <2>. QED
      <3>1. spent' = spent
        BY <1>1 DEF Register
      <3>2. Sound(clients, refresh)' /\ Sound(disk.clients, disk.refresh)'
        BY <2>6, <3>1 DEF Sound
      <3>. QED  BY <2>6, <2>7, <2>8, <2>9, <3>2 DEF TokenInv
  <1>2. ASSUME RegisterRefused PROVE TokenInv' /\ FileStep
    <2>1. PICK gone \in Evictions(clients, refresh, 1) :
            clients' = Drop(clients, gone) /\ refresh' = TokensWithout(refresh, gone)
      BY <1>2 DEF RegisterRefused
    <2>2. UNCHANGED <<codes, disk, up, gen, minted, held, spent, ever>> /\ up
      BY <1>2 DEF RegisterRefused, history
    <2>3. Sound(clients', refresh') /\ Ahead(refresh', disk, ever)
      BY <2>1, EvictSound DEF TokenInv
    <2>4. DOMAIN refresh' \subseteq DOMAIN refresh
      BY <2>1 DEF TokensWithout, Drop
    <2>5. Numbered'
      BY <2>2, <2>4, SeenStep DEF TokenInv, Seen
    <2>6. FreshGrants' /\ EmptyWhenDown'
      BY <2>2 DEF TokenInv, FreshGrants, EmptyWhenDown
    <2>7. Sound(clients, refresh)' /\ Sound(disk.clients, disk.refresh)'
      BY <2>2, <2>3 DEF TokenInv, Sound
    <2>. QED  BY <2>2, <2>3, <2>5, <2>6, <2>7, NoFileStep DEF TokenInv
  <1>. QED  BY <1>1, <1>2 DEF Registration

LEMMA CodeTokenStep ==
  ASSUME TokenInv, TypeOK', NEW th \in Thread, NEW g \in Grant, NEW o \in Outcome,
         CompleteIssue(th, g, o)
  PROVE  TokenInv' /\ FileStep
  <1>1. /\ Persist(clients, refresh, o)
        /\ UNCHANGED <<up, gen, held, spent>> /\ up
        /\ g \notin minted /\ minted' = minted \cup {g}
    BY DEF CompleteIssue
  <1>2. DOMAIN codes' = DOMAIN codes \cup {g}
    BY DEF CompleteIssue, Put
  <1>3. /\ Sound(clients', refresh')
        /\ Sound(disk'.clients, disk'.refresh)
        /\ Ahead(refresh', disk', ever')
        /\ ever' \subseteq ever \cup DOMAIN refresh
        /\ DOMAIN refresh' \subseteq DOMAIN refresh
        /\ DOMAIN disk'.refresh \subseteq DOMAIN refresh \cup DOMAIN disk.refresh
        /\ FileStep
    BY <1>1, PersistSound DEF TokenInv
  <1>4. Numbered'
    BY <1>1, <1>3, SeenStep DEF TokenInv, Seen
  <1>5. FreshGrants' /\ EmptyWhenDown'
    BY <1>1, <1>2 DEF TokenInv, FreshGrants, EmptyWhenDown
  <1>6. Sound(clients, refresh)' /\ Sound(disk.clients, disk.refresh)'
    BY <1>1, <1>3 DEF Sound
  <1>. QED  BY <1>3, <1>4, <1>5, <1>6 DEF TokenInv

-----------------------------------------------------------------------------
(* The token endpoint.                                                     *)

(* Issuing a pair: rts is the table in which the old token, if any, is     *)
(* already revoked.                                                        *)
LEMMA IssueSound ==
  ASSUME TokenInv, NEW g \in Grant, NEW c \in DOMAIN clients, NEW rts, NEW o,
         IsDict(rts, Token, RefreshRec), DOMAIN rts \subseteq DOMAIN refresh,
         Sound(clients, rts), Ahead(rts, disk, ever),
         \A t \in Unrevoked(rts) : t[1] # g,
         (\E u \in ever : u[1] = g) => (\E u \in Unrevoked(disk.refresh) : u[1] = g),
         Issue(g, c, rts, o), spent' \subseteq Seen
  PROVE  /\ Sound(clients', refresh')
         /\ Sound(disk'.clients, disk'.refresh)
         /\ Ahead(refresh', disk', ever')
         /\ Numbered'
         /\ \A h \in Grant : h # g => gen'[h] = gen[h]
         /\ FileStep
  <1>. DEFINE t   == <<g, gen[g] + 1>>
              new == Put(rts, t, NewRefresh(c))
              cls == Touched(clients, c)
  <1>1. /\ gen' = [gen EXCEPT ![g] = gen[g] + 1]
        /\ Persist(cls, new, o)
        /\ held' = IF o = "answered" THEN Put(held, t, now + REFRESH_TTL) ELSE held
    BY DEF Issue
  <1>2. Sound(clients, new) /\ Ahead(new, disk, ever)
    BY NewTokenSound
  <1>3. Sound(cls, new)
    BY <1>2, GrowSound, TouchedDomain
  <1>4. DOMAIN new = DOMAIN rts \cup {t}
    BY DEF Put
  <1>5. DOMAIN held' \subseteq DOMAIN held \cup {t}
    BY <1>1 DEF Put
  <1>6. gen \in [Grant -> Int] /\ t[1] = g /\ t[2] = gen[g] + 1
    BY TimeAssumption DEF TokenInv, TypeOK
  <1>. HIDE DEF t, new, cls
  <1>7. /\ Sound(clients', refresh')
        /\ Sound(disk'.clients, disk'.refresh)
        /\ Ahead(refresh', disk', ever')
        /\ ever' \subseteq ever \cup DOMAIN new
        /\ DOMAIN refresh' \subseteq DOMAIN new
        /\ DOMAIN disk'.refresh \subseteq DOMAIN new \cup DOMAIN disk.refresh
        /\ FileStep
    BY <1>1, <1>2, <1>3, PersistSound DEF TokenInv
  <1>8. Numbered'
    <2>1. Seen' \subseteq Seen \cup {t}
      BY <1>4, <1>5, <1>7 DEF Seen
    <2>2. \A u \in Seen : u[1] \in Grant /\ u[2] \in Int /\ u[2] <= gen[u[1]]
      <3>1. Seen \subseteq Token
        BY DEF TokenInv, TypeOK, Seen, IsDict, IsFile
      <3>. QED  BY <3>1, TimeAssumption DEF TokenInv, Numbered, Token
    <2>3. \A h \in Grant : gen'[h] = IF h = g THEN gen[g] + 1 ELSE gen[h]
      BY <1>1, <1>6
    <2>. QED
      <3>. SUFFICES ASSUME NEW u \in Seen' PROVE u[2] <= gen'[u[1]]
        BY DEF Numbered
      <3>1. CASE u = t
        BY <3>1, <2>3, <1>6
      <3>2. CASE u \in Seen
        BY <3>2, <2>2, <2>3, <1>6
      <3>. QED  BY <2>1, <3>1, <3>2
  <1>9. \A h \in Grant : h # g => gen'[h] = gen[h]
    BY <1>1, <1>6
  <1>. QED  BY <1>7, <1>8, <1>9

(* A code's grant has drawn no token, so memory, the file and its past     *)
(* know none of the grant.                                                 *)
LEMMA CodeGrantFresh ==
  ASSUME TokenInv, NEW g \in DOMAIN codes
  PROVE  g \in Grant /\ \A u \in Seen : u[1] # g
  <1>1. g \in Grant /\ gen[g] = 0
    BY DEF TokenInv, TypeOK, FreshGrants, IsDict
  <1>2. \A u \in Seen : u[2] >= 1 /\ u[2] \in Int /\ u[2] <= gen[u[1]]
    <2>1. Seen \subseteq Token
      BY DEF TokenInv, TypeOK, Seen, IsDict, IsFile
    <2>. QED  BY <2>1, TimeAssumption DEF TokenInv, Numbered, Token
  <1>. QED  BY <1>1, <1>2

LEMMA ExchangeCodeTokenStep ==
  ASSUME TokenInv, TypeOK', NEW g \in Grant, NEW o \in Outcome, ExchangeCode(g, o)
  PROVE  TokenInv' /\ FileStep
  <1>1. /\ g \in DOMAIN codes /\ codes[g].client \in DOMAIN clients
        /\ codes' = Consumed(g)
        /\ Issue(g, codes[g].client, refresh, o)
        /\ UNCHANGED <<up, minted, spent>> /\ up
    BY DEF ExchangeCode
  <1>2. \A u \in Seen : u[1] # g
    BY <1>1, CodeGrantFresh
  <1>3. /\ \A t \in Unrevoked(refresh) : t[1] # g
        /\ ~ \E u \in ever : u[1] = g
        /\ spent' \subseteq Seen
    BY <1>1, <1>2 DEF Seen, Unrevoked
  <1>4. /\ Sound(clients', refresh')
        /\ Sound(disk'.clients, disk'.refresh)
        /\ Ahead(refresh', disk', ever')
        /\ Numbered'
        /\ \A h \in Grant : h # g => gen'[h] = gen[h]
        /\ FileStep
    BY <1>1, <1>3, IssueSound DEF TokenInv, TypeOK
  <1>5. FreshGrants'
    <2>1. DOMAIN codes' = DOMAIN codes \ {g}
      BY <1>1 DEF Consumed, Drop
    <2>2. g \in minted
      BY <1>1 DEF TokenInv, FreshGrants
    <2>. QED  BY <1>1, <1>4, <2>1, <2>2 DEF TokenInv, FreshGrants
  <1>6. EmptyWhenDown'
    BY <1>1 DEF EmptyWhenDown
  <1>7. Sound(clients, refresh)' /\ Sound(disk.clients, disk.refresh)'
    BY <1>1, <1>4 DEF Sound
  <1>. QED  BY <1>4, <1>5, <1>6, <1>7 DEF TokenInv

LEMMA ExchangeRefreshTokenStep ==
  ASSUME TokenInv, TypeOK', NEW t \in Token, NEW o \in Outcome, ExchangeRefresh(t, o)
  PROVE  TokenInv' /\ FileStep
  <1>. DEFINE g   == t[1]
              rts == Revoked(refresh, t)
  <1>1. /\ t \in DOMAIN held /\ t \in DOMAIN refresh /\ ~refresh[t].revoked
        /\ Issue(g, refresh[t].client, rts, o)
        /\ spent' = IF o = "answered" THEN spent \cup {t} ELSE spent
        /\ UNCHANGED <<codes, up, minted>> /\ up
    BY DEF ExchangeRefresh, Refreshable
  <1>2. IsDict(refresh, Token, RefreshRec)
    BY DEF TokenInv, TypeOK
  <1>3. /\ g \in Grant /\ refresh[t].client \in DOMAIN clients
        /\ IsDict(rts, Token, RefreshRec)
    BY <1>1, <1>2, RevokedIsDict DEF Token, TokenInv, Sound, Owned
  <1>4. /\ DOMAIN rts = DOMAIN refresh
        /\ \A u \in DOMAIN refresh : rts[u].revoked <=> refresh[u].revoked \/ u = t
    BY <1>2, RevokedFacts
  <1>5. Sound(clients, rts) /\ Ahead(rts, disk, ever)
    BY <1>2, RevokeSound DEF TokenInv
  <1>6. t \in Unrevoked(refresh) /\ t \in Seen
    BY <1>1 DEF Unrevoked, Seen
  <1>. HIDE DEF rts
  <1>7. \A u \in Unrevoked(rts) : u[1] # g
    BY <1>1, <1>4 DEF Unrevoked, TokenInv, Sound, AtMostOneLive
  <1>8. (\E u \in ever : u[1] = g) => (\E u \in Unrevoked(disk.refresh) : u[1] = g)
    BY <1>6 DEF TokenInv, Ahead
  <1>9. spent' \subseteq Seen
    BY <1>1, <1>6 DEF Seen
  <1>10. /\ Sound(clients', refresh')
         /\ Sound(disk'.clients, disk'.refresh)
         /\ Ahead(refresh', disk', ever')
         /\ Numbered'
         /\ \A h \in Grant : h # g => gen'[h] = gen[h]
         /\ FileStep
    BY <1>1, <1>3, <1>4, <1>5, <1>7, <1>8, <1>9, IssueSound
  <1>11. FreshGrants'
    <2>1. g \in minted /\ g \notin DOMAIN codes
      <3>1. t[2] >= 1 /\ t[2] \in Int /\ t[2] <= gen[g] /\ gen[g] \in Int
        BY <1>3, <1>6, TimeAssumption DEF Token, TokenInv, TypeOK, Numbered
      <3>. QED  BY <1>3, <3>1 DEF TokenInv, FreshGrants
    <2>. QED  BY <1>1, <1>10, <2>1 DEF TokenInv, FreshGrants
  <1>12. EmptyWhenDown'
    BY <1>1 DEF EmptyWhenDown
  <1>13. o = "answered" => Dead(refresh', t) /\ Dead(disk'.refresh, t)
    <2>. SUFFICES ASSUME o = "answered" PROVE Dead(refresh', t) /\ Dead(disk'.refresh, t)
      OBVIOUS
    <2>. DEFINE new == Put(rts, <<g, gen[g] + 1>>, NewRefresh(refresh[t].client))
    <2>1. refresh' = Purged(new) /\ disk'.refresh = Purged(new)
      BY <1>1 DEF Issue, Persist, WriteFile
    <2>2. t # <<g, gen[g] + 1>>
      <3>1. t[2] \in Int /\ t[2] <= gen[g] /\ gen[g] \in Int
        BY <1>3, <1>6, TimeAssumption DEF Token, TokenInv, TypeOK, Numbered
      <3>. QED  BY <3>1
    <2>3. new[t].revoked
      BY <1>1, <1>4, <2>2 DEF Put
    <2>. HIDE DEF new
    <2>4. Dead(Purged(new), t)
      BY <2>3 DEF Dead, Purged, Drop
    <2>. QED  BY <2>1, <2>4
  <1>14. Sound(clients, refresh)' /\ Sound(disk.clients, disk.refresh)'
    BY <1>1, <1>10, <1>13 DEF Sound, AllDead
  <1>. QED  BY <1>10, <1>11, <1>12, <1>14 DEF TokenInv

LEMMA BadScopeTokenStep ==
  ASSUME TokenInv, TypeOK', NEW t \in Token, ExchangeRefreshBadScope(t)
  PROVE  TokenInv' /\ FileStep
  <1>1. /\ refresh' = Revoked(refresh, t)
        /\ UNCHANGED <<clients, codes, disk, up, gen, minted, held, spent, ever>> /\ up
    BY DEF ExchangeRefreshBadScope
  <1>2. Sound(clients', refresh') /\ Ahead(refresh', disk, ever)
    BY <1>1, RevokeSound DEF TokenInv, TypeOK
  <1>3. DOMAIN refresh' = DOMAIN refresh
    BY <1>1 DEF Revoked
  <1>4. Numbered'
    BY <1>1, <1>3, SeenStep DEF TokenInv, Seen
  <1>5. FreshGrants' /\ EmptyWhenDown'
    BY <1>1 DEF TokenInv, FreshGrants, EmptyWhenDown
  <1>6. Sound(clients, refresh)' /\ Sound(disk.clients, disk.refresh)'
    BY <1>1, <1>2 DEF TokenInv, Sound
  <1>. QED  BY <1>1, <1>2, <1>4, <1>5, <1>6, NoFileStep DEF TokenInv

LEMMA RevokeTokenStep ==
  ASSUME TokenInv, TypeOK', NEW t \in Token, NEW o \in Outcome, Revoke(t, o)
  PROVE  TokenInv' /\ FileStep
  <1>. DEFINE rts == Revoked(refresh, t)
  <1>1. /\ t \in DOMAIN held
        /\ Persist(clients, rts, o)
        /\ spent' = IF o = "answered" THEN spent \cup {t} ELSE spent
        /\ UNCHANGED <<codes, up, gen, minted, held>> /\ up
    BY DEF Revoke
  <1>2. DOMAIN rts = DOMAIN refresh
    BY DEF Revoked
  <1>3. Sound(clients, rts) /\ Ahead(rts, disk, ever) /\ Dead(rts, t)
    BY RevokeSound DEF TokenInv, TypeOK
  <1>. HIDE DEF rts
  <1>4. /\ Sound(clients', refresh')
        /\ Sound(disk'.clients, disk'.refresh)
        /\ Ahead(refresh', disk', ever')
        /\ ever' \subseteq ever \cup DOMAIN rts
        /\ DOMAIN refresh' \subseteq DOMAIN rts
        /\ DOMAIN disk'.refresh \subseteq DOMAIN rts \cup DOMAIN disk.refresh
        /\ FileStep
    BY <1>1, <1>3, PersistSound DEF TokenInv
  <1>5. Numbered'
    BY <1>1, <1>2, <1>4, SeenStep DEF TokenInv, Seen
  <1>6. FreshGrants' /\ EmptyWhenDown'
    BY <1>1 DEF TokenInv, FreshGrants, EmptyWhenDown
  <1>7. o = "answered" => Dead(refresh', t) /\ Dead(disk'.refresh, t)
    <2>1. Dead(Purged(rts), t)
      BY <1>3 DEF Dead, Purged, Drop
    <2>. QED  BY <1>1, <2>1 DEF Persist, WriteFile
  <1>8. Sound(clients, refresh)' /\ Sound(disk.clients, disk.refresh)'
    BY <1>1, <1>4, <1>7 DEF Sound, AllDead
  <1>. QED  BY <1>4, <1>5, <1>6, <1>8 DEF TokenInv

LEMMA TokenEndpointTokenStep ==
  ASSUME TokenInv, TypeOK', TokenEndpoint PROVE TokenInv' /\ FileStep
  <1>1. ASSUME NEW g \in Grant, ExchangeCodeRefused(g) PROVE TokenInv' /\ FileStep
    <2>1. DOMAIN codes' \subseteq DOMAIN codes
      BY <1>1 DEF ExchangeCodeRefused, Consumed, Drop
    <2>. QED  BY <1>1, <2>1, QuietStep DEF ExchangeCodeRefused, history
  <1>. QED
    BY <1>1, ExchangeCodeTokenStep, ExchangeRefreshTokenStep, BadScopeTokenStep,
       RevokeTokenStep DEF TokenEndpoint

-----------------------------------------------------------------------------
(* Death and start.                                                        *)

LEMMA CrashTokenStep ==
  ASSUME TokenInv, TypeOK', Crash PROVE TokenInv' /\ FileStep
  <1>1. /\ clients' = Empty /\ refresh' = Empty /\ codes' = Empty
        /\ UNCHANGED <<disk, gen, minted, held, spent, ever>>
    BY DEF Crash, history
  <1>2. DOMAIN Empty = {}
    BY DEF Empty
  <1>3. Sound(clients', refresh') /\ Ahead(refresh', disk, ever)
    BY <1>1, <1>2 DEF Sound, Owned, AtMostOneLive, AllDead, Dead, Ahead, Unrevoked
  <1>4. Numbered'
    BY <1>1, <1>2, SeenStep DEF TokenInv, Seen
  <1>5. FreshGrants' /\ EmptyWhenDown'
    BY <1>1, <1>2 DEF TokenInv, FreshGrants, EmptyWhenDown
  <1>6. Sound(clients, refresh)' /\ Sound(disk.clients, disk.refresh)'
    BY <1>1, <1>3 DEF TokenInv, Sound
  <1>. QED  BY <1>1, <1>3, <1>4, <1>5, <1>6, NoFileStep DEF TokenInv

LEMMA StartTokenStep ==
  ASSUME TokenInv, TypeOK', NEW o \in Outcome, Start(o) PROVE TokenInv' /\ FileStep
  <1>1. PICK gone \in Evictions(disk.clients, disk.refresh, 0) :
          LET cls == Drop(disk.clients, gone)
              rts == TokensWithout(disk.refresh, gone)
          IN  IF gone = {}
              THEN /\ o = "answered"
                   /\ clients' = cls /\ refresh' = rts
                   /\ up' = TRUE
                   /\ UNCHANGED <<disk, ever>>
              ELSE IF o = "answered"
              THEN Persist(cls, rts, o) /\ up' = TRUE
              ELSE WriteFile(cls, Purged(rts), o) /\ UNCHANGED <<clients, refresh, up>>
    BY DEF Start
  <1>. DEFINE cls == Drop(disk.clients, gone)
              rts == TokensWithout(disk.refresh, gone)
  <1>2. UNCHANGED <<codes, gen, minted, held, spent>> /\ ~up
    BY DEF Start, history
  <1>3. Ahead(disk.refresh, disk, ever)
    BY DEF Ahead
  <1>4. Sound(cls, rts) /\ Ahead(rts, disk, ever)
    BY <1>3, EvictSound DEF TokenInv
  <1>5. Sound(cls, Purged(rts)) /\ Ahead(Purged(rts), disk, ever)
    BY <1>4, DropSound DEF Purged
  <1>6. DOMAIN rts \subseteq DOMAIN disk.refresh /\ DOMAIN Purged(rts) \subseteq DOMAIN disk.refresh
    BY DEF TokensWithout, Drop, Purged
  <1>7. clients = Empty /\ refresh = Empty /\ DOMAIN Empty = {}
    BY <1>2 DEF TokenInv, EmptyWhenDown, Empty
  <1>. DEFINE Goal == /\ Sound(clients', refresh')
                      /\ Sound(disk'.clients, disk'.refresh)
                      /\ Ahead(refresh', disk', ever')
                      /\ ever' \subseteq ever \cup DOMAIN disk.refresh
                      /\ DOMAIN refresh' \subseteq DOMAIN disk.refresh
                      /\ DOMAIN disk'.refresh \subseteq DOMAIN disk.refresh
                      /\ EmptyWhenDown'
                      /\ FileStep
  <1>. HIDE DEF cls, rts
  <1>8. ASSUME gone = {} PROVE Goal
    <2>1. clients' = cls /\ refresh' = rts /\ up' = TRUE /\ disk' = disk /\ ever' = ever
      BY <1>1, <1>8 DEF cls, rts
    <2>. QED  BY <2>1, <1>4, <1>6, NoFileStep DEF TokenInv, EmptyWhenDown
  <1>9. ASSUME gone # {}, o = "answered" PROVE Goal
    <2>1. Persist(cls, rts, o) /\ up' = TRUE
      BY <1>1, <1>9 DEF cls, rts
    <2>. QED  BY <2>1, <1>4, <1>6, PersistSound DEF TokenInv, EmptyWhenDown
  <1>10. ASSUME gone # {}, o # "answered" PROVE Goal
    <2>1. WriteFile(cls, Purged(rts), o) /\ clients' = clients /\ refresh' = refresh /\ up' = up
      BY <1>1, <1>10 DEF cls, rts
    <2>2. Sound(clients', refresh') /\ Ahead(refresh', disk', ever') /\ EmptyWhenDown'
      BY <2>1, <1>7 DEF TokenInv, Sound, Ahead, Unrevoked, EmptyWhenDown
    <2>. QED  BY <2>1, <2>2, <1>5, <1>6, <1>7, WriteSound DEF TokenInv
  <1>11. Goal
    BY <1>8, <1>9, <1>10
  <1>12. Numbered'
    BY <1>2, <1>11, SeenStep DEF TokenInv, Seen
  <1>13. FreshGrants'
    BY <1>2 DEF TokenInv, FreshGrants
  <1>14. Sound(clients, refresh)' /\ Sound(disk.clients, disk.refresh)'
    BY <1>2, <1>11 DEF Sound
  <1>. QED  BY <1>11, <1>12, <1>13, <1>14 DEF TokenInv

-----------------------------------------------------------------------------
(* The invariant, and what follows from it.                                *)

LEMMA TokenInit == Init => TokenInv
  <1>. SUFFICES ASSUME Init PROVE TokenInv
    OBVIOUS
  <1>1. DOMAIN Empty = {}
    BY DEF Empty
  <1>2. /\ clients = Empty /\ refresh = Empty /\ codes = Empty /\ held = Empty
        /\ disk.clients = Empty /\ disk.refresh = Empty /\ spent = {} /\ ever = {}
        /\ gen = [g \in Grant |-> 0]
    BY DEF Init
  <1>3. Numbered /\ FreshGrants /\ EmptyWhenDown
    BY <1>1, <1>2 DEF Numbered, Seen, FreshGrants, EmptyWhenDown
  <1>4. Sound(Empty, Empty) /\ Ahead(refresh, disk, ever)
    BY <1>1, <1>2 DEF Sound, Owned, AtMostOneLive, AllDead, Ahead, Unrevoked
  <1>. QED  BY <1>2, <1>3, <1>4, InitType DEF TokenInv

LEMMA TokenStep == TokenInv /\ [Next]_vars => TokenInv' /\ FileStep
  <1>. SUFFICES ASSUME TokenInv, [Next]_vars PROVE TokenInv' /\ FileStep
    OBVIOUS
  <1>0. TypeOK'
    BY StepType DEF TokenInv
  <1>1. CASE Registration
    BY <1>0, <1>1, RegistrationTokenStep
  <1>2. CASE Authorization
    BY <1>0, <1>2, ConsentTokenStep, CodeTokenStep
  <1>3. CASE TokenEndpoint
    BY <1>0, <1>3, TokenEndpointTokenStep
  <1>4. CASE Crash
    BY <1>0, <1>4, CrashTokenStep
  <1>5. ASSUME NEW o \in Outcome, Start(o) PROVE TokenInv' /\ FileStep
    BY <1>0, <1>5, StartTokenStep
  <1>6. CASE Tick
    BY <1>0, <1>6, QuietStep DEF Tick, memory, history
  <1>7. CASE UNCHANGED vars
    BY <1>0, <1>7, QuietStep DEF vars, memory, history
  <1>. QED  BY <1>1, <1>2, <1>3, <1>4, <1>5, <1>6, <1>7 DEF Next

LEMMA TokenInvariant == Spec => []TokenInv
  BY TokenInit, TokenStep, PTL DEF Spec

(* No eviction, failed save or restart ever leaves a refresh token without *)
(* the registered client it belongs to, in memory or in the file.          *)
THEOREM TokensAlwaysOwned == Spec => []RefreshTokensOwned
  <1>1. TokenInv => RefreshTokensOwned
    BY DEF TokenInv, Sound, RefreshTokensOwned
  <1>. QED  BY <1>1, TokenInvariant, PTL

(* Rotation never leaves two unrevoked refresh tokens of one grant.        *)
THEOREM RotationLeavesOne == Spec => []OneLiveTokenPerGrant
  <1>1. TokenInv => OneLiveTokenPerGrant
    BY DEF TokenInv, Sound, OneLiveTokenPerGrant
  <1>. QED  BY <1>1, TokenInvariant, PTL

(* An acknowledged rotation or revocation is final: neither the running    *)
(* service nor any later one honours the token.                            *)
THEOREM SpentStaysDead == Spec => []SpentTokensDead
  <1>1. TokenInv => SpentTokensDead
    BY DEF TokenInv, Sound, AllDead, SpentTokensDead
  <1>. QED  BY <1>1, TokenInvariant, PTL

(* The service with its failing saves and restarts implements the abstract *)
(* lifecycle of grants.                                                    *)
THEOREM FileImplementsLifecycle == Spec => GrantPromise
  <1>1. Init => Lifecycle!Init
    BY DEF Init, Lifecycle!Init, Unrevoked, Empty
  <1>2. TokenInv /\ [Next]_vars => [Lifecycle!Save]_<<Unrevoked(disk.refresh), ever>>
    BY TokenStep DEF FileStep
  <1>. QED  BY <1>1, <1>2, TokenInvariant, PTL DEF Spec, GrantPromise, Lifecycle!Spec

-----------------------------------------------------------------------------
(* What is in a client's hands.  The invariant is stronger than the        *)
(* property: the service also agrees with the client on the expiry, for a  *)
(* cleanup reads the one and the client the other.                         *)

Carries(rts, t, e) == Good(rts, t) /\ rts[t].expires_at = e

HeldInv ==
  \A t \in DOMAIN held \ tried :
    held[t] >= now =>
      Carries(disk.refresh, t, held[t]) /\ (up => Carries(refresh, t, held[t]))

(* A step that takes no carried token away from memory or from the file.   *)
Spares ==
  \A t \in DOMAIN held \ tried' :
    (held[t] >= now /\ Carries(disk.refresh, t, held[t]) /\ (up => Carries(refresh, t, held[t])))
      => Carries(disk'.refresh, t, held[t]) /\ (up' => Carries(refresh', t, held[t]))

LEMMA SparedIsHeld ==
  ASSUME TypeOK, HeldInv, Spares, held' = held, tried \subseteq tried',
         now' \in Nat, now <= now'
  PROVE  HeldInv'
  <1>1. \A t \in DOMAIN held : held[t] \in Nat /\ now \in Nat
    BY DEF TypeOK, IsDict, Time
  <1>. SUFFICES ASSUME NEW t \in DOMAIN held \ tried', held[t] >= now'
                PROVE  Carries(disk'.refresh, t, held[t]) /\ (up' => Carries(refresh', t, held[t]))
    BY DEF HeldInv
  <1>2. t \in DOMAIN held \ tried /\ held[t] >= now
    BY <1>1
  <1>. QED  BY <1>2 DEF HeldInv, Spares

LEMMA DropCarries ==
  ASSUME NEW rts, NEW S, NEW t, NEW e, Carries(rts, t, e), t \notin S
  PROVE  Carries(Drop(rts, S), t, e)
  BY DEF Carries, Good, Drop

LEMMA PurgedCarries ==
  ASSUME NEW rts, NEW t, NEW e, Carries(rts, t, e)
  PROVE  Carries(Purged(rts), t, e)
  <1>1. t \notin {u \in DOMAIN rts : rts[u].revoked /\ rts[u].expires_at < now}
    BY DEF Carries, Good
  <1>. QED  BY <1>1, DropCarries DEF Purged

LEMMA EvictCarries ==
  ASSUME NEW cls, NEW rts, NEW reserve, NEW gone \in Evictions(cls, rts, reserve),
         NEW t, NEW e, Carries(rts, t, e), e >= now
  PROVE  Carries(TokensWithout(rts, gone), t, e)
  <1>1. t \in DOMAIN rts /\ Live(rts[t])
    BY DEF Carries, Good, Live
  <1>2. t \notin {u \in DOMAIN rts : rts[u].client \in gone}
    BY <1>1, EvictionsKeep
  <1>. QED  BY <1>2, DropCarries DEF TokensWithout

LEMMA RevokeCarries ==
  ASSUME NEW rts, IsDict(rts, Token, RefreshRec), NEW u, NEW t, u # t,
         NEW e, Carries(rts, t, e)
  PROVE  Carries(Revoked(rts, u), t, e)
  BY DEF Carries, Good, Revoked, IsDict

LEMMA PutCarries ==
  ASSUME NEW rts, NEW u, NEW v, NEW t, u # t, NEW e, Carries(rts, t, e)
  PROVE  Carries(Put(rts, u, v), t, e)
  BY DEF Carries, Good, Put

LEMMA WriteCarries ==
  ASSUME NEW cls, NEW rts, NEW o, WriteFile(cls, rts, o), NEW t, NEW e,
         Carries(rts, t, e), o = "unsaved" => Carries(disk.refresh, t, e)
  PROVE  Carries(disk'.refresh, t, e)
  BY DEF WriteFile

LEMMA PersistCarries ==
  ASSUME NEW cls, NEW rts, NEW o, Persist(cls, rts, o), NEW t, NEW e,
         Carries(rts, t, e), o = "unsaved" => Carries(disk.refresh, t, e)
  PROVE  Carries(disk'.refresh, t, e) /\ Carries(refresh', t, e)
  <1>1. Carries(Purged(rts), t, e)
    BY PurgedCarries
  <1>. QED  BY <1>1, WriteCarries DEF Persist

-----------------------------------------------------------------------------
LEMMA QuietHeld ==
  ASSUME UNCHANGED <<refresh, disk>>, up' => up PROVE Spares
  BY DEF Spares

LEMMA RegistrationHeld ==
  ASSUME TokenInv, Registration PROVE Spares
  <1>1. ASSUME NEW c \in Client, NEW o \in Outcome, Register(c, o) PROVE Spares
    <2>1. PICK gone \in Evictions(clients, refresh, 1) :
            Persist(Put(Drop(clients, gone), c, [issued_at |-> now, last_used_at |-> now]),
                    TokensWithout(refresh, gone), o)
      BY <1>1 DEF Register
    <2>2. up
      BY <1>1 DEF Register
    <2>. QED  BY <2>1, <2>2, EvictCarries, PersistCarries DEF Spares
  <1>2. ASSUME RegisterRefused PROVE Spares
    <2>1. PICK gone \in Evictions(clients, refresh, 1) :
            clients' = Drop(clients, gone) /\ refresh' = TokensWithout(refresh, gone)
      BY <1>2 DEF RegisterRefused
    <2>2. up /\ disk' = disk
      BY <1>2 DEF RegisterRefused
    <2>. QED  BY <2>1, <2>2, EvictCarries DEF Spares
  <1>. QED  BY <1>1, <1>2 DEF Registration

LEMMA AuthorizationHeld ==
  ASSUME TokenInv, Authorization
  PROVE  Spares /\ UNCHANGED <<held, tried, now>>
  <1>1. ASSUME NEW th \in Thread, NEW c \in Client, BeginLookup(th, c)
        PROVE  UNCHANGED <<refresh, disk, up, held, tried, now>>
    BY <1>1 DEF BeginLookup, memory, history
  <1>2. ASSUME NEW th \in Thread, NEW r \in Request, BeginAdmit(th, r)
        PROVE  UNCHANGED <<refresh, disk, up, held, tried, now>>
    BY <1>2 DEF BeginAdmit
  <1>3. ASSUME NEW th \in Thread, BeginRefused(th)
        PROVE  UNCHANGED <<refresh, disk, up, held, tried, now>>
    BY <1>3 DEF BeginRefused, history
  <1>4. ASSUME NEW r \in Request, CompleteDismiss(r)
        PROVE  UNCHANGED <<refresh, disk, up, held, tried, now>>
    BY <1>4 DEF CompleteDismiss, history
  <1>5. ASSUME NEW th \in Thread, NEW r \in Request, CompletePop(th, r)
        PROVE  UNCHANGED <<refresh, disk, up, held, tried, now>>
    BY <1>5 DEF CompletePop, history
  <1>6. ASSUME NEW th \in Thread, CompleteReinsert(th)
        PROVE  UNCHANGED <<refresh, disk, up, held, tried, now>>
    BY <1>6 DEF CompleteReinsert, history
  <1>7. ASSUME NEW th \in Thread, CompleteApprove(th)
        PROVE  UNCHANGED <<refresh, disk, up, held, tried, now>>
    BY <1>7 DEF CompleteApprove, history
  <1>8. ASSUME NEW th \in Thread, NEW g \in Grant, NEW o \in Outcome, CompleteIssue(th, g, o)
        PROVE  Spares /\ UNCHANGED <<held, tried, now>>
    <2>1. Persist(clients, refresh, o) /\ up /\ UNCHANGED <<held, tried, now>>
      BY <1>8 DEF CompleteIssue
    <2>. QED  BY <2>1, PersistCarries DEF Spares
  <1>. QED  BY <1>1, <1>2, <1>3, <1>4, <1>5, <1>6, <1>7, <1>8, QuietHeld DEF Authorization

(* Issuing a pair: nobody holds the new token yet, and whoever is told of  *)
(* it is told after the save.                                              *)
LEMMA IssueHeld ==
  ASSUME TokenInv, HeldInv, NEW g \in Grant, NEW c, NEW rts, NEW o,
         Issue(g, c, rts, o), up, now' = now, tried \subseteq tried',
         \A t \in DOMAIN held \ tried' : Carries(refresh, t, held[t]) => Carries(rts, t, held[t])
  PROVE  HeldInv'
  <1>. DEFINE new  == <<g, gen[g] + 1>>
              e    == now + REFRESH_TTL
              next == Put(rts, new, NewRefresh(c))
  <1>1. /\ Persist(Touched(clients, c), next, o)
        /\ held' = IF o = "answered" THEN Put(held, new, e) ELSE held
    BY DEF Issue
  <1>2. new \notin DOMAIN held
    <2>1. gen[g] \in Int /\ new[1] = g /\ new[2] = gen[g] + 1
      BY TimeAssumption DEF TokenInv, TypeOK
    <2>. HIDE DEF new
    <2>2. SUFFICES ASSUME new \in DOMAIN held PROVE FALSE
      OBVIOUS
    <2>. QED  BY <2>1, <2>2 DEF TokenInv, Numbered, Seen
  <1>3. Carries(next, new, e)
    BY DEF Carries, Good, Put, NewRefresh
  <1>4. /\ DOMAIN held' = DOMAIN held \cup (IF o = "answered" THEN {new} ELSE {})
        /\ \A t \in DOMAIN held : held'[t] = held[t]
        /\ o = "answered" => held'[new] = e
    BY <1>1, <1>2 DEF Put
  <1>. SUFFICES ASSUME NEW t \in DOMAIN held' \ tried', held'[t] >= now'
                PROVE  Carries(disk'.refresh, t, held'[t]) /\ Carries(refresh', t, held'[t])
    BY DEF HeldInv
  <1>. HIDE DEF new, e, next
  <1>5. CASE t \in DOMAIN held
    <2>1. t \in DOMAIN held \ tried' /\ t # new /\ held'[t] = held[t] /\ held[t] >= now
      BY <1>2, <1>4, <1>5
    <2>2. Carries(disk.refresh, t, held[t]) /\ Carries(rts, t, held[t])
      BY <2>1 DEF HeldInv
    <2>3. Carries(next, t, held[t])
      BY <2>1, <2>2, PutCarries DEF next
    <2>. QED  BY <1>1, <2>1, <2>2, <2>3, PersistCarries
  <1>6. CASE t \notin DOMAIN held
    <2>1. t = new /\ o = "answered" /\ held'[t] = e
      BY <1>4, <1>6
    <2>. QED  BY <1>1, <1>3, <2>1, PersistCarries
  <1>. QED  BY <1>5, <1>6

LEMMA TokenEndpointHeld ==
  ASSUME TokenInv, HeldInv, TokenEndpoint PROVE HeldInv'
  <1>0. /\ IsDict(refresh, Token, RefreshRec)
        /\ now \in Nat /\ now <= now
    BY DEF TokenInv, TypeOK, Time
  <1>1. ASSUME NEW g \in Grant, NEW o \in Outcome, ExchangeCode(g, o) PROVE HeldInv'
    <2>1. Issue(g, codes[g].client, refresh, o) /\ up /\ now' = now /\ tried' = tried
      BY <1>1 DEF ExchangeCode
    <2>. QED  BY <2>1, IssueHeld
  <1>2. ASSUME NEW g \in Grant, ExchangeCodeRefused(g) PROVE HeldInv'
    <2>1. UNCHANGED <<refresh, disk, up, now, held, tried>>
      BY <1>2 DEF ExchangeCodeRefused, history
    <2>. QED  BY <2>1, <1>0, QuietHeld, SparedIsHeld DEF TokenInv
  <1>3. ASSUME NEW t \in Token, NEW o \in Outcome, ExchangeRefresh(t, o) PROVE HeldInv'
    <2>1. /\ Issue(t[1], refresh[t].client, Revoked(refresh, t), o)
          /\ up /\ now' = now /\ tried' = tried \cup {t}
      BY <1>3 DEF ExchangeRefresh
    <2>2. \A u \in DOMAIN held \ tried' :
            Carries(refresh, u, held[u]) => Carries(Revoked(refresh, t), u, held[u])
      BY <2>1, <1>0, RevokeCarries
    <2>3. t[1] \in Grant
      BY DEF Token
    <2>. QED  BY <2>1, <2>2, <2>3, IssueHeld
  <1>4. ASSUME NEW t \in Token, ExchangeRefreshBadScope(t) PROVE HeldInv'
    <2>1. /\ refresh' = Revoked(refresh, t) /\ tried' = tried \cup {t} /\ up
          /\ UNCHANGED <<disk, now, held>>
      BY <1>4 DEF ExchangeRefreshBadScope
    <2>2. Spares
      BY <2>1, <1>0, RevokeCarries DEF Spares
    <2>. QED  BY <2>1, <2>2, <1>0, SparedIsHeld DEF TokenInv
  <1>5. ASSUME NEW t \in Token, NEW o \in Outcome, Revoke(t, o) PROVE HeldInv'
    <2>1. /\ Persist(clients, Revoked(refresh, t), o) /\ tried' = tried \cup {t} /\ up
          /\ UNCHANGED <<now, held>>
      BY <1>5 DEF Revoke
    <2>2. Spares
      BY <2>1, <1>0, RevokeCarries, PersistCarries DEF Spares
    <2>. QED  BY <2>1, <2>2, <1>0, SparedIsHeld DEF TokenInv
  <1>. QED  BY <1>1, <1>2, <1>3, <1>4, <1>5 DEF TokenEndpoint

LEMMA StartHeld ==
  ASSUME TokenInv, NEW o \in Outcome, Start(o) PROVE Spares
  <1>1. PICK gone \in Evictions(disk.clients, disk.refresh, 0) :
          LET cls == Drop(disk.clients, gone)
              rts == TokensWithout(disk.refresh, gone)
          IN  IF gone = {}
              THEN /\ o = "answered"
                   /\ clients' = cls /\ refresh' = rts
                   /\ up' = TRUE
                   /\ UNCHANGED <<disk, ever>>
              ELSE IF o = "answered"
              THEN Persist(cls, rts, o) /\ up' = TRUE
              ELSE WriteFile(cls, Purged(rts), o) /\ UNCHANGED <<clients, refresh, up>>
    BY DEF Start
  <1>. DEFINE cls == Drop(disk.clients, gone)
              rts == TokensWithout(disk.refresh, gone)
  <1>2. ~up
    BY DEF Start
  <1>. SUFFICES ASSUME NEW t \in DOMAIN held, held[t] >= now, Carries(disk.refresh, t, held[t])
                PROVE  Carries(disk'.refresh, t, held[t]) /\ (up' => Carries(refresh', t, held[t]))
    BY DEF Spares
  <1>3. Carries(rts, t, held[t]) /\ Carries(Purged(rts), t, held[t])
    BY EvictCarries, PurgedCarries
  <1>. HIDE DEF cls, rts
  <1>4. CASE gone = {}
    <2>1. refresh' = rts /\ disk' = disk
      BY <1>1, <1>4 DEF cls, rts
    <2>. QED  BY <2>1, <1>3
  <1>5. CASE gone # {} /\ o = "answered"
    <2>1. Persist(cls, rts, o)
      BY <1>1, <1>5 DEF cls, rts
    <2>. QED  BY <2>1, <1>3, PersistCarries
  <1>6. CASE gone # {} /\ o # "answered"
    <2>1. WriteFile(cls, Purged(rts), o) /\ up' = up
      BY <1>1, <1>6 DEF cls, rts
    <2>. QED  BY <2>1, <1>2, <1>3, WriteCarries
  <1>. QED  BY <1>4, <1>5, <1>6

LEMMA HeldStep == TokenInv /\ HeldInv /\ [Next]_vars => HeldInv'
  <1>. SUFFICES ASSUME TokenInv, HeldInv, [Next]_vars PROVE HeldInv'
    OBVIOUS
  <1>0. TypeOK /\ now \in Nat /\ now <= now
    BY DEF TokenInv, TypeOK, Time
  <1>1. CASE Registration
    <2>1. UNCHANGED <<held, tried, now>>
      BY <1>1 DEF Registration, Register, RegisterRefused, history
    <2>. QED  BY <1>0, <1>1, <2>1, RegistrationHeld, SparedIsHeld
  <1>2. CASE Authorization
    BY <1>0, <1>2, AuthorizationHeld, SparedIsHeld
  <1>3. CASE TokenEndpoint
    BY <1>3, TokenEndpointHeld
  <1>4. CASE Crash
    <2>1. up' = FALSE /\ disk' = disk /\ UNCHANGED <<held, tried, now>>
      BY <1>4 DEF Crash, history
    <2>2. Spares
      BY <2>1 DEF Spares
    <2>. QED  BY <1>0, <2>1, <2>2, SparedIsHeld
  <1>5. ASSUME NEW o \in Outcome, Start(o) PROVE HeldInv'
    <2>1. UNCHANGED <<held, tried, now>>
      BY <1>5 DEF Start, history
    <2>. QED  BY <1>0, <1>5, <2>1, StartHeld, SparedIsHeld
  <1>6. CASE Tick
    <2>1. now' = now + 1 /\ UNCHANGED <<refresh, disk, up, held, tried>>
      BY <1>6 DEF Tick, memory, history
    <2>. QED  BY <1>0, <2>1, QuietHeld, SparedIsHeld
  <1>7. CASE UNCHANGED vars
    <2>1. UNCHANGED <<refresh, disk, up, held, tried, now>>
      BY <1>7 DEF vars, memory, history
    <2>. QED  BY <1>0, <2>1, QuietHeld, SparedIsHeld
  <1>. QED  BY <1>1, <1>2, <1>3, <1>4, <1>5, <1>6, <1>7 DEF Next

(* A refresh token a client was given, has not used and may still use is   *)
(* honoured by the service and kept in the file: no failed save, cleanup,  *)
(* restart or request of another client ever costs it its session.         *)
THEOREM HeldStaysGood == Spec => []HeldTokensKept
  <1>1. Init => HeldInv
    BY DEF Init, HeldInv, Empty
  <1>2. HeldInv => HeldTokensKept
    BY DEF HeldInv, HeldTokensKept, Carries
  <1>. QED  BY <1>1, <1>2, HeldStep, TokenInvariant, PTL DEF Spec
=============================================================================
