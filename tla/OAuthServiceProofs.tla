------------------------- MODULE OAuthServiceProofs -------------------------
(* Theorems about OAuthService, for every value of its constants.          *)
EXTENDS OAuthService, TLAPS

-----------------------------------------------------------------------------
(* Dictionaries.                                                           *)

LEMMA EmptyIsDict ==
  ASSUME NEW K, NEW V
  PROVE  IsDict(Empty, K, V)
  BY DEF IsDict, Empty

LEMMA PutIsDict ==
  ASSUME NEW K, NEW V, NEW d, IsDict(d, K, V), NEW k \in K, NEW v \in V
  PROVE  IsDict(Put(d, k, v), K, V)
  BY DEF IsDict, Put

LEMMA DropIsDict ==
  ASSUME NEW K, NEW V, NEW d, IsDict(d, K, V), NEW S
  PROVE  IsDict(Drop(d, S), K, V)
  BY DEF IsDict, Drop

LEMMA TouchedIsDict ==
  ASSUME NEW cls, NEW c, IsDict(cls, Client, ClientRec), now \in Time
  PROVE  IsDict(Touched(cls, c), Client, ClientRec)
  BY DEF IsDict, Touched, ClientRec

LEMMA TouchedDomain ==
  ASSUME NEW cls, NEW c PROVE DOMAIN Touched(cls, c) = DOMAIN cls
  BY DEF Touched

LEMMA RevokedIsDict ==
  ASSUME NEW rts, NEW t, IsDict(rts, Token, RefreshRec)
  PROVE  IsDict(Revoked(rts, t), Token, RefreshRec)
  BY DEF IsDict, Revoked, RefreshRec

-----------------------------------------------------------------------------
(* A save, and the file, keep their types.                                 *)
LEMMA WriteFileType ==
  ASSUME NEW cls, NEW rts, NEW o, IsFile(disk), ever \subseteq Token,
         IsDict(cls, Client, ClientRec), IsDict(rts, Token, RefreshRec),
         WriteFile(cls, rts, o)
  PROVE  IsFile(disk') /\ ever' \subseteq Token
  <1>1. CASE o = "unsaved"
    BY <1>1 DEF WriteFile, IsFile
  <1>2. CASE o # "unsaved"
    <2>1. disk' = [clients |-> cls, refresh |-> rts] /\ ever' = ever \cup Unrevoked(rts)
      BY <1>2 DEF WriteFile
    <2>2. IsFile(disk')
      BY <2>1 DEF IsFile
    <2>3. Unrevoked(rts) \subseteq Token
      BY DEF Unrevoked, IsDict
    <2>. QED  BY <2>1, <2>2, <2>3
  <1>. QED  BY <1>1, <1>2

LEMMA PersistType ==
  ASSUME NEW cls, NEW rts, NEW o, IsFile(disk), ever \subseteq Token,
         IsDict(cls, Client, ClientRec), IsDict(rts, Token, RefreshRec),
         Persist(cls, rts, o)
  PROVE  /\ IsDict(clients', Client, ClientRec)
         /\ IsDict(refresh', Token, RefreshRec)
         /\ IsFile(disk')
         /\ ever' \subseteq Token
  <1>1. IsDict(Purged(rts), Token, RefreshRec)
    BY DropIsDict DEF Purged
  <1>. QED  BY <1>1, WriteFileType DEF Persist

-----------------------------------------------------------------------------
(* Type correctness.                                                       *)

LEMMA IdleType == Idle \in ThreadRec
  BY DEF ThreadRec

LEMMA BeginOrCodeType ==
  ASSUME NEW th \in Thread, thread[th] \in ThreadRec, thread[th].op \in {"begin", "code"}
  PROVE  thread[th].client \in Client /\ thread[th].expires_at \in Time
  BY DEF ThreadRec, Idle

LEMMA JudgeType ==
  ASSUME NEW th \in Thread, thread[th] \in ThreadRec, thread[th].op = "judge"
  PROVE  /\ thread[th].client \in Client /\ thread[th].expires_at \in Time
         /\ thread[th].request \in Request
  BY DEF ThreadRec, Idle

LEMMA RegistrationType == TypeOK /\ Registration => TypeOK'
  <1> SUFFICES ASSUME TypeOK, Registration PROVE TypeOK'
    OBVIOUS
  <1>1. ASSUME NEW c \in Client, NEW o \in Outcome, Register(c, o) PROVE TypeOK'
    <2>1. PICK gone \in Evictions(clients, refresh, 1) :
            Persist(Put(Drop(clients, gone), c, [issued_at |-> now, last_used_at |-> now]),
                    TokensWithout(refresh, gone), o)
      BY <1>1 DEF Register
    <2>2. IsDict(Put(Drop(clients, gone), c, [issued_at |-> now, last_used_at |-> now]),
                 Client, ClientRec)
      <3>1. [issued_at |-> now, last_used_at |-> now] \in ClientRec
        BY DEF TypeOK, ClientRec
      <3>2. IsDict(Drop(clients, gone), Client, ClientRec)
        BY DropIsDict DEF TypeOK
      <3>. QED  BY <3>1, <3>2, PutIsDict
    <2>3. IsDict(TokensWithout(refresh, gone), Token, RefreshRec)
      BY DropIsDict DEF TypeOK, TokensWithout
    <2>4. /\ IsDict(clients', Client, ClientRec)
          /\ IsDict(refresh', Token, RefreshRec)
          /\ IsFile(disk') /\ ever' \subseteq Token
      BY <2>1, <2>2, <2>3, PersistType DEF TypeOK
    <2>. QED  BY <1>1, <2>4 DEF Register, Answer, TypeOK
  <1>2. ASSUME RegisterRefused PROVE TypeOK'
    <2>1. IsDict(clients', Client, ClientRec) /\ IsDict(refresh', Token, RefreshRec)
      BY <1>2, DropIsDict DEF RegisterRefused, TypeOK, TokensWithout
    <2>. QED  BY <1>2, <2>1 DEF RegisterRefused, TypeOK, history
  <1>. QED  BY <1>1, <1>2 DEF Registration

LEMMA AuthorizationType == TypeOK /\ Authorization => TypeOK'
  <1> SUFFICES ASSUME TypeOK, Authorization PROVE TypeOK'
    OBVIOUS
  <1>1. ASSUME NEW th \in Thread, NEW c \in Client, BeginLookup(th, c) PROVE TypeOK'
    <2>1. [op |-> "begin", client |-> c, expires_at |-> now + CODE_TTL] \in ThreadRec
      BY TimeAssumption DEF TypeOK, ThreadRec, Time
    <2>. QED  BY <1>1, <2>1 DEF BeginLookup, TypeOK, memory, history
  <1>2. ASSUME NEW th \in Thread, NEW r \in Request, BeginAdmit(th, r) PROVE TypeOK'
    <2>1. [client |-> thread[th].client, expires_at |-> thread[th].expires_at] \in PendingRec
      BY <1>2, BeginOrCodeType DEF BeginAdmit, TypeOK, PendingRec
    <2>2. IsDict(Swept(pending), Request, PendingRec)
      BY DropIsDict DEF Swept, TypeOK
    <2>3. IsDict(pending', Request, PendingRec)
      BY <1>2, <2>1, <2>2, PutIsDict DEF BeginAdmit
    <2>. QED  BY <1>2, <2>3, IdleType DEF BeginAdmit, TypeOK
  <1>3. ASSUME NEW th \in Thread, BeginRefused(th) PROVE TypeOK'
    <2>1. IsDict(pending', Request, PendingRec)
      BY <1>3, DropIsDict DEF BeginRefused, Swept, TypeOK
    <2>. QED  BY <1>3, <2>1, IdleType DEF BeginRefused, TypeOK, history
  <1>4. ASSUME NEW r \in Request, CompleteDismiss(r) PROVE TypeOK'
    <2>1. IsDict(pending', Request, PendingRec)
      BY <1>4, DropIsDict DEF CompleteDismiss, Popped, TypeOK
    <2>. QED  BY <1>4, <2>1 DEF CompleteDismiss, TypeOK, history
  <1>5. ASSUME NEW th \in Thread, NEW r \in Request, CompletePop(th, r) PROVE TypeOK'
    <2>1. IsDict(pending', Request, PendingRec)
      BY <1>5, DropIsDict DEF CompletePop, Popped, TypeOK
    <2>2. [op |-> "judge", request |-> r, client |-> pending[r].client,
           expires_at |-> pending[r].expires_at] \in ThreadRec
      BY <1>5 DEF CompletePop, TypeOK, IsDict, PendingRec, ThreadRec
    <2>. QED  BY <1>5, <2>1, <2>2 DEF CompletePop, TypeOK, history
  <1>6. ASSUME NEW th \in Thread, CompleteReinsert(th) PROVE TypeOK'
    <2>1. /\ thread[th].request \in Request
          /\ [client |-> thread[th].client, expires_at |-> thread[th].expires_at] \in PendingRec
      BY <1>6, JudgeType DEF CompleteReinsert, TypeOK, PendingRec
    <2>2. IsDict(pending', Request, PendingRec)
      BY <1>6, <2>1, PutIsDict DEF CompleteReinsert, TypeOK
    <2>. QED  BY <1>6, <2>2, IdleType DEF CompleteReinsert, TypeOK, history
  <1>7. ASSUME NEW th \in Thread, CompleteApprove(th) PROVE TypeOK'
    <2>1. IsDict(clients', Client, ClientRec)
      BY <1>7, TouchedIsDict DEF CompleteApprove, TypeOK
    <2>2. [op |-> "code", client |-> thread[th].client, expires_at |-> now + CODE_TTL] \in ThreadRec
      BY <1>7, JudgeType, TimeAssumption DEF CompleteApprove, TypeOK, ThreadRec, Time
    <2>. QED  BY <1>7, <2>1, <2>2 DEF CompleteApprove, TypeOK, history
  <1>8. ASSUME NEW th \in Thread, NEW g \in Grant, NEW o \in Outcome, CompleteIssue(th, g, o)
        PROVE TypeOK'
    <2>1. [client |-> thread[th].client, expires_at |-> thread[th].expires_at] \in PendingRec
      BY <1>8, BeginOrCodeType DEF CompleteIssue, TypeOK, PendingRec
    <2>2. IsDict(codes', Grant, PendingRec)
      BY <1>8, <2>1, PutIsDict DEF CompleteIssue, TypeOK
    <2>3. /\ IsDict(clients', Client, ClientRec)
          /\ IsDict(refresh', Token, RefreshRec)
          /\ IsFile(disk') /\ ever' \subseteq Token
      BY <1>8, PersistType DEF CompleteIssue, TypeOK
    <2>. QED  BY <1>8, <2>2, <2>3, IdleType DEF CompleteIssue, Answer, TypeOK
  <1>. QED
    BY <1>1, <1>2, <1>3, <1>4, <1>5, <1>6, <1>7, <1>8 DEF Authorization

(* A newly issued pair: the step of both grant types.                      *)
LEMMA IssueType ==
  ASSUME TypeOK, NEW g \in Grant, NEW c \in Client, NEW rts, NEW o,
         IsDict(rts, Token, RefreshRec), Issue(g, c, rts, o)
  PROVE  /\ IsDict(clients', Client, ClientRec)
         /\ IsDict(refresh', Token, RefreshRec)
         /\ IsFile(disk') /\ ever' \subseteq Token
         /\ gen' \in [Grant -> 0 .. MaxGen]
         /\ IsDict(held', Token, Time)
  <1>. DEFINE t == <<g, gen[g] + 1>>
  <1>1. gen[g] \in 0 .. MaxGen /\ gen[g] < MaxGen /\ MaxGen \in Nat
    BY TimeAssumption DEF Issue, TypeOK
  <1>2. t \in Token
    BY <1>1 DEF Token
  <1>3. now + REFRESH_TTL \in Time
    BY TimeAssumption DEF TypeOK, Time
  <1>4. NewRefresh(c) \in RefreshRec
    BY <1>3 DEF NewRefresh, RefreshRec
  <1>5. IsDict(Put(rts, t, NewRefresh(c)), Token, RefreshRec)
    BY <1>2, <1>4, PutIsDict
  <1>6. IsDict(Touched(clients, c), Client, ClientRec)
    BY TouchedIsDict DEF TypeOK
  <1>7. /\ IsDict(clients', Client, ClientRec)
        /\ IsDict(refresh', Token, RefreshRec)
        /\ IsFile(disk') /\ ever' \subseteq Token
    BY <1>5, <1>6, PersistType DEF Issue, TypeOK
  <1>8. gen' \in [Grant -> 0 .. MaxGen]
    BY <1>1 DEF Issue, TypeOK
  <1>9. IsDict(Put(held, t, now + REFRESH_TTL), Token, Time)
    BY <1>2, <1>3, PutIsDict DEF TypeOK
  <1>. QED  BY <1>7, <1>8, <1>9 DEF Issue, TypeOK

LEMMA TokenEndpointType == TypeOK /\ TokenEndpoint => TypeOK'
  <1> SUFFICES ASSUME TypeOK, TokenEndpoint PROVE TypeOK'
    OBVIOUS
  <1>1. ASSUME NEW g \in Grant, NEW o \in Outcome, ExchangeCode(g, o) PROVE TypeOK'
    <2>1. codes[g].client \in Client
      BY <1>1 DEF ExchangeCode, TypeOK, IsDict, PendingRec
    <2>2. IsDict(codes', Grant, PendingRec)
      BY <1>1, DropIsDict DEF ExchangeCode, Consumed, TypeOK
    <2>3. /\ IsDict(clients', Client, ClientRec)
          /\ IsDict(refresh', Token, RefreshRec)
          /\ IsFile(disk') /\ ever' \subseteq Token
          /\ gen' \in [Grant -> 0 .. MaxGen]
          /\ IsDict(held', Token, Time)
      BY <1>1, <2>1, IssueType DEF ExchangeCode, TypeOK
    <2>. QED  BY <1>1, <2>2, <2>3 DEF ExchangeCode, TypeOK
  <1>2. ASSUME NEW g \in Grant, ExchangeCodeRefused(g) PROVE TypeOK'
    <2>1. IsDict(codes', Grant, PendingRec)
      BY <1>2, DropIsDict DEF ExchangeCodeRefused, Consumed, TypeOK
    <2>. QED  BY <1>2, <2>1 DEF ExchangeCodeRefused, TypeOK, history
  <1>3. ASSUME NEW t \in Token, NEW o \in Outcome, ExchangeRefresh(t, o) PROVE TypeOK'
    <2>1. refresh[t].client \in Client /\ t[1] \in Grant
      BY <1>3 DEF ExchangeRefresh, Refreshable, TypeOK, IsDict, RefreshRec, Token
    <2>2. IsDict(Revoked(refresh, t), Token, RefreshRec)
      BY RevokedIsDict DEF TypeOK
    <2>3. /\ IsDict(clients', Client, ClientRec)
          /\ IsDict(refresh', Token, RefreshRec)
          /\ IsFile(disk') /\ ever' \subseteq Token
          /\ gen' \in [Grant -> 0 .. MaxGen]
          /\ IsDict(held', Token, Time)
      BY <1>3, <2>1, <2>2, IssueType DEF ExchangeRefresh
    <2>. QED  BY <1>3, <2>3 DEF ExchangeRefresh, TypeOK
  <1>4. ASSUME NEW t \in Token, ExchangeRefreshBadScope(t) PROVE TypeOK'
    <2>1. IsDict(refresh', Token, RefreshRec)
      BY <1>4, RevokedIsDict DEF ExchangeRefreshBadScope, TypeOK
    <2>. QED  BY <1>4, <2>1 DEF ExchangeRefreshBadScope, TypeOK
  <1>5. ASSUME NEW t \in Token, NEW o \in Outcome, Revoke(t, o) PROVE TypeOK'
    <2>1. IsDict(Revoked(refresh, t), Token, RefreshRec)
      BY RevokedIsDict DEF TypeOK
    <2>2. /\ IsDict(clients', Client, ClientRec)
          /\ IsDict(refresh', Token, RefreshRec)
          /\ IsFile(disk') /\ ever' \subseteq Token
      BY <1>5, <2>1, PersistType DEF Revoke, TypeOK
    <2>. QED  BY <1>5, <2>2 DEF Revoke, TypeOK
  <1>. QED  BY <1>1, <1>2, <1>3, <1>4, <1>5 DEF TokenEndpoint

LEMMA StartType ==
  ASSUME TypeOK, NEW o \in Outcome, Start(o) PROVE TypeOK'
  <1>1. PICK gone \in Evictions(disk.clients, disk.refresh, 0) :
          LET cls == Drop(disk.clients, gone)
              rts == TokensWithout(disk.refresh, gone)
          IN  IF gone = {}
              THEN /\ o = "answered"
                   /\ clients' = cls /\ refresh' = rts
                   /\ up' = TRUE
                   /\ UNCHANGED <<disk, ever>>
              ELSE IF o = "answered"
              THEN Persist(cls, rts, o) /\ up' = TRUE
              ELSE WriteFile(cls, Purged(rts), o) /\ UNCHANGED <<clients, refresh, up>>
    BY DEF Start
  <1>. DEFINE cls == Drop(disk.clients, gone)
              rts == TokensWithout(disk.refresh, gone)
  <1>2. /\ IsDict(cls, Client, ClientRec)
        /\ IsDict(rts, Token, RefreshRec)
        /\ IsDict(Purged(rts), Token, RefreshRec)
    BY DropIsDict DEF TypeOK, IsFile, TokensWithout, Purged
  <1>3. /\ IsDict(clients', Client, ClientRec)
        /\ IsDict(refresh', Token, RefreshRec)
        /\ IsFile(disk') /\ ever' \subseteq Token
        /\ up' \in BOOLEAN
    <2>0. IsFile(disk) /\ ever \subseteq Token /\ up \in BOOLEAN
          /\ IsDict(clients, Client, ClientRec) /\ IsDict(refresh, Token, RefreshRec)
      BY DEF TypeOK
    <2>1. CASE gone = {}
      BY <1>1, <1>2, <2>0, <2>1
    <2>2. CASE gone # {} /\ o = "answered"
      <3>1. Persist(cls, rts, o) /\ up' = TRUE
        BY <1>1, <2>2
      <3>2. /\ IsDict(clients', Client, ClientRec)
            /\ IsDict(refresh', Token, RefreshRec)
            /\ IsFile(disk') /\ ever' \subseteq Token
        BY <3>1, <1>2, <2>0, PersistType
      <3>. QED  BY <3>1, <3>2
    <2>3. CASE gone # {} /\ o # "answered"
      <3>1. WriteFile(cls, Purged(rts), o) /\ UNCHANGED <<clients, refresh, up>>
        BY <1>1, <2>3
      <3>2. IsFile(disk') /\ ever' \subseteq Token
        BY <3>1, <1>2, <2>0, WriteFileType
      <3>. QED  BY <3>1, <3>2, <2>0
    <2>. QED  BY <2>1, <2>2, <2>3
  <1>. QED  BY <1>3 DEF Start, TypeOK, history

LEMMA InitType == Init => TypeOK
  <1>. SUFFICES ASSUME Init PROVE TypeOK
    OBVIOUS
  <1>1. IsFile([clients |-> Empty, refresh |-> Empty])
    BY EmptyIsDict DEF IsFile
  <1>. QED  BY <1>1, EmptyIsDict, IdleType, TimeAssumption DEF Init, TypeOK, Time

LEMMA StepType == TypeOK /\ [Next]_vars => TypeOK'
  <1>. SUFFICES ASSUME TypeOK, [Next]_vars PROVE TypeOK'
    OBVIOUS
  <1>1. CASE Registration
    BY <1>1, RegistrationType
  <1>2. CASE Authorization
    BY <1>2, AuthorizationType
  <1>3. CASE TokenEndpoint
    BY <1>3, TokenEndpointType
  <1>4. CASE Crash
    <2>1. /\ IsDict(clients', Client, ClientRec) /\ IsDict(pending', Request, PendingRec)
          /\ IsDict(codes', Grant, PendingRec) /\ IsDict(refresh', Token, RefreshRec)
      BY <1>4, EmptyIsDict DEF Crash
    <2>2. thread' \in [Thread -> ThreadRec]
      BY <1>4, IdleType DEF Crash
    <2>3. up' \in BOOLEAN
      BY <1>4, Zenon DEF Crash
    <2>4. crashes' \in Nat
      <3>1. crashes' = crashes + 1 /\ crashes \in Nat
        BY <1>4, Zenon DEF Crash, TypeOK
      <3>. QED  BY <3>1
    <2>5. UNCHANGED <<disk, now, ever, gen, minted, known, held, tried, spent>>
      BY <1>4 DEF Crash, history
    <2>. QED  BY <2>1, <2>2, <2>3, <2>4, <2>5 DEF TypeOK
  <1>5. ASSUME NEW o \in Outcome, Start(o) PROVE TypeOK'
    BY <1>5, StartType
  <1>6. CASE Tick
    BY <1>6 DEF Tick, TypeOK, Time, memory, history
  <1>7. CASE UNCHANGED vars
    BY <1>7 DEF vars, memory, history, TypeOK
  <1>. QED  BY <1>1, <1>2, <1>3, <1>4, <1>5, <1>6, <1>7 DEF Next

(* In every run of the service, over any number of clients, threads and    *)
(* crashes, the tables, the file and the threads hold values of their      *)
(* types.                                                                  *)
THEOREM TypeCorrect == Spec => []TypeOK
  BY InitType, StepType, PTL DEF Spec

-----------------------------------------------------------------------------
(* Cleanup removes only clients it may: none with a live refresh token or  *)
(* a live request, though the second round is chosen among what the first  *)
(* has left.                                                               *)
LEMMA EvictionsSpare ==
  ASSUME NEW cls, NEW rts, NEW reserve, NEW gone \in Evictions(cls, rts, reserve)
  PROVE  gone \subseteq Evictable(cls, rts)
  <1>. DEFINE stale == Stale(cls, rts)
              rest  == Drop(cls, stale)
              pool  == Evictable(rest, rts)
  <1>1. gone \subseteq stale \cup pool
    BY DEF Evictions
  <1>2. stale \subseteq Evictable(cls, rts)
    BY DEF Stale
  <1>3. DOMAIN rest \subseteq DOMAIN cls
    BY DEF Drop
  <1>4. pool \subseteq Evictable(cls, rts)
    <2>. HIDE DEF rest
    <2>. QED  BY <1>3 DEF Evictable, Inactive
  <1>. QED  BY <1>1, <1>2, <1>4

LEMMA EvictionsKeep ==
  ASSUME NEW cls, NEW rts, NEW reserve, NEW gone \in Evictions(cls, rts, reserve),
         NEW t \in DOMAIN rts, Live(rts[t])
  PROVE  rts[t].client \notin gone
  BY EvictionsSpare DEF Evictable, Inactive, HasLiveRefresh
=============================================================================
