------------------------- MODULE OAuthConsentProofs -------------------------
(* Why a consent is never duplicated, by how much the pending table can    *)
(* exceed its cap, why the clients never exceed theirs and whom a cleanup  *)
(* spares: theorems about the consents and the clients of OAuthService.    *)
EXTENDS OAuthServiceProofs, FiniteSetTheorems

(* Requests are drawn fresh, so one that is being admitted is in nobody's  *)
(* hands; the table and the judging threads exclude one another.           *)
ConsentInv ==
  /\ TypeOK
  /\ IsFiniteSet(DOMAIN pending)
  /\ DOMAIN pending \subseteq minted
  /\ \A th \in Judging : thread[th].request \in minted
  /\ RequestHeldOnce
  /\ PendingOvershootBounded

LEMMA JudgingFinite ==
  /\ IsFiniteSet(Judging)
  /\ Cardinality(Judging) \in Nat
  /\ Cardinality(Thread) \in Nat
  BY SetAssumption, FS_Subset, FS_CardinalityType DEF Judging

-----------------------------------------------------------------------------
(* Steps that add no request to the table and start no judgement.          *)
LEMMA ConsentShrinks ==
  ASSUME ConsentInv, TypeOK',
         DOMAIN pending' \subseteq DOMAIN pending, minted \subseteq minted',
         \A th \in Judging' : th \in Judging /\ thread'[th].request = thread[th].request
  PROVE  ConsentInv'
  <1>1. /\ IsFiniteSet(DOMAIN pending')
        /\ Cardinality(DOMAIN pending') <= Cardinality(DOMAIN pending)
    BY FS_Subset DEF ConsentInv
  <1>2. Judging' \subseteq Judging
    OBVIOUS
  <1>3. Cardinality(Judging') <= Cardinality(Judging)
    BY <1>2, JudgingFinite, FS_Subset
  <1>4. Cardinality(DOMAIN pending) \in Nat /\ Cardinality(DOMAIN pending') \in Nat
        /\ IsFiniteSet(Judging') /\ Cardinality(Judging') \in Nat
    BY <1>1, <1>2, JudgingFinite, FS_Subset, FS_CardinalityType DEF ConsentInv
  <1>5. PendingOvershootBounded'
    BY <1>1, <1>3, <1>4, JudgingFinite, CapAssumption DEF ConsentInv, PendingOvershootBounded
  <1>6. RequestHeldOnce'
    BY <1>2 DEF ConsentInv, RequestHeldOnce
  <1>7. \A th \in Judging' : thread'[th].request \in minted'
    BY <1>2 DEF ConsentInv
  <1>8. DOMAIN pending' \subseteq minted'
    BY DEF ConsentInv
  <1>. QED  BY <1>1, <1>5, <1>6, <1>7, <1>8 DEF ConsentInv

(* A thread that was not judging, or stops judging, starts no judgement.   *)
LEMMA NoNewJudgement ==
  ASSUME TypeOK, NEW th \in Thread, NEW v, v.op # "judge",
         thread' = [thread EXCEPT ![th] = v]
  PROVE  \A th1 \in Judging' : th1 \in Judging /\ thread'[th1].request = thread[th1].request
  BY DEF Judging, TypeOK

LEMMA SameJudgements ==
  ASSUME thread' = thread
  PROVE  \A th1 \in Judging' : th1 \in Judging /\ thread'[th1].request = thread[th1].request
  BY DEF Judging

-----------------------------------------------------------------------------
LEMMA AdmitConsentStep ==
  ASSUME ConsentInv, TypeOK', NEW th \in Thread, NEW r \in Request, BeginAdmit(th, r)
  PROVE  ConsentInv'
  <1>. DEFINE table == DOMAIN Swept(pending)
  <1>1. /\ thread[th].op = "begin" /\ r \notin minted /\ minted' = minted \cup {r}
        /\ Cardinality(table) < MAX_PENDING_AUTHORIZATIONS
        /\ thread' = [thread EXCEPT ![th] = Idle]
    BY DEF BeginAdmit, RoomForPending
  <1>2. DOMAIN pending' = table \cup {r}
    BY DEF BeginAdmit, Put
  <1>3. table \subseteq DOMAIN pending
    BY DEF Swept, Drop
  <1>. HIDE DEF table
  <1>4. \A th1 \in Judging' : th1 \in Judging /\ thread'[th1].request = thread[th1].request
    BY <1>1, NoNewJudgement DEF ConsentInv, Idle
  <1>5. IsFiniteSet(table) /\ r \notin table
    BY <1>1, <1>3, FS_Subset DEF ConsentInv
  <1>6. /\ IsFiniteSet(DOMAIN pending')
        /\ Cardinality(DOMAIN pending') = Cardinality(table) + 1
        /\ Cardinality(table) \in Nat
    BY <1>2, <1>5, FS_AddElement, FS_CardinalityType
  <1>7. Cardinality(Judging') <= Cardinality(Thread) - 1 /\ Cardinality(Judging') \in Nat
    <2>1. Judging' \subseteq Thread \ {th}
      BY <1>1, <1>4 DEF Judging
    <2>2. IsFiniteSet(Thread \ {th}) /\ Cardinality(Thread \ {th}) = Cardinality(Thread) - 1
      BY SetAssumption, FS_RemoveElement
    <2>. QED  BY <2>1, <2>2, FS_Subset, FS_CardinalityType
  <1>8. PendingOvershootBounded'
    BY <1>1, <1>6, <1>7, JudgingFinite, CapAssumption DEF PendingOvershootBounded
  <1>9. RequestHeldOnce'
    BY <1>1, <1>2, <1>3, <1>4 DEF ConsentInv, RequestHeldOnce
  <1>10. DOMAIN pending' \subseteq minted' /\ \A th1 \in Judging' : thread'[th1].request \in minted'
    BY <1>1, <1>2, <1>3, <1>4 DEF ConsentInv
  <1>. QED  BY <1>6, <1>8, <1>9, <1>10 DEF ConsentInv

LEMMA PopConsentStep ==
  ASSUME ConsentInv, TypeOK', NEW th \in Thread, NEW r \in Request, CompletePop(th, r)
  PROVE  ConsentInv'
  <1>. DEFINE rec == [op |-> "judge", request |-> r, client |-> pending[r].client,
                      expires_at |-> pending[r].expires_at]
  <1>1. /\ thread[th] = Idle /\ r \in DOMAIN pending /\ minted' = minted
        /\ thread' = [thread EXCEPT ![th] = rec]
    BY DEF CompletePop, history
  <1>2. DOMAIN pending' = DOMAIN pending \ {r}
    BY DEF CompletePop, Popped, Drop
  <1>3. th \notin Judging
    BY <1>1 DEF Judging, Idle
  <1>4. rec.op = "judge" /\ rec.request = r
    OBVIOUS
  <1>. HIDE DEF rec
  <1>5. /\ Judging' = Judging \cup {th}
        /\ thread'[th].request = r
        /\ \A th1 \in Judging : thread'[th1].request = thread[th1].request
    BY <1>1, <1>3, <1>4 DEF ConsentInv, TypeOK, Judging
  <1>6. /\ IsFiniteSet(DOMAIN pending')
        /\ Cardinality(DOMAIN pending') = Cardinality(DOMAIN pending) - 1
        /\ Cardinality(DOMAIN pending) \in Nat
    BY <1>1, <1>2, FS_RemoveElement, FS_CardinalityType DEF ConsentInv
  <1>7. Cardinality(Judging') = Cardinality(Judging) + 1
    BY <1>3, <1>5, JudgingFinite, FS_AddElement
  <1>8. PendingOvershootBounded'
    BY <1>6, <1>7, JudgingFinite, CapAssumption DEF ConsentInv, PendingOvershootBounded
  <1>9. RequestHeldOnce'
    BY <1>1, <1>2, <1>3, <1>5 DEF ConsentInv, RequestHeldOnce
  <1>10. DOMAIN pending' \subseteq minted' /\ \A th1 \in Judging' : thread'[th1].request \in minted'
    BY <1>1, <1>2, <1>5 DEF ConsentInv
  <1>. QED  BY <1>6, <1>8, <1>9, <1>10 DEF ConsentInv

LEMMA ReinsertConsentStep ==
  ASSUME ConsentInv, TypeOK', NEW th \in Thread, CompleteReinsert(th)
  PROVE  ConsentInv'
  <1>. DEFINE r == thread[th].request
  <1>1. /\ th \in Judging /\ minted' = minted /\ thread' = [thread EXCEPT ![th] = Idle]
    BY DEF CompleteReinsert, Judging, history
  <1>2. DOMAIN pending' = DOMAIN pending \cup {r}
    BY DEF CompleteReinsert, Put
  <1>3. /\ Judging' = Judging \ {th}
        /\ \A th1 \in Judging' : thread'[th1].request = thread[th1].request
    BY <1>1 DEF ConsentInv, TypeOK, Judging, Idle
  <1>4. r \notin DOMAIN pending /\ r \in minted
    BY <1>1 DEF ConsentInv, RequestHeldOnce
  <1>5. /\ IsFiniteSet(DOMAIN pending')
        /\ Cardinality(DOMAIN pending') = Cardinality(DOMAIN pending) + 1
        /\ Cardinality(DOMAIN pending) \in Nat
    <2>1. IsFiniteSet(DOMAIN pending)
      BY DEF ConsentInv
    <2>. HIDE DEF r
    <2>. QED  BY <2>1, <1>2, <1>4, FS_AddElement, FS_CardinalityType
  <1>6. Cardinality(Judging') = Cardinality(Judging) - 1
    BY <1>1, <1>3, JudgingFinite, FS_RemoveElement
  <1>7. PendingOvershootBounded'
    BY <1>5, <1>6, JudgingFinite, CapAssumption DEF ConsentInv, PendingOvershootBounded
  <1>8. RequestHeldOnce'
    BY <1>1, <1>2, <1>3 DEF ConsentInv, RequestHeldOnce
  <1>9. DOMAIN pending' \subseteq minted' /\ \A th1 \in Judging' : thread'[th1].request \in minted'
    BY <1>1, <1>2, <1>3, <1>4 DEF ConsentInv
  <1>. QED  BY <1>5, <1>7, <1>8, <1>9 DEF ConsentInv

-----------------------------------------------------------------------------
LEMMA AuthorizationConsentStep ==
  ASSUME ConsentInv, TypeOK', Authorization PROVE ConsentInv'
  <1>1. ASSUME NEW th \in Thread, NEW c \in Client, BeginLookup(th, c) PROVE ConsentInv'
    <2>. DEFINE v == [op |-> "begin", client |-> c, expires_at |-> now + CODE_TTL]
    <2>1. thread' = [thread EXCEPT ![th] = v] /\ pending' = pending /\ minted' = minted
      BY <1>1 DEF BeginLookup, memory, history
    <2>2. \A th1 \in Judging' : th1 \in Judging /\ thread'[th1].request = thread[th1].request
      BY <2>1, NoNewJudgement DEF ConsentInv
    <2>. QED  BY <2>1, <2>2, ConsentShrinks
  <1>2. ASSUME NEW th \in Thread, NEW r \in Request, BeginAdmit(th, r) PROVE ConsentInv'
    BY <1>2, AdmitConsentStep
  <1>3. ASSUME NEW th \in Thread, BeginRefused(th) PROVE ConsentInv'
    <2>1. /\ thread' = [thread EXCEPT ![th] = Idle] /\ minted' = minted
          /\ DOMAIN pending' \subseteq DOMAIN pending
      BY <1>3 DEF BeginRefused, Swept, Drop, history
    <2>2. \A th1 \in Judging' : th1 \in Judging /\ thread'[th1].request = thread[th1].request
      BY <2>1, NoNewJudgement DEF ConsentInv, Idle
    <2>. QED  BY <2>1, <2>2, ConsentShrinks
  <1>4. ASSUME NEW r \in Request, CompleteDismiss(r) PROVE ConsentInv'
    <2>1. thread' = thread /\ minted' = minted /\ DOMAIN pending' \subseteq DOMAIN pending
      BY <1>4 DEF CompleteDismiss, Popped, Drop, history
    <2>. QED  BY <2>1, SameJudgements, ConsentShrinks
  <1>5. ASSUME NEW th \in Thread, NEW r \in Request, CompletePop(th, r) PROVE ConsentInv'
    BY <1>5, PopConsentStep
  <1>6. ASSUME NEW th \in Thread, CompleteReinsert(th) PROVE ConsentInv'
    BY <1>6, ReinsertConsentStep
  <1>7. ASSUME NEW th \in Thread, CompleteApprove(th) PROVE ConsentInv'
    <2>. DEFINE v == [op |-> "code", client |-> thread[th].client, expires_at |-> now + CODE_TTL]
    <2>1. thread' = [thread EXCEPT ![th] = v] /\ pending' = pending /\ minted' = minted
      BY <1>7 DEF CompleteApprove, history
    <2>2. \A th1 \in Judging' : th1 \in Judging /\ thread'[th1].request = thread[th1].request
      BY <2>1, NoNewJudgement DEF ConsentInv
    <2>. QED  BY <2>1, <2>2, ConsentShrinks
  <1>8. ASSUME NEW th \in Thread, NEW g \in Grant, NEW o \in Outcome, CompleteIssue(th, g, o)
        PROVE  ConsentInv'
    <2>1. /\ thread' = [thread EXCEPT ![th] = Idle] /\ pending' = pending
          /\ minted \subseteq minted'
      BY <1>8 DEF CompleteIssue
    <2>2. \A th1 \in Judging' : th1 \in Judging /\ thread'[th1].request = thread[th1].request
      BY <2>1, NoNewJudgement DEF ConsentInv, Idle
    <2>. QED  BY <2>1, <2>2, ConsentShrinks
  <1>. QED  BY <1>1, <1>2, <1>3, <1>4, <1>5, <1>6, <1>7, <1>8 DEF Authorization

LEMMA ConsentInit == Init => ConsentInv
  <1>. SUFFICES ASSUME Init PROVE ConsentInv
    OBVIOUS
  <1>1. DOMAIN pending = {} /\ Judging = {}
    BY DEF Init, Empty, Judging, Idle
  <1>2. IsFiniteSet({}) /\ Cardinality({}) = 0
    BY FS_EmptySet
  <1>3. Cardinality(Thread) >= 1
    BY SetAssumption, FS_EmptySet, JudgingFinite
  <1>. QED  BY <1>1, <1>2, <1>3, JudgingFinite, CapAssumption, InitType
            DEF ConsentInv, RequestHeldOnce, PendingOvershootBounded

LEMMA ConsentStep == ConsentInv /\ [Next]_vars => ConsentInv'
  <1>. SUFFICES ASSUME ConsentInv, [Next]_vars PROVE ConsentInv'
    OBVIOUS
  <1>0. TypeOK'
    BY StepType DEF ConsentInv
  <1>1. CASE Registration
    <2>1. thread' = thread /\ pending' = pending /\ minted \subseteq minted'
      BY <1>1 DEF Registration, Register, RegisterRefused, history
    <2>. QED  BY <1>0, <2>1, SameJudgements, ConsentShrinks
  <1>2. CASE Authorization
    BY <1>0, <1>2, AuthorizationConsentStep
  <1>3. CASE TokenEndpoint
    <2>1. thread' = thread /\ pending' = pending /\ minted' = minted
      BY <1>3 DEF TokenEndpoint, ExchangeCode, ExchangeCodeRefused, ExchangeRefresh,
                  ExchangeRefreshBadScope, Revoke, history
    <2>. QED  BY <1>0, <2>1, SameJudgements, ConsentShrinks
  <1>4. CASE Crash
    <2>1. thread' = [th \in Thread |-> Idle] /\ pending' = Empty /\ minted' = minted
      BY <1>4 DEF Crash, history
    <2>2. Judging' = {} /\ DOMAIN pending' = {}
      BY <2>1 DEF Judging, Idle, Empty
    <2>. QED  BY <1>0, <2>1, <2>2, ConsentShrinks
  <1>5. ASSUME NEW o \in Outcome, Start(o) PROVE ConsentInv'
    <2>1. thread' = thread /\ pending' = pending /\ minted' = minted
      BY <1>5 DEF Start, history
    <2>. QED  BY <1>0, <2>1, SameJudgements, ConsentShrinks
  <1>6. CASE Tick
    <2>1. thread' = thread /\ pending' = pending /\ minted' = minted
      BY <1>6 DEF Tick, memory, history
    <2>. QED  BY <1>0, <2>1, SameJudgements, ConsentShrinks
  <1>7. CASE UNCHANGED vars
    <2>1. thread' = thread /\ pending' = pending /\ minted' = minted
      BY <1>7 DEF vars, memory, history
    <2>. QED  BY <1>0, <2>1, SameJudgements, ConsentShrinks
  <1>. QED  BY <1>1, <1>2, <1>3, <1>4, <1>5, <1>6, <1>7 DEF Next

LEMMA ConsentInvariant == Spec => []ConsentInv
  BY ConsentInit, ConsentStep, PTL DEF Spec

(* However many threads judge consents at once, each pending request is in *)
(* the table or in one thread's hands, never both or twice.                *)
THEOREM ConsentHeldOnce == Spec => []RequestHeldOnce
  <1>1. ConsentInv => RequestHeldOnce
    BY DEF ConsentInv
  <1>. QED  BY <1>1, ConsentInvariant, PTL

(* The re-insertion of consents exceeds the global cap by fewer requests   *)
(* than the server has threads.                                            *)
THEOREM OvershootBounded == Spec => []PendingOvershootBounded
  <1>1. ConsentInv => PendingOvershootBounded
    BY DEF ConsentInv
  <1>. QED  BY <1>1, ConsentInvariant, PTL

-----------------------------------------------------------------------------
(* The registered clients.  Only Register adds one, after it found room    *)
(* beside what cleanup left; a save copies memory to the file, and a start *)
(* copies the file to memory, so both stay capped.                         *)

Capped(S) == IsFiniteSet(S) /\ Cardinality(S) <= MAX_DCR_CLIENTS

ClientInv ==
  /\ Capped(DOMAIN clients) /\ Capped(DOMAIN disk.clients)
  /\ ~up => DOMAIN clients = {}

LEMMA FewerCapped ==
  ASSUME NEW S, Capped(S), NEW T, T \subseteq S PROVE Capped(T)
  BY FS_Subset, FS_CardinalityType, CapAssumption DEF Capped

LEMMA OneMoreCapped ==
  ASSUME NEW S, IsFiniteSet(S), Cardinality(S) < MAX_DCR_CLIENTS, NEW c
  PROVE  Capped(S \cup {c})
  <1>1. Cardinality(S) \in Nat /\ MAX_DCR_CLIENTS \in Nat
    BY FS_CardinalityType, CapAssumption
  <1>2. CASE c \in S
    <2>1. S \cup {c} = S
      BY <1>2
    <2>. QED  BY <1>1, <2>1 DEF Capped
  <1>3. CASE c \notin S
    BY <1>1, <1>3, FS_AddElement DEF Capped
  <1>. QED  BY <1>2, <1>3

LEMMA SavedClients ==
  ASSUME NEW cls, NEW rts, NEW o, Persist(cls, rts, o)
  PROVE  clients' = cls /\ disk'.clients \in {cls, disk.clients}
  BY DEF Persist, WriteFile

LEMMA DropShrinks ==
  ASSUME NEW d, NEW S PROVE DOMAIN Drop(d, S) \subseteq DOMAIN d
  BY DEF Drop

(* Every step but a registration, a start and a crash keeps the clients:   *)
(* the same names in memory, and in the file the old ones or memory's.     *)
KeepsClients ==
  /\ DOMAIN clients' = DOMAIN clients
  /\ disk'.clients \in {clients', disk.clients}
  /\ up' = up

LEMMA SaveKeepsClients ==
  ASSUME NEW c, NEW rts, NEW o, up' = up,
         Persist(clients, rts, o) \/ Persist(Touched(clients, c), rts, o)
  PROVE  KeepsClients
  BY SavedClients, TouchedDomain DEF KeepsClients

LEMMA AuthorizationKeepsClients ==
  ASSUME Authorization PROVE KeepsClients
  <1>1. ASSUME NEW th \in Thread, NEW c \in Client, BeginLookup(th, c) PROVE KeepsClients
    BY <1>1 DEF BeginLookup, memory, KeepsClients
  <1>2. ASSUME NEW th \in Thread, NEW r \in Request, BeginAdmit(th, r) PROVE KeepsClients
    BY <1>2 DEF BeginAdmit, KeepsClients
  <1>3. ASSUME NEW th \in Thread, BeginRefused(th) PROVE KeepsClients
    BY <1>3 DEF BeginRefused, KeepsClients
  <1>4. ASSUME NEW r \in Request, CompleteDismiss(r) PROVE KeepsClients
    BY <1>4 DEF CompleteDismiss, KeepsClients
  <1>5. ASSUME NEW th \in Thread, NEW r \in Request, CompletePop(th, r) PROVE KeepsClients
    BY <1>5 DEF CompletePop, KeepsClients
  <1>6. ASSUME NEW th \in Thread, CompleteReinsert(th) PROVE KeepsClients
    BY <1>6 DEF CompleteReinsert, KeepsClients
  <1>7. ASSUME NEW th \in Thread, CompleteApprove(th) PROVE KeepsClients
    BY <1>7, TouchedDomain DEF CompleteApprove, KeepsClients
  <1>8. ASSUME NEW th \in Thread, NEW g \in Grant, NEW o \in Outcome, CompleteIssue(th, g, o)
        PROVE  KeepsClients
    BY <1>8, SaveKeepsClients DEF CompleteIssue
  <1>. QED  BY <1>1, <1>2, <1>3, <1>4, <1>5, <1>6, <1>7, <1>8 DEF Authorization

LEMMA TokenEndpointKeepsClients ==
  ASSUME TokenEndpoint PROVE KeepsClients
  <1>1. ASSUME NEW g \in Grant, NEW o \in Outcome, ExchangeCode(g, o) PROVE KeepsClients
    BY <1>1, SaveKeepsClients DEF ExchangeCode, Issue
  <1>2. ASSUME NEW g \in Grant, ExchangeCodeRefused(g) PROVE KeepsClients
    BY <1>2 DEF ExchangeCodeRefused, KeepsClients
  <1>3. ASSUME NEW t \in Token, NEW o \in Outcome, ExchangeRefresh(t, o) PROVE KeepsClients
    BY <1>3, SaveKeepsClients DEF ExchangeRefresh, Issue
  <1>4. ASSUME NEW t \in Token, ExchangeRefreshBadScope(t) PROVE KeepsClients
    BY <1>4 DEF ExchangeRefreshBadScope, KeepsClients
  <1>5. ASSUME NEW t \in Token, NEW o \in Outcome, Revoke(t, o) PROVE KeepsClients
    BY <1>5, SaveKeepsClients DEF Revoke
  <1>. QED  BY <1>1, <1>2, <1>3, <1>4, <1>5 DEF TokenEndpoint

-----------------------------------------------------------------------------
LEMMA KeptClientsStep ==
  ASSUME ClientInv, KeepsClients PROVE ClientInv'
  BY DEF ClientInv, KeepsClients

LEMMA RegistrationClients ==
  ASSUME ClientInv, Registration PROVE ClientInv'
  <1>1. ASSUME NEW c \in Client, NEW o \in Outcome, Register(c, o) PROVE ClientInv'
    <2>1. PICK gone \in Evictions(clients, refresh, 1) :
            /\ RoomForClient(Drop(clients, gone), TokensWithout(refresh, gone))
            /\ Persist(Put(Drop(clients, gone), c, [issued_at |-> now, last_used_at |-> now]),
                       TokensWithout(refresh, gone), o)
      BY <1>1 DEF Register
    <2>. DEFINE left == DOMAIN Drop(clients, gone)
                cls  == Put(Drop(clients, gone), c, [issued_at |-> now, last_used_at |-> now])
    <2>2. IsFiniteSet(left) /\ Cardinality(left) < MAX_DCR_CLIENTS
      BY <2>1, DropShrinks, FS_Subset DEF RoomForClient, ClientInv, Capped
    <2>3. DOMAIN cls = left \cup {c}
      BY DEF Put
    <2>4. clients' = cls /\ disk'.clients \in {cls, disk.clients}
      BY <2>1, SavedClients
    <2>. HIDE DEF left, cls
    <2>5. Capped(DOMAIN cls)
      BY <2>2, <2>3, OneMoreCapped
    <2>6. up' = up /\ up
      BY <1>1 DEF Register
    <2>. QED  BY <2>4, <2>5, <2>6 DEF ClientInv
  <1>2. ASSUME RegisterRefused PROVE ClientInv'
    <2>1. DOMAIN clients' \subseteq DOMAIN clients /\ disk' = disk /\ up' = up
      BY <1>2, DropShrinks DEF RegisterRefused
    <2>. QED  BY <2>1, FewerCapped DEF ClientInv
  <1>. QED  BY <1>1, <1>2 DEF Registration

LEMMA StartClients ==
  ASSUME ClientInv, NEW o \in Outcome, Start(o) PROVE ClientInv'
  <1>1. PICK gone \in Evictions(disk.clients, disk.refresh, 0) :
          LET cls == Drop(disk.clients, gone)
              rts == TokensWithout(disk.refresh, gone)
          IN  IF gone = {}
              THEN /\ o = "answered"
                   /\ clients' = cls /\ refresh' = rts
                   /\ up' = TRUE
                   /\ UNCHANGED <<disk, ever>>
              ELSE IF o = "answered"
              THEN Persist(cls, rts, o) /\ up' = TRUE
              ELSE WriteFile(cls, Purged(rts), o) /\ UNCHANGED <<clients, refresh, up>>
    BY DEF Start
  <1>. DEFINE cls == Drop(disk.clients, gone)
              rts == TokensWithout(disk.refresh, gone)
  <1>2. Capped(DOMAIN cls)
    BY DropShrinks, FewerCapped DEF ClientInv
  <1>. HIDE DEF cls, rts
  <1>3. CASE gone = {}
    <2>1. clients' = cls /\ disk' = disk /\ up'
      BY <1>1, <1>3 DEF cls
    <2>. QED  BY <2>1, <1>2 DEF ClientInv
  <1>4. CASE gone # {} /\ o = "answered"
    <2>1. Persist(cls, rts, o) /\ up'
      BY <1>1, <1>4 DEF cls, rts
    <2>2. clients' = cls /\ disk'.clients \in {cls, disk.clients}
      BY <2>1, SavedClients
    <2>. QED  BY <2>1, <2>2, <1>2 DEF ClientInv
  <1>5. CASE gone # {} /\ o # "answered"
    <2>1. WriteFile(cls, Purged(rts), o) /\ clients' = clients /\ up' = up
      BY <1>1, <1>5 DEF cls, rts
    <2>2. disk'.clients \in {cls, disk.clients}
      BY <2>1 DEF WriteFile
    <2>. QED  BY <2>1, <2>2, <1>2 DEF ClientInv
  <1>. QED  BY <1>3, <1>4, <1>5

LEMMA ClientInit == Init => ClientInv
  <1>. SUFFICES ASSUME Init PROVE ClientInv
    OBVIOUS
  <1>1. DOMAIN clients = {} /\ DOMAIN disk.clients = {}
    BY DEF Init, Empty
  <1>2. Capped({})
    BY FS_EmptySet, CapAssumption DEF Capped
  <1>. QED  BY <1>1, <1>2 DEF ClientInv

LEMMA ClientStep == ClientInv /\ [Next]_vars => ClientInv'
  <1>. SUFFICES ASSUME ClientInv, [Next]_vars PROVE ClientInv'
    OBVIOUS
  <1>1. CASE Crash
    <2>1. DOMAIN clients' = {} /\ disk' = disk
      BY <1>1 DEF Crash, Empty
    <2>. QED  BY <2>1, FewerCapped DEF ClientInv
  <1>2. CASE Tick \/ UNCHANGED vars
    <2>1. KeepsClients
      BY <1>2 DEF Tick, vars, memory, KeepsClients
    <2>. QED  BY <2>1, KeptClientsStep
  <1>. QED  BY <1>1, <1>2, RegistrationClients, AuthorizationKeepsClients,
               TokenEndpointKeepsClients, KeptClientsStep, StartClients DEF Next

LEMMA ClientInvariant == Spec => []ClientInv
  BY ClientInit, ClientStep, PTL DEF Spec

(* Neither memory nor the file ever holds more clients than the cap on     *)
(* them, whatever was evicted, lost, saved halfway or loaded again.        *)
THEOREM CapHolds == Spec => []ClientsCapped
  <1>1. ClientInv => ClientsCapped
    BY DEF ClientInv, Capped, ClientsCapped
  <1>. QED  BY <1>1, ClientInvariant, PTL

LEMMA ProtectedStep ==
  ClientInv /\ [Next]_vars =>
    [\A c \in DOMAIN clients :
       (up' /\ (HasLiveRefresh(refresh, c) \/ HasLivePending(c))) => c \in DOMAIN clients']_vars
  <1>. SUFFICES ASSUME ClientInv, [Next]_vars, NEW c \in DOMAIN clients, up',
                       HasLiveRefresh(refresh, c) \/ HasLivePending(c)
                PROVE  c \in DOMAIN clients'
    OBVIOUS
  <1>0. ASSUME NEW gone \in Evictions(clients, refresh, 1) PROVE c \in DOMAIN Drop(clients, gone)
    <2>1. c \notin gone
      BY EvictionsSpare DEF Evictable, Inactive
    <2>. QED  BY <2>1 DEF Drop
  <1>1. ASSUME NEW d \in Client, NEW o \in Outcome, Register(d, o) PROVE c \in DOMAIN clients'
    <2>1. PICK gone \in Evictions(clients, refresh, 1) :
            Persist(Put(Drop(clients, gone), d, [issued_at |-> now, last_used_at |-> now]),
                    TokensWithout(refresh, gone), o)
      BY <1>1 DEF Register
    <2>2. DOMAIN clients' = DOMAIN Drop(clients, gone) \cup {d}
      BY <2>1 DEF Persist, Put
    <2>. QED  BY <1>0, <2>2
  <1>2. CASE RegisterRefused
    BY <1>0, <1>2 DEF RegisterRefused
  <1>3. CASE Authorization \/ TokenEndpoint
    BY <1>3, AuthorizationKeepsClients, TokenEndpointKeepsClients DEF KeepsClients
  <1>4. CASE Crash
    BY <1>4 DEF Crash
  <1>5. ASSUME NEW o \in Outcome, Start(o) PROVE c \in DOMAIN clients'
    BY <1>5 DEF Start, ClientInv
  <1>6. CASE Tick \/ UNCHANGED vars
    BY <1>6 DEF Tick, vars, memory
  <1>. QED  BY <1>1, <1>2, <1>3, <1>4, <1>5, <1>6 DEF Next, Registration

(* A step that leaves the service running takes no client that has a live  *)
(* refresh token or a live pending request.                                *)
THEOREM CleanupSparesClients == Spec => ProtectedClientsStay
  BY ProtectedStep, ClientInvariant, PTL DEF Spec, ProtectedClientsStay
=============================================================================
