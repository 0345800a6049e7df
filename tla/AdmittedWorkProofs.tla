-------------------------- MODULE AdmittedWorkProofs --------------------------
(***************************************************************************)
(* The claim directory, for every set of proposals, every limit and every  *)
(* number of callers: the live claims stay independent, and a cleanup      *)
(* loses nothing but what another claim of the worktree stands for.  And   *)
(* the external writes, for every number of callers and dispatches: a      *)
(* dispatch lets one write out, a write whose outcome may be known is not  *)
(* sent again, and a claim of its revision was live.                       *)
(***************************************************************************)
EXTENDS AdmittedWork, FiniteSetTheorems, WellFoundedInduction, TLAPS

(* Two directories that hold the same file overlap (paths_overlap).        *)
LEMMA OwnersOverlap ==
  ASSUME NEW a \in Seq(STRING), NEW b \in Seq(STRING), NEW file \in Seq(STRING),
         StartsWith(file, a), StartsWith(file, b)
  PROVE  PathsOverlap(a, b)
<1>1. Len(a) \in Nat /\ Len(b) \in Nat /\ Len(file) \in Nat
  OBVIOUS
<1>2. CASE Len(a) <= Len(b)
  <2>1. \A i \in 1..Len(a) : b[i] = a[i]
    <3> SUFFICES ASSUME NEW i \in 1..Len(a) PROVE b[i] = a[i]
      OBVIOUS
    <3>1. i \in 1..Len(b)
      BY <1>1, <1>2
    <3> QED
      BY <3>1 DEF StartsWith
  <2> QED
    BY <1>2, <2>1 DEF PathsOverlap, StartsWith
<1>3. CASE Len(b) <= Len(a)
  <2>1. \A i \in 1..Len(b) : a[i] = b[i]
    <3> SUFFICES ASSUME NEW i \in 1..Len(b) PROVE a[i] = b[i]
      OBVIOUS
    <3>1. i \in 1..Len(a)
      BY <1>1, <1>3
    <3> QED
      BY <3>1 DEF StartsWith
  <2> QED
    BY <1>3, <2>1 DEF PathsOverlap, StartsWith
<1> QED
  BY <1>1, <1>2, <1>3

(* A claim without a conflict (the body of evaluate_admit's loop) shares   *)
(* neither file, worktree, workstream nor runtime with the other.          *)
LEMMA NoConflictIsIndependence ==
  ASSUME NEW p \in Claim, NEW c \in Claim,
         Conflict(ParsedClaim(p), ParsedClaim(c)) = "NONE"
  PROVE  Independent(p, c) /\ Independent(c, p)
<1> DEFINE P == ParsedClaim(p)
           C == ParsedClaim(c)
<1>1. /\ P.runtime = p.runtime /\ P.repository = p.repository
      /\ P.workstream = p.workstream /\ P.revision = p.revision
      /\ P.worktree = Canonical(p.worktree)
      /\ P.paths = {Normalized(path) : path \in p.paths}
  BY DEF ParsedClaim, Claim
<1>2. /\ C.runtime = c.runtime /\ C.repository = c.repository
      /\ C.workstream = c.workstream /\ C.revision = c.revision
      /\ C.worktree = Canonical(c.worktree)
      /\ C.paths = {Normalized(path) : path \in c.paths}
  BY DEF ParsedClaim, Claim
<1> HIDE DEF P, C
<1>3. ~ShareRuntime(P, C)
  BY DEF Conflict, P, C
<1>4. ~ShareRuntime(p, c) /\ ~ShareRuntime(c, p)
  BY <1>1, <1>2, <1>3 DEF ShareRuntime
<1>5. ASSUME p.repository = c.repository
      PROVE  /\ p.workstream # c.workstream
             /\ Canonical(p.worktree) # Canonical(c.worktree)
             /\ p.paths # {} /\ c.paths # {}
             /\ \A l \in p.paths, r \in c.paths : ~PathsOverlap(Normalized(l), Normalized(r))
  <2>1. /\ P.worktree # C.worktree /\ P.workstream # C.workstream
        /\ P.paths # {} /\ C.paths # {}
        /\ ~\E l \in P.paths, r \in C.paths : PathsOverlap(l, r)
    BY <1>1, <1>2, <1>3, <1>5 DEF Conflict, P, C
  <2> QED
    BY <1>1, <1>2, <2>1
<1>6. ASSUME p.repository = c.repository, NEW file \in File, Owns(p, file), Owns(c, file)
      PROVE  FALSE
  <2>1. PICK l \in p.paths : StartsWith(file, Normalized(l))
    BY <1>5, <1>6 DEF Owns
  <2>2. PICK r \in c.paths : StartsWith(file, Normalized(r))
    BY <1>5, <1>6 DEF Owns
  <2>3. Normalized(l) \in Seq(STRING) /\ Normalized(r) \in Seq(STRING) /\ file \in Seq(STRING)
    BY WorkAssumption DEF Claim
  <2>4. PathsOverlap(Normalized(l), Normalized(r))
    BY <2>1, <2>2, <2>3, OwnersOverlap
  <2> QED
    BY <1>5, <1>6, <2>4
<1> QED
  BY <1>4, <1>5, <1>6 DEF Independent

(* A conflict is named, and its name is no permission.                     *)
LEMMA ConflictIsNoPermission ==
  ASSUME NEW p, NEW c PROVE Conflict(p, c) # "ALLOW"
BY DEF Conflict

(* What an ALLOW of evaluate_admit says of the claims it was given.        *)
LEMMA AdmitAllows ==
  ASSUME NEW p \in Claim, NEW list, NEW host, DOMAIN list \subseteq Id,
         \A i \in DOMAIN list : list[i] \in Claim,
         EvaluateAdmit(p, list, host, WIP_LIMIT) = "ALLOW"
  PROVE  /\ \A i \in DOMAIN list : list[i].id # p.id
         /\ Cardinality(Live(list)) < WIP_LIMIT
         /\ \A i \in Live(list) : Independent(p, list[i]) /\ Independent(list[i], p)
<1> DEFINE P == ParsedClaim(p)
           parsed == [i \in DOMAIN list |-> ParsedClaim(list[i])]
<1>1. Admit(P, parsed, host, WIP_LIMIT) = "ALLOW"
  BY DEF EvaluateAdmit
<1>2. \A c \in Claim : ParsedClaim(c).id = c.id /\ ParsedClaim(c).status = c.status
  BY DEF ParsedClaim, Claim
<1>3. /\ DOMAIN parsed = DOMAIN list
      /\ \A i \in DOMAIN list : /\ parsed[i] = ParsedClaim(list[i])
                                /\ parsed[i].id = list[i].id /\ parsed[i].status = list[i].status
      /\ P.id = p.id
  BY <1>2
<1> HIDE DEF parsed, P
<1>4. Live(parsed) = Live(list)
  BY <1>3 DEF Live, IsActive
<1>5. ~\E i \in DOMAIN parsed : parsed[i].id = P.id
  BY <1>1 DEF Admit
<1>6. ~(Live(parsed) # {} /\ Cardinality(Live(parsed)) >= WIP_LIMIT)
  BY <1>1 DEF Admit
<1>7. Cardinality(Live(list)) < WIP_LIMIT
  <2>1. IsFiniteSet(Id)
    BY FS_Interval, WorkAssumption DEF Id
  <2>2. Live(list) \subseteq Id
    BY DEF Live
  <2>3. Cardinality(Live(list)) \in Nat
    BY <2>1, <2>2, FS_Subset, FS_CardinalityType
  <2>4. CASE Live(list) = {}
    BY <2>4, FS_EmptySet, WorkAssumption
  <2> QED
    BY <1>4, <1>6, <2>3, <2>4, WorkAssumption
<1>8. ~\E i \in Live(parsed) : Conflict(P, parsed[i]) # "NONE"
  <2> DEFINE classes == {Conflict(P, parsed[i]) : i \in Live(parsed)}
  <2> SUFFICES ASSUME \E i \in Live(parsed) : Conflict(P, parsed[i]) # "NONE" PROVE FALSE
    OBVIOUS
  <2>1. (CHOOSE class \in classes : class # "NONE") \in classes
    OBVIOUS
  <2>2. "ALLOW" \notin classes
    BY ConflictIsNoPermission
  <2>3. (CHOOSE class \in classes : class # "NONE") = "ALLOW"
    BY <1>1 DEF Admit
  <2> QED
    BY <2>1, <2>2, <2>3
<1>9. ASSUME NEW i \in Live(list) PROVE Independent(p, list[i]) /\ Independent(list[i], p)
  <2>1. i \in DOMAIN list /\ list[i] \in Claim
    BY DEF Live
  <2>2. Conflict(ParsedClaim(p), ParsedClaim(list[i])) = "NONE"
    BY <1>3, <1>4, <1>8, <2>1 DEF P
  <2> QED
    BY <2>1, <2>2, NoConflictIsIndependence
<1> QED
  BY <1>3, <1>5, <1>7, <1>9

(* The fields that a report or a reconciliation leaves alone are those     *)
(* independence looks at.                                                  *)
SameWork(a, b) ==
  /\ a.repository = b.repository /\ a.workstream = b.workstream
  /\ a.worktree = b.worktree /\ a.paths = b.paths /\ a.runtime = b.runtime

LEMMA IndependenceOfWork ==
  ASSUME NEW a, NEW a2, NEW b, NEW b2, SameWork(a, a2), SameWork(b, b2), Independent(a, b)
  PROVE  Independent(a2, b2)
BY DEF SameWork, Independent, ShareRuntime, Owns

-----------------------------------------------------------------------------
(* The coordinator holds a claim it was allowed: nothing that became live  *)
(* since conflicts with it, because it alone writes claims.                *)
Room(p) ==
  /\ ~IsActive(claims[p.id])
  /\ Cardinality(Live(claims)) < WIP_LIMIT
  /\ \A i \in Live(claims) : Independent(p, claims[i]) /\ Independent(claims[i], p)

ClaimsType ==
  /\ claims \in [Id -> {Absent, Torn} \cup Claim]
  /\ \A i \in Id : claims[i] \in Claim => claims[i].id = i
  /\ scene \in Scene
  /\ \/ coordinator = Idle
     \/ coordinator \in [at : {"admitted", "writing"}, claim : Proposal]
     \/ coordinator \in [at : {"cleaning"}, id : Id, worktree : Worktree]

ClaimsInv ==
  /\ ClaimsType
  /\ ClaimsIndependent
  /\ coordinator.at \in {"admitted", "writing"} => Room(coordinator.claim)

LEMMA LiveIsFinite ==
  ASSUME ClaimsType
  PROVE  IsFiniteSet(Live(claims)) /\ Cardinality(Live(claims)) \in Nat /\ Live(claims) \subseteq Id
<1>1. Live(claims) \subseteq Id
  BY DEF ClaimsType, Live
<1>2. IsFiniteSet(Id)
  BY FS_Interval, WorkAssumption DEF Id
<1> QED
  BY <1>1, <1>2, FS_Subset, FS_CardinalityType

(* A step that makes no claim live and leaves the live ones their work     *)
(* keeps what was independent so.                                          *)
LEMMA FewerLive ==
  ASSUME ClaimsType, ClaimsIndependent, ClaimsType',
         Live(claims)' \subseteq Live(claims),
         \A i \in Live(claims)' : SameWork(claims[i], claims'[i])
  PROVE  /\ ClaimsIndependent'
         /\ \A p \in Proposal : Room(p) => Room(p)'
<1>1. Cardinality(Live(claims)') <= Cardinality(Live(claims))
  BY LiveIsFinite, FS_Subset
<1>2. Cardinality(Live(claims)') \in Nat /\ Cardinality(Live(claims)) \in Nat
  <2>1. Live(claims)' \subseteq Id /\ IsFiniteSet(Live(claims))
    BY LiveIsFinite
  <2> QED
    BY <2>1, LiveIsFinite, FS_Subset, FS_CardinalityType
<1>3. ClaimsIndependent'
  <2>1. Cardinality(Live(claims)') <= WIP_LIMIT
    BY <1>1, <1>2, WorkAssumption DEF ClaimsIndependent
  <2>2. ASSUME NEW i \in Live(claims)', NEW j \in Live(claims)', i # j
        PROVE  Independent(claims[i], claims[j])'
    <3>1. Independent(claims[i], claims[j])
      BY <2>2 DEF ClaimsIndependent
    <3> QED
      BY <3>1, IndependenceOfWork
  <2> QED
    BY <2>1, <2>2 DEF ClaimsIndependent
<1>4. ASSUME NEW p \in Proposal, Room(p) PROVE Room(p)'
  <2>1. Cardinality(Live(claims)') < WIP_LIMIT
    BY <1>1, <1>2, <1>4, WorkAssumption DEF Room
  <2>2. p.id \in Id /\ SameWork(p, p)
    BY WorkAssumption DEF Claim, SameWork
  <2>3. ~IsActive(claims'[p.id])
    BY <1>4, <2>2 DEF Room, Live, ClaimsType
  <2>4. ASSUME NEW i \in Live(claims)'
        PROVE  Independent(p, claims'[i]) /\ Independent(claims'[i], p)
    <3>1. Independent(p, claims[i]) /\ Independent(claims[i], p)
      BY <1>4 DEF Room
    <3> QED
      BY <2>2, <3>1, IndependenceOfWork
  <2> QED
    BY <2>1, <2>3, <2>4 DEF Room
<1> QED
  BY <1>3, <1>4

-----------------------------------------------------------------------------
(* The steps that leave the directory, the worktrees and the coordinator   *)
(* alone.                                                                  *)
LEMMA CallersLeaveClaims ==
  ASSUME World \/ \E c \in Caller : Call(c)
  PROVE  UNCHANGED <<work, scene>>
<1>1. CASE World
  BY <1>1 DEF World, ChangePacket, Sign, Tick, clock
<1>2. ASSUME NEW c \in Caller, Call(c) PROVE UNCHANGED <<work, scene>>
  <2>1. ASSUME NEW r, Lists(c, r) PROVE UNCHANGED <<work, scene>>
    BY <2>1 DEF Lists, clock
  <2>2. CASE Begin(c) \/ Scan(c) \/ ScanEnds(c)
    BY <2>2 DEF Begin, Scan, ScanEnds, clock
  <2>3. CASE Send(c)
    BY <2>3 DEF Send, clock
  <2>4. CASE CallerCrash(c)
    BY <2>4 DEF CallerCrash
  <2>5. ASSUME NEW d, NEW effect, NEW action, Ask(c, d, effect, action)
        PROVE  UNCHANGED <<work, scene>>
    BY <2>5 DEF Ask, clock
  <2>6. ASSUME NEW effect, Reconcile(c, effect) PROVE UNCHANGED <<work, scene>>
    BY <2>6 DEF Reconcile, clock
  <2> QED
    BY <1>2, <2>1, <2>2, <2>3, <2>4, <2>5, <2>6 DEF Call
<1> QED
  BY <1>1, <1>2

(* The facts of a request are the claims that stand.                       *)
LEMMA ReconciledIsClaims ==
  ASSUME ClaimsType, Asks
  PROVE  /\ DOMAIN Reconciled \subseteq Id
         /\ \A i \in DOMAIN Reconciled :
              /\ claims[i] \in Claim /\ Reconciled[i] \in Claim
              /\ SameWork(claims[i], Reconciled[i])
              /\ Reconciled[i].id = i /\ Reconciled[i].status = claims[i].status
         /\ Live(Reconciled) = Live(claims)
         /\ \A i \in Id \ DOMAIN Reconciled : claims[i] = Absent
<1>1. DOMAIN Reconciled = Present /\ Present \subseteq Id
  BY DEF Reconciled, Present
<1>2. ASSUME NEW i \in Present
      PROVE  /\ claims[i] \in Claim /\ Reconciled[i] \in Claim
             /\ SameWork(claims[i], Reconciled[i])
             /\ Reconciled[i].id = i /\ Reconciled[i].status = claims[i].status
  <2>1. claims[i] \in Claim /\ claims[i].id = i
    BY DEF Present, ClaimsType, Asks, HasTorn
  <2>2. PICK d \in BOOLEAN : d = (tree[TreeOf(i)] = "dirty")
    OBVIOUS
  <2>3. PICK u \in BOOLEAN : u = (tree[TreeOf(i)] = "unpushed")
    OBVIOUS
  <2>4. Reconciled[i] = [claims[i] EXCEPT !.dirty = d, !.unpushed = u]
    BY <2>2, <2>3 DEF Reconciled
  <2> QED
    BY <2>1, <2>4 DEF Claim, SameWork
<1>3. ASSUME NEW i \in Id, i \notin Present PROVE claims[i] = Absent
  BY <1>3 DEF Present
<1>4. Live(Reconciled) = Live(claims)
  <2>1. DOMAIN claims = Id
    BY DEF ClaimsType
  <2>2. ~("absent" \in ActiveStatus)
    BY DEF ActiveStatus
  <2> QED
    BY <1>1, <1>2, <1>3, <2>1, <2>2 DEF Live, IsActive, Absent
<1> QED
  BY <1>1, <1>2, <1>3, <1>4

(* What an ALLOW of evaluate_release says of the claim it names.           *)
LEMMA ReleaseAllows ==
  ASSUME ClaimsType, Asks, NEW i \in Id, NEW action,
         EvaluateRelease(action, i, Reconciled) = "ALLOW"
  PROVE  /\ i \in DOMAIN Reconciled /\ claims[i] \in Claim
         /\ claims[i].status \in ReleasableStatus
         /\ action = "cleanup-worktree" => ~Unsafe(Reconciled[i])
<1> DEFINE matches == {j \in DOMAIN Reconciled : Reconciled[j].id = i}
<1>1. /\ Cardinality(matches) = 1
      /\ \A j \in matches : Reconciled[j].status \in ReleasableStatus
      /\ action = "cleanup-worktree" => \A j \in matches : ~Unsafe(Reconciled[j])
  BY DEF EvaluateRelease
<1>2. matches # {}
  BY <1>1, FS_EmptySet
<1>3. i \in matches
  BY <1>2, ReconciledIsClaims
<1> QED
  BY <1>1, <1>3, ReconciledIsClaims

LEMMA ClaimsInit ==
  ASSUME Init PROVE ClaimsInv
<1>1. ClaimsType
  BY DEF Init, ClaimsType, Idle, Absent, Claim
<1>2. Live(claims) = {}
  BY DEF Init, Live, IsActive, Absent, ActiveStatus
<1>3. ClaimsIndependent
  BY <1>2, FS_EmptySet, WorkAssumption DEF ClaimsIndependent
<1>4. coordinator.at = "idle"
  BY DEF Init, Idle
<1> QED
  BY <1>1, <1>3, <1>4 DEF ClaimsInv

(* Every step keeps the directory independent, and room for the claim the  *)
(* coordinator is about to write.                                          *)
LEMMA ClaimsStep ==
  ASSUME ClaimsInv, [Next]_vars
  PROVE  ClaimsInv'
<1> USE DEF ClaimsInv
<1>0. Absent \notin Claim /\ Torn \notin Claim /\ ~IsActive(Absent) /\ ~IsActive(Torn)
  BY DEF Absent, Torn, Claim, IsActive, ActiveStatus
<1>a. DOMAIN claims = Id /\ \A i \in Live(claims) : i \in Id /\ claims[i] \in Claim
  BY <1>0 DEF ClaimsType, Live
<1>1. ASSUME UNCHANGED <<work, scene>> PROVE ClaimsInv'
  BY <1>1 DEF work, ClaimsType, ClaimsIndependent, Room
<1>2. ASSUME NEW i \in Id, NEW status \in {Absent, Torn},
             claims' = [claims EXCEPT ![i] = status], UNCHANGED scene,
             ClaimsType',
             coordinator'.at \in {"admitted", "writing"} =>
               coordinator.at \in {"admitted", "writing"} /\ coordinator'.claim = coordinator.claim
      PROVE  ClaimsInv'
  <2>1. Live(claims)' \subseteq Live(claims)
    BY <1>0, <1>2, <1>a DEF Live
  <2>2. \A j \in Live(claims)' : SameWork(claims[j], claims'[j])
    BY <1>0, <1>2, <1>a DEF Live, SameWork
  <2>3. ClaimsIndependent' /\ \A p \in Proposal : Room(p) => Room(p)'
    BY <1>2, <2>1, <2>2, FewerLive
  <2>4. ASSUME coordinator'.at \in {"admitted", "writing"} PROVE Room(coordinator.claim)' /\ coordinator'.claim = coordinator.claim
    <3>1. coordinator.claim \in Proposal /\ Room(coordinator.claim)
      BY <1>2, <2>4 DEF ClaimsType, Idle
    <3>2. PICK p \in Proposal : p = coordinator.claim
      BY <3>1
    <3>3. coordinator'.claim = p
      BY <1>2, <2>4, <3>2
    <3> QED
      BY <2>3, <3>1, <3>2, <3>3 DEF Room
  <2> QED
    BY <1>2, <2>3, <2>4 DEF Room
<1>3. ASSUME NEW i \in Id, IsActive(claims[i]), UNCHANGED <<coordinator, scene>>,
             claims'[i] \in Claim, SameWork(claims[i], claims'[i]), claims'[i].id = i,
             claims' = [claims EXCEPT ![i] = claims'[i]]
      PROVE  ClaimsInv'
  <2>1. ClaimsType'
    BY <1>3, <1>a DEF ClaimsType
  <2>2. Live(claims)' \subseteq Live(claims)
    BY <1>3, <1>a DEF Live
  <2>3. \A j \in Live(claims)' : SameWork(claims[j], claims'[j])
    BY <1>3, <1>a DEF Live, SameWork
  <2>4. ClaimsIndependent' /\ \A p \in Proposal : Room(p) => Room(p)'
    BY <2>1, <2>2, <2>3, FewerLive
  <2>5. coordinator.at \in {"admitted", "writing"} => coordinator.claim \in Proposal
    BY DEF ClaimsType, Idle
  <2> QED
    BY <1>3, <2>1, <2>4, <2>5 DEF Room
<1>4. ASSUME NEW p \in Proposal, NEW host, Propose(p, host) PROVE ClaimsInv'
  <2>1. Asks /\ EvaluateAdmit(p, Reconciled, host, WIP_LIMIT) = "ALLOW" /\ p \in Claim
        /\ UNCHANGED <<claims, scene>> /\ coordinator' = [at |-> "admitted", claim |-> p]
    BY <1>4, WorkAssumption DEF Propose, clock
  <2>2. /\ \A i \in DOMAIN Reconciled : Reconciled[i].id # p.id
        /\ Cardinality(Live(Reconciled)) < WIP_LIMIT
        /\ \A i \in Live(Reconciled) : Independent(p, Reconciled[i]) /\ Independent(Reconciled[i], p)
    BY <2>1, ReconciledIsClaims, AdmitAllows
  <2>3. claims[p.id] = Absent
    BY <2>1, <2>2, ReconciledIsClaims DEF Claim
  <2>4. ASSUME NEW i \in Live(claims)
        PROVE  Independent(p, claims[i]) /\ Independent(claims[i], p)
    <3>1. Independent(p, Reconciled[i]) /\ Independent(Reconciled[i], p)
      BY <2>1, <2>2, <2>4, ReconciledIsClaims
    <3>2. SameWork(Reconciled[i], claims[i]) /\ SameWork(p, p)
      BY <2>1, <2>4, ReconciledIsClaims DEF SameWork, Live
    <3> QED
      BY <3>1, <3>2, IndependenceOfWork
  <2>5. Room(p)
    BY <1>0, <2>1, <2>2, <2>3, <2>4, ReconciledIsClaims DEF Room
  <2>6. ClaimsType' /\ ClaimsIndependent'
    BY <2>1 DEF ClaimsType, ClaimsIndependent
  <2> QED
    BY <2>1, <2>5, <2>6 DEF Room
<1>5. CASE BeginClaim
  <2>1. coordinator \in [at : {"admitted", "writing"}, claim : Proposal]
    BY <1>5 DEF BeginClaim, ClaimsType, Idle
  <2>2. coordinator.claim.id \in Id /\ coordinator' \in [at : {"admitted", "writing"}, claim : Proposal]
        /\ coordinator'.claim = coordinator.claim
    BY <1>5, <2>1, WorkAssumption DEF BeginClaim, Claim
  <2>3. ClaimsType'
    BY <1>0, <1>5, <2>2 DEF BeginClaim, ClaimsType, clock
  <2> QED
    BY <1>2, <1>5, <2>1, <2>2, <2>3 DEF BeginClaim, clock
<1>6. CASE EndClaim
  <2>1. PICK p \in Proposal : p = coordinator.claim
    BY <1>6 DEF EndClaim, ClaimsType, Idle
  <2>2. p \in Claim /\ p.id \in Id /\ Room(p)
    BY <1>6, <2>1, WorkAssumption DEF EndClaim, Claim
  <2>3. claims' = [claims EXCEPT ![p.id] = p] /\ coordinator' = Idle /\ UNCHANGED scene
    BY <1>6, <2>1 DEF EndClaim, clock
  <2>4. ClaimsType'
    BY <2>2, <2>3 DEF ClaimsType
  <2>5. Live(claims)' \subseteq Live(claims) \cup {p.id} /\ p.id \notin Live(claims)
    BY <2>2, <2>3, <1>a DEF Live, Room
  <2>6. Cardinality(Live(claims)') <= WIP_LIMIT
    <3>1. IsFiniteSet(Live(claims)) /\ Cardinality(Live(claims)) \in Nat
      BY LiveIsFinite
    <3>2. IsFiniteSet(Live(claims) \cup {p.id})
          /\ Cardinality(Live(claims) \cup {p.id}) = Cardinality(Live(claims)) + 1
      BY <2>5, <3>1, FS_AddElement
    <3>3. Cardinality(Live(claims)') <= Cardinality(Live(claims) \cup {p.id})
          /\ Cardinality(Live(claims)') \in Nat
      BY <2>5, <3>2, FS_Subset, FS_CardinalityType
    <3> QED
      BY <2>2, <3>1, <3>2, <3>3, WorkAssumption DEF Room
  <2>7. ASSUME NEW i \in Live(claims)', NEW j \in Live(claims)', i # j
        PROVE  Independent(claims'[i], claims'[j])
    <3>1. CASE i # p.id /\ j # p.id
      BY <2>3, <2>5, <2>7, <3>1, <1>a DEF ClaimsIndependent
    <3>2. CASE i = p.id
      <4>1. claims'[i] = p /\ claims'[j] = claims[j] /\ j \in Live(claims)
        BY <2>2, <2>3, <2>5, <2>7, <3>2, <1>a
      <4> QED
        BY <2>2, <4>1 DEF Room
    <3>3. CASE j = p.id
      <4>1. claims'[j] = p /\ claims'[i] = claims[i] /\ i \in Live(claims)
        BY <2>2, <2>3, <2>5, <2>7, <3>3, <1>a
      <4> QED
        BY <2>2, <4>1 DEF Room
    <3> QED
      BY <3>1, <3>2, <3>3
  <2>8. ClaimsIndependent'
    BY <2>6, <2>7 DEF ClaimsIndependent
  <2> QED
    BY <2>3, <2>4, <2>8 DEF Idle
<1>7. ASSUME NEW i \in Id, Repair(i) \/ ReleaseClaim(i) PROVE ClaimsInv'
  <2>1. claims' = [claims EXCEPT ![i] = Absent] /\ UNCHANGED <<coordinator, scene>>
    BY <1>7 DEF Repair, ReleaseClaim, clock
  <2>2. ClaimsType'
    BY <1>0, <2>1 DEF ClaimsType
  <2> QED
    BY <1>2, <2>1, <2>2
<1>8. ASSUME NEW i \in Id, Cleanup(i) PROVE ClaimsInv'
  <2>1. claims[i] \in Claim
    BY <1>8, ReleaseAllows DEF Cleanup
  <2>2. TreeOf(i) \in Worktree
    BY <2>1 DEF TreeOf, Worktree, Claim
  <2>3. coordinator' = [at |-> "cleaning", id |-> i, worktree |-> TreeOf(i)]
        /\ UNCHANGED <<claims, scene>>
    BY <1>8 DEF Cleanup, clock
  <2> QED
    BY <2>2, <2>3 DEF ClaimsType, ClaimsIndependent
<1>9. CASE RemoveWorktree \/ CoordinatorCrash
  <2>1. coordinator' = Idle /\ UNCHANGED <<claims, scene>>
    BY <1>9 DEF RemoveWorktree, CoordinatorCrash, clock
  <2> QED
    BY <2>1 DEF ClaimsType, ClaimsIndependent, Idle
<1>10. ASSUME NEW i \in Id, Work(i) PROVE ClaimsInv'
  BY <1>10 DEF Work, clock, ClaimsType, ClaimsIndependent, Room
<1>11. ASSUME NEW i \in Id, NEW status \in scene.statuses, Report(i, status) PROVE ClaimsInv'
  <2>1. IsActive(claims[i]) /\ claims[i] \in Claim /\ claims[i].id = i
    BY <1>0, <1>11 DEF Report, ClaimsType
  <2>2. status \in ActiveStatus \cup ReleasableStatus
    BY <1>11, WorkAssumption DEF ClaimsType
  <2>3. claims'[i] = [claims[i] EXCEPT !.status = status] /\ UNCHANGED <<coordinator, scene>>
        /\ claims' = [claims EXCEPT ![i] = claims'[i]]
    BY <1>11, <1>a DEF Report, clock, ClaimsType
  <2>4. claims'[i] \in Claim /\ SameWork(claims[i], claims'[i]) /\ claims'[i].id = i
    BY <2>1, <2>2, <2>3 DEF Claim, SameWork
  <2> QED
    BY <1>3, <2>1, <2>3, <2>4
<1>12. ASSUME NEW i \in Id, LoseTrack(i) PROVE ClaimsInv'
  <2>1. IsActive(claims[i]) /\ claims[i] \in Claim /\ claims[i].id = i
    BY <1>0, <1>12 DEF LoseTrack, ClaimsType
  <2>2. claims'[i] = [claims[i] EXCEPT !.ambiguous = TRUE] /\ UNCHANGED <<coordinator, scene>>
        /\ claims' = [claims EXCEPT ![i] = claims'[i]]
    BY <1>12, <1>a DEF LoseTrack, clock, ClaimsType
  <2>3. claims'[i] \in Claim /\ SameWork(claims[i], claims'[i]) /\ claims'[i].id = i
    BY <2>1, <2>2 DEF Claim, SameWork
  <2> QED
    BY <1>3, <2>1, <2>2, <2>3
<1>13. CASE Coordinate
  BY <1>4, <1>5, <1>6, <1>7, <1>8, <1>9, <1>13 DEF Coordinate
<1>14. CASE Working
  BY <1>10, <1>11, <1>12, <1>14 DEF Working
<1>15. CASE World \/ \E c \in Caller : Call(c)
  BY <1>1, <1>15, CallersLeaveClaims
<1>16. CASE UNCHANGED vars
  BY <1>1, <1>16 DEF vars, clock
<1> QED
  BY <1>13, <1>14, <1>15, <1>16 DEF Next

(* Whatever is proposed, reported, released and lost track of, and         *)
(* wherever the coordinator dies, the claims work_admission.py let stand   *)
(* side by side are independent and within the limit.                      *)
THEOREM ClaimsStayIndependent == Spec => []ClaimsIndependent
<1>1. Init => ClaimsInv
  BY ClaimsInit
<1>2. ClaimsInv /\ [Next]_vars => ClaimsInv'
  BY ClaimsStep
<1>3. ClaimsInv => ClaimsIndependent
  BY DEF ClaimsInv
<1> QED
  BY <1>1, <1>2, <1>3, PTL DEF Spec

-----------------------------------------------------------------------------
(* While the coordinator cleans up, the claim it cleans up for has ended,  *)
(* and whoever made the worktree unclean since has a claim of its own.     *)
Stands(i, w) == claims[i] \in Claim /\ Canonical(claims[i].worktree) = w

CleaningSafe ==
  /\ claims[coordinator.id] \in Claim /\ ~IsActive(claims[coordinator.id])
  /\ \/ tree[coordinator.worktree] = "clean"
     \/ \E i \in Id : i # coordinator.id /\ Stands(i, coordinator.worktree)

CleanInv ==
  /\ ClaimsInv
  /\ tree \in [Worktree -> {"clean", "dirty", "unpushed"}]
  /\ coordinator.at = "cleaning" => CleaningSafe

LEMMA StandsIsAt ==
  ASSUME NEW i, NEW w, Stands(i, w) PROVE IsAt(i, w)
BY DEF Stands, IsAt, TreeOf, Claim, Absent, Torn

LEMMA CleanStep ==
  ASSUME CleanInv, [Next]_vars
  PROVE  CleanInv'
<1> USE DEF CleanInv
<1>0. ClaimsInv' /\ ClaimsType /\ ClaimsType'
  BY ClaimsStep DEF ClaimsInv
<1>a. Absent \notin Claim /\ Torn \notin Claim /\ ~IsActive(Absent) /\ ~IsActive(Torn)
  BY DEF Absent, Torn, Claim, IsActive, ActiveStatus
<1>b. coordinator.at = "cleaning" =>
        coordinator \in [at : {"cleaning"}, id : Id, worktree : Worktree]
  BY <1>0 DEF ClaimsType, Idle
<1>1. ASSUME UNCHANGED <<work, scene>> PROVE CleanInv'
  BY <1>0, <1>1 DEF work, CleaningSafe, Stands
<1>2. ASSUME UNCHANGED tree, coordinator'.at # "cleaning" PROVE CleanInv'
  BY <1>0, <1>2
<1>3. ASSUME NEW p, NEW host, Propose(p, host) PROVE CleanInv'
  BY <1>2, <1>3 DEF Propose
<1>4. CASE BeginClaim \/ EndClaim
  <2>1. CASE BeginClaim
    <3>1. coordinator \in [at : {"admitted", "writing"}, claim : Proposal]
      BY <1>0, <2>1 DEF BeginClaim, ClaimsType, Idle
    <3> QED
      BY <1>2, <2>1, <3>1 DEF BeginClaim
  <2>2. CASE EndClaim
    BY <1>2, <2>2 DEF EndClaim, Idle
  <2> QED
    BY <1>4, <2>1, <2>2
<1>5. ASSUME NEW i \in Id, Repair(i) \/ ReleaseClaim(i) PROVE CleanInv'
  BY <1>2, <1>5 DEF Repair, ReleaseClaim, Asks, Idle
<1>6. ASSUME NEW i \in Id, Cleanup(i) PROVE CleanInv'
  <2>1. /\ i \in DOMAIN Reconciled /\ claims[i] \in Claim
        /\ claims[i].status \in ReleasableStatus /\ ~Unsafe(Reconciled[i])
    BY <1>0, <1>6, ReleaseAllows DEF Cleanup
  <2>2. TreeOf(i) \in Worktree
    BY <2>1 DEF TreeOf, Worktree, Claim
  <2>3. tree[TreeOf(i)] \in {"clean", "dirty", "unpushed"}
    BY <2>2
  <2>4. /\ Reconciled[i].dirty = (tree[TreeOf(i)] = "dirty")
        /\ Reconciled[i].unpushed = (tree[TreeOf(i)] = "unpushed")
    <3>1. DOMAIN Reconciled = Present
      BY DEF Reconciled
    <3>2. Reconciled[i] = [claims[i] EXCEPT !.dirty    = tree[TreeOf(i)] = "dirty",
                                            !.unpushed = tree[TreeOf(i)] = "unpushed"]
      BY <2>1, <3>1 DEF Reconciled
    <3>3. "dirty" \in DOMAIN claims[i] /\ "unpushed" \in DOMAIN claims[i]
      BY <2>1 DEF Claim
    <3> HIDE DEF CleanInv
    <3> QED
      BY Zenon, <3>2, <3>3
  <2>5. tree[TreeOf(i)] # "dirty"
    BY <2>1, <2>4, Zenon DEF Unsafe
  <2>6. tree[TreeOf(i)] # "unpushed"
    BY <2>1, <2>4, Zenon DEF Unsafe
  <2>7. ~IsActive(claims[i])
    BY <2>1 DEF IsActive, ActiveStatus, ReleasableStatus
  <2>8. coordinator' = [at |-> "cleaning", id |-> i, worktree |-> TreeOf(i)]
        /\ UNCHANGED <<claims, tree>>
    BY <1>6 DEF Cleanup
  <2> QED
    BY <1>0, <2>1, <2>3, <2>5, <2>6, <2>7, <2>8 DEF CleaningSafe
<1>7. CASE RemoveWorktree \/ CoordinatorCrash
  BY <1>0, <1>7 DEF RemoveWorktree, CoordinatorCrash, Idle
<1>8. ASSUME NEW i \in Id, Work(i) PROVE CleanInv'
  <2>1. claims[i] \in Claim /\ IsActive(claims[i]) /\ UNCHANGED <<claims, coordinator>>
        /\ tree' = [tree EXCEPT ![TreeOf(i)] = After(@)]
    BY <1>0, <1>8, <1>a DEF Work, ClaimsType
  <2>2. TreeOf(i) \in Worktree
    BY <2>1 DEF TreeOf, Worktree, Claim
  <2>3. tree' \in [Worktree -> {"clean", "dirty", "unpushed"}]
    BY <2>1, <2>2 DEF After
  <2>4. ASSUME coordinator.at = "cleaning" PROVE CleaningSafe'
    <3>1. i # coordinator.id
      BY <2>1, <2>4 DEF CleaningSafe
    <3>2. CASE TreeOf(i) = coordinator.worktree
      BY <2>1, <2>4, <3>1, <3>2 DEF CleaningSafe, Stands, TreeOf
    <3>3. CASE TreeOf(i) # coordinator.worktree
      BY <1>b, <2>1, <2>2, <2>4, <3>3 DEF CleaningSafe, Stands
    <3> QED
      BY <3>2, <3>3
  <2> QED
    BY <1>0, <2>1, <2>3, <2>4
<1>9. ASSUME NEW i \in Id, IsActive(claims[i]), UNCHANGED <<tree, coordinator>>, claims[i] \in Claim,
             claims'[i] \in Claim, claims'[i].worktree = claims[i].worktree,
             \A j \in Id : j # i => claims'[j] = claims[j]
      PROVE  CleanInv'
  <2>1. ASSUME coordinator.at = "cleaning" PROVE CleaningSafe'
    <3>1. i # coordinator.id /\ coordinator.id \in Id
      BY <1>9, <1>b, <2>1 DEF CleaningSafe
    <3>2. \A j \in Id, w \in Worktree : Stands(j, w) => Stands(j, w)'
      BY <1>9 DEF Stands
    <3> QED
      BY <1>9, <1>b, <2>1, <3>1, <3>2 DEF CleaningSafe
  <2> QED
    BY <1>0, <1>9, <2>1
<1>10. ASSUME NEW i \in Id, NEW status \in scene.statuses, Report(i, status) PROVE CleanInv'
  <2>1. IsActive(claims[i]) /\ claims[i] \in Claim
    BY <1>0, <1>10, <1>a DEF Report, ClaimsType
  <2>2. claims' = [claims EXCEPT ![i] = [claims[i] EXCEPT !.status = status]]
        /\ UNCHANGED <<tree, coordinator>> /\ DOMAIN claims = Id
    BY <1>0, <1>10 DEF Report, ClaimsType
  <2>3. status \in ActiveStatus \cup ReleasableStatus
    BY <1>0, <1>10, WorkAssumption DEF ClaimsType
  <2>4. claims'[i] \in Claim /\ claims'[i].worktree = claims[i].worktree
    BY <2>1, <2>2, <2>3 DEF Claim
  <2> QED
    BY <1>9, <2>1, <2>2, <2>4
<1>11. ASSUME NEW i \in Id, LoseTrack(i) PROVE CleanInv'
  <2>1. IsActive(claims[i]) /\ claims[i] \in Claim
    BY <1>0, <1>11, <1>a DEF LoseTrack, ClaimsType
  <2>2. claims' = [claims EXCEPT ![i] = [claims[i] EXCEPT !.ambiguous = TRUE]]
        /\ UNCHANGED <<tree, coordinator>> /\ DOMAIN claims = Id
    BY <1>0, <1>11 DEF LoseTrack, ClaimsType
  <2>3. claims'[i] \in Claim /\ claims'[i].worktree = claims[i].worktree
    BY <2>1, <2>2 DEF Claim
  <2> QED
    BY <1>9, <2>1, <2>2, <2>3
<1>12. CASE Coordinate
  BY <1>3, <1>4, <1>5, <1>6, <1>7, <1>12 DEF Coordinate
<1>13. CASE Working
  BY <1>8, <1>10, <1>11, <1>13 DEF Working
<1>14. CASE World \/ \E c \in Caller : Call(c)
  BY <1>1, <1>14, CallersLeaveClaims
<1>15. CASE UNCHANGED vars
  BY <1>1, <1>15 DEF vars, clock
<1> QED
  BY <1>12, <1>13, <1>14, <1>15 DEF Next

(* Only the removal of a worktree cleans it while the coordinator is       *)
(* cleaning up, and it removes the worktree it looked at.                  *)
LEMMA RemovalIsSafe ==
  ASSUME CleanInv, [Next]_vars, NEW w \in Worktree, coordinator.at = "cleaning",
         tree[w] # "clean", coordinator' = Idle, tree'[w] = "clean"
  PROVE  \E i \in Id : i # coordinator.id /\ IsAt(i, w)
<1>1. coordinator \in [at : {"cleaning"}, id : Id, worktree : Worktree] /\ coordinator' # coordinator
  BY DEF CleanInv, ClaimsInv, ClaimsType, Idle
<1>2. Coordinate
  <2>1. ~(World \/ \E c \in Caller : Call(c))
    BY <1>1, CallersLeaveClaims DEF work
  <2>2. ~Working
    BY <1>1 DEF Working, Work, Report, LoseTrack
  <2>3. ~UNCHANGED vars
    BY <1>1 DEF vars, work
  <2> QED
    BY <2>1, <2>2, <2>3 DEF Next
<1>3. coordinator # Idle
  BY DEF Idle
<1>4. RemoveWorktree \/ CoordinatorCrash
  <2>1. ~BeginClaim /\ ~EndClaim
    BY DEF BeginClaim, EndClaim
  <2>2. \A p \in Proposal, host \in {"WARN", "BLOCK"} : ~Propose(p, host)
    BY <1>3 DEF Propose, Asks
  <2>3. \A i \in Id : ~Repair(i) /\ ~ReleaseClaim(i) /\ ~Cleanup(i)
    BY <1>3 DEF Repair, ReleaseClaim, Cleanup, Asks
  <2> QED
    BY <1>2, <2>1, <2>2, <2>3 DEF Coordinate
<1>5. w = coordinator.worktree
  BY <1>4 DEF RemoveWorktree, CoordinatorCrash, CleanInv
<1>6. PICK i \in Id : i # coordinator.id /\ Stands(i, w)
  BY <1>5 DEF CleanInv, CleaningSafe
<1> QED
  BY <1>6, StandsIsAt

(* A cleanup that evaluate_release allowed takes no work but what another  *)
(* claim of the same worktree stands for.                                  *)
THEOREM CleanupIsSafe == Spec => CleanupLosesNothing
<1>1. Init => CleanInv
  <2> SUFFICES ASSUME Init PROVE CleanInv
    OBVIOUS
  <2>1. ClaimsInv
    BY ClaimsInit
  <2> QED
    BY <2>1 DEF Init, CleanInv, Idle
<1>2. CleanInv /\ [Next]_vars => CleanInv'
  BY CleanStep
<1>3. CleanInv /\ [Next]_vars =>
        [\A w \in Worktree :
           (coordinator.at = "cleaning" /\ tree[w] # "clean" /\ coordinator' = Idle /\ tree'[w] = "clean")
           => \E i \in Id : i # coordinator.id /\ IsAt(i, w)]_vars
  BY RemovalIsSafe
<1> QED
  BY <1>1, <1>2, <1>3, PTL DEF Spec, CleanupLosesNothing

-----------------------------------------------------------------------------
(* The external writes.                                                    *)

Remembered ==
  [outcome : {"NOT_SENT", "APPLIED"} \cup Unknown,
   failure : {"NONE", "TRANSIENT", "SEMANTIC"}, retries : Nat]

Evaluation ==
  [at : {"reading", "scanning", "ready", "sending"}, packet : Packet,
   resource : {"PASS", "BLOCK", "UNKNOWN"}, admission : {"UNKNOWN", "DENY", "SCAN", "ALLOW"},
   unread : SUBSET Id, matched : BOOLEAN, effect : Effect \cup {NoEffect},
   dispatch : DispatchId \cup {NoDispatch}]

Matching(c) == {i \in Id : MatchesClaim(claims[i], caller[c].packet) /\ ~claims[i].ambiguous}
Admissible(c) == caller[c].packet.revision \in held[c]

(* What a caller holds, against the history: a claim it saw or can still   *)
(* see was live since it read the packet, and what it is told to send is   *)
(* not known to have been sent.                                            *)
CallerSafe(c) ==
  caller[c] # Resting =>
    /\ Matching(c) # {} => Admissible(c)
    /\ caller[c].matched \/ caller[c].admission = "ALLOW" => Admissible(c)
    /\ caller[c].at = "sending" =>
         /\ caller[c].effect \in Effect
         /\ caller[c].effect.bound.revision \in held[c]
         /\ memory[c][caller[c].effect].outcome = "NOT_SENT"

(* What a caller remembers as not sent it has not brought to GitHub.       *)
Knows(c) ==
  /\ landed[c] \subseteq github
  /\ \A e \in Effect : memory[c][e].outcome = "NOT_SENT" => e \notin landed[c]

(* A dispatch is either unused, or with one caller, or spent.              *)
Sending(c, d) == caller[c].at = "sending" /\ caller[c].dispatch = d
DispatchSafe(d) ==
  /\ wrote[d] <= 1
  /\ d \notin consumed => wrote[d] = 0
  /\ \A c \in Caller : Sending(c, d) => d \in consumed /\ wrote[d] = 0
  /\ \A c, e \in Caller : Sending(c, d) /\ Sending(e, d) => c = e

MemoryType ==
  /\ memory \in [Caller -> [Effect -> Remembered]]
  /\ landed \in [Caller -> SUBSET Effect]

CallType ==
  /\ caller \in [Caller -> {Resting} \cup Evaluation]
  /\ packet \in Packet
  /\ \A d \in signed : d.id \in DispatchId
  /\ wrote \in [DispatchId -> Nat]
  /\ held = [c \in Caller |-> held[c]]
  /\ MemoryType

CallInv ==
  /\ CallType
  /\ \A c \in Caller : CallerSafe(c) /\ Knows(c)
  /\ \A d \in DispatchId : DispatchSafe(d)

WriteInv == ClaimsInv /\ CallInv

-----------------------------------------------------------------------------
(* What an APPLIED of evaluate says of the request.                        *)
LEMMA AppliedMeans ==
  ASSUME NEW q, NEW gate, Evaluate(q, gate) = "APPLIED"
  PROVE  /\ q.authoritative = q.effect.bound /\ q.admission = "ALLOW"
         /\ q.outcome \notin AmbiguousOutcomes /\ q.outcome # "APPLIED"
         /\ gate = "ALLOW" /\ Evaluate(q, "ALLOW") = "APPLIED"
BY DEF Evaluate, Moved

(* The gate lets a dispatch through once.                                  *)
LEMMA GateAllows ==
  ASSUME NEW d, NEW effect, NEW time, Gate(d, effect, time, consumed) = "ALLOW"
  PROVE  d.id \notin consumed
<1>1. d.flaw \notin AdapterFlaw
  BY DEF Gate, AdapterFlaw
<1>2. Authorize(d, effect, time) = "ALLOW"
  BY <1>1 DEF Gate
<1> QED
  BY <1>1, <1>2 DEF Gate, Consume

LEMMA RestingIsNoEvaluation == Resting \notin Evaluation
BY DEF Resting, Evaluation

(* A step of the directory that adds no claim a caller could take for its  *)
(* own, unless the history has it, leaves the callers safe.                *)
LEMMA DirectoryStep ==
  ASSUME CallInv, UNCHANGED writing, held' = [c \in Caller |-> held'[c]],
         \A c \in Caller : held[c] \subseteq held'[c],
         \A c \in Caller : caller[c] # Resting /\ Matching(c)' # {} =>
                             Matching(c) # {} \/ caller[c].packet.revision \in held'[c]
  PROVE  CallInv'
<1>1. UNCHANGED <<caller, packet, signed, consumed, github, memory, wrote, landed>>
  BY DEF writing, outside, known
<1>2. CallType'
  BY <1>1 DEF CallInv, CallType, MemoryType
<1>3. ASSUME NEW c \in Caller PROVE CallerSafe(c)' /\ Knows(c)'
  BY <1>1, <1>3 DEF CallInv, CallerSafe, Admissible, Knows
<1>4. ASSUME NEW d \in DispatchId PROVE DispatchSafe(d)'
  BY <1>1, <1>4 DEF CallInv, DispatchSafe, Sending
<1> QED
  BY <1>2, <1>3, <1>4 DEF CallInv

(* A step of one caller that sends nothing.                                *)
LEMMA CallerStep ==
  ASSUME CallInv, NEW c \in Caller, NEW evaluation \in {Resting} \cup Evaluation,
         caller' = [caller EXCEPT ![c] = evaluation], evaluation.at # "sending",
         UNCHANGED <<claims, packet, signed, wrote, github>>, consumed \subseteq consumed',
         \/ UNCHANGED held
         \/ \E these : held' = [held EXCEPT ![c] = these],
         MemoryType', \A e \in Caller : e # c => memory'[e] = memory[e] /\ landed'[e] = landed[e],
         CallerSafe(c)', Knows(c)'
  PROVE  CallInv'
<1>1. CallType'
  BY DEF CallInv, CallType
<1>2. \A e \in Caller : e # c => caller'[e] = caller[e] /\ held'[e] = held[e]
  BY DEF CallInv, CallType
<1>3. caller'[c] = evaluation
  BY DEF CallInv, CallType
<1>4. ASSUME NEW e \in Caller PROVE CallerSafe(e)' /\ Knows(e)'
  BY <1>2, <1>4 DEF CallInv, CallerSafe, Admissible, Matching, Knows
<1>5. ASSUME NEW d \in DispatchId PROVE DispatchSafe(d)'
  <2>1. \A e \in Caller : Sending(e, d)' => e # c /\ Sending(e, d)
    BY <1>2, <1>3 DEF Sending
  <2> QED
    BY <1>5, <2>1 DEF CallInv, DispatchSafe
<1> QED
  BY <1>1, <1>4, <1>5 DEF CallInv

(* The coordinator and the workers.                                        *)
LEMMA DirectoryKeepsCalls ==
  ASSUME WriteInv, Coordinate \/ Working
  PROVE  CallInv'
<1> USE DEF WriteInv
<1>0. /\ ClaimsType /\ CallType /\ held = [c \in Caller |-> held[c]]
      /\ DOMAIN claims = Id
      /\ \A c \in Caller : caller[c] # Resting => caller[c] \in Evaluation
  BY DEF ClaimsInv, ClaimsType, CallInv, CallType
<1>a. ~IsActive(Absent) /\ ~IsActive(Torn)
  BY DEF Absent, Torn, IsActive, ActiveStatus
<1>1. ASSUME UNCHANGED <<writing, held, clock>>,
             \A c \in Caller : Matching(c)' \subseteq Matching(c)
      PROVE  CallInv'
  BY <1>0, <1>1, DirectoryStep DEF clock
<1>2. ASSUME UNCHANGED <<writing, held, clock, claims>> PROVE CallInv'
  <2>1. \A c \in Caller : Matching(c)' \subseteq Matching(c)
    BY <1>2 DEF Matching, writing
  <2> QED
    BY <1>1, <1>2, <2>1
<1>3. ASSUME NEW i \in Id, NEW status \in {Absent, Torn}, UNCHANGED <<writing, held, clock>>,
             claims' = [claims EXCEPT ![i] = status]
      PROVE  CallInv'
  <2>1. \A c \in Caller : Matching(c)' \subseteq Matching(c)
    BY <1>0, <1>3, <1>a DEF Matching, MatchesClaim, writing
  <2> QED
    BY <1>1, <1>3, <2>1
<1>4. ASSUME NEW i \in Id, NEW file, IsActive(claims[i]), UNCHANGED <<writing, held, clock>>,
             claims' = [claims EXCEPT ![i] = file], SameWork(claims[i], file),
             file.revision = claims[i].revision, claims[i].ambiguous => file.ambiguous
      PROVE  CallInv'
  <2>1. \A c \in Caller : Matching(c)' \subseteq Matching(c)
    BY <1>0, <1>4 DEF Matching, MatchesClaim, IsClaimOf, IsOfStream, SameWork, writing
  <2> QED
    BY <1>1, <1>4, <2>1
<1>5. CASE BeginClaim
  <2>1. coordinator.claim.id \in Id
    BY <1>0, <1>5, WorkAssumption DEF BeginClaim, ClaimsType, Claim, Idle
  <2> QED
    BY <1>3, <1>5, <2>1 DEF BeginClaim
<1>6. CASE EndClaim
  <2>a. coordinator.claim \in Proposal
    BY <1>0, <1>6 DEF EndClaim, ClaimsType, Idle
  <2>b. coordinator.claim \in Claim
    BY <2>a, WorkAssumption
  <2>c. coordinator.claim.id \in Id
    BY <2>b DEF Claim
  <2>1. PICK p \in Proposal : p = coordinator.claim /\ p.id \in Id /\ p \in Claim
    BY <2>a, <2>b, <2>c
  <2>2. /\ claims' = [claims EXCEPT ![p.id] = p]
        /\ held' = [c \in Caller |-> held[c] \cup Revisions({p}, c)]
        /\ UNCHANGED <<writing, clock>>
    BY <1>6, <2>1 DEF EndClaim
  <2>3. ASSUME NEW c \in Caller, caller[c] # Resting, Matching(c)' # {}
        PROVE  Matching(c) # {} \/ caller[c].packet.revision \in held'[c]
    <3>1. PICK i \in Id : MatchesClaim(claims'[i], caller[c].packet) /\ ~claims'[i].ambiguous
      BY <2>2, <2>3 DEF Matching, writing
    <3>2. CASE i # p.id
      BY <1>0, <2>2, <3>1, <3>2 DEF Matching
    <3>3. CASE i = p.id
      <4>1. IsClaimOf(p, caller[c].packet)
        BY <1>0, <2>1, <2>2, <3>1, <3>3 DEF MatchesClaim
      <4>2. p \in {x \in {p} : caller[c] # Resting /\ IsOfStream(x, caller[c].packet)}
        BY <2>3, <4>1 DEF IsClaimOf
      <4>3. p.revision \in Revisions({p}, c)
        BY <4>2 DEF Revisions
      <4> QED
        BY <2>2, <4>1, <4>3 DEF IsClaimOf
    <3> QED
      BY <3>2, <3>3
  <2> QED
    BY <1>0, <2>2, <2>3, DirectoryStep DEF clock
<1>7. ASSUME NEW i \in Id, Repair(i) \/ ReleaseClaim(i) PROVE CallInv'
  BY <1>3, <1>7 DEF Repair, ReleaseClaim
<1>8. ASSUME NEW i \in Id, NEW status, Report(i, status) PROVE CallInv'
  <2>1. IsActive(claims[i]) /\ claims[i] \in Claim
    BY <1>0, <1>8, <1>a DEF Report, ClaimsType
  <2>2. claims' = [claims EXCEPT ![i] = [claims[i] EXCEPT !.status = status]]
    BY <1>0, <1>8 DEF Report
  <2>3. /\ SameWork(claims[i], [claims[i] EXCEPT !.status = status])
        /\ [claims[i] EXCEPT !.status = status].revision = claims[i].revision
        /\ [claims[i] EXCEPT !.status = status].ambiguous = claims[i].ambiguous
    BY <2>1 DEF SameWork, Claim
  <2> QED
    BY <1>4, <1>8, <2>1, <2>2, <2>3 DEF Report
<1>9. ASSUME NEW i \in Id, LoseTrack(i) PROVE CallInv'
  <2>1. IsActive(claims[i]) /\ claims[i] \in Claim
    BY <1>0, <1>9, <1>a DEF LoseTrack, ClaimsType
  <2>2. claims' = [claims EXCEPT ![i] = [claims[i] EXCEPT !.ambiguous = TRUE]]
    BY <1>0, <1>9 DEF LoseTrack
  <2>3. /\ SameWork(claims[i], [claims[i] EXCEPT !.ambiguous = TRUE])
        /\ [claims[i] EXCEPT !.ambiguous = TRUE].revision = claims[i].revision
        /\ [claims[i] EXCEPT !.ambiguous = TRUE].ambiguous = TRUE
    BY <2>1 DEF SameWork, Claim
  <2> QED
    BY <1>4, <1>9, <2>1, <2>2, <2>3 DEF LoseTrack
<1>10. ASSUME NEW p, NEW host, Propose(p, host) PROVE CallInv'
  BY <1>2, <1>10 DEF Propose
<1>11. ASSUME NEW i, Cleanup(i) \/ Work(i) PROVE CallInv'
  BY <1>2, <1>11 DEF Cleanup, Work
<1>12. CASE RemoveWorktree \/ CoordinatorCrash
  <2>1. UNCHANGED <<writing, held, claims>> /\ \A c \in Caller : Matching(c)' \subseteq Matching(c)
    BY <1>12 DEF RemoveWorktree, CoordinatorCrash, Matching, writing
  <2>2. held' = [c \in Caller |-> held'[c]] /\ \A c \in Caller : held[c] \subseteq held'[c]
    BY <1>0, <2>1
  <2>3. \A c \in Caller : caller[c] # Resting /\ Matching(c)' # {} =>
                            Matching(c) # {} \/ caller[c].packet.revision \in held'[c]
    BY <2>1
  <2> QED
    BY <2>1, <2>2, <2>3, DirectoryStep
<1>13. CASE Coordinate
  BY <1>5, <1>6, <1>7, <1>10, <1>11, <1>12, <1>13 DEF Coordinate
<1>14. CASE Working
  BY <1>8, <1>9, <1>11, <1>14 DEF Working
<1> QED
  BY <1>13, <1>14

(* The packet, the signatures and the clock.                               *)
LEMMA WorldKeepsCalls ==
  ASSUME WriteInv, World
  PROVE  CallInv'
<1> USE DEF WriteInv, CallInv
<1>1. ASSUME UNCHANGED <<claims, consumed, github, caller, known, held>>,
             packet' \in Packet, \A d \in signed' : d.id \in DispatchId
      PROVE  CallInv'
  <2>1. UNCHANGED <<memory, wrote, landed>>
    BY <1>1 DEF known
  <2>2. CallType'
    BY <1>1, <2>1 DEF CallType, MemoryType
  <2>3. ASSUME NEW c \in Caller PROVE CallerSafe(c)' /\ Knows(c)'
    BY <1>1, <2>1, <2>3 DEF CallerSafe, Admissible, Matching, Knows
  <2>4. ASSUME NEW d \in DispatchId PROVE DispatchSafe(d)'
    BY <1>1, <2>1, <2>4 DEF DispatchSafe, Sending
  <2> QED
    BY <2>2, <2>3, <2>4
<1>2. ASSUME NEW p \in Packet, ChangePacket(p) PROVE CallInv'
  BY <1>1, <1>2 DEF ChangePacket, work, CallType
<1>3. ASSUME NEW id \in DispatchId, NEW content, NEW flaw, Sign(id, content, flaw) PROVE CallInv'
  BY <1>1, <1>3 DEF Sign, work, CallType
<1>4. CASE Tick
  BY <1>1, <1>4 DEF Tick, work, writing, outside, CallType
<1> QED
  BY <1>2, <1>3, <1>4 DEF World

-----------------------------------------------------------------------------
(* The files of a listing are read in order, so there is a first one.      *)
LEMMA FirstOfTheListing ==
  ASSUME NEW ids \in SUBSET Id, ids # {}
  PROVE  First(ids) \in ids
<1>1. ids \subseteq Nat
  BY WorkAssumption DEF Id
<1>2. PICK i \in ids : \A j \in ids : <<j, i>> \notin OpToRel(<, Nat)
  BY <1>1, NatLessThanWellFounded, WFMin
<1>3. \A j \in ids : ~(j < i)
  BY <1>1, <1>2 DEF OpToRel
<1>4. \A j \in ids : i <= j
  BY <1>1, <1>3
<1> QED
  BY <1>4 DEF First

(* What a step that the caller takes starts from.                          *)
LEMMA InCall ==
  ASSUME WriteInv, NEW c \in Caller, caller[c].at # "idle"
  PROVE  /\ ClaimsType /\ CallInv /\ CallType /\ MemoryType
         /\ caller[c] \in Evaluation /\ caller[c] # Resting /\ CallerSafe(c) /\ Knows(c)
<1>1. ClaimsType /\ CallInv /\ CallType /\ CallerSafe(c) /\ MemoryType /\ Knows(c)
  BY DEF WriteInv, ClaimsInv, CallInv, CallType
<1>2. caller[c] # Resting
  BY DEF Resting
<1> QED
  BY <1>1, <1>2 DEF CallType

(* A caller that rests leaves the others alone.                            *)
LEMMA RestsKeepsCalls ==
  ASSUME CallInv, NEW c \in Caller, Rests(c),
         UNCHANGED <<claims, packet, signed, wrote, github>>, consumed \subseteq consumed',
         MemoryType', \A e \in Caller : e # c => memory'[e] = memory[e] /\ landed'[e] = landed[e],
         Knows(c)'
  PROVE  CallInv'
<1>1. caller' = [caller EXCEPT ![c] = Resting] /\ held' = [held EXCEPT ![c] = {}]
  BY DEF Rests, Keep
<1>2. caller'[c] = Resting
  BY <1>1 DEF CallInv, CallType
<1>3. CallerSafe(c)'
  BY <1>2 DEF CallerSafe
<1>4. Resting.at # "sending"
  BY DEF Resting
<1> QED
  BY <1>1, <1>3, <1>4, CallerStep

(* A caller that reads the packet begins its history with the claims that  *)
(* are live.                                                               *)
LEMMA BeginKeepsCalls ==
  ASSUME WriteInv, NEW c \in Caller, Begin(c)
  PROVE  CallInv'
<1> DEFINE evaluation == [at |-> "reading", packet |-> packet, resource |-> "UNKNOWN",
              admission |-> "UNKNOWN", unread |-> {}, matched |-> FALSE,
              effect |-> NoEffect, dispatch |-> NoDispatch]
<1>0. ClaimsType /\ CallInv /\ CallType /\ MemoryType /\ Knows(c)
  BY DEF WriteInv, ClaimsInv, CallInv, CallType
<1>1. /\ UNCHANGED <<claims, packet, signed, consumed, github, wrote, memory, landed>>
      /\ caller' = [caller EXCEPT ![c] = evaluation]
      /\ held' = [held EXCEPT ![c] = {claim.revision : claim \in {x \in LiveClaims : IsOfStream(x, packet)}}]
  BY DEF Begin, Keep, work, outside, known
<1>2. evaluation \in Evaluation /\ evaluation.at = "reading"
  BY <1>0 DEF Evaluation, CallType
<1>3. /\ caller'[c] = evaluation /\ evaluation.packet = packet
      /\ ~evaluation.matched /\ evaluation.admission # "ALLOW"
      /\ held'[c] = {claim.revision : claim \in {x \in LiveClaims : IsOfStream(x, packet)}}
  BY <1>0, <1>1 DEF CallType
<1> HIDE DEF evaluation
<1>4. Matching(c)' # {} => Admissible(c)'
  <2> SUFFICES ASSUME NEW i \in Id, MatchesClaim(claims[i], packet), ~claims[i].ambiguous
               PROVE  packet.revision \in held'[c]
    BY <1>1, <1>3 DEF Matching, Admissible
  <2>1. claims[i] \in LiveClaims
    BY <1>0 DEF MatchesClaim, LiveClaims, Live, ClaimsType
  <2> QED
    BY <1>3, <2>1 DEF MatchesClaim, IsClaimOf
<1>5. CallerSafe(c)'
  BY <1>2, <1>3, <1>4 DEF CallerSafe
<1>6. Knows(c)' /\ MemoryType'
  BY <1>0, <1>1 DEF Knows, MemoryType
<1> QED
  BY <1>0, <1>1, <1>2, <1>5, <1>6, CallerStep

(* A caller that lists the directory, reads one more file, or has read     *)
(* them all.                                                               *)
LEMMA ScanKeepsCalls ==
  ASSUME WriteInv, NEW c \in Caller,
         \/ \E r \in {"PASS", "BLOCK", "UNKNOWN"} : Lists(c, r)
         \/ Scan(c) \/ ScanEnds(c)
  PROVE  CallInv'
<1>0. /\ ClaimsType /\ CallInv /\ CallType /\ MemoryType
      /\ caller[c] \in Evaluation /\ caller[c] # Resting /\ CallerSafe(c) /\ Knows(c)
  <2>1. caller[c].at # "idle"
    BY DEF Lists, Scan, ScanEnds
  <2> QED
    BY <2>1, InCall
<1>1. UNCHANGED <<claims, packet, signed, consumed, github, wrote, memory, landed, held>>
  BY DEF Lists, Scan, ScanEnds, work, outside, known
<1>2. ASSUME NEW evaluation \in Evaluation, Keep(c, evaluation), evaluation.at # "sending",
             evaluation.packet = caller[c].packet,
             evaluation.matched \/ evaluation.admission = "ALLOW" => Admissible(c)
      PROVE  CallInv'
  <2>1. caller' = [caller EXCEPT ![c] = evaluation] /\ caller'[c] = evaluation
    BY <1>0, <1>2 DEF Keep, CallType
  <2>2. CallerSafe(c)'
    BY <1>0, <1>1, <1>2, <2>1 DEF CallerSafe, Admissible, Matching
  <2>3. Knows(c)' /\ MemoryType'
    BY <1>0, <1>1 DEF Knows, MemoryType
  <2> QED
    BY <1>0, <1>1, <1>2, <2>1, <2>2, <2>3, CallerStep
<1>3. ASSUME NEW is \in {"UNKNOWN", "ALLOW"}, Admission(c, is), is = "ALLOW" => caller[c].matched
      PROVE  CallInv'
  <2> DEFINE evaluation == [caller[c] EXCEPT !.at = "ready", !.admission = is, !.unread = {}]
  <2>1. evaluation \in Evaluation /\ evaluation.at = "ready" /\ evaluation.admission = is
        /\ evaluation.packet = caller[c].packet
        /\ evaluation.matched = caller[c].matched
    BY <1>0, <1>3 DEF Evaluation
  <2>2. Keep(c, evaluation)
    BY <1>3 DEF Admission
  <2>3. evaluation.matched \/ evaluation.admission = "ALLOW" => Admissible(c)
    BY <1>0, <1>3, <2>1 DEF CallerSafe
  <2> HIDE DEF evaluation
  <2> QED
    BY <1>2, <2>1, <2>2, <2>3
<1>4. ASSUME NEW matched \in BOOLEAN, Pass(c, matched), caller[c].at = "scanning",
             matched => Admissible(c)
      PROVE  CallInv'
  <2> DEFINE evaluation == [caller[c] EXCEPT !.unread = @ \ {First(@)}, !.matched = matched]
  <2>1. evaluation \in Evaluation /\ evaluation.at = "scanning" /\ evaluation.admission = caller[c].admission
        /\ evaluation.packet = caller[c].packet
        /\ evaluation.matched = matched
    BY <1>0, <1>4 DEF Evaluation
  <2>2. Keep(c, evaluation)
    BY <1>4 DEF Pass
  <2>3. evaluation.matched \/ evaluation.admission = "ALLOW" => Admissible(c)
    BY <1>0, <1>4, <2>1 DEF CallerSafe
  <2> HIDE DEF evaluation
  <2> QED
    BY <1>2, <2>1, <2>2, <2>3
<1>5. CASE Scan(c)
  <2> DEFINE i == First(caller[c].unread)
             file == claims[i]
  <2>1. i \in Id
    <3>1. caller[c].unread \in SUBSET Id
      BY <1>0 DEF Evaluation
    <3> QED
      BY <1>5, <3>1, FirstOfTheListing DEF Scan
  <2>2. \/ Admission(c, "UNKNOWN")
        \/ Pass(c, caller[c].matched)
        \/ MatchesClaim(file, caller[c].packet) /\ ~file.ambiguous /\ Pass(c, TRUE)
    BY <1>5 DEF Scan
  <2>3. CASE Admission(c, "UNKNOWN")
    BY <1>3, <2>3
  <2>4. CASE Pass(c, caller[c].matched)
    <3>1. caller[c].matched \in BOOLEAN
      BY <1>0 DEF Evaluation
    <3>2. caller[c].matched => Admissible(c)
      BY <1>0 DEF CallerSafe
    <3> QED
      BY <1>4, <1>5, <2>4, <3>1, <3>2 DEF Scan
  <2>5. CASE MatchesClaim(file, caller[c].packet) /\ ~file.ambiguous /\ Pass(c, TRUE)
    <3>1. Matching(c) # {}
      BY <2>1, <2>5 DEF Matching
    <3>2. Admissible(c)
      BY <1>0, <3>1 DEF CallerSafe
    <3> QED
      BY <1>4, <1>5, <2>5, <3>2 DEF Scan
  <2> QED
    BY <2>2, <2>3, <2>4, <2>5
<1>6. CASE ScanEnds(c)
  BY <1>3, <1>6 DEF ScanEnds
<1>7. ASSUME NEW r \in {"PASS", "BLOCK", "UNKNOWN"}, Lists(c, r) PROVE CallInv'
  <2> DEFINE scans == Observed(r) = "SCAN"
             evaluation == [caller[c] EXCEPT !.at = IF scans THEN "scanning" ELSE "ready", !.resource = r,
                 !.admission = Observed(r), !.unread = IF scans THEN Present ELSE {}]
  <2>1. Observed(r) \in {"UNKNOWN", "DENY", "SCAN"} /\ Present \subseteq Id
    BY DEF Observed, Present
  <2>2. evaluation \in Evaluation /\ evaluation.at # "sending" /\ evaluation.admission # "ALLOW"
        /\ evaluation.packet = caller[c].packet /\ evaluation.matched = caller[c].matched
    BY <1>0, <2>1 DEF Evaluation
  <2>3. Keep(c, evaluation)
    BY <1>7 DEF Lists
  <2>4. evaluation.matched \/ evaluation.admission = "ALLOW" => Admissible(c)
    BY <1>0, <2>2 DEF CallerSafe
  <2> HIDE DEF evaluation
  <2> QED
    BY <1>2, <2>2, <2>3, <2>4
<1> QED
  BY <1>5, <1>6, <1>7

(* A retry changes nothing of what the caller knows of its outcomes.       *)
LEMMA RememberIsLocal ==
  ASSUME MemoryType, NEW c \in Caller, NEW effect \in Effect, NEW what \in Remembered,
         what.outcome = memory[c][effect].outcome, Remember(c, effect, what), UNCHANGED landed
  PROVE  /\ MemoryType'
         /\ \A e \in Caller : e # c => memory'[e] = memory[e]
         /\ \A e \in Effect : memory'[c][e].outcome = memory[c][e].outcome
<1>1. memory' = [memory EXCEPT ![c] = [memory[c] EXCEPT ![effect] = what]]
  BY DEF Remember, MemoryType
<1>2. [memory[c] EXCEPT ![effect] = what] \in [Effect -> Remembered]
  BY DEF MemoryType
<1> QED
  BY <1>1, <1>2 DEF MemoryType

(* What it is told, with the dispatch spent when the gate let it through:  *)
(* only an APPLIED lets it send, and then nothing was sent and the         *)
(* dispatch was nobody's.                                                  *)
LEMMA AskKeepsCalls ==
  ASSUME WriteInv, NEW c \in Caller, NEW d \in signed, NEW effect \in Effect,
         NEW action, Ask(c, d, effect, action)
  PROVE  CallInv'
<1> DEFINE q == Request(c, effect, action)
           gate == Gate(d, effect, now, consumed)
<1>0. /\ CallInv /\ CallType /\ MemoryType /\ caller[c] \in Evaluation /\ caller[c] # Resting
      /\ CallerSafe(c) /\ Knows(c) /\ d.id \in DispatchId /\ memory[c][effect] \in Remembered
  <2>1. caller[c].at # "idle"
    BY DEF Ask
  <2> QED
    BY <2>1, InCall DEF CallType, MemoryType
<1>1. /\ UNCHANGED <<claims, packet, signed, github, wrote, landed>>
      /\ Told(c, Evaluate(q, gate), effect, d)
      /\ consumed' = IF AsksGate(q) /\ gate = "ALLOW" THEN consumed \cup {d.id} ELSE consumed
  BY DEF Ask, work
<1>2. q.authoritative = caller[c].packet /\ q.effect = effect /\ q.admission = caller[c].admission
      /\ q.outcome = memory[c][effect].outcome
  BY DEF Request
<1> HIDE DEF q, gate
<1>3. consumed \subseteq consumed'
  BY <1>1
<1>4. CASE Evaluate(q, gate) = "APPLIED"
  <2> DEFINE evaluation == [caller[c] EXCEPT !.at = "sending", !.effect = effect, !.dispatch = d.id]
  <2>1. /\ q.authoritative = q.effect.bound /\ q.admission = "ALLOW"
        /\ q.outcome \notin AmbiguousOutcomes /\ q.outcome # "APPLIED"
        /\ gate = "ALLOW" /\ AsksGate(q)
    BY <1>4, AppliedMeans DEF AsksGate
  <2>2. caller' = [caller EXCEPT ![c] = evaluation] /\ UNCHANGED <<held, memory>>
    BY <1>1, <1>4 DEF Told, Keep
  <2>3. evaluation.at = "sending" /\ evaluation.effect = effect /\ evaluation.dispatch = d.id
        /\ evaluation.packet = caller[c].packet
        /\ evaluation.matched = caller[c].matched /\ evaluation.admission = caller[c].admission
        /\ evaluation \in Evaluation
    BY <1>0 DEF Evaluation
  <2> HIDE DEF evaluation
  <2>4. caller'[c] = evaluation /\ \A e \in Caller : e # c => caller'[e] = caller[e]
    BY <1>0, <2>2 DEF CallType
  <2>5. d.id \notin consumed /\ consumed' = consumed \cup {d.id}
    BY <1>1, <2>1, GateAllows DEF gate
  <2>6. memory[c][effect].outcome = "NOT_SENT"
    <3>1. memory[c][effect].outcome \in {"NOT_SENT", "APPLIED"} \cup Unknown
      BY <1>0 DEF Remembered
    <3> QED
      BY <1>2, <2>1, <3>1, WorkAssumption DEF AmbiguousOutcomes
  <2>7. Admissible(c) /\ effect.bound = caller[c].packet
    BY <1>0, <1>2, <2>1 DEF CallerSafe
  <2>8. CallerSafe(c)'
    BY <1>1, <2>2, <2>3, <2>4, <2>6, <2>7 DEF CallerSafe, Admissible
  <2>9. ASSUME NEW e \in Caller PROVE CallerSafe(e)' /\ Knows(e)'
    <3>1. CallerSafe(e)'
      BY <1>0, <1>1, <2>2, <2>4, <2>8, <2>9 DEF CallInv, CallerSafe, Admissible, Matching
    <3>2. Knows(e)'
      BY <1>0, <1>1, <2>2, <2>9 DEF CallInv, Knows
    <3> QED
      BY <3>1, <3>2
  <2>10. CallType'
    BY <1>0, <1>1, <2>2, <2>3 DEF CallType, MemoryType
  <2>11. ASSUME NEW x \in DispatchId PROVE DispatchSafe(x)'
    <3>1. DispatchSafe(x) /\ (d.id = x => \A e \in Caller : ~Sending(e, x)) /\ (d.id = x => wrote[x] = 0)
      BY <1>0, <2>5 DEF CallInv, DispatchSafe
    <3>2. \A e \in Caller : Sending(e, x)' => (e = c /\ d.id = x) \/ (e # c /\ Sending(e, x))
      BY <2>3, <2>4 DEF Sending
    <3> QED
      BY <1>1, <2>5, <3>1, <3>2 DEF DispatchSafe
  <2> QED
    BY <2>9, <2>10, <2>11 DEF CallInv
<1>5. CASE Evaluate(q, gate) # "APPLIED"
  <2>1. Rests(c)
    BY <1>1, <1>5 DEF Told
  <2>2. \/ UNCHANGED memory
        \/ Remember(c, effect, [memory[c][effect] EXCEPT !.retries = @ + 1, !.failure = "NONE"])
    BY <1>1 DEF Told
  <2>3. CASE UNCHANGED memory
    <3>1. MemoryType' /\ Knows(c)'
      BY <1>0, <1>1, <2>3 DEF MemoryType, Knows
    <3> QED
      BY <1>0, <1>1, <1>3, <2>1, <2>3, <3>1, RestsKeepsCalls
  <2>4. CASE Remember(c, effect, [memory[c][effect] EXCEPT !.retries = @ + 1, !.failure = "NONE"])
    <3> DEFINE what == [memory[c][effect] EXCEPT !.retries = @ + 1, !.failure = "NONE"]
    <3>1. what \in Remembered /\ what.outcome = memory[c][effect].outcome
      <4>1. memory[c][effect].retries \in Nat /\ memory[c][effect].retries + 1 \in Nat
        BY <1>0 DEF Remembered
      <4>2. [memory[c][effect] EXCEPT !.retries = memory[c][effect].retries + 1] \in Remembered
        BY <1>0, <4>1 DEF Remembered
      <4>3. what = [[memory[c][effect] EXCEPT !.retries = memory[c][effect].retries + 1] EXCEPT !.failure = "NONE"]
        OBVIOUS
      <4> QED
        BY <1>0, <4>2, <4>3 DEF Remembered
    <3>2. Remember(c, effect, what)
      BY <2>4
    <3> HIDE DEF what
    <3>3. /\ MemoryType'
          /\ \A e \in Caller : e # c => memory'[e] = memory[e]
          /\ \A e \in Effect : memory'[c][e].outcome = memory[c][e].outcome
      BY <1>0, <1>1, <3>1, <3>2, RememberIsLocal
    <3>4. Knows(c)'
      BY <1>0, <1>1, <3>3 DEF Knows
    <3> QED
      BY <1>0, <1>1, <1>3, <2>1, <3>3, <3>4, RestsKeepsCalls
  <2> QED
    BY <2>2, <2>3, <2>4
<1> QED
  BY <1>4, <1>5

(* The write goes out, or not, under a dispatch that let none out before.  *)
LEMMA SendKeepsCalls ==
  ASSUME WriteInv, NEW c \in Caller, Send(c)
  PROVE  CallInv'
<1> DEFINE D == caller[c].dispatch
           effect == caller[c].effect
<1>0. /\ CallInv /\ CallType /\ MemoryType /\ caller[c] \in Evaluation /\ caller[c] # Resting
      /\ CallerSafe(c) /\ Knows(c) /\ caller[c].at = "sending" /\ effect \in Effect
      /\ memory[c][effect] \in Remembered
  <2>1. caller[c].at = "sending"
    BY DEF Send
  <2>2. CallerSafe(c) /\ caller[c] # Resting /\ MemoryType /\ effect \in Effect
    BY <2>1, InCall DEF CallerSafe
  <2>3. memory[c][effect] \in Remembered
    BY <2>2 DEF MemoryType
  <2> QED
    BY <2>1, <2>2, <2>3, InCall
<1>1. UNCHANGED <<claims, packet, signed, consumed>>
  BY DEF Send, work
<1>2. PICK outcome \in {"NOT_SENT", "APPLIED"} \cup Unknown,
           failure \in {"NONE", "TRANSIENT", "SEMANTIC"}, reached \in BOOLEAN :
        /\ Sent(c, outcome, failure, reached)
        /\ reached => outcome # "NOT_SENT"
  <2>1. "NOT_SENT" \notin Unknown
    BY WorkAssumption
  <2>2. \/ Sent(c, "APPLIED", "NONE", TRUE)
        \/ \E reached \in BOOLEAN, outcome \in Unknown : Sent(c, outcome, "NONE", reached)
        \/ Sent(c, "NOT_SENT", "TRANSIENT", FALSE)
        \/ Sent(c, "NOT_SENT", "SEMANTIC", FALSE)
    BY DEF Send
  <2>3. ASSUME NEW outcome \in {"NOT_SENT", "APPLIED"} \cup Unknown,
               NEW failure \in {"NONE", "TRANSIENT", "SEMANTIC"}, NEW reached \in BOOLEAN,
               Sent(c, outcome, failure, reached), reached => outcome # "NOT_SENT"
        PROVE  \E o \in {"NOT_SENT", "APPLIED"} \cup Unknown,
                  f \in {"NONE", "TRANSIENT", "SEMANTIC"}, r \in BOOLEAN :
                 Sent(c, o, f, r) /\ (r => o # "NOT_SENT")
    BY <2>3
  <2>4. CASE Sent(c, "APPLIED", "NONE", TRUE)
    BY <2>3, <2>4
  <2>5. ASSUME NEW reached \in BOOLEAN, NEW outcome \in Unknown, Sent(c, outcome, "NONE", reached)
        PROVE  \E o \in {"NOT_SENT", "APPLIED"} \cup Unknown,
                  f \in {"NONE", "TRANSIENT", "SEMANTIC"}, r \in BOOLEAN :
                 Sent(c, o, f, r) /\ (r => o # "NOT_SENT")
    BY <2>1, <2>3, <2>5
  <2>6. CASE Sent(c, "NOT_SENT", "TRANSIENT", FALSE) \/ Sent(c, "NOT_SENT", "SEMANTIC", FALSE)
    BY <2>3, <2>6
  <2> QED
    BY <2>2, <2>4, <2>5, <2>6
<1> DEFINE what == [memory[c][effect] EXCEPT !.outcome = outcome, !.failure = failure]
           new  == IF reached THEN {effect} ELSE {}
<1>3. /\ Rests(c) /\ Remember(c, effect, what)
      /\ github' = github \cup new
      /\ landed' = [landed EXCEPT ![c] = @ \cup new]
      /\ wrote' = [wrote EXCEPT ![D] = @ + Cardinality(new)]
  BY <1>2 DEF Sent
<1>4. what \in Remembered /\ what.outcome = outcome
  BY <1>0, <1>2 DEF Remembered
<1>5. Cardinality(new) \in {0, 1} /\ new \subseteq {effect} /\ (outcome = "NOT_SENT" => new = {})
  BY <1>2, FS_EmptySet, FS_Singleton
<1> HIDE DEF what, new
<1>6. /\ caller' = [caller EXCEPT ![c] = Resting] /\ caller'[c] = Resting
      /\ \A e \in Caller : e # c => caller'[e] = caller[e] /\ held'[e] = held[e]
      /\ held' = [e \in Caller |-> held'[e]]
  BY <1>0, <1>3 DEF Rests, Keep, CallType
<1>7. /\ memory' \in [Caller -> [Effect -> Remembered]]
      /\ \A e \in Caller : e # c => memory'[e] = memory[e]
      /\ memory'[c][effect] = what
      /\ \A x \in Effect : x # effect => memory'[c][x] = memory[c][x]
  BY <1>0, <1>3, <1>4 DEF Remember, MemoryType
<1>8. /\ landed' \in [Caller -> SUBSET Effect]
      /\ landed'[c] = landed[c] \cup new
      /\ \A e \in Caller : e # c => landed'[e] = landed[e]
  BY <1>0, <1>3, <1>5 DEF MemoryType
<1>9. ASSUME NEW e \in Caller PROVE CallerSafe(e)' /\ Knows(e)'
  <2>1. CASE e = c
    <3>1. CallerSafe(c)'
      BY <1>6 DEF CallerSafe
    <3>2. landed'[c] \subseteq github'
      BY <1>0, <1>3, <1>8 DEF Knows
    <3>3. ASSUME NEW x \in Effect, memory'[c][x].outcome = "NOT_SENT" PROVE x \notin landed'[c]
      <4>1. CASE x = effect
        <5>1. x \notin landed[c]
          BY <1>0, <4>1 DEF Knows, CallerSafe
        <5>2. new = {}
          BY <1>4, <1>5, <1>7, <3>3, <4>1
        <5> QED
          BY <1>8, <5>1, <5>2
      <4>2. CASE x # effect
        BY <1>0, <1>5, <1>7, <1>8, <3>3, <4>2 DEF Knows
      <4> QED
        BY <4>1, <4>2
    <3> QED
      BY <2>1, <3>1, <3>2, <3>3 DEF Knows
  <2>2. CASE e # c
    <3>1. CallerSafe(e) /\ Knows(e)
      BY <1>0 DEF CallInv
    <3>2. CallerSafe(e)'
      BY <1>1, <1>6, <1>7, <2>2, <3>1 DEF CallerSafe, Admissible, Matching
    <3>3. Knows(e)'
      BY <1>3, <1>7, <1>8, <2>2, <3>1 DEF Knows
    <3> QED
      BY <3>2, <3>3
  <2> QED
    BY <2>1, <2>2
<1>10. /\ wrote' \in [DispatchId -> Nat]
       /\ \A x \in DispatchId : x # D => wrote'[x] = wrote[x]
       /\ D \in DispatchId => wrote'[D] = wrote[D] \/ wrote'[D] = wrote[D] + 1
  <2>1. wrote \in [DispatchId -> Nat]
    BY <1>0 DEF CallType
  <2>2. wrote' = [wrote EXCEPT ![D] = wrote[D] + 1] \/ wrote' = [wrote EXCEPT ![D] = wrote[D] + 0]
    BY <1>3, <1>5
  <2> HIDE DEF D
  <2>3. CASE D \in DispatchId
    <3>1. wrote[D] \in Nat /\ wrote[D] + 1 \in Nat /\ wrote[D] + 0 = wrote[D]
      BY <2>1, <2>3
    <3> QED
      BY <2>1, <2>2, <2>3, <3>1
  <2>4. CASE D \notin DispatchId
    BY <2>1, <2>2, <2>4
  <2> QED
    BY <2>3, <2>4
<1>11. CallType'
  BY <1>0, <1>1, <1>6, <1>7, <1>8, <1>10 DEF CallType, MemoryType
<1>12. ASSUME NEW x \in DispatchId PROVE DispatchSafe(x)'
  <2>1. DispatchSafe(x) /\ (x = D => Sending(c, x))
    BY <1>0 DEF CallInv, Sending
  <2>2. \A e \in Caller : Sending(e, x)' => e # c /\ Sending(e, x)
    BY <1>6 DEF Sending, Resting
  <2>3. CASE x # D
    BY <1>1, <1>10, <2>1, <2>2, <2>3 DEF DispatchSafe
  <2>4. CASE x = D
    <3>1. x \in consumed /\ wrote[x] = 0 /\ \A e \in Caller : Sending(e, x) => e = c
      BY <2>1, <2>4 DEF DispatchSafe
    <3>2. wrote'[x] \in {0, 1}
      BY <1>10, <2>4, <3>1
    <3>3. \A e \in Caller : ~Sending(e, x)'
      BY <2>2, <3>1
    <3> QED
      BY <1>1, <3>1, <3>2, <3>3 DEF DispatchSafe
  <2> QED
    BY <2>3, <2>4
<1> QED
  BY <1>9, <1>11, <1>12 DEF CallInv

(* What is on GitHub settles an unknown outcome.                           *)
LEMMA ReconcileKeepsCalls ==
  ASSUME WriteInv, NEW c \in Caller, NEW effect \in Effect, Reconcile(c, effect)
  PROVE  CallInv'
<1> DEFINE found == IF effect \in github THEN "APPLIED" ELSE "NOT_SENT"
           what  == [memory[c][effect] EXCEPT !.outcome = found]
<1>0. /\ CallInv /\ CallType /\ MemoryType /\ Knows(c) /\ memory[c][effect] \in Remembered
  BY DEF WriteInv, CallInv, CallType, MemoryType
<1>1. /\ UNCHANGED <<claims, packet, signed, consumed, github, caller, wrote, landed, held>>
      /\ caller[c] = Resting /\ Remember(c, effect, what)
  BY DEF Reconcile, work, outside
<1>2. what \in Remembered /\ what.outcome = found
  BY <1>0 DEF Remembered
<1>3. found = "NOT_SENT" => effect \notin github
  OBVIOUS
<1> HIDE DEF what, found
<1>4. /\ memory' \in [Caller -> [Effect -> Remembered]]
      /\ \A e \in Caller : e # c => memory'[e] = memory[e]
      /\ memory'[c][effect] = what
      /\ \A x \in Effect : x # effect => memory'[c][x] = memory[c][x]
  BY <1>0, <1>1, <1>2 DEF Remember, MemoryType
<1>5. ASSUME NEW e \in Caller PROVE CallerSafe(e)' /\ Knows(e)'
  <2>1. CallerSafe(e) /\ Knows(e)
    BY <1>0 DEF CallInv
  <2>2. CallerSafe(e)'
    BY <1>1, <1>4, <2>1 DEF CallerSafe, Admissible, Matching
  <2>3. Knows(e)'
    BY <1>1, <1>2, <1>3, <1>4, <2>1 DEF Knows
  <2> QED
    BY <2>2, <2>3
<1>6. CallType'
  BY <1>0, <1>1, <1>4 DEF CallType, MemoryType
<1>7. ASSUME NEW d \in DispatchId PROVE DispatchSafe(d)'
  BY <1>0, <1>1, <1>7 DEF CallInv, DispatchSafe, Sending
<1> QED
  BY <1>5, <1>6, <1>7 DEF CallInv

(* A caller that dies knows nothing, and nothing landed since.             *)
LEMMA CrashKeepsCalls ==
  ASSUME WriteInv, NEW c \in Caller, CallerCrash(c)
  PROVE  CallInv'
<1>0. CallInv /\ MemoryType
  BY DEF WriteInv, CallInv, CallType
<1>1. /\ UNCHANGED <<claims, packet, signed, consumed, github, wrote>> /\ Rests(c)
      /\ memory' = [memory EXCEPT ![c] = [e \in Effect |-> Untried]]
      /\ landed' = [landed EXCEPT ![c] = {}]
  BY DEF CallerCrash, work, outside
<1>2. Untried \in Remembered
  BY DEF Untried, Remembered
<1>3. /\ MemoryType' /\ landed'[c] = {}
      /\ \A e \in Caller : e # c => memory'[e] = memory[e] /\ landed'[e] = landed[e]
  BY <1>0, <1>1, <1>2 DEF MemoryType
<1>4. Knows(c)'
  BY <1>3 DEF Knows
<1> QED
  BY <1>0, <1>1, <1>3, <1>4, RestsKeepsCalls

(* A step of a caller.                                                     *)
LEMMA CallKeepsCalls ==
  ASSUME WriteInv, NEW c \in Caller, Call(c)
  PROVE  CallInv'
<1>1. CASE \E d \in signed, effect \in Effect, action \in {"update_work_packet", "merge_pull_request"} :
             Ask(c, d, effect, action)
  BY <1>1, AskKeepsCalls
<1>2. CASE \E effect \in Effect : Reconcile(c, effect)
  BY <1>2, ReconcileKeepsCalls
<1> QED
  BY <1>1, <1>2, BeginKeepsCalls, ScanKeepsCalls, SendKeepsCalls, CrashKeepsCalls DEF Call

-----------------------------------------------------------------------------
LEMMA WriteInit == Init => WriteInv
<1> SUFFICES ASSUME Init PROVE WriteInv
  OBVIOUS
<1>1. ClaimsInv
  BY ClaimsInit
<1>2. \A c \in Caller : caller[c] = Resting
  BY DEF Init
<1>3. CallType
  <2>1. Untried \in Remembered
    BY DEF Untried, Remembered
  <2> QED
    BY <2>1 DEF Init, CallType, MemoryType
<1>4. ASSUME NEW c \in Caller PROVE CallerSafe(c) /\ Knows(c)
  BY <1>2, <1>4 DEF Init, CallerSafe, Knows
<1>5. ASSUME NEW d \in DispatchId PROVE DispatchSafe(d)
  <2>1. \A c \in Caller : ~Sending(c, d)
    BY <1>2 DEF Sending, Resting
  <2>2. wrote[d] = 0
    BY DEF Init
  <2> QED
    BY <2>1, <2>2 DEF DispatchSafe
<1> QED
  BY <1>1, <1>3, <1>4, <1>5 DEF WriteInv, CallInv

LEMMA WriteStep == WriteInv /\ [Next]_vars => WriteInv'
<1> SUFFICES ASSUME WriteInv, [Next]_vars PROVE WriteInv'
  OBVIOUS
<1>1. ClaimsInv'
  BY ClaimsStep DEF WriteInv
<1>2. CASE Coordinate \/ Working
  BY <1>1, <1>2, DirectoryKeepsCalls DEF WriteInv
<1>3. CASE World
  BY <1>1, <1>3, WorldKeepsCalls DEF WriteInv
<1>4. CASE \E c \in Caller : Call(c)
  BY <1>1, <1>4, CallKeepsCalls DEF WriteInv
<1>5. CASE UNCHANGED vars
  <2>1. CallInv'
    BY <1>5 DEF WriteInv, CallInv, CallType, MemoryType, CallerSafe, Knows, DispatchSafe, Sending,
                Matching, Admissible, vars, work, writing, outside, known
  <2> QED
    BY <1>1, <2>1 DEF WriteInv
<1> QED
  BY <1>2, <1>3, <1>4, <1>5 DEF Next

(* A dispatch lets one write go out, however many callers present it and   *)
(* whenever they crash (consume_dispatch_once).                            *)
THEOREM ADispatchWritesOnce == Spec => []WrittenOnce
<1>1. WriteInv => WrittenOnce
  BY DEF WriteInv, CallInv, DispatchSafe, WrittenOnce
<1> QED
  BY <1>1, WriteInit, WriteStep, PTL DEF Spec

(* A caller that is told to send has not brought the effect to GitHub in   *)
(* its life, whatever it was refused since, under this dispatch or another *)
(* (evaluate).                                                             *)
THEOREM NothingIsResent == Spec => []NeverResent
<1>1. WriteInv => NeverResent
  <2> SUFFICES ASSUME WriteInv, NEW c \in Caller, caller[c].at = "sending"
               PROVE  caller[c].effect \notin landed[c]
    BY DEF NeverResent
  <2> QED
    BY InCall DEF CallerSafe, Knows
<1> QED
  BY <1>1, WriteInit, WriteStep, PTL DEF Spec

(* A write goes out only if a claim of the revision it is bound to was     *)
(* live since its caller read the packet (_observe_admission, evaluate).   *)
THEOREM WritesHaveTheirClaim == Spec => []WrittenUnderItsClaim
<1>1. WriteInv => WrittenUnderItsClaim
  <2> SUFFICES ASSUME WriteInv, NEW c \in Caller, caller[c].at = "sending"
               PROVE  caller[c].effect.bound.revision \in held[c]
    BY DEF WrittenUnderItsClaim
  <2> QED
    BY InCall DEF CallerSafe
<1> QED
  BY <1>1, WriteInit, WriteStep, PTL DEF Spec
=============================================================================
