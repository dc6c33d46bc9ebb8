---------------------------- MODULE Access_proofs ----------------------------
(* Proofs about who may use what: the quota that admits engine sessions, the  *)
(* groups a login leaves its user in, the group a trace is attributed to, and *)
(* how long a user the provider has dropped keeps access.  They hold for any  *)
(* number of pods, users, groups, repositories and concurrent requests.  The  *)
(* four modules share no state; each part has its own invariant.              *)
EXTENDS Admission, GroupService, Attribution, Revalidation, FiniteSetTheorems, SequenceTheorems, TLAPS

(* ------------------------------------------------------------- Admission -- *)

(* A request that is past the middleware has a serving pod and a user.        *)
ProvOK ==
    /\ prov \in [AdmSlots -> Provision]
    /\ \A s \in AdmSlots : prov[s].stage # "idle" => prov[s].pod \in AdmPods /\ prov[s].user \in AdmUsers

RoutesOK ==
    /\ admLeader \in AdmPods /\ believes \in [AdmPods -> AdmPods]
    /\ admFaults \in 0 .. MaxAdmFaults

CopiesOK ==
    /\ sessionsAt \in [AdmPods -> Nat]
    /\ known \in [AdmPods -> SUBSET Nat] /\ skipped \in [AdmPods -> SUBSET Nat]

LeasesOK ==
    /\ leases \in Seq(LeaseRow \cup {Nil}) /\ Len(leases) <= MaxLeases
    /\ sessionLog \in Seq(DOMAIN leases)
    /\ \A p \in AdmPods :
         /\ sessionsAt[p] \in 0 .. Len(sessionLog)
         /\ known[p] \subseteq Live /\ skipped[p] \subseteq DOMAIN leases
    /\ unseen \subseteq DOMAIN leases

(* The live leases of a group's members, and the requests of theirs that      *)
(* passed the quota and have not registered yet.                             *)
Bound(g) == MembersOf[g] \ AdmAdmins
Owned(g) == {c \in Live : leases[c].user \in Bound(g)}
Admitted(g) == {s \in AdmSlots : prov[s].stage \in {"acquire", "register"} /\ prov[s].user \in Bound(g)}

(* What the quota holds at every moment: the sessions every admission saw,    *)
(* together with the requests already let through.                           *)
Sole(g) == \A h \in AgentAvailable \ {g} : MembersOf[g] \cap MembersOf[h] = {}
QuotaHeld ==
    \A g \in AdmGroups : Quota[g] > 0 /\ Sole(g) =>
      Cardinality(Owned(g) \ unseen) + Cardinality(Admitted(g)) <= Quota[g] + Cardinality(AdmSlots) - 1

AdmInv == ProvOK /\ RoutesOK /\ CopiesOK /\ LeasesOK /\ QuotaHeld

(* ---- finite sets *)
LEMMA Smaller == ASSUME NEW S, IsFiniteSet(S), NEW T, T \subseteq S
                 PROVE  IsFiniteSet(T) /\ Cardinality(T) <= Cardinality(S) /\ Cardinality(T) \in Nat
<1>1. T \in SUBSET S OBVIOUS
<1>2. IsFiniteSet(T) /\ Cardinality(T) <= Cardinality(S) BY <1>1, FS_Subset
<1>3. QED BY <1>2, FS_CardinalityType

LEMMA DomainOf == LeasesOK => Len(leases) \in Nat /\ DOMAIN leases = 1 .. Len(leases)
<1>1. ASSUME LeasesOK PROVE Len(leases) \in Nat /\ DOMAIN leases = 1 .. Len(leases)
  <2>1. leases \in Seq(LeaseRow \cup {Nil}) BY <1>1 DEF LeasesOK
  <2>2. QED BY <2>1, LenProperties
<1>2. QED BY <1>1

LEMMA FiniteCounts == ASSUME LeasesOK, NEW g
                      PROVE  /\ IsFiniteSet(Live) /\ IsFiniteSet(Owned(g)) /\ IsFiniteSet(Owned(g) \ unseen)
                             /\ Cardinality(Owned(g) \ unseen) \in Nat
<1>1. IsFiniteSet(DOMAIN leases) BY DomainOf, FS_Interval
<1>2. Live \subseteq DOMAIN leases /\ Owned(g) \subseteq DOMAIN leases /\ Owned(g) \ unseen \subseteq DOMAIN leases
  BY DEF Live, Owned
<1>3. QED BY <1>1, <1>2, Smaller

LEMMA FiniteSlots == ASSUME NEW g PROVE /\ IsFiniteSet(Admitted(g)) /\ Cardinality(Admitted(g)) \in Nat
                                        /\ Cardinality(Admitted(g)) <= Cardinality(AdmSlots)
                                        /\ Cardinality(AdmSlots) \in Nat
<1>1. IsFiniteSet(AdmSlots) BY AdmAssumption
<1>2. Admitted(g) \subseteq AdmSlots BY DEF Admitted
<1>3. QED BY <1>1, <1>2, Smaller, FS_CardinalityType

LEMMA AdmInitInv == AdmInit => AdmInv
<1> SUFFICES ASSUME AdmInit PROVE AdmInv OBVIOUS
<1>1. ProvOK BY DEF AdmInit, ProvOK, NoProvision, Provision
<1>2. RoutesOK /\ CopiesOK BY AdmAssumption DEF AdmInit, RoutesOK, CopiesOK
<1>3. leases = <<>> /\ DOMAIN leases = {} /\ Len(leases) = 0 BY DEF AdmInit
<1>4. LeasesOK BY <1>3, AdmAssumption, EmptySeq DEF AdmInit, LeasesOK
<1>5. ASSUME NEW g \in AdmGroups, Quota[g] > 0
      PROVE  Cardinality(Owned(g) \ unseen) + Cardinality(Admitted(g)) <= Quota[g] + Cardinality(AdmSlots) - 1
  <2>1. Owned(g) \ unseen = {} BY <1>3 DEF Owned, Live
  <2>2. Admitted(g) = {} BY DEF Admitted, AdmInit, NoProvision
  <2>3. Cardinality(Owned(g) \ unseen) = 0 /\ Cardinality(Admitted(g)) = 0 BY <2>1, <2>2, FS_EmptySet
  <2>4. Quota[g] \in Nat BY AdmAssumption
  <2>5. QED BY <1>5, <2>3, <2>4, FiniteSlots
<1>6. QED BY <1>1, <1>2, <1>4, <1>5 DEF AdmInv, QuotaHeld

(* ---- the quota, by what a step does to the two sets *)
LEMMA QuotaShrinks ==
  ASSUME LeasesOK, QuotaHeld,
         \A g \in AdmGroups : Owned(g)' \ unseen' \subseteq Owned(g) \ unseen,
         \A g \in AdmGroups : Admitted(g)' \subseteq Admitted(g)
  PROVE  QuotaHeld'
<1> SUFFICES ASSUME NEW g \in AdmGroups, Quota[g] > 0, Sole(g)
             PROVE  Cardinality((Owned(g) \ unseen)') + Cardinality(Admitted(g)')
                       <= Quota[g] + Cardinality(AdmSlots) - 1
  BY DEF QuotaHeld, Sole
<1>1. Cardinality((Owned(g) \ unseen)') <= Cardinality(Owned(g) \ unseen)
        /\ Cardinality((Owned(g) \ unseen)') \in Nat
  BY FiniteCounts, Smaller
<1>2. Cardinality(Admitted(g)') <= Cardinality(Admitted(g)) /\ Cardinality(Admitted(g)') \in Nat
  BY FiniteSlots, Smaller
<1>3. Cardinality(Owned(g) \ unseen) + Cardinality(Admitted(g)) <= Quota[g] + Cardinality(AdmSlots) - 1
  BY DEF QuotaHeld
<1>4. /\ Cardinality(Owned(g) \ unseen) \in Nat /\ Cardinality(Admitted(g)) \in Nat
      /\ Cardinality(AdmSlots) \in Nat /\ Quota[g] \in Nat
  BY FiniteCounts, FiniteSlots, AdmAssumption
<1>5. QED BY <1>1, <1>2, <1>3, <1>4

(* A registration turns one admitted request into one session.               *)
LEMMA QuotaRegisters ==
  ASSUME LeasesOK, QuotaHeld, NEW s \in AdmSlots, NEW c,
         prov[s].stage = "register",
         \A g \in AdmGroups : /\ Owned(g)' \ unseen' \subseteq (Owned(g) \ unseen) \cup {c}
                              /\ prov[s].user \notin Bound(g) => Owned(g)' \ unseen' \subseteq Owned(g) \ unseen,
         \A g \in AdmGroups : Admitted(g)' \subseteq Admitted(g) \ {s}
  PROVE  QuotaHeld'
<1> SUFFICES ASSUME NEW g \in AdmGroups, Quota[g] > 0, Sole(g)
             PROVE  Cardinality((Owned(g) \ unseen)') + Cardinality(Admitted(g)')
                       <= Quota[g] + Cardinality(AdmSlots) - 1
  BY DEF QuotaHeld, Sole
<1>1. Cardinality(Owned(g) \ unseen) + Cardinality(Admitted(g)) <= Quota[g] + Cardinality(AdmSlots) - 1
  BY DEF QuotaHeld
<1>2. /\ IsFiniteSet(Owned(g) \ unseen) /\ Cardinality(Owned(g) \ unseen) \in Nat
      /\ IsFiniteSet(Admitted(g)) /\ Cardinality(Admitted(g)) \in Nat /\ Cardinality(AdmSlots) \in Nat
      /\ Quota[g] \in Nat
  BY FiniteCounts, FiniteSlots, AdmAssumption
<1>3. CASE prov[s].user \in Bound(g)
  <2>1. s \in Admitted(g) BY <1>3 DEF Admitted
  <2>2. IsFiniteSet(Admitted(g) \ {s}) /\ Cardinality(Admitted(g) \ {s}) = Cardinality(Admitted(g)) - 1
    BY <1>2, <2>1, FS_RemoveElement
  <2>3. Cardinality(Admitted(g)') <= Cardinality(Admitted(g)) - 1 /\ Cardinality(Admitted(g)') \in Nat
    BY <2>2, Smaller
  <2>4. IsFiniteSet((Owned(g) \ unseen) \cup {c})
        /\ Cardinality((Owned(g) \ unseen) \cup {c}) <= Cardinality(Owned(g) \ unseen) + 1
    <3>1. PICK S : S = Owned(g) \ unseen OBVIOUS
    <3>2. IsFiniteSet(S) /\ Cardinality(S) \in Nat BY <1>2, <3>1
    <3>3. IsFiniteSet(S \cup {c}) /\ Cardinality(S \cup {c}) = IF c \in S THEN Cardinality(S) ELSE Cardinality(S) + 1
      BY <3>2, FS_AddElement
    <3>4. QED BY <3>1, <3>2, <3>3
  <2>5. Cardinality((Owned(g) \ unseen)') <= Cardinality((Owned(g) \ unseen) \cup {c})
        /\ Cardinality((Owned(g) \ unseen)') \in Nat
    BY <2>4, Smaller
  <2>6. Cardinality((Owned(g) \ unseen) \cup {c}) \in Nat BY <2>4, FS_CardinalityType
  <2>7. QED BY <1>1, <1>2, <2>3, <2>4, <2>5, <2>6
<1>4. CASE prov[s].user \notin Bound(g)
  <2>1. Cardinality((Owned(g) \ unseen)') <= Cardinality(Owned(g) \ unseen)
        /\ Cardinality((Owned(g) \ unseen)') \in Nat
    BY <1>2, <1>4, Smaller
  <2>2. Admitted(g)' \subseteq Admitted(g) OBVIOUS
  <2>3. Cardinality(Admitted(g)') <= Cardinality(Admitted(g)) /\ Cardinality(Admitted(g)') \in Nat
    BY <1>2, <2>2, Smaller
  <2>4. QED BY <1>1, <1>2, <2>1, <2>3
<1>5. QED BY <1>3, <1>4

(* An admission may let one more request through, but what it saw was below   *)
(* the quota, and what it did not see no longer counts.                      *)
LEMMA QuotaChecks ==
  ASSUME ProvOK, LeasesOK, QuotaHeld, NEW s \in AdmSlots, CheckEngineAccess(s)
  PROVE  QuotaHeld'
<1> DEFINE p == prov[s].pod
           u == prov[s].user
<1>1. prov[s].stage = "check" /\ p \in AdmPods /\ u \in AdmUsers /\ leases' = leases
  BY DEF CheckEngineAccess, ProvOK
<1>2. prov[s] \in Provision BY DEF ProvOK
<1>3. Live' = Live /\ \A g \in AdmGroups : Owned(g)' = Owned(g) BY <1>1 DEF Live, Owned, Bound
<1>4. CASE ~QuotaAdmits(p, u)
  <2>1. prov' = [prov EXCEPT ![s] = NoProvision] /\ unseen' = unseen BY <1>4 DEF CheckEngineAccess, Finish
  <2>2. \A g \in AdmGroups : Admitted(g)' \subseteq Admitted(g) BY <2>1 DEF Admitted, NoProvision, ProvOK, Bound
  <2>3. \A g \in AdmGroups : Owned(g)' \ unseen' \subseteq Owned(g) \ unseen BY <1>3, <2>1
  <2>4. QED BY <2>2, <2>3, QuotaShrinks
<1>5. CASE QuotaAdmits(p, u)
  <2>1. prov' = [prov EXCEPT ![s].stage = "acquire"] /\ unseen' = unseen \cup (Live \ known[p])
    BY <1>5 DEF CheckEngineAccess
  <2>2. \A t \in AdmSlots : t # s => prov'[t] = prov[t] BY <2>1 DEF ProvOK
  <2>3. prov'[s].user = u BY <1>2, <2>1 DEF ProvOK, Provision
  <2> SUFFICES ASSUME NEW g \in AdmGroups, Quota[g] > 0, Sole(g)
               PROVE  Cardinality((Owned(g) \ unseen)') + Cardinality(Admitted(g)')
                         <= Quota[g] + Cardinality(AdmSlots) - 1
    BY DEF QuotaHeld, Sole
  <2>4. (Owned(g) \ unseen)' \subseteq Owned(g) \ unseen BY <1>3, <2>1
  <2>5. Cardinality((Owned(g) \ unseen)') <= Cardinality(Owned(g) \ unseen)
        /\ Cardinality((Owned(g) \ unseen)') \in Nat
    BY <2>4, FiniteCounts, Smaller
  <2>6. /\ Cardinality(Owned(g) \ unseen) + Cardinality(Admitted(g)) <= Quota[g] + Cardinality(AdmSlots) - 1
        /\ Cardinality(Owned(g) \ unseen) \in Nat /\ Quota[g] \in Nat
    BY FiniteCounts, AdmAssumption DEF QuotaHeld
  <2>7. CASE u \notin Bound(g)
    <3>1. Admitted(g)' \subseteq Admitted(g) BY <2>2, <2>3, <2>7 DEF Admitted, Bound
    <3>2. Cardinality(Admitted(g)') <= Cardinality(Admitted(g)) /\ Cardinality(Admitted(g)') \in Nat
      BY <3>1, FiniteSlots, Smaller
    <3>3. QED BY <2>5, <2>6, <3>2, FiniteSlots
  <2>8. CASE u \in Bound(g)
    <3>1. PICK h \in AgentAvailable : u \in MembersOf[h] /\ (Quota[h] = 0 \/ Usage(p, h) < Quota[h])
      BY <1>5, <2>8 DEF QuotaAdmits, Bound
    <3>2. h = g BY <3>1, <2>8 DEF Sole, Bound
    <3>3. Usage(p, g) < Quota[g] BY <3>1, <3>2, <2>6
    <3>4. {c \in known[p] : leases[c].user \in MembersOf[g]} \subseteq Live BY <1>1 DEF LeasesOK
    <3>5. (Owned(g) \ unseen)' \subseteq {c \in known[p] : leases[c].user \in MembersOf[g]}
      BY <1>3, <2>1 DEF Owned, Bound
    <3>6. /\ IsFiniteSet({c \in known[p] : leases[c].user \in MembersOf[g]}) 
          /\ Usage(p, g) \in Nat
      BY <3>4, FiniteCounts, Smaller DEF Usage
    <3>7. Cardinality((Owned(g) \ unseen)') <= Usage(p, g) BY <3>5, <3>6, Smaller DEF Usage
    <3>8. Admitted(g)' \subseteq AdmSlots BY DEF Admitted
    <3>9. Cardinality(Admitted(g)') <= Cardinality(AdmSlots) /\ Cardinality(Admitted(g)') \in Nat
      BY <3>8, AdmAssumption, Smaller
    <3>10. QED BY <2>5, <2>6, <3>3, <3>6, <3>7, <3>9, FiniteSlots
  <2>9. QED BY <2>7, <2>8
<1>6. QED BY <1>4, <1>5
(* ---- the shapes *)
LEMMA FreedOK == ASSUME ProvOK, NEW s \in AdmSlots, Finish(s)
                 PROVE  /\ ProvOK' /\ \A g : Admitted(g)' \subseteq Admitted(g) \ {s}
<1>1. prov' = [prov EXCEPT ![s] = NoProvision] BY DEF Finish
<1>2. NoProvision \in Provision /\ NoProvision.stage = "idle" BY DEF NoProvision, Provision
<1>3. \A t \in AdmSlots : prov'[t] = IF t = s THEN NoProvision ELSE prov[t] BY <1>1 DEF ProvOK
<1>4. prov' \in [AdmSlots -> Provision] BY <1>1, <1>2 DEF ProvOK
<1>5. ProvOK' BY <1>2, <1>3, <1>4 DEF ProvOK
<1>6. \A g : Admitted(g)' \subseteq Admitted(g) \ {s} BY <1>2, <1>3 DEF Admitted, Bound
<1>7. QED BY <1>5, <1>6

LEMMA StageOK == ASSUME ProvOK, NEW s \in AdmSlots, prov[s].stage # "idle", NEW a \in {"acquire", "register"},
                        prov' = [prov EXCEPT ![s].stage = a]
                 PROVE  /\ ProvOK'
                        /\ prov[s].stage = "acquire" => \A g : Admitted(g)' \subseteq Admitted(g)
<1>1. prov[s] \in Provision BY DEF ProvOK
<1>2. PICK k : k = [prov[s] EXCEPT !.stage = a] OBVIOUS
<1>3. k \in Provision /\ k.pod = prov[s].pod /\ k.user = prov[s].user BY <1>1, <1>2 DEF Provision
<1>4. prov' = [prov EXCEPT ![s] = k] BY <1>2 DEF ProvOK
<1>5. \A t \in AdmSlots : prov'[t] = IF t = s THEN k ELSE prov[t] BY <1>4 DEF ProvOK
<1>6. prov' \in [AdmSlots -> Provision] BY <1>3, <1>4 DEF ProvOK
<1>7. ProvOK' BY <1>3, <1>5, <1>6 DEF ProvOK
<1>8. prov[s].stage = "acquire" => \A g : Admitted(g)' \subseteq Admitted(g) BY <1>3, <1>5 DEF Admitted, Bound
<1>9. QED BY <1>7, <1>8

(* A step that leaves the leases and their copies alone.                      *)
LEMMA LeasesStay == ASSUME LeasesOK, CopiesOK, UNCHANGED <<leases, replicas, unseen>>
                    PROVE  LeasesOK' /\ CopiesOK' /\ \A g : (Owned(g) \ unseen)' = Owned(g) \ unseen
BY DEF LeasesOK, CopiesOK, replicas, Live, Owned, Bound

LEMMA RequestKeeps ==
  ASSUME AdmInv, NEW s \in AdmSlots,
         \/ CheckEngineAccess(s) \/ AcquireReplica(s) \/ GiveUpProvision(s)
         \/ \E p \in AdmPods, u \in AdmUsers : LeaderForward(s, p, u)
  PROVE  AdmInv'
<1>0. ProvOK /\ RoutesOK /\ CopiesOK /\ LeasesOK /\ QuotaHeld BY DEF AdmInv
<1>1. ASSUME CheckEngineAccess(s) PROVE AdmInv'
  <2>1. QuotaHeld' BY <1>0, <1>1, QuotaChecks
  <2>2. ProvOK' BY <1>0, <1>1, FreedOK, StageOK DEF CheckEngineAccess
  <2>3. RoutesOK' BY <1>0, <1>1 DEF CheckEngineAccess, RoutesOK
  <2>4. CopiesOK' BY <1>0, <1>1 DEF CheckEngineAccess, CopiesOK, replicas
  <2>5. unseen' \subseteq DOMAIN leases BY <1>0, <1>1 DEF CheckEngineAccess, LeasesOK, Live
  <2>6. LeasesOK' BY <1>0, <1>1, <2>5 DEF CheckEngineAccess, LeasesOK, replicas, Live
  <2>7. QED BY <2>1, <2>2, <2>3, <2>4, <2>6 DEF AdmInv
<1>2. ASSUME AcquireReplica(s) \/ GiveUpProvision(s) PROVE AdmInv'
  <2>1. /\ UNCHANGED <<leases, replicas, unseen>> /\ UNCHANGED <<admLeader, believes, admFaults>>
    BY <1>2 DEF AcquireReplica, GiveUpProvision
  <2>2. ProvOK' /\ \A g : Admitted(g)' \subseteq Admitted(g)
    BY <1>0, <1>2, FreedOK, StageOK DEF AcquireReplica, GiveUpProvision
  <2>3. LeasesOK' /\ CopiesOK' /\ \A g : (Owned(g) \ unseen)' = Owned(g) \ unseen BY <1>0, <2>1, LeasesStay
  <2>4. QuotaHeld' BY <1>0, <2>2, <2>3, QuotaShrinks
  <2>5. RoutesOK' BY <1>0, <2>1 DEF RoutesOK
  <2>6. QED BY <2>2, <2>3, <2>4, <2>5 DEF AdmInv
<1>3. ASSUME NEW p \in AdmPods, NEW u \in AdmUsers, LeaderForward(s, p, u) PROVE AdmInv'
  <2>1. /\ UNCHANGED <<leases, replicas, unseen>> /\ UNCHANGED <<admLeader, believes, admFaults>>
    BY <1>3 DEF LeaderForward
  <2>2. PICK k : k = [stage |-> "check", pod |-> believes[p], user |-> u] OBVIOUS
  <2>3. k \in Provision /\ k.stage = "check" /\ k.pod \in AdmPods /\ k.user \in AdmUsers
    BY <1>0, <2>2 DEF Provision, RoutesOK
  <2>4. prov' = [prov EXCEPT ![s] = k] BY <1>3, <2>2 DEF LeaderForward
  <2>5. \A t \in AdmSlots : prov'[t] = IF t = s THEN k ELSE prov[t] BY <1>0, <2>4 DEF ProvOK
  <2>6. prov' \in [AdmSlots -> Provision] BY <1>0, <2>3, <2>4 DEF ProvOK
  <2>7. ProvOK' BY <1>0, <2>3, <2>5, <2>6 DEF ProvOK
  <2>8. \A g : Admitted(g)' \subseteq Admitted(g) BY <2>3, <2>5 DEF Admitted, Bound
  <2>9. LeasesOK' /\ CopiesOK' /\ \A g : (Owned(g) \ unseen)' = Owned(g) \ unseen BY <1>0, <2>1, LeasesStay
  <2>10. QuotaHeld' BY <1>0, <2>8, <2>9, QuotaShrinks
  <2>11. RoutesOK' BY <1>0, <2>1 DEF RoutesOK
  <2>12. QED BY <2>7, <2>9, <2>10, <2>11 DEF AdmInv
<1>4. QED BY <1>1, <1>2, <1>3

(* ---- registrations *)
LEMMA LeaseAppended ==
  ASSUME ProvOK, LeasesOK, NEW s \in AdmSlots, prov[s].stage = "register", Len(leases) < MaxLeases,
         leases' = Append(leases, NewSession(s)), unseen' = unseen
  PROVE  /\ leases' \in Seq(LeaseRow \cup {Nil}) /\ Len(leases') = NewCert /\ Len(leases') <= MaxLeases
         /\ DOMAIN leases \subseteq DOMAIN leases' /\ NewCert \in DOMAIN leases'
         /\ Live' = Live \cup {NewCert}
         /\ \A g : /\ (Owned(g) \ unseen)' \subseteq (Owned(g) \ unseen) \cup {NewCert}
                   /\ prov[s].user \notin Bound(g) => (Owned(g) \ unseen)' \subseteq Owned(g) \ unseen
<1>1. prov[s].user \in AdmUsers BY DEF ProvOK
<1>2. PICK k : k = NewSession(s) OBVIOUS
<1>3. k.user = prov[s].user BY <1>2 DEF NewSession
<1>4. k \in LeaseRow BY <1>1, <1>2, Zenon DEF NewSession, LeaseRow
<1>5. k # Nil BY <1>4, NilNotLease
<1>6. leases \in Seq(LeaseRow \cup {Nil}) /\ Len(leases) \in Nat /\ DOMAIN leases = 1 .. Len(leases)
  BY DomainOf DEF LeasesOK
<1>7. /\ leases' \in Seq(LeaseRow \cup {Nil}) /\ Len(leases') = Len(leases) + 1
      /\ \A i \in 1 .. Len(leases) : leases'[i] = leases[i]
      /\ leases'[Len(leases) + 1] = k
  BY <1>2, <1>4, <1>6, AppendProperties
<1>8. DOMAIN leases' = 1 .. Len(leases) + 1 BY <1>7, LenProperties
<1>9. DOMAIN leases \subseteq DOMAIN leases' /\ NewCert \in DOMAIN leases' BY <1>6, <1>8 DEF NewCert
<1>10. Len(leases') = NewCert /\ Len(leases') <= MaxLeases BY <1>6, <1>7, AdmAssumption DEF NewCert
<1>11. \A c : c \in DOMAIN leases' <=> c \in DOMAIN leases \/ c = NewCert BY <1>6, <1>8 DEF NewCert
<1>12. \A c \in DOMAIN leases : leases'[c] = leases[c] BY <1>6, <1>7
<1>13. leases'[NewCert] = k BY <1>7 DEF NewCert
<1>14. Live' = Live \cup {NewCert} BY <1>5, <1>11, <1>12, <1>13 DEF Live
<1>15. \A c \in Live : leases'[c] = leases[c] BY <1>12 DEF Live
<1>16. ASSUME NEW g
       PROVE  /\ (Owned(g) \ unseen)' \subseteq (Owned(g) \ unseen) \cup {NewCert}
              /\ prov[s].user \notin Bound(g) => (Owned(g) \ unseen)' \subseteq Owned(g) \ unseen
  BY <1>3, <1>13, <1>14, <1>15 DEF Owned, Bound
<1>17. QED BY <1>7, <1>9, <1>10, <1>14, <1>16

LEMMA RegisterKeeps ==
  ASSUME AdmInv, NEW s \in AdmSlots, RegisterSession(s) \/ RegisterLocally(s)
  PROVE  AdmInv'
<1> DEFINE p == prov[s].pod
<1>0. ProvOK /\ RoutesOK /\ CopiesOK /\ LeasesOK /\ QuotaHeld BY DEF AdmInv
<1>1. /\ prov[s].stage = "register" /\ Len(leases) < MaxLeases /\ leases' = Append(leases, NewSession(s))
      /\ known' = [known EXCEPT ![p] = @ \cup {NewCert}] /\ Finish(s)
      /\ UNCHANGED <<admLeader, believes, skipped, unseen, admFaults>>
  BY DEF RegisterSession, RegisterLocally
<1>2. p \in AdmPods BY <1>0, <1>1 DEF ProvOK
<1>3. /\ leases' \in Seq(LeaseRow \cup {Nil}) /\ Len(leases') = NewCert /\ Len(leases') <= MaxLeases
      /\ DOMAIN leases \subseteq DOMAIN leases' /\ NewCert \in DOMAIN leases'
      /\ Live' = Live \cup {NewCert}
      /\ \A g : /\ (Owned(g) \ unseen)' \subseteq (Owned(g) \ unseen) \cup {NewCert}
                /\ prov[s].user \notin Bound(g) => (Owned(g) \ unseen)' \subseteq Owned(g) \ unseen
  BY <1>0, <1>1, LeaseAppended
<1>4. ProvOK' /\ \A g : Admitted(g)' \subseteq Admitted(g) \ {s} BY <1>0, <1>1, FreedOK
<1>5. QuotaHeld' BY <1>0, <1>1, <1>3, <1>4, QuotaRegisters
<1>6. RoutesOK' BY <1>0, <1>1 DEF RoutesOK
<1>7. NewCert \in Nat BY <1>0, DomainOf DEF NewCert
<1> HIDE DEF p
<1>8. /\ known' \in [AdmPods -> SUBSET Nat]
      /\ \A q \in AdmPods : known'[q] \subseteq known[q] \cup {NewCert}
  BY <1>0, <1>1, <1>2, <1>7 DEF CopiesOK
<1>9. sessionLog \in Seq(DOMAIN leases) /\ sessionLog \in Seq(DOMAIN leases') /\ Len(sessionLog) \in Nat
  BY <1>0, <1>3, SeqMonotonic, LenProperties DEF LeasesOK
<1>10. /\ sessionLog' \in Seq(DOMAIN leases') /\ sessionsAt' \in [AdmPods -> Nat]
       /\ \A q \in AdmPods : sessionsAt'[q] \in 0 .. Len(sessionLog')
  <2>1. CASE RegisterSession(s)
    <3>1. sessionLog' = Append(sessionLog, NewCert) /\ sessionsAt' = [sessionsAt EXCEPT ![p] = @ + 1]
          /\ sessionsAt[p] = Len(sessionLog)
      BY <2>1 DEF RegisterSession, p
    <3>2. sessionLog' \in Seq(DOMAIN leases') /\ Len(sessionLog') = Len(sessionLog) + 1
      BY <1>3, <1>9, <3>1, AppendProperties
    <3>3. \A q \in AdmPods : sessionsAt'[q] = IF q = p THEN sessionsAt[q] + 1 ELSE sessionsAt[q]
      BY <1>0, <3>1 DEF CopiesOK
    <3>4. \A q \in AdmPods : sessionsAt'[q] \in 0 .. Len(sessionLog')
      BY <1>0, <1>9, <3>1, <3>2, <3>3 DEF LeasesOK, CopiesOK
    <3>5. sessionsAt' \in [AdmPods -> Nat] BY <1>0, <1>2, <3>1 DEF CopiesOK
    <3>6. QED BY <3>2, <3>4, <3>5
  <2>2. CASE RegisterLocally(s)
    BY <1>0, <1>9, <2>2 DEF RegisterLocally, LeasesOK, CopiesOK
  <2>3. QED BY <2>1, <2>2
<1>11. CopiesOK' BY <1>0, <1>1, <1>8, <1>10 DEF CopiesOK
<1>12. \A q \in AdmPods : known'[q] \subseteq Live' /\ skipped'[q] \subseteq DOMAIN leases'
  BY <1>0, <1>1, <1>3, <1>8 DEF LeasesOK
<1>13. LeasesOK' BY <1>0, <1>1, <1>3, <1>10, <1>12 DEF LeasesOK
<1>14. QED BY <1>4, <1>5, <1>6, <1>11, <1>13 DEF AdmInv
(* ---- the copies of the leases *)
LEMMA EntriesKnown == ASSUME LeasesOK, NEW from \in Nat, NEW to \in 0 .. Len(sessionLog)
                      PROVE  Entries(from, to) \subseteq DOMAIN leases
<1>1. sessionLog \in Seq(DOMAIN leases) /\ Len(sessionLog) \in Nat BY LenProperties DEF LeasesOK
<1>2. ASSUME NEW i \in from + 1 .. to PROVE sessionLog[i] \in DOMAIN leases
  <2>1. i \in 1 .. Len(sessionLog) BY <1>1
  <2>2. QED BY <1>1, <2>1, ElementOfSeq
<1>3. QED BY <1>2 DEF Entries

LEMMA CopyKeeps ==
  ASSUME AdmInv, NEW p \in AdmPods, ApplySession(p) \/ InstallSnapshot(p)
  PROVE  AdmInv'
<1>0. ProvOK /\ RoutesOK /\ CopiesOK /\ LeasesOK /\ QuotaHeld BY DEF AdmInv
<1>1. UNCHANGED <<admLeader, believes, leases, sessionLog, prov, unseen, admFaults>>
  BY DEF ApplySession, InstallSnapshot
<1>2. ProvOK' /\ RoutesOK' BY <1>0, <1>1 DEF ProvOK, RoutesOK
<1>3. Live' = Live /\ \A g : (Owned(g) \ unseen)' = Owned(g) \ unseen /\ Admitted(g)' = Admitted(g)
  BY <1>1 DEF Live, Owned, Bound, Admitted
<1>4. QuotaHeld' BY <1>0, <1>3, QuotaShrinks
<1>5. sessionLog \in Seq(DOMAIN leases) /\ Len(sessionLog) \in Nat BY <1>0, LenProperties DEF LeasesOK
<1>6. Live \subseteq Nat /\ DOMAIN leases \subseteq Nat BY <1>0, DomainOf DEF Live
<1>7. ASSUME ApplySession(p) PROVE CopiesOK' /\ LeasesOK'
  <2>1. PICK X : X = {sessionLog[sessionsAt[p] + 1]} \cap Live OBVIOUS
  <2>2. /\ sessionsAt[p] < Len(sessionLog) /\ sessionsAt' = [sessionsAt EXCEPT ![p] = @ + 1]
        /\ known' = [known EXCEPT ![p] = @ \cup X] /\ skipped' = skipped
    BY <1>7, <2>1 DEF ApplySession
  <2>3. X \subseteq Live BY <2>1
  <2>4. CopiesOK'
    <3>1. sessionsAt[p] + 1 \in Nat /\ X \subseteq Nat BY <1>0, <1>6, <2>3 DEF CopiesOK
    <3>2. sessionsAt' \in [AdmPods -> Nat] BY <1>0, <2>2, <3>1 DEF CopiesOK
    <3>3. known' \in [AdmPods -> SUBSET Nat] BY <1>0, <2>2, <3>1 DEF CopiesOK
    <3>4. QED BY <1>0, <2>2, <3>2, <3>3 DEF CopiesOK
  <2>5. \A q \in AdmPods : /\ known'[q] \subseteq Live /\ skipped'[q] \subseteq DOMAIN leases
                           /\ sessionsAt'[q] \in 0 .. Len(sessionLog)
    BY <1>0, <1>5, <2>2, <2>3 DEF CopiesOK, LeasesOK
  <2>6. QED BY <1>0, <1>1, <1>3, <2>4, <2>5 DEF LeasesOK
<1>8. ASSUME InstallSnapshot(p) PROVE CopiesOK' /\ LeasesOK'
  <2>1. PICK n \in sessionsAt[p] + 1 .. sessionsAt[admLeader] :
               /\ sessionsAt' = [sessionsAt EXCEPT ![p] = n]
               /\ skipped' = [skipped EXCEPT ![p] = @ \cup Entries(sessionsAt[p], n)]
    BY <1>8 DEF InstallSnapshot
  <2>2. known' = known BY <1>8 DEF InstallSnapshot
  <2>3. sessionsAt[p] \in Nat /\ n \in 0 .. Len(sessionLog) BY <1>0, <1>5, <2>1 DEF LeasesOK, CopiesOK, RoutesOK
  <2>4. PICK X : X = Entries(sessionsAt[p], n) OBVIOUS
  <2>5. X \subseteq DOMAIN leases BY <1>0, <2>3, <2>4, EntriesKnown
  <2>6. skipped' = [skipped EXCEPT ![p] = @ \cup X] BY <2>1, <2>4
  <2>7. CopiesOK' BY <1>0, <1>6, <2>1, <2>2, <2>3, <2>5, <2>6 DEF CopiesOK
  <2>8. \A q \in AdmPods : /\ known'[q] \subseteq Live /\ skipped'[q] \subseteq DOMAIN leases
                           /\ sessionsAt'[q] \in 0 .. Len(sessionLog)
    BY <1>0, <2>1, <2>2, <2>3, <2>5, <2>6 DEF CopiesOK, LeasesOK
  <2>9. QED BY <1>0, <1>1, <1>3, <2>7, <2>8 DEF LeasesOK
<1>9. QED BY <1>2, <1>4, <1>7, <1>8 DEF AdmInv

LEMMA RaftKeeps ==
  ASSUME AdmInv, NEW p \in AdmPods, Elect(p) \/ LearnLeader(p)
  PROVE  AdmInv'
<1>0. ProvOK /\ RoutesOK /\ CopiesOK /\ LeasesOK /\ QuotaHeld BY DEF AdmInv
<1>1. UNCHANGED <<leases, replicas, unseen>> /\ prov' = prov BY DEF Elect, LearnLeader
<1>2. RoutesOK' BY <1>0, AdmAssumption DEF Elect, LearnLeader, RoutesOK
<1>3. ProvOK' /\ \A g : Admitted(g)' = Admitted(g) BY <1>0, <1>1 DEF ProvOK, Admitted, Bound
<1>4. LeasesOK' /\ CopiesOK' /\ \A g : (Owned(g) \ unseen)' = Owned(g) \ unseen BY <1>0, <1>1, LeasesStay
<1>5. QuotaHeld' BY <1>0, <1>3, <1>4, QuotaShrinks
<1>6. QED BY <1>2, <1>3, <1>4, <1>5 DEF AdmInv

(* A restart loses requests and a pod's leases; both only free the quota.     *)
LEMMA RestartKeeps ==
  ASSUME AdmInv, NEW p \in AdmPods, RestartPod(p)
  PROVE  AdmInv'
<1>0. ProvOK /\ RoutesOK /\ CopiesOK /\ LeasesOK /\ QuotaHeld BY DEF AdmInv
<1>1. /\ UNCHANGED <<admLeader, leases, sessionLog, unseen>> /\ known' = [known EXCEPT ![p] = {}]
      /\ believes' = [believes EXCEPT ![p] = admLeader] /\ admFaults' = admFaults + 1 /\ admFaults < MaxAdmFaults
      /\ prov' = [s \in AdmSlots |-> IF prov[s].pod = p THEN NoProvision ELSE prov[s]]
  BY DEF RestartPod
<1>2. PICK n \in 0 .. sessionsAt[p] : /\ sessionsAt' = [sessionsAt EXCEPT ![p] = n]
                                      /\ skipped' = [skipped EXCEPT ![p] = Entries(0, n)]
  BY DEF RestartPod
<1>3. RoutesOK' BY <1>0, <1>1, AdmAssumption DEF RoutesOK
<1>4. NoProvision \in Provision /\ NoProvision.stage = "idle" BY DEF NoProvision, Provision
<1>5. prov' \in [AdmSlots -> Provision] BY <1>0, <1>1, <1>4 DEF ProvOK
<1>6. \A s \in AdmSlots : prov'[s] = prov[s] \/ prov'[s] = NoProvision BY <1>1
<1>7. ProvOK' BY <1>0, <1>4, <1>5, <1>6 DEF ProvOK
<1>8. \A g : Admitted(g)' \subseteq Admitted(g) BY <1>4, <1>6 DEF Admitted, Bound
<1>9. Live' = Live /\ \A g : (Owned(g) \ unseen)' = Owned(g) \ unseen BY <1>1 DEF Live, Owned, Bound
<1>10. QuotaHeld' BY <1>0, <1>8, <1>9, QuotaShrinks
<1>11. sessionLog \in Seq(DOMAIN leases) /\ Len(sessionLog) \in Nat BY <1>0, LenProperties DEF LeasesOK
<1>12. n \in Nat /\ n \in 0 .. Len(sessionLog) BY <1>0, <1>11, <1>2 DEF LeasesOK, CopiesOK
<1>13. PICK X : X = Entries(0, n) OBVIOUS
<1>14. X \subseteq DOMAIN leases BY <1>0, <1>12, <1>13, EntriesKnown
<1>15. DOMAIN leases \subseteq Nat BY <1>0, DomainOf
<1>16. skipped' = [skipped EXCEPT ![p] = X] BY <1>2, <1>13
<1>17. CopiesOK' BY <1>0, <1>1, <1>2, <1>12, <1>14, <1>15, <1>16 DEF CopiesOK
<1>18. \A q \in AdmPods : /\ known'[q] \subseteq Live /\ skipped'[q] \subseteq DOMAIN leases
                          /\ sessionsAt'[q] \in 0 .. Len(sessionLog)
  BY <1>0, <1>1, <1>2, <1>12, <1>14, <1>16 DEF CopiesOK, LeasesOK
<1>19. LeasesOK' BY <1>0, <1>1, <1>9, <1>18 DEF LeasesOK
<1>20. QED BY <1>3, <1>7, <1>10, <1>17, <1>19 DEF AdmInv

(* ---- the sessions *)
LEMMA EndKeeps ==
  ASSUME AdmInv, NEW c \in DOMAIN leases, EndSession(c)
  PROVE  AdmInv'
<1>0. ProvOK /\ RoutesOK /\ CopiesOK /\ LeasesOK /\ QuotaHeld BY DEF AdmInv
<1>1. /\ leases' = [leases EXCEPT ![c] = Nil] /\ known' = [p \in AdmPods |-> known[p] \ {c}]
      /\ unseen' = unseen \ {c}
      /\ UNCHANGED <<admLeader, believes, sessionLog, sessionsAt, skipped, prov, admFaults>>
  BY DEF EndSession
<1>2. leases \in Seq(LeaseRow \cup {Nil}) /\ Len(leases) \in Nat /\ DOMAIN leases = 1 .. Len(leases)
  BY <1>0, DomainOf DEF LeasesOK
<1>3. leases' \in Seq(LeaseRow \cup {Nil}) /\ Len(leases') = Len(leases) BY <1>1, <1>2, ExceptSeq
<1>4. DOMAIN leases' = DOMAIN leases /\ \A d \in DOMAIN leases : leases'[d] = IF d = c THEN Nil ELSE leases[d]
  BY <1>1
<1>5. Live' = Live \ {c} BY <1>4 DEF Live
<1>6. \A d \in Live' : leases'[d] = leases[d] BY <1>4, <1>5 DEF Live
<1>7. \A g : (Owned(g) \ unseen)' \subseteq Owned(g) \ unseen BY <1>1, <1>5, <1>6 DEF Owned, Bound
<1>8. ProvOK' /\ RoutesOK' /\ \A g : Admitted(g)' = Admitted(g)
  BY <1>0, <1>1 DEF ProvOK, RoutesOK, Admitted, Bound
<1>9. QuotaHeld' BY <1>0, <1>7, <1>8, QuotaShrinks
<1>10. CopiesOK' BY <1>0, <1>1 DEF CopiesOK
<1>11. \A q \in AdmPods : known'[q] \subseteq Live' BY <1>0, <1>1, <1>5 DEF LeasesOK
<1>12. LeasesOK' BY <1>0, <1>1, <1>3, <1>4, <1>11 DEF LeasesOK
<1>13. QED BY <1>8, <1>9, <1>10, <1>12 DEF AdmInv

LEMMA DialKeeps ==
  ASSUME AdmInv, NEW c \in DOMAIN leases, NEW p \in AdmPods, DialData(c, p)
  PROVE  AdmInv'
<1>0. ProvOK /\ RoutesOK /\ CopiesOK /\ LeasesOK /\ QuotaHeld BY DEF AdmInv
<1>1. /\ c \in Live /\ leases' = [leases EXCEPT ![c].served = TRUE]
      /\ UNCHANGED <<admLeader, believes, replicas, prov, unseen, admFaults>>
  BY DEF DialData
<1>2. leases \in Seq(LeaseRow \cup {Nil}) /\ Len(leases) \in Nat /\ DOMAIN leases = 1 .. Len(leases)
  BY <1>0, DomainOf DEF LeasesOK
<1>3. leases[c] \in LeaseRow
  <2>1. leases[c] \in LeaseRow \cup {Nil} BY <1>2, ElementOfSeq
  <2>2. QED BY <1>1, <2>1 DEF Live
<1>4. PICK k : k = [leases[c] EXCEPT !.served = TRUE] OBVIOUS
<1>5. k \in LeaseRow BY <1>3, <1>4 DEF LeaseRow
<1>6. k.user = leases[c].user BY <1>3, <1>4 DEF LeaseRow
<1>7. leases' = [leases EXCEPT ![c] = k] BY <1>1, <1>4
<1>8. leases' \in Seq(LeaseRow \cup {Nil}) /\ Len(leases') = Len(leases) BY <1>2, <1>5, <1>7, ExceptSeq
<1>9. DOMAIN leases' = DOMAIN leases /\ \A d \in DOMAIN leases : leases'[d] = IF d = c THEN k ELSE leases[d]
  BY <1>7
<1>10. k # Nil BY <1>5, NilNotLease
<1>11. Live' = Live BY <1>1, <1>9, <1>10 DEF Live
<1>12. \A d \in Live : leases'[d].user = leases[d].user BY <1>6, <1>9 DEF Live
<1>13. \A g : (Owned(g) \ unseen)' \subseteq Owned(g) \ unseen BY <1>1, <1>11, <1>12 DEF Owned, Bound
<1>14. ProvOK' /\ RoutesOK' /\ \A g : Admitted(g)' = Admitted(g)
  BY <1>0, <1>1 DEF ProvOK, RoutesOK, Admitted, Bound
<1>15. QuotaHeld' BY <1>0, <1>13, <1>14, QuotaShrinks
<1>16. CopiesOK' BY <1>0, <1>1 DEF CopiesOK, replicas
<1>17. LeasesOK' BY <1>0, <1>1, <1>8, <1>9, <1>11 DEF LeasesOK, replicas
<1>18. QED BY <1>14, <1>15, <1>16, <1>17 DEF AdmInv

LEMMA AdmNextInv == AdmInv /\ [AdmNext]_admVars => AdmInv'
<1> SUFFICES ASSUME AdmInv, [AdmNext]_admVars PROVE AdmInv' OBVIOUS
<1>1. CASE UNCHANGED admVars
  <2>1. ProvOK' /\ RoutesOK' /\ CopiesOK' /\ LeasesOK'
    BY <1>1 DEF admVars, AdmInv, ProvOK, RoutesOK, CopiesOK, LeasesOK, Live
  <2>2. QuotaHeld'
    BY <1>1 DEF admVars, AdmInv, QuotaHeld, Owned, Admitted, Live, Sole, Bound
  <2>3. QED BY <2>1, <2>2 DEF AdmInv
<1>2. ASSUME NEW s \in AdmSlots, ProvisionStep(s) PROVE AdmInv'
  BY <1>2, RequestKeeps, RegisterKeeps DEF ProvisionStep
<1>3. ASSUME NEW s \in AdmSlots, NEW p \in AdmPods, NEW u \in AdmUsers, LeaderForward(s, p, u) PROVE AdmInv'
  BY <1>3, RequestKeeps
<1>4. QED BY <1>1, <1>2, <1>3, CopyKeeps, RaftKeeps, RestartKeeps, EndKeeps, DialKeeps DEF AdmNext

(* The inductive invariant of admission: the quota is held by what every      *)
(* admission saw and what has been let through but not registered.            *)
THEOREM AdmInductive == AdmSpec => []AdmInv
BY AdmInitInv, AdmNextInv, PTL DEF AdmSpec

(* Every pod applied a prefix of the log and knows only leases that are not   *)
(* over, through elections, snapshots and restarts.                           *)
THEOREM AdmTypeHolds == AdmSpec => []AdmTypeOK
<1>1. AdmInv => AdmTypeOK BY DEF AdmInv, AdmTypeOK, ProvOK, RoutesOK, CopiesOK, LeasesOK
<1>2. QED BY <1>1, AdmInductive, PTL

(* For any number of pods, concurrent requests, users and groups: a group     *)
(* exceeds its quota by at most the other requests in progress and the        *)
(* sessions some admission did not see (CheckEngineAccess counts before       *)
(* Register).                                                                *)
THEOREM QuotaBounded == AdmSpec => []AdmQuotaBounded
<1>1. ASSUME AdmInv, NEW g \in AdmGroups, Quota[g] > 0, Sole(g)
      PROVE  Cardinality(Owned(g)) <= Quota[g] + (Cardinality(AdmSlots) - 1) + Cardinality(unseen \cap Owned(g))
  <2>1. IsFiniteSet(Owned(g)) /\ Cardinality(Owned(g) \ unseen) \in Nat BY <1>1, FiniteCounts DEF AdmInv
  <2>2. Cardinality(Owned(g) \ unseen) = Cardinality(Owned(g)) - Cardinality(Owned(g) \cap unseen)
    BY <2>1, FS_Difference
  <2>3. Owned(g) \cap unseen = unseen \cap Owned(g) OBVIOUS
  <2>4. Cardinality(Owned(g)) \in Nat /\ Cardinality(unseen \cap Owned(g)) \in Nat
    BY <2>1, FS_Intersection, FS_CardinalityType
  <2>5. Cardinality(Owned(g) \ unseen) + Cardinality(Admitted(g)) <= Quota[g] + Cardinality(AdmSlots) - 1
    BY <1>1 DEF AdmInv, QuotaHeld
  <2>6. Quota[g] \in Nat /\ Cardinality(AdmSlots) \in Nat /\ Cardinality(Admitted(g)) \in Nat
    BY AdmAssumption, FiniteSlots
  <2>7. Cardinality(Owned(g) \ unseen) = Cardinality(Owned(g)) - Cardinality(unseen \cap Owned(g)) BY <2>2, <2>3
  <2> HIDE DEF Owned, Admitted
  <2>8. QED BY <2>1, <2>4, <2>5, <2>6, <2>7
<1>2. AdmInv => AdmQuotaBounded BY <1>1 DEF AdmQuotaBounded, Owned, Bound, Sole
<1>3. QED BY <1>2, AdmInductive, PTL

(* ---------------------------------------------------------- GroupService -- *)

GroupsOK ==
    /\ groupName \in [GroupId -> ValidNames \cup {Nil}] /\ nextGroup \in 1 .. MaxGroupId + 1
    /\ grpMembers \in [GroupId -> SUBSET GrpUsers]
    /\ \A g \in GroupId : groupName[g] = Nil => grpMembers[g] = {}
    /\ \A g, h \in GroupId : groupName[g] # Nil /\ groupName[g] = groupName[h] => g = h

CountsOK ==
    /\ managed \in [GrpUsers -> SUBSET GroupId] /\ mapped \in [GrpUsers -> SUBSET GroupId]
    /\ disturbed \subseteq GrpRequests
    /\ grpCalls \in 0 .. MaxGrpCalls /\ grpFaults \in 0 .. MaxGrpFaults

(* A request that edits is about a user and creates only valid names; only a  *)
(* login joins the default group.                                             *)
RequestOK(c) ==
    /\ c \in GrpCall
    /\ c.stage # "next" => c.user \in GrpUsers
    /\ c.stage \in {"create", "refetch"} => c.name \in ValidNames
    /\ c.op # "login" => c.joining = FALSE /\ c.stage # "fallback"

RequestsOK ==
    /\ grpCall \in [GrpRequests -> GrpCall \cup {Nil}]
    /\ \A r \in GrpRequests : grpCall[r] # Nil => RequestOK(grpCall[r])

(* Nothing runs beside a request that nothing disturbed.                      *)
Alone ==
    \A r, q \in GrpRequests : grpCall[r] # Nil /\ r \notin disturbed /\ grpCall[q] # Nil => q = r

(* How far a login is: before the plan, at the plan's edits, when it looks    *)
(* for the default group, while it joins it, and at the end.                  *)
Outcome(c) == (c.base \cup (c.wanted \ c.previous)) \ (c.previous \ c.wanted)
Before(c) == /\ c.wanted \subseteq Standing /\ GroupsOf(c.user) = c.base
             /\ c.joining = FALSE
Editing(c) == /\ c.wanted \subseteq Standing
              /\ c.add \subseteq c.wanted \ c.previous /\ c.remove \subseteq c.previous \ c.wanted
              /\ GroupsOf(c.user) = (c.base \cup ((c.wanted \ c.previous) \ c.add))
                                      \ ((c.previous \ c.wanted) \ c.remove)
Writing(c) == /\ c.at \in c.add \cup c.remove
              /\ c.seen = grpMembers[c.at] \ {c.user}
Edited(c) == c.previous \subseteq Standing => GroupsOf(c.user) = Outcome(c) /\ c.record = c.wanted
Joining(c) == /\ c.add \subseteq ByName(DefaultGroup) /\ c.remove = {}
              /\ c.previous \subseteq Standing =>
                   /\ Outcome(c) = {} /\ c.record = c.wanted
                   /\ GroupsOf(c.user) = ByName(DefaultGroup) \ c.add
Ended(c) == c.previous \subseteq Standing => GroupsOf(c.user) = Reconciled(c) /\ c.record = c.wanted

Tracked(c) ==
    /\ c.stage # "next"
    /\ c.stage \in {"ensure", "create", "refetch"} => Before(c)
    /\ c.stage \in {"edit", "write"} /\ c.joining = FALSE => Editing(c)
    /\ c.stage \in {"edit", "write"} /\ c.joining = TRUE => Joining(c)
    /\ c.stage = "write" => Writing(c)
    /\ c.stage = "fallback" => c.joining = FALSE /\ c.remove = {} /\ Edited(c)
    /\ c.stage = "update" => Ended(c)

LoginsTracked ==
    \A r \in GrpRequests :
      grpCall[r] # Nil /\ r \notin disturbed /\ grpCall[r].op = "login" => Tracked(grpCall[r])

GrpInv == GroupsOK /\ CountsOK /\ RequestsOK /\ Alone /\ LoginsTracked
(* ---- what holds whatever the step *)
LEMMA StoreStays ==
  ASSUME GroupsOK, UNCHANGED grpStore
  PROVE  GroupsOK' /\ \A c : Tracked(c) => Tracked(c)'
BY DEF GroupsOK, grpStore, Tracked, Before, Editing, Writing, Edited, Joining, Ended, Outcome, Reconciled,
       Standing, GroupsOf, ByName

LEMMA StepFrame ==
  ASSUME RequestsOK, Alone, LoginsTracked, NEW r \in GrpRequests, grpCall[r] # Nil, NEW k,
         grpCall' = [grpCall EXCEPT ![r] = k], disturbed \subseteq disturbed',
         k # Nil => RequestOK(k),
         k # Nil /\ k.op = "login" /\ r \notin disturbed' => Tracked(k)'
  PROVE  RequestsOK' /\ Alone' /\ LoginsTracked'
<1>1. \A q \in GrpRequests : grpCall'[q] = IF q = r THEN k ELSE grpCall[q] BY DEF RequestsOK
<1>2. k \in GrpCall \cup {Nil} BY DEF RequestOK
<1>3. grpCall' \in [GrpRequests -> GrpCall \cup {Nil}] BY <1>2 DEF RequestsOK
<1>4. RequestsOK' BY <1>1, <1>3 DEF RequestsOK
<1>5. ASSUME NEW q \in GrpRequests, grpCall'[q] # Nil, q \notin disturbed' PROVE q = r
  BY <1>1, <1>5 DEF Alone
<1>6. Alone' 
  <2> SUFFICES ASSUME NEW a \in GrpRequests, NEW b \in GrpRequests,
                      grpCall'[a] # Nil, a \notin disturbed', grpCall'[b] # Nil
               PROVE  b = a
    BY DEF Alone
  <2>1. a = r /\ a \notin disturbed BY <1>5
  <2>2. b # r => grpCall[b] # Nil BY <1>1
  <2>3. QED BY <2>1, <2>2 DEF Alone
<1>7. LoginsTracked'
  <2> SUFFICES ASSUME NEW a \in GrpRequests, grpCall'[a] # Nil, a \notin disturbed', grpCall'[a].op = "login"
               PROVE  Tracked(grpCall[a])'
    BY DEF LoginsTracked
  <2>1. a = r BY <1>5
  <2>2. grpCall'[a] = k BY <1>1, <2>1
  <2>3. Tracked(k)' BY <2>1, <2>2
  <2>4. QED BY <2>2, <2>3 DEF Tracked, Before, Editing, Writing, Edited, Joining, Ended, Outcome, Reconciled
<1>8. QED BY <1>4, <1>6, <1>7

LEMMA BeginFrame ==
  ASSUME RequestsOK, CountsOK, NEW r \in GrpRequests, NEW k, BeginCall(r, k),
         RequestOK(k), k.op = "login" => Tracked(k)'
  PROVE  RequestsOK' /\ Alone' /\ LoginsTracked' /\ CountsOK'
<1>1. \A q \in GrpRequests : grpCall'[q] = IF q = r THEN k ELSE grpCall[q] BY DEF RequestsOK, BeginCall
<1>2. grpCall' \in [GrpRequests -> GrpCall \cup {Nil}] BY DEF RequestsOK, BeginCall, RequestOK
<1>3. RequestsOK' BY <1>1, <1>2 DEF RequestsOK
<1>4. CountsOK' BY GrpAssumption DEF CountsOK, BeginCall, Running
<1>5. ASSUME NEW q \in GrpRequests, grpCall'[q] # Nil, q \notin disturbed' PROVE q = r /\ Running = {}
  BY <1>1, <1>5 DEF BeginCall, Running
<1>6. Alone'
  <2> SUFFICES ASSUME NEW a \in GrpRequests, NEW b \in GrpRequests,
                      grpCall'[a] # Nil, a \notin disturbed', grpCall'[b] # Nil
               PROVE  b = a
    BY DEF Alone
  <2>1. a = r /\ Running = {} BY <1>5
  <2>2. QED BY <1>1, <2>1 DEF Running
<1>7. LoginsTracked'
  <2> SUFFICES ASSUME NEW a \in GrpRequests, grpCall'[a] # Nil, a \notin disturbed', grpCall'[a].op = "login"
               PROVE  Tracked(grpCall[a])'
    BY DEF LoginsTracked
  <2>1. grpCall'[a] = k BY <1>1, <1>5
  <2>2. Tracked(k)' BY <2>1
  <2>3. QED BY <2>1, <2>2 DEF Tracked, Before, Editing, Writing, Edited, Joining, Ended, Outcome, Reconciled
<1>8. QED BY <1>3, <1>4, <1>6, <1>7

LEMMA EditFrame ==
  ASSUME RequestsOK, CountsOK, Edit, mapped' \in [GrpUsers -> SUBSET GroupId]
  PROVE  RequestsOK' /\ Alone' /\ LoginsTracked' /\ CountsOK'
<1>1. CountsOK' BY GrpAssumption DEF CountsOK, Edit, Running
<1>2. \A r \in GrpRequests : grpCall'[r] = Nil \/ r \in disturbed' BY DEF Edit, Running
<1>3. RequestsOK' BY DEF RequestsOK, Edit
<1>4. Alone' BY <1>2 DEF Alone
<1>5. LoginsTracked' BY <1>2 DEF LoginsTracked
<1>6. QED BY <1>1, <1>3, <1>4, <1>5

(* A new group: its name was free, it has no members yet.                     *)
LEMMA GroupAdded ==
  ASSUME GroupsOK, NEW n \in ValidNames, ByName(n) = {}, AddGroup(n), grpMembers' = grpMembers
  PROVE  /\ GroupsOK' /\ (\A u : GroupsOf(u)' = GroupsOf(u))
         /\ Standing \subseteq Standing' /\ nextGroup \in Standing' /\ nextGroup \in GroupId
<1>1. /\ nextGroup \in GroupId /\ groupName' = [groupName EXCEPT ![nextGroup] = n] /\ nextGroup' = nextGroup + 1
  BY DEF AddGroup
<1>2. n # Nil BY GrpAssumption DEF ValidNames
<1>3. \A g \in GroupId : groupName'[g] = IF g = nextGroup THEN n ELSE groupName[g] BY <1>1 DEF GroupsOK
<1>4. \A g \in GroupId : groupName[g] # n BY DEF ByName
<1>5. groupName' \in [GroupId -> ValidNames \cup {Nil}] BY <1>1 DEF GroupsOK
<1>6. nextGroup' \in 1 .. MaxGroupId + 1 BY <1>1, GrpAssumption DEF GroupId
<1>7. \A g, h \in GroupId : groupName'[g] # Nil /\ groupName'[g] = groupName'[h] => g = h
  BY <1>3, <1>4 DEF GroupsOK
<1>8. \A g \in GroupId : groupName'[g] = Nil => grpMembers'[g] = {} BY <1>2, <1>3 DEF GroupsOK
<1>9. GroupsOK' BY <1>5, <1>6, <1>7, <1>8 DEF GroupsOK
<1>10. QED BY <1>1, <1>2, <1>3, <1>9 DEF GroupsOf, Standing

LEMMA GrpInitInv == GrpInit => GrpInv
<1> SUFFICES ASSUME GrpInit PROVE GrpInv OBVIOUS
<1>1. groupName \in [GroupId -> ValidNames \cup {Nil}] BY GrpAssumption DEF GrpInit, ValidNames
<1>2. \A g, h \in GroupId : groupName[g] # Nil /\ groupName[g] = groupName[h] => g = h BY DEF GrpInit
<1>3. nextGroup \in 1 .. MaxGroupId + 1
  BY GrpAssumption DEF GrpInit
<1>4. GroupsOK BY <1>1, <1>2, <1>3 DEF GrpInit, GroupsOK
<1>5. CountsOK BY GrpAssumption DEF GrpInit, CountsOK
<1>6. RequestsOK /\ Alone /\ LoginsTracked BY DEF GrpInit, RequestsOK, Alone, LoginsTracked
<1>7. QED BY <1>4, <1>5, <1>6 DEF GrpInv
(* ---- administrators *)
LEMMA EditsKeep ==
  ASSUME GrpInv,
         \/ \E n \in GrpNames : CreateGroup(n) \/ \E g \in GroupId : UpdateGroup(g, n)
         \/ \E g \in GroupId : DeleteGroup(g) \/ \E members \in SUBSET GrpUsers : SetMembers(g, members)
  PROVE  GrpInv'
<1>0. GroupsOK /\ CountsOK /\ RequestsOK BY DEF GrpInv
<1>1. Edit BY DEF CreateGroup, UpdateGroup, DeleteGroup, SetMembers
<1>2. ASSUME NEW n \in GrpNames, CreateGroup(n) PROVE GrpInv'
  <2>1. GroupsOK' BY <1>0, <1>2, GroupAdded DEF CreateGroup
  <2>2. mapped' \in [GrpUsers -> SUBSET GroupId] BY <1>0, <1>2 DEF CreateGroup, CountsOK
  <2>3. QED BY <1>0, <1>1, <2>1, <2>2, EditFrame DEF GrpInv
<1>3. ASSUME NEW n \in GrpNames, NEW g \in GroupId, UpdateGroup(g, n) PROVE GrpInv'
  <2>1. /\ n \in ValidNames /\ ByName(n) = {} /\ groupName' = [groupName EXCEPT ![g] = n]
        /\ UNCHANGED <<nextGroup, grpMembers, mapped>>
    BY <1>3 DEF UpdateGroup
  <2>2. n # Nil BY <2>1, GrpAssumption DEF ValidNames
  <2>3. \A h \in GroupId : groupName'[h] = IF h = g THEN n ELSE groupName[h] BY <1>0, <2>1 DEF GroupsOK
  <2>4. \A h \in GroupId : groupName[h] # n BY <2>1 DEF ByName
  <2>5. groupName' \in [GroupId -> ValidNames \cup {Nil}] BY <1>0, <2>1 DEF GroupsOK
  <2>6. \A h, k \in GroupId : groupName'[h] # Nil /\ groupName'[h] = groupName'[k] => h = k
    BY <1>0, <2>3, <2>4 DEF GroupsOK
  <2>7. GroupsOK' BY <1>0, <2>1, <2>2, <2>3, <2>5, <2>6 DEF GroupsOK
  <2>8. mapped' \in [GrpUsers -> SUBSET GroupId] BY <1>0, <2>1 DEF CountsOK
  <2>9. QED BY <1>0, <1>1, <2>7, <2>8, EditFrame DEF GrpInv
<1>4. ASSUME NEW g \in GroupId, DeleteGroup(g) PROVE GrpInv'
  <2>1. /\ groupName' = [groupName EXCEPT ![g] = Nil] /\ grpMembers' = [grpMembers EXCEPT ![g] = {}]
        /\ mapped' = [u \in GrpUsers |-> mapped[u] \ {g}] /\ nextGroup' = nextGroup
    BY <1>4 DEF DeleteGroup
  <2>2. GroupsOK' BY <1>0, <2>1 DEF GroupsOK
  <2>3. mapped' \in [GrpUsers -> SUBSET GroupId] BY <1>0, <2>1 DEF CountsOK
  <2>4. QED BY <1>0, <1>1, <2>2, <2>3, EditFrame DEF GrpInv
<1>5. ASSUME NEW g \in GroupId, NEW members \in SUBSET GrpUsers, SetMembers(g, members) PROVE GrpInv'
  <2>1. /\ groupName' = groupName /\ grpMembers' = [grpMembers EXCEPT ![g] = members] /\ groupName[g] # Nil
        /\ mapped' = [u \in GrpUsers |-> mapped[u] \ {g}] /\ nextGroup' = nextGroup
    BY <1>5 DEF SetMembers, Standing
  <2>2. GroupsOK' BY <1>0, <2>1 DEF GroupsOK
  <2>3. mapped' \in [GrpUsers -> SUBSET GroupId] BY <1>0, <2>1 DEF CountsOK
  <2>4. QED BY <1>0, <1>1, <2>2, <2>3, EditFrame DEF GrpInv
<1>6. QED BY <1>2, <1>3, <1>4, <1>5

(* ---- calls *)
LEMMA BeginKeeps ==
  ASSUME GrpInv, NEW r \in GrpRequests,
         \/ BootstrapDefaultGroup(r)
         \/ \E u \in GrpUsers : \/ \E names \in SUBSET GrpNames : CompleteOAuthLogin(r, u, names)
                                \/ \E wanted \in SUBSET GroupId : SetUserGroups(r, u, wanted)
  PROVE  GrpInv'
<1>0. GroupsOK /\ CountsOK /\ RequestsOK BY DEF GrpInv
<1>1. ASSUME BootstrapDefaultGroup(r) PROVE GrpInv'
  <2>1. PICK k : k = [NewCall EXCEPT !.op = "sweep", !.wanted = {nextGroup}, !.sweep = GrpUsers] OBVIOUS
  <2>2. /\ Standing = {} /\ AddGroup(DefaultGroup) /\ BeginCall(r, k) /\ grpMembers' = grpMembers
    BY <1>1, <2>1 DEF BootstrapDefaultGroup
  <2>3. DefaultGroup \in ValidNames /\ DefaultGroup # Nil BY GrpAssumption DEF ValidNames
  <2>4. ByName(DefaultGroup) = {} BY <2>2, <2>3 DEF ByName, Standing
  <2>5. GroupsOK' BY <1>0, <2>2, <2>3, <2>4, GroupAdded
  <2>6. nextGroup \in GroupId BY <2>2 DEF AddGroup
  <2>7. k.op = "sweep" /\ k.stage = "next" /\ k.joining = FALSE BY <2>1 DEF NewCall
  <2>8. k \in GrpCall BY <2>1, <2>6, GrpAssumption DEF NewCall, GrpCall
  <2>9. RequestOK(k) BY <2>7, <2>8 DEF RequestOK
  <2>10. QED BY <1>0, <2>2, <2>5, <2>7, <2>9, BeginFrame DEF GrpInv
<1>2. ASSUME NEW u \in GrpUsers, NEW names \in SUBSET GrpNames, CompleteOAuthLogin(r, u, names) PROVE GrpInv'
  <2>1. PICK k : k = [NewCall EXCEPT !.user = u, !.stage = "ensure", !.names = names,
                   !.previous = managed[u], !.record = managed[u], !.base = GroupsOf(u)] OBVIOUS
  <2>2. BeginCall(r, k) /\ UNCHANGED grpStore BY <1>2, <2>1 DEF CompleteOAuthLogin
  <2>3. managed[u] \in SUBSET GroupId /\ GroupsOf(u) \in SUBSET GroupId BY <1>0 DEF CountsOK, GroupsOf
  <2>4. /\ k.op = "login" /\ k.user = u /\ k.stage = "ensure" /\ k.wanted = {} /\ k.joining = FALSE
        /\ k.base = GroupsOf(u)
    BY <2>1 DEF NewCall
  <2>5. k \in GrpCall BY <2>1, <2>3 DEF NewCall, GrpCall
  <2>6. RequestOK(k) BY <2>4, <2>5 DEF RequestOK
  <2>7. Tracked(k) BY <2>4 DEF Tracked, Before
  <2>8. QED BY <1>0, <2>2, <2>6, <2>7, BeginFrame, StoreStays DEF GrpInv
<1>3. ASSUME NEW u \in GrpUsers, NEW wanted \in SUBSET GroupId, SetUserGroups(r, u, wanted) PROVE GrpInv'
  <2>1. PICK k : k = [NewCall EXCEPT !.op = "groups", !.user = u, !.stage = "edit", !.base = GroupsOf(u),
                   !.wanted = wanted, !.previous = GroupsOf(u),
                   !.add = wanted \ GroupsOf(u), !.remove = GroupsOf(u) \ wanted] OBVIOUS
  <2>2. BeginCall(r, k) /\ UNCHANGED grpStore BY <1>3, <2>1 DEF SetUserGroups
  <2>3. GroupsOf(u) \in SUBSET GroupId BY DEF GroupsOf
  <2>4. k.user = u /\ k.stage = "edit" /\ k.op = "groups" /\ k.joining = FALSE BY <2>1 DEF NewCall
  <2>5. k \in GrpCall BY <2>1, <2>3 DEF NewCall, GrpCall
  <2>6. RequestOK(k) BY <2>4, <2>5 DEF RequestOK
  <2>7. QED BY <1>0, <2>2, <2>4, <2>6, BeginFrame, StoreStays DEF GrpInv
<1>4. QED BY <1>1, <1>2, <1>3
(* ---- steps of a request *)
LEMMA QuietStep ==
  ASSUME GrpInv, NEW r \in GrpRequests, grpCall[r] # Nil, NEW k, Becomes(r, k),
         UNCHANGED <<grpStore, mapped, grpCalls>>, managed' \in [GrpUsers -> SUBSET GroupId],
         NotLeader \/ UNCHANGED <<disturbed, grpFaults>>,
         k # Nil => RequestOK(k),
         k # Nil /\ k.op = "login" /\ r \notin disturbed /\ ~NotLeader => Tracked(k)
  PROVE  GrpInv'
<1>0. GroupsOK /\ CountsOK /\ RequestsOK /\ Alone /\ LoginsTracked BY DEF GrpInv
<1>1. CountsOK' BY <1>0, GrpAssumption DEF CountsOK, NotLeader, Running
<1>2. GroupsOK' /\ (Tracked(k) => Tracked(k)') BY <1>0, StoreStays
<1>3. disturbed \subseteq disturbed' /\ (NotLeader => r \in disturbed') BY DEF NotLeader, Running
<1>4. RequestsOK' /\ Alone' /\ LoginsTracked' BY <1>0, <1>2, <1>3, StepFrame DEF Becomes
<1>5. QED BY <1>1, <1>2, <1>4 DEF GrpInv

LEMMA SweepKeeps ==
  ASSUME GrpInv, NEW r \in GrpRequests, grpCall[r] # Nil, SweepUser(r) \/ SweepEnds(r)
  PROVE  GrpInv'
<1>0. RequestsOK /\ CountsOK /\ LoginsTracked BY DEF GrpInv
<1>1. UNCHANGED <<grpStore, managed, mapped, disturbed, grpCalls, grpFaults>> BY DEF SweepUser, SweepEnds
<1>2. PICK c : c = grpCall[r] OBVIOUS
<1>3. RequestOK(c) /\ c.stage = "next" BY <1>0, <1>2 DEF RequestsOK, SweepUser, SweepEnds
<1>4. managed' \in [GrpUsers -> SUBSET GroupId] BY <1>0, <1>1 DEF CountsOK
<1>5. c.op = "login" => r \in disturbed BY <1>0, <1>2, <1>3 DEF LoginsTracked, Tracked
<1>6. ASSUME SweepEnds(r) PROVE GrpInv' BY <1>1, <1>4, <1>6, QuietStep DEF SweepEnds
<1>7. ASSUME SweepUser(r) PROVE GrpInv'
  <2>1. PICK u \in c.sweep :
          Becomes(r, IF GroupsOf(u) # {} THEN [c EXCEPT !.sweep = @ \ {u}]
                     ELSE [c EXCEPT !.sweep = @ \ {u}, !.user = u, !.stage = "edit", !.add = c.wanted])
    BY <1>2, <1>7 DEF SweepUser
  <2>2. PICK k : k = IF GroupsOf(u) # {} THEN [c EXCEPT !.sweep = @ \ {u}]
                     ELSE [c EXCEPT !.sweep = @ \ {u}, !.user = u, !.stage = "edit", !.add = c.wanted]
    OBVIOUS
  <2>3. u \in GrpUsers BY <1>3 DEF RequestOK, GrpCall
  <2>4. k \in GrpCall /\ k.op = c.op /\ k.stage \in {"next", "edit"} /\ k.joining = c.joining
        /\ (k.stage # "next" => k.user = u)
    <3>1. CASE GroupsOf(u) # {}
      <4>1. k = [c EXCEPT !.sweep = @ \ {u}] BY <2>2, <3>1
      <4>2. QED BY <1>3, <4>1 DEF RequestOK, GrpCall
    <3>2. CASE GroupsOf(u) = {}
      <4>1. k = [c EXCEPT !.sweep = @ \ {u}, !.user = u, !.stage = "edit", !.add = c.wanted] BY <2>2, <3>2
      <4>2. QED BY <1>3, <2>3, <4>1 DEF RequestOK, GrpCall
    <3>3. QED BY <3>1, <3>2
  <2>5. RequestOK(k) BY <1>3, <2>3, <2>4 DEF RequestOK
  <2>6. Becomes(r, k) BY <2>1, <2>2
  <2>7. QED BY <1>1, <1>4, <1>5, <2>4, <2>5, <2>6, QuietStep
<1>8. QED BY <1>6, <1>7

(* What the steps before the plan leave of a call.                            *)
Kept(k, c) == /\ k \in GrpCall /\ k.op = c.op /\ k.user = c.user /\ k.base = c.base
              /\ k.previous = c.previous /\ k.joining = c.joining

LEMMA BeforeKept ==
  ASSUME NEW c, RequestOK(c), c.stage \in {"ensure", "create", "refetch"}, NEW k, Kept(k, c),
         k.stage \in {"ensure", "create", "refetch"}, k.stage # "ensure" => k.name \in ValidNames
  PROVE  /\ RequestOK(k)
         /\ Tracked(c) /\ k.wanted \subseteq Standing => Tracked(k)
<1>1. RequestOK(k) BY DEF RequestOK, Kept
<1>2. ASSUME Tracked(c), k.wanted \subseteq Standing PROVE Tracked(k)
  <2>1. Before(c) BY <1>2 DEF Tracked
  <2>2. Before(k) BY <1>2, <2>1 DEF Before, Kept
  <2>3. QED BY <2>2 DEF Tracked
<1>3. QED BY <1>1, <1>2

LEMMA EnsureKeeps ==
  ASSUME GrpInv, NEW r \in GrpRequests, grpCall[r] # Nil,
         EnsureGroupByName(r) \/ CreateConflict(r) \/ Refetch(r) \/ CreateFails(r)
  PROVE  GrpInv'
<1>0. RequestsOK /\ CountsOK /\ LoginsTracked BY DEF GrpInv
<1>1. /\ UNCHANGED <<grpStore, mapped, grpCalls>> /\ managed' = managed
      /\ NotLeader \/ UNCHANGED <<disturbed, grpFaults>>
  BY DEF EnsureGroupByName, CreateConflict, Refetch, CreateFails
<1>2. PICK c : c = grpCall[r] OBVIOUS
<1>3. RequestOK(c) /\ c \in GrpCall /\ c.stage \in {"ensure", "create", "refetch"}
  BY <1>0, <1>2 DEF RequestsOK, RequestOK, EnsureGroupByName, CreateConflict, Refetch, CreateFails
<1>4. managed' \in [GrpUsers -> SUBSET GroupId] BY <1>0, <1>1 DEF CountsOK
<1>5. c.op = "login" /\ r \notin disturbed => Tracked(c) /\ c.wanted \subseteq Standing
  BY <1>0, <1>2, <1>3 DEF LoginsTracked, Tracked, Before
<1>6. \A n \in GrpNames : ByName(n) \subseteq Standing /\ ByName(n) \subseteq GroupId
  BY GrpAssumption DEF ByName, Standing
<1>7. ASSUME NEW k, Becomes(r, k), Kept(k, c), k.stage \in {"ensure", "create", "refetch"},
             k.stage # "ensure" => k.name \in ValidNames, c.wanted \subseteq Standing => k.wanted \subseteq Standing
      PROVE  GrpInv'
  <2>1. RequestOK(k) /\ (Tracked(c) /\ k.wanted \subseteq Standing => Tracked(k)) BY <1>3, <1>7, BeforeKept
  <2>2. k.op = c.op BY <1>7 DEF Kept
  <2>3. QED BY <1>1, <1>4, <1>5, <1>7, <2>1, <2>2, QuietStep
<1>8. ASSUME EnsureGroupByName(r) PROVE GrpInv'
  <2>1. PICK n \in c.names : Becomes(r, IF ByName(n) = {} /\ n \in ValidNames
                    THEN [c EXCEPT !.names = @ \ {n}, !.name = n, !.stage = "create"]
                    ELSE [c EXCEPT !.names = @ \ {n}, !.wanted = @ \cup ByName(n)])
    BY <1>2, <1>8 DEF EnsureGroupByName
  <2>2. n \in GrpNames BY <1>3 DEF GrpCall
  <2>3. CASE ByName(n) = {} /\ n \in ValidNames
    <3>1. PICK k : k = [c EXCEPT !.names = @ \ {n}, !.name = n, !.stage = "create"] OBVIOUS
    <3>2. Kept(k, c) /\ k.stage = "create" /\ k.name = n /\ k.wanted = c.wanted
      BY <1>3, <2>2, <3>1 DEF Kept, GrpCall
    <3>3. Becomes(r, k) BY <2>1, <2>3, <3>1
    <3>4. QED BY <1>7, <2>3, <3>2, <3>3
  <2>4. CASE ~(ByName(n) = {} /\ n \in ValidNames)
    <3>1. PICK k : k = [c EXCEPT !.names = @ \ {n}, !.wanted = @ \cup ByName(n)] OBVIOUS
    <3>2. c.stage = "ensure" BY <1>2, <1>8 DEF EnsureGroupByName
    <3>3. ByName(n) \subseteq GroupId /\ ByName(n) \subseteq Standing BY <1>6, <2>2
    <3>4. Kept(k, c) /\ k.stage = "ensure" /\ k.wanted = c.wanted \cup ByName(n)
      BY <1>3, <3>1, <3>2, <3>3 DEF Kept, GrpCall
    <3>5. Becomes(r, k) BY <2>1, <2>4, <3>1
    <3>6. QED BY <1>7, <3>3, <3>4, <3>5
  <2>5. QED BY <2>3, <2>4
<1>9. ASSUME CreateConflict(r) PROVE GrpInv'
  <2>1. PICK k : k = [c EXCEPT !.stage = "refetch"] OBVIOUS
  <2>2. Kept(k, c) /\ k.stage = "refetch" /\ k.wanted = c.wanted /\ k.name = c.name
    BY <1>3, <2>1 DEF Kept, GrpCall
  <2>3. Becomes(r, k) /\ c.stage = "create" BY <1>2, <1>9, <2>1 DEF CreateConflict
  <2>4. c.name \in ValidNames BY <1>3, <2>3 DEF RequestOK
  <2>5. QED BY <1>7, <2>2, <2>3, <2>4
<1>10. ASSUME CreateFails(r) PROVE GrpInv'
  <2>1. PICK k : k = [c EXCEPT !.name = Nil, !.stage = "ensure"] OBVIOUS
  <2>2. Kept(k, c) /\ k.stage = "ensure" /\ k.wanted = c.wanted BY <1>3, <2>1 DEF Kept, GrpCall
  <2>3. Becomes(r, k) BY <1>2, <1>10, <2>1 DEF CreateFails
  <2>4. QED BY <1>7, <2>2, <2>3
<1>11. ASSUME Refetch(r) PROVE GrpInv'
  <2>1. PICK k : k = [c EXCEPT !.wanted = @ \cup ByName(c.name), !.name = Nil, !.stage = "ensure"] OBVIOUS
  <2>2. ByName(c.name) \subseteq GroupId BY DEF ByName
  <2>3. Kept(k, c) /\ k.stage = "ensure" /\ k.wanted = c.wanted \cup ByName(c.name)
    BY <1>3, <2>1, <2>2 DEF Kept, GrpCall
  <2>4. Becomes(r, k) BY <1>2, <1>11, <2>1 DEF Refetch
  <2>5. c.name \in GrpNames BY <1>2, <1>3, <1>11 DEF RequestOK, Refetch, ValidNames
  <2>6. QED BY <1>6, <1>7, <2>3, <2>4, <2>5
<1>12. QED BY <1>8, <1>9, <1>10, <1>11
LEMMA CreateKeeps ==
  ASSUME GrpInv, NEW r \in GrpRequests, grpCall[r] # Nil, CreateMappedGroup(r)
  PROVE  GrpInv'
<1>0. GroupsOK /\ RequestsOK /\ CountsOK /\ Alone /\ LoginsTracked BY DEF GrpInv
<1>1. PICK c : c = grpCall[r] OBVIOUS
<1>2. PICK k : k = [c EXCEPT !.wanted = @ \cup {nextGroup}, !.name = Nil, !.stage = "ensure"] OBVIOUS
<1>3. /\ c.stage = "create" /\ ByName(c.name) = {} /\ AddGroup(c.name) /\ Becomes(r, k)
      /\ UNCHANGED <<grpMembers, managed, mapped, disturbed, grpCalls, grpFaults>>
  BY <1>1, <1>2 DEF CreateMappedGroup
<1>4. RequestOK(c) /\ c \in GrpCall /\ c.name \in ValidNames BY <1>0, <1>1, <1>3 DEF RequestsOK, RequestOK
<1>5. /\ GroupsOK' /\ (\A u : GroupsOf(u)' = GroupsOf(u))
      /\ Standing \subseteq Standing' /\ nextGroup \in Standing' /\ nextGroup \in GroupId
  BY <1>0, <1>3, <1>4, GroupAdded
<1>6. Kept(k, c) /\ k.stage = "ensure" /\ k.wanted = c.wanted \cup {nextGroup}
  BY <1>2, <1>4, <1>5 DEF Kept, GrpCall
<1>7. RequestOK(k) BY <1>3, <1>4, <1>6 DEF RequestOK, Kept
<1>8. k.op = "login" /\ r \notin disturbed => Tracked(k)'
  <2> SUFFICES ASSUME k.op = "login", r \notin disturbed PROVE Tracked(k)' OBVIOUS
  <2>1. Before(c) BY <1>0, <1>1, <1>3, <1>6 DEF LoginsTracked, Tracked, Kept
  <2>2. Before(k)' BY <1>5, <1>6, <2>1 DEF Before, Kept
  <2>3. QED BY <1>6, <2>2 DEF Tracked
<1>9. CountsOK' BY <1>0, <1>3 DEF CountsOK
<1>10. RequestsOK' /\ Alone' /\ LoginsTracked' BY <1>0, <1>3, <1>7, <1>8, StepFrame DEF Becomes
<1>11. QED BY <1>5, <1>9, <1>10 DEF GrpInv

LEMMA PlanKeeps ==
  ASSUME GrpInv, NEW r \in GrpRequests, grpCall[r] # Nil, Reconcile(r)
  PROVE  GrpInv'
<1>0. RequestsOK /\ CountsOK /\ LoginsTracked BY DEF GrpInv
<1>1. PICK c : c = grpCall[r] OBVIOUS
<1>2. PICK k : k = [c EXCEPT !.stage = "edit", !.add = c.wanted \ c.previous, !.remove = c.previous \ c.wanted]
  OBVIOUS
<1>3. /\ c.stage = "ensure" /\ Becomes(r, k)
      /\ UNCHANGED <<grpStore, managed, mapped, disturbed, grpCalls, grpFaults>>
  BY <1>1, <1>2 DEF Reconcile, Plan
<1>4. RequestOK(c) /\ c \in GrpCall BY <1>0, <1>1 DEF RequestsOK, RequestOK
<1>5. /\ Kept(k, c) /\ k.stage = "edit" /\ k.wanted = c.wanted
      /\ k.add = c.wanted \ c.previous /\ k.remove = c.previous \ c.wanted
  BY <1>2, <1>4 DEF Kept, GrpCall
<1>6. RequestOK(k) BY <1>3, <1>4, <1>5 DEF RequestOK, Kept
<1>7. k.op = "login" /\ r \notin disturbed => Tracked(k)
  <2> SUFFICES ASSUME k.op = "login", r \notin disturbed PROVE Tracked(k) OBVIOUS
  <2>1. Before(c) BY <1>0, <1>1, <1>3, <1>5 DEF LoginsTracked, Tracked, Kept
  <2>2. Editing(k) /\ k.joining = FALSE BY <1>5, <2>1 DEF Before, Editing, Kept
  <2>3. QED BY <1>5, <2>2 DEF Tracked
<1>8. managed' \in [GrpUsers -> SUBSET GroupId] BY <1>0, <1>3 DEF CountsOK
<1>9. QED BY <1>3, <1>6, <1>7, <1>8, QuietStep

LEMMA ReadKeeps ==
  ASSUME GrpInv, NEW r \in GrpRequests, grpCall[r] # Nil, MemberIDsWithout(r)
  PROVE  GrpInv'
<1>0. GroupsOK /\ RequestsOK /\ CountsOK /\ LoginsTracked BY DEF GrpInv
<1>1. PICK c : c = grpCall[r] OBVIOUS
<1>2. /\ c.stage = "edit" /\ UNCHANGED <<grpStore, managed, mapped, disturbed, grpCalls, grpFaults>>
  BY <1>1 DEF MemberIDsWithout
<1>3. RequestOK(c) /\ c \in GrpCall BY <1>0, <1>1 DEF RequestsOK, RequestOK
<1>4. PICK g \in c.add \cup c.remove :
        Becomes(r, IF c.op = "sweep" /\ c.user \in grpMembers[g] THEN [c EXCEPT !.add = {}]
                   ELSE [c EXCEPT !.stage = "write", !.at = g, !.seen = grpMembers[g] \ {c.user}])
  BY <1>1 DEF MemberIDsWithout
<1>5. g \in GroupId BY <1>3 DEF GrpCall
<1>6. managed' \in [GrpUsers -> SUBSET GroupId] BY <1>0, <1>2 DEF CountsOK
<1>7. CASE c.op = "sweep" /\ c.user \in grpMembers[g]
  <2>1. PICK k : k = [c EXCEPT !.add = {}] OBVIOUS
  <2>2. Kept(k, c) /\ k.stage = "edit" /\ k.op = "sweep" BY <1>2, <1>3, <1>7, <2>1 DEF Kept, GrpCall
  <2>3. RequestOK(k) BY <1>2, <1>3, <2>2 DEF RequestOK, Kept
  <2>4. Becomes(r, k) BY <1>4, <1>7, <2>1
  <2>5. QED BY <1>2, <1>6, <2>2, <2>3, <2>4, QuietStep
<1>8. CASE ~(c.op = "sweep" /\ c.user \in grpMembers[g])
  <2>1. PICK X : X = grpMembers[g] \ {c.user} OBVIOUS
  <2>2. X \in SUBSET GrpUsers BY <1>0, <1>5, <2>1 DEF GroupsOK
  <2>3. PICK k : k = [c EXCEPT !.stage = "write", !.at = g, !.seen = X] OBVIOUS
  <2>4. /\ Kept(k, c) /\ k.stage = "write" /\ k.at = g /\ k.seen = X /\ k.add = c.add /\ k.remove = c.remove
        /\ k.wanted = c.wanted /\ k.record = c.record
    BY <1>3, <1>5, <2>2, <2>3 DEF Kept, GrpCall
  <2>5. RequestOK(k) BY <1>2, <1>3, <2>4 DEF RequestOK, Kept
  <2>6. Becomes(r, k) BY <1>4, <1>8, <2>1, <2>3
  <2>7. k.op = "login" /\ r \notin disturbed => Tracked(k)
    <3> SUFFICES ASSUME k.op = "login", r \notin disturbed PROVE Tracked(k) OBVIOUS
    <3>1. Tracked(c) BY <1>0, <1>1, <2>4 DEF LoginsTracked, Kept
    <3>2. k.joining = FALSE => Editing(k) BY <1>2, <2>4, <3>1 DEF Tracked, Editing, Kept
    <3>3. k.joining = TRUE => Joining(k) BY <1>2, <2>4, <3>1 DEF Tracked, Joining, Outcome, Kept
    <3>4. Writing(k) BY <2>1, <2>4 DEF Writing, Kept
    <3>5. QED BY <2>4, <3>2, <3>3, <3>4 DEF Tracked
  <2>8. QED BY <1>2, <1>6, <2>5, <2>6, <2>7, QuietStep
<1>9. QED BY <1>7, <1>8

(* What After leaves: nothing, the next user of a sweep, or a login that      *)
(* looks for the default group or has looked.                                 *)
Leaves(k, c, record) ==
    /\ k # Nil => RequestOK(k) /\ k.op = c.op
    /\ c.op = "login" => /\ Kept(k, c) /\ k.wanted = c.wanted
                         /\ c.joining = TRUE => k.stage = "update" /\ k.record = c.record
                         /\ c.joining = FALSE => k.stage = "fallback" /\ k.remove = {} /\ k.record = record

LEMMA AfterIs ==
  ASSUME NEW r, NEW c, c = grpCall[r], RequestOK(c), c.stage # "next", NEW record \in SUBSET GroupId
  PROVE  Leaves(After(r, record), c, record)
<1> DEFINE k == After(r, record)
<1> SUFFICES Leaves(k, c, record) OBVIOUS
<1>1. PICK d : d = [c EXCEPT !.at = 0, !.seen = {}, !.add = {}, !.remove = {}] OBVIOUS
<1> HIDE DEF k
<1>2. c \in GrpCall /\ c.user \in GrpUsers /\ c.op \in {"login", "groups", "sweep"} BY DEF RequestOK, GrpCall
<1>3. Kept(d, c) /\ d.wanted = c.wanted /\ d.record = c.record /\ d.remove = {} BY <1>1, <1>2 DEF Kept, GrpCall
<1>4. CASE c.op = "groups"
  <2>1. d.op = "groups" /\ d.joining = FALSE BY <1>3, <1>4 DEF Kept, RequestOK
  <2>2. k = Nil BY <1>1, <2>1 DEF After, k
  <2>3. QED BY <1>4, <2>2 DEF Leaves
<1>5. CASE c.op = "sweep"
  <2>1. d.op = "sweep" /\ d.joining = FALSE BY <1>3, <1>5 DEF Kept, RequestOK
  <2>2. k = [d EXCEPT !.user = Nil, !.stage = "next"] BY <1>1, <2>1 DEF After, k
  <2>3. k \in GrpCall /\ k.op = d.op /\ k.stage = "next" /\ k.joining = FALSE BY <1>3, <2>1, <2>2 DEF Kept, GrpCall
  <2>4. QED BY <1>5, <2>1, <2>3 DEF Leaves, RequestOK
<1>6. CASE c.op = "login"
  <2>1. d.op = "login" BY <1>3, <1>6 DEF Kept
  <2>2. d.joining = TRUE \/ d.joining = FALSE BY <1>3 DEF Kept, GrpCall
  <2>3. CASE d.joining = TRUE
    <3>1. k = [d EXCEPT !.stage = "update"] BY <1>1, <2>1, <2>3 DEF After, k
    <3>2. Kept(k, d) /\ k.stage = "update" /\ k.record = d.record /\ k.wanted = d.wanted
      BY <1>3, <3>1 DEF Kept, GrpCall
    <3>3. QED BY <1>2, <1>3, <1>6, <2>1, <2>3, <3>2 DEF Leaves, Kept, RequestOK
  <2>4. CASE d.joining = FALSE
    <3>1. k = [d EXCEPT !.stage = "fallback", !.record = record] BY <1>1, <2>1, <2>4 DEF After, k
    <3>2. Kept(k, d) /\ k.stage = "fallback" /\ k.remove = {} /\ k.record = record /\ k.wanted = d.wanted
      BY <1>3, <3>1 DEF Kept, GrpCall
    <3>3. QED BY <1>2, <1>3, <1>6, <2>1, <2>4, <3>2 DEF Leaves, Kept, RequestOK
  <2>5. QED BY <2>2, <2>3, <2>4
<1>7. QED BY <1>2, <1>4, <1>5, <1>6
LEMMA AfterKeeps ==
  ASSUME GrpInv, NEW r \in GrpRequests, grpCall[r] # Nil, EditsDone(r) \/ GroupGone(r) \/ EditFails(r)
  PROVE  GrpInv'
<1>0. RequestsOK /\ CountsOK /\ LoginsTracked BY DEF GrpInv
<1>1. /\ UNCHANGED <<grpStore, mapped, grpCalls>> /\ managed' = managed
      /\ NotLeader \/ UNCHANGED <<disturbed, grpFaults>>
  BY DEF EditsDone, GroupGone, EditFails
<1>2. PICK c : c = grpCall[r] OBVIOUS
<1>3. RequestOK(c) /\ c \in GrpCall /\ c.stage \in {"edit", "write"}
  BY <1>0, <1>2 DEF RequestsOK, RequestOK, EditsDone, GroupGone, EditFails
<1>4. managed' \in [GrpUsers -> SUBSET GroupId] BY <1>0, <1>1 DEF CountsOK
<1>5. c.joining = TRUE \/ c.joining = FALSE BY <1>3 DEF GrpCall
<1>6. c.op = "login" /\ r \notin disturbed => Tracked(c) BY <1>0, <1>2 DEF LoginsTracked
<1>7. c.wanted \in SUBSET GroupId /\ c.record \in SUBSET GroupId BY <1>3 DEF GrpCall
<1>8. ASSUME EditsDone(r) PROVE GrpInv'
  <2>1. PICK k : k = After(r, c.wanted) OBVIOUS
  <2>2. Becomes(r, k) /\ c.stage = "edit" /\ c.add = {} /\ c.remove = {} BY <1>2, <1>8, <2>1 DEF EditsDone
  <2>3. /\ k # Nil => RequestOK(k) /\ k.op = c.op
        /\ c.op = "login" => /\ Kept(k, c) /\ k.wanted = c.wanted
                             /\ c.joining = TRUE => k.stage = "update" /\ k.record = c.record
                             /\ c.joining = FALSE => k.stage = "fallback" /\ k.remove = {} /\ k.record = c.wanted
    <3>1. c.stage # "next" BY <1>3
    <3>2. Leaves(k, c, c.wanted) BY <1>2, <1>3, <1>7, <2>1, <3>1, AfterIs
    <3>3. QED BY <3>2 DEF Leaves
  <2>4. ASSUME c.op = "login", r \notin disturbed PROVE Tracked(k)
    <3>1. CASE c.joining = TRUE
      <4>1. Joining(c) BY <1>6, <2>2, <2>4, <3>1 DEF Tracked
      <4>2. Outcome(k) = Outcome(c) /\ k.user = c.user /\ k.previous = c.previous /\ k.wanted = c.wanted
            /\ k.record = c.record
        BY <2>3, <2>4, <3>1 DEF Outcome, Kept
      <4>3. Ended(k) BY <2>2, <4>1, <4>2 DEF Joining, Ended, Reconciled, Outcome
      <4>4. QED BY <2>3, <2>4, <3>1, <4>3 DEF Tracked
    <3>2. CASE c.joining = FALSE
      <4>1. Editing(c) BY <1>6, <2>2, <2>4, <3>2 DEF Tracked
      <4>2. GroupsOf(c.user) = Outcome(c) BY <2>2, <4>1 DEF Editing, Outcome
      <4>3. Edited(k) BY <2>3, <2>4, <3>2, <4>2 DEF Edited, Outcome, Kept
      <4>4. QED BY <2>3, <2>4, <3>2, <4>3 DEF Tracked, Kept
    <3>3. QED BY <1>5, <3>1, <3>2
  <2>5. QED BY <1>1, <1>4, <2>2, <2>3, <2>4, QuietStep
<1>9. ASSUME GroupGone(r) \/ EditFails(r) PROVE GrpInv'
  <2>1. PICK k : k = After(r, c.record) OBVIOUS
  <2>2. Becomes(r, k) /\ c.stage = "write" BY <1>2, <1>9, <2>1 DEF GroupGone, EditFails
  <2>3. /\ k # Nil => RequestOK(k) /\ k.op = c.op
        /\ c.op = "login" => /\ Kept(k, c) /\ k.wanted = c.wanted
                             /\ c.joining = TRUE => k.stage = "update" /\ k.record = c.record
                             /\ c.joining = FALSE => k.stage = "fallback" /\ k.remove = {} /\ k.record = c.record
    <3>1. c.stage # "next" BY <1>3
    <3>2. Leaves(k, c, c.record) BY <1>2, <1>3, <1>7, <2>1, <3>1, AfterIs
    <3>3. QED BY <3>2 DEF Leaves
  <2>4. ASSUME c.op = "login", r \notin disturbed, ~NotLeader PROVE Tracked(k)
    <3>1. c.at \notin Standing BY <1>2, <1>9, <2>4 DEF GroupGone, EditFails
    <3>2. Writing(c) BY <1>6, <2>2, <2>4 DEF Tracked
    <3>3. CASE c.joining = TRUE
      <4>1. Joining(c) BY <1>6, <2>2, <2>4, <3>3 DEF Tracked
      <4>2. ByName(DefaultGroup) \subseteq Standing BY GrpAssumption DEF ByName, Standing
      <4>3. QED BY <3>1, <3>2, <4>1, <4>2 DEF Joining, Writing
    <3>4. CASE c.joining = FALSE
      <4>1. Editing(c) BY <1>6, <2>2, <2>4, <3>4 DEF Tracked
      <4>2. ~(c.previous \subseteq Standing) BY <3>1, <3>2, <4>1 DEF Editing, Writing
      <4>3. Edited(k) BY <2>3, <2>4, <4>2 DEF Edited, Kept
      <4>4. QED BY <2>3, <2>4, <3>4, <4>3 DEF Tracked, Kept
    <3>5. QED BY <1>5, <3>3, <3>4
  <2>5. QED BY <1>1, <1>4, <2>2, <2>3, <2>4, QuietStep
<1>10. QED BY <1>8, <1>9

LEMMA JoinKeeps ==
  ASSUME GrpInv, NEW r \in GrpRequests, grpCall[r] # Nil, JoinGroupByName(r)
  PROVE  GrpInv'
<1>0. RequestsOK /\ CountsOK /\ LoginsTracked BY DEF GrpInv
<1>1. PICK c : c = grpCall[r] OBVIOUS
<1>2. c.stage = "fallback" /\ UNCHANGED <<grpStore, managed, mapped, disturbed, grpCalls, grpFaults>>
  BY <1>1 DEF JoinGroupByName
<1>3. RequestOK(c) /\ c \in GrpCall /\ c.op = "login" BY <1>0, <1>1, <1>2 DEF RequestsOK, RequestOK
<1>4. managed' \in [GrpUsers -> SUBSET GroupId] BY <1>0, <1>2 DEF CountsOK
<1>5. r \notin disturbed => c.joining = FALSE /\ c.remove = {} /\ Edited(c)
  BY <1>0, <1>1, <1>2, <1>3 DEF LoginsTracked, Tracked
<1>6. CASE GroupsOf(c.user) # {} \/ ByName(DefaultGroup) = {}
  <2>1. PICK k : k = [c EXCEPT !.stage = "update"] OBVIOUS
  <2>2. Becomes(r, k) BY <1>1, <1>6, <2>1 DEF JoinGroupByName
  <2>3. Kept(k, c) /\ k.stage = "update" /\ k.wanted = c.wanted /\ k.record = c.record
    BY <1>3, <2>1 DEF Kept, GrpCall
  <2>4. RequestOK(k) BY <1>2, <1>3, <2>3 DEF RequestOK, Kept
  <2>5. Edited(c) => Ended(k) BY <1>6, <2>3 DEF Edited, Ended, Outcome, Reconciled, Kept
  <2>6. r \notin disturbed => Tracked(k) BY <1>5, <2>3, <2>5 DEF Tracked
  <2>7. QED BY <1>2, <1>4, <2>2, <2>4, <2>6, QuietStep
<1>7. CASE ~(GroupsOf(c.user) # {} \/ ByName(DefaultGroup) = {})
  <2>1. PICK D : D = ByName(DefaultGroup) OBVIOUS
  <2>2. D \subseteq GroupId BY <2>1 DEF ByName
  <2>4. PICK k : k = [c EXCEPT !.stage = "edit", !.joining = TRUE, !.add = D] OBVIOUS
  <2>5. Becomes(r, k) BY <1>1, <1>7, <2>1, <2>4 DEF JoinGroupByName
  <2>6. /\ k.op = c.op /\ k.user = c.user /\ k.base = c.base /\ k.previous = c.previous /\ k.stage = "edit"
        /\ k.wanted = c.wanted /\ k.record = c.record /\ k.add = D /\ k.remove = c.remove
    BY <1>3, <2>4 DEF GrpCall
  <2>7. k \in GrpCall BY <1>3, <2>2, <2>4 DEF GrpCall
  <2>8. k.joining = TRUE BY <1>3, <2>4 DEF GrpCall
  <2>9. RequestOK(k) BY <1>2, <1>3, <2>6, <2>7 DEF RequestOK
  <2>10. r \notin disturbed => Tracked(k)
    <3> SUFFICES ASSUME r \notin disturbed PROVE Tracked(k) OBVIOUS
    <3>1. Joining(k) BY <1>5, <1>7, <2>1, <2>6 DEF Edited, Joining, Outcome
    <3>2. QED BY <2>6, <2>8, <3>1 DEF Tracked
  <2>11. QED BY <1>2, <1>4, <2>5, <2>9, <2>10, QuietStep
<1>8. QED BY <1>6, <1>7

LEMMA PersistKeeps ==
  ASSUME GrpInv, NEW r \in GrpRequests, grpCall[r] # Nil, PersistUser(r) \/ PersistFails(r)
  PROVE  GrpInv'
<1>0. RequestsOK /\ CountsOK BY DEF GrpInv
<1>1. PICK c : c = grpCall[r] OBVIOUS
<1>2. c \in GrpCall /\ c.user \in GrpUsers BY <1>0, <1>1 DEF RequestsOK, RequestOK, PersistUser, PersistFails
<1>3. c.record \in SUBSET GroupId BY <1>2 DEF GrpCall
<1>4. managed' \in [GrpUsers -> SUBSET GroupId]
  BY <1>0, <1>1, <1>2, <1>3 DEF CountsOK, PersistUser, PersistFails
<1>5. Becomes(r, Nil) /\ UNCHANGED <<grpStore, mapped, grpCalls>>
      /\ (NotLeader \/ UNCHANGED <<disturbed, grpFaults>>)
  BY DEF PersistUser, PersistFails
<1>6. QED BY <1>4, <1>5, QuietStep
LEMMA WriteKeeps ==
  ASSUME GrpInv, NEW r \in GrpRequests, grpCall[r] # Nil, WriteMembers(r)
  PROVE  GrpInv'
<1>0. GroupsOK /\ RequestsOK /\ CountsOK /\ Alone /\ LoginsTracked BY DEF GrpInv
<1>1. PICK c : c = grpCall[r] OBVIOUS
<1>2. PICK members : members = IF c.at \in c.add THEN c.seen \cup {c.user} ELSE c.seen OBVIOUS
<1>3. PICK k : k = [c EXCEPT !.stage = "edit", !.at = 0, !.seen = {}, !.add = @ \ {c.at}, !.remove = @ \ {c.at}]
  OBVIOUS
<1>4. /\ c.stage = "write" /\ c.at \in Standing /\ grpMembers' = [grpMembers EXCEPT ![c.at] = members]
      /\ Becomes(r, k)
      /\ UNCHANGED <<groupName, nextGroup, managed, disturbed, grpCalls, grpFaults>>
  BY <1>1, <1>2, <1>3 DEF WriteMembers
<1>5. RequestOK(c) /\ c \in GrpCall /\ c.user \in GrpUsers BY <1>0, <1>1, <1>4 DEF RequestsOK, RequestOK
<1>6. c.at \in GroupId /\ groupName[c.at] # Nil BY <1>4 DEF Standing
<1>7. members \subseteq GrpUsers BY <1>2, <1>5 DEF GrpCall
<1>8. GroupsOK' BY <1>0, <1>4, <1>6, <1>7 DEF GroupsOK
<1>9. mapped' \in [GrpUsers -> SUBSET GroupId]
  <2>1. PICK ok \in BOOLEAN : ok = (/\ c.at \in c.add /\ c.op = "login" /\ ~c.joining
                                    /\ (c.user \in grpMembers[c.at] => c.at \in mapped[c.user]))
    OBVIOUS
  <2>2. mapped' = [u \in GrpUsers |-> IF u = c.user /\ ok THEN mapped[u] \cup {c.at}
                                      ELSE IF u = c.user \/ u \notin members
                                           THEN mapped[u] \ {c.at} ELSE mapped[u]]
    BY <1>1, <1>2, <2>1 DEF WriteMembers
  <2>3. QED BY <1>0, <1>6, <2>2 DEF CountsOK
<1>10. CountsOK' BY <1>0, <1>4, <1>9 DEF CountsOK
<1>11. /\ Kept(k, c) /\ k.stage = "edit" /\ k.add = c.add \ {c.at} /\ k.remove = c.remove \ {c.at}
       /\ k.wanted = c.wanted /\ k.record = c.record
  BY <1>3, <1>5 DEF Kept, GrpCall
<1>12. RequestOK(k) BY <1>4, <1>5, <1>11 DEF RequestOK, Kept
<1>13. Standing' = Standing /\ \A n : ByName(n)' = ByName(n) BY <1>4 DEF Standing, ByName
<1>14. k.op = "login" /\ r \notin disturbed => Tracked(k)'
  <2> SUFFICES ASSUME k.op = "login", r \notin disturbed PROVE Tracked(k)' OBVIOUS
  <2>1. Tracked(c) BY <1>0, <1>1, <1>11 DEF LoginsTracked, Kept
  <2>2. c.at \in c.add \cup c.remove /\ c.seen = grpMembers[c.at] \ {c.user}
    BY <1>4, <2>1 DEF Tracked, Writing
  <2>3. \A g \in GroupId : grpMembers'[g] = IF g = c.at THEN members ELSE grpMembers[g]
    BY <1>0, <1>4 DEF GroupsOK
  <2>4. c.at \in c.add => GroupsOf(c.user)' = GroupsOf(c.user) \cup {c.at}
    BY <1>2, <1>6, <2>3 DEF GroupsOf
  <2>5. c.at \notin c.add => GroupsOf(c.user)' = GroupsOf(c.user) \ {c.at}
    BY <1>2, <1>6, <2>2, <2>3 DEF GroupsOf
  <2>6. ASSUME k.joining = FALSE PROVE Editing(k)'
    <3>1. Editing(c) BY <1>4, <1>11, <2>1, <2>6 DEF Tracked, Kept
    <3>2. PICK G : G = GroupsOf(c.user) OBVIOUS
    <3>3. PICK H : H = GroupsOf(c.user)' OBVIOUS
    <3>4. /\ c.add \subseteq c.wanted \ c.previous /\ c.remove \subseteq c.previous \ c.wanted
          /\ G = (c.base \cup ((c.wanted \ c.previous) \ c.add)) \ ((c.previous \ c.wanted) \ c.remove)
      BY <3>1, <3>2 DEF Editing
    <3>5. H = (c.base \cup ((c.wanted \ c.previous) \ k.add)) \ ((c.previous \ c.wanted) \ k.remove)
      <4>1. CASE c.at \in c.add
        <5>1. H = G \cup {c.at} BY <2>4, <3>2, <3>3, <4>1
        <5>2. QED BY <1>11, <3>4, <4>1, <5>1
      <4>2. CASE c.at \notin c.add
        <5>1. H = G \ {c.at} BY <2>5, <3>2, <3>3, <4>2
        <5>2. QED BY <1>11, <2>2, <3>4, <4>2, <5>1
      <4>3. QED BY <4>1, <4>2
    <3>6. /\ k.wanted \subseteq Standing' /\ k.add \subseteq k.wanted \ k.previous
          /\ k.remove \subseteq k.previous \ k.wanted
      BY <1>11, <1>13, <3>1, <3>4 DEF Editing, Kept
    <3>7. GroupsOf(k.user)' = H /\ k.base = c.base /\ k.wanted = c.wanted /\ k.previous = c.previous
      BY <1>11, <3>3 DEF Kept
    <3>8. QED BY <3>5, <3>6, <3>7 DEF Editing
  <2>7. ASSUME k.joining = TRUE PROVE Joining(k)'
    <3>1. Joining(c) BY <1>4, <1>11, <2>1, <2>7 DEF Tracked, Kept
    <3>2. c.at \in c.add /\ c.add \subseteq ByName(DefaultGroup) /\ c.remove = {} BY <2>2, <3>1 DEF Joining
    <3>3. Outcome(k) = Outcome(c) /\ k.user = c.user /\ k.previous = c.previous BY <1>11 DEF Outcome, Kept
    <3>4. c.previous \subseteq Standing => GroupsOf(c.user)' = ByName(DefaultGroup) \ k.add
      BY <1>11, <2>4, <3>1, <3>2 DEF Joining
    <3>5. QED BY <1>11, <1>13, <3>1, <3>2, <3>3, <3>4 DEF Joining, Outcome
  <2>8. QED BY <1>11, <2>6, <2>7 DEF Tracked
<1>15. RequestsOK' /\ Alone' /\ LoginsTracked' BY <1>0, <1>4, <1>12, <1>14, StepFrame DEF Becomes
<1>16. QED BY <1>8, <1>10, <1>15 DEF GrpInv

LEMMA GrpNextInv == GrpInv /\ [GrpNext]_grpVars => GrpInv'
<1> SUFFICES ASSUME GrpInv, [GrpNext]_grpVars PROVE GrpInv' OBVIOUS
<1>1. CASE UNCHANGED grpVars
  <2>1. UNCHANGED grpStore /\ UNCHANGED <<managed, mapped, grpCall, disturbed, grpCalls, grpFaults>>
    BY <1>1 DEF grpVars, grpStore
  <2>2. GroupsOK' /\ \A c : Tracked(c) => Tracked(c)' BY <2>1, StoreStays DEF GrpInv
  <2>3. CountsOK' /\ RequestsOK' /\ Alone' BY <2>1 DEF GrpInv, CountsOK, RequestsOK, Alone
  <2>4. LoginsTracked'
    <3> SUFFICES ASSUME NEW r \in GrpRequests, grpCall'[r] # Nil, r \notin disturbed', grpCall'[r].op = "login"
                 PROVE  Tracked(grpCall[r])'
      BY DEF LoginsTracked
    <3>1. PICK c : c = grpCall[r] OBVIOUS
    <3>2. Tracked(c) BY <2>1, <3>1 DEF GrpInv, LoginsTracked
    <3>3. Tracked(c)' /\ grpCall'[r] = c BY <2>1, <2>2, <3>1, <3>2
    <3>4. QED BY <3>3 DEF Tracked, Before, Editing, Writing, Edited, Joining, Ended, Outcome, Reconciled
  <2>5. QED BY <2>2, <2>3, <2>4 DEF GrpInv
<1>2. ASSUME NEW r \in GrpRequests, GrpStep(r) PROVE GrpInv'
  BY <1>2, SweepKeeps, EnsureKeeps, CreateKeeps, PlanKeeps, ReadKeeps, WriteKeeps, AfterKeeps, JoinKeeps, PersistKeeps
  DEF GrpStep
<1>3. QED BY <1>1, <1>2, EditsKeep, BeginKeeps DEF GrpNext

(* The inductive invariant of the memberships.                                *)
THEOREM GrpInductive == GrpSpec => []GrpInv
BY GrpInitInv, GrpNextInv, PTL DEF GrpSpec

(* Names stay unique, a group that is gone has no members, and plans name     *)
(* only users and groups there are, however calls overlap and fail.           *)
THEOREM GrpTypeHolds == GrpSpec => []GrpTypeOK
<1>1. ASSUME GrpInv, NEW n \in GrpNames PROVE Cardinality(ByName(n)) <= 1
  <2>1. n # Nil BY GrpAssumption
  <2>2. \A g, h \in ByName(n) : g = h BY <1>1, <2>1 DEF GrpInv, GroupsOK, ByName
  <2>3. CASE ByName(n) = {} BY <2>3, FS_EmptySet
  <2>4. CASE ByName(n) # {}
    <3>1. PICK g : g \in ByName(n) BY <2>4
    <3>2. ByName(n) = {g} BY <2>2, <3>1
    <3>3. Cardinality({g}) = 1 BY FS_Singleton, Zenon
    <3>4. QED BY <3>2, <3>3
  <2>5. QED BY <2>3, <2>4
<1>2. GrpInv => GrpTypeOK
  BY <1>1 DEF GrpInv, GrpTypeOK, GroupsOK, CountsOK, RequestsOK, Standing
<1>3. QED BY <1>2, GrpInductive, PTL

(* For any users, groups and requests: a login that nothing disturbs leaves   *)
(* its user in exactly the groups reconcileMemberships' rules give, whatever  *)
(* came before it.                                                           *)
THEOREM LoginsReconcile == GrpSpec => []LoginReconciles
<1>1. GrpInv => LoginReconciles
  BY DEF GrpInv, LoginsTracked, LoginReconciles, LoggedIn, Tracked, Ended
<1>2. QED BY <1>1, GrpInductive, PTL

(* ----------------------------------------------------------- Attribution -- *)

(* Numbers of projects are not used twice.                                   *)
ProjectsFresh == \A i \in ProjectId : i >= nextProject => project[i] = Nil

(* What a batch holds at each stage, while nobody edits: a batch that lost    *)
(* the race to create finds the winner's project, one that assigns has the   *)
(* project of its repository and a group resolved for it.                    *)
CallOK(k) ==
    /\ k.by = "ingest" /\ k.trace \in AttrTraces
    /\ k.stage \in {"lookup", "create", "refetch", "resolve"} => k.group = NoGroup
    /\ k.stage = "refetch" => Named(k.repo) # {}
    /\ k.stage \in {"resolve", "get", "require", "update"} => k.id \in Named(k.repo)
    /\ k.stage \in {"get", "require", "update"} => k.group \in Resolved(k.repo)
    /\ k.stage = "write" => Attributed(k)

CallsOK == \A c \in AttrCalls : attrCall[c] # Nil => CallOK(attrCall[c])

ProjectsOK == \A i \in ProjectId : project[i] # Nil => project[i].group = NoGroup \/ Attributed(project[i])

RowsOK == \A t \in AttrTraces : traceRow[t] # Nil => Attributed(traceRow[t])

(* A trace's row and its batches name one repository.                        *)
OneRepo ==
    \A c \in AttrCalls : attrCall[c] # Nil =>
        /\ traceRow[attrCall[c].trace] # Nil => traceRow[attrCall[c].trace].repo = attrCall[c].repo
        /\ \A d \in AttrCalls : attrCall[d] # Nil /\ attrCall[d].trace = attrCall[c].trace
                                  => attrCall[d].repo = attrCall[c].repo

Steady == standing = AttrGroupIds /\ CallsOK /\ ProjectsOK /\ RowsOK /\ OneRepo

AttrInv == AttrTypeOK /\ ProjectsFresh /\ (attrEvents = 0 => Steady)

LEMMA AttrInitInv == AttrInit => AttrInv
<1> SUFFICES ASSUME AttrInit PROVE AttrInv OBVIOUS
<1> USE AttrAssumption DEF AttrInit
<1>1. AttrTypeOK
  <2>1. standing \subseteq AttrGroupIds /\ nextProject \in 1 .. MaxProjects + 1 /\ attrEvents \in 0 .. MaxAttrEvents
    OBVIOUS
  <2>2. project \in [ProjectId -> AttrRow \cup {Nil}] /\ traceRow \in [AttrTraces -> AttrRow \cup {Nil}]
    OBVIOUS
  <2>3. attrCall \in [AttrCalls -> AttrCallRecord \cup {Nil}] OBVIOUS
  <2>4. \A i \in ProjectId : project[i] = Nil OBVIOUS
  <2>5. QED BY <2>1, <2>2, <2>3, <2>4 DEF AttrTypeOK
<1>2. ProjectsFresh BY DEF ProjectsFresh
<1>3. Steady BY DEF Steady, CallsOK, ProjectsOK, RowsOK, OneRepo
<1>4. QED BY <1>1, <1>2, <1>3 DEF AttrInv

(* What a batch holds stays true while groups stand and projects keep their   *)
(* names.                                                                    *)
LEMMA CallOKStays ==
    ASSUME NEW k, CallOK(k), UNCHANGED standing,
           \A i \in ProjectId : project[i] # Nil => project'[i] # Nil /\ project'[i].repo = project[i].repo
    PROVE  CallOK(k)'
<1>1. \A repo : Named(repo) \subseteq Named(repo)' BY DEF Named
<1>2. \A repo : Resolved(repo)' = Resolved(repo) BY DEF Resolved
<1>3. QED BY <1>1, <1>2 DEF CallOK, Attributed

LEMMA AttributedStays ==
    ASSUME NEW k, UNCHANGED standing
    PROVE  Attributed(k)' <=> Attributed(k)
BY DEF Attributed, Resolved

(* A step of one batch that writes no row and no project.                    *)
LEMMA ReadStep ==
    ASSUME AttrInv, NEW c \in AttrCalls, attrCall[c] # Nil,
           NEW k \in AttrCallRecord \cup {Nil}, Goes(c, k),
           UNCHANGED <<standing, project, nextProject, traceRow>>,
           attrEvents' \in 0 .. MaxAttrEvents, attrEvents' = 0 => attrEvents = 0,
           attrEvents = 0 /\ k # Nil => /\ CallOK(k)
                                        /\ k.trace = attrCall[c].trace /\ k.repo = attrCall[c].repo
    PROVE  AttrInv'
<1>1. attrCall \in [AttrCalls -> AttrCallRecord \cup {Nil}] BY DEF AttrInv, AttrTypeOK
<1>2. attrCall' = [attrCall EXCEPT ![c] = k] BY DEF Goes
<1>3. \A d \in AttrCalls : attrCall'[d] = IF d = c THEN k ELSE attrCall[d] BY <1>1, <1>2
<1>4. attrCall' \in [AttrCalls -> AttrCallRecord \cup {Nil}] BY <1>1, <1>2
<1>5. AttrTypeOK' BY <1>4 DEF AttrInv, AttrTypeOK
<1>6. ProjectsFresh' BY DEF AttrInv, ProjectsFresh
<1>7. ASSUME attrEvents' = 0 PROVE Steady'
  <2>1. Steady /\ attrEvents = 0 BY <1>7 DEF AttrInv
  <2>2. CallsOK'
    <3>1. \A d \in AttrCalls : attrCall'[d] # Nil => CallOK(attrCall'[d])
      BY <1>3, <2>1 DEF Steady, CallsOK
    <3>2. \A x \in AttrCallRecord : CallOK(x) => CallOK(x)' BY CallOKStays
    <3>3. \A d \in AttrCalls : attrCall'[d] # Nil => attrCall'[d] \in AttrCallRecord BY <1>4
    <3>4. QED BY <3>1, <3>2, <3>3 DEF CallsOK, CallOK, Attributed, Resolved, Named
  <2>3. ProjectsOK' /\ RowsOK' BY <2>1 DEF Steady, ProjectsOK, RowsOK, Attributed, Resolved
  <2>4. OneRepo' BY <1>3, <2>1 DEF Steady, OneRepo
  <2>5. QED BY <2>1, <2>2, <2>3, <2>4 DEF Steady
<1>8. QED BY <1>5, <1>6, <1>7 DEF AttrInv
(* ------------------------------------------------------------ batches -- *)

LEMMA CallTyped ==
    ASSUME AttrInv, NEW c \in AttrCalls, attrCall[c] # Nil
    PROVE  /\ attrCall[c] \in AttrCallRecord
           /\ attrCall \in [AttrCalls -> AttrCallRecord \cup {Nil}]
           /\ project \in [ProjectId -> AttrRow \cup {Nil}]
           /\ attrEvents = 0 => CallOK(attrCall[c]) /\ ProjectsOK
BY DEF AttrInv, AttrTypeOK, Steady, CallsOK

LEMMA FoundKeeps ==
    ASSUME AttrInv, NEW c \in AttrCalls, attrCall[c] # Nil,
           attrCall[c].stage \in {"lookup", "refetch"},
           NEW i \in Named(attrCall[c].repo), Goes(c, Found(attrCall[c], i)),
           UNCHANGED <<standing, project, nextProject, traceRow, attrEvents>>
    PROVE  AttrInv'
<1> DEFINE k == Found(attrCall[c], i)
           stage == IF project[i].group # NoGroup THEN "write" ELSE "resolve"
<1>1. /\ attrCall[c] \in AttrCallRecord /\ project \in [ProjectId -> AttrRow \cup {Nil}]
      /\ attrEvents = 0 => CallOK(attrCall[c]) /\ ProjectsOK
  BY CallTyped
<1>2. i \in ProjectId /\ project[i] \in AttrRow /\ project[i] # Nil /\ project[i].repo = attrCall[c].repo
  BY <1>1 DEF Named
<1>3. stage \in {"write", "resolve"} /\ (stage = "resolve" => project[i].group = NoGroup)
        /\ (stage = "write" => project[i].group # NoGroup)
  OBVIOUS
<1>4. k = [attrCall[c] EXCEPT !.id = i, !.group = project[i].group, !.stage = stage] BY DEF Found
<1> HIDE DEF k, stage
<1>5. k \in AttrCallRecord BY <1>1, <1>2, <1>3, <1>4 DEF AttrCallRecord, AttrRow
<1>6. /\ k.id = i /\ k.group = project[i].group /\ k.stage = stage /\ k.repo = attrCall[c].repo
      /\ k.trace = attrCall[c].trace /\ k.by = attrCall[c].by
  BY <1>1, <1>4 DEF AttrCallRecord
<1>7. attrEvents = 0 => CallOK(k)
  <2> SUFFICES ASSUME attrEvents = 0 PROVE CallOK(k) OBVIOUS
  <2>1. stage = "write" => Attributed(k) BY <1>1, <1>2, <1>3, <1>6 DEF ProjectsOK, Attributed
  <2>2. QED BY <1>1, <1>3, <1>6, <2>1 DEF CallOK
<1>8. Goes(c, k) BY DEF k
<1>9. QED BY <1>5, <1>6, <1>7, <1>8, ReadStep DEF AttrInv, AttrTypeOK

(* The steps of a batch that only move it on.                                *)
LEMMA MoveKeeps ==
    ASSUME AttrInv, NEW c \in AttrCalls, attrCall[c] # Nil,
           NEW stage \in {"create", "refetch", "write", "require", "update", "get"},
           NEW g \in Group, Goes(c, [attrCall[c] EXCEPT !.group = g, !.stage = stage]),
           UNCHANGED <<standing, project, nextProject, traceRow>>,
           attrEvents' \in 0 .. MaxAttrEvents, attrEvents' = 0 => attrEvents = 0,
           attrEvents = 0 =>
               /\ stage \in {"create", "refetch"} => g = NoGroup
               /\ stage = "refetch" => Named(attrCall[c].repo) # {}
               /\ stage \in {"get", "require", "update"} => /\ attrCall[c].id \in Named(attrCall[c].repo)
                                                             /\ g \in Resolved(attrCall[c].repo)
               /\ stage = "write" => IF Resolved(attrCall[c].repo) = {} THEN g = NoGroup
                                     ELSE g \in Resolved(attrCall[c].repo)
    PROVE  AttrInv'
<1> DEFINE k == [attrCall[c] EXCEPT !.group = g, !.stage = stage]
<1>1. attrCall[c] \in AttrCallRecord /\ (attrEvents = 0 => CallOK(attrCall[c])) BY CallTyped
<1>2. k \in AttrCallRecord BY <1>1 DEF AttrCallRecord
<1>3. /\ k.id = attrCall[c].id /\ k.group = g /\ k.stage = stage /\ k.repo = attrCall[c].repo
      /\ k.trace = attrCall[c].trace /\ k.by = attrCall[c].by
  BY <1>1 DEF AttrCallRecord
<1>4. Goes(c, k) OBVIOUS
<1> HIDE DEF k
<1>5. attrEvents = 0 => CallOK(k) BY <1>1, <1>3 DEF CallOK, Attributed
<1>6. QED BY <1>2, <1>3, <1>4, <1>5, ReadStep

LEMMA SameGroup ==
    ASSUME AttrInv, NEW c \in AttrCalls, attrCall[c] # Nil, NEW stage
    PROVE  /\ attrCall[c].group \in Group
           /\ [attrCall[c] EXCEPT !.stage = stage] =
                [attrCall[c] EXCEPT !.group = attrCall[c].group, !.stage = stage]
BY CallTyped DEF AttrCallRecord

(* An ingestion goes on after Assign, an administrator's call ends.          *)
LEMMA AssignedKeeps ==
    ASSUME AttrInv, NEW c \in AttrCalls, attrCall[c] # Nil, Goes(c, Assigned(attrCall[c])),
           attrCall[c].stage \in {"get", "require", "update"},
           UNCHANGED <<standing, project, nextProject, traceRow>>,
           attrEvents' \in 0 .. MaxAttrEvents, attrEvents' = 0 => attrEvents = 0
    PROVE  AttrInv'
<1>1. attrCall[c] \in AttrCallRecord /\ (attrEvents = 0 => CallOK(attrCall[c])) BY CallTyped
<1>2. CASE attrCall[c].by = "admin"
  <2>1. Goes(c, Nil) BY <1>2 DEF Assigned
  <2>2. QED BY <2>1, ReadStep
<1>3. CASE attrCall[c].by # "admin"
  <2>1. Assigned(attrCall[c]) = [attrCall[c] EXCEPT !.group = attrCall[c].group, !.stage = "write"]
    BY <1>3, SameGroup DEF Assigned
  <2>2. attrEvents = 0 => attrCall[c].group \in Resolved(attrCall[c].repo) BY <1>1 DEF CallOK
  <2>3. Goes(c, [attrCall[c] EXCEPT !.group = attrCall[c].group, !.stage = "write"]) BY <2>1
  <2>4. attrCall[c].group \in Group BY SameGroup
  <2>5. QED BY <2>2, <2>3, <2>4, MoveKeeps
<1>4. QED BY <1>2, <1>3

LEMMA EventCounts ==
    ASSUME AttrInv, Event
    PROVE  attrEvents' \in 0 .. MaxAttrEvents /\ attrEvents' # 0
BY AttrAssumption DEF AttrInv, AttrTypeOK, Event

LEMMA ReadsKeep ==
    ASSUME AttrInv, NEW c \in AttrCalls, attrCall[c] # Nil,
           \/ GetProjectByName(c) \/ CreateCollides(c) \/ GetAgain(c)
           \/ ResolveGroup(c) \/ AssignGet(c) \/ RequireGroup(c)
    PROVE  AttrInv'
<1>0. attrEvents \in 0 .. MaxAttrEvents BY DEF AttrInv, AttrTypeOK
<1>1. attrCall[c] \in AttrCallRecord /\ (attrEvents = 0 => CallOK(attrCall[c])) BY CallTyped
<1> DEFINE To(stage) == [attrCall[c] EXCEPT !.stage = stage]
<1>2. \A stage : /\ attrCall[c].group \in Group
                 /\ To(stage) = [attrCall[c] EXCEPT !.group = attrCall[c].group, !.stage = stage]
  BY SameGroup
<1>3. UNCHANGED <<standing, project, nextProject, traceRow>>
  BY DEF GetProjectByName, CreateCollides, GetAgain, ResolveGroup, AssignGet, RequireGroup
<1>4. CASE GetProjectByName(c)
  <2>1. CASE \E i \in Named(attrCall[c].repo) : Goes(c, Found(attrCall[c], i))
    BY <1>4, <2>1, FoundKeeps DEF GetProjectByName
  <2>2. CASE Goes(c, To("create"))
    <3>1. Goes(c, [attrCall[c] EXCEPT !.group = attrCall[c].group, !.stage = "create"]) BY <1>2, <2>2
    <3>2. attrEvents = 0 => attrCall[c].group = NoGroup BY <1>1, <1>4 DEF CallOK, GetProjectByName
    <3>3. UNCHANGED attrEvents BY <1>4 DEF GetProjectByName
    <3>4. QED BY <1>0, <1>2, <1>3, <3>1, <3>2, <3>3, MoveKeeps
  <2>3. QED BY <1>4, <2>1, <2>2 DEF GetProjectByName
<1>5. CASE CreateCollides(c)
  <2>1. Goes(c, [attrCall[c] EXCEPT !.group = attrCall[c].group, !.stage = "refetch"])
    BY <1>2, <1>5 DEF CreateCollides
  <2>2. attrEvents = 0 => attrCall[c].group = NoGroup BY <1>1, <1>5 DEF CallOK, CreateCollides
  <2>3. CASE Named(attrCall[c].repo) # {} /\ UNCHANGED attrEvents
    BY <1>0, <1>2, <1>3, <2>1, <2>2, <2>3, MoveKeeps
  <2>4. CASE Event
    <3> DEFINE k == [attrCall[c] EXCEPT !.group = attrCall[c].group, !.stage = "refetch"]
    <3>1. k \in AttrCallRecord BY <1>1 DEF AttrCallRecord
    <3>2. attrCall' = [attrCall EXCEPT ![c] = k] BY <2>1 DEF Goes
    <3> HIDE DEF k
    <3>3. attrCall' \in [AttrCalls -> AttrCallRecord \cup {Nil}] BY <3>1, <3>2, CallTyped
    <3>4. AttrTypeOK' BY <1>3, <2>4, <3>3, EventCounts DEF AttrInv, AttrTypeOK
    <3>5. ProjectsFresh' BY <1>3 DEF AttrInv, ProjectsFresh
    <3>6. QED BY <2>4, <3>4, <3>5, EventCounts DEF AttrInv
  <2>5. QED BY <1>5, <2>3, <2>4 DEF CreateCollides
<1>6. CASE GetAgain(c)
  <2>1. CASE \E i \in Named(attrCall[c].repo) : Goes(c, Found(attrCall[c], i))
    BY <1>6, <2>1, FoundKeeps DEF GetAgain
  <2>2. CASE Named(attrCall[c].repo) = {} /\ Goes(c, To("write"))
    <3>1. Goes(c, [attrCall[c] EXCEPT !.group = attrCall[c].group, !.stage = "write"]) BY <1>2, <2>2
    <3>2. attrEvents # 0 BY <1>1, <1>6, <2>2 DEF CallOK, GetAgain
    <3>3. UNCHANGED attrEvents BY <1>6 DEF GetAgain
    <3>4. QED BY <1>0, <1>2, <1>3, <3>1, <3>2, <3>3, MoveKeeps
  <2>3. QED BY <1>6, <2>1, <2>2 DEF GetAgain
<1>7. CASE ResolveGroup(c)
  <2>0. UNCHANGED attrEvents BY <1>7 DEF ResolveGroup
  <2>1. ASSUME NEW g \in Resolved(attrCall[c].repo), Goes(c, [attrCall[c] EXCEPT !.group = g, !.stage = "get"])
        PROVE  AttrInv'
    <3>1. g \in Group
      <4>1. Resolved(attrCall[c].repo) \subseteq standing BY DEF Resolved
      <4>2. QED BY <4>1 DEF AttrInv, AttrTypeOK, Group
    <3>2. attrEvents = 0 => attrCall[c].id \in Named(attrCall[c].repo) BY <1>1, <1>7 DEF CallOK, ResolveGroup
    <3>3. QED BY <1>0, <1>3, <2>0, <2>1, <3>1, <3>2, MoveKeeps
  <2>2. CASE Resolved(attrCall[c].repo) = {} /\ Goes(c, To("write"))
    <3>1. Goes(c, [attrCall[c] EXCEPT !.group = attrCall[c].group, !.stage = "write"]) BY <1>2, <2>2
    <3>2. attrEvents = 0 => attrCall[c].group = NoGroup BY <1>1, <1>7 DEF CallOK, ResolveGroup
    <3>4. QED BY <1>0, <1>2, <1>3, <2>0, <2>2, <3>1, <3>2, MoveKeeps
  <2>3. QED BY <1>7, <2>1, <2>2 DEF ResolveGroup
<1>8. CASE AssignGet(c) \/ RequireGroup(c)
  <2>0. UNCHANGED attrEvents /\ attrCall[c].stage \in {"get", "require"} BY <1>8 DEF AssignGet, RequireGroup
  <2>1. CASE Goes(c, Assigned(attrCall[c])) BY <1>0, <1>3, <2>0, <2>1, AssignedKeeps
  <2>2. ASSUME NEW stage \in {"require", "update"}, Goes(c, To(stage)) PROVE AttrInv'
    <3>1. Goes(c, [attrCall[c] EXCEPT !.group = attrCall[c].group, !.stage = stage]) BY <1>2, <2>2
    <3>2. attrEvents = 0 => /\ attrCall[c].id \in Named(attrCall[c].repo)
                            /\ attrCall[c].group \in Resolved(attrCall[c].repo)
      BY <1>1, <2>0 DEF CallOK
    <3>4. QED BY <1>0, <1>2, <1>3, <2>0, <3>1, <3>2, MoveKeeps
  <2>3. QED BY <1>8, <2>1, <2>2 DEF AssignGet, RequireGroup
<1>9. QED BY <1>4, <1>5, <1>6, <1>7, <1>8
(* ------------------------------------------------------------- writes -- *)

LEMMA AddedProject ==
    ASSUME AttrInv, NEW repo \in AttrRepos, NEW g \in Group, Named(repo) = {}, AddProject(repo, g)
    PROVE  /\ nextProject \in ProjectId /\ nextProject' \in 1 .. MaxProjects + 1
           /\ project' \in [ProjectId -> AttrRow \cup {Nil}]
           /\ \A i \in ProjectId : project'[i] = IF i = nextProject THEN [repo |-> repo, group |-> g] ELSE project[i]
           /\ project[nextProject] = Nil
           /\ \A i, j \in ProjectId :
                project'[i] # Nil /\ project'[j] # Nil /\ project'[i].repo = project'[j].repo => i = j
           /\ ProjectsFresh'
<1> DEFINE row == [repo |-> repo, group |-> g]
<1>1. project \in [ProjectId -> AttrRow \cup {Nil}] /\ nextProject \in 1 .. MaxProjects + 1
  BY DEF AttrInv, AttrTypeOK
<1>2. row \in AttrRow /\ row.repo = repo BY DEF AttrRow
<1>3. nextProject \in ProjectId /\ project' = [project EXCEPT ![nextProject] = row] /\ nextProject' = nextProject + 1
  BY DEF AddProject
<1> HIDE DEF row
<1>4. \A i \in ProjectId : project'[i] = IF i = nextProject THEN row ELSE project[i] BY <1>1, <1>3
<1>5. project' \in [ProjectId -> AttrRow \cup {Nil}] BY <1>1, <1>2, <1>3
<1>6. nextProject' \in 1 .. MaxProjects + 1 BY <1>3, AttrAssumption DEF ProjectId
<1>7. project[nextProject] = Nil BY <1>1, <1>3, AttrAssumption DEF AttrInv, ProjectsFresh, ProjectId
<1>8. \A i \in ProjectId : project[i] # Nil => project[i].repo # repo BY DEF Named
<1>9. \A i, j \in ProjectId :
        project'[i] # Nil /\ project'[j] # Nil /\ project'[i].repo = project'[j].repo => i = j
  BY <1>2, <1>4, <1>8 DEF AttrInv, AttrTypeOK
<1>10. ProjectsFresh' BY <1>1, <1>3, <1>4, AttrAssumption DEF AttrInv, ProjectsFresh, ProjectId
<1>11. QED BY <1>3, <1>4, <1>5, <1>6, <1>7, <1>9, <1>10 DEF row

(* A batch that writes projects: every project keeps its name, and the batch  *)
(* goes on as k.                                                             *)
LEMMA ProjectStep ==
    ASSUME AttrInv, AttrTypeOK', ProjectsFresh', NEW c \in AttrCalls, attrCall[c] # Nil,
           NEW k \in AttrCallRecord \cup {Nil}, Goes(c, k),
           UNCHANGED <<standing, traceRow, attrEvents>>,
           \A i \in ProjectId : project[i] # Nil => project'[i] # Nil /\ project'[i].repo = project[i].repo,
           attrEvents = 0 =>
               /\ \A i \in ProjectId : project'[i] # Nil /\ project'[i] # project[i] =>
                     project'[i].group = NoGroup \/ Attributed(project'[i])
               /\ k # Nil => /\ CallOK(k)'
                             /\ k.trace = attrCall[c].trace /\ k.repo = attrCall[c].repo
    PROVE  AttrInv'
<1>1. \A d \in AttrCalls : attrCall'[d] = IF d = c THEN k ELSE attrCall[d]
  BY DEF AttrInv, AttrTypeOK, Goes
<1>2. ASSUME attrEvents' = 0 PROVE Steady'
  <2>1. Steady /\ attrEvents = 0 BY <1>2 DEF AttrInv
  <2>2. CallsOK'
    <3> SUFFICES ASSUME NEW d \in AttrCalls, attrCall'[d] # Nil PROVE CallOK(attrCall[d])' BY DEF CallsOK
    <3>1. CASE d = c
      <4>1. attrCall'[d] = k BY <1>1, <3>1
      <4>2. CallOK(k)' BY <2>1, <4>1
      <4>3. QED BY <4>1, <4>2 DEF CallOK, Attributed
    <3>2. CASE d # c
      <4>1. attrCall'[d] = attrCall[d] BY <1>1, <3>2
      <4>2. CallOK(attrCall[d]) BY <2>1, <4>1 DEF Steady, CallsOK
      <4>3. \A x : CallOK(x) => CallOK(x)' BY CallOKStays
      <4>4. QED BY <4>1, <4>2, <4>3 DEF CallOK, Attributed
    <3>3. QED BY <3>1, <3>2
  <2>3. RowsOK' BY <2>1 DEF Steady, RowsOK, Attributed, Resolved
  <2>4. ProjectsOK'
    <3>1. \A i \in ProjectId : project'[i] # Nil => project'[i].group = NoGroup \/ Attributed(project'[i])
      BY <2>1 DEF Steady, ProjectsOK
    <3>2. QED BY <3>1 DEF ProjectsOK, Attributed, Resolved
  <2>5. OneRepo' BY <1>1, <2>1 DEF Steady, OneRepo
  <2>6. QED BY <2>1, <2>2, <2>3, <2>4, <2>5 DEF Steady
<1>3. QED BY <1>2 DEF AttrInv

LEMMA CreateNamedKeeps ==
    ASSUME AttrInv, NEW c \in AttrCalls, attrCall[c] # Nil, CreateNamed(c)
    PROVE  AttrInv'
<1>a. PICK k : k = [attrCall[c] EXCEPT !.id = nextProject, !.stage = "resolve"] OBVIOUS
<1>b. PICK repo : repo = attrCall[c].repo OBVIOUS
<1>1. attrCall[c] \in AttrCallRecord /\ (attrEvents = 0 => CallOK(attrCall[c]))
        /\ attrCall \in [AttrCalls -> AttrCallRecord \cup {Nil}]
  BY CallTyped
<1>2. repo \in AttrRepos /\ NoGroup \in Group /\ Named(repo) = {} /\ AddProject(repo, NoGroup)
  BY <1>1, <1>b DEF AttrCallRecord, Group, CreateNamed
<1>3. UNCHANGED <<standing, traceRow, attrEvents>> /\ Goes(c, k) BY <1>a DEF CreateNamed
<1>4. /\ nextProject \in ProjectId /\ nextProject' \in 1 .. MaxProjects + 1
      /\ project' \in [ProjectId -> AttrRow \cup {Nil}]
      /\ \A i \in ProjectId : project'[i] = IF i = nextProject THEN [repo |-> repo, group |-> NoGroup] ELSE project[i]
      /\ project[nextProject] = Nil
      /\ \A i, j \in ProjectId :
           project'[i] # Nil /\ project'[j] # Nil /\ project'[i].repo = project'[j].repo => i = j
      /\ ProjectsFresh'
  BY <1>2, AddedProject
<1>5. k \in AttrCallRecord BY <1>1, <1>4, <1>a DEF AttrCallRecord
<1>6. /\ k.id = nextProject /\ k.group = attrCall[c].group /\ k.stage = "resolve" /\ k.repo = repo
      /\ k.trace = attrCall[c].trace /\ k.by = attrCall[c].by
  BY <1>1, <1>a, <1>b DEF AttrCallRecord
<1>7. attrCall' = [attrCall EXCEPT ![c] = k] BY <1>3 DEF Goes
<1>8. attrCall' \in [AttrCalls -> AttrCallRecord \cup {Nil}] BY <1>1, <1>5, <1>7
<1>9. AttrTypeOK' BY <1>3, <1>4, <1>8 DEF AttrInv, AttrTypeOK
<1>10. \A i \in ProjectId : project[i] # Nil => project'[i] # Nil /\ project'[i].repo = project[i].repo
  BY <1>4
<1>11. project'[nextProject] # Nil /\ project'[nextProject].repo = repo /\ project'[nextProject].group = NoGroup
  <2>1. [repo |-> repo, group |-> NoGroup] \in AttrRow BY <1>2 DEF AttrRow
  <2>2. QED BY <1>4, <2>1, NilNotAttr
<1>12. attrEvents = 0 => CallOK(k)'
  <2>1. k.id \in Named(repo)' BY <1>4, <1>6, <1>11 DEF Named
  <2>2. attrEvents = 0 => k.by = "ingest" /\ k.trace \in AttrTraces /\ k.group = NoGroup
    BY <1>1, <1>6 DEF CallOK, CreateNamed
  <2>3. QED BY <1>6, <2>1, <2>2 DEF CallOK
<1>13. \A i \in ProjectId : project'[i] # Nil /\ project'[i] # project[i] => project'[i].group = NoGroup
  BY <1>4, <1>11
<1>14. QED BY <1>3, <1>4, <1>5, <1>6, <1>9, <1>10, <1>b, <1>12, <1>13, ProjectStep

LEMMA AssignUpdateKeeps ==
    ASSUME AttrInv, NEW c \in AttrCalls, attrCall[c] # Nil, AssignUpdate(c)
    PROVE  AttrInv'
<1>1. attrCall[c] \in AttrCallRecord /\ (attrEvents = 0 => CallOK(attrCall[c]))
        /\ attrCall \in [AttrCalls -> AttrCallRecord \cup {Nil}]
  BY CallTyped
<1>2. UNCHANGED <<standing, nextProject, traceRow>> /\ Goes(c, Assigned(attrCall[c]))
        /\ attrCall[c].stage = "update"
  BY DEF AssignUpdate
<1>3. attrEvents \in 0 .. MaxAttrEvents BY DEF AttrInv, AttrTypeOK
<1>4. CASE UNCHANGED project
  <2>1. attrEvents' \in 0 .. MaxAttrEvents /\ (attrEvents' = 0 => attrEvents = 0)
    BY <1>3, EventCounts DEF AssignUpdate
  <2>2. QED BY <1>2, <1>4, <2>1, AssignedKeeps
<1>5. CASE project[attrCall[c].id] # Nil /\ UNCHANGED attrEvents
             /\ project' = [project EXCEPT ![attrCall[c].id].group = attrCall[c].group]
  <2> DEFINE i == attrCall[c].id
             g == attrCall[c].group
             row == [project[i] EXCEPT !.group = g]
  <2>k. PICK k : k = Assigned(attrCall[c]) OBVIOUS
  <2>0. project \in [ProjectId -> AttrRow \cup {Nil}] BY CallTyped
  <2>1. CASE i \notin ProjectId
    <3>1. project' = project BY <1>5, <2>0, <2>1
    <3>2. QED BY <1>4, <3>1
  <2>2. CASE i \in ProjectId
    <3>1. project[i] \in AttrRow BY <1>5, <2>0, <2>2
    <3>2. g \in Group BY <1>1 DEF AttrCallRecord
    <3>3. row \in AttrRow /\ row.repo = project[i].repo /\ row.group = g BY <3>1, <3>2 DEF AttrRow
    <3>4. project' = [project EXCEPT ![i] = row] BY <1>5
    <3>5. k \in AttrCallRecord \cup {Nil}
            /\ (k # Nil => /\ k.stage = "write" /\ k.by = attrCall[c].by /\ k.trace = attrCall[c].trace
                           /\ k.repo = attrCall[c].repo /\ k.group = g)
      BY <1>1, <2>k DEF Assigned, AttrCallRecord
    <3>6. attrCall' = [attrCall EXCEPT ![c] = k] /\ Goes(c, k) BY <1>2, <2>k DEF Goes
    <3>a. attrEvents = 0 => /\ attrCall[c].by = "ingest" /\ attrCall[c].trace \in AttrTraces
                            /\ i \in Named(attrCall[c].repo) /\ g \in Resolved(attrCall[c].repo)
      BY <1>1, <1>2 DEF CallOK
    <3> HIDE DEF row
    <3>7. \A j \in ProjectId : project'[j] = IF j = i THEN row ELSE project[j] BY <2>0, <2>2, <3>4
    <3>8. row # Nil BY <3>3, NilNotAttr
    <3>9. \A j \in ProjectId : /\ project[j] # Nil => project'[j] # Nil /\ project'[j].repo = project[j].repo
                               /\ project'[j] # Nil => project[j] # Nil
      BY <1>5, <3>3, <3>7, <3>8
    <3>10. project' \in [ProjectId -> AttrRow \cup {Nil}] BY <2>0, <3>3, <3>4
    <3>11. attrCall' \in [AttrCalls -> AttrCallRecord \cup {Nil}] BY <1>1, <3>5, <3>6
    <3>12. \A a, b \in ProjectId :
             project'[a] # Nil /\ project'[b] # Nil /\ project'[a].repo = project'[b].repo => a = b
      BY <3>9 DEF AttrInv, AttrTypeOK
    <3>13. AttrTypeOK' BY <1>2, <1>5, <3>10, <3>11, <3>12 DEF AttrInv, AttrTypeOK
    <3>14. ProjectsFresh' BY <1>2, <3>9 DEF AttrInv, ProjectsFresh
    <3>15. attrEvents = 0 =>
             /\ \A j \in ProjectId : project'[j] # Nil /\ project'[j] # project[j] =>
                   project'[j].group = NoGroup \/ Attributed(project'[j])
             /\ k # Nil => CallOK(k)' /\ k.trace = attrCall[c].trace /\ k.repo = attrCall[c].repo
      <4> SUFFICES ASSUME attrEvents = 0
                   PROVE  /\ \A j \in ProjectId : project'[j] # Nil /\ project'[j] # project[j] =>
                                project'[j].group = NoGroup \/ Attributed(project'[j])
                          /\ k # Nil => CallOK(k)' /\ k.trace = attrCall[c].trace /\ k.repo = attrCall[c].repo
        OBVIOUS
      <4>1. project[i].repo = attrCall[c].repo BY <3>a DEF Named
      <4>2. Attributed(row) BY <3>a, <3>3, <4>1 DEF Attributed
      <4>3. k # Nil => Attributed(k) BY <3>a, <3>5 DEF Attributed
      <4>4. k # Nil => Attributed(k)' BY <1>2, <4>3, AttributedStays
      <4>5. k # Nil => CallOK(k)' BY <3>a, <3>5, <4>4 DEF CallOK
      <4>6. QED BY <3>5, <3>7, <4>2, <4>5
    <3>16. QED BY <1>2, <1>5, <3>5, <3>6, <3>9, <3>13, <3>14, <3>15, ProjectStep
  <2>3. QED BY <2>1, <2>2
<1>6. QED BY <1>4, <1>5 DEF AssignUpdate

(* A batch writes its row.                                                   *)
LEMMA UpsertKeeps ==
    ASSUME AttrInv, NEW c \in AttrCalls, attrCall[c] # Nil, UpsertIngest(c)
    PROVE  AttrInv'
<1>1. attrCall[c] \in AttrCallRecord /\ attrCall \in [AttrCalls -> AttrCallRecord \cup {Nil}] BY CallTyped
<1>2. UNCHANGED <<standing, project, nextProject>> /\ Goes(c, Nil) BY DEF UpsertIngest
<1>3. CASE Event /\ UNCHANGED traceRow
  <2>1. attrEvents' \in 0 .. MaxAttrEvents /\ attrEvents' # 0 BY <1>3, EventCounts
  <2>2. QED BY <1>2, <1>3, <2>1, ReadStep
<1>4. CASE UNCHANGED attrEvents
            /\ traceRow' = [traceRow EXCEPT ![attrCall[c].trace] =
                 [repo |-> attrCall[c].repo,
                  group |-> IF @ # Nil /\ @.group # NoGroup THEN @.group ELSE attrCall[c].group]]
  <2> DEFINE t == attrCall[c].trace
             old == traceRow[t]
             g == IF old # Nil /\ old.group # NoGroup THEN old.group ELSE attrCall[c].group
             row == [repo |-> attrCall[c].repo, group |-> g]
  <2>1. traceRow \in [AttrTraces -> AttrRow \cup {Nil}] BY DEF AttrInv, AttrTypeOK
  <2>2. traceRow' = [traceRow EXCEPT ![t] = row] BY <1>4
  <2>3. t \in AttrTraces => row \in AttrRow /\ row.repo = attrCall[c].repo /\ row.group = g
    <3>1. t \in AttrTraces => g \in Group BY <1>1, <2>1 DEF AttrCallRecord, AttrRow
    <3> HIDE DEF g
    <3>2. QED BY <1>1, <3>1 DEF AttrCallRecord, AttrRow
  <2>4. g = attrCall[c].group \/ (old # Nil /\ g = old.group) OBVIOUS
  <2> HIDE DEF row, g
  <2>5. traceRow' \in [AttrTraces -> AttrRow \cup {Nil}]
    <3>1. CASE t \in AttrTraces BY <2>1, <2>2, <2>3, <3>1
    <3>2. CASE t \notin AttrTraces BY <2>1, <2>2, <3>2
    <3>3. QED BY <3>1, <3>2
  <2>6. \A d \in AttrCalls : attrCall'[d] = IF d = c THEN Nil ELSE attrCall[d] BY <1>1, <1>2 DEF Goes
  <2>7. attrCall' \in [AttrCalls -> AttrCallRecord \cup {Nil}] BY <1>1, <1>2 DEF Goes
  <2>8. AttrTypeOK' /\ ProjectsFresh' BY <1>2, <1>4, <2>5, <2>7 DEF AttrInv, AttrTypeOK, ProjectsFresh
  <2>9. ASSUME attrEvents' = 0 PROVE Steady'
    <3>1. Steady /\ CallOK(attrCall[c]) BY <1>4, <2>9 DEF AttrInv, Steady, CallsOK
    <3>2. t \in AttrTraces /\ Attributed(attrCall[c]) BY <3>1 DEF CallOK, UpsertIngest
    <3>3. \A u \in AttrTraces : traceRow'[u] = IF u = t THEN row ELSE traceRow[u] BY <2>1, <2>2
    <3>4. old # Nil => Attributed(old) /\ old.repo = attrCall[c].repo BY <3>1, <3>2 DEF Steady, RowsOK, OneRepo
    <3>5. Attributed(row) BY <2>3, <2>4, <3>2, <3>4 DEF Attributed
    <3>6. RowsOK'
      <4>1. \A u \in AttrTraces : traceRow'[u] # Nil => Attributed(traceRow'[u])
        BY <3>1, <3>3, <3>5 DEF Steady, RowsOK
      <4>2. QED BY <1>2, <4>1 DEF RowsOK, Attributed, Resolved
    <3>7. CallsOK'
      <4>1. \A d \in AttrCalls : attrCall'[d] # Nil => CallOK(attrCall'[d])
        BY <2>6, <3>1 DEF Steady, CallsOK
      <4>2. QED BY <1>2, <4>1 DEF CallsOK, CallOK, Attributed, Resolved, Named
    <3>8. ProjectsOK' BY <1>2, <3>1 DEF Steady, ProjectsOK, Attributed, Resolved
    <3>9. OneRepo'
      <4>1. \A d \in AttrCalls : attrCall'[d] # Nil =>
               attrCall'[d] = attrCall[d] /\ attrCall[d] # Nil /\ attrCall[d].trace \in AttrTraces
        BY <2>6, <3>1 DEF Steady, CallsOK, CallOK
      <4>2. \A d \in AttrCalls : attrCall[d] # Nil /\ attrCall[d].trace = t => attrCall[d].repo = row.repo
        BY <2>3, <3>1, <3>2 DEF Steady, OneRepo
      <4>3. QED BY <3>1, <3>3, <4>1, <4>2 DEF Steady, OneRepo
    <3>10. QED BY <1>2, <3>1, <3>6, <3>7, <3>8, <3>9 DEF Steady
  <2>10. QED BY <2>8, <2>9 DEF AttrInv
<1>5. QED BY <1>3, <1>4 DEF UpsertIngest
LEMMA IngestKeeps ==
    ASSUME AttrInv, NEW c \in AttrCalls, NEW t \in AttrTraces, NEW repo \in AttrRepos, Ingest(c, t, repo)
    PROVE  AttrInv'
<1> DEFINE k == [by |-> "ingest", trace |-> t, repo |-> repo, id |-> 0, group |-> NoGroup, stage |-> "lookup"]
<1>1. k \in AttrCallRecord BY DEF AttrCallRecord, Group
<1>2. /\ k.by = "ingest" /\ k.trace = t /\ k.repo = repo /\ k.group = NoGroup /\ k.stage = "lookup"
      /\ attrCall' = [attrCall EXCEPT ![c] = k]
  BY DEF Ingest, Goes
<1> HIDE DEF k
<1>3. attrCall \in [AttrCalls -> AttrCallRecord \cup {Nil}] BY DEF AttrInv, AttrTypeOK
<1>4. \A d \in AttrCalls : attrCall'[d] = IF d = c THEN k ELSE attrCall[d] BY <1>2, <1>3
<1>5. UNCHANGED <<standing, project, nextProject, traceRow, attrEvents>> BY DEF Ingest
<1>6. attrCall' \in [AttrCalls -> AttrCallRecord \cup {Nil}] BY <1>1, <1>2, <1>3
<1>7. AttrTypeOK' /\ ProjectsFresh' BY <1>5, <1>6 DEF AttrInv, AttrTypeOK, ProjectsFresh
<1>8. ASSUME attrEvents' = 0 PROVE Steady'
  <2>1. Steady BY <1>5, <1>8 DEF AttrInv
  <2>2. CallOK(k) BY <1>2 DEF CallOK
  <2>3. CallsOK'
    <3>1. \A d \in AttrCalls : attrCall'[d] # Nil => CallOK(attrCall'[d])
      BY <1>4, <2>1, <2>2 DEF Steady, CallsOK
    <3>2. QED BY <1>5, <3>1 DEF CallsOK, CallOK, Attributed, Resolved, Named
  <2>4. ProjectsOK' /\ RowsOK' BY <1>5, <2>1 DEF Steady, ProjectsOK, RowsOK, Attributed, Resolved
  <2>5. OneRepo'
    <3>1. /\ traceRow[t] # Nil => traceRow[t].repo = repo
          /\ \A d \in AttrCalls : attrCall[d] # Nil /\ attrCall[d].trace = t => attrCall[d].repo = repo
      BY DEF Ingest
    <3>2. QED BY <1>2, <1>4, <1>5, <2>1, <3>1 DEF Steady, OneRepo
  <2>6. QED BY <1>5, <2>1, <2>3, <2>4, <2>5 DEF Steady
<1>9. QED BY <1>7, <1>8 DEF AttrInv

(* An administrator's call, after which nothing is claimed of the groups.     *)
LEMMA AdminKeeps ==
    ASSUME AttrInv,
           \/ \E repo \in AttrRepos : \E g \in Group : CreateProject(repo, g)
           \/ \E i \in ProjectId : DeleteProject(i)
           \/ \E g \in AttrGroupIds : RemoveGroup(g)
           \/ \E c \in AttrCalls, i \in ProjectId, g \in Group : HandleProjectUpdate(c, i, g)
    PROVE  AttrInv'
<1>0. /\ project \in [ProjectId -> AttrRow \cup {Nil}] /\ traceRow \in [AttrTraces -> AttrRow \cup {Nil}]
      /\ attrCall \in [AttrCalls -> AttrCallRecord \cup {Nil}] /\ standing \subseteq AttrGroupIds
      /\ nextProject \in 1 .. MaxProjects + 1
  BY DEF AttrInv, AttrTypeOK
<1>1. Event BY DEF CreateProject, DeleteProject, RemoveGroup, HandleProjectUpdate
<1>2. attrEvents' \in 0 .. MaxAttrEvents /\ attrEvents' # 0 BY <1>1, EventCounts
<1>3. ASSUME NEW repo \in AttrRepos, NEW g \in Group, CreateProject(repo, g) PROVE AttrTypeOK' /\ ProjectsFresh'
  <2>1. Named(repo) = {} /\ AddProject(repo, g) /\ UNCHANGED <<standing, traceRow, attrCall>>
    BY <1>3 DEF CreateProject
  <2>2. QED BY <1>0, <1>2, <2>1, AddedProject DEF AttrTypeOK
<1>4. ASSUME NEW i \in ProjectId, DeleteProject(i) PROVE AttrTypeOK' /\ ProjectsFresh'
  <2>1. project' = [project EXCEPT ![i] = Nil] /\ UNCHANGED <<standing, nextProject, traceRow, attrCall>>
    BY <1>4 DEF DeleteProject
  <2>2. \A j \in ProjectId : project'[j] = IF j = i THEN Nil ELSE project[j] BY <1>0, <2>1
  <2>3. \A a, b \in ProjectId :
          project'[a] # Nil /\ project'[b] # Nil /\ project'[a].repo = project'[b].repo => a = b
    BY <2>2 DEF AttrInv, AttrTypeOK
  <2>4. project' \in [ProjectId -> AttrRow \cup {Nil}] BY <1>0, <2>1
  <2>5. AttrTypeOK' BY <1>0, <1>2, <2>1, <2>3, <2>4 DEF AttrTypeOK
  <2>6. ProjectsFresh' BY <2>1, <2>2 DEF AttrInv, ProjectsFresh
  <2>7. QED BY <2>5, <2>6
<1>5. ASSUME NEW g \in AttrGroupIds, RemoveGroup(g) PROVE AttrTypeOK' /\ ProjectsFresh'
  <2>1. /\ project' = [i \in ProjectId |-> Unassigned(project[i], g)]
        /\ traceRow' = [t \in AttrTraces |-> Unassigned(traceRow[t], g)]
        /\ standing' = standing \ {g} /\ UNCHANGED <<nextProject, attrCall>>
    BY <1>5 DEF RemoveGroup
  <2>2. ASSUME NEW row \in AttrRow PROVE Unassigned(row, g) \in AttrRow /\ Unassigned(row, g).repo = row.repo
    <3>1. [row EXCEPT !.group = NoGroup] \in AttrRow /\ [row EXCEPT !.group = NoGroup].repo = row.repo
      BY DEF AttrRow, Group
    <3>2. QED BY <3>1 DEF Unassigned
  <2>3. Unassigned(Nil, g) = Nil BY DEF Unassigned
  <2>4. \A i \in ProjectId : project'[i] = Unassigned(project[i], g) BY <2>1
  <2>5. \A i \in ProjectId : /\ project'[i] # Nil => project[i] # Nil /\ project'[i].repo = project[i].repo
                             /\ project[i] = Nil => project'[i] = Nil
    BY <1>0, <2>2, <2>3, <2>4
  <2>6. \A a, b \in ProjectId :
          project'[a] # Nil /\ project'[b] # Nil /\ project'[a].repo = project'[b].repo => a = b
    BY <2>5 DEF AttrInv, AttrTypeOK
  <2>7. project' \in [ProjectId -> AttrRow \cup {Nil}] /\ traceRow' \in [AttrTraces -> AttrRow \cup {Nil}]
    BY <1>0, <2>1, <2>2, <2>3
  <2>8. AttrTypeOK' BY <1>0, <1>2, <2>1, <2>6, <2>7 DEF AttrTypeOK
  <2>9. ProjectsFresh' BY <2>1, <2>5 DEF AttrInv, ProjectsFresh
  <2>10. QED BY <2>8, <2>9
<1>6. ASSUME NEW c \in AttrCalls, NEW i \in ProjectId, NEW g \in Group, HandleProjectUpdate(c, i, g)
      PROVE  AttrTypeOK' /\ ProjectsFresh'
  <2> DEFINE k == [by |-> "admin", trace |-> Nil, repo |-> project[i].repo, id |-> i, group |-> g, stage |-> "get"]
  <2>1. project[i] \in AttrRow BY <1>0, <1>6 DEF HandleProjectUpdate
  <2>2. k \in AttrCallRecord BY <2>1 DEF AttrCallRecord, AttrRow
  <2>3. attrCall' = [attrCall EXCEPT ![c] = k] /\ UNCHANGED <<standing, project, nextProject, traceRow>>
    BY <1>6 DEF HandleProjectUpdate, Goes
  <2> HIDE DEF k
  <2>4. attrCall' \in [AttrCalls -> AttrCallRecord \cup {Nil}] BY <1>0, <2>2, <2>3
  <2>5. QED BY <1>2, <2>3, <2>4 DEF AttrInv, AttrTypeOK, ProjectsFresh
<1>7. QED BY <1>2, <1>3, <1>4, <1>5, <1>6 DEF AttrInv

LEMMA AttrNextInv == AttrInv /\ [AttrNext]_attrVars => AttrInv'
<1> SUFFICES ASSUME AttrInv, [AttrNext]_attrVars PROVE AttrInv' OBVIOUS
<1>1. CASE UNCHANGED attrVars
  <2>1. UNCHANGED <<standing, project, nextProject, traceRow, attrCall, attrEvents>> BY <1>1 DEF attrVars
  <2>2. AttrTypeOK' /\ ProjectsFresh' BY <1>1 DEF attrVars, AttrInv, AttrTypeOK, ProjectsFresh
  <2>3. \A x : Attributed(x)' = Attributed(x) /\ Named(x)' = Named(x) BY <2>1 DEF Attributed, Resolved, Named
  <2>4. CallsOK' = CallsOK /\ ProjectsOK' = ProjectsOK /\ RowsOK' = RowsOK /\ OneRepo' = OneRepo
    BY <2>1 DEF CallsOK, CallOK, ProjectsOK, RowsOK, OneRepo, Attributed, Resolved, Named
  <2>5. Steady' = Steady BY <2>1, <2>4 DEF Steady
  <2>6. QED BY <2>1, <2>2, <2>5 DEF AttrInv
<1>2. ASSUME NEW c \in AttrCalls, AttrStep(c) PROVE AttrInv'
  BY <1>2, ReadsKeep, CreateNamedKeeps, AssignUpdateKeeps, UpsertKeeps DEF AttrStep
<1>3. QED BY <1>1, <1>2, IngestKeeps, AdminKeeps DEF AttrNext

(* The inductive invariant of attribution.                                   *)
THEOREM AttrInductive == AttrSpec => []AttrInv
BY AttrInitInv, AttrNextInv, PTL DEF AttrSpec

(* Names of projects stay unique and every call holds ids and groups of their *)
(* ranges, whatever administrators do meanwhile.                             *)
THEOREM AttrTypeHolds == AttrSpec => []AttrTypeOK
<1>1. AttrInv => AttrTypeOK BY DEF AttrInv
<1>2. QED BY <1>1, AttrInductive, PTL

(* For any number of repositories, groups and concurrent batches: without     *)
(* edits and refused writes, every row and every assigned project has the     *)
(* group its repository resolves to.                                         *)
THEOREM BatchesAgree == AttrSpec => []AttrAgrees
<1>1. AttrInv => AttrAgrees BY DEF AttrInv, Steady, RowsOK, ProjectsOK, AttrAgrees
<1>2. QED BY <1>1, AttrInductive, PTL

(* ---------------------------------------------------------- Revalidation -- *)

(* At most one request asks the IdP at a time, and the entry it will write    *)
(* is there until it does.                                                   *)
Asking(k) == k.at \in {"call", "ask", "record"}

OneAsks ==
    /\ \A r \in RevRequests : Asking(check[r]) => entry # Nil /\ entry.inflight
    /\ \A r, s \in RevRequests : Asking(check[r]) /\ Asking(check[s]) => r = s

(* A pod that verifies what it serves: any pod for GitHub, the leader for OIDC. *)
Verifies == oauthProvider = "oidc" => leads

(* Every check has a credential to ask with; what the IdP confirmed is        *)
(* stamped before it ceased to allow the user, and what a follower vouched    *)
(* for before the pod led.                                                   *)
CheckGood(k) ==
    /\ k.at # "idle" => k.u.cred # 0
    /\ Asking(k) => k.stamp <= now
    /\ k.at = "record" => /\ k.answer # "noCredential"
                          /\ k.answer \in {"full", "reduced"} /\ idp = "out" => k.stamp <= lostAt
                          /\ k.answer = "notLeader"
                                => oauthProvider = "oidc" /\ (leads => k.stamp <= ledSince)

EntryGood(e) ==
    /\ e.lastGood # Nil => e.lastGood <= now /\ (idp = "out" /\ Verifies => e.lastGood <= VerifiesSince)
    /\ e.groups => e.lastGood # Nil
    /\ e.state = "ok" => e.lastGood # Nil /\ e.expiresAt <= e.lastGood + Interval + Jitter

Timely ==
    /\ member.cred # 0
    /\ \A r \in RevRequests : CheckGood(check[r])
    /\ entry # Nil => EntryGood(entry)

LostKnown == idp = "out" => lostAt \in Time

RevInv == RevTypeOK /\ OneAsks /\ LostKnown /\ (~preUpgrade => Timely)

-----------------------------------------------------------------------------
LEMMA NoCheckTyped == NoCheck \in CheckRow /\ NoCheck.at = "idle"
<1>1. [deact |-> FALSE, cred |-> 0, managed |-> FALSE] \in Member BY RevAssumption DEF Member
<1>2. 0 \in Time BY RevAssumption DEF Time
<1>3. QED BY <1>1, <1>2 DEF NoCheck, CheckRow

LEMMA RevInitInv == RevInit => RevInv
<1> SUFFICES ASSUME RevInit PROVE RevInv OBVIOUS
<1>1. check \in [RevRequests -> CheckRow] /\ \A r \in RevRequests : check[r].at = "idle"
  BY NoCheckTyped DEF RevInit
<1>2. 0 \in Time /\ 1 \in 0 .. MaxCred /\ 0 \in 0 .. MaxCred BY RevAssumption DEF Time
<1>3. member \in Member /\ (~preUpgrade => member.cred # 0) BY <1>2 DEF RevInit, Member
<1>4. RevTypeOK BY <1>1, <1>2, <1>3, RevAssumption DEF RevInit, RevTypeOK
<1>5. OneAsks BY <1>1 DEF OneAsks, Asking
<1>6. LostKnown BY DEF RevInit, LostKnown
<1>7. ~preUpgrade => Timely BY <1>1, <1>3 DEF RevInit, Timely, CheckGood, Asking
<1>8. QED BY <1>4, <1>5, <1>6, <1>7 DEF RevInv

(* A step of request r that leaves the world alone.                          *)
LEMMA RequestStep ==
    ASSUME RevInv, NEW r \in RevRequests, NEW k \in CheckRow,
           check' = [check EXCEPT ![r] = k], UNCHANGED world,
           checks' \in 0 .. MaxChecks, member' \in Member, granted' \in BOOLEAN,
           entry' = Nil \/ entry' \in RevEntry,
           Asking(k) => entry' # Nil /\ entry'.inflight /\ (Asking(check[r]) \/ entry = Nil \/ ~entry.inflight),
           \/ entry' = entry
           \/ Asking(check[r]) \/ entry = Nil \/ ~entry.inflight,
           ~preUpgrade => member'.cred # 0 /\ CheckGood(k) /\ (entry' # Nil => EntryGood(entry'))
    PROVE  RevInv'
<1>0. RevTypeOK /\ OneAsks /\ LostKnown BY DEF RevInv
<1>1. \A s \in RevRequests : check'[s] = IF s = r THEN k ELSE check[s] BY <1>0 DEF RevTypeOK
<1>2. RevTypeOK' BY <1>0 DEF RevTypeOK, world
<1>3. OneAsks'
  <2>1. ASSUME NEW s \in RevRequests, s # r, Asking(check[s])
        PROVE  entry # Nil /\ entry.inflight /\ ~Asking(check[r])
    BY <1>0, <2>1 DEF OneAsks
  <2>2. \A s \in RevRequests : Asking(check'[s]) => entry' # Nil /\ entry'.inflight
    <3> SUFFICES ASSUME NEW s \in RevRequests, Asking(check'[s])
                 PROVE  entry' # Nil /\ entry'.inflight
      OBVIOUS
    <3>1. CASE s = r BY <1>1, <3>1
    <3>2. CASE s # r
      <4>1. Asking(check[s]) BY <1>1, <3>2
      <4>2. entry # Nil /\ entry.inflight /\ ~Asking(check[r]) BY <2>1, <3>2, <4>1
      <4>3. entry' = entry BY <4>2
      <4>4. QED BY <4>2, <4>3
    <3>3. QED BY <3>1, <3>2
  <2>3. ASSUME NEW s \in RevRequests, NEW t \in RevRequests, Asking(check'[s]), Asking(check'[t]), s # t
        PROVE  FALSE
    <3>1. CASE s = r
      <4>1. Asking(k) /\ Asking(check[t]) BY <1>1, <2>3, <3>1
      <4>2. QED BY <2>1, <2>3, <3>1, <4>1
    <3>2. CASE t = r
      <4>1. Asking(k) /\ Asking(check[s]) BY <1>1, <2>3, <3>2
      <4>2. QED BY <2>1, <2>3, <3>2, <4>1
    <3>3. CASE s # r /\ t # r
      <4>1. Asking(check[s]) /\ Asking(check[t]) BY <1>1, <2>3, <3>3
      <4>2. QED BY <1>0, <2>3, <4>1 DEF OneAsks
    <3>4. QED BY <3>1, <3>2, <3>3
  <2>4. QED BY <2>2, <2>3 DEF OneAsks, Asking
<1>4. LostKnown' BY <1>0 DEF LostKnown, world
<1>5. ASSUME ~preUpgrade PROVE Timely'
  <2>1. UNCHANGED <<now, idp, lostAt, ledSince, oauthProvider>> BY DEF world
  <2>2. \A s \in RevRequests : CheckGood(check[s])'
    BY <1>1, <1>5, <2>1 DEF RevInv, Timely, CheckGood, Asking, leads
  <2>3. (entry # Nil => EntryGood(entry))'
    BY <1>5, <2>1 DEF EntryGood, Verifies, VerifiesSince, leads
  <2>4. QED BY <1>5, <2>2, <2>3 DEF Timely
<1>6. QED BY <1>2, <1>3, <1>4, <1>5 DEF RevInv, world
(* The rest of the world: the clock, the IdP, the leadership.                *)
LEMMA WorldKeeps ==
    ASSUME RevInv, Tick \/ RoleChanges \/ (\E x \in {"full", "reduced", "out"} : IdpChanges(x))
    PROVE  RevInv'
<1>0. RevTypeOK /\ OneAsks /\ LostKnown BY DEF RevInv
<1>1. UNCHANGED <<oauthProvider, preUpgrade, member, granted, entry, check, checks>>
  BY DEF Tick, RoleChanges, IdpChanges, store
<1>2. now \in Time /\ now' \in Time /\ now <= now' /\ MaxTime \in Nat
  BY <1>0, RevAssumption DEF RevTypeOK, Time, Tick, RoleChanges, IdpChanges
<1>3. /\ idp' \in {"full", "reduced", "out"} /\ lostAt' \in Time \cup {Nil}
      /\ changes' \in 0 .. MaxIdpChanges /\ (idp' = "out" => lostAt' \in Time)
      /\ idp' = "out" => \/ lostAt' = now
                         \/ idp = "out" /\ lostAt' = lostAt
  <2>1. CASE Tick \/ RoleChanges BY <1>0, <2>1 DEF RevTypeOK, LostKnown, Tick, RoleChanges
  <2>2. ASSUME NEW x \in {"full", "reduced", "out"}, IdpChanges(x)
        PROVE  /\ idp' \in {"full", "reduced", "out"} /\ lostAt' \in Time \cup {Nil}
               /\ changes' \in 0 .. MaxIdpChanges /\ (idp' = "out" => lostAt' = now)
    BY <1>0, <2>2, RevAssumption DEF RevTypeOK, IdpChanges
  <2>3. QED BY <1>2, <2>1, <2>2
<1>4. \/ ledSince' = ledSince
      \/ ledSince = Nil /\ ledSince' = now /\ UNCHANGED <<idp, lostAt, now>>
      \/ ledSince' = Nil
  BY DEF Tick, RoleChanges, IdpChanges, leads
<1>5. ledSince' \in Time \cup {Nil} BY <1>0, <1>2, <1>4 DEF RevTypeOK
<1>6. RevTypeOK' BY <1>0, <1>1, <1>2, <1>3, <1>5 DEF RevTypeOK
<1>7. OneAsks' BY <1>0, <1>1 DEF OneAsks, Asking
<1>8. LostKnown' BY <1>3 DEF LostKnown
<1>9. ASSUME ~preUpgrade PROVE Timely'
  <2>1. Timely /\ ledSince \in Time \cup {Nil} /\ (idp = "out" => lostAt \in Time)
    BY <1>0, <1>9 DEF RevInv, RevTypeOK, LostKnown
  <2>2. \A r \in RevRequests : CheckGood(check[r])'
    <3> TAKE r \in RevRequests
    <3>1. CheckGood(check[r]) /\ check[r] \in CheckRow BY <1>0, <2>1 DEF Timely, RevTypeOK
    <3>2. PICK k \in CheckRow : k = check[r] /\ k = check'[r] BY <1>1, <3>1
    <3>3. k.stamp \in Time BY DEF CheckRow
    <3>4. CheckGood(k) BY <3>1, <3>2
    <3>5. Asking(k) => k.stamp <= now' BY <1>2, <3>3, <3>4 DEF CheckGood, Time
    <3>6. k.at = "record" /\ k.answer \in {"full", "reduced"} /\ idp' = "out" => k.stamp <= lostAt'
      BY <1>2, <1>3, <3>4 DEF CheckGood, Asking
    <3>7. k.at = "record" /\ k.answer = "notLeader" /\ ledSince' # Nil => k.stamp <= ledSince'
      BY <1>4, <3>4 DEF CheckGood, Asking, leads
    <3>8. CheckGood(k)' BY <1>1, <3>4, <3>5, <3>6, <3>7 DEF CheckGood, Asking, leads
    <3>9. QED BY <3>2, <3>8
  <2>3. (entry # Nil => EntryGood(entry))'
    <3> SUFFICES ASSUME entry # Nil PROVE EntryGood(entry)' BY <1>1
    <3>1. PICK e \in RevEntry : e = entry /\ e = entry' BY <1>0, <1>1 DEF RevTypeOK
    <3>2. EntryGood(e) BY <2>1, <3>1 DEF Timely
    <3>3. ASSUME e.lastGood # Nil
          PROVE  e.lastGood <= now' /\ (idp' = "out" /\ Verifies' => e.lastGood <= VerifiesSince')
      <4>1. e.lastGood \in Time /\ e.lastGood <= now BY <3>2, <3>3 DEF RevEntry, EntryGood
      <4>2. e.lastGood <= now' BY <1>2, <4>1 DEF Time
      <4>3. ASSUME idp' = "out", Verifies' PROVE e.lastGood <= VerifiesSince'
        <5>1. CASE oauthProvider = "oidc" /\ ledSince = Nil
          <6>1. ledSince' = now /\ lostAt' \in Time
            BY <1>1, <1>3, <1>4, <4>3, <5>1 DEF Verifies, leads
          <6>2. oauthProvider' = "oidc" BY <1>1, <5>1
          <6>3. lostAt' \in Nat /\ now \in Nat /\ e.lastGood \in Nat
            BY <1>2, <4>1, <6>1, RevAssumption DEF Time
          <6>4. QED BY <4>1, <6>1, <6>2, <6>3 DEF VerifiesSince
        <5>2. CASE lostAt' = now
          <6>1. QED BY <1>2, <1>5, <4>1, <4>3, <5>2, NilNotRev DEF VerifiesSince, Verifies, leads, Time
        <5>3. CASE ~(oauthProvider = "oidc" /\ ledSince = Nil) /\ idp = "out" /\ lostAt' = lostAt
          <6>1. Verifies BY <5>3 DEF Verifies, leads
          <6>2. e.lastGood <= VerifiesSince BY <3>2, <3>3, <5>3, <6>1 DEF EntryGood
          <6>3. oauthProvider = "oidc" => ledSince' = ledSince
            BY <1>1, <1>4, <4>3, <5>3 DEF Verifies, leads
          <6>4. QED BY <1>1, <5>3, <6>2, <6>3 DEF VerifiesSince
        <5>4. QED BY <1>3, <4>3, <5>1, <5>2, <5>3
      <4>4. QED BY <4>2, <4>3
    <3>4. EntryGood(e)' BY <3>2, <3>3 DEF EntryGood
    <3>5. QED BY <3>1, <3>4
  <2>4. QED BY <1>1, <2>1, <2>2, <2>3 DEF Timely
<1>10. QED BY <1>1, <1>6, <1>7, <1>8, <1>9 DEF RevInv

(* Booleans of the user and of the group membership.                         *)
LEMMA Booleans == \A x, y \in BOOLEAN : (x \/ y) \in BOOLEAN /\ (x /\ y) \in BOOLEAN /\ (~x) \in BOOLEAN
OBVIOUS

LEMMA StoreKeeps ==
    ASSUME RevInv, OAuthLogin \/ LeaderReconciles \/ SweepEntry
    PROVE  RevInv'
<1>0. RevTypeOK /\ OneAsks /\ LostKnown BY DEF RevInv
<1>1. UNCHANGED <<world, check, checks>> BY DEF OAuthLogin, LeaderReconciles, SweepEntry
<1>2. member.deact \in BOOLEAN /\ member.cred \in 0 .. MaxCred /\ member.managed \in BOOLEAN
      /\ member \in Member /\ granted \in BOOLEAN /\ MaxCred \in Nat
  BY <1>0, RevAssumption DEF RevTypeOK, Member
<1>3. member' \in Member /\ (member.cred # 0 => member'.cred # 0) /\ granted' \in BOOLEAN
  <2>1. CASE OAuthLogin
    <3>1. PICK b \in BOOLEAN : b = (idp = "full") OBVIOUS
    <3>2. member' = [deact |-> FALSE, cred |-> member.cred + 1, managed |-> b]
      BY <2>1, <3>1 DEF OAuthLogin
    <3>3. member.cred + 1 \in 0 .. MaxCred /\ member.cred + 1 # 0 BY <1>2, <2>1 DEF OAuthLogin
    <3>4. member' \in Member /\ member'.cred # 0 BY <3>2, <3>3 DEF Member
    <3>5. granted' = IF b THEN TRUE ELSE granted /\ ~member.managed BY <2>1, <3>1 DEF OAuthLogin
    <3>6. (granted /\ ~member.managed) \in BOOLEAN BY <1>2, Booleans, Zenon
    <3>7. granted' \in BOOLEAN BY <3>5, <3>6
    <3>8. QED BY <3>4, <3>7
  <2>2. CASE LeaderReconciles
    <3>1. PICK b \in BOOLEAN : b = (idp = "full") OBVIOUS
    <3>2. PICK d \in BOOLEAN : d = (member.deact \/ idp = "out") OBVIOUS
    <3>3. member' = [member EXCEPT !.deact = d, !.managed = b] BY <2>2, <3>1, <3>2 DEF LeaderReconciles
    <3>4. member' \in Member /\ member'.cred = member.cred BY <1>2, <3>3 DEF Member
    <3>5. granted' = b BY <2>2, <3>1 DEF LeaderReconciles
    <3>6. QED BY <3>4, <3>5
  <2>3. CASE SweepEntry BY <1>2, <2>3 DEF SweepEntry, store
  <2>4. QED BY <2>1, <2>2, <2>3
<1>4. \/ entry' = entry
      \/ entry' = Nil /\ \A r \in RevRequests : ~Asking(check[r])
  BY <1>0 DEF OAuthLogin, LeaderReconciles, SweepEntry, OneAsks
<1>5. RevTypeOK' BY <1>0, <1>1, <1>3, <1>4 DEF RevTypeOK, world
<1>6. OneAsks' BY <1>0, <1>1, <1>4 DEF OneAsks, Asking
<1>7. LostKnown' BY <1>0, <1>1 DEF LostKnown, world
<1>8. ASSUME ~preUpgrade PROVE Timely'
  BY <1>1, <1>3, <1>4, <1>8
     DEF RevInv, Timely, CheckGood, EntryGood, Asking, Verifies, VerifiesSince, leads, world
<1>9. QED BY <1>1, <1>5, <1>6, <1>7, <1>8 DEF RevInv, world

-----------------------------------------------------------------------------
(* A request arrives, is answered, or goes away.                             *)
LEMMA EndsKeep ==
    ASSUME RevInv, NEW r \in RevRequests, Arrive(r) \/ ServeCached(r) \/ GiveUp(r)
    PROVE  RevInv'
<1>0. RevTypeOK BY DEF RevInv
<1>1. UNCHANGED <<world, member, granted, entry>> BY DEF Arrive, ServeCached, GiveUp, store
<1>2. checks' \in 0 .. MaxChecks BY <1>0, RevAssumption DEF RevTypeOK, Arrive, ServeCached, GiveUp
<1>3. member \in Member /\ granted \in BOOLEAN /\ (entry = Nil \/ entry \in RevEntry) BY <1>0 DEF RevTypeOK
<1>4. PICK k : k = IF Arrive(r) THEN [NoCheck EXCEPT !.at = "check", !.u = member] ELSE NoCheck OBVIOUS
<1>5. check' = [check EXCEPT ![r] = k] BY <1>4 DEF Arrive, ServeCached, GiveUp
<1>6. k \in CheckRow /\ ~Asking(k) /\ (k.at # "idle" => k.u = member)
  <2>1. CASE Arrive(r)
    <3>1. k = [NoCheck EXCEPT !.at = "check", !.u = member] BY <1>4, <2>1
    <3>2. k \in CheckRow /\ k.at = "check" /\ k.u = member BY <1>3, <3>1, NoCheckTyped DEF CheckRow
    <3>3. QED BY <3>2 DEF Asking
  <2>2. CASE ~Arrive(r) BY <1>4, <2>2, NoCheckTyped DEF Asking
  <2>3. QED BY <2>1, <2>2
<1>7. ~preUpgrade => member.cred # 0 /\ CheckGood(k) /\ (entry # Nil => EntryGood(entry))
  BY <1>6 DEF RevInv, Timely, CheckGood, Asking
<1>8. QED BY <1>1, <1>2, <1>3, <1>5, <1>6, <1>7, RequestStep

(* A request becomes the one that asks.                                      *)
LEMMA AskerKeeps ==
    ASSUME RevInv, NEW r \in RevRequests, CreateEntry(r) \/ BecomeRefresher(r)
    PROVE  RevInv'
<1>0. RevTypeOK BY DEF RevInv
<1>1. UNCHANGED <<world, member, granted, checks>> /\ check[r].at = "check"
  BY DEF CreateEntry, BecomeRefresher, store
<1>2. /\ member \in Member /\ granted \in BOOLEAN /\ checks \in 0 .. MaxChecks /\ now \in Time
      /\ check[r] \in CheckRow
  BY <1>0 DEF RevTypeOK
<1>3. PICK k : k = [check[r] EXCEPT !.at = "call", !.stamp = now] OBVIOUS
<1>4. check' = [check EXCEPT ![r] = k] BY <1>3 DEF CreateEntry, BecomeRefresher
<1>5. k \in CheckRow /\ k.at = "call" /\ k.stamp = now /\ k.u = check[r].u BY <1>2, <1>3 DEF CheckRow
<1>6. check[r].u.cred \in 0 .. MaxCred BY <1>2 DEF CheckRow, Member
<1>7. entry' \in RevEntry /\ entry'.inflight /\ (entry = Nil \/ ~entry.inflight)
      /\ (~preUpgrade => EntryGood(entry'))
  <2>1. CASE CreateEntry(r)
    <3>1. PICK e : e = [state |-> "new", groups |-> FALSE, checkedAt |-> now, lastGood |-> Nil,
                        expiresAt |-> 0, inflight |-> TRUE, cred |-> check[r].u.cred]
      OBVIOUS
    <3>2. /\ e \in RevEntry /\ e.inflight = TRUE /\ e.lastGood = Nil /\ e.groups = FALSE
          /\ e.state = "new"
      BY <1>2, <1>6, <3>1 DEF RevEntry
    <3>3. entry' = e /\ entry = Nil BY <2>1, <3>1 DEF CreateEntry
    <3>4. QED BY <3>2, <3>3 DEF EntryGood
  <2>2. CASE BecomeRefresher(r)
    <3>1. entry \in RevEntry /\ ~entry.inflight BY <1>0, <2>2 DEF RevTypeOK, BecomeRefresher
    <3>2. PICK e : e = [entry EXCEPT !.inflight = TRUE, !.cred = check[r].u.cred] OBVIOUS
    <3>3. /\ e \in RevEntry /\ e.inflight = TRUE /\ e.lastGood = entry.lastGood
          /\ e.groups = entry.groups /\ e.state = entry.state /\ e.expiresAt = entry.expiresAt
      BY <1>6, <3>1, <3>2 DEF RevEntry
    <3>4. entry' = e BY <2>2, <3>2 DEF BecomeRefresher
    <3>5. ~preUpgrade => EntryGood(entry) BY <3>1, NilNotRev DEF RevInv, Timely
    <3>6. QED BY <3>1, <3>3, <3>4, <3>5 DEF EntryGood
  <2>3. QED BY <2>1, <2>2
<1>8. CheckGood(k) <=> check[r].u.cred # 0
  <2>1. now \in Nat BY <1>2, RevAssumption DEF Time
  <2>2. QED BY <1>5, <2>1 DEF CheckGood, Asking
<1>9. ~preUpgrade => member.cred # 0 /\ CheckGood(k)
  BY <1>1, <1>8 DEF RevInv, Timely, CheckGood
<1>10. entry' # Nil BY <1>7, NilNotRev
<1>11. QED BY <1>1, <1>2, <1>4, <1>5, <1>7, <1>9, <1>10, RequestStep

(* The checks before the call: a follower vouches for what it reads.         *)
LEMMA LookKeeps ==
    ASSUME RevInv, NEW r \in RevRequests, LookBeforeCall(r)
    PROVE  RevInv'
<1>0. RevTypeOK BY DEF RevInv
<1>1. UNCHANGED <<world, member, granted, checks, entry>> /\ check[r].at = "call"
  BY DEF LookBeforeCall, store
<1>2. /\ member \in Member /\ granted \in BOOLEAN /\ checks \in 0 .. MaxChecks
      /\ check[r] \in CheckRow /\ (entry = Nil \/ entry \in RevEntry)
  BY <1>0 DEF RevTypeOK
<1>3. PICK a : a = Decided(check[r].u) OBVIOUS
<1>4. a \in Answers \cup {Nil} BY <1>3 DEF Decided, Answers
<1>5. PICK at \in {"ask", "record"} : at = IF a = Nil THEN "ask" ELSE "record" OBVIOUS
<1>6. PICK k : k = [check[r] EXCEPT !.at = at, !.answer = a] OBVIOUS
<1>7. /\ k \in CheckRow /\ k.at = at /\ k.answer = a /\ k.u = check[r].u
      /\ k.stamp = check[r].stamp
  BY <1>2, <1>4, <1>5, <1>6 DEF CheckRow
<1>8. Asking(check[r]) BY <1>1 DEF Asking
<1>9. entry # Nil /\ entry.inflight BY <1>8 DEF RevInv, OneAsks
<1>10. ASSUME ~preUpgrade PROVE CheckGood(k)
  <2>1. CheckGood(check[r]) BY <1>10 DEF RevInv, Timely
  <2>2. check[r].u.cred # 0 /\ check[r].stamp <= now BY <1>1, <1>8, <2>1 DEF CheckGood
  <2>3. at = "record" => /\ a \notin {"noCredential", "full", "reduced"}
                         /\ a = "notLeader" => oauthProvider = "oidc" /\ ~leads
    BY <1>3, <1>5, <2>2 DEF Decided
  <2>4. QED BY <1>7, <2>2, <2>3 DEF CheckGood
<1>11. ~preUpgrade => member.cred # 0 /\ (entry # Nil => EntryGood(entry)) BY DEF RevInv, Timely
<1>12. check' = [check EXCEPT ![r] = k] BY <1>3, <1>5, <1>6 DEF LookBeforeCall
<1>13. QED BY <1>1, <1>2, <1>7, <1>8, <1>9, <1>10, <1>11, <1>12, RequestStep

(* A request that has its answer: a confirmation is from before the user is   *)
(* lost.                                                                     *)
LEMMA AnswerKeeps ==
    ASSUME RevInv, NEW r \in RevRequests, check[r].at = "ask",
           NEW u \in Member, NEW a \in Answers, u.cred = check[r].u.cred \/ u.cred # 0,
           check' = [check EXCEPT ![r] = [check[r] EXCEPT !.at = "record", !.u = u, !.answer = a]],
           UNCHANGED <<world, store, entry, checks>>,
           a # "noCredential", a \in {"full", "reduced"} => idp # "out",
           a = "notLeader" => oauthProvider = "oidc" /\ ~leads
    PROVE  RevInv'
<1>0. RevTypeOK BY DEF RevInv
<1>1. UNCHANGED <<world, member, granted, checks, entry>> BY DEF store
<1>2. /\ member \in Member /\ granted \in BOOLEAN /\ checks \in 0 .. MaxChecks
      /\ check[r] \in CheckRow /\ (entry = Nil \/ entry \in RevEntry)
  BY <1>0 DEF RevTypeOK
<1>3. PICK k : k = [check[r] EXCEPT !.at = "record", !.u = u, !.answer = a] OBVIOUS
<1>4. /\ k \in CheckRow /\ k.at = "record" /\ k.answer = a /\ k.u = u
      /\ k.stamp = check[r].stamp
  BY <1>2, <1>3 DEF CheckRow
<1>5. Asking(check[r]) BY DEF Asking
<1>6. entry' # Nil /\ entry'.inflight /\ entry' = entry BY <1>1, <1>5 DEF RevInv, OneAsks
<1>7. ASSUME ~preUpgrade PROVE CheckGood(k)
  <2>1. CheckGood(check[r]) BY <1>7 DEF RevInv, Timely
  <2>2. u.cred # 0 /\ check[r].stamp <= now BY <1>5, <2>1 DEF CheckGood
  <2>3. QED BY <1>4, <2>2 DEF CheckGood
<1>8. ~preUpgrade => member'.cred # 0 /\ (entry' # Nil => EntryGood(entry'))
  BY <1>1 DEF RevInv, Timely
<1>9. check' = [check EXCEPT ![r] = k] BY <1>3
<1>10. /\ UNCHANGED world /\ checks' \in 0 .. MaxChecks /\ member' \in Member
       /\ granted' \in BOOLEAN /\ (entry' = Nil \/ entry' \in RevEntry)
  BY <1>1, <1>2
<1>12. QED BY <1>4, <1>5, <1>6, <1>7, <1>8, <1>9, <1>10, RequestStep

LEMMA AskKeeps ==
    ASSUME RevInv, NEW r \in RevRequests, AskIdp(r)
    PROVE  RevInv'
<1>0. RevTypeOK BY DEF RevInv
<1>1. check[r] \in CheckRow /\ idp \in {"full", "reduced", "out"} BY <1>0 DEF RevTypeOK
<1>2. PICK a \in Outcomes : check' = [check EXCEPT ![r] = [check[r] EXCEPT !.at = "record", !.answer = a]]
  BY DEF AskIdp
<1>3. PICK u : u = check[r].u OBVIOUS
<1>4. u \in Member BY <1>1, <1>3 DEF CheckRow
<1>5. [check[r] EXCEPT !.at = "record", !.answer = a] = [check[r] EXCEPT !.at = "record", !.u = u, !.answer = a]
  BY <1>1, <1>3 DEF CheckRow
<1>6. /\ a \in Answers /\ a \notin {"noCredential", "notLeader"}
      /\ a \in {"full", "reduced"} => idp # "out"
  BY <1>1, <1>2 DEF Outcomes, Membership, Answers
<1>7. check[r].at = "ask" /\ UNCHANGED <<world, store, entry, checks>> BY DEF AskIdp
<1>8. QED BY <1>2, <1>3, <1>4, <1>5, <1>6, <1>7, AnswerKeeps

(* A rotation that finds the leadership lost.                                *)
LEMMA LostKeeps ==
    ASSUME RevInv, NEW r \in RevRequests, RotationLost(r)
    PROVE  RevInv'
<1>0. RevTypeOK BY DEF RevInv
<1>1. check[r] \in CheckRow /\ check[r].u \in Member /\ check[r].u.cred \in 1 .. MaxCred - 1
      /\ MaxCred \in Nat
  BY <1>0, RevAssumption DEF RevTypeOK, CheckRow, RotationLost, Rotates
<1>2. PICK a \in {"notLeader", "unreachable"} :
         check' = [check EXCEPT ![r].u.cred = @ + 1, ![r].at = "record", ![r].answer = a]
  BY DEF RotationLost
<1>3. PICK u : u = [check[r].u EXCEPT !.cred = check[r].u.cred + 1] OBVIOUS
<1>4. check[r].u.cred + 1 \in 0 .. MaxCred /\ check[r].u.cred + 1 # 0 BY <1>1
<1>5. u \in Member /\ u.cred # 0 BY <1>1, <1>3, <1>4 DEF Member
<1>6. check' = [check EXCEPT ![r] = [check[r] EXCEPT !.at = "record", !.u = u, !.answer = a]]
  BY <1>0, <1>1, <1>2, <1>3 DEF RevTypeOK, CheckRow
<1>7. a \in Answers BY DEF Answers
<1>8. /\ check[r].at = "ask" /\ oauthProvider = "oidc" /\ ~leads
      /\ UNCHANGED <<world, store, entry, checks>>
  BY DEF RotationLost, Rotates
<1>9. QED BY <1>5, <1>6, <1>7, <1>8, AnswerKeeps

LEMMA RotateKeeps ==
    ASSUME RevInv, NEW r \in RevRequests, SaveRotated(r)
    PROVE  RevInv'
<1>0. RevTypeOK BY DEF RevInv
<1>1. UNCHANGED <<world, granted, checks, entry>> /\ check[r].at = "ask" BY DEF SaveRotated, Rotates
<1>2. /\ granted \in BOOLEAN /\ checks \in 0 .. MaxChecks
      /\ check[r] \in CheckRow /\ (entry = Nil \/ entry \in RevEntry)
  BY <1>0 DEF RevTypeOK
<1>3. check[r].u \in Member /\ check[r].u.cred \in 1 .. MaxCred - 1 /\ MaxCred \in Nat
  BY <1>2, RevAssumption DEF CheckRow, SaveRotated, Rotates
<1>4. PICK u : u = [check[r].u EXCEPT !.cred = check[r].u.cred + 1] OBVIOUS
<1>5. check[r].u.cred + 1 \in 0 .. MaxCred /\ check[r].u.cred + 1 # 0 BY <1>3
<1>6. u \in Member /\ u.cred # 0 BY <1>3, <1>4, <1>5 DEF Member
<1>7. member' = u /\ check' = [check EXCEPT ![r] = [check[r] EXCEPT !.u = u]]
  BY <1>4 DEF SaveRotated
<1>8. PICK k : k = [check[r] EXCEPT !.u = u] OBVIOUS
<1>9. k \in CheckRow /\ k.at = "ask" /\ k.u = u /\ k.stamp = check[r].stamp
  BY <1>1, <1>2, <1>6, <1>8 DEF CheckRow
<1>10. Asking(check[r]) BY <1>1 DEF Asking
<1>11. entry # Nil /\ entry.inflight BY <1>10 DEF RevInv, OneAsks
<1>12. ~preUpgrade => CheckGood(k) /\ (entry # Nil => EntryGood(entry))
  BY <1>6, <1>9, <1>10 DEF RevInv, Timely, CheckGood
<1>13. check' = [check EXCEPT ![r] = k] BY <1>7, <1>8
<1>14. QED BY <1>1, <1>2, <1>6, <1>7, <1>9, <1>10, <1>11, <1>12, <1>13, RequestStep

(* The result is stored: it is good news only when the IdP said so, and then  *)
(* it carries the time at which the check began.                             *)
LEMMA RecordKeeps ==
    ASSUME RevInv, NEW r \in RevRequests, Record(r)
    PROVE  RevInv'
<1>0. RevTypeOK BY DEF RevInv
<1>1. UNCHANGED <<world, checks>> /\ check[r].at = "record" BY DEF Record
<1>2. /\ member \in Member /\ granted \in BOOLEAN /\ checks \in 0 .. MaxChecks
      /\ check[r] \in CheckRow
  BY <1>0 DEF RevTypeOK
<1>3. Asking(check[r]) BY <1>1 DEF Asking
<1>4. entry \in RevEntry /\ entry # Nil /\ entry.inflight BY <1>0, <1>3 DEF RevInv, OneAsks, RevTypeOK
<1>5. PICK a, u, st : a = check[r].answer /\ u = check[r].u /\ st = check[r].stamp OBVIOUS
<1>6. a \in Answers \cup {Nil} /\ u \in Member /\ st \in Time BY <1>2, <1>5 DEF CheckRow
<1>7. PICK verified \in BOOLEAN : verified = (a = "full" \/ a = "reduced") OBVIOUS
<1>8. PICK revokes \in BOOLEAN : revokes = (State(a) = "revoked" /\ ~u.deact) OBVIOUS
<1>9. PICK d \in BOOLEAN : d = (u.deact \/ revokes) OBVIOUS
<1>10. u.managed \in BOOLEAN /\ u.cred \in 0 .. MaxCred BY <1>6 DEF Member
<1>11. PICK g : g = IF leads /\ verified THEN a = "full" ELSE u.managed OBVIOUS
<1>12. g \in BOOLEAN
  <2>1. (a = "full") \in BOOLEAN OBVIOUS
  <2>2. QED BY <1>10, <1>11, <2>1
<1>13. PICK u1 : u1 = [u EXCEPT !.deact = d, !.managed = g] OBVIOUS
<1>14. u1 \in Member /\ u1.cred = u.cred BY <1>6, <1>9, <1>12, <1>13 DEF Member
<1>15. member' \in {member, u1} BY <1>5, <1>7, <1>8, <1>9, <1>11, <1>13 DEF Record
<1>16. granted' \in BOOLEAN
  <2>1. (granted \/ ~u.managed) \in BOOLEAN /\ (granted /\ ~u.managed) \in BOOLEAN
    BY <1>2, <1>10, Booleans, Zenon
  <2>2. granted' = IF ~leads \/ ~verified THEN granted
                   ELSE IF a = "full" THEN granted \/ ~u.managed ELSE granted /\ ~u.managed
    BY <1>5, <1>7 DEF Record
  <2>3. QED BY <1>2, <2>1, <2>2
<1>17. PICK good \in BOOLEAN : good = (State(a) = "ok" \/ a = "notLeader") OBVIOUS
<1>18. PICK cr, gr, lg : /\ cr = IF verified THEN u.cred ELSE entry.cred
                         /\ gr = IF good THEN granted' ELSE entry.groups
                         /\ lg = IF good THEN st ELSE entry.lastGood
  OBVIOUS
<1>19. PICK ex :
          /\ \E j \in -Jitter .. Jitter : ex = st + TTL(State(a)) + j
          /\ entry' = [entry EXCEPT !.state = State(a), !.inflight = FALSE, !.cred = cr,
                         !.checkedAt = st, !.expiresAt = ex, !.groups = gr, !.lastGood = lg]
  <2>1. PICK j \in -Jitter .. Jitter :
          entry' = [entry EXCEPT
             !.state = State(a), !.inflight = FALSE,
             !.cred = IF a \in {"full", "reduced"} THEN u.cred ELSE @,
             !.checkedAt = st, !.expiresAt = st + TTL(State(a)) + j,
             !.groups = IF State(a) = "ok" \/ a = "notLeader" THEN granted' ELSE @,
             !.lastGood = IF State(a) = "ok" \/ a = "notLeader" THEN st ELSE @]
    BY <1>5 DEF Record, CheckedAt
  <2>2. (IF a \in {"full", "reduced"} THEN u.cred ELSE entry.cred) = cr BY <1>7, <1>18
  <2>3. /\ (IF State(a) = "ok" \/ a = "notLeader" THEN granted' ELSE entry.groups) = gr
        /\ (IF State(a) = "ok" \/ a = "notLeader" THEN st ELSE entry.lastGood) = lg
    BY <1>17, <1>18
  <2>4. QED BY <2>1, <2>2, <2>3
<1>20. /\ Interval \in Nat /\ Jitter \in Nat /\ st \in Nat
       /\ TTL(State(a)) \in Nat
  BY <1>6, RevAssumption DEF Time, TTL
<1>21. ex \in Int /\ (State(a) = "ok" => ex <= st + Interval + Jitter)
  BY <1>19, <1>20 DEF TTL
<1>22. State(a) \in {"ok", "revoked", "unavailable", "expired"} BY DEF State
<1>23. cr \in 0 .. MaxCred /\ gr \in BOOLEAN /\ lg \in Time \cup {Nil}
  <2>1. entry.cred \in 0 .. MaxCred /\ entry.groups \in BOOLEAN /\ entry.lastGood \in Time \cup {Nil}
    BY <1>4 DEF RevEntry
  <2>2. QED BY <1>6, <1>10, <1>16, <1>18, <2>1
<1>24. /\ entry' \in RevEntry /\ entry'.state = State(a) /\ entry'.groups = gr
       /\ entry'.lastGood = lg /\ entry'.expiresAt = ex
  <2>1. PICK s \in {"ok", "revoked", "unavailable", "expired"} : s = State(a) BY <1>22
  <2>2. entry' = [entry EXCEPT !.state = s, !.inflight = FALSE, !.cred = cr,
                    !.checkedAt = st, !.expiresAt = ex, !.groups = gr, !.lastGood = lg]
    BY <1>19, <2>1
  <2>3. entry' \in RevEntry /\ entry'.state = s /\ entry'.groups = gr
        /\ entry'.lastGood = lg /\ entry'.expiresAt = ex
    BY <1>4, <1>6, <1>21, <1>23, <2>2 DEF RevEntry
  <2>4. QED BY <2>1, <2>3
<1>25. PICK k : k = [NoCheck EXCEPT !.at = "check", !.u = u1] OBVIOUS
<1>26. k \in CheckRow /\ k.at = "check" /\ k.u = u1 BY <1>14, <1>25, NoCheckTyped DEF CheckRow
<1>27. check' = [check EXCEPT ![r] = k]
  BY <1>5, <1>7, <1>8, <1>9, <1>11, <1>13, <1>25 DEF Record
<1>28. ASSUME ~preUpgrade
       PROVE  member'.cred # 0 /\ CheckGood(k) /\ EntryGood(entry')
  <2>1. CheckGood(check[r]) /\ EntryGood(entry) /\ member.cred # 0 BY <1>4, <1>28 DEF RevInv, Timely
  <2>2. /\ u.cred # 0 /\ st <= now /\ a # "noCredential"
        /\ a \in {"full", "reduced"} /\ idp = "out" => st <= lostAt
        /\ a = "notLeader" => oauthProvider = "oidc" /\ (leads => st <= ledSince)
    BY <1>1, <1>3, <1>5, <2>1 DEF CheckGood
  <2>3. State(a) = "ok" => a \in {"full", "reduced"} BY <2>2 DEF State
  <2>4. st # Nil BY <1>6, NilNotRev
  <2>5. CASE good
    <3>1. lg = st BY <1>18, <2>5
    <3>2. a \in {"full", "reduced"} \/ a = "notLeader" BY <1>17, <2>3, <2>5
    <3>3. ASSUME idp = "out", Verifies PROVE st <= VerifiesSince
      <4>1. lostAt \in Nat /\ st \in Nat /\ (leads => ledSince \in Nat)
        BY <1>0, <1>6, <3>3, RevAssumption DEF RevInv, RevTypeOK, LostKnown, Time, leads
      <4>2. CASE a \in {"full", "reduced"}
        <5>1. st <= lostAt BY <2>2, <3>3, <4>2
        <5>2. oauthProvider = "oidc" => ledSince \in Nat BY <3>3, <4>1 DEF Verifies
        <5>3. QED BY <4>1, <5>1, <5>2 DEF VerifiesSince
      <4>3. CASE a = "notLeader"
        <5>1. oauthProvider = "oidc" /\ leads /\ st <= ledSince BY <2>2, <3>3, <4>3 DEF Verifies
        <5>2. QED BY <4>1, <5>1 DEF VerifiesSince
      <4>4. QED BY <3>2, <4>2, <4>3
    <3>4. EntryGood(entry') BY <1>21, <1>24, <2>2, <2>4, <3>1, <3>3 DEF EntryGood
    <3>5. QED BY <1>14, <1>15, <1>26, <2>1, <2>2, <3>4 DEF CheckGood, Asking
  <2>6. CASE ~good
    <3>1. lg = entry.lastGood /\ gr = entry.groups /\ State(a) # "ok" BY <1>17, <1>18, <2>6
    <3>2. EntryGood(entry') BY <1>24, <2>1, <3>1 DEF EntryGood
    <3>3. QED BY <1>14, <1>15, <1>26, <2>1, <2>2, <3>2 DEF CheckGood, Asking
  <2>7. QED BY <2>5, <2>6
<1>29. ~Asking(k) BY <1>26 DEF Asking
<1>30. member' \in Member BY <1>2, <1>14, <1>15
<1>31. QED BY <1>1, <1>2, <1>3, <1>16, <1>24, <1>26, <1>27, <1>28, <1>29, <1>30, RequestStep

LEMMA RevNextInv == RevInv /\ [RevNext]_revVars => RevInv'
<1> SUFFICES ASSUME RevInv, [RevNext]_revVars PROVE RevInv' OBVIOUS
<1>1. CASE UNCHANGED revVars
  BY <1>1 DEF RevInv, RevTypeOK, OneAsks, LostKnown, Timely, CheckGood, EntryGood, Asking, Verifies,
              VerifiesSince, leads, revVars
<1>2. CASE Tick \/ RoleChanges \/ (\E x \in {"full", "reduced", "out"} : IdpChanges(x)) BY <1>2, WorldKeeps
<1>3. CASE OAuthLogin \/ LeaderReconciles \/ SweepEntry BY <1>3, StoreKeeps
<1>4. ASSUME NEW r \in RevRequests, Arrive(r) \/ RevStep(r) \/ SaveRotated(r) \/ RotationLost(r) \/ GiveUp(r)
      PROVE  RevInv'
  BY <1>4, EndsKeep, AskerKeeps, LookKeeps, AskKeeps, RotateKeeps, LostKeeps, RecordKeeps DEF RevStep
<1>5. QED BY <1>1, <1>2, <1>3, <1>4 DEF RevNext

(* The invariant holds in every state the revalidator can reach.             *)
THEOREM RevInductive == RevSpec => []RevInv
BY RevInitInv, RevNextInv, PTL DEF RevSpec

(* Entries, answers and credentials stay what Check and Revalidate make them, *)
(* for any interval, grace and number of requests.                           *)
THEOREM RevTypeHolds == RevSpec => []RevTypeOK
<1>1. RevInv => RevTypeOK BY DEF RevInv
<1>2. QED BY <1>1, RevInductive, PTL

(* A request that is answered from the cache with access: the entry is from   *)
(* before the user was lost, or from before the pod led, and not older than   *)
(* its kind may be.                                                          *)
LEMMA AllowedInTime ==
    ASSUME RevInv, RevNext, NEW r \in RevRequests, Allowed(r), Verifies, ~FailOpen, ~preUpgrade,
           idp = "out"
    PROVE  now <= VerifiesSince + Staleness
<1>0. RevTypeOK /\ LostKnown /\ Timely BY DEF RevInv
<1>1. /\ check \in [RevRequests -> CheckRow] /\ check[r].at = "check" /\ check'[r].at = "idle"
      /\ ~entry.inflight /\ Serve # "deny"
  BY <1>0 DEF RevTypeOK, Allowed
<1>2. ServeCached(r)
  <2>1. check' # check BY <1>1
  <2>2. PICK s \in RevRequests :
           Arrive(s) \/ RevStep(s) \/ SaveRotated(s) \/ RotationLost(s) \/ GiveUp(s)
    BY <2>1 DEF RevNext, Tick, RoleChanges, OAuthLogin, LeaderReconciles, SweepEntry, IdpChanges
  <2>3. s = r BY <1>1, <2>2 DEF RevStep, CreateEntry, ServeCached, BecomeRefresher, LookBeforeCall,
                  AskIdp, Record, Arrive, SaveRotated, RotationLost, GiveUp
  <2>4. /\ ~Arrive(r) /\ ~LookBeforeCall(r) /\ ~AskIdp(r) /\ ~SaveRotated(r) /\ ~RotationLost(r)
        /\ ~Record(r) /\ ~GiveUp(r)
    BY <1>1 DEF Arrive, LookBeforeCall, AskIdp, SaveRotated, RotationLost, Rotates, Record, GiveUp
  <2>5. ~CreateEntry(r) /\ ~BecomeRefresher(r)
    BY <1>1 DEF CreateEntry, BecomeRefresher, CheckRow
  <2>6. QED BY <2>2, <2>3, <2>4, <2>5 DEF RevStep
<1>3. entry \in RevEntry /\ entry # Nil /\ Fresh(check[r].u) BY <1>0, <1>2 DEF ServeCached, RevTypeOK
<1>4. EntryGood(entry) BY <1>0, <1>3 DEF Timely
<1>5. /\ now \in Nat /\ Interval \in Nat /\ Jitter \in Nat /\ Grace \in Nat
  BY <1>0, RevAssumption DEF RevTypeOK, Time
<1>6. VerifiesSince \in Nat
  BY <1>0, RevAssumption DEF RevTypeOK, LostKnown, Time, VerifiesSince, Verifies, leads
<1>7. entry.lastGood \in Time \cup {Nil} /\ entry.expiresAt \in Int /\ now < entry.expiresAt
  BY <1>3 DEF RevEntry, Fresh
<1>8. CASE entry.state = "ok"
  <2>1. entry.lastGood \in Nat /\ entry.lastGood <= VerifiesSince
        /\ entry.expiresAt <= entry.lastGood + Interval + Jitter
    BY <1>4, <1>7, <1>8, RevAssumption DEF EntryGood, Time
  <2>2. now <= VerifiesSince + Interval + Jitter BY <1>5, <1>6, <1>7, <2>1
  <2>3. QED BY <1>5, <1>6, <2>2 DEF Staleness
<1>9. CASE entry.state # "ok"
  <2>1. entry.groups /\ now - entry.lastGood <= Grace BY <1>1, <1>9 DEF Serve
  <2>2. entry.lastGood \in Nat /\ entry.lastGood <= VerifiesSince
    BY <1>4, <1>7, <2>1, RevAssumption DEF EntryGood, Time
  <2>3. now <= VerifiesSince + Grace BY <1>5, <1>6, <2>1, <2>2
  <2>4. QED BY <1>5, <1>6, <2>3 DEF Staleness
<1>10. QED BY <1>8, <1>9

(* OAuthRevalidator: where the IdP is asked (by every pod for GitHub, by the  *)
(* leader for OIDC), a user with a stored credential whom the IdP has removed *)
(* is refused after the interval and its jitter, or after the grace period,   *)
(* whichever is longer, counted from the removal or from the moment the pod   *)
(* took over, whatever fails, whoever waits and however often the leader      *)
(* changes.                                                                  *)
THEOREM StalenessBounded == RevSpec => RevStalenessBounded
<1> DEFINE InTime == \A r \in RevRequests :
              Allowed(r) /\ Verifies /\ ~FailOpen /\ ~preUpgrade /\ idp = "out"
                => now <= VerifiesSince + Staleness
<1>1. RevInv /\ [RevNext]_revVars => [InTime]_revVars
  <2> SUFFICES ASSUME RevInv, RevNext PROVE InTime OBVIOUS
  <2>1. QED BY AllowedInTime
<1> HIDE DEF InTime
<1>2. RevSpec => [][InTime]_revVars BY <1>1, RevInductive, PTL DEF RevSpec
<1>3. QED BY <1>2 DEF InTime, RevStalenessBounded, Verifies

-----------------------------------------------------------------------------
(* What an answer stands for: the user was deactivated when the check read it, *)
(* only GitHub's first call can end as a revocation without an answer of the   *)
(* IdP, and the IdP forbids only a user it has changed.                       *)
Verdict(k) ==
    /\ k.at = "ask" => ~k.u.deact
    /\ k.at = "record" => /\ k.answer = "deactivated" <=> k.u.deact
                          /\ k.answer = "userUnreachable" => oauthProvider = "github"
                          /\ k.answer = "forbidden" => changes # 0

Verdicts == \A r \in RevRequests : Verdict(check[r])

(* An OIDC user the IdP has never changed is not deactivated, and no check in  *)
(* flight has read otherwise.                                                *)
Undisturbed ==
    changes = 0
      => /\ idp = "full"
         /\ oauthProvider = "oidc" => ~member.deact /\ \A r \in RevRequests : ~check[r].u.deact

(* oauth_revalidator.go refresh: on the leader, an OIDC user is deactivated    *)
(* only by a check the IdP answered with a refusal: no outage, expired or      *)
(* rotated credential, waiting request or login does it.                     *)
DeactivatedByVerdict ==
    [][leads /\ oauthProvider = "oidc" /\ ~member.deact /\ member'.deact
         => \E r \in RevRequests : check[r].at = "record" /\ check[r].answer = "forbidden"]_revVars

(* docs/README.md:1290 "IdP unreachable (transport) | stateUnavailable | same  *)
(* grace/fail policy": what UnreachableKeepsAccount says, for OIDC users.      *)
OidcUnreachableKeeps ==
    [][\A r \in RevRequests :
         oauthProvider = "oidc" /\ check[r].at = "record"
           /\ check[r].answer \in {"unreachable", "userUnreachable"} /\ check'[r].at = "check"
           => member'.deact = member.deact]_revVars

(* The user of an OIDC provider that has always allowed it keeps the account.  *)
AllowedKeepAccount == oauthProvider = "oidc" /\ changes = 0 => ~member.deact

-----------------------------------------------------------------------------
LEMMA VerdictInit == RevInit => Verdicts /\ Undisturbed
<1> SUFFICES ASSUME RevInit PROVE Verdicts /\ Undisturbed OBVIOUS
<1>1. \A r \in RevRequests : check[r].at = "idle" /\ check[r].u.deact = FALSE
  BY DEF RevInit, NoCheck
<1>2. member.deact = FALSE /\ idp = "full" BY DEF RevInit
<1>3. QED BY <1>1, <1>2 DEF Verdicts, Verdict, Undisturbed

(* A step of request r, whose row becomes k.                                  *)
LEMMA VerdictStep ==
    ASSUME RevTypeOK, Verdicts, Undisturbed, NEW r \in RevRequests, NEW k,
           check' = [check EXCEPT ![r] = k], UNCHANGED world, Verdict(k),
           oauthProvider = "oidc" /\ changes = 0 => ~k.u.deact /\ ~member'.deact
    PROVE  Verdicts' /\ Undisturbed'
<1>1. \A s \in RevRequests : check'[s] = IF s = r THEN k ELSE check[s] BY DEF RevTypeOK
<1>2. UNCHANGED <<oauthProvider, changes, idp>> BY DEF world
<1>3. ASSUME NEW s \in RevRequests PROVE Verdict(check[s])'
  <2>1. Verdict(check'[s]) BY <1>1 DEF Verdicts
  <2>2. QED BY <1>2, <2>1 DEF Verdict
<1>4. Verdicts' BY <1>3 DEF Verdicts
<1>5. Undisturbed' BY <1>1, <1>2 DEF Undisturbed
<1>6. QED BY <1>4, <1>5

LEMMA VerdictWorld ==
    ASSUME RevTypeOK, Verdicts, Undisturbed,
           \/ Tick \/ RoleChanges \/ OAuthLogin \/ LeaderReconciles \/ SweepEntry
           \/ \E x \in {"full", "reduced", "out"} : IdpChanges(x)
    PROVE  Verdicts' /\ Undisturbed'
<1>1. check' = check /\ oauthProvider' = oauthProvider
  BY DEF Tick, RoleChanges, OAuthLogin, LeaderReconciles, SweepEntry, IdpChanges, world
<1>2. changes \in Nat /\ changes' \in Nat /\ (changes' = changes \/ changes' = changes + 1)
  <2>1. changes \in Nat BY RevAssumption DEF RevTypeOK
  <2>2. CASE \E x \in {"full", "reduced", "out"} : IdpChanges(x) BY <2>1, <2>2 DEF IdpChanges
  <2>3. CASE Tick \/ RoleChanges \/ OAuthLogin \/ LeaderReconciles \/ SweepEntry
    BY <2>1, <2>3 DEF Tick, RoleChanges, OAuthLogin, LeaderReconciles, SweepEntry, world
  <2>4. QED BY <2>2, <2>3
<1>3. ASSUME NEW s \in RevRequests PROVE Verdict(check[s])'
  <2>1. Verdict(check'[s]) BY <1>1 DEF Verdicts
  <2>2. QED BY <1>1, <1>2, <2>1 DEF Verdict
<1>4. Verdicts' BY <1>3 DEF Verdicts
<1>5. ASSUME changes' = 0
      PROVE  idp' = "full" /\ (oauthProvider' = "oidc" => ~member'.deact)
  <2>1. changes = 0 /\ idp = "full" /\ (oauthProvider = "oidc" => ~member.deact)
    BY <1>1, <1>2, <1>5 DEF Undisturbed
  <2>0. oauthProvider' = oauthProvider BY <1>1
  <2>2. CASE Tick \/ RoleChanges \/ SweepEntry
    BY <2>0, <2>1, <2>2 DEF Tick, RoleChanges, SweepEntry, store, world
  <2>3. CASE OAuthLogin
    <3>1. member'.deact = FALSE /\ idp' = idp BY <2>3 DEF OAuthLogin, world
    <3>2. QED BY <2>1, <3>1
  <2>4. CASE LeaderReconciles
    <3>1. PICK d \in BOOLEAN : d = (member.deact \/ idp = "out") OBVIOUS
    <3>2. PICK b \in BOOLEAN : b = (idp = "full") OBVIOUS
    <3>3. member' = [member EXCEPT !.deact = d, !.managed = b] /\ idp' = idp
      BY <2>4, <3>1, <3>2 DEF LeaderReconciles, world
    <3>4. member'.deact = d BY <3>3 DEF RevTypeOK, Member
    <3>5. oauthProvider = "oidc" => ~d BY <2>1, <3>1
    <3>6. QED BY <2>0, <2>1, <3>3, <3>4, <3>5
  <2>5. ASSUME NEW x \in {"full", "reduced", "out"}, IdpChanges(x) PROVE FALSE
    BY <1>2, <1>5, <2>5 DEF IdpChanges
  <2>6. QED BY <2>2, <2>3, <2>4, <2>5
<1>6. Undisturbed' 
  <2>1. changes' = 0 => changes = 0 BY <1>2
  <2>2. QED BY <1>1, <1>5, <2>1 DEF Undisturbed
<1>7. QED BY <1>4, <1>6

(* Record: what becomes of the user.                                          *)
LEMMA RecordWrites ==
    ASSUME RevTypeOK, NEW r \in RevRequests, Record(r), Verdict(check[r])
    PROVE  /\ \E k : /\ check' = [check EXCEPT ![r] = k] /\ k.at = "check"
                     /\ k.u.deact => \/ check[r].u.deact
                                     \/ check[r].answer \in {"forbidden", "userUnreachable"}
           /\ check[r].answer \in {"unreachable", "notLeader", "expired"} => member' = member
           /\ member'.deact => \/ member.deact
                               \/ check[r].answer \in {"forbidden", "userUnreachable"}
<1>1. check[r] \in CheckRow /\ check[r].at = "record" BY DEF RevTypeOK, Record
<1>2. PICK a, u : a = check[r].answer /\ u = check[r].u OBVIOUS
<1>3. u \in Member BY <1>1, <1>2 DEF CheckRow
<1>4. PICK verified \in BOOLEAN : verified = (a = "full" \/ a = "reduced") OBVIOUS
<1>5. PICK revokes \in BOOLEAN : revokes = (State(a) = "revoked" /\ ~u.deact) OBVIOUS
<1>6. PICK d \in BOOLEAN : d = (u.deact \/ revokes) OBVIOUS
<1>7. PICK g : g = IF leads /\ verified THEN a = "full" ELSE u.managed OBVIOUS
<1>8. PICK u1 : u1 = [u EXCEPT !.deact = d, !.managed = g] OBVIOUS
<1>9. u1.deact = d BY <1>3, <1>8 DEF Member
<1>10. member' = IF leads /\ (verified \/ revokes) THEN u1 ELSE member
  BY <1>2, <1>4, <1>5, <1>6, <1>7, <1>8 DEF Record
<1>11. PICK k : k = [NoCheck EXCEPT !.at = "check", !.u = u1] OBVIOUS
<1>12. check' = [check EXCEPT ![r] = k]
  BY <1>2, <1>4, <1>5, <1>6, <1>7, <1>8, <1>11 DEF Record
<1>13. k.at = "check" /\ k.u = u1 BY <1>11 DEF NoCheck
<1>14. a = "deactivated" <=> u.deact BY <1>1, <1>2 DEF Verdict
<1>15. revokes => a \in {"forbidden", "userUnreachable"} BY <1>5, <1>14 DEF State
<1>16. d => u.deact \/ a \in {"forbidden", "userUnreachable"} BY <1>6, <1>15
<1>17. a \in {"unreachable", "notLeader", "expired"} => ~verified /\ ~revokes BY <1>4, <1>15
<1>18. verified /\ ~revokes => ~d BY <1>4, <1>6, <1>14
<1>19. member'.deact => member.deact \/ a \in {"forbidden", "userUnreachable"}
  <2>1. CASE leads /\ revokes BY <1>15, <2>1
  <2>2. CASE leads /\ verified /\ ~revokes
    <3>1. member'.deact = d BY <1>9, <1>10, <2>2
    <3>2. QED BY <1>18, <2>2, <3>1
  <2>3. CASE ~(leads /\ (verified \/ revokes)) BY <1>10, <2>3
  <2>4. QED BY <2>1, <2>2, <2>3
<1>20. k.u.deact => check[r].u.deact \/ a \in {"forbidden", "userUnreachable"}
  BY <1>2, <1>9, <1>13, <1>16
<1>21. QED BY <1>2, <1>10, <1>12, <1>13, <1>17, <1>19, <1>20

LEMMA VerdictRequest ==
    ASSUME RevTypeOK, Verdicts, Undisturbed, NEW r \in RevRequests,
           Arrive(r) \/ RevStep(r) \/ SaveRotated(r) \/ RotationLost(r) \/ GiveUp(r)
    PROVE  Verdicts' /\ Undisturbed'
<1> DEFINE Calm == oauthProvider = "oidc" /\ changes = 0
<1>0. check[r] \in CheckRow /\ check \in [RevRequests -> CheckRow] BY DEF RevTypeOK
<1>1. UNCHANGED world
  BY DEF Arrive, RevStep, CreateEntry, ServeCached, BecomeRefresher, LookBeforeCall, AskIdp, Record,
         SaveRotated, RotationLost, GiveUp
<1>2. /\ Calm => ~member.deact /\ ~check[r].u.deact
      /\ changes = 0 => idp = "full"
  BY DEF Undisturbed
<1>3. CASE Arrive(r)
  <2>1. PICK k : k = [NoCheck EXCEPT !.at = "check", !.u = member] OBVIOUS
  <2>2. k.at = "check" /\ k.u = member BY <2>1 DEF NoCheck
  <2>3. check' = [check EXCEPT ![r] = k] /\ member' = member BY <1>3, <2>1 DEF Arrive, store
  <2>4. Verdict(k) BY <2>2 DEF Verdict
  <2>5. Calm => ~k.u.deact /\ ~member'.deact BY <1>2, <2>2, <2>3
  <2>6. QED BY <1>1, <2>3, <2>4, <2>5, VerdictStep
<1>4. CASE ServeCached(r) \/ GiveUp(r)
  <2>1. check' = [check EXCEPT ![r] = NoCheck] /\ member' = member BY <1>4 DEF ServeCached, GiveUp, store
  <2>2. NoCheck.at = "idle" /\ NoCheck.u.deact = FALSE BY DEF NoCheck
  <2>3. Verdict(NoCheck) BY <2>2 DEF Verdict
  <2>4. Calm => ~NoCheck.u.deact /\ ~member'.deact BY <1>2, <2>1, <2>2
  <2>5. QED BY <1>1, <2>1, <2>3, <2>4, VerdictStep
<1>5. CASE CreateEntry(r) \/ BecomeRefresher(r)
  <2>1. PICK k : k = [check[r] EXCEPT !.at = "call", !.stamp = now] OBVIOUS
  <2>2. k.at = "call" /\ k.u = check[r].u BY <1>0, <2>1 DEF CheckRow
  <2>3. check' = [check EXCEPT ![r] = k] /\ member' = member
    BY <1>5, <2>1 DEF CreateEntry, BecomeRefresher, store
  <2>4. Verdict(k) BY <2>2 DEF Verdict
  <2>5. Calm => ~k.u.deact /\ ~member'.deact BY <1>2, <2>2, <2>3
  <2>6. QED BY <1>1, <2>3, <2>4, <2>5, VerdictStep
<1>6. CASE LookBeforeCall(r)
  <2>1. PICK a, u : a = Decided(u) /\ u = check[r].u OBVIOUS
  <2>2. PICK k : k = [check[r] EXCEPT !.at = IF a = Nil THEN "ask" ELSE "record", !.answer = a] OBVIOUS
  <2>3. k.at = (IF a = Nil THEN "ask" ELSE "record") /\ k.u = u /\ k.answer = a
    BY <1>0, <2>1, <2>2 DEF CheckRow
  <2>4. check' = [check EXCEPT ![r] = k] /\ member' = member
    BY <1>6, <2>1, <2>2 DEF LookBeforeCall, store
  <2>5. a = Nil => ~u.deact BY <2>1, NilNotAnswer DEF Decided, Answers
  <2>6. a # Nil => /\ a = "deactivated" <=> u.deact
                   /\ a \notin {"userUnreachable", "forbidden"}
    BY <2>1 DEF Decided
  <2>7. Verdict(k) BY <2>3, <2>5, <2>6 DEF Verdict
  <2>8. Calm => ~k.u.deact /\ ~member'.deact BY <1>2, <2>1, <2>3, <2>4
  <2>9. QED BY <1>1, <2>4, <2>7, <2>8, VerdictStep
<1>7. CASE AskIdp(r)
  <2>1. PICK a \in Outcomes :
          check' = [check EXCEPT ![r] = [check[r] EXCEPT !.at = "record", !.answer = a]]
    BY <1>7 DEF AskIdp
  <2>2. PICK k : k = [check[r] EXCEPT !.at = "record", !.answer = a] OBVIOUS
  <2>3. k.at = "record" /\ k.u = check[r].u /\ k.answer = a BY <1>0, <2>2 DEF CheckRow
  <2>4. check' = [check EXCEPT ![r] = k] /\ member' = member BY <1>7, <2>1, <2>2 DEF AskIdp, store
  <2>5. idp \in {"full", "reduced", "out"} /\ oauthProvider \in {"oidc", "github"} BY DEF RevTypeOK
  <2>6. ~check[r].u.deact BY <1>7 DEF AskIdp, Verdicts, Verdict
  <2>7. a # "deactivated" /\ (a = "userUnreachable" => oauthProvider = "github")
    BY <2>1, <2>5 DEF Outcomes, Membership
  <2>8. a = "forbidden" => changes # 0 BY <1>2, <2>1, <2>5 DEF Outcomes, Membership
  <2>9. Verdict(k) BY <2>3, <2>6, <2>7, <2>8 DEF Verdict
  <2>10. Calm => ~k.u.deact /\ ~member'.deact BY <1>2, <2>3, <2>4
  <2>11. QED BY <1>1, <2>4, <2>9, <2>10, VerdictStep
<1>8. CASE SaveRotated(r) \/ RotationLost(r)
  <2>1. PICK u : u = [check[r].u EXCEPT !.cred = check[r].u.cred + 1] OBVIOUS
  <2>2. u.deact = check[r].u.deact BY <1>0, <2>1 DEF CheckRow, Member
  <2>3. ~check[r].u.deact BY <1>8 DEF SaveRotated, RotationLost, Rotates, Verdicts, Verdict
  <2>4. CASE SaveRotated(r)
    <3>1. PICK k : k = [check[r] EXCEPT !.u = u] OBVIOUS
    <3>2. k.at = "ask" /\ k.u = u BY <1>0, <2>4, <3>1 DEF CheckRow, SaveRotated, Rotates
    <3>3. check' = [check EXCEPT ![r] = k] /\ member' = u BY <2>1, <2>4, <3>1 DEF SaveRotated
    <3>4. Verdict(k) BY <2>2, <2>3, <3>2 DEF Verdict
    <3>5. Calm => ~k.u.deact /\ ~member'.deact BY <2>2, <2>3, <3>2, <3>3
    <3>6. QED BY <1>1, <3>3, <3>4, <3>5, VerdictStep
  <2>5. CASE RotationLost(r)
    <3>1. PICK a \in {"notLeader", "unreachable"} :
             check' = [check EXCEPT ![r].u.cred = @ + 1, ![r].at = "record", ![r].answer = a]
      BY <2>5 DEF RotationLost
    <3>2. PICK k : k = [check[r] EXCEPT !.at = "record", !.u = u, !.answer = a] OBVIOUS
    <3>3. k.at = "record" /\ k.u = u /\ k.answer = a BY <1>0, <3>2 DEF CheckRow
    <3>4. check' = [check EXCEPT ![r] = k] BY <1>0, <2>1, <3>1, <3>2 DEF CheckRow
    <3>5. member' = member BY <2>5 DEF RotationLost, store
    <3>6. Verdict(k) BY <2>2, <2>3, <3>3 DEF Verdict
    <3>7. Calm => ~k.u.deact /\ ~member'.deact BY <1>2, <2>2, <2>3, <3>3, <3>5
    <3>8. QED BY <1>1, <3>4, <3>6, <3>7, VerdictStep
  <2>6. QED BY <1>8, <2>4, <2>5
<1>9. CASE Record(r)
  <2>1. Verdict(check[r]) /\ check[r].at = "record" BY <1>9 DEF Verdicts, Record
  <2>2. PICK k : /\ check' = [check EXCEPT ![r] = k] /\ k.at = "check"
                 /\ k.u.deact => \/ check[r].u.deact
                                 \/ check[r].answer \in {"forbidden", "userUnreachable"}
    BY <1>9, <2>1, RecordWrites
  <2>3. member'.deact => \/ member.deact
                         \/ check[r].answer \in {"forbidden", "userUnreachable"}
    BY <1>9, <2>1, RecordWrites
  <2>4. Calm => check[r].answer \notin {"forbidden", "userUnreachable"} BY <2>1 DEF Verdict
  <2>5. Verdict(k) BY <2>2 DEF Verdict
  <2>6. Calm => ~k.u.deact /\ ~member'.deact BY <1>2, <2>2, <2>3, <2>4
  <2>7. QED BY <1>1, <2>2, <2>5, <2>6, VerdictStep
<1>10. QED BY <1>3, <1>4, <1>5, <1>6, <1>7, <1>8, <1>9 DEF RevStep

LEMMA VerdictInductive == RevSpec => [](Verdicts /\ Undisturbed)
<1>1. RevInv /\ Verdicts /\ Undisturbed /\ [RevNext]_revVars => (Verdicts /\ Undisturbed)'
  <2> SUFFICES ASSUME RevTypeOK, Verdicts, Undisturbed, [RevNext]_revVars
               PROVE  Verdicts' /\ Undisturbed'
    BY DEF RevInv
  <2>1. CASE UNCHANGED revVars BY <2>1 DEF revVars, Verdicts, Verdict, Undisturbed
  <2>2. CASE \/ Tick \/ RoleChanges \/ OAuthLogin \/ LeaderReconciles \/ SweepEntry
             \/ \E x \in {"full", "reduced", "out"} : IdpChanges(x)
    BY <2>2, VerdictWorld
  <2>3. ASSUME NEW r \in RevRequests, Arrive(r) \/ RevStep(r) \/ SaveRotated(r) \/ RotationLost(r) \/ GiveUp(r)
        PROVE  Verdicts' /\ Undisturbed'
    BY <2>3, VerdictRequest
  <2>4. QED BY <2>1, <2>2, <2>3 DEF RevNext
<1>2. QED BY <1>1, VerdictInit, RevInductive, PTL DEF RevSpec

(* A step that deactivates a user on the leader records a refusal.             *)
LEMMA DeactStep ==
    ASSUME RevTypeOK, Verdicts, RevNext, leads, oauthProvider = "oidc", ~member.deact, member'.deact
    PROVE  \E r \in RevRequests : check[r].at = "record" /\ check[r].answer = "forbidden"
<1>1. member' # member OBVIOUS
<1>2. ~OAuthLogin
  <2>1. OAuthLogin => member'.deact = FALSE BY DEF OAuthLogin
  <2>2. QED BY <2>1
<1>3. PICK r \in RevRequests : SaveRotated(r) \/ Record(r)
  BY <1>1, <1>2 DEF RevNext, RevStep, Tick, RoleChanges, LeaderReconciles, SweepEntry, IdpChanges, Arrive,
     CreateEntry, ServeCached, BecomeRefresher, LookBeforeCall, AskIdp, RotationLost, GiveUp, store
<1>4. ~SaveRotated(r)
  <2> SUFFICES ASSUME SaveRotated(r) PROVE FALSE OBVIOUS
  <2>1. check[r].u \in Member BY DEF RevTypeOK, CheckRow
  <2>2. PICK u : u = [check[r].u EXCEPT !.cred = check[r].u.cred + 1] OBVIOUS
  <2>3. u.deact = check[r].u.deact BY <2>1, <2>2 DEF Member
  <2>4. member' = u /\ ~check[r].u.deact BY <2>2 DEF SaveRotated, Rotates, Verdicts, Verdict
  <2>5. QED BY <2>3, <2>4
<1>5. Record(r) /\ Verdict(check[r]) BY <1>3, <1>4 DEF Verdicts
<1>6. check[r].answer \in {"forbidden", "userUnreachable"} BY <1>5, RecordWrites
<1>7. check[r].at = "record" BY <1>5 DEF Record
<1>8. QED BY <1>5, <1>6, <1>7 DEF Verdict

(* On the leader, an OIDC user is deactivated only by a check the IdP         *)
(* answered with a refusal.                                                  *)
THEOREM OnlyRefusalsDeactivate == RevSpec => DeactivatedByVerdict
<1> DEFINE Caused == leads /\ oauthProvider = "oidc" /\ ~member.deact /\ member'.deact
              => \E r \in RevRequests : check[r].at = "record" /\ check[r].answer = "forbidden"
<1>1. RevInv /\ Verdicts /\ [RevNext]_revVars => [Caused]_revVars
  BY DeactStep DEF RevInv
<1> HIDE DEF Caused
<1>2. RevSpec => [][Caused]_revVars BY <1>1, RevInductive, VerdictInductive, PTL DEF RevSpec
<1>3. QED BY <1>2 DEF Caused, DeactivatedByVerdict

(* The step that ends a check of request r is the one that records it.         *)
LEMMA RecordEnds ==
    ASSUME RevTypeOK, RevNext, NEW r \in RevRequests, check[r].at = "record", check'[r].at = "check"
    PROVE  Record(r)
<1>1. check \in [RevRequests -> CheckRow] /\ check' # check BY DEF RevTypeOK
<1>2. PICK s \in RevRequests :
         Arrive(s) \/ RevStep(s) \/ SaveRotated(s) \/ RotationLost(s) \/ GiveUp(s)
  BY <1>1 DEF RevNext, Tick, RoleChanges, OAuthLogin, LeaderReconciles, SweepEntry, IdpChanges
<1>3. s = r BY <1>1, <1>2 DEF RevStep, CreateEntry, ServeCached, BecomeRefresher, LookBeforeCall,
                AskIdp, Record, Arrive, SaveRotated, RotationLost, GiveUp
<1>4. QED BY <1>1, <1>2, <1>3 DEF RevStep, CreateEntry, ServeCached, BecomeRefresher, LookBeforeCall,
                AskIdp, Arrive, SaveRotated, RotationLost, Rotates, GiveUp

(* For OIDC users, a check that could not reach the IdP deactivates nobody,    *)
(* and brings nobody back: what the docs say of every provider.              *)
THEOREM OidcOutageHarmless == RevSpec => OidcUnreachableKeeps
<1> DEFINE Spared == \A r \in RevRequests :
         oauthProvider = "oidc" /\ check[r].at = "record"
           /\ check[r].answer \in {"unreachable", "userUnreachable"} /\ check'[r].at = "check"
           => member'.deact = member.deact
<1>1. RevInv /\ Verdicts /\ [RevNext]_revVars => [Spared]_revVars
  <2> SUFFICES ASSUME RevTypeOK, Verdicts, RevNext, NEW r \in RevRequests, oauthProvider = "oidc",
                      check[r].at = "record", check[r].answer \in {"unreachable", "userUnreachable"},
                      check'[r].at = "check"
               PROVE  member'.deact = member.deact
    BY DEF RevInv
  <2>1. Record(r) /\ Verdict(check[r]) BY RecordEnds DEF Verdicts
  <2>2. check[r].answer = "unreachable" BY <2>1 DEF Verdict
  <2>3. member' = member BY <2>1, <2>2, RecordWrites
  <2>4. QED BY <2>3
<1> HIDE DEF Spared
<1>2. RevSpec => [][Spared]_revVars BY <1>1, RevInductive, VerdictInductive, PTL DEF RevSpec
<1>3. QED BY <1>2 DEF Spared, OidcUnreachableKeeps

(* An OIDC user whom the IdP has always allowed is never deactivated: not by   *)
(* outages, rotated or expired credentials, refused writes or waiting requests. *)
THEOREM AllowedUserStays == RevSpec => []AllowedKeepAccount
<1>1. Undisturbed => AllowedKeepAccount BY DEF Undisturbed, AllowedKeepAccount
<1>2. QED BY <1>1, VerdictInductive, PTL
=============================================================================
