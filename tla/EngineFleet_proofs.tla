------------------------- MODULE EngineFleet_proofs -------------------------
(***************************************************************************)
(* Safety of the fleet, for any number of requests, of supervisor pods     *)
(* that sweep on stores of their own, and of replicas: the replica         *)
(* ceiling, the protection of a lease from the collection of its version,  *)
(* and what a scale-down spares.                                           *)
(***************************************************************************)
EXTENDS EngineFleet, FiniteSetTheorems, TLAPS

(* A number of listed replicas that is below the ceiling is the ordinal of  *)
(* the next one.                                                            *)
LEMMA NextOrdinal ==
    ASSUME NEW S \in SUBSET Ordinals, Cardinality(S) < MaxReplicas
    PROVE  Cardinality(S) \in Ordinals
<1>1. IsFiniteSet(0 .. MaxReplicas - 1)
  <2>1. 0 \in Int /\ MaxReplicas - 1 \in Int
    BY FleetAssumption
  <2> QED  BY <2>1, FS_Interval
<1>2. IsFiniteSet(S)
  BY <1>1, FS_Subset DEF Ordinals
<1>3. Cardinality(S) \in Nat
  BY <1>2, FS_CardinalityType
<1> QED  BY <1>3, FleetAssumption DEF Ordinals

(* A request that has not registered has no lease, in no store, in no       *)
(* backlog and not in the log; so a lease that is in a store never moves to *)
(* another replica.  What a pass recorded of its store is still there, and  *)
(* a pass beyond the retention check recorded nothing.                      *)
Unregistered ==
    \A r \in Requests : req[r].stage \in Acquiring \cup {"idle"} => pin[r] = Nil

Stored ==
    \A r \in Requests : pin[r] = Nil
        => r \notin logged /\ \A p \in Supervisors : r \notin rows[p] /\ r \notin lag[p]

HeldKept == \A s \in Supervisors : sweep[s].held \subseteq rows[s]

Collecting == {"gc", "delsvc", "delsts"}

CollectingUnheld ==
    \A s \in Supervisors : sweep[s].stage \in Collecting => sweep[s].held = {}

LeaseInv == Unregistered /\ Stored /\ HeldKept /\ CollectingUnheld

IInv == TypeOK /\ LeaseInv

(* The steps of a request and those of a sweep.                             *)
RequestAct(r) == EnsureStatefulSet(r) \/ AcquireStep(r) \/ Leave(r) \/ AcquireError(r)
SweepAct(s)   == SweepStep(s) \/ SweepError(s)

-----------------------------------------------------------------------------
(* The records of requests and sweeps keep their type under the updates     *)
(* that the actions make.                                                   *)
LEMMA OrdinalZero == 0 \in Ordinals /\ MaxReplicas \in Nat
BY FleetAssumption DEF Ordinals

LEMMA AtType ==
    ASSUME NEW st \in Stages
    PROVE  /\ At(st) \in Request
           /\ \A o \in Ordinals : [At(st) EXCEPT !.ordinal = o] \in Request
BY OrdinalZero DEF At, Request

LEMMA RequestStage ==
    ASSUME NEW q \in Request, NEW st \in Stages
    PROVE  [q EXCEPT !.stage = st] \in Request
BY DEF Request

LEMMA PassStage ==
    ASSUME NEW q \in Pass, NEW st \in Steps
    PROVE  /\ [q EXCEPT !.stage = st] \in Pass
           /\ [q EXCEPT !.stage = st, !.aged = {}] \in Pass
           /\ \A n \in 0 .. MaxReplicas : [q EXCEPT !.stage = st, !.target = n] \in Pass
BY DEF Pass

LEMMA IdlePass ==
    /\ IdleSweep \in Pass
    /\ \A st \in Steps : [IdleSweep EXCEPT !.stage = st] \in Pass
<1>1. IdleSweep \in Pass
  <2>1. 0 \in 0 .. MaxReplicas
    BY OrdinalZero
  <2> QED  BY <2>1 DEF Pass, IdleSweep, Steps
<1> QED  BY <1>1, PassStage

(* The two initial states have their types and no lease.                    *)
LEMMA TypeInit == Init => TypeOK
<1> SUFFICES ASSUME Init PROVE TypeOK
  OBVIOUS
<1>0. sts \in StatefulSet \cup {Nil}
  <2>1. [replicas |-> MaxReplicas, idle |-> "none"] \in StatefulSet
    BY FleetAssumption DEF StatefulSet
  <2> QED  BY <2>1 DEF Init
<1>1. svc \in BOOLEAN
  BY Zenon DEF Init
<1>2. pods \in [Ordinals -> {"absent", "starting", "ready", "terminating"}]
  BY DEF Init
<1>3. /\ old \in SUBSET Ordinals /\ pin \in [Requests -> Ordinals \cup {Nil}]
      /\ served \in [Requests -> Supervisors \cup {Nil}] /\ logged \in SUBSET Requests
      /\ rows \in [Supervisors -> SUBSET Requests] /\ lag \in [Supervisors -> SUBSET Requests]
      /\ faults \in 0 .. MaxFaults
  BY FleetAssumption DEF Init
<1>4. req \in [Requests -> Request]
  BY AtType DEF Init, Stages
<1>5. sweep \in [Supervisors -> Pass]
  BY IdlePass DEF Init
<1> QED  BY <1>0, <1>1, <1>2, <1>3, <1>4, <1>5 DEF TypeOK

LEMMA InitIInv == Init => IInv
<1> SUFFICES ASSUME Init PROVE IInv
  OBVIOUS
<1>1. TypeOK  BY TypeInit
<1>2. Unregistered  BY DEF Init, Unregistered
<1>3. Stored  BY DEF Init, Stored
<1>4. HeldKept  BY DEF Init, HeldKept, IdleSweep
<1>5. CollectingUnheld  BY DEF Init, CollectingUnheld, IdleSweep
<1> QED  BY <1>1, <1>2, <1>3, <1>4, <1>5 DEF IInv, LeaseInv

-----------------------------------------------------------------------------
(* Which actions write the StatefulSet, the requests and their leases, and  *)
(* the sweeps.                                                              *)
LEMMA Footprint ==
    ASSUME [Next]_vars
    PROVE  /\ \/ UNCHANGED sts
              \/ \E r \in Requests : EnsureStatefulSet(r) \/ ScaleUp(r)
              \/ \E s \in Supervisors : \/ ScaleDownSet(s) \/ ClearIdleSince(s)
                                     \/ SetIdleSince(s) \/ DeleteStatefulSet(s)
              \/ RetentionElapses
           /\ \/ UNCHANGED <<req, served, leaseVars, sweep>>
              \/ \E r \in Requests : RequestAct(r) /\ UNCHANGED sweep
              \/ \E s \in Supervisors : SweepAct(s) /\ UNCHANGED <<req, served, leaseVars>>
              \/ \E p \in Supervisors : Restart(p) \/ \E r \in Requests : Apply(p, r) \/ Reap(p, r)
<1> USE DEF RequestAct, SweepAct
<1>1. ASSUME NEW r \in Requests, EnsureStatefulSet(r) PROVE UNCHANGED sweep
  BY <1>1 DEF EnsureStatefulSet
<1>2. ASSUME NEW r \in Requests, AcquireStep(r)
      PROVE  UNCHANGED sweep /\ (ScaleUp(r) \/ UNCHANGED sts)
  BY <1>2 DEF AcquireStep, EnsureService, AcquireList, AcquireReuse, AcquireFull, AcquireGrow,
     ScaleUp, WaitForReady, WaitTimeout, Register, kubeVars
<1>3. ASSUME NEW r \in Requests, Leave(r) \/ AcquireError(r)
      PROVE  UNCHANGED <<sweep, sts>>
  BY <1>3 DEF Leave, AcquireError, kubeVars
<1>4. ASSUME NEW s \in Supervisors, SweepAct(s)
      PROVE  /\ UNCHANGED <<req, served, leaseVars>>
             /\ \/ UNCHANGED sts
                \/ ScaleDownSet(s) \/ ClearIdleSince(s) \/ SetIdleSince(s) \/ DeleteStatefulSet(s)
  BY <1>4 DEF SweepStep, SweepList, SweepPick, ScaleDownGet, ScaleDownSet, SweepRetention,
     ClearIdleSince, GcIdleVersion, SetIdleSince, DeleteService, DeleteStatefulSet, SweepError,
     kubeVars
<1>5. ASSUME NEW o \in Ordinals, Controller(o) \/ PodLost(o) \/ GrowOld(o)
      PROVE  UNCHANGED <<sts, req, served, leaseVars, sweep>>
  BY <1>5 DEF Controller, PodCreate, PodReady, PodStop, PodGone, PodLost, PodStep, GrowOld
<1>6. ASSUME RetentionElapses PROVE UNCHANGED <<req, served, leaseVars, sweep>>
  BY <1>6 DEF RetentionElapses
<1>7. ASSUME NEW p \in Supervisors, Restart(p) \/ \E r \in Requests : Apply(p, r) \/ Reap(p, r)
      PROVE  UNCHANGED sts
  BY <1>7 DEF Restart, Apply, Reap, kubeVars
<1>8. ASSUME UNCHANGED vars PROVE UNCHANGED <<sts, req, served, leaseVars, sweep>>
  BY <1>8 DEF vars, kubeVars
<1> QED
  BY <1>1, <1>2, <1>3, <1>4, <1>5, <1>6, <1>7, <1>8 DEF Next

(* One conjunct of TypeOK at a time, for the actions that write it.         *)
LEMMA StsType ==
    ASSUME TypeOK, [Next]_vars
    PROVE  sts' \in StatefulSet \cup {Nil}
<1> USE FleetAssumption DEF TypeOK
<1>1. ASSUME NEW n \in 0 .. MaxReplicas, NEW i \in {"none", "fresh", "due"}
      PROVE  [replicas |-> n, idle |-> i] \in StatefulSet
  BY DEF StatefulSet
<1>2. ASSUME sts # Nil
      PROVE  /\ sts.replicas \in 0 .. MaxReplicas
             /\ \A n \in 0 .. MaxReplicas : [sts EXCEPT !.replicas = n] \in StatefulSet
             /\ \A i \in {"none", "fresh", "due"} : [sts EXCEPT !.idle = i] \in StatefulSet
  BY <1>2 DEF StatefulSet
<1>3. ASSUME NEW r \in Requests, EnsureStatefulSet(r) PROVE sts' \in StatefulSet \cup {Nil}
  <2>1. (IF sts = Nil THEN 0 ELSE sts.replicas) \in 0 .. MaxReplicas
    BY <1>2
  <2> QED  BY <1>1, <1>3, <2>1 DEF EnsureStatefulSet
<1>4. ASSUME NEW r \in Requests, ScaleUp(r) PROVE sts' \in StatefulSet \cup {Nil}
  <2>1. req[r].ordinal + 1 \in 0 .. MaxReplicas
    BY DEF Request, Ordinals
  <2> QED  BY <1>2, <1>4, <2>1 DEF ScaleUp
<1>5. ASSUME NEW s \in Supervisors, ScaleDownSet(s) PROVE sts' \in StatefulSet \cup {Nil}
  <2>1. sweep[s].target \in 0 .. MaxReplicas
    BY DEF Pass
  <2> QED  BY <1>2, <1>5, <2>1 DEF ScaleDownSet
<1>6. ASSUME NEW s \in Supervisors, ClearIdleSince(s) PROVE sts' \in StatefulSet \cup {Nil}
  BY <1>2, <1>6 DEF ClearIdleSince
<1>7. ASSUME NEW s \in Supervisors, SetIdleSince(s) PROVE sts' \in StatefulSet \cup {Nil}
  BY <1>2, <1>7 DEF SetIdleSince, Stamped
<1>8. ASSUME NEW s \in Supervisors, DeleteStatefulSet(s) PROVE sts' \in StatefulSet \cup {Nil}
  BY <1>8 DEF DeleteStatefulSet
<1>9. ASSUME RetentionElapses PROVE sts' \in StatefulSet \cup {Nil}
  BY <1>2, <1>9 DEF RetentionElapses
<1>10. CASE UNCHANGED sts
  BY <1>10
<1> QED
  BY <1>3, <1>4, <1>5, <1>6, <1>7, <1>8, <1>9, <1>10, Footprint

LeaseType ==
    /\ served \in [Requests -> Supervisors \cup {Nil}]
    /\ pin \in [Requests -> Ordinals \cup {Nil}]
    /\ rows \in [Supervisors -> SUBSET Requests]
    /\ lag \in [Supervisors -> SUBSET Requests]
    /\ logged \in SUBSET Requests

(* A step of Acquire or of a lease keeps the type of requests and leases.   *)
LEMMA RequestType ==
    ASSUME TypeOK, NEW r \in Requests, RequestAct(r)
    PROVE  req' \in [Requests -> Request]
<1> USE DEF TypeOK
<1>1. req[r] \in Request /\ req[r].ordinal \in Ordinals /\ req[r].seen \in SUBSET Ordinals
      /\ req[r].ready \in SUBSET Ordinals
  BY DEF Request
<1>2. ASSUME NEW q \in Request, req' = [req EXCEPT ![r] = q]
      PROVE  req' \in [Requests -> Request]
  BY <1>2
<1>3. ASSUME NEW st \in Stages
      PROVE  At(st) \in Request /\ [req[r] EXCEPT !.stage = st] \in Request
  BY <1>1, AtType, RequestStage
<1>4. CASE EnsureStatefulSet(r)
  BY <1>1, <1>2, <1>3, <1>4 DEF EnsureStatefulSet, Stages, Acquiring
<1>5. CASE EnsureService(r)
  BY <1>1, <1>2, <1>3, <1>5 DEF EnsureService, Stages, Acquiring
<1>6. CASE AcquireList(r)
  <2>1. [req[r] EXCEPT !.stage = "choose", !.seen = Live, !.ready = Ready] \in Request
    BY <1>1 DEF Request, Stages, Acquiring, Live, Ready
  <2> QED  BY <1>1, <1>2, <1>6, <2>1 DEF AcquireList
<1>7. CASE AcquireReuse(r)
  <2>1. PICK o \in Candidates(r) : req' = [req EXCEPT ![r] = [At("register") EXCEPT !.ordinal = o]]
    BY <1>7 DEF AcquireReuse
  <2>2. o \in Ordinals
    BY <1>1 DEF Candidates
  <2> QED  BY <1>2, <1>7, <2>1, <2>2, AtType DEF AcquireReuse, Stages, Acquiring
<1>8. CASE AcquireGrow(r)
  <2>1. Cardinality(req[r].seen) \in Nat
    <3>1. IsFiniteSet(Ordinals)
      BY FleetAssumption, FS_Interval DEF Ordinals
    <3> QED  BY <1>1, <3>1, FS_Subset, FS_CardinalityType
  <2>2. Cardinality(req[r].seen) < MaxReplicas
    BY <1>8, <2>1, FleetAssumption DEF AcquireGrow, AtCapacity
  <2>3. Cardinality(req[r].seen) \in Ordinals
    BY <1>1, <2>2, NextOrdinal
  <2> QED  BY <1>2, <1>8, <2>3, AtType DEF AcquireGrow, Stages, Acquiring
<1>9. CASE ScaleUp(r)
  BY <1>1, <1>2, <1>3, <1>9 DEF ScaleUp, Stages, Acquiring
<1>10. CASE AcquireFull(r) \/ WaitForReady(r) \/ WaitTimeout(r) \/ AcquireError(r)
  BY <1>1, <1>2, <1>3, <1>10
     DEF AcquireFull, WaitForReady, WaitTimeout, AcquireError, Stages, Acquiring
<1>11. CASE Register(r)
  BY <1>2, <1>3, <1>11 DEF Register, Stages
<1>12. CASE Leave(r)
  BY <1>2, <1>3, <1>12 DEF Leave, Stages
<1> QED
  BY <1>4, <1>5, <1>6, <1>7, <1>8, <1>9, <1>10, <1>11, <1>12
     DEF AcquireStep, RequestAct
LEMMA RequestLeaseType ==
    ASSUME TypeOK, NEW r \in Requests, RequestAct(r)
    PROVE  LeaseType'
<1> USE DEF TypeOK
<1>0. req[r].ordinal \in Ordinals
  BY DEF Request
<1>1. CASE Register(r)
  <2>1. pin' \in [Requests -> Ordinals \cup {Nil}]
    BY <1>0, <1>1 DEF Register
  <2>2. rows' \in [Supervisors -> SUBSET Requests]
    BY <1>1 DEF Register
  <2>3. lag' \in [Supervisors -> SUBSET Requests]
    BY <1>1 DEF Register
  <2> QED  BY <1>1, <2>1, <2>2, <2>3 DEF Register, LeaseType
<1>2. CASE EnsureStatefulSet(r)
  BY <1>2, FleetAssumption DEF EnsureStatefulSet, LeaseType, leaseVars
<1>3. CASE ~Register(r) /\ ~EnsureStatefulSet(r)
  BY <1>3 DEF RequestAct, AcquireStep, EnsureService, AcquireList, AcquireReuse, AcquireFull,
     AcquireGrow, ScaleUp, WaitForReady, WaitTimeout, Leave, AcquireError, LeaseType, leaseVars
<1> QED  BY <1>1, <1>2, <1>3

(* A step of a sweep keeps the type of the sweeps.                          *)
LEMMA SweepType ==
    ASSUME TypeOK, NEW s \in Supervisors, SweepAct(s)
    PROVE  sweep' \in [Supervisors -> Pass]
<1> USE DEF TypeOK
<1>1. sweep[s] \in Pass
  OBVIOUS
<1>2. ASSUME NEW q \in Pass, sweep' = [sweep EXCEPT ![s] = q]
      PROVE  sweep' \in [Supervisors -> Pass]
  BY <1>2
<1>3. ASSUME NEW st \in Steps
      PROVE  /\ [sweep[s] EXCEPT !.stage = st] \in Pass
             /\ [sweep[s] EXCEPT !.stage = st, !.aged = {}] \in Pass
             /\ [IdleSweep EXCEPT !.stage = st] \in Pass
             /\ IdleSweep \in Pass
             /\ \A n \in 0 .. MaxReplicas : [sweep[s] EXCEPT !.stage = st, !.target = n] \in Pass
  BY <1>1, PassStage, IdlePass
<1>4. CASE SweepList(s)
  <2>1. (Live # {}) \in BOOLEAN
    OBVIOUS
  <2>2. old \cap Live \in SUBSET Ordinals /\ rows[s] \in SUBSET Requests /\ 0 \in 0 .. MaxReplicas
    BY OrdinalZero DEF Live
  <2>3. ASSUME NEW b \in BOOLEAN, NEW a \in SUBSET Ordinals, NEW h \in SUBSET Requests,
               NEW n \in 0 .. MaxReplicas
        PROVE  [stage |-> "pick", some |-> b, aged |-> a, target |-> n, held |-> h] \in Pass
    BY DEF Pass, Steps
  <2> QED  BY <1>2, <1>4, <2>1, <2>2, <2>3 DEF SweepList
<1>5. CASE SweepPick(s)
  BY <1>2, <1>3, <1>5 DEF SweepPick, Steps
<1>6. CASE ScaleDownGet(s)
  <2>1. CASE sts = Nil
    BY <1>2, <1>3, <1>6, <2>1, IdlePass DEF ScaleDownGet
  <2>2. CASE sts # Nil /\ sts.replicas = 0
    BY <1>2, <1>3, <1>6, <2>2 DEF ScaleDownGet, Steps
  <2>3. CASE sts # Nil /\ sts.replicas # 0
    <3>1. sts.replicas - 1 \in 0 .. MaxReplicas
      BY <2>3, FleetAssumption DEF StatefulSet
    <3> QED  BY <1>2, <1>3, <1>6, <2>3, <3>1 DEF ScaleDownGet, Steps
  <2> QED  BY <2>1, <2>2, <2>3
<1>7. CASE ScaleDownSet(s)
  <2>1. 0 \in 0 .. MaxReplicas
    BY OrdinalZero
  <2> QED  BY <1>2, <1>3, <1>7, <2>1, IdlePass DEF ScaleDownSet, Steps
<1>8. CASE SweepRetention(s)
  BY <1>2, <1>3, <1>8, IdlePass DEF SweepRetention, Steps
<1>9. CASE GcIdleVersion(s)
  BY <1>2, <1>3, <1>9, IdlePass DEF GcIdleVersion, Steps
<1>10. CASE ClearIdleSince(s) \/ SetIdleSince(s) \/ DeleteStatefulSet(s) \/ SweepError(s)
  BY <1>2, <1>10, IdlePass DEF ClearIdleSince, SetIdleSince, DeleteStatefulSet, SweepError
<1>11. CASE DeleteService(s)
  BY <1>2, <1>3, <1>11 DEF DeleteService, Steps
<1> QED
  BY <1>4, <1>5, <1>6, <1>7, <1>8, <1>9, <1>10, <1>11 DEF SweepStep, SweepAct

(* The rest of the cluster keeps its type.                                  *)
LEMMA KubeType ==
    ASSUME TypeOK, [Next]_vars
    PROVE  /\ svc' \in BOOLEAN
           /\ pods' \in [Ordinals -> {"absent", "starting", "ready", "terminating"}]
           /\ old' \in SUBSET Ordinals
           /\ faults' \in 0 .. MaxFaults
<1> USE FleetAssumption DEF TypeOK
<1>1. ASSUME NEW r \in Requests, RequestAct(r)
      PROVE  /\ svc' = svc \/ svc' = TRUE
             /\ UNCHANGED <<pods, old>>
             /\ faults' \in 0 .. MaxFaults
  BY <1>1 DEF RequestAct, EnsureStatefulSet, AcquireStep, EnsureService, AcquireList, AcquireReuse,
     AcquireFull, AcquireGrow, ScaleUp, WaitForReady, WaitTimeout, Register, Leave,
     AcquireError, kubeVars
<1>2. ASSUME NEW s \in Supervisors, SweepAct(s)
      PROVE  /\ svc' = svc \/ svc' = FALSE
             /\ pods' \in [Ordinals -> {"absent", "starting", "ready", "terminating"}]
             /\ UNCHANGED old
             /\ faults' \in 0 .. MaxFaults
  BY <1>2 DEF SweepAct, SweepStep, SweepList, SweepPick, ScaleDownGet, ScaleDownSet, SweepRetention,
     ClearIdleSince, GcIdleVersion, SetIdleSince, DeleteService, DeleteStatefulSet, SweepError,
     kubeVars
<1>3. ASSUME NEW o \in Ordinals, Controller(o) \/ PodLost(o) \/ GrowOld(o)
      PROVE  /\ svc' = svc
             /\ pods' \in [Ordinals -> {"absent", "starting", "ready", "terminating"}]
             /\ old' \in SUBSET Ordinals
             /\ faults' \in 0 .. MaxFaults
  BY <1>3 DEF Controller, PodCreate, PodReady, PodStop, PodGone, PodLost, PodStep, GrowOld
<1>4. ASSUME RetentionElapses \/ UNCHANGED vars PROVE UNCHANGED <<svc, pods, old, faults>>
  BY <1>4 DEF RetentionElapses, vars, kubeVars
<1>7. ASSUME NEW p \in Supervisors, Restart(p) \/ \E r \in Requests : Apply(p, r) \/ Reap(p, r)
      PROVE  UNCHANGED <<svc, pods, old>> /\ faults' \in 0 .. MaxFaults
  BY <1>7 DEF Restart, Apply, Reap, kubeVars
<1>5. svc' = svc \/ svc' = TRUE \/ svc' = FALSE
  BY <1>1, <1>2, <1>3, <1>4, <1>7 DEF Next, RequestAct, SweepAct
<1>6. svc' \in BOOLEAN
  BY <1>5, Zenon
<1> QED  BY <1>1, <1>2, <1>3, <1>4, <1>6, <1>7 DEF Next, RequestAct, SweepAct

(* A step of a lease store keeps its type.                                  *)
LEMMA StoreType ==
    ASSUME TypeOK, NEW p \in Supervisors,
           Restart(p) \/ \E r \in Requests : Apply(p, r) \/ Reap(p, r)
    PROVE  req' \in [Requests -> Request] /\ LeaseType' /\ sweep' \in [Supervisors -> Pass]
<1> USE DEF TypeOK, LeaseType
<1>1. CASE Restart(p)
  <2>1. At("failed") \in Request
    BY AtType DEF Stages
  <2>2. req' \in [Requests -> Request]
    BY <1>1, <2>1 DEF Restart
  <2>3. rows' \in [Supervisors -> SUBSET Requests] /\ lag' \in [Supervisors -> SUBSET Requests]
    BY <1>1 DEF Restart
  <2>4. sweep' \in [Supervisors -> Pass]
    BY <1>1, IdlePass DEF Restart
  <2> QED  BY <1>1, <2>2, <2>3, <2>4 DEF Restart
<1>2. ASSUME NEW r \in Requests, Apply(p, r)
      PROVE  req' \in [Requests -> Request] /\ LeaseType' /\ sweep' \in [Supervisors -> Pass]
  <2>1. rows' \in [Supervisors -> SUBSET Requests] /\ lag' \in [Supervisors -> SUBSET Requests]
    BY <1>2 DEF Apply
  <2> QED  BY <1>2, <2>1 DEF Apply
<1>3. ASSUME NEW r \in Requests, Reap(p, r)
      PROVE  req' \in [Requests -> Request] /\ LeaseType' /\ sweep' \in [Supervisors -> Pass]
  <2>1. rows' \in [Supervisors -> SUBSET Requests]
    BY <1>3 DEF Reap
  <2>2. PICK q \in Pass : q = [sweep[p] EXCEPT !.held = @ \ {r}]
    BY DEF Pass
  <2>3. sweep' = [sweep EXCEPT ![p] = q]
    BY <1>3, <2>2 DEF Reap
  <2>4. sweep' \in [Supervisors -> Pass]
    BY <2>2, <2>3
  <2> QED  BY <1>3, <2>1, <2>4 DEF Reap
<1> QED  BY <1>1, <1>2, <1>3

(* TypeOK is inductive by itself.                                           *)
LEMMA TypeStep ==
    ASSUME TypeOK, [Next]_vars
    PROVE  TypeOK'
<1>1. LeaseType /\ req \in [Requests -> Request] /\ sweep \in [Supervisors -> Pass]
  BY DEF TypeOK, LeaseType
<1>2. CASE UNCHANGED <<req, served, leaseVars, sweep>>
  <2>1. LeaseType' /\ req' \in [Requests -> Request] /\ sweep' \in [Supervisors -> Pass]
    BY <1>1, <1>2 DEF leaseVars, LeaseType
  <2> QED  BY <2>1, StsType, KubeType DEF TypeOK, LeaseType
<1>3. ASSUME NEW r \in Requests, RequestAct(r), UNCHANGED sweep PROVE TypeOK'
  <2>1. LeaseType' /\ req' \in [Requests -> Request]
    BY <1>3, RequestType, RequestLeaseType
  <2> QED  BY <1>1, <1>3, <2>1, StsType, KubeType DEF TypeOK, LeaseType
<1>4. ASSUME NEW s \in Supervisors, SweepAct(s), UNCHANGED <<req, served, leaseVars>> PROVE TypeOK'
  <2>1. sweep' \in [Supervisors -> Pass]
    BY <1>4, SweepType
  <2>2. LeaseType' /\ req' \in [Requests -> Request]
    BY <1>1, <1>4 DEF leaseVars, LeaseType
  <2> QED  BY <2>1, <2>2, StsType, KubeType DEF TypeOK, LeaseType
<1>5. ASSUME NEW p \in Supervisors, Restart(p) \/ \E r \in Requests : Apply(p, r) \/ Reap(p, r)
      PROVE  TypeOK'
  <2>1. req' \in [Requests -> Request] /\ LeaseType' /\ sweep' \in [Supervisors -> Pass]
    BY <1>5, StoreType
  <2> QED  BY <2>1, StsType, KubeType DEF TypeOK, LeaseType
<1> QED  BY <1>2, <1>3, <1>4, <1>5, Footprint

-----------------------------------------------------------------------------
(* What a step of a request does to leases: nothing, but for Register,      *)
(* which gives a lease to a request that has none.                          *)
LEMMA RequestLease ==
    ASSUME TypeOK, Unregistered, NEW r \in Requests, RequestAct(r)
    PROVE  /\ \A k \in Requests \ {r} : req'[k] = req[k] /\ pin'[k] = pin[k]
           /\ req'[r].stage \in Acquiring \cup {"idle"}
                => req[r].stage \in Acquiring \cup {"idle"} /\ pin'[r] = pin[r]
           /\ \/ UNCHANGED leaseVars
              \/ /\ pin[r] = Nil /\ pin'[r] \in Ordinals
                 /\ logged' \subseteq logged \cup {r}
                 /\ \A p \in Supervisors : /\ rows[p] \subseteq rows'[p]
                                           /\ rows'[p] \subseteq rows[p] \cup {r}
                                           /\ lag'[p] \subseteq lag[p] \cup {r}
<1> USE DEF TypeOK
<1>1. req[r] \in Request
  OBVIOUS
<1>2. CASE Register(r)
  <2>1. req'[r].stage = "held" /\ pin' = [pin EXCEPT ![r] = req[r].ordinal]
    BY <1>2 DEF Register, At
  <2>2. pin[r] = Nil /\ req[r].ordinal \in Ordinals
    BY <1>1, <1>2 DEF Register, Unregistered, Acquiring, Request
  <2>3. \A p \in Supervisors : rows[p] \subseteq rows'[p] /\ rows'[p] \subseteq rows[p] \cup {r}
    BY <1>2 DEF Register
  <2>4. logged' \subseteq logged \cup {r}
        /\ \A p \in Supervisors : lag'[p] \subseteq lag[p] \cup {r}
    BY <1>2 DEF Register
  <2> QED  BY <1>2, <2>1, <2>2, <2>3, <2>4 DEF Register, Acquiring
<1>3. CASE EnsureStatefulSet(r)
  BY <1>1, <1>3 DEF EnsureStatefulSet, Request, Acquiring, leaseVars
<1>4. CASE EnsureService(r) \/ AcquireList(r) \/ WaitForReady(r)
  BY <1>1, <1>4 DEF EnsureService, AcquireList, WaitForReady, Request, Acquiring, leaseVars
<1>5. CASE AcquireReuse(r)
  BY <1>1, <1>5 DEF AcquireReuse, At, Acquiring, leaseVars
<1>6. CASE AcquireGrow(r)
  BY <1>1, <1>6 DEF AcquireGrow, At, Acquiring, leaseVars
<1>7. CASE ScaleUp(r)
  BY <1>1, <1>7 DEF ScaleUp, At, Request, Acquiring, leaseVars
<1>8. CASE AcquireFull(r) \/ WaitTimeout(r)
  BY <1>1, <1>8 DEF AcquireFull, WaitTimeout, At, Acquiring, leaseVars
<1>9. CASE AcquireError(r)
  BY <1>1, <1>9 DEF AcquireError, At, Acquiring, leaseVars
<1>10. CASE Leave(r)
  BY <1>1, <1>10 DEF Leave, At, Acquiring, leaseVars
<1> QED
  BY <1>2, <1>3, <1>4, <1>5, <1>6, <1>7, <1>8, <1>9, <1>10 DEF AcquireStep, RequestAct

LEMMA RequestKeeps ==
    ASSUME IInv, NEW r \in Requests, RequestAct(r), UNCHANGED sweep
    PROVE  LeaseInv'
<1> USE DEF IInv, LeaseInv
<1>1. TypeOK /\ Unregistered
  OBVIOUS
<1>2. Unregistered'
  BY <1>1, RequestLease DEF Unregistered
<1>3. Stored'
  <2>1. CASE UNCHANGED leaseVars
    BY <2>1 DEF leaseVars, Stored
  <2>2. CASE ~UNCHANGED leaseVars
    BY <1>1, <2>2, RequestLease, NilNotOrdinal DEF Stored
  <2> QED  BY <2>1, <2>2
<1>4. \A p \in Supervisors : rows[p] \subseteq rows'[p]
  BY <1>1, RequestLease DEF leaseVars
<1>5. HeldKept'
  BY <1>4 DEF HeldKept
<1> QED  BY <1>2, <1>3, <1>5 DEF CollectingUnheld

(* What a step of a pass does to the record it keeps.                       *)
LEMMA SweepRecord ==
    ASSUME TypeOK, NEW s \in Supervisors, SweepAct(s)
    PROVE  /\ \A k \in Supervisors \ {s} : sweep'[k] = sweep[k]
           /\ \/ sweep'[s].held = {} /\ sweep'[s].stage \notin {"down", "set"}
              \/ sweep'[s].held = rows[s] /\ sweep'[s].stage = "pick"
              \/ /\ sweep'[s].held = sweep[s].held
                 /\ \/ sweep'[s].stage \notin Collecting
                    \/ sweep[s].stage \in Collecting
                    \/ rows[s] = {}
                 /\ \/ sweep'[s].stage \notin {"down", "set"}
                    \/ sweep[s].stage = "down"
                    \/ Removable(s) # {}
<1> USE DEF TypeOK
<1>1. sweep[s] \in Pass
  OBVIOUS
<1>2. CASE SweepList(s)
  BY <1>1, <1>2 DEF SweepList
<1>3. CASE SweepPick(s)
  BY <1>1, <1>3 DEF SweepPick, Pass, Collecting
<1>4. CASE ScaleDownGet(s)
  BY <1>1, <1>4 DEF ScaleDownGet, Pass, IdleSweep, Collecting
<1>5. CASE ScaleDownSet(s)
  BY <1>1, <1>5 DEF ScaleDownSet, Pass, IdleSweep, Collecting
<1>6. CASE SweepRetention(s)
  BY <1>1, <1>6 DEF SweepRetention, VersionPinned, Pass, IdleSweep, Collecting
<1>7. CASE GcIdleVersion(s)
  BY <1>1, <1>7 DEF GcIdleVersion, Pass, IdleSweep, Collecting
<1>8. CASE DeleteService(s)
  BY <1>1, <1>8 DEF DeleteService, Pass, Collecting
<1>9. CASE ClearIdleSince(s) \/ SetIdleSince(s) \/ DeleteStatefulSet(s) \/ SweepError(s)
  BY <1>1, <1>9 DEF ClearIdleSince, SetIdleSince, DeleteStatefulSet, SweepError, IdleSweep
<1> QED
  BY <1>2, <1>3, <1>4, <1>5, <1>6, <1>7, <1>8, <1>9 DEF SweepStep, SweepAct

LEMMA SweepKeeps ==
    ASSUME IInv, NEW s \in Supervisors, SweepAct(s), UNCHANGED <<req, served, leaseVars>>
    PROVE  LeaseInv'
<1> USE DEF IInv, LeaseInv
<1>1. TypeOK
  OBVIOUS
<1>2. Unregistered' /\ Stored'
  BY DEF Unregistered, Stored, leaseVars
<1>3. UNCHANGED rows
  BY DEF leaseVars
<1>4. HeldKept'
  BY <1>1, <1>3, SweepRecord DEF HeldKept
<1>5. CollectingUnheld'
  BY <1>1, SweepRecord DEF HeldKept, CollectingUnheld, Collecting
<1> QED  BY <1>2, <1>4, <1>5

(* A store gains what it had still to apply; what leaves it leaves the      *)
(* record of the pass too.                                                  *)
LEMMA StoreKeeps ==
    ASSUME IInv, NEW p \in Supervisors,
           Restart(p) \/ \E r \in Requests : Apply(p, r) \/ Reap(p, r)
    PROVE  LeaseInv'
<1> USE DEF IInv, LeaseInv, TypeOK
<1>1. CASE Restart(p)
  <2>1. Unregistered'
    BY <1>1 DEF Restart, Unregistered, At, Acquiring
  <2>2. Stored'
    BY <1>1 DEF Restart, Stored
  <2>3. HeldKept'
    BY <1>1 DEF Restart, HeldKept, IdleSweep
  <2>4. CollectingUnheld'
    BY <1>1 DEF Restart, CollectingUnheld, IdleSweep
  <2> QED  BY <2>1, <2>2, <2>3, <2>4
<1>2. ASSUME NEW r \in Requests, Apply(p, r) PROVE LeaseInv'
  <2>1. Unregistered' /\ CollectingUnheld'
    BY <1>2 DEF Apply, Unregistered, CollectingUnheld
  <2>2. Stored'
    BY <1>2 DEF Apply, Stored
  <2>3. HeldKept'
    BY <1>2 DEF Apply, HeldKept
  <2> QED  BY <2>1, <2>2, <2>3
<1>3. ASSUME NEW r \in Requests, Reap(p, r) PROVE LeaseInv'
  <2>1. sweep[p] \in Pass
    OBVIOUS
  <2>2. /\ \A k \in Supervisors \ {p} : sweep'[k] = sweep[k]
        /\ sweep'[p].stage = sweep[p].stage /\ sweep'[p].held = sweep[p].held \ {r}
    BY <1>3, <2>1 DEF Reap, Pass
  <2>3. Unregistered'
    BY <1>3 DEF Reap, Unregistered
  <2>4. Stored'
    BY <1>3 DEF Reap, Stored
  <2>5. HeldKept'
    BY <1>3, <2>2 DEF Reap, HeldKept
  <2>6. CollectingUnheld'
    BY <2>2 DEF CollectingUnheld
  <2> QED  BY <2>3, <2>4, <2>5, <2>6
<1> QED  BY <1>1, <1>2, <1>3

(* IInv is an inductive invariant of the fleet.                             *)
THEOREM Inductive == Spec => []IInv
<1>1. IInv /\ [Next]_vars => IInv'
  <2> SUFFICES ASSUME IInv, [Next]_vars PROVE IInv'
    OBVIOUS
  <2>1. TypeOK'
    BY TypeStep DEF IInv
  <2>2. CASE UNCHANGED <<req, served, leaseVars, sweep>>
    BY <2>1, <2>2 DEF IInv, LeaseInv, Unregistered, Stored, HeldKept, CollectingUnheld, leaseVars
  <2>3. CASE ~UNCHANGED <<req, served, leaseVars, sweep>>
    BY <2>1, <2>3, Footprint, RequestKeeps, SweepKeeps, StoreKeeps DEF IInv
  <2> QED  BY <2>2, <2>3
<1> QED  BY InitIInv, <1>1, PTL DEF Spec

(* Every writer of spec.replicas computes its target from a count it read   *)
(* earlier, yet the fleet never asks for more than max_replicas_per_version *)
(* pods nor for a negative number, whatever the number of requests and      *)
(* sweeping pods; the rest of the state has its type.                       *)
THEOREM CeilingHolds == Spec => []TypeOK
BY Inductive, PTL DEF IInv

(* sweepVersion deletes no StatefulSet under a lease that the store of its  *)
(* own pod has held since the pass began, although the check and the two    *)
(* deletes are separate calls and the stores of the pods differ.            *)
THEOREM CollectionSparesHeld == Spec => GcSparesHeld
<1>1. ASSUME IInv
      PROVE  \A s \in Supervisors : DeleteStatefulSet(s) => sweep[s].held = {}
  BY <1>1 DEF IInv, LeaseInv, CollectingUnheld, Collecting, DeleteStatefulSet
<1> QED  BY <1>1, Inductive, PTL DEF GcSparesHeld

-----------------------------------------------------------------------------
(* A pass that is about to scale down has seen a replica that none of the   *)
(* leases in its store since it began is pinned to.                         *)
SpareReplica(s) == \E o \in Ordinals : \A r \in sweep[s].held : pin[r] # o

(* A pass reaches the scale-down only past such a replica.                  *)
ScaleDownFree ==
    \A s \in Supervisors : sweep[s].stage \in {"down", "set"} => SpareReplica(s)

LEMMA NonePinned ==
    ASSUME TypeOK, NEW p \in Supervisors, NEW o, Pinned(p, o) = 0, NEW r \in rows[p]
    PROVE  pin[r] # o
<1> DEFINE S == {k \in rows[p] : pin[k] = o}
<1>1. rows[p] \in SUBSET Requests BY DEF TypeOK
<1>2. S \subseteq Requests BY <1>1
<1>3. IsFiniteSet(S) BY <1>2, FleetAssumption, FS_Subset
<1>4. S = {} BY <1>3, FS_EmptySet DEF Pinned
<1> QED  BY <1>4

LEMMA SpareKept ==
    ASSUME NEW s \in Supervisors, SpareReplica(s), sweep'[s].held \subseteq sweep[s].held,
           \A r \in sweep[s].held : pin'[r] = pin[r]
    PROVE  SpareReplica(s)'
BY DEF SpareReplica

LEMMA FreeNext == IInv /\ ScaleDownFree /\ [Next]_vars => ScaleDownFree'
<1> SUFFICES ASSUME IInv, ScaleDownFree, [Next]_vars, NEW s \in Supervisors,
                    sweep'[s].stage \in {"down", "set"}
             PROVE  SpareReplica(s)'
  BY DEF ScaleDownFree
<1> USE DEF IInv, LeaseInv
<1>1. TypeOK /\ sweep[s] \in Pass /\ rows[s] \in SUBSET Requests /\ sweep[s].held \subseteq rows[s]
      /\ sweep[s].aged \in SUBSET Ordinals
  BY DEF TypeOK, HeldKept, Pass
<1>2. CASE UNCHANGED <<req, served, leaseVars, sweep>>
  BY <1>2, SpareKept DEF ScaleDownFree, leaseVars
<1>3. ASSUME NEW r \in Requests, RequestAct(r), UNCHANGED sweep PROVE SpareReplica(s)'
  <2>1. \A k \in Requests : pin[k] # Nil => pin'[k] = pin[k]
    BY <1>1, <1>3, RequestLease DEF leaseVars
  <2>2. \A k \in sweep[s].held : pin'[k] = pin[k]
    BY <1>1, <2>1 DEF Stored
  <2> QED  BY <1>3, <2>2, SpareKept DEF ScaleDownFree
<1>4. ASSUME NEW k \in Supervisors, SweepAct(k), UNCHANGED <<req, served, leaseVars>>
      PROVE  SpareReplica(s)'
  <2>1. UNCHANGED pin
    BY <1>4 DEF leaseVars
  <2>2. CASE k # s
    BY <1>1, <1>4, <2>1, <2>2, SweepRecord, SpareKept DEF ScaleDownFree
  <2>3. CASE k = s
    <3>1. /\ sweep'[s].held = sweep[s].held
          /\ sweep[s].stage = "down" \/ Removable(s) # {}
      BY <1>1, <1>4, <2>3, SweepRecord
    <3>2. ASSUME NEW o \in Removable(s) PROVE SpareReplica(s)
      <4>1. o \in Ordinals /\ Pinned(s, o) = 0
        BY <1>1 DEF Removable
      <4>2. \A r \in sweep[s].held : pin[r] # o
        BY <1>1, <4>1, NonePinned
      <4> QED  BY <4>1, <4>2 DEF SpareReplica
    <3>3. SpareReplica(s)
      BY <3>1, <3>2 DEF ScaleDownFree
    <3> QED  BY <2>1, <3>1, <3>3, SpareKept
  <2> QED  BY <2>2, <2>3
<1>5. ASSUME NEW p \in Supervisors, Restart(p) \/ \E r \in Requests : Apply(p, r) \/ Reap(p, r)
      PROVE  SpareReplica(s)'
  <2>1. /\ UNCHANGED pin
        /\ sweep'[s].stage = sweep[s].stage /\ sweep'[s].held \subseteq sweep[s].held
    <3>1. CASE Restart(p)
      BY <1>1, <3>1 DEF Restart, IdleSweep, TypeOK
    <3>2. CASE \E r \in Requests : Apply(p, r)
      BY <3>2 DEF Apply
    <3>3. CASE \E r \in Requests : Reap(p, r)
      BY <1>1, <3>3 DEF Reap, TypeOK, Pass
    <3> QED  BY <1>5, <3>1, <3>2, <3>3
  <2> QED  BY <2>1, SpareKept DEF ScaleDownFree
<1> QED  BY <1>2, <1>3, <1>4, <1>5, Footprint

(* A pass about to scale a version down has seen a replica that no lease of *)
(* its own pod's store, since the pass began, is pinned to, although      *)
(* registrations and reaping go on under it.                                *)
THEOREM ScaleDownHasSpare == Spec => []ScaleDownFree
<1>1. Init => ScaleDownFree BY DEF Init, ScaleDownFree, IdleSweep
<1> QED  BY <1>1, FreeNext, Inductive, PTL DEF Spec

(* With a ceiling of one replica, a scale-down takes no replica from a      *)
(* lease that the sweeping pod's store has held since the pass began: what  *)
(* the scale-down run refutes needs a second replica.                       *)
THEOREM SingleReplicaSpared == MaxReplicas = 1 => (Spec => SweepSparesPinned)
<1> SUFFICES ASSUME MaxReplicas = 1 PROVE Spec => SweepSparesPinned OBVIOUS
<1> DEFINE A == \A s \in Supervisors : ScaleDownSet(s) /\ sts # Nil
          => \A r \in sweep[s].held :
                pin[r] < sts.replicas => pin[r] < sts'.replicas
<1>1. IInv /\ ScaleDownFree => A
  <2> SUFFICES ASSUME IInv, ScaleDownFree, NEW s \in Supervisors, ScaleDownSet(s),
                      NEW r \in sweep[s].held
               PROVE  FALSE
    OBVIOUS
  <2>1. SpareReplica(s) BY DEF ScaleDownFree, ScaleDownSet
  <2>2. Ordinals = {0} BY DEF Ordinals
  <2>3. r \in Requests /\ r \in rows[s] BY DEF IInv, LeaseInv, HeldKept, TypeOK, Pass
  <2>4. pin[r] \in Ordinals BY <2>3 DEF IInv, LeaseInv, Stored, TypeOK
  <2> QED  BY <2>1, <2>2, <2>4 DEF SpareReplica
<1>2. IInv /\ ScaleDownFree /\ [Next]_vars => [A]_vars BY <1>1
<1> HIDE DEF A
<1>3. Spec => [][A]_vars BY <1>2, Inductive, ScaleDownHasSpare, PTL DEF Spec
<1> QED  BY <1>3 DEF A, SweepSparesPinned
=============================================================================
