----------------------- MODULE PipelineLifecycle_proofs -----------------------
(***************************************************************************)
(* The counts and the timers of client-disconnect detection, for any       *)
(* number of pods, certificates, traces and connections: a lease counts    *)
(* the connections it has, a grace timer that fires is the latest, and the *)
(* sweep spares the traces served by its own pod.                          *)
(***************************************************************************)
EXTENDS PipelineLifecycle, FiniteSetTheorems, TLAPS

(* Types without the bounds that only a finite number of tunnels gives.     *)
LeaseRow == [inFlight: Nat, expired: BOOLEAN]
Conn     == [stage: Stages, pod: Pods \cup {Nil}, cert: Certs \cup {Nil}, remaining: Nat]
AnyTimer == Pods \X Traces \X Nat

CountShape ==
    /\ leader \in Pods
    /\ issued \in [Certs -> Registration] /\ zeroed \in SUBSET (Pods \X Certs)
    /\ lease \in [Pods -> [Certs -> LeaseRow \cup {Nil}]]
    /\ tunnel \in [Tunnels -> Conn]

TimerShape ==
    /\ pending \in [Pods -> [Traces -> Nat]]
    /\ gen \in [Pods -> Nat]
    /\ armed \in SUBSET AnyTimer /\ dispatched \in SUBSET AnyTimer

(* A connection past its lookup names a pod and a certificate whose lease   *)
(* was asked for, and no lease appears for one that was not: so no count    *)
(* starts at 0 beside a connection that is counted already, but for that of *)
(* a registration committed late.                                           *)
Registered ==
    /\ \A p \in Pods, c \in Certs : lease[p][c] # Nil => issued[c] # "no"
    /\ \A n \in Tunnels : tunnel[n].stage # "idle"
                            => /\ tunnel[n].pod \in Pods /\ tunnel[n].cert \in Certs
                               /\ issued[tunnel[n].cert] # "no"

(* Timers carry generations that were handed out, and the pending one of a  *)
(* trace is the newest of those that have not passed the check.             *)
Newest ==
    /\ \A m \in armed \cup dispatched : 0 < m[3] /\ m[3] <= gen[m[1]]
    /\ \A p \in Pods, t \in Traces : pending[p][t] # 0
          => \A m \in armed \cup dispatched : m[1] = p /\ m[2] = t => m[3] <= pending[p][t]

CountInv == CountShape /\ Registered /\ InFlightExact
TimerInv == TimerShape /\ PendingArmed /\ Newest
IInv     == CountInv /\ TimerInv

-----------------------------------------------------------------------------
(* Nothing is registered, counted or armed at first.                        *)
LEMMA InitIInv == Init => IInv
<1> SUFFICES ASSUME Init PROVE IInv
  OBVIOUS
<1>1. IdleTunnel \in Conn
  BY DEF IdleTunnel, Conn, Stages
<1>2. CountShape /\ TimerShape
  BY <1>1 DEF Init, CountShape, TimerShape, Registration
<1>3. Registered
  BY DEF Init, Registered, IdleTunnel
<1>4. InFlightExact
  BY DEF Init, InFlightExact
<1>5. PendingArmed /\ Newest
  BY DEF Init, PendingArmed, Newest
<1> QED  BY <1>2, <1>3, <1>4, <1>5 DEF IInv, CountInv, TimerInv

(* What the tunnel goroutine's stage updates yield.                         *)
LEMMA StageType ==
    ASSUME tunnel \in [Tunnels -> Conn], NEW n \in Tunnels, NEW st \in Stages, Stage(n, st)
    PROVE  /\ tunnel' \in [Tunnels -> Conn]
           /\ tunnel'[n].stage = st
           /\ tunnel'[n].pod = tunnel[n].pod /\ tunnel'[n].cert = tunnel[n].cert
           /\ \A k \in Tunnels \ {n} : tunnel'[k] = tunnel[k]
<1>1. /\ [tunnel[n] EXCEPT !.stage = st] \in Conn
      /\ [tunnel[n] EXCEPT !.stage = st].stage = st
      /\ [tunnel[n] EXCEPT !.stage = st].pod = tunnel[n].pod
      /\ [tunnel[n] EXCEPT !.stage = st].cert = tunnel[n].cert
  BY DEF Conn
<1> QED  BY <1>1 DEF Stage

(* Connections that are counted are finitely many, and one more or one less *)
(* is one step of the count.                                                *)
LEMMA CountSteps ==
    ASSUME NEW S \in SUBSET Tunnels, NEW n \in Tunnels
    PROVE  /\ Cardinality(S) \in Nat
           /\ n \notin S => Cardinality(S \cup {n}) = Cardinality(S) + 1
           /\ n \in S => Cardinality(S) > 0 /\ Cardinality(S \ {n}) = Cardinality(S) - 1
<1>1. IsFiniteSet(S)
  BY LifecycleAssumption, FS_Subset
<1>2. Cardinality(S) \in Nat
  BY <1>1, FS_CardinalityType
<1>3. n \notin S => Cardinality(S \cup {n}) = Cardinality(S) + 1
  BY <1>1, FS_AddElement
<1>4. n \in S => Cardinality(S \ {n}) = Cardinality(S) - 1
  BY <1>1, FS_RemoveElement
<1>5. n \in S => Cardinality(S) # 0
  BY <1>1, FS_EmptySet
<1> QED  BY <1>2, <1>3, <1>4, <1>5

(* Sets of connections are finite and smaller than all of them.             *)
LEMMA TunnelsFinite ==
    /\ Cardinality(Tunnels) \in Nat
    /\ \A S \in SUBSET Tunnels : Cardinality(S) \in Nat /\ Cardinality(S) <= Cardinality(Tunnels)
    /\ \A S \in SUBSET Tunnels : \A T \in SUBSET S : Cardinality(T) <= Cardinality(S)
<1>1. \A S \in SUBSET Tunnels : IsFiniteSet(S) /\ Cardinality(S) \in Nat
                                 /\ Cardinality(S) <= Cardinality(Tunnels)
  BY LifecycleAssumption, FS_Subset, FS_CardinalityType
<1>2. \A S \in SUBSET Tunnels : \A T \in SUBSET S : Cardinality(T) <= Cardinality(S)
  BY <1>1, FS_Subset
<1> QED  BY <1>1, <1>2, LifecycleAssumption, FS_CardinalityType

-----------------------------------------------------------------------------
(* touchSession changes no count and registers nothing.                     *)
LEMMA TouchKeeps ==
    ASSUME lease \in [Pods -> [Certs -> LeaseRow \cup {Nil}]], NEW p, NEW c \in Certs,
           lease' = Touched(p, c)
    PROVE  /\ lease' \in [Pods -> [Certs -> LeaseRow \cup {Nil}]]
           /\ \A q \in Pods : \A d \in Certs : lease'[q][d] # Nil
                 => lease[q][d] # Nil /\ lease'[q][d].inFlight = lease[q][d].inFlight
<1>1. ASSUME NEW r \in LeaseRow
      PROVE  /\ [r EXCEPT !.expired = FALSE] \in LeaseRow
             /\ [r EXCEPT !.expired = FALSE].inFlight = r.inFlight
  BY DEF LeaseRow
<1>2. ASSUME NEW q \in Pods
      PROVE  \/ lease'[q] = lease[q]
             \/ /\ lease[q][c] # Nil
                /\ lease'[q] = [lease[q] EXCEPT ![c] = [lease[q][c] EXCEPT !.expired = FALSE]]
  BY <1>2 DEF Touched
<1>3. ASSUME NEW q \in Pods
      PROVE  /\ lease'[q] \in [Certs -> LeaseRow \cup {Nil}]
             /\ \A d \in Certs : lease'[q][d] # Nil
                  => lease[q][d] # Nil /\ lease'[q][d].inFlight = lease[q][d].inFlight
  <2>1. lease[q] \in [Certs -> LeaseRow \cup {Nil}]
    OBVIOUS
  <2>2. CASE lease'[q] = lease[q]
    BY <2>1, <2>2
  <2>3. CASE /\ lease[q][c] # Nil
             /\ lease'[q] = [lease[q] EXCEPT ![c] = [lease[q][c] EXCEPT !.expired = FALSE]]
    <3>1. PICK x : x = [lease[q][c] EXCEPT !.expired = FALSE]
      OBVIOUS
    <3>2. x \in LeaseRow /\ x.inFlight = lease[q][c].inFlight
      BY <1>1, <2>1, <2>3, <3>1
    <3>3. lease'[q] = [lease[q] EXCEPT ![c] = x]
      BY <2>3, <3>1
    <3> QED  BY <2>1, <2>3, <3>2, <3>3
  <2> QED  BY <1>2, <2>2, <2>3
<1>4. lease' = [q \in Pods |-> lease'[q]]
  BY DEF Touched
<1> QED  BY <1>3, <1>4

(* A new lease row, on some pods, for a certificate whose connections are   *)
(* not counted there or are written off.                                    *)
LEMMA NewRows ==
    ASSUME CountInv, leader' \in Pods, tunnel' = tunnel, NEW c \in Certs, NEW P \in SUBSET Pods,
           NEW r \in Registration \ {"no"}, issued' = [issued EXCEPT ![c] = r],
           lease' \in [Pods -> [Certs -> LeaseRow \cup {Nil}]],
           \A q \in Pods : \A d \in Certs :
              IF q \in P /\ d = c THEN lease'[q][d] = NewLease ELSE lease'[q][d] = lease[q][d],
           zeroed' \in SUBSET (Pods \X Certs), zeroed \subseteq zeroed',
           \A z \in zeroed' \ zeroed : z[1] \in P /\ z[2] = c,
           \A q \in P : InFlightOf(q, c) = {} \/ <<q, c>> \in zeroed'
    PROVE  CountInv'
<1> USE DEF CountInv, CountShape
<1>1. \A p \in Pods, d \in Certs : InFlightOf(p, d)' = InFlightOf(p, d)
  BY DEF InFlightOf
<1>2. NewLease \in LeaseRow /\ NewLease.inFlight = 0
  BY DEF NewLease, LeaseRow
<1>3. /\ issued' \in [Certs -> Registration] /\ issued'[c] # "no"
      /\ \A d \in Certs \ {c} : issued'[d] = issued[d]
  OBVIOUS
<1>4. Registered'
  BY <1>3 DEF Registered
<1>5. ASSUME NEW q \in Pods, NEW d \in Certs, lease'[q][d] # Nil
      PROVE  /\ lease'[q][d].inFlight <= Cardinality(InFlightOf(q, d))
             /\ <<q, d>> \notin zeroed' => lease'[q][d].inFlight = Cardinality(InFlightOf(q, d))
  <2>1. InFlightOf(q, d) \in SUBSET Tunnels
    BY DEF InFlightOf
  <2>2. Cardinality(InFlightOf(q, d)) \in Nat
    BY <2>1, TunnelsFinite
  <2>3. CASE q \in P /\ d = c
    <3>1. lease'[q][d].inFlight = 0
      BY <1>2, <2>3
    <3>2. InFlightOf(q, d) = {} => Cardinality(InFlightOf(q, d)) = 0
      BY FS_EmptySet
    <3> QED  BY <2>2, <2>3, <3>1, <3>2
  <2>4. CASE ~(q \in P /\ d = c)
    <3>1. lease'[q][d] = lease[q][d] /\ (<<q, d>> \in zeroed' => <<q, d>> \in zeroed)
      BY <2>4
    <3> QED  BY <1>5, <3>1 DEF InFlightExact
  <2> QED  BY <2>3, <2>4
<1>6. InFlightExact'
  BY <1>1, <1>5 DEF InFlightExact
<1> QED  BY <1>3, <1>4, <1>6

(* Nothing is counted for a certificate that was not asked for.             *)
LEMMA Uncounted ==
    ASSUME CountInv, NEW c \in Certs, issued[c] = "no"
    PROVE  \A q \in Pods : InFlightOf(q, c) = {}
BY DEF CountInv, Registered, InFlightOf, Counted

(* Registrations: answered at once, kept locally, committed late or lost.   *)
LEMMA RegisterCounts ==
    ASSUME CountInv, NEW c \in Certs, RegisterStep(c)
    PROVE  CountInv'
<1> USE DEF CountInv, CountShape
<1>1. NewLease \in LeaseRow
  BY DEF NewLease, LeaseRow
<1>2. {"local", "pending", "logged"} \subseteq Registration \ {"no"}
  BY DEF Registration
<1>3. CASE Provision(c)
  <2>1. /\ leader' \in Pods /\ tunnel' = tunnel /\ zeroed' = zeroed
        /\ issued' = [issued EXCEPT ![c] = "logged"]
    BY <1>3 DEF Provision
  <2>2. lease' \in [Pods -> [Certs -> LeaseRow \cup {Nil}]]
    BY <1>1, <1>3 DEF Provision
  <2>3. \A q \in Pods : \A d \in Certs :
           IF q \in Pods /\ d = c THEN lease'[q][d] = NewLease ELSE lease'[q][d] = lease[q][d]
    BY <1>3 DEF Provision
  <2>4. \A q \in Pods : InFlightOf(q, c) = {}
    BY <1>3, Uncounted DEF Provision
  <2> HIDE DEF CountInv, CountShape
  <2>5. QED BY <1>2, <2>1, <2>2, <2>3, <2>4, NewRows DEF CountInv, CountShape
<1>4. ASSUME NEW p \in Pods, NEW r \in {"local", "pending"}, issued[c] = "no",
             leader' \in Pods, tunnel' = tunnel, zeroed' = zeroed,
             issued' = [issued EXCEPT ![c] = r], lease' = [lease EXCEPT ![p][c] = NewLease]
      PROVE  CountInv'
  <2>1. lease' = [lease EXCEPT ![p] = [lease[p] EXCEPT ![c] = NewLease]]
    BY <1>4
  <2>2. lease' \in [Pods -> [Certs -> LeaseRow \cup {Nil}]]
    BY <1>1, <2>1
  <2>3. PICK P \in SUBSET Pods : P = {p}
    OBVIOUS
  <2>4. \A q \in Pods : \A d \in Certs :
           IF q \in P /\ d = c THEN lease'[q][d] = NewLease ELSE lease'[q][d] = lease[q][d]
    BY <2>1, <2>3
  <2>5. \A q \in P : InFlightOf(q, c) = {} \/ <<q, c>> \in zeroed'
    BY <1>4, Uncounted
  <2>6. r \in Registration \ {"no"}
    BY <1>2
  <2>7. /\ zeroed' \in SUBSET (Pods \X Certs) /\ zeroed \subseteq zeroed'
        /\ \A z \in zeroed' \ zeroed : z[1] \in P /\ z[2] = c
    BY <1>4
  <2> HIDE DEF CountInv, CountShape
  <2>8. QED BY <1>4, <2>2, <2>4, <2>5, <2>6, <2>7, NewRows
<1>5. CASE ProvisionFails(c)
  <2>1. PICK r \in {"local", "pending"} : issued' = [issued EXCEPT ![c] = r]
    BY <1>5 DEF ProvisionFails
  <2> QED  BY <1>4, <1>5, <2>1 DEF ProvisionFails
<1>6. ASSUME NEW p \in Pods, ProvisionElsewhere(p, c) PROVE CountInv'
  BY <1>4, <1>6 DEF ProvisionElsewhere
<1>7. CASE CommitLate(c)
  <2>1. /\ leader' \in Pods /\ tunnel' = tunnel
        /\ issued' = [issued EXCEPT ![c] = "logged"]
    BY <1>7 DEF CommitLate
  <2>2. lease' \in [Pods -> [Certs -> LeaseRow \cup {Nil}]]
    BY <1>1, <1>7 DEF CommitLate
  <2>3. \A q \in Pods : \A d \in Certs :
           IF q \in Pods /\ d = c THEN lease'[q][d] = NewLease ELSE lease'[q][d] = lease[q][d]
    BY <1>7 DEF CommitLate
  <2>4. zeroed' = zeroed \cup {<<q, c>> : q \in {r \in Pods : InFlightOf(r, c) # {}}}
    BY <1>7 DEF CommitLate
  <2>5. zeroed' \in SUBSET (Pods \X Certs) /\ zeroed \subseteq zeroed'
    BY <2>4
  <2>6. \A z \in zeroed' \ zeroed : z[1] \in Pods /\ z[2] = c
    BY <2>4
  <2>7. \A q \in Pods : InFlightOf(q, c) = {} \/ <<q, c>> \in zeroed'
    BY <2>4
  <2> HIDE DEF CountInv, CountShape
  <2>8. QED BY <1>2, <2>1, <2>2, <2>3, <2>5, <2>6, <2>7, NewRows
<1>8. CASE DropLate(c)
  <2>1. UNCHANGED <<leader, lease, tunnel, zeroed>> /\ issued' = [issued EXCEPT ![c] = "local"]
    BY <1>8 DEF DropLate
  <2>2. leader' \in Pods
    BY <2>1
  <2>3. PICK P \in SUBSET Pods : P = {}
    OBVIOUS
  <2>4. \A q \in Pods : \A d \in Certs :
           IF q \in P /\ d = c THEN lease'[q][d] = NewLease ELSE lease'[q][d] = lease[q][d]
    BY <2>1, <2>3
  <2>5. /\ lease' \in [Pods -> [Certs -> LeaseRow \cup {Nil}]]
        /\ zeroed' \in SUBSET (Pods \X Certs) /\ zeroed \subseteq zeroed'
        /\ \A z \in zeroed' \ zeroed : z[1] \in P /\ z[2] = c
    BY <2>1
  <2>6. \A q \in P : InFlightOf(q, c) = {} \/ <<q, c>> \in zeroed'
    BY <2>3
  <2>7. tunnel' = tunnel /\ "local" \in Registration \ {"no"}
    BY <1>2, <2>1
  <2> HIDE DEF CountInv, CountShape
  <2>8. QED BY <2>1, <2>2, <2>4, <2>5, <2>6, <2>7, NewRows
<1> QED  BY <1>3, <1>5, <1>6, <1>7, <1>8 DEF RegisterStep

(* A registration leaves the connections, the timers and the sweeps alone.  *)
LEMMA RegisterFrame ==
    ASSUME NEW c \in Certs, RegisterStep(c)
    PROVE  UNCHANGED <<tunnel, timerVars, sweep, old>>
BY DEF RegisterStep, Provision, ProvisionElsewhere, ProvisionFails, CommitLate, DropLate

(* Steps of the lease store alone: expiry, reaping, touch.                  *)
LEMMA StoreStep ==
    ASSUME CountInv, UNCHANGED <<leader, tunnel>>,
           \/ \E p \in Pods, c \in Certs : Expire(p, c)
           \/ \E p \in Pods : ReapOrphans(p)
           \/ \E n \in Tunnels : Heartbeat(n)
    PROVE  CountInv'
<1> USE DEF CountInv, CountShape
<1>1. \A p \in Pods, c \in Certs : InFlightOf(p, c)' = InFlightOf(p, c)
  BY DEF InFlightOf
<1>2. ASSUME UNCHANGED <<issued, zeroed>>, lease' \in [Pods -> [Certs -> LeaseRow \cup {Nil}]],
             \A p \in Pods, c \in Certs : lease'[p][c] # Nil
                => lease[p][c] # Nil /\ lease'[p][c].inFlight = lease[p][c].inFlight
      PROVE  CountInv'
  BY <1>1, <1>2 DEF Registered, InFlightExact
<1>4. ASSUME NEW p \in Pods, NEW c \in Certs, Expire(p, c) PROVE CountInv'
  <2>1. lease[p][c] \in LeaseRow
    BY <1>4 DEF Expire
  <2>2. /\ [lease[p][c] EXCEPT !.expired = TRUE] \in LeaseRow
        /\ [lease[p][c] EXCEPT !.expired = TRUE].inFlight = lease[p][c].inFlight
    BY <2>1 DEF LeaseRow
  <2>3. \A q \in Pods : \A d \in Certs :
            \/ lease'[q][d] = lease[q][d]
            \/ q = p /\ d = c /\ lease'[q][d] = [lease[p][c] EXCEPT !.expired = TRUE]
    BY <1>4 DEF Expire
  <2>4. lease' \in [Pods -> [Certs -> LeaseRow \cup {Nil}]]
    BY <1>4, <2>2 DEF Expire
  <2>5. UNCHANGED <<issued, zeroed>> /\ lease[p][c] # Nil
    BY <1>4 DEF Expire
  <2> QED  BY <1>2, <2>2, <2>3, <2>4, <2>5
<1>5. ASSUME NEW p \in Pods, ReapOrphans(p) PROVE CountInv'
  <2>1. UNCHANGED <<issued, zeroed>> /\ lease' \in [Pods -> [Certs -> LeaseRow \cup {Nil}]]
    BY <1>5 DEF ReapOrphans
  <2>2. \A q \in Pods : \A d \in Certs : lease'[q][d] = lease[q][d] \/ lease'[q][d] = Nil
    BY <1>5 DEF ReapOrphans
  <2> QED  BY <1>2, <2>1, <2>2
<1>6. ASSUME NEW n \in Tunnels, Heartbeat(n) PROVE CountInv'
  <2>1. UNCHANGED <<issued, zeroed>>
    BY <1>6 DEF Heartbeat
  <2>2. tunnel[n].cert \in Certs
    BY <1>6 DEF Heartbeat, Registered
  <2> QED  BY <1>2, <1>6, <2>1, <2>2, TouchKeeps DEF Heartbeat
<1> QED  BY <1>4, <1>5, <1>6

-----------------------------------------------------------------------------
(* A step of connection n that leaves it counted, or not counted, and       *)
(* changes no count.                                                        *)
LEMMA KeepCounted ==
    ASSUME CountInv, UNCHANGED <<leader, issued, zeroed>>, NEW n \in Tunnels,
           tunnel' \in [Tunnels -> Conn],
           tunnel[n].stage # "idle",
           tunnel'[n].pod = tunnel[n].pod, tunnel'[n].cert = tunnel[n].cert,
           tunnel'[n].stage \in Counted <=> tunnel[n].stage \in Counted,
           \A k \in Tunnels \ {n} : tunnel'[k] = tunnel[k],
           lease' \in [Pods -> [Certs -> LeaseRow \cup {Nil}]],
           \A q \in Pods : \A d \in Certs : lease'[q][d] # Nil
              => lease[q][d] # Nil /\ lease'[q][d].inFlight = lease[q][d].inFlight
    PROVE  CountInv'
<1> USE DEF CountInv, CountShape
<1>0. \A k \in Tunnels : /\ tunnel'[k].pod = tunnel[k].pod /\ tunnel'[k].cert = tunnel[k].cert
                         /\ tunnel'[k].stage \in Counted <=> tunnel[k].stage \in Counted
  OBVIOUS
<1>1. \A p \in Pods : \A c \in Certs : InFlightOf(p, c)' = InFlightOf(p, c)
  <2> HIDE DEF CountInv, CountShape
  <2> QED  BY <1>0 DEF InFlightOf
<1>2. Registered'
  BY DEF Registered
<1>3. \A q \in Pods : \A d \in Certs : lease'[q][d] # Nil
          => /\ lease'[q][d].inFlight <= Cardinality(InFlightOf(q, d))
             /\ <<q, d>> \notin zeroed => lease'[q][d].inFlight = Cardinality(InFlightOf(q, d))
  BY DEF InFlightExact
<1>4. InFlightExact'
  BY <1>1, <1>3 DEF InFlightExact
<1> QED  BY <1>2, <1>4

(* Stage changes of the tunnel goroutine that count nothing.                *)
LEMMA StageStep ==
    ASSUME CountInv, NEW n \in Tunnels,
           \/ OnTunnelOpen(n) \/ TunnelUp(n) \/ TunnelEnd(n) \/ OnTunnelClosedNoop(n)
           \/ OnTunnelClosedNow(n) \/ CloseMark(n) \/ OnTunnelClosedGrace(n)
    PROVE  CountInv'
<1>1. /\ lease \in [Pods -> [Certs -> LeaseRow \cup {Nil}]]
      /\ tunnel \in [Tunnels -> Conn]
  BY DEF CountInv, CountShape
<1>2. UNCHANGED <<leader, issued, zeroed>>
  BY DEF OnTunnelOpen, TunnelUp, TunnelEnd, OnTunnelClosedNoop, OnTunnelClosedNow,
         CloseMark, OnTunnelClosedGrace
<1>3. PICK s \in Stages : /\ Stage(n, s) /\ tunnel[n].stage # "idle"
                          /\ s \in Counted <=> tunnel[n].stage \in Counted
  <2>1. CASE OnTunnelOpen(n)
    BY <2>1 DEF OnTunnelOpen, Stages, Serving, Counted
  <2>2. CASE TunnelUp(n)
    BY <2>2 DEF TunnelUp, Stages, Serving, Counted
  <2>3. CASE TunnelEnd(n)
    BY <2>3 DEF TunnelEnd, Stages, Closing, Counted
  <2>4. CASE OnTunnelClosedNoop(n) \/ CloseMark(n) \/ OnTunnelClosedGrace(n)
    <3>1. Stage(n, "done") /\ tunnel[n].stage \in {"decremented", "marking"}
      BY <2>4 DEF OnTunnelClosedNoop, CloseMark, OnTunnelClosedGrace
    <3>2. QED BY <3>1 DEF Stages, Counted
  <2>5. CASE OnTunnelClosedNow(n)
    BY <2>5 DEF OnTunnelClosedNow, Stages, Closing, Counted
  <2> QED  BY <2>1, <2>2, <2>3, <2>4, <2>5
<1>4. /\ tunnel' \in [Tunnels -> Conn]
      /\ tunnel'[n].stage = s
      /\ tunnel'[n].pod = tunnel[n].pod /\ tunnel'[n].cert = tunnel[n].cert
      /\ \A k \in Tunnels \ {n} : tunnel'[k] = tunnel[k]
  BY <1>1, <1>3, StageType
<1>5. /\ lease' \in [Pods -> [Certs -> LeaseRow \cup {Nil}]]
      /\ \A q \in Pods : \A d \in Certs : lease'[q][d] # Nil
            => lease[q][d] # Nil /\ lease'[q][d].inFlight = lease[q][d].inFlight
  <2>1. CASE TunnelUp(n)
    <3>1. tunnel[n].cert \in Certs
      BY <1>3 DEF CountInv, CountShape, Registered
    <3>2. lease' = Touched(tunnel[n].pod, tunnel[n].cert)
      BY <2>1 DEF TunnelUp
    <3> QED  BY <1>1, <3>1, <3>2, TouchKeeps
  <2>2. CASE ~TunnelUp(n)
    <3>1. lease' = lease
      BY <2>2 DEF OnTunnelOpen, TunnelEnd, OnTunnelClosedNoop, OnTunnelClosedNow,
                  CloseMark, OnTunnelClosedGrace
    <3> QED  BY <1>1, <3>1
  <2> QED  BY <2>1, <2>2
<1> QED  BY <1>2, <1>3, <1>4, <1>5, KeepCounted

(* sessions.Get: the connection has a registered lease and is not counted.  *)
LEMMA GetStep ==
    ASSUME CountInv, NEW n \in Tunnels, NEW c \in Certs, TunnelGet(n, c)
    PROVE  CountInv'
<1> USE DEF CountInv, CountShape
<1>1. PICK x : x = [stage |-> "got", pod |-> leader, cert |-> c, remaining |-> 0]
  OBVIOUS
<1>2. x \in Conn /\ x.stage = "got" /\ x.pod = leader /\ x.cert = c
  BY <1>1 DEF Conn, Stages, Serving
<1>3. tunnel' = [tunnel EXCEPT ![n] = x] /\ lease' = lease /\ UNCHANGED <<issued, zeroed>>
      /\ leader' = leader /\ tunnel[n].stage = "idle" /\ lease[leader][c] # Nil
  BY <1>1 DEF TunnelGet
<1>4. /\ tunnel' \in [Tunnels -> Conn] /\ tunnel'[n] = x
      /\ \A k \in Tunnels \ {n} : tunnel'[k] = tunnel[k]
  BY <1>2, <1>3
<1>5. \A p \in Pods : \A d \in Certs : InFlightOf(p, d)' = InFlightOf(p, d)
  BY <1>2, <1>3, <1>4 DEF InFlightOf, Counted
<1>6. Registered'
  BY <1>2, <1>3, <1>4 DEF Registered
<1>7. InFlightExact'
  BY <1>3, <1>5 DEF InFlightExact
<1> QED  BY <1>3, <1>4, <1>6, <1>7

(* IncInFlight: the connection becomes counted and the row, if there is     *)
(* one, counts one more.                                                    *)
LEMMA IncStep ==
    ASSUME CountInv, NEW n \in Tunnels, TunnelInc(n)
    PROVE  CountInv'
<1> USE DEF CountInv, CountShape
<1>0. PICK p, c : p = tunnel[n].pod /\ c = tunnel[n].cert
  OBVIOUS
<1>1. /\ tunnel[n].stage = "got" /\ Stage(n, "counted") /\ "counted" \in Stages
      /\ UNCHANGED <<leader, issued, zeroed>> /\ lease' = IncInFlight(p, c)
  BY <1>0 DEF TunnelInc, Stages, Serving
<1>2. /\ tunnel' \in [Tunnels -> Conn] /\ tunnel'[n].stage = "counted"
      /\ tunnel'[n].pod = p /\ tunnel'[n].cert = c
      /\ \A k \in Tunnels \ {n} : tunnel'[k] = tunnel[k]
  BY <1>0, <1>1, StageType
<1>3. p \in Pods /\ c \in Certs
  BY <1>0, <1>1 DEF Registered
<1>4. /\ InFlightOf(p, c)' = InFlightOf(p, c) \cup {n} /\ n \notin InFlightOf(p, c)
      /\ InFlightOf(p, c) \in SUBSET Tunnels
  BY <1>0, <1>1, <1>2 DEF InFlightOf, Counted
<1>5. \A q \in Pods : \A d \in Certs : q # p \/ d # c => InFlightOf(q, d)' = InFlightOf(q, d)
  BY <1>0, <1>1, <1>2 DEF InFlightOf, Counted
<1>6. CASE lease[p][c] = Nil
  <2>1. lease' = lease
    BY <1>0, <1>1, <1>6 DEF IncInFlight
  <2>2. Registered'
    BY <1>0, <1>1, <1>2, <2>1 DEF Registered
  <2>3. InFlightExact'
    BY <1>1, <1>5, <1>6, <2>1 DEF InFlightExact
  <2> QED  BY <1>0, <1>1, <1>2, <2>1, <2>2, <2>3
<1>7. CASE lease[p][c] # Nil
  <2>1. lease[p][c] \in LeaseRow
    BY <1>3, <1>7
  <2>2. PICK x : x = [lease[p][c] EXCEPT !.inFlight = lease[p][c].inFlight + 1]
    OBVIOUS
  <2>3. x \in LeaseRow /\ x.inFlight = lease[p][c].inFlight + 1
    BY <2>1, <2>2 DEF LeaseRow
  <2>4. lease' = [lease EXCEPT ![p] = [lease[p] EXCEPT ![c] = x]]
    BY <1>0, <1>1, <1>7, <2>2 DEF IncInFlight
  <2>5. /\ lease' \in [Pods -> [Certs -> LeaseRow \cup {Nil}]] /\ lease'[p][c] = x
        /\ \A q \in Pods : \A d \in Certs : q # p \/ d # c => lease'[q][d] = lease[q][d]
    BY <1>3, <2>3, <2>4
  <2>6. Registered'
    <3>1. \A q \in Pods : \A d \in Certs : lease'[q][d] # Nil => issued[d] # "no"
      BY <1>7, <2>5 DEF Registered
    <3>2. \A k \in Tunnels : tunnel'[k].stage # "idle"
             => tunnel'[k].pod \in Pods /\ tunnel'[k].cert \in Certs /\ issued[tunnel'[k].cert] # "no"
      BY <1>0, <1>1, <1>2 DEF Registered
    <3> QED  BY <1>1, <3>1, <3>2 DEF Registered
  <2>7. /\ x.inFlight <= Cardinality(InFlightOf(p, c)')
        /\ <<p, c>> \notin zeroed => x.inFlight = Cardinality(InFlightOf(p, c)')
    <3>1. /\ Cardinality(InFlightOf(p, c)) \in Nat
          /\ Cardinality(InFlightOf(p, c)') = Cardinality(InFlightOf(p, c)) + 1
      BY <1>4, CountSteps
    <3>2. lease[p][c].inFlight \in Nat
      BY <2>1 DEF LeaseRow
    <3> QED  BY <1>3, <1>7, <2>3, <3>1, <3>2 DEF InFlightExact
  <2>8. \A q \in Pods : \A d \in Certs : lease'[q][d] # Nil
            => /\ lease'[q][d].inFlight <= Cardinality(InFlightOf(q, d)')
               /\ <<q, d>> \notin zeroed' => lease'[q][d].inFlight = Cardinality(InFlightOf(q, d)')
    <3>1. TAKE q \in Pods
    <3>2. TAKE d \in Certs
    <3>3. CASE q = p /\ d = c
      BY <1>1, <2>5, <2>7, <3>3
    <3>4. CASE q # p \/ d # c
      <4>1. lease'[q][d] = lease[q][d] /\ InFlightOf(q, d)' = InFlightOf(q, d)
        BY <1>5, <2>5, <3>4
      <4> QED  BY <1>1, <4>1 DEF InFlightExact
    <3> QED  BY <3>3, <3>4
  <2>9. InFlightExact'
    BY <2>8 DEF InFlightExact
  <2> QED  BY <1>0, <1>1, <1>2, <2>5, <2>6, <2>9
<1> QED  BY <1>6, <1>7

(* DecInFlight: the connection stops being counted and the row counts one   *)
(* less; the test against 0 never hides a miscount.                         *)
LEMMA DecStep ==
    ASSUME CountInv, NEW n \in Tunnels, TunnelDec(n)
    PROVE  CountInv'
<1> USE DEF CountInv, CountShape
<1>0. PICK p, c : p = tunnel[n].pod /\ c = tunnel[n].cert
  OBVIOUS
<1>1. /\ tunnel[n].stage = "closing"
      /\ UNCHANGED <<leader, issued, zeroed>> /\ lease' = DecInFlight(p, c)
  BY <1>0 DEF TunnelDec
<1>2. p \in Pods /\ c \in Certs
  BY <1>0, <1>1 DEF Registered
<1>3. Remaining(p, c) \in Nat
  BY <1>2 DEF Remaining, LeaseRow
<1>4. PICK y : y = [tunnel[n] EXCEPT !.stage = "decremented", !.remaining = Remaining(p, c)]
  OBVIOUS
<1>5. y \in Conn /\ y.stage = "decremented" /\ y.pod = p /\ y.cert = c
  BY <1>0, <1>3, <1>4 DEF Conn, Stages, Closing
<1>6. tunnel' = [tunnel EXCEPT ![n] = y]
  BY <1>0, <1>4 DEF TunnelDec
<1>7. /\ tunnel' \in [Tunnels -> Conn] /\ tunnel'[n] = y
      /\ \A k \in Tunnels \ {n} : tunnel'[k] = tunnel[k]
  BY <1>5, <1>6
<1>8. /\ InFlightOf(p, c)' = InFlightOf(p, c) \ {n} /\ n \in InFlightOf(p, c)
      /\ InFlightOf(p, c) \in SUBSET Tunnels
  BY <1>0, <1>1, <1>5, <1>7 DEF InFlightOf, Counted
<1>9. \A q \in Pods : \A d \in Certs : q # p \/ d # c => InFlightOf(q, d)' = InFlightOf(q, d)
  BY <1>0, <1>1, <1>5, <1>7 DEF InFlightOf, Counted
<1>10. CASE lease[p][c] = Nil
  <2>1. lease' = lease
    BY <1>0, <1>1, <1>10 DEF DecInFlight
  <2>2. Registered'
    BY <1>0, <1>1, <1>5, <1>7, <2>1 DEF Registered
  <2>3. InFlightExact'
    BY <1>1, <1>9, <1>10, <2>1 DEF InFlightExact
  <2> QED  BY <1>0, <1>1, <1>7, <2>1, <2>2, <2>3
<1>11. CASE lease[p][c] # Nil
  <2>1. /\ lease[p][c] \in LeaseRow /\ lease[p][c].inFlight \in Nat
        /\ lease[p][c].inFlight <= Cardinality(InFlightOf(p, c))
        /\ <<p, c>> \notin zeroed => lease[p][c].inFlight = Cardinality(InFlightOf(p, c))
    BY <1>2, <1>11 DEF InFlightExact, LeaseRow
  <2>2. /\ Cardinality(InFlightOf(p, c)) \in Nat /\ Cardinality(InFlightOf(p, c)) > 0
        /\ Cardinality(InFlightOf(p, c)') = Cardinality(InFlightOf(p, c)) - 1
    BY <1>8, CountSteps
  <2>3. /\ Remaining(p, c) <= Cardinality(InFlightOf(p, c)')
        /\ <<p, c>> \notin zeroed => Remaining(p, c) = Cardinality(InFlightOf(p, c)')
    BY <1>11, <2>1, <2>2 DEF Remaining
  <2>4. PICK x : x = [lease[p][c] EXCEPT !.inFlight = Remaining(p, c)]
    OBVIOUS
  <2>5. x \in LeaseRow /\ x.inFlight = Remaining(p, c)
    BY <1>3, <2>1, <2>4 DEF LeaseRow
  <2>6. lease' = [lease EXCEPT ![p] = [lease[p] EXCEPT ![c] = x]]
    BY <1>0, <1>1, <1>11, <2>4 DEF DecInFlight
  <2>7. /\ lease' \in [Pods -> [Certs -> LeaseRow \cup {Nil}]] /\ lease'[p][c] = x
        /\ \A q \in Pods : \A d \in Certs : q # p \/ d # c => lease'[q][d] = lease[q][d]
    BY <1>2, <2>5, <2>6
  <2>8. Registered'
    <3>1. \A q \in Pods : \A d \in Certs : lease'[q][d] # Nil => issued[d] # "no"
      BY <1>11, <2>7 DEF Registered
    <3>2. \A k \in Tunnels : tunnel'[k].stage # "idle"
             => tunnel'[k].pod \in Pods /\ tunnel'[k].cert \in Certs /\ issued[tunnel'[k].cert] # "no"
      BY <1>0, <1>1, <1>5, <1>7 DEF Registered
    <3> QED  BY <1>1, <3>1, <3>2 DEF Registered
  <2>9. \A q \in Pods : \A d \in Certs : lease'[q][d] # Nil
            => /\ lease'[q][d].inFlight <= Cardinality(InFlightOf(q, d)')
               /\ <<q, d>> \notin zeroed' => lease'[q][d].inFlight = Cardinality(InFlightOf(q, d)')
    <3>1. TAKE q \in Pods
    <3>2. TAKE d \in Certs
    <3>3. CASE q = p /\ d = c
      BY <1>1, <2>3, <2>5, <2>7, <3>3
    <3>4. CASE q # p \/ d # c
      <4>1. lease'[q][d] = lease[q][d] /\ InFlightOf(q, d)' = InFlightOf(q, d)
        BY <1>9, <2>7, <3>4
      <4> QED  BY <1>1, <4>1 DEF InFlightExact
    <3> QED  BY <3>3, <3>4
  <2>10. InFlightExact'
    BY <2>9 DEF InFlightExact
  <2> QED  BY <1>0, <1>1, <1>7, <2>7, <2>8, <2>10
<1> QED  BY <1>10, <1>11

(* A restart ends every connection of the pod, so the rows that its log     *)
(* replay brings back may start at 0.                                       *)
LEMMA RestartCounts ==
    ASSUME CountInv, NEW p \in Pods, Restart(p)
    PROVE  CountInv'
<1> USE DEF CountInv, CountShape
<1>1. /\ leader' \in Pods /\ issued' = issued
      /\ zeroed' \in SUBSET (Pods \X Certs)
      /\ \A q \in Pods \ {p} : \A c \in Certs : <<q, c>> \in zeroed => <<q, c>> \in zeroed'
  BY DEF Restart
<1>2. PICK z : z = NewLease
  OBVIOUS
<1>3. z \in LeaseRow /\ z.inFlight = 0
  BY <1>2 DEF NewLease, LeaseRow
<1>4. PICK kept \in SUBSET {c \in Certs : issued[c] = "logged"} :
         lease' = [lease EXCEPT ![p] = [c \in Certs |-> IF c \in kept THEN z ELSE Nil]]
  BY <1>2 DEF Restart
<1>5. lease' \in [Pods -> [Certs -> LeaseRow \cup {Nil}]]
  BY <1>3, <1>4
<1>6. /\ \A q \in Pods \ {p} : lease'[q] = lease[q]
      /\ \A c \in Certs : lease'[p][c] # Nil => issued[c] # "no" /\ lease'[p][c] = z
  BY <1>4
<1>7. ASSUME NEW n \in Tunnels
      PROVE  /\ tunnel'[n] \in Conn
             /\ tunnel'[n].pod = tunnel[n].pod /\ tunnel'[n].cert = tunnel[n].cert
             /\ tunnel'[n].stage = tunnel[n].stage \/ tunnel'[n].stage = "done"
             /\ tunnel[n].stage = "idle" => tunnel'[n].stage = "idle"
             /\ tunnel[n].pod # p => tunnel'[n].stage = tunnel[n].stage
             /\ tunnel[n].pod = p => tunnel'[n].stage \in {"idle", "done"}
  <2>1. PICK y : y = [tunnel[n] EXCEPT !.stage = "done"]
    OBVIOUS
  <2>2. y \in Conn /\ y.stage = "done" /\ y.pod = tunnel[n].pod /\ y.cert = tunnel[n].cert
    BY <2>1 DEF Conn, Stages
  <2>3. tunnel'[n] = IF tunnel[n].stage # "idle" /\ tunnel[n].pod = p THEN y ELSE tunnel[n]
    BY <2>1 DEF Restart
  <2> QED  BY <2>2, <2>3
<1>8. tunnel' \in [Tunnels -> Conn]
  <2>1. tunnel' = [n \in Tunnels |-> tunnel'[n]]
    BY DEF Restart
  <2> QED  BY <1>7, <2>1
<1>9. \A q \in Pods : \A c \in Certs :
         InFlightOf(q, c)' = IF q = p THEN {} ELSE InFlightOf(q, c)
  <2> HIDE DEF CountInv, CountShape
  <2> QED  BY <1>7 DEF InFlightOf, Counted
<1>10. Registered'
  BY <1>1, <1>6, <1>7 DEF Registered
<1>11. \A q \in Pods : \A c \in Certs : lease'[q][c] # Nil
          => /\ lease'[q][c].inFlight <= Cardinality(InFlightOf(q, c)')
             /\ <<q, c>> \notin zeroed' => lease'[q][c].inFlight = Cardinality(InFlightOf(q, c)')
  <2>1. TAKE q \in Pods
  <2>2. TAKE c \in Certs
  <2>3. CASE q = p
    <3>1. InFlightOf(q, c)' = {} /\ lease'[q][c] # Nil => lease'[q][c].inFlight = 0
      BY <1>3, <1>6, <1>9, <2>3
    <3>2. InFlightOf(q, c)' = {}
      BY <1>9, <2>3
    <3>3. Cardinality(InFlightOf(q, c)') = 0
      BY <3>2, FS_EmptySet
    <3> QED  BY <3>1, <3>2, <3>3
  <2>4. CASE q # p
    <3>1. lease'[q][c] = lease[q][c] /\ InFlightOf(q, c)' = InFlightOf(q, c)
      BY <1>6, <1>9, <2>4
    <3> QED  BY <1>1, <2>4, <3>1 DEF InFlightExact
  <2> QED  BY <2>3, <2>4
<1>12. InFlightExact'
  BY <1>11 DEF InFlightExact
<1> QED  BY <1>1, <1>5, <1>8, <1>10, <1>12

(* Steps that touch neither a lease nor a connection.                       *)
LEMMA CountFrame ==
    ASSUME CountInv, leader' \in Pods, UNCHANGED <<issued, zeroed, lease, tunnel>>
    PROVE  CountInv'
<1>1. \A p \in Pods : \A c \in Certs : InFlightOf(p, c)' = InFlightOf(p, c)
  BY DEF InFlightOf
<1> QED  BY <1>1 DEF CountInv, CountShape, Registered, InFlightExact

(* Every step keeps the counts.                                             *)
LEMMA CountNext ==
    ASSUME CountInv, [Next]_vars
    PROVE  CountInv'
<1>0. leader \in Pods
  BY DEF CountInv, CountShape
<1>1. CASE UNCHANGED vars
  BY <1>0, <1>1, CountFrame DEF vars
<1>2. ASSUME NEW c \in Certs, RegisterStep(c) PROVE CountInv'
  BY <1>2, RegisterCounts
<1>11. ASSUME NEW p \in Pods, NEW c \in Certs, Expire(p, c) PROVE CountInv'
  <2>1. UNCHANGED <<leader, tunnel>>
    BY <1>11 DEF Expire
  <2> QED  BY <1>11, <2>1, StoreStep
<1>3. ASSUME NEW p \in Pods, ReapOrphans(p) PROVE CountInv'
  <2>1. UNCHANGED <<leader, tunnel>>
    BY <1>3 DEF ReapOrphans
  <2> QED  BY <1>3, <2>1, StoreStep
<1>4. ASSUME NEW p \in Pods, SweepStep(p) \/ LeaderChange(p) PROVE CountInv'
  BY <1>0, <1>4, CountFrame
     DEF SweepStep, SweepList, SweepActive, SweepMark, SweepDone, LeaderChange
<1>5. ASSUME NEW p \in Pods, Restart(p) PROVE CountInv'
  BY <1>5, RestartCounts
<1>6. ASSUME NEW t \in Traces, (\E s \in {"running"} \cup Terminal : Ingest(t, s)) \/ GrowOld(t)
      PROVE  CountInv'
  BY <1>0, <1>6, CountFrame DEF Ingest, GrowOld
<1>7. ASSUME NEW n \in Tunnels, NEW c \in Certs, TunnelGet(n, c) PROVE CountInv'
  BY <1>7, GetStep
<1>8. ASSUME NEW n \in Tunnels, TunnelStep(n) \/ TunnelUp(n) \/ TunnelEnd(n)
      PROVE  CountInv'
  BY <1>8, IncStep, DecStep, StageStep DEF TunnelStep
<1>9. ASSUME NEW n \in Tunnels, Heartbeat(n) PROVE CountInv'
  <2>1. UNCHANGED <<leader, tunnel>>
    BY <1>9 DEF Heartbeat
  <2> QED  BY <1>9, <2>1, StoreStep
<1>10. ASSUME NEW m, TimerStep(m) PROVE CountInv'
  BY <1>0, <1>10, CountFrame DEF TimerStep, TimerDispatch, FireGrace, GraceMark
<1> QED  BY <1>1, <1>2, <1>3, <1>4, <1>5, <1>6, <1>7, <1>8, <1>9, <1>10, <1>11 DEF Next

-----------------------------------------------------------------------------
(* Timers.                                                                  *)

(* OnTunnelOpen stops the pending timer and forgets it.                     *)
LEMMA CancelTimer ==
    ASSUME TimerInv, NEW p \in Pods, NEW t \in Traces \cup {Nil}, CancelPending(p, t),
           UNCHANGED <<gen, dispatched>>
    PROVE  TimerInv'
<1> USE DEF TimerInv, TimerShape
<1>1. CASE ~(Grace /\ t # Nil)
  BY <1>1 DEF CancelPending, PendingArmed, Newest
<1>2. CASE Grace /\ t # Nil
  <2>1. /\ armed' = armed \ {<<p, t, pending[p][t]>>}
        /\ pending' = [pending EXCEPT ![p] = [pending[p] EXCEPT ![t] = 0]]
        /\ t \in Traces
    BY <1>2 DEF CancelPending
  <2>2. /\ pending' \in [Pods -> [Traces -> Nat]] /\ pending'[p][t] = 0
        /\ \A q \in Pods : \A u \in Traces : q # p \/ u # t => pending'[q][u] = pending[q][u]
    BY <2>1
  <2>3. PendingArmed'
    BY <2>1, <2>2 DEF PendingArmed
  <2>4. Newest'
    BY <2>1, <2>2 DEF Newest
  <2> QED  BY <2>1, <2>2, <2>3, <2>4
<1> QED  BY <1>1, <1>2

(* OnTunnelClosed replaces the pending timer by one of a new generation.    *)
LEMMA ArmTimer ==
    ASSUME TimerInv, NEW p \in Pods, NEW t \in Traces, NEW g, g = gen[p] + 1,
           gen' = [gen EXCEPT ![p] = g],
           armed' = (armed \ {<<p, t, pending[p][t]>>}) \cup {<<p, t, g>>},
           pending' = [pending EXCEPT ![p] = [pending[p] EXCEPT ![t] = g]],
           dispatched' = dispatched
    PROVE  TimerInv'
<1> USE DEF TimerInv, TimerShape
<1>1. g \in Nat /\ gen[p] \in Nat /\ g > 0
  OBVIOUS
<1>2. /\ pending' \in [Pods -> [Traces -> Nat]] /\ pending'[p][t] = g
      /\ \A q \in Pods : \A u \in Traces : q # p \/ u # t => pending'[q][u] = pending[q][u]
  BY <1>1
<1>3. armed' \in SUBSET AnyTimer /\ gen' \in [Pods -> Nat]
  BY <1>1 DEF AnyTimer
<1>4. PendingArmed'
  BY <1>1, <1>2 DEF PendingArmed
<1>5. ASSUME NEW m \in (armed \cup dispatched)'
      PROVE  \/ m = <<p, t, g>>
             \/ m \in armed \cup dispatched /\ m[1] \in Pods /\ m[2] \in Traces /\ m[3] \in Nat
                /\ 0 < m[3] /\ m[3] <= gen[m[1]]
  BY <1>5 DEF Newest, AnyTimer
<1>6. \A m \in (armed \cup dispatched)' : 0 < m[3] /\ m[3] <= gen'[m[1]]
  BY <1>1, <1>5
<1>7. ASSUME NEW q \in Pods, NEW u \in Traces, pending'[q][u] # 0,
             NEW m \in (armed \cup dispatched)', m[1] = q, m[2] = u
      PROVE  m[3] <= pending'[q][u]
  <2>1. CASE q = p /\ u = t
    BY <1>1, <1>2, <1>5, <1>7, <2>1
  <2>2. CASE q # p \/ u # t
    BY <1>2, <1>5, <1>7, <2>2 DEF Newest
  <2> QED  BY <2>1, <2>2
<1>8. Newest'
  BY <1>6, <1>7 DEF Newest
<1> QED  BY <1>2, <1>3, <1>4, <1>8

(* The callback passes the check, or finds that it is not the pending one.  *)
LEMMA FireTimer ==
    ASSUME TimerInv, NEW m, FireGrace(m)
    PROVE  TimerInv'
<1> USE DEF TimerInv, TimerShape
<1>1. /\ m \in dispatched /\ dispatched' = dispatched \ {m}
      /\ armed' = armed /\ gen' = gen
  BY DEF FireGrace
<1>2. m = <<m[1], m[2], m[3]>> /\ m[1] \in Pods /\ m[2] \in Traces /\ m[3] \in Nat
  BY <1>1 DEF AnyTimer
<1>3. CASE ~Current(m)
  <2>1. pending' = pending /\ pending[m[1]][m[2]] # m[3]
    BY <1>3 DEF FireGrace, Current
  <2>2. PendingArmed'
    BY <1>1, <1>2, <2>1 DEF PendingArmed
  <2>3. Newest'
    BY <1>1, <2>1 DEF Newest
  <2> QED  BY <1>1, <2>1, <2>2, <2>3
<1>4. CASE Current(m)
  <2>1. pending' = [pending EXCEPT ![m[1]] = [pending[m[1]] EXCEPT ![m[2]] = 0]]
    BY <1>4 DEF FireGrace
  <2>2. /\ pending' \in [Pods -> [Traces -> Nat]] /\ pending'[m[1]][m[2]] = 0
        /\ \A q \in Pods : \A u \in Traces :
              q # m[1] \/ u # m[2] => pending'[q][u] = pending[q][u]
    BY <1>2, <2>1
  <2>3. PendingArmed'
    BY <1>1, <1>2, <2>2 DEF PendingArmed
  <2>4. Newest'
    BY <1>1, <2>2 DEF Newest
  <2> QED  BY <1>1, <2>2, <2>3, <2>4
<1> QED  BY <1>3, <1>4

(* A restart drops the timers of the pod with its generation counter.       *)
LEMMA RestartTimers ==
    ASSUME TimerInv, NEW p \in Pods, Restart(p)
    PROVE  TimerInv'
<1> USE DEF TimerInv, TimerShape
<1>1. /\ pending' = [pending EXCEPT ![p] = [t \in Traces |-> 0]]
      /\ gen' = [gen EXCEPT ![p] = 0]
      /\ armed' = {m \in armed : m[1] # p} /\ dispatched' = {m \in dispatched : m[1] # p}
  BY DEF Restart
<1>2. /\ pending' \in [Pods -> [Traces -> Nat]] /\ \A t \in Traces : pending'[p][t] = 0
      /\ \A q \in Pods \ {p} : pending'[q] = pending[q]
  BY <1>1
<1>3. PendingArmed'
  BY <1>1, <1>2 DEF PendingArmed
<1>4. ASSUME NEW m \in (armed \cup dispatched)'
      PROVE  m \in armed \cup dispatched /\ m[1] \in Pods \ {p} /\ gen'[m[1]] = gen[m[1]]
  BY <1>1, <1>4 DEF AnyTimer
<1>5. Newest'
  BY <1>2, <1>4 DEF Newest
<1> QED  BY <1>1, <1>2, <1>3, <1>5

(* Every step keeps the timers.                                             *)
LEMMA TimerNext ==
    ASSUME IInv, [Next]_vars
    PROVE  TimerInv'
<1> USE DEF IInv
<1>1. ASSUME UNCHANGED <<pending, gen, armed, dispatched>> PROVE TimerInv'
  BY <1>1 DEF TimerInv, TimerShape, PendingArmed, Newest
<1>2. CASE UNCHANGED vars
  BY <1>1, <1>2 DEF vars
<1>13. ASSUME NEW c \in Certs, RegisterStep(c) PROVE TimerInv'
  BY <1>1, <1>13, RegisterFrame DEF timerVars
<1>3. ASSUME NEW p \in Pods,
             \/ \E c \in Certs : Expire(p, c)
             \/ ReapOrphans(p) \/ SweepStep(p) \/ LeaderChange(p)
      PROVE  TimerInv'
  BY <1>1, <1>3 DEF Expire, ReapOrphans, SweepStep, SweepList, SweepActive,
                    SweepMark, SweepDone, LeaderChange, timerVars
<1>4. ASSUME NEW p \in Pods, Restart(p) PROVE TimerInv'
  BY <1>4, RestartTimers
<1>5. ASSUME NEW t \in Traces, (\E s \in {"running"} \cup Terminal : Ingest(t, s)) \/ GrowOld(t)
      PROVE  TimerInv'
  BY <1>1, <1>5 DEF Ingest, GrowOld, timerVars
<1>6. ASSUME NEW n \in Tunnels,
             \/ \E c \in Certs : TunnelGet(n, c)
             \/ TunnelInc(n) \/ TunnelDec(n) \/ OnTunnelClosedNoop(n) \/ OnTunnelClosedNow(n)
             \/ CloseMark(n) \/ TunnelUp(n) \/ Heartbeat(n) \/ TunnelEnd(n)
      PROVE  TimerInv'
  BY <1>1, <1>6 DEF TunnelGet, TunnelInc, TunnelDec, OnTunnelClosedNoop, OnTunnelClosedNow,
                    CloseMark, TunnelUp, Heartbeat, TunnelEnd, timerVars
<1>7. ASSUME NEW n \in Tunnels, tunnel[n].stage # "idle"
      PROVE  tunnel[n].pod \in Pods /\ TraceOf[tunnel[n].cert] \in Traces \cup {Nil}
  BY <1>7, LifecycleAssumption DEF CountInv, CountShape, Registered
<1>8. ASSUME NEW n \in Tunnels, OnTunnelOpen(n) PROVE TimerInv'
  <2>1. tunnel[n].stage # "idle" /\ UNCHANGED <<gen, dispatched>>
        /\ CancelPending(tunnel[n].pod, TraceOf[tunnel[n].cert])
    BY <1>8 DEF OnTunnelOpen
  <2> QED  BY <1>7, <2>1, CancelTimer
<1>9. ASSUME NEW n \in Tunnels, OnTunnelClosedGrace(n) PROVE TimerInv'
  <2>1. PICK p, t, g : p = tunnel[n].pod /\ t = TraceOf[tunnel[n].cert] /\ g = gen[p] + 1
    OBVIOUS
  <2>2. p \in Pods /\ t \in Traces
    BY <1>7, <1>9, <2>1 DEF OnTunnelClosedGrace, LastClose
  <2>3. /\ gen' = [gen EXCEPT ![p] = g]
        /\ armed' = (armed \ {<<p, t, pending[p][t]>>}) \cup {<<p, t, g>>}
        /\ pending' = [pending EXCEPT ![p] = [pending[p] EXCEPT ![t] = g]]
        /\ dispatched' = dispatched
    BY <1>9, <2>1 DEF OnTunnelClosedGrace
  <2> QED  BY <2>1, <2>2, <2>3, ArmTimer
<1>10. ASSUME NEW m, TimerDispatch(m) PROVE TimerInv'
  BY <1>10 DEF TimerDispatch, TimerInv, TimerShape, PendingArmed, Newest
<1>11. ASSUME NEW m, FireGrace(m) PROVE TimerInv'
  BY <1>11, FireTimer
<1>12. ASSUME NEW m, GraceMark(m) PROVE TimerInv'
  BY <1>1, <1>12 DEF GraceMark
<1> QED  BY <1>2, <1>3, <1>4, <1>5, <1>6, <1>8, <1>9, <1>10, <1>11, <1>12, <1>13
         DEF Next, TunnelStep, TimerStep

-----------------------------------------------------------------------------
(* The counts and the timers of pipeline_lifecycle.go and session.go stay   *)
(* consistent through every interleaving, restart and leadership change.    *)
THEOREM Inductive == Spec => []IInv
<1>1. Init => IInv
  BY InitIInv
<1>2. IInv /\ [Next]_vars => IInv'
  BY CountNext, TimerNext DEF IInv
<1> QED  BY <1>1, <1>2, PTL DEF Spec

(* IncInFlight and DecInFlight: the count of every lease row is the number  *)
(* of connections between the two calls, for any number of pods,            *)
(* certificates and connections, and however registrations fail, are        *)
(* committed late or are lost; a row replaced under a counted connection by *)
(* a late commit is the one exception, and counts fewer.                    *)
THEOREM CountsExact == Spec => []InFlightExact
<1>1. IInv => InFlightExact
  BY DEF IInv, CountInv
<1> QED  BY <1>1, Inductive, PTL

(* The pending map of the lifecycle service: an entry always has the timer  *)
(* of its own generation running or dispatched.                             *)
THEOREM PendingHasTimer == Spec => []PendingArmed
<1>1. IInv => PendingArmed
  BY DEF IInv, TimerInv
<1> QED  BY <1>1, Inductive, PTL

(* fireGrace: the callback that passes the generation check is the one of   *)
(* the last close of its trace.                                             *)
THEOREM FiringLatest == Spec => FiringIsLatest
<1> DEFINE Latest == \A m \in Timer : m \in firing' \ firing
              => \A k \in armed \cup dispatched : k[1] = m[1] /\ k[2] = m[2] => k[3] <= m[3]
<1>1. IInv /\ [Next]_vars => [Latest]_vars
  <2> SUFFICES ASSUME IInv, Next, NEW m \in Timer, m \in firing' \ firing
               PROVE  \A k \in armed \cup dispatched : k[1] = m[1] /\ k[2] = m[2] => k[3] <= m[3]
    OBVIOUS
  <2>1. FireGrace(m) /\ Current(m)
    <3>5. ASSUME NEW c \in Certs, RegisterStep(c) PROVE FALSE
      BY <3>5, RegisterFrame DEF timerVars
    <3>1. ASSUME NEW p \in Pods,
                 \/ \E c \in Certs : Expire(p, c)
                 \/ ReapOrphans(p) \/ SweepStep(p) \/ LeaderChange(p)
                 \/ Restart(p)
          PROVE  FALSE
      BY <3>1 DEF Expire, ReapOrphans, SweepStep, SweepList, SweepActive,
                  SweepMark, SweepDone, LeaderChange, Restart, timerVars
    <3>2. ASSUME NEW t \in Traces,
                 (\E s \in {"running"} \cup Terminal : Ingest(t, s)) \/ GrowOld(t)
          PROVE  FALSE
      BY <3>2 DEF Ingest, GrowOld, timerVars
    <3>3. ASSUME NEW n \in Tunnels,
                 \/ \E c \in Certs : TunnelGet(n, c)
                 \/ TunnelStep(n) \/ TunnelUp(n) \/ Heartbeat(n) \/ TunnelEnd(n)
          PROVE  FALSE
      BY <3>3 DEF TunnelGet, TunnelStep, TunnelInc, OnTunnelOpen, TunnelDec,
                  OnTunnelClosedNoop, OnTunnelClosedNow, CloseMark, OnTunnelClosedGrace,
                  TunnelUp, Heartbeat, TunnelEnd, timerVars
    <3>4. ASSUME NEW k, TimerStep(k) PROVE FireGrace(m) /\ Current(m)
      BY <3>4 DEF TimerStep, TimerDispatch, FireGrace, GraceMark
    <3> QED  BY <3>1, <3>2, <3>3, <3>4, <3>5 DEF Next
  <2>2. m \in dispatched /\ pending[m[1]][m[2]] = m[3] /\ m[1] \in Pods /\ m[2] \in Traces
    BY <2>1 DEF FireGrace, Current, Timer
  <2>3. m[3] \in Nat /\ 0 < m[3]
    BY <2>2 DEF IInv, TimerInv, TimerShape, Newest, AnyTimer
  <2> QED  BY <2>2, <2>3 DEF IInv, TimerInv, Newest
<1> QED  BY <1>1, Inductive, PTL DEF Spec, FiringIsLatest

-----------------------------------------------------------------------------
(* Bounds.  A generation is handed out by a tunnel that ends with it, so a   *)
(* pod hands out no more than it has had tunnels since it started.           *)
DoneOf(p) == {n \in Tunnels : tunnel[n].stage = "done" /\ tunnel[n].pod = p}

GenBound == \A p \in Pods : gen[p] <= Cardinality(DoneOf(p))

SweepRow == [stage: {"idle", "listed", "marking"}, todo: SUBSET Traces, up: SUBSET Tunnels]

RestShape ==
    /\ faults \in 0 .. MaxFaults
    /\ \A n \in Tunnels : tunnel[n].remaining \in 0 .. Cardinality(Tunnels)
    /\ firing \in SUBSET Timer
    /\ sweep \in [Pods -> SweepRow]
    /\ status \in [Traces -> {Nil, "running"} \cup Terminal]
    /\ old \in SUBSET Traces

(* A tunnel that was up when a pass began is up or on its way out, and once  *)
(* the leases are read none that is still up, on this pod and with a lease,  *)
(* has its trace left to mark, unless a late registration took it out of the *)
(* count: nothing else brings a lease back.                                  *)
PastUp == {"up", "done"} \cup Closing

SweepInv ==
    /\ \A p \in Pods : \A n \in sweep[p].up : tunnel[n].stage \in PastUp
    /\ \A p \in Pods : sweep[p].stage = "marking" =>
          \A n \in sweep[p].up :
             (/\ tunnel[n].stage = "up" /\ tunnel[n].pod = p /\ lease[p][tunnel[n].cert] # Nil
              /\ <<p, tunnel[n].cert>> \notin zeroed)
               => TraceOf[tunnel[n].cert] \notin sweep[p].todo

BoundInv == RestShape /\ GenBound /\ SweepInv

(* What the parts come to.                                                  *)
LEMMA TypesFollow ==
    ASSUME IInv, BoundInv
    PROVE  TypeOK
<1> DEFINE K == Cardinality(Tunnels)
<1>1. K \in Nat /\ \A S \in SUBSET Tunnels : Cardinality(S) \in Nat /\ Cardinality(S) <= K
  BY TunnelsFinite
<1>2. \A p \in Pods : Cardinality(DoneOf(p)) \in Nat /\ Cardinality(DoneOf(p)) <= K
  BY <1>1 DEF DoneOf
<1>3. \A p \in Pods, c \in Certs : Cardinality(InFlightOf(p, c)) \in 0 .. K
  BY <1>1 DEF InFlightOf
<1> HIDE DEF K
<1>4. gen \in [Pods -> 0 .. K]
  BY <1>1, <1>2 DEF IInv, TimerInv, TimerShape, BoundInv, GenBound
<1>5. \A m \in armed \cup dispatched : m[1] \in Pods /\ m[2] \in Traces /\ m[3] \in 0 .. K
                                         /\ m = <<m[1], m[2], m[3]>>
  <2> TAKE m \in armed \cup dispatched
  <2>1. m \in AnyTimer /\ m[3] <= gen[m[1]] BY DEF IInv, TimerInv, TimerShape, Newest
  <2>2. m[1] \in Pods /\ m[2] \in Traces /\ m[3] \in Nat /\ m = <<m[1], m[2], m[3]>>
    BY <2>1 DEF AnyTimer
  <2>3. gen[m[1]] \in 0 .. K BY <1>4, <2>2
  <2> QED  BY <1>1, <2>1, <2>2, <2>3
<1>6. armed \in SUBSET Timer /\ dispatched \in SUBSET Timer BY <1>5 DEF Timer, Gens, K
<1>7. \A p \in Pods, t \in Traces : pending[p][t] \in 0 .. K
  <2> TAKE p \in Pods, t \in Traces
  <2>1. CASE pending[p][t] = 0 BY <1>1, <2>1
  <2>2. CASE pending[p][t] # 0
    <3>1. <<p, t, pending[p][t]>> \in armed \cup dispatched BY <2>2 DEF IInv, TimerInv, PendingArmed
    <3> QED  BY <1>5, <3>1
  <2> QED  BY <2>1, <2>2
<1>8. pending \in [Pods -> [Traces -> 0 .. K]] BY <1>7 DEF IInv, TimerInv, TimerShape
<1>9. lease \in [Pods -> [Certs -> Lease \cup {Nil}]]
  <2>1. ASSUME NEW p \in Pods, NEW c \in Certs PROVE lease[p][c] \in Lease \cup {Nil}
    <3>1. lease[p][c] \in LeaseRow \cup {Nil} BY DEF IInv, CountInv, CountShape
    <3>2. lease[p][c] # Nil => lease[p][c].inFlight <= Cardinality(InFlightOf(p, c))
      BY DEF IInv, CountInv, InFlightExact
    <3>3. lease[p][c] # Nil => lease[p][c].inFlight \in 0 .. K
      BY <1>1, <1>3, <3>1, <3>2 DEF LeaseRow
    <3> QED  BY <3>1, <3>3 DEF LeaseRow, Lease, K
  <2> QED  BY <2>1 DEF IInv, CountInv, CountShape
<1>10. tunnel \in [Tunnels -> [stage: Stages, pod: Pods \cup {Nil},
                               cert: Certs \cup {Nil}, remaining: 0 .. K]]
  <2>1. ASSUME NEW n \in Tunnels
        PROVE  tunnel[n] \in [stage: Stages, pod: Pods \cup {Nil}, cert: Certs \cup {Nil}, remaining: 0 .. K]
    <3>1. tunnel[n] \in Conn /\ tunnel[n].remaining \in 0 .. K
      BY DEF IInv, CountInv, CountShape, BoundInv, RestShape, K
    <3> QED  BY <3>1 DEF Conn
  <2> QED  BY <2>1 DEF IInv, CountInv, CountShape
<1>11. /\ leader \in Pods /\ issued \in [Certs -> Registration]
       /\ zeroed \in SUBSET (Pods \X Certs) /\ faults \in 0 .. MaxFaults
       /\ firing \in SUBSET Timer /\ sweep \in [Pods -> SweepRow]
       /\ status \in [Traces -> {Nil, "running"} \cup Terminal] /\ old \in SUBSET Traces
  BY DEF IInv, CountInv, CountShape, BoundInv, RestShape
<1> QED  BY <1>4, <1>6, <1>8, <1>9, <1>10, <1>11 DEF TypeOK, Gens, K, SweepRow

-----------------------------------------------------------------------------
(* markFailed writes a status.                                              *)
LEMMA MarkTyped ==
    ASSUME status \in [Traces -> {Nil, "running"} \cup Terminal], NEW p, NEW t, MarkFailed(p, t)
    PROVE  status' \in [Traces -> {Nil, "running"} \cup Terminal]
BY DEF MarkFailed, Terminal

(* The generations handed out, when tunnels only end.                       *)
LEMMA GenKeeps ==
    ASSUME IInv, GenBound, UNCHANGED gen, \A p \in Pods : DoneOf(p) \subseteq DoneOf(p)'
    PROVE  GenBound'
<1> SUFFICES ASSUME NEW p \in Pods PROVE gen[p] <= Cardinality(DoneOf(p)')
  BY DEF GenBound
<1>1. DoneOf(p)' \in SUBSET Tunnels /\ DoneOf(p) \in SUBSET (DoneOf(p)') BY DEF DoneOf
<1>2. Cardinality(DoneOf(p)) <= Cardinality(DoneOf(p)') /\ Cardinality(DoneOf(p)) \in Nat
      /\ Cardinality(DoneOf(p)') \in Nat
  BY <1>1, TunnelsFinite
<1> QED  BY <1>2 DEF GenBound, IInv, TimerInv, TimerShape

(* No lease comes back for a connection that is counted, but for one that a  *)
(* late registration zeroes.                                                 *)
LeasesStay ==
    /\ zeroed \subseteq zeroed'
    /\ \A p \in Pods, c \in Certs : lease'[p][c] # Nil =>
          lease[p][c] # Nil \/ InFlightOf(p, c) = {} \/ <<p, c>> \in zeroed'

(* What the sweep relies on, when its own state is left alone: a tunnel does *)
(* not come up again, and no lease comes back for a certificate in use.      *)
NoComeback ==
    /\ \A n \in Tunnels : tunnel[n].stage \in PastUp =>
          /\ tunnel'[n].stage \in PastUp
          /\ tunnel'[n].pod = tunnel[n].pod /\ tunnel'[n].cert = tunnel[n].cert
          /\ tunnel'[n].stage = "up" => tunnel[n].stage = "up"
    /\ LeasesStay

LEMMA SweepKeeps ==
    ASSUME IInv, RestShape, SweepInv, UNCHANGED sweep, NoComeback
    PROVE  SweepInv'
<1>1. \A p \in Pods : \A n \in sweep[p].up : n \in Tunnels /\ tunnel[n].stage \in PastUp
  BY DEF RestShape, SweepRow, SweepInv
<1>2. \A n \in Tunnels : tunnel[n].stage = "up"
         => tunnel[n].cert \in Certs /\ n \in InFlightOf(tunnel[n].pod, tunnel[n].cert)
  BY DEF IInv, CountInv, Registered, InFlightOf, Counted
<1>3. \A p \in Pods : \A n \in sweep[p].up : tunnel'[n].stage \in PastUp
  BY <1>1 DEF NoComeback
<1>4. ASSUME NEW p \in Pods, sweep[p].stage = "marking", NEW n \in sweep[p].up,
             tunnel'[n].stage = "up", tunnel'[n].pod = p, lease'[p][tunnel'[n].cert] # Nil,
             <<p, tunnel'[n].cert>> \notin zeroed'
      PROVE  TraceOf[tunnel'[n].cert] \notin sweep[p].todo
  <2>1. /\ n \in Tunnels /\ tunnel[n].stage = "up" /\ tunnel[n].pod = p
        /\ tunnel'[n].cert = tunnel[n].cert /\ tunnel[n].cert \in Certs
        /\ InFlightOf(p, tunnel[n].cert) # {}
    BY <1>1, <1>2, <1>4 DEF NoComeback
  <2>2. lease[p][tunnel[n].cert] # Nil /\ <<p, tunnel[n].cert>> \notin zeroed
    BY <1>4, <2>1 DEF NoComeback, LeasesStay
  <2> QED  BY <1>4, <2>1, <2>2 DEF SweepInv
<1> QED  BY <1>3, <1>4 DEF SweepInv
-----------------------------------------------------------------------------
(* Steps of the lease store, of ingestion, of the leadership and of timers.  *)
LEMMA QuietBounds ==
    ASSUME IInv, BoundInv, UNCHANGED <<tunnel, gen, sweep>>,
           faults' \in 0 .. MaxFaults, firing' \in SUBSET Timer,
           status' \in [Traces -> {Nil, "running"} \cup Terminal], old' \in SUBSET Traces,
           LeasesStay
    PROVE  BoundInv'
<1>1. RestShape' BY DEF BoundInv, RestShape
<1>2. GenBound' BY DEF BoundInv, GenBound, DoneOf
<1>3. NoComeback BY DEF NoComeback
<1>4. SweepInv' BY <1>3, SweepKeeps DEF BoundInv
<1> QED  BY <1>1, <1>2, <1>4 DEF BoundInv

LEMMA RegisterBounds ==
    ASSUME IInv, BoundInv, NEW c \in Certs, RegisterStep(c)
    PROVE  BoundInv'
<1>0. /\ lease \in [Pods -> [Certs -> LeaseRow \cup {Nil}]]
      /\ status \in [Traces -> {Nil, "running"} \cup Terminal]
      /\ faults \in 0 .. MaxFaults /\ firing \in SUBSET Timer /\ old \in SUBSET Traces
  BY DEF IInv, CountInv, CountShape, BoundInv, RestShape
<1>1. UNCHANGED <<tunnel, gen, sweep, firing, old>> BY RegisterFrame DEF timerVars
<1>2. status' \in [Traces -> {Nil, "running"} \cup Terminal]
  BY <1>0 DEF RegisterStep, Provision, ProvisionElsewhere, ProvisionFails, CommitLate, DropLate, CreateRow
<1>3. faults' \in 0 .. MaxFaults
  <2>1. faults' = faults \/ (faults < MaxFaults /\ faults' = faults + 1)
    BY DEF RegisterStep, Provision, ProvisionElsewhere, ProvisionFails, CommitLate, DropLate
  <2>2. MaxFaults \in Nat BY LifecycleAssumption
  <2> QED  BY <1>0, <2>1, <2>2
<1>4. LeasesStay
  <2>1. CASE issued[c] = "no"
    <3>1. \A q \in Pods : InFlightOf(q, c) = {} BY <2>1, Uncounted DEF IInv
    <3>2. zeroed' = zeroed
      BY <2>1 DEF RegisterStep, Provision, ProvisionElsewhere, ProvisionFails, CommitLate, DropLate
    <3>3. \A q \in Pods : \A d \in Certs \ {c} : lease'[q][d] = lease[q][d]
      BY <1>0, <2>1 DEF RegisterStep, Provision, ProvisionElsewhere, ProvisionFails, CommitLate, DropLate
    <3> QED  BY <3>1, <3>2, <3>3 DEF LeasesStay
  <2>2. CASE issued[c] # "no" /\ CommitLate(c)
    <3>1. zeroed' = zeroed \cup {<<q, c>> : q \in {r \in Pods : InFlightOf(r, c) # {}}}
      BY <2>2 DEF CommitLate
    <3>2. \A q \in Pods : InFlightOf(q, c) = {} \/ <<q, c>> \in zeroed' BY <3>1
    <3>3. \A q \in Pods : \A d \in Certs \ {c} : lease'[q][d] = lease[q][d]
      BY <1>0, <2>2 DEF CommitLate
    <3> QED  BY <3>1, <3>2, <3>3 DEF LeasesStay
  <2>3. CASE issued[c] # "no" /\ DropLate(c) BY <2>3 DEF DropLate, LeasesStay
  <2> QED  BY <2>1, <2>2, <2>3 DEF RegisterStep, Provision, ProvisionElsewhere, ProvisionFails
<1> QED  BY <1>0, <1>1, <1>2, <1>3, <1>4, QuietBounds

LEMMA StoreBounds ==
    ASSUME IInv, BoundInv,
           \/ \E p \in Pods, c \in Certs : Expire(p, c)
           \/ \E p \in Pods : ReapOrphans(p)
           \/ \E n \in Tunnels : Heartbeat(n)
    PROVE  BoundInv'
<1>0. /\ lease \in [Pods -> [Certs -> LeaseRow \cup {Nil}]]
      /\ status \in [Traces -> {Nil, "running"} \cup Terminal]
      /\ faults \in 0 .. MaxFaults /\ firing \in SUBSET Timer /\ old \in SUBSET Traces
  BY DEF IInv, CountInv, CountShape, BoundInv, RestShape
<1>1. UNCHANGED <<tunnel, gen, sweep, faults, firing, old, status, zeroed>>
  BY DEF Expire, ReapOrphans, Heartbeat, timerVars
<1>3. \A p \in Pods, c \in Certs : lease'[p][c] # Nil => lease[p][c] # Nil
  <2>2. ASSUME NEW p \in Pods, NEW c \in Certs, Expire(p, c)
        PROVE  \A q \in Pods, d \in Certs : lease'[q][d] # Nil => lease[q][d] # Nil
    BY <1>0, <2>2 DEF Expire
  <2>3. ASSUME NEW p \in Pods, ReapOrphans(p)
        PROVE  \A q \in Pods, d \in Certs : lease'[q][d] # Nil => lease[q][d] # Nil
    BY <1>0, <2>3 DEF ReapOrphans
  <2>4. ASSUME NEW n \in Tunnels, Heartbeat(n)
        PROVE  \A q \in Pods, d \in Certs : lease'[q][d] # Nil => lease[q][d] # Nil
    <3>1. tunnel[n].cert \in Certs /\ lease' = Touched(tunnel[n].pod, tunnel[n].cert)
      BY <1>0, <2>4 DEF Heartbeat, IInv, CountInv, Registered
    <3> QED  BY <1>0, <3>1, TouchKeeps
  <2> QED  BY <2>2, <2>3, <2>4
<1>4. LeasesStay BY <1>1, <1>3 DEF LeasesStay
<1> QED  BY <1>0, <1>1, <1>4, QuietBounds

LEMMA OtherBounds ==
    ASSUME IInv, BoundInv,
           \/ \E t \in Traces : (\E s \in {"running"} \cup Terminal : Ingest(t, s)) \/ GrowOld(t)
           \/ \E p \in Pods : LeaderChange(p)
           \/ \E m \in armed \cup dispatched \cup firing : TimerStep(m)
    PROVE  BoundInv'
<1>0. /\ status \in [Traces -> {Nil, "running"} \cup Terminal]
      /\ faults \in 0 .. MaxFaults /\ firing \in SUBSET Timer /\ old \in SUBSET Traces
      /\ dispatched \in SUBSET Timer
  BY TypesFollow DEF BoundInv, RestShape, TypeOK
<1>1. UNCHANGED <<tunnel, gen, sweep>> /\ LeasesStay
  BY DEF Ingest, GrowOld, LeaderChange, TimerStep, TimerDispatch, FireGrace, GraceMark, timerVars, LeasesStay
<1>2. faults' \in 0 .. MaxFaults
  <2>1. faults' = faults \/ (faults < MaxFaults /\ faults' = faults + 1)
    <3>1. ASSUME NEW p \in Pods, LeaderChange(p) PROVE faults < MaxFaults /\ faults' = faults + 1
      BY <3>1 DEF LeaderChange
    <3>2. ASSUME NEW t \in Traces, (\E s \in {"running"} \cup Terminal : Ingest(t, s)) \/ GrowOld(t)
          PROVE  faults' = faults
      BY <3>2 DEF Ingest, GrowOld
    <3>3. ASSUME NEW m \in armed \cup dispatched \cup firing, TimerStep(m) PROVE faults' = faults
      BY <3>3 DEF TimerStep, TimerDispatch, FireGrace, GraceMark
    <3> QED  BY <3>1, <3>2, <3>3
  <2>2. MaxFaults \in Nat BY LifecycleAssumption
  <2> QED  BY <1>0, <2>1, <2>2
<1>3. firing' \in SUBSET Timer
  BY <1>0 DEF Ingest, GrowOld, LeaderChange, TimerStep, TimerDispatch, FireGrace, GraceMark, timerVars
<1>4. old' \in SUBSET Traces
  BY <1>0 DEF Ingest, GrowOld, LeaderChange, TimerStep, TimerDispatch, FireGrace, GraceMark
<1>5. status' \in [Traces -> {Nil, "running"} \cup Terminal]
  <2>1. ASSUME NEW m, GraceMark(m) PROVE status' \in [Traces -> {Nil, "running"} \cup Terminal]
    BY <1>0, <2>1, MarkTyped DEF GraceMark
  <2> QED  BY <1>0, <2>1 DEF Ingest, GrowOld, LeaderChange, TimerStep, TimerDispatch, FireGrace
<1> QED  BY <1>1, <1>2, <1>3, <1>4, <1>5, QuietBounds

-----------------------------------------------------------------------------
(* Steps of connection n.                                                   *)
LEMMA TunnelBounds ==
    ASSUME IInv, BoundInv, NEW n \in Tunnels, NEW y \in Conn,
           tunnel' = [tunnel EXCEPT ![n] = y],
           y.remaining \in 0 .. Cardinality(Tunnels),
           tunnel[n].stage # "done",
           tunnel[n].stage \in PastUp =>
              y.stage \in PastUp \ {"up"} /\ y.pod = tunnel[n].pod /\ y.cert = tunnel[n].cert,
           \A p \in Pods : \/ gen'[p] = gen[p]
                           \/ gen'[p] = gen[p] + 1 /\ y.stage = "done" /\ y.pod = p,
           UNCHANGED <<faults, firing, sweep, old>>,
           status' \in [Traces -> {Nil, "running"} \cup Terminal],
           LeasesStay
    PROVE  BoundInv'
<1>0. tunnel \in [Tunnels -> Conn] BY DEF IInv, CountInv, CountShape
<1>1. tunnel'[n] = y /\ \A k \in Tunnels \ {n} : tunnel'[k] = tunnel[k] BY <1>0
<1>2. RestShape' BY <1>1 DEF BoundInv, RestShape
<1>3. NoComeback BY <1>1 DEF NoComeback
<1>4. SweepInv' BY <1>3, SweepKeeps DEF BoundInv
<1>5. GenBound'
  <2> SUFFICES ASSUME NEW p \in Pods PROVE gen'[p] <= Cardinality(DoneOf(p)') BY DEF GenBound
  <2>1. gen[p] \in Nat /\ gen[p] <= Cardinality(DoneOf(p))
    BY DEF IInv, TimerInv, TimerShape, BoundInv, GenBound
  <2>2. DoneOf(p) \in SUBSET Tunnels /\ DoneOf(p)' \in SUBSET Tunnels /\ n \notin DoneOf(p) BY DEF DoneOf
  <2>3. DoneOf(p) \in SUBSET (DoneOf(p)') BY <1>1 DEF DoneOf
  <2>4. /\ Cardinality(DoneOf(p)) <= Cardinality(DoneOf(p)') /\ Cardinality(DoneOf(p)) \in Nat
        /\ Cardinality(DoneOf(p)') \in Nat
    BY <2>2, <2>3, TunnelsFinite
  <2>5. CASE gen'[p] = gen[p] BY <2>1, <2>4, <2>5
  <2>6. CASE gen'[p] = gen[p] + 1 /\ y.stage = "done" /\ y.pod = p
    <3>1. DoneOf(p)' = DoneOf(p) \cup {n} BY <1>1, <2>6 DEF DoneOf
    <3>2. Cardinality(DoneOf(p)') = Cardinality(DoneOf(p)) + 1 BY <2>2, <3>1, CountSteps
    <3> QED  BY <2>1, <2>4, <2>6, <3>2
  <2> QED  BY <2>5, <2>6
<1> QED  BY <1>2, <1>4, <1>5 DEF BoundInv

LEMMA StageBounds ==
    ASSUME IInv, BoundInv, NEW n \in Tunnels, NEW s \in Stages,
           Stage(n, s), tunnel[n].stage # "done", tunnel[n].stage # "idle",
           tunnel[n].stage \in PastUp => s \in PastUp \ {"up"},
           \A p \in Pods : \/ gen'[p] = gen[p]
                           \/ gen'[p] = gen[p] + 1 /\ s = "done" /\ tunnel[n].pod = p,
           UNCHANGED <<faults, firing, sweep, old>>,
           status' \in [Traces -> {Nil, "running"} \cup Terminal],
           LeasesStay
    PROVE  BoundInv'
<1>1. tunnel[n] \in Conn /\ tunnel[n].remaining \in 0 .. Cardinality(Tunnels)
  BY DEF IInv, CountInv, CountShape, BoundInv, RestShape
<1>2. PICK y : y = [tunnel[n] EXCEPT !.stage = s] OBVIOUS
<1>3. /\ y \in Conn /\ y.stage = s /\ y.pod = tunnel[n].pod /\ y.cert = tunnel[n].cert
      /\ y.remaining = tunnel[n].remaining
  BY <1>1, <1>2 DEF Conn
<1>4. tunnel' = [tunnel EXCEPT ![n] = y] BY <1>2 DEF Stage
<1> QED  BY <1>1, <1>3, <1>4, TunnelBounds

LEMMA OpenBounds ==
    ASSUME IInv, BoundInv, NEW n \in Tunnels, TunnelInc(n) \/ OnTunnelOpen(n) \/ TunnelUp(n) \/ TunnelEnd(n)
    PROVE  BoundInv'
<1>0. /\ lease \in [Pods -> [Certs -> LeaseRow \cup {Nil}]]
      /\ status \in [Traces -> {Nil, "running"} \cup Terminal]
  BY DEF IInv, CountInv, CountShape, BoundInv, RestShape
<1>1. /\ UNCHANGED <<faults, gen, firing, sweep, old, status, zeroed>>
      /\ tunnel[n].stage \notin {"idle", "done"}
  BY DEF TunnelInc, OnTunnelOpen, TunnelUp, TunnelEnd, timerVars
<1>2. PICK s \in Stages : Stage(n, s) /\ (tunnel[n].stage \in PastUp => s \in PastUp \ {"up"})
  BY DEF TunnelInc, OnTunnelOpen, TunnelUp, TunnelEnd, Stages, Serving, Closing, PastUp
<1>3. tunnel[n].pod \in Pods /\ tunnel[n].cert \in Certs
  BY <1>0, <1>1 DEF IInv, CountInv, Registered
<1>4. \A p \in Pods, c \in Certs : lease'[p][c] # Nil => lease[p][c] # Nil
  <2>1. CASE TunnelInc(n)
    <3>1. PICK q, d : q = tunnel[n].pod /\ d = tunnel[n].cert OBVIOUS
    <3>2. lease' = IncInFlight(q, d) BY <2>1, <3>1 DEF TunnelInc
    <3> QED  BY <1>0, <1>3, <3>1, <3>2 DEF IncInFlight
  <2>2. CASE TunnelUp(n)
    <3>1. lease' = Touched(tunnel[n].pod, tunnel[n].cert) BY <2>2 DEF TunnelUp
    <3> QED  BY <1>0, <1>3, <3>1, TouchKeeps
  <2>3. CASE OnTunnelOpen(n) \/ TunnelEnd(n) BY <2>3 DEF OnTunnelOpen, TunnelEnd
  <2> QED  BY <2>1, <2>2, <2>3
<1>5. LeasesStay BY <1>1, <1>4 DEF LeasesStay
<1> QED  BY <1>0, <1>1, <1>2, <1>5, StageBounds

LEMMA CloseBounds ==
    ASSUME IInv, BoundInv, NEW n \in Tunnels,
           \/ OnTunnelClosedNoop(n) \/ OnTunnelClosedNow(n) \/ CloseMark(n) \/ OnTunnelClosedGrace(n)
    PROVE  BoundInv'
<1>0. /\ status \in [Traces -> {Nil, "running"} \cup Terminal] /\ gen \in [Pods -> Nat]
  BY DEF BoundInv, RestShape, IInv, TimerInv, TimerShape
<1>1. /\ UNCHANGED <<faults, firing, sweep, old>> /\ LeasesStay
      /\ tunnel[n].stage \notin {"idle", "done"}
  BY DEF OnTunnelClosedNoop, OnTunnelClosedNow, CloseMark, OnTunnelClosedGrace, timerVars, LeasesStay
<1>2. PICK s \in Stages : /\ Stage(n, s) /\ (tunnel[n].stage \in PastUp => s \in PastUp \ {"up"})
                          /\ OnTunnelClosedGrace(n) => s = "done"
  BY DEF OnTunnelClosedNoop, OnTunnelClosedNow, CloseMark, OnTunnelClosedGrace, Stages, Closing, PastUp
<1>3. status' \in [Traces -> {Nil, "running"} \cup Terminal]
  <2>1. CASE CloseMark(n) BY <1>0, <2>1, MarkTyped DEF CloseMark
  <2>2. CASE ~CloseMark(n)
    BY <1>0, <2>2 DEF OnTunnelClosedNoop, OnTunnelClosedNow, OnTunnelClosedGrace
  <2> QED  BY <2>1, <2>2
<1>4. \A p \in Pods : \/ gen'[p] = gen[p]
                      \/ gen'[p] = gen[p] + 1 /\ s = "done" /\ tunnel[n].pod = p
  <2>1. CASE OnTunnelClosedGrace(n)
    <3>1. PICK q : q = tunnel[n].pod OBVIOUS
    <3>2. gen' = [gen EXCEPT ![q] = gen[q] + 1] BY <2>1, <3>1 DEF OnTunnelClosedGrace
    <3> QED  BY <1>0, <1>2, <2>1, <3>1, <3>2
  <2>2. CASE ~OnTunnelClosedGrace(n)
    BY <2>2 DEF OnTunnelClosedNoop, OnTunnelClosedNow, CloseMark, timerVars
  <2> QED  BY <2>1, <2>2
<1> QED  BY <1>1, <1>2, <1>3, <1>4, StageBounds

LEMMA GetBounds ==
    ASSUME IInv, BoundInv, NEW n \in Tunnels, NEW c \in Certs, TunnelGet(n, c)
    PROVE  BoundInv'
<1>1. PICK y : y = [stage |-> "got", pod |-> leader, cert |-> c, remaining |-> 0] OBVIOUS
<1>2. y \in Conn /\ y.remaining = 0
  BY <1>1 DEF Conn, Stages, Serving, IInv, CountInv, CountShape
<1>3. tunnel' = [tunnel EXCEPT ![n] = y] /\ UNCHANGED <<faults, firing, sweep, old, gen, status>>
      /\ tunnel[n].stage = "idle" /\ LeasesStay
  BY <1>1 DEF TunnelGet, timerVars, LeasesStay
<1>4. "idle" \notin PastUp /\ "idle" # "done" BY DEF PastUp, Closing
<1>5. 0 \in 0 .. Cardinality(Tunnels) BY TunnelsFinite
<1>6. status \in [Traces -> {Nil, "running"} \cup Terminal] BY DEF BoundInv, RestShape
<1> QED  BY <1>2, <1>3, <1>4, <1>5, <1>6, TunnelBounds

LEMMA DecBounds ==
    ASSUME IInv, BoundInv, NEW n \in Tunnels, TunnelDec(n)
    PROVE  BoundInv'
<1>0. PICK p, c : p = tunnel[n].pod /\ c = tunnel[n].cert OBVIOUS
<1>1. /\ lease \in [Pods -> [Certs -> LeaseRow \cup {Nil}]]
      /\ status \in [Traces -> {Nil, "running"} \cup Terminal] /\ tunnel[n] \in Conn
      /\ lease \in [Pods -> [Certs -> Lease \cup {Nil}]]
  BY TypesFollow DEF IInv, CountInv, CountShape, BoundInv, RestShape, TypeOK
<1>2. tunnel[n].stage = "closing" /\ lease' = DecInFlight(p, c)
      /\ UNCHANGED <<faults, firing, sweep, old, gen, status, zeroed>>
  BY <1>0 DEF TunnelDec, timerVars
<1>3. p \in Pods /\ c \in Certs BY <1>0, <1>1, <1>2 DEF IInv, CountInv, Registered
<1>4. Remaining(p, c) \in 0 .. Cardinality(Tunnels)
  <2>1. Cardinality(Tunnels) \in Nat BY TunnelsFinite
  <2>2. lease[p][c] # Nil => lease[p][c].inFlight \in 0 .. Cardinality(Tunnels) BY <1>1, <1>3 DEF Lease
  <2> QED  BY <2>1, <2>2 DEF Remaining
<1>5. PICK y : y = [tunnel[n] EXCEPT !.stage = "decremented", !.remaining = Remaining(p, c)] OBVIOUS
<1>6. /\ y \in Conn /\ y.stage = "decremented" /\ y.pod = p /\ y.cert = c
      /\ y.remaining = Remaining(p, c)
  <2>1. Remaining(p, c) \in Nat BY <1>4
  <2> QED  BY <1>0, <1>1, <1>5, <2>1 DEF Conn, Stages, Closing
<1>7. tunnel' = [tunnel EXCEPT ![n] = y] BY <1>0, <1>5 DEF TunnelDec
<1>8. "decremented" \in PastUp \ {"up"} /\ "closing" # "done" BY DEF PastUp, Closing
<1>9. LeasesStay
  BY <1>1, <1>2, <1>3 DEF DecInFlight, LeasesStay
<1> QED  BY <1>0, <1>1, <1>2, <1>4, <1>6, <1>7, <1>8, <1>9, TunnelBounds
-----------------------------------------------------------------------------
(* The sweep lists what is up, then reads the leases: a tunnel that is still *)
(* up on this pod is counted, so its lease, if it stands, is in flight.      *)
LEMMA SweepBounds ==
    ASSUME IInv, BoundInv, NEW p \in Pods, SweepStep(p)
    PROVE  BoundInv'
<1>0. /\ status \in [Traces -> {Nil, "running"} \cup Terminal] /\ old \in SUBSET Traces
      /\ sweep \in [Pods -> SweepRow] /\ sweep[p] \in SweepRow
  BY DEF BoundInv, RestShape
<1>1. UNCHANGED <<faults, tunnel, lease, gen, firing, old, zeroed>>
  BY DEF SweepStep, SweepList, SweepActive, SweepMark, SweepDone, timerVars
<1>2. status' \in [Traces -> {Nil, "running"} \cup Terminal]
  BY <1>0, MarkTyped DEF SweepStep, SweepList, SweepActive, SweepMark, SweepDone
<1>3. ASSUME NEW x \in SweepRow, sweep' = [sweep EXCEPT ![p] = x],
             \A n \in x.up : tunnel[n].stage \in PastUp,
             x.stage = "marking" => \A n \in x.up :
                (/\ tunnel[n].stage = "up" /\ tunnel[n].pod = p /\ lease[p][tunnel[n].cert] # Nil
                 /\ <<p, tunnel[n].cert>> \notin zeroed)
                  => TraceOf[tunnel[n].cert] \notin x.todo
      PROVE  BoundInv'
  <2>1. \A q \in Pods : sweep'[q] = IF q = p THEN x ELSE sweep[q] BY <1>0, <1>3
  <2>2. RestShape' BY <1>0, <1>1, <1>2, <1>3 DEF BoundInv, RestShape
  <2>3. GenBound' BY <1>1 DEF BoundInv, GenBound, DoneOf
  <2>4. SweepInv' BY <1>1, <1>3, <2>1 DEF BoundInv, SweepInv
  <2> QED  BY <2>2, <2>3, <2>4 DEF BoundInv
<1>4. CASE SweepList(p)
  <2>1. PICK x : x = [stage |-> "listed", todo |-> {t \in old : status[t] = "running"},
                      up |-> {n \in Tunnels : tunnel[n].stage = "up"}] OBVIOUS
  <2>2. x \in SweepRow /\ x.stage = "listed" /\ x.up = {n \in Tunnels : tunnel[n].stage = "up"}
    BY <1>0, <2>1 DEF SweepRow
  <2>3. sweep' = [sweep EXCEPT ![p] = x] BY <1>4, <2>1 DEF SweepList
  <2> QED  BY <1>3, <2>2, <2>3 DEF PastUp
<1>5. CASE SweepActive(p)
  <2>1. PICK x : x = [sweep[p] EXCEPT !.stage = "marking", !.todo = sweep[p].todo \ ActiveTraces(p)]
    OBVIOUS
  <2>2. /\ x \in SweepRow /\ x.stage = "marking" /\ x.up = sweep[p].up
        /\ x.todo = sweep[p].todo \ ActiveTraces(p)
    BY <1>0, <2>1 DEF SweepRow
  <2>3. sweep' = [sweep EXCEPT ![p] = x] BY <1>5, <2>1 DEF SweepActive
  <2>4. \A n \in x.up : n \in Tunnels /\ tunnel[n].stage \in PastUp
    BY <2>2 DEF BoundInv, SweepInv, SweepRow
  <2>5. ASSUME NEW n \in Tunnels, tunnel[n].stage = "up", tunnel[n].pod = p,
               lease[p][tunnel[n].cert] # Nil, <<p, tunnel[n].cert>> \notin zeroed
        PROVE  TraceOf[tunnel[n].cert] \in ActiveTraces(p)
    <3>1. tunnel[n].cert \in Certs BY <2>5 DEF IInv, CountInv, CountShape, Registered
    <3>2. /\ n \in InFlightOf(p, tunnel[n].cert) /\ InFlightOf(p, tunnel[n].cert) \in SUBSET Tunnels
      BY <2>5 DEF InFlightOf, Counted
    <3>3. Cardinality(InFlightOf(p, tunnel[n].cert)) > 0 BY <3>2, CountSteps
    <3>4. lease[p][tunnel[n].cert].inFlight > 0 BY <2>5, <3>1, <3>3 DEF IInv, CountInv, InFlightExact
    <3> QED  BY <2>5, <3>1, <3>4 DEF ActiveTraces
  <2> QED  BY <1>3, <2>2, <2>3, <2>4, <2>5
<1>6. ASSUME NEW t \in Traces, SweepMark(p, t) PROVE BoundInv'
  <2>1. PICK x : x = [sweep[p] EXCEPT !.todo = sweep[p].todo \ {t}] OBVIOUS
  <2>2. /\ x \in SweepRow /\ x.stage = sweep[p].stage /\ x.up = sweep[p].up
        /\ x.todo = sweep[p].todo \ {t}
    BY <1>0, <2>1 DEF SweepRow
  <2>3. sweep' = [sweep EXCEPT ![p] = x] BY <1>6, <2>1 DEF SweepMark
  <2>4. \A n \in x.up : tunnel[n].stage \in PastUp BY <2>2 DEF BoundInv, SweepInv
  <2>5. x.stage = "marking" => \A n \in x.up :
           (/\ tunnel[n].stage = "up" /\ tunnel[n].pod = p /\ lease[p][tunnel[n].cert] # Nil
            /\ <<p, tunnel[n].cert>> \notin zeroed)
             => TraceOf[tunnel[n].cert] \notin x.todo
    BY <2>2 DEF BoundInv, SweepInv
  <2> QED  BY <1>3, <2>2, <2>3, <2>4, <2>5
<1>7. CASE SweepDone(p)
  <2>1. IdleSweep \in SweepRow /\ IdleSweep.stage = "idle" /\ IdleSweep.up = {}
    BY DEF IdleSweep, SweepRow
  <2>2. sweep' = [sweep EXCEPT ![p] = IdleSweep] BY <1>7 DEF SweepDone
  <2> QED  BY <1>3, <2>1, <2>2
<1> QED  BY <1>4, <1>5, <1>6, <1>7 DEF SweepStep

(* A restart ends the tunnels of the pod, its sweep and its generations.     *)
LEMMA RestartBounds ==
    ASSUME IInv, BoundInv, NEW p \in Pods, Restart(p)
    PROVE  BoundInv'
<1>0. /\ lease \in [Pods -> [Certs -> LeaseRow \cup {Nil}]]
      /\ sweep \in [Pods -> SweepRow] /\ tunnel \in [Tunnels -> Conn] /\ gen \in [Pods -> Nat]
      /\ faults \in 0 .. MaxFaults /\ firing \in SUBSET Timer
  BY DEF IInv, CountInv, CountShape, TimerInv, TimerShape, BoundInv, RestShape
<1>1. /\ UNCHANGED <<status, old, issued>> /\ faults < MaxFaults /\ faults' = faults + 1
      /\ firing' \subseteq firing /\ gen' = [gen EXCEPT ![p] = 0]
      /\ sweep' = [sweep EXCEPT ![p] = IdleSweep]
  BY DEF Restart
<1>2. ASSUME NEW n \in Tunnels
      PROVE  /\ tunnel'[n].remaining = tunnel[n].remaining
             /\ tunnel'[n].pod = tunnel[n].pod /\ tunnel'[n].cert = tunnel[n].cert
             /\ tunnel'[n].stage \in {tunnel[n].stage, "done"}
  <2>1. PICK y : y = [tunnel[n] EXCEPT !.stage = "done"] OBVIOUS
  <2>2. /\ y.stage = "done" /\ y.pod = tunnel[n].pod /\ y.cert = tunnel[n].cert
        /\ y.remaining = tunnel[n].remaining
    BY <1>0, <2>1 DEF Conn
  <2>3. tunnel'[n] \in {y, tunnel[n]} BY <2>1 DEF Restart
  <2> QED  BY <2>2, <2>3
<1>3. IdleSweep \in SweepRow /\ IdleSweep.stage = "idle" /\ IdleSweep.up = {}
  BY DEF IdleSweep, SweepRow
<1>4. RestShape'
  <2>1. faults' \in 0 .. MaxFaults
    <3>1. MaxFaults \in Nat BY LifecycleAssumption
    <3> QED  BY <1>0, <1>1, <3>1
  <2>2. sweep' \in [Pods -> SweepRow] BY <1>0, <1>1, <1>3
  <2>3. firing' \in SUBSET Timer BY <1>0, <1>1
  <2> QED  BY <1>1, <1>2, <2>1, <2>2, <2>3 DEF BoundInv, RestShape
<1>5. GenBound'
  <2> SUFFICES ASSUME NEW q \in Pods PROVE gen'[q] <= Cardinality(DoneOf(q)') BY DEF GenBound
  <2>1. DoneOf(q)' \in SUBSET Tunnels /\ DoneOf(q) \in SUBSET (DoneOf(q)') BY <1>2 DEF DoneOf
  <2>2. /\ Cardinality(DoneOf(q)) <= Cardinality(DoneOf(q)') /\ Cardinality(DoneOf(q)) \in Nat
        /\ Cardinality(DoneOf(q)') \in Nat
    <3>1. DoneOf(q) \in SUBSET Tunnels BY DEF DoneOf
    <3> QED  BY <2>1, <3>1, TunnelsFinite
  <2>3. gen'[q] = 0 \/ gen'[q] = gen[q] BY <1>0, <1>1
  <2>4. gen[q] \in Nat /\ gen[q] <= Cardinality(DoneOf(q)) BY <1>0 DEF BoundInv, GenBound
  <2> QED  BY <2>2, <2>3, <2>4
<1>6. \A q \in Pods \ {p} : sweep'[q] = sweep[q] /\ lease'[q] = lease[q]
  BY <1>0, <1>1 DEF Restart
<1>7. sweep'[p] = IdleSweep BY <1>0, <1>1
<1>8. \A q \in Pods : \A n \in sweep[q].up : n \in Tunnels BY <1>0 DEF SweepRow
<1>9. ASSUME NEW q \in Pods, NEW n \in sweep'[q].up PROVE tunnel'[n].stage \in PastUp
  <2>1. q # p BY <1>3, <1>7, <1>9
  <2>2. n \in sweep[q].up /\ n \in Tunnels BY <1>6, <1>8, <1>9, <2>1
  <2>3. tunnel[n].stage \in PastUp BY <2>2 DEF BoundInv, SweepInv
  <2> QED  BY <1>2, <2>2, <2>3 DEF PastUp
<1>10. ASSUME NEW q \in Pods, sweep'[q].stage = "marking", NEW n \in sweep'[q].up,
              tunnel'[n].stage = "up", tunnel'[n].pod = q, lease'[q][tunnel'[n].cert] # Nil,
              <<q, tunnel'[n].cert>> \notin zeroed'
       PROVE  TraceOf[tunnel'[n].cert] \notin sweep'[q].todo
  <2>1. q # p BY <1>3, <1>7, <1>10
  <2>2. sweep'[q] = sweep[q] /\ lease'[q] = lease[q] BY <1>6, <2>1
  <2>3. n \in sweep[q].up /\ n \in Tunnels BY <1>8, <1>10, <2>2
  <2>4. tunnel[n].stage = "up" /\ tunnel[n].pod = q /\ tunnel'[n].cert = tunnel[n].cert BY <1>2, <1>10, <2>3
  <2>5. <<q, tunnel[n].cert>> \notin zeroed BY <1>10, <2>1, <2>4 DEF Restart
  <2> QED  BY <1>10, <2>2, <2>3, <2>4, <2>5 DEF BoundInv, SweepInv
<1>11. SweepInv' BY <1>9, <1>10 DEF SweepInv
<1> QED  BY <1>4, <1>5, <1>11 DEF BoundInv

LEMMA BoundInit == Init => BoundInv
<1> SUFFICES ASSUME Init PROVE BoundInv OBVIOUS
<1>0. Cardinality(Tunnels) \in Nat BY TunnelsFinite
<1>1. IdleSweep \in SweepRow /\ IdleSweep.up = {} BY DEF IdleSweep, SweepRow
<1>2. \A n \in Tunnels : tunnel[n].remaining = 0 BY DEF Init, IdleTunnel
<1>3. RestShape BY <1>0, <1>1, <1>2, LifecycleAssumption DEF Init, RestShape
<1>4. GenBound
  <2> SUFFICES ASSUME NEW p \in Pods PROVE gen[p] <= Cardinality(DoneOf(p)) BY DEF GenBound
  <2>1. DoneOf(p) \in SUBSET Tunnels BY DEF DoneOf
  <2>2. Cardinality(DoneOf(p)) \in Nat BY <2>1, TunnelsFinite
  <2> QED  BY <2>2 DEF Init
<1>5. SweepInv BY <1>1 DEF Init, SweepInv, IdleSweep
<1> QED  BY <1>3, <1>4, <1>5 DEF BoundInv

LEMMA BoundNext == IInv /\ BoundInv /\ [Next]_vars => BoundInv'
<1> SUFFICES ASSUME IInv, BoundInv, [Next]_vars PROVE BoundInv' OBVIOUS
<1>1. CASE UNCHANGED vars BY <1>1 DEF vars, BoundInv, RestShape, GenBound, DoneOf, SweepInv
<1>2. ASSUME NEW p \in Pods, NEW c \in Certs, Expire(p, c) PROVE BoundInv' BY <1>2, StoreBounds
<1>12. ASSUME NEW c \in Certs, RegisterStep(c) PROVE BoundInv' BY <1>12, RegisterBounds
<1>3. ASSUME NEW p \in Pods, ReapOrphans(p) PROVE BoundInv' BY <1>3, StoreBounds
<1>4. ASSUME NEW p \in Pods, SweepStep(p) PROVE BoundInv' BY <1>4, SweepBounds
<1>5. ASSUME NEW p \in Pods, LeaderChange(p) PROVE BoundInv' BY <1>5, OtherBounds
<1>6. ASSUME NEW p \in Pods, Restart(p) PROVE BoundInv' BY <1>6, RestartBounds
<1>7. ASSUME NEW t \in Traces, (\E s \in {"running"} \cup Terminal : Ingest(t, s)) \/ GrowOld(t)
      PROVE  BoundInv'
  BY <1>7, OtherBounds
<1>8. ASSUME NEW n \in Tunnels, NEW c \in Certs, TunnelGet(n, c) PROVE BoundInv' BY <1>8, GetBounds
<1>9. ASSUME NEW n \in Tunnels, TunnelStep(n) \/ TunnelUp(n) \/ TunnelEnd(n) PROVE BoundInv'
  BY <1>9, OpenBounds, DecBounds, CloseBounds DEF TunnelStep
<1>10. ASSUME NEW n \in Tunnels, Heartbeat(n) PROVE BoundInv' BY <1>10, StoreBounds
<1>11. ASSUME NEW m \in armed \cup dispatched \cup firing, TimerStep(m) PROVE BoundInv'
  BY <1>11, OtherBounds
<1> QED  BY <1>1, <1>2, <1>3, <1>4, <1>5, <1>6, <1>7, <1>8, <1>9, <1>10, <1>11, <1>12 DEF Next

(* What the bounds and the sweep rest on, through every interleaving.        *)
THEOREM Bounded == Spec => []BoundInv
BY BoundInit, BoundNext, Inductive, PTL DEF Spec

(* No count of a lease exceeds the connections there are, no generation the  *)
(* tunnels that have ended, through restarts that reset the generations.     *)
THEOREM TypeHolds == Spec => []TypeOK
<1>1. IInv /\ BoundInv => TypeOK BY TypesFollow
<1> QED  BY <1>1, Inductive, Bounded, PTL

(* RunStaleSweep lists the traces, reads the leases and writes the rows in   *)
(* separate steps, yet never fails a trace with a tunnel that has been up on *)
(* the sweeping pod since before the pass began, unless a registration that  *)
(* had failed was committed under that tunnel.                               *)
THEOREM SweepSparesItsOwn == Spec => SweepSparesLocal
<1> DEFINE Spares == \A p \in Pods, t \in Traces :
              SweepMark(p, t) /\ status'[t] # status[t]
                => \A n \in Protected(p, t) :
                      tunnel[n].pod # p \/ <<p, tunnel[n].cert>> \in zeroed
<1>1. BoundInv => Spares
  <2> SUFFICES ASSUME BoundInv, NEW p \in Pods, NEW t \in Traces, SweepMark(p, t),
                      NEW n \in Protected(p, t), tunnel[n].pod = p,
                      <<p, tunnel[n].cert>> \notin zeroed
               PROVE  FALSE
    OBVIOUS
  <2>1. sweep[p].stage = "marking" /\ t \in sweep[p].todo BY DEF SweepMark
  <2>2. /\ n \in sweep[p].up /\ tunnel[n].stage = "up" /\ TraceOf[tunnel[n].cert] = t
        /\ lease[p][tunnel[n].cert] # Nil
    BY DEF Protected, UpTunnel
  <2> QED  BY <2>1, <2>2 DEF BoundInv, SweepInv
<1>2. BoundInv /\ [Next]_vars => [Spares]_vars BY <1>1
<1> HIDE DEF Spares
<1>3. Spec => [][Spares]_vars BY <1>2, Bounded, PTL DEF Spec
<1> QED  BY <1>3 DEF Spares, SweepSparesLocal

-----------------------------------------------------------------------------
(* SweepStale: what it marks failed it marks on the leader, and a tunnel     *)
(* that still serves such a trace runs on a pod that does not lead, whose    *)
(* counts the sweep does not read, or has been taken out of the count of its *)
(* lease by a registration committed late.                                   *)
VictimsElsewhere ==
    [][\A p \in Pods, t \in Traces :
          SweepMark(p, t) /\ status'[t] # status[t]
             => /\ p = leader
                /\ \A n \in Protected(p, t) :
                      tunnel[n].pod # leader \/ <<leader, tunnel[n].cert>> \in zeroed]_vars

(* SweepStale, before the first restart or change of leader: no trace that   *)
(* a tunnel still serves is marked failed.                                   *)
SparesActiveUntilFault ==
    [][faults = 0 => \A p \in Pods, t \in Traces :
          SweepMark(p, t) /\ status'[t] # status[t] => Protected(p, t) = {}]_vars

(* A tunnel of trace t has closed on pod p.                                  *)
ClosedOn(p, t) ==
    \E n \in Tunnels : /\ tunnel[n].stage \in {"marking", "done"} /\ tunnel[n].pod = p
                       /\ TraceOf[tunnel[n].cert] = t

(* markFailed: a running trace is failed only by its own telemetry, by the   *)
(* sweep when it is old, or after a tunnel of it has closed on the pod that  *)
(* leads: no timer outlives its cause and none fires for another trace.      *)
FailureJustified ==
    [][\A t \in Traces : status[t] = "running" /\ status'[t] = "failed" =>
          \/ Ingest(t, "failed")
          \/ SweepEnabled /\ t \in old
          \/ ClosedOn(leader, t)]_vars

(* scheduleFailure and SweepStale: every timer, wherever it is between being *)
(* armed and marking, has a tunnel of its trace that closed on its pod; a    *)
(* sweep runs only where it is enabled and works through old traces.         *)
TimersFollowClose ==
    /\ \A m \in armed \cup dispatched \cup firing : ClosedOn(m[1], m[2])
    /\ \A p \in Pods : sweep[p].stage # "idle" => SweepEnabled
    /\ \A p \in Pods : sweep[p].todo \subseteq old

(* ServeHTTP: until the first fault every tunnel is served by the leader,    *)
(* and no registration waits to be committed or has been committed late.     *)
Unmoved ==
    faults = 0 => /\ \A n \in Tunnels : tunnel[n].stage # "idle" => tunnel[n].pod = leader
                  /\ zeroed = {} /\ \A c \in Certs : issued[c] # "pending"

(* The row of a trace as TraceStatus sees it: a row that is absent begins    *)
(* running, gets a verdict and never runs again.                             *)
TraceRow == INSTANCE TraceStatus
   WITH verdict <- [t \in Traces |-> IF status[t] = Nil THEN "absent" ELSE status[t]]
RowFollowsRules == TraceRow!Spec

-----------------------------------------------------------------------------
LEMMA ClosedStays ==
    ASSUME NEW p, NEW t, NEW n \in Tunnels, ClosedOn(p, t), tunnel \in [Tunnels -> Conn],
           \/ UNCHANGED tunnel
           \/ \E y \in Conn : /\ tunnel' = [tunnel EXCEPT ![n] = y]
                              /\ tunnel[n].stage # "done"
                              /\ tunnel[n].stage = "marking" =>
                                    /\ y.stage = "done" /\ y.pod = tunnel[n].pod
                                    /\ y.cert = tunnel[n].cert
    PROVE  ClosedOn(p, t)'
<1>1. CASE UNCHANGED tunnel BY <1>1 DEF ClosedOn
<1>2. ASSUME NEW y \in Conn, tunnel' = [tunnel EXCEPT ![n] = y], tunnel[n].stage # "done",
             tunnel[n].stage = "marking" =>
                /\ y.stage = "done" /\ y.pod = tunnel[n].pod /\ y.cert = tunnel[n].cert
      PROVE  ClosedOn(p, t)'
  <2>1. PICK k \in Tunnels : /\ tunnel[k].stage \in {"marking", "done"} /\ tunnel[k].pod = p
                             /\ TraceOf[tunnel[k].cert] = t
    BY DEF ClosedOn
  <2>2. CASE k = n BY <1>2, <2>1, <2>2 DEF ClosedOn
  <2>3. CASE k # n BY <1>2, <2>1, <2>3 DEF ClosedOn
  <2> QED  BY <2>2, <2>3
<1> QED  BY <1>1, <1>2

LEMMA StageIsRow ==
    ASSUME tunnel \in [Tunnels -> Conn], NEW n \in Tunnels, NEW s \in Stages, Stage(n, s)
    PROVE  \E y \in Conn : /\ tunnel' = [tunnel EXCEPT ![n] = y] /\ y.stage = s
                           /\ y.pod = tunnel[n].pod /\ y.cert = tunnel[n].cert
<1>1. PICK y : y = [tunnel[n] EXCEPT !.stage = s] OBVIOUS
<1>2. y \in Conn /\ y.stage = s /\ y.pod = tunnel[n].pod /\ y.cert = tunnel[n].cert
  BY <1>1 DEF Conn
<1>3. tunnel' = [tunnel EXCEPT ![n] = y] BY <1>1 DEF Stage
<1> QED  BY <1>2, <1>3

LEMMA TunnelKeepsClosed ==
    ASSUME IInv, NEW n \in Tunnels, NEW p, NEW t, ClosedOn(p, t),
           TunnelStep(n) \/ TunnelUp(n) \/ TunnelEnd(n) \/ \E c \in Certs : TunnelGet(n, c)
    PROVE  ClosedOn(p, t)'
<1>0. tunnel \in [Tunnels -> Conn] /\ leader \in Pods
      /\ lease \in [Pods -> [Certs -> LeaseRow \cup {Nil}]] BY DEF IInv, CountInv, CountShape
<1>1. ASSUME NEW c \in Certs, TunnelGet(n, c) PROVE ClosedOn(p, t)'
  <2>1. PICK y : y = [stage |-> "got", pod |-> leader, cert |-> c, remaining |-> 0] OBVIOUS
  <2>2. y \in Conn BY <1>0, <2>1 DEF Conn, Stages, Serving
  <2>3. tunnel' = [tunnel EXCEPT ![n] = y] /\ tunnel[n].stage = "idle" BY <1>1, <2>1 DEF TunnelGet
  <2> QED  BY <1>0, <2>2, <2>3, ClosedStays
<1>2. ASSUME NEW s \in Stages, Stage(n, s), tunnel[n].stage # "done",
             tunnel[n].stage = "marking" => s = "done"
      PROVE  ClosedOn(p, t)'
  BY <1>0, <1>2, StageIsRow, ClosedStays
<1>3. CASE TunnelDec(n)
  <2>1. PICK y : y = [tunnel[n] EXCEPT !.stage = "decremented",
                                       !.remaining = Remaining(tunnel[n].pod, tunnel[n].cert)]
    OBVIOUS
  <2>2. tunnel' = [tunnel EXCEPT ![n] = y] /\ tunnel[n].stage = "closing" BY <1>0, <1>3, <2>1 DEF TunnelDec
  <2>3. tunnel[n].pod \in Pods /\ tunnel[n].cert \in Certs
    BY <2>2 DEF IInv, CountInv, CountShape, Registered
  <2>4. Remaining(tunnel[n].pod, tunnel[n].cert) \in Nat BY <1>0, <2>3 DEF Remaining, LeaseRow
  <2>5. y \in Conn BY <1>0, <2>1, <2>4 DEF Conn, Stages, Closing
  <2> QED  BY <1>0, <2>2, <2>5, ClosedStays
<1>4. CASE TunnelInc(n) BY <1>2, <1>4 DEF TunnelInc, Stages, Serving
<1>5. CASE OnTunnelOpen(n) BY <1>2, <1>5 DEF OnTunnelOpen, Stages, Serving
<1>6. CASE TunnelUp(n) BY <1>2, <1>6 DEF TunnelUp, Stages, Serving
<1>7. CASE TunnelEnd(n) BY <1>2, <1>7 DEF TunnelEnd, Stages, Closing
<1>8. CASE OnTunnelClosedNoop(n) BY <1>2, <1>8 DEF OnTunnelClosedNoop, Stages, Closing
<1>9. CASE OnTunnelClosedNow(n) BY <1>2, <1>9 DEF OnTunnelClosedNow, Stages, Closing
<1>10. CASE CloseMark(n) BY <1>2, <1>10 DEF CloseMark, Stages, Closing
<1>11. CASE OnTunnelClosedGrace(n) BY <1>2, <1>11 DEF OnTunnelClosedGrace, Stages, Closing
<1> QED  BY <1>1, <1>3, <1>4, <1>5, <1>6, <1>7, <1>8, <1>9, <1>10, <1>11 DEF TunnelStep

Timers == armed \cup dispatched \cup firing

LEMMA TimersKeep ==
    ASSUME TimersFollowClose, UNCHANGED sweep, old \subseteq old', Timers' \subseteq Timers,
           \A p \in Pods, t \in Traces : ClosedOn(p, t) => ClosedOn(p, t)',
           armed \in SUBSET AnyTimer, dispatched \in SUBSET AnyTimer, firing \in SUBSET AnyTimer
    PROVE  TimersFollowClose'
<1>1. \A m \in Timers' : m \in AnyTimer /\ m \in Timers BY DEF Timers
<1>2. \A m \in AnyTimer : m[1] \in Pods /\ m[2] \in Traces BY DEF AnyTimer
<1>3. \A m \in Timers' : ClosedOn(m[1], m[2])' BY <1>1, <1>2 DEF TimersFollowClose, Timers
<1> QED  BY <1>3 DEF TimersFollowClose, Timers

LEMMA TimersInit == Init => TimersFollowClose
BY DEF Init, TimersFollowClose, IdleSweep

LEMMA GraceFollowsClose ==
    ASSUME IInv, TimersFollowClose, NEW n \in Tunnels, OnTunnelClosedGrace(n),
           armed \in SUBSET AnyTimer, dispatched \in SUBSET AnyTimer, firing \in SUBSET AnyTimer
    PROVE  TimersFollowClose'
<1>0. tunnel \in [Tunnels -> Conn] BY DEF IInv, CountInv, CountShape
<1>1. PICK p, t, g : /\ p = tunnel[n].pod /\ t = TraceOf[tunnel[n].cert]
                     /\ armed' = (armed \ {<<p, t, pending[p][t]>>}) \cup {<<p, t, g>>}
  BY DEF OnTunnelClosedGrace
<1>2. Stage(n, "done") /\ UNCHANGED <<dispatched, firing, sweep, old>> BY DEF OnTunnelClosedGrace
<1>3. PICK y \in Conn : /\ tunnel' = [tunnel EXCEPT ![n] = y] /\ y.stage = "done"
                        /\ y.pod = tunnel[n].pod /\ y.cert = tunnel[n].cert
  BY <1>0, <1>2, StageIsRow DEF Stages
<1>4. tunnel'[n] = y BY <1>0, <1>3
<1>5. ClosedOn(p, t)' BY <1>1, <1>3, <1>4 DEF ClosedOn
<1>6. ASSUME NEW m \in Timers' PROVE ClosedOn(m[1], m[2])'
  <2>1. CASE m = <<p, t, g>> BY <1>5, <2>1
  <2>2. CASE m \in Timers
    <3>1. ClosedOn(m[1], m[2]) BY <2>2 DEF TimersFollowClose, Timers
    <3> QED  BY <3>1, TunnelKeepsClosed DEF TunnelStep
  <2> QED  BY <1>1, <1>2, <1>6, <2>1, <2>2 DEF Timers
<1> QED  BY <1>2, <1>6 DEF TimersFollowClose, Timers

LEMMA RestartKeepsClosed ==
    ASSUME IInv, TimersFollowClose, NEW p \in Pods, Restart(p), NEW q, NEW t, q # p, ClosedOn(q, t)
    PROVE  ClosedOn(q, t)'
<1>1. PICK k \in Tunnels : /\ tunnel[k].stage \in {"marking", "done"} /\ tunnel[k].pod = q
                           /\ TraceOf[tunnel[k].cert] = t
  BY DEF ClosedOn
<1>2. tunnel'[k] = tunnel[k] BY <1>1 DEF Restart
<1> QED  BY <1>1, <1>2 DEF ClosedOn

LEMMA SweepFollows ==
    ASSUME IInv, BoundInv, TimersFollowClose, NEW p \in Pods, SweepStep(p)
    PROVE  TimersFollowClose'
<1>0. /\ sweep \in [Pods -> SweepRow] /\ old \in SUBSET Traces BY DEF BoundInv, RestShape
<1>1. UNCHANGED <<tunnel, armed, dispatched, firing, old>>
  BY DEF SweepStep, SweepList, SweepActive, SweepMark, SweepDone, timerVars
<1>2. \A m \in Timers' : ClosedOn(m[1], m[2])' BY <1>1 DEF TimersFollowClose, Timers, ClosedOn
<1>3. ASSUME NEW y \in SweepRow, sweep' = [sweep EXCEPT ![p] = y],
             y.stage # "idle" => SweepEnabled, y.todo \subseteq old
      PROVE  TimersFollowClose'
  <2>1. \A q \in Pods : sweep'[q] = IF q = p THEN y ELSE sweep[q] BY <1>0, <1>3
  <2>2. \A q \in Pods : sweep'[q].stage # "idle" => SweepEnabled BY <1>3, <2>1 DEF TimersFollowClose
  <2>3. \A q \in Pods : sweep'[q].todo \subseteq old' BY <1>1, <1>3, <2>1 DEF TimersFollowClose
  <2> QED  BY <1>2, <2>2, <2>3 DEF TimersFollowClose, Timers
<1>4. CASE SweepList(p)
  <2>1. PICK y : y = [stage |-> "listed", todo |-> {t \in old : status[t] = "running"},
                      up |-> {n \in Tunnels : tunnel[n].stage = "up"}]
    OBVIOUS
  <2>2. y \in SweepRow /\ y.todo \subseteq old BY <1>0, <2>1 DEF SweepRow
  <2>3. SweepEnabled /\ sweep' = [sweep EXCEPT ![p] = y] BY <1>4, <2>1 DEF SweepList
  <2> QED  BY <1>3, <2>2, <2>3
<1>5. CASE SweepActive(p)
  <2>1. PICK y : y = [sweep[p] EXCEPT !.stage = "marking", !.todo = @ \ ActiveTraces(p)] OBVIOUS
  <2>2. y \in SweepRow /\ y.todo \subseteq sweep[p].todo BY <1>0, <2>1 DEF SweepRow
  <2>3. sweep[p].stage = "listed" /\ sweep' = [sweep EXCEPT ![p] = y] BY <1>5, <2>1 DEF SweepActive
  <2> QED  BY <1>3, <2>2, <2>3 DEF TimersFollowClose
<1>6. ASSUME NEW t \in Traces, SweepMark(p, t) PROVE TimersFollowClose'
  <2>1. PICK y : y = [sweep[p] EXCEPT !.todo = @ \ {t}] OBVIOUS
  <2>2. y \in SweepRow /\ y.todo \subseteq sweep[p].todo /\ y.stage = sweep[p].stage BY <1>0, <2>1 DEF SweepRow
  <2>3. sweep' = [sweep EXCEPT ![p] = y] BY <1>6, <2>1 DEF SweepMark
  <2> QED  BY <1>3, <2>2, <2>3 DEF TimersFollowClose
<1>7. CASE SweepDone(p)
  <2>1. IdleSweep \in SweepRow /\ IdleSweep.stage = "idle" /\ IdleSweep.todo = {} BY DEF IdleSweep, SweepRow
  <2>2. sweep' = [sweep EXCEPT ![p] = IdleSweep] BY <1>7 DEF SweepDone
  <2> QED  BY <1>3, <2>1, <2>2
<1> QED  BY <1>4, <1>5, <1>6, <1>7 DEF SweepStep

LEMMA TimersNext == IInv /\ BoundInv /\ TimersFollowClose /\ [Next]_vars => TimersFollowClose'
<1> SUFFICES ASSUME IInv, BoundInv, TimersFollowClose, [Next]_vars PROVE TimersFollowClose' OBVIOUS
<1>0. armed \in SUBSET AnyTimer /\ dispatched \in SUBSET AnyTimer /\ firing \in SUBSET AnyTimer
  <2>1. Timer \subseteq AnyTimer
    <3>1. Gens \subseteq Nat BY TunnelsFinite DEF Gens
    <3> QED  BY <3>1 DEF Timer, AnyTimer
  <2>2. firing \in SUBSET Timer BY DEF BoundInv, RestShape
  <2> QED  BY <2>1, <2>2 DEF IInv, TimerInv, TimerShape
<1>1. ASSUME UNCHANGED <<tunnel, sweep>>, old \subseteq old', Timers' \subseteq Timers
      PROVE  TimersFollowClose'
  <2>1. \A p \in Pods, t \in Traces : ClosedOn(p, t) => ClosedOn(p, t)' BY <1>1 DEF ClosedOn
  <2> QED  BY <1>0, <1>1, <2>1, TimersKeep
<1>2. CASE UNCHANGED vars BY <1>1, <1>2 DEF vars, Timers
<1>3. ASSUME NEW p \in Pods, NEW c \in Certs, Expire(p, c) PROVE TimersFollowClose'
  BY <1>1, <1>3 DEF Expire, timerVars, Timers
<1>12. ASSUME NEW c \in Certs, RegisterStep(c) PROVE TimersFollowClose'
  BY <1>1, <1>12, RegisterFrame DEF timerVars, Timers
<1>4. ASSUME NEW p \in Pods, ReapOrphans(p) \/ LeaderChange(p) PROVE TimersFollowClose'
  BY <1>1, <1>4 DEF ReapOrphans, LeaderChange, timerVars, Timers
<1>5. ASSUME NEW p \in Pods, SweepStep(p) PROVE TimersFollowClose' BY <1>5, SweepFollows
<1>6. ASSUME NEW p \in Pods, Restart(p) PROVE TimersFollowClose'
  <2>0. sweep \in [Pods -> SweepRow] BY DEF BoundInv, RestShape
  <2>1. ASSUME NEW m \in Timers' PROVE ClosedOn(m[1], m[2])'
    <3>1. m \in Timers /\ m[1] # p BY <1>6, <2>1 DEF Restart, Timers
    <3>2. ClosedOn(m[1], m[2]) BY <3>1 DEF TimersFollowClose, Timers
    <3> QED  BY <1>6, <3>1, <3>2, RestartKeepsClosed
  <2>2. \A q \in Pods : sweep'[q] = IF q = p THEN IdleSweep ELSE sweep[q] BY <1>6, <2>0 DEF Restart
  <2>3. \A q \in Pods : sweep'[q].stage # "idle" => SweepEnabled
    BY <2>2 DEF TimersFollowClose, IdleSweep
  <2>4. \A q \in Pods : sweep'[q].todo \subseteq old'
    BY <1>6, <2>2 DEF TimersFollowClose, IdleSweep, Restart
  <2> QED  BY <2>1, <2>3, <2>4 DEF TimersFollowClose, Timers
<1>7. ASSUME NEW t \in Traces, (\E s \in {"running"} \cup Terminal : Ingest(t, s)) \/ GrowOld(t)
      PROVE  TimersFollowClose'
  BY <1>1, <1>7 DEF Ingest, GrowOld, timerVars, Timers
<1>8. ASSUME NEW n \in Tunnels,
             \/ TunnelStep(n) /\ ~OnTunnelClosedGrace(n) 
             \/ TunnelUp(n) \/ TunnelEnd(n) \/ \E c \in Certs : TunnelGet(n, c)
      PROVE  TimersFollowClose'
  <2>1. \A p \in Pods, t \in Traces : ClosedOn(p, t) => ClosedOn(p, t)' BY <1>8, TunnelKeepsClosed
  <2>2. UNCHANGED <<sweep, old, dispatched, firing>> /\ armed' \subseteq armed
    BY <1>8 DEF TunnelStep, TunnelInc, OnTunnelOpen, CancelPending, TunnelDec, OnTunnelClosedNoop,
                OnTunnelClosedNow, CloseMark, TunnelUp, TunnelEnd, TunnelGet, timerVars
  <2>3. Timers' \subseteq Timers BY <2>2 DEF Timers
  <2> QED  BY <1>0, <2>1, <2>2, <2>3, TimersKeep
<1>9. ASSUME NEW n \in Tunnels, OnTunnelClosedGrace(n) PROVE TimersFollowClose'
  BY <1>0, <1>9, GraceFollowsClose
<1>10. ASSUME NEW n \in Tunnels, Heartbeat(n) PROVE TimersFollowClose'
  BY <1>1, <1>10 DEF Heartbeat, timerVars, Timers
<1>11. ASSUME NEW m \in armed \cup dispatched \cup firing, TimerStep(m) PROVE TimersFollowClose'
  <2>1. UNCHANGED <<tunnel, sweep, old>> /\ Timers' \subseteq Timers
    BY <1>11 DEF TimerStep, TimerDispatch, FireGrace, GraceMark, Timers
  <2> QED  BY <1>1, <2>1
<1> QED  BY <1>2, <1>3, <1>4, <1>5, <1>6, <1>7, <1>8, <1>9, <1>10, <1>11, <1>12 DEF Next

(* A grace timer, pending, dispatched or about to mark, always has behind it *)
(* a connection of its trace that was closed on its pod, and the sweep's     *)
(* worklist names old traces only.                                           *)
THEOREM TimersHaveCause == Spec => []TimersFollowClose
BY TimersInit, TimersNext, Inductive, Bounded, PTL DEF Spec

LEMMA MarkChanges ==
    ASSUME status \in [Traces -> {Nil, "running"} \cup Terminal], NEW p, NEW t \in Traces, NEW u \in Traces,
           MarkFailed(p, u), status'[t] # status[t]
    PROVE  t = u /\ p = leader /\ status[t] = "running" /\ status'[t] = "failed"
BY DEF MarkFailed

LEMMA StatusStep ==
    ASSUME IInv, BoundInv, TimersFollowClose, [Next]_vars, NEW t \in Traces, status'[t] # status[t]
    PROVE  \/ status[t] = Nil /\ status'[t] = "running"
           \/ \E s \in Terminal : Ingest(t, s) /\ status'[t] = s
           \/ /\ status[t] = "running" /\ status'[t] = "failed"
              /\ (SweepEnabled /\ t \in old) \/ ClosedOn(leader, t)
<1> DEFINE Goal == \/ status[t] = Nil /\ status'[t] = "running"
                   \/ \E s \in Terminal : Ingest(t, s) /\ status'[t] = s
                   \/ /\ status[t] = "running" /\ status'[t] = "failed"
                      /\ (SweepEnabled /\ t \in old) \/ ClosedOn(leader, t)
<1>0. status \in [Traces -> {Nil, "running"} \cup Terminal] BY DEF BoundInv, RestShape
<1>00. ~UNCHANGED status OBVIOUS
<1>1. ASSUME NEW c \in Certs, RegisterStep(c) PROVE Goal
  <2>0. CreateRow(c)
    BY <1>1, <1>00 DEF RegisterStep, Provision, ProvisionElsewhere, ProvisionFails, CommitLate, DropLate
  <2>1. PICK u : u = TraceOf[c] OBVIOUS
  <2>2. /\ u # Nil /\ status[u] = Nil /\ status' = [status EXCEPT ![u] = "running"]
    BY <1>00, <2>0, <2>1 DEF CreateRow
  <2>3. u \in Traces BY <2>1, <2>2, LifecycleAssumption
  <2> QED  BY <1>0, <2>2, <2>3
<1>2. ASSUME NEW u \in Traces, NEW s \in {"running"} \cup Terminal, Ingest(u, s) PROVE Goal
  <2>1. status' = [status EXCEPT ![u] = s] /\ (s \in Terminal \/ status[u] = Nil) BY <1>2 DEF Ingest
  <2>2. t = u /\ status'[t] = s BY <1>0, <2>1
  <2>3. CASE s \in Terminal BY <1>2, <2>2, <2>3
  <2>4. CASE s = "running" /\ status[u] = Nil BY <2>2, <2>4
  <2> QED  BY <2>1, <2>3, <2>4
<1>3. ASSUME NEW p \in Pods, SweepStep(p) PROVE Goal
  <2>1. PICK u \in Traces : SweepMark(p, u)
    BY <1>3, <1>00 DEF SweepStep, SweepList, SweepActive, SweepDone
  <2>2. MarkFailed(p, u) /\ u \in sweep[p].todo /\ sweep[p].stage = "marking" BY <2>1 DEF SweepMark
  <2>3. t = u /\ status[t] = "running" /\ status'[t] = "failed" BY <1>0, <2>2, MarkChanges
  <2>4. SweepEnabled /\ u \in old BY <2>2 DEF TimersFollowClose
  <2> QED  BY <2>3, <2>4
<1>4. ASSUME NEW n \in Tunnels,
             TunnelStep(n) \/ TunnelUp(n) \/ TunnelEnd(n) \/ Heartbeat(n) \/ \E c \in Certs : TunnelGet(n, c)
      PROVE  Goal
  <2>1. CloseMark(n)
    BY <1>4, <1>00 DEF TunnelStep, TunnelInc, OnTunnelOpen, TunnelDec, OnTunnelClosedNoop, Heartbeat,
                       OnTunnelClosedNow, OnTunnelClosedGrace, TunnelUp, TunnelEnd, TunnelGet
  <2>2. PICK p, u : /\ p = tunnel[n].pod /\ u = TraceOf[tunnel[n].cert] /\ tunnel[n].stage = "marking"
                    /\ MarkFailed(p, u)
    BY <2>1 DEF CloseMark
  <2>3. t = u /\ p = leader /\ status[t] = "running" /\ status'[t] = "failed"
    <3>1. u \in Traces BY <1>00, <2>2, <1>0, LifecycleAssumption DEF MarkFailed
    <3> QED  BY <1>0, <2>2, <3>1, MarkChanges
  <2>4. ClosedOn(leader, t) BY <2>2, <2>3 DEF ClosedOn
  <2> QED  BY <2>3, <2>4
<1>5. ASSUME NEW m \in armed \cup dispatched \cup firing, TimerStep(m) PROVE Goal
  <2>1. GraceMark(m) BY <1>5, <1>00 DEF TimerStep, TimerDispatch, FireGrace
  <2>2. m \in firing /\ MarkFailed(m[1], m[2]) BY <2>1 DEF GraceMark
  <2>3. m[2] \in Traces BY <2>2 DEF BoundInv, RestShape, Timer
  <2>4. t = m[2] /\ m[1] = leader /\ status[t] = "running" /\ status'[t] = "failed"
    BY <1>0, <2>2, <2>3, MarkChanges
  <2>5. ClosedOn(m[1], m[2]) BY <2>2 DEF TimersFollowClose
  <2> QED  BY <2>4, <2>5
<1>6. ASSUME NEW p \in Pods, (\E c \in Certs : Expire(p, c)) \/ ReapOrphans(p) \/ LeaderChange(p) \/ Restart(p)
      PROVE  FALSE
  BY <1>6, <1>00 DEF Expire, ReapOrphans, LeaderChange, Restart
<1>7. ASSUME NEW u \in Traces, GrowOld(u) PROVE FALSE BY <1>7, <1>00 DEF GrowOld
<1>8. CASE UNCHANGED vars BY <1>8, <1>00 DEF vars
<1> QED  BY <1>1, <1>2, <1>3, <1>4, <1>5, <1>6, <1>7, <1>8 DEF Next

(* No trace is failed without cause.  A running trace that the supervisor    *)
(* itself fails, whether in the closing goroutine, from a grace timer or     *)
(* from the sweep, has had a connection closed on the very pod that leads,   *)
(* or is older than stale_after with the sweep enabled; in every other case  *)
(* the client's own telemetry said so.                                       *)
THEOREM FailuresJustified == Spec => FailureJustified
<1> DEFINE A == \A t \in Traces : status[t] = "running" /\ status'[t] = "failed" =>
                   \/ Ingest(t, "failed")
                   \/ SweepEnabled /\ t \in old
                   \/ ClosedOn(leader, t)
<1>1. IInv /\ BoundInv /\ TimersFollowClose /\ [Next]_vars => A
  <2> SUFFICES ASSUME IInv, BoundInv, TimersFollowClose, [Next]_vars, NEW t \in Traces,
                      status[t] = "running", status'[t] = "failed"
               PROVE  Ingest(t, "failed") \/ (SweepEnabled /\ t \in old) \/ ClosedOn(leader, t)
    OBVIOUS
  <2>1. status'[t] # status[t] OBVIOUS
  <2>2. ASSUME NEW s \in Terminal, Ingest(t, s), status'[t] = s PROVE Ingest(t, "failed")
    <3>1. s = "failed" BY <2>2
    <3> QED  BY <2>2, <3>1
  <2> QED  BY <2>1, <2>2, StatusStep
<1>2. IInv /\ BoundInv /\ TimersFollowClose /\ [Next]_vars => [A]_vars BY <1>1
<1> HIDE DEF A
<1>3. Spec => [][A]_vars BY <1>2, Inductive, Bounded, TimersHaveCause, PTL DEF Spec
<1> QED  BY <1>3 DEF A, FailureJustified

LEMMA OneRow ==
    ASSUME IInv, BoundInv, [Next]_vars
    PROVE  status' = status \/ \E t \in Traces : status' = [status EXCEPT ![t] = status'[t]]
<1> DEFINE Goal == status' = status \/ \E t \in Traces : status' = [status EXCEPT ![t] = status'[t]]
<1>0. status \in [Traces -> {Nil, "running"} \cup Terminal] BY DEF BoundInv, RestShape
<1>1. ASSUME NEW t \in Traces, NEW v, status' = [status EXCEPT ![t] = v] PROVE Goal
  <2>1. status'[t] = v BY <1>0, <1>1
  <2> QED  BY <1>1, <2>1
<1>2. ASSUME NEW p, NEW t, MarkFailed(p, t) PROVE Goal
  <2>1. CASE t \in Traces BY <1>1, <1>2, <2>1 DEF MarkFailed
  <2>2. CASE t \notin Traces
    <3>1. [status EXCEPT ![t] = "failed"] = status BY <1>0, <2>2
    <3> QED  BY <1>2, <3>1 DEF MarkFailed
  <2> QED  BY <2>1, <2>2
<1>3. ASSUME NEW c \in Certs, RegisterStep(c) PROVE Goal
  <2>1. status' = status \/ CreateRow(c)
    BY <1>3 DEF RegisterStep, Provision, ProvisionElsewhere, ProvisionFails, CommitLate, DropLate
  <2>2. PICK u : u = TraceOf[c] OBVIOUS
  <2>3. CASE CreateRow(c) /\ u \in Traces BY <1>1, <2>2, <2>3 DEF CreateRow
  <2>4. CASE CreateRow(c) /\ u = Nil BY <2>2, <2>4 DEF CreateRow
  <2> QED  BY <2>1, <2>2, <2>3, <2>4, LifecycleAssumption
<1>4. ASSUME NEW u \in Traces, NEW s, Ingest(u, s) PROVE Goal BY <1>1, <1>4 DEF Ingest
<1>5. ASSUME NEW p \in Pods, SweepStep(p) PROVE Goal
  BY <1>2, <1>5 DEF SweepStep, SweepList, SweepActive, SweepMark, SweepDone
<1>6. ASSUME NEW n \in Tunnels,
             TunnelStep(n) \/ TunnelUp(n) \/ TunnelEnd(n) \/ Heartbeat(n) \/ \E c \in Certs : TunnelGet(n, c)
      PROVE  Goal
  BY <1>2, <1>6 DEF TunnelStep, TunnelInc, OnTunnelOpen, TunnelDec, OnTunnelClosedNoop, Heartbeat,
                    OnTunnelClosedNow, OnTunnelClosedGrace, CloseMark, TunnelUp, TunnelEnd, TunnelGet
<1>7. ASSUME NEW m \in armed \cup dispatched \cup firing, TimerStep(m) PROVE Goal
  BY <1>2, <1>7 DEF TimerStep, TimerDispatch, FireGrace, GraceMark
<1>8. ASSUME NEW p \in Pods, (\E c \in Certs : Expire(p, c)) \/ ReapOrphans(p) \/ LeaderChange(p) \/ Restart(p)
      PROVE  Goal
  BY <1>8 DEF Expire, ReapOrphans, LeaderChange, Restart
<1>9. ASSUME NEW u \in Traces, GrowOld(u) PROVE Goal BY <1>9 DEF GrowOld
<1>10. CASE UNCHANGED vars BY <1>10 DEF vars
<1> QED  BY <1>3, <1>4, <1>5, <1>6, <1>7, <1>8, <1>9, <1>10 DEF Next

(* Every step of disconnect detection, sweep and telemetry is a step of the  *)
(* row that TraceStatus allows: the lifecycle implements it.                 *)
THEOREM LifecycleImplementsTraceStatus == Spec => RowFollowsRules
<1> DEFINE V == [t \in Traces |-> IF status[t] = Nil THEN "absent" ELSE status[t]]
<1>1. Init => TraceRow!Init BY DEF Init, TraceRow!Init
<1>2. ASSUME IInv, BoundInv, TimersFollowClose, [Next]_vars PROVE TraceRow!Next \/ V' = V
  <2>0. status \in [Traces -> {Nil, "running"} \cup Terminal] BY <1>2 DEF BoundInv, RestShape
  <2>1. CASE status' = status BY <2>1
  <2>2. ASSUME NEW t \in Traces, status' = [status EXCEPT ![t] = status'[t]], status'[t] # status[t]
        PROVE  TraceRow!Next \/ V' = V
    <3>1. PICK w : w = IF status'[t] = Nil THEN "absent" ELSE status'[t] OBVIOUS
    <3>2. V' = [V EXCEPT ![t] = w] BY <2>0, <2>2, <3>1
    <3>3. CASE w = "absent"
      BY <2>2, <3>2, <3>3 DEF TraceRow!Next, TraceRow!Purge
    <3>4. CASE w \in {"success", "failed"}
      <4>1. TraceRow!Report(t, w) BY <3>2, <3>4 DEF TraceRow!Report
      <4> QED  BY <2>2, <3>4, <4>1 DEF TraceRow!Next, TraceRow!Verdicts
    <3>5. CASE status[t] = Nil /\ status'[t] = "running" /\ w # "absent"
      <4>1. w = "running" /\ V[t] = "absent" BY <2>2, <3>1, <3>5
      <4>2. TraceRow!Begin(t) BY <3>2, <4>1 DEF TraceRow!Begin
      <4> QED  BY <2>2, <4>2 DEF TraceRow!Next
    <3> QED  BY <1>2, <2>2, <3>1, <3>3, <3>4, <3>5, StatusStep DEF Terminal
  <2>3. CASE status' # status
    BY <1>2, <2>2, <2>3, OneRow
  <2> QED  BY <2>1, <2>3
<1>3. IInv /\ BoundInv /\ TimersFollowClose /\ [Next]_vars => [TraceRow!Next]_V BY <1>2
<1> QED  BY <1>1, <1>3, Inductive, Bounded, TimersHaveCause, PTL DEF Spec, RowFollowsRules, TraceRow!Spec

LEMMA UnmovedNext == IInv /\ BoundInv /\ Unmoved /\ [Next]_vars => Unmoved'
<1> SUFFICES ASSUME IInv, BoundInv, Unmoved, [Next]_vars, faults' = 0 PROVE Unmoved'
  BY DEF Unmoved
<1>0. /\ issued \in [Certs -> Registration]
      /\ tunnel \in [Tunnels -> Conn] /\ faults \in Nat /\ leader \in Pods
      /\ lease \in [Pods -> [Certs -> LeaseRow \cup {Nil}]]
  BY LifecycleAssumption DEF IInv, CountInv, CountShape, BoundInv, RestShape
<1>1. /\ UNCHANGED <<faults, leader>>
      /\ UNCHANGED <<zeroed, issued>> \/ \E c \in Certs : RegisterStep(c)
  <2> DEFINE Same == UNCHANGED <<faults, leader, zeroed, issued>>
  <2>1. ASSUME NEW p \in Pods, LeaderChange(p) \/ Restart(p) PROVE FALSE
    BY <1>0, <2>1 DEF LeaderChange, Restart
  <2>2. ASSUME NEW k \in Tunnels,
               TunnelStep(k) \/ TunnelUp(k) \/ TunnelEnd(k) \/ Heartbeat(k) \/ \E c \in Certs : TunnelGet(k, c)
        PROVE  Same
    BY <2>2 DEF TunnelStep, TunnelInc, OnTunnelOpen, TunnelDec, OnTunnelClosedNoop, Heartbeat,
                OnTunnelClosedNow, OnTunnelClosedGrace, CloseMark, TunnelUp, TunnelEnd, TunnelGet
  <2>3. ASSUME NEW p \in Pods, SweepStep(p) PROVE Same
    BY <2>3 DEF SweepStep, SweepList, SweepActive, SweepMark, SweepDone
  <2>4. ASSUME NEW p \in Pods, (\E c \in Certs : Expire(p, c)) \/ ReapOrphans(p) PROVE Same
    BY <2>4 DEF Expire, ReapOrphans
  <2>5. ASSUME NEW t \in Traces, (\E s \in {"running"} \cup Terminal : Ingest(t, s)) \/ GrowOld(t)
        PROVE  Same
    BY <2>5 DEF Ingest, GrowOld
  <2>6. ASSUME NEW m \in armed \cup dispatched \cup firing, TimerStep(m) PROVE Same
    BY <2>6 DEF TimerStep, TimerDispatch, FireGrace, GraceMark
  <2>7. CASE UNCHANGED vars BY <2>7 DEF vars
  <2>8. ASSUME NEW c \in Certs, RegisterStep(c) PROVE UNCHANGED <<faults, leader>>
    BY <1>0, <2>8 DEF RegisterStep, Provision, ProvisionElsewhere, ProvisionFails, CommitLate, DropLate
  <2> QED  BY <2>1, <2>2, <2>3, <2>4, <2>5, <2>6, <2>7, <2>8 DEF Next
<1>13. faults = 0 /\ zeroed = {} /\ \A c \in Certs : issued[c] # "pending" BY <1>1 DEF Unmoved
<1>14. zeroed' = {} /\ \A c \in Certs : issued'[c] # "pending"
  <2>1. ASSUME NEW c \in Certs, RegisterStep(c)
        PROVE  zeroed' = zeroed /\ \E r \in {"local", "logged"} : issued' = [issued EXCEPT ![c] = r]
    BY <1>0, <1>1, <1>13, <2>1
       DEF RegisterStep, Provision, ProvisionElsewhere, ProvisionFails, CommitLate, DropLate
  <2>2. CASE \E c \in Certs : RegisterStep(c) BY <1>0, <1>13, <2>1, <2>2
  <2>3. CASE UNCHANGED <<zeroed, issued>> BY <1>13, <2>3
  <2> QED  BY <1>1, <2>2, <2>3
<1> SUFFICES ASSUME NEW n \in Tunnels, tunnel'[n].stage # "idle" PROVE tunnel'[n].pod = leader'
  BY <1>14 DEF Unmoved
<1>2. CASE UNCHANGED tunnel BY <1>1, <1>2 DEF Unmoved
<1>3. ASSUME NEW k \in Tunnels, NEW y \in Conn, tunnel' = [tunnel EXCEPT ![k] = y],
             y.pod = leader \/ (y.pod = tunnel[k].pod /\ tunnel[k].stage # "idle")
      PROVE  tunnel'[n].pod = leader'
  <2>1. CASE k = n BY <1>0, <1>1, <1>3, <2>1 DEF Unmoved
  <2>2. CASE k # n BY <1>0, <1>1, <1>3, <2>2 DEF Unmoved
  <2> QED  BY <2>1, <2>2
<1>4. ASSUME NEW k \in Tunnels, NEW s \in Stages, Stage(k, s), tunnel[k].stage # "idle"
      PROVE  tunnel'[n].pod = leader'
  BY <1>0, <1>3, <1>4, StageIsRow
<1>5. ASSUME NEW k \in Tunnels, NEW c \in Certs, TunnelGet(k, c) PROVE tunnel'[n].pod = leader'
  <2>1. PICK y : y = [stage |-> "got", pod |-> leader, cert |-> c, remaining |-> 0] OBVIOUS
  <2>2. y \in Conn /\ y.pod = leader BY <1>0, <2>1 DEF Conn, Stages, Serving
  <2>3. tunnel' = [tunnel EXCEPT ![k] = y] BY <1>5, <2>1 DEF TunnelGet
  <2> QED  BY <1>3, <2>2, <2>3
<1>6. ASSUME NEW k \in Tunnels, TunnelStep(k) \/ TunnelUp(k) \/ TunnelEnd(k)
      PROVE  tunnel'[n].pod = leader'
  <2>1. CASE TunnelDec(k)
    <3>1. tunnel[k].stage = "closing" BY <2>1 DEF TunnelDec
    <3>2. tunnel'[n].pod = tunnel[n].pod /\ (tunnel[n].stage # "idle")
      <4>1. CASE n = k BY <1>0, <2>1, <3>1, <4>1 DEF TunnelDec, Conn
      <4>2. CASE n # k BY <1>0, <2>1, <4>2 DEF TunnelDec
      <4> QED  BY <4>1, <4>2
    <3> QED  BY <1>1, <3>2 DEF Unmoved
  <2>2. CASE TunnelInc(k) BY <1>4, <2>2 DEF TunnelInc, Stages, Serving
  <2>3. CASE OnTunnelOpen(k) BY <1>4, <2>3 DEF OnTunnelOpen, Stages, Serving
  <2>4. CASE TunnelUp(k) BY <1>4, <2>4 DEF TunnelUp, Stages, Serving
  <2>5. CASE TunnelEnd(k) BY <1>4, <2>5 DEF TunnelEnd, Stages, Closing
  <2>6. CASE OnTunnelClosedNoop(k) BY <1>4, <2>6 DEF OnTunnelClosedNoop, Stages, Closing
  <2>7. CASE OnTunnelClosedNow(k) BY <1>4, <2>7 DEF OnTunnelClosedNow, Stages, Closing
  <2>8. CASE CloseMark(k) BY <1>4, <2>8 DEF CloseMark, Stages, Closing
  <2>9. CASE OnTunnelClosedGrace(k) BY <1>4, <2>9 DEF OnTunnelClosedGrace, Stages, Closing
  <2> QED  BY <1>6, <2>1, <2>2, <2>3, <2>4, <2>5, <2>6, <2>7, <2>8, <2>9 DEF TunnelStep
<1>7. ASSUME NEW p \in Pods, LeaderChange(p) \/ Restart(p) PROVE FALSE
  BY <1>0, <1>7 DEF LeaderChange, Restart
<1>15. ASSUME NEW c \in Certs, RegisterStep(c) PROVE UNCHANGED tunnel BY <1>15, RegisterFrame
<1>8. ASSUME NEW p \in Pods, (\E c \in Certs : Expire(p, c)) \/ ReapOrphans(p) \/ SweepStep(p)
      PROVE  UNCHANGED tunnel
  BY <1>8 DEF Expire, ReapOrphans, SweepStep, SweepList, SweepActive, SweepMark, SweepDone
<1>9. ASSUME NEW t \in Traces, (\E s \in {"running"} \cup Terminal : Ingest(t, s)) \/ GrowOld(t)
      PROVE  UNCHANGED tunnel
  BY <1>9 DEF Ingest, GrowOld
<1>10. ASSUME NEW m \in armed \cup dispatched \cup firing, TimerStep(m) PROVE UNCHANGED tunnel
  BY <1>10 DEF TimerStep, TimerDispatch, FireGrace, GraceMark
<1>11. ASSUME NEW k \in Tunnels, Heartbeat(k) PROVE UNCHANGED tunnel BY <1>11 DEF Heartbeat
<1>12. CASE UNCHANGED vars BY <1>2, <1>12 DEF vars
<1> QED  BY <1>2, <1>5, <1>6, <1>7, <1>8, <1>9, <1>10, <1>11, <1>12, <1>15 DEF Next

(* Until the first fault, tunnels and counts are on the pod that leads.      *)
THEOREM TunnelsOfTheLeader == Spec => []Unmoved
<1>1. Init => Unmoved BY DEF Init, Unmoved, IdleTunnel
<1> QED  BY <1>1, UnmovedNext, Inductive, Bounded, PTL DEF Spec

LEMMA VictimsStep ==
    ASSUME BoundInv, NEW p \in Pods, NEW t \in Traces, SweepMark(p, t), status'[t] # status[t]
    PROVE  /\ p = leader
           /\ \A n \in Protected(p, t) : tunnel[n].pod # leader \/ <<leader, tunnel[n].cert>> \in zeroed
<1>0. status \in [Traces -> {Nil, "running"} \cup Terminal] BY DEF BoundInv, RestShape
<1>1. p = leader BY <1>0, MarkChanges DEF SweepMark
<1>2. SUFFICES ASSUME NEW n \in Protected(p, t), tunnel[n].pod = p,
                     <<p, tunnel[n].cert>> \notin zeroed
      PROVE  FALSE
  BY <1>1
<1>3. sweep[p].stage = "marking" /\ t \in sweep[p].todo BY DEF SweepMark
<1>4. /\ n \in sweep[p].up /\ tunnel[n].stage = "up" /\ TraceOf[tunnel[n].cert] = t
      /\ lease[p][tunnel[n].cert] # Nil
  BY DEF Protected, UpTunnel
<1> QED  BY <1>2, <1>3, <1>4 DEF BoundInv, SweepInv

(* The sweep harms only traces that are served by pods that do not lead, or  *)
(* whose connection a late registration took out of the count.               *)
THEOREM SweepVictims == Spec => VictimsElsewhere
<1> DEFINE A == \A p \in Pods, t \in Traces :
              SweepMark(p, t) /\ status'[t] # status[t]
                 => /\ p = leader
                    /\ \A n \in Protected(p, t) :
                          tunnel[n].pod # leader \/ <<leader, tunnel[n].cert>> \in zeroed
<1>1. BoundInv => A BY VictimsStep
<1>2. BoundInv /\ [Next]_vars => [A]_vars BY <1>1
<1> HIDE DEF A
<1>3. Spec => [][A]_vars BY <1>2, Bounded, PTL DEF Spec
<1> QED  BY <1>3 DEF A, VictimsElsewhere

(* Without restarts and changes of leader the sweep spares every trace that  *)
(* is served: what the takeover run refutes needs a fault.                   *)
THEOREM SweepSparesUntilFault == Spec => SparesActiveUntilFault
<1> DEFINE A == faults = 0 => \A p \in Pods, t \in Traces :
              SweepMark(p, t) /\ status'[t] # status[t] => Protected(p, t) = {}
<1>1. ASSUME BoundInv, Unmoved PROVE A
  <2> SUFFICES ASSUME faults = 0, NEW p \in Pods, NEW t \in Traces, SweepMark(p, t),
                      status'[t] # status[t], NEW n \in Protected(p, t)
               PROVE  FALSE
    OBVIOUS
  <2>1. tunnel[n].pod # leader BY <1>1, VictimsStep DEF Unmoved
  <2>2. n \in sweep[p].up /\ tunnel[n].stage = "up" BY DEF Protected, UpTunnel
  <2>3. n \in Tunnels BY <1>1, <2>2 DEF BoundInv, RestShape, SweepRow
  <2> QED  BY <1>1, <2>1, <2>2, <2>3 DEF Unmoved
<1>2. BoundInv /\ Unmoved /\ [Next]_vars => [A]_vars BY <1>1
<1> HIDE DEF A
<1>3. Spec => [][A]_vars BY <1>2, Bounded, TunnelsOfTheLeader, PTL DEF Spec
<1> QED  BY <1>3 DEF A, SparesActiveUntilFault
=============================================================================
