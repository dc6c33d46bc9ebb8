--------------------------- MODULE RaftMembership ---------------------------
(***************************************************************************)
(* How the Raft voters follow the StatefulSet (repository/raft_store.go,   *)
(* raft_discovery.go, joinLoop in cmd/api/main.go): pod 0 bootstraps a     *)
(* cluster of itself, and every 5 s the leader compares the configuration  *)
(* it reads with the pods its own config file names and adds, readdresses  *)
(* and removes voters one call at a time.  The number of replicas is read  *)
(* at process start, so that a rescale reaches a pod with its restart.     *)
(*                                                                         *)
(* Over TLS a voter's address is its DNS name.  Over plaintext TCP pod 0   *)
(* bootstraps with the IP it has, which is stale after a restart, until    *)
(* the leader removes the voter and adds it back by name.                  *)
(*                                                                         *)
(* Raft is external: a configuration takes effect when the leader appends  *)
(* it and needs a majority of itself that the leader can dial; without one *)
(* the leader steps down and the entry may or may not survive.  The last   *)
(* voter cannot be removed.  A leader that removes itself steps down and   *)
(* its Raft node stops until the process restarts.                         *)
(***************************************************************************)
EXTENDS Absent, Naturals, FiniteSets

CONSTANTS
    Sizes,          \* the StatefulSet sizes the chart is given, in any order
    MaxRescales,    \* bound on chart upgrades
    MaxMemFaults    \* bound on crashes and changes of leader

ASSUME MemAssumption ==
    /\ Sizes \subseteq Nat \ {0} /\ Sizes # {} /\ IsFiniteSet(Sizes)
    /\ MaxRescales \in Nat /\ MaxMemFaults \in Nat

Ordinal == UNION {0 .. n - 1 : n \in Sizes}

VARIABLES
    tls,        \* raft.tls.enabled
    size,       \* the StatefulSet's replicas
    running,    \* pods whose process and Raft node run
    halted,     \* pods whose process runs without its Raft node
    wants,      \* wants[p]: the replicas in the config p was started with
    voters,     \* the latest configuration
    byIP,       \* voters whose address in it is the IP of a plaintext bootstrap
    moved,      \* pod 0 has lost the IP it bootstrapped with
    memLeader,
    recon,      \* the leader's ReconcileMembership: the calls it has left
    rescales, memFaults

memVars == <<tls, size, running, halted, wants, voters, byIP, moved, memLeader, recon, rescales,
             memFaults>>

Desired(n) == 0 .. n - 1

(* The calls of one reconciliation, computed from the configuration and the *)
(* peers read at its start; back is the voter to be added back.             *)
NoRecon == [busy |-> FALSE, add |-> {}, update |-> {}, remove |-> {}, back |-> Nil]
Recon == [busy: BOOLEAN, add: SUBSET Ordinal, update: SUBSET Ordinal, remove: SUBSET Ordinal,
          back: Ordinal \cup {Nil}]

MemTypeOK ==
    /\ tls \in BOOLEAN /\ size \in Sizes /\ running \subseteq Ordinal /\ halted \subseteq Ordinal \ running
    /\ wants \in [Ordinal -> Sizes] /\ voters \subseteq Ordinal /\ byIP \subseteq voters
    /\ moved \in BOOLEAN
    /\ memLeader \in Ordinal \cup {Nil} /\ recon \in Recon
    /\ rescales \in 0 .. MaxRescales /\ memFaults \in 0 .. MaxMemFaults

MemInit ==
    /\ tls \in BOOLEAN /\ size \in Sizes
    /\ running = {} /\ halted = {} /\ wants = [p \in Ordinal |-> size]
    /\ voters = {} /\ byIP = {} /\ moved = FALSE /\ memLeader = Nil /\ recon = NoRecon
    /\ rescales = 0 /\ memFaults = 0

StaleVoters == IF moved THEN byIP ELSE {}

(* A majority of configuration V, with the bootstrap IP for the voters B,   *)
(* that p can dial: itself and the running voters whose address is right.   *)
Reaches(p, V, B) ==
    2 * Cardinality({q \in V \cap running : q = p \/ ~moved \/ q \notin B}) > Cardinality(V)

-----------------------------------------------------------------------------
(* NewRaftStore: pod 0 bootstraps itself unless it has a configuration; the *)
(* others wait to be added.  A restarted pod has a new IP.                  *)
StartSupervisor(p) ==
    /\ p \in Desired(size) /\ p \notin running \cup halted
    /\ running' = running \cup {p}
    /\ wants' = [wants EXCEPT ![p] = size]
    /\ IF p = 0 /\ voters = {}
       THEN voters' = {0} /\ byIP' = IF tls THEN {} ELSE {0}
       ELSE UNCHANGED <<voters, byIP>>
    /\ UNCHANGED <<tls, size, halted, moved, memLeader, recon, rescales, memFaults>>

(* A process ends, by a crash, by the rollout of an upgrade or by scaling   *)
(* down.  LeaveCluster hands leadership over; its RemoveServer is refused,  *)
(* as the pod does not lead any more, or never did, and is only logged.     *)
(* The IP a plaintext bootstrap recorded is lost with pod 0.                *)
Stop(p) ==
    /\ running' = running \ {p} /\ halted' = halted \ {p}
    /\ moved' = (moved \/ p = 0)
    /\ memLeader' = IF memLeader = p THEN Nil ELSE memLeader
    /\ recon' = IF memLeader = p THEN NoRecon ELSE recon

Crash(p) ==
    /\ p \in running \cup halted /\ memFaults < MaxMemFaults
    /\ Stop(p) /\ memFaults' = memFaults + 1
    /\ UNCHANGED <<tls, size, wants, voters, byIP, rescales>>

(* The rollout of an upgrade: a pod beyond the size, or started with an     *)
(* older config, is stopped.                                                *)
Rollout(p) ==
    /\ p \in running \cup halted /\ (p \notin Desired(size) \/ wants[p] # size)
    /\ Stop(p)
    /\ UNCHANGED <<tls, size, wants, voters, byIP, rescales, memFaults>>

Rescale(n) ==
    /\ rescales < MaxRescales /\ n # size
    /\ size' = n /\ rescales' = rescales + 1
    /\ UNCHANGED <<tls, running, halted, wants, voters, byIP, moved, memLeader, recon, memFaults>>

-----------------------------------------------------------------------------
ElectLeader(p) ==
    /\ memLeader = Nil /\ p \in voters \cap running /\ Reaches(p, voters, byIP)
    /\ memLeader' = p
    /\ UNCHANGED <<tls, size, running, halted, wants, voters, byIP, moved, recon, rescales,
                   memFaults>>

StepsDown ==
    /\ memLeader # Nil /\ memLeader' = Nil /\ recon' = NoRecon
    /\ UNCHANGED <<tls, size, running, halted, wants, voters, byIP, moved, rescales>>

LoseQuorum ==
    memLeader # Nil /\ ~Reaches(memLeader, voters, byIP) /\ StepsDown /\ UNCHANGED memFaults

Depose == memFaults < MaxMemFaults /\ StepsDown /\ memFaults' = memFaults + 1

(* The other voters can elect one of them without the leader's last entry.  *)
Overruled ==
    2 * Cardinality((voters \cap running) \ (StaleVoters \cup {memLeader})) > Cardinality(voters)

(* One configuration change by the leader, the rest of the reconciliation   *)
(* being next.                                                              *)
Change(V, B, next) ==
    \/ /\ Reaches(memLeader, V, B)
       /\ voters' = V /\ byIP' = B
       /\ IF memLeader \in V
          THEN memLeader' = memLeader /\ recon' = next /\ UNCHANGED <<running, halted>>
          ELSE /\ memLeader' = Nil /\ recon' = NoRecon
               /\ running' = running \ {memLeader} /\ halted' = halted \cup {memLeader}
       /\ UNCHANGED <<tls, size, wants, moved, rescales, memFaults>>
    \/ /\ ~Reaches(memLeader, V, B)
       /\ \/ voters' = V /\ byIP' = B
          \/ Overruled /\ UNCHANGED <<voters, byIP>>
       /\ memLeader' = Nil /\ recon' = NoRecon
       /\ UNCHANGED <<tls, size, running, halted, wants, moved, rescales, memFaults>>

(* joinLoop ticks on the leader: ReconcileMembership reads the              *)
(* configuration and plans its calls.  addrChanged resolves the pod's name  *)
(* for a voter kept by IP, and takes a failed lookup for a changed address. *)
BeginReconcile ==
    /\ memLeader # Nil /\ ~recon.busy
    /\ LET want == Desired(wants[memLeader]) IN
       \E changed \in {StaleVoters, byIP} :
          recon' = [busy |-> TRUE, add |-> want \ voters, update |-> want \cap changed,
                    remove |-> voters \ want, back |-> Nil]
    /\ UNCHANGED <<tls, size, running, halted, wants, voters, byIP, moved, memLeader, rescales,
                   memFaults>>

(* Mutant of AddMissing: voters are added only while the cluster has one.   *)
AddMissingAtBootstrap(q) ==
    /\ recon.busy /\ q \in recon.add
    /\ IF Cardinality(voters) = 1
       THEN Change(voters \cup {q}, byIP \ {q}, [recon EXCEPT !.add = @ \ {q}])
       ELSE /\ recon' = [recon EXCEPT !.add = @ \ {q}]
            /\ UNCHANGED <<tls, size, running, halted, wants, voters, byIP, moved, memLeader,
                           rescales, memFaults>>

AddMissing(q) ==
    /\ recon.busy /\ q \in recon.add
    /\ Change(voters \cup {q}, byIP \ {q}, [recon EXCEPT !.add = @ \ {q}])

UpdateAddress(q) ==
    /\ recon.busy /\ recon.add = {} /\ recon.back = Nil /\ q \in recon.update
    /\ voters # {q}
    /\ Change(voters \ {q}, byIP \ {q}, [recon EXCEPT !.update = @ \ {q}, !.back = q])

AddBack ==
    /\ recon.busy /\ recon.back # Nil
    /\ Change(voters \cup {recon.back}, byIP \ {recon.back}, [recon EXCEPT !.back = Nil])

RemoveExtra(q) ==
    /\ recon.busy /\ recon.add = {} /\ recon.update = {} /\ recon.back = Nil
    /\ q \in recon.remove /\ voters # {q}
    /\ Change(voters \ {q}, byIP \ {q}, [recon EXCEPT !.remove = @ \ {q}])

(* Done, or refused: the last voter is never removed.                       *)
EndReconcile ==
    /\ recon.busy /\ recon.add = {} /\ recon.back = Nil
    /\ \/ recon.update = {} /\ recon.remove = {}
       \/ recon.update # {} /\ \E q \in recon.update : voters = {q}
       \/ recon.update = {} /\ \E q \in recon.remove : voters = {q}
    /\ recon' = NoRecon
    /\ UNCHANGED <<tls, size, running, halted, wants, voters, byIP, moved, memLeader, rescales,
                   memFaults>>

ReconcileStep ==
    \/ BeginReconcile \/ AddBack \/ EndReconcile
    \/ \E q \in Ordinal : AddMissing(q) \/ UpdateAddress(q) \/ RemoveExtra(q)

MemNext ==
    \/ \E p \in Ordinal : StartSupervisor(p) \/ Crash(p) \/ Rollout(p) \/ ElectLeader(p)
    \/ \E n \in Sizes : Rescale(n)
    \/ LoseQuorum \/ Depose \/ ReconcileStep

(* The kubelet starts pods and the rollout proceeds, voters elect a leader  *)
(* when they can, and the leader's joinLoop ticks.                          *)
MemFairness ==
    /\ \A p \in Ordinal : WF_memVars(StartSupervisor(p)) /\ WF_memVars(Rollout(p))
    /\ WF_memVars(\E p \in Ordinal : ElectLeader(p)) /\ WF_memVars(LoseQuorum)
    /\ WF_memVars(ReconcileStep)

MemSpec == MemInit /\ [][MemNext]_memVars /\ MemFairness

-----------------------------------------------------------------------------
(* Voters no running pod can gather a majority of.                          *)
NoQuorum == \A p \in voters \cap running : ~Reaches(p, voters, byIP)

(* The voters are the pods of the StatefulSet, each at its own address, or  *)
(* there is no majority any more and one of the two ways below lost it.     *)
Converged ==
    \/ voters = Desired(size) /\ (StaleVoters = {} \/ voters = {0})
    \/ NoQuorum /\ (halted # {} \/ ~(voters \subseteq Desired(size)))

(* ReconcileMembership is abandoned at any call and taken up again by       *)
(* whoever leads next: the voters are at last the pods of the StatefulSet,  *)
(* each at an address that is its own.  A majority can be lost for good in  *)
(* two ways only: a voter that was scaled away, and over plaintext a leader *)
(* that readdresses itself and so stops its own Raft node.                  *)
MemConverges == <>[]Converged
=============================================================================
