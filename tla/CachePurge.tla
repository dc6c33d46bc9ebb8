----------------------------- MODULE CachePurge -----------------------------
(* The engine cache purge: internal/service/engine_cache_purge.go, called by  *)
(* internal/handler/fleet_purge.go, over the Kubernetes objects it works on.  *)
(*                                                                           *)
(* A purge prunes the pods of a version and then deletes the volume claims    *)
(* (PVCs) of the ordinals that have no pod.  The list of pods is read once,   *)
(* before the prune, which may take minutes; the fleet is scaled meanwhile.   *)
(* A step is one API call, one prune or one step of the StatefulSet           *)
(* controller.                                                               *)
EXTENDS Naturals, FiniteSets, Absent

CONSTANTS
    PurgeVersions,  \* engine versions with a StatefulSet
    MaxOrdinal      \* bound: replicas of a version are 0..MaxOrdinal

ASSUME PurgeAssumption == MaxOrdinal \in Nat

Ordinals == 0..MaxOrdinal

VARIABLES
    fleet,      \* fleet[v]: the StatefulSet of v exists
    want,       \* want[v]: its spec.replicas
    pod,        \* pod[v][o]: "none", "up" or "terminating"
    pvc,        \* pvc[v][o]: "none", "bound" or "deleting"
    purge,      \* purge[v]: the purge of v under way (the active flag), or Nil
    result,     \* result[v]: the status recorded for v, or Nil
    idle        \* idle[v]: ordinals with a PVC and no pod since the purge began

purgeVars == <<fleet, want, pod, pvc, purge, result, idle>>

PurgeRun == [at: {"versions", "pods", "prune", "pvcs"}, running: SUBSET Ordinals,
             todo: SUBSET Ordinals, failed: SUBSET Ordinals]
Result == [state: {"running", "completed", "failed"}, failed: SUBSET Ordinals]

ASSUME NilNotPurgeRun == Nil \notin PurgeRun

PurgeTypeOK ==
    /\ fleet \in [PurgeVersions -> BOOLEAN]
    /\ want \in [PurgeVersions -> 0..MaxOrdinal + 1]
    /\ pod \in [PurgeVersions -> [Ordinals -> {"none", "up", "terminating"}]]
    /\ pvc \in [PurgeVersions -> [Ordinals -> {"none", "bound", "deleting"}]]
    /\ purge \in [PurgeVersions -> PurgeRun \cup {Nil}]
    /\ result \in [PurgeVersions -> Result \cup {Nil}]
    /\ idle \in [PurgeVersions -> SUBSET Ordinals]

PurgeInit ==
    /\ fleet = [v \in PurgeVersions |-> FALSE]
    /\ want = [v \in PurgeVersions |-> 0]
    /\ pod = [v \in PurgeVersions |-> [o \in Ordinals |-> "none"]]
    /\ pvc = [v \in PurgeVersions |-> [o \in Ordinals |-> "none"]]
    /\ purge = [v \in PurgeVersions |-> Nil]
    /\ result = [v \in PurgeVersions |-> Nil]
    /\ idle = [v \in PurgeVersions |-> {}]

Up(v) == {o \in Ordinals : pod[v][o] = "up"}
Claims(v) == {o \in Ordinals : pvc[v][o] # "none"}

purgerState == <<purge, result>>

(* -------------------------------------- the fleet manager and Kubernetes -- *)

(* EnsureVersion, ScaleUp and ScaleDown of the provider.                      *)
ScaleTo(v, n) ==
    /\ fleet[v] \/ \A o \in Ordinals : pod[v][o] = "none" /\ pvc[v][o] = "none"
    /\ fleet' = [fleet EXCEPT ![v] = TRUE]
    /\ want' = [want EXCEPT ![v] = n]
    /\ UNCHANGED <<pod, pvc, idle, purgerState>>

(* DeleteVersion: the retention policy WhenDeleted removes the claims too.    *)
DeleteFleet(v) ==
    /\ fleet[v]
    /\ fleet' = [fleet EXCEPT ![v] = FALSE]
    /\ want' = [want EXCEPT ![v] = 0]
    /\ pvc' = [pvc EXCEPT ![v] = [o \in Ordinals |->
                 IF @[o] = "none" \/ pod[v][o] = "none" THEN "none" ELSE "deleting"]]
    /\ UNCHANGED <<pod, idle, purgerState>>

(* The controller starts a missing pod, on the claim WhenScaled retained or   *)
(* on a new one.                                                             *)
StartPod(v, o) ==
    /\ fleet[v] /\ o < want[v]
    /\ pod[v][o] = "none" /\ pvc[v][o] # "deleting"
    /\ pod' = [pod EXCEPT ![v][o] = "up"]
    /\ pvc' = [pvc EXCEPT ![v][o] = "bound"]
    /\ idle' = [idle EXCEPT ![v] = @ \ {o}]
    /\ UNCHANGED <<fleet, want, purgerState>>

StopPod(v, o) ==
    /\ pod[v][o] = "up" /\ o >= want[v]
    /\ pod' = [pod EXCEPT ![v][o] = "terminating"]
    /\ UNCHANGED <<fleet, want, pvc, idle, purgerState>>

(* A pod that is gone frees a claim whose deletion waited for it.             *)
PodGone(v, o) ==
    /\ pod[v][o] = "terminating"
    /\ pod' = [pod EXCEPT ![v][o] = "none"]
    /\ pvc' = [pvc EXCEPT ![v][o] = IF @ = "deleting" THEN "none" ELSE @]
    /\ UNCHANGED <<fleet, want, idle, purgerState>>

(* --------------------------------------------------------------- the purge *)

(* Purge: one per version; another one is answered ErrPurgeInProgress.        *)
PurgeCache(v) ==
    /\ purge[v] = Nil
    /\ purge' = [purge EXCEPT ![v] =
                   [at |-> "versions", running |-> {}, todo |-> {}, failed |-> {}]]
    /\ result' = [result EXCEPT ![v] = [state |-> "running", failed |-> {}]]
    /\ idle' = [idle EXCEPT ![v] = {o \in Claims(v) : pod[v][o] = "none"}]
    /\ UNCHANGED <<fleet, want, pod, pvc>>

cluster == <<fleet, want, pod, pvc, idle>>

(* finish: runs whatever way runPurge ended, publishes and clears the flag.   *)
FinishCachePurge(v, state, failed) ==
    /\ purge' = [purge EXCEPT ![v] = Nil]
    /\ result' = [result EXCEPT ![v] = [state |-> state, failed |-> failed]]

At(v, at) == purge[v] # Nil /\ purge[v].at = at

(* failedPurge: one of the three lists fails, or the fleet is missing.        *)
FailPurge(v) ==
    /\ purge[v] # Nil /\ purge[v].todo = {} /\ purge[v].at # "pvcs"
    /\ FinishCachePurge(v, "failed", purge[v].failed)
    /\ UNCHANGED cluster

(* A panic in runPurge: the deferred finish has no result.                   *)
PanicPurge(v) == purge[v] # Nil /\ FinishCachePurge(v, "failed", {}) /\ UNCHANGED cluster

(* AllVersions                                                               *)
CheckFleet(v) ==
    /\ At(v, "versions") /\ fleet[v]
    /\ purge' = [purge EXCEPT ![v].at = "pods"]
    /\ UNCHANGED <<result, cluster>>

(* GetReplicas: the pods that are not terminating.                           *)
ListPods(v) ==
    /\ At(v, "pods")
    /\ purge' = [purge EXCEPT ![v].at = "prune", ![v].running = Up(v), ![v].todo = Up(v)]
    /\ UNCHANGED <<result, cluster>>

(* prunePod: it fails on a pod that is gone and may fail on any other; the    *)
(* failure is recorded and the others go on.                                 *)
PrunePod(v, o) ==
    /\ At(v, "prune") /\ o \in purge[v].todo
    /\ \E ok \in {pod[v][o] # "none", FALSE} :
          purge' = [purge EXCEPT ![v].todo = @ \ {o},
                                 ![v].failed = IF ok THEN @ ELSE @ \cup {o}]
    /\ UNCHANGED <<result, cluster>>

(* deleteOrphanedPVCs: the claims whose ordinal is not in the list of pods.   *)
ListClaims(v) ==
    /\ At(v, "prune") /\ purge[v].todo = {}
    /\ purge' = [purge EXCEPT ![v].at = "pvcs", ![v].todo = Claims(v) \ purge[v].running]
    /\ UNCHANGED <<result, cluster>>

(* Mutant of DeletePVC: the first failure ends the loop.                     *)
DeletePVCStops(v, o) ==
    /\ At(v, "pvcs") /\ o \in purge[v].todo
    /\ \/ /\ pvc' = [pvc EXCEPT ![v][o] =
                       IF @ = "none" \/ pod[v][o] = "none" THEN "none" ELSE "deleting"]
          /\ purge' = [purge EXCEPT ![v].todo = @ \ {o}]
       \/ /\ purge' = [purge EXCEPT ![v].todo = {}, ![v].failed = @ \cup {o}]
          /\ UNCHANGED pvc
    /\ UNCHANGED <<fleet, want, pod, idle, result>>

(* DeletePVC: Kubernetes keeps a claim until its pod is gone; a failure is    *)
(* recorded and the loop goes on.                                            *)
DeletePVC(v, o) ==
    /\ At(v, "pvcs") /\ o \in purge[v].todo
    /\ \/ /\ pvc' = [pvc EXCEPT ![v][o] =
                       IF @ = "none" \/ pod[v][o] = "none" THEN "none" ELSE "deleting"]
          /\ purge' = [purge EXCEPT ![v].todo = @ \ {o}]
       \/ /\ purge' = [purge EXCEPT ![v].todo = @ \ {o}, ![v].failed = @ \cup {o}]
          /\ UNCHANGED pvc
    /\ UNCHANGED <<fleet, want, pod, idle, result>>

CompletePurge(v) ==
    /\ At(v, "pvcs") /\ purge[v].todo = {}
    /\ FinishCachePurge(v, "completed", purge[v].failed)
    /\ UNCHANGED cluster

PurgeRunStep(v) ==
    \/ FailPurge(v) \/ PanicPurge(v) \/ CheckFleet(v) \/ ListPods(v)
    \/ ListClaims(v) \/ CompletePurge(v)
    \/ \E o \in Ordinals : PrunePod(v, o) \/ DeletePVC(v, o)

PurgeNext ==
    \E v \in PurgeVersions :
        \/ DeleteFleet(v) \/ PurgeCache(v) \/ PurgeRunStep(v)
        \/ \E n \in 0..MaxOrdinal + 1 : ScaleTo(v, n)
        \/ \E o \in Ordinals : StartPod(v, o) \/ StopPod(v, o) \/ PodGone(v, o)

(* A purge goes on: every call it makes has a time-out.                      *)
PurgeSpec ==
    /\ PurgeInit /\ [][PurgeNext]_purgeVars
    /\ \A v \in PurgeVersions : WF_purgeVars(PurgeRunStep(v))

(* ----------------------------------------------------------- properties -- *)

(* A purge that ends "completed" has deleted, or names among the failures,    *)
(* the claim of every ordinal that had no pod while it ran, however the fleet *)
(* was scaled and whatever calls failed.                                     *)
PurgeReclaims ==
    [][\A v \in PurgeVersions :
         purge[v] # Nil /\ purge'[v] = Nil /\ result'[v].state = "completed"
           => \A o \in idle[v] : pvc'[v][o] = "none" \/ o \in result'[v].failed]_purgeVars

(* engine_cache_purge.go:236 "the version's active flag can never wedge":     *)
(* every purge ends and its final state is recorded.                         *)
PurgeEnds ==
    \A v \in PurgeVersions :
        []<>(purge[v] = Nil /\ (result[v] # Nil => result[v].state # "running"))
=============================================================================
