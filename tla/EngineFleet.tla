---------------------------- MODULE EngineFleet ----------------------------
(***************************************************************************)
(* The per-version engine autoscaler: Manager.Acquire and Manager.Sweep    *)
(* (service/fleet.go) over the Kubernetes objects that K8sProvider         *)
(* (repository/k8s_provider.go) writes, with the lease that handleEngines  *)
(* registers after Acquire.  One engine version: versions share no object. *)
(*                                                                         *)
(* Acquire runs in one goroutine per provision request and Sweep in every  *)
(* supervisor pod (main.go), each on the lease store of its own pod: a     *)
(* lease is replicated by Raft, so another pod's store has it later, or    *)
(* never when the registration failed and was kept locally, or when the    *)
(* pod restarts from a snapshot, which holds no lease.  Neither holds a    *)
(* lock across its calls, so each API call and each read of the lease      *)
(* store is one action.  The writes of the provider are Get-then-Update    *)
(* pairs guarded by the resourceVersion: such a pair is one action, or an  *)
(* error when somebody wrote in between (setReplicas retries it with the   *)
(* same absolute target).                                                  *)
(* The StatefulSet controller is external: it creates and deletes pods in  *)
(* parallel until ordinals 0 .. replicas-1 are there.                      *)
(***************************************************************************)
EXTENDS Naturals, FiniteSets

CONSTANTS
    Requests,       \* provision requests; each becomes at most one lease
    Supervisors,    \* supervisor pods, each with its lease store and sweep loop
    Entry,          \* supervisor pods that provision requests reach
    MaxReplicas,    \* fleet.max_replicas_per_version
    MaxSessions,    \* fleet.max_sessions_per_replica
    Retention,      \* fleet.version_retention > 0
    MaxFaults,      \* bound on failed calls, lost pods and restarts together
    Nil

ASSUME FleetAssumption ==
    /\ MaxReplicas \in Nat \ {0} /\ MaxSessions \in Nat \ {0}
    /\ Retention \in BOOLEAN /\ MaxFaults \in Nat
    /\ IsFiniteSet(Requests) /\ Entry \subseteq Supervisors

Ordinals == 0 .. MaxReplicas - 1

ASSUME NilNotOrdinal == Nil \notin Ordinals

VARIABLES
    sts,        \* the StatefulSet: [replicas, idle], Nil when absent
    svc,        \* the headless Service exists
    pods,       \* the pod of each ordinal
    old,        \* ordinals whose pod started more than replica_idle_ttl ago
    req,        \* the provision request goroutines
    served,     \* served[r]: the supervisor that serves request r
    pin,        \* pin[r]: the ordinal r's lease names, Nil before it is registered
    rows,       \* rows[p]: the requests whose lease is in p's store
    lag,        \* lag[p]: the requests whose lease p has still to apply
    logged,     \* requests whose registration is in the Raft log
    sweep,      \* the sweep goroutines
    faults      \* failed calls, lost pods and restarts so far

kubeVars  == <<sts, svc, pods, old>>
leaseVars == <<pin, rows, lag, logged>>
vars == <<kubeVars, req, served, leaseVars, sweep, faults>>

StatefulSet == [replicas: 0 .. MaxReplicas, idle: {"none", "fresh", "due"}]

(* A request that holds nothing of a listing, and a sweep between passes.    *)
At(stage) == [stage |-> stage, seen |-> {}, ready |-> {}, ordinal |-> 0]
IdleSweep == [stage |-> "idle", some |-> FALSE, aged |-> {}, target |-> 0, held |-> {}]

Live  == {o \in Ordinals : pods[o] \in {"starting", "ready"}}
Ready == {o \in Ordinals : pods[o] = "ready"}

(* PinnedSessionsOnReplica, over the store of pod p.                        *)
Pinned(p, o) == Cardinality({r \in rows[p] : pin[r] = o})

Acquiring == {"service", "list", "choose", "scale", "wait", "register"}
Stages    == {"idle", "held", "done", "failed"} \cup Acquiring
Steps     == {"idle", "pick", "down", "set", "retention", "clear", "gc", "stamp",
              "delsvc", "delsts"}

(* What a request and a sweep remember of the calls they have made.         *)
Request == [stage: Stages, seen: SUBSET Ordinals, ready: SUBSET Ordinals, ordinal: Ordinals]
Pass    == [stage: Steps, some: BOOLEAN, aged: SUBSET Ordinals, target: 0 .. MaxReplicas,
            held: SUBSET Requests]

(* The fleet never asks Kubernetes for more than max_replicas_per_version   *)
(* pods nor has more (docs: "Autoscaler ceiling per version"), and never    *)
(* for a negative number, although every writer computes its target from a  *)
(* count it read earlier; the rest of the state has its type.               *)
TypeOK ==
    /\ sts \in StatefulSet \cup {Nil} /\ svc \in BOOLEAN
    /\ pods \in [Ordinals -> {"absent", "starting", "ready", "terminating"}]
    /\ old \in SUBSET Ordinals
    /\ req \in [Requests -> Request]
    /\ served \in [Requests -> Supervisors \cup {Nil}]
    /\ pin \in [Requests -> Ordinals \cup {Nil}]
    /\ rows \in [Supervisors -> SUBSET Requests]
    /\ lag \in [Supervisors -> SUBSET Requests]
    /\ logged \in SUBSET Requests
    /\ sweep \in [Supervisors -> Pass]
    /\ faults \in 0 .. MaxFaults

(* The supervisor starts with a version nobody has asked for yet, or with   *)
(* the fleet that an earlier one scaled up and whose leases it lost.        *)
Init ==
    /\ \/ /\ sts = Nil /\ svc = FALSE
          /\ pods = [o \in Ordinals |-> "absent"]
       \/ /\ sts = [replicas |-> MaxReplicas, idle |-> "none"] /\ svc = TRUE
          /\ pods = [o \in Ordinals |-> "starting"]
    /\ old = {}
    /\ req = [r \in Requests |-> At("idle")]
    /\ served = [r \in Requests |-> Nil]
    /\ pin = [r \in Requests |-> Nil]
    /\ rows = [p \in Supervisors |-> {}]
    /\ lag = [p \in Supervisors |-> {}]
    /\ logged = {}
    /\ sweep = [s \in Supervisors |-> IdleSweep]
    /\ faults = 0

-----------------------------------------------------------------------------
(* Manager.Acquire.                                                         *)

(* EnsureStatefulSet: created with 0 replicas, or updated with the live     *)
(* replica count and without the idle-since annotation.                     *)
EnsureStatefulSet(r) ==
    /\ req[r].stage = "idle"
    /\ sts' = [replicas |-> IF sts = Nil THEN 0 ELSE sts.replicas, idle |-> "none"]
    /\ req' = [req EXCEPT ![r].stage = "service"]
    /\ \E p \in Entry : served' = [served EXCEPT ![r] = p]
    /\ UNCHANGED <<svc, pods, old, leaseVars, sweep, faults>>

EnsureService(r) ==
    /\ req[r].stage = "service"
    /\ svc' = TRUE
    /\ req' = [req EXCEPT ![r].stage = "list"]
    /\ UNCHANGED <<sts, pods, old, served, leaseVars, sweep, faults>>

(* GetReplicas leaves terminating pods out.                                 *)
AcquireList(r) ==
    /\ req[r].stage = "list"
    /\ req' = [req EXCEPT ![r].stage = "choose", ![r].seen = Live, ![r].ready = Ready]
    /\ UNCHANGED <<kubeVars, served, leaseVars, sweep, faults>>

(* Ready replicas of the listing that can still take a session.             *)
Candidates(r) == {o \in req[r].ready : Pinned(served[r], o) < MaxSessions}

AcquireReuse(r) ==
    /\ req[r].stage = "choose"
    /\ \E o \in Candidates(r) :
          /\ \A k \in Candidates(r) : Pinned(served[r], o) <= Pinned(served[r], k)
          /\ req' = [req EXCEPT ![r] = [At("register") EXCEPT !.ordinal = o]]
    /\ UNCHANGED <<kubeVars, served, leaseVars, sweep, faults>>

\* Mutation: the ceiling is compared with the new count instead of the current one.
AtCapacityOffByOne(r) == Cardinality(req[r].seen) > MaxReplicas

AtCapacity(r) == Cardinality(req[r].seen) >= MaxReplicas

AcquireFull(r) ==
    /\ req[r].stage = "choose" /\ Candidates(r) = {} /\ AtCapacity(r)
    /\ req' = [req EXCEPT ![r] = At("failed")]
    /\ UNCHANGED <<kubeVars, served, leaseVars, sweep, faults>>

(* The new pod's ordinal is the number of pods seen.                        *)
AcquireGrow(r) ==
    /\ req[r].stage = "choose" /\ Candidates(r) = {} /\ ~AtCapacity(r)
    /\ req' = [req EXCEPT ![r] = [At("scale") EXCEPT !.ordinal = Cardinality(req[r].seen)]]
    /\ UNCHANGED <<kubeVars, served, leaseVars, sweep, faults>>

(* ScaleUp writes the absolute target, whatever the count is by now; a      *)
(* StatefulSet deleted meanwhile is an error.                               *)
ScaleUp(r) ==
    /\ req[r].stage = "scale"
    /\ IF sts = Nil
       THEN /\ req' = [req EXCEPT ![r] = At("failed")]
            /\ UNCHANGED sts
       ELSE /\ sts' = [sts EXCEPT !.replicas = req[r].ordinal + 1]
            /\ req' = [req EXCEPT ![r].stage = "wait"]
    /\ UNCHANGED <<svc, pods, old, served, leaseVars, sweep, faults>>

(* WaitForReady reads the Ready condition only: a terminating pod that has  *)
(* not stopped yet passes too.                                              *)
WaitForReady(r) ==
    /\ req[r].stage = "wait" /\ pods[req[r].ordinal] \in {"ready", "terminating"}
    /\ req' = [req EXCEPT ![r].stage = "register"]
    /\ UNCHANGED <<kubeVars, served, leaseVars, sweep, faults>>

(* The 5 minutes of WaitForReady are over; the replica count stays raised.  *)
WaitTimeout(r) ==
    /\ req[r].stage = "wait" /\ pods[req[r].ordinal] # "ready"
    /\ req' = [req EXCEPT ![r] = At("failed")]
    /\ UNCHANGED <<kubeVars, served, leaseVars, sweep, faults>>

(* handleEngines registers the lease once the certificate is minted.  An    *)
(* error of the registration leaves it in the store of this pod alone, or   *)
(* committed after all.                                                     *)
Register(r) ==
    /\ req[r].stage = "register"
    /\ pin' = [pin EXCEPT ![r] = req[r].ordinal]
    /\ rows' = [rows EXCEPT ![served[r]] = @ \cup {r}]
    /\ \/ /\ logged' = logged \cup {r}
          /\ \E late \in BOOLEAN :
                lag' = [p \in Supervisors |->
                          IF p = served[r] /\ ~late THEN lag[p] ELSE lag[p] \cup {r}]
       \/ UNCHANGED <<logged, lag>>
    /\ req' = [req EXCEPT ![r] = At("held")]
    /\ UNCHANGED <<kubeVars, served, sweep, faults>>

(* The client of the lease is gone.                                         *)
Leave(r) ==
    /\ req[r].stage = "held"
    /\ req' = [req EXCEPT ![r] = At("done")]
    /\ UNCHANGED <<kubeVars, served, leaseVars, sweep, faults>>

(* An API call of Acquire, or the certificate, fails: 429 or 500.           *)
AcquireError(r) ==
    /\ faults < MaxFaults /\ req[r].stage \in Acquiring
    /\ faults' = faults + 1
    /\ req' = [req EXCEPT ![r] = At("failed")]
    /\ UNCHANGED <<kubeVars, served, leaseVars, sweep>>

-----------------------------------------------------------------------------
(* The lease store of a pod.                                                *)

(* ApplySessionRegistered.                                                  *)
Apply(p, r) ==
    /\ r \in lag[p]
    /\ lag' = [lag EXCEPT ![p] = @ \ {r}]
    /\ rows' = [rows EXCEPT ![p] = @ \cup {r}]
    /\ UNCHANGED <<kubeVars, req, served, pin, logged, sweep, faults>>

(* ReapOrphans: the lease was not touched for session_ttl, which can happen *)
(* to a client that is still there but idle.                                *)
Reap(p, r) ==
    /\ r \in rows[p]
    /\ rows' = [rows EXCEPT ![p] = @ \ {r}]
    /\ sweep' = [sweep EXCEPT ![p].held = @ \ {r}]
    /\ UNCHANGED <<kubeVars, req, served, pin, lag, logged, faults>>

(* The pod restarts: its requests and its pass die, and its store is what   *)
(* the part of the Raft log after its snapshot still registers.             *)
Restart(p) ==
    /\ faults < MaxFaults
    /\ faults' = faults + 1
    /\ rows' = [rows EXCEPT ![p] = {}]
    /\ \E replayed \in SUBSET logged : lag' = [lag EXCEPT ![p] = replayed]
    /\ req' = [r \in Requests |->
                 IF served[r] = p /\ req[r].stage \in Acquiring THEN At("failed") ELSE req[r]]
    /\ sweep' = [sweep EXCEPT ![p] = IdleSweep]
    /\ UNCHANGED <<kubeVars, served, pin, logged>>

-----------------------------------------------------------------------------
(* Manager.sweepVersion.  held is a history component: the leases that have *)
(* been in the sweeping pod's store since its pass began.                   *)

SweepList(s) ==
    /\ sweep[s].stage = "idle" /\ sts # Nil
    /\ sweep' = [sweep EXCEPT ![s] = [stage |-> "pick", some |-> Live # {}, aged |-> old \cap Live,
                                      target |-> 0, held |-> rows[s]]]
    /\ UNCHANGED <<kubeVars, req, served, leaseVars, faults>>

Removable(s) == {o \in sweep[s].aged : Pinned(s, o) = 0}

(* At most one replica is taken per pass.                                   *)
SweepPick(s) ==
    /\ sweep[s].stage = "pick"
    /\ sweep' = [sweep EXCEPT ![s].stage = IF Removable(s) # {} THEN "down" ELSE "retention",
                              ![s].aged = {}]
    /\ UNCHANGED <<kubeVars, req, served, leaseVars, faults>>

(* ScaleDown ignores the ordinal it is given and reads the current count.   *)
ScaleDownGet(s) ==
    /\ sweep[s].stage = "down"
    /\ sweep' = [sweep EXCEPT ![s] =
         IF sts = Nil THEN IdleSweep
         ELSE IF sts.replicas = 0 THEN [@ EXCEPT !.stage = "retention"]
         ELSE [@ EXCEPT !.stage = "set", !.target = sts.replicas - 1]]
    /\ UNCHANGED <<kubeVars, req, served, leaseVars, faults>>

ScaleDownSet(s) ==
    /\ sweep[s].stage = "set"
    /\ IF sts = Nil
       THEN /\ sweep' = [sweep EXCEPT ![s] = IdleSweep]
            /\ UNCHANGED sts
       ELSE /\ sts' = [sts EXCEPT !.replicas = sweep[s].target]
            /\ sweep' = [sweep EXCEPT ![s].stage = "retention", ![s].target = 0]
    /\ UNCHANGED <<svc, pods, old, req, served, leaseVars, faults>>

\* Mutation: a version is collected whatever leases still name it.
VersionPinnedUnchecked(p) == FALSE

VersionPinned(p) == rows[p] # {}

SweepRetention(s) ==
    /\ sweep[s].stage = "retention"
    /\ sweep' = [sweep EXCEPT ![s] =
         IF ~Retention THEN IdleSweep
         ELSE IF sweep[s].some \/ VersionPinned(s) THEN [IdleSweep EXCEPT !.stage = "clear"]
         ELSE [@ EXCEPT !.stage = "gc"]]
    /\ UNCHANGED <<kubeVars, req, served, leaseVars, faults>>

ClearIdleSince(s) ==
    /\ sweep[s].stage = "clear"
    /\ sts' = IF sts = Nil THEN Nil ELSE [sts EXCEPT !.idle = "none"]
    /\ sweep' = [sweep EXCEPT ![s] = IdleSweep]
    /\ UNCHANGED <<svc, pods, old, req, served, leaseVars, faults>>

(* VersionIdleSince: a missing StatefulSet reads as not stamped.            *)
GcIdleVersion(s) ==
    /\ sweep[s].stage = "gc"
    /\ sweep' = [sweep EXCEPT ![s] =
         IF sts = Nil \/ sts.idle = "none" THEN [IdleSweep EXCEPT !.stage = "stamp"]
         ELSE IF sts.idle = "fresh" THEN IdleSweep
         ELSE [@ EXCEPT !.stage = "delsvc"]]
    /\ UNCHANGED <<kubeVars, req, served, leaseVars, faults>>

\* Mutation: the first idle observation is not recorded.
StampForgotten == sts

Stamped == IF sts = Nil THEN Nil ELSE [sts EXCEPT !.idle = "fresh"]

SetIdleSince(s) ==
    /\ sweep[s].stage = "stamp"
    /\ sts' = Stamped
    /\ sweep' = [sweep EXCEPT ![s] = IdleSweep]
    /\ UNCHANGED <<svc, pods, old, req, served, leaseVars, faults>>

DeleteService(s) ==
    /\ sweep[s].stage = "delsvc"
    /\ svc' = FALSE
    /\ sweep' = [sweep EXCEPT ![s].stage = "delsts"]
    /\ UNCHANGED <<sts, pods, old, req, served, leaseVars, faults>>

(* The pods of a deleted StatefulSet are deleted with it.                   *)
DeleteStatefulSet(s) ==
    /\ sweep[s].stage = "delsts"
    /\ sts' = Nil
    /\ pods' = [o \in Ordinals |-> IF o \in Live THEN "terminating" ELSE pods[o]]
    /\ sweep' = [sweep EXCEPT ![s] = IdleSweep]
    /\ UNCHANGED <<svc, old, req, served, leaseVars, faults>>

(* Any call of the pass fails: the error is logged and the pass abandoned.  *)
SweepError(s) ==
    /\ faults < MaxFaults /\ sweep[s].stage # "idle"
    /\ faults' = faults + 1
    /\ sweep' = [sweep EXCEPT ![s] = IdleSweep]
    /\ UNCHANGED <<kubeVars, req, served, leaseVars>>

-----------------------------------------------------------------------------
(* Time and the StatefulSet controller.                                     *)

GrowOld(o) ==
    /\ o \in Live /\ o \notin old
    /\ old' = old \cup {o}
    /\ UNCHANGED <<sts, svc, pods, req, served, leaseVars, sweep, faults>>

RetentionElapses ==
    /\ sts # Nil /\ sts.idle = "fresh"
    /\ sts' = [sts EXCEPT !.idle = "due"]
    /\ UNCHANGED <<svc, pods, old, req, served, leaseVars, sweep, faults>>

PodStep(o, from, to) ==
    /\ pods[o] = from
    /\ pods' = [pods EXCEPT ![o] = to]
    /\ old' = old \ {o}
    /\ UNCHANGED <<sts, svc, req, served, leaseVars, sweep>>

PodCreate(o) ==
    /\ sts # Nil /\ o < sts.replicas
    /\ PodStep(o, "absent", "starting") /\ UNCHANGED faults

PodReady(o) ==
    /\ pods[o] = "starting"
    /\ pods' = [pods EXCEPT ![o] = "ready"]
    /\ UNCHANGED <<sts, svc, old, req, served, leaseVars, sweep, faults>>

PodStop(o) ==
    /\ sts # Nil /\ o >= sts.replicas
    /\ PodStep(o, "starting", "terminating") \/ PodStep(o, "ready", "terminating")
    /\ UNCHANGED faults

PodGone(o) == PodStep(o, "terminating", "absent") /\ UNCHANGED faults

(* A pod is evicted or its node is lost.                                    *)
PodLost(o) ==
    /\ faults < MaxFaults
    /\ PodStep(o, "ready", "terminating")
    /\ faults' = faults + 1

-----------------------------------------------------------------------------
AcquireStep(r) ==
    \/ EnsureService(r) \/ AcquireList(r) \/ AcquireReuse(r) \/ AcquireFull(r)
    \/ AcquireGrow(r) \/ ScaleUp(r) \/ WaitForReady(r) \/ WaitTimeout(r) \/ Register(r)

SweepStep(s) ==
    \/ SweepList(s) \/ SweepPick(s) \/ ScaleDownGet(s) \/ ScaleDownSet(s)
    \/ SweepRetention(s) \/ ClearIdleSince(s) \/ GcIdleVersion(s) \/ SetIdleSince(s)
    \/ DeleteService(s) \/ DeleteStatefulSet(s)

Controller(o) == PodCreate(o) \/ PodReady(o) \/ PodStop(o) \/ PodGone(o)

Next ==
    \/ \E r \in Requests :
          EnsureStatefulSet(r) \/ AcquireStep(r) \/ Leave(r) \/ AcquireError(r)
    \/ \E p \in Supervisors :
          \/ SweepStep(p) \/ SweepError(p) \/ Restart(p)
          \/ \E r \in Requests : Apply(p, r) \/ Reap(p, r)
    \/ \E o \in Ordinals : Controller(o) \/ PodLost(o) \/ GrowOld(o)
    \/ RetentionElapses

Spec == Init /\ [][Next]_vars

(* The sweep ticker fires on every pod, the Raft log is applied and the     *)
(* leases without a client reaped, the controller reconciles, time passes.  *)
Fairness ==
    /\ \A p \in Supervisors : WF_vars(SweepStep(p))
    /\ \A p \in Supervisors, r \in Requests :
          WF_vars(Apply(p, r)) /\ WF_vars(req[r].stage # "held" /\ Reap(p, r))
    /\ \A o \in Ordinals : WF_vars(Controller(o)) /\ WF_vars(GrowOld(o))
    /\ WF_vars(RetentionElapses)

FairSpec == Spec /\ Fairness

-----------------------------------------------------------------------------
(* Properties.                                                              *)

(* ADR-004: "idle replicas (no in-flight sessions for replica_idle_ttl) are *)
(* removed": a scale-down never takes the pod of a lease that was in the    *)
(* sweeping pod's own store all through the pass.                           *)
SweepSparesPinned ==
    [][\A s \in Supervisors : ScaleDownSet(s) /\ sts # Nil
          => \A r \in sweep[s].held :
                pin[r] < sts.replicas => pin[r] < sts'.replicas]_vars

(* The sweep of a pod never deletes the version under a lease that its own  *)
(* store has held since the pass began, even when the lease's engine pod is *)
(* gone: versionHasPinnedSessions postpones the collection.  What the docs  *)
(* say, "no pinned sessions", is more than the code keeps: a lease that the *)
(* sweeping pod has not applied, lost in a restart or reaped, or that is    *)
(* registered once the check is made, does not stop the deletion.           *)
GcSparesHeld ==
    [][\A s \in Supervisors : DeleteStatefulSet(s) => sweep[s].held = {}]_vars

Quiet == \A r \in Requests : req[r].stage \in {"idle", "done", "failed"}

(* Once nobody asks for the version or holds a lease on it, its replicas    *)
(* are scaled down one by one, the idle clock runs and the StatefulSet is   *)
(* deleted for good, whatever calls failed on the way, whichever pods sweep *)
(* at the same time and whatever leases each of them knows.                 *)
IdleCollected == (<>[]Quiet) => <>[](sts = Nil)
=============================================================================
