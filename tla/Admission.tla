----------------------------- MODULE Admission -----------------------------
(***************************************************************************)
(* How an engine is provisioned and reached through several supervisor     *)
(* pods: leaderForward sends a mutating request to the pod believed to     *)
(* lead, handleEngines checks the group quota, takes an engine replica and *)
(* registers a lease through Raft, and the data tunnel of that lease is    *)
(* relayed to the leader.                                                  *)
(*                                                                         *)
(* Every pod keeps its own copy of the leases (service/session.go), fed by *)
(* the log of registrations.  Leases are in the log but not in a snapshot: *)
(* what a pod skips by restoring one it never learns.  A lease is named by *)
(* the order of its registration.  Scaling up belongs to EngineFleet,      *)
(* heartbeats and expiry to PipelineLifecycle: here a client dials within  *)
(* its lease's TTL and its session is over when it says so.                *)
(***************************************************************************)
EXTENDS Absent, Naturals, Sequences, FiniteSets

CONSTANTS
    AdmPods,
    AdmSlots,       \* provision requests that may be in progress at a time
    AdmUsers,
    AdmAdmins,      \* users that bypass the quota
    AdmGroups,
    MembersOf,      \* MembersOf[g]: the users of group g
    AgentAvailable, \* the groups that may use engines
    Quota,          \* Quota[g]: max_runner_sessions, 0 for unlimited
    MaxLeases,      \* bound on registrations
    MaxAdmFaults    \* bound on elections and restarts together

ASSUME AdmAssumption ==
    /\ AdmPods # {} /\ IsFiniteSet(AdmSlots) /\ AdmAdmins \subseteq AdmUsers
    /\ MembersOf \in [AdmGroups -> SUBSET AdmUsers]
    /\ AgentAvailable \subseteq AdmGroups /\ Quota \in [AdmGroups -> Nat]
    /\ MaxLeases \in Nat /\ MaxAdmFaults \in Nat

VARIABLES
    admLeader,  \* the pod whose applies commit
    believes,   \* believes[p]: the leader pod p knows of
    leases,     \* every session so far: its user and whether its tunnel was
                \* served; Nil once it is over
    sessionLog, \* the committed registrations
    sessionsAt, \* sessionsAt[p]: how much of sessionLog p has applied
    known,      \* known[p]: the leases in p's session store
    skipped,    \* skipped[p]: registrations p restored over instead of applying
    prov,       \* the provision requests
    unseen,     \* live leases some admission did not see
    admFaults

admVars == <<admLeader, believes, leases, sessionLog, sessionsAt, known, skipped,
             prov, unseen, admFaults>>
replicas == <<sessionLog, sessionsAt, known, skipped>>

Certs == 1 .. MaxLeases
LeaseRow == [user: AdmUsers, served: BOOLEAN]
NoProvision == [stage |-> "idle", pod |-> Nil, user |-> Nil]
Provision == [stage: {"idle", "check", "acquire", "register"}, pod: AdmPods \cup {Nil},
              user: AdmUsers \cup {Nil}]

ASSUME NilNotLease == Nil \notin LeaseRow

Live == {c \in DOMAIN leases : leases[c] # Nil}

(* Every pod has applied a prefix of the log and knows only leases that     *)
(* are not over.                                                            *)
AdmTypeOK ==
    /\ admLeader \in AdmPods /\ believes \in [AdmPods -> AdmPods]
    /\ leases \in Seq(LeaseRow \cup {Nil}) /\ Len(leases) <= MaxLeases
    /\ sessionLog \in Seq(DOMAIN leases)
    /\ \A p \in AdmPods :
         /\ sessionsAt[p] \in 0 .. Len(sessionLog)
         /\ known[p] \subseteq Live /\ skipped[p] \subseteq DOMAIN leases
    /\ prov \in [AdmSlots -> Provision]
    /\ unseen \subseteq DOMAIN leases /\ admFaults \in 0 .. MaxAdmFaults

AdmInit ==
    /\ admLeader \in AdmPods
    /\ believes = [p \in AdmPods |-> admLeader]
    /\ leases = <<>> /\ sessionLog = <<>>
    /\ sessionsAt = [p \in AdmPods |-> 0]
    /\ known = [p \in AdmPods |-> {}] /\ skipped = [p \in AdmPods |-> {}]
    /\ prov = [s \in AdmSlots |-> NoProvision]
    /\ unseen = {} /\ admFaults = 0

-----------------------------------------------------------------------------
(* leader_forward.go: the middleware.                                       *)

Finish(s) == prov' = [prov EXCEPT ![s] = NoProvision]

(* POST /v1/engines reaches pod p through the load-balanced Service.  The   *)
(* middleware serves it there if p believes to lead and forwards it once    *)
(* otherwise: the pod that receives the forwarded request serves it whether *)
(* or not it still leads.                                                   *)
LeaderForward(s, p, u) ==
    /\ prov[s].stage = "idle" /\ Len(leases) < MaxLeases
    /\ prov' = [prov EXCEPT ![s] = [stage |-> "check", pod |-> believes[p], user |-> u]]
    /\ UNCHANGED <<admLeader, believes, leases, replicas, unseen, admFaults>>

-----------------------------------------------------------------------------
(* handleEngines: the quota gate, the placement and the registration, each  *)
(* on the serving pod's copy of the leases.                                 *)

Usage(p, g) == Cardinality({c \in known[p] : leases[c].user \in MembersOf[g]})

(* Mutant of QuotaAdmits: the last session counted is let through.          *)
QuotaAdmitsOneMore(p, u) ==
    \/ u \in AdmAdmins
    \/ \E g \in AgentAvailable :
         u \in MembersOf[g] /\ (Quota[g] = 0 \/ Usage(p, g) <= Quota[g])

(* Any available group with room admits; a user without groups, or whose    *)
(* groups are all unavailable, is refused.                                  *)
QuotaAdmits(p, u) ==
    \/ u \in AdmAdmins
    \/ \E g \in AgentAvailable :
         u \in MembersOf[g] /\ (Quota[g] = 0 \/ Usage(p, g) < Quota[g])

CheckEngineAccess(s) ==
    LET p == prov[s].pod IN
    /\ prov[s].stage = "check"
    /\ IF QuotaAdmits(p, prov[s].user)
       THEN /\ prov' = [prov EXCEPT ![s].stage = "acquire"]
            /\ unseen' = unseen \cup (Live \ known[p])
       ELSE Finish(s) /\ UNCHANGED unseen
    /\ UNCHANGED <<admLeader, believes, leases, replicas, admFaults>>

(* Acquire returns a replica, now or after scaling up, or fails (module     *)
(* EngineFleet).                                                            *)
AcquireReplica(s) ==
    /\ prov[s].stage = "acquire"
    /\ prov' = [prov EXCEPT ![s].stage = "register"] \/ Finish(s)
    /\ UNCHANGED <<admLeader, believes, leases, replicas, unseen, admFaults>>

NewSession(s) == [user |-> prov[s].user, served |-> FALSE]
NewCert == Len(leases) + 1

(* The leader commits the registration and applies it to its own store.     *)
(* The answer is sent with the step.                                        *)
RegisterSession(s) ==
    LET p == prov[s].pod IN
    /\ prov[s].stage = "register" /\ Len(leases) < MaxLeases
    /\ p = admLeader /\ sessionsAt[p] = Len(sessionLog)
    /\ leases' = Append(leases, NewSession(s))
    /\ sessionLog' = Append(sessionLog, NewCert)
    /\ sessionsAt' = [sessionsAt EXCEPT ![p] = @ + 1]
    /\ known' = [known EXCEPT ![p] = @ \cup {NewCert}]
    /\ Finish(s)
    /\ UNCHANGED <<admLeader, believes, skipped, unseen, admFaults>>

(* The apply fails on a pod that no longer leads: the lease is kept in its  *)
(* own store alone and the client is answered 201 all the same.             *)
RegisterLocally(s) ==
    LET p == prov[s].pod IN
    /\ prov[s].stage = "register" /\ Len(leases) < MaxLeases
    /\ p # admLeader
    /\ leases' = Append(leases, NewSession(s))
    /\ known' = [known EXCEPT ![p] = @ \cup {NewCert}]
    /\ Finish(s)
    /\ UNCHANGED <<admLeader, believes, sessionLog, sessionsAt, skipped, unseen, admFaults>>

(* The bound on registrations is reached while this request was on its way. *)
GiveUpProvision(s) ==
    /\ prov[s].stage = "register" /\ Len(leases) = MaxLeases
    /\ Finish(s)
    /\ UNCHANGED <<admLeader, believes, leases, replicas, unseen, admFaults>>

-----------------------------------------------------------------------------
(* The copies of the leases (fsm.go applySessionCommand, session.go).       *)

(* Mutant of ApplySession: the state adopted from a snapshot has lost the   *)
(* session sink and applies registrations to nothing.                       *)
ApplySessionNoSink(p) ==
    /\ sessionsAt[p] < Len(sessionLog)
    /\ sessionsAt' = [sessionsAt EXCEPT ![p] = @ + 1]
    /\ UNCHANGED <<admLeader, believes, leases, sessionLog, known, skipped, prov,
                   unseen, admFaults>>

ApplySession(p) ==
    /\ sessionsAt[p] < Len(sessionLog)
    /\ sessionsAt' = [sessionsAt EXCEPT ![p] = @ + 1]
    /\ known' = [known EXCEPT ![p] = @ \cup ({sessionLog[sessionsAt[p] + 1]} \cap Live)]
    /\ UNCHANGED <<admLeader, believes, leases, sessionLog, skipped, prov,
                   unseen, admFaults>>

Entries(from, to) == {sessionLog[i] : i \in from + 1 .. to}

(* A follower far behind is sent the leader's snapshot; adopt replaces the  *)
(* FSM's maps and leaves the session store as it is.                        *)
InstallSnapshot(p) ==
    /\ p # admLeader
    /\ \E n \in sessionsAt[p] + 1 .. sessionsAt[admLeader] :
         /\ sessionsAt' = [sessionsAt EXCEPT ![p] = n]
         /\ skipped' = [skipped EXCEPT ![p] = @ \cup Entries(sessionsAt[p], n)]
    /\ UNCHANGED <<admLeader, believes, leases, sessionLog, known, prov, unseen, admFaults>>

-----------------------------------------------------------------------------
(* The data plane (server.go, data_relay.go) and the life of a session.     *)

(* The pod a tunnel accepted on p reaches: p itself if it believes to lead, *)
(* otherwise the pod it relays to, which refuses unless it believes to lead.*)
TunnelTarget(p) == IF believes[believes[p]] = believes[p] THEN believes[p] ELSE Nil

(* A connection that is refused changes nothing; the CLI dials again.       *)
DialData(c, p) ==
    LET t == TunnelTarget(p) IN
    /\ c \in Live /\ ~leases[c].served
    /\ t # Nil /\ c \in known[t]
    /\ leases' = [leases EXCEPT ![c].served = TRUE]
    /\ UNCHANGED <<admLeader, believes, replicas, prov, unseen, admFaults>>

(* A session is over and every pod's ReapOrphans drops its lease; a pod     *)
(* whose clock is late counts it a little longer.                           *)
EndSession(c) ==
    /\ c \in Live
    /\ leases' = [leases EXCEPT ![c] = Nil]
    /\ known' = [p \in AdmPods |-> known[p] \ {c}]
    /\ unseen' = unseen \ {c}
    /\ UNCHANGED <<admLeader, believes, sessionLog, sessionsAt, skipped, prov, admFaults>>

-----------------------------------------------------------------------------
(* Raft, external: elections, what pods learn of them, restarts.            *)

Elect(p) ==
    /\ admFaults < MaxAdmFaults /\ p # admLeader
    /\ admLeader' = p
    /\ believes' = [believes EXCEPT ![p] = p]
    /\ admFaults' = admFaults + 1
    /\ UNCHANGED <<leases, replicas, prov, unseen>>

LearnLeader(p) ==
    /\ believes[p] # admLeader
    /\ believes' = [believes EXCEPT ![p] = admLeader]
    /\ UNCHANGED <<admLeader, leases, replicas, prov, unseen, admFaults>>

(* A pod that does not lead restarts: its session store is empty, its FSM   *)
(* is restored from its last snapshot, which stands for n registrations,    *)
(* and the log behind it is applied again.                                  *)
RestartPod(p) ==
    /\ admFaults < MaxAdmFaults /\ p # admLeader
    /\ known' = [known EXCEPT ![p] = {}]
    /\ \E n \in 0 .. sessionsAt[p] :
         /\ skipped[p] \subseteq Entries(0, n)
         /\ sessionsAt' = [sessionsAt EXCEPT ![p] = n]
         /\ skipped' = [skipped EXCEPT ![p] = Entries(0, n)]
    /\ believes' = [believes EXCEPT ![p] = admLeader]
    /\ prov' = [s \in AdmSlots |-> IF prov[s].pod = p THEN NoProvision ELSE prov[s]]
    /\ admFaults' = admFaults + 1
    /\ UNCHANGED <<admLeader, leases, sessionLog, unseen>>

-----------------------------------------------------------------------------
ProvisionStep(s) ==
    \/ CheckEngineAccess(s) \/ AcquireReplica(s)
    \/ RegisterSession(s) \/ RegisterLocally(s) \/ GiveUpProvision(s)

AdmNext ==
    \/ \E s \in AdmSlots : ProvisionStep(s)
    \/ \E s \in AdmSlots, p \in AdmPods, u \in AdmUsers : LeaderForward(s, p, u)
    \/ \E p \in AdmPods : ApplySession(p) \/ InstallSnapshot(p)
    \/ \E p \in AdmPods : Elect(p) \/ LearnLeader(p) \/ RestartPod(p)
    \/ \E c \in DOMAIN leases : EndSession(c)
    \/ \E c \in DOMAIN leases, p \in AdmPods : DialData(c, p)

(* Handlers and the Raft library run on, the CLI dials until it is served.  *)
AdmFairness ==
    /\ \A s \in AdmSlots : WF_admVars(ProvisionStep(s))
    /\ \A p \in AdmPods : WF_admVars(ApplySession(p)) /\ WF_admVars(LearnLeader(p))
    /\ \A c \in Certs : WF_admVars(\E p \in AdmPods : DialData(c, p))

AdmSpec == AdmInit /\ [][AdmNext]_admVars /\ AdmFairness

-----------------------------------------------------------------------------
(* Requests that cannot see each other, and leases a pod has not applied or *)
(* has lost, are the only ways past the quota: a group whose members are in *)
(* no other group never has more than its quota of live sessions, plus one  *)
(* for each other request in progress, plus the sessions some admission did *)
(* not see.  CheckEngineAccess counts before Register.                      *)
AdmQuotaBounded ==
    \A g \in AdmGroups :
      LET own  == {c \in Live : leases[c].user \in MembersOf[g] \ AdmAdmins}
          sole == \A h \in AgentAvailable \ {g} : MembersOf[g] \cap MembersOf[h] = {}
      IN  (Quota[g] > 0 /\ sole) =>
             Cardinality(own) <= Quota[g] + (Cardinality(AdmSlots) - 1) + Cardinality(unseen \cap own)

(* A replicated lease can be used from wherever its tunnel lands: once      *)
(* leadership has settled the client is served, unless the session ended    *)
(* or the pod that leads restored a snapshot over the registration.         *)
AdmTunnelServed ==
    <>[](\A c \in Entries(0, Len(sessionLog)) :
           c \in Live => leases[c].served \/ c \in skipped[admLeader])
=============================================================================
