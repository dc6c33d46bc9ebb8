----------------------------- MODULE MCServices -----------------------------
(* The components of the supervisor that share no variables, each explored   *)
(* on its own from its own initial states: active says which one runs, and   *)
(* the others stay where they began.                                         *)
EXTENDS CLICache, HistoryRetention, CachePurge, LiveStream, Revalidation, Admission,
        ImageCache, RaftMembership, SupervisorBoot, SessionRevocation,
        GroupService, Attribution, StepStream, TLC

CONSTANT Components     \* the components a run explores

VARIABLE active

MCMembersOf == [g \in AdmGroups |-> AdmUsers]
MCQuota == [g \in AdmGroups |-> 1]
MCRuleFor == [p \in AttrRepos |-> IF p = "ruled" THEN 2 ELSE Nil]
MCShapes == {[parent  |-> [s \in Spans |-> s - 1],
              folded  |-> f,
              outcome |-> [s \in Spans |-> IF s = 2 THEN "success" ELSE "failed"]] :
                f \in {{}, {2}}}
MCLogRecords == {[span |-> s, ts |-> 1, line |-> "x"] : s \in Spans \ {1}}
MCMatchedBy == [p \in AttrRepos |-> IF p = "ruled" THEN {1} ELSE {1, 2}]

vars == <<active, cliVars, histVars, purgeVars, liveVars, revVars, admVars, imgVars, memVars,
          bootVars, sessVars, grpVars, attrVars, stepVars>>

(* A component that does not run has one initial state.  Pods of one kind    *)
(* are alike, so one of them leads first.  A user from before the upgrade    *)
(* is explored with OIDC on the leader and GitHub on the leader, where role  *)
(* makes no difference.                                                      *)
Init ==
    /\ active \in Components
    /\ CliInit /\ (active # "cli" => published = {})
    /\ HistInit /\ histLeader = CHOOSE p \in HistPods : TRUE
    /\ PurgeInit /\ LiveInit
    /\ RevInit
    /\ preUpgrade => oauthProvider = "oidc" /\ leads
    /\ oauthProvider = "github" => leads
    /\ active # "revalidation" => oauthProvider = "oidc" /\ leads /\ ~preUpgrade
    /\ AdmInit /\ admLeader = CHOOSE p \in AdmPods : TRUE
    /\ ImgInit /\ (active # "images" => deletes /\ \A t \in Tags : tagged[t] = Nil)
    /\ MemInit /\ (active # "membership" => tls /\ \A n \in Sizes : size <= n)
    /\ BootInit /\ bootLeader = CHOOSE p \in BootPods : TRUE
    /\ SessInit
    /\ GrpInit /\ (active # "groups" => nextGroup = 1)
    /\ AttrInit
    /\ StepInit /\ (active # "steps" => shape.folded = {})

Next ==
    \/ /\ active = "cli" /\ CliNext
       /\ UNCHANGED <<active, histVars, purgeVars, liveVars, revVars, admVars, imgVars, memVars,
                      bootVars, sessVars, grpVars, attrVars, stepVars>>
    \/ /\ active = "history" /\ HistNext
       /\ UNCHANGED <<active, cliVars, purgeVars, liveVars, revVars, admVars, imgVars, memVars,
                      bootVars, sessVars, grpVars, attrVars, stepVars>>
    \/ /\ active = "purge" /\ PurgeNext
       /\ UNCHANGED <<active, cliVars, histVars, liveVars, revVars, admVars, imgVars, memVars,
                      bootVars, sessVars, grpVars, attrVars, stepVars>>
    \/ /\ active = "live" /\ LiveNext
       /\ UNCHANGED <<active, cliVars, histVars, purgeVars, revVars, admVars, imgVars, memVars,
                      bootVars, sessVars, grpVars, attrVars, stepVars>>
    \/ /\ active = "revalidation" /\ RevNext
       /\ UNCHANGED <<active, cliVars, histVars, purgeVars, liveVars, admVars, imgVars, memVars,
                      bootVars, sessVars, grpVars, attrVars, stepVars>>
    \/ /\ active = "admission" /\ AdmNext
       /\ UNCHANGED <<active, cliVars, histVars, purgeVars, liveVars, revVars, imgVars, memVars,
                      bootVars, sessVars, grpVars, attrVars, stepVars>>
    \/ /\ active = "images" /\ ImgNext
       /\ UNCHANGED <<active, cliVars, histVars, purgeVars, liveVars, revVars, admVars, memVars,
                      bootVars, sessVars, grpVars, attrVars, stepVars>>
    \/ /\ active = "membership" /\ MemNext
       /\ UNCHANGED <<active, cliVars, histVars, purgeVars, liveVars, revVars, admVars, imgVars,
                      bootVars, sessVars, grpVars, attrVars, stepVars>>
    \/ /\ active = "boot" /\ BootNext
       /\ UNCHANGED <<active, cliVars, histVars, purgeVars, liveVars, revVars, admVars, imgVars,
                      memVars, sessVars, grpVars, attrVars, stepVars>>
    \/ /\ active = "sessions" /\ SessNext
       /\ UNCHANGED <<active, cliVars, histVars, purgeVars, liveVars, revVars, admVars, imgVars,
                      memVars, bootVars, grpVars, attrVars, stepVars>>
    \/ /\ active = "groups" /\ GrpNext
       /\ UNCHANGED <<active, cliVars, histVars, purgeVars, liveVars, revVars, admVars, imgVars,
                      memVars, bootVars, sessVars, attrVars, stepVars>>
    \/ /\ active = "attribution" /\ AttrNext
       /\ UNCHANGED <<active, cliVars, histVars, purgeVars, liveVars, revVars, admVars, imgVars,
                      memVars, bootVars, sessVars, grpVars, stepVars>>
    \/ /\ active = "steps" /\ StepNext
       /\ UNCHANGED <<active, cliVars, histVars, purgeVars, liveVars, revVars, admVars, imgVars,
                      memVars, bootVars, sessVars, grpVars, attrVars>>

(* The fairness of each module's own specification, for the one that runs.   *)
Fairness ==
    /\ \A r \in CliRequests : WF_cliVars(active = "cli" /\ CliStep(r))
    /\ \A p \in HistPods :
          /\ WF_histVars(active = "history" /\ PurgeStep(p))
          /\ SF_histVars(active = "history" /\ RunGC(p))
          /\ WF_histVars(active = "history" /\ Replay(p))
    /\ \A v \in PurgeVersions : WF_purgeVars(active = "purge" /\ PurgeRunStep(v))
    /\ \A c \in LiveClients :
          /\ WF_liveVars(active = "live" /\ StreamStep(c))
          /\ WF_liveVars(active = "live" /\ PageRefetch(c))
          /\ WF_liveVars(active = "live" /\ Poll(c))
    /\ \A i \in Ingests : WF_liveVars(active = "live" /\ IngestStep(i))
    /\ \A r \in RevRequests :
          /\ WF_revVars(active = "revalidation" /\ RevStep(r))
          /\ SF_revVars(active = "revalidation" /\ ServeCached(r))
    /\ \A s \in AdmSlots : WF_admVars(active = "admission" /\ ProvisionStep(s))
    /\ \A p \in AdmPods :
          /\ WF_admVars(active = "admission" /\ ApplySession(p))
          /\ WF_admVars(active = "admission" /\ LearnLeader(p))
    /\ \A c \in Certs : WF_admVars(active = "admission" /\ \E p \in AdmPods : DialData(c, p))
    /\ WF_stepPc(active = "steps" /\ WrapperMoves)
    /\ WF_imgVars(active = "images" /\ PruneStep)
    /\ \A p \in Ordinal :
          /\ WF_memVars(active = "membership" /\ StartSupervisor(p))
          /\ WF_memVars(active = "membership" /\ Rollout(p))
    /\ WF_memVars(active = "membership" /\ \E p \in Ordinal : ElectLeader(p))
    /\ WF_memVars(active = "membership" /\ LoseQuorum)
    /\ WF_memVars(active = "membership" /\ ReconcileStep)
    /\ \A p \in BootPods :
          /\ WF_bootVars(active = "boot" /\ PodStep(p))
          /\ WF_bootVars(active = "boot" /\ WaitTimeout(p))
          /\ WF_bootVars(active = "boot" /\ Advance(p))
          /\ WF_bootVars(active = "boot" /\ Apply(p))

Spec == Init /\ [][Next]_vars
FairSpec == Spec /\ Fairness

(* Requests of one kind are interchangeable, and so are passwords.  The      *)
(* components share no state, so one set of values serves the requests of    *)
(* several, and another the passwords, users and traces.                     *)
RequestSymmetry == Permutations(Handlers) \cup Permutations(Passwords)

-----------------------------------------------------------------------------
(* Every component keeps its values in their ranges while it runs: no queue,  *)
(* pool, index or counter passes its limit.                                  *)
ServicesTypeOK ==
    CASE active = "cli" -> CliTypeOK           [] active = "history" -> HistTypeOK
      [] active = "purge" -> PurgeTypeOK       [] active = "live" -> LiveTypeOK
      [] active = "revalidation" -> RevTypeOK  [] active = "admission" -> AdmTypeOK
      [] active = "images" -> ImgTypeOK        [] active = "membership" -> MemTypeOK
      [] active = "boot" -> BootTypeOK         [] active = "sessions" -> SessTypeOK
      [] active = "groups" -> GrpTypeOK        [] active = "attribution" -> AttrTypeOK
      [] active = "steps" -> StepTypeOK

(* RaftMembership's MemConverges: ReconcileMembership is abandoned at any    *)
(* call and taken up by whoever leads next, and still the voters become the  *)
(* pods of the StatefulSet.                                                  *)
VotersConverge == <>[](active = "membership" => Converged)

(* SupervisorBoot's ComesUp: once leadership settles every pod comes up,     *)
(* whatever role it had when it looked.                                      *)
PodsComeUp ==
    (\E p \in BootPods : <>[](bootLeader = p)) => <>[](active = "boot" => AllReady)

(* No request waits for ever: not for another request's fetch or check, not  *)
(* for a purge, a worker or a leader that has failed; and no CI job waits    *)
(* for the end of its step stream.                                           *)
RequestsAnswered == CliAnswered /\ RevAnswered /\ PurgeEnds /\ ImgEnds /\ StepsEnd
=============================================================================
