------------------------ MODULE SupervisorBoot_proofs ------------------------
(* Proofs about SupervisorBoot, for any number of pods, secrets and faults,   *)
(* and about RaftMembership, for any sizes of the StatefulSet, rescales and   *)
(* faults.  The two modules share no state.                                  *)
EXTENDS SupervisorBoot, RaftMembership, SequenceTheorems, FiniteSetTheorems,
        WellFoundedInduction, TLAPS

(* The entry a pod waits for while it is in ms.Set is the secret's, so the    *)
(* value it then signs with is the one it has put in the log.                *)
SetIsSecret == \A p \in BootPods :
    stage[p] = "set" /\ pend[p] # Nil => pend[p].kind = "secret"

IInv == BootTypeOK /\ SetIsSecret /\ SecretReplicated

Replicated(v, l) == \E i \in 1 .. Len(l) : l[i] = [kind |-> "secret", value |-> v]

(* log is only ever left alone or appended to.                               *)
Grows == log' = log \/ \E e \in Entry : log' = Append(log, e)

-----------------------------------------------------------------------------
(* What is in the log stays there.                                           *)
LEMMA LogGrows ==
    ASSUME BootTypeOK, Grows
    PROVE  /\ log' \in Seq(Entry) /\ Len(log') \in Nat /\ Len(log) \in Nat /\ Len(log) <= Len(log')
           /\ \A v : Replicated(v, log) => Replicated(v, log')
<1>0. log \in Seq(Entry) /\ Len(log) \in Nat BY LenProperties DEF BootTypeOK
<1>1. CASE log' = log BY <1>0, <1>1
<1>2. CASE \E e \in Entry : log' = Append(log, e)
  <2>1. PICK e \in Entry : log' = Append(log, e) BY <1>2
  <2>2. log' \in Seq(Entry) /\ Len(log') = Len(log) + 1 /\ \A i \in 1 .. Len(log) : log'[i] = log[i]
    BY <1>0, <2>1, AppendProperties
  <2>3. \A i \in 1 .. Len(log) : i \in 1 .. Len(log') BY <1>0, <2>2
  <2>4. QED BY <1>0, <2>2, <2>3 DEF Replicated
<1>3. QED BY <1>1, <1>2 DEF Grows

(* What Get finds in a pod's state machine is in the log.                    *)
LEMMA FoundIsReplicated ==
    ASSUME BootTypeOK, NEW p \in BootPods, SecretAt(applied[p]) # Nil
    PROVE  SecretAt(applied[p]) \in Values /\ Replicated(SecretAt(applied[p]), log)
<1> DEFINE S == Last(Indices(applied[p], "secret"))
           i == CHOOSE j \in S : TRUE
<1>1. S # {} /\ SecretAt(applied[p]) = log[i].value BY DEF SecretAt, ValueIn
<1>2. i \in S BY <1>1
<1>3. i \in 1 .. applied[p] /\ log[i].kind = "secret" BY <1>2 DEF Last, Indices
<1>4. applied[p] \in 0 .. Len(log) /\ Len(log) \in Nat /\ log \in Seq(Entry)
  BY LenProperties DEF BootTypeOK
<1>5. i \in 1 .. Len(log) BY <1>3, <1>4
<1>6. log[i] \in Entry BY <1>4, <1>5, ElementOfSeq
<1> HIDE DEF i, S
<1>7. log[i].value \in Values BY <1>1, <1>6 DEF Entry
<1>8. log[i] = [kind |-> "secret", value |-> log[i].value] BY <1>3, <1>6 DEF Entry
<1>9. QED BY <1>1, <1>5, <1>7, <1>8 DEF Replicated

-----------------------------------------------------------------------------
(* A step keeps the invariant when it is in the shape below; each action is   *)
(* shown to be.                                                              *)
IndicesOK == /\ commit' \in [BootPods -> 0 .. Len(log')] /\ applied' \in [BootPods -> 0 .. Len(log')]
             /\ \A p \in BootPods : applied'[p] <= commit'[p]

PodsOK == /\ pend' \in [BootPods -> Entry \cup {Nil}]
          /\ stage' \in [BootPods -> Stages]
          /\ file' \in [BootPods -> Values \cup {Nil}]
          /\ bootLeader' \in BootPods /\ bootFaults' \in 0 .. MaxBootFaults

SecretsOK == /\ secret' \in [BootPods -> Values \cup {Nil}]
             /\ \A p \in BootPods : \/ secret'[p] = secret[p] \/ secret'[p] = Nil
                                    \/ Replicated(secret'[p], log')

LEMMA StepKeeps ==
    ASSUME IInv, Grows, IndicesOK, PodsOK, SecretsOK, SetIsSecret'
    PROVE  IInv'
<1>1. log' \in Seq(Entry) /\ \A v : Replicated(v, log) => Replicated(v, log')
  BY LogGrows DEF IInv
<1>2. BootTypeOK' BY <1>1 DEF BootTypeOK, IndicesOK, PodsOK, SecretsOK
<1>3. SecretReplicated'
  <2> SUFFICES ASSUME NEW p \in BootPods, secret'[p] # Nil PROVE Replicated(secret'[p], log')
    BY DEF SecretReplicated, Replicated
  <2>1. CASE secret'[p] = secret[p]
    <3>1. Replicated(secret[p], log) BY <2>1 DEF IInv, SecretReplicated, Replicated
    <3>2. QED BY <1>1, <2>1, <3>1
  <2>2. CASE secret'[p] # secret[p] BY <2>2 DEF SecretsOK
  <2>3. QED BY <2>1, <2>2
<1>4. QED BY <1>2, <1>3 DEF IInv

(* Indices when the log has grown and the pods' own indices were left alone   *)
(* or reset.                                                                 *)
LEMMA IndicesReset ==
    ASSUME BootTypeOK, Grows, NEW p \in BootPods,
           \/ UNCHANGED <<commit, applied>>
           \/ commit' = [commit EXCEPT ![p] = 0] /\ applied' = [applied EXCEPT ![p] = 0]
    PROVE  IndicesOK
<1>1. Len(log') \in Nat /\ Len(log) \in Nat /\ Len(log) <= Len(log') BY LogGrows
<1>2. 0 .. Len(log) \subseteq 0 .. Len(log') /\ 0 \in 0 .. Len(log') BY <1>1
<1>3. CASE UNCHANGED <<commit, applied>> BY <1>2, <1>3 DEF BootTypeOK, IndicesOK
<1>4. CASE commit' = [commit EXCEPT ![p] = 0] /\ applied' = [applied EXCEPT ![p] = 0]
  <2>1. /\ commit' \in [BootPods -> 0 .. Len(log')]
        /\ applied' \in [BootPods -> 0 .. Len(log')]
    BY <1>2, <1>4 DEF BootTypeOK
  <2>2. \A q \in BootPods : applied'[q] <= commit'[q] BY <1>4 DEF BootTypeOK
  <2>3. QED BY <2>1, <2>2 DEF IndicesOK
<1>5. QED BY <1>3, <1>4

(* Indices when raft.Apply has succeeded.                                     *)
LEMMA IndicesCommitted ==
    ASSUME BootTypeOK, NEW p \in BootPods, Committed(p)
    PROVE  IndicesOK /\ Grows
<1>1. pend[p] \in Entry BY DEF BootTypeOK, Committed
<1>2. Grows BY <1>1 DEF Grows, Committed
<1>3. Len(log') \in Nat /\ Len(log) \in Nat /\ Len(log) <= Len(log') BY <1>2, LogGrows
<1>4. IndicesOK BY <1>3 DEF BootTypeOK, IndicesOK, Committed
<1>5. QED BY <1>2, <1>4

LEMMA DeposedGrows ==
    ASSUME BootTypeOK, Deposed PROVE Grows
BY DEF BootTypeOK, Deposed, Grows

(* A pod whose stage becomes s, with its pending entry left alone.            *)
LEMMA StageMoves ==
    ASSUME IInv, NEW p \in BootPods, NEW s \in Stages \ {"set"}, Go(p, s),
           \/ UNCHANGED pend \/ \E e \in Entry \cup {Nil} : pend' = [pend EXCEPT ![p] = e]
    PROVE  /\ SetIsSecret' /\ stage' \in [BootPods -> Stages]
           /\ pend' \in [BootPods -> Entry \cup {Nil}]
BY DEF IInv, BootTypeOK, SetIsSecret, Go

-----------------------------------------------------------------------------
LEMMA RaftKeeps ==
    ASSUME IInv, NEW p \in BootPods, Advance(p) \/ Apply(p)
    PROVE  IInv'
<1>0. Len(log) \in Nat BY LenProperties DEF IInv, BootTypeOK
<1>1. Grows /\ PodsOK /\ SecretsOK BY DEF IInv, BootTypeOK, Grows, PodsOK, SecretsOK, Advance, Apply
<1>2. SetIsSecret' BY DEF IInv, SetIsSecret, Advance, Apply
<1>3. IndicesOK
  <2>1. CASE Advance(p) BY <1>0, <2>1 DEF IInv, BootTypeOK, IndicesOK, Advance
  <2>2. CASE Apply(p) BY <1>0, <2>2 DEF IInv, BootTypeOK, IndicesOK, Apply
  <2>3. QED BY <2>1, <2>2
<1>4. QED BY <1>1, <1>2, <1>3, StepKeeps

(* Steps that only move a pod on.                                             *)
LEMMA MovesKeep ==
    ASSUME IInv, NEW p \in BootPods,
           WaitForCleanState(p) \/ ResolveJWTSecret(p) \/ CountUsers(p)
    PROVE  IInv'
<1>1. Grows /\ SecretsOK
  BY DEF IInv, BootTypeOK, Grows, SecretsOK, WaitForCleanState, ResolveJWTSecret, CountUsers, raftVars
<1>2. IndicesOK
  BY <1>1, IndicesReset DEF IInv, WaitForCleanState, ResolveJWTSecret, CountUsers, raftVars
<1>3. PICK s \in Stages \ {"set"} : Go(p, s)
  BY DEF Stages, WaitForCleanState, ResolveJWTSecret, CountUsers
<1>4. UNCHANGED <<pend, file, bootFaults, bootLeader>>
  BY DEF WaitForCleanState, ResolveJWTSecret, CountUsers, raftVars
<1>5. SetIsSecret' /\ PodsOK
  BY <1>3, <1>4, StageMoves DEF PodsOK, IInv, BootTypeOK
<1>6. QED BY <1>1, <1>2, <1>5, StepKeeps

LEMMA LoadKeeps ==
    ASSUME IInv, NEW p \in BootPods, LoadMetaSecret(p) \/ WaitForMetaSecret(p)
    PROVE  IInv'
<1>1. Grows BY DEF Grows, LoadMetaSecret, WaitForMetaSecret, raftVars
<1>2. IndicesOK BY <1>1, IndicesReset DEF IInv, LoadMetaSecret, WaitForMetaSecret, raftVars
<1>3. SecretAt(applied[p]) \in Values /\ Replicated(SecretAt(applied[p]), log)
  BY FoundIsReplicated DEF IInv, LoadMetaSecret, WaitForMetaSecret
<1>4. secret' = [secret EXCEPT ![p] = SecretAt(applied[p])] /\ log' = log
  BY DEF LoadMetaSecret, WaitForMetaSecret, raftVars
<1>5. SecretsOK BY <1>3, <1>4 DEF IInv, BootTypeOK, SecretsOK
<1>6. Go(p, "count") /\ UNCHANGED <<pend, file, bootFaults, bootLeader>>
  BY DEF LoadMetaSecret, WaitForMetaSecret, raftVars
<1>7. SetIsSecret' /\ PodsOK
  BY <1>6, StageMoves DEF PodsOK, IInv, BootTypeOK, Stages
<1>8. QED BY <1>1, <1>2, <1>5, <1>7, StepKeeps

LEMMA CreateSecretKeeps ==
    ASSUME IInv, NEW p \in BootPods, CreateMetaSecret(p)
    PROVE  IInv'
<1>1. Grows /\ SecretsOK BY DEF IInv, BootTypeOK, Grows, SecretsOK, CreateMetaSecret, raftVars
<1>2. IndicesOK BY <1>1, IndicesReset DEF IInv, CreateMetaSecret, raftVars
<1>3. PICK v \in Values : pend' = [pend EXCEPT ![p] = [kind |-> "secret", value |-> v]]
  BY DEF CreateMetaSecret
<1>4. [kind |-> "secret", value |-> v] \in Entry BY DEF Entry
<1>5. PodsOK BY <1>3, <1>4 DEF IInv, BootTypeOK, PodsOK, CreateMetaSecret, Go, Stages, raftVars
<1>6. SetIsSecret' BY <1>3 DEF IInv, BootTypeOK, SetIsSecret, CreateMetaSecret, Go
<1>7. QED BY <1>1, <1>2, <1>5, <1>6, StepKeeps

(* The secret that was set is the last entry of the log.                      *)
LEMMA SetKeeps ==
    ASSUME IInv, NEW p \in BootPods, SetSucceeds(p)
    PROVE  IInv'
<1>1. IndicesOK /\ Grows BY IndicesCommitted DEF IInv, SetSucceeds
<1>2. pend[p] \in Entry /\ pend[p].kind = "secret" /\ log' = Append(log, pend[p])
  BY DEF IInv, BootTypeOK, SetIsSecret, SetSucceeds, Committed
<1>3. log \in Seq(Entry) /\ Len(log) \in Nat BY LenProperties DEF IInv, BootTypeOK
<1>4. Len(log') = Len(log) + 1 /\ log'[Len(log) + 1] = pend[p] BY <1>2, <1>3, AppendProperties
<1>5. pend[p] = [kind |-> "secret", value |-> pend[p].value] /\ pend[p].value \in Values \cup {Nil}
  BY <1>2 DEF Entry
<1>6. Len(log) + 1 \in 1 .. Len(log') BY <1>3, <1>4
<1>7. Replicated(pend[p].value, log') BY <1>4, <1>5, <1>6 DEF Replicated
<1>8. SecretsOK BY <1>5, <1>7 DEF IInv, BootTypeOK, SecretsOK, SetSucceeds
<1>9. Go(p, "count") /\ pend' = [pend EXCEPT ![p] = Nil] /\ UNCHANGED <<file, bootFaults, bootLeader>>
  BY DEF SetSucceeds, Committed
<1>10. SetIsSecret' /\ PodsOK BY <1>9, StageMoves DEF PodsOK, IInv, BootTypeOK, Stages
<1>11. QED BY <1>1, <1>8, <1>10, StepKeeps

LEMMA AdminKeeps ==
    ASSUME IInv, NEW p \in BootPods,
           WritePasswordFile(p) \/ CreateAdmin(p) \/ AdminNotLeader(p) \/ AdminCreated(p)
    PROVE  IInv'
<1>1. IndicesOK /\ Grows
  <2>1. CASE AdminCreated(p) BY <2>1, IndicesCommitted DEF IInv, AdminCreated
  <2>2. CASE WritePasswordFile(p) \/ CreateAdmin(p) \/ AdminNotLeader(p)
    <3>1. UNCHANGED <<log, commit, applied>>
      BY <2>2 DEF WritePasswordFile, CreateAdmin, AdminNotLeader, raftVars
    <3>2. Grows BY <3>1 DEF Grows
    <3>3. QED BY <3>1, <3>2, IndicesReset DEF IInv
  <2>3. QED BY <2>1, <2>2
<1>2. SecretsOK
  BY DEF IInv, BootTypeOK, SecretsOK, WritePasswordFile, CreateAdmin, AdminNotLeader, AdminCreated
<1>3. PICK s \in Stages \ {"set"} : Go(p, s)
  BY DEF Stages, WritePasswordFile, CreateAdmin, AdminNotLeader, AdminCreated
<1>4. file[p] \in Values \cup {Nil} BY DEF IInv, BootTypeOK
<1>5. [kind |-> "admin", value |-> file[p]] \in Entry BY <1>4 DEF Entry
<1>6. UNCHANGED pend \/ \E e \in Entry \cup {Nil} : pend' = [pend EXCEPT ![p] = e]
  BY <1>5 DEF WritePasswordFile, CreateAdmin, AdminNotLeader, AdminCreated, Committed
<1>7. file' \in [BootPods -> Values \cup {Nil}]
  BY DEF IInv, BootTypeOK, WritePasswordFile, CreateAdmin, AdminNotLeader, AdminCreated, RemoveFile
<1>8. UNCHANGED <<bootLeader, bootFaults>>
  BY DEF WritePasswordFile, CreateAdmin, AdminNotLeader, AdminCreated, Committed, raftVars
<1>9. SetIsSecret' /\ PodsOK BY <1>3, <1>6, <1>7, <1>8, StageMoves DEF PodsOK, IInv, BootTypeOK
<1>10. QED BY <1>1, <1>2, <1>9, StepKeeps

(* A pod that starts again, for an error, a conflict or a crash.              *)
LEMMA RestartKeeps ==
    ASSUME IInv, NEW p \in BootPods,
           CreateNotLeader(p) \/ WaitTimeout(p) \/ CrashBoot(p) \/ AdminConflict(p)
    PROVE  IInv'
<1>1. Grows
  <2>1. CASE AdminConflict(p) BY <2>1 DEF Grows, AdminConflict
  <2>2. CASE CreateNotLeader(p) \/ WaitTimeout(p) \/ CrashBoot(p)
    <3>1. UNCHANGED log \/ Deposed
      BY <2>2 DEF CreateNotLeader, WaitTimeout, CrashBoot, FailBoot, StartAgain
    <3>2. QED BY <3>1, DeposedGrows DEF Grows, IInv
  <2>3. QED BY <2>1, <2>2
<1>2. /\ commit' = [commit EXCEPT ![p] = 0] /\ applied' = [applied EXCEPT ![p] = 0]
      /\ pend' = [pend EXCEPT ![p] = Nil] /\ secret' = [secret EXCEPT ![p] = Nil]
      /\ Go(p, "barrier")
  BY DEF CreateNotLeader, WaitTimeout, CrashBoot, FailBoot, StartAgain, AdminConflict
<1>3. IndicesOK BY <1>1, <1>2, IndicesReset DEF IInv
<1>4. SecretsOK BY <1>2 DEF IInv, BootTypeOK, SecretsOK
<1>5. bootLeader' \in BootPods
  BY DEF IInv, BootTypeOK, CreateNotLeader, WaitTimeout, CrashBoot, FailBoot, StartAgain, AdminConflict
<1>6. bootFaults' \in 0 .. MaxBootFaults
  BY BootAssumption DEF IInv, BootTypeOK, CreateNotLeader, WaitTimeout, CrashBoot, FailBoot, AdminConflict
<1>7. file' \in [BootPods -> Values \cup {Nil}]
  BY DEF IInv, BootTypeOK, CreateNotLeader, WaitTimeout, CrashBoot, FailBoot, AdminConflict, RemoveFile
<1>8. SetIsSecret' /\ PodsOK BY <1>2, <1>5, <1>6, <1>7, StageMoves DEF PodsOK, Stages
<1>9. QED BY <1>1, <1>3, <1>4, <1>8, StepKeeps

LEMMA LeaderChangeKeeps ==
    ASSUME IInv, NEW p \in BootPods, LeaderChange(p)
    PROVE  IInv'
<1> DEFINE b == bootLeader
<1>0. b \in BootPods BY DEF IInv, BootTypeOK
<1>1. Grows BY DeposedGrows DEF IInv, LeaderChange
<1>2. pend' = [pend EXCEPT ![b] = Nil] BY DEF LeaderChange
<1>3. bootLeader' \in BootPods /\ bootFaults' \in 0 .. MaxBootFaults /\ UNCHANGED secret
  BY BootAssumption DEF IInv, BootTypeOK, LeaderChange
<1>4. IndicesOK
  <2>1. \/ UNCHANGED <<commit, applied>>
        \/ commit' = [commit EXCEPT ![b] = 0] /\ applied' = [applied EXCEPT ![b] = 0]
    BY DEF LeaderChange
  <2> HIDE DEF b
  <2>2. QED BY <1>0, <1>1, <2>1, IndicesReset DEF IInv
<1>5. UNCHANGED stage \/ Go(b, "barrier") \/ Go(b, "ready") BY DEF LeaderChange
<1>6. UNCHANGED file \/ file' = [file EXCEPT ![b] = Nil] BY DEF LeaderChange, RemoveFile
<1> HIDE DEF b
<1>7. SetIsSecret' BY <1>0, <1>2, <1>5 DEF IInv, BootTypeOK, SetIsSecret, Go
<1>8. PodsOK BY <1>0, <1>2, <1>3, <1>5, <1>6 DEF IInv, BootTypeOK, PodsOK, Go, Stages
<1>9. SecretsOK BY <1>3 DEF IInv, BootTypeOK, SecretsOK
<1>10. QED BY <1>1, <1>4, <1>7, <1>8, <1>9, StepKeeps

-----------------------------------------------------------------------------
LEMMA InitInv == BootInit => IInv
<1> SUFFICES ASSUME BootInit PROVE IInv OBVIOUS
<1> DEFINE e == [kind |-> "config", value |-> Nil]
<1>1. e \in Entry BY DEF Entry
<1>2. log = <<e>> BY DEF BootInit
<1> HIDE DEF e
<1>3. log \in Seq(Entry) /\ Len(log) = 1 BY <1>1, <1>2
<1>4. BootTypeOK BY <1>3, BootAssumption DEF BootInit, BootTypeOK, Stages
<1>5. SetIsSecret BY DEF BootInit, SetIsSecret
<1>6. SecretReplicated BY DEF BootInit, SecretReplicated
<1>7. QED BY <1>4, <1>5, <1>6 DEF IInv

LEMMA NextInv == IInv /\ [BootNext]_bootVars => IInv'
<1> SUFFICES ASSUME IInv, [BootNext]_bootVars PROVE IInv' OBVIOUS
<1>1. CASE UNCHANGED bootVars
  BY <1>1 DEF IInv, BootTypeOK, SetIsSecret, SecretReplicated, bootVars
<1>2. CASE BootNext
  <2>1. PICK p \in BootPods : PodStep(p) \/ WaitTimeout(p) \/ Advance(p) \/ Apply(p)
                                \/ LeaderChange(p) \/ CrashBoot(p)
    BY <1>2 DEF BootNext
  <2>2. CASE PodStep(p)
    BY <2>2, MovesKeep, LoadKeeps, CreateSecretKeeps, RestartKeeps, SetKeeps, AdminKeeps DEF PodStep
  <2>3. CASE WaitTimeout(p) \/ CrashBoot(p) BY <2>3, RestartKeeps
  <2>4. CASE Advance(p) \/ Apply(p) BY <2>4, RaftKeeps
  <2>5. CASE LeaderChange(p) BY <2>5, LeaderChangeKeeps
  <2>6. QED BY <2>1, <2>2, <2>3, <2>4, <2>5
<1>3. QED BY <1>1, <1>2

(* The invariant holds in every state start-up can reach.                     *)
THEOREM Inductive == BootSpec => []IInv
BY InitInv, NextInv, PTL DEF BootSpec

(* Every pod's indices stay within the committed log and in order, through    *)
(* restarts that lose the commit index and the state machine.                *)
THEOREM BootTypeHolds == BootSpec => []BootTypeOK
<1>1. IInv => BootTypeOK BY DEF IInv
<1>2. QED BY <1>1, Inductive, PTL

(* No pod signs with a secret that is not in the log, whether it created,     *)
(* loaded or waited for it (resolveJWTSecret), whatever crashes and changes   *)
(* of leader interrupt its start-up.                                         *)
THEOREM SecretIsReplicated == BootSpec => []SecretReplicated
<1>1. IInv => SecretReplicated BY DEF IInv
<1>2. QED BY <1>1, Inductive, PTL

-----------------------------------------------------------------------------
(* The recovery file.  While nothing has failed: a pod has a file only from   *)
(* WritePasswordFile on, the entry it waits for carries that password, and    *)
(* the pod whose password is the admin's is up and stays up.                 *)
PodOK(s, e, f) ==
    /\ s \notin {"create", "apply", "ready"} => f = Nil
    /\ s \in {"create", "apply"} => f \in Values
    /\ e # Nil => \/ s = "set" /\ e.kind = "secret"
                  \/ s = "apply" /\ e = [kind |-> "admin", value |-> f]
    /\ s = "ready" /\ f # Nil => f = AdminAt(Len(log))

FilesOK ==
    /\ \A i \in 1 .. Len(log) : log[i].kind = "admin" => log[i].value \in Values
    /\ \A p \in BootPods : PodOK(stage[p], pend[p], file[p])
    /\ AdminAt(Len(log)) # Nil => \E p \in BootPods : stage[p] = "ready" /\ file[p] = AdminAt(Len(log))

FileInv == bootFaults = 0 => FilesOK

(* A nonempty set of positions has a first one.                              *)
LEMMA FirstExists ==
    ASSUME NEW S, S \subseteq Nat, S # {}
    PROVE  First(S) # {}
<1>1. PICK i \in S : \A j \in S : ~(<<j, i>> \in OpToRel(<, Nat))
  BY WFMin, NatLessThanWellFounded
<1>2. ASSUME NEW j \in S, ~(i <= j) PROVE FALSE
  <2>1. i \in Nat /\ j \in Nat OBVIOUS
  <2>2. j < i BY <1>2, <2>1
  <2>3. <<j, i>> \in OpToRel(<, Nat) BY <2>1, <2>2 DEF OpToRel
  <2>4. QED BY <1>1, <2>3
<1>3. \A j \in S : i <= j BY <1>2
<1>4. QED BY <1>3 DEF First

(* Without an admin in the state machine there is none in the log.           *)
LEMMA NoAdminEntry ==
    ASSUME BootTypeOK, FilesOK, AdminAt(Len(log)) = Nil
    PROVE  Indices(Len(log), "admin") = {}
<1> DEFINE S == Indices(Len(log), "admin")
           i == CHOOSE j \in First(S) : TRUE
<1>1. S \subseteq Nat /\ \A j \in S : j \in 1 .. Len(log) /\ log[j].kind = "admin"
  BY LenProperties DEF Indices, BootTypeOK
<1>2. SUFFICES ASSUME S # {} PROVE FALSE OBVIOUS
<1>3. First(S) # {}
  <2> HIDE DEF S
  <2>1. QED BY <1>1, <1>2, FirstExists
<1>4. i \in First(S) BY <1>3
<1>5. i \in S BY <1>4 DEF First
<1>6. AdminAt(Len(log)) = log[i].value BY <1>3 DEF AdminAt, ValueIn
<1>7. log[i].value \in Values
  <2> HIDE DEF i, S
  <2>1. QED BY <1>1, <1>5 DEF FilesOK
<1>8. QED BY <1>6, <1>7, BootAssumption

(* Another entry does not change who the admin is.                           *)
LEMMA AdminStays ==
    ASSUME BootTypeOK, NEW e \in Entry, e.kind # "admin", log' = Append(log, e)
    PROVE  (AdminAt(Len(log)))' = AdminAt(Len(log))
<1>1. log \in Seq(Entry) /\ Len(log) \in Nat BY LenProperties DEF BootTypeOK
<1>2. /\ Len(log') = Len(log) + 1 /\ log'[Len(log) + 1] = e
      /\ \A i \in 1 .. Len(log) : log'[i] = log[i]
  BY <1>1, AppendProperties
<1>3. {i \in 1 .. Len(log') : log'[i].kind = "admin"} = {i \in 1 .. Len(log) : log[i].kind = "admin"}
  BY <1>1, <1>2
<1>4. (Indices(Len(log), "admin"))' = Indices(Len(log), "admin") BY <1>3 DEF Indices
<1> DEFINE T == First(Indices(Len(log), "admin"))
<1>5. T' = T BY <1>4 DEF First
<1>6. T # {} => log'[CHOOSE i \in T : TRUE] = log[CHOOSE i \in T : TRUE]
  <2>1. \A i \in T : i \in 1 .. Len(log) BY DEF First, Indices
  <2>2. T # {} => (CHOOSE i \in T : TRUE) \in T OBVIOUS
  <2> HIDE DEF T
  <2>3. QED BY <1>2, <2>1, <2>2
<1>7. AdminAt(Len(log)) = IF T = {} THEN Nil ELSE log[CHOOSE i \in T : TRUE].value
  BY DEF AdminAt, ValueIn
<1>8. (AdminAt(Len(log)))' = IF T' = {} THEN Nil ELSE log'[CHOOSE i \in T' : TRUE].value
  BY DEF AdminAt, ValueIn
<1> HIDE DEF T
<1>9. QED BY <1>5, <1>6, <1>7, <1>8

(* The first admin entry decides.                                            *)
LEMMA AdminFirst ==
    ASSUME BootTypeOK, FilesOK, AdminAt(Len(log)) = Nil,
           NEW e \in Entry, e.kind = "admin", log' = Append(log, e)
    PROVE  (AdminAt(Len(log)))' = e.value
<1>1. log \in Seq(Entry) /\ Len(log) \in Nat BY LenProperties DEF BootTypeOK
<1>2. /\ Len(log') = Len(log) + 1 /\ log'[Len(log) + 1] = e
      /\ \A i \in 1 .. Len(log) : log'[i] = log[i]
  BY <1>1, AppendProperties
<1>3. \A i \in 1 .. Len(log) : log[i].kind # "admin" BY NoAdminEntry DEF Indices
<1>4. {i \in 1 .. Len(log') : log'[i].kind = "admin"} = {Len(log) + 1}
  BY <1>1, <1>2, <1>3
<1> DEFINE n == Len(log) + 1
           T == First(Indices(Len(log), "admin"))
<1>5. (Indices(Len(log), "admin"))' = {n} BY <1>4 DEF Indices
<1>6. T' = {n} BY <1>1, <1>5 DEF First
<1>7. (AdminAt(Len(log)))' = IF T' = {} THEN Nil ELSE log'[CHOOSE i \in T' : TRUE].value
  BY DEF AdminAt, ValueIn
<1> HIDE DEF n, T
<1>8. (CHOOSE i \in {n} : TRUE) = n OBVIOUS
<1>9. QED BY <1>2, <1>6, <1>7, <1>8 DEF n
-----------------------------------------------------------------------------
(* A step of a pod that is not up yet, which leaves the admin alone.         *)
LEMMA PodMoves ==
    ASSUME BootTypeOK, FilesOK, NEW p \in BootPods, stage[p] # "ready", NEW s, NEW e, NEW f,
           Go(p, s), pend' = [pend EXCEPT ![p] = e], file' = [file EXCEPT ![p] = f],
           (AdminAt(Len(log)))' = AdminAt(Len(log)),
           \A i \in 1 .. Len(log') : log'[i].kind = "admin" => log'[i].value \in Values,
           PodOK(s, e, f)
    PROVE  FilesOK'
<1>1. \A q \in BootPods : /\ stage'[q] = IF q = p THEN s ELSE stage[q]
                          /\ pend'[q] = IF q = p THEN e ELSE pend[q]
                          /\ file'[q] = IF q = p THEN f ELSE file[q]
  BY DEF BootTypeOK, Go
<1>2. \A q \in BootPods : PodOK(stage[q], pend[q], file[q])' BY <1>1 DEF FilesOK, PodOK
<1>3. (AdminAt(Len(log)) # Nil)' => \E q \in BootPods : stage'[q] = "ready" /\ file'[q] = (AdminAt(Len(log)))'
  BY <1>1 DEF FilesOK
<1>4. QED BY <1>2, <1>3 DEF FilesOK

(* The same with the log left alone.                                         *)
LEMMA PodMovesOn ==
    ASSUME BootTypeOK, FilesOK, NEW p \in BootPods, stage[p] # "ready", NEW s, NEW e, NEW f,
           Go(p, s), pend' = [pend EXCEPT ![p] = e], file' = [file EXCEPT ![p] = f],
           log' = log, PodOK(s, e, f)
    PROVE  FilesOK'
<1>1. (AdminAt(Len(log)))' = AdminAt(Len(log)) BY DEF AdminAt, ValueIn, First, Indices
<1>2. \A i \in 1 .. Len(log') : log'[i].kind = "admin" => log'[i].value \in Values BY DEF FilesOK
<1>3. QED BY <1>1, <1>2, PodMoves

LEMMA FilesRaft ==
    ASSUME BootTypeOK, FilesOK, NEW p \in BootPods, Advance(p) \/ Apply(p)
    PROVE  FilesOK'
<1>1. UNCHANGED <<log, pend, stage, file>> BY DEF Advance, Apply
<1>2. (AdminAt(Len(log)))' = AdminAt(Len(log)) BY <1>1 DEF AdminAt, ValueIn, First, Indices
<1>3. QED BY <1>1, <1>2 DEF FilesOK, PodOK

LEMMA FilesMove ==
    ASSUME BootTypeOK, FilesOK, NEW p \in BootPods,
           \/ WaitForCleanState(p) \/ ResolveJWTSecret(p) \/ LoadMetaSecret(p)
           \/ WaitForMetaSecret(p) \/ CountUsers(p)
    PROVE  FilesOK'
<1>1. PICK s \in Stages \ {"create", "apply", "set"} : Go(p, s)
  BY DEF Stages, WaitForCleanState, ResolveJWTSecret, LoadMetaSecret, WaitForMetaSecret, CountUsers
<1>2. stage[p] \in {"barrier", "resolve", "load", "wait", "count"} /\ UNCHANGED <<log, pend, file>>
  BY DEF WaitForCleanState, ResolveJWTSecret, LoadMetaSecret, WaitForMetaSecret, CountUsers, raftVars
<1>3. PodOK(stage[p], pend[p], file[p]) BY DEF FilesOK
<1>4. pend[p] = Nil /\ file[p] = Nil BY <1>2, <1>3 DEF PodOK
<1>5. pend' = [pend EXCEPT ![p] = Nil] /\ file' = [file EXCEPT ![p] = Nil]
  BY <1>2, <1>4 DEF BootTypeOK
<1>6. PodOK(s, Nil, Nil) BY <1>1 DEF PodOK
<1>7. stage[p] # "ready" /\ log' = log BY <1>2
<1>8. QED BY <1>1, <1>5, <1>6, <1>7, PodMovesOn

LEMMA FilesSecret ==
    ASSUME BootTypeOK, FilesOK, NEW p \in BootPods, CreateMetaSecret(p)
    PROVE  FilesOK'
<1>1. PICK v \in Values : pend' = [pend EXCEPT ![p] = [kind |-> "secret", value |-> v]]
  BY DEF CreateMetaSecret
<1>2. stage[p] = "load" /\ Go(p, "set") /\ UNCHANGED <<log, file>> BY DEF CreateMetaSecret, raftVars
<1>3. PodOK(stage[p], pend[p], file[p]) BY DEF FilesOK
<1>4. file[p] = Nil BY <1>2, <1>3 DEF PodOK
<1>5. file' = [file EXCEPT ![p] = Nil] BY <1>2, <1>4 DEF BootTypeOK
<1>6. PodOK("set", [kind |-> "secret", value |-> v], Nil) BY DEF PodOK
<1>7. stage[p] # "ready" /\ log' = log BY <1>2
<1>8. QED BY <1>1, <1>2, <1>5, <1>6, <1>7, PodMovesOn

(* ErrNotLeader and the timeout of the wait: nothing pends that the store     *)
(* could leave behind.                                                       *)
LEMMA FilesRestart ==
    ASSUME BootTypeOK, FilesOK, NEW p \in BootPods, CreateNotLeader(p) \/ WaitTimeout(p)
    PROVE  FilesOK'
<1>1. stage[p] \in {"load", "wait"} /\ pend' = [pend EXCEPT ![p] = Nil] /\ Go(p, "barrier") /\ file' = file
  BY DEF CreateNotLeader, WaitTimeout, FailBoot, StartAgain
<1>2. log' = log
  <2>1. CASE CreateNotLeader(p) BY <2>1 DEF CreateNotLeader, FailBoot, StartAgain
  <2>2. CASE WaitTimeout(p)
    <3>1. pend[bootLeader] = Nil BY <2>2 DEF WaitTimeout, BootTypeOK
    <3>2. QED BY <2>2, <3>1 DEF WaitTimeout, FailBoot, StartAgain, Deposed
  <2>3. QED BY <2>1, <2>2
<1>3. PodOK(stage[p], pend[p], file[p]) BY DEF FilesOK
<1>4. file[p] = Nil BY <1>1, <1>3 DEF PodOK
<1>5. file' = [file EXCEPT ![p] = Nil] BY <1>1, <1>4 DEF BootTypeOK
<1>6. PodOK("barrier", Nil, Nil) BY DEF PodOK
<1>7. stage[p] # "ready" BY <1>1
<1>8. QED BY <1>1, <1>2, <1>5, <1>6, <1>7, PodMovesOn

(* The secret's entry goes to the log; the admin is who it was.              *)
LEMMA FilesSet ==
    ASSUME IInv, FilesOK, NEW p \in BootPods, SetSucceeds(p)
    PROVE  FilesOK'
<1>1. /\ stage[p] = "set" /\ Go(p, "count") /\ pend' = [pend EXCEPT ![p] = Nil] /\ file' = file
      /\ log' = Append(log, pend[p]) /\ pend[p] # Nil
  BY DEF SetSucceeds, Committed
<1>2. PICK e \in Entry : e = pend[p] BY <1>1 DEF IInv, BootTypeOK
<1>3. e.kind = "secret" /\ log' = Append(log, e) BY <1>1, <1>2 DEF IInv, SetIsSecret
<1>4. BootTypeOK BY DEF IInv
<1>5. (AdminAt(Len(log)))' = AdminAt(Len(log)) BY <1>3, <1>4, AdminStays
<1>6. log \in Seq(Entry) /\ Len(log) \in Nat BY <1>4, LenProperties DEF BootTypeOK
<1>7. /\ Len(log') = Len(log) + 1 /\ log'[Len(log) + 1] = e
      /\ \A i \in 1 .. Len(log) : log'[i] = log[i]
  BY <1>3, <1>6, AppendProperties
<1>8. \A i \in 1 .. Len(log') : log'[i].kind = "admin" => log'[i].value \in Values
  <2>1. \A i \in 1 .. Len(log') : i \in 1 .. Len(log) \/ i = Len(log) + 1 BY <1>6, <1>7
  <2>2. QED BY <1>3, <1>7, <2>1 DEF FilesOK
<1>9. PodOK(stage[p], pend[p], file[p]) BY DEF FilesOK
<1>10. file[p] = Nil BY <1>1, <1>9 DEF PodOK
<1>11. file' = [file EXCEPT ![p] = Nil] BY <1>1, <1>4, <1>10 DEF BootTypeOK
<1>12. PodOK("count", Nil, Nil) BY DEF PodOK
<1>13. stage[p] # "ready" BY <1>1
<1>14. QED BY <1>1, <1>4, <1>5, <1>8, <1>11, <1>12, <1>13, PodMoves

(* The password is in the file before the account's entry is sent, and a     *)
(* pod that does not create the account has no file when it is up.           *)
LEMMA FilesAdmin ==
    ASSUME BootTypeOK, FilesOK, NEW p \in BootPods,
           WritePasswordFile(p) \/ CreateAdmin(p) \/ AdminNotLeader(p) \/ AdminConflict(p)
    PROVE  FilesOK'
<1>0. PodOK(stage[p], pend[p], file[p]) BY DEF FilesOK
<1>1. stage[p] \in {"count", "create", "apply"} /\ log' = log
  BY DEF WritePasswordFile, CreateAdmin, AdminNotLeader, AdminConflict, raftVars
<1>2. stage[p] # "ready" BY <1>1
<1>3. CASE WritePasswordFile(p)
  <2>1. PICK v \in Values : file' = [file EXCEPT ![p] = v] BY <1>3 DEF WritePasswordFile
  <2>2. stage[p] = "count" /\ Go(p, "create") /\ pend' = pend BY <1>3 DEF WritePasswordFile
  <2>3. pend[p] = Nil BY <1>0, <2>2 DEF PodOK
  <2>4. pend' = [pend EXCEPT ![p] = Nil] BY <2>2, <2>3 DEF BootTypeOK
  <2>5. PodOK("create", Nil, v) BY DEF PodOK
  <2>6. QED BY <1>1, <1>2, <2>1, <2>2, <2>4, <2>5, PodMovesOn
<1>4. CASE CreateAdmin(p)
  <2>1. /\ stage[p] = "create" /\ Go(p, "apply") /\ file' = file
        /\ pend' = [pend EXCEPT ![p] = [kind |-> "admin", value |-> file[p]]]
    BY <1>4 DEF CreateAdmin
  <2>2. PICK f \in Values : f = file[p] BY <1>0, <2>1 DEF PodOK
  <2>3. /\ file' = [file EXCEPT ![p] = f]
        /\ pend' = [pend EXCEPT ![p] = [kind |-> "admin", value |-> f]]
    BY <2>1, <2>2 DEF BootTypeOK
  <2>4. PodOK("apply", [kind |-> "admin", value |-> f], f) BY DEF PodOK
  <2>5. QED BY <1>1, <1>2, <2>1, <2>3, <2>4, PodMovesOn
<1>5. CASE AdminNotLeader(p)
  <2>1. stage[p] = "create" /\ Go(p, "ready") /\ file' = [file EXCEPT ![p] = Nil] /\ pend' = pend
    BY <1>5 DEF AdminNotLeader, RemoveFile
  <2>2. pend[p] = Nil BY <1>0, <2>1 DEF PodOK
  <2>3. pend' = [pend EXCEPT ![p] = Nil] BY <2>1, <2>2 DEF BootTypeOK
  <2>4. PodOK("ready", Nil, Nil) BY DEF PodOK
  <2>5. QED BY <1>1, <1>2, <2>1, <2>3, <2>4, PodMovesOn
<1>6. CASE AdminConflict(p)
  <2>1. Go(p, "barrier") /\ file' = [file EXCEPT ![p] = Nil] /\ pend' = [pend EXCEPT ![p] = Nil]
    BY <1>6 DEF AdminConflict, RemoveFile
  <2>2. PodOK("barrier", Nil, Nil) BY DEF PodOK
  <2>3. QED BY <1>1, <1>2, <2>1, <2>2, PodMovesOn
<1>7. QED BY <1>3, <1>4, <1>5, <1>6

(* The account is created with the password of the creator's file, and no    *)
(* other pod that is up has a file.                                          *)
LEMMA FilesCreated ==
    ASSUME BootTypeOK, FilesOK, NEW p \in BootPods, AdminCreated(p)
    PROVE  FilesOK'
<1>0. PodOK(stage[p], pend[p], file[p]) BY DEF FilesOK
<1>1. /\ stage[p] = "apply" /\ Go(p, "ready") /\ pend' = [pend EXCEPT ![p] = Nil] /\ file' = file
      /\ log' = Append(log, pend[p]) /\ pend[p] # Nil /\ AdminAt(Len(log)) = Nil
  BY DEF AdminCreated, Committed
<1>2. PICK f \in Values : f = file[p] BY <1>0, <1>1 DEF PodOK
<1>3. PICK e \in Entry : e = pend[p] BY <1>1 DEF BootTypeOK
<1>4. e = [kind |-> "admin", value |-> f] /\ log' = Append(log, e) BY <1>0, <1>1, <1>2, <1>3 DEF PodOK
<1>5. e.kind = "admin" /\ e.value = f BY <1>4
<1>6. (AdminAt(Len(log)))' = f BY <1>1, <1>4, <1>5, AdminFirst
<1>7. log \in Seq(Entry) /\ Len(log) \in Nat BY LenProperties DEF BootTypeOK
<1>8. /\ Len(log') = Len(log) + 1 /\ log'[Len(log) + 1] = e
      /\ \A i \in 1 .. Len(log) : log'[i] = log[i]
  BY <1>4, <1>7, AppendProperties
<1>9. \A i \in 1 .. Len(log') : log'[i].kind = "admin" => log'[i].value \in Values
  <2>1. \A i \in 1 .. Len(log') : i \in 1 .. Len(log) \/ i = Len(log) + 1 BY <1>7, <1>8
  <2>2. QED BY <1>5, <1>8, <2>1 DEF FilesOK
<1>10. \A q \in BootPods : /\ stage'[q] = IF q = p THEN "ready" ELSE stage[q]
                           /\ pend'[q] = IF q = p THEN Nil ELSE pend[q]
                           /\ file'[q] = file[q]
  BY <1>1 DEF BootTypeOK, Go
<1>11. \A q \in BootPods : PodOK(stage[q], pend[q], file[q])'
  <2> TAKE q \in BootPods
  <2>1. CASE q = p BY <1>2, <1>6, <1>10, <2>1 DEF PodOK
  <2>2. CASE q # p
    <3>1. PodOK(stage[q], pend[q], file[q]) BY DEF FilesOK
    <3>2. stage[q] = "ready" => file[q] = Nil BY <1>1, <3>1 DEF PodOK
    <3>3. QED BY <1>10, <2>2, <3>1, <3>2 DEF PodOK
  <2>3. QED BY <2>1, <2>2
<1>12. stage'[p] = "ready" /\ file'[p] = (AdminAt(Len(log)))' BY <1>2, <1>6, <1>10
<1>13. QED BY <1>9, <1>11, <1>12 DEF FilesOK

LEMMA InitFiles == BootInit => FileInv
<1> SUFFICES ASSUME BootInit PROVE FilesOK BY DEF FileInv
<1> DEFINE c == [kind |-> "config", value |-> Nil]
<1>1. c.kind # "admin" /\ log = <<c>> BY DEF BootInit
<1> HIDE DEF c
<1>2. Len(log) = 1 /\ log[1] = c BY <1>1
<1>3. \A i \in 1 .. Len(log) : log[i].kind # "admin" BY <1>1, <1>2
<1>4. First(Indices(Len(log), "admin")) = {} BY <1>3 DEF First, Indices
<1>5. AdminAt(Len(log)) = Nil BY <1>4 DEF AdminAt, ValueIn
<1>6. \A p \in BootPods : PodOK(stage[p], pend[p], file[p]) BY DEF BootInit, PodOK
<1>7. QED BY <1>3, <1>5, <1>6 DEF FilesOK

LEMMA NextFiles == IInv /\ FileInv /\ [BootNext]_bootVars => FileInv'
<1> SUFFICES ASSUME IInv, FileInv, [BootNext]_bootVars, bootFaults' = 0 PROVE FilesOK' BY DEF FileInv
<1>0. BootTypeOK BY DEF IInv
<1>1. CASE UNCHANGED bootVars
  <2>1. UNCHANGED <<log, pend, stage, file>> /\ FilesOK BY <1>1 DEF bootVars, FileInv
  <2>2. (AdminAt(Len(log)))' = AdminAt(Len(log)) BY <2>1 DEF AdminAt, ValueIn, First, Indices
  <2>3. QED BY <2>1, <2>2 DEF FilesOK, PodOK
<1>2. CASE BootNext
  <2>1. PICK p \in BootPods : PodStep(p) \/ WaitTimeout(p) \/ Advance(p) \/ Apply(p)
                                \/ LeaderChange(p) \/ CrashBoot(p)
    BY <1>2 DEF BootNext
  <2>2. ~LeaderChange(p) /\ ~CrashBoot(p)
    BY <1>0, BootAssumption DEF BootTypeOK, LeaderChange, CrashBoot
  <2>3. bootFaults = 0
    BY <2>1, <2>2 DEF PodStep, WaitForCleanState, ResolveJWTSecret, LoadMetaSecret, CreateMetaSecret,
          CreateNotLeader, SetSucceeds, WaitForMetaSecret, CountUsers, WritePasswordFile, CreateAdmin,
          AdminNotLeader, AdminCreated, AdminConflict, WaitTimeout, Advance, Apply, FailBoot, Committed
  <2>4. FilesOK BY <2>3 DEF FileInv
  <2>5. CASE PodStep(p)
    BY <1>0, <2>4, <2>5, FilesMove, FilesSecret, FilesRestart, FilesSet, FilesAdmin, FilesCreated
       DEF PodStep
  <2>6. CASE WaitTimeout(p) BY <1>0, <2>4, <2>6, FilesRestart
  <2>7. CASE Advance(p) \/ Apply(p) BY <1>0, <2>4, <2>7, FilesRaft
  <2>8. QED BY <2>1, <2>2, <2>5, <2>6, <2>7
<1>3. QED BY <1>1, <1>2

(* bootstrapAdmin: while nothing fails, the password of the admin account is *)
(* in the recovery file of some pod, and a pod that is up has no other file. *)
THEOREM RecoveryExact == BootSpec => []RecoveryFileExact
<1>1. FileInv => RecoveryFileExact BY DEF FileInv, FilesOK, PodOK, RecoveryFileExact
<1>2. QED BY <1>1, InitFiles, NextFiles, Inductive, PTL DEF BootSpec

(* ------------------------------------------------------- RaftMembership -- *)

(* Only a running voter leads; a reconciliation belongs to a leader and ends  *)
(* with it; the voter to be added back by its name is not in the              *)
(* configuration meanwhile, and nothing is added before it.                  *)
LeaderVotes == memLeader # Nil => memLeader \in voters \cap running
OnlyLeaderReconciles == recon.busy => memLeader # Nil
BackIsOut == recon.back # Nil => recon.busy /\ recon.back \notin voters /\ recon.add = {}

MemShape ==
    /\ tls \in BOOLEAN /\ size \in Sizes /\ running \subseteq Ordinal /\ halted \subseteq Ordinal \ running
    /\ wants \in [Ordinal -> Sizes] /\ voters \subseteq Ordinal /\ byIP \subseteq voters
    /\ moved \in BOOLEAN /\ memLeader \in Ordinal \cup {Nil} /\ recon \in Recon

MemBounds == rescales \in 0 .. MaxRescales /\ memFaults \in 0 .. MaxMemFaults

MemInv == MemShape /\ MemBounds /\ LeaderVotes /\ OnlyLeaderReconciles /\ BackIsOut

LEMMA DesiredAreOrdinals ==
    /\ \A n \in Sizes : Desired(n) \subseteq Ordinal
    /\ 0 \in Ordinal
<1>1. \A n \in Sizes : Desired(n) \subseteq Ordinal BY DEF Desired, Ordinal
<1>2. PICK n \in Sizes : n \in Nat \ {0} BY MemAssumption
<1>3. 0 \in Desired(n) BY <1>2 DEF Desired
<1>4. QED BY <1>1, <1>2, <1>3

LEMMA NoReconTyped == NoRecon \in Recon /\ ~NoRecon.busy /\ NoRecon.back = Nil /\ NoRecon.add = {}
<1>1. NoRecon.busy = FALSE /\ NoRecon.back = Nil /\ NoRecon.add = {} BY DEF NoRecon
<1>2. NoRecon \in Recon BY DEF NoRecon, Recon
<1>3. QED BY <1>1, <1>2

LEMMA MemInitInv == MemInit => MemInv
<1> SUFFICES ASSUME MemInit PROVE MemInv OBVIOUS
<1>1. MemShape BY NoReconTyped DEF MemInit, MemShape
<1>2. MemBounds BY MemAssumption DEF MemInit, MemBounds
<1>3. LeaderVotes /\ OnlyLeaderReconciles /\ BackIsOut
  BY NoReconTyped DEF MemInit, LeaderVotes, OnlyLeaderReconciles, BackIsOut
<1>4. QED BY <1>1, <1>2, <1>3 DEF MemInv

(* Pod 0 bootstraps itself before anybody leads.                             *)
LEMMA StartStep ==
    ASSUME MemInv, NEW p \in Ordinal, StartSupervisor(p) PROVE MemInv'
<1>1. voters \subseteq voters' /\ voters' \subseteq Ordinal /\ byIP' \subseteq voters'
  BY DesiredAreOrdinals DEF StartSupervisor, MemInv, MemShape
<1>2. /\ UNCHANGED <<tls, size, halted, moved, memLeader, recon, rescales, memFaults>>
      /\ running' = running \cup {p} /\ p \notin halted
      /\ wants' = [wants EXCEPT ![p] = size]
  BY DEF StartSupervisor
<1>3. MemShape' BY <1>1, <1>2 DEF MemInv, MemShape
<1>4. MemBounds' /\ OnlyLeaderReconciles' BY <1>2 DEF MemInv, MemBounds, OnlyLeaderReconciles
<1>5. LeaderVotes' BY <1>1, <1>2 DEF MemInv, LeaderVotes
<1>6. BackIsOut'
  <2> SUFFICES ASSUME recon.back # Nil PROVE recon.busy /\ recon.back \notin voters' /\ recon.add = {}
    BY <1>2 DEF BackIsOut
  <2>1. recon.busy /\ recon.back \notin voters /\ recon.add = {} BY DEF MemInv, BackIsOut
  <2>2. voters # {} BY <2>1 DEF MemInv, OnlyLeaderReconciles, LeaderVotes
  <2>3. QED BY <2>1, <2>2 DEF StartSupervisor
<1>7. QED BY <1>3, <1>4, <1>5, <1>6 DEF MemInv

LEMMA StopKeeps ==
    ASSUME MemInv, NEW p \in Ordinal, Stop(p), UNCHANGED <<tls, size, wants, voters, byIP>>
    PROVE  MemShape' /\ LeaderVotes' /\ OnlyLeaderReconciles' /\ BackIsOut'
<1>0. PICK b \in BOOLEAN : b = (moved \/ p = 0) BY Zenon
<1>1. moved' \in BOOLEAN BY <1>0 DEF Stop
<1>2. running' = running \ {p} /\ halted' = halted \ {p} BY DEF Stop
<1>3. CASE memLeader = p
  <2>1. memLeader' = Nil /\ recon' = NoRecon BY <1>3 DEF Stop
  <2>2. QED BY <1>1, <1>2, <2>1, NoReconTyped
            DEF MemInv, MemShape, LeaderVotes, OnlyLeaderReconciles, BackIsOut
<1>4. CASE memLeader # p
  <2>1. memLeader' = memLeader /\ recon' = recon BY <1>4 DEF Stop
  <2>2. MemShape' BY <1>1, <1>2, <2>1 DEF MemInv, MemShape
  <2>3. LeaderVotes' BY <1>2, <1>4, <2>1 DEF MemInv, LeaderVotes
  <2>4. OnlyLeaderReconciles' /\ BackIsOut' BY <2>1 DEF MemInv, OnlyLeaderReconciles, BackIsOut
  <2>5. QED BY <2>2, <2>3, <2>4
<1>5. QED BY <1>3, <1>4

LEMMA PodsStep ==
    ASSUME MemInv, NEW p \in Ordinal, Crash(p) \/ Rollout(p) PROVE MemInv'
<1>1. Stop(p) /\ UNCHANGED <<tls, size, wants, voters, byIP>> BY DEF Crash, Rollout
<1>2. MemBounds' BY MemAssumption DEF Crash, Rollout, MemInv, MemBounds
<1>3. QED BY <1>1, <1>2, StopKeeps DEF MemInv

LEMMA LeadershipStep ==
    ASSUME MemInv,
           \/ \E n \in Sizes : Rescale(n)
           \/ \E p \in Ordinal : ElectLeader(p)
           \/ LoseQuorum \/ Depose
    PROVE  MemInv'
<1>1. ASSUME NEW n \in Sizes, Rescale(n) PROVE MemInv'
  <2>1. MemBounds' BY <1>1, MemAssumption DEF Rescale, MemInv, MemBounds
  <2>2. MemShape' BY <1>1 DEF Rescale, MemInv, MemShape
  <2>3. LeaderVotes' /\ OnlyLeaderReconciles' /\ BackIsOut'
    BY <1>1 DEF Rescale, MemInv, LeaderVotes, OnlyLeaderReconciles, BackIsOut
  <2>4. QED BY <2>1, <2>2, <2>3 DEF MemInv
<1>2. ASSUME NEW p \in Ordinal, ElectLeader(p) PROVE MemInv'
  <2>1. MemShape' /\ MemBounds' BY <1>2 DEF ElectLeader, MemInv, MemShape, MemBounds
  <2>2. LeaderVotes' BY <1>2 DEF ElectLeader, LeaderVotes
  <2>3. ~recon.busy BY <1>2 DEF ElectLeader, MemInv, OnlyLeaderReconciles
  <2>4. OnlyLeaderReconciles' /\ BackIsOut' BY <1>2, <2>3 DEF ElectLeader, MemInv, OnlyLeaderReconciles, BackIsOut
  <2>5. QED BY <2>1, <2>2, <2>4 DEF MemInv
<1>3. CASE LoseQuorum \/ Depose
  <2>1. StepsDown BY <1>3 DEF LoseQuorum, Depose
  <2>2. MemBounds' BY <1>3, MemAssumption DEF LoseQuorum, Depose, StepsDown, MemInv, MemBounds
  <2>3. MemShape' BY <2>1, NoReconTyped DEF StepsDown, MemInv, MemShape
  <2>4. LeaderVotes' /\ OnlyLeaderReconciles' /\ BackIsOut'
    BY <2>1, NoReconTyped DEF StepsDown, LeaderVotes, OnlyLeaderReconciles, BackIsOut
  <2>5. QED BY <2>2, <2>3, <2>4 DEF MemInv
<1>4. QED BY <1>1, <1>2, <1>3

-----------------------------------------------------------------------------
(* A configuration change, whether the leader survives it or not.            *)
LEMMA ChangeStep ==
    ASSUME MemInv, memLeader # Nil, NEW V \in SUBSET Ordinal, NEW B \in SUBSET V,
           NEW next \in Recon, next.back # Nil => next.busy /\ next.back \notin V /\ next.add = {},
           Change(V, B, next)
    PROVE  MemInv'
<1>0. memLeader \in Ordinal /\ memLeader \in running BY DEF MemInv, MemShape, LeaderVotes
<1>1. MemBounds' BY DEF Change, MemInv, MemBounds
<1>2. CASE /\ memLeader' = memLeader /\ memLeader \in V /\ recon' = next /\ voters' = V /\ byIP' = B
           /\ UNCHANGED <<running, halted, tls, size, wants, moved>>
  <2>1. MemShape' BY <1>2 DEF MemInv, MemShape
  <2>2. LeaderVotes' /\ OnlyLeaderReconciles' /\ BackIsOut'
    BY <1>0, <1>2 DEF LeaderVotes, OnlyLeaderReconciles, BackIsOut
  <2>3. QED BY <1>1, <2>1, <2>2 DEF MemInv
<1>3. CASE /\ memLeader' = Nil /\ recon' = NoRecon /\ UNCHANGED <<tls, size, wants, moved>>
           /\ (voters' = V /\ byIP' = B) \/ UNCHANGED <<voters, byIP>>
           /\ \/ UNCHANGED <<running, halted>>
              \/ running' = running \ {memLeader} /\ halted' = halted \cup {memLeader}
  <2>1. running' \subseteq Ordinal /\ halted' \subseteq Ordinal \ running' BY <1>0, <1>3 DEF MemInv, MemShape
  <2>2. MemShape' BY <1>3, <2>1, NoReconTyped DEF MemInv, MemShape
  <2>3. LeaderVotes' /\ OnlyLeaderReconciles' /\ BackIsOut'
    BY <1>3, NoReconTyped DEF LeaderVotes, OnlyLeaderReconciles, BackIsOut
  <2>4. QED BY <1>1, <2>2, <2>3 DEF MemInv
<1>4. QED BY <1>2, <1>3 DEF Change

LEMMA CallsStep ==
    ASSUME MemInv, NEW q \in Ordinal, AddMissing(q) \/ UpdateAddress(q) \/ RemoveExtra(q)
    PROVE  MemInv'
<1>1. memLeader # Nil /\ recon.busy /\ recon \in Recon /\ voters \subseteq Ordinal /\ byIP \subseteq voters
  BY DEF AddMissing, UpdateAddress, RemoveExtra, MemInv, OnlyLeaderReconciles, MemShape
<1>2. CASE AddMissing(q)
  <2>1. PICK next : next = [recon EXCEPT !.add = @ \ {q}] OBVIOUS
  <2>2. recon.back = Nil BY <1>2 DEF AddMissing, MemInv, BackIsOut
  <2>3. next \in Recon /\ next.back = Nil BY <1>1, <2>1, <2>2 DEF Recon
  <2>4. Change(voters \cup {q}, byIP \ {q}, next) BY <1>2, <2>1 DEF AddMissing
  <2>5. QED BY <1>1, <2>3, <2>4, ChangeStep
<1>3. CASE UpdateAddress(q)
  <2>1. PICK next : next = [recon EXCEPT !.update = @ \ {q}, !.back = q] OBVIOUS
  <2>2. recon.add = {} BY <1>3 DEF UpdateAddress
  <2>3. next \in Recon /\ next.back = q /\ next.add = {} BY <1>1, <2>1, <2>2 DEF Recon
  <2>4. next.busy = recon.busy BY <1>1, <2>1 DEF Recon
  <2>5. Change(voters \ {q}, byIP \ {q}, next) BY <1>3, <2>1 DEF UpdateAddress
  <2>6. QED BY <1>1, <2>3, <2>4, <2>5, ChangeStep
<1>4. CASE RemoveExtra(q)
  <2>1. PICK next : next = [recon EXCEPT !.remove = @ \ {q}] OBVIOUS
  <2>2. recon.back = Nil BY <1>4 DEF RemoveExtra
  <2>3. next \in Recon /\ next.back = Nil BY <1>1, <2>1, <2>2 DEF Recon
  <2>4. Change(voters \ {q}, byIP \ {q}, next) BY <1>4, <2>1 DEF RemoveExtra
  <2>5. QED BY <1>1, <2>3, <2>4, ChangeStep
<1>5. QED BY <1>2, <1>3, <1>4

LEMMA AddBackStep == ASSUME MemInv, AddBack PROVE MemInv'
<1>1. memLeader # Nil /\ recon \in Recon /\ voters \subseteq Ordinal /\ byIP \subseteq voters
  BY DEF AddBack, MemInv, OnlyLeaderReconciles, MemShape
<1>2. PICK next : next = [recon EXCEPT !.back = Nil] OBVIOUS
<1>3. next \in Recon /\ next.back = Nil BY <1>1, <1>2 DEF Recon
<1>4. PICK q : q = recon.back OBVIOUS
<1>5. q \in Ordinal BY <1>1, <1>4 DEF AddBack, Recon
<1>6. Change(voters \cup {q}, byIP \ {q}, next) BY <1>2, <1>4 DEF AddBack
<1>7. QED BY <1>1, <1>3, <1>5, <1>6, ChangeStep

(* The plan of a reconciliation names pods of the sizes given; its end drops  *)
(* what is left.                                                             *)
LEMMA PlanStep == ASSUME MemInv, BeginReconcile \/ EndReconcile PROVE MemInv'
<1>1. UNCHANGED <<tls, size, running, halted, wants, voters, byIP, moved, memLeader, rescales, memFaults>>
  BY DEF BeginReconcile, EndReconcile
<1>2. recon' \in Recon /\ recon'.back = Nil /\ (recon'.busy => memLeader # Nil)
  <2>1. CASE BeginReconcile
    <3>1. memLeader # Nil /\ memLeader \in Ordinal /\ voters \subseteq Ordinal /\ byIP \subseteq voters
      BY <2>1 DEF BeginReconcile, MemInv, MemShape
    <3>2. wants[memLeader] \in Sizes BY <3>1 DEF MemInv, MemShape
    <3>3. PICK want : want = Desired(wants[memLeader]) OBVIOUS
    <3>4. want \subseteq Ordinal BY <3>2, <3>3, DesiredAreOrdinals
    <3>5. PICK changed \in {StaleVoters, byIP} :
             recon' = [busy |-> TRUE, add |-> want \ voters, update |-> want \cap changed,
                       remove |-> voters \ want, back |-> Nil]
      BY <2>1, <3>3 DEF BeginReconcile
    <3>6. recon' \in Recon /\ recon'.back = Nil BY <3>1, <3>4, <3>5 DEF Recon
    <3>7. QED BY <3>1, <3>6
  <2>2. CASE EndReconcile BY <2>2, NoReconTyped DEF EndReconcile
  <2>3. QED BY <2>1, <2>2
<1>3. MemShape' /\ MemBounds' BY <1>1, <1>2 DEF MemInv, MemShape, MemBounds
<1>4. LeaderVotes' /\ OnlyLeaderReconciles' /\ BackIsOut'
  BY <1>1, <1>2 DEF MemInv, LeaderVotes, OnlyLeaderReconciles, BackIsOut
<1>5. QED BY <1>3, <1>4 DEF MemInv

LEMMA MemNextInv == MemInv /\ [MemNext]_memVars => MemInv'
<1> SUFFICES ASSUME MemInv, [MemNext]_memVars PROVE MemInv' OBVIOUS
<1>1. CASE UNCHANGED memVars
  BY <1>1 DEF memVars, MemInv, MemShape, MemBounds, LeaderVotes, OnlyLeaderReconciles, BackIsOut
<1>2. CASE ReconcileStep BY <1>2, CallsStep, AddBackStep, PlanStep DEF ReconcileStep
<1>3. CASE \E p \in Ordinal : StartSupervisor(p) \/ Crash(p) \/ Rollout(p)
  BY <1>3, StartStep, PodsStep
<1>4. CASE \/ \E n \in Sizes : Rescale(n)
           \/ \E p \in Ordinal : ElectLeader(p)
           \/ LoseQuorum \/ Depose
  BY <1>4, LeadershipStep
<1>5. QED BY <1>1, <1>2, <1>3, <1>4 DEF MemNext

(* The invariant above holds of every reachable state of the membership.      *)
THEOREM MemInductive == MemSpec => []MemInv
BY MemInitInv, MemNextInv, PTL DEF MemSpec

(* Every reachable state of the membership is well typed, whatever the sizes  *)
(* of the StatefulSet and however often it is rescaled: a pod whose Raft node *)
(* has stopped does not count as running, and every bootstrap address is      *)
(* one of the configuration.                                                 *)
THEOREM MemTypeHolds == MemSpec => []MemTypeOK
<1>1. MemInv => MemTypeOK BY DEF MemInv, MemShape, MemBounds, MemTypeOK
<1>2. QED BY <1>1, MemInductive, PTL

(* Whoever leads is a running voter of the latest configuration, and only a   *)
(* leader reconciles, although a leader may remove itself in the middle of a  *)
(* ReconcileMembership, over plaintext to correct its own address; then its   *)
(* reconciliation ends with its leadership, before the voter is added back.   *)
THEOREM ReconcilerLeads == MemSpec => [](LeaderVotes /\ OnlyLeaderReconciles /\ BackIsOut)
<1>1. MemInv => LeaderVotes /\ OnlyLeaderReconciles /\ BackIsOut BY DEF MemInv
<1>2. QED BY <1>1, MemInductive, PTL

OneVoterAtATime == \E q : voters \ {q} = voters' \ {q}
LastVoterStays == voters # {} => voters' # {}

LEMMA ChangesOne ==
    ASSUME NEW q, NEW S, NEW next,
           \/ Change(voters \cup {q}, S, next)
           \/ Change(voters \ {q}, S, next) /\ voters # {q}
    PROVE  OneVoterAtATime /\ LastVoterStays
<1>1. voters' = voters \/ voters' = voters \cup {q} \/ (voters' = voters \ {q} /\ voters # {q})
  BY DEF Change
<1>2. QED BY <1>1 DEF OneVoterAtATime, LastVoterStays

LEMMA EveryStepChangesOne == [MemNext]_memVars => OneVoterAtATime /\ LastVoterStays
<1> SUFFICES ASSUME [MemNext]_memVars PROVE OneVoterAtATime /\ LastVoterStays OBVIOUS
<1>1. ASSUME NEW p \in Ordinal, StartSupervisor(p) PROVE OneVoterAtATime /\ LastVoterStays
  <2>1. voters' = voters \/ (voters = {} /\ voters' = {0}) BY <1>1 DEF StartSupervisor
  <2>2. QED BY <2>1 DEF OneVoterAtATime, LastVoterStays
<1>2. ASSUME UNCHANGED voters PROVE OneVoterAtATime /\ LastVoterStays
  BY <1>2 DEF OneVoterAtATime, LastVoterStays
<1>3. ASSUME NEW p \in Ordinal, Crash(p) \/ Rollout(p) \/ ElectLeader(p) PROVE UNCHANGED voters
  BY <1>3 DEF Crash, Rollout, ElectLeader
<1>4. ASSUME \/ \E n \in Sizes : Rescale(n)
             \/ LoseQuorum \/ Depose \/ BeginReconcile \/ EndReconcile
      PROVE  UNCHANGED voters
  BY <1>4 DEF Rescale, LoseQuorum, Depose, StepsDown, BeginReconcile, EndReconcile
<1>5. ASSUME NEW q \in Ordinal, AddMissing(q) \/ UpdateAddress(q) \/ RemoveExtra(q)
      PROVE  OneVoterAtATime /\ LastVoterStays
  BY <1>5, ChangesOne DEF AddMissing, UpdateAddress, RemoveExtra
<1>6. ASSUME AddBack PROVE OneVoterAtATime /\ LastVoterStays BY <1>6, ChangesOne DEF AddBack
<1>7. CASE UNCHANGED memVars BY <1>2, <1>7 DEF memVars
<1>8. QED BY <1>1, <1>2, <1>3, <1>4, <1>5, <1>6, <1>7 DEF MemNext, ReconcileStep

(* A majority of a set and one of the set with at most one more element meet. *)
LEMMA MajoritiesMeet ==
    ASSUME NEW V, IsFiniteSet(V), NEW q, NEW W, W = V \/ W = V \cup {q},
           NEW A \in SUBSET V, NEW B \in SUBSET W,
           2 * Cardinality(A) > Cardinality(V), 2 * Cardinality(B) > Cardinality(W)
    PROVE  A \cap B # {}
<1> SUFFICES ASSUME A \cap B = {} PROVE FALSE OBVIOUS
<1>1. IsFiniteSet(W) /\ Cardinality(V) \in Nat /\ Cardinality(W) <= Cardinality(V) + 1
      /\ Cardinality(V) <= Cardinality(W) /\ Cardinality(W) \in Nat
  <2>1. Cardinality(V) \in Nat BY FS_CardinalityType
  <2>2. IsFiniteSet(W) /\ Cardinality(W) \in {Cardinality(V), Cardinality(V) + 1}
    BY FS_AddElement
  <2>3. QED BY <2>1, <2>2
<1>2. IsFiniteSet(A) /\ IsFiniteSet(B) /\ Cardinality(A) \in Nat /\ Cardinality(B) \in Nat
  BY <1>1, FS_Subset, FS_CardinalityType
<1>3. Cardinality(A \cup B) = Cardinality(A) + Cardinality(B) - Cardinality(A \cap B) BY <1>2, FS_Union
<1>4. Cardinality(A \cap B) = 0 BY FS_EmptySet
<1>5. A \cup B \in SUBSET W OBVIOUS
<1>6. Cardinality(A \cup B) <= Cardinality(W) BY <1>1, <1>5, FS_Subset
<1>7. QED BY <1>1, <1>2, <1>3, <1>4, <1>6

(* Any majority of the configuration shares a voter with any majority of the  *)
(* next one: nothing the one committed is unknown to a leader the other       *)
(* elects.                                                                   *)
QuorumsMeet ==
    \A A \in SUBSET voters, B \in SUBSET voters' :
        2 * Cardinality(A) > Cardinality(voters) /\ 2 * Cardinality(B) > Cardinality(voters')
            => A \cap B # {}

LEMMA OneChangeMeets ==
    ASSUME IsFiniteSet(voters), OneVoterAtATime PROVE IsFiniteSet(voters') /\ QuorumsMeet
<1>1. PICK q : voters \ {q} = voters' \ {q} BY DEF OneVoterAtATime
<1>2. (voters' = voters \/ voters' = voters \cup {q}) \/ voters = voters' \cup {q} BY <1>1
<1>3. IsFiniteSet(voters')
  <2>1. IsFiniteSet(voters \cup {q}) BY FS_AddElement
  <2>2. voters' \in SUBSET (voters \cup {q}) BY <1>1
  <2>3. QED BY <2>1, <2>2, FS_Subset
<1>4. SUFFICES ASSUME NEW A \in SUBSET voters, NEW B \in SUBSET voters',
                      2 * Cardinality(A) > Cardinality(voters), 2 * Cardinality(B) > Cardinality(voters')
               PROVE  A \cap B # {}
  BY <1>3 DEF QuorumsMeet
<1>5. CASE voters' = voters \/ voters' = voters \cup {q} BY <1>4, <1>5, MajoritiesMeet
<1>6. CASE voters = voters' \cup {q}
  <2>1. B \cap A # {} BY <1>3, <1>4, <1>6, MajoritiesMeet
  <2>2. QED BY <2>1
<1>7. QED BY <1>2, <1>5, <1>6

(* However ReconcileMembership is interleaved with crashes, elections,        *)
(* upgrades and a second reconciliation by the next leader, the majorities of *)
(* the configurations before and after a step meet, and the last voter is     *)
(* never taken, though an address is corrected by a removal and an addition.  *)
THEOREM ChangesAreSafe == MemSpec => [][QuorumsMeet /\ LastVoterStays]_memVars
<1> DEFINE Finite == IsFiniteSet(voters)
<1>1. MemInit => Finite BY FS_EmptySet DEF MemInit
<1>2. Finite /\ [MemNext]_memVars => Finite' /\ [QuorumsMeet /\ LastVoterStays]_memVars
  BY EveryStepChangesOne, OneChangeMeets
<1> HIDE DEF Finite
<1>3. QED BY <1>1, <1>2, PTL DEF MemSpec

-----------------------------------------------------------------------------
(* ensureAdminUser: once there is an admin in the log it stays the same one, *)
(* through crashes, changes of leader and pods that start together.          *)
AdminStable ==
    [][AdminAt(Len(log)) # Nil => (AdminAt(Len(log)))' = AdminAt(Len(log))]_bootVars

(* LoadOrCreateJWTSecret: until the first fault the secret in the log is     *)
(* never replaced by another one, so no session signed with it is lost.      *)
SecretStableUntilFault ==
    [][bootFaults = 0 /\ SecretAt(Len(log)) # Nil => (SecretAt(Len(log)))' = SecretAt(Len(log))]_bootVars

(* Until then only the leader writes: the others wait for the secret, and it *)
(* is past the writes once there is one.                                     *)
Steady ==
    /\ \A q \in BootPods \ {bootLeader} : stage[q] \notin {"load", "set", "apply"} /\ pend[q] = Nil
    /\ stage[bootLeader] # "wait"
    /\ stage[bootLeader] \in {"barrier", "resolve", "load", "set"} => SecretAt(Len(log)) = Nil
    /\ stage[bootLeader] = "ready" \/ AdminAt(Len(log)) = Nil
SteadyInv == bootFaults = 0 => Steady

-----------------------------------------------------------------------------
LEMMA SecretStays ==
    ASSUME BootTypeOK, NEW e \in Entry, e.kind # "secret", log' = Append(log, e)
    PROVE  (SecretAt(Len(log)))' = SecretAt(Len(log))
<1>1. log \in Seq(Entry) /\ Len(log) \in Nat BY LenProperties DEF BootTypeOK
<1>2. /\ Len(log') = Len(log) + 1 /\ log'[Len(log) + 1] = e
      /\ \A i \in 1 .. Len(log) : log'[i] = log[i]
  BY <1>1, AppendProperties
<1>3. {i \in 1 .. Len(log') : log'[i].kind = "secret"} = {i \in 1 .. Len(log) : log[i].kind = "secret"}
  BY <1>1, <1>2
<1>4. (Indices(Len(log), "secret"))' = Indices(Len(log), "secret") BY <1>3 DEF Indices
<1> DEFINE T == Last(Indices(Len(log), "secret"))
<1>5. T' = T BY <1>4 DEF Last
<1>6. T # {} => log'[CHOOSE i \in T : TRUE] = log[CHOOSE i \in T : TRUE]
  <2>1. \A i \in T : i \in 1 .. Len(log) BY DEF Last, Indices
  <2>2. T # {} => (CHOOSE i \in T : TRUE) \in T OBVIOUS
  <2> HIDE DEF T
  <2>3. QED BY <1>2, <2>1, <2>2
<1>7. SecretAt(Len(log)) = IF T = {} THEN Nil ELSE log[CHOOSE i \in T : TRUE].value
  BY DEF SecretAt, ValueIn
<1>8. (SecretAt(Len(log)))' = IF T' = {} THEN Nil ELSE log'[CHOOSE i \in T' : TRUE].value
  BY DEF SecretAt, ValueIn
<1> HIDE DEF T
<1>9. QED BY <1>5, <1>6, <1>7, <1>8

LEMMA SameLog ==
    ASSUME log' = log
    PROVE  /\ (SecretAt(Len(log)))' = SecretAt(Len(log))
           /\ (AdminAt(Len(log)))' = AdminAt(Len(log))
BY DEF SecretAt, AdminAt, ValueIn, First, Last, Indices

(* An admin there is stays the first, whatever is appended.                  *)
LEMMA AdminKept ==
    ASSUME BootTypeOK, AdminAt(Len(log)) # Nil, NEW e \in Entry, log' = Append(log, e)
    PROVE  (AdminAt(Len(log)))' = AdminAt(Len(log))
<1>1. log \in Seq(Entry) /\ Len(log) \in Nat BY LenProperties DEF BootTypeOK
<1>2. /\ Len(log') = Len(log) + 1
      /\ \A i \in 1 .. Len(log) : log'[i] = log[i]
  BY <1>1, AppendProperties
<1> DEFINE S == Indices(Len(log), "admin")
           T == First(S)
<1>3. T # {} BY DEF AdminAt, ValueIn
<1>4. PICK a \in T : TRUE BY <1>3
<1>5. a \in 1 .. Len(log) /\ a \in S /\ \A j \in S : a <= j BY <1>4 DEF First, Indices
<1>6. S' = {i \in 1 .. Len(log') : log'[i].kind = "admin"}
      /\ S = {i \in 1 .. Len(log) : log[i].kind = "admin"} BY DEF Indices
<1>7. a \in S' /\ \A j \in S' : a <= j
  <2>1. a \in S' BY <1>1, <1>2, <1>5, <1>6
  <2>2. ASSUME NEW j \in S' PROVE a <= j
    <3>1. j \in 1 .. Len(log) \/ j = Len(log) + 1 BY <1>1, <1>2, <1>6, <2>2
    <3>2. j \in 1 .. Len(log) => j \in S BY <1>2, <1>6, <2>2
    <3> HIDE DEF S
    <3> QED  BY <1>1, <1>5, <3>1, <3>2
  <2> QED  BY <2>1, <2>2
<1>8. T = {a}
  <2>1. \A j \in T : j = a
    <3>1. \A j \in T : j \in S /\ j <= a /\ a <= j /\ j \in Nat BY <1>1, <1>5, <1>6 DEF First
    <3> QED  BY <1>1, <1>5, <3>1
  <2> QED  BY <1>4, <2>1
<1>9. T' = {a}
  <2>1. T' = {i \in S' : \A j \in S' : i <= j} BY DEF First
  <2>2. \A j \in T' : j \in S' /\ j <= a /\ a <= j /\ j \in Nat BY <1>1, <1>2, <1>6, <1>7, <2>1
  <2>3. \A j \in T' : j = a BY <1>1, <1>5, <2>2
  <2>4. a \in T' BY <1>7, <2>1
  <2> QED  BY <2>3, <2>4
<1>10. AdminAt(Len(log)) = IF T = {} THEN Nil ELSE log[CHOOSE i \in T : TRUE].value
  BY DEF AdminAt, ValueIn
<1>11. (AdminAt(Len(log)))' = IF T' = {} THEN Nil ELSE log'[CHOOSE i \in T' : TRUE].value
  BY DEF AdminAt, ValueIn
<1>12. (CHOOSE i \in {a} : TRUE) = a OBVIOUS
<1> HIDE DEF T, S
<1> QED  BY <1>2, <1>5, <1>8, <1>9, <1>10, <1>11, <1>12

(* Only the entry the leader waits for is ever appended.                     *)
LeaderAppends ==
    log' = log \/ (pend[bootLeader] # Nil /\ log' = Append(log, pend[bootLeader]))

LEMMA LogStep == IInv /\ [BootNext]_bootVars => LeaderAppends
<1> SUFFICES ASSUME IInv, [BootNext]_bootVars PROVE LeaderAppends OBVIOUS
<1>0. pend \in [BootPods -> Entry \cup {Nil}] /\ bootLeader \in BootPods BY DEF IInv, BootTypeOK
<1>1. ASSUME Deposed PROVE LeaderAppends BY <1>0, <1>1 DEF Deposed, LeaderAppends
<1>2. ASSUME NEW p \in BootPods, Committed(p) PROVE LeaderAppends BY <1>0, <1>2 DEF Committed, LeaderAppends
<1>3. ASSUME NEW p \in BootPods, StartAgain(p) PROVE LeaderAppends BY <1>1, <1>3 DEF StartAgain, LeaderAppends
<1>4. ASSUME NEW p \in BootPods, PodStep(p) PROVE LeaderAppends
  BY <1>2, <1>3, <1>4 DEF PodStep, WaitForCleanState, ResolveJWTSecret, LoadMetaSecret, CreateMetaSecret,
          CreateNotLeader, SetSucceeds, WaitForMetaSecret, CountUsers, WritePasswordFile, CreateAdmin,
          AdminNotLeader, AdminCreated, AdminConflict, FailBoot, raftVars, LeaderAppends
<1>5. ASSUME NEW p \in BootPods, WaitTimeout(p) PROVE LeaderAppends BY <1>3, <1>5 DEF WaitTimeout, FailBoot
<1>6. ASSUME NEW p \in BootPods, Advance(p) \/ Apply(p) PROVE LeaderAppends BY <1>6 DEF Advance, Apply, LeaderAppends
<1>7. ASSUME NEW p \in BootPods, LeaderChange(p) PROVE LeaderAppends BY <1>1, <1>7 DEF LeaderChange
<1>8. ASSUME NEW p \in BootPods, CrashBoot(p) PROVE LeaderAppends BY <1>3, <1>8 DEF CrashBoot
<1>9. CASE UNCHANGED bootVars BY <1>9 DEF bootVars, LeaderAppends
<1> QED  BY <1>4, <1>5, <1>6, <1>7, <1>8, <1>9 DEF BootNext

(* For any number of pods and faults, the admin is never replaced.           *)
THEOREM AdminNeverReplaced == BootSpec => AdminStable
<1> DEFINE A == AdminAt(Len(log)) # Nil => (AdminAt(Len(log)))' = AdminAt(Len(log))
<1>1. ASSUME IInv, [BootNext]_bootVars PROVE A
  <2>1. LeaderAppends /\ BootTypeOK BY <1>1, LogStep DEF IInv
  <2>2. pend[bootLeader] # Nil => pend[bootLeader] \in Entry BY <2>1 DEF BootTypeOK
  <2> QED  BY <2>1, <2>2, SameLog, AdminKept DEF LeaderAppends
<1>2. IInv /\ [BootNext]_bootVars => [A]_bootVars BY <1>1
<1> HIDE DEF A
<1>3. BootSpec => [][A]_bootVars BY <1>2, Inductive, PTL DEF BootSpec
<1> QED  BY <1>3 DEF A, AdminStable

-----------------------------------------------------------------------------
LEMMA SteadyMove ==
    ASSUME BootTypeOK, Steady, NEW p \in BootPods, NEW s, NEW e,
           Go(p, s), pend' = [pend EXCEPT ![p] = e], bootLeader' = bootLeader, log' = log,
           p # bootLeader => s \notin {"load", "set", "apply"} /\ e = Nil,
           p = bootLeader => /\ s # "wait"
                             /\ s \in {"barrier", "resolve", "load", "set"} => SecretAt(Len(log)) = Nil
                             /\ s = "ready" \/ AdminAt(Len(log)) = Nil
    PROVE  Steady'
<1>1. \A q \in BootPods : /\ stage'[q] = IF q = p THEN s ELSE stage[q]
                          /\ pend'[q] = IF q = p THEN e ELSE pend[q]
  BY DEF BootTypeOK, Go
<1>2. /\ (SecretAt(Len(log)))' = SecretAt(Len(log)) /\ (AdminAt(Len(log)))' = AdminAt(Len(log))
  BY SameLog
<1>3. bootLeader \in BootPods BY DEF BootTypeOK
<1>4. \A q \in BootPods \ {bootLeader'} : stage'[q] \notin {"load", "set", "apply"} /\ pend'[q] = Nil
  BY <1>1 DEF Steady
<1>5. CASE p = bootLeader BY <1>1, <1>2, <1>3, <1>4, <1>5 DEF Steady
<1>6. CASE p # bootLeader BY <1>1, <1>2, <1>3, <1>4, <1>6 DEF Steady
<1> QED  BY <1>5, <1>6

LEMMA SteadyPod ==
    ASSUME IInv, FilesOK, Steady, NEW p \in BootPods, PodStep(p) \/ WaitTimeout(p)
    PROVE  Steady'
<1>0. BootTypeOK BY DEF IInv
<1>1. /\ stage[p] \in {"load", "set", "apply"} => p = bootLeader
      /\ stage[p] = "wait" => p # bootLeader
      /\ p # bootLeader => pend[p] = Nil
      /\ p = bootLeader /\ stage[p] \in {"barrier", "resolve", "load", "set"} => SecretAt(Len(log)) = Nil
      /\ p = bootLeader => stage[p] = "ready" \/ AdminAt(Len(log)) = Nil
  BY DEF Steady
<1>2. pend' = pend => pend' = [pend EXCEPT ![p] = pend[p]] BY <1>0 DEF BootTypeOK
<1>3. CASE WaitForCleanState(p) BY <1>0, <1>1, <1>2, <1>3, SteadyMove DEF WaitForCleanState, raftVars
<1>4. CASE ResolveJWTSecret(p) BY <1>0, <1>1, <1>2, <1>4, SteadyMove DEF ResolveJWTSecret, raftVars
<1>5. CASE LoadMetaSecret(p) BY <1>0, <1>1, <1>2, <1>5, SteadyMove DEF LoadMetaSecret, raftVars
<1>6. CASE CreateMetaSecret(p)
  <2>1. PICK v \in Values : pend' = [pend EXCEPT ![p] = [kind |-> "secret", value |-> v]]
    BY <1>6 DEF CreateMetaSecret
  <2> QED  BY <1>0, <1>1, <1>6, <2>1, SteadyMove DEF CreateMetaSecret, raftVars
<1>7. CASE CreateNotLeader(p) BY <1>1, <1>7 DEF CreateNotLeader
<1>8. CASE SetSucceeds(p)
  <2>1. /\ p = bootLeader /\ stage[p] = "set" /\ Go(p, "count") /\ pend' = [pend EXCEPT ![p] = Nil]
        /\ pend[p] # Nil /\ log' = Append(log, pend[p]) /\ bootLeader' = bootLeader
    BY <1>8 DEF SetSucceeds, Committed
  <2>2. PICK e \in Entry : e = pend[p] /\ e.kind = "secret" BY <2>1 DEF IInv, BootTypeOK, SetIsSecret
  <2>3. (AdminAt(Len(log)))' = AdminAt(Len(log)) BY <1>0, <2>1, <2>2, AdminStays
  <2>4. \A q \in BootPods : /\ stage'[q] = IF q = p THEN "count" ELSE stage[q]
                            /\ pend'[q] = IF q = p THEN Nil ELSE pend[q]
    BY <1>0, <2>1 DEF BootTypeOK, Go
  <2> QED  BY <1>1, <2>1, <2>3, <2>4 DEF Steady
<1>9. CASE WaitForMetaSecret(p) BY <1>0, <1>1, <1>2, <1>9, SteadyMove DEF WaitForMetaSecret, raftVars
<1>10. CASE CountUsers(p) BY <1>0, <1>1, <1>2, <1>10, SteadyMove DEF CountUsers, raftVars
<1>11. CASE WritePasswordFile(p) BY <1>0, <1>1, <1>2, <1>11, SteadyMove DEF WritePasswordFile, raftVars
<1>12. CASE CreateAdmin(p) BY <1>0, <1>1, <1>12, SteadyMove DEF CreateAdmin, raftVars
<1>13. CASE AdminNotLeader(p) BY <1>0, <1>1, <1>2, <1>13, SteadyMove DEF AdminNotLeader, raftVars
<1>14. CASE AdminCreated(p)
  <2>1. /\ p = bootLeader /\ Go(p, "ready") /\ pend' = [pend EXCEPT ![p] = Nil]
        /\ bootLeader' = bootLeader
    BY <1>14 DEF AdminCreated, Committed
  <2>2. \A q \in BootPods : /\ stage'[q] = IF q = p THEN "ready" ELSE stage[q]
                            /\ pend'[q] = IF q = p THEN Nil ELSE pend[q]
    BY <1>0, <2>1 DEF BootTypeOK, Go
  <2> QED  BY <2>1, <2>2 DEF Steady
<1>15. CASE AdminConflict(p) BY <1>1, <1>15 DEF AdminConflict
<1>16. CASE WaitTimeout(p)
  BY <1>0, <1>1, <1>16, SteadyMove DEF WaitTimeout, FailBoot, StartAgain
<1> QED  BY <1>3, <1>4, <1>5, <1>6, <1>7, <1>8, <1>9, <1>10, <1>11, <1>12, <1>13, <1>14, <1>15, <1>16
            DEF PodStep

LEMMA SteadyNext == IInv /\ FileInv /\ SteadyInv /\ [BootNext]_bootVars => SteadyInv'
<1> SUFFICES ASSUME IInv, FileInv, SteadyInv, [BootNext]_bootVars, bootFaults' = 0 PROVE Steady'
  BY DEF SteadyInv
<1>0. BootTypeOK BY DEF IInv
<1>1. CASE UNCHANGED bootVars
  <2>1. UNCHANGED <<bootLeader, log, pend, stage, bootFaults>> /\ Steady BY <1>1 DEF bootVars, SteadyInv
  <2> QED  BY <2>1, SameLog DEF Steady
<1>2. CASE BootNext
  <2>1. PICK p \in BootPods : PodStep(p) \/ WaitTimeout(p) \/ Advance(p) \/ Apply(p)
                                \/ LeaderChange(p) \/ CrashBoot(p)
    BY <1>2 DEF BootNext
  <2>2. ~LeaderChange(p) /\ ~CrashBoot(p)
    BY <1>0, BootAssumption DEF BootTypeOK, LeaderChange, CrashBoot
  <2>3. bootFaults = 0
    BY <2>1, <2>2 DEF PodStep, WaitForCleanState, ResolveJWTSecret, LoadMetaSecret, CreateMetaSecret,
          CreateNotLeader, SetSucceeds, WaitForMetaSecret, CountUsers, WritePasswordFile, CreateAdmin,
          AdminNotLeader, AdminCreated, AdminConflict, WaitTimeout, Advance, Apply, FailBoot, Committed
  <2>4. FilesOK /\ Steady BY <2>3 DEF FileInv, SteadyInv
  <2>5. CASE PodStep(p) \/ WaitTimeout(p) BY <2>4, <2>5, SteadyPod
  <2>6. CASE Advance(p) \/ Apply(p)
    <3>1. UNCHANGED <<bootLeader, log, pend, stage>> BY <2>6 DEF Advance, Apply
    <3> QED  BY <2>4, <3>1, SameLog DEF Steady
  <2> QED  BY <2>1, <2>2, <2>5, <2>6
<1> QED  BY <1>1, <1>2

LEMMA SteadyInit == BootInit => SteadyInv
<1> SUFFICES ASSUME BootInit PROVE Steady BY DEF SteadyInv
<1> DEFINE c == [kind |-> "config", value |-> Nil]
<1>1. c.kind = "config" /\ log = <<c>> BY DEF BootInit
<1> HIDE DEF c
<1>2. Len(log) = 1 /\ log[1] = c BY <1>1
<1>3. \A i \in 1 .. Len(log) : log[i].kind # "admin" /\ log[i].kind # "secret" BY <1>1, <1>2
<1>4. First(Indices(Len(log), "admin")) = {} /\ Last(Indices(Len(log), "secret")) = {}
  BY <1>3 DEF First, Last, Indices
<1>5. AdminAt(Len(log)) = Nil /\ SecretAt(Len(log)) = Nil BY <1>4 DEF AdminAt, SecretAt, ValueIn
<1> QED  BY <1>5 DEF Steady, BootInit

LEMMA SecretHolds ==
    ASSUME IInv, FilesOK, Steady, [BootNext]_bootVars, SecretAt(Len(log)) # Nil
    PROVE  (SecretAt(Len(log)))' = SecretAt(Len(log))
<1>0. BootTypeOK /\ bootLeader \in BootPods /\ pend \in [BootPods -> Entry \cup {Nil}]
  BY DEF IInv, BootTypeOK
<1>1. ASSUME pend[bootLeader] # Nil, log' = Append(log, pend[bootLeader])
      PROVE  (SecretAt(Len(log)))' = SecretAt(Len(log))
  <2>1. PICK e \in Entry : e = pend[bootLeader] BY <1>0, <1>1
  <2>2. PodOK(stage[bootLeader], e, file[bootLeader]) BY <1>0, <2>1 DEF FilesOK
  <2>3. stage[bootLeader] # "set" BY DEF Steady
  <2>4. e.kind # "secret" BY <1>1, <2>1, <2>2, <2>3 DEF PodOK
  <2> QED  BY <1>0, <1>1, <2>1, <2>4, SecretStays
<1> QED  BY <1>1, LogStep, SameLog DEF LeaderAppends

(* For any number of pods, the secret is replaced by a fault only.           *)
THEOREM SecretStandsUntilFault == BootSpec => SecretStableUntilFault
<1> DEFINE A == bootFaults = 0 /\ SecretAt(Len(log)) # Nil
                  => (SecretAt(Len(log)))' = SecretAt(Len(log))
<1>1. ASSUME IInv, FileInv, SteadyInv, [BootNext]_bootVars PROVE A
  BY <1>1, SecretHolds DEF FileInv, SteadyInv
<1>2. IInv /\ FileInv /\ SteadyInv /\ [BootNext]_bootVars => [A]_bootVars BY <1>1
<1> HIDE DEF A
<1>3. BootSpec => [][A]_bootVars
  BY <1>2, InitFiles, NextFiles, SteadyInit, SteadyNext, Inductive, PTL DEF BootSpec
<1> QED  BY <1>3 DEF A, SecretStableUntilFault
=============================================================================
