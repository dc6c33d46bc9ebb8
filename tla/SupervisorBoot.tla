--------------------------- MODULE SupervisorBoot ---------------------------
(***************************************************************************)
(* How a supervisor pod starts (cmd/api/main.go): initRaftStore waits for  *)
(* a leader and for a clean local state, then resolveJWTSecret takes the    *)
(* cluster's secret from the replicated meta table or creates it, and      *)
(* bootstrapAdmin creates the first admin account, whose generated         *)
(* password it keeps in a recovery file.  token_encryption_key is resolved *)
(* by the same functions as jwt_secret, under a key of its own.            *)
(*                                                                         *)
(* Raft is external.  log holds the entries that survive every election;   *)
(* each pod knows a prefix of it to be committed and has applied a prefix  *)
(* of that to its own state machine, from which it serves its reads.  The  *)
(* commit index is not stored: a pod that starts again knows 0 until it    *)
(* hears from the leader or commits an entry of its own term.  The log      *)
(* begins with the cluster's configuration; no snapshot has been taken yet *)
(* (8192 entries by default).                                              *)
(***************************************************************************)
EXTENDS Naturals, Sequences, Absent

CONSTANTS
    BootPods,
    Values,     \* generated secrets and passwords, small numbers
    MaxBootFaults   \* bound on crashes and changes of leader together

ASSUME BootAssumption ==
    BootPods # {} /\ Values \subseteq Nat /\ MaxBootFaults \in Nat /\ Nil \notin Values

VARIABLES
    bootLeader,
    log,        \* entries that are committed
    commit,     \* commit[p]: the commit index pod p knows
    applied,    \* applied[p]: the prefix in p's state machine
    pend,       \* pend[p]: the entry p waits for in raft.Apply, Nil for none
    stage,      \* where pod p's start-up is
    secret,     \* secret[p]: the JWT secret p signs and verifies with
    file,       \* file[p]: the password in p's recovery file
    bootFaults

bootVars == <<bootLeader, log, commit, applied, pend, stage, secret, file, bootFaults>>
raftVars == <<bootLeader, log, commit, applied>>

Entry == [kind: {"secret", "admin", "config"}, value: Values \cup {Nil}]

Stages == {"barrier", "resolve", "load", "set", "wait", "count", "create", "apply", "ready"}

ASSUME NilNotEntry == Nil \notin Entry

(* Indices stay within the log and in order, values in their sets.          *)
BootTypeOK ==
    /\ bootLeader \in BootPods /\ log \in Seq(Entry) /\ bootFaults \in 0 .. MaxBootFaults
    /\ commit \in [BootPods -> 0 .. Len(log)] /\ applied \in [BootPods -> 0 .. Len(log)]
    /\ \A p \in BootPods : applied[p] <= commit[p]
    /\ pend \in [BootPods -> Entry \cup {Nil}]
    /\ stage \in [BootPods -> Stages]
    /\ secret \in [BootPods -> Values \cup {Nil}]
    /\ file \in [BootPods -> Values \cup {Nil}]

BootInit ==
    /\ bootLeader \in BootPods /\ bootFaults = 0
    /\ log = << [kind |-> "config", value |-> Nil] >>
    /\ commit = [p \in BootPods |-> 0] /\ applied = [p \in BootPods |-> 0]
    /\ pend = [p \in BootPods |-> Nil]
    /\ stage = [p \in BootPods |-> "barrier"]
    /\ secret = [p \in BootPods |-> Nil]
    /\ file = [p \in BootPods |-> Nil]

-----------------------------------------------------------------------------
(* The state machine after n entries (module MetaFSM): setMeta overwrites,  *)
(* upsertUser refuses a name that is taken, so the first admin stays.       *)

Indices(n, kind) == {i \in 1 .. n : log[i].kind = kind}
Last(S)  == {i \in S : \A j \in S : j <= i}
First(S) == {i \in S : \A j \in S : i <= j}
ValueIn(S) == IF S = {} THEN Nil ELSE log[CHOOSE i \in S : TRUE].value

SecretAt(n) == ValueIn(Last(Indices(n, "secret")))
AdminAt(n)  == ValueIn(First(Indices(n, "admin")))

InUse == {log[i].value : i \in 1 .. Len(log)} \cup {pend[p].value : p \in {q \in BootPods : pend[q] # Nil}}
           \cup {secret[p] : p \in BootPods} \cup {file[p] : p \in BootPods}

(* rand.Read: a value nobody has.                                           *)
FreshValue(v) == v \in Values \ InUse /\ \A w \in Values \ InUse : v <= w

-----------------------------------------------------------------------------
(* Raft.                                                                    *)

(* The leader commits the first entry of its term, and with it every entry  *)
(* before; a follower learns the leader's commit index.                     *)
Advance(p) ==
    /\ commit' = [commit EXCEPT ![p] = IF p = bootLeader THEN Len(log) ELSE commit[bootLeader]]
    /\ commit'[p] > commit[p]
    /\ UNCHANGED <<bootLeader, log, applied, pend, stage, secret, file, bootFaults>>

Apply(p) ==
    /\ applied[p] < commit[p]
    /\ applied' = [applied EXCEPT ![p] = commit[p]]
    /\ UNCHANGED <<bootLeader, log, commit, pend, stage, secret, file, bootFaults>>

\* Mutation: the future of raft.Apply is not waited for.
CommittedUnchecked(p) ==
    /\ p = bootLeader /\ pend[p] # Nil
    /\ pend' = [pend EXCEPT ![p] = Nil]
    /\ UNCHANGED <<bootLeader, log, commit, applied, bootFaults>>

(* raft.Apply succeeds on pod p: the entry is the last one, and p has       *)
(* applied it.                                                              *)
Committed(p) ==
    /\ p = bootLeader /\ pend[p] # Nil
    /\ log' = Append(log, pend[p])
    /\ commit' = [commit EXCEPT ![p] = Len(log')]
    /\ applied' = [applied EXCEPT ![p] = Len(log')]
    /\ pend' = [pend EXCEPT ![p] = Nil]
    /\ UNCHANGED <<bootLeader, bootFaults>>

(* An entry the leader had not committed when it was deposed is kept or     *)
(* dropped by its successor; nobody tells the caller which.                 *)
Deposed ==
    \/ UNCHANGED log
    \/ pend[bootLeader] # Nil /\ log' = Append(log, pend[bootLeader])

-----------------------------------------------------------------------------
(* initRaftStore.                                                           *)

Go(p, s) == stage' = [stage EXCEPT ![p] = s]

(* IsCleanState; WaitForLeader has passed too, since there is a leader.     *)
CleanState(p) == applied[p] = commit[p] /\ (p # bootLeader => commit[p] > 0)

WaitForCleanState(p) ==
    /\ stage[p] = "barrier" /\ CleanState(p)
    /\ Go(p, "resolve")
    /\ UNCHANGED <<raftVars, pend, secret, file, bootFaults>>

(* resolveJWTSecret: the role is looked at once.                            *)
ResolveJWTSecret(p) ==
    /\ stage[p] = "resolve"
    /\ Go(p, IF p = bootLeader THEN "load" ELSE "wait")
    /\ UNCHANGED <<raftVars, pend, secret, file, bootFaults>>

\* Mutation: the state machine outlives the store it was replayed from.
StartAgainKeepsApplied(p) ==
    /\ commit' = [commit EXCEPT ![p] = 0]
    /\ pend' = [pend EXCEPT ![p] = Nil]
    /\ secret' = [secret EXCEPT ![p] = Nil]
    /\ Go(p, "barrier")
    /\ UNCHANGED applied
    /\ IF p = bootLeader THEN bootLeader' \in BootPods /\ Deposed ELSE UNCHANGED <<bootLeader, log>>

(* Everything in memory is lost: the commit index, the state machine, the   *)
(* secret and the caller of raft.Apply.                                     *)
StartAgain(p) ==
    /\ commit' = [commit EXCEPT ![p] = 0] /\ applied' = [applied EXCEPT ![p] = 0]
    /\ pend' = [pend EXCEPT ![p] = Nil]
    /\ secret' = [secret EXCEPT ![p] = Nil]
    /\ Go(p, "barrier")
    /\ IF p = bootLeader THEN bootLeader' \in BootPods /\ Deposed ELSE UNCHANGED <<bootLeader, log>>

(* initRaftStore returns an error, or main does: the store is closed and    *)
(* opened again, in the same process or in the next one.                    *)
FailBoot(p) == StartAgain(p) /\ UNCHANGED <<file, bootFaults>>

(* loadOrCreateMetaSecret: the local value, or a new one for ms.Set.        *)
LoadMetaSecret(p) ==
    /\ stage[p] = "load" /\ SecretAt(applied[p]) # Nil
    /\ secret' = [secret EXCEPT ![p] = SecretAt(applied[p])]
    /\ Go(p, "count")
    /\ UNCHANGED <<raftVars, pend, file, bootFaults>>

CreateMetaSecret(p) ==
    /\ stage[p] = "load" /\ SecretAt(applied[p]) = Nil /\ p = bootLeader
    /\ \E v \in Values :
          FreshValue(v) /\ pend' = [pend EXCEPT ![p] = [kind |-> "secret", value |-> v]]
    /\ Go(p, "set")
    /\ UNCHANGED <<raftVars, secret, file, bootFaults>>

(* Set on a pod that lost leadership returns ErrNotLeader.                  *)
CreateNotLeader(p) ==
    /\ stage[p] = "load" /\ SecretAt(applied[p]) = Nil /\ p # bootLeader
    /\ FailBoot(p)

SetSucceeds(p) ==
    /\ stage[p] = "set" /\ Committed(p)
    /\ secret' = [secret EXCEPT ![p] = pend[p].value]
    /\ Go(p, "count")
    /\ UNCHANGED file

(* waitForMetaSecret polls the local state machine.  The timeout is long    *)
(* against replication, so it ends only a wait for a value nobody created.  *)
WaitForMetaSecret(p) ==
    /\ stage[p] = "wait" /\ SecretAt(applied[p]) # Nil
    /\ secret' = [secret EXCEPT ![p] = SecretAt(applied[p])]
    /\ Go(p, "count")
    /\ UNCHANGED <<raftVars, pend, file, bootFaults>>

\* Mutation: the wait has no deadline.
WaitTimeoutNever(p) == FALSE /\ UNCHANGED bootVars

WaitTimeout(p) ==
    /\ stage[p] = "wait" /\ SecretAt(Len(log)) = Nil
    /\ \A q \in BootPods : pend[q] = Nil
    /\ FailBoot(p)

-----------------------------------------------------------------------------
(* bootstrapAdmin.                                                          *)

CountUsers(p) ==
    /\ stage[p] = "count" /\ AdminAt(applied[p]) # Nil
    /\ Go(p, "ready")
    /\ UNCHANGED <<raftVars, pend, secret, file, bootFaults>>

(* No user in the local state machine: the recovery file is written first.  *)
WritePasswordFile(p) ==
    /\ stage[p] = "count" /\ AdminAt(applied[p]) = Nil
    /\ \E v \in Values : FreshValue(v) /\ file' = [file EXCEPT ![p] = v]
    /\ Go(p, "create")
    /\ UNCHANGED <<raftVars, pend, secret, bootFaults>>

CreateAdmin(p) ==
    /\ stage[p] = "create" /\ p = bootLeader
    /\ pend' = [pend EXCEPT ![p] = [kind |-> "admin", value |-> file[p]]]
    /\ Go(p, "apply")
    /\ UNCHANGED <<raftVars, secret, file, bootFaults>>

\* Mutation: the stale copy of a pod that did not create the account stays.
RemoveFileForgotten(p) == UNCHANGED file

RemoveFile(p) == file' = [file EXCEPT ![p] = Nil]

(* ErrNotLeader: the stale copy is dropped and start-up goes on.            *)
AdminNotLeader(p) ==
    /\ stage[p] = "create" /\ p # bootLeader
    /\ RemoveFile(p)
    /\ Go(p, "ready")
    /\ UNCHANGED <<raftVars, pend, secret, bootFaults>>

AdminCreated(p) ==
    /\ stage[p] = "apply" /\ AdminAt(Len(log)) = Nil
    /\ Committed(p)
    /\ Go(p, "ready")
    /\ UNCHANGED <<secret, file>>

(* The name is taken: the command is committed without effect, the stale    *)
(* copy dropped, and main returns the error.                                *)
AdminConflict(p) ==
    /\ stage[p] = "apply" /\ AdminAt(Len(log)) # Nil
    /\ p = bootLeader
    /\ RemoveFile(p)
    /\ commit' = [commit EXCEPT ![p] = 0] /\ applied' = [applied EXCEPT ![p] = 0]
    /\ pend' = [pend EXCEPT ![p] = Nil]
    /\ secret' = [secret EXCEPT ![p] = Nil]
    /\ Go(p, "barrier")
    /\ bootLeader' \in BootPods
    /\ UNCHANGED <<log, bootFaults>>

-----------------------------------------------------------------------------
(* Faults.                                                                  *)

(* Another pod is elected.  A call of the old leader returns ErrLeadership- *)
(* Lost, which mapApplyError turns into ErrNotLeader.                       *)
LeaderChange(p) ==
    /\ bootFaults < MaxBootFaults /\ p # bootLeader
    /\ bootFaults' = bootFaults + 1 /\ bootLeader' = p
    /\ Deposed
    /\ pend' = [pend EXCEPT ![bootLeader] = Nil]
    /\ CASE stage[bootLeader] = "set" ->
              /\ Go(bootLeader, "barrier")
              /\ commit' = [commit EXCEPT ![bootLeader] = 0]
              /\ applied' = [applied EXCEPT ![bootLeader] = 0]
              /\ UNCHANGED <<secret, file>>
         [] stage[bootLeader] = "apply" ->
              /\ Go(bootLeader, "ready") /\ RemoveFile(bootLeader)
              /\ UNCHANGED <<commit, applied, secret>>
         [] OTHER -> UNCHANGED <<commit, applied, stage, secret, file>>

CrashBoot(p) ==
    /\ bootFaults < MaxBootFaults
    /\ bootFaults' = bootFaults + 1
    /\ StartAgain(p)
    /\ UNCHANGED file

-----------------------------------------------------------------------------
PodStep(p) ==
    \/ WaitForCleanState(p) \/ ResolveJWTSecret(p) \/ LoadMetaSecret(p)
    \/ CreateMetaSecret(p) \/ CreateNotLeader(p) \/ SetSucceeds(p)
    \/ WaitForMetaSecret(p) \/ CountUsers(p) \/ WritePasswordFile(p)
    \/ CreateAdmin(p) \/ AdminNotLeader(p) \/ AdminCreated(p) \/ AdminConflict(p)

BootNext == \E p \in BootPods : \/ PodStep(p) \/ WaitTimeout(p)
                        \/ Advance(p) \/ Apply(p)
                        \/ LeaderChange(p) \/ CrashBoot(p)

BootSpec == BootInit /\ [][BootNext]_bootVars

(* Start-up code runs, Raft makes progress and a wait is bounded.           *)
BootFairness ==
    \A p \in BootPods : /\ WF_bootVars(PodStep(p)) /\ WF_bootVars(WaitTimeout(p))
                    /\ WF_bootVars(Advance(p)) /\ WF_bootVars(Apply(p))

BootFairSpec == BootSpec /\ BootFairness

-----------------------------------------------------------------------------
(* Properties.                                                              *)

(* A secret a pod signs with is in the log: no pod, whether it created,     *)
(* loaded or waited for the secret, hands out tokens that no other pod      *)
(* could ever verify.                                                       *)
SecretReplicated ==
    \A p \in BootPods : secret[p] # Nil
       => \E i \in 1 .. Len(log) : log[i] = [kind |-> "secret", value |-> secret[p]]

(* waitForMetaSecret: "the value, once replicated, is stable".              *)
SecretStable ==
    [][SecretAt(Len(log)) # Nil => (SecretAt(Len(log)))' = SecretAt(Len(log))]_bootVars

(* bootstrapAdmin: the password is written "BEFORE the user is created, so  *)
(* a usable recovery copy exists before the credential does", and a stale   *)
(* copy is dropped "so only the creator pod holds a recovery file": the     *)
(* password of the admin account is in some pod's file, and a pod that is   *)
(* up has no other, as long as nothing has failed.                          *)
RecoveryFileExact ==
    bootFaults = 0 =>
        /\ AdminAt(Len(log)) # Nil => \E p \in BootPods : file[p] = AdminAt(Len(log))
        /\ \A p \in BootPods :
             stage[p] = "ready" /\ file[p] # Nil => file[p] = AdminAt(Len(log))

(* Once leadership settles every pod comes up and stays up, although the    *)
(* role is looked at once and a pod that became leader later waits for a    *)
(* secret that only it could create.                                        *)
AllReady == \A p \in BootPods : stage[p] = "ready"
ComesUp == (\E p \in BootPods : <>[](bootLeader = p)) => <>[]AllReady
=============================================================================
