-------------------------- MODULE HistoryRetention --------------------------
(* Retention of pipeline history: internal/service/history_purge.go, called   *)
(* by internal/handler/history.go and by the sweeper every pod starts.        *)
(*                                                                           *)
(* Trace rows are replicated; only the leader's delete is applied, and a pod  *)
(* lists the rows its own state machine has applied.  Log lines and metric    *)
(* series are kept by external stores and are deleted first, best effort, by  *)
(* whichever pod purges.  purgeMu serialises the purges of one pod, not those *)
(* of two, and the leader may change while purges go on.                      *)
(* A step is one store call, one read of the state machine or one apply.      *)
EXTENDS Naturals, FiniteSets, Absent

CONSTANTS
    HistPods,       \* supervisor pods
    HistTraces,     \* trace ids
    MaxHistFaults,  \* bound: store calls and applies that fail
    MaxHistMoves,   \* bound: changes of the leader
    MaxBatches      \* bound: telemetry batches that create or change a row

ASSUME HistAssumption == /\ IsFiniteSet(HistTraces) /\ MaxHistFaults \in Nat
                         /\ MaxHistMoves \in Nat /\ MaxBatches \in Nat

VARIABLES
    histLeader, \* the pod that leads
    row,        \* row[t]: [status, old], the replicated trace_meta row, or Nil
    view,       \* view[p]: the rows the state machine of pod p has applied
    telemetry,  \* traces with log lines or series in the external stores
    job,        \* job[p]: the purge that holds purgeMu on pod p
    histFaults, histMoves, batches

histVars == <<histLeader, row, view, telemetry, job, histFaults, histMoves, batches>>

Terminal == {"success", "failed"}
Row == [status: {"running"} \cup Terminal, old: BOOLEAN]

(* steady is history: since it listed, from rows that were all applied, this  *)
(* pod has led.                                                              *)
Job == [kind: {"none", "one", "all", "gc"}, at: {"idle", "list", "loop", "row"},
        todo: SUBSET HistTraces, cur: HistTraces \cup {Nil}, steady: BOOLEAN]

ASSUME NilNotRow == Nil \notin Row

HistTypeOK ==
    /\ histLeader \in HistPods
    /\ row \in [HistTraces -> Row \cup {Nil}]
    /\ view \in [HistPods -> [HistTraces -> Row \cup {Nil}]]
    /\ telemetry \subseteq HistTraces
    /\ job \in [HistPods -> Job]
    /\ histFaults \in 0..MaxHistFaults
    /\ histMoves \in 0..MaxHistMoves
    /\ batches \in 0..MaxBatches

NoJob == [kind |-> "none", at |-> "idle", todo |-> {}, cur |-> Nil, steady |-> FALSE]

HistInit ==
    /\ histLeader \in HistPods
    /\ row = [t \in HistTraces |-> Nil]
    /\ view = [p \in HistPods |-> row]
    /\ telemetry = {}
    /\ job = [p \in HistPods |-> NoJob]
    /\ histFaults = 0 /\ histMoves = 0
    /\ batches = 0

(* A write is applied by the leader, after everything before it in the log.   *)
AppliedByLeader == view' = [view EXCEPT ![histLeader] = row']

Rows(p) == {t \in HistTraces : view[p][t] # Nil}

Counters == <<histLeader, histFaults, histMoves, batches>>

(* --------------------------------------------------- the rest of the world *)

(* A batch is stored and then enriches the row (upsertTraceIngest): a final   *)
(* status is authoritative, "running" never replaces one.  A row without a    *)
(* start time is aged by its last update, so a batch may make it young again. *)
IngestBatch(t, status, movesKey) ==
    /\ batches < MaxBatches
    /\ batches' = batches + 1
    /\ telemetry' = telemetry \cup {t}
    /\ row' = [row EXCEPT ![t] =
                 IF @ = Nil THEN [status |-> status, old |-> FALSE]
                 ELSE [status |-> IF status \in Terminal \/ @.status = "running"
                                    THEN status ELSE @.status,
                       old |-> @.old /\ ~movesKey]]
    /\ AppliedByLeader
    /\ UNCHANGED <<histLeader, job, histFaults, histMoves>>

Aged(rows, t) == IF rows[t] = Nil THEN rows ELSE [rows EXCEPT ![t].old = TRUE]

(* max_age passes since the trace started, on every pod's clock.             *)
GrowsOld(t) ==
    /\ row' = Aged(row, t)
    /\ view' = [p \in HistPods |-> Aged(view[p], t)]
    /\ UNCHANGED <<Counters, telemetry, job>>

(* A pod applies the log up to its end.                                      *)
Replay(p) ==
    /\ view' = [view EXCEPT ![p] = row]
    /\ UNCHANGED <<Counters, row, telemetry, job>>

(* Another pod is elected.                                                   *)
LeaderMoves(p) ==
    /\ p # histLeader /\ histMoves < MaxHistMoves
    /\ histLeader' = p
    /\ histMoves' = histMoves + 1
    /\ job' = [q \in HistPods |-> [job[q] EXCEPT !.steady = FALSE]]
    /\ UNCHANGED <<row, view, telemetry, histFaults, batches>>

(* ------------------------------------------------------------- the purges *)

(* Each purge begins by taking purgeMu.                                      *)
Begin(p, kind, todo, at) ==
    /\ job[p].kind = "none"
    /\ job' = [job EXCEPT ![p] = [kind |-> kind, at |-> at, todo |-> todo, cur |-> Nil,
                                  steady |-> FALSE]]
    /\ UNCHANGED <<Counters, row, view, telemetry>>

(* handleHistoryPurge: one trace, running or not.  Administrative writes are  *)
(* forwarded to the leader.                                                  *)
Purge(t) == Begin(histLeader, "one", {t}, "loop")
PurgeAll == Begin(histLeader, "all", {}, "list")
RunGC(p) == Begin(p, "gc", {}, "list")

(* Mutant of Candidates: the query does not look at the status.              *)
CandidatesAnyStatus(p) == {t \in Rows(p) : view[p][t].old}

(* listTracesBefore, with the running rows left out by the query (PurgeAll)   *)
(* or by the loop (RunGC).                                                   *)
Candidates(p) == {t \in Rows(p) : view[p][t].old /\ view[p][t].status \in Terminal}

Fails == histFaults < MaxHistFaults /\ histFaults' = histFaults + 1

(* When the list cannot be read the purge ends here.                          *)
ListCandidates(p) ==
    /\ job[p].at = "list"
    /\ \/ /\ job' = [job EXCEPT ![p].todo = Candidates(p), ![p].at = "loop",
                                 ![p].steady = (p = histLeader /\ view[p] = row)]
          /\ UNCHANGED histFaults
       \/ Fails /\ job' = [job EXCEPT ![p] = NoJob]
    /\ UNCHANGED <<histLeader, histMoves, row, view, telemetry, batches>>

(* deleteTraceTelemetry: best effort, the row is next whatever happens.       *)
DeleteTelemetry(p, t) ==
    /\ job[p].at = "loop" /\ t \in job[p].todo
    /\ \/ telemetry' = telemetry \ {t} /\ UNCHANGED histFaults
       \/ Fails /\ UNCHANGED telemetry
    /\ job' = [job EXCEPT ![p].at = "row", ![p].cur = t, ![p].todo = @ \ {t}]
    /\ UNCHANGED <<histLeader, histMoves, row, view, batches>>

(* A loop goes on after an error of traceMeta.Delete, a single purge returns  *)
(* it at once.                                                               *)
NextTrace(p) == [job EXCEPT ![p].at = "loop", ![p].cur = Nil]
AfterError(p) == IF job[p].kind = "one" THEN [job EXCEPT ![p] = NoJob] ELSE NextTrace(p)

(* A single purge looks first whether this pod knows the row.                *)
AlreadyPurged(p) ==
    /\ job[p].at = "row" /\ job[p].kind = "one" /\ view[p][job[p].cur] = Nil
    /\ job' = NextTrace(p)
    /\ UNCHANGED <<Counters, row, view, telemetry>>

(* traceMeta.Delete on the leader; deleting a missing row is no error.        *)
DeleteRow(p) ==
    /\ job[p].at = "row" /\ p = histLeader
    /\ job[p].kind = "one" => view[p][job[p].cur] # Nil
    /\ row' = [row EXCEPT ![job[p].cur] = Nil]
    /\ AppliedByLeader
    /\ job' = NextTrace(p)
    /\ UNCHANGED <<Counters, telemetry>>

(* It is refused on a pod that does not lead.  One that fails on the leader   *)
(* (leadership is lost, the wait is cut short) may be committed all the same. *)
DeleteRowFails(p) ==
    /\ job[p].at = "row"
    /\ job[p].kind = "one" => view[p][job[p].cur] # Nil
    /\ \/ p # histLeader /\ UNCHANGED <<row, histFaults>>
       \/ /\ p = histLeader /\ Fails
          /\ row' \in {row, [row EXCEPT ![job[p].cur] = Nil]}
    /\ job' = AfterError(p)
    /\ UNCHANGED <<histLeader, histMoves, view, telemetry, batches>>

(* PurgeAll stops between two traces when its request is cancelled (RunGC     *)
(* only when the supervisor shuts down).                                     *)
Cancelled(p) ==
    /\ job[p].kind = "all" /\ job[p].at = "loop" /\ job[p].todo # {}
    /\ job' = [job EXCEPT ![p].todo = {}]
    /\ UNCHANGED <<Counters, row, view, telemetry>>

(* Mutant of FinishPurge: a purge that met an error keeps the mutex.          *)
FinishPurgeWedged(p) ==
    /\ job[p].at = "loop" /\ job[p].todo = {} /\ histFaults = 0
    /\ job' = [job EXCEPT ![p] = NoJob]
    /\ UNCHANGED <<Counters, row, view, telemetry>>

(* The end of a purge: record the run, release the mutex.  (The cache of     *)
(* Stats, which it drops, is read by nothing here and left out.)             *)
FinishPurge(p) ==
    /\ job[p].at = "loop" /\ job[p].todo = {}
    /\ job' = [job EXCEPT ![p] = NoJob]
    /\ UNCHANGED <<Counters, row, view, telemetry>>

PurgeStep(p) ==
    \/ ListCandidates(p) \/ AlreadyPurged(p) \/ DeleteRow(p) \/ DeleteRowFails(p) \/ FinishPurge(p)
    \/ \E t \in HistTraces : DeleteTelemetry(p, t)

HistNext ==
    \/ \E t \in HistTraces :
          \/ GrowsOld(t) \/ Purge(t)
          \/ \E s \in {"running"} \cup Terminal, k \in BOOLEAN : IngestBatch(t, s, k)
    \/ PurgeAll
    \/ \E p \in HistPods :
          \/ Replay(p) \/ LeaderMoves(p)
          \/ RunGC(p) \/ PurgeStep(p) \/ Cancelled(p)

(* A purge that has the mutex goes on, every pod applies the log, the         *)
(* sweeper's ticker fires and a goroutine waiting for a Go mutex is not       *)
(* starved.                                                                  *)
HistSpec ==
    /\ HistInit /\ [][HistNext]_histVars
    /\ \A p \in HistPods : /\ WF_histVars(PurgeStep(p)) /\ SF_histVars(RunGC(p))
                           /\ WF_histVars(Replay(p))

(* ----------------------------------------------------------- properties -- *)

(* RunGC, PurgeAll: "protecting running traces".  The candidates are listed   *)
(* once and deleted one by one, in time another pod may become leader, sweep  *)
(* the same trace and a batch create it again: a pod then deletes a running   *)
(* trace it had listed as finished.  That takes a change of leader since it   *)
(* listed, or a leader that listed before it had applied the log; apart from  *)
(* it only an administrator's own purge of the trace removes a running one.   *)
HistGcSparesRunning ==
    [][\A t \in HistTraces :
         row[t] # Nil /\ row[t].status = "running" /\ row'[t] = Nil
           => /\ job[histLeader].at = "row" /\ job[histLeader].cur = t
              /\ job[histLeader].kind = "one" \/ ~job[histLeader].steady]_histVars

(* A finished trace past max_age is removed although deletes fail, other pods *)
(* sweep the same rows, leaders come and go and purges compete for the mutex. *)
HistPurged ==
    \A t \in HistTraces :
        []<>~(row[t] # Nil /\ row[t].old /\ row[t].status \in Terminal)
=============================================================================
