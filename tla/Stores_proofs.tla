---------------------------- MODULE Stores_proofs ----------------------------
(* Proofs about what the supervisor stores and deletes: the sweep of old      *)
(* traces, the purge of engine caches, the CLI archives and the mirrored      *)
(* images, for any number of pods, traces, volumes, versions, requests and   *)
(* tags.  The four modules share no state; each part has its own invariant.  *)
EXTENDS HistoryRetention, CachePurge, CLICache, ImageCache, FiniteSetTheorems,
        WellFoundedInduction, TLAPS

(* ------------------------------------------------------ HistoryRetention -- *)

(* The action property is not inductive.  Between listing the candidates and  *)
(* deleting them nobody else removes a row as long as this pod leads, since   *)
(* purgeMu is held, and a batch never turns a final status back: what a       *)
(* steady loop has left to do, and the trace it is at, stay finished.         *)
Finished(t) == row[t] # Nil /\ row[t].status \in Terminal

LoopShape == \A p \in HistPods : /\ job[p].kind = "none" <=> job[p].at = "idle"
                                 /\ job[p].at = "row" => job[p].cur \in HistTraces \ job[p].todo
                                 /\ job[p].at = "list" => job[p].kind # "one"

LoopFinished == \A p \in HistPods : job[p].steady =>
                   /\ p = histLeader /\ job[p].kind # "one"
                   /\ \A t \in job[p].todo : Finished(t)
                   /\ job[p].at = "row" => Finished(job[p].cur)

HistInv == HistTypeOK /\ LoopShape /\ LoopFinished

HistRows == [HistTraces -> Row \cup {Nil}]

LEMMA HistInitInv == HistInit => HistInv
<1> SUFFICES ASSUME HistInit PROVE HistInv OBVIOUS
<1> USE HistAssumption
<1>1. NoJob \in Job BY DEF NoJob, Job
<1>2. HistTypeOK BY <1>1 DEF HistInit, HistTypeOK
<1>3. LoopShape /\ LoopFinished BY DEF HistInit, LoopShape, LoopFinished, NoJob
<1>4. QED BY <1>2, <1>3 DEF HistInv

(* Time passes over a set of rows without changing a status.                 *)
LEMMA AgedRows ==
    ASSUME NEW rows \in HistRows, NEW t \in HistTraces
    PROVE  /\ Aged(rows, t) \in HistRows
           /\ \A u \in HistTraces : /\ Aged(rows, t)[u] = Nil <=> rows[u] = Nil
                                    /\ rows[u] # Nil => Aged(rows, t)[u].status = rows[u].status
<1>1. CASE rows[t] = Nil BY <1>1 DEF Aged
<1>2. CASE rows[t] # Nil
  <2>1. rows[t] \in Row BY <1>2 DEF HistRows
  <2>2. PICK new : new = [rows[t] EXCEPT !.old = TRUE] OBVIOUS
  <2>3. new \in Row /\ new.status = rows[t].status BY <2>1, <2>2 DEF Row
  <2>4. Aged(rows, t) = [rows EXCEPT ![t] = new] BY <1>2, <2>2 DEF Aged, HistRows
  <2>5. Nil \notin Row BY NilNotRow
  <2>6. QED BY <1>2, <2>3, <2>4, <2>5 DEF HistRows
<1>3. QED BY <1>1, <1>2

(* Batches and time: rows that were finished stay so.                        *)
LEMMA HistWorldKeeps ==
    ASSUME HistInv, NEW t \in HistTraces,
           GrowsOld(t) \/ \E s \in {"running"} \cup Terminal, k \in BOOLEAN : IngestBatch(t, s, k)
    PROVE  HistInv' /\ \A u \in HistTraces : row[u] # Nil => row'[u] # Nil
<1>0. /\ row \in HistRows /\ histLeader \in HistPods
      /\ view \in [HistPods -> HistRows]
  BY DEF HistInv, HistTypeOK, HistRows
<1>1. /\ row' \in HistRows /\ view' \in [HistPods -> HistRows]
      /\ \A u \in HistTraces : /\ Finished(u) => Finished(u)'
                               /\ row[u] # Nil => row'[u] # Nil
  <2>1. row[t] = Nil \/ row[t] \in Row BY <1>0 DEF HistRows
  <2>2. CASE GrowsOld(t)
    <3>1. row' = Aged(row, t) /\ view' = [p \in HistPods |-> Aged(view[p], t)]
      BY <2>2 DEF GrowsOld
    <3>2. row' \in HistRows
          /\ \A u \in HistTraces : /\ row'[u] = Nil <=> row[u] = Nil
                                   /\ row[u] # Nil => row'[u].status = row[u].status
      BY <3>1, <1>0, AgedRows
    <3>3. ASSUME NEW p \in HistPods PROVE Aged(view[p], t) \in HistRows
      BY <1>0, AgedRows
    <3>4. QED BY <3>1, <3>2, <3>3 DEF Finished
  <2>3. ASSUME NEW s \in {"running"} \cup Terminal, NEW k \in BOOLEAN, IngestBatch(t, s, k)
        PROVE  <1>1!1 /\ <1>1!2
    <3> DEFINE st == IF s \in Terminal \/ row[t].status = "running" THEN s ELSE row[t].status
               o == row[t].old /\ ~k
    <3>1. o \in BOOLEAN OBVIOUS
    <3>2. row[t] # Nil => /\ st \in {"running"} \cup Terminal
                          /\ row[t].status \in Terminal => st \in Terminal
      BY <2>1 DEF Row
    <3>3. row' = [row EXCEPT ![t] = IF row[t] = Nil THEN [status |-> s, old |-> FALSE]
                                    ELSE [status |-> st, old |-> o]]
      BY <2>3, <1>0 DEF IngestBatch, HistRows
    <3> HIDE DEF st, o
    <3>4. row[t] # Nil => [status |-> st, old |-> o] \in Row BY <3>1, <3>2 DEF Row
    <3>5. [status |-> s, old |-> FALSE] \in Row BY DEF Row
    <3>6. row' \in HistRows BY <3>3, <3>4, <3>5, <1>0 DEF HistRows
    <3>7. Nil \notin Row BY NilNotRow
    <3>8. \A u \in HistTraces : row[u] # Nil => row'[u] # Nil
      BY <3>3, <3>4, <3>5, <3>7, <1>0 DEF HistRows
    <3>9. \A u \in HistTraces : Finished(u) => Finished(u)'
      BY <3>2, <3>3, <3>4, <3>5, <3>8, <1>0 DEF HistRows, Finished
    <3>10. view' \in [HistPods -> HistRows]
      BY <2>3, <3>6, <1>0 DEF IngestBatch, AppliedByLeader
    <3>11. QED BY <3>6, <3>8, <3>9, <3>10
  <2>4. QED BY <2>2, <2>3
<1>2. HistTypeOK'
  BY <1>1, HistAssumption DEF HistInv, HistTypeOK, GrowsOld, IngestBatch, HistRows, Counters
<1>4. UNCHANGED <<job, histLeader>> BY DEF GrowsOld, IngestBatch, Counters
<1>5. LoopShape' BY <1>4 DEF HistInv, LoopShape
<1>6. LoopFinished'
  BY <1>1, <1>4, HistAssumption DEF HistInv, LoopShape, LoopFinished, HistTypeOK, Job
<1>7. QED BY <1>1, <1>2, <1>5, <1>6 DEF HistInv

(* A pod applies the log; another one is elected, and no loop is steady.      *)
LEMMA HistRaftKeeps ==
    ASSUME HistInv, NEW p \in HistPods, Replay(p) \/ LeaderMoves(p)
    PROVE  HistInv'
<1>1. CASE Replay(p)
  <2>1. HistTypeOK' BY <1>1 DEF HistInv, HistTypeOK, Replay, Counters
  <2>2. LoopShape' /\ LoopFinished'
    BY <1>1 DEF HistInv, LoopShape, LoopFinished, Finished, Replay, Counters
  <2>3. QED BY <2>1, <2>2 DEF HistInv
<1>2. CASE LeaderMoves(p)
  <2>1. ASSUME NEW q \in HistPods
        PROVE  job'[q] \in Job /\ job'[q].kind = job[q].kind /\ job'[q].at = job[q].at
               /\ job'[q].todo = job[q].todo /\ job'[q].cur = job[q].cur /\ ~job'[q].steady
    BY <1>2 DEF HistInv, HistTypeOK, LeaderMoves, Job
  <2>2. job' = [q \in HistPods |-> [job[q] EXCEPT !.steady = FALSE]] BY <1>2 DEF LeaderMoves
  <2>3. job' \in [HistPods -> Job] BY <2>1, <2>2
  <2>4. HistTypeOK' BY <1>2, <2>3, HistAssumption DEF HistInv, HistTypeOK, LeaderMoves
  <2>5. LoopShape' BY <2>1 DEF HistInv, LoopShape
  <2>6. LoopFinished' BY <2>1 DEF LoopFinished
  <2>7. QED BY <2>4, <2>5, <2>6 DEF HistInv
<1>3. QED BY <1>1, <1>2

LEMMA HistStartKeeps ==
    ASSUME HistInv, NEW p \in HistPods,
           NEW kind \in {"one", "all", "gc"}, NEW todo \in SUBSET HistTraces,
           NEW at \in {"list", "loop"}, at = "list" => kind # "one", Begin(p, kind, todo, at)
    PROVE  HistInv'
<1>1. PICK new : new = [kind |-> kind, at |-> at, todo |-> todo, cur |-> Nil, steady |-> FALSE]
  OBVIOUS
<1>2. new \in Job /\ new.kind # "none" /\ new.at \in {"list", "loop"} /\ ~new.steady
      /\ (new.at = "list" => new.kind # "one")
  BY <1>1 DEF Job
<1>3. job' = [job EXCEPT ![p] = new] BY <1>1 DEF Begin
<1>4. HistTypeOK' BY <1>2, <1>3 DEF HistInv, HistTypeOK, Begin, Counters
<1>5. LoopShape' BY <1>2, <1>3 DEF HistInv, HistTypeOK, LoopShape
<1>6. LoopFinished'
  BY <1>2, <1>3 DEF HistInv, HistTypeOK, LoopFinished, Finished, Begin, Counters
<1>7. QED BY <1>4, <1>5, <1>6 DEF HistInv

LEMMA HistListKeeps ==
    ASSUME HistInv, NEW p \in HistPods, ListCandidates(p)
    PROVE  HistInv'
<1>1. Candidates(p) \subseteq HistTraces
      /\ (view[p] = row => \A t \in Candidates(p) : Finished(t))
  BY DEF Candidates, Rows, Finished
<1>2. NoJob \in Job /\ NoJob.kind = "none" /\ NoJob.at = "idle" /\ ~NoJob.steady BY DEF Job, NoJob
<1>3. job \in [HistPods -> Job] /\ job[p].kind # "none" BY DEF HistInv, HistTypeOK, LoopShape, ListCandidates
<1>4. PICK b \in BOOLEAN : b = (p = histLeader /\ view[p] = row) OBVIOUS
<1>5. PICK new : new = [job[p] EXCEPT !.todo = Candidates(p), !.at = "loop", !.steady = b] OBVIOUS
<1>6. new \in Job /\ new.kind = job[p].kind /\ new.at = "loop" /\ new.todo = Candidates(p)
      /\ new.steady = b
  BY <1>1, <1>3, <1>5 DEF Job
<1>7. job' = [job EXCEPT ![p] = new] \/ job' = [job EXCEPT ![p] = NoJob]
  BY <1>3, <1>4, <1>5 DEF ListCandidates
<1>8. HistTypeOK'
  <2>1. job' \in [HistPods -> Job] BY <1>2, <1>3, <1>6, <1>7
  <2>2. histFaults' \in 0 .. MaxHistFaults
    BY HistAssumption DEF HistInv, HistTypeOK, ListCandidates, Fails
  <2>3. UNCHANGED <<histLeader, histMoves, row, view, telemetry, batches>> BY DEF ListCandidates
  <2>4. QED BY <2>1, <2>2, <2>3 DEF HistInv, HistTypeOK
<1>9. LoopShape' BY <1>2, <1>3, <1>6, <1>7 DEF HistInv, LoopShape
<1>10. UNCHANGED <<row, histLeader>> BY DEF ListCandidates
<1>11. job[p].kind # "one" BY DEF HistInv, LoopShape, ListCandidates
<1>12. LoopFinished'
  BY <1>1, <1>2, <1>3, <1>4, <1>6, <1>7, <1>10, <1>11 DEF HistInv, LoopFinished, Finished
<1>13. QED BY <1>8, <1>9, <1>12 DEF HistInv

LEMMA HistTelemetryKeeps ==
    ASSUME HistInv, NEW p \in HistPods, NEW t \in HistTraces, DeleteTelemetry(p, t)
    PROVE  HistInv'
<1>1. PICK new : new = [job[p] EXCEPT !.at = "row", !.cur = t, !.todo = @ \ {t}] OBVIOUS
<1>2. job[p] \in Job /\ t \in job[p].todo /\ job[p].kind # "none"
  BY DEF HistInv, HistTypeOK, LoopShape, DeleteTelemetry
<1>3. new \in Job /\ new.kind = job[p].kind /\ new.at = "row" /\ new.cur = t
      /\ new.todo = job[p].todo \ {t} /\ new.steady = job[p].steady
  BY <1>1, <1>2 DEF Job
<1>4. job' = [job EXCEPT ![p] = new]
  BY <1>1 DEF DeleteTelemetry, HistInv, HistTypeOK
<1>5. HistTypeOK'
  <2>1. job' \in [HistPods -> Job] BY <1>3, <1>4 DEF HistInv, HistTypeOK
  <2>2. telemetry' \subseteq HistTraces BY DEF HistInv, HistTypeOK, DeleteTelemetry
  <2>3. histFaults' \in 0 .. MaxHistFaults
    BY HistAssumption DEF HistInv, HistTypeOK, DeleteTelemetry, Fails
  <2>4. UNCHANGED <<histLeader, histMoves, row, view, batches>> BY DEF DeleteTelemetry
  <2>5. QED BY <2>1, <2>2, <2>3, <2>4 DEF HistInv, HistTypeOK
<1>6. LoopShape' BY <1>2, <1>3, <1>4 DEF HistInv, HistTypeOK, LoopShape
<1>7. UNCHANGED <<row, histLeader>> BY DEF DeleteTelemetry
<1>8. LoopFinished'
  BY <1>2, <1>3, <1>4, <1>7 DEF HistInv, HistTypeOK, LoopFinished, Finished
<1>9. QED BY <1>5, <1>6, <1>8 DEF HistInv

(* The job of pod p goes to its next trace, with an error or without; at most *)
(* the row it was at is gone.                                                *)
LEMMA HistRowKeeps ==
    ASSUME HistInv, NEW p \in HistPods, AlreadyPurged(p) \/ DeleteRow(p) \/ DeleteRowFails(p)
    PROVE  HistInv'
<1>0. /\ job \in [HistPods -> Job] /\ job[p].kind # "none" /\ job[p].at = "row"
      /\ job[p].cur \in HistTraces \ job[p].todo /\ row \in HistRows
      /\ histLeader \in HistPods /\ view \in [HistPods -> HistRows]
  BY DEF HistInv, HistTypeOK, HistRows, LoopShape, AlreadyPurged, DeleteRow, DeleteRowFails
<1>1. NoJob \in Job /\ NoJob.kind = "none" /\ NoJob.at = "idle" /\ ~NoJob.steady BY DEF Job, NoJob
<1>2. PICK new : new = [job[p] EXCEPT !.at = "loop", !.cur = Nil] OBVIOUS
<1>3. new \in Job /\ new.kind = job[p].kind /\ new.at = "loop" /\ new.todo = job[p].todo
      /\ new.steady = job[p].steady
  BY <1>0, <1>2 DEF Job
<1>4. job' = [job EXCEPT ![p] = new] \/ job' = [job EXCEPT ![p] = NoJob]
  BY <1>0, <1>2 DEF AlreadyPurged, DeleteRow, DeleteRowFails, AfterError, NextTrace
<1>5. /\ row' = row \/ (p = histLeader /\ row' = [row EXCEPT ![job[p].cur] = Nil])
      /\ histLeader' = histLeader
  BY DEF AlreadyPurged, DeleteRow, DeleteRowFails, Counters
<1>6. /\ row' \in HistRows
      /\ \A u \in HistTraces : (p = histLeader /\ u = job[p].cur) \/ row'[u] = row[u]
  BY <1>0, <1>5 DEF HistRows
<1>7. view' \in [HistPods -> HistRows]
  BY <1>0, <1>6 DEF AlreadyPurged, DeleteRow, DeleteRowFails, AppliedByLeader
<1>8. job' \in [HistPods -> Job] BY <1>0, <1>1, <1>3, <1>4
<1>9. /\ telemetry' = telemetry /\ batches' = batches /\ histMoves' = histMoves
      /\ histFaults' \in 0 .. MaxHistFaults
  BY HistAssumption
     DEF HistInv, HistTypeOK, AlreadyPurged, DeleteRow, DeleteRowFails, Counters, Fails
<1>10. HistTypeOK' BY <1>0, <1>5, <1>6, <1>7, <1>8, <1>9 DEF HistInv, HistTypeOK, HistRows
<1>11. LoopShape' BY <1>0, <1>1, <1>3, <1>4 DEF HistInv, LoopShape
<1>12. LoopFinished'
  <2> SUFFICES ASSUME NEW q \in HistPods, job'[q].steady
               PROVE  (/\ q = histLeader /\ job[q].kind # "one"
                       /\ \A t \in job[q].todo : Finished(t)
                       /\ job[q].at = "row" => Finished(job[q].cur))'
    BY DEF LoopFinished
  <2>1. CASE q = p
    <3>1. job'[p] = new BY <1>0, <1>1, <1>4, <2>1
    <3>2. job[p].steady /\ job[p].todo \subseteq HistTraces BY <1>0, <1>3, <2>1, <3>1 DEF Job
    <3>3. /\ p = histLeader /\ job[p].kind # "one"
          /\ \A t \in job[p].todo : Finished(t)
      BY <3>2 DEF HistInv, LoopFinished
    <3>4. \A t \in job[p].todo : row'[t] = row[t] BY <1>0, <1>6, <3>2
    <3>5. QED BY <1>3, <1>5, <2>1, <3>1, <3>3, <3>4 DEF Finished
  <2>2. CASE q # p
    <3>1. job'[q] = job[q] BY <1>0, <1>4, <2>2
    <3>2. q = histLeader BY <3>1 DEF HistInv, LoopFinished
    <3>3. row' = row /\ histLeader' = histLeader BY <1>5, <2>2, <3>2
    <3>4. QED BY <3>1, <3>3 DEF HistInv, LoopFinished, Finished
  <2>3. QED BY <2>1, <2>2
<1>13. QED BY <1>10, <1>11, <1>12 DEF HistInv

LEMMA HistEndKeeps ==
    ASSUME HistInv, NEW p \in HistPods, Cancelled(p) \/ FinishPurge(p)
    PROVE  HistInv'
<1>0. NoJob \in Job /\ NoJob.kind = "none" /\ NoJob.at = "idle" /\ ~NoJob.steady BY DEF Job, NoJob
<1>1. PICK new : new = [job[p] EXCEPT !.todo = {}] OBVIOUS
<1>2. job \in [HistPods -> Job] BY DEF HistInv, HistTypeOK
<1>3. new \in Job /\ new.kind = job[p].kind /\ new.at = job[p].at /\ new.todo = {}
      /\ new.cur = job[p].cur /\ new.steady = job[p].steady
  BY <1>1, <1>2 DEF Job
<1>4. job' = [job EXCEPT ![p] = new] \/ job' = [job EXCEPT ![p] = NoJob]
  BY <1>1, <1>2 DEF Cancelled, FinishPurge
<1>5. HistTypeOK' BY <1>0, <1>3, <1>4 DEF HistInv, HistTypeOK, Cancelled, FinishPurge, Counters
<1>6. LoopShape' BY <1>0, <1>2, <1>3, <1>4 DEF HistInv, LoopShape
<1>7. UNCHANGED <<row, histLeader>> BY DEF Cancelled, FinishPurge, Counters
<1>8. LoopFinished'
  BY <1>0, <1>2, <1>3, <1>4, <1>7 DEF HistInv, LoopFinished, Finished
<1>9. QED BY <1>5, <1>6, <1>8 DEF HistInv

LEMMA HistNextInv == HistInv /\ [HistNext]_histVars => HistInv'
<1> SUFFICES ASSUME HistInv, [HistNext]_histVars PROVE HistInv' OBVIOUS
<1>1. CASE UNCHANGED histVars
  BY <1>1 DEF HistInv, HistTypeOK, LoopShape, LoopFinished, Finished, histVars
<1>2. ASSUME NEW t \in HistTraces, Purge(t) PROVE HistInv'
  <2>1. histLeader \in HistPods BY DEF HistInv, HistTypeOK
  <2>2. QED BY <1>2, <2>1, HistStartKeeps DEF Purge
<1>3. ASSUME PurgeAll PROVE HistInv'
  <2>1. histLeader \in HistPods BY DEF HistInv, HistTypeOK
  <2>2. QED BY <1>3, <2>1, HistStartKeeps DEF PurgeAll
<1>4. ASSUME NEW p \in HistPods, RunGC(p) PROVE HistInv' BY <1>4, HistStartKeeps DEF RunGC
<1>5. QED
  BY <1>1, <1>2, <1>3, <1>4, HistWorldKeeps, HistRaftKeeps, HistListKeeps, HistTelemetryKeeps,
     HistRowKeeps, HistEndKeeps
     DEF HistNext, PurgeStep

THEOREM HistInductive == HistSpec => []HistInv
BY HistInitInv, HistNextInv, PTL DEF HistSpec

(* Every reachable state of retention is well typed.                         *)
THEOREM HistTypeHolds == HistSpec => []HistTypeOK
<1>1. HistInv => HistTypeOK BY DEF HistInv
<1>2. QED BY <1>1, HistInductive, PTL

(* A step that removes a running row is the administrator's own purge of it,  *)
(* or a loop whose pod has not led since it listed.                          *)
RunningRemoved(t) ==
    /\ job[histLeader].at = "row" /\ job[histLeader].cur = t
    /\ job[histLeader].kind = "one" \/ ~job[histLeader].steady

LEMMA OnlyOwnPurgeRemovesRunning ==
    ASSUME HistInv, [HistNext]_histVars, NEW t \in HistTraces,
           row[t] # Nil, row[t].status = "running", row'[t] = Nil
    PROVE  RunningRemoved(t)
<1>1. HistNext BY DEF histVars
<1>2. PICK p \in HistPods : AlreadyPurged(p) \/ DeleteRow(p) \/ DeleteRowFails(p)
  <2>1. ASSUME NEW u \in HistTraces,
               GrowsOld(u) \/ \E s \in {"running"} \cup Terminal, k \in BOOLEAN : IngestBatch(u, s, k)
        PROVE  FALSE
    BY <2>1, HistWorldKeeps
  <2>2. ASSUME UNCHANGED row PROVE FALSE BY <2>2
  <2>3. QED
    BY <1>1, <2>1, <2>2
       DEF HistNext, Purge, PurgeAll, RunGC, Begin, PurgeStep, ListCandidates, DeleteTelemetry,
           FinishPurge, Cancelled, Replay, LeaderMoves
<1>3. p = histLeader /\ job[p].at = "row" /\ t = job[p].cur
  BY <1>2 DEF HistInv, HistTypeOK, AlreadyPurged, DeleteRow, DeleteRowFails
<1>4. ~Finished(t) BY DEF Finished, Terminal
<1>5. QED BY <1>3, <1>4 DEF HistInv, HistTypeOK, LoopFinished, RunningRemoved

(* RunGC and PurgeAll list the finished traces and delete them one by one     *)
(* while batches arrive, other pods sweep and the leader changes: whatever    *)
(* traces, pods, faults and batches there are, a running trace is removed     *)
(* only by its own purge or by a pod that listed it before it led, or before  *)
(* it had applied the log it leads with.                                     *)
THEOREM SweepSparesRunning == HistSpec => HistGcSparesRunning
<1>1. HistInv /\ [HistNext]_histVars =>
        [\A t \in HistTraces :
           row[t] # Nil /\ row[t].status = "running" /\ row'[t] = Nil
             => RunningRemoved(t)]_histVars
  BY OnlyOwnPurgeRemovesRunning
<1>2. QED BY <1>1, HistInductive, PTL DEF HistSpec, HistGcSparesRunning, RunningRemoved

(* ------------------------------------------------------------ CachePurge -- *)

(* idle[v] are the ordinals a purge has to account for: without a pod since   *)
(* it began, so never among the pods it listed (Unlisted).  Once the claims   *)
(* are listed, each is still to be deleted, failed, or gone (Accounted).     *)
IdleStopped == \A v \in PurgeVersions : \A o \in idle[v] : pod[v][o] = "none"

Unlisted == \A v \in PurgeVersions : purge[v] # Nil => purge[v].running \cap idle[v] = {}

Accounted == \A v \in PurgeVersions : At(v, "pvcs") =>
                \A o \in idle[v] : o \in purge[v].todo \cup purge[v].failed \/ pvc[v][o] = "none"

ClaimsInv == PurgeTypeOK /\ IdleStopped /\ Unlisted /\ Accounted

LEMMA PurgeInitInv == PurgeInit => ClaimsInv
<1> SUFFICES ASSUME PurgeInit PROVE ClaimsInv OBVIOUS
<1> USE PurgeAssumption DEF PurgeInit
<1>1. PurgeTypeOK BY DEF PurgeTypeOK
<1>2. IdleStopped /\ Unlisted /\ Accounted BY DEF IdleStopped, Unlisted, Accounted, At
<1>3. QED BY <1>1, <1>2 DEF ClaimsInv

(* The fleet manager and the controller: a pod that starts is no longer idle, *)
(* and only an ordinal with a pod keeps or gets a claim.                     *)
LEMMA ClusterKeeps ==
    ASSUME ClaimsInv, NEW v \in PurgeVersions,
           \/ DeleteFleet(v) \/ \E n \in 0 .. MaxOrdinal + 1 : ScaleTo(v, n)
           \/ \E o \in Ordinals : StartPod(v, o) \/ StopPod(v, o) \/ PodGone(v, o)
    PROVE  ClaimsInv'
<1> USE DEF ClaimsInv, PurgeTypeOK, purgerState
<1>1. UNCHANGED <<purge, result>> BY DEF DeleteFleet, ScaleTo, StartPod, StopPod, PodGone
<1>2. /\ fleet' \in [PurgeVersions -> BOOLEAN] /\ want' \in [PurgeVersions -> 0 .. MaxOrdinal + 1]
      /\ pod' \in [PurgeVersions -> [Ordinals -> {"none", "up", "terminating"}]]
      /\ pvc' \in [PurgeVersions -> [Ordinals -> {"none", "bound", "deleting"}]]
      /\ idle' \in [PurgeVersions -> SUBSET Ordinals]
      /\ \A w \in PurgeVersions : \A o \in idle'[w] :
           o \in idle[w] /\ pod'[w][o] = "none" /\ (pvc[w][o] = "none" => pvc'[w][o] = "none")
  <2>1. CASE DeleteFleet(v)
    <3>1. \A o \in Ordinals : pvc'[v][o] = IF pvc[v][o] = "none" \/ pod[v][o] = "none" THEN "none" ELSE "deleting"
      BY <2>1 DEF DeleteFleet
    <3>2. pvc' \in [PurgeVersions -> [Ordinals -> {"none", "bound", "deleting"}]]
      BY <2>1 DEF DeleteFleet
    <3>3. fleet' \in [PurgeVersions -> BOOLEAN] /\ want' \in [PurgeVersions -> 0 .. MaxOrdinal + 1]
           /\ UNCHANGED <<pod, idle>> /\ \A w \in PurgeVersions : w # v => pvc'[w] = pvc[w]
      BY <2>1, PurgeAssumption DEF DeleteFleet
    <3>4. QED BY <3>1, <3>2, <3>3 DEF IdleStopped
  <2>2. CASE \E n \in 0 .. MaxOrdinal + 1 : ScaleTo(v, n)
    BY <2>2 DEF ScaleTo, IdleStopped
  <2>3. ASSUME NEW o \in Ordinals, StartPod(v, o) \/ StopPod(v, o) \/ PodGone(v, o)
        PROVE  \E s \in {"none", "up", "terminating"}, c \in {"none", "bound", "deleting"},
                  i \in {idle[v], idle[v] \ {o}} :
                 /\ pod' = [pod EXCEPT ![v] = [pod[v] EXCEPT ![o] = s]]
                 /\ pvc' = [pvc EXCEPT ![v] = [pvc[v] EXCEPT ![o] = c]]
                 /\ idle' = [idle EXCEPT ![v] = i]
                 /\ o \notin i
    <3>1. CASE StartPod(v, o) BY <2>3, <3>1 DEF StartPod
    <3>2. CASE StopPod(v, o)
      <4>1. pvc' = [pvc EXCEPT ![v] = [pvc[v] EXCEPT ![o] = pvc[v][o]]] /\ idle' = [idle EXCEPT ![v] = idle[v]]
        BY <3>2 DEF StopPod
      <4>2. pod' = [pod EXCEPT ![v] = [pod[v] EXCEPT ![o] = "terminating"]] BY <3>2 DEF StopPod
      <4>3. o \notin idle[v] /\ pvc[v][o] \in {"none", "bound", "deleting"} BY <3>2 DEF StopPod, IdleStopped
      <4>4. QED BY <4>1, <4>2, <4>3
    <3>3. CASE PodGone(v, o)
      <4>1. o \notin idle[v] /\ idle' = [idle EXCEPT ![v] = idle[v]] BY <3>3 DEF PodGone, IdleStopped
      <4>2. PICK c \in {"none", "bound", "deleting"} : pvc' = [pvc EXCEPT ![v] = [pvc[v] EXCEPT ![o] = c]]
        <5> DEFINE c == IF pvc[v][o] = "deleting" THEN "none" ELSE pvc[v][o]
        <5>1. c \in {"none", "bound", "deleting"} OBVIOUS
        <5>2. pvc' = [pvc EXCEPT ![v] = [pvc[v] EXCEPT ![o] = c]] BY <3>3 DEF PodGone
        <5> HIDE DEF c
        <5>3. QED BY <5>1, <5>2
      <4>3. pod' = [pod EXCEPT ![v] = [pod[v] EXCEPT ![o] = "none"]] BY <3>3 DEF PodGone
      <4>4. QED BY <4>1, <4>2, <4>3
    <3>4. QED BY <2>3, <3>1, <3>2, <3>3
  <2>4. ASSUME NEW o \in Ordinals, StartPod(v, o) \/ StopPod(v, o) \/ PodGone(v, o) PROVE UNCHANGED <<fleet, want>>
    BY <2>4 DEF StartPod, StopPod, PodGone
  <2>5. CASE \E o \in Ordinals : StartPod(v, o) \/ StopPod(v, o) \/ PodGone(v, o)
    <3>1. PICK o \in Ordinals : StartPod(v, o) \/ StopPod(v, o) \/ PodGone(v, o) BY <2>5
    <3>2. PICK s \in {"none", "up", "terminating"}, c \in {"none", "bound", "deleting"},
              i \in {idle[v], idle[v] \ {o}} :
                 /\ pod' = [pod EXCEPT ![v] = [pod[v] EXCEPT ![o] = s]]
                 /\ pvc' = [pvc EXCEPT ![v] = [pvc[v] EXCEPT ![o] = c]]
                 /\ idle' = [idle EXCEPT ![v] = i]
                 /\ o \notin i
      BY <2>3, <3>1
    <3>3. UNCHANGED <<fleet, want>> BY <2>4, <3>1
    <3>4. \A w \in PurgeVersions : \A x \in Ordinals :
            /\ pod'[w][x] = IF w = v /\ x = o THEN s ELSE pod[w][x]
            /\ pvc'[w][x] = IF w = v /\ x = o THEN c ELSE pvc[w][x]
      BY <3>2
    <3>5. \A w \in PurgeVersions : idle'[w] = IF w = v THEN i ELSE idle[w] BY <3>2
    <3>6. pod' \in [PurgeVersions -> [Ordinals -> {"none", "up", "terminating"}]] BY <3>2
    <3>7. pvc' \in [PurgeVersions -> [Ordinals -> {"none", "bound", "deleting"}]] BY <3>2
    <3>8. idle' \in [PurgeVersions -> SUBSET Ordinals] BY <3>2
    <3>9. \A w \in PurgeVersions : \A x \in idle'[w] : x \in idle[w] /\ x \in Ordinals /\ ~(w = v /\ x = o)
      BY <3>2, <3>5
    <3>10. \A w \in PurgeVersions : \A x \in idle'[w] :
             x \in idle[w] /\ pod'[w][x] = "none" /\ (pvc[w][x] = "none" => pvc'[w][x] = "none")
      BY <3>4, <3>9 DEF IdleStopped
    <3>11. QED BY <3>3, <3>6, <3>7, <3>8, <3>10
  <2>6. QED BY <2>1, <2>2, <2>5
<1>6. PurgeTypeOK' BY <1>1, <1>2
<1>8. IdleStopped' /\ Unlisted' /\ Accounted'
  BY <1>1, <1>2 DEF IdleStopped, Unlisted, Accounted, At
<1>9. QED BY <1>6, <1>8

LEMMA BeginKeeps ==
    ASSUME ClaimsInv, NEW v \in PurgeVersions, PurgeCache(v)
    PROVE  ClaimsInv'
<1> USE DEF ClaimsInv, PurgeTypeOK, PurgeCache
<1> DEFINE run == [at |-> "versions", running |-> {}, todo |-> {}, failed |-> {}]
<1>1. run \in PurgeRun /\ [state |-> "running", failed |-> {}] \in Result BY DEF PurgeRun, Result
<1>2. purge' = [purge EXCEPT ![v] = run] /\ run.at # "pvcs" /\ run.running = {} OBVIOUS
<1> HIDE DEF run
<1>3. {o \in Claims(v) : pod[v][o] = "none"} \subseteq Ordinals BY DEF Claims
<1>4. PurgeTypeOK' BY <1>1, <1>2, <1>3
<1>5. IdleStopped' BY DEF IdleStopped
<1>6. Unlisted' /\ Accounted' BY <1>2 DEF Unlisted, Accounted, At
<1>7. QED BY <1>4, <1>5, <1>6

LEMMA EndKeeps ==
    ASSUME ClaimsInv, NEW v \in PurgeVersions, FailPurge(v) \/ PanicPurge(v) \/ CompletePurge(v)
    PROVE  ClaimsInv'
<1> USE DEF ClaimsInv, PurgeTypeOK
<1>1. PICK r \in Result : purge' = [purge EXCEPT ![v] = Nil] /\ result' = [result EXCEPT ![v] = r]
  <2>1. purge[v] \in PurgeRun BY DEF FailPurge, PanicPurge, CompletePurge, At
  <2>2. \A s \in {"completed", "failed"}, f \in SUBSET Ordinals : [state |-> s, failed |-> f] \in Result
    BY DEF Result
  <2>3. purge[v].failed \in SUBSET Ordinals BY <2>1 DEF PurgeRun
  <2>4. QED BY <2>2, <2>3 DEF FailPurge, PanicPurge, CompletePurge, FinishCachePurge
<1>2. UNCHANGED <<fleet, want, pod, pvc, idle>> BY DEF FailPurge, PanicPurge, CompletePurge, cluster
<1>3. PurgeTypeOK' BY <1>1, <1>2
<1>4. IdleStopped' /\ Unlisted' /\ Accounted' BY <1>1, <1>2 DEF IdleStopped, Unlisted, Accounted, At
<1>5. QED BY <1>3, <1>4

(* The steps of a purge before the claims are deleted.                       *)
LEMMA PruneKeeps ==
    ASSUME ClaimsInv, NEW v \in PurgeVersions,
           CheckFleet(v) \/ ListPods(v) \/ ListClaims(v) \/ \E o \in Ordinals : PrunePod(v, o)
    PROVE  ClaimsInv'
<1> USE DEF ClaimsInv, PurgeTypeOK
<1>0. UNCHANGED <<fleet, want, pod, pvc, idle, result>>
  BY DEF CheckFleet, ListPods, ListClaims, PrunePod, cluster
<1>1. purge[v] \in PurgeRun BY DEF CheckFleet, ListPods, ListClaims, PrunePod, At
<1>2. PICK run \in PurgeRun :
         /\ purge' = [purge EXCEPT ![v] = run]
         /\ run.running \cap idle[v] = {}
         /\ run.at = "pvcs" => run.todo = Claims(v) \ run.running
  <2>1. CASE CheckFleet(v)
    <3> DEFINE run == [purge[v] EXCEPT !.at = "pods"]
    <3>1. purge' = [purge EXCEPT ![v] = run] BY <2>1 DEF CheckFleet
    <3>2. run \in PurgeRun /\ run.running = purge[v].running /\ run.at = "pods" BY <1>1 DEF PurgeRun
    <3>3. run.running \cap idle[v] = {} BY <2>1, <3>2 DEF Unlisted, CheckFleet, At
    <3> HIDE DEF run
    <3>4. QED BY <3>1, <3>2, <3>3
  <2>2. CASE ListPods(v)
    <3> DEFINE run == [purge[v] EXCEPT !.at = "prune", !.running = Up(v), !.todo = Up(v)]
    <3>1. Up(v) \subseteq Ordinals /\ Up(v) \cap idle[v] = {} BY DEF Up, IdleStopped
    <3>2. purge' = [purge EXCEPT ![v] = run] BY <1>1, <2>2 DEF ListPods, PurgeRun
    <3>3. run \in PurgeRun /\ run.running = Up(v) /\ run.at = "prune" BY <1>1, <3>1 DEF PurgeRun
    <3> HIDE DEF run
    <3>4. QED BY <3>1, <3>2, <3>3
  <2>3. CASE ListClaims(v)
    <3> DEFINE run == [purge[v] EXCEPT !.at = "pvcs", !.todo = Claims(v) \ purge[v].running]
    <3>1. Claims(v) \subseteq Ordinals BY DEF Claims
    <3>2. purge' = [purge EXCEPT ![v] = run] BY <1>1, <2>3 DEF ListClaims, PurgeRun
    <3>3. run \in PurgeRun /\ run.running = purge[v].running /\ run.todo = Claims(v) \ purge[v].running
      BY <1>1, <3>1 DEF PurgeRun
    <3>4. run.running \cap idle[v] = {} BY <2>3, <3>3 DEF Unlisted, ListClaims, At
    <3> HIDE DEF run
    <3>5. QED BY <3>2, <3>3, <3>4
  <2>4. CASE \E o \in Ordinals : PrunePod(v, o)
    <3>1. PICK o \in Ordinals : PrunePod(v, o) BY <2>4
    <3>2. PICK f \in {purge[v].failed, purge[v].failed \cup {o}} :
            purge' = [purge EXCEPT ![v] = [purge[v] EXCEPT !.todo = purge[v].todo \ {o}, !.failed = f]]
      BY <1>1, <3>1 DEF PrunePod, PurgeRun
    <3> DEFINE run == [purge[v] EXCEPT !.todo = purge[v].todo \ {o}, !.failed = f]
    <3>3. run \in PurgeRun /\ run.running = purge[v].running /\ run.at = "prune"
      BY <1>1, <3>1, <3>2 DEF PurgeRun, PrunePod, At
    <3>4. run.running \cap idle[v] = {} BY <3>1, <3>3 DEF Unlisted, PrunePod, At
    <3>5. purge' = [purge EXCEPT ![v] = run] BY <3>2
    <3> HIDE DEF run
    <3>6. QED BY <3>3, <3>4, <3>5
  <2>5. QED BY <2>1, <2>2, <2>3, <2>4
<1>3. PurgeTypeOK' BY <1>0, <1>2
<1>4. IdleStopped' BY <1>0 DEF IdleStopped
<1>5. Unlisted' BY <1>0, <1>2 DEF Unlisted
<1>6. Accounted'
  <2> SUFFICES ASSUME NEW w \in PurgeVersions, At(w, "pvcs")', NEW o \in idle'[w]
               PROVE  o \in purge'[w].todo \cup purge'[w].failed \/ pvc'[w][o] = "none"
    BY DEF Accounted
  <2>1. CASE w # v BY <1>0, <1>2, <2>1 DEF Accounted, At
  <2>2. CASE w = v
    <3>1. o \in Ordinals /\ o \in idle[v] BY <1>0, <2>2
    <3>2. QED BY <1>0, <1>2, <2>2, <3>1 DEF At, Claims
  <2>3. QED BY <2>1, <2>2
<1>7. QED BY <1>3, <1>4, <1>5, <1>6

LEMMA DeletePVCKeeps ==
    ASSUME ClaimsInv, NEW v \in PurgeVersions, NEW o \in Ordinals, DeletePVC(v, o)
    PROVE  ClaimsInv'
<1> USE DEF ClaimsInv, PurgeTypeOK
<1>1. purge[v] \in PurgeRun /\ At(v, "pvcs") /\ o \in purge[v].todo BY DEF DeletePVC, At
<1>2. PICK f \in {purge[v].failed, purge[v].failed \cup {o}} :
         /\ purge' = [purge EXCEPT ![v] = [purge[v] EXCEPT !.todo = @ \ {o}, !.failed = f]]
         /\ \/ o \in f /\ UNCHANGED pvc
            \/ pvc' = [pvc EXCEPT ![v] = [pvc[v] EXCEPT ![o] =
                 IF pvc[v][o] = "none" \/ pod[v][o] = "none" THEN "none" ELSE "deleting"]]
  BY <1>1 DEF DeletePVC, PurgeRun
<1> DEFINE run == [purge[v] EXCEPT !.todo = @ \ {o}, !.failed = f]
<1>3. run \in PurgeRun /\ run.at = "pvcs" /\ run.running = purge[v].running
        /\ run.todo = purge[v].todo \ {o} /\ run.failed = f
  BY <1>1, <1>2 DEF PurgeRun, At
<1>4. purge' = [purge EXCEPT ![v] = run] BY <1>2
<1> HIDE DEF run
<1>5. UNCHANGED <<fleet, want, pod, idle, result>> BY DEF DeletePVC
<1> DEFINE c == IF pvc[v][o] = "none" \/ pod[v][o] = "none" THEN "none" ELSE "deleting"
<1>6. pvc' \in [PurgeVersions -> [Ordinals -> {"none", "bound", "deleting"}]]
  <2>1. c \in {"none", "bound", "deleting"} OBVIOUS
  <2>2. UNCHANGED pvc \/ pvc' = [pvc EXCEPT ![v] = [pvc[v] EXCEPT ![o] = c]] BY <1>2
  <2> HIDE DEF c
  <2>3. [pvc[v] EXCEPT ![o] = c] \in [Ordinals -> {"none", "bound", "deleting"}] BY <2>1
  <2>4. QED BY <2>2, <2>3
<1>7. PurgeTypeOK' BY <1>3, <1>4, <1>5, <1>6
<1>8. IdleStopped' /\ Unlisted' BY <1>1, <1>3, <1>4, <1>5 DEF IdleStopped, Unlisted, At
<1>9. Accounted'
  <2> SUFFICES ASSUME NEW w \in PurgeVersions, At(w, "pvcs")', NEW x \in idle'[w]
               PROVE  x \in purge'[w].todo \cup purge'[w].failed \/ pvc'[w][x] = "none"
    BY DEF Accounted
  <2>0. x \in Ordinals /\ x \in idle[w] BY <1>5
  <2>1. CASE w # v BY <1>2, <1>4, <2>0, <2>1 DEF Accounted, At
  <2>2. CASE w = v /\ x # o BY <1>1, <1>2, <1>3, <1>4, <2>0, <2>2 DEF Accounted
  <2>3. CASE w = v /\ x = o
    <3>1. pod[v][o] = "none" BY <2>0, <2>3 DEF IdleStopped
    <3>2. QED BY <1>2, <1>3, <1>4, <2>3, <3>1
  <2>4. QED BY <2>1, <2>2, <2>3
<1>10. QED BY <1>7, <1>8, <1>9

LEMMA PurgeNextInv == ClaimsInv /\ [PurgeNext]_purgeVars => ClaimsInv'
<1> SUFFICES ASSUME ClaimsInv, [PurgeNext]_purgeVars PROVE ClaimsInv' OBVIOUS
<1>1. CASE UNCHANGED purgeVars
  BY <1>1 DEF ClaimsInv, PurgeTypeOK, IdleStopped, Unlisted, Accounted, At, purgeVars
<1>2. CASE PurgeNext
  BY <1>2, ClusterKeeps, BeginKeeps, EndKeeps, PruneKeeps, DeletePVCKeeps DEF PurgeNext, PurgeRunStep
<1>3. QED BY <1>1, <1>2

THEOREM PurgeInductive == PurgeSpec => []ClaimsInv
BY PurgeInitInv, PurgeNextInv, PTL DEF PurgeSpec

(* Every reachable state of the purge and of the objects it works on is well  *)
(* typed.                                                                    *)
THEOREM PurgeTypeHolds == PurgeSpec => []PurgeTypeOK
<1>1. ClaimsInv => PurgeTypeOK BY DEF ClaimsInv
<1>2. QED BY <1>1, PurgeInductive, PTL

LEMMA CompletedReclaims ==
    ASSUME ClaimsInv, [PurgeNext]_purgeVars, NEW v \in PurgeVersions,
           purge[v] # Nil, purge'[v] = Nil, result'[v].state = "completed", NEW o \in idle[v]
    PROVE  pvc'[v][o] = "none" \/ o \in result'[v].failed
<1> USE DEF ClaimsInv, PurgeTypeOK
<1>0. PICK w \in PurgeVersions : w = v /\ (FailPurge(w) \/ PanicPurge(w) \/ CompletePurge(w))
  <2>1. UNCHANGED purgeVars => purge'[v] = purge[v] BY DEF purgeVars
  <2>2. PICK w \in PurgeVersions :
          \/ DeleteFleet(w) \/ PurgeCache(w) \/ PurgeRunStep(w)
          \/ \E n \in 0 .. MaxOrdinal + 1 : ScaleTo(w, n)
          \/ \E x \in Ordinals : StartPod(w, x) \/ StopPod(w, x) \/ PodGone(w, x)
    BY <2>1 DEF PurgeNext
  <2>3. UNCHANGED purge => FALSE OBVIOUS
  <2>4. PurgeCache(w) \/ PurgeRunStep(w)
    BY <2>2, <2>3 DEF DeleteFleet, ScaleTo, StartPod, StopPod, PodGone, purgerState
  <2>5. w = v
    BY <2>4 DEF PurgeCache, PurgeRunStep, FailPurge, PanicPurge, CompletePurge, FinishCachePurge,
                CheckFleet, ListPods, ListClaims, PrunePod, DeletePVC
  <2>6. Nil \notin PurgeRun BY NilNotPurgeRun
  <2>7. ~PurgeCache(v) BY DEF PurgeCache
  <2>8. \A run \in PurgeRun : purge' # [purge EXCEPT ![v] = run] BY <2>6
  <2>9. purge[v] \in PurgeRun OBVIOUS
  <2>10. ~CheckFleet(v) BY <2>8, <2>9 DEF CheckFleet, PurgeRun
  <2>11. ~ListPods(v)
    <3>1. Up(v) \subseteq Ordinals BY DEF Up
    <3>2. QED BY <3>1, <2>8, <2>9 DEF ListPods, PurgeRun
  <2>12. ~ListClaims(v)
    <3>1. Claims(v) \subseteq Ordinals BY DEF Claims
    <3>2. QED BY <3>1, <2>8, <2>9 DEF ListClaims, PurgeRun
  <2>13. ASSUME NEW x \in Ordinals, PrunePod(v, x) \/ DeletePVC(v, x) PROVE FALSE
    <3>1. PICK f \in {purge[v].failed, purge[v].failed \cup {x}} :
            purge' = [purge EXCEPT ![v] = [purge[v] EXCEPT !.todo = purge[v].todo \ {x}, !.failed = f]]
      BY <2>9, <2>13 DEF PrunePod, DeletePVC, PurgeRun
    <3>2. [purge[v] EXCEPT !.todo = purge[v].todo \ {x}, !.failed = f] \in PurgeRun BY <2>9, <3>1 DEF PurgeRun
    <3>3. QED BY <2>8, <3>1, <3>2
  <2>14. QED BY <2>4, <2>5, <2>7, <2>10, <2>11, <2>12, <2>13 DEF PurgeRunStep
<1>1. CompletePurge(v)
  BY <1>0 DEF FailPurge, PanicPurge, FinishCachePurge
<1>2. UNCHANGED pvc /\ result'[v].failed = purge[v].failed /\ purge[v].todo = {} /\ At(v, "pvcs")
  BY <1>1 DEF CompletePurge, FinishCachePurge, cluster
<1>3. QED BY <1>2 DEF Accounted

(* A purge reported as completed has deleted, or names as failed, the claim   *)
(* of every ordinal that had no pod while it ran: however many replicas, and  *)
(* however the controller and the fleet manager move between its calls.      *)
THEOREM PurgeReclaimsAll == PurgeSpec => PurgeReclaims
<1>1. ClaimsInv /\ [PurgeNext]_purgeVars =>
        [\A v \in PurgeVersions :
           purge[v] # Nil /\ purge'[v] = Nil /\ result'[v].state = "completed"
             => \A o \in idle[v] : pvc'[v][o] = "none" \/ o \in result'[v].failed]_purgeVars
  BY CompletedReclaims
<1>2. QED BY <1>1, PurgeInductive, PTL DEF PurgeSpec, PurgeReclaims

(* -------------------------------------------------------------- CLICache -- *)

(* Every nonempty finite set of numbers has a greatest element: the one with  *)
(* the fewest elements above it.                                             *)
LEMMA MaxInSet ==
    ASSUME NEW S, S \subseteq Nat, IsFiniteSet(S), S # {}
    PROVE  Max(S) \in S
<1> DEFINE above(x) == {y \in S : y > x}
           T == {Cardinality(above(x)) : x \in S}
<1>1. \A x \in S : IsFiniteSet(above(x)) /\ Cardinality(above(x)) \in Nat
  BY FS_Subset, FS_CardinalityType
<1>2. T \subseteq Nat /\ T # {} BY <1>1
<1>3. PICK n \in T : \A k \in T : ~(<<k, n>> \in OpToRel(<, Nat))
  <2> HIDE DEF T
  <2>1. QED BY <1>2, WFMin, NatLessThanWellFounded
<1>4. PICK x \in S : n = Cardinality(above(x))
  <2> HIDE DEF above
  <2>1. \A k \in T : \E x \in S : k = Cardinality(above(x)) OBVIOUS
  <2>2. QED BY <2>1
<1>a. \A z \in S : Cardinality(above(z)) \in T OBVIOUS
<1> HIDE DEF T
<1>5. ASSUME NEW y \in S, y > x PROVE FALSE
  <2>0. x \in Nat /\ y \in Nat /\ \A z \in S : z \in Nat OBVIOUS
  <2>a. \A z \in Nat : z > y => z > x BY <1>5, <2>0
  <2>b. above(y) \subseteq above(x) BY <2>0, <2>a
  <2>c. y \in above(x) BY <1>5
  <2>d. y \notin above(y) BY <2>0
  <2>1. above(y) \subseteq above(x) /\ y \in above(x) /\ y \notin above(y) BY <2>b, <2>c, <2>d
  <2>2. Cardinality(above(y)) <= Cardinality(above(x)) /\ Cardinality(above(x)) # Cardinality(above(y))
    BY <1>1, <2>1, FS_Subset
  <2>3. Cardinality(above(y)) < n BY <1>1, <1>4, <2>2
  <2>4. <<Cardinality(above(y)), n>> \in OpToRel(<, Nat)
    BY <1>1, <1>2, <2>3 DEF OpToRel
  <2>5. QED BY <1>3, <1>a, <2>4
<1>6. \A y \in S : x >= y BY <1>5
<1>7. QED BY <1>6 DEF Max

LEMMA BestAllowed ==
    ASSUME NEW list \in SUBSET CliVersions, list \cap CliAllowed # {}
    PROVE  Best(list) \in CliAllowed
<1>1. IsFiniteSet(list \cap CliAllowed) BY CliAssumption, FS_Subset
<1>2. QED BY <1>1, MaxInSet, CliAssumption DEF Best

(* A request moves through three kinds of stages: before its version is       *)
(* settled (Early), as the owner of a flight (Owning), and the rest.          *)
Early  == {"idle", "list", "listing", "await_list"}
Owning == {"sums", "tarball", "put", "record", "finish"}

(* What each request may assume of itself and of the bucket.                 *)
RequestOK(c) ==
    /\ c.at # "idle" => c.pod \in CliPods
    /\ c.at \in Early => c.flight = Nil /\ c.outcome = Nil
    /\ c.at = "await_list" => c.owner \in CliRequests
    /\ c.at \notin Early \cup {"done"} => c.version \in CliAllowed
    /\ c.at \in {"record", "open"} \/ c.flight = "ok"
         => c.version \in CliAllowed /\ object[c.version] = "good"
    /\ c.outcome = "ok" => c.version \in CliAllowed /\ object[c.version] = "good"

RequestsOK == \A r \in CliRequests : RequestOK(call[r])

(* Only verified tarballs are stored.                                        *)
StoredGood == \A v \in CliVersions : object[v] \in {Nil, "good"}

(* inflight names the owner of every fetch under way, and no one else.       *)
FlightOwned ==
    /\ \A r \in CliRequests : call[r].at \in Owning => fetching[call[r].pod][call[r].version] = r
    /\ \A p \in CliPods, v \in CliVersions : fetching[p][v] # Nil =>
         /\ call[fetching[p][v]].at \in Owning
         /\ call[fetching[p][v]].pod = p /\ call[fetching[p][v]].version = v

(* A waiter's owner was after the same version.                              *)
WaiterMatches ==
    \A r \in CliRequests : call[r].at = "await_fetch" =>
        /\ call[r].owner \in CliRequests
        /\ call[call[r].owner].at \notin Early
        /\ call[call[r].owner].version = call[r].version

(* An owner that has not uploaded yet makes up for a download that failed, or *)
(* is the first of its pod.                                                  *)
UploadDue ==
    \A r \in CliRequests : call[r].at \in {"sums", "tarball", "put"} =>
        puts[call[r].pod][call[r].version] <= getFaults

UploadStored ==
    \A p \in CliPods, v \in CliVersions : puts[p][v] > 0 => object[v] # Nil

CliInv ==
    /\ CliTypeOK /\ RequestsOK /\ StoredGood /\ FlightOwned /\ WaiterMatches
    /\ UploadDue /\ UploadStored /\ CliFetchedOnce

LEMMA CliInitInv == CliInit => CliInv
<1> SUFFICES ASSUME CliInit PROVE CliInv OBVIOUS
<1> USE DEF CliInit
<1>1. CliTypeOK
  <2>1. call \in [CliRequests -> Call] BY DEF Call
  <2>2. object \in [CliVersions -> Bodies \cup {Nil}] /\ published \subseteq CliVersions OBVIOUS
  <2>3. releases \in [CliPods -> [list: SUBSET CliVersions, fresh: BOOLEAN] \cup {Nil}] OBVIOUS
  <2>4. listing \in [CliPods -> CliRequests \cup {Nil}] /\ metaOf \in [CliPods -> SUBSET CliVersions] OBVIOUS
  <2>5. fetching \in [CliPods -> [CliVersions -> CliRequests \cup {Nil}]] OBVIOUS
  <2>6. puts \in [CliPods -> [CliVersions -> Nat]] /\ getFaults \in 0 .. MaxGetFaults BY CliAssumption
  <2>7. QED BY <2>1, <2>2, <2>3, <2>4, <2>5, <2>6 DEF CliTypeOK
<1>2. \A r \in CliRequests : call[r].at = "idle" /\ call[r].flight = Nil /\ call[r].outcome = Nil OBVIOUS
<1>3. RequestsOK BY <1>2, CliNilAssumption DEF RequestsOK, RequestOK, Early
<1>4. StoredGood BY DEF StoredGood
<1>5. FlightOwned /\ WaiterMatches /\ UploadDue BY <1>2 DEF FlightOwned, WaiterMatches, UploadDue, Owning
<1>6. UploadStored /\ CliFetchedOnce BY DEF UploadStored, CliFetchedOnce
<1>7. QED BY <1>1, <1>3, <1>4, <1>5, <1>6 DEF CliInv

(* A step of one request that neither begins nor ends a flight and uploads    *)
(* nothing: what its new record c has to satisfy.                            *)
LEMMA QuietStep ==
    ASSUME CliInv, NEW r \in CliRequests, NEW c \in Call,
           call' = [call EXCEPT ![r] = c],
           UNCHANGED <<object, fetching, puts>>,
           getFaults' \in 0 .. MaxGetFaults, getFaults' >= getFaults,
           published' \in SUBSET CliVersions,
           releases' \in [CliPods -> [list: SUBSET CliVersions, fresh: BOOLEAN] \cup {Nil}],
           listing' \in [CliPods -> CliRequests \cup {Nil}],
           metaOf' \in [CliPods -> SUBSET CliVersions],
           RequestOK(c),
           c.at \in Owning <=> call[r].at \in Owning,
           c.at \in {"sums", "tarball", "put"} => call[r].at \in {"sums", "tarball", "put"},
           call[r].at \in Early \/ (c.at \notin Early /\ c.version = call[r].version /\ c.pod = call[r].pod),
           c.at = "await_fetch" => /\ c.owner \in CliRequests \ {r}
                                   /\ call[c.owner].at \notin Early
                                   /\ call[c.owner].version = c.version
    PROVE  CliInv'
<1>1. CliTypeOK' BY DEF CliInv, CliTypeOK
<1>2. \A x \in CliRequests : call'[x] = IF x = r THEN c ELSE call[x] BY DEF CliInv, CliTypeOK
<1>3. RequestsOK' BY <1>2 DEF CliInv, RequestsOK, RequestOK
<1>4. StoredGood' BY DEF CliInv, StoredGood
<1>5. \A x \in CliRequests : call'[x].at \in Owning =>
        call[x].at \in Owning /\ call'[x].pod = call[x].pod /\ call'[x].version = call[x].version
  BY <1>2 DEF Early, Owning
<1>6. \A x \in CliRequests : call[x].at \in Owning =>
        call'[x].at \in Owning /\ call'[x].pod = call[x].pod /\ call'[x].version = call[x].version
  BY <1>2 DEF Early, Owning
<1>7. FlightOwned'
  <2>1. \A p \in CliPods, v \in CliVersions : fetching[p][v] # Nil => fetching[p][v] \in CliRequests
    BY DEF CliInv, CliTypeOK
  <2>2. QED BY <1>5, <1>6, <2>1 DEF CliInv, FlightOwned
<1>8. WaiterMatches'
  <2>1. \A x \in CliRequests : call[x].at \notin Early =>
          call'[x].at \notin Early /\ call'[x].version = call[x].version BY <1>2
  <2>2. QED BY <1>2, <2>1 DEF CliInv, WaiterMatches
<1>9. UploadDue'
  <2> SUFFICES ASSUME NEW x \in CliRequests, call'[x].at \in {"sums", "tarball", "put"}
               PROVE  puts[call'[x].pod][call'[x].version] <= getFaults'
    BY DEF UploadDue
  <2>1. call[x].at \in {"sums", "tarball", "put"} /\ call'[x].at \in Owning BY <1>2 DEF Owning
  <2>2. call'[x].pod = call[x].pod /\ call'[x].version = call[x].version BY <1>5, <2>1
  <2>3. puts[call[x].pod][call[x].version] <= getFaults BY <2>1 DEF CliInv, UploadDue
  <2>4. call[x].pod \in CliPods /\ call[x].version \in CliVersions
    BY <2>1, CliAssumption DEF CliInv, RequestsOK, RequestOK, Early
  <2>5. puts[call[x].pod][call[x].version] \in Nat BY <2>4 DEF CliInv, CliTypeOK
  <2>7. getFaults \in Nat /\ getFaults' \in Nat BY CliAssumption DEF CliInv, CliTypeOK
  <2>8. QED BY <2>2, <2>3, <2>5, <2>7
<1>10. UploadStored' BY DEF CliInv, UploadStored
<1>11. CliFetchedOnce'
  <2>1. \A p \in CliPods, v \in CliVersions : puts[p][v] \in Nat BY DEF CliInv, CliTypeOK
  <2>2. getFaults \in Nat /\ getFaults' \in Nat BY CliAssumption DEF CliInv, CliTypeOK
  <2>3. QED BY <2>1, <2>2 DEF CliInv, CliFetchedOnce
<1>12. QED BY <1>1, <1>3, <1>4, <1>7, <1>8, <1>9, <1>10, <1>11 DEF CliInv

(* The records that the operators on call leave at a request: d before, c     *)
(* after.                                                                    *)
SameFlight(d, c) == c.pod = d.pod /\ c.version = d.version /\ c.flight = d.flight

Entered(d, c, stage) == c.at = stage /\ c.outcome = d.outcome /\ SameFlight(d, c)

Answered(d, c, o) == c.at = "done" /\ c.outcome = o /\ SameFlight(d, c)

Returned(d, c, o) == Answered(d, c, o) \/ (Entered(d, c, "open") /\ o = "ok")

Resolved(d, c) ==
    /\ \/ c.at = "done" /\ c.outcome = "not_found"
       \/ c.at = "has" /\ c.version \in CliAllowed /\ c.outcome = d.outcome
    /\ c.pod = d.pod /\ c.flight = d.flight

Failed(d, c, err) ==
    /\ c.at = "finish" /\ c.flight = err
    /\ c.outcome = d.outcome /\ c.pod = d.pod /\ c.version = d.version

LEMMA EnterRecord ==
    ASSUME CliInv, NEW r \in CliRequests, NEW stage,
           stage \in {"lock", "listing", "sums", "tarball", "record", "open"}
    PROVE  \E c \in Call : Enter(r, stage) = [call EXCEPT ![r] = c] /\ Entered(call[r], c, stage)
<1> DEFINE c == [call[r] EXCEPT !.at = stage]
<1>1. call \in [CliRequests -> Call] /\ call[r] \in Call BY DEF CliInv, CliTypeOK
<1>2. Enter(r, stage) = [call EXCEPT ![r] = c] BY <1>1 DEF Enter
<1>3. c \in Call BY <1>1 DEF Call
<1>4. Entered(call[r], c, stage) BY <1>1 DEF Call, Entered, SameFlight
<1> HIDE DEF c
<1>5. QED BY <1>2, <1>3, <1>4

LEMMA AnswerRecord ==
    ASSUME CliInv, NEW r \in CliRequests, NEW o \in CliErrors \cup {"ok", Nil}, NEW s \in BOOLEAN
    PROVE  \E c \in Call : Answer(r, o, s) = [call EXCEPT ![r] = c] /\ Answered(call[r], c, o)
<1> DEFINE c == [call[r] EXCEPT !.at = "done", !.outcome = o, !.sha = s]
<1>1. call \in [CliRequests -> Call] /\ call[r] \in Call BY DEF CliInv, CliTypeOK
<1>2. Answer(r, o, s) = [call EXCEPT ![r] = c] BY <1>1 DEF Answer, Call
<1>3. c \in Call BY <1>1, ZenonT(40) DEF Call
<1>4. Answered(call[r], c, o) BY <1>1 DEF Call, Answered, SameFlight
<1> HIDE DEF c
<1>5. QED BY <1>2, <1>3, <1>4

(* A refusal, which has no digest.                                           *)
LEMMA RefusalRecord ==
    ASSUME CliInv, NEW r \in CliRequests, NEW o \in CliErrors \cup {"ok", Nil}
    PROVE  \E c \in Call : Answer(r, o, FALSE) = [call EXCEPT ![r] = c] /\ Answered(call[r], c, o)
<1>1. \A s \in BOOLEAN :
        \E c \in Call : Answer(r, o, s) = [call EXCEPT ![r] = c] /\ Answered(call[r], c, o)
  BY AnswerRecord
<1>2. FALSE \in BOOLEAN OBVIOUS
<1>3. QED BY <1>1, <1>2, Zenon

LEMMA ReturnRecord ==
    ASSUME CliInv, NEW r \in CliRequests, NEW o \in CliErrors \cup {"ok", Nil}, NEW s \in BOOLEAN
    PROVE  \E c \in Call : Return(r, o, s) = [call EXCEPT ![r] = c] /\ Returned(call[r], c, o)
<1>1. CASE call[r].op = "download" /\ o = "ok"
  <2>1. Return(r, o, s) = Enter(r, "open") BY <1>1 DEF Return
  <2>2. QED BY <1>1, <2>1, EnterRecord DEF Returned
<1>2. CASE ~(call[r].op = "download" /\ o = "ok")
  <2>1. Return(r, o, s) = Answer(r, o, s) BY <1>2 DEF Return
  <2>2. QED BY <2>1, AnswerRecord DEF Returned
<1>3. QED BY <1>1, <1>2

LEMMA ResolveRecord ==
    ASSUME CliInv, NEW r \in CliRequests, NEW list \in SUBSET CliVersions
    PROVE  \E c \in Call : ResolveLatest(r, list) = [call EXCEPT ![r] = c] /\ Resolved(call[r], c)
<1>1. CASE list \cap CliAllowed = {}
  <2>1. ResolveLatest(r, list) = Answer(r, "not_found", FALSE) BY <1>1 DEF ResolveLatest
  <2>2. "not_found" \in CliErrors \cup {"ok", Nil} BY DEF CliErrors
  <2>3. PICK c \in Call : /\ Answer(r, "not_found", FALSE) = [call EXCEPT ![r] = c]
                          /\ Answered(call[r], c, "not_found")
    BY <2>2, RefusalRecord
  <2>4. QED BY <2>1, <2>3 DEF Resolved, Answered, SameFlight
<1>2. CASE list \cap CliAllowed # {}
  <2> DEFINE c == [call[r] EXCEPT !.at = "has", !.version = Best(list), !.list = list]
  <2>0. Best(list) \in CliAllowed /\ Best(list) \in CliVersions BY <1>2, BestAllowed, CliAssumption
  <2>1. call \in [CliRequests -> Call] /\ call[r] \in Call BY DEF CliInv, CliTypeOK
  <2>2. ResolveLatest(r, list) = [call EXCEPT ![r] = c] BY <1>2, <2>1 DEF ResolveLatest, Call
  <2>3. c \in Call BY <2>0, <2>1 DEF Call
  <2>4. Resolved(call[r], c) BY <2>0, <2>1 DEF Call, Resolved
  <2> HIDE DEF c
  <2>5. QED BY <2>2, <2>3, <2>4
<1>3. QED BY <1>1, <1>2

LEMMA FailRecord ==
    ASSUME CliInv, NEW r \in CliRequests, NEW err \in CliErrors
    PROVE  \E c \in Call : FetchFails(r, err) = [call EXCEPT ![r] = c] /\ Failed(call[r], c, err)
<1> DEFINE c == [call[r] EXCEPT !.at = "finish", !.flight = err]
<1>1. call \in [CliRequests -> Call] /\ call[r] \in Call BY DEF CliInv, CliTypeOK
<1>2. FetchFails(r, err) = [call EXCEPT ![r] = c] BY <1>1 DEF FetchFails, Call
<1>3. c \in Call BY <1>1 DEF Call
<1>4. Failed(call[r], c, err) BY <1>1 DEF Call, Failed
<1> HIDE DEF c
<1>5. QED BY <1>2, <1>3, <1>4

(* What is known of a request that is past the settling of its version.      *)
LEMMA SettledRequest ==
    ASSUME CliInv, NEW r \in CliRequests, call[r].at \notin Early \cup {"done"}
    PROVE  /\ call[r] \in Call /\ RequestOK(call[r]) /\ call[r].pod \in CliPods
           /\ call[r].version \in CliAllowed /\ call[r].version \in CliVersions
           /\ object[call[r].version] \in {Nil, "good"}
BY CliAssumption DEF CliInv, CliTypeOK, RequestsOK, RequestOK, StoredGood, Early

(* Steps that leave everything but the request, the failed downloads and the  *)
(* metadata alone.                                                           *)
LEMMA ListsTyped ==
    ASSUME CliInv
    PROVE  /\ published \in SUBSET CliVersions
           /\ releases \in [CliPods -> [list: SUBSET CliVersions, fresh: BOOLEAN] \cup {Nil}]
           /\ listing \in [CliPods -> CliRequests \cup {Nil}]
           /\ metaOf \in [CliPods -> SUBSET CliVersions]
           /\ getFaults \in 0 .. MaxGetFaults /\ getFaults >= getFaults /\ getFaults \in Nat
BY CliAssumption DEF CliInv, CliTypeOK

LEMMA HandlersKeep ==
    ASSUME CliInv, NEW r \in CliRequests, NEW p \in CliPods,
           HandleLatest(r, p) \/ \E v \in CliVersions : HandleDownload(r, p, v)
    PROVE  CliInv'
<1>1. call \in [CliRequests -> Call] /\ call[r] \in Call /\ RequestOK(call[r])
  BY DEF CliInv, CliTypeOK, RequestsOK
<1>2. call[r].at = "idle" BY DEF HandleLatest, HandleDownload
<1>3. call[r].flight = Nil /\ call[r].outcome = Nil BY <1>1, <1>2 DEF RequestOK, Early
<1>4. UNCHANGED <<object, fetching, puts, getFaults, published, releases, listing, metaOf>>
  BY DEF HandleLatest, HandleDownload, bucketVars, listVars, memoryVars
<1>5. \E c \in Call : /\ call' = [call EXCEPT ![r] = c] /\ RequestOK(c)
                      /\ c.at \in {"list", "has", "done"}
  <2>1. CASE HandleLatest(r, p)
    <3> DEFINE c == [call[r] EXCEPT !.at = "list", !.pod = p, !.op = "latest"]
    <3>1. call' = [call EXCEPT ![r] = c] BY <1>1, <2>1 DEF HandleLatest, Call
    <3>2. c \in Call /\ c.at = "list" /\ c.pod = p /\ c.flight = Nil /\ c.outcome = Nil
      BY <1>1, <1>3 DEF Call
    <3> HIDE DEF c
    <3>3. RequestOK(c) BY <3>2, CliNilAssumption DEF RequestOK, Early
    <3>4. QED BY <3>1, <3>2, <3>3
  <2>2. ASSUME NEW v \in CliVersions, HandleDownload(r, p, v)
        PROVE  \E c \in Call : /\ call' = [call EXCEPT ![r] = c] /\ RequestOK(c)
                               /\ c.at \in {"list", "has", "done"}
    <3> DEFINE stage == IF v \in CliAllowed THEN "has" ELSE "done"
               out == IF v \in CliAllowed THEN Nil ELSE "not_allowed"
               c == [call[r] EXCEPT !.pod = p, !.op = "download", !.version = v, !.at = stage, !.outcome = out]
    <3>1. call' = [call EXCEPT ![r] = c] BY <1>1, <2>2 DEF HandleDownload
    <3>2. stage \in {"has", "done"} /\ out \in {Nil, "not_allowed"} /\ (stage = "has" => v \in CliAllowed) OBVIOUS
    <3> HIDE DEF stage, out
    <3>3. c \in Call BY <1>1, <3>2 DEF Call, CliErrors
    <3>4. c.at = stage /\ c.pod = p /\ c.version = v /\ c.flight = Nil /\ c.outcome = out
      BY <1>1, <1>3 DEF Call
    <3> HIDE DEF c
    <3>5. RequestOK(c) BY <3>2, <3>4, CliNilAssumption DEF RequestOK, Early
    <3>6. QED BY <3>1, <3>2, <3>3, <3>4, <3>5
  <2>3. QED BY <2>1, <2>2
<1>6. PICK c \in Call : call' = [call EXCEPT ![r] = c] /\ RequestOK(c) /\ c.at \in {"list", "has", "done"}
  BY <1>5
<1>7. c.at \notin Owning /\ c.at # "await_fetch" /\ c.at \notin {"sums", "tarball", "put"} BY <1>6 DEF Owning
<1>8. call[r].at \in Early /\ call[r].at \notin Owning BY <1>2 DEF Early, Owning
<1>9. QED BY <1>4, <1>6, <1>7, <1>8, QuietStep, ListsTyped

LEMMA ListStepsKeep ==
    ASSUME CliInv, NEW r \in CliRequests, ListReleases(r) \/ ListReturned(r) \/ ListAwaited(r)
    PROVE  CliInv'
<1>1. call \in [CliRequests -> Call] /\ call[r] \in Call /\ RequestOK(call[r])
  BY DEF CliInv, CliTypeOK, RequestsOK
<1>2. call[r].at \in {"list", "listing", "await_list"} BY DEF ListReleases, ListReturned, ListAwaited
<1>3. call[r].flight = Nil /\ call[r].outcome = Nil /\ call[r].pod \in CliPods
  BY <1>1, <1>2 DEF RequestOK, Early
<1>4. UNCHANGED <<object, fetching, puts, getFaults, published, metaOf>>
  BY DEF ListReleases, ListReturned, ListAwaited, bucketVars, listVars, memoryVars
<1>5. /\ releases' \in [CliPods -> [list: SUBSET CliVersions, fresh: BOOLEAN] \cup {Nil}]
      /\ listing' \in [CliPods -> CliRequests \cup {Nil}]
  <2>1. [list |-> published, fresh |-> TRUE] \in [list: SUBSET CliVersions, fresh: BOOLEAN]
    BY ListsTyped
  <2>2. UNCHANGED releases \/ releases' = [releases EXCEPT ![call[r].pod] = [list |-> published, fresh |-> TRUE]]
    BY DEF ListReleases, ListReturned, ListAwaited, listVars
  <2>3. \E x \in CliRequests \cup {Nil} : UNCHANGED listing \/ listing' = [listing EXCEPT ![call[r].pod] = x]
    BY DEF ListReleases, ListReturned, ListAwaited, listVars
  <2>4. releases' \in [CliPods -> [list: SUBSET CliVersions, fresh: BOOLEAN] \cup {Nil}]
    <3> DEFINE new == [list |-> published, fresh |-> TRUE]
    <3>1. new \in [list: SUBSET CliVersions, fresh: BOOLEAN] BY <2>1
    <3>2. UNCHANGED releases \/ releases' = [releases EXCEPT ![call[r].pod] = new] BY <2>2
    <3> HIDE DEF new
    <3>3. QED BY <3>1, <3>2, ListsTyped
  <2>5. QED BY <2>3, <2>4, <1>3, ListsTyped
<1> DEFINE Moved(c) ==
             /\ \/ c.at = "done" /\ c.outcome \in CliErrors
                \/ c.at = "has" /\ c.version \in CliAllowed /\ c.outcome = Nil
                \/ c.at = "listing" /\ c.outcome = Nil
                \/ c.at = "await_list" /\ c.owner \in CliRequests /\ c.outcome = Nil
             /\ c.pod = call[r].pod /\ c.flight = Nil
           Good == \E c \in Call : call' = [call EXCEPT ![r] = c] /\ Moved(c)
<1>6. Good
  <2>1. ASSUME NEW list \in SUBSET CliVersions, call' = ResolveLatest(r, list) PROVE Good
    <3>1. PICK c \in Call : ResolveLatest(r, list) = [call EXCEPT ![r] = c] /\ Resolved(call[r], c)
      BY ResolveRecord
    <3>2. Moved(c) BY <3>1, <1>3 DEF CliErrors, Resolved
    <3>3. QED BY <2>1, <3>1, <3>2
  <2>2. ASSUME NEW o \in {"unavailable", "cancelled"}, call' = Answer(r, o, FALSE) PROVE Good
    <3>0. o \in CliErrors /\ o \in CliErrors \cup {"ok", Nil} BY DEF CliErrors
    <3>1. PICK c \in Call : Answer(r, o, FALSE) = [call EXCEPT ![r] = c] /\ Answered(call[r], c, o)
      BY <3>0, RefusalRecord
    <3>2. Moved(c) BY <3>0, <3>1, <1>3 DEF Answered, SameFlight
    <3>3. QED BY <2>2, <3>1, <3>2
  <2> HIDE DEF Good
  <2>3. CASE ListReleases(r)
    <3>1. CASE call' = Enter(r, "listing")
      <4>1. PICK c \in Call : Enter(r, "listing") = [call EXCEPT ![r] = c] /\ Entered(call[r], c, "listing")
        BY EnterRecord
      <4>2. Moved(c) BY <4>1, <1>3 DEF Entered, SameFlight
      <4>3. QED BY <3>1, <4>1, <4>2 DEF Good
    <3>2. CASE /\ listing[call[r].pod] # Nil
               /\ call' = [call EXCEPT ![r].at = "await_list", ![r].owner = listing[call[r].pod]]
      <4> DEFINE c == [call[r] EXCEPT !.at = "await_list", !.owner = listing[call[r].pod]]
      <4>1. listing[call[r].pod] \in CliRequests BY <1>3, <3>2, ListsTyped
      <4>2. call' = [call EXCEPT ![r] = c] BY <1>1, <3>2 DEF Call
      <4>3. c \in Call BY <1>1, <4>1 DEF Call
      <4>4. Moved(c) BY <1>1, <1>3, <4>1 DEF Call
      <4> HIDE DEF c
      <4>5. QED BY <4>2, <4>3, <4>4 DEF Good
    <3>3. CASE releases[call[r].pod] # Nil /\ call' = ResolveLatest(r, releases[call[r].pod].list)
      <4>1. releases[call[r].pod].list \in SUBSET CliVersions BY <1>3, <3>3, ListsTyped
      <4>2. QED BY <2>1, <3>3, <4>1
    <3>4. QED BY <2>3, <3>1, <3>2, <3>3 DEF ListReleases
  <2>4. CASE ListReturned(r)
    <3>1. CASE call' = Answer(r, "unavailable", FALSE) BY <2>2, <3>1
    <3>2. CASE call' = [ResolveLatest(r, published) EXCEPT ![r].list = published]
      <4>0. published \in SUBSET CliVersions BY ListsTyped
      <4>1. PICK d \in Call : ResolveLatest(r, published) = [call EXCEPT ![r] = d] /\ Resolved(call[r], d)
        BY <4>0, ResolveRecord
      <4> DEFINE c == [d EXCEPT !.list = published]
      <4>2. call' = [call EXCEPT ![r] = c] BY <1>1, <3>2, <4>1 DEF Call
      <4>3. c \in Call BY <4>0 DEF Call
      <4>4. Moved(c) BY <1>3, <4>1 DEF Call, CliErrors, Resolved
      <4> HIDE DEF c
      <4>5. QED BY <4>2, <4>3, <4>4 DEF Good
    <3>3. QED BY <2>4, <3>1, <3>2 DEF ListReturned
  <2>5. CASE ListAwaited(r)
    <3>1. CASE call' = Answer(r, "unavailable", FALSE) \/ call' = Answer(r, "cancelled", FALSE) BY <2>2, <3>1
    <3>2. CASE call[call[r].owner].list # Nil /\ call' = ResolveLatest(r, call[call[r].owner].list)
      <4>1. call[r].at = "await_list" BY <2>5 DEF ListAwaited
      <4>2. call[r].owner \in CliRequests BY <1>1, <4>1 DEF RequestOK
      <4>3. call[call[r].owner] \in Call BY <1>1, <4>2
      <4>4. call[call[r].owner].list \in SUBSET CliVersions BY <3>2, <4>3 DEF Call
      <4>5. QED BY <2>1, <3>2, <4>4
    <3>3. QED BY <2>5, <3>1, <3>2 DEF ListAwaited
  <2>6. QED BY <2>3, <2>4, <2>5
<1>7. PICK c \in Call : call' = [call EXCEPT ![r] = c] /\ Moved(c) BY <1>6
<1>8. RequestOK(c) BY <1>3, <1>7, CliNilAssumption DEF RequestOK, Early, CliErrors
<1>9. c.at \notin Owning /\ c.at # "await_fetch" /\ c.at \notin {"sums", "tarball", "put"} BY <1>7 DEF Owning
<1>10. call[r].at \in Early /\ call[r].at \notin Owning BY <1>2 DEF Early, Owning
<1>11. /\ getFaults' \in 0 .. MaxGetFaults /\ getFaults' >= getFaults
       /\ published' \in SUBSET CliVersions /\ metaOf' \in [CliPods -> SUBSET CliVersions]
  BY <1>4, ListsTyped
<1>12. QED BY <1>4, <1>5, <1>7, <1>8, <1>9, <1>10, <1>11, QuietStep
(* The quiet steps of a request past the settling of its version.            *)
LEMMA LookKeeps ==
    ASSUME CliInv, NEW r \in CliRequests,
           call[r].at \in {"has", "lock", "await_fetch", "open"},
           NEW c \in Call, call' = [call EXCEPT ![r] = c], RequestOK(c),
           \/ \E o \in CliErrors \cup {"ok", Nil} : Returned(call[r], c, o)
           \/ Entered(call[r], c, "lock")
           \/ /\ c.at = "await_fetch" /\ c.pod = call[r].pod /\ c.version = call[r].version
              /\ c.owner \in CliRequests \ {r} /\ call[c.owner].at \notin Early
              /\ call[c.owner].version = c.version,
           UNCHANGED <<object, fetching, puts, published, releases, listing, metaOf>>,
           getFaults' \in 0 .. MaxGetFaults, getFaults' >= getFaults
    PROVE  CliInv'
<1>1. c.pod = call[r].pod /\ c.version = call[r].version /\ c.at \in {"done", "open", "lock", "await_fetch"}
  BY DEF Returned, Entered, Answered, SameFlight
<1>2. c.at \notin Owning /\ call[r].at \notin Owning /\ c.at \notin Early /\ c.at \notin {"sums", "tarball", "put"}
  BY <1>1 DEF Owning, Early
<1>3. c.at = "await_fetch" => c.owner \in CliRequests \ {r} /\ call[c.owner].at \notin Early
                               /\ call[c.owner].version = c.version
  BY DEF Returned, Entered, Answered
<1>4. QED BY <1>1, <1>2, <1>3, QuietStep, ListsTyped

LEMMA HasKeeps ==
    ASSUME CliInv, NEW r \in CliRequests, Has(r)
    PROVE  CliInv'
<1>1. call[r].at = "has" BY DEF Has
<1>2. call[r].at \notin Early \cup {"done"} BY <1>1 DEF Early
<1>3. /\ call[r] \in Call /\ RequestOK(call[r]) /\ call[r].pod \in CliPods
      /\ call[r].version \in CliAllowed /\ call[r].version \in CliVersions
      /\ object[call[r].version] \in {Nil, "good"}
  BY <1>2, SettledRequest
<1>4. UNCHANGED <<object, fetching, puts, published, releases, listing, metaOf, getFaults>>
  BY DEF Has, bucketVars, listVars, memoryVars
<1> DEFINE s == call[r].version \in metaOf[call[r].pod]
<1>5. s \in BOOLEAN OBVIOUS
<1>6. PICK c \in Call : /\ call' = [call EXCEPT ![r] = c]
                        /\ \/ Answered(call[r], c, "unavailable")
                           \/ Returned(call[r], c, "ok") /\ object[call[r].version] # Nil
                           \/ Entered(call[r], c, "lock")
  <2>1. CASE call' = Answer(r, "unavailable", FALSE)
    <3>1. "unavailable" \in CliErrors \cup {"ok", Nil} BY DEF CliErrors
    <3>2. QED BY <2>1, <3>1, RefusalRecord
  <2>2. CASE object[call[r].version] # Nil /\ call' = Return(r, "ok", s)
    <3> HIDE DEF s
    <3>1. QED BY <1>5, <2>2, ReturnRecord
  <2>3. CASE call' = Enter(r, "lock") BY <2>3, EnterRecord
  <2>4. QED BY <2>1, <2>2, <2>3 DEF Has
<1>7. RequestOK(c)
  <2>1. c.version = call[r].version /\ c.pod = call[r].pod /\ c.flight = call[r].flight
    BY <1>6 DEF Returned, Answered, Entered, SameFlight
  <2>2. c.at \in {"done", "open", "lock"} BY <1>6 DEF Returned, Answered, Entered
  <2>3. c.at = "open" => object[c.version] = "good" BY <1>3, <1>6, <2>1 DEF Returned, Answered, Entered
  <2>4. c.outcome = "ok" => object[c.version] = "good"
    BY <1>3, <1>6, <2>1 DEF Returned, Answered, Entered, RequestOK
  <2>5. QED BY <1>3, <2>1, <2>2, <2>3, <2>4 DEF RequestOK, Early
<1>8. \/ \E o \in CliErrors \cup {"ok", Nil} : Returned(call[r], c, o)
      \/ Entered(call[r], c, "lock")
  BY <1>6 DEF CliErrors, Returned
<1>9. QED BY <1>1, <1>4, <1>6, <1>7, <1>8, LookKeeps, ListsTyped

LEMMA OpenKeeps ==
    ASSUME CliInv, NEW r \in CliRequests, Open(r)
    PROVE  CliInv'
<1>1. call[r].at = "open" BY DEF Open
<1>2. call[r].at \notin Early \cup {"done"} BY <1>1 DEF Early
<1>3. /\ call[r] \in Call /\ RequestOK(call[r]) /\ call[r].pod \in CliPods
      /\ call[r].version \in CliAllowed /\ object[call[r].version] = "good"
  BY <1>1, <1>2, SettledRequest DEF RequestOK
<1>4. UNCHANGED <<object, fetching, puts, published, releases, listing, metaOf>>
  BY DEF Open, listVars, memoryVars
<1>5. getFaults' \in 0 .. MaxGetFaults /\ getFaults' >= getFaults
  <2>1. UNCHANGED getFaults \/ (getFaults < MaxGetFaults /\ getFaults' = getFaults + 1) BY DEF Open
  <2>2. QED BY <2>1, ListsTyped, CliAssumption
<1>6. PICK o \in {"ok", "not_found"} : call' = Answer(r, o, FALSE) BY DEF Open
<1>7. o \in CliErrors \cup {"ok", Nil} BY DEF CliErrors
<1>8. PICK c \in Call : call' = [call EXCEPT ![r] = c] /\ Answered(call[r], c, o)
  BY <1>6, <1>7, RefusalRecord
<1>9. RequestOK(c) BY <1>3, <1>8 DEF RequestOK, Answered, SameFlight, Early
<1>10. \E e \in CliErrors \cup {"ok", Nil} : Returned(call[r], c, e) BY <1>7, <1>8 DEF Returned
<1>11. QED BY <1>1, <1>4, <1>5, <1>8, <1>9, <1>10, LookKeeps

(* A waiter takes the outcome of an owner that was after the same version.    *)
LEMMA FetchAwaitedKeeps ==
    ASSUME CliInv, NEW r \in CliRequests, FetchAwaited(r)
    PROVE  CliInv'
<1>1. call[r].at = "await_fetch" BY DEF FetchAwaited
<1>2. call[r].at \notin Early \cup {"done"} BY <1>1 DEF Early
<1>3. /\ call[r] \in Call /\ RequestOK(call[r]) /\ call[r].pod \in CliPods
      /\ call[r].version \in CliAllowed
  BY <1>2, SettledRequest
<1>4. UNCHANGED <<object, fetching, puts, published, releases, listing, metaOf, getFaults>>
  BY DEF FetchAwaited, bucketVars, listVars, memoryVars
<1> DEFINE w == call[r].owner
           f == call[w].flight
<1>5. w \in CliRequests /\ call[w].version = call[r].version BY <1>1 DEF CliInv, WaiterMatches
<1>6. f \in CliErrors \cup {"ok", Nil} /\ (f = "ok" => object[call[r].version] = "good")
  <2>1. call[w] \in Call /\ RequestOK(call[w]) BY <1>5 DEF CliInv, CliTypeOK, RequestsOK
  <2>2. QED BY <1>5, <2>1 DEF Call, RequestOK
<1>7. call' = Return(r, f, FALSE) BY DEF FetchAwaited
<1> HIDE DEF w, f
<1>8. PICK c \in Call : call' = [call EXCEPT ![r] = c] /\ Returned(call[r], c, f)
  <2>1. \A s \in BOOLEAN :
          \E c \in Call : Return(r, f, s) = [call EXCEPT ![r] = c] /\ Returned(call[r], c, f)
    BY <1>6, ReturnRecord
  <2>2. FALSE \in BOOLEAN OBVIOUS
  <2>3. \E c \in Call : Return(r, f, FALSE) = [call EXCEPT ![r] = c] /\ Returned(call[r], c, f)
    BY <2>1, <2>2, Zenon
  <2>4. QED BY <1>7, <2>3
<1>9. RequestOK(c) BY <1>3, <1>6, <1>8 DEF RequestOK, Returned, Answered, Entered, SameFlight, Early
<1>10. \E e \in CliErrors \cup {"ok", Nil} : Returned(call[r], c, e) BY <1>6, <1>8
<1>11. QED BY <1>1, <1>4, <1>8, <1>9, <1>10, LookKeeps, ListsTyped

(* The quiet steps of an owner.                                              *)
LEMMA OwnerKeeps ==
    ASSUME CliInv, NEW r \in CliRequests, call[r].at \in Owning,
           NEW c \in Call, call' = [call EXCEPT ![r] = c],
           c.at \in Owning, c.pod = call[r].pod, c.version = call[r].version,
           c.outcome = call[r].outcome,
           c.at = "record" \/ c.flight = "ok" => object[c.version] = "good",
           c.at \in {"sums", "tarball", "put"} => call[r].at \in {"sums", "tarball", "put"},
           UNCHANGED <<object, fetching, puts, published, releases, listing, getFaults>>,
           metaOf' \in [CliPods -> SUBSET CliVersions]
    PROVE  CliInv'
<1>1. call[r].at \notin Early \cup {"done"} /\ c.at \notin Early \cup {"done", "open", "await_fetch"}
  BY DEF Owning, Early
<1>2. /\ call[r] \in Call /\ RequestOK(call[r]) /\ call[r].pod \in CliPods
      /\ call[r].version \in CliAllowed
  BY <1>1, SettledRequest
<1>3. RequestOK(c) BY <1>1, <1>2 DEF RequestOK, Early
<1>4. c.at # "await_fetch" BY <1>1
<1>5. QED BY <1>1, <1>3, <1>4, QuietStep, ListsTyped

LEMMA FetchKeeps ==
    ASSUME CliInv, NEW r \in CliRequests, FetchChecksums(r) \/ FetchTarball(r) \/ RecordMeta(r)
    PROVE  CliInv'
<1>1. call[r].at \in {"sums", "tarball", "record"} BY DEF FetchChecksums, FetchTarball, RecordMeta
<1>2. call[r].at \in Owning /\ call[r].at \notin Early \cup {"done"} BY <1>1 DEF Owning, Early
<1>3. /\ call[r] \in Call /\ RequestOK(call[r]) /\ call[r].pod \in CliPods
      /\ call[r].version \in CliAllowed /\ call[r].version \in CliVersions
      /\ call \in [CliRequests -> Call]
  BY <1>2, SettledRequest DEF CliInv, CliTypeOK
<1>4. UNCHANGED <<object, fetching, puts, published, releases, listing, getFaults>>
  BY DEF FetchChecksums, FetchTarball, RecordMeta, bucketVars, listVars, memoryVars
<1>5. metaOf' \in [CliPods -> SUBSET CliVersions]
  BY <1>3, ListsTyped DEF FetchChecksums, FetchTarball, RecordMeta, memoryVars
<1> DEFINE Good(c) == /\ call' = [call EXCEPT ![r] = c]
                      /\ c.at \in {"tarball", "put", "finish"}
                      /\ c.at \in {"tarball", "put"} => call[r].at \in {"sums", "tarball"}
                      /\ c.pod = call[r].pod /\ c.version = call[r].version /\ c.outcome = call[r].outcome
                      /\ c.flight = "ok" => object[c.version] = "good"
<1>6. \E c \in Call : Good(c)
  <2>1. ASSUME NEW err \in CliErrors, call' = FetchFails(r, err) PROVE \E c \in Call : Good(c)
    <3>1. PICK c \in Call : FetchFails(r, err) = [call EXCEPT ![r] = c] /\ Failed(call[r], c, err)
      BY FailRecord
    <3>2. Good(c) BY <2>1, <3>1 DEF Failed, CliErrors
    <3>3. QED BY <3>2
  <2>2. CASE call[r].at = "sums" /\ call' = Enter(r, "tarball")
    <3>1. PICK c \in Call : Enter(r, "tarball") = [call EXCEPT ![r] = c] /\ Entered(call[r], c, "tarball")
      BY EnterRecord
    <3>2. Good(c) BY <1>3, <2>2, <3>1 DEF Entered, SameFlight, RequestOK
    <3>3. QED BY <3>2
  <2>3. ASSUME NEW b \in Bodies, call[r].at = "tarball", call' = [call EXCEPT ![r].at = "put", ![r].body = b]
        PROVE  \E c \in Call : Good(c)
    <3> DEFINE c == [call[r] EXCEPT !.at = "put", !.body = b]
    <3>1. call' = [call EXCEPT ![r] = c] BY <1>3, <2>3 DEF Call
    <3>2. c \in Call BY <1>3 DEF Call
    <3>3. /\ c.at = "put" /\ c.pod = call[r].pod /\ c.version = call[r].version
          /\ c.outcome = call[r].outcome /\ c.flight = call[r].flight
      BY <1>3 DEF Call
    <3> HIDE DEF c
    <3>4. Good(c) BY <1>3, <2>3, <3>1, <3>3 DEF RequestOK
    <3>5. QED BY <3>2, <3>4
  <2>4. CASE call[r].at = "record" /\ call' = [call EXCEPT ![r].at = "finish", ![r].flight = "ok"]
    <3> DEFINE c == [call[r] EXCEPT !.at = "finish", !.flight = "ok"]
    <3>1. call' = [call EXCEPT ![r] = c] BY <1>3, <2>4 DEF Call
    <3>2. c \in Call BY <1>3 DEF Call
    <3>3. /\ c.at = "finish" /\ c.pod = call[r].pod /\ c.version = call[r].version
          /\ c.outcome = call[r].outcome
      BY <1>3 DEF Call
    <3> HIDE DEF c
    <3>4. Good(c) BY <1>3, <2>4, <3>1, <3>3 DEF RequestOK
    <3>5. QED BY <3>2, <3>4
  <2>5. "not_found" \in CliErrors /\ "unavailable" \in CliErrors BY DEF CliErrors
  <2> HIDE DEF Good
  <2>6. QED BY <2>1, <2>2, <2>3, <2>4, <2>5 DEF FetchChecksums, FetchTarball, RecordMeta
<1>7. PICK c \in Call : Good(c) BY <1>6
<1>8. c.at \in Owning /\ c.at # "record" /\ (c.at \in {"sums", "tarball", "put"} => call[r].at \in {"sums", "tarball", "put"})
  BY <1>7 DEF Owning
<1>9. QED BY <1>2, <1>4, <1>5, <1>7, <1>8, OwnerKeeps
(* A miss with no flight to join: the request becomes the one owner.  Its     *)
(* upload is due, for the object is missing or this download of it failed.    *)
LEMMA OwnKeeps ==
    ASSUME CliInv, NEW r \in CliRequests, call[r].at = "lock",
           call' = Enter(r, "sums"),
           fetching[call[r].pod][call[r].version] = Nil,
           fetching' = [fetching EXCEPT ![call[r].pod][call[r].version] = r],
           \/ object[call[r].version] = Nil /\ UNCHANGED getFaults
           \/ getFaults < MaxGetFaults /\ getFaults' = getFaults + 1,
           UNCHANGED <<object, puts, published, releases, listing, metaOf>>
    PROVE  CliInv'
<1> DEFINE p == call[r].pod
           v == call[r].version
<1>1. call[r].at \notin Early \cup {"done"} BY DEF Early
<1>2. /\ call[r] \in Call /\ RequestOK(call[r]) /\ p \in CliPods /\ v \in CliAllowed /\ v \in CliVersions
      /\ object[v] \in {Nil, "good"} /\ call \in [CliRequests -> Call]
  BY <1>1, SettledRequest DEF CliInv, CliTypeOK
<1>3. PICK c \in Call : call' = [call EXCEPT ![r] = c] /\ Entered(call[r], c, "sums") BY EnterRecord
<1>4. /\ c.at = "sums" /\ c.pod = p /\ c.version = v
      /\ c.flight = call[r].flight /\ c.outcome = call[r].outcome
  BY <1>3 DEF Entered, SameFlight
<1>5. getFaults \in Nat /\ getFaults' \in Nat /\ getFaults' >= getFaults /\ getFaults' \in 0 .. MaxGetFaults
  BY ListsTyped, CliAssumption
<1>6. fetching \in [CliPods -> [CliVersions -> CliRequests \cup {Nil}]] BY DEF CliInv, CliTypeOK
<1>7. fetching' = [fetching EXCEPT ![p] = [fetching[p] EXCEPT ![v] = r]] BY <1>2, <1>6
<1>8. fetching' \in [CliPods -> [CliVersions -> CliRequests \cup {Nil}]] BY <1>2, <1>6, <1>7
<1>9. \A q \in CliPods, w \in CliVersions :
         fetching'[q][w] = IF q = p /\ w = v THEN r ELSE fetching[q][w]
  BY <1>2, <1>6, <1>7
<1>10. \A x \in CliRequests : call'[x] = IF x = r THEN c ELSE call[x] BY <1>2, <1>3
<1> HIDE DEF p, v
<1>11. CliTypeOK' BY <1>2, <1>3, <1>5, <1>8 DEF CliInv, CliTypeOK
<1>12. RequestsOK'
  <2>1. RequestOK(c) BY <1>2, <1>4 DEF RequestOK, Early, p, v
  <2>2. QED BY <1>10, <2>1 DEF CliInv, RequestsOK, RequestOK
<1>13. StoredGood' /\ UploadStored' BY DEF CliInv, StoredGood, UploadStored
<1>14. \A x \in CliRequests : x # r /\ call[x].at \in Owning =>
          /\ call[x].pod \in CliPods /\ call[x].version \in CliVersions
          /\ ~(call[x].pod = p /\ call[x].version = v)
  <2> SUFFICES ASSUME NEW x \in CliRequests, x # r, call[x].at \in Owning
               PROVE  /\ call[x].pod \in CliPods /\ call[x].version \in CliVersions
                      /\ ~(call[x].pod = p /\ call[x].version = v)
    OBVIOUS
  <2>1. call[x].at \notin Early \cup {"done"} BY DEF Owning, Early
  <2>2. fetching[call[x].pod][call[x].version] = x BY DEF CliInv, FlightOwned
  <2>3. fetching[p][v] = Nil BY DEF p, v
  <2>4. QED BY <2>1, <2>2, <2>3, SettledRequest, CliNilAssumption
<1>15. FlightOwned'
  <2>1. ASSUME NEW x \in CliRequests, call'[x].at \in Owning
        PROVE  fetching'[call'[x].pod][call'[x].version] = x
    <3>1. CASE x = r BY <1>2, <1>4, <1>9, <1>10, <3>1
    <3>2. CASE x # r
      <4>1. call'[x] = call[x] BY <1>10, <3>2
      <4>2. fetching[call[x].pod][call[x].version] = x BY <2>1, <4>1 DEF CliInv, FlightOwned
      <4>3. QED BY <1>9, <1>14, <2>1, <3>2, <4>1, <4>2
    <3>3. QED BY <3>1, <3>2
  <2>2. ASSUME NEW q \in CliPods, NEW w \in CliVersions, fetching'[q][w] # Nil
        PROVE  /\ call'[fetching'[q][w]].at \in Owning
               /\ call'[fetching'[q][w]].pod = q /\ call'[fetching'[q][w]].version = w
    <3>1. CASE q = p /\ w = v
      <4>1. fetching'[q][w] = r /\ call'[r] = c BY <1>9, <1>10, <3>1
      <4>2. QED BY <1>4, <3>1, <4>1 DEF Owning
    <3>2. CASE ~(q = p /\ w = v)
      <4>1. fetching'[q][w] = fetching[q][w] /\ fetching[q][w] \in CliRequests BY <1>6, <1>9, <2>2, <3>2
      <4>2. /\ call[fetching[q][w]].at \in Owning
            /\ call[fetching[q][w]].pod = q /\ call[fetching[q][w]].version = w
        BY <2>2, <4>1 DEF CliInv, FlightOwned
      <4>3. fetching[q][w] # r BY <4>2 DEF Owning
      <4>4. QED BY <1>10, <4>1, <4>2, <4>3
    <3>3. QED BY <3>1, <3>2
  <2>3. QED BY <2>1, <2>2 DEF FlightOwned
<1>16. WaiterMatches' BY <1>4, <1>10 DEF CliInv, WaiterMatches, Early, v
<1>17. UploadDue'
  <2> SUFFICES ASSUME NEW x \in CliRequests, call'[x].at \in {"sums", "tarball", "put"}
               PROVE  puts[call'[x].pod][call'[x].version] <= getFaults'
    BY DEF UploadDue
  <2>0. \A q \in CliPods, w \in CliVersions : puts[q][w] \in Nat /\ puts[q][w] <= 1 + getFaults
    BY DEF CliInv, CliTypeOK, CliFetchedOnce
  <2>1. CASE x = r
    <3>1. CASE object[v] = Nil /\ UNCHANGED getFaults
      <4>1. ~(puts[p][v] > 0) BY <1>2, <3>1 DEF CliInv, UploadStored
      <4>2. QED BY <1>2, <1>4, <1>5, <1>10, <2>0, <2>1, <4>1
    <3>2. CASE getFaults' = getFaults + 1
      BY <1>2, <1>4, <1>5, <1>10, <2>0, <2>1, <3>2
    <3>3. QED BY <3>1, <3>2 DEF v
  <2>2. CASE x # r
    <3>1. call'[x] = call[x] /\ call[x].at \in Owning BY <1>10, <2>2 DEF Owning
    <3>2. puts[call[x].pod][call[x].version] <= getFaults BY <3>1 DEF CliInv, UploadDue
    <3>3. QED BY <1>5, <1>14, <2>0, <2>2, <3>1, <3>2
  <2>3. QED BY <2>1, <2>2
<1>18. CliFetchedOnce'
  <2>1. \A q \in CliPods, w \in CliVersions : puts[q][w] \in Nat /\ puts[q][w] <= 1 + getFaults
    BY DEF CliInv, CliTypeOK, CliFetchedOnce
  <2>2. QED BY <1>5, <2>1 DEF CliFetchedOnce
<1>19. QED BY <1>11, <1>12, <1>13, <1>15, <1>16, <1>17, <1>18 DEF CliInv

LEMMA LockAndLookKeeps ==
    ASSUME CliInv, NEW r \in CliRequests, LockAndLook(r)
    PROVE  CliInv'
<1>1. call[r].at = "lock" BY DEF LockAndLook
<1>2. call[r].at \notin Early \cup {"done"} BY <1>1 DEF Early
<1>3. /\ call[r] \in Call /\ RequestOK(call[r]) /\ call[r].pod \in CliPods
      /\ call[r].version \in CliAllowed /\ call[r].version \in CliVersions
      /\ object[call[r].version] \in {Nil, "good"} /\ call \in [CliRequests -> Call]
  BY <1>2, SettledRequest DEF CliInv, CliTypeOK
<1>4. UNCHANGED <<object, puts, published, releases, listing, metaOf>> BY DEF LockAndLook, listVars
<1>5. getFaults' \in 0 .. MaxGetFaults /\ getFaults' >= getFaults
  <2>1. UNCHANGED getFaults \/ (getFaults < MaxGetFaults /\ getFaults' = getFaults + 1) BY DEF LockAndLook
  <2>2. QED BY <2>1, ListsTyped, CliAssumption
<1>6. CASE object[call[r].version] # Nil /\ call' = Return(r, "ok", FALSE) /\ UNCHANGED fetching
  <2>1. \A s \in BOOLEAN :
          \E c \in Call : Return(r, "ok", s) = [call EXCEPT ![r] = c] /\ Returned(call[r], c, "ok")
    BY ReturnRecord
  <2>2. FALSE \in BOOLEAN OBVIOUS
  <2>3. \E c \in Call : Return(r, "ok", FALSE) = [call EXCEPT ![r] = c] /\ Returned(call[r], c, "ok")
    BY <2>1, <2>2, Zenon
  <2>4. PICK c \in Call : call' = [call EXCEPT ![r] = c] /\ Returned(call[r], c, "ok") BY <1>6, <2>3
  <2>5. RequestOK(c) BY <1>3, <1>6, <2>4 DEF RequestOK, Returned, Answered, Entered, SameFlight, Early
  <2>6. \E o \in CliErrors \cup {"ok", Nil} : Returned(call[r], c, o) BY <2>4
  <2>7. QED BY <1>1, <1>4, <1>5, <1>6, <2>4, <2>5, <2>6, LookKeeps
<1>7. CASE /\ fetching[call[r].pod][call[r].version] # Nil
           /\ call' = [call EXCEPT ![r].at = "await_fetch",
                                   ![r].owner = fetching[call[r].pod][call[r].version]]
           /\ UNCHANGED fetching
  <2> DEFINE o == fetching[call[r].pod][call[r].version]
             c == [call[r] EXCEPT !.at = "await_fetch", !.owner = o]
  <2>1. o \in CliRequests /\ call[o].at \in Owning /\ call[o].version = call[r].version
    BY <1>3, <1>7 DEF CliInv, CliTypeOK, FlightOwned
  <2>2. o # r /\ call[o].at \notin Early BY <1>1, <2>1 DEF Owning, Early
  <2>3. call' = [call EXCEPT ![r] = c] BY <1>3, <1>7 DEF Call
  <2> HIDE DEF o
  <2>4. c \in Call BY <1>3, <2>1 DEF Call
  <2>5. /\ c.at = "await_fetch" /\ c.pod = call[r].pod /\ c.version = call[r].version
        /\ c.owner = o /\ c.flight = call[r].flight /\ c.outcome = call[r].outcome
    BY <1>3 DEF Call
  <2> HIDE DEF c
  <2>6. RequestOK(c) BY <1>3, <2>5 DEF RequestOK, Early
  <2>7. QED BY <1>1, <1>4, <1>5, <1>7, <2>1, <2>2, <2>3, <2>4, <2>5, <2>6, LookKeeps
<1>8. CASE /\ fetching[call[r].pod][call[r].version] = Nil /\ call' = Enter(r, "sums")
           /\ fetching' = [fetching EXCEPT ![call[r].pod][call[r].version] = r]
           /\ \/ object[call[r].version] = Nil /\ UNCHANGED getFaults
              \/ getFaults < MaxGetFaults /\ getFaults' = getFaults + 1
  BY <1>1, <1>4, <1>8, OwnKeeps
<1>9. QED BY <1>6, <1>7, <1>8 DEF LockAndLook
(* The upload: the one that was due.  No other owner has this pod and version. *)
LEMMA UploadKeeps ==
    ASSUME CliInv, NEW r \in CliRequests, call[r].at = "put",
           call' = Enter(r, "record"),
           object' = [object EXCEPT ![call[r].version] = "good"],
           puts' = [puts EXCEPT ![call[r].pod][call[r].version] = @ + 1],
           UNCHANGED <<fetching, getFaults, published, releases, listing, metaOf>>
    PROVE  CliInv'
<1> DEFINE p == call[r].pod
           v == call[r].version
<1>1. call[r].at \notin Early \cup {"done"} /\ call[r].at \in Owning BY DEF Early, Owning
<1>2. /\ call[r] \in Call /\ RequestOK(call[r]) /\ p \in CliPods /\ v \in CliAllowed /\ v \in CliVersions
      /\ call \in [CliRequests -> Call]
  BY <1>1, SettledRequest DEF CliInv, CliTypeOK
<1>3. PICK c \in Call : call' = [call EXCEPT ![r] = c] /\ Entered(call[r], c, "record") BY EnterRecord
<1>4. /\ c.at = "record" /\ c.pod = p /\ c.version = v
      /\ c.flight = call[r].flight /\ c.outcome = call[r].outcome
  BY <1>3 DEF Entered, SameFlight
<1>5. getFaults \in Nat BY ListsTyped
<1>6. puts \in [CliPods -> [CliVersions -> Nat]] /\ object \in [CliVersions -> Bodies \cup {Nil}]
  BY DEF CliInv, CliTypeOK
<1>7. puts' = [puts EXCEPT ![p] = [puts[p] EXCEPT ![v] = puts[p][v] + 1]] BY <1>2, <1>6
<1>8. [puts[p] EXCEPT ![v] = puts[p][v] + 1] \in [CliVersions -> Nat] BY <1>2, <1>6
<1>9. puts' \in [CliPods -> [CliVersions -> Nat]] BY <1>2, <1>6, <1>7, <1>8
<1>10. \A q \in CliPods, w \in CliVersions :
         puts'[q][w] = IF q = p /\ w = v THEN puts[p][v] + 1 ELSE puts[q][w]
  BY <1>2, <1>6, <1>7
<1>11. object' \in [CliVersions -> Bodies \cup {Nil}] BY <1>6 DEF Bodies
<1>12. \A w \in CliVersions : object'[w] = IF w = v THEN "good" ELSE object[w] BY <1>6
<1>13. \A x \in CliRequests : call'[x] = IF x = r THEN c ELSE call[x] BY <1>2, <1>3
<1> HIDE DEF p, v
<1>14. CliTypeOK' BY <1>2, <1>3, <1>9, <1>11 DEF CliInv, CliTypeOK
<1>15. \A w \in CliVersions : object[w] = "good" => object'[w] = "good" BY <1>12
<1>16. RequestsOK'
  <2> SUFFICES ASSUME NEW x \in CliRequests PROVE RequestOK(call[x])' BY DEF RequestsOK
  <2>1. RequestOK(call[x]) BY DEF CliInv, RequestsOK
  <2>2. CASE x # r
    <3>1. call'[x] = call[x] BY <1>13, <2>2
    <3>2. QED BY <1>15, <2>1, <3>1, CliAssumption DEF RequestOK
  <2>3. CASE x = r
    <3>1. call'[x] = c BY <1>13, <2>3
    <3>2. object'[c.version] = "good" /\ c.version \in CliAllowed BY <1>2, <1>4, <1>12
    <3>3. QED BY <1>2, <1>4, <3>1, <3>2 DEF RequestOK, Early, p
  <2>4. QED BY <2>2, <2>3
<1>17. StoredGood' BY <1>12 DEF CliInv, StoredGood
<1>18. FlightOwned'
  <2>1. \A x \in CliRequests : /\ call'[x].at \in Owning <=> call[x].at \in Owning
                               /\ call'[x].pod = call[x].pod /\ call'[x].version = call[x].version
    BY <1>1, <1>4, <1>13 DEF Owning, p, v
  <2>2. \A q \in CliPods, w \in CliVersions : fetching[q][w] # Nil => fetching[q][w] \in CliRequests
    BY DEF CliInv, CliTypeOK
  <2>3. QED BY <2>1, <2>2 DEF CliInv, FlightOwned
<1>19. WaiterMatches' BY <1>4, <1>13 DEF CliInv, WaiterMatches, Early, v
<1>20. UploadDue'
  <2> SUFFICES ASSUME NEW x \in CliRequests, call'[x].at \in {"sums", "tarball", "put"}
               PROVE  puts'[call'[x].pod][call'[x].version] <= getFaults
    BY DEF UploadDue
  <2>1. x # r /\ call'[x] = call[x] BY <1>4, <1>13
  <2>2. call[x].at \in Owning /\ call[x].at \notin Early \cup {"done"} BY <2>1 DEF Owning, Early
  <2>3. call[x].pod \in CliPods /\ call[x].version \in CliVersions BY <2>2, SettledRequest
  <2>4. fetching[call[x].pod][call[x].version] = x /\ fetching[p][v] = r
    BY <1>1, <2>2 DEF CliInv, FlightOwned, p, v
  <2>5. ~(call[x].pod = p /\ call[x].version = v) BY <2>1, <2>4
  <2>6. puts[call[x].pod][call[x].version] <= getFaults BY <2>1 DEF CliInv, UploadDue
  <2>7. QED BY <1>10, <2>1, <2>3, <2>5, <2>6
<1>21. UploadStored'
  <2>1. "good" # Nil BY CliNilAssumption DEF Bodies
  <2>2. QED BY <1>10, <1>12, <2>1 DEF CliInv, UploadStored
<1>22. CliFetchedOnce'
  <2>1. puts[p][v] <= getFaults /\ puts[p][v] \in Nat BY <1>2, <1>6 DEF CliInv, UploadDue, p, v
  <2>2. QED BY <1>5, <1>10, <2>1 DEF CliInv, CliFetchedOnce
<1>23. QED BY <1>14, <1>16, <1>17, <1>18, <1>19, <1>20, <1>21, <1>22 DEF CliInv

LEMMA PutKeeps ==
    ASSUME CliInv, NEW r \in CliRequests, Put(r)
    PROVE  CliInv'
<1>1. call[r].at = "put" BY DEF Put
<1>2. call[r].at \in Owning BY <1>1 DEF Owning
<1>3. UNCHANGED <<fetching, getFaults, published, releases, listing, metaOf>>
  BY DEF Put, listVars, memoryVars
<1>4. ASSUME NEW err \in CliErrors, call' = FetchFails(r, err), UNCHANGED <<object, puts>> PROVE CliInv'
  <2>1. PICK c \in Call : FetchFails(r, err) = [call EXCEPT ![r] = c] /\ Failed(call[r], c, err)
    BY FailRecord
  <2>2. c.at \in Owning /\ c.at \notin {"sums", "tarball", "put", "record"} /\ c.flight # "ok"
    BY <2>1 DEF Failed, Owning, CliErrors
  <2>3. c.pod = call[r].pod /\ c.version = call[r].version /\ c.outcome = call[r].outcome
    BY <2>1 DEF Failed
  <2>4. QED BY <1>2, <1>3, <1>4, <2>1, <2>2, <2>3, OwnerKeeps, ListsTyped
<1>5. CASE /\ call' = Enter(r, "record") /\ object' = [object EXCEPT ![call[r].version] = "good"]
           /\ puts' = [puts EXCEPT ![call[r].pod][call[r].version] = @ + 1]
  BY <1>1, <1>3, <1>5, UploadKeeps
<1>6. "mismatch" \in CliErrors /\ "unavailable" \in CliErrors BY DEF CliErrors
<1>7. QED BY <1>4, <1>5, <1>6 DEF Put

(* The owner drops its flight, with its outcome.                             *)
LEMMA FinishKeeps ==
    ASSUME CliInv, NEW r \in CliRequests, FinishFetch(r)
    PROVE  CliInv'
<1> DEFINE p == call[r].pod
           v == call[r].version
           f == call[r].flight
           s == v \in metaOf[p]
<1>1. call[r].at = "finish" BY DEF FinishFetch
<1>2. call[r].at \notin Early \cup {"done"} /\ call[r].at \in Owning BY <1>1 DEF Early, Owning
<1>3. /\ call[r] \in Call /\ RequestOK(call[r]) /\ p \in CliPods /\ v \in CliAllowed /\ v \in CliVersions
      /\ call \in [CliRequests -> Call]
  BY <1>2, SettledRequest DEF CliInv, CliTypeOK
<1>4. f \in CliErrors \cup {"ok", Nil} /\ (f = "ok" => object[v] = "good") BY <1>3 DEF Call, RequestOK
<1>5. s \in BOOLEAN OBVIOUS
<1>6. call' = Return(r, f, s) BY DEF FinishFetch
<1>7. PICK c \in Call : call' = [call EXCEPT ![r] = c] /\ Returned(call[r], c, f)
  <2> HIDE DEF f, s
  <2>1. QED BY <1>4, <1>5, <1>6, ReturnRecord
<1>8. /\ c.at \in {"done", "open"} /\ c.pod = p /\ c.version = v /\ c.flight = f
      /\ c.at = "open" => f = "ok"
      /\ c.outcome \in {f, call[r].outcome}
  BY <1>7 DEF Returned, Answered, Entered, SameFlight
<1>9. fetching \in [CliPods -> [CliVersions -> CliRequests \cup {Nil}]] BY DEF CliInv, CliTypeOK
<1>10. fetching' = [fetching EXCEPT ![p] = [fetching[p] EXCEPT ![v] = Nil]] BY <1>3, <1>9 DEF FinishFetch
<1>11. fetching' \in [CliPods -> [CliVersions -> CliRequests \cup {Nil}]] BY <1>3, <1>9, <1>10
<1>12. \A q \in CliPods, w \in CliVersions :
         fetching'[q][w] = IF q = p /\ w = v THEN Nil ELSE fetching[q][w]
  BY <1>3, <1>9, <1>10
<1>13. UNCHANGED <<object, puts, getFaults, published, releases, listing, metaOf>>
  BY DEF FinishFetch, bucketVars, listVars
<1>14. \A x \in CliRequests : call'[x] = IF x = r THEN c ELSE call[x] BY <1>3, <1>7
<1>15. RequestOK(c) BY <1>3, <1>4, <1>8 DEF RequestOK, Early
<1>a. fetching[p][v] = r BY <1>2 DEF CliInv, FlightOwned
<1> HIDE DEF p, v, f, s
<1>16. CliTypeOK' BY <1>3, <1>7, <1>11, <1>13 DEF CliInv, CliTypeOK
<1>17. RequestsOK' BY <1>13, <1>14, <1>15 DEF CliInv, RequestsOK, RequestOK
<1>18. StoredGood' /\ UploadStored' /\ CliFetchedOnce'
  BY <1>13 DEF CliInv, StoredGood, UploadStored, CliFetchedOnce
<1>19. FlightOwned'
  <2>1. ASSUME NEW x \in CliRequests, call'[x].at \in Owning
        PROVE  fetching'[call'[x].pod][call'[x].version] = x
    <3>1. x # r /\ call'[x] = call[x] BY <1>8, <1>14, <2>1 DEF Owning
    <3>2. fetching[call[x].pod][call[x].version] = x BY <2>1, <3>1 DEF CliInv, FlightOwned
    <3>3. call[x].at \notin Early \cup {"done"} BY <2>1, <3>1 DEF Owning, Early
    <3>4. call[x].pod \in CliPods /\ call[x].version \in CliVersions BY <3>3, SettledRequest
    <3>5. QED BY <1>12, <1>a, <3>1, <3>2, <3>4
  <2>2. ASSUME NEW q \in CliPods, NEW w \in CliVersions, fetching'[q][w] # Nil
        PROVE  /\ call'[fetching'[q][w]].at \in Owning
               /\ call'[fetching'[q][w]].pod = q /\ call'[fetching'[q][w]].version = w
    <3>1. fetching'[q][w] = fetching[q][w] /\ ~(q = p /\ w = v) /\ fetching[q][w] \in CliRequests
      BY <1>9, <1>12, <2>2
    <3>2. /\ call[fetching[q][w]].at \in Owning
          /\ call[fetching[q][w]].pod = q /\ call[fetching[q][w]].version = w
      BY <2>2, <3>1 DEF CliInv, FlightOwned
    <3>3. fetching[q][w] # r BY <3>1, <3>2 DEF p, v
    <3>4. QED BY <1>14, <3>1, <3>2, <3>3
  <2>3. QED BY <2>1, <2>2 DEF FlightOwned
<1>20. WaiterMatches' BY <1>8, <1>14 DEF CliInv, WaiterMatches, Early, v
<1>21. UploadDue'
  <2>1. \A x \in CliRequests : call'[x].at \in {"sums", "tarball", "put"} => call'[x] = call[x]
    BY <1>8, <1>14
  <2>2. QED BY <1>13, <2>1 DEF CliInv, UploadDue
<1>22. QED BY <1>16, <1>17, <1>18, <1>19, <1>20, <1>21 DEF CliInv

LEMMA ReleasesKeep ==
    ASSUME CliInv, (\E p \in CliPods : ReleasesExpire(p)) \/ (\E v \in CliVersions : Publish(v))
    PROVE  CliInv'
<1>1. UNCHANGED <<object, puts, getFaults, listing, fetching, metaOf, call>>
  BY DEF ReleasesExpire, Publish, bucketVars, memoryVars
<1>2. published' \subseteq CliVersions BY DEF CliInv, CliTypeOK, ReleasesExpire, Publish
<1>3. releases' \in [CliPods -> [list: SUBSET CliVersions, fresh: BOOLEAN] \cup {Nil}]
  <2>0. releases \in [CliPods -> [list: SUBSET CliVersions, fresh: BOOLEAN] \cup {Nil}] BY ListsTyped
  <2>1. ASSUME NEW p \in CliPods, ReleasesExpire(p)
        PROVE  releases' \in [CliPods -> [list: SUBSET CliVersions, fresh: BOOLEAN] \cup {Nil}]
    <3> DEFINE new == [releases[p] EXCEPT !.fresh = FALSE]
    <3>1. releases[p] \in [list: SUBSET CliVersions, fresh: BOOLEAN] BY <2>0, <2>1 DEF ReleasesExpire
    <3>2. new \in [list: SUBSET CliVersions, fresh: BOOLEAN] BY <3>1
    <3>3. releases' = [releases EXCEPT ![p] = new] BY <2>1 DEF ReleasesExpire
    <3> HIDE DEF new
    <3>4. QED BY <2>0, <3>2, <3>3
  <2>2. QED BY <2>0, <2>1 DEF Publish
<1>4. CliTypeOK' BY <1>1, <1>2, <1>3 DEF CliInv, CliTypeOK
<1>5. QED
  BY <1>1, <1>4 DEF CliInv, RequestsOK, RequestOK, StoredGood, FlightOwned, WaiterMatches, UploadDue,
                    UploadStored, CliFetchedOnce

LEMMA CliNextInv == CliInv /\ [CliNext]_cliVars => CliInv'
<1> SUFFICES ASSUME CliInv, [CliNext]_cliVars PROVE CliInv' OBVIOUS
<1>1. CASE UNCHANGED cliVars
  BY <1>1 DEF cliVars, bucketVars, listVars, memoryVars, CliInv, CliTypeOK, RequestsOK, RequestOK,
              StoredGood, FlightOwned, WaiterMatches, UploadDue, UploadStored, CliFetchedOnce
<1>2. ASSUME NEW r \in CliRequests, CliStep(r) PROVE CliInv'
  BY <1>2, ListStepsKeep, HasKeeps, LockAndLookKeeps, FetchKeeps, PutKeeps, FinishKeeps,
     FetchAwaitedKeeps, OpenKeeps DEF CliStep
<1>3. QED BY <1>1, <1>2, HandlersKeep, ReleasesKeep DEF CliNext

(* The inductive invariant of the CLI distribution.                          *)
THEOREM CliInductive == CliSpec => []CliInv
BY CliInitInv, CliNextInv, PTL DEF CliSpec

(* However many requests race, a pod uploads a version once, plus at most     *)
(* once for every download from the bucket that failed.                      *)
THEOREM FetchedOnce == CliSpec => []CliFetchedOnce
<1>1. CliInv => CliFetchedOnce BY DEF CliInv
<1>2. QED BY <1>1, CliInductive, PTL

(* A client is told of success only for an allowed version whose verified     *)
(* tarball is in the bucket, whoever fetched it.                             *)
THEOREM ServesVerified == CliSpec => []CliServesVerified
<1>1. CliInv => CliServesVerified BY DEF CliInv, RequestsOK, RequestOK, CliServesVerified
<1>2. QED BY <1>1, CliInductive, PTL

(* Requests, flights and stored archives stay what handlers can make them,    *)
(* whatever is published and whoever waits for whom.                         *)
THEOREM CliTypeHolds == CliSpec => []CliTypeOK
<1>1. CliInv => CliTypeOK BY DEF CliInv
<1>2. QED BY <1>1, CliInductive, PTL

(* ------------------------------------------------------------ ImageCache -- *)

(* ImgReportTrue alone is not inductive: a worker deletes the digest it       *)
(* resolved some steps before.  Between the two calls the tag it came from    *)
(* can only have lost that digest, or been pulled again.                     *)
SlotShape ==
    /\ tagged \in [Tags -> Digests \cup {Nil}]
    /\ refs \in [Refs -> Slot]

ResolvedStands ==
    \A t \in Tags : refs[t].at = "delete" /\ t \notin repulled
                      => tagged[t] \in {refs[t].digest, Nil}

ImgInv == SlotShape /\ ResolvedStands /\ ImgReportTrue

-----------------------------------------------------------------------------
(* Where a reference was pruned already or is being deleted, other tags and   *)
(* references do not matter: a step that changes no slot and only empties     *)
(* tags or marks those it fills keeps the invariant.                         *)
LEMMA PullStep ==
    ASSUME ImgInv, NEW t \in Tags, NEW d \in Digests, PullThrough(t, d)
    PROVE  ImgInv'
<1>1. SlotShape' BY DEF ImgInv, SlotShape, PullThrough
<1>2. ASSUME NEW u \in Tags, u \notin repulled'
      PROVE  u \notin repulled /\ tagged'[u] = tagged[u] /\ refs'[u] = refs[u]
  BY <1>2 DEF ImgInv, SlotShape, PullThrough
<1>3. ResolvedStands' BY <1>2 DEF ImgInv, ResolvedStands
<1>4. ImgReportTrue' BY <1>2 DEF ImgInv, ImgReportTrue
<1>5. QED BY <1>1, <1>3, <1>4 DEF ImgInv

(* A request begins with slots to fill, and ends with none.                  *)
LEMMA ResetStep ==
    ASSUME ImgInv, ReportPrune \/ (\E S \in SUBSET Refs : StartPrune(S))
    PROVE  ImgInv'
<1>1. UNCHANGED tagged BY DEF ReportPrune, StartPrune
<1>2. refs' \in [Refs -> Slot] /\ \A x \in Refs : refs'[x].at \in {"none", "todo"}
  <2>1. [at |-> "todo", digest |-> Nil] \in Slot /\ NoRef \in Slot BY DEF Slot, NoRef
  <2>2. CASE ReportPrune BY <2>1, <2>2 DEF ReportPrune, NoRef
  <2>3. ASSUME NEW S \in SUBSET Refs, StartPrune(S)
        PROVE  refs' \in [Refs -> Slot] /\ \A x \in Refs : refs'[x].at \in {"none", "todo"}
    BY <2>1, <2>3 DEF StartPrune, NoRef
  <2>4. QED BY <2>2, <2>3
<1>3. SlotShape' BY <1>1, <1>2 DEF ImgInv, SlotShape
<1>4. ResolvedStands' /\ ImgReportTrue' BY <1>2 DEF ResolvedStands, ImgReportTrue, Refs
<1>5. QED BY <1>3, <1>4 DEF ImgInv

(* Settling x with an outcome that is no claim about the mirror.             *)
LEMMA ErrorStep ==
    ASSUME ImgInv, NEW x \in Refs, NEW o \in {"error", "notfound"},
           Settle(x, o), UNCHANGED <<tagged, repulled>>
    PROVE  ImgInv'
<1>1. [refs[x] EXCEPT !.at = o] \in Slot BY DEF ImgInv, SlotShape, Slot
<1>2. refs' = [refs EXCEPT ![x] = [refs[x] EXCEPT !.at = o]] BY DEF Settle
<1>3. SlotShape' BY <1>1, <1>2 DEF ImgInv, SlotShape
<1>4. refs'[x].at = o BY <1>2 DEF ImgInv, SlotShape, Slot
<1>5. \A y \in Refs : y # x => refs'[y] = refs[y] BY <1>2 DEF ImgInv, SlotShape
<1>6. ResolvedStands' BY <1>4, <1>5 DEF ImgInv, ResolvedStands, Refs
<1>7. ImgReportTrue' BY <1>4, <1>5 DEF ImgInv, ImgReportTrue, Refs
<1>8. QED BY <1>3, <1>6, <1>7 DEF ImgInv

(* A worker resolves x: the digest is the one the tag points to now.          *)
LEMMA ResolveStep ==
    ASSUME ImgInv, NEW x \in Refs, ResolveRef(x)
    PROVE  ImgInv'
<1>1. UNCHANGED <<tagged, repulled>> BY DEF ResolveRef
<1>2. CASE x \in Tags /\ Settle(x, "error") BY <1>1, <1>2, ErrorStep
<1>3. CASE x \in Tags /\ tagged[x] = Nil /\ Settle(x, "pruned")
  <2>1. [refs[x] EXCEPT !.at = "pruned"] \in Slot BY DEF ImgInv, SlotShape, Slot
  <2>2. refs' = [refs EXCEPT ![x] = [refs[x] EXCEPT !.at = "pruned"]] BY <1>3 DEF Settle
  <2>3. SlotShape' BY <1>1, <2>1, <2>2 DEF ImgInv, SlotShape
  <2>4. refs'[x].at = "pruned" BY <2>2 DEF ImgInv, SlotShape, Slot
  <2>5. \A y \in Refs : y # x => refs'[y] = refs[y] BY <2>2 DEF ImgInv, SlotShape
  <2>6. ResolvedStands' BY <1>1, <2>4, <2>5 DEF ImgInv, ResolvedStands, Refs
  <2>7. ImgReportTrue' BY <1>1, <1>3, <2>4, <2>5 DEF ImgInv, ImgReportTrue, Refs
  <2>8. QED BY <2>3, <2>6, <2>7 DEF ImgInv
<1>4. ASSUME NEW d \in Digests, refs' = [refs EXCEPT ![x] = [at |-> "delete", digest |-> d]],
             x \in Tags => tagged[x] = d
      PROVE  ImgInv'
  <2>1. [at |-> "delete", digest |-> d] \in Slot BY DEF Slot
  <2>2. SlotShape' BY <1>1, <1>4, <2>1 DEF ImgInv, SlotShape
  <2>3. refs'[x] = [at |-> "delete", digest |-> d] BY <1>4 DEF ImgInv, SlotShape
  <2>4. \A y \in Refs : y # x => refs'[y] = refs[y] BY <1>4 DEF ImgInv, SlotShape
  <2>5. ResolvedStands' BY <1>1, <1>4, <2>3, <2>4 DEF ImgInv, ResolvedStands, Refs
  <2>6. ImgReportTrue' BY <1>1, <2>3, <2>4 DEF ImgInv, ImgReportTrue, Refs
  <2>7. QED BY <2>2, <2>5, <2>6 DEF ImgInv
<1>5. x \in Digests => x \notin Tags BY ImageAssumption
<1>6. x \in Tags /\ tagged[x] # Nil => tagged[x] \in Digests BY DEF ImgInv, SlotShape
<1>7. QED BY <1>2, <1>3, <1>4, <1>5, <1>6 DEF ResolveRef

(* A worker deletes the digest of x: every tag that points to it is empty     *)
(* afterwards, the tag it came from too unless it was pulled since.           *)
LEMMA DeleteStep ==
    ASSUME ImgInv, NEW x \in Refs, DeleteManifest(x)
    PROVE  ImgInv'
<1>1. UNCHANGED repulled /\ refs[x].at = "delete" BY DEF DeleteManifest
<1>2. CASE /\ tagged' = [t \in Tags |-> IF tagged[t] = refs[x].digest THEN Nil ELSE tagged[t]]
           /\ Settle(x, "pruned")
  <2>1. [refs[x] EXCEPT !.at = "pruned"] \in Slot BY DEF ImgInv, SlotShape, Slot
  <2>2. refs' = [refs EXCEPT ![x] = [refs[x] EXCEPT !.at = "pruned"]] BY <1>2 DEF Settle
  <2>3. SlotShape' BY <1>2, <2>1, <2>2 DEF ImgInv, SlotShape
  <2>4. refs'[x].at = "pruned" BY <2>2 DEF ImgInv, SlotShape, Slot
  <2>5. \A y \in Refs : y # x => refs'[y] = refs[y] BY <2>2 DEF ImgInv, SlotShape
  <2>6. \A t \in Tags : tagged'[t] = Nil \/ tagged'[t] = tagged[t] BY <1>2
  <2>7. x \in Tags /\ x \notin repulled => tagged'[x] = Nil
    BY <1>1, <1>2 DEF ImgInv, ResolvedStands
  <2>8. ResolvedStands' BY <1>1, <2>4, <2>5, <2>6 DEF ImgInv, ResolvedStands, Refs
  <2>9. ImgReportTrue' BY <1>1, <2>4, <2>5, <2>6, <2>7 DEF ImgInv, ImgReportTrue, Refs
  <2>10. QED BY <2>3, <2>8, <2>9 DEF ImgInv
<1>3. CASE \E o \in DeleteOutcomes(x) : Settle(x, o) /\ UNCHANGED tagged
  <2>1. DeleteOutcomes(x) \subseteq {"error", "notfound"} BY DEF DeleteOutcomes
  <2>2. QED BY <1>1, <1>3, <2>1, ErrorStep
<1>4. QED BY <1>2, <1>3 DEF DeleteManifest

-----------------------------------------------------------------------------
LEMMA ImgInitInv == ImgInit => ImgInv
<1> SUFFICES ASSUME ImgInit PROVE ImgInv OBVIOUS
<1>1. NoRef \in Slot /\ NoRef.at = "none" BY DEF NoRef, Slot
<1>2. SlotShape BY <1>1 DEF ImgInit, SlotShape
<1>3. \A x \in Refs : refs[x].at = "none" BY <1>1 DEF ImgInit
<1>4. ResolvedStands /\ ImgReportTrue BY <1>3 DEF ResolvedStands, ImgReportTrue, Refs
<1>5. QED BY <1>2, <1>4 DEF ImgInv

LEMMA ImgNextInv == ImgInv /\ [ImgNext]_imgVars => ImgInv'
<1> SUFFICES ASSUME ImgInv, [ImgNext]_imgVars PROVE ImgInv' OBVIOUS
<1>1. CASE PruneRefs BY <1>1, ResetStep DEF PruneRefs
<1>2. CASE PruneAllMirror
  <2>1. Present \in SUBSET Refs BY DEF Present, Refs
  <2>2. QED BY <1>2, <2>1, ResetStep DEF PruneAllMirror
<1>3. CASE PruneStep BY <1>3, ResetStep, ResolveStep, DeleteStep DEF PruneStep
<1>4. CASE BudgetEnds \/ UNCHANGED imgVars
  <2>1. UNCHANGED <<tagged, refs, repulled>> BY <1>4 DEF BudgetEnds, imgVars
  <2>2. QED BY <2>1 DEF ImgInv, SlotShape, ResolvedStands, ImgReportTrue
<1>5. ASSUME NEW t \in Tags, NEW d \in Digests, PullThrough(t, d) PROVE ImgInv'
  BY <1>5, PullStep
<1>6. QED BY <1>1, <1>2, <1>3, <1>4, <1>5 DEF ImgNext

(* The invariant above holds of every reachable state of a prune.            *)
THEOREM ImgInductive == ImgSpec => []ImgInv
<1>1. QED BY ImgInitInv, ImgNextInv, PTL DEF ImgSpec

(* What pruneRef reports as pruned is gone from the mirror or was pulled      *)
(* since, whatever tags share a digest, however many workers there are and    *)
(* whatever engines pull meanwhile.                                          *)
THEOREM PrunedIsGone == ImgSpec => []ImgReportTrue
<1>1. ImgInv => ImgReportTrue BY DEF ImgInv
<1>2. QED BY <1>1, ImgInductive, PTL

(* pruneRefs runs a fixed pool of workers: one is busy from the resolution of *)
(* its reference to the answer of its delete.                                *)
PoolBounded == IsFiniteSet(Busy) /\ Cardinality(Busy) <= Workers

PoolInv ==
    /\ tagged \in [Tags -> Digests \cup {Nil}] /\ deletes \in BOOLEAN
    /\ refs \in [Refs -> Slot] /\ pruning \in {"no", "yes", "expired"}
    /\ repulled \subseteq Tags /\ pulls \in 0 .. MaxPulls
    /\ PoolBounded

(* No worker, or one fewer.                                                  *)
LEMMA PoolShrinks ==
    ASSUME PoolBounded, Busy' \subseteq Busy PROVE PoolBounded'
<1>1. Busy' \in SUBSET Busy OBVIOUS
<1>2. IsFiniteSet(Busy') /\ Cardinality(Busy') <= Cardinality(Busy) BY <1>1, FS_Subset DEF PoolBounded
<1>3. Cardinality(Busy') \in Nat /\ Cardinality(Busy) \in Nat BY <1>2, FS_CardinalityType DEF PoolBounded
<1>4. QED BY <1>2, <1>3, ImageAssumption DEF PoolBounded

LEMMA PoolGrows ==
    ASSUME PoolBounded, NEW x, Busy' = Busy \cup {x}, Cardinality(Busy) < Workers PROVE PoolBounded'
<1>1. PICK B : B = Busy OBVIOUS
<1>2. IsFiniteSet(B) /\ Cardinality(B) \in Nat BY <1>1, FS_CardinalityType DEF PoolBounded
<1>3. IsFiniteSet(B \cup {x}) /\ Cardinality(B \cup {x}) = IF x \in B THEN Cardinality(B) ELSE Cardinality(B) + 1
  BY <1>2, FS_AddElement
<1>4. QED BY <1>1, <1>2, <1>3, ImageAssumption DEF PoolBounded

LEMMA PoolSettles ==
    ASSUME PoolInv, NEW x \in Refs, NEW o \in {"pruned", "error", "notfound"}, Settle(x, o)
    PROVE  refs' \in [Refs -> Slot] /\ Busy' \subseteq Busy
<1>1. refs[x] \in Slot BY DEF PoolInv
<1>2. PICK k : k = [refs[x] EXCEPT !.at = o] OBVIOUS
<1>3. k \in Slot /\ k.at = o BY <1>1, <1>2 DEF Slot
<1>4. refs' = [refs EXCEPT ![x] = k] BY <1>2 DEF Settle
<1>5. \A y \in Refs : refs'[y] = IF y = x THEN k ELSE refs[y] BY <1>4 DEF PoolInv
<1>6. QED BY <1>3, <1>4, <1>5 DEF PoolInv, Busy

LEMMA PoolResolves ==
    ASSUME PoolInv, NEW x \in Refs, NEW d \in Digests, refs' = [refs EXCEPT ![x] = [at |-> "delete", digest |-> d]]
    PROVE  refs' \in [Refs -> Slot] /\ Busy' = Busy \cup {x}
<1>1. PICK k : k = [at |-> "delete", digest |-> d] OBVIOUS
<1>2. k \in Slot /\ k.at = "delete" BY <1>1 DEF Slot
<1>3. \A y \in Refs : refs'[y] = IF y = x THEN k ELSE refs[y] BY <1>1 DEF PoolInv
<1>4. QED BY <1>1, <1>2, <1>3 DEF PoolInv, Busy

LEMMA PoolInitInv == ImgInit => PoolInv
<1> SUFFICES ASSUME ImgInit PROVE PoolInv OBVIOUS
<1>1. NoRef \in Slot /\ NoRef.at = "none" BY DEF NoRef, Slot
<1>2. Busy = {} BY <1>1 DEF ImgInit, Busy
<1>3. PoolBounded BY <1>2, FS_EmptySet, ImageAssumption DEF PoolBounded
<1>4. QED BY <1>1, <1>3, ImageAssumption DEF ImgInit, PoolInv

LEMMA PoolResets ==
    ASSUME PoolInv, ReportPrune \/ (\E S \in SUBSET Refs : StartPrune(S)) PROVE PoolInv'
<1>1. [at |-> "todo", digest |-> Nil] \in Slot /\ NoRef \in Slot BY DEF Slot, NoRef
<1>2. refs' \in [Refs -> Slot] /\ \A x \in Refs : refs'[x].at # "delete"
  <2>1. CASE ReportPrune BY <1>1, <2>1 DEF ReportPrune, NoRef
  <2>2. ASSUME NEW S \in SUBSET Refs, StartPrune(S)
        PROVE  refs' \in [Refs -> Slot] /\ \A x \in Refs : refs'[x].at # "delete"
    BY <1>1, <2>2 DEF StartPrune, NoRef
  <2>3. QED BY <2>1, <2>2
<1>3. Busy' \subseteq Busy BY <1>2 DEF Busy
<1>4. PoolBounded' BY <1>3, PoolShrinks DEF PoolInv
<1>5. /\ tagged' = tagged /\ deletes' = deletes /\ pruning' \in {"no", "yes"} /\ repulled' = {} /\ pulls' = 0
  BY DEF ReportPrune, StartPrune
<1>6. QED BY <1>2, <1>4, <1>5, ImageAssumption DEF PoolInv

LEMMA PoolWorks ==
    ASSUME PoolInv, NEW x \in Refs, ResolveRef(x) \/ DeleteManifest(x) PROVE PoolInv'
<1>1. /\ deletes' = deletes /\ pruning' = pruning /\ repulled' = repulled /\ pulls' = pulls
      /\ tagged' \in [Tags -> Digests \cup {Nil}]
  BY DEF ResolveRef, DeleteManifest, PoolInv
<1>2. refs' \in [Refs -> Slot] /\ PoolBounded'
  <2>1. ASSUME NEW o \in {"pruned", "error", "notfound"}, Settle(x, o) PROVE refs' \in [Refs -> Slot] /\ PoolBounded'
    BY <2>1, PoolSettles, PoolShrinks DEF PoolInv
  <2>2. ASSUME NEW d \in Digests, refs' = [refs EXCEPT ![x] = [at |-> "delete", digest |-> d]],
               Cardinality(Busy) < Workers
        PROVE  refs' \in [Refs -> Slot] /\ PoolBounded'
    BY <2>2, PoolResolves, PoolGrows DEF PoolInv
  <2>3. \A t \in Tags : tagged[t] # Nil => tagged[t] \in Digests BY DEF PoolInv
  <2>4. CASE ResolveRef(x) BY <2>1, <2>2, <2>3, <2>4 DEF ResolveRef
  <2>5. CASE DeleteManifest(x) BY <2>1, <2>5 DEF DeleteManifest, DeleteOutcomes
  <2>6. QED BY <2>4, <2>5
<1>3. QED BY <1>1, <1>2 DEF PoolInv

LEMMA PoolNextInv == PoolInv /\ [ImgNext]_imgVars => PoolInv'
<1> SUFFICES ASSUME PoolInv, [ImgNext]_imgVars PROVE PoolInv' OBVIOUS
<1>1. CASE PruneRefs BY <1>1, PoolResets DEF PruneRefs
<1>2. CASE PruneAllMirror
  <2>1. Present \in SUBSET Refs BY DEF Present, Refs
  <2>2. QED BY <1>2, <2>1, PoolResets DEF PruneAllMirror
<1>3. CASE PruneStep BY <1>3, PoolResets, PoolWorks DEF PruneStep
<1>4. CASE BudgetEnds \/ UNCHANGED imgVars
  <2>1. UNCHANGED <<tagged, deletes, refs, repulled, pulls>> /\ pruning' \in {pruning, "expired"}
    BY <1>4 DEF BudgetEnds, imgVars
  <2>2. QED BY <2>1 DEF PoolInv, PoolBounded, Busy
<1>5. ASSUME NEW t \in Tags, NEW d \in Digests, PullThrough(t, d) PROVE PoolInv'
  BY <1>5, ImageAssumption DEF PullThrough, PoolInv, PoolBounded, Busy
<1>6. QED BY <1>1, <1>2, <1>3, <1>4, <1>5 DEF ImgNext

(* Never more than Workers references are between their two calls, whatever   *)
(* the number of references and however often the mirror is pruned again: a   *)
(* worker of pruneRefs takes its next reference only when it is done with the *)
(* last.                                                                     *)
THEOREM ImgTypeHolds == ImgSpec => []ImgTypeOK
<1>1. PoolInv => ImgTypeOK BY DEF PoolInv, PoolBounded, Busy, ImgTypeOK
<1>2. QED BY <1>1, PoolInitInv, PoolNextInv, PTL DEF ImgSpec
=============================================================================
