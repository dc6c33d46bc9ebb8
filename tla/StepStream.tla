----------------------------- MODULE StepStream -----------------------------
(* The step stream of the CI wrapper: cmd/ci/main.go, the StepEventBuilder of *)
(* internal/service/ci_steps.go and what the supervisor answers it            *)
(* (internal/repository/trace_store.go, internal/handler/traces.go, logs.go).  *)
(*                                                                           *)
(* While the dagger command runs, the wrapper finds its trace, polls the span  *)
(* tree and the log lines indexed so far and prints what is new as events;     *)
(* after the command has ended it polls once more and closes what is open.     *)
(* Spans are numbered by start time, so the parent of a span is a smaller      *)
(* number.  Lines that reach the stream are one event each: how they are cut   *)
(* into chunks is left out, and so is the cap of maxMarkKeys (4096 lines of    *)
(* one timestamp), beyond which the code accepts repetitions.  Standard output *)
(* takes what is written: a wrapper that has lost it is killed.                *)
EXTENDS Naturals, Sequences, FiniteSets, Absent
SX == INSTANCE SequencesExt

CONSTANTS
    Spans,          \* 1..n
    Shapes,         \* pipelines explored: parent[s] < s, 0 above the first span;
                    \* folded, the spans with names internal to the engine;
                    \* outcome[s] of its finish record
    MaxDepth,       \* --steps-max-depth
    LogRecords,     \* log records [span, ts, line] of the trace
    LogLimit,       \* lines in an answer of the supervisor (1000)
    MaxPolls        \* bound: polls before the last one

ASSUME StepAssumption ==
    /\ Spans = 1..Cardinality(Spans) /\ 1 \in Spans /\ MaxDepth \in Nat \ {0} /\ LogLimit \in Nat
    /\ MaxPolls \in Nat /\ IsFiniteSet(LogRecords)
    /\ \A t \in Shapes, s \in Spans :
          t.parent[s] \in 0..(s - 1) /\ t.outcome[s] \in {"success", "failed"}
    /\ \A l \in LogRecords : l.span \in Spans /\ l.ts \in Nat \ {0}

ASSUME NilNotStep == Nil \notin {"running", "success", "failed"}

VARIABLES
    shape,          \* the pipeline that runs
    tempo,          \* the spans GetTrace answered last: Nil, "running" or an outcome
    loki,           \* log records indexed at the last query
    metaStatus,     \* status of the metadata row in that answer, Nil while running
    found,          \* discoveredID is set
    stepPc,         \* where the wrapper is
    builder,        \* [state, order, mark, keys, done] of the StepEventBuilder
    stream,         \* events written to standard output
    exitStatus,     \* how the dagger command ended, Nil while it runs
    polls           \* polls begun while the command ran

stepVars == <<shape, tempo, loki, metaStatus, found, stepPc, builder, stream,
              exitStatus, polls>>

StepOutcomes == {"success", "failed"}

StepPcs == {"discover", "idle", "logs", "flush", "flushLogs", "finalize", "ended"}

StepTypeOK ==
    /\ tempo \in [Spans -> {Nil, "running"} \cup StepOutcomes]
    /\ loki \subseteq LogRecords
    /\ metaStatus \in StepOutcomes \cup {Nil} /\ exitStatus \in StepOutcomes \cup {Nil}
    /\ stepPc \in StepPcs
    /\ builder.state \in [Spans -> {Nil, "running"} \cup StepOutcomes]
    /\ {builder.order[i] : i \in DOMAIN builder.order} = {s \in Spans : builder.state[s] # Nil}
    /\ builder.keys \subseteq {<<l.span, l.line>> : l \in LogRecords}

StepInit ==
    /\ shape \in Shapes /\ polls = 0
    /\ tempo = [s \in Spans |-> Nil] /\ loki = {} /\ metaStatus = Nil
    /\ found = FALSE /\ stepPc = "discover"
    /\ builder = [state |-> [s \in Spans |-> Nil], order |-> <<>>, mark |-> 0, keys |-> {},
                  done |-> FALSE]
    /\ stream = <<>> /\ exitStatus = Nil

(* ------------------------------------------------- the trace as it is read *)

Indexed == {s \in Spans : tempo[s] # Nil}

(* pickRoot: the span that started first among those whose parent is not      *)
(* indexed.  Numbers make the tie-break and the fall-back for cycles moot.     *)
PickRoot ==
    LET parentless == {s \in Indexed : shape.parent[s] \notin Indexed}
    IN  IF parentless = {} THEN Nil ELSE CHOOSE s \in parentless : \A o \in parentless : s <= o

(* flattenTrace: the spans a walk from root reaches, and for each its depth,   *)
(* the node above it (owner) and whether it becomes a node (shown).  Internal  *)
(* spans pass depth and owner on to their children; the walk stops at a span    *)
(* below the depth limit.                                                    *)
FlattenTrace(root) ==
    LET Outside == [walked |-> FALSE, shown |-> FALSE, cut |-> FALSE, depth |-> 0, owner |-> Nil]
        place[s \in Spans] ==
            IF s = root
            THEN [walked |-> TRUE, shown |-> TRUE, cut |-> FALSE, depth |-> 0, owner |-> Nil]
            ELSE IF s \notin Indexed \/ shape.parent[s] \notin Indexed
                    \/ ~place[shape.parent[s]].walked \/ place[shape.parent[s]].cut
            THEN Outside
            ELSE LET up == place[shape.parent[s]]
                     depth == IF up.shown THEN up.depth + 1 ELSE up.depth
                 IN  [walked |-> TRUE,
                      shown  |-> depth <= MaxDepth /\ s \notin shape.folded,
                      cut    |-> depth > MaxDepth,
                      depth  |-> depth,
                      owner  |-> IF up.shown THEN shape.parent[s] ELSE up.owner]
    IN  place

(* resolveLogOwner over the attribution that flattenTrace builds.             *)
ResolveLogOwner(place, root, s) ==
    CASE place[s].shown -> s
      [] place[s].walked /\ ~place[s].shown -> place[s].owner
      [] OTHER -> root

(* prepareLogChunks: the lines that were not emitted yet, oldest first.        *)
FreshLogs(b, logs) ==
    {l \in logs : l.ts > b.mark \/ (l.ts = b.mark /\ <<l.span, l.line>> \notin b.keys)}
ByTime(logs) == SX!SetToSortSeq(logs, LAMBDA x, y : x.ts < y.ts)

(* Mutant of AdvanceWatermark: the watermark only moves for newer lines.       *)
AdvanceWatermarkNewer(b, logs) ==
    LET newest == CHOOSE t \in {l.ts : l \in logs} : \A l \in logs : l.ts <= t
    IN  IF logs = {} \/ newest <= b.mark THEN b
        ELSE [b EXCEPT !.mark = newest,
                       !.keys = @ \cup {<<l.span, l.line>> : l \in {k \in logs : k.ts = newest}}]

(* advanceWatermark: the newest timestamp answered, and the lines seen at it.  *)
AdvanceWatermark(b, logs) ==
    LET newest == CHOOSE t \in {l.ts : l \in logs} : \A l \in logs : l.ts <= t
    IN  IF logs = {} \/ newest < b.mark THEN b
        ELSE [b EXCEPT !.mark = newest,
                       !.keys = @ \cup {<<l.span, l.line>> : l \in {k \in logs : k.ts = newest}}]

(* emitTree with emitNodeStarted and emitNodeFinished: a node starts, then its *)
(* children, then its lines, then its end.  Siblings come in start order.      *)
(* late is a history component: an earlier poll has closed the line's stage.  *)
EmitTree(b, place, root, fresh) ==
    LET Started(s) == IF b.state[s] # Nil THEN <<>>
                      ELSE <<[kind |-> "started", node |-> s, owner |-> place[s].owner]>>
        Lines(s) == LET own == {l \in fresh : ResolveLogOwner(place, root, l.span) = s}
                    IN  [i \in 1..Cardinality(own) |->
                            [kind |-> "log", node |-> s, record |-> ByTime(own)[i],
                             late |-> b.state[s] \in StepOutcomes]]
        Finished(s) == IF tempo[s] \in StepOutcomes /\ b.state[s] \in {Nil, "running"}
                       THEN <<[kind |-> "finished", node |-> s, status |-> tempo[s]]>>
                       ELSE <<>>
        visit[s \in Spans] ==
            LET children == {c \in Spans : place[c].shown /\ place[c].owner = s}
                inOrder == SX!SetToSortSeq(children, <)
            IN  Started(s) \o SX!FlattenSeq([i \in 1..Len(inOrder) |-> visit[inOrder[i]]])
                \o Lines(s) \o Finished(s)
    IN  visit[root]

(* The nodes that the events of a walk open, in the order in which the builder *)
(* remembers them.                                                           *)
Opened(tree) ==
    LET new == SelectSeq(tree, LAMBDA e : e.kind = "started")
    IN  [i \in 1..Len(new) |-> new[i].node]

(* terminalStatus, after handleTracesDetail has put a final status of the      *)
(* metadata row in the place of "running".                                   *)
TerminalStatus(root) == IF tempo[root] \in StepOutcomes THEN tempo[root] ELSE metaStatus

(* Advance: the events of one snapshot, and the builder after it.  Before a    *)
(* root is known it does nothing.                                            *)
BuilderAdvance(b, logs) ==
    LET root == PickRoot
        place == FlattenTrace(root)
        tree == EmitTree(b, place, root, FreshLogs(b, logs))
        status == TerminalStatus(root)
        ends == ~b.done /\ status # Nil
    IN  IF root = Nil THEN [builder |-> b, events |-> <<>>]
        ELSE [builder |-> [AdvanceWatermark(b, logs) EXCEPT
                 !.state = [s \in Spans |-> IF place[s].shown /\ b.state[s] \notin StepOutcomes
                                            THEN tempo[s] ELSE b.state[s]],
                 !.order = @ \o Opened(tree),
                 !.done = @ \/ ends],
              events |-> tree \o (IF ends THEN <<[kind |-> "done", status |-> status]>> ELSE <<>>)]

(* The nodes still running, the last started first.                          *)
StillRunning(b) == SelectSeq(SX!Reverse(b.order), LAMBDA s : b.state[s] = "running")

(* Finalize: running nodes end with the command's status, and the pipeline     *)
(* ends unless a snapshot ended it.                                           *)
BuilderFinalize(b, status) ==
    LET open == StillRunning(b)
        ended == [s \in Spans |-> IF b.state[s] = "running" THEN status ELSE b.state[s]]
    IN  [builder |-> [b EXCEPT !.state = ended, !.done = TRUE],
         events |-> [i \in 1..Len(open) |->
                        [kind |-> "finished", node |-> open[i], status |-> status]]
                    \o (IF b.done THEN <<>> ELSE <<[kind |-> "done", status |-> status]>>)]

(* ------------------------------------------------------------- the wrapper *)

(* cmd.Run returns: the command ended, was signalled or timed out.  The        *)
(* context of the polls is cancelled.                                        *)
CommandExits(status) ==
    /\ exitStatus = Nil
    /\ exitStatus' = status
    /\ UNCHANGED <<shape, polls, tempo, loki, metaStatus, found, stepPc, builder, stream>>

(* Trace discovery: ListTraces names a trace.                                *)
DiscoverTrace ==
    /\ stepPc = "discover" /\ exitStatus = Nil
    /\ found' = TRUE /\ stepPc' = "idle"
    /\ UNCHANGED <<shape, polls, tempo, loki, metaStatus, builder, stream, exitStatus>>

(* What Tempo may have indexed since: start and finish records in any order.   *)
(* A finish record merges into the node, a start record never undoes it.       *)
MergedSpans == {spans \in [Spans -> {Nil, "running"} \cup StepOutcomes] :
                   \A s \in Spans :
                      /\ spans[s] \in {Nil, "running", shape.outcome[s]}
                      /\ tempo[s] \in {Nil, spans[s]} \/ (tempo[s] = "running" /\ spans[s] # Nil)}

(* pollTraceOnce, first call: the tree, and the metadata row, which has become *)
(* final or not by then: with the outcome of the first span, or failed by the  *)
(* pipeline lifecycle (see TraceStatus).                                      *)
PollTrace ==
    /\ \/ /\ stepPc = "idle" /\ exitStatus = Nil /\ polls < MaxPolls
          /\ stepPc' = "logs" /\ polls' = polls + 1
       \/ stepPc = "flush" /\ stepPc' = "flushLogs" /\ UNCHANGED polls
    /\ tempo' \in MergedSpans
    /\ metaStatus' \in IF metaStatus = Nil THEN {Nil, shape.outcome[1], "failed"} ELSE {metaStatus}
    /\ UNCHANGED <<shape, loki, found, builder, stream, exitStatus>>

(* The last poll of the tree fails.  One that fails earlier is repeated.      *)
LastPollFails ==
    /\ stepPc = "flush" /\ stepPc' = "finalize"
    /\ UNCHANGED <<shape, polls, tempo, loki, metaStatus, found, builder, stream, exitStatus>>

AfterPoll == IF stepPc = "logs" THEN "idle" ELSE "finalize"

(* queryAndWriteTraceLogs: the oldest lines indexed, LogLimit of them,         *)
(* whatever start the wrapper asked for.                                     *)
LogAnswers(indexed) ==
    {a \in SUBSET indexed :
        /\ Cardinality(a) = LogLimit \/ (Cardinality(a) < LogLimit /\ a = indexed)
        /\ \A x \in a, y \in indexed \ a : x.ts <= y.ts}

(* pollTraceOnce, second call: the lines, then Advance and the events.         *)
PollLogs ==
    /\ stepPc = "flushLogs" \/ (stepPc = "logs" /\ exitStatus = Nil)
    /\ \E more \in SUBSET (LogRecords \ loki) : loki' = loki \cup more
    /\ \E logs \in LogAnswers(loki') :
          LET step == BuilderAdvance(builder, logs)
          IN  builder' = step.builder /\ stream' = stream \o step.events
    /\ stepPc' = AfterPoll
    /\ UNCHANGED <<shape, polls, tempo, metaStatus, found, exitStatus>>

(* The call for the lines fails, or its context was cancelled.               *)
PollLogsFails ==
    /\ stepPc \in {"logs", "flushLogs"}
    /\ stepPc' = AfterPoll
    /\ UNCHANGED <<shape, polls, tempo, loki, metaStatus, found, builder, stream, exitStatus>>

(* stepsWG.Wait is over: the poller has seen the cancelled context.          *)
StopPolling ==
    /\ exitStatus # Nil /\ stepPc \in {"discover", "idle"}
    /\ stepPc' = IF found THEN "flush" ELSE "finalize"
    /\ UNCHANGED <<shape, polls, tempo, loki, metaStatus, found, builder, stream, exitStatus>>

(* The final flush.                                                          *)
FinalFlush ==
    /\ stepPc = "finalize"
    /\ LET step == BuilderFinalize(builder, exitStatus)
       IN  builder' = step.builder /\ stream' = stream \o step.events
    /\ stepPc' = "ended"
    /\ UNCHANGED <<shape, polls, tempo, loki, metaStatus, found, exitStatus>>

WrapperStep ==
    \/ PollTrace \/ LastPollFails \/ PollLogs \/ PollLogsFails \/ StopPolling \/ FinalFlush

StepNext ==
    \/ \E st \in StepOutcomes : CommandExits(st)
    \/ DiscoverTrace
    \/ WrapperStep

(* Every step of the wrapper, and no other, moves stepPc, and one is possible  *)
(* until it has ended: fairness of the wrapper once the command is over, said  *)
(* of stepPc alone.                                                          *)
WrapperMoves == exitStatus # Nil /\ stepPc # "ended" /\ stepPc' \in StepPcs \ {stepPc}

StepSpec == StepInit /\ [][StepNext]_stepVars /\ WF_stepPc(WrapperMoves)

-----------------------------------------------------------------------------
(* The places of the events of a kind in the stream.                         *)
Events(kind) == {i \in DOMAIN stream : stream[i].kind = kind}

StepsInOrder ==
    /\ \A i, j \in Events("started") \cup Events("finished") \cup Events("log") :
          i < j /\ stream[i].kind = stream[j].kind =>
              IF stream[i].kind = "log" THEN stream[i].record # stream[j].record
              ELSE stream[i].node # stream[j].node
    /\ Cardinality(Events("done")) <= 1
    /\ \A i \in Events("log") \cup Events("finished") :
          \E j \in Events("started") : j < i /\ stream[j].node = stream[i].node
    /\ \A i \in Events("started") : stream[i].owner # Nil =>
          \E j \in Events("started") : j < i /\ stream[j].node = stream[i].owner
    /\ \A i \in Events("finished"), j \in Events("log") :
          i < j /\ stream[i].node = stream[j].node => stream[j].late

StepsClosed ==
    /\ Cardinality(Events("done")) = 1
    /\ \A i \in Events("started") :
          \E j \in Events("finished") :
              /\ j > i /\ stream[j].node = stream[i].node
              /\ tempo[stream[j].node] = "running" => stream[j].status = exitStatus
              /\ \A k \in Events("finished") :
                    stream[k].node = stream[i].owner /\ tempo[stream[k].node] = "running" => j < k

(* Whatever the order in which Tempo and Loki index a pipeline, however often  *)
(* a poll is repeated and at whatever call it fails, the stream nests as far    *)
(* as the builder knew the tree when it opened each stage (Advance with its    *)
(* watermark, and Finalize).  StepsInOrder: a node starts once, after the node  *)
(* it names as its parent, ends at most once and after its start; a line is     *)
(* printed at most once and after the start of its stage, and before its end    *)
(* but for a line first answered once an earlier poll has closed the stage;     *)
(* the pipeline ends once.  StepsClosed, when the wrapper is done: every stage  *)
(* is closed and the pipeline has ended, even when the trace was never found    *)
(* or the last poll failed; a stage that no finish record closed has the        *)
(* command's status and closes before the parent its start event named.         *)
(* This is less than ADR-024 and the comment of StepEventBuilder promise: logs  *)
(* always before node_finished, and children always before their parents.  A    *)
(* line indexed late is printed in a closed stage, and a parent indexed after   *)
(* its child opens after it and may close before it.                           *)
StepsRenderable == StepsInOrder /\ (stepPc = "ended" => StepsClosed)

(* Once the command has ended the wrapper ends too, with a closed stream,      *)
(* whatever the supervisor answers.                                          *)
StepsEnd == exitStatus # Nil ~> (stepPc = "ended" /\ StepsClosed)
=============================================================================
