----------------------------- MODULE LiveStream -----------------------------
(* Live updates: internal/repository/live_hub.go, the stream handlers of      *)
(* internal/handler/traces.go, the broadcasts of the telemetry proxy          *)
(* (internal/handler/server.go) and the pages that follow them                *)
(* (ui/app/pages/pipelines).                                                 *)
(*                                                                           *)
(* An event carries no data: it makes the page fetch the trace, or the list,  *)
(* again.  Every client has a bounded channel and a goroutine (writePump)     *)
(* that empties it; a broadcast skips a client whose channel is full.  The    *)
(* hub's lock is a readers-writer lock: broadcasts read, subscriptions write. *)
EXTENDS Naturals, Sequences, Absent

CONSTANTS
    LiveClients,    \* streams opened by browsers
    Ingests,        \* telemetry requests being served
    ChannelSize,    \* capacity of a client's channel (256)
    LiveFaults,     \* a fetch may fail, or show a state of the past
    MaxStored       \* bound: batches stored

ASSUME LiveAssumption ==
    ChannelSize \in Nat \ {0} /\ LiveFaults \in BOOLEAN /\ MaxStored \in Nat

Topics == {"trace", "list"}

ASSUME NilNotTopic == Nil \notin Topics

VARIABLES
    topic,      \* topic[c]: what c's page shows, Nil before it is opened
    hub,        \* clients in the hub's map
    queued,     \* queued[c]: events in the channel Send
    closed,     \* clients whose channel was closed
    pump,       \* pump[c]: "off", "idle", "writing", "written" or "done"
    handler,    \* handler[c]: "none", "serving", "leaving" or "gone"
    broken,     \* clients whose connection is gone
    ingest,     \* ingest[i]: the broadcasts still to make, [topics, to], or Nil
    stored,     \* stored[k]: the batches stored for k, each with whether what
                \* it shows is still running
    refetch,    \* pages with a fetch scheduled by an event
    seen,       \* seen[c]: how many of the batches c's page shows
    asked,      \* asked[c]: how many were stored when its last fetch began
    due         \* due[c]: how many were stored when it was last offered an event

page == <<refetch, seen, asked>>
liveVars == <<topic, hub, queued, closed, pump, handler, broken, ingest, stored, page, due>>

LiveTypeOK ==
    /\ topic \in [LiveClients -> Topics \cup {Nil}]
    /\ hub \subseteq LiveClients /\ closed \subseteq LiveClients /\ broken \subseteq LiveClients
    /\ queued \in [LiveClients -> 0..ChannelSize]
    /\ pump \in [LiveClients -> {"off", "idle", "writing", "written", "done"}]
    /\ handler \in [LiveClients -> {"none", "serving", "leaving", "gone"}]
    /\ \A i \in Ingests : ingest[i] # Nil =>
          /\ ingest[i].topics \in {<<>>, <<"list">>, <<"trace">>, <<"trace", "list">>}
          /\ ingest[i].to = Nil \/ ingest[i].to \subseteq LiveClients
    /\ \A k \in Topics : stored[k] \in Seq(BOOLEAN) /\ Len(stored[k]) <= MaxStored
    /\ refetch \subseteq LiveClients
    /\ seen \in [LiveClients -> 0..MaxStored] /\ asked \in [LiveClients -> 0..MaxStored]
    /\ due \in [LiveClients -> 0..MaxStored]

LiveInit ==
    /\ topic = [c \in LiveClients |-> Nil]
    /\ hub = {} /\ closed = {} /\ broken = {}
    /\ queued = [c \in LiveClients |-> 0]
    /\ pump = [c \in LiveClients |-> "off"]
    /\ handler = [c \in LiveClients |-> "none"]
    /\ ingest = [i \in Ingests |-> Nil]
    /\ stored = [k \in Topics |-> <<>>]
    /\ refetch = {}
    /\ seen = [c \in LiveClients |-> 0] /\ asked = [c \in LiveClients |-> 0]
    /\ due = [c \in LiveClients |-> 0]

(* The clients a broadcast under the read lock has still to offer its event. *)
Sending(i) == IF ingest[i] = Nil \/ ingest[i].to = Nil THEN {} ELSE ingest[i].to
WriteLockFree == ~ \E i \in Ingests : ingest[i] # Nil /\ ingest[i].to # Nil

(* --------------------------------------------------------------- a page -- *)

(* load, loadTrace and loadLogs: the page shows what the fetch reads.  One    *)
(* that fails leaves what it showed; one that a follower or an index that     *)
(* lags behind answers shows the past.                                       *)
Fetch(c, k) ==
    /\ asked' = [asked EXCEPT ![c] = Len(stored[k])]
    /\ \E n \in 0..Len(stored[k]) :
          /\ LiveFaults \/ n = Len(stored[k])
          /\ seen' = [seen EXCEPT ![c] = n]

(* onMounted: the page fetches first, and opens its stream afterwards.        *)
OpenPage(c, k) ==
    /\ topic[c] = Nil
    /\ topic' = [topic EXCEPT ![c] = k]
    /\ Fetch(c, k)
    /\ UNCHANGED <<hub, queued, closed, pump, handler, broken, ingest, stored, refetch, due>>

(* scheduleTraceRefetch, scheduleLogsRefetch and scheduleListRefetch: the     *)
(* timer that an event has set fires; a burst sets it once.                   *)
PageRefetch(c) ==
    /\ c \in refetch /\ c \notin broken
    /\ refetch' = refetch \ {c}
    /\ Fetch(c, topic[c])
    /\ UNCHANGED <<topic, hub, queued, closed, pump, handler, broken, ingest, stored, due>>

(* The pages' poll timer: the list is polled while it shows a running row, a  *)
(* trace until it shows a verdict.                                           *)
Poll(c) ==
    /\ handler[c] # "none" /\ c \notin broken
    /\ IF seen[c] = 0 THEN topic[c] = "trace" ELSE stored[topic[c]][seen[c]]
    /\ Fetch(c, topic[c])
    /\ UNCHANGED <<topic, hub, queued, closed, pump, handler, broken, ingest, stored, refetch, due>>

(* --------------------------------------------------------------- a stream *)

(* handleTracesLive and handleTracesListLive: subscribe, start the pump.  An  *)
(* EventSource that reconnects opens a new stream, and does not fetch either. *)
Subscribe(c) ==
    /\ topic[c] # Nil /\ handler[c] = "none" /\ WriteLockFree
    /\ hub' = hub \cup {c}
    /\ pump' = [pump EXCEPT ![c] = "idle"]
    /\ handler' = [handler EXCEPT ![c] = "serving"]
    /\ UNCHANGED <<topic, queued, closed, broken, ingest, stored, page, due>>

(* The browser goes away.                                                    *)
Disconnect(c) ==
    /\ handler[c] = "serving" /\ c \notin broken
    /\ broken' = broken \cup {c}
    /\ UNCHANGED <<topic, hub, queued, closed, pump, handler, ingest, stored, page, due>>

(* The handler's select: the request context ends (ctxDone) or the pump did.  *)
StopServing(c, ctxDone) ==
    /\ handler[c] = "serving"
    /\ ctxDone \/ pump[c] = "done"
    /\ handler' = [handler EXCEPT ![c] = "leaving"]
    /\ broken' = broken \cup {c}
    /\ UNCHANGED <<topic, hub, queued, closed, pump, ingest, stored, page, due>>

(* Mutant of Unsubscribe: the channel is closed without the write lock.       *)
UnsubscribeUnlocked(c) ==
    /\ handler[c] = "leaving"
    /\ handler' = [handler EXCEPT ![c] = "gone"]
    /\ hub' = hub \ {c}
    /\ closed' = IF c \in hub THEN closed \cup {c} ELSE closed
    /\ UNCHANGED <<topic, queued, pump, broken, ingest, stored, page, due>>

(* Unsubscribe: under the write lock, close the channel of a member.          *)
Unsubscribe(c) ==
    /\ handler[c] = "leaving" /\ WriteLockFree
    /\ handler' = [handler EXCEPT ![c] = "gone"]
    /\ hub' = hub \ {c}
    /\ closed' = IF c \in hub THEN closed \cup {c} ELSE closed
    /\ UNCHANGED <<topic, queued, pump, broken, ingest, stored, page, due>>

(* writePump: take an event, write it; the page then schedules a fetch.  A    *)
(* write to a broken connection, an event or a keep-alive, ends the pump, and *)
(* so does a channel that is closed and empty.                               *)
PumpTake(c) ==
    /\ pump[c] = "idle" /\ queued[c] > 0
    /\ queued' = [queued EXCEPT ![c] = @ - 1]
    /\ pump' = [pump EXCEPT ![c] = "writing"]
    /\ UNCHANGED <<topic, hub, closed, handler, broken, ingest, stored, page, due>>

PumpWrite(c) ==
    /\ pump[c] = "writing"
    /\ \/ /\ c \notin broken
          /\ pump' = [pump EXCEPT ![c] = "written"]
          /\ refetch' = refetch \cup {c}
       \/ /\ c \in broken
          /\ pump' = [pump EXCEPT ![c] = "done"]
          /\ UNCHANGED refetch
    /\ UNCHANGED <<topic, hub, queued, closed, handler, broken, ingest, stored, seen, asked, due>>

(* The write returns; the page may have fetched long before.                 *)
PumpReturns(c) ==
    /\ pump[c] = "written"
    /\ pump' = [pump EXCEPT ![c] = "idle"]
    /\ UNCHANGED <<topic, hub, queued, closed, handler, broken, ingest, stored, page, due>>

(* Mutant of PumpStops: no keep-alive, so a silent client is never noticed.   *)
PumpStopsNoKeepAlive(c) ==
    /\ pump[c] = "idle"
    /\ c \in closed /\ queued[c] = 0
    /\ pump' = [pump EXCEPT ![c] = "done"]
    /\ UNCHANGED <<topic, hub, queued, closed, handler, broken, ingest, stored, page, due>>

PumpStops(c) ==
    /\ pump[c] = "idle"
    /\ c \in broken \/ (c \in closed /\ queued[c] = 0)
    /\ pump' = [pump EXCEPT ![c] = "done"]
    /\ UNCHANGED <<topic, hub, queued, closed, handler, broken, ingest, stored, page, due>>

(* ----------------------------------------------------------- a broadcast -- *)

(* A batch is recorded and passed on to the backend, and then                 *)
(* broadcastOTelUpdate signals the trace and, for spans, the list of          *)
(* pipelines.  A trace that has ended does not run again.                     *)
StoreBatch(i, topics, runs) ==
    /\ ingest[i] = Nil
    /\ \A j \in DOMAIN topics : Len(stored[topics[j]]) < MaxStored
    /\ runs["trace"] => \A n \in DOMAIN stored["trace"] : stored["trace"][n]
    /\ stored' = [k \in Topics |->
                    IF \E j \in DOMAIN topics : topics[j] = k THEN Append(stored[k], runs[k])
                    ELSE stored[k]]
    /\ ingest' = [ingest EXCEPT ![i] = [topics |-> topics, to |-> Nil]]
    /\ UNCHANGED <<topic, hub, queued, closed, pump, handler, broken, page, due>>

(* Broadcast: take the read lock, offer the event to each client of the       *)
(* topic, release.                                                           *)
Broadcast(i) ==
    /\ ingest[i] # Nil /\ ingest[i].topics # <<>> /\ ingest[i].to = Nil
    /\ ingest' = [ingest EXCEPT ![i].to = {c \in hub : topic[c] = Head(ingest[i].topics)}]
    /\ UNCHANGED <<topic, hub, queued, closed, pump, handler, broken, stored, page, due>>

(* Mutant of Offer: the event is dropped while the pump is writing.           *)
OfferIfIdle(i, c) ==
    /\ c \in Sending(i)
    /\ queued' = [queued EXCEPT ![c] = IF @ < ChannelSize /\ pump[c] = "idle" THEN @ + 1 ELSE @]
    /\ due' = [due EXCEPT ![c] = Len(stored[topic[c]])]
    /\ ingest' = [ingest EXCEPT ![i].to = @ \ {c}]
    /\ UNCHANGED <<topic, hub, closed, pump, handler, broken, stored, page>>

(* The select with a default: a client whose channel is full is skipped.      *)
Offer(i, c) ==
    /\ c \in Sending(i)
    /\ queued' = [queued EXCEPT ![c] = IF @ < ChannelSize THEN @ + 1 ELSE @]
    /\ due' = [due EXCEPT ![c] = Len(stored[topic[c]])]
    /\ ingest' = [ingest EXCEPT ![i].to = @ \ {c}]
    /\ UNCHANGED <<topic, hub, closed, pump, handler, broken, stored, page>>

EndBroadcast(i) ==
    /\ ingest[i] # Nil /\ ingest[i].to = {}
    /\ ingest' = [ingest EXCEPT ![i] = IF Len(@.topics) = 1 THEN Nil
                                       ELSE [topics |-> Tail(@.topics), to |-> Nil]]
    /\ UNCHANGED <<topic, hub, queued, closed, pump, handler, broken, stored, page, due>>

StreamStep(c) ==
    \/ PumpTake(c) \/ PumpWrite(c) \/ PumpReturns(c) \/ PumpStops(c)
    \/ StopServing(c, FALSE) \/ Unsubscribe(c)

IngestStep(i) == Broadcast(i) \/ EndBroadcast(i) \/ \E c \in LiveClients : Offer(i, c)

LiveNext ==
    \/ \E c \in LiveClients :
          \/ \E k \in Topics : OpenPage(c, k)
          \/ PageRefetch(c) \/ Poll(c) \/ Subscribe(c)
          \/ Disconnect(c) \/ StopServing(c, TRUE) \/ StreamStep(c)
    \/ \E i \in Ingests :
          \/ \E topics \in {<<"trace", "list">>, <<"trace">>}, runs \in [Topics -> BOOLEAN] :
                StoreBatch(i, topics, runs)
          \/ IngestStep(i)

(* Goroutines run; the keep-alive ticker and the timers of an open page fire; *)
(* requests in hand are finished.                                            *)
LiveSpec ==
    /\ LiveInit /\ [][LiveNext]_liveVars
    /\ \A c \in LiveClients :
          WF_liveVars(StreamStep(c)) /\ WF_liveVars(PageRefetch(c)) /\ WF_liveVars(Poll(c))
    /\ \A i \in Ingests : WF_liveVars(IngestStep(i))

(* ----------------------------------------------------------- properties -- *)

(* A broadcast never sends on a closed channel, which would stop the process: *)
(* Unsubscribe closes it while other goroutines hold the list of clients.     *)
LiveNoSendOnClosed == \A i \in Ingests : Sending(i) \cap closed = {}

(* Skipping a client whose channel is full loses nothing: a page that stays   *)
(* connected begins a fetch after every batch that was announced while its    *)
(* stream was open, whatever was dropped, collapsed or still being written.   *)
(* A batch stored between the page's first fetch and the opening of its       *)
(* stream, or fetched before its readers can see it, is signalled to nobody:  *)
(* ADR-044 (line 100) promises more, that the list shows it without a reload. *)
LiveSignalled ==
    <>[](\A c \in LiveClients : topic[c] # Nil /\ c \notin broken => asked[c] >= due[c])

(* A client that went away leaves the hub and its goroutine ends, although    *)
(* nothing is broadcast to it any more.                                      *)
LiveReleased ==
    <>[](\A c \in broken : c \notin hub /\ pump[c] = "done")
=============================================================================
