-------------------------- MODULE LiveStream_proofs --------------------------
(* Proofs about LiveStream, for any number of streams and telemetry requests  *)
(* and any size of a client's channel, and about StepStream, for any pipeline, *)
(* log and number of polls.  The two modules share no state.                  *)
EXTENDS LiveStream, StepStream, SequenceTheorems, FiniteSetTheorems, WellFoundedInduction, TLAPS

(* What keeps a broadcast off closed channels: the clients it has still to    *)
(* serve are in the hub, because nobody leaves while it holds the read lock,  *)
(* and a client in the hub is not closed, because a channel is closed with    *)
(* its removal, once, by a handler that is then gone and never subscribes     *)
(* again.                                                                    *)
Batch == [topics: Seq(Topics) \ {<<>>}, to: (SUBSET LiveClients) \cup {Nil}]

HubShape ==
    /\ ingest \in [Ingests -> Batch \cup {Nil}]
    /\ handler \in [LiveClients -> {"none", "serving", "leaving", "gone"}]
    /\ hub \subseteq LiveClients

ClosedGone == closed \subseteq {c \in LiveClients : handler[c] = "gone"}
MembersOpen == hub \cap closed = {}
SendingToMembers == \A i \in Ingests : Sending(i) \subseteq hub

IInv == HubShape /\ ClosedGone /\ MembersOpen /\ SendingToMembers

-----------------------------------------------------------------------------
(* Under the write lock no broadcast has anything left to send.              *)
LEMMA LockFreeSendsNothing ==
    ASSUME WriteLockFree, NEW i \in Ingests PROVE Sending(i) = {}
BY DEF WriteLockFree, Sending

(* A step that leaves the broadcasts alone and takes nobody out of the hub.   *)
LEMMA SameBroadcasts ==
    ASSUME SendingToMembers, UNCHANGED ingest, hub \subseteq hub'
    PROVE  SendingToMembers'
BY DEF SendingToMembers, Sending

LEMMA SubscribeStep ==
    ASSUME IInv, NEW c \in LiveClients, Subscribe(c)
    PROVE  IInv'
<1>1. HubShape' BY DEF IInv, HubShape, Subscribe
<1>2. c \notin closed BY DEF IInv, ClosedGone, Subscribe
<1>3. ClosedGone' BY DEF IInv, HubShape, ClosedGone, Subscribe
<1>4. MembersOpen' BY <1>2 DEF IInv, MembersOpen, Subscribe
<1>5. SendingToMembers' BY SameBroadcasts DEF IInv, Subscribe
<1>6. QED BY <1>1, <1>3, <1>4, <1>5 DEF IInv

LEMMA UnsubscribeStep ==
    ASSUME IInv, NEW c \in LiveClients, Unsubscribe(c)
    PROVE  IInv'
<1>1. HubShape' BY DEF IInv, HubShape, Unsubscribe
<1>2. handler'[c] = "gone" BY DEF IInv, HubShape, Unsubscribe
<1>3. ClosedGone' BY <1>2 DEF IInv, HubShape, ClosedGone, Unsubscribe
<1>4. MembersOpen' BY DEF IInv, MembersOpen, Unsubscribe
<1>5. SendingToMembers'
  <2>1. \A i \in Ingests : Sending(i) = {} BY LockFreeSendsNothing DEF Unsubscribe
  <2>2. \A i \in Ingests : Sending(i)' = Sending(i) BY DEF Sending, Unsubscribe
  <2>3. QED BY <2>1, <2>2 DEF SendingToMembers
<1>6. QED BY <1>1, <1>3, <1>4, <1>5 DEF IInv

(* The other steps of a page and its stream touch neither the hub nor the     *)
(* broadcasts.                                                               *)
LEMMA StreamKeeps ==
    ASSUME IInv, NEW c \in LiveClients,
           \/ (\E k \in Topics : OpenPage(c, k)) \/ PageRefetch(c) \/ Poll(c)
           \/ Disconnect(c) \/ StopServing(c, TRUE) \/ StopServing(c, FALSE)
           \/ PumpTake(c) \/ PumpWrite(c) \/ PumpReturns(c) \/ PumpStops(c)
    PROVE  IInv'
<1>1. UNCHANGED <<hub, closed, ingest>>
  BY DEF OpenPage, PageRefetch, Poll, Disconnect, StopServing, PumpTake, PumpWrite, PumpReturns, PumpStops
<1>2. handler' = handler \/ (handler[c] = "serving" /\ handler' = [handler EXCEPT ![c] = "leaving"])
  BY DEF OpenPage, PageRefetch, Poll, Disconnect, StopServing, PumpTake, PumpWrite, PumpReturns, PumpStops
<1>3. HubShape' BY <1>1, <1>2 DEF IInv, HubShape
<1>4. ClosedGone' BY <1>1, <1>2 DEF IInv, HubShape, ClosedGone
<1>5. MembersOpen' BY <1>1 DEF IInv, MembersOpen
<1>6. SendingToMembers' BY <1>1, SameBroadcasts DEF IInv
<1>7. QED BY <1>3, <1>4, <1>5, <1>6 DEF IInv

(* A step of request i leaves the streams alone: what remains to be shown is  *)
(* the shape of its own record and where it sends.                           *)
LEMMA IngestKeeps ==
    ASSUME IInv, NEW i \in Ingests, NEW b,
           UNCHANGED <<hub, closed, handler>>,
           ingest' = [ingest EXCEPT ![i] = b],
           b \in Batch \cup {Nil},
           b # Nil /\ b.to # Nil => b.to \subseteq hub
    PROVE  IInv'
<1>1. HubShape' BY DEF IInv, HubShape
<1>2. ClosedGone' BY DEF IInv, ClosedGone
<1>3. MembersOpen' BY DEF IInv, MembersOpen
<1>4. SendingToMembers'
  <2> SUFFICES ASSUME NEW j \in Ingests PROVE Sending(j)' \subseteq hub'
    BY DEF SendingToMembers
  <2>1. CASE j = i
    <3>1. ingest'[j] = b BY <2>1 DEF IInv, HubShape
    <3>2. QED BY <3>1 DEF Sending
  <2>2. CASE j # i
    <3>1. ingest'[j] = ingest[j] BY <2>2 DEF IInv, HubShape
    <3>2. Sending(j)' = Sending(j) BY <3>1 DEF Sending
    <3>3. QED BY <3>2 DEF IInv, SendingToMembers
  <2>3. QED BY <2>1, <2>2
<1>5. QED BY <1>1, <1>2, <1>3, <1>4 DEF IInv

LEMMA StoreStep ==
    ASSUME IInv, NEW i \in Ingests, NEW topics \in {<<"trace", "list">>, <<"trace">>},
           NEW runs \in [Topics -> BOOLEAN], StoreBatch(i, topics, runs)
    PROVE  IInv'
<1> DEFINE b == [topics |-> topics, to |-> Nil]
<1>1. topics \in Seq(Topics) \ {<<>>}
  <2>1. <<"trace", "list">> \in Seq(Topics) \ {<<>>} BY DEF Topics
  <2>2. <<"trace">> \in Seq(Topics) \ {<<>>} BY DEF Topics
  <2>3. QED BY <2>1, <2>2
<1>2. b \in Batch \cup {Nil} BY <1>1 DEF Batch
<1>3. ingest' = [ingest EXCEPT ![i] = b] /\ UNCHANGED <<hub, closed, handler>>
  BY DEF StoreBatch
<1>4. b.to = Nil OBVIOUS
<1> HIDE DEF b
<1>5. QED BY <1>2, <1>3, <1>4, IngestKeeps

LEMMA BroadcastStep ==
    ASSUME IInv, NEW i \in Ingests, Broadcast(i)
    PROVE  IInv'
<1> DEFINE to == {c \in hub : topic[c] = Head(ingest[i].topics)}
           b == [ingest[i] EXCEPT !.to = to]
<1>1. ingest[i] \in Batch BY DEF IInv, HubShape, Broadcast
<1>2. to \subseteq hub /\ to \in SUBSET LiveClients BY DEF IInv, HubShape
<1>3. ingest' = [ingest EXCEPT ![i] = b] /\ UNCHANGED <<hub, closed, handler>>
  BY DEF Broadcast
<1> HIDE DEF to
<1>4. b \in Batch /\ b.to = to BY <1>1, <1>2 DEF Batch
<1> HIDE DEF b
<1>5. QED BY <1>2, <1>3, <1>4, IngestKeeps

LEMMA OfferStep ==
    ASSUME IInv, NEW i \in Ingests, NEW c \in LiveClients, Offer(i, c)
    PROVE  IInv'
<1> DEFINE to == ingest[i].to \ {c}
           b == [ingest[i] EXCEPT !.to = to]
<1>1. ingest[i] # Nil /\ ingest[i].to # Nil BY DEF Offer, Sending
<1>2. ingest[i] \in Batch BY <1>1 DEF IInv, HubShape
<1>3. ingest[i].to \in SUBSET LiveClients BY <1>1, <1>2 DEF Batch
<1>4. ingest[i].to \subseteq hub BY <1>1 DEF IInv, SendingToMembers, Sending
<1>5. to \subseteq hub /\ to \in SUBSET LiveClients BY <1>3, <1>4
<1>6. ingest' = [ingest EXCEPT ![i] = b] /\ UNCHANGED <<hub, closed, handler>>
  BY DEF Offer
<1> HIDE DEF to
<1>7. b \in Batch /\ b.to = to BY <1>2, <1>5 DEF Batch
<1> HIDE DEF b
<1>8. QED BY <1>5, <1>6, <1>7, IngestKeeps

(* More than one topic: one is left when the first is done.                  *)
LEMMA TailNotEmpty ==
    ASSUME NEW ts \in Seq(Topics), ts # <<>>, Len(ts) # 1
    PROVE  Tail(ts) \in Seq(Topics) \ {<<>>}
<1>1. Tail(ts) \in Seq(Topics) /\ Len(Tail(ts)) = Len(ts) - 1 BY HeadTailProperties
<1>2. Len(ts) \in Nat BY LenProperties
<1>3. Len(Tail(ts)) # 0 BY <1>1, <1>2
<1>4. Tail(ts) # <<>> BY <1>3, EmptySeq
<1>5. QED BY <1>1, <1>4

LEMMA EndStep ==
    ASSUME IInv, NEW i \in Ingests, EndBroadcast(i)
    PROVE  IInv'
<1> DEFINE ts == ingest[i].topics
           rest == [topics |-> Tail(ts), to |-> Nil]
           b == IF Len(ts) = 1 THEN Nil ELSE rest
<1>1. ingest[i] \in Batch BY DEF IInv, HubShape, EndBroadcast
<1>2. ts \in Seq(Topics) /\ ts # <<>> BY <1>1 DEF Batch
<1>3. ingest' = [ingest EXCEPT ![i] = b] /\ UNCHANGED <<hub, closed, handler>>
  BY DEF EndBroadcast
<1> HIDE DEF ts
<1>4. Len(ts) # 1 => Tail(ts) \in Seq(Topics) \ {<<>>} BY <1>2, TailNotEmpty
<1>5. Len(ts) # 1 => rest \in Batch BY <1>4 DEF Batch
<1>6. rest.to = Nil OBVIOUS
<1> HIDE DEF rest
<1>7. b \in Batch \cup {Nil} /\ (b # Nil => b.to = Nil) BY <1>5, <1>6
<1> HIDE DEF b
<1>8. QED BY <1>3, <1>7, IngestKeeps

-----------------------------------------------------------------------------
LEMMA InitInv == LiveInit => IInv
<1> SUFFICES ASSUME LiveInit PROVE IInv OBVIOUS
<1>1. HubShape BY DEF LiveInit, HubShape
<1>2. ClosedGone /\ MembersOpen BY DEF LiveInit, ClosedGone, MembersOpen
<1>3. SendingToMembers BY DEF LiveInit, SendingToMembers, Sending
<1>4. QED BY <1>1, <1>2, <1>3 DEF IInv

LEMMA NextInv == IInv /\ [LiveNext]_liveVars => IInv'
<1> SUFFICES ASSUME IInv, [LiveNext]_liveVars PROVE IInv' OBVIOUS
<1>1. ASSUME NEW c \in LiveClients, Subscribe(c) PROVE IInv'
  BY <1>1, SubscribeStep
<1>2. ASSUME NEW c \in LiveClients,
             \/ (\E k \in Topics : OpenPage(c, k)) \/ PageRefetch(c) \/ Poll(c)
             \/ Disconnect(c) \/ StopServing(c, TRUE) \/ StreamStep(c)
      PROVE  IInv'
  BY <1>2, StreamKeeps, UnsubscribeStep DEF StreamStep
<1>3. ASSUME NEW i \in Ingests, NEW topics \in {<<"trace", "list">>, <<"trace">>},
             NEW runs \in [Topics -> BOOLEAN], StoreBatch(i, topics, runs)
      PROVE  IInv'
  BY <1>3, StoreStep
<1>4. ASSUME NEW i \in Ingests, IngestStep(i) PROVE IInv'
  BY <1>4, BroadcastStep, OfferStep, EndStep DEF IngestStep
<1>5. CASE UNCHANGED liveVars
  <2>1. UNCHANGED <<hub, closed, handler, ingest>> BY <1>5 DEF liveVars
  <2>2. QED BY <2>1 DEF IInv, HubShape, ClosedGone, MembersOpen, SendingToMembers, Sending
<1>6. QED BY <1>1, <1>2, <1>3, <1>4, <1>5 DEF LiveNext

(* The invariant above holds of every reachable state of the hub.            *)
THEOREM Inductive == LiveSpec => []IInv
<1>1. QED BY InitInv, NextInv, PTL DEF LiveSpec

(* A broadcast never sends on a closed channel, for any number of streams and *)
(* telemetry requests: Unsubscribe in live_hub.go closes the channel under    *)
(* the lock that Broadcast reads the clients under.                          *)
THEOREM SendsOnOpenChannels == LiveSpec => []LiveNoSendOnClosed
<1>1. IInv => LiveNoSendOnClosed
  BY DEF IInv, MembersOpen, SendingToMembers, LiveNoSendOnClosed
<1>2. QED BY <1>1, Inductive, PTL

-----------------------------------------------------------------------------
(* What the types rest on beside IInv: whoever has a stream, a pump or a      *)
(* fetch to come has opened a page, so the page fetches a topic; and a        *)
(* broadcast in hand is for one of the lists of topics broadcastOTelUpdate    *)
(* makes, or for what is left of one.                                        *)
TopicLists == {<<"list">>, <<"trace">>, <<"trace", "list">>}
Following(c) == c \in hub \/ c \in refetch \/ pump[c] # "off" \/ handler[c] # "none"
FollowersPaged == \A c \in LiveClients : Following(c) => topic[c] \in Topics
FreshPump == \A c \in LiveClients : handler[c] = "none" => pump[c] = "off"
BatchesNamed == \A i \in Ingests : ingest[i] # Nil => ingest[i].topics \in TopicLists

StreamShape ==
    /\ topic \in [LiveClients -> Topics \cup {Nil}]
    /\ closed \subseteq LiveClients /\ broken \subseteq LiveClients
    /\ queued \in [LiveClients -> 0..ChannelSize]
    /\ pump \in [LiveClients -> {"off", "idle", "writing", "written", "done"}]
    /\ refetch \subseteq LiveClients
    /\ seen \in [LiveClients -> 0..MaxStored] /\ asked \in [LiveClients -> 0..MaxStored]
    /\ due \in [LiveClients -> 0..MaxStored]

StoredOK == stored \in [Topics -> Seq(BOOLEAN)] /\ \A k \in Topics : Len(stored[k]) <= MaxStored

StreamInv == StreamShape /\ FollowersPaged /\ FreshPump /\ BatchesNamed /\ StoredOK

LEMMA StreamInit == LiveInit => StreamInv
<1> SUFFICES ASSUME LiveInit PROVE StreamInv OBVIOUS
<1>1. StreamShape BY LiveAssumption DEF LiveInit, StreamShape
<1>2. FollowersPaged BY DEF LiveInit, FollowersPaged, Following
<1>3. BatchesNamed BY DEF LiveInit, BatchesNamed
<1>4. StoredOK
  <2>1. <<>> \in Seq(BOOLEAN) /\ Len(<<>>) = 0 BY EmptySeq
  <2>2. QED BY <2>1, LiveAssumption DEF LiveInit, StoredOK
<1>5. FreshPump BY DEF LiveInit, FreshPump
<1>6. QED BY <1>1, <1>2, <1>3, <1>4, <1>5 DEF StreamInv

(* What a fetch makes the page show.                                         *)
LEMMA FetchTyped ==
    ASSUME StreamInv, NEW c \in LiveClients, NEW k \in Topics, Fetch(c, k)
    PROVE  seen' \in [LiveClients -> 0..MaxStored] /\ asked' \in [LiveClients -> 0..MaxStored]
<1>1. Len(stored[k]) \in Nat /\ Len(stored[k]) <= MaxStored /\ MaxStored \in Nat
  <2>1. stored[k] \in Seq(BOOLEAN) BY DEF StreamInv, StoredOK
  <2>2. QED BY <2>1, LenProperties, LiveAssumption DEF StreamInv, StoredOK
<1>2. Len(stored[k]) \in 0..MaxStored /\ 0..Len(stored[k]) \subseteq 0..MaxStored BY <1>1
<1>3. PICK n \in 0..Len(stored[k]) : seen' = [seen EXCEPT ![c] = n] BY DEF Fetch
<1>4. QED BY <1>2, <1>3 DEF Fetch, StreamInv, StreamShape

(* A page and its stream leave what is stored and the broadcasts alone.       *)
LEMMA StreamStepsTyped ==
    ASSUME IInv, StreamInv, NEW c \in LiveClients,
           \/ (\E k \in Topics : OpenPage(c, k)) \/ PageRefetch(c) \/ Poll(c) \/ Subscribe(c)
           \/ Disconnect(c) \/ StopServing(c, TRUE) \/ StreamStep(c)
    PROVE  StreamInv'
<1>1. UNCHANGED <<ingest, stored>>
  BY DEF OpenPage, PageRefetch, Poll, Subscribe, Disconnect, StopServing, StreamStep, PumpTake, PumpWrite,
         PumpReturns, PumpStops, Unsubscribe
<1>2. BatchesNamed' /\ StoredOK' BY <1>1 DEF StreamInv, BatchesNamed, StoredOK
<1>9. FreshPump'
  <2>1. CASE (\E k \in Topics : OpenPage(c, k)) \/ PageRefetch(c) \/ Poll(c) \/ Disconnect(c)
    BY <2>1 DEF OpenPage, PageRefetch, Poll, Disconnect, StreamInv, FreshPump
  <2>2. CASE Subscribe(c) \/ StopServing(c, TRUE) \/ StopServing(c, FALSE) \/ Unsubscribe(c)
    <3>1. /\ \E h \in {"serving", "leaving", "gone"} : handler' = [handler EXCEPT ![c] = h]
          /\ \E x : pump' = [pump EXCEPT ![c] = x]
      BY <2>2 DEF Subscribe, StopServing, Unsubscribe, StreamInv, StreamShape
    <3>2. QED BY <3>1 DEF StreamInv, StreamShape, FreshPump, IInv, HubShape
  <2>3. CASE PumpTake(c) \/ PumpWrite(c) \/ PumpReturns(c) \/ PumpStops(c)
    BY <2>3 DEF PumpTake, PumpWrite, PumpReturns, PumpStops, StreamInv, StreamShape, FreshPump
  <2>4. QED BY <2>1, <2>2, <2>3 DEF StreamStep
<1>3. CASE \E k \in Topics : OpenPage(c, k)
  <2>1. PICK k \in Topics : OpenPage(c, k) BY <1>3
  <2>2. seen' \in [LiveClients -> 0..MaxStored] /\ asked' \in [LiveClients -> 0..MaxStored]
    BY <2>1, FetchTyped DEF OpenPage
  <2>3. StreamShape' BY <2>1, <2>2 DEF OpenPage, StreamInv, StreamShape
  <2>4. FollowersPaged' BY <2>1 DEF OpenPage, StreamInv, StreamShape, FollowersPaged, Following
  <2>5. QED BY <1>2, <1>9, <2>3, <2>4 DEF StreamInv
<1>4. CASE PageRefetch(c) \/ Poll(c)
  <2>1. topic[c] \in Topics BY <1>4 DEF PageRefetch, Poll, StreamInv, FollowersPaged, Following
  <2>2. seen' \in [LiveClients -> 0..MaxStored] /\ asked' \in [LiveClients -> 0..MaxStored]
    BY <1>4, <2>1, FetchTyped DEF PageRefetch, Poll
  <2>3. /\ UNCHANGED <<topic, hub, closed, broken, queued, pump, handler, due>>
        /\ refetch' \subseteq refetch
    BY <1>4 DEF PageRefetch, Poll
  <2>4. StreamShape' BY <2>2, <2>3 DEF StreamInv, StreamShape
  <2>5. FollowersPaged' BY <2>3 DEF StreamInv, FollowersPaged, Following
  <2>6. QED BY <1>2, <1>9, <2>4, <2>5 DEF StreamInv
<1>5. CASE Subscribe(c)
  <2>1. topic[c] \in Topics BY <1>5 DEF Subscribe, StreamInv, StreamShape
  <2>2. StreamShape' BY <1>5 DEF Subscribe, StreamInv, StreamShape, page
  <2>3. ASSUME NEW d \in LiveClients, Following(d)' PROVE topic'[d] \in Topics
    <3>1. topic' = topic BY <1>5 DEF Subscribe
    <3>2. CASE d = c BY <2>1, <3>1, <3>2
    <3>3. CASE d # c
      <4>1. Following(d)
        BY <1>5, <2>3, <3>3 DEF Subscribe, Following, page, IInv, HubShape, StreamInv, StreamShape
      <4>2. QED BY <3>1, <4>1 DEF StreamInv, FollowersPaged
    <3>4. QED BY <3>2, <3>3
  <2>4. QED BY <1>2, <1>9, <2>2, <2>3 DEF StreamInv, FollowersPaged
<1>6. CASE Disconnect(c) \/ StopServing(c, TRUE) \/ StopServing(c, FALSE) \/ Unsubscribe(c)
  <2>1. /\ UNCHANGED <<topic, queued, pump, seen, asked, refetch, due>>
        /\ broken' \subseteq broken \cup {c} /\ closed' \subseteq closed \cup {c}
        /\ hub' \subseteq hub
        /\ handler' = handler \/ (handler[c] # "none" /\ \E h : handler' = [handler EXCEPT ![c] = h])
    BY <1>6 DEF Disconnect, StopServing, Unsubscribe, page
  <2>2. \A d \in LiveClients : Following(d)' => Following(d) BY <2>1 DEF Following, IInv, HubShape
  <2>3. QED BY <1>2, <1>9, <2>1, <2>2 DEF StreamInv, StreamShape, FollowersPaged
<1>7. CASE PumpTake(c) \/ PumpWrite(c) \/ PumpReturns(c) \/ PumpStops(c)
  <2>1. /\ UNCHANGED <<topic, hub, closed, handler, broken, seen, asked, due>>
        /\ pump[c] # "off" /\ refetch' \subseteq refetch \cup {c}
        /\ \E x \in {"idle", "writing", "written", "done"} : pump' = [pump EXCEPT ![c] = x]
    BY <1>7 DEF PumpTake, PumpWrite, PumpReturns, PumpStops, page
  <2>2. queued' \in [LiveClients -> 0..ChannelSize]
    <3>1. CASE PumpTake(c)
      <4>1. queued[c] \in 0..ChannelSize /\ queued[c] > 0 BY <3>1 DEF PumpTake, StreamInv, StreamShape
      <4>2. queued[c] - 1 \in 0..ChannelSize BY <4>1, LiveAssumption
      <4>3. QED BY <3>1, <4>2 DEF PumpTake, StreamInv, StreamShape
    <3>2. CASE PumpWrite(c) \/ PumpReturns(c) \/ PumpStops(c)
      BY <3>2 DEF PumpWrite, PumpReturns, PumpStops, StreamInv, StreamShape
    <3>3. QED BY <1>7, <3>1, <3>2
  <2>3. StreamShape' BY <2>1, <2>2 DEF StreamInv, StreamShape
  <2>4. Following(c) BY <2>1 DEF Following
  <2>5. \A d \in LiveClients : Following(d)' => Following(d) \/ d = c
    BY <2>1 DEF Following, StreamInv, StreamShape
  <2>6. QED BY <1>2, <1>9, <2>1, <2>3, <2>4, <2>5 DEF StreamInv, FollowersPaged
<1>8. QED BY <1>3, <1>4, <1>5, <1>6, <1>7 DEF StreamStep

LEMMA StoreTyped ==
    ASSUME IInv, StreamInv, NEW i \in Ingests, NEW topics \in {<<"trace", "list">>, <<"trace">>},
           NEW runs \in [Topics -> BOOLEAN], StoreBatch(i, topics, runs)
    PROVE  StreamInv'
<1>1. StoredOK'
  <2>1. ASSUME NEW k \in Topics
        PROVE  stored'[k] \in Seq(BOOLEAN) /\ Len(stored'[k]) <= MaxStored
    <3>1. stored[k] \in Seq(BOOLEAN) /\ Len(stored[k]) <= MaxStored /\ runs[k] \in BOOLEAN
      BY DEF StreamInv, StoredOK
    <3>2. CASE \E j \in DOMAIN topics : topics[j] = k
      <4>1. stored'[k] = Append(stored[k], runs[k]) BY <3>2 DEF StoreBatch
      <4>2. Len(stored[k]) < MaxStored BY <3>2 DEF StoreBatch
      <4>3. Append(stored[k], runs[k]) \in Seq(BOOLEAN)
            /\ Len(Append(stored[k], runs[k])) = Len(stored[k]) + 1
        BY <3>1, AppendProperties
      <4>4. Len(stored[k]) \in Nat BY <3>1, LenProperties
      <4>5. QED BY <4>1, <4>2, <4>3, <4>4, LiveAssumption
    <3>3. CASE ~ \E j \in DOMAIN topics : topics[j] = k BY <3>1, <3>3 DEF StoreBatch
    <3>4. QED BY <3>2, <3>3
  <2>2. \E f : stored' = [k \in Topics |-> f[k]]
    <3>1. stored' = [k \in Topics |-> stored'[k]] BY DEF StoreBatch
    <3>2. QED BY <3>1
  <2>3. QED BY <2>1, <2>2 DEF StoredOK
<1>2. BatchesNamed'
  <2>1. PICK b : b = [topics |-> topics, to |-> Nil] OBVIOUS
  <2>2. b.topics \in TopicLists BY <2>1 DEF TopicLists
  <2>3. ingest' = [ingest EXCEPT ![i] = b] BY <2>1 DEF StoreBatch
  <2>4. QED BY <2>2, <2>3 DEF StreamInv, BatchesNamed, IInv, HubShape
<1>3. StreamShape' /\ FollowersPaged' /\ FreshPump'
  BY DEF StoreBatch, StreamInv, StreamShape, FollowersPaged, Following, FreshPump, page
<1>4. QED BY <1>1, <1>2, <1>3 DEF StreamInv

LEMMA BroadcastTyped ==
    ASSUME IInv, StreamInv, NEW i \in Ingests, IngestStep(i)
    PROVE  StreamInv'
<1>0. ingest[i] # Nil /\ ingest[i] \in Batch /\ ingest[i].topics \in TopicLists
  BY DEF IngestStep, Broadcast, EndBroadcast, Offer, Sending, IInv, HubShape, StreamInv, BatchesNamed
<1>1. UNCHANGED <<topic, hub, closed, broken, pump, handler, refetch, seen, asked, stored>>
  BY DEF IngestStep, Broadcast, EndBroadcast, Offer, page
<1>5. due' \in [LiveClients -> 0..MaxStored]
  <2>1. CASE Broadcast(i) \/ EndBroadcast(i) BY <2>1 DEF Broadcast, EndBroadcast, StreamInv, StreamShape
  <2>2. ASSUME NEW c \in LiveClients, Offer(i, c) PROVE due' \in [LiveClients -> 0..MaxStored]
    <3>1. c \in hub BY <2>2 DEF Offer, IInv, SendingToMembers
    <3>2. topic[c] \in Topics BY <3>1 DEF StreamInv, FollowersPaged, Following
    <3>3. stored[topic[c]] \in Seq(BOOLEAN) /\ Len(stored[topic[c]]) <= MaxStored
      BY <3>2 DEF StreamInv, StoredOK
    <3>4. Len(stored[topic[c]]) \in 0..MaxStored BY <3>3, LenProperties, LiveAssumption
    <3>5. QED BY <2>2, <3>4 DEF Offer, StreamInv, StreamShape
  <2>3. QED BY <2>1, <2>2 DEF IngestStep
<1>2. queued' \in [LiveClients -> 0..ChannelSize]
  <2>1. CASE Broadcast(i) \/ EndBroadcast(i) BY <2>1 DEF Broadcast, EndBroadcast, StreamInv, StreamShape
  <2>2. ASSUME NEW c \in LiveClients, Offer(i, c) PROVE queued' \in [LiveClients -> 0..ChannelSize]
    <3>1. queued[c] \in 0..ChannelSize BY DEF StreamInv, StreamShape
    <3>2. (IF queued[c] < ChannelSize THEN queued[c] + 1 ELSE queued[c]) \in 0..ChannelSize BY <3>1, LiveAssumption
    <3>3. QED BY <2>2, <3>2 DEF Offer, StreamInv, StreamShape
  <2>3. QED BY <2>1, <2>2 DEF IngestStep
<1>3. BatchesNamed'
  <2>0. ASSUME NEW b, b = Nil \/ b.topics \in TopicLists, ingest' = [ingest EXCEPT ![i] = b] PROVE BatchesNamed'
    BY <2>0 DEF StreamInv, BatchesNamed, IInv, HubShape
  <2>1. ASSUME NEW S, ingest' = [ingest EXCEPT ![i].to = S] PROVE BatchesNamed'
    <3>1. PICK b : b = [ingest[i] EXCEPT !.to = S] OBVIOUS
    <3>2. b.topics = ingest[i].topics BY <1>0, <3>1 DEF Batch
    <3>3. ingest' = [ingest EXCEPT ![i] = b] BY <2>1, <3>1
    <3>4. QED BY <1>0, <2>0, <3>2, <3>3
  <2>2. CASE Broadcast(i) BY <2>1, <2>2 DEF Broadcast
  <2>3. CASE \E c \in LiveClients : Offer(i, c) BY <2>1, <2>3 DEF Offer
  <2>4. CASE EndBroadcast(i)
    <3>1. CASE Len(ingest[i].topics) = 1
      <4>1. ingest' = [ingest EXCEPT ![i] = Nil] BY <2>4, <3>1 DEF EndBroadcast
      <4>2. QED BY <2>0, <4>1
    <3>2. CASE Len(ingest[i].topics) # 1
      <4>1. ingest[i].topics = <<"trace", "list">>
        <5>1. Len(<<"list">>) = 1 /\ Len(<<"trace">>) = 1 OBVIOUS
        <5>2. QED BY <1>0, <3>2, <5>1 DEF TopicLists
      <4>2. Tail(ingest[i].topics) = <<"list">> BY <4>1
      <4>3. PICK b : b = [topics |-> Tail(ingest[i].topics), to |-> Nil] OBVIOUS
      <4>4. b.topics \in TopicLists BY <4>2, <4>3 DEF TopicLists
      <4>5. ingest' = [ingest EXCEPT ![i] = b] BY <2>4, <3>2, <4>3 DEF EndBroadcast
      <4>6. QED BY <2>0, <4>4, <4>5
    <3>3. QED BY <3>1, <3>2
  <2>5. QED BY <2>2, <2>3, <2>4 DEF IngestStep
<1>4. StoredOK' BY <1>1 DEF StreamInv, StoredOK
<1>6. QED BY <1>1, <1>2, <1>3, <1>4, <1>5 DEF StreamInv, StreamShape, FollowersPaged, Following, FreshPump

LEMMA StreamNext == IInv /\ StreamInv /\ [LiveNext]_liveVars => StreamInv'
<1> SUFFICES ASSUME IInv, StreamInv, [LiveNext]_liveVars PROVE StreamInv' OBVIOUS
<1>1. CASE UNCHANGED liveVars 
  BY <1>1 DEF liveVars, page, StreamInv, StreamShape, FollowersPaged, Following, FreshPump, BatchesNamed,
              StoredOK
<1>2. CASE LiveNext BY <1>2, StreamStepsTyped, StoreTyped, BroadcastTyped DEF LiveNext
<1>3. QED BY <1>1, <1>2

(* Every reachable state of the live streams is well typed: no channel holds  *)
(* more than its capacity whatever the number of broadcasts in flight, a      *)
(* broadcast in hand is for the topics of one batch or what is left of them,  *)
(* and a page never reflects more than was stored.                           *)
THEOREM LiveTypeHolds == LiveSpec => []LiveTypeOK
<1>1. IInv /\ StreamInv => LiveTypeOK
  <2> SUFFICES ASSUME IInv, StreamInv PROVE LiveTypeOK OBVIOUS
  <2>2. ASSUME NEW i \in Ingests, ingest[i] # Nil
        PROVE  /\ ingest[i].topics \in {<<>>, <<"list">>, <<"trace">>, <<"trace", "list">>}
               /\ ingest[i].to = Nil \/ ingest[i].to \subseteq LiveClients
    <3>1. ingest[i] \in Batch BY <2>2 DEF IInv, HubShape
    <3>2. ingest[i].to = Nil \/ ingest[i].to \subseteq LiveClients BY <3>1 DEF Batch
    <3>3. ingest[i].topics \in TopicLists BY <2>2 DEF StreamInv, BatchesNamed
    <3>4. QED BY <3>2, <3>3 DEF TopicLists
  <2>3. QED BY <2>2 DEF StreamInv, StreamShape, StoredOK, IInv, HubShape, LiveTypeOK
<1>2. QED BY <1>1, StreamInit, StreamNext, Inductive, PTL DEF LiveSpec

-----------------------------------------------------------------------------
(* live_hub.go and the pages: a page that stays connected and has not fetched  *)
(* since an event was last meant for it has one to come: it waits in the       *)
(* channel, is being written, or has set the page's timer.  It holds of an     *)
(* event that Broadcast dropped because the channel was full, too.            *)
SignalInHand ==
    \A c \in LiveClients :
       c \notin broken /\ asked[c] < due[c] => queued[c] > 0 \/ pump[c] = "writing" \/ c \in refetch

(* An event is about batches that are stored, of the topic the page shows.    *)
DueStored ==
    \A c \in LiveClients :
       IF topic[c] \in Topics THEN due[c] <= Len(stored[topic[c]]) ELSE due[c] = 0

SignalInv == DueStored /\ SignalInHand

(* A fetch covers every event so far.                                        *)
LEMMA FetchCovers ==
    ASSUME StreamInv, SignalInv, NEW c \in LiveClients, NEW k \in Topics, Fetch(c, k),
           \/ topic[c] = k /\ UNCHANGED topic
           \/ topic[c] = Nil /\ topic' = [topic EXCEPT ![c] = k],
           UNCHANGED <<broken, queued, pump, stored, due>>, refetch \subseteq refetch' \cup {c}
    PROVE  SignalInv'
<1>1. /\ Len(stored[k]) \in Nat /\ due[c] \in Nat /\ asked \in [LiveClients -> 0..MaxStored]
      /\ topic \in [LiveClients -> Topics \cup {Nil}]
  BY LenProperties, LiveAssumption DEF StreamInv, StreamShape, StoredOK
<1>2. due[c] <= Len(stored[k])
  <2>1. CASE topic[c] = k BY <2>1 DEF SignalInv, DueStored
  <2>2. CASE topic[c] = Nil BY <1>1, <2>2, NilNotTopic DEF SignalInv, DueStored
  <2>3. QED BY <2>1, <2>2
<1>3. DueStored' BY <1>1, <1>2 DEF SignalInv, DueStored
<1>4. asked'[c] = Len(stored[k]) /\ \A d \in LiveClients \ {c} : asked'[d] = asked[d] BY <1>1 DEF Fetch
<1>5. ~(asked'[c] < due[c]) BY <1>1, <1>2, <1>4
<1>6. SignalInHand' BY <1>4, <1>5 DEF SignalInv, SignalInHand
<1>7. QED BY <1>3, <1>6 DEF SignalInv

LEMMA SignalStream ==
    ASSUME IInv, StreamInv, SignalInv, NEW c \in LiveClients,
           \/ (\E k \in Topics : OpenPage(c, k)) \/ PageRefetch(c) \/ Poll(c) \/ Subscribe(c)
           \/ Disconnect(c) \/ StopServing(c, TRUE) \/ StreamStep(c)
    PROVE  SignalInv'
<1>1. CASE \E k \in Topics : OpenPage(c, k) BY <1>1, FetchCovers DEF OpenPage
<1>2. CASE PageRefetch(c) \/ Poll(c)
  <2>1. topic[c] \in Topics BY <1>2 DEF PageRefetch, Poll, StreamInv, FollowersPaged, Following
  <2>2. QED BY <1>2, <2>1, FetchCovers DEF PageRefetch, Poll
<1>3. CASE Subscribe(c) \/ PumpReturns(c) \/ PumpStops(c)
  <2>1. UNCHANGED <<topic, broken, queued, stored, refetch, asked, due>>
    BY <1>3 DEF Subscribe, PumpReturns, PumpStops, page
  <2>2. pump[c] # "writing" /\ \E x : pump' = [pump EXCEPT ![c] = x]
    BY <1>3 DEF Subscribe, PumpReturns, PumpStops, StreamInv, StreamShape, FreshPump
  <2>3. QED BY <2>1, <2>2 DEF SignalInv, SignalInHand, DueStored, StreamInv, StreamShape
<1>4. CASE Disconnect(c) \/ StopServing(c, TRUE) \/ StopServing(c, FALSE) \/ Unsubscribe(c)
  <2>1. UNCHANGED <<topic, queued, pump, stored, refetch, asked, due>> /\ broken \subseteq broken'
    BY <1>4 DEF Disconnect, StopServing, Unsubscribe, page
  <2>2. QED BY <2>1 DEF SignalInv, SignalInHand, DueStored
<1>5. CASE PumpTake(c)
  <2>1. /\ UNCHANGED <<topic, broken, stored, refetch, asked, due>>
        /\ pump' = [pump EXCEPT ![c] = "writing"] /\ queued' = [queued EXCEPT ![c] = queued[c] - 1]
    BY <1>5 DEF PumpTake, page
  <2>2. QED BY <2>1 DEF SignalInv, SignalInHand, DueStored, StreamInv, StreamShape
<1>6. CASE PumpWrite(c)
  <2>1. /\ UNCHANGED <<topic, broken, stored, queued, asked, due>>
        /\ \/ c \in broken /\ refetch' = refetch
           \/ refetch' = refetch \cup {c}
        /\ \E x : pump' = [pump EXCEPT ![c] = x]
    BY <1>6 DEF PumpWrite
  <2>2. QED BY <2>1 DEF SignalInv, SignalInHand, DueStored, StreamInv, StreamShape
<1>7. QED BY <1>1, <1>2, <1>3, <1>4, <1>5, <1>6 DEF StreamStep

LEMMA SignalStored ==
    ASSUME StreamInv, SignalInv, NEW i \in Ingests, NEW topics \in {<<"trace", "list">>, <<"trace">>},
           NEW runs \in [Topics -> BOOLEAN], StoreBatch(i, topics, runs)
    PROVE  SignalInv'
<1>1. UNCHANGED <<topic, broken, queued, pump, refetch, asked, due>> BY DEF StoreBatch, page
<1>2. ASSUME NEW k \in Topics, NEW n \in Nat, n <= Len(stored[k]) PROVE n <= Len(stored'[k])
  <2>1. stored[k] \in Seq(BOOLEAN) /\ runs[k] \in BOOLEAN BY DEF StreamInv, StoredOK
  <2>2. Len(stored[k]) \in Nat /\ Len(Append(stored[k], runs[k])) = Len(stored[k]) + 1
    BY <2>1, LenProperties, AppendProperties
  <2>3. stored'[k] \in {stored[k], Append(stored[k], runs[k])} BY DEF StoreBatch
  <2>4. QED BY <1>2, <2>2, <2>3
<1>3. \A c \in LiveClients : due[c] \in Nat BY LiveAssumption DEF StreamInv, StreamShape
<1>4. DueStored' BY <1>1, <1>2, <1>3 DEF SignalInv, DueStored
<1>5. SignalInHand' BY <1>1 DEF SignalInv, SignalInHand
<1>6. QED BY <1>4, <1>5 DEF SignalInv

LEMMA SignalBroadcast ==
    ASSUME IInv, StreamInv, SignalInv, NEW i \in Ingests, IngestStep(i)
    PROVE  SignalInv'
<1>1. UNCHANGED <<topic, broken, pump, refetch, asked, stored>>
  BY DEF IngestStep, Broadcast, EndBroadcast, Offer, page
<1>2. CASE Broadcast(i) \/ EndBroadcast(i)
  BY <1>1, <1>2 DEF Broadcast, EndBroadcast, SignalInv, SignalInHand, DueStored
<1>3. ASSUME NEW c \in LiveClients, Offer(i, c) PROVE SignalInv'
  <2>1. c \in hub BY <1>3 DEF Offer, IInv, SendingToMembers
  <2>2. topic[c] \in Topics BY <2>1 DEF StreamInv, FollowersPaged, Following
  <2>3. stored[topic[c]] \in Seq(BOOLEAN) BY <2>2 DEF StreamInv, StoredOK
  <2>4. Len(stored[topic[c]]) \in Nat BY <2>3, LenProperties
  <2>5. due' = [due EXCEPT ![c] = Len(stored[topic[c]])] BY <1>3 DEF Offer
  <2>6. DueStored' BY <1>1, <2>2, <2>4, <2>5 DEF SignalInv, DueStored, StreamInv, StreamShape
  <2>7. queued[c] \in 0..ChannelSize BY DEF StreamInv, StreamShape
  <2>8. queued' = [queued EXCEPT ![c] = IF queued[c] < ChannelSize THEN queued[c] + 1 ELSE queued[c]]
    BY <1>3 DEF Offer
  <2>9. queued'[c] > 0 /\ \A d \in LiveClients \ {c} : queued'[d] = queued[d]
    BY <2>7, <2>8, LiveAssumption DEF StreamInv, StreamShape
  <2>10. SignalInHand' BY <1>1, <2>5, <2>9 DEF SignalInv, SignalInHand, StreamInv, StreamShape
  <2>11. QED BY <2>6, <2>10 DEF SignalInv
<1>4. QED BY <1>2, <1>3 DEF IngestStep

(* No announcement is lost while the stream is open: a page that has not      *)
(* fetched since an event was meant for it still has one to come, whatever    *)
(* Broadcast dropped and the timers collapsed, for any number of streams and  *)
(* any channel size.                                                         *)
THEOREM SignalsKept == LiveSpec => []SignalInHand
<1>1. LiveInit => SignalInv
  <2> SUFFICES ASSUME LiveInit PROVE SignalInv OBVIOUS
  <2>1. \A c \in LiveClients : topic[c] = Nil /\ due[c] = 0 /\ asked[c] = 0 BY DEF LiveInit
  <2>2. DueStored
    <3>1. \A k \in Topics : 0 <= Len(stored[k])
      BY StreamInit, LenProperties DEF StreamInv, StoredOK
    <3>2. QED BY <2>1, <3>1 DEF DueStored
  <2>3. SignalInHand BY <2>1 DEF SignalInHand
  <2>4. QED BY <2>2, <2>3 DEF SignalInv
<1>2. IInv /\ StreamInv /\ SignalInv /\ [LiveNext]_liveVars => SignalInv'
  <2> SUFFICES ASSUME IInv, StreamInv, SignalInv, [LiveNext]_liveVars PROVE SignalInv' OBVIOUS
  <2>1. CASE UNCHANGED liveVars BY <2>1 DEF liveVars, page, SignalInv, SignalInHand, DueStored
  <2>2. CASE LiveNext BY <2>2, SignalStream, SignalStored, SignalBroadcast DEF LiveNext
  <2>3. QED BY <2>1, <2>2
<1>3. SignalInv => SignalInHand BY DEF SignalInv
<1>4. QED BY <1>1, <1>2, <1>3, StreamInit, StreamNext, Inductive, PTL DEF LiveSpec

(* ------------------------------------------------------------- StepStream -- *)

(* What a stage of the stream stands for: it was opened for a span that is     *)
(* indexed, and closed with the outcome of that span's finish record or, by    *)
(* the final flush only, with the status of the command (Advance, Finalize).   *)
StagesTruthful ==
    \A s \in Spans :
       builder.state[s] # Nil =>
          /\ tempo[s] # Nil
          /\ builder.state[s] \in StepOutcomes =>
                tempo[s] = builder.state[s] \/ (stepPc = "ended" /\ builder.state[s] = exitStatus)

(* Finalize: when the wrapper is done no stage is left open and the pipeline   *)
(* has ended, wherever the last polls failed.                                 *)
StagesSettled == stepPc = "ended" => builder.done /\ \A s \in Spans : builder.state[s] # "running"

(* The builder's record of a node only moves on: an opened stage stays known,  *)
(* a closed one keeps its status whatever a later snapshot answers.           *)
StagesMoveOn ==
    [][\A s \in Spans :
         /\ builder.state[s] # Nil => builder'.state[s] # Nil
         /\ builder.state[s] \in StepOutcomes => builder'.state[s] = builder.state[s]]_stepVars

(* prepareLogChunks and advanceWatermark: a line that is not fresh never       *)
(* becomes fresh again, and after an Advance has printed from an answer no     *)
(* line of that answer is fresh: no poll prints a line a second time, in       *)
(* whatever order and however often Loki answers it.                         *)
LinesOnce ==
    [][/\ \A l \in LogRecords : FreshLogs(builder, {l}) = {} => FreshLogs(builder', {l}) = {}
       /\ stepPc \in {"logs", "flushLogs"} /\ PickRoot # Nil /\ <<builder, stream>>' # <<builder, stream>>
            => \E logs \in LogAnswers(loki') :
                  /\ stream' = stream \o BuilderAdvance(builder, logs).events
                  /\ FreshLogs(builder', logs) = {}]_stepVars

-----------------------------------------------------------------------------
(* The fields of the builder, the order of its nodes left open: what the walk  *)
(* of the tree appends to it is a matter of data.                             *)
NodeStates == {Nil, "running"} \cup StepOutcomes
LogKeys == {<<l.span, l.line>> : l \in LogRecords}

BuilderOK(b) ==
    /\ b = [state |-> b.state, order |-> b.order, mark |-> b.mark, keys |-> b.keys, done |-> b.done]
    /\ b.state \in [Spans -> NodeStates] /\ b.mark \in Nat /\ b.keys \subseteq LogKeys

StageTypes ==
    /\ shape \in Shapes /\ tempo \in [Spans -> NodeStates] /\ loki \subseteq LogRecords
    /\ metaStatus \in StepOutcomes \cup {Nil} /\ exitStatus \in StepOutcomes \cup {Nil}
    /\ stepPc \in StepPcs /\ BuilderOK(builder)

(* The last polls and the final flush come after the command.                 *)
LastAfterExit == stepPc \in {"flush", "flushLogs", "finalize", "ended"} => exitStatus # Nil

StageInv == StageTypes /\ LastAfterExit /\ StagesTruthful /\ StagesSettled

(* A non-empty set of natural numbers has a least one.                        *)
LEMMA LeastNumber ==
    ASSUME NEW S, S \subseteq Nat, S # {}
    PROVE  \E i \in S : \A j \in S : ~(<<j, i>> \in OpToRel(<, Nat))
BY WFMin, NatLessThanWellFounded

(* A non-empty finite set of records has a newest one: a smallest counter-     *)
(* example loses none of its members without having one.                     *)
LEMMA NewestExists ==
    ASSUME NEW S, IsFiniteSet(S), S # {}, \A l \in S : l.ts \in Nat
    PROVE  \E m \in S : \A l \in S : l.ts <= m.ts
<1> DEFINE Newest(T) == \E m \in T : \A l \in T : l.ts <= m.ts
           Bad == {k \in Nat : \E T \in SUBSET S : T # {} /\ Cardinality(T) = k /\ ~Newest(T)}
<1> SUFFICES ASSUME ~Newest(S) PROVE FALSE OBVIOUS
<1>1. Cardinality(S) \in Bad
  <2>1. Cardinality(S) \in Nat BY FS_CardinalityType
  <2>2. QED BY <2>1
<1>2. PICK k \in Bad : \A j \in Bad : ~(<<j, k>> \in OpToRel(<, Nat))
  <2>1. Bad \subseteq Nat /\ Bad # {} BY <1>1
  <2> HIDE DEF Bad
  <2>2. QED BY <2>1, LeastNumber
<1>3. PICK T \in SUBSET S : T # {} /\ Cardinality(T) = k /\ ~Newest(T) BY <1>2
<1>4. PICK x : x \in T BY <1>3
<1>5. PICK U : U = T \ {x} OBVIOUS
<1>6. IsFiniteSet(T) BY FS_Subset
<1>7. IsFiniteSet(U) /\ Cardinality(U) = k - 1
  BY <1>3, <1>4, <1>5, <1>6, FS_RemoveElement
<1>8. k \in Nat BY <1>2
<1>9. Cardinality(U) \in Nat BY <1>7, FS_CardinalityType
<1>10. U = {} => Newest(T)
  <2>1. SUFFICES ASSUME U = {} PROVE Newest(T) OBVIOUS
  <2>2. \A l \in T : l = x BY <1>5, <2>1
  <2>3. x.ts \in Nat BY <1>4
  <2>4. \A l \in T : l.ts <= x.ts BY <2>2, <2>3
  <2>5. QED BY <1>4, <2>4
<1>11. Newest(U)
  <2> SUFFICES ASSUME ~Newest(U) PROVE FALSE OBVIOUS
  <2>1. U # {} /\ U \in SUBSET S BY <1>3, <1>5, <1>10
  <2>2. k - 1 \in Bad
    <3>1. k - 1 \in Nat BY <1>7, <1>9
    <3>2. QED BY <1>7, <2>1, <3>1
  <2>3. <<k - 1, k>> \in OpToRel(<, Nat)
    <3>1. k - 1 \in Nat /\ k - 1 < k BY <1>7, <1>8, <1>9
    <3>2. QED BY <1>8, <3>1 DEF OpToRel
  <2>4. QED BY <1>2, <2>2, <2>3
<1>12. PICK m \in U : \A l \in U : l.ts <= m.ts BY <1>11
<1>13. m \in T /\ m.ts \in Nat /\ x.ts \in Nat BY <1>4, <1>5
<1>14. \A l \in T : l \in U \/ l = x BY <1>5
<1>15. Newest(T)
  <2>1. CASE x.ts <= m.ts
    <3>1. \A l \in T : l.ts <= m.ts BY <1>12, <1>14, <2>1
    <3>2. QED BY <1>13, <3>1
  <2>2. CASE m.ts < x.ts
    <3>1. \A l \in T : l.ts \in Nat OBVIOUS
    <3>2. ASSUME NEW l \in T PROVE l.ts <= x.ts
      <4>1. CASE l = x BY <1>13, <4>1
      <4>2. CASE l \in U
        <5>1. l.ts <= m.ts /\ l.ts \in Nat BY <1>12, <3>1, <4>2
        <5>2. QED BY <1>13, <2>2, <5>1
      <4>3. QED BY <1>14, <4>1, <4>2
    <3>3. QED BY <1>4, <3>2
  <2>3. QED BY <1>13, <2>1, <2>2
<1>16. QED BY <1>3, <1>15

(* advanceWatermark: the watermark is not before any line of the answer, it    *)
(* never goes back, and the lines at it are remembered.                       *)
LEMMA WatermarkAdvances ==
    ASSUME NEW b, BuilderOK(b), NEW logs \in SUBSET LogRecords
    PROVE  LET w == AdvanceWatermark(b, logs)
           IN  /\ BuilderOK(w) /\ w.state = b.state /\ w.order = b.order /\ w.done = b.done
               /\ b.mark <= w.mark /\ b.keys \subseteq w.keys
               /\ \A l \in logs : l.ts < w.mark \/ (l.ts = w.mark /\ <<l.span, l.line>> \in w.keys)
                                  \/ l.ts < b.mark
<1> DEFINE w == AdvanceWatermark(b, logs)
<1>0. \A l \in LogRecords : l.ts \in Nat BY StepAssumption
<1>1. CASE logs = {}
  <2>1. w = b BY <1>1 DEF AdvanceWatermark
  <2>2. b.mark \in Nat BY DEF BuilderOK
  <2>3. b.mark <= b.mark BY <2>2
  <2> HIDE DEF w
  <2>4. /\ BuilderOK(w) /\ w.state = b.state /\ w.order = b.order /\ w.done = b.done
        /\ b.mark <= w.mark /\ b.keys \subseteq w.keys
    BY <2>1, <2>3
  <2>5. \A l \in logs : FALSE BY <1>1
  <2>6. QED BY <2>4, <2>5 DEF w
<1>2. CASE logs # {}
  <2>1. IsFiniteSet(logs) BY StepAssumption, FS_Subset
  <2>2. PICK m \in logs : \A l \in logs : l.ts <= m.ts BY <1>0, <1>2, <2>1, NewestExists
  <2>3. PICK n : n = CHOOSE t \in {l.ts : l \in logs} : \A l \in logs : l.ts <= t OBVIOUS
  <2>4. n \in {l.ts : l \in logs} /\ \A l \in logs : l.ts <= n BY <2>2, <2>3
  <2>5. n \in Nat BY <1>0, <2>4
  <2>6. PICK more : more = {<<l.span, l.line>> : l \in {k \in logs : k.ts = n}} OBVIOUS
  <2>7. more \subseteq LogKeys BY <2>6 DEF LogKeys
  <2>8. w = IF n < b.mark THEN b ELSE [b EXCEPT !.mark = n, !.keys = b.keys \cup more]
    BY <1>2, <2>3, <2>6 DEF AdvanceWatermark
  <2>9. b.mark \in Nat BY DEF BuilderOK
  <2>10. \A l \in logs : l.ts \in Nat BY <1>0
  <2> HIDE DEF w
  <2>11. CASE n < b.mark
    <3>1. w = b BY <2>8, <2>11
    <3>2. \A l \in logs : l.ts < b.mark BY <2>4, <2>5, <2>9, <2>10, <2>11
    <3>3. b.mark <= w.mark BY <2>9, <3>1
    <3>4. QED BY <3>1, <3>2, <3>3 DEF w
  <2>12. CASE ~(n < b.mark)
    <3>1. w = [b EXCEPT !.mark = n, !.keys = b.keys \cup more] BY <2>8, <2>12
    <3>2. /\ w = [state |-> b.state, order |-> b.order, mark |-> n, keys |-> b.keys \cup more, done |-> b.done]
      BY <3>1 DEF BuilderOK
    <3>3. /\ w.state = b.state /\ w.order = b.order /\ w.done = b.done
          /\ w.mark = n /\ w.keys = b.keys \cup more
      BY <3>2
    <3>4. BuilderOK(w) BY <2>5, <2>7, <3>2, <3>3 DEF BuilderOK
    <3>5. b.mark <= n BY <2>5, <2>9, <2>12
    <3>6. \A l \in logs : l.ts < n \/ (l.ts = n /\ <<l.span, l.line>> \in more)
      BY <2>4, <2>5, <2>6, <2>10
    <3>7. QED BY <3>3, <3>4, <3>5, <3>6 DEF w
  <2>13. QED BY <2>11, <2>12
<1>3. QED BY <1>1, <1>2

(* Advance: what becomes of the builder's nodes and its watermark.             *)
LEMMA AdvanceKeeps ==
    ASSUME NEW b, BuilderOK(b), NEW logs \in SUBSET LogRecords, tempo \in [Spans -> NodeStates]
    PROVE  LET c == BuilderAdvance(b, logs).builder
           IN  /\ BuilderOK(c)
               /\ \A s \in Spans : \/ c.state[s] = b.state[s]
                                   \/ b.state[s] \notin StepOutcomes /\ c.state[s] = tempo[s]
               /\ b.mark <= c.mark /\ b.keys \subseteq c.keys
               /\ PickRoot # Nil =>
                    \A l \in logs : l.ts < c.mark \/ (l.ts = c.mark /\ <<l.span, l.line>> \in c.keys)
                                    \/ l.ts < b.mark
<1> DEFINE c == BuilderAdvance(b, logs).builder
<1>1. CASE PickRoot = Nil
  <2>1. c = b BY <1>1 DEF BuilderAdvance
  <2>2. b.mark \in Nat BY DEF BuilderOK
  <2>3. b.mark <= b.mark BY <2>2
  <2> HIDE DEF c
  <2>4. QED BY <1>1, <2>1, <2>3 DEF c
<1>2. CASE PickRoot # Nil
  <2>1. PICK w : w = AdvanceWatermark(b, logs) OBVIOUS
  <2>2. PICK place, tree : place = FlattenTrace(PickRoot)
                           /\ tree = EmitTree(b, place, PickRoot, FreshLogs(b, logs))
    OBVIOUS
  <2>3. PICK st : st = [s \in Spans |-> IF place[s].shown /\ b.state[s] \notin StepOutcomes
                                        THEN tempo[s] ELSE b.state[s]]
    OBVIOUS
  <2>4. PICK o, d : c = [w EXCEPT !.state = st, !.order = o, !.done = d]
    BY <1>2, <2>1, <2>2, <2>3 DEF BuilderAdvance
  <2>5. /\ BuilderOK(w) /\ w.state = b.state /\ b.mark <= w.mark /\ b.keys \subseteq w.keys
        /\ \A l \in logs : l.ts < w.mark \/ (l.ts = w.mark /\ <<l.span, l.line>> \in w.keys)
                           \/ l.ts < b.mark
    BY <2>1, WatermarkAdvances
  <2> HIDE DEF c
  <2>6. c = [state |-> st, order |-> o, mark |-> w.mark, keys |-> w.keys, done |-> d]
    BY <2>4, <2>5 DEF BuilderOK
  <2>7. c.state = st /\ c.mark = w.mark /\ c.keys = w.keys BY <2>6
  <2>8. st \in [Spans -> NodeStates] BY <2>3 DEF BuilderOK
  <2>9. BuilderOK(c) BY <2>5, <2>6, <2>7, <2>8 DEF BuilderOK
  <2>10. \A s \in Spans : \/ st[s] = b.state[s]
                          \/ b.state[s] \notin StepOutcomes /\ st[s] = tempo[s]
    BY <2>3
  <2>11. QED BY <2>5, <2>7, <2>9, <2>10 DEF c
<1>3. QED BY <1>1, <1>2

(* Finalize closes what runs with the status of the command.                  *)
LEMMA FinalizeKeeps ==
    ASSUME NEW b, BuilderOK(b), NEW status \in StepOutcomes
    PROVE  LET c == BuilderFinalize(b, status).builder
           IN  /\ BuilderOK(c) /\ c.done = TRUE /\ c.mark = b.mark /\ c.keys = b.keys
               /\ \A s \in Spans : c.state[s] = IF b.state[s] = "running" THEN status ELSE b.state[s]
<1> DEFINE c == BuilderFinalize(b, status).builder
<1>1. PICK st : st = [s \in Spans |-> IF b.state[s] = "running" THEN status ELSE b.state[s]] OBVIOUS
<1>2. c = [b EXCEPT !.state = st, !.done = TRUE] BY <1>1 DEF BuilderFinalize
<1> HIDE DEF c
<1>3. c = [state |-> st, order |-> b.order, mark |-> b.mark, keys |-> b.keys, done |-> TRUE]
  BY <1>2 DEF BuilderOK
<1>4. c.state = st /\ c.mark = b.mark /\ c.keys = b.keys /\ c.done = TRUE BY <1>3
<1>5. st \in [Spans -> NodeStates] BY <1>1 DEF BuilderOK, NodeStates
<1>6. BuilderOK(c) BY <1>3, <1>4, <1>5 DEF BuilderOK
<1>7. QED BY <1>1, <1>4, <1>6 DEF c

-----------------------------------------------------------------------------
LEMMA StageInit == StepInit => StageInv
<1> SUFFICES ASSUME StepInit PROVE StageInv OBVIOUS
<1>1. BuilderOK(builder)
  <2>1. builder = [state |-> [s \in Spans |-> Nil], order |-> <<>>, mark |-> 0, keys |-> {}, done |-> FALSE]
    BY DEF StepInit
  <2>2. PICK st, o, ks : st = [s \in Spans |-> Nil] /\ o = <<>> /\ ks = {} OBVIOUS
  <2>3. builder = [state |-> st, order |-> o, mark |-> 0, keys |-> ks, done |-> FALSE] BY <2>1, <2>2
  <2>4. builder.state = st /\ builder.order = o /\ builder.mark = 0 /\ builder.keys = ks /\ builder.done = FALSE
    BY <2>3
  <2>5. st \in [Spans -> NodeStates] BY <2>2 DEF NodeStates
  <2>6. QED BY <2>2, <2>3, <2>4, <2>5 DEF BuilderOK
<1>2. \A s \in Spans : builder.state[s] = Nil BY DEF StepInit
<1>3. StageTypes BY <1>1 DEF StepInit, StageTypes, NodeStates, StepPcs
<1>4. stepPc = "discover" BY DEF StepInit
<1>5. QED BY <1>2, <1>3, <1>4 DEF StageInv, LastAfterExit, StagesTruthful, StagesSettled

(* Steps that leave the builder and the trace alone.                          *)
LEMMA QuietKeeps ==
    ASSUME StageInv, UNCHANGED <<shape, tempo, loki, metaStatus, builder>>,
           stepPc' \in StepPcs, stepPc' = "ended" <=> stepPc = "ended",
           exitStatus' \in StepOutcomes \cup {Nil}, exitStatus # Nil => exitStatus' = exitStatus,
           stepPc' \in {"flush", "flushLogs", "finalize", "ended"} => exitStatus' # Nil
    PROVE  StageInv'
<1>1. StageTypes' BY DEF StageInv, StageTypes, BuilderOK
<1>2. LastAfterExit' BY DEF LastAfterExit
<1>3. stepPc = "ended" => exitStatus # Nil BY DEF StageInv, LastAfterExit
<1>4. StagesTruthful'
  <2> SUFFICES ASSUME NEW s \in Spans, builder.state[s] # Nil
               PROVE  /\ tempo[s] # Nil
                      /\ builder.state[s] \in StepOutcomes =>
                           tempo[s] = builder.state[s] \/ (stepPc' = "ended" /\ builder.state[s] = exitStatus')
    BY DEF StagesTruthful
  <2>1. QED BY <1>3 DEF StageInv, StagesTruthful
<1>5. StagesSettled' BY DEF StageInv, StagesSettled
<1>6. QED BY <1>1, <1>2, <1>4, <1>5 DEF StageInv

(* The trace is read: spans only move on.                                     *)
LEMMA TraceKeeps ==
    ASSUME StageInv, PollTrace
    PROVE  StageInv'
<1>0. StageTypes BY DEF StageInv
<1>1. UNCHANGED <<shape, loki, builder, exitStatus>> /\ tempo' \in MergedSpans BY DEF PollTrace
<1>2. \/ stepPc = "idle" /\ stepPc' = "logs"
      \/ stepPc = "flush" /\ stepPc' = "flushLogs"
  BY DEF PollTrace
<1>3. /\ tempo' \in [Spans -> NodeStates]
      /\ \A s \in Spans : \/ tempo[s] \in {Nil, tempo'[s]}
                          \/ tempo[s] = "running" /\ tempo'[s] # Nil
  BY <1>1 DEF MergedSpans, NodeStates
<1>4. metaStatus' \in StepOutcomes \cup {Nil}
  <2>1. shape.outcome[1] \in StepOutcomes BY <1>0, StepAssumption DEF StageTypes, StepOutcomes
  <2>2. QED BY <1>0, <2>1 DEF PollTrace, StageTypes, StepOutcomes
<1>5. StageTypes' BY <1>0, <1>1, <1>2, <1>3, <1>4 DEF StageTypes, StepPcs, BuilderOK
<1>6. LastAfterExit' BY <1>1, <1>2 DEF StageInv, LastAfterExit
<1>7. StagesTruthful'
  <2> SUFFICES ASSUME NEW s \in Spans, builder.state[s] # Nil
               PROVE  /\ tempo'[s] # Nil
                      /\ builder.state[s] \in StepOutcomes => tempo'[s] = builder.state[s]
    BY <1>1 DEF StagesTruthful
  <2>1. /\ tempo[s] # Nil
        /\ builder.state[s] \in StepOutcomes => tempo[s] = builder.state[s]
    BY <1>2 DEF StageInv, StagesTruthful
  <2>2. QED BY <1>3, <2>1 DEF StepOutcomes
<1>8. StagesSettled' BY <1>2 DEF StagesSettled
<1>9. QED BY <1>5, <1>6, <1>7, <1>8 DEF StageInv

(* The lines are read: the builder follows the tree.                          *)
LEMMA LogsKeep ==
    ASSUME StageInv, PollLogs
    PROVE  StageInv'
<1>0. StageTypes /\ BuilderOK(builder) /\ tempo \in [Spans -> NodeStates] BY DEF StageInv, StageTypes
<1>1. UNCHANGED <<shape, tempo, metaStatus, exitStatus>> /\ loki' \subseteq LogRecords
  BY <1>0 DEF PollLogs, StageTypes
<1>2. \/ stepPc = "logs" /\ stepPc' = "idle"
      \/ stepPc = "flushLogs" /\ stepPc' = "finalize"
  BY DEF PollLogs, AfterPoll
<1>3. PICK logs \in LogAnswers(loki') : builder' = BuilderAdvance(builder, logs).builder
  BY DEF PollLogs
<1>4. logs \in SUBSET LogRecords BY <1>1, <1>3 DEF LogAnswers
<1>5. /\ BuilderOK(builder')
      /\ \A s \in Spans : \/ builder'.state[s] = builder.state[s]
                          \/ builder.state[s] \notin StepOutcomes /\ builder'.state[s] = tempo[s]
  BY <1>0, <1>3, <1>4, AdvanceKeeps
<1>6. BuilderOK(builder)' BY <1>5 DEF BuilderOK, NodeStates, LogKeys, StepOutcomes
<1>7. StageTypes' BY <1>0, <1>1, <1>2, <1>6 DEF StageTypes, StepPcs
<1>8. LastAfterExit' BY <1>1, <1>2 DEF StageInv, LastAfterExit
<1>9. StagesTruthful'
  <2> SUFFICES ASSUME NEW s \in Spans, builder'.state[s] # Nil
               PROVE  /\ tempo[s] # Nil
                      /\ builder'.state[s] \in StepOutcomes => tempo[s] = builder'.state[s]
    BY <1>1 DEF StagesTruthful
  <2>1. CASE builder'.state[s] = builder.state[s]
    BY <1>2, <2>1 DEF StageInv, StagesTruthful
  <2>2. CASE builder'.state[s] = tempo[s] BY <2>2
  <2>3. QED BY <1>5, <2>1, <2>2
<1>10. StagesSettled' BY <1>2 DEF StagesSettled
<1>11. QED BY <1>7, <1>8, <1>9, <1>10 DEF StageInv

(* The final flush.                                                          *)
LEMMA FlushKeeps ==
    ASSUME StageInv, FinalFlush
    PROVE  StageInv'
<1>0. StageTypes /\ BuilderOK(builder) BY DEF StageInv, StageTypes
<1>1. /\ UNCHANGED <<shape, tempo, loki, metaStatus, exitStatus>>
      /\ stepPc = "finalize" /\ stepPc' = "ended"
      /\ builder' = BuilderFinalize(builder, exitStatus).builder
  BY DEF FinalFlush
<1>2. exitStatus \in StepOutcomes BY <1>0, <1>1 DEF StageInv, LastAfterExit, StageTypes
<1>3. /\ BuilderOK(builder') /\ builder'.done = TRUE
      /\ \A s \in Spans : builder'.state[s] = IF builder.state[s] = "running" THEN exitStatus
                                              ELSE builder.state[s]
  BY <1>0, <1>1, <1>2, FinalizeKeeps
<1>4. BuilderOK(builder)' BY <1>3 DEF BuilderOK, NodeStates, LogKeys, StepOutcomes
<1>5. StageTypes' BY <1>0, <1>1, <1>4 DEF StageTypes, StepPcs
<1>6. LastAfterExit' BY <1>1, <1>2, NilNotStep DEF LastAfterExit, StepOutcomes
<1>7. StagesTruthful'
  <2> SUFFICES ASSUME NEW s \in Spans, builder'.state[s] # Nil
               PROVE  /\ tempo[s] # Nil
                      /\ builder'.state[s] \in StepOutcomes =>
                           tempo[s] = builder'.state[s] \/ builder'.state[s] = exitStatus
    BY <1>1 DEF StagesTruthful
  <2>1. CASE builder.state[s] = "running"
    BY <1>3, <2>1, NilNotStep DEF StageInv, StagesTruthful
  <2>2. CASE builder.state[s] # "running"
    BY <1>1, <1>3, <2>2 DEF StageInv, StagesTruthful
  <2>3. QED BY <2>1, <2>2
<1>8. StagesSettled' BY <1>2, <1>3 DEF StagesSettled, StepOutcomes
<1>9. QED BY <1>5, <1>6, <1>7, <1>8 DEF StageInv

LEMMA StageNext ==
    ASSUME StageInv, [StepNext]_stepVars
    PROVE  StageInv'
<1>0. StageTypes BY DEF StageInv
<1>1. CASE UNCHANGED stepVars
  <2>1. UNCHANGED <<shape, tempo, loki, metaStatus, builder, stepPc, exitStatus>> BY <1>1 DEF stepVars
  <2>2. QED BY <1>0, <2>1, QuietKeeps DEF StageTypes, StageInv, LastAfterExit
<1>2. ASSUME NEW st \in StepOutcomes, CommandExits(st) PROVE StageInv'
  <2>1. UNCHANGED <<shape, tempo, loki, metaStatus, builder, stepPc>> /\ exitStatus = Nil /\ exitStatus' = st
    BY <1>2 DEF CommandExits
  <2>2. st # Nil /\ st \in StepOutcomes \cup {Nil} BY <1>2, NilNotStep DEF StepOutcomes
  <2>3. stepPc \notin {"flush", "flushLogs", "finalize", "ended"} BY <2>1 DEF StageInv, LastAfterExit
  <2>4. QED BY <1>0, <2>1, <2>2, <2>3, QuietKeeps DEF StageTypes
<1>3. CASE DiscoverTrace
  <2>1. UNCHANGED <<shape, tempo, loki, metaStatus, builder, exitStatus>> /\ stepPc = "discover" /\ stepPc' = "idle"
    BY <1>3 DEF DiscoverTrace
  <2>2. QED BY <1>0, <2>1, QuietKeeps DEF StageTypes, StepPcs
<1>4. CASE LastPollFails \/ PollLogsFails \/ StopPolling
  <2>1. UNCHANGED <<shape, tempo, loki, metaStatus, builder, exitStatus>>
    BY <1>4 DEF LastPollFails, PollLogsFails, StopPolling
  <2>2. /\ stepPc # "ended" /\ stepPc' \in {"idle", "flush", "finalize"}
        /\ stepPc' \in {"flush", "finalize"} => exitStatus # Nil
    BY <1>4 DEF LastPollFails, PollLogsFails, StopPolling, AfterPoll, StageInv, LastAfterExit
  <2>3. QED BY <1>0, <2>1, <2>2, QuietKeeps DEF StageTypes, StepPcs
<1>5. CASE PollTrace BY <1>5, TraceKeeps
<1>6. CASE PollLogs BY <1>6, LogsKeep
<1>7. CASE FinalFlush BY <1>7, FlushKeeps
<1>8. QED BY <1>1, <1>2, <1>3, <1>4, <1>5, <1>6, <1>7 DEF StepNext, WrapperStep

LEMMA StageInductive == StepSpec => []StageInv
BY StageInit, StageNext, PTL DEF StepSpec

(* For any pipeline and any order of indexing: a stage that was closed has     *)
(* the outcome of its span, or the command's status from the final flush.      *)
THEOREM StagesTellTheTruth == StepSpec => []StagesTruthful
<1>1. StageInv => StagesTruthful BY DEF StageInv
<1>2. QED BY <1>1, StageInductive, PTL

(* When the wrapper is done every stage it opened is closed.                   *)
THEOREM StagesAllClosed == StepSpec => []StagesSettled
<1>1. StageInv => StagesSettled BY DEF StageInv
<1>2. QED BY <1>1, StageInductive, PTL

(* Only Advance and Finalize touch the builder.                               *)
LEMMA BuilderMoves ==
    ASSUME StageInv, StepNext
    PROVE  \/ builder' = builder /\ stream' = stream
           \/ PollLogs
           \/ FinalFlush
BY DEF StepNext, WrapperStep, CommandExits, DiscoverTrace, PollTrace, LastPollFails, PollLogsFails, StopPolling

(* A closed stage keeps its status, an opened one stays known.                 *)
THEOREM StagesOnlyMoveOn == StepSpec => StagesMoveOn
<1> DEFINE Moves == \A s \in Spans :
         /\ builder.state[s] # Nil => builder'.state[s] # Nil
         /\ builder.state[s] \in StepOutcomes => builder'.state[s] = builder.state[s]
<1>1. StageInv /\ [StepNext]_stepVars => [Moves]_stepVars
  <2> SUFFICES ASSUME StageInv, StepNext PROVE Moves OBVIOUS
  <2>0. StageTypes /\ BuilderOK(builder) /\ tempo \in [Spans -> NodeStates] /\ loki \subseteq LogRecords
    BY DEF StageInv, StageTypes
  <2>1. CASE builder' = builder BY <2>1
  <2>2. CASE PollLogs
    <3>1. PICK logs \in LogAnswers(loki') : builder' = BuilderAdvance(builder, logs).builder
      BY <2>2 DEF PollLogs
    <3>2. logs \in SUBSET LogRecords BY <2>0, <2>2, <3>1 DEF PollLogs, LogAnswers
    <3>3. \A s \in Spans : \/ builder'.state[s] = builder.state[s]
                           \/ builder.state[s] \notin StepOutcomes /\ builder'.state[s] = tempo[s]
      BY <2>0, <3>1, <3>2, AdvanceKeeps
    <3>4. \A s \in Spans : builder.state[s] # Nil => tempo[s] # Nil BY DEF StageInv, StagesTruthful
    <3>5. QED BY <3>3, <3>4
  <2>3. CASE FinalFlush
    <3>1. exitStatus \in StepOutcomes BY <2>0, <2>3 DEF FinalFlush, StageInv, LastAfterExit, StageTypes
    <3>2. \A s \in Spans : builder'.state[s] = IF builder.state[s] = "running" THEN exitStatus
                                               ELSE builder.state[s]
      BY <2>0, <2>3, <3>1, FinalizeKeeps DEF FinalFlush
    <3>3. QED BY <3>1, <3>2, NilNotStep DEF StepOutcomes
  <2>4. QED BY <2>1, <2>2, <2>3, BuilderMoves
<1> HIDE DEF Moves
<1>2. StepSpec => [][Moves]_stepVars BY <1>1, StageInductive, PTL DEF StepSpec
<1>3. QED BY <1>2 DEF Moves, StagesMoveOn

(* A line is fresh, said without sets.                                         *)
LEMMA FreshLine ==
    ASSUME NEW b, NEW l
    PROVE  FreshLogs(b, {l}) = {} <=> ~(l.ts > b.mark \/ (l.ts = b.mark /\ <<l.span, l.line>> \notin b.keys))
BY DEF FreshLogs

(* Fresh lines stay behind a watermark that moves on.                          *)
LEMMA StaleStays ==
    ASSUME NEW b, NEW c, BuilderOK(b), BuilderOK(c), b.mark <= c.mark, b.keys \subseteq c.keys,
           NEW l \in LogRecords, FreshLogs(b, {l}) = {}
    PROVE  FreshLogs(c, {l}) = {}
<1>1. l.ts \in Nat /\ b.mark \in Nat /\ c.mark \in Nat BY StepAssumption DEF BuilderOK
<1>2. ~(l.ts > b.mark \/ (l.ts = b.mark /\ <<l.span, l.line>> \notin b.keys)) BY FreshLine
<1>3. ~(l.ts > c.mark \/ (l.ts = c.mark /\ <<l.span, l.line>> \notin c.keys)) BY <1>1, <1>2
<1>4. QED BY <1>3, FreshLine

(* No poll prints a line a second time.                                        *)
THEOREM LinesPrintedOnce == StepSpec => LinesOnce
<1> DEFINE Once ==
       /\ \A l \in LogRecords : FreshLogs(builder, {l}) = {} => FreshLogs(builder', {l}) = {}
       /\ stepPc \in {"logs", "flushLogs"} /\ PickRoot # Nil /\ <<builder, stream>>' # <<builder, stream>>
            => \E logs \in LogAnswers(loki') :
                  /\ stream' = stream \o BuilderAdvance(builder, logs).events
                  /\ FreshLogs(builder', logs) = {}
<1>1. StageInv /\ [StepNext]_stepVars => [Once]_stepVars
  <2> SUFFICES ASSUME StageInv, StepNext PROVE Once OBVIOUS
  <2>0. StageTypes /\ BuilderOK(builder) /\ tempo \in [Spans -> NodeStates] /\ loki \subseteq LogRecords
    BY DEF StageInv, StageTypes
  <2>1. CASE builder' = builder /\ stream' = stream BY <2>1
  <2>2. CASE PollLogs
    <3>1. PICK logs \in LogAnswers(loki') : /\ builder' = BuilderAdvance(builder, logs).builder
                                            /\ stream' = stream \o BuilderAdvance(builder, logs).events
      BY <2>2 DEF PollLogs
    <3>2. logs \in SUBSET LogRecords BY <2>0, <2>2, <3>1 DEF PollLogs, LogAnswers
    <3>3. /\ BuilderOK(builder') /\ builder.mark <= builder'.mark /\ builder.keys \subseteq builder'.keys
          /\ PickRoot # Nil =>
               \A l \in logs : \/ l.ts < builder'.mark
                               \/ l.ts = builder'.mark /\ <<l.span, l.line>> \in builder'.keys
                               \/ l.ts < builder.mark
      BY <2>0, <3>1, <3>2, AdvanceKeeps
    <3>4. \A l \in LogRecords : FreshLogs(builder, {l}) = {} => FreshLogs(builder', {l}) = {}
      BY <2>0, <3>3, StaleStays
    <3>5. ASSUME PickRoot # Nil PROVE FreshLogs(builder', logs) = {}
      <4>1. builder.mark \in Nat /\ builder'.mark \in Nat BY <2>0, <3>3 DEF BuilderOK
      <4>2. ASSUME NEW l \in logs
            PROVE  ~(l.ts > builder'.mark \/ (l.ts = builder'.mark /\ <<l.span, l.line>> \notin builder'.keys))
        <5>1. l.ts \in Nat BY <3>2, <4>2, StepAssumption
        <5>2. QED BY <3>3, <3>5, <4>1, <5>1
      <4>3. QED BY <4>2 DEF FreshLogs
    <3>6. QED BY <3>1, <3>4, <3>5
  <2>3. CASE FinalFlush
    <3>1. exitStatus \in StepOutcomes /\ stepPc = "finalize"
      BY <2>0, <2>3 DEF FinalFlush, StageInv, LastAfterExit, StageTypes
    <3>2. BuilderOK(builder') /\ builder'.mark = builder.mark /\ builder'.keys = builder.keys
      BY <2>0, <2>3, <3>1, FinalizeKeeps DEF FinalFlush
    <3>3. builder.mark <= builder.mark BY <2>0 DEF BuilderOK
    <3>4. \A l \in LogRecords : FreshLogs(builder, {l}) = {} => FreshLogs(builder', {l}) = {}
      BY <2>0, <3>2, <3>3, StaleStays
    <3>5. QED BY <3>1, <3>4
  <2>4. QED BY <2>1, <2>2, <2>3, BuilderMoves
<1> HIDE DEF Once
<1>2. StepSpec => [][Once]_stepVars BY <1>1, StageInductive, PTL DEF StepSpec
<1>3. QED BY <1>2 DEF Once, LinesOnce
=============================================================================
