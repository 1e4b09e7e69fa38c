------------------------------ MODULE Publisher ------------------------------
(***************************************************************************)
(* The topic publisher of src/publisher/pub_server.cpp: PubServer (accept, *)
(* publish, heartbeat loop) and ClientConnection (control-message reader,  *)
(* send_frame with its size check and drop policy, and the write loop).    *)
(*                                                                         *)
(* Threads modelled: the distributor calling publish(), the heartbeat      *)
(* thread, one io thread per client running the async read callback, and   *)
(* one writer thread per client.  The per-client send queue is a           *)
(* moodycamel::ConcurrentQueue: FIFO per producer thread only, so it is a  *)
(* function from producer to sequence and the writer may take the head of  *)
(* any non-empty sub-queue.                                                *)
(*                                                                         *)
(* Data abstracted: a frame is a record of its kind and one value (the     *)
(* publish number of a data frame, the code of an ack); topics and         *)
(* patterns are model values and the glob match is the constant operator   *)
(* Matches.  Heartbeats and acks take their place in the queues; of what reaches a  *)
(* socket only the data frame numbers are kept.                            *)
(***************************************************************************)
EXTENDS Naturals, Sequences, FiniteSets, SequencesExt

CONSTANTS
    Clients,        \* connections the acceptor may accept
    Topics,         \* topics the distributor publishes on
    Patterns,       \* patterns clients may subscribe to
    Matches(_, _),  \* Matches(topic, pattern): PubServer::matches_topic
    IoLanes,        \* io_context threads running the read callbacks
    MaxQueue,       \* ClientConnection::MAX_QUEUE_SIZE
    MaxMsgs,        \* bound: frames the distributor publishes
    MaxCtl          \* bound: control messages a client sends

ASSUME /\ MaxQueue \in Nat \ {0}
       /\ MaxMsgs \in Nat \ {0}
       /\ MaxCtl \in Nat
       /\ IoLanes # {}

Producers == {"dist", "hb"} \cup IoLanes

Frames == [kind : {"data"}, val : 1..MaxMsgs]
          \cup [kind : {"hb"}, val : {0}]
          \cup [kind : {"ack"}, val : {200, 400, 401}]

DataFrame(i) == [kind |-> "data", val |-> i]
HbFrame      == [kind |-> "hb", val |-> 0]
AckFrame(c)  == [kind |-> "ack", val |-> c]

Subscription == [pattern : Patterns, lossless : BOOLEAN]

VARIABLES
    running,        \* ClientConnection::running_ : "new" (not accepted), "open", "closed"
    authenticated,  \* ClientConnection::authenticated_
    subscriptions,  \* ClientConnection::subscriptions_ (as a set)
    sendQueue,      \* ClientConnection::send_queue_ : producer -> FIFO
    inFlight,       \* frame the write loop has dequeued and not yet written
    writerAlive,    \* the write thread is inside write_loop()
    pendingAck,     \* ack code the read callback is about to send (0: none)
    stopAfterAck,   \* the callback calls stop() after sending its ack (bad token)
    ctlCount,       \* control messages read so far (bounded by MaxCtl)
    clients,        \* PubServer::clients_ : the set of listed connections
    hbPending,      \* clients the heartbeat loop still has to send to (holds clients_mutex_)
    pubPending,     \* clients_snapshot entries publish() has not visited yet
    pubCount,       \* frames published so far; the current one is number pubCount
    topicOf,        \* topic of each published frame
    wireData,       \* data frame numbers written to each client's socket, in order
    dropped,        \* data frames dropped on a full queue, each with the counter it
                    \* went to: publisher_frames_dropped_backpressure when lossless,
                    \* else publisher_frames_dropped_queue_full
    aborted         \* the process has called std::terminate

vars == <<running, authenticated, subscriptions, sendQueue, inFlight, writerAlive,
          pendingAck, stopAfterAck, ctlCount, clients, hbPending, pubPending, pubCount,
          topicOf, wireData, dropped, aborted>>

NoFrame == [kind |-> "none", val |-> 0]

-----------------------------------------------------------------------------
(* Helpers *)

\* send_queue_->size_approx(): with the check and the enqueue in one step it is exact.
QueueDepth(c) == SumFunction([p \in Producers |-> Len(sendQueue[c][p])])

IsData(f) == f.kind = "data"

DataQueued(c) == SumFunction([p \in Producers |-> Len(SelectSeq(sendQueue[c][p], IsData))])

\* The client holds a lossless subscription: the drop is then counted as
\* backpressure rather than queue-full.
HasLossless(c) == \E s \in subscriptions[c] : s.lossless

\* Mutant: the depth check lets one frame too many in.
SendFrameOffByOne(c, f, p) ==
    IF running[c] = "open" /\ authenticated[c]
    THEN IF QueueDepth(c) > MaxQueue
         THEN UNCHANGED <<sendQueue, dropped>>
         ELSE /\ sendQueue' = [sendQueue EXCEPT ![c][p] = Append(@, f)]
              /\ UNCHANGED dropped
    ELSE UNCHANGED <<sendQueue, dropped>>

\* ClientConnection::send_frame(topic, frame) called by producer thread p.
\* Returns early unless running and authenticated; drops and counts when the
\* queue holds MAX_QUEUE_SIZE frames; otherwise enqueues on p's sub-queue.
SendFrame(c, f, p) ==
    IF running[c] = "open" /\ authenticated[c]
    THEN IF QueueDepth(c) >= MaxQueue
         THEN /\ dropped' = IF IsData(f)
                            THEN [dropped EXCEPT ![c] = @ \cup
                                    {[val |-> f.val, lossless |-> HasLossless(c)]}]
                            ELSE dropped
              /\ UNCHANGED sendQueue
         ELSE /\ sendQueue' = [sendQueue EXCEPT ![c][p] = Append(@, f)]
              /\ UNCHANGED dropped
    ELSE UNCHANGED <<sendQueue, dropped>>

\* ClientConnection::stop(): running_ goes false and the socket is closed.
\* Called from the io thread the join of the writer is harmless: the writer
\* leaves its loop when it sees running_ false.
StopClient(c) == running' = [running EXCEPT ![c] = "closed"]

-----------------------------------------------------------------------------
(* Acceptor *)

\* ClientConnection::start: running_, the write thread, and the first read.
ClientStart(c) ==
    /\ running' = [running EXCEPT ![c] = "open"]
    /\ writerAlive' = [writerAlive EXCEPT ![c] = TRUE]

\* accept_connections() handler: push_back under clients_mutex_, then start().
Accept(c) ==
    /\ ~aborted
    /\ running[c] = "new"
    /\ hbPending = {}
    /\ clients' = clients \cup {c}
    /\ ClientStart(c)
    /\ UNCHANGED <<authenticated, subscriptions, sendQueue, inFlight, pendingAck,
                   stopAfterAck, ctlCount, hbPending, pubPending, pubCount, topicOf,
                   wireData, dropped, aborted>>

-----------------------------------------------------------------------------
(* The read callback: process_control_message, one message at a time.      *)
(* Each handler changes the connection state and leaves the ack it owes in *)
(* pendingAck; SendAck then calls send_control_ack and continues reading.   *)

ReadReady(c) ==
    /\ ~aborted
    /\ running[c] = "open"
    /\ pendingAck[c] = 0
    /\ ctlCount[c] < MaxCtl

ReadCommon(c) == ctlCount' = [ctlCount EXCEPT ![c] = @ + 1]

\* op == "auth" with the configured token.
AuthOk(c) ==
    /\ ReadReady(c)
    /\ ReadCommon(c)
    /\ authenticated' = [authenticated EXCEPT ![c] = TRUE]
    /\ pendingAck' = [pendingAck EXCEPT ![c] = 200]
    /\ UNCHANGED <<running, subscriptions, sendQueue, inFlight, writerAlive, stopAfterAck,
                   clients, hbPending, pubPending, pubCount, topicOf, wireData,
                   dropped, aborted>>

\* op == "auth" with another token: ack 401, count the failure, then stop().
AuthBad(c) ==
    /\ ReadReady(c)
    /\ ReadCommon(c)
    /\ pendingAck' = [pendingAck EXCEPT ![c] = 401]
    /\ stopAfterAck' = [stopAfterAck EXCEPT ![c] = TRUE]
    /\ UNCHANGED <<running, authenticated, subscriptions, sendQueue, inFlight, writerAlive,
                   clients, hbPending, pubPending, pubCount, topicOf, wireData,
                   dropped, aborted>>

\* op == "subscribe": 401 unless authenticated; else append every pattern
\* of "topics" with the message's lossless flag and ack 200.
Subscribe(c, pats, lossless) ==
    /\ ReadReady(c)
    /\ ReadCommon(c)
    /\ IF authenticated[c]
       THEN /\ subscriptions' = [subscriptions EXCEPT ![c] =
                   @ \cup {[pattern |-> p, lossless |-> lossless] : p \in pats}]
            /\ pendingAck' = [pendingAck EXCEPT ![c] = 200]
       ELSE /\ pendingAck' = [pendingAck EXCEPT ![c] = 401]
            /\ UNCHANGED subscriptions
    /\ UNCHANGED <<running, authenticated, sendQueue, inFlight, writerAlive, stopAfterAck,
                   clients, hbPending, pubPending, pubCount, topicOf, wireData,
                   dropped, aborted>>

\* op == "unsubscribe" is acknowledged and changes nothing; any other op,
\* and a message that fails to parse, is answered 400.
OtherOp(c, code) ==
    /\ ReadReady(c)
    /\ ReadCommon(c)
    /\ pendingAck' = [pendingAck EXCEPT ![c] = code]
    /\ UNCHANGED <<running, authenticated, subscriptions, sendQueue, inFlight, writerAlive,
                   stopAfterAck, clients, hbPending, pubPending, pubCount, topicOf,
                   wireData, dropped, aborted>>

\* send_control_ack(code) from io thread `lane`; after a bad token, stop().
SendAck(c, lane) ==
    /\ ~aborted
    /\ pendingAck[c] # 0
    /\ SendFrame(c, AckFrame(pendingAck[c]), lane)
    /\ pendingAck' = [pendingAck EXCEPT ![c] = 0]
    /\ IF stopAfterAck[c] THEN StopClient(c) ELSE UNCHANGED running
    /\ stopAfterAck' = [stopAfterAck EXCEPT ![c] = FALSE]
    /\ UNCHANGED <<authenticated, subscriptions, inFlight, writerAlive, ctlCount, clients,
                   hbPending, pubPending, pubCount, topicOf, wireData, aborted>>

\* async_read_until fails (peer closed, reset): stop().
ReadError(c) ==
    /\ ~aborted
    /\ running[c] = "open"
    /\ pendingAck[c] = 0
    /\ StopClient(c)
    /\ UNCHANGED <<authenticated, subscriptions, sendQueue, inFlight, writerAlive,
                   pendingAck, stopAfterAck, ctlCount, clients, hbPending, pubPending,
                   pubCount, topicOf, wireData, dropped, aborted>>

-----------------------------------------------------------------------------
(* The write loop *)

\* Mutant: the writer takes the newest frame of a sub-queue.
DequeueNewest(c, p) ==
    /\ inFlight' = [inFlight EXCEPT ![c] = Last(sendQueue[c][p])]
    /\ sendQueue' = [sendQueue EXCEPT ![c][p] = Front(@)]

\* Mutant: the frame is taken off the queue but never reaches the batch.
DequeueLost(c, p) ==
    /\ UNCHANGED inFlight
    /\ sendQueue' = [sendQueue EXCEPT ![c][p] = Tail(@)]

\* try_dequeue_bulk while running_: takes the head of one producer's sub-queue.
Dequeue(c, p) ==
    /\ inFlight' = [inFlight EXCEPT ![c] = Head(sendQueue[c][p])]
    /\ sendQueue' = [sendQueue EXCEPT ![c][p] = Tail(@)]

WriterDequeue(c, p) ==
    /\ ~aborted
    /\ writerAlive[c]
    /\ running[c] = "open"
    /\ inFlight[c] = NoFrame
    /\ sendQueue[c][p] # <<>>
    /\ Dequeue(c, p)
    /\ UNCHANGED <<running, authenticated, subscriptions, writerAlive, pendingAck,
                   stopAfterAck, ctlCount, clients, hbPending, pubPending, pubCount,
                   topicOf, wireData, dropped, aborted>>

\* boost::asio::write succeeds on an open socket.
WriteOk(c) ==
    /\ ~aborted
    /\ inFlight[c] # NoFrame
    /\ running[c] = "open"
    /\ wireData' = IF IsData(inFlight[c])
                   THEN [wireData EXCEPT ![c] = Append(@, inFlight[c].val)]
                   ELSE wireData
    /\ inFlight' = [inFlight EXCEPT ![c] = NoFrame]
    /\ UNCHANGED <<running, authenticated, subscriptions, sendQueue, writerAlive,
                   pendingAck, stopAfterAck, ctlCount, clients, hbPending, pubPending,
                   pubCount, topicOf, dropped, aborted>>

\* The write fails on a socket another thread has closed: stop() finds
\* running_ already false and returns, and the write loop returns.
WriteClosed(c) ==
    /\ ~aborted
    /\ inFlight[c] # NoFrame
    /\ running[c] = "closed"
    /\ inFlight' = [inFlight EXCEPT ![c] = NoFrame]
    /\ writerAlive' = [writerAlive EXCEPT ![c] = FALSE]
    /\ UNCHANGED <<running, authenticated, subscriptions, sendQueue, pendingAck,
                   stopAfterAck, ctlCount, clients, hbPending, pubPending, pubCount,
                   topicOf, wireData, dropped, aborted>>

\* The write fails on an open socket (peer reset): the write thread calls
\* stop(), which sets running_ false, closes the socket and then joins the
\* write thread from itself; join throws resource_deadlock_would_occur out of
\* the jthread body and the process terminates.
WriteError(c) ==
    /\ ~aborted
    /\ inFlight[c] # NoFrame
    /\ running[c] = "open"
    /\ StopClient(c)
    /\ aborted' = TRUE
    /\ UNCHANGED <<authenticated, subscriptions, sendQueue, inFlight, writerAlive,
                   pendingAck, stopAfterAck, ctlCount, clients, hbPending, pubPending,
                   pubCount, topicOf, wireData, dropped>>

-----------------------------------------------------------------------------
(* PubServer::heartbeat_loop: under clients_mutex_, erase every client that *)
(* is not authenticated, then send_heartbeat() to each remaining one.       *)

HeartbeatReap ==
    /\ ~aborted
    /\ hbPending = {}
    /\ clients' = {c \in clients : authenticated[c]}
    /\ hbPending' = {c \in clients : authenticated[c]}
    /\ UNCHANGED <<running, authenticated, subscriptions, sendQueue, inFlight, writerAlive,
                   pendingAck, stopAfterAck, ctlCount, pubPending, pubCount, topicOf,
                   wireData, dropped, aborted>>

HeartbeatSend(c) ==
    /\ ~aborted
    /\ c \in hbPending
    /\ SendFrame(c, HbFrame, "hb")
    /\ hbPending' = hbPending \ {c}
    /\ UNCHANGED <<running, authenticated, subscriptions, inFlight, writerAlive, pendingAck,
                   stopAfterAck, ctlCount, clients, pubPending, pubCount, topicOf,
                   wireData, aborted>>

-----------------------------------------------------------------------------
(* PubServer::publish(topic, frame), called by the distributor thread: copy *)
(* clients_ under the mutex, then visit each snapshot entry.                *)

PublishStart(t) ==
    /\ ~aborted
    /\ pubPending = {}
    /\ pubCount < MaxMsgs
    /\ hbPending = {}
    /\ pubCount' = pubCount + 1
    /\ topicOf' = [topicOf EXCEPT ![pubCount + 1] = t]
    /\ pubPending' = clients
    /\ UNCHANGED <<running, authenticated, subscriptions, sendQueue, inFlight, writerAlive,
                   pendingAck, stopAfterAck, ctlCount, clients, hbPending, wireData,
                   dropped, aborted>>

\* Skip an unauthenticated client; send when any subscription matches.
ShouldSend(c, t) ==
    /\ authenticated[c]
    /\ \E s \in subscriptions[c] : Matches(t, s.pattern)

PublishTo(c) ==
    /\ ~aborted
    /\ c \in pubPending
    /\ IF ShouldSend(c, topicOf[pubCount])
       THEN SendFrame(c, DataFrame(pubCount), "dist")
       ELSE UNCHANGED <<sendQueue, dropped>>
    /\ pubPending' = pubPending \ {c}
    /\ UNCHANGED <<running, authenticated, subscriptions, inFlight, writerAlive, pendingAck,
                   stopAfterAck, ctlCount, clients, hbPending, pubCount, topicOf,
                   wireData, aborted>>

-----------------------------------------------------------------------------

Init ==
    /\ running = [c \in Clients |-> "new"]
    /\ authenticated = [c \in Clients |-> FALSE]
    /\ subscriptions = [c \in Clients |-> {}]
    /\ sendQueue = [c \in Clients |-> [p \in Producers |-> <<>>]]
    /\ inFlight = [c \in Clients |-> NoFrame]
    /\ writerAlive = [c \in Clients |-> FALSE]
    /\ pendingAck = [c \in Clients |-> 0]
    /\ stopAfterAck = [c \in Clients |-> FALSE]
    /\ ctlCount = [c \in Clients |-> 0]
    /\ clients = {}
    /\ hbPending = {}
    /\ pubPending = {}
    /\ pubCount = 0
    /\ topicOf = [i \in 1..MaxMsgs |-> CHOOSE t \in Topics : TRUE]
    /\ wireData = [c \in Clients |-> <<>>]
    /\ dropped = [c \in Clients |-> {}]
    /\ aborted = FALSE

ClientStep(c) ==
    \/ Accept(c)
    \/ AuthOk(c)
    \/ AuthBad(c)
    \/ \E pats \in SUBSET Patterns, l \in BOOLEAN : Subscribe(c, pats, l)
    \/ \E code \in {200, 400} : OtherOp(c, code)
    \/ \E lane \in IoLanes : SendAck(c, lane)
    \/ ReadError(c)

WriterStep(c) ==
    \/ \E p \in Producers : WriterDequeue(c, p)
    \/ WriteOk(c)
    \/ WriteClosed(c)
    \/ WriteError(c)

Next ==
    \/ \E c \in Clients : ClientStep(c) \/ WriterStep(c)
    \/ HeartbeatReap
    \/ \E c \in Clients : HeartbeatSend(c)
    \/ \E t \in Topics : PublishStart(t)
    \/ \E c \in Clients : PublishTo(c)

\* The write, heartbeat and distributor threads poll in loops and are never
\* descheduled for good, and the io thread finishes a callback it has begun:
\* weak fairness on each.  try_dequeue_bulk visits every producer's
\* sub-queue, so a sub-queue the writer can take from again and again is not
\* passed over for ever: strong fairness per producer (between two dequeues
\* the in-flight frame disables it).  The peers (what a client sends, when it disconnects) and the
\* network (a failed write) get none.
Fairness ==
    /\ \A c \in Clients :
        /\ \A p \in Producers : SF_vars(WriterDequeue(c, p))
        /\ WF_vars(WriteOk(c))
        /\ WF_vars(WriteClosed(c))
        /\ WF_vars(\E lane \in IoLanes : SendAck(c, lane))
        /\ WF_vars(HeartbeatSend(c))
        /\ WF_vars(PublishTo(c))
    /\ WF_vars(HeartbeatReap)

Spec == Init /\ [][Next]_vars /\ Fairness

-----------------------------------------------------------------------------
(* Properties *)

TypeOK ==
    /\ running \in [Clients -> {"new", "open", "closed"}]
    /\ authenticated \in [Clients -> BOOLEAN]
    /\ subscriptions \in [Clients -> SUBSET Subscription]
    /\ sendQueue \in [Clients -> [Producers -> BoundedSeq(Frames, MaxQueue)]]
    /\ inFlight \in [Clients -> Frames \cup {NoFrame}]
    /\ writerAlive \in [Clients -> BOOLEAN]
    /\ pendingAck \in [Clients -> {0, 200, 400, 401}]
    /\ stopAfterAck \in [Clients -> BOOLEAN]
    /\ ctlCount \in [Clients -> 0..MaxCtl]
    /\ clients \subseteq Clients
    /\ hbPending \subseteq Clients
    /\ pubPending \subseteq Clients
    /\ pubCount \in 0..MaxMsgs
    /\ topicOf \in [1..MaxMsgs -> Topics]
    /\ wireData \in [Clients -> Seq(1..MaxMsgs)]
    /\ dropped \in [Clients -> SUBSET [val : 1..MaxMsgs, lossless : BOOLEAN]]
    /\ aborted \in BOOLEAN

\* Data frame numbers waiting for client c: in its send queue or in flight.
QueuedData(c) ==
    {f.val : f \in {g \in UNION {Range(sendQueue[c][p]) : p \in Producers}
                                \cup {inFlight[c]} : IsData(g)}}

-----------------------------------------------------------------------------
(* The connection as the abstract channel of SendChannel.  A data frame is *)
(* pending from the moment send_frame queues it on the distributor's        *)
(* sub-queue until it is written; the writer's frame in flight is the       *)
(* oldest.  A closed connection has nothing pending: its queue is never     *)
(* written again.                                                           *)

InFlightData(c) == IF IsData(inFlight[c]) THEN <<inFlight[c].val>> ELSE <<>>

PendingData(c) ==
    IF running[c] = "closed" THEN <<>>
    ELSE InFlightData(c) \o [i \in 1..Len(sendQueue[c]["dist"]) |-> sendQueue[c]["dist"][i].val]

ChannelState(c) ==
    CASE running[c] = "closed"                  -> "closed"
      [] running[c] = "open" /\ authenticated[c] -> "open"
      [] OTHER                                  -> "new"

Channel(c) == INSTANCE SendChannel WITH
    Values  <- 1..MaxMsgs,
    state   <- ChannelState(c),
    pending <- PendingData(c),
    wire    <- wireData[c]

\* Every client connection implements SendChannel: data frames are written
\* in the order send_frame accepted them (spec section 5, per-client FIFO),
\* none twice, none after the close, although the send queue only orders
\* frames per producer thread, heartbeats and acks share it, and the writer
\* picks among the producers' sub-queues.
ChannelRefinement ==
    /\ \A c \in Clients : Channel(c)!Init
    /\ [][\A c \in Clients : [Channel(c)!Next]_(Channel(c)!chanVars)]_vars

\* A data frame queued for a client is eventually written to its socket
\* unless the connection is closed first (or the process has died): the
\* write loop drains every producer's sub-queue.
QueuedDataEventuallyWritten ==
    \A c \in Clients, i \in 1..MaxMsgs :
        (i \in QueuedData(c)) ~> (i \in Range(wireData[c]) \/ running[c] = "closed" \/ aborted)

-----------------------------------------------------------------------------
(* Properties the code is expected to have and does not *)

\* A connection that is open and authenticated is listed in clients_, so
\* that publish() and the heartbeat loop reach it.  heartbeat_loop erases
\* every connection not yet authenticated, and nothing lists it again when
\* its auth message arrives afterwards.
AuthenticatedStaysListed ==
    \A c \in Clients : running[c] = "open" /\ authenticated[c] => c \in clients

\* The process survives the loss of one client: a failed socket write closes
\* that connection (spec 4.5: "transitions the client to CLOSED").  The write
\* thread's stop() joins the write thread itself.
NoAbort == ~aborted

\* send_control_ack puts the ack it is given on the open connection's queue
\* unless the queue is full (spec 7, scenario 4: subscribe before auth and a
\* wrong token are answered 401).  send_frame returns early for a connection
\* that is not authenticated.
AckEnqueued ==
    [][\A c \in Clients :
         (/\ pendingAck[c] # 0 /\ pendingAck'[c] = 0
          /\ running[c] = "open" /\ QueueDepth(c) < MaxQueue)
         => (QueueDepth(c))' = QueueDepth(c) + 1]_vars

=============================================================================
