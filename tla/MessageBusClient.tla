--------------------------- MODULE MessageBusClient ---------------------------
(***************************************************************************)
(* The client side of the bus: nmb/client.py (MessageBus) and its blocking *)
(* wrapper nmb/sync.py.  One client, the calls its coroutines make on it,  *)
(* one pub/sub channel with several local subscribers, one listen()        *)
(* consumer, the background reader, and close() racing all of them.        *)
(*                                                                         *)
(* A call is send/publish ("ack"), request, subscribe, or reply/stream     *)
(* chunk (Post, no future).  It registers its future, writes its frame     *)
(* and suspends in the socket's send ("sending") before it awaits the      *)
(* future ("waiting"): the answer may be dispatched in either place.  The  *)
(* broker is abstract: it answers a frame at most once, in any way it may, *)
(* and takes SUBSCRIBE and UNSUBSCRIBE frames in the order they were       *)
(* written.  Messages are numbered in the order the reader dispatches them.*)
(*                                                                         *)
(* The blocking client runs the same coroutines on a private loop, which   *)
(* its own close() stops once the asynchronous close() has returned: the   *)
(* behaviours in which StopLoop happens are those of nmb/sync.py.          *)
(***************************************************************************)
EXTENDS Integers, Sequences, SequencesExt, FiniteSets

CONSTANTS
    Calls,          \* calls made on the client
    MaxRetries,     \* DEFAULT_NMB_CONNECT_MAX_RETRIES
    QueueSize,      \* DEFAULT_NMB_LISTEN_QUEUE_SIZE, .._CHANNEL_QUEUE_SIZE
    MaxFrames       \* bound: messages the broker delivers
ASSUME BusAssumption ==
    /\ MaxRetries \in Nat \ {0} /\ QueueSize \in Nat \ {0} /\ MaxFrames \in Nat
    /\ {"listen", "unsub"} \cap Calls = {}

Listen == "listen"              \* the name of the general listen queue
Queues == Calls \cup {Listen}    \* a subscriber's queue has its call's name

VARIABLES
    loop,       \* the event loop: "running" or "stopped"
    attempts,   \* failed connect() attempts
    ws,         \* _ws: "none", "open", "lost" (set, but dead)
    reader,     \* _recv_task: "none", "running", "ended"
    closed,     \* _closed
    closer,     \* close(): "idle", "cancelled", "closing", "done"
    pc,         \* pc[c]: where call c is
    kind,       \* kind[c]: what call c is
    fut,        \* fut[c]: its future
    pend,       \* keys of _pending_futures and _pending_acks
    asked,      \* calls the broker has yet to answer
    wire,       \* SUBSCRIBE (its call) and UNSUBSCRIBE frames not yet taken
    routed,     \* the broker routes the channel to this client
    chan,       \* _channel_queues[channel]: subscribers with a queue
    queue,      \* queue[q]: the messages waiting in q, numbered per queue
    put,        \* history: how many messages were put into q
    got,        \* history: the number of the last one taken from q
    frames,     \* messages dispatched so far
    listener    \* listen(): "off", "polling", "stopped"

connVars == <<attempts, ws, reader, closed, closer>>
callVars == <<pc, kind, fut, pend, asked>>
subVars  == <<wire, routed, chan>>
msgVars  == <<queue, put, got, frames>>
vars == <<loop, connVars, callVars, subVars, msgVars, listener>>

Unsub == "unsub"
Over  == {"over", "cancelled"}
PC    == {"idle", "sending", "waiting", "getting"} \cup Over

ConnTypes ==
    /\ loop \in {"running", "stopped"}
    /\ attempts \in 0..MaxRetries
    /\ ws \in {"none", "open", "lost"}
    /\ reader \in {"none", "running", "ended"}
    /\ closed \in BOOLEAN
    /\ closer \in {"idle", "cancelled", "closing", "done"}
    /\ listener \in {"off", "polling", "stopped"}

CallTypes ==
    /\ pc \in [Calls -> PC]
    /\ kind \in [Calls -> {"none", "ack", "request", "subscribe"}]
    /\ fut \in [Calls -> {"none", "pending", "ok", "error"}]
    /\ pend \subseteq Calls /\ asked \subseteq Calls

SubTypes ==
    /\ wire \in Seq(Calls \cup {Unsub})
    /\ routed \in BOOLEAN /\ chan \subseteq Calls

MsgTypes ==
    /\ queue \in [Queues -> Seq(1..MaxFrames)]
    /\ put \in [Queues -> 0..MaxFrames] /\ got \in [Queues -> 0..MaxFrames]
    /\ frames \in 0..MaxFrames

TypeOK == ConnTypes /\ CallTypes /\ SubTypes /\ MsgTypes

Init ==
    /\ loop = "running"
    /\ attempts = 0 /\ ws = "none" /\ reader = "none"
    /\ closed = FALSE /\ closer = "idle"
    /\ pc = [c \in Calls |-> "idle"] /\ kind = [c \in Calls |-> "none"]
    /\ fut = [c \in Calls |-> "none"] /\ pend = {} /\ asked = {}
    /\ wire = <<>> /\ routed = FALSE /\ chan = {}
    /\ queue = [q \in Queues |-> <<>>]
    /\ put = [q \in Queues |-> 0] /\ got = [q \in Queues |-> 0]
    /\ frames = 0 /\ listener = "off"

Running == loop = "running"     \* a coroutine only moves while its loop runs

-----------------------------------------------------------------------------
(* Connecting, losing the connection, closing.                             *)

\* connect(), retried by connect_with_retry() until MaxRetries have failed.
Connect ==
    /\ ws = "none" /\ reader = "none" /\ attempts < MaxRetries
    /\ \/ /\ ws' = "open" /\ reader' = "running" /\ closed' = FALSE
          /\ UNCHANGED attempts
       \/ attempts' = attempts + 1 /\ UNCHANGED <<ws, reader, closed>>
    /\ UNCHANGED <<loop, closer, callVars, subVars, msgVars, listener>>

\* The transport dies.  Nothing of the client changes until the reader sees it.
LoseLink ==
    /\ ws = "open" /\ closer # "done"
    /\ ws' = "lost" /\ wire' = <<>> /\ routed' = FALSE /\ asked' = {}
    /\ UNCHANGED <<loop, attempts, reader, closed, closer, pc, kind, fut, pend,
                   chan, msgVars, listener>>

\* _fail_pending_futures: wake every waiter with NMBConnectionError.
FailPending ==
    /\ fut' = [c \in Calls |-> IF c \in pend /\ fut[c] = "pending"
                               THEN "error" ELSE fut[c]]
    /\ pend' = {}

\* The reader leaves its loop, on connection loss or cancelled by close().
ReaderEnds ==
    /\ Running /\ reader = "running"
    /\ ws = "lost" \/ closer = "cancelled"
    /\ reader' = "ended"
    /\ FailPending
    /\ UNCHANGED <<loop, attempts, ws, closed, closer, pc, kind, asked,
                   subVars, msgVars, listener>>

\* close() up to its await of the cancelled reader, if that is still running.
CloseBegins ==
    /\ Running /\ closer = "idle" /\ reader # "none"
    /\ closed' = TRUE /\ closer' = "cancelled"
    /\ UNCHANGED <<loop, attempts, ws, reader, callVars, subVars, msgVars, listener>>

\* The reader is gone; the close frame is written and the socket goes down.
CloseSocket ==
    /\ Running /\ closer = "cancelled" /\ reader = "ended"
    /\ closer' = "closing" /\ ws' = "lost"
    /\ wire' = <<>> /\ routed' = FALSE /\ asked' = {}
    /\ UNCHANGED <<loop, attempts, reader, closed, pc, kind, fut, pend, chan,
                   msgVars, listener>>

\* A seeded fault: close() relies on the reader's finally block alone.
CloseEndsTrusting ==
    /\ Running /\ closer = "closing"
    /\ closer' = "done" /\ ws' = "none"
    /\ UNCHANGED <<loop, attempts, reader, closed, callVars, subVars,
                   msgVars, listener>>

\* ws.close() returned: _ws = None and the futures registered meanwhile fail.
CloseEnds ==
    /\ Running /\ closer = "closing"
    /\ closer' = "done" /\ ws' = "none"
    /\ FailPending
    /\ UNCHANGED <<loop, attempts, reader, closed, pc, kind, asked, subVars,
                   msgVars, listener>>

\* sync.close() stops the loop after the asynchronous close().
StopLoop ==
    /\ Running /\ closer = "done"
    /\ loop' = "stopped"
    /\ UNCHANGED <<connVars, callVars, subVars, msgVars, listener>>

-----------------------------------------------------------------------------
(* Calls.                                                                  *)

\* A seeded fault: every leaving subscriber sends UNSUBSCRIBE.
UnsubscribeAlways(c) ==
    /\ chan' = chan \ {c}
    /\ wire' = IF ws = "open" THEN Append(wire, Unsub) ELSE wire
    /\ UNCHANGED routed

\* subscribe()'s finally block: the queue goes and, with the channel's last
\* queue, the broker is told (a dead connection swallows that frame).
Unsubscribe(c) ==
    /\ chan' = chan \ {c}
    /\ wire' = IF chan' = {} /\ ws = "open" THEN Append(wire, Unsub) ELSE wire
    /\ UNCHANGED routed

\* Call c returns or raises: its future is garbage (an entry that is still in
\* the tables resolves nothing any more) and so is a subscriber's queue, whose
\* finally block runs.
Ends(c, how) ==
    /\ pc' = [pc EXCEPT ![c] = how]
    /\ kind' = [kind EXCEPT ![c] = IF @ = "request" THEN @ ELSE "none"]
    /\ fut' = [fut EXCEPT ![c] = "none"]
    /\ IF kind[c] = "subscribe"
       THEN /\ Unsubscribe(c)
            /\ queue' = [queue EXCEPT ![c] = <<>>]
            /\ put' = [put EXCEPT ![c] = 0] /\ got' = [got EXCEPT ![c] = 0]
            /\ UNCHANGED frames
       ELSE UNCHANGED <<subVars, msgVars>>

\* The call registers its future and writes its frame.  Without a socket, or
\* with a dead one, the write raises and the entry is left behind.  After
\* sync.close() there is no client left to register with.
Begin(c) ==
    /\ pc[c] = "idle" /\ reader # "none"
    /\ pend' = IF Running THEN pend \cup {c} ELSE pend
    /\ \E k \in {"ack", "request", "subscribe"} :
         LET sent == ws = "open"
         IN  /\ kind' = [kind EXCEPT ![c] = IF sent THEN k ELSE "none"]
             /\ pc' = [pc EXCEPT ![c] = IF sent THEN "sending" ELSE "over"]
             /\ fut' = [fut EXCEPT ![c] = IF sent THEN "pending" ELSE "none"]
             /\ asked' = IF sent /\ k # "subscribe" THEN asked \cup {c} ELSE asked
             /\ chan' = IF sent /\ k = "subscribe" THEN chan \cup {c} ELSE chan
             /\ wire' = IF sent /\ k = "subscribe" THEN Append(wire, c) ELSE wire
    /\ UNCHANGED <<loop, connVars, routed, msgVars, listener>>

\* reply() and the chunks of stream() are written, or raise on a dead connection;
\* they register nothing and await no answer.
Post(c) ==
    /\ pc[c] = "idle" /\ reader # "none"
    /\ pc' = [pc EXCEPT ![c] = "over"]
    /\ UNCHANGED <<loop, connVars, kind, fut, pend, asked, subVars, msgVars, listener>>

\* The socket's send returns, or finds a dead connection.
SendReturns(c) ==
    /\ Running /\ pc[c] = "sending"
    /\ \/ /\ pc' = [pc EXCEPT ![c] = "waiting"]
          /\ UNCHANGED <<kind, fut, subVars, msgVars>>
       \/ ws # "open" /\ Ends(c, "over")
    /\ UNCHANGED <<loop, connVars, pend, asked, listener>>

\* wait_for returns the future's outcome; a subscriber starts to iterate,
\* unless the client was closed meanwhile.
Awaits(c) ==
    /\ Running /\ pc[c] = "waiting" /\ fut[c] \in {"ok", "error"}
    /\ IF kind[c] = "subscribe" /\ fut[c] = "ok" /\ ~closed
       THEN /\ pc' = [pc EXCEPT ![c] = "getting"]
            /\ UNCHANGED <<kind, fut, subVars, msgVars>>
       ELSE Ends(c, "over")
    /\ UNCHANGED <<loop, connVars, pend, asked, listener>>

\* Seeded faults: the expired entry stays in the table; acknowledgements are
\* awaited without a timer.
TimeoutKeepsEntry(c) ==
    /\ Running /\ pc[c] = "waiting"
    /\ Ends(c, "over")
    /\ UNCHANGED <<loop, connVars, pend, asked, listener>>
TimeoutOfRequests(c) ==
    /\ Running /\ pc[c] = "waiting" /\ kind[c] = "request"
    /\ pend' = pend \ {c}
    /\ Ends(c, "over")
    /\ UNCHANGED <<loop, connVars, asked, listener>>

\* wait_for's timer fires first, possibly on a future that is just resolved.
Timeout(c) ==
    /\ Running /\ pc[c] = "waiting"
    /\ pend' = pend \ {c}
    /\ Ends(c, "over")
    /\ UNCHANGED <<loop, connVars, asked, listener>>

\* The task that made the call is cancelled; only TimeoutError pops the entry.
CancelCall(c) ==
    /\ Running /\ pc[c] \in {"sending", "waiting"}
    /\ Ends(c, "cancelled")
    /\ UNCHANGED <<loop, connVars, pend, asked, listener>>

-----------------------------------------------------------------------------
(* The broker, external to this module, and the reader's dispatch.         *)

\* The broker takes the oldest SUBSCRIBE or UNSUBSCRIBE; a rate-limited one
\* changes nothing there and is answered with an error.
BrokerTakes ==
    /\ ws = "open" /\ wire # <<>>
    /\ wire' = Tail(wire)
    /\ IF Head(wire) = Unsub
       THEN routed' \in {FALSE, routed} /\ UNCHANGED <<asked, fut, pend>>
       ELSE \/ /\ routed' = TRUE /\ asked' = asked \cup {Head(wire)}
               /\ UNCHANGED <<fut, pend>>
            \/ /\ Running /\ reader = "running" /\ UNCHANGED <<routed, asked>>
               /\ fut' = [fut EXCEPT ![Head(wire)] =
                            IF Head(wire) \in pend /\ @ = "pending" THEN "error" ELSE @]
               /\ pend' = pend \ {Head(wire)}
    /\ UNCHANGED <<loop, connVars, pc, kind, chan, msgVars, listener>>

\* A seeded fault: a full queue refuses the new message.
PutOrRefuse(s, n) == IF Len(s) = QueueSize THEN s ELSE Append(s, n)

\* _put_or_drop_oldest.
PutOrDropOldest(s, n) == Append(IF Len(s) = QueueSize THEN Tail(s) ELSE s, n)

\* A message goes into every queue of qs.
PutAll(qs) ==
    /\ frames < MaxFrames /\ frames' = frames + 1
    /\ put' = [q \in Queues |-> put[q] + IF q \in qs THEN 1 ELSE 0]
    /\ queue' = [q \in Queues |-> IF q \in qs THEN PutOrDropOldest(queue[q], put'[q])
                                  ELSE queue[q]]
    /\ UNCHANGED got

\* The answer to call c: _dispatch_ack, _error, _timeout, or a reply.  It
\* resolves the future if the entry is still there; a reply nobody awaits any
\* more is an ordinary message for listen().
Answer(c) ==
    /\ Running /\ reader = "running" /\ ws = "open" /\ c \in asked
    /\ asked' = asked \ {c} /\ pend' = pend \ {c}
    /\ \E a \in {"ok", "error"} :
         /\ fut' = [fut EXCEPT ![c] = IF c \in pend /\ @ = "pending" THEN a ELSE @]
         /\ IF a = "ok" /\ kind[c] = "request" /\ c \notin pend
            THEN PutAll({Listen}) ELSE UNCHANGED msgVars
    /\ UNCHANGED <<loop, connVars, pc, kind, subVars, listener>>

\* _dispatch_deliver of a message: to the channel's queues, if it has any
\* here, and to the listen queue otherwise.
Deliver ==
    /\ Running /\ reader = "running" /\ ws = "open"
    /\ \/ PutAll({Listen})
       \/ routed /\ PutAll(IF chan = {} THEN {Listen} ELSE chan)
    /\ UNCHANGED <<loop, connVars, callVars, subVars, listener>>

-----------------------------------------------------------------------------
(* The iterators.                                                          *)

Take(q) ==
    /\ queue[q] # <<>>
    /\ queue' = [queue EXCEPT ![q] = Tail(@)]
    /\ got' = [got EXCEPT ![q] = Head(queue[q])]
    /\ UNCHANGED <<put, frames>>

\* subscribe(): queue.get() and the loop's test of _closed.
SubscriberTakes(c) ==
    /\ Running /\ pc[c] = "getting"
    /\ IF closed THEN queue[c] # <<>> /\ Ends(c, "over")
                 ELSE Take(c) /\ UNCHANGED <<pc, kind, fut, subVars>>
    /\ UNCHANGED <<loop, connVars, pend, asked, listener>>

\* The consumer leaves the iteration.
SubscriberLeaves(c) ==
    /\ Running /\ pc[c] = "getting"
    /\ Ends(c, "over")
    /\ UNCHANGED <<loop, connVars, pend, asked, listener>>

ListenBegins ==
    /\ Running /\ listener = "off" /\ reader # "none" /\ ~closed
    /\ listener' = "polling"
    /\ UNCHANGED <<loop, connVars, callVars, subVars, msgVars>>

\* A message or the poll's timeout, then the loop's test of _closed.
ListenPolls ==
    /\ Running /\ listener = "polling"
    /\ Take(Listen) \/ (queue[Listen] = <<>> /\ UNCHANGED msgVars)
    /\ listener' = IF closed THEN "stopped" ELSE "polling"
    /\ UNCHANGED <<loop, connVars, callVars, subVars>>

CallStep(c) == SendReturns(c) \/ Awaits(c) \/ Timeout(c)

Next ==
    \/ Connect \/ LoseLink \/ ReaderEnds
    \/ CloseBegins \/ CloseSocket \/ CloseEnds \/ StopLoop
    \/ \E c \in Calls : Begin(c) \/ Post(c) \/ CallStep(c) \/ CancelCall(c) \/ Answer(c)
    \/ BrokerTakes \/ Deliver
    \/ \E c \in Calls : SubscriberTakes(c) \/ SubscriberLeaves(c)
    \/ ListenBegins \/ ListenPolls

Spec == Init /\ [][Next]_vars

(* The event loop runs every coroutine that can move, and timers fire.     *)
(* Nothing makes the broker answer, the link fail or the client close.     *)
Fairness ==
    /\ WF_vars(ReaderEnds) /\ WF_vars(CloseSocket) /\ WF_vars(CloseEnds)
    /\ \A c \in Calls : WF_vars(CallStep(c)) /\ WF_vars(SubscriberTakes(c))
    /\ WF_vars(ListenPolls)

FairSpec == Spec /\ Fairness

-----------------------------------------------------------------------------
(* Properties.                                                             *)

(* Once the reader is gone and no close() is half way, no call waits on a  *)
(* future nobody will resolve: both the reader's finally block and the end *)
(* of close() fail what is pending, and a call that registers between the  *)
(* two is caught by the second.                                            *)
NobodyWaitsInVain ==
    reader = "ended" /\ closer \in {"idle", "done"} =>
        \A c \in Calls : ~(pc[c] = "waiting" /\ fut[c] = "pending")

(* While the connection is up, an entry of the two tables whose call is    *)
(* over can only be that of a cancelled task: answers and timeouts remove  *)
(* theirs, so the tables do not grow with the traffic.                     *)
OnlyCancelledLeak ==
    ws = "open" /\ ~closed =>
        \A c \in pend : pc[c] \in {"sending", "waiting", "cancelled"}

(* Subscribers of one channel come and go independently, but an iterating  *)
(* subscriber is never cut off by another's UNSUBSCRIBE: when the frames   *)
(* under way have arrived, the broker routes the channel to this client.   *)
RoutedWhileSubscribed ==
    ws = "open" /\ wire = <<>> /\ (\E c \in Calls : pc[c] = "getting") => routed

(* A consumer sees the messages of its queue in order and without repeats, *)
(* and misses one only if QueueSize newer ones arrived before it came back:*)
(* the bounded queues drop the oldest, never the newest.                   *)
MissedOnlyIfOvertaken ==
    \A q \in Queues :
        /\ \A i \in 1..Len(queue[q]) : queue[q][i] = put[q] - Len(queue[q]) + i
        /\ got[q] < put[q] - Len(queue[q]) => Len(queue[q]) = QueueSize
        /\ got[q] <= put[q] - Len(queue[q])

(* A call on the asynchronous client always returns or raises: its answer, *)
(* the loss of the connection, close() or its own timer ends it.  And      *)
(* close() stops listen(): the poll notices _closed although no message    *)
(* comes any more.  Each call is made once, so all of them end if and only *)
(* if none is under way in the end.                                        *)
EveryCallEnds ==
    <>[](Running => /\ \A c \in Calls : pc[c] \notin {"sending", "waiting"}
                    /\ ~(closed /\ listener = "polling"))

(* "Signal the receive loop and iterators (listen/subscribe) to stop."     *)
(* (nmb/client.py, close).  A subscriber that waits on an empty queue is   *)
(* never woken, and in the blocking client neither is listen().            *)
CloseStopsIterators ==
    /\ \A c \in Calls : (closed /\ pc[c] = "getting") ~> pc[c] \in Over
    /\ (closed /\ listener = "polling") ~> listener = "stopped"
=============================================================================
