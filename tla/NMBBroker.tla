------------------------------ MODULE NMBBroker ------------------------------
(***************************************************************************)
(* The NemoClaw Message Bus broker (nmb/broker.py): one asyncio process    *)
(* that registers sandboxes by their X-Sandbox-ID, routes frames between   *)
(* them, correlates replies with requests and expires unanswered requests. *)
(*                                                                         *)
(* asyncio runs one coroutine at a time, so the code between two awaits is *)
(* one action.  The tasks that interleave are the handler of every         *)
(* accepted WebSocket (it reads one frame, runs its _handle_* coroutine to *)
(* completion, then reads the next) and the timeout task of every request. *)
(* pc[c] is the await the handler of connection c is suspended at:         *)
(*   "recv"      the `async for raw_frame in websocket' of _handler        *)
(*   "deliver"   `await target_ws.send(...)' to the socket in peers[c]     *)
(*   "fanout"    the gather of _handle_publish, to the sockets in peers[c] *)
(*   "respond"   _send_ack / _send_error of answer[c] on its own socket    *)
(*   "shutdown"  the system broadcast at the end of _unregister            *)
(*                                                                         *)
(* A dict entry that is absent and one that is an empty set or 0 are the   *)
(* same value here: the code reads both through .get(key, default).        *)
(* Message ids are uuid4 values, so a request id is issued once.           *)
(***************************************************************************)
EXTENDS Integers, FiniteSets

CONSTANTS
  Conns,       \* WebSocket connections the server accepts, over all time
  Sandboxes,   \* the X-Sandbox-ID values; a reconnecting client reuses its own
  Channels,    \* pub/sub channel names
  System,      \* the "system" channel of _broadcast_system
  Requests,    \* ids of the request messages
  MaxPending,  \* config.max_pending_per_sandbox
  MaxChannels, \* config.max_channels_per_sandbox
  ClientOps,   \* the operations the clients of this instance use
  NoConn, NoSandbox, NoRequest

Ops == {"send", "stream", "request", "reply", "subscribe", "unsubscribe",
        "publish", "invalid"}

ASSUME BrokerConstants ==
  /\ IsFiniteSet(Requests)
  /\ IsFiniteSet(Channels)
  /\ System \in Channels
  /\ MaxPending \in Nat \ {0}
  /\ MaxChannels \in Nat \ {0}
  /\ ClientOps \subseteq Ops
  /\ NoConn \notin Conns
  /\ NoSandbox \notin Sandboxes
  /\ NoRequest \notin Requests

VARIABLES
  ws,               \* transport of each connection: "new", "open", "closed"
  sid,              \* the sandbox id given at the handshake
  connections,      \* _connections
  channels,         \* _channels
  sandbox_channels, \* _sandbox_channels
  pending,          \* _pending: the from_sandbox of each tracked request
  pending_counts,   \* _pending_counts
  timer,            \* timeout task of a request: "off", "armed", "sending"
  timer_ws,         \* the socket a "sending" timeout task writes to
  pc, op, req, answer, peers,     \* the suspended handler of each connection
  lifecycle,        \* "running", "closing" (inside stop()), "stopped"
  rejected,         \* history: connections _register turned away
  issuer,           \* history: the connection that issued each request
  got,              \* history: frames written to the requester, per request
  audit_insert,     \* history: status of the request's audit INSERT, or "none"
  audit_timeout     \* history: requests whose TIMEOUT update was enqueued

registry == <<connections, channels, sandbox_channels>>
tracking == <<pending, pending_counts, timer, timer_ws>>
handlers == <<pc, op, req, answer, peers>>
history  == <<rejected, issuer, got, audit_insert, audit_timeout>>
vars     == <<ws, sid, registry, tracking, handlers, lifecycle, history>>

Answers  == {"ack", "offline", "rate_limited", "invalid", "channel_full"}
Outcomes == Answers \cup {"reply", "timeout"}
PCs      == {"none", "recv", "deliver", "fanout", "respond", "shutdown", "exited"}

ConnectionTypes ==
  /\ ws \in [Conns -> {"new", "open", "closed"}]
  /\ sid \in [Conns -> Sandboxes \cup {NoSandbox}]
  /\ lifecycle \in {"running", "closing", "stopped"}

RegistryTypes ==
  /\ connections \in [Sandboxes -> Conns \cup {NoConn}]
  /\ channels \in [Channels -> SUBSET Sandboxes]
  /\ sandbox_channels \in [Sandboxes -> SUBSET Channels]

TrackingTypes ==
  /\ pending \in [Requests -> Sandboxes \cup {NoSandbox}]
  /\ pending_counts \in [Sandboxes -> Nat]
  /\ timer \in [Requests -> {"off", "armed", "sending"}]
  /\ timer_ws \in [Requests -> Conns \cup {NoConn}]

HandlerTypes ==
  /\ pc \in [Conns -> PCs]
  /\ op \in [Conns -> Ops]
  /\ req \in [Conns -> Requests \cup {NoRequest}]
  /\ answer \in [Conns -> Answers]
  /\ peers \in [Conns -> SUBSET Conns]

HistoryTypes ==
  /\ rejected \subseteq Conns
  /\ issuer \in [Requests -> Conns \cup {NoConn}]
  /\ got \in [Requests -> SUBSET Outcomes]
  /\ audit_insert \in [Requests -> {"none", "delivered", "error"}]
  /\ audit_timeout \subseteq Requests

\* Every variable keeps its type; in particular the counts never go below 0.
TypeOK ==
  /\ ConnectionTypes
  /\ RegistryTypes
  /\ TrackingTypes
  /\ HandlerTypes
  /\ HistoryTypes

Init ==
  /\ ws = [c \in Conns |-> "new"]
  /\ sid = [c \in Conns |-> NoSandbox]
  /\ connections = [s \in Sandboxes |-> NoConn]
  /\ channels = [ch \in Channels |-> {}]
  /\ sandbox_channels = [s \in Sandboxes |-> {}]
  /\ pending = [r \in Requests |-> NoSandbox]
  /\ pending_counts = [s \in Sandboxes |-> 0]
  /\ timer = [r \in Requests |-> "off"]
  /\ timer_ws = [r \in Requests |-> NoConn]
  /\ pc = [c \in Conns |-> "none"]
  /\ op = [c \in Conns |-> "invalid"]
  /\ req = [c \in Conns |-> NoRequest]
  /\ answer = [c \in Conns |-> "ack"]
  /\ peers = [c \in Conns |-> {}]
  /\ lifecycle = "running"
  /\ rejected = {}
  /\ issuer = [r \in Requests |-> NoConn]
  /\ got = [r \in Requests |-> {}]
  /\ audit_insert = [r \in Requests |-> "none"]
  /\ audit_timeout = {}

PendingOf(s) == {r \in Requests : pending[r] = s}

-----------------------------------------------------------------------------
(* Connections *)

\* _process_request and the head of _handler: the upgrade carries a sandbox id
\* (a request without one is answered 400 and never reaches the handler), then
\* _register keeps the first connection of an id.  A second one is closed by a
\* background task while its handler already reads frames.
register(c, s) ==
  IF connections[s] = NoConn
  THEN /\ connections' = [connections EXCEPT ![s] = c]
       /\ UNCHANGED rejected
  ELSE /\ rejected' = rejected \cup {c}
       /\ UNCHANGED connections

Handshake(c, s) ==
  /\ lifecycle = "running"
  /\ ws[c] = "new"
  /\ ws' = [ws EXCEPT ![c] = "open"]
  /\ sid' = [sid EXCEPT ![c] = s]
  /\ pc' = [pc EXCEPT ![c] = "recv"]
  /\ register(c, s)
  /\ UNCHANGED <<channels, sandbox_channels, tracking, op, req, answer, peers,
                 lifecycle, issuer, got, audit_insert, audit_timeout>>

\* The transport goes away: the peer leaves, the link drops, keepalive gives up,
\* _reject closes a duplicate or stop() closes the server.
TransportCloses(c) ==
  /\ ws[c] = "open"
  /\ ws' = [ws EXCEPT ![c] = "closed"]
  /\ UNCHANGED <<sid, registry, tracking, handlers, lifecycle, history>>

\* Seeded faults: the entry popped but its timeout task left running; the entry
\* looked up instead of popped.
CancelPendingKeepsTimer(rs) ==
  /\ pending' = [r \in Requests |-> IF r \in rs THEN NoSandbox ELSE pending[r]]
  /\ UNCHANGED <<timer, timer_ws>>

CancelPendingPeeks(rs) == UNCHANGED <<pending, timer, timer_ws>>

\* Forget requests rs: pop them from _pending and cancel their timers.
CancelPending(rs) ==
  /\ pending' = [r \in Requests |-> IF r \in rs THEN NoSandbox ELSE pending[r]]
  /\ timer' = [r \in Requests |-> IF r \in rs THEN "off" ELSE timer[r]]
  /\ UNCHANGED timer_ws

\* Seeded fault: subscriptions and counts survive the disconnection.
CleanUpForgets(s) ==
  /\ connections' = [connections EXCEPT ![s] = NoConn]
  /\ CancelPending(PendingOf(s))
  /\ UNCHANGED <<channels, sandbox_channels, pending_counts>>

\* What _unregister cleans up when c is the registered connection of s.
CleanUp(s) ==
  /\ connections' = [connections EXCEPT ![s] = NoConn]
  /\ channels' = [ch \in Channels |->
                    IF ch \in sandbox_channels[s] THEN channels[ch] \ {s}
                    ELSE channels[ch]]
  /\ sandbox_channels' = [sandbox_channels EXCEPT ![s] = {}]
  /\ CancelPending(PendingOf(s))
  /\ pending_counts' = [pending_counts EXCEPT ![s] = 0]

\* The open sockets behind the subscribers of a channel, read in one step.
SubscriberSockets(chans, conns, ch, except) ==
  {conns[s] : s \in {t \in chans[ch] \ except : conns[t] # NoConn}}

\* Seeded fault: no stale-connection guard.
unregisterUnguarded(c) ==
  /\ CleanUp(sid[c])
  /\ pc' = [pc EXCEPT ![c] = "shutdown"]
  /\ peers' = [peers EXCEPT ![c] =
                 SubscriberSockets(channels', connections', System, {})]

\* The handler's read loop ends and its finally block runs _unregister; a
\* connection that is not the registered one of its id cleans up nothing.
unregister(c) ==
  IF connections[sid[c]] # c
  THEN /\ pc' = [pc EXCEPT ![c] = "exited"]
       /\ UNCHANGED <<registry, tracking, peers>>
  ELSE /\ CleanUp(sid[c])
       /\ pc' = [pc EXCEPT ![c] = "shutdown"]
       /\ peers' = [peers EXCEPT ![c] =
                      SubscriberSockets(channels', connections', System, {})]

HandlerLeaves(c) ==
  /\ pc[c] = "recv"
  /\ ws[c] = "closed"
  /\ unregister(c)
  /\ UNCHANGED <<ws, sid, op, req, answer, lifecycle, history>>

-----------------------------------------------------------------------------
(* Dispatch.  Frames buffered before the close are still read after it.    *)

Receives(c, o) ==
  /\ o \in ClientOps
  /\ pc[c] = "recv"
  /\ UNCHANGED <<ws, sid, lifecycle, rejected, audit_insert, audit_timeout>>

\* Handler c suspends at p while processing operation o on request r, about to
\* answer a or sending to the sockets ds.
Suspend(c, p, o, r, a, ds) ==
  /\ pc' = [pc EXCEPT ![c] = p]
  /\ op' = [op EXCEPT ![c] = o]
  /\ req' = [req EXCEPT ![c] = r]
  /\ answer' = [answer EXCEPT ![c] = a]
  /\ peers' = [peers EXCEPT ![c] = ds]

Respond(c, o, r, a)      == Suspend(c, "respond", o, r, a, {})
Deliver(c, o, r, target) == Suspend(c, "deliver", o, r, "ack", {target})
ReadNext(c)              == Suspend(c, "recv", "invalid", NoRequest, "ack", {})

\* Unparsable JSON, a missing field, or an op only the broker may send.
InvalidFrame(c) ==
  /\ Receives(c, "invalid")
  /\ Respond(c, "invalid", NoRequest, "invalid")
  /\ UNCHANGED <<registry, tracking, issuer, got>>

\* _handle_send and _handle_stream: the target's socket is looked up once.
route(c, o, to) ==
  /\ Receives(c, o)
  /\ IF connections[to] = NoConn
     THEN Respond(c, o, NoRequest, "offline")
     ELSE Deliver(c, o, NoRequest, connections[to])
  /\ UNCHANGED <<registry, tracking, issuer, got>>

HandleSend(c, to)   == route(c, "send", to)
HandleStream(c, to) == route(c, "stream", to)

\* _handle_request: the limit, the target, then tracking before delivery.
HandleRequest(c, r, to) ==
  /\ Receives(c, "request")
  /\ issuer[r] = NoConn
  /\ issuer' = [issuer EXCEPT ![r] = c]
  /\ IF pending_counts[sid[c]] >= MaxPending
     THEN Respond(c, "request", r, "rate_limited") /\ UNCHANGED tracking
     ELSE IF connections[to] = NoConn
     THEN Respond(c, "request", r, "offline") /\ UNCHANGED tracking
     ELSE /\ pending' = [pending EXCEPT ![r] = sid[c]]
          /\ timer' = [timer EXCEPT ![r] = "armed"]
          /\ pending_counts' = [pending_counts EXCEPT ![sid[c]] = @ + 1]
          /\ Deliver(c, "request", r, connections[to])
          /\ UNCHANGED timer_ws
  /\ UNCHANGED <<registry, got>>

\* Seeded faults: no floor; no decrement.
DecrementedNoFloor(n) == n - 1
DecrementedNever(n)   == n

\* max(0, _pending_counts.get(s, 1) - 1)
Decremented(n) == IF n = 0 THEN 0 ELSE n - 1

\* _handle_reply: pops the request, whoever the replier is.
HandleReply(c, r) ==
  /\ Receives(c, "reply")
  /\ LET s == pending[r] IN
     IF s = NoSandbox
     THEN Respond(c, "reply", r, "invalid") /\ UNCHANGED tracking
     ELSE /\ CancelPending({r})
          /\ pending_counts' = [pending_counts EXCEPT ![s] = Decremented(@)]
          /\ IF connections[s] = NoConn
             THEN ReadNext(c)
             ELSE Deliver(c, "reply", r, connections[s])
  /\ UNCHANGED <<registry, issuer, got>>

\* _handle_subscribe: the limit applies even to a channel already subscribed.
HandleSubscribe(c, ch) ==
  /\ Receives(c, "subscribe")
  /\ LET s == sid[c] IN
     IF Cardinality(sandbox_channels[s]) >= MaxChannels
     THEN /\ Respond(c, "subscribe", NoRequest, "channel_full")
          /\ UNCHANGED registry
     ELSE /\ channels' = [channels EXCEPT ![ch] = @ \cup {s}]
          /\ sandbox_channels' = [sandbox_channels EXCEPT ![s] = @ \cup {ch}]
          /\ Respond(c, "subscribe", NoRequest, "ack")
          /\ UNCHANGED connections
  /\ UNCHANGED <<tracking, issuer, got>>

\* Seeded fault: the reverse mapping keeps the channel.
HandleUnsubscribeOneSided(c, ch) ==
  /\ Receives(c, "unsubscribe")
  /\ channels' = [channels EXCEPT ![ch] = @ \ {sid[c]}]
  /\ Respond(c, "unsubscribe", NoRequest, "ack")
  /\ UNCHANGED <<connections, sandbox_channels, tracking, issuer, got>>

\* _handle_unsubscribe: both sides of the mapping, subscribed or not.
HandleUnsubscribe(c, ch) ==
  /\ Receives(c, "unsubscribe")
  /\ channels' = [channels EXCEPT ![ch] = @ \ {sid[c]}]
  /\ sandbox_channels' = [sandbox_channels EXCEPT ![sid[c]] = @ \ {ch}]
  /\ Respond(c, "unsubscribe", NoRequest, "ack")
  /\ UNCHANGED <<connections, tracking, issuer, got>>

\* _handle_publish: the subscribers are snapshot, the publisher left out; with
\* nobody to send to there is no gather to wait for.
HandlePublish(c, ch) ==
  /\ Receives(c, "publish")
  /\ LET targets == SubscriberSockets(channels, connections, ch, {sid[c]}) IN
     IF targets = {}
     THEN Respond(c, "publish", NoRequest, "ack")
     ELSE Suspend(c, "fanout", "publish", NoRequest, "ack", targets)
  /\ UNCHANGED <<registry, tracking, issuer, got>>

-----------------------------------------------------------------------------
(* What happens after the awaits *)

\* `await target_ws.send' returns: the frame is on the target's open socket.
Delivered(c) ==
  /\ pc[c] = "deliver"
  /\ \E d \in peers[c] : ws[d] = "open"
  /\ \/ /\ op[c] \in {"send", "request"}
        /\ Respond(c, op[c], req[c], "ack")
        /\ UNCHANGED got
     \/ /\ op[c] = "stream"
        /\ ReadNext(c)
        /\ UNCHANGED got
     \/ /\ op[c] = "reply"
        /\ ReadNext(c)
        /\ got' = [got EXCEPT ![req[c]] = @ \cup {"reply"}]
  /\ UNCHANGED <<ws, sid, registry, tracking, lifecycle, rejected, issuer,
                 audit_insert, audit_timeout>>

\* The rollback of _handle_request: pop, cancel, decrement, whether or not the
\* timeout task or a reply got to the entry first.  A timeout task cancelled
\* inside its own send may or may not have written its frame.
RollBack(r, s) ==
  /\ pending' = [pending EXCEPT ![r] = NoSandbox]
  /\ timer' = [timer EXCEPT ![r] = "off"]
  /\ timer_ws' = [timer_ws EXCEPT ![r] = NoConn]
  /\ pending_counts' = [pending_counts EXCEPT ![s] = Decremented(@)]
  /\ \/ UNCHANGED got
     \/ /\ timer[r] = "sending"
        /\ ws[timer_ws[r]] = "open"
        /\ got' = [got EXCEPT ![r] = @ \cup {"timeout"}]

\* `await target_ws.send' raises ConnectionClosed.
DeliveryFails(c) ==
  /\ pc[c] = "deliver"
  /\ \E d \in peers[c] : ws[d] = "closed"
  /\ \/ /\ op[c] \in {"send", "stream"}
        /\ Respond(c, op[c], req[c], "offline")
        /\ UNCHANGED <<tracking, got>>
     \/ /\ op[c] = "request"
        /\ RollBack(req[c], sid[c])
        /\ Respond(c, op[c], req[c], "offline")
     \/ /\ op[c] = "reply"
        /\ ReadNext(c)
        /\ UNCHANGED <<tracking, got>>
  /\ UNCHANGED <<ws, sid, registry, lifecycle, rejected, issuer, audit_insert,
                 audit_timeout>>

\* _send_ack / _send_error: a closed socket is ignored, then the message is
\* audited (rate-limited and malformed frames are not).
Responded(c) ==
  /\ pc[c] = "respond"
  /\ ReadNext(c)
  /\ got' = IF op[c] = "request" /\ ws[c] = "open"
            THEN [got EXCEPT ![req[c]] = @ \cup {answer[c]}] ELSE got
  /\ audit_insert' =
       IF op[c] = "request" /\ answer[c] \in {"ack", "offline"}
       THEN [audit_insert EXCEPT ![req[c]] =
               IF answer[c] = "ack" THEN "delivered" ELSE "error"]
       ELSE audit_insert
  /\ UNCHANGED <<ws, sid, registry, tracking, lifecycle, rejected, issuer,
                 audit_timeout>>

\* Every _safe_send of a gather has returned: written, timed out or closed.
GatherDone(c) ==
  /\ \/ /\ pc[c] = "fanout"
        /\ Respond(c, "publish", NoRequest, "ack")
     \/ /\ pc[c] = "shutdown"
        /\ Suspend(c, "exited", "invalid", NoRequest, "ack", {})
  /\ UNCHANGED <<ws, sid, registry, tracking, lifecycle, history>>

-----------------------------------------------------------------------------
(* Timeout tasks and shutdown *)

\* Seeded fault: the request expires without a TIMEOUT frame.
TimerFiresSilently(r) ==
  /\ timer[r] = "armed"
  /\ pending[r] # NoSandbox
  /\ timer' = [timer EXCEPT ![r] = "off"]
  /\ pending' = [pending EXCEPT ![r] = NoSandbox]
  /\ pending_counts' = [pending_counts EXCEPT ![pending[r]] = Decremented(@)]
  /\ audit_timeout' = audit_timeout \cup {r}
  /\ UNCHANGED <<ws, sid, registry, timer_ws, handlers, lifecycle, rejected,
                 issuer, got, audit_insert>>

\* _timeout_request after its sleep: pop the request or do nothing.
TimerFires(r) ==
  /\ timer[r] = "armed"
  /\ LET s == pending[r] IN
     IF s = NoSandbox
     THEN /\ timer' = [timer EXCEPT ![r] = "off"]
          /\ UNCHANGED <<pending, pending_counts, timer_ws, audit_timeout>>
     ELSE /\ pending' = [pending EXCEPT ![r] = NoSandbox]
          /\ pending_counts' = [pending_counts EXCEPT ![s] = Decremented(@)]
          /\ IF connections[s] = NoConn
             THEN /\ timer' = [timer EXCEPT ![r] = "off"]
                  /\ audit_timeout' = audit_timeout \cup {r}
                  /\ UNCHANGED timer_ws
             ELSE /\ timer' = [timer EXCEPT ![r] = "sending"]
                  /\ timer_ws' = [timer_ws EXCEPT ![r] = connections[s]]
                  /\ UNCHANGED audit_timeout
  /\ UNCHANGED <<ws, sid, registry, handlers, lifecycle, rejected, issuer, got,
                 audit_insert>>

\* The TIMEOUT frame is written, or its socket is closed; then the audit update.
TimeoutSent(r) ==
  /\ timer[r] = "sending"
  /\ timer' = [timer EXCEPT ![r] = "off"]
  /\ got' = IF ws[timer_ws[r]] = "open"
            THEN [got EXCEPT ![r] = @ \cup {"timeout"}] ELSE got
  /\ audit_timeout' = audit_timeout \cup {r}
  /\ timer_ws' = [timer_ws EXCEPT ![r] = NoConn]
  /\ UNCHANGED <<ws, sid, registry, pending, pending_counts, handlers,
                 lifecycle, rejected, issuer, audit_insert>>

\* stop(): server.close() refuses new connections and closes the others, ...
StopBegins ==
  /\ lifecycle = "running"
  /\ lifecycle' = "closing"
  /\ UNCHANGED <<ws, sid, registry, tracking, handlers, history>>

\* ... wait_closed() returns once every handler has, and what is left of
\* _pending is cancelled.
StopEnds ==
  /\ lifecycle = "closing"
  /\ \A c \in Conns : pc[c] \in {"none", "exited"}
  /\ lifecycle' = "stopped"
  /\ CancelPending({r \in Requests : pending[r] # NoSandbox})
  /\ UNCHANGED <<ws, sid, registry, pending_counts, handlers, history>>

-----------------------------------------------------------------------------
Dispatch(c) ==
  \/ InvalidFrame(c)
  \/ \E to \in Sandboxes : HandleSend(c, to)
  \/ \E to \in Sandboxes : HandleStream(c, to)
  \/ \E r \in Requests, to \in Sandboxes : HandleRequest(c, r, to)
  \/ \E r \in Requests : HandleReply(c, r)
  \/ \E ch \in Channels : HandleSubscribe(c, ch)
  \/ \E ch \in Channels : HandleUnsubscribe(c, ch)
  \/ \E ch \in Channels : HandlePublish(c, ch)

\* The steps the event loop owes connection c once a socket is ready.
Progress(c) ==
  Delivered(c) \/ DeliveryFails(c) \/ Responded(c) \/ GatherDone(c)

\* The stopped broker: nothing is left to do.
Stopped ==
  /\ lifecycle = "stopped"
  /\ \A r \in Requests : timer[r] # "sending"
  /\ UNCHANGED vars

Next ==
  \/ \E c \in Conns, s \in Sandboxes : Handshake(c, s)
  \/ \E c \in Conns : TransportCloses(c)
  \/ \E c \in Conns : HandlerLeaves(c)
  \/ \E c \in Conns : Dispatch(c)
  \/ \E c \in Conns : Progress(c)
  \/ \E r \in Requests : TimerFires(r)
  \/ \E r \in Requests : TimeoutSent(r)
  \/ StopBegins
  \/ StopEnds
  \/ Stopped

Spec == Init /\ [][Next]_vars

\* The event loop runs every ready task, sleeps end, and _reject closes the
\* duplicates.  Nothing makes clients send, leave or stay.
Fairness ==
  /\ \A c \in Conns : WF_vars(Progress(c))
  /\ \A c \in Conns : WF_vars(HandlerLeaves(c))
  /\ \A c \in Conns : WF_vars(c \in rejected /\ TransportCloses(c))
  /\ \A r \in Requests : WF_vars(TimerFires(r)) /\ WF_vars(TimeoutSent(r))

FairSpec == Spec /\ Fairness

-----------------------------------------------------------------------------
(* Properties *)

\* The two sides of the subscription mapping are each other's inverse: publish
\* reads _channels, _unregister and the limit read _sandbox_channels, and a
\* one-sided entry would deliver to, or count, a subscription nobody holds.
ChannelMapsAgree ==
  \A s \in Sandboxes, ch \in Channels :
    s \in channels[ch] <=> ch \in sandbox_channels[s]

\* _pending_counts never exceeds the requests really in flight, so a sandbox
\* whose requests were answered, expired or rolled back is not rate-limited for
\* them for ever, whichever of the paths that decrement the count ran.
\* (stop() clears _pending and leaves the counts, so a stopped broker is exempt.)
CountsNeverOverstate ==
  lifecycle # "stopped" =>
    \A s \in Sandboxes : pending_counts[s] <= Cardinality(PendingOf(s))

\* A tracked request has a running timeout task and a running task has a tracked
\* request: no request can stay in _pending for ever, no timer fires uselessly.
TimersMatchPending ==
  \A r \in Requests : timer[r] = "armed" <=> pending[r] # NoSandbox

\* A requester never receives both the reply to a request and its TIMEOUT,
\* though the replier's handler and the timeout task race for the entry.
NeverReplyAndTimeout ==
  \A r \in Requests : ~ ({"reply", "timeout"} \subseteq got[r])

\* Once a sandbox is not connected, nothing of it is left in the registries,
\* unless a rejected duplicate of it was still being read (see CleanedUp).
CleanedUpUnlessDuplicated ==
  \A s \in Sandboxes :
    \/ connections[s] # NoConn
    \/ \E c \in rejected : sid[c] = s
    \/ /\ sandbox_channels[s] = {}
       /\ PendingOf(s) = {}
       /\ pending_counts[s] = 0

\* Only the closing of its own socket unregisters a connection: a newcomer
\* with the same id neither replaces it nor, when it leaves, removes it.
ConnectionsNotDisplaced ==
  [][\A s \in Sandboxes :
       connections[s] # NoConn /\ connections'[s] # connections[s]
       => connections'[s] = NoConn /\ ws[connections[s]] = "closed"]_vars

\* A request is eventually answered: the requester's socket gets a reply, a
\* TIMEOUT or an error for it, or is closed first.
RequestAnswered ==
  \A r \in Requests, c \in Conns :
    issuer[r] = c ~>
      \/ got[r] \cap {"reply", "timeout", "offline", "rate_limited"} # {}
      \/ ws[c] = "closed"

\* The refinement mapping.  Requests in _pending are open; the handler that popped
\* one for a reply and the timeout task that popped it have decided it.
ReplyInFlight(r) == \E c \in Conns : pc[c] = "deliver" /\ op[c] = "reply" /\ req[c] = r

status ==
  [r \in Requests |->
     IF pending[r] # NoSandbox THEN "open"
     ELSE IF issuer[r] = NoConn THEN "new"
     ELSE IF ReplyInFlight(r) \/ "reply" \in got[r] THEN "replied"
     ELSE IF timer[r] = "sending" \/ "timeout" \in got[r] THEN "expired"
     ELSE "closed"]

frame ==
  [r \in Requests |->
     IF "reply" \in got[r] THEN "reply"
     ELSE IF "timeout" \in got[r] THEN "timeout" ELSE "none"]

Abstract == INSTANCE RequestReply

\* The broker keeps the promise of RequestReply: whatever interleaving of
\* handlers, timeout tasks, roll-backs and disconnections, a request is decided
\* once and settled, and only the frame of that decision is sent.
ImplementsRequestReply == Abstract!Promise

\* What config.BrokerConfig says of max_pending_per_sandbox: the maximum of
\* in-flight requests per sandbox.  (Stated for sandboxes with one connection at
\* a time; duplicates have a property of their own.)
PendingWithinLimit ==
  \A s \in Sandboxes :
    (\A c \in rejected : sid[c] # s) => Cardinality(PendingOf(s)) <= MaxPending

\* What _timeout_request says of its audit update: it changes the row that the
\* initial log_message recorded when the request was routed.
UpdateFollowsInsert ==
  \A r \in audit_timeout : audit_insert[r] # "none"

\* What _unregister says it does: clean up all state of a disconnected sandbox.
CleanedUp ==
  \A s \in Sandboxes :
    \/ connections[s] # NoConn
    \/ /\ sandbox_channels[s] = {}
       /\ PendingOf(s) = {}
       /\ pending_counts[s] = 0
=============================================================================
