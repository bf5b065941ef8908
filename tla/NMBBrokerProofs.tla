--------------------------- MODULE NMBBrokerProofs ---------------------------
(***************************************************************************)
(* Machine-checked proofs about NMBBroker, for any number of connections,  *)
(* sandboxes, channels and requests and any limits.                        *)
(***************************************************************************)
EXTENDS NMBBroker, FiniteSetTheorems, TLAPS

\* A handler that has started knows the sandbox id of its connection.
SidKnown == \A c \in Conns : pc[c] # "none" => sid[c] \in Sandboxes

TypeInv == TypeOK /\ SidKnown

LEMMA InitTypeInv == Init => TypeInv
BY BrokerConstants DEF Init, TypeInv, TypeOK, ConnectionTypes, RegistryTypes,
   TrackingTypes, HandlerTypes, HistoryTypes, SidKnown, PCs, Ops, Answers

\* Suspending a started handler keeps the handlers' types.
LEMMA SuspendTypes ==
  ASSUME HandlerTypes, SidKnown, NEW c \in Conns, pc[c] # "none",
         NEW p \in PCs, NEW o \in Ops, NEW r \in Requests \cup {NoRequest},
         NEW a \in Answers, NEW ds \in SUBSET Conns,
         Suspend(c, p, o, r, a, ds), sid' = sid
  PROVE  HandlerTypes' /\ SidKnown'
<1>1. HandlerTypes'
  BY DEF HandlerTypes, Suspend
<1>2. SidKnown'
  BY DEF SidKnown, HandlerTypes, Suspend
<1> QED
  BY <1>1, <1>2

LEMMA DispatchTypeInv ==
  ASSUME TypeInv, NEW c \in Conns, Dispatch(c)
  PROVE  TypeInv'
<1>0. /\ ConnectionTypes /\ RegistryTypes /\ TrackingTypes
      /\ HandlerTypes /\ HistoryTypes /\ SidKnown
  BY DEF TypeInv, TypeOK
<1>a. pc[c] = "recv" /\ sid[c] \in Sandboxes /\ sid' = sid /\ ConnectionTypes'
  BY <1>0 DEF Dispatch, InvalidFrame, HandleSend, HandleStream, route, HandleRequest,
     HandleReply, HandleSubscribe, HandleUnsubscribe, HandlePublish, Receives,
     SidKnown, ConnectionTypes
<1>b. ASSUME NEW p \in PCs, NEW o \in Ops, NEW r \in Requests \cup {NoRequest},
             NEW a \in Answers, NEW ds \in SUBSET Conns, Suspend(c, p, o, r, a, ds)
      PROVE  HandlerTypes' /\ SidKnown'
  BY <1>0, <1>a, <1>b, SuspendTypes
<1>r. ASSUME NEW o \in Ops, NEW r \in Requests \cup {NoRequest}, NEW a \in Answers,
             Respond(c, o, r, a)
      PROVE  HandlerTypes' /\ SidKnown'
  BY <1>b, <1>r DEF Respond, PCs
<1>d. ASSUME NEW o \in Ops, NEW r \in Requests \cup {NoRequest}, NEW d \in Conns,
             Deliver(c, o, r, d)
      PROVE  HandlerTypes' /\ SidKnown'
  BY <1>b, <1>d DEF Deliver, PCs, Answers
<1>n. ReadNext(c) => HandlerTypes' /\ SidKnown'
  BY <1>b DEF ReadNext, PCs, Ops, Answers
<1>s. ASSUME NEW ch \in Channels, NEW ex
      PROVE  SubscriberSockets(channels, connections, ch, ex) \in SUBSET Conns
  BY <1>0 DEF SubscriberSockets, RegistryTypes
<1>1. CASE InvalidFrame(c)
  <2>1. HandlerTypes' /\ SidKnown'
    BY <1>r, <1>1 DEF InvalidFrame, Ops, Answers
  <2> QED
    BY <2>1, <1>0, <1>a, <1>1 DEF InvalidFrame, Receives, registry, tracking, TypeInv,
       TypeOK, RegistryTypes, TrackingTypes, HistoryTypes
<1>2. ASSUME NEW to \in Sandboxes, NEW o \in {"send", "stream"}, route(c, o, to)
      PROVE TypeInv'
  <2>1. HandlerTypes' /\ SidKnown'
    BY <1>0, <1>r, <1>d, <1>2 DEF route, Ops, Answers, RegistryTypes
  <2> QED
    BY <2>1, <1>0, <1>a, <1>2 DEF route, Receives, registry, tracking, TypeInv,
       TypeOK, RegistryTypes, TrackingTypes, HistoryTypes
<1>3. ASSUME NEW r \in Requests, NEW to \in Sandboxes, HandleRequest(c, r, to)
      PROVE TypeInv'
  <2>1. HandlerTypes' /\ SidKnown'
    BY <1>0, <1>r, <1>d, <1>3 DEF HandleRequest, Ops, Answers, RegistryTypes
  <2>2. TrackingTypes'
    BY <1>0, <1>a, <1>3 DEF HandleRequest, tracking, TrackingTypes
  <2>3. HistoryTypes'
    BY <1>0, <1>3 DEF HandleRequest, Receives, HistoryTypes
  <2> QED
    BY <2>1, <2>2, <2>3, <1>0, <1>a, <1>3 DEF HandleRequest, registry, TypeInv, TypeOK,
       RegistryTypes
<1>4. ASSUME NEW r \in Requests, HandleReply(c, r) PROVE TypeInv'
  <2>1. HandlerTypes' /\ SidKnown'
    <3>1. CASE pending[r] = NoSandbox
      BY <1>r, <1>4, <3>1 DEF HandleReply, Ops, Answers
    <3>2. CASE pending[r] # NoSandbox /\ connections[pending[r]] = NoConn
      BY <1>n, <1>4, <3>2 DEF HandleReply
    <3>3. CASE pending[r] # NoSandbox /\ connections[pending[r]] # NoConn
      BY <1>0, <1>d, <1>4, <3>3 DEF HandleReply, Ops, RegistryTypes, TrackingTypes
    <3> QED
      BY <3>1, <3>2, <3>3
  <2>2. TrackingTypes'
    BY <1>0, <1>4 DEF HandleReply, CancelPending, Decremented, tracking, TrackingTypes
  <2>3. HistoryTypes'
    BY <1>0, <1>4 DEF HandleReply, Receives, HistoryTypes
  <2> QED
    BY <2>1, <2>2, <2>3, <1>0, <1>a, <1>4 DEF HandleReply, registry, TypeInv, TypeOK,
       RegistryTypes
<1>5. ASSUME NEW ch \in Channels, HandleSubscribe(c, ch) PROVE TypeInv'
  <2>1. HandlerTypes' /\ SidKnown'
    BY <1>r, <1>5 DEF HandleSubscribe, Ops, Answers
  <2>2. RegistryTypes'
    BY <1>0, <1>a, <1>5 DEF HandleSubscribe, registry, RegistryTypes
  <2> QED
    BY <2>1, <2>2, <1>0, <1>a, <1>5 DEF HandleSubscribe, Receives, tracking, TypeInv,
       TypeOK, TrackingTypes, HistoryTypes
<1>6. ASSUME NEW ch \in Channels, HandleUnsubscribe(c, ch) PROVE TypeInv'
  <2>1. HandlerTypes' /\ SidKnown'
    BY <1>r, <1>6 DEF HandleUnsubscribe, Ops, Answers
  <2>2. RegistryTypes'
    BY <1>0, <1>a, <1>6 DEF HandleUnsubscribe, RegistryTypes
  <2> QED
    BY <2>1, <2>2, <1>0, <1>a, <1>6 DEF HandleUnsubscribe, Receives, tracking, TypeInv,
       TypeOK, TrackingTypes, HistoryTypes
<1>7. ASSUME NEW ch \in Channels, HandlePublish(c, ch) PROVE TypeInv'
  <2>1. HandlerTypes' /\ SidKnown'
    BY <1>b, <1>r, <1>s, <1>7 DEF HandlePublish, PCs, Ops, Answers
  <2> QED
    BY <2>1, <1>0, <1>a, <1>7 DEF HandlePublish, Receives, registry, tracking, TypeInv,
       TypeOK, RegistryTypes, TrackingTypes, HistoryTypes
<1> QED
  BY <1>1, <1>2, <1>3, <1>4, <1>5, <1>6, <1>7 DEF Dispatch, HandleSend, HandleStream

LEMMA ProgressTypeInv ==
  ASSUME TypeInv, NEW c \in Conns, Progress(c)
  PROVE  TypeInv'
<1>0. /\ ConnectionTypes /\ RegistryTypes /\ TrackingTypes
      /\ HandlerTypes /\ HistoryTypes /\ SidKnown
  BY DEF TypeInv, TypeOK
<1>a. /\ pc[c] # "none" /\ sid' = sid
      /\ ConnectionTypes' /\ RegistryTypes'
  BY <1>0 DEF Progress, Delivered, DeliveryFails, Responded, GatherDone, registry,
     ConnectionTypes, RegistryTypes
<1>b. ASSUME NEW p \in PCs, NEW o \in Ops, NEW r \in Requests \cup {NoRequest},
             NEW a \in Answers, NEW ds \in SUBSET Conns, Suspend(c, p, o, r, a, ds)
      PROVE  HandlerTypes' /\ SidKnown'
  BY <1>0, <1>a, <1>b, SuspendTypes
<1>c. op[c] \in Ops /\ req[c] \in Requests \cup {NoRequest} /\ answer[c] \in Answers
  BY <1>0 DEF HandlerTypes
<1>r. ASSUME NEW o \in Ops, NEW r \in Requests \cup {NoRequest}, NEW a \in Answers,
             Respond(c, o, r, a)
      PROVE  HandlerTypes' /\ SidKnown'
  BY <1>b, <1>r DEF Respond, PCs
<1>n. ReadNext(c) => HandlerTypes' /\ SidKnown'
  BY <1>b DEF ReadNext, PCs, Ops, Answers
<1>1. CASE Delivered(c)
  <2>1. HandlerTypes' /\ SidKnown'
    BY <1>c, <1>n, <1>r, <1>1 DEF Delivered, Answers
  <2>2. HistoryTypes'
    BY <1>0, <1>1 DEF Delivered, HistoryTypes, Outcomes
  <2> QED
    BY <2>1, <2>2, <1>0, <1>a, <1>1 DEF Delivered, tracking, TypeInv, TypeOK, TrackingTypes
<1>2. CASE DeliveryFails(c)
  <2>1. HandlerTypes' /\ SidKnown'
    BY <1>c, <1>n, <1>r, <1>2 DEF DeliveryFails, Answers
  <2>2. HistoryTypes'
    BY <1>0, <1>2 DEF DeliveryFails, RollBack, HistoryTypes, Outcomes
  <2>3. TrackingTypes'
    BY <1>0, <1>2 DEF DeliveryFails, RollBack, Decremented, tracking, TrackingTypes
  <2> QED
    BY <2>1, <2>2, <2>3, <1>a DEF TypeInv, TypeOK
<1>3. CASE Responded(c)
  <2>1. HandlerTypes' /\ SidKnown'
    BY <1>n, <1>3 DEF Responded
  <2>2. HistoryTypes'
    BY <1>0, <1>c, <1>3 DEF Responded, HistoryTypes, Outcomes
  <2> QED
    BY <2>1, <2>2, <1>0, <1>a, <1>3 DEF Responded, tracking, TypeInv, TypeOK, TrackingTypes
<1>4. CASE GatherDone(c)
  <2>1. HandlerTypes' /\ SidKnown'
    <3>1. CASE Respond(c, "publish", NoRequest, "ack")
      BY <3>1, <1>r DEF Ops, Answers
    <3>2. CASE Suspend(c, "exited", "invalid", NoRequest, "ack", {})
      BY <3>2, <1>b DEF PCs, Ops, Answers
    <3> QED
      BY <3>1, <3>2, <1>4 DEF GatherDone
  <2> QED
    BY <2>1, <1>0, <1>a, <1>4 DEF GatherDone, tracking, history, TypeInv, TypeOK,
       TrackingTypes, HistoryTypes
<1> QED
  BY <1>1, <1>2, <1>3, <1>4 DEF Progress

LEMMA NextTypeInv == TypeInv /\ [Next]_vars => TypeInv'
<1> SUFFICES ASSUME TypeInv, [Next]_vars PROVE TypeInv'
  OBVIOUS
<1>0. /\ ConnectionTypes /\ RegistryTypes /\ TrackingTypes
      /\ HandlerTypes /\ HistoryTypes /\ SidKnown
  BY DEF TypeInv, TypeOK
<1> USE DEF registry, tracking, handlers, history
<1>1. ASSUME NEW c \in Conns, NEW s \in Sandboxes, Handshake(c, s) PROVE TypeInv'
  <2>1. ConnectionTypes' /\ RegistryTypes'
    BY <1>0, <1>1 DEF Handshake, register, ConnectionTypes, RegistryTypes
  <2>2. HandlerTypes' /\ SidKnown'
    BY <1>0, <1>1 DEF Handshake, ConnectionTypes, HandlerTypes, SidKnown, PCs
  <2>3. TrackingTypes' /\ HistoryTypes'
    BY <1>0, <1>1 DEF Handshake, register, TrackingTypes, HistoryTypes
  <2> QED
    BY <2>1, <2>2, <2>3 DEF TypeInv, TypeOK
<1>2. ASSUME NEW c \in Conns, TransportCloses(c) PROVE TypeInv'
  BY <1>0, <1>2 DEF TransportCloses, TypeInv, TypeOK, SidKnown, ConnectionTypes,
     RegistryTypes, TrackingTypes, HandlerTypes, HistoryTypes
<1>3. ASSUME NEW c \in Conns, HandlerLeaves(c) PROVE TypeInv'
  <2>0. sid[c] \in Sandboxes
    BY <1>0, <1>3 DEF HandlerLeaves, SidKnown
  <2>1. RegistryTypes'
    BY <1>0, <1>3, <2>0 DEF HandlerLeaves, unregister, CleanUp, RegistryTypes
  <2>2. TrackingTypes'
    BY <1>0, <1>3, <2>0 DEF HandlerLeaves, unregister, CleanUp, CancelPending, TrackingTypes
  <2>3. HandlerTypes'
    <3>1. SubscriberSockets(channels', connections', System, {}) \in SUBSET Conns
      BY <2>1, BrokerConstants DEF SubscriberSockets, RegistryTypes
    <3> QED
      BY <1>0, <1>3, <3>1 DEF HandlerLeaves, unregister, HandlerTypes, PCs
  <2>4. SidKnown'
    BY <1>0, <1>3, <2>0 DEF HandlerLeaves, unregister, HandlerTypes, SidKnown
  <2> QED
    BY <1>0, <1>3, <2>1, <2>2, <2>3, <2>4 DEF HandlerLeaves, TypeInv, TypeOK,
       ConnectionTypes, HistoryTypes
<1>4. ASSUME NEW c \in Conns, Dispatch(c) PROVE TypeInv'
  BY <1>4, DispatchTypeInv
<1>5. ASSUME NEW c \in Conns, Progress(c) PROVE TypeInv'
  BY <1>5, ProgressTypeInv
<1>6. ASSUME NEW r \in Requests, TimerFires(r) PROVE TypeInv'
  <2>1. TrackingTypes'
    BY <1>0, <1>6 DEF TimerFires, Decremented, TrackingTypes, RegistryTypes
  <2>2. HistoryTypes'
    BY <1>0, <1>6 DEF TimerFires, HistoryTypes
  <2> QED
    BY <1>0, <1>6, <2>1, <2>2 DEF TimerFires, TypeInv, TypeOK, SidKnown,
       ConnectionTypes, RegistryTypes, HandlerTypes
<1>7. ASSUME NEW r \in Requests, TimeoutSent(r) PROVE TypeInv'
  <2>1. TrackingTypes' /\ HistoryTypes'
    BY <1>0, <1>7 DEF TimeoutSent, TrackingTypes, HistoryTypes, Outcomes
  <2> QED
    BY <1>0, <1>7, <2>1 DEF TimeoutSent, TypeInv, TypeOK, SidKnown,
       ConnectionTypes, RegistryTypes, HandlerTypes
<1>8. CASE StopBegins
  BY <1>0, <1>8 DEF StopBegins, TypeInv, TypeOK, SidKnown, ConnectionTypes,
     RegistryTypes, TrackingTypes, HandlerTypes, HistoryTypes
<1>9. CASE StopEnds
  <2>1. TrackingTypes'
    BY <1>0, <1>9 DEF StopEnds, CancelPending, TrackingTypes
  <2> QED
    BY <1>0, <1>9, <2>1 DEF StopEnds, TypeInv, TypeOK, SidKnown, ConnectionTypes,
       RegistryTypes, HandlerTypes, HistoryTypes
<1>10. CASE UNCHANGED vars
  BY <1>0, <1>10 DEF vars, TypeInv, TypeOK, SidKnown, ConnectionTypes,
     RegistryTypes, TrackingTypes, HandlerTypes, HistoryTypes
<1> QED
  BY <1>1, <1>2, <1>3, <1>4, <1>5, <1>6, <1>7, <1>8, <1>9, <1>10 DEF Next, Stopped

\* Every variable of the broker keeps its type; in particular the in-flight
\* counts stay natural numbers whatever decrements them.
THEOREM TypeCorrect == Spec => []TypeOK
<1>1. TypeInv => TypeOK
  BY DEF TypeInv
<1> QED
  BY <1>1, InitTypeInv, NextTypeInv, PTL DEF Spec

-----------------------------------------------------------------------------
(* The life of a request.  What makes the properties inductive is who may   *)
(* still touch a request: its own handler while it delivers or answers, one *)
(* replier, or its timeout task, never the last two at once.                *)

\* Only a connection past its handshake has a running handler or an issued
\* request, so the sandbox id behind a request never changes.
Started ==
  /\ \A c \in Conns : ws[c] = "new" => pc[c] = "none"
  /\ \A r \in Requests : issuer[r] \in Conns => ws[issuer[r]] # "new"

\* A tracked request is charged to the sandbox of the connection that issued it.
Owned ==
  \A r \in Requests :
    pending[r] # NoSandbox => issuer[r] \in Conns /\ pending[r] = sid[issuer[r]]

\* Nothing has happened yet to an id that was not issued.
Unissued ==
  \A r \in Requests :
    issuer[r] = NoConn =>
      pending[r] = NoSandbox /\ timer[r] = "off" /\ got[r] = {}

\* A handler working on a request is the handler that issued it.
Handling ==
  \A c \in Conns :
    pc[c] \in {"deliver", "respond"} /\ op[c] = "request"
    => req[c] \in Requests /\ issuer[req[c]] = c

\* A handler delivering a reply has won the race against the timeout task.
Replying ==
  \A c \in Conns :
    pc[c] = "deliver" /\ op[c] = "reply"
    => /\ req[c] \in Requests
       /\ issuer[req[c]] # NoConn
       /\ timer[req[c]] = "off"
       /\ "timeout" \notin got[req[c]]

\* The timeout task has won it while it sends, and nobody has while it sleeps.
Racing ==
  \A r \in Requests :
    /\ timer[r] = "sending" => "reply" \notin got[r]
    /\ timer[r] = "armed" => got[r] \cap {"reply", "timeout"} = {}

RaceInv ==
  /\ Started
  /\ Owned
  /\ Unissued
  /\ Handling
  /\ Replying
  /\ Racing
  /\ TimersMatchPending
  /\ NeverReplyAndTimeout

LEMMA InitRaceInv == Init => RaceInv
BY BrokerConstants DEF Init, RaceInv, Started, Owned, Unissued, Handling, Replying,
   Racing, TimersMatchPending, NeverReplyAndTimeout

\* A step that leaves the tracking and the history of requests alone and moves
\* one handler to work that concerns no request.
LEMMA NeutralSuspend ==
  ASSUME TypeInv, RaceInv, NEW c \in Conns, pc[c] # "none",
         NEW p \in PCs, NEW o \in Ops, NEW r \in Requests \cup {NoRequest},
         NEW a \in Answers, NEW ds \in SUBSET Conns, Suspend(c, p, o, r, a, ds),
         p \in {"deliver", "respond"} => o # "request",
         p = "deliver" => o # "reply",
         UNCHANGED <<ws, sid, issuer, pending, timer, got>>
  PROVE  RaceInv'
<1> USE DEF RaceInv, TypeInv, TypeOK, ConnectionTypes, HandlerTypes, TrackingTypes
<1>1. Started'
  BY DEF Started, Suspend
<1>2. Owned' /\ Unissued' /\ Racing' /\ TimersMatchPending' /\ NeverReplyAndTimeout'
  BY DEF Owned, Unissued, Racing, TimersMatchPending, NeverReplyAndTimeout
<1>3. Handling'
  BY DEF Handling, Suspend
<1>4. Replying'
  BY DEF Replying, Suspend
<1> QED
  BY <1>1, <1>2, <1>3, <1>4

LEMMA RequestRaceInv ==
  ASSUME TypeInv, RaceInv, NEW c \in Conns, NEW r \in Requests,
         NEW to \in Sandboxes, HandleRequest(c, r, to)
  PROVE  RaceInv'
<1> USE DEF RaceInv, TypeInv, TypeOK, ConnectionTypes, HandlerTypes, TrackingTypes,
            HistoryTypes
<1>1. /\ pc[c] = "recv" /\ issuer[r] = NoConn /\ UNCHANGED <<ws, sid, got>>
      /\ issuer' = [issuer EXCEPT ![r] = c]
      /\ op' = [op EXCEPT ![c] = "request"]
      /\ req' = [req EXCEPT ![c] = r]
      /\ \/ pc' = [pc EXCEPT ![c] = "respond"] /\ UNCHANGED <<pending, timer>>
         \/ /\ pc' = [pc EXCEPT ![c] = "deliver"]
            /\ pending' = [pending EXCEPT ![r] = sid[c]]
            /\ timer' = [timer EXCEPT ![r] = "armed"]
  BY DEF HandleRequest, Receives, Respond, Deliver, Suspend, tracking
<1>2. sid[c] \in Sandboxes /\ ws[c] # "new"
  BY <1>1 DEF SidKnown, Started
<1>3. pending[r] = NoSandbox /\ timer[r] = "off" /\ got[r] = {}
  BY <1>1 DEF Unissued
<1>4. Started'
  BY <1>1, <1>2 DEF Started
<1>5. Owned' /\ Unissued'
  BY <1>1, <1>2, BrokerConstants DEF Owned, Unissued
<1>6. Handling'
  BY <1>1, BrokerConstants DEF Handling
<1>7. Replying'
  BY <1>1, <1>3 DEF Replying
<1>8. Racing' /\ TimersMatchPending' /\ NeverReplyAndTimeout'
  BY <1>1, <1>2, <1>3, BrokerConstants DEF Racing, TimersMatchPending, NeverReplyAndTimeout
<1> QED
  BY <1>4, <1>5, <1>6, <1>7, <1>8

LEMMA ReplyRaceInv ==
  ASSUME TypeInv, RaceInv, NEW c \in Conns, NEW r \in Requests, HandleReply(c, r)
  PROVE  RaceInv'
<1> USE DEF RaceInv, TypeInv, TypeOK, ConnectionTypes, HandlerTypes, TrackingTypes,
            HistoryTypes
<1>1. /\ pc[c] = "recv" /\ UNCHANGED <<ws, sid, issuer, got>>
  BY DEF HandleReply, Receives
<1>2. CASE pending[r] = NoSandbox
  <2>1. /\ Suspend(c, "respond", "reply", r, "invalid", {})
        /\ UNCHANGED <<pending, timer>>
    BY <1>2 DEF HandleReply, Respond, tracking
  <2> QED
    BY <1>1, <2>1, NeutralSuspend DEF PCs, Ops, Answers
<1>3. CASE pending[r] # NoSandbox
  <2>1. /\ \/ /\ pc' = [pc EXCEPT ![c] = "recv"]
              /\ op' = [op EXCEPT ![c] = "invalid"]
              /\ req' = [req EXCEPT ![c] = NoRequest]
           \/ /\ pc' = [pc EXCEPT ![c] = "deliver"]
              /\ op' = [op EXCEPT ![c] = "reply"]
              /\ req' = [req EXCEPT ![c] = r]
        /\ pending' = [q \in Requests |-> IF q \in {r} THEN NoSandbox ELSE pending[q]]
        /\ timer' = [q \in Requests |-> IF q \in {r} THEN "off" ELSE timer[q]]
    BY <1>3 DEF HandleReply, CancelPending, Deliver, ReadNext, Suspend
  <2>2. timer[r] = "armed" /\ issuer[r] # NoConn /\ got[r] \cap {"reply", "timeout"} = {}
    BY <1>3, BrokerConstants DEF TimersMatchPending, Owned, Racing
  <2>3. Started'
    BY <1>1, <2>1 DEF Started
  <2>4. Owned' /\ Unissued'
    BY <1>1, <2>1, <2>2 DEF Owned, Unissued
  <2>5. Handling'
    BY <1>1, <2>1 DEF Handling
  <2>6. Replying'
    BY <1>1, <2>1, <2>2 DEF Replying
  <2>7. Racing' /\ TimersMatchPending' /\ NeverReplyAndTimeout'
    BY <1>1, <2>1, <2>2 DEF Racing, TimersMatchPending, NeverReplyAndTimeout
  <2> QED
    BY <2>3, <2>4, <2>5, <2>6, <2>7
<1> QED
  BY <1>2, <1>3

LEMMA DispatchRaceInv ==
  ASSUME TypeInv, RaceInv, NEW c \in Conns, Dispatch(c)
  PROVE  RaceInv'
<1>0. pc[c] = "recv" /\ RegistryTypes
  BY DEF Dispatch, InvalidFrame, HandleSend, HandleStream, route, HandleRequest,
     HandleReply, HandleSubscribe, HandleUnsubscribe, HandlePublish, Receives,
     TypeInv, TypeOK
<1>r. ASSUME NEW o \in Ops \ {"request"}, NEW a \in Answers, Respond(c, o, NoRequest, a),
             UNCHANGED <<ws, sid, issuer, pending, timer, got>>
      PROVE  RaceInv'
  BY <1>0, <1>r, NeutralSuspend DEF Respond, PCs
<1>d. ASSUME NEW o \in Ops \ {"request", "reply"}, NEW d \in Conns, Deliver(c, o, NoRequest, d),
             UNCHANGED <<ws, sid, issuer, pending, timer, got>>
      PROVE  RaceInv'
  BY <1>0, <1>d, NeutralSuspend DEF Deliver, PCs, Answers
<1>1. CASE InvalidFrame(c)
  BY <1>r, <1>1 DEF InvalidFrame, Receives, tracking, Ops, Answers
<1>2. ASSUME NEW to \in Sandboxes, NEW o \in {"send", "stream"}, route(c, o, to)
      PROVE  RaceInv'
  BY <1>0, <1>r, <1>d, <1>2 DEF route, Receives, tracking, Ops, Answers, RegistryTypes
<1>3. ASSUME NEW ch \in Channels, HandleSubscribe(c, ch) PROVE RaceInv'
  BY <1>r, <1>3 DEF HandleSubscribe, Receives, tracking, Ops, Answers
<1>4. ASSUME NEW ch \in Channels, HandleUnsubscribe(c, ch) PROVE RaceInv'
  BY <1>r, <1>4 DEF HandleUnsubscribe, Receives, tracking, Ops, Answers
<1>5. ASSUME NEW ch \in Channels, HandlePublish(c, ch) PROVE RaceInv'
  <2>1. SubscriberSockets(channels, connections, ch, {sid[c]}) \in SUBSET Conns
    BY <1>0 DEF SubscriberSockets, RegistryTypes
  <2>2. UNCHANGED <<ws, sid, issuer, pending, timer, got>>
    BY <1>5 DEF HandlePublish, Receives, tracking
  <2>3. CASE Respond(c, "publish", NoRequest, "ack")
    BY <1>r, <2>2, <2>3 DEF Ops, Answers
  <2>4. CASE Suspend(c, "fanout", "publish", NoRequest, "ack",
                     SubscriberSockets(channels, connections, ch, {sid[c]}))
    BY <1>0, <2>1, <2>2, <2>4, NeutralSuspend DEF PCs, Ops, Answers
  <2> QED
    BY <1>5, <2>3, <2>4 DEF HandlePublish
<1> QED
  BY <1>1, <1>2, <1>3, <1>4, <1>5, RequestRaceInv, ReplyRaceInv
     DEF Dispatch, HandleSend, HandleStream

LEMMA RollBackRaceInv ==
  ASSUME TypeInv, RaceInv, NEW c \in Conns, pc[c] = "deliver", op[c] = "request",
         RollBack(req[c], sid[c]), Respond(c, op[c], req[c], "offline"),
         UNCHANGED <<ws, sid, issuer>>
  PROVE  RaceInv'
<1> USE DEF RaceInv, TypeInv, TypeOK, ConnectionTypes, HandlerTypes, TrackingTypes,
            HistoryTypes
<1> DEFINE r == req[c]
<1>1. r \in Requests /\ issuer[r] = c
  BY DEF Handling
<1> HIDE DEF r
<1>2. /\ pc' = [pc EXCEPT ![c] = "respond"]
      /\ op' = [op EXCEPT ![c] = "request"]
      /\ req' = [req EXCEPT ![c] = r]
      /\ pending' = [pending EXCEPT ![r] = NoSandbox]
      /\ timer' = [timer EXCEPT ![r] = "off"]
      /\ \/ UNCHANGED got
         \/ /\ timer[r] = "sending"
            /\ got' = [got EXCEPT ![r] = @ \cup {"timeout"}]
  BY DEF RollBack, Respond, Suspend, r
<1>3. Started'
  BY <1>2 DEF Started
<1>4. Owned'
  BY <1>1, <1>2 DEF Owned
<1>5. Unissued'
  BY <1>1, <1>2, BrokerConstants DEF Unissued
<1>6. Handling'
  BY <1>1, <1>2 DEF Handling
<1>7. Replying'
  BY <1>1, <1>2 DEF Replying
<1>8. Racing' /\ TimersMatchPending'
  BY <1>1, <1>2 DEF Racing, TimersMatchPending
<1>9. NeverReplyAndTimeout'
  BY <1>1, <1>2 DEF Racing, NeverReplyAndTimeout
<1> QED
  BY <1>3, <1>4, <1>5, <1>6, <1>7, <1>8, <1>9

LEMMA ProgressRaceInv ==
  ASSUME TypeInv, RaceInv, NEW c \in Conns, Progress(c)
  PROVE  RaceInv'
<1>0. /\ pc[c] # "none" /\ UNCHANGED <<ws, sid, issuer>>
      /\ op[c] \in Ops /\ req[c] \in Requests \cup {NoRequest} /\ answer[c] \in Answers
  BY DEF Progress, Delivered, DeliveryFails, Responded, GatherDone, history,
     TypeInv, TypeOK, HandlerTypes
<1>n. ASSUME ReadNext(c), UNCHANGED <<pending, timer, got>> PROVE RaceInv'
  BY <1>0, <1>n, NeutralSuspend DEF ReadNext, PCs, Ops, Answers
<1>r. ASSUME NEW a \in Answers, NEW r \in Requests \cup {NoRequest},
             Respond(c, op[c], r, a), op[c] # "request", UNCHANGED <<pending, timer, got>>
      PROVE  RaceInv'
  BY <1>0, <1>r, NeutralSuspend DEF Respond, PCs
<1>g. CASE GatherDone(c)
  <2>0. UNCHANGED <<pending, timer, got>>
    BY <1>g DEF GatherDone, tracking, history
  <2>1. CASE pc[c] = "fanout"
    <3>1. Suspend(c, "respond", "publish", NoRequest, "ack", {})
      BY <1>g, <2>1 DEF GatherDone, Respond
    <3> QED
      BY <1>0, <2>0, <3>1, NeutralSuspend DEF PCs, Ops, Answers
  <2>2. CASE pc[c] = "shutdown"
    <3>1. Suspend(c, "exited", "invalid", NoRequest, "ack", {})
      BY <1>g, <2>2 DEF GatherDone
    <3>2. "exited" \in PCs /\ "invalid" \in Ops /\ "ack" \in Answers
      BY DEF PCs, Ops, Answers
    <3> QED
      BY <1>0, <2>0, <3>1, <3>2, NeutralSuspend
  <2> QED
    BY <1>g, <2>1, <2>2 DEF GatherDone
<1> USE DEF RaceInv, TypeInv, TypeOK, ConnectionTypes, HandlerTypes, TrackingTypes,
            HistoryTypes
<1>1. CASE Delivered(c)
  <2>1. UNCHANGED <<pending, timer>>
    BY <1>1 DEF Delivered, tracking
  <2>2. CASE op[c] = "send"
    BY <1>0, <1>r, <1>1, <2>1, <2>2 DEF Delivered, Answers
  <2>3. CASE op[c] = "stream"
    BY <1>n, <1>1, <2>1, <2>3 DEF Delivered
  <2>4. CASE op[c] = "request"
    <3>1. /\ pc[c] = "deliver" /\ UNCHANGED got
          /\ pc' = [pc EXCEPT ![c] = "respond"]
          /\ op' = [op EXCEPT ![c] = "request"]
          /\ req' = [req EXCEPT ![c] = req[c]]
      BY <1>1, <2>4 DEF Delivered, Respond, Suspend
    <3>2. Started' /\ Owned' /\ Unissued' /\ Racing' /\ TimersMatchPending'
          /\ NeverReplyAndTimeout'
      BY <1>0, <2>1, <3>1 DEF Started, Owned, Unissued, Racing, TimersMatchPending,
         NeverReplyAndTimeout
    <3>3. Handling' /\ Replying'
      BY <1>0, <2>1, <2>4, <3>1 DEF Handling, Replying
    <3> QED
      BY <3>2, <3>3
  <2>5. CASE op[c] = "reply"
    <3>1. /\ pc[c] = "deliver"
          /\ pc' = [pc EXCEPT ![c] = "recv"]
          /\ op' = [op EXCEPT ![c] = "invalid"]
          /\ req' = [req EXCEPT ![c] = NoRequest]
          /\ got' = [got EXCEPT ![req[c]] = @ \cup {"reply"}]
      BY <1>1, <2>5 DEF Delivered, ReadNext, Suspend
    <3>2. /\ req[c] \in Requests /\ issuer[req[c]] # NoConn
          /\ timer[req[c]] = "off" /\ "timeout" \notin got[req[c]]
      BY <2>5, <3>1 DEF Replying
    <3>3. Started' /\ Owned' /\ TimersMatchPending'
      BY <1>0, <2>1, <3>1 DEF Started, Owned, TimersMatchPending
    <3>4. Unissued' /\ Racing' /\ NeverReplyAndTimeout'
      BY <1>0, <2>1, <3>1, <3>2 DEF Unissued, Racing, NeverReplyAndTimeout
    <3>5. Handling' /\ Replying'
      BY <1>0, <2>1, <3>1, <3>2 DEF Handling, Replying
    <3> QED
      BY <3>3, <3>4, <3>5
  <2> QED
    BY <1>1, <2>2, <2>3, <2>4, <2>5 DEF Delivered
<1>2. CASE DeliveryFails(c)
  <2>1. CASE op[c] \in {"send", "stream"}
    BY <1>0, <1>r, <1>2, <2>1 DEF DeliveryFails, tracking, Answers
  <2>2. CASE op[c] = "request"
    BY <1>0, <1>2, <2>2, RollBackRaceInv DEF DeliveryFails
  <2>3. CASE op[c] = "reply"
    BY <1>n, <1>2, <2>3 DEF DeliveryFails, tracking
  <2> QED
    BY <1>2, <2>1, <2>2, <2>3 DEF DeliveryFails
<1>3. CASE Responded(c)
  <2>1. /\ pc[c] = "respond" /\ UNCHANGED <<pending, timer>>
        /\ pc' = [pc EXCEPT ![c] = "recv"]
        /\ op' = [op EXCEPT ![c] = "invalid"]
        /\ req' = [req EXCEPT ![c] = NoRequest]
        /\ \/ UNCHANGED got
           \/ op[c] = "request" /\ got' = [got EXCEPT ![req[c]] = @ \cup {answer[c]}]
    BY <1>3 DEF Responded, ReadNext, Suspend, tracking
  <2>2. answer[c] \notin {"reply", "timeout"}
    BY <1>0 DEF Answers
  <2>3. op[c] = "request" => req[c] \in Requests /\ issuer[req[c]] # NoConn
    BY <2>1, BrokerConstants DEF Handling
  <2>4. Started' /\ Owned' /\ TimersMatchPending'
    BY <1>0, <2>1 DEF Started, Owned, TimersMatchPending
  <2>5. Unissued'
    BY <1>0, <2>1, <2>3 DEF Unissued
  <2>6. Racing' /\ NeverReplyAndTimeout'
    BY <1>0, <2>1, <2>2, <2>3 DEF Racing, NeverReplyAndTimeout
  <2>7. Handling' /\ Replying'
    BY <1>0, <2>1, <2>2, <2>3 DEF Handling, Replying
  <2> QED
    BY <2>4, <2>5, <2>6, <2>7
<1> QED
  BY <1>g, <1>1, <1>2, <1>3 DEF Progress

LEMMA HandshakeRaceInv ==
  ASSUME TypeInv, RaceInv, NEW c \in Conns, NEW s \in Sandboxes, Handshake(c, s)
  PROVE  RaceInv'
<1> USE DEF RaceInv, TypeInv, TypeOK, ConnectionTypes, HandlerTypes, TrackingTypes,
            HistoryTypes
<1>1. /\ ws[c] = "new"
      /\ ws' = [ws EXCEPT ![c] = "open"]
      /\ sid' = [sid EXCEPT ![c] = s]
      /\ pc' = [pc EXCEPT ![c] = "recv"]
      /\ UNCHANGED <<op, req, issuer, pending, timer, got>>
  BY DEF Handshake, tracking
<1>2. Started'
  BY <1>1 DEF Started
<1>3. Owned'
  BY <1>1 DEF Owned, Started
<1>4. Unissued' /\ Racing' /\ TimersMatchPending' /\ NeverReplyAndTimeout'
  BY <1>1 DEF Unissued, Racing, TimersMatchPending, NeverReplyAndTimeout
<1>5. Handling' /\ Replying'
  BY <1>1 DEF Handling, Replying
<1> QED
  BY <1>2, <1>3, <1>4, <1>5

\* Forgetting any set of tracked requests keeps the race invariant.
LEMMA CancelRaceInv ==
  ASSUME TypeInv, RaceInv, NEW rs \in SUBSET Requests, CancelPending(rs),
         \A r \in rs : pending[r] # NoSandbox,
         UNCHANGED <<ws, sid, op, req, issuer, got>>,
         \/ UNCHANGED pc
         \/ \E c \in Conns : /\ pc[c] = "recv"
                             /\ pc' = [pc EXCEPT ![c] = "shutdown"]
  PROVE  RaceInv'
<1> USE DEF RaceInv, TypeInv, TypeOK, ConnectionTypes, HandlerTypes, TrackingTypes,
            HistoryTypes
<1>1. /\ pending' = [r \in Requests |-> IF r \in rs THEN NoSandbox ELSE pending[r]]
      /\ timer' = [r \in Requests |-> IF r \in rs THEN "off" ELSE timer[r]]
  BY DEF CancelPending
<1>2. Started'
  BY DEF Started
<1>3. Owned' /\ Unissued'
  BY <1>1 DEF Owned, Unissued
<1>4. Handling' /\ Replying'
  BY <1>1 DEF Handling, Replying
<1>5. Racing' /\ TimersMatchPending' /\ NeverReplyAndTimeout'
  BY <1>1 DEF Racing, TimersMatchPending, NeverReplyAndTimeout
<1> QED
  BY <1>2, <1>3, <1>4, <1>5

LEMMA TimerRaceInv ==
  ASSUME TypeInv, RaceInv, NEW r \in Requests, TimerFires(r) \/ TimeoutSent(r)
  PROVE  RaceInv'
<1> USE DEF RaceInv, TypeInv, TypeOK, ConnectionTypes, HandlerTypes, TrackingTypes,
            HistoryTypes
<1>1. CASE TimerFires(r)
  <2>1. /\ timer[r] = "armed" /\ UNCHANGED <<ws, sid, pc, op, req, issuer, got>>
        /\ pending[r] # NoSandbox
    BY <1>1 DEF TimerFires, handlers, TimersMatchPending
  <2>2. /\ pending' = [pending EXCEPT ![r] = NoSandbox]
        /\ \/ timer' = [timer EXCEPT ![r] = "off"]
           \/ timer' = [timer EXCEPT ![r] = "sending"]
    BY <1>1, <2>1 DEF TimerFires
  <2>3. issuer[r] # NoConn /\ got[r] \cap {"reply", "timeout"} = {}
    BY <2>1, BrokerConstants DEF Owned, Racing
  <2>4. Started' /\ Owned' /\ Unissued'
    BY <2>1, <2>2, <2>3 DEF Started, Owned, Unissued
  <2>5. Handling' /\ Replying'
    BY <2>1, <2>2 DEF Handling, Replying
  <2>6. Racing' /\ TimersMatchPending' /\ NeverReplyAndTimeout'
    BY <2>1, <2>2, <2>3 DEF Racing, TimersMatchPending, NeverReplyAndTimeout
  <2> QED
    BY <2>4, <2>5, <2>6
<1>2. CASE TimeoutSent(r)
  <2>1. /\ timer[r] = "sending" /\ UNCHANGED <<ws, sid, pc, op, req, issuer, pending>>
        /\ timer' = [timer EXCEPT ![r] = "off"]
        /\ UNCHANGED got \/ got' = [got EXCEPT ![r] = @ \cup {"timeout"}]
    BY <1>2 DEF TimeoutSent, handlers
  <2>2. issuer[r] # NoConn /\ "reply" \notin got[r]
    BY <2>1 DEF Unissued, Racing
  <2>3. Started' /\ Owned' /\ Unissued'
    BY <2>1, <2>2 DEF Started, Owned, Unissued
  <2>4. Handling' /\ Replying'
    BY <2>1 DEF Handling, Replying
  <2>5. Racing' /\ TimersMatchPending' /\ NeverReplyAndTimeout'
    BY <2>1, <2>2 DEF Racing, TimersMatchPending, NeverReplyAndTimeout
  <2> QED
    BY <2>3, <2>4, <2>5
<1> QED
  BY <1>1, <1>2

LEMMA NextRaceInv == TypeInv /\ RaceInv /\ [Next]_vars => RaceInv'
<1> SUFFICES ASSUME TypeInv, RaceInv, [Next]_vars PROVE RaceInv'
  OBVIOUS
<1>u. ASSUME UNCHANGED <<sid, pc, op, req, issuer, pending, timer, got>>,
             \A c \in Conns : ws'[c] = "new" <=> ws[c] = "new"
      PROVE  RaceInv'
  <2> USE <1>u DEF RaceInv
  <2>1. Started' /\ Owned' /\ Unissued' /\ Handling'
    BY DEF Started, Owned, Unissued, Handling
  <2>2. Replying' /\ Racing' /\ TimersMatchPending' /\ NeverReplyAndTimeout'
    BY DEF Replying, Racing, TimersMatchPending, NeverReplyAndTimeout
  <2> QED
    BY <2>1, <2>2
<1>1. ASSUME NEW c \in Conns, NEW s \in Sandboxes, Handshake(c, s) PROVE RaceInv'
  BY <1>1, HandshakeRaceInv
<1>2. ASSUME NEW c \in Conns, TransportCloses(c) PROVE RaceInv'
  BY <1>u, <1>2 DEF TransportCloses, tracking, handlers, history, TypeInv, TypeOK,
     ConnectionTypes
<1>3. ASSUME NEW c \in Conns, HandlerLeaves(c) PROVE RaceInv'
  <2>0. sid[c] \in Sandboxes /\ UNCHANGED <<ws, sid, op, req, issuer, got>>
    BY <1>3 DEF HandlerLeaves, history, TypeInv, SidKnown
  <2>1. CASE connections[sid[c]] # c
    <3>1. /\ pc[c] = "recv" /\ pc' = [pc EXCEPT ![c] = "exited"]
          /\ UNCHANGED <<pending, timer>>
      BY <1>3, <2>1 DEF HandlerLeaves, unregister, tracking
    <3> USE DEF RaceInv, TypeInv, TypeOK, ConnectionTypes, HandlerTypes
    <3>2. Started' /\ Owned' /\ Unissued' /\ Handling'
      BY <2>0, <3>1 DEF Started, Owned, Unissued, Handling
    <3>3. Replying' /\ Racing' /\ TimersMatchPending' /\ NeverReplyAndTimeout'
      BY <2>0, <3>1 DEF Replying, Racing, TimersMatchPending, NeverReplyAndTimeout
    <3> QED
      BY <3>2, <3>3
  <2>2. CASE connections[sid[c]] = c
    <3>1. /\ pc[c] = "recv" /\ pc' = [pc EXCEPT ![c] = "shutdown"]
          /\ CancelPending(PendingOf(sid[c]))
      BY <1>3, <2>2 DEF HandlerLeaves, unregister, CleanUp
    <3>2. /\ PendingOf(sid[c]) \in SUBSET Requests
          /\ \A r \in PendingOf(sid[c]) : pending[r] # NoSandbox
      BY <2>0, BrokerConstants DEF PendingOf
    <3> QED
      BY <2>0, <3>1, <3>2, CancelRaceInv
  <2> QED
    BY <2>1, <2>2
<1>4. ASSUME NEW c \in Conns, Dispatch(c) PROVE RaceInv'
  BY <1>4, DispatchRaceInv
<1>5. ASSUME NEW c \in Conns, Progress(c) PROVE RaceInv'
  BY <1>5, ProgressRaceInv
<1>6. ASSUME NEW r \in Requests, TimerFires(r) \/ TimeoutSent(r) PROVE RaceInv'
  BY <1>6, TimerRaceInv
<1>7. CASE StopBegins
  BY <1>u, <1>7 DEF StopBegins, tracking, handlers, history
<1>8. CASE StopEnds
  <2>1. /\ CancelPending({r \in Requests : pending[r] # NoSandbox})
        /\ UNCHANGED <<ws, sid, pc, op, req, issuer, got>>
    BY <1>8 DEF StopEnds, handlers, history
  <2> QED
    BY <2>1, CancelRaceInv
<1>9. CASE UNCHANGED vars
  BY <1>u, <1>9 DEF vars, tracking, handlers, history
<1> QED
  BY <1>1, <1>2, <1>3, <1>4, <1>5, <1>6, <1>7, <1>8, <1>9 DEF Next, Stopped

\* A requester never gets both a reply and a TIMEOUT for one request, although
\* the replier's handler, the rollback and the timeout task all race for it.
THEOREM ReplyXorTimeout == Spec => []NeverReplyAndTimeout
<1>1. RaceInv => NeverReplyAndTimeout
  BY DEF RaceInv
<1> QED
  BY <1>1, InitTypeInv, NextTypeInv, InitRaceInv, NextRaceInv, PTL DEF Spec

\* Every tracked request has a sleeping timeout task and every sleeping task a
\* tracked request, so no entry of _pending outlives its timeout.
THEOREM EveryPendingExpires == Spec => []TimersMatchPending
<1>1. RaceInv => TimersMatchPending
  BY DEF RaceInv
<1> QED
  BY <1>1, InitTypeInv, NextTypeInv, InitRaceInv, NextRaceInv, PTL DEF Spec
-----------------------------------------------------------------------------
(* The broker implements RequestReply: every step is a step of the abstract  *)
(* specification, on the request it touches, or leaves status and frame as   *)
(* they are.                                                                 *)

\* The refinement mapping, case by case.
Mapped(r) ==
  /\ pending[r] # NoSandbox => status[r] = "open"
  /\ pending[r] = NoSandbox /\ issuer[r] = NoConn => status[r] = "new"
  /\ pending[r] = NoSandbox /\ issuer[r] # NoConn =>
       IF ReplyInFlight(r) \/ "reply" \in got[r] THEN status[r] = "replied"
       ELSE IF timer[r] = "sending" \/ "timeout" \in got[r] THEN status[r] = "expired"
       ELSE status[r] = "closed"
  /\ IF "reply" \in got[r] THEN frame[r] = "reply"
     ELSE IF "timeout" \in got[r] THEN frame[r] = "timeout" ELSE frame[r] = "none"

LEMMA MappedNowAndNext == \A r \in Requests : Mapped(r) /\ Mapped(r)'
<1> TAKE r \in Requests
<1>1. Mapped(r)
  BY DEF Mapped, status, frame
<1>2. Mapped(r)'
  BY DEF Mapped, status, frame
<1> QED
  BY <1>1, <1>2

\* A request that no step touches.
Untouched(r) ==
  /\ pending'[r] = NoSandbox <=> pending[r] = NoSandbox
  /\ issuer'[r] = NoConn <=> issuer[r] = NoConn
  /\ ReplyInFlight(r)' <=> ReplyInFlight(r)
  /\ timer'[r] = "sending" <=> timer[r] = "sending"
  /\ \A f \in {"reply", "timeout"} : f \in got'[r] <=> f \in got[r]

LEMMA UntouchedMapped ==
  ASSUME NEW r \in Requests, Untouched(r)
  PROVE  status'[r] = status[r] /\ frame'[r] = frame[r]
BY MappedNowAndNext DEF Mapped, Untouched

\* A move of one request that the abstract specification allows.
Move(r) ==
  \/ status[r] = "new" /\ status'[r] \in {"open", "closed"} /\ frame'[r] = frame[r]
  \/ /\ status[r] = "open" /\ status'[r] \in {"replied", "expired", "closed"}
     /\ frame'[r] = frame[r]
  \/ status[r] = "replied" /\ status'[r] = "replied" /\ frame[r] = "none" /\ frame'[r] = "reply"
  \/ /\ status[r] = "expired" /\ status'[r] = "expired"
     /\ frame[r] = "none" /\ frame'[r] = "timeout"
  \/ /\ status[r] \in {"replied", "expired"} /\ status'[r] = "closed"
     /\ frame[r] = "none" /\ frame'[r] = "none"
  \/ status'[r] = status[r] /\ frame'[r] = frame[r]

LEMMA MoveOne ==
  ASSUME NEW r \in Requests, Move(r), \A q \in Requests \ {r} : Untouched(q)
  PROVE  [Abstract!Next]_(Abstract!vars)
<1>1. /\ status = [q \in Requests |-> status[q]] /\ status' = [q \in Requests |-> status'[q]]
      /\ frame = [q \in Requests |-> frame[q]] /\ frame' = [q \in Requests |-> frame'[q]]
  BY DEF status, frame
<1>2. \A q \in Requests \ {r} : status'[q] = status[q] /\ frame'[q] = frame[q]
  BY UntouchedMapped
<1> HIDE DEF status, frame
<1>3. /\ status' = [status EXCEPT ![r] = status'[r]]
      /\ frame' = [frame EXCEPT ![r] = frame'[r]]
  BY <1>1, <1>2
<1>4. frame'[r] = frame[r] => UNCHANGED frame
  BY <1>1, <1>2
<1>5. status'[r] = status[r] => UNCHANGED status
  BY <1>1, <1>2
<1>6. CASE status[r] = "open" /\ status'[r] = "closed" /\ frame'[r] = frame[r]
  <2>1. Abstract!Drop({r})
    BY <1>1, <1>2, <1>4, <1>6 DEF Abstract!Drop
  <2> QED
    BY <2>1 DEF Abstract!Next
<1>7. CASE ~ (status[r] = "open" /\ status'[r] = "closed" /\ frame'[r] = frame[r])
  BY <1>3, <1>4, <1>5, <1>7 DEF Move, Abstract!Next, Abstract!Accept, Abstract!Refuse,
     Abstract!Decide, Abstract!Announce, Abstract!Lose, Abstract!Become, Abstract!vars
<1> QED
  BY <1>6, <1>7

LEMMA MoveNone ==
  ASSUME \A q \in Requests : Untouched(q)
  PROVE  [Abstract!Next]_(Abstract!vars)
<1>1. UNCHANGED status
  BY UntouchedMapped DEF status
<1>2. UNCHANGED frame
  BY UntouchedMapped DEF frame
<1> QED
  BY <1>1, <1>2 DEF Abstract!vars
\* Moving one handler changes which replies are in flight only for the requests
\* that handler carried or takes up.
LEMMA ReplyElsewhere ==
  ASSUME HandlerTypes, NEW c \in Conns, NEW p, NEW o, NEW r, NEW a, NEW ds,
         Suspend(c, p, o, r, a, ds), NEW q,
         ~ (pc[c] = "deliver" /\ op[c] = "reply" /\ req[c] = q),
         ~ (p = "deliver" /\ o = "reply" /\ r = q)
  PROVE  ReplyInFlight(q)' <=> ReplyInFlight(q)
BY DEF ReplyInFlight, Suspend, HandlerTypes

\* While a request is tracked, expiring or not issued nobody carries its reply.
LEMMA NoReplyYet ==
  ASSUME RaceInv, NEW r \in Requests,
         pending[r] # NoSandbox \/ timer[r] # "off" \/ issuer[r] = NoConn
  PROVE  ~ ReplyInFlight(r)
BY DEF RaceInv, Replying, TimersMatchPending, ReplyInFlight

LEMMA RequestMoves ==
  ASSUME TypeInv, RaceInv, NEW c \in Conns, NEW r \in Requests, NEW to \in Sandboxes,
         HandleRequest(c, r, to)
  PROVE  [Abstract!Next]_(Abstract!vars)
<1>0. HandlerTypes /\ TrackingTypes /\ HistoryTypes /\ sid[c] \in Sandboxes
  BY DEF TypeInv, TypeOK, SidKnown, HandleRequest, Receives
<1>1. PICK p, a, ds : Suspend(c, p, "request", r, a, ds)
  BY DEF HandleRequest, Respond, Deliver
<1>2. pc[c] = "recv" /\ issuer[r] = NoConn /\ issuer' = [issuer EXCEPT ![r] = c] /\ got' = got
  BY DEF HandleRequest, Receives
<1>3. \A q \in Requests : ReplyInFlight(q)' <=> ReplyInFlight(q)
  BY <1>0, <1>1, <1>2, ReplyElsewhere
<1>4. \A q \in Requests \ {r} : pending'[q] = pending[q] /\ timer'[q] = timer[q]
                                /\ issuer'[q] = issuer[q]
  BY <1>0, <1>2 DEF HandleRequest, tracking, TrackingTypes, HistoryTypes
<1>5. \A q \in Requests \ {r} : Untouched(q)
  BY <1>2, <1>3, <1>4 DEF Untouched
<1>6. pending[r] = NoSandbox /\ timer[r] = "off" /\ got[r] = {} /\ ~ ReplyInFlight(r)
  BY <1>2, NoReplyYet DEF RaceInv, Unissued
<1>7. issuer'[r] # NoConn /\ timer'[r] # "sending"
  BY <1>0, <1>2, <1>6, BrokerConstants DEF HandleRequest, tracking, TrackingTypes, HistoryTypes
<1>8. Move(r)
  BY <1>2, <1>3, <1>6, <1>7, MappedNowAndNext DEF Mapped, Move
<1> QED
  BY <1>5, <1>8, MoveOne

LEMMA ReplyMoves ==
  ASSUME TypeInv, RaceInv, NEW c \in Conns, NEW r \in Requests, HandleReply(c, r)
  PROVE  [Abstract!Next]_(Abstract!vars)
<1>0. HandlerTypes /\ TrackingTypes /\ HistoryTypes
  BY DEF TypeInv, TypeOK
<1>1. pc[c] = "recv" /\ UNCHANGED <<issuer, got>>
  BY DEF HandleReply, Receives
<1>2. CASE pending[r] = NoSandbox
  <2>1. Suspend(c, "respond", "reply", r, "invalid", {}) /\ UNCHANGED <<pending, timer>>
    BY <1>2 DEF HandleReply, Respond, tracking
  <2>2. \A q \in Requests : ReplyInFlight(q)' <=> ReplyInFlight(q)
    BY <1>0, <1>1, <2>1, ReplyElsewhere
  <2> QED
    BY <1>1, <2>1, <2>2, MoveNone DEF Untouched
<1>3. CASE pending[r] # NoSandbox
  <2>1. PICK p, o, q, a, ds : /\ Suspend(c, p, o, q, a, ds)
                              /\ \/ p = "recv"
                                 \/ p = "deliver" /\ o = "reply" /\ q = r
    BY <1>3 DEF HandleReply, Deliver, ReadNext
  <2>2. /\ pending'[r] = NoSandbox /\ timer'[r] = "off"
        /\ \A u \in Requests \ {r} : pending'[u] = pending[u] /\ timer'[u] = timer[u]
    BY <1>3 DEF HandleReply, CancelPending
  <2>3. \A u \in Requests \ {r} : ReplyInFlight(u)' <=> ReplyInFlight(u)
    BY <1>0, <1>1, <2>1, ReplyElsewhere
  <2>4. \A u \in Requests \ {r} : Untouched(u)
    BY <1>1, <2>2, <2>3 DEF Untouched
  <2>5. issuer[r] # NoConn /\ got[r] \cap {"reply", "timeout"} = {}
    BY <1>3, BrokerConstants DEF RaceInv, Owned, TimersMatchPending, Racing
  <2>6. Move(r)
    BY <1>1, <1>3, <2>2, <2>5, MappedNowAndNext DEF Mapped, Move
  <2> QED
    BY <2>4, <2>6, MoveOne
<1> QED
  BY <1>2, <1>3

\* The other handlers of frames concern no request.
LEMMA DispatchMoves ==
  ASSUME TypeInv, RaceInv, NEW c \in Conns, Dispatch(c)
  PROVE  [Abstract!Next]_(Abstract!vars)
<1>0. HandlerTypes
  BY DEF TypeInv, TypeOK
<1>1. ASSUME pc[c] = "recv", UNCHANGED <<tracking, issuer, got>>, NEW p, NEW o, NEW a, NEW ds,
             Suspend(c, p, o, NoRequest, a, ds)
      PROVE  [Abstract!Next]_(Abstract!vars)
  <2>1. \A q \in Requests : ReplyInFlight(q)' <=> ReplyInFlight(q)
    BY <1>0, <1>1, BrokerConstants, ReplyElsewhere
  <2> QED
    BY <1>1, <2>1, MoveNone DEF Untouched, tracking
<1>2. ASSUME NEW r \in Requests, NEW to \in Sandboxes, HandleRequest(c, r, to)
      PROVE  [Abstract!Next]_(Abstract!vars)
  BY <1>2, RequestMoves
<1>3. ASSUME NEW r \in Requests, HandleReply(c, r)
      PROVE  [Abstract!Next]_(Abstract!vars)
  BY <1>3, ReplyMoves
<1>4. ASSUME \/ InvalidFrame(c)
             \/ \E to \in Sandboxes : HandleSend(c, to) \/ HandleStream(c, to)
             \/ \E ch \in Channels : \/ HandleSubscribe(c, ch) \/ HandleUnsubscribe(c, ch)
                                     \/ HandlePublish(c, ch)
      PROVE  [Abstract!Next]_(Abstract!vars)
  <2>1. pc[c] = "recv" /\ UNCHANGED <<tracking, issuer, got>>
    BY <1>4 DEF InvalidFrame, HandleSend, HandleStream, route, HandleSubscribe,
       HandleUnsubscribe, HandlePublish, Receives
  <2>2. \E p, o, a, ds : Suspend(c, p, o, NoRequest, a, ds)
    BY <1>4 DEF InvalidFrame, HandleSend, HandleStream, route, HandleSubscribe,
       HandleUnsubscribe, HandlePublish, Respond, Deliver
  <2> QED
    BY <1>1, <2>1, <2>2
<1> QED
  BY <1>2, <1>3, <1>4 DEF Dispatch

LEMMA ProgressMoves ==
  ASSUME TypeInv, RaceInv, NEW c \in Conns, Progress(c)
  PROVE  [Abstract!Next]_(Abstract!vars)
<1>0. HandlerTypes /\ TrackingTypes /\ HistoryTypes
  BY DEF TypeInv, TypeOK
<1>s. PICK p, o, r, a, ds : Suspend(c, p, o, r, a, ds) /\ p # "deliver"
  BY DEF Progress, Delivered, DeliveryFails, Responded, GatherDone, Respond, ReadNext
<1>u. UNCHANGED issuer
  BY DEF Progress, Delivered, DeliveryFails, Responded, GatherDone, history
\* A step that delivers no reply and changes nothing else of a request.
<1>q. ASSUME ~ (pc[c] = "deliver" /\ op[c] = "reply"), UNCHANGED <<pending, timer>>,
             \A q \in Requests, f \in {"reply", "timeout"} : f \in got'[q] <=> f \in got[q]
      PROVE  [Abstract!Next]_(Abstract!vars)
  <2>1. \A q \in Requests : ReplyInFlight(q)' <=> ReplyInFlight(q)
    BY <1>0, <1>q, <1>s, ReplyElsewhere
  <2> QED
    BY <1>q, <1>u, <2>1, MoveNone DEF Untouched
<1>1. CASE (Delivered(c) \/ DeliveryFails(c)) /\ op[c] = "reply"
  <2>1. /\ pc[c] = "deliver" /\ UNCHANGED <<pending, timer>>
        /\ UNCHANGED got \/ got' = [got EXCEPT ![req[c]] = @ \cup {"reply"}]
    BY <1>1 DEF Delivered, DeliveryFails, tracking
  <2>2. PICK x \in Requests : /\ x = req[c] /\ issuer[x] # NoConn /\ timer[x] = "off"
                              /\ "timeout" \notin got[x]
    BY <1>1, <2>1 DEF RaceInv, Replying
  <2>3. pending[x] = NoSandbox /\ ReplyInFlight(x)
    BY <1>1, <2>1, <2>2 DEF RaceInv, TimersMatchPending, ReplyInFlight
  <2>4. \A q \in Requests \ {x} : Untouched(q)
    <3>1. \A q \in Requests \ {x} : ReplyInFlight(q)' <=> ReplyInFlight(q)
      BY <1>0, <1>s, <2>2, ReplyElsewhere
    <3>2. \A q \in Requests \ {x} : got'[q] = got[q]
      BY <1>0, <2>1, <2>2 DEF HistoryTypes
    <3> QED
      BY <1>u, <2>1, <3>1, <3>2 DEF Untouched
  <2>5. "timeout" \notin got'[x] /\ ("reply" \in got[x] => "reply" \in got'[x])
    BY <1>0, <2>1, <2>2 DEF HistoryTypes
  <2>6. Move(x)
    BY <1>u, <2>1, <2>2, <2>3, <2>5, MappedNowAndNext DEF Mapped, Move
  <2> QED
    BY <2>4, <2>6, MoveOne
<1>2. CASE DeliveryFails(c) /\ op[c] = "request"
  <2>1. RollBack(req[c], sid[c]) /\ pc[c] = "deliver"
    BY <1>2 DEF DeliveryFails
  <2>2. PICK x \in Requests : x = req[c] /\ issuer[x] # NoConn
    BY <1>2, <2>1, BrokerConstants DEF RaceInv, Handling
  <2>3. /\ pending'[x] = NoSandbox /\ timer'[x] = "off"
        /\ \/ got'[x] = got[x]
           \/ timer[x] = "sending" /\ got'[x] = got[x] \cup {"timeout"}
        /\ \A q \in Requests \ {x} : /\ pending'[q] = pending[q] /\ timer'[q] = timer[q]
                                     /\ got'[q] = got[q]
    <3>1. /\ pending' = [pending EXCEPT ![x] = NoSandbox]
          /\ timer' = [timer EXCEPT ![x] = "off"]
          /\ \/ got' = got
             \/ timer[x] = "sending" /\ got' = [got EXCEPT ![x] = @ \cup {"timeout"}]
      BY <2>1, <2>2 DEF RollBack
    <3>2. /\ pending'[x] = NoSandbox /\ timer'[x] = "off"
          /\ \A q \in Requests \ {x} : pending'[q] = pending[q] /\ timer'[q] = timer[q]
      BY <1>0, <3>1 DEF TrackingTypes
    <3>3. CASE got' = got
      BY <3>2, <3>3
    <3>4. CASE timer[x] = "sending" /\ got' = [got EXCEPT ![x] = @ \cup {"timeout"}]
      <4>1. /\ got'[x] = got[x] \cup {"timeout"}
            /\ \A q \in Requests \ {x} : got'[q] = got[q]
        BY <1>0, <3>4 DEF HistoryTypes
      <4> QED
        BY <3>2, <3>4, <4>1
    <3> QED
      BY <3>1, <3>3, <3>4
  <2>4. \A q \in Requests : ReplyInFlight(q)' <=> ReplyInFlight(q)
    BY <1>0, <1>2, <1>s, ReplyElsewhere
  <2>5. \A q \in Requests \ {x} : Untouched(q)
    BY <1>u, <2>3, <2>4 DEF Untouched
  <2>6. /\ pending[x] # NoSandbox \/ timer[x] = "sending" => ~ ReplyInFlight(x)
        /\ timer[x] = "sending" => "reply" \notin got[x] /\ pending[x] = NoSandbox
        /\ pending[x] # NoSandbox => "reply" \notin got[x] /\ "timeout" \notin got[x]
    BY NoReplyYet DEF RaceInv, Racing, TimersMatchPending
  <2>7. Move(x)
    BY <1>u, <2>2, <2>3, <2>4, <2>6, MappedNowAndNext DEF Mapped, Move
  <2> QED
    BY <2>5, <2>7, MoveOne
<1>3. CASE (Delivered(c) \/ DeliveryFails(c)) /\ op[c] \notin {"reply", "request"}
  BY <1>3, <1>q DEF Delivered, DeliveryFails, tracking
<1>4. CASE Delivered(c) /\ op[c] = "request"
  BY <1>4, <1>q DEF Delivered, tracking
<1>5. CASE Responded(c)
  <2>1. /\ answer[c] \notin {"reply", "timeout"} /\ pc[c] = "respond"
        /\ UNCHANGED <<pending, timer>>
    BY <1>0, <1>5 DEF HandlerTypes, Answers, Responded, tracking
  <2>2. \A q \in Requests, f \in {"reply", "timeout"} : f \in got'[q] <=> f \in got[q]
    BY <1>0, <1>5, <2>1 DEF Responded, HistoryTypes
  <2> QED
    BY <1>q, <2>1, <2>2
<1>6. CASE GatherDone(c)
  BY <1>6, <1>q DEF GatherDone, tracking, history
<1> QED
  BY <1>1, <1>2, <1>3, <1>4, <1>5, <1>6 DEF Progress

LEMMA TimerMoves ==
  ASSUME TypeInv, RaceInv, NEW r \in Requests, TimerFires(r) \/ TimeoutSent(r)
  PROVE  [Abstract!Next]_(Abstract!vars)
<1>0. TrackingTypes /\ HistoryTypes
  BY DEF TypeInv, TypeOK
<1>1. UNCHANGED <<pc, op, req, issuer>> /\ \A q : ReplyInFlight(q)' <=> ReplyInFlight(q)
  BY DEF TimerFires, TimeoutSent, handlers, ReplyInFlight
<1>2. \A q \in Requests \ {r} :
        pending'[q] = pending[q] /\ timer'[q] = timer[q] /\ got'[q] = got[q]
  BY <1>0 DEF TimerFires, TimeoutSent, TrackingTypes, HistoryTypes
<1>3. \A q \in Requests \ {r} : Untouched(q)
  BY <1>1, <1>2 DEF Untouched
<1>4. CASE TimerFires(r)
  <2>1. /\ pending[r] # NoSandbox /\ got[r] \cap {"reply", "timeout"} = {}
        /\ issuer[r] # NoConn /\ ~ ReplyInFlight(r)
    BY <1>4, BrokerConstants, NoReplyYet
    DEF TimerFires, RaceInv, TimersMatchPending, Racing, Owned
  <2>2. pending'[r] = NoSandbox /\ got' = got
    BY <1>0, <1>4, <2>1 DEF TimerFires, TrackingTypes
  <2>3. Move(r)
    BY <1>1, <2>1, <2>2, MappedNowAndNext DEF Mapped, Move
  <2> QED
    BY <1>3, <2>3, MoveOne
<1>5. CASE TimeoutSent(r)
  <2>1. /\ timer[r] = "sending" /\ timer'[r] = "off" /\ pending'[r] = pending[r]
        /\ got'[r] = got[r] \/ got'[r] = got[r] \cup {"timeout"}
    BY <1>0, <1>5 DEF TimeoutSent, TrackingTypes, HistoryTypes
  <2>2. /\ pending[r] = NoSandbox /\ "reply" \notin got[r] /\ issuer[r] # NoConn
        /\ ~ ReplyInFlight(r)
    BY <2>1, NoReplyYet DEF RaceInv, TimersMatchPending, Racing, Unissued
  <2>3. Move(r)
    BY <1>1, <2>1, <2>2, MappedNowAndNext DEF Mapped, Move
  <2> QED
    BY <1>3, <2>3, MoveOne
<1> QED
  BY <1>4, <1>5

\* Forgetting tracked requests is a Drop.
LEMMA CancelMoves ==
  ASSUME TypeInv, RaceInv, NEW rs \in SUBSET Requests, CancelPending(rs),
         \A r \in rs : pending[r] # NoSandbox, UNCHANGED <<issuer, got>>,
         \A q \in Requests : ReplyInFlight(q)' <=> ReplyInFlight(q)
  PROVE  [Abstract!Next]_(Abstract!vars)
<1>1. \A q \in Requests \ rs : status'[q] = status[q] /\ frame'[q] = frame[q]
  <2>1. \A q \in Requests \ rs : Untouched(q)
    BY DEF CancelPending, Untouched
  <2> QED
    BY <2>1, UntouchedMapped
<1>2. ASSUME NEW q \in rs
      PROVE  status[q] = "open" /\ status'[q] = "closed" /\ frame'[q] = frame[q]
  <2>1. /\ pending[q] # NoSandbox /\ pending'[q] = NoSandbox /\ timer'[q] = "off"
        /\ got[q] \cap {"reply", "timeout"} = {} /\ issuer[q] # NoConn /\ ~ ReplyInFlight(q)
    BY <1>2, BrokerConstants, NoReplyYet
    DEF CancelPending, RaceInv, TimersMatchPending, Racing, Owned
  <2> QED
    BY <1>2, <2>1, MappedNowAndNext DEF Mapped
<1>3. /\ status' = [q \in Requests |-> status'[q]]
      /\ frame = [q \in Requests |-> frame[q]] /\ frame' = [q \in Requests |-> frame'[q]]
  BY DEF status, frame
<1> HIDE DEF status, frame
<1>4. Abstract!Drop(rs)
  BY <1>1, <1>2, <1>3 DEF Abstract!Drop
<1> QED
  BY <1>4 DEF Abstract!Next

LEMMA NextImplements ==
  TypeInv /\ RaceInv /\ [Next]_vars => [Abstract!Next]_(Abstract!vars)
<1> SUFFICES ASSUME TypeInv, RaceInv, [Next]_vars PROVE [Abstract!Next]_(Abstract!vars)
  OBVIOUS
<1>0. HandlerTypes
  BY DEF TypeInv, TypeOK
<1>u. ASSUME UNCHANGED <<pc, op, req, issuer, pending, timer, got>>
      PROVE  [Abstract!Next]_(Abstract!vars)
  BY <1>u, MoveNone DEF Untouched, ReplyInFlight
<1>1. ASSUME NEW c \in Conns, NEW s \in Sandboxes, Handshake(c, s)
      PROVE  [Abstract!Next]_(Abstract!vars)
  <2>1. /\ pc[c] = "none" /\ pc' = [pc EXCEPT ![c] = "recv"]
        /\ UNCHANGED <<op, req, issuer, pending, timer, got>>
    BY <1>1 DEF Handshake, tracking, RaceInv, Started
  <2> QED
    BY <1>0, <2>1, MoveNone DEF Untouched, ReplyInFlight, HandlerTypes
<1>2. ASSUME NEW c \in Conns, HandlerLeaves(c)
      PROVE  [Abstract!Next]_(Abstract!vars)
  <2>0. /\ sid[c] \in Sandboxes /\ pc[c] = "recv" /\ UNCHANGED <<op, req, issuer, got>>
    BY <1>2 DEF HandlerLeaves, history, TypeInv, SidKnown
  <2>1. \A q : ReplyInFlight(q)' <=> ReplyInFlight(q)
    BY <1>0, <1>2, <2>0 DEF HandlerLeaves, unregister, ReplyInFlight, HandlerTypes
  <2>2. CASE connections[sid[c]] # c
    BY <1>2, <2>0, <2>1, <2>2, MoveNone DEF HandlerLeaves, unregister, tracking, Untouched
  <2>3. CASE connections[sid[c]] = c
    <3>1. CancelPending(PendingOf(sid[c]))
      BY <1>2, <2>3 DEF HandlerLeaves, unregister, CleanUp
    <3>2. /\ PendingOf(sid[c]) \in SUBSET Requests
          /\ \A r \in PendingOf(sid[c]) : pending[r] # NoSandbox
      BY <2>0, BrokerConstants DEF PendingOf
    <3> QED
      BY <2>0, <2>1, <3>1, <3>2, CancelMoves
  <2> QED
    BY <2>2, <2>3
<1>3. ASSUME NEW c \in Conns, TransportCloses(c)
      PROVE  [Abstract!Next]_(Abstract!vars)
  BY <1>3, <1>u DEF TransportCloses, tracking, handlers, history
<1>4. ASSUME NEW c \in Conns, Dispatch(c) \/ Progress(c)
      PROVE  [Abstract!Next]_(Abstract!vars)
  BY <1>4, DispatchMoves, ProgressMoves
<1>5. ASSUME NEW r \in Requests, TimerFires(r) \/ TimeoutSent(r)
      PROVE  [Abstract!Next]_(Abstract!vars)
  BY <1>5, TimerMoves
<1>6. CASE StopEnds
  <2>1. /\ CancelPending({r \in Requests : pending[r] # NoSandbox})
        /\ UNCHANGED <<pc, op, req, issuer, got>>
    BY <1>6 DEF StopEnds, handlers, history
  <2>2. \A q \in Requests : ReplyInFlight(q)' <=> ReplyInFlight(q)
    BY <2>1 DEF ReplyInFlight
  <2> QED
    BY <2>1, <2>2, CancelMoves
<1>7. CASE StopBegins \/ UNCHANGED vars
  BY <1>7, <1>u DEF StopBegins, vars, tracking, handlers, history
<1> QED
  BY <1>1, <1>2, <1>3, <1>4, <1>5, <1>6, <1>7 DEF Next, Stopped

\* Whatever interleaving of handlers, timeout tasks, roll-backs, disconnections
\* and shutdown: a request is accepted or refused once, decided once, and its
\* requester is sent no frame but that of the decision.
THEOREM ImplementsRequestReplySafety == Spec => Abstract!Spec
<1>1. Init => Abstract!Init
  BY BrokerConstants DEF Init, Abstract!Init, status, frame, ReplyInFlight
<1> QED
  BY <1>1, InitTypeInv, NextTypeInv, InitRaceInv, NextRaceInv, NextImplements, PTL
  DEF Spec, Abstract!Spec

-----------------------------------------------------------------------------
(* Subscriptions *)

\* Only the subscription handlers and the clean-up write the two maps.
LEMMA MapsWrittenBy ==
  ASSUME [Next]_vars
  PROVE  \/ UNCHANGED <<channels, sandbox_channels>>
         \/ \E c \in Conns, ch \in Channels : HandleSubscribe(c, ch)
         \/ \E c \in Conns, ch \in Channels : HandleUnsubscribe(c, ch)
         \/ \E c \in Conns : HandlerLeaves(c) /\ CleanUp(sid[c])
<1> USE DEF registry
<1>1. ASSUME NEW c \in Conns, Dispatch(c),
             \A ch \in Channels : ~HandleSubscribe(c, ch) /\ ~HandleUnsubscribe(c, ch)
      PROVE  UNCHANGED <<channels, sandbox_channels>>
  BY <1>1 DEF Dispatch, InvalidFrame, HandleSend, HandleStream, route, HandleRequest,
     HandleReply, HandlePublish
<1>2. ASSUME NEW c \in Conns, Progress(c) PROVE UNCHANGED <<channels, sandbox_channels>>
  BY <1>2 DEF Progress, Delivered, DeliveryFails, Responded, GatherDone
<1>3. ASSUME NEW c \in Conns, HandlerLeaves(c)
      PROVE  UNCHANGED <<channels, sandbox_channels>> \/ CleanUp(sid[c])
  BY <1>3 DEF HandlerLeaves, unregister
<1>4. ASSUME \/ \E c \in Conns, s \in Sandboxes : Handshake(c, s)
             \/ \E c \in Conns : TransportCloses(c)
             \/ \E r \in Requests : TimerFires(r) \/ TimeoutSent(r)
             \/ StopBegins \/ StopEnds \/ UNCHANGED vars
      PROVE  UNCHANGED <<channels, sandbox_channels>>
  BY <1>4 DEF Handshake, TransportCloses, TimerFires, TimeoutSent, StopBegins,
     StopEnds, vars
<1> QED
  BY <1>1, <1>2, <1>3, <1>4 DEF Next, Stopped

LEMMA NextChannelMaps == TypeInv /\ ChannelMapsAgree /\ [Next]_vars => ChannelMapsAgree'
<1> SUFFICES ASSUME TypeInv, ChannelMapsAgree, [Next]_vars PROVE ChannelMapsAgree'
  OBVIOUS
<1>0. RegistryTypes /\ \A c \in Conns : pc[c] = "recv" => sid[c] \in Sandboxes
  BY DEF TypeInv, TypeOK, SidKnown
<1>1. CASE UNCHANGED <<channels, sandbox_channels>>
  BY <1>1 DEF ChannelMapsAgree
<1>2. ASSUME NEW c \in Conns, NEW ch \in Channels, HandleSubscribe(c, ch)
      PROVE  ChannelMapsAgree'
  BY <1>0, <1>2 DEF HandleSubscribe, Receives, registry, RegistryTypes, ChannelMapsAgree
<1>3. ASSUME NEW c \in Conns, NEW ch \in Channels, HandleUnsubscribe(c, ch)
      PROVE  ChannelMapsAgree'
  BY <1>0, <1>3 DEF HandleUnsubscribe, Receives, RegistryTypes, ChannelMapsAgree
<1>4. ASSUME NEW c \in Conns, HandlerLeaves(c), CleanUp(sid[c]) PROVE ChannelMapsAgree'
  BY <1>0, <1>4 DEF HandlerLeaves, CleanUp, RegistryTypes, ChannelMapsAgree
<1> QED
  BY <1>1, <1>2, <1>3, <1>4, MapsWrittenBy

\* _channels and _sandbox_channels are each other's inverse for ever.
THEOREM SubscriptionMapsAgree == Spec => []ChannelMapsAgree
<1>1. Init => ChannelMapsAgree
  BY DEF Init, ChannelMapsAgree
<1> QED
  BY <1>1, InitTypeInv, NextTypeInv, NextChannelMaps, PTL DEF Spec

-----------------------------------------------------------------------------
(* The connection table *)

\* A step that takes an entry out of _connections is the closed owner leaving.
LEMMA StepKeepsConnections ==
  ASSUME TypeInv, [Next]_vars, NEW s \in Sandboxes, connections[s] # NoConn,
         connections'[s] # connections[s]
  PROVE  connections'[s] = NoConn /\ ws[connections[s]] = "closed"
<1> USE DEF registry
<1>1. ASSUME NEW c \in Conns, NEW t \in Sandboxes, Handshake(c, t) PROVE FALSE
  BY <1>1 DEF Handshake, register, TypeInv, TypeOK, RegistryTypes
<1>2. ASSUME NEW c \in Conns, HandlerLeaves(c)
      PROVE  connections'[s] = NoConn /\ ws[connections[s]] = "closed"
  BY <1>2 DEF HandlerLeaves, unregister, CleanUp, TypeInv, TypeOK, RegistryTypes
<1>3. ASSUME NEW c \in Conns, Dispatch(c) \/ Progress(c) PROVE FALSE
  BY <1>3 DEF Dispatch, InvalidFrame, HandleSend, HandleStream, route, HandleRequest,
     HandleReply, HandleSubscribe, HandleUnsubscribe, HandlePublish,
     Progress, Delivered, DeliveryFails, Responded, GatherDone
<1>4. ASSUME \/ \E c \in Conns : TransportCloses(c)
             \/ \E r \in Requests : TimerFires(r) \/ TimeoutSent(r)
             \/ StopBegins \/ StopEnds \/ UNCHANGED vars
      PROVE  FALSE
  BY <1>4 DEF TransportCloses, TimerFires, TimeoutSent, StopBegins, StopEnds, vars
<1> QED
  BY <1>1, <1>2, <1>3, <1>4 DEF Next, Stopped

\* A registered connection leaves the table only because its own socket closed:
\* never replaced by a newcomer, never removed by a duplicate that leaves.
THEOREM NeverDisplaced == Spec => ConnectionsNotDisplaced
<1>1. TypeInv /\ [Next]_vars =>
        [\A s \in Sandboxes :
           connections[s] # NoConn /\ connections'[s] # connections[s]
           => connections'[s] = NoConn /\ ws[connections[s]] = "closed"]_vars
  BY StepKeepsConnections
<1> QED
  BY <1>1, InitTypeInv, NextTypeInv, PTL DEF Spec, ConnectionsNotDisplaced

-----------------------------------------------------------------------------
(* The in-flight counts *)

\* No count exceeds the tracked requests of its sandbox.
CountsBounded == \A s \in Sandboxes : pending_counts[s] <= Cardinality(PendingOf(s))

LEMMA PendingFinite ==
  \A s : IsFiniteSet(PendingOf(s)) /\ Cardinality(PendingOf(s)) \in Nat
<1> TAKE s
<1>1. PendingOf(s) \subseteq Requests
  BY DEF PendingOf
<1> QED
  BY <1>1, BrokerConstants, FS_Subset, FS_CardinalityType

\* Starting to track a request is worth exactly one more.
LEMMA TrackOne ==
  ASSUME TypeInv, CountsBounded, NEW r \in Requests, NEW s \in Sandboxes,
         pending[r] = NoSandbox,
         pending' = [pending EXCEPT ![r] = s],
         pending_counts' = [pending_counts EXCEPT ![s] = @ + 1]
  PROVE  CountsBounded'
<1> USE DEF TypeInv, TypeOK, TrackingTypes
<1> SUFFICES ASSUME NEW t \in Sandboxes
             PROVE  pending_counts'[t] <= Cardinality(PendingOf(t)')
  BY DEF CountsBounded
<1>1. pending_counts[t] <= Cardinality(PendingOf(t)) /\ pending_counts[t] \in Nat
  BY DEF CountsBounded
<1>2. CASE t = s
  <2>1. PendingOf(s)' = PendingOf(s) \cup {r} /\ r \notin PendingOf(s)
    BY BrokerConstants DEF PendingOf
  <2>2. Cardinality(PendingOf(s)') = Cardinality(PendingOf(s)) + 1
    BY <2>1, PendingFinite, FS_AddElement
  <2>3. pending_counts'[t] = pending_counts[t] + 1
    BY <1>2
  <2> QED
    BY <1>1, <1>2, <2>2, <2>3, PendingFinite
<1>3. CASE t # s
  <2>1. PendingOf(t)' = PendingOf(t)
    BY <1>3, BrokerConstants DEF PendingOf
  <2> QED
    BY <1>1, <1>3, <2>1
<1> QED
  BY <1>2, <1>3

\* Dropping a request of s and decrementing the count of s; a request that was
\* dropped before costs s a second decrement, which the floor absorbs.
LEMMA DropOne ==
  ASSUME TypeInv, CountsBounded, NEW r \in Requests, NEW s \in Sandboxes,
         pending[r] \in {s, NoSandbox},
         pending' = [pending EXCEPT ![r] = NoSandbox],
         pending_counts' = [pending_counts EXCEPT ![s] = Decremented(@)]
  PROVE  CountsBounded'
<1> USE DEF TypeInv, TypeOK, TrackingTypes
<1> SUFFICES ASSUME NEW t \in Sandboxes
             PROVE  pending_counts'[t] <= Cardinality(PendingOf(t)')
  BY DEF CountsBounded
<1>1. pending_counts[t] <= Cardinality(PendingOf(t)) /\ pending_counts[t] \in Nat
  BY DEF CountsBounded
<1>2. CASE t = s
  <2>0. pending_counts'[t] = Decremented(pending_counts[t])
    BY <1>2
  <2>1. CASE pending[r] = s
    <3>1. PendingOf(s)' = PendingOf(s) \ {r} /\ r \in PendingOf(s)
      BY <2>1, BrokerConstants DEF PendingOf
    <3>2. Cardinality(PendingOf(s)') = Cardinality(PendingOf(s)) - 1
      BY <3>1, PendingFinite, FS_RemoveElement
    <3>3. Cardinality(PendingOf(s)') \in Nat
      BY <3>1, PendingFinite, FS_RemoveElement, FS_CardinalityType
    <3> QED
      BY <1>1, <1>2, <2>0, <3>2, <3>3, PendingFinite DEF Decremented
  <2>2. CASE pending[r] = NoSandbox
    <3>1. PendingOf(s)' = PendingOf(s)
      BY <2>2 DEF PendingOf
    <3> QED
      BY <1>1, <1>2, <2>0, <3>1, PendingFinite DEF Decremented
  <2> QED
    BY <2>1, <2>2
<1>3. CASE t # s
  <2>1. PendingOf(t)' = PendingOf(t)
    BY <1>3, BrokerConstants DEF PendingOf
  <2> QED
    BY <1>1, <1>3, <2>1
<1> QED
  BY <1>2, <1>3

LEMMA NextCountsBounded ==
  ASSUME TypeInv, RaceInv, CountsBounded, [Next]_vars, lifecycle' # "stopped"
  PROVE  CountsBounded'
<1>0. TrackingTypes /\ HandlerTypes /\ SidKnown
  BY DEF TypeInv, TypeOK
<1>u. ASSUME UNCHANGED <<pending, pending_counts>> PROVE CountsBounded'
  BY <1>u DEF CountsBounded, PendingOf
<1> USE DEF tracking
<1>1. ASSUME NEW c \in Conns, Dispatch(c) PROVE CountsBounded'
  <2>1. ASSUME NEW r \in Requests, NEW to \in Sandboxes, HandleRequest(c, r, to)
        PROVE  CountsBounded'
    <3>1. pending[r] = NoSandbox /\ sid[c] \in Sandboxes
      BY <1>0, <2>1 DEF HandleRequest, Receives, RaceInv, Unissued, SidKnown
    <3> QED
      BY <1>u, <2>1, <3>1, TrackOne DEF HandleRequest
  <2>2. ASSUME NEW r \in Requests, HandleReply(c, r) PROVE CountsBounded'
    <3>1. CASE pending[r] = NoSandbox
      BY <1>u, <2>2, <3>1 DEF HandleReply
    <3>2. CASE pending[r] # NoSandbox
      <4>1. pending[r] \in Sandboxes /\ pending' = [pending EXCEPT ![r] = NoSandbox]
        BY <1>0, <2>2, <3>2 DEF HandleReply, CancelPending, TrackingTypes
      <4> QED
        BY <2>2, <3>2, <4>1, DropOne DEF HandleReply
    <3> QED
      BY <3>1, <3>2
  <2> QED
    BY <1>u, <1>1, <2>1, <2>2 DEF Dispatch, InvalidFrame, HandleSend, HandleStream,
       route, HandleSubscribe, HandleUnsubscribe, HandlePublish
<1>2. ASSUME NEW c \in Conns, Progress(c) PROVE CountsBounded'
  <2>1. CASE DeliveryFails(c) /\ op[c] = "request"
    <3>1. /\ req[c] \in Requests /\ issuer[req[c]] = c /\ sid[c] \in Sandboxes
          /\ RollBack(req[c], sid[c])
      BY <1>0, <2>1 DEF DeliveryFails, RaceInv, Handling, SidKnown
    <3>2. pending[req[c]] \in {sid[c], NoSandbox}
      BY <3>1 DEF RaceInv, Owned
    <3> QED
      BY <3>1, <3>2, DropOne DEF RollBack
  <2> QED
    BY <1>u, <1>2, <2>1 DEF Progress, Delivered, DeliveryFails, Responded, GatherDone
<1>3. ASSUME NEW c \in Conns, HandlerLeaves(c) PROVE CountsBounded'
  <2>1. CASE ~CleanUp(sid[c])
    BY <1>u, <1>3, <2>1 DEF HandlerLeaves, unregister
  <2>2. CASE CleanUp(sid[c])
    <3> SUFFICES ASSUME NEW t \in Sandboxes
                 PROVE  pending_counts'[t] <= Cardinality(PendingOf(t)')
      BY DEF CountsBounded
    <3>1. Cardinality(PendingOf(t)') \in Nat
      <4>1. PendingOf(t)' \subseteq Requests
        BY DEF PendingOf
      <4> QED
        BY <4>1, BrokerConstants, FS_Subset, FS_CardinalityType
    <3>2. CASE t = sid[c]
      BY <1>0, <2>2, <3>1, <3>2 DEF CleanUp, TrackingTypes
    <3>3. CASE t # sid[c]
      <4>1. PendingOf(t)' = PendingOf(t)
        BY <2>2, <3>3, BrokerConstants DEF CleanUp, CancelPending, PendingOf
      <4> QED
        BY <1>0, <2>2, <3>3, <4>1 DEF CleanUp, TrackingTypes, CountsBounded
    <3> QED
      BY <3>2, <3>3
  <2> QED
    BY <2>1, <2>2
<1>4. ASSUME NEW r \in Requests, TimerFires(r) PROVE CountsBounded'
  <2>1. CASE pending[r] = NoSandbox
    BY <1>u, <1>4, <2>1 DEF TimerFires
  <2>2. CASE pending[r] # NoSandbox
    BY <1>0, <1>4, <2>2, DropOne DEF TimerFires, TrackingTypes
  <2> QED
    BY <2>1, <2>2
<1>5. ASSUME \/ \E c \in Conns, s \in Sandboxes : Handshake(c, s)
             \/ \E c \in Conns : TransportCloses(c)
             \/ \E r \in Requests : TimeoutSent(r)
             \/ StopBegins \/ UNCHANGED vars
      PROVE  CountsBounded'
  BY <1>u, <1>5 DEF Handshake, TransportCloses, TimeoutSent, StopBegins, vars
<1>6. CASE StopEnds
  BY <1>6 DEF StopEnds
<1> QED
  BY <1>1, <1>2, <1>3, <1>4, <1>5, <1>6 DEF Next, Stopped

\* A stopped broker stays stopped.
LEMMA StoppedForEver == [Next]_vars /\ lifecycle = "stopped" => lifecycle' = "stopped"
BY DEF Next, Handshake, TransportCloses, HandlerLeaves, Dispatch, InvalidFrame, HandleSend,
   HandleStream, route, HandleRequest, HandleReply, HandleSubscribe, HandleUnsubscribe,
   HandlePublish, Receives, Progress, Delivered, DeliveryFails, Responded, GatherDone,
   TimerFires, TimeoutSent, StopBegins, StopEnds, Stopped, vars

\* _pending_counts never charges a sandbox for a request that is no longer in
\* flight, whichever of the four paths that decrement it ran and in which order.
THEOREM CountsHonest == Spec => []CountsNeverOverstate
<1>1. Init => CountsNeverOverstate
  <2> SUFFICES ASSUME Init PROVE CountsBounded
    BY DEF CountsBounded, CountsNeverOverstate
  <2> QED
    BY PendingFinite DEF Init, CountsBounded
<1>2. TypeInv /\ RaceInv /\ CountsNeverOverstate /\ [Next]_vars => CountsNeverOverstate'
  <2> SUFFICES ASSUME TypeInv, RaceInv, CountsNeverOverstate, [Next]_vars,
                      lifecycle' # "stopped"
               PROVE  CountsBounded'
    BY DEF CountsBounded, CountsNeverOverstate
  <2>1. CountsBounded
    BY StoppedForEver DEF CountsBounded, CountsNeverOverstate
  <2> QED
    BY <2>1, NextCountsBounded
<1> QED
  BY <1>1, <1>2, InitTypeInv, NextTypeInv, InitRaceInv, NextRaceInv, PTL DEF Spec
-----------------------------------------------------------------------------
(* What a departed sandbox leaves behind *)

\* A running handler belongs to the registered connection of its id or to a
\* duplicate that was turned away, and a duplicate keeps its id.
Registered ==
  /\ \A c \in Conns : pc[c] \in {"recv", "deliver", "fanout", "respond"} =>
                        c \in rejected \/ connections[sid[c]] = c
  /\ \A c \in rejected : ws[c] # "new"

\* Nothing of sandbox s is left.
Clean(s) == sandbox_channels[s] = {} /\ PendingOf(s) = {} /\ pending_counts[s] = 0

CleanInv == Registered /\ CleanedUpUnlessDuplicated

LEMMA InitCleanInv == Init => CleanInv
BY BrokerConstants DEF Init, CleanInv, Registered, CleanedUpUnlessDuplicated, PendingOf

\* Forgetting requests and decrementing counts leaves a clean sandbox clean.
LEMMA StaysClean ==
  ASSUME TypeInv, NEW s \in Sandboxes, Clean(s), sandbox_channels'[s] = {},
         \A r \in Requests : pending'[r] \in {pending[r], NoSandbox},
         pending_counts'[s] \in {pending_counts[s], Decremented(pending_counts[s])}
  PROVE  Clean(s)'
BY BrokerConstants DEF Clean, PendingOf, Decremented

LEMMA NextCleanInv == TypeInv /\ RaceInv /\ CleanInv /\ [Next]_vars => CleanInv'
<1> SUFFICES ASSUME TypeInv, RaceInv, CleanInv, [Next]_vars PROVE CleanInv'
  OBVIOUS
<1>0. /\ ConnectionTypes /\ RegistryTypes /\ TrackingTypes /\ HandlerTypes /\ HistoryTypes
      /\ SidKnown /\ Started /\ Registered
  BY DEF TypeInv, TypeOK, RaceInv, CleanInv
<1>c. ASSUME NEW s \in Sandboxes, connections[s] = NoConn, \A c \in rejected : sid[c] # s
      PROVE  Clean(s)
  BY <1>c DEF CleanInv, CleanedUpUnlessDuplicated, Clean
<1>p. (\A s \in Sandboxes : \/ connections'[s] # NoConn
                            \/ \E c \in rejected' : sid'[c] = s
                            \/ Clean(s)') => CleanedUpUnlessDuplicated'
  BY DEF CleanedUpUnlessDuplicated, Clean
\* A step of a handler that is running, for its own sandbox and for others.
<1>h. ASSUME NEW c \in Conns, pc[c] \in {"recv", "deliver", "fanout", "respond"},
             UNCHANGED <<connections, rejected, sid, ws>>,
             \A d \in Conns \ {c} : pc'[d] = pc[d],
             \A s \in Sandboxes \ {sid[c]} :
               /\ sandbox_channels'[s] = sandbox_channels[s]
               /\ pending_counts'[s] \in {pending_counts[s], Decremented(pending_counts[s])},
             \A r \in Requests : pending'[r] \in {pending[r], NoSandbox, sid[c]}
      PROVE  CleanInv'
  <2>1. sid[c] \in Sandboxes
    BY <1>0, <1>h DEF SidKnown
  <2>2. Registered'
    BY <1>0, <1>h DEF Registered
  <2>3. ASSUME NEW s \in Sandboxes, connections[s] = NoConn, \A d \in rejected : sid[d] # s
        PROVE  Clean(s)'
    <3>1. s # sid[c]
      BY <1>0, <1>h, <2>3, BrokerConstants DEF Registered
    <3>2. Clean(s)
      BY <1>c, <2>3
    <3> QED
      BY <1>h, <3>1, <3>2, BrokerConstants DEF Clean, PendingOf, Decremented
  <2> QED
    BY <1>h, <1>p, <2>2, <2>3 DEF CleanInv
<1> USE DEF registry, tracking, handlers, history
<1>1. ASSUME NEW c \in Conns, NEW s \in Sandboxes, Handshake(c, s) PROVE CleanInv'
  <2>1. /\ ws[c] = "new" /\ ws' = [ws EXCEPT ![c] = "open"]
        /\ sid' = [sid EXCEPT ![c] = s] /\ pc' = [pc EXCEPT ![c] = "recv"]
        /\ UNCHANGED <<sandbox_channels, pending, pending_counts>>
        /\ \/ /\ connections[s] = NoConn /\ connections' = [connections EXCEPT ![s] = c]
              /\ rejected' = rejected
           \/ /\ connections[s] # NoConn /\ connections' = connections
              /\ rejected' = rejected \cup {c}
    BY <1>1 DEF Handshake, register
  <2>2. c \notin rejected /\ pc[c] = "none"
    BY <1>0, <2>1 DEF Registered, Started
  <2>4. Registered'
    <3>1. \A d \in rejected' : ws'[d] # "new"
      BY <1>0, <2>1 DEF Registered, ConnectionTypes, HistoryTypes
    <3>2. ASSUME NEW d \in Conns, pc'[d] \in {"recv", "deliver", "fanout", "respond"}
          PROVE  d \in rejected' \/ connections'[sid'[d]] = d
      <4>1. CASE d = c
        BY <1>0, <2>1, <4>1 DEF RegistryTypes, ConnectionTypes
      <4>2. CASE d # c
        <5>1. d \in rejected \/ connections[sid[d]] = d
          BY <1>0, <2>1, <3>2, <4>2 DEF Registered, HandlerTypes
        <5>2. sid'[d] = sid[d] /\ sid[d] \in Sandboxes
          BY <1>0, <2>1, <3>2, <4>2 DEF SidKnown, ConnectionTypes, HandlerTypes
        <5> QED
          BY <1>0, <2>1, <5>1, <5>2, BrokerConstants DEF RegistryTypes
      <4> QED
        BY <4>1, <4>2
    <3> QED
      BY <3>1, <3>2 DEF Registered
  <2>5. ASSUME NEW t \in Sandboxes, connections'[t] = NoConn, \A d \in rejected' : sid'[d] # t
        PROVE  Clean(t)'
    <3>1. connections[t] = NoConn /\ \A d \in rejected : sid[d] # t
      BY <1>0, <2>1, <2>2, <2>5, BrokerConstants DEF RegistryTypes, ConnectionTypes,
         HistoryTypes
    <3> QED
      BY <1>c, <2>1, <3>1 DEF Clean, PendingOf
  <2> QED
    BY <1>p, <2>4, <2>5 DEF CleanInv
<1>2. ASSUME NEW c \in Conns, HandlerLeaves(c) PROVE CleanInv'
  <2>0. /\ sid[c] \in Sandboxes /\ pc[c] = "recv" /\ UNCHANGED <<ws, sid, rejected>>
    BY <1>0, <1>2 DEF HandlerLeaves, SidKnown
  <2>1. CASE connections[sid[c]] # c
    <3>1. pc' = [pc EXCEPT ![c] = "exited"] /\ UNCHANGED <<registry, tracking>>
      BY <1>2, <2>1 DEF HandlerLeaves, unregister
    <3> QED
      BY <1>0, <1>h, <2>0, <3>1 DEF HandlerTypes
  <2>2. CASE connections[sid[c]] = c
    <3>1. CleanUp(sid[c]) /\ pc' = [pc EXCEPT ![c] = "shutdown"]
      BY <1>2, <2>2 DEF HandlerLeaves, unregister
    <3>2. Registered'
      BY <1>0, <2>0, <2>2, <3>1 DEF CleanUp, Registered, RegistryTypes, HandlerTypes, SidKnown
    <3>3. Clean(sid[c])'
      BY <1>0, <2>0, <3>1, BrokerConstants
      DEF CleanUp, CancelPending, Clean, PendingOf, RegistryTypes, TrackingTypes
    <3>4. ASSUME NEW s \in Sandboxes, s # sid[c], connections'[s] = NoConn,
                 \A d \in rejected' : sid'[d] # s
          PROVE  Clean(s)'
      <4>1. Clean(s)
        BY <1>0, <1>c, <2>0, <3>1, <3>4 DEF CleanUp, RegistryTypes
      <4> QED
        BY <1>0, <2>0, <3>1, <3>4, <4>1, StaysClean
        DEF CleanUp, CancelPending, Clean, RegistryTypes, TrackingTypes
    <3> QED
      BY <1>p, <2>0, <3>2, <3>3, <3>4 DEF CleanInv
  <2> QED
    BY <2>1, <2>2
<1>3. ASSUME NEW c \in Conns, Dispatch(c) PROVE CleanInv'
  <2>0. /\ pc[c] = "recv" /\ sid[c] \in Sandboxes
        /\ UNCHANGED <<ws, sid, rejected, connections>>
    BY <1>0, <1>3 DEF Dispatch, InvalidFrame, HandleSend, HandleStream, route, HandleRequest,
       HandleReply, HandleSubscribe, HandleUnsubscribe, HandlePublish, Receives, SidKnown
  <2>1. \A d \in Conns \ {c} : pc'[d] = pc[d]
    BY <1>0, <1>3 DEF Dispatch, InvalidFrame, HandleSend, HandleStream, route, HandleRequest,
       HandleReply, HandleSubscribe, HandleUnsubscribe, HandlePublish, Respond, Deliver,
       ReadNext, Suspend, HandlerTypes
  <2>2. \A s \in Sandboxes \ {sid[c]} : sandbox_channels'[s] = sandbox_channels[s]
    BY <1>0, <1>3 DEF Dispatch, InvalidFrame, HandleSend, HandleStream, route, HandleRequest,
       HandleReply, HandleSubscribe, HandleUnsubscribe, HandlePublish, RegistryTypes
  <2>3. \A s \in Sandboxes \ {sid[c]} :
          pending_counts'[s] \in {pending_counts[s], Decremented(pending_counts[s])}
    BY <1>0, <1>3 DEF Dispatch, InvalidFrame, HandleSend, HandleStream, route, HandleRequest,
       HandleReply, HandleSubscribe, HandleUnsubscribe, HandlePublish, TrackingTypes
  <2>4. \A r \in Requests : pending'[r] \in {pending[r], NoSandbox, sid[c]}
    BY <1>0, <1>3 DEF Dispatch, InvalidFrame, HandleSend, HandleStream, route, HandleRequest,
       HandleReply, CancelPending, HandleSubscribe, HandleUnsubscribe, HandlePublish,
       TrackingTypes
  <2> QED
    BY <1>h, <2>0, <2>1, <2>2, <2>3, <2>4
<1>4. ASSUME NEW c \in Conns, Progress(c), pc[c] # "shutdown" PROVE CleanInv'
  <2>0. /\ pc[c] \in {"deliver", "fanout", "respond"}
        /\ UNCHANGED <<ws, sid, rejected, registry>>
    BY <1>4 DEF Progress, Delivered, DeliveryFails, Responded, GatherDone
  <2>1. \A d \in Conns \ {c} : pc'[d] = pc[d]
    BY <1>0, <1>4 DEF Progress, Delivered, DeliveryFails, Responded, GatherDone, Respond,
       ReadNext, Suspend, HandlerTypes
  <2>2. /\ \A s \in Sandboxes \ {sid[c]} : pending_counts'[s] = pending_counts[s]
        /\ \A r \in Requests : pending'[r] \in {pending[r], NoSandbox}
    BY <1>0, <1>4 DEF Progress, Delivered, DeliveryFails, RollBack, Responded, GatherDone,
       TrackingTypes
  <2> QED
    BY <1>h, <2>0, <2>1, <2>2
\* The other steps touch neither the registries nor a running handler.
<1>o. ASSUME UNCHANGED <<registry, rejected, sid>>,
             \A c \in Conns : ws'[c] = "new" => ws[c] = "new",
             \A c \in Conns : pc'[c] = pc[c] \/ pc'[c] = "exited",
             \A r \in Requests : pending'[r] \in {pending[r], NoSandbox},
             \A s \in Sandboxes :
               pending_counts'[s] \in {pending_counts[s], Decremented(pending_counts[s])}
      PROVE  CleanInv'
  <2>1. Registered'
    BY <1>0, <1>o DEF Registered, HistoryTypes
  <2>2. ASSUME NEW s \in Sandboxes, connections[s] = NoConn, \A d \in rejected : sid[d] # s
        PROVE  Clean(s)'
    BY <1>c, <1>o, <2>2, StaysClean DEF Clean
  <2> QED
    BY <1>o, <1>p, <2>1, <2>2 DEF CleanInv
<1>5. ASSUME NEW c \in Conns, Progress(c), pc[c] = "shutdown" PROVE CleanInv'
  <2>1. GatherDone(c)
    BY <1>5 DEF Progress, Delivered, DeliveryFails, Responded
  <2> QED
    BY <1>0, <1>5, <1>o, <2>1 DEF GatherDone, Suspend, HandlerTypes
<1>6. ASSUME NEW r \in Requests, TimerFires(r) \/ TimeoutSent(r) PROVE CleanInv'
  <2>1. /\ \A q \in Requests : pending'[q] \in {pending[q], NoSandbox}
        /\ \A s \in Sandboxes :
             pending_counts'[s] \in {pending_counts[s], Decremented(pending_counts[s])}
    BY <1>0, <1>6 DEF TimerFires, TimeoutSent, TrackingTypes
  <2> QED
    BY <1>6, <1>o, <2>1 DEF TimerFires, TimeoutSent
<1>7. ASSUME NEW c \in Conns, TransportCloses(c) PROVE CleanInv'
  BY <1>0, <1>7, <1>o DEF TransportCloses, ConnectionTypes
<1>8. CASE StopBegins \/ StopEnds \/ UNCHANGED vars
  BY <1>0, <1>8, <1>o DEF StopBegins, StopEnds, CancelPending, vars, TrackingTypes
<1> QED
  BY <1>1, <1>2, <1>3, <1>4, <1>5, <1>6, <1>7, <1>8 DEF Next, Stopped

\* A sandbox that is not connected has no subscription, no tracked request and no
\* count, unless one of its connections was a duplicate: _unregister's clean-up,
\* the timeout tasks and late repliers leave nothing behind in any order.
THEOREM DepartedLeaveNothing == Spec => []CleanedUpUnlessDuplicated
<1>1. CleanInv => CleanedUpUnlessDuplicated
  BY DEF CleanInv
<1> QED
  BY <1>1, InitTypeInv, NextTypeInv, InitRaceInv, NextRaceInv, InitCleanInv, NextCleanInv,
     PTL DEF Spec
=============================================================================
