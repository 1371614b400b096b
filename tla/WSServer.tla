------------------------------ MODULE WSServer ------------------------------
(***************************************************************************)
(* server/ws.py: DownstreamWSServer.  Each connection has a handler, which *)
(* registers a consumer, greets the client, and runs a receive task (the   *)
(* client's frames become registry calls) and a forward task (the          *)
(* subscription's messages become data frames) until the first of them     *)
(* ends; then it cancels the other and unregisters the consumer.           *)
(*                                                                         *)
(* A step is what a task does between two suspension points; every send is *)
(* one.  Messages are counted, not looked at.  The connection itself is    *)
(* the environment: the client may leave or stop reading at any moment.    *)
(***************************************************************************)
EXTENDS Integers

CONSTANTS
  Clients,     \* connections; each has its own consumer id
  Topics,
  MaxQueue,    \* queue size of a consumer's subscription
  MaxDropped   \* _max_dropped_messages

ASSUME WSAssumption == MaxQueue \in Nat \ {0} /\ MaxDropped \in Nat

VARIABLES
  server,    \* the listening socket: up, stopping or stopped
  handler,   \* handler[c]: where _handler is
  recv,      \* recv[c]: where _recv_loop is
  request,   \* request[c]: the frame it is working on
  fwd,       \* fwd[c]: where _forward_loop is
  link,      \* link[c]: the connection: open; or closed with 1013 (told), for
             \* want of a pong (lost), or by the client or a shutdown (left)
  reading,   \* reading[c]: the client takes what it is sent
  queued,    \* queued[c]: messages in the subscription's queue
  dropped,   \* dropped[c]: Subscription.dropped_messages, up to MaxDropped + 1
  consumers, topics, refcount, balance   \* the registry

Registry == INSTANCE Registry WITH Consumers <- Clients

registryVars == <<consumers, topics, refcount, balance>>
queueVars    == <<queued, dropped>>
linkVars     == <<link, reading>>
wsVars == <<server, handler, recv, request, fwd, linkVars, queueVars, registryVars>>

NoRequest == [action |-> "malformed", topics |-> {}]
Requests == [action : {"subscribe", "unsubscribe"}, topics : SUBSET Topics \ {{}}]
              \cup {NoRequest}

Init ==
  /\ server = "up"
  /\ handler = [c \in Clients |-> "none"]
  /\ recv = [c \in Clients |-> "off"]
  /\ request = [c \in Clients |-> NoRequest]
  /\ fwd = [c \in Clients |-> "off"]
  /\ link = [c \in Clients |-> "none"]
  /\ reading = [c \in Clients |-> TRUE]
  /\ queued = [c \in Clients |-> 0]
  /\ dropped = [c \in Clients |-> 0]
  /\ Registry!Init

-----------------------------------------------------------------------------
(* The connection.                                                         *)

\* A close that comes after another changes nothing.
Close(c, why) ==
  /\ link' = [link EXCEPT ![c] = IF @ = "open" THEN why ELSE @]
  /\ reading' = [reading EXCEPT ![c] = TRUE]

\* The client hangs up, or the network loses it.
ClientLeaves(c) ==
  /\ link[c] = "open"
  /\ Close(c, "left")
  /\ UNCHANGED <<server, handler, recv, request, fwd, queueVars, registryVars>>

ClientStalls(c) ==
  /\ link[c] = "open" /\ reading[c]
  /\ reading' = [reading EXCEPT ![c] = FALSE]
  /\ UNCHANGED <<server, handler, recv, request, fwd, link, queueVars, registryVars>>

\* The websockets library pings clients, and closes on those that do not answer.
KeepaliveFails(c) ==
  /\ link[c] = "open" /\ ~reading[c]
  /\ Close(c, "lost")
  /\ UNCHANGED <<server, handler, recv, request, fwd, queueVars, registryVars>>

\* Server.close() closes every connection.
ServerCloses(c) ==
  /\ server = "stopping" /\ link[c] = "open"
  /\ Close(c, "left")
  /\ UNCHANGED <<server, handler, recv, request, fwd, queueVars, registryVars>>

-----------------------------------------------------------------------------
(* The bus: a message for each subscription that holds the topic, the      *)
(* oldest one dropped from a full queue.                                   *)

\* Nothing is ever dropped.
PublishUnbounded(t) ==
  LET To == {c \in consumers : t \in topics[c]}
  IN  /\ To # {}
      /\ queued' = [c \in Clients |-> IF c \in To THEN queued[c] + 1 ELSE queued[c]]
      /\ UNCHANGED <<server, handler, recv, request, fwd, linkVars, dropped, registryVars>>

Publish(t) ==
  LET To == {c \in consumers : t \in topics[c]}
      Full == {c \in To : queued[c] = MaxQueue}
  IN  /\ To # {}
      /\ queued' = [c \in Clients |-> IF c \in To \ Full THEN queued[c] + 1 ELSE queued[c]]
      /\ dropped' = [c \in Clients |-> IF c \in Full /\ dropped[c] <= MaxDropped
                                       THEN dropped[c] + 1 ELSE dropped[c]]
      /\ UNCHANGED <<server, handler, recv, request, fwd, linkVars, registryVars>>

-----------------------------------------------------------------------------
(* _handler.                                                               *)

\* Up to the welcome: the consumer is registered with no topics.
Connect(c) ==
  /\ server = "up" /\ handler[c] = "none"
  /\ handler' = [handler EXCEPT ![c] = "welcoming"]
  /\ link' = [link EXCEPT ![c] = "open"]
  /\ Registry!RegisterConsumer(c, {})
  /\ UNCHANGED <<server, recv, request, fwd, reading, queueVars>>

WelcomeReturns(c) ==
  /\ handler[c] = "welcoming" /\ link[c] = "open"
  /\ handler' = [handler EXCEPT ![c] = "serving"]
  /\ recv' = [recv EXCEPT ![c] = "reading"]
  /\ fwd' = [fwd EXCEPT ![c] = "getting"]
  /\ UNCHANGED <<server, request, linkVars, queueVars, registryVars>>

\* The "finally": the subscription is closed and its topics released.
Release(c) ==
  /\ handler' = [handler EXCEPT ![c] = "over"]
  /\ recv' = [recv EXCEPT ![c] = "off"]
  /\ request' = [request EXCEPT ![c] = NoRequest]
  /\ fwd' = [fwd EXCEPT ![c] = "off"]
  /\ queued' = [queued EXCEPT ![c] = 0]
  /\ dropped' = [dropped EXCEPT ![c] = 0]
  /\ Registry!UnregisterConsumer(c)

\* A welcome that fails ends the handler without a word to the registry.
WelcomeFailsUnregistered(c) ==
  /\ handler[c] = "welcoming" /\ link[c] # "open"
  /\ handler' = [handler EXCEPT ![c] = "over"]
  /\ UNCHANGED <<server, recv, request, fwd, linkVars, queueVars, registryVars>>

\* The send of the welcome raises ConnectionClosed.
WelcomeFails(c) ==
  /\ handler[c] = "welcoming" /\ link[c] # "open"
  /\ Release(c)
  /\ UNCHANGED <<server, linkVars>>

\* The handler waits for both tasks.
BothTasksEnd(c) ==
  /\ handler[c] = "serving"
  /\ {recv[c], fwd[c]} = {"done"}
  /\ handler' = [handler EXCEPT ![c] = "joining"]
  /\ UNCHANGED <<server, recv, request, fwd, linkVars, queueVars, registryVars>>

\* asyncio.wait returns, and the task still running is cancelled.
FirstTaskEnds(c) ==
  /\ handler[c] = "serving"
  /\ "done" \in {recv[c], fwd[c]}
  /\ handler' = [handler EXCEPT ![c] = "joining"]
  /\ UNCHANGED <<server, recv, request, fwd, linkVars, queueVars, registryVars>>

\* Both tasks have ended.  The connection is closed when the handler returns.
JoinReturns(c) ==
  /\ handler[c] = "joining"
  /\ Release(c)
  /\ Close(c, "left")
  /\ UNCHANGED server

\* Server.close() may cancel the handler where it is suspended; a cancellation
\* that comes while it joins its tasks is swallowed with theirs.
HandlerCancelled(c) ==
  /\ server = "stopping"
  /\ \/ /\ handler[c] = "serving"
        /\ handler' = [handler EXCEPT ![c] = "joining"]
        /\ UNCHANGED <<recv, request, fwd, linkVars, queueVars, registryVars>>
     \/ /\ handler[c] = "welcoming"
        /\ Release(c)
        /\ Close(c, "left")
  /\ UNCHANGED server

-----------------------------------------------------------------------------
(* _recv_loop.  It runs while the handler waits.                           *)

Serving(c) == handler[c] = "serving"

\* The topics of a valid frame are applied one after the other without a
\* suspension, then the acknowledgement is sent.  A topic already held, or one
\* to be dropped and not held, is acknowledged all the same.
Apply(c, r) ==
  LET gained == r.topics \ topics[c]
      lost == r.topics \cap topics[c]
  IN  /\ recv' = [recv EXCEPT ![c] = "acking"]
      /\ request' = [request EXCEPT ![c] = r]
      /\ IF r.action = "subscribe"
           THEN /\ topics' = [topics EXCEPT ![c] = @ \cup gained]
                /\ refcount' = Registry!IncrementRefcount(c, gained)
                /\ Registry!Fire(Registry!FirstHeld(gained), {})
           ELSE /\ topics' = [topics EXCEPT ![c] = @ \ lost]
                /\ refcount' = Registry!DecrementRefcount(c, lost)
                /\ Registry!Fire({}, Registry!LastHeld(c, lost))
      /\ UNCHANGED consumers

\* A frame whose topics are all valid; frames buffered before the connection
\* closed are still read.
FrameArrives(c, r) ==
  /\ Serving(c) /\ recv[c] = "reading"
  /\ r.action # "malformed"
  /\ Apply(c, r)
  /\ UNCHANGED <<server, handler, fwd, linkVars, queueVars>>

\* A malformed frame, or one with an invalid topic: an error is sent first.
BadFrameArrives(c, r) ==
  /\ Serving(c) /\ recv[c] = "reading"
  /\ recv' = [recv EXCEPT ![c] = "rejecting"]
  /\ request' = [request EXCEPT ![c] = r]
  /\ UNCHANGED <<server, handler, fwd, linkVars, queueVars, registryVars>>

\* The valid topics of a frame are lost with its invalid ones.
RejectDropsFrame(c) ==
  /\ Serving(c) /\ recv[c] = "rejecting"
  /\ recv' = [recv EXCEPT ![c] = "acking"]
  /\ UNCHANGED <<server, handler, request, fwd, linkVars, queueVars, registryVars>>

\* The error has been sent, or could not be: the valid topics are applied.
RejectReturns(c) ==
  /\ Serving(c) /\ recv[c] = "rejecting"
  /\ IF request[c].action = "malformed"
       THEN /\ recv' = [recv EXCEPT ![c] = "reading"]
            /\ request' = [request EXCEPT ![c] = NoRequest]
            /\ UNCHANGED registryVars
       ELSE Apply(c, request[c])
  /\ UNCHANGED <<server, handler, fwd, linkVars, queueVars>>

\* The send of the acknowledgement raises on a closed connection.
AckReturns(c) ==
  /\ Serving(c) /\ recv[c] = "acking"
  /\ recv' = [recv EXCEPT ![c] = IF link[c] = "open" THEN "reading" ELSE "done"]
  /\ request' = [request EXCEPT ![c] = NoRequest]
  /\ UNCHANGED <<server, handler, fwd, linkVars, queueVars, registryVars>>

\* "async for raw in ws" ends with the connection.
RecvEnds(c) ==
  /\ Serving(c) /\ recv[c] = "reading" /\ link[c] # "open"
  /\ recv' = [recv EXCEPT ![c] = "done"]
  /\ UNCHANGED <<server, handler, request, fwd, linkVars, queueVars, registryVars>>

-----------------------------------------------------------------------------
(* _forward_loop.                                                          *)

\* The drop count is looked at only once the queue has been emptied.
ForwardGetsPatient(c) ==
  /\ Serving(c) /\ fwd[c] = "getting" /\ queued[c] > 0
  /\ queued' = [queued EXCEPT ![c] = @ - 1]
  /\ fwd' = [fwd EXCEPT ![c] =
               IF dropped[c] > MaxDropped /\ queued[c] = 1 THEN "warning" ELSE "sending"]
  /\ UNCHANGED <<server, handler, recv, request, linkVars, dropped, registryVars>>

\* A message is taken: it is sent, or given up when too many were dropped.
ForwardGets(c) ==
  /\ Serving(c) /\ fwd[c] = "getting" /\ queued[c] > 0
  /\ queued' = [queued EXCEPT ![c] = @ - 1]
  /\ fwd' = [fwd EXCEPT ![c] = IF dropped[c] > MaxDropped THEN "warning" ELSE "sending"]
  /\ UNCHANGED <<server, handler, recv, request, linkVars, dropped, registryVars>>

SendReturns(c) ==
  /\ Serving(c) /\ fwd[c] = "sending"
  /\ fwd' = [fwd EXCEPT ![c] = IF link[c] = "open" THEN "getting" ELSE "done"]
  /\ UNCHANGED <<server, handler, recv, request, linkVars, queueVars, registryVars>>

\* backpressure_exceeded has been sent, or could not be: close with 1013.
WarningReturns(c) ==
  /\ Serving(c) /\ fwd[c] = "warning"
  /\ fwd' = [fwd EXCEPT ![c] = "closing"]
  /\ Close(c, "told")
  /\ UNCHANGED <<server, handler, recv, request, queueVars, registryVars>>

CloseReturns(c) ==
  /\ Serving(c) /\ fwd[c] = "closing"
  /\ fwd' = [fwd EXCEPT ![c] = "done"]
  /\ UNCHANGED <<server, handler, recv, request, linkVars, queueVars, registryVars>>

-----------------------------------------------------------------------------
(* stop().                                                                 *)

Stop ==
  /\ server = "up"
  /\ server' = "stopping"
  /\ UNCHANGED <<handler, recv, request, fwd, linkVars, queueVars, registryVars>>

\* wait_closed returns when every handler has ended.
StopReturns ==
  /\ server = "stopping"
  /\ \A c \in Clients : handler[c] \in {"none", "over"}
  /\ server' = "stopped"
  /\ UNCHANGED <<handler, recv, request, fwd, linkVars, queueVars, registryVars>>

-----------------------------------------------------------------------------
\* Where something is being sent: the client must read for it to be over.
WhileSending(c) == WelcomeReturns(c) \/ RejectReturns(c) \/ AckReturns(c)

ForwardSending(c) == SendReturns(c) \/ WarningReturns(c)

HandlerStep(c) == WelcomeFails(c) \/ FirstTaskEnds(c) \/ JoinReturns(c)

ForwardStep(c) == ForwardGets(c) \/ CloseReturns(c)

FrameStep(c) ==
  \E r \in Requests : FrameArrives(c, r) \/ BadFrameArrives(c, r)

Next ==
  \/ \E c \in Clients :
       \/ Connect(c) \/ ClientLeaves(c) \/ ClientStalls(c) \/ KeepaliveFails(c)
       \/ ServerCloses(c) \/ HandlerCancelled(c) \/ FrameStep(c)
       \/ WhileSending(c) \/ ForwardSending(c) \/ HandlerStep(c) \/ RecvEnds(c)
       \/ ForwardStep(c)
  \/ \E t \in Topics : Publish(t)
  \/ Stop \/ StopReturns

Spec == Init /\ [][Next]_wsVars

(* Tasks run when they are not suspended; a send ends when the client      *)
(* reads or the connection is closed; the frames buffered when it closed   *)
(* are finitely many; the keepalive and Server.close() end the connections *)
(* they are meant to end.                                                  *)
Fairness ==
  /\ WF_wsVars(StopReturns)
  /\ \A c \in Clients :
       /\ WF_wsVars((reading[c] \/ link[c] # "open") /\ WhileSending(c))
       /\ WF_wsVars((reading[c] \/ link[c] # "open") /\ ForwardSending(c))
       /\ WF_wsVars(HandlerStep(c)) /\ WF_wsVars(ForwardStep(c))
       /\ SF_wsVars(RecvEnds(c))
       /\ WF_wsVars(KeepaliveFails(c)) /\ WF_wsVars(ServerCloses(c))

FairSpec == Spec /\ Fairness

-----------------------------------------------------------------------------
(* Type invariant.                                                         *)
TypeOK ==
  /\ server \in {"up", "stopping", "stopped"}
  /\ handler \in [Clients -> {"none", "welcoming", "serving", "joining", "over"}]
  /\ recv \in [Clients -> {"off", "reading", "rejecting", "acking", "done"}]
  /\ request \in [Clients -> Requests]
  /\ fwd \in [Clients -> {"off", "getting", "sending", "warning", "closing", "done"}]
  /\ link \in [Clients -> {"none", "open", "told", "lost", "left"}]
  /\ reading \in [Clients -> BOOLEAN]
  /\ queued \in [Clients -> 0..MaxQueue]
  /\ dropped \in [Clients -> 0..MaxDropped + 1]

(* A leaked connection cannot leak a subscription (ws.py:40-45): the       *)
(* registry's consumers are the connections whose handler is not over, and *)
(* a topic is asked of the ingest only for one of them.                    *)
NoLeaks ==
  /\ consumers = {c \in Clients : handler[c] \in {"welcoming", "serving", "joining"}}
  /\ Registry!RefcountExact
  /\ Registry!CallbacksBalanced

(* An acknowledgement tells the truth: what it says is subscribed is held  *)
(* by the consumer, what it says is unsubscribed is not, for as long as    *)
(* the acknowledgement is being sent.                                      *)
AckTruthful ==
  \A c \in Clients : recv[c] = "acking" /\ Serving(c) =>
    /\ c \in consumers
    /\ request[c].action = "subscribe" => request[c].topics \subseteq topics[c]
    /\ request[c].action = "unsubscribe" => request[c].topics \cap topics[c] = {}

(* No stale data forever (ws.py:47-52): a consumer that lost more than the *)
(* cap is disconnected, whether or not another message ever comes for it.  *)
OverflowEndsSession ==
  \A c \in Clients : dropped[c] > MaxDropped ~> handler[c] = "over"

(* stop() returns, whatever the clients do (ws.py:145-151).                *)
StopCompletes == server = "stopping" ~> server = "stopped"

(* A consumer that lost more than the cap while it is being sent a message *)
(* is told so with the close code 1013 (failure_modes.md:133-135), unless  *)
(* it leaves or the server stops first.                                    *)
SlowClientTold ==
  \A c \in Clients :
    dropped[c] > MaxDropped /\ fwd[c] = "sending" /\ link[c] = "open"
      ~> link[c] \in {"told", "left"} \/ server # "up"
=============================================================================
