--------------------------- MODULE WSServerProofs ---------------------------
(***************************************************************************)
(* Proofs about WSServer, for any connections, topics, queue size and drop *)
(* cap: no connection leaks a consumer or a topic, and acknowledgements    *)
(* tell the truth.                                                         *)
(***************************************************************************)
EXTENDS WSServer, TLAPS

RP == INSTANCE RegistryProofs WITH Consumers <- Clients

(* The registry's consumers are the connections whose handler is neither   *)
(* yet to begin nor over.                                                  *)
Alive == {c \in Clients : handler[c] \in {"welcoming", "serving", "joining"}}

IInv ==
  /\ TypeOK
  /\ RP!IInv
  /\ consumers = Alive
  /\ AckTruthful

Phases == {"none", "welcoming", "serving", "joining", "over"}

-----------------------------------------------------------------------------
(* The registry under the calls of this server.                            *)

(* A connection registers with no topics.                                  *)
LEMMA ConnectRegisters ==
  ASSUME RP!IInv, NEW c \in Clients, Registry!RegisterConsumer(c, {})
  PROVE  RP!IInv'
  <1>1. RP!RegisterConsumer(c, {})
    BY DEF Registry!RegisterConsumer, RP!RegisterConsumer, Registry!Fire, RP!Fire,
       Registry!IncrementRefcount, RP!IncrementRefcount, Registry!FirstHeld, RP!FirstHeld,
       Registry!TopicSubscribers, RP!TopicSubscribers, Registry!ActiveTopics, RP!ActiveTopics
  <1>2. RP!Next
    BY <1>1 DEF RP!Next
  <1> QED BY <1>2, RP!NextIInv

(* Unregistering takes the topics with it.                                 *)
LEMMA ReleaseUnregisters ==
  ASSUME RP!IInv, NEW c \in Clients, Registry!UnregisterConsumer(c)
  PROVE  RP!IInv'
  <1>1. RP!UnregisterConsumer(c)
    BY DEF Registry!UnregisterConsumer, RP!UnregisterConsumer, Registry!Fire, RP!Fire,
       Registry!DecrementRefcount, RP!DecrementRefcount, Registry!LastHeld, RP!LastHeld,
       Registry!ActiveTopics, RP!ActiveTopics
  <1>2. RP!Next
    BY <1>1 DEF RP!Next
  <1> QED BY <1>2, RP!NextIInv

(* A frame applied topic by topic is, taken together, one gain or one loss *)
(* of several topics: more than a step of the registry, and as exact.      *)
LEMMA ApplyKeepsRegistry ==
  ASSUME RP!IInv, NEW c \in Clients, c \in consumers, NEW r \in Requests, Apply(c, r)
  PROVE  RP!IInv'
  <1> DEFINE gained == r.topics \ topics[c]
             lost == r.topics \cap topics[c]
  <1>t. /\ r.topics \in SUBSET Topics /\ topics \in [Clients -> SUBSET Topics]
        /\ consumers \subseteq Clients
    BY DEF RP!IInv, RP!TypeOK, Requests, NoRequest
  <1>c. consumers' = consumers
    BY DEF Apply
  <1>1. CASE r.action = "subscribe"
    <2>1. /\ topics' = [topics EXCEPT ![c] = @ \cup gained]
          /\ refcount' = RP!IncrementRefcount(c, gained)
          /\ RP!Fire(RP!FirstHeld(gained), {})
      BY <1>1 DEF Apply, Registry!IncrementRefcount, RP!IncrementRefcount, Registry!Fire,
         RP!Fire, Registry!FirstHeld, RP!FirstHeld, Registry!TopicSubscribers,
         RP!TopicSubscribers, Registry!ActiveTopics, RP!ActiveTopics
    <2>2. gained \in SUBSET Topics
      BY <1>t
    <2>3. \A t \in Topics : RP!HoldersOf(t)' = IF t \in gained THEN RP!HoldersOf(t) \cup {c}
                                               ELSE RP!HoldersOf(t)
      BY <2>1, <1>t, <1>c DEF RP!HoldersOf
    <2> HIDE DEF gained
    <2>4. /\ RP!ActiveTopics' \subseteq Topics
          /\ refcount' \in [RP!ActiveTopics' -> SUBSET Clients]
          /\ balance' \in [Topics -> 0..1]
          /\ RP!RefcountExact' /\ RP!CallbacksBalanced'
      BY <2>1, <2>2, <2>3, RP!GainPreserves
    <2>5. topics' \in [Clients -> SUBSET Topics]
      BY <2>1, <2>2, <1>t
    <2> QED BY <2>4, <2>5, <1>t, <1>c DEF RP!IInv, RP!TypeOK
  <1>2. CASE r.action # "subscribe"
    <2>1. /\ topics' = [topics EXCEPT ![c] = @ \ lost]
          /\ refcount' = RP!DecrementRefcount(c, lost)
          /\ RP!Fire({}, RP!LastHeld(c, lost))
      BY <1>2 DEF Apply, Registry!DecrementRefcount, RP!DecrementRefcount, Registry!Fire,
         RP!Fire, Registry!LastHeld, RP!LastHeld, Registry!ActiveTopics, RP!ActiveTopics
    <2>2. lost \in SUBSET Topics
      BY <1>t
    <2>3. \A t \in Topics : RP!HoldersOf(t)' = IF t \in lost THEN RP!HoldersOf(t) \ {c}
                                               ELSE RP!HoldersOf(t)
      BY <2>1, <1>t, <1>c DEF RP!HoldersOf
    <2> HIDE DEF lost
    <2>4. /\ RP!ActiveTopics' \subseteq Topics
          /\ refcount' \in [RP!ActiveTopics' -> SUBSET Clients]
          /\ balance' \in [Topics -> 0..1]
          /\ RP!RefcountExact' /\ RP!CallbacksBalanced'
      BY <2>1, <2>2, <2>3, RP!LossPreserves
    <2>5. topics' \in [Clients -> SUBSET Topics]
      BY <2>1, <2>2, <1>t
    <2> QED BY <2>4, <2>5, <1>t, <1>c DEF RP!IInv, RP!TypeOK
  <1> QED BY <1>1, <1>2

(* What is acknowledged is so when the acknowledgement is begun, and a     *)
(* frame of one connection does not touch the topics of another.           *)
LEMMA ApplyTruth ==
  ASSUME RP!IInv, NEW c \in Clients, NEW r \in Requests, r.action # "malformed", Apply(c, r)
  PROVE  /\ r.action = "subscribe" => r.topics \subseteq topics'[c]
         /\ r.action = "unsubscribe" => r.topics \cap topics'[c] = {}
         /\ \A d \in Clients \ {c} : topics'[d] = topics[d]
  BY DEF Apply, RP!IInv, RP!TypeOK

(* Steps that leave the registry alone.                                    *)
LEMMA IdleRegistry ==
  ASSUME RP!IInv, UNCHANGED registryVars
  PROVE  RP!IInv'
  <1>1. UNCHANGED RP!registryVars
    BY DEF registryVars, RP!registryVars
  <1> QED BY <1>1, RP!NextIInv

-----------------------------------------------------------------------------
LEMMA WSInit == Init => IInv
  <1> SUFFICES ASSUME Init PROVE IInv
    OBVIOUS
  <1>1. RP!IInv
    <2>1. RP!Init
      BY DEF Init, Registry!Init, RP!Init
    <2> QED BY <2>1, RP!InitIInv
  <1>2. TypeOK
    BY WSAssumption DEF Init, TypeOK, Requests
  <1>3. consumers = Alive /\ AckTruthful
    BY DEF Init, Registry!Init, Alive, AckTruthful, Serving
  <1> QED BY <1>1, <1>2, <1>3 DEF IInv

(* Types.  Publish is where the bounds of the counters matter.             *)
LEMMA TypeStep == IInv /\ [Next]_wsVars => TypeOK'
  <1> SUFFICES ASSUME TypeOK, [Next]_wsVars PROVE TypeOK'
    BY DEF IInv
  <1> USE WSAssumption DEF TypeOK, linkVars, queueVars
  <1>r. NoRequest \in Requests
    BY DEF Requests
  <1>1. ASSUME NEW c \in Clients, Connect(c) PROVE TypeOK'
    BY <1>1 DEF Connect
  <1>2. ASSUME NEW c \in Clients,
               ClientLeaves(c) \/ ClientStalls(c) \/ KeepaliveFails(c) \/ ServerCloses(c)
        PROVE  TypeOK'
    BY <1>2 DEF ClientLeaves, ClientStalls, KeepaliveFails, ServerCloses, Close
  <1>3. ASSUME NEW c \in Clients, Release(c), UNCHANGED server,
               UNCHANGED linkVars \/ Close(c, "left")
        PROVE  TypeOK'
    <2>1. /\ handler' \in [Clients -> {"none", "welcoming", "serving", "joining", "over"}]
          /\ recv' \in [Clients -> {"off", "reading", "rejecting", "acking", "done"}]
          /\ request' \in [Clients -> Requests]
          /\ fwd' \in [Clients -> {"off", "getting", "sending", "warning", "closing", "done"}]
          /\ queued' \in [Clients -> 0..MaxQueue]
          /\ dropped' \in [Clients -> 0..MaxDropped + 1]
      BY <1>3, <1>r DEF Release
    <2>2. /\ link' \in [Clients -> {"none", "open", "told", "lost", "left"}]
          /\ reading' \in [Clients -> BOOLEAN]
      BY <1>3 DEF Close
    <2> QED BY <1>3, <2>1, <2>2
  <1>4. ASSUME NEW c \in Clients, WelcomeReturns(c) \/ AckReturns(c) PROVE TypeOK'
    BY <1>4, <1>r DEF WelcomeReturns, AckReturns
  <1>5. ASSUME NEW c \in Clients, NEW r \in Requests,
               FrameArrives(c, r) \/ BadFrameArrives(c, r)
        PROVE  TypeOK'
    BY <1>5 DEF FrameArrives, BadFrameArrives, Apply
  <1>6. ASSUME NEW c \in Clients, RejectReturns(c) PROVE TypeOK'
    BY <1>6, <1>r DEF RejectReturns, Apply
  <1>7. ASSUME NEW c \in Clients, SendReturns(c) \/ WarningReturns(c) PROVE TypeOK'
    BY <1>7 DEF SendReturns, WarningReturns, Close
  <1>8. ASSUME NEW c \in Clients,
               WelcomeFails(c) \/ FirstTaskEnds(c) \/ JoinReturns(c) \/ HandlerCancelled(c)
        PROVE  TypeOK'
    <2>1. CASE Release(c)
      BY <1>8, <2>1, <1>3 DEF WelcomeFails, FirstTaskEnds, JoinReturns, HandlerCancelled
    <2>2. CASE ~Release(c)
      BY <1>8, <2>2 DEF WelcomeFails, FirstTaskEnds, JoinReturns, HandlerCancelled
    <2> QED BY <2>1, <2>2
  <1>9. ASSUME NEW c \in Clients, RecvEnds(c) \/ ForwardGets(c) \/ CloseReturns(c)
        PROVE  TypeOK'
    BY <1>9 DEF RecvEnds, ForwardGets, CloseReturns
  <1>10. ASSUME NEW t \in Topics, Publish(t) PROVE TypeOK'
    BY <1>10 DEF Publish
  <1>11. CASE Stop \/ StopReturns
    BY <1>11 DEF Stop, StopReturns
  <1>12. CASE UNCHANGED wsVars
    BY <1>12 DEF wsVars
  <1> QED BY <1>1, <1>2, <1>4, <1>5, <1>6, <1>7, <1>8, <1>9, <1>10, <1>11, <1>12
          DEF Next, FrameStep, WhileSending, ForwardSending, HandlerStep, ForwardStep

(* Consumers and handlers begin and end together, and the table is exact.  *)
LEMMA LeakStep == IInv /\ [Next]_wsVars => RP!IInv' /\ consumers' = Alive'
  <1> SUFFICES ASSUME IInv, [Next]_wsVars PROVE RP!IInv' /\ consumers' = Alive'
    OBVIOUS
  <1>i. RP!IInv /\ consumers = Alive /\ handler \in [Clients -> Phases]
    BY DEF IInv, TypeOK, Phases
  <1> USE DEF linkVars, queueVars, Phases
  <1>1. ASSUME NEW c \in Clients, Connect(c) PROVE RP!IInv' /\ consumers' = Alive'
    <2>1. consumers' = consumers \cup {c} /\ handler' = [handler EXCEPT ![c] = "welcoming"]
      BY <1>1 DEF Connect, Registry!RegisterConsumer
    <2>2. consumers' = Alive'
      BY <1>i, <2>1 DEF Alive
    <2> QED BY <1>1, <1>i, <2>2, ConnectRegisters DEF Connect
  <1>2. ASSUME NEW c \in Clients, Release(c) PROVE RP!IInv' /\ consumers' = Alive'
    <2>1. consumers' = consumers \ {c} /\ handler' = [handler EXCEPT ![c] = "over"]
      BY <1>2 DEF Release, Registry!UnregisterConsumer
    <2>2. consumers' = Alive'
      BY <1>i, <2>1 DEF Alive
    <2> QED BY <1>2, <1>i, <2>2, ReleaseUnregisters DEF Release
  <1>3. ASSUME NEW c \in Clients, NEW r \in Requests, Serving(c), Apply(c, r),
               UNCHANGED handler
        PROVE  RP!IInv' /\ consumers' = Alive'
    <2>1. c \in consumers /\ consumers' = consumers
      BY <1>i, <1>3 DEF Apply, Alive, Serving
    <2> QED BY <1>i, <1>3, <2>1, ApplyKeepsRegistry DEF Alive
  <1>4. ASSUME UNCHANGED registryVars,
               UNCHANGED handler \/ \E c \in Alive :
                 handler' \in {[handler EXCEPT ![c] = "serving"],
                               [handler EXCEPT ![c] = "joining"]}
        PROVE  RP!IInv' /\ consumers' = Alive'
    <2>1. consumers' = consumers
      BY <1>4 DEF registryVars
    <2>2. Alive' = Alive
      BY <1>4, <1>i DEF Alive
    <2> QED BY <1>i, <1>4, <2>1, <2>2, IdleRegistry
  <1>5. ASSUME NEW c \in Clients, HandlerCancelled(c)
        PROVE  RP!IInv' /\ consumers' = Alive'
    BY <1>5, <1>2, <1>4 DEF HandlerCancelled, Alive
  <1>6. ASSUME NEW c \in Clients, WelcomeFails(c) \/ FirstTaskEnds(c) \/ JoinReturns(c)
        PROVE  RP!IInv' /\ consumers' = Alive'
    BY <1>6, <1>2, <1>4 DEF WelcomeFails, FirstTaskEnds, JoinReturns, Alive
  <1>7. ASSUME NEW c \in Clients, NEW r \in Requests,
               FrameArrives(c, r) \/ BadFrameArrives(c, r)
        PROVE  RP!IInv' /\ consumers' = Alive'
    BY <1>7, <1>3, <1>4 DEF FrameArrives, BadFrameArrives
  <1>8. ASSUME NEW c \in Clients, RejectReturns(c) PROVE RP!IInv' /\ consumers' = Alive'
    <2>1. request[c] \in Requests
      BY DEF IInv, TypeOK
    <2> QED BY <1>8, <2>1, <1>3, <1>4 DEF RejectReturns
  <1>9. ASSUME NEW c \in Clients, WelcomeReturns(c) PROVE RP!IInv' /\ consumers' = Alive'
    BY <1>9, <1>4 DEF WelcomeReturns, Alive
  <1>10. ASSUME NEW c \in Clients,
                \/ ClientLeaves(c) \/ ClientStalls(c) \/ KeepaliveFails(c)
                \/ ServerCloses(c) \/ AckReturns(c) \/ RecvEnds(c) \/ ForwardSending(c)
                \/ ForwardStep(c)
         PROVE  RP!IInv' /\ consumers' = Alive'
    <2>1. UNCHANGED handler /\ UNCHANGED registryVars
      BY <1>10 DEF ClientLeaves, ClientStalls, KeepaliveFails, ServerCloses, AckReturns,
         RecvEnds, ForwardSending, ForwardStep, SendReturns, WarningReturns, ForwardGets,
         CloseReturns
    <2> QED BY <2>1, <1>4
  <1>11. ASSUME NEW t \in Topics, Publish(t) PROVE RP!IInv' /\ consumers' = Alive'
    BY <1>11, <1>4 DEF Publish
  <1>12. CASE Stop \/ StopReturns \/ UNCHANGED wsVars
    <2>1. UNCHANGED handler /\ UNCHANGED registryVars
      BY <1>12 DEF Stop, StopReturns, wsVars
    <2> QED BY <2>1, <1>4
  <1> QED BY <1>1, <1>5, <1>6, <1>7, <1>8, <1>9, <1>10, <1>11, <1>12
          DEF Next, FrameStep, WhileSending, HandlerStep

-----------------------------------------------------------------------------
(* Truth of the acknowledgement that connection c is being sent.           *)
Truthful(c) ==
  recv[c] = "acking" /\ Serving(c) =>
    /\ c \in consumers
    /\ request[c].action = "subscribe" => request[c].topics \subseteq topics[c]
    /\ request[c].action = "unsubscribe" => request[c].topics \cap topics[c] = {}

LEMMA AckStep == IInv /\ [Next]_wsVars => AckTruthful'
  <1> SUFFICES ASSUME IInv, [Next]_wsVars, NEW d \in Clients PROVE Truthful(d)'
    BY DEF AckTruthful, Truthful
  <1>i. /\ Truthful(d) /\ RP!IInv /\ consumers = Alive /\ TypeOK
        /\ topics \in [Clients -> SUBSET Topics]
    BY DEF IInv, AckTruthful, Truthful, RP!IInv, RP!TypeOK
  <1>a. Serving(d)' => d \in consumers'
    BY LeakStep DEF Alive, Serving
  <1> USE DEF linkVars, queueVars
  <1>1. ASSUME NEW c \in Clients, Connect(c) PROVE Truthful(d)'
    BY <1>1, <1>i, <1>a DEF Connect, Registry!RegisterConsumer, Truthful, Serving, TypeOK
  <1>2. ASSUME NEW c \in Clients, Release(c) PROVE Truthful(d)'
    BY <1>2, <1>i, <1>a DEF Release, Registry!UnregisterConsumer, Truthful, Serving, TypeOK
  <1>3. ASSUME NEW c \in Clients, NEW r \in Requests, r.action # "malformed", Apply(c, r),
               UNCHANGED handler
        PROVE  Truthful(d)'
    <2>1. CASE d = c
      <3>1. request'[d] = r
        BY <1>3, <1>i, <2>1 DEF Apply, TypeOK
      <3> QED BY <1>3, <1>i, <1>a, <2>1, <3>1, ApplyTruth DEF Truthful
    <2>2. CASE d # c
      <3>1. recv'[d] = recv[d] /\ request'[d] = request[d] /\ topics'[d] = topics[d]
        BY <1>3, <1>i, <2>2, ApplyTruth DEF Apply, TypeOK
      <3> QED BY <1>3, <1>i, <1>a, <3>1 DEF Truthful, Serving
    <2> QED BY <2>1, <2>2
  <1>5. ASSUME NEW c \in Clients, NEW r \in Requests,
               FrameArrives(c, r) \/ BadFrameArrives(c, r)
        PROVE  Truthful(d)'
    <2>1. CASE FrameArrives(c, r)
      BY <2>1, <1>3 DEF FrameArrives
    <2>2. CASE BadFrameArrives(c, r)
      BY <2>2, <1>i, <1>a DEF BadFrameArrives, registryVars, Truthful, Serving, TypeOK
    <2> QED BY <1>5, <2>1, <2>2
  <1>6. ASSUME NEW c \in Clients, RejectReturns(c) PROVE Truthful(d)'
    <2>1. CASE request[c].action = "malformed"
      BY <1>6, <2>1, <1>i, <1>a DEF RejectReturns, registryVars, Truthful, Serving, TypeOK
    <2>2. CASE request[c].action # "malformed"
      <3>1. request[c] \in Requests
        BY <1>i DEF TypeOK
      <3> QED BY <1>6, <2>2, <3>1, <1>3 DEF RejectReturns
    <2> QED BY <2>1, <2>2
  <1>7. ASSUME NEW c \in Clients, WelcomeReturns(c) \/ AckReturns(c) \/ RecvEnds(c)
        PROVE  Truthful(d)'
    BY <1>7, <1>i, <1>a DEF WelcomeReturns, AckReturns, RecvEnds, registryVars, Truthful,
       Serving, TypeOK
  <1>8. ASSUME NEW c \in Clients,
               \/ FirstTaskEnds(c) \/ (HandlerCancelled(c) /\ handler[c] = "serving")
        PROVE  Truthful(d)'
    BY <1>8, <1>i, <1>a DEF FirstTaskEnds, HandlerCancelled, registryVars, Truthful,
       Serving, TypeOK
  <1>9. ASSUME NEW c \in Clients,
               \/ ClientLeaves(c) \/ ClientStalls(c) \/ KeepaliveFails(c)
               \/ ServerCloses(c) \/ ForwardSending(c) \/ ForwardStep(c)
        PROVE  Truthful(d)'
    <2>1. UNCHANGED <<handler, recv, request>> /\ UNCHANGED registryVars
      BY <1>9 DEF ClientLeaves, ClientStalls, KeepaliveFails, ServerCloses,
         ForwardSending, ForwardStep, SendReturns, WarningReturns, ForwardGets, CloseReturns
    <2> QED BY <2>1, <1>i, <1>a DEF Truthful, Serving, registryVars
  <1>10. CASE Stop \/ StopReturns \/ UNCHANGED wsVars \/ \E t \in Topics : Publish(t)
    <2>1. UNCHANGED <<handler, recv, request>> /\ UNCHANGED registryVars
      BY <1>10 DEF Stop, StopReturns, wsVars, Publish
    <2> QED BY <2>1, <1>i, <1>a DEF Truthful, Serving, registryVars
  <1>11. ASSUME NEW c \in Clients,
                WelcomeFails(c) \/ JoinReturns(c) \/ HandlerCancelled(c)
         PROVE  Truthful(d)'
    BY <1>11, <1>2, <1>8 DEF WelcomeFails, JoinReturns, HandlerCancelled
  <1> QED BY <1>1, <1>5, <1>6, <1>7, <1>8, <1>9, <1>10, <1>11
          DEF Next, FrameStep, WhileSending, HandlerStep

-----------------------------------------------------------------------------
LEMMA WSInvariant == Spec => []IInv
  <1>1. IInv /\ [Next]_wsVars => IInv'
    BY TypeStep, LeakStep, AckStep DEF IInv
  <1> QED BY <1>1, WSInit, PTL DEF Spec

(* Queues and drop counts stay within their limits, and every coroutine is *)
(* where the code can be suspended.                                        *)
THEOREM WSTypeOK == Spec => []TypeOK
  <1>1. IInv => TypeOK
    BY DEF IInv
  <1> QED BY <1>1, WSInvariant, PTL

(* ws.py:40-45: however a connection ends, in whatever order its tasks do, *)
(* its consumer and its topics go with it.                                 *)
THEOREM WSNoLeaks == Spec => []NoLeaks
  <1>1. IInv => NoLeaks
    BY DEF IInv, NoLeaks, Alive, RP!IInv, RP!RefcountExact, RP!CallbacksBalanced,
       RP!ActiveTopics, RP!HoldersOf, Registry!RefcountExact, Registry!CallbacksBalanced,
       Registry!ActiveTopics, Registry!HoldersOf
  <1> QED BY <1>1, WSInvariant, PTL

(* What an acknowledgement says is so for as long as it is being sent,     *)
(* whatever the other connections do meanwhile.                            *)
THEOREM WSAckTruthful == Spec => []AckTruthful
  <1>1. IInv => AckTruthful
    BY DEF IInv
  <1> QED BY <1>1, WSInvariant, PTL
=============================================================================
