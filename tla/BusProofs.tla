------------------------------ MODULE BusProofs ------------------------------
(***************************************************************************)
(* Proofs about Bus, for any subscriptions, topics, queue size and number  *)
(* of messages: the topic index is exact, and the bus implements PubSub.   *)
(***************************************************************************)
EXTENDS Bus, TLAPS

Messages == [topic : Topics, id : 1..MaxPublish]

(* A loss is counted once, and only when something is published.           *)
LossesPublished == \A s \in Subs : dropped[s] <= published

IInv ==
  /\ TypeOK
  /\ LossesPublished
  /\ IndexExact

(* Who is to hear of t: the open subscriptions that have it.               *)
Interested(t) == {s \in Open : t \in topicsOf[s]}

(* What PubSub knows of the topics: those of open subscriptions.           *)
Interest == [s \in Subs |-> IF s \in Open THEN topicsOf[s] ELSE {}]

-----------------------------------------------------------------------------
(* The index.                                                              *)

(* The index read with its default is the relation it stands for.          *)
LEMMA HoldersAreInterested ==
  ASSUME IndexExact, NEW t \in Topics
  PROVE  HoldersOf(t) = Interested(t)
  BY DEF IndexExact, HoldersOf, Interested

(* An index that lists just the topics with somebody interested, each with *)
(* all who are, is exact; for the next state.                              *)
LEMMA ExactFromInterest ==
  ASSUME DOMAIN byTopic' = {t \in Topics : Interested(t)' # {}},
         \A t \in DOMAIN byTopic' : byTopic'[t] = Interested(t)'
  PROVE  IndexExact'
  BY DEF IndexExact, Interested

(* Entering s under ts makes the index exact for interest grown by s.      *)
LEMMA EnterExact ==
  ASSUME IndexExact, NEW s \in Subs, NEW ts \in SUBSET Topics,
         byTopic' = Enter(s, ts),
         \A t \in Topics : Interested(t)' = IF t \in ts THEN Interested(t) \cup {s}
                                            ELSE Interested(t)
  PROVE  IndexExact'
  <1>1. \A t \in Topics : HoldersOf(t) = Interested(t)
    BY HoldersAreInterested
  <1>2. DOMAIN byTopic = {t \in Topics : Interested(t) # {}}
    BY DEF IndexExact, Interested
  <1>3. DOMAIN byTopic' = {t \in Topics : Interested(t)' # {}}
    <2>1. DOMAIN byTopic' = DOMAIN byTopic \cup ts
      BY DEF Enter
    <2> QED BY <2>1, <1>2
  <1>4. \A t \in DOMAIN byTopic' : byTopic'[t] = Interested(t)'
    <2> SUFFICES ASSUME NEW t \in DOMAIN byTopic' PROVE byTopic'[t] = Interested(t)'
      OBVIOUS
    <2>1. t \in Topics /\ t \in DOMAIN byTopic \cup ts
      BY <1>3 DEF Enter
    <2>2. byTopic'[t] = IF t \in ts THEN HoldersOf(t) \cup {s} ELSE byTopic[t]
      BY <2>1 DEF Enter
    <2>3. t \notin ts => byTopic[t] = HoldersOf(t)
      BY <2>1 DEF HoldersOf
    <2> QED BY <2>1, <2>2, <2>3, <1>1
  <1> QED BY <1>3, <1>4, ExactFromInterest

(* Taking s from under ts, with the pruning of what is left empty, makes   *)
(* it exact for interest without s.                                        *)
LEMMA LeaveExact ==
  ASSUME IndexExact, NEW s \in Subs, NEW ts \in SUBSET Topics,
         byTopic' = Leave(s, ts),
         \A t \in Topics : Interested(t)' = IF t \in ts THEN Interested(t) \ {s}
                                            ELSE Interested(t)
  PROVE  IndexExact'
  <1> DEFINE kept == {t \in DOMAIN byTopic : t \notin ts \/ byTopic[t] \ {s} # {}}
  <1>1. DOMAIN byTopic = {t \in Topics : Interested(t) # {}}
    BY DEF IndexExact, Interested
  <1>2. \A t \in DOMAIN byTopic : byTopic[t] = Interested(t)
    BY DEF IndexExact, Interested
  <1>3. /\ DOMAIN byTopic' = kept
        /\ \A t \in kept : byTopic'[t] = IF t \in ts THEN byTopic[t] \ {s} ELSE byTopic[t]
    BY DEF Leave
  <1>4. kept = {t \in Topics : Interested(t)' # {}}
    BY <1>1, <1>2
  <1>5. \A t \in kept : byTopic'[t] = Interested(t)'
    BY <1>1, <1>2, <1>3
  <1> QED BY <1>3, <1>4, <1>5, ExactFromInterest

-----------------------------------------------------------------------------
(* The queues.                                                             *)

(* Delivery keeps a queue a queue, within its limit.                       *)
LEMMA DeliverBounded ==
  ASSUME TypeOK, NEW s \in Subs, NEW m \in Messages
  PROVE  Deliver(s, m) \in Seq(Messages) /\ Len(Deliver(s, m)) <= MaxQueue
  <1>1. queue[s] \in Seq(Messages) /\ Len(queue[s]) <= MaxQueue
    BY DEF TypeOK, Messages
  <1>2. CASE Len(queue[s]) < MaxQueue
    BY <1>1, <1>2, BusAssumption DEF Deliver
  <1>3. CASE ~(Len(queue[s]) < MaxQueue)
    <2>1. Len(queue[s]) = MaxQueue /\ queue[s] # <<>>
      BY <1>1, <1>3, BusAssumption
    <2>2. Tail(queue[s]) \in Seq(Messages) /\ Len(Tail(queue[s])) = MaxQueue - 1
      BY <1>1, <2>1
    <2> QED BY <1>3, <2>2, BusAssumption DEF Deliver
  <1> QED BY <1>2, <1>3

-----------------------------------------------------------------------------
LEMMA BusInit == Init => IInv
  BY BusAssumption DEF Init, IInv, TypeOK, LossesPublished, IndexExact, Open

(* Types, the queues' limits and the loss count.                           *)
LEMMA TypeStep == IInv /\ [Next]_busVars => TypeOK' /\ LossesPublished'
  <1> SUFFICES ASSUME IInv, [Next]_busVars PROVE TypeOK' /\ LossesPublished'
    OBVIOUS
  <1>i. TypeOK /\ LossesPublished
    BY DEF IInv
  <1>h. \A t \in Topics : HoldersOf(t) \subseteq Subs
    BY <1>i DEF TypeOK, HoldersOf
  <1> USE BusAssumption
  <1>e. ASSUME NEW s \in Subs, NEW ts \in SUBSET Topics, byTopic' = Enter(s, ts)
        PROVE  DOMAIN byTopic' \subseteq Topics /\ byTopic' \in [DOMAIN byTopic' -> SUBSET Subs]
    <2>1. DOMAIN byTopic' = DOMAIN byTopic \cup ts
      BY <1>e DEF Enter
    <2> QED BY <1>e, <1>h, <1>i, <2>1 DEF Enter, TypeOK
  <1>l. ASSUME NEW s \in Subs, NEW ts \in SUBSET Topics, byTopic' = Leave(s, ts)
        PROVE  DOMAIN byTopic' \subseteq Topics /\ byTopic' \in [DOMAIN byTopic' -> SUBSET Subs]
    <2> DEFINE kept == {t \in DOMAIN byTopic : t \notin ts \/ byTopic[t] \ {s} # {}}
    <2>1. DOMAIN byTopic' = kept
      BY <1>l DEF Leave
    <2>2. kept \subseteq DOMAIN byTopic
      OBVIOUS
    <2> QED BY <1>l, <1>i, <2>1, <2>2 DEF Leave, TypeOK
  <1>1. ASSUME NEW s \in Subs, NEW ts \in SUBSET Topics, Subscribe(s, ts)
        PROVE  TypeOK' /\ LossesPublished'
    BY <1>1, <1>i, <1>e DEF Subscribe, TypeOK, LossesPublished
  <1>2. ASSUME NEW s \in Subs, Unsubscribe(s) PROVE TypeOK' /\ LossesPublished'
    <2>1. topicsOf[s] \in SUBSET Topics
      BY <1>i DEF TypeOK
    <2> QED BY <1>2, <1>i, <1>l, <2>1 DEF Unsubscribe, TypeOK, LossesPublished
  <1>3. ASSUME NEW s \in Subs, NEW t \in Topics, AddTopic(s, t)
        PROVE  TypeOK' /\ LossesPublished'
    <2>1. {t} \in SUBSET Topics
      OBVIOUS
    <2> QED BY <1>3, <1>i, <1>e, <2>1 DEF AddTopic, TypeOK, LossesPublished
  <1>4. ASSUME NEW s \in Subs, NEW t \in Topics, RemoveTopic(s, t)
        PROVE  TypeOK' /\ LossesPublished'
    <2>1. {t} \in SUBSET Topics
      OBVIOUS
    <2> QED BY <1>4, <1>i, <1>l, <2>1 DEF RemoveTopic, TypeOK, LossesPublished
  <1>5. ASSUME NEW s \in Subs, GetReturns(s) PROVE TypeOK' /\ LossesPublished'
    <2>1. queue[s] \in Seq(Messages) /\ queue[s] # <<>> /\ Len(queue[s]) <= MaxQueue
      BY <1>5, <1>i DEF GetReturns, TypeOK, Messages
    <2>2. Tail(queue[s]) \in Seq(Messages) /\ Len(Tail(queue[s])) <= MaxQueue
      BY <2>1
    <2> QED BY <1>5, <1>i, <2>2 DEF GetReturns, TypeOK, LossesPublished, Messages
  <1>6. ASSUME NEW s \in Subs, GetParks(s) \/ GetRaisesClosed(s) \/ CancelReader(s)
        PROVE  TypeOK' /\ LossesPublished'
    BY <1>6, <1>i DEF GetParks, GetRaisesClosed, CancelReader, TypeOK, LossesPublished
  <1>7. ASSUME NEW t \in Topics, Publish(t) PROVE TypeOK' /\ LossesPublished'
    <2> DEFINE m == [topic |-> t, id |-> published + 1]
    <2>1. m \in Messages
      BY <1>7, <1>i DEF Publish, TypeOK, Messages
    <2>2. /\ published' = published + 1 /\ published' \in 0..MaxPublish
          /\ queue' = [s \in Subs |-> IF s \in HoldersOf(t) THEN Deliver(s, m) ELSE queue[s]]
          /\ UNCHANGED <<phase, topicsOf, byTopic, reader>>
      BY <1>7, <1>i DEF Publish, TypeOK
    <2> HIDE DEF m
    <2>3. \A s \in Subs : Deliver(s, m) \in Seq(Messages) /\ Len(Deliver(s, m)) <= MaxQueue
      BY <1>i, <2>1, DeliverBounded
    <2>4. /\ queue' \in [Subs -> Seq(Messages)]
          /\ \A s \in Subs : Len(queue'[s]) <= MaxQueue
      BY <1>i, <2>2, <2>3 DEF TypeOK, Messages
    <2>5. /\ dropped' \in [Subs -> 0..MaxPublish]
          /\ \A s \in Subs : dropped'[s] <= published'
      <3>1. \A s \in Subs : dropped[s] \in 0..MaxPublish /\ dropped[s] <= published
        BY <1>i DEF TypeOK, LossesPublished
      <3>2. dropped' = [s \in Subs |-> IF s \in HoldersOf(t) /\ Len(queue[s]) = MaxQueue
                                       THEN dropped[s] + 1 ELSE dropped[s]]
        BY <1>7 DEF Publish
      <3>3. published < MaxPublish /\ published \in Nat
        BY <1>7, <1>i DEF Publish, TypeOK
      <3> QED BY <3>1, <3>2, <3>3, <2>2
    <2> QED BY <1>i, <2>2, <2>4, <2>5 DEF TypeOK, LossesPublished, Messages
  <1>8. CASE UNCHANGED busVars
    BY <1>8, <1>i DEF busVars, TypeOK, LossesPublished
  <1> QED BY <1>1, <1>2, <1>3, <1>4, <1>5, <1>6, <1>7, <1>8 DEF Next, ReaderStep

(* The index follows the subscriptions.                                    *)
LEMMA IndexStep == IInv /\ [Next]_busVars => IndexExact'
  <1> SUFFICES ASSUME IInv, [Next]_busVars PROVE IndexExact'
    OBVIOUS
  <1>i. /\ IndexExact /\ phase \in [Subs -> {"new", "open", "closed"}]
        /\ topicsOf \in [Subs -> SUBSET Topics]
    BY DEF IInv, TypeOK
  <1>1. ASSUME NEW s \in Subs, NEW ts \in SUBSET Topics, Subscribe(s, ts)
        PROVE  IndexExact'
    <2>1. \A t \in Topics : Interested(t)' = IF t \in ts THEN Interested(t) \cup {s}
                                             ELSE Interested(t)
      BY <1>1, <1>i DEF Subscribe, Interested, Open
    <2> QED BY <1>1, <1>i, <2>1, EnterExact DEF Subscribe
  <1>2. ASSUME NEW s \in Subs, Unsubscribe(s) PROVE IndexExact'
    <2>1. \A t \in Topics : Interested(t)' = IF t \in topicsOf[s] THEN Interested(t) \ {s}
                                             ELSE Interested(t)
      BY <1>2, <1>i DEF Unsubscribe, Interested, Open
    <2>2. topicsOf[s] \in SUBSET Topics
      BY <1>i
    <2> QED BY <1>2, <1>i, <2>1, <2>2, LeaveExact DEF Unsubscribe
  <1>3. ASSUME NEW s \in Subs, NEW t0 \in Topics, AddTopic(s, t0) PROVE IndexExact'
    <2>1. \A t \in Topics : Interested(t)' = IF t \in {t0} THEN Interested(t) \cup {s}
                                             ELSE Interested(t)
      BY <1>3, <1>i DEF AddTopic, Interested, Open
    <2>2. {t0} \in SUBSET Topics
      OBVIOUS
    <2> QED BY <1>3, <1>i, <2>1, <2>2, EnterExact DEF AddTopic
  <1>4. ASSUME NEW s \in Subs, NEW t0 \in Topics, RemoveTopic(s, t0) PROVE IndexExact'
    <2>1. \A t \in Topics : Interested(t)' = IF t \in {t0} THEN Interested(t) \ {s}
                                             ELSE Interested(t)
      BY <1>4, <1>i DEF RemoveTopic, Interested, Open
    <2>2. {t0} \in SUBSET Topics
      OBVIOUS
    <2> QED BY <1>4, <1>i, <2>1, <2>2, LeaveExact DEF RemoveTopic
  <1>5. CASE \/ UNCHANGED busVars \/ \E t \in Topics : Publish(t)
             \/ \E s \in Subs : ReaderStep(s) \/ CancelReader(s)
    <2>1. UNCHANGED <<phase, topicsOf, byTopic>>
      BY <1>5 DEF busVars, Publish, ReaderStep, GetReturns, GetParks, GetRaisesClosed,
                  CancelReader
    <2> QED BY <1>i, <2>1 DEF IndexExact, Open
  <1> QED BY <1>1, <1>2, <1>3, <1>4, <1>5 DEF Next

LEMMA BusInvariant == Spec => []IInv
  <1>1. IInv /\ [Next]_busVars => IInv'
    BY TypeStep, IndexStep DEF IInv
  <1> QED BY <1>1, BusInit, PTL DEF Spec

-----------------------------------------------------------------------------
(* Steps of the bus as steps of PubSub.                                    *)

(* A step that sets the interest of s and nothing else PubSub can see.     *)
SetsInterest(s, ts) ==
  /\ Interest' = [Interest EXCEPT ![s] = ts]
  /\ UNCHANGED <<queue, dropped, published>>

LEMMA InterestStep ==
  ASSUME NEW s \in Subs, NEW ts \in SUBSET Topics, SetsInterest(s, ts)
  PROVE  Promise!Next
  <1>1. Promise!ChangeInterest(s, ts)
    BY DEF Promise!ChangeInterest, Interest, SetsInterest
  <1> QED BY <1>1 DEF Promise!Next

(* Routing by the index is routing by interest; what _deliver does to a    *)
(* full queue is the loss of its oldest message.                           *)
LEMMA PublishStep ==
  ASSUME IInv, NEW t \in Topics, Publish(t)
  PROVE  Promise!Next
  <1> DEFINE m == [topic |-> t, id |-> published + 1]
             To == {s \in Subs : t \in Interest[s]}
             Full == {s \in To : Len(queue[s]) >= MaxQueue}
  <1>1. HoldersOf(t) = To
    <2>1. HoldersOf(t) = Interested(t)
      BY HoldersAreInterested DEF IInv
    <2> QED BY <2>1 DEF Interested, Interest, Open
  <1>2. ASSUME NEW s \in Subs
        PROVE  /\ Len(queue[s]) \in Nat /\ MaxQueue \in Nat
               /\ Len(queue[s]) >= MaxQueue <=> Len(queue[s]) = MaxQueue
               /\ Len(queue[s]) >= MaxQueue <=> ~(Len(queue[s]) < MaxQueue)
    <2>1. queue[s] \in Seq(Messages) /\ Len(queue[s]) <= MaxQueue /\ MaxQueue \in Nat
      BY BusAssumption DEF IInv, TypeOK, Messages
    <2>2. Len(queue[s]) \in Nat
      BY <2>1
    <2> QED BY <2>1, <2>2
  <1>3. queue' = [s \in Subs |-> IF s \in Full THEN Append(Tail(queue[s]), m)
                                 ELSE IF s \in To THEN Append(queue[s], m)
                                 ELSE queue[s]]
    <2>1. queue' = [s \in Subs |-> IF s \in To THEN Deliver(s, m) ELSE queue[s]]
      BY <1>1 DEF Publish
    <2>2. \A s \in To : Deliver(s, m) = IF s \in Full THEN Append(Tail(queue[s]), m)
                                        ELSE Append(queue[s], m)
      BY <1>2 DEF Deliver
    <2> HIDE DEF m
    <2> QED BY <2>1, <2>2
  <1>4. dropped' = [s \in Subs |-> IF s \in Full THEN dropped[s] + 1 ELSE dropped[s]]
    <2>1. dropped' = [s \in Subs |-> IF s \in To /\ Len(queue[s]) = MaxQueue
                                     THEN dropped[s] + 1 ELSE dropped[s]]
      BY <1>1 DEF Publish
    <2>2. \A s \in Subs : s \in To /\ Len(queue[s]) = MaxQueue <=> s \in Full
      BY <1>2
    <2> HIDE DEF To, Full
    <2> QED BY <2>1, <2>2
  <1>5. published' = published + 1 /\ Interest' = Interest
    BY DEF Publish, Interest, Open
  <1>6. Promise!Publish(t)
    BY <1>3, <1>4, <1>5 DEF Promise!Publish, Interest
  <1> QED BY <1>6 DEF Promise!Next

LEMMA BusSimulates == IInv /\ [Next]_busVars => [Promise!Next]_(Promise!pubSubVars)
  <1> SUFFICES ASSUME IInv, [Next]_busVars
               PROVE  Promise!Next \/ UNCHANGED Promise!pubSubVars
    OBVIOUS
  <1>i. /\ phase \in [Subs -> {"new", "open", "closed"}]
        /\ topicsOf \in [Subs -> SUBSET Topics]
    BY DEF IInv, TypeOK
  <1>1. ASSUME NEW s \in Subs, NEW ts \in SUBSET Topics, Subscribe(s, ts)
        PROVE Promise!Next
    <2>1. SetsInterest(s, ts)
      BY <1>1, <1>i DEF Subscribe, SetsInterest, Interest, Open
    <2>2. ts \in SUBSET Topics
      BY <1>i
    <2> QED BY <2>1, <2>2, InterestStep
  <1>2. ASSUME NEW s \in Subs, Unsubscribe(s) PROVE Promise!Next
    <2>1. SetsInterest(s, {})
      BY <1>2, <1>i DEF Unsubscribe, SetsInterest, Interest, Open
    <2>2. {} \in SUBSET Topics
      BY <1>i
    <2> QED BY <2>1, <2>2, InterestStep
  <1>3. ASSUME NEW s \in Subs, NEW t \in Topics, AddTopic(s, t) PROVE Promise!Next
    <2>1. SetsInterest(s, topicsOf[s] \cup {t})
      BY <1>3, <1>i DEF AddTopic, SetsInterest, Interest, Open
    <2>2. topicsOf[s] \cup {t} \in SUBSET Topics
      BY <1>i
    <2> QED BY <2>1, <2>2, InterestStep
  <1>4. ASSUME NEW s \in Subs, NEW t \in Topics, RemoveTopic(s, t) PROVE Promise!Next
    <2>1. SetsInterest(s, topicsOf[s] \ {t})
      BY <1>4, <1>i DEF RemoveTopic, SetsInterest, Interest, Open
    <2>2. topicsOf[s] \ {t} \in SUBSET Topics
      BY <1>i
    <2> QED BY <2>1, <2>2, InterestStep
  <1>5. ASSUME NEW s \in Subs, GetReturns(s) PROVE Promise!Next
    <2>1. Promise!Read(s)
      BY <1>5 DEF GetReturns, Promise!Read, Open
    <2> QED BY <2>1 DEF Promise!Next
  <1>6. ASSUME NEW t \in Topics, Publish(t) PROVE Promise!Next
    BY <1>6, PublishStep
  <1>7. CASE \/ UNCHANGED busVars
             \/ \E s \in Subs : GetParks(s) \/ GetRaisesClosed(s) \/ CancelReader(s)
    <2>1. UNCHANGED <<phase, topicsOf, queue, dropped, published>>
      BY <1>7 DEF busVars, GetParks, GetRaisesClosed, CancelReader
    <2> QED BY <2>1 DEF Promise!pubSubVars, Open
  <1> QED BY <1>1, <1>2, <1>3, <1>4, <1>5, <1>6, <1>7 DEF Next, ReaderStep

-----------------------------------------------------------------------------
(* Queues never exceed their limit, and losses are counted within what was *)
(* published.                                                              *)
THEOREM BusTypeOK == Spec => []TypeOK
  <1>1. IInv => TypeOK
    BY DEF IInv
  <1> QED BY <1>1, BusInvariant, PTL

(* bus.py, _by_topic: no closed subscription lingers in the index, no open *)
(* one is missed, and no empty entry is kept.                              *)
THEOREM BusIndexExact == Spec => []IndexExact
  <1>1. IInv => IndexExact
    BY DEF IInv
  <1> QED BY <1>1, BusInvariant, PTL

(* The bus implements PubSub: a message reaches every subscription open on *)
(* its topic and no other, in order, and what is lost is the oldest unread *)
(* message of a full queue, and counted.                                   *)
THEOREM BusKeepsPromise == Spec => KeepsPromise
  <1>1. Init => Promise!Init
    BY DEF Init, Promise!Init, Open
  <1> QED BY <1>1, BusSimulates, BusInvariant, PTL DEF Spec, KeepsPromise, Promise!Spec
=============================================================================
