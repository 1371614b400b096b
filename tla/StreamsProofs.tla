---------------------------- MODULE StreamsProofs ---------------------------
(***************************************************************************)
(* Proofs about Streams, for any calls, topics, products and capacities:   *)
(* what a call of stream_topic returns is a faithful sample, the snapshot  *)
(* store is never behind it, and a call that is over leaves nothing.       *)
(***************************************************************************)
EXTENDS Streams, FiniteSetTheorems, SequenceTheorems, TLAPS

RP == INSTANCE RegistryProofs WITH Consumers <- Calls

Messages == [topic : Topics, id : 1..MaxPublish]

(* Registry, calls and store agree on who wants what.                      *)
Demand ==
  /\ consumers = {c \in Calls : call[c] = "streaming"}
  /\ tracked = {t \in Topics : \E c \in consumers : t \in topics[c]}
  /\ \A c \in Calls : call[c] # "streaming" => topics[c] = {}

(* The types, and what is empty before and after a call.                   *)
Shapes ==
  /\ log \in Seq(Topics) /\ Len(log) <= MaxPublish
  /\ inbox \in [Subs -> Seq(Messages)]
  /\ lost \in [Subs -> Nat] /\ lost["store"] = 0
  /\ call \in [Calls -> {"new", "streaming", "returned", "cancelled"}]
  /\ cap \in [Calls -> 0..HardMax]
  /\ since \in [Calls -> Nat]
  /\ got \in [Calls -> Seq(1..MaxPublish)]
  /\ cache \in [Products -> Nat]
  /\ \A c \in Calls : call[c] = "new" => got[c] = <<>> /\ lost[c] = 0
  /\ \A c \in Calls : call[c] # "streaming" => inbox[c] = <<>>

(* Bounds, most of them by what has been published.                        *)
Bounds ==
  /\ \A s \in Subs : Len(inbox[s]) <= Capacity /\ lost[s] <= Len(log)
  /\ \A c \in Calls : since[c] <= Len(log) /\ Len(got[c]) <= cap[c]
  /\ \A c \in Calls : \A i \in 1..Len(got[c]) : got[c][i] <= Len(log)
  /\ \A p \in Products : cache[p] <= Len(log)

(* A queue holds messages that were published, in order; what the store    *)
(* has yet to read is newer than all it has applied.                       *)
Queues ==
  /\ \A s \in Subs : \A k \in 1..Len(inbox[s]) :
       inbox[s][k].id <= Len(log) /\ log[inbox[s][k].id] = inbox[s][k].topic
  /\ \A s \in Subs : \A j, k \in 1..Len(inbox[s]) :
       j < k => inbox[s][j].id < inbox[s][k].id
  /\ \A p \in Products : \A k \in 1..Len(inbox["store"]) :
       cache[p] < inbox["store"][k].id

(* What call c has of its topic: collected, then buffered.                 *)
Sent(c) == {i \in since[c] + 1..Len(log) : log[i] \in topics[c]}
GotLen(c) == Len(got[c])
InLen(c) == Len(inbox[c])
HaveLen(c) == GotLen(c) + InLen(c)
HaveAt(c, i) == IF i <= GotLen(c) THEN got[c][i] ELSE inbox[c][i - GotLen(c)].id

Sampled(c) ==
  /\ \A i \in 1..HaveLen(c) : HaveAt(c, i) \in Sent(c)
  /\ \A i, j \in 1..HaveLen(c) : i < j => HaveAt(c, i) < HaveAt(c, j)
  /\ Cardinality(Sent(c)) = HaveLen(c) + lost[c]

Samples == \A c \in Calls : call[c] = "streaming" => Sampled(c)

(* What a call has, collected or only buffered, the store has too.         *)
StoreHas(i) ==
  \/ \E q \in 1..Len(inbox["store"]) : inbox["store"][q].id = i
  \/ cache[ProductOf[log[i]]] >= i

Warm ==
  /\ \A c \in Calls : \A i \in 1..Len(got[c]) : StoreHas(got[c][i])
  /\ \A c \in Calls : \A k \in 1..Len(inbox[c]) : StoreHas(inbox[c][k].id)

IInv ==
  /\ RP!IInv
  /\ Demand
  /\ Shapes
  /\ Bounds
  /\ Queues
  /\ Samples
  /\ Warm

-----------------------------------------------------------------------------
(* The steps, by what they do.                                             *)

(* Both ways a call can end.                                               *)
Ends(c) ==
  /\ call[c] = "streaming"
  /\ \E how \in {"returned", "cancelled"} : call' = [call EXCEPT ![c] = how]
  /\ Release(c)
  /\ UNCHANGED <<lost, log, cap, since, got, cache>>

LEMMA NextCases ==
  ASSUME Next
  PROVE  \/ \E t \in Topics : Publish(t)
         \/ \E c \in Calls : \E t \in Topics, n \in 1..HardMax + 1 : StreamBegins(c, t, n)
         \/ \E c \in Calls : Collect(c)
         \/ \E c \in Calls : Ends(c)
         \/ Drain
  BY DEF Next, Ends, StreamReturns, StreamCancelled

-----------------------------------------------------------------------------
(* Who wants what.                                                         *)

LEMMA BeginsDemand ==
  ASSUME IInv, NEW c \in Calls, NEW t \in Topics, NEW n \in 1..HardMax + 1,
         StreamBegins(c, t, n)
  PROVE  RP!IInv' /\ Demand' /\ topics'[c] = {t}
         /\ \A d \in Calls \ {c} : topics'[d] = topics[d]
  <1>1. Registry!RegisterConsumer(c, {t}) /\ tracked' = tracked \cup Registry!FirstHeld({t})
          /\ call' = [call EXCEPT ![c] = "streaming"]
    BY DEF StreamBegins
  <1>2. RP!RegisterConsumer(c, {t})
    BY <1>1 DEF Registry!RegisterConsumer, RP!RegisterConsumer, Registry!Fire, RP!Fire,
       Registry!IncrementRefcount, RP!IncrementRefcount, Registry!FirstHeld, RP!FirstHeld,
       Registry!TopicSubscribers, RP!TopicSubscribers, Registry!ActiveTopics, RP!ActiveTopics
  <1>3. RP!Next
    BY <1>2 DEF RP!Next
  <1>4. RP!IInv'
    BY <1>3, RP!NextIInv DEF IInv
  <1>5. /\ consumers' = consumers \cup {c} /\ topics'[c] = {t}
        /\ \A d \in Calls \ {c} : topics'[d] = topics[d]
    BY <1>1 DEF Registry!RegisterConsumer, IInv, RP!IInv, RP!TypeOK
  <1>6. Registry!TopicSubscribers(t) # {} => t \in tracked
    BY DEF IInv, Demand, RP!IInv, RP!RefcountExact, RP!ActiveTopics, RP!HoldersOf,
       Registry!TopicSubscribers
  <1>7. tracked' = tracked \cup {t}
    BY <1>1, <1>6 DEF Registry!FirstHeld
  <1>8. /\ \A d \in Calls \ {c} : call'[d] = call[d]
        /\ call'[c] = "streaming" /\ c \notin consumers
    BY <1>1 DEF IInv, Shapes, Registry!RegisterConsumer
  <1>9. Demand'
    BY <1>5, <1>7, <1>8 DEF IInv, Demand
  <1> QED BY <1>4, <1>5, <1>9

LEMMA EndsDemand ==
  ASSUME IInv, NEW c \in Calls, Ends(c)
  PROVE  RP!IInv' /\ Demand' /\ \A d \in Calls \ {c} : topics'[d] = topics[d]
  <1>1. /\ Registry!UnregisterConsumer(c)
        /\ tracked' = tracked \ Registry!LastHeld(c, topics[c])
        /\ \E how \in {"returned", "cancelled"} : call' = [call EXCEPT ![c] = how]
    BY DEF Ends, Release
  <1>2. RP!UnregisterConsumer(c)
    BY <1>1 DEF Registry!UnregisterConsumer, RP!UnregisterConsumer, Registry!Fire, RP!Fire,
       Registry!DecrementRefcount, RP!DecrementRefcount, Registry!LastHeld, RP!LastHeld,
       Registry!ActiveTopics, RP!ActiveTopics
  <1>3. RP!Next
    BY <1>2 DEF RP!Next
  <1>4. RP!IInv'
    BY <1>3, RP!NextIInv DEF IInv
  <1>5. /\ consumers' = consumers \ {c} /\ topics'[c] = {} /\ topics[c] \subseteq Topics
        /\ \A d \in Calls \ {c} : topics'[d] = topics[d]
    BY <1>1 DEF Registry!UnregisterConsumer, IInv, RP!IInv, RP!TypeOK
  <1>6. \A u \in Topics : u \in Registry!LastHeld(c, topics[c]) <=>
                          u \in topics[c] /\ \A d \in consumers \ {c} : u \notin topics[d]
    <2>1. \A u \in Topics : u \in DOMAIN refcount <=> RP!HoldersOf(u) # {}
      BY DEF IInv, RP!IInv, RP!RefcountExact, RP!ActiveTopics
    <2>2. \A u \in DOMAIN refcount : refcount[u] = RP!HoldersOf(u)
      BY DEF IInv, RP!IInv, RP!RefcountExact, RP!ActiveTopics
    <2>3. c \in consumers
      BY <1>1 DEF Registry!UnregisterConsumer
    <2> QED BY <2>1, <2>2, <2>3, <1>5 DEF Registry!LastHeld, Registry!ActiveTopics,
               RP!HoldersOf
  <1>7. tracked' = {u \in Topics : \E d \in consumers' : u \in topics'[d]}
    BY <1>1, <1>5, <1>6 DEF IInv, Demand
  <1>8. /\ \A d \in Calls \ {c} : call'[d] = call[d]
        /\ call'[c] # "streaming"
    BY <1>1 DEF IInv, Shapes
  <1>9. Demand'
    BY <1>5, <1>7, <1>8 DEF IInv, Demand
  <1> QED BY <1>4, <1>5, <1>9

LEMMA OthersDemand ==
  ASSUME IInv, UNCHANGED registryVars, tracked' = tracked, call' = call
  PROVE  RP!IInv' /\ Demand'
  <1>1. [RP!Next]_(RP!registryVars)
    BY DEF registryVars, RP!registryVars
  <1>2. RP!IInv'
    BY <1>1, RP!NextIInv DEF IInv
  <1>3. Demand'
    BY DEF IInv, Demand, registryVars
  <1> QED BY <1>2, <1>3

-----------------------------------------------------------------------------
(* What a step does to the queue of s, element by element.                 *)

Kept(s) == inbox'[s] = inbox[s] /\ lost'[s] = lost[s]

Grows(s, m) ==
  /\ inbox'[s] \in Seq(Messages) /\ Len(inbox'[s]) = Len(inbox[s]) + 1
  /\ \A k \in 1..Len(inbox[s]) : inbox'[s][k] = inbox[s][k]
  /\ inbox'[s][Len(inbox[s]) + 1] = m
  /\ Len(inbox[s]) < Capacity /\ lost'[s] = lost[s]

\* Full: the oldest message makes room.
Slides(s, m) ==
  /\ inbox'[s] \in Seq(Messages) /\ Len(inbox'[s]) = Len(inbox[s])
  /\ Len(inbox[s]) >= 1 /\ s # "store"
  /\ \A k \in 1..Len(inbox[s]) - 1 : inbox'[s][k] = inbox[s][k + 1]
  /\ inbox'[s][Len(inbox[s])] = m
  /\ lost'[s] = lost[s] + 1

Shrinks(s) ==
  /\ inbox'[s] \in Seq(Messages) /\ Len(inbox'[s]) = Len(inbox[s]) - 1
  /\ Len(inbox[s]) >= 1 /\ Head(inbox[s]) = inbox[s][1]
  /\ \A k \in 1..Len(inbox[s]) - 1 : inbox'[s][k] = inbox[s][k + 1]
  /\ lost'[s] = lost[s]

Wants(s, t) == IF s = "store" THEN t \in tracked ELSE t \in topics[s]

NewMessage(t) == [topic |-> t, id |-> Len(log) + 1]

LogGrows(t) ==
  /\ Len(log) \in Nat /\ log' \in Seq(Topics)
  /\ Len(log') = Len(log) + 1 /\ Len(log') <= MaxPublish
  /\ \A i \in 1..Len(log) : log'[i] = log[i]
  /\ log'[Len(log) + 1] = t

LEMMA PublishEffect ==
  ASSUME IInv, NEW t \in Topics, Publish(t)
  PROVE  /\ LogGrows(t)
         /\ NewMessage(t) \in Messages
         /\ UNCHANGED <<registryVars, tracked, callVars, cache>>
         /\ inbox' = [s \in Subs |-> inbox'[s]] /\ lost' = [s \in Subs |-> lost'[s]]
         /\ \A s \in Subs : IF Wants(s, t) THEN Grows(s, NewMessage(t)) \/ Slides(s, NewMessage(t))
                            ELSE Kept(s)
  <1> DEFINE m == NewMessage(t)
  <1>1. /\ log' = Append(log, t) /\ Len(log) < MaxPublish
        /\ Len(inbox["store"]) < Capacity
        /\ UNCHANGED <<registryVars, tracked, callVars, cache>>
    BY DEF Publish, StoreKeepsUp
  <1>2. log \in Seq(Topics) /\ Len(log) \in Nat /\ MaxPublish \in Nat
    BY StreamsAssumption DEF IInv, Shapes
  <1>3. LogGrows(t)
    BY <1>1, <1>2, AppendProperties DEF LogGrows
  <1>4. m \in Messages
    BY <1>1, <1>2 DEF NewMessage, Messages
  <1> DEFINE want == [s \in Subs |-> IF s = "store" THEN tracked ELSE topics[s]]
             To == {s \in Subs : t \in want[s]}
             Full == {s \in To : Len(inbox[s]) >= Capacity}
  <1>5. /\ inbox' = [s \in Subs |-> IF s \in Full THEN Append(Tail(inbox[s]), m)
                                    ELSE IF s \in To THEN Append(inbox[s], m)
                                    ELSE inbox[s]]
        /\ lost' = [s \in Subs |-> IF s \in Full THEN lost[s] + 1 ELSE lost[s]]
    BY DEF Publish, Bus!Publish, NewMessage
  <1>6. \A s \in Subs : s \in To <=> Wants(s, t)
    BY DEF Wants
  <1>7. ASSUME NEW s \in Subs
        PROVE  IF Wants(s, t) THEN Grows(s, m) \/ Slides(s, m) ELSE Kept(s)
    <2>1. inbox[s] \in Seq(Messages) /\ Len(inbox[s]) \in Nat /\ Capacity \in Nat \ {0}
      BY StreamsAssumption DEF IInv, Shapes
    <2> HIDE DEF m, To
    <2>2. CASE ~Wants(s, t)
      BY <1>5, <1>6, <2>2 DEF Kept
    <2>3. CASE Wants(s, t) /\ Len(inbox[s]) < Capacity
      <3>1. inbox'[s] = Append(inbox[s], m) /\ lost'[s] = lost[s]
        BY <1>5, <1>6, <2>1, <2>3
      <3> DEFINE q == inbox[s]
      <3>2. /\ Append(q, m) \in Seq(Messages) /\ Len(Append(q, m)) = Len(q) + 1
            /\ \A k \in 1..Len(q) : Append(q, m)[k] = q[k]
            /\ Append(q, m)[Len(q) + 1] = m
        BY <2>1, <1>4, AppendProperties
      <3> QED BY <3>1, <3>2, <2>3 DEF Grows
    <2>4. CASE Wants(s, t) /\ ~(Len(inbox[s]) < Capacity)
      <3>1. inbox'[s] = Append(Tail(inbox[s]), m) /\ lost'[s] = lost[s] + 1
        BY <1>5, <1>6, <2>1, <2>4
      <3>2. Len(inbox[s]) >= 1 /\ inbox[s] # <<>> /\ s # "store"
        BY <1>1, <2>1, <2>4
      <3>3. /\ Tail(inbox[s]) \in Seq(Messages) /\ Len(Tail(inbox[s])) = Len(inbox[s]) - 1
            /\ \A k \in 1..Len(inbox[s]) - 1 : Tail(inbox[s])[k] = inbox[s][k + 1]
        BY <2>1, <3>2, HeadTailProperties
      <3> DEFINE q == Tail(inbox[s])
      <3>4. /\ Append(q, m) \in Seq(Messages) /\ Len(Append(q, m)) = Len(q) + 1
            /\ \A k \in 1..Len(q) : Append(q, m)[k] = q[k]
            /\ Append(q, m)[Len(q) + 1] = m
        BY <3>3, <1>4, AppendProperties
      <3> HIDE DEF q
      <3>5. Len(q) = Len(inbox[s]) - 1 /\ Len(q) + 1 = Len(inbox[s])
            /\ inbox'[s] = Append(q, m) /\ \A k \in 1..Len(q) : q[k] = inbox[s][k + 1]
        BY <3>1, <3>3, <2>1 DEF q
      <3>6. /\ inbox'[s] \in Seq(Messages) /\ Len(inbox'[s]) = Len(inbox[s])
            /\ inbox'[s][Len(inbox[s])] = m
        BY <3>4, <3>5
      <3>7. \A k \in 1..Len(inbox[s]) - 1 : inbox'[s][k] = inbox[s][k + 1]
        BY <3>4, <3>5
      <3> QED BY <3>1, <3>2, <3>6, <3>7, <2>4 DEF Slides
    <2> QED BY <2>2, <2>3, <2>4
  <1>8. inbox' = [s \in Subs |-> inbox'[s]] /\ lost' = [s \in Subs |-> lost'[s]]
    BY <1>5
  <1> QED BY <1>1, <1>3, <1>4, <1>7, <1>8

(* Reading the first message of a queue.                                   *)
LEMMA ReadEffect ==
  ASSUME IInv, NEW s \in Subs, Bus!Read(s)
  PROVE  /\ Shrinks(s) /\ lost' = lost
         /\ Head(inbox[s]) \in Messages
         /\ inbox' = [inbox EXCEPT ![s] = Tail(@)]
         /\ \A r \in Subs \ {s} : Kept(r)
  <1>1. inbox[s] # <<>> /\ inbox' = [inbox EXCEPT ![s] = Tail(@)] /\ lost' = lost
    BY DEF Bus!Read
  <1>2. inbox[s] \in Seq(Messages) /\ inbox \in [Subs -> Seq(Messages)]
    BY DEF IInv, Shapes
  <1>3. inbox'[s] = Tail(inbox[s]) /\ \A r \in Subs \ {s} : inbox'[r] = inbox[r]
    BY <1>1, <1>2
  <1>4. /\ Tail(inbox[s]) \in Seq(Messages) /\ Len(Tail(inbox[s])) = Len(inbox[s]) - 1
        /\ Head(inbox[s]) \in Messages /\ Head(inbox[s]) = inbox[s][1]
        /\ \A k \in 1..Len(inbox[s]) - 1 : Tail(inbox[s])[k] = inbox[s][k + 1]
    BY <1>1, <1>2, HeadTailProperties
  <1>5. Len(inbox[s]) \in Nat /\ Len(inbox[s]) >= 1
    BY <1>1, <1>2
  <1>6. Shrinks(s)
    BY <1>1, <1>3, <1>4, <1>5 DEF Shrinks
  <1> QED BY <1>1, <1>3, <1>4, <1>6 DEF Kept

-----------------------------------------------------------------------------
(* Types, bounds and queues, step by step.                                 *)

LEMMA PublishShapes ==
  ASSUME IInv, NEW t \in Topics, Publish(t)
  PROVE  Shapes' /\ Bounds' /\ Queues'
  <1> DEFINE m == NewMessage(t)
  <1>i. Shapes /\ Bounds /\ Queues /\ Demand
    BY DEF IInv
  <1>1. LogGrows(t) /\ m \in Messages
    BY PublishEffect
  <1>2. UNCHANGED <<topics, call, cap, since, got, cache>>
    BY PublishEffect DEF callVars, registryVars
  <1>3. ASSUME NEW s \in Subs
        PROVE  IF Wants(s, t) THEN Grows(s, m) \/ Slides(s, m) ELSE Kept(s)
    BY PublishEffect
  <1>4. inbox' = [s \in Subs |-> inbox'[s]] /\ lost' = [s \in Subs |-> lost'[s]]
    BY PublishEffect
  <1>5. m.id = Len(log) + 1 /\ m.topic = t
    BY DEF NewMessage
  <1> HIDE DEF m
  <1>6. ASSUME NEW s \in Subs
        PROVE  /\ inbox[s] \in Seq(Messages) /\ Len(inbox[s]) \in Nat
               /\ lost[s] \in Nat /\ lost[s] <= Len(log) /\ Len(log) \in Nat
               /\ \A k \in 1..Len(inbox[s]) : inbox[s][k].id \in 1..Len(log)
    <2>1. inbox[s] \in Seq(Messages) /\ lost[s] \in Nat /\ lost[s] <= Len(log)
      BY <1>i DEF Shapes, Bounds
    <2>2. \A k \in 1..Len(inbox[s]) : inbox[s][k] \in Messages
      BY <2>1
    <2>3. \A k \in 1..Len(inbox[s]) : inbox[s][k].id \in 1..MaxPublish
      BY <2>2 DEF Messages
    <2>4. \A k \in 1..Len(inbox[s]) : inbox[s][k].id <= Len(log)
      BY <1>i DEF Queues
    <2> QED BY <2>1, <2>3, <2>4, <1>1, StreamsAssumption DEF LogGrows
  <1>7. ASSUME NEW s \in Subs
        PROVE  /\ inbox'[s] \in Seq(Messages) /\ Len(inbox'[s]) <= Capacity
               /\ lost'[s] \in Nat /\ lost'[s] <= Len(log')
               /\ s = "store" => lost'[s] = lost[s]
    <2>1. Len(inbox[s]) <= Capacity /\ Capacity \in Nat
      BY <1>i, StreamsAssumption DEF Bounds
    <2> QED BY <2>1, <1>1, <1>3, <1>6 DEF Kept, Grows, Slides, LogGrows
  <1>8. ASSUME NEW c \in Calls, call[c] # "streaming" PROVE inbox'[c] = <<>>
    <2>1. c # "store" /\ c \in Subs /\ topics[c] = {} /\ inbox[c] = <<>>
      BY <1>8, <1>i, StreamsAssumption DEF Subs, Demand, Shapes
    <2>2. ~Wants(c, t)
      BY <2>1 DEF Wants
    <2> QED BY <2>1, <2>2, <1>3 DEF Kept
  <1>9. ASSUME NEW c \in Calls, call[c] = "new" PROVE lost'[c] = 0
    <2>1. c # "store" /\ c \in Subs /\ topics[c] = {} /\ lost[c] = 0
      BY <1>9, <1>i, StreamsAssumption DEF Subs, Demand, Shapes
    <2>2. ~Wants(c, t)
      BY <2>1 DEF Wants
    <2> QED BY <2>1, <2>2, <1>3 DEF Kept
  <1>10. Shapes'
    <2>1. inbox' \in [Subs -> Seq(Messages)] /\ lost' \in [Subs -> Nat]
      BY <1>4, <1>7
    <2>2. lost'["store"] = 0
      BY <1>7, <1>i DEF Subs, Shapes
    <2> QED BY <1>i, <1>1, <1>2, <1>8, <1>9, <2>1, <2>2 DEF Shapes, LogGrows, Messages
  <1>11. Bounds'
    <2>1. Len(log) \in Nat /\ Len(log') = Len(log) + 1
      BY <1>1 DEF LogGrows
    <2>2. \A c \in Calls : \A i \in 1..Len(got[c]) : got[c][i] \in Nat /\ got[c][i] <= Len(log')
      <3>1. \A c \in Calls : got[c] \in Seq(1..MaxPublish)
        BY <1>i DEF Shapes
      <3>2. \A c \in Calls : \A i \in 1..Len(got[c]) : got[c][i] \in 1..MaxPublish
        BY <3>1, ElementOfSeq
      <3> QED BY <3>2, <2>1, <1>i DEF Bounds
    <2>3. \A p \in Products : cache[p] \in Nat /\ cache[p] <= Len(log')
      BY <2>1, <1>i DEF Bounds, Shapes
    <2>4. \A c \in Calls : since[c] <= Len(log')
      BY <2>1, <1>i DEF Bounds, Shapes
    <2> QED BY <1>i, <1>2, <1>7, <2>2, <2>3, <2>4 DEF Bounds
  <1>12. Queues'
    <2>1. ASSUME NEW s \in Subs, NEW k \in 1..Len(inbox'[s])
          PROVE  inbox'[s][k].id \in 1..Len(log') /\ log'[inbox'[s][k].id] = inbox'[s][k].topic
      <3>1. inbox'[s][k] = m \/ \E j \in 1..Len(inbox[s]) : inbox'[s][k] = inbox[s][j]
        <4>1. CASE Kept(s)
          BY <4>1 DEF Kept
        <4>2. CASE Grows(s, m)
          BY <4>2, <1>6 DEF Grows
        <4>3. CASE Slides(s, m)
          <5>1. k = Len(inbox[s]) \/ (k \in 1..Len(inbox[s]) - 1 /\ k + 1 \in 1..Len(inbox[s]))
            BY <4>3, <1>6 DEF Slides
          <5> QED BY <5>1, <4>3 DEF Slides
        <4> QED BY <4>1, <4>2, <4>3, <1>3
      <3>2. CASE inbox'[s][k] = m
        BY <3>2, <1>1, <1>5 DEF LogGrows
      <3>3. ASSUME NEW j \in 1..Len(inbox[s]), inbox'[s][k] = inbox[s][j]
            PROVE  inbox'[s][k].id \in 1..Len(log') /\ log'[inbox'[s][k].id] = inbox'[s][k].topic
        <4>1. inbox[s][j].id \in 1..Len(log) /\ log[inbox[s][j].id] = inbox[s][j].topic
          BY <1>6, <1>i DEF Queues
        <4> QED BY <3>3, <4>1, <1>1 DEF LogGrows
      <3> QED BY <3>1, <3>2, <3>3
    <2>2. ASSUME NEW s \in Subs, NEW j \in 1..Len(inbox'[s]), NEW k \in 1..Len(inbox'[s]), j < k
          PROVE  inbox'[s][j].id < inbox'[s][k].id
      <3>1. \A a, b \in 1..Len(inbox[s]) : a < b => inbox[s][a].id < inbox[s][b].id
        BY <1>i DEF Queues
      <3>2. CASE Kept(s)
        BY <2>2, <3>1, <3>2 DEF Kept
      <3>3. CASE Grows(s, m)
        <4>1. j \in 1..Len(inbox[s]) /\ (k \in 1..Len(inbox[s]) \/ k = Len(inbox[s]) + 1)
          BY <2>2, <3>3, <1>6 DEF Grows
        <4>2. inbox'[s][j] = inbox[s][j] /\ inbox[s][j].id \in 1..Len(log)
          BY <3>3, <4>1, <1>6 DEF Grows
        <4>3. CASE k \in 1..Len(inbox[s])
          BY <2>2, <3>1, <3>3, <4>1, <4>3 DEF Grows
        <4>4. CASE k = Len(inbox[s]) + 1
          <5>1. inbox'[s][k].id = Len(log) + 1
            BY <3>3, <4>4, <1>5 DEF Grows
          <5> QED BY <4>2, <5>1, <1>6
        <4> QED BY <4>1, <4>3, <4>4
      <3>4. CASE Slides(s, m)
        <4>1. /\ j \in 1..Len(inbox[s]) - 1 /\ j + 1 \in 1..Len(inbox[s])
              /\ \/ k \in 1..Len(inbox[s]) - 1 /\ k + 1 \in 1..Len(inbox[s]) /\ j + 1 < k + 1
                 \/ k = Len(inbox[s])
          BY <2>2, <3>4, <1>6 DEF Slides
        <4>2. inbox'[s][j] = inbox[s][j + 1] /\ inbox[s][j + 1].id \in 1..Len(log)
          BY <3>4, <4>1, <1>6 DEF Slides
        <4>3. CASE k \in 1..Len(inbox[s]) - 1 /\ k + 1 \in 1..Len(inbox[s]) /\ j + 1 < k + 1
          BY <3>1, <3>4, <4>1, <4>2, <4>3 DEF Slides
        <4>4. CASE k = Len(inbox[s])
          <5>1. inbox'[s][k].id = Len(log) + 1
            BY <3>4, <4>4, <1>5 DEF Slides
          <5> QED BY <4>2, <5>1, <1>6
        <4> QED BY <4>1, <4>3, <4>4
      <3> QED BY <3>2, <3>3, <3>4, <1>3
    <2>3. ASSUME NEW p \in Products, NEW k \in 1..Len(inbox'["store"])
          PROVE  cache'[p] < inbox'["store"][k].id
      <3>1. "store" \in Subs
        BY DEF Subs
      <3>2. cache[p] \in Nat /\ cache[p] <= Len(log)
        BY <1>i DEF Shapes, Bounds
      <3>3. CASE Kept("store")
        BY <3>1, <3>3, <1>i, <1>2 DEF Kept, Queues
      <3>4. CASE Grows("store", m)
        <4>1. k \in 1..Len(inbox["store"]) \/ k = Len(inbox["store"]) + 1
          BY <3>1, <3>4, <1>6 DEF Grows
        <4>2. CASE k \in 1..Len(inbox["store"])
          BY <3>4, <4>2, <1>i, <1>2 DEF Grows, Queues
        <4>3. CASE k = Len(inbox["store"]) + 1
          <5>1. inbox'["store"][k].id = Len(log) + 1
            BY <3>4, <4>3, <1>5 DEF Grows
          <5> QED BY <5>1, <3>1, <3>2, <1>2, <1>6
        <4> QED BY <4>1, <4>2, <4>3
      <3>5. ~Slides("store", m)
        BY DEF Slides
      <3> QED BY <3>1, <3>3, <3>4, <3>5, <1>3
    <2>4. ASSUME NEW s \in Subs, NEW k \in 1..Len(inbox'[s])
          PROVE  inbox'[s][k].id <= Len(log')
      BY <2>1, <1>1 DEF LogGrows
    <2> QED BY <2>1, <2>2, <2>3, <2>4 DEF Queues
  <1> QED BY <1>10, <1>11, <1>12

LEMMA BeginsShapes ==
  ASSUME IInv, NEW c \in Calls, NEW t \in Topics, NEW n \in 1..HardMax + 1,
         StreamBegins(c, t, n)
  PROVE  Shapes' /\ Bounds' /\ Queues'
  <1>i. Shapes /\ Bounds /\ Queues
    BY DEF IInv
  <1>1. /\ call[c] = "new" /\ call' = [call EXCEPT ![c] = "streaming"]
        /\ cap' = [cap EXCEPT ![c] = Clamped(n)] /\ since' = [since EXCEPT ![c] = Len(log)]
        /\ UNCHANGED <<inbox, lost, log, got, cache>>
    BY DEF StreamBegins
  <1>2. Clamped(n) \in 0..HardMax
    BY StreamsAssumption DEF Clamped, Lesser
  <1>3. Len(log) \in Nat /\ got[c] = <<>> /\ Len(got[c]) = 0
    BY <1>i, <1>1 DEF Shapes
  <1>4. Shapes'
    BY <1>i, <1>1, <1>2, <1>3 DEF Shapes
  <1>5. Bounds'
    BY <1>i, <1>1, <1>2, <1>3 DEF Bounds, Shapes
  <1>6. Queues'
    BY <1>i, <1>1 DEF Queues
  <1> QED BY <1>4, <1>5, <1>6

(* What is left of a queue is still in order and was published.            *)
LEMMA ShrinkKeepsOrder ==
  ASSUME Shapes, Queues, NEW s0 \in Subs, Shrinks(s0), log' = log,
         \A s \in Subs \ {s0} : inbox'[s] = inbox[s]
  PROVE  /\ \A k \in 1..Len(inbox'[s0]) :
              /\ k + 1 \in 1..Len(inbox[s0]) /\ 1 \in 1..Len(inbox[s0]) /\ 1 < k + 1
              /\ inbox'[s0][k] = inbox[s0][k + 1]
         /\ \A s \in Subs : \A k \in 1..Len(inbox'[s]) :
              inbox'[s][k].id <= Len(log) /\ log[inbox'[s][k].id] = inbox'[s][k].topic
         /\ \A s \in Subs : \A j, k \in 1..Len(inbox'[s]) :
              j < k => inbox'[s][j].id < inbox'[s][k].id
  <1>1. \A k \in 1..Len(inbox'[s0]) :
          /\ k + 1 \in 1..Len(inbox[s0]) /\ 1 \in 1..Len(inbox[s0]) /\ 1 < k + 1
          /\ inbox'[s0][k] = inbox[s0][k + 1]
    BY DEF Shrinks, Shapes
  <1>2. ASSUME NEW s \in Subs, NEW k \in 1..Len(inbox'[s])
        PROVE  inbox'[s][k].id <= Len(log) /\ log[inbox'[s][k].id] = inbox'[s][k].topic
    <2>1. CASE s # s0
      BY <2>1 DEF Queues
    <2>2. CASE s = s0
      <3>1. k + 1 \in 1..Len(inbox[s0]) /\ inbox'[s0][k] = inbox[s0][k + 1]
        BY <1>1, <2>2
      <3> QED BY <2>2, <3>1 DEF Queues
    <2> QED BY <2>1, <2>2
  <1>3. ASSUME NEW s \in Subs, NEW j \in 1..Len(inbox'[s]), NEW k \in 1..Len(inbox'[s]), j < k
        PROVE  inbox'[s][j].id < inbox'[s][k].id
    <2>1. CASE s # s0
      BY <1>3, <2>1 DEF Queues
    <2>2. CASE s = s0
      <3>1. /\ j + 1 \in 1..Len(inbox[s0]) /\ inbox'[s0][j] = inbox[s0][j + 1]
            /\ k + 1 \in 1..Len(inbox[s0]) /\ inbox'[s0][k] = inbox[s0][k + 1]
        BY <1>1, <2>2
      <3>2. j + 1 < k + 1
        BY <1>3
      <3> QED BY <2>2, <3>1, <3>2 DEF Queues
    <2> QED BY <2>1, <2>2
  <1> QED BY <1>1, <1>2, <1>3

LEMMA CollectShapes ==
  ASSUME IInv, NEW c \in Calls, Collect(c)
  PROVE  Shapes' /\ Bounds' /\ Queues'
  <1>i. Shapes /\ Bounds /\ Queues
    BY DEF IInv
  <1> DEFINE i == Head(inbox[c]).id
  <1>1. /\ call[c] = "streaming" /\ Len(got[c]) < cap[c]
        /\ UNCHANGED <<log, call, cap, since, cache>>
        /\ got' = [got EXCEPT ![c] = Append(@, i)] /\ Bus!Read(c)
    BY DEF Collect
  <1>2. c \in Subs /\ c # "store"
    BY StreamsAssumption DEF Subs
  <1>3. /\ Shrinks(c) /\ lost' = lost /\ Head(inbox[c]) \in Messages
        /\ inbox' = [inbox EXCEPT ![c] = Tail(@)] /\ \A r \in Subs \ {c} : Kept(r)
    BY <1>1, <1>2, ReadEffect
  <1>4. i \in 1..MaxPublish /\ i <= Len(log)
    <2>1. Head(inbox[c]) = inbox[c][1] /\ Len(inbox[c]) >= 1 /\ Len(inbox[c]) \in Nat
      BY <1>2, <1>3, <1>i DEF Shrinks, Shapes
    <2>2. inbox[c][1].id <= Len(log)
      BY <1>2, <2>1, <1>i DEF Queues
    <2> QED BY <1>3, <2>1, <2>2 DEF Messages
  <1> HIDE DEF i
  <1>5. /\ got[c] \in Seq(1..MaxPublish)
        /\ Append(got[c], i) \in Seq(1..MaxPublish)
        /\ Len(Append(got[c], i)) = Len(got[c]) + 1
        /\ \A k \in 1..Len(got[c]) : Append(got[c], i)[k] = got[c][k]
        /\ Append(got[c], i)[Len(got[c]) + 1] = i
    <2>1. got[c] \in Seq(1..MaxPublish)
      BY <1>i DEF Shapes
    <2> QED BY <2>1, <1>4, AppendProperties
  <1>6. /\ got'[c] = Append(got[c], i) /\ \A d \in Calls \ {c} : got'[d] = got[d]
        /\ got' \in [Calls -> Seq(1..MaxPublish)]
    BY <1>1, <1>5, <1>i DEF Shapes
  <1>7. inbox' \in [Subs -> Seq(Messages)] /\ \A r \in Subs \ {c} : inbox'[r] = inbox[r]
    BY <1>2, <1>3, <1>i DEF Shrinks, Kept, Shapes
  <1>8. Shapes'
    BY <1>i, <1>1, <1>2, <1>3, <1>6, <1>7 DEF Shapes, Subs
  <1>9. Bounds'
    <2>1. \A s \in Subs : Len(inbox'[s]) <= Capacity
      BY <1>i, <1>3, <1>7, StreamsAssumption DEF Shrinks, Shapes, Bounds
    <2>2. \A d \in Calls : Len(got'[d]) <= cap[d]
      BY <1>1, <1>5, <1>6, <1>i DEF Bounds, Shapes
    <2>3. \A d \in Calls : \A k \in 1..Len(got'[d]) : got'[d][k] <= Len(log)
      <3>1. \A k \in 1..Len(got'[c]) : k \in 1..Len(got[c]) \/ k = Len(got[c]) + 1
        BY <1>5, <1>6
      <3> QED BY <3>1, <1>4, <1>5, <1>6, <1>i DEF Bounds
    <2> QED BY <1>i, <1>1, <1>3, <2>1, <2>2, <2>3 DEF Bounds
  <1>10. Queues'
    <2>3. "store" \in Subs \ {c}
      BY <1>2 DEF Subs
    <2>4. inbox'["store"] = inbox["store"] /\ log' = log /\ cache' = cache
      BY <1>1, <1>7, <2>3
    <2>5. /\ \A s \in Subs : \A k \in 1..Len(inbox'[s]) :
               inbox'[s][k].id <= Len(log) /\ log[inbox'[s][k].id] = inbox'[s][k].topic
          /\ \A s \in Subs : \A j, k \in 1..Len(inbox'[s]) :
               j < k => inbox'[s][j].id < inbox'[s][k].id
      BY <1>i, <1>1, <1>2, <1>3, <1>7, ShrinkKeepsOrder
    <2> QED BY <1>i, <2>4, <2>5 DEF Queues
  <1> QED BY <1>8, <1>9, <1>10

LEMMA EndsShapes ==
  ASSUME IInv, NEW c \in Calls, Ends(c)
  PROVE  Shapes' /\ Bounds' /\ Queues'
  <1>i. Shapes /\ Bounds /\ Queues
    BY DEF IInv
  <1>1. /\ call[c] = "streaming" /\ inbox' = [inbox EXCEPT ![c] = <<>>]
        /\ \E how \in {"returned", "cancelled"} : call' = [call EXCEPT ![c] = how]
        /\ UNCHANGED <<lost, log, cap, since, got, cache>>
    BY DEF Ends, Release
  <1>2. c \in Subs /\ c # "store" /\ "store" \in Subs
    BY StreamsAssumption DEF Subs
  <1>3. /\ inbox'[c] = <<>> /\ \A s \in Subs \ {c} : inbox'[s] = inbox[s]
        /\ <<>> \in Seq(Messages) /\ Len(<<>>) = 0 /\ 1..0 = {}
    BY <1>1, <1>2, <1>i DEF Shapes
  <1>4. inbox' \in [Subs -> Seq(Messages)]
    BY <1>1, <1>3, <1>i DEF Shapes
  <1>5. Shapes'
    BY <1>i, <1>1, <1>2, <1>3, <1>4 DEF Shapes, Subs
  <1>6. Bounds'
    BY <1>i, <1>1, <1>3, StreamsAssumption DEF Bounds
  <1>7. Queues'
    BY <1>i, <1>1, <1>2, <1>3 DEF Queues
  <1> QED BY <1>5, <1>6, <1>7

LEMMA DrainEffect ==
  ASSUME IInv, Drain
  PROVE  LET m == Head(inbox["store"])
         IN  /\ Shrinks("store") /\ lost' = lost /\ \A s \in Subs \ {"store"} : Kept(s)
             /\ UNCHANGED <<registryVars, tracked, log, callVars>>
             /\ inbox' \in [Subs -> Seq(Messages)]
             /\ m = inbox["store"][1] /\ m \in Messages
             /\ m.id \in 1..Len(log) /\ log[m.id] = m.topic /\ ProductOf[m.topic] \in Products
             /\ cache' = [cache EXCEPT ![ProductOf[m.topic]] = m.id]
  <1>i. Shapes /\ Queues
    BY DEF IInv
  <1> DEFINE m == Head(inbox["store"])
  <1>1. "store" \in Subs
    BY DEF Subs
  <1>2. Bus!Read("store") /\ UNCHANGED <<registryVars, tracked, log, callVars>>
          /\ cache' = [cache EXCEPT ![ProductOf[m.topic]] = m.id]
    BY DEF Drain
  <1>3. /\ Shrinks("store") /\ lost' = lost /\ \A s \in Subs \ {"store"} : Kept(s)
        /\ inbox' = [inbox EXCEPT !["store"] = Tail(@)] /\ m \in Messages
    BY <1>1, <1>2, ReadEffect
  <1>4. m = inbox["store"][1] /\ 1 \in 1..Len(inbox["store"])
    BY <1>1, <1>3, <1>i DEF Shrinks, Shapes
  <1>5. m.id <= Len(log) /\ log[m.id] = m.topic
    BY <1>1, <1>4, <1>i DEF Queues
  <1>6. m.id \in 1..MaxPublish /\ m.topic \in Topics
    BY <1>3 DEF Messages
  <1>7. inbox' \in [Subs -> Seq(Messages)]
    BY <1>1, <1>3, <1>i DEF Shrinks, Shapes
  <1>8. Len(log) \in Nat /\ ProductOf[m.topic] \in Products
    BY <1>6, <1>i, StreamsAssumption DEF Shapes
  <1> HIDE DEF m
  <1>9. m.id \in 1..Len(log)
    BY <1>5, <1>6, <1>8
  <1> QED BY <1>2, <1>3, <1>4, <1>5, <1>7, <1>8, <1>9 DEF m

LEMMA DrainShapes ==
  ASSUME IInv, Drain
  PROVE  Shapes' /\ Bounds' /\ Queues'
  <1>i. Shapes /\ Bounds /\ Queues
    BY DEF IInv
  <1> DEFINE m == Head(inbox["store"])
             p0 == ProductOf[m.topic]
  <1>1. /\ Shrinks("store") /\ lost' = lost /\ \A s \in Subs \ {"store"} : inbox'[s] = inbox[s]
        /\ UNCHANGED <<log, call, cap, since, got>>
        /\ inbox' \in [Subs -> Seq(Messages)]
        /\ m = inbox["store"][1] /\ m.id \in 1..Len(log) /\ p0 \in Products
        /\ cache' = [cache EXCEPT ![p0] = m.id]
    BY DrainEffect DEF Kept, callVars
  <1>2. "store" \in Subs /\ \A c \in Calls : c \in Subs \ {"store"}
    BY StreamsAssumption DEF Subs
  <1> HIDE DEF m, p0
  <1>3. /\ Len(log) \in Nat /\ m.id \in Nat /\ m.id <= Len(log)
        /\ cache'[p0] = m.id /\ \A p \in Products \ {p0} : cache'[p] = cache[p]
        /\ cache' \in [Products -> Nat]
    BY <1>1, <1>i DEF Shapes
  <1>4. Shapes'
    BY <1>i, <1>1, <1>2, <1>3 DEF Shapes
  <1>5. \A s \in Subs : Len(inbox'[s]) <= Capacity
    <2>1. Len(inbox["store"]) \in Nat /\ Capacity \in Nat
      BY <1>2, <1>i, StreamsAssumption DEF Shapes
    <2>2. Len(inbox'["store"]) <= Capacity
      BY <1>1, <1>2, <1>i, <2>1 DEF Shrinks, Bounds
    <2> QED BY <1>i, <1>1, <2>2 DEF Bounds
  <1>6. Bounds'
    BY <1>i, <1>1, <1>3, <1>5 DEF Bounds
  <1>7. Queues'
    <2>1. /\ \A k \in 1..Len(inbox'["store"]) :
               /\ k + 1 \in 1..Len(inbox["store"]) /\ 1 \in 1..Len(inbox["store"]) /\ 1 < k + 1
               /\ inbox'["store"][k] = inbox["store"][k + 1]
          /\ \A s \in Subs : \A k \in 1..Len(inbox'[s]) :
               inbox'[s][k].id <= Len(log) /\ log[inbox'[s][k].id] = inbox'[s][k].topic
          /\ \A s \in Subs : \A j, k \in 1..Len(inbox'[s]) :
               j < k => inbox'[s][j].id < inbox'[s][k].id
      BY <1>i, <1>1, <1>2, ShrinkKeepsOrder
    <2>5. \A k \in 1..Len(inbox'["store"]) : m.id < inbox'["store"][k].id
      BY <1>i, <1>1, <1>2, <2>1 DEF Queues
    <2>6. \A p \in Products : \A k \in 1..Len(inbox'["store"]) :
            cache[p] < inbox'["store"][k].id
      BY <1>i, <2>1 DEF Queues
    <2> QED BY <1>1, <1>3, <2>1, <2>5, <2>6 DEF Queues
  <1> QED BY <1>4, <1>6, <1>7

-----------------------------------------------------------------------------
(* The samples.                                                            *)

LEMMA HaveTypes ==
  ASSUME Shapes, Bounds, Queues, NEW c \in Calls
  PROVE  /\ c \in Subs /\ c # "store" /\ Len(log) \in Nat /\ since[c] \in Nat
         /\ GotLen(c) \in Nat /\ InLen(c) \in Nat /\ HaveLen(c) \in Nat
         /\ lost[c] \in Nat
         /\ \A i \in 1..HaveLen(c) : HaveAt(c, i) \in 1..Len(log)
         /\ IsFiniteSet(Sent(c)) /\ Cardinality(Sent(c)) \in Nat
         /\ Sent(c) \subseteq 1..Len(log)
  <1>1. /\ c \in Subs /\ c # "store" /\ Len(log) \in Nat
        /\ since[c] \in Nat /\ lost[c] \in Nat
        /\ got[c] \in Seq(1..MaxPublish) /\ inbox[c] \in Seq(Messages)
    BY StreamsAssumption DEF Shapes, Subs
  <1>2. GotLen(c) \in Nat /\ InLen(c) \in Nat /\ HaveLen(c) \in Nat
    <2>1. GotLen(c) \in Nat /\ InLen(c) \in Nat
      BY <1>1 DEF GotLen, InLen
    <2> QED BY <2>1 DEF HaveLen
  <1>3. \A i \in 1..HaveLen(c) : HaveAt(c, i) \in 1..Len(log)
    <2>1. ASSUME NEW i \in 1..GotLen(c) PROVE got[c][i] \in 1..Len(log)
      <3>1. got[c][i] \in 1..MaxPublish
        BY <1>1, ElementOfSeq DEF GotLen
      <3>2. got[c][i] <= Len(log)
        BY DEF Bounds, GotLen
      <3> QED BY <1>1, <3>1, <3>2
    <2>2. ASSUME NEW k \in 1..InLen(c) PROVE inbox[c][k].id \in 1..Len(log)
      <3>1. inbox[c][k] \in Messages
        BY <1>1, ElementOfSeq DEF InLen
      <3>2. inbox[c][k].id <= Len(log)
        BY <1>1 DEF Queues, InLen
      <3> QED BY <1>1, <3>1, <3>2 DEF Messages
    <2>3. \A i \in 1..HaveLen(c) : i \in 1..GotLen(c)
                                   \/ (~(i <= GotLen(c)) /\ i - GotLen(c) \in 1..InLen(c))
      BY <1>2 DEF HaveLen
    <2>4. \A i \in 1..GotLen(c) : i <= GotLen(c)
      OBVIOUS
    <2> QED BY <2>1, <2>2, <2>3, <2>4 DEF HaveAt
  <1>4. Sent(c) \subseteq 1..Len(log)
    BY <1>1 DEF Sent
  <1>5. IsFiniteSet(Sent(c)) /\ Cardinality(Sent(c)) \in Nat
    <2>1. IsFiniteSet(1..Len(log))
      BY <1>1, FS_Interval
    <2>2. IsFiniteSet(Sent(c))
      BY <1>4, <2>1, FS_Subset
    <2> QED BY <2>2, FS_CardinalityType
  <1> QED BY <1>1, <1>2, <1>3, <1>4, <1>5

\* What c has, and what it should have, is as it was.
Untouched(c) ==
  /\ Sent(c)' = Sent(c) /\ HaveLen(c)' = HaveLen(c) /\ lost'[c] = lost[c]
  /\ \A i \in 1..HaveLen(c) : HaveAt(c, i)' = HaveAt(c, i)

LEMMA UntouchedSampled ==
  ASSUME NEW c \in Calls, Sampled(c), Untouched(c)
  PROVE  Sampled(c)'
  BY DEF Sampled, Untouched

LEMMA PublishSamples ==
  ASSUME IInv, NEW t \in Topics, Publish(t)
  PROVE  Samples'
  <1> SUFFICES ASSUME NEW c \in Calls, call'[c] = "streaming" PROVE Sampled(c)'
    BY DEF Samples
  <1> DEFINE m == NewMessage(t)
             n == Len(log) + 1
  <1>i. Shapes /\ Bounds /\ Queues
    BY DEF IInv
  <1>1. LogGrows(t) /\ topics' = topics /\ call' = call /\ since' = since /\ got' = got
    BY PublishEffect DEF callVars, registryVars
  <1>2. /\ c \in Subs /\ c # "store" /\ Len(log) \in Nat /\ since[c] \in Nat
        /\ GotLen(c) \in Nat /\ InLen(c) \in Nat /\ HaveLen(c) \in Nat
        /\ lost[c] \in Nat
        /\ \A i \in 1..HaveLen(c) : HaveAt(c, i) \in 1..Len(log)
        /\ IsFiniteSet(Sent(c)) /\ Cardinality(Sent(c)) \in Nat
        /\ Sent(c) \subseteq 1..Len(log)
    BY <1>i, HaveTypes
  <1>3. Sampled(c)
    BY <1>1 DEF IInv, Samples
  <1>4. IF t \in topics[c] THEN Grows(c, m) \/ Slides(c, m) ELSE Kept(c)
    BY <1>2, PublishEffect DEF Wants
  <1>5. m.id = n
    BY DEF NewMessage
  <1> HIDE DEF m
  <1>6. since[c] <= Len(log) /\ GotLen(c)' = GotLen(c)
    BY <1>1, <1>i DEF Bounds, GotLen
  <1>7. CASE t \notin topics[c]
    <2>1. Sent(c)' = Sent(c)
      <3>1. \A i \in since[c] + 1..Len(log') : i \in since[c] + 1..Len(log) \/ i = n
        BY <1>1, <1>2 DEF LogGrows
      <3>2. \A i \in since[c] + 1..Len(log) : i \in 1..Len(log) /\ i \in since[c] + 1..Len(log')
        BY <1>1, <1>2 DEF LogGrows
      <3> QED BY <3>1, <3>2, <1>1, <1>7 DEF Sent, LogGrows
    <2>2. Untouched(c)
      BY <2>1, <1>1, <1>4, <1>7 DEF Untouched, Kept, HaveLen, HaveAt, GotLen, InLen
    <2> QED BY <2>2, <1>3, UntouchedSampled
  <1>8. CASE t \in topics[c]
    <2>1. Sent(c)' = Sent(c) \cup {n} /\ n \notin Sent(c)
      <3>1. \A i \in since[c] + 1..Len(log') : i \in since[c] + 1..Len(log) \/ i = n
        BY <1>1, <1>2 DEF LogGrows
      <3>2. \A i \in since[c] + 1..Len(log) : i \in 1..Len(log) /\ i \in since[c] + 1..Len(log')
        BY <1>1, <1>2 DEF LogGrows
      <3>3. n \in since[c] + 1..Len(log') /\ n \notin 1..Len(log)
        BY <1>1, <1>2, <1>6 DEF LogGrows
      <3> QED BY <3>1, <3>2, <3>3, <1>1, <1>8 DEF Sent, LogGrows
    <2>2. Cardinality(Sent(c)') = Cardinality(Sent(c)) + 1
      BY <2>1, <1>2, FS_AddElement
    <2>3. \A i \in 1..HaveLen(c) : HaveAt(c, i) \in Sent(c)' /\ HaveAt(c, i) < n
      BY <2>1, <1>2, <1>3 DEF Sampled
    <2>4. CASE Grows(c, m)
      <3>0. /\ InLen(c)' = InLen(c) + 1 /\ lost'[c] = lost[c]
            /\ \A k \in 1..InLen(c) : inbox'[c][k] = inbox[c][k]
            /\ inbox'[c][InLen(c) + 1].id = n
        BY <2>4, <1>5 DEF Grows, InLen
      <3>1. HaveLen(c)' = HaveLen(c) + 1
        BY <3>0, <1>2, <1>6 DEF HaveLen
      <3>2. \A i \in 1..HaveLen(c) : HaveAt(c, i)' = HaveAt(c, i)
        <4>1. \A i \in 1..HaveLen(c) : i <= GotLen(c) \/ i - GotLen(c) \in 1..InLen(c)
          BY <1>2 DEF HaveLen
        <4> QED BY <4>1, <3>0, <1>1, <1>6 DEF HaveAt
      <3>3. \A i \in Nat : i = HaveLen(c) + 1 => HaveAt(c, i)' = n
        <4>1. \A i \in Nat : i = HaveLen(c) + 1 => ~(i <= GotLen(c)) /\ i - GotLen(c) = InLen(c) + 1
          BY <1>2 DEF HaveLen
        <4> QED BY <4>1, <3>0, <1>6 DEF HaveAt
      <3>4. \A i \in 1..HaveLen(c) + 1 : i \in Nat /\ (i \in 1..HaveLen(c) \/ i = HaveLen(c) + 1)
        BY <1>2
      <3>5. \A i, j \in 1..HaveLen(c) + 1 : i < j => i \in 1..HaveLen(c)
        BY <1>2
      <3>6. \A i \in 1..HaveLen(c)' : HaveAt(c, i)' \in Sent(c)'
        BY <3>1, <3>2, <3>3, <3>4, <2>1, <2>3
      <3>7. \A i, j \in 1..HaveLen(c)' : i < j => HaveAt(c, i)' < HaveAt(c, j)'
        <4>1. \A i, j \in 1..HaveLen(c) : i < j => HaveAt(c, i) < HaveAt(c, j)
          BY <1>3 DEF Sampled
        <4> QED BY <4>1, <3>1, <3>2, <3>3, <3>4, <3>5, <2>3
      <3>8. Cardinality(Sent(c)') = HaveLen(c)' + lost'[c]
        <4>1. Cardinality(Sent(c)) = HaveLen(c) + lost[c]
          BY <1>3 DEF Sampled
        <4>2. HaveLen(c) \in Nat /\ lost[c] \in Nat /\ lost'[c] = lost[c]
          BY <1>2, <3>0
        <4> QED BY <4>1, <4>2, <2>2, <3>1
      <3> QED BY <3>6, <3>7, <3>8 DEF Sampled
    <2>5. CASE Slides(c, m)
      <3> DEFINE old(i) == IF i <= GotLen(c) THEN i ELSE i + 1
                 h == HaveLen(c)
      <3>0. /\ InLen(c)' = InLen(c) /\ InLen(c) >= 1 /\ lost'[c] = lost[c] + 1
            /\ \A k \in 1..InLen(c) - 1 : inbox'[c][k] = inbox[c][k + 1]
            /\ inbox'[c][InLen(c)].id = n
        BY <2>5, <1>5 DEF Slides, InLen
      <3>1. HaveLen(c)' = h /\ h >= 1
        BY <3>0, <1>2, <1>6 DEF HaveLen
      <3>2. \A i \in 1..h - 1 : old(i) \in 1..h
        BY <3>0, <1>2 DEF HaveLen
      <3>3. \A i, j \in 1..h - 1 : i < j => old(i) < old(j)
        BY <1>2
      <3>4. ASSUME NEW i \in 1..h - 1 PROVE HaveAt(c, i)' = HaveAt(c, old(i))
        <4>1. CASE i <= GotLen(c)
          BY <4>1, <1>1, <1>6 DEF HaveAt
        <4>2. CASE ~(i <= GotLen(c))
          <5>1. /\ i - GotLen(c) \in 1..InLen(c) - 1 /\ ~(i + 1 <= GotLen(c))
                /\ (i + 1) - GotLen(c) = (i - GotLen(c)) + 1
            BY <4>2, <1>2 DEF HaveLen
          <5>2. inbox'[c][i - GotLen(c)] = inbox[c][(i - GotLen(c)) + 1]
            BY <5>1, <3>0
          <5> QED BY <5>1, <5>2, <4>2, <1>1, <1>6 DEF HaveAt
        <4> QED BY <4>1, <4>2
      <3>5. \A i \in Nat : i = h => HaveAt(c, i)' = n
        <4>1. \A i \in Nat : i = h => ~(i <= GotLen(c)) /\ i - GotLen(c) = InLen(c)
          BY <3>0, <1>2 DEF HaveLen
        <4> QED BY <4>1, <3>0, <1>6 DEF HaveAt
      <3>6. \A i \in 1..h : i \in Nat /\ (i \in 1..h - 1 \/ i = h)
        BY <1>2
      <3>7. \A i, j \in 1..h : i < j => i \in 1..h - 1
        BY <1>2
      <3> HIDE DEF old
      <3>8. \A i \in 1..h - 1 : HaveAt(c, i)' \in Sent(c)' /\ HaveAt(c, i)' < n
        BY <3>2, <3>4, <2>3
      <3>9. \A i \in 1..h : HaveAt(c, i)' \in Sent(c)'
        BY <3>5, <3>6, <3>8, <2>1
      <3>10. ASSUME NEW i \in 1..h, NEW j \in 1..h, i < j PROVE HaveAt(c, i)' < HaveAt(c, j)'
        <4>1. i \in 1..h - 1
          BY <3>7, <3>10
        <4>2. CASE j = h
          BY <4>1, <4>2, <3>5, <3>6, <3>8
        <4>3. CASE j \in 1..h - 1
          <5>1. old(i) \in 1..h /\ old(j) \in 1..h /\ old(i) < old(j)
            BY <4>1, <4>3, <3>2, <3>3, <3>10
          <5>2. HaveAt(c, old(i)) < HaveAt(c, old(j))
            BY <5>1, <1>3 DEF Sampled
          <5> QED BY <4>1, <4>3, <5>2, <3>4
        <4> QED BY <4>2, <4>3, <3>6
      <3>11. Cardinality(Sent(c)') = h + lost'[c]
        <4>1. Cardinality(Sent(c)) = h + lost[c]
          BY <1>3 DEF Sampled
        <4> QED BY <4>1, <2>2, <3>0, <1>2
      <3> HIDE DEF h
      <3> QED BY <3>1, <3>9, <3>10, <3>11 DEF Sampled
    <2> QED BY <2>4, <2>5, <1>4, <1>8
  <1> QED BY <1>7, <1>8

LEMMA BeginsSamples ==
  ASSUME IInv, NEW c \in Calls, NEW t \in Topics, NEW n \in 1..HardMax + 1,
         StreamBegins(c, t, n)
  PROVE  Samples'
  <1> SUFFICES ASSUME NEW d \in Calls, call'[d] = "streaming" PROVE Sampled(d)'
    BY DEF Samples
  <1>1. /\ call[c] = "new" /\ call' = [call EXCEPT ![c] = "streaming"]
        /\ since' = [since EXCEPT ![c] = Len(log)]
        /\ UNCHANGED <<inbox, lost, log, got, cache>>
    BY DEF StreamBegins
  <1>2. CASE d = c
    <2>1. /\ got'[c] = <<>> /\ inbox'[c] = <<>> /\ lost'[c] = 0
          /\ since'[c] = Len(log') /\ Len(log') \in Nat
      BY <1>1 DEF IInv, Shapes
    <2>2. Sent(c)' = {}
      BY <2>1 DEF Sent
    <2>3. HaveLen(c)' = 0 /\ 1..0 = {}
      BY <2>1 DEF HaveLen, GotLen, InLen
    <2>4. Cardinality(Sent(c)') = 0
      BY <2>2, FS_EmptySet
    <2> QED BY <1>2, <2>1, <2>3, <2>4 DEF Sampled
  <1>3. CASE d # c
    <2>1. call[d] = "streaming" /\ since'[d] = since[d]
      BY <1>1, <1>3 DEF IInv, Shapes
    <2>2. topics'[d] = topics[d]
      BY <1>3, BeginsDemand
    <2>3. Untouched(d)
      BY <1>1, <2>1, <2>2 DEF Untouched, Sent, HaveLen, HaveAt, GotLen, InLen
    <2>4. Sampled(d)
      BY <2>1 DEF IInv, Samples
    <2> QED BY <2>3, <2>4, UntouchedSampled
  <1> QED BY <1>2, <1>3

LEMMA EndsSamples ==
  ASSUME IInv, NEW c \in Calls, Ends(c)
  PROVE  Samples'
  <1> SUFFICES ASSUME NEW d \in Calls, call'[d] = "streaming" PROVE Sampled(d)'
    BY DEF Samples
  <1>1. /\ \E how \in {"returned", "cancelled"} : call' = [call EXCEPT ![c] = how]
        /\ inbox' = [inbox EXCEPT ![c] = <<>>]
        /\ UNCHANGED <<lost, log, cap, since, got, cache>>
    BY DEF Ends, Release
  <1>2. d # c /\ call[d] = "streaming" /\ d \in Subs
    BY <1>1 DEF IInv, Shapes, Subs
  <1>3. inbox'[d] = inbox[d]
    BY <1>1, <1>2 DEF IInv, Shapes
  <1>4. topics'[d] = topics[d]
    BY <1>2, EndsDemand
  <1>5. Untouched(d)
    <2>1. log' = log /\ since' = since /\ got' = got /\ lost' = lost
      BY <1>1
    <2>2. Sent(d)' = Sent(d)
      BY <2>1, <1>4 DEF Sent
    <2>3. GotLen(d)' = GotLen(d) /\ InLen(d)' = InLen(d)
      BY <2>1, <1>3 DEF GotLen, InLen
    <2> QED BY <2>1, <2>2, <2>3, <1>3 DEF Untouched, HaveLen, HaveAt
  <1>6. Sampled(d)
    BY <1>2 DEF IInv, Samples
  <1> QED BY <1>5, <1>6, UntouchedSampled

LEMMA DrainSamples ==
  ASSUME IInv, Drain
  PROVE  Samples'
  <1> SUFFICES ASSUME NEW d \in Calls, call'[d] = "streaming" PROVE Sampled(d)'
    BY DEF Samples
  <1>1. /\ \A s \in Subs \ {"store"} : Kept(s)
        /\ UNCHANGED <<topics, log, call, since, got>>
    BY DrainEffect DEF registryVars, callVars
  <1>2. d \in Subs \ {"store"}
    BY StreamsAssumption DEF Subs
  <1>3. Untouched(d)
    BY <1>1, <1>2 DEF Kept, Untouched, Sent, HaveLen, HaveAt, GotLen, InLen
  <1>4. Sampled(d)
    BY <1>1 DEF IInv, Samples
  <1> QED BY <1>3, <1>4, UntouchedSampled

(* What Collect(c) moves, element by element.                              *)
LEMMA CollectEffect ==
  ASSUME IInv, NEW c \in Calls, Collect(c)
  PROVE  /\ c \in Subs /\ c # "store" /\ call[c] = "streaming"
         /\ Shrinks(c) /\ lost' = lost /\ \A r \in Subs \ {c} : Kept(r)
         /\ UNCHANGED <<registryVars, tracked, log, call, cap, since, cache>>
         /\ 1 \in 1..InLen(c) /\ InLen(c)' = InLen(c) - 1 /\ GotLen(c)' = GotLen(c) + 1
         /\ \A i \in 1..GotLen(c) : got'[c][i] = got[c][i]
         /\ \A i \in Nat : i = GotLen(c) + 1 => got'[c][i] = inbox[c][1].id
         /\ \A d \in Calls \ {c} : got'[d] = got[d]
  <1>i. Shapes
    BY DEF IInv
  <1> DEFINE m == Head(inbox[c]).id
  <1>1. /\ call[c] = "streaming"
        /\ UNCHANGED <<registryVars, tracked, log, call, cap, since, cache>>
        /\ got' = [got EXCEPT ![c] = Append(@, m)] /\ Bus!Read(c)
    BY DEF Collect
  <1>2. c \in Subs /\ c # "store"
    BY StreamsAssumption DEF Subs
  <1>3. /\ Shrinks(c) /\ lost' = lost /\ Head(inbox[c]) \in Messages
        /\ \A r \in Subs \ {c} : Kept(r)
    BY <1>1, <1>2, ReadEffect
  <1>4. m = inbox[c][1].id /\ m \in 1..MaxPublish
    BY <1>3 DEF Shrinks, Messages
  <1> HIDE DEF m
  <1>5. got[c] \in Seq(1..MaxPublish) /\ Len(inbox[c]) \in Nat
    BY <1>i, <1>2 DEF Shapes
  <1>6. /\ Len(Append(got[c], m)) = Len(got[c]) + 1
        /\ \A k \in 1..Len(got[c]) : Append(got[c], m)[k] = got[c][k]
        /\ Append(got[c], m)[Len(got[c]) + 1] = m
    BY <1>4, <1>5, AppendProperties
  <1>7. got'[c] = Append(got[c], m) /\ \A d \in Calls \ {c} : got'[d] = got[d]
    BY <1>1, <1>i DEF Shapes
  <1>8. 1 \in 1..InLen(c) /\ InLen(c)' = InLen(c) - 1
    BY <1>3, <1>5 DEF Shrinks, InLen
  <1>9. /\ GotLen(c)' = GotLen(c) + 1
        /\ \A i \in 1..GotLen(c) : got'[c][i] = got[c][i]
        /\ \A i \in Nat : i = GotLen(c) + 1 => got'[c][i] = inbox[c][1].id
    BY <1>4, <1>6, <1>7 DEF GotLen
  <1> QED BY <1>1, <1>2, <1>3, <1>7, <1>8, <1>9

LEMMA CollectSamples ==
  ASSUME IInv, NEW c \in Calls, Collect(c)
  PROVE  Samples'
  <1> SUFFICES ASSUME NEW d \in Calls, call'[d] = "streaming" PROVE Sampled(d)'
    BY DEF Samples
  <1>i. Shapes /\ Bounds /\ Queues
    BY DEF IInv
  <1>1. /\ c \in Subs /\ Shrinks(c) /\ lost' = lost /\ \A r \in Subs \ {c} : Kept(r)
        /\ topics' = topics /\ log' = log /\ call' = call /\ since' = since
        /\ 1 \in 1..InLen(c) /\ InLen(c)' = InLen(c) - 1 /\ GotLen(c)' = GotLen(c) + 1
        /\ \A i \in 1..GotLen(c) : got'[c][i] = got[c][i]
        /\ \A i \in Nat : i = GotLen(c) + 1 => got'[c][i] = inbox[c][1].id
        /\ \A e \in Calls \ {c} : got'[e] = got[e]
    BY CollectEffect DEF registryVars
  <1>2. Sampled(d) /\ d \in Subs
    BY <1>1 DEF IInv, Samples, Subs
  <1>3. Sent(d)' = Sent(d) /\ lost'[d] = lost[d]
    BY <1>1 DEF Sent
  <1>4. CASE d # c
    <2>1. Untouched(d)
      BY <1>1, <1>2, <1>3, <1>4 DEF Kept, Untouched, HaveLen, HaveAt, GotLen, InLen
    <2> QED BY <1>2, <2>1, UntouchedSampled
  <1>5. CASE d = c
    <2>1. GotLen(c) \in Nat /\ InLen(c) \in Nat
      BY <1>i, HaveTypes
    <2>2. HaveLen(c)' = HaveLen(c)
      BY <1>1, <2>1 DEF HaveLen
    <2>3. \A k \in 1..InLen(c) - 1 : inbox'[c][k] = inbox[c][k + 1]
      BY <1>1 DEF Shrinks, InLen
    <2>4. ASSUME NEW i \in 1..HaveLen(c) PROVE HaveAt(c, i)' = HaveAt(c, i)
      <3>1. CASE i <= GotLen(c)
        <4>1. i <= GotLen(c)' /\ i \in 1..GotLen(c)
          BY <1>1, <2>1, <3>1
        <4> QED BY <1>1, <3>1, <4>1 DEF HaveAt
      <3>2. CASE i = GotLen(c) + 1
        <4>1. i \in Nat /\ i <= GotLen(c)' /\ ~(i <= GotLen(c)) /\ i - GotLen(c) = 1
          BY <1>1, <2>1, <3>2
        <4>2. got'[c][i] = inbox[c][1].id
          BY <1>1, <3>2, <4>1
        <4> QED BY <4>1, <4>2 DEF HaveAt
      <3>3. CASE i > GotLen(c) + 1
        <4>1. /\ ~(i <= GotLen(c)') /\ ~(i <= GotLen(c)) /\ i - GotLen(c)' \in 1..InLen(c) - 1
              /\ (i - GotLen(c)') + 1 = i - GotLen(c)
          BY <1>1, <2>1, <3>3 DEF HaveLen
        <4>2. inbox'[c][i - GotLen(c)'] = inbox[c][i - GotLen(c)]
          BY <2>3, <4>1
        <4> QED BY <4>1, <4>2 DEF HaveAt
      <3> QED BY <2>1, <3>1, <3>2, <3>3
    <2>5. Untouched(c)
      BY <1>3, <1>5, <2>2, <2>4 DEF Untouched
    <2> QED BY <1>2, <1>5, <2>5, UntouchedSampled
  <1> QED BY <1>4, <1>5

-----------------------------------------------------------------------------
(* What the calls have, the store has.                                     *)

\* StoreHas(i), after the step, for the i of before it.
StoreWillHave(i) ==
  \/ \E q \in 1..Len(inbox'["store"]) : inbox'["store"][q].id = i
  \/ cache'[ProductOf[log'[i]]] >= i

\* The store loses nothing without applying it or something newer.
StoreKept == \A i \in 1..Len(log) : StoreHas(i) => StoreWillHave(i)

\* What a call has after the step it had before, or the store has it too.
NothingAlone ==
  /\ \A c \in Calls : \A i \in 1..Len(got'[c]) :
       \/ \E j \in 1..Len(got[c]) : got'[c][i] = got[c][j]
       \/ \E k \in 1..Len(inbox[c]) : got'[c][i] = inbox[c][k].id
  /\ \A c \in Calls : \A k \in 1..Len(inbox'[c]) :
       \/ \E j \in 1..Len(inbox[c]) : inbox'[c][k] = inbox[c][j]
       \/ \E j \in 1..Len(inbox'["store"]) : inbox'["store"][j] = inbox'[c][k]

LEMMA WarmKept ==
  ASSUME IInv, StoreKept, NothingAlone
  PROVE  Warm'
  <1>i. Shapes /\ Bounds /\ Queues /\ Warm
    BY DEF IInv
  <1>1. ASSUME NEW c \in Calls, NEW j \in 1..Len(got[c])
        PROVE  got[c][j] \in 1..Len(log) /\ StoreHas(got[c][j])
    <2>1. got[c] \in Seq(1..MaxPublish) /\ Len(log) \in Nat
      BY <1>i DEF Shapes
    <2>2. got[c][j] \in 1..MaxPublish
      BY <2>1, ElementOfSeq
    <2>3. got[c][j] <= Len(log) /\ StoreHas(got[c][j])
      BY <1>i DEF Bounds, Warm
    <2> QED BY <2>1, <2>2, <2>3
  <1>2. ASSUME NEW c \in Calls, NEW k \in 1..Len(inbox[c])
        PROVE  inbox[c][k].id \in 1..Len(log) /\ StoreHas(inbox[c][k].id)
    <2>1. c \in Subs /\ inbox[c] \in Seq(Messages) /\ Len(log) \in Nat
      BY <1>i DEF Shapes, Subs
    <2>2. inbox[c][k] \in Messages
      BY <2>1, ElementOfSeq
    <2>3. inbox[c][k].id <= Len(log) /\ StoreHas(inbox[c][k].id)
      BY <1>i, <2>1 DEF Queues, Warm
    <2> QED BY <2>1, <2>2, <2>3 DEF Messages
  <1>3. ASSUME NEW c \in Calls, NEW i \in 1..Len(got'[c])
        PROVE  StoreWillHave(got'[c][i])
    <2>1. got'[c][i] \in 1..Len(log) /\ StoreHas(got'[c][i])
      BY <1>1, <1>2 DEF NothingAlone
    <2> QED BY <2>1 DEF StoreKept
  <1>4. ASSUME NEW c \in Calls, NEW k \in 1..Len(inbox'[c])
        PROVE  StoreWillHave(inbox'[c][k].id)
    <2>1. CASE \E j \in 1..Len(inbox[c]) : inbox'[c][k] = inbox[c][j]
      <3>1. inbox'[c][k].id \in 1..Len(log) /\ StoreHas(inbox'[c][k].id)
        BY <1>2, <2>1
      <3> QED BY <3>1 DEF StoreKept
    <2>2. CASE \E j \in 1..Len(inbox'["store"]) : inbox'["store"][j] = inbox'[c][k]
      <3>1. PICK j \in 1..Len(inbox'["store"]) : inbox'["store"][j] = inbox'[c][k]
        BY <2>2
      <3>2. inbox'["store"][j].id = inbox'[c][k].id
        BY <3>1
      <3> QED BY <3>1, <3>2 DEF StoreWillHave
    <2>3. \/ \E j \in 1..Len(inbox[c]) : inbox'[c][k] = inbox[c][j]
          \/ \E j \in 1..Len(inbox'["store"]) : inbox'["store"][j] = inbox'[c][k]
      BY DEF NothingAlone
    <2> QED BY <2>1, <2>2, <2>3
  <1>5. (\A c \in Calls : \A i \in 1..Len(got[c]) : StoreHas(got[c][i]))'
    BY <1>3 DEF StoreHas, StoreWillHave
  <1>6. (\A c \in Calls : \A k \in 1..Len(inbox[c]) : StoreHas(inbox[c][k].id))'
    <2>1. SUFFICES ASSUME NEW c \in Calls, NEW k \in 1..Len(inbox'[c])
                   PROVE  StoreHas(inbox[c][k].id)'
      OBVIOUS
    <2>2. StoreWillHave(inbox'[c][k].id)
      BY <1>4
    <2> QED BY <2>2 DEF StoreHas, StoreWillHave
  <1> QED BY <1>5, <1>6 DEF Warm

LEMMA PublishWarm ==
  ASSUME IInv, NEW t \in Topics, Publish(t)
  PROVE  Warm'
  <1> DEFINE m == NewMessage(t)
  <1>i. Shapes /\ Bounds /\ Queues /\ Demand
    BY DEF IInv
  <1>1. LogGrows(t) /\ got' = got /\ cache' = cache /\ tracked' = tracked
    BY PublishEffect DEF callVars
  <1>2. ASSUME NEW s \in Subs
        PROVE  IF Wants(s, t) THEN Grows(s, m) \/ Slides(s, m) ELSE Kept(s)
    BY PublishEffect
  <1> HIDE DEF m
  <1>3. "store" \in Subs /\ Len(inbox["store"]) \in Nat
    BY <1>i DEF Subs, Shapes
  <1>4. IF t \in tracked THEN Grows("store", m) ELSE Kept("store")
    BY <1>2, <1>3 DEF Wants, Slides
  <1>5. StoreKept
    <2> SUFFICES ASSUME NEW i \in 1..Len(log), StoreHas(i) PROVE StoreWillHave(i)
      BY DEF StoreKept
    <2>1. log'[i] = log[i]
      BY <1>1 DEF LogGrows
    <2>2. ASSUME NEW k \in 1..Len(inbox["store"]), inbox["store"][k].id = i
          PROVE  k \in 1..Len(inbox'["store"]) /\ inbox'["store"][k].id = i
      <3>1. CASE Grows("store", m)
        <4>1. /\ Len(inbox'["store"]) = Len(inbox["store"]) + 1
              /\ inbox'["store"][k] = inbox["store"][k]
          BY <3>1 DEF Grows
        <4> QED BY <1>3, <2>2, <4>1
      <3>2. CASE Kept("store")
        BY <2>2, <3>2 DEF Kept
      <3> QED BY <1>4, <3>1, <3>2
    <2> QED BY <1>1, <2>1, <2>2 DEF StoreHas, StoreWillHave
  <1>6. NothingAlone
    <2>1. ASSUME NEW c \in Calls, NEW k \in 1..Len(inbox'[c])
          PROVE  \/ \E j \in 1..Len(inbox[c]) : inbox'[c][k] = inbox[c][j]
                 \/ \E j \in 1..Len(inbox'["store"]) : inbox'["store"][j] = inbox'[c][k]
      <3>1. c \in Subs /\ c # "store" /\ Len(inbox[c]) \in Nat
        BY <1>i, StreamsAssumption DEF Subs, Shapes
      <3>2. CASE Kept(c)
        BY <3>2 DEF Kept
      <3>3. CASE t \in topics[c] /\ (Grows(c, m) \/ Slides(c, m))
        <4>1. t \in tracked
          BY <1>i, <3>3 DEF Demand
        <4>2. \E j \in 1..Len(inbox'["store"]) : inbox'["store"][j] = m
          BY <1>3, <1>4, <4>1 DEF Grows
        <4>3. inbox'[c][k] = m \/ \E j \in 1..Len(inbox[c]) : inbox'[c][k] = inbox[c][j]
          <5>1. CASE Grows(c, m)
            <6>1. k \in 1..Len(inbox[c]) \/ k = Len(inbox[c]) + 1
              BY <3>1, <5>1 DEF Grows
            <6> QED BY <5>1, <6>1 DEF Grows
          <5>2. CASE Slides(c, m)
            <6>1. k = Len(inbox[c])
                  \/ (k \in 1..Len(inbox[c]) - 1 /\ k + 1 \in 1..Len(inbox[c]))
              BY <3>1, <5>2 DEF Slides
            <6> QED BY <5>2, <6>1 DEF Slides
          <5> QED BY <3>3, <5>1, <5>2
        <4> QED BY <4>2, <4>3
      <3> QED BY <1>2, <3>1, <3>2, <3>3 DEF Wants
    <2> QED BY <1>1, <2>1 DEF NothingAlone
  <1> QED BY <1>5, <1>6, WarmKept

\* The store, its snapshots and the log are as they were.
StoreUntouched == inbox'["store"] = inbox["store"] /\ cache' = cache /\ log' = log

LEMMA UntouchedStoreKept ==
  ASSUME StoreUntouched
  PROVE  StoreKept
  BY DEF StoreUntouched, StoreKept, StoreHas, StoreWillHave

LEMMA BeginsWarm ==
  ASSUME IInv, NEW c \in Calls, NEW t \in Topics, NEW n \in 1..HardMax + 1,
         StreamBegins(c, t, n)
  PROVE  Warm'
  <1>1. UNCHANGED <<inbox, lost, log, got, cache>>
    BY DEF StreamBegins
  <1>2. StoreUntouched /\ NothingAlone
    BY <1>1 DEF StoreUntouched, NothingAlone
  <1> QED BY <1>2, UntouchedStoreKept, WarmKept

LEMMA EndsWarm ==
  ASSUME IInv, NEW c \in Calls, Ends(c)
  PROVE  Warm'
  <1>1. inbox' = [inbox EXCEPT ![c] = <<>>] /\ UNCHANGED <<lost, log, cap, since, got, cache>>
    BY DEF Ends, Release
  <1>2. /\ "store" \in Subs \ {c} /\ inbox'[c] = <<>> /\ Len(<<>>) = 0 /\ 1..0 = {}
        /\ \A s \in Subs \ {c} : inbox'[s] = inbox[s]
    BY <1>1, StreamsAssumption DEF IInv, Shapes, Subs
  <1>3. StoreUntouched
    BY <1>1, <1>2 DEF StoreUntouched
  <1>4. NothingAlone
    BY <1>1, <1>2 DEF NothingAlone, Subs
  <1> QED BY <1>3, <1>4, UntouchedStoreKept, WarmKept

LEMMA CollectWarm ==
  ASSUME IInv, NEW c \in Calls, Collect(c)
  PROVE  Warm'
  <1>i. Shapes /\ Bounds /\ Queues
    BY DEF IInv
  <1>1. /\ c \in Subs /\ c # "store" /\ Shrinks(c) /\ \A r \in Subs \ {c} : Kept(r)
        /\ log' = log /\ cache' = cache
        /\ 1 \in 1..InLen(c) /\ GotLen(c)' = GotLen(c) + 1
        /\ \A i \in 1..GotLen(c) : got'[c][i] = got[c][i]
        /\ \A i \in Nat : i = GotLen(c) + 1 => got'[c][i] = inbox[c][1].id
        /\ \A d \in Calls \ {c} : got'[d] = got[d]
    BY CollectEffect
  <1>2. StoreUntouched
    BY <1>1 DEF StoreUntouched, Kept, Subs
  <1>3. ASSUME NEW d \in Calls, NEW i \in 1..Len(got'[d])
        PROVE  \/ \E j \in 1..Len(got[d]) : got'[d][i] = got[d][j]
               \/ \E k \in 1..Len(inbox[d]) : got'[d][i] = inbox[d][k].id
    <2>1. CASE d # c
      BY <1>1, <2>1
    <2>2. CASE d = c
      <3>1. GotLen(c) \in Nat
        BY <1>i, HaveTypes
      <3>2. i \in 1..GotLen(c) \/ (i \in Nat /\ i = GotLen(c) + 1)
        BY <1>1, <2>2, <3>1 DEF GotLen
      <3> QED BY <1>1, <2>2, <3>2 DEF GotLen, InLen
    <2> QED BY <2>1, <2>2
  <1>4. ASSUME NEW d \in Calls, NEW k \in 1..Len(inbox'[d])
        PROVE  \E j \in 1..Len(inbox[d]) : inbox'[d][k] = inbox[d][j]
    <2>1. CASE d # c
      BY <1>1, <2>1 DEF Kept, Subs
    <2>2. CASE d = c
      <3>1. Len(inbox[c]) \in Nat
        BY <1>1, <1>i DEF Shapes
      <3>2. k \in 1..Len(inbox[c]) - 1 /\ k + 1 \in 1..Len(inbox[c])
        BY <1>1, <2>2, <3>1 DEF Shrinks
      <3> QED BY <1>1, <2>2, <3>2 DEF Shrinks
    <2> QED BY <2>1, <2>2
  <1>5. NothingAlone
    BY <1>3, <1>4 DEF NothingAlone
  <1> QED BY <1>2, <1>5, UntouchedStoreKept, WarmKept

LEMMA DrainWarm ==
  ASSUME IInv, Drain
  PROVE  Warm'
  <1>i. Shapes /\ Bounds /\ Queues
    BY DEF IInv
  <1> DEFINE m == Head(inbox["store"])
             p0 == ProductOf[m.topic]
  <1>1. /\ Shrinks("store") /\ \A s \in Subs \ {"store"} : inbox'[s] = inbox[s]
        /\ log' = log /\ got' = got
        /\ m = inbox["store"][1] /\ m.id \in 1..Len(log) /\ log[m.id] = m.topic
        /\ p0 \in Products /\ cache' = [cache EXCEPT ![p0] = m.id]
    BY DrainEffect DEF Kept, callVars
  <1>2. p0 = ProductOf[log[m.id]]
    BY <1>1
  <1>3. "store" \in Subs /\ \A c \in Calls : c \in Subs \ {"store"}
    BY StreamsAssumption DEF Subs
  <1> HIDE DEF m, p0
  <1>4. /\ Len(log) \in Nat /\ m.id \in Nat /\ cache[p0] \in Nat
        /\ cache'[p0] = m.id /\ \A p \in Products \ {p0} : cache'[p] = cache[p]
        /\ Len(inbox["store"]) \in Nat
    BY <1>1, <1>3, <1>i DEF Shapes
  <1>5. cache[p0] < m.id
    <2>1. 1 \in 1..Len(inbox["store"])
      BY <1>1, <1>4 DEF Shrinks
    <2> QED BY <1>1, <1>i, <2>1 DEF Queues
  <1>6. StoreKept
    <2> SUFFICES ASSUME NEW i \in 1..Len(log), StoreHas(i) PROVE StoreWillHave(i)
      BY DEF StoreKept
    <2> DEFINE p == ProductOf[log[i]]
    <2>1. p \in Products
      <3>1. log[i] \in Topics
        BY <1>i, ElementOfSeq DEF Shapes
      <3> QED BY <3>1, StreamsAssumption
    <2>2. CASE \E k \in 1..Len(inbox["store"]) : inbox["store"][k].id = i
      <3>1. PICK k \in 1..Len(inbox["store"]) : inbox["store"][k].id = i
        BY <2>2
      <3>2. CASE k = 1
        <4>1. m.id = i /\ p = p0
          BY <1>1, <1>2, <3>1, <3>2
        <4>2. cache'[p] >= i
          BY <1>4, <4>1
        <4> QED BY <4>2, <1>1 DEF StoreHas, StoreWillHave
      <3>3. CASE k # 1
        <4>1. k - 1 \in 1..Len(inbox["store"]) - 1 /\ (k - 1) + 1 = k
          BY <1>4, <3>3
        <4>2. k - 1 \in 1..Len(inbox'["store"]) /\ inbox'["store"][k - 1] = inbox["store"][k]
          BY <1>1, <4>1 DEF Shrinks
        <4> QED BY <3>1, <4>2 DEF StoreHas, StoreWillHave
      <3> QED BY <3>2, <3>3
    <2>3. CASE cache[p] >= i
      <3>1. cache'[p] >= i
        <4>1. cache[p] \in Nat /\ i \in Nat
          BY <1>4, <2>1, <1>i DEF Shapes
        <4>2. cache'[p] >= cache[p]
          BY <1>4, <1>5, <2>1, <4>1
        <4>3. cache'[p] \in Nat
          BY <1>4, <2>1, <4>1
        <4> HIDE DEF p
        <4> QED BY <2>3, <4>1, <4>2, <4>3
      <3> QED BY <3>1, <1>1 DEF StoreHas, StoreWillHave
    <2> QED BY <2>2, <2>3 DEF StoreHas, StoreWillHave
  <1>7. NothingAlone
    BY <1>1, <1>3 DEF NothingAlone
  <1> QED BY <1>6, <1>7, WarmKept

-----------------------------------------------------------------------------
(* The invariant.                                                          *)

LEMMA StreamsInit == Init => IInv
  <1> SUFFICES ASSUME Init PROVE IInv
    OBVIOUS
  <1>1. RP!IInv
    <2>1. RP!Init
      BY DEF Init, Registry!Init, RP!Init
    <2> QED BY <2>1, RP!InitIInv
  <1>2. consumers = {} /\ topics = [c \in Calls |-> {}]
    BY DEF Init, Registry!Init
  <1>3. /\ tracked = {} /\ inbox = [s \in Subs |-> <<>>] /\ lost = [s \in Subs |-> 0]
        /\ log = <<>> /\ call = [c \in Calls |-> "new"] /\ cap = [c \in Calls |-> 0]
        /\ since = [c \in Calls |-> 0] /\ got = [c \in Calls |-> <<>>]
        /\ cache = [p \in Products |-> 0]
    BY DEF Init
  <1>4. /\ \A S : <<>> \in Seq(S)
        /\ Len(<<>>) = 0 /\ 1..0 = {} /\ "store" \in Subs /\ Calls \subseteq Subs
    BY DEF Subs
  <1>5. Demand
    BY <1>2, <1>3 DEF Demand
  <1>6. Shapes
    BY <1>3, <1>4, StreamsAssumption DEF Shapes
  <1>7. Bounds
    BY <1>3, <1>4, StreamsAssumption DEF Bounds
  <1>8. Queues
    BY <1>3, <1>4 DEF Queues
  <1>9. Samples
    BY <1>3 DEF Samples
  <1>10. Warm
    BY <1>3, <1>4 DEF Warm
  <1> QED BY <1>1, <1>5, <1>6, <1>7, <1>8, <1>9, <1>10 DEF IInv

LEMMA StreamsStep == IInv /\ [Next]_streamsVars => IInv'
  <1> SUFFICES ASSUME IInv, [Next]_streamsVars PROVE IInv'
    OBVIOUS
  <1>1. ASSUME NEW t \in Topics, Publish(t) PROVE IInv'
    <2>1. UNCHANGED registryVars /\ tracked' = tracked /\ call' = call
      BY <1>1 DEF Publish, callVars
    <2>2. RP!IInv' /\ Demand'
      BY <2>1, OthersDemand
    <2>3. Shapes' /\ Bounds' /\ Queues'
      BY <1>1, PublishShapes
    <2>4. Samples' /\ Warm'
      BY <1>1, PublishSamples, PublishWarm
    <2> QED BY <2>2, <2>3, <2>4 DEF IInv
  <1>2. ASSUME NEW c \in Calls, NEW t \in Topics, NEW n \in 1..HardMax + 1,
               StreamBegins(c, t, n)
        PROVE  IInv'
    <2>1. RP!IInv' /\ Demand'
      BY <1>2, BeginsDemand
    <2>2. Shapes' /\ Bounds' /\ Queues'
      BY <1>2, BeginsShapes
    <2>3. Samples' /\ Warm'
      BY <1>2, BeginsSamples, BeginsWarm
    <2> QED BY <2>1, <2>2, <2>3 DEF IInv
  <1>3. ASSUME NEW c \in Calls, Collect(c) PROVE IInv'
    <2>1. UNCHANGED registryVars /\ tracked' = tracked /\ call' = call
      BY <1>3 DEF Collect
    <2>2. RP!IInv' /\ Demand'
      BY <2>1, OthersDemand
    <2>3. Shapes' /\ Bounds' /\ Queues'
      BY <1>3, CollectShapes
    <2>4. Samples' /\ Warm'
      BY <1>3, CollectSamples, CollectWarm
    <2> QED BY <2>2, <2>3, <2>4 DEF IInv
  <1>4. ASSUME NEW c \in Calls, Ends(c) PROVE IInv'
    <2>1. RP!IInv' /\ Demand'
      BY <1>4, EndsDemand
    <2>2. Shapes' /\ Bounds' /\ Queues'
      BY <1>4, EndsShapes
    <2>3. Samples' /\ Warm'
      BY <1>4, EndsSamples, EndsWarm
    <2> QED BY <2>1, <2>2, <2>3 DEF IInv
  <1>5. CASE Drain
    <2>1. UNCHANGED registryVars /\ tracked' = tracked /\ call' = call
      BY <1>5 DEF Drain, callVars
    <2>2. RP!IInv' /\ Demand'
      BY <2>1, OthersDemand
    <2>3. Shapes' /\ Bounds' /\ Queues'
      BY <1>5, DrainShapes
    <2>4. Samples' /\ Warm'
      BY <1>5, DrainSamples, DrainWarm
    <2> QED BY <2>2, <2>3, <2>4 DEF IInv
  <1>6. CASE UNCHANGED streamsVars
    <2>1. /\ UNCHANGED registryVars
          /\ UNCHANGED <<tracked, inbox, lost, log, call, cap, since, got, cache, topics>>
      BY <1>6 DEF streamsVars, registryVars, callVars
    <2>2. RP!IInv' /\ Demand'
      BY <2>1, OthersDemand
    <2>3. Shapes' /\ Bounds' /\ Queues'
      BY <2>1 DEF IInv, Shapes, Bounds, Queues
    <2>4. Samples'
      <3>1. \A c \in Calls : Untouched(c)
        BY <2>1 DEF Untouched, Sent, HaveLen, HaveAt, GotLen, InLen
      <3>2. ASSUME NEW c \in Calls, call'[c] = "streaming" PROVE Sampled(c)'
        <4>1. Sampled(c) /\ Untouched(c)
          BY <2>1, <3>1, <3>2 DEF IInv, Samples
        <4> QED BY <4>1, UntouchedSampled
      <3> QED BY <3>2 DEF Samples
    <2>5. StoreUntouched /\ NothingAlone
      BY <2>1 DEF StoreUntouched, NothingAlone
    <2>6. Warm'
      BY <2>5, UntouchedStoreKept, WarmKept
    <2> QED BY <2>2, <2>3, <2>4, <2>6 DEF IInv
  <1> QED BY <1>1, <1>2, <1>3, <1>4, <1>5, <1>6, NextCases

(* The conjunction holds in every reachable state.                         *)
THEOREM StreamsInvariant == Spec => []IInv
  BY StreamsInit, StreamsStep, PTL DEF Spec

-----------------------------------------------------------------------------
(* What it gives.                                                          *)

(* Every subscription's queue is bounded, and the store drops nothing.     *)
THEOREM StreamsTypeOK == Spec => []TypeOK
  <1>1. ASSUME IInv PROVE TypeOK
    <2>i. Demand /\ Shapes /\ Bounds
      BY <1>1 DEF IInv
    <2>1. Len(log) \in Nat /\ Len(log) <= MaxPublish /\ MaxPublish \in Nat
      BY <2>i, StreamsAssumption DEF Shapes
    <2>2. ASSUME NEW c \in Calls
          PROVE  Len(got[c]) <= cap[c] /\ Range(got[c]) \subseteq 1..Len(log)
      <3>1. got[c] \in Seq(1..MaxPublish)
        BY <2>i DEF Shapes
      <3>2. DOMAIN got[c] = 1..Len(got[c])
        BY <3>1, LenProperties
      <3>3. \A i \in 1..Len(got[c]) : got[c][i] \in 1..MaxPublish /\ got[c][i] <= Len(log)
        BY <2>i, <3>1, ElementOfSeq DEF Bounds
      <3>4. \A i \in 1..Len(got[c]) : got[c][i] \in 1..Len(log)
        BY <2>1, <3>3
      <3> QED BY <2>i, <3>2, <3>4 DEF Bounds, Range
    <2>3. lost \in [Subs -> 0..MaxPublish]
      <3>1. \A s \in Subs : lost[s] \in 0..MaxPublish
        BY <2>i, <2>1 DEF Shapes, Bounds
      <3> QED BY <2>i, <3>1 DEF Shapes
    <2>4. since \in [Calls -> 0..MaxPublish]
      <3>1. \A c \in Calls : since[c] \in 0..MaxPublish
        BY <2>i, <2>1 DEF Shapes, Bounds
      <3> QED BY <2>i, <3>1 DEF Shapes
    <2>5. cache \in [Products -> 0..MaxPublish]
      <3>1. \A p \in Products : cache[p] \in 0..MaxPublish
        BY <2>i, <2>1 DEF Shapes, Bounds
      <3> QED BY <2>i, <3>1 DEF Shapes
    <2>6. tracked \subseteq Topics
      BY <2>i DEF Demand
    <2>7. \A s \in Subs : Len(inbox[s]) <= Capacity
      BY <2>i DEF Bounds
    <2> QED BY <2>i, <2>2, <2>3, <2>4, <2>5, <2>6, <2>7 DEF TypeOK, Shapes
  <1> QED BY <1>1, StreamsInvariant, PTL

(* mcp_server.py:350-362: of the messages of its topic since it            *)
(* registered, a call has collected each, buffers it or counts it dropped, *)
(* in order and none twice.                                                *)
THEOREM StreamsStreamComplete == Spec => []StreamComplete
  <1>1. ASSUME IInv PROVE StreamComplete
    <2> SUFFICES ASSUME NEW c \in Calls, call[c] = "streaming"
                 PROVE  LET have == got[c] \o Buffered(c)
                        IN  /\ Range(have) \subseteq Sent(c)
                            /\ \A i, j \in DOMAIN have : i < j => have[i] < have[j]
                            /\ Cardinality(Sent(c)) = Len(have) + lost[c]
      BY DEF StreamComplete, Sent
    <2> DEFINE have == got[c] \o Buffered(c)
    <2>i. Shapes /\ Bounds /\ Queues /\ Sampled(c)
      BY <1>1 DEF IInv, Samples
    <2>1. c \in Subs /\ got[c] \in Seq(1..MaxPublish) /\ inbox[c] \in Seq(Messages)
      BY <2>i DEF Shapes, Subs
    <2>2. GotLen(c) \in Nat /\ InLen(c) \in Nat
      BY <2>i, HaveTypes
    <2>3. /\ Buffered(c) \in Seq(1..MaxPublish) /\ Len(Buffered(c)) = InLen(c)
          /\ \A k \in 1..InLen(c) : Buffered(c)[k] = inbox[c][k].id
      <3>1. DOMAIN inbox[c] = 1..InLen(c)
        BY <2>1, LenProperties DEF InLen
      <3>2. \A k \in 1..InLen(c) : inbox[c][k].id \in 1..MaxPublish
        <4>1. \A k \in 1..InLen(c) : inbox[c][k] \in Messages
          BY <2>1, ElementOfSeq DEF InLen
        <4> QED BY <4>1 DEF Messages
      <3>3. Buffered(c) = [k \in 1..InLen(c) |-> inbox[c][k].id]
        BY <3>1 DEF Buffered
      <3>4. Buffered(c) \in [1..InLen(c) -> 1..MaxPublish]
        BY <3>2, <3>3
      <3>5. Buffered(c) \in Seq(1..MaxPublish)
        BY <2>2, <3>4, SeqDef
      <3>6. Len(Buffered(c)) \in Nat /\ 1..Len(Buffered(c)) = 1..InLen(c)
        BY <3>4, <3>5, LenProperties
      <3>7. Len(Buffered(c)) = InLen(c)
        BY <2>2, <3>6
      <3> QED BY <3>3, <3>5, <3>7
    <2>4. /\ have \in Seq(1..MaxPublish)
          /\ Len(have) = Len(got[c]) + Len(Buffered(c))
          /\ \A i \in 1..Len(got[c]) + Len(Buffered(c)) :
               have[i] = IF i <= Len(got[c]) THEN got[c][i] ELSE Buffered(c)[i - Len(got[c])]
      BY <2>1, <2>3, ConcatProperties
    <2>5. DOMAIN have = 1..Len(have)
      BY <2>4, LenProperties
    <2> HIDE DEF have
    <2>6. Len(have) = HaveLen(c)
      BY <2>3, <2>4 DEF HaveLen, GotLen
    <2>7. ASSUME NEW i \in 1..HaveLen(c) PROVE have[i] = HaveAt(c, i)
      <3>1. i \in 1..Len(got[c]) + Len(Buffered(c))
        BY <2>4, <2>6
      <3>2. have[i] = IF i <= GotLen(c) THEN got[c][i] ELSE Buffered(c)[i - GotLen(c)]
        BY <2>4, <3>1 DEF GotLen
      <3>3. i <= GotLen(c) \/ i - GotLen(c) \in 1..InLen(c)
        BY <2>2 DEF HaveLen
      <3> QED BY <2>3, <3>2, <3>3 DEF HaveAt
    <2>8. Range(have) \subseteq Sent(c)
      BY <2>i, <2>5, <2>6, <2>7 DEF Range, Sampled
    <2>9. \A i, j \in DOMAIN have : i < j => have[i] < have[j]
      BY <2>i, <2>5, <2>6, <2>7 DEF Sampled
    <2>10. Cardinality(Sent(c)) = Len(have) + lost[c]
      BY <2>i, <2>6 DEF Sampled
    <2> QED BY <2>8, <2>9, <2>10 DEF have
  <1> QED BY <1>1, StreamsInvariant, PTL

(* A call that is over has given its consumer, its topic and its callbacks *)
(* back, and the store tracks what the running calls want.                 *)
THEOREM StreamsCallsLeaveNothing == Spec => []CallsLeaveNothing
  <1>1. ASSUME IInv PROVE CallsLeaveNothing
    <2>1. Demand /\ RP!CallbacksBalanced /\ \A c \in Calls : topics[c] \subseteq Topics
      BY <1>1 DEF IInv, RP!IInv, RP!TypeOK
    <2>2. Registry!CallbacksBalanced
      BY <2>1 DEF RP!CallbacksBalanced, Registry!CallbacksBalanced, RP!HoldersOf,
         Registry!HoldersOf
    <2>3. tracked = UNION {topics[c] : c \in consumers}
      BY <2>1 DEF Demand
    <2> QED BY <2>1, <2>2, <2>3 DEF CallsLeaveNothing, Demand
  <1> QED BY <1>1, StreamsInvariant, PTL

(* What a call has collected, the store is about to apply or has applied,  *)
(* if nothing newer of its product.                                        *)
THEOREM StreamsSnapshotNotBehind == Spec => []SnapshotNotBehind
  <1>1. ASSUME IInv PROVE SnapshotNotBehind
    <2> SUFFICES ASSUME NEW c \in Calls, NEW i \in Range(got[c])
                 PROVE  i \in Range(Buffered("store")) \/ cache[ProductOf[log[i]]] >= i
      BY DEF SnapshotNotBehind
    <2>i. Shapes /\ Warm
      BY <1>1 DEF IInv
    <2>1. got[c] \in Seq(1..MaxPublish) /\ inbox["store"] \in Seq(Messages)
      BY <2>i DEF Shapes, Subs
    <2>2. DOMAIN got[c] = 1..Len(got[c]) /\ DOMAIN inbox["store"] = 1..Len(inbox["store"])
      BY <2>1, LenProperties
    <2>3. StoreHas(i)
      <3>1. PICK k \in 1..Len(got[c]) : i = got[c][k]
        BY <2>2 DEF Range
      <3> QED BY <2>i, <3>1 DEF Warm
    <2> QED BY <2>2, <2>3 DEF StoreHas, Buffered, Range
  <1> QED BY <1>1, StreamsInvariant, PTL
=============================================================================
