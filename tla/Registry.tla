------------------------------ MODULE Registry ------------------------------
(***************************************************************************)
(* The ref-counting half of registry.py: which downstream consumers hold   *)
(* which topics, and the callbacks fired when a topic gains its first or   *)
(* loses its last holder.                                                  *)
(*                                                                         *)
(* Every operation is one step.  The operations are coroutines, but the    *)
(* only awaits in them are the callbacks, and the callbacks that           *)
(* __main__._build_core installs (CoinbaseIngest.on_first_subscriber and   *)
(* SnapshotStore.track, and their opposites) never suspend, so no other    *)
(* task runs between the first and the last statement of an operation and  *)
(* no cancellation can land inside one.                                    *)
(***************************************************************************)
EXTENDS Integers

CONSTANTS Consumers,   \* consumer ids
          Topics       \* topic strings

VARIABLES
  consumers,  \* the keys of Registry._consumers
  topics,     \* topics[c]: the topics of consumer c's Subscription
  refcount,   \* Registry._refcount: topic -> its holders, empty sets pruned
  balance     \* history: first-callbacks minus last-callbacks, per topic

registryVars == <<consumers, topics, refcount, balance>>

TopicSubscribers(t) == IF t \in DOMAIN refcount THEN refcount[t] ELSE {}

ActiveTopics == DOMAIN refcount

-----------------------------------------------------------------------------
(* _increment_refcount and _decrement_refcount for the topics ts of one    *)
(* call: the new map, and the topics for which the helper returned True.   *)

IncrementRefcount(c, ts) ==
  [t \in ActiveTopics \cup ts |->
     IF t \in ts THEN TopicSubscribers(t) \cup {c} ELSE refcount[t]]

\* A second holder is taken for a first one when it was counted before.
FirstHeldAlways(ts) == ts

FirstHeld(ts) == {t \in ts : TopicSubscribers(t) = {}}

\* Emptied holder sets are kept.
DecrementKeepsEmpty(c, ts) ==
  [t \in ActiveTopics |-> IF t \in ts THEN refcount[t] \ {c} ELSE refcount[t]]

DecrementRefcount(c, ts) ==
  LET kept == {t \in ActiveTopics : t \notin ts \/ refcount[t] \ {c} # {}}
  IN  [t \in kept |-> IF t \in ts THEN refcount[t] \ {c} ELSE refcount[t]]

\* Leaving a topic always counts as its last release.
LastHeldAlways(c, ts) == ts

LastHeld(c, ts) == {t \in ts \cap ActiveTopics : refcount[t] \ {c} = {}}

\* _fire_first and _fire_last: one callback for each topic of the set.
Fire(first, last) ==
  balance' = [t \in Topics |->
                balance[t] + (IF t \in first THEN 1 ELSE 0)
                           - (IF t \in last THEN 1 ELSE 0)]

-----------------------------------------------------------------------------
Init ==
  /\ consumers = {}
  /\ topics = [c \in Consumers |-> {}]
  /\ refcount = [t \in {} |-> {}]
  /\ balance = [t \in Topics |-> 0]

\* An id in use is rejected before anything changes; topics is deduplicated.
RegisterConsumer(c, ts) ==
  /\ c \notin consumers
  /\ consumers' = consumers \cup {c}
  /\ topics' = [topics EXCEPT ![c] = ts]
  /\ refcount' = IncrementRefcount(c, ts)
  /\ Fire(FirstHeld(ts), {})

\* An unknown id is a no-op.  The topics to release are read before the
\* subscription is closed.
UnregisterConsumer(c) ==
  /\ c \in consumers
  /\ consumers' = consumers \ {c}
  /\ topics' = [topics EXCEPT ![c] = {}]
  /\ refcount' = DecrementRefcount(c, topics[c])
  /\ Fire({}, LastHeld(c, topics[c]))

\* An unknown consumer raises; a topic already held returns at once.
AddTopic(c, t) ==
  /\ c \in consumers
  /\ t \notin topics[c]
  /\ topics' = [topics EXCEPT ![c] = @ \cup {t}]
  /\ refcount' = IncrementRefcount(c, {t})
  /\ Fire(FirstHeld({t}), {})
  /\ UNCHANGED consumers

\* An unknown consumer raises; a topic not held returns at once.
RemoveTopic(c, t) ==
  /\ c \in consumers
  /\ t \in topics[c]
  /\ topics' = [topics EXCEPT ![c] = @ \ {t}]
  /\ refcount' = DecrementRefcount(c, {t})
  /\ Fire({}, LastHeld(c, {t}))
  /\ UNCHANGED consumers

Next ==
  \E c \in Consumers :
    \/ \E ts \in SUBSET Topics : RegisterConsumer(c, ts)
    \/ UnregisterConsumer(c)
    \/ \E t \in Topics : AddTopic(c, t) \/ RemoveTopic(c, t)

Spec == Init /\ [][Next]_registryVars

-----------------------------------------------------------------------------
(* Type invariant.  balance within 0..1: the ingest never hears two firsts *)
(* in a row for a topic, nor a last it was not owed.                       *)
TypeOK ==
  /\ consumers \subseteq Consumers
  /\ topics \in [Consumers -> SUBSET Topics]
  /\ ActiveTopics \subseteq Topics
  /\ refcount \in [ActiveTopics -> SUBSET Consumers]
  /\ balance \in [Topics -> 0..1]

(* The holders of a topic, as the consumers' own subscriptions tell them.  *)
HoldersOf(t) == {c \in consumers : t \in topics[c]}

(* The ref-count table is the inverse of the consumers' topic sets, and a  *)
(* topic is listed in it exactly when somebody holds it: registry.py:139   *)
(* relies on "topic in _refcount" for that question.                       *)
RefcountExact ==
  /\ ActiveTopics = {t \in Topics : HoldersOf(t) # {}}
  /\ \A t \in ActiveTopics : refcount[t] = HoldersOf(t)

(* No leaked and no missing upstream demand: whatever the history of       *)
(* registrations, drops and topic changes, the callbacks owe the ingest    *)
(* one first for each topic somebody still holds and nothing for others.   *)
CallbacksBalanced ==
  \A t \in Topics : balance[t] = IF HoldersOf(t) # {} THEN 1 ELSE 0
=============================================================================
