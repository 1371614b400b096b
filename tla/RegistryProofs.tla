--------------------------- MODULE RegistryProofs ---------------------------
(***************************************************************************)
(* Proofs about Registry, for any sets of consumers and topics: the        *)
(* ref-count table is the inverse of the consumers' topic sets, and the    *)
(* callbacks balance.  The conjunction of the three invariants is          *)
(* inductive: the callbacks are decided from refcount, so their balance    *)
(* needs RefcountExact, and both need the types.                           *)
(***************************************************************************)
EXTENDS Registry, TLAPS

IInv == TypeOK /\ RefcountExact /\ CallbacksBalanced

(* The initial registry, empty, satisfies the inductive invariant.         *)
LEMMA InitIInv == Init => IInv
  BY DEF Init, IInv, TypeOK, RefcountExact, CallbacksBalanced, ActiveTopics,
         HoldersOf

(* A step that adds c to the holders of ts, through IncrementRefcount and   *)
(* the first-callbacks it asks for, keeps table and callbacks exact.       *)
LEMMA GainPreserves ==
  ASSUME IInv, NEW c \in Consumers, NEW ts \in SUBSET Topics,
         refcount' = IncrementRefcount(c, ts), Fire(FirstHeld(ts), {}),
         \A t \in Topics : HoldersOf(t)' = IF t \in ts THEN HoldersOf(t) \cup {c}
                                           ELSE HoldersOf(t)
  PROVE  /\ ActiveTopics' \subseteq Topics
         /\ refcount' \in [ActiveTopics' -> SUBSET Consumers]
         /\ balance' \in [Topics -> 0..1]
         /\ RefcountExact'
         /\ CallbacksBalanced'
<1> DEFINE D == ActiveTopics \cup ts
<1>1. \A t \in Topics : TopicSubscribers(t) = HoldersOf(t)
  BY DEF IInv, TypeOK, RefcountExact, TopicSubscribers, ActiveTopics
<1>2. \A t \in Topics : HoldersOf(t) \subseteq Consumers
  BY DEF IInv, TypeOK, HoldersOf
<1>3. ActiveTopics' = D /\ D = {t \in Topics : HoldersOf(t)' # {}}
  <2>1. ActiveTopics' = D
    BY DEF IncrementRefcount, ActiveTopics
  <2>2. ActiveTopics = {t \in Topics : HoldersOf(t) # {}}
    BY DEF IInv, RefcountExact
  <2> QED BY <2>1, <2>2
<1>4. \A t \in D : refcount'[t] = HoldersOf(t)'
  BY <1>1 DEF IncrementRefcount, IInv, TypeOK, RefcountExact
<1>5. RefcountExact'
  BY <1>3, <1>4 DEF RefcountExact
<1>6. D \subseteq Topics /\ \A t \in D : HoldersOf(t)' \subseteq Consumers
  BY <1>2, <1>3
<1>7. refcount' \in [D -> SUBSET Consumers]
  <2>1. refcount' = [t \in D |-> refcount'[t]]
    BY DEF IncrementRefcount
  <2> QED BY <2>1, <1>4, <1>6
<1>8. \A t \in Topics : balance'[t] = IF HoldersOf(t)' # {} THEN 1 ELSE 0
  BY <1>1 DEF Fire, FirstHeld, IInv, TypeOK, CallbacksBalanced
<1>9. balance' \in [Topics -> 0..1]
  <2>1. balance' = [t \in Topics |-> balance'[t]]
    BY DEF Fire
  <2> QED BY <2>1, <1>8
<1> QED
  BY <1>3, <1>5, <1>6, <1>7, <1>8, <1>9 DEF CallbacksBalanced

(* A step that takes c from the holders of ts, through DecrementRefcount   *)
(* and the last-callbacks it asks for, keeps table and callbacks exact.    *)
LEMMA LossPreserves ==
  ASSUME IInv, NEW c \in Consumers, NEW ts \in SUBSET Topics,
         refcount' = DecrementRefcount(c, ts), Fire({}, LastHeld(c, ts)),
         \A t \in Topics : HoldersOf(t)' = IF t \in ts THEN HoldersOf(t) \ {c}
                                           ELSE HoldersOf(t)
  PROVE  /\ ActiveTopics' \subseteq Topics
         /\ refcount' \in [ActiveTopics' -> SUBSET Consumers]
         /\ balance' \in [Topics -> 0..1]
         /\ RefcountExact'
         /\ CallbacksBalanced'
<1> DEFINE D == {t \in ActiveTopics : t \notin ts \/ refcount[t] \ {c} # {}}
<1>1. ActiveTopics = {t \in Topics : HoldersOf(t) # {}}
  BY DEF IInv, RefcountExact
<1>2. \A t \in ActiveTopics : refcount[t] = HoldersOf(t)
  BY DEF IInv, RefcountExact
<1>3. \A t \in Topics : HoldersOf(t) \subseteq Consumers
  BY DEF IInv, TypeOK, HoldersOf
<1>4. ActiveTopics' = D /\ D = {t \in Topics : HoldersOf(t)' # {}}
  <2>1. ActiveTopics' = D
    BY DEF DecrementRefcount, ActiveTopics
  <2> QED BY <2>1, <1>1, <1>2
<1>5. \A t \in D : refcount'[t] = HoldersOf(t)'
  <2>1. \A t \in D : refcount'[t] = IF t \in ts THEN refcount[t] \ {c} ELSE refcount[t]
    BY DEF DecrementRefcount
  <2> QED BY <2>1, <1>1, <1>2
<1>6. RefcountExact'
  BY <1>4, <1>5 DEF RefcountExact
<1>7. D \subseteq Topics /\ \A t \in D : HoldersOf(t)' \subseteq Consumers
  BY <1>3, <1>4
<1>8. refcount' \in [D -> SUBSET Consumers]
  <2>1. refcount' = [t \in D |-> refcount'[t]]
    BY DEF DecrementRefcount
  <2> QED BY <2>1, <1>5, <1>7
<1>9. \A t \in Topics : balance'[t] = IF HoldersOf(t)' # {} THEN 1 ELSE 0
  <2>1. \A t \in Topics : t \in LastHeld(c, ts) <=>
                          t \in ts /\ HoldersOf(t) # {} /\ HoldersOf(t) \ {c} = {}
    BY <1>1, <1>2 DEF LastHeld
  <2> QED BY <2>1 DEF Fire, IInv, TypeOK, CallbacksBalanced
<1>10. balance' \in [Topics -> 0..1]
  <2>1. balance' = [t \in Topics |-> balance'[t]]
    BY DEF Fire
  <2> QED BY <2>1, <1>9
<1> QED
  BY <1>4, <1>6, <1>7, <1>8, <1>9, <1>10 DEF CallbacksBalanced

(* Every step of the registry preserves the inductive invariant.           *)
LEMMA NextIInv == IInv /\ [Next]_registryVars => IInv'
<1> SUFFICES ASSUME IInv, [Next]_registryVars PROVE IInv'
  OBVIOUS
<1> USE DEF IInv
<1>1. CASE UNCHANGED registryVars
  BY <1>1 DEF TypeOK, RefcountExact, CallbacksBalanced, ActiveTopics, HoldersOf,
              registryVars
<1>2. ASSUME NEW c \in Consumers, NEW ts \in SUBSET Topics,
             RegisterConsumer(c, ts)
      PROVE  IInv'
  <2>1. \A t \in Topics : HoldersOf(t)' = IF t \in ts THEN HoldersOf(t) \cup {c}
                                          ELSE HoldersOf(t)
    BY <1>2 DEF RegisterConsumer, HoldersOf, TypeOK
  <2>2. consumers' \subseteq Consumers /\ topics' \in [Consumers -> SUBSET Topics]
    BY <1>2 DEF RegisterConsumer, TypeOK
  <2> QED
    BY <1>2, <2>1, <2>2, GainPreserves DEF RegisterConsumer, TypeOK
<1>3. ASSUME NEW c \in Consumers, UnregisterConsumer(c)
      PROVE  IInv'
  <2>1. topics[c] \in SUBSET Topics
    BY DEF TypeOK
  <2>2. \A t \in Topics : HoldersOf(t)' = IF t \in topics[c] THEN HoldersOf(t) \ {c}
                                          ELSE HoldersOf(t)
    BY <1>3 DEF UnregisterConsumer, HoldersOf, TypeOK
  <2>3. consumers' \subseteq Consumers /\ topics' \in [Consumers -> SUBSET Topics]
    BY <1>3 DEF UnregisterConsumer, TypeOK
  <2> QED
    BY <1>3, <2>1, <2>2, <2>3, LossPreserves DEF UnregisterConsumer, TypeOK
<1>4. ASSUME NEW c \in Consumers, NEW t0 \in Topics, AddTopic(c, t0)
      PROVE  IInv'
  <2>1. {t0} \in SUBSET Topics
    OBVIOUS
  <2>2. \A t \in Topics : HoldersOf(t)' = IF t \in {t0} THEN HoldersOf(t) \cup {c}
                                          ELSE HoldersOf(t)
    BY <1>4 DEF AddTopic, HoldersOf, TypeOK
  <2>3. consumers' \subseteq Consumers /\ topics' \in [Consumers -> SUBSET Topics]
    BY <1>4 DEF AddTopic, TypeOK
  <2> QED
    BY <1>4, <2>1, <2>2, <2>3, GainPreserves DEF AddTopic, TypeOK
<1>5. ASSUME NEW c \in Consumers, NEW t0 \in Topics, RemoveTopic(c, t0)
      PROVE  IInv'
  <2>1. {t0} \in SUBSET Topics
    OBVIOUS
  <2>2. \A t \in Topics : HoldersOf(t)' = IF t \in {t0} THEN HoldersOf(t) \ {c}
                                          ELSE HoldersOf(t)
    BY <1>5 DEF RemoveTopic, HoldersOf, TypeOK
  <2>3. consumers' \subseteq Consumers /\ topics' \in [Consumers -> SUBSET Topics]
    BY <1>5 DEF RemoveTopic, TypeOK
  <2> QED
    BY <1>5, <2>1, <2>2, <2>3, LossPreserves DEF RemoveTopic, TypeOK
<1> QED
  BY <1>1, <1>2, <1>3, <1>4, <1>5 DEF Next

(* The inductive invariant holds in every reachable state.                 *)
THEOREM RegistryInductive == Spec => []IInv
  BY InitIInv, NextIInv, PTL DEF Spec

(* Type correctness, with at most one first owed per topic.                *)
THEOREM RegistryTypeOK == Spec => []TypeOK
<1>1. IInv => TypeOK
  BY DEF IInv
<1> QED BY <1>1, RegistryInductive, PTL

(* registry.py:139-141: the ref-count table is always the exact inverse of *)
(* the consumers' topic sets.                                              *)
THEOREM RegistryRefcountExact == Spec => []RefcountExact
<1>1. IInv => RefcountExact
  BY DEF IInv
<1> QED BY <1>1, RegistryInductive, PTL

(* registry.py:10-18: callbacks fire exactly at the 0 -> 1 and 1 -> 0      *)
(* transitions, so upstream demand neither leaks nor goes missing.         *)
THEOREM RegistryCallbacksBalanced == Spec => []CallbacksBalanced
<1>1. IInv => CallbacksBalanced
  BY DEF IInv
<1> QED BY <1>1, RegistryInductive, PTL
=============================================================================
