------------------------ MODULE StringHashMapAProofs ------------------------
(***************************************************************************)
(* StringHashMapA, for every set of keys, hash function, capacity and      *)
(* collision limit: a stored key never leaves its probe window, a probe    *)
(* path has a gap only after an erasure, and keys stay unique until an     *)
(* insertion meets such a gap.  None of the last two is inductive alone:   *)
(* uniqueness after TryInsert needs the paths filled before it, and both   *)
(* need every key within reach.  The table is a map for a disciplined      *)
(* client, and a bag of associations for every client.                     *)
(***************************************************************************)
EXTENDS StringHashMapA, FiniteSetTheorems, TLAPS

Reach(i) == \E c \in Steps : Probe(strPool[i], c) = i

KeysWithinReach == \A i \in Occupied : Reach(i)
ItemsPresent == \A i \in Occupied : dataPool[i] \in Items

IInv ==
  /\ TypeOK
  /\ KeysWithinReach
  /\ ItemsPresent
  /\ GapsOnlyAfterErase
  /\ UniqueUntilTainted

-----------------------------------------------------------------------------
\* A probe never leaves the pool.
LEMMA ProbeInPool ==
  ASSUME NEW k \in Keys, NEW s \in Seeds, NEW cap \in Capacities, NEW c \in Nat
  PROVE  ProbeIn(k, c, cap, s) \in 0 .. cap - 1
<1>1. Hash[<<k, s>>] \in Nat
  <2>1. <<k, s>> \in Keys \X Seeds
    OBVIOUS
  <2>. QED
    BY <2>1, SizesAssumption
<1>2. cap \in Nat /\ cap > 0
  BY SizesAssumption
<1>3. \A n \in Nat, m \in Nat : m > 0 => n % m \in 0 .. m - 1
  OBVIOUS
<1>. QED
  BY <1>1, <1>2, <1>3 DEF ProbeIn

LEMMA ProbeInSlots ==
  ASSUME TypeOK, NEW k \in Keys, NEW c \in Steps
  PROVE  c \in Nat /\ Probe(k, c) \in Slots
<1>1. collisionLimit \in Nat
  BY SizesAssumption DEF TypeOK
<1>2. c \in Nat
  BY <1>1 DEF Steps
<1>. QED
  BY <1>2, ProbeInPool DEF TypeOK, Probe, Slots

-----------------------------------------------------------------------------
(***************************************************************************)
(* What one operation does to the slots.                                   *)
(***************************************************************************)
Target(at, cap, s, i) == ProbeIn(strPool[i], at[i], cap, s)

\* Each occupied slot has one target, within reach of its key's new home, and no
\* two share it.
LEMMA TargetsDistinct ==
  ASSUME TypeOK, NEW cap \in Capacities, NEW lim \in Limits, NEW s \in Seeds,
         NEW at \in Placements(cap, lim, s)
  PROVE  /\ \A i \in Occupied : /\ strPool[i] \in Keys
                               /\ at[i] \in 0 .. lim - 1
                               /\ at[i] \in Nat
                               /\ Target(at, cap, s, i) \in 0 .. cap - 1
         /\ \A i, j \in Occupied : Target(at, cap, s, i) = Target(at, cap, s, j) => i = j
<1>1. /\ at \in [Occupied -> 0 .. lim - 1]
      /\ Placement(at, cap, s)
  BY DEF Placements
<1>2. lim \in Nat
  BY SizesAssumption
<1>3. \A i \in Occupied : strPool[i] \in Keys /\ at[i] \in 0 .. lim - 1 /\ at[i] \in Nat
  BY <1>1, <1>2 DEF TypeOK, Occupied
<1>4. \A i \in Occupied : Target(at, cap, s, i) \in 0 .. cap - 1
  BY <1>3, ProbeInPool DEF Target
<1>5. poolCapacity \in Nat
  BY SizesAssumption DEF TypeOK
<1>6. \A i, j \in Occupied : i \in Int /\ j \in Int /\ (i = j \/ i < j \/ j < i)
  BY <1>5 DEF Occupied, Slots
<1>7. \A i, j \in Occupied : j < i => Target(at, cap, s, j) # Target(at, cap, s, i)
  BY <1>1 DEF Placement, Target
<1>. QED
  BY <1>3, <1>4, <1>6, <1>7

\* A rebuilt slot holds the association of the one old slot that targets it.
LEMMA RebuiltSlot ==
  ASSUME TypeOK, NEW cap \in Capacities, NEW lim \in Limits, NEW s \in Seeds,
         NEW at \in Placements(cap, lim, s), RebuildAs(at, cap, lim, s),
         NEW t \in 0 .. cap - 1
  PROVE  \/ /\ \A i \in Occupied : Target(at, cap, s, i) # t
            /\ strPool'[t] = Empty
            /\ dataPool'[t] = NoItem
         \/ \E i \in Occupied : /\ Target(at, cap, s, i) = t
                               /\ strPool'[t] = strPool[i]
                               /\ dataPool'[t] = dataPool[i]
<1>. DEFINE S == Source(at, cap, s, t)
<1>1. S = {i \in Occupied : Target(at, cap, s, i) = t}
  BY DEF Source, Target
<1>2. CASE S = {}
  BY <1>1, <1>2 DEF RebuildAs
<1>3. CASE S # {}
  <2>. DEFINE i == CHOOSE j \in S : TRUE
  <2>1. i \in S
    BY <1>3
  <2>2. strPool'[t] = strPool[i] /\ dataPool'[t] = dataPool[i]
    BY <1>3 DEF RebuildAs
  <2>. QED
    BY <2>1, <2>2, <1>1
<1>. QED
  BY <1>2, <1>3

\* Every association survives a rebuild, in the slot it targets.
LEMMA RebuiltKeeps ==
  ASSUME TypeOK, NEW cap \in Capacities, NEW lim \in Limits, NEW s \in Seeds,
         NEW at \in Placements(cap, lim, s), RebuildAs(at, cap, lim, s),
         NEW i \in Occupied
  PROVE  /\ Target(at, cap, s, i) \in 0 .. cap - 1
         /\ strPool'[Target(at, cap, s, i)] = strPool[i]
         /\ dataPool'[Target(at, cap, s, i)] = dataPool[i]
BY TargetsDistinct, RebuiltSlot

-----------------------------------------------------------------------------
(***************************************************************************)
(* Type correctness.                                                       *)
(***************************************************************************)
LEMMA TypeInit == Init => TypeOK
<1>. SUFFICES ASSUME Init PROVE TypeOK
  OBVIOUS
<1>1. strPool \in [Slots -> Keys \cup {Empty}] /\ dataPool \in [Slots -> Items \cup {NoItem}]
  BY DEF Init
<1>2. ret \in [result : {"Constructed"}, item : {NoItem}]
  BY DEF Init, Answer
<1>. QED
  BY <1>1, <1>2 DEF Init, TypeOK

LEMMA TypeInsert ==
  ASSUME TypeOK, NEW k \in Keys, NEW x \in Items, NEW c \in Steps, InsertAt(k, x, c)
  PROVE  TypeOK'
<1>1. Probe(k, c) \in Slots
  BY ProbeInSlots
<1>2. Slots' = Slots
  BY DEF InsertAt, shape, Slots
<1>3. strPool' \in [Slots -> Keys \cup {Empty}]
  BY <1>1 DEF InsertAt, TypeOK
<1>4. dataPool' \in [Slots -> Items \cup {NoItem}]
  BY <1>1 DEF InsertAt, TypeOK
<1>. QED
  BY <1>2, <1>3, <1>4 DEF InsertAt, TypeOK, shape, Answer

LEMMA TypeErase ==
  ASSUME TypeOK, NEW k \in Keys, NEW c \in Steps, EraseAt(k, c)
  PROVE  TypeOK'
<1>1. Probe(k, c) \in Slots
  BY ProbeInSlots
<1>2. Slots' = Slots
  BY DEF EraseAt, shape, Slots
<1>3. strPool' \in [Slots -> Keys \cup {Empty}]
  BY <1>1 DEF EraseAt, TypeOK
<1>4. dataPool[Probe(k, c)] \in Items \cup {NoItem}
  BY <1>1 DEF TypeOK
<1>. QED
  BY <1>2, <1>3, <1>4 DEF EraseAt, TypeOK, shape, Answer

LEMMA TypeRebuild ==
  ASSUME TypeOK, NEW cap \in Capacities, NEW lim \in Limits, NEW s \in Seeds,
         NEW at \in Placements(cap, lim, s), RebuildAs(at, cap, lim, s)
  PROVE  TypeOK'
<1>1. poolCapacity' = cap /\ collisionLimit' = lim /\ seed' = s
  BY DEF RebuildAs, Adopt, shape
<1>2. \A i \in Occupied : strPool[i] \in Keys \cup {Empty} /\ dataPool[i] \in Items \cup {NoItem}
  BY DEF TypeOK, Occupied
<1>3. \A t \in 0 .. cap - 1 : /\ strPool'[t] \in Keys \cup {Empty}
                            /\ dataPool'[t] \in Items \cup {NoItem}
  BY RebuiltSlot, <1>2
<1>4. /\ strPool' = [t \in 0 .. cap - 1 |-> strPool'[t]]
      /\ dataPool' = [t \in 0 .. cap - 1 |-> dataPool'[t]]
  BY DEF RebuildAs
<1>5. /\ strPool' \in [0 .. cap - 1 -> Keys \cup {Empty}]
      /\ dataPool' \in [0 .. cap - 1 -> Items \cup {NoItem}]
  BY <1>3, <1>4
<1>6. ret' \in [result : {"Rebuilt"}, item : {NoItem}] /\ holed' \in BOOLEAN /\ tainted' \in BOOLEAN
  BY DEF RebuildAs, Answer, TypeOK
<1>. QED
  BY <1>1, <1>5, <1>6 DEF TypeOK, Slots

\* The steps that change nothing but the answer.
Answers ==
  /\ UNCHANGED <<shape, pools, history>>
  /\ \/ ret' = ret
     \/ \E k \in Keys, c \in Steps : ret' = Answer("Success", dataPool[Probe(k, c)])
     \/ \E r \in {"KeyAlreadyExist", "CollisionLimit", "ResultNotFound", "InvalidStrKey",
                  "NotRebuilt"} : ret' = Answer(r, NoItem)

LEMMA TypeAnswers ==
  ASSUME TypeOK, Answers
  PROVE  TypeOK'
<1>1. \A k \in Keys, c \in Steps : dataPool[Probe(k, c)] \in Items \cup {NoItem}
  BY ProbeInSlots DEF TypeOK
<1>. QED
  BY <1>1 DEF TypeOK, Answers, Answer, shape, pools, history, Slots

\* Every step is one of four: an insertion, an erasure, a rebuild, or an answer
\* that leaves the table alone.
LEMMA StepCases ==
  ASSUME [Next]_vars
  PROVE  \/ \E k \in Keys, x \in Items : \E c \in Steps : InsertAt(k, x, c)
         \/ \E k \in Keys : \E c \in Steps : EraseAt(k, c)
         \/ \E cap \in Capacities, lim \in Limits, s \in Seeds :
              \E at \in Placements(cap, lim, s) : RebuildAs(at, cap, lim, s)
         \/ Answers
<1>1. CASE Insert
  BY <1>1 DEF Insert, TryInsert, InsertKnown, InsertLimit, Answers
<1>2. CASE Lookup
  BY <1>2 DEF Lookup, TryFind, Answers
<1>3. CASE Erase
  BY <1>3 DEF Erase, TryErase, EraseMissing, Answers
<1>4. CASE Rebuild
  BY <1>4 DEF Rebuild, TryRebuild, RebuildFails, Answers
<1>5. CASE Refuse
  BY <1>5 DEF Refuse, InvalidKey, Answers
<1>6. CASE UNCHANGED vars
  BY <1>6 DEF vars, Answers
<1>. QED
  BY <1>1, <1>2, <1>3, <1>4, <1>5, <1>6 DEF Next

LEMMA TypeNext ==
  ASSUME TypeOK, [Next]_vars
  PROVE  TypeOK'
BY StepCases, TypeInsert, TypeErase, TypeRebuild, TypeAnswers

\* The pools always have the size the table's capacity says, and hold keys and
\* items: no operation writes outside them, TryRebuild's change of size included.
THEOREM TypeCorrect == Spec => []TypeOK
<1>1. TypeOK /\ [Next]_vars => TypeOK'
  BY TypeNext
<1>. QED
  BY <1>1, TypeInit, PTL DEF Spec

-----------------------------------------------------------------------------
(***************************************************************************)
(* The inductive step, one lemma per kind of step.                         *)
(***************************************************************************)
LEMMA InitIInv == Init => IInv
<1>. SUFFICES ASSUME Init PROVE IInv
  OBVIOUS
<1>1. TypeOK
  BY TypeInit
<1>2. Occupied = {}
  BY DEF Init, Occupied
<1>. QED
  BY <1>1, <1>2 DEF IInv, KeysWithinReach, ItemsPresent, GapsOnlyAfterErase, PathsFilled,
                    UniqueUntilTainted, NoDuplicateKeys

\* TryInsert takes the first free slot of a path without another copy before it.
LEMMA InsertIInv ==
  ASSUME IInv, NEW k \in Keys, NEW x \in Items, NEW c \in Steps, InsertAt(k, x, c)
  PROVE  IInv'
<1>. DEFINE p == Probe(k, c)
<1>1. TypeOK /\ TypeOK'
  BY TypeInsert DEF IInv
<1>2. p \in Slots /\ c \in Nat /\ strPool[p] = Empty
  BY <1>1, ProbeInSlots DEF InsertAt
<1>3. Slots' = Slots /\ Steps' = Steps /\ \A q, d : Probe(q, d)' = Probe(q, d)
  BY DEF InsertAt, shape, Slots, Steps, Probe, ProbeIn
<1>4. /\ strPool'[p] = k /\ dataPool'[p] = x
      /\ \A i \in Slots : i # p => strPool'[i] = strPool[i] /\ dataPool'[i] = dataPool[i]
  BY <1>1, <1>2 DEF InsertAt, TypeOK
<1>5. k # Empty
  BY NamesAssumption
<1>6. Occupied' = Occupied \cup {p} /\ p \notin Occupied
  BY <1>2, <1>3, <1>4, <1>5 DEF Occupied
<1>7. \A i \in Occupied : i \in Slots /\ i # p /\ strPool'[i] = strPool[i] /\ strPool[i] \in Keys
  BY <1>1, <1>4, <1>6 DEF Occupied, TypeOK
<1>8. KeysWithinReach'
  BY <1>3, <1>4, <1>6, <1>7 DEF IInv, KeysWithinReach, Reach
<1>9. ItemsPresent'
  BY <1>4, <1>6, <1>7 DEF IInv, ItemsPresent
<1>10. \A d \in 0 .. c - 1 : strPool[Probe(k, d)] \notin {Empty, k} /\ d \in Steps
  BY <1>1, SizesAssumption DEF InsertAt, InsertStopsAt, Steps, TypeOK
<1>11. ASSUME ~holed' PROVE PathsFilled'
  <2>1. ~holed /\ PathsFilled
    BY <1>11 DEF InsertAt, IInv, GapsOnlyAfterErase
  <2>2. \A i \in Slots : strPool[i] # Empty => strPool'[i] # Empty
    BY <1>2, <1>4
  <2>3. \A q \in Keys, d \in Steps : strPool[Probe(q, d)] # Empty => strPool'[Probe(q, d)] # Empty
    BY <2>2, <1>1, ProbeInSlots
  <2>4. ASSUME NEW i \in Occupied
        PROVE  \E e \in Steps : /\ Probe(strPool'[i], e) = i
                              /\ \A d \in 0 .. e - 1 : strPool'[Probe(strPool'[i], d)] # Empty
    <3>1. PICK e \in Steps : /\ Probe(strPool[i], e) = i
                             /\ \A d \in 0 .. e - 1 : strPool[Probe(strPool[i], d)] # Empty
      BY <2>1 DEF PathsFilled
    <3>2. \A d \in 0 .. e - 1 : d \in Steps
      BY <1>1, SizesAssumption DEF Steps, TypeOK
    <3>. QED
      BY <3>1, <3>2, <2>3, <1>7
  <2>5. \A d \in 0 .. c - 1 : strPool'[Probe(k, d)] # Empty
    BY <1>10, <2>3
  <2>. QED
    BY <2>4, <2>5, <1>3, <1>4, <1>6 DEF PathsFilled
<1>12. ASSUME ~tainted' PROVE NoDuplicateKeys'
  <2>1. ~holed /\ PathsFilled /\ NoDuplicateKeys
    BY <1>12 DEF InsertAt, IInv, GapsOnlyAfterErase, UniqueUntilTainted
  <2>2. ASSUME NEW i \in Occupied, strPool[i] = k PROVE FALSE
    <3>1. PICK e \in Steps : /\ Probe(k, e) = i
                             /\ \A d \in 0 .. e - 1 : strPool[Probe(k, d)] # Empty
      BY <2>1, <2>2 DEF PathsFilled
    <3>2. e \in Nat /\ e \notin 0 .. c - 1
      BY <3>1, <2>2, <1>1, <1>10, ProbeInSlots
    <3>3. e # c
      BY <3>1, <2>2, <1>2, <1>5
    <3>4. c \in 0 .. e - 1
      BY <3>2, <3>3, <1>2
    <3>. QED
      BY <3>1, <3>4, <1>2
  <2>. QED
    BY <2>1, <2>2, <1>4, <1>6, <1>7 DEF NoDuplicateKeys
<1>. QED
  BY <1>1, <1>8, <1>9, <1>11, <1>12 DEF IInv, GapsOnlyAfterErase, UniqueUntilTainted

\* TryErase only takes keys away, and marks the table holed.
LEMMA EraseIInv ==
  ASSUME IInv, NEW k \in Keys, NEW c \in Steps, EraseAt(k, c)
  PROVE  IInv'
<1>. DEFINE p == Probe(k, c)
<1>1. TypeOK /\ TypeOK'
  BY TypeErase DEF IInv
<1>2. p \in Slots
  BY <1>1, ProbeInSlots
<1>3. Slots' = Slots /\ Steps' = Steps /\ \A q, d : Probe(q, d)' = Probe(q, d)
  BY DEF EraseAt, shape, Slots, Steps, Probe, ProbeIn
<1>4. strPool'[p] = Empty /\ \A i \in Slots : i # p => strPool'[i] = strPool[i]
  BY <1>1, <1>2 DEF EraseAt, TypeOK
<1>5. \A i \in Occupied' : i \in Occupied /\ strPool'[i] = strPool[i] /\ dataPool'[i] = dataPool[i]
  BY <1>3, <1>4 DEF Occupied, EraseAt
<1>6. KeysWithinReach' /\ ItemsPresent'
  BY <1>3, <1>5 DEF IInv, KeysWithinReach, Reach, ItemsPresent
<1>7. holed' /\ tainted' = tainted
  BY DEF EraseAt
<1>8. NoDuplicateKeys => NoDuplicateKeys'
  BY <1>5 DEF NoDuplicateKeys
<1>. QED
  BY <1>1, <1>6, <1>7, <1>8 DEF IInv, GapsOnlyAfterErase, UniqueUntilTainted

\* TryRebuild fills every path afresh and never merges or splits associations.
LEMMA RebuildIInv ==
  ASSUME IInv, NEW cap \in Capacities, NEW lim \in Limits, NEW s \in Seeds,
         NEW at \in Placements(cap, lim, s), RebuildAs(at, cap, lim, s)
  PROVE  IInv'
<1>1. TypeOK /\ TypeOK'
  BY TypeRebuild DEF IInv
<1>2. poolCapacity' = cap /\ collisionLimit' = lim /\ seed' = s
  BY DEF RebuildAs, Adopt, shape
<1>3. Slots' = 0 .. cap - 1 /\ Steps' = 0 .. lim - 1 /\ \A q, d : Probe(q, d)' = ProbeIn(q, d, cap, s)
  BY <1>2 DEF Slots, Steps, Probe, ProbeIn
<1>4. \A t \in Occupied' : \E i \in Occupied : /\ Target(at, cap, s, i) = t
                                             /\ strPool'[t] = strPool[i]
                                             /\ dataPool'[t] = dataPool[i]
  BY <1>1, <1>3, RebuiltSlot DEF Occupied
<1>5. \A i \in Occupied : /\ at[i] \in 0 .. lim - 1 /\ at[i] \in Nat
                         /\ strPool[i] # Empty /\ strPool[i] \in Keys
                         /\ ProbeIn(strPool[i], at[i], cap, s) = Target(at, cap, s, i)
                         /\ strPool'[Target(at, cap, s, i)] = strPool[i]
  BY <1>1, TargetsDistinct, RebuiltKeeps DEF Occupied, Target
<1>6. KeysWithinReach'
  <2>. SUFFICES ASSUME NEW t \in Occupied'
                PROVE  \E c \in 0 .. lim - 1 : ProbeIn(strPool'[t], c, cap, s) = t
    BY <1>2, <1>3 DEF KeysWithinReach, Reach, Probe, ProbeIn
  <2>1. PICK i \in Occupied : Target(at, cap, s, i) = t /\ strPool'[t] = strPool[i]
    BY <1>4
  <2>. QED
    BY <2>1, <1>3, <1>5 DEF Target
<1>7. ItemsPresent'
  BY <1>4 DEF IInv, ItemsPresent
<1>8. PathsFilled'
  <2>. SUFFICES ASSUME NEW t \in Occupied'
                PROVE  \E c \in 0 .. lim - 1 :
                         /\ ProbeIn(strPool'[t], c, cap, s) = t
                         /\ \A d \in 0 .. c - 1 : strPool'[ProbeIn(strPool'[t], d, cap, s)] # Empty
    BY <1>2, <1>3 DEF PathsFilled, Probe, ProbeIn
  <2>1. PICK i \in Occupied : Target(at, cap, s, i) = t /\ strPool'[t] = strPool[i]
    BY <1>4
  <2>2. \A d \in 0 .. at[i] - 1 :
          \E j \in Occupied : Target(at, cap, s, j) = ProbeIn(strPool[i], d, cap, s)
    BY DEF Placements, Placement, Target
  <2>3. \A d \in 0 .. at[i] - 1 : strPool'[ProbeIn(strPool[i], d, cap, s)] # Empty
    BY <2>2, <1>5
  <2>. QED
    BY <2>1, <2>3, <1>3, <1>5 DEF Target
<1>9. NoDuplicateKeys => NoDuplicateKeys'
  BY <1>4 DEF NoDuplicateKeys
<1>10. tainted' = tainted
  BY DEF RebuildAs
<1>. QED
  BY <1>1, <1>6, <1>7, <1>8, <1>9, <1>10 DEF IInv, GapsOnlyAfterErase, UniqueUntilTainted

LEMMA AnswersIInv ==
  ASSUME IInv, Answers
  PROVE  IInv'
<1>1. TypeOK /\ TypeOK'
  BY TypeAnswers DEF IInv
<1>2. Occupied' = Occupied /\ Steps' = Steps /\ \A q, d : Probe(q, d)' = Probe(q, d)
  BY DEF Answers, shape, pools, Occupied, Slots, Steps, Probe, ProbeIn
<1>3. UNCHANGED <<strPool, dataPool, holed, tainted>>
  BY DEF Answers, pools, history
<1>. QED
  BY <1>1, <1>2, <1>3 DEF IInv, KeysWithinReach, Reach, ItemsPresent, GapsOnlyAfterErase,
                          PathsFilled, UniqueUntilTainted, NoDuplicateKeys

LEMMA NextIInv ==
  ASSUME IInv, [Next]_vars
  PROVE  IInv'
BY StepCases, InsertIInv, EraseIInv, RebuildIInv, AnswersIInv

\* The strengthened invariant holds of every client's behaviour.
THEOREM Inductive == Spec => []IInv
<1>1. IInv /\ [Next]_vars => IInv'
  BY NextIInv
<1>. QED
  BY <1>1, InitIInv, PTL DEF Spec

-----------------------------------------------------------------------------
(***************************************************************************)
(* The invariants the runs check.                                          *)
(***************************************************************************)
\* TryFindIndex gives up after _collisionLimit steps and still misses no stored key.
THEOREM StoredKeysWithinReach == Spec => []WithinReach
<1>1. IInv => WithinReach
  BY NamesAssumption DEF IInv, KeysWithinReach, ItemsPresent, Reach, WithinReach
<1>. QED
  BY <1>1, Inductive, PTL

\* Without an erasure since the last rebuild no probe path has a gap.
THEOREM NoGapBeforeErase == Spec => []GapsOnlyAfterErase
<1>1. IInv => GapsOnlyAfterErase
  BY DEF IInv
<1>. QED
  BY <1>1, Inductive, PTL

\* Keys are unique until an insertion meets a gap: KeyAlreadyExist can be relied
\* on by a client that never erases, or rebuilds before it inserts again.
THEOREM KeysUnique == Spec => []UniqueUntilTainted
<1>1. IInv => UniqueUntilTainted
  BY DEF IInv
<1>. QED
  BY <1>1, Inductive, PTL

-----------------------------------------------------------------------------
(***************************************************************************)
(* The table of a disciplined client implements a map.                     *)
(***************************************************************************)
Stored(k) == \E i \in Slots : strPool[i] = k

\* With unique keys the dictionary binds each key to the item beside it.
LEMMA DictionaryBinds ==
  ASSUME NEW cap, NEW sp, NEW dp,
         \A i, j \in 0 .. cap - 1 : sp[i] # Empty /\ sp[i] = sp[j] => i = j,
         NEW i \in 0 .. cap - 1, sp[i] # Empty
  PROVE  dp[CHOOSE j \in 0 .. cap - 1 : sp[j] = sp[i]] = dp[i]
<1>1. (CHOOSE j \in 0 .. cap - 1 : sp[j] = sp[i]) = i
  OBVIOUS
<1>. QED
  BY <1>1

LEMMA BoundWhenStored ==
  ASSUME NoDuplicateKeys, NEW i \in Slots, strPool[i] \in Keys
  PROVE  Dictionary[strPool[i]] = dataPool[i]
<1>1. \A m, n \in 0 .. poolCapacity - 1 : strPool[m] # Empty /\ strPool[m] = strPool[n] => m = n
  BY DEF NoDuplicateKeys, Occupied, Slots
<1>2. dataPool[CHOOSE j \in 0 .. poolCapacity - 1 : strPool[j] = strPool[i]] = dataPool[i]
  BY <1>1, DictionaryBinds, NamesAssumption DEF Slots
<1>. QED
  BY <1>2 DEF Dictionary, Slots

LEMMA BoundWhenStoredNext ==
  ASSUME NoDuplicateKeys', NEW i \in Slots', strPool'[i] \in Keys
  PROVE  Dictionary'[strPool'[i]] = dataPool'[i]
<1>1. \A m, n \in 0 .. poolCapacity' - 1 :
        strPool'[m] # Empty /\ strPool'[m] = strPool'[n] => m = n
  BY DEF NoDuplicateKeys, Occupied, Slots
<1>2. dataPool'[CHOOSE j \in 0 .. poolCapacity' - 1 : strPool'[j] = strPool'[i]] = dataPool'[i]
  BY <1>1, DictionaryBinds, NamesAssumption DEF Slots
<1>. QED
  BY <1>2 DEF Dictionary, Slots

LEMMA UnboundWhenNotStored ==
  /\ \A k \in Keys : ~Stored(k) => Dictionary[k] = NoItem
  /\ \A k \in Keys : ~Stored(k)' => Dictionary'[k] = NoItem
BY DEF Dictionary, Stored

LEMMA DictionaryDomain ==
  /\ Dictionary = [k \in Keys |-> Dictionary[k]]
  /\ Dictionary' = [k \in Keys |-> Dictionary'[k]]
BY DEF Dictionary

\* A key the probe does not meet is not stored.
LEMMA UnmetNotStored ==
  ASSUME IInv, NEW k \in Keys, \A c \in Steps : strPool[Probe(k, c)] # k
  PROVE  ~Stored(k)
BY NamesAssumption DEF IInv, KeysWithinReach, Reach, Stored, Occupied

LEMMA InsertMaps ==
  ASSUME IInv, ~holed, ~tainted, NEW k \in Keys, NEW x \in Items, NEW c \in Steps,
         InsertAt(k, x, c)
  PROVE  Map!Insert(k, x)
<1>. DEFINE p == Probe(k, c)
<1>1. TypeOK /\ IInv' /\ ~tainted'
  BY InsertIInv DEF IInv, InsertAt
<1>2. NoDuplicateKeys /\ NoDuplicateKeys' /\ TypeOK'
  BY <1>1 DEF IInv, UniqueUntilTainted
<1>3. p \in Slots /\ Slots' = Slots /\ strPool[p] = Empty
  BY <1>1, ProbeInSlots DEF InsertAt, shape, Slots
<1>4. /\ strPool'[p] = k /\ dataPool'[p] = x
      /\ \A i \in Slots : i # p => strPool'[i] = strPool[i] /\ dataPool'[i] = dataPool[i]
  BY <1>1, <1>3 DEF InsertAt, TypeOK
<1>5. ~Stored(k)
  <2>. SUFFICES ASSUME NEW i \in Slots, strPool[i] = k PROVE FALSE
    BY DEF Stored
  <2>1. i # p
    BY <1>3, NamesAssumption
  <2>2. i \in Occupied' /\ p \in Occupied' /\ strPool'[i] = strPool'[p]
    BY <1>3, <1>4, <2>1, NamesAssumption DEF Occupied
  <2>. QED
    BY <1>2, <2>1, <2>2 DEF NoDuplicateKeys
<1>6. Dictionary[k] = NoItem
  BY <1>5, UnboundWhenNotStored
<1>7. Dictionary'[k] = x
  BY <1>2, <1>3, <1>4, BoundWhenStoredNext
<1>8. ASSUME NEW q \in Keys, q # k PROVE Dictionary'[q] = Dictionary[q]
  <2>1. CASE Stored(q)
    <3>1. PICK i \in Slots : strPool[i] = q
      BY <2>1 DEF Stored
    <3>2. strPool'[i] = q /\ dataPool'[i] = dataPool[i]
      BY <3>1, <1>3, <1>4, NamesAssumption
    <3>. QED
      BY <3>1, <3>2, <1>2, <1>3, BoundWhenStored, BoundWhenStoredNext
  <2>2. CASE ~Stored(q)
    <3>1. ~Stored(q)'
      BY <2>2, <1>3, <1>4, <1>8 DEF Stored
    <3>. QED
      BY <2>2, <3>1, UnboundWhenNotStored
  <2>. QED
    BY <2>1, <2>2
<1>9. Dictionary' = [Dictionary EXCEPT ![k] = x]
  BY <1>7, <1>8, DictionaryDomain
<1>. QED
  BY <1>6, <1>9 DEF Map!Insert, Map!Bound, Map!Answer, InsertAt, Answer

LEMMA EraseMaps ==
  ASSUME IInv, ~tainted, NEW k \in Keys, NEW c \in Steps, EraseAt(k, c)
  PROVE  Map!Erase(k)
<1>. DEFINE p == Probe(k, c)
<1>1. TypeOK /\ IInv' /\ ~tainted'
  BY EraseIInv DEF IInv, EraseAt
<1>2. NoDuplicateKeys /\ NoDuplicateKeys' /\ ItemsPresent
  BY <1>1 DEF IInv, UniqueUntilTainted
<1>3. p \in Slots /\ Slots' = Slots /\ strPool[p] = k
  BY <1>1, ProbeInSlots DEF EraseAt, FoundAt, shape, Slots
<1>4. /\ strPool'[p] = Empty /\ dataPool' = dataPool
      /\ \A i \in Slots : i # p => strPool'[i] = strPool[i]
  BY <1>1, <1>3 DEF EraseAt, TypeOK
<1>5. p \in Occupied /\ dataPool[p] # NoItem
  BY <1>2, <1>3, NamesAssumption DEF Occupied, ItemsPresent
<1>6. Dictionary[k] = dataPool[p]
  BY <1>2, <1>3, BoundWhenStored
<1>7. Dictionary'[k] = NoItem
  <2>1. ~Stored(k)'
    BY <1>2, <1>3, <1>4, <1>5, NamesAssumption DEF Stored, NoDuplicateKeys, Occupied
  <2>. QED
    BY <2>1, UnboundWhenNotStored
<1>8. ASSUME NEW q \in Keys, q # k PROVE Dictionary'[q] = Dictionary[q]
  <2>1. CASE Stored(q)
    <3>1. PICK i \in Slots : strPool[i] = q
      BY <2>1 DEF Stored
    <3>2. strPool'[i] = q
      BY <3>1, <1>3, <1>4, <1>8
    <3>. QED
      BY <3>1, <3>2, <1>2, <1>3, <1>4, BoundWhenStored, BoundWhenStoredNext
  <2>2. CASE ~Stored(q)
    <3>1. ~Stored(q)'
      BY <2>2, <1>3, <1>4, NamesAssumption DEF Stored
    <3>. QED
      BY <2>2, <3>1, UnboundWhenNotStored
  <2>. QED
    BY <2>1, <2>2
<1>9. Dictionary' = [Dictionary EXCEPT ![k] = NoItem]
  BY <1>7, <1>8, DictionaryDomain
<1>. QED
  BY <1>5, <1>6, <1>9 DEF Map!Erase, Map!Bound, Map!Answer, EraseAt, Answer

LEMMA RebuildMaps ==
  ASSUME IInv, ~tainted, NEW cap \in Capacities, NEW lim \in Limits, NEW s \in Seeds,
         NEW at \in Placements(cap, lim, s), RebuildAs(at, cap, lim, s)
  PROVE  Map!Rebuild
<1>1. TypeOK /\ IInv' /\ ~tainted'
  BY RebuildIInv DEF IInv, RebuildAs
<1>2. NoDuplicateKeys /\ NoDuplicateKeys'
  BY <1>1 DEF IInv, UniqueUntilTainted
<1>3. Slots' = 0 .. cap - 1
  BY DEF RebuildAs, Adopt, shape, Slots
<1>4. ASSUME NEW q \in Keys PROVE Dictionary'[q] = Dictionary[q]
  <2>1. CASE Stored(q)
    <3>1. PICK i \in Slots : strPool[i] = q
      BY <2>1 DEF Stored
    <3>2. i \in Occupied
      BY <3>1, NamesAssumption DEF Occupied
    <3>3. PICK t \in Slots' : strPool'[t] = q /\ dataPool'[t] = dataPool[i]
      BY <3>1, <3>2, <1>1, <1>3, RebuiltKeeps
    <3>. QED
      BY <3>1, <3>3, <1>2, BoundWhenStored, BoundWhenStoredNext
  <2>2. CASE ~Stored(q)
    <3>1. ASSUME NEW t \in Slots', strPool'[t] = q PROVE FALSE
      <4>1. PICK i \in Occupied : strPool'[t] = strPool[i]
        BY <3>1, <1>1, <1>3, RebuiltSlot, NamesAssumption
      <4>. QED
        BY <4>1, <3>1, <2>2 DEF Stored, Occupied
    <3>2. ~Stored(q)'
      BY <3>1 DEF Stored
    <3>. QED
      BY <2>2, <3>2, UnboundWhenNotStored
  <2>. QED
    BY <2>1, <2>2
<1>5. Dictionary' = Dictionary
  BY <1>4, DictionaryDomain
<1>. QED
  BY <1>5 DEF Map!Rebuild, Map!Answer, RebuildAs, Answer

\* Lookups and refusals, answered from the table, are those of the map.
LEMMA FindMaps ==
  ASSUME IInv, ~tainted, NEW k \in Keys, TryFind(k)
  PROVE  Map!Find(k)
<1>1. TypeOK /\ NoDuplicateKeys /\ ItemsPresent
  BY DEF IInv, UniqueUntilTainted
<1>2. Dictionary' = Dictionary
  BY DEF TryFind, shape, pools, Dictionary, Slots
<1>3. ASSUME NEW c \in Steps, FoundAt(k, c), ret' = Answer("Success", dataPool[Probe(k, c)])
      PROVE  Map!Find(k)
  <2>1. Probe(k, c) \in Slots /\ strPool[Probe(k, c)] = k
    BY <1>1, <1>3, ProbeInSlots DEF FoundAt
  <2>2. Dictionary[k] = dataPool[Probe(k, c)] /\ dataPool[Probe(k, c)] # NoItem
    BY <1>1, <2>1, BoundWhenStored, NamesAssumption DEF Occupied, ItemsPresent
  <2>. QED
    BY <1>2, <1>3, <2>2 DEF Map!Find, Map!Bound, Map!Answer, Answer
<1>4. ASSUME Missing(k), ret' = Answer("ResultNotFound", NoItem)
      PROVE  Map!Find(k)
  <2>1. Dictionary[k] = NoItem
    BY <1>4, UnmetNotStored, UnboundWhenNotStored DEF Missing
  <2>. QED
    BY <1>2, <1>4, <2>1 DEF Map!Find, Map!Bound, Map!Answer, Answer
<1>. QED
  BY <1>3, <1>4 DEF TryFind

LEMMA EraseMissingMaps ==
  ASSUME IInv, NEW k \in Keys, EraseMissing(k)
  PROVE  Map!Erase(k)
<1>1. Dictionary[k] = NoItem
  BY UnmetNotStored, UnboundWhenNotStored DEF EraseMissing, Missing
<1>2. Dictionary' = Dictionary
  BY DEF EraseMissing, shape, pools, Dictionary, Slots
<1>3. Dictionary = [Dictionary EXCEPT ![k] = NoItem]
  BY <1>1, DictionaryDomain
<1>. QED
  BY <1>1, <1>2, <1>3 DEF Map!Erase, Map!Bound, Map!Answer, EraseMissing, Answer

LEMMA InsertKnownMaps ==
  ASSUME IInv, ~tainted, NEW k \in Keys, InsertKnown(k)
  PROVE  Map!RefuseKnown(k)
<1>1. TypeOK /\ NoDuplicateKeys /\ ItemsPresent
  BY DEF IInv, UniqueUntilTainted
<1>2. Dictionary' = Dictionary
  BY DEF InsertKnown, shape, pools, Dictionary, Slots
<1>3. PICK c \in Steps : strPool[Probe(k, c)] = k
  BY DEF InsertKnown
<1>4. Dictionary[k] # NoItem
  BY <1>1, <1>3, ProbeInSlots, BoundWhenStored, NamesAssumption DEF Occupied, ItemsPresent
<1>. QED
  BY <1>2, <1>4 DEF Map!RefuseKnown, Map!Bound, Map!Answer, InsertKnown, Answer

LEMMA InsertLimitMaps ==
  ASSUME IInv, NEW k \in Keys, InsertLimit(k)
  PROVE  Map!RefuseFull(k)
<1>1. Dictionary[k] = NoItem
  BY UnmetNotStored, UnboundWhenNotStored DEF InsertLimit
<1>2. Dictionary' = Dictionary
  BY DEF InsertLimit, shape, pools, Dictionary, Slots
<1>. QED
  BY <1>1, <1>2 DEF Map!RefuseFull, Map!Bound, Map!Answer, InsertLimit, Answer

\* Calls that answer without looking at the table.
LEMMA RefusalsMap ==
  ASSUME \/ Refuse
         \/ \E cap \in Capacities, lim \in Limits, s \in Seeds : RebuildFails(cap, lim, s)
  PROVE  Map!Refuse \/ Map!Rebuild
<1>1. UNCHANGED <<poolCapacity, strPool, dataPool>>
  BY DEF Refuse, InvalidKey, RebuildFails, shape, pools
<1>2. Dictionary' = Dictionary
  BY <1>1 DEF Dictionary, Slots
<1>. QED
  BY <1>2 DEF Refuse, InvalidKey, RebuildFails, Map!Refuse, Map!Rebuild, Map!Answer, Answer

LEMMA DisciplinedStep ==
  ASSUME IInv, ~tainted, [DisciplinedNext]_vars
  PROVE  IInv' /\ ~tainted' /\ [Map!Next]_(Map!vars)
<1>1. [Next]_vars
  BY DEF DisciplinedNext, Next
<1>2. IInv'
  BY <1>1, NextIInv
<1>3. CASE ~holed /\ Insert
  <2>1. PICK k \in Keys, x \in Items : TryInsert(k, x)
    BY <1>3 DEF Insert
  <2>2. Map!Insert(k, x) \/ Map!RefuseKnown(k) \/ Map!RefuseFull(k)
    BY <1>3, <2>1, InsertMaps, InsertKnownMaps, InsertLimitMaps DEF TryInsert
  <2>3. ~tainted'
    BY <1>3, <2>1 DEF TryInsert, InsertAt, InsertKnown, InsertLimit, history
  <2>. QED
    BY <1>2, <2>2, <2>3 DEF Map!Next
<1>4. CASE Lookup
  <2>1. PICK k \in Keys : TryFind(k)
    BY <1>4 DEF Lookup
  <2>. QED
    BY <1>2, <2>1, FindMaps DEF Map!Next, TryFind, history
<1>5. CASE Erase
  <2>1. PICK k \in Keys : TryErase(k)
    BY <1>5 DEF Erase
  <2>2. Map!Erase(k)
    BY <2>1, EraseMaps, EraseMissingMaps DEF TryErase
  <2>3. ~tainted'
    BY <2>1 DEF TryErase, EraseAt, EraseMissing, history
  <2>. QED
    BY <1>2, <2>2, <2>3 DEF Map!Next
<1>6. CASE Rebuild
  <2>1. PICK cap \in Capacities, lim \in Limits, s \in Seeds : TryRebuild(cap, lim, s)
    BY <1>6 DEF Rebuild
  <2>2. Map!Rebuild \/ Map!Refuse
    BY <2>1, RebuildMaps, RefusalsMap DEF TryRebuild
  <2>3. ~tainted'
    BY <2>1 DEF TryRebuild, RebuildAs, RebuildFails, history
  <2>. QED
    BY <1>2, <2>2, <2>3 DEF Map!Next
<1>7. CASE Refuse
  BY <1>2, <1>7, RefusalsMap DEF Map!Next, Refuse, InvalidKey, history
<1>8. CASE UNCHANGED vars
  BY <1>2, <1>8 DEF vars, shape, pools, history, Map!vars, Dictionary, Slots
<1>. QED
  BY <1>3, <1>4, <1>5, <1>6, <1>7, <1>8 DEF DisciplinedNext

LEMMA InitMaps == Init => Map!Init
<1>. SUFFICES ASSUME Init PROVE Map!Init
  OBVIOUS
<1>1. \A k \in Keys : ~Stored(k)
  BY NamesAssumption DEF Init, Stored
<1>2. Dictionary = [k \in Keys |-> NoItem]
  BY <1>1, UnboundWhenNotStored, DictionaryDomain
<1>. QED
  BY <1>2 DEF Init, Map!Init, Map!Answer, Answer

\* For a client that never inserts into a holed table StringHashMapA is a map: no
\* collision, wrap-around or rebuild shows through TryInsert, TryFind or TryErase.
THEOREM TableImplementsMap == DisciplinedSpec => ImplementsMap
<1>1. Init => IInv /\ ~tainted /\ Map!Init
  BY InitIInv, InitMaps DEF Init
<1>2. IInv /\ ~tainted /\ [DisciplinedNext]_vars => IInv' /\ ~tainted' /\ [Map!Next]_(Map!vars)
  BY DisciplinedStep
<1>. QED
  BY <1>1, <1>2, PTL DEF DisciplinedSpec, ImplementsMap, Map!Spec

-----------------------------------------------------------------------------
(***************************************************************************)
(* The table of any client implements a bag of associations: an operation  *)
(* adds or removes one copy at most, and a rebuild moves every copy.       *)
(***************************************************************************)
Where(k, x) == {i \in Slots : strPool[i] = k /\ dataPool[i] = x}

LEMMA CopiesCount ==
  ASSUME NEW k \in Keys, NEW x \in Items
  PROVE  /\ Copies[<<k, x>>] = Cardinality(Where(k, x))
         /\ Copies'[<<k, x>>] = Cardinality(Where(k, x)')
<1>1. <<k, x>> \in Keys \X Items /\ <<k, x>>[1] = k /\ <<k, x>>[2] = x
  OBVIOUS
<1>. QED
  BY <1>1 DEF Copies, Where

LEMMA CopiesDomain ==
  /\ Copies = [p \in Keys \X Items |-> Copies[p]]
  /\ Copies' = [p \in Keys \X Items |-> Copies'[p]]
BY DEF Copies

LEMMA WhereFinite ==
  /\ TypeOK => \A k, x : IsFiniteSet(Where(k, x))
  /\ TypeOK' => \A k, x : IsFiniteSet(Where(k, x)')
<1>1. ASSUME NEW cap \in Capacities, NEW S, S \subseteq 0 .. cap - 1
      PROVE  IsFiniteSet(S)
  <2>1. cap - 1 \in Int /\ 0 \in Int
    BY SizesAssumption
  <2>2. IsFiniteSet(0 .. cap - 1)
    BY <2>1, FS_Interval
  <2>. QED
    BY <1>1, <2>2, FS_Subset
<1>2. ASSUME TypeOK, NEW k, NEW x PROVE IsFiniteSet(Where(k, x))
  <2>1. poolCapacity \in Capacities /\ Where(k, x) \subseteq 0 .. poolCapacity - 1
    BY <1>2 DEF TypeOK, Where, Slots
  <2>. QED
    BY <1>1, <2>1
<1>3. ASSUME TypeOK', NEW k, NEW x PROVE IsFiniteSet(Where(k, x)')
  <2>1. poolCapacity' \in Capacities /\ Where(k, x)' \subseteq 0 .. poolCapacity' - 1
    BY <1>3 DEF TypeOK, Where, Slots
  <2>. QED
    BY <1>1, <2>1
<1>. QED
  BY <1>2, <1>3

\* The items the bag holds for a key are those that stand beside it.
LEMMA HeldWhereStored ==
  ASSUME TypeOK, NEW k \in Keys, NEW x \in Items
  PROVE  x \in Bag!Held(k) <=> Where(k, x) # {}
<1>1. Cardinality(Where(k, x)) \in Nat /\ (Cardinality(Where(k, x)) = 0 <=> Where(k, x) = {})
  BY WhereFinite, FS_CardinalityType, FS_EmptySet
<1>2. x \in Bag!Held(k) <=> Copies[<<k, x>>] > 0
  BY DEF Bag!Held
<1>. QED
  BY <1>1, <1>2, CopiesCount

LEMMA HeldAtSlot ==
  ASSUME IInv, NEW k \in Keys, NEW i \in Slots, strPool[i] = k
  PROVE  dataPool[i] \in Bag!Held(k) /\ dataPool[i] \in Items
<1>1. dataPool[i] \in Items
  BY NamesAssumption DEF IInv, ItemsPresent, Occupied
<1>2. i \in Where(k, dataPool[i])
  BY DEF Where
<1>. QED
  BY <1>1, <1>2, HeldWhereStored DEF IInv

LEMMA NothingHeld ==
  ASSUME IInv, NEW k \in Keys, ~Stored(k)
  PROVE  Bag!Held(k) = {}
<1>1. \A x \in Items : Where(k, x) = {}
  BY DEF Stored, Where
<1>2. Bag!Held(k) \subseteq Items
  BY DEF Bag!Held
<1>. QED
  BY <1>1, <1>2, HeldWhereStored DEF IInv

\* TryInsert adds one copy of the association, whatever copies of the key there are.
LEMMA InsertAdds ==
  ASSUME IInv, NEW k \in Keys, NEW x \in Items, NEW c \in Steps, InsertAt(k, x, c)
  PROVE  Bag!Add(k, x)
<1>. DEFINE p == Probe(k, c)
<1>1. TypeOK /\ TypeOK'
  BY TypeInsert DEF IInv
<1>2. p \in Slots /\ strPool[p] = Empty /\ Slots' = Slots
  BY <1>1, ProbeInSlots DEF InsertAt, shape, Slots
<1>3. /\ strPool'[p] = k /\ dataPool'[p] = x
      /\ \A i \in Slots : i # p => strPool'[i] = strPool[i] /\ dataPool'[i] = dataPool[i]
  BY <1>1, <1>2 DEF InsertAt, TypeOK
<1>. HIDE DEF p
<1>4. Where(k, x)' = Where(k, x) \cup {p} /\ p \notin Where(k, x)
  <2>1. \A i \in Slots : i \in Where(k, x)' <=> i \in Where(k, x) \cup {p}
    BY <1>2, <1>3 DEF Where
  <2>2. Where(k, x)' \subseteq Slots /\ Where(k, x) \subseteq Slots
    BY <1>2 DEF Where
  <2>. QED
    BY <1>2, <2>1, <2>2, NamesAssumption DEF Where
<1>5. ASSUME NEW q \in Keys, NEW y \in Items, <<q, y>> # <<k, x>>
      PROVE  Where(q, y)' = Where(q, y)
  <2>1. \A i \in Slots : i \in Where(q, y)' <=> i \in Where(q, y)
    BY <1>2, <1>3, <1>5, NamesAssumption DEF Where
  <2>2. Where(q, y)' \subseteq Slots /\ Where(q, y) \subseteq Slots
    BY <1>2 DEF Where
  <2>. QED
    BY <2>1, <2>2
<1>6. Copies'[<<k, x>>] = Copies[<<k, x>>] + 1
  <2>1. Cardinality(Where(k, x) \cup {p}) = Cardinality(Where(k, x)) + 1
    BY <1>1, <1>4, WhereFinite, FS_AddElement
  <2>. QED
    BY <1>4, <2>1, CopiesCount
<1>7. \A a \in Keys \X Items : a # <<k, x>> => Copies'[a] = Copies[a]
  <2>1. ASSUME NEW q \in Keys, NEW y \in Items, <<q, y>> # <<k, x>>
        PROVE  Copies'[<<q, y>>] = Copies[<<q, y>>]
    BY <1>5, <2>1, CopiesCount
  <2>. QED
    BY <2>1
<1>8. Copies' = [Copies EXCEPT ![<<k, x>>] = @ + 1]
  BY <1>6, <1>7, CopiesDomain
<1>. QED
  BY <1>8 DEF Bag!Add, Bag!Answer, InsertAt, Answer

\* TryErase takes away the one copy whose item it returns.
LEMMA EraseRemoves ==
  ASSUME IInv, NEW k \in Keys, NEW c \in Steps, EraseAt(k, c)
  PROVE  Bag!Erase(k)
<1>. DEFINE p == Probe(k, c)
            x == dataPool[p]
<1>1. TypeOK /\ TypeOK'
  BY TypeErase DEF IInv
<1>2. p \in Slots /\ strPool[p] = k /\ Slots' = Slots
  BY <1>1, ProbeInSlots DEF EraseAt, FoundAt, shape, Slots
<1>3. /\ strPool'[p] = Empty /\ dataPool' = dataPool
      /\ \A i \in Slots : i # p => strPool'[i] = strPool[i]
  BY <1>1, <1>2 DEF EraseAt, TypeOK
<1>4. x \in Bag!Held(k) /\ x \in Items
  BY <1>2, HeldAtSlot
<1>5. ret' = Answer("Success", x)
  BY DEF EraseAt
<1>6. p \in Where(k, x)
  BY <1>2 DEF Where
<1>7. PICK y : y = x
  OBVIOUS
<1>8. y \in Items /\ dataPool[p] = y
  BY <1>4, <1>7
<1>. HIDE DEF p, x
<1>9. Where(k, y)' = Where(k, y) \ {p}
  <2>1. \A i \in Slots : i \in Where(k, y)' <=> i \in Where(k, y) \ {p}
    BY <1>2, <1>3, NamesAssumption DEF Where
  <2>2. Where(k, y)' \subseteq Slots /\ Where(k, y) \subseteq Slots
    BY <1>2 DEF Where
  <2>. QED
    BY <2>1, <2>2
<1>10. ASSUME NEW q \in Keys, NEW z \in Items, <<q, z>> # <<k, y>>
       PROVE  Where(q, z)' = Where(q, z)
  <2>1. \A i \in Slots : i \in Where(q, z)' <=> i \in Where(q, z)
    BY <1>2, <1>3, <1>8, <1>10, NamesAssumption DEF Where
  <2>2. Where(q, z)' \subseteq Slots /\ Where(q, z) \subseteq Slots
    BY <1>2 DEF Where
  <2>. QED
    BY <2>1, <2>2
<1>11. Copies'[<<k, y>>] = Copies[<<k, y>>] - 1
  <2>1. Cardinality(Where(k, y) \ {p}) = Cardinality(Where(k, y)) - 1
    BY <1>1, <1>6, <1>7, WhereFinite, FS_RemoveElement
  <2>. QED
    BY <1>8, <1>9, <2>1, CopiesCount
<1>12. \A a \in Keys \X Items : a # <<k, y>> => Copies'[a] = Copies[a]
  <2>1. ASSUME NEW q \in Keys, NEW z \in Items, <<q, z>> # <<k, y>>
        PROVE  Copies'[<<q, z>>] = Copies[<<q, z>>]
    BY <1>10, <2>1, CopiesCount
  <2>. QED
    BY <2>1
<1>13. Copies' = [Copies EXCEPT ![<<k, y>>] = @ - 1]
  BY <1>11, <1>12, CopiesDomain
<1>. QED
  BY <1>4, <1>5, <1>7, <1>13 DEF Bag!Erase, Bag!Answer, Answer

-----------------------------------------------------------------------------
LEMMA SameSize ==
  ASSUME NEW S, IsFiniteSet(S), NEW T, NEW f \in [S -> T],
         \A i, j \in S : f[i] = f[j] => i = j,
         \A t \in T : \E i \in S : f[i] = t
  PROVE  Cardinality(T) = Cardinality(S)
<1>1. f \in Bijection(S, T)
  BY DEF Bijection, Injection, Surjection, IsInjective
<1>2. ExistsBijection(S, T)
  BY <1>1 DEF ExistsBijection
<1>. QED
  BY <1>2, FS_Bijection

\* TryRebuild keeps the number of copies of every association.
LEMMA RebuildMoves ==
  ASSUME IInv, NEW cap \in Capacities, NEW lim \in Limits, NEW s \in Seeds,
         NEW at \in Placements(cap, lim, s), RebuildAs(at, cap, lim, s)
  PROVE  Bag!Rebuild
<1>1. TypeOK /\ TypeOK'
  BY TypeRebuild DEF IInv
<1>2. Slots' = 0 .. cap - 1
  BY DEF RebuildAs, Adopt, shape, Slots
<1>3. ASSUME NEW q \in Keys, NEW y \in Items
      PROVE  Cardinality(Where(q, y)') = Cardinality(Where(q, y))
  <2>. DEFINE to == [i \in Where(q, y) |-> Target(at, cap, s, i)]
              old == Where(q, y)
              new == Where(q, y)'
  <2>1. \A i \in old : i \in Occupied /\ strPool[i] = q /\ dataPool[i] = y
    BY NamesAssumption DEF Where, Occupied
  <2>2. \A i \in old : Target(at, cap, s, i) \in new
    BY <1>1, <1>2, <2>1, RebuiltKeeps DEF Where
  <2>3. \A i, j \in old : Target(at, cap, s, i) = Target(at, cap, s, j) => i = j
    BY <1>1, <2>1, TargetsDistinct
  <2>4. ASSUME NEW t \in new PROVE \E i \in old : Target(at, cap, s, i) = t
    <3>1. t \in 0 .. cap - 1 /\ strPool'[t] = q /\ dataPool'[t] = y
      BY <1>2 DEF Where
    <3>2. PICK i \in Occupied : /\ Target(at, cap, s, i) = t
                                /\ strPool'[t] = strPool[i]
                                /\ dataPool'[t] = dataPool[i]
      BY <1>1, <3>1, RebuiltSlot, NamesAssumption
    <3>3. i \in old
      BY <3>1, <3>2 DEF Where, Occupied
    <3>. QED
      BY <3>2, <3>3
  <2>5. IsFiniteSet(old)
    BY <1>1, WhereFinite
  <2>6. /\ to \in [old -> new]
        /\ \A i, j \in old : to[i] = to[j] => i = j
        /\ \A t \in new : \E i \in old : to[i] = t
    BY <2>2, <2>3, <2>4
  <2>. HIDE DEF to, old, new
  <2>7. Cardinality(new) = Cardinality(old)
    BY <2>5, <2>6, SameSize
  <2>. QED
    BY <2>7 DEF old, new
<1>4. \A a \in Keys \X Items : Copies'[a] = Copies[a]
  <2>1. ASSUME NEW q \in Keys, NEW y \in Items PROVE Copies'[<<q, y>>] = Copies[<<q, y>>]
    BY <1>3, CopiesCount
  <2>. QED
    BY <2>1
<1>5. Copies' = Copies
  BY <1>4, CopiesDomain
<1>. QED
  BY <1>5 DEF Bag!Rebuild, Bag!Answer, RebuildAs, Answer

-----------------------------------------------------------------------------
\* The calls that only answer, answer what the bag may.
LEMMA CopiesKept == UNCHANGED <<shape, pools>> => Copies' = Copies
BY DEF shape, pools, Copies, Slots

LEMMA FindAnswers ==
  ASSUME IInv, NEW k \in Keys, TryFind(k)
  PROVE  Bag!Find(k)
<1>1. Copies' = Copies
  BY CopiesKept DEF TryFind
<1>2. ASSUME NEW c \in Steps, FoundAt(k, c), ret' = Answer("Success", dataPool[Probe(k, c)])
      PROVE  Bag!Find(k)
  <2>1. Probe(k, c) \in Slots /\ strPool[Probe(k, c)] = k
    BY <1>2, ProbeInSlots DEF IInv, FoundAt
  <2>2. dataPool[Probe(k, c)] \in Bag!Held(k)
    BY <2>1, HeldAtSlot
  <2>. QED
    BY <1>1, <1>2, <2>2 DEF Bag!Find, Bag!Answer, Answer
<1>3. ASSUME Missing(k), ret' = Answer("ResultNotFound", NoItem)
      PROVE  Bag!Find(k)
  <2>1. Bag!Held(k) = {}
    BY <1>3, UnmetNotStored, NothingHeld DEF Missing
  <2>. QED
    BY <1>1, <1>3, <2>1 DEF Bag!Find, Bag!Answer, Answer
<1>. QED
  BY <1>2, <1>3 DEF TryFind

LEMMA EraseMissingAnswers ==
  ASSUME IInv, NEW k \in Keys, EraseMissing(k)
  PROVE  Bag!Erase(k)
<1>1. Bag!Held(k) = {}
  BY UnmetNotStored, NothingHeld DEF EraseMissing, Missing
<1>2. Copies' = Copies
  BY CopiesKept DEF EraseMissing
<1>. QED
  BY <1>1, <1>2 DEF Bag!Erase, Bag!Answer, EraseMissing, Answer

LEMMA InsertRefused ==
  ASSUME IInv, NEW k \in Keys, InsertKnown(k) \/ InsertLimit(k)
  PROVE  Bag!RefuseKnown(k) \/ Bag!RefuseFull(k)
<1>1. Copies' = Copies
  BY CopiesKept DEF InsertKnown, InsertLimit
<1>2. ASSUME InsertKnown(k) PROVE Bag!RefuseKnown(k)
  <2>1. PICK c \in Steps : strPool[Probe(k, c)] = k
    BY <1>2 DEF InsertKnown
  <2>2. Bag!Held(k) # {}
    BY <2>1, ProbeInSlots, HeldAtSlot DEF IInv
  <2>. QED
    BY <1>1, <1>2, <2>2 DEF Bag!RefuseKnown, Bag!Answer, InsertKnown, Answer
<1>3. ASSUME InsertLimit(k) PROVE Bag!RefuseFull(k)
  <2>1. Bag!Held(k) = {}
    BY <1>3, UnmetNotStored, NothingHeld DEF InsertLimit
  <2>. QED
    BY <1>1, <1>3, <2>1 DEF Bag!RefuseFull, Bag!Answer, InsertLimit, Answer
<1>. QED
  BY <1>2, <1>3

LEMMA RefusalsAnswer ==
  ASSUME \/ Refuse
         \/ \E cap \in Capacities, lim \in Limits, s \in Seeds : RebuildFails(cap, lim, s)
  PROVE  Bag!Refuse \/ Bag!Rebuild
<1>1. Copies' = Copies
  BY CopiesKept DEF Refuse, InvalidKey, RebuildFails
<1>. QED
  BY <1>1 DEF Refuse, InvalidKey, RebuildFails, Bag!Refuse, Bag!Rebuild, Bag!Answer, Answer

LEMMA BagStep ==
  ASSUME IInv, [Next]_vars
  PROVE  [Bag!Next]_(Bag!vars)
<1>1. CASE Insert
  <2>1. PICK k \in Keys, x \in Items : TryInsert(k, x)
    BY <1>1 DEF Insert
  <2>2. Bag!Add(k, x) \/ Bag!RefuseKnown(k) \/ Bag!RefuseFull(k)
    BY <2>1, InsertAdds, InsertRefused DEF TryInsert
  <2>. QED
    BY <2>2 DEF Bag!Next
<1>2. CASE Lookup
  <2>1. PICK k \in Keys : TryFind(k)
    BY <1>2 DEF Lookup
  <2>. QED
    BY <2>1, FindAnswers DEF Bag!Next
<1>3. CASE Erase
  <2>1. PICK k \in Keys : TryErase(k)
    BY <1>3 DEF Erase
  <2>2. Bag!Erase(k)
    BY <2>1, EraseRemoves, EraseMissingAnswers DEF TryErase
  <2>. QED
    BY <2>2 DEF Bag!Next
<1>4. CASE Rebuild
  <2>1. PICK cap \in Capacities, lim \in Limits, s \in Seeds : TryRebuild(cap, lim, s)
    BY <1>4 DEF Rebuild
  <2>2. Bag!Rebuild \/ Bag!Refuse
    BY <2>1, RebuildMoves, RefusalsAnswer DEF TryRebuild
  <2>. QED
    BY <2>2 DEF Bag!Next
<1>5. CASE Refuse
  BY <1>5, RefusalsAnswer DEF Bag!Next
<1>6. CASE UNCHANGED vars
  BY <1>6, CopiesKept DEF vars, Bag!vars
<1>. QED
  BY <1>1, <1>2, <1>3, <1>4, <1>5, <1>6 DEF Next

LEMMA InitBag == Init => Bag!Init
<1>. SUFFICES ASSUME Init PROVE Bag!Init
  OBVIOUS
<1>1. \A k \in Keys, x \in Items : Where(k, x) = {}
  BY NamesAssumption DEF Init, Where
<1>2. \A a \in Keys \X Items : Copies[a] = 0
  <2>1. ASSUME NEW k \in Keys, NEW x \in Items PROVE Copies[<<k, x>>] = 0
    BY <1>1, CopiesCount, FS_EmptySet
  <2>. QED
    BY <2>1
<1>3. Copies = [a \in Keys \X Items |-> 0]
  BY <1>2, CopiesDomain
<1>. QED
  BY <1>3 DEF Init, Bag!Init, Bag!Answer, Answer

\* Whatever a client inserts, erases and rebuilds in whatever order, StringHashMapA keeps
\* a bag of associations: TryErase takes away the copy it returns, and TryRebuild none.
THEOREM TableImplementsBag == Spec => ImplementsBag
<1>1. Init => IInv /\ Bag!Init
  BY InitIInv, InitBag
<1>2. IInv /\ [Next]_vars => IInv' /\ [Bag!Next]_(Bag!vars)
  BY NextIInv, BagStep
<1>. QED
  BY <1>1, <1>2, PTL DEF Spec, ImplementsBag, Bag!Spec

=============================================================================
