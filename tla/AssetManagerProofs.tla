-------------------------- MODULE AssetManagerProofs --------------------------
(***************************************************************************)
(* The asset managers, for every set of assets, names, hash function and   *)
(* size of list and table: the list owns every asset once and keeps it in  *)
(* its place, a name leads to the first asset of that name, and an asset   *)
(* that no name leads to was reported.                                     *)
(*                                                                         *)
(* FirstOfItsName is not inductive.  That the table takes a name at a free *)
(* slot must mean that no asset of the list has this name, also none that  *)
(* the table refused for want of room: Claimed says that the probe path of *)
(* a listed asset's name never again has a free slot before the name.      *)
(***************************************************************************)
EXTENDS AssetManager, TLAPS

Listed == 0 .. size - 1

\* What the table holds about the list.
Entries ==
  \A s \in Table!Slots :
    \/ strPool[s] = Empty /\ dataPool[s] = NoItem
    \/ /\ strPool[s] \in Names
       /\ dataPool[s] \in Listed
       /\ Named(dataPool[s]) = strPool[s]
       /\ \A j \in 0 .. dataPool[s] - 1 : Named(j) # strPool[s]

\* An insertion of n cannot stop at a free slot.
Blocked(n) ==
  \A c \in Table!Steps : strPool[Table!Probe(n, c)] = Empty =>
    \E d \in 0 .. c - 1 : strPool[Table!Probe(n, d)] = n

Claimed == \A i \in Listed : Named(i) \in Names => Blocked(Named(i))

\* Until the program stops, every listed asset is found by its name or was reported.
AllAnswered == \A i \in Listed : Registered(Named(i), i) \/ data[i] \in reported

IInv ==
  /\ TypeOK
  /\ Entries
  /\ Claimed
  /\ NoSilentLoss
  /\ status = "open" => AllAnswered
  /\ ListOwnsAssets

\* The name of what lies at an index after the step.
NextName(i) == NameOf[data'[i]]

Shape == <<poolCapacity, collisionLimit, seed>>

-----------------------------------------------------------------------------
(***************************************************************************)
(* The table, as the managers use it.                                      *)
(***************************************************************************)

\* A probe stays in the pool.
LEMMA ProbeInSlots ==
  ASSUME Table!TypeOK, NEW n \in Names, NEW c \in Table!Steps
  PROVE  c \in Nat /\ Table!Probe(n, c) \in Table!Slots
<1>1. collisionLimit \in Nat /\ poolCapacity \in Nat /\ poolCapacity > 0
  BY TableAssumption DEF Table!TypeOK
<1>2. c \in Nat
  BY <1>1 DEF Table!Steps
<1>3. Hash[<<n, seed>>] \in Nat
  <2>1. <<n, seed>> \in Names \X Seeds
    BY DEF Table!TypeOK
  <2>. QED
    BY <2>1, TableAssumption
<1>. QED
  BY <1>1, <1>2, <1>3 DEF Table!Probe, Table!ProbeIn, Table!Slots

\* An insertion that succeeds took the first slot of the probe path that was free.
TakesSlot(a, c) ==
  LET p == Table!Probe(NameOf[a], c)
  IN  /\ p \in Table!Slots
      /\ strPool[p] = Empty
      /\ \A d \in 0 .. c - 1 : strPool[Table!Probe(NameOf[a], d)] \notin {Empty, NameOf[a]}
      /\ strPool' = [strPool EXCEPT ![p] = NameOf[a]]
      /\ dataPool' = [dataPool EXCEPT ![p] = size]

\* Registration either takes a slot, or changes nothing and leaves the name blocked.
LEMMA RegisterCases ==
  ASSUME TypeOK, NEW a \in Assets, size <= MaxIndex, Register(a)
  PROVE  /\ Table!TypeOK'
         /\ UNCHANGED Shape
         /\ \/ /\ ret'.result = "Success"
               /\ NameOf[a] \in Names
               /\ \E c \in Table!Steps : TakesSlot(a, c)
            \/ /\ ret'.result # "Success"
               /\ UNCHANGED <<strPool, dataPool>>
               /\ NameOf[a] \in Names => Blocked(NameOf[a])
<1>. DEFINE n == NameOf[a]
<1>1. /\ Table!TypeOK
      /\ size \in Indices
      /\ NoItem \notin Indices
      /\ Empty \notin Names
  BY TableAssumption, AssetsAssumption DEF TypeOK, Indices
<1>2. CASE n \notin Names
  <2>1. Table!InvalidKey(n)
    BY <1>2 DEF Register
  <2>. QED
    BY <1>1, <1>2, <2>1 DEF Table!InvalidKey, Table!Answer, Table!TypeOK, Table!Slots,
      Table!shape, Table!pools, Table!history, Shape
<1>3. CASE n \in Names
  <2>1. Table!TryInsert(n, size)
    BY <1>3 DEF Register
  <2>2. ASSUME NEW c \in Table!Steps, Table!InsertAt(n, size, c)
        PROVE  /\ Table!TypeOK' /\ UNCHANGED Shape
               /\ ret'.result = "Success" /\ TakesSlot(a, c)
    <3>1. Table!Probe(n, c) \in Table!Slots
      BY <1>1, <1>3, ProbeInSlots
    <3>2. strPool' \in [Table!Slots -> Names \cup {Empty}]
      BY <1>1, <1>3, <2>2, <3>1 DEF Table!InsertAt, Table!TypeOK
    <3>3. dataPool' \in [Table!Slots -> Indices \cup {NoItem}]
      BY <1>1, <2>2, <3>1 DEF Table!InsertAt, Table!TypeOK
    <3>4. Table!TypeOK'
      BY <1>1, <2>2, <3>2, <3>3 DEF Table!InsertAt, Table!TypeOK, Table!Answer, Table!Slots,
        Table!shape
    <3>. QED
      BY <2>2, <3>1, <3>4 DEF Table!InsertAt, Table!InsertStopsAt, Table!Answer, Table!shape,
        Shape, TakesSlot
  <2>3. CASE Table!InsertKnown(n)
    <3>1. PICK c \in Table!Steps : Table!InsertStopsAt(n, c) /\ strPool[Table!Probe(n, c)] = n
      BY <2>3 DEF Table!InsertKnown
    <3>2. ASSUME NEW e \in Table!Steps, strPool[Table!Probe(n, e)] = Empty
          PROVE  \E d \in 0 .. e - 1 : strPool[Table!Probe(n, d)] = n
      <4>1. c \in Nat /\ e \in Nat
        BY <1>1, <1>3, ProbeInSlots
      <4>2. c # e
        BY <1>1, <1>3, <3>1, <3>2
      <4>3. ~(e < c)
        BY <3>1, <3>2, <4>1 DEF Table!InsertStopsAt
      <4>. QED
        BY <3>1, <4>1, <4>2, <4>3
    <3>. QED
      BY <1>1, <2>3, <3>2 DEF Table!InsertKnown, Table!Answer, Table!TypeOK, Table!Slots,
        Table!shape, Table!pools, Table!history, Shape, Blocked
  <2>4. CASE Table!InsertLimit(n)
    BY <1>1, <2>4 DEF Table!InsertLimit, Table!Answer, Table!TypeOK, Table!Slots,
      Table!shape, Table!pools, Table!history, Shape, Blocked
  <2>. QED
    BY <1>3, <2>1, <2>2, <2>3, <2>4 DEF Table!TryInsert
<1>. QED
  BY <1>2, <1>3

\* The slots and paths of the table depend on its shape only.
LEMMA SameShape ==
  ASSUME UNCHANGED Shape
  PROVE  /\ Table!Slots' = Table!Slots
         /\ Table!Steps' = Table!Steps
         /\ \A n, c : Table!Probe(n, c)' = Table!Probe(n, c)
BY DEF Shape, Table!Slots, Table!Steps, Table!Probe, Table!ProbeIn

-----------------------------------------------------------------------------
(***************************************************************************)
(* The invariant.                                                          *)
(***************************************************************************)

LEMMA InitIInv == Init => IInv
<1>. SUFFICES ASSUME Init PROVE IInv
  OBVIOUS
<1>1. /\ capacity \in Nat \ {0} /\ size = 0 /\ MaxIndex \in Nat
      /\ Listed = {} /\ 0 .. size - 1 = {}
      /\ data \in [0 .. capacity - 1 -> Assets \cup {Garbage}]
  BY AssetsAssumption DEF Init, Listed
<1>2. Table!TypeOK
  BY DEF Init, Table!Init, Table!TypeOK, Table!Answer, Table!Slots
<1>3. TypeOK
  BY <1>1, <1>2 DEF Init, TypeOK
<1>4. Entries
  BY DEF Init, Table!Init, Table!Slots, Entries
<1>. QED
  BY <1>1, <1>3, <1>4 DEF Init, IInv, Claimed, NoSilentLoss, AllAnswered, ListOwnsAssets

LEMMA IndexWithin ==
  ASSUME NEW n \in Nat, NEW c \in Nat, n < c
  PROVE  \A i \in 0 .. n - 1 : i \in 0 .. c - 1 /\ i # n /\ i \in Nat /\ i < n
OBVIOUS

\* What an insertion does to the list, the owned assets and the user.
LEMMA InsertList ==
  ASSUME IInv, status = "open", NEW a \in Assets, InsertNewAsset(a)
  PROVE  /\ capacity' \in Nat \ {0} /\ size' = size + 1 /\ size' <= capacity'
         /\ size \in 0 .. MaxIndex
         /\ data' \in [0 .. capacity' - 1 -> Assets \cup {Garbage}]
         /\ \A i \in 0 .. size' - 1 : data'[i] \in Assets
         /\ data'[size] = a
         /\ \A i \in Listed : i \in Nat /\ i < size /\ data'[i] = data[i] /\ data[i] # a
<1>1. /\ capacity \in Nat /\ capacity > 0 /\ size \in Nat /\ size <= capacity
      /\ MaxIndex \in Nat /\ size <= MaxIndex
      /\ data \in [0 .. capacity - 1 -> Assets \cup {Garbage}]
      /\ \A i \in 0 .. size - 1 : data[i] \in Assets
  BY AssetsAssumption DEF IInv, TypeOK, InsertNewAsset
<1>2. capacity' = IF size = capacity THEN 2 * capacity ELSE capacity
  BY DEF InsertNewAsset, Full
<1>3. /\ capacity' \in Nat /\ size < capacity' /\ size \in 0 .. capacity' - 1
      /\ capacity' \in Nat \ {0}
  BY <1>1, <1>2
<1>4. Storage \in [0 .. capacity' - 1 -> Assets \cup {Garbage}]
  BY <1>1, <1>2 DEF Storage, Full, IncreaseCapacityAndCopy
<1>5. \A i \in 0 .. size - 1 : Storage[i] = data[i]
  BY <1>1, <1>2 DEF Storage, Full, IncreaseCapacityAndCopy
<1>6. data' = [Storage EXCEPT ![size] = a] /\ size' = size + 1
  BY DEF InsertNewAsset, PushBack
<1>7. /\ data' \in [0 .. capacity' - 1 -> Assets \cup {Garbage}]
      /\ data'[size] = a
      /\ \A i \in 0 .. capacity' - 1 : i # size => data'[i] = Storage[i]
  <2>. DEFINE D == 0 .. capacity' - 1
  <2>1. Storage \in [D -> Assets \cup {Garbage}] /\ size \in D
    BY <1>3, <1>4
  <2>. HIDE DEF D
  <2>2. /\ data' \in [D -> Assets \cup {Garbage}]
        /\ data'[size] = a
        /\ \A i \in D : i # size => data'[i] = Storage[i]
    BY <1>6, <2>1
  <2>. QED
    BY <2>2 DEF D
<1>8. ASSUME NEW i \in 0 .. size - 1
      PROVE  i \in Nat /\ i < size /\ data'[i] = data[i] /\ data[i] \in Assets
  <2>1. i \in 0 .. capacity' - 1 /\ i # size /\ i \in Nat /\ i < size
    <3>1. size \in Nat /\ capacity' \in Nat /\ size < capacity'
      BY <1>1, <1>3
    <3>. QED
      BY <3>1, IndexWithin
  <2>2. data'[i] = Storage[i] /\ Storage[i] = data[i]
    BY <1>5, <1>7, <2>1
  <2>. QED
    BY <1>1, <2>1, <2>2
<1>9. \A i \in Listed : data[i] # a
  BY DEF IInv, ListOwnsAssets, InsertNewAsset, Listed
<1>10. 0 .. size' - 1 = Listed \cup {size}
  BY <1>1, <1>6 DEF Listed
<1>11. \A i \in 0 .. size' - 1 : data'[i] \in Assets
  BY <1>7, <1>8, <1>10 DEF Listed
<1>12. size' <= capacity' /\ size \in 0 .. MaxIndex
  BY <1>1, <1>3, <1>6
<1>. QED
  BY <1>3, <1>6, <1>7, <1>8, <1>9, <1>11, <1>12 DEF Listed

LEMMA InsertType ==
  ASSUME IInv, status = "open", NEW a \in Assets, InsertNewAsset(a)
  PROVE  TypeOK'
<1>1. Table!TypeOK'
  BY RegisterCases DEF IInv, InsertNewAsset
<1>2. size' \in 0 .. MaxIndex + 1
  BY InsertList, AssetsAssumption
<1>3. /\ kind' = kind /\ handed' = handed /\ alive' = alive \cup {a}
  BY DEF InsertNewAsset
<1>4. reported' \in SUBSET Assets /\ status' \in {"open", "stopped", "released"}
  BY DEF InsertNewAsset, Report, Refused, IInv, TypeOK
<1>. QED
  BY <1>1, <1>2, <1>3, <1>4, InsertList DEF IInv, TypeOK

LEMMA InsertOwns ==
  ASSUME IInv, status = "open", NEW a \in Assets, InsertNewAsset(a)
  PROVE  ListOwnsAssets'
<1>1. size \in Nat /\ size' = size + 1 /\ 0 .. size' - 1 = Listed \cup {size}
  BY InsertList, AssetsAssumption DEF IInv, TypeOK, Listed
<1>2. \A i, j \in 0 .. size' - 1 : data'[i] = data'[j] => i = j
  <2>1. \A i, j \in Listed : data[i] = data[j] => i = j
    BY DEF IInv, ListOwnsAssets, Listed
  <2>2. \A i \in Listed : data'[i] = data[i] /\ data[i] # a
    BY InsertList
  <2>3. data'[size] = a
    BY InsertList
  <2>. QED
    BY <1>1, <2>1, <2>2, <2>3
<1>3. alive' = {data'[i] : i \in 0 .. size' - 1}
  <2>1. alive = {data[i] : i \in Listed} /\ alive' = alive \cup {a}
    BY DEF IInv, ListOwnsAssets, InsertNewAsset, Listed
  <2>2. {data'[i] : i \in Listed} = {data[i] : i \in Listed}
    BY InsertList
  <2>3. {data'[i] : i \in 0 .. size' - 1} = {data'[i] : i \in Listed} \cup {data'[size]}
    BY <1>1
  <2>. QED
    BY <2>1, <2>2, <2>3, InsertList
<1>4. status' # "released"
  BY DEF InsertNewAsset, Report, Refused
<1>. QED
  BY <1>2, <1>3, <1>4 DEF ListOwnsAssets

\* The names of the listed assets stay, and the new one's is NameOf[a].
LEMMA InsertNames ==
  ASSUME IInv, status = "open", NEW a \in Assets, InsertNewAsset(a)
  PROVE  /\ size \in Nat /\ Listed' = Listed \cup {size}
         /\ NextName(size) = NameOf[a]
         /\ \A i \in Listed : i \in Nat /\ i < size /\ NextName(i) = Named(i)
         /\ \A i \in Listed : 0 .. i - 1 \subseteq Listed
<1>1. size \in Nat /\ size' = size + 1
  BY InsertList, AssetsAssumption DEF IInv, TypeOK
<1>. QED
  BY <1>1, InsertList DEF Named, NextName, Listed

LEMMA InsertEntries ==
  ASSUME IInv, status = "open", NEW a \in Assets, InsertNewAsset(a)
  PROVE  Entries'
<1>. DEFINE n == NameOf[a]
<1>1. /\ Table!Slots' = Table!Slots
      /\ \/ n \in Names /\ \E c \in Table!Steps : TakesSlot(a, c)
         \/ UNCHANGED <<strPool, dataPool>>
  BY RegisterCases, SameShape DEF IInv, InsertNewAsset
<1>2. ASSUME NEW s \in Table!Slots, strPool'[s] = strPool[s], dataPool'[s] = dataPool[s]
      PROVE  \/ strPool'[s] = Empty /\ dataPool'[s] = NoItem
             \/ /\ strPool'[s] \in Names
                /\ dataPool'[s] \in Listed'
                /\ NextName(dataPool'[s]) = strPool'[s]
                /\ \A j \in 0 .. dataPool'[s] - 1 : NextName(j) # strPool'[s]
  <2>1. CASE strPool[s] = Empty /\ dataPool[s] = NoItem
    BY <1>2, <2>1
  <2>2. CASE /\ strPool[s] \in Names /\ dataPool[s] \in Listed
             /\ Named(dataPool[s]) = strPool[s]
             /\ \A j \in 0 .. dataPool[s] - 1 : Named(j) # strPool[s]
    BY <1>2, <2>2, InsertNames
  <2>. QED
    BY <2>1, <2>2 DEF IInv, Entries
<1>3. CASE UNCHANGED <<strPool, dataPool>>
  BY <1>1, <1>2, <1>3 DEF Entries, Named, NextName
<1>4. ASSUME n \in Names, NEW c \in Table!Steps, TakesSlot(a, c)
      PROVE  Entries'
  <2>. DEFINE p == Table!Probe(n, c)
  <2>1. /\ p \in Table!Slots /\ strPool[p] = Empty
        /\ strPool'[p] = n /\ dataPool'[p] = size
        /\ \A s \in Table!Slots : s # p => strPool'[s] = strPool[s] /\ dataPool'[s] = dataPool[s]
    BY <1>4 DEF TakesSlot, IInv, TypeOK, Table!TypeOK
  <2>2. \A j \in Listed : Named(j) # n
    <3>. SUFFICES ASSUME NEW j \in Listed, Named(j) = n PROVE FALSE
      OBVIOUS
    <3>1. \E d \in 0 .. c - 1 : strPool[Table!Probe(n, d)] = n
      BY <1>4, <2>1 DEF IInv, Claimed, Blocked
    <3>. QED
      BY <1>4, <3>1 DEF TakesSlot
  <2>3. \A j \in 0 .. size - 1 : NextName(j) # n
    BY <2>2, InsertNames DEF Listed
  <2>4. \A s \in Table!Slots :
          \/ strPool'[s] = Empty /\ dataPool'[s] = NoItem
          \/ /\ strPool'[s] \in Names
             /\ dataPool'[s] \in Listed'
             /\ NextName(dataPool'[s]) = strPool'[s]
             /\ \A j \in 0 .. dataPool'[s] - 1 : NextName(j) # strPool'[s]
    <3>. SUFFICES ASSUME NEW s \in Table!Slots
                  PROVE  \/ strPool'[s] = Empty /\ dataPool'[s] = NoItem
                         \/ /\ strPool'[s] \in Names
                            /\ dataPool'[s] \in Listed'
                            /\ NextName(dataPool'[s]) = strPool'[s]
                            /\ \A j \in 0 .. dataPool'[s] - 1 : NextName(j) # strPool'[s]
      OBVIOUS
    <3>1. CASE s = p
      <4>1. NextName(dataPool'[s]) = n
        BY <2>1, <3>1, InsertNames
      <4>. QED
        BY <1>4, <2>1, <2>3, <3>1, <4>1, InsertNames
    <3>2. CASE s # p
      BY <1>2, <2>1, <3>2
    <3>. QED
      BY <3>1, <3>2
  <2>. QED
    BY <1>1, <2>4 DEF Entries, Named, NextName
<1>. QED
  BY <1>1, <1>3, <1>4

LEMMA InsertClaimed ==
  ASSUME IInv, status = "open", NEW a \in Assets, InsertNewAsset(a)
  PROVE  Claimed'
<1>. DEFINE n == NameOf[a]
            BlockedNext(m) ==
              \A c \in Table!Steps : strPool'[Table!Probe(m, c)] = Empty =>
                \E d \in 0 .. c - 1 : strPool'[Table!Probe(m, d)] = m
<1>1. /\ Table!Slots' = Table!Slots /\ Table!Steps' = Table!Steps
      /\ \A m, c : Table!Probe(m, c)' = Table!Probe(m, c)
      /\ \/ n \in Names /\ \E c \in Table!Steps : TakesSlot(a, c)
         \/ /\ UNCHANGED <<strPool, dataPool>>
            /\ n \in Names => Blocked(n)
  BY RegisterCases, SameShape DEF IInv, InsertNewAsset
<1>2. Empty \notin Names /\ Table!TypeOK
  BY TableAssumption DEF IInv, TypeOK
<1>3. (\A m \in {Named(i) : i \in Listed} \cup {n} : m \in Names => BlockedNext(m)) => Claimed'
  <2>. SUFFICES ASSUME \A m \in {Named(i) : i \in Listed} \cup {n} : m \in Names => BlockedNext(m),
                       NEW i \in Listed', NextName(i) \in Names
                PROVE  Blocked(Named(i))'
    BY DEF Claimed, Named, NextName
  <2>1. NextName(i) \in {Named(j) : j \in Listed} \cup {n}
    BY InsertNames
  <2>2. BlockedNext(NextName(i))
    BY <2>1
  <2>. QED
    BY <1>1, <2>2 DEF Blocked, Named, NextName
<1>4. CASE UNCHANGED <<strPool, dataPool>> /\ (n \in Names => Blocked(n))
  BY <1>3, <1>4 DEF IInv, Claimed, Blocked
<1>5. ASSUME n \in Names, NEW c \in Table!Steps, TakesSlot(a, c)
      PROVE  Claimed'
  <2>. DEFINE p == Table!Probe(n, c)
  <2>1. /\ p \in Table!Slots /\ strPool[p] = Empty
        /\ strPool'[p] = n
        /\ \A s \in Table!Slots : s # p => strPool'[s] = strPool[s]
        /\ \A d \in 0 .. c - 1 : strPool[Table!Probe(n, d)] \notin {Empty, n}
    BY <1>5 DEF TakesSlot, IInv, TypeOK, Table!TypeOK
  <2>2. ASSUME NEW i \in Listed, Named(i) \in Names
        PROVE  BlockedNext(Named(i))
    <3>. SUFFICES ASSUME NEW e \in Table!Steps, strPool'[Table!Probe(Named(i), e)] = Empty
                  PROVE  \E d \in 0 .. e - 1 : strPool'[Table!Probe(Named(i), d)] = Named(i)
      OBVIOUS
    <3>1. e \in Nat /\ Table!Probe(Named(i), e) \in Table!Slots
      BY <1>2, <2>2, ProbeInSlots
    <3>2. strPool[Table!Probe(Named(i), e)] = Empty
      BY <1>2, <1>5, <2>1, <3>1
    <3>3. PICK d \in 0 .. e - 1 : strPool[Table!Probe(Named(i), d)] = Named(i)
      BY <2>2, <3>2 DEF IInv, Claimed, Blocked
    <3>4. d \in Table!Steps
      BY <1>2, <3>1, TableAssumption DEF Table!Steps, Table!TypeOK
    <3>5. Table!Probe(Named(i), d) \in Table!Slots
      BY <1>2, <2>2, <3>4, ProbeInSlots
    <3>. QED
      BY <1>2, <2>1, <2>2, <3>3, <3>5
  <2>3. BlockedNext(n)
    <3>. SUFFICES ASSUME NEW e \in Table!Steps, strPool'[Table!Probe(n, e)] = Empty
                  PROVE  \E d \in 0 .. e - 1 : strPool'[Table!Probe(n, d)] = n
      OBVIOUS
    <3>1. /\ e \in Nat /\ Table!Probe(n, e) \in Table!Slots
          /\ c \in Nat
      BY <1>2, <1>5, ProbeInSlots
    <3>2. Table!Probe(n, e) # p
      BY <1>2, <1>5, <2>1
    <3>3. strPool[Table!Probe(n, e)] = Empty
      BY <2>1, <3>1, <3>2
    <3>4. ~(e < c)
      BY <2>1, <3>1, <3>3
    <3>5. e # c
      BY <3>2
    <3>. QED
      BY <2>1, <3>1, <3>4, <3>5
  <2>. QED
    BY <1>3, <2>2, <2>3
<1>. QED
  BY <1>1, <1>4, <1>5

LEMMA InsertReported ==
  ASSUME IInv, status = "open", NEW a \in Assets, InsertNewAsset(a)
  PROVE  NoSilentLoss' /\ (status' = "open" => AllAnswered')
<1>. DEFINE n == NameOf[a]
<1>1. /\ Table!Slots' = Table!Slots
      /\ \/ /\ ret'.result = "Success"
            /\ n \in Names /\ \E c \in Table!Steps : TakesSlot(a, c)
         \/ /\ ret'.result # "Success"
            /\ UNCHANGED <<strPool, dataPool>>
  BY RegisterCases, SameShape DEF IInv, InsertNewAsset
<1>2. Report(a)
  BY DEF InsertNewAsset
<1>3. \A s \in Table!Slots : strPool[s] # Empty \/ dataPool[s] = NoItem
  BY TableAssumption DEF IInv, Entries
<1>4. NoItem \notin Indices /\ Listed \subseteq Indices
  BY TableAssumption, AssetsAssumption DEF Listed, Indices, IInv, TypeOK
<1>5. \A s \in Table!Slots : dataPool[s] # NoItem =>
        strPool'[s] = strPool[s] /\ dataPool'[s] = dataPool[s]
  BY <1>1, <1>3 DEF TakesSlot, IInv, TypeOK, Table!TypeOK
<1>. DEFINE RegisteredNext(i) ==
              \E s \in Table!Slots : strPool'[s] = NextName(i) /\ dataPool'[s] = i
<1>6. ASSUME NEW i \in Listed
      PROVE  RegisteredNext(i) \/ data'[i] \in reported'
  <2>1. CASE Registered(Named(i), i)
    <3>1. PICK s \in Table!Slots : strPool[s] = Named(i) /\ dataPool[s] = i
      BY <2>1 DEF Registered
    <3>2. strPool'[s] = NextName(i) /\ dataPool'[s] = i
      BY <1>4, <1>5, <3>1, InsertNames
    <3>. QED
      BY <3>2
  <2>2. CASE data[i] \in reported
    BY <1>2, <2>2, InsertList DEF Report, Refused
  <2>. QED
    BY <2>1, <2>2 DEF IInv, AllAnswered
<1>7. RegisteredNext(size) \/ data'[size] \in reported' \/ status' = "stopped"
  <2>1. CASE ret'.result = "Success"
    <3>1. PICK c \in Table!Steps : TakesSlot(a, c)
      BY <1>1, <2>1
    <3>2. /\ Table!Probe(n, c) \in Table!Slots
          /\ strPool'[Table!Probe(n, c)] = n /\ dataPool'[Table!Probe(n, c)] = size
      BY <3>1 DEF TakesSlot, IInv, TypeOK, Table!TypeOK
    <3>. QED
      BY <3>2, InsertNames
  <2>2. CASE ret'.result # "Success"
    BY <1>2, <2>2, InsertList DEF Report, Refused
  <2>. QED
    BY <2>1, <2>2
<1>8. 0 .. size' - 1 = Listed \cup {size}
  BY InsertNames DEF Listed
<1>9. \A i \in 0 .. size' - 1 : \/ RegisteredNext(i)
                                \/ data'[i] \in reported'
                                \/ status' = "stopped" /\ i = size
  BY <1>6, <1>7, <1>8
<1>10. size = size' - 1
  BY InsertList, InsertNames
<1>11. \A i : RegisteredNext(i) <=> Registered(Named(i), i)'
  BY <1>1 DEF Registered, Named, NextName
<1>12. NoSilentLoss'
  BY <1>9, <1>10, <1>11 DEF NoSilentLoss
<1>13. status' = "open" => AllAnswered'
  BY <1>9, <1>11 DEF AllAnswered, Listed
<1>. QED
  BY <1>12, <1>13

LEMMA InsertIInv ==
  ASSUME IInv, status = "open", NEW a \in Assets, InsertNewAsset(a)
  PROVE  IInv'
BY InsertType, InsertOwns, InsertEntries, InsertClaimed, InsertReported DEF IInv

\* A step that leaves the list, the table's pools and the messages alone.
LEMMA OtherIInv ==
  ASSUME IInv, status = "open", TypeOK', ListOwnsAssets',
         UNCHANGED <<list, Shape, strPool, dataPool, reported>>
  PROVE  IInv'
<1>1. /\ Listed' = Listed /\ \A i : Named(i)' = Named(i)
      /\ UNCHANGED <<strPool, dataPool, reported, data, size>>
  BY DEF list, Listed, Named
<1>2. /\ Table!Slots' = Table!Slots /\ Table!Steps' = Table!Steps
      /\ \A n, c : Table!Probe(n, c)' = Table!Probe(n, c)
  BY SameShape
<1>3. Entries'
  BY <1>1, <1>2 DEF IInv, Entries, Named
<1>4. \A n : Blocked(n)' <=> Blocked(n)
  BY <1>1, <1>2 DEF Blocked
<1>5. Claimed'
  BY <1>1, <1>4 DEF IInv, Claimed, Named, Blocked
<1>6. NoSilentLoss' /\ AllAnswered'
  BY <1>1, <1>2 DEF IInv, NoSilentLoss, AllAnswered, Listed, Registered, Named
<1>. QED
  BY <1>3, <1>5, <1>6 DEF IInv

LEMMA OverrunIInv ==
  ASSUME IInv, status = "open", NEW a \in Assets, InsertOverrun(a)
  PROVE  IInv'
<1>1. TypeOK'
  BY DEF InsertOverrun, IInv, TypeOK, list, table, Table!TypeOK, Table!Slots
<1>2. ListOwnsAssets'
  BY DEF InsertOverrun, IInv, ListOwnsAssets, list
<1>. QED
  BY <1>1, <1>2, OtherIInv DEF InsertOverrun, list, table, Shape

LEMMA ReleaseIInv ==
  ASSUME IInv, status = "open", ReleaseAllAssets
  PROVE  IInv'
<1>1. TypeOK'
  BY DEF ReleaseAllAssets, IInv, TypeOK, list, table, Table!TypeOK, Table!Slots
<1>2. ListOwnsAssets'
  BY DEF ReleaseAllAssets, IInv, ListOwnsAssets, list
<1>. QED
  BY <1>1, <1>2, OtherIInv DEF ReleaseAllAssets, list, table, Shape

LEMMA ElementHanded ==
  ASSUME IInv, NEW i \in Nat, Element(i)
  PROVE  /\ handed' \in Assets \cup {NoAsset, Garbage}
         /\ status' \in {status, "stopped"}
BY DEF Element, IInv, TypeOK

\* A step that hands out something of the list, or stops.
LEMMA HandingIInv ==
  ASSUME IInv, status = "open", Table!TypeOK',
         handed' \in Assets \cup {NoAsset, Garbage}, status' \in {status, "stopped"},
         UNCHANGED <<list, Shape, strPool, dataPool, reported, alive>>
  PROVE  IInv'
<1>1. TypeOK'
  BY DEF IInv, TypeOK, list
<1>2. ListOwnsAssets'
  BY DEF IInv, ListOwnsAssets, list
<1>. QED
  BY <1>1, <1>2, OtherIInv

LEMMA GetIInv ==
  ASSUME IInv, status = "open", NEW i \in Indices, GetAssetWithIdx(i)
  PROVE  IInv'
<1>1. i \in Nat /\ Element(i) /\ UNCHANGED <<list, table, reported, alive>>
  BY AssetsAssumption DEF Indices, GetAssetWithIdx
<1>2. Table!TypeOK'
  BY <1>1 DEF IInv, TypeOK, table, Table!TypeOK, Table!Slots
<1>. QED
  BY <1>1, <1>2, ElementHanded, HandingIInv DEF table, Shape

\* What the table finds for a name is the index of a listed asset.
LEMMA FoundListed ==
  ASSUME IInv, NEW n \in Names, NEW c \in Table!Steps, Table!FoundAt(n, c)
  PROVE  dataPool[Table!Probe(n, c)] \in Listed
BY ProbeInSlots, TableAssumption DEF IInv, TypeOK, Entries, Table!FoundAt

LEMMA LooksUp ==
  ASSUME IInv, NEW n \in Names \cup BadNames, LookUp(n)
  PROVE  /\ UNCHANGED <<Shape, strPool, dataPool>>
         /\ ret'.result = "Success" => ret'.item \in Nat
         /\ Table!TypeOK'
<1>1. /\ UNCHANGED <<Shape, strPool, dataPool, holed, tainted>>
      /\ \/ ret'.result = "Success" /\ ret'.item \in Listed
         \/ ret'.result # "Success"
      /\ ret' \in [result : {"Success", "ResultNotFound", "InvalidStrKey"},
                   item : Indices \cup {NoItem}]
  <2>1. CASE n \in Names
    <3>1. Listed \subseteq Indices
      BY AssetsAssumption DEF Listed, Indices, IInv, TypeOK
    <3>2. Table!TryFind(n)
      BY <2>1 DEF LookUp
    <3>3. ASSUME NEW c \in Table!Steps, Table!FoundAt(n, c),
                 ret' = Table!Answer("Success", dataPool[Table!Probe(n, c)])
          PROVE  /\ ret'.result = "Success" /\ ret'.item \in Listed
                 /\ ret' \in [result : {"Success"}, item : Indices]
      BY <2>1, <3>1, <3>3, FoundListed DEF Table!Answer
    <3>. QED
      BY <3>2, <3>3 DEF Table!TryFind, Table!Answer, Table!shape, Table!pools,
        Table!history, Shape
  <2>2. CASE n \notin Names
    BY <2>2 DEF LookUp, Table!InvalidKey, Table!Answer, Table!shape, Table!pools,
      Table!history, Shape
  <2>. QED
    BY <2>1, <2>2
<1>2. Table!TypeOK'
  BY <1>1 DEF IInv, TypeOK, Table!TypeOK, Table!Slots, Shape
<1>. QED
  BY <1>1, <1>2 DEF Listed

LEMMA FindIInv ==
  ASSUME IInv, status = "open", NEW n \in Names \cup BadNames, FindAssetWithName(n)
  PROVE  IInv'
<1>1. /\ LookUp(n) /\ UNCHANGED <<list, reported, alive>>
      /\ IF ret'.result = "Success" THEN Element(ret'.item)
                                    ELSE handed' = NoAsset /\ UNCHANGED status
  BY DEF FindAssetWithName
<1>2. /\ handed' \in Assets \cup {NoAsset, Garbage}
      /\ status' \in {status, "stopped"}
  BY <1>1, LooksUp, ElementHanded
<1>. QED
  BY <1>1, <1>2, LooksUp, HandingIInv

LEMMA FallBackIInv ==
  ASSUME IInv, status = "open", NEW n \in Names \cup BadNames, NEW i \in Fallbacks,
         FindOrFallBack(n, i)
  PROVE  IInv'
<1>1. /\ LookUp(n) /\ UNCHANGED <<list, reported, alive>>
      /\ Element(IF ret'.result = "Success" THEN ret'.item ELSE i)
  BY DEF FindOrFallBack
<1>2. (IF ret'.result = "Success" THEN ret'.item ELSE i) \in Nat
  BY <1>1, LooksUp DEF Fallbacks
<1>3. /\ handed' \in Assets \cup {NoAsset, Garbage}
      /\ status' \in {status, "stopped"}
  BY <1>1, <1>2, ElementHanded
<1>. QED
  BY <1>1, <1>3, LooksUp, HandingIInv

LEMMA NextIInv ==
  ASSUME IInv, [Next]_vars
  PROVE  IInv'
<1>1. CASE UNCHANGED vars
  BY <1>1 DEF vars, list, effects, table, IInv, TypeOK, Table!TypeOK, Table!Slots, Entries,
    Listed, Named, Claimed, Blocked, Table!Steps, Table!Probe, Table!ProbeIn, NoSilentLoss,
    AllAnswered, Registered, ListOwnsAssets
<1>2. CASE Next
  BY <1>2, InsertIInv, OverrunIInv, FindIInv, FallBackIInv, GetIInv, ReleaseIInv DEF Next
<1>. QED
  BY <1>1, <1>2

\* The invariant holds of every behaviour of every manager.
THEOREM Inductive == Spec => []IInv
<1>1. IInv /\ [Next]_vars => IInv'
  BY NextIInv
<1>. QED
  BY <1>1, InitIInv, PTL DEF Spec

-----------------------------------------------------------------------------
(***************************************************************************)
(* The properties the run checks.                                          *)
(***************************************************************************)

\* The list stays within its storage, and every index that the table or a lookup uses
\* names one of its elements.
THEOREM TypeCorrect == Spec => []TypeOK
<1>1. IInv => TypeOK
  BY DEF IInv
<1>. QED
  BY <1>1, Inductive, PTL

\* FindAssetWithName leads to the first asset of the name, for every hash function and
\* limit of the table.
THEOREM NamesLeadToFirst == Spec => []FirstOfItsName
<1>1. IInv => FirstOfItsName
  <2>. SUFFICES ASSUME IInv, NEW n \in Names, NEW i \in Indices, Registered(n, i)
                PROVE  i < size /\ Named(i) = n /\ \A j \in 0 .. i - 1 : Named(j) # n
    BY DEF FirstOfItsName
  <2>1. PICK s \in Table!Slots : strPool[s] = n /\ dataPool[s] = i
    BY DEF Registered
  <2>2. size \in Nat
    BY AssetsAssumption DEF IInv, TypeOK
  <2>. QED
    BY <2>1, <2>2, TableAssumption DEF IInv, Entries, Listed
<1>. QED
  BY <1>1, Inductive, PTL

\* An asset that no lookup by name reaches was reported, or it is the last of the list and
\* has stopped the program.
THEOREM NothingLostInSilence == Spec => []NoSilentLoss
<1>1. IInv => NoSilentLoss
  BY DEF IInv
<1>. QED
  BY <1>1, Inductive, PTL

\* The list owns every asset exactly once, so that releasing it leaves none behind and
\* deletes none twice.
THEOREM AssetsOwnedOnce == Spec => []ListOwnsAssets
<1>1. IInv => ListOwnsAssets
  BY DEF IInv
<1>. QED
  BY <1>1, Inductive, PTL

\* What lies at an index of the list never changes: IncreaseCapacityAndCopy carries over
\* every element that was written, because it copies as many as the old capacity.
THEOREM IndicesStay == Spec => StableIndices
<1>1. IInv /\ [Next]_vars =>
        [size' >= size /\ \A i \in 0 .. size - 1 : data'[i] = data[i]]_vars
  <2>. SUFFICES ASSUME IInv, Next
                PROVE  size' >= size /\ \A i \in 0 .. size - 1 : data'[i] = data[i]
    OBVIOUS
  <2>1. size \in Nat
    BY AssetsAssumption DEF IInv, TypeOK
  <2>2. ASSUME NEW a \in Assets, status = "open", InsertNewAsset(a)
        PROVE  size' >= size /\ \A i \in 0 .. size - 1 : data'[i] = data[i]
    BY <2>1, <2>2, InsertList DEF Listed
  <2>3. CASE UNCHANGED <<size, data>>
    BY <2>1, <2>3
  <2>. QED
    BY <2>2, <2>3 DEF Next, InsertOverrun, FindAssetWithName, FindOrFallBack,
      GetAssetWithIdx, ReleaseAllAssets, list
<1>. QED
  BY <1>1, Inductive, PTL DEF Spec, StableIndices

===============================================================================
