---------------------------- MODULE AssetManager ----------------------------
(***************************************************************************)
(* The asset managers of SSRenderer/RenderAsset: a PooledList of pointers, *)
(* which owns the assets, and a StringHashMapA from an asset's name to its *)
(* index in that list.  Nothing is ever erased.  The managers differ in    *)
(* whether a full list grows, in what they do when the table refuses the   *)
(* name of an asset that already is in the list, and in what a failed      *)
(* lookup hands out:                                                       *)
(*                                                                         *)
(*   grows, message         : material, skeleton, skeleton animation       *)
(*   fixed, message         : geometry                                     *)
(*   fixed, break           : model, model combination                     *)
(*   fixed, break, fallback : texture                                      *)
(*   fixed, assert          : shader                                       *)
(*                                                                         *)
(* The build is the debug build: a failed assertion stops the program; so  *)
(* does the break of SS_ASSERT, unless a debugger goes on from it.         *)
(***************************************************************************)
EXTENDS Integers, FiniteSets

CONSTANTS
  Assets,          \* the objects the clients create
  Names, BadNames, \* the names the table accepts, and refuses as InvalidStrKey
  NameOf,          \* [Assets -> Names \cup BadNames]: GetAssetName()
  Kinds,           \* subset of KindsOfManagers
  PoolCapacities,  \* poolCapacity of the constructor
  MaxIndex,        \* bound: indices of the list are in 0 .. MaxIndex
  Capacities, Limits, Seeds, Hash, Empty, NoItem,  \* of the table
  NoAsset,         \* nullptr
  Garbage          \* what malloc leaves in storage that was not written

VARIABLES
  kind,      \* which manager this is
  capacity,  \* _capacity of the list
  size,      \* _size of the list
  data,      \* [0 .. capacity - 1 -> Assets \cup {Garbage}]: the storage _data
  handed,    \* what the last lookup handed out
  reported,  \* assets whose refusal was shown, by a message box or by a break
  alive,     \* assets created and not yet deleted
  status,    \* "open"; "stopped" by an assertion; "released" by ReleaseAll...
  poolCapacity, collisionLimit, seed, strPool, dataPool, ret, holed, tainted

list == <<kind, capacity, size, data>>
effects == <<handed, reported, alive, status>>
table == <<poolCapacity, collisionLimit, seed, strPool, dataPool, ret, holed, tainted>>
vars == <<list, effects, table>>

Indices == 0 .. MaxIndex

KindsOfManagers ==
  [grows : BOOLEAN, refusal : {"message", "break", "assert"}, fallback : BOOLEAN]

\* TexToReturnOnFail: magenta, white, black and the empty normal map lie at fixed indices.
Fallbacks == 0 .. 3

Table == INSTANCE StringHashMapA WITH Keys <- Names, BadKeys <- BadNames, Items <- Indices

ASSUME AssetsAssumption ==
  /\ NameOf \in [Assets -> Names \cup BadNames]
  /\ Kinds \subseteq KindsOfManagers
  /\ PoolCapacities \subseteq Nat \ {0}
  /\ MaxIndex \in Nat
  /\ NoAsset \notin Assets
  /\ Garbage \notin Assets

ASSUME TableAssumption ==
  /\ Capacities \subseteq Nat \ {0}
  /\ Limits \subseteq Nat
  /\ Hash \in [Names \X Seeds -> Nat]
  /\ Empty \notin Names
  /\ Names \cap BadNames = {}
  /\ NoItem \notin Indices

-----------------------------------------------------------------------------
Init ==
  /\ kind \in Kinds
  /\ capacity \in PoolCapacities
  /\ size = 0
  /\ data = [i \in 0 .. capacity - 1 |-> Garbage]
  /\ handed = NoAsset
  /\ reported = {}
  /\ alive = {}
  /\ status = "open"
  /\ Table!Init

\* Mutant: the list grows one element too late.
FullTooLate == size > capacity

Full == size = capacity

\* Mutant: the copy leaves out the element that filled the old storage.
CopyOneLess ==
  [i \in 0 .. 2 * capacity - 1 |-> IF i < capacity - 1 THEN data[i] ELSE Garbage]

\* Storage twice as large, into which the bytes of the old storage are copied, as many as
\* its capacity says.
IncreaseCapacityAndCopy ==
  [i \in 0 .. 2 * capacity - 1 |-> IF i < capacity THEN data[i] ELSE Garbage]

\* The storage the insertion writes to.
Storage == IF Full THEN IncreaseCapacityAndCopy ELSE data

\* Mutant: an asset whose name is known is not listed.
PushBackNewNames(a) ==
  IF \E s \in Table!Slots : strPool[s] = NameOf[a] THEN data' = Storage /\ UNCHANGED size
  ELSE data' = [Storage EXCEPT ![size] = a] /\ size' = size + 1

PushBack(a) ==
  /\ data' = [Storage EXCEPT ![size] = a]
  /\ size' = size + 1

\* Mutant: the index of the next element is registered.
RegisterNext(a) ==
  IF NameOf[a] \in Names THEN Table!TryInsert(NameOf[a], size + 1)
                         ELSE Table!InvalidKey(NameOf[a])

\* The name is registered with the index of the element just stored, GetSize() - 1.
Register(a) ==
  IF NameOf[a] \in Names THEN Table!TryInsert(NameOf[a], size)
                         ELSE Table!InvalidKey(NameOf[a])

\* Mutant: an index that exists already is not worth a message.
ReportLimitOnly(a) ==
  /\ reported' = IF ret'.result \in {"Success", "KeyAlreadyExist"} THEN reported
                                                                  ELSE reported \cup {a}
  /\ UNCHANGED status

\* The table has refused the name.  TryInsert asserts that a name is acceptable; else the
\* manager asserts, breaks, or shows a message box and goes on.
Refused(a) ==
  \/ /\ kind.refusal \in {"break", "assert"} \/ NameOf[a] \in BadNames
     /\ status' = "stopped"
     /\ UNCHANGED reported
  \/ /\ kind.refusal \in {"break", "message"} /\ NameOf[a] \notin BadNames
     /\ reported' = reported \cup {a}
     /\ UNCHANGED status

\* The asset stays in the list, where no lookup by name reaches it.
Report(a) ==
  IF ret'.result = "Success" THEN UNCHANGED <<reported, status>> ELSE Refused(a)

InsertNewAsset(a) ==
  /\ a \notin alive
  /\ ~Full \/ kind.grows
  /\ size <= MaxIndex
  /\ alive' = alive \cup {a}
  /\ capacity' = IF Full THEN 2 * capacity ELSE capacity
  /\ PushBack(a)
  /\ Register(a)
  /\ Report(a)
  /\ UNCHANGED <<kind, handed>>

\* The assertion _size < _capacity of PushBack.
InsertOverrun(a) ==
  /\ a \notin alive
  /\ Full /\ ~kind.grows
  /\ alive' = alive \cup {a}
  /\ status' = "stopped"
  /\ UNCHANGED <<list, table, handed, reported>>

\* The list's operator[], which asserts that the index lies in its storage.
Element(i) ==
  IF i < capacity THEN handed' = data[i] /\ UNCHANGED status
                  ELSE status' = "stopped" /\ UNCHANGED handed

LookUp(n) == IF n \in Names THEN Table!TryFind(n) ELSE Table!InvalidKey(n)

\* The name is looked up in the table and the index it yields in the list.
FindAssetWithName(n) ==
  /\ LookUp(n)
  /\ IF ret'.result = "Success" THEN Element(ret'.item)
                                ELSE handed' = NoAsset /\ UNCHANGED status
  /\ UNCHANGED <<list, reported, alive>>

\* The lookup of textures has a fixed index to fall back on.
FindOrFallBack(n, i) ==
  /\ kind.fallback
  /\ LookUp(n)
  /\ Element(IF ret'.result = "Success" THEN ret'.item ELSE i)
  /\ UNCHANGED <<list, reported, alive>>

\* GetAssetWithIdx, and GetEmptyAsset, which is element 0.
GetAssetWithIdx(i) ==
  /\ Element(i)
  /\ UNCHANGED <<list, table, reported, alive>>

\* The list's elements are deleted one by one; it keeps the dangling pointers.
ReleaseAllAssets ==
  /\ status' = "released"
  /\ alive' = alive \ {data[i] : i \in 0 .. size - 1}
  /\ UNCHANGED <<list, table, handed, reported>>

Next ==
  /\ status = "open"
  /\ \/ \E a \in Assets : InsertNewAsset(a) \/ InsertOverrun(a)
     \/ \E n \in Names \cup BadNames : FindAssetWithName(n)
     \/ \E n \in Names \cup BadNames, i \in Fallbacks : FindOrFallBack(n, i)
     \/ \E i \in Indices : GetAssetWithIdx(i)
     \/ ReleaseAllAssets

Spec == Init /\ [][Next]_vars

-----------------------------------------------------------------------------
TypeOK ==
  /\ kind \in Kinds
  /\ capacity \in Nat \ {0}
  /\ size \in 0 .. MaxIndex + 1
  /\ size <= capacity
  /\ data \in [0 .. capacity - 1 -> Assets \cup {Garbage}]
  /\ \A i \in 0 .. size - 1 : data[i] \in Assets
  /\ handed \in Assets \cup {NoAsset, Garbage}
  /\ reported \in SUBSET Assets
  /\ alive \in SUBSET Assets
  /\ status \in {"open", "stopped", "released"}
  /\ Table!TypeOK

\* Index i is registered under name n.
Registered(n, i) ==
  \E s \in Table!Slots : strPool[s] = n /\ dataPool[s] = i

Named(i) == NameOf[data[i]]

\* The table sends a name to the first asset of that name the list received: a
\* later asset of the same name never takes it over, and neither does one whose
\* predecessor the table refused for want of room.
FirstOfItsName ==
  \A n \in Names, i \in Indices :
    Registered(n, i) =>
      /\ i < size
      /\ Named(i) = n
      /\ \A j \in 0 .. i - 1 : Named(j) # n

\* An asset that no lookup by name can reach was reported, by a message box or by a break
\* from which a debugger went on; or else it is the last one, and has stopped the program.
NoSilentLoss ==
  \A i \in 0 .. size - 1 :
    \/ Registered(Named(i), i)
    \/ data[i] \in reported
    \/ status = "stopped" /\ i = size - 1

\* The copy into larger storage leaves each element at its index, so that the indices in
\* the table, and element 0 that GetEmptyAsset hands out, stay good.
StableIndices ==
  [][/\ size' >= size
     /\ \A i \in 0 .. size - 1 : data'[i] = data[i]]_vars

\* Every asset that was ever inserted is in the list once, whatever became of its
\* name, so that releasing the list leaves none behind and deletes none twice.
ListOwnsAssets ==
  /\ \A i, j \in 0 .. size - 1 : data[i] = data[j] => i = j
  /\ status = "open" => alive = {data[i] : i \in 0 .. size - 1}
  /\ status = "released" => alive = {}

=============================================================================
