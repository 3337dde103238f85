--------------------------- MODULE StringHashMapA ---------------------------
(***************************************************************************)
(* SS::StringHashMapA<T>: the open-addressing table every asset manager    *)
(* keeps its name -> index association in.  A key is looked for in at most *)
(* _collisionLimit consecutive slots, starting at hash % _poolCapacity and *)
(* wrapping round the pool.                                                *)
(*                                                                         *)
(* The program is single-threaded, so each member function is one step.    *)
(* _strPool holds the keys (Empty stands for a string of length 0) and     *)
(* _dataPool the items; an item outlives TryErase, which clears the key    *)
(* alone.  holed and tainted are history variables, read by the properties *)
(* and by the client discipline of DisciplinedSpec, never by an operation. *)
(***************************************************************************)
EXTENDS Integers, FiniteSets

CONSTANTS
  Keys,        \* strings of a length in 1 .. STR_LEN_MAX - 1
  BadKeys,     \* the others: "" and the strings that are too long
  Items,       \* values of T
  Capacities,  \* values of _poolCapacity the client asks for
  Limits,      \* values of _collisionLimit the client asks for
  Seeds,       \* values of _seed the client asks for
  Hash,        \* [Keys \X Seeds -> Nat]: CityHash64WithSeed
  Empty,       \* the empty string in a slot of _strPool
  NoItem       \* storage in which no T was ever constructed

ASSUME SizesAssumption ==
  /\ Capacities \subseteq Nat \ {0}
  /\ Limits \subseteq Nat
  /\ Hash \in [Keys \X Seeds -> Nat]

ASSUME NamesAssumption ==
  /\ Empty \notin Keys
  /\ Keys \cap BadKeys = {}
  /\ NoItem \notin Items

VARIABLES
  poolCapacity, collisionLimit, seed,  \* _poolCapacity, _collisionLimit, _seed
  strPool,   \* [0 .. poolCapacity - 1 -> Keys \cup {Empty}]
  dataPool,  \* [0 .. poolCapacity - 1 -> Items \cup {NoItem}]
  ret,       \* what the last call returned: its result, and the item it handed out
  holed,     \* a key was erased since the table was last built
  tainted    \* an insertion succeeded while the table was holed

shape == <<poolCapacity, collisionLimit, seed>>
pools == <<strPool, dataPool>>
history == <<holed, tainted>>
vars == <<shape, pools, ret, history>>

Slots == 0 .. poolCapacity - 1

Answer(result, item) == [result |-> result, item |-> item]

\* The slot the c-th step of a probe for k reaches, in a table of capacity cap.
ProbeIn(k, c, cap, s) == (Hash[<<k, s>>] + c) % cap
Probe(k, c) == ProbeIn(k, c, poolCapacity, seed)

\* The steps a probe may take.
Steps == 0 .. collisionLimit - 1

-----------------------------------------------------------------------------
Init ==
  /\ poolCapacity \in Capacities
  /\ collisionLimit \in Limits
  /\ seed \in Seeds
  /\ strPool = [i \in Slots |-> Empty]
  /\ dataPool = [i \in Slots |-> NoItem]
  /\ ret = Answer("Constructed", NoItem)
  /\ holed = FALSE
  /\ tainted = FALSE

\* Mutant: the walk starts one slot too far.
InsertSkipsHome(k, c) ==
  /\ c > 0 /\ strPool[Probe(k, c)] \in {Empty, k}
  /\ \A d \in 1 .. c - 1 : strPool[Probe(k, d)] \notin {Empty, k}

\* Mutant: the equality test is made on the home slot only.
InsertComparesHomeOnly(k, c) ==
  /\ \/ strPool[Probe(k, c)] = Empty
     \/ c = 0 /\ strPool[Probe(k, c)] = k
  /\ \A d \in 0 .. c - 1 : strPool[Probe(k, d)] # Empty

\* TryInsert walks the probe path of k and stops at the first slot that is free
\* or already holds k.
InsertStopsAt(k, c) ==
  /\ strPool[Probe(k, c)] \in {Empty, k}
  /\ \A d \in 0 .. c - 1 : strPool[Probe(k, d)] \notin {Empty, k}

InsertAt(k, x, c) ==
  /\ InsertStopsAt(k, c)
  /\ strPool[Probe(k, c)] = Empty
  /\ strPool' = [strPool EXCEPT ![Probe(k, c)] = k]
  /\ dataPool' = [dataPool EXCEPT ![Probe(k, c)] = x]
  /\ ret' = Answer("Success", NoItem)
  /\ tainted' = (tainted \/ holed)
  /\ UNCHANGED <<shape, holed>>

InsertKnown(k) ==
  /\ \E c \in Steps : InsertStopsAt(k, c) /\ strPool[Probe(k, c)] = k
  /\ ret' = Answer("KeyAlreadyExist", NoItem)
  /\ UNCHANGED <<shape, pools, history>>

InsertLimit(k) ==
  /\ \A c \in Steps : strPool[Probe(k, c)] \notin {Empty, k}
  /\ ret' = Answer("CollisionLimit", NoItem)
  /\ UNCHANGED <<shape, pools, history>>

TryInsert(k, x) == (\E c \in Steps : InsertAt(k, x, c)) \/ InsertKnown(k) \/ InsertLimit(k)

-----------------------------------------------------------------------------
\* TryFindIndex skips free slots and stops at the first slot that holds k.
FoundAt(k, c) ==
  /\ strPool[Probe(k, c)] = k
  /\ \A d \in 0 .. c - 1 : strPool[Probe(k, d)] # k

Missing(k) == \A c \in Steps : strPool[Probe(k, c)] # k

TryFind(k) ==
  /\ \/ \E c \in Steps : FoundAt(k, c) /\ ret' = Answer("Success", dataPool[Probe(k, c)])
     \/ Missing(k) /\ ret' = Answer("ResultNotFound", NoItem)
  /\ UNCHANGED <<shape, pools, history>>

\* The key's slot is cleared, and nothing marks that a probe once went past it;
\* the item stays in _dataPool.
EraseAt(k, c) ==
  /\ FoundAt(k, c)
  /\ strPool' = [strPool EXCEPT ![Probe(k, c)] = Empty]
  /\ ret' = Answer("Success", dataPool[Probe(k, c)])
  /\ holed' = TRUE
  /\ UNCHANGED <<shape, dataPool, tainted>>

EraseMissing(k) ==
  /\ Missing(k)
  /\ ret' = Answer("ResultNotFound", NoItem)
  /\ UNCHANGED <<shape, pools, history>>

TryErase(k) == (\E c \in Steps : EraseAt(k, c)) \/ EraseMissing(k)

\* Each operation refuses a string of no or of too many characters; the debug build's
\* TryInsert stops at an assertion before it answers.
InvalidKey(k) ==
  /\ k \in BadKeys
  /\ ret' = Answer("InvalidStrKey", NoItem)
  /\ UNCHANGED <<shape, pools, history>>

-----------------------------------------------------------------------------
Occupied == {i \in Slots : strPool[i] # Empty}

\* Mutant: a key is written to its new home slot, wherever that leaves the others.
PlacementAtHome(at, cap, s) == \A i \in Occupied : at[i] = 0

\* TryRebuild moves the occupied slots in ascending order, each to the first free
\* slot of its new probe path.  at[i] is the number of probe steps the key of
\* slot i takes: every earlier step hits a slot a lower-numbered key has taken,
\* and the step itself hits one that none has.
Placement(at, cap, s) ==
  LET target(i) == ProbeIn(strPool[i], at[i], cap, s)
  IN  \A i \in Occupied :
        /\ \A d \in 0 .. at[i] - 1 :
             \E j \in Occupied : j < i /\ target(j) = ProbeIn(strPool[i], d, cap, s)
        /\ \A j \in Occupied : j < i => target(j) # target(i)

Placements(cap, lim, s) == {at \in [Occupied -> 0 .. lim - 1] : Placement(at, cap, s)}

\* The key a rebuilt slot receives comes from this old slot.
Source(at, cap, s, t) == {i \in Occupied : ProbeIn(strPool[i], at[i], cap, s) = t}

\* Mutant: the table goes on with the capacity it had.
AdoptSameCapacity(cap, lim, s) == poolCapacity' = poolCapacity /\ collisionLimit' = lim /\ seed' = s

\* Mutant: the table goes on with the seed it had.
AdoptSameSeed(cap, lim, s) == poolCapacity' = cap /\ collisionLimit' = lim /\ seed' = seed

Adopt(cap, lim, s) == poolCapacity' = cap /\ collisionLimit' = lim /\ seed' = s

RebuildAs(at, cap, lim, s) ==
  /\ Adopt(cap, lim, s)
  /\ strPool' = [t \in 0 .. cap - 1 |->
                   IF Source(at, cap, s, t) = {} THEN Empty
                   ELSE strPool[CHOOSE i \in Source(at, cap, s, t) : TRUE]]
  /\ dataPool' = [t \in 0 .. cap - 1 |->
                    IF Source(at, cap, s, t) = {} THEN NoItem
                    ELSE dataPool[CHOOSE i \in Source(at, cap, s, t) : TRUE]]
  /\ ret' = Answer("Rebuilt", NoItem)
  /\ holed' = FALSE
  /\ UNCHANGED tainted

RebuildFails(cap, lim, s) ==
  /\ Placements(cap, lim, s) = {}
  /\ ret' = Answer("NotRebuilt", NoItem)
  /\ UNCHANGED <<shape, pools, history>>

TryRebuild(cap, lim, s) ==
  \/ \E at \in Placements(cap, lim, s) : RebuildAs(at, cap, lim, s)
  \/ RebuildFails(cap, lim, s)

-----------------------------------------------------------------------------
Lookup == \E k \in Keys : TryFind(k)
Erase == \E k \in Keys : TryErase(k)
Refuse == \E k \in BadKeys : InvalidKey(k)
Rebuild == \E cap \in Capacities, lim \in Limits, s \in Seeds : TryRebuild(cap, lim, s)
Insert == \E k \in Keys, x \in Items : TryInsert(k, x)

Next == Insert \/ Lookup \/ Erase \/ Rebuild \/ Refuse

Spec == Init /\ [][Next]_vars

\* A client that never inserts into a holed table: it erases nothing, as the
\* asset managers do, or rebuilds after the last erasure and before it inserts.
DisciplinedNext == (~holed /\ Insert) \/ Lookup \/ Erase \/ Rebuild \/ Refuse

DisciplinedSpec == Init /\ [][DisciplinedNext]_vars

-----------------------------------------------------------------------------
TypeOK ==
  /\ poolCapacity \in Capacities
  /\ collisionLimit \in Limits
  /\ seed \in Seeds
  /\ strPool \in [Slots -> Keys \cup {Empty}]
  /\ dataPool \in [Slots -> Items \cup {NoItem}]
  /\ ret \in [result : {"Constructed", "Success", "KeyAlreadyExist", "CollisionLimit",
                        "ResultNotFound", "InvalidStrKey", "Rebuilt", "NotRebuilt"},
              item : Items \cup {NoItem}]
  /\ holed \in BOOLEAN
  /\ tainted \in BOOLEAN

\* Whatever was erased or rebuilt, a stored key stands within the collision limit
\* of its home slot, and with an item: TryFindIndex, which gives up after that
\* many steps, finds every key that is stored.
WithinReach ==
  \A i \in Occupied :
    /\ \E c \in Steps : Probe(strPool[i], c) = i
    /\ dataPool[i] # NoItem

\* The slots a probe passes before it reaches a stored key are all taken.
PathsFilled ==
  \A i \in Occupied : \E c \in Steps :
    /\ Probe(strPool[i], c) = i
    /\ \A d \in 0 .. c - 1 : strPool[Probe(strPool[i], d)] # Empty

\* Only an erasure opens a gap in a probe path, and the next successful TryRebuild
\* closes every gap: the premise under which stopping at the first free slot is right.
GapsOnlyAfterErase == ~holed => PathsFilled

NoDuplicateKeys == \A i, j \in Occupied : strPool[i] = strPool[j] => i = j

\* KeyAlreadyExist keeps keys unique, until an insertion meets a gap an erasure
\* left: TryInsert then stores a second copy of a key further along the path.
UniqueUntilTainted == ~tainted => NoDuplicateKeys

-----------------------------------------------------------------------------
(***************************************************************************)
(* What the table implements: for every client a multiset of associations, *)
(* for a disciplined one a map.                                            *)
(***************************************************************************)
Copies == [p \in Keys \X Items |->
             Cardinality({i \in Slots : strPool[i] = p[1] /\ dataPool[i] = p[2]})]

Bag == INSTANCE AssociationBag WITH copies <- Copies

\* Every operation, in any order, reads, adds or removes single associations and
\* loses none: TryErase takes away exactly the copy it returns, TryRebuild none.
ImplementsBag == Bag!Spec

Dictionary == [k \in Keys |->
                 IF \E i \in Slots : strPool[i] = k
                 THEN dataPool[CHOOSE i \in Slots : strPool[i] = k]
                 ELSE NoItem]

Map == INSTANCE StringMap WITH dict <- Dictionary

\* For a disciplined client the table is a map: the first insertion of a key wins,
\* lookup returns what was inserted, erasure forgets it.
ImplementsMap == Map!Spec

=============================================================================
