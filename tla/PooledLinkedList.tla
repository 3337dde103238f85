-------------------------- MODULE PooledLinkedList --------------------------
(***************************************************************************)
(* SS::PooledLinkedList<T>: a doubly linked list whose nodes come from a   *)
(* pool, with a stack of the addresses that are not in use.                *)
(*                                                                         *)
(* Nodes are the indices of _pool; head and tail are the sentinels inside  *)
(* the list object.  Null stands for nullptr and, in a node that was never *)
(* constructed, for whatever the storage holds.  Each member function is   *)
(* one step.  A full list refuses Push..., an empty one Pop..., with an    *)
(* assertion; the caller keeps Insert... within the capacity, which they   *)
(* do not check, and hands over iterators to elements that are in the list.*)
(***************************************************************************)
EXTENDS Integers, FiniteSets

CONSTANTS
  Items,     \* values of T
  NoItem,    \* no item: storage in which no T lives
  Capacity,  \* _capacity
  head, tail, Null

ASSUME CapacityAssumption == Capacity \in Nat

Nodes == 0 .. Capacity - 1

ASSUME NamesAssumption ==
  /\ NoItem \notin Items
  /\ head # tail /\ head # Null /\ tail # Null
  /\ {head, tail, Null} \cap Nodes = {}

VARIABLES
  size,      \* _size
  top,       \* _usableAddressTopIdx
  stack,     \* [Nodes -> Nodes]: _usableAddressStack
  next,      \* _next of the nodes and of _head
  prev,      \* _prev of the nodes and of _tail
  data,      \* _data of the nodes
  found      \* the item the last FindAt returned

vars == <<size, top, stack, next, prev, data, found>>

Init ==
  /\ size = 0
  /\ top = 0
  /\ stack = [i \in Nodes |-> i]
  /\ next = [n \in Nodes \cup {head} |-> IF n = head THEN tail ELSE Null]
  /\ prev = [n \in Nodes \cup {tail} |-> IF n = tail THEN head ELSE Null]
  /\ data = [n \in Nodes |-> NoItem]
  /\ found = NoItem

\* The nodes whose addresses are not on the stack.
Used == Nodes \ {stack[i] : i \in top .. Capacity - 1}

\* The node the i-th step from _head reaches.
At[i \in 0 .. size] == IF i = 0 THEN head ELSE next[At[i - 1]]

-----------------------------------------------------------------------------
\* Mutant: the node before is not told of the new one.
LinkOneWay(p, q, x) ==
  /\ LET n == stack[top]
     IN  /\ next' = [next EXCEPT ![n] = q]
         /\ prev' = [prev EXCEPT ![n] = p, ![q] = n]
         /\ data' = [data EXCEPT ![n] = x]
  /\ top' = top + 1
  /\ size' = size + 1
  /\ UNCHANGED <<stack, found>>

\* GetNewUsableAddress, and the new node is constructed and linked between p and q.
Link(p, q, x) ==
  /\ LET n == stack[top]
     IN  /\ next' = [next EXCEPT ![n] = q, ![p] = n]
         /\ prev' = [prev EXCEPT ![n] = p, ![q] = n]
         /\ data' = [data EXCEPT ![n] = x]
  /\ top' = top + 1
  /\ size' = size + 1
  /\ UNCHANGED <<stack, found>>

\* Mutant: the address is put where the next one would be taken from.
UnlinkAboveTop(n) ==
  /\ next' = [next EXCEPT ![prev[n]] = next[n], ![n] = Null]
  /\ prev' = [prev EXCEPT ![next[n]] = prev[n], ![n] = Null]
  /\ data' = [data EXCEPT ![n] = NoItem]
  /\ top' = top - 1
  /\ stack' = IF top \in Nodes THEN [stack EXCEPT ![top] = n] ELSE stack
  /\ size' = size - 1
  /\ UNCHANGED found

\* Mutant: the size is not brought down.
UnlinkKeepsSize(n) ==
  /\ next' = [next EXCEPT ![prev[n]] = next[n], ![n] = Null]
  /\ prev' = [prev EXCEPT ![next[n]] = prev[n], ![n] = Null]
  /\ data' = [data EXCEPT ![n] = NoItem]
  /\ top' = top - 1
  /\ stack' = [stack EXCEPT ![top - 1] = n]
  /\ UNCHANGED <<size, found>>

\* The neighbours of n are linked, its item destroyed, its address released.
Unlink(n) ==
  /\ next' = [next EXCEPT ![prev[n]] = next[n], ![n] = Null]
  /\ prev' = [prev EXCEPT ![next[n]] = prev[n], ![n] = Null]
  /\ data' = [data EXCEPT ![n] = NoItem]
  /\ top' = top - 1
  /\ stack' = [stack EXCEPT ![top - 1] = n]
  /\ size' = size - 1
  /\ UNCHANGED found

PushBack(x) == size < Capacity /\ Link(prev[tail], tail, x)
PushFront(x) == size < Capacity /\ Link(head, next[head], x)

PopBack == size > 0 /\ Unlink(prev[tail])
PopFront == size > 0 /\ Unlink(next[head])

\* Mutant: the new node goes before the iterator's.
InsertBackBefore(n, x) == n \in Used /\ top < Capacity /\ Link(prev[n], n, x)

\* The iterator is at n, which for InsertFront may be end().
InsertBack(n, x) == n \in Used /\ top < Capacity /\ Link(n, next[n], x)
InsertFront(n, x) == n \in Used \cup {tail} /\ top < Capacity /\ Link(prev[n], n, x)

Erase(n) == n \in Used /\ Unlink(n)

\* begin() and index steps forward; the caller knows the size.
FindAt(index) ==
  /\ index \in 0 .. size - 1
  /\ found' = data[At[index + 1]]
  /\ UNCHANGED <<size, top, stack, next, prev, data>>

\* PopBack until the list is empty: the addresses go back last node first.
Clear ==
  /\ size' = 0
  /\ top' = 0
  /\ stack' = [i \in Nodes |-> IF i < size THEN At[i + 1] ELSE stack[i]]
  /\ next' = [n \in Nodes \cup {head} |-> CASE n = head -> tail
                                            [] n \in Used -> Null
                                            [] OTHER -> next[n]]
  /\ prev' = [n \in Nodes \cup {tail} |-> CASE n = tail -> head
                                            [] n \in Used -> Null
                                            [] OTHER -> prev[n]]
  /\ data' = [n \in Nodes |-> IF n \in Used THEN NoItem ELSE data[n]]
  /\ UNCHANGED found

Next ==
  \/ \E x \in Items : PushBack(x) \/ PushFront(x)
  \/ PopBack
  \/ PopFront
  \/ \E n \in Nodes, x \in Items : InsertBack(n, x)
  \/ \E n \in Nodes \cup {tail}, x \in Items : InsertFront(n, x)
  \/ \E n \in Nodes : Erase(n)
  \/ \E i \in Nodes : FindAt(i)
  \/ Clear

Spec == Init /\ [][Next]_vars

-----------------------------------------------------------------------------
TypeOK ==
  /\ size \in 0 .. Capacity
  /\ top = size
  /\ stack \in [Nodes -> Nodes]
  /\ next \in [Nodes \cup {head} -> Nodes \cup {tail, Null}]
  /\ prev \in [Nodes \cup {tail} -> Nodes \cup {head, Null}]
  /\ data \in [Nodes -> Items \cup {NoItem}]
  /\ found \in Items \cup {NoItem}

\* No address is lost and none handed out twice: above the top of the stack stand,
\* once each, the addresses of the nodes that are not in the list, and these alone
\* are without an item.
PoolAccounted ==
  /\ \A i, j \in top .. Capacity - 1 : stack[i] = stack[j] => i = j
  /\ Used = {n \in Nodes : data[n] # NoItem}

\* The two chains mirror each other over the nodes in use, sentinels included.
LinksMirrored ==
  /\ \A n \in Used \cup {head} : next[n] \in Used \cup {tail} /\ prev[next[n]] = n
  /\ \A n \in Used \cup {tail} : prev[n] \in Used \cup {head} /\ next[prev[n]] = n

\* The items in the order in which following _next meets them.
Sequence == INSTANCE ItemSequence WITH items <- [i \in 1 .. size |-> data[At[i]]]

Position(n) == IF n = tail THEN size + 1 ELSE CHOOSE i \in 1 .. size : At[i] = n

\* What each call does to the sequence.
EachCallAsMeant ==
  /\ \A x \in Items :
       /\ PushBack(x) => Sequence!InsertItem(size + 1, x)
       /\ PushFront(x) => Sequence!InsertItem(1, x)
       /\ \A n \in Used : InsertBack(n, x) => Sequence!InsertItem(Position(n) + 1, x)
       /\ \A n \in Used \cup {tail} :
            InsertFront(n, x) => Sequence!InsertItem(Position(n), x)
  /\ \A n \in Used : Erase(n) => Sequence!RemoveItem(Position(n))
  /\ PopBack => Sequence!RemoveItem(size)
  /\ PopFront => Sequence!RemoveItem(1)
  /\ \A i \in Nodes : FindAt(i) => Sequence!FindItem(i + 1)
  /\ Clear => Sequence!Clear

\* The list that is met by following _next is a sequence of items, and each call
\* changes it at the place the caller means, however the nodes came to lie in the
\* pool: iterators to other elements keep their element.
ImplementsSequence == Sequence!Init /\ [][EachCallAsMeant]_vars

=============================================================================
