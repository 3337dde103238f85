---------------------------- MODULE ItemSequence ----------------------------
(***************************************************************************)
(* What PooledLinkedList promises: a bounded sequence of items that can be *)
(* extended, shortened and searched at any position, and in which the      *)
(* items an operation does not name keep their order.                      *)
(***************************************************************************)
EXTENDS Naturals, Sequences, SequencesExt

CONSTANTS Items, NoItem, Capacity

VARIABLES items,  \* Seq(Items)
          found   \* the item the last FindAt returned

vars == <<items, found>>

Init == items = <<>> /\ found = NoItem

\* x comes to stand at position i.
InsertItem(i, x) ==
  /\ Len(items) < Capacity
  /\ items' = InsertAt(items, i, x)
  /\ UNCHANGED found

RemoveItem(i) ==
  /\ items' = RemoveAt(items, i)
  /\ UNCHANGED found

Clear == items' = <<>> /\ UNCHANGED found

FindItem(i) == found' = items[i] /\ UNCHANGED items

Next ==
  \/ \E i \in 1 .. Len(items) + 1, x \in Items : InsertItem(i, x)
  \/ \E i \in 1 .. Len(items) : RemoveItem(i) \/ FindItem(i)
  \/ Clear

Spec == Init /\ [][Next]_vars

=============================================================================
