--------------------------- MODULE AssociationBag ---------------------------
(***************************************************************************)
(* What StringHashMapA promises to a client that erases and inserts as it  *)
(* likes: a multiset of (key, item) associations.  Several associations of *)
(* one key may coexist, and which of them a lookup returns is not said.    *)
(***************************************************************************)
EXTENDS Naturals

CONSTANTS Keys, BadKeys, Items, NoItem

VARIABLES copies,  \* [Keys \X Items -> Nat]
          ret

vars == <<copies, ret>>

Answer(result, item) == [result |-> result, item |-> item]

Held(k) == {x \in Items : copies[<<k, x>>] > 0}

Init ==
  /\ copies = [p \in Keys \X Items |-> 0]
  /\ ret = Answer("Constructed", NoItem)

Add(k, x) ==
  /\ copies' = [copies EXCEPT ![<<k, x>>] = @ + 1]
  /\ ret' = Answer("Success", NoItem)

\* A key is refused as known only when it is, and for want of room at any time
\* but when it is known to the probe.
RefuseKnown(k) ==
  /\ Held(k) # {}
  /\ ret' = Answer("KeyAlreadyExist", NoItem)
  /\ UNCHANGED copies

RefuseFull(k) ==
  /\ Held(k) = {}
  /\ ret' = Answer("CollisionLimit", NoItem)
  /\ UNCHANGED copies

Find(k) ==
  /\ \/ \E x \in Held(k) : ret' = Answer("Success", x)
     \/ Held(k) = {} /\ ret' = Answer("ResultNotFound", NoItem)
  /\ UNCHANGED copies

Erase(k) ==
  \/ \E x \in Held(k) :
       /\ copies' = [copies EXCEPT ![<<k, x>>] = @ - 1]
       /\ ret' = Answer("Success", x)
  \/ /\ Held(k) = {}
     /\ ret' = Answer("ResultNotFound", NoItem)
     /\ UNCHANGED copies

Refuse ==
  /\ BadKeys # {}
  /\ ret' = Answer("InvalidStrKey", NoItem)
  /\ UNCHANGED copies

Rebuild ==
  /\ \E r \in {"Rebuilt", "NotRebuilt"} : ret' = Answer(r, NoItem)
  /\ UNCHANGED copies

Next ==
  \/ \E k \in Keys : RefuseKnown(k) \/ RefuseFull(k) \/ Find(k) \/ Erase(k)
  \/ \E k \in Keys, x \in Items : Add(k, x)
  \/ Refuse
  \/ Rebuild

Spec == Init /\ [][Next]_vars

=============================================================================
