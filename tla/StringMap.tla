----------------------------- MODULE StringMap -----------------------------
(***************************************************************************)
(* What a client wants of StringHashMapA: a map from strings to items in   *)
(* which a key is bound once, by its first successful insertion, until it  *)
(* is erased.                                                              *)
(***************************************************************************)
CONSTANTS Keys, BadKeys, Items, NoItem

VARIABLES dict,  \* [Keys -> Items \cup {NoItem}]
          ret

vars == <<dict, ret>>

Answer(result, item) == [result |-> result, item |-> item]

Bound(k) == dict[k] # NoItem

Init ==
  /\ dict = [k \in Keys |-> NoItem]
  /\ ret = Answer("Constructed", NoItem)

\* A key that is not bound may still be refused, for want of room.
Insert(k, x) ==
  /\ ~Bound(k)
  /\ dict' = [dict EXCEPT ![k] = x]
  /\ ret' = Answer("Success", NoItem)

RefuseKnown(k) ==
  /\ Bound(k)
  /\ ret' = Answer("KeyAlreadyExist", NoItem)
  /\ UNCHANGED dict

RefuseFull(k) ==
  /\ ~Bound(k)
  /\ ret' = Answer("CollisionLimit", NoItem)
  /\ UNCHANGED dict

Find(k) ==
  /\ ret' = IF Bound(k) THEN Answer("Success", dict[k]) ELSE Answer("ResultNotFound", NoItem)
  /\ UNCHANGED dict

Erase(k) ==
  /\ ret' = IF Bound(k) THEN Answer("Success", dict[k]) ELSE Answer("ResultNotFound", NoItem)
  /\ dict' = [dict EXCEPT ![k] = NoItem]

Refuse ==
  /\ BadKeys # {}
  /\ ret' = Answer("InvalidStrKey", NoItem)
  /\ UNCHANGED dict

Rebuild ==
  /\ \E r \in {"Rebuilt", "NotRebuilt"} : ret' = Answer(r, NoItem)
  /\ UNCHANGED dict

Next ==
  \/ \E k \in Keys : RefuseKnown(k) \/ RefuseFull(k) \/ Find(k) \/ Erase(k)
  \/ \E k \in Keys, x \in Items : Insert(k, x)
  \/ Refuse
  \/ Rebuild

Spec == Init /\ [][Next]_vars

=============================================================================
