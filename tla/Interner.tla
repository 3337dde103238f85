------------------------------ MODULE Interner ------------------------------
(***************************************************************************)
(* What SHashA promises its callers.  A word that was interned keeps its   *)
(* id until the pool is cleared; two words have one id only if they are    *)
(* equal but for case, and an id reads back as its word but for case.      *)
(* Whether two spellings of a word share an id is not promised: the        *)
(* implementation lets them when they hash alike.  Ids outlive the pool as *)
(* values; of these nothing is promised.                                   *)
(***************************************************************************)
CONSTANTS
  Words,
  Fold,   \* a word without its case
  NoId,
  Texts,  \* what may be read: words, and what is no word
  Null

VARIABLES
  held,   \* the id each word was given last, NoId before
  fresh,  \* words whose id is good
  got     \* the text that was read last

vars == <<held, fresh, got>>

SameWord(v, w) == Fold[v] = Fold[w]

Init ==
  /\ held = [w \in Words |-> NoId]
  /\ fresh = {}
  /\ got = Null

Again(w) == w \in fresh /\ UNCHANGED vars

Share(w) ==
  /\ w \notin fresh
  /\ fresh' = fresh \cup {w}
  /\ \E v \in fresh : SameWord(v, w) /\ held' = [held EXCEPT ![w] = held[v]]
  /\ UNCHANGED got

\* The id is new: no other word whose id is good holds it.
Introduce(w) ==
  /\ w \notin fresh
  /\ fresh' = fresh \cup {w}
  /\ held' = [held EXCEPT ![w] = held'[w]]
  /\ \A v \in fresh : held[v] # held'[w]
  /\ UNCHANGED got

\* The ids stay with those who have them.
Forget == fresh' = {} /\ UNCHANGED <<held, got>>

\* An id that is good reads as a spelling of its word, any other as whatever is there.
Read(w) ==
  /\ got' \in Texts
  /\ w \in fresh => got' \in Words /\ SameWord(got', w)
  /\ UNCHANGED <<held, fresh>>

Next ==
  \/ \E w \in Words : Again(w) \/ Share(w) \/ Introduce(w) \/ Read(w)
  \/ Forget

Spec == Init /\ [][Next]_vars

=============================================================================
