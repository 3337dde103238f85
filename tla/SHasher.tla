------------------------------ MODULE SHasher ------------------------------
(***************************************************************************)
(* SHashA, the interning of strings: a global pool of buckets, each a      *)
(* chain of nodes that is only ever appended to.  The id of a word is its  *)
(* bucket and its place in the chain.  The bucket comes from a hash of the *)
(* bytes, the comparison along the chain ignores case.                     *)
(*                                                                         *)
(* The ids that callers hold are part of the state: they are values, and   *)
(* nothing tells their holders that the pool they point into is gone.      *)
(* Such an id may lead out of the pool that is there now, or to the string *)
(* of another word.                                                        *)
(***************************************************************************)
EXTENDS Integers, Sequences

CONSTANTS
  Words,
  Hash,         \* CityHash32, of every word
  Fold,         \* what strcmpi compares
  PoolSizes,    \* what InitHashPool is called with
  DefaultSize,  \* SHASHER_DEFAULT_POOL_SIZE
  NoId,
  Null,         \* nullptr
  Garbage       \* what is read behind the end of the pool

ASSUME HashAssumption == Hash \in [Words -> Nat]

ASSUME SizeAssumption == PoolSizes \subseteq Nat \ {0} /\ DefaultSize \in Nat \ {0}

ASSUME NoIdAssumption == NoId \notin Nat \X Nat

VARIABLES
  allocated,  \* g_SHasherPool is not null
  cnt,        \* g_sHasherPoolCnt
  pool,       \* g_SHasherPool: the chain of every bucket
  held,       \* the id that the caller who interned a word was given last, if any
  fresh,      \* words whose id is of the pool that is there now
  got,        \* what the last c_str returned
  stopped     \* a null pointer was read

vars == <<allocated, cnt, pool, held, fresh, got, stopped>>

Empty(n) == [b \in 0 .. n - 1 |-> <<>>]

Texts == Words \cup {Null, Garbage}

Init ==
  /\ allocated = FALSE
  /\ cnt = 0
  /\ pool = Empty(0)
  /\ held = [w \in Words |-> NoId]
  /\ fresh = {}
  /\ got = Null
  /\ stopped = FALSE

\* Mutant: the comparison minds the case.
SameSpelling(v, w) == v = w

\* strcmpi
SameWord(v, w) == Fold[v] = Fold[w]

Bucket(w, n) == Hash[w] % n

\* Mutant: the place of a node that is appended is that of the node before it.
PlaceOfLast(chain) == IF Len(chain) = 0 THEN 0 ELSE Len(chain) - 1

\* sameHashValueCnt of a node that is appended.
NewPlace(chain) == Len(chain)

\* The first word of the chain that is the same, at place k - 1.
FoundAt(chain, w, k) ==
  /\ SameWord(chain[k], w)
  /\ \A j \in 1 .. k - 1 : ~SameWord(chain[j], w)

\* The constructor, in a pool of n buckets.
InternIn(p, n, w) ==
  LET b == Bucket(w, n)
      chain == p[b]
  IN  \/ /\ \E k \in DOMAIN chain :
              FoundAt(chain, w, k) /\ held' = [held EXCEPT ![w] = <<b, k - 1>>]
         /\ pool' = p
      \/ /\ \A k \in DOMAIN chain : ~SameWord(chain[k], w)
         /\ pool' = [p EXCEPT ![b] = Append(chain, w)]
         /\ held' = [held EXCEPT ![w] = <<b, NewPlace(chain)>>]

Intern(w) ==
  /\ ~stopped
  /\ \/ /\ allocated
        /\ InternIn(pool, cnt, w)
        /\ UNCHANGED <<allocated, cnt>>
     \/ /\ ~allocated
        /\ InternIn(Empty(DefaultSize), DefaultSize, w)
        /\ allocated' = TRUE
        /\ cnt' = DefaultSize
  /\ fresh' = fresh \cup {w}
  /\ UNCHANGED <<got, stopped>>

\* A pool that is there already is lost; its ids stay with the callers.
InitHashPool(n) ==
  /\ ~stopped
  /\ allocated' = TRUE
  /\ cnt' = n
  /\ pool' = Empty(n)
  /\ fresh' = {}
  /\ UNCHANGED <<held, got, stopped>>

\* The count of buckets stays, so that a second call reads a pool that is gone.
ClearHashPool ==
  /\ ~stopped
  /\ stopped' = (~allocated /\ cnt > 0)
  /\ allocated' = FALSE
  /\ pool' = Empty(0)
  /\ fresh' = {}
  /\ UNCHANGED <<cnt, held, got>>

\* The pointer is followed past the last node of the chain, or the pool is null.
LeadsToNull(id) ==
  \/ ~allocated
  \/ allocated /\ id[1] < cnt /\ id[2] > 0 /\ id[2] >= Len(pool[id[1]])

\* What an id leads to: behind the pool, to a bucket that has no string yet, or to a word.
Text(id) ==
  IF id[1] >= cnt THEN Garbage
  ELSE IF pool[id[1]] = <<>> THEN Null
  ELSE pool[id[1]][id[2] + 1]

\* c_str of the id that w was given, whichever pool gave it; the read behind the pool may
\* stop the program too.
CStr(w) ==
  /\ ~stopped
  /\ held[w] # NoId
  /\ \/ ~LeadsToNull(held[w]) /\ got' = Text(held[w]) /\ UNCHANGED stopped
     \/ /\ LeadsToNull(held[w]) \/ held[w][1] >= cnt
        /\ stopped' = TRUE
        /\ UNCHANGED got
  /\ UNCHANGED <<allocated, cnt, pool, held, fresh>>

Next ==
  \/ \E w \in Words : Intern(w) \/ CStr(w)
  \/ \E n \in PoolSizes : InitHashPool(n)
  \/ ClearHashPool

Spec == Init /\ [][Next]_vars

------------------------------------------------------------------------------

PoolOK ==
  /\ cnt \in Nat
  /\ allocated => cnt > 0
  /\ pool \in [0 .. (IF allocated THEN cnt ELSE 0) - 1 -> Seq(Words)]

\* Every id that was given since the pool was made names a node of it, in the bucket of
\* its word, whose string is the word but for case.
FreshReadsBack ==
  \A w \in fresh :
    /\ allocated
    /\ held[w] # NoId
    /\ held[w][1] = Bucket(w, cnt)
    /\ held[w][2] < Len(pool[held[w][1]])
    /\ Fold[Text(held[w])] = Fold[w]

\* Every node was made for the word it holds, which is given this node ever after.
NodesHeld ==
  \A b \in DOMAIN pool : \A k \in DOMAIN pool[b] :
    pool[b][k] \in fresh /\ held[pool[b][k]] = <<b, k - 1>>

\* No chain holds a word twice, however it is spelled.
WordsOnce ==
  \A b \in DOMAIN pool : \A j, k \in DOMAIN pool[b] :
    Fold[pool[b][j]] = Fold[pool[b][k]] => j = k

\* The pool and the ids that callers were given from it fit each other, whatever was
\* interned, cleared and made anew before.
TypeOK ==
  /\ allocated \in BOOLEAN
  /\ stopped \in BOOLEAN
  /\ held \in [Words -> {NoId} \cup (Nat \X Nat)]
  /\ fresh \in SUBSET Words
  /\ got \in Texts
  /\ PoolOK
  /\ FreshReadsBack
  /\ NodesHeld
  /\ WordsOnce

Promise == INSTANCE Interner

\* The pool keeps the promise of Interner: a word keeps its id while the pool lives, an id
\* of the pool is shared only by spellings of one word and reads back as one of them.  No
\* more is promised when the pool is cleared or made anew: the callers keep their ids, which
\* may be those of other words by then, and may read as anything.
ImplementsInterner == Promise!Spec

=============================================================================
