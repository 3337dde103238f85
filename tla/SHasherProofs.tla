--------------------------- MODULE SHasherProofs ---------------------------
(***************************************************************************)
(* The pool keeps its promise whatever the words, the hash, the comparison *)
(* and the sizes of the pool.  TypeOK is inductive: that a chain holds no  *)
(* word twice makes the first node that is found the one a word was given  *)
(* before, and that every node is held makes a node that is appended new.  *)
(* Ids of earlier pools are nowhere in the argument: nothing holds of them *)
(* but that they are ids.                                                  *)
(***************************************************************************)
EXTENDS SHasher, TLAPS

\* TypeOK of a pool p of n buckets and the ids h, of which those of the words f are good.
Fits(p, n, h, f) ==
  /\ n \in Nat \ {0}
  /\ p \in [0 .. n - 1 -> Seq(Words)]
  /\ h \in [Words -> {NoId} \cup (Nat \X Nat)]
  /\ f \in SUBSET Words
  /\ \A w \in f :
       /\ h[w] # NoId
       /\ h[w][1] = Bucket(w, n)
       /\ h[w][2] < Len(p[Bucket(w, n)])
       /\ Fold[p[Bucket(w, n)][h[w][2] + 1]] = Fold[w]
  /\ \A b \in 0 .. n - 1 : \A k \in DOMAIN p[b] : p[b][k] \in f /\ h[p[b][k]] = <<b, k - 1>>
  /\ \A b \in 0 .. n - 1 : \A j, k \in DOMAIN p[b] : Fold[p[b][j]] = Fold[p[b][k]] => j = k

-----------------------------------------------------------------------------
LEMMA BucketInPool ==
  ASSUME NEW w \in Words, NEW n \in Nat \ {0}
  PROVE  Bucket(w, n) \in 0 .. n - 1
<1>1. Hash[w] \in Nat
  BY HashAssumption
<1>. QED
  BY <1>1 DEF Bucket

LEMMA AppendFacts ==
  ASSUME NEW S, NEW q \in Seq(S), NEW m \in S
  PROVE  /\ Append(q, m) \in Seq(S)
         /\ Len(q) \in Nat
         /\ Len(Append(q, m)) = Len(q) + 1
         /\ DOMAIN q = 1 .. Len(q)
         /\ DOMAIN Append(q, m) = 1 .. Len(q) + 1
         /\ Append(q, m)[Len(q) + 1] = m
         /\ \A i \in 1 .. Len(q) : Append(q, m)[i] = q[i] /\ q[i] \in S
OBVIOUS

LEMMA NilIsNoPair == ASSUME NEW b \in Nat, NEW k \in Nat PROVE <<b, k>> # NoId
BY NoIdAssumption

LEMMA EmptyFits ==
  ASSUME NEW n \in Nat \ {0}, NEW h \in [Words -> {NoId} \cup (Nat \X Nat)]
  PROVE  Fits(Empty(n), n, h, {})
<1>1. <<>> \in Seq(Words) /\ DOMAIN <<>> = {}
  OBVIOUS
<1>2. \A b \in 0 .. n - 1 : Empty(n)[b] = <<>>
  BY DEF Empty
<1>3. Empty(n) \in [0 .. n - 1 -> Seq(Words)]
  BY <1>1 DEF Empty
<1>. QED
  BY <1>1, <1>2, <1>3 DEF Fits

\* A word is given the node it has already, or that of a word that is the same.
LEMMA FoundKeeps ==
  ASSUME NEW p, NEW n, Fits(p, n, held, fresh), NEW w \in Words,
         NEW k \in DOMAIN p[Bucket(w, n)], SameWord(p[Bucket(w, n)][k], w),
         held' = [held EXCEPT ![w] = <<Bucket(w, n), k - 1>>],
         fresh' = fresh \cup {w}, got' = got
  PROVE  /\ Fits(p, n, held', fresh')
         /\ Promise!Again(w) \/ Promise!Share(w)
<1>. DEFINE b == Bucket(w, n)
            id == <<b, k - 1>>
<1>1. /\ n \in Nat \ {0}
      /\ p \in [0 .. n - 1 -> Seq(Words)]
      /\ held \in [Words -> {NoId} \cup (Nat \X Nat)]
      /\ fresh \in SUBSET Words
  BY DEF Fits
<1>2. b \in 0 .. n - 1
  BY <1>1, BucketInPool
<1>3. p[b] \in Seq(Words) /\ k \in 1 .. Len(p[b]) /\ Len(p[b]) \in Nat /\ p[b][k] \in Words
  BY <1>1, <1>2
<1>4. id \in Nat \X Nat /\ id # NoId /\ id[1] = b /\ id[2] = k - 1
  BY <1>2, <1>3, NilIsNoPair
<1>5. /\ held'[w] = id
      /\ \A v \in Words : v # w => held'[v] = held[v]
      /\ held' \in [Words -> {NoId} \cup (Nat \X Nat)]
  BY <1>1, <1>4
<1>6. Fold[p[b][k]] = Fold[w]
  BY DEF SameWord
<1>7. w \in fresh => held[w] = id
  <2>. SUFFICES ASSUME w \in fresh PROVE held[w] = id
    OBVIOUS
  <2>1. /\ held[w] \in Nat \X Nat /\ held[w][1] = b
        /\ held[w][2] < Len(p[b]) /\ Fold[p[b][held[w][2] + 1]] = Fold[w]
    BY <1>1 DEF Fits
  <2>2. held[w][2] \in Nat /\ held[w][2] + 1 \in 1 .. Len(p[b])
    BY <2>1, <1>3
  <2>3. held[w][2] + 1 = k
    BY <2>1, <2>2, <1>2, <1>3, <1>6 DEF Fits
  <2>. QED
    BY <2>1, <2>2, <2>3, <1>3
<1>8. \A v \in fresh' :
        /\ held'[v] # NoId
        /\ held'[v][1] = Bucket(v, n)
        /\ held'[v][2] < Len(p[Bucket(v, n)])
        /\ Fold[p[Bucket(v, n)][held'[v][2] + 1]] = Fold[v]
  <2>. SUFFICES ASSUME NEW v \in fresh'
                PROVE  /\ held'[v] # NoId
                       /\ held'[v][1] = Bucket(v, n)
                       /\ held'[v][2] < Len(p[Bucket(v, n)])
                       /\ Fold[p[Bucket(v, n)][held'[v][2] + 1]] = Fold[v]
    OBVIOUS
  <2>1. CASE v = w
    <3>1. held'[v] = id /\ (k - 1) + 1 = k /\ k - 1 < Len(p[b])
      BY <2>1, <1>5, <1>3
    <3>. QED
      BY <3>1, <2>1, <1>4, <1>6
  <2>2. CASE v # w
    <3>1. v \in fresh /\ v \in Words /\ held'[v] = held[v]
      BY <2>2, <1>1, <1>5
    <3>. QED
      BY <3>1 DEF Fits
  <2>. QED
    BY <2>1, <2>2
<1>9. \A c \in 0 .. n - 1 : \A j \in DOMAIN p[c] :
        p[c][j] \in fresh' /\ held'[p[c][j]] = <<c, j - 1>>
  <2>. SUFFICES ASSUME NEW c \in 0 .. n - 1, NEW j \in DOMAIN p[c]
                PROVE  p[c][j] \in fresh' /\ held'[p[c][j]] = <<c, j - 1>>
    OBVIOUS
  <2>1. p[c][j] \in fresh /\ held[p[c][j]] = <<c, j - 1>> /\ p[c][j] \in Words
    BY <1>1 DEF Fits
  <2>. QED
    BY <2>1, <1>5, <1>7
<1>0. fresh' \in SUBSET Words
  BY <1>1
<1>10. Fits(p, n, held', fresh')
  BY <1>0, <1>1, <1>5, <1>8, <1>9 DEF Fits
<1>11. held[p[b][k]] = id /\ p[b][k] \in fresh
  BY <1>2, <1>4 DEF Fits
<1>12. CASE w \in fresh
  <2>1. held' = held /\ fresh' = fresh
    BY <1>12, <1>7, <1>1
  <2>. QED
    BY <2>1, <1>12, <1>10 DEF Promise!Again, Promise!vars
<1>13. CASE w \notin fresh
  <2>1. Promise!SameWord(p[b][k], w)
    BY <1>6 DEF Promise!SameWord
  <2>2. Promise!Share(w)
    BY <2>1, <1>13, <1>11, <1>3 DEF Promise!Share
  <2>. QED
    BY <2>2, <1>10
<1>. QED
  BY <1>12, <1>13

-----------------------------------------------------------------------------
\* A word that is in no chain gets a node that no other word was given.
LEMMA AppendKeeps ==
  ASSUME NEW p, NEW n, Fits(p, n, held, fresh), NEW w \in Words,
         \A k \in DOMAIN p[Bucket(w, n)] : ~SameWord(p[Bucket(w, n)][k], w),
         pool' = [p EXCEPT ![Bucket(w, n)] = Append(p[Bucket(w, n)], w)],
         held' = [held EXCEPT ![w] = <<Bucket(w, n), NewPlace(p[Bucket(w, n)])>>],
         fresh' = fresh \cup {w}, got' = got
  PROVE  /\ Fits(pool', n, held', fresh')
         /\ Promise!Introduce(w)
<1>. DEFINE b == Bucket(w, n)
            m == Len(p[b])
            id == <<b, m>>
<1>1. /\ n \in Nat \ {0}
      /\ p \in [0 .. n - 1 -> Seq(Words)]
      /\ held \in [Words -> {NoId} \cup (Nat \X Nat)]
      /\ fresh \in SUBSET Words
  BY DEF Fits
<1>2. b \in 0 .. n - 1
  BY <1>1, BucketInPool
<1>a. \A c \in 0 .. n - 1 : \A k \in 1 .. Len(p[c]) :
        p[c][k] \in fresh /\ held[p[c][k]] = <<c, k - 1>>
  <2>. SUFFICES ASSUME NEW c \in 0 .. n - 1, NEW k \in 1 .. Len(p[c])
                PROVE  p[c][k] \in fresh /\ held[p[c][k]] = <<c, k - 1>>
    OBVIOUS
  <2>1. p[c] \in Seq(Words) /\ k \in DOMAIN p[c]
    BY <1>1
  <2>. QED
    BY <2>1 DEF Fits
<1>b. \A c \in 0 .. n - 1 : \A j, k \in 1 .. Len(p[c]) :
        Fold[p[c][j]] = Fold[p[c][k]] => j = k
  <2>. SUFFICES ASSUME NEW c \in 0 .. n - 1, NEW j \in 1 .. Len(p[c]), NEW k \in 1 .. Len(p[c]),
                       Fold[p[c][j]] = Fold[p[c][k]]
                PROVE  j = k
    OBVIOUS
  <2>1. p[c] \in Seq(Words) /\ k \in DOMAIN p[c] /\ j \in DOMAIN p[c]
    BY <1>1
  <2>. QED
    BY <2>1 DEF Fits
<1>3. /\ p[b] \in Seq(Words) /\ m \in Nat /\ DOMAIN p[b] = 1 .. m
      /\ pool'[b] = Append(p[b], w)
      /\ \A c \in 0 .. n - 1 : c # b => pool'[c] = p[c]
      /\ pool' \in [0 .. n - 1 -> Seq(Words)]
  BY <1>1, <1>2
<1>4. /\ Len(pool'[b]) = m + 1
      /\ DOMAIN pool'[b] = 1 .. m + 1
      /\ pool'[b][m + 1] = w
      /\ \A k \in 1 .. m : pool'[b][k] = p[b][k] /\ p[b][k] \in Words
  BY <1>3, AppendFacts
<1>5. /\ held' = [held EXCEPT ![w] = id]
      /\ id \in Nat \X Nat /\ id # NoId /\ id[1] = b /\ id[2] = m
  BY <1>2, <1>3, NilIsNoPair DEF NewPlace
<1>6. /\ held'[w] = id
      /\ \A v \in Words : v # w => held'[v] = held[v]
      /\ held' \in [Words -> {NoId} \cup (Nat \X Nat)]
  BY <1>1, <1>5
<1>7. \A k \in 1 .. m : Fold[p[b][k]] # Fold[w]
  BY <1>3 DEF SameWord
<1>8. w \notin fresh
  <2>. SUFFICES ASSUME w \in fresh PROVE FALSE
    OBVIOUS
  <2>1. /\ held[w] \in Nat \X Nat
        /\ held[w][2] < m /\ Fold[p[b][held[w][2] + 1]] = Fold[w]
    BY <1>1 DEF Fits
  <2>2. held[w][2] + 1 \in 1 .. m
    BY <2>1, <1>3
  <2>. QED
    BY <2>1, <2>2, <1>7
<1>9. \A v \in fresh : held[v] # id
  <2>. SUFFICES ASSUME NEW v \in fresh, held[v] = id PROVE FALSE
    OBVIOUS
  <2>1. held[v][1] = Bucket(v, n) /\ held[v][2] < Len(p[Bucket(v, n)])
    BY <1>5 DEF Fits
  <2>2. Bucket(v, n) = b /\ m < Len(p[b])
    BY <2>1, <1>5
  <2>. QED
    BY <2>2, <1>3
<1>10. \A v \in fresh' :
         /\ held'[v] # NoId
         /\ held'[v][1] = Bucket(v, n)
         /\ held'[v][2] < Len(pool'[Bucket(v, n)])
         /\ Fold[pool'[Bucket(v, n)][held'[v][2] + 1]] = Fold[v]
  <2>. SUFFICES ASSUME NEW v \in fresh'
                PROVE  /\ held'[v] # NoId
                       /\ held'[v][1] = Bucket(v, n)
                       /\ held'[v][2] < Len(pool'[Bucket(v, n)])
                       /\ Fold[pool'[Bucket(v, n)][held'[v][2] + 1]] = Fold[v]
    OBVIOUS
  <2>1. CASE v = w
    BY <2>1, <1>3, <1>4, <1>5, <1>6
  <2>2. CASE v # w
    <3>0. v \in fresh /\ v \in Words
      BY <2>2, <1>1
    <3>1. /\ held'[v] = held[v] /\ held[v] \in Nat \X Nat /\ held[v] # NoId
          /\ held[v][1] = Bucket(v, n)
          /\ held[v][2] < Len(p[Bucket(v, n)])
          /\ Fold[p[Bucket(v, n)][held[v][2] + 1]] = Fold[v]
          /\ Bucket(v, n) \in 0 .. n - 1
      BY <2>2, <3>0, <1>1, <1>6, BucketInPool DEF Fits
    <3>2. CASE Bucket(v, n) # b
      BY <3>1, <3>2, <1>3
    <3>3. CASE Bucket(v, n) = b
      <4>1. held[v][2] + 1 \in 1 .. m
        BY <3>1, <3>3, <1>3
      <4>2. held[v][2] < m + 1
        BY <3>1, <3>3, <1>3
      <4>. QED
        BY <4>1, <4>2, <3>1, <3>3, <1>4
    <3>. QED
      BY <3>2, <3>3
  <2>. QED
    BY <2>1, <2>2
<1>11. \A c \in 0 .. n - 1 : \A k \in DOMAIN pool'[c] :
         pool'[c][k] \in fresh' /\ held'[pool'[c][k]] = <<c, k - 1>>
  <2>. SUFFICES ASSUME NEW c \in 0 .. n - 1, NEW k \in DOMAIN pool'[c]
                PROVE  pool'[c][k] \in fresh' /\ held'[pool'[c][k]] = <<c, k - 1>>
    OBVIOUS
  <2>1. CASE c = b /\ k = m + 1
    BY <2>1, <1>3, <1>4, <1>6
  <2>2. CASE c = b /\ k # m + 1
    <3>1. k \in 1 .. m /\ pool'[c][k] = p[b][k] /\ p[b][k] \in Words
      BY <2>2, <1>3, <1>4
    <3>2. p[b][k] # w
      BY <3>1, <1>7
    <3>3. p[b][k] \in fresh /\ held[p[b][k]] = <<b, k - 1>>
      BY <3>1, <1>2, <1>a
    <3>. QED
      BY <3>1, <3>2, <3>3, <2>2, <1>6
  <2>3. CASE c # b
    <3>1. pool'[c] = p[c] /\ DOMAIN p[c] = 1 .. Len(p[c]) /\ Len(p[c]) \in Nat
      BY <2>3, <1>1, <1>3
    <3>2. k \in 1 .. Len(p[c])
      <4>1. k \in DOMAIN p[c]
        BY <3>1
      <4>. QED
        BY <3>1, <4>1
    <3>3. p[c][k] \in fresh /\ p[c][k] \in Words /\ held[p[c][k]] = <<c, k - 1>>
      BY <3>2, <1>1, <1>a
    <3>4. p[c][k] # w
      BY <3>3, <1>8
    <3>. QED
      BY <3>1, <3>3, <3>4, <1>6
  <2>. QED
    BY <2>1, <2>2, <2>3
<1>12. \A c \in 0 .. n - 1 : \A j, k \in DOMAIN pool'[c] :
         Fold[pool'[c][j]] = Fold[pool'[c][k]] => j = k
  <2>. SUFFICES ASSUME NEW c \in 0 .. n - 1, NEW j \in DOMAIN pool'[c], NEW k \in DOMAIN pool'[c],
                       Fold[pool'[c][j]] = Fold[pool'[c][k]]
                PROVE  j = k
    OBVIOUS
  <2>1. CASE c # b
    BY <2>1, <1>3 DEF Fits
  <2>2. CASE c = b
    <3>1. j \in 1 .. m + 1 /\ k \in 1 .. m + 1
      BY <2>2, <1>4
    <3>2. CASE j \in 1 .. m /\ k \in 1 .. m
      BY <3>2, <2>2, <1>2, <1>b, <1>4
    <3>3. CASE j = m + 1 \/ k = m + 1
      BY <3>1, <3>3, <2>2, <1>3, <1>4, <1>7
    <3>. QED
      BY <3>1, <3>2, <3>3, <1>3
  <2>. QED
    BY <2>1, <2>2
<1>0. fresh' \in SUBSET Words
  BY <1>1
<1>13. Fits(pool', n, held', fresh')
  BY <1>0, <1>1, <1>3, <1>6, <1>10, <1>11, <1>12 DEF Fits
<1>14. Promise!Introduce(w)
  BY <1>5, <1>6, <1>8, <1>9 DEF Promise!Introduce
<1>. QED
  BY <1>13, <1>14

-----------------------------------------------------------------------------
LEMMA InternInKeeps ==
  ASSUME NEW p, NEW n, Fits(p, n, held, fresh), NEW w \in Words, InternIn(p, n, w),
         fresh' = fresh \cup {w}, got' = got
  PROVE  /\ Fits(pool', n, held', fresh')
         /\ Promise!Next
<1>1. Fits(pool', n, held', fresh') /\ (Promise!Again(w) \/ Promise!Share(w) \/ Promise!Introduce(w))
  <2>1. CASE /\ \E k \in DOMAIN p[Bucket(w, n)] :
                  /\ FoundAt(p[Bucket(w, n)], w, k)
                  /\ held' = [held EXCEPT ![w] = <<Bucket(w, n), k - 1>>]
             /\ pool' = p
    BY <2>1, FoundKeeps DEF FoundAt
  <2>2. CASE /\ \A k \in DOMAIN p[Bucket(w, n)] : ~SameWord(p[Bucket(w, n)][k], w)
             /\ pool' = [p EXCEPT ![Bucket(w, n)] = Append(p[Bucket(w, n)], w)]
             /\ held' = [held EXCEPT ![w] = <<Bucket(w, n), NewPlace(p[Bucket(w, n)])>>]
    BY <2>2, AppendKeeps
  <2>. QED
    BY <2>1, <2>2 DEF InternIn
<1>. QED
  BY <1>1 DEF Promise!Next

\* The pool fits the ids that are good, or there is neither.
IInv ==
  /\ allocated \in BOOLEAN
  /\ stopped \in BOOLEAN
  /\ cnt \in Nat
  /\ held \in [Words -> {NoId} \cup (Nat \X Nat)]
  /\ got \in Texts
  /\ allocated => Fits(pool, cnt, held, fresh)
  /\ ~allocated => fresh = {} /\ pool = Empty(0)

\* What a good id leads to is its place in the chain of its word's bucket.
LEMMA TextOfFresh ==
  ASSUME NEW w \in fresh, Fits(pool, cnt, held, fresh)
  PROVE  /\ w \in Words
         /\ ~(held[w][1] >= cnt)
         /\ held[w][1] = Bucket(w, cnt) /\ held[w][2] < Len(pool[held[w][1]])
         /\ Text(held[w]) = pool[Bucket(w, cnt)][held[w][2] + 1]
         /\ Text(held[w]) \in Words /\ Fold[Text(held[w])] = Fold[w]
<1>. DEFINE b == Bucket(w, cnt)
            l == held[w][2]
<1>1. /\ cnt \in Nat \ {0} /\ w \in Words /\ pool \in [0 .. cnt - 1 -> Seq(Words)]
      /\ held[w] \in Nat \X Nat /\ held[w][1] = b
      /\ l < Len(pool[b]) /\ Fold[pool[b][l + 1]] = Fold[w]
  BY DEF Fits
<1>2. b \in 0 .. cnt - 1
  BY <1>1, BucketInPool
<1>3. pool[b] \in Seq(Words) /\ Len(pool[b]) \in Nat /\ l \in Nat /\ l + 1 \in 1 .. Len(pool[b])
  BY <1>1, <1>2
<1>4. pool[b] # <<>> /\ pool[b][l + 1] \in Words
  BY <1>3
<1>5. Text(held[w]) = pool[b][l + 1]
  BY <1>1, <1>2, <1>4 DEF Text
<1>. QED
  BY <1>1, <1>2, <1>4, <1>5

LEMMA IInvIsEnough == IInv => TypeOK
<1>1. ASSUME allocated, IInv PROVE TypeOK
  <2>1. Fits(pool, cnt, held, fresh) /\ DOMAIN pool = 0 .. cnt - 1 /\ fresh \in SUBSET Words
    BY <1>1 DEF IInv, Fits
  <2>2. FreshReadsBack
    BY <1>1, <2>1, TextOfFresh DEF FreshReadsBack, Fits
  <2>3. PoolOK /\ NodesHeld /\ WordsOnce
    BY <1>1, <2>1 DEF PoolOK, NodesHeld, WordsOnce, Fits
  <2>. QED
    BY <1>1, <2>1, <2>2, <2>3 DEF IInv, TypeOK
<1>2. ASSUME ~allocated, IInv PROVE TypeOK
  BY <1>2 DEF IInv, TypeOK, PoolOK, FreshReadsBack, NodesHeld, WordsOnce, Empty
<1>. QED
  BY <1>1, <1>2 DEF IInv

LEMMA InitFits == Init => IInv
<1>1. Init => cnt \in Nat /\ held \in [Words -> {NoId} \cup (Nat \X Nat)]
  BY DEF Init
<1>. QED
  BY <1>1, Zenon DEF Init, IInv, Texts

\* A caller reads an id: nothing but what was read changes, and a good id reads as its word.
LEMMA ReadKeeps ==
  ASSUME IInv, NEW w \in Words, CStr(w)
  PROVE  IInv' /\ [Promise!Next]_(Promise!vars)
<1>0. UNCHANGED <<allocated, cnt, pool, held, fresh>>
  BY DEF CStr
<1>1. ASSUME ~LeadsToNull(held[w]), got' = Text(held[w])
      PROVE  /\ got' \in Texts
             /\ w \in fresh => got' \in Words /\ Promise!SameWord(got', w)
  <2>1. allocated /\ Fits(pool, cnt, held, fresh) /\ held[w] \in Nat \X Nat
    BY <1>1 DEF LeadsToNull, IInv, CStr
  <2>. DEFINE b == held[w][1]
              l == held[w][2]
  <2>2. /\ cnt \in Nat \ {0} /\ b \in Nat /\ l \in Nat
        /\ pool \in [0 .. cnt - 1 -> Seq(Words)]
    BY <2>1 DEF Fits
  <2>a. w \in fresh => got' \in Words /\ Promise!SameWord(got', w)
    BY <2>1, <1>1, TextOfFresh DEF Promise!SameWord
  <2>3. CASE b >= cnt
    BY <2>3, <2>a, <1>1 DEF Text, Texts
  <2>4. CASE b < cnt
    <3>1. pool[b] \in Seq(Words) /\ Len(pool[b]) \in Nat
      BY <2>2, <2>4
    <3>2. CASE pool[b] = <<>>
      BY <3>2, <2>2, <2>4, <2>a, <1>1 DEF Text, Texts
    <3>3. CASE pool[b] # <<>>
      <4>1. Len(pool[b]) > 0
        BY <3>1, <3>3
      <4>2. l + 1 \in 1 .. Len(pool[b])
        BY <4>1, <3>1, <2>1, <2>2, <2>4, <1>1 DEF LeadsToNull
      <4>3. pool[b][l + 1] \in Words
        BY <4>2, <3>1
      <4>4. got' = pool[b][l + 1]
        BY <3>3, <2>2, <2>4, <1>1 DEF Text
      <4>. QED
        BY <4>3, <4>4, <2>a DEF Texts
    <3>. QED
      BY <3>2, <3>3
  <2>. QED
    BY <2>2, <2>3, <2>4
<1>2. CASE ~LeadsToNull(held[w]) /\ got' = Text(held[w]) /\ UNCHANGED stopped
  <2>1. Promise!Read(w)
    BY <1>0, <1>1, <1>2 DEF Promise!Read
  <2>2. IInv'
    BY <1>0, <1>1, <1>2 DEF IInv, Fits, Empty, Bucket, Texts
  <2>. QED
    BY <2>1, <2>2 DEF Promise!Next
<1>3. CASE stopped' = TRUE /\ UNCHANGED got
  <2>1. IInv'
    BY <1>0, <1>3 DEF IInv, Fits, Empty, Bucket, Texts
  <2>. QED
    BY <2>1, <1>0, <1>3 DEF Promise!vars
<1>. QED
  BY <1>2, <1>3 DEF CStr

LEMMA StepKeeps ==
  ASSUME IInv, [Next]_vars
  PROVE  IInv' /\ [Promise!Next]_(Promise!vars)
<1>0. /\ allocated \in BOOLEAN /\ stopped \in BOOLEAN /\ cnt \in Nat
      /\ held \in [Words -> {NoId} \cup (Nat \X Nat)] /\ got \in Texts
      /\ allocated => Fits(pool, cnt, held, fresh)
      /\ ~allocated => fresh = {} /\ pool = Empty(0)
  BY DEF IInv
<1>1. ASSUME NEW w \in Words, Intern(w)
      PROVE  IInv' /\ Promise!Next
  <2>0. fresh' = fresh \cup {w} /\ got' = got /\ stopped' = stopped
    BY <1>1 DEF Intern
  <2>1. CASE allocated /\ InternIn(pool, cnt, w) /\ UNCHANGED <<allocated, cnt>>
    <3>1. Fits(pool', cnt', held', fresh') /\ Promise!Next
      BY <1>0, <2>0, <2>1, InternInKeeps
    <3>2. held' \in [Words -> {NoId} \cup (Nat \X Nat)]
      BY <3>1 DEF Fits
    <3>. QED
      BY <3>1, <3>2, <2>0, <2>1, <1>0 DEF IInv, Fits, Bucket, Texts
  <2>2. CASE /\ ~allocated
             /\ InternIn(Empty(DefaultSize), DefaultSize, w)
             /\ allocated' = TRUE
             /\ cnt' = DefaultSize
    <3>1. DefaultSize \in Nat \ {0}
      BY SizeAssumption
    <3>2. Fits(Empty(DefaultSize), DefaultSize, held, fresh)
      BY <3>1, <2>2, <1>0, EmptyFits
    <3>3. Fits(pool', DefaultSize, held', fresh') /\ Promise!Next
      BY <3>2, <2>0, <2>2, InternInKeeps
    <3>4. held' \in [Words -> {NoId} \cup (Nat \X Nat)]
      BY <3>3 DEF Fits
    <3>. QED
      BY <3>1, <3>3, <3>4, <2>0, <2>2, <1>0 DEF IInv, Fits, Bucket, Texts
  <2>. QED
    BY <1>1, <2>1, <2>2 DEF Intern
<1>2. ASSUME fresh' = {}, UNCHANGED <<held, got>> PROVE Promise!Next
  BY <1>2 DEF Promise!Next, Promise!Forget
<1>3. ASSUME NEW n \in PoolSizes, InitHashPool(n)
      PROVE  IInv' /\ Promise!Next
  <2>1. n \in Nat \ {0}
    BY SizeAssumption
  <2>2. Fits(Empty(n), n, held, {})
    BY <2>1, <1>0, EmptyFits
  <2>3. IInv'
    BY <2>1, <2>2, <1>0, <1>3 DEF InitHashPool, IInv, Fits, Bucket, Texts
  <2>. QED
    BY <2>3, <1>2, <1>3 DEF InitHashPool
<1>4. CASE ClearHashPool
  <2>1. IInv'
    BY <1>0, <1>4 DEF ClearHashPool, IInv, Empty, Texts
  <2>. QED
    BY <2>1, <1>2, <1>4 DEF ClearHashPool
<1>5. CASE UNCHANGED vars
  <2>1. IInv'
    BY <1>0, <1>5 DEF vars, IInv, Fits, Empty, Bucket, Texts
  <2>. QED
    BY <2>1, <1>5 DEF vars, Promise!vars
<1>. QED
  BY <1>1, <1>3, <1>4, <1>5, ReadKeeps DEF Next

\* The pool and the ids that callers were given from it always fit: every id of the living
\* pool reads back as its word, every node is held, and no chain holds a word twice.
THEOREM PoolFitsIds == Spec => []TypeOK
<1>1. IInv /\ [Next]_vars => IInv'
  BY StepKeeps
<1>. QED
  BY <1>1, InitFits, IInvIsEnough, PTL DEF Spec

\* SHashA implements Interner: it gives and shares ids only as callers were promised, a good
\* id reads as its word, and a pool that is cleared or made anew ends what was promised of
\* its ids, which their holders keep.
THEOREM PromiseKept == Spec => ImplementsInterner
<1>1. Init => IInv /\ Promise!Init
  BY InitFits DEF Init, Promise!Init
<1>2. IInv /\ [Next]_vars => IInv' /\ [Promise!Next]_(Promise!vars)
  BY StepKeeps
<1>. QED
  BY <1>1, <1>2, PTL DEF Spec, ImplementsInterner, Promise!Spec

=============================================================================
