------------------------ MODULE PooledLinkedListProofs ------------------------
(***************************************************************************)
(* The pooled linked list, for every pool and every set of items: no node  *)
(* is lost or handed out twice, the two chains mirror each other, and the  *)
(* list implements ItemSequence.                                           *)
(*                                                                         *)
(* That the chains mirror each other is not inductive: nodes in use could  *)
(* be linked in a ring that _head does not lead to, and PopBack would take *)
(* _head for a node.  The invariant says that there is a course c through  *)
(* the nodes in use, each once, from head to tail, which both chains       *)
(* follow.  A step of the list changes the course at one place.            *)
(***************************************************************************)
EXTENDS PooledLinkedList, SequenceTheorems, WellFoundedInduction, SequencesExt, TLAPS

Ends == {head, tail}

Course(c, s, used, nx, pv) ==
  /\ c \in [0 .. s + 1 -> Nodes \cup Ends]
  /\ c[0] = head /\ c[s + 1] = tail
  /\ \A i \in 1 .. s : c[i] \in used
  /\ \A n \in used : \E i \in 1 .. s : c[i] = n
  /\ \A i, j \in 1 .. s : c[i] = c[j] => i = j
  /\ \A i \in 0 .. s : nx[c[i]] = c[i + 1] /\ pv[c[i + 1]] = c[i]

\* The course with n after its k-th node, and without its k-th node.
Longer(c, s, k, n) ==
  [i \in 0 .. s + 2 |-> IF i <= k THEN c[i] ELSE IF i = k + 1 THEN n ELSE c[i - 1]]
Shorter(c, s, k) == [i \in 0 .. s |-> IF i < k THEN c[i] ELSE c[i + 1]]

ItemsOn(c, s, d) == [i \in 1 .. s |-> d[c[i]]]

IInv ==
  /\ TypeOK
  /\ PoolAccounted
  /\ \E c \in [0 .. size + 1 -> Nodes \cup Ends] : Course(c, size, Used, next, prev)

-----------------------------------------------------------------------------
\* Induction over the naturals: a set of naturals has a least element.
LEMMA Least ==
  ASSUME NEW T, T \subseteq Nat, T # {}
  PROVE  \E x \in T : \A y \in T : ~(y < x)
<1>1. IsWellFoundedOn(OpToRel(<, Nat), Nat)
  BY NatLessThanWellFounded, Zenon
<1>2. \A x, y \in Nat : x < y => <<x, y>> \in OpToRel(<, Nat)
  BY DEF OpToRel
<1>3. \E x \in T : \A y \in T : ~(<<y, x>> \in OpToRel(<, Nat))
  BY <1>1, WFMin, Zenon
<1> QED
  BY <1>2, <1>3, Zenon

\* What is met by following _next from _head, s times.
Walk(nx, s) ==
  CHOOSE f : f = [i \in 0 .. s |-> IF i = 0 THEN head ELSE nx[f[i - 1]]]

\* The walk along a course is the course.
LEMMA WalkIsCourse ==
  ASSUME NEW s \in Nat, NEW nx, NEW c,
         c[0] = head, \A i \in 0 .. s : nx[c[i]] = c[i + 1]
  PROVE  \A i \in 0 .. s : Walk(nx, s)[i] = c[i]
<1> DEFINE g == [i \in 0 .. s |-> c[i]]
           w == Walk(nx, s)
<1>1. g = [i \in 0 .. s |-> IF i = 0 THEN head ELSE nx[g[i - 1]]]
  <2>1. \A i \in 0 .. s : c[i] = IF i = 0 THEN head ELSE nx[g[i - 1]]
    <3>1. ASSUME NEW i \in 0 .. s, i # 0
          PROVE  c[i] = nx[g[i - 1]]
      <4>1. i - 1 \in 0 .. s /\ (i - 1) + 1 = i
        BY <3>1
      <4> QED
        BY <4>1
    <3> QED
      BY <3>1
  <2> QED
    BY <2>1
<1>2. w = [i \in 0 .. s |-> IF i = 0 THEN head ELSE nx[w[i - 1]]]
  BY <1>1 DEF Walk
<1> HIDE DEF w
<1> DEFINE T == {i \in 0 .. s : w[i] # c[i]}
<1>3. ASSUME T # {} PROVE FALSE
  <2>1. PICK x \in T : \A y \in T : ~(y < x)
    <3>1. T \subseteq Nat
      OBVIOUS
    <3> HIDE DEF T
    <3> QED
      BY <1>3, <3>1, Least, Zenon
  <2>2. x # 0
    BY <1>2, <2>1
  <2>3. x - 1 \in 0 .. s /\ (x - 1) + 1 = x /\ x - 1 < x
    BY <2>1, <2>2
  <2>4. w[x - 1] = c[x - 1]
    BY <2>1, <2>3
  <2>5. w[x] = nx[w[x - 1]]
    BY <1>2, <2>1, <2>2
  <2> QED
    BY <2>1, <2>3, <2>4, <2>5
<1> QED
  BY <1>3 DEF w

LEMMA AtIsWalk == At = Walk(next, size)
BY DEF At, Walk

LEMMA AtIsWalkNext == At' = Walk(next', size')
BY DEF At, Walk

-----------------------------------------------------------------------------
\* What a node holds.
Stored == Items \cup {NoItem}

\* What InsertAt and RemoveAt do to each element of a sequence of length s.
Inserted(q, s, k, x) ==
  [i \in 1 .. s + 1 |-> IF i <= k THEN q[i] ELSE IF i = k + 1 THEN x ELSE q[i - 1]]
Removed(q, s, k) == [i \in 1 .. s - 1 |-> IF i < k THEN q[i] ELSE q[i + 1]]

LEMMA InsertedItems ==
  ASSUME NEW s \in Nat, NEW q \in [1 .. s -> Stored], NEW k \in 0 .. s, NEW x \in Stored
  PROVE  InsertAt(q, k + 1, x) = Inserted(q, s, k, x)
<1> DEFINE r == [i \in 1 .. s + 1 |-> IF i <= k THEN q[i] ELSE IF i = k + 1 THEN x ELSE q[i - 1]]
           a == SubSeq(q, 1, (k + 1) - 1)
           b == SubSeq(q, k + 1, Len(q))
<1>1. q \in Seq(Stored) /\ Len(q) = s
  OBVIOUS
<1>2. /\ a \in Seq(Stored) /\ Len(a) = k
      /\ \A i \in 1 .. k : a[i] = q[i]
  <2>1. \A i \in 1 .. (k + 1) - 1 : q[i] \in Stored
    OBVIOUS
  <2>2. /\ a \in Seq(Stored)
        /\ Len(a) = IF 1 <= (k + 1) - 1 THEN ((k + 1) - 1) - 1 + 1 ELSE 0
        /\ \A i \in 1 .. ((k + 1) - 1) - 1 + 1 : a[i] = q[1 + i - 1]
    BY <2>1, SubSeqProperties
  <2> QED
    BY <2>2
<1>3. /\ b \in Seq(Stored) /\ Len(b) = s - k
      /\ \A i \in 1 .. s - k : b[i] = q[k + i]
  <2>1. \A i \in k + 1 .. Len(q) : q[i] \in Stored
    BY <1>1
  <2>2. /\ b \in Seq(Stored)
        /\ Len(b) = IF k + 1 <= Len(q) THEN Len(q) - (k + 1) + 1 ELSE 0
        /\ \A i \in 1 .. Len(q) - (k + 1) + 1 : b[i] = q[(k + 1) + i - 1]
    BY <1>1, <2>1, SubSeqProperties
  <2> QED
    BY <1>1, <2>2
<1> HIDE DEF a, b
<1>4. <<x>> \in Seq(Stored) /\ Len(<<x>>) = 1 /\ <<x>>[1] = x
  OBVIOUS
<1>5. /\ a \o <<x>> \in Seq(Stored) /\ Len(a \o <<x>>) = k + 1
      /\ \A i \in 1 .. k + 1 : (a \o <<x>>)[i] = IF i <= k THEN q[i] ELSE x
  <2>1. /\ a \o <<x>> \in Seq(Stored) /\ Len(a \o <<x>>) = Len(a) + Len(<<x>>)
        /\ \A i \in 1 .. Len(a) + Len(<<x>>) :
             (a \o <<x>>)[i] = IF i <= Len(a) THEN a[i] ELSE <<x>>[i - Len(a)]
    BY <1>2, <1>4, ConcatProperties
  <2> QED
    BY <1>2, <1>4, <2>1
<1> DEFINE ax == a \o <<x>>
<1> HIDE DEF ax
<1>6. /\ ax \o b \in Seq(Stored) /\ Len(ax \o b) = s + 1
      /\ \A i \in 1 .. s + 1 : (ax \o b)[i] = r[i]
  <2>1. /\ ax \o b \in Seq(Stored) /\ Len(ax \o b) = Len(ax) + Len(b)
        /\ \A i \in 1 .. Len(ax) + Len(b) :
             (ax \o b)[i] = IF i <= Len(ax) THEN ax[i] ELSE b[i - Len(ax)]
    BY <1>3, <1>5, ConcatProperties DEF ax
  <2>2. Len(ax) = k + 1 /\ \A i \in 1 .. k + 1 : ax[i] = IF i <= k THEN q[i] ELSE x
    BY <1>5 DEF ax
  <2>3. ASSUME NEW i \in 1 .. s + 1 PROVE (ax \o b)[i] = r[i]
    <3>1. CASE i <= k + 1
      BY <1>3, <2>1, <2>2, <3>1
    <3>2. CASE i > k + 1
      <4>1. i - (k + 1) \in 1 .. s - k /\ k + (i - (k + 1)) = i - 1
        BY <3>2
      <4> QED
        BY <1>3, <2>1, <2>2, <3>2, <4>1
    <3>3. i <= k + 1 \/ i > k + 1
      OBVIOUS
    <3> QED
      BY <3>1, <3>2, <3>3, Zenon
  <2> QED
    BY <1>3, <2>1, <2>2, <2>3
<1>7. r \in Seq(Stored) /\ Len(r) = s + 1
  OBVIOUS
<1>8. ax \o b = r
  BY <1>6, <1>7, SeqEqual
<1> QED
  BY <1>8 DEF InsertAt, Inserted, ax, a, b

LEMMA RemovedItems ==
  ASSUME NEW s \in Nat, NEW q \in [1 .. s -> Stored], NEW k \in 1 .. s
  PROVE  RemoveAt(q, k) = Removed(q, s, k)
<1> DEFINE r == [i \in 1 .. s - 1 |-> IF i < k THEN q[i] ELSE q[i + 1]]
           a == SubSeq(q, 1, k - 1)
           b == SubSeq(q, k + 1, Len(q))
<1>1. q \in Seq(Stored) /\ Len(q) = s
  OBVIOUS
<1>2. /\ a \in Seq(Stored) /\ Len(a) = k - 1
      /\ \A i \in 1 .. k - 1 : a[i] = q[i]
  <2>1. \A i \in 1 .. k - 1 : q[i] \in Stored
    OBVIOUS
  <2>2. /\ a \in Seq(Stored)
        /\ Len(a) = IF 1 <= k - 1 THEN (k - 1) - 1 + 1 ELSE 0
        /\ \A i \in 1 .. (k - 1) - 1 + 1 : a[i] = q[1 + i - 1]
    BY <2>1, SubSeqProperties
  <2> QED
    BY <2>2
<1>3. /\ b \in Seq(Stored) /\ Len(b) = s - k
      /\ \A i \in 1 .. s - k : b[i] = q[k + i]
  <2>1. \A i \in k + 1 .. Len(q) : q[i] \in Stored
    BY <1>1
  <2>2. /\ b \in Seq(Stored)
        /\ Len(b) = IF k + 1 <= Len(q) THEN Len(q) - (k + 1) + 1 ELSE 0
        /\ \A i \in 1 .. Len(q) - (k + 1) + 1 : b[i] = q[(k + 1) + i - 1]
    BY <1>1, <2>1, SubSeqProperties
  <2> QED
    BY <1>1, <2>2
<1> HIDE DEF a, b
<1>4. /\ a \o b \in Seq(Stored) /\ Len(a \o b) = s - 1
      /\ \A i \in 1 .. s - 1 : (a \o b)[i] = r[i]
  <2>1. /\ a \o b \in Seq(Stored) /\ Len(a \o b) = Len(a) + Len(b)
        /\ \A i \in 1 .. Len(a) + Len(b) :
             (a \o b)[i] = IF i <= Len(a) THEN a[i] ELSE b[i - Len(a)]
    BY <1>2, <1>3, ConcatProperties
  <2>2. ASSUME NEW i \in 1 .. s - 1 PROVE (a \o b)[i] = r[i]
    <3>1. CASE i < k
      BY <1>2, <1>3, <2>1, <3>1
    <3>2. CASE i >= k
      <4>1. i - (k - 1) \in 1 .. s - k /\ k + (i - (k - 1)) = i + 1
        BY <3>2
      <4> QED
        BY <1>2, <1>3, <2>1, <3>2, <4>1
    <3>3. i < k \/ i >= k
      OBVIOUS
    <3> QED
      BY <3>1, <3>2, <3>3, Zenon
  <2>3. Len(a) + Len(b) = s - 1
    BY <1>2, <1>3
  <2> QED
    BY <2>1, <2>2, <2>3
<1>5. r \in Seq(Stored) /\ Len(r) = s - 1
  <2>1. s - 1 \in Nat
    OBVIOUS
  <2>2. \A i \in 1 .. s - 1 : r[i] \in Stored
    OBVIOUS
  <2> QED
    BY <2>1, <2>2
<1>6. a \o b = r
  BY <1>4, <1>5, SeqEqual
<1> QED
  BY <1>6 DEF RemoveAt, Removed, a, b

-----------------------------------------------------------------------------
\* The sentinels stand at the ends of a course only.
Placed(c, s, used) ==
  /\ \A i \in 0 .. s : c[i] \in used \cup {head}
  /\ \A i \in 1 .. s + 1 : c[i] \in used \cup {tail}
  /\ \A i, j \in 0 .. s : c[i] = c[j] => i = j
  /\ \A i, j \in 1 .. s + 1 : c[i] = c[j] => i = j

LEMMA CourseNodes ==
  ASSUME NEW s \in Nat, NEW used, used \subseteq Nodes, NEW nx, NEW pv,
         NEW c, Course(c, s, used, nx, pv)
  PROVE  Placed(c, s, used)
<1>1. head \notin used /\ tail \notin used
  BY NamesAssumption
<1>2. /\ c[0] = head /\ c[s + 1] = tail
      /\ \A i \in 1 .. s : c[i] \in used
      /\ \A i, j \in 1 .. s : c[i] = c[j] => i = j
  BY DEF Course
<1>3. \A i \in 0 .. s : i = 0 \/ i \in 1 .. s
  OBVIOUS
<1>4. \A i \in 1 .. s + 1 : i = s + 1 \/ i \in 1 .. s
  OBVIOUS
<1>5. /\ \A i \in 0 .. s : c[i] \in used \cup {head}
      /\ \A i \in 1 .. s + 1 : c[i] \in used \cup {tail}
  BY <1>2, <1>3, <1>4
<1>6. \A i, j \in 0 .. s : c[i] = c[j] => i = j
  BY <1>1, <1>2, <1>3
<1>7. \A i, j \in 1 .. s + 1 : c[i] = c[j] => i = j
  BY <1>1, <1>2, <1>4
<1> QED
  BY <1>5, <1>6, <1>7 DEF Placed

\* A course with one node more.
LEMMA CourseLonger ==
  ASSUME NEW s \in Nat, NEW used, used \subseteq Nodes, NEW n \in Nodes \ used, NEW k \in 0 .. s,
         NEW nx \in [Nodes \cup {head} -> Nodes \cup {tail, Null}],
         NEW pv \in [Nodes \cup {tail} -> Nodes \cup {head, Null}],
         NEW c, Course(c, s, used, nx, pv)
  PROVE  Course(Longer(c, s, k, n), s + 1, used \cup {n},
                [nx EXCEPT ![n] = c[k + 1], ![c[k]] = n],
                [pv EXCEPT ![n] = c[k], ![c[k + 1]] = n])
<1> DEFINE d == Longer(c, s, k, n)
           nx2 == [nx EXCEPT ![n] = c[k + 1], ![c[k]] = n]
           pv2 == [pv EXCEPT ![n] = c[k], ![c[k + 1]] = n]
<1>1. \A i \in 0 .. s + 2 : d[i] = IF i <= k THEN c[i] ELSE IF i = k + 1 THEN n ELSE c[i - 1]
  BY DEF Longer
<1>2. /\ \A i \in 0 .. s : c[i] \in used \cup {head}
      /\ \A i \in 1 .. s + 1 : c[i] \in used \cup {tail}
      /\ \A i, j \in 0 .. s : c[i] = c[j] => i = j
      /\ \A i, j \in 1 .. s + 1 : c[i] = c[j] => i = j
  <2>1. Placed(c, s, used)
    BY CourseNodes
  <2> QED
    BY <2>1 DEF Placed
<1>3. d \in [0 .. (s + 1) + 1 -> Nodes \cup Ends] /\ d[0] = head /\ d[(s + 1) + 1] = tail
  <2>1. /\ c[0] = head /\ c[s + 1] = tail /\ n \in Nodes
        /\ \A i \in 0 .. s + 1 : c[i] \in Nodes \cup Ends
    BY DEF Course
  <2>2. d[0] = head /\ d[s + 2] = tail /\ (s + 1) + 1 = s + 2
    BY <1>1, <2>1
  <2>3. ASSUME NEW i \in 0 .. s + 2 PROVE d[i] \in Nodes \cup Ends
    <3>1. i <= k => i \in 0 .. s + 1
      OBVIOUS
    <3>2. ~(i <= k) /\ i # k + 1 => i - 1 \in 0 .. s + 1
      OBVIOUS
    <3> QED
      BY <1>1, <2>1, <3>1, <3>2
  <2>4. d = [i \in 0 .. s + 2 |-> d[i]]
    BY DEF Longer
  <2> HIDE DEF d
  <2>5. d \in [0 .. s + 2 -> Nodes \cup Ends]
    BY <2>3, <2>4
  <2> QED
    BY <2>2, <2>5
<1>4. \A i \in 1 .. s + 1 : d[i] \in used \cup {n}
  <2> TAKE i \in 1 .. s + 1
  <2>1. \A h \in 1 .. s : c[h] \in used
    BY DEF Course
  <2>2. /\ i <= k => i \in 1 .. s
        /\ ~(i <= k) /\ i # k + 1 => i - 1 \in 1 .. s
        /\ i \in 0 .. s + 2
    OBVIOUS
  <2>3. d[i] = IF i <= k THEN c[i] ELSE IF i = k + 1 THEN n ELSE c[i - 1]
    BY <1>1, <2>2
  <2> HIDE DEF d
  <2> QED
    BY <2>1, <2>2, <2>3
<1>5. \A m \in used \cup {n} : \E i \in 1 .. s + 1 : d[i] = m
  <2>1. d[k + 1] = n /\ k + 1 \in 1 .. s + 1
    BY <1>1
  <2>2. ASSUME NEW m \in used PROVE \E i \in 1 .. s + 1 : d[i] = m
    <3>1. PICK i \in 1 .. s : c[i] = m
      BY DEF Course
    <3>2. CASE i <= k
      BY <1>1, <3>1, <3>2
    <3>3. CASE i > k
      <4>1. i + 1 \in 1 .. s + 1 /\ d[i + 1] = c[i]
        BY <1>1, <3>3
      <4> QED
        BY <3>1, <4>1
    <3> QED
      BY <3>2, <3>3
  <2> QED
    BY <2>1, <2>2
<1>6. \A i, j \in 1 .. s + 1 : d[i] = d[j] => i = j
  <2> SUFFICES ASSUME NEW i \in 1 .. s + 1, NEW j \in 1 .. s + 1, d[i] = d[j], i < j
               PROVE  FALSE
    OBVIOUS
  <2>1. \A h \in 1 .. s : c[h] # n
    BY DEF Course
  <2>2. CASE j <= k
    BY <1>1, <1>2, <2>2
  <2>3. CASE j = k + 1
    BY <1>1, <2>1, <2>3
  <2>4. CASE j > k + 1 /\ i = k + 1
    <3>1. d[j] = c[j - 1] /\ j - 1 \in 1 .. s /\ d[i] = n
      BY <1>1, <2>4
    <3> QED
      BY <2>1, <3>1
  <2>5. CASE j > k + 1 /\ i <= k
    <3>1. d[j] = c[j - 1] /\ j - 1 \in 1 .. s /\ d[i] = c[i] /\ i \in 1 .. s /\ i # j - 1
      BY <1>1, <2>5
    <3> QED
      BY <3>1 DEF Course
  <2>6. CASE j > k + 1 /\ i > k + 1
    <3>1. /\ d[j] = c[j - 1] /\ j - 1 \in 1 .. s /\ d[i] = c[i - 1] /\ i - 1 \in 1 .. s
          /\ i - 1 # j - 1
      BY <1>1, <2>6
    <3> QED
      BY <3>1 DEF Course
  <2> QED
    BY <2>2, <2>3, <2>4, <2>5, <2>6
<1>7. \A i \in 0 .. s + 1 : nx2[d[i]] = d[i + 1] /\ pv2[d[i + 1]] = d[i]
  <2> TAKE i \in 0 .. s + 1
  <2>1. /\ c[k] \in Nodes \cup {head} /\ c[k + 1] \in Nodes \cup {tail}
        /\ n # head /\ n # tail /\ c[k] # n /\ c[k + 1] # n
    BY <1>2, NamesAssumption
  <2>2. nx2[n] = c[k + 1] /\ nx2[c[k]] = n
    BY <2>1
  <2>3. pv2[n] = c[k] /\ pv2[c[k + 1]] = n
    BY <2>1
  <2>4. \A h \in 0 .. s : h # k => nx2[c[h]] = c[h + 1] /\ pv2[c[h + 1]] = c[h]
    <3> SUFFICES ASSUME NEW h \in 0 .. s, h # k
                 PROVE  nx2[c[h]] = c[h + 1] /\ pv2[c[h + 1]] = c[h]
      OBVIOUS
    <3>1. c[h] \in Nodes \cup {head} /\ c[h] # n /\ c[h] # c[k]
      BY <1>2, NamesAssumption
    <3>2. c[h + 1] \in Nodes \cup {tail} /\ c[h + 1] # n /\ c[h + 1] # c[k + 1]
      BY <1>2, NamesAssumption
    <3>3. nx2[c[h]] = nx[c[h]] /\ pv2[c[h + 1]] = pv[c[h + 1]]
      BY <3>1, <3>2
    <3> QED
      BY <3>3 DEF Course
  <2> HIDE DEF nx2, pv2
  <2>5. CASE i < k
    <3>1. d[i] = c[i] /\ d[i + 1] = c[i + 1] /\ i \in 0 .. s /\ i # k
      BY <1>1, <2>5
    <3> QED
      BY <2>4, <3>1
  <2>6. CASE i = k
    <3>1. d[i] = c[k] /\ d[i + 1] = n
      BY <1>1, <2>6
    <3> QED
      BY <2>2, <2>3, <3>1
  <2>7. CASE i = k + 1
    <3>1. d[i] = n /\ d[i + 1] = c[k + 1]
      BY <1>1, <2>7
    <3> QED
      BY <2>2, <2>3, <3>1
  <2>8. CASE i > k + 1
    <3>1. d[i] = c[i - 1] /\ d[i + 1] = c[(i - 1) + 1] /\ i - 1 \in 0 .. s /\ i - 1 # k
      BY <1>1, <2>8
    <3> QED
      BY <2>4, <3>1
  <2> QED
    BY <2>5, <2>6, <2>7, <2>8
<1> HIDE DEF d, nx2, pv2
<1>8. Course(d, s + 1, used \cup {n}, nx2, pv2)
  BY <1>3, <1>4, <1>5, <1>6, <1>7 DEF Course
<1> QED
  BY <1>8 DEF d, nx2, pv2

\* A course with one node less.
LEMMA CourseShorter ==
  ASSUME NEW s \in Nat, NEW used, used \subseteq Nodes, NEW k \in 1 .. s,
         NEW nx \in [Nodes \cup {head} -> Nodes \cup {tail, Null}],
         NEW pv \in [Nodes \cup {tail} -> Nodes \cup {head, Null}],
         NEW c, Course(c, s, used, nx, pv),
         NEW n, n = c[k]
  PROVE  Course(Shorter(c, s, k), s - 1, used \ {n},
                [nx EXCEPT ![pv[n]] = nx[n], ![n] = Null],
                [pv EXCEPT ![nx[n]] = pv[n], ![n] = Null])
<1> DEFINE d == Shorter(c, s, k)
           nx2 == [nx EXCEPT ![pv[n]] = nx[n], ![n] = Null]
           pv2 == [pv EXCEPT ![nx[n]] = pv[n], ![n] = Null]
<1>1. \A i \in 0 .. s : d[i] = IF i < k THEN c[i] ELSE c[i + 1]
  BY DEF Shorter
<1>2. /\ \A i \in 0 .. s : c[i] \in used \cup {head}
      /\ \A i \in 1 .. s + 1 : c[i] \in used \cup {tail}
      /\ \A i, j \in 0 .. s : c[i] = c[j] => i = j
      /\ \A i, j \in 1 .. s + 1 : c[i] = c[j] => i = j
  <2>1. Placed(c, s, used)
    BY CourseNodes
  <2> QED
    BY <2>1 DEF Placed
<1>3. d \in [0 .. (s - 1) + 1 -> Nodes \cup Ends] /\ d[0] = head /\ d[(s - 1) + 1] = tail
  <2>1. /\ c[0] = head /\ c[s + 1] = tail
        /\ \A i \in 0 .. s + 1 : c[i] \in Nodes \cup Ends
    BY DEF Course
  <2>2. d[0] = head /\ d[s] = tail /\ (s - 1) + 1 = s
    BY <1>1, <2>1
  <2>3. ASSUME NEW i \in 0 .. s PROVE d[i] \in Nodes \cup Ends
    <3>1. i \in 0 .. s + 1 /\ i + 1 \in 0 .. s + 1
      OBVIOUS
    <3> QED
      BY <1>1, <2>1, <3>1
  <2>4. d = [i \in 0 .. s |-> d[i]]
    BY DEF Shorter
  <2> HIDE DEF d
  <2>5. d \in [0 .. s -> Nodes \cup Ends]
    BY <2>3, <2>4
  <2> QED
    BY <2>2, <2>5
<1>4. \A i \in 1 .. s - 1 : d[i] \in used \ {n}
  <2> TAKE i \in 1 .. s - 1
  <2>1. CASE i < k
    <3>1. d[i] = c[i] /\ i \in 1 .. s /\ i # k
      BY <1>1, <2>1
    <3> QED
      BY <3>1 DEF Course
  <2>2. CASE i >= k
    <3>1. d[i] = c[i + 1] /\ i + 1 \in 1 .. s /\ i + 1 # k
      BY <1>1, <2>2
    <3> QED
      BY <3>1 DEF Course
  <2> QED
    BY <2>1, <2>2
<1>5. \A m \in used \ {n} : \E i \in 1 .. s - 1 : d[i] = m
  <2> TAKE m \in used \ {n}
  <2>1. PICK i \in 1 .. s : c[i] = m
    BY DEF Course
  <2>2. CASE i < k
    BY <1>1, <2>1, <2>2
  <2>3. CASE i > k
    <3>1. i - 1 \in 1 .. s - 1 /\ d[i - 1] = c[i]
      BY <1>1, <2>3
    <3> QED
      BY <2>1, <3>1
  <2> QED
    BY <2>1, <2>2, <2>3
<1>6. \A i, j \in 1 .. s - 1 : d[i] = d[j] => i = j
  <2> SUFFICES ASSUME NEW i \in 1 .. s - 1, NEW j \in 1 .. s - 1, d[i] = d[j], i < j
               PROVE  FALSE
    OBVIOUS
  <2> DEFINE at(h) == IF h < k THEN h ELSE h + 1
  <2>1. d[i] = c[at(i)] /\ d[j] = c[at(j)] /\ at(i) \in 1 .. s /\ at(j) \in 1 .. s
    BY <1>1
  <2>2. at(i) # at(j)
    OBVIOUS
  <2> HIDE DEF at
  <2> QED
    BY <2>1, <2>2 DEF Course
<1>7. \A i \in 0 .. s - 1 : nx2[d[i]] = d[i + 1] /\ pv2[d[i + 1]] = d[i]
  <2> TAKE i \in 0 .. s - 1
  <2>1. k - 1 \in 0 .. s /\ k \in 0 .. s /\ (k - 1) + 1 = k
    OBVIOUS
  <2>2. pv[n] = c[k - 1] /\ nx[n] = c[k + 1]
    BY <2>1 DEF Course
  <2>3. /\ c[k - 1] \in Nodes \cup {head} /\ c[k + 1] \in Nodes \cup {tail} /\ n \in Nodes
        /\ c[k - 1] # n /\ c[k + 1] # n
    <3>1. n \in Nodes
      BY DEF Course
    <3>2. c[k - 1] \in Nodes \cup {head} /\ c[k - 1] # n
      BY <1>2, <2>1
    <3>3. c[k + 1] \in Nodes \cup {tail} /\ c[k + 1] # n /\ k + 1 \in 1 .. s + 1
      BY <1>2
    <3> QED
      BY <3>1, <3>2, <3>3
  <2>4. nx2[c[k - 1]] = c[k + 1] /\ pv2[c[k + 1]] = c[k - 1]
    BY <2>2, <2>3
  <2>5. \A h \in 0 .. s : h # k - 1 /\ h # k => nx2[c[h]] = c[h + 1] /\ pv2[c[h + 1]] = c[h]
    <3> SUFFICES ASSUME NEW h \in 0 .. s, h # k - 1, h # k
                 PROVE  nx2[c[h]] = c[h + 1] /\ pv2[c[h + 1]] = c[h]
      OBVIOUS
    <3>1. c[h] \in Nodes \cup {head} /\ c[h] # n /\ c[h] # c[k - 1]
      BY <1>2, <2>1
    <3>2. c[h + 1] \in Nodes \cup {tail} /\ c[h + 1] # n /\ c[h + 1] # c[k + 1]
      <4>1. h + 1 \in 1 .. s + 1 /\ k \in 1 .. s + 1 /\ k + 1 \in 1 .. s + 1
        OBVIOUS
      <4> QED
        BY <1>2, <4>1
    <3>3. nx2[c[h]] = nx[c[h]] /\ pv2[c[h + 1]] = pv[c[h + 1]]
      BY <2>2, <2>3, <3>1, <3>2
    <3> QED
      BY <3>3 DEF Course
  <2> HIDE DEF nx2, pv2
  <2>6. CASE i < k - 1
    <3>1. d[i] = c[i] /\ d[i + 1] = c[i + 1] /\ i \in 0 .. s /\ i # k - 1 /\ i # k
      BY <1>1, <2>6
    <3> QED
      BY <2>5, <3>1
  <2>7. CASE i = k - 1
    <3>1. d[i] = c[k - 1] /\ d[i + 1] = c[k + 1]
      BY <1>1, <2>7
    <3> QED
      BY <2>4, <3>1
  <2>8. CASE i > k - 1
    <3>1. d[i] = c[i + 1] /\ d[i + 1] = c[(i + 1) + 1] /\ i + 1 \in 0 .. s
          /\ i + 1 # k - 1 /\ i + 1 # k
      BY <1>1, <2>8
    <3> QED
      BY <2>5, <3>1
  <2> QED
    BY <2>6, <2>7, <2>8
<1> HIDE DEF d, nx2, pv2
<1>8. Course(d, s - 1, used \ {n}, nx2, pv2)
  BY <1>3, <1>4, <1>5, <1>6, <1>7 DEF Course
<1> QED
  BY <1>8 DEF d, nx2, pv2

\* The items met on the longer and on the shorter course, when only n changes its own.
Rewritten(dat, dat2, n) ==
  /\ \A m \in Nodes : dat[m] \in Stored
  /\ \A m \in Nodes \ {n} : dat2[m] = dat[m]

\* The node n, not in use so far, has received the item x.
Received(used, dat2, n, x) == n \in Nodes \ used /\ x \in Items /\ dat2[n] = x

LEMMA ItemsLonger ==
  ASSUME NEW s \in Nat, NEW used, used \subseteq Nodes, NEW k \in 0 .. s,
         NEW nx, NEW pv, NEW c, Course(c, s, used, nx, pv), NEW dat, NEW dat2, NEW n, NEW x,
         Rewritten(dat, dat2, n), Received(used, dat2, n, x)
  PROVE  ItemsOn(Longer(c, s, k, n), s + 1, dat2)
           = InsertAt(ItemsOn(c, s, dat), k + 1, x)
<1> DEFINE q == ItemsOn(c, s, dat)
           d == Longer(c, s, k, n)
<1>0. \A i \in 1 .. s : c[i] \in Nodes \ {n}
  BY DEF Course, Received
<1>1. q \in [1 .. s -> Stored] /\ \A i \in 1 .. s : q[i] = dat[c[i]]
  BY <1>0 DEF ItemsOn, Rewritten
<1>2. \A i \in 0 .. s + 2 : d[i] = IF i <= k THEN c[i] ELSE IF i = k + 1 THEN n ELSE c[i - 1]
  BY DEF Longer
<1>3. dat2[n] = x /\ \A i \in 1 .. s : dat2[c[i]] = dat[c[i]]
  BY <1>0 DEF Rewritten, Received
<1> HIDE DEF q, d
<1>4. ASSUME NEW i \in 1 .. s + 1
      PROVE  dat2[d[i]] = IF i <= k THEN q[i] ELSE IF i = k + 1 THEN x ELSE q[i - 1]
  <2>1. CASE i <= k
    BY <1>1, <1>2, <1>3, <2>1
  <2>2. CASE i = k + 1
    BY <1>2, <1>3, <2>2
  <2>3. CASE i > k + 1
    <3>1. i - 1 \in 1 .. s /\ d[i] = c[i - 1]
      BY <1>2, <2>3
    <3> QED
      BY <1>1, <1>3, <2>3, <3>1
  <2> QED
    BY <2>1, <2>2, <2>3
<1>5. InsertAt(q, k + 1, x) = Inserted(q, s, k, x)
  <2>1. q \in [1 .. s -> Stored] /\ x \in Stored
    BY <1>1 DEF Stored, Received
  <2> QED
    BY <2>1, InsertedItems
<1>6. ItemsOn(d, s + 1, dat2) = InsertAt(q, k + 1, x)
  BY <1>4, <1>5 DEF ItemsOn, Inserted
<1> QED
  BY <1>6 DEF q, d

LEMMA ItemsShorter ==
  ASSUME NEW s \in Nat, NEW used, used \subseteq Nodes, NEW k \in 1 .. s,
         NEW nx, NEW pv, NEW c, Course(c, s, used, nx, pv),
         NEW n, n = c[k], NEW dat, NEW dat2, Rewritten(dat, dat2, n)
  PROVE  ItemsOn(Shorter(c, s, k), s - 1, dat2)
           = RemoveAt(ItemsOn(c, s, dat), k)
<1> DEFINE q == ItemsOn(c, s, dat)
           d == Shorter(c, s, k)
<1>0. /\ \A i \in 1 .. s : c[i] \in Nodes
      /\ \A i, j \in 1 .. s : c[i] = c[j] => i = j
  BY DEF Course
<1>1. q \in [1 .. s -> Stored] /\ \A i \in 1 .. s : q[i] = dat[c[i]]
  BY <1>0 DEF ItemsOn, Rewritten
<1>2. \A i \in 0 .. s : d[i] = IF i < k THEN c[i] ELSE c[i + 1]
  BY DEF Shorter
<1>3. \A i \in 1 .. s : i # k => dat2[c[i]] = dat[c[i]]
  BY <1>0 DEF Rewritten
<1> HIDE DEF q, d
<1>4. ASSUME NEW i \in 1 .. s - 1
      PROVE  dat2[d[i]] = IF i < k THEN q[i] ELSE q[i + 1]
  <2>1. CASE i < k
    <3>1. i \in 1 .. s /\ i # k /\ d[i] = c[i]
      BY <1>2, <2>1
    <3> QED
      BY <1>1, <1>3, <2>1, <3>1
  <2>2. CASE i >= k
    <3>1. i + 1 \in 1 .. s /\ i + 1 # k /\ d[i] = c[i + 1]
      BY <1>2, <2>2
    <3> QED
      BY <1>1, <1>3, <2>2, <3>1
  <2> QED
    BY <2>1, <2>2
<1>5. RemoveAt(q, k) = Removed(q, s, k)
  <2>1. q \in [1 .. s -> Stored]
    BY <1>1 DEF Stored
  <2> QED
    BY <2>1, RemovedItems
<1>6. ItemsOn(d, s - 1, dat2) = RemoveAt(q, k)
  BY <1>4, <1>5 DEF ItemsOn, Removed
<1> QED
  BY <1>6 DEF q, d

-----------------------------------------------------------------------------
\* A new node between the k-th and the next of the course.
LEMMA Links ==
  ASSUME TypeOK, PoolAccounted, size < Capacity,
         NEW c, Course(c, size, Used, next, prev),
         NEW k \in 0 .. size, NEW x \in Items, Link(c[k], c[k + 1], x),
         NEW n, n = stack[top]
  PROVE  /\ TypeOK' /\ PoolAccounted'
         /\ size' = size + 1 /\ found' = found
         /\ Course(Longer(c, size, k, n), size + 1, Used', next', prev')
         /\ ItemsOn(Longer(c, size, k, n), size + 1, data')
              = InsertAt(ItemsOn(c, size, data), k + 1, x)
<1>1. /\ next' = [next EXCEPT ![n] = c[k + 1], ![c[k]] = n]
      /\ prev' = [prev EXCEPT ![n] = c[k], ![c[k + 1]] = n]
      /\ data' = [data EXCEPT ![n] = x]
      /\ top' = top + 1 /\ size' = size + 1 /\ stack' = stack /\ found' = found
  BY DEF Link
<1>2. /\ size \in Nat /\ top = size /\ top \in Nodes /\ Capacity \in Nat
      /\ stack \in [Nodes -> Nodes] /\ data \in [Nodes -> Items \cup {NoItem}]
      /\ next \in [Nodes \cup {head} -> Nodes \cup {tail, Null}]
      /\ prev \in [Nodes \cup {tail} -> Nodes \cup {head, Null}]
  BY CapacityAssumption DEF TypeOK, Nodes
<1>3. Used \subseteq Nodes /\ n \in Nodes \ Used
  BY <1>2 DEF Used, Nodes
<1>4. Used' = Used \cup {n}
  <2>1. top .. Capacity - 1 = {top} \cup (top + 1 .. Capacity - 1)
    BY <1>2 DEF Nodes
  <2>2. top \notin top + 1 .. Capacity - 1
    BY <1>2
  <2>3. \A i \in top + 1 .. Capacity - 1 : stack[i] # n
    BY <1>2, <2>1, <2>2 DEF PoolAccounted
  <2> QED
    BY <1>1, <1>2, <2>1, <2>3 DEF Used
<1>5. Course(Longer(c, size, k, n), size + 1, Used', next', prev')
  BY <1>1, <1>2, <1>3, <1>4, CourseLonger
<1>6. c[k] \in Nodes \cup {head} /\ c[k + 1] \in Nodes \cup {tail}
  <2>1. Placed(c, size, Used)
    BY <1>2, <1>3, CourseNodes
  <2>2. k + 1 \in 1 .. size + 1
    BY <1>2
  <2>3. c[k] \in Used \cup {head} /\ c[k + 1] \in Used \cup {tail}
    BY <2>1, <2>2 DEF Placed
  <2> QED
    BY <1>3, <2>3
<1>7. TypeOK'
  <2>1. /\ next' \in [Nodes \cup {head} -> Nodes \cup {tail, Null}]
        /\ prev' \in [Nodes \cup {tail} -> Nodes \cup {head, Null}]
    BY <1>1, <1>2, <1>3, <1>6
  <2>2. data' \in [Nodes -> Items \cup {NoItem}]
    BY <1>1, <1>2, <1>3
  <2>3. size' \in 0 .. Capacity /\ top' = size'
    BY <1>1, <1>2
  <2> QED
    BY <1>1, <2>1, <2>2, <2>3 DEF TypeOK
<1>8. PoolAccounted'
  <2>1. \A i, j \in top' .. Capacity - 1 : stack'[i] = stack'[j] => i = j
    BY <1>1, <1>2 DEF PoolAccounted
  <2>2. Used' = {m \in Nodes : data'[m] # NoItem}
    BY <1>1, <1>2, <1>3, <1>4, NamesAssumption DEF PoolAccounted
  <2> QED
    BY <2>1, <2>2 DEF PoolAccounted
<1>9. ItemsOn(Longer(c, size, k, n), size + 1, data')
        = InsertAt(ItemsOn(c, size, data), k + 1, x)
  <2>1. Rewritten(data, data', n) /\ Received(Used, data', n, x)
    <3>1. n \in Nodes
      BY <1>3
    <3>2. /\ data' = [data EXCEPT ![n] = x]
          /\ data \in [Nodes -> Items \cup {NoItem}]
      BY <1>1, <1>2
    <3>3. data'[n] = x /\ \A m \in Nodes \ {n} : data'[m] = data[m]
      BY <3>1, <3>2
    <3>4. \A m \in Nodes : data[m] \in Stored
      BY <3>2 DEF Stored
    <3> QED
      BY <1>3, <3>3, <3>4 DEF Rewritten, Received
  <2>2. size \in Nat /\ Used \subseteq Nodes
    BY <1>2, <1>3
  <2> QED
    BY <2>1, <2>2, ItemsLonger
<1> QED
  BY <1>1, <1>5, <1>7, <1>8, <1>9

\* The k-th node of the course is taken out.
LEMMA Unlinks ==
  ASSUME TypeOK, PoolAccounted,
         NEW c, Course(c, size, Used, next, prev),
         NEW k \in 1 .. size, NEW n, n = c[k], Unlink(n)
  PROVE  /\ TypeOK' /\ PoolAccounted'
         /\ size' = size - 1 /\ found' = found
         /\ Course(Shorter(c, size, k), size - 1, Used', next', prev')
         /\ ItemsOn(Shorter(c, size, k), size - 1, data')
              = RemoveAt(ItemsOn(c, size, data), k)
<1>1. /\ next' = [next EXCEPT ![prev[n]] = next[n], ![n] = Null]
      /\ prev' = [prev EXCEPT ![next[n]] = prev[n], ![n] = Null]
      /\ data' = [data EXCEPT ![n] = NoItem]
      /\ top' = top - 1 /\ size' = size - 1 /\ stack' = [stack EXCEPT ![top - 1] = n]
      /\ found' = found
  BY DEF Unlink
<1>2. /\ size \in Nat /\ size <= Capacity /\ top = size /\ Capacity \in Nat
      /\ stack \in [Nodes -> Nodes] /\ data \in [Nodes -> Items \cup {NoItem}]
      /\ next \in [Nodes \cup {head} -> Nodes \cup {tail, Null}]
      /\ prev \in [Nodes \cup {tail} -> Nodes \cup {head, Null}]
      /\ top - 1 \in Nodes
  BY CapacityAssumption DEF TypeOK, Nodes
<1>3. Used \subseteq Nodes /\ n \in Used
  BY DEF Used, Course
<1>4. \A i \in top .. Capacity - 1 : i \in Nodes /\ stack[i] # n /\ stack'[i] = stack[i]
  <2> TAKE i \in top .. Capacity - 1
  <2>1. i \in Nodes /\ i # top - 1
    BY <1>2 DEF Nodes
  <2>2. stack[i] # n
    BY <1>3 DEF Used
  <2>3. stack'[i] = stack[i]
    BY <1>1, <1>2, <2>1
  <2> QED
    BY <2>1, <2>2, <2>3
<1>5. stack'[top - 1] = n /\ stack' \in [Nodes -> Nodes]
  <2>1. n \in Nodes
    BY <1>3
  <2> QED
    BY <1>1, <1>2, <2>1
<1>6. top' .. Capacity - 1 = {top - 1} \cup (top .. Capacity - 1)
  <2>1. top \in Int /\ top <= Capacity /\ Capacity \in Int
    BY <1>2
  <2>2. (top - 1) .. Capacity - 1 = {top - 1} \cup (top .. Capacity - 1)
    BY <2>1
  <2> QED
    BY <1>1, <2>2
<1>7. Used' = Used \ {n}
  <2>1. Used' = Nodes \ {stack'[i] : i \in top' .. Capacity - 1}
    BY DEF Used
  <2> QED
    BY <1>4, <1>5, <1>6, <2>1 DEF Used
<1>8. Course(Shorter(c, size, k), size - 1, Used', next', prev')
  BY <1>1, <1>2, <1>3, <1>7, CourseShorter
<1>9. /\ prev[n] \in Nodes \cup {head} /\ next[n] \in Nodes \cup {tail}
  <2>1. k - 1 \in 0 .. size /\ (k - 1) + 1 = k /\ k + 1 \in 1 .. size + 1 /\ k \in 0 .. size
    BY <1>2
  <2>2. prev[n] = c[k - 1] /\ next[n] = c[k + 1]
    BY <2>1 DEF Course
  <2>3. Placed(c, size, Used)
    BY <1>2, <1>3, CourseNodes
  <2>4. c[k - 1] \in Used \cup {head} /\ c[k + 1] \in Used \cup {tail}
    BY <2>1, <2>3 DEF Placed
  <2> QED
    BY <1>3, <2>2, <2>4
<1>10. TypeOK'
  <2>1. /\ next' \in [Nodes \cup {head} -> Nodes \cup {tail, Null}]
        /\ prev' \in [Nodes \cup {tail} -> Nodes \cup {head, Null}]
    BY <1>1, <1>2, <1>3, <1>9
  <2>2. data' \in [Nodes -> Items \cup {NoItem}]
    BY <1>1, <1>2, <1>3
  <2>3. size' \in 0 .. Capacity /\ top' = size'
    BY <1>1, <1>2
  <2>4. found' \in Items \cup {NoItem}
    BY <1>1 DEF TypeOK
  <2> QED
    BY <1>5, <2>1, <2>2, <2>3, <2>4 DEF TypeOK
<1>11. PoolAccounted'
  <2>1. \A i, j \in top' .. Capacity - 1 : stack'[i] = stack'[j] => i = j
    BY <1>4, <1>5, <1>6 DEF PoolAccounted
  <2>2. Used' = {m \in Nodes : data'[m] # NoItem}
    BY <1>1, <1>2, <1>3, <1>7 DEF PoolAccounted
  <2> QED
    BY <2>1, <2>2 DEF PoolAccounted
<1>12. ItemsOn(Shorter(c, size, k), size - 1, data')
         = RemoveAt(ItemsOn(c, size, data), k)
  <2>1. Rewritten(data, data', n)
    BY <1>1, <1>2 DEF Rewritten, Stored
  <2> QED
    BY <1>2, <1>3, <2>1, ItemsShorter
<1> QED
  BY <1>1, <1>8, <1>10, <1>11, <1>12

-----------------------------------------------------------------------------
\* What following _next meets are the items on the course.
LEMMA ItemsMet ==
  ASSUME TypeOK, NEW c, Course(c, size, Used, next, prev)
  PROVE  /\ \A i \in 0 .. size : At[i] = c[i]
         /\ [i \in 1 .. size |-> data[At[i]]] = ItemsOn(c, size, data)
<1>1. size \in Nat
  BY CapacityAssumption DEF TypeOK
<1>2. c[0] = head /\ \A i \in 0 .. size : next[c[i]] = c[i + 1]
  BY DEF Course
<1>3. \A i \in 0 .. size : Walk(next, size)[i] = c[i]
  BY <1>1, <1>2, WalkIsCourse
<1>4. \A i \in 0 .. size : At[i] = c[i]
  BY <1>3, AtIsWalk
<1> QED
  BY <1>1, <1>4 DEF ItemsOn

LEMMA ItemsMetNext ==
  ASSUME TypeOK', NEW s, s = size', NEW c, Course(c, s, Used', next', prev')
  PROVE  [i \in 1 .. size' |-> data'[At'[i]]] = ItemsOn(c, s, data')
<1>1. s \in Nat
  BY CapacityAssumption DEF TypeOK
<1>2. c[0] = head /\ \A i \in 0 .. s : (next')[c[i]] = c[i + 1]
  BY DEF Course
<1>3. \A i \in 0 .. s : Walk(next', s)[i] = c[i]
  BY <1>1, <1>2, WalkIsCourse
<1>4. \A i \in 0 .. s : At'[i] = c[i]
  BY <1>3, AtIsWalkNext
<1> QED
  BY <1>1, <1>4 DEF ItemsOn

\* The place of a node is its place on the course.
LEMMA PositionOnCourse ==
  ASSUME TypeOK, NEW c, Course(c, size, Used, next, prev), NEW k \in 1 .. size + 1
  PROVE  Position(c[k]) = k
<1>1. size \in Nat /\ c[size + 1] = tail
  BY CapacityAssumption DEF TypeOK, Course
<1>2. CASE k = size + 1
  BY <1>1, <1>2 DEF Position
<1>3. CASE k # size + 1
  <2>1. k \in 1 .. size
    BY <1>1, <1>3
  <2>2. c[k] # tail
    BY <2>1, NamesAssumption DEF Course, Used
  <2>3. \A i \in 1 .. size : At[i] = c[k] <=> i = k
    <3>1. \A i \in 0 .. size : At[i] = c[i]
      BY ItemsMet
    <3>2. \A i \in 1 .. size : At[i] = c[i]
      BY <1>1, <3>1
    <3> QED
      BY <2>1, <3>2 DEF Course
  <2> QED
    BY <2>1, <2>2, <2>3 DEF Position
<1> QED
  BY <1>2, <1>3

-----------------------------------------------------------------------------
\* The instance of ItemSequence has operators of its own, with the same bodies.
LEMMA SameInsertAt == \A q, i, x : Sequence!InsertAt(q, i, x) = InsertAt(q, i, x)
BY DEF Sequence!InsertAt, InsertAt

LEMMA SameRemoveAt == \A q, i : Sequence!RemoveAt(q, i) = RemoveAt(q, i)
BY DEF Sequence!RemoveAt, RemoveAt

\* A link made along the course inserts an item.
LEMMA LinkInserts ==
  ASSUME TypeOK, PoolAccounted, size < Capacity,
         NEW c, Course(c, size, Used, next, prev),
         NEW k \in 0 .. size, NEW x \in Items, Link(c[k], c[k + 1], x)
  PROVE  IInv' /\ Sequence!InsertItem(k + 1, x)
<1> DEFINE n == stack[top]
           d == Longer(c, size, k, n)
<1>1. /\ TypeOK' /\ PoolAccounted'
      /\ size' = size + 1 /\ found' = found
      /\ Course(d, size + 1, Used', next', prev')
      /\ ItemsOn(d, size + 1, data') = InsertAt(ItemsOn(c, size, data), k + 1, x)
  BY Links
<1> HIDE DEF d
<1>2. IInv'
  <2>1. d \in [0 .. (size + 1) + 1 -> Nodes \cup Ends]
    BY <1>1 DEF Course
  <2> QED
    BY <1>1, <2>1 DEF IInv
<1>3. [i \in 1 .. size |-> data[At[i]]] = ItemsOn(c, size, data)
  BY ItemsMet
<1>4. [i \in 1 .. size' |-> data'[At'[i]]] = ItemsOn(d, size + 1, data')
  BY <1>1, ItemsMetNext
<1>5. Len([i \in 1 .. size |-> data[At[i]]]) < Capacity
  BY CapacityAssumption DEF TypeOK
<1> QED
  BY <1>1, <1>2, <1>3, <1>4, <1>5, SameInsertAt DEF Sequence!InsertItem

\* A node of the course unlinked removes an item.
LEMMA UnlinkRemoves ==
  ASSUME TypeOK, PoolAccounted,
         NEW c, Course(c, size, Used, next, prev), NEW k \in 1 .. size, Unlink(c[k])
  PROVE  IInv' /\ Sequence!RemoveItem(k)
<1> DEFINE d == Shorter(c, size, k)
<1>1. /\ TypeOK' /\ PoolAccounted'
      /\ size' = size - 1 /\ found' = found
      /\ Course(d, size - 1, Used', next', prev')
      /\ ItemsOn(d, size - 1, data') = RemoveAt(ItemsOn(c, size, data), k)
  BY Unlinks
<1> HIDE DEF d
<1>2. IInv'
  <2>1. d \in [0 .. (size - 1) + 1 -> Nodes \cup Ends]
    BY <1>1 DEF Course
  <2> QED
    BY <1>1, <2>1 DEF IInv
<1>3. [i \in 1 .. size |-> data[At[i]]] = ItemsOn(c, size, data)
  BY ItemsMet
<1>4. [i \in 1 .. size' |-> data'[At'[i]]] = ItemsOn(d, size - 1, data')
  BY <1>1, ItemsMetNext
<1> QED
  BY <1>1, <1>2, <1>3, <1>4, SameRemoveAt DEF Sequence!RemoveItem

-----------------------------------------------------------------------------
LEMMA Starts == Init => IInv /\ Sequence!Init
<1> SUFFICES ASSUME Init PROVE IInv /\ Sequence!Init
  OBVIOUS
<1>1. TypeOK
  BY CapacityAssumption DEF Init, TypeOK, Nodes
<1>2. Used = {}
  BY CapacityAssumption DEF Init, Used, Nodes
<1>3. PoolAccounted
  BY <1>2, CapacityAssumption DEF Init, PoolAccounted, Nodes
<1> DEFINE c == [i \in 0 .. 1 |-> IF i = 0 THEN head ELSE tail]
<1>4. Course(c, size, Used, next, prev) /\ c \in [0 .. size + 1 -> Nodes \cup Ends]
  BY <1>2 DEF Init, Course, Ends
<1>5. [i \in 1 .. size |-> data[At[i]]] = <<>>
  BY DEF Init
<1> QED
  BY <1>1, <1>3, <1>4, <1>5 DEF IInv, Sequence!Init, Init

\* The nodes beside the ends, and every node in use, are on the course.
LEMMA CourseEnds ==
  ASSUME IInv
  PROVE  /\ size \in 0 .. Capacity /\ top = size /\ Capacity \in Nat
         /\ \E c : /\ Course(c, size, Used, next, prev)
                   /\ prev[tail] = c[size] /\ next[head] = c[1]
                   /\ c[0] = head /\ c[size + 1] = tail
                   /\ \A i \in 1 .. size : c[i] \in Used
                   /\ \A n \in Used : \E i \in 1 .. size : c[i] = n
                   /\ \A i \in 0 .. size : next[c[i]] = c[i + 1] /\ prev[c[i + 1]] = c[i]
<1>1. size \in 0 .. Capacity /\ top = size /\ Capacity \in Nat
  BY CapacityAssumption DEF IInv, TypeOK
<1>2. PICK c : Course(c, size, Used, next, prev)
  BY DEF IInv
<1>3. /\ c[0] = head /\ c[size + 1] = tail
      /\ \A i \in 1 .. size : c[i] \in Used
      /\ \A n \in Used : \E i \in 1 .. size : c[i] = n
      /\ \A i \in 0 .. size : next[c[i]] = c[i + 1] /\ prev[c[i + 1]] = c[i]
  BY <1>2 DEF Course
<1>4. 0 \in 0 .. size /\ size \in 0 .. size /\ 0 + 1 = 1
  BY <1>1
<1>5. prev[tail] = c[size] /\ next[head] = c[1]
  BY <1>3, <1>4
<1> QED
  BY <1>1, <1>2, <1>3, <1>5

LEMMA PushBackStep ==
  ASSUME IInv, NEW x \in Items, PushBack(x)
  PROVE  IInv' /\ Sequence!InsertItem(size + 1, x)
<1>1. PICK c : /\ Course(c, size, Used, next, prev)
               /\ prev[tail] = c[size] /\ c[size + 1] = tail
  BY CourseEnds
<1>2. size \in 0 .. size /\ size < Capacity /\ TypeOK /\ PoolAccounted
  BY CourseEnds DEF IInv, PushBack
<1>3. Link(c[size], c[size + 1], x)
  BY <1>1 DEF PushBack
<1> QED
  BY <1>1, <1>2, <1>3, LinkInserts

LEMMA PushFrontStep ==
  ASSUME IInv, NEW x \in Items, PushFront(x)
  PROVE  IInv' /\ Sequence!InsertItem(1, x)
<1>1. PICK c : /\ Course(c, size, Used, next, prev)
               /\ next[head] = c[1] /\ c[0] = head
  BY CourseEnds
<1>2. 0 \in 0 .. size /\ size < Capacity /\ TypeOK /\ PoolAccounted /\ 0 + 1 = 1
  BY CourseEnds DEF IInv, PushFront
<1>3. Link(c[0], c[0 + 1], x)
  BY <1>1, <1>2 DEF PushFront
<1>4. IInv' /\ Sequence!InsertItem(0 + 1, x)
  BY <1>1, <1>2, <1>3, LinkInserts
<1> QED
  BY <1>2, <1>4

LEMMA PopBackStep ==
  ASSUME IInv, PopBack
  PROVE  IInv' /\ Sequence!RemoveItem(size)
<1>1. PICK c : Course(c, size, Used, next, prev) /\ prev[tail] = c[size]
  BY CourseEnds
<1>2. size \in 1 .. size /\ TypeOK /\ PoolAccounted
  BY CourseEnds DEF IInv, PopBack
<1>3. Unlink(c[size])
  BY <1>1 DEF PopBack
<1> QED
  BY <1>1, <1>2, <1>3, UnlinkRemoves DEF Sequence!RemoveItem

LEMMA PopFrontStep ==
  ASSUME IInv, PopFront
  PROVE  IInv' /\ Sequence!RemoveItem(1)
<1>1. PICK c : Course(c, size, Used, next, prev) /\ next[head] = c[1]
  BY CourseEnds
<1>2. 1 \in 1 .. size /\ TypeOK /\ PoolAccounted
  BY CourseEnds DEF IInv, PopFront
<1>3. Unlink(c[1])
  BY <1>1 DEF PopFront
<1> QED
  BY <1>1, <1>2, <1>3, UnlinkRemoves

LEMMA InsertBackStep ==
  ASSUME IInv, NEW n \in Nodes, NEW x \in Items, InsertBack(n, x)
  PROVE  IInv' /\ Sequence!InsertItem(Position(n) + 1, x)
<1>1. PICK c : /\ Course(c, size, Used, next, prev)
               /\ \A m \in Used : \E i \in 1 .. size : c[i] = m
               /\ \A i \in 0 .. size : next[c[i]] = c[i + 1] /\ prev[c[i + 1]] = c[i]
  BY CourseEnds
<1>2. PICK k \in 1 .. size : c[k] = n
  BY <1>1 DEF InsertBack
<1>3. k \in 0 .. size /\ k \in 1 .. size + 1 /\ size < Capacity /\ TypeOK /\ PoolAccounted
  BY CourseEnds DEF IInv, InsertBack
<1>4. Link(c[k], c[k + 1], x)
  BY <1>1, <1>2, <1>3 DEF InsertBack
<1>5. Position(n) = k
  BY <1>1, <1>2, <1>3, PositionOnCourse
<1>6. IInv' /\ Sequence!InsertItem(k + 1, x)
  BY <1>1, <1>3, <1>4, LinkInserts
<1> QED
  BY <1>5, <1>6

LEMMA InsertFrontStep ==
  ASSUME IInv, NEW n \in Nodes \cup {tail}, NEW x \in Items, InsertFront(n, x)
  PROVE  IInv' /\ Sequence!InsertItem(Position(n), x)
<1>1. PICK c : /\ Course(c, size, Used, next, prev)
               /\ c[size + 1] = tail
               /\ \A m \in Used : \E i \in 1 .. size : c[i] = m
               /\ \A i \in 0 .. size : next[c[i]] = c[i + 1] /\ prev[c[i + 1]] = c[i]
  BY CourseEnds
<1>2. /\ size < Capacity /\ TypeOK /\ PoolAccounted /\ size \in Nat
      /\ n \in Used \cup {tail} /\ Link(prev[n], n, x)
  BY CourseEnds DEF IInv, InsertFront
<1>3. PICK k \in 1 .. size + 1 : c[k] = n
  <2>1. \A i \in 1 .. size : i \in 1 .. size + 1
    BY <1>2
  <2>2. size + 1 \in 1 .. size + 1
    BY <1>2
  <2> QED
    BY <1>1, <1>2, <2>1, <2>2
<1>4. k - 1 \in 0 .. size /\ (k - 1) + 1 = k
  BY <1>2
<1>5. Link(c[k - 1], c[(k - 1) + 1], x)
  BY <1>1, <1>2, <1>3, <1>4
<1>6. Position(n) = k
  BY <1>1, <1>2, <1>3, PositionOnCourse
<1>7. IInv' /\ Sequence!InsertItem((k - 1) + 1, x)
  BY <1>1, <1>2, <1>4, <1>5, LinkInserts
<1> QED
  BY <1>4, <1>6, <1>7

LEMMA EraseStep ==
  ASSUME IInv, NEW n \in Nodes, Erase(n)
  PROVE  IInv' /\ Sequence!RemoveItem(Position(n))
<1>1. PICK c : /\ Course(c, size, Used, next, prev)
               /\ \A m \in Used : \E i \in 1 .. size : c[i] = m
  BY CourseEnds
<1>2. PICK k \in 1 .. size : c[k] = n
  BY <1>1 DEF Erase
<1>3. k \in 1 .. size + 1 /\ TypeOK /\ PoolAccounted
  BY CourseEnds DEF IInv
<1>4. Unlink(c[k])
  BY <1>2 DEF Erase
<1>5. Position(n) = k
  BY <1>1, <1>2, <1>3, PositionOnCourse
<1>6. IInv' /\ Sequence!RemoveItem(k)
  BY <1>1, <1>3, <1>4, UnlinkRemoves
<1> QED
  BY <1>5, <1>6 DEF Sequence!RemoveItem

LEMMA FindAtStep ==
  ASSUME IInv, NEW i \in Nodes, FindAt(i)
  PROVE  IInv' /\ Sequence!FindItem(i + 1)
<1>1. /\ i \in 0 .. size - 1 /\ found' = data[At[i + 1]]
      /\ size' = size /\ top' = top /\ stack' = stack /\ next' = next /\ prev' = prev
      /\ data' = data
  BY DEF FindAt
<1>2. PICK c : /\ Course(c, size, Used, next, prev)
               /\ \A j \in 1 .. size : c[j] \in Used
  BY CourseEnds
<1>3. i + 1 \in 0 .. size /\ i + 1 \in 1 .. size /\ size \in Nat
  <2>1. size \in 0 .. Capacity /\ Capacity \in Nat
    BY CapacityAssumption DEF IInv, TypeOK
  <2> QED
    BY <1>1, <2>1
<1>4. data[At[i + 1]] \in Items \cup {NoItem}
  <2>1. At[i + 1] = c[i + 1]
    BY <1>2, <1>3, ItemsMet DEF IInv
  <2>2. At[i + 1] \in Nodes
    BY <1>2, <1>3, <2>1 DEF Used
  <2> QED
    BY <2>2 DEF IInv, TypeOK
<1>5. Used' = Used
  BY <1>1 DEF Used
<1>6. IInv'
  <2>1. TypeOK' /\ PoolAccounted'
    BY <1>1, <1>4, <1>5 DEF IInv, TypeOK, PoolAccounted
  <2>2. \E d \in [0 .. size + 1 -> Nodes \cup Ends] : Course(d, size, Used, next, prev)
    BY DEF IInv
  <2> QED
    BY <1>1, <1>5, <2>1, <2>2 DEF IInv
<1>7. At' = At
  BY <1>1, AtIsWalk, AtIsWalkNext
<1>8. Sequence!FindItem(i + 1)
  BY <1>1, <1>3, <1>7 DEF Sequence!FindItem
<1> QED
  BY <1>6, <1>8

LEMMA ClearStep ==
  ASSUME IInv, Clear
  PROVE  IInv' /\ Sequence!Clear
<1>1. PICK c : /\ Course(c, size, Used, next, prev)
               /\ \A j \in 1 .. size : c[j] \in Used
               /\ \A n \in Used : \E j \in 1 .. size : c[j] = n
  BY CourseEnds
<1>2. /\ size \in 0 .. Capacity /\ top = size /\ Capacity \in Nat /\ TypeOK /\ PoolAccounted
      /\ stack \in [Nodes -> Nodes] /\ Used \subseteq Nodes
  BY CourseEnds DEF IInv, TypeOK, Used
<1>3. \A j \in 1 .. size : At[j] = c[j]
  BY <1>1, <1>2, ItemsMet
<1>4. /\ \A i \in Nodes : i < size => stack'[i] = c[i + 1] /\ stack'[i] \in Used
      /\ \A i \in Nodes : ~(i < size) => stack'[i] = stack[i] /\ stack'[i] \notin Used
      /\ stack' \in [Nodes -> Nodes]
  <2>1. stack' = [i \in Nodes |-> IF i < size THEN At[i + 1] ELSE stack[i]]
    BY DEF Clear
  <2>2. ASSUME NEW i \in Nodes, i < size
        PROVE  stack'[i] = c[i + 1] /\ stack'[i] \in Used
    <3>1. i + 1 \in 1 .. size
      BY <1>2, <2>2 DEF Nodes
    <3> QED
      BY <1>1, <1>3, <2>1, <2>2, <3>1
  <2>3. ASSUME NEW i \in Nodes, ~(i < size)
        PROVE  stack'[i] = stack[i] /\ stack'[i] \notin Used
    <3>1. i \in top .. Capacity - 1
      BY <1>2, <2>3 DEF Nodes
    <3> QED
      BY <2>1, <2>3, <3>1 DEF Used
  <2>4. \A i \in Nodes : stack'[i] \in Nodes
    BY <1>2, <2>2, <2>3
  <2> QED
    BY <2>1, <2>2, <2>3, <2>4
<1>5. \A m \in Nodes : \E i \in Nodes : stack'[i] = m
  <2> TAKE m \in Nodes
  <2>1. CASE m \in Used
    <3>1. PICK j \in 1 .. size : c[j] = m
      BY <1>1, <2>1
    <3>2. j - 1 \in Nodes /\ j - 1 < size /\ (j - 1) + 1 = j
      BY <1>2 DEF Nodes
    <3> QED
      BY <1>4, <3>1, <3>2
  <2>2. CASE m \notin Used
    <3>1. PICK i \in top .. Capacity - 1 : stack[i] = m
      BY <2>2 DEF Used
    <3>2. i \in Nodes /\ ~(i < size)
      BY <1>2 DEF Nodes
    <3> QED
      BY <1>4, <3>1, <3>2
  <2> QED
    BY <2>1, <2>2
<1>6. \A i, j \in Nodes : stack'[i] = stack'[j] => i = j
  <2> SUFFICES ASSUME NEW i \in Nodes, NEW j \in Nodes, stack'[i] = stack'[j] PROVE i = j
    OBVIOUS
  <2>1. CASE i < size /\ j < size
    <3>1. c[i + 1] = c[j + 1] /\ i + 1 \in 1 .. size /\ j + 1 \in 1 .. size
      <4>1. stack'[i] = c[i + 1] /\ stack'[j] = c[j + 1]
        BY <1>4, <2>1
      <4>2. i + 1 \in 1 .. size /\ j + 1 \in 1 .. size
        BY <1>2, <2>1 DEF Nodes
      <4> QED
        BY <4>1, <4>2
    <3>2. i + 1 = j + 1
      BY <1>1, <3>1 DEF Course
    <3> QED
      BY <1>2, <3>2 DEF Nodes
  <2>2. CASE ~(i < size) /\ ~(j < size)
    <3>1. stack[i] = stack[j] /\ i \in top .. Capacity - 1 /\ j \in top .. Capacity - 1
      BY <1>2, <1>4, <2>2 DEF Nodes
    <3> QED
      BY <1>2, <3>1 DEF PoolAccounted
  <2>3. (i < size) <=> (j < size)
    BY <1>4
  <2> QED
    BY <2>1, <2>2, <2>3
<1>7. top' = 0 /\ size' = 0 /\ found' = found
  BY DEF Clear
<1>8. top' .. Capacity - 1 = Nodes
  BY <1>7 DEF Nodes
<1>9. Used' = {}
  BY <1>5, <1>8 DEF Used
<1>10. /\ next' \in [Nodes \cup {head} -> Nodes \cup {tail, Null}] /\ next'[head] = tail
       /\ prev' \in [Nodes \cup {tail} -> Nodes \cup {head, Null}] /\ prev'[tail] = head
       /\ data' \in [Nodes -> {NoItem}]
  <2>1. /\ next' = [n \in Nodes \cup {head} |-> IF n = head THEN tail
                                                 ELSE IF n \in Used THEN Null ELSE next[n]]
        /\ prev' = [n \in Nodes \cup {tail} |-> IF n = tail THEN head
                                                 ELSE IF n \in Used THEN Null ELSE prev[n]]
        /\ data' = [n \in Nodes |-> IF n \in Used THEN NoItem ELSE data[n]]
    <3>1. head \notin Used /\ tail \notin Used
      BY <1>2, NamesAssumption
    <3> QED
      BY <3>1 DEF Clear
  <2>2. /\ next \in [Nodes \cup {head} -> Nodes \cup {tail, Null}]
        /\ prev \in [Nodes \cup {tail} -> Nodes \cup {head, Null}]
        /\ \A n \in Nodes \ Used : data[n] = NoItem
    BY <1>2 DEF TypeOK, PoolAccounted
  <2> QED
    BY <2>1, <2>2
<1>11. TypeOK'
  BY <1>2, <1>4, <1>7, <1>10 DEF TypeOK
<1>12. PoolAccounted'
  BY <1>6, <1>8, <1>9, <1>10 DEF PoolAccounted
<1> DEFINE d == [i \in 0 .. 1 |-> IF i = 0 THEN head ELSE tail]
<1>13. Course(d, 0, Used', next', prev') /\ d \in [0 .. 0 + 1 -> Nodes \cup Ends]
  BY <1>9, <1>10 DEF Course, Ends
<1>14. IInv'
  BY <1>7, <1>11, <1>12, <1>13 DEF IInv
<1>15. Sequence!Clear
  BY <1>7 DEF Sequence!Clear
<1> QED
  BY <1>14, <1>15

-----------------------------------------------------------------------------
LEMMA Stutters == IInv /\ UNCHANGED vars => IInv'
<1> SUFFICES ASSUME IInv, UNCHANGED vars PROVE IInv'
  OBVIOUS
<1>1. Used' = Used
  BY DEF vars, Used
<1>2. TypeOK' /\ PoolAccounted'
  BY <1>1 DEF IInv, TypeOK, PoolAccounted, vars
<1>3. /\ size' = size /\ next' = next /\ prev' = prev
      /\ \E c \in [0 .. size + 1 -> Nodes \cup Ends] : Course(c, size, Used, next, prev)
  BY DEF vars, IInv
<1> QED
  BY <1>1, <1>2, <1>3 DEF IInv

\* Each step keeps the invariant.
LEMMA NextKeeps == IInv /\ [Next]_vars => IInv'
<1> SUFFICES ASSUME IInv, [Next]_vars PROVE IInv'
  OBVIOUS
<1>1. ASSUME NEW x \in Items, PushBack(x) PROVE IInv'
  BY <1>1, PushBackStep
<1>2. ASSUME NEW x \in Items, PushFront(x) PROVE IInv'
  BY <1>2, PushFrontStep
<1>3. CASE PopBack
  BY <1>3, PopBackStep
<1>4. CASE PopFront
  BY <1>4, PopFrontStep
<1>5. ASSUME NEW n \in Nodes, NEW x \in Items, InsertBack(n, x) PROVE IInv'
  BY <1>5, InsertBackStep
<1>6. ASSUME NEW n \in Nodes \cup {tail}, NEW x \in Items, InsertFront(n, x) PROVE IInv'
  BY <1>6, InsertFrontStep
<1>7. ASSUME NEW n \in Nodes, Erase(n) PROVE IInv'
  BY <1>7, EraseStep
<1>8. ASSUME NEW i \in Nodes, FindAt(i) PROVE IInv'
  BY <1>8, FindAtStep
<1>9. CASE Clear
  BY <1>9, ClearStep
<1>10. CASE UNCHANGED vars
  BY <1>10, Stutters
<1> QED
  BY <1>1, <1>2, <1>3, <1>4, <1>5, <1>6, <1>7, <1>8, <1>9, <1>10 DEF Next

\* In each step every call does to the sequence what it promises.
LEMMA CallsAsMeant == IInv => EachCallAsMeant
<1> SUFFICES ASSUME IInv PROVE EachCallAsMeant
  OBVIOUS
<1>1. ASSUME NEW x \in Items
      PROVE  /\ PushBack(x) => Sequence!InsertItem(size + 1, x)
             /\ PushFront(x) => Sequence!InsertItem(1, x)
             /\ \A n \in Used : InsertBack(n, x) => Sequence!InsertItem(Position(n) + 1, x)
             /\ \A n \in Used \cup {tail} :
                  InsertFront(n, x) => Sequence!InsertItem(Position(n), x)
  <2>1. PushBack(x) => Sequence!InsertItem(size + 1, x)
    BY PushBackStep
  <2>2. PushFront(x) => Sequence!InsertItem(1, x)
    BY PushFrontStep
  <2>3. ASSUME NEW n \in Used, InsertBack(n, x)
        PROVE  Sequence!InsertItem(Position(n) + 1, x)
    <3>1. n \in Nodes
      BY DEF Used
    <3> QED
      BY <2>3, <3>1, InsertBackStep
  <2>4. ASSUME NEW n \in Used \cup {tail}, InsertFront(n, x)
        PROVE  Sequence!InsertItem(Position(n), x)
    <3>1. n \in Nodes \cup {tail}
      BY DEF Used
    <3> QED
      BY <2>4, <3>1, InsertFrontStep
  <2> QED
    BY <2>1, <2>2, <2>3, <2>4
<1>2. ASSUME NEW n \in Used, Erase(n) PROVE Sequence!RemoveItem(Position(n))
  <2>1. n \in Nodes
    BY DEF Used
  <2> QED
    BY <1>2, <2>1, EraseStep
<1>3. PopBack => Sequence!RemoveItem(size)
  BY PopBackStep
<1>4. PopFront => Sequence!RemoveItem(1)
  BY PopFrontStep
<1>5. ASSUME NEW i \in Nodes, FindAt(i) PROVE Sequence!FindItem(i + 1)
  BY <1>5, FindAtStep
<1>6. Clear => Sequence!Clear
  BY ClearStep
<1> QED
  BY <1>1, <1>2, <1>3, <1>4, <1>5, <1>6 DEF EachCallAsMeant

\* A course through the nodes in use is what makes the two chains mirror each other.
LEMMA CourseMirrors == IInv => LinksMirrored
<1> SUFFICES ASSUME IInv PROVE LinksMirrored
  OBVIOUS
<1>1. PICK c : /\ c[0] = head /\ c[size + 1] = tail
               /\ \A i \in 1 .. size : c[i] \in Used
               /\ \A n \in Used : \E i \in 1 .. size : c[i] = n
               /\ \A i \in 0 .. size : next[c[i]] = c[i + 1] /\ prev[c[i + 1]] = c[i]
  BY CourseEnds
<1>2. size \in Nat
  BY CourseEnds
<1>3. ASSUME NEW n \in Used \cup {head}
      PROVE  next[n] \in Used \cup {tail} /\ prev[next[n]] = n
  <2>1. PICK i \in 0 .. size : c[i] = n
    <3>1. 0 \in 0 .. size /\ \A i \in 1 .. size : i \in 0 .. size
      BY <1>2
    <3> QED
      BY <1>1, <3>1
  <2>2. i + 1 = size + 1 \/ i + 1 \in 1 .. size
    BY <1>2
  <2>3. c[i + 1] \in Used \cup {tail}
    BY <1>1, <2>2
  <2> QED
    BY <1>1, <2>1, <2>3
<1>4. ASSUME NEW n \in Used \cup {tail}
      PROVE  prev[n] \in Used \cup {head} /\ next[prev[n]] = n
  <2>1. PICK i \in 1 .. size + 1 : c[i] = n
    <3>1. size + 1 \in 1 .. size + 1 /\ \A i \in 1 .. size : i \in 1 .. size + 1
      BY <1>2
    <3> QED
      BY <1>1, <3>1
  <2>2. i - 1 \in 0 .. size /\ (i - 1) + 1 = i /\ (i - 1 = 0 \/ i - 1 \in 1 .. size)
    BY <1>2
  <2>3. c[i - 1] \in Used \cup {head}
    BY <1>1, <2>2
  <2>4. next[c[i - 1]] = c[i] /\ prev[c[i]] = c[i - 1]
    BY <1>1, <2>2
  <2> QED
    BY <2>1, <2>3, <2>4
<1> QED
  BY <1>3, <1>4 DEF LinksMirrored

\* The invariant holds in every reachable state.
THEOREM Inductive == Spec => []IInv
<1>1. Init => IInv
  BY Starts
<1>2. IInv /\ [Next]_vars => IInv'
  BY NextKeeps
<1> QED
  BY <1>1, <1>2, PTL DEF Spec

\* Every variable of the list keeps its type: the stack and the links never leave
\* the pool and its sentinels, and the top of the stack is the size.
THEOREM TypeCorrect == Spec => []TypeOK
<1>1. IInv => TypeOK
  BY DEF IInv
<1> QED
  BY <1>1, Inductive, PTL

\* GetNewUsableAddress and ReleaseAddress never lose an address nor hand one out twice.
THEOREM PoolNeverLosesNodes == Spec => []PoolAccounted
<1>1. IInv => PoolAccounted
  BY DEF IInv
<1> QED
  BY <1>1, Inductive, PTL

\* The chain of _next and the chain of _prev mirror each other after every call.
THEOREM ChainsMirror == Spec => []LinksMirrored
<1>1. IInv => LinksMirrored
  BY CourseMirrors
<1> QED
  BY <1>1, Inductive, PTL

\* The linked list implements the sequence of items: each call changes, finds or
\* clears what ItemSequence says it does.
THEOREM ListImplementsSequence == Spec => ImplementsSequence
<1>1. Init => Sequence!Init
  BY Starts
<1>2. IInv => [EachCallAsMeant]_vars
  BY CallsAsMeant
<1> QED
  BY <1>1, <1>2, Inductive, PTL DEF Spec, ImplementsSequence

=============================================================================
