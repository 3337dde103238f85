---------------------------- MODULE ImportProofs ----------------------------
(***************************************************************************)
(* The import of a scene, for all scenes, and of its meshes, for all       *)
(* meshes: first the hierarchy, then, from the definition of Vertex on,    *)
(* the geometries.                                                         *)
(***************************************************************************)
EXTENDS SceneImport, MeshGeometry, FunctionTheorems, FiniteSetTheorems,
        SequenceTheorems, WellFoundedInduction, TLAPS

-----------------------------------------------------------------------------
\* Induction over the naturals: a set of naturals has a least element.
LEMMA LeastExists ==
  ASSUME NEW T, T \subseteq Nat, T # {}
  PROVE  \E x \in T : \A y \in T : x <= y
<1>1. IsWellFoundedOn(OpToRel(<, Nat), Nat)
  BY NatLessThanWellFounded, Zenon
<1>2. \A x, y \in Nat : x < y => <<x, y>> \in OpToRel(<, Nat)
  BY DEF OpToRel
<1>3. \E x \in T : \A y \in T : ~(<<y, x>> \in OpToRel(<, Nat))
  BY <1>1, WFMin, Zenon
<1>4. \A x, y \in Nat : ~(y < x) => x <= y
  OBVIOUS
<1> QED
  BY <1>2, <1>3, <1>4

LEMMA LeastIsLeast ==
  ASSUME NEW T, T \subseteq Nat, T # {}
  PROVE  Least(T) \in T /\ \A y \in T : Least(T) <= y
BY LeastExists DEF Least

\* A finite set of naturals has a greatest element.
LEMMA GreatestExists ==
  ASSUME NEW T, NEW n \in Nat, T \subseteq 0 .. n, T # {}
  PROVE  \E x \in T : \A y \in T : y <= x
<1> DEFINE U == {n - y : y \in T}
<1>1. U \subseteq Nat /\ U # {}
  <2>1. \A y \in T : n - y \in Nat
    OBVIOUS
  <2> QED
    BY <2>1
<1>2. PICK u \in U : \A v \in U : u <= v
  BY <1>1, LeastExists
<1>3. PICK x \in T : u = n - x
  BY <1>2
<1>4. \A y \in T : n - y \in U
  OBVIOUS
<1>5. \A y \in T : n - x <= n - y
  BY <1>2, <1>3, <1>4
<1> QED
  BY <1>3, <1>5

LEMMA FiniteBelow ==
  ASSUME NEW b \in Nat, NEW S, S \subseteq 0 .. b
  PROVE  IsFiniteSet(S) /\ Cardinality(S) \in Nat
<1>1. 0 \in Int /\ b \in Int
  OBVIOUS
<1>2. IsFiniteSet(0 .. b)
  BY <1>1, FS_Interval
<1>3. IsFiniteSet(S)
  BY <1>2, FS_Subset
<1> QED
  BY <1>3, FS_CardinalityType

-----------------------------------------------------------------------------
\* q lists the numbers of S in their order.
Lists(q, S) ==
  /\ q \in Seq(S)
  /\ \A i, j \in DOMAIN q : i < j => q[i] < q[j]
  /\ \A x \in S : \E i \in DOMAIN q : q[i] = x

\* There is such a list, as long as the set is large.
LEMMA ListExists ==
  ASSUME NEW b \in Nat
  PROVE  \A S \in SUBSET (0 .. b) : \E q \in [1 .. Cardinality(S) -> S] : Lists(q, S)
<1> DEFINE Unlisted == {S \in SUBSET (0 .. b) : ~\E q \in [1 .. Cardinality(S) -> S] : Lists(q, S)}
           Sizes == {Cardinality(S) : S \in Unlisted}
<1>1. \A S \in SUBSET (0 .. b) : IsFiniteSet(S) /\ Cardinality(S) \in Nat
  BY FiniteBelow
<1> SUFFICES ASSUME Unlisted # {}
             PROVE  FALSE
  OBVIOUS
<1>2. Sizes \subseteq Nat /\ Sizes # {}
  BY <1>1
<1>3. PICK n \in Sizes : \A m \in Sizes : n <= m
  BY <1>2, LeastExists
<1>4. PICK S \in Unlisted : Cardinality(S) = n
  BY <1>3
<1>5. S \subseteq 0 .. b /\ IsFiniteSet(S) /\ n \in Nat
  BY <1>1, <1>4
<1>6. S # {}
  <2>1. SUFFICES ASSUME S = {} PROVE FALSE
    OBVIOUS
  <2>2. n = 0
    BY <1>4, <2>1, FS_EmptySet
  <2>3. <<>> \in [1 .. 0 -> {}] /\ Lists(<<>>, {})
    BY DEF Lists
  <2> QED
    BY <1>4, <2>1, <2>2, <2>3
<1>7. PICK x \in S : \A y \in S : y <= x
  BY <1>5, <1>6, GreatestExists
<1> DEFINE R == S \ {x}
<1>8. Cardinality(R) = n - 1 /\ R \in SUBSET (0 .. b) /\ n > 0
  <2>1. Cardinality(R) = n - 1
    BY <1>4, <1>5, <1>7, FS_RemoveElement
  <2>2. n # 0
    BY <1>4, <1>5, <1>6, FS_EmptySet
  <2> QED
    BY <1>5, <2>1, <2>2
<1>9. R \notin Unlisted
  <2>1. ~(n <= n - 1)
    BY <1>5
  <2> QED
    BY <1>3, <1>8, <2>1
<1>10. PICK q \in [1 .. n - 1 -> R] : Lists(q, R)
  BY <1>8, <1>9
<1> DEFINE r == [i \in 1 .. n |-> IF i = n THEN x ELSE q[i]]
<1>11. r \in [1 .. n -> S] /\ r \in Seq(S) /\ DOMAIN r = 1 .. n
  <2>1. \A i \in 1 .. n : i # n => i \in 1 .. n - 1
    BY <1>5
  <2>2. r \in [1 .. n -> S]
    BY <1>7, <1>10, <2>1
  <2> QED
    BY <1>5, <2>2
<1>12. \A i, j \in 1 .. n : i < j => r[i] < r[j]
  <2>1. SUFFICES ASSUME NEW i \in 1 .. n, NEW j \in 1 .. n, i < j
                 PROVE  r[i] < r[j]
    OBVIOUS
  <2>2. i \in 1 .. n - 1 /\ r[i] = q[i] /\ q[i] \in R
    BY <1>5, <1>10, <2>1
  <2>3. CASE j = n
    <3>1. r[j] = x /\ q[i] <= x /\ q[i] # x
      BY <2>2, <2>3, <1>7
    <3>2. \A y \in S : y \in Nat
      BY <1>5
    <3>3. q[i] \in Nat /\ x \in Nat
      BY <2>2, <3>2
    <3> QED
      BY <2>2, <3>1, <3>3
  <2>4. CASE j # n
    <3>1. j \in 1 .. n - 1 /\ r[j] = q[j]
      BY <1>5, <2>4
    <3> QED
      BY <1>10, <2>1, <2>2, <3>1 DEF Lists
  <2> QED
    BY <2>3, <2>4
<1>13. \A y \in S : \E i \in 1 .. n : r[i] = y
  <2>1. SUFFICES ASSUME NEW y \in S PROVE \E i \in 1 .. n : r[i] = y
    OBVIOUS
  <2>2. CASE y = x
    BY <1>5, <1>8, <2>2
  <2>3. CASE y # x
    <3>1. PICK i \in 1 .. n - 1 : q[i] = y
      BY <1>10, <2>3 DEF Lists
    <3>2. i \in 1 .. n /\ r[i] = y
      BY <1>5, <3>1
    <3> QED
      BY <3>2
  <2> QED
    BY <2>2, <2>3
<1>14. Lists(r, S)
  BY <1>11, <1>12, <1>13 DEF Lists
<1> QED
  BY <1>4, <1>11, <1>14

\* There is only one.
LEMMA ListTypes ==
  ASSUME NEW S, S \subseteq Nat, NEW q, Lists(q, S)
  PROVE  /\ DOMAIN q = 1 .. Len(q) /\ Len(q) \in Nat
         /\ \A i \in DOMAIN q : i \in Nat \ {0} /\ q[i] \in S /\ q[i] \in Nat
<1>1. q \in Seq(S)
  BY DEF Lists
<1>2. /\ DOMAIN q = 1 .. Len(q) /\ Len(q) \in Nat
      /\ \A i \in DOMAIN q : i \in Nat \ {0} /\ q[i] \in S
  BY <1>1
<1> QED
  BY <1>2

LEMMA ListUnique ==
  ASSUME NEW S, S \subseteq Nat, NEW q, NEW r, Lists(q, S), Lists(r, S)
  PROVE  q = r
<1>1. /\ q \in Seq(S) /\ DOMAIN q = 1 .. Len(q) /\ Len(q) \in Nat
      /\ r \in Seq(S) /\ DOMAIN r = 1 .. Len(r) /\ Len(r) \in Nat
      /\ \A i \in DOMAIN q : i \in Nat \ {0} /\ q[i] \in Nat
      /\ \A i \in DOMAIN r : i \in Nat \ {0} /\ r[i] \in Nat
  BY ListTypes DEF Lists
<1> DEFINE Differ == {i \in Nat \ {0} : \/ i \in DOMAIN q /\ i \notin DOMAIN r
                                        \/ i \in DOMAIN r /\ i \notin DOMAIN q
                                        \/ i \in DOMAIN q /\ i \in DOMAIN r /\ q[i] # r[i]}
<1>2. ASSUME Differ # {} PROVE FALSE
  <2>1. PICK i \in Differ : \A j \in Differ : i <= j
    BY <1>2, LeastExists
  <2>2. \A j \in Nat \ {0} : j < i => j \notin Differ
    BY <2>1
  <2>3. \A j \in DOMAIN q : j < i => j \in DOMAIN r /\ r[j] = q[j]
    BY <1>1, <2>2
  <2>4. \A j \in DOMAIN r : j < i => j \in DOMAIN q /\ r[j] = q[j]
    BY <1>1, <2>2
  <2>5. ASSUME NEW u, NEW v, Lists(u, S), Lists(v, S), i \in DOMAIN u,
               \A j \in DOMAIN v : j < i => j \in DOMAIN u /\ v[j] = u[j],
               i \in DOMAIN v => u[i] < v[i]
        PROVE  FALSE
    <3>1. /\ DOMAIN u = 1 .. Len(u) /\ Len(u) \in Nat
          /\ DOMAIN v = 1 .. Len(v) /\ Len(v) \in Nat
          /\ \A j \in DOMAIN u : u[j] \in Nat /\ u[j] \in S
          /\ \A j \in DOMAIN v : v[j] \in Nat
      BY <2>5, ListTypes
    <3>2. u[i] \in S
      BY <2>5, <3>1
    <3>3. PICK j \in DOMAIN v : v[j] = u[i]
      BY <2>5, <3>2 DEF Lists
    <3>4. ~(j < i)
      <4>1. SUFFICES ASSUME j < i PROVE FALSE
        OBVIOUS
      <4>2. j \in DOMAIN u /\ u[j] = u[i]
        BY <2>5, <3>3, <4>1
      <4>3. u[j] < u[i]
        BY <2>5, <4>1, <4>2 DEF Lists
      <4> QED
        BY <3>1, <4>2, <4>3
    <3>5. i \in DOMAIN v /\ i \in Nat /\ j \in Nat
      BY <2>1, <3>1, <3>4
    <3>6. CASE j = i
      BY <2>5, <3>1, <3>3, <3>5, <3>6
    <3>7. CASE i < j
      <4>1. v[i] < v[j] /\ u[i] < v[i]
        BY <2>5, <3>5, <3>7 DEF Lists
      <4> QED
        BY <3>1, <3>3, <3>5, <4>1
    <3> QED
      BY <3>4, <3>5, <3>6, <3>7
  <2>6. CASE i \in DOMAIN q /\ (i \in DOMAIN r => q[i] < r[i])
    BY <2>4, <2>5, <2>6
  <2>7. CASE i \in DOMAIN r /\ (i \in DOMAIN q => r[i] < q[i])
    BY <2>3, <2>5, <2>7
  <2>8. \A j : j \in DOMAIN q /\ j \in DOMAIN r => q[j] \in Nat /\ r[j] \in Nat
    BY <1>1
  <2> QED
    BY <2>1, <2>6, <2>7, <2>8
<1>3. \A i \in Nat \ {0} : i \notin Differ
  BY <1>2
<1>4. Len(q) = Len(r)
  <2>1. CASE Len(q) < Len(r)
    <3>1. Len(r) \in DOMAIN r /\ Len(r) \notin DOMAIN q /\ Len(r) \in Nat \ {0}
      BY <1>1, <2>1
    <3> QED
      BY <1>3, <3>1
  <2>2. CASE Len(r) < Len(q)
    <3>1. Len(q) \in DOMAIN q /\ Len(q) \notin DOMAIN r /\ Len(q) \in Nat \ {0}
      BY <1>1, <2>2
    <3> QED
      BY <1>3, <3>1
  <2>3. Len(q) \in Nat /\ Len(r) \in Nat
    BY <1>1
  <2> QED
    BY <2>1, <2>2, <2>3
<1>5. \A i \in 1 .. Len(q) : q[i] = r[i]
  BY <1>1, <1>3, <1>4
<1> QED
  BY <1>1, <1>4, <1>5, SeqEqual

\* Ascending is that list.
LEMMA AscendingLists ==
  ASSUME NEW b \in Nat, NEW S \in SUBSET (0 .. b)
  PROVE  Lists(Ascending(S), S)
<1> DEFINE Q == {q \in [1 .. Cardinality(S) -> S] :
                   (\A i, j \in DOMAIN q : i < j => q[i] < q[j]) /\ Range(q) = S}
<1>1. PICK q \in [1 .. Cardinality(S) -> S] : Lists(q, S)
  BY ListExists
<1>2. q \in Q
  BY <1>1 DEF Lists, Range
<1>3. Ascending(S) \in Q
  BY <1>2 DEF Ascending
<1>4. Cardinality(S) \in Nat
  BY FiniteBelow
<1>5. Ascending(S) \in Seq(S)
  BY <1>3, <1>4
<1> QED
  BY <1>3, <1>5 DEF Lists, Range

\* A number above all others comes last.
LEMMA ListAppend ==
  ASSUME NEW S, S \subseteq Nat, NEW q, Lists(q, S), NEW x \in Nat, \A y \in S : y < x
  PROVE  Lists(Append(q, x), S \cup {x})
<1> DEFINE r == Append(q, x)
           T == S \cup {x}
<1>1. /\ q \in Seq(T) /\ Len(q) \in Nat /\ DOMAIN q = 1 .. Len(q)
      /\ \A i \in DOMAIN q : q[i] \in S /\ i \in Nat
  BY ListTypes DEF Lists
<1>2. /\ r \in Seq(T) /\ DOMAIN r = 1 .. Len(q) + 1
      /\ \A i \in 1 .. Len(q) : r[i] = q[i]
      /\ r[Len(q) + 1] = x
  BY <1>1
<1>3. \A i, j \in DOMAIN r : i < j => r[i] < r[j]
  <2>1. SUFFICES ASSUME NEW i \in DOMAIN r, NEW j \in DOMAIN r, i < j
                 PROVE  r[i] < r[j]
    OBVIOUS
  <2>2. i \in DOMAIN q /\ r[i] = q[i] /\ q[i] \in S
    BY <1>1, <1>2, <2>1
  <2>3. CASE j = Len(q) + 1
    BY <1>2, <2>2, <2>3
  <2>4. CASE j # Len(q) + 1
    <3>1. j \in DOMAIN q /\ r[j] = q[j]
      BY <1>1, <1>2, <2>4
    <3> QED
      BY <2>1, <2>2, <3>1 DEF Lists
  <2> QED
    BY <2>3, <2>4
<1>4. \A y \in T : \E i \in DOMAIN r : r[i] = y
  <2>1. SUFFICES ASSUME NEW y \in T PROVE \E i \in DOMAIN r : r[i] = y
    OBVIOUS
  <2>2. CASE y = x
    <3>1. Len(q) + 1 \in DOMAIN r
      BY <1>1, <1>2
    <3> QED
      BY <1>2, <2>2, <3>1
  <2>3. CASE y \in S
    <3>1. PICK i \in DOMAIN q : q[i] = y
      BY <2>3 DEF Lists
    <3>2. i \in DOMAIN r /\ r[i] = y
      BY <1>1, <1>2, <3>1
    <3> QED
      BY <3>2
  <2> QED
    BY <2>2, <2>3
<1> QED
  BY <1>2, <1>3, <1>4 DEF Lists

-----------------------------------------------------------------------------
\* The tree of a scene.
LEMMA TreeFacts ==
  ASSUME WellFormed(scene)
  PROVE  /\ scene.size \in Nat \ {0} /\ scene.size < NoParent
         /\ \A n \in Nodes : /\ n \in Nat \ {0} /\ n <= scene.size
                             /\ scene.parent[n] \in Nat /\ scene.parent[n] < n
                             /\ scene.parent[n] \in Nodes \cup {0}
         /\ \A m, n \in Nodes :
              m < n => scene.parent[n] >= m \/ scene.parent[n] <= scene.parent[m]
<1>1. scene.size \in Nat \ {0} /\ scene.size < NoParent
  <2>1. \A k \in 1 .. NoParent - 1 : k \in Nat \ {0} /\ k < NoParent
    <3>1. NoParent \in Nat
      BY DEF NoParent
    <3> HIDE DEF NoParent
    <3> QED
      BY <3>1
  <2>2. scene.size \in 1 .. NoParent - 1
    BY DEF WellFormed
  <2> HIDE DEF NoParent
  <2> QED
    BY <2>1, <2>2, Zenon
<1>2. ASSUME NEW n \in Nodes
      PROVE  /\ n \in Nat \ {0} /\ n <= scene.size
             /\ scene.parent[n] \in 0 .. scene.size /\ scene.parent[n] < n
  BY <1>1 DEF WellFormed, Nodes
<1>3. ASSUME NEW n \in Nodes
      PROVE  scene.parent[n] \in Nat /\ scene.parent[n] \in Nodes \cup {0}
  BY <1>1, <1>2 DEF Nodes
<1>4. \A m, n \in Nodes : m < n => scene.parent[n] >= m \/ scene.parent[n] <= scene.parent[m]
  BY DEF WellFormed, Nodes
<1> QED
  BY <1>1, <1>2, <1>3, <1>4

\* A node lies at or below s if and only if it is s or its parent does.
LEMMA BelowFacts ==
  ASSUME WellFormed(scene), NEW s \in Nodes \cup {0}
  PROVE  /\ s \in Below(s)
         /\ \A n \in Below(s) : n \in Nodes \cup {0} /\ n \in Nat /\ n >= s
         /\ \A n \in Nodes : n # s => (n \in Below(s) <=> scene.parent[n] \in Below(s))
<1>1. s \in Nat /\ s <= scene.size
  BY TreeFacts
<1>2. s \in Below(s)
  BY <1>1, TreeFacts DEF Below
<1>3. ASSUME NEW n \in Below(s) PROVE n \in Nodes \cup {0} /\ n \in Nat /\ n >= s
  BY <1>1, TreeFacts DEF Below, Nodes
<1>4. ASSUME NEW n \in Nodes, n # s, n \in Below(s)
      PROVE  scene.parent[n] \in Below(s)
  <2>1. n \in s + 1 .. n /\ n > s
    BY <1>1, <1>3, <1>4, TreeFacts
  <2>2. scene.parent[n] >= s
    BY <1>4, <2>1 DEF Below
  <2>3. scene.parent[n] \in s .. scene.size
    <3>1. n \in Nodes /\ s \in Nat /\ scene.size \in Nat /\ Nodes = 1 .. scene.size
      BY <1>1, <1>4, TreeFacts DEF Nodes
    <3>2. scene.parent[n] \in Nat /\ scene.parent[n] < n
      BY <3>1, TreeFacts
    <3> QED
      BY <2>2, <3>1, <3>2
  <2>4. \A k \in s + 1 .. scene.parent[n] : k \in s + 1 .. n
    BY <1>1, TreeFacts
  <2> QED
    BY <1>4, <2>3, <2>4 DEF Below
<1>5. ASSUME NEW n \in Nodes, n # s, scene.parent[n] \in Below(s)
      PROVE  n \in Below(s)
  <2>1. scene.parent[n] >= s /\ scene.parent[n] < n /\ n \in s .. scene.size
    BY <1>1, <1>3, <1>5, TreeFacts
  <2>2. ASSUME NEW k \in s + 1 .. n PROVE scene.parent[k] >= s
    <3>1. k \in Nodes
      BY <1>1, TreeFacts DEF Nodes
    <3>2. CASE k <= scene.parent[n]
      <4>1. k \in s + 1 .. scene.parent[n]
        BY <1>1, <3>2, TreeFacts
      <4> QED
        BY <1>5, <4>1 DEF Below
    <3>3. CASE k = n
      BY <2>1, <3>3
    <3>4. CASE scene.parent[n] < k /\ k < n
      BY <1>1, <2>1, <3>1, <3>4, TreeFacts
    <3> QED
      BY <1>1, <3>2, <3>3, <3>4, TreeFacts
  <2> QED
    BY <2>1, <2>2 DEF Below
<1> QED
  BY <1>2, <1>3, <1>4, <1>5

LEMMA ChildrenList ==
  ASSUME WellFormed(scene), NEW n
  PROVE  Lists(Children(n), {c \in Nodes : scene.parent[c] = n})
<1>1. scene.size \in Nat
  BY TreeFacts
<1>2. {c \in Nodes : scene.parent[c] = n} \in SUBSET (0 .. scene.size)
  BY <1>1 DEF Nodes
<1> QED
  BY <1>1, <1>2, AscendingLists DEF Children

-----------------------------------------------------------------------------
\* A list of bones or of assets that is in the order of the nodes, hangs together as they
\* do, and in which each element lists those that hang on it.
Hierarchy(list) ==
  /\ \A i, j \in DOMAIN list : i < j => list[i].node < list[j].node
  /\ \A i \in DOMAIN list : i # 1 =>
       /\ list[i].parent \in 0 .. i - 2
       /\ list[list[i].parent + 1].node = scene.parent[list[i].node]
  /\ \A i \in DOMAIN list :
       Lists(list[i].childs, {j \in 1 .. Len(list) - 1 : list[j + 1].parent = i - 1})

\* The list longer by node n, which hangs on element at.
Hangs(longer, list, n, at) ==
  /\ DOMAIN longer = 1 .. Len(list) + 1 /\ Len(longer) = Len(list) + 1
  /\ \A i \in 1 .. Len(list) :
       /\ longer[i].node = list[i].node /\ longer[i].parent = list[i].parent
       /\ longer[i].childs = IF i = at + 1 THEN Append(list[i].childs, Len(list))
                             ELSE list[i].childs
  /\ longer[Len(list) + 1].node = n
  /\ longer[Len(list) + 1].parent = at
  /\ longer[Len(list) + 1].childs = <<>>

LEMMA HierarchyGrows ==
  ASSUME WellFormed(scene), NEW list, DOMAIN list = 1 .. Len(list), Len(list) \in Nat \ {0},
         NEW longer, NEW n \in Nodes, NEW at \in 0 .. Len(list) - 1,
         Hangs(longer, list, n, at), Hierarchy(list),
         list[at + 1].node = scene.parent[n], \A i \in DOMAIN list : list[i].node < n
  PROVE  Hierarchy(longer)
<1> DEFINE len == Len(list)
           On(l, i) == {j \in 1 .. Len(l) - 1 : l[j + 1].parent = i - 1}
<1>0. DOMAIN longer = 1 .. len + 1 /\ len \in Nat /\ DOMAIN list = 1 .. len
  BY DEF Hangs
<1>1. \A i, j \in DOMAIN longer : i < j => longer[i].node < longer[j].node
  <2>1. SUFFICES ASSUME NEW i \in DOMAIN longer, NEW j \in DOMAIN longer, i < j
                 PROVE  longer[i].node < longer[j].node
    OBVIOUS
  <2>2. i \in DOMAIN list /\ longer[i].node = list[i].node
    BY <2>1 DEF Hangs
  <2>3. CASE j = len + 1
    BY <2>2, <2>3 DEF Hangs
  <2>4. CASE j # len + 1
    <3>1. j \in 1 .. len
      BY <1>0, <2>4
    <3>2. j \in DOMAIN list /\ longer[j].node = list[j].node
      BY <1>0, <3>1 DEF Hangs
    <3> QED
      BY <2>1, <2>2, <3>2 DEF Hierarchy
  <2> QED
    BY <2>3, <2>4
<1>2. \A i \in DOMAIN longer : i # 1 =>
        /\ longer[i].parent \in 0 .. i - 2
        /\ longer[longer[i].parent + 1].node = scene.parent[longer[i].node]
  <2>1. SUFFICES ASSUME NEW i \in DOMAIN longer, i # 1
                 PROVE  /\ longer[i].parent \in 0 .. i - 2
                        /\ longer[longer[i].parent + 1].node = scene.parent[longer[i].node]
    OBVIOUS
  <2>2. CASE i = len + 1
    <3>1. longer[i].parent = at /\ longer[i].node = n /\ at + 1 \in 1 .. len
      BY <2>2 DEF Hangs
    <3>2. longer[at + 1].node = list[at + 1].node
      BY <3>1 DEF Hangs
    <3> QED
      BY <2>2, <3>1, <3>2
  <2>3. CASE i # len + 1
    <3>1. i \in 1 .. len /\ longer[i].parent = list[i].parent /\ longer[i].node = list[i].node
      BY <2>3 DEF Hangs
    <3>2. /\ list[i].parent \in 0 .. i - 2
          /\ list[list[i].parent + 1].node = scene.parent[list[i].node]
      BY <2>1, <3>1 DEF Hierarchy
    <3>3. list[i].parent + 1 \in 1 .. len
      BY <3>1, <3>2
    <3>4. longer[list[i].parent + 1].node = list[list[i].parent + 1].node
      BY <3>3 DEF Hangs
    <3> QED
      BY <3>1, <3>2, <3>4
  <2> QED
    BY <2>2, <2>3
<1>3. ASSUME NEW i \in DOMAIN longer
      PROVE  Lists(longer[i].childs, On(longer, i))
  <2>1. Len(longer) - 1 = len /\ DOMAIN longer = 1 .. len + 1
    BY DEF Hangs
  <2>2. \A j \in 1 .. len - 1 : longer[j + 1].parent = list[j + 1].parent
    BY DEF Hangs
  <2>3. longer[len + 1].parent = at
    BY DEF Hangs
  <2>4. CASE i = at + 1
    <3>0. i \in DOMAIN list
      BY <1>0, <2>4
    <3>1. Lists(list[i].childs, On(list, i)) /\ i \in 1 .. len
      BY <1>0, <3>0 DEF Hierarchy
    <3>2. longer[i].childs = Append(list[i].childs, len)
      BY <2>4, <3>1 DEF Hangs
    <3>3. On(longer, i) = On(list, i) \cup {len}
      BY <2>1, <2>2, <2>3, <2>4
    <3>4. On(list, i) \subseteq Nat /\ \A y \in On(list, i) : y < len
      BY <1>0
    <3> HIDE DEF On
    <3>5. Lists(Append(list[i].childs, len), On(list, i) \cup {len})
      BY <1>0, <3>1, <3>4, ListAppend
    <3> QED
      BY <3>2, <3>3, <3>5
  <2>5. CASE i # at + 1 /\ i # len + 1
    <3>1. i \in 1 .. len
      BY <2>1, <2>5
    <3>2. longer[i].childs = list[i].childs /\ Lists(list[i].childs, On(list, i))
      BY <2>5, <3>1 DEF Hangs, Hierarchy
    <3>3. at # i - 1
      BY <2>5, <3>1
    <3>4. On(longer, i) = On(list, i)
      BY <2>1, <2>2, <2>3, <3>3
    <3> QED
      BY <3>2, <3>4
  <2>6. CASE i = len + 1
    <3>1. ASSUME NEW j \in On(longer, i) PROVE FALSE
      <4>1. j \in 1 .. len /\ longer[j + 1].parent = len
        BY <2>1, <2>6, <3>1
      <4>2. j + 1 \in DOMAIN longer /\ j + 1 # 1
        BY <2>1, <4>1
      <4>3. longer[j + 1].parent \in 0 .. j - 1
        BY <1>2, <4>2
      <4> QED
        BY <4>1, <4>3
    <3>2. longer[i].childs = <<>>
      BY <2>6 DEF Hangs
    <3>3. On(longer, i) = {}
      BY <3>1
    <3>4. Lists(<<>>, {})
      BY DEF Lists
    <3> QED
      BY <3>2, <3>3, <3>4
  <2> QED
    BY <2>4, <2>5, <2>6
<1> QED
  BY <1>1, <1>2, <1>3 DEF Hierarchy

-----------------------------------------------------------------------------
\* The calls still to be made while the list is built: each for a node that hangs on an
\* element of the list, all after the nodes of the list and in their order; and every such
\* node that is neither in the list nor passed over has its call.
Awaits(cs, list, passed) ==
  /\ cs \in Seq(Nodes \X Nat)
  /\ \A i, j \in DOMAIN cs : i < j => cs[i][1] < cs[j][1]
  /\ \A i \in DOMAIN cs :
       /\ cs[i][2] + 1 \in DOMAIN list
       /\ list[cs[i][2] + 1].node = scene.parent[cs[i][1]]
       /\ \A k \in DOMAIN list : list[k].node < cs[i][1]
  /\ \A n \in Nodes \ passed : \A k \in DOMAIN list :
       list[k].node = scene.parent[n] =>
         \/ \E j \in DOMAIN list : list[j].node = n
         \/ \E i \in DOMAIN cs : cs[i][1] = n

LEMMA ChildrenTypes ==
  ASSUME WellFormed(scene), NEW n
  PROVE  /\ Len(Children(n)) \in Nat /\ DOMAIN Children(n) = 1 .. Len(Children(n))
         /\ \A i \in DOMAIN Children(n) :
              Children(n)[i] \in Nodes /\ scene.parent[Children(n)[i]] = n
         /\ \A i, j \in DOMAIN Children(n) : i < j => Children(n)[i] < Children(n)[j]
         /\ \A c \in Nodes : scene.parent[c] = n => \E i \in DOMAIN Children(n) : Children(n)[i] = c
<1>1. Lists(Children(n), {c \in Nodes : scene.parent[c] = n})
  BY ChildrenList
<1>2. {c \in Nodes : scene.parent[c] = n} \subseteq Nat
  BY TreeFacts
<1>3. /\ DOMAIN Children(n) = 1 .. Len(Children(n)) /\ Len(Children(n)) \in Nat
      /\ \A i \in DOMAIN Children(n) : Children(n)[i] \in {c \in Nodes : scene.parent[c] = n}
  BY <1>1, <1>2, ListTypes
<1>4. /\ \A i, j \in DOMAIN Children(n) : i < j => Children(n)[i] < Children(n)[j]
      /\ \A c \in Nodes : scene.parent[c] = n => \E i \in DOMAIN Children(n) : Children(n)[i] = c
  BY <1>1 DEF Lists
<1> QED
  BY <1>3, <1>4

\* The calls a visit leaves: those of the children, then those that were left before.
LEMMA CallsBelowParts ==
  ASSUME WellFormed(scene), calls \in Seq(Nodes \X Nat), calls # <<>>, NEW n, NEW at \in Nat
  PROVE  /\ CallsBelow(n, at) \in Seq(Nodes \X Nat)
         /\ DOMAIN CallsBelow(n, at) = 1 .. Len(Children(n)) + (Len(calls) - 1)
         /\ Len(calls) - 1 \in Nat
         /\ \A i \in 1 .. Len(Children(n)) : CallsBelow(n, at)[i] = <<Children(n)[i], at>>
         /\ \A i \in 1 .. Len(calls) - 1 : CallsBelow(n, at)[Len(Children(n)) + i] = calls[i + 1]
<1> DEFINE q == [i \in DOMAIN Children(n) |-> <<Children(n)[i], at>>]
           t == Tail(calls)
<1>1. q \in Seq(Nodes \X Nat) /\ Len(q) = Len(Children(n)) /\ Len(q) \in Nat
  <2>1. \A i \in DOMAIN Children(n) : <<Children(n)[i], at>> \in Nodes \X Nat
    BY ChildrenTypes
  <2>2. DOMAIN Children(n) = 1 .. Len(Children(n)) /\ Len(Children(n)) \in Nat
    BY ChildrenTypes
  <2>3. q \in [1 .. Len(Children(n)) -> Nodes \X Nat]
    BY <2>1, <2>2
  <2> QED
    BY <2>2, <2>3
<1>2. \A i \in 1 .. Len(Children(n)) : q[i] = <<Children(n)[i], at>>
  BY ChildrenTypes
<1>3. t \in Seq(Nodes \X Nat) /\ Len(t) = Len(calls) - 1 /\ Len(t) \in Nat
  OBVIOUS
<1>4. \A i \in 1 .. Len(calls) - 1 : t[i] = calls[i + 1]
  OBVIOUS
<1>5. CallsBelow(n, at) = q \o t
  BY DEF CallsBelow
<1> HIDE DEF q, t
<1>6. /\ q \o t \in Seq(Nodes \X Nat) /\ Len(q \o t) = Len(q) + Len(t)
      /\ DOMAIN (q \o t) = 1 .. Len(q) + Len(t)
      /\ \A i \in 1 .. Len(q) : (q \o t)[i] = q[i]
      /\ \A i \in 1 .. Len(t) : (q \o t)[Len(q) + i] = t[i]
  <2> DEFINE r == q \o t
  <2>1. /\ r \in Seq(Nodes \X Nat) /\ Len(r) = Len(q) + Len(t)
        /\ \A i \in 1 .. Len(q) + Len(t) : r[i] = IF i <= Len(q) THEN q[i] ELSE t[i - Len(q)]
    <3> DEFINE S == Nodes \X Nat
    <3>1. q \in Seq(S) /\ t \in Seq(S)
      BY <1>1, <1>3
    <3> HIDE DEF S
    <3>2. /\ r \in Seq(S) /\ Len(r) = Len(q) + Len(t)
          /\ \A i \in 1 .. Len(q) + Len(t) : r[i] = IF i <= Len(q) THEN q[i] ELSE t[i - Len(q)]
      BY <3>1, ConcatProperties, Zenon
    <3> QED
      BY <3>2 DEF S
  <2> HIDE DEF r
  <2>2. DOMAIN r = 1 .. Len(q) + Len(t)
    BY <1>1, <1>3, <2>1
  <2>3. ASSUME NEW i \in 1 .. Len(q) PROVE r[i] = q[i]
    <3>1. i \in 1 .. Len(q) + Len(t) /\ i <= Len(q)
      BY <1>1, <1>3
    <3> QED
      BY <2>1, <3>1
  <2>4. ASSUME NEW i \in 1 .. Len(t) PROVE r[Len(q) + i] = t[i]
    <3>1. Len(q) + i \in 1 .. Len(q) + Len(t) /\ ~(Len(q) + i <= Len(q)) /\ Len(q) + i - Len(q) = i
      BY <1>1, <1>3
    <3> QED
      BY <2>1, <3>1
  <2> QED
    BY <2>1, <2>2, <2>3, <2>4 DEF r
<1> QED
  BY <1>1, <1>2, <1>3, <1>4, <1>5, <1>6

\* A list's first element: its children are called for.
LEMMA AwaitsFirst ==
  ASSUME WellFormed(scene), NEW n \in Nodes \cup {0}, NEW list, DOMAIN list = {1},
         list[1].node = n, NEW cs \in Seq(Nodes \X Nat), Len(cs) = Len(Children(n)),
         \A i \in 1 .. Len(cs) : cs[i] = <<Children(n)[i], 0>>, NEW passed
  PROVE  Awaits(cs, list, passed)
<1>1. /\ DOMAIN cs = DOMAIN Children(n)
      /\ \A i \in DOMAIN cs : cs[i] = <<Children(n)[i], 0>>
  BY ChildrenTypes
<1>2. \A i \in DOMAIN cs : /\ cs[i][1] = Children(n)[i] /\ cs[i][2] = 0
                           /\ cs[i][1] \in Nodes /\ scene.parent[cs[i][1]] = n
  BY <1>1, ChildrenTypes
<1>3. \A i, j \in DOMAIN cs : i < j => cs[i][1] < cs[j][1]
  <2>1. \A i, j \in DOMAIN cs : i < j => Children(n)[i] < Children(n)[j]
    BY <1>1, ChildrenTypes
  <2> QED
    BY <1>2, <2>1
<1>4. \A i \in DOMAIN cs : n < cs[i][1]
  BY <1>2, TreeFacts
<1>5. ASSUME NEW m \in Nodes, scene.parent[m] = n PROVE \E i \in DOMAIN cs : cs[i][1] = m
  BY <1>1, <1>2, <1>5, ChildrenTypes
<1>6. \A i \in DOMAIN cs : cs[i][2] + 1 = 1
  BY <1>2
<1> QED
  BY <1>2, <1>3, <1>4, <1>5, <1>6 DEF Awaits

\* The next call places its node: the calls for its children come before the others.
LEMMA AwaitsBelow ==
  ASSUME WellFormed(scene), calls # <<>>, NEW list, NEW passed,
         DOMAIN list = 1 .. Len(list), Len(list) \in Nat \ {0},
         \A i \in DOMAIN list : list[i].node \in Nat,
         Awaits(calls, list, passed), NEW longer, NEW at,
         Hangs(longer, list, calls[1][1], at)
  PROVE  Awaits(CallsBelow(calls[1][1], Len(list)), longer, passed)
<1> DEFINE n == calls[1][1]
           len == Len(list)
           cs == CallsBelow(n, len)
           c == Len(Children(n))
           t == Len(calls) - 1
<1>1. /\ calls \in Seq(Nodes \X Nat) /\ 1 \in DOMAIN calls /\ DOMAIN calls = 1 .. t + 1
      /\ n \in Nodes /\ n \in Nat
  <2>1. calls \in Seq(Nodes \X Nat)
    BY DEF Awaits
  <2>2. 1 \in DOMAIN calls /\ DOMAIN calls = 1 .. t + 1
    BY <2>1
  <2>3. calls[1] \in Nodes \X Nat
    BY <2>1, <2>2
  <2> QED
    BY <2>1, <2>2, <2>3, TreeFacts
<1>2. /\ cs \in Seq(Nodes \X Nat) /\ DOMAIN cs = 1 .. c + t /\ t \in Nat /\ c \in Nat
      /\ \A i \in 1 .. c : cs[i] = <<Children(n)[i], len>>
      /\ \A i \in 1 .. t : cs[c + i] = calls[i + 1]
  BY <1>1, CallsBelowParts, ChildrenTypes
<1> HIDE DEF cs
<1>3. /\ DOMAIN longer = 1 .. len + 1
      /\ \A k \in 1 .. len : k \in DOMAIN longer /\ longer[k].node = list[k].node
      /\ len + 1 \in DOMAIN longer /\ longer[len + 1].node = n
  BY DEF Hangs
<1>4. ASSUME NEW i \in 1 .. c
      PROVE  /\ cs[i][1] = Children(n)[i] /\ cs[i][2] = len
             /\ cs[i][1] \in Nodes /\ scene.parent[cs[i][1]] = n /\ n < cs[i][1]
  <2>1. cs[i][1] = Children(n)[i] /\ cs[i][2] = len
    BY <1>2
  <2>2. Children(n)[i] \in Nodes /\ scene.parent[Children(n)[i]] = n
    BY <1>1, <1>2, ChildrenTypes
  <2>3. \A m \in Nodes : scene.parent[m] < m
    BY TreeFacts
  <2> QED
    BY <2>1, <2>2, <2>3
<1>5. ASSUME NEW i \in DOMAIN cs, i > c
      PROVE  /\ i - c + 1 \in DOMAIN calls /\ cs[i] = calls[i - c + 1] /\ i - c + 1 > 1
             /\ n < cs[i][1] /\ cs[i][1] \in Nodes
             /\ cs[i][2] + 1 \in DOMAIN list
             /\ list[cs[i][2] + 1].node = scene.parent[cs[i][1]]
             /\ scene.parent[cs[i][1]] < n
  <2>1. i - c \in 1 .. t /\ i = c + (i - c)
    BY <1>2, <1>5
  <2>2. cs[i] = calls[(i - c) + 1]
    BY <1>2, <2>1
  <2>3. i - c + 1 \in DOMAIN calls /\ i - c + 1 > 1
    BY <1>1, <2>1
  <2>4. n < cs[i][1] /\ cs[i][1] \in Nodes
    <3>1. calls[1][1] < calls[i - c + 1][1]
      BY <1>1, <2>3 DEF Awaits
    <3>2. calls[i - c + 1] \in Nodes \X Nat
      BY <1>1, <2>3
    <3> QED
      BY <2>2, <3>1, <3>2
  <2>5. /\ cs[i][2] + 1 \in DOMAIN list
        /\ list[cs[i][2] + 1].node = scene.parent[cs[i][1]]
    BY <2>2, <2>3 DEF Awaits
  <2>6. list[cs[i][2] + 1].node < n
    BY <1>1, <2>5 DEF Awaits
  <2> QED
    BY <2>2, <2>3, <2>4, <2>5, <2>6
<1>6. ASSUME NEW i \in DOMAIN cs, NEW j \in DOMAIN cs, i < j
      PROVE  cs[i][1] < cs[j][1]
  <2>0. i \in Nat /\ j \in Nat /\ i >= 1 /\ j >= 1
    BY <1>2
  <2>1. CASE j <= c
    <3>1. i \in 1 .. c /\ j \in 1 .. c
      BY <1>2, <1>6, <2>0, <2>1
    <3>2. i \in DOMAIN Children(n) /\ j \in DOMAIN Children(n)
      BY <3>1, ChildrenTypes
    <3>3. Children(n)[i] < Children(n)[j]
      BY <1>6, <3>2, ChildrenTypes
    <3> QED
      BY <1>4, <3>1, <3>3
  <2>2. CASE i > c
    <3>1. j > c
      BY <1>2, <1>6, <2>0, <2>2
    <3>2. /\ i - c + 1 \in DOMAIN calls /\ cs[i] = calls[i - c + 1]
          /\ j - c + 1 \in DOMAIN calls /\ cs[j] = calls[j - c + 1]
      BY <1>5, <2>2, <3>1
    <3>3. i - c + 1 < j - c + 1
      BY <1>2, <1>6, <2>0
    <3> QED
      BY <3>2, <3>3 DEF Awaits
  <2>3. CASE i <= c /\ j > c
    <3> DEFINE x == cs[i][1]
               y == cs[j][1]
    <3>1. i \in 1 .. c
      BY <1>2, <2>0, <2>3
    <3>2. x \in Nodes /\ scene.parent[x] = n
      BY <1>4, <3>1
    <3>3. y \in Nodes /\ n < y /\ scene.parent[y] < n
      BY <1>5, <2>3
    <3> HIDE DEF x, y
    <3>4. x \in Nat /\ y \in Nat /\ scene.parent[y] \in Nat
      BY <3>2, <3>3, TreeFacts
    <3>5. x # y
      BY <1>1, <3>2, <3>3, <3>4
    <3>6. ~(y < x)
      <4>1. SUFFICES ASSUME y < x PROVE FALSE
        OBVIOUS
      <4>2. n >= y \/ n <= scene.parent[y]
        BY <3>2, <3>3, <4>1, TreeFacts
      <4> QED
        BY <1>1, <3>3, <3>4, <4>2
    <3>7. x < y
      BY <3>4, <3>5, <3>6
    <3> QED
      BY <3>7 DEF x, y
  <2> QED
    BY <1>2, <2>0, <2>1, <2>2, <2>3
<1>7. ASSUME NEW i \in DOMAIN cs
      PROVE  /\ cs[i][2] + 1 \in DOMAIN longer
             /\ longer[cs[i][2] + 1].node = scene.parent[cs[i][1]]
             /\ n < cs[i][1]
  <2>1. CASE i \in 1 .. c
    BY <1>3, <1>4, <2>1
  <2>2. CASE i > c
    BY <1>3, <1>5, <2>2
  <2> QED
    BY <1>2, <2>1, <2>2
<1>8. ASSUME NEW i \in DOMAIN cs, NEW k \in DOMAIN longer PROVE longer[k].node < cs[i][1]
  <2>1. n < cs[i][1] /\ cs[i][1] \in Nat
    <3>1. cs[i] \in Nodes \X Nat
      BY <1>2
    <3> QED
      BY <1>7, <3>1, TreeFacts
  <2>2. CASE k = len + 1
    BY <1>3, <2>1, <2>2
  <2>3. CASE k # len + 1
    <3>1. k \in 1 .. len
      BY <1>3, <2>3
    <3>2. longer[k].node = list[k].node /\ list[k].node < n /\ list[k].node \in Nat
      BY <1>1, <1>3, <3>1 DEF Awaits
    <3> QED
      BY <1>1, <2>1, <3>2
  <2> QED
    BY <2>2, <2>3
<1>9. ASSUME NEW m \in Nodes \ passed, NEW k \in DOMAIN longer,
             longer[k].node = scene.parent[m]
      PROVE  \/ \E j \in DOMAIN longer : longer[j].node = m
             \/ \E i \in DOMAIN cs : cs[i][1] = m
  <2>1. CASE k = len + 1
    <3>1. scene.parent[m] = n
      BY <1>3, <1>9, <2>1
    <3>2. PICK i \in DOMAIN Children(n) : Children(n)[i] = m
      BY <3>1, ChildrenTypes
    <3>3. i \in 1 .. c /\ i \in DOMAIN cs
      BY <1>2, <3>2, ChildrenTypes
    <3> QED
      BY <1>4, <3>2, <3>3
  <2>2. CASE k # len + 1
    <3>1. k \in DOMAIN list /\ list[k].node = scene.parent[m]
      BY <1>3, <1>9, <2>2
    <3>2. (\E j \in DOMAIN list : list[j].node = m) \/ (\E i \in DOMAIN calls : calls[i][1] = m)
      BY <3>1 DEF Awaits
    <3>3. CASE \E j \in DOMAIN list : list[j].node = m
      BY <1>3, <3>3
    <3>4. ASSUME NEW i \in DOMAIN calls, calls[i][1] = m
          PROVE  \/ \E j \in DOMAIN longer : longer[j].node = m
                 \/ \E j \in DOMAIN cs : cs[j][1] = m
      <4>1. CASE i = 1
        BY <1>3, <3>4, <4>1
      <4>2. CASE i # 1
        <5>1. i - 1 \in 1 .. t /\ i = (i - 1) + 1
          BY <1>1, <3>4, <4>2
        <5>2. cs[c + (i - 1)] = calls[(i - 1) + 1]
          BY <1>2, <5>1
        <5>3. c + (i - 1) \in DOMAIN cs
          <6>1. \A h \in 1 .. t : c + h \in 1 .. c + t
            BY <1>2
          <6> QED
            BY <1>2, <5>1, <6>1
        <5> QED
          BY <3>4, <5>1, <5>2, <5>3
      <4> QED
        BY <4>1, <4>2
    <3> QED
      BY <3>2, <3>3, <3>4
  <2> QED
    BY <2>1, <2>2
<1>10. Awaits(cs, longer, passed)
  BY <1>2, <1>6, <1>7, <1>8, <1>9 DEF Awaits
<1> QED
  BY <1>10 DEF cs

\* The next call is for a node that is passed over.
LEMMA AwaitsTail ==
  ASSUME WellFormed(scene), calls # <<>>, NEW list, NEW passed, Awaits(calls, list, passed),
         calls[1][1] \in passed
  PROVE  Awaits(Tail(calls), list, passed)
<1> DEFINE t == Tail(calls)
<1>1. calls \in Seq(Nodes \X Nat)
  BY DEF Awaits
<1>2. /\ t \in Seq(Nodes \X Nat) /\ DOMAIN t = 1 .. Len(calls) - 1 /\ Len(calls) \in Nat
      /\ \A i \in DOMAIN t : i \in Nat /\ i + 1 \in DOMAIN calls /\ t[i] = calls[i + 1]
      /\ \A i \in DOMAIN calls : i # 1 => i - 1 \in DOMAIN t /\ t[i - 1] = calls[i]
  BY <1>1
<1> HIDE DEF t
<1>3. \A i, j \in DOMAIN t : i < j => t[i][1] < t[j][1]
  <2>1. SUFFICES ASSUME NEW i \in DOMAIN t, NEW j \in DOMAIN t, i < j PROVE t[i][1] < t[j][1]
    OBVIOUS
  <2>2. i + 1 \in DOMAIN calls /\ j + 1 \in DOMAIN calls /\ i + 1 < j + 1
    BY <1>2, <2>1
  <2>3. calls[i + 1][1] < calls[j + 1][1]
    BY <2>2 DEF Awaits
  <2> QED
    BY <1>2, <2>3
<1>4. \A i \in DOMAIN t :
        /\ t[i][2] + 1 \in DOMAIN list
        /\ list[t[i][2] + 1].node = scene.parent[t[i][1]]
        /\ \A k \in DOMAIN list : list[k].node < t[i][1]
  <2>1. \A i \in DOMAIN calls :
          /\ calls[i][2] + 1 \in DOMAIN list
          /\ list[calls[i][2] + 1].node = scene.parent[calls[i][1]]
          /\ \A k \in DOMAIN list : list[k].node < calls[i][1]
    BY DEF Awaits
  <2> QED
    BY <1>2, <2>1
<1>5. ASSUME NEW n \in Nodes \ passed, NEW k \in DOMAIN list, list[k].node = scene.parent[n]
      PROVE  \/ \E j \in DOMAIN list : list[j].node = n
             \/ \E i \in DOMAIN t : t[i][1] = n
  <2>1. (\E j \in DOMAIN list : list[j].node = n) \/ (\E i \in DOMAIN calls : calls[i][1] = n)
    BY <1>5 DEF Awaits
  <2>2. ASSUME NEW i \in DOMAIN calls, calls[i][1] = n
        PROVE  \E j \in DOMAIN t : t[j][1] = n
    <3>1. i # 1
      BY <1>5, <2>2
    <3> QED
      BY <1>2, <2>2, <3>1
  <2> QED
    BY <2>1, <2>2
<1>6. Awaits(t, list, passed)
  BY <1>2, <1>3, <1>4, <1>5 DEF Awaits
<1> QED
  BY <1>6 DEF t

Bone == [node : Nodes, parent : Nat, childs : Seq(Nat)]

PlaceableAsset ==
  [node : Nodes \cup {NoNode}, parent : Nat, childs : Seq(Nat), model : BOOLEAN]

Model == [node : Nodes, materials : Seq(Materials), joint : Nat]

Skeletons == {n \in Nodes : scene.kind[n] = "Skeleton"}

\* A list of bones that begins with the skeleton's root.
SkeletonPart(list) ==
  /\ list \in Seq(Bone)
  /\ list # <<>> =>
       /\ Hierarchy(list)
       /\ list[1].node = SkeletonRoot /\ list[1].parent = NoParent
       /\ \A i \in DOMAIN list : list[i].node \in Below(SkeletonRoot)

\* All of the skeleton, which is nothing but skeleton nodes.
WholeSkeleton(list) ==
  IF SkeletonRoot = NoNode THEN list = <<>>
  ELSE {list[i].node : i \in DOMAIN list} = Below(SkeletonRoot) /\ Below(SkeletonRoot) \subseteq Skeletons

SceneInv ==
  /\ WellFormed(scene) /\ debugger \in BOOLEAN /\ skinnedReady \in BOOLEAN
  /\ phase \in {"Materials", "Skeleton", "Bones", "Animation", "Models", "Nodes", "Done"}
  /\ status \in {"running", "stopped"}
  /\ status = "stopped" => phase \in {"Bones", "Nodes"}
  /\ calls \in Seq(Nodes \X Nat)

BonesInv ==
  /\ SkeletonPart(bones)
  /\ phase \in {"Materials", "Skeleton"} => bones = <<>>
  /\ phase = "Bones" /\ status = "running" =>
       /\ SkeletonRoot # NoNode
       /\ \A i \in DOMAIN bones : bones[i].node \in Skeletons
       /\ \/ bones = <<>> /\ calls = <<<<SkeletonRoot, NoParent>>>>
          \/ bones # <<>> /\ Awaits(calls, bones, {})
  /\ phase \in {"Animation", "Models", "Nodes", "Done"} => WholeSkeleton(bones)

TracksInv ==
  /\ tracks \in Seq(Nodes)
  /\ phase \in {"Materials", "Skeleton", "Bones", "Animation"} => tracks = <<>>
  /\ \A i \in DOMAIN tracks :
       i \in DOMAIN bones /\ scene.name[tracks[i]] = scene.name[bones[i].node]

\* A list of assets below the one of the file, of nodes that no skeleton holds.
HierarchyPart(list) ==
  /\ list \in Seq(PlaceableAsset) /\ list # <<>> /\ Hierarchy(list)
  /\ list[1].node = NoNode /\ list[1].parent = NoParent
  /\ \A i \in DOMAIN list : i # 1 =>
       list[i].node \in Reached /\ (list[i].model <=> IsMesh(list[i].node))

AssetsInv ==
  /\ phase \notin {"Nodes", "Done"} => assets = <<>>
  /\ phase \in {"Nodes", "Done"} => HierarchyPart(assets)
  /\ phase = "Nodes" /\ status = "running" => Awaits(calls, assets, Skeletons)
  /\ phase = "Done" => {assets[i].node : i \in DOMAIN assets} = Reached \cup {NoNode}

\* The meshes among the assets have models, in their order, and no other; the names of
\* models are their own where nobody goes on from a break.
ModelsInv ==
  /\ models \in Seq(Model)
  /\ \A i \in DOMAIN models :
       LET n == models[i].node
       IN  /\ n \in MeshNodes /\ ~GeometryStops(n) /\ (n \notin scene.refused \/ debugger)
           /\ models[i].materials = scene.materials[n] /\ models[i].joint = Joint(n)
           /\ \E k \in DOMAIN assets : assets[k].node = n
  /\ \A i, j \in DOMAIN models : i < j => models[i].node < models[j].node
  /\ ~debugger => \A i, j \in DOMAIN models :
       scene.name[models[i].node] = scene.name[models[j].node] => i = j
  /\ Len(models) <= Room
  /\ \A k \in DOMAIN assets : k # 1 /\ IsMesh(assets[k].node) =>
       \E i \in DOMAIN models : models[i].node = assets[k].node

\* The materials of the skinned models have the skinned shader, if it is instantiated.
ShaderInv ==
  /\ phase = "Materials" => DOMAIN shader = {}
  /\ phase # "Materials" => shader \in [Materials -> {"SSDefaultPbr", "SSDefaultPbrSkinned"}]
  /\ phase # "Materials" /\ status = "running" =>
       \A m \in Materials :
         shader[m] = "SSDefaultPbrSkinned" <=>
           \E i \in DOMAIN models : /\ skinnedReady
                                    /\ scene.kind[models[i].node] = "Skinned"
                                    /\ m \in Range(models[i].materials)

IInv ==
  /\ SceneInv
  /\ BonesInv
  /\ TracksInv
  /\ AssetsInv
  /\ ModelsInv
  /\ ShaderInv
  /\ StopsExplained

-----------------------------------------------------------------------------
\* What is said of a scene stays true while the scene stays.
LEMMA SameScene ==
  ASSUME scene' = scene
  PROVE  /\ Nodes' = Nodes /\ Skeletons' = Skeletons /\ SkeletonRoot' = SkeletonRoot
         /\ Reached' = Reached /\ Bone' = Bone /\ PlaceableAsset' = PlaceableAsset
         /\ Model' = Model /\ (WellFormed(scene)' <=> WellFormed(scene))
         /\ MeshNodes' = MeshNodes /\ SkeletonNodes' = SkeletonNodes
         /\ \A n : Below(n)' = Below(n) /\ (IsMesh(n)' <=> IsMesh(n))
         /\ \A list : /\ Hierarchy(list)' <=> Hierarchy(list)
                      /\ SkeletonPart(list)' <=> SkeletonPart(list)
                      /\ WholeSkeleton(list)' <=> WholeSkeleton(list)
                      /\ HierarchyPart(list)' <=> HierarchyPart(list)
         /\ \A cs, list, passed : Awaits(cs, list, passed)' <=> Awaits(cs, list, passed)
<1>1. Nodes' = Nodes /\ Skeletons' = Skeletons /\ (WellFormed(scene)' <=> WellFormed(scene))
  BY DEF Nodes, Skeletons
<1>2. \A n : Below(n)' = Below(n) /\ (IsMesh(n)' <=> IsMesh(n))
  BY DEF Below, IsMesh
<1>3. SkeletonRoot' = SkeletonRoot /\ Bone' = Bone /\ PlaceableAsset' = PlaceableAsset /\ Model' = Model
  BY <1>1 DEF SkeletonRoot, Bone, PlaceableAsset, Model
<1>4. Reached' = Reached
  BY <1>1, <1>2 DEF Reached
<1>5. MeshNodes' = MeshNodes /\ SkeletonNodes' = SkeletonNodes
  BY <1>2, <1>3, <1>4 DEF MeshNodes, SkeletonNodes
<1>6. \A list : Hierarchy(list)' <=> Hierarchy(list)
  BY DEF Hierarchy
<1>7. \A list : SkeletonPart(list)' <=> SkeletonPart(list)
  BY <1>2, <1>3, <1>6 DEF SkeletonPart
<1>8. \A list : WholeSkeleton(list)' <=> WholeSkeleton(list)
  BY <1>1, <1>2, <1>3 DEF WholeSkeleton
<1>9. \A list : HierarchyPart(list)' <=> HierarchyPart(list)
  BY <1>2, <1>3, <1>4, <1>6 DEF HierarchyPart
<1>10. \A cs, list, passed : Awaits(cs, list, passed)' <=> Awaits(cs, list, passed)
  BY <1>1 DEF Awaits
<1> QED
  BY <1>1, <1>2, <1>3, <1>4, <1>5, <1>6, <1>7, <1>8, <1>9, <1>10

LEMMA SameReasons ==
  ASSUME scene' = scene, debugger' = debugger
  PROVE  Importable' <=> Importable
<1>1. NothingAsserts' <=> NothingAsserts
  BY SameScene DEF NothingAsserts
<1>2. NothingBreaks' <=> NothingBreaks
  BY SameScene DEF NothingBreaks
<1> QED
  BY <1>1, <1>2 DEF Importable

LEMMA RootFacts ==
  ASSUME WellFormed(scene), SkeletonRoot # NoNode
  PROVE  SkeletonRoot \in Skeletons /\ SkeletonRoot \in Nodes /\ SkeletonRoot \in Nat \ {0}
<1> DEFINE T == {n \in Nodes : scene.kind[n] = "Skeleton"}
<1>1. T # {} /\ SkeletonRoot = Least(T)
  BY DEF SkeletonRoot
<1>2. T \subseteq Nat
  BY TreeFacts
<1>3. Least(T) \in T
  BY <1>1, <1>2, LeastIsLeast
<1> QED
  BY <1>1, <1>3, TreeFacts DEF Skeletons

LEMMA NoRoot ==
  ASSUME WellFormed(scene), SkeletonRoot = NoNode
  PROVE  Skeletons = {}
<1> DEFINE T == {n \in Nodes : scene.kind[n] = "Skeleton"}
<1>1. ASSUME T # {} PROVE FALSE
  <2>1. T \subseteq Nat
    BY TreeFacts
  <2>2. Least(T) \in T
    BY <1>1, <2>1, LeastIsLeast
  <2>3. SkeletonRoot = Least(T)
    BY <1>1 DEF SkeletonRoot
  <2> QED
    BY <2>2, <2>3, TreeFacts DEF NoNode
<1> QED
  BY <1>1 DEF Skeletons

\* The nodes of a list in their order are as many as its elements.
LEMMA NodesCounted ==
  ASSUME NEW list, Len(list) \in Nat, DOMAIN list = 1 .. Len(list),
         \A i \in DOMAIN list : list[i].node \in Nat,
         \A i, j \in DOMAIN list : i < j => list[i].node < list[j].node
  PROVE  /\ IsFiniteSet({list[i].node : i \in DOMAIN list})
         /\ Cardinality({list[i].node : i \in DOMAIN list}) = Len(list)
<1> DEFINE S == {list[i].node : i \in DOMAIN list}
           f == [i \in 1 .. Len(list) |-> list[i].node]
<1>1. f \in [1 .. Len(list) -> S]
  OBVIOUS
<1>2. \A i, j \in 1 .. Len(list) : f[i] = f[j] => i = j
  <2>1. SUFFICES ASSUME NEW i \in 1 .. Len(list), NEW j \in 1 .. Len(list), f[i] = f[j]
                 PROVE  i = j
    OBVIOUS
  <2>2. ~(i < j) /\ ~(j < i)
    BY <2>1
  <2> QED
    BY <2>2
<1>3. \A x \in S : \E i \in 1 .. Len(list) : f[i] = x
  OBVIOUS
<1>4. f \in Bijection(1 .. Len(list), S)
  <2> HIDE DEF f, S
  <2> QED
    BY <1>1, <1>2, <1>3, Fun_IsBij
<1>5. 1 \in Int /\ Len(list) \in Int
  OBVIOUS
<1>6. IsFiniteSet(1 .. Len(list)) /\ Cardinality(1 .. Len(list)) = Len(list)
  <2>1. /\ IsFiniteSet(1 .. Len(list))
        /\ Cardinality(1 .. Len(list)) = IF 1 > Len(list) THEN 0 ELSE Len(list) - 1 + 1
    BY <1>5, FS_Interval
  <2> QED
    BY <2>1
<1> HIDE DEF S, f
<1>7. ExistsBijection(1 .. Len(list), S)
  BY <1>4 DEF ExistsBijection
<1>8. IsFiniteSet(S) /\ Cardinality(S) = Len(list)
  BY <1>6, <1>7, FS_Bijection
<1> QED
  BY <1>8 DEF S

\* A set of nodes is finite.
LEMMA NodesFinite ==
  ASSUME WellFormed(scene), NEW S, S \subseteq Nodes \cup {0}
  PROVE  /\ IsFiniteSet(S) /\ Cardinality(S) \in Nat /\ S \subseteq Nat
         /\ Lists(Ascending(S), S)
<1>1. scene.size \in Nat /\ S \subseteq 0 .. scene.size
  BY TreeFacts DEF Nodes
<1>2. S \subseteq Nat
  BY <1>1
<1>3. IsFiniteSet(S) /\ Cardinality(S) \in Nat
  BY <1>1, FiniteBelow
<1>4. Lists(Ascending(S), S)
  BY <1>1, AscendingLists
<1> QED
  BY <1>2, <1>3, <1>4

LEMMA BoneTypes ==
  ASSUME WellFormed(scene), bones \in Seq(Bone)
  PROVE  /\ DOMAIN bones = 1 .. Len(bones) /\ Len(bones) \in Nat
         /\ \A i \in DOMAIN bones : bones[i] \in Bone /\ bones[i].node \in Nodes /\ bones[i].node \in Nat
<1>1. /\ DOMAIN bones = 1 .. Len(bones) /\ Len(bones) \in Nat
      /\ \A i \in DOMAIN bones : bones[i] \in Bone
  OBVIOUS
<1>2. \A i \in DOMAIN bones : bones[i].node \in Nodes
  BY <1>1 DEF Bone
<1> QED
  BY <1>1, <1>2, TreeFacts

\* The list of bones has room for the next one, which belongs to the skeleton.
LEMMA RoomLeft ==
  ASSUME WellFormed(scene), SkeletonRoot # NoNode, SkeletonPart(bones), bones # <<>>,
         Awaits(calls, bones, {}), calls # <<>>
  PROVE  /\ calls[1] \in Nodes \X Nat /\ 1 \in DOMAIN calls
         /\ calls[1][1] \in Below(SkeletonRoot)
         /\ Len(bones) < WholeChildCnt /\ Len(bones) < NoParent
<1> DEFINE n == calls[1][1]
           S == {bones[i].node : i \in DOMAIN bones}
           B == Below(SkeletonRoot)
<1>0. /\ DOMAIN bones = 1 .. Len(bones) /\ Len(bones) \in Nat
      /\ \A i \in DOMAIN bones : bones[i] \in Bone /\ bones[i].node \in Nodes /\ bones[i].node \in Nat
  BY BoneTypes DEF SkeletonPart
<1>1. calls \in Seq(Nodes \X Nat) /\ 1 \in DOMAIN calls /\ calls[1] \in Nodes \X Nat
  <2>1. calls \in Seq(Nodes \X Nat)
    BY DEF Awaits
  <2> QED
    BY <2>1
<1>2. PICK k \in DOMAIN bones : bones[k].node = scene.parent[n]
  BY <1>1 DEF Awaits
<1>3. \A i \in DOMAIN bones : bones[i].node < n
  BY <1>1 DEF Awaits
<1>4. S \subseteq B /\ bones[1].node = SkeletonRoot /\ 1 \in DOMAIN bones
  BY <1>0 DEF SkeletonPart
<1>5. n \in B /\ n \notin S
  <2>1. n # SkeletonRoot
    BY <1>0, <1>1, <1>3, <1>4
  <2>2. scene.parent[n] \in B
    BY <1>2, <1>4
  <2>3. n \in B
    BY <1>1, <2>1, <2>2, BelowFacts, RootFacts
  <2>4. n \notin S
    BY <1>0, <1>3
  <2> QED
    BY <2>3, <2>4
<1>6. IsFiniteSet(B) /\ Cardinality(B) \in Nat /\ Cardinality(B) <= scene.size
  <2>1. B \subseteq 1 .. scene.size
    BY BelowFacts, RootFacts, TreeFacts DEF Nodes
  <2>2. 1 \in Int /\ scene.size \in Int /\ scene.size >= 1
    BY TreeFacts
  <2>3. IsFiniteSet(1 .. scene.size) /\ Cardinality(1 .. scene.size) = scene.size
    <3>1. /\ IsFiniteSet(1 .. scene.size)
          /\ Cardinality(1 .. scene.size) = IF 1 > scene.size THEN 0 ELSE scene.size - 1 + 1
      BY <2>2, FS_Interval
    <3> QED
      BY <2>2, <3>1
  <2>4. IsFiniteSet(B) /\ Cardinality(B) <= Cardinality(1 .. scene.size)
    BY <2>1, <2>3, FS_Subset
  <2> QED
    BY <2>3, <2>4, FS_CardinalityType
<1>7. Cardinality(B \ {n}) = Cardinality(B) - 1 /\ IsFiniteSet(B \ {n})
  BY <1>5, <1>6, FS_RemoveElement
<1>8. Cardinality(S) <= Cardinality(B \ {n})
  <2>1. S \subseteq B \ {n}
    BY <1>4, <1>5
  <2> QED
    BY <1>7, <2>1, FS_Subset
<1>9. Cardinality(S) = Len(bones)
  <2>1. \A i, j \in DOMAIN bones : i < j => bones[i].node < bones[j].node
    BY DEF SkeletonPart, Hierarchy
  <2> QED
    BY <1>0, <2>1, NodesCounted
<1>10. Len(bones) < Cardinality(B)
  <2>1. \A b, c, d \in Nat : c = b - 1 /\ d <= c => d < b
    OBVIOUS
  <2> HIDE DEF S, B, n
  <2>2. Cardinality(B \ {n}) \in Nat
    BY <1>7, FS_CardinalityType
  <2> QED
    BY <1>0, <1>6, <1>7, <1>8, <1>9, <2>1, <2>2
<1>11. Len(bones) < scene.size /\ scene.size < NoParent /\ scene.size \in Nat
  BY <1>0, <1>6, <1>10, TreeFacts
<1>12. NoParent \in Nat
  BY DEF NoParent
<1> QED
  BY <1>0, <1>1, <1>5, <1>10, <1>11, <1>12 DEF WholeChildCnt

\* When no call is left the skeleton is complete.
LEMMA BonesReachAll ==
  ASSUME WellFormed(scene), SkeletonRoot # NoNode, SkeletonPart(bones), bones # <<>>,
         Awaits(<<>>, bones, {})
  PROVE  {bones[i].node : i \in DOMAIN bones} = Below(SkeletonRoot)
<1> DEFINE S == {bones[i].node : i \in DOMAIN bones}
           B == Below(SkeletonRoot)
           Missing == B \ S
<1>0. 1 \in DOMAIN bones
  BY BoneTypes DEF SkeletonPart
<1>1. S \subseteq B /\ SkeletonRoot \in S
  BY <1>0 DEF SkeletonPart
<1>2. SUFFICES ASSUME Missing # {} PROVE FALSE
  BY <1>1
<1>3. \A m \in B : m \in Nodes /\ m \in Nat
  BY BelowFacts, RootFacts, TreeFacts
<1>4. PICK m \in Missing : \A x \in Missing : m <= x
  <2>1. Missing \subseteq Nat
    BY <1>3
  <2> QED
    BY <1>2, <2>1, LeastExists
<1>5. m \in Nodes /\ m \in Nat /\ m # SkeletonRoot
  BY <1>1, <1>3, <1>4
<1>6. scene.parent[m] \in B
  BY <1>4, <1>5, BelowFacts, RootFacts
<1>7. scene.parent[m] < m /\ scene.parent[m] \in Nat
  BY <1>5, TreeFacts
<1>8. scene.parent[m] \in S
  BY <1>4, <1>5, <1>6, <1>7
<1>9. m \in S
  BY <1>5, <1>8 DEF Awaits
<1> QED
  BY <1>4, <1>9

\* A bone is hung on another.
LEMMA BoneHangs ==
  ASSUME WellFormed(scene), bones \in Seq(Bone), NEW n \in Nodes,
         NEW at \in 0 .. Len(bones) - 1, at # NoParent
  PROVE  WithBone(n, at) \in Seq(Bone) /\ Hangs(WithBone(n, at), bones, n, at)
<1> DEFINE len == Len(bones)
           bone == [node |-> n, parent |-> at, childs |-> <<>>]
           old == [bones EXCEPT ![at + 1].childs = Append(@, len)]
<1>0. DOMAIN bones = 1 .. len /\ len \in Nat /\ at + 1 \in 1 .. len /\ at \in Nat
  BY BoneTypes
<1>1. \A i \in 1 .. len : bones[i] \in Bone
  BY BoneTypes
<1>2. bone \in Bone /\ bone.node = n /\ bone.parent = at /\ bone.childs = <<>>
  BY <1>0 DEF Bone
<1>3. \A i \in 1 .. len :
        /\ old[i] \in Bone
        /\ old[i].node = bones[i].node /\ old[i].parent = bones[i].parent
        /\ old[i].childs = IF i = at + 1 THEN Append(bones[i].childs, len) ELSE bones[i].childs
  <2>1. SUFFICES ASSUME NEW i \in 1 .. len
                 PROVE  /\ old[i] \in Bone
                        /\ old[i].node = bones[i].node /\ old[i].parent = bones[i].parent
                        /\ old[i].childs = IF i = at + 1 THEN Append(bones[i].childs, len)
                                           ELSE bones[i].childs
    OBVIOUS
  <2>2. bones[i] \in Bone /\ bones[i].childs \in Seq(Nat)
    BY <1>1 DEF Bone
  <2>3. Append(bones[i].childs, len) \in Seq(Nat)
    BY <1>0, <2>2
  <2>4. CASE i = at + 1
    <3>1. old[i] = [bones[i] EXCEPT !.childs = Append(bones[i].childs, len)]
      BY <1>0, <2>4
    <3> QED
      BY <2>2, <2>3, <2>4, <3>1 DEF Bone
  <2>5. CASE i # at + 1
    <3>1. old[i] = bones[i]
      BY <1>0, <2>5
    <3> QED
      BY <2>2, <2>5, <3>1
  <2> QED
    BY <2>4, <2>5
<1>4. old \in Seq(Bone) /\ Len(old) = len
  <2>1. DOMAIN old = 1 .. len
    BY <1>0
  <2>2. old \in [1 .. len -> Bone]
    BY <1>3, <2>1
  <2> QED
    BY <1>0, <2>2
<1>5. WithBone(n, at) = Append(old, bone)
  BY DEF WithBone
<1> HIDE DEF old, bone
<1> DEFINE longer == Append(old, bone)
<1>6. /\ longer \in Seq(Bone) /\ Len(longer) = len + 1 /\ DOMAIN longer = 1 .. len + 1
      /\ \A i \in 1 .. len : longer[i] = old[i]
      /\ longer[len + 1] = bone
  BY <1>0, <1>2, <1>4
<1> HIDE DEF longer
<1>7. Hangs(longer, bones, n, at)
  BY <1>2, <1>3, <1>6 DEF Hangs
<1> QED
  BY <1>5, <1>6, <1>7 DEF longer

LEMMA AssetTypes ==
  ASSUME WellFormed(scene), assets \in Seq(PlaceableAsset)
  PROVE  /\ DOMAIN assets = 1 .. Len(assets) /\ Len(assets) \in Nat
         /\ \A i \in DOMAIN assets : /\ assets[i] \in PlaceableAsset
                                     /\ assets[i].node \in Nodes \cup {NoNode}
                                     /\ assets[i].node \in Nat
<1>1. /\ DOMAIN assets = 1 .. Len(assets) /\ Len(assets) \in Nat
      /\ \A i \in DOMAIN assets : assets[i] \in PlaceableAsset
  OBVIOUS
<1>2. \A i \in DOMAIN assets : assets[i].node \in Nodes \cup {NoNode}
  BY <1>1 DEF PlaceableAsset
<1>3. NoNode \in Nat
  BY DEF NoNode
<1> QED
  BY <1>1, <1>2, <1>3, TreeFacts

\* An asset is hung on another.
LEMMA AssetHangs ==
  ASSUME WellFormed(scene), assets \in Seq(PlaceableAsset), NEW n \in Nodes,
         NEW at \in 0 .. Len(assets) - 1, NEW model \in BOOLEAN, Place(n, at, model)
  PROVE  /\ assets' \in Seq(PlaceableAsset) /\ Hangs(assets', assets, n, at)
         /\ \A i \in 1 .. Len(assets) : assets'[i].model = assets[i].model
         /\ assets'[Len(assets) + 1].model = model
<1> DEFINE len == Len(assets)
           new == Asset(n, at, model)
           old == [assets EXCEPT ![at + 1].childs = Append(@, len)]
<1>0. DOMAIN assets = 1 .. len /\ len \in Nat /\ at + 1 \in 1 .. len /\ at \in Nat
  BY AssetTypes
<1>1. \A i \in 1 .. len : assets[i] \in PlaceableAsset
  BY AssetTypes
<1>2. /\ new \in PlaceableAsset /\ new.node = n /\ new.parent = at /\ new.childs = <<>>
      /\ new.model = model
  BY <1>0 DEF PlaceableAsset, Asset
<1>3. \A i \in 1 .. len :
        /\ old[i] \in PlaceableAsset
        /\ old[i].node = assets[i].node /\ old[i].parent = assets[i].parent
        /\ old[i].model = assets[i].model
        /\ old[i].childs = IF i = at + 1 THEN Append(assets[i].childs, len) ELSE assets[i].childs
  <2>1. SUFFICES ASSUME NEW i \in 1 .. len
                 PROVE  /\ old[i] \in PlaceableAsset
                        /\ old[i].node = assets[i].node /\ old[i].parent = assets[i].parent
                        /\ old[i].model = assets[i].model
                        /\ old[i].childs = IF i = at + 1 THEN Append(assets[i].childs, len)
                                           ELSE assets[i].childs
    OBVIOUS
  <2>2. assets[i] \in PlaceableAsset /\ assets[i].childs \in Seq(Nat)
    BY <1>1 DEF PlaceableAsset
  <2>3. Append(assets[i].childs, len) \in Seq(Nat)
    BY <1>0, <2>2
  <2>4. CASE i = at + 1
    <3>1. old[i] = [assets[i] EXCEPT !.childs = Append(assets[i].childs, len)]
      BY <1>0, <2>4
    <3> QED
      BY <2>2, <2>3, <2>4, <3>1 DEF PlaceableAsset
  <2>5. CASE i # at + 1
    <3>1. old[i] = assets[i]
      BY <1>0, <2>5
    <3> QED
      BY <2>2, <2>5, <3>1
  <2> QED
    BY <2>4, <2>5
<1>4. old \in Seq(PlaceableAsset) /\ Len(old) = len
  <2>1. DOMAIN old = 1 .. len
    BY <1>0
  <2>2. old \in [1 .. len -> PlaceableAsset]
    BY <1>3, <2>1
  <2> QED
    BY <1>0, <2>2
<1>5. assets' = Append(old, new)
  BY DEF Place
<1> HIDE DEF old, new
<1> DEFINE longer == Append(old, new)
<1>6. /\ longer \in Seq(PlaceableAsset) /\ Len(longer) = len + 1 /\ DOMAIN longer = 1 .. len + 1
      /\ \A i \in 1 .. len : longer[i] = old[i]
      /\ longer[len + 1] = new
  BY <1>0, <1>2, <1>4
<1> HIDE DEF longer
<1>7. Hangs(longer, assets, n, at)
  BY <1>2, <1>3, <1>6 DEF Hangs
<1>8. assets' = longer
  BY <1>5 DEF longer
<1> QED
  BY <1>2, <1>3, <1>6, <1>7, <1>8

\* A node whose parent is reached is reached unless it is a skeleton's.
LEMMA ReachedFacts ==
  ASSUME WellFormed(scene), NEW n \in Nodes
  PROVE  /\ scene.parent[n] \in Reached \cup {0} /\ n \notin Skeletons => n \in Reached
         /\ n \in Reached => n \notin Skeletons /\ scene.parent[n] \in Reached \cup {0}
<1>1. ASSUME NEW s \in Skeletons, n \in Below(s), n \notin Skeletons
      PROVE  scene.parent[n] \notin Reached \cup {0}
  <2>1. s \in Nodes /\ n # s /\ scene.kind[s] = "Skeleton"
    BY <1>1 DEF Skeletons
  <2>2. scene.parent[n] \in Below(s)
    BY <1>1, <2>1, BelowFacts
  <2>3. scene.parent[n] >= s /\ s \in Nat \ {0}
    BY <2>1, <2>2, BelowFacts, TreeFacts
  <2> QED
    BY <2>1, <2>2, <2>3 DEF Reached
<1>2. ASSUME n \in Reached, n \in Skeletons PROVE FALSE
  BY <1>2, BelowFacts DEF Reached, Skeletons
<1>3. ASSUME n \in Reached, scene.parent[n] \notin Reached \cup {0} PROVE FALSE
  <2>1. scene.parent[n] \in Nodes
    BY <1>3, TreeFacts
  <2>2. PICK s \in Nodes : scene.kind[s] = "Skeleton" /\ scene.parent[n] \in Below(s)
    BY <1>3, <2>1 DEF Reached
  <2>3. n # s
    BY <1>2, <1>3, <2>2 DEF Skeletons
  <2>4. n \in Below(s)
    BY <2>2, <2>3, BelowFacts
  <2> QED
    BY <1>3, <2>2, <2>4 DEF Reached
<1>4. ASSUME scene.parent[n] \in Reached \cup {0}, n \notin Skeletons PROVE n \in Reached
  BY <1>1, <1>4 DEF Reached, Skeletons
<1> QED
  BY <1>2, <1>3, <1>4

\* The next call of the traversal is for a node that is not an asset yet.
LEMMA NextNode ==
  ASSUME WellFormed(scene), HierarchyPart(assets), Awaits(calls, assets, Skeletons), calls # <<>>
  PROVE  /\ calls \in Seq(Nodes \X Nat)
         /\ calls[1][1] \in Nodes /\ calls[1][1] \in Nat
         /\ calls[1][2] \in 0 .. Len(assets) - 1
         /\ assets[calls[1][2] + 1].node = scene.parent[calls[1][1]]
         /\ \A k \in DOMAIN assets : assets[k].node < calls[1][1] /\ assets[k].node # calls[1][1]
         /\ calls[1][1] \notin Skeletons => calls[1][1] \in Reached
<1>1. calls \in Seq(Nodes \X Nat) /\ 1 \in DOMAIN calls /\ calls[1] \in Nodes \X Nat
  <2>1. calls \in Seq(Nodes \X Nat)
    BY DEF Awaits
  <2> QED
    BY <2>1
<1>2. calls[1][1] \in Nodes /\ calls[1][1] \in Nat /\ calls[1][2] \in Nat
  BY <1>1, TreeFacts
<1>3. /\ DOMAIN assets = 1 .. Len(assets) /\ Len(assets) \in Nat
      /\ \A k \in DOMAIN assets : assets[k].node \in Nat
  BY AssetTypes DEF HierarchyPart
<1>4. /\ calls[1][2] + 1 \in DOMAIN assets
      /\ assets[calls[1][2] + 1].node = scene.parent[calls[1][1]]
      /\ \A k \in DOMAIN assets : assets[k].node < calls[1][1]
  BY <1>1 DEF Awaits
<1>5. calls[1][2] \in 0 .. Len(assets) - 1
  BY <1>2, <1>3, <1>4
<1>6. \A k \in DOMAIN assets : assets[k].node # calls[1][1]
  BY <1>2, <1>3, <1>4
<1>7. scene.parent[calls[1][1]] \in Reached \cup {0}
  BY <1>4 DEF HierarchyPart, NoNode
<1>8. calls[1][1] \notin Skeletons => calls[1][1] \in Reached
  BY <1>2, <1>7, ReachedFacts
<1> QED
  BY <1>1, <1>2, <1>4, <1>5, <1>6, <1>8

\* Placing it keeps the hierarchy and the calls in order.
LEMMA Placed ==
  ASSUME WellFormed(scene), HierarchyPart(assets), Awaits(calls, assets, Skeletons), calls # <<>>,
         calls[1][1] \notin Skeletons, NEW model \in BOOLEAN, model <=> IsMesh(calls[1][1]),
         Place(calls[1][1], calls[1][2], model)
  PROVE  /\ HierarchyPart(assets') /\ Awaits(calls', assets', Skeletons)
         /\ DOMAIN assets' = 1 .. Len(assets) + 1 /\ Len(assets) \in Nat \ {0}
         /\ DOMAIN assets = 1 .. Len(assets)
         /\ \A k \in DOMAIN assets : assets'[k].node = assets[k].node
         /\ assets'[Len(assets) + 1].node = calls[1][1]
<1> DEFINE n == calls[1][1]
           at == calls[1][2]
           len == Len(assets)
<1>1. /\ calls \in Seq(Nodes \X Nat) /\ n \in Nodes /\ n \in Reached /\ at \in 0 .. len - 1
      /\ assets[at + 1].node = scene.parent[n]
      /\ \A k \in DOMAIN assets : assets[k].node < n
  BY NextNode
<1>2. /\ DOMAIN assets = 1 .. len /\ len \in Nat \ {0} /\ assets \in Seq(PlaceableAsset)
      /\ \A k \in DOMAIN assets : assets[k].node \in Nat
  BY AssetTypes DEF HierarchyPart
<1>3. /\ assets' \in Seq(PlaceableAsset) /\ Hangs(assets', assets, n, at)
      /\ \A i \in 1 .. len : assets'[i].model = assets[i].model
      /\ assets'[len + 1].model = model
  BY <1>1, <1>2, AssetHangs
<1>4. Hierarchy(assets')
  <2>1. Hierarchy(assets)
    BY DEF HierarchyPart
  <2> HIDE DEF n, at
  <2> QED
    BY <1>1, <1>2, <1>3, <2>1, HierarchyGrows
<1>5. /\ DOMAIN assets' = 1 .. len + 1
      /\ \A k \in 1 .. len : assets'[k].node = assets[k].node /\ assets'[k].parent = assets[k].parent
      /\ assets'[len + 1].node = n
  BY <1>3 DEF Hangs
<1>6. HierarchyPart(assets')
  <2>1. 1 \in 1 .. len /\ assets' # <<>>
    BY <1>2, <1>5
  <2>2. assets'[1].node = NoNode /\ assets'[1].parent = NoParent
    BY <1>5, <2>1 DEF HierarchyPart
  <2>3. ASSUME NEW i \in DOMAIN assets', i # 1
        PROVE  assets'[i].node \in Reached /\ (assets'[i].model <=> IsMesh(assets'[i].node))
    <3>1. CASE i = len + 1
      BY <1>1, <1>3, <1>5, <3>1
    <3>2. CASE i # len + 1
      <4>1. i \in 1 .. len
        BY <1>2, <1>5, <3>2
      <4> QED
        BY <1>2, <1>3, <1>5, <2>3, <4>1 DEF HierarchyPart
    <3> QED
      BY <3>1, <3>2
  <2> QED
    BY <1>3, <1>4, <2>1, <2>2, <2>3 DEF HierarchyPart
<1>7. Awaits(CallsBelow(n, len), assets', Skeletons)
  BY <1>2, <1>3, AwaitsBelow
<1>8. calls' = CallsBelow(n, len)
  BY DEF Place
<1> QED
  BY <1>2, <1>5, <1>6, <1>7, <1>8

-----------------------------------------------------------------------------
\* Until there are assets there are no models.
LEMMA NoModels ==
  ASSUME ModelsInv, assets = <<>>
  PROVE  models = <<>>
<1>1. models \in Seq(Model) /\ \A i \in DOMAIN models : FALSE
  BY DEF ModelsInv
<1>2. Len(models) = 0
  <2>1. Len(models) \in Nat /\ DOMAIN models = 1 .. Len(models)
    BY <1>1
  <2>2. 1 \notin DOMAIN models
    BY <1>1
  <2> QED
    BY <2>1, <2>2
<1> QED
  BY <1>1, <1>2, EmptySeq

LEMMA NoModelsInv ==
  ASSUME models' = <<>>, assets' = <<>> \/ DOMAIN assets' = {1}
  PROVE  ModelsInv'
<1>1. models' \in Seq(Model)'
  OBVIOUS
<1>2. \A i \in DOMAIN models' : FALSE
  OBVIOUS
<1>3. \A k \in DOMAIN assets' : k = 1
  OBVIOUS
<1>4. Len(models') <= Room
  BY RoomAssumption
<1> QED
  BY <1>1, <1>2, <1>3, <1>4 DEF ModelsInv

\* With the bones, a skin's bone stays.
LEMMA SameBones ==
  ASSUME scene' = scene, debugger' = debugger, bones' = bones
  PROVE  \A n : (GeometryStops(n)' <=> GeometryStops(n)) /\ Joint(n)' = Joint(n)
<1>1. Joints' = Joints
  BY DEF Joints
<1> QED
  BY <1>1 DEF GeometryStops, Joint

LEMMA ModelsKept ==
  ASSUME ModelsInv, scene' = scene, debugger' = debugger, bones' = bones, models' = models,
         assets' = assets
  PROVE  ModelsInv'
BY SameScene, SameBones DEF ModelsInv

LEMMA InitInv ==
  ASSUME Init
  PROVE  IInv
<1>1. WellFormed(scene)
  BY ScenesAssumption DEF Init
<1>2. SceneInv
  BY <1>1 DEF Init, SceneInv
<1>3. BonesInv
  BY DEF Init, BonesInv, SkeletonPart
<1>4. TracksInv
  BY DEF Init, TracksInv
<1>5. AssetsInv
  BY DEF Init, AssetsInv
<1>6. ModelsInv
  BY RoomAssumption DEF Init, ModelsInv
<1>7. ShaderInv
  BY DEF Init, ShaderInv
<1>8. StopsExplained
  BY DEF Init, StopsExplained
<1> QED
  BY <1>2, <1>3, <1>4, <1>5, <1>6, <1>7, <1>8 DEF IInv

LEMMA ImportMaterialsStep ==
  ASSUME IInv, status = "running", ImportMaterials
  PROVE  IInv'
<1>1. /\ UNCHANGED <<scene, debugger, skinnedReady>> /\ status' = status
      /\ phase = "Materials" /\ phase' = "Skeleton"
      /\ UNCHANGED <<calls, bones, tracks, assets, models>>
      /\ shader' = [m \in Materials |-> "SSDefaultPbr"]
  BY DEF ImportMaterials, Proceed, given
<1>2. SceneInv'
  BY <1>1, SameScene DEF IInv, SceneInv
<1>3. BonesInv'
  BY <1>1, SameScene DEF IInv, BonesInv
<1>4. TracksInv'
  BY <1>1, SameScene DEF IInv, TracksInv
<1>5. AssetsInv'
  BY <1>1 DEF IInv, AssetsInv
<1>6. ModelsInv'
  BY <1>1, ModelsKept DEF IInv
<1>7. ShaderInv'
  <2>1. models' = <<>>
    BY <1>1, NoModels DEF IInv, AssetsInv
  <2> QED
    BY <1>1, <2>1 DEF ShaderInv
<1>8. StopsExplained'
  BY <1>1 DEF StopsExplained
<1> QED
  BY <1>2, <1>3, <1>4, <1>5, <1>6, <1>7, <1>8 DEF IInv

\* The shaders are kept with the models.
LEMMA ShaderKept ==
  ASSUME ShaderInv, UNCHANGED <<scene, skinnedReady, models, shader>>,
         phase # "Materials", phase' # "Materials", status = "running"
  PROVE  ShaderInv'
BY DEF ShaderInv

LEMMA ImportSkeletonStep ==
  ASSUME IInv, status = "running", ImportSkeleton
  PROVE  IInv'
<1>1. /\ UNCHANGED <<scene, debugger, skinnedReady>> /\ status' = status
      /\ phase = "Skeleton" /\ bones = <<>>
      /\ UNCHANGED <<bones, tracks, assets, models, shader>>
      /\ IF SkeletonRoot = NoNode THEN calls' = <<>> /\ phase' = "Models"
         ELSE calls' = <<<<SkeletonRoot, NoParent>>>> /\ phase' = "Bones"
  BY DEF ImportSkeleton, Proceed, given, IInv, BonesInv
<1>2. SceneInv'
  <2>1. calls' \in Seq(Nodes \X Nat)
    <3>1. CASE SkeletonRoot = NoNode
      BY <1>1, <3>1
    <3>2. CASE SkeletonRoot # NoNode
      <4>1. NoParent \in Nat
        BY DEF NoParent
      <4>2. <<SkeletonRoot, NoParent>> \in Nodes \X Nat
        BY <3>2, <4>1, RootFacts DEF IInv, SceneInv
      <4> QED
        BY <1>1, <3>2, <4>2
    <3> QED
      BY <3>1, <3>2
  <2> QED
    BY <1>1, <2>1, SameScene DEF IInv, SceneInv
<1>3. BonesInv'
  <2>1. SkeletonPart(bones)'
    BY <1>1, SameScene DEF IInv, BonesInv
  <2>2. SkeletonRoot = NoNode => WholeSkeleton(bones)'
    BY <1>1, SameScene DEF WholeSkeleton
  <2> QED
    BY <1>1, <2>1, <2>2, SameScene DEF BonesInv
<1>4. TracksInv'
  BY <1>1, SameScene DEF IInv, TracksInv
<1>5. AssetsInv'
  BY <1>1 DEF IInv, AssetsInv
<1>6. ModelsInv'
  BY <1>1, ModelsKept DEF IInv
<1>7. ShaderInv'
  BY <1>1, ShaderKept DEF IInv
<1>8. StopsExplained'
  BY <1>1 DEF StopsExplained
<1> QED
  BY <1>2, <1>3, <1>4, <1>5, <1>6, <1>7, <1>8 DEF IInv

\* The skeleton is complete when its last call is made.
LEMMA SkeletonWhole ==
  ASSUME IInv, status = "running", phase = "Bones", calls = <<>>
  PROVE  WholeSkeleton(bones)
<1>1. SkeletonRoot # NoNode /\ bones # <<>> /\ Awaits(<<>>, bones, {}) /\ SkeletonPart(bones)
  BY DEF IInv, BonesInv
<1>2. {bones[i].node : i \in DOMAIN bones} = Below(SkeletonRoot)
  BY <1>1, BonesReachAll DEF IInv, SceneInv
<1>3. \A i \in DOMAIN bones : bones[i].node \in Skeletons
  BY DEF IInv, BonesInv
<1>4. Below(SkeletonRoot) \subseteq Skeletons
  BY <1>2, <1>3
<1> QED
  BY <1>1, <1>2, <1>4 DEF WholeSkeleton

LEMMA InsertSkeletonStep ==
  ASSUME IInv, status = "running", InsertSkeleton
  PROVE  IInv'
<1>1. /\ UNCHANGED <<scene, debugger, skinnedReady>> /\ status' = status
      /\ phase = "Bones" /\ calls = <<>>
      /\ phase' \in {"Animation", "Models"}
      /\ UNCHANGED <<calls, bones, tracks, assets, models, shader>>
  BY DEF InsertSkeleton, Proceed, given
<1>2. SceneInv'
  BY <1>1, SameScene DEF IInv, SceneInv
<1>3. BonesInv'
  <2>1. WholeSkeleton(bones) /\ SkeletonPart(bones)
    BY <1>1, SkeletonWhole DEF IInv, BonesInv
  <2>2. WholeSkeleton(bones)' /\ SkeletonPart(bones)'
    BY <1>1, <2>1, SameScene
  <2> QED
    BY <1>1, <2>2 DEF BonesInv
<1>4. TracksInv'
  BY <1>1, SameScene DEF IInv, TracksInv
<1>5. AssetsInv'
  BY <1>1 DEF IInv, AssetsInv
<1>6. ModelsInv'
  BY <1>1, ModelsKept DEF IInv
<1>7. ShaderInv'
  BY <1>1, ShaderKept DEF IInv
<1>8. StopsExplained'
  BY <1>1 DEF StopsExplained
<1> QED
  BY <1>2, <1>3, <1>4, <1>5, <1>6, <1>7, <1>8 DEF IInv

LEMMA ImportAnimationStep ==
  ASSUME IInv, status = "running", ImportAnimation
  PROVE  IInv'
<1>1. /\ UNCHANGED <<scene, debugger, skinnedReady>> /\ status' = status
      /\ phase = "Animation" /\ phase' = "Models"
      /\ UNCHANGED <<calls, bones, assets, models, shader>>
      /\ tracks' \in [DOMAIN bones -> Nodes]
      /\ \A i \in DOMAIN bones : scene.name[tracks'[i]] = scene.name[bones[i].node]
  BY DEF ImportAnimation, Proceed, given
<1>2. SceneInv'
  BY <1>1, SameScene DEF IInv, SceneInv
<1>3. BonesInv'
  BY <1>1, SameScene DEF IInv, BonesInv
<1>4. TracksInv'
  <2>1. DOMAIN bones = 1 .. Len(bones) /\ Len(bones) \in Nat
    BY BoneTypes DEF IInv, SceneInv, BonesInv, SkeletonPart
  <2>2. tracks' \in Seq(Nodes) /\ DOMAIN tracks' = DOMAIN bones
    BY <1>1, <2>1
  <2> QED
    BY <1>1, <2>2, SameScene DEF TracksInv
<1>5. AssetsInv'
  BY <1>1 DEF IInv, AssetsInv
<1>6. ModelsInv'
  BY <1>1, ModelsKept DEF IInv
<1>7. ShaderInv'
  BY <1>1, ShaderKept DEF IInv
<1>8. StopsExplained'
  BY <1>1 DEF StopsExplained
<1> QED
  BY <1>2, <1>3, <1>4, <1>5, <1>6, <1>7, <1>8 DEF IInv

LEMMA ImportModelsStep ==
  ASSUME IInv, status = "running", ImportModels
  PROVE  IInv'
<1> DEFINE root == Asset(NoNode, NoParent, FALSE)
           cs == [i \in DOMAIN Children(0) |-> <<Children(0)[i], 0>>]
<1>0. WellFormed(scene)
  BY DEF IInv, SceneInv
<1>1. /\ UNCHANGED <<scene, debugger, skinnedReady>> /\ status' = status
      /\ phase = "Models" /\ phase' = "Nodes"
      /\ UNCHANGED <<bones, tracks, models, shader>>
      /\ assets' = <<root>> /\ calls' = cs
  BY DEF ImportModels, Proceed, given
<1>2. cs \in Seq(Nodes \X Nat) /\ Len(cs) = Len(Children(0))
  <2>1. DOMAIN Children(0) = 1 .. Len(Children(0)) /\ Len(Children(0)) \in Nat
    BY <1>0, ChildrenTypes
  <2>2. cs \in [1 .. Len(Children(0)) -> Nodes \X Nat]
    BY <1>0, <2>1, ChildrenTypes
  <2> HIDE DEF cs
  <2>3. \A k \in Nat : \A q \in [1 .. k -> Nodes \X Nat] : q \in Seq(Nodes \X Nat) /\ Len(q) = k
    OBVIOUS
  <2> QED
    BY <2>1, <2>2, <2>3, Zenon
<1>3. \A i \in 1 .. Len(cs) : cs[i] = <<Children(0)[i], 0>>
  BY <1>0, <1>2, ChildrenTypes
<1>4. /\ root \in PlaceableAsset /\ root.node = NoNode /\ root.parent = NoParent
      /\ root.childs = <<>>
  BY DEF Asset, PlaceableAsset, NoParent
<1> HIDE DEF root, cs
<1>5. /\ <<root>> \in Seq(PlaceableAsset) /\ DOMAIN <<root>> = {1} /\ <<root>>[1] = root
      /\ <<root>> # <<>> /\ Len(<<root>>) = 1
  BY <1>4
<1>6. SceneInv'
  BY <1>1, <1>2, SameScene DEF IInv, SceneInv
<1>7. BonesInv'
  BY <1>1, SameScene DEF IInv, BonesInv
<1>8. TracksInv'
  BY <1>1, SameScene DEF IInv, TracksInv
<1>9. AssetsInv'
  <2>1. Hierarchy(<<root>>)
    <3>1. Lists(<<>>, {})
      BY DEF Lists
    <3>2. {j \in 1 .. Len(<<root>>) - 1 : <<root>>[j + 1].parent = 1 - 1} = {}
      BY <1>5
    <3> QED
      BY <1>4, <1>5, <3>1, <3>2 DEF Hierarchy
  <2>2. HierarchyPart(<<root>>)
    BY <1>4, <1>5, <2>1 DEF HierarchyPart
  <2>3. Awaits(cs, <<root>>, Skeletons)
    BY <1>0, <1>2, <1>3, <1>4, <1>5, AwaitsFirst DEF NoNode
  <2>4. HierarchyPart(assets)' /\ Awaits(calls, assets, Skeletons)'
    BY <1>1, <2>2, <2>3, SameScene
  <2> QED
    BY <1>1, <2>4 DEF AssetsInv
<1>10. models' = <<>>
  BY <1>1, NoModels DEF IInv, AssetsInv
<1>11. ModelsInv'
  BY <1>1, <1>5, <1>10, NoModelsInv
<1>12. ShaderInv'
  BY <1>1, ShaderKept DEF IInv
<1>13. StopsExplained'
  BY <1>1 DEF StopsExplained
<1> QED
  BY <1>6, <1>7, <1>8, <1>9, <1>11, <1>12, <1>13 DEF IInv

\* The first bone.
LEMMA FirstBone ==
  ASSUME IInv, status = "running", ImportBone, bones = <<>>
  PROVE  /\ SkeletonRoot # NoNode /\ status' = status /\ phase' = "Bones"
         /\ SkeletonPart(bones') /\ bones' # <<>> /\ Awaits(calls', bones', {})
         /\ \A i \in DOMAIN bones' : bones'[i].node \in Skeletons
<1> DEFINE root == SkeletonRoot
           bone == [node |-> root, parent |-> NoParent, childs |-> <<>>]
<1>0. WellFormed(scene) /\ SkeletonRoot # NoNode /\ phase = "Bones"
      /\ calls = <<<<root, NoParent>>>>
  BY DEF IInv, SceneInv, BonesInv, ImportBone
<1>1. root \in Skeletons /\ root \in Nodes /\ root \in Below(root) /\ scene.kind[root] = "Skeleton"
  <2>1. root \in Skeletons /\ root \in Nodes
    BY <1>0, RootFacts
  <2> QED
    BY <1>0, <2>1, BelowFacts DEF Skeletons
<1>2. Head(calls)[1] = root /\ Head(calls)[2] = NoParent
  BY <1>0
<1>3. 0 < WholeChildCnt
  <2>1. Below(root) \subseteq 0 .. scene.size /\ scene.size \in Nat
    BY <1>0, <1>1, BelowFacts, TreeFacts
  <2>2. IsFiniteSet(Below(root)) /\ Cardinality(Below(root)) \in Nat
    BY <2>1, FiniteBelow
  <2>3. Cardinality(Below(root)) # 0
    BY <1>1, <2>2, FS_EmptySet
  <2> QED
    BY <2>2, <2>3 DEF WholeChildCnt
<1>4. Len(bones) = 0 /\ Len(bones) < WholeChildCnt
  BY <1>3
<1>5. /\ bones' = WithBone(root, NoParent)
      /\ calls' = CallsBelow(root, 0) /\ phase' = "Bones" /\ status' = status
  BY <1>1, <1>2, <1>4 DEF ImportBone, Proceed, given
<1>6. bones' = <<bone>>
  BY <1>5 DEF WithBone
<1>7. bone \in Bone /\ bone.node = root /\ bone.parent = NoParent /\ bone.childs = <<>>
  BY <1>1 DEF Bone, NoParent
<1> HIDE DEF bone
<1>8. /\ <<bone>> \in Seq(Bone) /\ DOMAIN <<bone>> = {1} /\ <<bone>>[1] = bone
      /\ <<bone>> # <<>> /\ Len(<<bone>>) = 1
  BY <1>7
<1>9. Hierarchy(<<bone>>)
  <2>1. Lists(<<>>, {})
    BY DEF Lists
  <2>2. {j \in 1 .. Len(<<bone>>) - 1 : <<bone>>[j + 1].parent = 1 - 1} = {}
    BY <1>8
  <2> QED
    BY <1>7, <1>8, <2>1, <2>2 DEF Hierarchy
<1>10. SkeletonPart(<<bone>>)
  BY <1>1, <1>7, <1>8, <1>9 DEF SkeletonPart
<1>11. Awaits(calls', <<bone>>, {})
  <2> DEFINE cs == CallsBelow(root, 0)
  <2>1. calls \in Seq(Nodes \X Nat) /\ calls # <<>> /\ Len(calls) = 1
    BY <1>0 DEF IInv, SceneInv
  <2>2. /\ cs \in Seq(Nodes \X Nat) /\ DOMAIN cs = 1 .. Len(Children(root)) + (Len(calls) - 1)
        /\ \A i \in 1 .. Len(Children(root)) : cs[i] = <<Children(root)[i], 0>>
    BY <1>0, <2>1, CallsBelowParts
  <2> HIDE DEF cs
  <2>3. Len(Children(root)) \in Nat
    BY <1>0, ChildrenTypes
  <2>4. Len(cs) = Len(Children(root))
    <3>1. DOMAIN cs = 1 .. Len(Children(root))
      BY <2>1, <2>2, <2>3
    <3> QED
      BY <2>2, <2>3, <3>1
  <2>5. Awaits(cs, <<bone>>, {})
    BY <1>0, <1>1, <1>7, <1>8, <2>2, <2>4, AwaitsFirst
  <2> QED
    BY <1>5, <2>5 DEF cs
<1> QED
  BY <1>0, <1>1, <1>5, <1>6, <1>7, <1>8, <1>10, <1>11

\* The bones after it.
LEMMA FurtherBone ==
  ASSUME IInv, status = "running", ImportBone, bones # <<>>
  PROVE  /\ SkeletonPart(bones') /\ bones' # <<>> /\ SkeletonRoot # NoNode
         /\ \/ /\ status' = status /\ phase' = "Bones"
               /\ Awaits(calls', bones', {})
               /\ \A i \in DOMAIN bones' : bones'[i].node \in Skeletons
            \/ /\ status' = "stopped" /\ phase' = "Bones" /\ calls' = calls
               /\ ~(Below(SkeletonRoot) \subseteq Skeletons)
<1> DEFINE n == calls[1][1]
           at == calls[1][2]
           len == Len(bones)
<1>0. /\ WellFormed(scene) /\ SkeletonRoot # NoNode /\ phase = "Bones" /\ calls # <<>>
      /\ SkeletonPart(bones) /\ Awaits(calls, bones, {})
      /\ \A i \in DOMAIN bones : bones[i].node \in Skeletons
  BY DEF IInv, SceneInv, BonesInv, ImportBone
<1>1. /\ calls[1] \in Nodes \X Nat /\ 1 \in DOMAIN calls
      /\ n \in Below(SkeletonRoot) /\ len < WholeChildCnt /\ len < NoParent
  BY <1>0, RoomLeft
<1>2. /\ DOMAIN bones = 1 .. len /\ len \in Nat \ {0} /\ bones \in Seq(Bone)
      /\ \A i \in DOMAIN bones : bones[i].node \in Nodes /\ bones[i].node \in Nat
  BY <1>0, BoneTypes DEF SkeletonPart
<1>3. /\ n \in Nodes /\ at \in 0 .. len - 1 /\ bones[at + 1].node = scene.parent[n]
      /\ \A i \in DOMAIN bones : bones[i].node < n
  <2>1. n \in Nodes /\ at \in Nat
    BY <1>1
  <2>2. /\ at + 1 \in DOMAIN bones /\ bones[at + 1].node = scene.parent[n]
        /\ \A i \in DOMAIN bones : bones[i].node < n
    BY <1>0, <1>1 DEF Awaits
  <2> QED
    BY <1>2, <2>1, <2>2
<1>4. at # NoParent
  <2>1. NoParent \in Nat
    BY DEF NoParent
  <2> QED
    BY <1>1, <1>2, <1>3, <2>1
<1>5. Head(calls)[1] = n /\ Head(calls)[2] = at
  OBVIOUS
<1>6. /\ bones' = WithBone(n, at)
      /\ IF scene.kind[n] = "Skeleton"
         THEN calls' = CallsBelow(n, len) /\ phase' = "Bones" /\ status' = status
         ELSE calls' = calls /\ phase' = phase /\ status' = "stopped"
  BY <1>1, <1>5 DEF ImportBone, Proceed, Stop, given
<1>7. bones' \in Seq(Bone) /\ Hangs(bones', bones, n, at)
  BY <1>0, <1>2, <1>3, <1>4, <1>6, BoneHangs
<1>8. Hierarchy(bones')
  <2>1. Hierarchy(bones)
    BY <1>0 DEF SkeletonPart
  <2> HIDE DEF n, at
  <2> QED
    BY <1>0, <1>2, <1>3, <1>7, <2>1, HierarchyGrows
<1>9. /\ DOMAIN bones' = 1 .. len + 1
      /\ \A i \in 1 .. len : bones'[i].node = bones[i].node /\ bones'[i].parent = bones[i].parent
      /\ bones'[len + 1].node = n
  BY <1>7 DEF Hangs
<1>10. SkeletonPart(bones') /\ bones' # <<>>
  <2>1. 1 \in 1 .. len /\ bones' # <<>>
    BY <1>2, <1>9
  <2>2. bones'[1].node = SkeletonRoot /\ bones'[1].parent = NoParent
    BY <1>0, <1>9, <2>1 DEF SkeletonPart
  <2>3. ASSUME NEW i \in DOMAIN bones' PROVE bones'[i].node \in Below(SkeletonRoot)
    <3>1. CASE i = len + 1
      BY <1>1, <1>9, <3>1
    <3>2. CASE i # len + 1
      <4>1. i \in 1 .. len
        BY <1>2, <1>9, <3>2
      <4> QED
        BY <1>0, <1>2, <1>9, <4>1 DEF SkeletonPart
    <3> QED
      BY <3>1, <3>2
  <2> QED
    BY <1>7, <1>8, <2>1, <2>2, <2>3 DEF SkeletonPart
<1>11. CASE scene.kind[n] = "Skeleton"
  <2>1. Awaits(CallsBelow(n, len), bones', {})
    BY <1>0, <1>2, <1>7, AwaitsBelow
  <2>2. ASSUME NEW i \in DOMAIN bones' PROVE bones'[i].node \in Skeletons
    <3>1. CASE i = len + 1
      BY <1>3, <1>9, <1>11, <3>1 DEF Skeletons
    <3>2. CASE i # len + 1
      <4>1. i \in 1 .. len
        BY <1>2, <1>9, <3>2
      <4> QED
        BY <1>0, <1>2, <1>9, <4>1
    <3> QED
      BY <3>1, <3>2
  <2> QED
    BY <1>0, <1>6, <1>10, <1>11, <2>1, <2>2
<1>12. CASE scene.kind[n] # "Skeleton"
  <2>1. n \notin Skeletons
    BY <1>12 DEF Skeletons
  <2> QED
    BY <1>0, <1>1, <1>6, <1>10, <1>12, <2>1
<1> QED
  BY <1>11, <1>12

LEMMA ImportBoneStep ==
  ASSUME IInv, status = "running", ImportBone
  PROVE  IInv'
<1>1. /\ UNCHANGED <<scene, debugger, skinnedReady>> /\ phase = "Bones" /\ phase' = "Bones"
      /\ UNCHANGED <<tracks, assets, models, shader>>
  BY DEF ImportBone, Proceed, Stop, given
<1>2. /\ SkeletonPart(bones') /\ bones' # <<>> /\ SkeletonRoot # NoNode
      /\ \/ /\ status' = "running" /\ Awaits(calls', bones', {})
            /\ \A i \in DOMAIN bones' : bones'[i].node \in Skeletons
         \/ /\ status' = "stopped" /\ calls' = calls
            /\ ~(Below(SkeletonRoot) \subseteq Skeletons)
  BY FirstBone, FurtherBone
<1>3. SceneInv'
  <2>1. calls' \in Seq(Nodes \X Nat)
    BY <1>2 DEF Awaits, IInv, SceneInv
  <2> QED
    BY <1>1, <1>2, <2>1, SameScene DEF IInv, SceneInv
<1>4. BonesInv'
  <2>1. SkeletonPart(bones)'
    BY <1>1, <1>2, SameScene
  <2>2. status' = "running" => Awaits(calls, bones, {})'
    BY <1>1, <1>2, SameScene
  <2>3. status' = "running" => \A i \in DOMAIN bones' : bones'[i].node \in Skeletons'
    BY <1>1, <1>2, SameScene
  <2>4. SkeletonRoot' # NoNode
    BY <1>1, <1>2, SameScene
  <2> QED
    BY <1>1, <1>2, <2>1, <2>2, <2>3, <2>4 DEF BonesInv
<1>5. TracksInv'
  BY <1>1, SameScene DEF IInv, TracksInv
<1>6. AssetsInv'
  BY <1>1 DEF IInv, AssetsInv
<1>7. ModelsInv'
  <2>1. assets' = <<>> /\ models' = <<>>
    BY <1>1, NoModels DEF IInv, AssetsInv
  <2> QED
    BY <2>1, NoModelsInv
<1>8. ShaderInv'
  BY <1>1, ShaderKept DEF IInv
<1>9. StopsExplained'
  <2>1. ASSUME ~(Below(SkeletonRoot) \subseteq Skeletons) PROVE ~Importable
    <3>1. SkeletonNodes = Below(SkeletonRoot) /\ Below(SkeletonRoot) \subseteq Nodes
      BY <1>2, BelowFacts, RootFacts DEF SkeletonNodes, IInv, SceneInv
    <3> QED
      BY <2>1, <3>1 DEF Importable, NothingAsserts, Skeletons
  <2> QED
    BY <1>1, <1>2, <2>1, SameReasons DEF StopsExplained
<1> QED
  BY <1>3, <1>4, <1>5, <1>6, <1>7, <1>8, <1>9 DEF IInv

-----------------------------------------------------------------------------
\* Where the traversal is.
LEMMA Traversing ==
  ASSUME IInv, status = "running", phase = "Nodes", calls # <<>>
  PROVE  /\ WellFormed(scene) /\ HierarchyPart(assets) /\ Awaits(calls, assets, Skeletons)
         /\ WholeSkeleton(bones) /\ SkeletonPart(bones) /\ ModelsInv /\ ShaderInv
         /\ Head(calls) = calls[1]
BY DEF IInv, SceneInv, AssetsInv, BonesInv

\* What a visit of a node has to show, the skeleton's bones being what they are.
LEMMA VisitInv ==
  ASSUME IInv, status = "running", phase = "Nodes", phase' = "Nodes",
         UNCHANGED <<scene, debugger, skinnedReady, bones, tracks>>, status' \in {"running", "stopped"},
         calls' \in Seq(Nodes \X Nat), HierarchyPart(assets'),
         status' = "running" => Awaits(calls', assets', Skeletons),
         ModelsInv', ShaderInv', status' = "stopped" => ~Importable
  PROVE  IInv'
<1>1. SceneInv'
  BY SameScene DEF IInv, SceneInv
<1>2. BonesInv'
  BY SameScene DEF IInv, BonesInv
<1>3. TracksInv'
  BY SameScene DEF IInv, TracksInv
<1>4. AssetsInv'
  <2>1. HierarchyPart(assets)' /\ (status' = "running" => Awaits(calls, assets, Skeletons)')
    BY SameScene
  <2> QED
    BY <2>1 DEF AssetsInv
<1>5. StopsExplained'
  BY SameReasons DEF StopsExplained
<1> QED
  BY <1>1, <1>2, <1>3, <1>4, <1>5 DEF IInv

LEMMA VisitSkeletonStep ==
  ASSUME IInv, status = "running", phase = "Nodes", calls # <<>>, UNCHANGED <<bones, tracks>>,
         VisitSkeleton(calls[1][1], calls[1][2])
  PROVE  IInv'
<1>1. /\ UNCHANGED <<scene, debugger, skinnedReady>> /\ status' = status
      /\ phase' = "Nodes" /\ calls' = Tail(calls)
      /\ scene.kind[calls[1][1]] = "Skeleton" /\ UNCHANGED <<assets, models, shader>>
  BY DEF VisitSkeleton, Proceed, given
<1>2. calls[1][1] \in Skeletons
  BY <1>1, Traversing, NextNode DEF Skeletons
<1>3. Awaits(calls', assets', Skeletons)
  BY <1>1, <1>2, Traversing, AwaitsTail
<1>4. calls' \in Seq(Nodes \X Nat)
  BY <1>3 DEF Awaits
<1>5. HierarchyPart(assets')
  BY <1>1, Traversing
<1>6. ModelsInv'
  BY <1>1, Traversing, ModelsKept
<1>7. ShaderInv'
  BY <1>1, Traversing, ShaderKept
<1> QED
  BY <1>1, <1>3, <1>4, <1>5, <1>6, <1>7, VisitInv

\* A node that is no mesh has no model.
LEMMA VisitBlankStep ==
  ASSUME IInv, status = "running", phase = "Nodes", calls # <<>>, UNCHANGED <<bones, tracks>>,
         VisitBlank(calls[1][1], calls[1][2])
  PROVE  IInv'
<1> DEFINE n == calls[1][1]
           len == Len(assets)
<1>1. /\ UNCHANGED <<scene, debugger, skinnedReady>> /\ status' = status
      /\ phase' = "Nodes"
      /\ scene.kind[n] = "Blank" /\ UNCHANGED <<models, shader>>
      /\ Place(n, calls[1][2], FALSE)
  BY DEF VisitBlank, Proceed, given
<1>2. n \notin Skeletons /\ ~IsMesh(n)
  BY <1>1 DEF Skeletons, IsMesh
<1>3. /\ HierarchyPart(assets') /\ Awaits(calls', assets', Skeletons)
      /\ DOMAIN assets' = 1 .. len + 1 /\ len \in Nat \ {0} /\ DOMAIN assets = 1 .. len
      /\ \A k \in DOMAIN assets : assets'[k].node = assets[k].node
      /\ assets'[len + 1].node = n
  BY <1>1, <1>2, Traversing, Placed
<1>4. calls' \in Seq(Nodes \X Nat)
  BY <1>3 DEF Awaits
<1>5. ModelsInv'
  <2>1. ModelsInv
    BY Traversing
  <2>2. ASSUME NEW i \in DOMAIN models
        PROVE  \E k \in DOMAIN assets' : assets'[k].node = models[i].node
    <3>1. PICK k \in DOMAIN assets : assets[k].node = models[i].node
      BY <2>1 DEF ModelsInv
    <3>2. k \in DOMAIN assets' /\ assets'[k].node = models[i].node
      BY <1>3, <3>1
    <3> QED
      BY <3>2
  <2>3. ASSUME NEW k \in DOMAIN assets', k # 1, IsMesh(assets'[k].node)
        PROVE  \E i \in DOMAIN models : models[i].node = assets'[k].node
    <3>1. k # len + 1
      BY <1>2, <1>3, <2>3
    <3>2. k \in DOMAIN assets /\ assets'[k].node = assets[k].node
      BY <1>3, <3>1
    <3> QED
      BY <2>1, <2>3, <3>2 DEF ModelsInv
  <2> QED
    BY <1>1, <2>1, <2>2, <2>3, SameScene, SameBones DEF ModelsInv
<1>6. ShaderInv'
  BY <1>1, Traversing, ShaderKept
<1> QED
  BY <1>1, <1>3, <1>4, <1>5, <1>6, VisitInv

\* The nodes of the bones, once there are any, are the nodes of the skeleton.
LEMMA BonesOfSkeleton ==
  ASSUME WellFormed(scene), SkeletonPart(bones), WholeSkeleton(bones)
  PROVE  /\ {bones[i].node : i \in DOMAIN bones} = SkeletonNodes
         /\ bones = <<>> <=> SkeletonNodes = {}
         /\ Joints = {} <=> ~\E b \in SkeletonNodes : scene.name[b] = scene.name[scene.link]
         /\ Joints \subseteq 1 .. Len(bones) /\ Joints \subseteq Nat \ {0}
<1>0. DOMAIN bones = 1 .. Len(bones) /\ Len(bones) \in Nat
  BY BoneTypes DEF SkeletonPart
<1>1. {bones[i].node : i \in DOMAIN bones} = SkeletonNodes
  BY DEF WholeSkeleton, SkeletonNodes
<1>2. bones = <<>> <=> SkeletonNodes = {}
  <2>1. bones # <<>> => 1 \in DOMAIN bones
    BY <1>0 DEF SkeletonPart
  <2>2. bones = <<>> => DOMAIN bones = {}
    OBVIOUS
  <2> QED
    BY <1>1, <2>1, <2>2
<1>3. Joints = {} <=> ~\E b \in SkeletonNodes : scene.name[b] = scene.name[scene.link]
  BY <1>1 DEF Joints
<1> QED
  BY <1>0, <1>1, <1>2, <1>3 DEF Joints

\* The meshes that have a model, counted.
LEMMA MeshesCounted ==
  ASSUME WellFormed(scene), ModelsInv
  PROVE  LET S == {models[i].node : i \in DOMAIN models}
         IN  /\ S \subseteq MeshNodes
             /\ IsFiniteSet(S) /\ Cardinality(S) = Len(models)
             /\ IsFiniteSet(MeshNodes) /\ Cardinality(MeshNodes) \in Nat
             /\ Len(models) \in Nat
<1> DEFINE S == {models[i].node : i \in DOMAIN models}
<1>1. MeshNodes \subseteq Nodes /\ Nodes \subseteq Nat
  BY TreeFacts DEF MeshNodes, Reached
<1>2. IsFiniteSet(MeshNodes) /\ Cardinality(MeshNodes) \in Nat
  <2>1. MeshNodes \subseteq Nodes \cup {0}
    BY <1>1
  <2> QED
    BY <2>1, NodesFinite
<1>3. DOMAIN models = 1 .. Len(models) /\ Len(models) \in Nat
  <2>1. models \in Seq(Model)
    BY DEF ModelsInv
  <2> QED
    BY <2>1
<1>4. S \subseteq MeshNodes
  BY DEF ModelsInv
<1>5. /\ \A i \in DOMAIN models : models[i].node \in Nat
      /\ \A i, j \in DOMAIN models : i < j => models[i].node < models[j].node
  BY <1>1, <1>4 DEF ModelsInv
<1>6. IsFiniteSet(S) /\ Cardinality(S) = Len(models)
  BY <1>3, <1>5, NodesCounted
<1> QED
  BY <1>2, <1>3, <1>4, <1>6

\* A mesh whose geometry the importer objects to.
LEMMA VisitMeshStopsStep ==
  ASSUME IInv, status = "running", phase = "Nodes", calls # <<>>, UNCHANGED <<bones, tracks>>,
         VisitMeshStops(calls[1][1])
  PROVE  IInv'
<1> DEFINE n == calls[1][1]
<1>1. /\ UNCHANGED <<scene, debugger, skinnedReady>> /\ status' = "stopped"
      /\ phase' = "Nodes" /\ UNCHANGED <<assets, calls, models, shader>>
      /\ IsMesh(n) /\ GeometryStops(n)
  BY DEF VisitMeshStops, Stop, given
<1>2. n \in MeshNodes
  <2>1. n \notin Skeletons
    BY <1>1 DEF Skeletons, IsMesh
  <2> QED
    BY <1>1, <2>1, Traversing, NextNode DEF MeshNodes
<1>3. ~Importable
  <2>1. bones = <<>> => SkeletonNodes = {}
    BY Traversing, BonesOfSkeleton
  <2>2. Joints = {} => ~\E b \in SkeletonNodes : scene.name[b] = scene.name[scene.link]
    BY Traversing, BonesOfSkeleton
  <2>3. CASE scene.objection[n] = "assertion" \/ (scene.kind[n] = "Skinned" /\ bones = <<>>)
    BY <1>2, <2>1, <2>3 DEF Importable, NothingAsserts
  <2>4. CASE /\ scene.objection[n] = "break" \/ (scene.kind[n] = "Skinned" /\ Joints = {})
             /\ ~debugger
    <3>1. scene.objection[n] = "break" => ~NothingBreaks
      BY <1>2 DEF NothingBreaks
    <3>2. scene.kind[n] = "Skinned" /\ Joints = {} => ~NothingBreaks
      BY <1>2, <2>2 DEF NothingBreaks
    <3> QED
      BY <2>4, <3>1, <3>2 DEF Importable
  <2> QED
    BY <1>1, <2>3, <2>4 DEF GeometryStops
<1>4. HierarchyPart(assets') /\ calls' \in Seq(Nodes \X Nat)
  BY <1>1, Traversing DEF Awaits
<1>5. ModelsInv'
  BY <1>1, Traversing, ModelsKept
<1>6. ShaderInv'
  BY <1>1, Traversing, ShaderKept
<1> QED
  BY <1>1, <1>3, <1>4, <1>5, <1>6, VisitInv

\* Shaders while a mesh is visited: those of its materials are the skin's or what they were.
LEMMA ShadersChanged ==
  ASSUME WellFormed(scene), ShaderInv, phase = "Nodes", NEW n \in Nodes,
         shader' = [m \in Materials |-> IF m \in Range(scene.materials[n])
                                        THEN ChangeShader(n, m) ELSE shader[m]]
  PROVE  /\ shader' \in [Materials -> {"SSDefaultPbr", "SSDefaultPbrSkinned"}]
         /\ \A m \in Materials :
              shader'[m] = "SSDefaultPbrSkinned" <=>
                \/ shader[m] = "SSDefaultPbrSkinned"
                \/ /\ scene.kind[n] = "Skinned" /\ skinnedReady
                   /\ m \in Range(scene.materials[n])
BY DEF ShaderInv, ChangeShader

\* A mesh that the lists have no room for, or whose name the table of models refuses.
LEMMA VisitRefusedStep ==
  ASSUME IInv, status = "running", phase = "Nodes", calls # <<>>, UNCHANGED <<bones, tracks>>,
         VisitMesh(calls[1][1], calls[1][2]), InsertStops(calls[1][1])
  PROVE  IInv'
<1> DEFINE n == calls[1][1]
<1>1. /\ UNCHANGED <<scene, debugger, skinnedReady>> /\ status' = "stopped"
      /\ phase' = "Nodes"
      /\ UNCHANGED <<assets, calls, models>> /\ IsMesh(n)
      /\ shader' = [m \in Materials |-> IF m \in Range(scene.materials[n])
                                        THEN ChangeShader(n, m) ELSE shader[m]]
  BY DEF VisitMesh, Stop, given
<1>2. n \in MeshNodes /\ n \in Nodes /\ \A k \in DOMAIN assets : assets[k].node # n
  <2>1. n \notin Skeletons
    BY <1>1 DEF Skeletons, IsMesh
  <2> QED
    BY <1>1, <2>1, Traversing, NextNode DEF MeshNodes
<1> DEFINE S == {models[i].node : i \in DOMAIN models}
<1>3. n \notin S
  BY <1>2, Traversing DEF ModelsInv
<1>4. ~Importable
  <2>1. ASSUME Len(models) >= Room PROVE ~Importable
    <3>1. /\ S \subseteq MeshNodes /\ IsFiniteSet(S) /\ Cardinality(S) = Len(models)
          /\ IsFiniteSet(MeshNodes) /\ Cardinality(MeshNodes) \in Nat /\ Len(models) \in Nat
      BY Traversing, MeshesCounted
    <3> HIDE DEF S, n
    <3>2. Cardinality(S \cup {n}) = Len(models) + 1
      BY <1>3, <3>1, FS_AddElement
    <3>3. S \cup {n} \subseteq MeshNodes
      BY <1>2, <3>1
    <3>4. Cardinality(S \cup {n}) <= Cardinality(MeshNodes)
      BY <3>1, <3>3, FS_Subset
    <3>5. ~(Cardinality(MeshNodes) <= Room)
      BY <2>1, <3>1, <3>2, <3>4, RoomAssumption
    <3> QED
      BY <3>5 DEF Importable, NothingAsserts
  <2>2. ASSUME NameTaken(n), ~debugger PROVE ~Importable
    <3>1. PICK i \in DOMAIN models : scene.name[models[i].node] = scene.name[n]
      BY <2>2 DEF NameTaken
    <3>2. models[i].node \in MeshNodes /\ models[i].node # n
      BY <1>3, Traversing DEF ModelsInv
    <3> QED
      BY <1>2, <2>2, <3>1, <3>2 DEF Importable, NothingBreaks
  <2>3. ASSUME n \in scene.refused, ~debugger PROVE ~Importable
    BY <1>2, <2>3 DEF Importable, NothingBreaks
  <2> QED
    BY <2>1, <2>2, <2>3 DEF InsertStops
<1>5. HierarchyPart(assets') /\ calls' \in Seq(Nodes \X Nat)
  BY <1>1, Traversing DEF Awaits
<1>6. ModelsInv'
  BY <1>1, Traversing, ModelsKept
<1>7. ShaderInv'
  <2>1. shader' \in [Materials -> {"SSDefaultPbr", "SSDefaultPbrSkinned"}]
    BY <1>1, <1>2, Traversing, ShadersChanged
  <2> QED
    BY <1>1, <2>1 DEF ShaderInv
<1> QED
  BY <1>1, <1>4, <1>5, <1>6, <1>7, VisitInv

\* A mesh gets its model and its asset.
LEMMA VisitMeshStep ==
  ASSUME IInv, status = "running", phase = "Nodes", calls # <<>>, UNCHANGED <<bones, tracks>>,
         VisitMesh(calls[1][1], calls[1][2]), ~InsertStops(calls[1][1])
  PROVE  IInv'
<1> DEFINE n == calls[1][1]
           len == Len(assets)
           model == [node |-> n, materials |-> scene.materials[n], joint |-> Joint(n)]
           count == Len(models)
<1>0. WellFormed(scene) /\ WholeSkeleton(bones) /\ SkeletonPart(bones) /\ ModelsInv /\ ShaderInv
  BY Traversing
<1>1. /\ UNCHANGED <<scene, debugger, skinnedReady>> /\ status' = status
      /\ phase' = "Nodes"
      /\ models' = Append(models, model) /\ IsMesh(n) /\ ~GeometryStops(n)
      /\ Place(n, calls[1][2], TRUE)
      /\ shader' = [m \in Materials |-> IF m \in Range(scene.materials[n])
                                        THEN ChangeShader(n, m) ELSE shader[m]]
  BY DEF VisitMesh, Proceed, given
<1>2. n \notin Skeletons
  BY <1>1 DEF Skeletons, IsMesh
<1>3. /\ HierarchyPart(assets') /\ Awaits(calls', assets', Skeletons)
      /\ DOMAIN assets' = 1 .. len + 1 /\ len \in Nat \ {0} /\ DOMAIN assets = 1 .. len
      /\ \A k \in DOMAIN assets : assets'[k].node = assets[k].node
      /\ assets'[len + 1].node = n
  BY <1>1, <1>2, Traversing, Placed
<1>4. /\ n \in MeshNodes /\ n \in Nodes /\ n \in Nat
      /\ \A k \in DOMAIN assets : assets[k].node < n
  BY <1>1, <1>2, Traversing, NextNode DEF MeshNodes
<1>5. calls' \in Seq(Nodes \X Nat)
  BY <1>3 DEF Awaits
<1>6. Joint(n) \in Nat
  <2>1. Joints \subseteq Nat \ {0}
    BY <1>0, BonesOfSkeleton
  <2>2. CASE scene.kind[n] = "Skinned" /\ Joints # {}
    <3>1. Joints \subseteq Nat
      BY <2>1
    <3>2. Least(Joints) \in Nat \ {0}
      BY <2>1, <2>2, <3>1, LeastIsLeast
    <3> QED
      BY <2>2, <3>2 DEF Joint
  <2> QED
    BY <2>2 DEF Joint, NoParent
<1>7. model \in Model /\ model.node = n /\ model.materials = scene.materials[n] /\ model.joint = Joint(n)
  <2>1. scene.materials[n] \in Seq(Materials)
    BY <1>0, <1>4 DEF WellFormed, Nodes
  <2> QED
    BY <1>4, <1>6, <2>1 DEF Model
<1> HIDE DEF model
<1>8. /\ models' \in Seq(Model) /\ DOMAIN models' = 1 .. count + 1 /\ count \in Nat
      /\ DOMAIN models = 1 .. count
      /\ \A i \in 1 .. count : models'[i] = models[i]
      /\ models'[count + 1] = model
  <2>1. models \in Seq(Model)
    BY <1>0 DEF ModelsInv
  <2> QED
    BY <1>1, <1>7, <2>1
<1>9. ASSUME NEW i \in DOMAIN models'
      PROVE  /\ models'[i].node \in MeshNodes /\ ~GeometryStops(models'[i].node)
             /\ models'[i].node \notin scene.refused \/ debugger
             /\ models'[i].materials = scene.materials[models'[i].node]
             /\ models'[i].joint = Joint(models'[i].node)
             /\ \E k \in DOMAIN assets' : assets'[k].node = models'[i].node
  <2>1. CASE i = count + 1
    <3>1. len + 1 \in DOMAIN assets' /\ assets'[len + 1].node = n
      BY <1>3
    <3> QED
      BY <1>1, <1>4, <1>7, <1>8, <2>1, <3>1 DEF InsertStops
  <2>2. CASE i # count + 1
    <3>1. i \in DOMAIN models /\ models'[i] = models[i]
      BY <1>8, <2>2
    <3>2. PICK k \in DOMAIN assets : assets[k].node = models[i].node
      BY <1>0, <3>1 DEF ModelsInv
    <3>3. k \in DOMAIN assets' /\ assets'[k].node = models[i].node
      BY <1>3, <3>2
    <3> QED
      BY <1>0, <3>1, <3>3 DEF ModelsInv
  <2> QED
    BY <2>1, <2>2
<1>10. ASSUME NEW i \in DOMAIN models', NEW j \in DOMAIN models',
              scene.name[models'[i].node] = scene.name[models'[j].node], ~debugger
       PROVE  i = j
  <2>1. \A l \in 1 .. count : scene.name[models'[l].node] # scene.name[n]
    BY <1>8, <1>10 DEF InsertStops, NameTaken
  <2>2. CASE i = count + 1 \/ j = count + 1
    BY <1>7, <1>8, <1>10, <2>1, <2>2
  <2>3. CASE i # count + 1 /\ j # count + 1
    <3>1. i \in DOMAIN models /\ j \in DOMAIN models
      BY <1>8, <2>3
    <3> QED
      BY <1>0, <1>8, <1>10, <3>1 DEF ModelsInv
  <2> QED
    BY <2>2, <2>3
<1>14. ASSUME NEW i \in DOMAIN models', NEW j \in DOMAIN models', i < j
       PROVE  models'[i].node < models'[j].node
  <2>1. i \in DOMAIN models /\ models'[i] = models[i]
    BY <1>8, <1>14
  <2>2. CASE j = count + 1
    <3>1. \E k \in DOMAIN assets : assets[k].node = models[i].node
      BY <1>0, <2>1 DEF ModelsInv
    <3> QED
      BY <1>4, <1>7, <1>8, <2>1, <2>2, <3>1
  <2>3. CASE j # count + 1
    <3>1. j \in DOMAIN models /\ models'[j] = models[j]
      BY <1>8, <2>3
    <3> QED
      BY <1>0, <1>14, <2>1, <3>1 DEF ModelsInv
  <2> QED
    BY <2>2, <2>3
<1>15. Len(models') <= Room
  <2>1. Len(models') = count + 1
    BY <1>8
  <2> QED
    BY <1>8, <2>1, RoomAssumption DEF InsertStops
<1>11. ASSUME NEW k \in DOMAIN assets', k # 1, IsMesh(assets'[k].node)
       PROVE  \E i \in DOMAIN models' : models'[i].node = assets'[k].node
  <2>1. CASE k = len + 1
    <3>1. count + 1 \in DOMAIN models' /\ models'[count + 1].node = n
      BY <1>7, <1>8
    <3> QED
      BY <1>3, <2>1, <3>1
  <2>2. CASE k # len + 1
    <3>1. k \in DOMAIN assets /\ assets'[k].node = assets[k].node
      BY <1>3, <2>2
    <3>2. PICK i \in DOMAIN models : models[i].node = assets[k].node
      BY <1>0, <1>11, <3>1 DEF ModelsInv
    <3>3. i \in DOMAIN models' /\ models'[i].node = assets'[k].node
      BY <1>8, <3>1, <3>2
    <3> QED
      BY <3>3
  <2> QED
    BY <2>1, <2>2
<1>12. ModelsInv'
  <2>1. models' \in Seq(Model)'
    BY <1>1, <1>8, SameScene
  <2> QED
    BY <1>1, <1>9, <1>10, <1>11, <1>14, <1>15, <2>1, SameScene, SameBones DEF ModelsInv
<1>13. ShaderInv'
  <2>1. /\ shader' \in [Materials -> {"SSDefaultPbr", "SSDefaultPbrSkinned"}]
        /\ \A m \in Materials :
             shader'[m] = "SSDefaultPbrSkinned" <=>
               \/ shader[m] = "SSDefaultPbrSkinned"
               \/ /\ scene.kind[n] = "Skinned" /\ skinnedReady
                  /\ m \in Range(scene.materials[n])
    BY <1>0, <1>1, <1>4, ShadersChanged
  <2>2. ASSUME NEW m \in Materials
        PROVE  shader'[m] = "SSDefaultPbrSkinned" <=>
                 \E i \in DOMAIN models' : /\ skinnedReady
                                           /\ scene.kind[models'[i].node] = "Skinned"
                                           /\ m \in Range(models'[i].materials)
    <3> DEFINE Paints(k) == /\ skinnedReady /\ scene.kind[k.node] = "Skinned"
                          /\ m \in Range(k.materials)
    <3>1. shader[m] = "SSDefaultPbrSkinned" <=> \E i \in DOMAIN models : Paints(models[i])
      BY <1>0 DEF ShaderInv
    <3>2. Paints(model) <=> /\ scene.kind[n] = "Skinned" /\ skinnedReady
                            /\ m \in Range(scene.materials[n])
      BY <1>7
    <3> HIDE DEF Paints
    <3>3. (\E i \in DOMAIN models' : Paints(models'[i])) <=>
            (\E i \in DOMAIN models : Paints(models[i])) \/ Paints(model)
      <4>1. \A i \in DOMAIN models : i \in DOMAIN models' /\ models'[i] = models[i]
        BY <1>8
      <4>2. count + 1 \in DOMAIN models' /\ models'[count + 1] = model
        BY <1>8
      <4>3. \A i \in DOMAIN models' : i = count + 1 \/ i \in DOMAIN models
        BY <1>8
      <4> QED
        BY <4>1, <4>2, <4>3
    <3>4. shader'[m] = "SSDefaultPbrSkinned" <=> \E i \in DOMAIN models' : Paints(models'[i])
      BY <2>1, <3>1, <3>2, <3>3
    <3> QED
      BY <3>4 DEF Paints
  <2> QED
    BY <1>1, <2>1, <2>2 DEF ShaderInv
<1> QED
  BY <1>1, <1>3, <1>5, <1>12, <1>13, VisitInv

LEMMA TraverseNodesStep ==
  ASSUME IInv, status = "running", TraverseNodes
  PROVE  IInv'
<1> DEFINE n == calls[1][1]
           at == calls[1][2]
<1>1. phase = "Nodes" /\ calls # <<>> /\ UNCHANGED <<bones, tracks>>
  BY DEF TraverseNodes
<1>2. Head(calls) = calls[1]
  BY <1>1, Traversing
<1>3. \/ VisitSkeleton(n, at) \/ VisitBlank(n, at) \/ VisitMesh(n, at) \/ VisitMeshStops(n)
  BY <1>2 DEF TraverseNodes
<1>4. CASE VisitSkeleton(n, at)
  BY <1>1, <1>4, VisitSkeletonStep
<1>5. CASE VisitBlank(n, at)
  BY <1>1, <1>5, VisitBlankStep
<1>6. CASE VisitMesh(n, at)
  BY <1>1, <1>6, VisitRefusedStep, VisitMeshStep
<1>7. CASE VisitMeshStops(n)
  BY <1>1, <1>7, VisitMeshStopsStep
<1> QED
  BY <1>3, <1>4, <1>5, <1>6, <1>7

\* When no call is left every node outside the skeletons is an asset.
LEMMA AssetsReachAll ==
  ASSUME WellFormed(scene), HierarchyPart(assets), Awaits(<<>>, assets, Skeletons)
  PROVE  {assets[i].node : i \in DOMAIN assets} = Reached \cup {NoNode}
<1> DEFINE S == {assets[i].node : i \in DOMAIN assets}
           Missing == Reached \ S
<1>0. 1 \in DOMAIN assets
  BY DEF HierarchyPart
<1>1. S \subseteq Reached \cup {NoNode} /\ NoNode \in S
  BY <1>0 DEF HierarchyPart
<1>2. SUFFICES ASSUME Missing # {} PROVE FALSE
  BY <1>1
<1>3. \A m \in Reached : m \in Nodes /\ m \in Nat
  BY TreeFacts DEF Reached
<1>4. PICK m \in Missing : \A x \in Missing : m <= x
  <2>1. Missing \subseteq Nat
    BY <1>3
  <2> QED
    BY <1>2, <2>1, LeastExists
<1>5. m \in Nodes /\ m \in Nat /\ m \notin Skeletons /\ scene.parent[m] \in Reached \cup {0}
  BY <1>3, <1>4, ReachedFacts
<1>6. scene.parent[m] < m /\ scene.parent[m] \in Nat
  BY <1>5, TreeFacts
<1>7. scene.parent[m] \in S
  BY <1>1, <1>4, <1>5, <1>6 DEF NoNode
<1>8. m \in S
  BY <1>5, <1>7 DEF Awaits
<1> QED
  BY <1>4, <1>8

\* A scene that got through to the end gave no reason to stop.
LEMMA NoReasonLeft ==
  ASSUME IInv, status = "running", phase = "Nodes", calls = <<>>,
         NoNode \notin scene.refused \/ debugger
  PROVE  Importable /\ {assets[i].node : i \in DOMAIN assets} = Reached \cup {NoNode}
<1>1. /\ WellFormed(scene) /\ HierarchyPart(assets) /\ Awaits(<<>>, assets, Skeletons)
      /\ WholeSkeleton(bones) /\ SkeletonPart(bones) /\ ModelsInv
  BY DEF IInv, SceneInv, AssetsInv, BonesInv
<1>2. {assets[i].node : i \in DOMAIN assets} = Reached \cup {NoNode}
  BY <1>1, AssetsReachAll
<1>3. ASSUME NEW n \in MeshNodes
      PROVE  \E i \in DOMAIN models : models[i].node = n
  <2>1. n \in Reached /\ IsMesh(n)
    BY <1>3 DEF MeshNodes
  <2>2. PICK k \in DOMAIN assets : assets[k].node = n
    BY <1>2, <2>1
  <2>3. k # 1
    BY <1>1, <2>1, <2>2, TreeFacts DEF HierarchyPart, NoNode, Reached
  <2> QED
    BY <1>1, <2>1, <2>2, <2>3 DEF ModelsInv
<1>4. ASSUME NEW n \in MeshNodes
      PROVE  ~GeometryStops(n) /\ (n \notin scene.refused \/ debugger)
  BY <1>1, <1>3 DEF ModelsInv
<1>5. NothingAsserts
  <2>1. \A n \in SkeletonNodes : scene.kind[n] = "Skeleton"
    BY <1>1 DEF WholeSkeleton, Skeletons, SkeletonNodes
  <2>2. ASSUME NEW n \in MeshNodes
        PROVE  /\ scene.objection[n] # "assertion"
               /\ scene.kind[n] = "Skinned" => SkeletonNodes # {}
    BY <1>1, <1>4, BonesOfSkeleton DEF GeometryStops
  <2>3. Cardinality(MeshNodes) <= Room
    <3> DEFINE S == {models[i].node : i \in DOMAIN models}
    <3>1. S \subseteq MeshNodes /\ Cardinality(S) = Len(models)
      BY <1>1, MeshesCounted
    <3>2. S = MeshNodes
      BY <1>3, <3>1
    <3> HIDE DEF S
    <3> QED
      BY <1>1, <3>1, <3>2 DEF ModelsInv
  <2> QED
    BY <2>1, <2>2, <2>3 DEF NothingAsserts
<1>6. ASSUME ~debugger PROVE NothingBreaks
  <2>1. ASSUME NEW n \in MeshNodes
        PROVE  /\ scene.objection[n] = "none"
               /\ scene.kind[n] = "Skinned" =>
                    \E b \in SkeletonNodes : scene.name[b] = scene.name[scene.link]
    <3>1. scene.objection[n] \in {"none", "break", "assertion"}
      BY <1>1 DEF WellFormed, MeshNodes, Reached, Nodes
    <3> QED
      BY <1>1, <1>4, <1>6, <3>1, BonesOfSkeleton DEF GeometryStops
  <2>2. ASSUME NEW m \in MeshNodes, NEW n \in MeshNodes, scene.name[m] = scene.name[n] PROVE m = n
    <3>1. PICK i \in DOMAIN models : models[i].node = m
      BY <1>3
    <3>2. PICK j \in DOMAIN models : models[j].node = n
      BY <1>3
    <3>3. i = j
      BY <1>1, <1>6, <2>2, <3>1, <3>2 DEF ModelsInv
    <3> QED
      BY <3>1, <3>2, <3>3
  <2>3. scene.refused \cap (MeshNodes \cup {NoNode}) = {}
    BY <1>4, <1>6
  <2> QED
    BY <2>1, <2>2, <2>3 DEF NothingBreaks
<1> QED
  BY <1>2, <1>5, <1>6 DEF Importable

LEMMA InsertCombinationStep ==
  ASSUME IInv, status = "running", InsertCombination
  PROVE  IInv'
<1>1. /\ UNCHANGED <<scene, debugger, skinnedReady>> /\ phase = "Nodes" /\ calls = <<>>
      /\ UNCHANGED <<calls, bones, tracks, assets, models, shader>>
      /\ IF NoNode \in scene.refused /\ ~debugger
         THEN status' = "stopped" /\ phase' = "Nodes"
         ELSE status' = "running" /\ phase' = "Done"
  BY DEF InsertCombination, Proceed, Stop, given
<1>2. HierarchyPart(assets) /\ WholeSkeleton(bones) /\ SkeletonPart(bones) /\ ModelsInv
  BY <1>1 DEF IInv, AssetsInv, BonesInv
<1>3. phase' = "Done" => Importable /\ {assets[i].node : i \in DOMAIN assets} = Reached \cup {NoNode}
  BY <1>1, NoReasonLeft
<1>4. SceneInv'
  BY <1>1, SameScene DEF IInv, SceneInv
<1>5. BonesInv'
  BY <1>1, SameScene DEF IInv, BonesInv
<1>6. TracksInv'
  BY <1>1, SameScene DEF IInv, TracksInv
<1>7. AssetsInv'
  BY <1>1, <1>2, <1>3, SameScene DEF AssetsInv
<1>8. ModelsInv'
  BY <1>1, <1>2, ModelsKept
<1>9. ShaderInv'
  BY <1>1, ShaderKept DEF IInv
<1>10. status' = "stopped" => ~Importable
  BY <1>1 DEF Importable, NothingBreaks
<1>11. StopsExplained'
  BY <1>1, <1>3, <1>10, SameReasons DEF StopsExplained
<1> QED
  BY <1>4, <1>5, <1>6, <1>7, <1>8, <1>9, <1>11 DEF IInv

-----------------------------------------------------------------------------
\* Every step of the import keeps the invariant.
THEOREM Inductive == Spec => []IInv
<1>1. Init => IInv
  BY InitInv
<1>2. IInv /\ [Next]_vars => IInv'
  <2> SUFFICES ASSUME IInv, [Next]_vars PROVE IInv'
    OBVIOUS
  <2>1. CASE UNCHANGED vars
    <3>1. /\ UNCHANGED <<scene, debugger, skinnedReady>> /\ phase' = phase /\ calls' = calls /\ bones' = bones
          /\ tracks' = tracks /\ assets' = assets /\ models' = models /\ shader' = shader
          /\ status' = status
      BY <2>1 DEF vars
    <3>2. SceneInv' /\ BonesInv' /\ TracksInv'
      BY <3>1, SameScene DEF IInv, SceneInv, BonesInv, TracksInv
    <3>3. AssetsInv' /\ StopsExplained'
      BY <3>1, SameScene, SameReasons DEF IInv, AssetsInv, StopsExplained
    <3>4. ModelsInv'
      BY <3>1, ModelsKept DEF IInv
    <3>5. ShaderInv'
      BY <3>1 DEF IInv, ShaderInv
    <3> QED
      BY <3>2, <3>3, <3>4, <3>5 DEF IInv
  <2>2. CASE Next
    BY <2>2, ImportMaterialsStep, ImportSkeletonStep, ImportBoneStep, InsertSkeletonStep,
       ImportAnimationStep, ImportModelsStep, TraverseNodesStep, InsertCombinationStep DEF Next
  <2> QED
    BY <2>1, <2>2
<1> QED
  BY <1>1, <1>2, PTL DEF Spec

\* The children an element lists are the nodes of the list that hang on its node.
LEMMA ChildNodes ==
  ASSUME NEW list, Hierarchy(list), DOMAIN list = 1 .. Len(list), Len(list) \in Nat,
         \A i \in DOMAIN list : list[i].node \in Nat, NEW i \in DOMAIN list
  PROVE  /\ Range(list[i].childs) \subseteq 0 .. Len(list) - 1
         /\ Lists(NodesOf(list, list[i].childs),
                  {c \in {list[j].node : j \in DOMAIN list} \ {list[1].node} :
                     scene.parent[c] = list[i].node})
<1> DEFINE q == list[i].childs
           T == {j \in 1 .. Len(list) - 1 : list[j + 1].parent = i - 1}
           r == NodesOf(list, q)
           S == {c \in {list[j].node : j \in DOMAIN list} \ {list[1].node} :
                   scene.parent[c] = list[i].node}
<1>1. Lists(q, T)
  BY DEF Hierarchy
<1>2. T \subseteq Nat
  OBVIOUS
<1> HIDE DEF q
<1>3. /\ DOMAIN q = 1 .. Len(q) /\ Len(q) \in Nat
      /\ \A k \in DOMAIN q : q[k] \in T
  BY <1>1, <1>2, ListTypes
<1>4. DOMAIN r = DOMAIN q /\ \A k \in DOMAIN q : r[k] = list[q[k] + 1].node
  BY DEF NodesOf
<1> HIDE DEF r
<1>5. ASSUME NEW k \in DOMAIN q PROVE r[k] \in S
  <2>1. q[k] + 1 \in DOMAIN list /\ q[k] + 1 # 1 /\ 1 < q[k] + 1 /\ 1 \in DOMAIN list
    BY <1>3
  <2>2. list[q[k] + 1].parent + 1 = i
    BY <1>3
  <2>3. scene.parent[list[q[k] + 1].node] = list[i].node
    BY <2>1, <2>2 DEF Hierarchy
  <2>4. list[1].node < list[q[k] + 1].node
    BY <2>1 DEF Hierarchy
  <2>5. list[q[k] + 1].node # list[1].node
    BY <2>1, <2>4
  <2> QED
    BY <1>4, <2>1, <2>3, <2>5
<1>6. \A k, l \in DOMAIN q : k < l => r[k] < r[l]
  <2>1. SUFFICES ASSUME NEW k \in DOMAIN q, NEW l \in DOMAIN q, k < l PROVE r[k] < r[l]
    OBVIOUS
  <2>2. q[k] < q[l]
    BY <1>1, <2>1 DEF Lists
  <2>3. q[k] + 1 \in DOMAIN list /\ q[l] + 1 \in DOMAIN list /\ q[k] + 1 < q[l] + 1
    BY <1>3, <2>2
  <2>4. list[q[k] + 1].node < list[q[l] + 1].node
    BY <2>3 DEF Hierarchy
  <2> QED
    BY <1>4, <2>4
<1>7. ASSUME NEW c \in S PROVE \E k \in DOMAIN q : r[k] = c
  <2>1. PICK j \in DOMAIN list : list[j].node = c
    OBVIOUS
  <2>2. j # 1 /\ scene.parent[c] = list[i].node
    BY <2>1
  <2>3. list[j].parent \in 0 .. j - 2 /\ list[list[j].parent + 1].node = list[i].node
    BY <2>1, <2>2 DEF Hierarchy
  <2>4. list[j].parent + 1 = i
    <3> DEFINE p == list[j].parent + 1
    <3>1. p \in DOMAIN list /\ list[p].node = list[i].node
      BY <2>3
    <3>2. ~(p < i) /\ ~(i < p)
      <4>1. \A x, y \in DOMAIN list : x < y => list[x].node < list[y].node
        BY DEF Hierarchy
      <4> HIDE DEF p
      <4> QED
        BY <3>1, <4>1
    <3> QED
      BY <3>1, <3>2
  <2>5. j - 1 \in T
    <3>1. j \in 1 .. Len(list) /\ Len(list) \in Nat /\ list[j].parent \in Nat
      BY <2>3
    <3>2. (j - 1) + 1 = j /\ j - 1 \in 1 .. Len(list) - 1
      BY <2>2, <3>1
    <3>3. list[(j - 1) + 1].parent = i - 1
      BY <2>4, <3>1, <3>2
    <3> QED
      BY <3>2, <3>3
  <2>6. PICK k \in DOMAIN q : q[k] = j - 1
    BY <1>1, <2>5 DEF Lists
  <2>7. r[k] = c
    BY <1>4, <2>1, <2>6
  <2> QED
    BY <2>7
<1>8. r \in Seq(S)
  <2>1. r \in [1 .. Len(q) -> S]
    <3>1. r = [k \in DOMAIN q |-> r[k]]
      BY <1>4 DEF r, NodesOf
    <3> QED
      BY <1>3, <1>5, <3>1
  <2> QED
    BY <1>3, <2>1
<1>9. Lists(r, S)
  BY <1>4, <1>6, <1>7, <1>8 DEF Lists
<1>10. Range(q) \subseteq 0 .. Len(list) - 1
  BY <1>3 DEF Range
<1> QED
  BY <1>9, <1>10 DEF q, r

\* Everything the import keeps refers to nodes of the scene and to elements of its lists.
LEMMA InvTypes ==
  ASSUME IInv
  PROVE  TypeOK
<1>0. WellFormed(scene) /\ SkeletonPart(bones) /\ ModelsInv
  BY DEF IInv, SceneInv, BonesInv
<1>1. \A i \in DOMAIN calls : calls[i] \in Nodes \X (Nat \cup {NoParent})
  <2>1. ASSUME NEW i \in DOMAIN calls PROVE calls[i] \in Nodes \X Nat
    BY DEF IInv, SceneInv
  <2> QED
    BY <2>1
<1>2. ASSUME NEW i \in DOMAIN bones
      PROVE  /\ bones[i].node \in Nodes
             /\ bones[i].parent \in Indices(bones) \cup {NoParent}
             /\ Range(bones[i].childs) \subseteq Indices(bones)
  <2>1. /\ DOMAIN bones = 1 .. Len(bones) /\ Len(bones) \in Nat
        /\ \A k \in DOMAIN bones : bones[k].node \in Nodes /\ bones[k].node \in Nat
    BY <1>0, BoneTypes DEF SkeletonPart
  <2>2. Hierarchy(bones) /\ bones[1].parent = NoParent
    BY <1>0, <1>2 DEF SkeletonPart
  <2>3. i # 1 => bones[i].parent \in 0 .. i - 2
    BY <1>2, <2>2 DEF Hierarchy
  <2>4. Range(bones[i].childs) \subseteq 0 .. Len(bones) - 1
    BY <1>2, <2>1, <2>2, ChildNodes
  <2> QED
    BY <1>2, <2>1, <2>2, <2>3, <2>4 DEF Indices
<1>3. ASSUME NEW i \in DOMAIN assets
      PROVE  /\ assets[i].node \in Nodes \cup {NoNode}
             /\ assets[i].parent \in Indices(assets) \cup {NoParent}
             /\ Range(assets[i].childs) \subseteq Indices(assets)
  <2>1. HierarchyPart(assets)
    BY <1>3 DEF IInv, AssetsInv
  <2>2. /\ DOMAIN assets = 1 .. Len(assets) /\ Len(assets) \in Nat
        /\ \A k \in DOMAIN assets : assets[k].node \in Nodes \cup {NoNode} /\ assets[k].node \in Nat
    BY <1>0, <2>1, AssetTypes DEF HierarchyPart
  <2>3. Hierarchy(assets) /\ assets[1].parent = NoParent
    BY <2>1 DEF HierarchyPart
  <2>4. i # 1 => assets[i].parent \in 0 .. i - 2
    BY <1>3, <2>3 DEF Hierarchy
  <2>5. Range(assets[i].childs) \subseteq 0 .. Len(assets) - 1
    BY <1>3, <2>2, <2>3, ChildNodes
  <2> QED
    BY <1>3, <2>2, <2>3, <2>4, <2>5 DEF Indices
<1>4. ASSUME NEW i \in DOMAIN models
      PROVE  models[i].node \in Nodes /\ models[i].joint \in Indices(bones) \cup {NoParent}
  <2> DEFINE n == models[i].node
  <2>1. n \in Nodes /\ models[i].joint = Joint(n)
    BY <1>0, <1>4 DEF ModelsInv, MeshNodes, Reached
  <2>2. CASE scene.kind[n] = "Skinned" /\ Joints # {}
    <3>1. DOMAIN bones = 1 .. Len(bones) /\ Len(bones) \in Nat
      BY <1>0, BoneTypes DEF SkeletonPart
    <3>2. Joints \subseteq Nat /\ Joints \subseteq DOMAIN bones
      BY <3>1 DEF Joints
    <3>3. Least(Joints) \in 1 .. Len(bones)
      BY <2>2, <3>1, <3>2, LeastIsLeast
    <3>4. Least(Joints) - 1 \in 0 .. Len(bones) - 1
      BY <3>1, <3>3
    <3> QED
      BY <2>1, <2>2, <3>4 DEF Joint, Indices
  <2> QED
    BY <2>1, <2>2 DEF Joint
<1>5. \A m \in DOMAIN shader : shader[m] \in {"SSDefaultPbr", "SSDefaultPbrSkinned"}
  BY DEF IInv, ShaderInv
<1> QED
  BY <1>0, <1>1, <1>2, <1>3, <1>4, <1>5 DEF TypeOK, IInv, SceneInv, TracksInv

\* Whatever the scene, every index of a parent, of a child or of a joint stays within the
\* list it is an index of.
THEOREM TypeCorrect == Spec => []TypeOK
BY Inductive, InvTypes, PTL

\* The bones are the whole skeleton of the scene in the order of its nodes, parents first,
\* and each lists as its children the children of its node.
LEMMA BonesMirror ==
  ASSUME IInv
  PROVE  BonesMirrorSkeleton
<1> SUFFICES ASSUME phase \in {"Animation", "Models", "Nodes", "Done"}, SkeletonRoot # NoNode
             PROVE  /\ {bones[i].node : i \in DOMAIN bones} = Below(SkeletonRoot)
                    /\ \A i, j \in DOMAIN bones : i < j => bones[i].node < bones[j].node
                    /\ \A i \in DOMAIN bones :
                         /\ IF i = 1 THEN bones[i].parent = NoParent
                            ELSE bones[bones[i].parent + 1].node = scene.parent[bones[i].node]
                         /\ NodesOf(bones, bones[i].childs) = Children(bones[i].node)
  BY DEF BonesMirrorSkeleton
<1>1. WellFormed(scene) /\ SkeletonPart(bones) /\ WholeSkeleton(bones)
  BY DEF IInv, SceneInv, BonesInv
<1>2. {bones[i].node : i \in DOMAIN bones} = Below(SkeletonRoot)
  BY <1>1 DEF WholeSkeleton
<1>3. /\ DOMAIN bones = 1 .. Len(bones) /\ Len(bones) \in Nat
      /\ \A k \in DOMAIN bones : bones[k].node \in Nodes /\ bones[k].node \in Nat
  BY <1>1, BoneTypes DEF SkeletonPart
<1>4. ASSUME NEW i \in DOMAIN bones
      PROVE  /\ IF i = 1 THEN bones[i].parent = NoParent
                ELSE bones[bones[i].parent + 1].node = scene.parent[bones[i].node]
             /\ NodesOf(bones, bones[i].childs) = Children(bones[i].node)
  <2> DEFINE n == bones[i].node
             S == {c \in Below(SkeletonRoot) \ {bones[1].node} : scene.parent[c] = n}
             C == {c \in Nodes : scene.parent[c] = n}
  <2>1. Hierarchy(bones) /\ bones[1].parent = NoParent /\ bones[1].node = SkeletonRoot
    BY <1>1, <1>4 DEF SkeletonPart
  <2>2. Lists(NodesOf(bones, bones[i].childs), S)
    BY <1>2, <1>3, <1>4, <2>1, ChildNodes
  <2>3. S = C
    <3>1. n \in Below(SkeletonRoot)
      BY <1>2, <1>4
    <3>2. ASSUME NEW c \in C PROVE c \in S
      <4>1. c \in Nodes /\ scene.parent[c] = n /\ c \in Nat /\ n < c /\ n \in Nat
        BY <1>1, <1>3, <1>4, TreeFacts
      <4>2. n >= SkeletonRoot /\ SkeletonRoot \in Nat /\ SkeletonRoot \in Nodes
        BY <1>1, <3>1, BelowFacts, RootFacts
      <4>3. c # SkeletonRoot
        BY <4>1, <4>2
      <4>4. c \in Below(SkeletonRoot)
        BY <1>1, <3>1, <4>1, <4>2, <4>3, BelowFacts
      <4> QED
        BY <2>1, <4>1, <4>3, <4>4
    <3>3. ASSUME NEW c \in S PROVE c \in C
      BY <1>1, <1>2, <1>3
    <3> QED
      BY <3>2, <3>3
  <2>4. Lists(Children(n), C) /\ C \subseteq Nat
    BY <1>1, ChildrenList, TreeFacts
  <2>5. NodesOf(bones, bones[i].childs) = Children(n)
    BY <2>2, <2>3, <2>4, ListUnique
  <2> QED
    BY <1>4, <2>1, <2>5 DEF Hierarchy
<1>5. \A i, j \in DOMAIN bones : i < j => bones[i].node < bones[j].node
  BY <1>1 DEF SkeletonPart, Hierarchy
<1> QED
  BY <1>2, <1>4, <1>5

\* For every scene the list of bones is the skeleton, whichever order siblings come in.
THEOREM SkeletonMirrored == Spec => []BonesMirrorSkeleton
BY Inductive, BonesMirror, PTL

\* The import stops on a scene only for what it asserts of its parts or, where no debugger
\* goes on, breaks about, and gets to the end only without such a reason: the lists sized
\* beforehand never run out, whatever the shape of the scene.
THEOREM OnlyUnimportableStop == Spec => []StopsExplained
<1>1. IInv => StopsExplained
  BY DEF IInv
<1> QED
  BY Inductive, <1>1, PTL

\* The assets are the nodes outside the skeletons, once each, as they hang in the scene.
LEMMA AssetsMirror ==
  ASSUME IInv
  PROVE  HierarchyMirrorsScene
<1> DEFINE S == {assets[i].node : i \in DOMAIN assets}
<1> SUFFICES ASSUME phase = "Done"
             PROVE  /\ S = Reached \cup {NoNode}
                    /\ Len(assets) = Cardinality(Reached) + 1
                    /\ \A i \in 2 .. Len(assets) :
                         /\ assets[assets[i].parent + 1].node = scene.parent[assets[i].node]
                         /\ assets[i].model <=> IsMesh(assets[i].node)
                    /\ \A i \in DOMAIN assets :
                         NodesOf(assets, assets[i].childs)
                           = Ascending({n \in Reached : scene.parent[n] = assets[i].node})
  BY DEF HierarchyMirrorsScene
<1>1. WellFormed(scene) /\ HierarchyPart(assets) /\ S = Reached \cup {NoNode}
  BY DEF IInv, SceneInv, AssetsInv
<1>2. /\ DOMAIN assets = 1 .. Len(assets) /\ Len(assets) \in Nat
      /\ \A k \in DOMAIN assets : assets[k].node \in Nat
  BY <1>1, AssetTypes DEF HierarchyPart
<1>3. Hierarchy(assets) /\ assets[1].node = NoNode
  BY <1>1 DEF HierarchyPart
<1>4. Reached \subseteq Nodes /\ NoNode \notin Reached
  BY <1>1, TreeFacts DEF Reached, NoNode
<1> HIDE DEF S
<1>5. Len(assets) = Cardinality(Reached) + 1
  <2>1. Cardinality(S) = Len(assets)
    BY <1>2, <1>3, NodesCounted DEF Hierarchy, S
  <2>2. IsFiniteSet(Reached)
    BY <1>1, <1>4, NodesFinite
  <2> QED
    BY <1>1, <1>4, <2>1, <2>2, FS_AddElement
<1>6. ASSUME NEW i \in 2 .. Len(assets)
      PROVE  /\ assets[assets[i].parent + 1].node = scene.parent[assets[i].node]
             /\ assets[i].model <=> IsMesh(assets[i].node)
  <2>1. i \in DOMAIN assets /\ i # 1
    BY <1>2
  <2> QED
    BY <1>1, <2>1 DEF HierarchyPart, Hierarchy
<1>7. ASSUME NEW i \in DOMAIN assets
      PROVE  NodesOf(assets, assets[i].childs)
               = Ascending({n \in Reached : scene.parent[n] = assets[i].node})
  <2> DEFINE R == {n \in Reached : scene.parent[n] = assets[i].node}
  <2>1. {c \in S \ {assets[1].node} : scene.parent[c] = assets[i].node} = R
    BY <1>1, <1>3, <1>4
  <2>2. Lists(NodesOf(assets, assets[i].childs), R)
    <3>1. Lists(NodesOf(assets, assets[i].childs),
                {c \in S \ {assets[1].node} : scene.parent[c] = assets[i].node})
      BY <1>2, <1>3, <1>7, ChildNodes DEF S
    <3> HIDE DEF R
    <3> QED
      BY <2>1, <3>1
  <2>3. Lists(Ascending(R), R) /\ R \subseteq Nat
    <3>1. R \subseteq Nodes \cup {0}
      BY <1>4
    <3> QED
      BY <1>1, <3>1, NodesFinite
  <2> QED
    BY <2>2, <2>3, ListUnique
<1> QED
  BY <1>1, <1>5, <1>6, <1>7

\* For every scene the finished combination is the hierarchy outside its skeletons.
THEOREM SceneMirrored == Spec => []HierarchyMirrorsScene
BY Inductive, AssetsMirror, PTL

\* At the end the skinned shader, if it is instantiated, is on the materials of skinned
\* models and on no other.
THEOREM SkinsShaded == Spec => []ShadersFollowSkins
<1>1. ASSUME IInv PROVE ShadersFollowSkins
  <2> SUFFICES ASSUME phase = "Done"
               PROVE  \A m \in Materials :
                        shader[m] = "SSDefaultPbrSkinned" <=>
                          \E i \in DOMAIN models : /\ skinnedReady
                                                   /\ scene.kind[models[i].node] = "Skinned"
                                                   /\ m \in Range(models[i].materials)
    BY DEF ShadersFollowSkins
  <2>1. status = "running"
    BY <1>1 DEF IInv, SceneInv
  <2> QED
    BY <1>1, <2>1 DEF IInv, ShaderInv
<1> QED
  BY Inductive, <1>1, PTL

\* Where names are unique, looking bones up by name finds the linked bone for every skin
\* whose link is a bone, none for another skin, and for every bone the node its animation
\* belongs to.
THEOREM BonesFound == Spec => []NamesFindBones
<1>1. ASSUME IInv PROVE NamesFindBones
  <2> SUFFICES ASSUME UniqueNames
               PROVE  /\ \A i \in DOMAIN models : scene.kind[models[i].node] = "Skinned" =>
                           IF scene.link \in {bones[b].node : b \in DOMAIN bones}
                           THEN /\ models[i].joint + 1 \in DOMAIN bones
                                /\ bones[models[i].joint + 1].node = scene.link
                           ELSE models[i].joint = NoParent /\ debugger
                      /\ \A i \in DOMAIN tracks : tracks[i] = bones[i].node
    BY DEF NamesFindBones
  <2>0. WellFormed(scene) /\ SkeletonPart(bones) /\ ModelsInv
    BY <1>1 DEF IInv, SceneInv, BonesInv
  <2>1. /\ DOMAIN bones = 1 .. Len(bones) /\ Len(bones) \in Nat
        /\ \A k \in DOMAIN bones : bones[k].node \in Nodes
    BY <2>0, BoneTypes DEF SkeletonPart
  <2>2. scene.link \in Nodes
    BY <2>0 DEF WellFormed, Nodes
  <2>3. ASSUME NEW i \in DOMAIN models, scene.kind[models[i].node] = "Skinned"
        PROVE  IF scene.link \in {bones[b].node : b \in DOMAIN bones}
               THEN /\ models[i].joint + 1 \in DOMAIN bones
                    /\ bones[models[i].joint + 1].node = scene.link
               ELSE models[i].joint = NoParent /\ debugger
    <3>1. models[i].joint = Joint(models[i].node) /\ ~GeometryStops(models[i].node)
      BY <2>0 DEF ModelsInv
    <3>2. \A k \in Joints : k \in DOMAIN bones /\ bones[k].node = scene.link
      BY <2>1, <2>2 DEF Joints, UniqueNames
    <3>3. scene.link \in {bones[b].node : b \in DOMAIN bones} => Joints # {}
      BY DEF Joints
    <3>4. CASE Joints # {}
      <4>1. Joints \subseteq Nat
        BY <2>1 DEF Joints
      <4>2. Least(Joints) \in Joints /\ Least(Joints) \in Nat
        BY <3>4, <4>1, LeastIsLeast
      <4>3. models[i].joint + 1 = Least(Joints)
        BY <2>3, <3>1, <3>4, <4>2 DEF Joint
      <4> QED
        BY <3>2, <4>2, <4>3
    <3>5. CASE Joints = {}
      BY <2>3, <3>1, <3>3, <3>5 DEF Joint, GeometryStops
    <3> QED
      BY <3>4, <3>5
  <2>4. ASSUME NEW i \in DOMAIN tracks PROVE tracks[i] = bones[i].node
    <3>1. /\ i \in DOMAIN bones /\ tracks[i] \in Nodes
          /\ scene.name[tracks[i]] = scene.name[bones[i].node]
      BY <1>1 DEF IInv, TracksInv
    <3> QED
      BY <2>1, <3>1 DEF UniqueNames
  <2> QED
    BY <2>3, <2>4
<1> QED
  BY Inductive, <1>1, PTL

-----------------------------------------------------------------------------
\* The geometries.  First what the maps of the vertices are while the corners are read.
Vertex ==
  [point : ControlPoints, attr : Int,
   bone : [Slots -> Nat \cup {NoBone}], weight : [Slots -> Nat]]

Size(i) == Len(mesh.polygons[i].corners)

\* The corners that are read, for every polygon.
CornersRead(i) ==
  IF stage # "Vertices" \/ i < cursor[1] THEN Size(i)
  ELSE IF i = cursor[1] THEN cursor[2] - 1 ELSE 0

CursorInv ==
  /\ cursor \in Nat \X Nat
  /\ stage \in {"Vertices", "Indices"} => cursor[1] \in 1 .. Len(mesh.polygons) + 1
  /\ stage = "Skin" => cursor[1] \in 1 .. Len(mesh.clusters) + 1
  /\ stage = "Vertices" /\ cursor[1] \in Polygons => cursor[2] \in 1 .. Size(cursor[1])
  /\ \A i \in Polygons : Len(corners[i]) = CornersRead(i)

\* The lists divide the vertices between them.
ListsInv ==
  /\ vertices \in Seq(Vertex)
  /\ idxMap \in [ControlPoints -> Seq(Nat)]
  /\ \A c \in ControlPoints : \A k \in DOMAIN idxMap[c] :
       idxMap[c][k] \in DOMAIN vertices /\ vertices[idxMap[c][k]].point = c
  /\ \A v \in DOMAIN vertices : ListedOnce(v, idxMap[vertices[v].point])

\* A pair the map of the corners may hold for a corner of the file.
Kept(pair, corner) ==
  /\ pair[1] = corner.point
  /\ pair[2] \in DOMAIN idxMap[corner.point]
  /\ Similar(vertices[idxMap[corner.point][pair[2]]].attr, corner.attr)

CornersInv ==
  /\ corners \in [Polygons -> Seq(ControlPoints \X Nat)]
  /\ \A i \in Polygons : \A j \in DOMAIN corners[i] :
       j \in 1 .. Size(i) /\ Kept(corners[i][j], mesh.polygons[i].corners[j])

Clusters == DOMAIN mesh.clusters

\* The clusters before n that fill a slot of a control point.
Fill(n, c, s) == {m \in Clusters : m < n /\ Rank(m, c) = s}

\* A vertex after the clusters before n.
Skinned(vertex, n) ==
  LET c == vertex.point
  IN  \A s \in Slots :
        /\ vertex.weight[s] = Total(Weights(c), Fill(n, c, s))
        /\ \A m \in Heavies(c) : m < n /\ Rank(m, c) = s =>
             vertex.bone[s] = mesh.clusters[m].joint
        /\ vertex.bone[s] # NoBone => \E m \in Heavies(c) : m < n /\ Rank(m, c) = s

SkinnedBefore(n) ==
  /\ boneCnt = [c \in ControlPoints |-> Rank(n, c)]
  /\ spilled = {v \in DOMAIN vertices :
                  \E m \in Clusters : /\ m < n /\ Listed(mesh.clusters[m], vertices[v].point)
                                      /\ Rank(m, vertices[v].point) >= BoneSlots}
  /\ \A v \in DOMAIN vertices : Skinned(vertices[v], n)
  /\ \A c \in ControlPoints : \A s \in 0 .. Rank(n, c) - 1 :
       \E m \in Heavies(c) : m < n /\ Rank(m, c) = s

Unskinned ==
  /\ boneCnt = [c \in ControlPoints |-> 0]
  /\ spilled = {}
  /\ \A v \in DOMAIN vertices : \A s \in Slots :
       vertices[v].weight[s] = 0 /\ vertices[v].bone[s] = NoBone

SkinInv ==
  /\ stage = "Vertices" => Unskinned
  /\ stage = "Skin" => mesh.skinned /\ SkinnedBefore(cursor[1])
  /\ stage \in {"Count", "Indices", "Done"} /\ mesh.skinned =>
       SkinnedBefore(Len(mesh.clusters) + 1) /\ ~\E c \in ControlPoints : Dropped(c)
  /\ stage = "Stopped" => \/ \E c \in ControlPoints : Dropped(c)
                          \/ \E n \in Clusters : mesh.clusters[n].joint = NoBone

\* The polygons before n of a material.
Earlier(n, g) == {j \in Polygons : j < n /\ Material(j) = g}

CountersInv ==
  /\ DOMAIN num = 0 .. SubGeomMax - 1
  /\ stage \in {"Vertices", "Skin", "Count"} => counter = [g \in DOMAIN num |-> 0] /\ ~overrun
  /\ stage \in {"Indices", "Done"} =>
       /\ num = [g \in 0 .. SubGeomMax - 1 |-> IndexNum(g)]
       /\ start = [g \in 0 .. SubGeomMax - 1 |-> StartIndex(g)]
  /\ stage = "Indices" =>
       counter = [g \in 0 .. SubGeomMax - 1 |-> 3 * Total(Triangles, Earlier(cursor[1], g))]

\* The fan of a polygon as it is written at a place of the buffer.
Written(i, base) ==
  \A t \in 0 .. Triangles[i] - 1 : \A k \in 0 .. 2 :
    index[base + 3 * t + k] = VertexOf(i, FanCorner(t, k))

IndexInv ==
  /\ \A p \in DOMAIN index : index[p] \in DOMAIN vertices \cup {NoVertex}
  /\ stage \in {"Vertices", "Skin", "Count"} => DOMAIN index = {}
  /\ stage \in {"Indices", "Done"} => DOMAIN index = 0 .. WholeIndexNum - 1
  /\ stage = "Indices" /\ ~HasStray =>
       ~overrun /\ \A i \in Polygons : i < cursor[1] => Written(i, FanStart(i))
  /\ stage = "Done" /\ ~HasStray =>
       ~overrun /\ \A i \in Polygons : Written(i, FanStart(i))

MeshInv ==
  /\ mesh \in Meshes
  /\ stage \in {"Vertices", "Skin", "Count", "Indices", "Done", "Stopped"}
  /\ CursorInv
  /\ ListsInv
  /\ CornersInv
  /\ SkinInv
  /\ CountersInv
  /\ IndexInv

-----------------------------------------------------------------------------
\* The things that Total counts are finitely many.
LEMMA PairsFinite ==
  ASSUME NEW S, IsFiniteSet(S), NEW f, \A x \in S : f[x] \in Nat
  PROVE  IsFiniteSet(UNION {{x} \X (1 .. f[x]) : x \in S})
<1> DEFINE pairs == [x \in S |-> {x} \X (1 .. f[x])]
           T == {pairs[x] : x \in S}
<1>1. pairs \in Surjection(S, T)
  BY DEF Surjection
<1>2. IsFiniteSet(T)
  BY <1>1, FS_Surjection
<1>3. ASSUME NEW x \in S PROVE IsFiniteSet(pairs[x])
  <2>1. IsFiniteSet(1 .. f[x])
    BY FS_Interval
  <2>2. IsFiniteSet({x})
    BY FS_Singleton
  <2> QED
    BY <2>1, <2>2, FS_Product
<1>4. IsFiniteSet(UNION T)
  BY <1>2, <1>3, FS_UNION, Zenon
<1>5. UNION T = UNION {{x} \X (1 .. f[x]) : x \in S}
  OBVIOUS
<1> QED
  BY <1>4, <1>5

LEMMA TotalType ==
  ASSUME NEW S, IsFiniteSet(S), NEW f, \A x \in S : f[x] \in Nat
  PROVE  Total(f, S) \in Nat
BY PairsFinite, FS_CardinalityType DEF Total

LEMMA TotalEmpty ==
  ASSUME NEW f
  PROVE  Total(f, {}) = 0
<1>1. UNION {{x} \X (1 .. f[x]) : x \in {}} = {}
  OBVIOUS
<1> QED
  BY <1>1, FS_EmptySet DEF Total

\* Totals over sets without a common element add up.
LEMMA TotalUnion ==
  ASSUME NEW S, IsFiniteSet(S), NEW T, IsFiniteSet(T), S \cap T = {},
         NEW f, \A x \in S \cup T : f[x] \in Nat
  PROVE  Total(f, S \cup T) = Total(f, S) + Total(f, T)
<1> DEFINE P == UNION {{x} \X (1 .. f[x]) : x \in S}
           Q == UNION {{x} \X (1 .. f[x]) : x \in T}
           R == UNION {{x} \X (1 .. f[x]) : x \in S \cup T}
<1>1. IsFiniteSet(P) /\ IsFiniteSet(Q)
  BY PairsFinite
<1>2. R = P \cup Q
  OBVIOUS
<1>3. P \cap Q = {}
  <2>1. \A p \in P : p[1] \in S
    OBVIOUS
  <2>2. \A p \in Q : p[1] \in T
    OBVIOUS
  <2> QED
    BY <2>1, <2>2
<1>4. Cardinality(P) \in Nat /\ Cardinality(Q) \in Nat
  BY <1>1, FS_CardinalityType
<1>5. Cardinality(P \cap Q) = 0
  BY <1>3, FS_EmptySet
<1>6. Cardinality(P \cup Q) = Cardinality(P) + Cardinality(Q) - Cardinality(P \cap Q)
  BY <1>1, FS_Union
<1> HIDE DEF P, Q, R
<1>7. Cardinality(R) = Cardinality(P) + Cardinality(Q)
  BY <1>2, <1>4, <1>5, <1>6
<1> QED
  BY <1>7 DEF Total, P, Q, R

LEMMA TotalOne ==
  ASSUME NEW x, NEW f, f[x] \in Nat
  PROVE  Total(f, {x}) = f[x]
<1>1. UNION {{y} \X (1 .. f[y]) : y \in {x}} = {x} \X (1 .. f[x])
  OBVIOUS
<1>2. IsFiniteSet({x}) /\ Cardinality({x}) = 1
  BY FS_Singleton
<1>3. IsFiniteSet(1 .. f[x]) /\ Cardinality(1 .. f[x]) = f[x]
  <2> DEFINE n == f[x]
  <2>1. 1 \in Int /\ n \in Int /\ n \in Nat
    OBVIOUS
  <2> HIDE DEF n
  <2>2. IsFiniteSet(1 .. n) /\ Cardinality(1 .. n) = IF 1 > n THEN 0 ELSE n - 1 + 1
    BY <2>1, FS_Interval
  <2>3. Cardinality(1 .. n) = n
    BY <2>1, <2>2
  <2> QED
    BY <2>2, <2>3 DEF n
<1>4. Cardinality({x} \X (1 .. f[x])) = 1 * f[x]
  <2> DEFINE R == 1 .. f[x]
             S == {x}
  <2>1. IsFiniteSet(S) /\ IsFiniteSet(R) /\ Cardinality(S) = 1 /\ Cardinality(R) = f[x]
    BY <1>2, <1>3
  <2> HIDE DEF R, S
  <2>2. Cardinality(S \X R) = Cardinality(S) * Cardinality(R)
    BY <2>1, FS_Product
  <2> QED
    BY <2>1, <2>2 DEF R, S
<1> QED
  BY <1>1, <1>4 DEF Total

LEMMA TotalAdd ==
  ASSUME NEW S, IsFiniteSet(S), NEW x, x \notin S,
         NEW f, \A y \in S \cup {x} : f[y] \in Nat
  PROVE  Total(f, S \cup {x}) = Total(f, S) + f[x]
<1>1. IsFiniteSet({x})
  BY FS_Singleton
<1>2. Total(f, {x}) = f[x]
  BY TotalOne
<1> QED
  BY <1>1, <1>2, TotalUnion

LEMMA TotalSubset ==
  ASSUME NEW S, IsFiniteSet(S), NEW T, T \subseteq S,
         NEW f, \A x \in S : f[x] \in Nat
  PROVE  Total(f, T) <= Total(f, S)
<1> DEFINE D == S \ T
<1>1. IsFiniteSet(T) /\ IsFiniteSet(D)
  BY FS_Subset, FS_Difference
<1>2. T \cap D = {} /\ T \cup D = S
  OBVIOUS
<1> HIDE DEF D
<1>3. Total(f, S) = Total(f, T) + Total(f, D)
  BY <1>1, <1>2, TotalUnion
<1>4. Total(f, T) \in Nat /\ Total(f, D) \in Nat
  BY <1>1, <1>2, TotalType
<1> QED
  BY <1>3, <1>4

\* The sum below a number is the sum below the next one without its last term.
LEMMA TotalNext ==
  ASSUME NEW s \in Nat, NEW f, \A y \in 0 .. s : f[y] \in Nat
  PROVE  Total(f, 0 .. s) = Total(f, 0 .. s - 1) + f[s]
<1> DEFINE Lower == 0 .. s - 1
           Up == 0 .. s
<1>1. Up = Lower \cup {s} /\ s \notin Lower
  OBVIOUS
<1>2. IsFiniteSet(Lower)
  BY FS_Interval
<1>3. \A y \in Lower \cup {s} : f[y] \in Nat
  BY <1>1
<1> HIDE DEF Lower, Up
<1>4. Total(f, Lower \cup {s}) = Total(f, Lower) + f[s]
  BY <1>1, <1>2, <1>3, TotalAdd
<1>5. Total(f, Up) = Total(f, Lower) + f[s]
  BY <1>1, <1>4
<1> QED
  BY <1>5 DEF Lower, Up

\* The elements of S whose rank is in R, and those of every rank in R.
InRanks(P, S, rank, R) == P = {x \in S : rank[x] \in R}
Parts(part, S, rank, R) == \A s \in R : part[s] = {x \in S : rank[x] = s}

\* The sum of sums: where f[s] is the sum of g over the elements of rank s, the sum of f
\* below b is the sum of g over the elements of a rank below b.
LEMMA TotalOfTotals ==
  ASSUME NEW S, IsFiniteSet(S), NEW g, \A x \in S : g[x] \in Nat,
         NEW rank, NEW b \in Nat, NEW Low, Low = 0 .. b - 1,
         NEW part, Parts(part, S, rank, Low),
         NEW f, \A s \in Low : f[s] = Total(g, part[s]),
         NEW whole, InRanks(whole, S, rank, Low)
  PROVE  Total(f, Low) = Total(g, whole)
<1>0. /\ \A s \in 0 .. b - 1 : f[s] = Total(g, {x \in S : rank[x] = s})
      /\ Low = 0 .. b - 1 /\ whole = {x \in S : rank[x] \in 0 .. b - 1}
  BY DEF InRanks, Parts
<1> USE <1>0
<1> DEFINE Part(a) == {x \in S : rank[x] \in 0 .. a - 1}
           Bad == {a \in 0 .. b : Total(f, 0 .. a - 1) # Total(g, Part(a))}
<1>1. ASSUME Bad # {} PROVE FALSE
  <2>1. Bad \subseteq Nat
    OBVIOUS
  <2>2. PICK a \in Bad : \A y \in Bad : a <= y
    BY <1>1, <2>1, LeastExists
  <2>3. a # 0
    <3>1. 0 .. 0 - 1 = {} /\ Part(0) = {}
      OBVIOUS
    <3>2. Total(f, {}) = 0 /\ Total(g, {}) = 0
      BY TotalEmpty
    <3> QED
      BY <2>2, <3>1, <3>2
  <2> DEFINE s == a - 1
             Ones == {x \in S : rank[x] = s}
  <2>4. s \in 0 .. b - 1 /\ a = s + 1 /\ s \notin Bad
    <3>1. a \in 0 .. b
      BY <2>2
    <3>2. s \in 0 .. b - 1 /\ a = s + 1 /\ ~(a <= s)
      BY <2>3, <3>1
    <3> HIDE DEF Bad, s
    <3> QED
      BY <2>2, <3>2
  <2>5. Total(f, 0 .. s - 1) = Total(g, Part(s))
    BY <2>4
  <2>7. Part(a) = Part(s) \cup Ones /\ Part(s) \cap Ones = {}
    BY <2>4
  <2>8. IsFiniteSet(Part(s)) /\ IsFiniteSet(Ones)
    BY FS_Subset
  <2>10. \A y \in 0 .. b - 1 : f[y] \in Nat
    <3> SUFFICES ASSUME NEW y \in 0 .. b - 1 PROVE f[y] \in Nat
      OBVIOUS
    <3>1. IsFiniteSet({x \in S : rank[x] = y})
      BY FS_Subset
    <3>2. Total(g, {x \in S : rank[x] = y}) \in Nat
      BY <3>1, TotalType
    <3> QED
      BY <3>2
  <2>11. s \in Nat /\ \A y \in 0 .. s : f[y] \in Nat
    BY <2>4, <2>10
  <2>12. \A x \in Part(s) \cup Ones : g[x] \in Nat
    OBVIOUS
  <2>13. f[s] = Total(g, Ones)
    BY <2>4
  <2>14. Total(f, 0 .. s) # Total(g, Part(a))
    BY <2>2, <2>4
  <2> HIDE DEF Ones, s, Part
  <2>15. Total(f, 0 .. s) = Total(f, 0 .. s - 1) + f[s]
    BY <2>11, TotalNext
  <2>16. Total(g, Part(s) \cup Ones) = Total(g, Part(s)) + Total(g, Ones)
    BY <2>7, <2>8, <2>12, TotalUnion
  <2> QED
    BY <2>5, <2>7, <2>13, <2>14, <2>15, <2>16
<1> HIDE DEF Bad
<1>2. b \notin Bad
  BY <1>1
<1>3. Total(f, 0 .. b - 1) = Total(g, Part(b))
  BY <1>2 DEF Bad
<1> QED
  BY <1>0, <1>3

-----------------------------------------------------------------------------
LEMMA MeshFacts ==
  ASSUME mesh \in Meshes
  PROVE  /\ Len(mesh.polygons) \in Nat
         /\ Polygons = 1 .. Len(mesh.polygons)
         /\ \A i \in Polygons :
              /\ Size(i) \in Nat /\ Size(i) >= 2
              /\ DOMAIN mesh.polygons[i].corners = 1 .. Size(i)
              /\ \A j \in 1 .. Size(i) :
                   /\ mesh.polygons[i].corners[j].point \in ControlPoints
                   /\ mesh.polygons[i].corners[j].attr \in Int
              /\ Material(i) \in 0 .. SubGeomMax - 1
              /\ Triangles[i] \in Nat /\ Triangles[i] = Size(i) - 2
         /\ mesh.subGeometryNum \in Nat
         /\ 0 \in SubGeometries
         /\ SubGeometries \subseteq 0 .. SubGeomMax - 1
<1> DEFINE Corner == [point : ControlPoints, attr : Int]
           Polygon == [corners : Seq(Corner), material : 0 .. SubGeomMax - 1]
<1>1. mesh.polygons \in Seq(Polygon)
  BY MeshesAssumption
<1>2. \A i \in DOMAIN mesh.polygons : Len(mesh.polygons[i].corners) >= 2
  BY MeshesAssumption
<1>3. mesh.subGeometryNum \in 1 .. SubGeomMax - 1 /\ SubGeomMax \in Nat
  BY MeshesAssumption, SizesAssumption
<1> HIDE DEF Polygon
<1>4. Len(mesh.polygons) \in Nat /\ DOMAIN mesh.polygons = 1 .. Len(mesh.polygons)
  BY <1>1
<1>5. ASSUME NEW i \in DOMAIN mesh.polygons
      PROVE  mesh.polygons[i] \in Polygon
  BY <1>1
<1>6. \A i \in DOMAIN mesh.polygons :
        mesh.polygons[i].corners \in Seq(Corner)
        /\ mesh.polygons[i].material \in 0 .. SubGeomMax - 1
  BY <1>5 DEF Polygon
<1>7. ASSUME NEW i \in Polygons
      PROVE  /\ Size(i) \in Nat /\ Size(i) >= 2
             /\ DOMAIN mesh.polygons[i].corners = 1 .. Size(i)
             /\ Material(i) \in 0 .. SubGeomMax - 1
             /\ Triangles[i] \in Nat /\ Triangles[i] = Size(i) - 2
  <2> HIDE DEF Corner
  <2>1. Size(i) \in Nat /\ DOMAIN mesh.polygons[i].corners = 1 .. Size(i)
    BY <1>6 DEF Size, Polygons
  <2>2. Size(i) >= 2
    BY <1>2 DEF Size, Polygons
  <2>3. Triangles[i] = Size(i) - 2
    BY DEF Triangles, Size
  <2>4. Material(i) \in 0 .. SubGeomMax - 1
    BY <1>3, <1>6 DEF Material, Polygons
  <2> QED
    BY <2>1, <2>2, <2>3, <2>4
<1>8. ASSUME NEW i \in Polygons, NEW j \in 1 .. Size(i)
      PROVE  /\ mesh.polygons[i].corners[j].point \in ControlPoints
             /\ mesh.polygons[i].corners[j].attr \in Int
  <2> DEFINE q == mesh.polygons[i].corners
  <2>1. q \in Seq(Corner) /\ j \in DOMAIN q
    BY <1>6, <1>7 DEF Polygons
  <2> HIDE DEF q, Corner
  <2>2. q[j] \in Corner
    BY <2>1
  <2> QED
    BY <2>2 DEF q, Corner
<1>9. 0 \in SubGeometries /\ SubGeometries \subseteq 0 .. SubGeomMax - 1
  BY <1>3 DEF SubGeometries
<1> QED
  BY <1>3, <1>4, <1>7, <1>8, <1>9 DEF Polygons

LEMMA ClusterFacts ==
  ASSUME mesh \in Meshes
  PROVE  /\ Len(mesh.clusters) \in Nat
         /\ Clusters = 1 .. Len(mesh.clusters)
         /\ \A n \in Clusters :
              /\ mesh.clusters[n].joint \in Nat \cup {NoBone}
              /\ \A c \in ControlPoints : mesh.clusters[n].weight[c] \in Nat
<1> DEFINE Cluster == [joint : Nat \cup {NoBone}, weight : [ControlPoints -> Nat]]
<1>1. mesh.clusters \in Seq(Cluster)
  BY MeshesAssumption
<1> HIDE DEF Cluster
<1>2. Len(mesh.clusters) \in Nat /\ Clusters = 1 .. Len(mesh.clusters)
  BY <1>1 DEF Clusters
<1>3. \A n \in Clusters : mesh.clusters[n] \in Cluster
  BY <1>1 DEF Clusters
<1> QED
  BY <1>2, <1>3 DEF Cluster

\* What depends on the mesh alone does not change with the rest.
LEMMA SameMesh ==
  ASSUME mesh' = mesh
  PROVE  /\ Polygons' = Polygons
         /\ Triangles' = Triangles
         /\ Clusters' = Clusters
         /\ SubGeometries' = SubGeometries
         /\ WholeIndexNum' = WholeIndexNum
         /\ HasStray' = HasStray
         /\ \A i : Size(i)' = Size(i) /\ Material(i)' = Material(i)
         /\ \A c : Heavies(c)' = Heavies(c) /\ Weights(c)' = Weights(c)
         /\ \A c : Dropped(c)' = Dropped(c)
         /\ \A n, c : Rank(n, c)' = Rank(n, c)
         /\ \A n, c, s : Fill(n, c, s)' = Fill(n, c, s)
         /\ \A n, g : Earlier(n, g)' = Earlier(n, g)
         /\ \A g : IndexNum(g)' = IndexNum(g) /\ StartIndex(g)' = StartIndex(g)
         /\ \A t, k : FanCorner(t, k)' = FanCorner(t, k)
<1>1. /\ Polygons' = Polygons /\ Clusters' = Clusters /\ SubGeometries' = SubGeometries
      /\ \A i : Size(i)' = Size(i) /\ Material(i)' = Material(i)
      /\ \A t, k : FanCorner(t, k)' = FanCorner(t, k)
  BY DEF Polygons, Clusters, SubGeometries, Size, Material, FanCorner
<1>2. Triangles' = Triangles
  BY <1>1 DEF Triangles
<1>3. /\ \A n, g : Earlier(n, g)' = Earlier(n, g)
      /\ \A g : IndexNum(g)' = IndexNum(g) /\ StartIndex(g)' = StartIndex(g)
      /\ WholeIndexNum' = WholeIndexNum
      /\ HasStray' = HasStray
  BY <1>1, <1>2 DEF Earlier, IndexNum, StartIndex, WholeIndexNum, HasStray
<1>4. \A c : Heavies(c)' = Heavies(c) /\ Weights(c)' = Weights(c)
  BY DEF Heavies, Weights
<1>5. \A n, c : Rank(n, c)' = Rank(n, c)
  BY <1>4 DEF Rank
<1>6. /\ \A n, c, s : Fill(n, c, s)' = Fill(n, c, s)
      /\ \A c : Dropped(c)' = Dropped(c)
  BY <1>1, <1>4, <1>5 DEF Fill, Dropped
<1> QED
  BY <1>1, <1>2, <1>3, <1>4, <1>5, <1>6

-----------------------------------------------------------------------------
\* Where no cluster has passed.
LEMMA NoCluster ==
  ASSUME mesh \in Meshes, NEW c, NEW s
  PROVE  Rank(1, c) = 0 /\ Total(Weights(c), Fill(1, c, s)) = 0
<1>1. \A m \in Clusters : ~(m < 1)
  BY ClusterFacts
<1>2. {o \in Heavies(c) : o < 1} = {} /\ Fill(1, c, s) = {}
  BY <1>1 DEF Heavies, Fill, Clusters
<1> QED
  BY <1>2, TotalEmpty, FS_EmptySet DEF Rank

LEMMA FreshSkin ==
  ASSUME mesh \in Meshes
  PROVE  SkinnedBefore(1) <=> Unskinned
<1>1. \A m \in Clusters : ~(m < 1)
  BY ClusterFacts
<1>2. \A c : \A m \in Heavies(c) : ~(m < 1)
  BY <1>1 DEF Heavies, Clusters
<1>3. [c \in ControlPoints |-> Rank(1, c)] = [c \in ControlPoints |-> 0]
  BY NoCluster
<1>4. {v \in DOMAIN vertices :
         \E m \in Clusters : /\ m < 1 /\ Listed(mesh.clusters[m], vertices[v].point)
                             /\ Rank(m, vertices[v].point) >= BoneSlots} = {}
  BY <1>1
<1>5. \A v \in DOMAIN vertices :
        Skinned(vertices[v], 1) <=>
          \A s \in Slots : vertices[v].weight[s] = 0 /\ vertices[v].bone[s] = NoBone
  BY <1>2, NoCluster DEF Skinned
<1>6. \A c \in ControlPoints : 0 .. Rank(1, c) - 1 = {}
  <2> SUFFICES ASSUME NEW c \in ControlPoints PROVE 0 .. Rank(1, c) - 1 = {}
    OBVIOUS
  <2>1. Rank(1, c) = 0
    BY NoCluster
  <2> QED
    BY <2>1
<1>7. \A c \in ControlPoints : \A s \in 0 .. Rank(1, c) - 1 :
        \E m \in Heavies(c) : m < 1 /\ Rank(m, c) = s
  BY <1>6, Zenon
<1> QED
  BY <1>3, <1>4, <1>5, <1>7, Zenon DEF SkinnedBefore, Unskinned

LEMMA SkinKept ==
  ASSUME UNCHANGED <<mesh, vertices, boneCnt, spilled>>
  PROVE  \A n : SkinnedBefore(n)' <=> SkinnedBefore(n)
<1>1. mesh' = mesh /\ vertices' = vertices /\ boneCnt' = boneCnt /\ spilled' = spilled
  OBVIOUS
<1>2. \A vertex, n : Skinned(vertex, n)' <=> Skinned(vertex, n)
  BY <1>1, SameMesh DEF Skinned
<1> SUFFICES ASSUME NEW n PROVE SkinnedBefore(n)' <=> SkinnedBefore(n)
  OBVIOUS
<1>3. [c \in ControlPoints |-> Rank(n, c)'] = [c \in ControlPoints |-> Rank(n, c)]
  BY <1>1, SameMesh
<1> DEFINE Beyond(v) ==
             \E m \in Clusters : /\ m < n /\ Listed(mesh.clusters[m], vertices[v].point)
                                 /\ Rank(m, vertices[v].point) >= BoneSlots
           Ranked(c) == \A s \in 0 .. Rank(n, c) - 1 : \E m \in Heavies(c) : m < n /\ Rank(m, c) = s
<1>4. \A v : Beyond(v)' <=> Beyond(v)
  BY <1>1, SameMesh DEF Listed
<1>5. \A c : Ranked(c)' <=> Ranked(c)
  BY <1>1, SameMesh
<1>6. \A v : Skinned(vertices[v], n)' <=> Skinned(vertices[v], n)
  BY <1>1, <1>2
<1>7. SkinnedBefore(n) <=>
        /\ boneCnt = [c \in ControlPoints |-> Rank(n, c)]
        /\ spilled = {v \in DOMAIN vertices : Beyond(v)}
        /\ \A v \in DOMAIN vertices : Skinned(vertices[v], n)
        /\ \A c \in ControlPoints : Ranked(c)
  BY Zenon DEF SkinnedBefore
<1>8. SkinnedBefore(n)' <=>
        /\ boneCnt' = [c \in ControlPoints |-> Rank(n, c)']
        /\ spilled' = {v \in DOMAIN vertices' : Beyond(v)'}
        /\ \A v \in DOMAIN vertices' : Skinned(vertices[v], n)'
        /\ \A c \in ControlPoints : Ranked(c)'
  BY Zenon DEF SkinnedBefore
<1> HIDE DEF Beyond, Ranked
<1>9. {v \in DOMAIN vertices : Beyond(v)'} = {v \in DOMAIN vertices : Beyond(v)}
  BY <1>4
<1> QED
  BY <1>1, <1>3, <1>5, <1>6, <1>7, <1>8, <1>9, Zenon

\* Nothing the index buffer says changes with the step.
LEMMA FansKept ==
  ASSUME UNCHANGED <<mesh, idxMap, corners, index, start>>
  PROVE  \A i : FanStart(i)' = FanStart(i) /\ \A b : Written(i, b)' <=> Written(i, b)
<1>1. \A i, j : VertexOf(i, j)' = VertexOf(i, j)
  BY DEF VertexOf
<1>2. \A i : FanStart(i)' = FanStart(i)
  BY SameMesh DEF FanStart
<1>3. \A i, b : Written(i, b)' <=> Written(i, b)
  BY <1>1, SameMesh DEF Written
<1> QED
  BY <1>2, <1>3

\* Vertices that change nothing but their bones.
LEMMA VerticesKept ==
  ASSUME mesh \in Meshes, ListsInv, CornersInv, UNCHANGED <<mesh, idxMap, corners>>,
         vertices' \in Seq(Vertex), DOMAIN vertices' = DOMAIN vertices,
         \A v \in DOMAIN vertices :
           vertices'[v].point = vertices[v].point /\ vertices'[v].attr = vertices[v].attr
  PROVE  ListsInv' /\ CornersInv'
<1>0. mesh' = mesh /\ idxMap' = idxMap /\ corners' = corners /\ Slots' = Slots
  BY DEF Slots
<1>1. Vertex' = Vertex
  BY <1>0 DEF Vertex
<1>2. ListsInv'
  <2>1. \A c \in ControlPoints : \A k \in DOMAIN idxMap[c] :
          idxMap[c][k] \in DOMAIN vertices' /\ vertices'[idxMap[c][k]].point = c
    BY DEF ListsInv
  <2>2. \A v \in DOMAIN vertices' : ListedOnce(v, idxMap[vertices'[v].point])
    BY DEF ListsInv
  <2>3. vertices' \in Seq(Vertex')
    BY <1>1
  <2>4. idxMap' \in [ControlPoints -> Seq(Nat)]
    BY <1>0 DEF ListsInv
  <2> QED
    BY <1>0, <2>1, <2>2, <2>3, <2>4 DEF ListsInv
<1>3. ASSUME NEW pair, NEW corner, corner.point \in ControlPoints, Kept(pair, corner)
      PROVE  Kept(pair, corner)'
  <2> DEFINE v == idxMap[corner.point][pair[2]]
  <2>1. v \in DOMAIN vertices
    BY <1>3 DEF Kept, ListsInv
  <2>2. vertices'[v].attr = vertices[v].attr
    BY <2>1
  <2> QED
    BY <1>0, <1>3, <2>2 DEF Kept, Similar
<1>4. CornersInv'
  <2> SUFFICES ASSUME NEW i \in Polygons, NEW j \in DOMAIN corners[i]
               PROVE  j \in 1 .. Size(i) /\ Kept(corners[i][j], mesh.polygons[i].corners[j])'
    BY <1>0, SameMesh DEF CornersInv
  <2>1. j \in 1 .. Size(i) /\ Kept(corners[i][j], mesh.polygons[i].corners[j])
    BY DEF CornersInv
  <2>2. mesh.polygons[i].corners[j].point \in ControlPoints
    BY <2>1, MeshFacts
  <2> QED
    BY <1>0, <1>3, <2>1, <2>2
<1> QED
  BY <1>2, <1>4

-----------------------------------------------------------------------------
LEMMA SharedFacts ==
  ASSUME ListsInv, NEW corner, corner.point \in ControlPoints, SharedWith(corner) # 0
  PROVE  /\ SharedWith(corner) \in Nat
         /\ Kept(<<corner.point, SharedWith(corner)>>, corner)
<1>1. DOMAIN idxMap[corner.point] \subseteq Nat
  BY DEF ListsInv
<1>2. SimilarIn(corner) # {} /\ SimilarIn(corner) \subseteq Nat
  BY <1>1 DEF SharedWith, SimilarIn
<1>3. SharedWith(corner) \in SimilarIn(corner)
  BY <1>2, LeastIsLeast DEF SharedWith
<1> QED
  BY <1>2, <1>3 DEF SimilarIn, Kept

LEMMA NewVertexListed ==
  ASSUME ListsInv, UNCHANGED mesh,
         NEW corner, corner.point \in ControlPoints, corner.attr \in Int,
         idxMap' = [idxMap EXCEPT ![corner.point] = Append(@, Len(vertices) + 1)],
         vertices' = Append(vertices, NewVertex(corner))
  PROVE  /\ ListsInv'
         /\ \A pair, other : other.point \in ControlPoints /\ Kept(pair, other) =>
              Kept(pair, other)'
         /\ \A k : k = Len(idxMap[corner.point]) + 1 => Kept(<<corner.point, k>>, corner)'
<1> DEFINE p == corner.point
           list == idxMap[p]
           w == Len(vertices) + 1
           new == NewVertex(corner)
<1>1. /\ vertices \in Seq(Vertex) /\ Len(vertices) \in Nat
      /\ DOMAIN vertices = 1 .. Len(vertices)
  BY DEF ListsInv
<1>2. list \in Seq(Nat) /\ Len(list) \in Nat /\ DOMAIN list = 1 .. Len(list)
  BY DEF ListsInv
<1>3. new \in Vertex /\ new.point = p /\ new.attr = corner.attr
  BY DEF NewVertex, Vertex
<1>4. Vertex' = Vertex
  BY DEF Vertex, Slots
<1> HIDE DEF new
<1>5. /\ vertices' \in Seq(Vertex)
      /\ DOMAIN vertices' = 1 .. w
      /\ \A v \in DOMAIN vertices : vertices'[v] = vertices[v]
      /\ vertices'[w] = new
  <2> HIDE DEF p, list
  <2> QED
    BY <1>1, <1>3 DEF new
<1>6. idxMap' \in [ControlPoints -> Seq(Nat)]
  BY <1>1 DEF ListsInv
<1>7. \A c \in ControlPoints : c # p => idxMap'[c] = idxMap[c]
  BY DEF ListsInv
<1>8. /\ idxMap'[p] = Append(list, w)
      /\ DOMAIN idxMap'[p] = 1 .. Len(list) + 1
      /\ \A k \in DOMAIN list : idxMap'[p][k] = list[k]
      /\ idxMap'[p][Len(list) + 1] = w
  <2>1. idxMap'[p] = Append(list, w)
    BY DEF ListsInv
  <2> HIDE DEF p, list
  <2> QED
    BY <1>1, <1>2, <2>1
<1>9. \A c \in ControlPoints : \A k \in DOMAIN idxMap[c] :
        idxMap[c][k] \in DOMAIN vertices /\ vertices[idxMap[c][k]].point = c
  BY DEF ListsInv
<1>10. \A k \in DOMAIN list : list[k] \in DOMAIN vertices /\ list[k] # w
  BY <1>1, <1>9
<1>11. p \in ControlPoints /\ w \notin DOMAIN vertices /\ DOMAIN vertices' = DOMAIN vertices \cup {w}
  BY <1>1, <1>5
<1>12. DOMAIN idxMap'[p] = DOMAIN list \cup {Len(list) + 1} /\ Len(list) + 1 \notin DOMAIN list
  BY <1>2, <1>8
<1>13. \A c \in ControlPoints : \A k \in DOMAIN idxMap[c] :
         k \in DOMAIN idxMap'[c] /\ idxMap'[c][k] = idxMap[c][k]
  BY <1>7, <1>8, <1>12
<1> HIDE DEF p, w
<1>14. \A c \in ControlPoints : \A k \in DOMAIN idxMap'[c] :
         idxMap'[c][k] \in DOMAIN vertices' /\ vertices'[idxMap'[c][k]].point = c
  <2> SUFFICES ASSUME NEW c \in ControlPoints, NEW k \in DOMAIN idxMap'[c]
               PROVE  idxMap'[c][k] \in DOMAIN vertices' /\ vertices'[idxMap'[c][k]].point = c
    OBVIOUS
  <2>1. CASE k \in DOMAIN idxMap[c]
    BY <1>5, <1>9, <1>11, <1>13, <2>1
  <2>2. CASE k \notin DOMAIN idxMap[c]
    <3>1. c = p /\ k = Len(list) + 1
      BY <1>7, <1>12, <2>2
    <3> QED
      BY <1>3, <1>5, <1>8, <1>11, <3>1
  <2> QED
    BY <2>1, <2>2
<1>15. \A v \in DOMAIN vertices' : ListedOnce(v, idxMap'[vertices'[v].point])
  <2>1. ListedOnce(w, idxMap'[p])
    <3>1. \A l \in DOMAIN idxMap'[p] : idxMap'[p][l] = w <=> l = Len(list) + 1
      BY <1>8, <1>10, <1>12
    <3> QED
      BY <1>12, <3>1 DEF ListedOnce
  <2>2. ASSUME NEW v \in DOMAIN vertices PROVE ListedOnce(v, idxMap'[vertices[v].point])
    <3> DEFINE c == vertices[v].point
    <3>1. c \in ControlPoints /\ ListedOnce(v, idxMap[c])
      <4>1. vertices[v] \in Vertex
        BY <1>1
      <4> QED
        BY <4>1 DEF ListsInv, Vertex
    <3> HIDE DEF c
    <3>2. CASE c # p
      BY <1>7, <3>1, <3>2 DEF c
    <3>3. CASE c = p
      <4>1. PICK k \in DOMAIN list : \A l \in DOMAIN list : list[l] = v <=> l = k
        BY <3>1, <3>3 DEF ListedOnce
      <4>2. v # w
        BY <1>11
      <4>3. k \in DOMAIN idxMap'[p] /\ k # Len(list) + 1
        BY <1>12
      <4>4. \A l \in DOMAIN idxMap'[p] : idxMap'[p][l] = v <=> l = k
        BY <1>8, <1>12, <4>1, <4>2, <4>3
      <4> QED
        BY <3>3, <4>3, <4>4 DEF ListedOnce, c
    <3> QED
      BY <3>2, <3>3
  <2> QED
    BY <1>3, <1>5, <1>11, <2>1, <2>2
<1>16. ListsInv'
  BY <1>4, <1>5, <1>6, <1>14, <1>15 DEF ListsInv
<1>17. ASSUME NEW pair, NEW other, other.point \in ControlPoints, Kept(pair, other)
       PROVE  Kept(pair, other)'
  <2> DEFINE v == idxMap[other.point][pair[2]]
  <2>1. v \in DOMAIN vertices
    BY <1>9, <1>17 DEF Kept
  <2>2. /\ pair[2] \in DOMAIN idxMap'[other.point]
        /\ idxMap'[other.point][pair[2]] = v
    BY <1>13, <1>17 DEF Kept
  <2>3. vertices'[v] = vertices[v]
    BY <1>5, <2>1
  <2> QED
    BY <1>17, <2>2, <2>3 DEF Kept, Similar
<1>18. ASSUME NEW k, k = Len(list) + 1
       PROVE  Kept(<<corner.point, k>>, corner)'
  <2>1. Similar(vertices'[w].attr, corner.attr)
    BY <1>3, <1>5 DEF Similar
  <2> QED
    BY <1>8, <1>12, <1>18, <2>1 DEF Kept, p, Similar
<1> QED
  BY <1>16, <1>17, <1>18 DEF p

LEMMA CornerAdded ==
  ASSUME mesh \in Meshes, CornersInv, UNCHANGED mesh,
         \A pair, corner : corner.point \in ControlPoints /\ Kept(pair, corner) =>
           Kept(pair, corner)',
         NEW i \in Polygons, NEW j \in 1 .. Size(i), Len(corners[i]) = j - 1,
         NEW pair \in ControlPoints \X Nat, Kept(pair, mesh.polygons[i].corners[j])',
         corners' = [corners EXCEPT ![i] = Append(@, pair)]
  PROVE  /\ CornersInv'
         /\ \A m \in Polygons : Len(corners'[m]) = IF m = i THEN j ELSE Len(corners[m])
<1>1. corners[i] \in Seq(ControlPoints \X Nat)
  BY DEF CornersInv
<1>2. /\ corners'[i] = Append(corners[i], pair)
      /\ corners' \in [Polygons -> Seq(ControlPoints \X Nat)]
      /\ \A m \in Polygons : m # i => corners'[m] = corners[m]
  BY DEF CornersInv
<1>3. DOMAIN corners[i] = 1 .. j - 1 /\ j \in Nat
  BY <1>1, MeshFacts
<1>4. /\ Len(corners'[i]) = j /\ DOMAIN corners'[i] = DOMAIN corners[i] \cup {j}
      /\ corners'[i][j] = pair
      /\ \A l \in DOMAIN corners[i] : corners'[i][l] = corners[i][l]
  <2> DEFINE q == corners[i]
  <2>1. q \in Seq(ControlPoints \X Nat) /\ Len(q) = j - 1 /\ DOMAIN q = 1 .. j - 1
    BY <1>1, <1>3
  <2> HIDE DEF q
  <2>2. /\ Len(Append(q, pair)) = j /\ DOMAIN Append(q, pair) = 1 .. j
        /\ Append(q, pair)[j] = pair
        /\ \A l \in 1 .. j - 1 : Append(q, pair)[l] = q[l]
    BY <1>3, <2>1
  <2> QED
    BY <1>2, <1>3, <2>1, <2>2 DEF q
<1>5. ASSUME NEW m \in Polygons, NEW l \in DOMAIN corners'[m]
      PROVE  l \in 1 .. Size(m) /\ Kept(corners[m][l], mesh.polygons[m].corners[l])'
  <2>1. CASE m = i /\ l = j
    BY <1>4, <2>1
  <2>2. CASE ~(m = i /\ l = j)
    <3>1. l \in DOMAIN corners[m] /\ corners'[m][l] = corners[m][l]
      BY <1>2, <1>4, <1>5, <2>2
    <3>2. l \in 1 .. Size(m) /\ Kept(corners[m][l], mesh.polygons[m].corners[l])
      BY <3>1 DEF CornersInv
    <3>3. mesh.polygons[m].corners[l].point \in ControlPoints
      BY <3>2, MeshFacts
    <3> QED
      BY <3>1, <3>2, <3>3
  <2> QED
    BY <2>1, <2>2
<1>6. CornersInv'
  BY <1>2, <1>5, SameMesh DEF CornersInv
<1> QED
  BY <1>2, <1>4, <1>6

LEMMA CornerCursor ==
  ASSUME MeshInv, ReadCorner,
         NEW i \in Polygons, i = cursor[1], NEW j \in 1 .. Size(i), j = cursor[2],
         \A m \in Polygons : Len(corners'[m]) = IF m = i THEN j ELSE Len(corners[m])
  PROVE  CursorInv'
<1>1. /\ mesh \in Meshes /\ stage = "Vertices" /\ stage' = stage /\ mesh' = mesh
      /\ cursor' = IF j < Size(i) THEN <<i, j + 1>> ELSE <<i + 1, 1>>
  BY DEF MeshInv, ReadCorner, Size
<1>2. i \in Nat /\ j \in Nat /\ Size(i) \in Nat
  BY <1>1, MeshFacts
<1>3. \A m \in Polygons : m \in Nat /\ Size(m) \in Nat /\ Size(m) >= 2
  BY <1>1, MeshFacts
<1>4. \A m \in Polygons : Len(corners[m]) = IF m < i THEN Size(m) ELSE IF m = i THEN j - 1 ELSE 0
  BY <1>1 DEF MeshInv, CursorInv, CornersRead
<1>5. \A m \in Polygons : Len(corners'[m]) = IF m < i THEN Size(m) ELSE IF m = i THEN j ELSE 0
  BY <1>2, <1>3, <1>4
<1>6. cursor' \in Nat \X Nat
  BY <1>1, <1>2
<1>7. cursor'[1] \in 1 .. Len(mesh.polygons) + 1
  BY <1>1, <1>2, MeshFacts
<1>8. cursor'[1] \in Polygons => cursor'[2] \in 1 .. Size(cursor'[1])
  BY <1>1, <1>2, <1>3
<1>9. \A m \in Polygons : Len(corners'[m]) = IF m < cursor'[1] THEN Size(m)
                                             ELSE IF m = cursor'[1] THEN cursor'[2] - 1 ELSE 0
  BY <1>1, <1>2, <1>3, <1>5
<1>10. Size(cursor[1])' = Size(cursor'[1])
  BY <1>1 DEF Size
<1>11. \A m \in Polygons : Len(corners'[m]) = CornersRead(m)'
  BY <1>1, <1>9, SameMesh DEF CornersRead
<1> QED
  BY <1>1, <1>6, <1>7, <1>8, <1>10, <1>11, SameMesh DEF CursorInv

LEMMA ReadCornerStep ==
  ASSUME MeshInv, ReadCorner
  PROVE  MeshInv'
<1>1. /\ mesh \in Meshes /\ stage = "Vertices" /\ cursor[1] \in Polygons
      /\ UNCHANGED <<mesh, stage, boneCnt, spilled, num, start, index, counter, overrun>>
      /\ CursorInv /\ ListsInv /\ CornersInv /\ Unskinned /\ CountersInv /\ IndexInv
  BY DEF MeshInv, ReadCorner, SkinInv, indexVars
<1>2. PICK i \in Polygons : i = cursor[1]
  BY <1>1
<1>20. PICK j \in 1 .. Size(i) : j = cursor[2] /\ Len(corners[i]) = j - 1
  <2>1. Len(corners[i]) = cursor[2] - 1 /\ cursor[2] \in 1 .. Size(i)
    <3>1. i \in Nat
      BY <1>1, MeshFacts
    <3>2. ~(i < i)
      BY <3>1
    <3> QED
      BY <1>1, <1>2, <3>2 DEF CursorInv, CornersRead
  <2> QED
    BY <2>1
<1>3. PICK corner : corner = mesh.polygons[i].corners[j]
  OBVIOUS
<1>4. corner.point \in ControlPoints /\ corner.attr \in Int
  BY <1>1, <1>3, MeshFacts
<1>5. PICK pair :
        /\ corners' = [corners EXCEPT ![i] = Append(@, pair)]
        /\ \/ /\ SharedWith(corner) # 0 /\ pair = <<corner.point, SharedWith(corner)>>
              /\ UNCHANGED <<vertices, idxMap>>
           \/ /\ pair = <<corner.point, Len(idxMap[corner.point]) + 1>>
              /\ idxMap' = [idxMap EXCEPT ![corner.point] = Append(@, Len(vertices) + 1)]
              /\ vertices' = Append(vertices, NewVertex(corner))
  BY <1>2, <1>20, <1>3 DEF ReadCorner
<1> DEFINE Extended == /\ ListsInv' /\ Unskinned' /\ pair \in ControlPoints \X Nat
                       /\ Kept(pair, corner)'
                       /\ DOMAIN index = {}
                       /\ \A r, other : other.point \in ControlPoints /\ Kept(r, other) =>
                            Kept(r, other)'
<1>6. DOMAIN index = {}
  BY <1>1 DEF IndexInv
<1>7. ASSUME SharedWith(corner) # 0 /\ pair = <<corner.point, SharedWith(corner)>>,
             UNCHANGED <<vertices, idxMap>>
      PROVE  Extended
  <2>1. pair \in ControlPoints \X Nat /\ Kept(pair, corner)
    BY <1>1, <1>4, <1>7, SharedFacts
  <2>2. \A r, other : Kept(r, other)' <=> Kept(r, other)
    BY <1>7 DEF Kept
  <2>3. ListsInv' /\ Unskinned'
    BY <1>1, <1>7 DEF ListsInv, Vertex, Slots, Unskinned
  <2> QED
    BY <1>6, <2>1, <2>2, <2>3, Zenon
<1>8. ASSUME pair = <<corner.point, Len(idxMap[corner.point]) + 1>>,
             idxMap' = [idxMap EXCEPT ![corner.point] = Append(@, Len(vertices) + 1)],
             vertices' = Append(vertices, NewVertex(corner))
      PROVE  Extended
  <2>1. /\ ListsInv'
        /\ \A r, other : other.point \in ControlPoints /\ Kept(r, other) => Kept(r, other)'
        /\ Kept(pair, corner)'
    BY <1>1, <1>4, <1>8, NewVertexListed
  <2>2. pair \in ControlPoints \X Nat
    BY <1>1, <1>4, <1>8 DEF ListsInv
  <2>3. Unskinned'
    <3>1. \A s \in Slots : NewVertex(corner).weight[s] = 0 /\ NewVertex(corner).bone[s] = NoBone
      BY DEF NewVertex
    <3>2. vertices \in Seq(Vertex) /\ Len(vertices) \in Nat
      BY <1>1 DEF ListsInv
    <3>3. \A v \in DOMAIN vertices' :
            \/ v \in DOMAIN vertices /\ vertices'[v] = vertices[v]
            \/ vertices'[v] = NewVertex(corner)
      BY <1>8, <3>2
    <3> QED
      BY <1>1, <3>1, <3>3 DEF Unskinned, Slots
  <2> QED
    BY <1>6, <2>1, <2>2, <2>3, Zenon
<1>9. Extended
  BY <1>5, <1>7, <1>8, Zenon
<1>10. CornersInv' /\ \A m \in Polygons : Len(corners'[m]) = IF m = i THEN j ELSE Len(corners[m])
  <2>1. mesh \in Meshes /\ CornersInv /\ UNCHANGED mesh
    BY <1>1, <1>5
  <2>2. \A r, other : other.point \in ControlPoints /\ Kept(r, other) => Kept(r, other)'
    BY <1>9
  <2>3. pair \in ControlPoints \X Nat /\ Kept(pair, mesh.polygons[i].corners[j])'
    BY <1>9, <1>3, <2>1
  <2>4. Len(corners[i]) = j - 1 /\ corners' = [corners EXCEPT ![i] = Append(@, pair)]
    BY <1>1, <1>2, <1>20, <1>3, <1>5
  <2> HIDE DEF Extended
  <2> QED
    BY <2>1, <2>2, <2>3, <2>4, CornerAdded
<1>11. CursorInv'
  BY <1>2, <1>20, <1>10, CornerCursor
<1>12. SkinInv'
  BY <1>1, <1>9 DEF SkinInv
<1>13. CountersInv' /\ IndexInv'
  BY <1>1, <1>6 DEF CountersInv, IndexInv
<1> QED
  BY <1>1, <1>9, <1>10, <1>11, <1>12, <1>13 DEF MeshInv

-----------------------------------------------------------------------------
\* Vertices, lists and corners that nothing changes.
LEMMA ListsKept ==
  ASSUME mesh \in Meshes, ListsInv, CornersInv, UNCHANGED <<mesh, vertices, idxMap, corners>>
  PROVE  ListsInv' /\ CornersInv'
<1>1. vertices \in Seq(Vertex)
  BY DEF ListsInv
<1> QED
  BY <1>1, VerticesKept

\* Once all corners are read the lists of corners are as long as the polygons.
LEMMA CornersStay ==
  ASSUME mesh \in Meshes, CursorInv, stage # "Vertices", stage' # "Vertices",
         UNCHANGED <<mesh, corners>>, cursor' \in Nat \X Nat,
         stage' = "Indices" => cursor'[1] \in 1 .. Len(mesh.polygons) + 1,
         stage' = "Skin" => cursor'[1] \in 1 .. Len(mesh.clusters) + 1
  PROVE  CursorInv'
<1>1. \A i \in Polygons : Len(corners[i]) = Size(i)
  BY DEF CursorInv, CornersRead
<1> QED
  BY <1>1, SameMesh DEF CursorInv, CornersRead

LEMMA EndVerticesStep ==
  ASSUME MeshInv, EndVertices
  PROVE  MeshInv'
<1>1. /\ mesh \in Meshes /\ stage = "Vertices" /\ cursor[1] \notin Polygons
      /\ stage' = IF mesh.skinned THEN "Skin" ELSE "Count"
      /\ cursor' = <<1, 1>>
      /\ UNCHANGED <<mesh, vertices, idxMap, corners, boneCnt, spilled, num, start, index,
                     counter, overrun>>
      /\ CursorInv /\ ListsInv /\ CornersInv /\ Unskinned /\ CountersInv /\ IndexInv
  BY DEF MeshInv, EndVertices, SkinInv, indexVars, vertexVars
<1>2. ListsInv' /\ CornersInv'
  BY <1>1, ListsKept
<1>3. \A i \in Polygons : i < cursor[1]
  <2>1. cursor[1] = Len(mesh.polygons) + 1 /\ Len(mesh.polygons) \in Nat
    BY <1>1, MeshFacts DEF CursorInv
  <2> QED
    BY <1>1, <2>1, MeshFacts
<1>4. \A i \in Polygons : Len(corners[i]) = Size(i)
  BY <1>1, <1>3 DEF CursorInv, CornersRead
<1>5. CursorInv'
  <2>1. 1 \in 1 .. Len(mesh.polygons) + 1 /\ 1 \in 1 .. Len(mesh.clusters) + 1
    BY <1>1, MeshFacts, ClusterFacts
  <2> QED
    BY <1>1, <1>4, <2>1, SameMesh DEF CursorInv, CornersRead
<1>6. SkinnedBefore(1)'
  BY <1>1, FreshSkin, SkinKept
<1>7. SkinInv'
  <2>1. stage' = "Skin" => mesh'.skinned /\ SkinnedBefore(cursor[1])'
    <3>1. cursor'[1] = 1
      BY <1>1
    <3>2. SkinnedBefore(cursor[1])'
      BY <1>1, <1>6, <3>1
    <3> QED
      BY <1>1, <3>2
  <2> QED
    BY <1>1, <2>1 DEF SkinInv
<1>8. CountersInv' /\ IndexInv'
  BY <1>1 DEF CountersInv, IndexInv
<1> QED
  BY <1>1, <1>2, <1>5, <1>7, <1>8 DEF MeshInv

LEMMA UnknownBoneStep ==
  ASSUME MeshInv, UnknownBone
  PROVE  MeshInv'
<1>1. /\ mesh \in Meshes /\ stage = "Skin" /\ stage' = "Stopped"
      /\ cursor[1] \in Clusters /\ mesh.clusters[cursor[1]].joint = NoBone
      /\ UNCHANGED <<mesh, cursor, vertices, idxMap, corners, boneCnt, spilled, num, start,
                     index, counter, overrun>>
      /\ CursorInv /\ ListsInv /\ CornersInv /\ CountersInv /\ IndexInv
  BY DEF MeshInv, UnknownBone, SkinInv, indexVars, vertexVars, Clusters
<1>2. ListsInv' /\ CornersInv'
  BY <1>1, ListsKept
<1>3. CursorInv'
  BY <1>1, CornersStay DEF CursorInv
<1>4. SkinInv'
  BY <1>1, SameMesh DEF SkinInv
<1>5. CountersInv' /\ IndexInv'
  BY <1>1 DEF CountersInv, IndexInv
<1> QED
  BY <1>1, <1>2, <1>3, <1>4, <1>5 DEF MeshInv

\* After the last cluster a control point has counted all its bones.
LEMMA AllBones ==
  ASSUME mesh \in Meshes, NEW c \in ControlPoints
  PROVE  Rank(Len(mesh.clusters) + 1, c) = Cardinality(Heavies(c))
<1>1. \A o \in Heavies(c) : o < Len(mesh.clusters) + 1
  BY ClusterFacts DEF Heavies, Clusters
<1>2. {o \in Heavies(c) : o < Len(mesh.clusters) + 1} = Heavies(c)
  BY <1>1
<1> QED
  BY <1>2 DEF Rank

LEMMA EndSkinStep ==
  ASSUME MeshInv, EndSkin
  PROVE  MeshInv'
<1>1. /\ mesh \in Meshes /\ stage = "Skin" /\ cursor[1] \notin Clusters
      /\ stage' = IF \E c \in ControlPoints : boneCnt[c] > BoneSlots THEN "Stopped" ELSE "Count"
      /\ UNCHANGED <<mesh, cursor, vertices, idxMap, corners, boneCnt, spilled, num, start,
                     index, counter, overrun>>
      /\ CursorInv /\ ListsInv /\ CornersInv /\ CountersInv /\ IndexInv
      /\ mesh.skinned /\ SkinnedBefore(cursor[1])
  BY DEF MeshInv, EndSkin, SkinInv, indexVars, vertexVars, Clusters
<1>2. ListsInv' /\ CornersInv'
  BY <1>1, ListsKept
<1>3. CursorInv'
  BY <1>1, CornersStay DEF CursorInv
<1>4. cursor[1] = Len(mesh.clusters) + 1
  BY <1>1, ClusterFacts DEF CursorInv
<1>5. \A c \in ControlPoints : boneCnt[c] > BoneSlots <=> Dropped(c)
  <2>1. \A c \in ControlPoints : boneCnt[c] = Cardinality(Heavies(c))
    BY <1>1, <1>4, AllBones DEF SkinnedBefore
  <2> QED
    BY <2>1 DEF Dropped
<1>6. SkinnedBefore(Len(mesh.clusters) + 1)'
  <2>1. \A n : SkinnedBefore(n)' <=> SkinnedBefore(n)
    BY <1>1, SkinKept
  <2>2. PICK n : n = Len(mesh.clusters) + 1
    OBVIOUS
  <2>3. SkinnedBefore(n)'
    BY <1>1, <1>4, <2>1, <2>2
  <2> QED
    BY <1>1, <2>2, <2>3
<1>7. SkinInv'
  BY <1>1, <1>5, <1>6, SameMesh DEF SkinInv
<1>8. CountersInv' /\ IndexInv'
  BY <1>1 DEF CountersInv, IndexInv
<1> QED
  BY <1>1, <1>2, <1>3, <1>7, <1>8 DEF MeshInv

-----------------------------------------------------------------------------
LEMMA TrianglesTotal ==
  ASSUME mesh \in Meshes, NEW S, S \subseteq Polygons
  PROVE  /\ IsFiniteSet(S)
         /\ \A x \in S : Triangles[x] \in Nat
         /\ Total(Triangles, S) \in Nat
<1>1. S \subseteq 0 .. Len(mesh.polygons) /\ Len(mesh.polygons) \in Nat
  BY MeshFacts
<1>2. IsFiniteSet(S)
  BY <1>1, FiniteBelow
<1>3. \A x \in S : Triangles[x] \in Nat
  BY MeshFacts
<1> QED
  BY <1>2, <1>3, TotalType

LEMMA EarlierGrows ==
  ASSUME mesh \in Meshes, NEW i \in Polygons, NEW g
  PROVE  Total(Triangles, Earlier(i + 1, g))
           = Total(Triangles, Earlier(i, g)) + IF g = Material(i) THEN Triangles[i] ELSE 0
<1>0. \A j \in Polygons : (j < i + 1 <=> j < i \/ j = i) /\ (j = i => ~(j < i))
  BY MeshFacts
<1>1. Earlier(i, g) \subseteq Polygons /\ i \notin Earlier(i, g)
  BY <1>0 DEF Earlier
<1>2. IsFiniteSet(Earlier(i, g)) /\ Total(Triangles, Earlier(i, g)) \in Nat
  BY <1>1, TrianglesTotal
<1>3. CASE g = Material(i)
  <2>1. Earlier(i + 1, g) = Earlier(i, g) \cup {i}
    BY <1>0, <1>3, Zenon DEF Earlier
  <2>2. \A j \in Earlier(i, g) \cup {i} : Triangles[j] \in Nat
    BY <1>1, MeshFacts
  <2>3. Total(Triangles, Earlier(i, g) \cup {i}) = Total(Triangles, Earlier(i, g)) + Triangles[i]
    <3> DEFINE E == Earlier(i, g)
               F == Triangles
    <3>1. IsFiniteSet(E) /\ i \notin E /\ \A j \in E \cup {i} : F[j] \in Nat
      BY <1>1, <1>2, <2>2
    <3> HIDE DEF E, F
    <3>2. Total(F, E \cup {i}) = Total(F, E) + F[i]
      BY <3>1, TotalAdd
    <3> QED
      BY <3>2 DEF E, F
  <2> QED
    BY <1>3, <2>1, <2>3
<1>4. CASE g # Material(i)
  <2>1. Earlier(i + 1, g) = Earlier(i, g)
    BY <1>0, <1>4, Zenon DEF Earlier
  <2> QED
    BY <1>2, <1>4, <2>1
<1> QED
  BY <1>3, <1>4

\* The polygons whose fans come first in the buffer.
Before(i) ==
  {j \in Polygons : Material(j) < Material(i) \/ (Material(j) = Material(i) /\ j < i)}

LEMMA FanStartsAt ==
  ASSUME mesh \in Meshes, start = [g \in 0 .. SubGeomMax - 1 |-> StartIndex(g)],
         NEW i \in Polygons, Material(i) \in SubGeometries
  PROVE  FanStart(i) = 3 * Total(Triangles, Before(i))
<1> DEFINE g == Material(i)
           Lower == {j \in Polygons : Material(j) < g}
           Same == {j \in Polygons : j < i /\ Material(j) = g}
<1>1. \A j \in Polygons : Material(j) \in Int
  BY MeshFacts
<1>2. start[g] = 3 * Total(Triangles, Lower)
  BY MeshFacts DEF StartIndex
<1>3. Before(i) = Lower \cup Same /\ Lower \cap Same = {}
  BY <1>1 DEF Before
<1>4. Lower \subseteq Polygons /\ Same \subseteq Polygons
  OBVIOUS
<1>5. FanStart(i) = start[g] + 3 * Total(Triangles, Same)
  BY DEF FanStart
<1> HIDE DEF Lower, Same, g
<1>6. /\ IsFiniteSet(Lower) /\ IsFiniteSet(Same)
      /\ \A x \in Lower \cup Same : Triangles[x] \in Nat
      /\ Total(Triangles, Lower) \in Nat /\ Total(Triangles, Same) \in Nat
  BY <1>4, TrianglesTotal
<1>7. Total(Triangles, Lower \cup Same) = Total(Triangles, Lower) + Total(Triangles, Same)
  BY <1>3, <1>6, TotalUnion
<1> QED
  BY <1>2, <1>3, <1>5, <1>6, <1>7

LEMMA FanFits ==
  ASSUME mesh \in Meshes, start = [g \in 0 .. SubGeomMax - 1 |-> StartIndex(g)],
         NEW i \in Polygons, Material(i) \in SubGeometries,
         NEW S, S \subseteq Polygons, Before(i) \subseteq S, i \in S
  PROVE  /\ FanStart(i) \in Nat
         /\ FanStart(i) + 3 * Triangles[i] <= 3 * Total(Triangles, S)
<1>1. Before(i) \subseteq Polygons /\ i \notin Before(i)
  BY MeshFacts DEF Before
<1>2. IsFiniteSet(Before(i)) /\ Total(Triangles, Before(i)) \in Nat
  BY <1>1, TrianglesTotal
<1>3. IsFiniteSet(S) /\ (\A x \in S : Triangles[x] \in Nat) /\ Total(Triangles, S) \in Nat
  BY TrianglesTotal
<1>4. Total(Triangles, Before(i) \cup {i}) = Total(Triangles, Before(i)) + Triangles[i]
  BY <1>1, <1>2, <1>3, TotalAdd
<1>5. Total(Triangles, Before(i) \cup {i}) <= Total(Triangles, S)
  BY <1>3, TotalSubset
<1>6. FanStart(i) = 3 * Total(Triangles, Before(i))
  BY FanStartsAt
<1> QED
  BY <1>2, <1>3, <1>4, <1>5, <1>6

\* A fan lies inside the buffer, and apart from every other.
LEMMA FansApart ==
  ASSUME mesh \in Meshes, start = [g \in 0 .. SubGeomMax - 1 |-> StartIndex(g)],
         NEW i \in Polygons, Material(i) \in SubGeometries
  PROVE  /\ FanStart(i) \in Nat
         /\ WholeIndexNum \in Nat
         /\ FanStart(i) + 3 * Triangles[i] <= WholeIndexNum
         /\ \A m \in Polygons : m # i /\ Material(m) \in SubGeometries =>
              \/ FanStart(i) + 3 * Triangles[i] <= FanStart(m)
              \/ FanStart(m) + 3 * Triangles[m] <= FanStart(i)
<1> DEFINE Whole == {j \in Polygons : Material(j) \in SubGeometries}
<1>1. Whole \subseteq Polygons /\ WholeIndexNum = 3 * Total(Triangles, Whole)
  BY DEF WholeIndexNum
<1>2. Before(i) \subseteq Whole /\ i \in Whole
  BY MeshFacts DEF Before, SubGeometries
<1>3. Total(Triangles, Whole) \in Nat
  BY <1>1, TrianglesTotal
<1> HIDE DEF Whole
<1>4. FanStart(i) \in Nat /\ FanStart(i) + 3 * Triangles[i] <= WholeIndexNum
  BY <1>1, <1>2, FanFits
<1>5. ASSUME NEW m \in Polygons, m # i, Material(m) \in SubGeometries
      PROVE  \/ FanStart(i) + 3 * Triangles[i] <= FanStart(m)
             \/ FanStart(m) + 3 * Triangles[m] <= FanStart(i)
  <2>1. /\ Material(i) \in Nat /\ Material(m) \in Nat /\ i \in Nat /\ m \in Nat
        /\ \A j \in Polygons : Material(j) \in Nat /\ j \in Nat
    BY MeshFacts
  <2>2. \/ Before(i) \subseteq Before(m) /\ i \in Before(m)
        \/ Before(m) \subseteq Before(i) /\ m \in Before(i)
    <3>1. ASSUME NEW a \in Polygons, NEW b \in Polygons,
                 Material(a) < Material(b) \/ (Material(a) = Material(b) /\ a < b)
          PROVE  Before(a) \subseteq Before(b) /\ a \in Before(b)
      <4>1. a \in Nat /\ b \in Nat /\ Material(a) \in Nat /\ Material(b) \in Nat
        BY <2>1
      <4>2. ASSUME NEW j \in Before(a) PROVE j \in Before(b)
        <5>1. j \in Polygons /\ j \in Nat /\ Material(j) \in Nat
          BY <2>1 DEF Before
        <5> QED
          BY <3>1, <4>1, <5>1 DEF Before
      <4> QED
        BY <3>1, <4>2 DEF Before
    <3>2. \/ Material(i) < Material(m) \/ (Material(i) = Material(m) /\ i < m)
          \/ Material(m) < Material(i) \/ (Material(m) = Material(i) /\ m < i)
      BY <1>5, <2>1
    <3> QED
      BY <3>1, <3>2, Zenon
  <2>3. Before(i) \subseteq Polygons /\ Before(m) \subseteq Polygons
    BY DEF Before
  <2>4. CASE Before(i) \subseteq Before(m) /\ i \in Before(m)
    BY <1>5, <2>3, <2>4, FanFits, FanStartsAt
  <2>5. CASE Before(m) \subseteq Before(i) /\ m \in Before(i)
    BY <1>5, <2>3, <2>5, FanFits, FanStartsAt
  <2> QED
    BY <2>2, <2>4, <2>5
<1> QED
  BY <1>1, <1>3, <1>4, <1>5

-----------------------------------------------------------------------------
\* The vertex the maps hold for a corner stands for it.
LEMMA VertexOfCorner ==
  ASSUME mesh \in Meshes, ListsInv, CornersInv,
         NEW i \in Polygons, Len(corners[i]) = Size(i), NEW j \in 0 .. Size(i) - 1
  PROVE  Represents(VertexOf(i, j), mesh.polygons[i].corners[j + 1])
<1> DEFINE pair == corners[i][j + 1]
           corner == mesh.polygons[i].corners[j + 1]
<1>1. j + 1 \in 1 .. Size(i)
  BY MeshFacts
<1>2. corners[i] \in Seq(ControlPoints \X Nat)
  BY DEF CornersInv
<1>3. j + 1 \in DOMAIN corners[i]
  BY <1>1, <1>2
<1>4. Kept(pair, corner)
  BY <1>3 DEF CornersInv
<1>5. corner.point \in ControlPoints
  BY <1>1, MeshFacts
<1> HIDE DEF pair, corner
<1>6. VertexOf(i, j) = idxMap[corner.point][pair[2]]
  BY <1>4 DEF VertexOf, Kept, pair
<1>7. pair[2] \in DOMAIN idxMap[corner.point]
  BY <1>4 DEF Kept
<1>8. VertexOf(i, j) \in DOMAIN vertices /\ vertices[VertexOf(i, j)].point = corner.point
  BY <1>5, <1>6, <1>7 DEF ListsInv
<1>9. Similar(vertices[VertexOf(i, j)].attr, corner.attr)
  BY <1>4, <1>6 DEF Kept
<1> QED
  BY <1>8, <1>9 DEF Represents, corner

LEMMA FanCornerRange ==
  ASSUME mesh \in Meshes, NEW i \in Polygons, NEW t \in 0 .. Triangles[i] - 1, NEW k \in 0 .. 2
  PROVE  FanCorner(t, k) \in 0 .. Size(i) - 1
<1>1. t \in Nat /\ t + 2 <= Size(i) - 1 /\ Size(i) \in Nat
  BY MeshFacts
<1>2. k = 0 \/ k = 1 \/ k = 2
  OBVIOUS
<1> QED
  BY <1>1, <1>2 DEF FanCorner

LEMMA CountIndicesStep ==
  ASSUME MeshInv, CountIndices
  PROVE  MeshInv'
<1>1. /\ mesh \in Meshes /\ stage = "Count" /\ stage' = "Indices"
      /\ num' = [g \in DOMAIN num |-> IndexNum(g)]
      /\ start' = [g \in DOMAIN num |-> StartIndex(g)]
      /\ index' = [p \in 0 .. WholeIndexNum - 1 |-> NoVertex]
      /\ cursor' = <<1, 1>>
      /\ UNCHANGED <<mesh, vertices, idxMap, corners, boneCnt, spilled, counter, overrun>>
      /\ CursorInv /\ ListsInv /\ CornersInv
  BY DEF MeshInv, CountIndices, vertexVars
<1>2. /\ DOMAIN num = 0 .. SubGeomMax - 1
      /\ counter = [g \in 0 .. SubGeomMax - 1 |-> 0] /\ ~overrun
  BY <1>1 DEF MeshInv, CountersInv
<1>3. ListsInv' /\ CornersInv'
  BY <1>1, ListsKept
<1>4. CursorInv'
  <2>1. 1 \in 1 .. Len(mesh.polygons) + 1
    BY <1>1, MeshFacts
  <2> QED
    BY <1>1, <2>1, CornersStay
<1>5. SkinInv'
  <2>1. PICK n : n = Len(mesh.clusters) + 1
    OBVIOUS
  <2>2. mesh.skinned => SkinnedBefore(n)' /\ ~\E c \in ControlPoints : Dropped(c)
    BY <1>1, <2>1, SkinKept DEF MeshInv, SkinInv
  <2>3. mesh.skinned => SkinnedBefore(Len(mesh.clusters) + 1)'
    BY <1>1, <2>1, <2>2
  <2> QED
    BY <1>1, <2>2, <2>3, SameMesh DEF SkinInv
<1>6. \A i \in Polygons : ~(i < 1)
  BY <1>1, MeshFacts
<1>7. CountersInv'
  <2>1. \A g : Total(Triangles, Earlier(1, g)) = 0
    <3>1. \A g : Earlier(1, g) = {}
      BY <1>6 DEF Earlier
    <3> QED
      BY <3>1, TotalEmpty
  <2>2. counter = [g \in 0 .. SubGeomMax - 1 |-> 3 * Total(Triangles, Earlier(1, g))]
    BY <1>2, <2>1
  <2>3. \A g : Earlier(cursor[1], g)' = Earlier(1, g)
    BY <1>1, SameMesh DEF Earlier
  <2>4. counter' = [g \in 0 .. SubGeomMax - 1 |-> 3 * Total(Triangles, Earlier(cursor[1], g))']
    BY <1>1, <2>2, <2>3, SameMesh
  <2>5. num' = [g \in 0 .. SubGeomMax - 1 |-> IndexNum(g)']
    BY <1>1, <1>2, SameMesh
  <2>6. start' = [g \in 0 .. SubGeomMax - 1 |-> StartIndex(g)']
    BY <1>1, <1>2, SameMesh
  <2> QED
    BY <1>1, <2>4, <2>5, <2>6 DEF CountersInv
<1>8. IndexInv'
  BY <1>1, <1>2, <1>6, SameMesh DEF IndexInv
<1> QED
  BY <1>1, <1>3, <1>4, <1>5, <1>7, <1>8 DEF MeshInv

-----------------------------------------------------------------------------
LEMMA TripleOf ==
  ASSUME NEW n \in Nat
  PROVE  /\ \A d \in 0 .. 3 * n - 1 : d \div 3 \in 0 .. n - 1 /\ d % 3 \in 0 .. 2
         /\ \A t \in 0 .. n - 1 : \A k \in 0 .. 2 :
              /\ 3 * t + k \in 0 .. 3 * n - 1
              /\ (3 * t + k) \div 3 = t /\ (3 * t + k) % 3 = k
OBVIOUS

\* What a step of the loop over the polygons changes.
LEMMA WriteFacts ==
  ASSUME MeshInv, WritePolygon, NEW i \in Polygons, i = cursor[1]
  PROVE  /\ mesh \in Meshes /\ stage = "Indices" /\ CursorInv /\ ListsInv /\ CornersInv
         /\ UNCHANGED <<mesh, stage, vertices, idxMap, corners, boneCnt, spilled, num, start>>
         /\ cursor' = <<i + 1, 1>>
         /\ num = [g \in 0 .. SubGeomMax - 1 |-> IndexNum(g)]
         /\ start = [g \in 0 .. SubGeomMax - 1 |-> StartIndex(g)]
         /\ counter' = [g \in 0 .. SubGeomMax - 1 |-> 3 * Total(Triangles, Earlier(i + 1, g))]
         /\ DOMAIN index' = DOMAIN index
         /\ \A p \in DOMAIN index :
              index'[p] = IF p \in FanStart(i) .. FanStart(i) + 3 * Triangles[i] - 1
                          THEN VertexOf(i, FanCorner((p - FanStart(i)) \div 3, (p - FanStart(i)) % 3))
                          ELSE index[p]
         /\ overrun' = (overrun \/ ~ FanStart(i) .. FanStart(i) + 3 * Triangles[i] - 1
                                       \subseteq DOMAIN index)
<1>1. /\ mesh \in Meshes /\ stage = "Indices" /\ CursorInv /\ ListsInv /\ CornersInv
      /\ UNCHANGED <<mesh, stage, vertices, idxMap, corners, boneCnt, spilled, num, start>>
      /\ cursor' = <<i + 1, 1>>
  BY DEF MeshInv, WritePolygon, vertexVars
<1>2. /\ num = [g \in 0 .. SubGeomMax - 1 |-> IndexNum(g)]
      /\ start = [g \in 0 .. SubGeomMax - 1 |-> StartIndex(g)]
      /\ counter = [g \in 0 .. SubGeomMax - 1 |-> 3 * Total(Triangles, Earlier(i, g))]
  BY <1>1 DEF MeshInv, CountersInv
<1>3. Material(i) \in 0 .. SubGeomMax - 1 /\ Triangles[i] \in Nat
  BY <1>1, MeshFacts
<1>4. start[Material(i)] + counter[Material(i)] = FanStart(i)
  <2>1. counter[Material(i)] = 3 * Total(Triangles, Earlier(i, Material(i)))
    BY <1>2, <1>3
  <2> QED
    BY <2>1 DEF FanStart, Earlier
<1>5. counter' = [counter EXCEPT ![Material(i)] = @ + 3 * Triangles[i]]
  BY DEF WritePolygon
<1>6. ASSUME NEW g \in 0 .. SubGeomMax - 1
      PROVE  counter'[g] = 3 * Total(Triangles, Earlier(i + 1, g))
  <2>1. Earlier(i, g) \subseteq Polygons
    BY DEF Earlier
  <2>2. Total(Triangles, Earlier(i, g)) \in Nat
    BY <1>1, <2>1, TrianglesTotal
  <2>3. Total(Triangles, Earlier(i + 1, g))
          = Total(Triangles, Earlier(i, g)) + IF g = Material(i) THEN Triangles[i] ELSE 0
    BY <1>1, EarlierGrows
  <2>4. counter[g] = 3 * Total(Triangles, Earlier(i, g))
    BY <1>2
  <2>5. counter'[g] = counter[g] + IF g = Material(i) THEN 3 * Triangles[i] ELSE 0
    BY <1>2, <1>3, <1>5, <2>2, <2>4
  <2> QED
    BY <1>3, <2>2, <2>3, <2>4, <2>5
<1>7. counter' = [g \in 0 .. SubGeomMax - 1 |-> 3 * Total(Triangles, Earlier(i + 1, g))]
  <2>1. counter' = [g \in 0 .. SubGeomMax - 1 |-> counter'[g]]
    BY <1>2, <1>5
  <2> QED
    BY <1>6, <2>1
<1>8. /\ index' = [p \in DOMAIN index |->
                     IF p \in FanStart(i) .. FanStart(i) + 3 * Triangles[i] - 1
                     THEN VertexOf(i, FanCorner((p - FanStart(i)) \div 3, (p - FanStart(i)) % 3))
                     ELSE index[p]]
      /\ overrun' = (overrun \/ ~ FanStart(i) .. FanStart(i) + 3 * Triangles[i] - 1
                                    \subseteq DOMAIN index)
  BY <1>4, Zenon DEF WritePolygon
<1> QED
  BY <1>1, <1>2, <1>7, <1>8

LEMMA RangeInside ==
  ASSUME NEW b \in Nat, NEW n \in Nat, NEW w \in Nat
  PROVE  /\ b + n <= w => b .. b + n - 1 \subseteq 0 .. w - 1
         /\ n = 0 => b .. b + n - 1 = {}
OBVIOUS

LEMMA FanStartType ==
  ASSUME mesh \in Meshes, start = [g \in 0 .. SubGeomMax - 1 |-> StartIndex(g)],
         NEW i \in Polygons
  PROVE  FanStart(i) \in Nat
<1>1. Earlier(i, Material(i)) \subseteq Polygons /\ Material(i) \in 0 .. SubGeomMax - 1
  BY MeshFacts DEF Earlier
<1>2. Total(Triangles, Earlier(i, Material(i))) \in Nat
  BY <1>1, TrianglesTotal
<1>3. start[Material(i)] \in Nat
  <2>1. {j \in Polygons : Material(j) < Material(i)} \subseteq Polygons
    OBVIOUS
  <2>2. Total(Triangles, {j \in Polygons : Material(j) < Material(i)}) \in Nat
    BY <2>1, TrianglesTotal
  <2> QED
    BY <1>1, <2>2 DEF StartIndex
<1> QED
  BY <1>2, <1>3 DEF FanStart, Earlier

LEMMA FansWritten ==
  ASSUME MeshInv, WritePolygon, NEW i \in Polygons, i = cursor[1], ~HasStray
  PROVE  ~overrun' /\ \A m \in Polygons : m < i + 1 => Written(m, FanStart(m))'
<1>1. /\ mesh \in Meshes /\ stage = "Indices"
      /\ UNCHANGED <<mesh, idxMap, corners, start>>
      /\ start = [g \in 0 .. SubGeomMax - 1 |-> StartIndex(g)]
      /\ DOMAIN index' = DOMAIN index
      /\ overrun' = (overrun \/ ~ FanStart(i) .. FanStart(i) + 3 * Triangles[i] - 1
                                    \subseteq DOMAIN index)
  BY WriteFacts
<1>2. /\ DOMAIN index = 0 .. WholeIndexNum - 1
      /\ ~overrun /\ \A m \in Polygons : m < i => Written(m, FanStart(m))
  BY <1>1 DEF MeshInv, IndexInv
<1>3. \A m \in Polygons : m \in Nat /\ Triangles[m] \in Nat
  BY <1>1, MeshFacts
<1>4. \A m \in Polygons : Triangles[m] > 0 => Material(m) \in SubGeometries
  BY DEF HasStray
<1>5. /\ \A m, b : FanStart(m)' = FanStart(m)
      /\ \A m, j : VertexOf(m, j)' = VertexOf(m, j)
  BY <1>1, SameMesh DEF FanStart, VertexOf
<1>6. ~overrun'
  <2> DEFINE b == FanStart(i)
             n == 3 * Triangles[i]
  <2>1. b \in Nat /\ n \in Nat
    BY <1>1, <1>3, FanStartType
  <2>2. overrun' = (overrun \/ ~ b .. b + n - 1 \subseteq DOMAIN index)
    BY <1>1
  <2>3. CASE Triangles[i] > 0
    <3>1. WholeIndexNum \in Nat /\ b + n <= WholeIndexNum
      BY <1>1, <1>4, <2>3, FansApart
    <3> HIDE DEF b, n
    <3> QED
      BY <1>2, <2>1, <2>2, <3>1, RangeInside
  <2>4. CASE Triangles[i] = 0
    <3>1. n = 0
      BY <2>4
    <3> HIDE DEF b, n
    <3>2. b .. b + n - 1 = {}
      BY <2>1, <3>1, RangeInside
    <3> QED
      BY <1>2, <2>2, <3>2
  <2> QED
    BY <1>3, <2>3, <2>4
<1>7. ASSUME NEW m \in Polygons, m < i + 1, NEW t \in 0 .. Triangles[m] - 1, NEW k \in 0 .. 2
      PROVE  index'[FanStart(m) + 3 * t + k] = VertexOf(m, FanCorner(t, k))
  <2> DEFINE p == FanStart(m) + 3 * t + k
             written == FanStart(i) .. FanStart(i) + 3 * Triangles[i] - 1
  <2>1. Triangles[m] > 0 /\ Material(m) \in SubGeometries
    BY <1>3, <1>4
  <2>2. /\ FanStart(m) \in Nat /\ WholeIndexNum \in Nat
        /\ FanStart(m) + 3 * Triangles[m] <= WholeIndexNum
        /\ \A l \in Polygons : l # m /\ Material(l) \in SubGeometries =>
             \/ FanStart(m) + 3 * Triangles[m] <= FanStart(l)
             \/ FanStart(l) + 3 * Triangles[l] <= FanStart(m)
    BY <1>1, <2>1, FansApart
  <2>3. /\ 3 * t + k \in 0 .. 3 * Triangles[m] - 1
        /\ (3 * t + k) \div 3 = t /\ (3 * t + k) % 3 = k
    BY <1>3, TripleOf
  <2>4. p \in FanStart(m) .. FanStart(m) + 3 * Triangles[m] - 1 /\ p - FanStart(m) = 3 * t + k
    BY <1>3, <2>2, <2>3
  <2>5. p \in DOMAIN index
    <3> HIDE DEF p
    <3>1. 3 * Triangles[m] \in Nat
      BY <1>3
    <3>2. FanStart(m) .. FanStart(m) + 3 * Triangles[m] - 1 \subseteq 0 .. WholeIndexNum - 1
      BY <2>2, <3>1, RangeInside
    <3> QED
      BY <1>2, <2>4, <3>2
  <2>6. index'[p] = IF p \in written
                    THEN VertexOf(i, FanCorner((p - FanStart(i)) \div 3, (p - FanStart(i)) % 3))
                    ELSE index[p]
    BY <2>5, WriteFacts
  <2>7. CASE m = i
    <3>1. p \in written /\ p - FanStart(i) = 3 * t + k
      BY <2>4, <2>7
    <3> HIDE DEF p
    <3> QED
      BY <2>3, <2>6, <2>7, <3>1 DEF p
  <2>8. CASE m # i
    <3>1. m < i
      BY <1>3, <1>7, <2>8
    <3>2. p \notin written
      <4>1. CASE Triangles[i] = 0
        <5>1. FanStart(i) \in Nat /\ 3 * Triangles[i] = 0
          BY <1>1, <4>1, FanStartType
        <5>2. written = {}
          BY <5>1, RangeInside
        <5> HIDE DEF written
        <5> QED
          BY <5>2
      <4>2. CASE Triangles[i] # 0
        <5>1. Material(i) \in SubGeometries
          BY <1>3, <1>4, <4>2
        <5>2. FanStart(i) \in Nat
          BY <1>1, <5>1, FansApart
        <5>3. \/ FanStart(m) + 3 * Triangles[m] <= FanStart(i)
              \/ FanStart(i) + 3 * Triangles[i] <= FanStart(m)
          BY <2>2, <2>8, <5>1
        <5> QED
          BY <1>3, <2>2, <2>4, <5>2, <5>3
      <4> QED
        BY <4>1, <4>2
    <3>3. index[p] = VertexOf(m, FanCorner(t, k))
      BY <1>2, <3>1 DEF Written
    <3> QED
      BY <2>6, <3>2, <3>3
  <2> QED
    BY <2>7, <2>8
<1>8. \A m \in Polygons : m < i + 1 => Written(m, FanStart(m))'
  BY <1>1, <1>5, <1>7, SameMesh DEF Written
<1> QED
  BY <1>6, <1>8

LEMMA WritePolygonStep ==
  ASSUME MeshInv, WritePolygon
  PROVE  MeshInv'
<1>1. PICK i \in Polygons : i = cursor[1]
  BY DEF WritePolygon
<1>2. /\ mesh \in Meshes /\ stage = "Indices" /\ CursorInv /\ ListsInv /\ CornersInv
      /\ UNCHANGED <<mesh, stage, vertices, idxMap, corners, boneCnt, spilled, num, start>>
      /\ cursor' = <<i + 1, 1>>
      /\ num = [g \in 0 .. SubGeomMax - 1 |-> IndexNum(g)]
      /\ start = [g \in 0 .. SubGeomMax - 1 |-> StartIndex(g)]
      /\ counter' = [g \in 0 .. SubGeomMax - 1 |-> 3 * Total(Triangles, Earlier(i + 1, g))]
      /\ DOMAIN index' = DOMAIN index
      /\ \A p \in DOMAIN index :
           index'[p] = IF p \in FanStart(i) .. FanStart(i) + 3 * Triangles[i] - 1
                       THEN VertexOf(i, FanCorner((p - FanStart(i)) \div 3, (p - FanStart(i)) % 3))
                       ELSE index[p]
  BY <1>1, WriteFacts
<1>3. ListsInv' /\ CornersInv'
  BY <1>2, ListsKept
<1>4. i \in Nat /\ i \in 1 .. Len(mesh.polygons) /\ Len(mesh.polygons) \in Nat
  BY <1>2, MeshFacts
<1>5. CursorInv'
  BY <1>2, <1>4, CornersStay
<1>6. SkinInv'
  <2>1. PICK n : n = Len(mesh.clusters) + 1
    OBVIOUS
  <2>2. mesh.skinned => SkinnedBefore(n)' /\ ~\E c \in ControlPoints : Dropped(c)
    BY <1>2, <2>1, SkinKept DEF MeshInv, SkinInv
  <2>3. mesh.skinned => SkinnedBefore(Len(mesh.clusters) + 1)'
    BY <1>2, <2>1, <2>2
  <2> QED
    BY <1>2, <2>2, <2>3, SameMesh DEF SkinInv
<1>7. CountersInv'
  <2>1. \A g : Earlier(cursor[1], g)' = Earlier(i + 1, g)
    BY <1>2, SameMesh DEF Earlier
  <2>2. counter' = [g \in 0 .. SubGeomMax - 1 |-> 3 * Total(Triangles, Earlier(cursor[1], g))']
    BY <1>2, <2>1, SameMesh
  <2>3. num' = [g \in 0 .. SubGeomMax - 1 |-> IndexNum(g)']
    BY <1>2, SameMesh
  <2>4. start' = [g \in 0 .. SubGeomMax - 1 |-> StartIndex(g)']
    BY <1>2, SameMesh
  <2>5. DOMAIN num' = 0 .. SubGeomMax - 1
    BY <1>2
  <2> QED
    BY <1>2, <2>2, <2>3, <2>4, <2>5 DEF CountersInv
<1>8. ASSUME NEW p \in DOMAIN index
      PROVE  index'[p] \in DOMAIN vertices \cup {NoVertex}
  <2> DEFINE b == FanStart(i)
             n == Triangles[i]
  <2>1. b \in Nat /\ n \in Nat
    BY <1>2, FanStartType, MeshFacts
  <2>2. CASE p \in b .. b + 3 * n - 1
    <3> DEFINE d == p - b
               j == FanCorner(d \div 3, d % 3)
    <3>1. d \in 0 .. 3 * n - 1
      <4> HIDE DEF b, n
      <4> QED
        BY <2>1, <2>2
    <3> HIDE DEF d, b
    <3>2. d \div 3 \in 0 .. n - 1 /\ d % 3 \in 0 .. 2
      BY <2>1, <3>1, TripleOf
    <3>3. j \in 0 .. Size(i) - 1
      BY <1>2, <3>2, FanCornerRange
    <3>4. Len(corners[i]) = Size(i)
      BY <1>2 DEF CursorInv, CornersRead
    <3>5. Represents(VertexOf(i, j), mesh.polygons[i].corners[j + 1])
      BY <1>2, <3>3, <3>4, VertexOfCorner
    <3>6. index'[p] = VertexOf(i, j)
      BY <1>2, <2>2 DEF b, d
    <3> QED
      BY <3>5, <3>6 DEF Represents
  <2>3. CASE p \notin b .. b + 3 * n - 1
    <3>1. index'[p] = index[p]
      BY <1>2, <2>3
    <3> QED
      BY <3>1 DEF MeshInv, IndexInv
  <2> QED
    BY <2>2, <2>3
<1>9. IndexInv'
  <2>1. \A p \in DOMAIN index' : index'[p] \in DOMAIN vertices' \cup {NoVertex}
    BY <1>2, <1>8
  <2>2. DOMAIN index' = 0 .. WholeIndexNum' - 1
    BY <1>2, SameMesh DEF MeshInv, IndexInv
  <2>3. ~HasStray' => ~overrun' /\ \A m \in Polygons' : m < cursor'[1] => Written(m, FanStart(m))'
    <3>1. cursor'[1] = i + 1
      BY <1>2
    <3> QED
      BY <1>1, <1>2, <3>1, FansWritten, SameMesh
  <2> QED
    BY <1>2, <2>1, <2>2, <2>3 DEF IndexInv
<1> QED
  BY <1>2, <1>3, <1>5, <1>6, <1>7, <1>9 DEF MeshInv

LEMMA EndIndicesStep ==
  ASSUME MeshInv, EndIndices
  PROVE  MeshInv'
<1>1. /\ mesh \in Meshes /\ stage = "Indices" /\ cursor[1] \notin Polygons
      /\ UNCHANGED <<mesh, cursor, vertices, idxMap, corners, boneCnt, spilled, num, start,
                     index, counter, overrun>>
      /\ stage' = IF \A g \in SubGeometries : num[g] = counter[g] THEN "Done" ELSE "Stopped"
      /\ CursorInv /\ ListsInv /\ CornersInv
  BY DEF MeshInv, EndIndices, vertexVars, indexVars
<1>2. /\ num = [g \in 0 .. SubGeomMax - 1 |-> IndexNum(g)]
      /\ start = [g \in 0 .. SubGeomMax - 1 |-> StartIndex(g)]
      /\ counter = [g \in 0 .. SubGeomMax - 1 |-> 3 * Total(Triangles, Earlier(cursor[1], g))]
  BY <1>1 DEF MeshInv, CountersInv
<1>3. \A i \in Polygons : i < cursor[1]
  <2>1. cursor[1] = Len(mesh.polygons) + 1 /\ Len(mesh.polygons) \in Nat
    BY <1>1, MeshFacts DEF CursorInv
  <2> QED
    BY <1>1, <2>1, MeshFacts
<1>4. \A g \in SubGeometries : num[g] = counter[g]
  <2>1. \A g : Earlier(cursor[1], g) = {i \in Polygons : Material(i) = g}
    BY <1>3, Zenon DEF Earlier
  <2> QED
    BY <1>1, <1>2, <2>1, MeshFacts DEF IndexNum
<1>5. stage' = "Done"
  BY <1>1, <1>4
<1>6. ListsInv' /\ CornersInv'
  BY <1>1, ListsKept
<1>7. CursorInv'
  BY <1>1, <1>5, CornersStay DEF CursorInv
<1>8. SkinInv'
  <2>1. PICK n : n = Len(mesh.clusters) + 1
    OBVIOUS
  <2>2. mesh.skinned => SkinnedBefore(n)' /\ ~\E c \in ControlPoints : Dropped(c)
    BY <1>1, <2>1, SkinKept DEF MeshInv, SkinInv
  <2>3. mesh.skinned => SkinnedBefore(Len(mesh.clusters) + 1)'
    BY <1>1, <2>1, <2>2
  <2> QED
    BY <1>1, <1>5, <2>2, <2>3, SameMesh DEF SkinInv
<1>9. CountersInv'
  <2>1. num' = [g \in 0 .. SubGeomMax - 1 |-> IndexNum(g)']
    BY <1>1, <1>2, SameMesh
  <2>2. start' = [g \in 0 .. SubGeomMax - 1 |-> StartIndex(g)']
    BY <1>1, <1>2, SameMesh
  <2>3. DOMAIN num' = 0 .. SubGeomMax - 1
    BY <1>1, <1>2
  <2> QED
    BY <1>5, <2>1, <2>2, <2>3 DEF CountersInv
<1>10. IndexInv'
  <2>1. \A i : FanStart(i)' = FanStart(i) /\ \A b : Written(i, b)' <=> Written(i, b)
    BY <1>1, FansKept
  <2>2. ~HasStray => ~overrun /\ \A i \in Polygons : Written(i, FanStart(i))
    BY <1>1, <1>3 DEF MeshInv, IndexInv
  <2>3. \A i : Written(i, FanStart(i))' <=> Written(i, FanStart(i))
    BY <1>1, <2>1, FansKept
  <2>4. ~HasStray' => ~overrun' /\ \A i \in Polygons' : Written(i, FanStart(i))'
    BY <1>1, <2>2, <2>3, SameMesh
  <2>5. DOMAIN index' = 0 .. WholeIndexNum' - 1
    BY <1>1, SameMesh DEF MeshInv, IndexInv
  <2>6. \A p \in DOMAIN index' : index'[p] \in DOMAIN vertices' \cup {NoVertex}
    BY <1>1 DEF MeshInv, IndexInv
  <2> QED
    BY <1>5, <2>4, <2>5, <2>6 DEF IndexInv
<1> QED
  BY <1>1, <1>5, <1>6, <1>7, <1>8, <1>9, <1>10 DEF MeshInv

-----------------------------------------------------------------------------
LEMMA RankType ==
  ASSUME mesh \in Meshes, NEW n, NEW c
  PROVE  /\ Rank(n, c) \in Nat
         /\ \A S : S \subseteq Heavies(c) => IsFiniteSet(S)
<1>1. ASSUME NEW S, S \subseteq Heavies(c) PROVE IsFiniteSet(S)
  <2>1. S \subseteq 0 .. Len(mesh.clusters) /\ Len(mesh.clusters) \in Nat
    BY <1>1, ClusterFacts DEF Heavies, Clusters
  <2> QED
    BY <2>1, FiniteBelow
<1>2. IsFiniteSet({o \in Heavies(c) : o < n})
  BY <1>1
<1> QED
  BY <1>1, <1>2, FS_CardinalityType DEF Rank

LEMMA RankGrows ==
  ASSUME mesh \in Meshes, NEW n \in Clusters, NEW c
  PROVE  Rank(n + 1, c) = Rank(n, c) + IF n \in Heavies(c) THEN 1 ELSE 0
<1> DEFINE S == {o \in Heavies(c) : o < n}
           T == {o \in Heavies(c) : o < n + 1}
<1>1. \A o \in Heavies(c) : (o < n + 1 <=> o < n \/ o = n) /\ (o = n => ~(o < n))
  BY ClusterFacts DEF Heavies, Clusters
<1>2. IsFiniteSet(S) /\ Rank(n, c) \in Nat /\ n \notin S
  <2>1. n \in Int
    BY ClusterFacts
  <2>2. n \notin S
    BY <2>1
  <2>3. S \subseteq Heavies(c)
    OBVIOUS
  <2> QED
    BY <2>2, <2>3, RankType
<1>3. CASE n \in Heavies(c)
  <2>1. T = S \cup {n}
    BY <1>1, <1>3, Zenon
  <2>2. Cardinality(S \cup {n}) = Cardinality(S) + 1
    BY <1>2, FS_AddElement
  <2> HIDE DEF S, T
  <2> QED
    BY <1>2, <1>3, <2>1, <2>2 DEF Rank, S, T
<1>4. CASE n \notin Heavies(c)
  <2>1. T = S
    BY <1>1, <1>4, Zenon
  <2> HIDE DEF S, T
  <2>2. Cardinality(T) = Cardinality(S)
    BY <2>1
  <2> QED
    BY <1>2, <1>4, <2>2 DEF Rank, S, T
<1> QED
  BY <1>3, <1>4

LEMMA RankOrder ==
  ASSUME mesh \in Meshes, NEW m \in Clusters, NEW n \in Nat, NEW c
  PROVE  /\ m <= n => Rank(m, c) <= Rank(n, c)
         /\ m \in Heavies(c) /\ m < n => Rank(m, c) + 1 <= Rank(n, c)
<1>1. m \in Nat /\ \A o \in Heavies(c) : o \in Nat
  BY ClusterFacts DEF Heavies, Clusters
<1>2. ASSUME NEW a \in Nat, NEW b \in Nat, a <= b PROVE Rank(a, c) <= Rank(b, c)
  <2>1. {o \in Heavies(c) : o < a} \subseteq {o \in Heavies(c) : o < b}
    BY <1>1, <1>2
  <2>2. IsFiniteSet({o \in Heavies(c) : o < b})
    BY RankType
  <2> QED
    BY <2>1, <2>2, FS_Subset DEF Rank
<1>3. ASSUME m \in Heavies(c), m < n PROVE Rank(m, c) + 1 <= Rank(n, c)
  <2>1. Rank(m + 1, c) = Rank(m, c) + 1
    BY <1>3, RankGrows
  <2>2. m + 1 \in Nat /\ m + 1 <= n
    BY <1>1, <1>3
  <2> QED
    BY <1>2, <2>1, <2>2
<1> QED
  BY <1>1, <1>2, <1>3

LEMMA FillGrows ==
  ASSUME mesh \in Meshes, NEW n \in Clusters, NEW c \in ControlPoints, NEW s
  PROVE  /\ Total(Weights(c), Fill(n, c, s)) \in Nat
         /\ Total(Weights(c), Fill(n + 1, c, s))
              = Total(Weights(c), Fill(n, c, s))
                  + IF Rank(n, c) = s THEN mesh.clusters[n].weight[c] ELSE 0
<1>1. \A m \in Clusters : (m < n + 1 <=> m < n \/ m = n) /\ (m = n => ~(m < n))
  BY ClusterFacts
<1>2. Fill(n, c, s) \subseteq 0 .. Len(mesh.clusters) /\ Len(mesh.clusters) \in Nat
  BY ClusterFacts DEF Fill
<1>3. IsFiniteSet(Fill(n, c, s))
  BY <1>2, FiniteBelow
<1>4. \A m \in Clusters : Weights(c)[m] \in Nat /\ Weights(c)[m] = mesh.clusters[m].weight[c]
  BY ClusterFacts DEF Weights, Clusters
<1>5. n \notin Fill(n, c, s)
  BY <1>1 DEF Fill
<1>6. Total(Weights(c), Fill(n, c, s)) \in Nat
  BY <1>3, <1>4, TotalType DEF Fill
<1>7. CASE Rank(n, c) = s
  <2>1. Fill(n + 1, c, s) = Fill(n, c, s) \cup {n}
    BY <1>1, <1>7, Zenon DEF Fill
  <2>2. \A m \in Fill(n, c, s) \cup {n} : Weights(c)[m] \in Nat
    BY <1>4 DEF Fill
  <2>3. Total(Weights(c), Fill(n, c, s) \cup {n})
          = Total(Weights(c), Fill(n, c, s)) + Weights(c)[n]
    BY <1>3, <1>5, <2>2, TotalAdd
  <2> QED
    BY <1>4, <1>6, <1>7, <2>1, <2>3
<1>8. CASE Rank(n, c) # s
  <2>1. Fill(n + 1, c, s) = Fill(n, c, s)
    BY <1>1, <1>8, Zenon DEF Fill
  <2> QED
    BY <1>6, <1>8, <2>1
<1> QED
  BY <1>7, <1>8

\* What a cluster writes to a vertex.
LEMMA InfluencedFacts ==
  ASSUME mesh \in Meshes, NEW vertex \in Vertex, NEW n \in Clusters,
         boneCnt = [c \in ControlPoints |-> Rank(n, c)]
  PROVE  LET cluster == mesh.clusters[n]
             c == vertex.point
             result == Influenced(vertex, cluster)
         IN  /\ result \in Vertex /\ result.point = c /\ result.attr = vertex.attr
             /\ \A s \in Slots :
                  /\ result.weight[s] = vertex.weight[s]
                                          + IF Rank(n, c) = s THEN cluster.weight[c] ELSE 0
                  /\ result.bone[s] = IF Rank(n, c) = s /\ n \in Heavies(c)
                                      THEN cluster.joint ELSE vertex.bone[s]
<1> DEFINE cluster == mesh.clusters[n]
           c == vertex.point
           slot == boneCnt[c]
           result == Influenced(vertex, cluster)
<1>1. /\ c \in ControlPoints /\ vertex.attr \in Int
      /\ vertex.bone \in [Slots -> Nat \cup {NoBone}] /\ vertex.weight \in [Slots -> Nat]
  BY DEF Vertex
<1>2. slot = Rank(n, c)
  BY <1>1
<1>3. TakesBone(cluster, c) <=> n \in Heavies(c)
  BY DEF TakesBone, Heavies, Clusters
<1>4. cluster.joint \in Nat \cup {NoBone} /\ cluster.weight[c] \in Nat
  BY <1>1, ClusterFacts
<1>5. \A s \in Slots : vertex.weight[s] + 0 = vertex.weight[s]
  BY <1>1
<1>6. CASE slot \notin Slots
  <2>1. result = vertex
    BY <1>6 DEF Influenced
  <2> HIDE DEF result, cluster
  <2> QED
    BY <1>2, <1>5, <1>6, <2>1 DEF result, cluster
<1>7. CASE slot \in Slots
  <2> DEFINE w == vertex.weight[slot] + cluster.weight[c]
             b == IF TakesBone(cluster, c) THEN cluster.joint ELSE vertex.bone[slot]
  <2>1. result = [vertex EXCEPT !.weight[slot] = w, !.bone[slot] = b]
    BY <1>7 DEF Influenced
  <2>2. w \in Nat /\ b \in Nat \cup {NoBone}
    BY <1>1, <1>4, <1>7
  <2> HIDE DEF w, b, slot, cluster, result
  <2>3. /\ result.weight = [vertex.weight EXCEPT ![slot] = w]
        /\ result.bone = [vertex.bone EXCEPT ![slot] = b]
        /\ result.point = c /\ result.attr = vertex.attr
    BY <2>1 DEF Vertex
  <2>4. result \in Vertex
    BY <1>1, <2>1, <2>2, <2>3 DEF Vertex
  <2>5. \A s \in Slots : /\ result.weight[s] = IF s = slot THEN w ELSE vertex.weight[s]
                         /\ result.bone[s] = IF s = slot THEN b ELSE vertex.bone[s]
    BY <1>1, <2>3
  <2>6. \A s \in Slots :
          /\ result.weight[s] = vertex.weight[s]
                                  + IF Rank(n, c) = s THEN cluster.weight[c] ELSE 0
          /\ result.bone[s] = IF Rank(n, c) = s /\ n \in Heavies(c)
                              THEN cluster.joint ELSE vertex.bone[s]
    BY <1>2, <1>3, <1>5, <2>5 DEF w, b
  <2> QED
    BY <2>3, <2>4, <2>6 DEF result, cluster
<1> QED
  BY <1>6, <1>7

LEMMA SkinnedGrows ==
  ASSUME mesh \in Meshes, NEW vertex \in Vertex, NEW n \in Clusters,
         boneCnt = [c \in ControlPoints |-> Rank(n, c)], Skinned(vertex, n)
  PROVE  Skinned(Influenced(vertex, mesh.clusters[n]), n + 1)
<1> DEFINE cluster == mesh.clusters[n]
           c == vertex.point
           result == Influenced(vertex, cluster)
<1>1. c \in ControlPoints /\ n \in Nat
  BY ClusterFacts DEF Vertex
<1>2. /\ result.point = c
      /\ \A s \in Slots :
           /\ result.weight[s] = vertex.weight[s]
                                   + IF Rank(n, c) = s THEN cluster.weight[c] ELSE 0
           /\ result.bone[s] = IF Rank(n, c) = s /\ n \in Heavies(c)
                               THEN cluster.joint ELSE vertex.bone[s]
  BY InfluencedFacts
<1> HIDE DEF result
<1>3. SUFFICES ASSUME NEW s \in Slots
               PROVE  /\ result.weight[s] = Total(Weights(c), Fill(n + 1, c, s))
                      /\ \A m \in Heavies(c) : m < n + 1 /\ Rank(m, c) = s =>
                           result.bone[s] = mesh.clusters[m].joint
                      /\ result.bone[s] # NoBone =>
                           \E m \in Heavies(c) : m < n + 1 /\ Rank(m, c) = s
  BY <1>2 DEF Skinned, result
<1>4. /\ vertex.weight[s] = Total(Weights(c), Fill(n, c, s))
      /\ \A m \in Heavies(c) : m < n /\ Rank(m, c) = s => vertex.bone[s] = mesh.clusters[m].joint
      /\ vertex.bone[s] # NoBone => \E m \in Heavies(c) : m < n /\ Rank(m, c) = s
  BY DEF Skinned
<1>5. result.weight[s] = Total(Weights(c), Fill(n + 1, c, s))
  BY <1>1, <1>2, <1>4, FillGrows
<1>6. \A m \in Heavies(c) : m \in Clusters /\ m \in Nat /\ (m < n + 1 <=> m < n \/ m = n)
  BY <1>1, ClusterFacts DEF Heavies, Clusters
<1>7. ASSUME NEW m \in Heavies(c), m < n + 1, Rank(m, c) = s
      PROVE  result.bone[s] = mesh.clusters[m].joint
  <2>1. CASE m = n
    BY <1>2, <1>7, <2>1
  <2>2. CASE m < n
    <3>1. Rank(m, c) + 1 <= Rank(n, c) /\ Rank(m, c) \in Nat /\ Rank(n, c) \in Nat
      BY <1>1, <1>6, <2>2, RankOrder, RankType
    <3>2. Rank(n, c) # s
      BY <1>7, <3>1
    <3> QED
      BY <1>2, <1>4, <1>7, <2>2, <3>2
  <2> QED
    BY <1>6, <1>7, <2>1, <2>2
<1>8. ASSUME result.bone[s] # NoBone
      PROVE  \E m \in Heavies(c) : m < n + 1 /\ Rank(m, c) = s
  <2>1. CASE Rank(n, c) = s /\ n \in Heavies(c)
    BY <1>6, <2>1
  <2>2. CASE ~(Rank(n, c) = s /\ n \in Heavies(c))
    BY <1>2, <1>4, <1>6, <1>8, <2>2
  <2> QED
    BY <2>1, <2>2
<1> QED
  BY <1>5, <1>7, <1>8

LEMMA SkinClusterStep ==
  ASSUME MeshInv, SkinCluster
  PROVE  MeshInv'
<1>1. /\ mesh \in Meshes /\ stage = "Skin" /\ cursor[1] \in Clusters
      /\ CursorInv /\ ListsInv /\ CornersInv /\ CountersInv /\ IndexInv
      /\ mesh.skinned /\ SkinnedBefore(cursor[1])
      /\ UNCHANGED <<mesh, stage, idxMap, corners, num, start, index, counter, overrun>>
      /\ cursor' = <<cursor[1] + 1, 1>>
  BY DEF MeshInv, SkinCluster, SkinInv, indexVars, Clusters
<1>2. PICK n \in Clusters : n = cursor[1]
  BY <1>1
<1> DEFINE cluster == mesh.clusters[n]
<1>3. /\ vertices' = [v \in DOMAIN vertices |-> Influenced(vertices[v], cluster)]
      /\ spilled' = spilled \cup
           {v \in DOMAIN vertices : /\ Listed(cluster, vertices[v].point)
                                    /\ boneCnt[vertices[v].point] \notin Slots}
      /\ boneCnt' = [c \in ControlPoints |->
                       boneCnt[c] + IF TakesBone(cluster, c) THEN 1 ELSE 0]
  BY <1>2 DEF SkinCluster
<1>4. /\ boneCnt = [c \in ControlPoints |-> Rank(n, c)]
      /\ spilled = {v \in DOMAIN vertices :
                      \E m \in Clusters : /\ m < n /\ Listed(mesh.clusters[m], vertices[v].point)
                                          /\ Rank(m, vertices[v].point) >= BoneSlots}
      /\ \A v \in DOMAIN vertices : Skinned(vertices[v], n)
      /\ \A c \in ControlPoints : \A s \in 0 .. Rank(n, c) - 1 :
           \E m \in Heavies(c) : m < n /\ Rank(m, c) = s
  BY <1>1, <1>2 DEF SkinnedBefore
<1>5. /\ n \in Nat /\ Len(mesh.clusters) \in Nat /\ n \in 1 .. Len(mesh.clusters)
      /\ \A m \in Clusters : m < n + 1 <=> m < n \/ m = n
  BY <1>1, ClusterFacts
<1>6. /\ vertices \in Seq(Vertex) /\ Len(vertices) \in Nat
      /\ DOMAIN vertices = 1 .. Len(vertices)
      /\ \A v \in DOMAIN vertices : vertices[v] \in Vertex
  BY <1>1 DEF ListsInv
<1>7. \A v \in DOMAIN vertices :
        /\ vertices'[v] \in Vertex
        /\ vertices'[v].point = vertices[v].point /\ vertices'[v].attr = vertices[v].attr
        /\ Skinned(vertices'[v], n + 1)
  BY <1>1, <1>3, <1>4, <1>6, InfluencedFacts, SkinnedGrows
<1>8. vertices' \in Seq(Vertex) /\ DOMAIN vertices' = DOMAIN vertices
  BY <1>3, <1>6, <1>7
<1>9. ListsInv' /\ CornersInv'
  BY <1>1, <1>7, <1>8, VerticesKept
<1>10. CursorInv'
  BY <1>1, <1>2, <1>5, CornersStay
<1>11. boneCnt' = [c \in ControlPoints |-> Rank(n + 1, c)]
  <2>1. ASSUME NEW c \in ControlPoints
        PROVE  boneCnt[c] + (IF TakesBone(cluster, c) THEN 1 ELSE 0) = Rank(n + 1, c)
    <3>1. TakesBone(cluster, c) <=> n \in Heavies(c)
      BY DEF TakesBone, Heavies, Clusters
    <3>2. Rank(n + 1, c) = Rank(n, c) + IF n \in Heavies(c) THEN 1 ELSE 0
      BY <1>1, RankGrows
    <3> QED
      BY <1>4, <3>1, <3>2
  <2> QED
    BY <1>3, <2>1
<1> DEFINE Beyond(v, k) ==
             \E m \in Clusters : /\ m < k /\ Listed(mesh.clusters[m], vertices[v].point)
                                 /\ Rank(m, vertices[v].point) >= BoneSlots
<1>12. spilled' = {v \in DOMAIN vertices : Beyond(v, n + 1)}
  <2>1. ASSUME NEW v \in DOMAIN vertices
        PROVE  boneCnt[vertices[v].point] \notin Slots <=> Rank(n, vertices[v].point) >= BoneSlots
    <3>1. vertices[v].point \in ControlPoints
      BY <1>6 DEF Vertex
    <3>2. boneCnt[vertices[v].point] = Rank(n, vertices[v].point)
          /\ Rank(n, vertices[v].point) \in Nat
      BY <1>1, <1>4, <3>1, RankType
    <3> QED
      BY <3>2, SizesAssumption DEF Slots
  <2>2. \A v \in DOMAIN vertices :
          Beyond(v, n + 1) <=> \/ Beyond(v, n)
                               \/ /\ Listed(cluster, vertices[v].point)
                                  /\ Rank(n, vertices[v].point) >= BoneSlots
    BY <1>5, Zenon
  <2>3. spilled = {v \in DOMAIN vertices : Beyond(v, n)}
    BY <1>4, Zenon
  <2>4. spilled' = spilled \cup
          {v \in DOMAIN vertices : /\ Listed(cluster, vertices[v].point)
                                   /\ boneCnt[vertices[v].point] \notin Slots}
    BY <1>3
  <2> HIDE DEF Beyond, cluster
  <2> QED
    BY <2>1, <2>2, <2>3, <2>4, Zenon
<1>13. ASSUME NEW c \in ControlPoints, NEW s \in 0 .. Rank(n + 1, c) - 1
       PROVE  \E m \in Heavies(c) : m < n + 1 /\ Rank(m, c) = s
  <2>1. /\ Rank(n + 1, c) = Rank(n, c) + IF n \in Heavies(c) THEN 1 ELSE 0
        /\ Rank(n, c) \in Nat
    BY <1>1, RankGrows, RankType
  <2>2. Heavies(c) \subseteq Clusters
    BY DEF Heavies, Clusters
  <2>3. CASE s \in 0 .. Rank(n, c) - 1
    BY <1>4, <1>5, <2>2, <2>3
  <2>4. CASE s \notin 0 .. Rank(n, c) - 1
    <3>1. n \in Heavies(c) /\ s = Rank(n, c)
      BY <2>1, <2>4
    <3> QED
      BY <1>5, <3>1
  <2> QED
    BY <2>3, <2>4
<1>14. PICK k : k = n + 1
  OBVIOUS
<1>15. SkinnedBefore(k)'
  <2>1. boneCnt' = [c \in ControlPoints |-> Rank(k, c)']
    BY <1>1, <1>11, <1>14, SameMesh
  <2>2. \A v \in DOMAIN vertices' : Skinned(vertices[v], k)'
    <3>1. \A vertex : Skinned(vertex, k)' <=> Skinned(vertex, k)
      BY <1>1, SameMesh DEF Skinned, Slots
    <3> QED
      BY <1>7, <1>8, <1>14, <3>1
  <2>3. \A c \in ControlPoints : \A s \in 0 .. Rank(k, c)' - 1 :
          \E m \in Heavies(c)' : m < k /\ Rank(m, c)' = s
    BY <1>1, <1>13, <1>14, SameMesh
  <2>4. \A v \in DOMAIN vertices : Beyond(v, k)' <=> Beyond(v, k)
    BY <1>1, <1>7, SameMesh DEF Listed
  <2>5. spilled' = {v \in DOMAIN vertices' : Beyond(v, k)'}
    <3> HIDE DEF Beyond
    <3> QED
      BY <1>8, <1>12, <1>14, <2>4
  <2> QED
    BY <2>1, <2>2, <2>3, <2>5, Zenon DEF SkinnedBefore
<1>16. SkinInv'
  <2>1. SkinnedBefore(cursor[1])'
    BY <1>1, <1>2, <1>14, <1>15
  <2> QED
    BY <1>1, <2>1 DEF SkinInv
<1>17. CountersInv' /\ IndexInv'
  BY <1>1, <1>8 DEF CountersInv, IndexInv
<1> QED
  BY <1>1, <1>9, <1>10, <1>16, <1>17 DEF MeshInv

LEMMA MeshInitInv == MeshInit => MeshInv
<1> SUFFICES ASSUME MeshInit PROVE MeshInv
  OBVIOUS
<1>1. /\ mesh \in Meshes /\ stage = "Vertices" /\ cursor = <<1, 1>> /\ vertices = <<>>
      /\ idxMap = [c \in ControlPoints |-> <<>>] /\ corners = [i \in Polygons |-> <<>>]
      /\ boneCnt = [c \in ControlPoints |-> 0] /\ spilled = {} /\ ~overrun
      /\ num = [g \in 0 .. SubGeomMax - 1 |-> 0] /\ counter = num
      /\ index = [p \in {} |-> NoVertex]
  BY DEF MeshInit
<1>2. CursorInv
  <2>1. \A i \in Polygons : i \in Nat /\ ~(i < 1) /\ Size(i) \in Nat /\ Size(i) >= 2
    BY <1>1, MeshFacts
  <2>2. \A i \in Polygons : Len(corners[i]) = CornersRead(i)
    BY <1>1, <2>1 DEF CornersRead
  <2>3. 1 \in 1 .. Len(mesh.polygons) + 1
    BY <1>1, MeshFacts
  <2> QED
    BY <1>1, <2>1, <2>2, <2>3 DEF CursorInv
<1>3. ListsInv
  BY <1>1 DEF ListsInv
<1>4. CornersInv
  BY <1>1 DEF CornersInv
<1>5. SkinInv
  BY <1>1 DEF SkinInv, Unskinned
<1>6. CountersInv /\ IndexInv
  BY <1>1 DEF CountersInv, IndexInv
<1> QED
  BY <1>1, <1>2, <1>3, <1>4, <1>5, <1>6 DEF MeshInv

\* Every step of GenerateGeometryFromFbxMesh and of its skinned twin keeps the invariant.
THEOREM MeshInductive == MeshSpec => []MeshInv
<1>1. MeshInit => MeshInv
  BY MeshInitInv
<1>2. MeshInv /\ [MeshNext]_meshVars => MeshInv'
  <2> SUFFICES ASSUME MeshInv, [MeshNext]_meshVars PROVE MeshInv'
    OBVIOUS
  <2>1. CASE ReadCorner
    BY <2>1, ReadCornerStep
  <2>2. CASE EndVertices
    BY <2>2, EndVerticesStep
  <2>3. CASE SkinCluster
    BY <2>3, SkinClusterStep
  <2>4. CASE UnknownBone
    BY <2>4, UnknownBoneStep
  <2>5. CASE EndSkin
    BY <2>5, EndSkinStep
  <2>6. CASE CountIndices
    BY <2>6, CountIndicesStep
  <2>7. CASE WritePolygon
    BY <2>7, WritePolygonStep
  <2>8. CASE EndIndices
    BY <2>8, EndIndicesStep
  <2>9. CASE UNCHANGED meshVars
    <3>1. UNCHANGED <<mesh, stage, cursor, vertices, idxMap, corners, boneCnt, num, start, index,
                      counter, spilled, overrun>>
      BY <2>9 DEF meshVars
    <3>2. mesh \in Meshes /\ ListsInv /\ CornersInv
      BY DEF MeshInv
    <3>3. ListsInv' /\ CornersInv'
      BY <3>1, <3>2, ListsKept
    <3>4. CursorInv' /\ CountersInv'
      BY <3>1, SameMesh DEF MeshInv, CursorInv, CornersRead, CountersInv
    <3>5. SkinInv'
      <4>1. \A n : SkinnedBefore(n)' <=> SkinnedBefore(n)
        BY <3>1, SkinKept
      <4>2. PICK k, l : k = cursor[1] /\ l = Len(mesh.clusters) + 1
        OBVIOUS
      <4>3. SkinnedBefore(cursor[1])' <=> SkinnedBefore(cursor[1])
        BY <3>1, <4>1, <4>2
      <4>4. SkinnedBefore(Len(mesh.clusters) + 1)' <=> SkinnedBefore(Len(mesh.clusters) + 1)
        BY <3>1, <4>1, <4>2
      <4>5. Unskinned' <=> Unskinned
        BY <3>1 DEF Unskinned, Slots
      <4> QED
        BY <3>1, <4>3, <4>4, <4>5, SameMesh DEF MeshInv, SkinInv
    <3>6. IndexInv'
      <4>1. \A i : Written(i, FanStart(i))' <=> Written(i, FanStart(i))
        BY <3>1, FansKept
      <4> QED
        BY <3>1, <4>1, SameMesh DEF MeshInv, IndexInv
    <3> QED
      BY <3>1, <3>2, <3>3, <3>4, <3>5, <3>6 DEF MeshInv
  <2> QED
    BY <2>1, <2>2, <2>3, <2>4, <2>5, <2>6, <2>7, <2>8, <2>9 DEF MeshNext
<1> QED
  BY <1>1, <1>2, PTL DEF MeshSpec

\* Every control point lists its own vertices, each once, and every corner read so far is
\* an element of such a list, whatever polygons the file holds.
THEOREM MeshTypeCorrect == MeshSpec => []MeshTypeOK
<1>1. MeshInv => MeshTypeOK
  <2> SUFFICES ASSUME MeshInv PROVE MeshTypeOK
    OBVIOUS
  <2>1. corners \in [Polygons -> Seq(ControlPoints \X Nat)]
    BY DEF MeshInv, CornersInv
  <2>2. \A i \in Polygons : \A j \in DOMAIN corners[i] :
          /\ corners[i][j][1] = mesh.polygons[i].corners[j].point
          /\ corners[i][j][2] \in DOMAIN idxMap[corners[i][j][1]]
    BY DEF MeshInv, CornersInv, Kept
  <2> QED
    BY <2>2 DEF MeshTypeOK, MeshInv, ListsInv, IndexInv
<1> QED
  BY <1>1, MeshInductive, PTL

LEMMA TotalNothing ==
  ASSUME mesh \in Meshes, NEW S, S \subseteq Polygons, \A i \in S : Triangles[i] = 0
  PROVE  Total(Triangles, S) = 0
<1>1. \A i \in S : 1 .. Triangles[i] = {}
  OBVIOUS
<1>2. UNION {{i} \X (1 .. Triangles[i]) : i \in S} = {}
  BY <1>1
<1> QED
  BY <1>2, FS_EmptySet DEF Total

\* The sum over two sets of polygons without a common element.
LEMMA TrianglesUnion ==
  ASSUME mesh \in Meshes, NEW S, NEW T, S \subseteq Polygons, T \subseteq Polygons,
         S \cap T = {}
  PROVE  Total(Triangles, S \cup T) = Total(Triangles, S) + Total(Triangles, T)
<1>1. /\ IsFiniteSet(S) /\ IsFiniteSet(T)
      /\ \A i \in S \cup T : Triangles[i] \in Nat
  BY TrianglesTotal
<1> QED
  BY <1>1, TotalUnion

LEMMA WholeBuffer ==
  ASSUME mesh \in Meshes, ~HasStray
  PROVE  WholeIndexNum = 3 * Total(Triangles, Polygons)
<1> DEFINE S == {i \in Polygons : Material(i) \in SubGeometries}
           T == {i \in Polygons : Material(i) \notin SubGeometries}
<1>1. S \cup T = Polygons /\ S \cap T = {} /\ S \subseteq Polygons /\ T \subseteq Polygons
  OBVIOUS
<1>2. \A i \in T : Triangles[i] = 0
  BY MeshFacts DEF HasStray
<1>3. WholeIndexNum = 3 * Total(Triangles, S)
  BY DEF WholeIndexNum
<1> HIDE DEF S, T
<1>4. Total(Triangles, S) \in Nat
  BY <1>1, TrianglesTotal
<1>5. Total(Triangles, T) = 0
  BY <1>1, <1>2, TotalNothing
<1>6. Total(Triangles, S \cup T) = Total(Triangles, S) + Total(Triangles, T)
  BY <1>1, TrianglesUnion
<1>7. Total(Triangles, S \cup T) = Total(Triangles, Polygons)
  BY <1>1, Zenon
<1> QED
  BY <1>3, <1>4, <1>5, <1>6, <1>7

LEMMA RangesAdjoin ==
  ASSUME mesh \in Meshes, ~HasStray, NEW g \in SubGeometries,
         num = [h \in 0 .. SubGeomMax - 1 |-> IndexNum(h)],
         start = [h \in 0 .. SubGeomMax - 1 |-> StartIndex(h)]
  PROVE  start[g] + num[g] = IF g + 1 \in SubGeometries THEN start[g + 1]
                             ELSE 3 * Total(Triangles, Polygons)
<1> DEFINE S == {i \in Polygons : Material(i) < g}
           T == {i \in Polygons : Material(i) = g}
           U == {i \in Polygons : Material(i) < g + 1}
           W == {i \in Polygons : Material(i) \in SubGeometries}
<1>1. g \in 0 .. SubGeomMax - 1 /\ g \in Nat /\ \A i \in Polygons : Material(i) \in Nat
  BY MeshFacts DEF SubGeometries
<1>2. S \cap T = {} /\ S \cup T = U /\ S \subseteq Polygons /\ T \subseteq Polygons
  BY <1>1
<1>3. start[g] = 3 * Total(Triangles, S) /\ num[g] = 3 * Total(Triangles, T)
  BY <1>1 DEF StartIndex, IndexNum
<1>4. g + 1 \in SubGeometries => start[g + 1] = 3 * Total(Triangles, U)
  <2>1. SubGeometries \subseteq 0 .. SubGeomMax - 1
    BY MeshFacts
  <2> QED
    BY <1>1, <2>1 DEF StartIndex
<1>5. g + 1 \notin SubGeometries => U = W
  BY <1>1, MeshFacts DEF SubGeometries
<1>6. 3 * Total(Triangles, W) = 3 * Total(Triangles, Polygons)
  BY WholeBuffer DEF WholeIndexNum
<1> HIDE DEF S, T, U, W
<1>7. Total(Triangles, U) = Total(Triangles, S) + Total(Triangles, T)
  BY <1>2, TrianglesUnion
<1>8. Total(Triangles, S) \in Nat /\ Total(Triangles, T) \in Nat
  BY <1>2, TrianglesTotal
<1> QED
  BY <1>3, <1>4, <1>5, <1>6, <1>7, <1>8

\* The buffer of indices holds the fans of all polygons, range by range, however many
\* polygons and materials there are.
THEOREM TrianglesIndexed == MeshSpec => []IndicesFaithful
<1>1. MeshInv => IndicesFaithful
  <2> SUFFICES ASSUME MeshInv, stage = "Done", ~HasStray
               PROVE  /\ ~overrun
                      /\ DOMAIN index = 0 .. 3 * Total(Triangles, Polygons) - 1
                      /\ start[0] = 0
                      /\ \A g \in SubGeometries :
                           start[g] + num[g] = IF g + 1 \in SubGeometries THEN start[g + 1]
                                               ELSE 3 * Total(Triangles, Polygons)
                      /\ \E turned \in BOOLEAN :
                           \A i \in Polygons : \A t \in 1 .. Triangles[i] : \A k \in 0 .. 2 :
                             Represents(index[FanStart(i) + 3 * (t - 1) + k],
                                        Fan(i)[t][IF turned THEN 3 - k ELSE k + 1])
    BY Zenon DEF IndicesFaithful
  <2>1. /\ mesh \in Meshes /\ ListsInv /\ CornersInv
        /\ num = [g \in 0 .. SubGeomMax - 1 |-> IndexNum(g)]
        /\ start = [g \in 0 .. SubGeomMax - 1 |-> StartIndex(g)]
        /\ ~overrun /\ DOMAIN index = 0 .. WholeIndexNum - 1
        /\ \A i \in Polygons : Written(i, FanStart(i))
    BY DEF MeshInv, CountersInv, IndexInv
  <2>2. start[0] = 0
    <3>1. \A i \in Polygons : ~(Material(i) < 0)
      BY <2>1, MeshFacts
    <3>2. {i \in Polygons : Material(i) < 0} = {}
      BY <3>1
    <3>3. 0 \in SubGeometries /\ 0 \in 0 .. SubGeomMax - 1
      BY <2>1, MeshFacts
    <3>4. Total(Triangles, {i \in Polygons : Material(i) < 0}) = 0
      BY <3>2, TotalEmpty, Zenon
    <3>5. StartIndex(0) = 3 * Total(Triangles, {i \in Polygons : Material(i) < 0})
      BY <3>3, Zenon DEF StartIndex
    <3> QED
      BY <2>1, <3>3, <3>4, <3>5
  <2>3. WholeIndexNum = 3 * Total(Triangles, Polygons)
    BY <2>1, WholeBuffer
  <2>4. ASSUME NEW i \in Polygons, NEW t \in 1 .. Triangles[i], NEW k \in 0 .. 2
        PROVE  Represents(index[FanStart(i) + 3 * (t - 1) + k],
                          Fan(i)[t][IF ~mesh.byPolygon THEN 3 - k ELSE k + 1])
    <3> DEFINE d == t - 1
               j == FanCorner(d, k)
    <3>1. Triangles[i] \in Nat /\ d \in 0 .. Triangles[i] - 1 /\ d + 1 = t
      BY <2>1, MeshFacts
    <3> HIDE DEF d
    <3>2. index[FanStart(i) + 3 * d + k] = VertexOf(i, j)
      BY <2>1, <3>1 DEF Written
    <3>3. j \in 0 .. Size(i) - 1
      BY <2>1, <3>1, FanCornerRange
    <3>4. Len(corners[i]) = Size(i)
      BY DEF MeshInv, CursorInv, CornersRead
    <3>5. Represents(VertexOf(i, j), mesh.polygons[i].corners[j + 1])
      BY <2>1, <3>3, <3>4, VertexOfCorner
    <3>6. mesh.polygons[i].corners[j + 1]
            = Fan(i)[t][IF ~mesh.byPolygon THEN 3 - k ELSE k + 1]
      <4> DEFINE c == mesh.polygons[i].corners
      <4>1. Fan(i)[t] = <<c[1], c[t + 1], c[t + 2]>>
        BY DEF Fan
      <4>2. k = 0 \/ k = 1 \/ k = 2
        OBVIOUS
      <4>3. j + 1 = IF mesh.byPolygon THEN (IF k = 0 THEN 1 ELSE t + k)
                                      ELSE (IF k = 2 THEN 1 ELSE t + 2 - k)
        BY <3>1, <4>2 DEF FanCorner
      <4> HIDE DEF c, j
      <4>4. c[j + 1] = <<c[1], c[t + 1], c[t + 2]>>[IF ~mesh.byPolygon THEN 3 - k ELSE k + 1]
        <5>1. CASE mesh.byPolygon
          BY <4>2, <4>3, <5>1
        <5>2. CASE ~mesh.byPolygon
          BY <4>2, <4>3, <5>2
        <5> QED
          BY <5>1, <5>2
      <4> QED
        BY <4>1, <4>4 DEF c
    <3> QED
      BY <3>2, <3>5, <3>6 DEF d
  <2>5. mesh.byPolygon \in BOOLEAN
    BY <2>1, MeshesAssumption
  <2>6. \E turned \in BOOLEAN :
          \A i \in Polygons : \A t \in 1 .. Triangles[i] : \A k \in 0 .. 2 :
            Represents(index[FanStart(i) + 3 * (t - 1) + k],
                       Fan(i)[t][IF turned THEN 3 - k ELSE k + 1])
    <3>1. (~mesh.byPolygon) \in BOOLEAN
      OBVIOUS
    <3> WITNESS (~mesh.byPolygon) \in BOOLEAN
    <3> QED
      BY <2>4
  <2> QED
    BY <2>1, <2>2, <2>3, <2>6, RangesAdjoin
<1> QED
  BY <1>1, MeshInductive, PTL

-----------------------------------------------------------------------------
\* The slots of the bones that are used come first.
LEMMA UsedSlots ==
  ASSUME NEW bone
  PROVE  \E b \in Nat : /\ b <= BoneSlots
                        /\ {s \in Slots : \A o \in 0 .. s : bone[o] # NoBone} = 0 .. b - 1
<1> DEFINE U == {s \in Slots : \A o \in 0 .. s : bone[o] # NoBone}
           R == Slots \ U
<1>1. BoneSlots \in Nat /\ Slots = 0 .. BoneSlots - 1
  BY SizesAssumption DEF Slots
<1>2. CASE R = {}
  <2>1. U = 0 .. BoneSlots - 1
    BY <1>1, <1>2
  <2> QED
    BY <1>1, <2>1
<1>3. CASE R # {}
  <2>1. R \subseteq Nat
    BY <1>1
  <2>2. PICK b \in R : \A y \in R : b <= y
    BY <1>3, <2>1, LeastExists
  <2>3. b \in Nat /\ b < BoneSlots /\ b \in Slots /\ b \notin U
    BY <1>1, <2>2
  <2>4. \A s \in 0 .. b - 1 : s \in U
    <3> SUFFICES ASSUME NEW s \in 0 .. b - 1 PROVE s \in U
      OBVIOUS
    <3>1. s \in Slots /\ ~(b <= s)
      BY <1>1, <2>3
    <3> QED
      BY <2>2, <3>1
  <2>5. PICK o \in 0 .. b : bone[o] = NoBone
    BY <2>3
  <2>6. \A s \in U : s \in 0 .. b - 1
    <3> SUFFICES ASSUME NEW s \in U PROVE s \in 0 .. b - 1
      OBVIOUS
    <3>1. s \in Nat /\ o \notin 0 .. s
      BY <1>1, <2>5
    <3> QED
      BY <2>3, <3>1
  <2>7. U = 0 .. b - 1
    BY <2>4, <2>6
  <2> QED
    BY <1>1, <2>3, <2>7
<1> QED
  BY <1>2, <1>3

\* The clusters whose weights pose a vertex are those up to the last bone that is used.
LEMMA PosingClusters ==
  ASSUME mesh \in Meshes, NEW vertex \in Vertex, Skinned(vertex, Len(mesh.clusters) + 1),
         ~Dropped(vertex.point),
         \A s \in 0 .. Rank(Len(mesh.clusters) + 1, vertex.point) - 1 :
           \E m \in Heavies(vertex.point) :
             m < Len(mesh.clusters) + 1 /\ Rank(m, vertex.point) = s
  PROVE  {n \in Clusters : /\ Rank(n, vertex.point) \in Slots
                           /\ \A o \in 0 .. Rank(n, vertex.point) : vertex.bone[o] # NoBone}
           = {n \in Clusters : \E o \in UsedBones(vertex.point) : n <= o}
<1> DEFINE c == vertex.point
           all == Len(mesh.clusters) + 1
<1>1. c \in ControlPoints
  BY DEF Vertex
<1>2. all \in Nat /\ \A n \in Clusters : n \in Nat /\ n < all
  BY ClusterFacts
<1>3. Heavies(c) \subseteq Clusters
  BY DEF Heavies, Clusters
<1>4. Rank(all, c) <= BoneSlots
  BY <1>1, AllBones, RankType, SizesAssumption DEF Dropped
<1>5. \A n : Rank(n, c) \in Nat
  BY RankType
<1>6. \A m \in Heavies(c) : Rank(m, c) \in Slots /\ vertex.bone[Rank(m, c)] = mesh.clusters[m].joint
  <2> SUFFICES ASSUME NEW m \in Heavies(c)
               PROVE  Rank(m, c) \in Slots /\ vertex.bone[Rank(m, c)] = mesh.clusters[m].joint
    OBVIOUS
  <2>1. m \in Clusters /\ m < all
    BY <1>2, <1>3
  <2>2. Rank(m, c) + 1 <= Rank(all, c)
    BY <1>2, <2>1, RankOrder
  <2>3. Rank(m, c) \in Slots
    BY <1>4, <1>5, <2>2, SizesAssumption DEF Slots
  <2> QED
    BY <2>1, <2>3 DEF Skinned
<1>7. ASSUME NEW n \in Clusters, NEW o \in UsedBones(c), n <= o
      PROVE  /\ Rank(n, c) \in Slots
             /\ \A s \in 0 .. Rank(n, c) : vertex.bone[s] # NoBone
  <2>1. /\ o \in Heavies(c) /\ o \in Clusters
        /\ \A m \in Heavies(c) : m <= o => mesh.clusters[m].joint # NoBone
    BY <1>3 DEF UsedBones
  <2>2. Rank(n, c) <= Rank(o, c) /\ Rank(o, c) + 1 <= Rank(all, c)
    BY <1>2, <1>7, <2>1, RankOrder
  <2>3. Rank(n, c) \in Slots
    BY <1>4, <1>5, <2>2, SizesAssumption DEF Slots
  <2>4. ASSUME NEW s \in 0 .. Rank(n, c) PROVE vertex.bone[s] # NoBone
    <3>1. s \in 0 .. Rank(all, c) - 1
      BY <1>5, <2>2
    <3>2. PICK m \in Heavies(c) : Rank(m, c) = s
      BY <3>1
    <3>3. m <= o
      <4>1. CASE o < m
        <5>1. Rank(o, c) + 1 <= Rank(m, c)
          BY <1>2, <1>3, <2>1, <4>1, RankOrder
        <5> QED
          BY <1>5, <2>2, <3>2, <5>1
      <4> QED
        BY <1>2, <1>3, <2>1, <4>1
    <3> QED
      BY <1>6, <2>1, <3>2, <3>3
  <2> QED
    BY <2>3, <2>4
<1>8. ASSUME NEW n \in Clusters, Rank(n, c) \in Slots,
             \A s \in 0 .. Rank(n, c) : vertex.bone[s] # NoBone
      PROVE  \E o \in UsedBones(c) : n <= o
  <2> DEFINE s == Rank(n, c)
  <2>1. s \in 0 .. s
    BY <1>5
  <2>2. vertex.bone[s] # NoBone
    BY <1>8, <2>1
  <2>3. PICK o \in Heavies(c) : Rank(o, c) = s
    BY <1>8, <2>2 DEF Skinned
  <2>4. n <= o
    <3>1. CASE o < n
      <4>1. Rank(o, c) + 1 <= Rank(n, c)
        BY <1>2, <1>3, <3>1, RankOrder
      <4> QED
        BY <1>5, <2>3, <4>1
    <3> QED
      BY <1>2, <1>3, <3>1
  <2>5. ASSUME NEW m \in Heavies(c), m <= o PROVE mesh.clusters[m].joint # NoBone
    <3>1. Rank(m, c) <= Rank(o, c)
      BY <1>2, <1>3, <2>5, RankOrder
    <3>2. Rank(m, c) \in 0 .. s
      BY <1>5, <2>3, <3>1
    <3> QED
      BY <1>6, <1>8, <3>2
  <2> QED
    BY <2>3, <2>4, <2>5 DEF UsedBones
<1> HIDE DEF c
<1>9. {n \in Clusters : Rank(n, c) \in Slots /\ \A o \in 0 .. Rank(n, c) : vertex.bone[o] # NoBone}
        = {n \in Clusters : \E o \in UsedBones(c) : n <= o}
  BY <1>7, <1>8, Zenon
<1> QED
  BY <1>9 DEF c

\* The slots of a vertex before its first missing bone hold the weights of the clusters up
\* to the last bone that is used.
LEMMA WeightsPosed ==
  ASSUME mesh \in Meshes, NEW vertex \in Vertex, Skinned(vertex, Len(mesh.clusters) + 1),
         ~Dropped(vertex.point),
         \A s \in 0 .. Rank(Len(mesh.clusters) + 1, vertex.point) - 1 :
           \E m \in Heavies(vertex.point) :
             m < Len(mesh.clusters) + 1 /\ Rank(m, vertex.point) = s
  PROVE  Total(vertex.weight, {s \in Slots : \A o \in 0 .. s : vertex.bone[o] # NoBone})
           = Total(Weights(vertex.point),
                   {n \in Clusters : \E o \in UsedBones(vertex.point) : n <= o})
<1> DEFINE c == vertex.point
           all == Len(mesh.clusters) + 1
           rank == [n \in Clusters |-> Rank(n, c)]
           U == {s \in Slots : \A o \in 0 .. s : vertex.bone[o] # NoBone}
<1>1. PICK b \in Nat : b <= BoneSlots /\ U = 0 .. b - 1
  BY UsedSlots
<1>2. /\ c \in ControlPoints /\ all \in Nat
      /\ \A n \in Clusters : n < all /\ Weights(c)[n] \in Nat
  BY ClusterFacts DEF Vertex, Weights, Clusters
<1>3. IsFiniteSet(Clusters)
  <2>1. Clusters \subseteq 0 .. Len(mesh.clusters) /\ Len(mesh.clusters) \in Nat
    BY ClusterFacts
  <2> QED
    BY <2>1, FiniteBelow
<1>4. ASSUME NEW s \in 0 .. b - 1
      PROVE  vertex.weight[s] = Total(Weights(c), {n \in Clusters : rank[n] = s})
  <2>1. s \in Slots
    BY <1>1, SizesAssumption DEF Slots
  <2>2. Fill(all, c, s) = {n \in Clusters : rank[n] = s}
    BY <1>2 DEF Fill
  <2> QED
    BY <2>1, <2>2 DEF Skinned
<1> HIDE DEF rank
<1>5. Total(vertex.weight, 0 .. b - 1) = Total(Weights(c), {n \in Clusters : rank[n] \in 0 .. b - 1})
  <2> DEFINE Low == 0 .. b - 1
             weights == Weights(c)
             kept == vertex.weight
             part == [s \in Low |-> {n \in Clusters : rank[n] = s}]
             whole == {n \in Clusters : rank[n] \in Low}
  <2>1. \A n \in Clusters : weights[n] \in Nat
    BY <1>2
  <2>2. /\ Parts(part, Clusters, rank, Low)
        /\ \A s \in Low : kept[s] = Total(weights, part[s])
    BY <1>4 DEF Parts
  <2>3. b \in Nat /\ Low = 0 .. b - 1
    BY <1>1
  <2>5. InRanks(whole, Clusters, rank, Low)
    BY DEF InRanks
  <2> HIDE DEF Low, weights, kept, part, whole
  <2>4. Total(kept, Low) = Total(weights, whole)
    BY <1>3, <2>1, <2>2, <2>3, <2>5, TotalOfTotals
  <2> QED
    BY <2>4 DEF Low, weights, kept, whole
<1>6. {n \in Clusters : rank[n] \in 0 .. b - 1}
        = {n \in Clusters : \E o \in UsedBones(c) : n <= o}
  <2>1. \A n \in Clusters : rank[n] \in 0 .. b - 1 <=>
          Rank(n, c) \in Slots /\ \A o \in 0 .. Rank(n, c) : vertex.bone[o] # NoBone
    BY <1>1 DEF rank
  <2> QED
    BY <2>1, PosingClusters
<1> QED
  BY <1>1, <1>5, <1>6

\* The skin of every mesh that is accepted poses its vertices with the weights of the file,
\* and nothing but a bone too many or unknown stops the program, whatever the clusters are.
THEOREM SkinWeights == MeshSpec => []WeightsKept
<1>1. MeshInv => WeightsKept
  <2> SUFFICES ASSUME MeshInv PROVE WeightsKept
    OBVIOUS
  <2>1. stage = "Stopped" => \/ \E c \in ControlPoints : Dropped(c)
                             \/ \E n \in DOMAIN mesh.clusters : mesh.clusters[n].joint = NoBone
    BY DEF MeshInv, SkinInv, Clusters
  <2>2. ASSUME stage \in {"Count", "Indices", "Done"}, mesh.skinned
        PROVE  /\ ~\E c \in ControlPoints : Dropped(c)
               /\ spilled = {v \in DOMAIN vertices : Late(vertices[v].point)}
               /\ \A v \in DOMAIN vertices :
                    LET c == vertices[v].point
                    IN  /\ \A n \in Heavies(c) :
                             vertices[v].bone[Rank(n, c)] = mesh.clusters[n].joint
                        /\ PosedWeight(v) =
                             Total(Weights(c),
                                   {n \in DOMAIN mesh.clusters : \E o \in UsedBones(c) : n <= o})
    <3> DEFINE all == Len(mesh.clusters) + 1
    <3>1. /\ mesh \in Meshes /\ ListsInv /\ SkinnedBefore(all)
          /\ ~\E c \in ControlPoints : Dropped(c)
      BY <2>2 DEF MeshInv, SkinInv
    <3>2. all \in Nat /\ \A n \in Clusters : n \in Nat /\ n < all
      BY <3>1, ClusterFacts
    <3>3. spilled = {v \in DOMAIN vertices : Late(vertices[v].point)}
      <4>1. \A v \in DOMAIN vertices :
              Late(vertices[v].point) <=>
                \E m \in Clusters : /\ m < all /\ Listed(mesh.clusters[m], vertices[v].point)
                                    /\ Rank(m, vertices[v].point) >= BoneSlots
        BY <3>2, Zenon DEF Late, Clusters
      <4> QED
        BY <3>1, <4>1, Zenon DEF SkinnedBefore
    <3>4. ASSUME NEW v \in DOMAIN vertices, NEW c, c = vertices[v].point
          PROVE  /\ \A n \in Heavies(c) :
                      vertices[v].bone[Rank(n, c)] = mesh.clusters[n].joint
                 /\ PosedWeight(v) =
                      Total(Weights(c), {n \in Clusters : \E o \in UsedBones(c) : n <= o})
      <4>1. vertices[v] \in Vertex /\ c \in ControlPoints
        <5>1. vertices[v] \in Vertex
          BY <3>1, <3>4 DEF ListsInv
        <5>2. \A vertex \in Vertex : vertex.point \in ControlPoints
          BY DEF Vertex
        <5> QED
          BY <3>4, <5>1, <5>2
      <4>2. Skinned(vertices[v], all) /\ ~Dropped(c)
        BY <3>1, <4>1 DEF SkinnedBefore
      <4>3. \A s \in 0 .. Rank(all, c) - 1 : \E m \in Heavies(c) : m < all /\ Rank(m, c) = s
        BY <3>1, <4>1 DEF SkinnedBefore
      <4>4. Rank(all, c) <= BoneSlots
        BY <3>1, <4>1, <4>2, AllBones, RankType, SizesAssumption DEF Dropped
      <4>5. ASSUME NEW n \in Heavies(c)
            PROVE  vertices[v].bone[Rank(n, c)] = mesh.clusters[n].joint
        <5>1. n \in Clusters /\ n < all
          BY <3>2 DEF Heavies, Clusters
        <5>2. Rank(n, c) + 1 <= Rank(all, c) /\ Rank(n, c) \in Nat /\ Rank(all, c) \in Nat
          BY <3>1, <3>2, <5>1, RankOrder, RankType
        <5>3. Rank(n, c) \in Slots
          BY <4>4, <5>2, SizesAssumption DEF Slots
        <5> QED
          BY <3>4, <4>2, <5>1, <5>3 DEF Skinned
      <4>6. PosedWeight(v)
              = Total(Weights(c), {n \in Clusters : \E o \in UsedBones(c) : n <= o})
        <5>1. PICK vertex : vertex = vertices[v]
          OBVIOUS
        <5>2. /\ vertex \in Vertex /\ vertex.point = c
              /\ Skinned(vertex, all) /\ ~Dropped(vertex.point)
          BY <3>4, <4>1, <4>2, <5>1
        <5>3. \A s \in 0 .. Rank(all, vertex.point) - 1 :
                \E m \in Heavies(vertex.point) : m < all /\ Rank(m, vertex.point) = s
          BY <4>3, <5>2
        <5>4. Total(vertex.weight, {s \in Slots : \A o \in 0 .. s : vertex.bone[o] # NoBone})
                = Total(Weights(vertex.point),
                        {n \in Clusters : \E o \in UsedBones(vertex.point) : n <= o})
          BY <3>1, <5>2, <5>3, WeightsPosed
        <5> QED
          BY <5>1, <5>2, <5>4 DEF PosedWeight
      <4> QED
        BY <4>5, <4>6
    <3> QED
      BY <3>1, <3>3, <3>4 DEF Clusters
  <2> QED
    BY <2>1, <2>2, Zenon DEF WeightsKept
<1> QED
  BY <1>1, MeshInductive, PTL

=============================================================================
