--------------------------- MODULE MCSceneImport ---------------------------
(***************************************************************************)
(* All hierarchies of two and three nodes of every kind: once with a name  *)
(* that two nodes share and any node linked, once with names of their own, *)
(* the last node linked, and no, one or two materials for each node; those *)
(* of four nodes of which two are skeletons; and those of three nodes, to  *)
(* one of which the importer objects.  Two meshes have room.               *)
(***************************************************************************)
EXTENDS SceneImport

CONSTANTS m1, m2

MCMaterials == {m1, m2}

Parents(n) ==
  {p \in [1 .. n -> 0 .. n - 1] :
     \A i \in 1 .. n : p[i] < i /\ \A j \in 1 .. i - 1 : p[i] >= j \/ p[i] <= p[j]}

KindsOf(n) == [1 .. n -> Kinds]

Scene(p, k, name, mats, link) ==
  [size |-> Len(k), parent |-> p, kind |-> k, name |-> name, materials |-> mats, link |-> link,
   objection |-> [i \in DOMAIN k |-> "none"], refused |-> {}]

OwnNames(k) == [i \in DOMAIN k |-> i]

\* Node d has the name of the node before it.
SharedName(k, d) == [OwnNames(k) EXCEPT ![d] = d - 1]

OneMaterial(k) == [i \in DOMAIN k |-> <<m1>>]

NamedScenes(n) ==
  {Scene(p, k, SharedName(k, d), OneMaterial(k), link) :
     p \in Parents(n), k \in KindsOf(n), d \in 2 .. n, link \in 1 .. n}

PaintedScenes(n) ==
  {Scene(p, k, OwnNames(k), mats, n) :
     p \in Parents(n), k \in KindsOf(n), mats \in [1 .. n -> {<<m1>>, <<m2, m1>>, <<>>}]}

\* Two of the nodes are skeletons.
LinkedScenes(n) ==
  {Scene(p, k, OwnNames(k), OneMaterial(k), link) :
     p \in Parents(n), link \in 1 .. n,
     k \in {f \in KindsOf(n) : Cardinality({i \in 1 .. n : f[i] = "Skeleton"}) = 2}}

\* The geometry of one node is objected to, or one name has no place in its table.
ObjectedScenes(n) ==
  {[Scene(p, k, OwnNames(k), OneMaterial(k), 1) EXCEPT !.objection[o] = why] :
     p \in Parents(n), k \in KindsOf(n), o \in 1 .. n, why \in {"break", "assertion"}}

RefusedScenes(n) ==
  {[Scene(p, k, OwnNames(k), OneMaterial(k), 1) EXCEPT !.refused = {o}] :
     p \in Parents(n), k \in KindsOf(n), o \in {0, n}}

MCScenes == NamedScenes(2) \cup NamedScenes(3) \cup PaintedScenes(3) \cup LinkedScenes(4)
  \cup ObjectedScenes(3) \cup RefusedScenes(3)

=============================================================================
