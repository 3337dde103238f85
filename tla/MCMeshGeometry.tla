--------------------------- MODULE MCMeshGeometry ---------------------------
(***************************************************************************)
(* Three polygons that share a control point with three attributes, with   *)
(* materials the node has or not; and a skin of six clusters on that       *)
(* control point, one of which may name no bone of the skeleton.           *)
(***************************************************************************)
EXTENDS MeshGeometry

MCControlPoints == 0 .. 3

Corners(points, attr) ==
  [j \in DOMAIN points |-> [point |-> points[j],
                            attr |-> IF points[j] = 0 THEN attr ELSE 0]]

PolygonSet(shapes, materials) ==
  {[corners |-> Corners(p, a), material |-> m] : p \in shapes, a \in 0 .. 2, m \in materials}

Meshes1 ==
  {[polygons |-> q, byPolygon |-> TRUE, subGeometryNum |-> 2, skinned |-> FALSE,
    clusters |-> <<>>] : q \in [1 .. 3 -> PolygonSet({<<1, 0>>, <<3, 1, 0, 2>>}, 0 .. 2)]}

Meshes2 ==
  {[polygons |-> q, byPolygon |-> FALSE, subGeometryNum |-> n, skinned |-> FALSE,
    clusters |-> <<>>] : q \in [1 .. 3 -> PolygonSet({<<0, 1, 2>>, <<3, 1, 0, 2>>}, {0})], n \in 1 .. 2}

Clusters(w, lost) ==
  [n \in DOMAIN w |-> [joint |-> IF n = lost THEN NoBone ELSE n,
                       weight |-> [c \in MCControlPoints |->
                                     IF c = 0 THEN w[n] ELSE IF c = n THEN 100 ELSE 0]]]

Meshes3 ==
  {[polygons |-> <<[corners |-> Corners(<<0, 1, 2>>, 0), material |-> 0],
                   [corners |-> Corners(<<3, 0, 1>>, 2), material |-> 0]>>,
    byPolygon |-> TRUE, subGeometryNum |-> 1, skinned |-> TRUE,
    clusters |-> Clusters(w, lost)] : w \in [1 .. 6 -> {0, 3, 20}], lost \in 0 .. 6}

MCMeshes == Meshes1 \cup Meshes2 \cup Meshes3

=============================================================================
