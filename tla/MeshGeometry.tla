---------------------------- MODULE MeshGeometry ----------------------------
(***************************************************************************)
(* GenerateGeometryFromFbxMesh and GenerateSkinnedGeometryFromFbxMesh: how *)
(* a mesh of polygons becomes a buffer of vertices and a buffer of         *)
(* indices, one range of it for each material of the node, and how the     *)
(* clusters of a skin become the few bones of each vertex.                 *)
(*                                                                         *)
(* A corner of a polygon is a control point and an attribute: an integer   *)
(* that stands for the normal, tangent and texture coordinates read for    *)
(* the corner, two of which are similar when they differ by 1 at most.     *)
(* Weights are in hundredths.  Vertices count from 1, everything else from *)
(* 0 as in the code.                                                       *)
(***************************************************************************)
EXTENDS Integers, Sequences, Counting

CONSTANTS
  Meshes,          \* the meshes the file may hold, see MeshesAssumption
  ControlPoints,
  SubGeomMax,      \* SUBGEOM_COUNT_MAX
  BoneSlots,       \* VERTEX_SKINNING_BONE_COUNT_MAX
  WeightThreshold  \* SKIN_WEIGHT_THRESHOLD

NoBone == -1       \* SS_UINT32_MAX, and what a search for a bone by name yields
NoVertex == 0      \* what malloc left in the memory

\* A weight is listed when it is positive: adding none changes nothing.
ASSUME MeshesAssumption ==
  \A m \in Meshes :
    /\ m.polygons \in Seq([corners : Seq([point : ControlPoints, attr : Int]),
                           material : 0 .. SubGeomMax - 1])
    /\ \A i \in DOMAIN m.polygons : Len(m.polygons[i].corners) >= 2
    /\ m.clusters \in Seq([joint : Nat \cup {NoBone}, weight : [ControlPoints -> Nat]])
    /\ m.subGeometryNum \in 1 .. SubGeomMax - 1
    /\ m.byPolygon \in BOOLEAN /\ m.skinned \in BOOLEAN

ASSUME SizesAssumption == SubGeomMax \in Nat /\ BoneSlots \in Nat /\ WeightThreshold \in Nat

VARIABLES
  mesh,      \* the input: polygons, byPolygon, subGeometryNum, skinned, clusters
  stage,
  cursor,    \* the polygon, the corner of it or the cluster that comes next
  vertices,  \* ssVertexBuffer
  idxMap,    \* ControlPointToSSIdxMap
  corners,   \* PolygonVertexToCtrlPointMap
  boneCnt,   \* boneCntArr
  num, start, \* _indexDataNum, _indexDataStartIndex
  index,     \* _indexData
  counter,   \* subMaterialIdxDataCounter
  spilled,   \* the vertices beyond whose Weight array something was written
  overrun    \* whether something was written behind _indexData

meshVars == <<mesh, stage, cursor, vertices, idxMap, corners, boneCnt, num, start, index,
              counter, spilled, overrun>>
indexVars == <<num, start, index, counter, overrun>>
vertexVars == <<vertices, idxMap, corners>>

SubGeometries == 0 .. mesh.subGeometryNum - 1

Slots == 0 .. BoneSlots - 1

Polygons == DOMAIN mesh.polygons

MeshInit ==
  /\ mesh \in Meshes
  /\ stage = "Vertices"
  /\ cursor = <<1, 1>>
  /\ vertices = <<>>
  /\ idxMap = [c \in ControlPoints |-> <<>>]
  /\ corners = [i \in Polygons |-> <<>>]
  /\ boneCnt = [c \in ControlPoints |-> 0]
  /\ num = [g \in 0 .. SubGeomMax - 1 |-> 0]
  /\ start = num
  /\ counter = num
  /\ index = [p \in {} |-> NoVertex]
  /\ spilled = {}
  /\ overrun = FALSE

------------------------------------------------------------------------------

\* AreSimilarVertex: thresholds, hence not transitive.
Similar(a, b) == a - b \in -1 .. 1

\* The elements of the control point's list that are similar to the corner.
SimilarIn(corner) ==
  {k \in DOMAIN idxMap[corner.point] :
     Similar(vertices[idxMap[corner.point][k]].attr, corner.attr)}

\* Mutant: the vertex itself is noted instead of its place in the list.
SharedVertex(corner) ==
  IF SimilarIn(corner) = {} THEN 0 ELSE idxMap[corner.point][Least(SimilarIn(corner))]

\* The element of the list that the corner shares, 0 if none is similar.
SharedWith(corner) ==
  IF SimilarIn(corner) = {} THEN 0 ELSE Least(SimilarIn(corner))

NewVertex(corner) ==
  [point |-> corner.point, attr |-> corner.attr,
   bone |-> [s \in Slots |-> NoBone], weight |-> [s \in Slots |-> 0]]

\* A corner takes the first similar vertex of its control point, or becomes one.
ReadCorner ==
  /\ stage = "Vertices" /\ cursor[1] \in Polygons
  /\ LET polygon == mesh.polygons[cursor[1]].corners
         corner == polygon[cursor[2]]
         list == idxMap[corner.point]
         shared == SharedWith(corner)
     IN  /\ \/ /\ shared # 0
               /\ corners' = [corners EXCEPT ![cursor[1]] = Append(@, <<corner.point, shared>>)]
               /\ UNCHANGED <<vertices, idxMap>>
            \/ /\ shared = 0
               /\ corners' = [corners EXCEPT
                                ![cursor[1]] = Append(@, <<corner.point, Len(list) + 1>>)]
               /\ idxMap' = [idxMap EXCEPT ![corner.point] = Append(@, Len(vertices) + 1)]
               /\ vertices' = Append(vertices, NewVertex(corner))
         /\ cursor' = IF cursor[2] < Len(polygon) THEN <<cursor[1], cursor[2] + 1>> ELSE <<cursor[1] + 1, 1>>
  /\ UNCHANGED <<mesh, stage, boneCnt, spilled>> /\ UNCHANGED indexVars

EndVertices ==
  /\ stage = "Vertices" /\ cursor[1] \notin Polygons
  /\ stage' = IF mesh.skinned THEN "Skin" ELSE "Count"
  /\ cursor' = <<1, 1>>
  /\ UNCHANGED <<mesh, boneCnt, spilled>> /\ UNCHANGED vertexVars /\ UNCHANGED indexVars

------------------------------------------------------------------------------

Listed(cluster, c) == cluster.weight[c] > 0
Heavy(cluster, c) == cluster.weight[c] > WeightThreshold

\* Mutant: every weight a cluster lists takes a bone.
TakesAlways(cluster, c) == Listed(cluster, c)

\* Whether the weight takes a bone of its own: a small one is added to the slot the
\* next bone will take.
TakesBone(cluster, c) == Heavy(cluster, c)

\* The vertex with what the cluster writes to it inside its arrays.
Influenced(vertex, cluster) ==
  LET slot == boneCnt[vertex.point]
      w == cluster.weight[vertex.point]
  IN  IF slot \notin Slots THEN vertex
      ELSE [vertex EXCEPT
              !.weight[slot] = @ + w,
              !.bone[slot] = IF TakesBone(cluster, vertex.point) THEN cluster.joint ELSE @]

\* The arrays end after BoneSlots, and nothing looks before it writes.
SkinCluster ==
  /\ stage = "Skin" /\ cursor[1] \in DOMAIN mesh.clusters
  /\ LET cluster == mesh.clusters[cursor[1]]
     IN  /\ vertices' = [v \in DOMAIN vertices |-> Influenced(vertices[v], cluster)]
         /\ spilled' = spilled \cup
              {v \in DOMAIN vertices : /\ Listed(cluster, vertices[v].point)
                                       /\ boneCnt[vertices[v].point] \notin Slots}
         /\ boneCnt' = [c \in ControlPoints |->
                          boneCnt[c] + IF TakesBone(cluster, c) THEN 1 ELSE 0]
  /\ cursor' = <<cursor[1] + 1, 1>>
  /\ UNCHANGED <<mesh, stage, idxMap, corners>> /\ UNCHANGED indexVars

\* The skeleton has no bone of the cluster's name: a break, on which a debugger may go on
\* with SkinCluster.
UnknownBone ==
  /\ stage = "Skin" /\ cursor[1] \in DOMAIN mesh.clusters
  /\ mesh.clusters[cursor[1]].joint = NoBone
  /\ stage' = "Stopped"
  /\ UNCHANGED <<mesh, cursor, boneCnt, spilled>> /\ UNCHANGED vertexVars /\ UNCHANGED indexVars

\* The assertion on the counts of bones.
EndSkin ==
  /\ stage = "Skin" /\ cursor[1] \notin DOMAIN mesh.clusters
  /\ stage' = IF \E c \in ControlPoints : boneCnt[c] > BoneSlots THEN "Stopped" ELSE "Count"
  /\ UNCHANGED <<mesh, cursor, boneCnt, spilled>> /\ UNCHANGED vertexVars /\ UNCHANGED indexVars

------------------------------------------------------------------------------

\* The sub-geometry a polygon is drawn with.
Material(i) == IF mesh.byPolygon THEN mesh.polygons[i].material ELSE 0

Triangles == [i \in Polygons |-> Len(mesh.polygons[i].corners) - 2]

\* _indexDataNum
IndexNum(g) == 3 * Total(Triangles, {i \in Polygons : Material(i) = g})

\* Mutant: the ranges start one sub-geometry too early.
StartOfPrevious(g) == 3 * Total(Triangles, {i \in Polygons : Material(i) < g - 1})

\* _indexDataStartIndex, which stays 0 where the node has no such material.
StartIndex(g) ==
  IF g \in SubGeometries THEN 3 * Total(Triangles, {i \in Polygons : Material(i) < g}) ELSE 0

\* _wholeIndexDataNum
WholeIndexNum == 3 * Total(Triangles, {i \in Polygons : Material(i) \in SubGeometries})

CountIndices ==
  /\ stage = "Count"
  /\ num' = [g \in DOMAIN num |-> IndexNum(g)]
  /\ start' = [g \in DOMAIN num |-> StartIndex(g)]
  /\ index' = [p \in 0 .. WholeIndexNum - 1 |-> NoVertex]
  /\ stage' = "Indices"
  /\ cursor' = <<1, 1>>
  /\ UNCHANGED <<mesh, boneCnt, counter, spilled, overrun>> /\ UNCHANGED vertexVars

\* The corners of triangle t of a polygon, both counted from 0: the two branches of the
\* code wind it in opposite directions.
FanCorner(t, k) ==
  IF mesh.byPolygon THEN <<0, t + 1, t + 2>>[k + 1] ELSE <<t + 2, t + 1, 0>>[k + 1]

\* The vertex the maps hold for corner j of polygon i.
VertexOf(i, j) == LET c == corners[i][j + 1] IN idxMap[c[1]][c[2]]

\* The fan of a polygon, at the place its material has reached.
WritePolygon ==
  /\ stage = "Indices" /\ cursor[1] \in Polygons
  /\ LET i == cursor[1]
         base == start[Material(i)] + counter[Material(i)]
         written == base .. base + 3 * Triangles[i] - 1
     IN  /\ index' = [p \in DOMAIN index |->
                        IF p \in written
                        THEN VertexOf(i, FanCorner((p - base) \div 3, (p - base) % 3))
                        ELSE index[p]]
         /\ overrun' = (overrun \/ ~ written \subseteq DOMAIN index)
         /\ counter' = [counter EXCEPT ![Material(i)] = @ + 3 * Triangles[i]]
  /\ cursor' = <<cursor[1] + 1, 1>>
  /\ UNCHANGED <<mesh, stage, boneCnt, num, start, spilled>> /\ UNCHANGED vertexVars

\* The assertion that every range is full.
EndIndices ==
  /\ stage = "Indices" /\ cursor[1] \notin Polygons
  /\ stage' = IF \A g \in SubGeometries : num[g] = counter[g] THEN "Done" ELSE "Stopped"
  /\ UNCHANGED <<mesh, cursor, boneCnt, spilled>> /\ UNCHANGED vertexVars /\ UNCHANGED indexVars

MeshNext ==
  \/ ReadCorner
  \/ EndVertices
  \/ SkinCluster
  \/ UnknownBone
  \/ EndSkin
  \/ CountIndices
  \/ WritePolygon
  \/ EndIndices

MeshSpec == MeshInit /\ [][MeshNext]_meshVars

------------------------------------------------------------------------------

ListedOnce(v, list) ==
  \E k \in DOMAIN list : \A l \in DOMAIN list : list[l] = v <=> l = k

\* The lists of the control points divide the vertex buffer between them, each control
\* point lists its own vertices, and every corner read so far is an element of the list
\* of its control point.
MeshTypeOK ==
  /\ stage \in {"Vertices", "Skin", "Count", "Indices", "Done", "Stopped"}
  /\ \A c \in ControlPoints : \A k \in DOMAIN idxMap[c] : vertices[idxMap[c][k]].point = c
  /\ \A v \in DOMAIN vertices : ListedOnce(v, idxMap[vertices[v].point])
  /\ \A i \in Polygons : \A j \in DOMAIN corners[i] :
       /\ corners[i][j][1] = mesh.polygons[i].corners[j].point
       /\ corners[i][j][2] \in DOMAIN idxMap[corners[i][j][1]]
  /\ \A p \in DOMAIN index : index[p] \in DOMAIN vertices \cup {NoVertex}

\* The triangles of a polygon as corners of the file.
Fan(i) ==
  LET c == mesh.polygons[i].corners
  IN  [t \in 1 .. Triangles[i] |-> <<c[1], c[t + 1], c[t + 2]>>]

\* Where the fan of a polygon belongs: behind those of the earlier polygons of its material.
FanStart(i) ==
  start[Material(i)]
    + 3 * Total(Triangles, {j \in Polygons : j < i /\ Material(j) = Material(i)})

Represents(v, corner) ==
  /\ v \in DOMAIN vertices
  /\ vertices[v].point = corner.point
  /\ Similar(vertices[v].attr, corner.attr)

\* Whether a polygon with a triangle has a material the node does not have.
HasStray == \E i \in Polygons : Triangles[i] > 0 /\ Material(i) \notin SubGeometries

\* The ranges of the materials divide the buffer of indices between them, in their order,
\* and the range of each holds the fans of its polygons in the file's order, each corner
\* by a vertex of the same control point and a similar attribute, every triangle of the
\* mesh turned the same way; and nothing is written behind the buffer.  Only a polygon
\* whose material index is beyond the materials of the node, whose fan is written over
\* the start of the buffer, breaks this.
IndicesFaithful ==
  stage = "Done" /\ ~HasStray =>
    /\ ~overrun
    /\ DOMAIN index = 0 .. 3 * Total(Triangles, Polygons) - 1
    /\ start[0] = 0
    /\ \A g \in SubGeometries :
         start[g] + num[g] = IF g + 1 \in SubGeometries THEN start[g + 1]
                             ELSE 3 * Total(Triangles, Polygons)
    /\ \E turned \in BOOLEAN : \A i \in Polygons : \A t \in 1 .. Triangles[i] :
         \A k \in 0 .. 2 :
           Represents(index[FanStart(i) + 3 * (t - 1) + k],
                      Fan(i)[t][IF turned THEN 3 - k ELSE k + 1])

\* The clusters that give a control point a bone, and how many of them come before n.
Heavies(c) == {n \in DOMAIN mesh.clusters : Heavy(mesh.clusters[n], c)}

Rank(n, c) == Cardinality({o \in Heavies(c) : o < n})

\* The bones before the first one that is not in the skeleton, which ends the shader's loop.
UsedBones(c) ==
  {n \in Heavies(c) : \A o \in Heavies(c) : o <= n => mesh.clusters[o].joint # NoBone}

\* The weights the control point has in the clusters.
Weights(c) == [n \in DOMAIN mesh.clusters |-> mesh.clusters[n].weight[c]]

\* What the shader's loop adds up.
PosedWeight(v) ==
  Total(vertices[v].weight, {s \in Slots : \A o \in 0 .. s : vertices[v].bone[o] # NoBone})

\* Whether a control point has more bones than a vertex has room for, and whether a
\* weight of it comes when there is no room left.
Dropped(c) == Cardinality(Heavies(c)) > BoneSlots

Late(c) == \E n \in DOMAIN mesh.clusters :
             Listed(mesh.clusters[n], c) /\ Rank(n, c) >= BoneSlots

\* A skin that is accepted gives every vertex the bones of its control point in the
\* order of the clusters, and the weights that pose it add up to all the weights listed
\* up to the last bone that is used: the weights too small for a bone of their own are
\* kept only when a bone follows.  Something is written beyond the arrays exactly when a
\* small weight comes after the last bone there is room for.  A vertex with more bones than
\* that, or a bone the skeleton does not have, is all that stops the program here, once the
\* mesh has the one skin and the skeleton that the importer asserts beforehand.
WeightsKept ==
  /\ stage = "Stopped" => \/ \E c \in ControlPoints : Dropped(c)
                          \/ \E n \in DOMAIN mesh.clusters : mesh.clusters[n].joint = NoBone
  /\ stage \in {"Count", "Indices", "Done"} /\ mesh.skinned =>
       /\ ~\E c \in ControlPoints : Dropped(c)
       /\ spilled = {v \in DOMAIN vertices : Late(vertices[v].point)}
       /\ \A v \in DOMAIN vertices :
            LET c == vertices[v].point
            IN  /\ \A n \in Heavies(c) :
                     vertices[v].bone[Rank(n, c)] = mesh.clusters[n].joint
                /\ PosedWeight(v) =
                     Total(Weights(c),
                           {n \in DOMAIN mesh.clusters : \E o \in UsedBones(c) : n <= o})

=============================================================================
