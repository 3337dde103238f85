---------------------------- MODULE SceneImport ----------------------------
(***************************************************************************)
(* SSFBXImporter::StoreCurrentFBXModelAssetToAssetManager: the import of   *)
(* one scene.  First its materials, then the bones of its first skeleton   *)
(* and their animation, and last the hierarchy of placeable assets, with a *)
(* model for each mesh.  Two recursions fill lists they share; calls holds *)
(* the calls that are still to be made, the next one first.                *)
(*                                                                         *)
(* The nodes of a scene are numbered in the order in which a recursion     *)
(* that visits a node before its children meets them, so the nodes at and  *)
(* below a node follow it without a gap.  The scene's root is 0.           *)
(*                                                                         *)
(* An index i of a list stands at i + 1 of the sequence here.  Transforms, *)
(* vertices and weights are left out; a skinned mesh has one cluster.  Of  *)
(* what the generation of a geometry objects to, beyond the skeleton and   *)
(* the bone of a skin, the scene says only whether it asserts or breaks.   *)
(*                                                                         *)
(* status "stopped" is an assertion, the use of a null pointer, or a break *)
(* that no debugger goes on from.  No earlier file had the file's name.    *)
(***************************************************************************)
EXTENDS Sequences, Counting

CONSTANTS
  Materials,
  Scenes,  \* records, see WellFormed
  Room     \* places left in the lists of geometries and of models, which do not grow

Kinds == {"Blank", "Skeleton", "Static", "Skinned"}
NoParent == 65535
NoNode == 0

\* Indices are uint16: scenes whose lists would grow to NoParent are left out.
WellFormed(s) ==
  /\ s.size \in 1 .. NoParent - 1
  /\ s.parent \in [1 .. s.size -> 0 .. s.size]
  /\ \A n \in 1 .. s.size : s.parent[n] < n
  /\ \A m, n \in 1 .. s.size :         \* what follows m is below m or hangs higher up
       m < n => s.parent[n] >= m \/ s.parent[n] <= s.parent[m]
  /\ s.kind \in [1 .. s.size -> Kinds]
  /\ DOMAIN s.name = 1 .. s.size
  /\ s.materials \in [1 .. s.size -> Seq(Materials)]
  /\ s.link \in 1 .. s.size                      \* the node a cluster is bound to
  /\ s.objection \in [1 .. s.size -> {"none", "break", "assertion"}]
  /\ s.refused \subseteq 0 .. s.size  \* whose names find no place within the tables' limits

ASSUME ScenesAssumption == \A s \in Scenes : WellFormed(s)

ASSUME RoomAssumption == Room \in Nat

VARIABLES
  scene,   \* _currentScene
  debugger,      \* a debugger is attached and goes on from every break
  skinnedReady,  \* the skinned shader is instantiated
  phase,   \* the part of the import that is running
  calls,   \* recursive calls to be made: pairs of a node and what it hangs on
  bones,   \* _boneList: [node, parent, childs]
  tracks,  \* the node each bone's animation was sampled from
  assets,  \* placeable assets: [node, parent, childs, model]
  models,  \* models inserted: [node, materials, joint]
  shader,  \* the shader of each material
  status

vars == <<scene, debugger, skinnedReady, phase, calls, bones, tracks, assets, models, shader, status>>

Nodes == 1 .. scene.size

Children(n) == Ascending({c \in Nodes : scene.parent[c] = n})

IsMesh(n) == scene.kind[n] \in {"Static", "Skinned"}

\* The nodes at and below n.
Below(n) == {m \in n .. scene.size : \A k \in n + 1 .. m : scene.parent[k] >= n}

-----------------------------------------------------------------------------
\* Without a debugger the program stops where a shader is not instantiated.
Init ==
  /\ scene \in Scenes
  /\ debugger \in BOOLEAN
  /\ skinnedReady \in BOOLEAN
  /\ skinnedReady \/ debugger
  /\ phase = "Materials"
  /\ calls = <<>>
  /\ bones = <<>>
  /\ tracks = <<>>
  /\ assets = <<>>
  /\ models = <<>>
  /\ shader = [m \in {} |-> "None"]
  /\ status = "running"

given == <<scene, debugger, skinnedReady>>

Proceed(next) == phase' = next /\ UNCHANGED <<given, status>>

Stop == status' = "stopped" /\ UNCHANGED <<given, phase>>

\* Every material of the scene is registered, under a name that its id makes unique,
\* with the shader of the default.
ImportMaterials ==
  /\ phase = "Materials"
  /\ shader' = [m \in Materials |-> "SSDefaultPbr"]
  /\ Proceed("Skeleton")
  /\ UNCHANGED <<calls, bones, tracks, assets, models>>

\* The first skeleton node of the scene.
SkeletonRoot ==
  LET skeletons == {n \in Nodes : scene.kind[n] = "Skeleton"}
  IN  IF skeletons = {} THEN NoNode ELSE Least(skeletons)

\* Mutant: the recursion does not count the node itself.
DescendantsOnly == Cardinality(Below(SkeletonRoot)) - 1

\* The length the list of bones is made with.
WholeChildCnt == Cardinality(Below(SkeletonRoot))

ImportSkeleton ==
  /\ phase = "Skeleton"
  /\ IF SkeletonRoot = NoNode
     THEN calls' = <<>> /\ Proceed("Models")
     ELSE calls' = <<<<SkeletonRoot, NoParent>>>> /\ Proceed("Bones")
  /\ UNCHANGED <<bones, tracks, assets, models, shader>>

\* The calls a recursion makes from node n, whose children hang on the element at,
\* before those that were to be made already.
CallsBelow(n, at) ==
  [i \in DOMAIN Children(n) |-> <<Children(n)[i], at>>] \o Tail(calls)

\* Mutant: every bone hangs on the bone that was pushed before it.
WithBonePrevious(n, parent) ==
  LET bone == [node |-> n, childs |-> <<>>,
               parent |-> IF bones = <<>> THEN NoParent ELSE Len(bones) - 1]
  IN  IF parent = NoParent THEN <<bone>>
      ELSE Append([bones EXCEPT ![parent + 1].childs = Append(@, Len(bones))], bone)

\* The list with a bone for n, listed as a child of its parent.
WithBone(n, parent) ==
  LET bone == [node |-> n, parent |-> parent, childs |-> <<>>]
  IN  IF parent = NoParent THEN Append(bones, bone)
      ELSE Append([bones EXCEPT ![parent + 1].childs = Append(@, Len(bones))], bone)

\* The list of bones is made with room for the skeleton, each list of children with
\* room for the node's children; GetSkeleton() of another node is null.
ImportBone ==
  /\ phase = "Bones" /\ calls # <<>>
  /\ LET n == Head(calls)[1]
         parent == Head(calls)[2]
     IN  /\ bones' = IF Len(bones) < WholeChildCnt THEN WithBone(n, parent) ELSE bones
         /\ IF Len(bones) < WholeChildCnt /\ scene.kind[n] = "Skeleton"
            THEN calls' = CallsBelow(n, Len(bones)) /\ Proceed("Bones")
            ELSE UNCHANGED calls /\ Stop
  /\ UNCHANGED <<tracks, assets, models, shader>>

\* The skeleton is inserted; the scene may have no animation stack.
InsertSkeleton ==
  /\ phase = "Bones" /\ calls = <<>>
  /\ \E next \in {"Animation", "Models"} : Proceed(next)
  /\ UNCHANGED <<calls, bones, tracks, assets, models, shader>>

\* FindNodeByName yields some node of the bone's name.
ImportAnimation ==
  /\ phase = "Animation"
  /\ \E nodes \in [DOMAIN bones -> Nodes] :
       /\ \A i \in DOMAIN bones : scene.name[nodes[i]] = scene.name[bones[i].node]
       /\ tracks' = nodes
  /\ Proceed("Models")
  /\ UNCHANGED <<calls, bones, assets, models, shader>>

-----------------------------------------------------------------------------
Asset(n, parent, model) == [node |-> n, parent |-> parent, childs |-> <<>>, model |-> model]

\* The combination of the file is the root, the nodes below the scene's root follow.
ImportModels ==
  /\ phase = "Models"
  /\ assets' = <<Asset(NoNode, NoParent, FALSE)>>
  /\ calls' = [i \in DOMAIN Children(0) |-> <<Children(0)[i], 0>>]
  /\ Proceed("Nodes")
  /\ UNCHANGED <<bones, tracks, models, shader>>

\* Mutant: the asset hangs on the combination of the file.
PlaceAtRoot(n, parent, model) ==
  /\ assets' = Append([assets EXCEPT ![1].childs = Append(@, Len(assets))],
                      Asset(n, 0, model))
  /\ calls' = CallsBelow(n, Len(assets))

\* The new asset hangs on its parent, and the recursion goes on below it.
Place(n, parent, model) ==
  /\ assets' = Append([assets EXCEPT ![parent + 1].childs = Append(@, Len(assets))],
                      Asset(n, parent, model))
  /\ calls' = CallsBelow(n, Len(assets))

VisitSkeleton(n, parent) ==
  /\ scene.kind[n] = "Skeleton"
  /\ calls' = Tail(calls)
  /\ Proceed("Nodes")
  /\ UNCHANGED <<assets, models, shader>>

VisitBlank(n, parent) ==
  /\ scene.kind[n] = "Blank"
  /\ Place(n, parent, FALSE)
  /\ Proceed("Nodes")
  /\ UNCHANGED <<models, shader>>

\* The bones that FindBoneIdxWithNameFromSkeleton may find for the linked node.
Joints == {i \in DOMAIN bones : scene.name[bones[i].node] = scene.name[scene.link]}

\* Mutant: the index of the node is taken for the index of its bone.
JointOfNode(n) == IF scene.kind[n] = "Skinned" THEN scene.link - 1 ELSE NoParent

\* The bone of a skinned mesh's cluster is the first of the link's name, if there is one.
Joint(n) ==
  IF scene.kind[n] = "Skinned" /\ Joints # {}
  THEN Least(Joints) - 1
  ELSE NoParent

\* Mutant: the shader is chosen when the material is met first.
ChangeShaderOnce(n, m) ==
  IF /\ scene.kind[n] = "Skinned"
     /\ ~\E i \in DOMAIN models : m \in Range(models[i].materials)
  THEN "SSDefaultPbrSkinned" ELSE shader[m]

\* A skinned mesh gives its materials the skinned shader, whoever else uses them; one that
\* is not instantiated is refused with a break.
ChangeShader(n, m) ==
  IF scene.kind[n] = "Skinned" /\ skinnedReady THEN "SSDefaultPbrSkinned" ELSE shader[m]

\* A skin asserts that a skeleton was imported, and breaks without the linked bone.  For
\* any mesh there are assertions and breaks on deformers, normals, the count of materials
\* and the bones of a vertex.
GeometryStops(n) ==
  \/ scene.objection[n] = "assertion"
  \/ scene.objection[n] = "break" /\ ~debugger
  \/ scene.kind[n] = "Skinned" /\ bones = <<>>
  \/ scene.kind[n] = "Skinned" /\ Joints = {} /\ ~debugger

NameTaken(n) == \E i \in DOMAIN models : scene.name[models[i].node] = scene.name[n]

\* The lists assert that there is room; the models' manager breaks if the table refuses the
\* name, and the model is listed.
InsertStops(n) ==
  \/ Len(models) >= Room
  \/ (NameTaken(n) \/ n \in scene.refused) /\ ~debugger

\* The materials have their shaders before geometry and model are inserted.
VisitMesh(n, parent) ==
  /\ IsMesh(n)
  /\ ~GeometryStops(n)
  /\ shader' = [m \in Materials |-> IF m \in Range(scene.materials[n])
                                    THEN ChangeShader(n, m) ELSE shader[m]]
  /\ IF InsertStops(n)
     THEN Stop /\ UNCHANGED <<assets, calls, models>>
     ELSE /\ models' = Append(models, [node |-> n, materials |-> scene.materials[n],
                                       joint |-> Joint(n)])
          /\ Place(n, parent, TRUE)
          /\ Proceed("Nodes")

VisitMeshStops(n) ==
  /\ IsMesh(n)
  /\ GeometryStops(n)
  /\ Stop
  /\ UNCHANGED <<assets, calls, models, shader>>

TraverseNodes ==
  /\ phase = "Nodes" /\ calls # <<>>
  /\ LET n == Head(calls)[1]
         parent == Head(calls)[2]
     IN  \/ VisitSkeleton(n, parent)
         \/ VisitBlank(n, parent)
         \/ VisitMesh(n, parent)
         \/ VisitMeshStops(n)
  /\ UNCHANGED <<bones, tracks>>

\* The combination's manager breaks if the table refuses the name; its list has room for
\* the two files that are ever imported.
InsertCombination ==
  /\ phase = "Nodes" /\ calls = <<>>
  /\ IF NoNode \in scene.refused /\ ~debugger THEN Stop ELSE Proceed("Done")
  /\ UNCHANGED <<calls, bones, tracks, assets, models, shader>>

Next ==
  /\ status = "running"
  /\ \/ ImportMaterials
     \/ ImportSkeleton
     \/ ImportBone
     \/ InsertSkeleton
     \/ ImportAnimation
     \/ ImportModels
     \/ TraverseNodes
     \/ InsertCombination

Spec == Init /\ [][Next]_vars

-----------------------------------------------------------------------------
Indices(seq) == 0 .. Len(seq) - 1

TypeOK ==
  /\ WellFormed(scene)
  /\ debugger \in BOOLEAN
  /\ skinnedReady \in BOOLEAN
  /\ phase \in {"Materials", "Skeleton", "Bones", "Animation", "Models", "Nodes", "Done"}
  /\ \A i \in DOMAIN calls : calls[i] \in Nodes \X (Nat \cup {NoParent})
  /\ \A i \in DOMAIN bones :
       /\ bones[i].node \in Nodes
       /\ bones[i].parent \in Indices(bones) \cup {NoParent}
       /\ Range(bones[i].childs) \subseteq Indices(bones)
  /\ tracks \in Seq(Nodes)
  /\ \A i \in DOMAIN assets :
       /\ assets[i].node \in Nodes \cup {NoNode}
       /\ assets[i].parent \in Indices(assets) \cup {NoParent}
       /\ Range(assets[i].childs) \subseteq Indices(assets)
  /\ \A i \in DOMAIN models :
       /\ models[i].node \in Nodes
       /\ models[i].joint \in Indices(bones) \cup {NoParent}
  /\ \A m \in DOMAIN shader : shader[m] \in {"SSDefaultPbr", "SSDefaultPbrSkinned"}
  /\ status \in {"running", "stopped"}

UniqueNames == \A m, n \in Nodes : scene.name[m] = scene.name[n] => m = n

NodesOf(list, indices) == [i \in DOMAIN indices |-> list[indices[i] + 1].node]

\* The list of bones is the skeleton: parents before their children, so that one pass
\* can compose transforms, and both directions of the hierarchy agree with the scene.
BonesMirrorSkeleton ==
  phase \in {"Animation", "Models", "Nodes", "Done"} /\ SkeletonRoot # NoNode =>
    /\ {bones[i].node : i \in DOMAIN bones} = Below(SkeletonRoot)
    /\ \A i, j \in DOMAIN bones : i < j => bones[i].node < bones[j].node
    /\ \A i \in DOMAIN bones :
         /\ IF i = 1 THEN bones[i].parent = NoParent
            ELSE bones[bones[i].parent + 1].node = scene.parent[bones[i].node]
         /\ NodesOf(bones, bones[i].childs) = Children(bones[i].node)

\* The nodes that become assets: what hangs below a skeleton does not.
Reached == {n \in Nodes : ~\E s \in Nodes : scene.kind[s] = "Skeleton" /\ n \in Below(s)}

MeshNodes == {n \in Reached : IsMesh(n)}

SkeletonNodes == IF SkeletonRoot = NoNode THEN {} ELSE Below(SkeletonRoot)

\* What the importer asserts of a scene: a skeleton of nothing but skeleton nodes, and one
\* at all for a skin, geometries without an objection of their own, and room for them.
NothingAsserts ==
  /\ \A n \in SkeletonNodes : scene.kind[n] = "Skeleton"
  /\ \A n \in MeshNodes : /\ scene.objection[n] # "assertion"
                          /\ scene.kind[n] = "Skinned" => SkeletonNodes # {}
  /\ Cardinality(MeshNodes) <= Room

\* What it breaks about: a skin without its bone, and names of meshes or of the file that
\* the tables have no place for, or have already.
NothingBreaks ==
  /\ \A n \in MeshNodes : /\ scene.objection[n] = "none"
                          /\ scene.kind[n] = "Skinned" =>
                               \E b \in SkeletonNodes : scene.name[b] = scene.name[scene.link]
  /\ \A m, n \in MeshNodes : scene.name[m] = scene.name[n] => m = n
  /\ scene.refused \cap (MeshNodes \cup {NoNode}) = {}

Importable == NothingAsserts /\ (debugger \/ NothingBreaks)

\* The import stops on the scenes that give a reason for it, wherever in the scene that
\* is, and gets to the end of all others: the lists it sizes by a recursion beforehand
\* never run out, and what hangs below a skeleton is never asked for.
StopsExplained ==
  /\ status = "stopped" => ~Importable
  /\ phase = "Done" => Importable

\* The assets are the nodes outside skeletons, once each, hanging on the asset of their
\* parent in the scene's order, and the meshes among them have models.
HierarchyMirrorsScene ==
  phase = "Done" =>
    /\ {assets[i].node : i \in DOMAIN assets} = Reached \cup {NoNode}
    /\ Len(assets) = Cardinality(Reached) + 1
    /\ \A i \in 2 .. Len(assets) :
         /\ assets[assets[i].parent + 1].node = scene.parent[assets[i].node]
         /\ assets[i].model <=> IsMesh(assets[i].node)
    /\ \A i \in DOMAIN assets :
         NodesOf(assets, assets[i].childs)
           = Ascending({n \in Reached : scene.parent[n] = assets[i].node})

\* A material ends with the skinned shader if and only if a skinned mesh among the
\* models uses it, in whatever order static and skinned meshes come; unless that shader
\* is not instantiated, when no material gets it.
ShadersFollowSkins ==
  phase = "Done" =>
    \A m \in Materials :
      shader[m] = "SSDefaultPbrSkinned" <=>
        \E i \in DOMAIN models : /\ skinnedReady
                                 /\ scene.kind[models[i].node] = "Skinned"
                                 /\ m \in Range(models[i].materials)

\* Bones are looked up by name, by skins as by animations; where names are unique that
\* finds the bone of the linked node, exactly if that node is a bone, and the node of the
\* bone.
NamesFindBones ==
  UniqueNames =>
    /\ \A i \in DOMAIN models : scene.kind[models[i].node] = "Skinned" =>
         IF scene.link \in {bones[b].node : b \in DOMAIN bones}
         THEN /\ models[i].joint + 1 \in DOMAIN bones
              /\ bones[models[i].joint + 1].node = scene.link
         ELSE models[i].joint = NoParent /\ debugger
    /\ \A i \in DOMAIN tracks : tracks[i] = bones[i].node

=============================================================================
