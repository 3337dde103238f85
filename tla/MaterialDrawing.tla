--------------------------- MODULE MaterialDrawing ---------------------------
(***************************************************************************)
(* Shaders, materials and the draws of a frame.  A shader is compiled,     *)
(* reflected and instantiated; a material takes from the reflection how    *)
(* many constant buffers it needs, in which slots, and which stage reads   *)
(* them; BindMaterial puts them into the context, where they stay until    *)
(* something else is bound to the same slot.                               *)
(*                                                                         *)
(* The registers are those of Resource/Shader/SSDefaultPbr.fxh; the order  *)
(* in which the reflection lists the buffers is the compiler's, any order. *)
(* A mesh here is one part of a model: the sub-geometry of one material.   *)
(* Textures and samplers are left out, and so is a CreateBuffer that fails.*)
(***************************************************************************)
EXTENDS Naturals, Sequences, FiniteSets, Functions

CONSTANTS
  Meshes,
  Materials,
  EmptyMaterial,  \* the one CreateTempMaterials makes, for meshes without a material
  Nothing,        \* a null pointer, an empty slot, a buffer never written
  VSOrders,       \* orders in which the reflection of each shader lists VSSlots
  PSOrders,       \* the same for PSSlots; the pixel shader has no ENABLE_SKINNING
  MaxFrames,      \* bound on the frames drawn
  MaxEdits        \* bound on what the editor does to one material

Rigid == "SSDefaultPbr"
Skinned == "SSDefaultPbrSkinned"
Shaders == {Rigid, Skinned}

\* ModelBuffer b0, GlobalRenderParam b1; with ENABLE_SKINNING also the structured
\* buffers t3 and t4, which the reflection counts among the constant buffers.
VSConstants == {0, 1}
Structured(s) == IF s = Skinned THEN {3, 4} ELSE {}
VSSlots(s) == VSConstants \cup Structured(s)

\* GlobalRenderParam b1, MaterialParam b2.
PSSlots == {1, 2}

Slots == 0 .. 4

Lists(q, S) == q \in [1 .. Cardinality(S) -> S] /\ IsInjective(q)

ASSUME MaterialsAssumption ==
  /\ EmptyMaterial \in Materials
  /\ Nothing \notin Meshes \cup Nat \cup (Materials \X Slots)
  /\ \A s \in Shaders : \A q \in VSOrders[s] : Lists(q, VSSlots(s))
  /\ \A q \in PSOrders : Lists(q, PSSlots)
  /\ MaxFrames \in Nat /\ MaxEdits \in Nat

VARIABLES
  kind,      \* of each mesh: "Rigid" or "Skinned"
  material,  \* of each mesh
  vsOrder,   \* VSCBReflectionInfo of each shader, as slots
  psOrder,   \* PSCBReflectionInfo, as slots
  caches,    \* what BeginFrame finds: it looks for the skeleton of one certain file
  phase,     \* of the program; "Stopped" is an assertion or a break
  stage,     \* _curStage of each shader
  objects,   \* COM objects created for each shader and not released
  failed,    \* the step that failed for each shader, or "none"
  shader,    \* _shader of each material
  buffers,   \* slots of each material with a constant buffer
  vsBuffers, \* VSConstantBuffers of each material, as slots
  psBuffers, \* PSConstantBuffers of each material, as slots
  params,    \* _constantBuffer of each material: how often it was changed
  content,   \* what was written to the constant buffers of each material
  vsBound,   \* buffers bound to the vertex stage, <<material, slot>>, by slot
  psBound,   \* the same for the pixel stage
  joints,    \* the frame whose pose the buffers bound to t3 and t4 hold
  frame,     \* frames begun
  drawn      \* the mesh of the last step, if that was a draw

inputs == <<kind, material, vsOrder, psOrder, caches>>
shaders == <<stage, objects, failed>>
buffer == <<buffers, vsBuffers, psBuffers>>
context == <<vsBound, psBound, joints>>
vars == <<inputs, phase, shaders, shader, buffer, params, content, context, frame, drawn>>

Empty == [k \in Slots |-> Nothing]

-----------------------------------------------------------------------------
Init ==
  /\ kind \in [Meshes -> {"Rigid", "Skinned"}]
  /\ material \in [Meshes -> Materials]
  /\ vsOrder \in {f \in [Shaders -> UNION {VSOrders[s] : s \in Shaders}] :
                   \A s \in Shaders : f[s] \in VSOrders[s]}
  /\ psOrder \in PSOrders
  /\ caches \in {{}, {"Skeleton"}, {"Skeleton", "Anim"}}
  /\ phase = "Compile"
  /\ stage = [s \in Shaders |-> "JustCreated"]
  /\ objects = [s \in Shaders |-> {}]
  /\ failed = [s \in Shaders |-> "none"]
  /\ shader = [m \in Materials |-> Nothing]
  /\ buffers = [m \in Materials |-> {}]
  /\ vsBuffers = [m \in Materials |-> <<>>]
  /\ psBuffers = [m \in Materials |-> <<>>]
  /\ params = [m \in Materials |-> 0]
  /\ content = [m \in Materials |-> Empty]
  /\ vsBound = Empty
  /\ psBound = Empty
  /\ joints = Nothing
  /\ frame = 0
  /\ drawn = Nothing

\* The loops over the shaders take the default one first and stop at a failure.
Turn(s, from, to) ==
  /\ stage[s] = from
  /\ s = Skinned => stage[Rigid] = to
  /\ failed = [t \in Shaders |-> "none"]

\* SSShaderAsset::Release goes by the stage: what was created towards the next one
\* is not looked at.
Unreleased(s) ==
  objects[s] \ CASE stage[s] = "Instantiated" -> {"Layout", "VS", "PS", "VSBlob", "PSBlob"}
                 [] stage[s] = "Compiled"     -> {"VSBlob", "PSBlob"}
                 [] stage[s] = "JustCreated"  -> {}

CompileShader(s) ==
  /\ phase = "Compile"
  /\ Turn(s, "JustCreated", "Compiled")
  /\ stage' = [stage EXCEPT ![s] = "Compiled"]
  /\ objects' = [objects EXCEPT ![s] = {"VSBlob", "PSBlob"}]
  /\ phase' = IF s = Skinned THEN "Instantiate" ELSE phase
  /\ UNCHANGED <<inputs, failed, shader, buffer, params, content, context, frame, drawn>>

\* Up to D3DReflect a failing step releases what the earlier ones made; one that
\* fails while the reflection is read leaves both blobs.  InitShaderManager then breaks,
\* and if a debugger goes on it releases the shaders.
CompileShaderFails(s) ==
  /\ phase = "Compile"
  /\ Turn(s, "JustCreated", "Compiled")
  /\ phase' \in {"Stopped", "Released"}
  /\ \E step \in {"VS", "PS", "Reflect", "Describe"} :
       /\ failed' = [failed EXCEPT ![s] = step]
       /\ objects' = [t \in Shaders |->
                        IF t # s THEN IF phase' = "Released" THEN Unreleased(t) ELSE objects[t]
                        ELSE IF step = "Describe" THEN {"VSBlob", "PSBlob"} ELSE {}]
  /\ UNCHANGED <<inputs, stage, shader, buffer, params, content, context, frame, drawn>>

InstantiateShader(s) ==
  /\ phase = "Instantiate"
  /\ Turn(s, "Compiled", "Instantiated")
  /\ stage' = [stage EXCEPT ![s] = "Instantiated"]
  /\ objects' = [objects EXCEPT ![s] = {"VS", "PS", "Layout"}]
  /\ phase' = IF s = Skinned THEN "Materials" ELSE phase
  /\ UNCHANGED <<inputs, failed, shader, buffer, params, content, context, frame, drawn>>

\* A pixel shader that fails takes the vertex shader with it, a layout that fails
\* takes nothing.  InstantiateAllShader breaks; InitShaderManager does not keep its result.
InstantiateShaderFails(s) ==
  /\ phase = "Instantiate"
  /\ Turn(s, "Compiled", "Instantiated")
  /\ \E step \in {"VS", "PS", "Layout"} :
       /\ failed' = [failed EXCEPT ![s] = step]
       /\ objects' = [objects EXCEPT ![s] = @ \cup IF step = "Layout" THEN {"VS", "PS"} ELSE {}]
  /\ phase' \in {"Stopped", "Materials"}
  /\ UNCHANGED <<inputs, stage, shader, buffer, params, content, context, frame, drawn>>

-----------------------------------------------------------------------------
\* Mutant: the constructor takes any shader it finds.
AnyStage(s) == TRUE

ShaderReady(s) == stage[s] = "Instantiated"

\* The constructor of the first material wants the default shader; without it the
\* material stays without a name, which its manager's table asserts.
CreateTempMaterials ==
  /\ phase = "Materials"
  /\ IF ShaderReady(Rigid)
     THEN phase' = "Import" /\ shader' = [shader EXCEPT ![EmptyMaterial] = Rigid]
     ELSE phase' = "Stopped" /\ UNCHANGED shader
  /\ UNCHANGED <<inputs, shaders, buffer, params, content, context, frame, drawn>>

\* Mutant: the importer does not look at the type of the mesh.
ReshadedByAny == {material[d] : d \in Meshes} \ {EmptyMaterial}

\* Materials a skinned mesh finds under the name of its own, whose shader changes.
Reshaded == {material[d] : d \in {e \in Meshes : kind[e] = "Skinned"}} \ {EmptyMaterial}

\* ChangeShader looks at the stage of the new shader; it breaks, and a debugger may
\* go on with the old one.
ImportMaterials ==
  /\ phase = "Import"
  /\ shader' = [m \in Materials |->
                  IF m \in Reshaded /\ ShaderReady(Skinned) THEN Skinned ELSE Rigid]
  /\ \/ phase' = "Upload"
     \/ phase' = "Stopped" /\ Reshaded # {} /\ ~ShaderReady(Skinned)
  /\ UNCHANGED <<inputs, shaders, buffer, params, content, context, frame, drawn>>

\* EntireCBReflectionInfo of a shader, as slots: the slots that either stage reads.
EntireSlots(s) == VSSlots(s) \cup PSSlots
EntireConstBufferNum(s) == Cardinality(EntireSlots(s))

Ascending(S) ==
  CHOOSE q \in [1 .. Cardinality(S) -> S] : \A i, j \in DOMAIN q : i < j => q[i] < q[j]

\* SyncAllGPUBuffer counts up to the number of buffers; SSPbrMaterialAsset has system
\* data for the buffer of its parameters only.
Synced(m) ==
  [k \in Slots |-> IF k = 2 /\ k < EntireConstBufferNum(shader[m])
                  THEN params'[m] ELSE content[m][k]]

\* Each material gets a buffer for every slot, and lists those of a stage by slot.
InstantiateAllMaterials ==
  /\ phase = "Upload"
  /\ buffers' = [m \in Materials |-> EntireSlots(shader[m])]
  /\ vsBuffers' = [m \in Materials |-> Ascending(VSSlots(shader[m]))]
  /\ psBuffers' = [m \in Materials |-> Ascending(PSSlots)]
  /\ UNCHANGED params
  /\ content' = [m \in Materials |-> Synced(m)]
  /\ phase' = "Frames"
  /\ UNCHANGED <<inputs, shaders, shader, context, frame, drawn>>

-----------------------------------------------------------------------------
\* The start of PerFrame: the bones are drawn if there is a skeleton, from an animation
\* that need not be there.
BeginFrame ==
  /\ phase = "Frames"
  /\ caches # {"Skeleton"}
  /\ frame < MaxFrames
  /\ frame' = frame + 1
  /\ drawn' = Nothing
  /\ UNCHANGED <<inputs, phase, shaders, shader, buffer, params, content, context>>

BonesWithoutAnim ==
  /\ phase = "Frames"
  /\ caches = {"Skeleton"}
  /\ phase' = "Stopped"
  /\ drawn' = Nothing
  /\ UNCHANGED <<inputs, shaders, shader, buffer, params, content, context, frame>>

\* The editor's button "Sync Material Param", before the draws of a frame.
SyncMaterialParam(m) ==
  /\ phase = "Frames"
  /\ frame > 0
  /\ params[m] < MaxEdits
  /\ params' = [params EXCEPT ![m] = @ + 1]
  /\ content' = [content EXCEPT ![m] = Synced(m)]
  /\ drawn' = Nothing
  /\ UNCHANGED <<inputs, phase, shaders, shader, buffer, context, frame>>

\* Mutant: the structured buffers are counted off for every shader.
TwoFewer(s) == Len(vsOrder[s]) - 2

\* BindMaterial puts buffer i of a stage's list into the slot that the reflection
\* lists at i; of the skinned shader's list it leaves out the last two.
BoundCount(s) == Len(vsOrder[s]) - IF s = Skinned THEN 2 ELSE 0

Bind(bound, m, slots, own, count) ==
  [k \in Slots |-> IF \E i \in 1 .. count : slots[i] = k
                  THEN <<m, own[CHOOSE i \in 1 .. count : slots[i] = k]>>
                  ELSE bound[k]]

BindMaterial(m) ==
  /\ vsBound' = Bind(vsBound, m, vsOrder[shader[m]], vsBuffers[m], BoundCount(shader[m]))
  /\ psBound' = Bind(psBound, m, psOrder, psBuffers[m], Len(psOrder))

\* BindSkeleton and BindSkeletonAnim use what BeginFrame has found.
Posable(d) == kind[d] = "Skinned" => caches = {"Skeleton", "Anim"}

DrawWithoutPose(d) ==
  /\ phase = "Frames"
  /\ frame > 0
  /\ ~Posable(d)
  /\ BindMaterial(material[d])
  /\ phase' = "Stopped"
  /\ drawn' = Nothing
  /\ UNCHANGED <<inputs, shaders, shader, buffer, params, content, joints, frame>>

\* One round of the loop in TraverseModelCombinationAndDraw.  Every material of a
\* frame has its buffers, so BindModel does not return early.
DrawModel(d) ==
  /\ phase = "Frames"
  /\ frame > 0
  /\ Posable(d)
  /\ BindMaterial(material[d])
  /\ joints' = IF kind[d] = "Skinned" THEN frame ELSE joints
  /\ content' = [content EXCEPT ![material[d]][1] = frame, ![material[d]][0] = d]
  /\ drawn' = d
  /\ UNCHANGED <<inputs, phase, shaders, shader, buffer, params, frame>>

\* Mutant: the release starts where the release of the system buffers does.
FromParams(m) == 2 .. EntireConstBufferNum(shader[m]) - 1

\* The slots ReleaseGPUBuffer looks at: it counts up to the number of buffers.
ReleasedSlots(m) == 0 .. EntireConstBufferNum(shader[m]) - 1

\* ReleaseAllMaterials, and later ReleaseAllShader.
CleanUp ==
  /\ phase = "Frames"
  /\ buffers' = [m \in Materials |-> buffers[m] \ ReleasedSlots(m)]
  /\ objects' = [s \in Shaders |-> Unreleased(s)]
  /\ phase' = "Released"
  /\ drawn' = Nothing
  /\ UNCHANGED <<inputs, stage, failed, shader, vsBuffers, psBuffers, params, content,
                 context, frame>>

Next ==
  \/ \E s \in Shaders : \/ CompileShader(s) \/ CompileShaderFails(s)
                       \/ InstantiateShader(s) \/ InstantiateShaderFails(s)
  \/ CreateTempMaterials
  \/ ImportMaterials
  \/ InstantiateAllMaterials
  \/ BeginFrame
  \/ BonesWithoutAnim
  \/ \E m \in Materials : SyncMaterialParam(m)
  \/ \E d \in Meshes : DrawModel(d) \/ DrawWithoutPose(d)
  \/ CleanUp

Spec == Init /\ [][Next]_vars

-----------------------------------------------------------------------------
\* The state is what the declarations in the code say, and the shaders' stages are
\* those of the program's phase.
TypeOK ==
  /\ stage \in [Shaders -> {"JustCreated", "Compiled", "Instantiated"}]
  /\ objects \in [Shaders -> SUBSET {"VSBlob", "PSBlob", "VS", "PS", "Layout"}]
  /\ shader \in [Materials -> Shaders \cup {Nothing}]
  /\ buffers \in [Materials -> SUBSET Slots]
  /\ params \in [Materials -> 0 .. MaxEdits]
  /\ \A m \in Materials : \A k \in Slots :
       content[m][k] \in {Nothing} \cup CASE k = 0 -> Meshes
                                          [] k = 1 -> 1 .. MaxFrames
                                          [] k = 2 -> 0 .. MaxEdits
                                          [] OTHER -> {}
  /\ vsBound \in [Slots -> {Nothing} \cup (Materials \X Slots)]
  /\ psBound \in [Slots -> {Nothing} \cup (Materials \X Slots)]
  /\ joints \in {Nothing} \cup 1 .. frame
  /\ phase = "Frames" => stage[Rigid] = "Instantiated"

\* The reflection lists the constant buffers before the structured ones, and each
\* stage's by slot.
Orderly(s) ==
  /\ vsOrder[s][1] = 0 /\ vsOrder[s][2] = 1
  /\ psOrder = <<1, 2>>

\* BindMaterial pairs two lists that are sorted differently, and counts two off for
\* one shader.  A draw reads the buffers of its own material, with its own transform,
\* this frame's parameters and the material's last ones, exactly if the reflection
\* happens to be orderly; whatever was bound or written by the draws before it.
DrawReadsItsOwn ==
  drawn # Nothing =>
    LET m == material[drawn]
        Own(bound, k) == bound[k] = <<m, k>>
    IN  /\ Orderly(shader[m]) <=> /\ \A k \in VSConstants : Own(vsBound, k)
                                 /\ \A k \in PSSlots : Own(psBound, k)
        /\ content[m][0] = drawn /\ content[m][1] = frame /\ content[m][2] = params[m]

\* The skinned shader reads t3 and t4, which only the draws of skinned meshes bind.
\* It never runs without a pose, and never on one of an earlier frame, but for a rigid
\* mesh that shares its material with a skinned one.
SkinsArePosed ==
  drawn # Nothing /\ shader[material[drawn]] = Skinned /\ joints # frame =>
    /\ kind[drawn] = "Rigid"
    /\ \E d \in Meshes : kind[d] = "Skinned" /\ material[d] = material[drawn]

\* After the clean-up no constant buffer is left, although the release counts to the
\* number of buffers and the slots are sparse for each stage; and of the shaders
\* exactly those have lost an object whose reflection could not be read or whose
\* layout could not be created.
ReleaseLeavesNothing ==
  phase = "Released" =>
    /\ \A m \in Materials : buffers[m] = {}
    /\ \A s \in Shaders : objects[s] # {} <=> failed[s] \in {"Describe", "Layout"}

=============================================================================
