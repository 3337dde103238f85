-------------------------- MODULE RendererLifecycle --------------------------
(***************************************************************************)
(* From SSRenderer::Init through the frames to SSRenderer::CleanUp, as     *)
(* wWinMain runs them: Direct3D objects and singletons come into being one *)
(* after the other, any step of Direct3D, of the shader compiler or of a   *)
(* file may fail, and CleanUp walks the managers in the opposite order,    *)
(* also when Init gave up half way.                                        *)
(*                                                                         *)
(* The build is the debug build: an assertion that fails stops the         *)
(* program, and __debugbreak stops it unless a debugger lets it continue.  *)
(* The assets of one manager are followed together, but the two shaders.   *)
(***************************************************************************)
EXTENDS Naturals, Sequences, SequencesExt

CONSTANT MaxFrames  \* bound on the frames counted

ASSUME FramesAssumption == MaxFrames \in Nat

VARIABLES
  pc,         \* where wWinMain is
  debugger,   \* a debugger is attached and continues from every __debugbreak
  d3d,        \* Direct3D objects that exist
  instances,  \* singletons whose g_instance is not null
  assets,     \* [Managers -> {"none", "live", "deleted"}]
  gpu,        \* [Owners -> GpuStates]: what the assets of a manager own on the GPU
  stage,      \* [Shaders -> Stages]
  twice,      \* managers whose assets were deleted a second time
  result,     \* of Init: "running", "ok" or the step that failed
  frames      \* frames drawn

vars == <<pc, debugger, d3d, instances, assets, gpu, stage, twice, result, frames>>
objects == <<d3d, instances, assets, gpu, stage, twice>>

Managers == {"Shader", "Texture", "Material", "Skeleton", "SkeletonAnim",
             "Geometry", "Model", "ModelCombination"}

\* Managers whose assets own GPU objects: none of what they need, all of it, a part, or
\* a joint buffer whose view could not be made.
Owners == {"Texture", "Material", "Skeleton", "SkeletonAnim", "Geometry"}
GpuStates == {"none", "whole", "part", "viewless"}

\* A shader owns nothing, its compiled blobs, two shader objects without their input
\* layout, or everything; or objects that it owned are lost.
Shaders == {"SSDefaultPbrShader", "SSDefaultPbrSkinnedShader"}
Stages == {"none", "Compiled", "Unlaid", "Instantiated", "Lost"}
Default == "SSDefaultPbrShader"
Skinned == "SSDefaultPbrSkinnedShader"

\* What Init creates of Direct3D, in this order.
D3DSteps == <<"Device", "Factory", "SwapChain", "BackBuffer", "TargetView",
              "DepthStencil", "DepthView">>

\* The order in which CleanUp gets, empties and releases the managers.
CleanUpOrder == <<"ModelCombination", "Model", "Geometry", "SkeletonAnim",
                  "Skeleton", "Material", "Texture", "Shader">>

After(seq, x) == seq[CHOOSE i \in 1 .. Len(seq) : i > 1 /\ seq[i - 1] = x]

-----------------------------------------------------------------------------
\* InitWindow has shown the window: its procedure created the clock on WM_SIZE, and
\* the input if the pointer or the focus moved.
Init ==
  /\ pc = "Device"
  /\ debugger \in BOOLEAN
  /\ d3d = {}
  /\ \E input \in SUBSET {"Input"} : instances = {"FrameInfo"} \cup input
  /\ assets = [m \in Managers |-> "none"]
  /\ gpu = [m \in Owners |-> "none"]
  /\ stage = [s \in Shaders |-> "none"]
  /\ twice = {}
  /\ result = "running"
  /\ frames = 0

\* Mutant: the failing step returns the code of an earlier one, which succeeded.
FailUnrecorded(step) ==
  /\ pc' = IF debugger THEN "ModelCombination" ELSE "Stopped"
  /\ UNCHANGED <<debugger, result, frames>>

\* A step of Init returns a failure; wWinMain breaks and calls CleanUp.
Fail(step) ==
  /\ result' = step
  /\ pc' = IF debugger THEN "ModelCombination" ELSE "Stopped"
  /\ UNCHANGED <<debugger, frames>>

GoOn(next) == pc' = next /\ UNCHANGED <<debugger, result, frames>>

CreateD3DObject(step) ==
  /\ pc = step
  /\ \/ /\ d3d' = d3d \cup {step}
        /\ GoOn(IF step = Last(D3DSteps) THEN "Sampler" ELSE After(D3DSteps, step))
     \/ Fail(step) /\ UNCHANGED d3d
  /\ UNCHANGED <<instances, assets, gpu, stage, twice>>

\* ImGui is set up on the device before this, and never fails.
InstantiateSamplerPool ==
  /\ pc = "Sampler"
  /\ instances' = instances \cup {"Sampler"}
  /\ GoOn("InitShaders")
  /\ UNCHANGED <<d3d, assets, gpu, stage, twice>>

\* Deleting the assets of m leaves the pointers in its list.
Deleted(ms) == [m \in Managers |-> IF m \in ms /\ assets[m] = "live" THEN "deleted" ELSE assets[m]]
DeletedAgain(ms) == twice \cup {m \in ms : assets[m] = "deleted"}

\* InitShaderManager inserts the two shaders and compiles them; if that fails they
\* are released at once.
ShadersNotCompiled ==
  /\ assets' = [assets EXCEPT !["Shader"] = "deleted"]
  /\ Fail("InitShaders")
  /\ UNCHANGED stage

ShadersAt(default, skinned) == [s \in Shaders |-> IF s = Default THEN default ELSE skinned]

\* InstantiateAllShader stops at the first shader that fails: the one whose layout cannot
\* be made keeps its shader objects and stays at Compiled.  The result is not stored: the
\* failure breaks once, inside, and Init goes on.
ShadersCompiled ==
  /\ assets' = [assets EXCEPT !["Shader"] = "live"]
  /\ \/ /\ stage' = ShadersAt("Instantiated", "Instantiated")
        /\ GoOn("LoadTextures")
     \/ /\ \E left \in {"Compiled", "Unlaid"} :
             stage' \in {ShadersAt(left, "Compiled"), ShadersAt("Instantiated", left)}
        /\ GoOn(IF debugger THEN "LoadTextures" ELSE "Stopped")

InitShaderManager ==
  /\ pc = "InitShaders"
  /\ instances' = instances \cup {"Shader"}
  /\ ShadersNotCompiled \/ ShadersCompiled
  /\ UNCHANGED <<d3d, gpu, twice>>

\* LoadTextures: the list may be empty.
TexturesLoaded ==
  \/ UNCHANGED <<assets, gpu>>
  \/ /\ assets' = [assets EXCEPT !["Texture"] = "live"]
     /\ gpu' = [gpu EXCEPT !["Texture"] = "whole"]

\* The list does not open, or a texture does not load, others being on the GPU by then.
TexturesFailed ==
  \/ UNCHANGED <<assets, gpu>>
  \/ /\ assets' = [assets EXCEPT !["Texture"] = "live"]
     /\ \E done \in {"none", "part"} : gpu' = [gpu EXCEPT !["Texture"] = done]

\* A list that does not parse, or with a name twice, stops the program.
LoadTextures ==
  /\ pc = "LoadTextures"
  /\ instances' = instances \cup {"Texture"}
  /\ \/ TexturesLoaded /\ GoOn("Pools")
     \/ TexturesFailed /\ Fail("LoadTextures")
     \/ GoOn("Stopped") /\ UNCHANGED <<assets, gpu>>
  /\ UNCHANGED <<d3d, stage, twice>>

\* Mutant: the material's constructor does not look at its shader's stage.
AnyShader == TRUE

\* A material can be made: its constructor wants the default shader instantiated, and
\* otherwise leaves the material without a name, which the table's TryInsert asserts.
ShaderReady == stage[Default] = "Instantiated"

CreateTempMaterialsAsserts ==
  /\ pc = "Pools"
  /\ ~ShaderReady
  /\ instances' = instances \cup {"Material"}
  /\ GoOn("Stopped")
  /\ UNCHANGED <<d3d, assets, gpu, stage, twice>>

\* The other managers, and the default material.
InstantiateManagers ==
  /\ pc = "Pools"
  /\ ShaderReady
  /\ instances' = instances \cup {"Material", "Skeleton", "SkeletonAnim",
                                  "Geometry", "Model", "ModelCombination"}
  /\ assets' = [assets EXCEPT !["Material"] = "live"]
  /\ GoOn("DirectionMesh")
  /\ UNCHANGED <<d3d, gpu, stage, twice>>

\* What a file may hold: an animation only with a skeleton, a geometry only with
\* a model, and a combination always.
Imports == {new \in SUBSET {"Skeleton", "SkeletonAnim", "Geometry", "Model"} :
              /\ "SkeletonAnim" \in new => "Skeleton" \in new
              /\ "Geometry" \in new <=> "Model" \in new}

\* The file may not open; what an earlier file brought stays.  An assertion of the
\* importer stops the program.
ImportFile(file, next) ==
  /\ pc = file
  /\ \/ /\ \E new \in Imports :
             assets' = [m \in Managers |-> IF m \in new \cup {"ModelCombination"}
                                           THEN "live" ELSE assets[m]]
        /\ GoOn(next)
     \/ Fail(file) /\ UNCHANGED assets
     \/ GoOn("Stopped") /\ UNCHANGED assets
  /\ UNCHANGED <<d3d, instances, gpu, stage, twice>>

Live(ms) == {m \in ms : assets[m] = "live"}

\* What is on the GPU when a manager has instantiated its assets: whether CreateBuffer
\* succeeded is not asked for materials, and only logged, with a break, for the joint
\* buffers of skeletons and animations and for their views.
Outcomes(m) ==
  IF assets[m] # "live" THEN {gpu[m]}
  ELSE IF m = "Material" THEN {"whole", "part"}
  ELSE IF debugger THEN GpuStates
  ELSE {"whole"}

\* The program stops in a break, or in the update of a buffer that is null.
InstantiateOnGPU ==
  /\ pc = "Instantiate"
  /\ \/ /\ \E mat \in Outcomes("Material"), skeleton \in Outcomes("Skeleton"),
              anim \in Outcomes("SkeletonAnim") :
             gpu' = [gpu EXCEPT !["Material"] = mat, !["Skeleton"] = skeleton,
                                !["SkeletonAnim"] = anim]
        /\ GoOn("Upload")
     \/ GoOn("Stopped") /\ UNCHANGED gpu
  /\ UNCHANGED <<d3d, instances, assets, stage, twice>>

\* SendAllGeometryAssetToGPUTemp; when a buffer cannot be created Init releases the
\* materials and returns.
SendAllGeometryToGPU ==
  /\ pc = "Upload"
  /\ \/ /\ gpu' = IF assets["Geometry"] = "live" THEN [gpu EXCEPT !["Geometry"] = "whole"]
                                                  ELSE gpu
        /\ pc' = "BeginFrame"
        /\ result' = "ok"
        /\ UNCHANGED <<assets, twice, debugger, frames>>
     \/ /\ assets["Geometry"] = "live"
        /\ \E done \in {"none", "part"} :
             gpu' = [gpu EXCEPT !["Geometry"] = done, !["Material"] = "none"]
        /\ assets' = Deleted({"Material"})
        /\ twice' = DeletedAgain({"Material"})
        /\ Fail("Upload")
  /\ UNCHANGED <<d3d, instances, stage>>

-----------------------------------------------------------------------------
BeginFrame ==
  /\ pc = "BeginFrame"
  /\ instances' = instances \cup {"Input", "FrameInfo", "Camera"}
  /\ GoOn("Loop")
  /\ UNCHANGED <<d3d, assets, gpu, stage, twice>>

PerFrame ==
  /\ pc = "Loop"
  /\ frames < MaxFrames
  /\ frames' = frames + 1
  /\ UNCHANGED <<pc, debugger, result, objects>>

\* What is missing on the GPU of assets that exist.
Missing == {m \in Owners : assets[m] = "live" /\ gpu[m] # "whole"}

\* A frame updates the buffers it draws from, and binds textures: what is missing may stop
\* the program.
FrameStops ==
  /\ pc = "Loop"
  /\ Missing # {} \/ assets["Texture"] # "live"
  /\ GoOn("Stopped")
  /\ UNCHANGED objects

Quit ==
  /\ pc = "Loop"
  /\ GoOn("ModelCombination")
  /\ UNCHANGED objects

\* Get() asserts that the singleton exists.
GetAsserts(m) ==
  /\ pc = m
  /\ m \notin instances
  /\ GoOn("AssertedNull")
  /\ UNCHANGED objects

\* Mutant: the assets' GPU objects are not given back.
ReleaseManagerSystemOnly(m) ==
  /\ assets' = Deleted({m})
  /\ twice' = DeletedAgain({m})
  /\ UNCHANGED <<gpu, stage>>

\* Mutant: the assets are released again by the destructor of the manager.
ReleaseManagerTwice(m) ==
  /\ assets' = Deleted({m})
  /\ twice' = DeletedAgain({m}) \cup Live({m})
  /\ gpu' = [o \in Owners |-> IF o = m THEN "none" ELSE gpu[o]]
  /\ stage' = IF m = "Shader" THEN [s \in Shaders |-> "none"] ELSE stage

\* A shader at Compiled gives back its blobs only, whatever else it has.
Released(s) == IF stage[s] = "Unlaid" THEN "Lost" ELSE "none"

\* GPU objects and assets of a manager are released.
ReleaseAssets(m) ==
  /\ assets' = Deleted({m})
  /\ twice' = DeletedAgain({m})
  /\ gpu' = [o \in Owners |-> IF o = m THEN "none" ELSE gpu[o]]
  /\ stage' = IF m = "Shader" THEN [s \in Shaders |-> Released(s)] ELSE stage

\* The view of a joint buffer is released without a look whether there is one.
Viewless(m) == m \in Owners /\ gpu[m] = "viewless"

CleanUpManager(m) ==
  /\ pc = m
  /\ m \in instances
  /\ ~Viewless(m)
  /\ ReleaseAssets(m)
  /\ instances' = instances \ {m}
  /\ GoOn(IF m = Last(CleanUpOrder) THEN "Rest" ELSE After(CleanUpOrder, m))
  /\ UNCHANGED d3d

\* A null view, and perhaps assets that were deleted before, stop the program.
CleanUpStops(m) ==
  /\ pc = m
  /\ m \in instances
  /\ Viewless(m) \/ assets[m] = "deleted"
  /\ GoOn("Stopped")
  /\ UNCHANGED objects

\* The sampler pool, the camera, ImGui, every Direct3D object that exists, then,
\* in wWinMain, the singletons of the input and of the clock.
CleanUpRest ==
  /\ pc = "Rest"
  /\ instances' = instances \ ({"Sampler", "Camera"} \cup
                     (IF result = "ok" THEN {"Input", "FrameInfo"} ELSE {}))
  /\ d3d' = {}
  /\ GoOn("Exit")
  /\ UNCHANGED <<assets, gpu, stage, twice>>

Next ==
  \/ \E i \in DOMAIN D3DSteps : CreateD3DObject(D3DSteps[i])
  \/ InstantiateSamplerPool
  \/ InitShaderManager
  \/ LoadTextures
  \/ CreateTempMaterialsAsserts
  \/ InstantiateManagers
  \/ ImportFile("DirectionMesh", "ChosenFile")
  \/ ImportFile("ChosenFile", "Instantiate")
  \/ InstantiateOnGPU
  \/ SendAllGeometryToGPU
  \/ BeginFrame
  \/ PerFrame
  \/ FrameStops
  \/ Quit
  \/ \E m \in Managers : GetAsserts(m) \/ CleanUpManager(m) \/ CleanUpStops(m)
  \/ CleanUpRest

Spec == Init /\ [][Next]_vars

-----------------------------------------------------------------------------
Singletons == Managers \cup {"Sampler", "Camera", "Input", "FrameInfo"}

Places == Managers \cup Range(D3DSteps) \cup
  {"Sampler", "InitShaders", "LoadTextures", "Pools", "DirectionMesh", "ChosenFile",
   "Instantiate", "Upload", "BeginFrame", "Loop", "Rest", "Exit", "Stopped", "AssertedNull"}

TypeOK ==
  /\ pc \in Places
  /\ debugger \in BOOLEAN
  /\ d3d \subseteq Range(D3DSteps)
  /\ instances \subseteq Singletons
  /\ assets \in [Managers -> {"none", "live", "deleted"}]
  /\ gpu \in [Owners -> GpuStates]
  /\ stage \in [Shaders -> Stages]
  /\ twice \subseteq Managers
  /\ result \in {"running", "ok"} \cup Places
  /\ result = "running" => pc \notin Managers \cup {"BeginFrame", "Loop", "Rest", "Exit"}
  /\ frames \in 0 .. MaxFrames

\* Frames are drawn only with every Direct3D object and manager in place, the default
\* material and its shader, and all textures and geometry that there are on the GPU.  That
\* includes the default shader, though no one looks at InstantiateAllShader's result:
\* without it the default material could not have been registered.  What may be missing is
\* what Init does not look at: buffers of materials and, if a debugger has passed over the
\* break, joint buffers and the skinned shader.
FramesEquipped ==
  pc = "Loop" =>
    /\ d3d = Range(D3DSteps)
    /\ Singletons \subseteq instances \cup {"Input"}
    /\ {"Material", "Shader"} \subseteq Live(Managers)
    /\ stage[Default] = "Instantiated"
    /\ Missing \subseteq {"Material"} \cup (IF debugger THEN {"Skeleton", "SkeletonAnim"} ELSE {})
    /\ stage[Skinned] = "Instantiated" \/ debugger

\* The program that leaves by the end of CleanUp has given back what it created,
\* whichever step of Init had failed before; but for the two singletons of wWinMain itself
\* when Init failed, and the shader objects of a skinned shader whose input layout could
\* not be made and whose break a debugger has passed over.
CleanExit ==
  pc = "Exit" =>
    /\ d3d = {} /\ Live(Managers) = {}
    /\ gpu = [m \in Owners |-> "none"]
    /\ stage[Default] = "none"
    /\ stage[Skinned] = "none" \/ (stage[Skinned] = "Lost" /\ debugger)
    /\ instances \subseteq {"Input", "FrameInfo"}
    /\ result = "ok" => instances = {}

\* Init's own release of the materials, when geometry cannot be sent to the GPU, is
\* the only way to delete assets that CleanUp deletes again.
TwiceOnlyAfterFailedUpload == twice # {} => twice = {"Material"} /\ result = "Upload"

\* The assertion of the singletons' Get(): there is an instance to be had.
InstanceExists == pc # "AssertedNull"

=============================================================================
