------------------------ MODULE RendererLifecycleProofs ------------------------
(***************************************************************************)
(* The life of the program, whichever steps fail: frames find all they     *)
(* need, the clean-up that gets to its end leaves nothing, and only the    *)
(* materials can be released twice.                                        *)
(*                                                                         *)
(* The inductive invariant says what each step of Init has come to rely    *)
(* on (Built), and how far CleanUp has got (Cleaned).  That the shaders    *)
(* which InitShaderManager has released are not released again rests on    *)
(* the assertion in Get(): the clean-up does not get past a manager that   *)
(* never was (Undeleted).  So does that a clean-up to the end found the    *)
(* default shader instantiated (Shaded).                                   *)
(***************************************************************************)
EXTENDS RendererLifecycle, TLAPS

PoolsOn == {"DirectionMesh", "ChosenFile", "Instantiate", "Upload", "BeginFrame", "Loop"}
TexturesOn == {"Pools"} \cup PoolsOn
ShadersOn == {"LoadTextures"} \cup TexturesOn
SamplersOn == {"InitShaders"} \cup ShadersOn
D3DOn == {"Sampler"} \cup SamplersOn
Building == Range(D3DSteps) \cup D3DOn

\* All assets of m that there are are on the GPU.
Whole(m) == assets[m] = "live" => gpu[m] = "whole"

\* What exists at each step on the way to the frames.
Built ==
  /\ \A i \in 1 .. 7 : pc = D3DSteps[i] => d3d = {D3DSteps[j] : j \in 1 .. i - 1}
  /\ pc \in D3DOn => d3d = Range(D3DSteps)
  /\ pc \in Building => "FrameInfo" \in instances
  /\ pc \in Building \ PoolsOn => "ModelCombination" \notin instances
  /\ pc \in SamplersOn => "Sampler" \in instances
  /\ pc \in ShadersOn => "Shader" \in instances /\ assets["Shader"] = "live"
  /\ pc \in Building \ TexturesOn => assets["Texture"] # "live"
  /\ pc \in TexturesOn =>
       "Texture" \in instances /\ Whole("Texture")
  /\ pc \in PoolsOn => Managers \subseteq instances /\ assets["Material"] = "live"
  /\ pc \in {"Upload", "BeginFrame", "Loop"} /\ ~debugger =>
       Whole("Skeleton") /\ Whole("SkeletonAnim")
  /\ pc \in {"BeginFrame", "Loop"} => Whole("Geometry") /\ result = "ok"
  /\ pc = "Loop" => "Camera" \in instances

\* A manager is gone, with its assets.
Gone(m) ==
  /\ m \notin instances /\ assets[m] # "live"
  /\ m \in Owners => gpu[m] = "none"

Cleaned ==
  /\ \A i, j \in 1 .. 8 : pc = CleanUpOrder[j] /\ i < j => Gone(CleanUpOrder[i])
  /\ pc \in {"Rest", "Exit"} => \A i \in 1 .. 8 : Gone(CleanUpOrder[i])
  /\ pc = "Exit" => d3d = {} /\ instances \cap {"Sampler", "Camera"} = {}
  /\ pc = "Exit" /\ result = "ok" => instances \cap {"Input", "FrameInfo"} = {}

\* What is deleted before its turn: nothing on the way to the frames, and then only
\* the materials, unless the clean-up is about to stop.
Undeleted ==
  /\ pc \in Building => twice = {} /\ \A m \in Managers : assets[m] # "deleted"
  /\ \A i, j \in 1 .. 8 :
       /\ pc = CleanUpOrder[j]
       /\ j <= i
       /\ j = 1 => "ModelCombination" \in instances
       /\ assets[CleanUpOrder[i]] = "deleted"
       => CleanUpOrder[i] = "Material" /\ result = "Upload"

CoreInv == TypeOK /\ Built /\ Cleaned /\ Undeleted /\ TwiceOnlyAfterFailedUpload

\* The default shader is instantiated from where the other managers were until its own
\* release; the skinned one may fail, if a debugger passes over the break.
Shaded ==
  /\ "ModelCombination" \in instances \/ pc \in Managers \ {"ModelCombination"} =>
       stage[Default] = "Instantiated"
  /\ pc \in ShadersOn /\ ~debugger => stage[Skinned] = "Instantiated"
  /\ stage[Skinned] \in {"Unlaid", "Lost"} => debugger \/ pc = "Stopped"
  /\ pc \in {"Rest", "Exit"} => stage[Default] = "none" /\ stage[Skinned] \in {"none", "Lost"}

IInv == CoreInv /\ Shaded

-----------------------------------------------------------------------------
\* Nothing occurs twice in the two orders, and After goes through them.
LEMMA NextInOrder ==
  ASSUME NEW S, NEW seq \in Seq(S), NEW j \in 1 .. Len(seq) - 1,
         \A a, b \in 1 .. Len(seq) : seq[a] = seq[b] => a = b
  PROVE  After(seq, seq[j]) = seq[j + 1]
<1> DEFINE k == CHOOSE i \in 1 .. Len(seq) : i > 1 /\ seq[i - 1] = seq[j]
<1>1. j + 1 \in 1 .. Len(seq) /\ j + 1 > 1 /\ seq[(j + 1) - 1] = seq[j]
  OBVIOUS
<1>2. k \in 1 .. Len(seq) /\ k > 1 /\ seq[k - 1] = seq[j]
  BY <1>1
<1>3. k - 1 = j
  BY <1>2
<1> QED
  BY <1>2, <1>3 DEF After

LEMMA CleaningOrder ==
  /\ \A j \in 1 .. 8 : CleanUpOrder[j] \in Managers
  /\ \A m \in Managers : \E j \in 1 .. 8 : m = CleanUpOrder[j]
  /\ \A a, b \in 1 .. 8 : CleanUpOrder[a] = CleanUpOrder[b] => a = b
  /\ \A j \in 1 .. 8 : CleanUpOrder[j] = "ModelCombination" <=> j = 1
BY DEF CleanUpOrder, Managers

LEMMA CleaningNext ==
  /\ Last(CleanUpOrder) = CleanUpOrder[8]
  /\ \A j \in 1 .. 7 : After(CleanUpOrder, CleanUpOrder[j]) = CleanUpOrder[j + 1]
<1>1. CleanUpOrder \in Seq(Managers) /\ Len(CleanUpOrder) = 8
  BY DEF CleanUpOrder, Managers
<1>2. Last(CleanUpOrder) = CleanUpOrder[8]
  BY <1>1 DEF CleanUpOrder, Last
<1>3. ASSUME NEW j \in 1 .. 7
      PROVE  After(CleanUpOrder, CleanUpOrder[j]) = CleanUpOrder[j + 1]
  <2>1. j \in 1 .. Len(CleanUpOrder) - 1
    BY <1>1
  <2>2. \A a, b \in 1 .. Len(CleanUpOrder) : CleanUpOrder[a] = CleanUpOrder[b] => a = b
    BY <1>1 DEF CleanUpOrder
  <2> QED
    BY <1>1, <2>1, <2>2, NextInOrder, Zenon
<1> QED
  BY <1>2, <1>3

LEMMA BuildingOrder ==
  /\ DOMAIN D3DSteps = 1 .. 7
  /\ Range(D3DSteps) = {"Device", "Factory", "SwapChain", "BackBuffer", "TargetView",
                        "DepthStencil", "DepthView"}
  /\ \A a, b \in 1 .. 7 : D3DSteps[a] = D3DSteps[b] => a = b
  /\ \A j \in 1 .. 7 : D3DSteps[j] = "Device" <=> j = 1
<1>1. DOMAIN D3DSteps = 1 .. 7
  BY DEF D3DSteps
<1>2. Range(D3DSteps) = {D3DSteps[j] : j \in 1 .. 7}
  BY <1>1 DEF Range
<1>3. /\ D3DSteps[1] = "Device" /\ D3DSteps[2] = "Factory" /\ D3DSteps[3] = "SwapChain"
      /\ D3DSteps[4] = "BackBuffer" /\ D3DSteps[5] = "TargetView"
      /\ D3DSteps[6] = "DepthStencil" /\ D3DSteps[7] = "DepthView"
  BY DEF D3DSteps
<1>4. \A j \in 1 .. 7 : j = 1 \/ j = 2 \/ j = 3 \/ j = 4 \/ j = 5 \/ j = 6 \/ j = 7
  OBVIOUS
<1>5. Range(D3DSteps) = {"Device", "Factory", "SwapChain", "BackBuffer", "TargetView",
                         "DepthStencil", "DepthView"}
  BY <1>2, <1>3, <1>4
<1>6. \A a, b \in 1 .. 7 : D3DSteps[a] = D3DSteps[b] => a = b
  BY DEF D3DSteps
<1>7. \A j \in 1 .. 7 : D3DSteps[j] = "Device" <=> j = 1
  BY <1>3, <1>6
<1> QED
  BY <1>1, <1>5, <1>6, <1>7

LEMMA BuildingNext ==
  /\ Range(D3DSteps) = {D3DSteps[j] : j \in 1 .. 7}
  /\ Last(D3DSteps) = D3DSteps[7]
  /\ \A j \in 1 .. 6 : After(D3DSteps, D3DSteps[j]) = D3DSteps[j + 1]
<1>1. /\ D3DSteps \in Seq({"Device", "Factory", "SwapChain", "BackBuffer", "TargetView",
                          "DepthStencil", "DepthView"})
      /\ Len(D3DSteps) = 7
  BY DEF D3DSteps
<1>2. Range(D3DSteps) = {D3DSteps[j] : j \in 1 .. 7}
  BY BuildingOrder DEF Range
<1>3. Last(D3DSteps) = D3DSteps[7]
  BY <1>1 DEF Last
<1>4. ASSUME NEW j \in 1 .. 6
      PROVE  After(D3DSteps, D3DSteps[j]) = D3DSteps[j + 1]
  <2>1. j \in 1 .. Len(D3DSteps) - 1
    BY <1>1
  <2>2. \A a, b \in 1 .. Len(D3DSteps) : D3DSteps[a] = D3DSteps[b] => a = b
    BY <1>1, BuildingOrder
  <2> QED
    BY <1>1, <2>1, <2>2, NextInOrder, Zenon
<1> QED
  BY <1>2, <1>3, <1>4

-----------------------------------------------------------------------------
\* Nothing is said of the clean-up before its second manager, nor when it stopped.
LEMMA NotCleaning ==
  (pc' \in Building \cup {"ModelCombination", "Stopped", "AssertedNull"}) => Cleaned'
<1>1. SUFFICES ASSUME pc' \in Building \cup {"ModelCombination", "Stopped", "AssertedNull"}
               PROVE  Cleaned'
  OBVIOUS
<1>2. ASSUME NEW i \in 1 .. 8, NEW j \in 1 .. 8, pc' = CleanUpOrder[j], i < j
      PROVE  FALSE
  <2>1. pc' \in Managers
    BY <1>2, CleaningOrder
  <2>2. pc' = "ModelCombination"
    BY <1>1, <2>1, BuildingOrder
       DEF Building, D3DOn, SamplersOn, ShadersOn, TexturesOn, PoolsOn, Managers
  <2>3. j = 1
    BY <1>2, <2>2, CleaningOrder
  <2> QED
    BY <1>2, <2>3
<1>3. pc' \notin {"Rest", "Exit"}
  BY <1>1, BuildingOrder DEF Building, D3DOn, SamplersOn, ShadersOn, TexturesOn, PoolsOn
<1> QED
  BY <1>2, <1>3 DEF Cleaned

\* Nothing is said of assets to be cleaned, if none is deleted, or Get() will assert.
LEMMA NoneDeleted ==
  ASSUME pc' \in {"ModelCombination", "Stopped", "AssertedNull"},
         \/ \A m \in Managers : assets'[m] # "deleted"
         \/ "ModelCombination" \notin instances'
  PROVE  Undeleted'
<1>1. pc' \notin Building
  BY BuildingOrder DEF Building, D3DOn, SamplersOn, ShadersOn, TexturesOn, PoolsOn
<1>2. ASSUME NEW i \in 1 .. 8, NEW j \in 1 .. 8, pc' = CleanUpOrder[j], j <= i,
             j = 1 => "ModelCombination" \in instances',
             assets'[CleanUpOrder[i]] = "deleted"
      PROVE  FALSE
  <2>1. pc' \in Managers /\ CleanUpOrder[i] \in Managers
    BY <1>2, CleaningOrder
  <2>2. pc' = "ModelCombination"
    BY <2>1 DEF Managers
  <2>3. j = 1
    BY <1>2, <2>2, CleaningOrder
  <2> QED
    BY <1>2, <2>1, <2>3
<1> QED
  BY <1>1, <1>2 DEF Undeleted

LEMMA Initially == Init => CoreInv
<1> SUFFICES ASSUME Init PROVE CoreInv
  OBVIOUS
<1>1. TypeOK
  <2>1. pc \in Places /\ d3d \subseteq Range(D3DSteps)
    BY BuildingOrder DEF Init, Places
  <2>2. instances \subseteq Singletons
    BY DEF Init, Singletons
  <2>3. /\ assets \in [Managers -> {"none", "live", "deleted"}]
        /\ gpu \in [Owners -> GpuStates] /\ stage \in [Shaders -> Stages]
        /\ twice \subseteq Managers
    BY DEF Init, GpuStates, Stages
  <2>4. pc \notin Managers \cup {"BeginFrame", "Loop", "Rest", "Exit"}
    BY DEF Init, Managers
  <2>5. debugger \in BOOLEAN
    BY Zenon DEF Init
  <2>6. result \in {"running", "ok"} \cup Places /\ frames \in 0 .. MaxFrames
    BY FramesAssumption DEF Init
  <2> QED
    BY <2>1, <2>2, <2>3, <2>4, <2>5, <2>6, Zenon DEF TypeOK
<1>2. Built
  <2>1. \A i \in 1 .. 7 : pc = D3DSteps[i] => d3d = {D3DSteps[j] : j \in 1 .. i - 1}
    <3>1. ASSUME NEW i \in 1 .. 7, pc = D3DSteps[i]
          PROVE  d3d = {D3DSteps[j] : j \in 1 .. i - 1}
      <4>1. i = 1
        BY <3>1, BuildingOrder DEF Init
      <4> QED
        BY <4>1 DEF Init
    <3> QED
      BY <3>1
  <2>2. assets["Texture"] = "none"
    BY DEF Init, Managers
  <2> QED
    BY <2>1, <2>2 DEF Init, Built, D3DOn, SamplersOn, ShadersOn, TexturesOn, PoolsOn
<1>3. pc \notin Managers \cup {"Rest", "Exit"}
  BY DEF Init, Managers
<1>4. Cleaned
  BY <1>3, CleaningOrder DEF Cleaned
<1>5. Undeleted
  BY <1>3, CleaningOrder DEF Undeleted, Init
<1> QED
  BY <1>1, <1>2, <1>4, <1>5 DEF CoreInv, TwiceOnlyAfterFailedUpload, Init

-----------------------------------------------------------------------------
LEMMA Failed ==
  ASSUME NEW step, Fail(step)
  PROVE  /\ result' = step /\ frames' = frames /\ debugger' = debugger
         /\ pc' \in {"ModelCombination", "Stopped"}
BY Zenon DEF Fail

\* What the steps of Init leave as it is.
LEMMA TypeKept ==
  ASSUME TypeOK, debugger' = debugger, frames' = frames,
         pc' \in Places, result' \in {"running", "ok"} \cup Places,
         result' = "running" => pc' \notin Managers \cup {"BeginFrame", "Loop", "Rest", "Exit"},
         d3d' \subseteq Range(D3DSteps), instances' \subseteq Singletons,
         assets' \in [Managers -> {"none", "live", "deleted"}],
         gpu' \in [Owners -> GpuStates], stage' \in [Shaders -> Stages],
         twice' \subseteq Managers
  PROVE  TypeOK'
BY Zenon DEF TypeOK

LEMMA TypeOfBuilding ==
  Building \subseteq Places /\ Building \cap (Managers \cup {"Rest", "Exit"}) = {}
BY BuildingOrder
   DEF Building, D3DOn, SamplersOn, ShadersOn, TexturesOn, PoolsOn, Places, Managers

\* A step of Init that leads to the next.
LEMMA Onward ==
  ASSUME CoreInv, pc \in Building, pc' \in Building, twice' = twice,
         \A m \in Managers : assets'[m] # "deleted"
  PROVE  Cleaned' /\ Undeleted' /\ TwiceOnlyAfterFailedUpload'
<1>1. Cleaned'
  BY NotCleaning
<1>2. twice' = {}
  BY DEF CoreInv, Undeleted
<1>3. pc' \notin Managers
  BY TypeOfBuilding
<1>4. Undeleted'
  BY <1>2, <1>3, CleaningOrder DEF Undeleted
<1> QED
  BY <1>1, <1>2, <1>4 DEF TwiceOnlyAfterFailedUpload

\* A step of Init that fails, or stops the program.
LEMMA GivingUp ==
  ASSUME CoreInv, pc \in Building, twice' = twice,
         pc' \in {"ModelCombination", "Stopped"},
         \/ \A m \in Managers : assets'[m] # "deleted"
         \/ "ModelCombination" \notin instances'
  PROVE  Built' /\ Cleaned' /\ Undeleted' /\ TwiceOnlyAfterFailedUpload'
<1>1. pc' \notin Building
  BY BuildingOrder DEF Building, D3DOn, SamplersOn, ShadersOn, TexturesOn, PoolsOn
<1>2. Built'
  BY <1>1, BuildingNext
     DEF Built, Building, D3DOn, SamplersOn, ShadersOn, TexturesOn, PoolsOn
<1>3. Cleaned'
  BY NotCleaning
<1>4. Undeleted'
  BY NoneDeleted
<1>5. TwiceOnlyAfterFailedUpload'
  BY DEF CoreInv, Undeleted, TwiceOnlyAfterFailedUpload
<1> QED
  BY <1>2, <1>3, <1>4, <1>5

LEMMA CreatesD3DObject ==
  ASSUME CoreInv, NEW i \in 1 .. 7, CreateD3DObject(D3DSteps[i])
  PROVE  CoreInv'
<1> DEFINE step == D3DSteps[i]
<1>1. pc = step /\ step \in Range(D3DSteps) /\ pc \in Building
  BY BuildingNext DEF CreateD3DObject, Building
<1>2. UNCHANGED <<instances, assets, gpu, stage, twice, debugger, frames>>
  BY Failed DEF CreateD3DObject, GoOn
<1>3. \A m \in Managers : assets'[m] # "deleted"
  BY <1>1, <1>2 DEF CoreInv, Undeleted
<1>4. CASE pc' \in {"ModelCombination", "Stopped"} /\ result' = step /\ d3d' = d3d
  <2>1. pc' \in Places /\ step \in Places /\ step # "running"
    BY <1>1, <1>4, BuildingOrder DEF Places, Managers
  <2>2. TypeOK'
    BY <1>2, <1>4, <2>1, TypeKept DEF CoreInv, TypeOK
  <2> QED
    BY <1>1, <1>2, <1>3, <1>4, <2>2, GivingUp DEF CoreInv
<1>5. CASE /\ pc' = IF step = Last(D3DSteps) THEN "Sampler" ELSE After(D3DSteps, step)
           /\ d3d' = d3d \cup {step} /\ result' = result
  <2>1. d3d = {D3DSteps[j] : j \in 1 .. i - 1}
    BY <1>1 DEF CoreInv, Built
  <2>2. d3d' = {D3DSteps[j] : j \in 1 .. i}
    <3>1. 1 .. i = (1 .. i - 1) \cup {i}
      OBVIOUS
    <3> QED
      BY <1>5, <2>1, <3>1
  <2>3. CASE i = 7
    <3>1. pc' = "Sampler"
      BY <1>5, <2>3, BuildingNext
    <3>2. d3d' = Range(D3DSteps)
      BY <2>2, <2>3, BuildingNext
    <3>3. Built'
      BY <1>1, <1>2, <3>1, <3>2, BuildingOrder, BuildingNext
         DEF CoreInv, Built, Building, D3DOn, SamplersOn, ShadersOn, TexturesOn, PoolsOn
    <3>4. pc' \in Building \ {"BeginFrame", "Loop", "Rest", "Exit"}
      BY <3>1 DEF Building, D3DOn
    <3>5. TypeOK'
      BY <1>2, <1>5, <3>2, <3>4, TypeKept, TypeOfBuilding DEF CoreInv, TypeOK
    <3> QED
      BY <1>1, <1>2, <1>3, <3>3, <3>4, <3>5, Onward DEF CoreInv
  <2>4. CASE i \in 1 .. 6
    <3>1. pc' = D3DSteps[i + 1] /\ i + 1 \in 1 .. 7
      BY <1>5, <2>4, BuildingOrder, BuildingNext
    <3>2. d3d' = {D3DSteps[j] : j \in 1 .. (i + 1) - 1}
      BY <2>2
    <3>3. pc' \in Range(D3DSteps) /\ pc' \notin D3DOn
      BY <3>1, BuildingOrder, BuildingNext
         DEF D3DOn, SamplersOn, ShadersOn, TexturesOn, PoolsOn
    <3>4. \A k \in 1 .. 7 : pc' = D3DSteps[k] => d3d' = {D3DSteps[j] : j \in 1 .. k - 1}
      BY <3>1, <3>2, BuildingOrder
    <3>5. Built'
      BY <1>1, <1>2, <3>3, <3>4, BuildingOrder
         DEF CoreInv, Built, Building, D3DOn, SamplersOn, ShadersOn, TexturesOn, PoolsOn
    <3>6. pc' \in Building \ {"BeginFrame", "Loop", "Rest", "Exit"}
      BY <3>3, BuildingOrder DEF Building
    <3>7. d3d' \subseteq Range(D3DSteps)
      BY <1>1, <1>5 DEF CoreInv, TypeOK
    <3>8. TypeOK'
      BY <1>2, <1>5, <3>6, <3>7, TypeKept, TypeOfBuilding DEF CoreInv, TypeOK
    <3> QED
      BY <1>1, <1>2, <1>3, <3>5, <3>6, <3>8, Onward DEF CoreInv
  <2> QED
    BY <2>3, <2>4
<1> QED
  BY <1>4, <1>5, Failed DEF CreateD3DObject, GoOn

LEMMA InstantiatesSamplerPool ==
  ASSUME CoreInv, InstantiateSamplerPool
  PROVE  CoreInv'
<1>1. /\ pc = "Sampler" /\ pc' = "InitShaders" /\ instances' = instances \cup {"Sampler"}
      /\ UNCHANGED <<d3d, assets, gpu, stage, twice, debugger, result, frames>>
  BY DEF InstantiateSamplerPool, GoOn
<1>2. /\ pc \in Building /\ pc' \in Building
      /\ pc' \notin {"BeginFrame", "Loop", "Rest", "Exit"}
  BY <1>1 DEF Building, D3DOn, SamplersOn, ShadersOn, TexturesOn, PoolsOn
<1>3. instances' \subseteq Singletons
  BY <1>1 DEF CoreInv, TypeOK, Singletons
<1>4. TypeOK'
  BY <1>1, <1>2, <1>3, TypeKept, TypeOfBuilding DEF CoreInv, TypeOK
<1>5. Built'
  BY <1>1, BuildingOrder, BuildingNext DEF CoreInv, Built, Building, D3DOn, SamplersOn, ShadersOn, TexturesOn, PoolsOn
<1>6. \A m \in Managers : assets'[m] # "deleted"
  BY <1>1, <1>2 DEF CoreInv, Undeleted
<1> QED
  BY <1>1, <1>2, <1>4, <1>5, <1>6, Onward DEF CoreInv

LEMMA StageShapes ==
  ASSUME NEW first, NEW second
  PROVE  /\ ShadersAt(first, second)[Default] = first
         /\ ShadersAt(first, second)[Skinned] = second
         /\ first \in Stages /\ second \in Stages => ShadersAt(first, second) \in [Shaders -> Stages]
BY DEF ShadersAt, Shaders, Default, Skinned

LEMMA InitsShaderManager ==
  ASSUME CoreInv, InitShaderManager
  PROVE  CoreInv'
<1>1. /\ pc = "InitShaders" /\ instances' = instances \cup {"Shader"}
      /\ d3d' = d3d /\ gpu' = gpu /\ twice' = twice
  BY DEF InitShaderManager
<1>2. pc \in Building
  BY <1>1 DEF Building, D3DOn, SamplersOn, ShadersOn, TexturesOn, PoolsOn
<1>3. instances' \subseteq Singletons
  BY <1>1 DEF CoreInv, TypeOK, Singletons, Managers
<1>4. "ModelCombination" \notin instances'
  BY <1>1, <1>2 DEF CoreInv, Built, PoolsOn
<1>5. CASE ShadersNotCompiled
  <2>1. /\ assets' = [assets EXCEPT !["Shader"] = "deleted"] /\ stage' = stage
        /\ result' = "InitShaders" /\ UNCHANGED <<debugger, frames>>
        /\ pc' \in {"ModelCombination", "Stopped"}
    BY <1>5, Failed DEF ShadersNotCompiled
  <2>2. pc' \in Places /\ result' \in Places /\ result' # "running"
    BY <2>1 DEF Places, Managers
  <2>3. assets' \in [Managers -> {"none", "live", "deleted"}]
    BY <2>1 DEF CoreInv, TypeOK
  <2>4. TypeOK'
    BY <1>1, <1>3, <2>1, <2>2, <2>3, TypeKept DEF CoreInv, TypeOK
  <2> QED
    BY <1>1, <1>2, <1>4, <2>1, <2>4, GivingUp DEF CoreInv
<1>6. CASE ShadersCompiled
  <2>1. /\ assets' = [assets EXCEPT !["Shader"] = "live"]
        /\ stage' \in [Shaders -> Stages]
        /\ UNCHANGED <<debugger, frames, result>>
        /\ pc' \in {"LoadTextures", "Stopped"}
    <3>1. PICK first \in Stages, second \in Stages : stage' = ShadersAt(first, second)
      BY <1>6 DEF ShadersCompiled, Stages
    <3>2. /\ pc' \in {"LoadTextures", "Stopped"} /\ UNCHANGED <<debugger, frames, result>>
          /\ assets' = [assets EXCEPT !["Shader"] = "live"]
      BY <1>6, Zenon DEF ShadersCompiled, GoOn
    <3> QED
      BY <3>1, <3>2, StageShapes, Zenon
  <2>2. /\ pc' \in Places
        /\ pc' \notin Managers \cup {"BeginFrame", "Loop", "Rest", "Exit"}
    BY <2>1 DEF Places, Managers
  <2>3. assets' \in [Managers -> {"none", "live", "deleted"}]
    BY <2>1 DEF CoreInv, TypeOK, Managers
  <2>4. TypeOK'
    BY <1>1, <1>3, <2>1, <2>2, <2>3, TypeKept DEF CoreInv, TypeOK
  <2>5. \A m \in Managers : assets'[m] # "deleted"
    BY <1>2, <2>1 DEF CoreInv, TypeOK, Undeleted
  <2>6. CASE pc' = "Stopped"
    BY <1>1, <1>2, <2>4, <2>5, <2>6, GivingUp DEF CoreInv
  <2>7. CASE pc' = "LoadTextures"
    <3>1. assets'["Shader"] = "live" /\ assets'["Texture"] = assets["Texture"]
      BY <2>1 DEF CoreInv, TypeOK, Managers
    <3>2. pc' \in Building
      BY <2>7 DEF Building, D3DOn, SamplersOn, ShadersOn, TexturesOn, PoolsOn
    <3>3. Built'
      BY <1>1, <1>4, <2>7, <3>1, BuildingOrder, BuildingNext DEF CoreInv, Built, Building, D3DOn, SamplersOn, ShadersOn, TexturesOn, PoolsOn
    <3> QED
      BY <1>1, <1>2, <2>4, <2>5, <3>2, <3>3, Onward DEF CoreInv
  <2> QED
    BY <2>1, <2>6, <2>7
<1> QED
  BY <1>5, <1>6 DEF InitShaderManager

LEMMA LoadsTextures ==
  ASSUME CoreInv, LoadTextures
  PROVE  CoreInv'
<1>1. /\ pc = "LoadTextures" /\ instances' = instances \cup {"Texture"}
      /\ d3d' = d3d /\ stage' = stage /\ twice' = twice
  BY DEF LoadTextures
<1>2. pc \in Building
  BY <1>1 DEF Building, D3DOn, SamplersOn, ShadersOn, TexturesOn, PoolsOn
<1>3. instances' \subseteq Singletons
  BY <1>1 DEF CoreInv, TypeOK, Singletons, Managers
<1>4. "ModelCombination" \notin instances'
  BY <1>1, <1>2 DEF CoreInv, Built, PoolsOn
<1>5. CASE TexturesLoaded /\ GoOn("Pools")
  <2>1. UNCHANGED <<debugger, frames, result>> /\ pc' = "Pools"
    BY <1>5 DEF GoOn
  <2>2. /\ assets' \in [Managers -> {"none", "live", "deleted"}]
        /\ gpu' \in [Owners -> GpuStates]
        /\ Whole("Texture")'
        /\ \A m \in Managers : assets'[m] = assets[m] \/ assets'[m] = "live"
    <3>1. CASE UNCHANGED <<assets, gpu>>
      <4>1. assets["Texture"] # "live"
        BY <1>1, <1>2 DEF CoreInv, Built, TexturesOn, PoolsOn
      <4> QED
        BY <3>1, <4>1 DEF CoreInv, TypeOK, Whole
    <3>2. CASE /\ assets' = [assets EXCEPT !["Texture"] = "live"]
               /\ gpu' = [gpu EXCEPT !["Texture"] = "whole"]
      BY <3>2 DEF CoreInv, TypeOK, Whole, Owners, GpuStates, Managers
    <3> QED
      BY <1>5, <3>1, <3>2 DEF TexturesLoaded
  <2>3. /\ pc' \in Building /\ pc' \notin {"BeginFrame", "Loop", "Rest", "Exit"}
    BY <2>1 DEF Building, D3DOn, SamplersOn, ShadersOn, TexturesOn, PoolsOn
  <2>4. TypeOK'
    BY <1>1, <1>3, <2>1, <2>2, <2>3, TypeKept, TypeOfBuilding DEF CoreInv, TypeOK
  <2>5. assets'["Shader"] = "live"
    <3>1. "Shader" \in Managers /\ assets["Shader"] = "live"
      BY <1>1 DEF Managers, CoreInv, Built, ShadersOn
    <3> QED
      BY <2>2, <3>1
  <2>6. Built'
    BY <1>1, <1>4, <2>1, <2>2, <2>5, BuildingOrder, BuildingNext DEF CoreInv, Built, Building, D3DOn, SamplersOn, ShadersOn, TexturesOn, PoolsOn
  <2>7. \A m \in Managers : assets'[m] # "deleted"
    BY <1>2, <2>2 DEF CoreInv, TypeOK, Undeleted
  <2> QED
    BY <1>1, <1>2, <2>3, <2>4, <2>6, <2>7, Onward DEF CoreInv
<1>6. CASE TexturesFailed /\ Fail("LoadTextures")
  <2>1. /\ result' = "LoadTextures" /\ UNCHANGED <<debugger, frames>>
        /\ pc' \in {"ModelCombination", "Stopped"}
    BY <1>6, Failed
  <2>2. pc' \in Places /\ result' \in Places /\ result' # "running"
    BY <2>1 DEF Places, Managers
  <2>3. /\ assets' \in [Managers -> {"none", "live", "deleted"}]
        /\ gpu' \in [Owners -> GpuStates]
    <3>1. /\ assets' = assets \/ assets' = [assets EXCEPT !["Texture"] = "live"]
          /\ \/ gpu' = gpu
             \/ \E done \in {"none", "part"} : gpu' = [gpu EXCEPT !["Texture"] = done]
      BY <1>6 DEF TexturesFailed
    <3>2. "Texture" \in Managers /\ "Texture" \in Owners
      BY DEF Managers, Owners
    <3> QED
      BY <3>1, <3>2 DEF CoreInv, TypeOK, GpuStates
  <2>4. TypeOK'
    BY <1>1, <1>3, <2>1, <2>2, <2>3, TypeKept DEF CoreInv, TypeOK
  <2> QED
    BY <1>1, <1>2, <1>4, <2>1, <2>4, GivingUp DEF CoreInv
<1>7. CASE GoOn("Stopped") /\ UNCHANGED <<assets, gpu>>
  <2>1. /\ UNCHANGED <<debugger, frames, result>> /\ pc' = "Stopped"
        /\ pc' \in Places /\ pc' \notin Managers \cup {"BeginFrame", "Loop", "Rest", "Exit"}
    BY <1>7 DEF GoOn, Places, Managers
  <2>2. TypeOK'
    BY <1>1, <1>3, <1>7, <2>1, TypeKept DEF CoreInv, TypeOK
  <2> QED
    BY <1>1, <1>2, <1>4, <2>1, <2>2, GivingUp DEF CoreInv
<1> QED
  BY <1>5, <1>6, <1>7 DEF LoadTextures

LEMMA AssertsTempMaterials ==
  ASSUME CoreInv, CreateTempMaterialsAsserts
  PROVE  CoreInv'
<1>1. /\ pc = "Pools" /\ pc' = "Stopped" /\ instances' = instances \cup {"Material"}
      /\ UNCHANGED <<d3d, assets, gpu, stage, twice, debugger, result, frames>>
  BY DEF CreateTempMaterialsAsserts, GoOn
<1>2. pc \in Building
  BY <1>1 DEF Building, D3DOn, SamplersOn, ShadersOn, TexturesOn, PoolsOn
<1>3. instances' \subseteq Singletons
  BY <1>1 DEF CoreInv, TypeOK, Singletons, Managers
<1>4. pc' \in Places /\ pc' \notin Managers \cup {"BeginFrame", "Loop", "Rest", "Exit"}
  BY <1>1 DEF Places, Managers
<1>5. TypeOK'
  BY <1>1, <1>3, <1>4, TypeKept DEF CoreInv, TypeOK
<1>6. \A m \in Managers : assets'[m] # "deleted"
  BY <1>1, <1>2 DEF CoreInv, Undeleted
<1> QED
  BY <1>1, <1>2, <1>5, <1>6, GivingUp DEF CoreInv

LEMMA InstantiatesManagers ==
  ASSUME CoreInv, InstantiateManagers
  PROVE  CoreInv'
<1>1. /\ pc = "Pools" /\ pc' = "DirectionMesh"
      /\ instances' = instances \cup {"Material", "Skeleton", "SkeletonAnim", "Geometry",
                                      "Model", "ModelCombination"}
      /\ assets' = [assets EXCEPT !["Material"] = "live"]
      /\ UNCHANGED <<d3d, gpu, stage, twice, debugger, result, frames>>
  BY DEF InstantiateManagers, GoOn
<1>2. /\ pc \in Building /\ pc' \in Building
      /\ pc' \notin {"BeginFrame", "Loop", "Rest", "Exit"}
  BY <1>1 DEF Building, D3DOn, SamplersOn, ShadersOn, TexturesOn, PoolsOn
<1>3. instances' \subseteq Singletons /\ assets' \in [Managers -> {"none", "live", "deleted"}]
  BY <1>1 DEF CoreInv, TypeOK, Singletons, Managers
<1>4. TypeOK'
  BY <1>1, <1>2, <1>3, TypeKept, TypeOfBuilding DEF CoreInv, TypeOK
<1>5. \A m \in Managers : assets'[m] = IF m = "Material" THEN "live" ELSE assets[m]
  BY <1>1 DEF CoreInv, TypeOK
<1>6. /\ "Material" \in Managers /\ "Shader" \in Managers /\ "Texture" \in Managers
      /\ "Shader" # "Material" /\ "Texture" # "Material"
  BY DEF Managers
<1>7. Managers \subseteq instances'
  <2>1. "Shader" \in instances /\ "Texture" \in instances
    BY <1>1 DEF CoreInv, Built, Building, D3DOn, SamplersOn, ShadersOn, TexturesOn, PoolsOn
  <2> QED
    BY <1>1, <2>1 DEF Managers
<1>8. Whole("Texture")'
  BY <1>1, <1>5, <1>6 DEF CoreInv, Built, TexturesOn, Whole
<1>9. Built'
  BY <1>1, <1>5, <1>6, <1>7, <1>8, BuildingOrder, BuildingNext DEF CoreInv, Built, Building, D3DOn, SamplersOn, ShadersOn, TexturesOn, PoolsOn
<1>10. \A m \in Managers : assets'[m] # "deleted"
  BY <1>2, <1>5 DEF CoreInv, Undeleted
<1> QED
  BY <1>1, <1>2, <1>4, <1>9, <1>10, Onward DEF CoreInv

\* Both files: what each brings comes on top of what is there.
LEMMA ImportsFile ==
  ASSUME CoreInv, NEW file, NEW next, ImportFile(file, next),
         \/ file = "DirectionMesh" /\ next = "ChosenFile"
         \/ file = "ChosenFile" /\ next = "Instantiate"
  PROVE  CoreInv'
<1>1. pc = file /\ UNCHANGED <<d3d, instances, gpu, stage, twice>>
  BY DEF ImportFile
<1>2. pc \in Building /\ pc \in PoolsOn /\ pc \in {"DirectionMesh", "ChosenFile"}
  BY <1>1 DEF Building, D3DOn, SamplersOn, ShadersOn, TexturesOn, PoolsOn
<1>3. CASE /\ \E new \in Imports :
                assets' = [m \in Managers |-> IF m \in new \cup {"ModelCombination"}
                                              THEN "live" ELSE assets[m]]
           /\ GoOn(next)
  <2>1. /\ pc' = next /\ UNCHANGED <<debugger, result, frames>>
        /\ \A m \in Managers : assets'[m] = "live" \/ assets'[m] = assets[m]
        /\ assets' \in [Managers -> {"none", "live", "deleted"}]
        /\ assets'["Texture"] = assets["Texture"]
    BY <1>3 DEF GoOn, CoreInv, TypeOK, Imports, Managers
  <2>2. /\ pc' \in Building /\ pc' \in {"ChosenFile", "Instantiate"}
        /\ pc' \notin {"BeginFrame", "Loop", "Rest", "Exit"}
    BY <2>1 DEF Building, D3DOn, SamplersOn, ShadersOn, TexturesOn, PoolsOn
  <2>3. TypeOK'
    BY <1>1, <2>1, <2>2, TypeKept, TypeOfBuilding DEF CoreInv, TypeOK
  <2>4. \A m \in Managers : assets'[m] # "deleted"
    BY <1>2, <2>1 DEF CoreInv, Undeleted
  <2>5. "Material" \in Managers /\ "Shader" \in Managers /\ "Texture" \in Managers
    BY DEF Managers
  <2>6. Whole("Texture")'
    BY <1>1, <1>2, <2>1 DEF CoreInv, Built, TexturesOn, Whole
  <2>7. Built'
    BY <1>1, <1>2, <2>1, <2>2, <2>5, <2>6, BuildingOrder, BuildingNext DEF CoreInv, Built, Building, D3DOn, SamplersOn, ShadersOn, TexturesOn, PoolsOn
  <2> QED
    BY <1>1, <1>2, <2>2, <2>3, <2>4, <2>7, Onward DEF CoreInv
<1>4. ASSUME assets' = assets, UNCHANGED <<debugger, frames>>,
             pc' \in {"ModelCombination", "Stopped"},
             \/ result' \in {"DirectionMesh", "ChosenFile"}
             \/ result' = result /\ pc' = "Stopped"
      PROVE  CoreInv'
  <2>1. /\ pc' \in Places
        /\ result' = "running" => pc' \notin Managers \cup {"BeginFrame", "Loop", "Rest", "Exit"}
    BY <1>4 DEF Places, Managers
  <2>2. result' \in {"running", "ok"} \cup Places
    BY <1>4 DEF CoreInv, TypeOK, Places
  <2>3. TypeOK'
    BY <1>1, <1>4, <2>1, <2>2, TypeKept DEF CoreInv, TypeOK
  <2>4. \A m \in Managers : assets'[m] # "deleted"
    BY <1>2, <1>4 DEF CoreInv, Undeleted
  <2> QED
    BY <1>1, <1>2, <1>4, <2>3, <2>4, GivingUp DEF CoreInv
<1>5. CASE Fail(file) /\ UNCHANGED assets
  BY <1>1, <1>2, <1>4, <1>5, Failed
<1>6. CASE GoOn("Stopped") /\ UNCHANGED assets
  BY <1>4, <1>6 DEF GoOn
<1> QED
  BY <1>3, <1>5, <1>6 DEF ImportFile

LEMMA InstantiatesOnGPU ==
  ASSUME CoreInv, InstantiateOnGPU
  PROVE  CoreInv'
<1>1. /\ pc = "Instantiate"
      /\ UNCHANGED <<d3d, instances, assets, stage, twice, debugger, result, frames>>
  BY DEF InstantiateOnGPU, GoOn
<1>2. pc \in Building /\ result' \in {"running", "ok"} \cup Places
  BY <1>1 DEF Building, D3DOn, SamplersOn, ShadersOn, TexturesOn, PoolsOn, CoreInv, TypeOK
<1>3. \A m \in Managers : assets'[m] # "deleted"
  BY <1>1, <1>2 DEF CoreInv, Undeleted
<1>4. ASSUME NEW mat \in Outcomes("Material"), NEW skeleton \in Outcomes("Skeleton"),
             NEW anim \in Outcomes("SkeletonAnim"), pc' = "Upload",
             gpu' = [gpu EXCEPT !["Material"] = mat, !["Skeleton"] = skeleton,
                                !["SkeletonAnim"] = anim]
      PROVE  CoreInv'
  <2>1. /\ pc' \in Building /\ pc' \notin {"BeginFrame", "Loop", "Rest", "Exit"}
    BY <1>4 DEF Building, D3DOn, SamplersOn, ShadersOn, TexturesOn, PoolsOn
  <2>2. \A m \in Owners : gpu[m] \in GpuStates
    BY DEF CoreInv, TypeOK
  <2>3. \A m \in Owners : Outcomes(m) \subseteq GpuStates
    BY <2>2 DEF Outcomes, GpuStates
  <2>4. {mat, skeleton, anim} \subseteq GpuStates
    BY <1>4, <2>3 DEF Owners
  <2>5. gpu' \in [Owners -> GpuStates]
    BY <1>4, <2>4 DEF CoreInv, TypeOK
  <2>6. TypeOK'
    BY <1>1, <1>2, <2>1, <2>5, TypeKept, TypeOfBuilding DEF CoreInv, TypeOK
  <2>7. /\ gpu'["Texture"] = gpu["Texture"]
        /\ gpu'["Skeleton"] = skeleton /\ gpu'["SkeletonAnim"] = anim
    BY <1>4 DEF CoreInv, TypeOK, Owners
  <2>8. ~debugger => Whole("Skeleton")' /\ Whole("SkeletonAnim")'
    BY <1>1, <1>4, <2>7 DEF Whole, Outcomes
  <2>9. Whole("Texture") => Whole("Texture")'
    BY <1>1, <2>7 DEF Whole
  <2>10. Built'
    BY <1>1, <1>4, <2>8, <2>9, BuildingOrder, BuildingNext DEF CoreInv, Built, Building, D3DOn, SamplersOn, ShadersOn, TexturesOn, PoolsOn
  <2> QED
    BY <1>1, <1>2, <1>3, <2>1, <2>6, <2>10, Onward DEF CoreInv
<1>5. CASE GoOn("Stopped") /\ gpu' = gpu
  <2>1. /\ pc' = "Stopped" /\ pc' \in Places
        /\ pc' \notin Managers \cup {"BeginFrame", "Loop", "Rest", "Exit"}
    BY <1>5 DEF GoOn, Places, Managers
  <2>2. TypeOK'
    BY <1>1, <1>2, <1>5, <2>1, TypeKept DEF CoreInv, TypeOK
  <2> QED
    BY <1>1, <1>2, <1>3, <2>1, <2>2, GivingUp DEF CoreInv
<1> QED
  BY <1>4, <1>5 DEF InstantiateOnGPU, GoOn

LEMMA DeletedAssets ==
  ASSUME TypeOK, NEW ms
  PROVE  /\ Deleted(ms) \in [Managers -> {"none", "live", "deleted"}]
         /\ \A m \in Managers : m \in ms => Deleted(ms)[m] # "live"
         /\ \A m \in Managers : m \notin ms => Deleted(ms)[m] = assets[m]
         /\ \A m \in Managers : Deleted(ms)[m] = "deleted" => m \in ms \/ assets[m] = "deleted"
         /\ \A m \in Managers : Deleted(ms)[m] = "live" => assets[m] = "live"
BY DEF TypeOK, Deleted

LEMMA SendsGeometry ==
  ASSUME CoreInv, SendAllGeometryToGPU
  PROVE  CoreInv'
<1>1. pc = "Upload" /\ d3d' = d3d /\ instances' = instances /\ stage' = stage
  BY DEF SendAllGeometryToGPU
<1>2. pc \in Building
  BY <1>1 DEF Building, D3DOn, SamplersOn, ShadersOn, TexturesOn, PoolsOn
<1>3. twice = {} /\ \A m \in Managers : assets[m] # "deleted"
  BY <1>2 DEF CoreInv, Undeleted
<1>4. CASE /\ gpu' = IF assets["Geometry"] = "live" THEN [gpu EXCEPT !["Geometry"] = "whole"]
                                                    ELSE gpu
           /\ pc' = "BeginFrame"
           /\ result' = "ok"
           /\ UNCHANGED <<assets, twice, debugger, frames>>
  <2>1. /\ pc' \in Building /\ pc' \in Places
        /\ pc' \notin {"Loop", "Rest", "Exit"} /\ result' # "running"
        /\ gpu' \in [Owners -> GpuStates]
    BY <1>4 DEF CoreInv, TypeOK, GpuStates, Places, Building, D3DOn, SamplersOn, ShadersOn, TexturesOn, PoolsOn
  <2>2. TypeOK'
    BY <1>1, <1>4, <2>1, TypeKept DEF CoreInv, TypeOK
  <2>3. /\ \A m \in Owners : Whole(m) => Whole(m)'
        /\ Whole("Geometry")'
    BY <1>4 DEF CoreInv, TypeOK, Whole, Owners
  <2>4. Built'
    BY <1>1, <1>4, <2>3, BuildingOrder, BuildingNext DEF CoreInv, Built, Owners, Building, D3DOn, SamplersOn, ShadersOn, TexturesOn, PoolsOn
  <2> QED
    BY <1>2, <1>3, <1>4, <2>1, <2>2, <2>4, Onward DEF CoreInv
<1>5. CASE /\ \E done \in {"none", "part"} :
                gpu' = [gpu EXCEPT !["Geometry"] = done, !["Material"] = "none"]
           /\ assets' = Deleted({"Material"})
           /\ twice' = DeletedAgain({"Material"})
           /\ Fail("Upload")
  <2>1. /\ result' = "Upload" /\ UNCHANGED <<debugger, frames>>
        /\ pc' \in {"ModelCombination", "Stopped"}
    BY <1>5, Failed
  <2>2. /\ pc' \in Places /\ result' \in Places /\ result' # "running"
        /\ pc' \notin Building
    BY <2>1, BuildingOrder DEF Places, Managers, Building, D3DOn, SamplersOn, ShadersOn, TexturesOn, PoolsOn
  <2>3. twice' = {}
    BY <1>3, <1>5 DEF DeletedAgain, Managers
  <2>4. /\ assets' \in [Managers -> {"none", "live", "deleted"}]
        /\ \A m \in Managers : assets'[m] = "deleted" => m = "Material"
    BY <1>3, <1>5, DeletedAssets DEF CoreInv
  <2>5. gpu' \in [Owners -> GpuStates]
    BY <1>5 DEF CoreInv, TypeOK, GpuStates
  <2>6. TypeOK'
    BY <1>1, <2>1, <2>2, <2>3, <2>4, <2>5, TypeKept DEF CoreInv, TypeOK
  <2>7. Built'
    BY <2>1, <2>2, BuildingNext DEF Built, Building, D3DOn, SamplersOn, ShadersOn, TexturesOn, PoolsOn
  <2>8. Cleaned'
    BY <2>1, NotCleaning
  <2>9. Undeleted'
    BY <2>1, <2>2, <2>4, CleaningOrder DEF Undeleted
  <2> QED
    BY <2>3, <2>6, <2>7, <2>8, <2>9 DEF CoreInv, TwiceOnlyAfterFailedUpload
<1> QED
  BY <1>4, <1>5 DEF SendAllGeometryToGPU

LEMMA BeginsFrame ==
  ASSUME CoreInv, BeginFrame
  PROVE  CoreInv'
<1>1. /\ pc = "BeginFrame" /\ pc' = "Loop"
      /\ instances' = instances \cup {"Input", "FrameInfo", "Camera"}
      /\ UNCHANGED <<d3d, assets, gpu, stage, twice, debugger, result, frames>>
  BY DEF BeginFrame, GoOn
<1>2. /\ pc \in Building /\ pc' \in Building /\ result = "ok"
  BY <1>1 DEF CoreInv, Built, Building, D3DOn, SamplersOn, ShadersOn, TexturesOn, PoolsOn
<1>3. instances' \subseteq Singletons
  BY <1>1 DEF CoreInv, TypeOK, Singletons
<1>4. TypeOK'
  BY <1>1, <1>2, <1>3, TypeKept, TypeOfBuilding DEF CoreInv, TypeOK
<1>5. Built'
  <2>1. \A m : Whole(m)' <=> Whole(m)
    BY <1>1 DEF Whole
  <2> QED
    BY <1>1, <2>1, BuildingOrder, BuildingNext DEF CoreInv, Built, Building, D3DOn, SamplersOn, ShadersOn, TexturesOn, PoolsOn
<1>6. \A m \in Managers : assets'[m] # "deleted"
  BY <1>1, <1>2 DEF CoreInv, Undeleted
<1> QED
  BY <1>1, <1>2, <1>4, <1>5, <1>6, Onward DEF CoreInv

LEMMA DrawsFrame ==
  ASSUME CoreInv, PerFrame
  PROVE  CoreInv'
<1>1. frames < MaxFrames /\ frames' = frames + 1 /\ UNCHANGED <<pc, debugger, result, objects>>
  BY DEF PerFrame
<1>2. frames' \in 0 .. MaxFrames
  BY <1>1, FramesAssumption DEF CoreInv, TypeOK
<1>3. TypeOK'
  BY <1>1, <1>2 DEF CoreInv, TypeOK, objects
<1>4. Built' /\ Cleaned' /\ Undeleted' /\ TwiceOnlyAfterFailedUpload'
  BY <1>1 DEF CoreInv, Built, Whole, Cleaned, Gone, Undeleted, TwiceOnlyAfterFailedUpload, objects
<1> QED
  BY <1>3, <1>4 DEF CoreInv

LEMMA Quits ==
  ASSUME CoreInv, Quit
  PROVE  CoreInv'
<1>1. pc = "Loop" /\ pc' = "ModelCombination" /\ UNCHANGED <<debugger, result, frames, objects>>
  BY DEF Quit, GoOn
<1>2. pc \in Building /\ result = "ok"
  BY <1>1 DEF CoreInv, Built, Building, D3DOn, SamplersOn, ShadersOn, TexturesOn, PoolsOn
<1>3. pc' \in Places
  BY <1>1 DEF Places, Managers
<1>4. TypeOK'
  BY <1>1, <1>2, <1>3, TypeKept DEF CoreInv, TypeOK, objects
<1>5. \A m \in Managers : assets'[m] # "deleted"
  BY <1>1, <1>2 DEF CoreInv, Undeleted, objects
<1> QED
  BY <1>1, <1>2, <1>4, <1>5, GivingUp DEF CoreInv, objects

-----------------------------------------------------------------------------
LEMMA AssertsInGet ==
  ASSUME CoreInv, NEW m \in Managers, GetAsserts(m)
  PROVE  CoreInv'
<1>1. /\ pc = m /\ pc' = "AssertedNull" /\ UNCHANGED <<debugger, result, frames, objects>>
  BY DEF GetAsserts, GoOn
<1>2. pc' \in Places \ (Building \cup Managers \cup {"BeginFrame", "Loop", "Rest", "Exit"})
  BY <1>1, BuildingOrder DEF Places, Managers, Building, D3DOn, SamplersOn, ShadersOn, TexturesOn, PoolsOn
<1>3. TypeOK'
  BY <1>1, <1>2, TypeKept DEF CoreInv, TypeOK, objects
<1>4. Built'
  BY <1>2, BuildingNext DEF Built, Building, D3DOn, SamplersOn, ShadersOn, TexturesOn, PoolsOn
<1>5. Cleaned'
  BY <1>1, NotCleaning
<1>6. Undeleted'
  BY <1>2, CleaningOrder DEF Undeleted
<1>7. TwiceOnlyAfterFailedUpload'
  BY <1>1 DEF CoreInv, TwiceOnlyAfterFailedUpload, objects
<1> QED
  BY <1>3, <1>4, <1>5, <1>6, <1>7 DEF CoreInv

LEMMA CleansManager ==
  ASSUME CoreInv, NEW m \in Managers, CleanUpManager(m)
  PROVE  CoreInv'
<1> DEFINE next == IF m = Last(CleanUpOrder) THEN "Rest" ELSE After(CleanUpOrder, m)
<1>1. /\ pc = m /\ m \in instances /\ pc' = next /\ instances' = instances \ {m}
      /\ assets' = Deleted({m}) /\ twice' = DeletedAgain({m})
      /\ gpu' = [o \in Owners |-> IF o = m THEN "none" ELSE gpu[o]]
      /\ stage' = IF m = "Shader" THEN [t \in Shaders |-> Released(t)] ELSE stage
      /\ UNCHANGED <<debugger, result, frames, d3d>>
  BY DEF CleanUpManager, ReleaseAssets, GoOn
<1>2. PICK j \in 1 .. 8 : m = CleanUpOrder[j]
  BY CleaningOrder
<1>3. /\ \A n \in Managers : assets'[n] = "deleted" => n = m \/ assets[n] = "deleted"
      /\ \A n \in Managers : assets'[n] = "live" => n # m /\ assets[n] = "live"
      /\ assets' \in [Managers -> {"none", "live", "deleted"}]
  BY <1>1, DeletedAssets DEF CoreInv
<1>4. /\ j = 8 => pc' = "Rest"
      /\ j # 8 => pc' = CleanUpOrder[j + 1] /\ j + 1 \in 1 .. 8
  BY <1>1, <1>2, CleaningOrder, CleaningNext
<1>5. /\ pc' \in Managers \cup {"Rest"} /\ pc' \in Places
      /\ pc' \notin Building /\ pc' \notin {"BeginFrame", "Loop", "Exit"}
  <2>1. pc' \in Managers \cup {"Rest"}
    BY <1>4, CleaningOrder
  <2>2. pc' \in Places
    BY <2>1 DEF Places
  <2>3. pc' \notin {"BeginFrame", "Loop", "Exit"}
    BY <2>1 DEF Managers
  <2> QED
    BY <2>1, <2>2, <2>3, TypeOfBuilding
<1>6. Gone(m)' /\ \A n \in Managers : Gone(n) => Gone(n)'
  BY <1>1, <1>3 DEF Gone
<1>7. \A i \in 1 .. 8 : i < j => Gone(CleanUpOrder[i])
  BY <1>1, <1>2 DEF CoreInv, Cleaned
<1>8. \A i \in 1 .. 8 : i <= j => Gone(CleanUpOrder[i])'
  <2>1. ASSUME NEW i \in 1 .. 8, i <= j PROVE Gone(CleanUpOrder[i])'
    <3>1. i = j \/ i < j
      BY <2>1
    <3>2. CASE i = j
      BY <1>2, <1>6, <3>2
    <3>3. CASE i < j
      BY <1>6, <1>7, <3>3, CleaningOrder
    <3> QED
      BY <3>1, <3>2, <3>3
  <2> QED
    BY <2>1
<1>9. Cleaned'
  <2>1. ASSUME NEW i \in 1 .. 8, NEW k \in 1 .. 8, pc' = CleanUpOrder[k], i < k
        PROVE  Gone(CleanUpOrder[i])'
    <3>1. j # 8
      BY <1>4, <2>1, CleaningOrder DEF Managers
    <3>2. k = j + 1
      BY <1>4, <2>1, <3>1, CleaningOrder
    <3> QED
      BY <1>8, <2>1, <3>2
  <2>2. ASSUME pc' \in {"Rest", "Exit"}, NEW i \in 1 .. 8
        PROVE  Gone(CleanUpOrder[i])'
    <3>1. j = 8
      BY <1>4, <2>2, CleaningOrder DEF Managers
    <3> QED
      BY <1>8, <3>1
  <2> QED
    BY <1>5, <2>1, <2>2 DEF Cleaned
<1>10. \A i \in 1 .. 8 : j <= i /\ assets[CleanUpOrder[i]] = "deleted" =>
         CleanUpOrder[i] = "Material" /\ result = "Upload"
  <2>1. j = 1 => "ModelCombination" \in instances
    BY <1>1, <1>2, CleaningOrder
  <2> QED
    BY <1>1, <1>2, <2>1 DEF CoreInv, Undeleted
<1>11. Undeleted'
  <2>1. ASSUME NEW i \in 1 .. 8, NEW k \in 1 .. 8, pc' = CleanUpOrder[k], k <= i,
               assets'[CleanUpOrder[i]] = "deleted"
        PROVE  CleanUpOrder[i] = "Material" /\ result' = "Upload"
    <3>1. j # 8
      BY <1>4, <2>1, CleaningOrder DEF Managers
    <3>2. k = j + 1
      BY <1>4, <2>1, <3>1, CleaningOrder
    <3>3. j <= i /\ CleanUpOrder[i] # m
      BY <1>2, <2>1, <3>2, CleaningOrder
    <3>4. assets[CleanUpOrder[i]] = "deleted"
      BY <1>3, <2>1, <3>3, CleaningOrder
    <3> QED
      BY <1>1, <1>10, <3>3, <3>4
  <2> QED
    BY <1>5, <2>1 DEF Undeleted
<1>12. TwiceOnlyAfterFailedUpload'
  <2>1. assets[m] = "deleted" => m = "Material" /\ result = "Upload"
    BY <1>2, <1>10
  <2> QED
    BY <1>1, <2>1 DEF CoreInv, TwiceOnlyAfterFailedUpload, DeletedAgain
<1>13. TypeOK'
  <2>1. /\ instances' \subseteq Singletons /\ twice' \subseteq Managers
        /\ gpu' \in [Owners -> GpuStates] /\ stage' \in [Shaders -> Stages]
    BY <1>1 DEF CoreInv, TypeOK, DeletedAgain, GpuStates, Stages, Released
  <2>2. result # "running"
    BY <1>1 DEF CoreInv, TypeOK
  <2> QED
    BY <1>1, <1>3, <1>5, <2>1, <2>2, TypeKept DEF CoreInv, TypeOK
<1>14. Built'
  BY <1>5, BuildingNext DEF Built, Building, D3DOn, SamplersOn, ShadersOn, TexturesOn, PoolsOn
<1> QED
  BY <1>9, <1>11, <1>12, <1>13, <1>14 DEF CoreInv

\* The program stops in a frame, or in the clean-up.
LEMMA StopsLater ==
  ASSUME CoreInv, FrameStops \/ \E m \in Managers : CleanUpStops(m)
  PROVE  CoreInv'
<1>1. pc' = "Stopped" /\ UNCHANGED <<debugger, result, frames, objects>>
  BY DEF FrameStops, CleanUpStops, GoOn
<1>2. pc' \in Places \ (Building \cup Managers \cup {"BeginFrame", "Loop", "Rest", "Exit"})
  BY <1>1, BuildingOrder DEF Places, Managers, Building, D3DOn, SamplersOn, ShadersOn, TexturesOn, PoolsOn
<1>3. TypeOK'
  BY <1>1, <1>2, TypeKept DEF CoreInv, TypeOK, objects
<1>4. Built'
  BY <1>2, BuildingNext DEF Built, Building, D3DOn, SamplersOn, ShadersOn, TexturesOn, PoolsOn
<1>5. Cleaned'
  BY <1>1, NotCleaning
<1>6. Undeleted'
  BY <1>2, CleaningOrder DEF Undeleted
<1>7. TwiceOnlyAfterFailedUpload'
  BY <1>1 DEF CoreInv, TwiceOnlyAfterFailedUpload, objects
<1> QED
  BY <1>3, <1>4, <1>5, <1>6, <1>7 DEF CoreInv

LEMMA CleansRest ==
  ASSUME CoreInv, CleanUpRest
  PROVE  CoreInv'
<1> DEFINE gone == {"Sampler", "Camera"} \cup
                   (IF result = "ok" THEN {"Input", "FrameInfo"} ELSE {})
<1>1. /\ pc = "Rest" /\ pc' = "Exit" /\ instances' = instances \ gone /\ d3d' = {}
      /\ UNCHANGED <<assets, gpu, stage, twice, debugger, result, frames>>
  BY DEF CleanUpRest, GoOn
<1>2. pc' \in Places \ (Building \cup Managers)
  BY <1>1, BuildingOrder DEF Places, Managers, Building, D3DOn, SamplersOn, ShadersOn, TexturesOn, PoolsOn
<1>3. TypeOK'
  <2>1. result # "running"
    BY <1>1 DEF CoreInv, TypeOK
  <2> QED
    BY <1>1, <1>2, <2>1, TypeKept DEF CoreInv, TypeOK
<1>4. Built'
  BY <1>2, BuildingNext DEF Built, Building, D3DOn, SamplersOn, ShadersOn, TexturesOn, PoolsOn
<1>5. Cleaned'
  <2>1. \A i \in 1 .. 8 : Gone(CleanUpOrder[i])'
    BY <1>1 DEF CoreInv, Cleaned, Gone
  <2>2. /\ d3d' = {} /\ instances' \cap {"Sampler", "Camera"} = {}
        /\ result' = "ok" => instances' \cap {"Input", "FrameInfo"} = {}
    BY <1>1
  <2> QED
    BY <1>2, <2>1, <2>2, CleaningOrder DEF Cleaned
<1>6. Undeleted'
  BY <1>2, CleaningOrder DEF Undeleted
<1>7. TwiceOnlyAfterFailedUpload'
  BY <1>1 DEF CoreInv, TwiceOnlyAfterFailedUpload
<1> QED
  BY <1>3, <1>4, <1>5, <1>6, <1>7 DEF CoreInv

LEMMA NothingMoves ==
  ASSUME CoreInv, UNCHANGED vars
  PROVE  CoreInv'
<1>1. UNCHANGED <<pc, debugger, d3d, instances, assets, gpu, stage, twice, result, frames>>
  BY DEF vars
<1>2. TypeOK'
  BY <1>1 DEF CoreInv, TypeOK
<1>3. Built' /\ Cleaned' /\ Undeleted' /\ TwiceOnlyAfterFailedUpload'
  BY <1>1 DEF CoreInv, Built, Whole, Cleaned, Gone, Undeleted, TwiceOnlyAfterFailedUpload
<1> QED
  BY <1>2, <1>3 DEF CoreInv

LEMMA CoreStep == CoreInv /\ [Next]_vars => CoreInv'
<1> SUFFICES ASSUME CoreInv, [Next]_vars PROVE CoreInv'
  OBVIOUS
<1>1. ASSUME NEW i \in DOMAIN D3DSteps, CreateD3DObject(D3DSteps[i]) PROVE CoreInv'
  BY <1>1, CreatesD3DObject, BuildingOrder
<1>2. ASSUME NEW m \in Managers, GetAsserts(m) PROVE CoreInv'
  BY <1>2, AssertsInGet
<1>3. ASSUME NEW m \in Managers, CleanUpManager(m) PROVE CoreInv'
  BY <1>3, CleansManager
<1>4. CASE ImportFile("DirectionMesh", "ChosenFile") \/ ImportFile("ChosenFile", "Instantiate")
  BY <1>4, ImportsFile
<1>5. CASE FrameStops \/ \E m \in Managers : CleanUpStops(m)
  BY <1>5, StopsLater
<1> QED
  BY <1>1, <1>2, <1>3, <1>4, <1>5, InstantiatesSamplerPool, InitsShaderManager, LoadsTextures,
     AssertsTempMaterials, InstantiatesManagers, InstantiatesOnGPU, SendsGeometry,
     BeginsFrame, DrawsFrame, Quits, CleansRest, NothingMoves, Zenon
  DEF Next

-----------------------------------------------------------------------------
\* A step that leaves the shaders alone.
LEMMA StageKept ==
  ASSUME Shaded, stage' = stage, debugger' = debugger, pc # "Stopped",
         "ModelCombination" \in instances' =>
           "ModelCombination" \in instances \/ stage[Default] = "Instantiated",
         pc' \in Managers \ {"ModelCombination"} =>
           pc \in Managers /\ (pc # "ModelCombination" \/ pc \in instances),
         pc' \in ShadersOn => pc \in ShadersOn,
         pc' \in {"Rest", "Exit"} => pc = "Rest"
  PROVE  Shaded'
BY DEF Shaded

\* What Init's steps do to the program counter, as far as Shaded asks.
LEMMA StageKeptByInit ==
  ASSUME IInv, stage' = stage, debugger' = debugger, pc \in Building,
         pc' \in Building \cup {"ModelCombination", "Stopped"},
         "ModelCombination" \in instances' =>
           "ModelCombination" \in instances \/ stage[Default] = "Instantiated",
         pc' \in ShadersOn => pc \in ShadersOn
  PROVE  Shaded'
<1>1. "Stopped" \notin Building
  BY BuildingOrder DEF Building, D3DOn, SamplersOn, ShadersOn, TexturesOn, PoolsOn
<1>2. pc' \notin {"Rest", "Exit"} /\ pc' \notin Managers \ {"ModelCombination"}
  BY TypeOfBuilding DEF Managers
<1> QED
  BY <1>1, <1>2, StageKept DEF IInv

LEMMA ShadersInit ==
  ASSUME IInv, InitShaderManager
  PROVE  Shaded'
<1>1. pc = "InitShaders" /\ "ModelCombination" \notin instances'
  BY DEF InitShaderManager, IInv, CoreInv, Built, Building, D3DOn, SamplersOn, ShadersOn, TexturesOn, PoolsOn
<1>2. CASE ShadersNotCompiled
  <2>1. /\ stage' = stage /\ debugger' = debugger
        /\ pc' \in {"ModelCombination", "Stopped"}
    BY <1>2, Failed DEF ShadersNotCompiled
  <2>2. pc \in Building /\ pc' \notin ShadersOn
    BY <1>1, <2>1 DEF Building, D3DOn, SamplersOn, ShadersOn, TexturesOn, PoolsOn
  <2> QED
    BY <1>1, <2>1, <2>2, StageKeptByInit
<1>3. CASE ShadersCompiled
  <2>1. pc' \in {"LoadTextures", "Stopped"} /\ debugger' = debugger
    BY <1>3, Zenon DEF ShadersCompiled, GoOn
  <2>2. \/ stage'[Skinned] = "Instantiated"
        \/ stage'[Skinned] \in {"Compiled", "Unlaid"} /\ (debugger \/ pc' = "Stopped")
    <3>1. CASE stage' = ShadersAt("Instantiated", "Instantiated")
      BY <3>1, StageShapes
    <3>2. CASE /\ \E left \in {"Compiled", "Unlaid"} :
                    stage' \in {ShadersAt(left, "Compiled"), ShadersAt("Instantiated", left)}
               /\ pc' = IF debugger THEN "LoadTextures" ELSE "Stopped"
      <4>1. stage'[Skinned] \in {"Compiled", "Unlaid"}
        BY <3>2, StageShapes
      <4> QED
        BY <3>2, <4>1
    <3> QED
      BY <1>3, <3>1, <3>2 DEF ShadersCompiled, GoOn
  <2>3. pc' \notin Managers \cup {"Rest", "Exit"}
    BY <2>1 DEF Managers
  <2>4. pc' = "Stopped" => pc' \notin ShadersOn
    BY DEF ShadersOn, TexturesOn, PoolsOn
  <2> QED
    BY <1>1, <2>1, <2>2, <2>3, <2>4 DEF Shaded
<1> QED
  BY <1>2, <1>3 DEF InitShaderManager

LEMMA ShadersCleanedUp ==
  ASSUME IInv, NEW m \in Managers, CleanUpManager(m)
  PROVE  Shaded'
<1>1. /\ pc = m /\ m \in instances /\ instances' = instances \ {m} /\ debugger' = debugger
      /\ stage' = IF m = "Shader" THEN [t \in Shaders |-> Released(t)] ELSE stage
      /\ pc' = IF m = Last(CleanUpOrder) THEN "Rest" ELSE After(CleanUpOrder, m)
  BY DEF CleanUpManager, ReleaseAssets, GoOn
<1>2. PICK j \in 1 .. 8 : m = CleanUpOrder[j]
  BY CleaningOrder
<1>3. /\ j = 8 => pc' = "Rest"
      /\ j # 8 => pc' = CleanUpOrder[j + 1] /\ j + 1 \in 1 .. 8
  BY <1>1, <1>2, CleaningOrder, CleaningNext
<1>4. j = 8 <=> m = "Shader"
  BY <1>2 DEF CleanUpOrder
<1>5. pc' \notin ShadersOn /\ pc # "Stopped"
  <2>1. pc' \in Managers \cup {"Rest"}
    BY <1>3, CleaningOrder
  <2> QED
    BY <1>1, <2>1 DEF Managers, ShadersOn, TexturesOn, PoolsOn
<1>6. CASE m = "Shader"
  <2>1. "ModelCombination" \notin instances'
    <3>1. Gone(CleanUpOrder[1])
      <4>1. j = 8 /\ pc = CleanUpOrder[8]
        BY <1>1, <1>2, <1>4, <1>6
      <4> QED
        BY <4>1 DEF IInv, CoreInv, Cleaned
    <3> QED
      BY <1>1, <3>1 DEF Gone, CleanUpOrder
  <2>2. stage[Default] = "Instantiated" /\ (stage[Skinned] = "Unlaid" => debugger)
    BY <1>1, <1>5, <1>6 DEF IInv, Shaded, Managers
  <2>3. stage'[Default] = "none" /\ stage'[Skinned] = Released(Skinned)
    BY <1>1, <1>6, <2>2 DEF Released, Shaders, Default, Skinned
  <2>4. pc' = "Rest" /\ pc' \notin Managers
    BY <1>3, <1>4, <1>6 DEF Managers
  <2> QED
    BY <1>1, <1>5, <2>1, <2>2, <2>3, <2>4 DEF Released, Shaded
<1>7. CASE m # "Shader"
  <2>1. pc' \in Managers
    BY <1>3, <1>4, <1>7, CleaningOrder
  <2>2. pc' \notin {"Rest", "Exit"}
    BY <2>1 DEF Managers
  <2> QED
    BY <1>1, <1>5, <1>7, <2>2, StageKept DEF IInv
<1> QED
  BY <1>6, <1>7

LEMMA ShadersLater ==
  ASSUME IInv, \/ FrameStops \/ Quit \/ PerFrame \/ CleanUpRest
               \/ \E m \in Managers : GetAsserts(m) \/ CleanUpStops(m)
  PROVE  Shaded'
<1>1. stage' = stage /\ debugger' = debugger /\ instances' \subseteq instances
  BY DEF FrameStops, Quit, PerFrame, CleanUpRest, GetAsserts, CleanUpStops, GoOn, objects
<1>2. /\ pc # "Stopped"
      /\ \/ pc' \in {"Stopped", "ModelCombination", "AssertedNull"}
         \/ pc = "Rest" /\ pc' = "Exit"
         \/ pc' = pc /\ pc = "Loop"
  BY DEF FrameStops, Quit, PerFrame, CleanUpRest, GetAsserts, CleanUpStops, GoOn, Managers
<1>3. /\ pc' \notin Managers \ {"ModelCombination"}
      /\ pc' \in ShadersOn => pc \in ShadersOn
      /\ pc' \in {"Rest", "Exit"} => pc = "Rest"
  BY <1>2 DEF Managers, ShadersOn, TexturesOn, PoolsOn
<1> QED
  BY <1>1, <1>2, <1>3, StageKept DEF IInv

LEMMA ShadersOnTheWay ==
  ASSUME IInv,
         \/ \E i \in 1 .. 7 : CreateD3DObject(D3DSteps[i])
         \/ InstantiateSamplerPool \/ LoadTextures \/ CreateTempMaterialsAsserts
         \/ InstantiateManagers \/ InstantiateOnGPU \/ SendAllGeometryToGPU \/ BeginFrame
         \/ ImportFile("DirectionMesh", "ChosenFile") \/ ImportFile("ChosenFile", "Instantiate")
  PROVE  Shaded'
<1>1. stage' = stage /\ debugger' = debugger
  BY Failed DEF CreateD3DObject, InstantiateSamplerPool, LoadTextures, CreateTempMaterialsAsserts,
     InstantiateManagers, InstantiateOnGPU, SendAllGeometryToGPU, BeginFrame, ImportFile, GoOn
<1>2. "ModelCombination" \in instances' =>
        "ModelCombination" \in instances \/ stage[Default] = "Instantiated"
  BY DEF CreateD3DObject, InstantiateSamplerPool, LoadTextures, CreateTempMaterialsAsserts, ShaderReady,
     InstantiateManagers, InstantiateOnGPU, SendAllGeometryToGPU, BeginFrame, ImportFile, GoOn
<1>3. CASE \E i \in 1 .. 7 : CreateD3DObject(D3DSteps[i])
  <2>1. PICK i \in 1 .. 7 : CreateD3DObject(D3DSteps[i])
    BY <1>3
  <2>2. pc = D3DSteps[i] /\ pc \in Range(D3DSteps)
    BY <2>1, BuildingNext DEF CreateD3DObject
  <2>3. \/ pc' \in {"ModelCombination", "Stopped"}
        \/ pc' = IF D3DSteps[i] = Last(D3DSteps) THEN "Sampler" ELSE After(D3DSteps, D3DSteps[i])
    BY <2>1, Failed DEF CreateD3DObject, GoOn
  <2>4. pc' \in {"ModelCombination", "Stopped", "Sampler"} \cup Range(D3DSteps)
    <3>1. CASE i = 7
      BY <2>3, <3>1, BuildingNext
    <3>2. CASE i \in 1 .. 6
      <4>1. i + 1 \in 1 .. 7
        BY <3>2
      <4>2. After(D3DSteps, D3DSteps[i]) \in Range(D3DSteps)
        BY <3>2, <4>1, BuildingNext
      <4> QED
        BY <2>3, <4>2
    <3> QED
      BY <3>1, <3>2
  <2>5. pc' \notin ShadersOn /\ pc \in Building
        /\ pc' \in Building \cup {"ModelCombination", "Stopped"}
    BY <2>2, <2>4, BuildingOrder DEF Building, D3DOn, SamplersOn, ShadersOn, TexturesOn, PoolsOn
  <2> QED
    BY <1>1, <1>2, <2>5, StageKeptByInit
<1>4. ASSUME \/ InstantiateSamplerPool \/ LoadTextures \/ CreateTempMaterialsAsserts
             \/ InstantiateManagers \/ InstantiateOnGPU \/ SendAllGeometryToGPU \/ BeginFrame
             \/ ImportFile("DirectionMesh", "ChosenFile")
             \/ ImportFile("ChosenFile", "Instantiate")
      PROVE  Shaded'
  <2>1. \/ pc = "Sampler" /\ pc' = "InitShaders"
        \/ /\ pc \in ShadersOn
           /\ pc' \in ShadersOn \cup {"ModelCombination", "Stopped"}
    BY <1>4, Failed DEF InstantiateSamplerPool, LoadTextures, CreateTempMaterialsAsserts,
       InstantiateManagers, InstantiateOnGPU, SendAllGeometryToGPU, BeginFrame, ImportFile, GoOn,
       ShadersOn, TexturesOn, PoolsOn
  <2>2. /\ pc \in Building /\ pc' \in Building \cup {"ModelCombination", "Stopped"}
        /\ pc' \in ShadersOn => pc \in ShadersOn
    BY <2>1 DEF Building, D3DOn, SamplersOn, ShadersOn, TexturesOn, PoolsOn
  <2> QED
    BY <1>1, <1>2, <2>2, StageKeptByInit
<1> QED
  BY <1>3, <1>4

\* The invariant is inductive: what wWinMain, Init and CleanUp do in any order of
\* successes and failures keeps it.
THEOREM Inductive == Spec => []IInv
<1>1. Init => IInv
  <2> SUFFICES ASSUME Init PROVE IInv
    OBVIOUS
  <2>1. stage[Skinned] = "none" /\ pc = "Device" /\ "ModelCombination" \notin instances
    BY DEF Init, Skinned, Shaders
  <2> QED
    BY <2>1, Initially DEF IInv, Shaded, Managers, ShadersOn, TexturesOn, PoolsOn
<1>2. IInv /\ [Next]_vars => IInv'
  <2> SUFFICES ASSUME IInv, [Next]_vars PROVE Shaded'
    BY CoreStep DEF IInv
  <2>1. CASE UNCHANGED vars
    BY <2>1 DEF IInv, Shaded, vars
  <2> QED
    BY <2>1, ShadersInit, ShadersCleanedUp, ShadersLater, ShadersOnTheWay, BuildingOrder, Zenon
    DEF Next
<1> QED
  BY <1>1, <1>2, PTL DEF Spec

\* Every variable has its type, and a clean-up or a frame comes only after Init has
\* said how it ended (wWinMain looks at its result first).
THEOREM TypeCorrect == Spec => []TypeOK
<1>1. IInv => TypeOK
  BY DEF IInv, CoreInv
<1> QED
  BY <1>1, Inductive, PTL

\* Frames are drawn only with every Direct3D object and manager in place, with the default
\* material and its shader, and with nothing missing on the GPU but what Init does not
\* look at: buffers of materials, and joint buffers behind a debugger.
THEOREM FramesFindAll == Spec => []FramesEquipped
<1>1. IInv => FramesEquipped
  <2> SUFFICES ASSUME IInv, pc = "Loop" PROVE FramesEquipped
    BY DEF FramesEquipped
  <2>1. /\ d3d = Range(D3DSteps) /\ Managers \subseteq instances
        /\ {"Sampler", "Camera", "FrameInfo"} \subseteq instances
        /\ assets["Material"] = "live" /\ assets["Shader"] = "live"
        /\ Whole("Texture") /\ Whole("Geometry")
        /\ ~debugger => Whole("Skeleton") /\ Whole("SkeletonAnim")
    BY DEF IInv, CoreInv, Built, Building, D3DOn, SamplersOn, ShadersOn, TexturesOn, PoolsOn
  <2>2. {"Material", "Shader"} \subseteq Live(Managers)
    BY <2>1 DEF Live, Managers
  <2>3. Missing \subseteq {"Material"} \cup (IF debugger THEN {"Skeleton", "SkeletonAnim"} ELSE {})
    BY <2>1 DEF Missing, Owners, Whole
  <2>4. Singletons \subseteq instances \cup {"Input"}
    BY <2>1 DEF Singletons
  <2>5. stage[Default] = "Instantiated" /\ (stage[Skinned] = "Instantiated" \/ debugger)
    BY <2>1 DEF IInv, Shaded, Managers, ShadersOn, TexturesOn, PoolsOn
  <2> QED
    BY <2>1, <2>2, <2>3, <2>4, <2>5 DEF FramesEquipped
<1> QED
  BY <1>1, Inductive, PTL

\* The clean-up that gets to its end has given back every Direct3D object, manager
\* and GPU resource, whichever step of Init failed, but what a skinned shader without an
\* input layout loses behind a debugger.
THEOREM NothingLeftBehind == Spec => []CleanExit
<1>1. IInv => CleanExit
  <2> SUFFICES ASSUME IInv, pc = "Exit" PROVE CleanExit
    BY DEF CleanExit
  <2>1. \A m \in Managers : Gone(m)
    BY CleaningOrder DEF IInv, CoreInv, Cleaned
  <2>2. Live(Managers) = {}
    BY <2>1 DEF Gone, Live
  <2>3. gpu = [m \in Owners |-> "none"]
    <3>1. Owners \subseteq Managers
      BY DEF Owners, Managers
    <3>2. gpu \in [Owners -> GpuStates] /\ \A m \in Owners : gpu[m] = "none"
      BY <2>1, <3>1 DEF IInv, CoreInv, TypeOK, Gone
    <3> QED
      BY <3>2
  <2>4. /\ d3d = {} /\ instances \cap {"Sampler", "Camera"} = {}
        /\ result = "ok" => instances \cap {"Input", "FrameInfo"} = {}
    BY DEF IInv, CoreInv, Cleaned
  <2>5. instances \subseteq {"Input", "FrameInfo"} /\ (result = "ok" => instances = {})
    BY <2>1, <2>4 DEF IInv, CoreInv, TypeOK, Singletons, Gone
  <2>6. /\ stage[Default] = "none"
        /\ stage[Skinned] = "none" \/ (stage[Skinned] = "Lost" /\ debugger)
    BY DEF IInv, Shaded
  <2> QED
    BY <2>2, <2>3, <2>4, <2>5, <2>6 DEF CleanExit
<1> QED
  BY <1>1, Inductive, PTL

\* Materials after a failed upload of geometry are the only assets released twice.
THEOREM OnlyMaterialsTwice == Spec => []TwiceOnlyAfterFailedUpload
<1>1. IInv => TwiceOnlyAfterFailedUpload
  BY DEF IInv, CoreInv
<1> QED
  BY <1>1, Inductive, PTL

=============================================================================
