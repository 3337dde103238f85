# Verification of FBXRenderer

FBXRenderer is a single-threaded Win32/Direct3D 11 viewer of FBX files. Its own code is
`FBXRenderer.cpp` (window, message loop), `SSEngineDefault/` (containers, input, clock,
mathematics) and `SSRenderer/` (the renderer, eight asset managers, the FBX importer, the
assets). `ExternalUtils/` (FBX SDK, Dear ImGui, Cap'n Proto, the DDS loader) is vendored,
`Serializable/` generated. There are no tests. Paths below are under `src/FBXRenderer/`.

This directory holds TLA+ modules that model the parts with state and control of their
own, the TLC configurations that check them on small instances, and proofs for TLAPS.
`PROJECT.json` maps every modelling definition to the lines it translates, lists the runs,
their properties, a mutant of the code for each property, the hazards and the theorems.

Only the debug build is modelled, because only it compiles: `ASSERT_WITH_MESSAGE`, which
most managers use, is defined in the `_DEBUG` branch of `SSDebugLogger.h` alone. So an
assertion that fails stops the program, and `__debugbreak`, which the error log and
`SS_ASSERT` call, stops it unless a debugger is attached and goes on.

## Inventory

| Component | State | Operations | What is hard | What makes it correct |
|---|---|---|---|---|
| Name table `StringHashMapA.h` | `_strPool`, `_dataPool`, capacity, limit, seed | insert, find, erase, rebuild | open addressing with a probe limit, erasure without tombstones, a rebuild that may give up | stored keys are found; keys unique; it is a map |
| Asset managers `RenderAsset/*Manager*` | a list of owned pointers, a name table | insert, find, by index, release | the list takes the asset before the table accepts the name; growth | names lead to the first asset of that name; nothing is lost in silence; indices stay good |
| Lifecycle `FBXRenderer.cpp`, `SSRenderer::Init/CleanUp` | singletons, D3D objects, what is on the GPU | some fifteen steps, most of them fallible, some without a report; ordered clean-up | failure half way | frames find what they need; exit leaves nothing |
| Input and messages `SSInput`, `WndProc` | two arrays of key states, the thread's queue | press, release, clear, end of frame | order of messages, focus changes and frames; shared codes | no hanging key; exact edges |
| Pooled linked list `PooledLinkedList.h` | node pool, address stack, two chains | push, pop, insert, erase, clear | addresses recycled in any order | it is a sequence; no node lost |
| String interning `SHasher` | chained buckets | intern, compare, clear | ids that outlive the pool | while the pool lives, ids are stable, shared by spellings of one word only and read back as it |
| FBX importer `SSFBXImporter` | assets under construction | traversal, skeleton, vertices, weights | recursion with shared output lists, 16-bit indices, shared materials | the assets mirror the scene |
| Materials, shaders, textures, geometry `AssetType/` | a stage, system and GPU buffers | instantiate, sync, bind, change shader, release | operations legal in some stages only | buffers match the shader in use |
| Skeletons, animations `AssetType/` | bones, sampled transforms | update, blend between frames | fractional frame, wrap | index in range |
| Clock `SSFrameInfo` | ticks, counters, stop watch | begin, per frame | zero tick difference | counters agree |
| Sampler pool | cache of samplers | get, release | cache key | one sampler per mode |
| Camera, vectors, mathematics | - | floating point | - | not modelled: outside TLC's reach |
| Drawing, editor windows | what is bound to the context | bind, draw, the button that syncs a material | bindings outlive the draw that made them | a draw reads its own buffers |

Interaction: `wWinMain` owns the loop and calls the renderer; the renderer instantiates
the managers and calls the importer, which fills them; assets find each other by name
through the managers' tables; frames read the input and the clock.

## Modules

### The name table
`StringHashMapA` has the two pools, capacity, collision limit and seed as variables and
one action per member function and outcome (`InsertAt`, `InsertKnown`, `InsertLimit`,
`TryFind`, `EraseAt`, `EraseMissing`, `RebuildAs`, `RebuildFails`, `InvalidKey`). `Hash`
is a constant function, so the instance chooses which keys collide. The loop of
`TryRebuild` is stated at once: `Placement` says where ascending reinsertion puts every
key; its mutants and `ImplementsBag` confirm that it is what the loop computes. `holed`
and `tainted` are history variables: no operation reads them.

`AssociationBag` and `StringMap` are abstract specifications. `StringHashMapA` implements
the first for every client: a call adds, returns or takes away single associations. Not
the second, since `TryErase` leaves no tombstone: after erasing a key, inserting another
key that was stored further along puts in a second copy, and erasing one copy uncovers
the other. `DisciplinedSpec` is the client that rebuilds between an erasure and the next
insertion, or never erases, as every client in this repository; for it the table is a map.

Runs `hash_map`, `hash_map_disciplined`: three keys that collide, capacities 2 and 3 (so
that probes wrap and the pool fills up), limits below and at the capacity, two seeds.

### The asset managers
`AssetManager` has the list (`capacity`, `size` and `data`, the storage, with `Garbage`
where nothing was written) and an instance of `StringHashMapA` as its table, of which it
uses insertion and lookup. `kind` tells the managers apart: whether a full list grows,
whether a refused name shows a message box, breaks or fails an assertion, and whether a
failed lookup falls back on a fixed index, as the textures' does. `InsertNewAsset` is the
whole function: growth, `PushBack`, `TryInsert` with `GetSize() - 1` (`Register`), and
`Report`. Growth is `IncreaseCapacityAndCopy`, which copies as many elements as the old
capacity says; `StableIndices` is about this copy. A break goes on only behind a debugger,
so it may stop or be passed over; a name that the table does not accept at all fails an
assertion in the table itself. `Element` is the list's `operator[]`, which asserts that the
index is within the capacity and not within the size: by index, or by the textures'
fallback, storage that was never written can be read. No property forbids that, because
nothing in the code prevents it; lookups by name lead to assets (`FirstOfItsName`). Run
`asset_manager`: five kinds that cover each combination the managers have but for the
fallback with a growing list, which none has; assets of equal, colliding and unacceptable
names, table capacity and collision limit small enough that each outcome of `TryInsert`
occurs, lists that grow twice.

### The lifecycle
`RendererLifecycle` follows `wWinMain`: `pc` is the step of `Init` or `CleanUp`, a step
that returns its failure has a disjunct that fails, and `CleanUp` walks the managers in the
order of the source. `debugger` is whether breaks continue: without a debugger a failed
`Init` stops at once. The assets of a manager are one item in `assets` (`none`, `live`,
`deleted`), and `gpu` says what they own on the GPU: nothing, all they need, a part of it,
or a joint buffer whose view could not be made (`viewless`). The two shaders are followed
one by one, in `stage`, because they fail apart: one whose input layout cannot be made
keeps its shader objects (`Unlaid`), which its release then forgets (`Lost`).

Some failures are not returned. `CreateBuffer` for a material is not looked at, and for the
joint buffers of skeletons and animations, and their views, it is logged with a break:
`Outcomes` says what may be on the GPU afterwards, and `Init` goes on. So `FramesEquipped`
says what frames may lack: buffers of materials always, joint buffers and the skinned
shader behind a debugger. A frame that needs what is missing may stop (`FrameStops`), and
so may the release of a null view (`CleanUpStops`). `CleanExit` excepts the lost objects of
the skinned shader, and the two singletons of `wWinMain` when `Init` failed. The list of
textures may be empty. Runs: `lifecycle` (all combinations of failures; three frames are
enough as a frame changes nothing else), and `lifecycle_get`, the finding below.

### Input
`InputLoop` composes Windows (environment actions: press, repeat, release, focus,
pointer, close), the thread's queue, `WndProc` and `SSInput`. Keys of the keyboard and
buttons of the mouse are both `Keys`; keys without a code share `Unknown`. Messages come
in the order in which the events happen, in a queue of at most `MaxQueue` = 3 messages.
`DispatchMessage` is one `PeekMessage` with the whole of `WndProc`. Fairness:
`WF_vars(Loop)`, since the loop's thread never blocks (`PeekMessage` returns at once);
nothing is assumed of the user. A frame needs an empty queue, so no liveness of frames is
claimed.

While Alt is held, or the menu it opens is up, Windows reports the keys of the keyboard by
`WM_SYSKEYDOWN` and `WM_SYSKEYUP` (`SysKey`), or to the menu's own loop; `WndProc` leaves
both to `DefWindowProc`, so `SSInput` does not see them. A key pressed before Alt and let
go of while Alt is held therefore hangs, in a window with the focus, until it is pressed
again or the focus or the pointer leaves. `NoHangingKey` and `ReleaseArrives` say that
this is the only way to hang: `unreported`, a history variable that no action reads but
to keep it, has the codes let go of in that way. Run `input_loop`: Alt, a key with a code
of its own, and a button that shares Alt's code, `Unknown`.

### The pooled linked list
`PooledLinkedList` has the pool, the address stack and both chains; each member function
is an action. `ItemSequence` is what it promises; `ImplementsSequence` says which change
of the sequence each call is. Run `linked_list`: three nodes, two items, all histories.

### The interning of strings
`SHasher` has the global pool: `InitHashPool`, the constructor of `SHashA`, its `C_Str`
and comparison, and `ClearHashPool`. The id of a word is its bucket and its place in the
bucket's chain. `held` is the id that the caller of each word was given last. An id is a
value: clearing the pool or making it anew leaves `held` alone and only empties `fresh`,
the words whose id is of the pool that is there now. `CStr` reads any of them: an id of
the pool its word, an older one another word, a null pointer, or what lies behind the end
of the pool. `Interner` is what the pool promises and `ImplementsInterner` the refinement:
while the pool lives a word keeps its id, only spellings of one word share one, and it
reads back as one of them; of older ids nothing is promised. Nor is it promised that two
spellings of a word (`name`, `Name`) get one id: the bucket is chosen by a hash that minds
the case, so whether they do depends on the size of the pool. Run `s_hasher`: five words, two of them spellings of others, pools of one to
three buckets, so that a pair meets in one pool and not in another.
Left out: that the pool is freed with `delete` where `new[]` made it, which is undefined
and does what was meant in the build at hand. A second clearing while the count is still
positive reads a null pool, and stops.

### Meshes
`MeshGeometry` is what the importer makes of one mesh, one corner, one cluster or one
polygon per step: the vertices a control point is split into, the bones each vertex takes
from the clusters of a skin, and the ranges of the index buffer. A corner is a control
point with an attribute, an integer for its normal, tangent and texture coordinates; two
attributes are similar when they differ by one at most, which like the thresholds of
`AreSimilarVertex` is not transitive. Weights are in hundredths. Its variables and its
`MeshInit`, `MeshNext` and `MeshSpec` have names apart from those of `SceneImport`, so that
one module can prove about both. `Counting` has what the two share: the least element of a
set, a set in ascending order, and the sum of a function over a set, which is defined by
counting, without recursion. The loops that search, count and add up are these operators:
the first similar vertex of a list is the least of the similar ones, and `_indexDataNum` is
the total of the triangles of the polygons with the material.

`MeshTypeOK` says that the lists of the control points divide the vertices between them and
that every corner leads into the list of its own. `IndicesFaithful` says that the ranges of
the materials adjoin each other from 0 to the end of the buffer, and that each holds the
fans of its polygons in the file's order, every corner by a vertex of its control point
with a similar attribute; as the fans fill the ranges, they hold nothing else. The
two branches of the code wind a fan in opposite directions, so it says that all triangles
of one mesh are turned alike, and not which way. It excepts polygons whose material index
is beyond the materials of the node (`HasStray`): their fans are written over the start of
the buffer. `WeightsKept` says which weights pose a vertex: the four first bones that are
heavier than the threshold, in the order of the clusters, each with the small weights that
came before it; small weights after the last bone are dropped, and after the fourth bone
they are written beyond the vertex, which is recorded in `spilled` and has no further
effect in the model (what lies there is undefined). A vertex with more bones stops the
program, and so does a bone the skeleton does not have, where no debugger goes on. The
mesh is one that the importer has not objected to before: with one deformer, a skin, if it
is skinned, with normals, and with a skeleton imported (`GeometryStops` of `SceneImport`
has those assertions).

Run `mesh_geometry`: meshes of up to three polygons of two to four corners that share
control points with three attributes (so that similarity fails to be transitive), one
material or one per polygon, up to one of them stray; skins of six clusters with weights
none, small and heavy, any one of them of a joint the skeleton does not have.
`SUBGEOM_COUNT_MAX` is 4 instead of 16, which only bounds the indices; the threshold and
the four bones are the code's. Assumed of a file: polygons have two corners or more, and
material indices are below `SUBGEOM_COUNT_MAX`.

### Shaders, materials and draws
`MaterialDrawing` follows the two shaders and the materials from compilation to release:
every step of compiling, reflecting and instantiating a shader may fail, and what was
created before stays or goes as in the code. A material gets a constant buffer for every
slot of its shader's reflection and lists those of each stage by ascending slot;
`BindMaterial` pairs the list with the reflection's own order. The slots are the
registers of `Resource/Shader/SSDefaultPbr.fxh`, and the order in which the reflection
lists them is the compiler's, so any order is an initial state. What is bound stays bound,
and buffers have a content, so a draw can read what an earlier one left.

`DrawReadsItsOwn` says that a draw reads the buffers of its own material exactly if the
reflection lists the constant buffers in ascending order before the structured ones
(`Orderly`); what it reads there is its transform, this frame's parameters and the
material's last edit. The two that `BindMaterial` counts off are meant to be the
structured buffers. `SkinsArePosed` says that the skinned shader runs on the pose of this
frame, but for a rigid mesh that shares its material with a skinned one, the case that
`ShadersFollowSkins` leaves open. `ReleaseLeavesNothing` says that the release, which
counts slots from 0 to the number of buffers though each stage uses some of them only, is
complete, and which shaders lose COM objects: those whose reflection or input layout
failed. `caches` is whether the skeleton and the animation are found that `PerFrame` looks
for by the name of one file; without them it breaks.

Run `material_drawing`: two meshes of either kind with any of two materials, every order
of the reflection, two frames (one more than a binding needs to become old) and one edit.
Left out: textures and samplers, and a constant buffer that cannot be created.

### The clock and the playback
`Playback` has `SSFrameInfo::PerFrame` with its counters, and the two readers of an
animation: the joint buffer, which blends frame `elapsed * rate / 2` with the next, and
the drawing of the bones in the editor, which goes by numbers in the code, 55 frames of 88
bones, at full speed. Times are integers of which `Second` make a second (the comment at
`SSFrameInfo.h:45` calls them milliseconds; the value is seconds). The model computes
exactly what the code computes in `float`; on the boundary of two frames the weight may
come out as 0 or almost 1, so both are choices. At 24 frames a second, the rate the
importer always gives, the index itself is not rounded past the last frame: `1.0f / 24` is
above a 24th, and the last floats before the end of a cycle, divided by it, stay below the
number of frames for up to 200000 frames. That was computed outside TLA+.

`ReadsInside` is about both readers: the first never reads beyond the stack and never
wraps in the middle of a blend; the second stays inside if the stack has room for its
numbers (`StackHasRoom`). For an animation with fewer bones or frames that condition
fails, nothing in the code stops the second reader, and it reads past the stack. `FPSCountsFrames` says that the number shown counts each frame
once, over an interval longer than a second by less than its last frame.
Run `playback`: ticks of zero, a fraction and more than a second; animations smaller, as
large as and larger than the numbers of the drawing (4 bones and 5 frames instead of 88
and 55), followed for more than three seconds.

### The import of a scene
`SceneImport` is `StoreCurrentFBXModelAssetToAssetManager`. A scene (the FBX SDK's, an
input) is a tree of nodes with kinds, names, materials and the node its skins are bound
to. The two recursions that fill shared lists, `ImportBoneToSkeletonRecursion` and
`TraverseNodesRecursion`, are one call per step, with `calls` for the calls still to be
made; the ones that only compute, `FindSkeletonRootRecursion` and
`FindFbxNodeWholeChildCnt`, are the operators `SkeletonRoot` and `WholeChildCnt`.
`status = "stopped"` is an assertion, a null pointer, or a break that no debugger goes on
from (`debugger`). `skinnedReady` is whether the skinned shader is instantiated; without a
debugger the program is not here if it is not.

The nodes of a scene are numbered in the order in which the recursions meet them, which is
no restriction, only a way to name them: `WellFormed` says which parents such a numbering
can have, and `Children` are then in their order. The nodes at and below a node are an
interval (`Below`), so the length that `FindFbxNodeWholeChildCnt` computes is the size of
one. A scene has fewer than 65535 nodes, because 65535 stands for no parent and indices
are 16 bits wide; what a larger one does is a hazard that no property covers.

`StopsExplained` says what the import stops for, and that it gets to the end of every other
scene. It asserts (`NothingAsserts`) that below the first skeleton node there are skeleton
nodes only (`GetSkeleton()` of another is null), that there is a skeleton if there is a
skin, and that the lists of models and geometries, which do not grow, have room (`Room`).
It breaks about (`NothingBreaks`) a skin whose link is no bone, and a name of a mesh or of
the file that the table has already or has no place for (`refused`: whether it has place
is up to its collision limit). What else the generation of a geometry objects to, a
deformer that is not one skin, missing normals, too many materials, more than four bones,
is in the scene's `objection`, which says of a node whether there is an assertion or a
break; which of them it is, is in `MeshGeometry` or below its abstraction.
`HierarchyMirrorsScene` and
`BonesMirrorSkeleton` say that the lists are the scene's hierarchy; what hangs below a
skeleton node is skipped. `ShadersFollowSkins` holds as the code stands: a static mesh
that shares a material with a skinned one is left with the skinned shader; if that is not
instantiated `ChangeShader` refuses it, and all materials keep the default. `NamesFindBones`
says that the joint of a skin is the bone linked, and that there is none only where a
debugger went on.

Run `scene_import`: all hierarchies of two and three nodes of every kind, with shared
names and any node linked, or with no, one or two materials for each node, those of
four nodes with two skeletons, and those of three nodes with one objection or one name
refused, each with and without a debugger and the skinned shader; room for two models. Three nodes are enough for siblings, for a grandchild and
for a mesh before, between, below and after bones; four for two skeletons and a skin
beside them. What a mesh becomes is in `MeshGeometry`. Not modelled: transforms, and bone
indices beyond 16 bits.

## Runs

| Run | Module | Distinct states | Shows |
|---|---|---|---|
| `hash_map` | MCStringHashMapA | 20462 | `TypeOK`, `WithinReach`, `GapsOnlyAfterErase`, `UniqueUntilTainted`, `ImplementsBag` |
| `hash_map_disciplined` | MCStringHashMapA | 4014 | `ImplementsMap` |
| `asset_manager` | MCAssetManager | 39242 | `TypeOK`, `FirstOfItsName`, `NoSilentLoss`, `ListOwnsAssets`, `StableIndices` |
| `lifecycle` | RendererLifecycle | 16994 | `TypeOK`, `FramesEquipped`, `CleanExit`, `TwiceOnlyAfterFailedUpload` |
| `lifecycle_get` | RendererLifecycle | - | `InstanceExists` is violated |
| `input_loop` | MCInputLoop | 278384 | `TypeOK`, `NoHangingKey`, `EdgesBetweenFrames`, `ReleaseArrives` |
| `scene_import` | MCSceneImport | 518186 | `TypeOK`, `BonesMirrorSkeleton`, `StopsExplained`, `HierarchyMirrorsScene`, `ShadersFollowSkins`, `NamesFindBones` |
| `linked_list` | PooledLinkedList | 4662 | `TypeOK`, `PoolAccounted`, `LinksMirrored`, `ImplementsSequence` |
| `mesh_geometry` | MCMeshGeometry | 201839 | `MeshTypeOK`, `IndicesFaithful`, `WeightsKept` |
| `material_drawing` | MCMaterialDrawing | 1445280 | `TypeOK`, `DrawReadsItsOwn`, `SkinsArePosed`, `ReleaseLeavesNothing` |
| `s_hasher` | MCSHasher | 288811 | `TypeOK`, `ImplementsInterner` |
| `playback` | Playback | 4758036 | `ReadsInside`, `FPSCountsFrames` |

Fairness is assumed in `InputLoop` alone. Everything else is one thread that runs each
operation to its end, and a bound on frames, edits or time would make "eventually" true of
the bound and not of the code.

`CHECK_DEADLOCK FALSE` stands where the system may stop: after an assertion, at the
program's end, in the loop once the window is gone, at the end of an import, and where a
bound on frames or time is reached.

### The finding
Every singleton's `Get()` asserts that there is an instance (`SSNativeKeywords.h:33`).
When `Init` fails before `SSModelCombinationAssetManager::Instantiate`
(`SSRenderer.cpp:296`), `wWinMain` calls `CleanUp` all the same (`FBXRenderer.cpp:115`),
whose first statement gets exactly that manager: the assertion fails and nothing is
released. `CleanExit` is about the paths that get to the end.

What else the models show, though no document of the repository says otherwise: after a
failed upload of geometry the materials are released twice (`SSRenderer.cpp:315`, `423`;
`TwiceOnlyAfterFailedUpload` says that this is the only such path). That the result of
`InstantiateAllShader` is dropped (`SSRenderer.cpp:335`) has no consequence for the
default shader: without it the default material has no name, which the name table
asserts, and no frame is drawn (`FramesEquipped`). For the skinned shader it has: behind a
debugger frames go on without it, and if it was its input layout that failed, its shader
objects are never released (`CleanExit`, `ReleaseLeavesNothing`). A key let go of while Alt
is held stays down (`NoHangingKey`).

## Proofs

`StringHashMapAProofs` proves, for every set of keys and items, every hash function,
capacity, limit and seed (assumptions `SizesAssumption`, `NamesAssumption`):

- `TypeCorrect`: `TypeOK`.
- `Inductive`: `IInv`, the conjunction of `TypeOK`, `WithinReach`, `GapsOnlyAfterErase`
  and `UniqueUntilTainted`. They need each other: a key is unique after an insertion
  because the probe path of an older copy had no gap at which the insertion could have
  stopped, which is `GapsOnlyAfterErase`; that in turn needs every stored key to be on
  its own path. For a rebuild, `Placement` is unfolded: the steps that a key skips are
  taken by keys of lower slots.
- `StoredKeysWithinReach`, `NoGapBeforeErase`, `KeysUnique`: the conjuncts.
- `TableImplementsMap`: the table of a disciplined client implements `StringMap` under
  the mapping `Dictionary`, step by step, with the invariant `~tainted`.
- `TableImplementsBag`: the table of any client implements `AssociationBag`, whose copies
  of an association are the slots that hold it. An insertion adds one slot to the set of
  its association and an erasure takes one away; for a rebuild the old slots of each
  association are mapped one to one to the new ones (`TargetsDistinct`, `RebuiltSlot`).

`LoopProofs` proves, for all keys, codes and bounds of the queue (`KeysAssumption`):

- `TypeCorrect`: `TypeOK`.
- `KeysNeverHang`: `NoHangingKey`, from `Inductive`. `NoHangingKey` looks at the codes
  that are down; a press that is still queued will be dispatched after the release or
  the loss of focus it does not know of, so the invariant says the same of every press
  in the queue: the key is held with the focus, or a clearing message comes later, or it is
  `unreported` (`NoHangingPress`). Codes are `unreported` only while the window has the
  focus (`HiddenWithFocus`), so losing it, which clears them, takes no key by surprise. The messages that `DestroyWindow` takes away are why
  `QuitLeavesNothing` is needed.
- `EdgesAreChanges`: `EdgesBetweenFrames`, the action property of the two arrays of key
  states, from the invariant `LastFrameKept`: outside the end of a frame the older array
  is what the last frame saw, whatever was dispatched since.

`AssetManagerProofs` proves all five properties of the managers, for every set of assets
and names, hash function, capacity and limit. `FirstOfItsName` is not inductive: a second
asset of a name must not get into the table, and that is up to the slots before the name.
`Claimed` says that the probe path of every listed name has no free slot left before the
name itself, so an insertion under that name finds it or gives up at the limit; `Entries`
says that what a slot holds is the first index of its name. As managers never erase,
neither is lost. `AllAnswered` says that a name the table refused was reported, as long as
the program runs. `StableIndices` rests on `size <= capacity` and on the list's growing only
when it is full: the copy by capacity then takes all there is, and the new element is
written behind it.

`RendererLifecycleProofs` proves the four properties of the lifecycle, for every choice of
failures. The invariant has three parts beyond the types: `Built` says what each step of
`Init` relies on, by its place in the order; `Cleaned` says what is gone when `CleanUp` has
come to a manager; `Undeleted` says that nothing is deleted before its turn but the
materials after a failed upload (`CoreInv`). `Shaded` follows the two shaders: the
default one is instantiated from where the other managers are until its own release, and
the skinned one is too unless a debugger went on. The shaders that `InitShaderManager` releases when it
fails are not released again, because the clean-up then stops in the assertion of `Get()`.

`SHasherProofs` proves that the pool implements `Interner`, for every set of words, hash
and size. The invariant relates chains and ids both ways: no chain holds a word twice, the
id of every word in `fresh` reads back that word, and every node was asked for by a word
in `fresh` that still holds its id. The last makes an appended node's id new among those of
the pool, whatever older ids are held besides.

`LoopProofs` also proves `ReadsInside` and `FPSCountsFrames`, for all animations, rates and
ticks. `StopwatchInv` ties the stop watch and the counter to the time and the frame of the last
count; that the index stays inside is arithmetic of products and remainders, stated as
lemmas.

`PooledLinkedListProofs` proves all four properties of the linked list, the refinement of
`ItemSequence` included, for every capacity and set of items. That the chains mirror each
other is not inductive, as nodes linked in a ring would do so too. The invariant says that
there is a course through the nodes in use, each once, from `head` to `tail`, which both
chains follow. Linking a node makes the course longer at one place and unlinking makes it
shorter (`CourseLonger`, `CourseShorter`); what following `_next` meets is the course
(`WalkIsCourse`, by taking the first place where they differ: `Least` is the induction);
and the items along the longer and the shorter course are `InsertAt` and `RemoveAt` of the
items along the old one.

`MaterialDrawingProofs` proves all four properties of shaders, materials and draws, for
all meshes, materials and orders of the reflection, and any number of frames and edits.
The invariant says which objects a shader has at each stage, after each failure
(`Objects`), what a material has once it is instantiated (`Equipped`), and what the last
draw has bound and written (`Drawing`). Its part `Bindings` is about what the earlier draws
have left: a buffer of a material is only found in the slots where the order of its
shader's reflection puts it, so none of them makes up for a wrong order by accident, which
is the harder direction of `DrawReadsItsOwn`.

`ImportProofs` proves all six properties of `SceneImport`, for every scene
and room (`ScenesAssumption`, `RoomAssumption`), and all three of `MeshGeometry`, for every mesh, number of slots,
threshold and bound on materials (`MeshesAssumption`, `SizesAssumption`).

For the scene, the argument is about the numbering. A list that a recursion is filling
holds nodes in ascending order, parents before children (`Hierarchy`), and the calls still
to be made are in ascending order too: the children left over on the path from the last
node up to the root, each with the element it is to hang on (`Awaits`). A call that is
made takes the least node that is neither in the list nor skipped with a skeleton, and
leaves `Awaits` true with the children of that node in front; when no call is left, every
node was taken. `Awaits` is used twice, by the list of bones, which skips nothing, and by
the list of assets, which skips what is below skeleton nodes. That the list of bones never
runs out is that its nodes are among those below the root, each once. `StopsExplained` is
part of the invariant `IInv` itself: where a step stops, the scene is shown not to be
`Importable`, and at the end the lists are complete and no step had a reason to stop, so
the scene is shown to be (`NoReasonLeft`). For the room this counts: the models are the
meshes met so far, each once, in ascending order, so they are never more than all of them,
and at the end just as many (`MeshesCounted`). That a
set of numbers has one ascending sequence and that a first difference exists are lemmas
that rest on the least element of a set (`LeastExists`, from the library's theorem that `<`
is well founded on the naturals), which is how induction is done here throughout.

For a mesh the invariant `MeshInv` has a part for each loop. `ListsInv` and `CornersInv`
say that the lists of the control points divide the vertices and that the corners read so
far have similar vertices. `SkinInv` says what the clusters before the next one have left
in the slots: cluster `n` fills the slot `Rank(n, c)` of control point `c`, which is the
number of heavy clusters before it, so the weight in slot `s` is the total of the clusters
of rank `s` (`Fill`). That the weights in use add up to those of the file is then the sum
of these sums (`TotalOfTotals`). `CountersInv` and `IndexInv` say how far each range is
filled and that the fans written stand where they belong; the fans start behind those of
`Before(i)`, the polygons of lower materials and the earlier ones of the same material, a
set that grows with the order of the fans, so no two overlap (`FansApart`) and the last
ends at the end of the buffer. The lemmas on `Total` (of a union, a subset, one more
element) rest on the library's facts about cardinality.

Only model-checked: `ReleaseArrives`, the liveness property, as no prover here does
fairness. `InstanceExists` is violated. That every action can happen is for the runs to
show, too.

## Plan

1. (done) Name table, asset managers, lifecycle, input, linked list, scene import;
   proofs of the table and of the input.
2. (done) Meshes, materials and draws, interning, clock and playback, with proofs of all
   but the meshes; proofs of the managers, the lifecycle and the linked list.
3. (done) The imports of scenes and of meshes without recursive operators, and proofs of
   all their properties; the refinement of the bag; the edges of the keys.
4. (done) Steps whose failure nobody looks at, releases that Alt hides, the storage of the
   lists, ids that outlive the pool, all that the import stops for; their proofs.
5. Left: the pointer's position in `InputLoop`; the insertions of the linked list into a
   full pool; stages of textures; the sampler pool.

## Not modelled

- Floating-point mathematics: camera, matrices, transforms, and the tangents computed when
  a file has none, with their division by a determinant that may be zero. TLC has no reals.
- Textures and samplers: each is a file and a few calls to Direct3D, with no state that
  steps could leave inconsistent beyond what `RendererLifecycle` follows per manager. The
  sampler pool is a table indexed by mode, filled at the first request.
- The pointer's position and its change between frames, which `SSInput` stores and nothing
  but the camera reads.
- The bare `PooledList` and `FixedList` beyond what the managers do with them.
- Strings: names are model values, so lengths and formatting (ten characters for a 64-bit
  id, for one) are outside.
- Memory: what a failing rebuild leaks, allocation that fails, the storage undefined
  behaviour runs into.
- Direct3D, the FBX SDK and ImGui, modelled by how the code uses them; the vendored and
  the generated sources. They are why `PROJECT.json` maps about one percent of the lines
  of the repository: `ExternalUtils/` and `Serializable/` are some 199000 of its 207000
  lines. Of the remaining 8300, which are the program, the map covers about 2700; most of
  the rest is mathematics, declarations, editor layout and calls to Direct3D.
