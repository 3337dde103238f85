------------------------ MODULE MaterialDrawingProofs ------------------------
(***************************************************************************)
(* Shaders, materials and draws, for all meshes, materials and orders of   *)
(* the reflection: what a draw reads, which meshes are posed, and that the *)
(* release is complete.                                                    *)
(*                                                                         *)
(* What is bound to the context is what any of the draws before has left   *)
(* there.  That a draw does not find the right buffer in the right slot by *)
(* accident, when the reflection is not orderly, is the part of the        *)
(* invariant called Bindings: a buffer of a material is only ever found in *)
(* the slots into which the order of its shader puts it.                   *)
(***************************************************************************)
EXTENDS MaterialDrawing, FiniteSetTheorems, TLAPS

Before == {"Compile", "Instantiate", "Materials", "Import", "Upload"}

Steps == {"none", "VS", "PS", "Reflect", "Describe", "Layout"}

Inputs ==
  /\ kind \in [Meshes -> {"Rigid", "Skinned"}]
  /\ material \in [Meshes -> Materials]
  /\ \A s \in Shaders : Lists(vsOrder[s], VSSlots(s))
  /\ Lists(psOrder, PSSlots)

Written == {Nothing} \cup Meshes \cup Nat

\* The objects that exist, by the stage and the step that failed.
Expected(st, f) ==
  CASE st = "Instantiated" -> {"VS", "PS", "Layout"}
    [] st = "Compiled" -> {"VSBlob", "PSBlob"} \cup IF f = "Layout" THEN {"VS", "PS"} ELSE {}
    [] st = "JustCreated" -> IF f = "Describe" THEN {"VSBlob", "PSBlob"} ELSE {}

Objects ==
  /\ failed \in [Shaders -> Steps]
  /\ \A s \in Shaders :
       /\ failed[s] = "Describe" => stage[s] = "JustCreated"
       /\ failed[s] = "Layout" => stage[s] = "Compiled"
       /\ stage[s] = "Instantiated" => failed[s] = "none"
       /\ phase # "Released" => objects[s] = Expected(stage[s], failed[s])
       /\ phase = "Released" => (objects[s] # {} <=> failed[s] \in {"Describe", "Layout"})

Equipped ==
  /\ phase \in {"Import", "Upload", "Frames"} => stage[Rigid] = "Instantiated"
  /\ phase \in {"Upload", "Frames"} =>
       \A m \in Materials : shader[m] \in Shaders /\ (shader[m] = Skinned => m \in Reshaded)
  /\ phase \in Before \cup {"Released"} => \A m \in Materials : buffers[m] = {}
  /\ phase = "Frames" =>
       \A m \in Materials :
         /\ buffers[m] = EntireSlots(shader[m])
         /\ vsBuffers[m] = Ascending(VSSlots(shader[m]))
         /\ psBuffers[m] = Ascending(PSSlots)
         /\ content[m][2] = params[m]

\* Buffer j of a material lies in slot k only if q puts it there: the first two of q
\* receive a and b.
PutBy(q, a, b, k, j) == (q[1] = k /\ j = a) \/ (q[2] = k /\ j = b)

Bindings ==
  /\ phase \in Before => vsBound = Empty /\ psBound = Empty
  /\ phase = "Frames" =>
       \A m \in Materials : \A k, j \in Slots :
         /\ vsBound[k] = <<m, j>> => PutBy(vsOrder[shader[m]], 0, 1, k, j)
         /\ psBound[k] = <<m, j>> => PutBy(psOrder, 1, 2, k, j)

\* What the draw of d leaves.
Drawn(d) ==
  LET m == material[d]
      q == vsOrder[shader[m]]
  IN  /\ vsBound[q[1]] = <<m, 0>> /\ vsBound[q[2]] = <<m, 1>>
      /\ psBound[psOrder[1]] = <<m, 1>> /\ psBound[psOrder[2]] = <<m, 2>>
      /\ content[m][0] = d /\ content[m][1] = frame
      /\ kind[d] = "Skinned" => joints = frame

Drawing ==
  /\ frame \in 0 .. MaxFrames
  /\ drawn # Nothing => phase = "Frames" /\ drawn \in Meshes /\ Drawn(drawn)

IInv ==
  /\ TypeOK
  /\ Inputs
  /\ content \in [Materials -> [Slots -> Written]]
  /\ Objects
  /\ Equipped
  /\ Bindings
  /\ Drawing

-----------------------------------------------------------------------------
\* The slots of the two shaders, and how many they are.
LEMMA SlotSets ==
  /\ VSSlots(Rigid) = {0, 1} /\ VSSlots(Skinned) = {0, 1, 3, 4}
  /\ EntireSlots(Rigid) = 0 .. 2 /\ EntireSlots(Skinned) = 0 .. 4
  /\ PSSlots = {1, 2} /\ Slots = 0 .. 4 /\ Rigid # Skinned
<1>1. VSSlots(Rigid) = {0, 1} /\ VSSlots(Skinned) = {0, 1, 3, 4} /\ Rigid # Skinned
  BY DEF VSSlots, VSConstants, Structured, Rigid, Skinned
<1>2. EntireSlots(Rigid) = 0 .. 2 /\ EntireSlots(Skinned) = 0 .. 4
  BY <1>1 DEF EntireSlots, PSSlots
<1> QED
  BY <1>1, <1>2 DEF PSSlots, Slots

\* How many slots each stage of each shader has.
LEMMA SlotNumbers ==
  /\ Cardinality(VSSlots(Rigid)) = 2 /\ Cardinality(VSSlots(Skinned)) = 4
  /\ EntireConstBufferNum(Rigid) = 3 /\ EntireConstBufferNum(Skinned) = 5
  /\ Cardinality(PSSlots) = 2
<1>1. Cardinality(0 .. 1) = 2 /\ IsFiniteSet(0 .. 1) /\ Cardinality(1 .. 2) = 2
      /\ Cardinality(0 .. 2) = 3 /\ Cardinality(0 .. 4) = 5
  <2>0. 0 \in Int /\ 1 \in Int /\ 2 \in Int /\ 4 \in Int
    OBVIOUS
  <2>1. IsFiniteSet(0 .. 1) /\ Cardinality(0 .. 1) = IF 0 > 1 THEN 0 ELSE 1 - 0 + 1
    BY <2>0, FS_Interval, Zenon
  <2>2. Cardinality(1 .. 2) = IF 1 > 2 THEN 0 ELSE 2 - 1 + 1
    BY <2>0, FS_Interval, Zenon
  <2>3. Cardinality(0 .. 2) = IF 0 > 2 THEN 0 ELSE 2 - 0 + 1
    BY <2>0, FS_Interval, Zenon
  <2>4. Cardinality(0 .. 4) = IF 0 > 4 THEN 0 ELSE 4 - 0 + 1
    BY <2>0, FS_Interval, Zenon
  <2> QED
    BY <2>1, <2>2, <2>3, <2>4
<1>2. 0 .. 1 = {0, 1} /\ 1 .. 2 = {1, 2}
  OBVIOUS
<1>3. Cardinality({0, 1} \cup {3}) = 3 /\ IsFiniteSet({0, 1} \cup {3})
  BY <1>1, <1>2, FS_AddElement
<1>4. Cardinality(({0, 1} \cup {3}) \cup {4}) = 4
  BY <1>3, FS_AddElement
<1>5. ({0, 1} \cup {3}) \cup {4} = {0, 1, 3, 4}
  OBVIOUS
<1> QED
  BY <1>1, <1>2, <1>4, <1>5, SlotSets DEF EntireConstBufferNum

\* The two lists of a material, by ascending slot.
LEMMA AscendingPair ==
  ASSUME NEW a \in Nat, NEW b \in Nat, a < b, Cardinality({a, b}) = 2
  PROVE  /\ Ascending({a, b}) \in [1 .. 2 -> {a, b}]
         /\ Ascending({a, b})[1] = a /\ Ascending({a, b})[2] = b
<1> DEFINE Q == {q \in [1 .. 2 -> {a, b}] : \A i, j \in DOMAIN q : i < j => q[i] < q[j]}
           w == [i \in 1 .. 2 |-> IF i = 1 THEN a ELSE b]
<1>1. w \in Q
  OBVIOUS
<1>2. Ascending({a, b}) = CHOOSE q \in [1 .. 2 -> {a, b}] :
                            \A i, j \in DOMAIN q : i < j => q[i] < q[j]
  BY DEF Ascending
<1>3. Ascending({a, b}) \in Q
  BY <1>1, <1>2
<1>4. ASSUME NEW q \in Q PROVE q[1] = a /\ q[2] = b
  <2>1. q[1] < q[2] /\ q[1] \in {a, b} /\ q[2] \in {a, b}
    OBVIOUS
  <2> QED
    BY <2>1
<1> QED
  BY <1>3, <1>4

\* The four slots of the skinned vertex shader, in order.
LEMMA AscendingFour ==
  /\ Ascending({0, 1, 3, 4}) \in [1 .. 4 -> {0, 1, 3, 4}]
  /\ Ascending({0, 1, 3, 4})[1] = 0 /\ Ascending({0, 1, 3, 4})[2] = 1
<1> DEFINE S == {0, 1, 3, 4}
           Q == {q \in [1 .. 4 -> S] : \A i, j \in DOMAIN q : i < j => q[i] < q[j]}
           w == [i \in 1 .. 4 |-> IF i <= 2 THEN i - 1 ELSE i]
<1>1. w \in Q
  <2>1. \A i \in 1 .. 4 : w[i] \in S
    OBVIOUS
  <2> QED
    BY <2>1
<1>2. Cardinality(S) = 4
  BY SlotSets, SlotNumbers
<1>3. Ascending(S) = CHOOSE q \in [1 .. 4 -> S] :
                       \A i, j \in DOMAIN q : i < j => q[i] < q[j]
  BY <1>2 DEF Ascending
<1>4. Ascending(S) \in Q
  BY <1>1, <1>3
<1>5. ASSUME NEW q \in Q PROVE q[1] = 0 /\ q[2] = 1
  <2>1. q[1] < q[2] /\ q[2] < q[3] /\ q[3] < q[4]
    OBVIOUS
  <2>2. q[1] \in S /\ q[2] \in S /\ q[3] \in S /\ q[4] \in S
    OBVIOUS
  <2> QED
    BY <2>1, <2>2
<1> QED
  BY <1>4, <1>5

-----------------------------------------------------------------------------
\* What is used of a shader's numbers and lists.
LEMMA ShaderFacts ==
  ASSUME NEW s \in Shaders
  PROVE  /\ EntireSlots(s) = 0 .. EntireConstBufferNum(s) - 1
         /\ EntireSlots(s) \subseteq Slots
         /\ EntireConstBufferNum(s) \in {3, 5}
         /\ Ascending(VSSlots(s))[1] = 0 /\ Ascending(VSSlots(s))[2] = 1
         /\ VSSlots(s) \subseteq Slots
<1>1. Cardinality({0, 1}) = 2
  BY SlotSets, SlotNumbers
<1>2. Ascending({0, 1})[1] = 0 /\ Ascending({0, 1})[2] = 1
  BY <1>1, AscendingPair
<1>3. CASE s = Rigid
  BY <1>2, <1>3, SlotSets, SlotNumbers
<1>4. CASE s = Skinned
  BY <1>4, AscendingFour, SlotSets, SlotNumbers
<1> QED
  BY <1>3, <1>4 DEF Shaders

\* The two slots of the pixel shader, in order.
LEMMA PSFacts == Ascending(PSSlots)[1] = 1 /\ Ascending(PSSlots)[2] = 2
<1>1. Cardinality({1, 2}) = 2 /\ PSSlots = {1, 2}
  BY SlotSets, SlotNumbers
<1> QED
  BY <1>1, AscendingPair

\* The first two slots of each order, and how many of it are bound.
LEMMA OrderFacts ==
  ASSUME Inputs, NEW s \in Shaders
  PROVE  /\ vsOrder[s][1] \in Slots /\ vsOrder[s][2] \in Slots
         /\ vsOrder[s][1] # vsOrder[s][2]
         /\ BoundCount(s) = 2
<1> DEFINE q == vsOrder[s]
           n == Cardinality(VSSlots(s))
<1>1. q \in [1 .. n -> VSSlots(s)] /\ \A i, j \in 1 .. n : q[i] = q[j] => i = j
  BY DEF Inputs, Lists, IsInjective
<1>2. n = IF s = Skinned THEN 4 ELSE 2
  BY SlotNumbers, SlotSets DEF Shaders
<1>3. 1 \in 1 .. n /\ 2 \in 1 .. n /\ n \in Nat
  BY <1>2
<1>4. VSSlots(s) \subseteq Slots
  BY ShaderFacts
<1> HIDE DEF n
<1>5. Len(q) = n
  BY <1>1, <1>3
<1>6. BoundCount(s) = 2
  BY <1>2, <1>5 DEF BoundCount
<1> QED
  BY <1>1, <1>3, <1>4, <1>6

\* The same of the pixel shader's order.
LEMMA PSOrderFacts ==
  ASSUME Inputs
  PROVE  /\ psOrder \in [1 .. 2 -> PSSlots] /\ Len(psOrder) = 2
         /\ psOrder[1] \in Slots /\ psOrder[2] \in Slots /\ psOrder[1] # psOrder[2]
<1>1. psOrder \in [1 .. 2 -> PSSlots] /\ \A i, j \in 1 .. 2 : psOrder[i] = psOrder[j] => i = j
  BY SlotNumbers DEF Inputs, Lists, IsInjective
<1>2. psOrder[1] \in PSSlots /\ psOrder[2] \in PSSlots /\ psOrder[1] # psOrder[2]
  BY <1>1
<1>3. Len(psOrder) = 2
  BY <1>1
<1> QED
  BY <1>1, <1>2, <1>3, SlotSets

\* What binding two buffers does to the slots.
LEMMA BindTwo ==
  ASSUME NEW bound \in [Slots -> {Nothing} \cup (Materials \X Slots)], NEW m \in Materials,
         NEW q, q[1] \in Slots, q[2] \in Slots, q[1] # q[2],
         NEW own, own[1] \in Slots, own[2] \in Slots
  PROVE  /\ Bind(bound, m, q, own, 2) \in [Slots -> {Nothing} \cup (Materials \X Slots)]
         /\ Bind(bound, m, q, own, 2)[q[1]] = <<m, own[1]>>
         /\ Bind(bound, m, q, own, 2)[q[2]] = <<m, own[2]>>
         /\ \A k \in Slots : k # q[1] /\ k # q[2] =>
              Bind(bound, m, q, own, 2)[k] = bound[k]
<1> DEFINE b == Bind(bound, m, q, own, 2)
           first(k) == CHOOSE i \in 1 .. 2 : q[i] = k
<1>1. \A i \in 1 .. 2 : i = 1 \/ i = 2
  OBVIOUS
<1>2. 1 \in 1 .. 2 /\ 2 \in 1 .. 2
  OBVIOUS
<1>3. first(q[1]) = 1 /\ first(q[2]) = 2
  BY <1>1, <1>2
<1>4. b = [k \in Slots |-> IF \E i \in 1 .. 2 : q[i] = k THEN <<m, own[first(k)]>> ELSE bound[k]]
  BY DEF Bind
<1> HIDE DEF b, first
<1>5. b[q[1]] = <<m, own[1]>> /\ b[q[2]] = <<m, own[2]>>
  BY <1>2, <1>3, <1>4
<1>6. \A k \in Slots : k # q[1] /\ k # q[2] => b[k] = bound[k]
  BY <1>1, <1>4
<1>7. \A k \in Slots : b[k] \in {Nothing} \cup (Materials \X Slots)
  BY <1>5, <1>6
<1>8. b \in [Slots -> {Nothing} \cup (Materials \X Slots)]
  BY <1>4, <1>7
<1> QED
  BY <1>5, <1>6, <1>8 DEF b

\* BindMaterial puts the first two buffers of each stage's list where the order says,
\* and leaves every other slot to what lies there.
LEMMA BindMaterialBinds ==
  ASSUME IInv, phase = "Frames", NEW m \in Materials, BindMaterial(m)
  PROVE  /\ vsBound' \in [Slots -> {Nothing} \cup (Materials \X Slots)]
         /\ psBound' \in [Slots -> {Nothing} \cup (Materials \X Slots)]
         /\ vsBound'[vsOrder[shader[m]][1]] = <<m, 0>>
         /\ vsBound'[vsOrder[shader[m]][2]] = <<m, 1>>
         /\ psBound'[psOrder[1]] = <<m, 1>> /\ psBound'[psOrder[2]] = <<m, 2>>
         /\ \A n \in Materials : \A k, j \in Slots :
              /\ vsBound'[k] = <<n, j>> => PutBy(vsOrder[shader[n]], 0, 1, k, j)
              /\ psBound'[k] = <<n, j>> => PutBy(psOrder, 1, 2, k, j)
<1> DEFINE q == vsOrder[shader[m]]
           own == vsBuffers[m]
<1>1. /\ shader[m] \in Shaders
      /\ vsBuffers[m] = Ascending(VSSlots(shader[m])) /\ psBuffers[m] = Ascending(PSSlots)
  BY DEF IInv, Equipped
<1>2. /\ q[1] \in Slots /\ q[2] \in Slots /\ q[1] # q[2] /\ BoundCount(shader[m]) = 2
  BY <1>1, OrderFacts DEF IInv
<1>3. own[1] = 0 /\ own[2] = 1 /\ psBuffers[m][1] = 1 /\ psBuffers[m][2] = 2
  BY <1>1, ShaderFacts, PSFacts
<1>4. 0 \in Slots /\ 1 \in Slots /\ 2 \in Slots
  BY SlotSets
<1>5. /\ vsBound' = Bind(vsBound, m, q, own, 2)
      /\ psBound' = Bind(psBound, m, psOrder, psBuffers[m], 2)
  BY <1>2, PSOrderFacts DEF BindMaterial, IInv
<1>6. /\ vsBound \in [Slots -> {Nothing} \cup (Materials \X Slots)]
      /\ psBound \in [Slots -> {Nothing} \cup (Materials \X Slots)]
  BY DEF IInv, TypeOK
<1> HIDE DEF q, own
<1>7. /\ vsBound' \in [Slots -> {Nothing} \cup (Materials \X Slots)]
      /\ vsBound'[q[1]] = <<m, own[1]>> /\ vsBound'[q[2]] = <<m, own[2]>>
      /\ \A k \in Slots : k # q[1] /\ k # q[2] => vsBound'[k] = vsBound[k]
  BY <1>2, <1>3, <1>4, <1>5, <1>6, BindTwo
<1>8. /\ psBound' \in [Slots -> {Nothing} \cup (Materials \X Slots)]
      /\ psBound'[psOrder[1]] = <<m, psBuffers[m][1]>>
      /\ psBound'[psOrder[2]] = <<m, psBuffers[m][2]>>
      /\ \A k \in Slots : k # psOrder[1] /\ k # psOrder[2] => psBound'[k] = psBound[k]
  <2>1. psOrder[1] \in Slots /\ psOrder[2] \in Slots /\ psOrder[1] # psOrder[2]
    BY PSOrderFacts DEF IInv
  <2> QED
    BY <1>3, <1>4, <1>5, <1>6, <2>1, BindTwo
<1>9. ASSUME NEW n \in Materials, NEW k \in Slots, NEW j \in Slots
      PROVE  /\ vsBound'[k] = <<n, j>> => PutBy(vsOrder[shader[n]], 0, 1, k, j)
             /\ psBound'[k] = <<n, j>> => PutBy(psOrder, 1, 2, k, j)
  <2>1. /\ vsBound[k] = <<n, j>> => PutBy(vsOrder[shader[n]], 0, 1, k, j)
        /\ psBound[k] = <<n, j>> => PutBy(psOrder, 1, 2, k, j)
    BY DEF IInv, Bindings
  <2>2. vsBound'[k] = <<n, j>> => PutBy(vsOrder[shader[n]], 0, 1, k, j)
    <3>1. CASE k = q[1]
      BY <1>3, <1>7, <3>1 DEF PutBy, q
    <3>2. CASE k = q[2]
      BY <1>3, <1>7, <3>2 DEF PutBy, q
    <3>3. CASE k # q[1] /\ k # q[2]
      BY <1>7, <2>1, <3>3
    <3> QED
      BY <3>1, <3>2, <3>3
  <2>3. psBound'[k] = <<n, j>> => PutBy(psOrder, 1, 2, k, j)
    <3>1. CASE k = psOrder[1]
      BY <1>3, <1>8, <3>1 DEF PutBy
    <3>2. CASE k = psOrder[2]
      BY <1>3, <1>8, <3>2 DEF PutBy
    <3>3. CASE k # psOrder[1] /\ k # psOrder[2]
      BY <1>8, <2>1, <3>3
    <3> QED
      BY <3>1, <3>2, <3>3
  <2> QED
    BY <2>2, <2>3
<1> QED
  BY <1>3, <1>7, <1>8, <1>9 DEF q

\* What of an object may be written to a slot.
Fitting(k) ==
  {Nothing} \cup CASE k = 0 -> Meshes
                   [] k = 1 -> 1 .. MaxFrames
                   [] k = 2 -> 0 .. MaxEdits
                   [] OTHER -> {}

\* The values that are written to the buffer of each slot.
LEMMA FittingFacts ==
  /\ Fitting(0) = {Nothing} \cup Meshes /\ Fitting(1) = {Nothing} \cup (1 .. MaxFrames)
  /\ Fitting(2) = {Nothing} \cup (0 .. MaxEdits)
  /\ \A k \in Slots : Fitting(k) \subseteq Written
<1>1. Fitting(0) = {Nothing} \cup Meshes
  BY DEF Fitting
<1>2. Fitting(1) = {Nothing} \cup (1 .. MaxFrames)
  BY DEF Fitting
<1>3. Fitting(2) = {Nothing} \cup (0 .. MaxEdits)
  BY DEF Fitting
<1>4. ASSUME NEW k \in Slots PROVE Fitting(k) \subseteq Written
  <2>1. k = 0 \/ k = 1 \/ k = 2 \/ (k # 0 /\ k # 1 /\ k # 2)
    OBVIOUS
  <2>2. k # 0 /\ k # 1 /\ k # 2 => Fitting(k) = {Nothing}
    BY DEF Fitting
  <2>3. 1 .. MaxFrames \subseteq Nat /\ 0 .. MaxEdits \subseteq Nat
    BY MaterialsAssumption
  <2> QED
    BY <1>1, <1>2, <1>3, <2>1, <2>2, <2>3 DEF Written
<1> QED
  BY <1>1, <1>2, <1>3, <1>4

\* The type invariant without what is bound and written.
TypesOfObjects ==
  /\ stage \in [Shaders -> {"JustCreated", "Compiled", "Instantiated"}]
  /\ objects \in [Shaders -> SUBSET {"VSBlob", "PSBlob", "VS", "PS", "Layout"}]
  /\ shader \in [Materials -> Shaders \cup {Nothing}]
  /\ buffers \in [Materials -> SUBSET Slots]
  /\ params \in [Materials -> 0 .. MaxEdits]

\* The type invariant, with those parts apart that the objects do not share.
LEMMA TypeParts ==
  TypeOK <=>
    /\ TypesOfObjects
    /\ \A m \in Materials : \A k \in Slots : content[m][k] \in Fitting(k)
    /\ vsBound \in [Slots -> {Nothing} \cup (Materials \X Slots)]
    /\ psBound \in [Slots -> {Nothing} \cup (Materials \X Slots)]
    /\ joints \in {Nothing} \cup 1 .. frame
    /\ phase = "Frames" => stage[Rigid] = "Instantiated"
BY DEF TypeOK, TypesOfObjects, Fitting

-----------------------------------------------------------------------------
\* The invariant holds when nothing is compiled yet.
LEMMA Initially == Init => IInv
<1> SUFFICES ASSUME Init PROVE IInv
  OBVIOUS
<1>1. phase = "Compile" /\ drawn = Nothing /\ frame = 0 /\ joints = Nothing
      /\ vsBound = Empty /\ psBound = Empty /\ content = [m \in Materials |-> Empty]
  BY DEF Init
<1>2. Empty \in [Slots -> {Nothing}]
  BY DEF Empty
<1>3. TypesOfObjects
  BY MaterialsAssumption DEF Init, TypesOfObjects
<1>4. \A m \in Materials : \A k \in Slots : content[m][k] \in Fitting(k)
  BY <1>1, <1>2 DEF Fitting
<1>5. /\ vsBound \in [Slots -> {Nothing} \cup (Materials \X Slots)]
      /\ psBound \in [Slots -> {Nothing} \cup (Materials \X Slots)]
  BY <1>1, <1>2
<1>6. TypeOK
  BY <1>1, <1>3, <1>4, <1>5, TypeParts
<1>7. Inputs
  <2>1. /\ kind \in [Meshes -> {"Rigid", "Skinned"}] /\ material \in [Meshes -> Materials]
        /\ \A s \in Shaders : vsOrder[s] \in VSOrders[s]
        /\ psOrder \in PSOrders
    BY DEF Init
  <2> QED
    BY <2>1, MaterialsAssumption DEF Inputs
<1>8. content \in [Materials -> [Slots -> Written]]
  BY <1>1, <1>2 DEF Written
<1>9. Objects
  <2>1. /\ stage = [s \in Shaders |-> "JustCreated"] /\ objects = [s \in Shaders |-> {}]
        /\ failed = [s \in Shaders |-> "none"]
    BY DEF Init
  <2> QED
    BY <1>1, <2>1 DEF Objects, Steps, Expected
<1>10. Equipped
  BY <1>1 DEF Equipped, Init
<1>11. Bindings
  BY <1>1 DEF Bindings
<1>12. Drawing
  BY <1>1, MaterialsAssumption DEF Drawing
<1> QED
  BY <1>6, <1>7, <1>8, <1>9, <1>10, <1>11, <1>12 DEF IInv

-----------------------------------------------------------------------------
\* What all steps of the shaders have in common.
LEMMA ShaderSteps ==
  ASSUME IInv, phase \in {"Compile", "Instantiate"},
         phase' \in {"Compile", "Instantiate", "Materials", "Stopped", "Released"},
         stage' \in [Shaders -> {"JustCreated", "Compiled", "Instantiated"}],
         objects' \in [Shaders -> SUBSET {"VSBlob", "PSBlob", "VS", "PS", "Layout"}],
         Objects',
         UNCHANGED <<inputs, shader, buffer, params, content, context, frame, drawn>>
  PROVE  IInv'
<1>1. /\ kind' = kind /\ material' = material /\ vsOrder' = vsOrder /\ psOrder' = psOrder
      /\ shader' = shader /\ buffers' = buffers /\ params' = params /\ content' = content
      /\ vsBound' = vsBound /\ psBound' = psBound /\ joints' = joints
      /\ frame' = frame /\ drawn' = drawn
  BY DEF inputs, buffer, context
<1>2. TypeOK'
  BY <1>1 DEF IInv, TypeOK
<1>3. Inputs'
  BY <1>1 DEF IInv, Inputs
<1>4. Equipped'
  BY <1>1 DEF IInv, Equipped, Before
<1>5. Bindings'
  BY <1>1 DEF IInv, Bindings, Before
<1>6. drawn = Nothing
  BY DEF IInv, Drawing
<1>7. Drawing'
  BY <1>1, <1>6 DEF IInv, Drawing
<1> QED
  BY <1>1, <1>2, <1>3, <1>4, <1>5, <1>7 DEF IInv

\* The types of the shaders' variables alone.
LEMMA TypesOfShaders ==
  ASSUME IInv
  PROVE  /\ stage \in [Shaders -> {"JustCreated", "Compiled", "Instantiated"}]
         /\ objects \in [Shaders -> SUBSET {"VSBlob", "PSBlob", "VS", "PS", "Layout"}]
         /\ failed \in [Shaders -> Steps]
BY DEF IInv, TypeOK, Objects

\* CompileShader keeps the invariant.
LEMMA Compiles ==
  ASSUME IInv, NEW s \in Shaders, CompileShader(s)
  PROVE  IInv'
<1>1. /\ phase = "Compile" /\ stage[s] = "JustCreated" /\ failed' = failed
      /\ stage' = [stage EXCEPT ![s] = "Compiled"]
      /\ objects' = [objects EXCEPT ![s] = {"VSBlob", "PSBlob"}]
      /\ phase' \in {"Compile", "Instantiate"}
      /\ UNCHANGED <<inputs, shader, buffer, params, content, context, frame, drawn>>
  BY DEF CompileShader, Turn
<1>2. failed = [t \in Shaders |-> "none"]
  BY DEF CompileShader, Turn
<1>3. Objects'
  <2>1. ASSUME NEW t \in Shaders
        PROVE  objects'[t] = Expected(stage'[t], failed'[t])
    <3>1. CASE t = s
      BY <1>1, <1>2, <3>1, TypesOfShaders DEF Expected
    <3>2. CASE t # s
      BY <1>1, <3>2, TypesOfShaders DEF IInv, Objects
    <3> QED
      BY <3>1, <3>2
  <2> QED
    BY <1>1, <1>2, <2>1 DEF Objects, Steps
<1> QED
  BY <1>1, <1>3, TypesOfShaders, ShaderSteps

\* InstantiateShader keeps the invariant.
LEMMA Instantiates ==
  ASSUME IInv, NEW s \in Shaders, InstantiateShader(s)
  PROVE  IInv'
<1>1. /\ phase = "Instantiate" /\ stage[s] = "Compiled" /\ failed' = failed
      /\ stage' = [stage EXCEPT ![s] = "Instantiated"]
      /\ objects' = [objects EXCEPT ![s] = {"VS", "PS", "Layout"}]
      /\ phase' \in {"Instantiate", "Materials"}
      /\ UNCHANGED <<inputs, shader, buffer, params, content, context, frame, drawn>>
  BY DEF InstantiateShader, Turn
<1>2. failed = [t \in Shaders |-> "none"]
  BY DEF InstantiateShader, Turn
<1>3. Objects'
  <2>1. ASSUME NEW t \in Shaders
        PROVE  objects'[t] = Expected(stage'[t], failed'[t])
    <3>1. CASE t = s
      BY <1>1, <1>2, <3>1, TypesOfShaders DEF Expected
    <3>2. CASE t # s
      BY <1>1, <3>2, TypesOfShaders DEF IInv, Objects
    <3> QED
      BY <3>1, <3>2
  <2> QED
    BY <1>1, <1>2, <2>1 DEF Objects, Steps
<1> QED
  BY <1>1, <1>3, TypesOfShaders, ShaderSteps

\* What Release leaves of a shader.
LEMMA Released ==
  ASSUME IInv, phase # "Released", NEW s \in Shaders
  PROVE  /\ Unreleased(s) # {} <=> failed[s] \in {"Describe", "Layout"}
         /\ Unreleased(s) \subseteq objects[s]
<1>1. /\ objects[s] = Expected(stage[s], failed[s])
      /\ stage[s] \in {"JustCreated", "Compiled", "Instantiated"}
      /\ failed[s] = "Describe" => stage[s] = "JustCreated"
      /\ failed[s] = "Layout" => stage[s] = "Compiled"
      /\ stage[s] = "Instantiated" => failed[s] = "none"
  BY TypesOfShaders DEF IInv, Objects
<1>2. CASE stage[s] = "JustCreated"
  <2>1. Unreleased(s) = objects[s]
    BY <1>2 DEF Unreleased
  <2>2. objects[s] = IF failed[s] = "Describe" THEN {"VSBlob", "PSBlob"} ELSE {}
    BY <1>1, <1>2 DEF Expected
  <2> QED
    BY <1>1, <1>2, <2>1, <2>2
<1>3. CASE stage[s] = "Compiled"
  <2>1. Unreleased(s) = objects[s] \ {"VSBlob", "PSBlob"}
    BY <1>3 DEF Unreleased
  <2>2. objects[s] = {"VSBlob", "PSBlob"}
                       \cup (IF failed[s] = "Layout" THEN {"VS", "PS"} ELSE {})
    BY <1>1, <1>3 DEF Expected
  <2> QED
    BY <1>1, <1>3, <2>1, <2>2
<1>4. CASE stage[s] = "Instantiated"
  <2>1. Unreleased(s) = objects[s] \ {"Layout", "VS", "PS", "VSBlob", "PSBlob"}
    BY <1>4 DEF Unreleased
  <2>2. objects[s] = {"VS", "PS", "Layout"}
    BY <1>1, <1>4 DEF Expected
  <2> QED
    BY <1>1, <1>4, <2>1, <2>2
<1> QED
  BY <1>1, <1>2, <1>3, <1>4

\* So does a compilation that fails, whichever step it is.
LEMMA CompileFails ==
  ASSUME IInv, NEW s \in Shaders, CompileShaderFails(s)
  PROVE  IInv'
<1>1. PICK step \in {"VS", "PS", "Reflect", "Describe"} :
        /\ failed' = [failed EXCEPT ![s] = step]
        /\ objects' = [t \in Shaders |->
                         IF t # s THEN IF phase' = "Released" THEN Unreleased(t) ELSE objects[t]
                         ELSE IF step = "Describe" THEN {"VSBlob", "PSBlob"} ELSE {}]
  BY DEF CompileShaderFails
<1>2. /\ phase = "Compile" /\ stage[s] = "JustCreated" /\ stage' = stage
      /\ failed = [t \in Shaders |-> "none"]
      /\ phase' \in {"Stopped", "Released"}
      /\ UNCHANGED <<inputs, shader, buffer, params, content, context, frame, drawn>>
  BY DEF CompileShaderFails, Turn
<1>3. ASSUME NEW t \in Shaders, t # s
      PROVE  /\ failed'[t] = "none"
             /\ phase' = "Released" => objects'[t] = {}
             /\ phase' # "Released" => objects'[t] = objects[t]
             /\ objects'[t] \subseteq objects[t]
  BY <1>1, <1>2, <1>3, Released
<1>4. /\ failed'[s] = step
      /\ objects'[s] = IF step = "Describe" THEN {"VSBlob", "PSBlob"} ELSE {}
  BY <1>1, <1>2
<1>5. objects' \in [Shaders -> SUBSET {"VSBlob", "PSBlob", "VS", "PS", "Layout"}]
  <2>1. \A t \in Shaders : objects'[t] \in SUBSET {"VSBlob", "PSBlob", "VS", "PS", "Layout"}
    BY <1>3, <1>4, TypesOfShaders
  <2>2. objects' = [t \in Shaders |-> objects'[t]]
    BY <1>1
  <2> QED
    BY <2>1, <2>2
<1>6. Objects'
  <2>1. failed' \in [Shaders -> Steps]
    BY <1>1, TypesOfShaders DEF Steps
  <2>2. ASSUME NEW t \in Shaders
        PROVE  /\ failed'[t] = "Describe" => stage'[t] = "JustCreated"
               /\ failed'[t] = "Layout" => stage'[t] = "Compiled"
               /\ stage'[t] = "Instantiated" => failed'[t] = "none"
               /\ phase' # "Released" => objects'[t] = Expected(stage'[t], failed'[t])
               /\ phase' = "Released" =>
                    (objects'[t] # {} <=> failed'[t] \in {"Describe", "Layout"})
    <3>1. CASE t = s
      BY <1>2, <1>4, <3>1 DEF Expected
    <3>2. CASE t # s
      <4>1. failed[t] = "none" /\ objects[t] = Expected(stage[t], failed[t])
        BY <1>2 DEF IInv, Objects
      <4> QED
        BY <1>2, <1>3, <3>2, <4>1
    <3> QED
      BY <3>1, <3>2
  <2> QED
    BY <2>1, <2>2 DEF Objects
<1> QED
  BY <1>2, <1>5, <1>6, TypesOfShaders, ShaderSteps

\* And an instantiation that fails.
LEMMA InstantiateFails ==
  ASSUME IInv, NEW s \in Shaders, InstantiateShaderFails(s)
  PROVE  IInv'
<1>1. PICK step \in {"VS", "PS", "Layout"} :
        /\ failed' = [failed EXCEPT ![s] = step]
        /\ objects' = [objects EXCEPT ![s] = @ \cup IF step = "Layout" THEN {"VS", "PS"} ELSE {}]
  BY DEF InstantiateShaderFails
<1>2. /\ phase = "Instantiate" /\ stage[s] = "Compiled" /\ stage' = stage
      /\ failed = [t \in Shaders |-> "none"]
      /\ phase' \in {"Stopped", "Materials"}
      /\ UNCHANGED <<inputs, shader, buffer, params, content, context, frame, drawn>>
  BY DEF InstantiateShaderFails, Turn
<1>3. \A t \in Shaders : failed[t] = "none" /\ objects[t] = Expected(stage[t], "none")
  BY <1>2 DEF IInv, Objects
<1>4. objects[s] = {"VSBlob", "PSBlob"}
  BY <1>2, <1>3 DEF Expected
<1>5. /\ failed'[s] = step
      /\ objects'[s] = {"VSBlob", "PSBlob"} \cup IF step = "Layout" THEN {"VS", "PS"} ELSE {}
      /\ \A t \in Shaders : t # s => failed'[t] = "none" /\ objects'[t] = objects[t]
  BY <1>1, <1>3, <1>4, TypesOfShaders
<1>6. objects' \in [Shaders -> SUBSET {"VSBlob", "PSBlob", "VS", "PS", "Layout"}]
  BY <1>1, <1>4, TypesOfShaders
<1>7. Objects'
  <2>1. failed' \in [Shaders -> Steps]
    BY <1>1, TypesOfShaders DEF Steps
  <2>2. ASSUME NEW t \in Shaders
        PROVE  /\ failed'[t] = "Describe" => stage'[t] = "JustCreated"
               /\ failed'[t] = "Layout" => stage'[t] = "Compiled"
               /\ stage'[t] = "Instantiated" => failed'[t] = "none"
               /\ objects'[t] = Expected(stage'[t], failed'[t])
    <3>1. CASE t = s
      BY <1>2, <1>5, <3>1 DEF Expected
    <3>2. CASE t # s
      BY <1>2, <1>3, <1>5, <3>2
    <3> QED
      BY <3>1, <3>2
  <2> QED
    BY <1>2, <2>1, <2>2 DEF Objects
<1> QED
  BY <1>2, <1>6, <1>7, TypesOfShaders, ShaderSteps

-----------------------------------------------------------------------------
\* Where neither inputs nor shaders change, and the phase is not left for the release.
LEMMA SameShaders ==
  ASSUME IInv, UNCHANGED <<inputs, shaders>>, phase # "Released", phase' # "Released"
  PROVE  Inputs' /\ Objects'
<1>1. /\ kind' = kind /\ material' = material /\ vsOrder' = vsOrder /\ psOrder' = psOrder
      /\ stage' = stage /\ objects' = objects /\ failed' = failed
  BY DEF inputs, shaders
<1> QED
  BY <1>1 DEF IInv, Inputs, Objects

\* The temporary materials get the rigid shader, or the program stops.
LEMMA CreatesTempMaterials == IInv /\ CreateTempMaterials => IInv'
<1> SUFFICES ASSUME IInv, CreateTempMaterials PROVE IInv'
  OBVIOUS
<1>1. /\ phase = "Materials"
      /\ \/ phase' = "Import" /\ stage[Rigid] = "Instantiated"
            /\ shader' = [shader EXCEPT ![EmptyMaterial] = Rigid]
         \/ phase' = "Stopped" /\ shader' = shader
      /\ UNCHANGED <<inputs, shaders>>
      /\ buffers' = buffers /\ params' = params /\ content' = content
      /\ vsBound' = vsBound /\ psBound' = psBound /\ joints' = joints
      /\ frame' = frame /\ drawn' = drawn /\ stage' = stage /\ objects' = objects
  BY DEF CreateTempMaterials, ShaderReady, buffer, context, shaders
<1>2. Inputs' /\ Objects'
  BY <1>1, SameShaders
<1>3. shader' \in [Materials -> Shaders \cup {Nothing}]
  BY <1>1 DEF IInv, TypeOK, Shaders
<1>4. TypeOK'
  BY <1>1, <1>3 DEF IInv, TypeOK
<1>5. Equipped'
  BY <1>1 DEF IInv, Equipped, Before
<1>6. Bindings'
  BY <1>1 DEF IInv, Bindings, Before
<1>7. Drawing'
  BY <1>1 DEF IInv, Drawing
<1> QED
  BY <1>1, <1>2, <1>4, <1>5, <1>6, <1>7 DEF IInv

\* The import gives every material a shader, the skinned one only for skins.
LEMMA ImportsMaterials == IInv /\ ImportMaterials => IInv'
<1> SUFFICES ASSUME IInv, ImportMaterials PROVE IInv'
  OBVIOUS
<1>1. /\ phase = "Import" /\ phase' \in {"Upload", "Stopped"}
      /\ shader' = [m \in Materials |->
                      IF m \in Reshaded /\ ShaderReady(Skinned) THEN Skinned ELSE Rigid]
      /\ UNCHANGED <<inputs, shaders>>
      /\ kind' = kind /\ material' = material
      /\ buffers' = buffers /\ params' = params /\ content' = content
      /\ vsBound' = vsBound /\ psBound' = psBound /\ joints' = joints
      /\ frame' = frame /\ drawn' = drawn /\ stage' = stage /\ objects' = objects
  BY DEF ImportMaterials, buffer, context, shaders, inputs
<1>2. Inputs' /\ Objects'
  BY <1>1, SameShaders
<1>3. /\ shader' \in [Materials -> Shaders]
      /\ \A m \in Materials : shader'[m] = Skinned => m \in Reshaded
  BY <1>1, SlotSets DEF Shaders
<1>4. TypeOK'
  BY <1>1, <1>3 DEF IInv, TypeOK
<1>5. Reshaded' = Reshaded
  BY <1>1 DEF Reshaded
<1>6. Equipped'
  BY <1>1, <1>3, <1>5 DEF IInv, Equipped, Before
<1>7. Bindings'
  BY <1>1 DEF IInv, Bindings, Before
<1>8. Drawing'
  BY <1>1 DEF IInv, Drawing
<1> QED
  BY <1>1, <1>2, <1>4, <1>6, <1>7, <1>8 DEF IInv

\* What SyncAllGPUBuffer writes, when the parameters are p.
LEMMA SyncedContent ==
  ASSUME IInv, NEW m \in Materials, shader[m] \in Shaders, params'[m] \in 0 .. MaxEdits
  PROVE  /\ Synced(m) \in [Slots -> Written]
         /\ \A k \in Slots : Synced(m)[k] \in Fitting(k)
         /\ Synced(m)[2] = params'[m]
         /\ Synced(m)[0] = content[m][0] /\ Synced(m)[1] = content[m][1]
<1>1. 2 < EntireConstBufferNum(shader[m])
  BY ShaderFacts
<1>2. Synced(m) = [k \in Slots |-> IF k = 2 THEN params'[m] ELSE content[m][k]]
  <2>1. \A k \in Slots : k = 2 => k < EntireConstBufferNum(shader[m])
    BY <1>1
  <2> QED
    BY <2>1 DEF Synced
<1>3. \A k \in Slots : content[m][k] \in Fitting(k)
  BY TypeParts DEF IInv
<1>4. 0 \in Slots /\ 1 \in Slots /\ 2 \in Slots
  BY SlotSets
<1> HIDE DEF Synced
<1>5. \A k \in Slots : Synced(m)[k] \in Fitting(k)
  BY <1>2, <1>3, FittingFacts
<1>6. Synced(m) \in [Slots -> Written]
  <2>1. \A k \in Slots : Synced(m)[k] \in Written
    BY <1>5, FittingFacts
  <2> QED
    BY <1>2, <2>1
<1> QED
  BY <1>2, <1>4, <1>5, <1>6

\* Every material gets its buffers and the lists of its stages.
LEMMA InstantiatesMaterials == IInv /\ InstantiateAllMaterials => IInv'
<1> SUFFICES ASSUME IInv, InstantiateAllMaterials PROVE IInv'
  OBVIOUS
<1>1. /\ phase = "Upload" /\ phase' = "Frames"
      /\ buffers' = [m \in Materials |-> EntireSlots(shader[m])]
      /\ vsBuffers' = [m \in Materials |-> Ascending(VSSlots(shader[m]))]
      /\ psBuffers' = [m \in Materials |-> Ascending(PSSlots)]
      /\ params' = params
      /\ content' = [m \in Materials |-> Synced(m)]
      /\ UNCHANGED <<inputs, shaders>> /\ kind' = kind /\ material' = material
      /\ shader' = shader
      /\ vsBound' = vsBound /\ psBound' = psBound /\ joints' = joints
      /\ frame' = frame /\ drawn' = drawn /\ stage' = stage /\ objects' = objects
  BY DEF InstantiateAllMaterials, context, shaders, inputs
<1>2. Inputs' /\ Objects'
  BY <1>1, SameShaders
<1>3. \A m \in Materials : shader[m] \in Shaders /\ params'[m] \in 0 .. MaxEdits
  BY <1>1 DEF IInv, Equipped, TypeOK
<1>4. \A m \in Materials : /\ content'[m] \in [Slots -> Written]
                           /\ \A k \in Slots : content'[m][k] \in Fitting(k)
                           /\ content'[m][2] = params'[m]
  BY <1>1, <1>3, SyncedContent
<1>5. content' \in [Materials -> [Slots -> Written]]
  BY <1>1, <1>4
<1>6. buffers' \in [Materials -> SUBSET Slots]
  BY <1>1, <1>3, ShaderFacts
<1>7. TypesOfObjects'
  BY <1>1, <1>6 DEF IInv, TypeOK, TypesOfObjects
<1>8. TypeOK'
  <2>1. stage'[Rigid] = "Instantiated"
    BY <1>1 DEF IInv, Equipped
  <2>2. /\ vsBound' \in [Slots -> {Nothing} \cup (Materials \X Slots)]
        /\ psBound' \in [Slots -> {Nothing} \cup (Materials \X Slots)]
        /\ joints' \in {Nothing} \cup 1 .. frame'
    BY <1>1 DEF IInv, TypeOK
  <2>3. \A m \in Materials : \A k \in Slots : content'[m][k] \in Fitting(k)
    BY <1>4
  <2> QED
    BY <1>7, <2>1, <2>2, <2>3 DEF TypeOK, TypesOfObjects, Fitting
<1>9. Equipped'
  <2>1. Reshaded' = Reshaded
    BY <1>1 DEF Reshaded
  <2> QED
    BY <1>1, <1>3, <1>4, <2>1 DEF IInv, Equipped, Before
<1>10. Bindings'
  <2>1. \A k \in Slots : vsBound'[k] = Nothing /\ psBound'[k] = Nothing
    BY <1>1 DEF IInv, Bindings, Before, Empty
  <2>2. \A m \in Materials : \A j \in Slots : <<m, j>> # Nothing
    BY MaterialsAssumption
  <2> QED
    BY <1>1, <2>1, <2>2 DEF Bindings, Before
<1>11. Drawing'
  BY <1>1 DEF IInv, Drawing
<1> QED
  BY <1>2, <1>5, <1>8, <1>9, <1>10, <1>11 DEF IInv

-----------------------------------------------------------------------------
\* A frame that begins forgets the last draw, but not what it bound.
LEMMA BeginsFrame == IInv /\ BeginFrame => IInv'
<1> SUFFICES ASSUME IInv, BeginFrame PROVE IInv'
  OBVIOUS
<1>1. /\ phase = "Frames" /\ phase' = phase /\ frame < MaxFrames /\ frame' = frame + 1
      /\ drawn' = Nothing /\ UNCHANGED <<inputs, shaders>> /\ kind' = kind
      /\ material' = material /\ vsOrder' = vsOrder /\ psOrder' = psOrder
      /\ shader' = shader /\ buffers' = buffers /\ vsBuffers' = vsBuffers
      /\ psBuffers' = psBuffers /\ params' = params /\ content' = content
      /\ vsBound' = vsBound /\ psBound' = psBound /\ joints' = joints
      /\ stage' = stage /\ objects' = objects
  BY DEF BeginFrame, buffer, context, shaders, inputs
<1>2. Inputs' /\ Objects'
  BY <1>1, SameShaders
<1>3. frame' \in 0 .. MaxFrames /\ frame \in Nat
  BY <1>1, MaterialsAssumption DEF IInv, Drawing
<1>4. TypeOK'
  <2>1. joints' \in {Nothing} \cup 1 .. frame'
    BY <1>1, <1>3 DEF IInv, TypeOK
  <2> QED
    BY <1>1, <2>1 DEF IInv, TypeOK
<1>5. Equipped'
  <2>1. Reshaded' = Reshaded
    BY <1>1 DEF Reshaded
  <2> QED
    BY <1>1, <2>1 DEF IInv, Equipped
<1>6. Bindings'
  BY <1>1 DEF IInv, Bindings
<1>7. Drawing'
  BY <1>1, <1>3 DEF Drawing
<1> QED
  BY <1>1, <1>2, <1>4, <1>5, <1>6, <1>7 DEF IInv

\* Drawing bones without an animation stops.
LEMMA BonesStop == IInv /\ BonesWithoutAnim => IInv'
<1> SUFFICES ASSUME IInv, BonesWithoutAnim PROVE IInv'
  OBVIOUS
<1>1. /\ phase = "Frames" /\ phase' = "Stopped" /\ frame' = frame
      /\ drawn' = Nothing /\ UNCHANGED <<inputs, shaders>>
      /\ shader' = shader /\ buffers' = buffers /\ params' = params /\ content' = content
      /\ vsBound' = vsBound /\ psBound' = psBound /\ joints' = joints
      /\ stage' = stage /\ objects' = objects
  BY DEF BonesWithoutAnim, buffer, context, shaders
<1>2. Inputs' /\ Objects'
  BY <1>1, SameShaders
<1>3. TypeOK'
  BY <1>1 DEF IInv, TypeOK
<1>4. Equipped' /\ Bindings' /\ Drawing'
  BY <1>1 DEF IInv, Equipped, Bindings, Drawing, Before
<1> QED
  BY <1>1, <1>2, <1>3, <1>4 DEF IInv

\* An edit of the parameters reaches the buffers.
LEMMA SyncsMaterial ==
  ASSUME IInv, NEW m \in Materials, SyncMaterialParam(m)
  PROVE  IInv'
<1>1. /\ phase = "Frames" /\ phase' = phase /\ frame' = frame /\ drawn' = Nothing
      /\ params[m] < MaxEdits
      /\ params' = [params EXCEPT ![m] = params[m] + 1]
      /\ content' = [content EXCEPT ![m] = Synced(m)]
      /\ UNCHANGED <<inputs, shaders>> /\ kind' = kind
      /\ material' = material /\ vsOrder' = vsOrder /\ psOrder' = psOrder
      /\ shader' = shader /\ buffers' = buffers /\ vsBuffers' = vsBuffers
      /\ psBuffers' = psBuffers
      /\ vsBound' = vsBound /\ psBound' = psBound /\ joints' = joints
      /\ stage' = stage /\ objects' = objects
  BY DEF SyncMaterialParam, buffer, context, shaders, inputs
<1>2. Inputs' /\ Objects'
  BY <1>1, SameShaders
<1>3. params' \in [Materials -> 0 .. MaxEdits] /\ shader[m] \in Shaders
      /\ params \in [Materials -> 0 .. MaxEdits]
  <2>1. params \in [Materials -> 0 .. MaxEdits] /\ MaxEdits \in Nat
    BY MaterialsAssumption DEF IInv, TypeOK
  <2>2. params[m] + 1 \in 0 .. MaxEdits
    BY <1>1, <2>1
  <2> QED
    BY <1>1, <2>1, <2>2 DEF IInv, Equipped
<1>4. /\ Synced(m) \in [Slots -> Written]
      /\ \A k \in Slots : Synced(m)[k] \in Fitting(k)
      /\ Synced(m)[2] = params'[m]
  BY <1>3, SyncedContent
<1>5. content \in [Materials -> [Slots -> Written]]
  BY DEF IInv
<1>6. /\ content' \in [Materials -> [Slots -> Written]] /\ content'[m] = Synced(m)
      /\ \A n \in Materials : n # m => content'[n] = content[n] /\ params'[n] = params[n]
  BY <1>1, <1>3, <1>4, <1>5
<1>7. TypeOK'
  <2>1. \A n \in Materials : \A k \in Slots : content[n][k] \in Fitting(k)
    BY TypeParts DEF IInv
  <2>2. \A n \in Materials : \A k \in Slots : content'[n][k] \in Fitting(k)
    BY <1>4, <1>6, <2>1
  <2>3. TypesOfObjects'
    BY <1>1, <1>3 DEF IInv, TypeOK, TypesOfObjects
  <2>4. /\ vsBound' \in [Slots -> {Nothing} \cup (Materials \X Slots)]
        /\ psBound' \in [Slots -> {Nothing} \cup (Materials \X Slots)]
        /\ joints' \in {Nothing} \cup 1 .. frame'
        /\ stage'[Rigid] = "Instantiated"
    BY <1>1 DEF IInv, TypeOK
  <2> QED
    BY <2>2, <2>3, <2>4 DEF TypeOK, TypesOfObjects, Fitting
<1>8. Equipped'
  <2>1. Reshaded' = Reshaded
    BY <1>1 DEF Reshaded
  <2>2. \A n \in Materials : content'[n][2] = params'[n]
    BY <1>1, <1>4, <1>6 DEF IInv, Equipped
  <2> QED
    BY <1>1, <2>1, <2>2 DEF IInv, Equipped, Before
<1>9. Bindings'
  BY <1>1 DEF IInv, Bindings
<1>10. Drawing'
  BY <1>1 DEF IInv, Drawing
<1> QED
  BY <1>2, <1>6, <1>7, <1>8, <1>9, <1>10 DEF IInv

\* A skinned mesh without a pose stops after the material is bound.
LEMMA DrawStops ==
  ASSUME IInv, NEW d \in Meshes, DrawWithoutPose(d)
  PROVE  IInv'
<1>1. /\ phase = "Frames" /\ phase' = "Stopped" /\ frame' = frame /\ drawn' = Nothing
      /\ BindMaterial(material[d]) /\ UNCHANGED <<inputs, shaders>>
      /\ shader' = shader /\ buffers' = buffers /\ params' = params /\ content' = content
      /\ joints' = joints /\ stage' = stage /\ objects' = objects
  BY DEF DrawWithoutPose, buffer, shaders
<1>2. Inputs' /\ Objects'
  BY <1>1, SameShaders
<1>3. material[d] \in Materials
  BY DEF IInv, Inputs
<1>4. /\ vsBound' \in [Slots -> {Nothing} \cup (Materials \X Slots)]
      /\ psBound' \in [Slots -> {Nothing} \cup (Materials \X Slots)]
  BY <1>1, <1>3, BindMaterialBinds
<1>5. TypeOK'
  BY <1>1, <1>4 DEF IInv, TypeOK
<1>6. Equipped' /\ Bindings' /\ Drawing'
  BY <1>1 DEF IInv, Equipped, Bindings, Drawing, Before
<1> QED
  BY <1>1, <1>2, <1>5, <1>6 DEF IInv

\* A draw binds and writes the buffers of its own material.
LEMMA Draws ==
  ASSUME IInv, NEW d \in Meshes, DrawModel(d)
  PROVE  IInv'
<1> DEFINE m == material[d]
<1>1. /\ phase = "Frames" /\ phase' = phase /\ frame > 0 /\ frame' = frame /\ drawn' = d
      /\ BindMaterial(m)
      /\ joints' = IF kind[d] = "Skinned" THEN frame ELSE joints
      /\ content' = [content EXCEPT ![m][1] = frame, ![m][0] = d]
      /\ UNCHANGED <<inputs, shaders>> /\ kind' = kind
      /\ material' = material /\ vsOrder' = vsOrder /\ psOrder' = psOrder
      /\ shader' = shader /\ buffers' = buffers /\ vsBuffers' = vsBuffers
      /\ psBuffers' = psBuffers /\ params' = params
      /\ stage' = stage /\ objects' = objects
  BY DEF DrawModel, buffer, shaders, inputs
<1>2. Inputs' /\ Objects'
  BY <1>1, SameShaders
<1>3. m \in Materials
  BY DEF IInv, Inputs
<1>4. /\ vsBound' \in [Slots -> {Nothing} \cup (Materials \X Slots)]
      /\ psBound' \in [Slots -> {Nothing} \cup (Materials \X Slots)]
      /\ vsBound'[vsOrder[shader[m]][1]] = <<m, 0>>
      /\ vsBound'[vsOrder[shader[m]][2]] = <<m, 1>>
      /\ psBound'[psOrder[1]] = <<m, 1>> /\ psBound'[psOrder[2]] = <<m, 2>>
      /\ \A n \in Materials : \A k, j \in Slots :
           /\ vsBound'[k] = <<n, j>> => PutBy(vsOrder[shader[n]], 0, 1, k, j)
           /\ psBound'[k] = <<n, j>> => PutBy(psOrder, 1, 2, k, j)
  BY <1>1, <1>3, BindMaterialBinds
<1>5. frame \in 1 .. MaxFrames /\ MaxFrames \in Nat
  BY <1>1, MaterialsAssumption DEF IInv, Drawing
<1>6. content \in [Materials -> [Slots -> Written]]
  BY DEF IInv
<1>7. 0 \in Slots /\ 1 \in Slots /\ 2 \in Slots
  BY SlotSets
<1> HIDE DEF m
<1>8. /\ content' = [content EXCEPT ![m] = content'[m]]
      /\ content'[m] = [content[m] EXCEPT ![1] = frame, ![0] = d]
  BY <1>1, <1>3, <1>6
<1>9. /\ content'[m] \in [Slots -> Written]
      /\ content'[m][0] = d /\ content'[m][1] = frame
      /\ \A k \in Slots : k # 0 /\ k # 1 => content'[m][k] = content[m][k]
  <2>1. content[m] \in [Slots -> Written] /\ d \in Written /\ frame \in Written
    BY <1>3, <1>5, <1>6 DEF Written
  <2> QED
    BY <1>7, <1>8, <2>1
<1>10. /\ content' \in [Materials -> [Slots -> Written]]
       /\ \A n \in Materials : n # m => content'[n] = content[n]
  BY <1>3, <1>6, <1>8, <1>9
<1>11. TypeOK'
  <2>1. \A n \in Materials : \A k \in Slots : content[n][k] \in Fitting(k)
    BY TypeParts DEF IInv
  <2>2. ASSUME NEW k \in Slots PROVE content'[m][k] \in Fitting(k)
    <3>1. CASE k = 0
      BY <1>9, <3>1, FittingFacts
    <3>2. CASE k = 1
      BY <1>5, <1>9, <3>2, FittingFacts
    <3>3. CASE k # 0 /\ k # 1
      BY <1>3, <1>9, <2>1, <3>3
    <3> QED
      BY <3>1, <3>2, <3>3
  <2>3. \A n \in Materials : \A k \in Slots : content'[n][k] \in Fitting(k)
    BY <1>10, <2>1, <2>2
  <2>4. TypesOfObjects'
    BY <1>1 DEF IInv, TypeOK, TypesOfObjects
  <2>5. joints' \in {Nothing} \cup 1 .. frame' /\ stage'[Rigid] = "Instantiated"
    <3>1. joints \in {Nothing} \cup 1 .. frame /\ stage[Rigid] = "Instantiated"
      BY <1>1 DEF IInv, TypeOK
    <3>2. frame \in 1 .. frame
      BY <1>5
    <3> QED
      BY <1>1, <3>1, <3>2
  <2> QED
    BY <1>4, <2>3, <2>4, <2>5 DEF TypeOK, TypesOfObjects, Fitting
<1>12. Equipped'
  <2>1. Reshaded' = Reshaded
    BY <1>1 DEF Reshaded
  <2>2. \A n \in Materials : content[n][2] = params[n]
    BY <1>1 DEF IInv, Equipped
  <2>3. \A n \in Materials : content'[n][2] = params'[n]
    BY <1>1, <1>7, <1>9, <1>10, <2>2
  <2> QED
    BY <1>1, <2>1, <2>3 DEF IInv, Equipped, Before
<1>13. Bindings'
  BY <1>1, <1>4 DEF Bindings, Before
<1>14. Drawing'
  <2>1. Drawn(d)'
    BY <1>1, <1>4, <1>9 DEF Drawn, m
  <2> QED
    BY <1>1, <2>1 DEF IInv, Drawing
<1> QED
  BY <1>2, <1>10, <1>11, <1>12, <1>13, <1>14 DEF IInv

\* The release takes every buffer of every material.
LEMMA CleansUp == IInv /\ CleanUp => IInv'
<1> SUFFICES ASSUME IInv, CleanUp PROVE IInv'
  OBVIOUS
<1>1. /\ phase = "Frames" /\ phase' = "Released" /\ frame' = frame /\ drawn' = Nothing
      /\ buffers' = [m \in Materials |-> buffers[m] \ ReleasedSlots(m)]
      /\ objects' = [s \in Shaders |-> Unreleased(s)]
      /\ kind' = kind /\ material' = material /\ vsOrder' = vsOrder /\ psOrder' = psOrder
      /\ stage' = stage /\ failed' = failed
      /\ shader' = shader /\ params' = params /\ content' = content
      /\ vsBound' = vsBound /\ psBound' = psBound /\ joints' = joints
  BY DEF CleanUp, context, inputs
<1>2. Inputs'
  BY <1>1 DEF IInv, Inputs
<1>3. \A s \in Shaders : /\ Unreleased(s) # {} <=> failed[s] \in {"Describe", "Layout"}
                         /\ Unreleased(s) \subseteq objects[s]
  BY <1>1, Released
<1>4. Objects'
  BY <1>1, <1>3 DEF IInv, Objects
<1>5. \A m \in Materials : buffers'[m] = {}
  <2> TAKE m \in Materials
  <2>1. shader[m] \in Shaders /\ buffers[m] = EntireSlots(shader[m])
    BY <1>1 DEF IInv, Equipped
  <2>2. EntireSlots(shader[m]) = 0 .. EntireConstBufferNum(shader[m]) - 1
    BY <2>1, ShaderFacts
  <2> QED
    BY <1>1, <2>1, <2>2 DEF ReleasedSlots
<1>6. TypeOK'
  <2>1. objects' \in [Shaders -> SUBSET {"VSBlob", "PSBlob", "VS", "PS", "Layout"}]
    BY <1>1, <1>3, TypesOfShaders
  <2>2. buffers' \in [Materials -> SUBSET Slots]
    BY <1>1, <1>5
  <2> QED
    BY <1>1, <2>1, <2>2 DEF IInv, TypeOK
<1>7. Equipped' /\ Bindings' /\ Drawing'
  BY <1>1, <1>5 DEF IInv, Equipped, Bindings, Drawing, Before
<1> QED
  BY <1>1, <1>2, <1>4, <1>6, <1>7 DEF IInv

\* Stuttering keeps the invariant.
LEMMA NothingMoves == IInv /\ UNCHANGED vars => IInv'
<1> SUFFICES ASSUME IInv, UNCHANGED vars PROVE IInv'
  OBVIOUS
<1>1. /\ kind' = kind /\ material' = material /\ vsOrder' = vsOrder /\ psOrder' = psOrder
      /\ stage' = stage /\ objects' = objects /\ failed' = failed /\ phase' = phase
      /\ shader' = shader /\ buffers' = buffers /\ vsBuffers' = vsBuffers
      /\ psBuffers' = psBuffers /\ params' = params /\ content' = content
      /\ vsBound' = vsBound /\ psBound' = psBound /\ joints' = joints
      /\ frame' = frame /\ drawn' = drawn
  BY DEF vars, inputs, shaders, buffer, context
<1>2. TypeOK' /\ Inputs' /\ Objects'
  BY <1>1 DEF IInv, TypeOK, Inputs, Objects
<1>3. Reshaded' = Reshaded
  BY <1>1 DEF Reshaded
<1>4. Equipped'
  BY <1>1, <1>3 DEF IInv, Equipped
<1>5. Bindings' /\ Drawing'
  BY <1>1 DEF IInv, Bindings, Drawing, Drawn
<1> QED
  BY <1>1, <1>2, <1>4, <1>5 DEF IInv

\* Every step keeps the invariant.
LEMMA NextKeeps == IInv /\ [Next]_vars => IInv'
<1> SUFFICES ASSUME IInv, [Next]_vars PROVE IInv'
  OBVIOUS
<1>1. ASSUME NEW s \in Shaders, CompileShader(s) PROVE IInv'
  BY <1>1, Compiles
<1>2. ASSUME NEW s \in Shaders, CompileShaderFails(s) PROVE IInv'
  BY <1>2, CompileFails
<1>3. ASSUME NEW s \in Shaders, InstantiateShader(s) PROVE IInv'
  BY <1>3, Instantiates
<1>4. ASSUME NEW s \in Shaders, InstantiateShaderFails(s) PROVE IInv'
  BY <1>4, InstantiateFails
<1>5. CASE CreateTempMaterials
  BY <1>5, CreatesTempMaterials
<1>6. CASE ImportMaterials
  BY <1>6, ImportsMaterials
<1>7. CASE InstantiateAllMaterials
  BY <1>7, InstantiatesMaterials
<1>8. CASE BeginFrame
  BY <1>8, BeginsFrame
<1>9. CASE BonesWithoutAnim
  BY <1>9, BonesStop
<1>10. ASSUME NEW m \in Materials, SyncMaterialParam(m) PROVE IInv'
  BY <1>10, SyncsMaterial
<1>11. ASSUME NEW d \in Meshes, DrawModel(d) PROVE IInv'
  BY <1>11, Draws
<1>12. ASSUME NEW d \in Meshes, DrawWithoutPose(d) PROVE IInv'
  BY <1>12, DrawStops
<1>13. CASE CleanUp
  BY <1>13, CleansUp
<1>14. CASE UNCHANGED vars
  BY <1>14, NothingMoves
<1> QED
  BY <1>1, <1>2, <1>3, <1>4, <1>5, <1>6, <1>7, <1>8, <1>9, <1>10, <1>11, <1>12, <1>13,
     <1>14 DEF Next

\* The invariant holds in every reachable state.
THEOREM Inductive == Spec => []IInv
<1>1. Init => IInv
  BY Initially
<1>2. IInv /\ [Next]_vars => IInv'
  BY NextKeeps
<1> QED
  BY <1>1, <1>2, PTL DEF Spec

\* Shaders, materials and the context hold what their declarations say.
THEOREM TypeCorrect == Spec => []TypeOK
<1>1. IInv => TypeOK
  BY DEF IInv
<1> QED
  BY <1>1, Inductive, PTL

\* Whatever earlier draws have bound, a draw reads the buffers of its own material exactly
\* if the reflection of BindMaterial's shader is orderly.
THEOREM DrawsReadTheirOwn == Spec => []DrawReadsItsOwn
<1>1. IInv => DrawReadsItsOwn
  <2> SUFFICES ASSUME IInv, drawn # Nothing
               PROVE  LET m == material[drawn]
                      IN  /\ Orderly(shader[m]) <=>
                               /\ \A k \in VSConstants : vsBound[k] = <<m, k>>
                               /\ \A k \in PSSlots : psBound[k] = <<m, k>>
                          /\ content[m][0] = drawn /\ content[m][1] = frame
                          /\ content[m][2] = params[m]
    BY DEF DrawReadsItsOwn
  <2> DEFINE m == material[drawn]
             q == vsOrder[shader[m]]
  <2>1. phase = "Frames" /\ drawn \in Meshes /\ Drawn(drawn)
    BY DEF IInv, Drawing
  <2>2. m \in Materials
    BY <2>1 DEF IInv, Inputs
  <2>3. /\ shader[m] \in Shaders /\ content[m][2] = params[m]
    BY <2>1, <2>2 DEF IInv, Equipped
  <2>4. /\ vsBound[q[1]] = <<m, 0>> /\ vsBound[q[2]] = <<m, 1>>
        /\ psBound[psOrder[1]] = <<m, 1>> /\ psBound[psOrder[2]] = <<m, 2>>
        /\ content[m][0] = drawn /\ content[m][1] = frame
    BY <2>1 DEF Drawn
  <2>5. \A k, j \in Slots : /\ vsBound[k] = <<m, j>> => PutBy(q, 0, 1, k, j)
                            /\ psBound[k] = <<m, j>> => PutBy(psOrder, 1, 2, k, j)
    BY <2>1, <2>2 DEF IInv, Bindings
  <2>6. 0 \in Slots /\ 1 \in Slots /\ 2 \in Slots /\ VSConstants = {0, 1} /\ PSSlots = {1, 2}
    BY SlotSets DEF VSConstants
  <2>7. psOrder = <<1, 2>> <=> psOrder[1] = 1 /\ psOrder[2] = 2
    BY PSOrderFacts DEF IInv
  <2>8. Orderly(shader[m]) <=> q[1] = 0 /\ q[2] = 1 /\ psOrder[1] = 1 /\ psOrder[2] = 2
    BY <2>7 DEF Orderly
  <2> HIDE DEF m, q
  <2>9. /\ vsBound[0] = <<m, 0>> <=> q[1] = 0
        /\ vsBound[1] = <<m, 1>> <=> q[2] = 1
        /\ psBound[1] = <<m, 1>> <=> psOrder[1] = 1
        /\ psBound[2] = <<m, 2>> <=> psOrder[2] = 2
    BY <2>4, <2>5, <2>6 DEF PutBy
  <2> QED
    BY <2>3, <2>4, <2>6, <2>8, <2>9 DEF m
<1> QED
  BY <1>1, Inductive, PTL

\* The skinned shader runs on the pose of this frame, but for rigid meshes that share
\* their material with a skinned one.
THEOREM SkinnedDrawsPosed == Spec => []SkinsArePosed
<1>1. IInv => SkinsArePosed
  <2> SUFFICES ASSUME IInv, drawn # Nothing, shader[material[drawn]] = Skinned, joints # frame
               PROVE  /\ kind[drawn] = "Rigid"
                      /\ \E d \in Meshes : kind[d] = "Skinned" /\ material[d] = material[drawn]
    BY DEF SkinsArePosed
  <2>1. phase = "Frames" /\ drawn \in Meshes /\ Drawn(drawn)
    BY DEF IInv, Drawing
  <2>2. kind[drawn] = "Rigid" /\ material[drawn] \in Materials
    BY <2>1 DEF Drawn, IInv, Inputs
  <2>3. material[drawn] \in Reshaded
    BY <2>1, <2>2 DEF IInv, Equipped
  <2> QED
    BY <2>2, <2>3 DEF Reshaded
<1> QED
  BY <1>1, Inductive, PTL

\* ReleaseGPUBuffer leaves no constant buffer, and Release loses the objects of exactly
\* those shaders whose reflection or layout failed.
THEOREM ReleaseComplete == Spec => []ReleaseLeavesNothing
<1>1. IInv => ReleaseLeavesNothing
  BY DEF IInv, Equipped, Objects, ReleaseLeavesNothing, Before
<1> QED
  BY <1>1, Inductive, PTL

=============================================================================
