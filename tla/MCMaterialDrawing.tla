-------------------------- MODULE MCMaterialDrawing --------------------------
(***************************************************************************)
(* Two meshes of either kind with any of two materials, and every order in *)
(* which the reflection may list the buffers.                              *)
(***************************************************************************)
EXTENDS MaterialDrawing

CONSTANTS d1, d2, m1, m2

MCMeshes == {d1, d2}
MCMaterials == {m1, m2}

AllOrders(S) == {q \in [1 .. Cardinality(S) -> S] : IsInjective(q)}

MCVSOrders == [s \in Shaders |-> AllOrders(VSSlots(s))]
MCPSOrders == AllOrders(PSSlots)

=============================================================================
