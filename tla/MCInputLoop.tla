---------------------------- MODULE MCInputLoop ----------------------------
(***************************************************************************)
(* InputLoop with Alt, a key of its own code, and a button that shares the *)
(* code of the unmapped keys with Alt.                                     *)
(***************************************************************************)
EXTENDS InputLoop, TLC

CONSTANTS w, alt, x, KeyW, Unknown

MCCode == (w :> KeyW) @@ (alt :> Unknown) @@ (x :> Unknown)

=============================================================================
