--------------------------- MODULE MCAssetManager ---------------------------
(***************************************************************************)
(* Five assets, two of which share a name and one of which has a name the  *)
(* table does not accept.  The table of two slots fills up, and in the     *)
(* table of four a collision limit of 2 refuses n3 while a slot is free.   *)
(***************************************************************************)
EXTENDS AssetManager, TLC

CONSTANTS a1, a2, a3, a4, a5, n1, n2, n3, bad, s1

MCNameOf == (a1 :> n1) @@ (a2 :> n1) @@ (a3 :> n2) @@ (a4 :> n3) @@ (a5 :> bad)

Manager(grows, refusal, fallback) ==
  [grows |-> grows, refusal |-> refusal, fallback |-> fallback]

MCKinds == {Manager(TRUE, "message", FALSE), Manager(FALSE, "message", FALSE),
            Manager(FALSE, "break", FALSE), Manager(FALSE, "break", TRUE),
            Manager(FALSE, "assert", FALSE)}

MCHash == (<<n1, s1>> :> 0) @@ (<<n2, s1>> :> 1) @@ (<<n3, s1>> :> 4)

=============================================================================
