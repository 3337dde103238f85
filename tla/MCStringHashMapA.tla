-------------------------- MODULE MCStringHashMapA --------------------------
(***************************************************************************)
(* StringHashMapA on three keys whose probe paths overlap: under seed s1   *)
(* all start at slot 0 of a pool of two, and k1 and k2 share their home in *)
(* a pool of three while k3 starts behind them; under s2 they are spread.  *)
(***************************************************************************)
EXTENDS StringHashMapA, TLC

CONSTANTS k1, k2, k3, s1, s2

MCHash == (<<k1, s1>> :> 0) @@ (<<k2, s1>> :> 6) @@ (<<k3, s1>> :> 4)
       @@ (<<k1, s2>> :> 2) @@ (<<k2, s2>> :> 1) @@ (<<k3, s2>> :> 3)

=============================================================================
