----------------------------- MODULE MCSHasher -----------------------------
(***************************************************************************)
(* Five words of two spellings: name and Name hash alike in every pool,    *)
(* bone and Bone only in a pool of one bucket.                             *)
(***************************************************************************)
EXTENDS SHasher

CONSTANTS nil

MCWords == {"name", "Name", "bone", "Bone", "mesh"}

MCHash == [name |-> 0, Name |-> 6, bone |-> 1, Bone |-> 2, mesh |-> 4]

MCFold == [name |-> "n", Name |-> "n", bone |-> "b", Bone |-> "b", mesh |-> "m"]

=============================================================================
