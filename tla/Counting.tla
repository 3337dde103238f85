------------------------------ MODULE Counting ------------------------------
(***************************************************************************)
(* Sets of numbers, their order and their sums, without recursion.         *)
(***************************************************************************)
EXTENDS Naturals, FiniteSets, Functions

Least(S) == CHOOSE n \in S : \A m \in S : n <= m

\* The numbers of a set, in their order.
Ascending(S) ==
  CHOOSE q \in [1 .. Cardinality(S) -> S] :
    /\ \A i, j \in DOMAIN q : i < j => q[i] < q[j]
    /\ Range(q) = S

\* The sum of f over S, counted: x stands for f[x] things.
Total(f, S) == Cardinality(UNION {{x} \X (1 .. f[x]) : x \in S})

=============================================================================
