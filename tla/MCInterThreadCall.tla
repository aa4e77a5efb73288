--------------------------- MODULE MCInterThreadCall ---------------------------
(***************************************************************************)
(* InterThreadCall with two workers and three delegates.                   *)
(***************************************************************************)
EXTENDS CallOrder, TLC

CONSTANTS t1, t2, d1, d2, d3

Symmetry == Permutations({t1, t2}) \cup Permutations({d1, d2, d3})
=============================================================================
