--------------------------- MODULE MCLimitConnect ---------------------------
(***************************************************************************)
(* An instance of LimitConnect for TLC: ints of 4 bits, and a clock that   *)
(* passes the largest int.                                                 *)
(***************************************************************************)
EXTENDS LimitConnect, TLC

CONSTANTS p1, p2

Symmetry == Permutations(Peers)
=============================================================================
