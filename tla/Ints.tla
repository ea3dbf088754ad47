-------------------------------- MODULE Ints --------------------------------
(***************************************************************************)
(* The type int, and what is assigned to it.                               *)
(***************************************************************************)
EXTENDS Integers

CONSTANT IntMax  \* the largest int; the least one is -IntMax - 1

ASSUME IntMaxIsNat == IntMax \in Nat

(* A wider integer assigned to an int.                                     *)
ToInt(x) ==
    LET width == 2 * IntMax + 2
    IN  ((x + IntMax + 1) % width) - (IntMax + 1)

Least(a, b) == IF a < b THEN a ELSE b
=============================================================================
