------------------------------ MODULE ListOps ------------------------------
(***************************************************************************)
(* The linked lists of yazpp (observers, events, PDUs, children) are       *)
(* modelled as sequences, front first.  Unlinking elements of a list is    *)
(* taking the subsequence at the positions that stay.                      *)
(*                                                                         *)
(* Subsequence is written with ranks and not with SelectSeq because the    *)
(* proofs have to reason about it and SelectSeq is defined by recursion.   *)
(* For the same reason a loop that adds up is a recursive function.        *)
(***************************************************************************)
EXTENDS Integers, Sequences, FiniteSets

(* The number of positions of K up to and including i. *)
Rank(K, i) == Cardinality({j \in K : j <= i})

(* The elements of s at the positions in K, in the order they have in s. *)
Subsequence(s, K) ==
    [k \in 1 .. Cardinality(K) |-> s[CHOOSE i \in K : Rank(K, i) = k]]

(* The values in a list. *)
Elements(s) == {s[i] : i \in DOMAIN s}

(* No value is in the list twice. *)
NoRepeats(s) == \A i, j \in DOMAIN s : s[i] = s[j] => i = j

(* What a loop has after each of its n turns that adds up x, from a on.    *)
Sums(a, x, n) ==
    LET sum[k \in 0 .. n] == IF k = 0 THEN a ELSE sum[k - 1] + x[k]
    IN  sum
=============================================================================
