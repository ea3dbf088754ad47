------------------------------ MODULE TimeStat ------------------------------
(***************************************************************************)
(* TimeStat (timestat.cpp): what was added in the last "size" seconds, in  *)
(* a ring of buckets of a second each.  An object is a record; bucket i of *)
(* the code is number i + 1.                                               *)
(***************************************************************************)
EXTENDS Ints, ListOps

CONSTANT Junk  \* what the memory of a new object may hold

ASSUME JunkIsInts == Junk \subseteq Int

(* The objects with n buckets.                                             *)
Stats(n) ==
    [sec : Nat, size : {n}, ptr : 0 .. n - 1, bucket : [1 .. n -> Int]]

(* The constructor: the buckets are not initialised.                       *)
NewStats(sz) ==
    {[sec |-> 0, size |-> sz, ptr |-> 0, bucket |-> b] : b \in [1 .. sz -> Junk]}

(* Fault: as many buckets are cleared as there are seconds, but one.       *)
Rotate_OneLess(s, d) ==
    LET p == (s.ptr + d) % s.size
        gone == {((s.ptr + i) % s.size) + 1 : i \in 1 .. d - 1}
    IN [s EXCEPT !.ptr = p, !.bucket = [i \in DOMAIN s.bucket |->
                                          IF i \in gone THEN 0 ELSE s.bucket[i]]]

(* The loop of add_bytes: ptr goes d buckets on, and clears them.          *)
Rotate(s, d) ==
    LET p == (s.ptr + d) % s.size
        gone == {((s.ptr + i) % s.size) + 1 : i \in 1 .. d}
    IN [s EXCEPT !.ptr = p, !.bucket = [i \in DOMAIN s.bucket |->
                                          IF i \in gone THEN 0 ELSE s.bucket[i]]]

(* add_bytes: while the clock is behind, nothing is added.                 *)
AddBytes(s, b, now) ==
    LET d == Least(ToInt(now - s.sec), s.size)
        r == IF d > 0 THEN Rotate(s, d) ELSE s
    IN IF now < s.sec THEN [s EXCEPT !.sec = now]
       ELSE [r EXCEPT !.sec = now, !.bucket[r.ptr + 1] = @ + b]

Total(s) == Sums(0, s.bucket, s.size)[s.size]

(* get_total: the buckets are brought up to now, and added up.             *)
GetTotal(s, now) == Total(AddBytes(s, 0, now))
=============================================================================
