-------------------------- MODULE MCSocketManager --------------------------
(***************************************************************************)
(* Instances of SocketManager for TLC: two observers, two descriptors that *)
(* may be reused, a clock that lets the longer timeout pass.               *)
(***************************************************************************)
EXTENDS SocketManager

CONSTANTS o1, o2

MCFds      == {5, 6}
MCMasks    == {{"read"}, {"read", "write"}}
MCTimeouts == {0, 1}
=============================================================================
