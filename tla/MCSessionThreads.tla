-------------------------- MODULE MCSessionThreads --------------------------
(***************************************************************************)
(* An instance of SessionThreads for TLC.                                  *)
(***************************************************************************)
EXTENDS SessionThreads
=============================================================================
