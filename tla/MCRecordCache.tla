--------------------------- MODULE MCRecordCache ---------------------------
(***************************************************************************)
(* An instance of RecordCache for TLC.                                     *)
(***************************************************************************)
EXTENDS RecordCache
=============================================================================
