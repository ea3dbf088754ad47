----------------------------- MODULE MCPduAssoc -----------------------------
(***************************************************************************)
(* The instances of PduAssoc for TLC; the bounds are in the .cfg files.    *)
(***************************************************************************)
EXTENDS PduAssoc
=============================================================================
