---------------------------- MODULE MCRetrieval ----------------------------
(***************************************************************************)
(* An instance of Retrieval for TLC: small records and one that can only   *)
(* be fetched by itself or not at all, offers that one record fills, that  *)
(* are too small for it or do not fit an int (-8 .. 7), and unset members  *)
(* on both sides of zero.                                                  *)
(***************************************************************************)
EXTENDS Retrieval

MCIntMax == 7
MCSizes == {1, 4}
MCOffers == {3, 5, 9}
MCUnset == {-1, 5}
=============================================================================
