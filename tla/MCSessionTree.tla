--------------------------- MODULE MCSessionTree ---------------------------
(***************************************************************************)
(* Instances of SessionTree for TLC.  Sessions differ only by their name.  *)
(***************************************************************************)
EXTENDS SessionTree, TLC

CONSTANTS s1, s2, s3

ThreeSessions == {s1, s2, s3}

SymmetricSessions == Permutations(Sessions)
=============================================================================
