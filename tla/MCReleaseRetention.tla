------------------------- MODULE MCReleaseRetention -------------------------
(***************************************************************************)
(* Instances of ReleaseRetention for TLC: two sales of one listing, whose  *)
(* authorization allows one of them.                                       *)
(***************************************************************************)
EXTENDS ReleaseRetention, TLC

CONSTANTS l1, s1, s2

OneListing == s1 :> l1 @@ s2 :> l1
=============================================================================
