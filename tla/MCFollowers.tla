---------------------------- MODULE MCFollowers -----------------------------
(* Followers with two activities, of which any may be there at the start.  *)
EXTENDS Followers, TLC

CONSTANTS a1, a2

MCActivity == {a1, a2}

Symmetry == Permutations(MCActivity)
=============================================================================
