-------------------------- MODULE MCSpotifyIngest --------------------------
(***************************************************************************)
(* TLC instances of SpotifyIngest: two overlapping refreshes, or two       *)
(* overlapping backfills.                                                  *)
(***************************************************************************)
EXTENDS SpotifyIngest, TLC

CONSTANTS r1, r2, b1, b2

ProcessSymmetry == Permutations(Refreshers)
=============================================================================
