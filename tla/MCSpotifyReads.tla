--------------------------- MODULE MCSpotifyReads ---------------------------
(* TLC instance of SpotifyReads: two users share a track, one of them has
   played another; two artists share a name; the shared track has one artist,
   or at first none. *)
EXTENDS SpotifyReads, TLC

CONSTANTS h1, h2, u1, u2, x1, x2, a1, a2, a3, n1, n2

Plays == (<<u1, 1>> :> x1) @@ (<<u1, 2>> :> x2) @@ (<<u2, 1>> :> x1)
Lists == {<<>>, <<a1>>, <<a2, a1, a3>>}
AtFirst == {[title |-> (x1 :> n1) @@ (x2 :> n2),
             by    |-> (x1 :> s) @@ (x2 :> <<a2, a1, a3>>),
             name  |-> (a1 :> n1) @@ (a2 :> n2) @@ (a3 :> n1)] : s \in {<<>>, <<a1>>}}

Symmetry == Permutations(Handlers)
=============================================================================
