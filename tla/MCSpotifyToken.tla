--------------------------- MODULE MCSpotifyToken ---------------------------
(* One unit of time is the minute of Expired and of the http.Client. *)
EXTENDS SpotifyToken, TLC

CONSTANTS h1, h2, a1

HandlerSymmetry == Permutations(Handlers)
=============================================================================
