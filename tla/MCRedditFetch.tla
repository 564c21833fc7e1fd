--------------------------- MODULE MCRedditFetch ---------------------------
(* A listing of three posts, and one that is not saved yet. *)
EXTENDS RedditFetch

CONSTANTS w1, u1, u2, p1, p2, p3, p4

SavedAtFirst == <<p1, p2, p3>>
=============================================================================
