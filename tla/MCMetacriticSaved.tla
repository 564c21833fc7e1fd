------------------------- MODULE MCMetacriticSaved -------------------------
(* One refresh of three pages: two mediums that list the same two titles in
   different orders, and a page that may list either one; and a user. *)
EXTENDS MetacriticSaved, TLC

CONSTANTS f1, x, y, pc1, switch, tv, u1

ThreeMediums == <<pc1, switch, tv>>
SharedTitles == <<{<<x, y>>}, {<<y, x>>}, {<<x>>, <<>>}>>
Released     == (x :> 2023) @@ (y :> 2024)
=============================================================================
