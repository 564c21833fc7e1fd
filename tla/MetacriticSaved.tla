--------------------------- MODULE MetacriticSaved ---------------------------
(***************************************************************************)
(* The posts of Metacritic as users see them: GET /posts reads what the    *)
(* refreshes of MetacriticRefresh stored, and PATCH /posts saves some of   *)
(* them for the user, in saved_metacritic_posts.  That table references    *)
(* the posts but has no key of its own, so its ON CONFLICT DO NOTHING      *)
(* never finds a conflict.                                                 *)
(***************************************************************************)
EXTENDS MetacriticRefresh

CONSTANTS Users,
          Year,      \* Year[t]: the year title t was released
          MaxSaves   \* bounds the titles in requests to save

ASSUME SavedAssumption == Year \in [Titles -> Nat] /\ MaxSaves \in Nat

VARIABLES
  saved,    \* saved[u][t]: the rows of saved_metacritic_posts for u and t
  asked,    \* ghost: how many titles the requests listed, all together
  created   \* ghost: what was answered with 201, as pairs of user and title

svars == <<saved, asked, created>>

SInit == /\ Init
         /\ saved = [u \in Users |-> [t \in Titles |-> 0]]
         /\ asked = 0
         /\ created = {}

-----------------------------------------------------------------------------
IsValid(m, min, max) ==
  /\ m \in {MediumOf[j] : j \in 1 .. Jobs}
  /\ 1900 <= min /\ min <= max

(* GetPosts: the posts of a medium, released in the years from min to max. *)
GetPosts(m, min, max) ==
  {t \in Titles : table[t] = m /\ min <= Year[t] /\ Year[t] <= max}

(* GetSavedPostsForUser joins the two tables. *)
GetSaved(u) == {<<t, table[t]>> : t \in {s \in Titles : table[s] # NoMedium
                                                          /\ saved[u][s] > 0}}

(* How often the list ids has t. *)
Occurs(t, ids) == Cardinality({i \in DOMAIN ids : ids[i] = t})

More(u, ids) == [saved EXCEPT ![u] = [t \in Titles |-> @[t] + Occurs(t, ids)]]

Mut_UnknownSkipped(u, ids) ==
  /\ saved' = More(u, SelectSeq(ids, LAMBDA t : table[t] # NoMedium))
  /\ created' = created \cup {<<u, ids[i]>> : i \in DOMAIN ids}

(* SavePostsForUser inserts them in one transaction, if there is a row for
   each, and answers 201 unless the acknowledgement of COMMIT is lost. *)
SaveAll(u, ids) ==
  /\ \A i \in DOMAIN ids : table[ids[i]] # NoMedium
  /\ saved' = More(u, ids)
  /\ created' \in {created, created \cup {<<u, ids[i]>> : i \in DOMAIN ids}}

(* savePosts, maybe of a request sent before, whose posts are then saved once
   more: 201, or 500 with or without the rows. *)
SavePosts(u) ==
  /\ \E n \in 1 .. MaxSaves : \E ids \in [1 .. n -> Titles] :
       /\ asked + n <= MaxSaves
       /\ asked' = asked + n
       /\ SaveAll(u, ids) \/ UNCHANGED <<saved, created>>
  /\ UNCHANGED vars

SNext == (Next /\ UNCHANGED svars) \/ \E u \in Users : SavePosts(u)

SSpec     == SInit /\ [][SNext]_<<vars, svars>>
SFairSpec == SSpec /\ Fairness

-----------------------------------------------------------------------------
(* What was answered with 201 is read back, under the medium that getPosts
   lists it for, whatever refreshes do meanwhile, with later pages or lost
   transactions. *)
SavedReadBack ==
  \A c \in created : \E m \in {MediumOf[j] : j \in 1 .. Jobs} :
     /\ <<c[2], m>> \in GetSaved(c[1])
     /\ \A min, max \in {Year[t] : t \in Titles} :
          IsValid(m, min, max) /\ min <= Year[c[2]] /\ Year[c[2]] <= max
            => c[2] \in GetPosts(m, min, max)
=============================================================================
