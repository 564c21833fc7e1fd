----------------------------- MODULE RedditFetch -----------------------------
(***************************************************************************)
(* The Reddit half: Client.Fetch walks the pages of the account's saved    *)
(* posts with a cursor, refresh (first page) or backfill (all of them, in  *)
(* a goroutine) then upserts what it got for the user who asked.  The one  *)
(* account is the server's own (its secrets), whoever asks.                *)
(*                                                                         *)
(* The listing belongs to Reddit and changes between the requests.  It is  *)
(* modelled from what backfill's comment expects of it: newest first, and  *)
(* a cursor stands for the place its post has, or had, in that order.      *)
(*                                                                         *)
(* PersistPosts is one step: its transaction locks each row it upserts     *)
(* until it ends, so overlapping ones behave as if one followed the other  *)
(* (or deadlock, and one of them fails).                                   *)
(***************************************************************************)
EXTENDS Naturals, Sequences, FiniteSets

CONSTANTS Workers,    \* goroutines of refresh and backfill
          Users,
          Posts,      \* the names of posts
          NoCursor,   \* the empty After
          NoUser,
          Listing,    \* what is saved at first, oldest first
          PageSize,
          MaxSaves    \* bounds the posts ever saved

ASSUME ListingAssumption ==
  /\ NoCursor \notin Posts /\ NoUser \notin Users
  /\ Listing \in Seq(Posts)
  /\ \A i, j \in 1 .. Len(Listing) : Listing[i] = Listing[j] => i = j
  /\ IsFiniteSet(Posts)
  /\ PageSize \in Nat \ {0} /\ MaxSaves \in Nat

VARIABLES
  saved,    \* the posts in the listing
  at,       \* at[p]: when p was last saved, its place in the listing
  saves,    \* the number of saves so far
  owner,    \* owner[p]: the user_id of p's row of reddit_posts
  pc,       \* pc[w]: "idle", "first" or "loop"
  user,     \* user[w]: on whose behalf w runs
  grabAll,  \* grabAll[w]: the parameter of Fetch
  got,      \* got[w]: savedPosts
  cursor,   \* cursor[w]: lastSeenPost
  seen,     \* seen[w]: the cursors used
  held,     \* ghost: held[w]: the posts that have been in the listing all along
  moved     \* ghost: moved[w]: one of w's cursors has been saved again

listing == <<saved, at, saves>>
vars == <<listing, owner, pc, user, grabAll, got, cursor, seen, held, moved>>

-----------------------------------------------------------------------------
(* The saved posts that come after a cursor, and the page cut from them: it
   names a cursor if more may follow, which Reddit may also do when nothing
   does. *)
Following(c) == {p \in saved : c = NoCursor \/ at[p] < at[c]}

Pages(c) ==
  LET posts == {p \in Following(c) :
                  Cardinality({q \in Following(c) : at[q] > at[p]}) < PageSize}
      last  == {p \in posts : \A q \in posts : at[p] <= at[q]}
  IN  [posts : {posts},
       after : IF posts # Following(c) THEN last
               ELSE IF Cardinality(posts) = PageSize THEN last \cup {NoCursor}
               ELSE {NoCursor}]

Init == /\ saved = {Listing[i] : i \in DOMAIN Listing}
        /\ at = [p \in Posts |-> IF \E i \in DOMAIN Listing : Listing[i] = p
                                   THEN CHOOSE i \in DOMAIN Listing : Listing[i] = p
                                   ELSE 0]
        /\ saves = Len(Listing)
        /\ owner = [p \in Posts |-> NoUser]
        /\ pc = [w \in Workers |-> "idle"]
        /\ user = [w \in Workers |-> NoUser]
        /\ grabAll = [w \in Workers |-> FALSE]
        /\ got = [w \in Workers |-> {}]
        /\ cursor = [w \in Workers |-> NoCursor]
        /\ seen = [w \in Workers |-> {}]
        /\ held = [w \in Workers |-> {}]
        /\ moved = [w \in Workers |-> FALSE]

(* refresh or backfill calls Fetch, which asks for a token first. *)
Fetch(w) ==
  /\ pc[w] = "idle"
  /\ \E u \in Users : user' = [user EXCEPT ![w] = u]
  /\ \E all \in BOOLEAN : grabAll' = [grabAll EXCEPT ![w] = all]
  /\ pc' = [pc EXCEPT ![w] = "first"]
  /\ held' = [held EXCEPT ![w] = saved]
  /\ UNCHANGED <<listing, owner, got, cursor, seen, moved>>

(* The answer to getSavedPosts(c) is appended and its After kept. *)
TakePage(w, c) ==
  \E page \in Pages(c) : /\ got' = [got EXCEPT ![w] = @ \cup page.posts]
                         /\ cursor' = [cursor EXCEPT ![w] = page.after]

FirstPage(w) ==
  /\ pc[w] = "first"
  /\ TakePage(w, NoCursor)
  /\ pc' = [pc EXCEPT ![w] = "loop"]
  /\ UNCHANGED <<listing, owner, user, grabAll, seen, held, moved>>

(* The condition of the loop: grabAll && !seen[lastSeenPost]. *)
More(w) == pc[w] = "loop" /\ grabAll[w] /\ cursor[w] \notin seen[w]

LoopDone(w) == pc[w] = "loop" /\ ~More(w)

Mut_SeenForgotten(w) ==
  /\ More(w)
  /\ TakePage(w, cursor[w])
  /\ UNCHANGED <<listing, owner, pc, user, grabAll, seen, held, moved>>

Mut_PageDropped(w) ==
  /\ More(w)
  /\ seen' = [seen EXCEPT ![w] = @ \cup {cursor[w]}]
  /\ \E page \in Pages(cursor[w]) :
       /\ got' = [got EXCEPT ![w] = IF page.after = NoCursor THEN @ ELSE @ \cup page.posts]
       /\ cursor' = [cursor EXCEPT ![w] = page.after]
  /\ UNCHANGED <<listing, owner, pc, user, grabAll, held, moved>>

NextPage(w) ==
  /\ More(w)
  /\ seen' = [seen EXCEPT ![w] = @ \cup {cursor[w]}]
  /\ TakePage(w, cursor[w])
  /\ UNCHANGED <<listing, owner, pc, user, grabAll, held, moved>>

Mut_SeenShared(w) ==
  /\ pc' = [pc EXCEPT ![w] = "idle"]
  /\ user' = [user EXCEPT ![w] = NoUser]
  /\ grabAll' = [grabAll EXCEPT ![w] = FALSE]
  /\ got' = [got EXCEPT ![w] = {}]
  /\ cursor' = [cursor EXCEPT ![w] = NoCursor]
  /\ held' = [held EXCEPT ![w] = {}]
  /\ moved' = [moved EXCEPT ![w] = FALSE]
  /\ UNCHANGED seen

(* Fetch and its caller return, and their variables with them. *)
Done(w) == /\ pc' = [pc EXCEPT ![w] = "idle"]
           /\ user' = [user EXCEPT ![w] = NoUser]
           /\ grabAll' = [grabAll EXCEPT ![w] = FALSE]
           /\ got' = [got EXCEPT ![w] = {}]
           /\ cursor' = [cursor EXCEPT ![w] = NoCursor]
           /\ seen' = [seen EXCEPT ![w] = {}]
           /\ held' = [held EXCEPT ![w] = {}]
           /\ moved' = [moved EXCEPT ![w] = FALSE]

Mut_TakesOver(w) ==
  [p \in Posts |-> IF p \in got[w] THEN user[w] ELSE owner[p]]

(* The upsert on the post's name: it updates everything but the user. *)
Upserted(w) ==
  [p \in Posts |-> IF p \in got[w] /\ owner[p] = NoUser THEN user[w] ELSE owner[p]]

PersistPosts(w) ==
  /\ LoopDone(w)
  /\ owner' = Upserted(w)
  /\ Done(w)
  /\ UNCHANGED listing

(* A request fails, or the hour of backfill's context is over; or the store
   fails, when the answer to its COMMIT may be all that was lost. *)
FetchFails(w) ==
  /\ pc[w] # "idle"
  /\ owner' \in IF LoopDone(w) THEN {owner, Upserted(w)} ELSE {owner}
  /\ Done(w)
  /\ UNCHANGED listing

(* The server dies. *)
Crash ==
  /\ \E w \in Workers : pc[w] # "idle"
  /\ pc' = [w \in Workers |-> "idle"]
  /\ user' = [w \in Workers |-> NoUser]
  /\ grabAll' = [w \in Workers |-> FALSE]
  /\ got' = [w \in Workers |-> {}]
  /\ cursor' = [w \in Workers |-> NoCursor]
  /\ seen' = [w \in Workers |-> {}]
  /\ held' = [w \in Workers |-> {}]
  /\ moved' = [w \in Workers |-> FALSE]
  /\ UNCHANGED <<listing, owner>>

(* The account's owner saves a post, again perhaps, or removes one. *)
SavePost(p) ==
  /\ p \notin saved /\ saves < MaxSaves
  /\ saved' = saved \cup {p}
  /\ saves' = saves + 1
  /\ at' = [at EXCEPT ![p] = saves + 1]
  /\ moved' = [w \in Workers |-> moved[w] \/ p \in seen[w] \cup {cursor[w]}]
  /\ UNCHANGED <<owner, pc, user, grabAll, got, cursor, seen, held>>

UnsavePost(p) ==
  /\ p \in saved
  /\ saved' = saved \ {p}
  /\ held' = [w \in Workers |-> held[w] \ {p}]
  /\ UNCHANGED <<at, saves, owner, pc, user, grabAll, got, cursor, seen, moved>>

Next == \/ \E w \in Workers : \/ Fetch(w) \/ FirstPage(w) \/ NextPage(w)
                              \/ PersistPosts(w) \/ FetchFails(w)
        \/ \E p \in Posts : SavePost(p) \/ UnsavePost(p)
        \/ Crash

Spec == Init /\ [][Next]_vars

(* Requests have an answer or a timeout, so a goroutine goes on. *)
Fairness == \A w \in Workers : WF_vars(FirstPage(w) \/ NextPage(w) \/ PersistPosts(w))

FairSpec == Spec /\ Fairness

-----------------------------------------------------------------------------
(* Types, and a worker that is not running has kept nothing of the last run. *)
TypeOK ==
  /\ saved \subseteq Posts /\ at \in [Posts -> 0 .. saves] /\ saves \in Nat
  /\ owner \in [Posts -> Users \cup {NoUser}]
  /\ pc \in [Workers -> {"idle", "first", "loop"}]
  /\ user \in [Workers -> Users \cup {NoUser}]
  /\ grabAll \in [Workers -> BOOLEAN]
  /\ got \in [Workers -> SUBSET Posts]
  /\ cursor \in [Workers -> Posts \cup {NoCursor}]
  /\ seen \in [Workers -> SUBSET (Posts \cup {NoCursor})]
  /\ held \in [Workers -> SUBSET Posts]
  /\ moved \in [Workers -> BOOLEAN]
  /\ \A w \in Workers : pc[w] = "idle" => got[w] = {} /\ seen[w] = {}

(* A backfill misses no post that stayed saved while it ran, whatever else
   was saved or removed between its pages, unless the post of one of its
   cursors was saved again, which sends it to another place in the listing. *)
FetchComplete ==
  \A w \in Workers : LoopDone(w) /\ grabAll[w] /\ ~moved[w] => held[w] \subseteq got[w]

(* Fetch ends, although the cursor after the last page asks for the first
   page once more and the listing may have grown. *)
FetchEnds == \A w \in Workers : pc[w] # "idle" ~> pc[w] = "idle"

(* What one user has is never taken over by another who refreshes after. *)
OwnersKept ==
  [][\A p \in Posts : owner[p] # NoUser => owner'[p] = owner[p]]_vars
=============================================================================
