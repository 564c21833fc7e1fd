--------------------------- MODULE SpotifyIngest ---------------------------
(***************************************************************************)
(* How plays get from Spotify into the two stores and into the message     *)
(* that announces them, for one user: the handlers refresh (POST           *)
(* /v1/spotify/refresh, meant to be called hourly) and backfill, with the  *)
(* goroutine it leaves behind, any number of them at the same time.        *)
(*                                                                         *)
(* PersistRecentlyPlayed is one step here: that it stores its whole batch  *)
(* or nothing, and that StoreV1 returns just the plays that were new, is   *)
(* AllOrNothing of SpotifyStore.  A play is named by the time it was       *)
(* played at, its key.  That StoreV1 refuses a batch with a play that has  *)
(* no artist is one of the failures of refresh.                            *)
(***************************************************************************)
EXTENDS Integers, FiniteSets

CONSTANTS Refreshers,  \* goroutines that run refresh
          Backfills,   \* goroutines started by backfill
          Window,      \* the hour that refresh looks back
          Limit,       \* the limit of plays per request
          MaxTime      \* bounds the clock

ASSUME IngestAssumption ==
  /\ Window \in Nat /\ Limit \in Nat \ {0} /\ MaxTime \in Nat
  /\ Refreshers \cap Backfills = {}

VARIABLES
  now,        \* the time
  plays,      \* what the user has played so far
  v1, v2,     \* the user's rows of spotify_songs and spotify_played_tracks
  pc,         \* pc[p]: where goroutine p is
  after,      \* after[p]: the parameter after of its requests (start of backfill)
  end,        \* end[b]: the parameter end of backfill
  items,      \* items[p]: the plays the API returned
  persisted,  \* persisted[r]: the plays StoreV1 returned
  announced,  \* the sum of num_persisted over the published messages
  told,       \* ghost: the plays those messages count
  asked,      \* ghost: asked[r]: when r's list was fetched, 0 if it was cut off
  covered,    \* ghost: the span that successful refreshes have covered
  from        \* ghost: from[b]: since when the lists of backfill b skip nothing

vars == <<now, plays, v1, v2, pc, after, end, items, persisted, announced, told,
          asked, covered, from>>

Processes == Refreshers \cup Backfills

-----------------------------------------------------------------------------
Newest(n, S) == {t \in S : Cardinality({u \in S : u > t}) < n}
Oldest(n, S) == {t \in S : Cardinality({u \in S : u < t}) < n}

(* The API: the plays after a time, newest first; when there are more than
   Limit it returns one end of them. *)
RecentlyPlayed(a) ==
  LET all == {t \in plays : t > a}
  IN  {Newest(Limit, all), Oldest(Limit, all)}

(* items[len(items)-1].PlayedAt *)
LastItem(S) == CHOOSE t \in S : \A u \in S : t <= u

Goto(p, label) == pc' = [pc EXCEPT ![p] = label]

Init == /\ now = 0
        /\ plays = {} /\ v1 = {} /\ v2 = {}
        /\ pc = [p \in Processes |-> "idle"]
        /\ after = [p \in Processes |-> 0]
        /\ end = [b \in Backfills |-> 0]
        /\ items = [p \in Processes |-> {}]
        /\ persisted = [r \in Refreshers |-> {}]
        /\ announced = 0 /\ told = {}
        /\ asked = [r \in Refreshers |-> 0]
        /\ covered = [lo |-> 0, hi |-> 0]
        /\ from = [b \in Backfills |-> 0]

(* The handler or goroutine returns. *)
Done(p) == /\ Goto(p, "idle")
           /\ after' = [after EXCEPT ![p] = 0]
           /\ items' = [items EXCEPT ![p] = {}]

-----------------------------------------------------------------------------
(* refresh *)

Mut_WindowAhead(r) ==
  /\ pc[r] = "idle"
  /\ after' = [after EXCEPT ![r] = now + Window]
  /\ Goto(r, "fetch")
  /\ UNCHANGED <<now, plays, from, v1, v2, end, items, persisted, announced, told,
                 asked, covered>>

(* The token is there; the window starts an hour ago. *)
Refresh(r) ==
  /\ pc[r] = "idle"
  /\ after' = [after EXCEPT ![r] = now - Window]
  /\ Goto(r, "fetch")
  /\ UNCHANGED <<now, plays, from, v1, v2, end, items, persisted, announced, told,
                 asked, covered>>

Fetch(r) ==
  /\ pc[r] = "fetch"
  /\ \E list \in RecentlyPlayed(after[r]) :
       /\ items' = [items EXCEPT ![r] = list]
       /\ asked' = [asked EXCEPT ![r] = IF {t \in plays : t > after[r]} \subseteq list
                                      THEN now ELSE 0]
       /\ Goto(r, IF list = {} THEN "publish" ELSE "storeV1")
  /\ UNCHANGED <<now, plays, from, v1, v2, after, end, persisted, announced, told, covered>>

Mut_CountItems(r) ==
  /\ pc[r] = "storeV1"
  /\ persisted' = [persisted EXCEPT ![r] = items[r]]
  /\ v1' = v1 \cup items[r]
  /\ Goto(r, "storeV2")
  /\ UNCHANGED <<now, plays, from, v2, after, end, items, announced, told, asked, covered>>

Mut_AnnounceFirst(r) ==
  /\ pc[r] = "storeV1"
  /\ v1' = v1 \cup items[r]
  /\ announced' = announced + Cardinality(items[r] \ v1)
  /\ told' = told \cup (items[r] \ v1)
  /\ Goto(r, "storeV2")
  /\ UNCHANGED <<now, plays, from, v2, after, end, items, persisted, asked, covered>>

StoreV1(r) ==
  /\ pc[r] = "storeV1"
  /\ persisted' = [persisted EXCEPT ![r] = items[r] \ v1]
  /\ v1' = v1 \cup items[r]
  /\ Goto(r, "storeV2")
  /\ UNCHANGED <<now, plays, from, v2, after, end, items, announced, told, asked, covered>>

StoreV2(r) ==
  /\ pc[r] = "storeV2"
  /\ v2' = v2 \cup items[r]
  /\ Goto(r, "publish")
  /\ UNCHANGED <<now, plays, from, v1, after, end, items, persisted, announced, told,
                 asked, covered>>

Mut_V2ErrorIgnored(r) ==
  /\ pc[r] = "storeV2"
  /\ Goto(r, "publish")
  /\ UNCHANGED <<now, plays, from, v1, v2, after, end, items, persisted, announced,
                 told, asked, covered>>

(* 500: the request failed, or a store did; a store whose COMMIT lost its
   acknowledgement has its rows all the same.  (A panic in StoreV2 ends here
   too: gin.Recovery answers 500.) *)
RefreshFails(r) ==
  /\ pc[r] \in {"fetch", "storeV1", "storeV2"}
  /\ v1' \in IF pc[r] = "storeV1" THEN {v1, v1 \cup items[r]} ELSE {v1}
  /\ v2' \in IF pc[r] = "storeV2" THEN {v2, v2 \cup items[r]} ELSE {v2}
  /\ Done(r)
  /\ persisted' = [persisted EXCEPT ![r] = {}]
  /\ asked' = [asked EXCEPT ![r] = 0]
  /\ UNCHANGED <<now, plays, from, end, announced, told, covered>>

(* The span a successful refresh adds to what is covered. *)
Cover(r) ==
  IF asked[r] = 0 THEN covered
  ELSE IF after[r] > covered.hi THEN [lo |-> after[r], hi |-> asked[r]]
  ELSE IF asked[r] > covered.hi THEN [lo |-> covered.lo, hi |-> asked[r]]
  ELSE covered

(* Publish num_persisted; its error is only logged.  200 either way. *)
Publish(r) ==
  /\ pc[r] = "publish"
  /\ \/ /\ announced' = announced + Cardinality(persisted[r])
        /\ told' = told \cup persisted[r]
     \/ UNCHANGED <<announced, told>>
  /\ covered' = Cover(r)
  /\ Done(r)
  /\ persisted' = [persisted EXCEPT ![r] = {}]
  /\ asked' = [asked EXCEPT ![r] = 0]
  /\ UNCHANGED <<now, plays, from, v1, v2, end>>

-----------------------------------------------------------------------------
(* backfill *)

(* 202: the goroutine has start and end, two dates, and a token. *)
Backfill(b) ==
  /\ pc[b] = "idle"
  /\ \E s, e \in 0 .. MaxTime : /\ after' = [after EXCEPT ![b] = s]
                                /\ from' = [from EXCEPT ![b] = s]
                                /\ end' = [end EXCEPT ![b] = e]
  /\ Goto(b, "loop")
  /\ UNCHANGED <<now, plays, v1, v2, items, persisted, announced, told, asked, covered>>

(* start.After(end) *)
HitEnd(b) ==
  /\ pc[b] = "loop" /\ after[b] > end[b]
  /\ Done(b)
  /\ UNCHANGED <<now, plays, from, v1, v2, end, persisted, announced, told, asked, covered>>

Mut_AskInSeconds(b) ==
  /\ pc[b] = "loop" /\ after[b] <= end[b]
  /\ \E list \in RecentlyPlayed(after[b] - 1) :
       IF list = {}
         THEN Done(b)
         ELSE /\ items' = [items EXCEPT ![b] = list]
              /\ Goto(b, "store")
              /\ UNCHANGED after
  /\ UNCHANGED <<now, plays, from, v1, v2, end, persisted, announced, told, asked, covered>>

(* The list leaves out plays between a and its last item. *)
Skips(list, a) == \E t \in plays \ list : a < t /\ t < LastItem(list)

(* The next list, or the end of the backfill if it is empty. *)
FetchMore(b) ==
  /\ pc[b] = "loop" /\ after[b] <= end[b]
  /\ \E list \in RecentlyPlayed(after[b]) :
       IF list = {}
         THEN Done(b) /\ UNCHANGED from
         ELSE /\ items' = [items EXCEPT ![b] = list]
              /\ Goto(b, "store")
              /\ from' = [from EXCEPT ![b] = IF Skips(list, after[b])
                                              THEN LastItem(list) - 1 ELSE @]
              /\ UNCHANGED after
  /\ UNCHANGED <<now, plays, v1, v2, end, persisted, announced, told, asked, covered>>

Mut_StartKept(b) ==
  /\ pc[b] = "store"
  /\ v2' = v2 \cup items[b]
  /\ Goto(b, "loop")
  /\ UNCHANGED <<now, plays, from, v1, after, end, items, persisted, announced, told,
                 asked, covered>>

(* Store the list and go on after its last item. *)
StoreMore(b) ==
  /\ pc[b] = "store"
  /\ v2' = v2 \cup items[b]
  /\ after' = [after EXCEPT ![b] = LastItem(items[b])]
  /\ Goto(b, "loop")
  /\ UNCHANGED <<now, plays, from, v1, end, items, persisted, announced, told, asked, covered>>

Mut_StoreErrorIgnored(b) ==
  /\ pc[b] = "store"
  /\ after' = [after EXCEPT ![b] = LastItem(items[b])]
  /\ Goto(b, "loop")
  /\ UNCHANGED <<now, plays, from, v1, v2, end, items, persisted, announced, told,
                 asked, covered>>

(* An error ends the goroutine: the token expired, the hour of its context is
   over, the request or the store failed. *)
BackfillFails(b) ==
  /\ pc[b] \in {"loop", "store"}
  /\ v2' \in IF pc[b] = "store" THEN {v2, v2 \cup items[b]} ELSE {v2}
  /\ Done(b)
  /\ UNCHANGED <<now, plays, from, v1, end, persisted, announced, told, asked, covered>>

-----------------------------------------------------------------------------
(* The server dies: by itself, or because StoreV2 panics in the goroutine of
   a backfill, where nothing recovers it. *)
Crash ==
  /\ \E p \in Processes : pc[p] # "idle"
  /\ pc' = [p \in Processes |-> "idle"]
  /\ after' = [p \in Processes |-> 0]
  /\ items' = [p \in Processes |-> {}]
  /\ persisted' = [r \in Refreshers |-> {}]
  /\ asked' = [r \in Refreshers |-> 0]
  /\ UNCHANGED <<now, plays, from, v1, v2, end, announced, told, covered>>

(* Time passes, and the user may have played something. *)
Tick ==
  /\ now < MaxTime
  /\ now' = now + 1
  /\ plays' \in {plays, plays \cup {now + 1}}
  /\ UNCHANGED <<v1, v2, pc, after, end, items, persisted, announced, told,
                 asked, covered, from>>

Next == \/ \E r \in Refreshers :
             \/ Refresh(r) \/ Fetch(r) \/ StoreV1(r) \/ StoreV2(r)
             \/ RefreshFails(r) \/ Publish(r)
        \/ \E b \in Backfills :
             \/ Backfill(b) \/ HitEnd(b) \/ FetchMore(b) \/ StoreMore(b)
             \/ BackfillFails(b)
        \/ Crash \/ Tick

Spec == Init /\ [][Next]_vars

(* A goroutine that can go on does.  Nothing makes time pass. *)
Fairness == \A b \in Backfills : WF_vars(HitEnd(b) \/ FetchMore(b) \/ StoreMore(b))

FairSpec == Spec /\ Fairness

-----------------------------------------------------------------------------
(* Types, and no request of refresh looks ahead of the clock. *)
TypeOK ==
  /\ now \in Nat
  /\ plays \subseteq 1 .. now /\ v1 \subseteq plays /\ v2 \subseteq plays
  /\ pc \in [Processes -> {"idle", "fetch", "storeV1", "storeV2", "publish",
                           "loop", "store"}]
  /\ after \in [Processes -> Int] /\ \A r \in Refreshers : after[r] <= now
  /\ end \in [Backfills -> Nat]
  /\ items \in [Processes -> SUBSET plays]
  /\ persisted \in [Refreshers -> SUBSET plays]
  /\ announced \in Nat /\ told \subseteq plays
  /\ asked \in [Refreshers -> 0 .. now]
  /\ covered \in [lo : Int, hi : 0 .. now]
  /\ from \in [Backfills -> Int]

(* The messages never count a play twice, however refreshes overlap, fail
   half-way and are repeated over the same hour. *)
AnnouncedOnce == announced = Cardinality(told)

(* A play that was announced can be read back: getSongs reads StoreV2, while
   the count comes from StoreV1. *)
AnnouncedServed == told \subseteq v2

(* Successful refreshes that follow each other closely enough, each asking no
   later than an hour after the one before got its list, and whose lists were
   not cut off at the limit, leave no play of the whole span out of either
   store, even when failed ones came in between. *)
SuccessCovers ==
  \A t \in plays : covered.lo < t /\ t <= covered.hi => t \in v1 \cap v2

(* Each round of a backfill starts strictly later than the one before. *)
BackfillProgress ==
  [][\A b \in Backfills : pc[b] = "store" /\ pc'[b] = "loop"
                            => after'[b] > after[b]]_vars

(* A backfill ends. *)
BackfillEnds == \A b \in Backfills : pc[b] # "idle" ~> pc[b] = "idle"

(* A backfill that was not ended by an error has stored every play from its
   start to its end, or to the last play there was, and since the last list
   that the API cut off at the newest plays: although each round goes on after
   the oldest play of the round before, and whatever is played meanwhile. *)
BackfillComplete ==
  [][\A b \in Backfills : (HitEnd(b) \/ FetchMore(b)) /\ pc'[b] = "idle"
       => \A t \in plays : from[b] < t /\ t <= end[b] => t \in v2]_vars
=============================================================================
