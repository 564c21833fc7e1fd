------------------------- MODULE SpotifyIngestProofs -------------------------
(***************************************************************************)
(* Theorems about SpotifyIngest, for any number of overlapping refreshes   *)
(* and backfills, every window, limit and length of time.                  *)
(***************************************************************************)
EXTENDS SpotifyIngest, FiniteSetTheorems, WellFoundedInduction, TLAPS

USE IngestAssumption

(* A finite set of times has an oldest one. *)
LEMMA OldestExists ==
  ASSUME NEW S, S \subseteq Int, IsFiniteSet(S), S # {}
  PROVE  \E t \in S : \A u \in S : t <= u
<1> DEFINE Below(t) == {u \in S : u < t}
           T == {Below(t) : t \in S}
<1>1. IsWellFoundedOn(StrictSubsetOrdering(S), SUBSET S)
  BY FS_StrictSubsetOrderingWellFounded, FS_FiniteSubsetsOfFinite
<1>2. T \subseteq SUBSET S /\ T # {}
  OBVIOUS
<1>3. PICK X \in T : \A Y \in T : ~ (<<Y, X>> \in StrictSubsetOrdering(S))
  <2> HIDE DEF T
  <2> QED BY <1>1, <1>2, WFMin
<1>4. PICK t \in S : X = Below(t)
  BY <1>3
<1>5. ASSUME NEW u \in S, u < t PROVE FALSE
  <2>1. u \in Int /\ t \in Int
    OBVIOUS
  <2>2. ASSUME NEW w \in Below(u) PROVE w \in X
    <3>1. w \in S /\ w \in Int /\ w < u
      OBVIOUS
    <3>2. w < t
      BY <1>5, <2>1, <3>1
    <3> QED BY <1>4, <3>1, <3>2
  <2>3. u \in X /\ u \notin Below(u)
    BY <1>4, <1>5, <2>1
  <2>4. <<Below(u), X>> \in StrictSubsetOrdering(S)
    BY <2>2, <2>3, <1>4 DEF StrictSubsetOrdering
  <2> QED BY <2>4, <1>3
<1> QED BY <1>5

(* And a newest one. *)
LEMMA NewestExists ==
  ASSUME NEW S, S \subseteq Int, IsFiniteSet(S), S # {}
  PROVE  \E t \in S : \A u \in S : u <= t
<1> DEFINE Above(t) == {u \in S : u > t}
           T == {Above(t) : t \in S}
<1>1. IsWellFoundedOn(StrictSubsetOrdering(S), SUBSET S)
  BY FS_StrictSubsetOrderingWellFounded, FS_FiniteSubsetsOfFinite
<1>2. T \subseteq SUBSET S /\ T # {}
  OBVIOUS
<1>3. PICK X \in T : \A Y \in T : ~ (<<Y, X>> \in StrictSubsetOrdering(S))
  <2> HIDE DEF T
  <2> QED BY <1>1, <1>2, WFMin
<1>4. PICK t \in S : X = Above(t)
  BY <1>3
<1>5. ASSUME NEW u \in S, u > t PROVE FALSE
  <2>1. u \in Int /\ t \in Int
    OBVIOUS
  <2>2. ASSUME NEW w \in Above(u) PROVE w \in X
    <3>1. w \in S /\ w \in Int /\ w > u
      OBVIOUS
    <3>2. w > t
      BY <1>5, <2>1, <3>1
    <3> QED BY <1>4, <3>1, <3>2
  <2>3. u \in X /\ u \notin Above(u)
    BY <1>4, <1>5, <2>1
  <2>4. <<Above(u), X>> \in StrictSubsetOrdering(S)
    BY <2>2, <2>3, <1>4 DEF StrictSubsetOrdering
  <2> QED BY <2>4, <1>3
<1> QED BY <1>5

(* What a refresh is about to announce is in v1 and was announced by no one;
   when it publishes, all its plays are in both stores; and a list that was
   not cut off has every play from its window to the time it was fetched. *)
RefreshInv(r) ==
  /\ pc[r] \in {"idle", "fetch", "storeV1"} => persisted[r] = {}
  /\ persisted[r] \subseteq v1 \ told /\ persisted[r] \subseteq items[r]
  /\ pc[r] = "storeV2" => items[r] \subseteq v1
  /\ pc[r] = "publish" => items[r] \subseteq v1 \cap v2
  /\ asked[r] # 0 => /\ pc[r] \in {"storeV1", "storeV2", "publish"}
                     /\ \A t \in plays : after[r] < t /\ t <= asked[r] => t \in items[r]

(* The list that a backfill stores is never empty. *)
Listing == \A b \in Backfills : pc[b] = "store" => items[b] # {}

Disjoint == \A r, q \in Refreshers : r # q => persisted[r] \cap persisted[q] = {}

IngestInv == /\ TypeOK /\ AnnouncedOnce /\ AnnouncedServed /\ SuccessCovers
             /\ Listing /\ told \subseteq v1
             /\ \A r \in Refreshers : RefreshInv(r)
             /\ Disjoint

LEMMA InitInv == Init => IngestInv
<1> SUFFICES ASSUME Init PROVE IngestInv
  OBVIOUS
<1>1. TypeOK
  BY DEF Init, TypeOK, Processes
<1>2. AnnouncedOnce
  BY FS_EmptySet DEF Init, AnnouncedOnce
<1> QED BY <1>1, <1>2 DEF Init, IngestInv, AnnouncedServed, SuccessCovers,
           RefreshInv, Disjoint, Processes, Listing

(* What every action but Publish leaves alone. *)
LEMMA Unannounced ==
  ASSUME IngestInv, TypeOK', UNCHANGED <<announced, told, covered>>,
         now \in Nat, plays' \cap 0 .. now = plays,
         v1 \subseteq v1', v2 \subseteq v2'
  PROVE  (AnnouncedOnce /\ AnnouncedServed /\ SuccessCovers /\ told \subseteq v1)'
<1>1. \A t \in plays' : t <= covered.hi => t \in plays
  BY DEF IngestInv, TypeOK
<1> QED BY <1>1 DEF IngestInv, AnnouncedOnce, AnnouncedServed, SuccessCovers

(* The plays are finitely many. *)
LEMMA PlaysFinite == TypeOK => plays \subseteq Int /\ IsFiniteSet(plays)
<1> SUFFICES ASSUME TypeOK PROVE plays \subseteq Int /\ IsFiniteSet(plays)
  OBVIOUS
<1>1. now \in Int /\ plays \subseteq 1 .. now
  BY DEF TypeOK
<1>2. IsFiniteSet(1 .. now)
  BY <1>1, FS_Interval
<1>3. IsFiniteSet(plays)
  BY <1>1, <1>2, FS_Subset
<1>4. plays \subseteq Int
  BY <1>1
<1> QED BY <1>3, <1>4

(* A list of the API is some of the plays after a time, and is empty only if
   there are none. *)
LEMMA ListsPlays ==
  ASSUME TypeOK, NEW a \in Int, NEW list \in RecentlyPlayed(a)
  PROVE  /\ list \subseteq {t \in plays : t > a}
         /\ list = {} => {t \in plays : t > a} = {}
<1> DEFINE all == {t \in plays : t > a}
<1>1. list \subseteq all
  BY DEF RecentlyPlayed, Newest, Oldest
<1>2. ASSUME all # {} PROVE list # {}
  <2>1. all \subseteq Int /\ IsFiniteSet(all)
    BY PlaysFinite, FS_Subset
  <2>2. PICK n \in all : \A u \in all : u <= n
    BY <1>2, <2>1, NewestExists
  <2>3. PICK o \in all : \A u \in all : o <= u
    BY <1>2, <2>1, OldestExists
  <2>4. {u \in all : u > n} = {} /\ {u \in all : u < o} = {}
    BY <2>1, <2>2, <2>3
  <2> HIDE DEF all
  <2>5. n \in Newest(Limit, all) /\ o \in Oldest(Limit, all)
    BY <2>2, <2>3, <2>4, FS_EmptySet DEF Newest, Oldest
  <2> QED BY <2>5 DEF RecentlyPlayed, all
<1> QED BY <1>1, <1>2

(* The last item of a list is its oldest. *)
LEMMA LastIsOldest ==
  ASSUME TypeOK, NEW list \in SUBSET plays, list # {}
  PROVE  LastItem(list) \in list /\ \A u \in list : LastItem(list) <= u
<1>1. list \subseteq Int /\ IsFiniteSet(list)
  BY PlaysFinite, FS_Subset
<1>2. \E t \in list : \A u \in list : t <= u
  BY <1>1, OldestExists
<1> QED BY <1>2 DEF LastItem

LEMMA TypeStep == TypeOK /\ Listing /\ [Next]_vars => TypeOK'
<1> SUFFICES ASSUME TypeOK, Listing, [Next]_vars PROVE TypeOK'
  OBVIOUS
<1> USE DEF TypeOK, Processes
<1>1. ASSUME NEW r \in Refreshers, Refresh(r) PROVE TypeOK'
  BY <1>1 DEF Refresh, Goto
<1>2. ASSUME NEW r \in Refreshers, Fetch(r) PROVE TypeOK'
  <2>1. PICK list \in RecentlyPlayed(after[r]) :
          /\ items' = [items EXCEPT ![r] = list]
          /\ asked' = [asked EXCEPT ![r] = IF {t \in plays : t > after[r]} \subseteq list
                                             THEN now ELSE 0]
          /\ Goto(r, IF list = {} THEN "publish" ELSE "storeV1")
    BY <1>2 DEF Fetch
  <2>2. list \subseteq plays
    <3> HIDE DEF TypeOK
    <3>1. after[r] \in Int
      BY DEF TypeOK
    <3> QED BY <3>1, ListsPlays
  <2> QED BY <1>2, <2>1, <2>2 DEF Fetch, Goto
<1>3. ASSUME NEW r \in Refreshers, StoreV1(r) PROVE TypeOK'
  BY <1>3 DEF StoreV1, Goto
<1>4. ASSUME NEW r \in Refreshers, StoreV2(r) PROVE TypeOK'
  BY <1>4 DEF StoreV2, Goto
<1>5. ASSUME NEW r \in Refreshers, RefreshFails(r) PROVE TypeOK'
  BY <1>5 DEF RefreshFails, Done, Goto
<1>6. ASSUME NEW r \in Refreshers, Publish(r) PROVE TypeOK'
  <2>1. Cardinality(persisted[r]) \in Nat
    <3> HIDE DEF TypeOK
    <3>1. persisted[r] \subseteq plays
      BY DEF TypeOK
    <3> QED BY <3>1, PlaysFinite, FS_Subset, FS_CardinalityType
  <2>2. Cover(r) \in [lo : Int, hi : 0 .. now]
    BY DEF Cover
  <2>3. announced' \in Nat /\ told' \subseteq plays'
    <3>1. /\ announced' \in {announced, announced + Cardinality(persisted[r])}
          /\ told' \in {told, told \cup persisted[r]} /\ plays' = plays
      BY <1>6 DEF Publish
    <3> QED BY <2>1, <3>1
  <2>4. covered' \in [lo : Int, hi : 0 .. now]
    BY <1>6, <2>2 DEF Publish
  <2>5. /\ UNCHANGED <<now, plays, from, v1, v2, end>>
        /\ pc' = [pc EXCEPT ![r] = "idle"] /\ after' = [after EXCEPT ![r] = 0]
        /\ items' = [items EXCEPT ![r] = {}]
        /\ persisted' = [persisted EXCEPT ![r] = {}]
        /\ asked' = [asked EXCEPT ![r] = 0]
    BY <1>6 DEF Publish, Done, Goto
  <2> QED BY <2>3, <2>4, <2>5
<1>7. ASSUME NEW b \in Backfills, Backfill(b) PROVE TypeOK'
  BY <1>7 DEF Backfill, Goto
<1>8. ASSUME NEW b \in Backfills, HitEnd(b) PROVE TypeOK'
  BY <1>8 DEF HitEnd, Done, Goto
<1>9. ASSUME NEW b \in Backfills, FetchMore(b) PROVE TypeOK'
  <2>1. PICK list \in RecentlyPlayed(after[b]) :
          IF list = {}
            THEN Done(b) /\ UNCHANGED from
            ELSE /\ items' = [items EXCEPT ![b] = list]
                 /\ Goto(b, "store")
                 /\ from' = [from EXCEPT ![b] = IF Skips(list, after[b])
                                                 THEN LastItem(list) - 1 ELSE @]
                 /\ UNCHANGED after
    BY <1>9 DEF FetchMore
  <2>2. list \subseteq plays
    <3> HIDE DEF TypeOK
    <3>1. after[b] \in Int
      BY DEF TypeOK
    <3> QED BY <3>1, ListsPlays
  <2>3. list # {} => LastItem(list) \in Int
    <3> HIDE DEF TypeOK
    <3> QED BY <2>2, LastIsOldest, PlaysFinite
  <2>4. UNCHANGED <<now, plays, v1, v2, end, persisted, announced, told, asked, covered>>
    BY <1>9 DEF FetchMore
  <2>5. CASE list = {}
    BY <2>1, <2>4, <2>5 DEF Done, Goto
  <2>6. CASE list # {}
    <3>1. /\ items' = [items EXCEPT ![b] = list]
          /\ pc' = [pc EXCEPT ![b] = "store"] /\ UNCHANGED after
      BY <2>1, <2>6 DEF Goto
    <3>2. from' \in [Backfills -> Int]
      BY <2>1, <2>3, <2>6
    <3> QED BY <2>2, <2>4, <3>1, <3>2
  <2> QED BY <2>5, <2>6
<1>10. ASSUME NEW b \in Backfills, StoreMore(b) PROVE TypeOK'
  <2>1. LastItem(items[b]) \in Int
    <3>1. items[b] # {} /\ items[b] \subseteq plays
      BY <1>10 DEF StoreMore, Listing
    <3> HIDE DEF TypeOK
    <3> QED BY <3>1, LastIsOldest, PlaysFinite
  <2> QED BY <1>10, <2>1 DEF StoreMore, Goto
<1>11. ASSUME NEW b \in Backfills, BackfillFails(b) PROVE TypeOK'
  BY <1>11 DEF BackfillFails, Done, Goto
<1>12. CASE Crash
  BY <1>12 DEF Crash
<1>13. CASE Tick
  BY <1>13 DEF Tick
<1>14. CASE UNCHANGED vars
  BY <1>14 DEF vars
<1> QED BY <1>1, <1>2, <1>3, <1>4, <1>5, <1>6, <1>7, <1>8, <1>9, <1>10, <1>11,
           <1>12, <1>13, <1>14 DEF Next

LEMMA IngestStep == IngestInv /\ [Next]_vars => IngestInv'
<1> SUFFICES ASSUME IngestInv, [Next]_vars PROVE IngestInv'
  OBVIOUS
<1>t. TypeOK /\ TypeOK'
  BY TypeStep DEF IngestInv
<1>p. now \in Nat /\ plays \subseteq 1 .. now /\ plays \cap 0 .. now = plays
  <2>1. now \in Nat /\ plays \subseteq 1 .. now
    BY <1>t DEF TypeOK
  <2>2. \A t \in plays : t \in 0 .. now
    BY <2>1
  <2> QED BY <2>1, <2>2
<1> DEFINE Quiet == /\ UNCHANGED <<announced, told, covered>>
                    /\ plays' \cap 0 .. now = plays
                    /\ v1 \subseteq v1' /\ v2 \subseteq v2'
<1>u. ASSUME Quiet
      PROVE  /\ (AnnouncedOnce /\ AnnouncedServed /\ SuccessCovers /\ told \subseteq v1)'
             /\ Listing' /\ Disjoint' /\ (\A r \in Refreshers : RefreshInv(r)') => IngestInv'
  <2>1. now \in Nat
    BY <1>t DEF TypeOK
  <2> QED BY <1>t, <1>u, <2>1, Unannounced DEF IngestInv
<1>1. ASSUME NEW r \in Refreshers, Refresh(r) PROVE IngestInv'
  <2>1. Quiet
    BY <1>1, <1>p DEF Refresh
  <2>2. Listing' /\ Disjoint' /\ \A q \in Refreshers : RefreshInv(q)'
    BY <1>1, <1>t DEF Refresh, TypeOK, IngestInv, Listing, Disjoint, RefreshInv, Processes, Goto
  <2> QED BY <1>u, <2>1, <2>2
<1>2. ASSUME NEW r \in Refreshers, Fetch(r) PROVE IngestInv'
  <2>1. Quiet
    BY <1>2, <1>p DEF Fetch
  <2>2. Listing' /\ Disjoint' /\ \A q \in Refreshers : RefreshInv(q)'
    <3>1. PICK list \in RecentlyPlayed(after[r]) :
            /\ items' = [items EXCEPT ![r] = list]
            /\ asked' = [asked EXCEPT ![r] = IF {t \in plays : t > after[r]} \subseteq list
                                               THEN now ELSE 0]
            /\ pc' = [pc EXCEPT ![r] = IF list = {} THEN "publish" ELSE "storeV1"]
      BY <1>2 DEF Fetch, Goto
    <3>2. /\ UNCHANGED <<now, plays, v1, v2, after, told, persisted>>
          /\ pc[r] = "fetch" /\ persisted[r] = {}
      BY <1>2 DEF Fetch, IngestInv, RefreshInv
    <3>3. Listing' /\ Disjoint'
      BY <3>1, <3>2, <1>t DEF TypeOK, Processes, Listing, Disjoint, IngestInv
    <3>4. RefreshInv(r)'
      BY <3>1, <3>2, <1>t DEF TypeOK, Processes, RefreshInv
    <3>5. ASSUME NEW q \in Refreshers, q # r PROVE RefreshInv(q)'
      BY <3>1, <3>2, <3>5, <1>t DEF TypeOK, Processes, RefreshInv, IngestInv
    <3> QED BY <3>3, <3>4, <3>5
  <2> QED BY <1>u, <2>1, <2>2
<1>3. ASSUME NEW r \in Refreshers, StoreV1(r) PROVE IngestInv'
  <2>1. Quiet
    BY <1>3, <1>p DEF StoreV1
  <2>2. Listing' /\ Disjoint' /\ \A q \in Refreshers : RefreshInv(q)'
    <3>1. /\ pc[r] = "storeV1" /\ persisted' = [persisted EXCEPT ![r] = items[r] \ v1]
          /\ v1' = v1 \cup items[r] /\ pc' = [pc EXCEPT ![r] = "storeV2"]
          /\ UNCHANGED <<plays, v2, after, items, told, asked>>
      BY <1>3 DEF StoreV1, Goto
    <3>2. told \subseteq v1 /\ \A q \in Refreshers : persisted[q] \subseteq v1
      BY DEF IngestInv, RefreshInv
    <3>3. Listing'
      BY <3>1, <1>t DEF Listing, IngestInv, TypeOK, Processes
    <3>4. Disjoint'
      BY <3>1, <3>2, <1>t DEF Disjoint, IngestInv, TypeOK, Processes
    <3>5. RefreshInv(r)'
      BY <3>1, <3>2, <1>t DEF RefreshInv, IngestInv, TypeOK, Processes
    <3>6. ASSUME NEW q \in Refreshers, q # r PROVE RefreshInv(q)'
      BY <3>1, <3>6, <1>t DEF RefreshInv, IngestInv, TypeOK, Processes
    <3> QED BY <3>3, <3>4, <3>5, <3>6
  <2> QED BY <1>u, <2>1, <2>2
<1>4. ASSUME NEW r \in Refreshers, StoreV2(r) PROVE IngestInv'
  <2>1. Quiet
    BY <1>4, <1>p DEF StoreV2
  <2>2. Listing' /\ Disjoint' /\ \A q \in Refreshers : RefreshInv(q)'
    BY <1>4, <1>t DEF StoreV2, TypeOK, IngestInv, Listing, Disjoint, RefreshInv, Processes, Goto
  <2> QED BY <1>u, <2>1, <2>2
<1>5. ASSUME NEW r \in Refreshers, RefreshFails(r) PROVE IngestInv'
  <2>1. Quiet
    BY <1>5, <1>p DEF RefreshFails, Done
  <2>2. Listing' /\ Disjoint' /\ \A q \in Refreshers : RefreshInv(q)'
    BY <1>5, <1>t DEF RefreshFails, Done, TypeOK, IngestInv, Listing, Disjoint, RefreshInv, Processes, Goto
  <2> QED BY <1>u, <2>1, <2>2
<1>6. ASSUME NEW b \in Backfills, Backfill(b) PROVE IngestInv'
  <2>1. Quiet
    BY <1>6, <1>p DEF Backfill
  <2>2. Listing' /\ Disjoint' /\ \A q \in Refreshers : RefreshInv(q)'
    BY <1>6, <1>t DEF Backfill, TypeOK, IngestInv, Listing, Disjoint, RefreshInv, Processes, Goto
  <2> QED BY <1>u, <2>1, <2>2
<1>7. ASSUME NEW b \in Backfills, HitEnd(b) PROVE IngestInv'
  <2>1. Quiet
    BY <1>7, <1>p DEF HitEnd, Done
  <2>2. Listing' /\ Disjoint' /\ \A q \in Refreshers : RefreshInv(q)'
    BY <1>7, <1>t DEF HitEnd, Done, TypeOK, IngestInv, Listing, Disjoint, RefreshInv, Processes, Goto
  <2> QED BY <1>u, <2>1, <2>2
<1>8. ASSUME NEW b \in Backfills, FetchMore(b) PROVE IngestInv'
  <2>1. Quiet
    BY <1>8, <1>p DEF FetchMore, Done
  <2>2. Listing' /\ Disjoint' /\ \A q \in Refreshers : RefreshInv(q)'
    <3>1. PICK list \in RecentlyPlayed(after[b]) :
            IF list = {}
              THEN Done(b)
              ELSE /\ items' = [items EXCEPT ![b] = list]
                   /\ Goto(b, "store")
                   /\ UNCHANGED after
      BY <1>8 DEF FetchMore
    <3>2. UNCHANGED <<now, plays, v1, v2, told, persisted, asked>>
      BY <1>8 DEF FetchMore
    <3>3. \A q \in Refreshers : /\ pc'[q] = pc[q] /\ items'[q] = items[q]
                                 /\ after'[q] = after[q]
      <4>1. CASE list = {}
        BY <3>1, <4>1, <1>t DEF Done, Goto, TypeOK, Processes
      <4>2. CASE list # {}
        BY <3>1, <4>2, <1>t DEF Goto, TypeOK, Processes
      <4> QED BY <4>1, <4>2
    <3>4. \A q \in Refreshers : RefreshInv(q)'
      BY <3>2, <3>3 DEF RefreshInv, IngestInv
    <3>5. Listing'
      <4>1. CASE list = {}
        BY <3>1, <4>1, <1>t DEF Done, Goto, TypeOK, Processes, Listing, IngestInv
      <4>2. CASE list # {}
        BY <3>1, <4>2, <1>t DEF Goto, TypeOK, Processes, Listing, IngestInv
      <4> QED BY <4>1, <4>2
    <3> QED BY <3>2, <3>4, <3>5 DEF Disjoint, IngestInv
  <2> QED BY <1>u, <2>1, <2>2
<1>9. ASSUME NEW b \in Backfills, StoreMore(b) PROVE IngestInv'
  <2>1. Quiet
    BY <1>9, <1>p DEF StoreMore
  <2>2. Listing' /\ Disjoint' /\ \A q \in Refreshers : RefreshInv(q)'
    BY <1>9, <1>t DEF StoreMore, TypeOK, IngestInv, Listing, Disjoint, RefreshInv, Processes, Goto
  <2> QED BY <1>u, <2>1, <2>2
<1>10. ASSUME NEW b \in Backfills, BackfillFails(b) PROVE IngestInv'
  <2>1. Quiet
    BY <1>10, <1>p DEF BackfillFails, Done
  <2>2. Listing' /\ Disjoint' /\ \A q \in Refreshers : RefreshInv(q)'
    BY <1>10, <1>t DEF BackfillFails, Done, TypeOK, IngestInv, Listing, Disjoint, RefreshInv, Processes, Goto
  <2> QED BY <1>u, <2>1, <2>2
<1>11. ASSUME Crash PROVE IngestInv'
  <2>1. Quiet
    BY <1>11, <1>p DEF Crash
  <2>2. Listing' /\ Disjoint' /\ \A q \in Refreshers : RefreshInv(q)'
    BY <1>11, <1>t DEF Crash, TypeOK, IngestInv, Listing, Disjoint, RefreshInv, Processes, Goto
  <2> QED BY <1>u, <2>1, <2>2
<1>12. ASSUME Tick PROVE IngestInv'
  <2>1. Quiet
    BY <1>12, <1>p DEF Tick
  <2>2. Listing' /\ Disjoint' /\ \A q \in Refreshers : RefreshInv(q)'
    BY <1>12, <1>t DEF Tick, TypeOK, IngestInv, Listing, Disjoint, RefreshInv, Processes, Goto
  <2> QED BY <1>u, <2>1, <2>2
<1>13. ASSUME NEW r \in Refreshers, Publish(r) PROVE IngestInv'
  <2>1. /\ pc[r] = "publish" /\ covered' = Cover(r)
        /\ UNCHANGED <<now, plays, v1, v2>>
        /\ pc' = [pc EXCEPT ![r] = "idle"] /\ after' = [after EXCEPT ![r] = 0]
        /\ items' = [items EXCEPT ![r] = {}]
        /\ persisted' = [persisted EXCEPT ![r] = {}]
        /\ asked' = [asked EXCEPT ![r] = 0]
    BY <1>13 DEF Publish, Done, Goto
  <2>2. \/ /\ announced' = announced + Cardinality(persisted[r])
           /\ told' = told \cup persisted[r]
        \/ announced' = announced /\ told' = told
    BY <1>13 DEF Publish
  <2>3. /\ persisted[r] \subseteq v1 \ told /\ persisted[r] \subseteq items[r]
        /\ items[r] \subseteq v1 \cap v2
    BY <2>1 DEF IngestInv, RefreshInv
  <2>4. AnnouncedOnce'
    <3>1. told \subseteq plays /\ persisted[r] \subseteq plays /\ IsFiniteSet(plays)
      BY <1>t, PlaysFinite DEF TypeOK
    <3>2. IsFiniteSet(told) /\ IsFiniteSet(persisted[r])
      BY <3>1, FS_Subset
    <3>3. told \cap persisted[r] = {}
      BY <2>3
    <3>4. Cardinality(told \cup persisted[r]) = Cardinality(told) + Cardinality(persisted[r])
      <4>1. Cardinality(told \cup persisted[r])
              = Cardinality(told) + Cardinality(persisted[r]) - Cardinality({})
        BY <3>2, <3>3, FS_Union
      <4>2. Cardinality(told) \in Nat /\ Cardinality(persisted[r]) \in Nat
        BY <3>2, FS_CardinalityType
      <4> QED BY <4>1, <4>2, FS_EmptySet
    <3> QED BY <2>2, <3>4 DEF AnnouncedOnce, IngestInv
  <2>5. AnnouncedServed' /\ (told \subseteq v1)'
    BY <2>1, <2>2, <2>3 DEF AnnouncedServed, IngestInv
  <2>6. SuccessCovers'
    <3>1. asked[r] # 0 => \A t \in plays : after[r] < t /\ t <= asked[r] => t \in v1 \cap v2
      BY <2>3 DEF IngestInv, RefreshInv
    <3>2. /\ after[r] \in Int /\ asked[r] \in Int /\ plays \subseteq Int
          /\ covered.lo \in Int /\ covered.hi \in Int
      BY <1>t, <1>p DEF TypeOK, Processes
    <3>3. \A t \in plays : covered.lo < t /\ t <= covered.hi => t \in v1 \cap v2
      BY DEF IngestInv, SuccessCovers
    <3> QED BY <2>1, <3>1, <3>2, <3>3 DEF SuccessCovers, Cover
  <2>7. Listing' /\ Disjoint'
    BY <2>1, <1>t DEF Listing, Disjoint, IngestInv, TypeOK, Processes
  <2>8. RefreshInv(r)'
    BY <2>1, <1>t DEF RefreshInv, TypeOK, Processes
  <2>9. ASSUME NEW q \in Refreshers, q # r PROVE RefreshInv(q)'
    <3>1. persisted[q] \cap persisted[r] = {}
      BY <2>9 DEF IngestInv, Disjoint
    <3>2. RefreshInv(q) /\ told' \in {told, told \cup persisted[r]}
      BY <2>2 DEF IngestInv
    <3> QED BY <2>1, <2>9, <3>1, <3>2, <1>t DEF RefreshInv, TypeOK, Processes
  <2> QED BY <1>t, <2>4, <2>5, <2>6, <2>7, <2>8, <2>9 DEF IngestInv
<1>14. CASE UNCHANGED vars
  BY <1>t, <1>14 DEF vars, IngestInv, AnnouncedOnce, AnnouncedServed, SuccessCovers, Listing,
     Disjoint, RefreshInv
<1> QED BY <1>1, <1>2, <1>3, <1>4, <1>5, <1>6, <1>7, <1>8, <1>9, <1>10, <1>11, <1>12,
           <1>13, <1>14 DEF Next

(* The refreshes keep to IngestInv, whatever backfills do. *)
THEOREM IngestCorrect == Spec => []IngestInv
BY InitInv, IngestStep, PTL DEF Spec

(* The types hold. *)
THEOREM TypeCorrect == Spec => []TypeOK
BY IngestCorrect, PTL DEF IngestInv

(* No play is counted by two messages. *)
THEOREM CountedOnce == Spec => []AnnouncedOnce
BY IngestCorrect, PTL DEF IngestInv

(* What was announced can be read back from StoreV2. *)
THEOREM CountedServed == Spec => []AnnouncedServed
BY IngestCorrect, PTL DEF IngestInv

(* Successful refreshes in time leave out no play. *)
THEOREM HourlyCovers == Spec => []SuccessCovers
BY IngestCorrect, PTL DEF IngestInv

(* Of the plays since from, a backfill has stored those up to after, and a
   list it is about to store goes on from there. *)
BackInv(b) ==
  /\ pc[b] \in {"loop", "store"} =>
       /\ after[b] <= now \/ after[b] <= from[b]
       /\ \A t \in plays : from[b] < t /\ t <= after[b] => t \in v2
  /\ pc[b] = "store" =>
       /\ \A t \in items[b] : after[b] < t
       /\ \A t \in plays : from[b] < t /\ t < LastItem(items[b]) => t <= after[b]

BackfillInv == \A b \in Backfills : BackInv(b)

LEMMA BackfillStep == IngestInv /\ BackfillInv /\ [Next]_vars => BackfillInv'
<1> SUFFICES ASSUME IngestInv, BackfillInv, [Next]_vars, NEW b \in Backfills
             PROVE  BackInv(b)'
  BY DEF BackfillInv
<1>1. TypeOK /\ TypeOK' /\ Listing /\ BackInv(b)
  BY TypeStep DEF IngestInv, BackfillInv
<1>2. now \in Nat /\ after[b] \in Int /\ from[b] \in Int /\ plays \subseteq Int
  BY <1>1, PlaysFinite DEF TypeOK, Processes
<1>3. pc[b] = "store" => LastItem(items[b]) \in items[b] /\ items[b] \subseteq plays
  <2>1. items[b] \subseteq plays
    BY <1>1 DEF TypeOK, Processes
  <2> QED BY <1>1, <2>1, LastIsOldest DEF Listing
<1>4. ASSUME NEW t \in plays PROVE t <= now
  <2>1. t \in 1 .. now
    BY <1>1 DEF TypeOK
  <2> QED BY <1>2, <2>1
(* Whatever else happens, time passes and stores grow. *)
<1>5. ASSUME pc'[b] = pc[b], after'[b] = after[b], items'[b] = items[b], from'[b] = from[b],
             v2 \subseteq v2', now' = now, plays' = plays
      PROVE  BackInv(b)'
  BY <1>1, <1>5 DEF BackInv
<1>6. ASSUME pc'[b] = "idle"
      PROVE  BackInv(b)'
  BY <1>6 DEF BackInv
<1>7. ASSUME NEW r \in Refreshers,
             Refresh(r) \/ Fetch(r) \/ StoreV1(r) \/ StoreV2(r) \/ RefreshFails(r) \/ Publish(r)
      PROVE  BackInv(b)'
  <2>1. pc'[b] = pc[b] /\ after'[b] = after[b] /\ items'[b] = items[b] /\ from' = from
    BY <1>7, <1>1 DEF Refresh, Fetch, StoreV1, StoreV2, RefreshFails, Publish, Done, Goto,
       TypeOK, Processes
  <2>2. v2 \subseteq v2' /\ now' = now /\ plays' = plays
    BY <1>7 DEF Refresh, Fetch, StoreV1, StoreV2, RefreshFails, Publish
  <2> QED BY <2>1, <2>2, <1>5
<1>8. ASSUME NEW c \in Backfills, c # b,
             Backfill(c) \/ HitEnd(c) \/ FetchMore(c) \/ StoreMore(c) \/ BackfillFails(c)
      PROVE  BackInv(b)'
  <2>1. pc'[b] = pc[b] /\ after'[b] = after[b] /\ items'[b] = items[b] /\ from'[b] = from[b]
    BY <1>8, <1>1 DEF Backfill, HitEnd, FetchMore, StoreMore, BackfillFails, Done, Goto,
       TypeOK, Processes
  <2>2. v2 \subseteq v2' /\ now' = now /\ plays' = plays
    BY <1>8 DEF Backfill, HitEnd, FetchMore, StoreMore, BackfillFails
  <2> QED BY <2>1, <2>2, <1>5
<1>9. CASE Backfill(b)
  <2>1. pc'[b] = "loop" /\ after'[b] = from'[b] /\ from'[b] \in Int /\ plays' = plays
    BY <1>9, <1>1 DEF Backfill, Goto, TypeOK, Processes
  <2> QED BY <1>2, <2>1 DEF BackInv
<1>10. CASE HitEnd(b) \/ BackfillFails(b)
  <2>1. pc'[b] = "idle"
    BY <1>10, <1>1 DEF HitEnd, BackfillFails, Done, Goto, TypeOK, Processes
  <2> QED BY <1>6, <2>1
<1>11. CASE FetchMore(b)
  <2>1. PICK list \in RecentlyPlayed(after[b]) :
          IF list = {}
            THEN Done(b)
            ELSE /\ items' = [items EXCEPT ![b] = list]
                 /\ Goto(b, "store")
                 /\ from' = [from EXCEPT ![b] = IF Skips(list, after[b])
                                                 THEN LastItem(list) - 1 ELSE @]
                 /\ UNCHANGED after
    BY <1>11 DEF FetchMore
  <2>2. pc[b] = "loop" /\ UNCHANGED <<now, plays, v2>>
    BY <1>11 DEF FetchMore
  <2>3. CASE list = {}
    <3>1. pc'[b] = "idle"
      BY <2>1, <2>3, <1>1 DEF Done, Goto, TypeOK, Processes
    <3> QED BY <3>1, <1>6
  <2>4. CASE list # {}
    <3>1. /\ pc'[b] = "store" /\ items'[b] = list /\ after'[b] = after[b]
          /\ from'[b] = IF Skips(list, after[b]) THEN LastItem(list) - 1 ELSE from[b]
      BY <2>1, <2>4, <1>1 DEF Goto, TypeOK, Processes
    <3>2. list \subseteq {t \in plays : t > after[b]}
      BY <1>1, <1>2, ListsPlays
    <3>3. LastItem(list) \in list /\ \A t \in list : LastItem(list) <= t
      BY <1>1, <2>4, <3>2, LastIsOldest
    <3>4. ~Skips(list, after[b]) =>
            \A t \in plays : t < LastItem(list) => t <= after[b]
      <4> SUFFICES ASSUME NEW t \in plays, t < LastItem(list), t > after[b]
                   PROVE  Skips(list, after[b])
        BY <1>2
      <4>1. t \notin list
        <5>1. ASSUME t \in list PROVE FALSE
          <6>1. LastItem(list) <= t /\ LastItem(list) \in Int /\ t \in Int
            BY <1>2, <3>2, <3>3, <5>1
          <6> QED BY <6>1
        <5> QED BY <5>1
      <4> QED BY <4>1 DEF Skips
    <3> DEFINE last == LastItem(list)
    <3>5. last \in Int /\ last > after[b]
      BY <1>2, <3>2, <3>3
    <3>6. CASE Skips(list, after[b])
      <4>1. from'[b] = last - 1
        BY <3>1, <3>6
      <4>2. after'[b] <= from'[b] /\ after[b] <= from'[b]
        <5> HIDE DEF last
        <5> QED BY <1>2, <3>1, <3>5, <4>1
      <4>3. \A t \in plays : from'[b] < t => ~(t <= after[b]) /\ ~(t < last)
        <5> HIDE DEF last
        <5> QED BY <1>2, <3>5, <4>1
      <4>4. LastItem(items'[b]) = last
        BY <3>1
      <4> QED BY <1>1, <2>2, <3>1, <3>2, <4>2, <4>3, <4>4 DEF BackInv
    <3>7. CASE ~Skips(list, after[b])
      <4>1. from'[b] = from[b]
        BY <3>1, <3>7
      <4> QED BY <1>1, <2>2, <3>1, <3>2, <3>4, <3>7, <4>1 DEF BackInv
    <3> QED BY <3>6, <3>7
  <2> QED BY <2>3, <2>4
<1>12. CASE StoreMore(b)
  <2>1. /\ pc[b] = "store" /\ pc'[b] = "loop" /\ after'[b] = LastItem(items[b])
        /\ v2' = v2 \cup items[b] /\ UNCHANGED <<now, plays, from>>
    BY <1>12, <1>1 DEF StoreMore, Goto, TypeOK, Processes
  <2>2. LastItem(items[b]) \in items[b] /\ LastItem(items[b]) \in plays
    BY <1>3, <2>1
  <2>3. \A t \in plays : t <= LastItem(items[b]) => t < LastItem(items[b]) \/ t \in items[b]
    <3> SUFFICES ASSUME NEW t \in plays, t <= LastItem(items[b]), t # LastItem(items[b])
                 PROVE  t < LastItem(items[b])
      BY <2>2
    <3>1. t \in Int /\ LastItem(items[b]) \in Int
      BY <1>2, <2>2
    <3> QED BY <3>1
  <2> QED BY <1>1, <1>2, <1>4, <2>1, <2>2, <2>3 DEF BackInv
<1>13. CASE Crash
  <2>1. pc'[b] = "idle"
    BY <1>13 DEF Crash, Processes
  <2> QED BY <1>6, <2>1
<1>14. CASE Tick
  <2>1. /\ now' = now + 1 /\ plays' \subseteq plays \cup {now + 1}
        /\ UNCHANGED <<v2, pc, after, items, from>>
    BY <1>14 DEF Tick
  <2>2. pc[b] = "store" => LastItem(items[b]) \in Int /\ LastItem(items[b]) <= now
    BY <1>2, <1>3, <1>4
  <2> QED BY <1>1, <1>2, <2>1, <2>2 DEF BackInv
<1>15. CASE UNCHANGED vars
  BY <1>5, <1>15 DEF vars
<1> QED BY <1>7, <1>8, <1>9, <1>10, <1>11, <1>12, <1>13, <1>14, <1>15 DEF Next

(* And the backfills to theirs. *)
THEOREM BackfillCorrect == Spec => [](IngestInv /\ BackfillInv)
<1>1. Init => BackfillInv
  BY DEF Init, BackfillInv, BackInv, Processes
<1> QED BY <1>1, InitInv, IngestStep, BackfillStep, PTL DEF Spec

(* A backfill that no error ends has left out no play since the last list that
   skipped some. *)
THEOREM BackfillLeavesNothing == Spec => BackfillComplete
<1> DEFINE Complete(b) ==
      (HitEnd(b) \/ FetchMore(b)) /\ pc'[b] = "idle"
        => \A t \in plays : from[b] < t /\ t <= end[b] => t \in v2
<1>1. ASSUME IngestInv, BackfillInv, NEW b \in Backfills PROVE Complete(b)
  <2>1. TypeOK /\ BackInv(b)
    BY <1>1 DEF IngestInv, BackfillInv
  <2>2. after[b] \in Int /\ from[b] \in Int /\ end[b] \in Int /\ plays \subseteq Int
    BY <2>1, PlaysFinite DEF TypeOK, Processes
  <2>3. CASE HitEnd(b)
    BY <2>1, <2>2, <2>3 DEF HitEnd, BackInv
  <2>4. CASE FetchMore(b) /\ pc'[b] = "idle"
    <3>1. PICK list \in RecentlyPlayed(after[b]) : list # {} => Goto(b, "store")
      BY <2>4 DEF FetchMore
    <3>2. list = {}
      BY <2>1, <2>4, <3>1 DEF Goto, TypeOK, Processes
    <3>3. \A t \in plays : t <= after[b]
      BY <2>1, <2>2, <3>2, ListsPlays
    <3> QED BY <2>1, <2>2, <2>4, <3>3 DEF FetchMore, BackInv
  <2> QED BY <2>3, <2>4
<1>2. IngestInv /\ BackfillInv => \A b \in Backfills : Complete(b)
  BY <1>1
<1> QED BY <1>2, BackfillCorrect, PTL DEF BackfillComplete

(* Each round of a backfill starts later than the one before. *)
THEOREM BackfillAdvances == Spec => BackfillProgress
<1>1. ASSUME IngestInv, BackfillInv, [Next]_vars, NEW b \in Backfills,
             pc[b] = "store", pc'[b] = "loop"
      PROVE  after'[b] > after[b]
  <2>1. /\ TypeOK /\ Listing /\ BackInv(b) /\ b \in Processes
        /\ \A r \in Refreshers : r # b
    BY <1>1 DEF IngestInv, BackfillInv, Processes
  <2>2. StoreMore(b)
    <3>1. ASSUME NEW r \in Refreshers,
                 Refresh(r) \/ Fetch(r) \/ StoreV1(r) \/ StoreV2(r) \/ RefreshFails(r) \/ Publish(r)
          PROVE  FALSE
      BY <1>1, <2>1, <3>1 DEF Refresh, Fetch, StoreV1, StoreV2, RefreshFails, Publish, Done,
         Goto, TypeOK, Processes
    <3>2. ASSUME NEW c \in Backfills,
                 Backfill(c) \/ HitEnd(c) \/ FetchMore(c) \/ BackfillFails(c)
          PROVE  FALSE
      BY <1>1, <2>1, <3>2 DEF Backfill, HitEnd, FetchMore, BackfillFails, Done, Goto, TypeOK
    <3>3. ASSUME NEW c \in Backfills, c # b, StoreMore(c) PROVE FALSE
      BY <1>1, <2>1, <3>3 DEF StoreMore, Goto, TypeOK
    <3>4. ~ (Crash \/ Tick \/ UNCHANGED vars)
      BY <1>1, <2>1 DEF Crash, Tick, vars
    <3> QED BY <1>1, <3>1, <3>2, <3>3, <3>4 DEF Next
  <2>3. LastItem(items[b]) \in items[b]
    <3>1. items[b] \subseteq plays /\ items[b] # {}
      BY <1>1, <2>1 DEF TypeOK, Listing
    <3> QED BY <2>1, <3>1, LastIsOldest
  <2>4. after'[b] = LastItem(items[b])
    BY <2>1, <2>2 DEF StoreMore, TypeOK
  <2>5. \A t \in items[b] : after[b] < t
    BY <1>1, <2>1 DEF BackInv
  <2>6. after[b] \in Int /\ LastItem(items[b]) \in Int
    BY <2>1, <2>3, PlaysFinite DEF TypeOK
  <2> QED BY <2>3, <2>4, <2>5, <2>6
<1>2. IngestInv /\ BackfillInv /\ [Next]_vars
        => \A b \in Backfills : pc[b] = "store" /\ pc'[b] = "loop" => after'[b] > after[b]
  BY <1>1
<1> QED BY <1>2, BackfillCorrect, PTL DEF BackfillProgress, Spec
-----------------------------------------------------------------------------
(* PersistIsAtomic shows that the statements of a store call keep the promise
   of AtomicStore.  Here the other side: refresh and backfill rely on no more
   than that promise.  To say so, the calls are written down beside the model:
   h1 and h2 say what each caller last gave to StoreV1 and StoreV2 and how that
   call ended, returned what StoreV1 returned.  All are functions of the step,
   which they do not restrain. *)
VARIABLES h1, h2, returned

History(h, callers, calling, goesOn) ==
  [p \in callers |->
     [batch   |-> IF pc'[p] \in calling THEN items'[p] ELSE h[p].batch,
      outcome |-> IF pc'[p] \in calling THEN "running"
                  ELSE IF pc[p] \notin calling THEN h[p].outcome
                  ELSE IF pc'[p] \in goesOn THEN "ok" ELSE "error"]]

NoCalls(callers) == [p \in callers |-> [batch |-> {}, outcome |-> "none"]]

CInit == Init /\ h1 = NoCalls(Refreshers) /\ h2 = NoCalls(Processes) /\ returned = {}

CNext ==
  /\ Next
  /\ h1' = History(h1, Refreshers, {"storeV1"}, {"storeV2"})
  /\ h2' = History(h2, Processes, {"storeV2", "store"}, {"publish", "loop"})
  /\ returned' = returned \cup UNION {persisted'[r] :
                    r \in {q \in Refreshers : pc[q] = "storeV1" /\ pc'[q] = "storeV2"}}

CSpec == CInit /\ [][CNext]_<<vars, h1, h2, returned>>

V1Store == INSTANCE AtomicStore WITH
             Calls <- Refreshers, Row <- Nat, db <- v1, reported <- returned,
             batch   <- [r \in Refreshers |-> h1[r].batch],
             fresh   <- [r \in Refreshers |-> TRUE],
             outcome <- [r \in Refreshers |-> h1[r].outcome]

V2Store == INSTANCE AtomicStore WITH
             Calls <- Processes, Row <- Nat, db <- v2, reported <- {},
             batch   <- [p \in Processes |-> h2[p].batch],
             fresh   <- [p \in Processes |-> FALSE],
             outcome <- [p \in Processes |-> h2[p].outcome]

Steady(q) == pc'[q] = pc[q] /\ items'[q] = items[q]

(* What a step does to the calls of StoreV1. *)
LEMMA V1Steps ==
  ASSUME TypeOK, [Next]_vars
  PROVE  \/ /\ v1' = v1
            /\ \A r \in Refreshers : /\ pc[r] = "storeV1" <=> pc'[r] = "storeV1"
                                     /\ pc'[r] = "storeV1" => items'[r] = items[r]
         \/ \E r \in Refreshers : /\ pc[r] = "fetch" /\ pc'[r] = "storeV1" /\ v1' = v1
                                  /\ \A q \in Refreshers \ {r} : Steady(q)
         \/ \E r \in Refreshers : /\ pc[r] = "storeV1" /\ pc'[r] = "storeV2"
                                  /\ v1' = v1 \cup items[r] /\ persisted'[r] = items[r] \ v1
                                  /\ \A q \in Refreshers \ {r} : Steady(q)
         \/ \E r \in Refreshers : /\ pc[r] = "storeV1" /\ pc'[r] = "idle"
                                  /\ v1' \in {v1, v1 \cup items[r]}
                                  /\ \A q \in Refreshers \ {r} : Steady(q)
         \/ v1' = v1 /\ \A r \in Refreshers : pc'[r] = "idle"
<1> DEFINE Steps == \/ /\ v1' = v1
                       /\ \A r \in Refreshers : /\ pc[r] = "storeV1" <=> pc'[r] = "storeV1"
                                                /\ pc'[r] = "storeV1" => items'[r] = items[r]
                    \/ \E r \in Refreshers : /\ pc[r] = "fetch" /\ pc'[r] = "storeV1" /\ v1' = v1
                                             /\ \A q \in Refreshers \ {r} : Steady(q)
                    \/ \E r \in Refreshers : /\ pc[r] = "storeV1" /\ pc'[r] = "storeV2"
                                             /\ v1' = v1 \cup items[r] /\ persisted'[r] = items[r] \ v1
                                             /\ \A q \in Refreshers \ {r} : Steady(q)
                    \/ \E r \in Refreshers : /\ pc[r] = "storeV1" /\ pc'[r] = "idle"
                                             /\ v1' \in {v1, v1 \cup items[r]}
                                             /\ \A q \in Refreshers \ {r} : Steady(q)
                    \/ v1' = v1 /\ \A r \in Refreshers : pc'[r] = "idle"
<1>0. /\ pc \in [Processes -> {"idle", "fetch", "storeV1", "storeV2", "publish", "loop", "store"}]
      /\ items \in [Processes -> SUBSET plays] /\ persisted \in [Refreshers -> SUBSET plays]
      /\ \A r \in Refreshers : r \in Processes /\ r \notin Backfills
      /\ Backfills \subseteq Processes
  BY DEF TypeOK, Processes
<1>1. ASSUME NEW r \in Refreshers, Refresh(r) \/ StoreV2(r) \/ Publish(r) PROVE Steps
  BY <1>0, <1>1 DEF Refresh, StoreV2, Publish, Done, Goto
<1>2. ASSUME NEW r \in Refreshers, Fetch(r) PROVE Steps
  <2>1. PICK list \in RecentlyPlayed(after[r]) :
          /\ items' = [items EXCEPT ![r] = list]
          /\ Goto(r, IF list = {} THEN "publish" ELSE "storeV1")
    BY <1>2 DEF Fetch
  <2>2. pc[r] = "fetch" /\ v1' = v1
    BY <1>2 DEF Fetch
  <2>3. \A q \in Refreshers \ {r} : Steady(q)
    BY <1>0, <2>1 DEF Goto, Steady
  <2>4. pc'[r] \in {"publish", "storeV1"}
    BY <1>0, <2>1 DEF Goto
  <2> QED BY <2>2, <2>3, <2>4 DEF Steady
<1>3. ASSUME NEW r \in Refreshers, StoreV1(r) PROVE Steps
  BY <1>0, <1>3 DEF StoreV1, Goto, Steady
<1>4. ASSUME NEW r \in Refreshers, RefreshFails(r) PROVE Steps
  <2>1. /\ pc'[r] = "idle" /\ \A q \in Refreshers \ {r} : Steady(q)
        /\ v1' \in IF pc[r] = "storeV1" THEN {v1, v1 \cup items[r]} ELSE {v1}
    BY <1>0, <1>4 DEF RefreshFails, Done, Goto, Steady
  <2> QED BY <2>1 DEF Steady
<1>5. ASSUME NEW b \in Backfills,
             Backfill(b) \/ HitEnd(b) \/ FetchMore(b) \/ StoreMore(b) \/ BackfillFails(b)
      PROVE  Steps
  <2>1. \A r \in Refreshers : Steady(r)
    BY <1>0, <1>5 DEF Backfill, HitEnd, FetchMore, StoreMore, BackfillFails, Done, Goto, Steady
  <2>2. v1' = v1
    BY <1>5 DEF Backfill, HitEnd, FetchMore, StoreMore, BackfillFails
  <2> QED BY <2>1, <2>2 DEF Steady
<1>6. CASE Crash
  BY <1>0, <1>6 DEF Crash
<1>7. CASE Tick \/ UNCHANGED vars
  BY <1>7 DEF Tick, vars
<1> QED BY <1>1, <1>2, <1>3, <1>4, <1>5, <1>6, <1>7 DEF Next

(* The calls written down are those of the model. *)
V1Inv == /\ h1 \in [Refreshers -> [batch : SUBSET Nat, outcome : {"none", "running", "ok", "error"}]]
         /\ \A r \in Refreshers : /\ pc[r] = "storeV1" <=> h1[r].outcome = "running"
                                  /\ pc[r] = "storeV1" => h1[r].batch = items[r]

LEMMA V1Step ==
  ASSUME TypeOK, TypeOK', V1Inv, [CNext]_<<vars, h1, h2, returned>>
  PROVE  V1Inv' /\ [V1Store!Next]_(V1Store!vars)
<1> DEFINE batch   == [r \in Refreshers |-> h1[r].batch]
           outcome == [r \in Refreshers |-> h1[r].outcome]
           fresh   == [r \in Refreshers |-> TRUE]
<1>0. /\ \A r \in Refreshers : r \in Processes
      /\ \A r \in Refreshers : items'[r] \in SUBSET Nat
  <2>1. plays' \subseteq Nat
    BY DEF TypeOK
  <2> QED BY <2>1 DEF TypeOK, Processes
<1>1. CASE UNCHANGED <<vars, h1, h2, returned>>
  BY <1>1 DEF V1Inv, vars, V1Store!vars
<1>2. CASE CNext
  <2>1. \A r \in Refreshers :
          /\ h1'[r].batch = IF pc'[r] = "storeV1" THEN items'[r] ELSE h1[r].batch
          /\ h1'[r].outcome = IF pc'[r] = "storeV1" THEN "running"
                              ELSE IF pc[r] # "storeV1" THEN h1[r].outcome
                              ELSE IF pc'[r] = "storeV2" THEN "ok" ELSE "error"
    BY <1>2 DEF CNext, History
  <2>2. V1Inv'
    <3>1. h1' = [r \in Refreshers |-> [batch |-> h1'[r].batch, outcome |-> h1'[r].outcome]]
      BY <1>2 DEF CNext, History
    <3>2. \A r \in Refreshers : /\ h1'[r].batch \in SUBSET Nat
                                /\ h1'[r].outcome \in {"none", "running", "ok", "error"}
      BY <1>0, <2>1 DEF V1Inv
    <3>3. h1' \in [Refreshers -> [batch : SUBSET Nat, outcome : {"none", "running", "ok", "error"}]]
      BY <3>1, <3>2
    <3>4. \A r \in Refreshers : /\ pc'[r] = "storeV1" <=> h1'[r].outcome = "running"
                                /\ pc'[r] = "storeV1" => h1'[r].batch = items'[r]
      BY <2>1 DEF V1Inv
    <3> QED BY <3>3, <3>4 DEF V1Inv
  <2>3. returned' = returned \cup UNION {persisted'[r] :
                      r \in {q \in Refreshers : pc[q] = "storeV1" /\ pc'[q] = "storeV2"}}
    BY <1>2 DEF CNext
  <2>4. /\ batch \in [Refreshers -> SUBSET Nat] /\ batch' \in [Refreshers -> SUBSET Nat]
        /\ fresh \in [Refreshers -> BOOLEAN] /\ fresh' = fresh
    BY <2>2 DEF V1Inv
  <2>5. /\ \A r \in Refreshers : batch[r] = h1[r].batch /\ batch'[r] = h1'[r].batch
        /\ \A r \in Refreshers : outcome[r] = h1[r].outcome /\ outcome'[r] = h1'[r].outcome
        /\ DOMAIN outcome = Refreshers /\ DOMAIN outcome' = Refreshers
        /\ outcome = [r \in Refreshers |-> outcome[r]] /\ outcome' = [r \in Refreshers |-> outcome'[r]]
    OBVIOUS
  <2>q. ASSUME NEW q \in Refreshers,
               \/ Steady(q)
               \/ /\ pc[q] = "storeV1" <=> pc'[q] = "storeV1"
                  /\ pc'[q] = "storeV1" => items'[q] = items[q]
        PROVE  /\ batch'[q] = batch[q] /\ outcome'[q] = outcome[q]
               /\ ~ (pc[q] = "storeV1" /\ pc'[q] = "storeV2")
    BY <2>1, <2>5, <2>q DEF Steady, V1Inv
  <2>o. \A r \in Refreshers : outcome[r] = "running" <=> pc[r] = "storeV1"
    BY <2>5 DEF V1Inv
  <2>b. \A r \in Refreshers : pc[r] = "storeV1" => batch[r] = items[r]
    BY <2>5 DEF V1Inv
  <2>u. \A r \in Refreshers : pc'[r] # "storeV1" => batch'[r] = batch[r]
    BY <2>1, <2>5
  <2>w. \A r \in Refreshers : pc[r] # "storeV1" /\ pc'[r] # "storeV1" => outcome'[r] = outcome[r]
    BY <2>1, <2>5
  <2>n. (\A r \in Refreshers : ~ (pc[r] = "storeV1" /\ pc'[r] = "storeV2")) => returned' = returned
    BY <2>3
  <2>6. \/ UNCHANGED <<v1, batch, fresh, outcome, returned>>
        \/ \E r \in Refreshers : V1Store!Start(r) \/ V1Store!Store(r)
        \/ \E S \in (SUBSET Refreshers) \ {{}} : V1Store!Fail(S)
    <3>1. CASE /\ v1' = v1
               /\ \A r \in Refreshers : /\ pc[r] = "storeV1" <=> pc'[r] = "storeV1"
                                        /\ pc'[r] = "storeV1" => items'[r] = items[r]
      <4>1. \A r \in Refreshers : /\ batch'[r] = batch[r] /\ outcome'[r] = outcome[r]
                                  /\ ~ (pc[r] = "storeV1" /\ pc'[r] = "storeV2")
        BY <2>q, <3>1
      <4>2. batch' = batch /\ outcome' = outcome
        BY <4>1
      <4> QED BY <2>4, <2>n, <3>1, <4>1, <4>2
    <3>2. ASSUME NEW r \in Refreshers, pc[r] = "fetch", pc'[r] = "storeV1", v1' = v1,
                 \A q \in Refreshers \ {r} : Steady(q)
          PROVE  V1Store!Start(r)
      <4>1. \A q \in Refreshers \ {r} : batch'[q] = batch[q] /\ outcome'[q] = outcome[q]
        BY <2>q, <3>2
      <4>2. outcome[r] # "running" /\ outcome'[r] = "running"
        BY <2>1, <2>5, <2>o, <3>2
      <4>3. returned' = returned
        BY <2>q, <2>n, <3>2
      <4> HIDE DEF batch, outcome, fresh
      <4>4. outcome' = [outcome EXCEPT ![r] = "running"]
        BY <2>5, <4>1, <4>2
      <4> QED BY <2>4, <3>2, <4>1, <4>2, <4>3, <4>4 DEF V1Store!Start, batch, outcome, fresh
    <3>3. ASSUME NEW r \in Refreshers, pc[r] = "storeV1", pc'[r] = "storeV2",
                 v1' = v1 \cup items[r], persisted'[r] = items[r] \ v1,
                 \A q \in Refreshers \ {r} : Steady(q)
          PROVE  V1Store!Store(r)
      <4>1. \A q \in Refreshers \ {r} : /\ batch'[q] = batch[q] /\ outcome'[q] = outcome[q]
                                        /\ ~ (pc[q] = "storeV1" /\ pc'[q] = "storeV2")
        BY <2>q, <3>3
      <4>2. outcome[r] = "running" /\ outcome'[r] = "ok" /\ batch'[r] = batch[r] /\ batch[r] = items[r]
        BY <2>1, <2>5, <2>o, <2>b, <3>3
      <4>3. returned' = returned \cup (batch[r] \ v1)
        <5>1. {q \in Refreshers : pc[q] = "storeV1" /\ pc'[q] = "storeV2"} = {r}
          BY <3>3, <4>1
        <5>2. returned' = returned \cup persisted'[r]
          BY <2>3, <5>1
        <5> QED BY <3>3, <4>2, <5>2
      <4>4. fresh[r] = TRUE
        OBVIOUS
      <4> HIDE DEF batch, outcome, fresh
      <4>5. outcome' = [outcome EXCEPT ![r] = "ok"]
        BY <2>5, <4>1, <4>2
      <4>6. batch' = batch
        BY <2>4, <4>1, <4>2
      <4> QED BY <2>4, <3>3, <4>2, <4>3, <4>4, <4>5, <4>6 DEF V1Store!Store, batch, outcome, fresh
    <3>4. ASSUME NEW r \in Refreshers, pc[r] = "storeV1", pc'[r] = "idle",
                 v1' \in {v1, v1 \cup items[r]}, \A q \in Refreshers \ {r} : Steady(q)
          PROVE  V1Store!Store(r) \/ V1Store!Fail({r})
      <4>1. \A q \in Refreshers \ {r} : /\ batch'[q] = batch[q] /\ outcome'[q] = outcome[q]
                                        /\ ~ (pc[q] = "storeV1" /\ pc'[q] = "storeV2")
        BY <2>q, <3>4
      <4>2. outcome[r] = "running" /\ outcome'[r] = "error" /\ batch'[r] = batch[r] /\ batch[r] = items[r]
        BY <2>1, <2>5, <2>o, <2>b, <3>4
      <4>3. returned' = returned
        BY <2>n, <3>4, <4>1
      <4> HIDE DEF batch, outcome, fresh
      <4>5. outcome' = [outcome EXCEPT ![r] = "error"]
        BY <2>5, <4>1, <4>2
      <4>6. batch' = batch
        BY <2>4, <4>1, <4>2
      <4>7. outcome' = [q \in Refreshers |-> IF q \in {r} THEN "error" ELSE outcome[q]]
        BY <2>5, <4>1, <4>2
      <4>8. CASE v1' = v1 \cup items[r]
        BY <2>4, <4>2, <4>3, <4>5, <4>6, <4>8 DEF V1Store!Store, batch, outcome, fresh
      <4>9. CASE v1' = v1
        <5>1. "error" \in V1Store!Outcome \ {"ok"}
          BY DEF V1Store!Outcome
        <5> QED BY <2>4, <4>2, <4>3, <4>6, <4>7, <4>9, <5>1
                   DEF V1Store!Fail, batch, outcome, fresh
      <4> QED BY <3>4, <4>8, <4>9
    <3>5. CASE v1' = v1 /\ \A r \in Refreshers : pc'[r] = "idle"
      <4>s. PICK S \in SUBSET Refreshers : \A r \in Refreshers : r \in S <=> pc[r] = "storeV1"
        <5>1. \A r \in Refreshers : r \in {q \in Refreshers : pc[q] = "storeV1"} <=> pc[r] = "storeV1"
          OBVIOUS
        <5> QED BY <5>1
      <4>1. batch' = batch /\ returned' = returned
        <5>1. \A r \in Refreshers : batch'[r] = batch[r]
          BY <2>u, <3>5
        <5> HIDE DEF batch
        <5> QED BY <2>4, <2>n, <3>5, <5>1
      <4>2. \A r \in Refreshers : outcome'[r] = IF r \in S THEN "error" ELSE outcome[r]
        BY <2>1, <2>5, <2>w, <3>5, <4>s
      <4>3. CASE S = {}
        <5>1. \A r \in Refreshers : outcome'[r] = outcome[r]
          BY <4>2, <4>3
        <5>2. outcome' = outcome
          BY <5>1
        <5> QED BY <2>4, <3>5, <4>1, <5>2
      <4>4. CASE S # {}
        <5>1. "error" \in V1Store!Outcome \ {"ok"}
          BY DEF V1Store!Outcome
        <5>2. \A r \in S : outcome[r] = "running"
          BY <2>o, <4>s
        <5> HIDE DEF batch, outcome, fresh
        <5>3. outcome' = [r \in Refreshers |-> IF r \in S THEN "error" ELSE outcome[r]]
          BY <2>5, <4>2
        <5>4. V1Store!Fail(S)
          BY <2>4, <3>5, <4>1, <5>1, <5>2, <5>3 DEF V1Store!Fail, batch, outcome, fresh
        <5> QED BY <4>4, <5>4
      <4> QED BY <4>3, <4>4
    <3>6. [Next]_vars
      BY <1>2 DEF CNext
    <3> HIDE DEF batch, outcome, fresh
    <3> QED
      <4>1. \A r \in Refreshers : {r} \in (SUBSET Refreshers) \ {{}}
        OBVIOUS
      <4> QED BY <3>1, <3>2, <3>3, <3>4, <3>5, <3>6, <4>1, V1Steps
  <2> QED BY <2>2, <2>6 DEF V1Store!Next, V1Store!vars
<1> QED BY <1>1, <1>2

(* What a step does to the calls of StoreV2. *)
InV2(p) == pc[p] \in {"storeV2", "store"}

LEMMA V2Steps ==
  ASSUME TypeOK, [Next]_vars
  PROVE  \/ /\ v2' = v2
            /\ \A p \in Processes : /\ InV2(p) <=> InV2(p)'
                                    /\ InV2(p)' => items'[p] = items[p]
         \/ \E p \in Processes : /\ ~InV2(p) /\ InV2(p)' /\ v2' = v2
                                 /\ \A q \in Processes \ {p} : Steady(q)
         \/ \E p \in Processes : /\ InV2(p) /\ pc'[p] \in {"publish", "loop"}
                                 /\ v2' = v2 \cup items[p]
                                 /\ \A q \in Processes \ {p} : Steady(q)
         \/ \E p \in Processes : /\ InV2(p) /\ pc'[p] = "idle"
                                 /\ v2' \in {v2, v2 \cup items[p]}
                                 /\ \A q \in Processes \ {p} : Steady(q)
         \/ v2' = v2 /\ \A p \in Processes : pc'[p] = "idle"
<1> DEFINE Steps == \/ /\ v2' = v2
                       /\ \A p \in Processes : /\ InV2(p) <=> InV2(p)'
                                               /\ InV2(p)' => items'[p] = items[p]
                    \/ \E p \in Processes : /\ ~InV2(p) /\ InV2(p)' /\ v2' = v2
                                            /\ \A q \in Processes \ {p} : Steady(q)
                    \/ \E p \in Processes : /\ InV2(p) /\ pc'[p] \in {"publish", "loop"}
                                            /\ v2' = v2 \cup items[p]
                                            /\ \A q \in Processes \ {p} : Steady(q)
                    \/ \E p \in Processes : /\ InV2(p) /\ pc'[p] = "idle"
                                            /\ v2' \in {v2, v2 \cup items[p]}
                                            /\ \A q \in Processes \ {p} : Steady(q)
                    \/ v2' = v2 /\ \A p \in Processes : pc'[p] = "idle"
<1>0. /\ pc \in [Processes -> {"idle", "fetch", "storeV1", "storeV2", "publish", "loop", "store"}]
      /\ items \in [Processes -> SUBSET plays]
      /\ Refreshers \subseteq Processes /\ Backfills \subseteq Processes
  BY DEF TypeOK, Processes
<1>s. ASSUME NEW p \in Processes, \A q \in Processes \ {p} : Steady(q), v2' = v2,
             InV2(p) <=> InV2(p)', InV2(p)' => items'[p] = items[p]
      PROVE  Steps
  BY <1>s DEF Steady, InV2
<1>1. ASSUME NEW r \in Refreshers, Refresh(r) \/ Publish(r) PROVE Steps
  <2>1. \A q \in Processes \ {r} : Steady(q)
    BY <1>0, <1>1 DEF Refresh, Publish, Done, Goto, Steady
  <2>2. ~InV2(r) /\ ~InV2(r)' /\ v2' = v2
    BY <1>0, <1>1 DEF Refresh, Publish, Done, Goto, InV2
  <2> QED BY <1>0, <1>s, <2>1, <2>2
<1>2. ASSUME NEW r \in Refreshers, Fetch(r) PROVE Steps
  <2>1. PICK list \in RecentlyPlayed(after[r]) :
          /\ items' = [items EXCEPT ![r] = list]
          /\ Goto(r, IF list = {} THEN "publish" ELSE "storeV1")
    BY <1>2 DEF Fetch
  <2>2. pc[r] = "fetch" /\ v2' = v2
    BY <1>2 DEF Fetch
  <2>3. \A q \in Processes \ {r} : Steady(q)
    BY <1>0, <2>1 DEF Goto, Steady
  <2>4. ~InV2(r) /\ ~InV2(r)'
    BY <1>0, <2>1, <2>2 DEF Goto, InV2
  <2> QED BY <1>0, <1>s, <2>2, <2>3, <2>4
<1>3. ASSUME NEW r \in Refreshers, StoreV1(r) \/ StoreV2(r) PROVE Steps
  BY <1>0, <1>3 DEF StoreV1, StoreV2, Goto, Steady, InV2
<1>4. ASSUME NEW r \in Refreshers, RefreshFails(r) PROVE Steps
  <2>1. /\ pc'[r] = "idle" /\ \A q \in Processes \ {r} : Steady(q)
        /\ v2' \in IF pc[r] = "storeV2" THEN {v2, v2 \cup items[r]} ELSE {v2}
        /\ pc[r] # "store"
    BY <1>0, <1>4 DEF RefreshFails, Done, Goto, Steady
  <2> QED BY <1>0, <1>s, <2>1 DEF InV2
<1>5. ASSUME NEW b \in Backfills, Backfill(b) \/ HitEnd(b) PROVE Steps
  <2>1. \A q \in Processes \ {b} : Steady(q)
    BY <1>0, <1>5 DEF Backfill, HitEnd, Done, Goto, Steady
  <2>2. ~InV2(b) /\ ~InV2(b)' /\ v2' = v2
    BY <1>0, <1>5 DEF Backfill, HitEnd, Done, Goto, InV2
  <2> QED BY <1>0, <1>s, <2>1, <2>2
<1>6. ASSUME NEW b \in Backfills, FetchMore(b) PROVE Steps
  <2>1. \A q \in Processes \ {b} : Steady(q)
    BY <1>0, <1>6 DEF FetchMore, Done, Goto, Steady
  <2>2. ~InV2(b) /\ v2' = v2 /\ pc'[b] \in {"idle", "store"}
    BY <1>0, <1>6 DEF FetchMore, Done, Goto, InV2
  <2> QED BY <1>0, <1>s, <2>1, <2>2 DEF InV2
<1>7. ASSUME NEW b \in Backfills, StoreMore(b) PROVE Steps
  BY <1>0, <1>7 DEF StoreMore, Goto, Steady, InV2
<1>8. ASSUME NEW b \in Backfills, BackfillFails(b) PROVE Steps
  <2>1. /\ pc'[b] = "idle" /\ \A q \in Processes \ {b} : Steady(q)
        /\ v2' \in IF pc[b] = "store" THEN {v2, v2 \cup items[b]} ELSE {v2}
        /\ pc[b] # "storeV2"
    BY <1>0, <1>8 DEF BackfillFails, Done, Goto, Steady
  <2> QED BY <1>0, <1>s, <2>1 DEF InV2
<1>9. CASE Crash
  BY <1>0, <1>9 DEF Crash
<1>10. CASE Tick \/ UNCHANGED vars
  BY <1>10 DEF Tick, vars, InV2
<1> QED BY <1>1, <1>2, <1>3, <1>4, <1>5, <1>6, <1>7, <1>8, <1>9, <1>10 DEF Next

V2Inv == /\ h2 \in [Processes -> [batch : SUBSET Nat, outcome : {"none", "running", "ok", "error"}]]
         /\ \A p \in Processes : /\ InV2(p) <=> h2[p].outcome = "running"
                                 /\ InV2(p) => h2[p].batch = items[p]

LEMMA V2Step ==
  ASSUME TypeOK, TypeOK', V2Inv, [CNext]_<<vars, h1, h2, returned>>
  PROVE  V2Inv' /\ [V2Store!Next]_(V2Store!vars)
<1> DEFINE batch   == [p \in Processes |-> h2[p].batch]
           outcome == [p \in Processes |-> h2[p].outcome]
           fresh   == [p \in Processes |-> FALSE]
<1>0. \A p \in Processes : items'[p] \in SUBSET Nat
  <2>1. plays' \subseteq Nat
    BY DEF TypeOK
  <2> QED BY <2>1 DEF TypeOK
<1>1. CASE UNCHANGED <<vars, h1, h2, returned>>
  BY <1>1 DEF V2Inv, InV2, vars, V2Store!vars
<1>2. CASE CNext
  <2>1. \A p \in Processes :
          /\ h2'[p].batch = IF InV2(p)' THEN items'[p] ELSE h2[p].batch
          /\ h2'[p].outcome = IF InV2(p)' THEN "running"
                              ELSE IF ~InV2(p) THEN h2[p].outcome
                              ELSE IF pc'[p] \in {"publish", "loop"} THEN "ok" ELSE "error"
    BY <1>2 DEF CNext, History, InV2
  <2>2. V2Inv'
    <3>1. h2' = [p \in Processes |-> [batch |-> h2'[p].batch, outcome |-> h2'[p].outcome]]
      BY <1>2 DEF CNext, History
    <3>2. \A p \in Processes : /\ h2'[p].batch \in SUBSET Nat
                               /\ h2'[p].outcome \in {"none", "running", "ok", "error"}
      BY <1>0, <2>1 DEF V2Inv
    <3>3. h2' \in [Processes -> [batch : SUBSET Nat, outcome : {"none", "running", "ok", "error"}]]
      BY <3>1, <3>2
    <3>4. \A p \in Processes : /\ InV2(p)' <=> h2'[p].outcome = "running"
                               /\ InV2(p)' => h2'[p].batch = items'[p]
      BY <2>1 DEF V2Inv
    <3> QED BY <3>3, <3>4 DEF V2Inv
  <2>4. /\ batch \in [Processes -> SUBSET Nat] /\ batch' \in [Processes -> SUBSET Nat]
        /\ fresh \in [Processes -> BOOLEAN] /\ fresh' = fresh
    BY <2>2 DEF V2Inv
  <2>5. /\ \A p \in Processes : batch[p] = h2[p].batch /\ batch'[p] = h2'[p].batch
        /\ \A p \in Processes : outcome[p] = h2[p].outcome /\ outcome'[p] = h2'[p].outcome
        /\ DOMAIN outcome = Processes /\ DOMAIN outcome' = Processes
        /\ outcome = [p \in Processes |-> outcome[p]] /\ outcome' = [p \in Processes |-> outcome'[p]]
    OBVIOUS
  <2>q. ASSUME NEW q \in Processes,
               \/ Steady(q)
               \/ (InV2(q) <=> InV2(q)') /\ (InV2(q)' => items'[q] = items[q])
        PROVE  batch'[q] = batch[q] /\ outcome'[q] = outcome[q]
    BY <2>1, <2>5, <2>q DEF Steady, V2Inv, InV2
  <2>o. \A p \in Processes : outcome[p] = "running" <=> InV2(p)
    BY <2>5 DEF V2Inv
  <2>b. \A p \in Processes : InV2(p) => batch[p] = items[p]
    BY <2>5 DEF V2Inv
  <2>u. \A p \in Processes : ~InV2(p)' => batch'[p] = batch[p]
    BY <2>1, <2>5
  <2>w. \A p \in Processes : ~InV2(p) /\ ~InV2(p)' => outcome'[p] = outcome[p]
    BY <2>1, <2>5
  <2>6. \/ UNCHANGED <<v2, batch, fresh, outcome>>
        \/ \E p \in Processes : V2Store!Start(p) \/ V2Store!Store(p)
        \/ \E S \in (SUBSET Processes) \ {{}} : V2Store!Fail(S)
    <3>1. CASE /\ v2' = v2
               /\ \A p \in Processes : /\ InV2(p) <=> InV2(p)'
                                       /\ InV2(p)' => items'[p] = items[p]
      <4>1. \A p \in Processes : batch'[p] = batch[p] /\ outcome'[p] = outcome[p]
        BY <2>q, <3>1
      <4>2. batch' = batch /\ outcome' = outcome
        BY <4>1
      <4> QED BY <2>4, <3>1, <4>2
    <3>2. ASSUME NEW p \in Processes, ~InV2(p), InV2(p)', v2' = v2,
                 \A q \in Processes \ {p} : Steady(q)
          PROVE  V2Store!Start(p)
      <4>1. \A q \in Processes \ {p} : batch'[q] = batch[q] /\ outcome'[q] = outcome[q]
        BY <2>q, <3>2
      <4>2. outcome[p] # "running" /\ outcome'[p] = "running"
        BY <2>1, <2>5, <2>o, <3>2
      <4> HIDE DEF batch, outcome, fresh
      <4>4. outcome' = [outcome EXCEPT ![p] = "running"]
        BY <2>5, <4>1, <4>2
      <4> QED BY <2>4, <3>2, <4>1, <4>2, <4>4 DEF V2Store!Start, batch, outcome, fresh
    <3>3. ASSUME NEW p \in Processes, InV2(p), pc'[p] \in {"publish", "loop"},
                 v2' = v2 \cup items[p], \A q \in Processes \ {p} : Steady(q)
          PROVE  V2Store!Store(p)
      <4>1. \A q \in Processes \ {p} : batch'[q] = batch[q] /\ outcome'[q] = outcome[q]
        BY <2>q, <3>3
      <4>2. outcome[p] = "running" /\ outcome'[p] = "ok" /\ batch'[p] = batch[p] /\ batch[p] = items[p]
        <5>1. ~InV2(p)'
          BY <3>3 DEF InV2
        <5> QED BY <2>1, <2>5, <2>o, <2>b, <3>3, <5>1
      <4>4. fresh[p] = FALSE
        OBVIOUS
      <4> HIDE DEF batch, outcome, fresh
      <4>5. outcome' = [outcome EXCEPT ![p] = "ok"]
        BY <2>5, <4>1, <4>2
      <4>6. batch' = batch
        BY <2>4, <4>1, <4>2
      <4> QED BY <2>4, <3>3, <4>2, <4>4, <4>5, <4>6 DEF V2Store!Store, batch, outcome, fresh
    <3>4. ASSUME NEW p \in Processes, InV2(p), pc'[p] = "idle",
                 v2' \in {v2, v2 \cup items[p]}, \A q \in Processes \ {p} : Steady(q)
          PROVE  V2Store!Store(p) \/ V2Store!Fail({p})
      <4>1. \A q \in Processes \ {p} : batch'[q] = batch[q] /\ outcome'[q] = outcome[q]
        BY <2>q, <3>4
      <4>2. outcome[p] = "running" /\ outcome'[p] = "error" /\ batch'[p] = batch[p] /\ batch[p] = items[p]
        <5>1. ~InV2(p)' /\ pc'[p] \notin {"publish", "loop"}
          BY <3>4 DEF InV2
        <5> QED BY <2>1, <2>5, <2>o, <2>b, <3>4, <5>1
      <4> HIDE DEF batch, outcome, fresh
      <4>5. outcome' = [outcome EXCEPT ![p] = "error"]
        BY <2>5, <4>1, <4>2
      <4>6. batch' = batch
        BY <2>4, <4>1, <4>2
      <4>7. outcome' = [q \in Processes |-> IF q \in {p} THEN "error" ELSE outcome[q]]
        BY <2>5, <4>1, <4>2
      <4>8. CASE v2' = v2 \cup items[p]
        BY <2>4, <4>2, <4>5, <4>6, <4>8 DEF V2Store!Store, batch, outcome, fresh
      <4>9. CASE v2' = v2
        <5>1. "error" \in V2Store!Outcome \ {"ok"}
          BY DEF V2Store!Outcome
        <5> QED BY <2>4, <4>2, <4>6, <4>7, <4>9, <5>1
                   DEF V2Store!Fail, batch, outcome, fresh
      <4> QED BY <3>4, <4>8, <4>9
    <3>5. CASE v2' = v2 /\ \A p \in Processes : pc'[p] = "idle"
      <4>s. PICK S \in SUBSET Processes : \A p \in Processes : p \in S <=> InV2(p)
        <5>1. \A p \in Processes : p \in {q \in Processes : InV2(q)} <=> InV2(p)
          OBVIOUS
        <5> QED BY <5>1
      <4>0. \A p \in Processes : ~InV2(p)' /\ pc'[p] \notin {"publish", "loop"}
        BY <3>5 DEF InV2
      <4>1. batch' = batch
        <5>1. \A p \in Processes : batch'[p] = batch[p]
          BY <2>u, <4>0
        <5> HIDE DEF batch
        <5> QED BY <2>4, <5>1
      <4>2. \A p \in Processes : outcome'[p] = IF p \in S THEN "error" ELSE outcome[p]
        BY <2>1, <2>5, <2>w, <4>0, <4>s
      <4>3. CASE S = {}
        <5>1. \A p \in Processes : outcome'[p] = outcome[p]
          BY <4>2, <4>3
        <5>2. outcome' = outcome
          BY <5>1
        <5> QED BY <2>4, <3>5, <4>1, <5>2
      <4>4. CASE S # {}
        <5>1. "error" \in V2Store!Outcome \ {"ok"}
          BY DEF V2Store!Outcome
        <5>2. \A p \in S : outcome[p] = "running"
          BY <2>o, <4>s
        <5> HIDE DEF batch, outcome, fresh
        <5>3. outcome' = [p \in Processes |-> IF p \in S THEN "error" ELSE outcome[p]]
          BY <2>5, <4>2
        <5>4. V2Store!Fail(S)
          BY <2>4, <3>5, <4>1, <5>1, <5>2, <5>3 DEF V2Store!Fail, batch, outcome, fresh
        <5> QED BY <4>4, <5>4
      <4> QED BY <4>3, <4>4
    <3>6. [Next]_vars
      BY <1>2 DEF CNext
    <3> HIDE DEF batch, outcome, fresh
    <3> QED
      <4>1. \A p \in Processes : {p} \in (SUBSET Processes) \ {{}}
        OBVIOUS
      <4> QED BY <3>1, <3>2, <3>3, <3>4, <3>5, <3>6, <4>1, V2Steps
  <2> QED BY <2>2, <2>6 DEF V2Store!Next, V2Store!vars
<1> QED BY <1>1, <1>2

(* The handlers make no other use of the two stores than AtomicStore allows:
   a batch goes in whole, while its call runs; a call that has ended does
   nothing more; and StoreV1 is taken to return exactly what was new. *)
THEOREM StoresAsPromised == CSpec => V1Store!Spec /\ V2Store!Spec
<1>1. CSpec => []TypeOK
  <2>1. CSpec => Spec
    <3>1. CInit => Init
      BY DEF CInit
    <3>2. [CNext]_<<vars, h1, h2, returned>> => [Next]_vars
      BY DEF CNext
    <3> QED BY <3>1, <3>2, PTL DEF CSpec, Spec
  <2> QED BY <2>1, TypeCorrect, PTL
<1>2. CInit => V1Inv /\ V2Inv
  BY DEF CInit, Init, NoCalls, V1Inv, V2Inv, InV2, Processes
<1>3. CInit => V1Store!Init /\ V2Store!Init
  BY DEF CInit, Init, NoCalls, V1Store!Init, V2Store!Init
<1>4. TypeOK /\ TypeOK' /\ V1Inv /\ [CNext]_<<vars, h1, h2, returned>>
        => V1Inv' /\ [V1Store!Next]_(V1Store!vars)
  BY V1Step
<1>5. TypeOK /\ TypeOK' /\ V2Inv /\ [CNext]_<<vars, h1, h2, returned>>
        => V2Inv' /\ [V2Store!Next]_(V2Store!vars)
  BY V2Step
<1> QED BY <1>1, <1>2, <1>3, <1>4, <1>5, PTL DEF CSpec, V1Store!Spec, V2Store!Spec
=============================================================================
