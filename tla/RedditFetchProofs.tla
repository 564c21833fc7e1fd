-------------------------- MODULE RedditFetchProofs --------------------------
(***************************************************************************)
(* Theorems about RedditFetch, for every listing, every size of a page and *)
(* any number of goroutines.                                               *)
(***************************************************************************)
EXTENDS RedditFetch, FiniteSetTheorems, TLAPS

(* A post that stayed in the listing has been fetched, or it comes after the
   cursor, which is then further down than all the cursors used before. *)
Found(w) ==
  \A p \in held[w] :
    \/ p \in got[w]
    \/ /\ cursor[w] \in Posts /\ NoCursor \notin seen[w]
       /\ at[p] < at[cursor[w]]
       /\ \A c \in seen[w] : at[cursor[w]] < at[c]

FetchInv ==
  /\ TypeOK
  /\ \A w \in Workers : held[w] \subseteq saved
  /\ \A w \in Workers : pc[w] = "first" => got[w] = {} /\ seen[w] = {}
  /\ \A w \in Workers : pc[w] = "loop" /\ grabAll[w] /\ ~moved[w] => Found(w)

USE ListingAssumption

(* Of the posts after a cursor, a page has an upper part: what it leaves out
   comes after the cursor it names. *)
LEMMA PageCut ==
  ASSUME TypeOK, NEW c \in Posts \cup {NoCursor}, NEW page \in Pages(c)
  PROVE  /\ page.posts \subseteq Posts /\ page.after \in Posts \cup {NoCursor}
         /\ \A p \in Following(c) :
              \/ p \in page.posts
              \/ /\ page.after \in Following(c)
                 /\ at[p] < at[page.after]
<1> DEFINE F == Following(c)
           Above(p) == {q \in F : at[q] > at[p]}
           posts == {p \in F : Cardinality(Above(p)) < PageSize}
           last == {p \in posts : \A q \in posts : at[p] <= at[q]}
<1>1. F \subseteq Posts /\ IsFiniteSet(F)
  <2>1. F \subseteq Posts
    BY DEF Following, TypeOK
  <2> QED BY <2>1, FS_Subset
<1>2. \A p \in F : at[p] \in Nat
  BY <1>1 DEF TypeOK
<1>3. /\ page.posts = posts
      /\ page.after \in last \cup {NoCursor}
      /\ posts # F => page.after \in last
  BY DEF Pages
<1>4. ASSUME NEW p \in F, p \notin posts, NEW l \in posts
      PROVE  at[p] < at[l]
  <2>1. SUFFICES ASSUME at[l] <= at[p] PROVE FALSE
    BY <1>2
  <2>2. Above(p) \subseteq Above(l)
    <3> SUFFICES ASSUME NEW q \in Above(p) PROVE q \in Above(l)
      OBVIOUS
    <3> QED BY <1>2, <2>1
  <2>3. IsFiniteSet(Above(l))
    <3>1. Above(l) \subseteq F
      OBVIOUS
    <3> QED BY <1>1, <3>1, FS_Subset
  <2> HIDE DEF Above
  <2>4. Cardinality(Above(p)) <= Cardinality(Above(l))
    BY <2>2, <2>3, FS_Subset
  <2>5. IsFiniteSet(Above(p))
    BY <2>2, <2>3, FS_Subset
  <2>6. Cardinality(Above(p)) \in Nat /\ Cardinality(Above(l)) \in Nat
    BY <2>3, <2>5, FS_CardinalityType
  <2>7. Cardinality(Above(l)) < PageSize
    OBVIOUS
  <2>8. ~(Cardinality(Above(p)) < PageSize)
    BY <1>4
  <2> QED BY <2>4, <2>6, <2>7, <2>8
<1>5. posts \subseteq F /\ last \subseteq posts
  OBVIOUS
<1> HIDE DEF F, posts, last
<1>6. ASSUME NEW p \in F, p \notin page.posts
      PROVE  page.after \in F /\ at[p] < at[page.after]
  <2>1. page.after \in posts
    BY <1>3, <1>5, <1>6
  <2> QED BY <1>3, <1>4, <1>5, <1>6, <2>1
<1>7. page.posts \subseteq Posts /\ page.after \in Posts \cup {NoCursor}
  BY <1>1, <1>3, <1>5
<1> QED BY <1>6, <1>7 DEF F

LEMMA FetchInit == Init => FetchInv
<1> SUFFICES ASSUME Init PROVE FetchInv
  OBVIOUS
<1>1. saved \subseteq Posts
  BY DEF Init
<1>2. at \in [Posts -> 0 .. saves] /\ saves \in Nat
  <2> SUFFICES ASSUME NEW p \in Posts PROVE at[p] \in 0 .. saves
    BY DEF Init
  <2>1. CASE \E i \in DOMAIN Listing : Listing[i] = p
    <3>1. at[p] \in DOMAIN Listing
      BY <2>1 DEF Init
    <3> QED BY <3>1 DEF Init
  <2>2. CASE ~\E i \in DOMAIN Listing : Listing[i] = p
    BY <2>2 DEF Init
  <2> QED BY <2>1, <2>2
<1> QED BY <1>1, <1>2 DEF Init, FetchInv, TypeOK

(* A page keeps what was found, and finds what comes after the cursor. *)
LEMMA PageFinds ==
  ASSUME FetchInv, NEW w \in Workers, NEW c \in Posts \cup {NoCursor}, TakePage(w, c),
         held' = held, at' = at, seen' = [seen EXCEPT ![w] = @ \cup ({c} \ {NoCursor})],
         c \in Posts => c \notin seen[w] /\ NoCursor \notin seen[w]
                        /\ \A d \in seen[w] : at[c] < at[d],
         c = NoCursor => seen[w] = {},
         \A p \in held[w] : p \in got[w] \/ p \in Following(c)
  PROVE  Found(w)'
<1>1. PICK page \in Pages(c) : /\ got' = [got EXCEPT ![w] = @ \cup page.posts]
                               /\ cursor' = [cursor EXCEPT ![w] = page.after]
  BY DEF TakePage
<1>2. /\ got'[w] = got[w] \cup page.posts /\ cursor'[w] = page.after
      /\ seen'[w] = seen[w] \cup ({c} \ {NoCursor})
      /\ held'[w] = held[w] /\ at' = at
  BY <1>1 DEF FetchInv, TypeOK
<1>3. held[w] \subseteq saved /\ saved \subseteq Posts /\ at \in [Posts -> Nat]
      /\ seen[w] \subseteq Posts \cup {NoCursor}
  BY DEF FetchInv, TypeOK
<1> SUFFICES ASSUME NEW p \in held[w], p \notin got'[w]
             PROVE  /\ page.after \in Posts /\ NoCursor \notin seen'[w]
                    /\ at[p] < at[page.after]
                    /\ \A d \in seen'[w] : at[page.after] < at[d]
  BY <1>2 DEF Found
<1>4. p \in Following(c) /\ p \notin page.posts
  BY <1>2
<1>5. page.after \in Following(c) /\ at[p] < at[page.after]
  BY <1>4, PageCut DEF FetchInv
<1>6. page.after \in Posts
  BY <1>3, <1>5 DEF Following
<1>7. CASE c = NoCursor
  BY <1>2, <1>5, <1>6, <1>7
<1>8. CASE c \in Posts
  <2>1. at[page.after] < at[c]
    BY <1>5, <1>8 DEF Following
  <2>2. NoCursor \notin seen'[w]
    BY <1>2, <1>8
  <2>3. \A d \in seen[w] : d \in Posts
    BY <1>3, <1>8
  <2>4. ASSUME NEW d \in seen'[w] PROVE at[page.after] < at[d]
    <3>1. d = c \/ (d \in seen[w] /\ at[c] < at[d] /\ at[d] \in Nat)
      BY <1>2, <1>3, <1>8, <2>3
    <3> QED BY <2>1, <3>1, <1>3, <1>6, <1>8
  <2> QED BY <1>5, <1>6, <2>2, <2>4
<1> QED BY <1>7, <1>8

(* What one worker does leaves Found of the others alone. *)
LEMMA OthersFound ==
  ASSUME FetchInv, NEW w \in Workers, NEW v \in Workers, v # w, UNCHANGED listing,
         got' = [got EXCEPT ![w] = got'[w]], cursor' = [cursor EXCEPT ![w] = cursor'[w]],
         seen' = [seen EXCEPT ![w] = seen'[w]], held' = [held EXCEPT ![w] = held'[w]],
         Found(v)
  PROVE  Found(v)'
<1>1. got'[v] = got[v] /\ cursor'[v] = cursor[v] /\ seen'[v] = seen[v]
      /\ held'[v] = held[v] /\ at' = at
  BY DEF FetchInv, TypeOK, listing
<1> QED BY <1>1 DEF Found

LEMMA FetchNext == FetchInv /\ [Next]_vars => FetchInv'
<1> SUFFICES ASSUME FetchInv, [Next]_vars PROVE FetchInv'
  OBVIOUS
<1> USE DEF listing
<1>1. ASSUME NEW w \in Workers, Fetch(w) PROVE FetchInv'
  <2>1. PICK u \in Users, all \in BOOLEAN :
          user' = [user EXCEPT ![w] = u] /\ grabAll' = [grabAll EXCEPT ![w] = all]
    BY <1>1 DEF Fetch
  <2>2. TypeOK'
    BY <1>1, <2>1 DEF Fetch, FetchInv, TypeOK
  <2>3. \A v \in Workers : held'[v] \subseteq saved'
    BY <1>1 DEF Fetch, FetchInv, TypeOK
  <2>4. \A v \in Workers : pc'[v] = "first" => got'[v] = {} /\ seen'[v] = {}
    BY <1>1 DEF Fetch, FetchInv, TypeOK
  <2>5. ASSUME NEW v \in Workers, pc'[v] = "loop", grabAll'[v], ~moved'[v] PROVE Found(v)'
    <3>1. v # w /\ pc[v] = "loop" /\ grabAll[v] /\ ~moved[v] /\ held'[v] = held[v]
      BY <1>1, <2>1, <2>5 DEF Fetch, FetchInv, TypeOK
    <3>2. Found(v)
      BY <3>1 DEF FetchInv
    <3> QED BY <1>1, <3>1, <3>2 DEF Fetch, Found
  <2> QED BY <2>2, <2>3, <2>4, <2>5 DEF FetchInv
<1>2. ASSUME NEW w \in Workers, NEW c \in Posts \cup {NoCursor}, TakePage(w, c),
             UNCHANGED <<listing, owner, user, grabAll, held, moved>>,
             pc' \in {pc, [pc EXCEPT ![w] = "loop"]}, pc[w] # "idle", pc'[w] = "loop",
             seen' = [seen EXCEPT ![w] = seen'[w]],
             seen'[w] \subseteq Posts \cup {NoCursor},
             grabAll[w] /\ ~moved[w] => Found(w)'
      PROVE  FetchInv'
  <2>1. PICK page \in Pages(c) : /\ got' = [got EXCEPT ![w] = @ \cup page.posts]
                                 /\ cursor' = [cursor EXCEPT ![w] = page.after]
    BY <1>2 DEF TakePage
  <2>2. page.posts \subseteq Posts /\ page.after \in Posts \cup {NoCursor}
    BY PageCut DEF FetchInv
  <2>3. /\ got' \in [Workers -> SUBSET Posts] /\ cursor' \in [Workers -> Posts \cup {NoCursor}]
        /\ seen' \in [Workers -> SUBSET (Posts \cup {NoCursor})]
        /\ pc' \in [Workers -> {"idle", "first", "loop"}]
        /\ \A v \in Workers \ {w} : /\ pc'[v] = pc[v] /\ got'[v] = got[v]
                                    /\ seen'[v] = seen[v] /\ cursor'[v] = cursor[v]
    BY <1>2, <2>1, <2>2 DEF FetchInv, TypeOK
  <2>4. \A v \in Workers : pc'[v] = "idle" => got'[v] = {} /\ seen'[v] = {}
    BY <1>2, <2>3 DEF FetchInv, TypeOK
  <2>5. TypeOK'
    BY <1>2, <2>3, <2>4 DEF FetchInv, TypeOK
  <2>6. \A v \in Workers : pc'[v] = "first" => got'[v] = {} /\ seen'[v] = {}
    BY <1>2, <2>3 DEF FetchInv
  <2>7. ASSUME NEW v \in Workers, pc'[v] = "loop", grabAll'[v], ~moved'[v] PROVE Found(v)'
    <3>1. CASE v = w
      BY <1>2, <2>7, <3>1
    <3>2. CASE v # w
      <4>1. Found(v)
        BY <1>2, <2>3, <2>7, <3>2 DEF FetchInv
      <4> QED BY <1>2, <2>3, <3>2, <4>1 DEF Found
    <3> QED BY <3>1, <3>2
  <2> QED BY <1>2, <2>5, <2>6, <2>7 DEF FetchInv
<1>3. ASSUME NEW w \in Workers, FirstPage(w) PROVE FetchInv'
  <2>1. seen[w] = {} /\ held[w] \subseteq saved
    BY <1>3 DEF FirstPage, FetchInv
  <2>2. seen' = [seen EXCEPT ![w] = @ \cup ({NoCursor} \ {NoCursor})]
        /\ seen' = [seen EXCEPT ![w] = seen'[w]] /\ seen'[w] \subseteq Posts \cup {NoCursor}
    BY <1>3 DEF FirstPage, FetchInv, TypeOK
  <2>3. \A p \in held[w] : p \in Following(NoCursor)
    BY <2>1 DEF Following
  <2>4. Found(w)'
    BY <1>3, <2>1, <2>2, <2>3, PageFinds DEF FirstPage
  <2>5. pc'[w] = "loop"
    BY <1>3 DEF FirstPage, FetchInv, TypeOK
  <2> QED BY <1>2, <1>3, <2>2, <2>4, <2>5 DEF FirstPage
<1>4. ASSUME NEW w \in Workers, NextPage(w) PROVE FetchInv'
  <2>1. /\ pc[w] = "loop" /\ grabAll[w] /\ cursor[w] \notin seen[w]
        /\ cursor[w] \in Posts \cup {NoCursor} /\ seen[w] \subseteq Posts \cup {NoCursor}
        /\ held[w] \subseteq saved /\ saved \subseteq Posts
        /\ UNCHANGED <<listing, held>>
    BY <1>4 DEF NextPage, More, FetchInv, TypeOK
  <2>2. /\ seen'[w] = seen[w] \cup {cursor[w]}
        /\ seen' = [seen EXCEPT ![w] = seen'[w]]
    BY <1>4 DEF NextPage, FetchInv, TypeOK
  <2>3. ASSUME ~moved[w] PROVE Found(w)'
    <3>1. Found(w)
      BY <2>1, <2>3 DEF FetchInv
    <3>2. CASE held[w] \subseteq got[w]
      <4>1. got[w] \subseteq got'[w]
        BY <1>4 DEF NextPage, TakePage, FetchInv, TypeOK
      <4> QED BY <2>1, <3>2, <4>1 DEF Found
    <3>3. CASE ~(held[w] \subseteq got[w])
      <4>1. /\ cursor[w] \in Posts /\ NoCursor \notin seen[w]
            /\ \A d \in seen[w] : at[cursor[w]] < at[d]
        BY <3>1, <3>3 DEF Found
      <4>2. seen' = [seen EXCEPT ![w] = @ \cup ({cursor[w]} \ {NoCursor})]
        BY <1>4, <4>1 DEF NextPage
      <4>3. \A p \in held[w] : p \in got[w] \/ p \in Following(cursor[w])
        BY <2>1, <3>1 DEF Found, Following
      <4> QED BY <1>4, <2>1, <4>1, <4>2, <4>3, PageFinds DEF NextPage
    <3> QED BY <3>2, <3>3
  <2> QED BY <1>2, <1>4, <2>1, <2>2, <2>3 DEF NextPage
<1>5. ASSUME NEW w \in Workers, Done(w), UNCHANGED listing,
             owner' \in [Posts -> Users \cup {NoUser}]
      PROVE  FetchInv'
  <2>1. TypeOK'
    BY <1>5 DEF Done, FetchInv, TypeOK
  <2>2. \A v \in Workers : held'[v] \subseteq saved'
    BY <1>5 DEF Done, FetchInv, TypeOK
  <2>3. \A v \in Workers : pc'[v] = "first" => got'[v] = {} /\ seen'[v] = {}
    BY <1>5 DEF Done, FetchInv, TypeOK
  <2>4. ASSUME NEW v \in Workers, pc'[v] = "loop", grabAll'[v], ~moved'[v] PROVE Found(v)'
    <3>1. v # w /\ pc[v] = "loop" /\ grabAll[v] /\ ~moved[v]
      BY <1>5, <2>4 DEF Done, FetchInv, TypeOK
    <3>2. Found(v)
      BY <3>1 DEF FetchInv
    <3> QED BY <1>5, <3>1, <3>2, OthersFound DEF Done, FetchInv, TypeOK
  <2> QED BY <2>1, <2>2, <2>3, <2>4 DEF FetchInv
<1>6. ASSUME NEW w \in Workers, PersistPosts(w) \/ FetchFails(w) PROVE FetchInv'
  <2>1. owner' \in {owner, Upserted(w)} /\ Done(w) /\ UNCHANGED listing
    BY <1>6 DEF PersistPosts, FetchFails
  <2>2. Upserted(w) \in [Posts -> Users \cup {NoUser}]
    BY DEF FetchInv, TypeOK, Upserted
  <2>3. owner' \in [Posts -> Users \cup {NoUser}]
    BY <2>1, <2>2 DEF FetchInv, TypeOK
  <2> QED BY <1>5, <2>1, <2>3
<1>7. ASSUME NEW x \in Posts, SavePost(x) PROVE FetchInv'
  <2>1. TypeOK'
    BY <1>7 DEF SavePost, FetchInv, TypeOK
  <2>2. ASSUME NEW v \in Workers, pc'[v] = "loop", grabAll'[v], ~moved'[v] PROVE Found(v)'
    <3>1. ~moved[v] /\ x \notin seen[v] /\ x # cursor[v]
      BY <1>7, <2>2 DEF SavePost
    <3>2. Found(v)
      BY <1>7, <2>2, <3>1 DEF SavePost, FetchInv
    <3>3. \A q \in Posts \ {x} : at'[q] = at[q]
      BY <1>7 DEF SavePost, FetchInv, TypeOK
    <3>4. x \notin held[v] /\ held[v] \subseteq Posts /\ seen[v] \subseteq Posts \cup {NoCursor}
      BY <1>7 DEF SavePost, FetchInv, TypeOK
    <3>5. \A p \in held[v] : at'[p] = at[p]
      BY <3>3, <3>4
    <3>6. cursor[v] \in Posts => at'[cursor[v]] = at[cursor[v]]
      BY <3>1, <3>3
    <3>7. \A c \in seen[v] : c # NoCursor => at'[c] = at[c]
      BY <3>1, <3>3, <3>4
    <3>8. UNCHANGED <<held, got, cursor, seen>>
      BY <1>7 DEF SavePost
    <3> QED BY <3>2, <3>5, <3>6, <3>7, <3>8 DEF Found
  <2> QED BY <1>7, <2>1, <2>2 DEF SavePost, FetchInv
<1>8. ASSUME NEW x \in Posts, UnsavePost(x) PROVE FetchInv'
  <2>1. TypeOK'
    BY <1>8 DEF UnsavePost, FetchInv, TypeOK
  <2>2. \A v \in Workers : held'[v] = held[v] \ {x}
    BY <1>8 DEF UnsavePost
  <2>3. ASSUME NEW v \in Workers, pc'[v] = "loop", grabAll'[v], ~moved'[v] PROVE Found(v)'
    <3>1. Found(v)
      BY <1>8, <2>3 DEF UnsavePost, FetchInv
    <3> QED BY <1>8, <2>2, <3>1 DEF UnsavePost, Found
  <2> QED BY <1>8, <2>1, <2>2, <2>3 DEF UnsavePost, FetchInv
<1>9. CASE Crash
  BY <1>9 DEF Crash, FetchInv, TypeOK
<1>10. CASE UNCHANGED vars
  BY <1>10 DEF vars, FetchInv, TypeOK, Found
<1> QED
  BY <1>1, <1>3, <1>4, <1>6, <1>7, <1>8, <1>9, <1>10 DEF Next

(* The variables of Fetch stay well typed and are new for each run. *)
THEOREM FetchTypes == Spec => []TypeOK
<1>1. FetchInv => TypeOK
  BY DEF FetchInv
<1> QED BY FetchInit, FetchNext, <1>1, PTL DEF Spec

(* However the listing changes between its pages, a backfill misses no post
   that stayed saved, unless one of its cursors moved. *)
THEOREM BackfillComplete == Spec => []FetchComplete
<1>1. FetchInv => FetchComplete
  <2> SUFFICES ASSUME FetchInv, NEW w \in Workers, LoopDone(w), grabAll[w], ~moved[w],
                      NEW p \in held[w]
               PROVE  p \in got[w]
    BY DEF FetchComplete
  <2>1. Found(w) /\ cursor[w] \in seen[w]
    BY DEF LoopDone, More, FetchInv
  <2>2. cursor[w] \in Posts => at[cursor[w]] \in Nat
    BY DEF FetchInv, TypeOK
  <2> QED BY <2>1, <2>2 DEF Found
<1> QED BY FetchInit, FetchNext, <1>1, PTL DEF Spec

(* A row stays with the user who stored it first. *)
THEOREM RowsKeepTheirOwner == Spec => OwnersKept
<1>1. FetchInv /\ [Next]_vars
        => [\A p \in Posts : owner[p] # NoUser => owner'[p] = owner[p]]_vars
  <2> SUFFICES ASSUME FetchInv, Next, NEW p \in Posts, owner[p] # NoUser
               PROVE  owner'[p] = owner[p]
    OBVIOUS
  <2>1. \A w \in Workers : Upserted(w)[p] = owner[p]
    BY DEF Upserted
  <2>2. owner' = owner \/ \E w \in Workers : owner' = Upserted(w)
    BY DEF Next, Fetch, FirstPage, NextPage, PersistPosts, FetchFails, Crash,
           SavePost, UnsavePost
  <2> QED BY <2>1, <2>2
<1> QED BY FetchInit, FetchNext, <1>1, PTL DEF Spec, OwnersKept

(* The cursors that w can still ask for a page with. *)
Unseen(w) == (Posts \cup {NoCursor}) \ seen[w]

(* The requests of a backfill run out, however the listing grows and is
   shuffled while it runs: every page takes one of finitely many cursors, and
   none comes back before Fetch returns. *)
THEOREM RequestsRunOut ==
  Spec => [][\A w \in Workers :
               /\ Cardinality(Unseen(w)) \in Nat
               /\ pc[w] # "idle" /\ pc'[w] # "idle"
                    => Cardinality(Unseen(w)') <= Cardinality(Unseen(w))
               /\ NextPage(w) => Cardinality(Unseen(w)') < Cardinality(Unseen(w))]_vars
<1> DEFINE RunsOut(w) == /\ Cardinality(Unseen(w)) \in Nat
                         /\ pc[w] # "idle" /\ pc'[w] # "idle"
                              => Cardinality(Unseen(w)') <= Cardinality(Unseen(w))
                         /\ NextPage(w) => Cardinality(Unseen(w)') < Cardinality(Unseen(w))
<1>1. ASSUME TypeOK, Next, NEW w \in Workers PROVE RunsOut(w)
  <2>1. IsFiniteSet(Unseen(w)) /\ Cardinality(Unseen(w)) \in Nat
    <3>1. IsFiniteSet(Posts \cup {NoCursor})
      BY FS_AddElement
    <3> QED BY <3>1, FS_Subset, FS_CardinalityType DEF Unseen
  <2>2. ASSUME pc[w] # "idle", pc'[w] # "idle" PROVE Unseen(w)' \subseteq Unseen(w)
    <3>1. ASSUME NEW v \in Workers,
                 Fetch(v) \/ FirstPage(v) \/ NextPage(v) \/ PersistPosts(v) \/ FetchFails(v)
          PROVE  seen[w] \subseteq seen'[w]
      <4>1. seen \in [Workers -> SUBSET (Posts \cup {NoCursor})] /\ pc \in [Workers -> {"idle", "first", "loop"}]
        BY <1>1 DEF TypeOK
      <4>2. CASE Fetch(v) \/ FirstPage(v)
        BY <4>2 DEF Fetch, FirstPage
      <4>3. CASE NextPage(v)
        BY <4>1, <4>3 DEF NextPage
      <4>4. CASE Done(v)
        <5>1. v # w
          BY <2>2, <4>1, <4>4 DEF Done
        <5> QED BY <4>1, <4>4, <5>1 DEF Done
      <4> QED BY <3>1, <4>2, <4>3, <4>4 DEF PersistPosts, FetchFails
    <3>2. ASSUME NEW p \in Posts, SavePost(p) \/ UnsavePost(p) PROVE seen[w] \subseteq seen'[w]
      BY <3>2 DEF SavePost, UnsavePost
    <3>3. ~Crash
      BY <2>2 DEF Crash
    <3>4. seen[w] \subseteq seen'[w]
      BY <1>1, <3>1, <3>2, <3>3 DEF Next
    <3> QED BY <3>4 DEF Unseen
  <2>3. ASSUME NextPage(w)
        PROVE  /\ cursor[w] \in Unseen(w) /\ Unseen(w)' = Unseen(w) \ {cursor[w]}
    BY <1>1, <2>3 DEF NextPage, More, Unseen, TypeOK
  <2>4. pc[w] # "idle" /\ pc'[w] # "idle" => Cardinality(Unseen(w)') <= Cardinality(Unseen(w))
    <3> SUFFICES ASSUME Unseen(w)' \in SUBSET Unseen(w)
                 PROVE  Cardinality(Unseen(w)') <= Cardinality(Unseen(w))
      BY <2>2
    <3> QED BY <2>1, FS_Subset
  <2>5. NextPage(w) => Cardinality(Unseen(w)') < Cardinality(Unseen(w))
    <3> SUFFICES ASSUME NextPage(w) PROVE Cardinality(Unseen(w)') < Cardinality(Unseen(w))
      OBVIOUS
    <3>1. Cardinality(Unseen(w) \ {cursor[w]}) = Cardinality(Unseen(w)) - 1
      BY <2>1, <2>3, FS_RemoveElement
    <3>2. Unseen(w)' = Unseen(w) \ {cursor[w]}
      BY <2>3
    <3> QED BY <2>1, <3>1, <3>2
  <2> QED BY <2>1, <2>4, <2>5
<1>2. TypeOK /\ [Next]_vars => [\A w \in Workers : RunsOut(w)]_vars
  BY <1>1
<1> QED BY <1>2, FetchTypes, PTL DEF Spec
=============================================================================
