------------------------- MODULE SpotifyReadsProofs -------------------------
(***************************************************************************)
(* Theorems about SpotifyReads: what reading plays back answers, for any   *)
(* number of handlers and users, every history and every catalogue, edited *)
(* any number of times.                                                    *)
(***************************************************************************)
EXTENDS SpotifyReads, FiniteSetTheorems, SequenceTheorems, TLAPS

USE ReadsAssumption

TrackRow  == [id : Tracks, name : Names]
ArtistRow == [id : Artists, name : Names]
PlayedRow == {p \in [id : DOMAIN History, track : Tracks] : p.track = History[p.id]}

(* The plays as the API describes them, and the rows of StoreV1. *)
PlayRow ==
  {r \in [id : DOMAIN History, track : Tracks, title : Names, artists : Seq(ArtistRow)] :
     r.track = History[r.id]}

SongRow == {r \in PlayRow : HasArtists(r)}

(* A table of StoreV2 has finitely many rows of its type, one for each key. *)
Table(rows, type) == rows \subseteq type /\ IsFiniteSet(rows) /\ Keyed(rows)

CatalogueInv == /\ title \in [Tracks -> Names] /\ by \in [Tracks -> Credited]
                /\ name \in [Artists -> Names] /\ edits \in Nat

TablesInv == /\ Table(songs, SongRow) /\ Table(tracks, TrackRow)
             /\ Table(artists, ArtistRow) /\ Table(played, PlayedRow)
             /\ IsFiniteSet(credits) /\ credits \subseteq Ids(tracks) \X Ids(artists)

(* What a play joins with. *)
JoinInv == /\ bare \subseteq Tracks
           /\ \A p \in played : /\ p.track \in Ids(tracks)
                                /\ \/ \E c \in credits : c[1] = p.track
                                   \/ p.track \in bare

CallsInv == /\ stage \in [Handlers -> {"idle", "v1", "v2"}]
            /\ items \in [Handlers -> SUBSET PlayRow]
            /\ \A h \in Handlers : IsFiniteSet(items[h]) /\ Keyed(items[h])
            /\ lost \subseteq DOMAIN History

RowsInv == CatalogueInv /\ TablesInv /\ JoinInv /\ CallsInv

-----------------------------------------------------------------------------
(* Sets that are images. *)
LEMMA ImageFinite ==
  ASSUME NEW S, IsFiniteSet(S), NEW f, DOMAIN f = S, NEW T, T = {f[x] : x \in S}
  PROVE  IsFiniteSet(T) /\ Cardinality(T) <= Cardinality(S)
<1> DEFINE g == [x \in S |-> f[x]]
<1>1. g \in Surjection(S, T)
  BY DEF Surjection
<1> HIDE DEF g
<1> QED BY <1>1, FS_Surjection

(* A finite set of rows as large as the set of its keys has each key once. *)
LEMMA KeysCount ==
  ASSUME NEW S, IsFiniteSet(S), Cardinality(S) = Cardinality(Ids(S))
  PROVE  Keyed(S)
<1> DEFINE f == [r \in S |-> r.id]
<1>1. f \in Surjection(S, Ids(S))
  BY DEF Surjection, Ids
<1>2. f \in Injection(S, Ids(S))
  <2> HIDE DEF f
  <2> QED BY <1>1, FS_SurjSameCardinalityImpliesInj
<1>3. \A r, q \in S : f[r] = f[q] => r = q
  <2> HIDE DEF f
  <2> QED BY <1>1, <1>2 DEF Injection, Surjection, IsInjective
<1> QED BY <1>3 DEF Keyed

(* What a table is after an insert that does nothing on a conflict. *)
LEMMA Inserted ==
  ASSUME NEW type, NEW table, Table(table, type),
         NEW rows \in SUBSET type, IsFiniteSet(rows),
         NEW result \in InsertNew(table, rows)
  PROVE  /\ Table(result, type)
         /\ table \subseteq result /\ result \subseteq table \cup rows
         /\ Ids(result) = Ids(table) \cup Ids(rows)
<1> DEFINE new == {r \in rows : r.id \notin Ids(table)}
<1>1. PICK T \in SUBSET new : /\ Ids(T) = Ids(new)
                              /\ Cardinality(T) = Cardinality(Ids(T))
                              /\ result = table \cup T
  BY DEF InsertNew
<1>2. IsFiniteSet(new) /\ IsFiniteSet(T)
  <2>1. new \in SUBSET rows
    OBVIOUS
  <2>2. IsFiniteSet(new)
    <3> HIDE DEF new
    <3> QED BY <2>1, FS_Subset
  <2> QED BY <2>2, FS_Subset
<1>3. Keyed(T)
  BY <1>1, <1>2, KeysCount
<1>4. Ids(result) = Ids(table) \cup Ids(rows)
  <2>1. Ids(rows) \subseteq Ids(table) \cup Ids(new)
    BY DEF Ids
  <2>2. Ids(new) \subseteq Ids(rows)
    BY DEF Ids
  <2>3. Ids(result) = Ids(table) \cup Ids(T)
    BY <1>1 DEF Ids
  <2> QED BY <1>1, <2>1, <2>2, <2>3
<1>5. Keyed(result)
  BY <1>1, <1>3 DEF Table, Keyed, Ids
<1>6. IsFiniteSet(result)
  BY <1>1, <1>2, FS_Union DEF Table
<1> QED BY <1>1, <1>4, <1>5, <1>6 DEF Table

(* The artists of plays. *)
LEMMA CreditType ==
  ASSUME NEW r \in PlayRow
  PROVE  /\ Credit(r) \subseteq ArtistRow /\ IsFiniteSet(Credit(r))
         /\ HasArtists(r) => Credit(r) # {}
         /\ r.track \in Tracks
<1>1. r.artists \in Seq(ArtistRow) /\ r.track \in Tracks
  BY DEF PlayRow
<1>2. Len(r.artists) \in Nat /\ DOMAIN r.artists = 1 .. Len(r.artists)
  BY <1>1, LenProperties
<1>3. Credit(r) \subseteq ArtistRow
  BY <1>1, <1>2, ElementOfSeq DEF Credit
<1>4. IsFiniteSet(DOMAIN r.artists)
  BY <1>2, FS_Interval
<1>5. IsFiniteSet(Credit(r))
  BY <1>4, ImageFinite DEF Credit
<1>6. HasArtists(r) => 1 \in DOMAIN r.artists
  BY <1>1, <1>2, EmptySeq DEF HasArtists
<1>7. HasArtists(r) => r.artists[1] \in Credit(r)
  BY <1>6 DEF Credit
<1> QED BY <1>1, <1>3, <1>5, <1>7

(* The parts of what plays insert into StoreV2. *)
TracksOf(rows)  == {[id |-> r.track, name |-> r.title] : r \in rows}
ArtistsOf(rows) == UNION {Credit(r) : r \in rows}
CreditsOf(rows) == UNION {{<<r.track, a.id>> : a \in Credit(r)} : r \in rows}
PlayedOf(rows)  == {[id |-> r.id, track |-> r.track] : r \in rows}

LEMMA PartsIds ==
  ASSUME NEW rows
  PROVE  /\ \A r \in rows : r.track \in Ids(TracksOf(rows))
         /\ \A i \in Ids(TracksOf(rows)) : \E r \in rows : r.track = i
         /\ Ids(PlayedOf(rows)) = Ids(rows)
<1>1. ASSUME NEW r \in rows
      PROVE  r.track \in Ids(TracksOf(rows)) /\ r.id \in Ids(PlayedOf(rows))
  <2>1. [id |-> r.track, name |-> r.title].id = r.track
    OBVIOUS
  <2>2. [id |-> r.id, track |-> r.track].id = r.id
    OBVIOUS
  <2>3. [id |-> r.track, name |-> r.title] \in TracksOf(rows)
    BY DEF TracksOf
  <2>4. [id |-> r.id, track |-> r.track] \in PlayedOf(rows)
    BY DEF PlayedOf
  <2> QED BY <2>1, <2>2, <2>3, <2>4, Zenon DEF Ids
<1>2. ASSUME NEW i \in Ids(TracksOf(rows)) PROVE \E r \in rows : r.track = i
  <2>1. PICK t \in TracksOf(rows) : t.id = i
    BY Zenon DEF Ids
  <2>2. PICK r \in rows : t = [id |-> r.track, name |-> r.title]
    BY DEF TracksOf
  <2> QED BY <2>1, <2>2
<1>3. ASSUME NEW i \in Ids(PlayedOf(rows)) PROVE i \in Ids(rows)
  <2>1. PICK p \in PlayedOf(rows) : p.id = i
    BY Zenon DEF Ids
  <2>2. PICK r \in rows : p = [id |-> r.id, track |-> r.track]
    BY DEF PlayedOf
  <2>3. r.id = i
    BY <2>1, <2>2
  <2> QED BY <2>3 DEF Ids
<1>4. \A i \in Ids(rows) : i \in Ids(PlayedOf(rows))
  BY <1>1 DEF Ids
<1> QED BY <1>1, <1>2, <1>3, <1>4

LEMMA PartsFinite ==
  ASSUME NEW rows \in SUBSET PlayRow, IsFiniteSet(rows)
  PROVE  /\ TracksOf(rows) \in SUBSET TrackRow /\ IsFiniteSet(TracksOf(rows))
         /\ ArtistsOf(rows) \in SUBSET ArtistRow /\ IsFiniteSet(ArtistsOf(rows))
         /\ PlayedOf(rows) \in SUBSET PlayedRow /\ IsFiniteSet(PlayedOf(rows))
         /\ IsFiniteSet(CreditsOf(rows))
<1>1. \A r \in rows : Credit(r) \subseteq ArtistRow /\ IsFiniteSet(Credit(r))
  BY CreditType
<1>2. TracksOf(rows) \in SUBSET TrackRow
  BY DEF TracksOf, TrackRow, PlayRow
<1>3. PlayedOf(rows) \in SUBSET PlayedRow
  BY DEF PlayedOf, PlayedRow, PlayRow
<1>4. ArtistsOf(rows) \in SUBSET ArtistRow
  BY <1>1 DEF ArtistsOf
<1>5. IsFiniteSet(TracksOf(rows))
  <2> DEFINE f == [r \in rows |-> [id |-> r.track, name |-> r.title]]
  <2>1. DOMAIN f = rows /\ TracksOf(rows) = {f[r] : r \in rows}
    BY DEF TracksOf
  <2> HIDE DEF f
  <2> QED BY <2>1, ImageFinite
<1>6. IsFiniteSet(PlayedOf(rows))
  <2> DEFINE f == [r \in rows |-> [id |-> r.id, track |-> r.track]]
  <2>1. DOMAIN f = rows /\ PlayedOf(rows) = {f[r] : r \in rows}
    BY DEF PlayedOf
  <2> HIDE DEF f
  <2> QED BY <2>1, ImageFinite
<1>7. IsFiniteSet(ArtistsOf(rows))
  <2> DEFINE f == [r \in rows |-> Credit(r)]
             U == {f[r] : r \in rows}
  <2>1. DOMAIN f = rows /\ ArtistsOf(rows) = UNION U
    BY DEF ArtistsOf
  <2>2. \A C \in U : IsFiniteSet(C)
    BY <1>1
  <2>3. IsFiniteSet(U)
    <3> HIDE DEF f
    <3> QED BY <2>1, ImageFinite
  <2> HIDE DEF U
  <2> QED BY <2>1, <2>2, <2>3, FS_UNION
<1>8. IsFiniteSet(CreditsOf(rows))
  <2> DEFINE f == [r \in rows |-> {<<r.track, a.id>> : a \in Credit(r)}]
             U == {f[r] : r \in rows}
  <2>1. DOMAIN f = rows /\ CreditsOf(rows) = UNION U
    BY DEF CreditsOf
  <2>2. ASSUME NEW r \in rows PROVE IsFiniteSet(f[r])
    <3> DEFINE g == [a \in Credit(r) |-> <<r.track, a.id>>]
    <3>1. DOMAIN g = Credit(r) /\ f[r] = {g[a] : a \in Credit(r)}
      OBVIOUS
    <3> HIDE DEF f, g
    <3> QED BY <1>1, <3>1, ImageFinite
  <2>3. \A C \in U : IsFiniteSet(C)
    BY <2>2
  <2>4. IsFiniteSet(U)
    <3> HIDE DEF f
    <3> QED BY <2>1, ImageFinite
  <2> HIDE DEF U
  <2> QED BY <2>1, <2>3, <2>4, FS_UNION
<1> QED BY <1>2, <1>3, <1>4, <1>5, <1>6, <1>7, <1>8

(* What StoreV2 is after a list of plays. *)
LEMMA StoredV2 ==
  ASSUME TablesInv, JoinInv, NEW rows \in SUBSET PlayRow, IsFiniteSet(rows),
         PersistV2(rows)
  PROVE  /\ TablesInv' /\ JoinInv' /\ songs' = songs
         /\ tracks \subseteq tracks' /\ artists \subseteq artists'
         /\ credits \subseteq credits' /\ played \subseteq played' /\ bare \subseteq bare'
         /\ tracks' \subseteq tracks \cup TracksOf(rows)
         /\ artists' \subseteq artists \cup ArtistsOf(rows)
         /\ credits' = credits \cup CreditsOf(rows)
         /\ Ids(tracks') = Ids(tracks) \cup Ids(TracksOf(rows))
         /\ Ids(played') = Ids(played) \cup Ids(rows)
<1>1. /\ tracks' \in InsertNew(tracks, TracksOf(rows))
      /\ artists' \in InsertNew(artists, ArtistsOf(rows))
      /\ credits' = credits \cup CreditsOf(rows)
      /\ played' \in InsertNew(played, PlayedOf(rows))
      /\ songs' = songs
      /\ bare' = bare \cup {r.track : r \in {q \in rows : ~HasArtists(q)}}
  BY DEF PersistV2, TracksOf, ArtistsOf, CreditsOf, PlayedOf
<1>2. /\ Table(tracks', TrackRow) /\ tracks \subseteq tracks'
      /\ tracks' \subseteq tracks \cup TracksOf(rows)
      /\ Ids(tracks') = Ids(tracks) \cup Ids(TracksOf(rows))
  BY <1>1, PartsFinite, Inserted DEF TablesInv
<1>3. /\ Table(artists', ArtistRow) /\ artists \subseteq artists'
      /\ artists' \subseteq artists \cup ArtistsOf(rows)
      /\ Ids(artists') = Ids(artists) \cup Ids(ArtistsOf(rows))
  BY <1>1, PartsFinite, Inserted DEF TablesInv
<1>4. /\ Table(played', PlayedRow) /\ played \subseteq played'
      /\ played' \subseteq played \cup PlayedOf(rows)
      /\ Ids(played') = Ids(played) \cup Ids(PlayedOf(rows))
  BY <1>1, PartsFinite, Inserted DEF TablesInv
<1>5. Ids(PlayedOf(rows)) = Ids(rows)
  BY PartsIds
<1>6. IsFiniteSet(credits')
  BY <1>1, PartsFinite, FS_Union DEF TablesInv
<1>7. \A r \in rows : r.track \in Ids(tracks')
  <2>1. \A r \in rows : r.track \in Ids(TracksOf(rows))
    BY PartsIds
  <2> QED BY <2>1, <1>2
<1>8. CreditsOf(rows) \subseteq Ids(tracks') \X Ids(artists')
  <2>1. \A r \in rows : \A a \in Credit(r) : a.id \in Ids(ArtistsOf(rows))
    BY DEF Ids, ArtistsOf
  <2>2. \A r \in rows : \A a \in Credit(r) : a.id \in Ids(artists')
    BY <1>3, <2>1
  <2> QED BY <1>7, <2>2 DEF CreditsOf
<1>9. credits \subseteq Ids(tracks') \X Ids(artists')
  BY <1>2, <1>3 DEF TablesInv
<1>10. TablesInv'
  <2>1. Table(songs, SongRow)'
    BY <1>1 DEF TablesInv, Table, Keyed
  <2>2. Table(tracks, TrackRow)' /\ Table(artists, ArtistRow)' /\ Table(played, PlayedRow)'
    BY <1>2, <1>3, <1>4 DEF Table, Keyed
  <2>3. (IsFiniteSet(credits) /\ credits \subseteq Ids(tracks) \X Ids(artists))'
    BY <1>1, <1>6, <1>8, <1>9 DEF Ids
  <2> QED BY <2>1, <2>2, <2>3 DEF TablesInv
<1>11. ASSUME NEW p \in played'
       PROVE  /\ p.track \in Ids(tracks')
              /\ (\E c \in credits' : c[1] = p.track) \/ p.track \in bare'
  <2>1. CASE p \in played
    <3>1. /\ p.track \in Ids(tracks)
          /\ (\E c \in credits : c[1] = p.track) \/ p.track \in bare
      BY <2>1 DEF JoinInv
    <3> QED BY <1>1, <1>2, <3>1
  <2>2. CASE p \in PlayedOf(rows)
    <3>1. PICK r \in rows : p.track = r.track
      BY <2>2 DEF PlayedOf
    <3>2. CASE HasArtists(r)
      <4>1. PICK a : a \in Credit(r)
        BY <3>2, CreditType
      <4>2. <<r.track, a.id>> \in CreditsOf(rows)
        BY <4>1 DEF CreditsOf
      <4> QED BY <1>1, <1>7, <3>1, <4>2
    <3>3. CASE ~HasArtists(r)
      BY <1>1, <1>7, <3>1, <3>3
    <3> QED BY <3>2, <3>3
  <2> QED BY <1>4, <2>1, <2>2
<1>12. JoinInv'
  <2>1. bare' \subseteq Tracks
    BY <1>1, CreditType DEF JoinInv
  <2> QED BY <1>11, <2>1 DEF JoinInv, Ids
<1> QED BY <1>1, <1>2, <1>3, <1>4, <1>5, <1>10, <1>12

(* What StoreV1 is after a list of plays. *)
LEMMA StoredV1 ==
  ASSUME TablesInv, JoinInv, NEW rows \in SUBSET PlayRow, IsFiniteSet(rows),
         PersistV1(rows)
  PROVE  /\ TablesInv' /\ JoinInv' /\ UNCHANGED tables2
         /\ songs \subseteq songs' /\ songs' \subseteq songs \cup rows
         /\ Ids(songs') = Ids(songs) \cup Ids(rows)
<1>1. /\ songs' \in InsertNew(songs, rows) /\ UNCHANGED tables2
      /\ rows \in SUBSET SongRow
  BY DEF PersistV1, SongRow
<1>2. /\ Table(songs', SongRow) /\ songs \subseteq songs' /\ songs' \subseteq songs \cup rows
      /\ Ids(songs') = Ids(songs) \cup Ids(rows)
  BY <1>1, Inserted DEF TablesInv
<1>3. TablesInv' /\ JoinInv'
  BY <1>1, <1>2 DEF TablesInv, JoinInv, Table, Ids, Keyed, tables2
<1> QED BY <1>1, <1>2, <1>3

-----------------------------------------------------------------------------
(* What is loaded. *)
LEMMA ItemType ==
  ASSUME CatalogueInv, NEW p \in DOMAIN History
  PROVE  Item(p) \in PlayRow /\ Item(p).id = p
<1> DEFINE x == History[p]
           s == [k \in DOMAIN by[x] |-> [id |-> by[x][k], name |-> name[by[x][k]]]]
<1>1. x \in Tracks /\ title[x] \in Names
  BY DEF CatalogueInv
<1>2. by[x] \in Seq(Artists)
  BY <1>1 DEF CatalogueInv
<1>3. Len(by[x]) \in Nat /\ DOMAIN by[x] = 1 .. Len(by[x])
  BY <1>2, LenProperties
<1>4. \A k \in DOMAIN by[x] : [id |-> by[x][k], name |-> name[by[x][k]]] \in ArtistRow
  <2>1. \A k \in DOMAIN by[x] : by[x][k] \in Artists
    BY <1>2, <1>3, ElementOfSeq
  <2> QED BY <2>1 DEF CatalogueInv, ArtistRow
<1>5. s \in [1 .. Len(by[x]) -> ArtistRow]
  BY <1>3, <1>4
<1>6. s \in Seq(ArtistRow)
  <2> HIDE DEF s, x
  <2> QED BY <1>3, <1>5, SeqDef
<1>7. Item(p) = [id |-> p, track |-> x, title |-> title[x], artists |-> s]
  BY DEF Item
<1>8. Item(p).id = p /\ Item(p).track = x /\ Item(p).artists = s
  BY <1>7
<1>9. Item(p) \in [id : DOMAIN History, track : Tracks, title : Names, artists : Seq(ArtistRow)]
  <2> HIDE DEF s, x
  <2> QED BY <1>1, <1>6, <1>7
<1> QED BY <1>6, <1>8, <1>9 DEF PlayRow

(* The list that a refresh or a backfill fetched. *)
LEMMA FetchedType ==
  ASSUME CatalogueInv, NEW S \in SUBSET DOMAIN History, IsFiniteSet(S)
  PROVE  /\ {Item(p) : p \in S} \in SUBSET PlayRow
         /\ IsFiniteSet({Item(p) : p \in S}) /\ Keyed({Item(p) : p \in S})
<1>1. \A p \in S : Item(p) \in PlayRow /\ Item(p).id = p
  BY ItemType
<1>2. IsFiniteSet({Item(p) : p \in S})
  <2> DEFINE f == [p \in S |-> Item(p)]
             T == {Item(p) : p \in S}
  <2>1. DOMAIN f = S /\ T = {f[p] : p \in S}
    OBVIOUS
  <2> HIDE DEF f, T
  <2>2. IsFiniteSet(T)
    BY <2>1, ImageFinite
  <2> QED BY <2>2 DEF T
<1> QED BY <1>1, <1>2 DEF Keyed

LEMMA InitRows == Init => RowsInv
<1> SUFFICES ASSUME Init PROVE RowsInv
  OBVIOUS
<1>1. CatalogueInv
  BY DEF Init, CatalogueInv
<1>2. TablesInv
  BY FS_EmptySet DEF Init, TablesInv, Table, Keyed
<1>3. JoinInv
  BY DEF Init, JoinInv
<1>4. CallsInv
  BY FS_EmptySet DEF Init, CallsInv, Keyed
<1> QED BY <1>1, <1>2, <1>3, <1>4 DEF RowsInv

(* A handler loads a list of plays. *)
LEMMA Loaded ==
  ASSUME RowsInv, NEW h \in Handlers, NEW rows \in SUBSET PlayRow, IsFiniteSet(rows),
         Keyed(rows), NEW store \in {"v1", "v2"}, Load(h, rows, store)
  PROVE  CallsInv'
<1>1. stage' \in [Handlers -> {"idle", "v1", "v2"}]
  BY DEF RowsInv, CallsInv, Load
<1>2. items' \in [Handlers -> SUBSET PlayRow]
  BY DEF RowsInv, CallsInv, Load
<1>3. \A g \in Handlers : items'[g] = IF g = h THEN rows ELSE items[g]
  BY DEF RowsInv, CallsInv, Load
<1>4. \A g \in Handlers : IsFiniteSet(items'[g]) /\ Keyed(items'[g])
  BY <1>3 DEF RowsInv, CallsInv
<1>5. lost' = lost
  BY DEF Load
<1> QED BY <1>1, <1>2, <1>4, <1>5 DEF RowsInv, CallsInv, Keyed

(* A handler is done. *)
LEMMA Finished ==
  ASSUME RowsInv, NEW h \in Handlers, Finish(h), lost' \subseteq DOMAIN History
  PROVE  CallsInv'
<1>1. stage' \in [Handlers -> {"idle", "v1", "v2"}]
  BY DEF RowsInv, CallsInv, Finish
<1>2. items' \in [Handlers -> SUBSET PlayRow]
  BY DEF RowsInv, CallsInv, Finish
<1>3. \A g \in Handlers : items'[g] = IF g = h THEN {} ELSE items[g]
  BY DEF RowsInv, CallsInv, Finish
<1>4. \A g \in Handlers : IsFiniteSet(items'[g]) /\ Keyed(items'[g])
  BY <1>3, FS_EmptySet DEF RowsInv, CallsInv, Keyed
<1> QED BY <1>1, <1>2, <1>4 DEF CallsInv, Keyed

LEMMA IdsType ==
  ASSUME NEW rows \in SUBSET PlayRow
  PROVE  Ids(rows) \subseteq DOMAIN History
BY DEF Ids, PlayRow

LEMMA TablesStay ==
  ASSUME RowsInv, UNCHANGED <<songs, tables2>>
  PROVE  TablesInv' /\ JoinInv'
<1>1. TablesInv'
  BY DEF RowsInv, TablesInv, tables2, Table, Ids, Keyed
<1>2. JoinInv'
  BY DEF RowsInv, JoinInv, tables2, Ids
<1> QED BY <1>1, <1>2

LEMMA CatalogueStays ==
  ASSUME RowsInv, UNCHANGED catalogue
  PROVE  CatalogueInv'
BY DEF RowsInv, CatalogueInv, catalogue

(* What every step leaves true of the rows. *)
LEMMA RowsStep == RowsInv /\ [Next]_vars => RowsInv'
<1> SUFFICES ASSUME RowsInv, [Next]_vars PROVE RowsInv'
  OBVIOUS
<1>0. \A g \in Handlers : /\ items[g] \in SUBSET PlayRow /\ IsFiniteSet(items[g])
                         /\ Keyed(items[g]) /\ Ids(items[g]) \subseteq DOMAIN History
  BY IdsType DEF RowsInv, CallsInv
<1>00. TablesInv /\ JoinInv /\ CatalogueInv /\ CallsInv
  BY DEF RowsInv
<1>1. ASSUME NEW h \in Handlers, Fetch(h) PROVE RowsInv'
  <2>1. PICK u \in Users, store \in {"v1", "v2"} :
          \E S \in (SUBSET {p \in DOMAIN History : p[1] = u}) \ {{}} :
            IsFiniteSet(S) /\ Load(h, {Item(p) : p \in S}, store)
    BY <1>1 DEF Fetch
  <2>2. PICK S \in SUBSET DOMAIN History :
          IsFiniteSet(S) /\ Load(h, {Item(p) : p \in S}, store)
    BY <2>1
  <2> DEFINE rows == {Item(p) : p \in S}
  <2>3. rows \in SUBSET PlayRow /\ IsFiniteSet(rows) /\ Keyed(rows)
    BY <1>00, <2>2, FetchedType
  <2>4. Load(h, rows, store)
    BY <2>2
  <2> HIDE DEF rows
  <2>5. CallsInv'
    BY <2>3, <2>4, Loaded
  <2>6. UNCHANGED <<songs, tables2>> /\ UNCHANGED catalogue
    BY <2>4 DEF Load
  <2> QED BY <2>5, <2>6, TablesStay, CatalogueStays DEF RowsInv
<1>2. ASSUME NEW h \in Handlers, Dump(h) PROVE RowsInv'
  <2>1. PICK u \in Users : Load(h, GetAll(u), "v2")
    BY <1>2 DEF Dump
  <2>2. GetAll(u) \subseteq songs
    BY DEF GetAll, Within
  <2>3. GetAll(u) \in SUBSET PlayRow /\ IsFiniteSet(GetAll(u)) /\ Keyed(GetAll(u))
    BY <1>00, <2>2, FS_Subset DEF TablesInv, Table, Keyed, SongRow
  <2>4. CallsInv'
    BY <2>1, <2>3, Loaded
  <2>5. UNCHANGED <<songs, tables2>> /\ UNCHANGED catalogue
    BY <2>1 DEF Load
  <2> QED BY <2>4, <2>5, TablesStay, CatalogueStays DEF RowsInv
<1>3. ASSUME NEW h \in Handlers, StoreV1(h) PROVE RowsInv'
  <2>1. PersistV1(items[h]) /\ UNCHANGED catalogue
    BY <1>3 DEF StoreV1
  <2>2. TablesInv' /\ JoinInv'
    BY <1>0, <1>00, <2>1, StoredV1
  <2>3. CallsInv'
    BY <1>3, <1>00 DEF StoreV1, CallsInv, Keyed
  <2> QED BY <2>1, <2>2, <2>3, CatalogueStays DEF RowsInv
<1>4. ASSUME NEW h \in Handlers, StoreV2(h) PROVE RowsInv'
  <2>1. PersistV2(items[h]) /\ UNCHANGED catalogue /\ Finish(h) /\ lost' \subseteq lost
    BY <1>4 DEF StoreV2
  <2>2. TablesInv' /\ JoinInv'
    BY <1>0, <1>00, <2>1, StoredV2
  <2>3. CallsInv'
    BY <1>00, <2>1, Finished DEF CallsInv
  <2> QED BY <2>1, <2>2, <2>3, CatalogueStays DEF RowsInv
<1>5. ASSUME NEW h \in Handlers, StoreFails(h) PROVE RowsInv'
  <2>1. /\ UNCHANGED catalogue /\ Finish(h)
        /\ lost' = Unserved(lost \cup Ids(items[h]))
    BY <1>5 DEF StoreFails
  <2>2. PersistV1(items[h]) \/ PersistV2(items[h]) \/ UNCHANGED <<songs, tables2>>
    BY <1>5 DEF StoreFails
  <2>3. TablesInv' /\ JoinInv'
    BY <1>0, <1>00, <2>2, StoredV1, StoredV2, TablesStay
  <2>4. lost' \subseteq DOMAIN History
    BY <1>0, <1>00, <2>1 DEF Unserved, CallsInv
  <2>5. CallsInv'
    BY <2>1, <2>4, Finished
  <2> QED BY <2>1, <2>3, <2>5, CatalogueStays DEF RowsInv
<1>6. CASE Crash
  <2>1. UNCHANGED <<songs, tables2>> /\ UNCHANGED catalogue
    BY <1>6 DEF Crash
  <2>2. lost' \subseteq DOMAIN History
    BY <1>0, <1>00, <1>6 DEF Crash, Unserved, CallsInv
  <2>3. CallsInv'
    BY <1>6, <2>2, FS_EmptySet DEF Crash, CallsInv, Keyed
  <2> QED BY <2>1, <2>3, TablesStay, CatalogueStays DEF RowsInv
<1>7. CASE Edit
  <2>1. UNCHANGED <<songs, tables2>> /\ UNCHANGED <<stage, items, lost>>
    BY <1>7 DEF Edit
  <2>2. CallsInv'
    BY <1>00, <2>1 DEF CallsInv, Keyed
  <2>3. edits' \in Nat
    BY <1>00, <1>7 DEF Edit, CatalogueInv
  <2>7. CatalogueInv'
    <3>1. ASSUME NEW x \in Tracks, NEW n \in Names, title' = [title EXCEPT ![x] = n],
                 UNCHANGED <<by, name>>
          PROVE  CatalogueInv'
      BY <1>00, <2>3, <3>1 DEF CatalogueInv
    <3>2. ASSUME NEW a \in Artists, NEW n \in Names, name' = [name EXCEPT ![a] = n],
                 UNCHANGED <<title, by>>
          PROVE  CatalogueInv'
      BY <1>00, <2>3, <3>2 DEF CatalogueInv
    <3>3. ASSUME NEW x \in Tracks, NEW s \in Credited, by' = [by EXCEPT ![x] = s],
                 UNCHANGED <<title, name>>
          PROVE  CatalogueInv'
      BY <1>00, <2>3, <3>3 DEF CatalogueInv
    <3> QED BY <1>7, <3>1, <3>2, <3>3 DEF Edit
  <2> QED BY <2>1, <2>2, <2>7, TablesStay DEF RowsInv
<1>8. CASE UNCHANGED vars
  <2>1. UNCHANGED <<songs, tables2>> /\ UNCHANGED <<stage, items, lost>> /\ UNCHANGED catalogue
    BY <1>8 DEF vars
  <2>2. CallsInv'
    BY <1>00, <2>1 DEF CallsInv, Keyed
  <2> QED BY <2>1, <2>2, TablesStay, CatalogueStays DEF RowsInv
<1> QED BY <1>1, <1>2, <1>3, <1>4, <1>5, <1>6, <1>7, <1>8 DEF Next

(* What the tables and calls hold, for the theorems below to start from. *)
LEMMA RowsAreTyped == Spec => []RowsInv
BY InitRows, RowsStep, PTL DEF Spec

(* Types: each store has one row for each key, a row of StoreV2 has the rows
   it refers to, and a play has the track that the history names. *)
THEOREM TypeCorrect == Spec => []TypeOK
<1>1. RowsInv => TypeOK
  <2> SUFFICES ASSUME RowsInv PROVE TypeOK
    OBVIOUS
  <2>1. Keyed(songs) /\ Keyed(tracks) /\ Keyed(artists) /\ Keyed(played)
    BY DEF RowsInv, TablesInv, Table
  <2>2. credits \subseteq Ids(tracks) \X Ids(artists)
    BY DEF RowsInv, TablesInv
  <2>3. \A p \in played : p.track = History[p.id] /\ p.track \in Ids(tracks)
    BY DEF RowsInv, TablesInv, JoinInv, Table, PlayedRow
  <2>4. /\ lost \subseteq DOMAIN History /\ bare \subseteq Tracks
        /\ \A h \in Handlers : stage[h] \in {"idle", "v1", "v2"} /\ Keyed(items[h])
    BY DEF RowsInv, CallsInv, JoinInv
  <2> QED BY <2>1, <2>2, <2>3, <2>4 DEF TypeOK
<1> QED BY <1>1, RowsAreTyped, PTL

-----------------------------------------------------------------------------
(* No step takes a row out of a table. *)
LEMMA TablesGrow ==
  ASSUME RowsInv, [Next]_vars
  PROVE  /\ songs \subseteq songs' /\ tracks \subseteq tracks' /\ artists \subseteq artists'
         /\ credits \subseteq credits' /\ played \subseteq played'
<1> DEFINE Grow == /\ songs \subseteq songs' /\ tracks \subseteq tracks' /\ artists \subseteq artists'
                   /\ credits \subseteq credits' /\ played \subseteq played'
<1>1. ASSUME NEW h \in Handlers, PersistV1(items[h]) PROVE Grow
  <2>1. items[h] \in SUBSET PlayRow /\ IsFiniteSet(items[h]) /\ TablesInv /\ JoinInv
    BY DEF RowsInv, CallsInv
  <2> QED BY <1>1, <2>1, StoredV1 DEF tables2
<1>2. ASSUME NEW h \in Handlers, PersistV2(items[h]) PROVE Grow
  <2>1. items[h] \in SUBSET PlayRow /\ IsFiniteSet(items[h]) /\ TablesInv /\ JoinInv
    BY DEF RowsInv, CallsInv
  <2> QED BY <1>2, <2>1, StoredV2
<1>3. CASE UNCHANGED <<songs, tables2>>
  BY <1>3 DEF tables2
<1>4. \/ \E h \in Handlers : PersistV1(items[h]) \/ PersistV2(items[h])
      \/ UNCHANGED <<songs, tables2>>
  BY DEF Next, vars, Fetch, Dump, Load, StoreV1, StoreV2, StoreFails, Crash, Edit
<1> QED BY <1>1, <1>2, <1>3, <1>4

(* The listens that StoreV2 counts for one name. *)
Heard(u, S, n) == {pc \in Within(played, u, S) \X credits :
                     /\ pc[1].track = pc[2][1]
                     /\ pc[1].track \in Ids(tracks)
                     /\ \E a \in artists : a.id = pc[2][2] /\ a.name = n}

LEMMA HeardCount ==
  ASSUME NEW u, NEW S, NEW n \in Names
  PROVE  /\ V2ByArtist(u, S)[n] = Cardinality(Heard(u, S, n))
         /\ V2ByArtist(u, S)'[n] = Cardinality(Heard(u, S, n)')
BY DEF V2ByArtist, Heard

LEMMA PairsFinite ==
  ASSUME NEW P, NEW Q, IsFiniteSet(P), IsFiniteSet(Q),
         NEW W \in SUBSET P, NEW H \in SUBSET (W \X Q)
  PROVE  IsFiniteSet(H)
<1>1. IsFiniteSet(W)
  BY FS_Subset
<1>2. IsFiniteSet(W \X Q)
  BY <1>1, FS_Product
<1> QED BY <1>2, FS_Subset

LEMMA HeardFinite ==
  ASSUME TablesInv, NEW u, NEW S, NEW n
  PROVE  IsFiniteSet(Heard(u, S, n))
<1>1. Within(played, u, S) \subseteq played
  BY DEF Within
<1>2. Heard(u, S, n) \subseteq Within(played, u, S) \X credits
  BY DEF Heard
<1> QED BY <1>1, <1>2, PairsFinite DEF TablesInv, Table

(* What has been read back stays: no step takes a listen away from what either
   store answers, or changes a title. *)
THEOREM HistoryNeverShrinks == Spec => HistoryKept
<1> DEFINE Kept(u) == /\ V1Played(u, Times) \subseteq V1Played(u, Times)'
                      /\ V2Played(u, Times) \subseteq V2Played(u, Times)'
                      /\ \A n \in Names : V2ByArtist(u, Times)[n] <= V2ByArtist(u, Times)'[n]
<1>1. ASSUME RowsInv, [Next]_vars, NEW u \in Users PROVE Kept(u)
  <2>1. /\ songs \subseteq songs' /\ tracks \subseteq tracks' /\ artists \subseteq artists'
        /\ credits \subseteq credits' /\ played \subseteq played'
    BY <1>1, TablesGrow
  <2>2. /\ Within(songs, u, Times) \subseteq Within(songs, u, Times)'
        /\ Within(played, u, Times) \subseteq Within(played, u, Times)'
    BY <2>1 DEF Within
  <2>3. V1Played(u, Times) \subseteq V1Played(u, Times)'
    BY <2>2 DEF V1Played
  <2>4. V2Played(u, Times) \subseteq V2Played(u, Times)'
    BY <2>1, <2>2 DEF V2Played
  <2>5. ASSUME NEW n \in Names
        PROVE  V2ByArtist(u, Times)[n] <= V2ByArtist(u, Times)'[n]
    <3>1. Heard(u, Times, n) \subseteq Heard(u, Times, n)'
      <4>1. Ids(tracks) \subseteq Ids(tracks')
        BY <2>1 DEF Ids
      <4> QED BY <2>1, <2>2, <4>1 DEF Heard
    <3>2. TablesInv'
      BY <1>1, RowsStep DEF RowsInv
    <3>3. IsFiniteSet(Heard(u, Times, n)')
      <4>1. Within(played, u, Times)' \subseteq played'
        BY DEF Within
      <4>2. Heard(u, Times, n)' \subseteq Within(played, u, Times)' \X credits'
        BY DEF Heard
      <4>3. IsFiniteSet(played') /\ IsFiniteSet(credits')
        BY <3>2 DEF TablesInv, Table
      <4> QED BY <4>1, <4>2, <4>3, PairsFinite
    <3>4. Cardinality(Heard(u, Times, n)) <= Cardinality(Heard(u, Times, n)')
      BY <3>1, <3>3, FS_Subset
    <3> QED BY <3>4, HeardCount
  <2> QED BY <2>3, <2>4, <2>5
<1>2. RowsInv /\ [Next]_vars => [\A u \in Users : Kept(u)]_vars
  BY <1>1
<1> QED BY <1>2, RowsAreTyped, PTL DEF Spec, HistoryKept

-----------------------------------------------------------------------------
(* Where the plays of StoreV1 are, seen from StoreV2. *)
ServedInv == \A r \in songs : \/ Credits(r.id) \/ r.id \in lost
                             \/ \E h \in Handlers : stage[h] = "v2" /\ r \in items[h]

(* A play that came with artists has a credit once StoreV2 has it. *)
LEMMA StoredCredits ==
  ASSUME TablesInv, JoinInv, NEW rows \in SUBSET PlayRow, IsFiniteSet(rows),
         PersistV2(rows), NEW r \in rows, HasArtists(r)
  PROVE  r.id \in Ids(played') /\ \E c \in credits' : c[1] = History[r.id]
<1>1. Ids(played') = Ids(played) \cup Ids(rows) /\ credits' = credits \cup CreditsOf(rows)
  BY StoredV2
<1>2. PICK a : a \in Credit(r)
  BY CreditType
<1>3. <<r.track, a.id>> \in CreditsOf(rows)
  BY <1>2 DEF CreditsOf
<1>4. r.track = History[r.id] /\ r.id \in Ids(rows)
  BY DEF PlayRow, Ids
<1> QED BY <1>1, <1>3, <1>4

LEMMA ServedStep == RowsInv /\ ServedInv /\ [Next]_vars => ServedInv'
<1> DEFINE CreditsNext(i) == i \in Ids(played') /\ \E c \in credits' : c[1] = History[i]
<1> SUFFICES ASSUME RowsInv, ServedInv, [Next]_vars, NEW r \in songs'
             PROVE  \/ CreditsNext(r.id) \/ r.id \in lost'
                    \/ \E h \in Handlers : stage'[h] = "v2" /\ r \in items'[h]
  BY DEF ServedInv, Ids, Credits
<1> DEFINE Served == \/ CreditsNext(r.id) \/ r.id \in lost'
                     \/ \E h \in Handlers : stage'[h] = "v2" /\ r \in items'[h]
<1>0. /\ stage \in [Handlers -> {"idle", "v1", "v2"}]
      /\ items \in [Handlers -> SUBSET PlayRow]
      /\ \A g \in Handlers : items[g] \in SUBSET PlayRow /\ IsFiniteSet(items[g])
      /\ TablesInv /\ JoinInv
  BY DEF RowsInv, CallsInv
<1>00. \A i : Credits(i) => CreditsNext(i)
  BY TablesGrow DEF Ids, Credits
<1>u. \A ids : Unserved(ids) = {i \in ids \cap Ids(songs') : ~CreditsNext(i)}
  BY DEF Unserved, Credits, Ids
<1>r. r.id \in Ids(songs')
  BY DEF Ids
<1> HIDE DEF CreditsNext
<1>1. ASSUME NEW h \in Handlers, NEW rows, NEW store, Load(h, rows, store)
      PROVE  Served
  <2>1. songs' = songs /\ lost' = lost
    BY <1>1 DEF Load
  <2>2. \A g \in Handlers : stage[g] = "v2" => stage'[g] = "v2" /\ items'[g] = items[g]
    BY <1>0, <1>1 DEF Load
  <2> QED BY <1>00, <2>1, <2>2 DEF ServedInv
<1>2. ASSUME NEW h \in Handlers, StoreV1(h) PROVE Served
  <2>1. songs' \subseteq songs \cup items[h]
    BY <1>0, <1>2, StoredV1 DEF StoreV1
  <2>2. lost' = lost /\ items' = items
    BY <1>2 DEF StoreV1
  <2>3. \A g \in Handlers : stage[g] = "v2" => stage'[g] = "v2"
    BY <1>0, <1>2 DEF StoreV1
  <2>4. stage'[h] = "v2"
    BY <1>0, <1>2 DEF StoreV1
  <2> QED BY <1>00, <2>1, <2>2, <2>3, <2>4 DEF ServedInv
<1>3. ASSUME NEW h \in Handlers, StoreV2(h) PROVE Served
  <2>1. songs' = songs /\ PersistV2(items[h])
    BY <1>0, <1>3, StoredV2 DEF StoreV2
  <2>2. lost' = lost \ Ids({q \in items[h] : HasArtists(q)})
    BY <1>3 DEF StoreV2
  <2>3. \A g \in Handlers : g # h => stage'[g] = stage[g] /\ items'[g] = items[g]
    BY <1>0, <1>3 DEF StoreV2, Finish
  <2>4. \A q \in items[h] : HasArtists(q) => CreditsNext(q.id)
    BY <1>0, <2>1, StoredCredits DEF CreditsNext
  <2>5. r.id \in Ids({q \in items[h] : HasArtists(q)}) => CreditsNext(r.id)
    BY <2>4 DEF Ids
  <2>6. HasArtists(r)
    BY <1>0, <2>1 DEF TablesInv, Table, SongRow
  <2> QED BY <1>00, <2>1, <2>2, <2>3, <2>4, <2>5, <2>6 DEF ServedInv
<1>4. ASSUME NEW h \in Handlers, StoreFails(h) PROVE Served
  <2>1. songs' \subseteq songs \cup items[h]
    <3>1. PersistV1(items[h]) \/ PersistV2(items[h]) \/ UNCHANGED <<songs, tables2>>
      BY <1>4 DEF StoreFails
    <3> QED BY <1>0, <3>1, StoredV1, StoredV2
  <2>2. lost' = {i \in (lost \cup Ids(items[h])) \cap Ids(songs') : ~CreditsNext(i)}
    BY <1>4, <1>u DEF StoreFails
  <2>3. \A g \in Handlers : g # h => stage'[g] = stage[g] /\ items'[g] = items[g]
    BY <1>0, <1>4 DEF StoreFails, Finish
  <2>4. r \in items[h] => r.id \in Ids(items[h])
    BY DEF Ids
  <2> QED BY <1>00, <1>r, <2>1, <2>2, <2>3, <2>4 DEF ServedInv
<1>5. CASE Crash
  <2>1. songs' = songs
    BY <1>5 DEF Crash
  <2>2. lost' = {i \in (lost \cup UNION {Ids(items[h]) : h \in Handlers}) \cap Ids(songs') :
                  ~CreditsNext(i)}
    BY <1>5, <1>u DEF Crash
  <2>3. \A h \in Handlers : r \in items[h] => r.id \in UNION {Ids(items[g]) : g \in Handlers}
    BY DEF Ids
  <2> QED BY <1>00, <1>r, <2>1, <2>2, <2>3 DEF ServedInv
<1>6. CASE UNCHANGED <<songs, tables2, stage, items, lost>>
  BY <1>00, <1>6 DEF ServedInv
<1>7. \/ \E h \in Handlers : \E rows, store : Load(h, rows, store)
      \/ \E h \in Handlers : StoreV1(h) \/ StoreV2(h) \/ StoreFails(h)
      \/ Crash \/ UNCHANGED <<songs, tables2, stage, items, lost>>
  BY DEF Next, vars, Fetch, Dump, Edit
<1> QED BY <1>1, <1>2, <1>3, <1>4, <1>5, <1>6, <1>7

(* A play of StoreV2 has one title and an artist, when it is read back. *)
LEMMA PlayHasTitle ==
  ASSUME RowsInv, NEW p \in played
  PROVE  Cardinality(GetSongs(p.id[1], p.id[2], p.id[2])) = 1
<1> DEFINE u == p.id[1]
           t == p.id[2]
<1>1. p.id \in Users \X Times /\ t \in Nat
  BY DEF RowsInv, TablesInv, Table, PlayedRow
<1>2. Within(played, u, t .. t) = {p}
  <2>1. t .. t = {t}
    BY <1>1
  <2>2. \A q \in played : q.id \in Users \X Times
    BY DEF RowsInv, TablesInv, Table, PlayedRow
  <2>3. ASSUME NEW q \in played, q.id[1] = u, q.id[2] = t PROVE q = p
    <3>1. q.id = p.id
      BY <1>1, <2>2, <2>3
    <3> QED BY <3>1 DEF RowsInv, TablesInv, Table, Keyed
  <2>4. Within(played, u, t .. t) = {q \in played : q.id[1] = u /\ q.id[2] = t}
    BY <2>1 DEF Within
  <2> HIDE DEF u, t
  <2>5. p.id[1] = u /\ p.id[2] = t
    BY DEF u, t
  <2> QED BY <2>3, <2>4, <2>5
<1>3. PICK tr \in tracks : tr.id = p.track
  BY DEF RowsInv, JoinInv, Ids
<1>4. \A q \in tracks : q.id = p.track => q = tr
  BY <1>3 DEF RowsInv, TablesInv, Table, Keyed
<1> DEFINE J == {q \in Within(played, u, t .. t) \X tracks : q[1].track = q[2].id}
<1>5. J = {<<p, tr>>}
  <2>1. <<p, tr>> \in J
    BY <1>2, <1>3
  <2>2. ASSUME NEW q \in J PROVE q = <<p, tr>>
    <3>1. q \in {p} \X tracks /\ q[1].track = q[2].id
      BY <1>2
    <3>2. q = <<q[1], q[2]>> /\ q[1] = p /\ q[2] \in tracks /\ q[2].id = p.track
      BY <3>1
    <3> QED BY <1>4, <3>2
  <2> HIDE DEF J
  <2> QED BY <2>1, <2>2
<1>6. GetSongs(u, t, t) = {<<t, tr.name>>}
  <2>1. GetSongs(u, t, t) = {<<pr[1].id[2], pr[2].name>> : pr \in J}
    BY DEF GetSongs, V2Played
  <2> HIDE DEF J
  <2> QED BY <1>5, <2>1
<1> HIDE DEF u, t
<1>7. Cardinality(GetSongs(u, t, t)) = 1
  BY <1>6, FS_Singleton
<1> QED BY <1>7 DEF u, t

LEMMA PlayHasArtist ==
  ASSUME RowsInv, NEW p \in played, NEW c \in credits, c[1] = p.track
  PROVE  Named(p.id)
<1> DEFINE u == p.id[1]
           t == p.id[2]
<1>1. t \in Nat
  BY DEF RowsInv, TablesInv, Table, PlayedRow
<1>2. p \in Within(played, u, t .. t)
  BY <1>1 DEF Within
<1>4. c \in Ids(tracks) \X Ids(artists)
  BY DEF RowsInv, TablesInv
<1>5. PICK a \in artists : a.id = c[2]
  BY <1>4 DEF Ids
<1>6. a.name \in Names
  BY DEF RowsInv, TablesInv, Table, ArtistRow
<1> DEFINE H == Heard(u, t .. t, a.name)
<1>7. <<p, c>> \in H
  BY <1>2, <1>4, <1>5 DEF Heard
<1>8. IsFiniteSet(H)
  BY HeardFinite DEF RowsInv
<1>9. GetArtists(u, t, t)[a.name] = Cardinality(H)
  BY <1>6, HeardCount DEF GetArtists
<1> HIDE DEF H, u, t
<1>10. Cardinality(H) > 0
  BY <1>7, <1>8, FS_EmptySet, FS_CardinalityType
<1>11. GetArtists(u, t, t)[a.name] > 0
  BY <1>9, <1>10
<1> QED BY <1>6, <1>11 DEF u, t, Named

(* getSongs and getArtists read StoreV2: a play of StoreV1 that they do not
   know, or know no artist of, is in a call that goes on or that did not finish;
   a play that they know has one title, and an artist unless its track came to
   StoreV2 without one. *)
THEOREM PlaysAreServed == Spec => []PlaysServed
<1>1. Init => ServedInv
  BY DEF Init, ServedInv
<1>2. RowsInv /\ ServedInv => PlaysServed
  <2> SUFFICES ASSUME RowsInv, ServedInv PROVE PlaysServed
    OBVIOUS
  <2>1. ASSUME NEW p \in played PROVE Named(p.id) \/ p.track \in bare
    BY PlayHasArtist DEF RowsInv, JoinInv
  <2>2. ASSUME NEW r \in songs, Credits(r.id) PROVE r.id \in Ids(played) /\ Named(r.id)
    <3>1. PICK p \in played : p.id = r.id
      BY <2>2 DEF Credits, Ids
    <3>2. PICK c \in credits : c[1] = History[r.id]
      BY <2>2 DEF Credits
    <3>3. p.track = History[p.id]
      BY DEF RowsInv, TablesInv, Table, PlayedRow
    <3> QED BY <2>2, <3>1, <3>2, <3>3, PlayHasArtist DEF Credits
  <2> QED BY <2>1, <2>2, PlayHasTitle DEF ServedInv, PlaysServed
<1> QED BY <1>1, <1>2, RowsAreTyped, ServedStep, PTL DEF Spec

-----------------------------------------------------------------------------
(* As long as nothing was edited every copy says what the catalogue says, and
   the credits of a track of StoreV2 are all its artists and no other. *)
Fresh == /\ \A r \in songs : r = Item(r.id)
         /\ \A h \in Handlers : \A r \in items[h] : r = Item(r.id)
         /\ \A t \in tracks : t.name = title[t.id]
         /\ \A a \in artists : a.name = name[a.id]
         /\ \A c \in credits : \E k \in DOMAIN by[c[1]] : c[2] = by[c[1]][k]
         /\ \A x \in Ids(tracks) : \A k \in DOMAIN by[x] : <<x, by[x][k]>> \in credits

FreshInv == edits = 0 => Fresh

(* What a play that says what the catalogue says inserts into StoreV2. *)
LEMMA FreshParts ==
  ASSUME NEW r, r = Item(r.id)
  PROVE  /\ r.track = History[r.id] /\ r.title = title[r.track]
         /\ Credit(r) = {[id |-> by[r.track][k], name |-> name[by[r.track][k]]] :
                            k \in DOMAIN by[r.track]}
<1> DEFINE x == History[r.id]
           s == [k \in DOMAIN by[x] |-> [id |-> by[x][k], name |-> name[by[x][k]]]]
<1>1. r = [id |-> r.id, track |-> x, title |-> title[x], artists |-> s]
  BY DEF Item
<1>2. r.track = x /\ r.title = title[x] /\ r.artists = s
  <2> HIDE DEF s, x
  <2> QED BY <1>1
<1>3. Credit(r) = {s[k] : k \in DOMAIN by[x]}
  <2>1. DOMAIN s = DOMAIN by[x]
    OBVIOUS
  <2> HIDE DEF s, x
  <2> QED BY <1>2, <2>1 DEF Credit
<1>4. {s[k] : k \in DOMAIN by[x]} = {[id |-> by[x][k], name |-> name[by[x][k]]] : k \in DOMAIN by[x]}
  OBVIOUS
<1> HIDE DEF x, s
<1>5. x = r.track
  BY <1>2
<1> QED BY <1>2, <1>3, <1>4, <1>5 DEF x

LEMMA FreshCredits ==
  ASSUME NEW rows, \A r \in rows : r = Item(r.id)
  PROVE  /\ \A t \in TracksOf(rows) : t.name = title[t.id]
         /\ \A a \in ArtistsOf(rows) : a.name = name[a.id]
         /\ \A c \in CreditsOf(rows) : \E k \in DOMAIN by[c[1]] : c[2] = by[c[1]][k]
         /\ \A r \in rows : \A k \in DOMAIN by[r.track] :
               <<r.track, by[r.track][k]>> \in CreditsOf(rows)
<1>0. \A r \in rows : /\ r.title = title[r.track]
                     /\ Credit(r) = {[id |-> by[r.track][k], name |-> name[by[r.track][k]]] :
                                        k \in DOMAIN by[r.track]}
  BY FreshParts
<1>1. ASSUME NEW t \in TracksOf(rows) PROVE t.name = title[t.id]
  <2>1. PICK r \in rows : t = [id |-> r.track, name |-> r.title]
    BY DEF TracksOf
  <2> QED BY <1>0, <2>1
<1>2. ASSUME NEW a \in ArtistsOf(rows) PROVE a.name = name[a.id]
  <2>1. PICK r \in rows : a \in Credit(r)
    BY DEF ArtistsOf
  <2>2. PICK k \in DOMAIN by[r.track] :
          a = [id |-> by[r.track][k], name |-> name[by[r.track][k]]]
    BY <1>0, <2>1
  <2> QED BY <2>2
<1>3. ASSUME NEW c \in CreditsOf(rows) PROVE \E k \in DOMAIN by[c[1]] : c[2] = by[c[1]][k]
  <2>1. PICK r \in rows : c \in {<<r.track, a.id>> : a \in Credit(r)}
    BY DEF CreditsOf
  <2>2. PICK a \in Credit(r) : c = <<r.track, a.id>>
    BY <2>1
  <2>3. PICK k \in DOMAIN by[r.track] :
          a = [id |-> by[r.track][k], name |-> name[by[r.track][k]]]
    BY <1>0
  <2> QED BY <2>2, <2>3
<1>4. ASSUME NEW r \in rows, NEW k \in DOMAIN by[r.track]
      PROVE  <<r.track, by[r.track][k]>> \in CreditsOf(rows)
  <2> DEFINE a == [id |-> by[r.track][k], name |-> name[by[r.track][k]]]
  <2>1. a \in Credit(r)
    BY <1>0
  <2>2. a.id = by[r.track][k]
    OBVIOUS
  <2> HIDE DEF a
  <2>3. <<r.track, a.id>> \in {<<r.track, b.id>> : b \in Credit(r)}
    BY <2>1
  <2>4. <<r.track, a.id>> \in CreditsOf(rows)
    BY <2>3 DEF CreditsOf
  <2> QED BY <2>2, <2>4
<1> QED BY <1>1, <1>2, <1>3, <1>4

(* A list of plays that say what the catalogue says is stored. *)
LEMMA FreshStored ==
  ASSUME RowsInv, Fresh, NEW h \in Handlers, UNCHANGED catalogue,
         PersistV1(items[h]) \/ PersistV2(items[h]) \/ UNCHANGED <<songs, tables2>>,
         \A g \in Handlers : items'[g] \subseteq items[g]
  PROVE  Fresh'
<1> DEFINE rows == items[h]
<1>0. /\ rows \in SUBSET PlayRow /\ IsFiniteSet(rows) /\ TablesInv /\ JoinInv
      /\ \A r \in rows : r = Item(r.id)
      /\ UNCHANGED <<title, by, name>>
  BY DEF RowsInv, CallsInv, Fresh, catalogue
<1>1. \A r : Item(r.id)' = Item(r.id)
  BY <1>0 DEF Item
<1>2. \A g \in Handlers : \A r \in items'[g] : r = Item(r.id)'
  BY <1>1 DEF Fresh
<1> HIDE DEF rows
<1>3. CASE PersistV1(rows)
  <2>1. songs' \subseteq songs \cup rows /\ UNCHANGED tables2
    BY <1>0, <1>3, StoredV1
  <2>2. \A r \in songs' : r = Item(r.id)'
    BY <1>0, <1>1, <2>1 DEF Fresh
  <2> QED BY <1>0, <1>2, <2>1, <2>2 DEF Fresh, tables2, Ids
<1>4. CASE PersistV2(rows)
  <2>1. /\ songs' = songs
        /\ tracks' \subseteq tracks \cup TracksOf(rows)
        /\ artists' \subseteq artists \cup ArtistsOf(rows)
        /\ credits' = credits \cup CreditsOf(rows)
        /\ Ids(tracks') = Ids(tracks) \cup Ids(TracksOf(rows))
    BY <1>0, <1>4, StoredV2
  <2>2. /\ \A t \in TracksOf(rows) : t.name = title[t.id]
        /\ \A a \in ArtistsOf(rows) : a.name = name[a.id]
        /\ \A c \in CreditsOf(rows) : \E k \in DOMAIN by[c[1]] : c[2] = by[c[1]][k]
        /\ \A r \in rows : \A k \in DOMAIN by[r.track] :
               <<r.track, by[r.track][k]>> \in CreditsOf(rows)
    BY <1>0, FreshCredits
  <2>3. \A r \in songs' : r = Item(r.id)'
    BY <1>1, <2>1 DEF Fresh
  <2>4. \A t \in tracks' : t.name = title'[t.id]
    BY <1>0, <2>1, <2>2 DEF Fresh
  <2>5. \A a \in artists' : a.name = name'[a.id]
    BY <1>0, <2>1, <2>2 DEF Fresh
  <2>6. \A c \in credits' : \E k \in DOMAIN by'[c[1]] : c[2] = by'[c[1]][k]
    BY <1>0, <2>1, <2>2 DEF Fresh
  <2>7. ASSUME NEW x \in Ids(tracks'), NEW k \in DOMAIN by'[x]
        PROVE  <<x, by'[x][k]>> \in credits'
    <3>1. CASE x \in Ids(tracks)
      BY <1>0, <2>1, <3>1 DEF Fresh
    <3>2. CASE x \in Ids(TracksOf(rows))
      <4>1. PICK r \in rows : r.track = x
        BY <3>2, PartsIds
      <4> QED BY <1>0, <2>1, <2>2, <4>1
    <3> QED BY <2>1, <3>1, <3>2
  <2> QED BY <1>2, <2>3, <2>4, <2>5, <2>6, <2>7 DEF Fresh, Ids
<1>5. CASE UNCHANGED <<songs, tables2>>
  BY <1>0, <1>1, <1>2, <1>5 DEF Fresh, tables2, Ids
<1> QED BY <1>3, <1>4, <1>5 DEF rows

LEMMA FreshStep == RowsInv /\ FreshInv /\ [Next]_vars => FreshInv'
<1> SUFFICES ASSUME RowsInv, FreshInv, [Next]_vars, edits' = 0 PROVE Fresh'
  BY DEF FreshInv
<1>0. edits \in Nat /\ items \in [Handlers -> SUBSET PlayRow]
  BY DEF RowsInv, CatalogueInv, CallsInv
<1>00. ~ Edit
  BY <1>0 DEF Edit
<1>1. UNCHANGED catalogue /\ edits = 0
  BY <1>00 DEF Next, vars, Fetch, Dump, Load, StoreV1, StoreV2, StoreFails, Crash, catalogue
<1>f. Fresh
  BY <1>1 DEF FreshInv
<1>2. \A r : Item(r.id)' = Item(r.id)
  BY <1>1 DEF Item, catalogue
<1>3. ASSUME NEW h \in Handlers, NEW rows, NEW store, Load(h, rows, store),
             \A r \in rows : r = Item(r.id)
      PROVE  Fresh'
  <2>1. UNCHANGED <<songs, tables2>>
    BY <1>3 DEF Load
  <2>2. \A g \in Handlers : items'[g] = IF g = h THEN rows ELSE items[g]
    BY <1>0, <1>3 DEF Load
  <2>3. \A g \in Handlers : \A r \in items'[g] : r = Item(r.id)'
    BY <1>f, <1>2, <1>3, <2>2 DEF Fresh
  <2> QED BY <1>f, <1>1, <1>2, <2>1, <2>3 DEF Fresh, tables2, catalogue, Ids
<1>4. ASSUME NEW h \in Handlers, Fetch(h) PROVE Fresh'
  <2>1. PICK u \in Users, store \in {"v1", "v2"} :
          \E S \in (SUBSET {p \in DOMAIN History : p[1] = u}) \ {{}} :
            IsFiniteSet(S) /\ Load(h, {Item(p) : p \in S}, store)
    BY <1>4 DEF Fetch
  <2>2. PICK S \in SUBSET DOMAIN History : Load(h, {Item(p) : p \in S}, store)
    BY <2>1
  <2>3. \A r \in {Item(p) : p \in S} : r = Item(r.id)
    BY ItemType DEF RowsInv
  <2> QED BY <1>3, <2>2, <2>3
<1>5. ASSUME NEW h \in Handlers, Dump(h) PROVE Fresh'
  <2>1. PICK u \in Users : Load(h, GetAll(u), "v2")
    BY <1>5 DEF Dump
  <2>2. \A r \in GetAll(u) : r = Item(r.id)
    BY <1>f DEF GetAll, Within, Fresh
  <2> QED BY <1>3, <2>1, <2>2
<1>6. ASSUME NEW h \in Handlers, StoreV1(h) \/ StoreV2(h) \/ StoreFails(h) PROVE Fresh'
  <2>1. PersistV1(items[h]) \/ PersistV2(items[h]) \/ UNCHANGED <<songs, tables2>>
    BY <1>6 DEF StoreV1, StoreV2, StoreFails
  <2>2. \A g \in Handlers : items'[g] \subseteq items[g]
    BY <1>0, <1>6 DEF StoreV1, StoreV2, StoreFails, Finish
  <2> QED BY <1>f, <1>1, <2>1, <2>2, FreshStored
<1>7. ASSUME UNCHANGED <<songs, tables2>>, \A g \in Handlers : items'[g] \subseteq items[g]
      PROVE  Fresh'
  <2>1. \A g \in Handlers : \A r \in items'[g] : r = Item(r.id)'
    BY <1>f, <1>2, <1>7 DEF Fresh
  <2> QED BY <1>f, <1>1, <1>2, <1>7, <2>1 DEF Fresh, tables2, catalogue, Ids
<1>8. CASE Crash
  BY <1>7, <1>8 DEF Crash
<1>9. CASE UNCHANGED vars
  BY <1>7, <1>9 DEF vars
<1> QED BY <1>00, <1>4, <1>5, <1>6, <1>8, <1>9 DEF Next

(* Two sets with a one-to-one correspondence, of which the second is finite. *)
LEMMA SameSize ==
  ASSUME NEW A, NEW B, IsFiniteSet(B), NEW f \in [A -> B],
         \A x, y \in A : f[x] = f[y] => x = y,
         \A b \in B : \E x \in A : f[x] = b
  PROVE  Cardinality(A) = Cardinality(B)
<1>1. f \in Injection(A, B)
  BY DEF Injection, IsInjective
<1>2. f \in Surjection(A, B)
  BY DEF Surjection
<1>3. IsFiniteSet(A)
  BY <1>1, FS_Injection
<1> QED BY <1>1, <1>2, <1>3, FS_Surjection

(* The listens that the stores should count for name n, for the plays ids. *)
Listens(ids, n) ==
  {l \in ids \X Nat : /\ l[2] + 1 \in DOMAIN by[History[l[1]]]
                      /\ name[by[History[l[1]]][l[2] + 1]] = n}

(* The artists of a play of StoreV1. *)
LEMMA FreshArtists ==
  ASSUME RowsInv, Fresh, NEW r \in songs
  PROVE  /\ r.id \in DOMAIN History
         /\ by[History[r.id]] \in Credited
         /\ DOMAIN by[History[r.id]] = 1 .. Len(by[History[r.id]])
         /\ Len(by[History[r.id]]) \in Nat \ {0}
         /\ Len(r.artists) = Len(by[History[r.id]])
         /\ \A k \in DOMAIN by[History[r.id]] : r.artists[k].name = name[by[History[r.id]][k]]
<1> DEFINE x == History[r.id]
           s == [k \in DOMAIN by[x] |-> [id |-> by[x][k], name |-> name[by[x][k]]]]
<1>1. r.id \in DOMAIN History /\ r.artists \in Seq(ArtistRow) /\ r.artists # <<>>
  BY DEF RowsInv, TablesInv, Table, SongRow, PlayRow, HasArtists
<1>2. by[x] \in Credited /\ by[x] \in Seq(Artists)
  BY <1>1 DEF RowsInv, CatalogueInv
<1>3. Len(by[x]) \in Nat /\ DOMAIN by[x] = 1 .. Len(by[x])
  BY <1>2, LenProperties
<1>4. r.artists = s
  <2>1. r = [id |-> r.id, track |-> x, title |-> title[x], artists |-> s]
    BY DEF Fresh, Item
  <2> HIDE DEF s, x
  <2> QED BY <2>1
<1>5. DOMAIN s = DOMAIN by[x] /\ \A k \in DOMAIN by[x] : s[k].name = name[by[x][k]]
  OBVIOUS
<1>6. DOMAIN r.artists = 1 .. Len(r.artists) /\ Len(r.artists) \in Nat \ {0}
  BY <1>1, LenProperties, EmptySeq
<1> HIDE DEF s, x
<1>7. Len(r.artists) = Len(by[x])
  BY <1>3, <1>4, <1>5, <1>6
<1> QED BY <1>1, <1>2, <1>3, <1>4, <1>5, <1>6, <1>7 DEF x

LEMMA FreshListens ==
  ASSUME RowsInv, Fresh, NEW r \in songs
  PROVE  V1Listens(r) = {<<k, name[by[History[r.id]][k + 1]]>> :
                           k \in {j \in Nat : j + 1 \in DOMAIN by[History[r.id]]}}
<1> DEFINE b == by[History[r.id]]
           K == {j \in Nat : j + 1 \in DOMAIN b}
           N == 1 .. Len(r.artists) - 1
<1>1. /\ DOMAIN b = 1 .. Len(b) /\ Len(b) \in Nat \ {0} /\ Len(r.artists) = Len(b)
      /\ \A k \in DOMAIN b : r.artists[k].name = name[b[k]]
  BY FreshArtists
<1>2. V1Listens(r) = {<<0, r.artists[1].name>>} \cup {<<i, r.artists[i + 1].name>> : i \in N}
  BY DEF V1Listens
<1> HIDE DEF b
<1>3. r.artists[1].name = name[b[1]] /\ \A i \in N : r.artists[i + 1].name = name[b[i + 1]]
  BY <1>1
<1>4. K = {0} \cup N
  BY <1>1
<1>5. {<<i, r.artists[i + 1].name>> : i \in N} = {<<i, name[b[i + 1]]>> : i \in N}
  BY <1>3
<1>6. {<<k, name[b[k + 1]]>> : k \in K} = {<<0, name[b[0 + 1]]>>} \cup {<<i, name[b[i + 1]]>> : i \in N}
  <2> HIDE DEF K, N
  <2> QED BY <1>4
<1>7. V1Listens(r) = {<<k, name[b[k + 1]]>> : k \in K}
  <2> HIDE DEF K, N
  <2> QED BY <1>2, <1>3, <1>5, <1>6
<1> QED BY <1>7 DEF b

(* What StoreV1 counts. *)
LEMMA V1Counts ==
  ASSUME RowsInv, Fresh, NEW u, NEW S, NEW n \in Names
  PROVE  V1ByArtist(u, S)[n] = Cardinality(Listens(Ids(Within(songs, u, S)), n))
<1> DEFINE W == Within(songs, u, S)
           Of(r) == {<<r.id, l[1]>> : l \in {k \in V1Listens(r) : k[2] = n}}
           A == UNION {Of(r) : r \in W}
           L == Listens(Ids(W), n)
<1>1. V1ByArtist(u, S)[n] = Cardinality(A)
  BY DEF V1ByArtist
<1>2. W \subseteq songs
  BY DEF Within
<1>3. ASSUME NEW r \in W
      PROVE  Of(r) = {<<r.id, k>> : k \in {j \in Nat : /\ j + 1 \in DOMAIN by[History[r.id]]
                                                     /\ name[by[History[r.id]][j + 1]] = n}}
  <2> DEFINE b == by[History[r.id]]
             K == {j \in Nat : j + 1 \in DOMAIN b}
  <2>1. V1Listens(r) = {<<k, name[b[k + 1]]>> : k \in K}
    BY <1>2, FreshListens
  <2>2. {l \in V1Listens(r) : l[2] = n} = {<<k, name[b[k + 1]]>> : k \in {j \in K : name[b[j + 1]] = n}}
    <3> HIDE DEF K, b
    <3> QED BY <2>1
  <2>3. Of(r) = {<<r.id, k>> : k \in {j \in K : name[b[j + 1]] = n}}
    <3> DEFINE M == {j \in K : name[b[j + 1]] = n}
    <3>1. Of(r) = {<<r.id, l[1]>> : l \in {<<k, name[b[k + 1]]>> : k \in M}}
      BY <2>2
    <3> HIDE DEF M, b
    <3>2. {<<r.id, l[1]>> : l \in {<<k, name[b[k + 1]]>> : k \in M}} = {<<r.id, k>> : k \in M}
      <4> DEFINE X == {<<k, name[b[k + 1]]>> : k \in M}
      <4>1. \A l \in X : l[1] \in M
        OBVIOUS
      <4>2. ASSUME NEW k \in M PROVE \E l \in X : l[1] = k
        <5>1. <<k, name[b[k + 1]]>> \in X
          OBVIOUS
        <5> QED BY <5>1
      <4> HIDE DEF X
      <4>3. {<<r.id, l[1]>> : l \in X} = {<<r.id, k>> : k \in M}
        BY <4>1, <4>2
      <4> QED BY <4>3 DEF X
    <3> HIDE DEF Of
    <3> QED BY <3>1, <3>2 DEF M
  <2> QED BY <2>3
<1>4. ASSUME NEW e \in A PROVE e \in L
  <2>1. PICK r \in W : e \in Of(r)
    OBVIOUS
  <2>2. PICK k \in Nat : /\ e = <<r.id, k>> /\ k + 1 \in DOMAIN by[History[r.id]]
                         /\ name[by[History[r.id]][k + 1]] = n
    <3> HIDE DEF Of
    <3> QED BY <1>3, <2>1
  <2>3. r.id \in Ids(W)
    BY DEF Ids
  <2> HIDE DEF W
  <2> QED BY <2>2, <2>3 DEF Listens
<1>5. ASSUME NEW e \in L PROVE e \in A
  <2> HIDE DEF W, Of
  <2>1. PICK i \in Ids(W), k \in Nat : /\ e = <<i, k>> /\ k + 1 \in DOMAIN by[History[i]]
                                       /\ name[by[History[i]][k + 1]] = n
    BY DEF Listens
  <2>2. PICK r \in W : r.id = i
    BY DEF Ids
  <2>3. e \in Of(r)
    BY <1>3, <2>1, <2>2
  <2> QED BY <2>3
<1> HIDE DEF A, L
<1>6. A = L
  BY <1>4, <1>5
<1> QED BY <1>1, <1>6 DEF L

(* What StoreV2 counts. *)
LEMMA V2Counts ==
  ASSUME RowsInv, Fresh, NEW u, NEW S, NEW n \in Names
  PROVE  V2ByArtist(u, S)[n] = Cardinality(Listens(Ids(Within(played, u, S)), n))
<1> DEFINE W == Within(played, u, S)
           L == Listens(Ids(W), n)
           H == Heard(u, S, n)
           Play(i) == [id |-> i, track |-> History[i]]
           f == [l \in L |-> <<Play(l[1]), <<History[l[1]], by[History[l[1]]][l[2] + 1]>>>>]
<1>1. V2ByArtist(u, S)[n] = Cardinality(H) /\ IsFiniteSet(H)
  BY HeardCount, HeardFinite DEF RowsInv
<1>2. ASSUME NEW p \in W
      PROVE  /\ p = Play(p.id) /\ p \in played /\ p.track = History[p.id]
             /\ p.id \in DOMAIN History /\ p.track \in Ids(tracks)
             /\ by[p.track] \in Credited /\ p.track \in Tracks
             /\ DOMAIN by[p.track] \subseteq Nat \ {0}
  <2>1. p \in played /\ p \in PlayedRow
    BY DEF Within, RowsInv, TablesInv, Table
  <2>2. by[p.track] \in Credited
    BY <2>1 DEF PlayedRow, RowsInv, CatalogueInv
  <2>3. DOMAIN by[p.track] \subseteq Nat \ {0}
    BY <2>2, LenProperties
  <2> QED BY <2>1, <2>2, <2>3 DEF PlayedRow, RowsInv, JoinInv
<1>3. ASSUME NEW l \in L
      PROVE  /\ l = <<l[1], l[2]>> /\ l[2] \in Nat
             /\ Play(l[1]) \in W
             /\ l[2] + 1 \in DOMAIN by[History[l[1]]]
             /\ name[by[History[l[1]]][l[2] + 1]] = n
  <2> HIDE DEF W
  <2>1. /\ l \in Ids(W) \X Nat /\ l[2] + 1 \in DOMAIN by[History[l[1]]]
        /\ name[by[History[l[1]]][l[2] + 1]] = n
    BY DEF Listens
  <2>2. PICK p \in W : p.id = l[1]
    BY <2>1 DEF Ids
  <2>3. Play(l[1]) \in W
    BY <1>2, <2>2
  <2> QED BY <2>1, <2>3
<1>4. ASSUME NEW l \in L PROVE f[l] \in H
  <2> DEFINE x == History[l[1]]
             c == <<x, by[x][l[2] + 1]>>
  <2>1. f[l] = <<Play(l[1]), c>>
    OBVIOUS
  <2>2. Play(l[1]) \in W /\ Play(l[1]).track = x /\ x \in Ids(tracks)
    <3>1. Play(l[1]).track = x
      OBVIOUS
    <3> QED BY <1>2, <1>3, <3>1
  <2>3. l[2] + 1 \in DOMAIN by[x] /\ name[by[x][l[2] + 1]] = n
    BY <1>3
  <2> HIDE DEF W, x, f, Play
  <2>4. c \in credits
    BY <2>2, <2>3 DEF Fresh
  <2>5. PICK a \in artists : a.id = c[2]
    BY <2>4 DEF RowsInv, TablesInv, Ids
  <2>6. a.name = n
    BY <2>3, <2>5 DEF Fresh
  <2>7. <<Play(l[1]), c>> \in Within(played, u, S) \X credits
    BY <2>2, <2>4 DEF W
  <2> QED BY <2>1, <2>2, <2>5, <2>6, <2>7 DEF Heard
<1>5. ASSUME NEW l \in L, NEW m \in L, f[l] = f[m] PROVE l = m
  <2>1. Play(l[1]) = Play(m[1]) /\ by[History[l[1]]][l[2] + 1] = by[History[m[1]]][m[2] + 1]
    BY <1>5
  <2>2. l[1] = m[1]
    BY <2>1
  <2>3. by[History[l[1]]] \in Credited
    <3>1. Play(l[1]) \in W
      BY <1>3
    <3>2. Play(l[1]).track = History[l[1]]
      OBVIOUS
    <3> QED BY <1>2, <3>1, <3>2
  <2>4. l[2] + 1 = m[2] + 1
    BY <1>3, <2>1, <2>2, <2>3
  <2>5. l = <<l[1], l[2]>> /\ l[2] \in Nat /\ m = <<m[1], m[2]>> /\ m[2] \in Nat
    BY <1>3
  <2> HIDE DEF L, f, Play
  <2>6. l[2] = m[2]
    BY <2>4, <2>5
  <2> QED BY <2>2, <2>5, <2>6
<1>6. ASSUME NEW h \in H PROVE \E l \in L : f[l] = h
  <2>1. PICK p \in W, c \in credits : h = <<p, c>> /\ p.track = c[1]
                                     /\ \E a \in artists : a.id = c[2] /\ a.name = n
    BY DEF Heard
  <2>2. PICK a \in artists : a.id = c[2] /\ a.name = n
    BY <2>1
  <2>3. PICK k \in DOMAIN by[c[1]] : c[2] = by[c[1]][k]
    BY DEF Fresh
  <2>4. name[c[2]] = n
    BY <2>2 DEF Fresh
  <2>5. c = <<c[1], c[2]>>
    BY DEF RowsInv, TablesInv
  <2>6. c[1] = History[p.id] /\ k \in Nat \ {0} /\ p = Play(p.id)
    BY <1>2, <2>1
  <2> DEFINE l == <<p.id, k - 1>>
  <2>7. p.id \in Ids(W)
    BY DEF Ids
  <2>8. k - 1 \in Nat /\ (k - 1) + 1 = k
    BY <2>6
  <2>9. l \in L
    <3> HIDE DEF W
    <3> QED BY <2>3, <2>4, <2>6, <2>7, <2>8 DEF Listens
  <2>10. f[l] = <<Play(p.id), <<History[p.id], by[History[p.id]][(k - 1) + 1]>>>>
    BY <2>9
  <2>11. f[l] = h
    <3> HIDE DEF f, l, Play, W
    <3> QED BY <2>1, <2>3, <2>5, <2>6, <2>8, <2>10
  <2> QED BY <2>9, <2>11
<1>7. f \in [L -> H]
  <2>1. \A l \in L : f[l] \in H
    BY <1>4
  <2> HIDE DEF L, H
  <2> QED BY <2>1
<1> HIDE DEF f, L, H
<1>8. Cardinality(L) = Cardinality(H)
  BY <1>1, <1>5, <1>6, <1>7, SameSize
<1> QED BY <1>1, <1>8 DEF L

(* The titles that both stores give. *)
LEMMA TitlesAgree ==
  ASSUME RowsInv, Fresh, NEW u, NEW S, Ids(Within(songs, u, S)) = Ids(Within(played, u, S))
  PROVE  V1Played(u, S) = V2Played(u, S)
<1> DEFINE V == Within(songs, u, S)
           W == Within(played, u, S)
           J == {q \in W \X tracks : q[1].track = q[2].id}
<1>1. \A r \in V : r.title = title[History[r.id]]
  <2>1. \A r \in songs : r.title = title[History[r.id]]
    BY FreshParts DEF Fresh
  <2> QED BY <2>1 DEF Within
<1>2. \A p \in W : p.track = History[p.id] /\ p.track \in Ids(tracks)
  BY DEF Within, RowsInv, TablesInv, JoinInv, Table, PlayedRow
<1>3. \A t \in tracks : t.name = title[t.id]
  BY DEF Fresh
<1>s. Ids(V) = Ids(W)
  OBVIOUS
<1> HIDE DEF V, W
<1>4. ASSUME NEW r \in V PROVE \E p \in W : p.id = r.id
  <2>1. r.id \in Ids(W)
    BY <1>s DEF Ids
  <2> QED BY <2>1 DEF Ids
<1>5. ASSUME NEW p \in W PROVE \E r \in V : p.id = r.id
  <2>1. p.id \in Ids(V)
    BY <1>s DEF Ids
  <2> QED BY <2>1 DEF Ids
<1>6. V1Played(u, S) = {<<r.id[2], r.title>> : r \in V}
  BY DEF V1Played, V
<1>7. V2Played(u, S) = {<<pr[1].id[2], pr[2].name>> : pr \in J}
  BY DEF V2Played, W
<1>8. ASSUME NEW r \in V PROVE <<r.id[2], r.title>> \in V2Played(u, S)
  <2>1. PICK p \in W : p.id = r.id
    BY <1>4
  <2>2. PICK t \in tracks : t.id = p.track
    BY <1>2 DEF Ids
  <2>3. <<p, t>> \in J
    BY <2>2
  <2>4. t.name = r.title
    BY <1>1, <1>2, <1>3, <2>1, <2>2
  <2> QED BY <1>7, <2>1, <2>3, <2>4
<1>9. ASSUME NEW pr \in J PROVE <<pr[1].id[2], pr[2].name>> \in V1Played(u, S)
  <2>1. pr[1] \in W /\ pr[2] \in tracks /\ pr[1].track = pr[2].id
    OBVIOUS
  <2> HIDE DEF J
  <2>2. PICK r \in V : pr[1].id = r.id
    BY <1>5, <2>1
  <2>3. pr[2].name = r.title
    BY <1>1, <1>2, <1>3, <2>1, <2>2
  <2> QED BY <1>6, <2>2, <2>3
<1> HIDE DEF J
<1>10. V1Played(u, S) \subseteq V2Played(u, S)
  BY <1>6, <1>8
<1>11. V2Played(u, S) \subseteq V1Played(u, S)
  BY <1>7, <1>9
<1> QED BY <1>10, <1>11

(* The two stores, filled by the same calls, answer alike: as long as nothing
   was edited, wherever they hold the same plays of a user they give the same
   titles and count the same listens for each name. *)
THEOREM StoresAlwaysAgree == Spec => []StoresAgree
<1>1. Init => FreshInv
  BY DEF Init, FreshInv, Fresh, Ids
<1>2. RowsInv /\ FreshInv => StoresAgree
  <2> SUFFICES ASSUME RowsInv, FreshInv, edits = 0, NEW u \in Users, NEW S \in SUBSET Times,
                      Ids(Within(songs, u, S)) = Ids(Within(played, u, S))
               PROVE  V1Played(u, S) = V2Played(u, S) /\ V1ByArtist(u, S) = V2ByArtist(u, S)
    BY DEF StoresAgree
  <2>1. Fresh
    BY DEF FreshInv
  <2>2. V1Played(u, S) = V2Played(u, S)
    BY <2>1, TitlesAgree
  <2>3. \A n \in Names : V1ByArtist(u, S)[n] = V2ByArtist(u, S)[n]
    BY <2>1, V1Counts, V2Counts
  <2>4. /\ V1ByArtist(u, S) = [n \in Names |-> V1ByArtist(u, S)[n]]
        /\ V2ByArtist(u, S) = [n \in Names |-> V2ByArtist(u, S)[n]]
    BY DEF V1ByArtist, V2ByArtist
  <2> QED BY <2>2, <2>3, <2>4
<1> QED BY <1>1, <1>2, RowsAreTyped, FreshStep, PTL DEF Spec
=============================================================================
