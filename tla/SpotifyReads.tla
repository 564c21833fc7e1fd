---------------------------- MODULE SpotifyReads ----------------------------
(***************************************************************************)
(* What the two Spotify stores answer when plays are read back, and how    *)
(* they come to differ.  SpotifyStore is about which rows are there; this  *)
(* module adds what the rows say.  StoreV1 keeps with each play the track  *)
(* as it was when it was stored; StoreV2 keeps the first version of each   *)
(* track and artist and joins.  The catalogue (titles, names, credits) is  *)
(* Spotify's and may be edited at any time.                                *)
(*                                                                         *)
(* refresh stores its list in StoreV1, then in StoreV2; backfill in        *)
(* StoreV2 only; the dump command copies StoreV1 into StoreV2.  Each of    *)
(* these is one step that stores the whole list or nothing (AllOrNothing   *)
(* of SpotifyStore), and a read sees committed rows only.                  *)
(***************************************************************************)
EXTENDS Naturals, Sequences, FiniteSets

CONSTANTS Handlers,    \* handlers and commands that may overlap
          Users, Times, Tracks, Artists, Names,
          History,     \* History[<<u, t>>]: the track user u played at time t
          Credited,    \* the lists of artists a track may have, <<>> too
          Catalogues,  \* what the catalogue may say at first
          MaxEdits     \* bounds the edits of the catalogue

ASSUME ReadsAssumption ==
  /\ Times \subseteq Nat /\ MaxEdits \in Nat
  /\ DOMAIN History \subseteq Users \X Times
  /\ \A p \in DOMAIN History : History[p] \in Tracks
  /\ Credited \subseteq Seq(Artists)
  /\ \A s \in Credited : \A i, j \in DOMAIN s : s[i] = s[j] => i = j
  /\ Catalogues \subseteq [title : [Tracks -> Names], by : [Tracks -> Credited],
                           name : [Artists -> Names]]

VARIABLES
  title, by, name,  \* the catalogue: title[x], by[x] of tracks, name[a] of artists
  edits,            \* how often it was edited
  songs,            \* rows of spotify_songs
  tracks, artists, credits, played, \* rows of the tables of StoreV2
  stage,            \* stage[h]: "idle", "v1" or "v2", the store h goes on with
  items,            \* items[h]: the plays h is storing
  lost,             \* ghost: plays that StoreV2 lacks since a call did not finish
  bare              \* ghost: tracks that came to StoreV2 without an artist

catalogue == <<title, by, name, edits>>
tables2   == <<tracks, artists, credits, played, bare>>
vars      == <<catalogue, songs, tables2, stage, items, lost>>

Init == /\ \E c \in Catalogues : title = c.title /\ by = c.by /\ name = c.name
        /\ edits = 0
        /\ songs = {} /\ tracks = {} /\ artists = {} /\ credits = {} /\ played = {}
        /\ stage = [h \in Handlers |-> "idle"]
        /\ items = [h \in Handlers |-> {}]
        /\ lost = {} /\ bare = {}

Ids(rows) == {r.id : r \in rows}

-----------------------------------------------------------------------------
(* The stores. *)

Mut_NoKey(table, rows) == {table \cup rows}

Mut_Upsert(table, rows) ==
  {{r \in table : r.id \notin Ids(S)} \cup S :
     S \in {T \in SUBSET rows : Ids(T) = Ids(rows)
                                  /\ Cardinality(T) = Cardinality(Ids(T))}}

(* INSERT ... ON CONFLICT DO NOTHING, row after row: a key that is there keeps
   its row, a new one gets the row that comes first. *)
InsertNew(table, rows) ==
  LET new == {r \in rows : r.id \notin Ids(table)}
  IN  {table \cup S : S \in {T \in SUBSET new :
                               /\ Ids(T) = Ids(new)
                               /\ Cardinality(T) = Cardinality(Ids(T))}}

HasArtists(r) == r.artists # <<>>

(* PersistRecentlyPlayed of StoreV1: one play without an artist is ErrNoArtist
   for the whole list. *)
PersistV1(rows) == /\ \A r \in rows : HasArtists(r)
                   /\ songs' \in InsertNew(songs, rows)
                   /\ UNCHANGED tables2

(* The artists of one play. *)
Credit(r) == {r.artists[k] : k \in DOMAIN r.artists}

(* PersistRecentlyPlayed of StoreV2: persistSong for each play, which takes one
   without an artist too. *)
PersistV2(rows) ==
  /\ tracks'  \in InsertNew(tracks, {[id |-> r.track, name |-> r.title] : r \in rows})
  /\ artists' \in InsertNew(artists, UNION {Credit(r) : r \in rows})
  /\ credits' = credits \cup UNION {{<<r.track, a.id>> : a \in Credit(r)} : r \in rows}
  /\ played'  \in InsertNew(played, {[id |-> r.id, track |-> r.track] : r \in rows})
  /\ bare' = bare \cup {r.track : r \in {q \in rows : ~HasArtists(q)}}
  /\ UNCHANGED songs

(* The rows of user u within the span of times S. *)
Within(rows, u, S) == {r \in rows : r.id[1] = u /\ r.id[2] \in S}

(* GetAll of StoreV1. *)
GetAll(u) == Within(songs, u, Times)

(* GetRecentlyPlayed of StoreV1 and of StoreV2: times with titles. *)
V1Played(u, S) == {<<r.id[2], r.title>> : r \in Within(songs, u, S)}

V2Played(u, S) ==
  {<<pr[1].id[2], pr[2].name>> :
     pr \in {q \in Within(played, u, S) \X tracks : q[1].track = q[2].id}}

Mut_ListensAll(r) == {<<0, r.artists[1].name>>}
                       \cup {<<i, r.artists[i].name>> : i \in DOMAIN r.artists}

(* The listens of one row of StoreV1, by index: artist_name, then the artists
   of the blob from the second on. *)
V1Listens(r) == {<<0, r.artists[1].name>>}
                  \cup {<<i, r.artists[i + 1].name>> : i \in 1 .. Len(r.artists) - 1}

(* GetRecentlyPlayedByArtist of StoreV1 and of StoreV2: how often each name was
   listened to.  (The answers leave out names with none and are ordered.) *)
V1ByArtist(u, S) ==
  [n \in Names |->
     Cardinality(UNION {{<<r.id, l[1]>> : l \in {k \in V1Listens(r) : k[2] = n}} :
                          r \in Within(songs, u, S)})]

V2ByArtist(u, S) ==
  [n \in Names |->
     Cardinality({pc \in Within(played, u, S) \X credits :
                    /\ pc[1].track = pc[2][1]
                    /\ pc[1].track \in Ids(tracks)
                    /\ \E a \in artists : a.id = pc[2][2] /\ a.name = n})]

(* getSongs and getArtists, from start to end. *)
GetSongs(u, start, end)   == V2Played(u, start .. end)
GetArtists(u, start, end) == V2ByArtist(u, start .. end)

-----------------------------------------------------------------------------
(* The handlers. *)

(* Play p as the API describes it now. *)
Item(p) ==
  LET x == History[p]
  IN  [id |-> p, track |-> x, title |-> title[x],
       artists |-> [k \in DOMAIN by[x] |-> [id |-> by[x][k], name |-> name[by[x][k]]]]]

Load(h, rows, store) == /\ stage[h] = "idle"
                        /\ items' = [items EXCEPT ![h] = rows]
                        /\ stage' = [stage EXCEPT ![h] = store]
                        /\ UNCHANGED <<catalogue, songs, tables2, lost>>

(* The list of refresh goes to StoreV1, the list of a backfill to StoreV2. *)
Fetch(h) ==
  \E u \in Users, store \in {"v1", "v2"} :
    \E S \in (SUBSET {p \in DOMAIN History : p[1] = u}) \ {{}} :
      IsFiniteSet(S) /\ Load(h, {Item(p) : p \in S}, store)

(* TransferSpotifySongs takes all songs of a user from StoreV1 to StoreV2. *)
Dump(h) == \E u \in Users : Load(h, GetAll(u), "v2")

Finish(h) == /\ stage' = [stage EXCEPT ![h] = "idle"]
             /\ items' = [items EXCEPT ![h] = {}]

StoreV1(h) == /\ stage[h] = "v1" /\ PersistV1(items[h])
              /\ stage' = [stage EXCEPT ![h] = "v2"]
              /\ UNCHANGED <<catalogue, items, lost>>

Mut_CommitUnchecked(h) ==
  /\ stage[h] = "v2"
  /\ PersistV2(items[h]) \/ UNCHANGED <<songs, tables2>>
  /\ Finish(h) /\ UNCHANGED <<catalogue, lost>>

StoreV2(h) == /\ stage[h] = "v2" /\ PersistV2(items[h])
              /\ Finish(h) /\ UNCHANGED catalogue
              /\ lost' = lost \ Ids({r \in items[h] : HasArtists(r)})

(* Play i is in StoreV2, and its track has a credit. *)
Credits(i) == i \in Ids(played) /\ \E c \in credits : c[1] = History[i]

(* Those of the plays ids that StoreV1 has and StoreV2 lacks, after the step. *)
Unserved(ids) == {i \in ids \cap Ids(songs') : ~Credits(i)'}

(* A store fails, whether or not the rows were committed.  For a list that
   StoreV1 refuses this is the only way on. *)
StoreFails(h) ==
  /\ \/ stage[h] = "v1" /\ PersistV1(items[h])
     \/ stage[h] = "v2" /\ PersistV2(items[h])
     \/ stage[h] # "idle" /\ UNCHANGED <<songs, tables2>>
  /\ Finish(h) /\ UNCHANGED catalogue
  /\ lost' = Unserved(lost \cup Ids(items[h]))

Crash == /\ \E h \in Handlers : stage[h] # "idle"
         /\ stage' = [h \in Handlers |-> "idle"]
         /\ items' = [h \in Handlers |-> {}]
         /\ UNCHANGED <<catalogue, songs, tables2>>
         /\ lost' = Unserved(lost \cup UNION {Ids(items[h]) : h \in Handlers})

(* Spotify edits a title, a name or the credits of a track. *)
Edit ==
  /\ edits < MaxEdits /\ edits' = edits + 1
  /\ \/ /\ \E x \in Tracks, n \in Names : title' = [title EXCEPT ![x] = n]
        /\ UNCHANGED <<by, name>>
     \/ /\ \E a \in Artists, n \in Names : name' = [name EXCEPT ![a] = n]
        /\ UNCHANGED <<title, by>>
     \/ /\ \E x \in Tracks, s \in Credited : by' = [by EXCEPT ![x] = s]
        /\ UNCHANGED <<title, name>>
  /\ <<title, by, name>>' # <<title, by, name>>
  /\ UNCHANGED <<songs, tables2, stage, items, lost>>

Next == \/ \E h \in Handlers : \/ Fetch(h) \/ Dump(h) \/ StoreV1(h) \/ StoreV2(h)
                               \/ StoreFails(h)
        \/ Crash \/ Edit

Spec == Init /\ [][Next]_vars

-----------------------------------------------------------------------------
Keyed(rows) == \A r, q \in rows : r.id = q.id => r = q

(* Types: one row for each key, and the rows a row of StoreV2 refers to. *)
TypeOK ==
  /\ Keyed(songs) /\ Keyed(tracks) /\ Keyed(artists) /\ Keyed(played)
  /\ credits \subseteq Ids(tracks) \X Ids(artists)
  /\ \A p \in played : p.track = History[p.id] /\ p.track \in Ids(tracks)
  /\ lost \subseteq DOMAIN History /\ bare \subseteq Tracks
  /\ \A h \in Handlers : stage[h] \in {"idle", "v1", "v2"} /\ Keyed(items[h])

(* The two stores, filled by the same calls, answer alike: as long as nothing
   was edited, wherever they hold the same plays they give the same titles and
   count the same listens, for artists that share a name too. *)
StoresAgree ==
  edits = 0 => \A u \in Users, S \in SUBSET Times :
     Ids(Within(songs, u, S)) = Ids(Within(played, u, S))
       => V1Played(u, S) = V2Played(u, S) /\ V1ByArtist(u, S) = V2ByArtist(u, S)

(* What has been read back stays: an edit of the catalogue, a copy by dump or
   a play of another user never takes a listen away or changes a title. *)
HistoryKept ==
  [][\A u \in Users :
       /\ V1Played(u, Times) \subseteq V1Played(u, Times)'
       /\ V2Played(u, Times) \subseteq V2Played(u, Times)'
       /\ \A n \in Names : V2ByArtist(u, Times)[n] <= V2ByArtist(u, Times)'[n]]_vars

(* Play i counts for somebody in what getArtists answers. *)
Named(i) == \E n \in Names : GetArtists(i[1], i[2], i[2])[n] > 0

(* getSongs and getArtists read StoreV2.  A play of StoreV1 that they do not
   know, or for which they know no artist, belongs to a call that is still going
   on or did not finish.  A play they know has one title, and counts for an
   artist, unless its track once came to StoreV2, from a backfill, without any:
   then it may be in getSongs only. *)
PlaysServed ==
  /\ \A r \in songs : \/ r.id \in Ids(played) /\ Named(r.id)
                      \/ r.id \in lost
                      \/ \E h \in Handlers : stage[h] = "v2" /\ r \in items[h]
  /\ \A p \in played : /\ Cardinality(GetSongs(p.id[1], p.id[2], p.id[2])) = 1
                       /\ Named(p.id) \/ p.track \in bare
=============================================================================
