---------------------------- MODULE SpotifyStore ----------------------------
(***************************************************************************)
(* PersistRecentlyPlayed of StoreV1 (one denormalised row per play) and of *)
(* StoreV2 (albums, tracks, artists, credits and plays), statement by      *)
(* statement, with several calls in progress at once: the handlers run in  *)
(* goroutines of their own and share one Postgres.                         *)
(*                                                                         *)
(* Postgres is modelled from what the code relies on (READ COMMITTED, the  *)
(* default of db.Begin): a statement sees the committed rows and those of  *)
(* its own transaction; INSERT ... ON CONFLICT DO NOTHING waits while      *)
(* another open transaction holds the same key; a cycle of waits is broken *)
(* by failing a statement of one of its members; no row is ever deleted.   *)
(*                                                                         *)
(* A row is named by its key.  What else a row holds is a function of the  *)
(* key: the listening history says which track a user played at a time,    *)
(* and the catalogue says which album and artists a track has.             *)
(***************************************************************************)
EXTENDS Naturals, Sequences, FiniteSets

CONSTANTS Calls,       \* calls of PersistRecentlyPlayed that may overlap
          Stores,      \* the stores the calls go to, among "v1" and "v2"
          Users, Times, Tracks, Albums, Artists,
          History,     \* History[u][t]: the track user u played at time t
          AlbumOf,     \* AlbumOf[x]: the album of track x
          ArtistsOf,   \* ArtistsOf[x]: the artists of track x, primary first
          Batches      \* the lists of plays a call may be given

ASSUME CatalogueAssumption ==
  /\ History \in [Users -> [Times -> Tracks]]
  /\ AlbumOf \in [Tracks -> Albums]
  /\ ArtistsOf \in [Tracks -> Seq(Artists)]
  /\ Batches \subseteq Seq(Times)
  /\ Stores \subseteq {"v1", "v2"} /\ Stores # {}
  /\ Users # {}

(* The API lists the plays of a user newest first. *)
ASSUME NewestFirst ==
  /\ Times \subseteq Nat
  /\ \A b \in Batches : \A i, j \in DOMAIN b : i < j => b[i] > b[j]

VARIABLES
  db,        \* the committed rows of all tables
  pc,        \* pc[c]: "idle", "begin" or "insert"
  args,      \* args[c]: the store, user and songs call c was given
  song,      \* song[c]: the index of the loop over songs
  stmt,      \* stmt[c]: the next statement for the current song
  own,       \* own[c]: the rows c's transaction inserted, not yet committed
  persisted, \* persisted[c]: the plays c will return, as rows
  result,    \* result[c]: how the last run of c ended
  reported   \* ghost: the plays that successful StoreV1 calls returned

vars == <<db, pc, args, song, stmt, own, persisted, result, reported>>

-----------------------------------------------------------------------------
(* The rows of the schema and what they reference. *)

SongRow(u, t)   == <<"song", u, t>>
PlayedRow(u, t) == <<"played", u, t>>

Row == ({"album"} \X Albums) \cup ({"track"} \X Tracks)
         \cup ({"artist"} \X Artists) \cup ({"credit"} \X Tracks \X Artists)
         \cup ({"song", "played"} \X Users \X Times)

(* The foreign keys, REFERENCES in schema.sql (users are never removed). *)
References(r) ==
  IF r[1] = "track" THEN {<<"album", AlbumOf[r[2]]>>}
  ELSE IF r[1] = "credit" THEN {<<"track", r[2]>>, <<"artist", r[3]>>}
  ELSE IF r[1] = "played" THEN {<<"track", History[r[2]][r[3]]>>}
  ELSE {}

Mut_PrimaryOnly(x) ==
  IF ArtistsOf[x] = <<>> THEN <<>>
    ELSE <<<<"artist", ArtistsOf[x][1]>>, <<"credit", x, ArtistsOf[x][1]>>>>

(* The loop over the artists of a track: its row, then its credit. *)
ArtistRows(x) ==
  [k \in 1 .. 2 * Len(ArtistsOf[x]) |->
     IF k % 2 = 1 THEN <<"artist", ArtistsOf[x][(k + 1) \div 2]>>
                  ELSE <<"credit", x, ArtistsOf[x][k \div 2]>>]

Mut_TrackFirst(u, t) ==
  LET x == History[u][t] IN
  <<<<"track", x>>, <<"album", AlbumOf[x]>>>> \o ArtistRows(x)
     \o <<PlayedRow(u, t)>>

(* The inserts persistSong makes for one play, in order. *)
PersistSong(u, t) ==
  LET x == History[u][t] IN
  <<<<"album", AlbumOf[x]>>, <<"track", x>>>> \o ArtistRows(x)
     \o <<PlayedRow(u, t)>>

PlayInserts ==
  [st \in Stores |-> [u \in Users |-> [t \in Times |->
     IF st = "v1" THEN <<SongRow(u, t)>> ELSE PersistSong(u, t)]]]

Statements(a, t) == PlayInserts[a.store][a.user][t]

RowsOf(s) == {s[k] : k \in DOMAIN s}

BatchRows(a) == UNION {RowsOf(Statements(a, a.songs[i])) : i \in DOMAIN a.songs}

-----------------------------------------------------------------------------
(* Where a call stands. *)

Running(c)   == pc[c] = "insert"
Song(c)      == args[c].songs[song[c]]
LoopDone(c)  == song[c] > Len(args[c].songs)
Inserting(c) == Running(c) /\ ~LoopDone(c)
Current(c)   == Statements(args[c], Song(c))[stmt[c]]
LastStmt(c)  == stmt[c] = Len(Statements(args[c], Song(c)))
NoArtist(c)  == /\ args[c].store = "v1"
                /\ ArtistsOf[History[args[c].user][Song(c)]] = <<>>
Visible(c)   == db \cup own[c]

(* The INSERT of c waits for d to end: d holds the key, uncommitted. *)
WaitsFor(c, d) == /\ c # d
                  /\ Inserting(c) /\ ~NoArtist(c)
                  /\ Current(c) \notin Visible(c)
                  /\ Current(c) \in own[d]

Waiting(c) == \E d \in Calls : WaitsFor(c, d)

(* c is on a cycle of waits; a key has one holder, so a set of calls that
   each wait for and are waited for by a member consists of such cycles. *)
Deadlocked(c) ==
  \E S \in SUBSET Calls :
     /\ c \in S
     /\ \A d \in S : /\ \E e \in S : WaitsFor(d, e)
                     /\ \E e \in S : WaitsFor(e, d)

-----------------------------------------------------------------------------
Init == /\ db = {}
        /\ pc = [c \in Calls |-> "idle"]
        /\ args = [c \in Calls |-> [store |-> CHOOSE st \in Stores : TRUE,
                                    user |-> CHOOSE u \in Users : TRUE,
                                    songs |-> <<>>]]
        /\ song = [c \in Calls |-> 1]
        /\ stmt = [c \in Calls |-> 1]
        /\ own = [c \in Calls |-> {}]
        /\ persisted = [c \in Calls |-> {}]
        /\ result = [c \in Calls |-> "none"]
        /\ reported = {}

Mut_OldestFirst(c) ==
  /\ pc[c] = "idle"
  /\ \E st \in Stores, u \in Users, b \in Batches :
     \E s \in {b, [i \in DOMAIN b |-> b[Len(b) + 1 - i]]} :
       args' = [args EXCEPT ![c] = [store |-> st, user |-> u, songs |-> s]]
  /\ pc' = [pc EXCEPT ![c] = "begin"]
  /\ result' = [result EXCEPT ![c] = "none"]
  /\ UNCHANGED <<db, song, stmt, own, persisted, reported>>

(* A handler calls PersistRecentlyPlayed with what the API returned. *)
Call(c) ==
  /\ pc[c] = "idle"
  /\ \E st \in Stores, u \in Users, b \in Batches :
       args' = [args EXCEPT ![c] = [store |-> st, user |-> u, songs |-> b]]
  /\ pc' = [pc EXCEPT ![c] = "begin"]
  /\ result' = [result EXCEPT ![c] = "none"]
  /\ UNCHANGED <<db, song, stmt, own, persisted, reported>>

Begin(c) ==
  /\ pc[c] = "begin"
  /\ pc' = [pc EXCEPT ![c] = "insert"]
  /\ UNCHANGED <<db, args, song, stmt, own, persisted, result, reported>>

(* PrepareContext or Begin fails.  StoreV1 returns the error; StoreV2 hands
   its nil *sql.Tx to zql.Rollback, which dereferences it. *)
BeginFails(c) ==
  /\ pc[c] = "begin"
  /\ pc' = [pc EXCEPT ![c] = "idle"]
  /\ result' = [result EXCEPT
                  ![c] = IF args[c].store = "v1" THEN "error" ELSE "panic"]
  /\ UNCHANGED <<db, args, song, stmt, own, persisted, reported>>

Mut_ZeroIndexed(c, res) ==
  /\ pc' = [pc EXCEPT ![c] = "idle"]
  /\ song' = [song EXCEPT ![c] = 0]
  /\ stmt' = [stmt EXCEPT ![c] = 1]
  /\ own' = [own EXCEPT ![c] = {}]
  /\ persisted' = [persisted EXCEPT ![c] = {}]
  /\ result' = [result EXCEPT ![c] = res]
  /\ UNCHANGED args

(* The call leaves the loop and its transaction is over. *)
Return(c, res) ==
  /\ pc' = [pc EXCEPT ![c] = "idle"]
  /\ song' = [song EXCEPT ![c] = 1]
  /\ stmt' = [stmt EXCEPT ![c] = 1]
  /\ own' = [own EXCEPT ![c] = {}]
  /\ persisted' = [persisted EXCEPT ![c] = {}]
  /\ result' = [result EXCEPT ![c] = res]
  /\ UNCHANGED args

Mut_RollbackForgotten(c) ==
  /\ pc' = [pc EXCEPT ![c] = "idle"]
  /\ song' = [song EXCEPT ![c] = 1]
  /\ stmt' = [stmt EXCEPT ![c] = 1]
  /\ persisted' = [persisted EXCEPT ![c] = {}]
  /\ result' = [result EXCEPT ![c] = "error"]
  /\ UNCHANGED <<db, args, own, reported>>

(* return nil, zql.Rollback(tx, err) *)
Rollback(c) ==
  /\ Return(c, "error")
  /\ UNCHANGED <<db, reported>>

(* On to the next statement of the song, or to the next song. *)
Advance(c) ==
  IF LastStmt(c)
    THEN /\ song' = [song EXCEPT ![c] = @ + 1]
         /\ stmt' = [stmt EXCEPT ![c] = 1]
    ELSE /\ stmt' = [stmt EXCEPT ![c] = @ + 1]
         /\ UNCHANGED song

Mut_CountConflicts(c) ==
  IF args[c].store = "v1" THEN {Current(c)} ELSE {}

(* The play the statement adds to persisted: StoreV1 skips a play that is
   already stored (RETURNING gives no row), StoreV2 returns its id anyway. *)
Returned(c) ==
  IF args[c].store = "v1"
    THEN {Current(c)} \ Visible(c)
    ELSE IF LastStmt(c) THEN {Current(c)} ELSE {}

Mut_InsertOutsideTx(c) ==
  /\ Inserting(c) /\ ~NoArtist(c) /\ ~Waiting(c)
  /\ db' = db \cup {Current(c)}
  /\ persisted' = [persisted EXCEPT ![c] = @ \cup Returned(c)]
  /\ Advance(c)
  /\ UNCHANGED <<pc, args, own, result, reported>>

(* INSERT ... ON CONFLICT DO NOTHING, once no other transaction holds the key. *)
Insert(c) ==
  /\ Inserting(c) /\ ~NoArtist(c) /\ ~Waiting(c)
  /\ own' = [own EXCEPT ![c] = @ \cup ({Current(c)} \ db)]
  /\ persisted' = [persisted EXCEPT ![c] = @ \cup Returned(c)]
  /\ Advance(c)
  /\ UNCHANGED <<db, pc, args, result, reported>>

(* StoreV1 gives up the whole batch over one play without an artist. *)
RejectNoArtist(c) ==
  /\ Inserting(c) /\ NoArtist(c)
  /\ Rollback(c)

(* A statement fails: a cancelled context, a lost connection. *)
StatementFails(c) ==
  /\ Inserting(c)
  /\ Rollback(c)

(* Postgres fails the statement of one member of a cycle of waits. *)
DeadlockAbort(c) ==
  /\ Deadlocked(c)
  /\ Rollback(c)

Commit(c) ==
  /\ Running(c) /\ LoopDone(c)
  /\ db' = db \cup own[c]
  /\ reported' = IF args[c].store = "v1" THEN reported \cup persisted[c] ELSE reported
  /\ Return(c, "ok")

(* tx.Commit returns an error: Postgres may have committed or not. *)
CommitFails(c) ==
  /\ Running(c) /\ LoopDone(c)
  /\ db' \in {db, db \cup own[c]}
  /\ Return(c, "error")
  /\ UNCHANGED reported

(* The process dies: Postgres rolls back every open transaction.  (A COMMIT
   on its way at that moment is a CommitFails just before.) *)
Crash ==
  /\ \E c \in Calls : pc[c] # "idle"
  /\ pc' = [c \in Calls |-> "idle"]
  /\ song' = [c \in Calls |-> 1]
  /\ stmt' = [c \in Calls |-> 1]
  /\ own' = [c \in Calls |-> {}]
  /\ persisted' = [c \in Calls |-> {}]
  /\ result' = [c \in Calls |-> IF pc[c] = "idle" THEN result[c] ELSE "killed"]
  /\ UNCHANGED <<db, args, reported>>

Next == \/ \E c \in Calls :
             \/ Call(c) \/ Begin(c) \/ BeginFails(c)
             \/ Insert(c) \/ RejectNoArtist(c) \/ StatementFails(c)
             \/ DeadlockAbort(c) \/ Commit(c) \/ CommitFails(c)
        \/ Crash

Spec == Init /\ [][Next]_vars

(* A call that can go on again and again goes on at last: a goroutine runs
   until it blocks, the deadlock detector runs, and a waiter is woken whenever
   the transaction it waits for ends and is not passed over for ever. *)
Fairness ==
  \A c \in Calls :
    SF_vars(\/ Begin(c) \/ BeginFails(c) \/ Insert(c) \/ RejectNoArtist(c)
            \/ DeadlockAbort(c) \/ Commit(c) \/ CommitFails(c))

FairSpec == Spec /\ Fairness

-----------------------------------------------------------------------------
TypeOK ==
  /\ db \subseteq Row
  /\ pc \in [Calls -> {"idle", "begin", "insert"}]
  /\ args \in [Calls -> [store : Stores, user : Users, songs : Seq(Times)]]
  /\ song \in [Calls -> Nat \ {0}]
  /\ stmt \in [Calls -> Nat \ {0}]
  /\ own \in [Calls -> SUBSET Row]
  /\ persisted \in [Calls -> SUBSET Row]
  /\ result \in [Calls -> {"none", "ok", "error", "panic", "killed"}]
  /\ reported \subseteq Row

(* No INSERT can fail on a foreign key: whatever it references is committed
   or was inserted by the same transaction, although ON CONFLICT DO NOTHING
   may have skipped the insert of the referenced row (persistSong's order). *)
ForeignKeysHold ==
  /\ \A r \in db : References(r) \subseteq db
  /\ \A c \in Calls : Inserting(c) => References(Current(c)) \subseteq Visible(c)

(* A stored play joins with its track, its album and every credited artist,
   so getSongs and getArtists never miss part of it, even when its rows were
   inserted by several transactions, some rolled back. *)
PlaysJoin ==
  \A u \in Users, t \in Times : PlayedRow(u, t) \in db =>
    LET x == History[u][t] IN
    /\ {<<"track", x>>, <<"album", AlbumOf[x]>>} \subseteq db
    /\ \A a \in RowsOf(ArtistsOf[x]) :
         {<<"artist", a>>, <<"credit", x, a>>} \subseteq db

(* A play is returned by at most one successful StoreV1 call: overlapping
   refreshes never count it twice in the num_persisted they publish. *)
ReportedOnce ==
  \A c \in Calls : Running(c) /\ args[c].store = "v1" =>
    /\ persisted[c] \cap reported = {}
    /\ \A d \in Calls \ {c} : Running(d) /\ args[d].store = "v1"
                                => persisted[c] \cap persisted[d] = {}

(* StoreV1 calls never deadlock: the API lists plays newest first, so two
   calls whose lists overlap lock the plays they share in the same order. *)
V1NeverDeadlocks == \A c \in Calls : Deadlocked(c) => args[c].store = "v2"

(* PersistRecentlyPlayed stores its batch entirely or not at all, under any
   interleaving, deadlock, failure or crash; no error means it is stored, and
   StoreV1 returns the plays of it that were not there before, all of them and
   no other, although it collects them one by one while other calls commit. *)
Atomic == INSTANCE AtomicStore WITH
            batch   <- [c \in Calls |-> BatchRows(args[c])],
            fresh   <- [c \in Calls |-> args[c].store = "v1"],
            outcome <- [c \in Calls |-> IF pc[c] = "idle" THEN result[c]
                                                          ELSE "running"]

AllOrNothing == Atomic!Spec

(* Every call returns: a lock wait ends, even a cyclic one. *)
EveryCallReturns == \A c \in Calls : pc[c] # "idle" ~> pc[c] = "idle"

(* The comment on zql.Rollback says it rolls back and joins the error to the
   original one: a Begin that fails is reported as an error, not a panic. *)
BeginErrorReturned == \A c \in Calls : result[c] # "panic"
=============================================================================
