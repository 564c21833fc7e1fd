------------------------- MODULE SpotifyStoreProofs -------------------------
(***************************************************************************)
(* Theorems about SpotifyStore, for every catalogue, listening history and *)
(* number of overlapping calls.                                            *)
(***************************************************************************)
EXTENDS SpotifyStore, SequenceTheorems, FiniteSetTheorems, WellFoundedInduction, TLAPS

-----------------------------------------------------------------------------
(* The order of the inserts of persistSong. *)

(* ArtistRows alternates between the row of an artist and its credit. *)
LEMMA ArtistRowsShape ==
  ASSUME NEW x \in Tracks
  PROVE  /\ ArtistRows(x) \in Seq(Row)
         /\ \A k \in DOMAIN ArtistRows(x) :
              \/ \E i \in DOMAIN ArtistsOf[x] :
                   ArtistRows(x)[k] = <<"artist", ArtistsOf[x][i]>>
              \/ \E i \in DOMAIN ArtistsOf[x] :
                   /\ ArtistRows(x)[k] = <<"credit", x, ArtistsOf[x][i]>>
                   /\ k - 1 \in DOMAIN ArtistRows(x)
                   /\ ArtistRows(x)[k - 1] = <<"artist", ArtistsOf[x][i]>>
         /\ \A i \in DOMAIN ArtistsOf[x] :
              /\ <<"artist", ArtistsOf[x][i]>> \in RowsOf(ArtistRows(x))
              /\ <<"credit", x, ArtistsOf[x][i]>> \in RowsOf(ArtistRows(x))
<1> DEFINE A == ArtistsOf[x]
           n == Len(A)
           R == ArtistRows(x)
<1>1. A \in Seq(Artists) /\ n \in Nat /\ DOMAIN A = 1 .. n
  BY CatalogueAssumption
<1>2. /\ DOMAIN R = 1 .. 2 * n
      /\ \A k \in 1 .. 2 * n :
           /\ k % 2 = 1 => R[k] = <<"artist", A[(k + 1) \div 2]>>
           /\ k % 2 # 1 => R[k] = <<"credit", x, A[k \div 2]>>
  BY <1>1 DEF ArtistRows
<1>3. \A k \in 1 .. 2 * n :
         /\ k % 2 = 1 => (k + 1) \div 2 \in 1 .. n
         /\ k % 2 # 1 => /\ k \div 2 \in 1 .. n
                         /\ k - 1 \in 1 .. 2 * n
                         /\ (k - 1) % 2 = 1
                         /\ ((k - 1) + 1) \div 2 = k \div 2
  BY <1>1
<1>4. \A i \in 1 .. n : /\ A[i] \in Artists
                        /\ <<"artist", A[i]>> \in Row
                        /\ <<"credit", x, A[i]>> \in Row
  BY <1>1 DEF Row
<1>5. R \in Seq(Row)
  <2>1. \A k \in 1 .. 2 * n : R[k] \in Row
    BY <1>2, <1>3, <1>4
  <2>2. R = [k \in 1 .. 2 * n |-> R[k]]
    BY <1>2 DEF ArtistRows
  <2> QED BY <1>1, <2>1, <2>2, IsASeq
<1>6. \A k \in DOMAIN R :
        \/ \E i \in DOMAIN A : R[k] = <<"artist", A[i]>>
        \/ \E i \in DOMAIN A : /\ R[k] = <<"credit", x, A[i]>>
                               /\ k - 1 \in DOMAIN R
                               /\ R[k - 1] = <<"artist", A[i]>>
  BY <1>1, <1>2, <1>3
<1>7. \A i \in DOMAIN A : /\ <<"artist", A[i]>> \in RowsOf(R)
                          /\ <<"credit", x, A[i]>> \in RowsOf(R)
  <2> SUFFICES ASSUME NEW i \in 1 .. n
               PROVE  /\ <<"artist", A[i]>> \in RowsOf(R)
                      /\ <<"credit", x, A[i]>> \in RowsOf(R)
    BY <1>1
  <2>1. /\ 2 * i - 1 \in 1 .. 2 * n /\ (2 * i - 1) % 2 = 1
        /\ ((2 * i - 1) + 1) \div 2 = i
        /\ 2 * i \in 1 .. 2 * n /\ (2 * i) % 2 # 1 /\ (2 * i) \div 2 = i
    BY <1>1
  <2>2. R[2 * i - 1] = <<"artist", A[i]>> /\ R[2 * i] = <<"credit", x, A[i]>>
    BY <1>2, <2>1
  <2> QED BY <1>2, <2>1, <2>2 DEF RowsOf
<1> QED BY <1>5, <1>6, <1>7

(* Where the elements of a framed sequence are. *)
LEMMA FramedSequence ==
  ASSUME NEW S, NEW a \in S, NEW b \in S, NEW z \in S, NEW R \in Seq(S),
         NEW P, P = <<a, b>> \o R \o <<z>>
  PROVE  /\ P \in Seq(S) /\ Len(P) = Len(R) + 3
         /\ P[1] = a /\ P[2] = b /\ P[Len(R) + 3] = z
         /\ \A k \in 1 .. Len(R) : P[k + 2] = R[k]
<1>1. /\ <<a, b>> \in Seq(S) /\ <<z>> \in Seq(S)
      /\ Len(<<a, b>>) = 2 /\ Len(<<z>>) = 1 /\ Len(R) \in Nat
  OBVIOUS
<1> DEFINE Q == <<a, b>> \o R
<1>2. /\ Q \in Seq(S) /\ Len(Q) = 2 + Len(R)
      /\ \A i \in 1 .. 2 + Len(R) :
           Q[i] = IF i <= 2 THEN <<a, b>>[i] ELSE R[i - 2]
  BY <1>1, ConcatProperties
<1> HIDE DEF Q
<1>3. /\ Q \o <<z>> \in Seq(S) /\ Len(Q \o <<z>>) = (2 + Len(R)) + 1
      /\ \A i \in 1 .. (2 + Len(R)) + 1 :
           (Q \o <<z>>)[i] = IF i <= 2 + Len(R) THEN Q[i]
                                                ELSE <<z>>[i - (2 + Len(R))]
  BY <1>1, <1>2, ConcatProperties
<1>4. P = Q \o <<z>>
  BY DEF Q
<1> QED BY <1>1, <1>2, <1>3, <1>4

(* A row that references another is inserted after it. *)
InOrder(s) == \A k \in DOMAIN s :
                \A r \in References(s[k]) : \E j \in 1 .. (k - 1) : s[j] = r

LEMMA PersistSongShape ==
  ASSUME NEW u \in Users, NEW t \in Times
  PROVE  LET x == History[u][t] IN
         /\ PersistSong(u, t) \in Seq(Row)
         /\ Len(PersistSong(u, t)) \in Nat \ {0}
         /\ PersistSong(u, t)[Len(PersistSong(u, t))] = PlayedRow(u, t)
         /\ InOrder(PersistSong(u, t))
         /\ <<"album", AlbumOf[x]>> \in RowsOf(PersistSong(u, t))
         /\ <<"track", x>> \in RowsOf(PersistSong(u, t))
         /\ RowsOf(ArtistRows(x)) \subseteq RowsOf(PersistSong(u, t))
         /\ \A k \in DOMAIN PersistSong(u, t) :
              /\ PersistSong(u, t)[k][1] = "played" => k = Len(PersistSong(u, t))
              /\ PersistSong(u, t)[k][1] # "song"
<1> DEFINE x == History[u][t]
           R == ArtistRows(x)
           P == PersistSong(u, t)
           m == Len(R)
<1>1. x \in Tracks /\ AlbumOf[x] \in Albums
  BY CatalogueAssumption
<1>2. <<"album", AlbumOf[x]>> \in Row /\ <<"track", x>> \in Row
  BY <1>1 DEF Row
<1>3. PlayedRow(u, t) \in Row
  BY DEF Row, PlayedRow
<1>4. R \in Seq(Row) /\ m \in Nat /\ DOMAIN R = 1 .. m
  BY <1>1, ArtistRowsShape
<1>5. P = <<<<"album", AlbumOf[x]>>, <<"track", x>>>> \o R \o <<PlayedRow(u, t)>>
  BY DEF PersistSong
<1> HIDE DEF R, P
<1>6. P \in Seq(Row) /\ Len(P) = m + 3 /\ DOMAIN P = 1 .. m + 3
  BY <1>2, <1>3, <1>4, <1>5, FramedSequence
<1>7. /\ P[1] = <<"album", AlbumOf[x]>> /\ P[2] = <<"track", x>>
      /\ \A k \in 1 .. m : P[k + 2] = R[k]
      /\ P[m + 3] = PlayedRow(u, t)
  BY <1>2, <1>3, <1>4, <1>5, FramedSequence
<1> HIDE DEF m
<1>8. RowsOf(R) \subseteq RowsOf(P)
  <2> SUFFICES ASSUME NEW k \in 1 .. m PROVE R[k] \in RowsOf(P)
    BY <1>4 DEF RowsOf
  <2>1. k + 2 \in DOMAIN P /\ P[k + 2] = R[k]
    BY <1>4, <1>6, <1>7
  <2> QED BY <2>1 DEF RowsOf
<1>9. /\ <<"album", AlbumOf[x]>> \in RowsOf(P)
      /\ <<"track", x>> \in RowsOf(P)
  <2>1. 1 \in DOMAIN P /\ 2 \in DOMAIN P
    BY <1>4, <1>6
  <2> QED BY <2>1, <1>7 DEF RowsOf
<1>10. \A k \in 1 .. m :
         \/ \E a : R[k] = <<"artist", a>>
         \/ \E a : /\ R[k] = <<"credit", x, a>>
                   /\ k - 1 \in 1 .. m /\ R[k - 1] = <<"artist", a>>
  BY <1>1, <1>4, ArtistRowsShape DEF R
<1>11. ASSUME NEW k \in DOMAIN P
       PROVE  /\ \A r \in References(P[k]) : \E j \in 1 .. (k - 1) : P[j] = r
              /\ P[k][1] = "played" => k = m + 3
              /\ P[k][1] # "song"
  <2>0. k \in 1 .. m + 3
    BY <1>6
  <2>1. CASE k = 1
    BY <2>1, <1>7 DEF References
  <2>2. CASE k = 2
    BY <2>2, <1>7 DEF References
  <2>3. CASE k \in 3 .. m + 2
    <3>1. k - 2 \in 1 .. m /\ P[k] = R[k - 2]
      BY <2>3, <1>4, <1>7
    <3>2. CASE \E a : R[k - 2] = <<"artist", a>>
      <4>1. PICK a : P[k] = <<"artist", a>>
        BY <3>1, <3>2
      <4>2. References(P[k]) = {} /\ P[k][1] # "played" /\ P[k][1] # "song"
        BY <4>1 DEF References
      <4> QED BY <4>2
    <3>3. CASE \E a : /\ R[k - 2] = <<"credit", x, a>>
                      /\ k - 3 \in 1 .. m /\ R[k - 3] = <<"artist", a>>
      <4>1. PICK a : /\ P[k] = <<"credit", x, a>>
                     /\ k - 3 \in 1 .. m /\ R[k - 3] = <<"artist", a>>
        BY <3>1, <3>3
      <4>2. P[k - 1] = <<"artist", a>> /\ k - 1 \in 1 .. (k - 1)
        BY <4>1, <2>0, <1>4, <1>7
      <4>3. P[2] = <<"track", x>> /\ 2 \in 1 .. (k - 1)
        BY <2>3, <1>4, <1>7
      <4>4. References(P[k]) = {<<"track", x>>, <<"artist", a>>}
        BY <4>1 DEF References
      <4>5. P[k][1] # "played" /\ P[k][1] # "song"
        BY <4>1
      <4> QED BY <4>2, <4>3, <4>4, <4>5
    <3>4. (k - 2) - 1 = k - 3
      BY <2>0, <1>4
    <3> QED BY <3>1, <3>2, <3>3, <3>4, <1>10
  <2>4. CASE k = m + 3
    <3>1. References(P[k]) = {<<"track", x>>} /\ P[k] = PlayedRow(u, t) /\ P[k][1] # "song"
      BY <2>4, <1>6, <1>7 DEF References, PlayedRow
    <3>2. P[2] = <<"track", x>> /\ 2 \in 1 .. (k - 1)
      BY <2>4, <1>4, <1>7
    <3> QED BY <2>4, <3>1, <3>2
  <2> QED BY <1>4, <1>6, <2>1, <2>2, <2>3, <2>4
<1> QED BY <1>4, <1>6, <1>7, <1>8, <1>9, <1>11 DEF InOrder, P, R, m

LEMMA StatementsShape ==
  ASSUME NEW a \in [store : Stores, user : Users, songs : Seq(Times)],
         NEW t \in Times
  PROVE  LET S == Statements(a, t) IN
         /\ S \in Seq(Row)
         /\ Len(S) \in Nat \ {0}
         /\ DOMAIN S = 1 .. Len(S)
         /\ InOrder(S)
         /\ \A k \in DOMAIN S : S[k][1] = "played" =>
              /\ k = Len(S)
              /\ S = PersistSong(a.user, t)
              /\ S[k] = PlayedRow(a.user, t)
         /\ a.store = "v1" => S = <<SongRow(a.user, t)>> /\ Len(S) = 1
         /\ a.store # "v1" => \A k \in DOMAIN S : S[k][1] # "song"
<1> DEFINE S == Statements(a, t)
<1>1. CASE a.store = "v1"
  <2>1. S = <<SongRow(a.user, t)>>
    BY <1>1 DEF Statements, PlayInserts
  <2>2. /\ SongRow(a.user, t) \in Row
        /\ References(SongRow(a.user, t)) = {}
        /\ SongRow(a.user, t)[1] # "played"
    BY DEF SongRow, Row, References
  <2> HIDE DEF S
  <2>3. S \in Seq(Row) /\ Len(S) = 1 /\ DOMAIN S = 1 .. 1 /\ S[1] = SongRow(a.user, t)
    BY <2>1, <2>2
  <2> QED BY <1>1, <2>1, <2>2, <2>3 DEF InOrder, S
<1>2. CASE a.store # "v1"
  <2>1. S = PersistSong(a.user, t)
    BY <1>2 DEF Statements, PlayInserts
  <2>2. a.user \in Users
    OBVIOUS
  <2> HIDE DEF S
  <2>3. /\ S \in Seq(Row) /\ Len(S) \in Nat \ {0} /\ InOrder(S)
        /\ S[Len(S)] = PlayedRow(a.user, t)
        /\ \A k \in DOMAIN S : /\ S[k][1] = "played" => k = Len(S)
                               /\ S[k][1] # "song"
    BY <2>1, <2>2, PersistSongShape
  <2> QED BY <1>2, <2>1, <2>3 DEF S
<1> QED BY <1>1, <1>2

-----------------------------------------------------------------------------
(* Type correctness.  It needs to know that stmt stays within the statements
   of the current song, or Current would not be a row. *)

TypeInv ==
  /\ TypeOK
  /\ \A c \in Calls :
       /\ Inserting(c) => stmt[c] <= Len(Statements(args[c], Song(c)))
       /\ ~Running(c) => song[c] = 1 /\ stmt[c] = 1

LEMMA InsertingFacts ==
  ASSUME TypeInv, NEW c \in Calls, Inserting(c)
  PROVE  /\ args[c] \in [store : Stores, user : Users, songs : Seq(Times)]
         /\ song[c] \in 1 .. Len(args[c].songs) /\ Len(args[c].songs) \in Nat
         /\ Song(c) \in Times
         /\ stmt[c] \in DOMAIN Statements(args[c], Song(c))
         /\ Current(c) \in Row
<1>1. /\ args[c] \in [store : Stores, user : Users, songs : Seq(Times)]
      /\ song[c] \in Nat \ {0} /\ stmt[c] \in Nat \ {0}
      /\ stmt[c] <= Len(Statements(args[c], Song(c)))
  BY DEF TypeInv, TypeOK
<1>2. args[c].songs \in Seq(Times) /\ Len(args[c].songs) \in Nat
  BY <1>1
<1>3. song[c] \in 1 .. Len(args[c].songs)
  BY <1>1, <1>2 DEF Inserting, LoopDone
<1>4. Song(c) \in Times
  BY <1>2, <1>3 DEF Song
<1>5. /\ Statements(args[c], Song(c)) \in Seq(Row)
      /\ Len(Statements(args[c], Song(c))) \in Nat
      /\ DOMAIN Statements(args[c], Song(c)) = 1 .. Len(Statements(args[c], Song(c)))
  BY <1>1, <1>4, StatementsShape
<1>6. stmt[c] \in DOMAIN Statements(args[c], Song(c))
  BY <1>1, <1>5
<1>7. Current(c) \in Row
  BY <1>5, <1>6 DEF Current
<1> QED BY <1>1, <1>2, <1>3, <1>4, <1>6, <1>7

LEMMA AdvanceFacts ==
  ASSUME TypeInv, NEW c \in Calls, Inserting(c), Advance(c)
  PROVE  /\ song' \in [Calls -> Nat \ {0}] /\ stmt' \in [Calls -> Nat \ {0}]
         /\ \A d \in Calls \ {c} : song'[d] = song[d] /\ stmt'[d] = stmt[d]
         /\ \/ /\ stmt[c] = Len(Statements(args[c], Song(c)))
               /\ song'[c] = song[c] + 1 /\ stmt'[c] = 1
            \/ /\ stmt[c] < Len(Statements(args[c], Song(c)))
               /\ song'[c] = song[c] /\ stmt'[c] = stmt[c] + 1
<1>1. song \in [Calls -> Nat \ {0}] /\ stmt \in [Calls -> Nat \ {0}]
  BY DEF TypeInv, TypeOK
<1>2. /\ stmt[c] <= Len(Statements(args[c], Song(c)))
      /\ Len(Statements(args[c], Song(c))) \in Nat
  BY InsertingFacts, StatementsShape DEF TypeInv
<1>3. CASE LastStmt(c)
  <2>1. stmt[c] = Len(Statements(args[c], Song(c)))
    BY <1>3 DEF LastStmt
  <2>2. /\ song' = [song EXCEPT ![c] = song[c] + 1]
        /\ stmt' = [stmt EXCEPT ![c] = 1]
    BY <1>3 DEF Advance
  <2>3. song' \in [Calls -> Nat \ {0}] /\ stmt' \in [Calls -> Nat \ {0}]
    BY <1>1, <2>2
  <2>4. \A d \in Calls \ {c} : song'[d] = song[d] /\ stmt'[d] = stmt[d]
    BY <1>1, <2>2
  <2>5. song'[c] = song[c] + 1 /\ stmt'[c] = 1
    BY <1>1, <2>2
  <2> QED
    BY <2>1, <2>3, <2>4, <2>5
<1>4. CASE ~LastStmt(c)
  <2>1. stmt[c] < Len(Statements(args[c], Song(c)))
    BY <1>1, <1>2, <1>4 DEF LastStmt
  <2> QED BY <1>1, <1>4, <2>1 DEF Advance
<1> QED BY <1>3, <1>4

LEMMA TypeInvInit == Init => TypeInv
<1> SUFFICES ASSUME Init PROVE TypeInv
  OBVIOUS
<1>1. /\ (CHOOSE u \in Users : TRUE) \in Users
      /\ (CHOOSE st \in Stores : TRUE) \in Stores
  BY CatalogueAssumption
<1>2. <<>> \in Seq(Times)
  OBVIOUS
<1>3. args \in [Calls -> [store : Stores, user : Users, songs : Seq(Times)]]
  BY <1>1, <1>2 DEF Init
<1> QED BY <1>3 DEF Init, TypeInv, TypeOK, Inserting, Running

(* A transaction that is over takes the whole call back to its start. *)
LEMMA ReturnTypes ==
  ASSUME TypeInv, NEW c \in Calls, NEW res \in {"ok", "error"}, Return(c, res),
         db' \subseteq Row, reported' \subseteq Row
  PROVE  TypeInv'
<1>1. TypeOK'
  BY DEF TypeInv, TypeOK, Return
<1>2. ASSUME NEW d \in Calls
      PROVE  /\ Inserting(d)' => (stmt[d] <= Len(Statements(args[d], Song(d))))'
             /\ ~Running(d)' => (song[d] = 1 /\ stmt[d] = 1)'
  <2>1. CASE d = c
    BY <2>1 DEF TypeInv, TypeOK, Return, Inserting, Running
  <2>2. CASE d # c
    <3>1. /\ pc'[d] = pc[d] /\ args' = args
          /\ song'[d] = song[d] /\ stmt'[d] = stmt[d]
      BY <2>2 DEF TypeInv, TypeOK, Return
    <3> QED BY <3>1 DEF TypeInv, Inserting, Running, LoopDone, Song
  <2> QED BY <2>1, <2>2
<1> QED BY <1>1, <1>2 DEF TypeInv

LEMMA InsertTypes ==
  ASSUME TypeInv, NEW c \in Calls, Insert(c)
  PROVE  TypeInv'
<1>1. Inserting(c) /\ Advance(c)
  BY DEF Insert
<1>2. Current(c) \in Row /\ Returned(c) \subseteq Row
  BY <1>1, InsertingFacts DEF Returned
<1>3. TypeOK'
  BY <1>1, <1>2, AdvanceFacts DEF TypeInv, TypeOK, Insert
<1>4. ASSUME NEW d \in Calls
      PROVE  /\ Inserting(d)' => (stmt[d] <= Len(Statements(args[d], Song(d))))'
             /\ ~Running(d)' => (song[d] = 1 /\ stmt[d] = 1)'
  <2>1. pc' = pc /\ args' = args
    BY DEF Insert
  <2>2. CASE d = c
    <3>1. Running(c)'
      BY <1>1, <2>1 DEF Inserting, Running
    <3>2. CASE song'[c] = song[c] + 1 /\ stmt'[c] = 1
      <4> SUFFICES ASSUME Inserting(c)' PROVE 1 <= Len(Statements(args[c], Song(c)'))
        BY <2>1, <2>2, <3>1, <3>2
      <4>1. Song(c)' \in Times /\ args[c] \in [store : Stores, user : Users, songs : Seq(Times)]
        <5>1. /\ args[c] \in [store : Stores, user : Users, songs : Seq(Times)]
              /\ song'[c] \in Nat \ {0}
          BY <1>1, AdvanceFacts, InsertingFacts
        <5>2. song'[c] \in 1 .. Len(args[c].songs)
          BY <2>1, <5>1 DEF Inserting, LoopDone
        <5> QED BY <2>1, <5>1, <5>2 DEF Song
      <4> QED BY <4>1, StatementsShape
    <3>3. CASE /\ stmt[c] < Len(Statements(args[c], Song(c)))
               /\ song'[c] = song[c] /\ stmt'[c] = stmt[c] + 1
      <4>1. Song(c)' = Song(c)
        BY <2>1, <3>3 DEF Song
      <4>2. stmt[c] \in Nat /\ Len(Statements(args[c], Song(c))) \in Nat
        BY <1>1, InsertingFacts, StatementsShape DEF TypeInv, TypeOK
      <4> QED BY <2>1, <2>2, <3>1, <3>3, <4>1, <4>2
    <3> QED BY <1>1, <3>2, <3>3, AdvanceFacts
  <2>3. CASE d # c
    <3>1. song'[d] = song[d] /\ stmt'[d] = stmt[d]
      BY <1>1, <2>3, AdvanceFacts
    <3> QED BY <2>1, <3>1 DEF TypeInv, Inserting, Running, LoopDone, Song
  <2> QED BY <2>2, <2>3
<1> QED BY <1>3, <1>4 DEF TypeInv

LEMMA TypeInvNext == TypeInv /\ [Next]_vars => TypeInv'
<1> SUFFICES ASSUME TypeInv, [Next]_vars PROVE TypeInv'
  OBVIOUS
<1>1. ASSUME NEW c \in Calls, Call(c) PROVE TypeInv'
  <2>1. /\ pc' = [pc EXCEPT ![c] = "begin"]
        /\ song' = song /\ stmt' = stmt
        /\ \A d \in Calls \ {c} : args'[d] = args[d]
        /\ args' \in [Calls -> [store : Stores, user : Users, songs : Seq(Times)]]
    BY <1>1, CatalogueAssumption DEF TypeInv, TypeOK, Call
  <2>2. TypeOK'
    BY <1>1, <2>1 DEF TypeInv, TypeOK, Call
  <2>3. ASSUME NEW d \in Calls
        PROVE  /\ Inserting(d)' => (stmt[d] <= Len(Statements(args[d], Song(d))))'
               /\ ~Running(d)' => (song[d] = 1 /\ stmt[d] = 1)'
    <3>1. CASE d = c
      BY <1>1, <2>1, <3>1 DEF TypeInv, TypeOK, Inserting, Running, Call
    <3>2. CASE d # c
      BY <2>1, <3>2 DEF TypeInv, TypeOK, Inserting, Running, LoopDone, Song
    <3> QED BY <3>1, <3>2
  <2> QED BY <2>2, <2>3 DEF TypeInv
<1>2. ASSUME NEW c \in Calls, Begin(c) PROVE TypeInv'
  <2>1. TypeOK'
    BY <1>2 DEF TypeInv, TypeOK, Begin
  <2>2. ASSUME NEW d \in Calls
        PROVE  /\ Inserting(d)' => (stmt[d] <= Len(Statements(args[d], Song(d))))'
               /\ ~Running(d)' => (song[d] = 1 /\ stmt[d] = 1)'
    <3>1. CASE d = c
      <4>1. stmt'[c] = 1 /\ song'[c] = 1 /\ args' = args
        BY <1>2 DEF Begin, TypeInv, TypeOK, Running
      <4>2. args[c] \in [store : Stores, user : Users, songs : Seq(Times)]
        BY DEF TypeInv, TypeOK
      <4>3. ASSUME Inserting(c)' PROVE (stmt[c] <= Len(Statements(args[c], Song(c))))'
        <5>1. Len(args[c].songs) \in Nat /\ 1 <= Len(args[c].songs)
          BY <4>1, <4>2, <4>3 DEF Inserting, LoopDone
        <5>2. Song(c)' \in Times
          BY <4>1, <4>2, <5>1 DEF Song
        <5> QED BY <4>1, <4>2, <5>2, StatementsShape
      <4> QED BY <3>1, <4>1, <4>3
    <3>2. CASE d # c
      BY <1>2, <3>2 DEF Begin, TypeInv, TypeOK, Inserting, Running, LoopDone, Song
    <3> QED BY <3>1, <3>2
  <2> QED BY <2>1, <2>2 DEF TypeInv
<1>3. ASSUME NEW c \in Calls, BeginFails(c) PROVE TypeInv'
  BY <1>3 DEF BeginFails, TypeInv, TypeOK, Inserting, Running, LoopDone, Song
<1>4. ASSUME NEW c \in Calls, Insert(c) PROVE TypeInv'
  BY <1>4, InsertTypes
<1>5. ASSUME NEW c \in Calls, Rollback(c) PROVE TypeInv'
  BY <1>5, ReturnTypes DEF Rollback, TypeInv, TypeOK
<1>6. ASSUME NEW c \in Calls, Commit(c) \/ CommitFails(c) PROVE TypeInv'
  <2>1. own[c] \subseteq Row /\ persisted[c] \subseteq Row
        /\ db \subseteq Row /\ reported \subseteq Row
    BY DEF TypeInv, TypeOK
  <2>2. db' \subseteq Row /\ reported' \subseteq Row
    BY <1>6, <2>1 DEF Commit, CommitFails
  <2> QED BY <1>6, <2>2, ReturnTypes DEF Commit, CommitFails
<1>7. ASSUME Crash PROVE TypeInv'
  <2>1. TypeOK'
    BY <1>7 DEF Crash, TypeInv, TypeOK
  <2> QED BY <1>7, <2>1 DEF Crash, TypeInv, Inserting, Running
<1>8. ASSUME UNCHANGED vars PROVE TypeInv'
  BY <1>8 DEF vars, TypeInv, TypeOK, Inserting, Running, LoopDone, Song
<1> QED
  BY <1>1, <1>2, <1>3, <1>4, <1>5, <1>6, <1>7, <1>8
     DEF Next, RejectNoArtist, StatementFails, DeadlockAbort

(* The state of every call and of the tables stays well typed: in particular
   no statement of persistSong is asked for beyond the last one of a song, and
   no song beyond the end of the list, whatever fails or overlaps. *)
THEOREM TypeCorrect == Spec => []TypeOK
<1>1. TypeInv => TypeOK
  BY DEF TypeInv
<1> QED BY TypeInvInit, TypeInvNext, <1>1, PTL DEF Spec

-----------------------------------------------------------------------------
(* Ownership: an uncommitted row has one owner, and what a StoreV1 call is
   going to return is what it inserted itself. *)

OwnershipInv ==
  /\ TypeInv
  /\ \A c \in Calls : /\ own[c] \cap db = {}
                      /\ \A d \in Calls \ {c} : own[c] \cap own[d] = {}
                      /\ ~Running(c) => own[c] = {} /\ persisted[c] = {}
                      /\ args[c].store = "v1" => persisted[c] = own[c]
  /\ reported \subseteq db

LEMMA OwnershipInit == Init => OwnershipInv
BY TypeInvInit DEF Init, OwnershipInv, Running

LEMMA OwnershipReturn ==
  ASSUME OwnershipInv, NEW c \in Calls, NEW res \in {"ok", "error"},
         Return(c, res), db' \in {db, db \cup own[c]}, reported' \subseteq db',
         TypeInv'
  PROVE  OwnershipInv'
<1>1. /\ own' = [own EXCEPT ![c] = {}] /\ own \in [Calls -> SUBSET Row]
      /\ persisted' = [persisted EXCEPT ![c] = {}]
      /\ persisted \in [Calls -> SUBSET Row]
      /\ args' = args
      /\ \A d \in Calls \ {c} : pc'[d] = pc[d]
  BY DEF Return, OwnershipInv, TypeInv, TypeOK
<1>2. /\ own'[c] = {} /\ persisted'[c] = {}
      /\ \A d \in Calls \ {c} : own'[d] = own[d] /\ persisted'[d] = persisted[d]
  BY <1>1
<1> QED BY <1>1, <1>2 DEF OwnershipInv, Running

LEMMA OwnershipInsert ==
  ASSUME OwnershipInv, NEW c \in Calls, Insert(c), TypeInv'
  PROVE  OwnershipInv'
<1> DEFINE new == {Current(c)} \ db
<1>1. /\ own \in [Calls -> SUBSET Row] /\ persisted \in [Calls -> SUBSET Row]
      /\ own' = [own EXCEPT ![c] = @ \cup new]
      /\ persisted' = [persisted EXCEPT ![c] = @ \cup Returned(c)]
      /\ db' = db /\ pc' = pc /\ args' = args /\ reported' = reported
  BY DEF Insert, OwnershipInv, TypeInv, TypeOK
<1>2. /\ own'[c] = own[c] \cup new /\ persisted'[c] = persisted[c] \cup Returned(c)
      /\ \A d \in Calls \ {c} : own'[d] = own[d] /\ persisted'[d] = persisted[d]
  BY <1>1
<1>3. \A d \in Calls \ {c} : Current(c) \in own[d] => Current(c) \in db
  <2> SUFFICES ASSUME NEW d \in Calls \ {c}, Current(c) \in own[d],
                      Current(c) \notin db
               PROVE  FALSE
    OBVIOUS
  <2>1. Current(c) \notin own[c]
    BY DEF OwnershipInv
  <2>2. WaitsFor(c, d)
    BY <2>1 DEF WaitsFor, Insert, Visible
  <2> QED BY <2>2 DEF Insert, Waiting
<1>4. args[c].store = "v1" => own[c] \cup Returned(c) = own[c] \cup new
  BY DEF Returned, Visible
<1>5. Running(c)
  BY DEF Insert, Inserting
<1>6. \A d \in Calls : args'[d].store = "v1" => persisted'[d] = own'[d]
  <2>1. args[c].store = "v1" => persisted'[c] = own'[c]
    BY <1>2, <1>4 DEF OwnershipInv
  <2> HIDE DEF new
  <2> QED BY <1>1, <1>2, <2>1 DEF OwnershipInv
<1>7. /\ \A d \in Calls : /\ own'[d] \cap db' = {}
                          /\ \A e \in Calls \ {d} : own'[d] \cap own'[e] = {}
      /\ reported' \subseteq db'
  BY <1>1, <1>2, <1>3 DEF OwnershipInv
<1>8. \A d \in Calls : ~Running(d)' => own'[d] = {} /\ persisted'[d] = {}
  BY <1>1, <1>2, <1>5 DEF OwnershipInv, Running
<1> QED BY <1>6, <1>7, <1>8 DEF OwnershipInv

LEMMA OwnershipNext == OwnershipInv /\ [Next]_vars => OwnershipInv'
<1> SUFFICES ASSUME OwnershipInv, [Next]_vars PROVE OwnershipInv'
  OBVIOUS
<1>0. TypeInv'
  BY TypeInvNext DEF OwnershipInv
<1>1. ASSUME NEW c \in Calls, Call(c) \/ Begin(c) \/ BeginFails(c)
      PROVE  OwnershipInv'
  <2>1. /\ db' = db /\ own' = own /\ persisted' = persisted
        /\ reported' = reported
        /\ ~Running(c)
        /\ \A d \in Calls \ {c} : pc'[d] = pc[d] /\ args'[d] = args[d]
    BY <1>1 DEF Call, Begin, BeginFails, OwnershipInv, TypeInv, TypeOK, Running
  <2>2. own[c] = {} /\ persisted[c] = {}
    BY <2>1 DEF OwnershipInv
  <2> QED BY <1>0, <2>1, <2>2 DEF OwnershipInv, Running
<1>2. ASSUME NEW c \in Calls, Insert(c) PROVE OwnershipInv'
  BY <1>0, <1>2, OwnershipInsert
<1>3. ASSUME NEW c \in Calls, Rollback(c) PROVE OwnershipInv'
  <2>1. reported' \subseteq db' /\ db' = db
    BY <1>3 DEF Rollback, OwnershipInv
  <2> QED BY <1>0, <1>3, <2>1, OwnershipReturn DEF Rollback
<1>4. ASSUME NEW c \in Calls, Commit(c) PROVE OwnershipInv'
  <2>1. reported' \subseteq db' /\ db' = db \cup own[c]
    BY <1>4 DEF Commit, OwnershipInv
  <2> QED BY <1>0, <1>4, <2>1, OwnershipReturn DEF Commit
<1>5. ASSUME NEW c \in Calls, CommitFails(c) PROVE OwnershipInv'
  <2>1. reported' \subseteq db' /\ db' \in {db, db \cup own[c]}
    BY <1>5 DEF CommitFails, OwnershipInv
  <2> QED BY <1>0, <1>5, <2>1, OwnershipReturn DEF CommitFails
<1>6. ASSUME Crash PROVE OwnershipInv'
  BY <1>0, <1>6 DEF Crash, OwnershipInv, Running
<1>7. ASSUME UNCHANGED vars PROVE OwnershipInv'
  BY <1>0, <1>7 DEF vars, OwnershipInv, Running
<1> QED
  BY <1>1, <1>2, <1>3, <1>4, <1>5, <1>6, <1>7
     DEF Next, RejectNoArtist, StatementFails, DeadlockAbort

(* However calls overlap, fail and are retried, a play is returned as newly
   persisted by at most one successful StoreV1 call. *)
THEOREM PlaysReportedOnce == Spec => []ReportedOnce
<1>1. OwnershipInv => ReportedOnce
  BY DEF OwnershipInv, ReportedOnce
<1> QED BY OwnershipInit, OwnershipNext, <1>1, PTL DEF Spec

-----------------------------------------------------------------------------
(* The order of locks: a transaction that holds the row of a play in
   spotify_songs is a StoreV1 call past that play, so what it waits for itself
   is a play of an earlier time. *)

(* d, a call past the play of row r, holds it. *)
PastRow(d, r) ==
  /\ args[d].store = "v1"
  /\ \E i \in 1 .. song[d] - 1 : r = SongRow(args[d].user, args[d].songs[i])

OrderInv ==
  /\ OwnershipInv
  /\ \A c \in Calls :
       /\ \A i, j \in DOMAIN args[c].songs : i < j => args[c].songs[i] > args[c].songs[j]
       /\ \A r \in own[c] : r[1] = "song" => PastRow(c, r)

LEMMA OrderInit == Init => OrderInv
<1> SUFFICES ASSUME Init PROVE OrderInv
  OBVIOUS
<1>1. \A c \in Calls : args[c].songs = <<>> /\ own[c] = {}
  BY DEF Init
<1> QED BY <1>1, OwnershipInit DEF OrderInv

LEMMA OrderNext == OrderInv /\ [Next]_vars => OrderInv'
<1> SUFFICES ASSUME OrderInv, [Next]_vars PROVE OrderInv'
  OBVIOUS
<1>1. OwnershipInv /\ OwnershipInv' /\ TypeInv
  BY OwnershipNext DEF OrderInv, OwnershipInv
<1>2. /\ args \in [Calls -> [store : Stores, user : Users, songs : Seq(Times)]]
      /\ own \in [Calls -> SUBSET Row] /\ pc \in [Calls -> {"idle", "begin", "insert"}]
      /\ song \in [Calls -> Nat \ {0}]
  BY <1>1 DEF TypeInv, TypeOK
<1>3. ASSUME NEW c \in Calls, NEW d \in Calls, args'[d] = args[d], own'[d] = own[d],
             song'[d] = song[d] \/ own[d] = {}
      PROVE  /\ \A i, j \in DOMAIN args'[d].songs : i < j => args'[d].songs[i] > args'[d].songs[j]
             /\ \A r \in own'[d] : r[1] = "song" => PastRow(d, r)'
  BY <1>3 DEF OrderInv, PastRow
<1>4. ASSUME NEW c \in Calls, Call(c) PROVE OrderInv'
  <2>1. PICK st \in Stores, u \in Users, b \in Batches :
          args' = [args EXCEPT ![c] = [store |-> st, user |-> u, songs |-> b]]
    BY <1>4 DEF Call
  <2>2. args'[c].songs = b /\ own' = own /\ song' = song /\ own[c] = {}
    BY <1>1, <1>2, <1>4, <2>1 DEF Call, OwnershipInv, Running
  <2>3. \A d \in Calls \ {c} : args'[d] = args[d]
    BY <1>2, <2>1
  <2> QED BY <1>1, <1>3, <2>2, <2>3, NewestFirst DEF OrderInv
<1>5. ASSUME NEW c \in Calls, Begin(c) \/ BeginFails(c) PROVE OrderInv'
  BY <1>1, <1>3, <1>5 DEF Begin, BeginFails, OrderInv
<1>6. ASSUME NEW c \in Calls, NEW res, Return(c, res) PROVE OrderInv'
  <2>1. args' = args /\ own'[c] = {} /\ \A d \in Calls \ {c} : own'[d] = own[d] /\ song'[d] = song[d]
    BY <1>2, <1>6 DEF Return
  <2> QED BY <1>1, <1>3, <2>1 DEF OrderInv
<1>7. ASSUME NEW c \in Calls, Insert(c) PROVE OrderInv'
  <2>1. Inserting(c) /\ Advance(c) /\ args' = args
    BY <1>7 DEF Insert
  <2>2. /\ own'[c] \subseteq own[c] \cup {Current(c)}
        /\ \A d \in Calls \ {c} : own'[d] = own[d]
    BY <1>2, <1>7 DEF Insert
  <2>3. /\ \A d \in Calls \ {c} : song'[d] = song[d]
        /\ song[c] \in Nat /\ song'[c] \in Nat /\ song'[c] >= song[c]
        /\ stmt[c] = Len(Statements(args[c], Song(c))) => song'[c] = song[c] + 1
    BY <1>1, <1>2, <2>1, AdvanceFacts
  <2>4. ASSUME NEW r, r = Current(c), r[1] = "song" PROVE PastRow(c, r)'
    <3>1. /\ args[c] \in [store : Stores, user : Users, songs : Seq(Times)]
          /\ Song(c) \in Times /\ stmt[c] \in DOMAIN Statements(args[c], Song(c))
          /\ song[c] \in 1 .. Len(args[c].songs)
      BY <1>1, <2>1, InsertingFacts
    <3>2. CASE args[c].store = "v1"
      <4>1. /\ Statements(args[c], Song(c)) = <<SongRow(args[c].user, Song(c))>>
            /\ Len(Statements(args[c], Song(c))) = 1
            /\ DOMAIN Statements(args[c], Song(c)) = 1 .. 1
        BY <3>1, <3>2, StatementsShape
      <4>2. stmt[c] = 1 /\ Current(c) = SongRow(args[c].user, Song(c))
        BY <3>1, <4>1 DEF Current
      <4>3. song'[c] = song[c] + 1
        BY <2>3, <4>1, <4>2
      <4>4. song[c] \in 1 .. song'[c] - 1
        BY <2>3, <3>1, <4>3
      <4>5. r = SongRow(args[c].user, args[c].songs[song[c]])
        BY <2>4, <4>2 DEF Song
      <4> QED BY <2>1, <3>2, <4>4, <4>5 DEF PastRow
    <3>3. CASE args[c].store # "v1"
      BY <2>4, <3>1, <3>3, StatementsShape DEF Current
    <3> QED BY <3>2, <3>3
  <2>5. ASSUME NEW r \in own[c], r[1] = "song" PROVE PastRow(c, r)'
    <3>1. PICK i \in 1 .. song[c] - 1 : r = SongRow(args[c].user, args[c].songs[i])
      BY <2>5 DEF OrderInv, PastRow
    <3>2. i \in 1 .. song'[c] - 1 /\ args[c].store = "v1"
      BY <2>3, <2>5 DEF OrderInv, PastRow
    <3> QED BY <2>1, <3>1, <3>2 DEF PastRow
  <2>6. \A r \in own'[c] : r[1] = "song" => PastRow(c, r)'
    BY <2>2, <2>4, <2>5
  <2> QED BY <1>1, <1>3, <2>1, <2>2, <2>3, <2>6 DEF OrderInv
<1>8. CASE Crash
  BY <1>1, <1>8 DEF Crash, OrderInv
<1>9. CASE UNCHANGED vars
  BY <1>1, <1>9 DEF vars, OrderInv, PastRow
<1>10. ASSUME NEW c \in Calls,
              \/ RejectNoArtist(c) \/ StatementFails(c) \/ DeadlockAbort(c)
              \/ Commit(c) \/ CommitFails(c)
       PROVE  OrderInv'
  <2>1. Return(c, "ok") \/ Return(c, "error")
    BY <1>10 DEF RejectNoArtist, StatementFails, DeadlockAbort, Commit, CommitFails, Rollback
  <2> QED BY <2>1, <1>6
<1> QED BY <1>4, <1>5, <1>7, <1>8, <1>9, <1>10 DEF Next

(* A finite set of numbers has a least one. *)
LEMMA LeastExists ==
  ASSUME NEW S, S \subseteq Int, IsFiniteSet(S), S # {}
  PROVE  \E t \in S : \A u \in S : t <= u
<1> DEFINE Below(t) == {u \in S : u < t}
           T == {Below(t) : t \in S}
<1>1. IsWellFoundedOn(StrictSubsetOrdering(S), SUBSET S)
  BY FS_StrictSubsetOrderingWellFounded, FS_FiniteSubsetsOfFinite
<1>2. T \subseteq SUBSET S /\ T # {}
  OBVIOUS
<1>3. PICK X \in T : \A Y \in T : ~ (<<Y, X>> \in StrictSubsetOrdering(S))
  <2> HIDE DEF T
  <2> QED BY <1>1, <1>2, WFMin
<1>4. PICK t \in S : X = Below(t)
  BY <1>3
<1>5. ASSUME NEW u \in S, u < t PROVE FALSE
  <2>1. u \in Int /\ t \in Int
    OBVIOUS
  <2>2. ASSUME NEW w \in Below(u) PROVE w \in X
    <3>1. w \in S /\ w \in Int /\ w < u
      OBVIOUS
    <3>2. w < t
      BY <1>5, <2>1, <3>1
    <3> QED BY <1>4, <3>1, <3>2
  <2>3. u \in X /\ u \notin Below(u)
    BY <1>4, <1>5, <2>1
  <2>4. <<Below(u), X>> \in StrictSubsetOrdering(S)
    BY <2>2, <2>3, <1>4 DEF StrictSubsetOrdering
  <2> QED BY <2>4, <1>3
<1> QED BY <1>5

(* A StoreV1 call that waits is waited for by none but calls at later plays. *)
LEMMA WaitsForEarlier ==
  ASSUME OrderInv, NEW c \in Calls, NEW d \in Calls, WaitsFor(c, d),
         args[c].store = "v1", Inserting(d)
  PROVE  /\ args[d].store = "v1"
         /\ Song(c) \in Nat /\ Song(d) \in Nat /\ Song(d) < Song(c)
<1>1. TypeInv /\ Inserting(c) /\ Current(c) \in own[d]
  BY DEF OrderInv, OwnershipInv, WaitsFor
<1>2. /\ args[c] \in [store : Stores, user : Users, songs : Seq(Times)]
      /\ Song(c) \in Times /\ stmt[c] \in DOMAIN Statements(args[c], Song(c))
  BY <1>1, InsertingFacts
<1>3. /\ Statements(args[c], Song(c)) = <<SongRow(args[c].user, Song(c))>>
      /\ DOMAIN Statements(args[c], Song(c)) = 1 .. 1
  BY <1>2, StatementsShape
<1>4. Current(c) = SongRow(args[c].user, Song(c))
  BY <1>2, <1>3 DEF Current
<1>5. Current(c)[1] = "song"
  BY <1>4 DEF SongRow
<1>6. PastRow(d, Current(c))
  BY <1>1, <1>5 DEF OrderInv
<1>7. PICK i \in 1 .. song[d] - 1 : Current(c) = SongRow(args[d].user, args[d].songs[i])
  BY <1>6 DEF PastRow
<1>8. Song(c) = args[d].songs[i]
  BY <1>4, <1>7 DEF SongRow
<1>9. /\ args[d].songs \in Seq(Times) /\ song[d] \in 1 .. Len(args[d].songs)
      /\ Len(args[d].songs) \in Nat /\ Song(d) \in Times
  BY <1>1, InsertingFacts
<1>10. i \in DOMAIN args[d].songs /\ song[d] \in DOMAIN args[d].songs /\ i < song[d]
  BY <1>9
<1>11. args[d].songs[i] > args[d].songs[song[d]]
  BY <1>10 DEF OrderInv
<1>12. args[d].store = "v1"
  BY <1>6 DEF PastRow
<1> QED BY <1>2, <1>8, <1>9, <1>11, <1>12, NewestFirst DEF Song

(* Calls of StoreV1 never wait for each other in a cycle, however many there
   are and whatever plays their lists share. *)
THEOREM V1NoDeadlock == Spec => []V1NeverDeadlocks
<1>1. OrderInv => V1NeverDeadlocks
  <2> SUFFICES ASSUME OrderInv, NEW c \in Calls, Deadlocked(c), args[c].store # "v2"
               PROVE  FALSE
    BY DEF V1NeverDeadlocks
  <2>1. args[c].store = "v1"
    BY CatalogueAssumption DEF OrderInv, OwnershipInv, TypeInv, TypeOK
  <2>2. PICK S \in SUBSET Calls :
          c \in S /\ \A d \in S : \E e \in S : WaitsFor(d, e)
    BY DEF Deadlocked
  <2>3. \A d \in S : Inserting(d)
    BY <2>2 DEF WaitsFor
  <2> DEFINE T == {Song(d) : d \in {e \in S : args[e].store = "v1"}}
             E == {t \in T : t <= Song(c)}
  <2>4. ASSUME NEW t \in T PROVE t \in Nat /\ \E u \in T : u < t
    <3>1. PICK d \in S : args[d].store = "v1" /\ t = Song(d)
      BY <2>4
    <3>2. PICK e \in S : WaitsFor(d, e)
      BY <2>2
    <3>3. args[e].store = "v1" /\ Song(d) \in Nat /\ Song(e) < Song(d)
      BY <2>3, <3>1, <3>2, WaitsForEarlier
    <3>4. Song(e) \in T
      BY <3>3
    <3> QED BY <3>1, <3>3, <3>4
  <2>5. Song(c) \in T
    BY <2>1, <2>2
  <2> HIDE DEF T
  <2>6. E \subseteq Nat /\ Song(c) \in Nat /\ Song(c) \in E
    BY <2>4, <2>5
  <2>7. IsFiniteSet(E)
    <3>1. E \subseteq 0 .. Song(c) /\ IsFiniteSet(0 .. Song(c))
      BY <2>6, FS_Interval
    <3> HIDE DEF E
    <3> QED BY <3>1, FS_Subset
  <2>8. PICK t \in E : \A u \in E : t <= u
    <3> HIDE DEF E
    <3>1. E \subseteq Int /\ E # {}
      BY <2>6
    <3> QED BY <2>7, <3>1, LeastExists
  <2>9. PICK u \in T : u < t
    BY <2>4, <2>8
  <2>10. u \in E
    BY <2>4, <2>6, <2>8, <2>9
  <2> QED BY <2>4, <2>6, <2>8, <2>9, <2>10
<1> QED BY OrderInit, OrderNext, <1>1, PTL DEF Spec

(* Where everyone in a finite set waits for someone in it, there is a cycle. *)
LEMMA CycleExists ==
  ASSUME NEW S, IsFiniteSet(S), S # {}, NEW W, \A x \in S : \E y \in S : <<x, y>> \in W
  PROVE  \E T \in SUBSET S : /\ T # {}
                            /\ \A x \in T : /\ \E y \in T : <<x, y>> \in W
                                           /\ \E y \in T : <<y, x>> \in W
<1> DEFINE Closed == {T \in SUBSET S : T # {} /\ \A x \in T : \E y \in T : <<x, y>> \in W}
<1>1. IsWellFoundedOn(StrictSubsetOrdering(S), SUBSET S)
  BY FS_StrictSubsetOrderingWellFounded, FS_FiniteSubsetsOfFinite
<1>2. Closed \subseteq SUBSET S /\ S \in Closed
  OBVIOUS
<1>3. PICK T \in Closed : \A U \in Closed : ~ (<<U, T>> \in StrictSubsetOrdering(S))
  <2> HIDE DEF Closed
  <2> QED BY <1>1, <1>2, WFMin
<1> DEFINE U == {y \in T : \E x \in T : <<x, y>> \in W}
<1>4. U \in Closed
  <2>1. U # {}
    BY <1>3
  <2>2. ASSUME NEW x \in U PROVE \E y \in U : <<x, y>> \in W
    BY <1>3
  <2> QED BY <1>3, <2>1, <2>2
<1>5. U = T
  <2>1. <<U, T>> \notin StrictSubsetOrdering(S)
    BY <1>3, <1>4
  <2>2. U \in SUBSET S /\ T \in SUBSET S /\ U \subseteq T
    BY <1>3
  <2> HIDE DEF U, Closed
  <2> QED BY <2>1, <2>2 DEF StrictSubsetOrdering
<1>6. T \in SUBSET S /\ T # {}
  BY <1>3
<1>7. \A x \in T : \E y \in T : <<x, y>> \in W
  BY <1>3
<1>8. \A y \in T : \E x \in T : <<x, y>> \in W
  <2> SUFFICES ASSUME NEW y \in T PROVE \E x \in T : <<x, y>> \in W
    OBVIOUS
  <2>1. y \in U
    BY <1>5
  <2> QED BY <2>1
<1> HIDE DEF U, Closed
<1> QED BY <1>6, <1>7, <1>8

(* As long as a transaction is open, one of them can go on, if only because
   Postgres breaks a cycle that it is on; and then it is one of StoreV2. *)
SomeCallGoesOn ==
  (\E c \in Calls : Running(c))
    => \E c \in Calls : /\ Running(c)
                        /\ ~Waiting(c) \/ (Deadlocked(c) /\ args[c].store = "v2")

(* The calls are never all stuck: an INSERT waits for a transaction that is
   still open, and where everyone waits Postgres finds a cycle to break.  It
   never has to among calls of StoreV1. *)
THEOREM CallsNeverStuck ==
  ASSUME IsFiniteSet(Calls)
  PROVE  Spec => []SomeCallGoesOn
<1>1. OrderInv /\ V1NeverDeadlocks => SomeCallGoesOn
  <2> SUFFICES ASSUME OrderInv, V1NeverDeadlocks, NEW b \in Calls, Running(b),
                      \A c \in Calls : Running(c) => Waiting(c)
               PROVE  \E c \in Calls : Running(c) /\ Deadlocked(c) /\ args[c].store = "v2"
    BY DEF SomeCallGoesOn
  <2> DEFINE S == {c \in Calls : Running(c)}
             W == {cd \in Calls \X Calls : WaitsFor(cd[1], cd[2])}
  <2>1. IsFiniteSet(S) /\ S # {}
    BY FS_Subset
  <2>2. ASSUME NEW c \in S PROVE \E d \in S : <<c, d>> \in W
    <3>1. PICK d \in Calls : WaitsFor(c, d)
      BY DEF Waiting
    <3>2. Running(d)
      BY <3>1 DEF WaitsFor, OrderInv, OwnershipInv
    <3> QED BY <3>1, <3>2
  <2>3. PICK T \in SUBSET S : /\ T # {}
                             /\ \A c \in T : /\ \E d \in T : <<c, d>> \in W
                                            /\ \E d \in T : <<d, c>> \in W
    <3> HIDE DEF S, W
    <3> QED BY <2>1, <2>2, CycleExists
  <2>4. \A c \in T : /\ \E d \in T : WaitsFor(c, d)
                    /\ \E d \in T : WaitsFor(d, c)
    BY <2>3
  <2>5. PICK c \in T : TRUE
    BY <2>3
  <2>6. Deadlocked(c) /\ Running(c) /\ c \in Calls
    BY <2>4 DEF Deadlocked
  <2> QED BY <2>6 DEF V1NeverDeadlocks, OrderInv, OwnershipInv, TypeInv, TypeOK
<1> QED BY <1>1, OrderInit, OrderNext, V1NoDeadlock, PTL DEF Spec

-----------------------------------------------------------------------------
(* Completeness: whatever a transaction can see holds the rows its rows refer
   to, and every row of each play in it, because the statements before the
   current one have all left their row behind, inserted or found. *)

Complete(R) ==
  /\ \A r \in R : References(r) \subseteq R
  /\ \A u \in Users, t \in Times :
       PlayedRow(u, t) \in R => RowsOf(PersistSong(u, t)) \subseteq R

Progress(c) ==
  /\ \A i \in DOMAIN args[c].songs :
       i < song[c] => RowsOf(Statements(args[c], args[c].songs[i])) \subseteq Visible(c)
  /\ Inserting(c) =>
       \A k \in DOMAIN Statements(args[c], Song(c)) :
          k < stmt[c] => Statements(args[c], Song(c))[k] \in Visible(c)

RowsInv ==
  /\ OwnershipInv
  /\ Complete(db)
  /\ \A c \in Calls : /\ Complete(Visible(c))
                      /\ Running(c) => Progress(c)
                      /\ own[c] \subseteq BatchRows(args[c])

LEMMA CompleteUnion ==
  ASSUME NEW R, NEW S, Complete(R), Complete(S)
  PROVE  Complete(R \cup S)
BY DEF Complete

LEMMA RowsInit == Init => RowsInv
<1> SUFFICES ASSUME Init PROVE RowsInv
  OBVIOUS
<1>1. Complete({})
  BY DEF Complete
<1>2. \A c \in Calls : Visible(c) = {} /\ own[c] = {} /\ ~Running(c)
  BY DEF Init, Visible, Running
<1>3. db = {}
  BY DEF Init
<1> QED BY <1>1, <1>2, <1>3, OwnershipInit DEF RowsInv

(* The next row keeps what the transaction sees complete. *)
LEMMA CurrentCompletes ==
  ASSUME RowsInv, NEW c \in Calls, Inserting(c)
  PROVE  Complete(Visible(c) \cup {Current(c)})
<1> DEFINE S == Statements(args[c], Song(c))
           V == Visible(c) \cup {Current(c)}
           a == args[c]
<1>1. /\ a \in [store : Stores, user : Users, songs : Seq(Times)]
      /\ Song(c) \in Times /\ stmt[c] \in DOMAIN S
  BY InsertingFacts DEF RowsInv, OwnershipInv
<1>2. /\ DOMAIN S = 1 .. Len(S) /\ Len(S) \in Nat
      /\ InOrder(S)
      /\ S[stmt[c]][1] = "played" => /\ stmt[c] = Len(S)
                                    /\ S = PersistSong(a.user, Song(c))
                                    /\ S[stmt[c]] = PlayedRow(a.user, Song(c))
  BY <1>1, StatementsShape
<1>3. \A k \in DOMAIN S : k < stmt[c] => S[k] \in Visible(c)
  BY DEF RowsInv, Progress, Inserting
<1>4. Current(c) = S[stmt[c]]
  BY DEF Current
<1> HIDE DEF S
<1>5. ASSUME NEW r \in V PROVE References(r) \subseteq V
  <2>1. CASE r \in Visible(c)
    BY <2>1 DEF RowsInv, Complete
  <2>2. CASE r = Current(c)
    <3>1. \A q \in References(r) : \E j \in 1 .. (stmt[c] - 1) : S[j] = q
      BY <2>2, <1>1, <1>2, <1>4 DEF InOrder
    <3>2. \A j \in 1 .. (stmt[c] - 1) : j \in DOMAIN S /\ j < stmt[c]
      BY <1>1, <1>2
    <3> QED BY <3>1, <3>2, <1>3
  <2> QED BY <2>1, <2>2
<1>6. ASSUME NEW u \in Users, NEW t \in Times, PlayedRow(u, t) \in V
      PROVE  RowsOf(PersistSong(u, t)) \subseteq V
  <2>1. CASE PlayedRow(u, t) \in Visible(c)
    BY <2>1 DEF RowsInv, Complete
  <2>2. CASE PlayedRow(u, t) = Current(c)
    <3>1. Current(c)[1] = "played"
      BY <2>2 DEF PlayedRow
    <3>2. /\ stmt[c] = Len(S) /\ S = PersistSong(a.user, Song(c))
          /\ PlayedRow(u, t) = PlayedRow(a.user, Song(c))
      BY <2>2, <3>1, <1>2, <1>4
    <3>3. u = a.user /\ t = Song(c)
      BY <3>2 DEF PlayedRow
    <3>4. \A k \in DOMAIN S : k < stmt[c] \/ k = stmt[c]
      BY <3>2, <1>2
    <3>5. RowsOf(S) \subseteq V
      BY <3>4, <1>3, <1>4 DEF RowsOf
    <3> QED BY <3>2, <3>3, <3>5
  <2> QED BY <1>6, <2>1, <2>2
<1> QED BY <1>5, <1>6 DEF Complete

(* The end of a transaction, committed or not. *)
LEMMA RowsReturn ==
  ASSUME RowsInv, NEW c \in Calls, NEW res \in {"ok", "error"},
         Return(c, res), db' \in {db, db \cup own[c]}, OwnershipInv'
  PROVE  RowsInv'
<1>1. /\ own' = [own EXCEPT ![c] = {}] /\ own \in [Calls -> SUBSET Row]
      /\ args' = args /\ pc'[c] = "idle"
      /\ \A d \in Calls \ {c} : /\ pc'[d] = pc[d]
                                /\ song'[d] = song[d] /\ stmt'[d] = stmt[d]
  BY DEF Return, RowsInv, OwnershipInv, TypeInv, TypeOK
<1>2. own'[c] = {} /\ \A d \in Calls \ {c} : own'[d] = own[d]
  BY <1>1
<1>3. db' = db \/ db' = Visible(c)
  BY DEF Visible
<1>4. Complete(db')
  BY <1>3 DEF RowsInv
<1>5. ASSUME NEW d \in Calls
      PROVE  /\ Complete(Visible(d)')
             /\ Running(d)' => Progress(d)'
             /\ own'[d] \subseteq BatchRows(args'[d])
  <2>1. CASE d = c
    <3>1. Visible(d)' = db' /\ ~Running(d)'
      BY <1>1, <1>2, <2>1 DEF Visible, Running
    <3> QED BY <2>1, <3>1, <1>2, <1>4
  <2>2. CASE d # c
    <3>1. Visible(d)' = db' \cup Visible(d)
      BY <1>2, <1>3, <2>2 DEF Visible
    <3>2. Complete(Visible(d)')
      BY <3>1, <1>4, CompleteUnion DEF RowsInv
    <3>3. ASSUME Running(d)' PROVE Progress(d)'
      <4>1. Running(d) /\ Progress(d)
        BY <1>1, <2>2, <3>3 DEF Running, RowsInv
      <4>2. /\ args'[d] = args[d] /\ song'[d] = song[d] /\ stmt'[d] = stmt[d]
            /\ (Inserting(d)' <=> Inserting(d)) /\ Song(d)' = Song(d)
            /\ Visible(d) \subseteq Visible(d)'
        BY <1>1, <2>2, <3>1 DEF Inserting, Running, LoopDone, Song
      <4> QED BY <4>1, <4>2 DEF Progress
    <3> QED BY <1>1, <1>2, <2>2, <3>2, <3>3 DEF RowsInv
  <2> QED BY <2>1, <2>2
<1> QED BY <1>4, <1>5 DEF RowsInv

LEMMA RowsInsert ==
  ASSUME RowsInv, NEW c \in Calls, Insert(c), OwnershipInv'
  PROVE  RowsInv'
<1> DEFINE a == args[c]
           S == Statements(a, Song(c))
<1>1. Inserting(c) /\ Advance(c) /\ TypeInv
  BY DEF Insert, RowsInv, OwnershipInv
<1>2. /\ db' = db /\ pc' = pc /\ args' = args
      /\ own' = [own EXCEPT ![c] = @ \cup ({Current(c)} \ db)]
      /\ own \in [Calls -> SUBSET Row]
  BY <1>1 DEF Insert, TypeInv, TypeOK
<1>3. /\ own'[c] = own[c] \cup ({Current(c)} \ db)
      /\ \A d \in Calls \ {c} : own'[d] = own[d]
  BY <1>2
<1>4. Visible(c)' = Visible(c) \cup {Current(c)}
  BY <1>2, <1>3 DEF Visible
<1>5. /\ a \in [store : Stores, user : Users, songs : Seq(Times)]
      /\ song[c] \in 1 .. Len(a.songs) /\ Len(a.songs) \in Nat
      /\ DOMAIN a.songs = 1 .. Len(a.songs)
      /\ Song(c) \in Times /\ stmt[c] \in DOMAIN S
  BY <1>1, InsertingFacts
<1>6. DOMAIN S = 1 .. Len(S) /\ Len(S) \in Nat
  BY <1>5, StatementsShape
<1>7. Current(c) = S[stmt[c]] /\ Song(c) = a.songs[song[c]]
  BY DEF Current, Song
<1>8. Complete(Visible(c)')
  BY <1>1, <1>4, CurrentCompletes
<1>9. own'[c] \subseteq BatchRows(args'[c])
  <2>1. Current(c) \in RowsOf(Statements(a, a.songs[song[c]]))
    BY <1>5, <1>7 DEF RowsOf
  <2>2. Current(c) \in BatchRows(a)
    BY <2>1, <1>5 DEF BatchRows
  <2> QED BY <2>2, <1>2, <1>3 DEF RowsInv
<1> HIDE DEF S
<1>10. Progress(c)'
  <2>1. \A i \in DOMAIN a.songs :
          i < song[c] => RowsOf(Statements(a, a.songs[i])) \subseteq Visible(c)'
    BY <1>1, <1>4 DEF RowsInv, Progress, Inserting
  <2>2. \A k \in DOMAIN S : k <= stmt[c] => S[k] \in Visible(c)'
    <3>1. \A k \in DOMAIN S : k < stmt[c] => S[k] \in Visible(c)
      BY <1>1 DEF RowsInv, Progress, Inserting, S
    <3>2. \A k \in DOMAIN S : k <= stmt[c] => k < stmt[c] \/ k = stmt[c]
      BY <1>5, <1>6
    <3> QED BY <3>1, <3>2, <1>4, <1>7
  <2>3. CASE stmt[c] = Len(S) /\ song'[c] = song[c] + 1 /\ stmt'[c] = 1
    <3>1. RowsOf(Statements(a, a.songs[song[c]])) \subseteq Visible(c)'
      BY <2>2, <2>3, <1>6, <1>7 DEF RowsOf, S
    <3>2. \A i \in DOMAIN a.songs : i < song'[c] => i < song[c] \/ i = song[c]
      BY <2>3, <1>5
    <3>3. \A i \in DOMAIN a.songs : i < song'[c] =>
             RowsOf(Statements(a, a.songs[i])) \subseteq Visible(c)'
      BY <2>1, <3>1, <3>2
    <3>4. ASSUME Inserting(c)',
                 NEW k \in DOMAIN Statements(a, Song(c)'), k < stmt'[c]
          PROVE  FALSE
      <4>1. song'[c] \in 1 .. Len(a.songs)
        BY <3>4, <1>2, <1>5, <2>3 DEF Inserting, LoopDone
      <4>2. Song(c)' \in Times
        BY <4>1, <1>2, <1>5 DEF Song
      <4>3. k \in Nat \ {0}
        BY <4>2, <1>5, <3>4, StatementsShape
      <4> QED BY <4>3, <3>4, <2>3
    <3> QED BY <3>3, <3>4, <1>2 DEF Progress
  <2>4. CASE stmt[c] < Len(S) /\ song'[c] = song[c] /\ stmt'[c] = stmt[c] + 1
    <3>1. Song(c)' = Song(c)
      BY <2>4, <1>2 DEF Song
    <3>2. \A k \in DOMAIN S : k < stmt'[c] => k <= stmt[c]
      BY <2>4, <1>5, <1>6
    <3>3. \A k \in DOMAIN S : k < stmt'[c] => S[k] \in Visible(c)'
      BY <2>2, <3>2
    <3> QED BY <2>1, <2>4, <3>1, <3>3, <1>2 DEF Progress, S
  <2> QED BY <1>1, <2>3, <2>4, AdvanceFacts DEF S
<1>11. ASSUME NEW d \in Calls, d # c
       PROVE  /\ Complete(Visible(d)')
              /\ Running(d)' => Progress(d)'
              /\ own'[d] \subseteq BatchRows(args'[d])
  <2>1. Visible(d)' = Visible(d)
    BY <1>2, <1>3, <1>11 DEF Visible
  <2>2. song'[d] = song[d] /\ stmt'[d] = stmt[d]
    BY <1>1, <1>11, AdvanceFacts
  <2>3. Progress(d)' = Progress(d) /\ Running(d)' = Running(d)
    BY <1>2, <2>1, <2>2 DEF Progress, Inserting, Running, LoopDone, Song
  <2> QED BY <1>2, <1>3, <1>11, <2>1, <2>3 DEF RowsInv
<1> QED BY <1>2, <1>8, <1>9, <1>10, <1>11 DEF RowsInv

LEMMA RowsNext == RowsInv /\ [Next]_vars => RowsInv'
<1> SUFFICES ASSUME RowsInv, [Next]_vars PROVE RowsInv'
  OBVIOUS
<1>0. OwnershipInv'
  BY OwnershipNext DEF RowsInv
<1>1. ASSUME NEW c \in Calls, Call(c) \/ Begin(c) \/ BeginFails(c)
      PROVE  RowsInv'
  <2>1. /\ db' = db /\ own' = own /\ song' = song /\ stmt' = stmt
        /\ \A d \in Calls \ {c} : pc'[d] = pc[d] /\ args'[d] = args[d]
        /\ Call(c) \/ args' = args
        /\ Running(c)' => Begin(c)
    BY <1>1 DEF Call, Begin, BeginFails, RowsInv, OwnershipInv, TypeInv, TypeOK,
                Running
  <2>2. own[c] = {} /\ song[c] = 1 /\ stmt[c] = 1
    BY <1>1 DEF Call, Begin, BeginFails, RowsInv, OwnershipInv, TypeInv, Running
  <2>3. \A d \in Calls : Visible(d)' = Visible(d)
    BY <2>1 DEF Visible
  <2>4. ASSUME Running(c)' PROVE Progress(c)'
    <3>1. args'[c] \in [store : Stores, user : Users, songs : Seq(Times)]
      BY <1>0 DEF OwnershipInv, TypeInv, TypeOK
    <3>2. \A i \in DOMAIN args'[c].songs : ~(i < song'[c])
      BY <3>1, <2>1, <2>2
    <3>3. ASSUME Inserting(c)',
                 NEW k \in DOMAIN Statements(args'[c], Song(c)'), k < stmt'[c]
          PROVE  FALSE
      <4>1. song'[c] \in 1 .. Len(args'[c].songs)
        BY <3>1, <3>3, <2>1, <2>2 DEF Inserting, LoopDone
      <4>2. Song(c)' \in Times
        BY <4>1, <3>1 DEF Song
      <4>3. k \in Nat \ {0}
        BY <3>1, <4>2, <3>3, StatementsShape
      <4> QED BY <4>3, <3>3, <2>1, <2>2
    <3> QED BY <3>2, <3>3 DEF Progress
  <2>5. ASSUME NEW d \in Calls, d # c PROVE Running(d)' => Progress(d)'
    <3>1. /\ Running(d)' = Running(d) /\ args'[d] = args[d]
          /\ song'[d] = song[d] /\ stmt'[d] = stmt[d] /\ Song(d)' = Song(d)
          /\ Inserting(d)' = Inserting(d)
      BY <2>1, <2>5 DEF Running, Song, Inserting, LoopDone
    <3> QED BY <3>1, <2>3 DEF RowsInv, Progress
  <2>6. \A d \in Calls : own'[d] \subseteq BatchRows(args'[d])
    BY <2>1, <2>2 DEF RowsInv
  <2> QED BY <1>0, <2>1, <2>3, <2>4, <2>5, <2>6 DEF RowsInv
<1>2. ASSUME NEW c \in Calls, Insert(c) PROVE RowsInv'
  BY <1>0, <1>2, RowsInsert
<1>3. ASSUME NEW c \in Calls, Rollback(c) PROVE RowsInv'
  BY <1>0, <1>3, RowsReturn DEF Rollback
<1>4. ASSUME NEW c \in Calls, Commit(c) PROVE RowsInv'
  BY <1>0, <1>4, RowsReturn DEF Commit
<1>5. ASSUME NEW c \in Calls, CommitFails(c) PROVE RowsInv'
  BY <1>0, <1>5, RowsReturn DEF CommitFails
<1>6. ASSUME Crash PROVE RowsInv'
  <2>1. \A c \in Calls : own'[c] = {} /\ ~Running(c)'
    BY <1>6 DEF Crash, Running
  <2>2. db' = db
    BY <1>6 DEF Crash
  <2>3. \A c \in Calls : Visible(c)' = db
    BY <2>1, <2>2 DEF Visible
  <2> QED BY <1>0, <2>1, <2>2, <2>3 DEF RowsInv
<1>7. ASSUME UNCHANGED vars PROVE RowsInv'
  <2>1. \A c \in Calls : /\ Visible(c)' = Visible(c) /\ Running(c)' = Running(c)
                         /\ Inserting(c)' = Inserting(c) /\ Song(c)' = Song(c)
    BY <1>7 DEF vars, Visible, Running, Inserting, LoopDone, Song
  <2>2. \A c \in Calls : Progress(c)' = Progress(c)
    BY <1>7, <2>1 DEF vars, Progress
  <2> QED BY <1>0, <1>7, <2>1, <2>2 DEF vars, RowsInv
<1> QED
  BY <1>1, <1>2, <1>3, <1>4, <1>5, <1>6, <1>7
     DEF Next, RejectNoArtist, StatementFails, DeadlockAbort

(* No INSERT of either store ever fails on a foreign key, although ON CONFLICT
   DO NOTHING may have skipped the insert of the row it references. *)
THEOREM ForeignKeys == Spec => []ForeignKeysHold
<1>1. RowsInv => ForeignKeysHold
  <2> SUFFICES ASSUME RowsInv PROVE ForeignKeysHold
    OBVIOUS
  <2>1. \A r \in db : References(r) \subseteq db
    BY DEF RowsInv, Complete
  <2>2. ASSUME NEW c \in Calls, Inserting(c)
        PROVE  References(Current(c)) \subseteq Visible(c)
    <3> DEFINE S == Statements(args[c], Song(c))
    <3>1. /\ stmt[c] \in DOMAIN S /\ DOMAIN S = 1 .. Len(S) /\ Len(S) \in Nat
          /\ InOrder(S)
      BY <2>2, InsertingFacts, StatementsShape DEF RowsInv, OwnershipInv
    <3>2. Current(c) = S[stmt[c]]
      BY DEF Current
    <3>3. \A k \in DOMAIN S : k < stmt[c] => S[k] \in Visible(c)
      BY <2>2 DEF RowsInv, Progress, Inserting
    <3> HIDE DEF S
    <3>4. \A q \in References(Current(c)) : \E j \in 1 .. (stmt[c] - 1) : S[j] = q
      BY <3>1, <3>2 DEF InOrder
    <3>5. \A j \in 1 .. (stmt[c] - 1) : j \in DOMAIN S /\ j < stmt[c]
      BY <3>1
    <3> QED BY <3>3, <3>4, <3>5
  <2> QED BY <2>1, <2>2 DEF ForeignKeysHold
<1> QED BY RowsInit, RowsNext, <1>1, PTL DEF Spec

(* A stored play joins with its track, its album and all of its artists. *)
THEOREM PlaysAlwaysJoin == Spec => []PlaysJoin
<1>1. RowsInv => PlaysJoin
  <2> SUFFICES ASSUME RowsInv, NEW u \in Users, NEW t \in Times,
                      PlayedRow(u, t) \in db
               PROVE  LET x == History[u][t] IN
                      /\ {<<"track", x>>, <<"album", AlbumOf[x]>>} \subseteq db
                      /\ \A a \in RowsOf(ArtistsOf[x]) :
                           {<<"artist", a>>, <<"credit", x, a>>} \subseteq db
    BY DEF PlaysJoin
  <2> DEFINE x == History[u][t]
  <2>1. RowsOf(PersistSong(u, t)) \subseteq db
    BY DEF RowsInv, Complete
  <2>2. x \in Tracks
    BY CatalogueAssumption
  <2>3. \A i \in DOMAIN ArtistsOf[x] :
          /\ <<"artist", ArtistsOf[x][i]>> \in RowsOf(ArtistRows(x))
          /\ <<"credit", x, ArtistsOf[x][i]>> \in RowsOf(ArtistRows(x))
    BY <2>2, ArtistRowsShape
  <2>4. /\ RowsOf(ArtistRows(x)) \subseteq db
        /\ <<"track", x>> \in db /\ <<"album", AlbumOf[x]>> \in db
    BY <2>1, PersistSongShape
  <2> HIDE DEF x
  <2>5. \A a \in RowsOf(ArtistsOf[x]) :
          {<<"artist", a>>, <<"credit", x, a>>} \subseteq db
    BY <2>3, <2>4 DEF RowsOf
  <2> QED BY <2>4, <2>5 DEF x
<1> QED BY RowsInit, RowsNext, <1>1, PTL DEF Spec

-----------------------------------------------------------------------------
(* The refinement of AtomicStore. *)

batchBar   == [c \in Calls |-> BatchRows(args[c])]
freshBar   == [c \in Calls |-> args[c].store = "v1"]
outcomeBar == [c \in Calls |-> IF pc[c] = "idle" THEN result[c] ELSE "running"]

LEMMA BatchesAreRows ==
  ASSUME NEW a \in [store : Stores, user : Users, songs : Seq(Times)]
  PROVE  BatchRows(a) \subseteq Row
<1>1. ASSUME NEW i \in DOMAIN a.songs
      PROVE  RowsOf(Statements(a, a.songs[i])) \subseteq Row
  <2>1. a.songs[i] \in Times
    OBVIOUS
  <2> DEFINE S == Statements(a, a.songs[i])
  <2>2. S \in Seq(Row)
    BY <2>1, StatementsShape
  <2> HIDE DEF S
  <2>3. RowsOf(S) \subseteq Row
    BY <2>2 DEF RowsOf
  <2> QED BY <2>3 DEF S
<1> QED BY <1>1 DEF BatchRows

(* When the loop is done, a commit adds exactly the batch. *)
LEMMA CommitAddsBatch ==
  ASSUME RowsInv, NEW c \in Calls, Running(c), LoopDone(c)
  PROVE  db \cup own[c] = db \cup BatchRows(args[c])
<1>1. /\ args[c] \in [store : Stores, user : Users, songs : Seq(Times)]
      /\ song[c] \in Nat
  BY DEF RowsInv, OwnershipInv, TypeInv, TypeOK
<1>2. \A i \in DOMAIN args[c].songs : i < song[c]
  BY <1>1 DEF LoopDone
<1>3. \A i \in DOMAIN args[c].songs :
        RowsOf(Statements(args[c], args[c].songs[i])) \subseteq Visible(c)
  BY <1>2 DEF RowsInv, Progress
<1>4. BatchRows(args[c]) \subseteq Visible(c)
  BY <1>3 DEF BatchRows
<1> QED BY <1>4 DEF RowsInv, Visible

(* What a StoreV1 call returns after its loop: the new part of its batch. *)
LEMMA CommitReturnsNew ==
  ASSUME RowsInv, NEW c \in Calls, Running(c), LoopDone(c), args[c].store = "v1"
  PROVE  persisted[c] = BatchRows(args[c]) \ db
<1>1. db \cup own[c] = db \cup BatchRows(args[c])
  BY CommitAddsBatch
<1>2. persisted[c] = own[c] /\ own[c] \cap db = {} /\ own[c] \subseteq BatchRows(args[c])
  BY DEF RowsInv, OwnershipInv
<1> QED BY <1>1, <1>2

LEMMA RefinementInit == Init => Atomic!Init
<1> SUFFICES ASSUME Init PROVE Atomic!Init
  OBVIOUS
<1>1. \A c \in Calls : args[c].songs = <<>> /\ pc[c] = "idle" /\ result[c] = "none"
  BY DEF Init
<1>2. \A c \in Calls : BatchRows(args[c]) = {}
  BY <1>1 DEF BatchRows
<1> QED BY <1>1, <1>2 DEF Init, Atomic!Init

LEMMA FailStep ==
  ASSUME TypeInv, NEW S \in (SUBSET Calls) \ {{}}, NEW o \in {"error", "panic", "killed"},
         \A c \in S : pc[c] # "idle",
         outcomeBar' = [c \in Calls |-> IF c \in S THEN o ELSE outcomeBar[c]],
         db' = db, args' = args, reported' = reported
  PROVE  Atomic!Next
<1>1. o \in Atomic!Outcome \ {"ok"}
  BY DEF Atomic!Outcome
<1>2. Atomic!Fail(S)
  BY <1>1 DEF Atomic!Fail, outcomeBar
<1> QED BY <1>2 DEF Atomic!Next

LEMMA StoreStep ==
  ASSUME RowsInv, NEW c \in Calls, NEW o \in {"ok", "error"}, Return(c, o),
         Running(c), LoopDone(c), db' = db \cup own[c],
         reported' = IF o = "ok" /\ args[c].store = "v1" THEN reported \cup persisted[c]
                                                        ELSE reported
  PROVE  Atomic!Next
<1>1. db' = db \cup BatchRows(args[c])
  BY CommitAddsBatch
<1>2. /\ pc' = [pc EXCEPT ![c] = "idle"] /\ result' = [result EXCEPT ![c] = o]
      /\ args' = args /\ pc[c] # "idle"
      /\ DOMAIN pc = Calls /\ DOMAIN result = Calls
  BY DEF Return, Running, RowsInv, OwnershipInv, TypeInv, TypeOK
<1>3. outcomeBar' = [outcomeBar EXCEPT ![c] = o] /\ outcomeBar[c] = "running"
  BY <1>2 DEF outcomeBar
<1>4. args[c].store = "v1" => persisted[c] = BatchRows(args[c]) \ db
  BY CommitReturnsNew
<1>5. reported' = IF o = "ok" /\ args[c].store = "v1"
                    THEN reported \cup (BatchRows(args[c]) \ db) ELSE reported
  BY <1>4
<1>6. Atomic!Store(c)
  <2>1. CASE o = "ok"
    BY <1>1, <1>2, <1>3, <1>5, <2>1 DEF Atomic!Store, outcomeBar
  <2>2. CASE o = "error"
    BY <1>1, <1>2, <1>3, <1>5, <2>2 DEF Atomic!Store, outcomeBar
  <2> QED BY <2>1, <2>2
<1> QED BY <1>6 DEF Atomic!Next

LEMMA RefinementNext == RowsInv /\ RowsInv' /\ [Next]_vars => [Atomic!Next]_(Atomic!vars)
<1> SUFFICES ASSUME RowsInv, RowsInv', [Next]_vars
             PROVE  Atomic!Next \/ UNCHANGED Atomic!vars
  OBVIOUS
<1>0. /\ TypeInv /\ TypeInv'
      /\ DOMAIN pc = Calls /\ DOMAIN result = Calls /\ DOMAIN args = Calls
      /\ \A c \in Calls : result[c] # "running"
  BY DEF RowsInv, OwnershipInv, TypeInv, TypeOK
<1>1. ASSUME NEW c \in Calls, Call(c) PROVE Atomic!Next
  <2>1. /\ \A d \in Calls : BatchRows(args'[d]) \subseteq Row
        /\ \A d \in Calls \ {c} : args'[d] = args[d]
    BY <1>0, <1>1, BatchesAreRows DEF Call, TypeInv, TypeOK
  <2>2. outcomeBar' = [outcomeBar EXCEPT ![c] = "running"]
    BY <1>0, <1>1 DEF Call, outcomeBar
  <2>3. outcomeBar[c] # "running" /\ db' = db /\ reported' = reported
    BY <1>0, <1>1 DEF Call, outcomeBar
  <2>4. Atomic!Start(c)
    BY <2>1, <2>2, <2>3 DEF Atomic!Start, outcomeBar
  <2> QED BY <2>4 DEF Atomic!Next
<1>2. ASSUME NEW c \in Calls, Begin(c) \/ Insert(c) PROVE UNCHANGED Atomic!vars
  <2>1. /\ db' = db /\ args' = args /\ result' = result /\ reported' = reported
        /\ \A d \in Calls : pc'[d] = "idle" <=> pc[d] = "idle"
    BY <1>0, <1>2 DEF Begin, Insert
  <2> QED BY <2>1 DEF Atomic!vars
<1>3. ASSUME NEW c \in Calls, BeginFails(c) PROVE Atomic!Next
  <2> DEFINE o == IF args[c].store = "v1" THEN "error" ELSE "panic"
             S == {c}
  <2>1. /\ pc[c] # "idle" /\ db' = db /\ args' = args /\ reported' = reported
        /\ outcomeBar' = [d \in Calls |-> IF d \in S THEN o ELSE outcomeBar[d]]
    BY <1>0, <1>3 DEF BeginFails, outcomeBar
  <2>2. S \in (SUBSET Calls) \ {{}} /\ o \in {"error", "panic", "killed"}
        /\ \A d \in S : d = c
    OBVIOUS
  <2> HIDE DEF S, o
  <2> QED BY <1>0, <2>1, <2>2, FailStep
<1>4. ASSUME NEW c \in Calls, Return(c, "error"), Running(c), db' = db,
             reported' = reported
      PROVE  Atomic!Next
  <2> DEFINE S == {c}
  <2>1. /\ pc[c] # "idle" /\ args' = args
        /\ outcomeBar' = [d \in Calls |-> IF d \in S THEN "error" ELSE outcomeBar[d]]
    BY <1>0, <1>4 DEF Return, Running, outcomeBar
  <2>2. S \in (SUBSET Calls) \ {{}} /\ \A d \in S : d = c
    OBVIOUS
  <2> HIDE DEF S
  <2> QED BY <1>0, <1>4, <2>1, <2>2, FailStep
<1>5. ASSUME NEW c \in Calls, RejectNoArtist(c) \/ StatementFails(c) \/ DeadlockAbort(c)
      PROVE  Atomic!Next
  <2>1. Running(c)
    <3>1. CASE Deadlocked(c)
      BY <3>1 DEF Deadlocked, WaitsFor, Inserting
    <3>2. CASE Inserting(c)
      BY <3>2 DEF Inserting
    <3> QED BY <1>5, <3>1, <3>2 DEF RejectNoArtist, StatementFails, DeadlockAbort
  <2> QED BY <1>4, <1>5, <2>1
             DEF RejectNoArtist, StatementFails, DeadlockAbort, Rollback
<1>6. ASSUME NEW c \in Calls, Commit(c) PROVE Atomic!Next
  BY <1>6, StoreStep DEF Commit
<1>7. ASSUME NEW c \in Calls, CommitFails(c) PROVE Atomic!Next
  <2>1. CASE db' = db
    BY <1>4, <1>7, <2>1 DEF CommitFails
  <2>2. CASE db' = db \cup own[c]
    BY <1>7, <2>2, StoreStep DEF CommitFails
  <2> QED BY <1>7, <2>1, <2>2 DEF CommitFails
<1>8. ASSUME Crash PROVE Atomic!Next
  <2> DEFINE S == {c \in Calls : pc[c] # "idle"}
  <2>1. /\ db' = db /\ args' = args /\ \A c \in S : pc[c] # "idle"
        /\ reported' = reported
        /\ outcomeBar' = [c \in Calls |-> IF c \in S THEN "killed" ELSE outcomeBar[c]]
    BY <1>8 DEF Crash, outcomeBar
  <2>2. S \in (SUBSET Calls) \ {{}}
    BY <1>8 DEF Crash
  <2> HIDE DEF S
  <2> QED BY <1>0, <2>1, <2>2, FailStep
<1>9. ASSUME UNCHANGED vars PROVE UNCHANGED Atomic!vars
  BY <1>9 DEF vars, Atomic!vars
<1> QED
  BY <1>1, <1>2, <1>3, <1>5, <1>6, <1>7, <1>8, <1>9 DEF Next

(* PersistRecentlyPlayed is atomic: seen from outside, each call stores its
   whole batch in one step or nothing at all, and a StoreV1 call without an
   error returns exactly the plays of its batch that this step added. *)
THEOREM PersistIsAtomic == Spec => AllOrNothing
BY RowsInit, RowsNext, RefinementInit, RefinementNext, PTL
   DEF Spec, AllOrNothing, Atomic!Spec
=============================================================================
