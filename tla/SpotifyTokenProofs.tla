------------------------- MODULE SpotifyTokenProofs -------------------------
(***************************************************************************)
(* Theorems about SpotifyToken, for every lifetime, every buffer that is   *)
(* no shorter than the timeout of the http.Client, and any number of       *)
(* handlers.                                                               *)
(***************************************************************************)
EXTENDS SpotifyToken, TLAPS

(* How late an expires_at may be: it is counted from the end of the request. *)
Dated(t) == t.expiresAt <= t.access.until + Timeout

Paired(t) == t.access.grant = t.refresh

(* A request in progress is younger than the timeout, and the answer to it
   was granted after it was sent. *)
RequestInv(h) ==
  /\ pc[h] \in {"asking", "answered"} => /\ sentAt[h] <= now
                                         /\ now <= sentAt[h] + Timeout
  /\ pc[h] = "answered" => /\ sentAt[h] + Lifetime <= reply[h].access.until
                           /\ reply[h].access.grant = tok[h].refresh
                           /\ reply[h].refresh \in {0, tok[h].refresh}

TokenInv ==
  /\ TypeOK
  /\ Dated(row) /\ Paired(row)
  /\ \A p \in Processes : Dated(tok[p]) /\ Paired(tok[p])
  /\ \A p \in Processes : pc[p] = "idle" => tok[p] = NoToken
  /\ \A a \in Adders : /\ pc[a] \in {"idle", "persist"}
                        /\ pc[a] = "persist" => tok[a].refresh # 0
  /\ \A h \in Handlers : RequestInv(h)

(* The authorization the row should hold: the last one addToken answered 201,
   or a later one it stored though it answered 500. *)
Added == IF lost = 0 THEN lastAdded ELSE lost

KeptInv == ~overlap => /\ row.refresh = Added
                       /\ \A h \in Handlers : Fetching(h) => tok[h].refresh = Added

USE TimeAssumption

LEMMA NoTokenFacts == NoToken \in Token /\ Dated(NoToken) /\ Paired(NoToken)
BY DEF NoToken, Token, Access, Dated, Paired

LEMMA TokenInvInit == Init => TokenInv /\ KeptInv
<1> SUFFICES ASSUME Init PROVE TokenInv /\ KeptInv
  OBVIOUS
<1>1. NoToken.refresh = 0
  BY DEF NoToken
<1>2. TypeOK
  BY NoTokenFacts DEF Init, TypeOK
<1>3. TokenInv
  BY <1>2, NoTokenFacts DEF Init, TokenInv, RequestInv, Processes
<1>4. KeptInv
  BY <1>1 DEF Init, KeptInv, Added, Fetching, Processes
<1> QED BY <1>3, <1>4

(* Merge dates and pairs the refreshed token. *)
LEMMA MergeFacts ==
  ASSUME TokenInv, NEW h \in Handlers, pc[h] = "answered"
  PROVE  LET t == Merge(tok[h], [reply[h] EXCEPT !.expiresAt = now + Lifetime])
         IN  t \in Token /\ Dated(t) /\ Paired(t) /\ t.refresh = tok[h].refresh
<1>1. /\ tok[h] \in Token /\ reply[h] \in Token /\ sentAt[h] \in Nat /\ now \in Nat
  BY DEF TokenInv, TypeOK, Processes
<1>2. /\ now <= sentAt[h] + Timeout
      /\ sentAt[h] + Lifetime <= reply[h].access.until
      /\ reply[h].access.grant = tok[h].refresh
      /\ reply[h].refresh \in {0, tok[h].refresh}
  BY DEF TokenInv, RequestInv
<1> DEFINE r == [reply[h] EXCEPT !.expiresAt = now + Lifetime]
           t == Merge(tok[h], r)
<1>3. /\ r.access = reply[h].access /\ r.refresh = reply[h].refresh
      /\ r.expiresAt = now + Lifetime
  BY <1>1 DEF Token
<1>4. /\ merge(r.refresh, 0, tok[h].refresh) = tok[h].refresh
      /\ merge(r.access, NoToken.access, tok[h].access) \in {reply[h].access, tok[h].access}
  BY <1>2, <1>3 DEF merge
<1>5. /\ t.access \in {reply[h].access, tok[h].access} /\ t.refresh = tok[h].refresh
      /\ t.access = tok[h].access => reply[h].access = tok[h].access
                                       \/ reply[h].access = NoToken.access
      /\ t.expiresAt = now + Lifetime
      /\ t = [access |-> t.access, refresh |-> t.refresh, expiresAt |-> t.expiresAt]
  BY <1>3, <1>4 DEF Merge, merge
<1> HIDE DEF t
<1>6. t \in Token
  BY <1>1, <1>5 DEF Token
<1>7. Dated(t)
  <2>1. /\ reply[h].access.until \in Nat /\ tok[h].access.until \in Nat
        /\ NoToken.access.until = 0
    BY <1>1 DEF Token, Access, NoToken
  <2>2. now + Lifetime <= reply[h].access.until + Timeout
    BY <1>1, <1>2, <2>1
  <2>3. CASE t.access = reply[h].access
    BY <1>5, <2>2, <2>3 DEF Dated
  <2>4. CASE t.access = tok[h].access
    <3>1. CASE reply[h].access = tok[h].access
      BY <1>5, <2>2, <2>4, <3>1 DEF Dated
    <3>2. CASE reply[h].access = NoToken.access
      BY <1>1, <1>5, <2>1, <2>2, <2>4, <3>2 DEF Dated
    <3> QED BY <1>5, <2>4, <3>1, <3>2
  <2> QED BY <1>5, <2>3, <2>4
<1>8. Paired(t)
  <2>1. Paired(tok[h])
    BY DEF TokenInv, Processes
  <2> QED BY <1>2, <1>5, <2>1 DEF Paired
<1> QED BY <1>5, <1>6, <1>7, <1>8 DEF t

(* What stays when a process ends, whether or not it has just written the row. *)
LEMMA DoneTyped ==
  ASSUME TokenInv, NEW p \in Processes, Done(p), row' \in {row, tok[p]},
         now' = now, issued' = issued, lastAdded' \in Nat, lost' \in Nat,
         overlap' \in BOOLEAN
  PROVE  /\ TokenInv'
         /\ pc'[p] = "idle"
         /\ \A q \in Processes \ {p} : pc'[q] = pc[q] /\ tok'[q] = tok[q]
<1>1. row' \in Token /\ Dated(row') /\ Paired(row')
  BY DEF TokenInv, TypeOK
<1>2. TypeOK'
  BY <1>1, NoTokenFacts DEF TokenInv, TypeOK, Done, Goto
<1>3. /\ pc'[p] = "idle" /\ tok'[p] = NoToken
      /\ \A q \in Processes \ {p} : /\ pc'[q] = pc[q] /\ tok'[q] = tok[q]
                                    /\ sentAt'[q] = sentAt[q] /\ reply'[q] = reply[q]
  BY DEF TokenInv, TypeOK, Done, Goto
<1>4. TokenInv'
  BY <1>1, <1>2, <1>3, NoTokenFacts DEF TokenInv, RequestInv, Processes, Dated, Paired
<1> QED BY <1>3, <1>4

(* The row is left alone, or a handler writes what it has got. *)
LEMMA DoneStep ==
  ASSUME TokenInv, KeptInv, NEW p \in Processes, Done(p),
         now' = now, issued' = issued, lastAdded' = lastAdded, lost' = lost,
         overlap' = overlap,
         \/ row' = row
         \/ row' = tok[p] /\ p \in Handlers /\ Fetching(p)
  PROVE  TokenInv' /\ KeptInv'
<1>1. lastAdded' \in Nat /\ lost' \in Nat /\ overlap' \in BOOLEAN
  BY DEF TokenInv, TypeOK
<1>2. /\ TokenInv' /\ pc'[p] = "idle"
      /\ \A q \in Processes \ {p} : pc'[q] = pc[q] /\ tok'[q] = tok[q]
  BY <1>1, DoneTyped
<1>3. KeptInv'
  BY <1>2 DEF KeptInv, Added, Fetching, Processes
<1> QED BY <1>2, <1>3

(* addToken has written the row: a fetchToken that has read it is recorded. *)
LEMMA AddedStep ==
  ASSUME TokenInv, NEW a \in Adders, PersistToken(tok[a]), Done(a),
         now' = now, issued' = issued, lastAdded' \in Nat, lost' \in Nat,
         Added' = tok[a].refresh,
         overlap' = \E h \in Handlers : Fetching(h)
  PROVE  TokenInv' /\ KeptInv'
<1>1. overlap' \in BOOLEAN /\ a \in Processes /\ row' = tok[a]
  BY DEF PersistToken, Processes
<1>2. /\ TokenInv' /\ pc'[a] = "idle"
      /\ \A q \in Processes \ {a} : pc'[q] = pc[q] /\ tok'[q] = tok[q]
  BY <1>1, DoneTyped
<1>3. \A h \in Handlers : h # a /\ h \in Processes
  BY DEF Processes
<1>4. KeptInv'
  BY <1>1, <1>2, <1>3 DEF KeptInv, Fetching
<1> QED BY <1>2, <1>4

LEMMA TokenInvNext == TokenInv /\ KeptInv /\ [Next]_vars => TokenInv' /\ KeptInv'
<1> SUFFICES ASSUME TokenInv, KeptInv, [Next]_vars PROVE TokenInv' /\ KeptInv'
  OBVIOUS
<1> USE DEF Goto
<1>0. TypeOK
  BY DEF TokenInv
<1>1. ASSUME NEW a \in Adders, PostToken(a) PROVE TokenInv' /\ KeptInv'
  <2>1. PICK e \in {0} \cup {now + Lifetime + d : d \in 0 .. Timeout} :
          tok' = [tok EXCEPT ![a] =
                    [access    |-> [grant |-> issued + 1, until |-> now + Lifetime],
                     refresh   |-> issued + 1,
                     expiresAt |-> e]]
    BY <1>1 DEF PostToken
  <2>2. e \in Nat /\ e <= (now + Lifetime) + Timeout
    BY <1>0 DEF TypeOK
  <2>3. /\ tok'[a] \in Token /\ Dated(tok'[a]) /\ Paired(tok'[a])
        /\ tok'[a].refresh # 0
        /\ \A q \in Processes \ {a} : tok'[q] = tok[q]
        /\ \A q \in Processes \ {a} : pc'[q] = pc[q]
        /\ tok' \in [Processes -> Token]
    BY <1>0, <1>1, <2>1, <2>2
       DEF PostToken, TypeOK, Token, Access, Dated, Paired, Processes
  <2>4. TypeOK'
    BY <1>0, <1>1, <2>3 DEF PostToken, TypeOK
  <2>5. \A h \in Handlers : h # a /\ h \in Processes
    BY <1>1 DEF Processes
  <2>6. pc'[a] = "persist"
    BY <1>0, <1>1 DEF PostToken, TypeOK, Processes
  <2>7. TokenInv'
    BY <1>1, <2>3, <2>4, <2>5, <2>6 DEF PostToken, TokenInv, RequestInv, Processes,
       Dated, Paired
  <2>8. KeptInv'
    BY <1>1, <2>3, <2>5 DEF PostToken, KeptInv, Added, Fetching
  <2> QED BY <2>7, <2>8
<1>2. ASSUME NEW a \in Adders, AddToken(a) PROVE TokenInv' /\ KeptInv'
  <2>1. tok[a].refresh \in Nat
    BY <1>0 DEF TypeOK, Token, Processes
  <2>2. lastAdded' \in Nat /\ lost' \in Nat /\ Added' = tok[a].refresh
    BY <1>2, <2>1 DEF AddToken, Added
  <2> QED BY <1>2, <2>2, AddedStep DEF AddToken
<1>3. ASSUME NEW a \in Adders, AddTokenFails(a) PROVE TokenInv' /\ KeptInv'
  <2>1. CASE UNCHANGED <<row, lost, overlap>>
    BY <1>3, <2>1, DoneStep DEF AddTokenFails, Processes
  <2>2. CASE /\ PersistToken(tok[a]) /\ lost' = tok[a].refresh
             /\ overlap' = \E h \in Handlers : Fetching(h)
    <3>1. tok[a].refresh \in Nat /\ lastAdded \in Nat
      BY <1>0 DEF TypeOK, Token, Processes
    <3>2. tok[a].refresh # 0
      BY <1>3 DEF AddTokenFails, TokenInv
    <3>3. lastAdded' \in Nat /\ lost' \in Nat /\ Added' = tok[a].refresh
      BY <1>3, <2>2, <3>1, <3>2 DEF AddTokenFails, Added
    <3> QED BY <1>3, <2>2, <3>3, AddedStep DEF AddTokenFails
  <2> QED BY <1>3, <2>1, <2>2 DEF AddTokenFails
<1>4. ASSUME NEW h \in Handlers, GetToken(h) PROVE TokenInv' /\ KeptInv'
  <2>1. /\ tok'[h] = row /\ pc'[h] = "check"
        /\ \A q \in Processes \ {h} : pc'[q] = pc[q] /\ tok'[q] = tok[q]
    BY <1>0, <1>4 DEF GetToken, TypeOK, Processes
  <2>2. TypeOK'
    BY <1>0, <1>4 DEF GetToken, TypeOK
  <2>3. TokenInv'
    BY <1>4, <2>1, <2>2
       DEF GetToken, TokenInv, RequestInv, Processes, Dated, Paired
  <2>4. KeptInv'
    BY <1>4, <2>1 DEF GetToken, KeptInv, Added, Fetching, Processes
  <2> QED BY <2>3, <2>4
<1>5. ASSUME NEW h \in Handlers, FoundExpired(h) PROVE TokenInv' /\ KeptInv'
  <2>1. /\ sentAt'[h] = now /\ pc'[h] = "asking" /\ tok' = tok /\ reply' = reply
        /\ \A q \in Processes \ {h} : pc'[q] = pc[q] /\ sentAt'[q] = sentAt[q]
    BY <1>0, <1>5 DEF FoundExpired, TypeOK, Processes
  <2>2. TypeOK'
    BY <1>0, <1>5 DEF FoundExpired, TypeOK
  <2>3. RequestInv(h)'
    BY <1>0, <1>5, <2>1 DEF FoundExpired, RequestInv, TypeOK
  <2>4. TokenInv'
    BY <1>5, <2>1, <2>2, <2>3
       DEF FoundExpired, TokenInv, RequestInv, Processes, Dated, Paired
  <2>5. KeptInv'
    BY <1>5, <2>1 DEF FoundExpired, KeptInv, Added, Fetching, Processes
  <2> QED BY <2>4, <2>5
<1>6. ASSUME NEW h \in Handlers, FoundFresh(h) PROVE TokenInv' /\ KeptInv'
  <2>1. /\ pc'[h] = "have"
        /\ \A q \in Processes \ {h} : pc'[q] = pc[q]
    BY <1>0, <1>6 DEF FoundFresh, TypeOK, Processes
  <2>2. TypeOK'
    BY <1>0, <1>6 DEF FoundFresh, TypeOK
  <2>3. TokenInv'
    BY <1>6, <2>1, <2>2
       DEF FoundFresh, TokenInv, RequestInv, Processes, Dated, Paired
  <2>4. KeptInv'
    BY <1>6, <2>1 DEF FoundFresh, KeptInv, Added, Fetching, Processes
  <2> QED BY <2>3, <2>4
<1>7. ASSUME NEW h \in Handlers, Granted(h) PROVE TokenInv' /\ KeptInv'
  <2>1. PICK r \in {0, tok[h].refresh} :
          reply' = [reply EXCEPT ![h] =
                     [access    |-> [grant |-> tok[h].refresh, until |-> now + Lifetime],
                      refresh   |-> r,
                      expiresAt |-> 0]]
    BY <1>7 DEF Granted
  <2>2. tok[h].refresh \in Nat /\ now \in Nat /\ sentAt[h] \in Nat
    BY <1>0 DEF TypeOK, Token, Processes
  <2>3. /\ pc'[h] = "answered" /\ tok' = tok /\ sentAt' = sentAt /\ now' = now
        /\ reply'[h].access = [grant |-> tok[h].refresh, until |-> now + Lifetime]
        /\ reply'[h].refresh = r
        /\ \A q \in Processes \ {h} : pc'[q] = pc[q] /\ reply'[q] = reply[q]
    BY <1>0, <1>7, <2>1 DEF Granted, TypeOK, Processes
  <2>4. TypeOK'
    <3> DEFINE new == [access    |-> [grant |-> tok[h].refresh, until |-> now + Lifetime],
                       refresh   |-> r,
                       expiresAt |-> 0]
    <3>1. r \in Nat /\ now + Lifetime \in Nat
      BY <2>2
    <3>2. new \in Token
      BY <2>2, <3>1 DEF Token, Access
    <3>3. reply' = [reply EXCEPT ![h] = new]
      BY <2>1
    <3> HIDE DEF new
    <3> QED BY <1>0, <1>7, <3>2, <3>3 DEF Granted, TypeOK
  <2>5. RequestInv(h)'
    BY <1>7, <2>2, <2>3 DEF Granted, TokenInv, RequestInv
  <2>6. TokenInv'
    BY <1>7, <2>3, <2>4, <2>5
       DEF Granted, TokenInv, RequestInv, Processes, Dated, Paired
  <2>7. KeptInv'
    BY <1>7, <2>3 DEF Granted, KeptInv, Added, Fetching, Processes
  <2> QED BY <2>6, <2>7
<1>8. ASSUME NEW h \in Handlers, RefreshAccess(h) PROVE TokenInv' /\ KeptInv'
  <2> DEFINE t == Merge(tok[h], [reply[h] EXCEPT !.expiresAt = now + Lifetime])
  <2>1. tok' = [tok EXCEPT ![h] = t]
    BY <1>8 DEF RefreshAccess
  <2>2. t \in Token /\ Dated(t) /\ Paired(t) /\ t.refresh = tok[h].refresh
    BY <1>8, MergeFacts DEF RefreshAccess
  <2> HIDE DEF t
  <2>3. /\ tok'[h] = t /\ pc'[h] = "persist"
        /\ \A q \in Processes \ {h} : pc'[q] = pc[q] /\ tok'[q] = tok[q]
    BY <1>0, <1>8, <2>1 DEF RefreshAccess, TypeOK, Processes
  <2>4. TypeOK'
    BY <1>0, <1>8, <2>1, <2>2 DEF RefreshAccess, TypeOK
  <2>5. TokenInv'
    BY <1>8, <2>2, <2>3, <2>4
       DEF RefreshAccess, TokenInv, RequestInv, Processes, Dated, Paired
  <2>6. KeptInv'
    BY <1>8, <2>2, <2>3 DEF RefreshAccess, KeptInv, Added, Fetching, Processes
  <2> QED BY <2>5, <2>6
<1>9. ASSUME NEW h \in Handlers, StoreRefreshed(h) PROVE TokenInv' /\ KeptInv'
  <2>1. /\ row' = tok[h] /\ tok[h] \in Token /\ Dated(tok[h]) /\ Paired(tok[h])
        /\ pc'[h] = "have"
        /\ \A q \in Processes \ {h} : pc'[q] = pc[q]
    BY <1>0, <1>9 DEF StoreRefreshed, PersistToken, TokenInv, TypeOK, Processes
  <2>2. TypeOK'
    BY <1>0, <1>9, <2>1 DEF StoreRefreshed, TypeOK
  <2>3. TokenInv'
    BY <1>9, <2>1, <2>2
       DEF StoreRefreshed, TokenInv, RequestInv, Processes, Dated, Paired
  <2>4. KeptInv'
    BY <1>9, <2>1 DEF StoreRefreshed, KeptInv, Added, Fetching, Processes
  <2> QED BY <2>3, <2>4
<1>10. ASSUME NEW h \in Handlers, FetchFails(h) \/ GiveUpExpired(h)
       PROVE  TokenInv' /\ KeptInv'
  BY <1>10, DoneStep DEF FetchFails, GiveUpExpired, PersistToken, Fetching, Processes
<1>11. ASSUME NEW h \in Handlers, GetRecentlyPlayed(h) PROVE TokenInv' /\ KeptInv'
  <2>1. CASE Done(h)
    BY <1>11, <2>1, DoneStep DEF GetRecentlyPlayed, Processes
  <2>2. CASE UNCHANGED <<pc, tok, sentAt, reply>>
    BY <1>11, <2>2 DEF GetRecentlyPlayed, TokenInv, KeptInv, TypeOK, RequestInv,
                       Added, Dated, Paired, Fetching
  <2> QED BY <1>11, <2>1, <2>2 DEF GetRecentlyPlayed
<1>12. ASSUME Crash PROVE TokenInv' /\ KeptInv'
  <2>1. \A p \in Processes : pc'[p] = "idle" /\ tok'[p] = NoToken
    BY <1>12 DEF Crash
  <2>2. TypeOK'
    BY <1>0, <1>12, NoTokenFacts DEF Crash, TypeOK
  <2>3. TokenInv'
    BY <1>12, <2>1, <2>2, NoTokenFacts
       DEF Crash, TokenInv, RequestInv, Processes, Dated, Paired
  <2>4. KeptInv'
    BY <1>12, <2>1 DEF Crash, KeptInv, Added, Fetching, Processes
  <2> QED BY <2>3, <2>4
<1>13. ASSUME Tick PROVE TokenInv' /\ KeptInv'
  <2>1. TypeOK'
    BY <1>0, <1>13 DEF Tick, TypeOK
  <2>2. \A h \in Handlers : RequestInv(h)'
    BY <1>0, <1>13 DEF Tick, TokenInv, RequestInv, TypeOK, Processes
  <2> QED BY <1>13, <2>1, <2>2 DEF Tick, TokenInv, KeptInv, Added, Dated, Paired, Fetching
<1>14. ASSUME UNCHANGED vars PROVE TokenInv' /\ KeptInv'
  BY <1>14 DEF vars, TokenInv, KeptInv, TypeOK, RequestInv, Added, Dated, Paired, Fetching
<1> QED
  BY <1>1, <1>2, <1>3, <1>4, <1>5, <1>6, <1>7, <1>8, <1>9, <1>10, <1>11, <1>12,
     <1>13, <1>14 DEF Next

(* The row and the variables of every handler stay well typed. *)
THEOREM TokenTypes == Spec => []TypeOK
<1>1. TokenInv => TypeOK
  BY DEF TokenInv
<1> QED BY TokenInvInit, TokenInvNext, <1>1, PTL DEF Spec

(* With a buffer at least as long as the timeout of the http.Client, a token
   that Expired() lets through is one that Spotify still accepts. *)
THEOREM FreshTokensAccepted == Spec => []FreshMeansAccepted
<1>1. TokenInv => FreshMeansAccepted
  <2> SUFFICES ASSUME TokenInv, NEW t \in Token, Dated(t), ~Expired(t)
               PROVE  now <= t.access.until
    BY DEF TokenInv, FreshMeansAccepted, TypeOK
  <2>1. now \in Nat /\ t.expiresAt \in Nat /\ t.access.until \in Nat
    BY DEF TokenInv, TypeOK, Token, Access
  <2> QED BY <2>1 DEF Dated, Expired
<1> QED BY TokenInvInit, TokenInvNext, <1>1, PTL DEF Spec

(* Access and refresh tokens of different authorizations are never mixed. *)
THEOREM OneAuthorizationAtATime == Spec => []OneAuthorization
<1>1. TokenInv => OneAuthorization
  BY DEF TokenInv, OneAuthorization, Paired
<1> QED BY TokenInvInit, TokenInvNext, <1>1, PTL DEF Spec

(* Only a fetchToken that overlaps addToken can undo it. *)
THEOREM AddedTokensKept == Spec => []AddedTokenKept
<1>1. KeptInv => AddedTokenKept
  BY DEF KeptInv, Added, AddedTokenKept
<1> QED BY TokenInvInit, TokenInvNext, <1>1, PTL DEF Spec
=============================================================================
