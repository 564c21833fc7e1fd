---------------------------- MODULE SpotifyToken ----------------------------
(***************************************************************************)
(* The Spotify token of one user: the row of spotify_tokens, the handlers  *)
(* (refresh, backfill) that fetch it, refresh it when it has expired and   *)
(* store the refreshed one, and addToken, which stores the token of a new  *)
(* authorization.  Rows of different users never meet: every statement     *)
(* names one user_id.                                                      *)
(*                                                                         *)
(* Spotify is modelled from how the code uses it: it answers a refresh     *)
(* with an access token that it accepts for Lifetime from the moment it    *)
(* grants it, with or without a refresh token in the answer.  token_type   *)
(* and scope, which nothing reads, are left out.                           *)
(***************************************************************************)
EXTENDS Naturals

CONSTANTS Handlers,   \* goroutines that call fetchToken
          Adders,     \* goroutines that run addToken
          Lifetime,   \* expires_in
          Buffer,     \* the minute of Expired()
          Timeout,    \* the Timeout of the http.Client
          MaxTime,    \* bounds the clock
          MaxGrants   \* bounds the authorizations of the user

(* The minute of Expired is as long as the 60 seconds of the http.Client. *)
ASSUME TimeAssumption ==
  /\ Lifetime \in Nat /\ Buffer \in Nat /\ Timeout \in Nat
  /\ MaxTime \in Nat /\ MaxGrants \in Nat
  /\ Timeout <= Buffer
  /\ Handlers \cap Adders = {}

VARIABLES
  now,        \* the time
  issued,     \* the number of authorizations so far; the newest has that number
  row,        \* the user's row of spotify_tokens
  pc,         \* pc[h]: where handler h is
  tok,        \* tok[h]: its variable token
  sentAt,     \* sentAt[h]: when its request to the token endpoint was sent
  reply,      \* reply[h]: the answer on its way
  lastAdded,  \* ghost: the authorization of the last addToken answered 201
  lost,       \* ghost: one that an addToken since then stored, though its
              \* database call returned an error; 0 when there is none
  overlap     \* ghost: a handler that read the row before that may write it

vars == <<now, issued, row, pc, tok, sentAt, reply, lastAdded, lost, overlap>>

-----------------------------------------------------------------------------
(* An access token: who granted it and until when Spotify accepts it.  A
   refresh token is named by its authorization, 0 when absent. *)

Access == [grant : Nat, until : Nat]
Token  == [access : Access, refresh : Nat, expiresAt : Nat]

NoToken == [access |-> [grant |-> 0, until |-> 0], refresh |-> 0, expiresAt |-> 0]

Mut_NoBuffer(t) == now > t.expiresAt

Expired(t) == now + Buffer > t.expiresAt

merge(v, zero, fallback) == IF v = zero THEN fallback ELSE v

Mut_MergeUndated(old, refreshed) ==
  [access  |-> merge(refreshed.access, NoToken.access, old.access),
   refresh |-> merge(refreshed.refresh, 0, old.refresh)]

(* expires_at is never the zero time: doRequestToken has just set it. *)
Merge(old, refreshed) ==
  [access    |-> merge(refreshed.access, NoToken.access, old.access),
   refresh   |-> merge(refreshed.refresh, 0, old.refresh),
   expiresAt |-> refreshed.expiresAt]

Mut_RefreshForgotten(t) ==
  row' = IF row = NoToken THEN t ELSE [t EXCEPT !.refresh = row.refresh]

(* The upsert: one statement, so the three columns change together. *)
PersistToken(t) == row' = t

-----------------------------------------------------------------------------
Processes == Handlers \cup Adders

Init == /\ now = 0
        /\ issued = 0
        /\ row = NoToken
        /\ pc = [p \in Processes |-> "idle"]
        /\ tok = [p \in Processes |-> NoToken]
        /\ sentAt = [p \in Processes |-> 0]
        /\ reply = [p \in Processes |-> NoToken]
        /\ lastAdded = 0
        /\ lost = 0
        /\ overlap = FALSE

Goto(p, label) == pc' = [pc EXCEPT ![p] = label]

(* The handler returns, and its variables with it. *)
Done(p) == /\ Goto(p, "idle")
           /\ tok' = [tok EXCEPT ![p] = NoToken]
           /\ reply' = [reply EXCEPT ![p] = NoToken]
           /\ sentAt' = [sentAt EXCEPT ![p] = 0]

(* The user authorizes the app and posts the token.  Its expires_at was set
   as in doRequestToken, or is absent from the body. *)
PostToken(a) ==
  /\ pc[a] = "idle" /\ issued < MaxGrants
  /\ issued' = issued + 1
  /\ \E e \in {0} \cup {now + Lifetime + d : d \in 0 .. Timeout} :
       tok' = [tok EXCEPT ![a] =
                 [access    |-> [grant |-> issued + 1, until |-> now + Lifetime],
                  refresh   |-> issued + 1,
                  expiresAt |-> e]]
  /\ Goto(a, "persist")
  /\ UNCHANGED <<now, row, sentAt, reply, lastAdded, lost, overlap>>

(* A handler that has read the row and may still write it. *)
Fetching(h) == pc[h] \in {"check", "asking", "answered", "persist"}

AddToken(a) ==
  /\ pc[a] = "persist"
  /\ PersistToken(tok[a])
  /\ lastAdded' = tok[a].refresh /\ lost' = 0
  /\ overlap' = \E h \in Handlers : Fetching(h)
  /\ Done(a)
  /\ UNCHANGED <<now, issued>>

(* ExecContext returns an error, whether or not the upsert was committed. *)
AddTokenFails(a) ==
  /\ pc[a] = "persist"
  /\ \/ UNCHANGED <<row, lost, overlap>>
     \/ /\ PersistToken(tok[a])
        /\ lost' = tok[a].refresh
        /\ overlap' = \E h \in Handlers : Fetching(h)
  /\ Done(a)
  /\ UNCHANGED <<now, issued, lastAdded>>

(* fetchToken: GetToken; without a row it returns sql.ErrNoRows. *)
GetToken(h) ==
  /\ pc[h] = "idle" /\ row # NoToken
  /\ tok' = [tok EXCEPT ![h] = row]
  /\ Goto(h, "check")
  /\ UNCHANGED <<now, issued, row, sentAt, reply, lastAdded, lost, overlap>>

(* token.Expired(): RefreshAccess sends its request. *)
FoundExpired(h) ==
  /\ pc[h] = "check" /\ Expired(tok[h])
  /\ sentAt' = [sentAt EXCEPT ![h] = now]
  /\ Goto(h, "asking")
  /\ UNCHANGED <<now, issued, row, tok, reply, lastAdded, lost, overlap>>

FoundFresh(h) ==
  /\ pc[h] = "check" /\ ~Expired(tok[h])
  /\ Goto(h, "have")
  /\ UNCHANGED <<now, issued, row, tok, sentAt, reply, lastAdded, lost, overlap>>

(* Spotify grants a new access token, maybe without a refresh token. *)
Granted(h) ==
  /\ pc[h] = "asking"
  /\ \E r \in {0, tok[h].refresh} :
       reply' = [reply EXCEPT ![h] =
                   [access    |-> [grant |-> tok[h].refresh, until |-> now + Lifetime],
                    refresh   |-> r,
                    expiresAt |-> 0]]
  /\ Goto(h, "answered")
  /\ UNCHANGED <<now, issued, row, tok, sentAt, lastAdded, lost, overlap>>

(* doRequestToken has read the answer and dates it by its own clock. *)
RefreshAccess(h) ==
  /\ pc[h] = "answered"
  /\ tok' = [tok EXCEPT ![h] =
               Merge(@, [reply[h] EXCEPT !.expiresAt = now + Lifetime])]
  /\ Goto(h, "persist")
  /\ UNCHANGED <<now, issued, row, sentAt, reply, lastAdded, lost, overlap>>

StoreRefreshed(h) ==
  /\ pc[h] = "persist"
  /\ PersistToken(tok[h])
  /\ Goto(h, "have")
  /\ UNCHANGED <<now, issued, tok, sentAt, reply, lastAdded, lost, overlap>>

(* The request is refused, times out or is lost, or the database fails, which
   again may be after it has committed. *)
FetchFails(h) ==
  /\ pc[h] \in {"asking", "answered", "persist"}
  /\ \/ UNCHANGED row
     \/ pc[h] = "persist" /\ PersistToken(tok[h])
  /\ Done(h)
  /\ UNCHANGED <<now, issued, lastAdded, lost, overlap>>

Mut_RefreshInBackfill(h) ==
  /\ pc[h] = "have" /\ Expired(tok[h])
  /\ sentAt' = [sentAt EXCEPT ![h] = now]
  /\ Goto(h, "asking")
  /\ UNCHANGED <<now, issued, row, tok, reply, lastAdded, lost, overlap>>

(* GetRecentlyPlayed checks the token again: ErrTokenExpired. *)
GiveUpExpired(h) ==
  /\ pc[h] = "have" /\ Expired(tok[h])
  /\ Done(h)
  /\ UNCHANGED <<now, issued, row, lastAdded, lost, overlap>>

(* The token is used.  refresh then goes on without it; the loop of backfill
   comes back with the same one. *)
GetRecentlyPlayed(h) ==
  /\ pc[h] = "have" /\ ~Expired(tok[h])
  /\ \/ Done(h)
     \/ UNCHANGED <<pc, tok, sentAt, reply>>
  /\ UNCHANGED <<now, issued, row, lastAdded, lost, overlap>>

(* The server dies; the row stays. *)
Crash ==
  /\ pc' = [p \in Processes |-> "idle"]
  /\ tok' = [p \in Processes |-> NoToken]
  /\ reply' = [p \in Processes |-> NoToken]
  /\ sentAt' = [p \in Processes |-> 0]
  /\ UNCHANGED <<now, issued, row, lastAdded, lost, overlap>>

(* A request is over, or given up, when the Timeout of the client is. *)
Tick ==
  /\ now < MaxTime
  /\ \A h \in Handlers :
       pc[h] \in {"asking", "answered"} => now < sentAt[h] + Timeout
  /\ now' = now + 1
  /\ UNCHANGED <<issued, row, pc, tok, sentAt, reply, lastAdded, lost, overlap>>

Next == \/ \E a \in Adders : PostToken(a) \/ AddToken(a) \/ AddTokenFails(a)
        \/ \E h \in Handlers :
             \/ GetToken(h) \/ FoundExpired(h) \/ FoundFresh(h)
             \/ Granted(h) \/ RefreshAccess(h) \/ StoreRefreshed(h)
             \/ FetchFails(h) \/ GiveUpExpired(h) \/ GetRecentlyPlayed(h)
        \/ Crash
        \/ Tick

Spec == Init /\ [][Next]_vars

-----------------------------------------------------------------------------
TypeOK ==
  /\ now \in Nat /\ issued \in Nat /\ row \in Token
  /\ pc \in [Processes -> {"idle", "check", "asking", "answered", "persist", "have"}]
  /\ tok \in [Processes -> Token]
  /\ sentAt \in [Processes -> Nat]
  /\ reply \in [Processes -> Token]
  /\ lastAdded \in Nat /\ lost \in Nat /\ overlap \in BOOLEAN

(* Expired() never vouches for a token that Spotify no longer accepts, though
   expires_at is counted from the end of the request and not from the grant:
   the minute of buffer covers what the http.Client may have waited. *)
FreshMeansAccepted ==
  /\ row # NoToken /\ ~Expired(row) => now <= row.access.until
  /\ \A p \in Processes : tok[p] # NoToken /\ ~Expired(tok[p])
                            => now <= tok[p].access.until

(* The access and refresh tokens in the row, and in every handler, come from
   the same authorization, whatever overlaps, fails or is merged. *)
OneAuthorization ==
  /\ row.access.grant = row.refresh
  /\ \A p \in Processes : tok[p].access.grant = tok[p].refresh

(* The authorization that the last addToken answered 201 stored stays the one
   that is refreshed from then on.  Two things may replace it: an addToken that
   stored a later one and was answered 500, and a fetchToken that had read the
   row when addToken wrote it, which can put the old authorization back. *)
AddedTokenKept == ~overlap => row.refresh = IF lost = 0 THEN lastAdded ELSE lost
=============================================================================
