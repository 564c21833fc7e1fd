------------------------------ MODULE Session ------------------------------
(***************************************************************************)
(* Users, their sessions in Redis and the cookies that name them: Signup,  *)
(* Login, Refresh, and the Auth middleware in front of every other route.  *)
(*                                                                         *)
(* A Login or Refresh is sent with the cookie and from the address its      *)
(* browser has then; it is served in steps, one for each answer of Postgres *)
(* or Redis, while the browser sends others, and time passes.  One that is  *)
(* refused changes nothing: it is a Fail.  Auth changes nothing at all.     *)
(***************************************************************************)
EXTENDS Naturals

CONSTANTS Requests,   \* requests that can be under way at a time
          Browsers,
          Names, Passwords, Addresses,
          Tokens,     \* bounds the session ids
          None,       \* no name, password, token, session, ...
          MaxAge,     \* the length of a session
          Delay,      \* the longest a step on the way to a new session takes
          MaxTime     \* bounds the clock

ASSUME SessionAssumption ==
  /\ None \notin Names \cup Passwords \cup Tokens \cup Browsers \cup Addresses \cup Nat
  /\ None \notin [user : Names, ip : Addresses, until : Nat]
  /\ MaxAge \in Nat \ {0} /\ Delay \in Nat /\ MaxTime \in Nat

VARIABLES
  now,
  row,       \* row[n]: the password of n in table users
  sess,      \* sess[t]: the item in Redis, and when it expires
  cookie,    \* cookie[b]: the id of a session, and Expires
  req,       \* req[r]: a request, and how far the server has got with it
  proved,    \* ghost: proved[n][a]: when a last showed n's password, or refreshed
  loggedIn,  \* ghost: loggedIn[b]: whom the last successful Login was for
  overlap    \* ghost: overlap[b]: ... and other requests were under way then

vars == <<now, row, sess, cookie, req, proved, loggedIn, overlap>>

-----------------------------------------------------------------------------
Item == [user : Names, ip : Addresses, until : Nat]

NoCookie == [token |-> None, expires |-> 0]

(* A request's pc: "sent"; "start", about to start a session; "answer", about
   to set the cookie; "reply", on its way back.
   at is when it got to "start" or "answer", and the Expires of a reply. *)
NoRequest == [pc |-> "idle", kind |-> "none", browser |-> None, ip |-> None,
              user |-> None, pass |-> None, token |-> None, at |-> 0]

Mut_AnyAddress(t, a) == sess[t] # None /\ now < sess[t].until

(* Session.GetUser finds t's item, from the same address: Auth lets a request
   with this cookie through, and Refresh starts a new session. *)
Valid(t, a) == sess[t] # None /\ now < sess[t].until /\ sess[t].ip = a

Init == /\ now = 0
        /\ row = [n \in Names |-> None]
        /\ sess = [t \in Tokens |-> None]
        /\ cookie = [b \in Browsers |-> NoCookie]
        /\ req = [r \in Requests |-> NoRequest]
        /\ proved = [n \in Names |-> [a \in Addresses |-> None]]
        /\ loggedIn = [b \in Browsers |-> None]
        /\ overlap = [b \in Browsers |-> FALSE]

(* PersistUser: one statement, which does nothing to a name that is taken. *)
Signup(n) ==
  /\ row[n] = None
  /\ \E p \in Passwords : row' = [row EXCEPT ![n] = p]
  /\ UNCHANGED <<now, sess, cookie, req, proved, loggedIn, overlap>>

(* A browser sends a Login with any credentials or, as long as it has a
   cookie, a Refresh, from the address it has at the moment. *)
Send(r, b) ==
  /\ req[r].pc = "idle"
  /\ \E a \in Addresses :
       \/ \E n \in Names, p \in Passwords :
            req' = [req EXCEPT ![r] =
                      [pc |-> "sent", kind |-> "login", browser |-> b, ip |-> a,
                       user |-> n, pass |-> p, token |-> None, at |-> 0]]
       \/ /\ now < cookie[b].expires
          /\ req' = [req EXCEPT ![r] =
                       [pc |-> "sent", kind |-> "refresh", browser |-> b, ip |-> a,
                        user |-> None, pass |-> None, token |-> cookie[b].token,
                        at |-> 0]]
  /\ UNCHANGED <<now, row, sess, cookie, proved, loggedIn, overlap>>

(* The request at its next step. *)
Moved(r, pc, user, token, at) ==
  [pc |-> pc, kind |-> req[r].kind, browser |-> req[r].browser, ip |-> req[r].ip,
   user |-> user, pass |-> None, token |-> token, at |-> at]

(* The password of Login is compared with the one in the store. *)
Login(r) ==
  /\ req[r].pc = "sent" /\ req[r].kind = "login"
  /\ row[req[r].user] = req[r].pass
  /\ req' = [req EXCEPT ![r] = Moved(r, "start", req[r].user, None, now)]
  /\ proved' = [proved EXCEPT ![req[r].user][req[r].ip] = now]
  /\ UNCHANGED <<now, row, sess, cookie, loggedIn, overlap>>

Mut_CookieOnly(r) ==
  /\ req[r].pc = "sent" /\ req[r].kind = "refresh"
  /\ Valid(req[r].token, req[r].ip)
  /\ req' = [req EXCEPT ![r] = Moved(r, "answer", sess[req[r].token].user, req[r].token, now)]
  /\ proved' = [proved EXCEPT ![sess[req[r].token].user][req[r].ip] = now]
  /\ UNCHANGED <<now, row, sess, cookie, loggedIn, overlap>>

Mut_UserForgotten(r) ==
  /\ req[r].pc = "sent" /\ req[r].kind = "refresh"
  /\ Valid(req[r].token, req[r].ip)
  /\ req' = [req EXCEPT ![r] = Moved(r, "start", None, None, now)]
  /\ proved' = [proved EXCEPT ![sess[req[r].token].user][req[r].ip] = now]
  /\ UNCHANGED <<now, row, sess, cookie, loggedIn, overlap>>

(* Refresh finds the session of the cookie; it leaves it as it is. *)
Refresh(r) ==
  /\ req[r].pc = "sent" /\ req[r].kind = "refresh"
  /\ Valid(req[r].token, req[r].ip)
  /\ req' = [req EXCEPT ![r] = Moved(r, "start", sess[req[r].token].user, None, now)]
  /\ proved' = [proved EXCEPT ![sess[req[r].token].user][req[r].ip] = now]
  /\ UNCHANGED <<now, row, sess, cookie, loggedIn, overlap>>

Opened(r) == [user |-> req[r].user, ip |-> req[r].ip, until |-> now + MaxAge]

Mut_IdReused(r) ==
  /\ req[r].pc = "start"
  /\ \E t \in Tokens :
       /\ sess' = [sess EXCEPT ![t] = Opened(r)]
       /\ req' = [req EXCEPT ![r] = Moved(r, "answer", req[r].user, t, now)]
  /\ UNCHANGED <<now, row, cookie, proved, loggedIn, overlap>>

(* Session.Start: a new id, and an item that Redis drops after MaxAge. *)
Start(r) ==
  /\ req[r].pc = "start"
  /\ \E t \in Tokens :
       /\ sess[t] = None
       /\ sess' = [sess EXCEPT ![t] = Opened(r)]
       /\ req' = [req EXCEPT ![r] = Moved(r, "answer", req[r].user, t, now)]
  /\ UNCHANGED <<now, row, cookie, proved, loggedIn, overlap>>

(* setCookie: Expires is reckoned from after Redis has answered. *)
SetCookie(r) ==
  /\ req[r].pc = "answer"
  /\ req' = [req EXCEPT ![r] = Moved(r, "reply", req[r].user, req[r].token, now + MaxAge)]
  /\ UNCHANGED <<now, row, sess, cookie, proved, loggedIn, overlap>>

(* The browser gets the answer, in whatever order answers arrive. *)
Receive(r) ==
  /\ req[r].pc = "reply"
  /\ LET b == req[r].browser
     IN  /\ cookie' = [cookie EXCEPT ![b] = [token |-> req[r].token, expires |-> req[r].at]]
         /\ IF req[r].kind = "login"
              THEN /\ loggedIn' = [loggedIn EXCEPT ![b] = req[r].user]
                   /\ overlap' = [overlap EXCEPT ![b] =
                        \E q \in Requests \ {r} :
                          req[q].browser = b /\ req[q].pc # "idle"]
              ELSE UNCHANGED <<loggedIn, overlap>>
  /\ req' = [req EXCEPT ![r] = NoRequest]
  /\ UNCHANGED <<now, row, sess, proved>>

(* A request is refused, fails, or its answer is lost; Start may fail when
   only the answer of Redis was lost. *)
Fail(r) ==
  /\ req[r].pc # "idle"
  /\ \/ UNCHANGED sess
     \/ /\ req[r].pc = "start"
        /\ \E t \in Tokens : sess[t] = None /\ sess' = [sess EXCEPT ![t] = Opened(r)]
  /\ req' = [req EXCEPT ![r] = NoRequest]
  /\ UNCHANGED <<now, row, cookie, proved, loggedIn, overlap>>

(* The server dies. *)
Crash ==
  /\ \E r \in Requests : req[r].pc # "idle"
  /\ req' = [r \in Requests |-> NoRequest]
  /\ UNCHANGED <<now, row, sess, cookie, proved, loggedIn, overlap>>

(* Redis restarts, and what it held is lost (it has no volume in compose.yaml). *)
RedisRestart ==
  /\ sess' = [t \in Tokens |-> IF sess[t] = None THEN None
                                 ELSE [sess[t] EXCEPT !.until = 0]]
  /\ UNCHANGED <<now, row, cookie, req, proved, loggedIn, overlap>>

(* Redis answers or its client gives up. *)
Tick ==
  /\ now < MaxTime
  /\ \A r \in Requests : req[r].pc \in {"start", "answer"} => now < req[r].at + Delay
  /\ now' = now + 1
  /\ UNCHANGED <<row, sess, cookie, req, proved, loggedIn, overlap>>

Next == \/ \E n \in Names : Signup(n)
        \/ \E r \in Requests : \/ \E b \in Browsers : Send(r, b)
                               \/ Login(r) \/ Refresh(r)
                               \/ Start(r) \/ SetCookie(r) \/ Receive(r) \/ Fail(r)
        \/ Crash \/ RedisRestart \/ Tick

Spec == Init /\ [][Next]_vars

-----------------------------------------------------------------------------
(* Types, and a request past its check has the user it acts for. *)
TypeOK ==
  /\ now \in Nat
  /\ row \in [Names -> Passwords \cup {None}]
  /\ sess \in [Tokens -> Item \cup {None}]
  /\ cookie \in [Browsers -> [token : Tokens \cup {None}, expires : Nat]]
  /\ req \in [Requests -> [pc : {"idle", "sent", "start", "answer", "reply"},
                           kind : {"none", "login", "refresh"},
                           browser : Browsers \cup {None}, ip : Addresses \cup {None},
                           user : Names \cup {None},
                           pass : Passwords \cup {None}, token : Tokens \cup {None},
                           at : Nat]]
  /\ proved \in [Names -> [Addresses -> Nat \cup {None}]]
  /\ loggedIn \in [Browsers -> Names \cup {None}]
  /\ overlap \in [Browsers -> BOOLEAN]
  /\ \A r \in Requests : req[r].pc \in {"start", "answer", "reply"}
                           => req[r].user \in Names

(* A cookie that Auth accepts from an address, as n's, goes back to a proof
   from that address: n's password was shown there, or a session refreshed
   that goes back to it, no longer ago than a session lasts, and the time it
   took to open it. *)
ActsOnProof ==
  \A t \in Tokens, a \in Addresses :
    Valid(t, a) => LET last == proved[sess[t].user][a]
                   IN  last # None /\ now < last + MaxAge + Delay

(* A cookie that will not expire within Delay names a session that is there,
   unless Redis was restarted. *)
CookieServed ==
  \A b \in Browsers :
    now + Delay < cookie[b].expires
      => LET s == sess[cookie[b].token]
         IN  s # None /\ (now < s.until \/ s.until = 0)

(* The session a browser is in belongs to whom it last logged in, however the
   answers to its requests arrive, unless some were under way at that time. *)
LoginSticks ==
  \A b \in Browsers :
    cookie[b] # NoCookie /\ ~overlap[b] => sess[cookie[b].token].user = loggedIn[b]
=============================================================================
