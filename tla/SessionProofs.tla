---------------------------- MODULE SessionProofs ----------------------------
(***************************************************************************)
(* Theorems about Session, for any number of requests, browsers, users and *)
(* addresses, every length of a session and every delay.                   *)
(***************************************************************************)
EXTENDS Session, TLAPS

(* What a request carries at each of its steps. *)
RequestInv(r) ==
  LET q == req[r]
  IN  /\ q.pc # "idle" => /\ q.kind \in {"login", "refresh"}
                          /\ q.browser \in Browsers /\ q.ip \in Addresses
      /\ q.pc = "sent" /\ q.kind = "login" => q.user \in Names
      /\ q.pc = "sent" /\ q.kind = "refresh" => q.token \in Tokens /\ sess[q.token] # None
      /\ q.pc \in {"start", "answer"} => q.at <= now /\ now <= q.at + Delay
      /\ q.pc = "start" => /\ proved[q.user][q.ip] # None
                           /\ q.at <= proved[q.user][q.ip]
      /\ q.pc \in {"answer", "reply"} => /\ q.token \in Tokens /\ sess[q.token] # None
                                         /\ sess[q.token].user = q.user
      /\ q.pc = "answer" => sess[q.token].until \in {0, q.at + MaxAge}
      /\ q.pc = "reply" => sess[q.token].until = 0 \/ q.at <= sess[q.token].until + Delay

(* A proof is not in the future, and a session ends soon after its proof. *)
ProofInv ==
  /\ \A n \in Names, a \in Addresses : proved[n][a] # None => proved[n][a] <= now
  /\ \A t \in Tokens :
       sess[t] # None => LET last == proved[sess[t].user][sess[t].ip]
                         IN  last # None /\ sess[t].until <= last + MaxAge + Delay

(* A cookie expires soon after its session, if not before. *)
CookieInv(b) ==
  \/ cookie[b] = NoCookie
  \/ /\ cookie[b].token \in Tokens
     /\ LET s == sess[cookie[b].token]
        IN  s # None /\ (s.until = 0 \/ cookie[b].expires <= s.until + Delay)

(* Unless there was an overlap, all that can still reach the browser belongs
   to whom it logged in. *)
StickInv(b) ==
  ~overlap[b] =>
    /\ cookie[b] # NoCookie => sess[cookie[b].token].user = loggedIn[b]
    /\ \A r \in Requests :
         req[r].browser = b /\ req[r].kind = "refresh" =>
           /\ req[r].pc = "sent" => sess[req[r].token].user = loggedIn[b]
           /\ req[r].pc \in {"start", "answer", "reply"} => req[r].user = loggedIn[b]

SessionInv ==
  /\ TypeOK
  /\ \A r \in Requests : RequestInv(r)
  /\ ProofInv
  /\ \A b \in Browsers : CookieInv(b) /\ StickInv(b)
USE SessionAssumption

LEMMA SessionInit == Init => SessionInv
<1> SUFFICES ASSUME Init PROVE SessionInv
  OBVIOUS
<1>1. TypeOK
  BY DEF Init, TypeOK, NoCookie, NoRequest
<1>2. ProofInv
  BY DEF Init, ProofInv
<1>3. \A r \in Requests : RequestInv(r)
  BY DEF Init, RequestInv, NoRequest
<1>4. \A b \in Browsers : CookieInv(b) /\ StickInv(b)
  BY DEF Init, CookieInv, StickInv, NoRequest
<1> QED BY <1>1, <1>2, <1>3, <1>4 DEF SessionInv

(* Sessions stay whose they are; they only end. *)
Continued(t) ==
  sess[t] # None => /\ sess'[t] # None
                    /\ sess'[t].user = sess[t].user /\ sess'[t].ip = sess[t].ip
                    /\ sess'[t].until \in {sess[t].until, 0}

(* A request that has not moved is as it was, whatever happened to sessions. *)
LEMMA RequestKept ==
  ASSUME SessionInv, NEW r \in Requests, req'[r] = req[r],
         \A t \in Tokens : Continued(t), UNCHANGED now,
         \A n \in Names, a \in Addresses : proved'[n][a] \in {proved[n][a], now}
  PROVE  RequestInv(r)'
<1>1. RequestInv(r) /\ now \in Nat /\ req[r].at \in Nat
  BY DEF SessionInv, TypeOK
<1>2. req[r].pc = "start" => req[r].user \in Names /\ req[r].ip \in Addresses
  BY <1>1 DEF SessionInv, TypeOK, RequestInv
<1>3. req[r].token \in Tokens /\ sess[req[r].token] # None
        => sess[req[r].token] \in Item
  BY DEF SessionInv, TypeOK
<1> QED BY <1>1, <1>2, <1>3 DEF RequestInv, Continued, Item

(* A cookie that has not changed still expires soon after its session. *)
LEMMA CookieKept ==
  ASSUME SessionInv, NEW b \in Browsers,
         \A t \in Tokens : Continued(t), cookie'[b] = cookie[b]
  PROVE  CookieInv(b)'
<1>1. CookieInv(b)
  BY DEF SessionInv
<1>2. cookie[b].token \in Tokens /\ sess[cookie[b].token] # None
        => sess[cookie[b].token] \in Item
  BY DEF SessionInv, TypeOK
<1>3. cookie[b].expires \in Nat
  BY DEF SessionInv, TypeOK
<1> QED BY <1>1, <1>2, <1>3 DEF CookieInv, Continued, Item

Request == [pc : {"idle", "sent", "start", "answer", "reply"},
            kind : {"none", "login", "refresh"},
            browser : Browsers \cup {None}, ip : Addresses \cup {None},
            user : Names \cup {None}, pass : Passwords \cup {None},
            token : Tokens \cup {None}, at : Nat]

LEMMA OneRequestTypes ==
  ASSUME TypeOK, NEW r \in Requests, NEW q \in Request, req' = [req EXCEPT ![r] = q],
         q.pc \in {"start", "answer", "reply"} => q.user \in Names,
         UNCHANGED <<row, now>>, cookie' \in [Browsers -> [token : Tokens \cup {None}, expires : Nat]],
         sess' \in [Tokens -> Item \cup {None}],
         proved' \in [Names -> [Addresses -> Nat \cup {None}]],
         loggedIn' \in [Browsers -> Names \cup {None}], overlap' \in [Browsers -> BOOLEAN]
  PROVE  TypeOK'
BY DEF TypeOK, Request

LEMMA MovedTypes ==
  ASSUME TypeOK, NEW r \in Requests, NEW pc \in {"start", "answer", "reply"},
         NEW user \in Names, NEW token \in Tokens \cup {None}, NEW at \in Nat
  PROVE  Moved(r, pc, user, token, at) \in Request
BY DEF TypeOK, Request, Moved

LEMMA TypeStep == SessionInv /\ [Next]_vars => TypeOK'
<1> SUFFICES ASSUME SessionInv, [Next]_vars PROVE TypeOK'
  OBVIOUS
<1>1. TypeOK /\ \A r \in Requests : RequestInv(r) /\ req[r] \in Request
  BY DEF SessionInv, TypeOK, Request
<1>2. NoRequest \in Request
  BY DEF NoRequest, Request
<1>3. ASSUME NEW n \in Names, Signup(n) PROVE TypeOK'
  BY <1>1, <1>3 DEF Signup, TypeOK
<1>4. ASSUME NEW r \in Requests, NEW b \in Browsers, Send(r, b) PROVE TypeOK'
  <2>1. PICK q \in Request : req' = [req EXCEPT ![r] = q] /\ q.pc = "sent"
    BY <1>1, <1>4 DEF Send, TypeOK, Request
  <2> QED BY <1>1, <1>4, <2>1, OneRequestTypes DEF Send, TypeOK
<1>5. ASSUME NEW r \in Requests, Login(r) PROVE TypeOK'
  <2> DEFINE q == Moved(r, "start", req[r].user, None, now)
  <2>1. proved' \in [Names -> [Addresses -> Nat \cup {None}]]
    BY <1>1, <1>5 DEF Login, TypeOK
  <2>2. req[r].user \in Names /\ now \in Nat
    BY <1>1, <1>5 DEF Login, TypeOK, RequestInv
  <2>3. q \in Request /\ q.user \in Names
    BY <1>1, <2>2, MovedTypes DEF Moved
  <2> QED BY <1>1, <1>5, <2>1, <2>3, OneRequestTypes DEF Login, TypeOK
<1>6. ASSUME NEW r \in Requests, Refresh(r) PROVE TypeOK'
  <2> DEFINE u == sess[req[r].token].user
             q == Moved(r, "start", u, None, now)
  <2>1. proved' \in [Names -> [Addresses -> Nat \cup {None}]]
    BY <1>1, <1>6 DEF Refresh, TypeOK
  <2>2. u \in Names /\ now \in Nat
    BY <1>1, <1>6 DEF Refresh, TypeOK, RequestInv, Item
  <2>3. q \in Request /\ q.user \in Names
    BY <1>1, <2>2, MovedTypes DEF Moved
  <2> QED BY <1>1, <1>6, <2>1, <2>3, OneRequestTypes DEF Refresh, TypeOK
<1>7. ASSUME NEW r \in Requests, req[r].pc = "start" PROVE Opened(r) \in Item
  BY <1>1, <1>7 DEF Opened, Item, TypeOK, RequestInv
<1>8. ASSUME NEW r \in Requests, Start(r) PROVE TypeOK'
  <2>1. PICK t \in Tokens :
               /\ sess' = [sess EXCEPT ![t] = Opened(r)]
               /\ req' = [req EXCEPT ![r] = Moved(r, "answer", req[r].user, t, now)]
    BY <1>8 DEF Start
  <2> DEFINE q == Moved(r, "answer", req[r].user, t, now)
  <2>2. req[r].user \in Names /\ now \in Nat
    BY <1>1, <1>8 DEF Start, TypeOK
  <2>3. q \in Request /\ q.user \in Names
    BY <1>1, <2>2, MovedTypes DEF Moved
  <2> QED BY <1>1, <1>7, <1>8, <2>1, <2>3, OneRequestTypes DEF Start, TypeOK
<1>9. ASSUME NEW r \in Requests, SetCookie(r) PROVE TypeOK'
  <2> DEFINE q == Moved(r, "reply", req[r].user, req[r].token, now + MaxAge)
  <2>1. req[r].user \in Names /\ req[r].token \in Tokens /\ now + MaxAge \in Nat
    BY <1>1, <1>9 DEF SetCookie, TypeOK, RequestInv
  <2>2. q \in Request /\ q.user \in Names
    BY <1>1, <2>1, MovedTypes DEF Moved
  <2> QED BY <1>1, <1>9, <2>2, OneRequestTypes DEF SetCookie, TypeOK
<1>10. ASSUME NEW r \in Requests, Receive(r) PROVE TypeOK'
  <2>1. cookie' \in [Browsers -> [token : Tokens \cup {None}, expires : Nat]]
    BY <1>1, <1>10 DEF Receive, TypeOK, RequestInv
  <2>2. loggedIn' \in [Browsers -> Names \cup {None}] /\ overlap' \in [Browsers -> BOOLEAN]
    BY <1>1, <1>10 DEF Receive, TypeOK, RequestInv
  <2>3. NoRequest.pc = "idle"
    BY DEF NoRequest
  <2> QED BY <1>1, <1>2, <1>10, <2>1, <2>2, <2>3, OneRequestTypes DEF Receive, TypeOK
<1>11. ASSUME NEW r \in Requests, Fail(r) PROVE TypeOK'
  <2>1. sess' \in [Tokens -> Item \cup {None}]
    BY <1>1, <1>7, <1>11 DEF Fail, TypeOK
  <2>2. NoRequest.pc = "idle"
    BY DEF NoRequest
  <2> QED BY <1>1, <1>2, <1>11, <2>1, <2>2, OneRequestTypes DEF Fail, TypeOK
<1>12. CASE Crash
  BY <1>1, <1>12 DEF Crash, TypeOK, NoRequest
<1>13. CASE RedisRestart
  BY <1>1, <1>13 DEF RedisRestart, TypeOK, Item
<1>14. CASE Tick
  BY <1>1, <1>14 DEF Tick, TypeOK
<1>15. CASE UNCHANGED vars
  BY <1>1, <1>15 DEF vars, TypeOK
<1> QED BY <1>3, <1>4, <1>5, <1>6, <1>8, <1>9, <1>10, <1>11, <1>12, <1>13, <1>14, <1>15
        DEF Next

LEMMA SessionsContinue ==
  ASSUME SessionInv, [Next]_vars, NEW t \in Tokens
  PROVE  Continued(t)
<1>1. sess[t] = None \/ sess[t] \in Item
  BY DEF SessionInv, TypeOK
<1>2. CASE UNCHANGED sess
  BY <1>1, <1>2 DEF Continued, Item
<1>3. CASE RedisRestart
  BY <1>1, <1>3 DEF RedisRestart, Continued, Item
<1>4. ASSUME NEW r \in Requests, NEW s \in Tokens, sess[s] = None,
             sess' = [sess EXCEPT ![s] = Opened(r)]
      PROVE  Continued(t)
  BY <1>1, <1>4 DEF Continued, Item, SessionInv, TypeOK
<1>5. \/ UNCHANGED sess \/ RedisRestart
      \/ \E r \in Requests, s \in Tokens :
           sess[s] = None /\ sess' = [sess EXCEPT ![s] = Opened(r)]
  BY DEF Next, vars, Signup, Send, Login, Refresh, Start, SetCookie, Receive, Fail,
         Crash, Tick
<1> QED BY <1>2, <1>3, <1>4, <1>5

(* What the steps do to the requests: one of them moves at most. *)
LEMMA RequestsStep ==
  ASSUME SessionInv, [Next]_vars, NEW r \in Requests
  PROVE  RequestInv(r)'
<1>1. TypeOK /\ RequestInv(r) /\ req[r] \in Request /\ now \in Nat
  BY DEF SessionInv, TypeOK, Request
<1>2. \A t \in Tokens : Continued(t)
  BY SessionsContinue
<1>3. \A t \in Tokens : sess[t] = None \/ sess[t] \in Item
  BY <1>1 DEF TypeOK
<1>4. ASSUME req'[r] = req[r], UNCHANGED <<now, proved>> PROVE RequestInv(r)'
  BY <1>1, <1>2, <1>4, RequestKept DEF TypeOK
<1>5. ASSUME req'[r] = NoRequest PROVE RequestInv(r)'
  BY <1>5 DEF RequestInv, NoRequest
<1>6. ASSUME NEW n \in Names, Signup(n) PROVE RequestInv(r)'
  BY <1>4, <1>6 DEF Signup
<1>7. ASSUME NEW q \in Requests, NEW b \in Browsers, Send(q, b) PROVE RequestInv(r)'
  <2>1. CASE q = r
    <3>1. \/ cookie[b].token \in Tokens /\ sess[cookie[b].token] # None
          \/ cookie[b].expires = 0
      BY DEF SessionInv, CookieInv, NoCookie
    <3> QED BY <1>1, <1>7, <2>1, <3>1 DEF Send, RequestInv, TypeOK
  <2>2. CASE q # r
    <3>1. req'[r] = req[r] /\ UNCHANGED <<now, proved>>
      BY <1>1, <1>7, <2>2 DEF Send, TypeOK
    <3> QED BY <1>4, <3>1
  <2> QED BY <2>1, <2>2
<1>8. ASSUME NEW q \in Requests, Login(q) PROVE RequestInv(r)'
  <2>1. CASE q = r
    <3>1. req[r].user \in Names /\ req[r].ip \in Addresses /\ req[r].kind \in {"login", "refresh"}
          /\ req[r].browser \in Browsers
      BY <1>1, <1>8, <2>1 DEF Login, RequestInv
    <3>2. req'[r] = Moved(r, "start", req[r].user, None, now)
      BY <1>1, <1>8, <2>1 DEF Login, TypeOK
    <3>3. proved'[req[r].user][req[r].ip] = now /\ now' = now
      BY <1>1, <1>8, <2>1, <3>1 DEF Login, TypeOK
    <3> QED BY <1>1, <3>1, <3>2, <3>3 DEF RequestInv, Moved
  <2>2. CASE q # r
    <3>1. \A n \in Names, a \in Addresses : proved'[n][a] \in {proved[n][a], now}
      BY <1>1, <1>8 DEF Login, TypeOK
    <3> QED BY <1>1, <1>2, <1>8, <2>2, <3>1, RequestKept DEF Login
  <2> QED BY <2>1, <2>2
<1>9. ASSUME NEW q \in Requests, Refresh(q) PROVE RequestInv(r)'
  <2> DEFINE u == sess[req[q].token].user
  <2>1. CASE q = r
    <3>1. u \in Names /\ req[r].ip \in Addresses /\ req[r].kind \in {"login", "refresh"}
          /\ req[r].browser \in Browsers
      BY <1>1, <1>3, <1>9, <2>1 DEF Refresh, RequestInv, Item
    <3>2. req'[r] = Moved(r, "start", u, None, now)
      BY <1>1, <1>9, <2>1 DEF Refresh, TypeOK
    <3>3. proved'[u][req[r].ip] = now /\ now' = now
      BY <1>1, <1>9, <2>1, <3>1 DEF Refresh, TypeOK
    <3> QED BY <1>1, <3>1, <3>2, <3>3 DEF RequestInv, Moved
  <2>2. CASE q # r
    <3>1. \A n \in Names, a \in Addresses : proved'[n][a] \in {proved[n][a], now}
      BY <1>1, <1>9 DEF Refresh, TypeOK
    <3> QED BY <1>1, <1>2, <1>9, <2>2, <3>1, RequestKept DEF Refresh
  <2> QED BY <2>1, <2>2
<1>10. ASSUME NEW q \in Requests, Start(q) PROVE RequestInv(r)'
  <2>1. CASE q = r
    <3>1. PICK t \in Tokens :
                 /\ sess' = [sess EXCEPT ![t] = Opened(r)]
                 /\ req' = [req EXCEPT ![r] = Moved(r, "answer", req[r].user, t, now)]
      BY <1>10, <2>1 DEF Start
    <3>2. req'[r] = Moved(r, "answer", req[r].user, t, now) /\ sess'[t] = Opened(r)
      BY <1>1, <3>1 DEF TypeOK
    <3>3. Opened(r) # None /\ now' = now /\ req[r].pc = "start"
      BY <1>1, <1>10, <2>1 DEF Start, Opened, TypeOK, RequestInv
    <3> QED BY <1>1, <3>2, <3>3 DEF RequestInv, Moved, Opened
  <2>2. CASE q # r
    BY <1>4, <1>10, <2>2 DEF Start
  <2> QED BY <2>1, <2>2
<1>11. ASSUME NEW q \in Requests, SetCookie(q) PROVE RequestInv(r)'
  <2>1. CASE q = r
    <3>1. req'[r] = Moved(r, "reply", req[r].user, req[r].token, now + MaxAge)
      BY <1>1, <1>11, <2>1 DEF SetCookie, TypeOK
    <3>2. UNCHANGED <<now, sess, proved>> /\ req[r].pc = "answer" /\ req[r].at \in Nat
      BY <1>1, <1>11, <2>1 DEF SetCookie, Request
    <3> QED BY <1>1, <3>1, <3>2 DEF RequestInv, Moved
  <2>2. CASE q # r
    BY <1>4, <1>11, <2>2 DEF SetCookie
  <2> QED BY <2>1, <2>2
<1>12. ASSUME NEW q \in Requests, Receive(q) PROVE RequestInv(r)'
  BY <1>1, <1>4, <1>5, <1>12 DEF Receive, TypeOK
<1>13. ASSUME NEW q \in Requests, Fail(q) PROVE RequestInv(r)'
  BY <1>1, <1>4, <1>5, <1>13 DEF Fail, TypeOK
<1>14. CASE Crash
  BY <1>5, <1>14 DEF Crash
<1>15. CASE RedisRestart
  BY <1>4, <1>15 DEF RedisRestart
<1>16. CASE Tick
  BY <1>1, <1>16 DEF Tick, RequestInv, Request
<1>17. CASE UNCHANGED vars
  BY <1>4, <1>17 DEF vars
<1> QED BY <1>6, <1>7, <1>8, <1>9, <1>10, <1>11, <1>12, <1>13, <1>14, <1>15, <1>16, <1>17
        DEF Next

(* Proofs are never forgotten, and a new session has a recent one. *)
LEMMA ProofStep ==
  ASSUME SessionInv, [Next]_vars
  PROVE  ProofInv'
<1>1. TypeOK /\ ProofInv /\ \A r \in Requests : RequestInv(r)
  BY DEF SessionInv
<1>2. \A t \in Tokens : sess[t] = None \/ sess[t] \in Item
  BY <1>1 DEF TypeOK
<1>3. ASSUME now' \in Nat, now <= now',
             \A t \in Tokens : sess[t] # None => Continued(t),
             \A t \in Tokens : sess'[t] # None /\ sess[t] = None =>
               /\ sess'[t] \in Item
               /\ LET last == proved[sess'[t].user][sess'[t].ip]
                  IN  last # None /\ sess'[t].until <= last + MaxAge + Delay,
             \A n \in Names, a \in Addresses : proved'[n][a] \in {proved[n][a], now}
      PROVE  ProofInv'
  <2>1. ASSUME NEW n \in Names, NEW a \in Addresses, proved'[n][a] # None
        PROVE  proved'[n][a] <= now'
    <3>1. proved[n][a] # None => proved[n][a] <= now
      BY <1>1 DEF ProofInv
    <3>2. now \in Nat /\ proved[n][a] \in Nat \cup {None}
      BY <1>1 DEF TypeOK
    <3> QED BY <1>3, <2>1, <3>1, <3>2
  <2>2. ASSUME NEW t \in Tokens, sess'[t] # None
        PROVE  LET last == proved'[sess'[t].user][sess'[t].ip]
               IN  last # None /\ sess'[t].until <= last + MaxAge + Delay
    <3> DEFINE n == sess'[t].user
               a == sess'[t].ip
    <3>1. n \in Names /\ a \in Addresses /\ sess'[t].until \in Nat
      BY <1>2, <1>3, <2>2 DEF Continued, Item
    <3>2. proved[n][a] # None /\ sess'[t].until <= proved[n][a] + MaxAge + Delay
      <4>1. CASE sess[t] = None
        BY <1>3, <2>2, <4>1
      <4>2. CASE sess[t] # None
        <5>1. sess[t].user = n /\ sess[t].ip = a /\ sess'[t].until \in {sess[t].until, 0}
          BY <1>3, <4>2 DEF Continued
        <5>2. proved[n][a] # None /\ sess[t].until <= proved[n][a] + MaxAge + Delay
          BY <1>1, <4>2, <5>1 DEF ProofInv
        <5>3. proved[n][a] \in Nat
          BY <1>1, <3>1, <5>2 DEF TypeOK
        <5> QED BY <5>1, <5>2, <5>3
      <4> QED BY <4>1, <4>2
    <3>3. proved[n][a] \in Nat /\ now \in Nat /\ proved[n][a] <= now
      BY <1>1, <3>1, <3>2 DEF TypeOK, ProofInv
    <3>4. proved'[n][a] \in {proved[n][a], now}
      BY <1>3, <3>1
    <3> QED BY <3>1, <3>2, <3>3, <3>4
  <2> QED BY <2>1, <2>2 DEF ProofInv
<1>4. \A t \in Tokens : Continued(t)
  BY SessionsContinue
<1>5. ASSUME NEW r \in Requests, req[r].pc = "start"
      PROVE  /\ Opened(r) \in Item
             /\ LET last == proved[Opened(r).user][Opened(r).ip]
                IN  last # None /\ Opened(r).until <= last + MaxAge + Delay
  <2> DEFINE last == proved[req[r].user][req[r].ip]
  <2>1. req[r].user \in Names /\ req[r].ip \in Addresses /\ now \in Nat /\ req[r].at \in Nat
    BY <1>1, <1>5 DEF TypeOK, RequestInv
  <2>2. last # None /\ req[r].at <= last /\ now <= req[r].at + Delay
    BY <1>1, <1>5 DEF RequestInv
  <2>3. last \in Nat
    BY <1>1, <2>1, <2>2 DEF TypeOK
  <2> QED BY <2>1, <2>2, <2>3 DEF Opened, Item
<1>6. now \in Nat
  BY <1>1 DEF TypeOK
<1>7. ASSUME UNCHANGED <<sess, proved>>, now' \in {now, now + 1} PROVE ProofInv'
  BY <1>3, <1>4, <1>6, <1>7
<1>8. ASSUME NEW r \in Requests, req[r].pc = "start", UNCHANGED <<now, proved>>,
             NEW t \in Tokens, sess' = [sess EXCEPT ![t] = Opened(r)]
      PROVE  ProofInv'
  <2>1. \A s \in Tokens : sess'[s] # None /\ sess[s] = None => sess'[s] = Opened(r)
    BY <1>1, <1>8 DEF TypeOK
  <2> QED BY <1>3, <1>4, <1>5, <1>6, <1>8, <2>1
<1>9. ASSUME NEW n \in Names, Signup(n) PROVE ProofInv'
  BY <1>7, <1>9 DEF Signup
<1>10. ASSUME NEW r \in Requests, NEW b \in Browsers, Send(r, b) PROVE ProofInv'
  BY <1>7, <1>10 DEF Send
<1>11. ASSUME NEW r \in Requests, Login(r) \/ Refresh(r) PROVE ProofInv'
  <2>1. \A n \in Names, a \in Addresses : proved'[n][a] \in {proved[n][a], now}
    <3>1. CASE Login(r)
      BY <1>1, <3>1 DEF Login, TypeOK
    <3>2. CASE Refresh(r)
      BY <1>1, <3>2 DEF Refresh, TypeOK
    <3> QED BY <1>11, <3>1, <3>2
  <2>2. UNCHANGED <<now, sess>>
    BY <1>11 DEF Login, Refresh
  <2> QED BY <1>3, <1>4, <1>6, <2>1, <2>2
<1>12. ASSUME NEW r \in Requests, Start(r) PROVE ProofInv'
  BY <1>8, <1>12 DEF Start
<1>13. ASSUME NEW r \in Requests, SetCookie(r) \/ Receive(r) PROVE ProofInv'
  BY <1>7, <1>13 DEF SetCookie, Receive
<1>14. ASSUME NEW r \in Requests, Fail(r) PROVE ProofInv'
  BY <1>7, <1>8, <1>14 DEF Fail
<1>15. CASE Crash
  BY <1>7, <1>15 DEF Crash
<1>16. CASE RedisRestart
  <2>1. UNCHANGED <<now, proved>> /\ \A t \in Tokens : sess[t] = None => sess'[t] = None
    BY <1>16 DEF RedisRestart
  <2> QED BY <1>3, <1>4, <1>6, <2>1
<1>17. CASE Tick
  BY <1>7, <1>17 DEF Tick
<1>18. CASE UNCHANGED vars
  BY <1>7, <1>18 DEF vars
<1> QED BY <1>9, <1>10, <1>11, <1>12, <1>13, <1>14, <1>15, <1>16, <1>17, <1>18 DEF Next

(* A cookie is set with what its reply carries. *)
LEMMA CookieStep ==
  ASSUME SessionInv, [Next]_vars, NEW b \in Browsers
  PROVE  CookieInv(b)'
<1>1. \A t \in Tokens : Continued(t)
  BY SessionsContinue
<1>2. CASE cookie'[b] = cookie[b]
  BY <1>1, <1>2, CookieKept
<1>3. CASE cookie'[b] # cookie[b]
  <2>1. PICK r \in Requests : Receive(r)
    BY <1>3 DEF Next, vars, Signup, Send, Login, Refresh, Start, SetCookie, Fail, Crash,
                RedisRestart, Tick
  <2>2. cookie'[b] = [token |-> req[r].token, expires |-> req[r].at] /\ UNCHANGED sess
    BY <1>3, <2>1 DEF Receive, SessionInv, TypeOK
  <2>3. RequestInv(r) /\ req[r].pc = "reply"
    BY <2>1 DEF SessionInv, Receive
  <2> QED BY <2>2, <2>3 DEF CookieInv, RequestInv
<1> QED BY <1>2, <1>3

(* A step leaves a browser alone that gets no answer: its login and cookie
   stay, and its requests still belong to whom they belonged. *)
LEMMA StickKept ==
  ASSUME SessionInv, NEW b \in Browsers, \A t \in Tokens : Continued(t),
         cookie'[b] = cookie[b], loggedIn'[b] = loggedIn[b], overlap'[b] = overlap[b],
         ~overlap[b] =>
           \A r \in Requests :
             \/ req'[r] \in {req[r], NoRequest}
             \/ req'[r].browser = b /\ req'[r].kind = "refresh" =>
                  /\ req'[r].pc = "sent" => /\ req'[r].token \in Tokens
                                           /\ sess[req'[r].token] # None
                                           /\ sess[req'[r].token].user = loggedIn[b]
                  /\ req'[r].pc \in {"start", "answer", "reply"}
                        => req'[r].user = loggedIn[b]
  PROVE  StickInv(b)'
<1> SUFFICES ASSUME ~overlap[b] PROVE StickInv(b)'
  BY DEF StickInv
<1>1. StickInv(b) /\ CookieInv(b) /\ \A r \in Requests : RequestInv(r)
  BY DEF SessionInv
<1>2. cookie'[b] # NoCookie => sess'[cookie'[b].token].user = loggedIn'[b]
  BY <1>1 DEF StickInv, CookieInv, Continued
<1>3. ASSUME NEW r \in Requests, req'[r].browser = b, req'[r].kind = "refresh"
      PROVE  /\ req'[r].pc = "sent" => sess'[req'[r].token].user = loggedIn'[b]
             /\ req'[r].pc \in {"start", "answer", "reply"} => req'[r].user = loggedIn'[b]
  <2>1. CASE req'[r] = req[r]
    BY <1>1, <1>3, <2>1 DEF StickInv, RequestInv, Continued
  <2>2. CASE req'[r] = NoRequest
    BY <1>3, <2>2 DEF NoRequest
  <2>3. CASE req'[r] \notin {req[r], NoRequest}
    BY <1>3, <2>3 DEF Continued
  <2> QED BY <2>1, <2>2, <2>3
<1> QED BY <1>2, <1>3 DEF StickInv

LEMMA StickStep ==
  ASSUME SessionInv, [Next]_vars, NEW b \in Browsers
  PROVE  StickInv(b)'
<1>1. TypeOK /\ StickInv(b) /\ CookieInv(b) /\ \A r \in Requests : RequestInv(r)
  BY DEF SessionInv
<1>2. \A t \in Tokens : Continued(t)
  BY SessionsContinue
<1>3. ASSUME UNCHANGED <<cookie, loggedIn, overlap>>,
             \A r \in Requests : req'[r] \in {req[r], NoRequest}
      PROVE  StickInv(b)'
  BY <1>2, <1>3, StickKept
<1>4. ASSUME UNCHANGED <<cookie, loggedIn, overlap>>,
             NEW q \in Requests, \A r \in Requests \ {q} : req'[r] = req[r],
             ~overlap[b] /\ req'[q].browser = b /\ req'[q].kind = "refresh" =>
               /\ req'[q].pc = "sent" => /\ req'[q].token \in Tokens
                                        /\ sess[req'[q].token] # None
                                        /\ sess[req'[q].token].user = loggedIn[b]
               /\ req'[q].pc \in {"start", "answer", "reply"} => req'[q].user = loggedIn[b]
      PROVE  StickInv(b)'
  BY <1>2, <1>4, StickKept
<1>5. ASSUME NEW q \in Requests, NEW c \in Browsers, Send(q, c) PROVE StickInv(b)'
  <2>1. UNCHANGED <<cookie, loggedIn, overlap>> /\ \A r \in Requests \ {q} : req'[r] = req[r]
    BY <1>1, <1>5 DEF Send, TypeOK
  <2>2. ASSUME ~overlap[b], req'[q].browser = b, req'[q].kind = "refresh"
        PROVE  /\ req'[q].pc = "sent" /\ req'[q].token = cookie[b].token
               /\ 0 < cookie[b].expires
    BY <1>1, <1>5, <2>2 DEF Send, TypeOK
  <2>3. 0 < cookie[b].expires => cookie[b] # NoCookie
    BY DEF NoCookie
  <2>4. cookie[b] # NoCookie /\ ~overlap[b]
           => /\ cookie[b].token \in Tokens /\ sess[cookie[b].token] # None
              /\ sess[cookie[b].token].user = loggedIn[b]
    BY <1>1 DEF StickInv, CookieInv
  <2> QED BY <1>4, <2>1, <2>2, <2>3, <2>4
<1>6. ASSUME NEW q \in Requests, NEW pc, NEW user, NEW token, NEW at,
             req' = [req EXCEPT ![q] = Moved(q, pc, user, token, at)]
      PROVE  /\ \A r \in Requests \ {q} : req'[r] = req[r]
             /\ req'[q].pc = pc /\ req'[q].user = user
             /\ req'[q].browser = req[q].browser /\ req'[q].kind = req[q].kind
  BY <1>1, <1>6 DEF TypeOK, Moved
<1>7. ASSUME NEW q \in Requests, Login(q) PROVE StickInv(b)'
  <2>1. /\ UNCHANGED <<cookie, loggedIn, overlap>> /\ req[q].kind = "login"
        /\ req' = [req EXCEPT ![q] = Moved(q, "start", req[q].user, None, now)]
    BY <1>7 DEF Login
  <2>2. req'[q].kind = "login" /\ \A r \in Requests \ {q} : req'[r] = req[r]
    BY <1>6, <2>1
  <2> QED BY <1>4, <2>1, <2>2
<1>8. ASSUME NEW q \in Requests, Refresh(q) PROVE StickInv(b)'
  <2> DEFINE u == sess[req[q].token].user
  <2>1. /\ UNCHANGED <<cookie, loggedIn, overlap>> /\ req[q].kind = "refresh"
        /\ req[q].pc = "sent"
        /\ req' = [req EXCEPT ![q] = Moved(q, "start", u, None, now)]
    BY <1>8 DEF Refresh
  <2>2. /\ req'[q].pc = "start" /\ req'[q].user = u /\ req'[q].browser = req[q].browser
        /\ \A r \in Requests \ {q} : req'[r] = req[r]
    BY <1>1, <2>1 DEF TypeOK, Moved
  <2>3. req[q].browser = b /\ ~overlap[b] => u = loggedIn[b]
    BY <1>1, <2>1 DEF StickInv
  <2> HIDE DEF u
  <2> QED BY <1>4, <2>1, <2>2, <2>3
<1>9. ASSUME NEW q \in Requests, req[q].pc \in {"start", "answer"},
             UNCHANGED <<cookie, loggedIn, overlap>>,
             NEW pc \in {"answer", "reply"}, NEW token, NEW at,
             req' = [req EXCEPT ![q] = Moved(q, pc, req[q].user, token, at)]
      PROVE  StickInv(b)'
  <2>1. /\ req'[q].pc = pc /\ req'[q].user = req[q].user
        /\ req'[q].browser = req[q].browser /\ req'[q].kind = req[q].kind
        /\ \A r \in Requests \ {q} : req'[r] = req[r]
    BY <1>6, <1>9
  <2>2. req[q].browser = b /\ req[q].kind = "refresh" /\ ~overlap[b]
          => req[q].user = loggedIn[b]
    BY <1>1, <1>9 DEF StickInv
  <2> QED BY <1>4, <1>9, <2>1, <2>2
<1>10. ASSUME NEW q \in Requests, Start(q) PROVE StickInv(b)'
  <2>1. PICK t \in Tokens : req' = [req EXCEPT ![q] = Moved(q, "answer", req[q].user, t, now)]
    BY <1>10 DEF Start
  <2> QED BY <1>9, <1>10, <2>1 DEF Start
<1>11. ASSUME NEW q \in Requests, SetCookie(q) PROVE StickInv(b)'
  BY <1>9, <1>11 DEF SetCookie
<1>12. ASSUME NEW q \in Requests, Receive(q) PROVE StickInv(b)'
  <2> DEFINE c == req[q].browser
  <2>1. /\ \A r \in Requests \ {q} : req'[r] = req[r]
        /\ req'[q] = NoRequest /\ req[q].pc = "reply" /\ UNCHANGED sess
    BY <1>1, <1>12 DEF Receive, TypeOK
  <2>2. CASE c # b
    <3>1. cookie'[b] = cookie[b] /\ loggedIn'[b] = loggedIn[b] /\ overlap'[b] = overlap[b]
      BY <1>1, <1>12, <2>2 DEF Receive, TypeOK
    <3> QED BY <1>2, <2>1, <3>1, StickKept
  <2>3. CASE c = b
    <3>1. cookie'[b].token = req[q].token /\ sess[req[q].token].user = req[q].user
      BY <1>1, <1>12, <2>1, <2>3 DEF Receive, TypeOK, RequestInv
    <3>2. CASE req[q].kind = "login"
      <4>1. /\ loggedIn'[b] = req[q].user
            /\ ~overlap'[b] => \A r \in Requests \ {q} :
                                 req[r].browser = b => req[r].pc = "idle"
        BY <1>1, <1>12, <2>3, <3>2 DEF Receive, TypeOK
      <4> QED BY <2>1, <3>1, <4>1 DEF StickInv, NoRequest
    <3>3. CASE req[q].kind # "login"
      <4>1. req[q].kind = "refresh" /\ UNCHANGED <<loggedIn, overlap>>
        BY <1>1, <1>12, <2>1, <3>3 DEF Receive, RequestInv
      <4>2. ~overlap[b] => req[q].user = loggedIn[b]
        BY <1>1, <2>1, <2>3, <4>1 DEF StickInv
      <4> QED BY <1>1, <2>1, <3>1, <4>1, <4>2 DEF StickInv, NoRequest
    <3> QED BY <3>2, <3>3
  <2> QED BY <2>2, <2>3
<1>13. ASSUME NEW q \in Requests, Fail(q) PROVE StickInv(b)'
  <2>1. \A r \in Requests : req'[r] \in {req[r], NoRequest}
    BY <1>1, <1>13 DEF Fail, TypeOK
  <2> QED BY <1>3, <1>13, <2>1 DEF Fail
<1>14. CASE Crash
  BY <1>3, <1>14 DEF Crash
<1>15. ASSUME UNCHANGED <<req, cookie, loggedIn, overlap>> PROVE StickInv(b)'
  BY <1>3, <1>15
<1>16. CASE RedisRestart \/ Tick \/ UNCHANGED vars \/ \E n \in Names : Signup(n)
  BY <1>15, <1>16 DEF RedisRestart, Tick, vars, Signup
<1> QED BY <1>5, <1>7, <1>8, <1>10, <1>11, <1>12, <1>13, <1>14, <1>16 DEF Next

LEMMA SessionStep == SessionInv /\ [Next]_vars => SessionInv'
<1> SUFFICES ASSUME SessionInv, [Next]_vars PROVE SessionInv'
  OBVIOUS
<1>1. \A r \in Requests : RequestInv(r)'
  BY RequestsStep
<1>2. \A b \in Browsers : CookieInv(b)' /\ StickInv(b)'
  BY CookieStep, StickStep
<1> QED BY <1>1, <1>2, TypeStep, ProofStep DEF SessionInv

LEMMA SessionInvariant == Spec => []SessionInv
<1>1. SessionInv /\ UNCHANGED vars => SessionInv'
  BY SessionStep
<1> QED BY <1>1, SessionInit, SessionStep, PTL DEF Spec

(* Types, for all requests under way. *)
THEOREM SessionTypes == Spec => []TypeOK
<1>1. SessionInv => TypeOK
  BY DEF SessionInv
<1> QED BY <1>1, SessionInvariant, PTL

(* Auth accepts a cookie only where, and only as long after, its user has
   shown the password or refreshed. *)
THEOREM AcceptedOnProof == Spec => []ActsOnProof
<1>1. SessionInv => ActsOnProof
  <2> SUFFICES ASSUME SessionInv, NEW t \in Tokens, NEW a \in Addresses, Valid(t, a)
               PROVE  LET last == proved[sess[t].user][a]
                      IN  last # None /\ now < last + MaxAge + Delay
    BY DEF ActsOnProof
  <2> DEFINE last == proved[sess[t].user][a]
  <2>1. sess[t] \in Item /\ now \in Nat
    BY DEF SessionInv, TypeOK, Valid
  <2>2. last # None /\ sess[t].until <= last + MaxAge + Delay
    BY DEF SessionInv, ProofInv, Valid
  <2>3. last \in Nat
    BY <2>1, <2>2 DEF SessionInv, TypeOK, Item, Valid
  <2> QED BY <2>1, <2>2, <2>3 DEF Valid, Item
<1> QED BY <1>1, SessionInvariant, PTL

(* A cookie that lasts for more than the delay is accepted, unless Redis has
   forgotten its session. *)
THEOREM CookiesServed == Spec => []CookieServed
<1>1. SessionInv => CookieServed
  <2> SUFFICES ASSUME SessionInv, NEW b \in Browsers, now + Delay < cookie[b].expires
               PROVE  LET s == sess[cookie[b].token]
                      IN  s # None /\ (now < s.until \/ s.until = 0)
    BY DEF CookieServed
  <2>1. now \in Nat /\ cookie[b].expires \in Nat /\ CookieInv(b)
    BY DEF SessionInv, TypeOK
  <2>2. cookie[b] # NoCookie
    BY <2>1 DEF NoCookie
  <2>3. cookie[b].token \in Tokens /\ sess[cookie[b].token] # None
    BY <2>1, <2>2 DEF CookieInv
  <2>4. sess[cookie[b].token].until \in Nat
    BY <2>3 DEF SessionInv, TypeOK, Item
  <2> QED BY <2>1, <2>2, <2>3, <2>4 DEF CookieInv
<1> QED BY <1>1, SessionInvariant, PTL

(* Only a request that overlaps a Login can put a browser back into another
   user's session. *)
THEOREM LoginsStick == Spec => []LoginSticks
<1>1. SessionInv => LoginSticks
  BY DEF SessionInv, StickInv, LoginSticks
<1> QED BY <1>1, SessionInvariant, PTL
=============================================================================
