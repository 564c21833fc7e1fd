--------------------------- MODULE HourlyRefresh ---------------------------
(***************************************************************************)
(* A scheduled refresh from end to end: the cron function logs in and      *)
(* posts the refresh, the server carries it out and publishes a message,   *)
(* the topic hands messages to the lambda, the lambda sends a text for     *)
(* each.  Around them, the life of the server process: an interrupt shuts  *)
(* it down, whatever its handlers are doing, and it may be killed.         *)
(*                                                                         *)
(* A handler is reduced to what the others see of it; SpotifyIngest,       *)
(* RedditFetch and MetacriticRefresh are about its inside.  An invocation  *)
(* publishes at most one message, which bears its name.                    *)
(***************************************************************************)
EXTENDS Naturals, Sequences, SequencesExt

CONSTANTS Invocations,    \* runs of the cron function
          Resources,      \* what they may be asked to refresh
          Lambdas,        \* executions of the lambda that may overlap
          MaxAttempts,    \* how often an event is tried before it is dropped
          MaxDeliveries   \* bounds how often the topic delivers a message

ASSUME HourlyAssumption ==
  /\ Resources \subseteq {"spotify", "reddit", "metacritic"}
  /\ MaxAttempts \in Nat \ {0} /\ MaxDeliveries \in Nat \ {0}

VARIABLES
  run,        \* the server: "down", "up", "stopping", "closing", "closed"
  resource,   \* resource[i]: the event of invocation i, a valid one
  cron,       \* cron[i]: where invocation i is
  handler,    \* handler[i]: where the handler of i's refresh is
  status,     \* status[i]: the status the refresh of i was answered with, or 0
  carried,    \* ghost: the invocations whose refresh committed something
  topic,      \* messages that wait to be delivered
  event,      \* event[l]: the event lambda l works on
  texts,      \* texts[m]: the texts sent for message m
  deliveries, \* ghost: deliveries[m]: the events that had message m
  failures    \* ghost: failures[m]: the failed attempts at those events

server == <<run, handler>>
client == <<resource, cron, status, carried>>
lambda == <<event, texts, deliveries, failures>>
vars   == <<server, client, topic, lambda>>

(* The loop of a lambda is at record k, after n attempts that failed. *)
Event(order, k, n) == [records |-> order, at |-> k, tries |-> n]

NoEvent == Event(<<>>, 1, 0)

Init == /\ run = "down"
        /\ resource \in [Invocations -> Resources]
        /\ cron = [i \in Invocations |-> "idle"]
        /\ handler = [i \in Invocations |-> "none"]
        /\ status = [i \in Invocations |-> 0]
        /\ carried = {}
        /\ topic = {}
        /\ event = [l \in Lambdas |-> NoEvent]
        /\ texts = [m \in Invocations |-> 0]
        /\ deliveries = [m \in Invocations |-> 0]
        /\ failures = [m \in Invocations |-> 0]

-----------------------------------------------------------------------------
(* The server process. *)

Become(state) == run' = state /\ UNCHANGED <<handler, client, topic, lambda>>

(* The process is gone, with its handlers. *)
Gone == /\ run' = "down"
        /\ handler' = [i \in Invocations |-> "none"]
        /\ UNCHANGED <<client, topic, lambda>>

Start == run = "down" /\ Become("up")

(* An interrupt, or ListenAndServe failed: the context of the group ends. *)
Interrupt == run = "up" /\ Become("stopping")

(* Shutdown closes the listener; its context is already over, so it does not
   wait for the handlers, and Wait returns. *)
Shutdown == run = "stopping" /\ Become("closing")

(* The deferred calls: no new transaction once the database is closed. *)
CloseDB == run = "closing" /\ Become("closed")

Mut_HandlersGoOn == run = "closed" /\ Become("down")

(* Run returns, main ends, and no handler outlives it. *)
Exit == run = "closed" /\ Gone

(* SIGTERM, which nothing catches, or a crash. *)
Kill == run # "down" /\ Gone

-----------------------------------------------------------------------------
(* The cron function. *)

Goto(i, label) == /\ cron' = [cron EXCEPT ![i] = label]
                  /\ UNCHANGED <<resource, carried>>

(* Answered 200, with the database: the jar has the cookie of a session, which
   Redis keeps whatever becomes of the server. *)
Login(i) == /\ cron[i] = "idle" /\ run \notin {"down", "closed"}
            /\ Goto(i, "post")
            /\ UNCHANGED <<server, status, topic, lambda>>

(* The handler starts.  A connection made in time is served while the process
   lives. *)
Post(i) == /\ cron[i] = "post" /\ run # "down"
           /\ Goto(i, "waiting")
           /\ handler' = [handler EXCEPT ![i] = "running"]
           /\ UNCHANGED <<run, status, topic, lambda>>

(* No connection, a session that is gone, an error, or no answer within 60
   seconds: logger.Fatal.  The handler does not notice. *)
GiveUp(i) == /\ cron[i] \in {"idle", "post", "waiting"}
             /\ Goto(i, "failed")
             /\ UNCHANGED <<server, status, topic, lambda>>

(* 200 from the refresh handlers of all three resources, or 500. *)
StatusOf(i) == IF handler[i] = "done" THEN 200 ELSE 500

(* The handler answers; if i still waits, 201 is what it takes for success. *)
Answer(i) ==
  /\ handler[i] \in {"done", "error"}
  /\ handler' = [handler EXCEPT ![i] = "none"]
  /\ IF cron[i] = "waiting"
       THEN /\ status' = [status EXCEPT ![i] = StatusOf(i)]
            /\ Goto(i, IF StatusOf(i) = 201 THEN "succeeded" ELSE "failed")
       ELSE UNCHANGED client
  /\ UNCHANGED <<run, topic, lambda>>

-----------------------------------------------------------------------------
(* The handler. *)

Enter(i, stage) ==
  /\ handler' = [handler EXCEPT ![i] = stage]
  /\ carried' = IF stage = "stored" THEN carried \cup {i} ELSE carried
  /\ UNCHANGED <<run, resource, cron, status, lambda>>

(* Something was fetched, and a transaction is begun. *)
Begin(i)  == /\ handler[i] = "running" /\ run # "closed"
             /\ Enter(i, "open") /\ UNCHANGED topic
(* It commits, on its connection, even when the database has been closed. *)
Commit(i) == /\ handler[i] = "open"
             /\ Enter(i, "stored") /\ UNCHANGED topic

(* refresh of Spotify publishes what it stored, or that there was nothing, and
   only logs an error of Publish, which may be about a message that went out. *)
Publish(i) == /\ resource[i] = "spotify"
              /\ handler[i] \in {"running", "stored"}
              /\ Enter(i, "done") /\ topic' \in {topic, topic \cup {i}}
(* The others publish nothing. *)
Finish(i)  == /\ resource[i] # "spotify"
              /\ handler[i] \in {"running", "stored"}
              /\ Enter(i, "done") /\ UNCHANGED topic
HandlerFails(i) == /\ handler[i] \in {"running", "open"}
                   /\ Enter(i, "error") /\ UNCHANGED topic

-----------------------------------------------------------------------------
(* The topic and the lambda. *)

(* An event with one message or more. *)
Deliver(l) ==
  /\ event[l] = NoEvent
  /\ \E S \in (SUBSET topic) \ {{}} : \E order \in SetToSeqs(S) :
       /\ event' = [event EXCEPT ![l] = Event(order, 1, 0)]
       /\ topic' = topic \ S
       /\ deliveries' = [m \in Invocations |->
                           IF m \in S THEN deliveries[m] + 1 ELSE deliveries[m]]
  /\ UNCHANGED <<server, client, texts, failures>>

(* The topic delivers at least once: it may deliver a message again. *)
Repeat(m) == /\ 0 < deliveries[m] /\ deliveries[m] < MaxDeliveries
             /\ topic' = topic \cup {m}
             /\ UNCHANGED <<server, client, lambda>>

Handling(l) == event[l] # NoEvent /\ event[l].at <= Len(event[l].records)
Record(l)   == event[l].records[event[l].at]

Mut_SendTwice(l) ==
  /\ Handling(l)
  /\ texts' = [texts EXCEPT ![Record(l)] = @ + 2]
  /\ event' = [event EXCEPT ![l] = Event(@.records, @.at + 1, @.tries)]
  /\ UNCHANGED <<server, client, topic, deliveries, failures>>

(* HandleMessage for one record of the loop. *)
HandleRecord(l) ==
  /\ Handling(l)
  /\ texts' = [texts EXCEPT ![Record(l)] = @ + 1]
  /\ event' = [event EXCEPT ![l] = Event(@.records, @.at + 1, @.tries)]
  /\ UNCHANGED <<server, client, topic, deliveries, failures>>

Mut_SkipFailed(l) ==
  /\ Handling(l)
  /\ texts' \in {texts, [texts EXCEPT ![Record(l)] = @ + 1]}
  /\ event' = [event EXCEPT ![l] = Event(@.records, @.at + 1, @.tries)]
  /\ UNCHANGED <<server, client, topic, deliveries, failures>>

(* An error ends the attempt, sent or not: the text may have gone out (its
   answer lost, or the 10 seconds over).  The whole event is tried again, up
   to MaxAttempts times. *)
AttemptFails(l) ==
  /\ Handling(l)
  /\ texts' \in {texts, [texts EXCEPT ![Record(l)] = @ + 1]}
  /\ failures' = [m \in Invocations |-> IF m \in Range(event[l].records)
                                          THEN failures[m] + 1 ELSE failures[m]]
  /\ event' = [event EXCEPT ![l] =
                 IF @.tries + 1 = MaxAttempts THEN NoEvent
                 ELSE Event(@.records, 1, @.tries + 1)]
  /\ UNCHANGED <<server, client, topic, deliveries>>

(* return nil: the event is over. *)
EventDone(l) ==
  /\ event[l] # NoEvent /\ ~Handling(l)
  /\ event' = [event EXCEPT ![l] = NoEvent]
  /\ UNCHANGED <<server, client, topic, texts, deliveries, failures>>

-----------------------------------------------------------------------------
Life == Start \/ Interrupt \/ Shutdown \/ CloseDB \/ Exit \/ Kill

Next == \/ Life
        \/ \E i \in Invocations :
             \/ Login(i) \/ Post(i) \/ GiveUp(i) \/ Answer(i)
             \/ Begin(i) \/ Commit(i) \/ Publish(i) \/ Finish(i) \/ HandlerFails(i)
             \/ Repeat(i)
        \/ \E l \in Lambdas :
             \/ Deliver(l) \/ HandleRecord(l) \/ AttemptFails(l) \/ EventDone(l)

Spec == Init /\ [][Next]_vars

-----------------------------------------------------------------------------
(* Types; handlers only in a live server. *)
TypeOK ==
  /\ run \in {"down", "up", "stopping", "closing", "closed"}
  /\ resource \in [Invocations -> Resources]
  /\ cron \in [Invocations -> {"idle", "post", "waiting", "succeeded", "failed"}]
  /\ handler \in [Invocations ->
                    {"none", "running", "open", "stored", "done", "error"}]
  /\ status \in [Invocations -> {0, 200, 201, 500}]
  /\ topic \subseteq Invocations /\ carried \subseteq Invocations
  /\ event \in [Lambdas -> [records : Seq(Invocations), at : Nat, tries : 0 .. MaxAttempts - 1]]
  /\ \A l \in Lambdas : event[l].at \in 1 .. Len(event[l].records) + 1
  /\ texts \in [Invocations -> Nat] /\ failures \in [Invocations -> Nat]
  /\ deliveries \in [Invocations -> 0 .. MaxDeliveries]
  /\ run = "down" => \A i \in Invocations : handler[i] = "none"

(* A message that reached the lambda is never lost silently: it has been
   texted, or is still in an event, or was in one that failed as often as
   events are tried. *)
NoTextLost ==
  \A m \in Invocations : deliveries[m] > 0 =>
     \/ texts[m] > 0
     \/ \E l \in Lambdas : m \in Range(event[l].records)
     \/ failures[m] >= MaxAttempts

(* HandleEvent starts an event over from its first record, so texts repeat;
   but there is at most one for each attempt at each event with the message:
   one more than one means that an attempt failed or the topic repeated. *)
TextsExplained ==
  \A m \in Invocations : texts[m] <= deliveries[m] + failures[m]

(* "logic for graceful shutdown", says main.go: Shutdown waits for the handlers
   that are at work, so none has a transaction open when it returns and the
   database is closed. *)
GracefulShutdown ==
  [][run = "stopping" /\ run' = "closing"
       => \A i \in Invocations : handler[i] # "open"]_vars

=============================================================================
