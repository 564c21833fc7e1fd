------------------------ MODULE HourlyRefreshProofs ------------------------
(***************************************************************************)
(* Theorems about HourlyRefresh, for any number of invocations and of      *)
(* executions of the lambda, every limit of attempts and deliveries.       *)
(***************************************************************************)
EXTENDS HourlyRefresh, FiniteSetTheorems, SequenceTheorems, TLAPS

USE HourlyAssumption

Active == {"running", "open", "stored"}

(* A handler starts once for each invocation, after which nothing but it can
   publish its message; so the message is not out before. *)
OnceInv ==
  \A i \in Invocations :
     /\ cron[i] \in {"idle", "post"} => handler[i] = "none"
     /\ cron[i] \in {"idle", "post"} \/ handler[i] \in Active
          => i \notin topic /\ deliveries[i] = 0
     /\ i \in topic => deliveries[i] < MaxDeliveries

(* An event has each of its messages once. *)
DistinctInv ==
  \A l \in Lambdas : \A j, k \in 1 .. Len(event[l].records) :
     j # k => event[l].records[j] # event[l].records[k]

TypeInv == TypeOK /\ IsFiniteSet(topic) /\ OnceInv /\ DistinctInv

LEMMA NoInjection ==
  ASSUME NEW D, NEW Q, IsFiniteSet(D), IsFiniteSet(Q), Cardinality(Q) < Cardinality(D),
         NEW f, f \in [D -> Q]
  PROVE  \E j, k \in D : j # k /\ f[j] = f[k]
BY FS_PigeonHole

(* What an order of S looks like: it has all of S, each once. *)
LEMMA Orders ==
  ASSUME NEW T, NEW S \in SUBSET T, IsFiniteSet(S), NEW order \in SetToSeqs(S)
  PROVE  /\ order \in Seq(T)
         /\ \A j, k \in 1 .. Len(order) : j # k => order[j] # order[k]
         /\ Range(order) = S
<1> DEFINE n == Cardinality(S)
<1>1. n \in Nat
  BY FS_CardinalityType
<1>2. order \in [1 .. n -> S] /\ \A j, k \in 1 .. n : j # k => order[j] # order[k]
  BY DEF SetToSeqs
<1>3. order \in Seq(T) /\ Len(order) = n
  <2>1. order \in [1 .. n -> T]
    BY <1>2
  <2> HIDE DEF n
  <2> QED BY <1>1, <2>1, SeqDef
<1>4. ASSUME NEW m \in S PROVE m \in Range(order)
  <2> SUFFICES ASSUME \A k \in 1 .. n : order[k] # m PROVE FALSE
    BY <1>2 DEF Range
  <2>1. order \in [1 .. n -> S \ {m}]
    BY <1>2
  <2>2. IsFiniteSet(S \ {m}) /\ Cardinality(S \ {m}) = n - 1
    BY FS_RemoveElement
  <2>3. IsFiniteSet(1 .. n) /\ Cardinality(1 .. n) = n
    BY <1>1, FS_Interval
  <2>4. Cardinality(S \ {m}) < Cardinality(1 .. n)
    BY <1>1, <2>2, <2>3
  <2>5. \E j, k \in 1 .. n : j # k /\ order[j] = order[k]
    <3> DEFINE D == 1 .. n
               Q == S \ {m}
    <3>1. /\ IsFiniteSet(D) /\ IsFiniteSet(Q) /\ Cardinality(Q) < Cardinality(D)
          /\ order \in [D -> Q]
      BY <2>1, <2>2, <2>3, <2>4
    <3> HIDE DEF D, Q
    <3>2. \E j, k \in D : j # k /\ order[j] = order[k]
      BY <3>1, NoInjection
    <3> QED BY <3>2 DEF D
  <2> QED BY <1>2, <2>5
<1>5. Range(order) \subseteq S
  BY <1>2 DEF Range
<1> QED BY <1>2, <1>3, <1>4, <1>5

(* The slot of l, in any good state. *)
LEMMA Slot ==
  ASSUME TypeOK, NEW l \in Lambdas
  PROVE  /\ event[l] \in [records : Seq(Invocations), at : Nat, tries : 0 .. MaxAttempts - 1]
         /\ event[l].records \in Seq(Invocations)
         /\ Len(event[l].records) \in Nat
         /\ event[l].at \in 1 .. Len(event[l].records) + 1
         /\ event[l].tries \in 0 .. MaxAttempts - 1
         /\ DOMAIN event[l].records = 1 .. Len(event[l].records)
         /\ \A k \in 1 .. Len(event[l].records) : event[l].records[k] \in Invocations
<1>1. /\ event[l] \in [records : Seq(Invocations), at : Nat, tries : 0 .. MaxAttempts - 1]
      /\ event[l].at \in 1 .. Len(event[l].records) + 1
  BY DEF TypeOK
<1>2. event[l].records \in Seq(Invocations) /\ event[l].tries \in 0 .. MaxAttempts - 1
  BY <1>1
<1> QED BY <1>1, <1>2, LenProperties, ElementOfSeq

(* The record a lambda handles is one of its event's. *)
LEMMA Current ==
  ASSUME TypeOK, NEW l \in Lambdas, Handling(l)
  PROVE  /\ event[l].at \in 1 .. Len(event[l].records)
         /\ Record(l) = event[l].records[event[l].at]
         /\ Record(l) \in Invocations
         /\ Record(l) \in Range(event[l].records)
<1>1. event[l].at \in 1 .. Len(event[l].records)
  BY Slot DEF Handling
<1> QED BY <1>1, Slot DEF Record, Range

-----------------------------------------------------------------------------
LEMMA TypeStep == TypeInv /\ [Next]_vars => TypeInv'
<1> SUFFICES ASSUME TypeInv, [Next]_vars PROVE TypeInv'
  OBVIOUS
<1> USE DEF TypeInv
<1>1. CASE Life
  <2>1. /\ run' \in {"down", "up", "stopping", "closing", "closed"}
        /\ \/ handler' = handler /\ run' # "down"
           \/ handler' = [i \in Invocations |-> "none"]
        /\ UNCHANGED <<client, topic, lambda>>
    BY <1>1 DEF Life, Start, Interrupt, Shutdown, CloseDB, Exit, Kill, Gone, Become
  <2>2. TypeOK'
    BY <2>1 DEF TypeOK, client, lambda
  <2>3. OnceInv' /\ DistinctInv' /\ IsFiniteSet(topic')
    BY <2>1 DEF OnceInv, DistinctInv, Active, client, lambda
  <2> QED BY <2>2, <2>3
<1>2. ASSUME NEW i \in Invocations, Login(i) \/ Post(i) \/ GiveUp(i) PROVE TypeInv'
  <2>1. UNCHANGED <<run, resource, status, carried, topic, lambda>>
    BY <1>2 DEF Login, Post, GiveUp, Goto, server
  <2>2. PICK label \in {"post", "waiting", "failed"} :
          /\ cron' = [cron EXCEPT ![i] = label]
          /\ label = "post" => cron[i] = "idle"
    BY <1>2 DEF Login, Post, GiveUp, Goto
  <2>3. \/ handler' = handler
        \/ /\ handler' = [handler EXCEPT ![i] = "running"] /\ run # "down"
           /\ cron[i] = "post" /\ cron' = [cron EXCEPT ![i] = "waiting"]
    BY <1>2 DEF Login, Post, GiveUp, Goto, server
  <2>4. TypeOK'
    <3>1. cron' \in [Invocations -> {"idle", "post", "waiting", "succeeded", "failed"}]
      BY <2>2 DEF TypeOK
    <3>2. handler' \in [Invocations ->
                          {"none", "running", "open", "stored", "done", "error"}]
      <4>1. handler \in [Invocations ->
                            {"none", "running", "open", "stored", "done", "error"}]
        BY DEF TypeOK
      <4> QED BY <2>3, <4>1
    <3>3. run' = "down" => \A k \in Invocations : handler'[k] = "none"
      BY <2>1, <2>3 DEF TypeOK
    <3> QED BY <2>1, <3>1, <3>2, <3>3 DEF TypeOK, lambda
  <2>5. OnceInv'
    BY <2>1, <2>2, <2>3 DEF TypeOK, OnceInv, Active, lambda
  <2>6. DistinctInv' /\ IsFiniteSet(topic')
    BY <2>1 DEF DistinctInv, lambda
  <2> QED BY <2>4, <2>5, <2>6
<1>3. ASSUME NEW i \in Invocations, Answer(i) PROVE TypeInv'
  <2>1. /\ handler' = [handler EXCEPT ![i] = "none"]
        /\ UNCHANGED <<run, resource, carried, topic, lambda>>
        /\ status' \in [Invocations -> {0, 200, 201, 500}]
        /\ cron' = cron \/ cron' = [cron EXCEPT ![i] = "failed"]
             \/ cron' = [cron EXCEPT ![i] = "succeeded"]
    <3>1. /\ handler' = [handler EXCEPT ![i] = "none"]
          /\ UNCHANGED <<run, topic, lambda>>
      BY <1>3 DEF Answer
    <3>2. CASE cron[i] = "waiting"
      <4>1. /\ status' = [status EXCEPT ![i] = StatusOf(i)]
            /\ Goto(i, IF StatusOf(i) = 201 THEN "succeeded" ELSE "failed")
        BY <1>3, <3>2 DEF Answer
      <4>2. StatusOf(i) \in {200, 500}
        BY DEF StatusOf
      <4> QED BY <3>1, <4>1, <4>2 DEF Goto, TypeOK
    <3>3. CASE cron[i] # "waiting"
      BY <1>3, <3>1, <3>3 DEF Answer, client, TypeOK
    <3> QED BY <3>2, <3>3
  <2>2. TypeOK'
    <3>1. cron' \in [Invocations -> {"idle", "post", "waiting", "succeeded", "failed"}]
      BY <2>1 DEF TypeOK
    <3>2. handler' \in [Invocations ->
                          {"none", "running", "open", "stored", "done", "error"}]
      BY <2>1 DEF TypeOK
    <3>3. run' = "down" => \A k \in Invocations : handler'[k] = "none"
      BY <2>1 DEF TypeOK
    <3> QED BY <2>1, <3>1, <3>2, <3>3 DEF TypeOK, lambda
  <2>3. cron[i] \notin {"idle", "post"}
    BY <1>3 DEF Answer, OnceInv
  <2>4. OnceInv'
    BY <2>1, <2>3 DEF TypeOK, OnceInv, Active, lambda
  <2>5. DistinctInv' /\ IsFiniteSet(topic')
    BY <2>1 DEF DistinctInv, lambda
  <2> QED BY <2>2, <2>4, <2>5
<1>4. ASSUME NEW i \in Invocations, Begin(i) \/ Commit(i) \/ Finish(i) \/ HandlerFails(i)
      PROVE TypeInv'
  <2>1. /\ handler[i] \in Active
        /\ UNCHANGED <<run, resource, cron, status, topic, lambda>>
        /\ carried' \subseteq Invocations
    BY <1>4 DEF Begin, Commit, Finish, HandlerFails, Enter, Active, TypeOK
  <2>2. PICK stage \in {"open", "stored", "done", "error"} :
          handler' = [handler EXCEPT ![i] = stage]
    BY <1>4 DEF Begin, Commit, Finish, HandlerFails, Enter
  <2>3. run # "down"
    BY <2>1 DEF TypeOK, Active
  <2>4. TypeOK'
    BY <2>1, <2>2, <2>3 DEF TypeOK, lambda
  <2>5. OnceInv'
    BY <2>1, <2>2 DEF TypeOK, OnceInv, Active, lambda
  <2>6. DistinctInv' /\ IsFiniteSet(topic')
    BY <2>1 DEF DistinctInv, lambda
  <2> QED BY <2>4, <2>5, <2>6
<1>5. ASSUME NEW i \in Invocations, Publish(i) PROVE TypeInv'
  <2>1. IsFiniteSet(topic')
    BY <1>5, FS_AddElement DEF Publish
  <2>2. TypeOK'
    BY <1>5 DEF Publish, Enter, TypeOK, client, lambda
  <2>3. OnceInv' /\ DistinctInv'
    BY <1>5 DEF Publish, Enter, TypeOK, OnceInv, DistinctInv, Active, client, lambda
  <2> QED BY <2>1, <2>2, <2>3
<1>6. ASSUME NEW i \in Invocations, Repeat(i) PROVE TypeInv'
  <2>1. IsFiniteSet(topic')
    BY <1>6, FS_AddElement DEF Repeat
  <2>2. TypeOK' /\ DistinctInv'
    BY <1>6 DEF Repeat, TypeOK, DistinctInv, server, client, lambda
  <2>3. OnceInv'
    BY <1>6 DEF Repeat, TypeOK, OnceInv, server, client, lambda
  <2> QED BY <2>1, <2>2, <2>3
<1>7. ASSUME NEW l \in Lambdas, Deliver(l) PROVE TypeInv'
  <2>0. PICK S \in (SUBSET topic) \ {{}} : \E order \in SetToSeqs(S) :
          /\ event' = [event EXCEPT ![l] = Event(order, 1, 0)]
          /\ topic' = topic \ S
          /\ deliveries' = [m \in Invocations |->
                              IF m \in S THEN deliveries[m] + 1 ELSE deliveries[m]]
    BY <1>7 DEF Deliver
  <2>1. PICK order \in SetToSeqs(S) :
          /\ event' = [event EXCEPT ![l] = Event(order, 1, 0)]
          /\ topic' = topic \ S
          /\ deliveries' = [m \in Invocations |->
                              IF m \in S THEN deliveries[m] + 1 ELSE deliveries[m]]
    BY <2>0
  <2>2. UNCHANGED <<server, client, texts, failures>>
    BY <1>7 DEF Deliver
  <2>3. IsFiniteSet(S) /\ S \in SUBSET Invocations
    BY FS_Subset DEF TypeOK
  <2>4. /\ order \in Seq(Invocations) /\ Len(order) \in Nat
        /\ \A j, k \in 1 .. Len(order) : j # k => order[j] # order[k]
    BY <2>3, Orders, LenProperties
  <2>5. IsFiniteSet(topic')
    BY <2>1, FS_Subset
  <2>6. deliveries' \in [Invocations -> 0 .. MaxDeliveries]
    BY <2>1 DEF TypeOK, OnceInv
  <2>7. event' \in [Lambdas -> [records : Seq(Invocations), at : Nat,
                                tries : 0 .. MaxAttempts - 1]]
    BY <2>1, <2>4 DEF TypeOK, Event
  <2>8. \A k \in Lambdas : event'[k].at \in 1 .. Len(event'[k].records) + 1
    BY <2>1, <2>4 DEF TypeOK, Event
  <2>9. TypeOK'
    BY <2>1, <2>2, <2>6, <2>7, <2>8 DEF TypeOK, server, client
  <2>10. OnceInv'
    BY <2>1, <2>2 DEF TypeOK, OnceInv, Active, server, client
  <2>11. DistinctInv'
    <3>1. event'[l].records = order /\ \A k \in Lambdas \ {l} : event'[k] = event[k]
      BY <2>1 DEF TypeOK, Event
    <3> SUFFICES ASSUME NEW k \in Lambdas, NEW i \in 1 .. Len(event'[k].records),
                        NEW j \in 1 .. Len(event'[k].records), i # j
                 PROVE  event'[k].records[i] # event'[k].records[j]
      BY DEF DistinctInv
    <3>2. CASE k = l
      BY <2>4, <3>1, <3>2
    <3>3. CASE k # l
      BY <3>1, <3>3 DEF DistinctInv
    <3> QED BY <3>2, <3>3
  <2> QED BY <2>5, <2>9, <2>10, <2>11
<1>8. ASSUME NEW l \in Lambdas, HandleRecord(l) \/ AttemptFails(l) \/ EventDone(l)
      PROVE TypeInv'
  <2>1. UNCHANGED <<server, client, topic, deliveries>>
    BY <1>8 DEF HandleRecord, AttemptFails, EventDone
  <2>2. /\ texts' \in [Invocations -> Nat]
        /\ failures' \in [Invocations -> Nat]
    <3>1. texts \in [Invocations -> Nat] /\ failures \in [Invocations -> Nat]
      BY DEF TypeOK
    <3>2. CASE HandleRecord(l)
      BY <3>1, <3>2, Current DEF HandleRecord
    <3>3. CASE AttemptFails(l)
      <4>1. texts' \in [Invocations -> Nat]
        BY <3>1, <3>3, Current DEF AttemptFails
      <4>2. failures' \in [Invocations -> Nat]
        BY <3>1, <3>3 DEF AttemptFails
      <4> QED BY <4>1, <4>2
    <3>4. CASE EventDone(l)
      BY <3>1, <3>4 DEF EventDone
    <3> QED BY <1>8, <3>2, <3>3, <3>4
  <2>3. PICK e : /\ event' = [event EXCEPT ![l] = e]
                 /\ \/ e = Event(<<>>, 1, 0)
                    \/ /\ Handling(l)
                       /\ e = Event(event[l].records, event[l].at + 1, event[l].tries)
                    \/ /\ event[l].tries + 1 # MaxAttempts
                       /\ e = Event(event[l].records, 1, event[l].tries + 1)
    <3>1. CASE HandleRecord(l)
      BY <3>1 DEF HandleRecord
    <3>2. CASE AttemptFails(l)
      BY <3>2 DEF AttemptFails, NoEvent
    <3>3. CASE EventDone(l)
      BY <3>3 DEF EventDone, NoEvent
    <3> QED BY <1>8, <3>1, <3>2, <3>3
  <2>4. /\ e \in [records : Seq(Invocations), at : Nat, tries : 0 .. MaxAttempts - 1]
        /\ e.at \in 1 .. Len(e.records) + 1
        /\ e.records = <<>> \/ e.records = event[l].records
    <3>1. CASE e = Event(<<>>, 1, 0)
      BY <3>1, EmptySeq DEF Event
    <3>2. CASE Handling(l) /\ e = Event(event[l].records, event[l].at + 1, event[l].tries)
      BY <3>2, Slot, Current DEF Event
    <3>3. CASE event[l].tries + 1 # MaxAttempts
                 /\ e = Event(event[l].records, 1, event[l].tries + 1)
      BY <3>3, Slot DEF Event
    <3> QED BY <2>3, <3>1, <3>2, <3>3
  <2>5. TypeOK'
    <3>1. event' \in [Lambdas -> [records : Seq(Invocations), at : Nat,
                                  tries : 0 .. MaxAttempts - 1]]
      BY <2>3, <2>4 DEF TypeOK
    <3>2. \A k \in Lambdas : event'[k].at \in 1 .. Len(event'[k].records) + 1
      BY <2>3, <2>4 DEF TypeOK
    <3> QED BY <2>1, <2>2, <3>1, <3>2 DEF TypeOK, server, client
  <2>6. OnceInv'
    BY <2>1 DEF OnceInv, server, client
  <2>7. DistinctInv'
    <3>1. \A k \in Lambdas : event'[k].records = <<>>
                              \/ event'[k].records = event[k].records
      BY <2>3, <2>4 DEF TypeOK
    <3>2. Len(<<>>) = 0
      OBVIOUS
    <3> QED BY <3>1, <3>2 DEF DistinctInv
  <2> QED BY <2>1, <2>5, <2>6, <2>7
<1>9. CASE UNCHANGED vars
  BY <1>9 DEF vars, server, client, lambda, TypeOK, OnceInv, DistinctInv
<1> QED
  BY <1>1, <1>2, <1>3, <1>4, <1>5, <1>6, <1>7, <1>8, <1>9 DEF Next

LEMMA InitTypes == Init => TypeInv
<1> SUFFICES ASSUME Init PROVE TypeInv
  OBVIOUS
<1>1. NoEvent \in [records : Seq(Invocations), at : Nat, tries : 0 .. MaxAttempts - 1]
  BY EmptySeq DEF NoEvent, Event
<1>2. NoEvent.at = 1 /\ NoEvent.records = <<>> /\ Len(<<>>) = 0
  BY DEF NoEvent, Event
<1>3. TypeOK
  BY <1>1, <1>2 DEF Init, TypeOK
<1>4. OnceInv
  BY DEF Init, OnceInv, Active
<1>5. DistinctInv
  BY <1>2 DEF Init, DistinctInv
<1> QED BY <1>3, <1>4, <1>5, FS_EmptySet DEF Init, TypeInv

(* The types of HourlyRefresh hold in every state. *)
THEOREM TypeCorrect == Spec => []TypeOK
BY InitTypes, TypeStep, PTL DEF Spec, TypeInv

-----------------------------------------------------------------------------
(* No message is lost: an event fails at each of its messages once for each
   time it is tried again, and has sent those it has passed. *)
Passed(l) ==
  /\ \A m \in Range(event[l].records) : failures[m] >= event[l].tries
  /\ \A k \in 1 .. Len(event[l].records) :
       k < event[l].at => texts[event[l].records[k]] > 0

PassedInv == \A l \in Lambdas : Passed(l)

LostInv == NoTextLost /\ PassedInv

(* A step that only adds texts and failures. *)
Grows == /\ \A m \in Invocations : texts[m] > 0 => texts'[m] > 0
         /\ failures' \in [Invocations -> Nat]
         /\ \A m \in Invocations : failures'[m] >= failures[m]

(* It leaves an event it does not touch with what it has. *)
LEMMA PassedKept ==
  ASSUME TypeOK, Grows, NEW k \in Lambdas, Passed(k), event'[k] = event[k]
  PROVE  Passed(k)'
<1>1. ASSUME NEW m \in Range(event[k].records) PROVE failures'[m] >= event[k].tries
  <2>1. m \in Invocations
    BY Slot DEF Range
  <2>2. failures[m] \in Nat /\ failures'[m] \in Nat /\ event[k].tries \in Nat
    BY <2>1, Slot DEF TypeOK, Grows
  <2>3. failures'[m] >= failures[m] /\ failures[m] >= event[k].tries
    BY <2>1 DEF Grows, Passed
  <2> QED BY <2>2, <2>3
<1>2. ASSUME NEW n \in 1 .. Len(event[k].records), n < event[k].at
      PROVE  texts'[event[k].records[n]] > 0
  <2>1. event[k].records[n] \in Invocations
    BY Slot
  <2> QED BY <2>1, <1>2 DEF Grows, Passed
<1> QED BY <1>1, <1>2 DEF Passed

(* It loses no message, if none of those it drops is lost. *)
LEMMA LostKept ==
  ASSUME TypeOK, Grows, NoTextLost, UNCHANGED deliveries,
         \A m \in Invocations : \A k \in Lambdas : m \in Range(event[k].records) =>
           \/ m \in Range(event'[k].records)
           \/ texts'[m] > 0
           \/ failures'[m] >= MaxAttempts
  PROVE  NoTextLost'
<1> SUFFICES ASSUME NEW m \in Invocations, deliveries[m] > 0
             PROVE  \/ texts'[m] > 0
                    \/ \E k \in Lambdas : m \in Range(event'[k].records)
                    \/ failures'[m] >= MaxAttempts
  BY DEF NoTextLost
<1>1. CASE texts[m] > 0
  BY <1>1 DEF Grows
<1>2. CASE failures[m] >= MaxAttempts
  <2>1. failures[m] \in Nat /\ failures'[m] \in Nat /\ failures'[m] >= failures[m]
    BY DEF TypeOK, Grows
  <2> QED BY <1>2, <2>1
<1>3. CASE \E k \in Lambdas : m \in Range(event[k].records)
  BY <1>3
<1> QED BY <1>1, <1>2, <1>3 DEF NoTextLost

LEMMA LostStep == TypeInv /\ TypeInv' /\ LostInv /\ [Next]_vars => LostInv'
<1> SUFFICES ASSUME TypeInv, TypeInv', LostInv, [Next]_vars PROVE LostInv'
  OBVIOUS
<1> USE DEF LostInv
<1>0. TypeOK
  BY DEF TypeInv
<1>1. CASE UNCHANGED <<event, texts, deliveries, failures>>
  BY <1>1 DEF NoTextLost, PassedInv, Passed
<1>2. ASSUME NEW l \in Lambdas, Deliver(l) PROVE LostInv'
  <2>1. PICK S \in (SUBSET topic) \ {{}} : \E order \in SetToSeqs(S) :
          /\ event' = [event EXCEPT ![l] = Event(order, 1, 0)]
          /\ deliveries' = [m \in Invocations |->
                              IF m \in S THEN deliveries[m] + 1 ELSE deliveries[m]]
    BY <1>2 DEF Deliver
  <2>2. PICK order \in SetToSeqs(S) :
          /\ event' = [event EXCEPT ![l] = Event(order, 1, 0)]
          /\ deliveries' = [m \in Invocations |->
                              IF m \in S THEN deliveries[m] + 1 ELSE deliveries[m]]
    BY <2>1
  <2>3. UNCHANGED <<texts, failures>> /\ event[l] = NoEvent
    BY <1>2 DEF Deliver
  <2>4. Range(order) = S
    BY FS_Subset, Orders DEF TypeInv
  <2>5. event'[l].records = order /\ event'[l].at = 1 /\ event'[l].tries = 0
    BY <1>0, <2>2 DEF TypeOK, Event
  <2>6. \A k \in Lambdas \ {l} : event'[k] = event[k]
    BY <1>0, <2>2 DEF TypeOK
  <2>7. Range(event[l].records) = {}
    BY <2>3 DEF NoEvent, Event, Range
  <2>8. NoTextLost'
    <3> SUFFICES ASSUME NEW m \in Invocations, deliveries'[m] > 0
                 PROVE  \/ texts[m] > 0
                        \/ \E k \in Lambdas : m \in Range(event'[k].records)
                        \/ failures[m] >= MaxAttempts
      BY <2>3 DEF NoTextLost
    <3>1. CASE m \in S
      BY <3>1, <2>4, <2>5
    <3>2. CASE m \notin S
      <4>1. deliveries[m] > 0
        BY <2>2, <3>2
      <4> QED BY <4>1, <2>6, <2>7 DEF NoTextLost
    <3> QED BY <3>1, <3>2
  <2>9. PassedInv'
    <3> SUFFICES ASSUME NEW k \in Lambdas
                 PROVE  Passed(k)'
      BY DEF PassedInv
    <3>1. CASE k = l
      <4>1. S \subseteq Invocations /\ failures \in [Invocations -> Nat]
        BY <1>0 DEF TypeOK
      <4>2. \A m \in S : failures[m] >= 0
        BY <4>1
      <4> QED BY <3>1, <4>2, <2>3, <2>4, <2>5 DEF Passed
    <3>2. CASE k # l
      BY <3>2, <2>3, <2>6 DEF PassedInv, Passed
    <3> QED BY <3>1, <3>2
  <2> QED BY <2>8, <2>9
<1>3. ASSUME NEW l \in Lambdas, HandleRecord(l) PROVE LostInv'
  <2>1. /\ event' = [event EXCEPT ![l] = Event(event[l].records, event[l].at + 1,
                                               event[l].tries)]
        /\ texts' = [texts EXCEPT ![Record(l)] = texts[Record(l)] + 1]
        /\ UNCHANGED <<deliveries, failures>>
    BY <1>3 DEF HandleRecord
  <2>2. /\ event[l].at \in 1 .. Len(event[l].records)
        /\ Record(l) = event[l].records[event[l].at] /\ Record(l) \in Invocations
    BY <1>0, <1>3, Current DEF HandleRecord
  <2>3. texts \in [Invocations -> Nat] /\ failures \in [Invocations -> Nat]
    BY <1>0 DEF TypeOK
  <2>4. texts'[Record(l)] > 0 /\ \A m \in Invocations : texts[m] > 0 => texts'[m] > 0
    BY <2>1, <2>2, <2>3
  <2>5. Grows
    <3>1. \A m \in Invocations : failures[m] >= failures[m]
      BY <2>3
    <3> QED BY <2>1, <2>3, <2>4, <3>1 DEF Grows
  <2>6. /\ event'[l].records = event[l].records /\ event'[l].tries = event[l].tries
        /\ event'[l].at = event[l].at + 1
        /\ \A k \in Lambdas \ {l} : event'[k] = event[k]
    BY <1>0, <2>1 DEF TypeOK, Event
  <2>7. NoTextLost'
    <3>1. \A k \in Lambdas : event'[k].records = event[k].records
      BY <2>6
    <3> QED BY <1>0, <2>1, <2>5, <3>1, LostKept
  <2>8. Passed(l)'
    <3>1. \A n \in 1 .. Len(event[l].records) :
            n < event[l].at + 1 => n < event[l].at \/ n = event[l].at
      BY <2>2
    <3>2. \A n \in 1 .. Len(event[l].records) : event[l].records[n] \in Invocations
      BY <1>0, Slot
    <3>3. Passed(l)
      BY DEF PassedInv
    <3>4. \A n \in 1 .. Len(event[l].records) :
            n < event[l].at + 1 => texts'[event[l].records[n]] > 0
      BY <2>2, <2>4, <3>1, <3>2, <3>3 DEF Passed
    <3> QED BY <2>1, <2>6, <3>3, <3>4 DEF Passed
  <2>9. PassedInv'
    BY <1>0, <2>5, <2>6, <2>8, PassedKept DEF PassedInv
  <2> QED BY <2>7, <2>9
<1>4. ASSUME NEW l \in Lambdas, AttemptFails(l) PROVE LostInv'
  <2>1. /\ UNCHANGED deliveries
        /\ failures' = [m \in Invocations |-> IF m \in Range(event[l].records)
                                                THEN failures[m] + 1 ELSE failures[m]]
        /\ event' = [event EXCEPT ![l] =
                       IF event[l].tries + 1 = MaxAttempts THEN NoEvent
                       ELSE Event(event[l].records, 1, event[l].tries + 1)]
        /\ texts' = texts \/ texts' = [texts EXCEPT ![Record(l)] = texts[Record(l)] + 1]
    BY <1>4 DEF AttemptFails
  <2>2. texts \in [Invocations -> Nat] /\ failures \in [Invocations -> Nat]
    BY <1>0 DEF TypeOK
  <2>3. Grows
    <3>1. Record(l) \in Invocations
      BY <1>0, <1>4, Current DEF AttemptFails
    <3>2. \A m \in Invocations : texts[m] > 0 => texts'[m] > 0
      BY <2>1, <2>2, <3>1
    <3>3. failures' \in [Invocations -> Nat] /\ \A m \in Invocations : failures'[m] >= failures[m]
      BY <2>1, <2>2
    <3> QED BY <3>2, <3>3 DEF Grows
  <2>4. ASSUME NEW m \in Range(event[l].records)
        PROVE  m \in Invocations /\ failures'[m] >= event[l].tries + 1
    <3>1. m \in Invocations
      BY <1>0, Slot DEF Range
    <3>2. failures[m] >= event[l].tries /\ event[l].tries \in Int /\ failures[m] \in Int
      BY <1>0, <2>2, <3>1, Slot DEF PassedInv, Passed
    <3>3. failures'[m] = failures[m] + 1
      BY <2>1, <3>1
    <3> QED BY <3>1, <3>2, <3>3
  <2>5. \A k \in Lambdas \ {l} : event'[k] = event[k]
    BY <1>0, <2>1 DEF TypeOK
  <2>6. CASE event[l].tries + 1 = MaxAttempts
    <3>1. event'[l] = NoEvent
      BY <1>0, <2>1, <2>6 DEF TypeOK
    <3>2. Range(event'[l].records) = {} /\ Len(event'[l].records) = 0
      BY <3>1 DEF NoEvent, Event, Range
    <3>3. \A m \in Range(event[l].records) : failures'[m] >= MaxAttempts
      BY <2>4, <2>6
    <3>4. NoTextLost'
      BY <1>0, <2>1, <2>3, <2>5, <3>3, LostKept
    <3>5. Passed(l)'
      BY <3>2 DEF Passed
    <3> QED BY <1>0, <2>3, <2>5, <3>4, <3>5, PassedKept DEF PassedInv
  <2>7. CASE event[l].tries + 1 # MaxAttempts
    <3>1. event'[l] = Event(event[l].records, 1, event[l].tries + 1)
      BY <1>0, <2>1, <2>7 DEF TypeOK
    <3>2. /\ event'[l].records = event[l].records /\ event'[l].at = 1
          /\ event'[l].tries = event[l].tries + 1
      BY <3>1 DEF Event
    <3>3. NoTextLost'
      BY <1>0, <2>1, <2>3, <2>5, <3>2, LostKept
    <3>4. Passed(l)'
      BY <2>4, <3>2 DEF Passed
    <3> QED BY <1>0, <2>3, <2>5, <3>3, <3>4, PassedKept DEF PassedInv
  <2> QED BY <2>6, <2>7
<1>5. ASSUME NEW l \in Lambdas, EventDone(l) PROVE LostInv'
  <2>1. /\ event' = [event EXCEPT ![l] = NoEvent] /\ ~Handling(l) /\ event[l] # NoEvent
        /\ UNCHANGED <<texts, deliveries, failures>>
    BY <1>5 DEF EventDone
  <2>2. ~(event[l].at <= Len(event[l].records))
    BY <2>1 DEF Handling
  <2>3. \A n \in 1 .. Len(event[l].records) : n < event[l].at
    BY <1>0, <2>2, Slot
  <2>4. \A m \in Range(event[l].records) : texts[m] > 0
    BY <1>0, <2>3, Slot DEF PassedInv, Passed, Range
  <2>5. event'[l] = NoEvent /\ \A k \in Lambdas \ {l} : event'[k] = event[k]
    BY <1>0, <2>1 DEF TypeOK
  <2>6. Range(event'[l].records) = {} /\ Len(event'[l].records) = 0
    BY <2>5 DEF NoEvent, Event, Range
  <2>7. Grows
    BY <1>0, <2>1 DEF Grows, TypeOK
  <2>8. NoTextLost'
    BY <1>0, <2>1, <2>4, <2>5, <2>7, LostKept
  <2>9. Passed(l)'
    BY <2>6 DEF Passed
  <2> QED BY <1>0, <2>5, <2>7, <2>8, <2>9, PassedKept DEF PassedInv
<1>6. CASE Life
  <2>1. UNCHANGED lambda
    BY <1>6 DEF Life, Start, Interrupt, Shutdown, CloseDB, Exit, Kill, Gone, Become
  <2> QED BY <2>1, <1>1 DEF lambda
<1>7. ASSUME NEW i \in Invocations,
             \/ Login(i) \/ Post(i) \/ GiveUp(i) \/ Answer(i) \/ Begin(i) \/ Commit(i)
             \/ Publish(i) \/ Finish(i) \/ HandlerFails(i) \/ Repeat(i)
      PROVE  LostInv'
  <2>1. UNCHANGED lambda
    BY <1>7 DEF Login, Post, GiveUp, Answer, Begin, Commit, Publish, Finish,
       HandlerFails, Repeat, Enter
  <2> QED BY <2>1, <1>1 DEF lambda
<1>8. CASE UNCHANGED vars
  BY <1>8, <1>1 DEF vars, lambda
<1> QED
  BY <1>2, <1>3, <1>4, <1>5, <1>6, <1>7, <1>8 DEF Next

(* A message that reached the lambda has been texted, is still being tried, or
   belonged to an event that was tried as often as events are. *)
THEOREM NothingLost == Spec => []NoTextLost
<1>1. Init => LostInv
  <2> SUFFICES ASSUME Init PROVE LostInv
    OBVIOUS
  <2>1. Range(NoEvent.records) = {} /\ Len(NoEvent.records) = 0
    BY DEF NoEvent, Event, Range
  <2>2. NoTextLost
    BY DEF Init, NoTextLost
  <2>3. PassedInv
    BY <2>1 DEF Init, PassedInv, Passed
  <2> QED BY <2>2, <2>3 DEF LostInv
<1>2. Init => TypeInv
  BY InitTypes
<1> QED BY <1>1, <1>2, TypeStep, LostStep, PTL DEF Spec, LostInv

-----------------------------------------------------------------------------
(* How many texts a message may have: each delivery puts it into one event,
   which has still to send it until the loop is past it.  An attempt that fails
   may have sent it, and gives it back at most once. *)
Awaits(l, m) == \E k \in 1 .. Len(event[l].records) :
                  event[l].at <= k /\ event[l].records[k] = m

Pending(m) == {l \in Lambdas : Awaits(l, m)}

Explained(m) == /\ IsFiniteSet(Pending(m))
                /\ texts[m] + Cardinality(Pending(m)) <= deliveries[m] + failures[m]

ExplainedInv == \A m \in Invocations : Explained(m)

(* A step of l adds at most l to the events that have still to send m. *)
LEMMA PendingStep ==
  ASSUME NEW l \in Lambdas, NEW m \in Invocations, IsFiniteSet(Pending(m)),
         \A k \in Lambdas \ {l} : event'[k] = event[k]
  PROVE  /\ IsFiniteSet(Pending(m)')
         /\ Cardinality(Pending(m)) \in Nat /\ Cardinality(Pending(m)') \in Nat
         /\ Cardinality(Pending(m)') <= Cardinality(Pending(m)) + 1
         /\ Awaits(l, m)' /\ Awaits(l, m) =>
              Cardinality(Pending(m)') <= Cardinality(Pending(m))
         /\ ~Awaits(l, m)' =>
              /\ Cardinality(Pending(m)') <= Cardinality(Pending(m))
              /\ Awaits(l, m) => Cardinality(Pending(m)') + 1 <= Cardinality(Pending(m))
<1>1. \A k \in Lambdas \ {l} : Awaits(k, m)' <=> Awaits(k, m)
  BY DEF Awaits
<1>2. Pending(m)' = {k \in Lambdas : Awaits(k, m)'}
  BY DEF Pending
<1>3. Pending(m)' \subseteq Pending(m) \cup {l}
  BY <1>1, <1>2 DEF Pending
<1>4. /\ IsFiniteSet(Pending(m) \cup {l})
      /\ Cardinality(Pending(m) \cup {l}) <= Cardinality(Pending(m)) + 1
  <2>1. Cardinality(Pending(m)) \in Nat
    BY FS_CardinalityType
  <2>2. /\ IsFiniteSet(Pending(m) \cup {l})
        /\ \/ Cardinality(Pending(m) \cup {l}) = Cardinality(Pending(m))
           \/ Cardinality(Pending(m) \cup {l}) = Cardinality(Pending(m)) + 1
    BY FS_AddElement
  <2> QED BY <2>1, <2>2
<1>5. /\ IsFiniteSet(Pending(m)')
      /\ Cardinality(Pending(m)') <= Cardinality(Pending(m) \cup {l})
  BY <1>3, <1>4, FS_Subset
<1>6. /\ Cardinality(Pending(m)) \in Nat /\ Cardinality(Pending(m)') \in Nat
      /\ Cardinality(Pending(m) \cup {l}) \in Nat
  BY <1>4, <1>5, FS_CardinalityType
<1>7. ASSUME Awaits(l, m)', Awaits(l, m)
      PROVE  Cardinality(Pending(m)') <= Cardinality(Pending(m))
  <2>1. Pending(m)' \subseteq Pending(m)
    BY <1>3, <1>7 DEF Pending
  <2> QED BY <2>1, FS_Subset
<1>8. ASSUME ~Awaits(l, m)'
      PROVE  /\ Cardinality(Pending(m)') <= Cardinality(Pending(m))
             /\ Awaits(l, m) => Cardinality(Pending(m)') + 1 <= Cardinality(Pending(m))
  <2>1. Pending(m)' \subseteq Pending(m) \ {l}
    BY <1>2, <1>3, <1>8
  <2>2. Cardinality(Pending(m)') <= Cardinality(Pending(m))
    BY <2>1, FS_Subset
  <2>3. ASSUME Awaits(l, m)
        PROVE  Cardinality(Pending(m)') + 1 <= Cardinality(Pending(m))
    <3>1. l \in Pending(m)
      BY <2>3 DEF Pending
    <3>2. /\ IsFiniteSet(Pending(m) \ {l})
          /\ Cardinality(Pending(m) \ {l}) = Cardinality(Pending(m)) - 1
      BY <3>1, FS_RemoveElement
    <3>3. Cardinality(Pending(m)') <= Cardinality(Pending(m) \ {l})
      BY <2>1, <3>2, FS_Subset
    <3> QED BY <1>6, <3>2, <3>3
  <2> QED BY <2>2, <2>3
<1>9. Cardinality(Pending(m)') <= Cardinality(Pending(m)) + 1
  BY <1>4, <1>5, <1>6
<1> QED BY <1>5, <1>6, <1>7, <1>8, <1>9

LEMMA ExplainedStep == TypeInv /\ ExplainedInv /\ [Next]_vars => ExplainedInv'
<1> SUFFICES ASSUME TypeInv, ExplainedInv, [Next]_vars, NEW m \in Invocations
             PROVE  Explained(m)'
  BY DEF ExplainedInv
<1>0. TypeOK /\ DistinctInv /\ Explained(m)
  BY DEF TypeInv, ExplainedInv
<1> DEFINE P == Cardinality(Pending(m))
<1>1. /\ IsFiniteSet(Pending(m)) /\ P \in Nat
      /\ texts[m] \in Nat /\ deliveries[m] \in Nat /\ failures[m] \in Nat
      /\ texts[m] + P <= deliveries[m] + failures[m]
  BY <1>0, FS_CardinalityType DEF Explained, TypeOK
<1>2. CASE UNCHANGED <<event, texts, deliveries, failures>>
  <2>1. Pending(m)' = Pending(m)
    BY <1>2 DEF Pending, Awaits
  <2> QED BY <1>1, <1>2, <2>1 DEF Explained
<1>3. ASSUME NEW l \in Lambdas, Deliver(l) PROVE Explained(m)'
  <2>1. PICK S \in (SUBSET topic) \ {{}} : \E order \in SetToSeqs(S) :
          /\ event' = [event EXCEPT ![l] = Event(order, 1, 0)]
          /\ deliveries' = [n \in Invocations |->
                              IF n \in S THEN deliveries[n] + 1 ELSE deliveries[n]]
    BY <1>3 DEF Deliver
  <2>2. PICK order \in SetToSeqs(S) :
          /\ event' = [event EXCEPT ![l] = Event(order, 1, 0)]
          /\ deliveries' = [n \in Invocations |->
                              IF n \in S THEN deliveries[n] + 1 ELSE deliveries[n]]
    BY <2>1
  <2>3. UNCHANGED <<texts, failures>>
    BY <1>3 DEF Deliver
  <2>4. Range(order) = S /\ order \in Seq(Invocations)
    BY <1>0, FS_Subset, Orders DEF TypeInv, TypeOK
  <2>5. event'[l].records = order /\ \A k \in Lambdas \ {l} : event'[k] = event[k]
    BY <1>0, <2>2 DEF TypeOK, Event
  <2>6. Awaits(l, m)' => m \in S
    BY <2>4, <2>5 DEF Awaits, Range
  <2>7. deliveries'[m] = IF m \in S THEN deliveries[m] + 1 ELSE deliveries[m]
    BY <2>2
  <2>8. /\ IsFiniteSet(Pending(m)') /\ Cardinality(Pending(m)') \in Nat
        /\ Cardinality(Pending(m)') <= P + 1
        /\ ~Awaits(l, m)' => Cardinality(Pending(m)') <= P
    BY <1>1, <2>5, PendingStep
  <2> HIDE DEF P
  <2> QED BY <1>1, <2>3, <2>6, <2>7, <2>8 DEF Explained
<1>4. ASSUME NEW l \in Lambdas, HandleRecord(l) PROVE Explained(m)'
  <2>1. /\ event' = [event EXCEPT ![l] = Event(event[l].records, event[l].at + 1,
                                               event[l].tries)]
        /\ texts' = [texts EXCEPT ![Record(l)] = texts[Record(l)] + 1]
        /\ UNCHANGED <<deliveries, failures>>
    BY <1>4 DEF HandleRecord
  <2>2. /\ event[l].at \in 1 .. Len(event[l].records) /\ Len(event[l].records) \in Nat
        /\ Record(l) = event[l].records[event[l].at] /\ Record(l) \in Invocations
    BY <1>0, <1>4, Current, Slot DEF HandleRecord
  <2>3. /\ event'[l].records = event[l].records /\ event'[l].at = event[l].at + 1
        /\ \A k \in Lambdas \ {l} : event'[k] = event[k]
    BY <1>0, <2>1 DEF TypeOK, Event
  <2>4. Awaits(l, m)' => Awaits(l, m)
    BY <2>2, <2>3 DEF Awaits
  <2>5. m = Record(l) => Awaits(l, m)
    BY <2>2 DEF Awaits
  <2>6. m = Record(l) => ~Awaits(l, m)'
    <3>1. \A k \in 1 .. Len(event[l].records) :
            event[l].at + 1 <= k => event[l].records[k] # Record(l)
      BY <1>0, <2>2 DEF DistinctInv
    <3> QED BY <2>3, <3>1 DEF Awaits
  <2>7. texts'[m] = IF m = Record(l) THEN texts[m] + 1 ELSE texts[m]
    <3>1. texts \in [Invocations -> Nat]
      BY <1>0 DEF TypeOK
    <3> QED BY <2>1, <2>2, <3>1
  <2>8. /\ IsFiniteSet(Pending(m)') /\ Cardinality(Pending(m)') \in Nat
        /\ Awaits(l, m)' /\ Awaits(l, m) => Cardinality(Pending(m)') <= P
        /\ ~Awaits(l, m)' => /\ Cardinality(Pending(m)') <= P
                             /\ Awaits(l, m) => Cardinality(Pending(m)') + 1 <= P
    BY <1>1, <2>3, PendingStep
  <2> HIDE DEF P
  <2> QED BY <1>1, <2>1, <2>4, <2>5, <2>6, <2>7, <2>8 DEF Explained
<1>5. ASSUME NEW l \in Lambdas, AttemptFails(l) PROVE Explained(m)'
  <2>1. /\ UNCHANGED deliveries
        /\ failures' = [n \in Invocations |-> IF n \in Range(event[l].records)
                                                THEN failures[n] + 1 ELSE failures[n]]
        /\ event' = [event EXCEPT ![l] =
                       IF event[l].tries + 1 = MaxAttempts THEN NoEvent
                       ELSE Event(event[l].records, 1, event[l].tries + 1)]
        /\ texts' = texts \/ texts' = [texts EXCEPT ![Record(l)] = texts[Record(l)] + 1]
    BY <1>5 DEF AttemptFails
  <2>2. /\ event[l].at \in 1 .. Len(event[l].records) /\ Len(event[l].records) \in Nat
        /\ Record(l) = event[l].records[event[l].at] /\ Record(l) \in Invocations
        /\ Record(l) \in Range(event[l].records)
    BY <1>0, <1>5, Current, Slot DEF AttemptFails
  <2>3. /\ event'[l].records = <<>> \/ event'[l].records = event[l].records
        /\ \A k \in Lambdas \ {l} : event'[k] = event[k]
    <3>1. NoEvent.records = <<>>
      BY DEF NoEvent, Event
    <3>2. /\ event'[l] = NoEvent
             \/ event'[l] = Event(event[l].records, 1, event[l].tries + 1)
          /\ \A k \in Lambdas \ {l} : event'[k] = event[k]
      BY <1>0, <2>1 DEF TypeOK
    <3>3. Event(event[l].records, 1, event[l].tries + 1).records = event[l].records
      BY DEF Event
    <3> QED BY <3>1, <3>2, <3>3
  <2>4. Awaits(l, m)' => m \in Range(event[l].records)
    <3>1. ASSUME Awaits(l, m)' PROVE m \in Range(event[l].records)
      <4>1. Len(<<>>) = 0
        OBVIOUS
      <4>2. event'[l].records = event[l].records
        BY <2>3, <3>1, <4>1 DEF Awaits
      <4>3. \E k \in 1 .. Len(event[l].records) : event[l].records[k] = m
        BY <3>1, <4>2 DEF Awaits
      <4> QED BY <1>0, <4>3, Slot DEF Range
    <3> QED BY <3>1
  <2>5. m = Record(l) => Awaits(l, m) /\ m \in Range(event[l].records)
    BY <2>2 DEF Awaits
  <2>6. texts'[m] = texts[m] \/ (m = Record(l) /\ texts'[m] = texts[m] + 1)
    <3>1. texts \in [Invocations -> Nat]
      BY <1>0 DEF TypeOK
    <3>2. CASE texts' = texts
      BY <3>2
    <3>3. CASE texts' = [texts EXCEPT ![Record(l)] = texts[Record(l)] + 1]
      BY <2>2, <3>1, <3>3
    <3> QED BY <2>1, <3>2, <3>3
  <2>7. failures'[m] = IF m \in Range(event[l].records) THEN failures[m] + 1 ELSE failures[m]
    BY <2>1
  <2>8. /\ IsFiniteSet(Pending(m)') /\ Cardinality(Pending(m)') \in Nat
        /\ Cardinality(Pending(m)') <= P + 1
        /\ Awaits(l, m)' /\ Awaits(l, m) => Cardinality(Pending(m)') <= P
        /\ ~Awaits(l, m)' => Cardinality(Pending(m)') <= P
    BY <1>1, <2>3, PendingStep
  <2> HIDE DEF P
  <2> QED BY <1>1, <2>1, <2>4, <2>5, <2>6, <2>7, <2>8 DEF Explained
<1>6. ASSUME NEW l \in Lambdas, EventDone(l) PROVE Explained(m)'
  <2>1. /\ event' = [event EXCEPT ![l] = NoEvent]
        /\ UNCHANGED <<texts, deliveries, failures>>
    BY <1>6 DEF EventDone
  <2>2. event'[l].records = <<>> /\ \A k \in Lambdas \ {l} : event'[k] = event[k]
    BY <1>0, <2>1 DEF TypeOK, NoEvent, Event
  <2>3. ~Awaits(l, m)'
    <3>1. Len(<<>>) = 0
      OBVIOUS
    <3> QED BY <2>2, <3>1 DEF Awaits
  <2>4. /\ IsFiniteSet(Pending(m)') /\ Cardinality(Pending(m)') \in Nat
        /\ ~Awaits(l, m)' => Cardinality(Pending(m)') <= P
    BY <1>1, <2>2, PendingStep
  <2> HIDE DEF P
  <2> QED BY <1>1, <2>1, <2>3, <2>4 DEF Explained
<1>7. CASE Life
  <2>1. UNCHANGED lambda
    BY <1>7 DEF Life, Start, Interrupt, Shutdown, CloseDB, Exit, Kill, Gone, Become
  <2> QED BY <2>1, <1>2 DEF lambda
<1>8. ASSUME NEW i \in Invocations,
             \/ Login(i) \/ Post(i) \/ GiveUp(i) \/ Answer(i) \/ Begin(i) \/ Commit(i)
             \/ Publish(i) \/ Finish(i) \/ HandlerFails(i) \/ Repeat(i)
      PROVE  Explained(m)'
  <2>1. UNCHANGED lambda
    BY <1>8 DEF Login, Post, GiveUp, Answer, Begin, Commit, Publish, Finish,
       HandlerFails, Repeat, Enter
  <2> QED BY <2>1, <1>2 DEF lambda
<1>9. CASE UNCHANGED vars
  BY <1>9, <1>2 DEF vars, lambda
<1> QED
  BY <1>3, <1>4, <1>5, <1>6, <1>7, <1>8, <1>9 DEF Next

(* A message is texted at most once for each event it was in and each attempt
   at those that failed. *)
THEOREM RepeatsExplained == Spec => []TextsExplained
<1>1. Init => ExplainedInv
  <2> SUFFICES ASSUME Init, NEW m \in Invocations PROVE Explained(m)
    BY DEF ExplainedInv
  <2>1. NoEvent.records = <<>> /\ Len(<<>>) = 0
    BY DEF NoEvent, Event
  <2>2. Pending(m) = {}
    BY <2>1 DEF Init, Pending, Awaits
  <2>3. texts[m] = 0 /\ deliveries[m] = 0 /\ failures[m] = 0
    BY DEF Init
  <2> QED BY <2>2, <2>3, FS_EmptySet DEF Explained
<1>2. TypeInv /\ ExplainedInv => TextsExplained
  <2> SUFFICES ASSUME TypeInv, ExplainedInv, NEW m \in Invocations
               PROVE  texts[m] <= deliveries[m] + failures[m]
    BY DEF TextsExplained
  <2>1. /\ Cardinality(Pending(m)) \in Nat /\ texts[m] \in Nat
        /\ deliveries[m] \in Nat /\ failures[m] \in Nat
        /\ texts[m] + Cardinality(Pending(m)) <= deliveries[m] + failures[m]
    BY FS_CardinalityType DEF ExplainedInv, Explained, TypeInv, TypeOK
  <2> QED BY <2>1
<1> QED BY <1>1, <1>2, InitTypes, TypeStep, ExplainedStep, PTL DEF Spec
=============================================================================
