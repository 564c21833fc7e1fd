---------------------------- MODULE AtomicStore ----------------------------
(***************************************************************************)
(* What every Persist* method of the backend promises its caller: a call   *)
(* stores a batch of rows, and the table gains all of the rows of the      *)
(* batch or none of them, however the calls interleave.  A call that       *)
(* returns no error has stored its batch; a call that returns an error     *)
(* may have (the acknowledgement of the COMMIT can be lost), but never     *)
(* only a part of it.  Rows are never removed.  What a call returns as new *)
(* is the part of its batch that was not stored before, exactly.           *)
(***************************************************************************)
CONSTANTS Calls,    \* the calls that may be in progress at the same time
          Row       \* the rows the tables can hold

VARIABLES db,       \* the rows that are stored
          batch,    \* batch[c]: the rows call c was asked to store
          fresh,    \* fresh[c]: whether call c returns the rows that were new
          outcome,  \* outcome[c]: "running", or how the last run of c ended
          reported  \* the rows that calls returned as new, with no error

vars == <<db, batch, fresh, outcome, reported>>

Outcome == {"none", "ok", "error", "panic", "killed"}

Init == /\ db = {}
        /\ batch = [c \in Calls |-> {}]
        /\ fresh \in [Calls -> BOOLEAN]
        /\ outcome = [c \in Calls |-> "none"]
        /\ reported = {}

Start(c) == /\ outcome[c] # "running"
            /\ outcome' = [outcome EXCEPT ![c] = "running"]
            /\ batch' \in [Calls -> SUBSET Row]
            /\ fresh' \in [Calls -> BOOLEAN]
            /\ \A d \in Calls \ {c} : batch'[d] = batch[d] /\ fresh'[d] = fresh[d]
            /\ UNCHANGED <<db, reported>>

Store(c) == /\ outcome[c] = "running"
            /\ db' = db \cup batch[c]
            /\ \/ /\ outcome' = [outcome EXCEPT ![c] = "ok"]
                  /\ reported' = IF fresh[c] THEN reported \cup (batch[c] \ db)
                                             ELSE reported
               \/ /\ outcome' = [outcome EXCEPT ![c] = "error"]
                  /\ UNCHANGED reported
            /\ UNCHANGED <<batch, fresh>>

(* Several calls fail at once when the process dies. *)
Fail(S) == /\ \A c \in S : outcome[c] = "running"
           /\ \E o \in Outcome \ {"ok"} :
                outcome' = [c \in Calls |-> IF c \in S THEN o ELSE outcome[c]]
           /\ UNCHANGED <<db, batch, fresh, reported>>

Next == \/ \E c \in Calls : Start(c) \/ Store(c)
        \/ \E S \in (SUBSET Calls) \ {{}} : Fail(S)

Spec == Init /\ [][Next]_vars
=============================================================================
