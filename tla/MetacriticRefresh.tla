-------------------------- MODULE MetacriticRefresh --------------------------
(***************************************************************************)
(* refresh of the Metacritic controller: a group of at most Limit worker   *)
(* goroutines, one for each page of each medium, fetches the pages and     *)
(* stores them, each in a transaction of its own.  The first error cancels *)
(* the context of all; refresh then answers without waiting for the rest.  *)
(*                                                                         *)
(* The pages of two mediums list some of the same titles (a game for two   *)
(* platforms), in different orders, and a title has one row in             *)
(* metacritic_posts; its href, unique as well, is taken to go with it.     *)
(* Postgres is taken as in SpotifyStore: a conflicting insert waits for    *)
(* the transaction that holds the title, and a cycle of waits is broken by *)
(* failing one of its statements.                                          *)
(***************************************************************************)
EXTENDS Naturals, Sequences, FiniteSets

CONSTANTS Refreshes,  \* calls of refresh that may overlap
          Titles,
          Jobs,       \* the pages to fetch, in the order of the two loops
          MediumOf,   \* MediumOf[j]: the medium of page j
          Listed,     \* Listed[j]: what page j may be found to list
          NoMedium,
          Limit       \* HARDCODED_LIMIT

ASSUME JobsAssumption ==
  /\ Jobs \in Nat \ {0} /\ Limit \in Nat \ {0}
  /\ \A j \in 1 .. Jobs : MediumOf[j] # NoMedium /\ Listed[j] \subseteq Seq(Titles)

VARIABLES
  table,    \* table[t]: the medium of t's row of metacritic_posts
  pc,       \* pc[f]: where refresh f is, or how it ended
  next,     \* next[f]: the next page to start a worker for
  failed,   \* failed[f]: a worker failed, and the group's context is cancelled
  wpc,      \* wpc[w]: where worker w is
  posts,    \* posts[w]: the titles on w's page
  item,     \* item[w]: the index of the loop over them
  own       \* own[w]: the titles w's transaction inserted, not yet committed

vars == <<table, pc, next, failed, wpc, posts, item, own>>

-----------------------------------------------------------------------------
Workers == Refreshes \X (1 .. Jobs)

WorkersOf(f) == {f} \X (1 .. Jobs)

(* The goroutines of f that hold a place in its group. *)
Active(f) == {w \in WorkersOf(f) : wpc[w] \in {"fetch", "insert", "sleep"}}

Inserting(w) == wpc[w] = "insert" /\ item[w] <= Len(posts[w])

Title(w) == posts[w][item[w]]

(* The INSERT of w waits for v, which holds the title, uncommitted. *)
WaitsFor(w, v) == /\ w # v
                  /\ Inserting(w) /\ table[Title(w)] = NoMedium
                  /\ Title(w) \notin own[w] /\ Title(w) \in own[v]

Waiting(w) == \E v \in Workers : WaitsFor(w, v)

Deadlocked(w) ==
  Waiting(w) /\ \E S \in SUBSET Workers :
     /\ w \in S
     /\ \A v \in S : /\ \E u \in S : WaitsFor(v, u)
                     /\ \E u \in S : WaitsFor(u, v)

Init == /\ table = [t \in Titles |-> NoMedium]
        /\ pc = [f \in Refreshes |-> "idle"]
        /\ next = [f \in Refreshes |-> 1]
        /\ failed = [f \in Refreshes |-> FALSE]
        /\ wpc = [w \in Workers |-> "none"]
        /\ posts = [w \in Workers |-> <<>>]
        /\ item = [w \in Workers |-> 1]
        /\ own = [w \in Workers |-> {}]

(* A new call; the group of the last one has nothing running any more. *)
Refresh(f) ==
  /\ pc[f] \in {"idle", "ok", "error"} /\ Active(f) = {}
  /\ pc' = [pc EXCEPT ![f] = "loop"]
  /\ next' = [next EXCEPT ![f] = 1]
  /\ failed' = [failed EXCEPT ![f] = FALSE]
  /\ wpc' = [w \in Workers |-> IF w[1] = f THEN "none" ELSE wpc[w]]
  /\ posts' = [w \in Workers |-> IF w[1] = f THEN <<>> ELSE posts[w]]
  /\ item' = [w \in Workers |-> IF w[1] = f THEN 1 ELSE item[w]]
  /\ UNCHANGED <<table, own>>

Mut_OneMore(f) ==
  /\ pc[f] = "loop"
  /\ pc' = [pc EXCEPT ![f] = IF next[f] > Jobs + 1 THEN "wait"
                             ELSE IF failed[f] THEN "error" ELSE "go"]
  /\ UNCHANGED <<table, next, failed, wpc, posts, item, own>>

(* The head of the loop: no more pages, an error, or a worker to start. *)
Loop(f) ==
  /\ pc[f] = "loop"
  /\ pc' = [pc EXCEPT ![f] = IF next[f] > Jobs THEN "wait"
                             ELSE IF failed[f] THEN "error" ELSE "go"]
  /\ UNCHANGED <<table, next, failed, wpc, posts, item, own>>

(* g.Go blocks until there is a place in the group. *)
Go(f) ==
  /\ pc[f] = "go"
  /\ Cardinality(Active(f)) < Limit
  /\ wpc' = [wpc EXCEPT ![<<f, next[f]>>] = "fetch"]
  /\ next' = [next EXCEPT ![f] = @ + 1]
  /\ pc' = [pc EXCEPT ![f] = "loop"]
  /\ UNCHANGED <<table, failed, posts, item, own>>

(* g.Wait returns when all workers have, with the first error. *)
Wait(f) ==
  /\ pc[f] = "wait" /\ Active(f) = {}
  /\ pc' = [pc EXCEPT ![f] = IF failed[f] THEN "error" ELSE "ok"]
  /\ UNCHANGED <<table, next, failed, wpc, posts, item, own>>

(* FetchPosts, and the start of the transaction of PersistPosts. *)
FetchPosts(w) ==
  /\ wpc[w] = "fetch" /\ ~failed[w[1]]
  /\ \E page \in Listed[w[2]] : posts' = [posts EXCEPT ![w] = page]
  /\ wpc' = [wpc EXCEPT ![w] = "insert"]
  /\ UNCHANGED <<table, pc, next, failed, item, own>>

Mut_RetryConflict(w) ==
  /\ Inserting(w) /\ ~Waiting(w) /\ ~failed[w[1]]
  /\ item' = [item EXCEPT ![w] = IF table[Title(w)] = NoMedium THEN @ + 1 ELSE @]
  /\ own' = [own EXCEPT ![w] = IF table[Title(w)] = NoMedium THEN @ \cup {Title(w)} ELSE @]
  /\ UNCHANGED <<table, pc, next, failed, wpc, posts>>

(* INSERT ... ON CONFLICT DO NOTHING of the next title. *)
Insert(w) ==
  /\ Inserting(w) /\ ~Waiting(w) /\ ~failed[w[1]]
  /\ item' = [item EXCEPT ![w] = @ + 1]
  /\ own' = [own EXCEPT ![w] = IF table[Title(w)] = NoMedium THEN @ \cup {Title(w)} ELSE @]
  /\ UNCHANGED <<table, pc, next, failed, wpc, posts>>

Mut_Upsert(w) ==
  [t \in Titles |-> IF \E i \in DOMAIN posts[w] : posts[w][i] = t
                      THEN MediumOf[w[2]] ELSE table[t]]

Stored(w) ==
  [t \in Titles |-> IF t \in own[w] THEN MediumOf[w[2]] ELSE table[t]]

(* COMMIT, which the cancelled context does not stop, then a second's sleep. *)
Commit(w) ==
  /\ wpc[w] = "insert" /\ ~Inserting(w)
  /\ table' = Stored(w)
  /\ own' = [own EXCEPT ![w] = {}]
  /\ wpc' = [wpc EXCEPT ![w] = "sleep"]
  /\ UNCHANGED <<pc, next, failed, posts, item>>

Awake(w) ==
  /\ wpc[w] = "sleep"
  /\ wpc' = [wpc EXCEPT ![w] = "done"]
  /\ UNCHANGED <<table, pc, next, failed, posts, item, own>>

Mut_ErrorDropped(w) ==
  /\ own' = [own EXCEPT ![w] = {}]
  /\ wpc' = [wpc EXCEPT ![w] = "done"]
  /\ UNCHANGED <<pc, next, failed, posts, item>>

(* The worker rolls back and returns its error to the group. *)
Return(w) ==
  /\ own' = [own EXCEPT ![w] = {}]
  /\ failed' = [failed EXCEPT ![w[1]] = TRUE]
  /\ wpc' = [wpc EXCEPT ![w] = "done"]
  /\ UNCHANGED <<pc, next, posts, item>>

(* A request or statement fails; or COMMIT, maybe only its answer. *)
WorkerFails(w) ==
  /\ wpc[w] \in {"fetch", "insert"}
  /\ \/ UNCHANGED table
     \/ wpc[w] = "insert" /\ ~Inserting(w) /\ table' = Stored(w)
  /\ Return(w)

(* A request or statement under a cancelled context fails. *)
Cancelled(w) ==
  /\ failed[w[1]] /\ (wpc[w] = "fetch" \/ Inserting(w))
  /\ Return(w)
  /\ UNCHANGED table

DeadlockAbort(w) == Deadlocked(w) /\ Return(w) /\ UNCHANGED table

(* The server dies. *)
Crash ==
  /\ \E f \in Refreshes : pc[f] \in {"loop", "go", "wait"} \/ Active(f) # {}
  /\ pc' = [f \in Refreshes |-> "idle"]
  /\ next' = [f \in Refreshes |-> 1]
  /\ failed' = [f \in Refreshes |-> FALSE]
  /\ wpc' = [w \in Workers |-> "none"]
  /\ posts' = [w \in Workers |-> <<>>]
  /\ item' = [w \in Workers |-> 1]
  /\ own' = [w \in Workers |-> {}]
  /\ UNCHANGED table

Next == \/ \E f \in Refreshes : Refresh(f) \/ Loop(f) \/ Go(f) \/ Wait(f)
        \/ \E w \in Workers : \/ FetchPosts(w) \/ Insert(w) \/ Commit(w) \/ Awake(w)
                              \/ WorkerFails(w) \/ Cancelled(w) \/ DeadlockAbort(w)
        \/ Crash

Spec == Init /\ [][Next]_vars

(* Goroutines run when they can; requests have timeouts, Postgres detects
   deadlocks, and queues those who wait for a key, so that each gets its turn. *)
Fairness ==
  /\ \A f \in Refreshes : WF_vars(Loop(f) \/ Go(f) \/ Wait(f))
  /\ \A w \in Workers :
       /\ WF_vars(\/ FetchPosts(w) \/ Commit(w) \/ Awake(w)
                  \/ Cancelled(w) \/ DeadlockAbort(w))
       /\ SF_vars(Insert(w))

FairSpec == Spec /\ Fairness

-----------------------------------------------------------------------------
(* Types, and that go is entered only with a page left. *)
TypeOK ==
  /\ table \in [Titles -> {MediumOf[j] : j \in 1 .. Jobs} \cup {NoMedium}]
  /\ pc \in [Refreshes -> {"idle", "loop", "go", "wait", "ok", "error"}]
  /\ next \in [Refreshes -> 1 .. Jobs + 1]
  /\ \A f \in Refreshes : pc[f] = "go" => next[f] <= Jobs
  /\ failed \in [Refreshes -> BOOLEAN]
  /\ wpc \in [Workers -> {"none", "fetch", "insert", "sleep", "done"}]
  /\ posts \in [Workers -> Seq(Titles)]
  /\ item \in [Workers -> Nat \ {0}]
  /\ \A w \in Workers : item[w] <= Len(posts[w]) + 1
  /\ own \in [Workers -> SUBSET Titles]

(* A refresh that was answered with 200 has stored every title on each of
   its pages, whichever worker inserted it. *)
OkMeansStored ==
  \A f \in Refreshes : pc[f] = "ok" =>
    \A w \in WorkersOf(f) : /\ wpc[w] = "done"
                            /\ \A i \in DOMAIN posts[w] : table[posts[w][i]] # NoMedium

(* Whatever becomes of its transaction, a page is stored whole in one step or
   not at all: each title that has no row yet gets one of the page's medium,
   and a row that is there is never changed, by the pages of other mediums or
   by later ones. *)
PageStored(w) ==
  [t \in Titles |-> IF table[t] = NoMedium /\ \E i \in DOMAIN posts[w] : posts[w][i] = t
                      THEN MediumOf[w[2]] ELSE table[t]]

PagesWhole ==
  [][table' = table \/ \E w \in Workers : wpc[w] = "insert" /\ table' = PageStored(w)]_vars

(* Every refresh is answered, and its workers come to an end as well, also
   when they wait for each other in a cycle. *)
RefreshEnds ==
  \A f \in Refreshes : pc[f] \in {"loop", "go", "wait"} ~> pc[f] \notin {"loop", "go", "wait"}
                                                            /\ Active(f) = {}
=============================================================================
