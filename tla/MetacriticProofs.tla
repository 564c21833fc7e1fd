-------------------------- MODULE MetacriticProofs --------------------------
(***************************************************************************)
(* Theorems about MetacriticRefresh, for any number of calls, pages,       *)
(* titles and places in the group, and whatever the pages list; then about *)
(* MetacriticSaved: while users save posts, the refreshes do what they do  *)
(* without them, and what users are told is saved stays readable.          *)
(***************************************************************************)
EXTENDS MetacriticSaved, FiniteSetTheorems, WellFoundedInduction, TLAPS

-----------------------------------------------------------------------------
(* Only the transaction of a worker that inserts holds titles, none of them
   stored yet, and no two hold the same one. *)
HoldInv ==
  /\ \A w \in Workers : /\ wpc[w] # "insert" => own[w] = {}
                        /\ wpc[w] \in {"none", "fetch"} => item[w] = 1
                        /\ \A t \in own[w] : table[t] = NoMedium
  /\ \A v, w \in Workers : \A t \in own[v] : t \in own[w] => v = w

(* What the loop has passed is stored or held; after COMMIT all is stored. *)
StoredInv ==
  \A w \in Workers : \A i \in DOMAIN posts[w] :
    /\ wpc[w] = "insert" /\ i < item[w]
         => posts[w][i] \in own[w] \/ table[posts[w][i]] # NoMedium
    /\ wpc[w] = "sleep" \/ (wpc[w] = "done" /\ ~failed[w[1]])
         => table[posts[w][i]] # NoMedium

(* The pages before next have their workers; a 200 means all of them ended well. *)
StartedInv ==
  \A f \in Refreshes :
    /\ pc[f] = "wait" => next[f] = Jobs + 1
    /\ pc[f] \in {"loop", "go", "wait"}
         => \A j \in 1 .. Jobs : j < next[f] <=> wpc[<<f, j>>] # "none"
    /\ pc[f] = "ok" => ~failed[f] /\ \A j \in 1 .. Jobs : wpc[<<f, j>>] = "done"

RefreshInv == TypeOK /\ HoldInv /\ StoredInv /\ StartedInv

-----------------------------------------------------------------------------
LEMMA WorkerParts ==
  ASSUME NEW w \in Workers
  PROVE  w[1] \in Refreshes /\ w[2] \in 1 .. Jobs /\ w = <<w[1], w[2]>>
BY DEF Workers

LEMMA WorkerOf ==
  ASSUME NEW f \in Refreshes, NEW j \in 1 .. Jobs
  PROVE  <<f, j>> \in Workers /\ <<f, j>>[1] = f /\ <<f, j>> \in WorkersOf(f)
BY DEF Workers, WorkersOf

(* An INSERT that need not wait takes a title that nobody else holds. *)
LEMMA TitleFree ==
  ASSUME TypeOK, HoldInv, NEW w \in Workers, Inserting(w), ~Waiting(w),
         table[Title(w)] = NoMedium, NEW v \in Workers, Title(w) \in own[v]
  PROVE  v = w
BY DEF HoldInv, Waiting, WaitsFor

LEMMA TitleTyped ==
  ASSUME TypeOK, NEW w \in Workers, Inserting(w)
  PROVE  /\ Title(w) \in Titles
         /\ item[w] \in DOMAIN posts[w]
         /\ item[w] + 1 \in Nat \ {0} /\ item[w] + 1 <= Len(posts[w]) + 1
BY DEF TypeOK, Inserting, Title

(* COMMIT stores what the transaction holds, and changes no row. *)
LEMMA StoredKeeps ==
  ASSUME TypeOK, HoldInv, NEW w \in Workers
  PROVE  /\ Stored(w) \in [Titles -> {MediumOf[j] : j \in 1 .. Jobs} \cup {NoMedium}]
         /\ \A t \in Titles : table[t] # NoMedium => Stored(w)[t] = table[t]
         /\ \A t \in own[w] : Stored(w)[t] # NoMedium
         /\ \A t \in Titles \ own[w] : Stored(w)[t] = table[t]
<1>1. MediumOf[w[2]] \in {MediumOf[j] : j \in 1 .. Jobs} /\ MediumOf[w[2]] # NoMedium
  BY WorkerParts, JobsAssumption
<1>2. own[w] \subseteq Titles
  BY DEF TypeOK
<1> QED
  BY <1>1, <1>2 DEF Stored, HoldInv, TypeOK

-----------------------------------------------------------------------------
LEMMA InitRefresh == Init => RefreshInv
<1> SUFFICES ASSUME Init PROVE RefreshInv
  OBVIOUS
<1>1. TypeOK
  BY JobsAssumption DEF Init, TypeOK
<1>2. HoldInv
  BY DEF Init, HoldInv
<1>3. StoredInv
  BY DEF Init, StoredInv
<1>4. StartedInv
  BY JobsAssumption DEF Init, StartedInv
<1> QED
  BY <1>1, <1>2, <1>3, <1>4 DEF RefreshInv

-----------------------------------------------------------------------------
(* The steps of refresh itself store nothing and hold nothing. *)
LEMMA RefreshStep ==
  ASSUME RefreshInv, NEW f \in Refreshes,
         Refresh(f) \/ Loop(f) \/ Go(f) \/ Wait(f)
  PROVE  RefreshInv'
<1> USE DEF RefreshInv
<1>1. CASE Refresh(f)
  <2>1. TypeOK'
    BY <1>1, JobsAssumption DEF Refresh, TypeOK
  <2>2. \A w \in Workers : w[1] = f => own[w] = {}
    BY <1>1, WorkerParts DEF Refresh, Active, WorkersOf, HoldInv, TypeOK
  <2>3. HoldInv'
    BY <1>1, <2>2 DEF Refresh, HoldInv, TypeOK
  <2>4. StoredInv'
    <3> SUFFICES ASSUME NEW w \in Workers, NEW i \in DOMAIN posts'[w]
                 PROVE  /\ wpc'[w] = "insert" /\ i < item'[w]
                             => posts'[w][i] \in own'[w] \/ table'[posts'[w][i]] # NoMedium
                        /\ wpc'[w] = "sleep" \/ (wpc'[w] = "done" /\ ~failed'[w[1]])
                             => table'[posts'[w][i]] # NoMedium
      BY DEF StoredInv
    <3>1. CASE w[1] = f
      BY <1>1, <3>1 DEF Refresh
    <3>2. CASE w[1] # f
      <4>1. /\ wpc'[w] = wpc[w] /\ posts'[w] = posts[w] /\ item'[w] = item[w]
            /\ failed'[w[1]] = failed[w[1]]
        BY <1>1, <3>2, WorkerParts DEF Refresh, TypeOK
      <4> QED
        BY <1>1, <4>1 DEF Refresh, StoredInv
    <3> QED
      BY <3>1, <3>2
  <2>5. StartedInv'
    <3>1. \A g \in Refreshes, j \in 1 .. Jobs :
             wpc'[<<g, j>>] = IF g = f THEN "none" ELSE wpc[<<g, j>>]
      BY <1>1, WorkerOf DEF Refresh
    <3>2. pc'[f] = "loop" /\ next'[f] = 1
      BY <1>1 DEF Refresh, TypeOK
    <3>3. \A g \in Refreshes \ {f} : /\ pc'[g] = pc[g] /\ next'[g] = next[g]
                                     /\ failed'[g] = failed[g]
      BY <1>1 DEF Refresh, TypeOK
    <3> SUFFICES ASSUME NEW g \in Refreshes
                 PROVE  /\ pc'[g] = "wait" => next'[g] = Jobs + 1
                        /\ pc'[g] \in {"loop", "go", "wait"}
                             => \A j \in 1 .. Jobs :
                                  j < next'[g] <=> wpc'[<<g, j>>] # "none"
                        /\ pc'[g] = "ok"
                             => ~failed'[g] /\ \A j \in 1 .. Jobs : wpc'[<<g, j>>] = "done"
      BY DEF StartedInv
    <3>4. CASE g = f
      BY <3>1, <3>2, <3>4
    <3>5. CASE g # f
      BY <3>1, <3>3, <3>5 DEF StartedInv
    <3> QED
      BY <3>4, <3>5
  <2> QED
    BY <2>1, <2>3, <2>4, <2>5
<1>2. CASE Loop(f)
  <2>1. TypeOK'
    <3>1. pc' \in [Refreshes -> {"idle", "loop", "go", "wait", "ok", "error"}]
      BY <1>2 DEF Loop, TypeOK
    <3>2. \A g \in Refreshes : pc'[g] = "go" => next'[g] <= Jobs
      BY <1>2, JobsAssumption DEF Loop, TypeOK
    <3> QED
      BY <1>2, <3>1, <3>2 DEF Loop, TypeOK
  <2>2. HoldInv' /\ StoredInv'
    BY <1>2 DEF Loop, HoldInv, StoredInv
  <2>3. StartedInv'
    BY <1>2, JobsAssumption DEF Loop, StartedInv, TypeOK
  <2> QED
    BY <2>1, <2>2, <2>3
<1>3. CASE Go(f)
  <2>1. next[f] \in 1 .. Jobs
    BY <1>3, JobsAssumption DEF Go, TypeOK
  <2> DEFINE x == <<f, next[f]>>
  <2>2. x \in Workers
    BY <2>1, WorkerOf
  <2>3. TypeOK'
    BY <1>3, <2>1, <2>2, JobsAssumption DEF Go, TypeOK
  <2>4. wpc[x] = "none"
    BY <1>3, <2>1, JobsAssumption DEF Go, StartedInv, TypeOK
  <2>5. /\ wpc'[x] = "fetch"
        /\ \A w \in Workers : w # x => wpc'[w] = wpc[w]
    BY <1>3, <2>2 DEF Go, TypeOK
  <2>6. own[x] = {} /\ item[x] = 1
    BY <2>2, <2>4 DEF HoldInv
  <2>7. HoldInv'
    BY <1>3, <2>5, <2>6 DEF Go, HoldInv
  <2>8. StoredInv'
    BY <1>3, <2>5 DEF Go, StoredInv
  <2>9. StartedInv'
    <3> SUFFICES ASSUME NEW g \in Refreshes
                 PROVE  /\ pc'[g] = "wait" => next'[g] = Jobs + 1
                        /\ pc'[g] \in {"loop", "go", "wait"}
                             => \A j \in 1 .. Jobs :
                                  j < next'[g] <=> wpc'[<<g, j>>] # "none"
                        /\ pc'[g] = "ok"
                             => ~failed'[g] /\ \A j \in 1 .. Jobs : wpc'[<<g, j>>] = "done"
      BY DEF StartedInv
    <3>1. CASE g = f
      <4>1. pc'[f] = "loop" /\ next'[f] = next[f] + 1
        BY <1>3 DEF Go, TypeOK
      <4>2. ASSUME NEW j \in 1 .. Jobs
            PROVE  j < next'[f] <=> wpc'[<<f, j>>] # "none"
        <5>1. CASE j = next[f]
          BY <2>5, <4>1, <5>1, JobsAssumption
        <5>2. CASE j # next[f]
          <6>1. <<f, j>> # x /\ <<f, j>> \in Workers
            BY <5>2, WorkerOf
          <6>2. j < next[f] <=> wpc[<<f, j>>] # "none"
            BY <1>3 DEF Go, StartedInv
          <6> QED
            BY <2>1, <2>5, <4>1, <5>2, <6>1, <6>2, JobsAssumption
        <5> QED
          BY <5>1, <5>2
      <4> QED
        BY <3>1, <4>1, <4>2
    <3>2. CASE g # f
      <4>1. \A j \in 1 .. Jobs : wpc'[<<g, j>>] = wpc[<<g, j>>]
        BY <2>5, <3>2, WorkerOf
      <4>2. pc'[g] = pc[g] /\ next'[g] = next[g] /\ failed'[g] = failed[g]
        BY <1>3, <3>2 DEF Go, TypeOK
      <4> QED
        BY <4>1, <4>2 DEF StartedInv
    <3> QED
      BY <3>1, <3>2
  <2> QED
    BY <2>3, <2>7, <2>8, <2>9
<1>4. CASE Wait(f)
  <2>1. TypeOK'
    BY <1>4 DEF Wait, TypeOK
  <2>2. HoldInv' /\ StoredInv'
    BY <1>4 DEF Wait, HoldInv, StoredInv
  <2>3. \A j \in 1 .. Jobs : wpc[<<f, j>>] = "done"
    <3> SUFFICES ASSUME NEW j \in 1 .. Jobs PROVE wpc[<<f, j>>] = "done"
      OBVIOUS
    <3>1. <<f, j>> \in Workers /\ <<f, j>> \notin Active(f)
      BY <1>4, WorkerOf DEF Wait
    <3>2. wpc[<<f, j>>] # "none"
      BY <1>4, JobsAssumption DEF Wait, StartedInv
    <3> QED
      BY <3>1, <3>2, WorkerOf DEF Active, TypeOK
  <2>4. StartedInv'
    BY <1>4, <2>3 DEF Wait, StartedInv, TypeOK
  <2> QED
    BY <2>1, <2>2, <2>4
<1> QED
  BY <1>1, <1>2, <1>3, <1>4

(* A worker's own steps, but for COMMIT. *)
LEMMA WorkerStep ==
  ASSUME RefreshInv, NEW w \in Workers,
         \/ FetchPosts(w) \/ Insert(w) \/ Awake(w)
         \/ Return(w) /\ UNCHANGED table
            /\ (wpc[w] = "fetch" \/ wpc[w] = "insert")
  PROVE  RefreshInv'
<1> USE DEF RefreshInv
<1>0. /\ w[1] \in Refreshes /\ w[2] \in 1 .. Jobs /\ w = <<w[1], w[2]>>
  BY WorkerParts
<1>1. CASE FetchPosts(w)
  <2>1. PICK page \in Listed[w[2]] : posts' = [posts EXCEPT ![w] = page]
    BY <1>1 DEF FetchPosts
  <2>2. page \in Seq(Titles)
    BY <1>0, JobsAssumption
  <2>3. item[w] = 1 /\ own[w] = {}
    BY <1>1 DEF FetchPosts, HoldInv
  <2>4. TypeOK'
    BY <1>1, <2>1, <2>2, <2>3 DEF FetchPosts, TypeOK
  <2>5. HoldInv'
    BY <1>1, <2>3 DEF FetchPosts, HoldInv, TypeOK
  <2>6. StoredInv'
    BY <1>1, <2>1, <2>2, <2>3 DEF FetchPosts, StoredInv, TypeOK
  <2>7. StartedInv'
    BY <1>1 DEF FetchPosts, StartedInv, TypeOK
  <2> QED
    BY <2>4, <2>5, <2>6, <2>7
<1>2. CASE Insert(w)
  <2>1. /\ Title(w) \in Titles /\ item[w] \in DOMAIN posts[w]
        /\ item[w] + 1 \in Nat \ {0} /\ item[w] + 1 <= Len(posts[w]) + 1
    BY <1>2, TitleTyped DEF Insert
  <2>2. wpc[w] = "insert" /\ ~failed[w[1]]
    BY <1>2 DEF Insert, Inserting
  <2>3. TypeOK'
    BY <1>2, <2>1 DEF Insert, TypeOK
  <2>4. HoldInv'
    <3>1. CASE table[Title(w)] = NoMedium
      <4>1. \A v \in Workers : Title(w) \in own[v] => v = w
        BY <1>2, <3>1, TitleFree DEF Insert
      <4>2. own' = [own EXCEPT ![w] = own[w] \cup {Title(w)}]
        BY <1>2, <3>1 DEF Insert
      <4> QED
        BY <1>2, <2>2, <3>1, <4>1, <4>2 DEF Insert, HoldInv, TypeOK
    <3>2. CASE table[Title(w)] # NoMedium
      BY <1>2, <2>2, <3>2 DEF Insert, HoldInv, TypeOK
    <3> QED
      BY <3>1, <3>2
  <2>5. StoredInv'
    <3>1. posts[w][item[w]] \in own'[w] \/ table[posts[w][item[w]]] # NoMedium
      BY <1>2 DEF Insert, Title, TypeOK
    <3>2. own[w] \subseteq own'[w]
      BY <1>2 DEF Insert, TypeOK
    <3> QED
      BY <1>2, <2>1, <2>2, <3>1, <3>2 DEF Insert, StoredInv, TypeOK
  <2>6. StartedInv'
    BY <1>2 DEF Insert, StartedInv
  <2> QED
    BY <2>3, <2>4, <2>5, <2>6
<1>3. CASE Awake(w)
  <2>1. TypeOK'
    BY <1>3 DEF Awake, TypeOK
  <2>2. HoldInv'
    BY <1>3 DEF Awake, HoldInv, TypeOK
  <2>3. StoredInv'
    BY <1>3 DEF Awake, StoredInv, TypeOK
  <2>4. StartedInv'
    BY <1>3 DEF Awake, StartedInv, TypeOK
  <2> QED
    BY <2>1, <2>2, <2>3, <2>4
<1>4. CASE Return(w) /\ UNCHANGED table /\ (wpc[w] = "fetch" \/ wpc[w] = "insert")
  <2>1. TypeOK'
    BY <1>0, <1>4 DEF Return, TypeOK
  <2>2. HoldInv'
    BY <1>4 DEF Return, HoldInv, TypeOK
  <2>3. StoredInv'
    BY <1>0, <1>4 DEF Return, StoredInv, TypeOK
  <2>4. StartedInv'
    BY <1>0, <1>4 DEF Return, StartedInv, TypeOK
  <2> QED
    BY <2>1, <2>2, <2>3, <2>4
<1> QED
  BY <1>1, <1>2, <1>3, <1>4

(* COMMIT, whether or not its answer gets back. *)
LEMMA CommitStep ==
  ASSUME RefreshInv, NEW w \in Workers,
         wpc[w] = "insert" /\ ~Inserting(w) /\ table' = Stored(w),
         \/ Commit(w)
         \/ Return(w)
  PROVE  RefreshInv'
<1> USE DEF RefreshInv
<1>0. /\ w[1] \in Refreshes /\ w[2] \in 1 .. Jobs /\ w = <<w[1], w[2]>>
  BY WorkerParts
<1>1. /\ table' \in [Titles -> {MediumOf[j] : j \in 1 .. Jobs} \cup {NoMedium}]
      /\ \A t \in Titles : table[t] # NoMedium => table'[t] = table[t]
      /\ \A t \in own[w] : table'[t] # NoMedium
      /\ \A t \in Titles \ own[w] : table'[t] = table[t]
  BY StoredKeeps
<1>2. own' = [own EXCEPT ![w] = {}] /\ posts' = posts /\ item' = item
  BY DEF Commit, Return
<1>3. \/ wpc' = [wpc EXCEPT ![w] = "sleep"] /\ failed' = failed
      \/ wpc' = [wpc EXCEPT ![w] = "done"] /\ failed' = [failed EXCEPT ![w[1]] = TRUE]
  BY DEF Commit, Return
<1>4. pc' = pc /\ next' = next
  BY DEF Commit, Return
<1>5. TypeOK'
  BY <1>0, <1>1, <1>2, <1>3, <1>4 DEF TypeOK
<1>6. HoldInv'
  <2>1. ASSUME NEW v \in Workers, NEW t \in own'[v]
        PROVE  table'[t] = NoMedium
    <3>1. v # w /\ t \in own[v] /\ t \in Titles
      BY <1>2, <2>1 DEF TypeOK
    <3>2. t \notin own[w] /\ table[t] = NoMedium
      BY <3>1 DEF HoldInv
    <3> QED
      BY <1>1, <3>1, <3>2
  <2> QED
    BY <1>2, <1>3, <2>1 DEF HoldInv, TypeOK
<1>7. StoredInv'
  <2> SUFFICES ASSUME NEW v \in Workers, NEW i \in DOMAIN posts'[v]
               PROVE  /\ wpc'[v] = "insert" /\ i < item'[v]
                           => posts'[v][i] \in own'[v] \/ table'[posts'[v][i]] # NoMedium
                      /\ wpc'[v] = "sleep" \/ (wpc'[v] = "done" /\ ~failed'[v[1]])
                           => table'[posts'[v][i]] # NoMedium
    BY DEF StoredInv
  <2>1. i \in DOMAIN posts[v] /\ posts'[v] = posts[v] /\ posts[v][i] \in Titles
    BY <1>2 DEF TypeOK
  <2>2. CASE v = w
    <3>1. i < item[w]
      BY <2>1, <2>2 DEF Inserting, TypeOK
    <3>2. posts[w][i] \in own[w] \/ table[posts[w][i]] # NoMedium
      BY <2>1, <2>2, <3>1 DEF StoredInv
    <3>3. table'[posts[w][i]] # NoMedium
      BY <1>1, <2>1, <2>2, <3>2
    <3> QED
      BY <1>3, <2>1, <2>2, <3>3 DEF TypeOK
  <2>3. CASE v # w
    <3>1. /\ own'[v] = own[v] /\ wpc'[v] = wpc[v] /\ item'[v] = item[v]
          /\ failed[v[1]] => failed'[v[1]]
      BY <1>0, <1>2, <1>3, <2>3, WorkerParts DEF TypeOK
    <3>2. table[posts[v][i]] # NoMedium => table'[posts[v][i]] # NoMedium
      BY <1>1, <2>1
    <3> QED
      BY <2>1, <3>1, <3>2 DEF StoredInv
  <2> QED
    BY <2>2, <2>3
<1>8. StartedInv'
  <2>1. pc[w[1]] # "ok"
    BY <1>0 DEF StartedInv
  <2>2. \A g \in Refreshes, j \in 1 .. Jobs :
           /\ wpc'[<<g, j>>] # "none" <=> wpc[<<g, j>>] # "none"
           /\ g # w[1] => wpc'[<<g, j>>] = wpc[<<g, j>>]
    <3>1. wpc'[w] # "none" /\ \A v \in Workers : v # w => wpc'[v] = wpc[v]
      BY <1>3 DEF TypeOK
    <3> SUFFICES ASSUME NEW g \in Refreshes, NEW j \in 1 .. Jobs
                 PROVE  /\ wpc'[<<g, j>>] # "none" <=> wpc[<<g, j>>] # "none"
                        /\ g # w[1] => wpc'[<<g, j>>] = wpc[<<g, j>>]
      OBVIOUS
    <3>2. <<g, j>> \in Workers /\ (<<g, j>> = w => g = w[1])
      BY <1>0, WorkerOf
    <3>3. CASE <<g, j>> = w
      BY <3>1, <3>2, <3>3
    <3>4. CASE <<g, j>> # w
      BY <3>1, <3>2, <3>4
    <3> QED
      BY <3>3, <3>4
  <2>3. \A g \in Refreshes : g # w[1] => failed'[g] = failed[g]
    BY <1>0, <1>3 DEF TypeOK
  <2> QED
    BY <1>4, <2>1, <2>2, <2>3 DEF StartedInv
<1> QED
  BY <1>5, <1>6, <1>7, <1>8

LEMMA RefreshContinues == RefreshInv /\ [Next]_vars => RefreshInv'
<1> SUFFICES ASSUME RefreshInv, [Next]_vars PROVE RefreshInv'
  OBVIOUS
<1>1. ASSUME NEW f \in Refreshes, Refresh(f) \/ Loop(f) \/ Go(f) \/ Wait(f)
      PROVE  RefreshInv'
  BY <1>1, RefreshStep
<1>2. ASSUME NEW w \in Workers, FetchPosts(w) \/ Insert(w) \/ Awake(w)
      PROVE  RefreshInv'
  BY <1>2, WorkerStep
<1>3. ASSUME NEW w \in Workers, Commit(w) PROVE RefreshInv'
  BY <1>3, CommitStep DEF Commit
<1>4. ASSUME NEW w \in Workers, WorkerFails(w) PROVE RefreshInv'
  <2>1. CASE UNCHANGED table
    BY <1>4, <2>1, WorkerStep DEF WorkerFails
  <2>2. CASE wpc[w] = "insert" /\ ~Inserting(w) /\ table' = Stored(w)
    BY <1>4, <2>2, CommitStep DEF WorkerFails
  <2> QED
    BY <1>4, <2>1, <2>2 DEF WorkerFails
<1>5. ASSUME NEW w \in Workers, Cancelled(w) PROVE RefreshInv'
  <2>1. wpc[w] = "fetch" \/ wpc[w] = "insert"
    BY <1>5 DEF Cancelled, Inserting
  <2> QED
    BY <1>5, <2>1, WorkerStep DEF Cancelled
<1>6. ASSUME NEW w \in Workers, DeadlockAbort(w) PROVE RefreshInv'
  <2>1. wpc[w] = "insert"
    BY <1>6 DEF DeadlockAbort, Deadlocked, Waiting, WaitsFor, Inserting
  <2> QED
    BY <1>6, <2>1, WorkerStep DEF DeadlockAbort
<1>7. CASE Crash
  <2>1. TypeOK'
    BY <1>7, JobsAssumption DEF Crash, TypeOK, RefreshInv
  <2>2. HoldInv' /\ StoredInv'
    BY <1>7 DEF Crash, HoldInv, StoredInv, RefreshInv
  <2>3. StartedInv'
    BY <1>7 DEF Crash, StartedInv
  <2> QED
    BY <2>1, <2>2, <2>3 DEF RefreshInv
<1>8. CASE UNCHANGED vars
  BY <1>8 DEF vars, RefreshInv, TypeOK, HoldInv, StoredInv, StartedInv,
              Inserting, Title
<1> QED
  BY <1>1, <1>2, <1>3, <1>4, <1>5, <1>6, <1>7, <1>8 DEF Next

LEMMA RefreshInvariant == Spec => []RefreshInv
<1>1. Init => RefreshInv
  BY InitRefresh
<1>2. RefreshInv /\ [Next]_vars => RefreshInv'
  BY RefreshContinues
<1> QED
  BY <1>1, <1>2, PTL DEF Spec

-----------------------------------------------------------------------------
(* The variables of every refresh and worker stay well typed, and none is
   started for a page there is not. *)
THEOREM RefreshTypes == Spec => []TypeOK
<1>1. RefreshInv => TypeOK
  BY DEF RefreshInv
<1> QED
  BY <1>1, RefreshInvariant, PTL

(* 200 is only answered when all titles of all pages are stored, also those
   whose insert was skipped for a transaction of another refresh. *)
THEOREM OkStored == Spec => []OkMeansStored
<1>1. RefreshInv => OkMeansStored
  <2> SUFFICES ASSUME RefreshInv, NEW f \in Refreshes, pc[f] = "ok",
                      NEW w \in WorkersOf(f)
               PROVE  /\ wpc[w] = "done"
                      /\ \A i \in DOMAIN posts[w] : table[posts[w][i]] # NoMedium
    BY DEF OkMeansStored
  <2>1. PICK j \in 1 .. Jobs : w = <<f, j>>
    BY DEF WorkersOf
  <2>2. w \in Workers /\ w[1] = f
    BY <2>1, WorkerOf
  <2>3. wpc[w] = "done" /\ ~failed[f]
    BY <2>1 DEF RefreshInv, StartedInv
  <2> QED
    BY <2>2, <2>3 DEF RefreshInv, StoredInv
<1> QED
  BY <1>1, RefreshInvariant, PTL

(* What a transaction holds is on its page. *)
HeldInv == \A w \in Workers : \A t \in own[w] : \E i \in DOMAIN posts[w] : posts[w][i] = t

LEMMA HeldStep == RefreshInv /\ HeldInv /\ [Next]_vars => HeldInv'
<1> SUFFICES ASSUME RefreshInv, HeldInv, [Next]_vars,
                    NEW v \in Workers, NEW t \in own'[v]
             PROVE  \E i \in DOMAIN posts'[v] : posts'[v][i] = t
  BY DEF HeldInv
<1>0. /\ TypeOK /\ own \in [Workers -> SUBSET Titles]
      /\ \A w \in Workers : wpc[w] # "insert" => own[w] = {}
  BY DEF RefreshInv, TypeOK, HoldInv
<1>1. ASSUME posts'[v] = posts[v], t \in own[v] PROVE \E i \in DOMAIN posts'[v] : posts'[v][i] = t
  BY <1>1 DEF HeldInv
<1>2. ASSUME NEW f \in Refreshes, Refresh(f) PROVE \E i \in DOMAIN posts'[v] : posts'[v][i] = t
  <2>1. v[1] = f => own[v] = {}
    BY <1>0, <1>2, WorkerParts DEF Refresh, Active, WorkersOf, TypeOK
  <2>2. own' = own /\ (v[1] # f => posts'[v] = posts[v])
    BY <1>2 DEF Refresh
  <2> QED BY <1>1, <2>1, <2>2
<1>3. ASSUME NEW w \in Workers, FetchPosts(w) PROVE \E i \in DOMAIN posts'[v] : posts'[v][i] = t
  <2>1. own' = own /\ own[w] = {}
    BY <1>0, <1>3 DEF FetchPosts
  <2>2. v # w => posts'[v] = posts[v]
    BY <1>3 DEF FetchPosts
  <2> QED BY <1>1, <2>1, <2>2
<1>4. ASSUME NEW w \in Workers, Insert(w) PROVE \E i \in DOMAIN posts'[v] : posts'[v][i] = t
  <2>1. posts' = posts /\ own'[v] \subseteq IF v = w THEN own[v] \cup {Title(w)} ELSE own[v]
    BY <1>0, <1>4 DEF Insert
  <2>2. item[w] \in DOMAIN posts[w] /\ Title(w) = posts[w][item[w]]
    BY <1>0, <1>4, TitleTyped DEF Insert, Title
  <2> QED BY <1>1, <2>1, <2>2
<1>5. CASE posts' = posts /\ own'[v] \subseteq own[v]
  BY <1>1, <1>5
<1>6. ASSUME NEW w \in Workers, posts' = posts, own' = [own EXCEPT ![w] = {}]
      PROVE  \E i \in DOMAIN posts'[v] : posts'[v][i] = t
  <2>1. own'[v] \subseteq own[v]
    BY <1>0, <1>6
  <2> QED BY <1>5, <1>6, <2>1
<1>7. CASE Crash
  BY <1>7 DEF Crash
<1> QED
  BY <1>2, <1>3, <1>4, <1>5, <1>6, <1>7
     DEF Next, vars, Loop, Go, Wait, Commit, Awake, WorkerFails, Cancelled, DeadlockAbort, Return

(* What a COMMIT stores is the whole page. *)
LEMMA CommitStoresPage ==
  ASSUME RefreshInv, HeldInv, NEW w \in Workers, wpc[w] = "insert", ~Inserting(w)
  PROVE  Stored(w) = PageStored(w)
<1>0. posts[w] \in Seq(Titles) /\ item[w] \in Nat
  BY DEF RefreshInv, TypeOK
<1>1. \A i \in DOMAIN posts[w] : posts[w][i] \in own[w] \/ table[posts[w][i]] # NoMedium
  <2>1. \A i \in DOMAIN posts[w] : i < item[w]
    BY <1>0 DEF Inserting
  <2> QED BY <2>1 DEF RefreshInv, StoredInv
<1>2. \A t \in own[w] : table[t] = NoMedium /\ \E i \in DOMAIN posts[w] : posts[w][i] = t
  BY DEF RefreshInv, HoldInv, HeldInv
<1>3. ASSUME NEW t \in Titles PROVE Stored(w)[t] = PageStored(w)[t]
  <2>1. t \in own[w] <=> table[t] = NoMedium /\ \E i \in DOMAIN posts[w] : posts[w][i] = t
    BY <1>1, <1>2
  <2> QED BY <2>1 DEF Stored, PageStored
<1> QED BY <1>3 DEF Stored, PageStored

(* PersistPosts is atomic: whatever the workers of a refresh and their
   transactions come to, a page is stored whole in one step or not at all, and
   no step changes a row that is there. *)
THEOREM PagesAreWhole == Spec => PagesWhole
<1>1. Init => HeldInv
  BY DEF Init, HeldInv
<1>2. ASSUME RefreshInv, HeldInv, [Next]_vars
      PROVE  table' = table \/ \E w \in Workers : wpc[w] = "insert" /\ table' = PageStored(w)
  <2>1. table' = table \/ \E w \in Workers : wpc[w] = "insert" /\ ~Inserting(w) /\ table' = Stored(w)
    BY <1>2 DEF Next, vars, Refresh, Loop, Go, Wait, FetchPosts, Insert, Commit, Awake,
                WorkerFails, Cancelled, DeadlockAbort, Crash
  <2> QED BY <1>2, <2>1, CommitStoresPage
<1>3. RefreshInv /\ HeldInv /\ [Next]_vars
        => [table' = table \/ \E w \in Workers : wpc[w] = "insert" /\ table' = PageStored(w)]_vars
  BY <1>2
<1> QED
  BY <1>1, <1>3, RefreshInvariant, HeldStep, PTL DEF Spec, PagesWhole

-----------------------------------------------------------------------------
(* Where everyone in a finite set waits for someone in it, there is a cycle. *)
LEMMA CycleExists ==
  ASSUME NEW S, IsFiniteSet(S), S # {}, NEW W, \A x \in S : \E y \in S : <<x, y>> \in W
  PROVE  \E T \in SUBSET S : /\ T # {}
                            /\ \A x \in T : /\ \E y \in T : <<x, y>> \in W
                                           /\ \E y \in T : <<y, x>> \in W
<1> DEFINE Closed == {T \in SUBSET S : T # {} /\ \A x \in T : \E y \in T : <<x, y>> \in W}
<1>1. IsWellFoundedOn(StrictSubsetOrdering(S), SUBSET S)
  BY FS_StrictSubsetOrderingWellFounded, FS_FiniteSubsetsOfFinite
<1>2. Closed \subseteq SUBSET S /\ S \in Closed
  OBVIOUS
<1>3. PICK T \in Closed : \A U \in Closed : ~ (<<U, T>> \in StrictSubsetOrdering(S))
  <2> HIDE DEF Closed
  <2> QED BY <1>1, <1>2, WFMin
<1> DEFINE U == {y \in T : \E x \in T : <<x, y>> \in W}
<1>4. U \in Closed
  <2>1. U # {}
    BY <1>3
  <2>2. ASSUME NEW x \in U PROVE \E y \in U : <<x, y>> \in W
    BY <1>3
  <2> QED BY <1>3, <2>1, <2>2
<1>5. U = T
  <2>1. <<U, T>> \notin StrictSubsetOrdering(S)
    BY <1>3, <1>4
  <2>2. U \in SUBSET S /\ T \in SUBSET S /\ U \subseteq T
    BY <1>3
  <2> HIDE DEF U, Closed
  <2> QED BY <2>1, <2>2 DEF StrictSubsetOrdering
<1>6. T \in SUBSET S /\ T # {}
  BY <1>3
<1>7. \A x \in T : \E y \in T : <<x, y>> \in W
  BY <1>3
<1>8. \A y \in T : \E x \in T : <<x, y>> \in W
  <2> SUFFICES ASSUME NEW y \in T PROVE \E x \in T : <<x, y>> \in W
    OBVIOUS
  <2>1. y \in U
    BY <1>5
  <2> QED BY <2>1
<1> HIDE DEF U, Closed
<1> QED BY <1>6, <1>7, <1>8

(* A title that is held is held by a worker with an open transaction, so where
   all inserting workers wait, some of them are on a cycle. *)
LEMMA WaitersCycle ==
  ASSUME RefreshInv, IsFiniteSet(Refreshes),
         NEW b \in Workers, wpc[b] = "insert", \A w \in Workers : wpc[w] = "insert" => Waiting(w)
  PROVE  \E w \in Workers : Deadlocked(w)
<1> DEFINE S == {w \in Workers : wpc[w] = "insert"}
           W == {vw \in Workers \X Workers : WaitsFor(vw[1], vw[2])}
<1>1. IsFiniteSet(S) /\ S # {}
  <2>1. IsFiniteSet(1 .. Jobs)
    BY JobsAssumption, FS_Interval
  <2>2. IsFiniteSet(Workers)
    BY <2>1, FS_Product DEF Workers
  <2> QED BY <2>2, FS_Subset
<1>2. ASSUME NEW v \in S PROVE \E w \in S : <<v, w>> \in W
  <2>1. PICK w \in Workers : WaitsFor(v, w)
    BY DEF Waiting
  <2>2. wpc[w] = "insert"
    BY <2>1 DEF WaitsFor, RefreshInv, HoldInv
  <2> QED BY <2>1, <2>2
<1>3. PICK T \in SUBSET S : /\ T # {}
                           /\ \A v \in T : /\ \E w \in T : <<v, w>> \in W
                                          /\ \E w \in T : <<w, v>> \in W
  <2> HIDE DEF S, W
  <2> QED BY <1>1, <1>2, CycleExists
<1>4. \A v \in T : /\ \E w \in T : WaitsFor(v, w)
                  /\ \E w \in T : WaitsFor(w, v)
  BY <1>3
<1>5. PICK v \in T : TRUE
  BY <1>3
<1>6. T \in SUBSET Workers /\ v \in Workers /\ Waiting(v)
  BY <1>4 DEF Waiting
<1> QED BY <1>4, <1>6 DEF Deadlocked

(* A refresh that is not answered yet, or a worker that has not ended, finds
   someone who can go on without a failure: it is at the head of its loop,
   there is a place in its group or nobody left to wait for, or a worker has
   a request, a statement or its sleep before it that no other holds up, or
   Postgres finds it on a cycle. *)
SomeoneGoesOn ==
  (\E f \in Refreshes : pc[f] \in {"loop", "go", "wait"} \/ Active(f) # {})
    => \/ \E f \in Refreshes : \/ pc[f] = "loop"
                               \/ pc[f] = "go" /\ Cardinality(Active(f)) < Limit
                               \/ pc[f] = "wait" /\ Active(f) = {}
       \/ \E w \in Workers : \/ wpc[w] \in {"fetch", "sleep"}
                             \/ wpc[w] = "insert" /\ ~Waiting(w)
                             \/ Deadlocked(w)

(* The refreshes are never all stuck, neither on the places of their groups nor
   on each other's titles. *)
THEOREM RefreshesNeverStuck ==
  ASSUME IsFiniteSet(Refreshes)
  PROVE  Spec => []SomeoneGoesOn
<1>1. RefreshInv => SomeoneGoesOn
  <2> SUFFICES ASSUME RefreshInv, NEW f \in Refreshes,
                      pc[f] \in {"loop", "go", "wait"} \/ Active(f) # {},
                      ~ \E g \in Refreshes : \/ pc[g] = "loop"
                                             \/ pc[g] = "go" /\ Cardinality(Active(g)) < Limit
                                             \/ pc[g] = "wait" /\ Active(g) = {},
                      ~ \E w \in Workers : \/ wpc[w] \in {"fetch", "sleep"}
                                           \/ wpc[w] = "insert" /\ ~Waiting(w)
               PROVE  \E w \in Workers : Deadlocked(w)
    BY DEF SomeoneGoesOn
  <2>1. Active(f) # {}
    <3>1. Cardinality({}) < Limit
      BY JobsAssumption, FS_EmptySet
    <3> QED BY <3>1
  <2>2. PICK b \in Workers : wpc[b] = "insert"
    <3>1. PICK w \in WorkersOf(f) : wpc[w] \in {"fetch", "insert", "sleep"}
      BY <2>1 DEF Active
    <3>2. w \in Workers
      BY DEF WorkersOf, Workers
    <3> QED BY <3>1, <3>2
  <2> QED BY <2>2, WaitersCycle
<1> QED BY <1>1, RefreshInvariant, PTL

-----------------------------------------------------------------------------
(* Users who save posts. *)

(* Saving posts is a stuttering step of the refreshes. *)
THEOREM SavingStutters == SSpec => Spec
<1>1. SInit => Init
  BY DEF SInit
<1>2. [SNext]_<<vars, svars>> => [Next]_vars
  BY DEF SNext, SavePosts, svars
<1> QED BY <1>1, <1>2, PTL DEF SSpec, Spec

(* A refresh that is answered with 200 has stored its pages, whatever users
   save. *)
THEOREM OkStoredWithSaves == SSpec => []OkMeansStored
BY SavingStutters, OkStored, PTL

-----------------------------------------------------------------------------
(* A row of saved_metacritic_posts has its post; what was
   answered with 201 has a row. *)
SavedInv ==
  /\ saved \in [Users -> [Titles -> Nat]]
  /\ created \subseteq Users \X Titles
  /\ \A u \in Users, t \in Titles : saved[u][t] > 0 => table[t] # NoMedium
  /\ \A c \in created : saved[c[1]][c[2]] > 0

LEMMA OccursType ==
  ASSUME NEW n \in Nat, NEW ids \in [1 .. n -> Titles], NEW t \in Titles
  PROVE  /\ Occurs(t, ids) \in Nat
         /\ \A i \in 1 .. n : ids[i] = t => Occurs(t, ids) > 0
         /\ Occurs(t, ids) > 0 => \E i \in 1 .. n : ids[i] = t
<1> DEFINE O == {i \in 1 .. n : ids[i] = t}
<1>1. IsFiniteSet(O) /\ Occurs(t, ids) = Cardinality(O)
  <2>1. O \subseteq 1 .. n /\ IsFiniteSet(1 .. n)
    BY FS_Interval
  <2>2. IsFiniteSet(O)
    BY <2>1, FS_Subset
  <2> QED BY <2>2 DEF Occurs
<1>2. Cardinality(O) \in Nat /\ (Cardinality(O) = 0 <=> O = {})
  <2> HIDE DEF O
  <2> QED BY <1>1, FS_CardinalityType, FS_EmptySet
<1>3. \A i \in 1 .. n : ids[i] = t => i \in O
  OBVIOUS
<1>4. O # {} => \E i \in 1 .. n : ids[i] = t
  OBVIOUS
<1> HIDE DEF O
<1> QED BY <1>1, <1>2, <1>3, <1>4

LEMMA MoreAdds ==
  ASSUME saved \in [Users -> [Titles -> Nat]], NEW u \in Users,
         NEW n \in Nat, NEW ids \in [1 .. n -> Titles]
  PROVE  /\ More(u, ids) \in [Users -> [Titles -> Nat]]
         /\ \A v \in Users, t \in Titles :
              More(u, ids)[v][t]
                = IF v = u THEN saved[u][t] + Occurs(t, ids) ELSE saved[v][t]
<1>1. \A t \in Titles : saved[u][t] + Occurs(t, ids) \in Nat
  BY OccursType
<1> QED BY <1>1 DEF More

LEMMA SavedStep == RefreshInv /\ SavedInv /\ [SNext]_<<vars, svars>> => SavedInv'
<1> SUFFICES ASSUME RefreshInv, SavedInv, [SNext]_<<vars, svars>> PROVE SavedInv'
  OBVIOUS
<1>1. \A t \in Titles : table[t] # NoMedium => table'[t] = table[t]
  <2>1. ASSUME [Next]_vars, NEW t \in Titles, table[t] # NoMedium PROVE table'[t] = table[t]
    <3>1. table' = table \/ \E w \in Workers : table' = Stored(w)
      BY <2>1 DEF Next, vars, Refresh, Loop, Go, Wait, FetchPosts, Insert, Commit, Awake,
             WorkerFails, Cancelled, DeadlockAbort, Crash
    <3> QED BY <2>1, <3>1, StoredKeeps DEF RefreshInv
  <2>2. [Next]_vars
    BY DEF SNext, SavePosts, svars
  <2> QED BY <2>1, <2>2
<1>2. CASE UNCHANGED svars
  BY <1>1, <1>2 DEF SavedInv, svars
<1>3. ASSUME NEW u \in Users, SavePosts(u) PROVE SavedInv'
  <2>1. table' = table
    BY <1>3 DEF SavePosts, vars
  <2>2. PICK n \in 1 .. MaxSaves : \E ids \in [1 .. n -> Titles] :
          SaveAll(u, ids) \/ UNCHANGED <<saved, created>>
    BY <1>3 DEF SavePosts
  <2>3. PICK ids \in [1 .. n -> Titles] :
          SaveAll(u, ids) \/ UNCHANGED <<saved, created>>
    BY <2>2
  <2>n. n \in Nat
    BY SavedAssumption
  <2>4. \A t \in Titles : /\ Occurs(t, ids) \in Nat
                          /\ \A i \in 1 .. n : ids[i] = t => Occurs(t, ids) > 0
                          /\ Occurs(t, ids) > 0 => \E i \in 1 .. n : ids[i] = t
    BY <2>n, OccursType
  <2>m. /\ More(u, ids) \in [Users -> [Titles -> Nat]]
        /\ \A v \in Users, t \in Titles :
             More(u, ids)[v][t]
               = IF v = u THEN saved[u][t] + Occurs(t, ids) ELSE saved[v][t]
    <3>1. saved \in [Users -> [Titles -> Nat]]
      BY DEF SavedInv
    <3> QED BY <2>n, <3>1, MoreAdds, ZenonT(30)
  <2>5. CASE SaveAll(u, ids)
    <3>1. /\ saved' \in [Users -> [Titles -> Nat]]
          /\ \A v \in Users, t \in Titles :
               saved'[v][t] = IF v = u THEN saved[u][t] + Occurs(t, ids) ELSE saved[v][t]
      BY <2>5, <2>m DEF SaveAll
    <3>2. /\ \A i \in 1 .. n : table[ids[i]] # NoMedium
          /\ created' \subseteq created \cup {<<u, ids[i]>> : i \in 1 .. n}
      BY <2>5 DEF SaveAll
    <3>3. \A v \in Users, t \in Titles : saved'[v][t] > 0 => table'[t] # NoMedium
      <4> SUFFICES ASSUME NEW v \in Users, NEW t \in Titles
                   PROVE  saved'[v][t] > 0 => table'[t] # NoMedium
        OBVIOUS
      <4>1. saved[v][t] \in Nat /\ (saved[v][t] > 0 => table[t] # NoMedium)
        BY DEF SavedInv
      <4>2. Occurs(t, ids) \in Nat /\ (Occurs(t, ids) > 0 => table[t] # NoMedium)
        BY <2>4, <3>2
      <4>3. saved'[v][t] = IF v = u THEN saved[u][t] + Occurs(t, ids) ELSE saved[v][t]
        BY <3>1
      <4> QED BY <2>1, <4>1, <4>2, <4>3
    <3>4. \A c \in created' : c \in Users \X Titles /\ saved'[c[1]][c[2]] > 0
      <4> SUFFICES ASSUME NEW c \in created'
                   PROVE  c \in Users \X Titles /\ saved'[c[1]][c[2]] > 0
        OBVIOUS
      <4>1. CASE c \in created
        <5>1. /\ c[1] \in Users /\ c[2] \in Titles /\ c \in Users \X Titles
              /\ saved[c[1]][c[2]] \in Nat /\ saved[c[1]][c[2]] > 0
          BY <4>1 DEF SavedInv
        <5>2. saved'[c[1]][c[2]] >= saved[c[1]][c[2]]
          <6>1. saved'[c[1]][c[2]] = IF c[1] = u THEN saved[u][c[2]] + Occurs(c[2], ids)
                                      ELSE saved[c[1]][c[2]]
            BY <3>1, <5>1
          <6>2. Occurs(c[2], ids) \in Nat
            BY <2>4, <5>1
          <6> QED BY <5>1, <6>1, <6>2
        <5>3. saved'[c[1]][c[2]] \in Nat
          BY <3>1, <5>1
        <5> QED BY <5>1, <5>2, <5>3
      <4>2. CASE c \notin created
        <5>1. PICK i \in 1 .. n : c = <<u, ids[i]>>
          BY <3>2, <4>2
        <5>2. ids[i] \in Titles /\ saved[u][ids[i]] \in Nat
          BY DEF SavedInv
        <5>3. saved'[u][ids[i]] = saved[u][ids[i]] + Occurs(ids[i], ids)
          BY <3>1, <5>2
        <5>4. Occurs(ids[i], ids) \in Nat /\ Occurs(ids[i], ids) > 0
          BY <2>4, <5>2
        <5> QED BY <5>1, <5>2, <5>3, <5>4
      <4> QED BY <4>1, <4>2
    <3> QED BY <3>1, <3>3, <3>4 DEF SavedInv
  <2>6. CASE UNCHANGED <<saved, created>>
    BY <2>1, <2>6 DEF SavedInv
  <2> QED BY <2>3, <2>5, <2>6
<1> QED BY <1>2, <1>3 DEF SNext

LEMMA SavedInvariant == SSpec => [](RefreshInv /\ SavedInv)
<1>1. SInit => RefreshInv /\ SavedInv
  BY InitRefresh DEF SInit, SavedInv
<1>2. RefreshInv /\ SavedInv /\ [SNext]_<<vars, svars>> => (RefreshInv /\ SavedInv)'
  <2>1. [SNext]_<<vars, svars>> => [Next]_vars
    BY DEF SNext, SavePosts, svars
  <2> QED BY <2>1, RefreshContinues, SavedStep
<1> QED BY <1>1, <1>2, PTL DEF SSpec

(* A post whose saving was answered with 201 is read back, and getPosts lists
   it. *)
THEOREM SavedIsReadBack == SSpec => []SavedReadBack
<1>1. RefreshInv /\ SavedInv => SavedReadBack
  <2> SUFFICES ASSUME RefreshInv, SavedInv, NEW c \in created
               PROVE  \E m \in {MediumOf[j] : j \in 1 .. Jobs} :
                        /\ <<c[2], m>> \in GetSaved(c[1])
                        /\ \A min, max \in {Year[t] : t \in Titles} :
                             IsValid(m, min, max) /\ min <= Year[c[2]] /\ Year[c[2]] <= max
                               => c[2] \in GetPosts(m, min, max)
    BY DEF SavedReadBack
  <2>1. /\ c[1] \in Users /\ c[2] \in Titles /\ saved[c[1]][c[2]] > 0
        /\ table[c[2]] # NoMedium
    BY DEF SavedInv
  <2>2. table[c[2]] \in {MediumOf[j] : j \in 1 .. Jobs}
    BY <2>1 DEF RefreshInv, TypeOK
  <2>3. <<c[2], table[c[2]]>> \in GetSaved(c[1])
    BY <2>1 DEF GetSaved
  <2>4. \A min, max : min <= Year[c[2]] /\ Year[c[2]] <= max
          => c[2] \in GetPosts(table[c[2]], min, max)
    BY <2>1 DEF GetPosts
  <2> QED BY <2>2, <2>3, <2>4
<1> QED BY <1>1, SavedInvariant, PTL
==============================================================================
