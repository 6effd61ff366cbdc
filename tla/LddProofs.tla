----------------------------- MODULE LddProofs -----------------------------
(***************************************************************************)
(* Proofs about Ldd, for every set of file systems and any number of       *)
(* workers: what two of them do not do to each other, that the list ldd()  *)
(* returns is complete with respect to `visited`, that the workers         *)
(* implement Resolver, and that no library is missed where every name is   *)
(* in the ld.so.cache.  At the end, what replace_slice() does to a buffer. *)
(***************************************************************************)
EXTENDS Ldd, DataLemmas, FiniteSetTheorems

USE DEF Start, Claimed, Returned, Advance, AtCandidate, IsNew, NewItem, Enqueued

----------------------------------------------------------------------------
(***************************************************************************)
(* Types.                                                                  *)
(***************************************************************************)

\* The parts of the file system.
LEMMA WorldTypes ==
  ASSUME World(world)
  PROVE  /\ world.exists \subseteq Paths /\ world.dest \subseteq Paths
         /\ world.kind \in [Paths -> Kinds]
         /\ \A p \in Paths : world.needed[p] \in Seq(Names)
         /\ world.rpath \in [Paths -> SUBSET Dirs]
         /\ \A n \in Names : world.cache[n] \in Seq(Paths)
         /\ world.args \in Seq(Paths)
BY DEF World

\* The item a busy worker holds, its lpaths and its DT_NEEDED names.
LEMMA ItemTypes ==
  ASSUME TypeOK, NEW i \in DOMAIN log
  PROVE  /\ i \in 1..Len(log)
         /\ log[i] \in Item
         /\ ItemPath(i) \in Paths
         /\ Lpaths(i) \in SUBSET Dirs
         /\ world.needed[ItemPath(i)] \in Seq(Names)
<1>1. i \in 1..Len(log) /\ log[i] \in Item
  BY DEF TypeOK
<1>2. ItemPath(i) \in Paths /\ log[i].lpaths \in SUBSET Dirs
  BY <1>1 DEF Item, ItemPath
<1>3. world.rpath[ItemPath(i)] \in SUBSET Dirs /\ world.needed[ItemPath(i)] \in Seq(Names)
  BY <1>2, WorldTypes DEF TypeOK
<1> QED
  BY <1>1, <1>2, <1>3 DEF Lpaths

\* Every candidate of every search loop is a canonical path.
LEMMA CandidatesTypes ==
  ASSUME World(world), NEW ph \in {"lpaths", "cache", "default"},
         NEW ord \in Seq(Dirs), NEW n \in Names
  PROVE  Candidates(ph, ord, n) \in Seq(Paths)
<1>1. \A d \in Dirs : Joined[d][n] \in Paths
  BY LddAssumption
<1>2. CASE ph = "lpaths"
  <2>1. \A k \in 1..Len(ord) : ord[k] \in Dirs
    OBVIOUS
  <2>2. [k \in 1..Len(ord) |-> Joined[ord[k]][n]] \in Seq(Paths)
    BY <1>1, <2>1
  <2> QED
    BY <1>2, <2>2 DEF Candidates
<1>3. CASE ph = "cache"
  BY <1>3, WorldTypes DEF Candidates
<1>4. CASE ph = "default"
  <2>1. Len(DefaultLibdirs) \in Nat /\ \A k \in 1..Len(DefaultLibdirs) : DefaultLibdirs[k] \in Dirs
    BY LddAssumption
  <2>2. [k \in 1..Len(DefaultLibdirs) |-> Joined[DefaultLibdirs[k]][n]] \in Seq(Paths)
    BY <1>1, <2>1
  <2> QED
    BY <1>4, <2>2 DEF Candidates
<1> QED
  BY <1>2, <1>3, <1>4

\* A worker that searches stands on a path or behind the last one.
LEMMA WorkerCandidatesTypes ==
  ASSUME TypeOK, NEW w \in Workers, pc[w] # "idle", dep[w] <= Len(Needed(w))
  PROVE  /\ DepName(w) \in Names
         /\ WorkerCandidates(w) \in Seq(Paths)
         /\ pos[w] <= Len(WorkerCandidates(w)) => Candidate(w) \in Paths
<1>1. cur[w] \in DOMAIN log /\ dep[w] \in Nat \ {0} /\ pos[w] \in Nat \ {0}
      /\ phase[w] \in {"lpaths", "cache", "default"} /\ order[w] \in Seq(Dirs)
      /\ World(world)
  BY DEF TypeOK
<1>2. Needed(w) \in Seq(Names)
  BY <1>1, ItemTypes DEF Needed
<1>3. DepName(w) \in Names
  BY <1>1, <1>2 DEF DepName
<1>4. WorkerCandidates(w) \in Seq(Paths)
  BY <1>1, <1>3, CandidatesTypes DEF WorkerCandidates
<1>5. ASSUME pos[w] <= Len(WorkerCandidates(w)) PROVE Candidate(w) \in Paths
  BY <1>1, <1>4, <1>5 DEF Candidate
<1> QED
  BY <1>3, <1>4, <1>5

\* A HashSet of directories is iterated as a sequence of its elements.
LEMMA OrdersTypes ==
  ASSUME NEW S \in SUBSET Dirs, NEW s \in IterationOrders(S)
  PROVE  /\ s \in Seq(Dirs)
         /\ \A k \in 1..Len(s) : s[k] \in S
<1>1. Cardinality(S) \in Nat
  BY LddAssumption, FS_Subset, FS_CardinalityType
<1>2. s \in [1..Cardinality(S) -> S]
  BY DEF IterationOrders
<1> QED
  BY <1>1, <1>2

----------------------------------------------------------------------------
(***************************************************************************)
(* What a step of one worker leaves alone.                                 *)
(***************************************************************************)

\* Items keep their place in the queue's history, the file system stays, and
\* the locals of the other workers are untouched.
LEMMA StepFrame ==
  ASSUME TypeOK, NEW w \in Workers, WorkerStep(w)
  PROVE  /\ world' = world
         /\ \A i \in DOMAIN log : i \in DOMAIN log' /\ log'[i] = log[i]
         /\ visited \subseteq visited'
         /\ claimed \subseteq claimed'
         /\ results \subseteq results'
         /\ \A v \in Workers \ {w} :
              /\ pc'[v] = pc[v] /\ cur'[v] = cur[v] /\ order'[v] = order[v]
              /\ dep'[v] = dep[v] /\ phase'[v] = phase[v] /\ pos'[v] = pos[v]
<1> USE DEF shared, local
<1>0. log \in Seq(Item)
  BY DEF TypeOK
<1>1. CASE \E i \in DOMAIN log \ claimed : SkipInstalled(w, i) \/ Take(w, i)
  BY <1>1, <1>0 DEF SkipInstalled, Take, TypeOK
<1>2. CASE Unreadable(w) \/ DependencyNotFound(w) \/ AllSearched(w)
  BY <1>2 DEF Unreadable, DependencyNotFound, AllSearched, Return, TypeOK
<1>3. CASE PanicOnLoad(w) \/ Parse(w)
  BY <1>3 DEF PanicOnLoad, Parse, TypeOK
<1>4. CASE InsertNew(w) \/ AlreadyVisited(w)
  BY <1>4 DEF InsertNew, AlreadyVisited, NextDep, NextCandidate, TypeOK
<1>5. CASE Enqueue(w)
  <2>1. \E it : log' = Append(log, it)
    BY <1>5 DEF Enqueue
  <2>2. \A i \in DOMAIN log : i \in DOMAIN log' /\ log'[i] = log[i]
    BY <2>1, <1>0
  <2> QED
    BY <1>5, <2>2 DEF Enqueue, NextDep, NextCandidate, TypeOK
<1>6. CASE NotHere(w) \/ LpathsExhausted(w) \/ CacheExhausted(w)
  BY <1>6 DEF NotHere, LpathsExhausted, CacheExhausted, NextDep, NextCandidate, TypeOK
<1> QED
  BY <1>1, <1>2, <1>3, <1>4, <1>5, <1>6 DEF WorkerStep

\* What a search looks at depends on its cursors and on its item only.
LEMMA SearchStable ==
  ASSUME world' = world, \A i \in DOMAIN log : log'[i] = log[i],
         NEW v \in Workers, cur[v] \in DOMAIN log,
         cur'[v] = cur[v], order'[v] = order[v], dep'[v] = dep[v],
         phase'[v] = phase[v], pos'[v] = pos[v]
  PROVE  /\ Needed(v)' = Needed(v)
         /\ Lpaths(cur[v])' = Lpaths(cur[v])
         /\ WorkerCandidates(v)' = WorkerCandidates(v)
         /\ Candidate(v)' = Candidate(v)
BY DEF Needed, Lpaths, ItemPath, WorkerCandidates, Candidate, Candidates, DepName

----------------------------------------------------------------------------
(***************************************************************************)
(* TypeOK is inductive.                                                    *)
(***************************************************************************)

\* Whatever file system it finds, ldd() starts its workers in a well-typed state.
LEMMA StartTypeOK == World(world) /\ Start => TypeOK
<1> SUFFICES ASSUME World(world), Start PROVE TypeOK
  OBVIOUS
<1>1. world.args \in Seq(Paths)
  BY WorldTypes
<1>2. log \in Seq(Item)
  BY <1>1 DEF Item
<1>3. visited \subseteq Paths
  BY <1>1
<1>4. results \subseteq claimed /\ claimed \subseteq DOMAIN log /\ panicked \in BOOLEAN
  OBVIOUS
<1>5. /\ pc \in [Workers -> {"idle", "open", "probe", "fresh", "dead"}]
      /\ cur \in [Workers -> Nat] /\ order \in [Workers -> Seq(Dirs)]
      /\ dep \in [Workers -> Nat \ {0}] /\ pos \in [Workers -> Nat \ {0}]
      /\ phase \in [Workers -> {"lpaths", "cache", "default"}]
      /\ \A w \in Workers : pc[w] = "idle"
  OBVIOUS
<1> QED
  BY <1>1, <1>2, <1>3, <1>4, <1>5 DEF TypeOK

\* In particular at the start of the specification.
LEMMA InitTypeOK == Init => TypeOK
BY StartTypeOK, LddAssumption DEF Init

\* A worker that is not the one moving keeps its half of TypeOK.
LEMMA OthersTypeOK ==
  ASSUME TypeOK, NEW w \in Workers, WorkerStep(w), NEW v \in Workers \ {w}
  PROVE  /\ pc'[v] # "idle" => cur'[v] \in claimed'
         /\ pc'[v] = "fresh" => /\ dep'[v] <= Len(Needed(v)')
                                /\ pos'[v] <= Len(WorkerCandidates(v)')
<1>1. CASE pc[v] = "idle"
  BY <1>1, StepFrame
<1>2. CASE pc[v] # "idle"
  <2>1. cur[v] \in claimed /\ cur[v] \in DOMAIN log
    BY <1>2 DEF TypeOK
  <2>2. /\ pc'[v] = pc[v] /\ cur'[v] = cur[v] /\ dep'[v] = dep[v] /\ pos'[v] = pos[v]
        /\ Needed(v)' = Needed(v) /\ WorkerCandidates(v)' = WorkerCandidates(v)
    BY <2>1, StepFrame, SearchStable
  <2>3. cur'[v] \in claimed'
    BY <2>1, <2>2, StepFrame
  <2> QED
    BY <2>2, <2>3 DEF TypeOK
<1> QED
  BY <1>1, <1>2

\* Both ways in which a search advances keep its cursors well-typed.
LEMMA AdvanceTypes ==
  ASSUME TypeOK, NEW w \in Workers, NextDep(w) \/ NextCandidate(w)
  PROVE  /\ dep' \in [Workers -> Nat \ {0}]
         /\ phase' \in [Workers -> {"lpaths", "cache", "default"}]
         /\ pos' \in [Workers -> Nat \ {0}]
<1>1. CASE NextDep(w)
  BY <1>1 DEF NextDep, TypeOK
<1>2. CASE NextCandidate(w)
  BY <1>2 DEF NextCandidate, TypeOK
<1> QED
  BY <1>1, <1>2

\* No step of a worker leaves TypeOK.
LEMMA StepTypeOK ==
  ASSUME TypeOK, NEW w \in Workers, WorkerStep(w)
  PROVE  TypeOK'
<1> USE DEF shared, local
<1> DEFINE Cursors(v) ==
      /\ pc'[v] # "idle" => cur'[v] \in claimed'
      /\ pc'[v] = "fresh" => /\ dep'[v] <= Len(Needed(v)')
                             /\ pos'[v] <= Len(WorkerCandidates(v)')
    Rest ==
      /\ visited' \subseteq Paths
      /\ log' \in Seq(Item)
      /\ claimed' \subseteq DOMAIN log'
      /\ results' \subseteq claimed'
      /\ panicked' \in BOOLEAN
      /\ pc' \in [Workers -> {"idle", "open", "probe", "fresh", "dead"}]
      /\ cur' \in [Workers -> Nat]
      /\ order' \in [Workers -> Seq(Dirs)]
      /\ dep' \in [Workers -> Nat \ {0}]
      /\ phase' \in [Workers -> {"lpaths", "cache", "default"}]
      /\ pos' \in [Workers -> Nat \ {0}]
<1>0. /\ log \in Seq(Item) /\ DOMAIN log = 1..Len(log)
      /\ pc[w] # "idle" => cur[w] \in claimed /\ cur[w] \in DOMAIN log
  BY DEF TypeOK
<1>1. ASSUME \E i \in DOMAIN log \ claimed : SkipInstalled(w, i) \/ Take(w, i)
      PROVE  Rest /\ Cursors(w)
  <2>1. PICK i \in DOMAIN log \ claimed : SkipInstalled(w, i) \/ Take(w, i)
    BY <1>1
  <2>2. CASE SkipInstalled(w, i)
    BY <2>1, <2>2, <1>0 DEF SkipInstalled, TypeOK
  <2>3. CASE Take(w, i)
    BY <2>1, <2>3, <1>0 DEF Take, TypeOK
  <2> QED
    BY <2>1, <2>2, <2>3
<1>2. ASSUME Unreadable(w) \/ DependencyNotFound(w) \/ AllSearched(w)
      PROVE  Rest /\ Cursors(w)
  <2>1. Return(w) /\ pc[w] # "idle"
    BY <1>2 DEF Unreadable, DependencyNotFound, AllSearched, Exhausted, Searching
  <2> QED
    BY <2>1, <1>0 DEF Return, TypeOK
<1>3. ASSUME PanicOnLoad(w)
      PROVE  Rest /\ Cursors(w)
  BY <1>3, <1>0 DEF PanicOnLoad, TypeOK
<1>4. ASSUME Parse(w)
      PROVE  Rest /\ Cursors(w)
  <2>1. cur[w] \in DOMAIN log /\ cur[w] \in claimed
    BY <1>4, <1>0 DEF Parse
  <2>2. PICK s \in IterationOrders(Lpaths(cur[w])) : order' = [order EXCEPT ![w] = s]
    BY <1>4 DEF Parse
  <2>3. s \in Seq(Dirs)
    BY <2>1, <2>2, ItemTypes, OrdersTypes
  <2> QED
    BY <1>4, <2>1, <2>2, <2>3 DEF Parse, TypeOK
<1>5. ASSUME InsertNew(w)
      PROVE  Rest /\ Cursors(w)
  <2>1. Candidate(w) \in Paths
    BY <1>5, WorkerCandidatesTypes DEF InsertNew, Searching
  <2>2. Needed(w)' = Needed(w) /\ WorkerCandidates(w)' = WorkerCandidates(w)
    BY <1>5, <1>0, SearchStable DEF InsertNew, Searching
  <2> QED
    BY <1>5, <1>0, <2>1, <2>2 DEF InsertNew, Searching, TypeOK
<1>6. ASSUME AlreadyVisited(w)
      PROVE  Rest /\ Cursors(w)
  <2>1. NextDep(w) \/ NextCandidate(w)
    BY <1>6 DEF AlreadyVisited
  <2> QED
    BY <1>6, <1>0, <2>1, AdvanceTypes DEF AlreadyVisited, Searching, TypeOK
<1>7. ASSUME Enqueue(w)
      PROVE  Rest /\ Cursors(w)
  <2>1. cur[w] \in DOMAIN log /\ cur[w] \in claimed
    BY <1>7, <1>0 DEF Enqueue
  <2>2. [path |-> Candidate(w), lpaths |-> Lpaths(cur[w])] \in Item
    BY <1>7, <2>1, WorkerCandidatesTypes, ItemTypes DEF Enqueue, TypeOK, Item
  <2>3. log' \in Seq(Item) /\ claimed' \subseteq DOMAIN log'
    BY <1>7, <2>2, <1>0 DEF Enqueue, TypeOK
  <2>4. NextDep(w) \/ NextCandidate(w)
    BY <1>7 DEF Enqueue
  <2> QED
    BY <1>7, <2>1, <2>3, <2>4, AdvanceTypes DEF Enqueue, TypeOK
<1>8. ASSUME NotHere(w) \/ CacheExhausted(w)
      PROVE  Rest /\ Cursors(w)
  <2>1. NextDep(w) \/ NextCandidate(w)
    BY <1>8 DEF NotHere, CacheExhausted
  <2>2. /\ UNCHANGED <<shared, cur, order>>
        /\ pc' = [pc EXCEPT ![w] = "probe"] \/ pc' = pc
        /\ pc[w] \in {"fresh", "probe"} /\ pc'[w] = "probe"
    BY <1>8 DEF NotHere, CacheExhausted, Exhausted, Searching, TypeOK
  <2> QED
    BY <1>0, <2>1, <2>2, AdvanceTypes DEF TypeOK
<1>9. ASSUME LpathsExhausted(w)
      PROVE  Rest /\ Cursors(w)
  BY <1>9, <1>0 DEF LpathsExhausted, Exhausted, Searching, TypeOK
<1>10. Rest /\ Cursors(w)
  BY <1>1, <1>2, <1>3, <1>4, <1>5, <1>6, <1>7, <1>8, <1>9 DEF WorkerStep
<1>11. World(world)'
  <2>1. world' = world
    BY StepFrame
  <2> QED
    BY <2>1 DEF TypeOK
<1>12. \A v \in Workers : Cursors(v)
  BY <1>10, OthersTypeOK
<1> QED
  BY <1>10, <1>11, <1>12 DEF TypeOK

\* The cursors stay meaningful.
LEMMA StepsTypeOK == TypeOK /\ [Next]_vars => TypeOK'
<1> SUFFICES ASSUME TypeOK, [Next]_vars PROVE TypeOK'
  OBVIOUS
<1>1. CASE Next
  BY <1>1, StepTypeOK DEF Next
<1>2. CASE UNCHANGED vars
  <2>1. UNCHANGED <<world, visited, log, claimed, results, panicked, pc, cur, order, dep, phase, pos>>
    BY <1>2 DEF vars
  <2>2. \A w \in Workers : Needed(w)' = Needed(w) /\ WorkerCandidates(w)' = WorkerCandidates(w)
    BY <2>1 DEF Needed, ItemPath, WorkerCandidates, Candidates, DepName
  <2> QED
    BY <2>1, <2>2 DEF TypeOK
<1> QED
  BY <1>1, <1>2

\* Spec => []TypeOK: the worker's cursors always point at an item of the
\* queue's history and at a candidate of the search it is in.
THEOREM TypeCorrect == Spec => []TypeOK
BY InitTypeOK, StepsTypeOK, PTL DEF Spec

----------------------------------------------------------------------------
(***************************************************************************)
(* Items.                                                                  *)
(***************************************************************************)

\* The steps of a worker, by what they do with items: take one, return one,
\* or work on the one it holds.
LEMMA ItemSteps ==
  ASSUME TypeOK, NEW w \in Workers, WorkerStep(w)
  PROVE  \/ \E i \in DOMAIN log \ claimed : SkipInstalled(w, i) \/ Take(w, i)
         \/ Return(w) /\ pc[w] \in {"open", "probe"}
         \/ /\ UNCHANGED <<cur, claimed, results>>
            /\ pc[w] # "idle" /\ pc'[w] # "idle"
<1> USE DEF shared, local
<1>1. CASE \E i \in DOMAIN log \ claimed : SkipInstalled(w, i) \/ Take(w, i)
  BY <1>1
<1>2. CASE Unreadable(w) \/ DependencyNotFound(w) \/ AllSearched(w)
  BY <1>2 DEF Unreadable, DependencyNotFound, AllSearched, Exhausted, Searching
<1>3. CASE PanicOnLoad(w) \/ Parse(w) \/ InsertNew(w) \/ AlreadyVisited(w) \/ Enqueue(w)
  BY <1>3 DEF PanicOnLoad, Parse, InsertNew, AlreadyVisited, Enqueue, Searching, TypeOK
<1>4. CASE NotHere(w) \/ LpathsExhausted(w) \/ CacheExhausted(w)
  BY <1>4 DEF NotHere, LpathsExhausted, CacheExhausted, Exhausted, Searching, TypeOK
<1> QED
  BY <1>1, <1>2, <1>3, <1>4 DEF WorkerStep

----------------------------------------------------------------------------
(***************************************************************************)
(* The set `visited` and the queue.  NoDuplicateResults and NoFileLost are *)
(* not inductive: they rest on the path that a worker has inserted and not *)
(* yet looked at being its own.                                            *)
(***************************************************************************)
LogIsVisited == \A i \in DOMAIN log : ItemPath(i) \in visited

FreshIsOwned ==
  \A w \in Workers : pc[w] = "fresh" =>
    /\ Candidate(w) \in visited
    /\ \A i \in DOMAIN log : ItemPath(i) # Candidate(w)
    /\ \A v \in Workers \ {w} : pc[v] = "fresh" => Candidate(v) # Candidate(w)

LogIsUnique ==
  \A i, j \in DOMAIN log :
    i # j /\ ItemPath(i) = ItemPath(j) => {i, j} \subseteq DOMAIN world.args

SearchInv == LogIsVisited /\ FreshIsOwned /\ LogIsUnique /\ NoFileLost

\* The steps of a worker, by what they do with `visited` and the queue.
LEMMA VisitedSteps ==
  ASSUME TypeOK, NEW w \in Workers, WorkerStep(w)
  PROVE  \/ InsertNew(w) \/ Enqueue(w) \/ NotHere(w)
         \/ UNCHANGED <<visited, log>> /\ pc[w] # "fresh" /\ pc'[w] # "fresh"
<1> USE DEF shared, local
<1>1. CASE \E i \in DOMAIN log \ claimed : SkipInstalled(w, i) \/ Take(w, i)
  BY <1>1 DEF SkipInstalled, Take, TypeOK
<1>2. CASE Unreadable(w) \/ DependencyNotFound(w) \/ AllSearched(w)
  BY <1>2 DEF Unreadable, DependencyNotFound, AllSearched, Return, Exhausted, Searching, TypeOK
<1>3. CASE PanicOnLoad(w) \/ Parse(w) \/ AlreadyVisited(w)
  BY <1>3 DEF PanicOnLoad, Parse, AlreadyVisited, Searching, TypeOK
<1>4. CASE LpathsExhausted(w) \/ CacheExhausted(w)
  BY <1>4 DEF LpathsExhausted, CacheExhausted, Exhausted, Searching, TypeOK
<1> QED
  BY <1>1, <1>2, <1>3, <1>4 DEF WorkerStep

\* Another worker's fresh candidate stays what it is.
LEMMA OthersCandidate ==
  ASSUME TypeOK, NEW w \in Workers, WorkerStep(w), NEW v \in Workers \ {w}
  PROVE  /\ pc'[v] = pc[v]
         /\ pc[v] = "fresh" => Candidate(v)' = Candidate(v)
<1>1. pc'[v] = pc[v]
  BY StepFrame
<1>2. ASSUME pc[v] = "fresh" PROVE Candidate(v)' = Candidate(v)
  <2>1. cur[v] \in DOMAIN log
    BY <1>2 DEF TypeOK
  <2> QED
    BY <2>1, StepFrame, SearchStable
<1> QED
  BY <1>1, <1>2

\* No step of a worker leaves the strengthening.
LEMMA StepSearchInv ==
  ASSUME TypeOK, SearchInv, NEW w \in Workers, WorkerStep(w)
  PROVE  SearchInv'
<1> DEFINE c == Candidate(w)
<1> USE DEF SearchInv, shared
<1>0. /\ \A v \in Workers \ {w} : /\ pc'[v] = pc[v]
                                  /\ pc[v] = "fresh" => Candidate(v)' = Candidate(v)
      /\ \A i \in DOMAIN log : ItemPath(i)' = ItemPath(i)
      /\ world' = world
      /\ \A q : ToInstall(q)' = ToInstall(q)
  BY OthersCandidate, StepFrame DEF ItemPath, ToInstall
<1> HIDE DEF c
<1>1. CASE InsertNew(w)
  <2>1. /\ c \notin visited /\ visited' = visited \cup {c} /\ log' = log
        /\ pc[w] = "probe" /\ pc'[w] = "fresh"
    BY <1>1 DEF InsertNew, Searching, TypeOK, c
  <2>2. Candidate(w)' = c
    BY <1>1, SearchStable DEF InsertNew, Searching, TypeOK, c
  <2>3. LogIsVisited' /\ LogIsUnique'
    BY <1>0, <2>1 DEF LogIsVisited, LogIsUnique
  <2>4. FreshIsOwned'
    <3> SUFFICES ASSUME NEW u \in Workers, pc'[u] = "fresh"
                 PROVE  /\ Candidate(u)' \in visited'
                        /\ \A i \in DOMAIN log' : ItemPath(i)' # Candidate(u)'
                        /\ \A v \in Workers \ {u} :
                             pc'[v] = "fresh" => Candidate(v)' # Candidate(u)'
      BY DEF FreshIsOwned
    <3>1. \A v \in Workers \ {w} : pc'[v] = "fresh" =>
             Candidate(v)' = Candidate(v) /\ Candidate(v) \in visited
      BY <1>0 DEF FreshIsOwned
    <3>2. CASE u = w
      BY <3>1, <3>2, <1>0, <2>1, <2>2 DEF LogIsVisited
    <3>3. CASE u # w
      BY <3>1, <3>3, <1>0, <2>1, <2>2 DEF FreshIsOwned
    <3> QED
      BY <3>2, <3>3
  <2>5. NoFileLost'
    <3> SUFFICES ASSUME NEW q \in visited', ToInstall(q)
                 PROVE  \/ q \in LogPaths'
                        \/ \E v \in Workers : pc'[v] = "fresh" /\ Candidate(v)' = q
      BY <1>0 DEF NoFileLost
    <3>1. LogPaths' = LogPaths
      BY <1>0, <2>1 DEF LogPaths
    <3>2. CASE q = c
      BY <3>2, <2>1, <2>2
    <3>3. CASE q # c
      BY <3>1, <3>3, <1>0, <2>1 DEF NoFileLost
    <3> QED
      BY <3>2, <3>3
  <2> QED
    BY <2>3, <2>4, <2>5
<1>2. CASE Enqueue(w)
  <2>1. /\ pc[w] = "fresh" /\ visited' = visited /\ pc'[w] = "probe"
        /\ log' = Append(log, [path |-> c, lpaths |-> Lpaths(cur[w])])
    BY <1>2 DEF Enqueue, TypeOK, c
  <2>2. /\ Len(log) \in Nat /\ DOMAIN log = 1..Len(log) /\ DOMAIN log' = 1..(Len(log) + 1)
        /\ log'[Len(log) + 1].path = c
    BY <2>1 DEF TypeOK
  <2>3. c \in visited /\ (\A i \in DOMAIN log : ItemPath(i) # c)
        /\ \A v \in Workers \ {w} : pc[v] = "fresh" => Candidate(v) # c
    BY <2>1 DEF FreshIsOwned, c
  <2>4. \A i \in DOMAIN log' : \/ i \in DOMAIN log /\ ItemPath(i)' = ItemPath(i)
                               \/ i = Len(log) + 1 /\ ItemPath(i)' = c
    BY <2>2, <1>0 DEF ItemPath
  <2>5. LogIsVisited'
    BY <2>1, <2>3, <2>4 DEF LogIsVisited
  <2>6. LogIsUnique'
    BY <1>0, <2>3, <2>4 DEF LogIsUnique
  <2>7. FreshIsOwned'
    BY <1>0, <2>1, <2>3, <2>4 DEF FreshIsOwned
  <2>8. NoFileLost'
    <3> SUFFICES ASSUME NEW q \in visited, ToInstall(q)
                 PROVE  \/ q \in LogPaths'
                        \/ \E v \in Workers : pc'[v] = "fresh" /\ Candidate(v)' = q
      BY <1>0, <2>1 DEF NoFileLost
    <3>1. c \in LogPaths' /\ LogPaths \subseteq LogPaths'
      BY <2>2, <1>0 DEF LogPaths, ItemPath
    <3> QED
      BY <3>1, <1>0, <2>1 DEF NoFileLost, c
  <2> QED
    BY <2>5, <2>6, <2>7, <2>8
<1>3. CASE NotHere(w)
  <2>1. /\ UNCHANGED <<visited, log>> /\ pc[w] = "fresh" /\ pc'[w] = "probe"
        /\ ~ToInstall(c)
    BY <1>3 DEF NotHere, TypeOK, c
  <2>2. LogIsVisited' /\ LogIsUnique' /\ FreshIsOwned'
    BY <1>0, <2>1 DEF LogIsVisited, LogIsUnique, FreshIsOwned
  <2>3. LogPaths' = LogPaths
    BY <1>0, <2>1 DEF LogPaths
  <2>4. NoFileLost'
    BY <1>0, <2>1, <2>3 DEF NoFileLost, c
  <2> QED
    BY <2>2, <2>4
<1>4. CASE UNCHANGED <<visited, log>> /\ pc[w] # "fresh" /\ pc'[w] # "fresh"
  <2>1. LogIsVisited' /\ LogIsUnique' /\ FreshIsOwned'
    BY <1>0, <1>4 DEF LogIsVisited, LogIsUnique, FreshIsOwned
  <2>2. LogPaths' = LogPaths
    BY <1>0, <1>4 DEF LogPaths
  <2>3. NoFileLost'
    BY <1>0, <1>4, <2>2 DEF NoFileLost
  <2> QED
    BY <2>1, <2>3
<1> QED
  BY <1>1, <1>2, <1>3, <1>4, VisitedSteps

\* The strengthening holds before the first item is taken.
LEMMA StartSearchInv == World(world) /\ Start => SearchInv
<1> SUFFICES ASSUME World(world), Start PROVE SearchInv
  OBVIOUS
<1>1. world.args \in Seq(Paths)
  BY WorldTypes
<1>2. /\ DOMAIN log = 1..Len(world.args) /\ DOMAIN world.args = 1..Len(world.args)
      /\ \A i \in DOMAIN log : ItemPath(i) = world.args[i]
      /\ visited = {world.args[i] : i \in 1..Len(world.args)}
      /\ \A w \in Workers : pc[w] = "idle"
  BY <1>1 DEF ItemPath
<1> QED
  BY <1>2 DEF SearchInv, LogIsVisited, LogIsUnique, FreshIsOwned, NoFileLost, LogPaths

\* It is preserved by every step.
LEMMA StepsSearchInv == TypeOK /\ SearchInv /\ [Next]_vars => SearchInv'
<1> SUFFICES ASSUME TypeOK, SearchInv, [Next]_vars PROVE SearchInv'
  OBVIOUS
<1>1. CASE Next
  BY <1>1, StepSearchInv DEF Next
<1>2. CASE UNCHANGED vars
  <2>1. \A v \in Workers : Candidate(v)' = Candidate(v)
    BY <1>2 DEF vars, Candidate, WorkerCandidates, Candidates, DepName, Needed, ItemPath
  <2>2. LogPaths' = LogPaths /\ (\A q : ToInstall(q)' = ToInstall(q))
        /\ \A i : ItemPath(i)' = ItemPath(i)
    BY <1>2 DEF vars, LogPaths, ToInstall, ItemPath
  <2> QED
    BY <1>2, <2>1, <2>2 DEF vars, SearchInv, LogIsVisited, LogIsUnique, FreshIsOwned, NoFileLost
<1> QED
  BY <1>1, <1>2

\* TypeOK and the strengthening together are an invariant of ldd().
LEMMA SearchInvariant == Spec => [](TypeOK /\ SearchInv)
<1>1. Init => SearchInv
  BY StartSearchInv, LddAssumption DEF Init
<1> QED
  BY <1>1, StepsSearchInv, TypeCorrect, PTL DEF Spec

\* Spec => []NoDuplicateResults: the test-and-set on `visited` is enough for
\* ldd() to return no library twice, whatever the workers do in between.
THEOREM ResultsAreUnique == Spec => []NoDuplicateResults
<1>1. TypeOK /\ SearchInv => NoDuplicateResults
  BY DEF TypeOK, SearchInv, LogIsUnique, NoDuplicateResults
<1> QED
  BY <1>1, SearchInvariant, PTL

\* Spec => []NoFileLost: a file that a worker has marked as visited, and that
\* the others therefore no longer search for, is enqueued or about to be.
THEOREM FilesAreNotLost == Spec => []NoFileLost
<1>1. SearchInv => NoFileLost
  BY DEF SearchInv
<1> QED
  BY <1>1, SearchInvariant, PTL

----------------------------------------------------------------------------
(***************************************************************************)
(* What a worker knows about the item it holds: its file is not installed; *)
(* once parsed it is an ELF file, the directories of the first loop are    *)
(* those of the item, and the loop over the default directories is entered *)
(* only for a name that is not in the ld.so.cache.                         *)
(***************************************************************************)
HeldItem(w) ==
  pc[w] # "idle" =>
    /\ ItemPath(cur[w]) \notin world.dest
    /\ pc[w] \in {"probe", "fresh"} =>
         /\ world.kind[ItemPath(cur[w])] = "elf"
         /\ \A k \in 1..Len(order[w]) : order[w][k] \in Lpaths(cur[w])
         /\ dep[w] <= Len(Needed(w)) =>
              /\ phase[w] = "cache" => world.cache[DepName(w)] # <<>>
              /\ phase[w] = "default" => world.cache[DepName(w)] = <<>>

HeldItems == \A w \in Workers : HeldItem(w)

\* A worker that is not the one moving keeps what it knows.
LEMMA OthersHeldItem ==
  ASSUME TypeOK, HeldItems, NEW w \in Workers, WorkerStep(w), NEW v \in Workers \ {w}
  PROVE  HeldItem(v)'
<1>1. CASE pc[v] = "idle"
  BY <1>1, StepFrame DEF HeldItem
<1>2. CASE pc[v] # "idle"
  <2>1. cur[v] \in DOMAIN log
    BY <1>2 DEF TypeOK
  <2>2. /\ pc'[v] = pc[v] /\ cur'[v] = cur[v] /\ dep'[v] = dep[v]
        /\ phase'[v] = phase[v] /\ order'[v] = order[v]
        /\ Needed(v)' = Needed(v) /\ Lpaths(cur[v])' = Lpaths(cur[v])
        /\ world' = world /\ ItemPath(cur[v])' = ItemPath(cur[v])
    BY <2>1, StepFrame, SearchStable DEF ItemPath
  <2>3. DepName(v)' = DepName(v)
    BY <2>2 DEF DepName
  <2> QED
    BY <2>2, <2>3 DEF HeldItems, HeldItem
<1> QED
  BY <1>1, <1>2

\* A search that advances stays with the item, and begins with the lpaths or
\* stays in its loop.
LEMMA AdvanceHeldItem ==
  ASSUME TypeOK, NEW w \in Workers, HeldItem(w), pc[w] \in {"probe", "fresh"},
         NextDep(w) \/ NextCandidate(w), pc'[w] = "probe", UNCHANGED <<world, cur, order>>,
         \A i \in DOMAIN log : log'[i] = log[i]
  PROVE  HeldItem(w)'
<1>1. /\ cur[w] \in DOMAIN log /\ cur' = cur /\ order' = order
  BY DEF TypeOK
<1>2. /\ ItemPath(cur[w])' = ItemPath(cur[w]) /\ Needed(w)' = Needed(w)
      /\ Lpaths(cur[w])' = Lpaths(cur[w])
  BY <1>1 DEF ItemPath, Needed, Lpaths
<1>3. CASE NextDep(w)
  BY <1>1, <1>2, <1>3 DEF NextDep, HeldItem, TypeOK
<1>4. CASE NextCandidate(w)
  <2>1. DepName(w)' = DepName(w)
    BY <1>1, <1>2, <1>4 DEF NextCandidate, DepName
  <2> QED
    BY <1>1, <1>2, <1>4, <2>1 DEF NextCandidate, HeldItem
<1> QED
  BY <1>3, <1>4

\* No step of a worker makes it forget what it knows.
LEMMA StepHeldItems ==
  ASSUME TypeOK, HeldItems, NEW w \in Workers, WorkerStep(w)
  PROVE  HeldItems'
<1> SUFFICES HeldItem(w)'
  BY OthersHeldItem DEF HeldItems
<1> USE DEF shared, local
<1>0. HeldItem(w) /\ world' = world /\ \A i \in DOMAIN log : log'[i] = log[i]
  BY StepFrame DEF HeldItems
<1>1. CASE \E i \in DOMAIN log \ claimed : SkipInstalled(w, i) \/ Take(w, i)
  BY <1>0, <1>1 DEF SkipInstalled, Take, HeldItem, ItemPath, TypeOK
<1>2. CASE Unreadable(w) \/ DependencyNotFound(w) \/ AllSearched(w)
  BY <1>2 DEF Unreadable, DependencyNotFound, AllSearched, Return, HeldItem, TypeOK
<1>3. CASE PanicOnLoad(w)
  BY <1>0, <1>3 DEF PanicOnLoad, HeldItem, ItemPath, TypeOK
<1>4. CASE Parse(w)
  <2>1. cur[w] \in DOMAIN log /\ pc[w] = "open"
    BY <1>4 DEF Parse, TypeOK
  <2>2. PICK s \in IterationOrders(Lpaths(cur[w])) : order' = [order EXCEPT ![w] = s]
    BY <1>4 DEF Parse
  <2>3. \A k \in 1..Len(s) : s[k] \in Lpaths(cur[w])
    BY <2>1, ItemTypes, OrdersTypes
  <2>4. order'[w] = s /\ phase'[w] = "lpaths" /\ cur' = cur
    BY <1>4, <2>2 DEF Parse, TypeOK
  <2>5. Lpaths(cur[w])' = Lpaths(cur[w]) /\ ItemPath(cur[w])' = ItemPath(cur[w])
    BY <1>0, <1>4, <2>1 DEF Parse, Lpaths, ItemPath
  <2> QED
    BY <1>0, <1>4, <2>1, <2>3, <2>4, <2>5 DEF Parse, HeldItem
<1>5. CASE InsertNew(w)
  BY <1>0, <1>5 DEF InsertNew, Searching, HeldItem, ItemPath, Lpaths, Needed, DepName, TypeOK
<1>6. CASE AlreadyVisited(w) \/ CacheExhausted(w) \/ Enqueue(w) \/ NotHere(w)
  <2>1. /\ pc[w] \in {"probe", "fresh"} /\ pc'[w] = "probe" /\ UNCHANGED <<world, cur, order>>
        /\ NextDep(w) \/ NextCandidate(w)
    BY <1>6 DEF AlreadyVisited, CacheExhausted, Exhausted, Enqueue, NotHere, Searching, TypeOK
  <2> QED
    BY <1>0, <2>1, AdvanceHeldItem
<1>7. CASE LpathsExhausted(w)
  <2>1. /\ pc[w] = "probe" /\ cur[w] \in DOMAIN log /\ UNCHANGED <<world, log, pc, cur, order, dep>>
        /\ phase'[w] = IF world.cache[DepName(w)] # <<>> THEN "cache" ELSE "default"
    BY <1>7 DEF LpathsExhausted, Exhausted, Searching, TypeOK
  <2>2. /\ ItemPath(cur[w])' = ItemPath(cur[w]) /\ Needed(w)' = Needed(w)
        /\ Lpaths(cur[w])' = Lpaths(cur[w]) /\ DepName(w)' = DepName(w)
    BY <2>1 DEF ItemPath, Needed, Lpaths, DepName
  <2> QED
    BY <1>0, <2>1, <2>2 DEF HeldItem
<1> QED
  BY <1>1, <1>2, <1>3, <1>4, <1>5, <1>6, <1>7 DEF WorkerStep

----------------------------------------------------------------------------
(***************************************************************************)
(* Where the items are.  A claimed item is returned, dropped because its   *)
(* file is installed, or in the hands of a worker; the queue's history     *)
(* begins with the arguments and goes on with files to install.            *)
(***************************************************************************)
ItemsAccounted ==
  /\ \A i \in results : ItemPath(i) \notin world.dest
  /\ \A i \in claimed : \/ i \in results
                        \/ ItemPath(i) \in world.dest
                        \/ \E w \in Workers : pc[w] # "idle" /\ cur[w] = i

LogSource ==
  /\ \A i \in DOMAIN world.args : i \in DOMAIN log /\ ItemPath(i) = world.args[i]
  /\ \A i \in DOMAIN log \ DOMAIN world.args : ToInstall(ItemPath(i))

\* No step of a worker loses an item it holds.
LEMMA StepItemsAccounted ==
  ASSUME TypeOK, HeldItems, ItemsAccounted, NEW w \in Workers, WorkerStep(w)
  PROVE  ItemsAccounted'
<1> USE DEF shared, local
<1>0. /\ \A i \in DOMAIN log : ItemPath(i)' = ItemPath(i)
      /\ world' = world /\ claimed \subseteq DOMAIN log /\ results \subseteq claimed
      /\ \A v \in Workers \ {w} : pc'[v] = pc[v] /\ cur'[v] = cur[v]
  BY StepFrame DEF ItemPath, TypeOK
<1>1. CASE \E i \in DOMAIN log \ claimed : SkipInstalled(w, i)
  BY <1>0, <1>1 DEF SkipInstalled, ItemsAccounted
<1>2. CASE \E i \in DOMAIN log \ claimed : Take(w, i)
  <2>1. PICK i \in DOMAIN log \ claimed : Take(w, i)
    BY <1>2
  <2>2. /\ results' = results /\ claimed' = claimed \cup {i}
        /\ pc[w] = "idle" /\ pc'[w] # "idle" /\ cur'[w] = i
    BY <2>1 DEF Take, TypeOK
  <2>3. \A j \in claimed : \A v \in Workers :
           pc[v] # "idle" /\ cur[v] = j => pc'[v] # "idle" /\ cur'[v] = j
    BY <1>0, <2>2
  <2> QED
    BY <1>0, <2>2, <2>3 DEF ItemsAccounted
<1>3. CASE Return(w) /\ pc[w] \in {"open", "probe"}
  <2>1. /\ results' = results \cup {cur[w]} /\ UNCHANGED <<claimed, cur>>
        /\ cur[w] \in claimed /\ ItemPath(cur[w]) \notin world.dest
    BY <1>3 DEF Return, HeldItems, HeldItem, TypeOK
  <2> QED
    BY <1>0, <2>1 DEF ItemsAccounted
<1>4. CASE UNCHANGED <<cur, claimed, results>> /\ pc[w] # "idle" /\ pc'[w] # "idle"
  BY <1>0, <1>4 DEF ItemsAccounted
<1> QED
  BY <1>1, <1>2, <1>3, <1>4, ItemSteps

\* Only Enqueue adds to the queue, and only a file to install.
LEMMA StepLogSource ==
  ASSUME TypeOK, LogSource, NEW w \in Workers, WorkerStep(w)
  PROVE  LogSource'
<1> USE DEF shared
<1>0. /\ \A i \in DOMAIN log : i \in DOMAIN log' /\ ItemPath(i)' = ItemPath(i)
      /\ world' = world /\ \A q : ToInstall(q)' = ToInstall(q)
  BY StepFrame DEF ItemPath, ToInstall
<1>1. CASE log' = log
  BY <1>0, <1>1 DEF LogSource
<1>2. CASE Enqueue(w)
  <2>1. /\ ToInstall(Candidate(w))
        /\ log' = Append(log, [path |-> Candidate(w), lpaths |-> Lpaths(cur[w])])
    BY <1>2 DEF Enqueue
  <2>2. \A i \in DOMAIN log' : i \in DOMAIN log \/ log'[i].path = Candidate(w)
    BY <2>1 DEF TypeOK
  <2> QED
    BY <1>0, <2>1, <2>2 DEF LogSource, ItemPath
<1> QED
  BY <1>1, <1>2, VisitedSteps DEF InsertNew, NotHere

ReturnInv == TypeOK /\ SearchInv /\ HeldItems /\ ItemsAccounted /\ LogSource

\* It holds when ldd() is called.
LEMMA StartReturnInv == World(world) /\ Start => HeldItems /\ ItemsAccounted /\ LogSource
<1> SUFFICES ASSUME World(world), Start PROVE HeldItems /\ ItemsAccounted /\ LogSource
  OBVIOUS
<1>1. world.args \in Seq(Paths)
  BY WorldTypes
<1>2. /\ DOMAIN log = DOMAIN world.args /\ \A i \in DOMAIN log : ItemPath(i) = world.args[i]
      /\ claimed = {} /\ results = {} /\ \A w \in Workers : pc[w] = "idle"
  BY <1>1 DEF ItemPath
<1> QED
  BY <1>2 DEF HeldItems, HeldItem, ItemsAccounted, LogSource

\* It is preserved by every step.
LEMMA StepsReturnInv ==
  TypeOK /\ HeldItems /\ ItemsAccounted /\ LogSource /\ [Next]_vars
    => HeldItems' /\ ItemsAccounted' /\ LogSource'
<1> SUFFICES ASSUME TypeOK, HeldItems, ItemsAccounted, LogSource, [Next]_vars
             PROVE  HeldItems' /\ ItemsAccounted' /\ LogSource'
  OBVIOUS
<1>1. CASE Next
  BY <1>1, StepHeldItems, StepItemsAccounted, StepLogSource DEF Next
<1>2. CASE UNCHANGED vars
  <2>1. HeldItems'
    BY <1>2 DEF vars, HeldItems, HeldItem, ItemPath, Lpaths, Needed, DepName
  <2>2. ItemsAccounted' /\ LogSource'
    BY <1>2 DEF vars, ItemsAccounted, LogSource, ItemPath, ToInstall
  <2> QED
    BY <2>1, <2>2
<1> QED
  BY <1>1, <1>2

\* The whole strengthening is an invariant of ldd().
LEMMA ReturnInvariant == Spec => []ReturnInv
<1>1. Init => HeldItems /\ ItemsAccounted /\ LogSource
  BY StartReturnInv, LddAssumption DEF Init
<1> QED
  BY <1>1, StepsReturnInv, SearchInvariant, PTL DEF Spec, ReturnInv

\* When no worker has anything left to do, the list holds what was enqueued.
AnswerIsLog == Finished => ResultPaths = LogPaths \ world.dest

\* The strengthening says what the answer is.
LEMMA ReturnsTheLog == ReturnInv => AnswerIsLog
BY DEF ReturnInv, Finished, ItemsAccounted, ResultPaths, LogPaths, TypeOK, AnswerIsLog

\* Spec => []ResultIsVisitedFiles: of everything the search came across, the
\* list ldd() returns holds all that is to be installed, and nothing else but
\* the arguments that are not installed.
THEOREM ResultsAreComplete == Spec => []ResultIsVisitedFiles
<1>1. ReturnInv => ResultIsVisitedFiles
  <2> SUFFICES ASSUME ReturnInv, Finished
               PROVE  ResultPaths = {q \in visited : ToInstall(q)}
                        \cup ({world.args[i] : i \in DOMAIN world.args} \ world.dest)
    BY DEF ResultIsVisitedFiles
  <2>1. {q \in visited : ToInstall(q)} \subseteq LogPaths \ world.dest
    BY DEF ReturnInv, SearchInv, NoFileLost, Finished, ToInstall
  <2>2. {world.args[i] : i \in DOMAIN world.args} \subseteq LogPaths
    BY DEF ReturnInv, LogSource, LogPaths
  <2>3. \A i \in DOMAIN log : \/ i \in DOMAIN world.args /\ ItemPath(i) = world.args[i]
                              \/ ItemPath(i) \in visited /\ ToInstall(ItemPath(i))
    BY DEF ReturnInv, SearchInv, LogIsVisited, LogSource
  <2>4. LogPaths \subseteq {q \in visited : ToInstall(q)} \cup
                           {world.args[i] : i \in DOMAIN world.args}
    BY <2>3 DEF LogPaths
  <2>5. {q \in visited : ToInstall(q)} \cap world.dest = {}
    BY DEF ToInstall
  <2> QED
    BY <2>1, <2>2, <2>4, <2>5, ReturnsTheLog DEF AnswerIsLog
<1> QED
  BY <1>1, ReturnInvariant, PTL

----------------------------------------------------------------------------
(***************************************************************************)
(* The workers implement Resolver.                                         *)
(***************************************************************************)

\* A path that a worker looks at is one the search for the name it is at may
\* look at.
LEMMA CandidateInSearchSpace ==
  ASSUME TypeOK, HeldItems, NEW w \in Workers, pc[w] = "fresh"
  PROVE  /\ dep[w] \in DOMAIN Needed(w)
         /\ Candidate(w) \in R!SearchSpace(log[cur[w]], DepName(w))
<1>1. /\ cur[w] \in DOMAIN log /\ log[cur[w]] \in Item
      /\ Needed(w) \in Seq(Names) /\ Lpaths(cur[w]) \in SUBSET Dirs
  BY ItemTypes DEF TypeOK, Needed
<1>2. /\ dep[w] \in DOMAIN Needed(w) /\ DepName(w) \in Names
      /\ pos[w] \in DOMAIN WorkerCandidates(w)
      /\ phase[w] \in {"lpaths", "cache", "default"} /\ order[w] \in Seq(Dirs)
  <2>1. /\ dep[w] \in Nat \ {0} /\ dep[w] <= Len(Needed(w))
        /\ pos[w] \in Nat \ {0} /\ pos[w] <= Len(WorkerCandidates(w))
        /\ phase[w] \in {"lpaths", "cache", "default"} /\ order[w] \in Seq(Dirs)
    BY DEF TypeOK
  <2>2. DepName(w) \in Names /\ WorkerCandidates(w) \in Seq(Paths)
    BY <2>1, WorkerCandidatesTypes
  <2> QED
    BY <1>1, <2>1, <2>2
<1>3. CASE phase[w] = "lpaths"
  <2>1. pos[w] \in 1..Len(order[w]) /\ Candidate(w) = Joined[order[w][pos[w]]][DepName(w)]
    BY <1>2, <1>3 DEF Candidate, WorkerCandidates, Candidates
  <2>2. order[w][pos[w]] \in log[cur[w]].lpaths \cup world.rpath[log[cur[w]].path]
    BY <2>1 DEF HeldItems, HeldItem, Lpaths, ItemPath
  <2> QED
    BY <1>2, <2>1, <2>2 DEF R!SearchSpace
<1>4. CASE phase[w] = "cache"
  <2>1. /\ world.cache[DepName(w)] # <<>>
        /\ Candidate(w) = world.cache[DepName(w)][pos[w]]
        /\ pos[w] \in DOMAIN world.cache[DepName(w)]
    BY <1>2, <1>4 DEF Candidate, WorkerCandidates, Candidates, HeldItems, HeldItem, TypeOK
  <2> QED
    BY <1>2, <2>1 DEF R!SearchSpace
<1>5. CASE phase[w] = "default"
  <2>1. /\ world.cache[DepName(w)] = <<>>
        /\ Candidate(w) = Joined[DefaultLibdirs[pos[w]]][DepName(w)]
        /\ pos[w] \in 1..Len(DefaultLibdirs)
    BY <1>2, <1>5 DEF Candidate, WorkerCandidates, Candidates, HeldItems, HeldItem, TypeOK
  <2>2. pos[w] \in DOMAIN DefaultLibdirs
    BY <2>1, LddAssumption
  <2> QED
    BY <1>2, <2>1, <2>2 DEF R!SearchSpace
<1> QED
  BY <1>2, <1>3, <1>4, <1>5

\* Enqueueing an item is finding a file.
LEMMA EnqueueFinds ==
  ASSUME ReturnInv, NEW w \in Workers, Enqueue(w)
  PROVE  \E x \in Found : \E q \in R!NeededFiles(x) : R!Find(x, q)
<1> DEFINE x == log[cur[w]]
           q == Candidate(w)
<1> USE DEF ReturnInv, shared
<1>1. /\ pc[w] = "fresh" /\ ToInstall(q) /\ cur[w] \in DOMAIN log /\ log \in Seq(Item)
      /\ world' = world /\ log' = Append(log, [path |-> q, lpaths |-> Lpaths(cur[w])])
      /\ pc'[w] = "probe"
  BY DEF Enqueue, TypeOK
<1>2. x \in Found /\ x.path = ItemPath(cur[w])
  BY <1>1 DEF Found, ItemPath
<1>3. ~Finished /\ ~Finished'
  BY <1>1 DEF Finished
<1>4. world.kind[x.path] = "elf" /\ x.path \notin world.dest
  BY <1>1 DEF HeldItems, HeldItem, ItemPath
<1>5. q \in R!NeededFiles(x)
  BY <1>1, CandidateInSearchSpace DEF R!NeededFiles, DepName, Needed, ItemPath
<1>6. q \notin R!FoundPaths
  <2>1. \A i \in DOMAIN log : log[i].path # q
    BY <1>1 DEF SearchInv, FreshIsOwned, ItemPath
  <2> QED
    BY <2>1 DEF R!FoundPaths, Found
<1>7. Found' = Found \cup {[path |-> q, lpaths |-> x.lpaths \cup world.rpath[x.path]]}
  <2>1. Lpaths(cur[w]) = x.lpaths \cup world.rpath[x.path]
    BY DEF Lpaths, ItemPath
  <2>2. Found' = Found \cup {[path |-> q, lpaths |-> Lpaths(cur[w])]}
    <3> DEFINE it == [path |-> q, lpaths |-> Lpaths(cur[w])]
    <3> HIDE DEF it
    <3>1. log' = Append(log, it) /\ log \in Seq(Item)
      BY <1>1 DEF it
    <3>2. /\ DOMAIN log' = DOMAIN log \cup {Len(log) + 1}
          /\ log'[Len(log) + 1] = it /\ \A i \in DOMAIN log : log'[i] = log[i]
      BY <3>1
    <3> QED
      BY <3>2 DEF Found, it
  <2> QED
    BY <2>1, <2>2
<1>8. q \in world.exists \ world.dest
  BY <1>1 DEF ToInstall
<1>9. R!Find(x, q)
  BY <1>1, <1>3, <1>4, <1>5, <1>6, <1>7, <1>8 DEF R!Find, Finished
<1> QED
  BY <1>2, <1>5, <1>9

\* A step that enqueues nothing finds nothing, and may end ldd().
LEMMA OtherStepsAnswer ==
  ASSUME ReturnInv, AnswerIsLog', NEW w \in Workers, WorkerStep(w), log' = log
  PROVE  R!Answer \/ UNCHANGED <<world, Found, Finished, IF Finished THEN ResultPaths ELSE {}>>
<1>1. world' = world /\ Found' = Found
  BY StepFrame DEF ReturnInv, Found
<1>2. ~Finished
  BY DEF Finished, WorkerStep, Unreadable, PanicOnLoad, Parse, InsertNew, AlreadyVisited,
         Enqueue, NotHere, LpathsExhausted, CacheExhausted, DependencyNotFound, AllSearched,
         Exhausted, Searching
<1>3. CASE Finished'
  <2>1. ResultPaths' = LogPaths' \ world'.dest
    BY <1>3 DEF AnswerIsLog
  <2>2. LogPaths' = R!FoundPaths
    BY DEF LogPaths, ItemPath, R!FoundPaths, Found
  <2> QED
    BY <1>1, <1>2, <1>3, <2>1, <2>2 DEF R!Answer, Finished
<1>4. CASE ~Finished'
  BY <1>1, <1>2, <1>4 DEF Finished
<1> QED
  BY <1>3, <1>4

\* Spec => R!Spec: whichever order the workers take items, insert and enqueue
\* in, ldd() finds the needed files one by one, each once, and answers with
\* those that are not installed.
THEOREM WorkersImplementResolver == Spec => ImplementsResolver
<1>1. Init => R!Init
  <2> SUFFICES ASSUME Init PROVE R!Init
    OBVIOUS
  <2>1. world.args \in Seq(Paths)
    BY WorldTypes, LddAssumption DEF Init
  <2>2. Found = {[path |-> world.args[i], lpaths |-> {}] : i \in DOMAIN world.args}
        /\ DOMAIN log = DOMAIN world.args
    <3>1. /\ DOMAIN log = DOMAIN world.args
          /\ \A i \in DOMAIN log : log[i] = [path |-> world.args[i], lpaths |-> {}]
      BY <2>1 DEF Init
    <3> QED
      BY <3>1 DEF Found
  <2>3. claimed = {} /\ results = {} /\ \A w \in Workers : pc[w] = "idle"
    BY DEF Init
  <2>4. Finished <=> Found = {}
    BY <2>2, <2>3 DEF Finished
  <2>5. ResultPaths = {}
    BY <2>3 DEF ResultPaths
  <2> QED
    BY <2>2, <2>4, <2>5 DEF R!Init, Finished
<1>2. ReturnInv /\ AnswerIsLog' /\ [Next]_vars
        => [R!Next]_<<world, Found, Finished, IF Finished THEN ResultPaths ELSE {}>>
  <2> SUFFICES ASSUME ReturnInv, AnswerIsLog', [Next]_vars
               PROVE  [R!Next]_<<world, Found, Finished, IF Finished THEN ResultPaths ELSE {}>>
    OBVIOUS
  <2>1. ASSUME NEW w \in Workers, Enqueue(w) PROVE R!Next
    BY <2>1, EnqueueFinds DEF R!Next
  <2>2. ASSUME NEW w \in Workers, WorkerStep(w), log' = log
        PROVE  R!Answer \/ UNCHANGED <<world, Found, Finished, IF Finished THEN ResultPaths ELSE {}>>
    BY <2>2, OtherStepsAnswer
  <2>3. ASSUME NEW w \in Workers, WorkerStep(w) PROVE Enqueue(w) \/ log' = log
    BY <2>3, VisitedSteps DEF ReturnInv, InsertNew, NotHere, shared
  <2>4. CASE Next
    BY <2>4, <2>1, <2>2, <2>3 DEF Next, R!Next
  <2>5. CASE UNCHANGED vars
    BY <2>5 DEF vars, Found, Finished, ResultPaths, ItemPath
  <2> QED
    BY <2>4, <2>5
<1> QED
  BY <1>1, <1>2, ReturnInvariant, ReturnsTheLog, PTL DEF Spec, ImplementsResolver, R!Spec

----------------------------------------------------------------------------
(***************************************************************************)
(* Where no file has an RPATH or RUNPATH, the first loop is empty.  A name *)
(* in the ld.so.cache is only done with when every entry has been looked   *)
(* at.  All searches for another name try the same candidates in the same  *)
(* order, so that who inserts the first one is the only one to go on, and  *)
(* comes to the library.                                                   *)
(***************************************************************************)
AllKnown == (\A p \in Paths : world.rpath[p] = {}) /\ (\A n \in Names : Known(n))

AllCached == (\A p \in Paths : world.rpath[p] = {}) /\ (\A n \in Names : world.cache[n] # <<>>)

Entries(n) == {world.cache[n][j] : j \in DOMAIN world.cache[n]}

\* Some search for n has come to its end, or has met another one.
Asked(n) ==
  IF world.cache[n] # <<>>
  THEN Entries(n) \subseteq visited
  ELSE \E k \in DOMAIN DefaultLibdirs : Standard(n, k) \in visited

\* A library n in a default directory has been found.
Answered(n) == \E k \in DOMAIN DefaultLibdirs : Standard(n, k) \in world.exists \cap visited

\* The worker has inserted the k-th candidate of the last loop for n, and is still in it.
Passed(w, n, k) ==
  /\ pc[w] \in {"probe", "fresh"} /\ dep[w] <= Len(Needed(w))
  /\ phase[w] = "default" /\ DepName(w) = n
  /\ k < pos[w] \/ (k = pos[w] /\ pc[w] = "fresh")

\* A candidate without a file was inserted by the one worker that is now behind it, or
\* the library has been found.
OneGoesOn(n, k) ==
  /\ Standard(n, k) \in visited \ world.exists =>
       Answered(n) \/ \E w \in Workers : Passed(w, n, k)
  /\ \A w \in Workers : Passed(w, n, k) =>
       Standard(n, k) \in visited /\ (Standard(n, k) \in world.exists => k = pos[w])
  /\ \A w, v \in Workers :
       Passed(w, n, k) /\ Passed(v, n, k) /\ Standard(n, k) \notin world.exists => w = v

DefaultInv ==
  \A n \in Names : world.cache[n] = <<>> => \A k \in DOMAIN DefaultLibdirs : OneGoesOn(n, k)

NothingHandedDown == \A i \in DOMAIN log : log[i].lpaths = {}

SearchedSoFar(w) ==
  pc[w] \in {"probe", "fresh"} =>
    /\ \A k \in DOMAIN Needed(w) : k < dep[w] => Asked(Needed(w)[k])
    /\ dep[w] <= Len(Needed(w)) /\ phase[w] = "cache" =>
         \A j \in DOMAIN world.cache[DepName(w)] :
           j < pos[w] => world.cache[DepName(w)][j] \in visited

ResultsSearched ==
  \A i \in results : world.kind[ItemPath(i)] = "elf" =>
    \A k \in DOMAIN world.needed[ItemPath(i)] : Asked(world.needed[ItemPath(i)][k])

KnownInv ==
  AllKnown =>
    NothingHandedDown /\ ResultsSearched /\ DefaultInv /\ \A w \in Workers : SearchedSoFar(w)

\* No item is handed a directory when no file has one.
LEMMA StepNothingHandedDown ==
  ASSUME TypeOK, AllKnown, NothingHandedDown, NEW w \in Workers, WorkerStep(w)
  PROVE  NothingHandedDown'
<1> USE DEF shared
<1>1. CASE log' = log
  BY <1>1 DEF NothingHandedDown
<1>2. CASE Enqueue(w)
  <2>1. cur[w] \in DOMAIN log /\ log' = Append(log, [path |-> Candidate(w), lpaths |-> Lpaths(cur[w])])
    BY <1>2 DEF Enqueue, Enqueued, NewItem, TypeOK
  <2>2. Lpaths(cur[w]) = {}
    BY <2>1, ItemTypes DEF Lpaths, AllKnown, NothingHandedDown
  <2> QED
    BY <2>1, <2>2 DEF NothingHandedDown, TypeOK
<1> QED
  BY <1>1, <1>2, VisitedSteps DEF InsertNew, NotHere

\* In such a file system the search stands on an entry of the cache, or on a
\* candidate of the last loop for a name that is not in the cache.
LEMMA SearchLoops ==
  ASSUME TypeOK, HeldItems, AllKnown, NothingHandedDown, NEW w \in Workers,
         pc[w] \in {"probe", "fresh"}, dep[w] <= Len(Needed(w))
  PROVE  /\ DepName(w) \in Names /\ pos[w] \in Nat \ {0}
         /\ phase[w] = "lpaths" => Len(WorkerCandidates(w)) = 0
         /\ phase[w] = "cache" =>
              /\ world.cache[DepName(w)] # <<>>
              /\ WorkerCandidates(w) = world.cache[DepName(w)]
         /\ phase[w] = "default" =>
              /\ world.cache[DepName(w)] = <<>> /\ Len(WorkerCandidates(w)) = Len(DefaultLibdirs)
              /\ pos[w] <= Len(DefaultLibdirs) =>
                   pos[w] \in DOMAIN DefaultLibdirs /\ Candidate(w) = Standard(DepName(w), pos[w])
<1>1. /\ cur[w] \in DOMAIN log /\ order[w] \in Seq(Dirs) /\ DepName(w) \in Names
      /\ pos[w] \in Nat \ {0}
  BY WorkerCandidatesTypes DEF TypeOK
<1>2. Lpaths(cur[w]) = {}
  BY <1>1, ItemTypes DEF Lpaths, AllKnown, NothingHandedDown
<1>3. /\ phase[w] = "cache" => world.cache[DepName(w)] # <<>>
      /\ phase[w] = "default" => world.cache[DepName(w)] = <<>>
  BY <1>1 DEF HeldItems, HeldItem
<1>4. ASSUME phase[w] = "lpaths" PROVE Len(WorkerCandidates(w)) = 0
  <2>1. \A k \in 1..Len(order[w]) : FALSE
    BY <1>2 DEF HeldItems, HeldItem
  <2>2. Len(order[w]) = 0
    BY <1>1, <2>1
  <2> QED
    BY <1>4, <2>2 DEF WorkerCandidates, Candidates
<1>5. ASSUME phase[w] = "cache" PROVE WorkerCandidates(w) = world.cache[DepName(w)]
  BY <1>5 DEF WorkerCandidates, Candidates
<1>6. ASSUME phase[w] = "default"
      PROVE  /\ Len(WorkerCandidates(w)) = Len(DefaultLibdirs)
             /\ pos[w] <= Len(DefaultLibdirs) =>
                  pos[w] \in DOMAIN DefaultLibdirs /\ Candidate(w) = Standard(DepName(w), pos[w])
  <2>1. /\ Len(DefaultLibdirs) \in Nat /\ DOMAIN DefaultLibdirs = 1..Len(DefaultLibdirs)
    BY LddAssumption
  <2>2. WorkerCandidates(w) = [k \in 1..Len(DefaultLibdirs) |-> Joined[DefaultLibdirs[k]][DepName(w)]]
    BY <1>6 DEF WorkerCandidates, Candidates
  <2>3. Len(WorkerCandidates(w)) = Len(DefaultLibdirs)
    BY <2>1, <2>2
  <2> QED
    BY <1>1, <2>1, <2>2, <2>3 DEF Candidate, Standard
<1> QED
  BY <1>1, <1>3, <1>4, <1>5, <1>6

\* `visited` only grows, so that what a search has looked at stays looked at as
\* long as its cursors stay.
LEMMA AskedStable ==
  ASSUME TypeOK, NEW w \in Workers, WorkerStep(w), NEW n
  PROVE  /\ Entries(n)' = Entries(n)
         /\ Asked(n) => Asked(n)'
         /\ Answered(n) => Answered(n)'
<1>1. world' = world /\ visited \subseteq visited'
  BY StepFrame
<1> QED
  BY <1>1 DEF Entries, Asked, Answered

LEMMA SearchedStable ==
  ASSUME TypeOK, NEW w \in Workers, WorkerStep(w), NEW v \in Workers, SearchedSoFar(v),
         pc'[v] \in {"probe", "fresh"} => pc[v] \in {"probe", "fresh"},
         cur'[v] = cur[v], order'[v] = order[v], dep'[v] = dep[v],
         phase'[v] = phase[v], pos'[v] = pos[v]
  PROVE  SearchedSoFar(v)'
<1> SUFFICES ASSUME pc'[v] \in {"probe", "fresh"} PROVE SearchedSoFar(v)'
  BY DEF SearchedSoFar
<1>1. cur[v] \in DOMAIN log
  BY DEF TypeOK
<1>2. Needed(v)' = Needed(v) /\ world' = world /\ visited \subseteq visited'
  BY <1>1, StepFrame, SearchStable
<1>3. DepName(v)' = DepName(v)
  BY <1>2 DEF DepName
<1>4. \A k \in DOMAIN Needed(v) : Asked(Needed(v)[k]) => Asked(Needed(v)[k])'
  BY <1>2, AskedStable DEF Asked, Entries
<1> QED
  BY <1>2, <1>3, <1>4 DEF SearchedSoFar, Asked, Entries

\* What the other workers have tried stays as it is.
LEMMA OthersPassed ==
  ASSUME TypeOK, NEW w \in Workers, WorkerStep(w), NEW v \in Workers \ {w}, NEW n, NEW k
  PROVE  Passed(v, n, k)' <=> Passed(v, n, k)
<1>1. /\ pc'[v] = pc[v] /\ cur'[v] = cur[v] /\ dep'[v] = dep[v] /\ phase'[v] = phase[v]
      /\ pos'[v] = pos[v] /\ order'[v] = order[v] /\ world' = world
      /\ \A i \in DOMAIN log : log'[i] = log[i]
  BY StepFrame
<1>2. CASE pc[v] \in {"probe", "fresh"}
  <2>1. cur[v] \in DOMAIN log
    BY <1>2 DEF TypeOK
  <2>2. Needed(v)' = Needed(v)
    BY <1>1, <2>1, SearchStable
  <2>3. DepName(v)' = DepName(v)
    BY <1>1, <2>2 DEF DepName
  <2> QED
    BY <1>1, <2>2, <2>3 DEF Passed
<1>3. CASE pc[v] \notin {"probe", "fresh"}
  BY <1>1, <1>3 DEF Passed
<1> QED
  BY <1>2, <1>3

\* The steps that add or drop a candidate of the last loop.
LEMMA PassedSteps ==
  ASSUME TypeOK, NEW w \in Workers, WorkerStep(w), NEW n, NEW k \in Nat \ {0}
  PROVE  \/ InsertNew(w) \/ AlreadyVisited(w) \/ Enqueue(w) \/ NotHere(w) \/ DependencyNotFound(w)
         \/ visited' = visited /\ ~Passed(w, n, k) /\ ~Passed(w, n, k)'
<1> USE DEF shared, local
<1>1. CASE \E i \in DOMAIN log \ claimed : SkipInstalled(w, i) \/ Take(w, i)
  BY <1>1 DEF SkipInstalled, Take, TypeOK, Passed
<1>2. CASE Unreadable(w) \/ PanicOnLoad(w)
  BY <1>2 DEF Unreadable, PanicOnLoad, Return, TypeOK, Passed
<1>3. CASE Parse(w)
  BY <1>3 DEF Parse, TypeOK, Passed
<1>4. CASE LpathsExhausted(w)
  <2>1. /\ visited' = visited /\ phase[w] = "lpaths" /\ pos'[w] = 1 /\ pc'[w] = "probe"
    BY <1>4 DEF LpathsExhausted, Exhausted, Searching, TypeOK
  <2> QED
    BY <2>1 DEF Passed
<1>5. CASE CacheExhausted(w)
  <2>1. /\ visited' = visited /\ phase[w] = "cache" /\ phase'[w] = "lpaths"
    BY <1>5 DEF CacheExhausted, Exhausted, NextDep, TypeOK
  <2> QED
    BY <2>1 DEF Passed
<1>6. CASE AllSearched(w)
  <2>1. /\ visited' = visited /\ dep[w] > Len(Needed(w)) /\ pc'[w] = "idle" /\ dep[w] \in Nat
        /\ cur[w] \in DOMAIN log
    BY <1>6 DEF AllSearched, Return, TypeOK
  <2>2. Len(Needed(w)) \in Nat
    BY <2>1, ItemTypes DEF Needed
  <2> QED
    BY <2>1, <2>2 DEF Passed
<1> QED
  BY <1>1, <1>2, <1>3, <1>4, <1>5, <1>6 DEF WorkerStep

\* The last loop comes to the library, if there is one.
LEMMA DefaultEnds ==
  ASSUME TypeOK, HeldItems, AllKnown, NothingHandedDown, DefaultInv,
         NEW w \in Workers, DependencyNotFound(w)
  PROVE  FALSE
<1>1. /\ pc[w] = "probe" /\ dep[w] <= Len(Needed(w)) /\ phase[w] = "default"
      /\ pos[w] > Len(WorkerCandidates(w))
  BY DEF DependencyNotFound, Exhausted, Searching
<1>2. /\ DepName(w) \in Names /\ pos[w] \in Nat /\ world.cache[DepName(w)] = <<>>
      /\ Len(WorkerCandidates(w)) = Len(DefaultLibdirs)
  BY <1>1, SearchLoops
<1>3. PICK k \in DOMAIN DefaultLibdirs : Standard(DepName(w), k) \in world.exists
  BY <1>2 DEF AllKnown, Known
<1>4. k \in Nat /\ k < pos[w]
  BY <1>1, <1>2, LddAssumption
<1>5. Passed(w, DepName(w), k)
  BY <1>1, <1>4 DEF Passed
<1>6. k = pos[w]
  BY <1>2, <1>3, <1>5 DEF DefaultInv, OneGoesOn
<1> QED
  BY <1>2, <1>4, <1>6

\* A worker that gives up leaves the search to one that goes on.
LEMMA StepOneGoesOn ==
  ASSUME TypeOK, SearchInv, HeldItems, AllKnown, NothingHandedDown, DefaultInv,
         NEW w \in Workers, WorkerStep(w),
         NEW n \in Names, world.cache[n] = <<>>, NEW k \in DOMAIN DefaultLibdirs
  PROVE  OneGoesOn(n, k)'
<1> USE DEF shared, local
<1>1. /\ world' = world /\ visited \subseteq visited' /\ k \in Nat \ {0}
      /\ Answered(n) => Answered(n)'
      /\ \A v \in Workers \ {w} : pos'[v] = pos[v] /\ (Passed(v, n, k)' <=> Passed(v, n, k))
  BY StepFrame, AskedStable, OthersPassed, LddAssumption
<1>2. \A j \in DOMAIN DefaultLibdirs : OneGoesOn(n, j)
  BY DEF DefaultInv
<1>3. OneGoesOn(n, k) /\ Known(n)
  BY <1>2 DEF AllKnown
<1>4. ASSUME \/ Standard(n, k) \notin visited' \ world.exists
             \/ Answered(n) \/ Passed(w, n, k)'
             \/ \E v \in Workers \ {w} : Passed(v, n, k),
             Passed(w, n, k)' =>
               /\ Standard(n, k) \in visited' /\ (Standard(n, k) \in world.exists => k = pos'[w])
               /\ Standard(n, k) \in world.exists \/ \A v \in Workers \ {w} : ~Passed(v, n, k)
      PROVE  OneGoesOn(n, k)'
  <2>1. Standard(n, k) \in visited' \ world.exists =>
          Answered(n)' \/ \E v \in Workers : Passed(v, n, k)'
    BY <1>1, <1>4
  <2>2. \A v \in Workers : Passed(v, n, k)' =>
          Standard(n, k) \in visited' /\ (Standard(n, k) \in world.exists => k = pos'[v])
    BY <1>1, <1>3, <1>4 DEF OneGoesOn
  <2>3. \A u, v \in Workers :
          Passed(u, n, k)' /\ Passed(v, n, k)' /\ Standard(n, k) \notin world.exists => u = v
    BY <1>1, <1>3, <1>4 DEF OneGoesOn
  <2> QED
    BY <1>1, <2>1, <2>2, <2>3 DEF OneGoesOn, Standard
<1>5. CASE visited' = visited /\ ~Passed(w, n, k) /\ ~Passed(w, n, k)'
  BY <1>3, <1>4, <1>5 DEF OneGoesOn
<1>6. ASSUME pc[w] \in {"probe", "fresh"}, dep[w] <= Len(Needed(w)), phase[w] = "default",
             pos[w] <= Len(WorkerCandidates(w))
      PROVE  /\ DepName(w) \in Names /\ world.cache[DepName(w)] = <<>>
             /\ pos[w] \in DOMAIN DefaultLibdirs /\ pos[w] \in Nat \ {0}
             /\ Candidate(w) = Standard(DepName(w), pos[w])
             /\ Passed(w, n, k) <=>
                  DepName(w) = n /\ (k < pos[w] \/ (k = pos[w] /\ pc[w] = "fresh"))
  <2>1. /\ DepName(w) \in Names /\ pos[w] \in Nat \ {0} /\ world.cache[DepName(w)] = <<>>
        /\ Len(WorkerCandidates(w)) = Len(DefaultLibdirs)
    BY <1>6, SearchLoops
  <2>2. pos[w] \in DOMAIN DefaultLibdirs /\ Candidate(w) = Standard(DepName(w), pos[w])
    BY <1>6, <2>1, SearchLoops
  <2> QED
    BY <1>6, <2>1, <2>2 DEF Passed
<1>7. CASE InsertNew(w)
  <2>1. /\ pc[w] = "probe" /\ dep[w] <= Len(Needed(w)) /\ pos[w] <= Len(WorkerCandidates(w))
        /\ Candidate(w) \notin visited /\ visited' = visited \cup {Candidate(w)}
        /\ pc'[w] = "fresh" /\ UNCHANGED <<world, log, cur, order, dep, phase, pos>>
    BY <1>7 DEF InsertNew, AtCandidate, IsNew, Searching, TypeOK
  <2>2. Needed(w)' = Needed(w) /\ DepName(w)' = DepName(w)
    BY <2>1 DEF Needed, DepName, ItemPath
  <2>3. DepName(w) \in Names /\ pos[w] \in Nat \ {0}
    BY <2>1, SearchLoops
  <2>4. phase[w] # "lpaths"
    <3>1. ~(pos[w] <= 0)
      BY <2>3
    <3> QED
      BY <2>1, <3>1, SearchLoops
  <2>5. CASE phase[w] = "cache"
    <3>1. ~Passed(w, n, k) /\ ~Passed(w, n, k)'
      BY <2>1, <2>5 DEF Passed
    <3>2. PICK j \in DOMAIN world.cache[DepName(w)] : Candidate(w) = world.cache[DepName(w)][j]
      <4>1. WorkerCandidates(w) = world.cache[DepName(w)]
        BY <2>1, <2>5, SearchLoops
      <4>2. WorkerCandidates(w) \in Seq(Paths)
        BY <2>1, WorkerCandidatesTypes
      <4>3. pos[w] \in DOMAIN WorkerCandidates(w)
        BY <2>1, <2>3, <4>2
      <4> QED
        BY <4>1, <4>3 DEF Candidate
    <3>3. Standard(n, k) \in world.exists \/ Standard(n, k) # Candidate(w)
      BY <1>3, <2>3, <3>2 DEF Known, Uncontested
    <3> QED
      BY <1>3, <1>4, <2>1, <3>1, <3>3 DEF OneGoesOn
  <2>6. CASE phase[w] = "default"
    <3>1. /\ pos[w] \in DOMAIN DefaultLibdirs /\ Candidate(w) = Standard(DepName(w), pos[w])
          /\ Passed(w, n, k) <=> DepName(w) = n /\ k < pos[w]
      BY <1>6, <2>1, <2>6
    <3>2. Passed(w, n, k)' <=> DepName(w) = n /\ (k < pos[w] \/ k = pos[w])
      BY <2>1, <2>2, <2>6 DEF Passed
    <3>3. Standard(n, k) = Candidate(w) /\ Standard(n, k) \notin world.exists =>
            DepName(w) = n /\ k = pos[w]
      BY <1>3, <2>3, <3>1 DEF Known, Uncontested
    <3>4. Standard(n, k) \in visited' \ world.exists =>
            Answered(n) \/ Passed(w, n, k)' \/ \E v \in Workers \ {w} : Passed(v, n, k)
      BY <1>3, <2>1, <3>1, <3>2, <3>3 DEF OneGoesOn
    <3>5. ASSUME Passed(w, n, k)'
          PROVE  /\ Standard(n, k) \in visited' /\ (Standard(n, k) \in world.exists => k = pos'[w])
                 /\ Standard(n, k) \in world.exists \/ \A v \in Workers \ {w} : ~Passed(v, n, k)
      <4>1. CASE Passed(w, n, k)
        BY <1>3, <2>1, <4>1 DEF OneGoesOn
      <4>2. CASE ~Passed(w, n, k)
        <5>1. DepName(w) = n /\ k = pos[w] /\ Standard(n, k) = Candidate(w)
          BY <3>1, <3>2, <3>5, <4>2
        <5> QED
          BY <1>3, <2>1, <5>1 DEF OneGoesOn
      <4> QED
        BY <4>1, <4>2
    <3> QED
      BY <1>4, <3>4, <3>5
  <2> QED
    BY <2>4, <2>5, <2>6 DEF TypeOK
<1>8. CASE AlreadyVisited(w)
  <2>1. /\ pc[w] = "probe" /\ pc' = pc /\ dep[w] <= Len(Needed(w)) /\ pos[w] <= Len(WorkerCandidates(w))
        /\ Candidate(w) \in visited /\ visited' = visited /\ Advance(w)
    BY <1>8 DEF AlreadyVisited, AtCandidate, IsNew, Searching
  <2>2. CASE phase[w] # "default"
    <3>1. phase'[w] # "default"
      BY <2>1, <2>2 DEF Advance, NextDep, NextCandidate, TypeOK
    <3> QED
      BY <1>5, <2>1, <2>2, <3>1 DEF Passed
  <2>3. CASE phase[w] = "default"
    <3>1. phase'[w] = "lpaths"
      BY <2>1, <2>3 DEF Advance, NextDep, TypeOK
    <3>2. ~Passed(w, n, k)'
      BY <3>1 DEF Passed
    <3>3. ASSUME Standard(n, k) \in visited \ world.exists, ~Answered(n),
                 \A v \in Workers \ {w} : ~Passed(v, n, k)
          PROVE  FALSE
      <4>1. Passed(w, n, k)
        BY <1>3, <3>3 DEF OneGoesOn
      <4>2. /\ pos[w] \in DOMAIN DefaultLibdirs /\ DepName(w) = n /\ k < pos[w]
            /\ Standard(n, pos[w]) \in visited /\ pos[w] \in Nat
        BY <1>6, <2>1, <2>3, <4>1
      <4>3. Standard(n, pos[w]) \notin world.exists
        BY <3>3, <4>2 DEF Answered
      <4>4. PICK v \in Workers : Passed(v, n, pos[w])
        BY <1>2, <3>3, <4>2, <4>3 DEF OneGoesOn
      <4>5. v # w
        BY <2>1, <4>2, <4>4 DEF Passed
      <4>6. pos[v] \in Nat
        BY DEF TypeOK
      <4>7. Passed(v, n, k)
        BY <1>1, <4>2, <4>4, <4>6 DEF Passed
      <4> QED
        BY <3>3, <4>5, <4>7
    <3> QED
      BY <1>4, <2>1, <3>2, <3>3
  <2> QED
    BY <2>2, <2>3
<1>9. CASE Enqueue(w)
  <2>1. /\ pc[w] = "fresh" /\ Candidate(w) \in world.exists /\ visited' = visited /\ Advance(w)
        /\ dep[w] <= Len(Needed(w)) /\ pos[w] <= Len(WorkerCandidates(w)) /\ Candidate(w) \in visited
    BY <1>9 DEF Enqueue, ToInstall, TypeOK, SearchInv, FreshIsOwned
  <2>2. CASE phase[w] # "default"
    <3>1. phase'[w] # "default"
      BY <2>1, <2>2 DEF Advance, NextDep, NextCandidate, TypeOK
    <3> QED
      BY <1>5, <2>1, <2>2, <3>1 DEF Passed
  <2>3. CASE phase[w] = "default"
    <3>1. phase'[w] = "lpaths"
      BY <2>1, <2>3 DEF Advance, NextDep, TypeOK
    <3>2. ~Passed(w, n, k)'
      BY <3>1 DEF Passed
    <3>3. Passed(w, n, k) => Answered(n)
      BY <1>6, <2>1, <2>3 DEF Answered
    <3> QED
      BY <1>3, <1>4, <2>1, <3>2, <3>3 DEF OneGoesOn
  <2> QED
    BY <2>2, <2>3
<1>10. CASE NotHere(w)
  <2>1. /\ pc[w] = "fresh" /\ ~ToInstall(Candidate(w)) /\ visited' = visited /\ pc'[w] = "probe"
        /\ dep[w] <= Len(Needed(w)) /\ pos[w] <= Len(WorkerCandidates(w))
        /\ pos'[w] = pos[w] + 1 /\ UNCHANGED <<world, log, cur, order, dep, phase>>
    BY <1>10 DEF NotHere, NextCandidate, TypeOK
  <2>2. CASE phase[w] # "default"
    BY <1>5, <2>1, <2>2 DEF Passed
  <2>3. CASE phase[w] = "default"
    <3>1. /\ pos[w] \in DOMAIN DefaultLibdirs /\ pos[w] \in Nat \ {0}
          /\ Candidate(w) = Standard(DepName(w), pos[w])
          /\ Passed(w, n, k) <=> DepName(w) = n /\ (k < pos[w] \/ k = pos[w])
      BY <1>6, <2>1, <2>3
    <3>2. Needed(w)' = Needed(w) /\ DepName(w)' = DepName(w)
      BY <2>1 DEF Needed, DepName, ItemPath
    <3>3. Passed(w, n, k)' <=> DepName(w) = n /\ k < pos[w] + 1
      BY <2>1, <2>3, <3>2 DEF Passed
    <3>4. Passed(w, n, k)' <=> Passed(w, n, k)
      BY <1>1, <3>1, <3>3
    <3>5. Passed(w, n, k) => Standard(n, k) \in visited /\ Standard(n, k) \notin world.exists
      <4> SUFFICES ASSUME Passed(w, n, k), Standard(n, k) \in world.exists PROVE FALSE
        BY <1>3 DEF OneGoesOn
      <4>1. k = pos[w] /\ DepName(w) = n
        BY <1>3, <3>1 DEF OneGoesOn
      <4>2. Standard(n, k) \in world.dest
        BY <2>1, <3>1, <4>1 DEF ToInstall
      <4> QED
        BY <1>3, <4>2 DEF Known
    <3> QED
      BY <1>3, <1>4, <2>1, <3>4, <3>5 DEF OneGoesOn
  <2> QED
    BY <2>2, <2>3
<1>11. CASE DependencyNotFound(w)
  BY <1>11, DefaultEnds
<1> QED
  BY <1>1, <1>5, <1>7, <1>8, <1>9, <1>10, <1>11, PassedSteps

\* No step of a worker ends the search for a name that nobody has looked for.
LEMMA StepSearchedSoFar ==
  ASSUME TypeOK, SearchInv, HeldItems, AllKnown, NothingHandedDown,
         NEW w \in Workers, SearchedSoFar(w), WorkerStep(w)
  PROVE  SearchedSoFar(w)'
<1> USE DEF shared, local
<1>0. /\ world' = world /\ \A n : (Entries(n)' = Entries(n)) /\ (Asked(n) => Asked(n)')
      /\ pc[w] \in {"probe", "fresh"} =>
           /\ cur[w] \in DOMAIN log /\ Needed(w) \in Seq(Names)
           /\ dep[w] \in Nat \ {0} /\ pos[w] \in Nat \ {0}
  BY ItemTypes, StepFrame, AskedStable DEF TypeOK, Needed
<1>1. CASE \E i \in DOMAIN log \ claimed : SkipInstalled(w, i) \/ Take(w, i)
  BY <1>1 DEF SkipInstalled, Take, SearchedSoFar, TypeOK
<1>2. CASE Unreadable(w) \/ DependencyNotFound(w) \/ AllSearched(w) \/ PanicOnLoad(w)
  <2>1. pc'[w] \notin {"probe", "fresh"}
    BY <1>2 DEF Unreadable, DependencyNotFound, AllSearched, PanicOnLoad, Return, TypeOK
  <2> QED
    BY <2>1 DEF SearchedSoFar
<1>3. CASE Parse(w)
  <2>1. dep'[w] = 1 /\ phase'[w] = "lpaths" /\ cur' = cur /\ UNCHANGED <<world, log>>
        /\ cur[w] \in DOMAIN log
    BY <1>3 DEF Parse, TypeOK
  <2>2. Needed(w)' \in Seq(Names)
    BY <2>1, ItemTypes DEF Needed, ItemPath
  <2>3. \A k \in DOMAIN Needed(w)' : ~(k < 1)
    BY <2>2
  <2> QED
    BY <2>1, <2>3 DEF SearchedSoFar
<1>4. CASE InsertNew(w)
  BY <1>4, SearchedStable DEF InsertNew, AtCandidate, Searching
<1>5. ASSUME pc[w] \in {"probe", "fresh"}, dep[w] <= Len(Needed(w)), NextDep(w), cur' = cur,
             Asked(DepName(w))
      PROVE  SearchedSoFar(w)'
  <2>1. dep'[w] = dep[w] + 1 /\ phase'[w] = "lpaths"
    BY <1>5 DEF NextDep, TypeOK
  <2>2. Needed(w)' = Needed(w)
    BY <1>0, <1>5, StepFrame DEF Needed, ItemPath
  <2>3. \A k \in DOMAIN Needed(w) : k < dep[w] + 1 => Asked(Needed(w)[k])
    BY <1>0, <1>5 DEF SearchedSoFar, DepName
  <2>4. \A k \in DOMAIN Needed(w) : k < dep[w] + 1 => Asked(Needed(w)[k])'
    BY <1>0, <2>2, <2>3 DEF Asked, Entries
  <2> QED
    BY <2>1, <2>2, <2>4 DEF SearchedSoFar, Asked, Entries
<1>6. ASSUME pc[w] \in {"probe", "fresh"}, dep[w] <= Len(Needed(w)), NextCandidate(w), cur' = cur,
             phase[w] = "cache" => pos[w] <= Len(WorkerCandidates(w)) /\ Candidate(w) \in visited
      PROVE  SearchedSoFar(w)'
  <2>1. pos'[w] = pos[w] + 1 /\ dep'[w] = dep[w] /\ phase'[w] = phase[w]
    BY <1>6 DEF NextCandidate, TypeOK
  <2>2. Needed(w)' = Needed(w) /\ visited \subseteq visited'
    BY <1>0, <1>6, StepFrame DEF Needed, ItemPath
  <2>3. DepName(w)' = DepName(w)
    BY <2>1, <2>2 DEF DepName
  <2>4. \A k \in DOMAIN Needed(w) : k < dep[w] => Asked(Needed(w)[k])'
    BY <1>0, <1>6, <2>2 DEF SearchedSoFar, Asked, Entries
  <2>5. phase[w] = "cache" =>
          \A j \in DOMAIN world.cache[DepName(w)] :
            j < pos[w] + 1 => world.cache[DepName(w)][j] \in visited
    <3> SUFFICES ASSUME phase[w] = "cache", NEW j \in DOMAIN world.cache[DepName(w)], j < pos[w] + 1
                 PROVE  world.cache[DepName(w)][j] \in visited
      OBVIOUS
    <3>1. WorkerCandidates(w) = world.cache[DepName(w)] /\ DepName(w) \in Names
      BY <1>6, SearchLoops
    <3>2. j \in Nat
      BY <3>1, WorldTypes DEF TypeOK
    <3>3. j < pos[w] \/ j = pos[w]
      BY <1>0, <1>6, <3>2
    <3> QED
      BY <1>6, <3>1, <3>3 DEF SearchedSoFar, Candidate
  <2> QED
    BY <1>0, <1>6, <2>1, <2>2, <2>3, <2>4, <2>5 DEF SearchedSoFar, Asked, Entries
<1>7. ASSUME pc[w] \in {"probe", "fresh"}, dep[w] <= Len(Needed(w)),
             pos[w] <= Len(WorkerCandidates(w)), Candidate(w) \in visited, phase[w] = "default"
      PROVE  Asked(DepName(w))
  BY <1>7, SearchLoops DEF Asked
<1>8. CASE AlreadyVisited(w) \/ Enqueue(w)
  <2>1. /\ pc[w] \in {"probe", "fresh"} /\ dep[w] <= Len(Needed(w))
        /\ pos[w] <= Len(WorkerCandidates(w)) /\ pos[w] \in Nat \ {0}
        /\ Candidate(w) \in visited /\ cur' = cur /\ Advance(w)
    BY <1>8 DEF AlreadyVisited, AtCandidate, IsNew, Enqueue, Searching, TypeOK, SearchInv, FreshIsOwned
  <2>2. phase[w] # "lpaths"
    <3>1. ~(pos[w] <= 0)
      BY <2>1
    <3> QED
      BY <2>1, <3>1, SearchLoops
  <2>3. CASE phase[w] = "cache"
    BY <1>6, <2>1, <2>3 DEF Advance
  <2>4. CASE phase[w] = "default"
    BY <1>5, <1>7, <2>1, <2>4 DEF Advance
  <2> QED
    BY <2>2, <2>3, <2>4 DEF TypeOK
<1>9. CASE NotHere(w)
  <2>1. /\ pc[w] = "fresh" /\ dep[w] <= Len(Needed(w)) /\ pos[w] <= Len(WorkerCandidates(w))
        /\ Candidate(w) \in visited /\ cur' = cur /\ NextCandidate(w)
    BY <1>9 DEF NotHere, TypeOK, SearchInv, FreshIsOwned
  <2> QED
    BY <1>6, <2>1
<1>10. CASE LpathsExhausted(w)
  <2>1. /\ pc[w] = "probe" /\ dep[w] <= Len(Needed(w)) /\ pos'[w] = 1
        /\ UNCHANGED <<world, log, visited, pc, cur, dep>>
    BY <1>10 DEF LpathsExhausted, Exhausted, Searching, TypeOK
  <2>2. Needed(w)' = Needed(w) /\ DepName(w)' = DepName(w)
    BY <2>1 DEF Needed, DepName, ItemPath
  <2>3. \A j \in DOMAIN world.cache[DepName(w)] : ~(j < 1)
    <3>1. DepName(w) \in Names
      BY <2>1, SearchLoops
    <3> QED
      BY <3>1, WorldTypes DEF TypeOK
  <2> QED
    BY <2>1, <2>2, <2>3 DEF SearchedSoFar, Asked, Entries
<1>11. CASE CacheExhausted(w)
  <2>1. /\ pc[w] = "probe" /\ dep[w] <= Len(Needed(w)) /\ phase[w] = "cache"
        /\ pos[w] > Len(WorkerCandidates(w)) /\ NextDep(w) /\ cur' = cur
    BY <1>11 DEF CacheExhausted, Exhausted, Searching
  <2>2. /\ WorkerCandidates(w) = world.cache[DepName(w)] /\ DepName(w) \in Names
        /\ world.cache[DepName(w)] # <<>>
    BY <2>1, SearchLoops
  <2>3. Entries(DepName(w)) \subseteq visited
    <3>1. world.cache[DepName(w)] \in Seq(Paths) /\ pos[w] \in Nat
      BY <2>2, WorldTypes DEF TypeOK
    <3>2. \A j \in DOMAIN world.cache[DepName(w)] : j < pos[w]
      BY <2>1, <2>2, <3>1
    <3> QED
      BY <2>1, <3>2 DEF SearchedSoFar, Entries
  <2> QED
    BY <1>5, <2>1, <2>2, <2>3 DEF Asked
<1> QED
  BY <1>1, <1>2, <1>3, <1>4, <1>8, <1>9, <1>10, <1>11 DEF WorkerStep

\* A file is returned when all of its names have been searched.
LEMMA StepResultsSearched ==
  ASSUME TypeOK, HeldItems, AllKnown, NothingHandedDown, DefaultInv, ResultsSearched,
         NEW w \in Workers, SearchedSoFar(w), WorkerStep(w)
  PROVE  ResultsSearched'
<1> USE DEF shared, local
<1>0. /\ \A i \in results : ItemPath(i)' = ItemPath(i)
      /\ world' = world /\ \A n : Asked(n) => Asked(n)'
  BY StepFrame, AskedStable DEF ItemPath, TypeOK
<1>1. ASSUME NEW i \in results', ItemPath(i)' = ItemPath(i),
             world.kind[ItemPath(i)] = "elf" =>
               \A k \in DOMAIN world.needed[ItemPath(i)] : Asked(world.needed[ItemPath(i)][k])
      PROVE  (world.kind[ItemPath(i)] = "elf" =>
               \A k \in DOMAIN world.needed[ItemPath(i)] : Asked(world.needed[ItemPath(i)][k]))'
  <2> SUFFICES ASSUME world.kind[ItemPath(i)] = "elf",
                      NEW k \in DOMAIN world.needed[ItemPath(i)],
                      NEW n, n = world.needed[ItemPath(i)][k]
               PROVE  Asked(n)'
    BY <1>0, <1>1 DEF Asked, Entries
  <2>1. Asked(n)
    BY <1>1 DEF Asked, Entries
  <2> QED
    BY <1>0, <2>1
<1>2. CASE results' = results
  BY <1>0, <1>1, <1>2 DEF ResultsSearched
<1>3. ASSUME Return(w), cur[w] \in DOMAIN log,
             world.kind[ItemPath(cur[w])] = "elf" =>
               \A k \in DOMAIN Needed(w) : Asked(Needed(w)[k])
      PROVE  ResultsSearched'
  <2> SUFFICES ASSUME NEW i \in results'
               PROVE  (world.kind[ItemPath(i)] = "elf" =>
                        \A k \in DOMAIN world.needed[ItemPath(i)] :
                          Asked(world.needed[ItemPath(i)][k]))'
    BY DEF ResultsSearched
  <2>1. i \in results \/ i = cur[w]
    BY <1>3 DEF Return, Returned
  <2>2. ItemPath(i)' = ItemPath(i)
    BY <1>3, <2>1, StepFrame DEF ItemPath, TypeOK
  <2>3. world.kind[ItemPath(i)] = "elf" =>
          \A k \in DOMAIN world.needed[ItemPath(i)] : Asked(world.needed[ItemPath(i)][k])
    BY <1>3, <2>1 DEF ResultsSearched, Needed
  <2> QED
    BY <1>1, <2>2, <2>3
<1>4. CASE Unreadable(w)
  BY <1>3, <1>4 DEF Unreadable, TypeOK
<1>5. CASE AllSearched(w)
  <2>1. cur[w] \in DOMAIN log /\ dep[w] > Len(Needed(w)) /\ pc[w] = "probe" /\ dep[w] \in Nat
    BY <1>5 DEF AllSearched, TypeOK
  <2>2. Needed(w) \in Seq(Names)
    BY <2>1, ItemTypes DEF Needed
  <2>3. \A k \in DOMAIN Needed(w) : k < dep[w]
    BY <2>1, <2>2
  <2> QED
    BY <1>3, <1>5, <2>1, <2>3 DEF AllSearched, SearchedSoFar
<1>6. CASE DependencyNotFound(w)
  BY <1>6, DefaultEnds
<1> QED
  BY <1>2, <1>4, <1>5, <1>6, ItemSteps DEF WorkerStep, SkipInstalled, Take, PanicOnLoad, Parse,
     InsertNew, AlreadyVisited, Enqueue, NotHere, LpathsExhausted, CacheExhausted

\* What was looked for when ldd() is called: nothing.
LEMMA StartKnownInv == World(world) /\ Start => KnownInv
<1> SUFFICES ASSUME World(world), Start, AllKnown
             PROVE  /\ NothingHandedDown /\ ResultsSearched /\ DefaultInv
                    /\ \A w \in Workers : SearchedSoFar(w)
  BY DEF KnownInv
<1>1. world.args \in Seq(Paths)
  BY WorldTypes
<1>2. /\ \A i \in DOMAIN log : log[i].lpaths = {}
      /\ results = {} /\ \A w \in Workers : pc[w] = "idle"
      /\ visited = {world.args[i] : i \in DOMAIN world.args}
  BY <1>1 DEF Start
<1>3. DefaultInv
  <2> SUFFICES ASSUME NEW n \in Names, world.cache[n] = <<>>, NEW k \in DOMAIN DefaultLibdirs
               PROVE  OneGoesOn(n, k)
    BY DEF DefaultInv
  <2>1. \A w \in Workers : ~Passed(w, n, k)
    BY <1>2 DEF Passed
  <2>2. Standard(n, k) \notin visited \ world.exists
    BY <1>2 DEF AllKnown, Known, Uncontested
  <2> QED
    BY <2>1, <2>2 DEF OneGoesOn
<1> QED
  BY <1>2, <1>3 DEF NothingHandedDown, ResultsSearched, SearchedSoFar

\* Every step keeps it.
LEMMA StepsKnownInv == ReturnInv /\ KnownInv /\ [Next]_vars => KnownInv'
<1> SUFFICES ASSUME ReturnInv, KnownInv, [Next]_vars PROVE KnownInv'
  OBVIOUS
<1>1. ASSUME NEW w \in Workers, WorkerStep(w) PROVE KnownInv'
  <2>1. world' = world
    BY <1>1, StepFrame DEF ReturnInv
  <2>2. AllKnown' <=> AllKnown
    BY <2>1 DEF AllKnown, Known, Uncontested, Standard
  <2>3. ASSUME AllKnown
        PROVE  /\ NothingHandedDown' /\ ResultsSearched' /\ DefaultInv'
               /\ \A v \in Workers : SearchedSoFar(v)'
    <3>1. /\ TypeOK /\ SearchInv /\ HeldItems
          /\ NothingHandedDown /\ ResultsSearched /\ DefaultInv /\ \A v \in Workers : SearchedSoFar(v)
      BY <2>3 DEF KnownInv, ReturnInv
    <3>2. NothingHandedDown' /\ ResultsSearched' /\ SearchedSoFar(w)'
      BY <1>1, <2>3, <3>1, StepNothingHandedDown, StepResultsSearched, StepSearchedSoFar
    <3>3. ASSUME NEW v \in Workers \ {w} PROVE SearchedSoFar(v)'
      BY <1>1, <3>1, <3>3, StepFrame, SearchedStable
    <3>4. DefaultInv'
      <4> SUFFICES ASSUME NEW n \in Names, world.cache[n] = <<>>, NEW k \in DOMAIN DefaultLibdirs
                   PROVE  OneGoesOn(n, k)'
        BY <2>1 DEF DefaultInv
      <4> QED
        BY <1>1, <2>3, <3>1, StepOneGoesOn
    <3> QED
      BY <3>2, <3>3, <3>4
  <2> QED
    BY <2>2, <2>3 DEF KnownInv
<1>2. CASE UNCHANGED vars
  <2>1. AllKnown' <=> AllKnown
    BY <1>2 DEF vars, AllKnown, Known, Uncontested, Standard
  <2>2. NothingHandedDown' <=> NothingHandedDown
    BY <1>2 DEF vars, NothingHandedDown
  <2>3. ResultsSearched' <=> ResultsSearched
    BY <1>2 DEF vars, ResultsSearched, ItemPath, Asked, Entries, Standard
  <2>4. \A v \in Workers : SearchedSoFar(v)' <=> SearchedSoFar(v)
    BY <1>2 DEF vars, SearchedSoFar, Needed, DepName, ItemPath, Asked, Entries, Standard
  <2>5. DefaultInv' <=> DefaultInv
    <3>1. \A v \in Workers : \A n, k : Passed(v, n, k)' <=> Passed(v, n, k)
      BY <1>2 DEF vars, Passed, DepName, Needed, ItemPath
    <3> QED
      BY <1>2, <3>1 DEF vars, DefaultInv, OneGoesOn, Answered, Standard
  <2> QED
    BY <2>1, <2>2, <2>3, <2>4, <2>5 DEF KnownInv
<1> QED
  BY <1>1, <1>2 DEF Next

\* The strengthening for the file systems without RPATH and RUNPATH.
LEMMA KnownInvariant == Spec => []KnownInv
<1>1. Init => KnownInv
  BY StartKnownInv, LddAssumption DEF Init
<1> QED
  BY <1>1, StepsKnownInv, ReturnInvariant, PTL DEF Spec

\* What a search has come across is installed in the end.
LEMMA VisitedIsInstalled ==
  ASSUME ReturnInv, Finished, NEW q \in visited \cap world.exists
  PROVE  q \in ResultPaths \cup world.dest
<1>1. q \in world.dest \/ q \in LogPaths
  BY DEF ReturnInv, SearchInv, NoFileLost, Finished, ToInstall
<1> QED
  BY <1>1, ReturnsTheLog DEF AnswerIsLog

\* If all names are in the cache, every entry for a name that a returned file needs.
LEMMA SearchedEntries ==
  ASSUME ReturnInv, KnownInv, AllCached, Finished,
         NEW i \in results, world.kind[ItemPath(i)] = "elf",
         NEW k \in DOMAIN world.needed[ItemPath(i)]
  PROVE  Entries(world.needed[ItemPath(i)][k]) \cap world.exists \subseteq ResultPaths \cup world.dest
<1>1. i \in DOMAIN log
  BY DEF ReturnInv, TypeOK
<1>2. world.needed[ItemPath(i)][k] \in Names
  BY <1>1, ItemTypes DEF ReturnInv
<1>3. AllKnown
  BY DEF AllCached, AllKnown, Known
<1>4. Entries(world.needed[ItemPath(i)][k]) \subseteq visited
  BY <1>2, <1>3 DEF KnownInv, ResultsSearched, Asked, AllCached
<1> QED
  BY <1>4, VisitedIsInstalled

\* What was looked for is installed.
LEMMA SearchedIsInstalled == ReturnInv /\ KnownInv => KnownAreInstalled
<1> SUFFICES ASSUME ReturnInv, KnownInv, AllKnown, Finished,
                    NEW i \in results, world.kind[ItemPath(i)] = "elf",
                    NEW k \in DOMAIN world.needed[ItemPath(i)], NEW n, n = world.needed[ItemPath(i)][k],
                    R!SearchSpace(log[i], n) \cap world.exists # {}
             PROVE  R!SearchSpace(log[i], n) \cap world.exists \cap (ResultPaths \cup world.dest) # {}
  BY DEF KnownAreInstalled, AllNeededInstalled, AllKnown
<1>1. i \in DOMAIN log /\ log[i].lpaths = {} /\ world.rpath[log[i].path] = {} /\ n \in Names
  <2>1. i \in DOMAIN log /\ ItemPath(i) \in Paths /\ world.needed[ItemPath(i)] \in Seq(Names)
    BY ItemTypes DEF ReturnInv, TypeOK
  <2> QED
    BY <2>1 DEF KnownInv, NothingHandedDown, AllKnown, ItemPath
<1>2. R!SearchSpace(log[i], n) = IF world.cache[n] # <<>> THEN Entries(n)
                                 ELSE {Standard(n, j) : j \in DOMAIN DefaultLibdirs}
  BY <1>1 DEF R!SearchSpace, Entries, Standard
<1>3. Asked(n) /\ DefaultInv
  BY DEF KnownInv, ResultsSearched
<1>4. CASE world.cache[n] # <<>>
  BY <1>2, <1>3, <1>4, VisitedIsInstalled DEF Asked
<1>5. CASE world.cache[n] = <<>>
  <2>1. PICK j \in DOMAIN DefaultLibdirs : Standard(n, j) \in visited
    BY <1>3, <1>5 DEF Asked
  <2>2. Answered(n)
    <3>1. \A w \in Workers : ~Passed(w, n, j)
      BY DEF Finished, Passed
    <3>2. OneGoesOn(n, j)
      BY <1>1, <1>3, <1>5 DEF DefaultInv
    <3> QED
      BY <2>1, <3>1, <3>2 DEF OneGoesOn, Answered
  <2>3. PICK l \in DOMAIN DefaultLibdirs : Standard(n, l) \in world.exists \cap visited
    BY <2>2 DEF Answered
  <2> QED
    BY <1>2, <1>5, <2>3, VisitedIsInstalled
<1> QED
  BY <1>4, <1>5

\* Spec => []KnownAreInstalled: without RPATH and RUNPATH, and with every name in the
\* ld.so.cache or in a default directory, no order of the workers' steps hides a
\* library: one of the files that a returned ELF file needs by a name is returned, or
\* installed already.
THEOREM KnownLibrariesAreNotMissed == Spec => []KnownAreInstalled
BY SearchedIsInstalled, ReturnInvariant, KnownInvariant, PTL

----------------------------------------------------------------------------
(***************************************************************************)
(* replace_slice(), which the resolver calls for every $ORIGIN, for all    *)
(* buffers: the loop goes through the buffer byte by byte, and what it     *)
(* makes of the rest behind a byte is told by counting down from the end.  *)
(***************************************************************************)
RS == INSTANCE ReplaceSlice

\* `from` is in buf at i, and the loop replaces it.
OccursAt(buf, from, i) == RS!IsPrefix(from, RS!From(buf, i))

\* W[i] is what the loop makes of the rest of buf from i on.
Rests(W, buf, from, to) ==
  \A i \in 1..(Len(buf) + 1) :
    W[i] = IF i + Len(from) > Len(buf) + 1 THEN RS!From(buf, i)
           ELSE IF OccursAt(buf, from, i) THEN to \o W[i + Len(from)]
           ELSE <<buf[i]>> \o W[i + 1]

\* The loop goes through the buffer up to its end.
LEMMA ReplaceLoop ==
  ASSUME NEW S, NEW buf \in Seq(S), NEW from \in Seq(S) \ {<<>>}, NEW to
  PROVE  \E W : RS!Replace(buf, from, to) = W[1] /\ Rests(W, buf, from, to)
<1> DEFINE n == Len(buf)
           m == Len(from)
           occurs(i) == OccursAt(buf, from, i)
           IsLoop(F, k) == F = [i \in k..(n + 1) |->
                                  IF i + m > n + 1 THEN RS!From(buf, i)
                                  ELSE IF occurs(i) THEN to \o F[i + m]
                                  ELSE <<buf[i]>> \o F[i + 1]]
           Loop == CHOOSE F : IsLoop(F, 1)
           Done == {k \in 1..(n + 1) : \E F : IsLoop(F, k)}
<1>1. RS!Replace(buf, from, to) = Loop[1]
  BY Zenon DEF RS!Replace, OccursAt
<1>2. n \in Nat /\ m \in Nat \ {0}
  BY EmptySeq
<1> HIDE DEF n, m, occurs
<1>3. n + 1 \in Done
  <2>1. \A i \in (n + 1)..(n + 1) : i + m > n + 1
    BY <1>2
  <2>2. IsLoop([i \in (n + 1)..(n + 1) |-> RS!From(buf, i)], n + 1)
    BY <2>1
  <2>3. n + 1 \in 1..(n + 1)
    BY <1>2
  <2> QED
    BY <2>2, <2>3
<1>4. ASSUME NEW k \in 1..n, k + 1 \in Done PROVE k \in Done
  <2>1. PICK F : IsLoop(F, k + 1)
    BY <1>4
  <2> DEFINE G == [i \in k..(n + 1) |->
                     IF i # k THEN F[i]
                     ELSE IF k + m > n + 1 THEN RS!From(buf, k)
                     ELSE IF occurs(k) THEN to \o F[k + m]
                     ELSE <<buf[k]>> \o F[k + 1]]
  <2>2. ASSUME NEW i \in k..(n + 1)
        PROVE  G[i] = IF i + m > n + 1 THEN RS!From(buf, i)
                      ELSE IF occurs(i) THEN to \o G[i + m]
                      ELSE <<buf[i]>> \o G[i + 1]
    <3>0. \A j \in (k + 1)..(n + 1) : G[j] = F[j]
      BY <1>2
    <3>1. ~(i + m > n + 1) => i + m \in (k + 1)..(n + 1) /\ i + 1 \in (k + 1)..(n + 1)
      BY <1>2
    <3>2. CASE i = k
      BY <3>0, <3>1, <3>2
    <3>3. CASE i # k
      <4>1. i \in (k + 1)..(n + 1)
        BY <1>2, <3>3
      <4>2. F[i] = IF i + m > n + 1 THEN RS!From(buf, i)
                   ELSE IF occurs(i) THEN to \o F[i + m]
                   ELSE <<buf[i]>> \o F[i + 1]
        BY <2>1, <4>1
      <4> QED
        BY <3>0, <3>1, <4>1, <4>2
    <3> QED
      BY <3>2, <3>3
  <2>3. IsLoop(G, k)
    BY <2>2
  <2>4. k \in 1..(n + 1)
    BY <1>2
  <2> QED
    BY <2>3, <2>4
<1>5. 1 \in Done
  <2>1. \A k \in 1..(n + 1) : k \in Done
    <3>1. n \in Nat /\ \A k \in 1..n : k + 1 \in Done => k \in Done
      <4> HIDE DEF Done
      <4> QED
        BY <1>2, <1>4
    <3> HIDE DEF Done
    <3> QED
      BY <1>3, <3>1, DownwardSetInduction, Zenon
  <2>2. 1 \in 1..(n + 1)
    BY <1>2
  <2> HIDE DEF Done
  <2> QED
    BY <2>1, <2>2
<1>6. IsLoop(Loop, 1)
  BY <1>5
<1>7. ASSUME NEW i \in 1..(n + 1)
      PROVE  Loop[i] = IF i + m > n + 1 THEN RS!From(buf, i)
                       ELSE IF occurs(i) THEN to \o Loop[i + m]
                       ELSE <<buf[i]>> \o Loop[i + 1]
  <2> HIDE DEF Loop
  <2> QED
    BY <1>6
<1>8. Rests(Loop, buf, from, to)
  <2> HIDE DEF Loop
  <2> QED
    BY <1>7 DEF Rests, n, m, occurs
<1> QED
  BY <1>1, <1>8

\* The rest of a rest is the rest further on.
LEMMA RestOfRest ==
  ASSUME NEW S, NEW buf \in Seq(S), NEW d \in 0..Len(buf)
  PROVE  /\ RS!From(buf, d + 1) \in Seq(S)
         /\ Len(RS!From(buf, d + 1)) = Len(buf) - d
         /\ \A j \in 1..(Len(buf) - d) : RS!From(buf, d + 1)[j] = buf[d + j]
         /\ \A j \in 1..(Len(buf) - d + 1) :
              RS!From(RS!From(buf, d + 1), j) = RS!From(buf, d + j)
<1>1. PICK n \in Nat : n = Len(buf)
  OBVIOUS
<1>2. PICK t : t = SubSeq(buf, d + 1, n)
  OBVIOUS
<1>3. d \in 0..n /\ d + 1 \in Int /\ \A i \in (d + 1)..n : buf[i] \in S
  BY <1>1
<1>4. /\ t \in Seq(S) /\ Len(t) = n - d
      /\ \A j \in 1..(n - d) : t[j] = buf[d + j]
  <2>1. /\ t \in Seq(S)
        /\ Len(t) = IF d + 1 <= n THEN n - (d + 1) + 1 ELSE 0
        /\ \A j \in 1..(n - (d + 1) + 1) : t[j] = buf[(d + 1) + j - 1]
    BY <1>1, <1>2, <1>3, SubSeqProperties
  <2> QED
    BY <1>3, <2>1
<1>5. ASSUME NEW j \in 1..(n - d + 1)
      PROVE  SubSeq(t, j, Len(t)) = SubSeq(buf, d + j, n)
  <2>1. CASE j = n - d + 1
    <3>1. j \in Int /\ n - d \in Int /\ n - d < j /\ d + j \in Int /\ n < d + j
      BY <1>3, <2>1
    <3> QED
      BY <1>4, <3>1, SubSeqEmpty
  <2>2. CASE j # n - d + 1
    <3>1. /\ d + 1 \in 1..n /\ n \in 1..n /\ j \in 1..(n - (d + 1) + 1)
          /\ n - d \in 1..(n - (d + 1) + 1)
          /\ d + j = (d + 1) + j - 1 /\ n = (d + 1) + (n - d) - 1
      BY <1>3, <2>2
    <3>2. SubSeq(SubSeq(buf, d + 1, n), j, n - d) = SubSeq(buf, (d + 1) + j - 1, (d + 1) + (n - d) - 1)
      BY <1>1, <3>1, SubSeqOfSubSeq
    <3> QED
      BY <1>2, <1>4, <3>1, <3>2
  <2> QED
    BY <2>1, <2>2
<1>6. t = RS!From(buf, d + 1)
  BY <1>1, <1>2 DEF RS!From
<1>7. \A j \in 1..(n - d + 1) : RS!From(t, j) = RS!From(buf, d + j)
  BY <1>1, <1>5 DEF RS!From
<1> QED
  BY <1>1, <1>4, <1>6, <1>7

\* What the loop makes of a rest is a sequence.
LEMMA RestsAreSequences ==
  ASSUME NEW S, NEW buf \in Seq(S), NEW from \in Seq(S) \ {<<>>}, NEW to \in Seq(S),
         NEW W, Rests(W, buf, from, to)
  PROVE  \A i \in 1..(Len(buf) + 1) : W[i] \in Seq(S)
<1>1. PICK n \in Nat, m \in Nat \ {0} : n = Len(buf) /\ m = Len(from)
  BY EmptySeq
<1> DEFINE D == {k \in 1..(n + 1) : \A j \in k..(n + 1) : W[j] \in Seq(S)}
<1>2. ASSUME NEW k \in 1..(n + 1), \A j \in (k + 1)..(n + 1) : W[j] \in Seq(S)
      PROVE  W[k] \in Seq(S)
  <2>1. W[k] = IF k + m > n + 1 THEN RS!From(buf, k)
               ELSE IF OccursAt(buf, from, k) THEN to \o W[k + m]
               ELSE <<buf[k]>> \o W[k + 1]
    BY <1>1 DEF Rests
  <2>2. k - 1 \in 0..n /\ (k - 1) + 1 = k
    BY <1>1
  <2>3. RS!From(buf, k) \in Seq(S)
    BY <1>1, <2>2, RestOfRest
  <2>4. CASE k + m > n + 1
    BY <2>1, <2>3, <2>4
  <2>5. CASE ~(k + m > n + 1)
    <3>1. k + m \in (k + 1)..(n + 1) /\ k + 1 \in (k + 1)..(n + 1) /\ k \in 1..n
      BY <1>1, <2>5
    <3>2. W[k + m] \in Seq(S) /\ W[k + 1] \in Seq(S) /\ <<buf[k]>> \in Seq(S)
      BY <1>1, <1>2, <3>1
    <3>3. to \o W[k + m] \in Seq(S) /\ <<buf[k]>> \o W[k + 1] \in Seq(S)
      BY <3>2, ConcatProperties
    <3> QED
      BY <2>1, <2>5, <3>3
  <2> QED
    BY <2>4, <2>5
<1>3. n + 1 \in D
  <2>1. n + 1 \in 1..(n + 1) /\ \A j \in (n + 1)..(n + 1) : j = n + 1
    BY <1>1
  <2>2. W[n + 1] \in Seq(S)
    BY <1>2, <2>1
  <2> QED
    BY <2>1, <2>2
<1>4. \A k \in 1..n : k + 1 \in D => k \in D
  <2> SUFFICES ASSUME NEW k \in 1..n, k + 1 \in D PROVE k \in D
    OBVIOUS
  <2>1. k \in 1..(n + 1) /\ \A j \in k..(n + 1) : j = k \/ j \in (k + 1)..(n + 1)
    BY <1>1
  <2>2. W[k] \in Seq(S)
    BY <1>2, <2>1
  <2> QED
    BY <2>1, <2>2
<1>5. \A k \in 1..(n + 1) : k \in D
  <2> HIDE DEF D
  <2> QED
    BY <1>3, <1>4, DownwardSetInduction, Zenon
<1>6. ASSUME NEW k \in 1..(n + 1) PROVE W[k] \in Seq(S)
  <2>1. k \in k..(n + 1) /\ k \in D
    BY <1>5
  <2> QED
    BY <2>1
<1> QED
  BY <1>1, <1>6

\* The loop treats a rest as it treats a buffer of its own.
LEMMA RestsOfRest ==
  ASSUME NEW S, NEW buf \in Seq(S), NEW from \in Seq(S) \ {<<>>}, NEW to,
         NEW d \in 0..Len(buf), NEW W, Rests(W, buf, from, to),
         NEW V, Rests(V, RS!From(buf, d + 1), from, to)
  PROVE  V[1] = W[d + 1]
<1>0. PICK t : t = RS!From(buf, d + 1)
  OBVIOUS
<1>1. PICK n \in Nat, m \in Nat \ {0} : n = Len(buf) /\ m = Len(from)
  BY EmptySeq
<1>2. PICK l \in Nat : d \in 0..n /\ l = n - d
  <2>1. d \in 0..n
    BY <1>1
  <2>2. n - d \in Nat
    BY <2>1
  <2> QED
    BY <2>1, <2>2
<1>3. /\ t \in Seq(S) /\ Len(t) = l
      /\ \A j \in 1..l : t[j] = buf[d + j]
      /\ \A j \in 1..(l + 1) : RS!From(t, j) = RS!From(buf, d + j)
  <2>1. /\ RS!From(buf, d + 1) \in Seq(S)
        /\ Len(RS!From(buf, d + 1)) = Len(buf) - d
        /\ \A j \in 1..(Len(buf) - d) : RS!From(buf, d + 1)[j] = buf[d + j]
        /\ \A j \in 1..(Len(buf) - d + 1) :
             RS!From(RS!From(buf, d + 1), j) = RS!From(buf, d + j)
    BY RestOfRest
  <2>2. l = Len(buf) - d
    BY <1>1, <1>2
  <2> QED
    BY <1>0, <2>1, <2>2, Zenon
<1> DEFINE D == {k \in 1..(l + 1) : \A j \in k..(l + 1) : V[j] = W[d + j]}
<1>4. ASSUME NEW k \in 1..(l + 1), \A j \in (k + 1)..(l + 1) : V[j] = W[d + j]
      PROVE  V[k] = W[d + k]
  <2>1. d + k \in 1..(n + 1) /\ (k + m > l + 1 <=> (d + k) + m > n + 1)
    BY <1>1, <1>2
  <2>2. V[k] = IF k + m > l + 1 THEN RS!From(t, k)
               ELSE IF OccursAt(t, from, k) THEN to \o V[k + m]
               ELSE <<t[k]>> \o V[k + 1]
    BY <1>0, <1>1, <1>3 DEF Rests
  <2>3. W[d + k] = IF (d + k) + m > n + 1 THEN RS!From(buf, d + k)
                   ELSE IF OccursAt(buf, from, d + k) THEN to \o W[(d + k) + m]
                   ELSE <<buf[d + k]>> \o W[(d + k) + 1]
    BY <1>1, <2>1 DEF Rests
  <2>4. RS!From(t, k) = RS!From(buf, d + k)
    BY <1>3
  <2>5. OccursAt(t, from, k) <=> OccursAt(buf, from, d + k)
    BY <2>4 DEF OccursAt
  <2>6. CASE k + m > l + 1
    BY <2>1, <2>2, <2>3, <2>4, <2>6
  <2>7. CASE ~(k + m > l + 1)
    <3>1. /\ k + m \in (k + 1)..(l + 1) /\ k + 1 \in (k + 1)..(l + 1) /\ k \in 1..l
          /\ d + (k + m) = (d + k) + m /\ d + (k + 1) = (d + k) + 1
      BY <1>1, <1>2, <2>7
    <3>2. V[k + m] = W[(d + k) + m] /\ V[k + 1] = W[(d + k) + 1] /\ t[k] = buf[d + k]
      BY <1>3, <1>4, <3>1
    <3> QED
      BY <2>1, <2>2, <2>3, <2>5, <2>7, <3>2
  <2> QED
    BY <2>6, <2>7
<1>5. l + 1 \in D
  <2>1. l + 1 \in 1..(l + 1) /\ \A j \in (l + 1)..(l + 1) : j = l + 1
    BY <1>2
  <2>2. V[l + 1] = W[d + (l + 1)]
    BY <1>4, <2>1
  <2> QED
    BY <2>1, <2>2
<1>6. \A k \in 1..l : k + 1 \in D => k \in D
  <2> SUFFICES ASSUME NEW k \in 1..l, k + 1 \in D PROVE k \in D
    OBVIOUS
  <2>1. k \in 1..(l + 1) /\ \A j \in k..(l + 1) : j = k \/ j \in (k + 1)..(l + 1)
    BY <1>2
  <2>2. V[k] = W[d + k]
    BY <1>4, <2>1
  <2> QED
    BY <2>1, <2>2
<1>7. \A k \in 1..(l + 1) : k \in D
  <2> HIDE DEF D
  <2> QED
    BY <1>5, <1>6, DownwardSetInduction, Zenon
<1> QED
  <2>1. 1 \in 1..(l + 1)
    BY <1>2
  <2>2. 1 \in D
    BY <1>7, <2>1
  <2> QED
    BY <2>1, <2>2

\* Where `from` does not occur, the loop copies one byte.
LEMMA CopiesOne ==
  ASSUME NEW S, NEW buf \in Seq(S), NEW from \in Seq(S) \ {<<>>}, NEW to,
         NEW W, Rests(W, buf, from, to),
         NEW k \in 1..Len(buf), ~OccursAt(buf, from, k)
  PROVE  W[k] = <<buf[k]>> \o W[k + 1]
<1>1. PICK n \in Nat, m \in Nat \ {0} : n = Len(buf) /\ m = Len(from)
  BY EmptySeq
<1>2. k \in 1..(n + 1) /\ k + 1 \in 1..(n + 1) /\ k \in 1..n /\ n \in k..n
  BY <1>1
<1>3. /\ W[k] = IF k + m > n + 1 THEN RS!From(buf, k) ELSE <<buf[k]>> \o W[k + 1]
      /\ (k + 1) + m > n + 1 => W[k + 1] = RS!From(buf, k + 1)
  BY <1>1, <1>2 DEF Rests
<1>4. RS!From(buf, k) = <<buf[k]>> \o RS!From(buf, k + 1)
  <2>1. SubSeq(buf, k, n) = <<buf[k]>> \o SubSeq(buf, k + 1, n)
    BY <1>1, <1>2, SubSeqRecursiveFirst
  <2> QED
    BY <1>1, <2>1 DEF RS!From
<1>5. k + m > n + 1 => (k + 1) + m > n + 1
  BY <1>1
<1> QED
  BY <1>3, <1>4, <1>5

\* Three sequences are concatenated in either order.
Regroups(s, t, u) == (s \o t) \o u = s \o (t \o u)

LEMMA Regrouped ==
  \A S : \A s, t, u \in Seq(S) : Regroups(s, t, u)
BY ConcatAssociative DEF Regroups

\* `from` is not in buf before the index e + 1.
AbsentBefore(buf, from, e) == \A i \in 1..e : ~OccursAt(buf, from, i)

\* What the loop makes of buf begins with its first e bytes.
KeepsFirst(W, buf, e) == W[1] = SubSeq(buf, 1, e) \o W[e + 1]

\* What comes before an occurrence stays as it is.
LEMMA KeptBefore ==
  ASSUME NEW S, NEW buf \in Seq(S), NEW from \in Seq(S) \ {<<>>}, NEW to \in Seq(S),
         NEW W, Rests(W, buf, from, to),
         NEW e, e \in 0..Len(buf), AbsentBefore(buf, from, e)
  PROVE  KeepsFirst(W, buf, e)
<1>1. PICK n \in Nat : n = Len(buf)
  OBVIOUS
<1>2. e \in Nat /\ e <= n /\ e + 1 \in 1..(n + 1)
  BY <1>1
<1>3. \A k \in 1..(n + 1) : W[k] \in Seq(S)
  BY <1>1, RestsAreSequences
<1> DEFINE D == {k \in 1..(e + 1) : W[k] = SubSeq(buf, k, e) \o W[e + 1]}
<1>4. e + 1 \in D
  <2>1. SubSeq(buf, e + 1, e) = <<>>
    <3>1. e + 1 \in Int /\ e \in Int /\ e < e + 1
      BY <1>2
    <3> QED
      BY <3>1, SubSeqEmpty
  <2>2. <<>> \o W[e + 1] = W[e + 1]
    BY <1>2, <1>3, ConcatEmptySeq
  <2>3. e + 1 \in 1..(e + 1)
    BY <1>2
  <2> QED
    BY <2>1, <2>2, <2>3
<1>5. \A k \in 1..e : k + 1 \in D => k \in D
  <2> SUFFICES ASSUME NEW k \in 1..e, k + 1 \in D PROVE k \in D
    OBVIOUS
  <2>1. /\ k \in 1..(e + 1) /\ k \in 1..n /\ e \in k..n /\ e \in Int /\ k + 1 \in Int
        /\ \A i \in (k + 1)..e : i \in 1..n
    BY <1>2
  <2>2. W[k] = <<buf[k]>> \o W[k + 1]
    <3>1. ~OccursAt(buf, from, k)
      BY DEF AbsentBefore
    <3> QED
      BY <1>1, <2>1, <3>1, CopiesOne
  <2>3. W[k + 1] = SubSeq(buf, k + 1, e) \o W[e + 1]
    OBVIOUS
  <2>4. SubSeq(buf, k, e) = <<buf[k]>> \o SubSeq(buf, k + 1, e)
    BY <1>1, <2>1, SubSeqRecursiveFirst
  <2>5. SubSeq(buf, k + 1, e) \in Seq(S)
    <3>1. \A i \in (k + 1)..e : buf[i] \in S
      BY <1>1, <2>1
    <3> QED
      BY <2>1, <3>1, SubSeqProperties
  <2>6. <<buf[k]>> \in Seq(S) /\ W[e + 1] \in Seq(S)
    BY <1>1, <1>2, <1>3, <2>1
  <2>7. (<<buf[k]>> \o SubSeq(buf, k + 1, e)) \o W[e + 1]
          = <<buf[k]>> \o (SubSeq(buf, k + 1, e) \o W[e + 1])
    <3>1. Regroups(<<buf[k]>>, SubSeq(buf, k + 1, e), W[e + 1])
      BY <2>5, <2>6, Regrouped, Zenon
    <3> QED
      BY <3>1 DEF Regroups
  <2>8. W[k] = SubSeq(buf, k, e) \o W[e + 1]
    BY <2>2, <2>3, <2>4, <2>7, Zenon
  <2> QED
    BY <2>1, <2>8
<1>6. \A k \in 1..(e + 1) : k \in D
  <2> HIDE DEF D
  <2> QED
    BY <1>2, <1>4, <1>5, DownwardSetInduction, Zenon
<1>7. 1 \in 1..(e + 1)
  BY <1>2
<1>8. 1 \in D
  BY <1>6, <1>7
<1> QED
  BY <1>8 DEF KeepsFirst

(***************************************************************************)
(* replace_slice() replaces from the left, whatever the buffer, the name   *)
(* and what takes its place: every occurrence that does not overlap an     *)
(* earlier one is replaced, and every other byte stays (src/src/elfkit/    *)
(* ldd.rs, `while i + from.len() <= buf.len()`).                           *)
(***************************************************************************)
THEOREM ReplacementIsFromTheLeft ==
  ASSUME NEW S, NEW buf \in Seq(S), NEW from \in Seq(S) \ {<<>>}, NEW to \in Seq(S)
  PROVE  RS!IsReplaced(buf, from, to)
<1>1. PICK n \in Nat, m \in Nat \ {0} : n = Len(buf) /\ m = Len(from)
  BY EmptySeq
<1>2. PICK W : RS!Replace(buf, from, to) = W[1] /\ Rests(W, buf, from, to)
  BY ReplaceLoop
<1>3. PICK occ : occ = RS!Occurrences(buf, from)
  OBVIOUS
<1>4. /\ occ \in SUBSET Nat
      /\ \A i \in 1..n : i \in occ <=> OccursAt(buf, from, i)
      /\ occ \subseteq 1..n
  BY <1>1, <1>3 DEF RS!Occurrences, OccursAt
<1>5. CASE occ = {}
  <2>1. n \in 0..n /\ \A i \in 1..n : ~OccursAt(buf, from, i)
    BY <1>1, <1>4, <1>5
  <2>2. W[1] = SubSeq(buf, 1, n) \o W[n + 1]
    <3>1. n \in 0..Len(buf)
      BY <1>1
    <3>2. AbsentBefore(buf, from, n)
      BY <2>1 DEF AbsentBefore
    <3>3. KeepsFirst(W, buf, n)
      BY <1>2, <3>1, <3>2, KeptBefore
    <3> QED
      BY <3>3 DEF KeepsFirst
  <2>3. W[n + 1] = <<>>
    <3>1. n + 1 \in 1..(n + 1) /\ (n + 1) + m > n + 1 /\ n + 1 \in Int /\ n \in Int /\ n < n + 1
      BY <1>1
    <3>2. W[n + 1] = RS!From(buf, n + 1)
      BY <1>1, <1>2, <3>1 DEF Rests
    <3>3. SubSeq(buf, n + 1, n) = <<>>
      BY <3>1, SubSeqEmpty
    <3> QED
      BY <1>1, <3>2, <3>3 DEF RS!From
  <2>4. SubSeq(buf, 1, n) = buf /\ buf \o <<>> = buf
    BY <1>1, SubSeqFull, ConcatEmptySeq
  <2> QED
    BY <1>2, <1>3, <1>5, <2>2, <2>3, <2>4 DEF RS!IsReplaced
<1>6. CASE occ # {}
  <2>1. PICK first : first = CHOOSE i \in occ : \A j \in occ : i <= j
    OBVIOUS
  <2>2. first \in occ /\ \A j \in occ : first <= j
    <3>1. \E i \in occ : \A j \in occ : i <= j
      BY <1>4, <1>6, LeastNatural
    <3> QED
      BY <2>1, <3>1
  <2>3. PICK e \in Nat : e = first - 1
    BY <1>1, <1>4, <2>2
  <2>4. e \in 0..n /\ first \in 1..n /\ e + 1 = first
    BY <1>4, <2>2, <2>3
  <2>5. \A i \in 1..e : ~OccursAt(buf, from, i)
    <3>1. \A i \in 1..e : i \in 1..n /\ ~(first <= i)
      BY <2>4
    <3> QED
      BY <1>4, <2>2, <3>1
  <2>6. W[1] = SubSeq(buf, 1, e) \o W[first]
    <3>1. e \in 0..Len(buf) /\ e + 1 = first
      BY <1>1, <2>4
    <3>2. AbsentBefore(buf, from, e)
      BY <2>5 DEF AbsentBefore
    <3>3. KeepsFirst(W, buf, e)
      BY <1>2, <3>1, <3>2, KeptBefore
    <3> QED
      BY <3>1, <3>3, Zenon DEF KeepsFirst
  <2>7. OccursAt(buf, from, first) /\ first + m <= n + 1
    <3>1. OccursAt(buf, from, first)
      BY <1>4, <2>2, <2>4
    <3>2. Len(from) <= Len(RS!From(buf, first))
      BY <3>1 DEF OccursAt, RS!IsPrefix
    <3>3. Len(RS!From(buf, e + 1)) = n - e
      BY <1>1, <2>4, RestOfRest
    <3>4. m <= n - e
      BY <1>1, <2>4, <3>2, <3>3
    <3>5. first + m <= n + 1
      BY <1>1, <2>4, <3>4
    <3> QED
      BY <3>1, <3>5
  <2>8. W[first] = to \o W[first + m]
    <3>1. first \in 1..(n + 1) /\ ~(first + m > n + 1)
      BY <1>1, <2>4, <2>7
    <3> QED
      BY <1>1, <1>2, <2>7, <3>1 DEF Rests
  <2>9. PICK d \in 0..n : d + 1 = first + m
    <3>1. first + m <= n + 1
      BY <2>7
    <3>2. (e + m) \in 0..n /\ (e + m) + 1 = first + m
      BY <2>4, <3>1
    <3> QED
      BY <3>2
  <2>10. RS!Replace(RS!From(buf, first + m), from, to) = W[first + m]
    <3>1. PICK t : t = RS!From(buf, d + 1)
      OBVIOUS
    <3>2. t \in Seq(S)
      BY <1>1, <3>1, RestOfRest
    <3>3. PICK V : RS!Replace(t, from, to) = V[1] /\ Rests(V, t, from, to)
      BY <3>2, ReplaceLoop
    <3>4. V[1] = W[d + 1]
      BY <1>1, <1>2, <3>1, <3>3, RestsOfRest
    <3> QED
      BY <2>9, <3>1, <3>3, <3>4
  <2>11. SubSeq(buf, 1, e) \o (to \o W[first + m]) = (SubSeq(buf, 1, e) \o to) \o W[first + m]
    <3>1. W[first + m] \in Seq(S)
      <4>1. first + m \in 1..(n + 1)
        BY <1>1, <2>4, <2>7
      <4> QED
        BY <1>1, <1>2, <4>1, RestsAreSequences
    <3>2. SubSeq(buf, 1, e) \in Seq(S)
      <4>1. 1 \in Int /\ e \in Int /\ \A i \in 1..e : buf[i] \in S
        BY <1>1, <2>4
      <4> QED
        BY <4>1, SubSeqProperties
    <3>3. Regroups(SubSeq(buf, 1, e), to, W[first + m])
      BY <3>1, <3>2, Regrouped, Zenon
    <3> QED
      BY <3>3 DEF Regroups
  <2>12. RS!Replace(buf, from, to) =
           SubSeq(buf, 1, first - 1) \o to
             \o RS!Replace(RS!From(buf, first + Len(from)), from, to)
    BY <1>1, <1>2, <2>3, <2>6, <2>8, <2>10, <2>11, Zenon
  <2> QED
    BY <1>3, <1>6, <2>1, <2>12, Zenon DEF RS!IsReplaced
<1> QED
  BY <1>5, <1>6
=============================================================================
