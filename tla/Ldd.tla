-------------------------------- MODULE Ldd --------------------------------
(***************************************************************************)
(* The parallel library resolver: ldd() of src/src/lib.rs and              *)
(* Ldd::recurse() of src/src/elfkit/ldd.rs.                                *)
(*                                                                         *)
(* ldd() puts every argument into `visited` and into a dynqueue, and rayon *)
(* workers take items from that queue.  For each item a worker reads the   *)
(* ELF file and searches every DT_NEEDED name along the RPATH/RUNPATH      *)
(* directories, the ld.so.cache and the default library directories.  The  *)
(* only state the workers share is `visited` (an RwLock around a HashSet)  *)
(* and the queue.  A candidate path is inserted into `visited` under the   *)
(* lock BEFORE the worker looks whether the file exists; the look and the  *)
(* enqueue happen later, without the lock.                                 *)
(*                                                                         *)
(* Paths are canonical (their directory went through canonicalize_dir).    *)
(* The file system and DESTROOTDIR do not change while ldd() runs: the     *)
(* files are copied after it has returned.  They are one record `world`,   *)
(* chosen in Init and constant afterwards, so that one run of TLC covers   *)
(* many file systems.                                                      *)
(***************************************************************************)
EXTENDS Naturals, Sequences, FiniteSets

CONSTANTS
  Paths,           \* canonical file names
  Names,           \* DT_NEEDED names
  Dirs,            \* library directories
  Joined,          \* Joined[d][n]: canonicalize_dir(d/n), or d/n if that fails
  DefaultLibdirs,  \* Ldd::default_libdir, in order
  Workers,         \* rayon worker threads
  Worlds           \* the file systems to consider

(***************************************************************************)
(* What File::open and Elf::from_reader make of a file: "missing" cannot   *)
(* be opened, "notElf" and "badElf" are rejected by the parser, for        *)
(* "badDynamic" the header is fine and loading the dynamic section fails.  *)
(***************************************************************************)
Kinds == {"elf", "missing", "notElf", "badElf", "badDynamic"}

World(wd) ==
  wd \in [ exists : SUBSET Paths,               \* files of the host
           dest   : SUBSET Paths,               \* files already below DESTROOTDIR
           kind   : [Paths -> Kinds],
           needed : [Paths -> Seq(Names)],      \* DT_NEEDED, in order
           rpath  : [Paths -> SUBSET Dirs],     \* RPATH and RUNPATH, $ORIGIN replaced
           cache  : [Names -> Seq(Paths)],      \* ld.so.cache; <<>>: no such entry
           args   : Seq(Paths) ]                \* SOURCE arguments after canonicalize_dir

Item == [path : Paths, lpaths : SUBSET Dirs]

ASSUME LddAssumption ==
  /\ IsFiniteSet(Dirs)
  /\ Joined \in [Dirs -> [Names -> Paths]]
  /\ DefaultLibdirs \in Seq(Dirs)
  /\ \A wd \in Worlds : World(wd)

VARIABLES
  world,     \* the file system (constant)
  visited,   \* paths inserted into the shared HashSet
  log,       \* every item ever enqueued, in order (the queue is what is not claimed)
  claimed,   \* indices of log taken by a worker
  results,   \* indices of log for which the closure returned Some(path)
  panicked,  \* a worker hit an unwrap() on an error
  pc,        \* per worker: "idle", "open", "probe", "fresh" or "dead"
  cur,       \* per worker: index of its item in log (0: none yet)
  order,     \* per worker: iteration order of the HashSet lpaths
  dep,       \* per worker: index of the dependency searched
  phase,     \* per worker: which of the three search loops it is in
  pos        \* per worker: index of the candidate in that loop

shared == <<world, visited, log, claimed, results, panicked>>
local  == <<pc, cur, order, dep, phase, pos>>
vars   == <<world, visited, log, claimed, results, panicked,
            pc, cur, order, dep, phase, pos>>

----------------------------------------------------------------------------
\* joined.exists() && !dest.exists()
ToInstall(q) == q \in world.exists \ world.dest

ItemPath(i) == log[i].path

\* Mutant of Lpaths: what is handed down is forgotten.
Lpaths_Own(i) == world.rpath[ItemPath(i)]

\* The lpaths of a recurse() call: those handed down plus those of the file.
Lpaths(i) == log[i].lpaths \cup world.rpath[ItemPath(i)]

Needed(w) == world.needed[ItemPath(cur[w])]

DepName(w) == Needed(w)[dep[w]]

(***************************************************************************)
(* The candidates of one search loop for name n, in the order tried.       *)
(***************************************************************************)
Candidates(ph, ord, n) ==
  CASE ph = "lpaths"  -> [k \in 1..Len(ord) |-> Joined[ord[k]][n]]
    [] ph = "cache"   -> world.cache[n]
    [] ph = "default" -> [k \in 1..Len(DefaultLibdirs) |-> Joined[DefaultLibdirs[k]][n]]

WorkerCandidates(w) == Candidates(phase[w], order[w], DepName(w))

Candidate(w) == WorkerCandidates(w)[pos[w]]

\* A HashSet is iterated in some order that is fixed for the set's lifetime.
IterationOrders(S) ==
  {s \in [1..Cardinality(S) -> S] : \A d \in S : \E k \in DOMAIN s : s[k] = d}

----------------------------------------------------------------------------
\* ldd() is called.
Start ==
  /\ log = [i \in 1..Len(world.args) |-> [path |-> world.args[i], lpaths |-> {}]]
  /\ visited = {world.args[i] : i \in 1..Len(world.args)}
  /\ claimed = {}
  /\ results = {}
  /\ panicked = FALSE
  /\ pc = [w \in Workers |-> "idle"]
  /\ cur = [w \in Workers |-> 0]
  /\ order = [w \in Workers |-> <<>>]
  /\ dep = [w \in Workers |-> 1]
  /\ phase = [w \in Workers |-> "lpaths"]
  /\ pos = [w \in Workers |-> 1]

Init == world \in Worlds /\ Start

----------------------------------------------------------------------------
(***************************************************************************)
(* The closure of filter_map.  A worker takes a queued item; an item whose *)
(* destination exists already yields None and is not looked at.            *)
(***************************************************************************)
\* Mutant of Claimed: the item stays in the queue.
Claimed_Not(i) == claimed

Claimed(i) == claimed \cup {i}

SkipInstalled(w, i) ==
  /\ pc[w] = "idle" /\ ItemPath(i) \in world.dest
  /\ claimed' = Claimed(i)
  /\ UNCHANGED <<world, visited, log, results, panicked, local>>

Take(w, i) ==
  /\ pc[w] = "idle" /\ ItemPath(i) \notin world.dest
  /\ claimed' = Claimed(i)
  /\ pc' = [pc EXCEPT ![w] = "open"]
  /\ cur' = [cur EXCEPT ![w] = i]
  /\ UNCHANGED <<world, visited, log, results, panicked, order, dep, phase, pos>>

\* Mutant of Returned: only files that could be read.
Returned_OnlyRead(w) ==
  results \cup {i \in {cur[w]} : world.kind[ItemPath(i)] = "elf"}

\* The closure returns Some(path), whether recurse() returned Ok or Err.
Returned(w) == results \cup {cur[w]}

Return(w) ==
  /\ results' = Returned(w)
  /\ pc' = [pc EXCEPT ![w] = "idle"]
  /\ UNCHANGED <<world, visited, log, claimed, panicked, cur, order, dep, phase, pos>>

----------------------------------------------------------------------------
(***************************************************************************)
(* recurse(): reading the file.                                            *)
(***************************************************************************)
Unreadable(w) ==
  /\ pc[w] = "open" /\ world.kind[ItemPath(cur[w])] \in {"missing", "notElf", "badElf"}
  /\ Return(w)

\* elf.load(..).unwrap()
PanicOnLoad(w) ==
  /\ pc[w] = "open" /\ world.kind[ItemPath(cur[w])] = "badDynamic"
  /\ panicked' = TRUE
  /\ pc' = [pc EXCEPT ![w] = "dead"]
  /\ UNCHANGED <<world, visited, log, claimed, results, cur, order, dep, phase, pos>>

Parse(w) ==
  /\ pc[w] = "open" /\ world.kind[ItemPath(cur[w])] = "elf"
  /\ pc' = [pc EXCEPT ![w] = "probe"]
  /\ \E s \in IterationOrders(Lpaths(cur[w])) : order' = [order EXCEPT ![w] = s]
  /\ dep' = [dep EXCEPT ![w] = 1]
  /\ phase' = [phase EXCEPT ![w] = "lpaths"]
  /\ pos' = [pos EXCEPT ![w] = 1]
  /\ UNCHANGED <<shared, cur>>

----------------------------------------------------------------------------
(***************************************************************************)
(* recurse(): the search for one dependency.                               *)
(***************************************************************************)
Searching(w) == pc[w] = "probe" /\ dep[w] <= Len(Needed(w))

\* continue 'outer
NextDep(w) ==
  /\ dep' = [dep EXCEPT ![w] = @ + 1]
  /\ phase' = [phase EXCEPT ![w] = "lpaths"]
  /\ pos' = [pos EXCEPT ![w] = 1]

\* Mutant of NextCandidate: the loop does not advance.
NextCandidate_Stays(w) == UNCHANGED <<dep, phase, pos>>

\* the next iteration of the innermost loop
NextCandidate(w) ==
  /\ pos' = [pos EXCEPT ![w] = @ + 1]
  /\ UNCHANGED <<dep, phase>>

\* A path that was found, or that is not new, ends the search for a dependency,
\* except in the loop over the ld.so.cache, which goes on with the next entry.
Advance(w) == IF phase[w] = "cache" THEN NextCandidate(w) ELSE NextDep(w)

AtCandidate(w) == Searching(w) /\ pos[w] <= Len(WorkerCandidates(w))

\* Mutant of IsNew: the result of insert() is ignored.
IsNew_Always(w) == TRUE

\* The result of visited.write().unwrap().insert(joined).
IsNew(w) == Candidate(w) \notin visited

InsertNew(w) ==
  /\ AtCandidate(w) /\ IsNew(w)
  /\ visited' = visited \cup {Candidate(w)}
  /\ pc' = [pc EXCEPT ![w] = "fresh"]
  /\ UNCHANGED <<world, log, claimed, results, panicked, cur, order, dep, phase, pos>>

AlreadyVisited(w) ==
  /\ AtCandidate(w) /\ ~IsNew(w)
  /\ Advance(w)
  /\ UNCHANGED <<shared, pc, cur, order>>

NewItem(w) == [path |-> Candidate(w), lpaths |-> Lpaths(cur[w])]

\* Mutant of Enqueued: a library found in the ld.so.cache is not enqueued.
Enqueued_NotFromCache(w) == IF phase[w] = "cache" THEN log ELSE Append(log, NewItem(w))

Enqueued(w) == Append(log, NewItem(w))

\* The path was new and is a file to install: enqueue it.
Enqueue(w) ==
  /\ pc[w] = "fresh" /\ ToInstall(Candidate(w))
  /\ log' = Enqueued(w)
  /\ pc' = [pc EXCEPT ![w] = "probe"]
  /\ Advance(w)
  /\ UNCHANGED <<world, visited, claimed, results, panicked, cur, order>>

\* The path was new, but is not there or is installed already.
NotHere(w) ==
  /\ pc[w] = "fresh" /\ ~ToInstall(Candidate(w))
  /\ pc' = [pc EXCEPT ![w] = "probe"]
  /\ NextCandidate(w)
  /\ UNCHANGED <<shared, cur, order>>

Exhausted(w, ph) == Searching(w) /\ phase[w] = ph /\ pos[w] > Len(WorkerCandidates(w))

LpathsExhausted(w) ==
  /\ Exhausted(w, "lpaths")
  /\ phase' = [phase EXCEPT ![w] = IF world.cache[DepName(w)] # <<>>
                                   THEN "cache" ELSE "default"]
  /\ pos' = [pos EXCEPT ![w] = 1]
  /\ UNCHANGED <<shared, pc, cur, order, dep>>

\* Mutant of CacheExhausted: `return` instead of `continue 'outer`.
CacheExhausted_Returns(w) ==
  /\ Exhausted(w, "cache")
  /\ Return(w)

CacheExhausted(w) ==
  /\ Exhausted(w, "cache")
  /\ NextDep(w)
  /\ UNCHANGED <<shared, pc, cur, order>>

\* return Err("unable to find dependency"): the rest of deps is not searched.
DependencyNotFound(w) ==
  /\ Exhausted(w, "default")
  /\ Return(w)

AllSearched(w) ==
  /\ pc[w] = "probe"
  /\ dep[w] > Len(Needed(w))
  /\ Return(w)

----------------------------------------------------------------------------
WorkerStep(w) ==
  \/ \E i \in DOMAIN log \ claimed : SkipInstalled(w, i) \/ Take(w, i)
  \/ Unreadable(w) \/ PanicOnLoad(w) \/ Parse(w)
  \/ InsertNew(w) \/ AlreadyVisited(w) \/ Enqueue(w) \/ NotHere(w)
  \/ LpathsExhausted(w) \/ CacheExhausted(w) \/ DependencyNotFound(w)
  \/ AllSearched(w)

Next == \E w \in Workers : WorkerStep(w)

Spec == Init /\ [][Next]_vars

\* rayon runs every worker until its queue is empty.
FairSpec == Spec /\ \A w \in Workers : WF_vars(WorkerStep(w))

Finished == claimed = DOMAIN log /\ \A w \in Workers : pc[w] = "idle"

ResultPaths == {ItemPath(i) : i \in results}

LogPaths == {ItemPath(i) : i \in DOMAIN log}

(***************************************************************************)
(* The abstract specification, and how the state of the workers maps to    *)
(* it: an item is found when it is enqueued.                               *)
(***************************************************************************)
Found == {log[i] : i \in DOMAIN log}

R == INSTANCE Resolver WITH
       found <- Found, done <- Finished, answer <- IF Finished THEN ResultPaths ELSE {}

----------------------------------------------------------------------------
(***************************************************************************)
(* Types.  The search cursors of a worker are meaningful from Parse until  *)
(* Return; a worker in "fresh" stands on a candidate.                      *)
(***************************************************************************)
TypeOK ==
  /\ World(world)
  /\ visited \subseteq Paths
  /\ log \in Seq(Item)
  /\ claimed \subseteq DOMAIN log
  /\ results \subseteq claimed
  /\ panicked \in BOOLEAN
  /\ pc \in [Workers -> {"idle", "open", "probe", "fresh", "dead"}]
  /\ cur \in [Workers -> Nat]
  /\ order \in [Workers -> Seq(Dirs)]
  /\ dep \in [Workers -> Nat \ {0}]
  /\ phase \in [Workers -> {"lpaths", "cache", "default"}]
  /\ pos \in [Workers -> Nat \ {0}]
  /\ \A w \in Workers :
       /\ pc[w] # "idle" => cur[w] \in claimed
       /\ pc[w] = "fresh" => /\ dep[w] <= Len(Needed(w))
                             /\ pos[w] <= Len(WorkerCandidates(w))

(***************************************************************************)
(* The list ldd() returns has no duplicates, as test_usr asserts           *)
(* (lib.rs:441), except for an argument the caller gave twice: no          *)
(* interleaving of the workers enqueues a path twice or enqueues an        *)
(* argument again.                                                         *)
(***************************************************************************)
NoDuplicateResults ==
  \A i, j \in results :
    i # j /\ ItemPath(i) = ItemPath(j) => {i, j} \subseteq DOMAIN world.args

(***************************************************************************)
(* A path that is in `visited` makes every other worker give up its        *)
(* search, so it must not get lost: between the insert and the enqueue the *)
(* inserting worker still has it in its hands, later it is in the queue.   *)
(***************************************************************************)
NoFileLost ==
  \A q \in visited :
    ToInstall(q) => \/ q \in LogPaths
                    \/ \E w \in Workers : pc[w] = "fresh" /\ Candidate(w) = q

(***************************************************************************)
(* When ldd() returns, its list holds exactly the arguments and the files  *)
(* the search came across that are not below DESTROOTDIR yet.              *)
(***************************************************************************)
ResultIsVisitedFiles ==
  Finished =>
    ResultPaths = {q \in visited : ToInstall(q)}
                  \cup ({world.args[i] : i \in DOMAIN world.args} \ world.dest)

(***************************************************************************)
(* The workers together do what Resolver says of one search: whichever     *)
(* order they take items, insert and enqueue in, every file that is        *)
(* enqueued is a new one that a file enqueued before needs, is searched    *)
(* with the directories handed down to it, and is in the answer.           *)
(***************************************************************************)
ImplementsResolver == R!Spec

(***************************************************************************)
(* "Install SOURCE to DEST in DESTROOTDIR with all needed dependencies"    *)
(* (main.rs:31): when ldd() returns, every library that a file to install  *)
(* needs and that the search could find is installed or will be.           *)
(***************************************************************************)
AllNeededInstalled ==
  Finished =>
    \A i \in results : world.kind[ItemPath(i)] = "elf" =>
      \A k \in DOMAIN world.needed[ItemPath(i)] :
        LET found == R!SearchSpace(log[i], world.needed[ItemPath(i)][k]) \cap world.exists
        IN  found # {} => found \cap (ResultPaths \cup world.dest) # {}

\* The k-th candidate of the last loop.
Standard(n, k) == Joined[DefaultLibdirs[k]][n]

\* No other search, argument or entry of the cache brings that path into `visited`.
Uncontested(n, k) ==
  /\ \A i \in DOMAIN world.args : world.args[i] # Standard(n, k)
  /\ \A m \in Names : \A j \in DOMAIN world.cache[m] : world.cache[m][j] # Standard(n, k)
  /\ \A m \in Names, j \in DOMAIN DefaultLibdirs :
       Standard(m, j) = Standard(n, k) => m = n /\ j = k

\* A name in the ld.so.cache, or of a library that is in a default directory and not
\* installed yet, and that no path in `visited` without a file hides.
Known(n) ==
  world.cache[n] = <<>> =>
    /\ \E k \in DOMAIN DefaultLibdirs : Standard(n, k) \in world.exists
    /\ \A k \in DOMAIN DefaultLibdirs :
         /\ Standard(n, k) \notin world.dest
         /\ Standard(n, k) \in world.exists \/ Uncontested(n, k)

(***************************************************************************)
(* The promise is kept where no file has an RPATH or RUNPATH and every     *)
(* name is known.  The loop over the cache goes on when it meets a path    *)
(* that another worker has visited; the one over the default directories   *)
(* gives up, but who was first goes on: all searches for a name meet at    *)
(* the same candidates.  No order of the workers' steps hides a library.   *)
(***************************************************************************)
KnownAreInstalled ==
  (\A p \in Paths : world.rpath[p] = {}) /\ (\A n \in Names : Known(n)) => AllNeededInstalled

(***************************************************************************)
(* ldd() returns, unless a worker panics: cyclic dependencies and searches *)
(* that meet each other in `visited` do not keep the workers busy forever. *)
(***************************************************************************)
Termination == <>(Finished \/ panicked)
=============================================================================
