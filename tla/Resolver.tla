------------------------------ MODULE Resolver -----------------------------
(***************************************************************************)
(* What ldd() of src/src/lib.rs promises, without workers, queue and lock: *)
(* the files found grow one by one from the arguments, each by a file that *)
(* a found ELF file needs, exists and is not installed yet; in the end the *)
(* answer is the files found that are not below DESTROOTDIR.  How far the  *)
(* search goes is left open: that is where ldd() breaks its promise        *)
(* (AllNeededInstalled of Ldd).                                            *)
(*                                                                         *)
(* `world` is as in Ldd.  A file is found together with the directories    *)
(* its own dependencies are searched in, those of the files it was found   *)
(* for.                                                                    *)
(***************************************************************************)
EXTENDS Naturals, Sequences

CONSTANTS
  Joined,          \* see Ldd
  DefaultLibdirs

VARIABLES
  world,    \* the file system (constant)
  found,    \* items [path, lpaths]
  done,     \* ldd() has returned
  answer    \* the files it returned

FoundPaths == {x.path : x \in found}

\* Everything the search for name n of item x may look at.
SearchSpace(x, n) ==
  {Joined[d][n] : d \in x.lpaths \cup world.rpath[x.path]} \cup
  (IF world.cache[n] # <<>>
   THEN {world.cache[n][k] : k \in DOMAIN world.cache[n]}
   ELSE {Joined[DefaultLibdirs[k]][n] : k \in DOMAIN DefaultLibdirs})

\* The files that item x needs by one of its DT_NEEDED names.
NeededFiles(x) ==
  UNION {SearchSpace(x, world.needed[x.path][k]) : k \in DOMAIN world.needed[x.path]}

Init ==
  /\ found = {[path |-> world.args[i], lpaths |-> {}] : i \in DOMAIN world.args}
  /\ done = (found = {})
  /\ answer = {}

\* The file q, which x needs, is found, once.
Find(x, q) ==
  /\ ~done
  /\ world.kind[x.path] = "elf" /\ x.path \notin world.dest
  /\ q \in NeededFiles(x) \ FoundPaths
  /\ q \in world.exists \ world.dest
  /\ found' = found \cup {[path |-> q, lpaths |-> x.lpaths \cup world.rpath[x.path]]}
  /\ UNCHANGED <<world, done, answer>>

Answer ==
  /\ ~done
  /\ done' = TRUE
  /\ answer' = FoundPaths \ world.dest
  /\ UNCHANGED <<world, found>>

Next == Answer \/ \E x \in found : \E q \in NeededFiles(x) : Find(x, q)

Spec == Init /\ [][Next]_<<world, found, done, answer>>
=============================================================================
