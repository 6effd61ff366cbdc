--------------------------- MODULE InstallModules --------------------------
(***************************************************************************)
(* install_modules() and install_module() of src/src/lib.rs: the kernel    *)
(* modules to install, with their dependencies and `pre` soft              *)
(* dependencies, found by a depth-first search that stops at modules whose *)
(* path is in `visited`.  The path is inserted before the dependencies are *)
(* visited; an error unwinds the recursion to the module of the command    *)
(* line it started from and leaves in `visited` what it had inserted.      *)
(*                                                                         *)
(* A module of a kernel tree and its path are one-to-one, so `visited`     *)
(* holds modules.  The tree and the command line are one record `tree`,    *)
(* chosen in Init and constant afterwards.  Its last field lists the       *)
(* modules whose copy (clone_path) fails.                                  *)
(***************************************************************************)
EXTENDS ModFilter

CONSTANTS
  Modules,   \* kernel modules, and files that are taken for one
  Aliases,   \* module names and aliases
  Trees      \* the kernel trees and command lines to consider

(***************************************************************************)
(* A request is what one argument, or one file below an argument =dir,     *)
(* asks for: "path" for an absolute path, "file" for a file below =dir,    *)
(* "name" for a name or an alias.  "lost" is a file below =dir that the    *)
(* walk does not come to, because it cannot read the file's directory or   *)
(* the file's type.  A directory that does not exist has no files, so it   *)
(* adds nothing to the requests.                                           *)
(***************************************************************************)
Request ==
  [kind : {"path", "file", "lost"}, mod : Modules] \cup [kind : {"name"}, alias : Aliases]

Tree(t) ==
  /\ t.kmod \in BOOLEAN                   \* kmod::Context::new_with succeeds
  /\ t.notModule \subseteq Modules        \* module_new_from_path fails
  /\ t.nameless \subseteq Modules         \* name() is None
  /\ t.pathless \subseteq Modules         \* path() is None (a builtin module)
  /\ t.alias \in [Modules -> Aliases]     \* name()
  /\ t.lookupErr \subseteq Aliases        \* module_new_from_lookup fails
  /\ DOMAIN t.lookup = Aliases /\ \A n \in Aliases : t.lookup[n] \in Seq(Modules)
  /\ DOMAIN t.deps = Modules /\ \A m \in Modules : t.deps[m] \in Seq(Modules)
  /\ t.softErr \subseteq Modules          \* soft_dependencies() fails
  /\ DOMAIN t.pre = Modules /\ \A m \in Modules : t.pre[m] \in Seq(Modules)
  /\ t.requests \in Seq(Request)
  /\ Filter(t.filter)
  /\ DOMAIN t.info = Modules /\ \A m \in Modules : Info(t.info[m])
  /\ t.cloneErr \subseteq Modules

ASSUME InstallModulesAssumption == \A t \in Trees : Tree(t)

(***************************************************************************)
(* A frame of install_module(): at the idx-th dependency, at the idx-th    *)
(* `pre` dependency, or at the cand-th module that the lookup of that one  *)
(* returned.                                                               *)
(***************************************************************************)
Frame == [mod : Modules, stage : {"deps", "pre", "lookup"}, idx : Nat \ {0}, cand : Nat \ {0}]

VARIABLES
  tree,       \* kernel tree and command line (constant)
  phase,      \* "start", "resolve", "walk", "copy", "ok", "error" or "panic"
  next,       \* the next request, then the next element of top
  failed,     \* some request could not be resolved
  top,        \* modules the requests resolved to
  visited,    \* modules whose path was inserted into the HashSet
  stack,      \* frames of install_module()
  walkErr,    \* some install_module() returned Err to install_modules()
  installed   \* modules copied to DESTROOTDIR

resolution == <<failed, top>>
search == <<visited, stack, walkErr>>
vars == <<tree, phase, next, resolution, search, installed>>

FilterPasses(m) == Verdict(tree.filter, tree.info[m])

\* Nothing is looked up yet.
Start ==
  /\ phase = "start" /\ next = 1
  /\ failed = FALSE /\ top = <<>>
  /\ visited = {} /\ stack = <<>> /\ walkErr = FALSE
  /\ installed = {}

Init == tree \in Trees /\ Start

CreateContext ==
  /\ phase = "start"
  /\ phase' = IF tree.kmod THEN "resolve" ELSE "error"
  /\ UNCHANGED <<tree, next, resolution, search, installed>>

----------------------------------------------------------------------------
(***************************************************************************)
(* The closure of flat_map, for one request.                               *)
(***************************************************************************)
Resolving == phase = "resolve" /\ next <= Len(tree.requests)

\* The name or alias looked up for a request; there may be none.
LookedUp(r) == IF r.kind = "name" THEN r.alias ELSE tree.alias[r.mod]

\* An error of the walk, which filter_map(Result::ok) drops.
Lost(r) == r.kind = "lost"

NoLookup(r) == Lost(r) \/ (r.kind # "name" /\ r.mod \in tree.notModule \cup tree.nameless)

\* module_new_from_path(..).unwrap()
PanicOnPath ==
  /\ Resolving /\ tree.requests[next].kind = "path"
  /\ tree.requests[next].mod \in tree.notModule
  /\ phase' = "panic"
  /\ UNCHANGED <<tree, next, resolution, search, installed>>

\* Neither the file nor the error is seen.
SkipLost ==
  /\ Resolving /\ Lost(tree.requests[next])
  /\ next' = next + 1
  /\ UNCHANGED <<tree, phase, resolution, search, installed>>

Unresolved ==
  /\ Resolving /\ ~Lost(tree.requests[next])
  /\ LET r == tree.requests[next]
     IN  /\ ~(r.kind = "path" /\ r.mod \in tree.notModule)
         /\ NoLookup(r) \/ LookedUp(r) \in tree.lookupErr
  /\ failed' = TRUE
  /\ next' = next + 1
  /\ UNCHANGED <<tree, phase, top, search, installed>>

Resolved ==
  /\ Resolving
  /\ LET r == tree.requests[next]
     IN  /\ ~NoLookup(r) /\ LookedUp(r) \notin tree.lookupErr
         /\ top' = top \o tree.lookup[LookedUp(r)]
  /\ next' = next + 1
  /\ UNCHANGED <<tree, phase, failed, search, installed>>

\* Mutant of Incomplete: the modules that were found are enough.
Incomplete_NothingFound == failed /\ top = <<>>

\* One failed request is an error for all of them.
Incomplete == failed

AllResolved ==
  /\ phase = "resolve" /\ next > Len(tree.requests)
  /\ phase' = IF Incomplete THEN "error" ELSE "walk"
  /\ next' = 1
  /\ UNCHANGED <<tree, resolution, search, installed>>

----------------------------------------------------------------------------
(***************************************************************************)
(* install_module().  `rest` is the stack below the call.                  *)
(***************************************************************************)
NewFrame(m) == [mod |-> m, stage |-> "deps", idx |-> 1, cand |-> 1]

\* Mutant of Skipped: a path in `visited` is followed again.
Skipped_NotVisited(m, filter) == m \in tree.pathless \/ (filter /\ ~FilterPasses(m))

Skipped(m, filter) == m \in tree.pathless \/ (filter /\ ~FilterPasses(m)) \/ m \in visited

Call(m, filter, rest) ==
  IF Skipped(m, filter)
  THEN stack' = rest /\ UNCHANGED visited
  ELSE stack' = Append(rest, NewFrame(m)) /\ visited' = visited \cup {m}

Top == stack[Len(stack)]

Below == SubSeq(stack, 1, Len(stack) - 1)

\* The stack with the topmost frame replaced.
Replace(f) == [stack EXCEPT ![Len(stack)] = f]

Walking == phase = "walk" /\ stack # <<>>

\* The next module of the command line.
WalkTop ==
  /\ phase = "walk" /\ stack = <<>> /\ next <= Len(top)
  /\ Call(top[next], TRUE, stack)
  /\ next' = next + 1
  /\ UNCHANGED <<tree, phase, resolution, walkErr, installed>>

WalkDependency ==
  /\ Walking /\ Top.stage = "deps" /\ Top.idx <= Len(tree.deps[Top.mod])
  /\ Call(tree.deps[Top.mod][Top.idx], FALSE, Replace([Top EXCEPT !.idx = @ + 1]))
  /\ UNCHANGED <<tree, phase, next, resolution, walkErr, installed>>

\* The dependencies are done: go on with the soft dependencies, if
\* soft_dependencies() returns any.
DependenciesDone ==
  /\ Walking /\ Top.stage = "deps" /\ Top.idx > Len(tree.deps[Top.mod])
  /\ stack' = IF Top.mod \in tree.softErr THEN Below
              ELSE Replace([Top EXCEPT !.stage = "pre", !.idx = 1])
  /\ UNCHANGED <<tree, phase, next, resolution, visited, walkErr, installed>>

AtPre == Walking /\ Top.stage = "pre" /\ Top.idx <= Len(tree.pre[Top.mod])

PreModule == tree.pre[Top.mod][Top.idx]

LookupPre ==
  /\ AtPre
  /\ PreModule \notin tree.nameless
  /\ tree.alias[PreModule] \notin tree.lookupErr
  /\ stack' = Replace([Top EXCEPT !.stage = "lookup", !.cand = 1])
  /\ UNCHANGED <<tree, phase, next, resolution, visited, walkErr, installed>>

\* `?` in every call on the stack.
PreFails ==
  /\ AtPre
  /\ PreModule \in tree.nameless \/ tree.alias[PreModule] \in tree.lookupErr
  /\ stack' = <<>>
  /\ walkErr' = TRUE
  /\ UNCHANGED <<tree, phase, next, resolution, visited, installed>>

Found == tree.lookup[tree.alias[PreModule]]

WalkPre ==
  /\ Walking /\ Top.stage = "lookup" /\ Top.cand <= Len(Found)
  /\ Call(Found[Top.cand], FALSE, Replace([Top EXCEPT !.cand = @ + 1]))
  /\ UNCHANGED <<tree, phase, next, resolution, walkErr, installed>>

\* Mutant of AfterPre: still in the loop over the modules found.
AfterPre_InLookup == [Top EXCEPT !.idx = @ + 1, !.cand = 1]

\* Mutant of AfterPre: the same soft dependency again.
AfterPre_Same == [Top EXCEPT !.stage = "pre"]

AfterPre == [Top EXCEPT !.stage = "pre", !.idx = @ + 1]

PreDone ==
  /\ Walking /\ Top.stage = "lookup" /\ Top.cand > Len(Found)
  /\ stack' = Replace(AfterPre)
  /\ UNCHANGED <<tree, phase, next, resolution, visited, walkErr, installed>>

ModuleDone ==
  /\ Walking /\ Top.stage = "pre" /\ Top.idx > Len(tree.pre[Top.mod])
  /\ stack' = Below
  /\ UNCHANGED <<tree, phase, next, resolution, visited, walkErr, installed>>

\* Mutant of SearchResult: what could be found is installed in spite of errors.
SearchResult_Copied == "copy"

SearchResult == IF walkErr THEN "error" ELSE "copy"

AllWalked ==
  /\ phase = "walk" /\ stack = <<>> /\ next > Len(top)
  /\ phase' = SearchResult
  /\ UNCHANGED <<tree, next, resolution, search, installed>>

----------------------------------------------------------------------------
(***************************************************************************)
(* install_files(): clone_path() for the paths of the drained HashSet, in  *)
(* any order, until one fails.                                             *)
(***************************************************************************)
InstallFile(m) ==
  /\ phase = "copy" /\ m \in visited \ installed
  /\ IF m \in tree.cloneErr
     THEN phase' = "error" /\ UNCHANGED installed
     ELSE installed' = installed \cup {m} /\ UNCHANGED phase
  /\ UNCHANGED <<tree, next, resolution, search>>

AllInstalled ==
  /\ phase = "copy" /\ installed = visited
  /\ phase' = "ok"
  /\ UNCHANGED <<tree, next, resolution, search, installed>>

Next ==
  \/ CreateContext
  \/ PanicOnPath \/ SkipLost \/ Unresolved \/ Resolved \/ AllResolved
  \/ WalkTop \/ WalkDependency \/ DependenciesDone
  \/ LookupPre \/ PreFails \/ WalkPre \/ PreDone \/ ModuleDone \/ AllWalked
  \/ (\E m \in visited : InstallFile(m)) \/ AllInstalled

Spec == Init /\ [][Next]_vars

----------------------------------------------------------------------------
(***************************************************************************)
(* What the closure is about.                                              *)
(***************************************************************************)
Seq2Set(s) == {s[k] : k \in DOMAIN s}

\* The modules install_module() calls itself for, unless there is an error.
PreFound(m) ==
  IF m \in tree.softErr THEN {}
  ELSE UNION {Seq2Set(tree.lookup[tree.alias[p]]) : p \in Seq2Set(tree.pre[m])}

Needs(m) == Seq2Set(tree.deps[m]) \cup PreFound(m)

Closed(S) == \A m \in S : Needs(m) \ tree.pathless \subseteq S

Accepted(m) == Accepts(tree.filter, tree.info[m])

\* Everything the requests stand for.
Requested ==
  UNION {Seq2Set(tree.lookup[LookedUp(r)]) : r \in {x \in Seq2Set(tree.requests) : ~NoLookup(x)}}

\* The state of ModuleSet; a request that fails or is lost asks for nothing.
Asked == {m \in Requested \ tree.pathless : Accepted(m)}

NeedsOf == [m \in Modules |-> Needs(m) \ tree.pathless]

SetState ==
  CASE phase \in {"start", "resolve", "walk"} -> "choose"
    [] phase = "copy" -> "copy"
    [] phase = "ok" -> "ok"
    [] phase \in {"error", "panic"} -> "failed"

M == INSTANCE ModuleSet WITH
       roots <- Asked, needs <- NeedsOf, state <- SetState, chosen <- visited, copied <- installed

Roots == {m \in Seq2Set(top) : m \notin tree.pathless /\ Accepted(m)}

----------------------------------------------------------------------------
(***************************************************************************)
(* Types.                                                                  *)
(***************************************************************************)
TypeOK ==
  /\ phase \in {"start", "resolve", "walk", "copy", "ok", "error", "panic"}
  /\ next \in Nat \ {0}
  /\ failed \in BOOLEAN
  /\ top \in Seq(Modules)
  /\ visited \subseteq Modules
  /\ stack \in Seq(Frame)
  /\ walkErr \in BOOLEAN
  /\ installed \subseteq visited
  /\ \A k \in 1..Len(stack) :
       stack[k].stage = "lookup" => stack[k].idx <= Len(tree.pre[stack[k].mod])

(***************************************************************************)
(* An error in the middle of the search leaves modules in `visited` whose  *)
(* dependencies were not followed, and a later module of the command line  *)
(* takes them for done.  Nothing of that is ever installed: copying starts *)
(* only when the set is complete, which means that it holds the accepted   *)
(* modules of the command line and with every module what that one needs.  *)
(***************************************************************************)
OnlyCompleteSetsAreCopied ==
  phase \in {"copy", "ok"} \/ installed # {} =>
    /\ Roots \subseteq visited
    /\ Closed(visited)

(***************************************************************************)
(* install_modules() does what ModuleSet says: however errors cut off the  *)
(* search, every module visited is one that was asked for and accepted or  *)
(* that a visited one needs, nothing is copied before all of them are      *)
(* there, and Ok means that all were copied.                               *)
(***************************************************************************)
ImplementsModuleSet == M!Spec

(***************************************************************************)
(* The recursion is bounded by the number of modules, also for cyclic soft *)
(* dependencies: no module has two active calls.                           *)
(***************************************************************************)
NoModuleTwiceOnStack ==
  \A j, k \in 1..Len(stack) : j # k => stack[j].mod # stack[k].mod

(***************************************************************************)
(* "Exclude kernel modules by symbol <REGEXP>" (main.rs:190): an exclusion *)
(* takes away the modules it matches and no others, so a module of the     *)
(* command line without a symbol that `nosymbol` matches is installed if   *)
(* it is accepted without that option.                                     *)
(***************************************************************************)
NosymbolOnlyExcludes ==
  phase = "ok" =>
    \A m \in Seq2Set(top) \ tree.pathless :
      LET without == [tree.filter EXCEPT !.nosymbol = [given |-> FALSE, matches |-> {}]]
          symbols == Seq2Set(tree.info[m].symbols)
      IN  Accepts(without, tree.info[m]) /\ (\A s \in symbols : ~IsMatch(tree.filter.nosymbol, s))
            => m \in installed
=============================================================================
