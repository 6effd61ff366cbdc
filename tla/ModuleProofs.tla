---------------------------- MODULE ModuleProofs ----------------------------
(***************************************************************************)
(* Proofs about InstallModules and ModFilter, for every kernel tree,       *)
(* command line and filter.                                                *)
(***************************************************************************)
EXTENDS InstallModules, DataLemmas

----------------------------------------------------------------------------
(***************************************************************************)
(* The filter.                                                             *)
(***************************************************************************)

\* The loop over the symbols says yes exactly if some symbol is one that
\* `symbol` matches and no symbol up to and including it one that `nosymbol`
\* matches.
LEMMA SymbolLoopAccepts ==
  ASSUME NEW f, NEW m, NEW n \in Nat, Len(m.symbols) = n
  PROVE  SymbolLoop(f, m.symbols) <=> SymbolsAccepted(f, m)
<1> DEFINE yes(k) == IsMatch(f.symbol, m.symbols[k])
           no(k)  == IsMatch(f.nosymbol, m.symbols[k])
           Hit(k) == \E j \in k..n : yes(j) /\ \A i \in k..j : ~no(i)
           IsLoop(F) == F = [k \in 1..(n + 1) |-> /\ k <= n
                                                  /\ ~no(k)
                                                  /\ yes(k) \/ F[k + 1]]
           Loop == CHOOSE F : IsLoop(F)
           W == [k \in 1..(n + 1) |-> Hit(k)]
<1>1. SymbolLoop(f, m.symbols) = Loop[1]
  BY ZenonT(60) DEF SymbolLoop
<1>2. \A k \in 1..n : Hit(k) <=> ~no(k) /\ (yes(k) \/ Hit(k + 1))
  <2> HIDE DEF yes, no
  <2> SUFFICES ASSUME NEW k \in 1..n
               PROVE  Hit(k) <=> ~no(k) /\ (yes(k) \/ Hit(k + 1))
    OBVIOUS
  <2>1. ASSUME Hit(k) PROVE ~no(k) /\ (yes(k) \/ Hit(k + 1))
    <3>1. PICK j \in k..n : yes(j) /\ \A i \in k..j : ~no(i)
      BY <2>1
    <3>2. ~no(k)
      BY <3>1
    <3>3. CASE j = k
      BY <3>1, <3>2, <3>3
    <3>4. CASE j # k
      <4>1. j \in (k + 1)..n /\ \A i \in (k + 1)..j : ~no(i)
        BY <3>1, <3>4
      <4> QED
        BY <3>1, <3>2, <4>1
    <3> QED
      BY <3>3, <3>4
  <2>2. ASSUME ~no(k), yes(k) PROVE Hit(k)
    BY <2>2
  <2>3. ASSUME ~no(k), Hit(k + 1) PROVE Hit(k)
    <3>1. PICK j \in (k + 1)..n : yes(j) /\ \A i \in (k + 1)..j : ~no(i)
      BY <2>3
    <3>2. j \in k..n /\ \A i \in k..j : i = k \/ i \in (k + 1)..j
      OBVIOUS
    <3>3. \A i \in k..j : ~no(i)
      BY <2>3, <3>1, <3>2
    <3> QED
      BY <3>1, <3>2, <3>3
  <2> QED
    BY <2>1, <2>2, <2>3
<1>3. ~Hit(n + 1) /\ \A k \in 1..(n + 1) : Hit(k) \in BOOLEAN
  OBVIOUS
<1> HIDE DEF yes, no, Hit
<1>4. IsLoop(W)
  <2>1. ASSUME NEW k \in 1..(n + 1)
        PROVE  W[k] = (k <= n /\ ~no(k) /\ (yes(k) \/ W[k + 1]))
    <3>1. CASE k = n + 1
      BY <1>3, <3>1
    <3>2. CASE k # n + 1
      <4>1. k \in 1..n /\ k + 1 \in 1..(n + 1)
        BY <3>2
      <4>2. W[k] = Hit(k) /\ W[k + 1] = Hit(k + 1)
        BY <4>1
      <4> QED
        BY <1>2, <1>3, <4>1, <4>2
    <3> QED
      BY <3>1, <3>2
  <2>2. W = [k \in 1..(n + 1) |-> W[k]]
    OBVIOUS
  <2> HIDE DEF W
  <2>3. [k \in 1..(n + 1) |-> W[k]]
          = [k \in 1..(n + 1) |-> k <= n /\ ~no(k) /\ (yes(k) \/ W[k + 1])]
    BY <2>1
  <2> QED
    BY <2>2, <2>3, Zenon
<1>5. IsLoop(Loop)
  <2> HIDE DEF IsLoop, W
  <2> QED
    BY <1>4, Zenon
<1> HIDE DEF Loop, W
<1>6. \A k \in 1..(n + 1) : Loop[k] <=> (k <= n /\ ~no(k) /\ (yes(k) \/ Loop[k + 1]))
  BY <1>5
<1> DEFINE S == {k \in 1..(n + 1) : Loop[k] <=> Hit(k)}
<1>7. n + 1 \in S
  BY <1>3, <1>6
<1>8. \A k \in 1..n : k + 1 \in S => k \in S
  BY <1>2, <1>6
<1>9. 1 \in S
  <2> HIDE DEF S
  <2> QED
    BY <1>7, <1>8, DownwardSetInduction
<1>10. Loop[1] <=> Hit(1)
  BY <1>9
<1> QED
  BY <1>1, <1>10 DEF SymbolsAccepted, Hit, yes, no

\* filter_module_name_path_symbols() lets a module pass exactly if the options
\* together accept it.
THEOREM FilterAccepts ==
  ASSUME NEW f, NEW m, Len(m.symbols) \in Nat
  PROVE  Verdict(f, m) <=> Accepts(f, m)
BY SymbolLoopAccepts DEF Verdict, Accepts, IsMatch

----------------------------------------------------------------------------
(***************************************************************************)
(* The search.  OnlyCompleteSetsAreCopied is not inductive: that a module  *)
(* in `visited` has all it needs there is true of the modules whose call   *)
(* has returned; for a call that is still on the stack it is true of what  *)
(* the call is past.  An error takes calls off the stack before that, and  *)
(* leaves walkErr behind.                                                  *)
(***************************************************************************)
Handled(m) == m \in tree.pathless \/ m \in visited

\* What the frame f is past is handled.
Progress(f) ==
  /\ \A j \in DOMAIN tree.deps[f.mod] :
       (f.stage = "deps" => j < f.idx) => Handled(tree.deps[f.mod][j])
  /\ f.stage # "deps" =>
       /\ f.mod \notin tree.softErr
       /\ \A j \in DOMAIN tree.pre[f.mod] : j < f.idx =>
            \A m \in Seq2Set(tree.lookup[tree.alias[tree.pre[f.mod][j]]]) : Handled(m)
  /\ f.stage = "lookup" =>
       \A c \in DOMAIN tree.lookup[tree.alias[tree.pre[f.mod][f.idx]]] : c < f.cand =>
         Handled(tree.lookup[tree.alias[tree.pre[f.mod][f.idx]]][c])

StackProgresses == \A k \in 1..Len(stack) : stack[k].mod \in visited /\ Progress(stack[k])

OnStack(m) == \E k \in 1..Len(stack) : stack[k].mod = m

VisitedComplete ==
  ~walkErr => \A m \in visited : OnStack(m) \/ Needs(m) \ tree.pathless \subseteq visited

RootsWalked ==
  phase \in {"walk", "copy", "ok"} =>
    \A k \in DOMAIN top :
      (phase = "walk" => k < next) => Handled(top[k]) \/ ~FilterPasses(top[k])

\* When a phase begins, the one before has come to its end.
PhasesInOrder ==
  /\ phase # "walk" => stack = <<>>
  /\ phase \in {"start", "resolve", "walk"} => installed = {}
  /\ phase \in {"copy", "ok"} => ~walkErr
  /\ phase \in {"start", "resolve"} => visited = {}
  /\ phase = "ok" => installed = visited

SearchInv ==
  StackProgresses /\ VisitedComplete /\ RootsWalked /\ PhasesInOrder /\ OnlyCompleteSetsAreCopied

\* A request that is behind has been resolved, and `top` holds what it stands
\* for.
RequestsResolved ==
  /\ Seq2Set(top) \subseteq Requested
  /\ phase = "start" => next = 1
  /\ phase \in {"resolve", "walk", "copy", "ok"} /\ ~failed =>
       \A k \in DOMAIN tree.requests :
         LET r == tree.requests[k]
         IN  (phase = "resolve" => k < next) =>
               \/ Lost(r)
               \/ /\ ~NoLookup(r) /\ LookedUp(r) \notin tree.lookupErr
                  /\ Seq2Set(tree.lookup[LookedUp(r)]) \subseteq Seq2Set(top)
  /\ phase \in {"walk", "copy", "ok"} => ~failed

----------------------------------------------------------------------------
(***************************************************************************)
(* Types.                                                                  *)
(***************************************************************************)
TypeInv == TypeOK /\ Tree(tree)

\* What a request looks up is a known alias.
LEMMA RequestTypes ==
  ASSUME Tree(tree), NEW k \in DOMAIN tree.requests, ~NoLookup(tree.requests[k])
  PROVE  /\ LookedUp(tree.requests[k]) \in Aliases
         /\ tree.lookup[LookedUp(tree.requests[k])] \in Seq(Modules)
<1>1. tree.requests[k] \in Request
  BY DEF Tree
<1>2. LookedUp(tree.requests[k]) \in Aliases
  BY <1>1 DEF Tree, Request, LookedUp
<1> QED
  BY <1>2 DEF Tree

\* The topmost frame, and the modules it names.
LEMMA TopTypes ==
  ASSUME TypeInv, stack # <<>>
  PROVE  /\ Len(stack) \in Nat \ {0} /\ Top \in Frame /\ Top = stack[Len(stack)]
         /\ Top.mod \in Modules /\ Top.idx \in Nat \ {0} /\ Top.cand \in Nat \ {0}
         /\ Top.stage \in {"deps", "pre", "lookup"}
         /\ tree.deps[Top.mod] \in Seq(Modules) /\ tree.pre[Top.mod] \in Seq(Modules)
         /\ Top.idx <= Len(tree.pre[Top.mod]) =>
              /\ PreModule \in Modules /\ tree.alias[PreModule] \in Aliases
              /\ Found \in Seq(Modules)
<1>1. Len(stack) \in Nat \ {0} /\ Top \in Frame /\ Top = stack[Len(stack)]
  BY DEF TypeInv, TypeOK, Top
<1>2. /\ Top.mod \in Modules /\ Top.idx \in Nat \ {0} /\ Top.cand \in Nat \ {0}
      /\ Top.stage \in {"deps", "pre", "lookup"}
  BY <1>1 DEF Frame
<1>3. tree.deps[Top.mod] \in Seq(Modules) /\ tree.pre[Top.mod] \in Seq(Modules)
  BY <1>2 DEF TypeInv, Tree
<1>4. ASSUME Top.idx <= Len(tree.pre[Top.mod])
      PROVE  PreModule \in Modules /\ tree.alias[PreModule] \in Aliases /\ Found \in Seq(Modules)
  <2>1. PreModule \in Modules
    BY <1>2, <1>3, <1>4 DEF PreModule
  <2> QED
    BY <2>1 DEF TypeInv, Tree, Found
<1> QED
  BY <1>1, <1>2, <1>3, <1>4

\* The three stacks a step of a call builds on.
LEMMA StackTypes ==
  ASSUME TypeInv, stack # <<>>, NEW f \in Frame
  PROVE  /\ Replace(f) \in Seq(Frame) /\ Len(Replace(f)) = Len(stack)
         /\ Replace(f)[Len(stack)] = f
         /\ \A k \in 1..(Len(stack) - 1) : Replace(f)[k] = stack[k]
         /\ Below \in Seq(Frame) /\ Len(Below) = Len(stack) - 1
         /\ \A k \in 1..(Len(stack) - 1) : Below[k] = stack[k]
<1>1. stack \in Seq(Frame) /\ Len(stack) \in Nat \ {0}
  BY TopTypes DEF TypeInv, TypeOK
<1>2. /\ Replace(f) \in Seq(Frame) /\ Len(Replace(f)) = Len(stack)
      /\ Replace(f)[Len(stack)] = f
      /\ \A k \in 1..(Len(stack) - 1) : Replace(f)[k] = stack[k]
  BY <1>1 DEF Replace
<1>3. /\ Below \in Seq(Frame) /\ Len(Below) = Len(stack) - 1
      /\ \A k \in 1..(Len(stack) - 1) : Below[k] = stack[k]
  BY <1>1, FrontElements DEF Below
<1> QED
  BY <1>2, <1>3

\* A call leaves the stack as it is or puts a frame on it.
LEMMA CallTypes ==
  ASSUME visited \subseteq Modules, NEW m \in Modules, NEW filter \in BOOLEAN,
         NEW rest \in Seq(Frame), Call(m, filter, rest)
  PROVE  /\ stack' \in Seq(Frame) /\ visited' \subseteq Modules /\ visited \subseteq visited'
         /\ \/ Skipped(m, filter) /\ stack' = rest /\ visited' = visited
            \/ /\ ~Skipped(m, filter) /\ visited' = visited \cup {m}
               /\ Len(stack') = Len(rest) + 1 /\ stack'[Len(rest) + 1] = NewFrame(m)
               /\ \A k \in 1..Len(rest) : stack'[k] = rest[k]
<1>1. NewFrame(m) \in Frame
  BY DEF NewFrame, Frame
<1>2. CASE Skipped(m, filter)
  BY <1>2 DEF Call
<1>3. CASE ~Skipped(m, filter)
  BY <1>1, <1>3 DEF Call
<1> QED
  BY <1>2, <1>3

(***************************************************************************)
(* A step of the search takes the topmost frame away, or replaces it by f  *)
(* and may put a new one on it.                                            *)
(***************************************************************************)
Pops ==
  /\ stack # <<>> /\ visited' = visited /\ stack' \in Seq(Frame)
  /\ Len(stack') = Len(stack) - 1
  /\ \A k \in 1..Len(stack') : stack'[k] = stack[k]

Replaces(f) ==
  /\ stack # <<>> /\ visited' = visited
  /\ stack' \in Seq(Frame) /\ Len(stack') = Len(stack) /\ stack'[Len(stack)] = f
  /\ \A k \in 1..(Len(stack) - 1) : stack'[k] = stack[k]

Pushes(f, m) ==
  /\ m \notin visited /\ visited' = visited \cup {m}
  /\ stack' \in Seq(Frame) /\ Len(stack') = Len(stack) + 1
  /\ stack'[Len(stack) + 1] = NewFrame(m)
  /\ stack # <<>> => stack'[Len(stack)] = f
  /\ \A k \in 1..(Len(stack) - 1) : stack'[k] = stack[k]

\* The call for module m from the loop that goes on with frame f.
LEMMA CallSteps ==
  ASSUME TypeInv, stack # <<>>, NEW f \in Frame, NEW m \in Modules, Call(m, FALSE, Replace(f)),
         tree' = tree
  PROVE  /\ Handled(m)'
         /\ Replaces(f) \/ Pushes(f, m)
<1>1. /\ Replace(f) \in Seq(Frame) /\ Len(Replace(f)) = Len(stack) /\ Len(stack) \in Nat \ {0}
      /\ Replace(f)[Len(stack)] = f
      /\ \A k \in 1..(Len(stack) - 1) : Replace(f)[k] = stack[k]
  BY StackTypes, TopTypes
<1>2. visited \subseteq Modules
  BY DEF TypeInv, TypeOK
<1>3. CASE Skipped(m, FALSE)
  <2>1. stack' = Replace(f) /\ visited' = visited
    BY <1>1, <1>2, <1>3, CallTypes
  <2> QED
    BY <1>1, <1>3, <2>1 DEF Skipped, Handled, Replaces
<1>4. CASE ~Skipped(m, FALSE)
  <2>1. /\ visited' = visited \cup {m} /\ stack' \in Seq(Frame)
        /\ Len(stack') = Len(stack) + 1 /\ stack'[Len(stack) + 1] = NewFrame(m)
        /\ \A k \in 1..Len(stack) : stack'[k] = Replace(f)[k]
    <3>1. stack' = Append(Replace(f), NewFrame(m)) /\ visited' = visited \cup {m}
      BY <1>4 DEF Call
    <3>2. NewFrame(m) \in Frame
      BY DEF NewFrame, Frame
    <3> QED
      BY <1>1, <3>1, <3>2
  <2>2. m \notin visited
    BY <1>4 DEF Skipped
  <2> QED
    BY <1>1, <2>1, <2>2 DEF Handled, Pushes
<1> QED
  BY <1>3, <1>4

\* A frame in the loop over what a lookup returned is at a `pre` dependency.
FrameOK(f) == f.stage = "lookup" => f.idx <= Len(tree.pre[f.mod])

\* What a step of the call on top of the stack amounts to.
CallStep(f) ==
  /\ f.mod = Top.mod /\ FrameOK(f)
  /\ \/ Pops /\ (StackProgresses => Needs(Top.mod) \ tree.pathless \subseteq visited)
     \/ /\ StackProgresses => Progress(f)'
        /\ Replaces(f) \/ \E m \in Modules : Pushes(f, m)

\* What has been handled stays handled.
LEMMA ProgressStable ==
  ASSUME tree' = tree, visited \subseteq visited', NEW f, Progress(f)
  PROVE  Progress(f)'
BY DEF Progress, Handled

\* The loop over the dependencies.
LEMMA WalkDependencyStep ==
  ASSUME TypeInv, WalkDependency
  PROVE  \E f \in Frame : CallStep(f)
<1>m. PICK m : m = tree.deps[Top.mod][Top.idx]
  OBVIOUS
<1>f. PICK f : f = [Top EXCEPT !.idx = @ + 1]
  OBVIOUS
<1>1. /\ stack # <<>> /\ Top.stage = "deps" /\ Top.idx <= Len(tree.deps[Top.mod])
      /\ Call(m, FALSE, Replace(f)) /\ tree' = tree
  BY <1>m, <1>f DEF WalkDependency, Walking
<1>2. /\ Top \in Frame /\ Top.mod \in Modules /\ Top.idx \in Nat \ {0}
      /\ tree.deps[Top.mod] \in Seq(Modules)
  BY <1>1, TopTypes
<1>3. /\ m \in Modules /\ f \in Frame /\ f.mod = Top.mod /\ f.idx = Top.idx + 1
      /\ f.stage = "deps"
  BY <1>m, <1>f, <1>1, <1>2 DEF Frame
<1>4. Handled(m)' /\ (Replaces(f) \/ Pushes(f, m))
  BY <1>1, <1>3, CallSteps
<1>5. ASSUME StackProgresses PROVE Progress(f)'
  <2>1. Progress(Top) /\ visited \subseteq visited'
    BY <1>1, <1>4, <1>5, TopTypes DEF StackProgresses, Replaces, Pushes
  <2>2. \A j \in DOMAIN tree.deps[f.mod] : j < f.idx => Handled(tree.deps[f.mod][j])'
    <3> SUFFICES ASSUME NEW j \in DOMAIN tree.deps[f.mod], j < f.idx
                 PROVE  Handled(tree.deps[f.mod][j])'
      OBVIOUS
    <3>1. CASE j = Top.idx
      BY <1>m, <1>1, <1>3, <1>4, <3>1 DEF Handled
    <3>2. CASE j # Top.idx
      <4>1. j < Top.idx
        BY <1>2, <1>3, <3>2
      <4>2. Handled(tree.deps[f.mod][j])
        BY <1>3, <2>1, <4>1 DEF Progress
      <4> QED
        BY <1>1, <2>1, <4>2 DEF Handled
    <3> QED
      BY <3>1, <3>2
  <2> QED
    BY <1>1, <1>3, <2>2 DEF Progress, Handled
<1>6. CallStep(f)
  BY <1>3, <1>4, <1>5 DEF CallStep, FrameOK
<1> QED
  BY <1>3, <1>6

\* A step within the frame, without a call.
LEMMA ReplaceStep ==
  ASSUME TypeInv, stack # <<>>, NEW f \in Frame, stack' = Replace(f), visited' = visited
  PROVE  Replaces(f)
BY StackTypes, TopTypes DEF Replaces

\* The call returns.
LEMMA PopStep ==
  ASSUME TypeInv, stack # <<>>, stack' = Below, visited' = visited, NEW f \in Frame
  PROVE  Pops
BY StackTypes, TopTypes DEF Pops

\* The dependencies are done: the call returns or goes on with the soft ones.
LEMMA DependenciesDoneStep ==
  ASSUME TypeInv, DependenciesDone
  PROVE  \E f \in Frame : CallStep(f)
<1>1. /\ stack # <<>> /\ Top.stage = "deps" /\ Top.idx > Len(tree.deps[Top.mod])
      /\ tree' = tree /\ visited' = visited
  BY DEF DependenciesDone, Walking
<1>2. /\ Top \in Frame /\ Top.mod \in Modules /\ Top.idx \in Nat \ {0}
      /\ tree.deps[Top.mod] \in Seq(Modules)
  BY <1>1, TopTypes
<1>3. ASSUME StackProgresses
      PROVE  \A j \in DOMAIN tree.deps[Top.mod] : Handled(tree.deps[Top.mod][j])
  <2>1. Progress(Top)
    BY <1>1, <1>3, TopTypes DEF StackProgresses
  <2>2. \A j \in DOMAIN tree.deps[Top.mod] : j < Top.idx
    BY <1>1, <1>2
  <2> QED
    BY <2>1, <2>2 DEF Progress
<1>4. CASE Top.mod \in tree.softErr
  <2>1. Pops
    BY <1>1, <1>2, <1>4, PopStep DEF DependenciesDone
  <2>2. StackProgresses => Needs(Top.mod) \ tree.pathless \subseteq visited
    BY <1>3, <1>4 DEF Needs, PreFound, Seq2Set, Handled
  <2>3. CallStep(Top)
    BY <1>1, <2>1, <2>2 DEF CallStep, FrameOK
  <2> QED
    BY <1>2, <2>3
<1>5. CASE Top.mod \notin tree.softErr
  <2>1. PICK f : f = [Top EXCEPT !.stage = "pre", !.idx = 1]
    OBVIOUS
  <2>2. f \in Frame /\ f.mod = Top.mod /\ f.stage = "pre" /\ f.idx = 1
    <3>1. f = [mod |-> Top.mod, stage |-> "pre", idx |-> 1, cand |-> Top.cand]
      BY <1>2, <2>1 DEF Frame
    <3> QED
      BY <1>1, <3>1, TopTypes DEF Frame
  <2>3. Replaces(f)
    BY <1>1, <1>5, <2>1, <2>2, ReplaceStep DEF DependenciesDone
  <2>4. ASSUME StackProgresses PROVE Progress(f)
    <3>1. tree.pre[f.mod] \in Seq(Modules)
      BY <1>1, <2>2, TopTypes
    <3>2. \A j \in DOMAIN tree.pre[f.mod] : ~(j < 1)
      BY <3>1
    <3> QED
      BY <1>3, <1>5, <2>2, <2>4, <3>2 DEF Progress
  <2>5. StackProgresses => Progress(f)'
    BY <1>1, <2>4, ProgressStable
  <2>6. CallStep(f)
    BY <2>2, <2>3, <2>5 DEF CallStep, FrameOK
  <2> QED
    BY <2>2, <2>6
<1> QED
  BY <1>4, <1>5

\* The next soft dependency is looked up.
LEMMA LookupPreStep ==
  ASSUME TypeInv, LookupPre
  PROVE  \E f \in Frame : CallStep(f)
<1>1. PICK f : f = [Top EXCEPT !.stage = "lookup", !.cand = 1]
  OBVIOUS
<1>2. /\ stack # <<>> /\ Top.stage = "pre" /\ Top.idx <= Len(tree.pre[Top.mod])
      /\ stack' = Replace(f) /\ tree' = tree /\ visited' = visited
  BY <1>1 DEF LookupPre, AtPre, Walking
<1>3. Top \in Frame /\ f \in Frame /\ f.mod = Top.mod /\ f.stage = "lookup"
      /\ f.idx = Top.idx /\ f.cand = 1
  <2>1. Top \in Frame
    BY <1>2, TopTypes
  <2>2. f = [mod |-> Top.mod, stage |-> "lookup", idx |-> Top.idx, cand |-> 1]
    BY <1>1, <2>1 DEF Frame
  <2> QED
    BY <1>2, <2>1, <2>2, TopTypes DEF Frame
<1>4. Replaces(f)
  BY <1>2, <1>3, ReplaceStep
<1>5. ASSUME StackProgresses PROVE Progress(f)
  <2>1. Progress(Top)
    BY <1>2, <1>5, TopTypes DEF StackProgresses
  <2>2. PICK s : s = tree.lookup[tree.alias[tree.pre[f.mod][f.idx]]]
    OBVIOUS
  <2>3. s \in Seq(Modules)
    BY <1>2, <1>3, <2>2, TopTypes DEF Found, PreModule
  <2>4. \A c \in DOMAIN s : ~(c < 1)
    BY <2>3
  <2>5. /\ \A j \in DOMAIN tree.deps[f.mod] : Handled(tree.deps[f.mod][j])
        /\ f.mod \notin tree.softErr
        /\ \A j \in DOMAIN tree.pre[f.mod] : j < f.idx =>
             \A m \in Seq2Set(tree.lookup[tree.alias[tree.pre[f.mod][j]]]) : Handled(m)
    BY <1>2, <1>3, <2>1 DEF Progress
  <2> QED
    BY <1>3, <2>2, <2>4, <2>5 DEF Progress
<1>6. StackProgresses => Progress(f)'
  BY <1>2, <1>5, ProgressStable
<1>7. CallStep(f)
  BY <1>2, <1>3, <1>4, <1>6 DEF CallStep, FrameOK
<1> QED
  BY <1>3, <1>7

\* The loop over the modules that the lookup returned.
LEMMA WalkPreStep ==
  ASSUME TypeInv, WalkPre
  PROVE  \E f \in Frame : CallStep(f)
<1>m. PICK m : m = Found[Top.cand]
  OBVIOUS
<1>f. PICK f : f = [Top EXCEPT !.cand = @ + 1]
  OBVIOUS
<1>1. /\ stack # <<>> /\ Top.stage = "lookup" /\ Top.cand <= Len(Found)
      /\ Call(m, FALSE, Replace(f)) /\ tree' = tree
  BY <1>m, <1>f DEF WalkPre, Walking
<1>2. /\ Top \in Frame /\ Top.cand \in Nat \ {0} /\ Top.idx <= Len(tree.pre[Top.mod])
      /\ Found \in Seq(Modules)
  BY <1>1, TopTypes DEF TypeInv, TypeOK
<1>3. /\ m \in Modules /\ f \in Frame /\ f.mod = Top.mod /\ f.idx = Top.idx
      /\ f.stage = "lookup" /\ f.cand = Top.cand + 1
      /\ Found = tree.lookup[tree.alias[tree.pre[f.mod][f.idx]]]
  <2>1. f = [mod |-> Top.mod, stage |-> "lookup", idx |-> Top.idx, cand |-> Top.cand + 1]
    BY <1>f, <1>1, <1>2 DEF Frame
  <2>2. f \in Frame /\ f.mod = Top.mod /\ f.idx = Top.idx /\ f.cand = Top.cand + 1
        /\ f.stage = "lookup"
    BY <1>1, <2>1, TopTypes DEF Frame
  <2>3. m \in Modules
    BY <1>m, <1>1, <1>2
  <2> QED
    BY <2>2, <2>3 DEF Found, PreModule
<1>4. Handled(m)' /\ (Replaces(f) \/ Pushes(f, m))
  BY <1>1, <1>3, CallSteps
<1>5. ASSUME StackProgresses PROVE Progress(f)'
  <2>1. Progress(Top) /\ visited \subseteq visited'
    BY <1>1, <1>4, <1>5, TopTypes DEF StackProgresses, Replaces, Pushes
  <2>2. PICK found : found = Found
    OBVIOUS
  <2>3. ASSUME NEW c \in DOMAIN found, c < f.cand PROVE Handled(found[c])'
    <3>1. CASE c = Top.cand
      BY <1>m, <1>4, <2>2, <3>1 DEF Handled
    <3>2. CASE c # Top.cand
      <4>1. c < Top.cand
        <5>1. c \in Nat /\ c < Top.cand + 1
          <6>1. found \in Seq(Modules)
            BY <1>2, <2>2
          <6>2. f.cand = Top.cand + 1
            BY <1>3
          <6> QED
            BY <2>3, <6>1, <6>2
        <5> QED
          BY <1>2, <3>2, <5>1
      <4>2. Handled(found[c])
        BY <1>1, <1>3, <2>1, <2>2, <4>1 DEF Progress
      <4> QED
        BY <1>1, <2>1, <4>2 DEF Handled
    <3> QED
      BY <3>1, <3>2
  <2>4. PICK t : t = Top
    OBVIOUS
  <2>5. Progress(t)'
    BY <1>1, <2>1, <2>4, ProgressStable
  <2> QED
    BY <1>1, <1>3, <2>2, <2>3, <2>4, <2>5 DEF Progress
<1>6. CallStep(f)
  BY <1>2, <1>3, <1>4, <1>5 DEF CallStep, FrameOK
<1> QED
  BY <1>3, <1>6

\* All modules of a soft dependency are handled: go on with the next one.
LEMMA PreDoneStep ==
  ASSUME TypeInv, PreDone
  PROVE  \E f \in Frame : CallStep(f)
<1>1. PICK f : f = AfterPre
  OBVIOUS
<1>2. /\ stack # <<>> /\ Top.stage = "lookup" /\ Top.cand > Len(Found)
      /\ stack' = Replace(f) /\ tree' = tree /\ visited' = visited
  BY <1>1 DEF PreDone, Walking
<1>3. /\ Top \in Frame /\ Top.cand \in Nat \ {0} /\ Top.idx \in Nat
      /\ Top.idx <= Len(tree.pre[Top.mod]) /\ Found \in Seq(Modules)
      /\ tree.pre[Top.mod] \in Seq(Modules)
  BY <1>2, TopTypes DEF TypeInv, TypeOK
<1>4. f \in Frame /\ f.mod = Top.mod /\ f.stage = "pre" /\ f.idx = Top.idx + 1
  <2>1. f = [mod |-> Top.mod, stage |-> "pre", idx |-> Top.idx + 1, cand |-> Top.cand]
    BY <1>1, <1>3 DEF AfterPre, Frame
  <2> QED
    BY <1>2, <2>1, TopTypes DEF Frame
<1>5. Replaces(f)
  BY <1>2, <1>4, ReplaceStep
<1>6. ASSUME StackProgresses PROVE Progress(f)
  <2>1. Progress(Top)
    BY <1>2, <1>6, TopTypes DEF StackProgresses
  <2>2. \A m \in Seq2Set(Found) : Handled(m)
    <3>1. \A c \in DOMAIN Found : c < Top.cand
      BY <1>2, <1>3
    <3> QED
      BY <1>2, <2>1, <3>1 DEF Progress, Seq2Set, Found, PreModule
  <2>3. \A j \in DOMAIN tree.pre[Top.mod] : j < Top.idx + 1 =>
          \A m \in Seq2Set(tree.lookup[tree.alias[tree.pre[Top.mod][j]]]) : Handled(m)
    <3>1. \A j \in DOMAIN tree.pre[Top.mod] : j < Top.idx + 1 => j < Top.idx \/ j = Top.idx
      BY <1>3
    <3> QED
      BY <1>2, <2>1, <2>2, <3>1 DEF Progress, Found, PreModule
  <2> QED
    BY <1>2, <1>4, <2>1, <2>3 DEF Progress
<1>7. StackProgresses => Progress(f)'
  BY <1>2, <1>6, ProgressStable
<1>8. CallStep(f)
  BY <1>4, <1>5, <1>7 DEF CallStep, FrameOK
<1> QED
  BY <1>4, <1>8

\* All soft dependencies are done: the call returns.
LEMMA ModuleDoneStep ==
  ASSUME TypeInv, ModuleDone
  PROVE  \E f \in Frame : CallStep(f)
<1>1. /\ stack # <<>> /\ Top.stage = "pre" /\ Top.idx > Len(tree.pre[Top.mod])
      /\ stack' = Below /\ visited' = visited
  BY DEF ModuleDone, Walking
<1>2. Top \in Frame /\ Top.idx \in Nat \ {0} /\ tree.pre[Top.mod] \in Seq(Modules)
  BY <1>1, TopTypes
<1>3. Pops
  BY <1>1, <1>2, PopStep
<1>4. ASSUME StackProgresses PROVE Needs(Top.mod) \ tree.pathless \subseteq visited
  <2>1. Progress(Top)
    BY <1>1, <1>4, TopTypes DEF StackProgresses
  <2>2. \A j \in DOMAIN tree.pre[Top.mod] :
          \A m \in Seq2Set(tree.lookup[tree.alias[tree.pre[Top.mod][j]]]) : Handled(m)
    <3>1. \A j \in DOMAIN tree.pre[Top.mod] : j < Top.idx
      BY <1>1, <1>2
    <3> QED
      BY <1>1, <2>1, <3>1 DEF Progress
  <2>3. \A m \in PreFound(Top.mod) : Handled(m)
    <3> SUFFICES ASSUME NEW m \in PreFound(Top.mod) PROVE Handled(m)
      OBVIOUS
    <3>1. PICK p \in Seq2Set(tree.pre[Top.mod]) : m \in Seq2Set(tree.lookup[tree.alias[p]])
      BY DEF PreFound
    <3>2. PICK j \in DOMAIN tree.pre[Top.mod] : p = tree.pre[Top.mod][j]
      BY DEF Seq2Set
    <3> QED
      BY <2>2, <3>1, <3>2
  <2>4. \A m \in Seq2Set(tree.deps[Top.mod]) : Handled(m)
    BY <1>1, <2>1 DEF Progress, Seq2Set
  <2> QED
    BY <2>3, <2>4 DEF Needs, Handled
<1>5. CallStep(Top)
  BY <1>1, <1>3, <1>4 DEF CallStep, FrameOK
<1> QED
  BY <1>2, <1>5

----------------------------------------------------------------------------
(***************************************************************************)
(* The steps of the search, and what they preserve.                        *)
(***************************************************************************)
WalkStep == WalkDependency \/ DependenciesDone \/ LookupPre \/ WalkPre \/ PreDone \/ ModuleDone

\* The state outside the recursion.
outside == <<tree, phase, next, resolution, walkErr, installed>>

\* Every step of a call is a CallStep.
LEMMA WalkSteps ==
  ASSUME TypeInv, WalkStep
  PROVE  /\ phase = "walk" /\ stack # <<>> /\ UNCHANGED outside
         /\ \E f \in Frame : CallStep(f)
<1>1. \E f \in Frame : CallStep(f)
  BY WalkDependencyStep, DependenciesDoneStep, LookupPreStep, WalkPreStep, PreDoneStep,
     ModuleDoneStep DEF WalkStep
<1>2. phase = "walk" /\ stack # <<>> /\ UNCHANGED outside
  BY DEF WalkStep, WalkDependency, DependenciesDone, LookupPre, WalkPre, PreDone, ModuleDone,
         AtPre, Walking, outside, resolution
<1> QED
  BY <1>1, <1>2

\* The call for an element of `top` is made for one the filter lets through.
LEMMA WalkTopStep ==
  ASSUME TypeInv, WalkTop
  PROVE  /\ phase = "walk" /\ stack = <<>> /\ next \in DOMAIN top /\ next' = next + 1
         /\ UNCHANGED <<tree, phase, resolution, walkErr, installed>>
         /\ \/ /\ Handled(top[next]) \/ ~FilterPasses(top[next])
               /\ UNCHANGED <<stack, visited>>
            \/ /\ top[next] \in Modules \ tree.pathless /\ FilterPasses(top[next])
               /\ Pushes(NewFrame(top[next]), top[next])
<1>1. /\ phase = "walk" /\ stack = <<>> /\ next <= Len(top) /\ next' = next + 1
      /\ UNCHANGED <<tree, phase, resolution, walkErr, installed>>
  BY DEF WalkTop, resolution
<1>2. next \in DOMAIN top /\ top[next] \in Modules
  BY <1>1 DEF TypeInv, TypeOK
<1>3. CASE Skipped(top[next], TRUE)
  BY <1>1, <1>2, <1>3 DEF WalkTop, Call, Skipped, Handled
<1>4. CASE ~Skipped(top[next], TRUE)
  <2>1. stack' = Append(stack, NewFrame(top[next])) /\ visited' = visited \cup {top[next]}
    BY <1>4 DEF WalkTop, Call
  <2>2. NewFrame(top[next]) \in Frame
    BY <1>2 DEF NewFrame, Frame
  <2>3. stack = <<>> /\ stack \in Seq(Frame) /\ Len(stack) = 0
    BY <1>1 DEF TypeInv, TypeOK
  <2>4. /\ stack' \in Seq(Frame) /\ Len(stack') = Len(stack) + 1
        /\ stack'[Len(stack) + 1] = NewFrame(top[next])
    BY <2>1, <2>2, <2>3
  <2> QED
    BY <1>1, <1>2, <1>4, <2>1, <2>3, <2>4 DEF Skipped, Pushes
<1> QED
  BY <1>1, <1>2, <1>3, <1>4

\* Which modules the frames of the stack are for, after a step of a call.
LEMMA CallFrames ==
  ASSUME TypeInv, stack # <<>>, NEW f \in Frame, CallStep(f)
  PROVE  /\ stack' \in Seq(Frame) /\ visited \subseteq visited' /\ visited' \subseteq Modules
         /\ \A k \in 1..Len(stack) : k <= Len(stack') => stack'[k].mod = stack[k].mod
         /\ \A k \in 1..Len(stack') :
              \/ k < Len(stack) /\ stack'[k] = stack[k]
              \/ k = Len(stack) /\ stack'[k] = f
              \/ \E m \in Modules : k = Len(stack) + 1 /\ Pushes(f, m) /\ stack'[k] = NewFrame(m)
<1>1. /\ Len(stack) \in Nat \ {0} /\ Top = stack[Len(stack)] /\ f.mod = Top.mod
      /\ visited \subseteq Modules
  BY TopTypes DEF CallStep, TypeInv, TypeOK
<1>2. CASE Pops
  BY <1>1, <1>2 DEF Pops
<1>3. CASE Replaces(f)
  BY <1>1, <1>3 DEF Replaces
<1>4. CASE \E m \in Modules : Pushes(f, m)
  <2>1. PICK m \in Modules : Pushes(f, m)
    BY <1>4
  <2> QED
    BY <1>1, <2>1 DEF Pushes
<1> QED
  BY <1>2, <1>3, <1>4 DEF CallStep

\* The types are kept.
LEMMA StepTypeInv == TypeInv /\ [Next]_vars => TypeInv'
<1> SUFFICES ASSUME TypeInv, [Next]_vars PROVE TypeInv'
  OBVIOUS
<1> USE DEF resolution, search
<1>1. CASE WalkStep
  <2>1. PICK f \in Frame : CallStep(f) /\ stack # <<>> /\ UNCHANGED outside
    BY <1>1, WalkSteps
  <2>2. \A k \in 1..Len(stack') : FrameOK(stack'[k])
    <3>1. FrameOK(f) /\ \A k \in 1..Len(stack) : FrameOK(stack[k])
      BY <2>1 DEF CallStep, FrameOK, TypeInv, TypeOK
    <3>2. \A m : FrameOK(NewFrame(m))
      BY DEF FrameOK, NewFrame
    <3>3. Len(stack) \in Nat
      BY DEF TypeInv, TypeOK
    <3> QED
      BY <2>1, <3>1, <3>2, <3>3, CallFrames
  <2>3. stack' \in Seq(Frame) /\ visited \subseteq visited' /\ visited' \subseteq Modules
    BY <2>1, CallFrames
  <2> QED
    BY <2>1, <2>2, <2>3 DEF outside, FrameOK, TypeInv, TypeOK
<1>2. CASE WalkTop
  <2>1. CASE UNCHANGED <<stack, visited>>
    BY <1>2, <2>1, WalkTopStep DEF TypeInv, TypeOK
  <2>2. ASSUME NEW m \in Modules, m = top[next], Pushes(NewFrame(m), m) PROVE TypeInv'
    <3>1. stack' \in Seq(Frame) /\ Len(stack') = 1 /\ stack'[1] = NewFrame(m)
      BY <1>2, <2>2, WalkTopStep DEF Pushes
    <3>2. \A k \in 1..Len(stack') : FrameOK(stack'[k])
      BY <3>1 DEF FrameOK, NewFrame
    <3> QED
      BY <1>2, <2>2, <3>1, <3>2, WalkTopStep DEF FrameOK, Pushes, TypeInv, TypeOK
  <2> QED
    BY <1>2, <2>1, <2>2, WalkTopStep
<1>3. CASE PreFails
  BY <1>3 DEF PreFails, TypeInv, TypeOK
<1>4. CASE Resolved
  <2>1. next \in DOMAIN tree.requests /\ ~NoLookup(tree.requests[next])
    BY <1>4 DEF Resolved, Resolving, TypeInv, TypeOK, Tree
  <2>2. tree.lookup[LookedUp(tree.requests[next])] \in Seq(Modules)
    BY <2>1, RequestTypes DEF TypeInv
  <2>3. top' \in Seq(Modules)
    BY <1>4, <2>2 DEF Resolved, TypeInv, TypeOK
  <2> QED
    BY <1>4, <2>3 DEF Resolved, TypeInv, TypeOK
<1>5. CASE CreateContext \/ PanicOnPath \/ AllResolved
  BY <1>5 DEF CreateContext, PanicOnPath, AllResolved, TypeInv, TypeOK
<1>6. CASE AllWalked \/ AllInstalled
  BY <1>6 DEF AllWalked, SearchResult, AllInstalled, TypeInv, TypeOK
<1>7. ASSUME NEW m \in visited, InstallFile(m) PROVE TypeInv'
  BY <1>7 DEF InstallFile, TypeInv, TypeOK
<1>8. CASE UNCHANGED vars
  BY <1>8 DEF vars, TypeInv, TypeOK
<1>9. CASE Unresolved
  BY <1>9 DEF Unresolved, TypeInv, TypeOK
<1>10. CASE SkipLost
  <2>1. next' = next + 1 /\ UNCHANGED <<tree, phase, failed, top, visited, stack, walkErr, installed>>
    BY <1>10 DEF SkipLost
  <2> QED
    BY <2>1 DEF TypeInv, TypeOK
<1> QED
  BY <1>1, <1>2, <1>3, <1>4, <1>5, <1>6, <1>7, <1>8, <1>9, <1>10
     DEF Next, WalkStep

\* No module has two active calls, because a call is made for a module that
\* is not yet in `visited` and puts it there.
StackInv == NoModuleTwiceOnStack /\ \A k \in 1..Len(stack) : stack[k].mod \in visited

\* Steps that do not touch the recursion.
LEMMA OtherSteps ==
  ASSUME [Next]_vars, ~WalkStep, ~WalkTop, ~PreFails
  PROVE  UNCHANGED <<tree, search>>
BY DEF Next, WalkStep, vars, search, CreateContext, PanicOnPath, SkipLost, Unresolved, Resolved,
       AllResolved, AllWalked, InstallFile, AllInstalled

\* A step of a call keeps StackInv.
LEMMA CallStackInv ==
  ASSUME TypeInv, stack # <<>>, StackInv, NEW f \in Frame, CallStep(f)
  PROVE  StackInv'
<1>1. /\ Len(stack) \in Nat \ {0} /\ Top = stack[Len(stack)] /\ f.mod = Top.mod
      /\ Len(stack') \in Nat
  BY TopTypes, CallFrames DEF CallStep
<1>2. \A k \in 1..Len(stack') :
        \/ k <= Len(stack) /\ stack'[k].mod = stack[k].mod
        \/ \E m \in Modules : k = Len(stack) + 1 /\ Pushes(f, m) /\ stack'[k].mod = m
  <2> SUFFICES ASSUME NEW k \in 1..Len(stack')
               PROVE  \/ k <= Len(stack) /\ stack'[k].mod = stack[k].mod
                      \/ \E m \in Modules : k = Len(stack) + 1 /\ Pushes(f, m) /\ stack'[k].mod = m
    OBVIOUS
  <2>1. CASE \/ k < Len(stack) /\ stack'[k] = stack[k]
             \/ k = Len(stack) /\ stack'[k] = f
    BY <1>1, <2>1
  <2>2. ASSUME NEW m \in Modules, k = Len(stack) + 1, Pushes(f, m), stack'[k] = NewFrame(m)
        PROVE  k = Len(stack) + 1 /\ Pushes(f, m) /\ stack'[k].mod = m
    BY <2>2 DEF NewFrame
  <2> QED
    BY <2>1, <2>2, CallFrames
<1>3. \A k \in 1..Len(stack') : stack'[k].mod \in visited'
  BY <1>1, <1>2, CallFrames DEF StackInv, Pushes
<1>4. ASSUME NEW j \in 1..Len(stack'), NEW k \in 1..Len(stack'), j < k
      PROVE  stack'[j].mod # stack'[k].mod
  <2>1. j <= Len(stack) /\ stack'[j].mod = stack[j].mod
    BY <1>1, <1>2, <1>4, CallFrames DEF Pushes
  <2>2. CASE k <= Len(stack) /\ stack'[k].mod = stack[k].mod
    BY <1>4, <2>1, <2>2 DEF StackInv, NoModuleTwiceOnStack
  <2>3. CASE \E m \in Modules : k = Len(stack) + 1 /\ Pushes(f, m) /\ stack'[k].mod = m
    BY <2>1, <2>3 DEF StackInv, Pushes
  <2> QED
    BY <1>2, <2>2, <2>3
<1>5. \A j, k \in 1..Len(stack') : j # k => stack'[j].mod # stack'[k].mod
  BY <1>4, <1>1
<1> QED
  BY <1>3, <1>5 DEF StackInv, NoModuleTwiceOnStack

\* Every step preserves what is said of the stack.
LEMMA StepStackInv == TypeInv /\ StackInv /\ [Next]_vars => StackInv'
<1> SUFFICES ASSUME TypeInv, StackInv, [Next]_vars PROVE StackInv'
  OBVIOUS
<1>1. CASE WalkStep
  BY <1>1, WalkSteps, CallStackInv
<1>2. CASE WalkTop
  <2>1. CASE UNCHANGED <<stack, visited>>
    BY <2>1 DEF StackInv, NoModuleTwiceOnStack
  <2>2. ASSUME NEW m \in Modules, Pushes(NewFrame(m), m) PROVE StackInv'
    <3>1. Len(stack') = 1 /\ stack'[1].mod = m /\ m \in visited'
      BY <1>2, <2>2, WalkTopStep DEF Pushes, NewFrame
    <3> QED
      BY <3>1 DEF StackInv, NoModuleTwiceOnStack
  <2> QED
    BY <1>2, <2>1, <2>2, WalkTopStep
<1>3. CASE PreFails
  BY <1>3 DEF PreFails, StackInv, NoModuleTwiceOnStack
<1>4. CASE UNCHANGED <<tree, search>>
  BY <1>4 DEF search, StackInv, NoModuleTwiceOnStack
<1> QED
  BY <1>1, <1>2, <1>3, <1>4, OtherSteps

\* What the calls on the stack are past is handled.
LEMMA StepStackProgresses == TypeInv /\ StackProgresses /\ [Next]_vars => StackProgresses'
<1> SUFFICES ASSUME TypeInv, StackProgresses, [Next]_vars PROVE StackProgresses'
  OBVIOUS
<1>1. ASSUME NEW m \in Modules, tree' = tree, m \in visited'
      PROVE  NewFrame(m).mod \in visited' /\ Progress(NewFrame(m))'
  <2>1. PICK g : g = NewFrame(m)
    OBVIOUS
  <2>2. tree.deps[m] \in Seq(Modules)
    BY DEF TypeInv, Tree
  <2>3. \A j \in DOMAIN tree.deps[m] : ~(j < 1)
    BY <2>2
  <2> QED
    BY <1>1, <2>1, <2>3 DEF NewFrame, Progress
<1>0. ASSUME \A k \in 1..Len(stack') : \A g : g = stack'[k] => g.mod \in visited' /\ Progress(g)'
      PROVE  StackProgresses'
  <2> SUFFICES ASSUME NEW k \in 1..Len(stack') PROVE stack'[k].mod \in visited' /\ Progress(stack[k])'
    BY DEF StackProgresses
  <2>1. PICK g : g = stack'[k]
    OBVIOUS
  <2>2. g.mod \in visited' /\ Progress(g)'
    BY <1>0, <2>1
  <2> QED
    BY <2>1, <2>2 DEF Progress, Handled
<1>2. CASE WalkStep
  <2>1. PICK f \in Frame : CallStep(f) /\ stack # <<>> /\ UNCHANGED outside
    BY <1>2, WalkSteps
  <2>2. Len(stack) \in Nat \ {0} /\ Top = stack[Len(stack)] /\ f.mod = Top.mod
    BY <2>1, TopTypes DEF CallStep
  <2> SUFFICES ASSUME NEW k \in 1..Len(stack'), NEW g, g = stack'[k]
               PROVE  g.mod \in visited' /\ Progress(g)'
    BY <1>0
  <2>3. tree' = tree /\ visited \subseteq visited'
    BY <2>1, CallFrames DEF outside
  <2>4. CASE k < Len(stack) /\ g = stack[k]
    <3>1. g.mod \in visited /\ Progress(g)
      BY <2>2, <2>4 DEF StackProgresses
    <3>2. Progress(g)'
      BY <2>3, <3>1, ProgressStable
    <3> QED
      BY <2>3, <3>1, <3>2
  <2>5. CASE k = Len(stack) /\ g = f
    <3>1. ~Pops
      BY <2>2, <2>5 DEF Pops
    <3>2. Progress(f)'
      BY <2>1, <3>1 DEF CallStep
    <3>3. f.mod \in visited
      BY <2>2 DEF StackProgresses
    <3> QED
      BY <2>3, <2>5, <3>2, <3>3
  <2>6. ASSUME NEW m \in Modules, Pushes(f, m), g = NewFrame(m)
        PROVE  g.mod \in visited' /\ Progress(g)'
    <3>1. m \in visited'
      BY <2>6 DEF Pushes
    <3>2. NewFrame(m).mod \in visited' /\ Progress(NewFrame(m))'
      BY <1>1, <2>3, <3>1
    <3> QED
      BY <2>6, <3>2
  <2> QED
    BY <2>1, <2>4, <2>5, <2>6, CallFrames
<1>3. CASE WalkTop
  <2>1. CASE UNCHANGED <<stack, visited>>
    <3>1. tree' = tree
      BY <1>3, WalkTopStep
    <3>2. ASSUME NEW k \in 1..Len(stack'), NEW g, g = stack'[k]
          PROVE  g.mod \in visited' /\ Progress(g)'
      BY <2>1, <3>1, <3>2, ProgressStable DEF StackProgresses
    <3> QED
      BY <1>0, <3>2
  <2>2. ASSUME NEW m \in Modules, Pushes(NewFrame(m), m) PROVE StackProgresses'
    <3>1. Len(stack') = 1 /\ stack'[1] = NewFrame(m) /\ m \in visited' /\ tree' = tree
      BY <1>3, <2>2, WalkTopStep DEF Pushes
    <3>2. ASSUME NEW k \in 1..Len(stack'), NEW g, g = stack'[k]
          PROVE  g.mod \in visited' /\ Progress(g)'
      <4>1. g = NewFrame(m)
        BY <3>1, <3>2
      <4>2. NewFrame(m).mod \in visited' /\ Progress(NewFrame(m))'
        BY <1>1, <3>1
      <4>3. NewFrame(m)' = NewFrame(m)
        BY DEF NewFrame
      <4> QED
        BY <4>1, <4>2, <4>3 DEF Progress, Handled
    <3> QED
      BY <1>0, <3>2
  <2> QED
    BY <1>3, <2>1, <2>2, WalkTopStep
<1>4. CASE PreFails
  BY <1>4 DEF PreFails, StackProgresses
<1>5. CASE UNCHANGED <<tree, search>>
  <2>1. tree' = tree /\ stack' = stack /\ visited' = visited
    BY <1>5 DEF search
  <2>2. ASSUME NEW k \in 1..Len(stack'), NEW g, g = stack'[k]
        PROVE  g.mod \in visited' /\ Progress(g)'
    BY <2>1, <2>2, ProgressStable DEF StackProgresses
  <2> QED
    BY <1>0, <2>2
<1> QED
  BY <1>2, <1>3, <1>4, <1>5, OtherSteps

\* A module of which no call is active has in `visited` all it needs, if there
\* was no error.
LEMMA StepVisitedComplete ==
  TypeInv /\ StackProgresses /\ VisitedComplete /\ [Next]_vars => VisitedComplete'
<1> SUFFICES ASSUME TypeInv, StackProgresses, VisitedComplete, [Next]_vars, ~walkErr',
                    NEW m \in visited', ~OnStack(m)'
             PROVE  (Needs(m) \ tree.pathless \subseteq visited)'
  BY DEF VisitedComplete
<1>1. CASE WalkStep
  <2>1. PICK f \in Frame : CallStep(f) /\ stack # <<>> /\ UNCHANGED outside
    BY <1>1, WalkSteps
  <2>2. /\ Len(stack) \in Nat \ {0} /\ Top = stack[Len(stack)] /\ f.mod = Top.mod
        /\ tree' = tree /\ walkErr' = walkErr /\ Needs(m)' = Needs(m)
    BY <2>1, TopTypes DEF CallStep, outside, Needs, PreFound
  <2>3. m \in visited
    <3>1. ASSUME Pushes(f, m) PROVE FALSE
      BY <2>2, <3>1 DEF Pushes, OnStack, NewFrame
    <3> QED
      BY <2>1, <3>1 DEF CallStep, Pops, Replaces, Pushes, OnStack, NewFrame
  <2>4. visited \subseteq visited'
    BY <2>1, CallFrames
  <2>5. CASE OnStack(m)
    <3>1. PICK k \in 1..Len(stack) : stack[k].mod = m
      BY <2>5 DEF OnStack
    <3>2. ~(k \in 1..Len(stack'))
      BY <2>1, <3>1, CallFrames DEF OnStack
    <3>3. Pops /\ k = Len(stack)
      <4>1. ~Replaces(f) /\ \A x \in Modules : ~Pushes(f, x)
        BY <2>2, <3>2 DEF Replaces, Pushes
      <4> QED
        BY <2>1, <2>2, <3>2, <4>1 DEF CallStep, Pops
    <3>4. Needs(Top.mod) \ tree.pathless \subseteq visited
      <4>1. ~Replaces(f) /\ \A x \in Modules : ~Pushes(f, x)
        BY <2>2, <3>3 DEF Pops, Replaces, Pushes
      <4> QED
        BY <2>1, <3>3, <4>1 DEF CallStep
    <3> QED
      BY <2>2, <2>4, <3>1, <3>3, <3>4
  <2>6. CASE ~OnStack(m)
    BY <2>2, <2>3, <2>4, <2>6 DEF VisitedComplete
  <2> QED
    BY <2>5, <2>6
<1>2. CASE WalkTop
  <2>1. CASE UNCHANGED <<stack, visited>>
    BY <1>2, <2>1, WalkTopStep DEF VisitedComplete, OnStack, Needs, PreFound
  <2>2. ASSUME NEW x \in Modules, Pushes(NewFrame(x), x)
        PROVE  (Needs(m) \ tree.pathless \subseteq visited)'
    <3>1. /\ stack = <<>> /\ Len(stack') = 1 /\ stack'[1].mod = x /\ visited' = visited \cup {x}
          /\ walkErr' = walkErr /\ tree' = tree
      BY <1>2, <2>2, WalkTopStep DEF Pushes, NewFrame
    <3>2. m # x
      BY <3>1 DEF OnStack
    <3>3. m \in visited /\ ~OnStack(m)
      BY <3>1, <3>2 DEF OnStack
    <3> QED
      BY <3>1, <3>3 DEF VisitedComplete, Needs, PreFound
  <2> QED
    BY <1>2, <2>1, <2>2, WalkTopStep
<1>3. CASE PreFails
  BY <1>3 DEF PreFails
<1>4. CASE UNCHANGED <<tree, search>>
  BY <1>4 DEF search, VisitedComplete, OnStack, Needs, PreFound
<1> QED
  BY <1>1, <1>2, <1>3, <1>4, OtherSteps

\* The elements of `top` that are behind are in `visited`, or need not be.
LEMMA StepRootsWalked == TypeInv /\ RootsWalked /\ [Next]_vars => RootsWalked'
<1> SUFFICES ASSUME TypeInv, RootsWalked, [Next]_vars PROVE RootsWalked'
  OBVIOUS
<1> USE DEF resolution, search
<1>1. CASE WalkStep
  <2>1. PICK f \in Frame : CallStep(f) /\ stack # <<>> /\ UNCHANGED outside
    BY <1>1, WalkSteps
  <2>2. visited \subseteq visited'
    BY <2>1, CallFrames
  <2> QED
    BY <2>1, <2>2 DEF outside, RootsWalked, Handled, FilterPasses
<1>2. CASE WalkTop
  <2>m. PICK m : m = top[next]
    OBVIOUS
  <2>1. /\ phase = "walk" /\ phase' = "walk" /\ next \in DOMAIN top /\ next' = next + 1
        /\ tree' = tree /\ top' = top /\ visited \subseteq visited'
        /\ Handled(m)' \/ ~FilterPasses(m)
    BY <1>2, <2>m, WalkTopStep DEF Handled, Pushes
  <2>2. top \in Seq(Modules)
    BY DEF TypeInv, TypeOK
  <2> SUFFICES ASSUME NEW k \in DOMAIN top, k < next + 1
               PROVE  (Handled(top[k]) \/ ~FilterPasses(top[k]))'
    BY <2>1 DEF RootsWalked
  <2>3. CASE k = next
    BY <2>m, <2>1, <2>3 DEF Handled, FilterPasses
  <2>4. CASE k # next
    <3>1. k < next
      BY <2>1, <2>2, <2>4
    <3> QED
      BY <2>1, <3>1 DEF RootsWalked, Handled, FilterPasses
  <2> QED
    BY <2>3, <2>4
<1>3. CASE PreFails
  BY <1>3 DEF PreFails, RootsWalked, Handled, FilterPasses
<1>4. CASE AllResolved
  <2>1. top' = top /\ next' = 1 /\ phase' \in {"walk", "error"}
    BY <1>4 DEF AllResolved
  <2>2. \A k \in DOMAIN top : ~(k < 1)
    BY DEF TypeInv, TypeOK
  <2> QED
    BY <2>1, <2>2 DEF RootsWalked
<1>5. CASE AllWalked
  <2>1. /\ phase = "walk" /\ UNCHANGED <<tree, top, visited>>
        /\ \A k \in DOMAIN top : k < next
    BY <1>5 DEF AllWalked, TypeInv, TypeOK
  <2> QED
    BY <2>1 DEF RootsWalked, Handled, FilterPasses
<1>6. CASE CreateContext \/ PanicOnPath \/ SkipLost \/ Unresolved \/ Resolved
  BY <1>6 DEF CreateContext, PanicOnPath, SkipLost, Unresolved, Resolved, Resolving, RootsWalked
<1>7. CASE AllInstalled \/ \E m \in visited : InstallFile(m)
  BY <1>7 DEF AllInstalled, InstallFile, RootsWalked, Handled, FilterPasses
<1>8. CASE UNCHANGED vars
  BY <1>8 DEF vars, RootsWalked, Handled, FilterPasses
<1> QED
  BY <1>1, <1>2, <1>3, <1>4, <1>5, <1>6, <1>7, <1>8 DEF Next, WalkStep

\* Every step preserves what is said of the phases.
LEMMA StepPhasesInOrder == TypeInv /\ PhasesInOrder /\ [Next]_vars => PhasesInOrder'
<1> SUFFICES ASSUME TypeInv, PhasesInOrder, [Next]_vars PROVE PhasesInOrder'
  OBVIOUS
<1> USE DEF resolution, search, PhasesInOrder
<1>1. CASE WalkStep
  BY <1>1, WalkSteps DEF outside
<1>2. CASE WalkTop
  BY <1>2, WalkTopStep
<1>3. CASE PreFails
  BY <1>3 DEF PreFails, AtPre, Walking
<1>4. CASE CreateContext
  BY <1>4 DEF CreateContext
<1>5. CASE PanicOnPath \/ SkipLost \/ Unresolved \/ Resolved \/ AllResolved
  BY <1>5 DEF PanicOnPath, SkipLost, Unresolved, Resolved, Resolving, AllResolved
<1>6. CASE AllWalked
  BY <1>6 DEF AllWalked, SearchResult
<1>7. CASE AllInstalled \/ \E m \in visited : InstallFile(m)
  BY <1>7 DEF AllInstalled, InstallFile
<1>8. CASE UNCHANGED vars
  BY <1>8 DEF vars
<1> QED
  BY <1>1, <1>2, <1>3, <1>4, <1>5, <1>6, <1>7, <1>8 DEF Next, WalkStep

\* The filter of the code lets through what is accepted.
LEMMA FilterPassesAccepted ==
  ASSUME TypeInv, NEW m \in Modules
  PROVE  FilterPasses(m) <=> Accepted(m)
<1>1. Len(tree.info[m].symbols) \in Nat
  BY DEF TypeInv, Tree, Info
<1> QED
  BY <1>1, FilterAccepts DEF FilterPasses, Accepted

\* Copying starts from a complete set, which nothing changes any more.
LEMMA StepOnlyCompleteSetsAreCopied ==
  TypeInv /\ SearchInv /\ [Next]_vars => OnlyCompleteSetsAreCopied'
<1> SUFFICES ASSUME TypeInv, SearchInv, [Next]_vars PROVE OnlyCompleteSetsAreCopied'
  OBVIOUS
<1> USE DEF resolution, search
<1>1. CASE AllWalked
  <2>1. /\ phase = "walk" /\ stack = <<>> /\ next > Len(top) /\ installed = {}
        /\ UNCHANGED <<tree, top, visited, installed>> /\ phase' \in {"copy", "error"}
        /\ phase' = "copy" => ~walkErr
    BY <1>1 DEF AllWalked, SearchResult, SearchInv, PhasesInOrder, TypeInv, TypeOK
  <2>2. ASSUME NEW m \in Roots PROVE m \in visited
    <3>1. PICK k \in DOMAIN top : m = top[k]
      BY DEF Roots, Seq2Set
    <3>2. k < next /\ m \in Modules
      BY <2>1, <3>1 DEF TypeInv, TypeOK
    <3>3. Handled(m) \/ ~FilterPasses(m)
      BY <2>1, <3>1, <3>2 DEF SearchInv, RootsWalked
    <3> QED
      BY <3>2, <3>3, FilterPassesAccepted DEF Roots, Handled
  <2>3. phase' = "copy" => Closed(visited)
    BY <2>1 DEF SearchInv, VisitedComplete, OnStack, Closed
  <2>4. Roots' = Roots /\ (Closed(visited)' <=> Closed(visited))
    BY <2>1 DEF Roots, Accepted, Closed, Needs, PreFound
  <2> QED
    BY <2>1, <2>2, <2>3, <2>4 DEF OnlyCompleteSetsAreCopied
<1>2. CASE phase \in {"start", "resolve", "walk"} /\ ~AllWalked
  <2>1. installed = {}
    BY <1>2 DEF SearchInv, PhasesInOrder
  <2>2. installed' = {} /\ phase' \notin {"copy", "ok"}
    BY <1>2, <2>1, WalkSteps, WalkTopStep DEF Next, CreateContext, PanicOnPath, SkipLost, Unresolved, Resolved,
       AllResolved, PreFails, AllInstalled, InstallFile, vars, WalkStep, outside
  <2> QED
    BY <2>2 DEF OnlyCompleteSetsAreCopied
<1>3. CASE phase \notin {"start", "resolve", "walk"}
  <2>1. /\ UNCHANGED <<tree, top, visited>>
        /\ phase' \in {"copy", "ok"} => phase \in {"copy", "ok"}
        /\ installed' # {} => installed # {} \/ phase = "copy"
    BY <1>3, WalkSteps, WalkTopStep DEF Next, CreateContext, PanicOnPath, SkipLost, Unresolved, Resolved,
       Resolving, AllResolved, PreFails, AtPre, Walking, AllWalked, AllInstalled, InstallFile,
       vars, WalkStep
  <2>2. Roots' = Roots /\ (Closed(visited)' <=> Closed(visited))
    BY <2>1 DEF Roots, Accepted, Closed, Needs, PreFound
  <2> QED
    BY <2>1, <2>2 DEF SearchInv, OnlyCompleteSetsAreCopied
<1> QED
  BY <1>1, <1>2, <1>3

\* What is in two lists one after the other.
LEMMA ConcatElements ==
  ASSUME NEW S, NEW a \in Seq(S), NEW b \in Seq(S)
  PROVE  Seq2Set(a \o b) = Seq2Set(a) \cup Seq2Set(b)
<1>1. /\ Len(a) \in Nat /\ Len(b) \in Nat /\ Len(a \o b) = Len(a) + Len(b) /\ a \o b \in Seq(S)
      /\ \A k \in 1..(Len(a) + Len(b)) : (a \o b)[k] = IF k <= Len(a) THEN a[k] ELSE b[k - Len(a)]
  BY ConcatProperties
<1>2. DOMAIN a = 1..Len(a) /\ DOMAIN b = 1..Len(b) /\ DOMAIN (a \o b) = 1..(Len(a) + Len(b))
  BY <1>1
<1>3. Seq2Set(a) \subseteq Seq2Set(a \o b)
  BY <1>1, <1>2 DEF Seq2Set
<1>4. ASSUME NEW j \in DOMAIN b PROVE b[j] \in Seq2Set(a \o b)
  <2>1. j + Len(a) \in DOMAIN (a \o b) /\ (a \o b)[j + Len(a)] = b[j]
    BY <1>1, <1>2
  <2> QED
    BY <2>1 DEF Seq2Set
<1>5. ASSUME NEW k \in DOMAIN (a \o b) PROVE (a \o b)[k] \in Seq2Set(a) \cup Seq2Set(b)
  BY <1>1, <1>2 DEF Seq2Set
<1> QED
  BY <1>3, <1>4, <1>5 DEF Seq2Set

\* The modules looked up for a request that is behind are in `top`.
LEMMA StepRequestsResolved == TypeInv /\ RequestsResolved /\ [Next]_vars => RequestsResolved'
<1> SUFFICES ASSUME TypeInv, RequestsResolved, [Next]_vars PROVE RequestsResolved'
  OBVIOUS
<1> USE DEF resolution, search
<1> DEFINE Behind(k) ==
       \/ Lost(tree.requests[k])
       \/ /\ ~NoLookup(tree.requests[k])
          /\ LookedUp(tree.requests[k]) \notin tree.lookupErr
          /\ Seq2Set(tree.lookup[LookedUp(tree.requests[k])]) \subseteq Seq2Set(top)
<1>1. tree' = tree
  BY WalkSteps, WalkTopStep DEF Next, WalkStep, CreateContext, PanicOnPath, SkipLost, Unresolved, Resolved,
     AllResolved, PreFails, AllWalked, AllInstalled, InstallFile, vars, outside
<1>2. Requested' = Requested
  BY <1>1 DEF Requested, Lost, NoLookup, LookedUp, Seq2Set
<1> DEFINE IsBehind(k) ==
       \/ Lost(tree.requests[k])
       \/ /\ ~NoLookup(tree.requests[k])
          /\ LookedUp(tree.requests[k]) \notin tree.lookupErr
          /\ Seq2Set(tree.lookup[LookedUp(tree.requests[k])]) \subseteq Seq2Set(top')
<1>0. ASSUME /\ Seq2Set(top') \subseteq Requested
             /\ phase' = "start" => next' = 1
             /\ phase' \in {"resolve", "walk", "copy", "ok"} /\ ~failed' =>
                  \A k \in DOMAIN tree.requests : (phase' = "resolve" => k < next') => IsBehind(k)
             /\ phase' \in {"walk", "copy", "ok"} => ~failed'
      PROVE  RequestsResolved'
  <2>1. \A k \in DOMAIN tree.requests : IsBehind(k) =>
          \/ Lost(tree'.requests[k])
          \/ /\ ~NoLookup(tree'.requests[k]) /\ LookedUp(tree'.requests[k]) \notin tree'.lookupErr
             /\ Seq2Set(tree'.lookup[LookedUp(tree'.requests[k])]) \subseteq Seq2Set(top')
    BY <1>1 DEF Lost, NoLookup, LookedUp
  <2>2. Seq2Set(top') \subseteq Requested'
    BY <1>0, <1>2
  <2> HIDE DEF IsBehind
  <2>3. Seq2Set(top)' = Seq2Set(top')
    BY DEF Seq2Set
  <2>4. phase' \in {"resolve", "walk", "copy", "ok"} /\ ~failed' =>
          \A k \in DOMAIN tree'.requests : (phase' = "resolve" => k < next') =>
            \/ Lost(tree'.requests[k])
            \/ /\ ~NoLookup(tree'.requests[k]) /\ LookedUp(tree'.requests[k]) \notin tree'.lookupErr
               /\ Seq2Set(tree'.lookup[LookedUp(tree'.requests[k])]) \subseteq Seq2Set(top')
    BY <1>0, <1>1, <2>1
  <2>5. \A r, m : Lost(r)' = Lost(r) /\ NoLookup(r)' = NoLookup(r)
                /\ LookedUp(r)' = LookedUp(r) /\ Seq2Set(m)' = Seq2Set(m)
    BY <1>1 DEF Lost, NoLookup, LookedUp, Seq2Set
  <2> QED
    BY <1>0, <2>2, <2>4, <2>5 DEF RequestsResolved
<1>3. CASE Resolved
  <2>1. PICK s : s = tree.lookup[LookedUp(tree.requests[next])]
    OBVIOUS
  <2>2. /\ phase = "resolve" /\ next \in DOMAIN tree.requests /\ ~NoLookup(tree.requests[next])
        /\ LookedUp(tree.requests[next]) \notin tree.lookupErr
        /\ top' = top \o s /\ next' = next + 1 /\ phase' = phase /\ failed' = failed
    BY <1>3, <2>1 DEF Resolved, Resolving, TypeInv, TypeOK, Tree
  <2>3. s \in Seq(Modules)
    BY <2>1, <2>2, RequestTypes DEF TypeInv
  <2>4. Seq2Set(top') = Seq2Set(top) \cup Seq2Set(s)
    BY <2>2, <2>3, ConcatElements DEF TypeInv, TypeOK
  <2>5. Seq2Set(s) \subseteq Requested
    BY <2>1, <2>2 DEF Requested, Seq2Set
  <2>6. ASSUME ~failed, NEW k \in DOMAIN tree.requests, k < next + 1 PROVE IsBehind(k)
    <3>1. CASE k = next
      <4>1. /\ ~NoLookup(tree.requests[k]) /\ LookedUp(tree.requests[k]) \notin tree.lookupErr
            /\ s = tree.lookup[LookedUp(tree.requests[k])] /\ Seq2Set(s) \subseteq Seq2Set(top')
        BY <2>1, <2>2, <2>4, <3>1
      <4> QED
        BY <4>1
    <3>2. CASE k # next
      <4>1. k < next
        BY <2>2, <2>6, <3>2 DEF TypeInv, TypeOK, Tree
      <4>2. Behind(k)
        BY <2>2, <2>6, <4>1 DEF RequestsResolved
      <4> QED
        BY <2>4, <4>2
    <3> QED
      BY <3>1, <3>2
  <2>7. Seq2Set(top') \subseteq Requested
    BY <2>4, <2>5 DEF RequestsResolved
  <2> HIDE DEF IsBehind
  <2> QED
    BY <1>0, <2>2, <2>6, <2>7
<1>4. CASE Unresolved
  BY <1>2, <1>4 DEF Unresolved, Resolving, RequestsResolved, Seq2Set
<1>5. CASE CreateContext
  <2>1. /\ phase' \in {"resolve", "error"} /\ next' = 1 /\ top' = top /\ failed' = failed
    BY <1>5 DEF CreateContext, RequestsResolved
  <2>2. \A k \in DOMAIN tree.requests : ~(k < 1)
    BY DEF TypeInv, Tree
  <2>3. Seq2Set(top') \subseteq Requested
    BY <2>1 DEF RequestsResolved
  <2> HIDE DEF IsBehind
  <2> QED
    BY <1>0, <2>1, <2>2, <2>3
<1>6. CASE AllResolved
  <2>1. /\ phase = "resolve" /\ phase' \in {"walk", "error"} /\ UNCHANGED <<top, failed>>
        /\ phase' = "walk" => ~failed
        /\ \A k \in DOMAIN tree.requests : k < next
    BY <1>6 DEF AllResolved, Incomplete, TypeInv, TypeOK, Tree
  <2>2. ASSUME ~failed, NEW k \in DOMAIN tree.requests PROVE Behind(k)'
    <3>1. Behind(k)
      BY <2>1, <2>2 DEF RequestsResolved
    <3>2. Seq2Set(top)' = Seq2Set(top)
      BY <2>1 DEF Seq2Set
    <3>3. PICK r : r = tree.requests[k]
      OBVIOUS
    <3>4. /\ (Lost(r)' <=> Lost(r)) /\ (NoLookup(r)' <=> NoLookup(r))
          /\ LookedUp(r)' = LookedUp(r)
          /\ Seq2Set(tree.lookup[LookedUp(r)])' = Seq2Set(tree.lookup[LookedUp(r)])
      BY <1>1 DEF Lost, NoLookup, LookedUp, Seq2Set
    <3> QED
      BY <1>1, <3>1, <3>2, <3>3, <3>4
  <2> QED
    BY <1>1, <1>2, <2>1, <2>2 DEF RequestsResolved, Seq2Set
<1>7. CASE PanicOnPath
  BY <1>2, <1>7 DEF PanicOnPath, RequestsResolved, Seq2Set
<1>9. CASE SkipLost
  <2>1. /\ phase = "resolve" /\ next \in DOMAIN tree.requests /\ Lost(tree.requests[next])
        /\ UNCHANGED <<phase, top, failed>> /\ next' = next + 1
    BY <1>9 DEF SkipLost, Resolving, TypeInv, TypeOK, Tree
  <2>2. ASSUME NEW k \in DOMAIN tree.requests, k < next + 1 PROVE k < next \/ k = next
    <3>1. k \in Nat
      BY DEF TypeInv, TypeOK, Tree
    <3>2. next \in Nat
      BY DEF TypeInv, TypeOK
    <3> QED
      BY <2>2, <3>1, <3>2
  <2>3. ASSUME ~failed, NEW k \in DOMAIN tree.requests, k < next + 1 PROVE IsBehind(k)
    <3>1. CASE k = next
      BY <2>1, <3>1
    <3>2. CASE k < next
      <4>1. Behind(k)
        BY <2>1, <2>3, <3>2 DEF RequestsResolved
      <4> QED
        BY <2>1, <4>1
    <3> QED
      BY <2>2, <2>3, <3>1, <3>2
  <2>4. Seq2Set(top') \subseteq Requested
    BY <2>1 DEF RequestsResolved
  <2> HIDE DEF IsBehind
  <2> QED
    BY <1>0, <2>1, <2>3, <2>4
<1>8. CASE ~CreateContext /\ ~PanicOnPath /\ ~SkipLost /\ ~Unresolved /\ ~Resolved /\ ~AllResolved
  <2>1. /\ UNCHANGED <<top, failed>>
        /\ \/ phase' = phase /\ (phase \in {"start", "resolve"} => next' = next)
           \/ phase \in {"walk", "copy"} /\ phase' \in {"copy", "ok", "error"}
    BY <1>8, WalkSteps, WalkTopStep DEF Next, WalkStep, PreFails, AllWalked, SearchResult,
       AllInstalled, InstallFile, vars, outside
  <2>2. \A k : Behind(k)' <=> Behind(k)
    BY <1>1, <2>1 DEF Lost, NoLookup, LookedUp, Seq2Set
  <2>3. Seq2Set(top)' = Seq2Set(top)
    BY <2>1 DEF Seq2Set
  <2>4. CASE phase' = phase /\ (phase \in {"start", "resolve"} => next' = next)
    BY <1>1, <1>2, <2>1, <2>2, <2>3, <2>4 DEF RequestsResolved
  <2>5. CASE phase \in {"walk", "copy"} /\ phase' \in {"copy", "ok", "error"}
    BY <1>1, <1>2, <2>1, <2>2, <2>3, <2>5 DEF RequestsResolved
  <2> QED
    BY <2>1, <2>4, <2>5
<1> QED
  BY <1>3, <1>4, <1>5, <1>6, <1>7, <1>8, <1>9

----------------------------------------------------------------------------
(***************************************************************************)
(* The theorems.                                                           *)
(***************************************************************************)
ModuleInv == TypeInv /\ StackInv /\ SearchInv /\ RequestsResolved

\* ModuleInv holds at the start, for every kernel tree and command line.
LEMMA StartModuleInv == Tree(tree) /\ Start => ModuleInv
<1> SUFFICES ASSUME Tree(tree), Start PROVE ModuleInv
  OBVIOUS
<1> USE DEF Start
<1>1. TypeInv
  <2>1. stack \in Seq(Frame) /\ top \in Seq(Modules) /\ \A k \in 1..Len(stack) : FALSE
    OBVIOUS
  <2>2. phase = "start" /\ next \in Nat \ {0} /\ visited = {} /\ installed = {}
    OBVIOUS
  <2>3. failed \in BOOLEAN /\ walkErr \in BOOLEAN
    BY Zenon
  <2> HIDE DEF Start
  <2> QED
    BY <2>1, <2>2, <2>3 DEF TypeInv, TypeOK
<1>2. StackInv /\ SearchInv
  BY DEF StackInv, NoModuleTwiceOnStack, SearchInv, StackProgresses, VisitedComplete, RootsWalked,
         PhasesInOrder, OnlyCompleteSetsAreCopied
<1>3. RequestsResolved
  BY DEF RequestsResolved, Seq2Set
<1> QED
  BY <1>1, <1>2, <1>3 DEF ModuleInv

\* Every step of install_modules() preserves it.
LEMMA StepModuleInv == ModuleInv /\ [Next]_vars => ModuleInv'
BY StepTypeInv, StepStackInv, StepStackProgresses, StepVisitedComplete, StepRootsWalked,
   StepPhasesInOrder, StepOnlyCompleteSetsAreCopied, StepRequestsResolved
   DEF ModuleInv, SearchInv

\* Every reachable state satisfies the invariant.
LEMMA ModuleInvariant == Spec => []ModuleInv
<1>1. Init => ModuleInv
  BY StartModuleInv, InstallModulesAssumption DEF Init
<1> QED
  BY <1>1, StepModuleInv, PTL DEF Spec

\* Spec => []TypeOK.
THEOREM ModuleTypes == Spec => []TypeOK
<1>1. ModuleInv => TypeOK
  BY DEF ModuleInv, TypeInv
<1> QED
  BY <1>1, ModuleInvariant, PTL

\* Spec => []NoModuleTwiceOnStack: the recursion of install_module() is never
\* deeper than there are modules, whatever cycles the dependencies form.
THEOREM RecursionIsBounded == Spec => []NoModuleTwiceOnStack
<1>1. ModuleInv => NoModuleTwiceOnStack
  BY DEF ModuleInv, StackInv
<1> QED
  BY <1>1, ModuleInvariant, PTL

\* Spec => []OnlyCompleteSetsAreCopied: whatever errors the search meets, copying
\* starts only when `visited` is closed and holds what was asked for.
THEOREM CopiedSetsAreComplete == Spec => []OnlyCompleteSetsAreCopied
<1>1. ModuleInv => OnlyCompleteSetsAreCopied
  BY DEF ModuleInv, SearchInv
<1> QED
  BY <1>1, ModuleInvariant, PTL

----------------------------------------------------------------------------
(***************************************************************************)
(* The refinement: calls are choices of ModuleSet, the end of the search   *)
(* is its commit, and an error a failure.                                  *)
(***************************************************************************)

\* A call adds to `visited` nothing but what the module needs.
LEMMA OnlyNeededAreVisited ==
  ASSUME TypeInv, StackProgresses, WalkStep
  PROVE  \/ visited' = visited
         \/ \E m \in Needs(Top.mod) \ tree.pathless : visited' = visited \cup {m}
<1>1. CASE WalkDependency
  <2>1. /\ stack # <<>> /\ Top.idx <= Len(tree.deps[Top.mod])
        /\ Call(tree.deps[Top.mod][Top.idx], FALSE, Replace([Top EXCEPT !.idx = @ + 1]))
    BY <1>1 DEF WalkDependency, Walking
  <2>2. tree.deps[Top.mod][Top.idx] \in Seq2Set(tree.deps[Top.mod])
    BY <2>1, TopTypes DEF Seq2Set
  <2> QED
    BY <2>1, <2>2 DEF Call, Skipped, Needs
<1>2. CASE WalkPre
  <2>1. /\ stack # <<>> /\ Top.stage = "lookup" /\ Top.cand <= Len(Found)
        /\ Call(Found[Top.cand], FALSE, Replace([Top EXCEPT !.cand = @ + 1]))
    BY <1>2 DEF WalkPre, Walking
  <2>2. Top.idx <= Len(tree.pre[Top.mod]) /\ Top.mod \notin tree.softErr
    <3>1. Len(stack) \in 1..Len(stack) /\ Top = stack[Len(stack)]
      BY <2>1, TopTypes
    <3>2. Progress(Top)
      BY <3>1 DEF StackProgresses
    <3> QED
      BY <2>1, <3>1, <3>2 DEF TypeInv, TypeOK, Progress
  <2>3. PreModule \in Seq2Set(tree.pre[Top.mod]) /\ Found[Top.cand] \in Seq2Set(Found)
    BY <2>1, <2>2, TopTypes DEF PreModule, Seq2Set
  <2>4. Found[Top.cand] \in PreFound(Top.mod)
    BY <2>2, <2>3 DEF PreFound, Found
  <2> QED
    BY <2>1, <2>4 DEF Call, Skipped, Needs
<1>3. CASE DependenciesDone \/ LookupPre \/ PreDone \/ ModuleDone
  BY <1>3 DEF DependenciesDone, LookupPre, PreDone, ModuleDone
<1> QED
  BY <1>1, <1>2, <1>3 DEF WalkStep

\* Every step is one of ModuleSet, or changes nothing there.
LEMMA StepModuleSet ==
  ModuleInv /\ [Next]_vars => [M!Next]_<<Asked, NeedsOf, SetState, visited, installed>>
<1> SUFFICES ASSUME ModuleInv, [Next]_vars
             PROVE  M!Next \/ UNCHANGED <<Asked, NeedsOf, SetState, visited, installed>>
  OBVIOUS
<1> USE DEF resolution, search
<1>1. tree' = tree
  BY WalkSteps, WalkTopStep DEF ModuleInv, Next, WalkStep, CreateContext, PanicOnPath, SkipLost, Unresolved,
     Resolved, AllResolved, PreFails, AllWalked, AllInstalled, InstallFile, vars, outside
<1>2. Asked' = Asked /\ NeedsOf' = NeedsOf
  BY <1>1 DEF Asked, NeedsOf, Requested, Accepted, Lost, NoLookup, LookedUp, Needs, PreFound, Seq2Set
<1>3. ASSUME NEW m \in Modules, phase = "walk", phase' = "walk", UNCHANGED installed,
             m \in Asked \cup UNION {NeedsOf[c] : c \in visited}, visited' = visited \cup {m}
      PROVE  M!Next
  <2>1. SetState = "choose" /\ SetState' = "choose"
    BY <1>3 DEF SetState
  <2>2. m \in Asked \cup UNION {NeedsOf[c] : c \in visited} /\ visited' = visited \cup {m}
    BY <1>3
  <2>3. M!Choose(m)
    BY <1>2, <1>3, <2>1, <2>2 DEF M!Choose
  <2>4. m \in DOMAIN NeedsOf
    BY DEF NeedsOf
  <2> QED
    BY <2>3, <2>4 DEF M!Next
<1>4. CASE WalkStep
  <2>1. phase = "walk" /\ stack # <<>> /\ UNCHANGED outside
    BY <1>4, WalkSteps DEF ModuleInv
  <2>2. Top.mod \in visited /\ visited \subseteq Modules /\ visited' \subseteq Modules
    BY <2>1, TopTypes, StepTypeInv DEF ModuleInv, StackInv, TypeInv, TypeOK
  <2>3. ASSUME NEW m \in Needs(Top.mod) \ tree.pathless, visited' = visited \cup {m}
        PROVE  M!Next
    <3>1. m \in Modules /\ m \in NeedsOf[Top.mod]
      BY <2>2, <2>3 DEF NeedsOf
    <3> QED
      BY <1>3, <2>1, <2>2, <2>3, <3>1 DEF outside
  <2> QED
    BY <1>2, <1>4, <2>1, <2>3, OnlyNeededAreVisited DEF ModuleInv, SearchInv, outside, SetState
<1>5. CASE WalkTop
  <2>1. /\ phase = "walk" /\ next \in DOMAIN top
        /\ UNCHANGED <<tree, phase, resolution, walkErr, installed>>
    BY <1>5, WalkTopStep DEF ModuleInv
  <2>2. ASSUME top[next] \in Modules \ tree.pathless, FilterPasses(top[next]),
               visited' = visited \cup {top[next]}
        PROVE  M!Next
    <3>1. Accepted(top[next]) /\ top[next] \in Requested
      BY <2>1, <2>2, FilterPassesAccepted DEF ModuleInv, RequestsResolved, Seq2Set
    <3> QED
      BY <1>3, <2>1, <2>2, <3>1 DEF Asked
  <2> QED
    BY <1>2, <1>5, <2>1, <2>2, WalkTopStep DEF ModuleInv, Pushes, SetState
<1>6. ASSUME phase \in {"start", "resolve", "walk", "copy"}, phase' \in {"error", "panic"},
             UNCHANGED <<visited, installed>>
      PROVE  M!Next
  <2>1. M!Fail
    BY <1>2, <1>6 DEF M!Fail, SetState
  <2> QED
    BY <2>1 DEF M!Next
<1>7. CASE \/ CreateContext \/ PanicOnPath \/ SkipLost \/ Unresolved \/ Resolved
           \/ AllResolved \/ PreFails
  <2>1. /\ UNCHANGED <<visited, installed>> /\ phase \in {"start", "resolve", "walk"}
        /\ phase' \in {"start", "resolve", "walk", "error", "panic"}
    BY <1>7 DEF CreateContext, PanicOnPath, SkipLost, Unresolved, Resolved, Resolving, AllResolved,
       PreFails, AtPre, Walking
  <2> QED
    BY <1>2, <1>6, <2>1 DEF SetState
<1>8. CASE AllWalked
  <2>1. phase = "walk" /\ phase' \in {"copy", "error"} /\ UNCHANGED <<visited, installed, top>>
    BY <1>8 DEF AllWalked, SearchResult
  <2>2. CASE phase' = "copy"
    <3>1. Roots \subseteq visited /\ Closed(visited)
      <4>1. OnlyCompleteSetsAreCopied'
        BY StepOnlyCompleteSetsAreCopied DEF ModuleInv
      <4>2. Roots' = Roots /\ (Closed(visited)' <=> Closed(visited))
        BY <1>1, <2>1 DEF Roots, Accepted, Closed, Needs, PreFound
      <4> QED
        BY <2>1, <2>2, <4>1, <4>2 DEF OnlyCompleteSetsAreCopied
    <3>2. Requested \subseteq Seq2Set(top)
      <4>1. \A r : ~NoLookup(r) => ~Lost(r)
        BY DEF NoLookup
      <4>2. \A k \in DOMAIN tree.requests : Lost(tree.requests[k])
              \/ Seq2Set(tree.lookup[LookedUp(tree.requests[k])]) \subseteq Seq2Set(top)
        BY <2>1 DEF ModuleInv, RequestsResolved
      <4>3. ASSUME NEW r \in Seq2Set(tree.requests), ~NoLookup(r)
            PROVE  Seq2Set(tree.lookup[LookedUp(r)]) \subseteq Seq2Set(top)
        BY <4>1, <4>2, <4>3 DEF Seq2Set
      <4> QED
        BY <4>3 DEF Requested
    <3>3. Asked \subseteq visited
      BY <3>1, <3>2 DEF Roots, Asked
    <3>4. \A c \in visited : NeedsOf[c] \subseteq visited
      BY <3>1 DEF NeedsOf, Closed, ModuleInv, TypeInv, TypeOK
    <3>5. M!Commit
      BY <1>2, <2>1, <2>2, <3>3, <3>4 DEF M!Commit, SetState
    <3> QED
      BY <3>5 DEF M!Next
  <2> QED
    BY <1>6, <2>1, <2>2
<1>9. ASSUME NEW m \in visited, InstallFile(m) PROVE M!Next
  <2>1. CASE m \in tree.cloneErr
    BY <1>6, <1>9, <2>1 DEF InstallFile
  <2>2. CASE m \notin tree.cloneErr
    <3>1. M!Copy(m)
      BY <1>2, <1>9, <2>2 DEF InstallFile, M!Copy, SetState
    <3> QED
      BY <3>1 DEF M!Next
  <2> QED
    BY <2>1, <2>2
<1>10. CASE AllInstalled
  <2>1. M!Finish
    BY <1>2, <1>10 DEF AllInstalled, M!Finish, SetState
  <2> QED
    BY <2>1 DEF M!Next
<1>11. CASE UNCHANGED vars
  BY <1>2, <1>11 DEF vars, SetState
<1> QED
  BY <1>4, <1>5, <1>7, <1>8, <1>9, <1>10, <1>11 DEF Next, WalkStep

\* Spec => M!Spec: whatever errors cut off the search, install_modules() does
\* what ModuleSet says.
THEOREM SearchImplementsModuleSet == Spec => ImplementsModuleSet
<1>1. Init => M!Init
  BY DEF Init, Start, SetState, M!Init
<1> QED
  BY <1>1, ModuleInvariant, StepModuleSet, PTL DEF Spec, ImplementsModuleSet, M!Spec
=============================================================================
