--------------------------- MODULE InstallProofs ---------------------------
(***************************************************************************)
(* Proofs about InstallFilesLdd, for every host and every sequence of      *)
(* calls: what the program has installed has its libraries, however the    *)
(* calls before the last one ended.                                        *)
(*                                                                         *)
(* The search and the cloning take turns, so the proof is put together     *)
(* from what LddProofs and ClonePathProofs show of a single step.          *)
(***************************************************************************)
EXTENDS InstallFilesLdd, LddProofs

\* What is proved about clone_path(), for the calls from here.
CP == INSTANCE ClonePathProofs WITH phase <- cphase

----------------------------------------------------------------------------
(***************************************************************************)
(* The operators of C are those that the lemmas in CP are about.           *)
(***************************************************************************)
LEMMA SameHosts ==
  /\ C!HostsAreTrees <=> CP!HostsAreTrees
  /\ C!Root = CP!Root /\ \A p : C!Parent(p) = CP!Parent(p)
BY DEF C!HostsAreTrees, CP!HostsAreTrees, C!Root, CP!Root, C!Parent, CP!Parent, C!Host, CP!Host,
   C!Kinds, CP!Kinds, C!Way, CP!Way, C!Seqs!IsPrefix, CP!Seqs!IsPrefix

LEMMA SamePlaces ==
  /\ \A p : C!Real(p) = CP!Real(p) /\ C!DirOf(p) = CP!DirOf(p)
  /\ \A p : C!Reachable(p) = CP!Reachable(p) /\ C!Visible(p) = CP!Visible(p)
BY DEF C!Real, CP!Real, C!DirOf, CP!DirOf, C!Visible, CP!Visible, C!Reachable, CP!Reachable

LEMMA SameCalls ==
  /\ C!Top = CP!Top /\ C!Below = CP!Below /\ C!Restored = CP!Restored
  /\ \A f : C!Replace(f) = CP!Replace(f)
  /\ \A p : C!Call(p) = CP!Call(p)
  /\ C!ParentCall = CP!ParentCall /\ C!LinkCall = CP!LinkCall
BY DEF C!Top, CP!Top, C!Below, CP!Below, C!Replace, CP!Replace, C!Call, CP!Call, C!Restored, CP!Restored,
   C!DirOf, CP!DirOf, C!ParentCall, CP!ParentCall, C!LinkCall, CP!LinkCall, C!Parent, CP!Parent

LEMMA SameRelPaths ==
  \A p : /\ C!RelPathOf(p) = CP!RelPathOf(p) /\ (C!LeadsAstray(p) <=> CP!LeadsAstray(p))
         /\ (C!Unlinkable(p) <=> CP!Unlinkable(p))
<1>1. \A S : C!Cardinality(S) = CP!Cardinality(S)
  BY DEF C!Cardinality, CP!Cardinality
<1>2. \A s, d : C!Rest(s, d) = CP!Rest(s, d) /\ C!Ups(s, d) = CP!Ups(s, d)
  BY <1>1 DEF C!Rest, CP!Rest, C!BothDiffer, CP!BothDiffer, C!Ups, CP!Ups
<1>3. \A s, d : C!ConvertAbsRel(s, d) = CP!ConvertAbsRel(s, d)
  BY <1>2 DEF C!ConvertAbsRel, CP!ConvertAbsRel
<1>4. \A p : C!RelPathOf(p) = CP!RelPathOf(p)
  BY <1>3, SameHosts DEF C!RelPathOf, CP!RelPathOf
<1>5. \A p : C!Leads(p) = CP!Leads(p)
  BY <1>4, SamePlaces DEF C!Leads, CP!Leads, C!LeadsTo, CP!LeadsTo
<1> QED
  BY <1>4, <1>5, SamePlaces DEF C!LeadsAstray, CP!LeadsAstray, C!Unlinkable, CP!Unlinkable

LEMMA SameSteps ==
  /\ C!Start <=> CP!Start
  /\ C!CutShort <=> CP!CutShort
  /\ C!Next <=> CP!Next
<1> USE DEF C!At, CP!At, C!Is, CP!Is, C!tree, CP!tree, C!Error, CP!Error
<1>1. C!Start <=> CP!Start
  BY DEF C!Start, CP!Start
<1>2. C!CutShort <=> CP!CutShort
  BY SamePlaces, SameCalls DEF C!CutShort, CP!CutShort
<1>3. /\ C!InstallNext <=> CP!InstallNext
      /\ C!AllInstalled <=> CP!AllInstalled
      /\ C!Overflow <=> CP!Overflow
  BY SameCalls DEF C!InstallNext, CP!InstallNext, C!AllInstalled, CP!AllInstalled, C!Overflow, CP!Overflow,
     C!Following, CP!Following
<1>4. /\ C!AlreadyThere <=> CP!AlreadyThere
      /\ C!CloneParent <=> CP!CloneParent
      /\ C!NoSource <=> CP!NoSource
      /\ C!RelaxFails <=> CP!RelaxFails
  BY SameHosts, SamePlaces, SameCalls DEF C!AlreadyThere, CP!AlreadyThere, C!CloneParent, CP!CloneParent,
     C!NoSource, CP!NoSource, C!RelaxFails, CP!RelaxFails, C!ReadOnly, CP!ReadOnly
<1>5. /\ C!RelaxParent <=> CP!RelaxParent
      /\ C!FollowLink <=> CP!FollowLink
      /\ C!Unimplemented <=> CP!Unimplemented
  BY SamePlaces, SameCalls DEF C!RelaxParent, CP!RelaxParent, C!ReadOnly, CP!ReadOnly,
     C!FollowLink, CP!FollowLink,
     C!Unimplemented, CP!Unimplemented
<1>6. /\ C!Created <=> CP!Created
      /\ C!NotCreated <=> CP!NotCreated
      /\ \A p : C!Exists(p) = CP!Exists(p)
  BY SamePlaces, SameCalls DEF C!Created, CP!Created, C!NotCreated, CP!NotCreated, C!Exists, CP!Exists
<1>7. /\ C!CreateLink <=> CP!CreateLink
      /\ C!CreateDir <=> CP!CreateDir
      /\ C!CopyFile <=> CP!CopyFile
      /\ C!CopyFails <=> CP!CopyFails
  BY <1>2, <1>6, SamePlaces, SameCalls, SameRelPaths DEF C!CreateLink, CP!CreateLink, C!CreateDir, CP!CreateDir,
     C!CopyFile, CP!CopyFile, C!CopyFails, CP!CopyFails
<1>8. C!Next <=> CP!Next
  BY <1>3, <1>4, <1>5, <1>7 DEF C!Next, CP!Next
<1> QED
  BY <1>1, <1>2, <1>8

\* The assumption of ClonePath, under the name that the lemmas in CP need.
LEMMA Trees == CP!HostsAreTrees
BY InputsAgree, SameHosts DEF InstallAssumption

----------------------------------------------------------------------------
(***************************************************************************)
(* The inductive invariant.  What the search relies on holds from one call *)
(* of ldd() to the next, what clone_path() relies on while it runs.        *)
(***************************************************************************)
IsElf(p) == world.kind[p] = "elf"

\* The host and DESTROOTDIR.
HostInv ==
  /\ CP!TypeInv /\ CP!TreeInv
  /\ World(world) /\ Agree(world, host)
  /\ calls \in Seq(Seq(Paths))

\* The search (see LddProofs).
LibraryInv == ReturnInv /\ KnownInv

AtClone == call \in {"clone", "ok"}

\* install_files() has the list that ldd() returned.
CallInv ==
  /\ AtClone =>
       /\ CP!FramesInv /\ CP!FilesInv /\ Finished
       /\ {host.files[k] : k \in DOMAIN host.files} = ResultPaths
  /\ call = "clone" => CP!FreshInv
  /\ call = "ok" => cphase = "ok"

\* What the search took for installed is installed.
DestInv ==
  call \in {"search", "clone", "ok"} =>
    /\ world.dest \subseteq Installed
    /\ \A i \in DOMAIN world.args : world.args[i] # C!Root

\* Files that are not whole are known to be left.
LeftInv == (call = "clone" => cphase \in {"run", "ok"}) => partial \subseteq left

(***************************************************************************)
(* What is cloned needs nothing but what a file of the list needs: it is   *)
(* such a file, or what a link leads to, or a directory.                   *)
(***************************************************************************)
Covered(p) ==
  \E i \in results : IsElf(ItemPath(i)) /\ world.needed[ItemPath(i)] = world.needed[p]

CoveredInv ==
  AtClone =>
    /\ \A k \in 1..Len(stack) : IsElf(stack[k].path) => Covered(stack[k].path)
    /\ \A q \in dest \ host.dest : IsElf(q) => Covered(q)

\* What was installed before this call has its libraries.
CompleteInv ==
  AllCached /\ astray = {} =>
    \A q \in dest : IsElf(q) /\ q \notin left /\ (AtClone => q \in host.dest) => Complete(q)

InstallInv ==
  HostInv /\ LibraryInv /\ CallInv /\ DestInv /\ LeftInv /\ CoveredInv /\ CompleteInv


----------------------------------------------------------------------------
(***************************************************************************)
(* The steps.                                                              *)
(***************************************************************************)

\* The tree grows, and no more links lead elsewhere than were added.
Grows ==
  /\ dest \subseteq dest' /\ astray' \cap dest \subseteq astray /\ astray \subseteq astray'

\* What never changes in the views of the host.
SameWorld ==
  /\ world'.kind = world.kind /\ world'.needed = world.needed /\ world'.rpath = world.rpath
  /\ world'.cache = world.cache /\ world'.exists = world.exists

SameHost ==
  /\ host'.real = host.real /\ host'.dir = host.dir /\ host'.via = host.via
  /\ host'.kind = host.kind /\ host'.link = host.link

\* The process is killed: what is in the middle of a copy is added to the tree.
LEMMA KillAdds ==
  ASSUME C!CutShort
  PROVE  CP!Adds /\ CP!CutShort /\ UNCHANGED astray
<1>1. CP!CutShort
  BY SameSteps
<1> QED
  BY <1>1 DEF CP!CutShort, CP!Is, CP!At, CP!Adds

\* A kill has added a file, or nothing.
LEMMA KillSteps ==
  ASSUME HostInv, Kill
  PROVE  /\ Grows /\ UNCHANGED <<vars, host, relaxed, stack, next, cphase, calls>>
         /\ CP!TreeInv' /\ dest' \subseteq Paths /\ partial' \subseteq dest' /\ astray' \subseteq dest'
<1>1. UNCHANGED <<vars, host, relaxed, stack, next, cphase, calls>>
  BY DEF Kill
<1>2. CASE UNCHANGED <<dest, partial, astray>>
  BY <1>1, <1>2 DEF HostInv, CP!TypeInv, CP!TypeOK, CP!TreeInv, CP!Real, Grows
<1>3. CASE C!CutShort
  <2>1. CP!Adds /\ CP!CutShort /\ UNCHANGED astray
    BY <1>3, KillAdds
  <2>2. CP!TypeInv /\ CP!TreeInv
    BY DEF HostInv
  <2>3. CP!TreeInv'
    BY <1>1, <2>1, <2>2, Trees, CP!AddsToTree
  <2>4. CP!Real(CP!Top.path) \in Paths
    BY <2>1, <2>2, Trees, CP!TopTypes DEF CP!Adds
  <2>5. dest' = dest \cup {CP!Real(CP!Top.path)} /\ partial' = partial \cup {CP!Real(CP!Top.path)}
    BY <2>1 DEF CP!CutShort
  <2> QED
    BY <1>1, <2>1, <2>2, <2>3, <2>4, <2>5 DEF CP!TypeInv, CP!TypeOK, Grows
<1> QED
  BY <1>2, <1>3 DEF Kill

\* A step of clone_path().
LEMMA CloneSteps ==
  ASSUME HostInv, CallInv, Clone
  PROVE  /\ CP!Next /\ call = "clone" /\ host' = host /\ Grows
         /\ UNCHANGED <<vars, call, calls, left>>
         /\ CP!TypeInv' /\ CP!TreeInv' /\ CP!FramesInv' /\ CP!FreshInv' /\ CP!FilesInv'
<1>1. CP!Next /\ call = "clone" /\ UNCHANGED <<vars, call, calls, left>>
  BY SameSteps DEF Clone
<1>2. CP!TypeInv /\ CP!TreeInv /\ CP!FramesInv /\ CP!FreshInv /\ CP!FilesInv
  BY <1>1 DEF HostInv, CallInv, AtClone
<1>3. [CP!Next]_CP!vars
  BY <1>1
<1>4. host' = host /\ dest \subseteq dest' /\ astray' \cap dest \subseteq astray /\ astray \subseteq astray'
  BY <1>2, <1>3, Trees, CP!TreeSteps
<1>5. CP!TypeInv'
  BY <1>2, <1>3, Trees, CP!StepTypeInv
<1>6. CP!TreeInv'
  BY <1>2, <1>3, Trees, CP!StepTreeInv
<1>7. CP!FramesInv'
  BY <1>2, <1>3, Trees, CP!StepFramesInv
<1>8. CP!FreshInv'
  BY <1>2, <1>3, Trees, CP!StepFreshInv
<1>9. CP!FilesInv'
  BY <1>2, <1>3, Trees, CP!StepFilesInv
<1> QED
  BY <1>1, <1>4, <1>5, <1>6, <1>7, <1>8, <1>9 DEF Grows

\* The arguments of a call, if their directories exist.
LEMMA ArgumentTypes ==
  ASSUME HostInv, StartCall,
         NEW args, args = [i \in DOMAIN Head(calls) |-> CanonicalizeDir(Head(calls)[i])]
  PROVE  /\ args \in Seq(Paths) /\ Len(args) \in Nat /\ DOMAIN args = 1..Len(args)
         /\ \A i \in DOMAIN args : args[i] # C!Root
         /\ Tail(calls) \in Seq(Seq(Paths))
<1>1. calls \in Seq(Seq(Paths)) /\ calls # <<>>
  BY DEF HostInv, StartCall, AtCall
<1>2. Head(calls) \in Seq(Paths) /\ Tail(calls) \in Seq(Seq(Paths))
  BY <1>1
<1>3. PICK s \in Seq(Paths) : s = Head(calls)
  BY <1>2
<1>4. Len(s) \in Nat /\ DOMAIN s = 1..Len(s) /\ \A i \in DOMAIN s : s[i] \in Paths
  BY <1>3
<1>5. ASSUME NEW i \in DOMAIN s
      PROVE  CanonicalizeDir(s[i]) \in Paths /\ CanonicalizeDir(s[i]) # C!Root
  <2>1. PICK p \in Paths : p = s[i]
    BY <1>4, <1>5
  <2>2. p # C!Root /\ host.kind[host.dir[p]] = "dir"
    BY <1>3, <1>5, <2>1 DEF StartCall, HasCanonicalDir, C!DirOf
  <2>3. Append(host.dir[p], p[Len(p)]) \in Paths
    BY <2>1, <2>2 DEF HostInv, Agree
  <2>4. PICK d \in Paths : d = host.dir[p]
    BY <2>1 DEF HostInv, CP!TypeInv, CP!Host
  <2>5. d \in Seq(STRING)
    BY <2>4, Trees DEF CP!HostsAreTrees
  <2>6. Len(Append(d, p[Len(p)])) # 0
    BY <2>5
  <2> QED
    BY <2>1, <2>3, <2>4, <2>6 DEF CanonicalizeDir, C!DirOf, C!Root
<1>6. args = [i \in 1..Len(s) |-> CanonicalizeDir(s[i])]
  BY <1>3, <1>4
<1> HIDE DEF CanonicalizeDir
<1>7. args \in [1..Len(s) -> Paths]
  BY <1>4, <1>5, <1>6
<1>8. args \in Seq(Paths) /\ Len(args) = Len(s)
  BY <1>4, <1>7
<1> QED
  BY <1>2, <1>4, <1>5, <1>6, <1>8

\* A host that differs in what fails, in the list or in what is installed.
Differs(h, e, D, f) ==
  /\ e \in SUBSET Paths /\ D \in SUBSET Paths /\ f \in Seq(Paths)
  /\ h = [host EXCEPT !.createErr = e, !.dest = D, !.files = f]
  /\ \A q \in D : host.real[q] = q /\ host.via[q] \subseteq D

LEMMA OtherHost ==
  ASSUME NEW h, NEW e, NEW D, NEW f, CP!Host(host), Differs(h, e, D, f)
  PROVE  /\ CP!Host(h) /\ h.dest = D /\ h.files = f
         /\ h.real = host.real /\ h.dir = host.dir /\ h.via = host.via
         /\ h.kind = host.kind /\ h.link = host.link
<1> USE DEF Differs
<1>1. host \in [ real : [Paths -> Paths], dir : [Paths -> Paths], via : [Paths -> SUBSET Paths],
                kind : [Paths -> CP!Kinds], link : [Paths -> Paths], readonly : SUBSET Paths,
                chmodErr : SUBSET Paths, createErr : SUBSET Paths, dest : SUBSET Paths,
                files : Seq(Paths) ]
  BY DEF CP!Host
<1>2. /\ h \in [ real : [Paths -> Paths], dir : [Paths -> Paths], via : [Paths -> SUBSET Paths],
                kind : [Paths -> CP!Kinds], link : [Paths -> Paths], readonly : SUBSET Paths,
                chmodErr : SUBSET Paths, createErr : SUBSET Paths, dest : SUBSET Paths,
                files : Seq(Paths) ]
      /\ h.dest = D /\ h.files = f
      /\ h.real = host.real /\ h.dir = host.dir /\ h.via = host.via
      /\ h.kind = host.kind /\ h.link = host.link
  BY <1>1
<1>3. \A p : CP!Way(h, p) = CP!Way(host, p)
  BY <1>2 DEF CP!Way
<1> QED
  BY <1>2, <1>3 DEF CP!Host

\* The program is called: the search is at its start, the tree is as it was.
LEMMA CallSteps ==
  ASSUME HostInv, StartCall
  PROVE  /\ SameWorld /\ SameHost /\ host'.dest = host.dest
         /\ UNCHANGED <<dest, partial, astray, relaxed, left>>
         /\ call \in {"none", "ok", "failed"} /\ call' = "search" /\ stack' = <<>>
         /\ World(world)' /\ Start' /\ Agree(world, host)' /\ calls' \in Seq(Seq(Paths))
         /\ CP!TypeInv' /\ CP!TreeInv'
         /\ world'.dest = Installed /\ \A i \in DOMAIN world'.args : world'.args[i] # C!Root
<1>1. PICK args : args = [i \in DOMAIN Head(calls) |-> CanonicalizeDir(Head(calls)[i])]
  OBVIOUS
<1>2. /\ args \in Seq(Paths) /\ Len(args) \in Nat /\ DOMAIN args = 1..Len(args)
      /\ \A i \in DOMAIN args : args[i] # C!Root
      /\ Tail(calls) \in Seq(Seq(Paths))
  BY <1>1, ArgumentTypes
<1>3. /\ world' = [world EXCEPT !.dest = Installed, !.args = args]
      /\ log' = [i \in DOMAIN args |-> [path |-> args[i], lpaths |-> {}]]
      /\ visited' = {args[i] : i \in DOMAIN args}
      /\ claimed' = {} /\ results' = {} /\ panicked' = FALSE
      /\ pc' = [w \in Workers |-> "idle"] /\ cur' = [w \in Workers |-> 0]
      /\ order' = [w \in Workers |-> <<>>] /\ phase' = [w \in Workers |-> "lpaths"]
      /\ dep' = [w \in Workers |-> 1] /\ pos' = [w \in Workers |-> 1]
      /\ stack' = <<>> /\ next' = 1 /\ cphase' = "run"
      /\ call \in {"none", "ok", "failed"} /\ call' = "search" /\ calls' = Tail(calls)
      /\ UNCHANGED <<dest, partial, astray, relaxed, left>>
  BY <1>1 DEF StartCall, AtCall
<1>4. Installed \subseteq Paths
  BY DEF Installed
<1>5. PICK now : now = Installed
  OBVIOUS
<1>6. /\ World(world') /\ world'.dest = now /\ world'.args = args /\ SameWorld
  BY <1>2, <1>3, <1>4, <1>5 DEF HostInv, World, SameWorld
<1>7. World(world)'
  BY <1>6 DEF World
<1>8. Start'
  BY <1>2, <1>3, <1>6 DEF Start
<1>9. PICK e \in {{}, host.createErr} : host' = [host EXCEPT !.createErr = e]
  BY DEF StartCall
<1>10. CP!Host(host') /\ SameHost /\ host'.dest = host.dest
  <2>1. CP!Host(host)
    BY DEF HostInv, CP!TypeInv
  <2>2. e \in SUBSET Paths /\ host.dest \in SUBSET Paths /\ host.files \in Seq(Paths)
        /\ \A q \in host.dest : host.real[q] = q /\ host.via[q] \subseteq host.dest
    BY <2>1 DEF CP!Host
  <2>3. host' = [host EXCEPT !.createErr = e, !.dest = host.dest, !.files = host.files]
    BY <1>9, <2>1 DEF CP!Host
  <2>4. PICK h, D, f : h = host' /\ D = host.dest /\ f = host.files
    OBVIOUS
  <2>5. Differs(h, e, D, f)
    BY <2>2, <2>3, <2>4 DEF Differs
  <2>6. /\ CP!Host(h) /\ h.dest = D /\ h.files = f
        /\ h.real = host.real /\ h.dir = host.dir /\ h.via = host.via
        /\ h.kind = host.kind /\ h.link = host.link
    BY <2>1, <2>5, OtherHost, Zenon
  <2> QED
    BY <2>4, <2>6 DEF SameHost
<1>11. CP!Host(host)'
  BY <1>10 DEF CP!Host
<1>12. CP!TypeInv' /\ CP!TreeInv'
  BY <1>3, <1>10, <1>11 DEF HostInv, CP!TypeInv, CP!TypeOK, CP!TreeInv, CP!Real, SameHost
<1>13. Agree(world, host)'
  BY <1>6, <1>10 DEF HostInv, Agree, SameWorld, SameHost, C!Root, C!Parent
<1> QED
  BY <1>2, <1>3, <1>5, <1>6, <1>7, <1>8, <1>10, <1>12, <1>13

\* The list of the files to install is what the search has returned.
LEMMA ListTypes ==
  ASSUME ReturnInv, NEW s \in IterationOrders(results)
  PROVE  /\ [k \in DOMAIN s |-> ItemPath(s[k])] \in Seq(Paths)
         /\ {[k \in DOMAIN s |-> ItemPath(s[k])][j] : j \in DOMAIN s} = ResultPaths
<1>1. results \subseteq DOMAIN log /\ DOMAIN log = 1..Len(log) /\ Len(log) \in Nat
      /\ \A i \in DOMAIN log : ItemPath(i) \in Paths
  BY ItemTypes DEF ReturnInv, TypeOK
<1>2. PICK n : n = Cardinality(results)
  OBVIOUS
<1>3. n \in Nat
  <2>1. 1 \in Int /\ Len(log) \in Int
    BY <1>1
  <2>2. IsFiniteSet(1..Len(log))
    BY <2>1, FS_Interval
  <2>3. IsFiniteSet(results)
    BY <1>1, <2>2, FS_Subset
  <2> QED
    BY <1>2, <2>3, FS_CardinalityType
<1>4. s \in [1..n -> results] /\ \A d \in results : \E k \in 1..n : s[k] = d
  BY <1>2 DEF IterationOrders
<1>5. \A k \in 1..n : s[k] \in results /\ ItemPath(s[k]) \in Paths
  BY <1>1, <1>4
<1>6. PICK t : t = [k \in 1..n |-> ItemPath(s[k])]
  OBVIOUS
<1>7. t \in [1..n -> Paths] /\ \A k \in 1..n : t[k] = ItemPath(s[k])
  BY <1>5, <1>6
<1>8. t \in Seq(Paths)
  BY <1>3, <1>7
<1>9. {t[j] : j \in 1..n} = ResultPaths
  BY <1>4, <1>5, <1>7 DEF ResultPaths
<1> QED
  BY <1>4, <1>6, <1>8, <1>9

\* install_files() is called.
LEMMA ListSteps ==
  ASSUME HostInv, ReturnInv, SearchReturns
  PROVE  /\ SameHost /\ host'.dest = dest /\ Finished
         /\ UNCHANGED <<vars, dest, partial, astray, relaxed, calls, left>>
         /\ call = "search" /\ call' = "clone" /\ stack' = <<>> /\ next' = 1 /\ cphase' = "run"
         /\ {host'.files[k] : k \in DOMAIN host'.files} = ResultPaths
         /\ CP!TypeInv' /\ CP!TreeInv'
<1>1. PICK s \in IterationOrders(results) :
        host' = [host EXCEPT !.dest = dest, !.files = [k \in DOMAIN s |-> ItemPath(s[k])]]
  BY DEF SearchReturns
<1>2. PICK t : t = [k \in DOMAIN s |-> ItemPath(s[k])]
  OBVIOUS
<1>3. t \in Seq(Paths) /\ DOMAIN t = DOMAIN s /\ {t[j] : j \in DOMAIN s} = ResultPaths
  BY <1>2, ListTypes
<1>4. /\ Finished /\ call = "search" /\ call' = "clone"
      /\ stack' = <<>> /\ next' = 1 /\ cphase' = "run"
      /\ UNCHANGED <<vars, dest, partial, astray, relaxed, calls, left>>
  BY DEF SearchReturns
<1>5. /\ CP!Host(host') /\ SameHost /\ host'.dest = dest /\ host'.files = t
  <2>1. CP!Host(host)
    BY DEF HostInv, CP!TypeInv
  <2>2. dest \in SUBSET Paths /\ host.createErr \in SUBSET Paths
        /\ \A q \in dest : host.real[q] = q /\ host.via[q] \subseteq dest
    BY <2>1 DEF HostInv, CP!TypeInv, CP!TypeOK, CP!TreeInv, CP!Real, CP!Host
  <2>3. host' = [host EXCEPT !.createErr = host.createErr, !.dest = dest, !.files = t]
    BY <1>1, <1>2, <2>1 DEF CP!Host
  <2>4. PICK h, D, e : h = host' /\ D = dest /\ e = host.createErr
    OBVIOUS
  <2>5. Differs(h, e, D, t)
    BY <1>3, <2>2, <2>3, <2>4 DEF Differs
  <2>6. /\ CP!Host(h) /\ h.dest = D /\ h.files = t
        /\ h.real = host.real /\ h.dir = host.dir /\ h.via = host.via
        /\ h.kind = host.kind /\ h.link = host.link
    BY <2>1, <2>5, OtherHost, Zenon
  <2> QED
    BY <2>4, <2>6 DEF SameHost
<1>6. CP!Host(host)'
  BY <1>5 DEF CP!Host
<1>7. CP!TypeInv' /\ CP!TreeInv'
  BY <1>4, <1>5, <1>6 DEF HostInv, CP!TypeInv, CP!TypeOK, CP!TreeInv, CP!Real, SameHost
<1> QED
  BY <1>3, <1>4, <1>5, <1>7

(***************************************************************************)
(* What every step leaves alone or lets grow; that is all that most parts  *)
(* of the invariant need.                                                  *)
(***************************************************************************)
FrameStep == SameWorld /\ SameHost /\ Grows

\* The program sees the same files, and installs more of them.
LEMMA StepFrames ==
  ASSUME HostInv, LibraryInv, CallInv, [InstallNext]_installVars
  PROVE  FrameStep
<1> USE DEF FrameStep, SameWorld, SameHost, Grows
<1>1. CASE StartCall
  BY <1>1, CallSteps
<1>2. CASE Search
  <2>1. PICK w \in Workers : WorkerStep(w)
    BY <1>2 DEF Search, Next
  <2>2. world' = world
    BY <2>1, StepFrame DEF LibraryInv, ReturnInv
  <2> QED
    BY <1>2, <2>2 DEF Search, cloneVars
<1>3. CASE SearchReturns
  <2>1. world' = world
    BY <1>3 DEF SearchReturns, vars
  <2> QED
    BY <1>3, <2>1, ListSteps DEF LibraryInv
<1>4. CASE BadArgument \/ SearchPanics \/ CloneReturns \/ UNCHANGED installVars
  BY <1>4 DEF BadArgument, SearchPanics, CloneReturns, installVars, vars, cloneVars
<1>5. CASE Clone
  <2>1. world' = world
    BY <1>5 DEF Clone, vars
  <2> QED
    BY <1>5, <2>1, CloneSteps
<1>6. CASE Kill
  <2>1. world' = world
    BY <1>6 DEF Kill, vars
  <2> QED
    BY <1>6, <2>1, KillSteps
<1> QED
  BY <1>1, <1>2, <1>3, <1>4, <1>5, <1>6 DEF InstallNext

\* The host and what is below DESTROOTDIR stay what they are taken for.
LEMMA StepHostInv ==
  ASSUME HostInv, LibraryInv, CallInv, [InstallNext]_installVars
  PROVE  HostInv'
<1>1. CASE StartCall
  BY <1>1, CallSteps DEF HostInv
<1>2. CASE UNCHANGED cloneVars /\ world' = world /\ calls' \in Seq(Seq(Paths))
  <2>1. UNCHANGED <<host, dest, partial, astray, relaxed, stack, next, cphase>>
    BY <1>2 DEF cloneVars
  <2>2. CP!TypeInv' /\ CP!TreeInv'
    BY <2>1 DEF HostInv, CP!TypeInv, CP!TypeOK, CP!Host, CP!TreeInv, CP!Real
  <2> QED
    BY <1>2, <2>2 DEF HostInv, World, Agree, cloneVars
<1>3. CASE Search \/ BadArgument \/ SearchPanics \/ CloneReturns \/ UNCHANGED installVars
  <2>1. UNCHANGED cloneVars
    BY <1>3 DEF Search, BadArgument, SearchPanics, CloneReturns, installVars
  <2>2. world' = world
    <3>1. CASE Search
      <4>1. PICK w \in Workers : WorkerStep(w)
        BY <3>1 DEF Search, Next
      <4> QED
        BY <4>1, StepFrame DEF LibraryInv, ReturnInv
    <3> QED
      BY <1>3, <3>1 DEF BadArgument, SearchPanics, CloneReturns, installVars, vars
  <2>3. calls' = calls \/ (calls # <<>> /\ calls' = Tail(calls))
    BY <1>3 DEF Search, BadArgument, AtCall, SearchPanics, CloneReturns, installVars
  <2>4. calls' \in Seq(Seq(Paths))
    <3>1. PICK S : S = Seq(Paths)
      OBVIOUS
    <3>2. calls \in Seq(S)
      BY <3>1 DEF HostInv
    <3>3. calls # <<>> => Tail(calls) \in Seq(S)
      BY <3>2
    <3> QED
      BY <2>3, <3>1, <3>2, <3>3
  <2> QED
    BY <1>2, <2>1, <2>2, <2>4
<1>4. CASE SearchReturns
  <2>1. world' = world
    BY <1>4 DEF SearchReturns, vars
  <2>2. SameHost /\ CP!TypeInv' /\ CP!TreeInv' /\ calls' = calls
    BY <1>4, ListSteps DEF LibraryInv
  <2> QED
    BY <2>1, <2>2 DEF HostInv, World, Agree, SameHost, C!Root, C!Parent
<1>5. CASE Clone
  <2>1. world' = world
    BY <1>5 DEF Clone, vars
  <2>2. host' = host /\ CP!TypeInv' /\ CP!TreeInv' /\ calls' = calls
    BY <1>5, CloneSteps
  <2> QED
    BY <2>1, <2>2 DEF HostInv, World, Agree
<1>6. CASE Kill
  <2>1. world' = world
    BY <1>6 DEF Kill, vars
  <2>2. /\ UNCHANGED <<host, relaxed, stack, next, cphase, calls>>
        /\ CP!TreeInv' /\ dest' \subseteq Paths /\ partial' \subseteq dest' /\ astray' \subseteq dest'
    BY <1>6, KillSteps
  <2>3. CP!TypeInv'
    BY <2>2 DEF HostInv, CP!TypeInv, CP!TypeOK, CP!Host
  <2> QED
    BY <2>1, <2>2, <2>3 DEF HostInv, World, Agree
<1> QED
  BY <1>1, <1>3, <1>4, <1>5, <1>6 DEF InstallNext

\* ldd() starts anew, or takes a step, or does nothing.
LEMMA StepSearch ==
  ASSUME HostInv, [InstallNext]_installVars
  PROVE  [Next]_vars \/ (World(world) /\ Start)'
<1>1. CASE StartCall
  BY <1>1, CallSteps
<1>2. CASE \/ BadArgument \/ Search \/ SearchReturns \/ SearchPanics
           \/ Clone \/ CloneReturns \/ Kill \/ UNCHANGED installVars
  BY <1>2 DEF BadArgument, Search, SearchReturns, SearchPanics, Clone, CloneReturns, Kill, installVars
<1> QED
  BY <1>1, <1>2 DEF InstallNext

\* What LddProofs knows holds at the start of each search.
LEMMA StartLibraryInv == World(world) /\ Start => LibraryInv
BY StartTypeOK, StartSearchInv, StartReturnInv, StartKnownInv DEF LibraryInv, ReturnInv

LEMMA StepLibraryInv ==
  ASSUME HostInv, LibraryInv, [InstallNext]_installVars
  PROVE  LibraryInv' \/ (World(world) /\ Start)'
<1> SUFFICES ASSUME [Next]_vars PROVE LibraryInv'
  BY StepSearch
<1>1. TypeOK /\ SearchInv /\ HeldItems /\ ItemsAccounted /\ LogSource /\ KnownInv
  BY DEF LibraryInv, ReturnInv
<1>2. TypeOK' /\ SearchInv'
  BY <1>1, StepsTypeOK, StepsSearchInv
<1>3. HeldItems' /\ ItemsAccounted' /\ LogSource'
  BY <1>1, StepsReturnInv
<1>4. KnownInv'
  BY StepsKnownInv DEF LibraryInv
<1> QED
  BY <1>2, <1>3, <1>4 DEF LibraryInv, ReturnInv

\* What clone_path() is called with, and what it leaves.
LEMMA StepCallInv ==
  ASSUME HostInv, LibraryInv, CallInv, [InstallNext]_installVars
  PROVE  CallInv'
<1> USE DEF CallInv, AtClone
<1>1. CASE StartCall \/ BadArgument \/ SearchPanics \/ Kill
  <2>1. call' \in {"search", "failed"}
    BY <1>1 DEF StartCall, BadArgument, SearchPanics, Kill
  <2> QED
    BY <2>1
<1>2. CASE Search
  BY <1>2 DEF Search
<1>3. CASE SearchReturns
  <2>1. /\ call' = "clone" /\ stack' = <<>> /\ next' = 1 /\ cphase' = "run"
        /\ Finished /\ UNCHANGED vars
        /\ {host'.files[k] : k \in DOMAIN host'.files} = ResultPaths
        /\ CP!TypeInv'
    BY <1>3, ListSteps DEF LibraryInv
  <2>2. Finished' /\ ResultPaths' = ResultPaths
    BY <2>1 DEF Finished, ResultPaths, ItemPath, vars
  <2>3. CP!FramesInv' /\ CP!FreshInv'
    BY <2>1 DEF CP!FramesInv, CP!FreshInv
  <2>4. CP!FilesInv'
    <3>1. host'.files \in Seq(Paths)
      BY <2>1 DEF CP!TypeInv, CP!Host
    <3>2. \A k \in DOMAIN host'.files : ~(k < 1)
      BY <3>1
    <3> QED
      BY <2>1, <3>2 DEF CP!FilesInv
  <2> QED
    BY <2>1, <2>2, <2>3, <2>4
<1>4. CASE Clone
  <2>1. /\ call = "clone" /\ call' = "clone" /\ host' = host /\ UNCHANGED vars
        /\ CP!FramesInv' /\ CP!FreshInv' /\ CP!FilesInv'
    BY <1>4, CloneSteps
  <2>2. Finished' <=> Finished
    BY <2>1 DEF Finished, vars
  <2>3. ResultPaths' = ResultPaths
    BY <2>1 DEF ResultPaths, ItemPath, vars
  <2> QED
    BY <2>1, <2>2, <2>3
<1>5. CASE CloneReturns \/ UNCHANGED installVars
  <2>1. UNCHANGED vars /\ UNCHANGED cloneVars
    BY <1>5 DEF CloneReturns, installVars
  <2>2. /\ Finished' <=> Finished
        /\ ResultPaths' = ResultPaths
    BY <2>1 DEF Finished, ResultPaths, ItemPath, vars
  <2>3. AtClone' => AtClone /\ (call' = "clone" => call = "clone") /\ (call' = "ok" => cphase' = "ok")
    BY <1>5 DEF CloneReturns, installVars, cloneVars
  <2>4. AtClone /\ call' = "clone" => CP!FreshInv'
    BY <2>1, <2>3 DEF CP!FreshInv, CP!Plain, CP!Real, cloneVars
  <2>5. AtClone => CP!FramesInv' /\ CP!FilesInv'
    <3>1. [CP!Next]_CP!vars /\ CP!TypeInv
      BY <2>1 DEF HostInv, cloneVars, CP!vars, CP!tree
    <3>2. AtClone => CP!FramesInv'
      BY <3>1, Trees, CP!StepFramesInv
    <3>3. AtClone => CP!FilesInv'
      BY <3>1, Trees, CP!StepFilesInv
    <3> QED
      BY <3>2, <3>3
  <2> QED
    BY <2>1, <2>2, <2>3, <2>4, <2>5 DEF cloneVars
<1> QED
  BY <1>1, <1>2, <1>3, <1>4, <1>5 DEF InstallNext

\* What is installed stays installed.
LEMMA InstalledGrows ==
  ASSUME FrameStep
  PROVE  Installed \subseteq Installed'
<1>1. /\ host'.real = host.real /\ host'.via = host.via
      /\ dest \subseteq dest' /\ astray' \cap dest \subseteq astray
  BY DEF FrameStep, SameHost, Grows
<1>2. ASSUME NEW p \in Paths, C!Visible(p), C!Real(p) \notin astray
      PROVE  C!Visible(p)' /\ C!Real(p)' \notin astray'
  BY <1>1, <1>2 DEF C!Visible, C!Reachable, C!Real
<1> QED
  BY <1>2 DEF Installed

\* And its libraries with it.
LEMMA CompleteStable ==
  ASSUME FrameStep, NEW q, Complete(q)
  PROVE  Complete(q)'
<1>1. Installed \subseteq Installed'
  BY InstalledGrows
<1>2. world'.needed = world.needed /\ world'.cache = world.cache /\ world'.exists = world.exists
  BY DEF FrameStep, SameWorld
<1>3. Complete(q)' <=> \A k \in DOMAIN world.needed[q] :
        LET n == world.needed[q][k]
            found == {world.cache[n][j] : j \in DOMAIN world.cache[n]} \cap world.exists
        IN  found # {} => found \cap Installed' # {}
  BY <1>2 DEF Complete
<1> QED
  BY <1>1, <1>3 DEF Complete

LEMMA StepDestInv ==
  ASSUME HostInv, LibraryInv, CallInv, DestInv, [InstallNext]_installVars
  PROVE  DestInv'
<1>1. FrameStep
  BY StepFrames
<1>2. Installed \subseteq Installed'
  BY <1>1, InstalledGrows
<1>3. CASE StartCall
  BY <1>2, <1>3, CallSteps DEF DestInv, C!Root
<1>4. CASE Search
  <2>1. PICK w \in Workers : WorkerStep(w)
    BY <1>4 DEF Search, Next
  <2>2. world' = world
    BY <2>1, StepFrame DEF LibraryInv, ReturnInv
  <2> QED
    BY <1>2, <1>4, <2>2 DEF DestInv, Search, C!Root
<1>5. CASE BadArgument \/ SearchReturns \/ SearchPanics \/ Clone \/ CloneReturns \/ Kill \/ UNCHANGED installVars
  <2>1. world' = world
    BY <1>5 DEF BadArgument, SearchReturns, SearchPanics, Clone, CloneReturns, Kill, installVars, vars
  <2>2. call' \in {"search", "clone", "ok"} => call \in {"search", "clone", "ok"}
    BY <1>5 DEF BadArgument, SearchReturns, SearchPanics, Clone, CloneReturns, Kill, installVars
  <2> QED
    BY <1>2, <2>1, <2>2 DEF DestInv, C!Root
<1> QED
  BY <1>3, <1>4, <1>5 DEF InstallNext

\* Files are cut short by copies that fail, and by kills.
LEMMA StepLeftInv ==
  ASSUME HostInv, LibraryInv, CallInv, LeftInv, [InstallNext]_installVars
  PROVE  LeftInv'
<1>1. CASE StartCall
  BY <1>1, CallSteps DEF LeftInv
<1>2. CASE SearchReturns
  BY <1>2, ListSteps DEF LeftInv, LibraryInv
<1>3. CASE BadArgument \/ Search \/ SearchPanics \/ UNCHANGED installVars
  BY <1>3 DEF LeftInv, BadArgument, AtCall, Search, SearchPanics, installVars, cloneVars
<1>4. CASE Clone
  <2>1. CP!TypeInv /\ CP!FramesInv /\ [CP!Next]_CP!vars /\ call = "clone" /\ left' = left
    BY <1>4, CloneSteps DEF HostInv, CallInv, AtClone
  <2>2. cphase' \in {"run", "ok"} => cphase \in {"run", "ok"} /\ partial' \subseteq partial
    BY <2>1, Trees, CP!PartialSteps
  <2>3. call' = "clone"
    BY <1>4 DEF Clone
  <2> QED
    BY <2>1, <2>2, <2>3 DEF LeftInv
<1>5. CASE CloneReturns
  BY <1>5 DEF LeftInv, CloneReturns, cloneVars
<1>6. CASE Kill
  BY <1>6 DEF LeftInv, Kill
<1> QED
  BY <1>1, <1>2, <1>3, <1>4, <1>5, <1>6 DEF InstallNext

\* What is covered by one path is covered by another one of the same file.
LEMMA CoveredAlike ==
  ASSUME NEW p, NEW q, Covered(p), world.needed[q] = world.needed[p]
  PROVE  Covered(q)
BY DEF Covered

\* A step of clone_path() works for files of the list.
LEMMA CloneCovered ==
  ASSUME HostInv, CallInv, CoveredInv, Clone
  PROVE  /\ \A k \in 1..Len(stack') : IsElf(stack'[k].path) => Covered(stack'[k].path)
         /\ \A q \in dest' \ host.dest : IsElf(q) => Covered(q)
<1>1. CP!TypeInv /\ CP!FramesInv /\ [CP!Next]_CP!vars /\ call = "clone"
  BY CloneSteps DEF HostInv, CallInv, AtClone
<1>2. /\ \A k \in 1..Len(stack) : stack[k].path \in Paths
      /\ \A k \in 1..Len(stack) : IsElf(stack[k].path) => Covered(stack[k].path)
      /\ \A q \in dest \ host.dest : IsElf(q) => Covered(q)
  <2>1. stack \in Seq(CP!Frame)
    BY <1>1 DEF CP!TypeInv, CP!TypeOK
  <2>2. \A k \in 1..Len(stack) : stack[k] \in CP!Frame
    BY <2>1
  <2>3. \A k \in 1..Len(stack) : stack[k].path \in Paths
    BY <2>2 DEF CP!Frame
  <2> QED
    BY <1>1, <2>3 DEF CoveredInv, AtClone
<1>3. \A p \in Paths :
        /\ world.kind[host.real[p]] = world.kind[p] /\ world.needed[host.real[p]] = world.needed[p]
        /\ host.kind[p] = "link" =>
             world.kind[host.link[p]] = world.kind[p] /\ world.needed[host.link[p]] = world.needed[p]
        /\ p # CP!Root => world.kind[CP!Parent(p)] # "elf"
  BY SameHosts DEF HostInv, Agree
<1>4. \A j \in DOMAIN host.files : \E i \in results : host.files[j] = ItemPath(i)
  BY <1>1 DEF CallInv, AtClone, ResultPaths
<1>5. ASSUME NEW k \in 1..Len(stack'), IsElf(stack'[k].path)
      PROVE  Covered(stack'[k].path)
  <2>1. \/ \E j \in 1..Len(stack) :
             \/ stack'[k].path = stack[j].path
             \/ stack[j].path # CP!Root /\ stack'[k].path = CP!Parent(stack[j].path)
             \/ host.kind[stack[j].path] = "link" /\ stack'[k].path = host.link[stack[j].path]
        \/ \E j \in DOMAIN host.files : stack'[k].path = host.files[j]
    BY <1>1, Trees, CP!StepPaths
  <2>2. CASE \E j \in DOMAIN host.files : stack'[k].path = host.files[j]
    BY <1>4, <1>5, <2>2 DEF Covered
  <2>3. ASSUME NEW j \in 1..Len(stack),
               \/ stack'[k].path = stack[j].path
               \/ stack[j].path # CP!Root /\ stack'[k].path = CP!Parent(stack[j].path)
               \/ host.kind[stack[j].path] = "link" /\ stack'[k].path = host.link[stack[j].path]
        PROVE  Covered(stack'[k].path)
    <3>1. /\ IsElf(stack[j].path)
          /\ world.needed[stack'[k].path] = world.needed[stack[j].path]
      BY <1>2, <1>3, <1>5, <2>3 DEF IsElf
    <3> QED
      BY <1>2, <3>1, CoveredAlike
  <2> QED
    BY <2>1, <2>2, <2>3
<1>6. ASSUME NEW q \in dest' \ host.dest, IsElf(q)
      PROVE  Covered(q)
  <2>1. CASE q \in dest
    BY <1>2, <1>6, <2>1
  <2>2. CASE q \notin dest
    <3>1. CP!Adds
      BY <1>1, <2>2, Trees, CP!DestSteps
    <3>2. stack # <<>> /\ q = CP!Real(CP!Top.path)
      BY <2>2, <3>1 DEF CP!Adds
    <3>3. CP!Top = stack[Len(stack)] /\ Len(stack) \in 1..Len(stack)
      <4>1. Len(stack) \in Nat \ {0} /\ CP!Top = stack[Len(stack)]
        BY <1>1, <3>2, Trees, CP!TopTypes
      <4> QED
        BY <4>1
    <3>4. PICK p : p = stack[Len(stack)].path
      OBVIOUS
    <3>5. p \in Paths /\ q = host.real[p] /\ (IsElf(p) => Covered(p))
      BY <1>2, <3>2, <3>3, <3>4 DEF CP!Real
    <3>6. IsElf(p) /\ world.needed[q] = world.needed[p]
      BY <1>3, <1>6, <3>5 DEF IsElf
    <3> QED
      BY <3>5, <3>6, CoveredAlike
  <2> QED
    BY <2>1, <2>2
<1> QED
  BY <1>5, <1>6

LEMMA StepCoveredInv ==
  ASSUME HostInv, LibraryInv, CallInv, CoveredInv, [InstallNext]_installVars
  PROVE  CoveredInv'
<1> USE DEF CoveredInv, AtClone
<1>1. CASE StartCall \/ BadArgument \/ Search \/ SearchPanics \/ Kill
  <2>1. call' \in {"search", "failed"}
    BY <1>1 DEF StartCall, BadArgument, Search, SearchPanics, Kill
  <2> QED
    BY <2>1
<1>2. CASE SearchReturns
  BY <1>2, ListSteps DEF LibraryInv
<1>3. CASE Clone
  <2>1. /\ \A k \in 1..Len(stack') : IsElf(stack'[k].path) => Covered(stack'[k].path)
        /\ \A q \in dest' \ host.dest : IsElf(q) => Covered(q)
    BY <1>3, CloneCovered
  <2>2. host' = host /\ UNCHANGED vars
    BY <1>3, CloneSteps
  <2>3. world' = world /\ log' = log /\ results' = results
    BY <2>2 DEF vars
  <2> QED
    BY <2>1, <2>2, <2>3 DEF IsElf, Covered, ItemPath
<1>4. CASE CloneReturns \/ UNCHANGED installVars
  <2>1. /\ call' \in {"clone", "ok"} => call \in {"clone", "ok"}
        /\ UNCHANGED <<world, log, results, host, dest, stack>>
    BY <1>4 DEF CloneReturns, installVars, vars, cloneVars
  <2> QED
    BY <2>1 DEF IsElf, Covered, ItemPath
<1> QED
  BY <1>1, <1>2, <1>3, <1>4 DEF InstallNext

(***************************************************************************)
(* After Ok, what the search has returned is installed; so are the         *)
(* libraries of what the program has installed, whichever call it was.     *)
(***************************************************************************)
LEMMA ListIsInstalled ==
  ASSUME InstallInv, call = "ok", astray = {}, NEW r \in ResultPaths, r # C!Root
  PROVE  r \in Installed
<1>1. CP!FilesInv /\ cphase = "ok" /\ {host.files[k] : k \in DOMAIN host.files} = ResultPaths
  BY DEF InstallInv, CallInv, AtClone
<1>2. PICK k \in DOMAIN host.files : host.files[k] = r
  BY <1>1
<1>3. CP!Arrived(r)
  BY <1>1, <1>2 DEF CP!FilesInv
<1>4. C!Visible(r)
  BY <1>3, SameHosts, SamePlaces DEF CP!Arrived
<1>5. r \in Paths
  <2>1. host.files \in Seq(Paths)
    BY DEF InstallInv, HostInv, CP!TypeInv, CP!Host
  <2> QED
    BY <1>2, <2>1
<1> QED
  BY <1>4, <1>5 DEF Installed

LEMMA Settled ==
  ASSUME InstallInv, call = "ok", AllCached, astray = {},
         NEW q \in dest, IsElf(q), q \notin left
  PROVE  Complete(q)
<1>1. CASE q \in host.dest
  BY <1>1 DEF InstallInv, CompleteInv
<1>2. CASE q \notin host.dest
  <2>1. PICK i \in results : IsElf(ItemPath(i)) /\ world.needed[ItemPath(i)] = world.needed[q]
    BY <1>2 DEF InstallInv, CoveredInv, AtClone, Covered
  <2>2. ASSUME NEW k \in DOMAIN world.needed[q],
               Entries(world.needed[q][k]) \cap world.exists # {}
        PROVE  Entries(world.needed[q][k]) \cap world.exists \cap Installed # {}
    <3>1. PICK r \in Entries(world.needed[q][k]) \cap world.exists : TRUE
      BY <2>2
    <3>2. Entries(world.needed[q][k]) \cap world.exists \subseteq ResultPaths \cup world.dest
      <4>1. /\ ReturnInv /\ KnownInv /\ Finished
            /\ world.kind[ItemPath(i)] = "elf" /\ k \in DOMAIN world.needed[ItemPath(i)]
        BY <2>1 DEF InstallInv, LibraryInv, CallInv, AtClone, IsElf
      <4>2. Entries(world.needed[ItemPath(i)][k]) \cap world.exists \subseteq ResultPaths \cup world.dest
        BY <4>1, SearchedEntries
      <4> QED
        BY <2>1, <4>2
    <3>3. r # C!Root
      <4>1. PICK n : n = world.needed[q][k]
        OBVIOUS
      <4>2. n \in Names
        <5>1. q \in Paths
          BY DEF InstallInv, HostInv, CP!TypeInv, CP!TypeOK
        <5>2. world.needed[q] \in Seq(Names)
          BY <5>1, WorldTypes DEF InstallInv, HostInv
        <5> QED
          BY <4>1, <5>2
      <4> QED
        BY <3>1, <4>1, <4>2 DEF Entries, InstallInv, HostInv, Agree
    <3>4. r \in Installed
      <4>1. CASE r \in ResultPaths
        BY <3>3, <4>1, ListIsInstalled
      <4>2. CASE r \in world.dest
        BY <4>2 DEF InstallInv, DestInv
      <4> QED
        BY <3>1, <3>2, <4>1, <4>2
    <3> QED
      BY <3>1, <3>4
  <2> QED
    BY <2>2 DEF Complete, Entries
<1> QED
  BY <1>1, <1>2

\* Files that are not left by a failed call are from before it, or from a call
\* that has returned Ok.
LEMMA StepCompleteInv ==
  ASSUME InstallInv, [InstallNext]_installVars
  PROVE  CompleteInv'
<1>1. HostInv /\ LibraryInv /\ CallInv
  BY DEF InstallInv
<1>2. FrameStep
  BY <1>1, StepFrames
<1> SUFFICES ASSUME AllCached', astray' = {}, NEW q \in dest', IsElf(q)', q \notin left',
                    AtClone' => q \in host'.dest
             PROVE  Complete(q)'
  BY Zenon DEF CompleteInv
<1>3. AllCached /\ astray = {} /\ IsElf(q)
  BY <1>2 DEF FrameStep, SameWorld, Grows, AllCached, IsElf
<1>4. /\ q \in dest /\ q \notin left
      /\ AtClone => q \in host.dest \/ call = "ok"
  <2>1. host.dest \subseteq dest
    BY <1>1 DEF HostInv, CP!TreeInv
  <2>2. CASE StartCall
    BY <2>2, CallSteps, <1>1 DEF AtClone
  <2>3. CASE BadArgument
    BY <2>3 DEF AtClone, BadArgument, AtCall, cloneVars
  <2>4. CASE Search \/ SearchPanics \/ UNCHANGED installVars
    BY <2>4 DEF AtClone, Search, SearchPanics, installVars, cloneVars
  <2>5. CASE SearchReturns
    BY <2>5 DEF AtClone, SearchReturns
  <2>6. CASE Clone
    <3>1. host' = host /\ call = "clone" /\ call' = "clone" /\ left' = left
      BY <2>6, <1>1, CloneSteps DEF Clone
    <3> QED
      BY <2>1, <3>1 DEF AtClone
  <2>7. CASE CloneReturns
    BY <2>7 DEF AtClone, CloneReturns, cloneVars
  <2>8. CASE Kill
    <3>1. call = "clone" /\ left' = left \cup (dest' \ host.dest) \cup partial'
      BY <2>8 DEF Kill
    <3> QED
      BY <2>1, <3>1
  <2> QED
    BY <2>2, <2>3, <2>4, <2>5, <2>6, <2>7, <2>8 DEF InstallNext
<1>5. Complete(q)
  <2>1. CASE AtClone /\ q \notin host.dest
    BY <1>3, <1>4, <2>1, Settled
  <2>2. CASE AtClone => q \in host.dest
    BY <1>3, <1>4, <2>2 DEF InstallInv, CompleteInv
  <2> QED
    BY <2>1, <2>2
<1> QED
  BY <1>2, <1>5, CompleteStable

(***************************************************************************)
(* The theorems.                                                           *)
(***************************************************************************)

\* Nothing is promised for the files that were there before the first call.
LEMMA StartInstallInv == InstallInit => World(world) /\ Start /\ (LibraryInv => InstallInv)
<1> SUFFICES ASSUME InstallInit PROVE World(world) /\ Start /\ (LibraryInv => InstallInv)
  OBVIOUS
<1>1. /\ Start /\ dest = host.dest /\ partial = {} /\ astray = {} /\ relaxed = {}
      /\ stack = <<>> /\ next = 1 /\ cphase = "run" /\ call = "none" /\ left = {}
  BY DEF InstallInit, C!Start
<1>2. PICK in \in Inputs : world = in.world /\ host = in.host /\ calls = in.calls
  BY DEF InstallInit
<1>3. /\ world \in Worlds /\ host \in Hosts /\ calls \in Seq(Seq(Paths)) /\ Agree(world, host)
      /\ \A q \in host.dest : world.kind[q] # "elf"
  BY <1>2, InputsAgree DEF InstallAssumption
<1>4. World(world)
  BY <1>3, LddAssumption
<1>5. CP!Host(host)
  BY <1>3, Trees DEF CP!HostsAreTrees
<1>6. CP!TypeInv /\ CP!TreeInv
  <2>1. host.dest \in SUBSET Paths /\ \A q \in host.dest : host.real[q] = q /\ host.via[q] \subseteq host.dest
    BY <1>5 DEF CP!Host
  <2> QED
    BY <1>1, <1>5, <2>1 DEF CP!TypeInv, CP!TypeOK, CP!TreeInv, CP!Real
<1>7. HostInv
  BY <1>3, <1>4, <1>6 DEF HostInv
<1>8. CallInv /\ DestInv /\ LeftInv /\ CoveredInv
  BY <1>1 DEF CallInv, AtClone, DestInv, LeftInv, CoveredInv
<1>9. CompleteInv
  BY <1>1, <1>3 DEF CompleteInv, IsElf
<1> QED
  BY <1>1, <1>4, <1>7, <1>8, <1>9 DEF InstallInv

\* At the start of a call, the search begins where LddProofs begins.
LEMMA StepInstallInv ==
  InstallInv /\ [InstallNext]_installVars
    => (LibraryInv \/ (World(world) /\ Start))' /\ (LibraryInv => InstallInv)'
<1> SUFFICES ASSUME InstallInv, [InstallNext]_installVars
             PROVE  (LibraryInv \/ (World(world) /\ Start))' /\ (LibraryInv => InstallInv)'
  OBVIOUS
<1>1. HostInv /\ LibraryInv /\ CallInv /\ DestInv /\ LeftInv /\ CoveredInv /\ CompleteInv
  BY DEF InstallInv
<1>2. LibraryInv' \/ (World(world) /\ Start)'
  BY <1>1, StepLibraryInv
<1>3. HostInv'
  BY <1>1, StepHostInv
<1>4. CallInv'
  BY <1>1, StepCallInv
<1>5. DestInv' /\ LeftInv'
  BY <1>1, StepDestInv, StepLeftInv
<1>6. CoveredInv'
  BY <1>1, StepCoveredInv
<1>7. CompleteInv'
  BY <1>1, StepCompleteInv
<1> QED
  BY <1>2, <1>3, <1>4, <1>5, <1>6, <1>7 DEF InstallInv

LEMMA InstallInvariant == InstallSpec => []InstallInv
BY StartInstallInv, StepInstallInv, StartLibraryInv, PTL DEF InstallSpec

\* InstallSpec => []OkMeansComplete: Ok from install_files_ldd() means that the
\* arguments are there and whole, and that every file below DESTROOTDIR has its
\* libraries, however the earlier calls ended; but for what those have left.
THEOREM InstallIsComplete == InstallSpec => []OkMeansComplete
<1>1. InstallInv => OkMeansComplete
  <2> SUFFICES ASSUME InstallInv, call = "ok", astray = {}
               PROVE  /\ \A i \in DOMAIN world.args :
                           world.args[i] \in Installed /\ C!Real(world.args[i]) \notin partial \ left
                      /\ Cached => \A p \in Installed :
                           world.kind[p] = "elf" /\ C!Real(p) \notin left => Complete(p)
    BY DEF OkMeansComplete
  <2>1. partial \subseteq left
    BY DEF InstallInv, LeftInv
  <2>2. ASSUME NEW i \in DOMAIN world.args
        PROVE  world.args[i] \in Installed
    <3>1. ReturnInv /\ Finished /\ DestInv
      BY DEF InstallInv, LibraryInv, CallInv, AtClone
    <3>2. world.args[i] \in LogPaths
      BY <3>1 DEF ReturnInv, LogSource, LogPaths
    <3>3. world.args[i] \in ResultPaths \cup world.dest
      BY <3>1, <3>2, ReturnsTheLog DEF AnswerIsLog
    <3>4. CASE world.args[i] \in ResultPaths
      <4>1. PICK r : r = world.args[i]
        OBVIOUS
      <4>2. r \in ResultPaths /\ r # C!Root
        BY <3>1, <3>4, <4>1 DEF DestInv
      <4> QED
        BY <4>1, <4>2, ListIsInstalled
    <3>5. CASE world.args[i] \in world.dest
      BY <3>1, <3>5 DEF DestInv
    <3> QED
      BY <3>3, <3>4, <3>5
  <2>3. ASSUME Cached, NEW p \in Installed, world.kind[p] = "elf", C!Real(p) \notin left
        PROVE  Complete(p)
    <3>1. PICK q : q = C!Real(p)
      OBVIOUS
    <3>2. q \in dest /\ p \in Paths
      BY <3>1 DEF Installed, C!Visible
    <3>3. world.kind[q] = world.kind[p] /\ world.needed[q] = world.needed[p]
      BY <3>1, <3>2 DEF InstallInv, HostInv, Agree, C!Real
    <3>4. AllCached
      BY <2>3 DEF Cached, AllCached
    <3>5. Complete(q)
      <4>1. IsElf(q) /\ q \notin left
        BY <2>3, <3>1, <3>3 DEF IsElf
      <4> QED
        BY <3>2, <3>4, <4>1, Settled
    <3> DEFINE Has(names) ==
                 \A k \in DOMAIN names :
                   LET found == {world.cache[names[k]][j] : j \in DOMAIN world.cache[names[k]]}
                                  \cap world.exists
                   IN  found # {} => found \cap Installed # {}
    <3>6. Has(world.needed[q])
      BY <3>5 DEF Complete
    <3>7. ASSUME Has(world.needed[p]) PROVE Complete(p)
      BY <3>7 DEF Complete
    <3> HIDE DEF Has
    <3> QED
      BY <3>3, <3>6, <3>7
  <2> QED
    BY <2>1, <2>2, <2>3
<1> QED
  BY <1>1, InstallInvariant, PTL

\* InstallSpec => InstalledStaysWhole: no call, and no kill, cuts an installed
\* file short under its own name.
THEOREM InstalledFilesStayWhole == InstallSpec => InstalledStaysWhole
<1>1. InstallInv /\ [InstallNext]_installVars
        => [\A q \in partial' \ partial : q \in dest => C!Top.path # q]_installVars
  <2> SUFFICES ASSUME InstallInv, InstallNext, NEW q \in partial' \ partial, q \in dest
               PROVE  CP!Top.path # q
    BY SameCalls
  <2>1. Clone \/ Kill
    BY CallSteps DEF InstallNext, StartCall, BadArgument, Search, SearchReturns, SearchPanics,
       CloneReturns, cloneVars
  <2>2. CP!TypeInv /\ CP!FreshInv
    BY <2>1 DEF InstallInv, HostInv, CallInv, Clone, Kill
  <2>3. CP!CutShort
    <3>1. CASE Clone
      <4>1. [CP!Next]_CP!vars
        BY <3>1, CloneSteps DEF InstallInv
      <4> QED
        BY <4>1, Trees, CP!OnlyCopiesAreCutShort
    <3>2. CASE Kill
      BY <3>2, KillAdds DEF Kill
    <3> QED
      BY <2>1, <3>1, <3>2
  <2>4. q \in (partial' \ partial) \cap dest
    OBVIOUS
  <2> QED
    BY <2>2, <2>3, <2>4, Trees, CP!CutShortIsNew
<1> QED
  BY <1>1, InstallInvariant, PTL DEF InstallSpec, InstalledStaysWhole
=============================================================================
