-------------------------- MODULE InstallFilesLdd --------------------------
(***************************************************************************)
(* install_files_ldd() of src/src/lib.rs, the whole of it: ldd() (Ldd),    *)
(* then install_files() for its list (ClonePath).  dracut calls the        *)
(* program again and again for the same DESTROOTDIR, so a behavior is a    *)
(* sequence of calls.  A call may fail or be killed, also in the middle of *)
(* a copy, and the next one starts from what is there: files that exist    *)
(* are neither copied nor searched again.                                  *)
(*                                                                         *)
(* The only memory from call to call is DESTROOTDIR.                       *)
(***************************************************************************)
EXTENDS Ldd

CONSTANTS
  MaxDepth,   \* see ClonePath
  Hosts,
  Inputs      \* [world, host, calls]: calls are the arguments of each call

VARIABLES
  host, dest, partial, astray, relaxed, stack, next, cphase,   \* see ClonePath
  call,       \* "none", "search", "clone", "ok" or "failed"
  calls,      \* arguments of the calls to come
  left        \* what calls that did not return Ok have created or cut short

C == INSTANCE ClonePath WITH phase <- cphase

cloneVars == <<host, dest, partial, astray, relaxed, stack, next, cphase>>
installVars == <<vars, cloneVars, call, calls, left>>

(***************************************************************************)
(* The two views of one host: what open() finds at a path is what is at    *)
(* its real path, and behind a link.  No path leads through an ELF file,   *)
(* and "/" is no library.                                                  *)
(***************************************************************************)
Agree(wd, h) ==
  /\ \A p \in Paths :
       /\ wd.kind[h.real[p]] = wd.kind[p] /\ wd.needed[h.real[p]] = wd.needed[p]
       /\ h.kind[p] = "link" =>
            wd.kind[h.link[p]] = wd.kind[p] /\ wd.needed[h.link[p]] = wd.needed[p]
       /\ p # C!Root =>
            /\ wd.kind[C!Parent(p)] # "elf"
            /\ h.kind[h.dir[p]] = "dir" => Append(h.dir[p], p[Len(p)]) \in Paths
  /\ \A n \in Names : \A j \in DOMAIN wd.cache[n] : wd.cache[n][j] # C!Root

\* DESTROOTDIR has got its ELF files from this program.
InstallAssumption ==
  /\ C!HostsAreTrees
  /\ \A in \in Inputs :
       /\ in.world \in Worlds /\ in.host \in Hosts /\ in.calls \in Seq(Seq(Paths))
       /\ Agree(in.world, in.host)
       /\ \A q \in in.host.dest : in.world.kind[q] # "elf"

ASSUME InputsAgree == InstallAssumption

InstallInit ==
  /\ \E in \in Inputs : world = in.world /\ host = in.host /\ calls = in.calls
  /\ dest = host.dest /\ partial = {} /\ astray = {} /\ relaxed = {}
  /\ Start
  /\ C!Start
  /\ call = "none"
  /\ left = {}

----------------------------------------------------------------------------
\* dest.exists(): the path is there, and what it leads to, since links are
\* created last.
Installed == {p \in Paths : C!Visible(p) /\ C!Real(p) \notin astray}

\* canonicalize_dir() for an argument; "/" has no file name.
HasCanonicalDir(p) == p # C!Root /\ host.kind[C!DirOf(p)] = "dir"

CanonicalizeDir(p) == Append(C!DirOf(p), p[Len(p)])

AtCall == call \in {"none", "ok", "failed"} /\ calls # <<>>

\* The program is started, perhaps again; copy() may fail or not.
StartCall ==
  /\ AtCall /\ \A i \in DOMAIN Head(calls) : HasCanonicalDir(Head(calls)[i])
  /\ LET args == [i \in DOMAIN Head(calls) |-> CanonicalizeDir(Head(calls)[i])]
     IN  /\ world' = [world EXCEPT !.dest = Installed, !.args = args]
         /\ log' = [i \in DOMAIN args |-> [path |-> args[i], lpaths |-> {}]]
         /\ visited' = {args[i] : i \in DOMAIN args}
  /\ claimed' = {} /\ results' = {} /\ panicked' = FALSE
  /\ pc' = [w \in Workers |-> "idle"] /\ cur' = [w \in Workers |-> 0]
  /\ order' = [w \in Workers |-> <<>>] /\ phase' = [w \in Workers |-> "lpaths"]
  /\ dep' = [w \in Workers |-> 1] /\ pos' = [w \in Workers |-> 1]
  /\ \E e \in {{}, host.createErr} : host' = [host EXCEPT !.createErr = e]
  /\ stack' = <<>> /\ next' = 1 /\ cphase' = "run"
  /\ call' = "search"
  /\ calls' = Tail(calls)
  /\ UNCHANGED <<dest, partial, astray, relaxed, left>>

\* canonicalize_dir(..).unwrap()
BadArgument ==
  /\ AtCall /\ \E i \in DOMAIN Head(calls) : ~HasCanonicalDir(Head(calls)[i])
  /\ call' = "failed"
  /\ calls' = Tail(calls)
  /\ UNCHANGED <<vars, cloneVars, left>>

\* ldd()
Search ==
  /\ call = "search"
  /\ Next
  /\ UNCHANGED <<cloneVars, call, calls, left>>

\* The list that install_files() gets is in no particular order.
SearchReturns ==
  /\ call = "search" /\ Finished
  /\ \E s \in IterationOrders(results) :
       host' = [host EXCEPT !.dest = dest, !.files = [k \in DOMAIN s |-> ItemPath(s[k])]]
  /\ stack' = <<>> /\ next' = 1 /\ cphase' = "run"
  /\ call' = "clone"
  /\ UNCHANGED <<vars, dest, partial, astray, relaxed, calls, left>>

\* A panic of a worker is one of ldd(); nothing was created yet.
SearchPanics ==
  /\ call = "search" /\ panicked
  /\ call' = "failed"
  /\ UNCHANGED <<vars, cloneVars, calls, left>>

\* install_files()
Clone ==
  /\ call = "clone"
  /\ C!Next
  /\ UNCHANGED <<vars, call, calls, left>>

CloneReturns ==
  /\ call = "clone" /\ cphase # "run"
  /\ call' = IF cphase = "ok" THEN "ok" ELSE "failed"
  /\ left' = IF cphase = "ok" THEN left ELSE left \cup (dest \ host.dest) \cup partial
  /\ UNCHANGED <<vars, cloneVars, calls>>

\* The process is killed while it clones, perhaps in the middle of copy().
Kill ==
  /\ call = "clone" /\ cphase = "run"
  /\ C!CutShort \/ UNCHANGED <<dest, partial, astray>>
  /\ call' = "failed"
  /\ left' = left \cup (dest' \ host.dest) \cup partial'
  /\ UNCHANGED <<vars, host, relaxed, stack, next, cphase, calls>>

InstallNext ==
  \/ StartCall \/ BadArgument \/ Search \/ SearchReturns \/ SearchPanics
  \/ Clone \/ CloneReturns \/ Kill

InstallSpec == InstallInit /\ [][InstallNext]_installVars

----------------------------------------------------------------------------
\* Files whose dependencies the search finds whatever was installed before (see Ldd).
Cached == (\A p \in Paths : world.rpath[p] = {}) /\ (\A n \in Names : world.cache[n] # <<>>)

\* A library for every DT_NEEDED name of p that the host has is there.
Complete(p) ==
  \A k \in DOMAIN world.needed[p] :
    LET n == world.needed[p][k]
        found == {world.cache[n][j] : j \in DOMAIN world.cache[n]} \cap world.exists
    IN  found # {} => found \cap Installed # {}

(***************************************************************************)
(* Ok means that SOURCE is installed "with all needed dependencies"        *)
(* (main.rs:31), in whatever order the earlier calls came and wherever     *)
(* they broke off: the arguments are there and whole, and every file below *)
(* DESTROOTDIR has its libraries.  The exceptions are links that lead      *)
(* elsewhere, and the files that a call which did not return Ok has left:  *)
(* the existence tests (lib.rs:125, mod.rs:151) take them for installed,   *)
(* and nothing is done again.                                              *)
(***************************************************************************)
OkMeansComplete ==
  call = "ok" /\ astray = {} =>
    /\ \A i \in DOMAIN world.args :
         world.args[i] \in Installed /\ C!Real(world.args[i]) \notin partial \ left
    /\ Cached => \A p \in Installed :
         world.kind[p] = "elf" /\ C!Real(p) \notin left => Complete(p)

(***************************************************************************)
(* A file that was installed stays whole, whatever later calls do and      *)
(* however they end: copy() would truncate it, but is not called for it;   *)
(* unless by a path that leads through a link, for which the target is     *)
(* looked for before the call for the parent has created that link.        *)
(***************************************************************************)
InstalledStaysWhole ==
  [][\A q \in partial' \ partial : q \in dest => C!Top.path # q]_installVars
=============================================================================
