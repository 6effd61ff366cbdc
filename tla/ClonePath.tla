----------------------------- MODULE ClonePath -----------------------------
(***************************************************************************)
(* install_files() of src/src/lib.rs and clone_path() of                   *)
(* src/src/file/mod.rs: every file is copied to DESTROOTDIR after its      *)
(* parent directories, and a symbolic link after what it leads to.         *)
(*                                                                         *)
(* clone_path() is recursive, so a state has a stack of calls.  A path is  *)
(* the sequence of its components, a way through the host's file system;   *)
(* `real` is the same file without symbolic links and ".." on the way to   *)
(* it, and DESTROOTDIR is the set of the real paths that exist below it.   *)
(* A path exists there if its real path and all that its directory leads   *)
(* through (`via`) do, and no link on the way leads elsewhere.             *)
(*                                                                         *)
(* copy() opens the target, with create and truncate, before it does what  *)
(* may fail, so that an error leaves a file that is there but not whole    *)
(* (`partial`); the test for the target does not tell it from others.      *)
(*                                                                         *)
(* An error is passed on with `?` by every caller, so it ends all calls at *)
(* once.  The frames of the calls are not unbounded: MaxDepth stands for   *)
(* the size of the thread's stack.                                         *)
(***************************************************************************)
EXTENDS RelPath

Seqs == INSTANCE SequencesExt

CONSTANTS
  Paths,      \* paths of the host
  MaxDepth,   \* calls of clone_path() that fit on the stack
  Hosts       \* the hosts, and what was installed before, to consider

Kinds == {"dir", "file", "link", "special", "missing"}

Root == <<>>

Parent(p) == SubSeq(p, 1, Len(p) - 1)

\* All that a path leads through, the file itself included.
Way(h, p) == h.via[p] \cup {h.real[p]}

\* As the kernel resolves paths.
Host(h) ==
  /\ h \in [ real     : [Paths -> Paths],
             dir      : [Paths -> Paths],         \* the real directory that the parent is
             via      : [Paths -> SUBSET Paths],  \* what the directory leads through
             kind     : [Paths -> Kinds],         \* lstat()
             link     : [Paths -> Paths],         \* read_link(), made absolute
             readonly : SUBSET Paths,             \* directories without write permission
             chmodErr : SUBSET Paths,             \* directories whose permissions cannot be set
             createErr : SUBSET Paths,            \* mkdir(), symlink() or copy() fails
             dest     : SUBSET Paths,             \* what is below DESTROOTDIR already
             files    : Seq(Paths) ]
  /\ \A q \in h.dest : h.real[q] = q /\ h.via[q] \subseteq h.dest   \* a tree
  /\ \A p \in Paths :
       LET q == h.real[p]
       IN  /\ h.real[q] = q /\ h.kind[q] = h.kind[p] /\ h.via[q] \subseteq h.via[p]
           /\ p # Root => Way(h, Parent(p)) \subseteq h.via[p]
           /\ q = p /\ p # Root =>   \* only through its parents, none of them a link
                /\ h.real[Parent(p)] = Parent(p) /\ h.via[p] = Way(h, Parent(p))
                /\ \A r \in h.via[p] : h.kind[r] # "link"
           /\ h.kind[p] = "link" =>   \* by any path, a link leads to one file in one way
                /\ h.real[h.link[q]] = h.real[h.link[p]] /\ h.via[h.link[q]] \subseteq h.via[h.link[p]]
                /\ h.link[p] = Root => h.link[q] = Root
                /\ \A a \in Paths :
                     Seqs!IsPrefix(a, h.link[p]) /\ ~Seqs!IsPrefix(a, Parent(p)) =>
                       h.real[a] \in Way(h, h.link[q])

HostsAreTrees ==
  /\ Paths \subseteq Seq(STRING) /\ Root \in Paths
  /\ \A p \in Paths \ {Root} : Parent(p) \in Paths
  /\ MaxDepth \in Nat
  /\ \A h \in Hosts : Host(h)

ASSUME ClonePathAssumption == HostsAreTrees

(***************************************************************************)
(* A call: not started, returned from the call for the parent, about to    *)
(* create the target, or in the call for what the link leads to.  A call   *)
(* may have made the target's directory writable.                          *)
(***************************************************************************)
Frame == [path : Paths, at : {"start", "parent", "create", "link"}, relaxed : BOOLEAN]

VARIABLES
  host,      \* the host (constant)
  dest,      \* real paths that exist below DESTROOTDIR
  partial,   \* files among them that are not whole
  astray,    \* links among them that do not lead to what they lead to on the host
  relaxed,   \* read-only directories of dest that are writable now
  stack,     \* calls of clone_path()
  next,      \* the next file of install_files()
  phase      \* "run", "ok", "error", "panic" or "overflow"

tree == <<dest, partial, astray, relaxed>>   \* DESTROOTDIR
vars == <<host, tree, stack, next, phase>>

Real(p) == host.real[p]

\* The real directory that holds p.
DirOf(p) == host.dir[p]

\* The directory that p is to be created in can be reached.
Reachable(p) ==
  /\ host.via[p] \subseteq dest
  /\ host.via[p] \cap astray = {}

\* Mutant of Visible: files are always copied.
Visible_Dirs(p) == Reachable(p) /\ Real(p) \in dest /\ host.kind[p] = "dir"

\* target.symlink_metadata().is_ok()
Visible(p) == Reachable(p) /\ Real(p) \in dest

\* install_files() is called.
Start == stack = <<>> /\ next = 1 /\ phase = "run"

Init ==
  /\ host \in Hosts
  /\ dest = host.dest
  /\ partial = {}
  /\ astray = {}
  /\ relaxed = {}
  /\ Start

----------------------------------------------------------------------------
Call(p) == [path |-> p, at |-> "start", relaxed |-> FALSE]

Top == stack[Len(stack)]

Below == SubSeq(stack, 1, Len(stack) - 1)

Replace(f) == [stack EXCEPT ![Len(stack)] = f]

At(stage) == phase = "run" /\ stack # <<>> /\ Len(stack) <= MaxDepth /\ Top.at = stage

\* Mutant of Following: the loop does not go on to the next file.
Following_Same == next

Following == next + 1

\* The loop of install_files().
InstallNext ==
  /\ phase = "run" /\ stack = <<>> /\ next <= Len(host.files)
  /\ stack' = <<Call(host.files[next])>>
  /\ next' = Following
  /\ UNCHANGED <<host, tree, phase>>

AllInstalled ==
  /\ phase = "run" /\ stack = <<>> /\ next > Len(host.files)
  /\ phase' = "ok"
  /\ UNCHANGED <<host, tree, stack, next>>

Overflow ==
  /\ phase = "run" /\ Len(stack) > MaxDepth
  /\ phase' = "overflow"
  /\ UNCHANGED <<host, tree, stack, next>>

----------------------------------------------------------------------------
(***************************************************************************)
(* clone_path().                                                           *)
(***************************************************************************)

\* The target exists; or the source is "/", for which nothing is created.
AlreadyThere ==
  /\ At("start")
  /\ Visible(Top.path) \/ Top.path = Root
  /\ stack' = Below
  /\ UNCHANGED <<host, tree, next, phase>>

\* Mutant of ParentCall: the parent is taken to exist.
ParentCall_None == <<>>

ParentCall == <<Call(Parent(Top.path))>>

CloneParent ==
  /\ At("start")
  /\ ~Visible(Top.path) /\ Top.path # Root
  /\ stack' = Replace([Top EXCEPT !.at = "parent"]) \o ParentCall
  /\ UNCHANGED <<host, tree, next, phase>>

\* Mutant of Error: the error is not passed on.
Error_Ignored == stack' = Below /\ UNCHANGED <<host, next, phase>>

Error == stack' = <<>> /\ phase' = "error" /\ UNCHANGED <<host, next>>

NoSource ==
  /\ At("parent") /\ host.kind[Top.path] = "missing"
  /\ Error
  /\ UNCHANGED tree

\* The target's directory exists and is read-only.
ReadOnly(p) == Reachable(p) /\ DirOf(p) \in host.readonly \ relaxed

\* The first set_permissions() fails.  (The last one, for the same directory, does not.)
RelaxFails ==
  /\ At("parent") /\ host.kind[Top.path] # "missing"
  /\ ReadOnly(Top.path) /\ DirOf(Top.path) \in host.chmodErr
  /\ Error
  /\ UNCHANGED tree

\* Such a directory is made writable.
RelaxParent ==
  /\ At("parent") /\ host.kind[Top.path] # "missing"
  /\ ReadOnly(Top.path) => DirOf(Top.path) \notin host.chmodErr
  /\ relaxed' = IF ReadOnly(Top.path) THEN relaxed \cup {DirOf(Top.path)} ELSE relaxed
  /\ stack' = Replace([Top EXCEPT !.at = "create", !.relaxed = ReadOnly(Top.path)])
  /\ UNCHANGED <<host, dest, partial, astray, next, phase>>

\* Mutant of Is: without the test for the kind of file.
Is_Any(kind) == At("create")

Is(kind) == At("create") /\ host.kind[Top.path] = kind

\* Mutant of LinkCall: the link is created without what it leads to.
LinkCall_None == <<>>

\* Mutant of LinkCall: the call is for the link again.
LinkCall_Source == <<Call(Top.path)>>

LinkCall == <<Call(host.link[Top.path])>>

FollowLink ==
  /\ Is("link")
  /\ stack' = Replace([Top EXCEPT !.at = "link"]) \o LinkCall
  /\ UNCHANGED <<host, tree, next, phase>>

\* Mutant of Restored: an early return, without the last set_permissions().
Restored_Not == relaxed

\* The last set_permissions().
Restored == IF Top.relaxed THEN relaxed \ {DirOf(Top.path)} ELSE relaxed

Created ==
  /\ dest' = dest \cup {Real(Top.path)}
  /\ partial' = partial \ {Real(Top.path)}
  /\ relaxed' = Restored
  /\ stack' = Below
  /\ UNCHANGED <<host, next, phase>>

NotCreated ==
  /\ Error
  /\ relaxed' = Restored
  /\ UNCHANGED <<dest, partial, astray>>

\* symlink() and mkdir() fail if the target exists, all if its directory does
\* not.
Exists(p) == Real(p) \in dest

\* Mutant of RelPathOf: compared with the link, not with its directory.
RelPathOf_Target(p) == ConvertAbsRel(host.link[p], p)

\* ln_r(): the relative path for the link.
RelPathOf(p) == ConvertAbsRel(host.link[p], Parent(p))

\* A link to its own directory, or to one above it on the same way: symlink() refuses an
\* empty path.
Unlinkable(p) == RelPathOf(p) = [ups |-> 0, rest |-> <<>>]

Leads(p) == LeadsTo(DirOf(p), RelPathOf(p))

LeadsAstray(p) == Leads(p) \notin Paths \/ Real(Leads(p)) # Real(host.link[p])

CreateLink ==
  /\ At("link")
  /\ IF /\ Reachable(Top.path) /\ ~Exists(Top.path) /\ ~Unlinkable(Top.path)
        /\ Top.path \notin host.createErr
     THEN /\ Created
          /\ astray' = IF LeadsAstray(Top.path) THEN astray \cup {Real(Top.path)} ELSE astray
     ELSE NotCreated

CreateDir ==
  /\ Is("dir")
  /\ IF Reachable(Top.path) /\ ~Exists(Top.path) /\ Top.path \notin host.createErr
     THEN Created /\ UNCHANGED astray ELSE NotCreated

CopyFile ==
  /\ Is("file")
  /\ IF Reachable(Top.path) /\ Top.path \notin host.createErr
     THEN Created /\ UNCHANGED astray ELSE NotCreated

\* copy() was under way, and has opened the target.
CutShort ==
  /\ Is("file") /\ Reachable(Top.path)
  /\ dest' = dest \cup {Real(Top.path)}
  /\ partial' = partial \cup {Real(Top.path)}
  /\ UNCHANGED astray

CopyFails ==
  /\ CutShort
  /\ Top.path \in host.createErr
  /\ Error
  /\ relaxed' = Restored

Unimplemented ==
  /\ Is("special")
  /\ phase' = "panic"
  /\ UNCHANGED <<host, tree, stack, next>>

Next ==
  \/ InstallNext \/ AllInstalled \/ Overflow
  \/ AlreadyThere \/ CloneParent \/ NoSource \/ RelaxFails \/ RelaxParent
  \/ FollowLink \/ CreateLink \/ CreateDir \/ CopyFile \/ CopyFails \/ Unimplemented

Spec == Init /\ [][Next]_vars

\* One thread runs the program.
FairSpec == Spec /\ WF_vars(Next)

----------------------------------------------------------------------------
\* The frames of clone_path(); only a link reaches the branch for links, and / is never cloned.
TypeOK ==
  /\ dest \subseteq Paths
  /\ partial \subseteq dest /\ astray \subseteq dest
  /\ relaxed \subseteq Paths
  /\ stack \in Seq(Frame)
  /\ next \in Nat \ {0}
  /\ phase \in {"run", "ok", "error", "panic", "overflow"}
  /\ \A k \in 1..Len(stack) :
       /\ stack[k].at # "start" => stack[k].path # Root
       /\ stack[k].at = "link" => host.kind[stack[k].path] = "link"

(***************************************************************************)
(* A link is created after what it leads to, so that at no time, not even  *)
(* after an error, a link below DESTROOTDIR leads to nothing; unless it is *)
(* one that convert_abs_rel() gets wrong.                                  *)
(***************************************************************************)
NoDanglingLink ==
  \A q \in dest \ astray :
    q \notin host.dest /\ host.kind[q] = "link" =>
      Visible(host.link[q]) \/ host.link[q] = Root

(***************************************************************************)
(* When install_files() returns Ok, every file it was asked for can be     *)
(* reached below DESTROOTDIR by the same path, and no copy that failed on  *)
(* the way has left a file that is not whole.                              *)
(***************************************************************************)
OkMeansInstalled ==
  phase = "ok" =>
    /\ \A k \in 1..Len(host.files) : Visible(host.files[k]) \/ host.files[k] = Root
    /\ partial = {}

(***************************************************************************)
(* A directory is writable only as long as a call that made it so is       *)
(* active; after Ok, the permissions are those of the host.  An error      *)
(* below a link (mod.rs:188) leaves them changed.                          *)
(***************************************************************************)
PermissionsRestored ==
  phase \in {"run", "ok"} =>
    \A d \in relaxed : \E k \in 1..Len(stack) :
      stack[k].relaxed /\ DirOf(stack[k].path) = d

(***************************************************************************)
(* The reasons for an error that lie outside of clone_path(): a file that  *)
(* does not exist (perhaps behind a link), a system call that fails for    *)
(* the reasons of its own, a link with a wrong or empty relative path, no  *)
(* DESTROOTDIR.                                                            *)
(***************************************************************************)
RealReason ==
  \/ \E p \in Paths : host.kind[p] = "missing"
  \/ host.chmodErr # {} \/ host.createErr # {}
  \/ astray # {}
  \/ \E p \in Paths : host.kind[p] = "link" /\ Unlinkable(p)
  \/ Root \notin host.dest

\* The paths clone_path() is called for, other than as a parent.
Used ==
  {host.files[k] : k \in 1..Len(host.files)} \cup
  {host.link[p] : p \in {q \in Paths : host.kind[q] = "link"}}

(***************************************************************************)
(* Without such a reason clone_path() fails only if a path it is called    *)
(* for leads through a link: the test for the target at the top is out of  *)
(* date once the call for the parent has created that link.                *)
(***************************************************************************)
ErrorsAreExplained ==
  phase = "error" => RealReason \/ \E p \in Used : Real(p) # p

(***************************************************************************)
(* A link leads astray only if its path and what it leads to are not       *)
(* aligned, or if its directory was reached through another link, where    *)
(* the path that was compared is not where the link is.                    *)
(***************************************************************************)
AstrayIsMisaligned ==
  \A q \in astray : \E p \in Paths :
    /\ Real(p) = q
    /\ ~Aligned(host.link[p], Parent(p)) \/ Parent(p) # DirOf(p)

(***************************************************************************)
(* An installed link leads to what it leads to on the host, as the tests   *)
(* of convert_abs_rel (mod.rs:503-518) have it for three pairs of paths.   *)
(***************************************************************************)
LinksLeadToSource == astray = {}

\* Links that can only be followed by following one of them.
LinkCycle ==
  \E links \in SUBSET {p \in Paths : host.kind[p] = "link"} :
    links # {} /\ \A p \in links : Way(host, host.link[p]) \cap links # {}

(***************************************************************************)
(* clone_path() has no limit on links.  It calls itself for a path that it *)
(* is already working on, and in the end overflows the stack, only if the  *)
(* host has links that lead back to themselves.                            *)
(***************************************************************************)
RecursionMeansCycle ==
  (\E j, k \in 1..Len(stack) : j # k /\ stack[j].path = stack[k].path) => LinkCycle

(***************************************************************************)
(* install_files() comes to an end, for a host without such links.         *)
(***************************************************************************)
Termination == LinkCycle \/ <>(phase \in {"ok", "error", "panic"})
=============================================================================
