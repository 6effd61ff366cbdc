-------------------------------- MODULE Copy -------------------------------
(***************************************************************************)
(* copy() of src/src/file/mod.rs as a whole: the contents (CopyFile) and,  *)
(* after owner and permissions of a regular file and before ftruncate,     *)
(* acl_copy_fd() for the extended attributes (AclCopy), whose errors are   *)
(* errors of copy(), although nothing was copied then.                     *)
(***************************************************************************)
EXTENDS CopyFile, Sequences

CONSTANTS
  Names,     \* see AclCopy
  Values,
  Length,
  Absent,
  Torn,
  Systems,
  Inputs     \* the pairs [file, sys] to consider

VARIABLES sys, attrs, dst, apc, num_bytes, names, pos, buffer, history, changes

A == INSTANCE AclCopy WITH pc <- apc

aclVars == <<sys, attrs, dst, apc, num_bytes, names, pos, buffer, history, changes>>
copyVars == <<vars, aclVars>>

ASSUME CopyAssumption ==
  /\ A!AclCopyAssumption
  /\ \A in \in Inputs : /\ in.file \in Files /\ in.sys \in Systems
                         /\ in.file.ignore_eperm = in.sys.ignore_eperm

CopyInit ==
  /\ \E in \in Inputs : file = in.file /\ sys = in.sys
  /\ Start
  /\ A!Start

\* One step of the contents.
CopyContents == Step /\ UNCHANGED aclVars

\* One step of acl_copy_fd().
CopyAttributes ==
  /\ pc = "acl"
  /\ A!Copy
  /\ UNCHANGED vars

AttributesDone ==
  /\ pc = "acl"
  /\ A!Done
  /\ pc' = IF apc = "ok" THEN "trunc" ELSE "err"
  /\ UNCHANGED <<file, avail, loopVars, callVars, fdVars, aclVars>>

Program == CopyContents \/ CopyAttributes \/ AttributesDone

\* What other processes do with the source.
OtherProcess ==
  \/ /\ \E n \in 0..MaxLen : SourceShrinks(n)
     /\ UNCHANGED aclVars
  \/ /\ pc = "acl"
     /\ \E n \in Names : \E v \in Values \cup {Absent} : A!Change(n, v)
     /\ UNCHANGED vars

CopyNext == Program \/ OtherProcess

\* One thread runs the program; nothing is assumed of other processes.
CopySpec == CopyInit /\ [][CopyNext]_copyVars /\ WF_copyVars(Program)

----------------------------------------------------------------------------
\* The variables of both functions.
CopyTypeOK == TypeOK /\ A!TypeOK

(***************************************************************************)
(* A value that arrives is one the attribute of the source had, whatever   *)
(* other processes do between the calls; only if it became shorter while   *)
(* it was copied, fsetxattr() writes bytes the kernel never returned.      *)
(***************************************************************************)
ValuesAreGenuine == A!ValuesAreGenuine

(***************************************************************************)
(* When copy() of a regular file returns Ok, an attribute that was there   *)
(* at the start is missing at the destination only for one of the reasons  *)
(* acl_copy_fd() has to pass over it in silence.                           *)
(***************************************************************************)
AttributesArrive == pc = "ok" /\ file.regular => apc = "ok" /\ A!OkMeansCopied

(***************************************************************************)
(* copy() fails for a reason: the attributes could not be copied, some     *)
(* call failed in a way that copy() has no fallback for, the file shrank,  *)
(* or it ends with a hole.                                                 *)
(***************************************************************************)
ErrorsAreExplained ==
  pc = "err" =>
    IF apc = "err" THEN A!Reason
    ELSE Environment \/ HoleAtEnd \/ avail < file.len

(***************************************************************************)
(* "Install SOURCE to DEST in DESTROOTDIR" (main.rs:31): copy() fails only *)
(* if some call failed that it has no fallback for.                        *)
(***************************************************************************)
ErrorsAreReal == pc = "err" => Environment \/ A!Reason

(***************************************************************************)
(* copy() returns.  For a file that has fewer bytes than metadata() said   *)
(* the comment in the code promises to "break early out of copy loop,      *)
(* because nothing is to be read anymore" (mod.rs:451).                    *)
(***************************************************************************)
Termination == <>(pc \in {"ok", "err"})

(***************************************************************************)
(* copy() returns for a file that has the size metadata() said, whichever  *)
(* calls it has to fall back to, at whatever turn, and however often       *)
(* attributes change.  (If the first SEEK_HOLE fails after a SEEK_DATA     *)
(* that worked, it may go on forever with empty pieces.)                   *)
(***************************************************************************)
ReadableTerminates == Readable /\ SteadySeek => Termination
=============================================================================
