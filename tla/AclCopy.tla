------------------------------ MODULE AclCopy ------------------------------
(***************************************************************************)
(* acl_copy_fd() of src/src/acl/mod.rs: the extended attributes of a file  *)
(* are listed and copied one by one.                                       *)
(*                                                                         *)
(* Every system call is made twice, once for the size and once for the     *)
(* data, and other processes may change the attributes of the source in    *)
(* between.  A value is a model value with a length; the bytes of a buffer *)
(* that no call has filled are the value Torn.                             *)
(***************************************************************************)
EXTENDS Naturals, Sequences, FiniteSets

CONSTANTS
  Names,        \* names of attributes
  Values,       \* values of attributes
  Length,       \* Length[v]: size of a value
  Absent,       \* an attribute that is not set
  Torn,         \* a value with bytes of uninitialized memory
  Systems       \* what the two file systems allow

System ==
  [ list         : {"ok", "unsupported", "fails"},            \* flistxattr
    get          : [Names -> {"ok", "unsupported", "fails"}], \* fgetxattr
    set          : [Names -> {"ok", "eperm", "unsupported", "fails"}],
    ignore_eperm : BOOLEAN,
    initial      : [Names -> Values \cup {Absent}],
    max_changes  : Nat ]   \* bound on the changes other processes make

AclCopyAssumption ==
  /\ IsFiniteSet(Names)
  /\ Length \in [Values -> Nat]
  /\ \A u, v \in Values : Length[u] = 0 /\ Length[v] = 0 => u = v   \* the empty value
  /\ Absent \notin Values /\ Torn \notin Values /\ Absent # Torn
  /\ Systems \subseteq System

VARIABLES
  sys,         \* the file systems (constant)
  attrs,       \* attributes of the source
  dst,         \* attributes of the destination
  pc,          \* "size", "list", "getSize", "getValue", "set", "ok" or "err"
  num_bytes,   \* size of the list of names, later of a value
  names,       \* the names listed
  pos,         \* the loop over the names
  buffer,      \* the value read
  history,     \* the values each attribute of the source had, Absent included
  changes      \* changes made by other processes

source == <<sys, attrs, history, changes>>
vars == <<sys, attrs, dst, pc, num_bytes, names, pos, buffer, history, changes>>

Present == {n \in Names : attrs[n] # Absent}

\* Orders in which flistxattr can list the names.
Listings(S) ==
  {s \in [1..Cardinality(S) -> S] : \A n \in S : \E k \in DOMAIN s : s[k] = n}

\* Nothing is listed yet.
Start ==
  /\ attrs = sys.initial /\ dst = [n \in Names |-> Absent]
  /\ pc = "size" /\ num_bytes = 0 /\ names = <<>> /\ pos = 1 /\ buffer = Absent
  /\ history = [n \in Names |-> {sys.initial[n]}] /\ changes = 0

Init == sys \in Systems /\ Start

Done == pc \in {"ok", "err"}

\* Another process sets or removes (v = Absent) an attribute.
Change(n, v) ==
  /\ ~Done
  /\ changes < sys.max_changes
  /\ attrs[n] # v
  /\ attrs' = [attrs EXCEPT ![n] = v]
  /\ history' = [history EXCEPT ![n] = @ \cup {v}]
  /\ changes' = changes + 1
  /\ UNCHANGED <<sys, dst, pc, num_bytes, names, pos, buffer>>

----------------------------------------------------------------------------
(***************************************************************************)
(* acl_copy_fd().  ENODATA and EOPNOTSUPP of the calls on the source end   *)
(* it with Ok, all other errors with Err.                                  *)
(***************************************************************************)
Return(result) ==
  /\ pc' = result
  /\ UNCHANGED <<source, dst, num_bytes, names, pos, buffer>>

ReturnError(result) == Return(IF result = "unsupported" THEN "ok" ELSE "err")

ListFails == pc \in {"size", "list"} /\ sys.list # "ok" /\ ReturnError(sys.list)

ListSize ==
  /\ pc = "size" /\ sys.list = "ok"
  /\ num_bytes' = Cardinality(Present)
  /\ pc' = IF num_bytes' > 0 THEN "list" ELSE "ok"
  /\ UNCHANGED <<source, dst, names, pos, buffer>>

\* ERANGE: attributes were added.
ListGrown == pc = "list" /\ Cardinality(Present) > num_bytes /\ Return("err")

List ==
  /\ pc = "list" /\ Cardinality(Present) <= num_bytes
  /\ \E s \in Listings(Present) : names' = s
  /\ pc' = "getSize"
  /\ UNCHANGED <<source, dst, num_bytes, pos, buffer>>

Name == names[pos]

Looping(stage) == pc = stage /\ pos <= Len(names)

AllCopied == pc = "getSize" /\ pos > Len(names) /\ Return("ok")

GetFails ==
  /\ Looping("getSize") \/ Looping("getValue")
  /\ sys.get[Name] # "ok"
  /\ ReturnError(sys.get[Name])

\* Mutant of WhenGone: the attribute keeps the last value that was read.
WhenGone_Continues == "set"

\* ENODATA: the attribute was removed; the rest of the names is not looked at.
WhenGone == "ok"

GetGone ==
  /\ Looping("getSize") \/ Looping("getValue")
  /\ sys.get[Name] = "ok" /\ attrs[Name] = Absent
  /\ Return(WhenGone)

Getting(stage) == Looping(stage) /\ sys.get[Name] = "ok" /\ attrs[Name] # Absent

GetSize ==
  /\ Getting("getSize")
  /\ num_bytes' = Length[attrs[Name]]
  /\ pc' = "getValue"
  /\ UNCHANGED <<source, dst, names, pos, buffer>>

\* ERANGE; a size of 0 is no limit, it asks for the size again.
GetGrown ==
  /\ Getting("getValue")
  /\ num_bytes # 0 /\ Length[attrs[Name]] > num_bytes
  /\ Return("err")

\* What fsetxattr will find in num_bytes bytes of the buffer: the value, or, if
\* it has become shorter, whatever memory holds behind it.
BufferOf(v) ==
  IF num_bytes = 0 THEN {u \in Values : Length[u] = 0}
  ELSE IF Length[v] = num_bytes THEN {v}
  ELSE {Torn} \cup {u \in Values : Length[u] = num_bytes}

GetValue ==
  /\ Getting("getValue")
  /\ num_bytes = 0 \/ Length[attrs[Name]] <= num_bytes
  /\ \E b \in BufferOf(attrs[Name]) : buffer' = b
  /\ pc' = "set"
  /\ UNCHANGED <<source, dst, num_bytes, names, pos>>

Ignored(n) ==
  \/ sys.set[n] = "unsupported"
  \/ sys.set[n] = "eperm" /\ sys.ignore_eperm

\* Mutant of AfterSet: EPERM ends the loop with Ok.
AfterSet_Returns == IF Ignored(Name) THEN "ok" ELSE "getSize"

AfterSet == "getSize"

Copied ==
  /\ pos' = pos + 1
  /\ pc' = AfterSet
  /\ UNCHANGED <<source, num_bytes, names, buffer>>

SetValue ==
  /\ Looping("set") /\ sys.set[Name] = "ok"
  /\ dst' = [dst EXCEPT ![Name] = buffer]
  /\ Copied

SetIgnored == Looping("set") /\ Ignored(Name) /\ Copied /\ UNCHANGED dst

SetFails ==
  /\ Looping("set") /\ sys.set[Name] \in {"eperm", "fails"} /\ ~Ignored(Name)
  /\ Return("err")

Copy ==
  \/ ListFails \/ ListSize \/ ListGrown \/ List \/ AllCopied
  \/ GetFails \/ GetGone \/ GetSize \/ GetGrown \/ GetValue
  \/ SetValue \/ SetIgnored \/ SetFails

Next == Copy \/ \E n \in Names : \E v \in Values \cup {Absent} : Change(n, v)

Spec == Init /\ [][Next]_vars

----------------------------------------------------------------------------
\* The loop of acl_copy_fd() stays inside the list, and fsetxattr has a buffer to write.
TypeOK ==
  /\ attrs \in [Names -> Values \cup {Absent}]
  /\ dst \in [Names -> Values \cup {Absent, Torn}]
  /\ pc \in {"size", "list", "getSize", "getValue", "set", "ok", "err"}
  /\ num_bytes \in Nat
  /\ names \in Seq(Names)
  /\ pos \in 1..(Len(names) + 1)
  /\ buffer \in Values \cup {Absent, Torn}
  /\ history \in [Names -> SUBSET (Values \cup {Absent})]
  /\ changes \in 0..sys.max_changes
  /\ pc \in {"getValue", "set"} => pos <= Len(names)
  /\ pc = "set" => buffer # Absent

(***************************************************************************)
(* A value that arrives is one the attribute of the source had, whatever   *)
(* other processes do between the calls; only if it became shorter while   *)
(* it was copied, fsetxattr() writes bytes the kernel never returned.      *)
(***************************************************************************)
ValuesAreGenuine ==
  \A n \in Names :
    dst[n] # Absent =>
      \/ dst[n] \in history[n]
      \/ \E u, v \in history[n] \ {Absent} : Length[v] < Length[u]

\* An attribute of the source was removed on the way.
Vanished(n) ==
  /\ Absent \in history[n] /\ history[n] # {Absent}
  /\ attrs[n] = Absent \/ sys.initial[n] # Absent

(***************************************************************************)
(* When acl_copy_fd() returns Ok, an attribute that was there at the start *)
(* is missing at the destination only if setting it was refused in a way   *)
(* that is to be ignored, if the source cannot be read, or if some         *)
(* attribute, it may be another one, vanished: ENODATA makes the function  *)
(* return Ok without copying the rest.  Additions and changes of values by *)
(* other processes do not lead to a loss.                                  *)
(***************************************************************************)
OkMeansCopied ==
  pc = "ok" =>
    \/ sys.list = "unsupported"
    \/ \E n \in Names : sys.get[n] = "unsupported"
    \/ \E n \in Names : Vanished(n)
    \/ \A n \in Names : sys.initial[n] # Absent => dst[n] # Absent \/ Ignored(n)

\* An attribute was added on the way, so the list of names may be too long.
Added(n) == Absent \in history[n] /\ attrs[n] # Absent

\* A value has become longer than an earlier one that was not empty.
Grown(n) ==
  /\ attrs[n] # Absent
  /\ \E u \in history[n] \ {Absent} : 0 < Length[u] /\ Length[u] < Length[attrs[n]]

(***************************************************************************)
(* The reasons for an error: a system call failed with an error that is    *)
(* not to be ignored, or an attribute grew or was added between two calls. *)
(* An attribute that was removed, or whose value became shorter or other,  *)
(* is none.                                                                *)
(***************************************************************************)
Reason ==
  \/ sys.list = "fails"
  \/ \E n \in Names : sys.get[n] = "fails"
  \/ \E n \in Names : sys.set[n] = "fails" \/ (sys.set[n] = "eperm" /\ ~sys.ignore_eperm)
  \/ \E n \in Names : Added(n) \/ Grown(n)
=============================================================================
