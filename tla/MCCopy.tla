------------------------------- MODULE MCCopy ------------------------------
(***************************************************************************)
(* Files of up to four bytes with every layout of holes, for a destination *)
(* that can be sparse, one that cannot and one that is a device.  Two      *)
(* attributes, with values of length 0, 1 and 2.                           *)
(***************************************************************************)
EXTENDS Copy, TLC

Make(l, d, a, h, g, t, s, c, n) ==
  [len |-> l, data |-> d, avail |-> a, shrinks |-> h, prepare |-> TRUE, regular |-> g,
   chown |-> "ok", ignore_eperm |-> FALSE, trunc |-> t, seek |-> s, cfr |-> c, send |-> n,
   rw |-> {TRUE}]

Calls == {{"ok"}, {"never"}, {"notHere"}}

LayoutsTo(m) == UNION {{<<l, d>> : d \in SUBSET (0..(l - 1))} : l \in 0..m}

Layouts == LayoutsTo(MaxLen)

\* Files that do not change, where every call works or has a fallback, always.
StableFiles ==
  {Make(x[1], x[2], x[1], FALSE, TRUE, t, {s}, c, n) :
     x \in Layouts, t \in {"ok", "einval"}, s \in BOOLEAN, c \in Calls, n \in Calls}

\* Files where a call works at one time and not at another.
MixedFiles ==
  {Make(x[1], x[2], x[1], FALSE, TRUE, t, s, c, n) :
     x \in LayoutsTo(3), t \in {"ok", "einval"}, s \in {{TRUE}, BOOLEAN},
     c \in {{"never"}, {"ok", "notHere"}}, n \in {{"never"}, {"ok", "notHere"}, {"ok", "fails"}}}

\* copy_file_range does not work on devices.
DeviceFiles ==
  {Make(x[1], x[2], x[1], FALSE, FALSE, "einval", {TRUE}, {"notHere"}, n) :
     x \in Layouts, n \in Calls}

\* One of the steps fails, or may fail at any turn.
FailingFiles ==
  {[Make(3, {0, 2}, 3, FALSE, TRUE, t, {TRUE}, c, n) EXCEPT !.prepare = p, !.chown = o, !.rw = r] :
     p \in BOOLEAN, o \in {"ok", "eperm", "fails"}, t \in {"ok", "fails"},
     c \in {{"ok"}, {"never"}, {"ok", "fails"}}, n \in {{"never"}, {"fails"}},
     r \in {{TRUE}, {FALSE}, BOOLEAN}}

\* Files that are shorter than metadata() says, like those of sysfs.
ShortFiles ==
  {Make(l, 0..(l - 1), a, FALSE, TRUE, t, {TRUE}, c, n) :
     l \in {MaxLen}, a \in 0..(MaxLen - 1), t \in {"ok", "einval"},
     c \in Calls, n \in Calls}

\* Files that another process truncates.
ShrinkingFiles ==
  {Make(3, d, 3, TRUE, TRUE, t, {TRUE}, c, n) :
     d \in {{0, 1, 2}, {1, 2}, {0, 2}}, t \in {"ok", "einval"},
     c \in {{"ok"}, {"notHere"}, {"ok", "notHere"}}, n \in {{"ok"}, {"notHere"}}}

UnchangedFiles == StableFiles \cup DeviceFiles \cup FailingFiles

MCFiles == UnchangedFiles \cup MixedFiles \cup ShortFiles \cup ShrinkingFiles

----------------------------------------------------------------------------
CONSTANTS n1, n2, v0, v1, v2, w2

MCNames == {n1, n2}
MCValues == {v0, v1, v2, w2}
MCLength == (v0 :> 0) @@ (v1 :> 1) @@ (v2 :> 2) @@ (w2 :> 2)

OkGet == [n \in Names |-> "ok"]

\* File systems that refuse something, ...
RefusingSystems ==
  {[list |-> l, get |-> (n1 :> g) @@ (n2 :> "ok"), set |-> (n1 :> s) @@ (n2 :> "ok"),
    ignore_eperm |-> i, initial |-> a, max_changes |-> 1] :
     l \in {"ok", "unsupported", "fails"},
     g \in {"ok", "unsupported", "fails"},
     s \in {"ok", "eperm", "unsupported", "fails"},
     i \in BOOLEAN,
     a \in {(n1 :> v1) @@ (n2 :> v2), (n1 :> v1) @@ (n2 :> Absent)}}

\* ... and ones that refuse nothing, with all attributes.
WillingSystems ==
  {[list |-> "ok", get |-> OkGet, set |-> OkGet, ignore_eperm |-> FALSE, initial |-> a,
    max_changes |-> 2] :
     a \in [Names -> Values \cup {Absent}]}

MCSystems == RefusingSystems \cup WillingSystems

----------------------------------------------------------------------------
\* No attributes.
PlainSystem ==
  [list |-> "unsupported", get |-> OkGet, set |-> OkGet, ignore_eperm |-> FALSE,
   initial |-> [n \in Names |-> Absent], max_changes |-> 0]

\* A file of a user that is not root.
UserFile(o, i) ==
  [Make(1, {0}, 1, FALSE, TRUE, "ok", {TRUE}, {"ok"}, {"ok"}) EXCEPT !.chown = o, !.ignore_eperm = i]

\* Every file without attributes, and every system with one file.
MCInputs ==
  [file : MCFiles, sys : {PlainSystem}] \cup
  {[file |-> UserFile(IF s.ignore_eperm THEN "eperm" ELSE "ok", s.ignore_eperm), sys |-> s] :
     s \in MCSystems}

StableInputs == [file : StableFiles, sys : {PlainSystem}]

ShortInputs == [file : ShortFiles, sys : {PlainSystem}]

AllFiles == {in.file : in \in MCInputs}

AllSystems == MCSystems \cup {PlainSystem}
=============================================================================
