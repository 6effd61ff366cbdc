---------------------------- MODULE MCClonePath ----------------------------
(***************************************************************************)
(* A host with /lib -> /usr/lib, two links in /usr/bin and one to /lib.    *)
(***************************************************************************)
EXTENDS ClonePath

Usr == <<"usr">>
UsrLib == <<"usr", "lib">>
D == <<"usr", "lib", "d">>
F == <<"usr", "lib", "d", "f">>
Bin == <<"usr", "bin">>
L == <<"usr", "bin", "l">>
C == <<"usr", "bin", "c">>
K == <<"usr", "lib", "d", "k">>
Lib == <<"lib">>
LibD == <<"lib", "d">>
LibDF == <<"lib", "d", "f">>
LibDK == <<"lib", "d", "k">>
Up == <<"usr", "bin", "..">>
UpLib == <<"usr", "bin", "..", "lib">>
UpLibD == <<"usr", "bin", "..", "lib", "d">>

MCPaths == {Root, Usr, UsrLib, D, F, Bin, L, C, K, Lib, LibD, LibDF, LibDK, Up, UpLib, UpLibD}

MCReal ==
  [p \in MCPaths |-> CASE p = LibD -> D [] p = LibDF -> F [] p = LibDK -> K [] p = Up -> Usr
                       [] p = UpLib -> UsrLib [] p = UpLibD -> D [] OTHER -> p]

\* The parent of p, with /lib followed.
MCDir ==
  [p \in MCPaths |-> IF p = Root THEN Root
                     ELSE IF Parent(p) = Lib THEN UsrLib ELSE MCReal[Parent(p)]]

\* A path leads through its parent, and one below /lib through /usr/lib too.
MCVia[p \in MCPaths] ==
  IF p = Root THEN {}
  ELSE MCVia[Parent(p)] \cup {MCReal[Parent(p)], MCDir[p]}
         \cup (IF Parent(p) = Lib THEN MCVia[UsrLib] ELSE {})

\* k leads to f by its name, or anywhere else by an absolute path.
MakeHost(c) ==
  [ real |-> MCReal, dir |-> MCDir, via |-> MCVia,
    kind |-> [p \in MCPaths |->
                CASE p \in {Lib, L, C, K, LibDK} -> "link" [] p \in {F, LibDF} -> c.f [] OTHER -> "dir"],
    link |-> [p \in MCPaths |->
                CASE p = Lib -> UsrLib [] p = L -> c.l [] p = C -> c.c [] p = K -> c.k
                  [] p = LibDK -> IF c.k = F THEN LibDF ELSE c.k [] OTHER -> Root],
    readonly |-> c.readonly, chmodErr |-> c.chmodErr, createErr |-> c.createErr,
    dest |-> c.dest, files |-> c.files ]

FileLists == {<<>>, <<L>>, <<F, L>>, <<LibDF, F>>, <<C, D>>, <<L, C>>, <<UpLibD, L>>, <<K, L>>,
              <<LibDK, K>>}

\* Links that lead to a file or a directory directly, through others or
\* through "..", rightly or not, with read-only directories.
LinkCases ==
  [ f : {"file"},
    l : {F, LibDF, D, UpLibD, Lib, C, L, LibDK, Root},
    c : {F, L},
    k : {F, Lib, L},
    readonly : {{}, {UsrLib, Bin}},
    chmodErr : {{}},
    createErr : {{}},
    dest : {{}, {Root}, {Root, Usr, UsrLib, D}},
    files : FileLists ]

\* Files that cannot be copied, directories and links that cannot be created, and
\* permissions that cannot be set.
FailCases ==
  [ f : {"file", "special", "missing"},
    l : {F, LibDF, Lib},
    c : {F},
    k : {Lib},
    readonly : {{}, {Bin, D}},
    chmodErr : {{}, {D}},
    createErr : {{}, {F}, {L, D}},
    dest : {{Root}},
    files : FileLists ]

MCHosts == {MakeHost(c) : c \in LinkCases \cup FailCases}

\* k leads to /lib, in a directory above its own; the copy leads to /usr/lib/lib.
StrayCase ==
  [ f |-> "file", l |-> F, c |-> F, k |-> Lib, readonly |-> {}, chmodErr |-> {}, createErr |-> {},
    dest |-> {Root}, files |-> <<K>> ]

StrayHosts == {MakeHost(StrayCase)}

----------------------------------------------------------------------------
\* All paths of up to four components with two names.
SmallPaths == UNION {[1..i -> {"a", "b"}] : i \in 0..4}

ASSUME RelPathIsRight == \A source, dir \in SmallPaths : RightForAligned(source, dir)
=============================================================================
