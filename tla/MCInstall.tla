------------------------------ MODULE MCInstall ----------------------------
(***************************************************************************)
(* /usr/bin with programs p1 and p2, /usr/lib64 with the library a, a link *)
(* to a.1, and the library b; /lib64 is a link to /usr/lib64.              *)
(***************************************************************************)
EXTENDS InstallFilesLdd

Root == <<>>
Usr == <<"usr">>
Bin == <<"usr", "bin">>
Lib == <<"usr", "lib64">>
P1 == <<"usr", "bin", "p1">>
P2 == <<"usr", "bin", "p2">>
A == <<"usr", "lib64", "a">>
A1 == <<"usr", "lib64", "a.1">>
B == <<"usr", "lib64", "b">>
Link == <<"lib64">>
LinkA1 == <<"lib64", "a.1">>

MCPaths == {Root, Usr, Bin, Lib, P1, P2, A, A1, B, Link, LinkA1}
MCNames == {"a", "b"}
MCDirs == {"lib64"}
MCJoined == [d \in MCDirs |-> [n \in MCNames |-> Lib \o <<n>>]]
MCDefaultLibdirs == <<"lib64">>

MCVia[p \in MCPaths] ==
  IF p = Root THEN {}
  ELSE IF p = LinkA1 THEN MCVia[A1] \cup {Link}
  ELSE LET parent == SubSeq(p, 1, Len(p) - 1) IN {parent} \cup MCVia[parent]

\* a leads to a.1, in the same directory or through /lib64.
MakeHost(a, createErr) ==
  [ real |-> [p \in MCPaths |-> IF p = LinkA1 THEN A1 ELSE p],
    dir |-> [p \in MCPaths |-> IF p = LinkA1 THEN Lib
                               ELSE IF p = Root THEN Root ELSE SubSeq(p, 1, Len(p) - 1)],
    via |-> MCVia,
    kind |-> [p \in MCPaths |-> CASE p \in {A, Link} -> "link" [] p \in {Root, Usr, Bin, Lib} -> "dir"
                                  [] OTHER -> "file"],
    link |-> [p \in MCPaths |-> CASE p = A -> a [] p = Link -> Lib [] OTHER -> Root],
    readonly |-> {Lib}, chmodErr |-> {}, createErr |-> createErr, dest |-> {Root}, files |-> <<>> ]

\* p1 needs a, p2 needs both; a needs b, and perhaps b needs a.
MakeWorld(b, cache, kinds) ==
  [ exists |-> MCPaths, dest |-> {Root}, kind |-> kinds,
    needed |-> [p \in MCPaths |-> CASE p = P1 -> <<"a">> [] p = P2 -> <<"b", "a">>
                                    [] p \in {A, A1, LinkA1} -> <<"b">> [] p = B -> b
                                    [] OTHER -> <<>>],
    rpath |-> [p \in MCPaths |-> {}],
    cache |-> [n \in MCNames |-> IF cache THEN <<Lib \o <<n>>>> ELSE <<>>],
    args |-> <<>> ]

Elf == [p \in MCPaths |-> IF p \in {P1, P2, A, A1, LinkA1, B} THEN "elf" ELSE "notElf"]

MCWorlds ==
  {MakeWorld(b, TRUE, Elf) : b \in {<<>>, <<"a">>}} \cup
  {MakeWorld(<<>>, FALSE, [Elf EXCEPT ![B] = "badDynamic"])}

MCHosts == {MakeHost(a, ce) : a \in {A1, LinkA1}, ce \in {{A1}, {B, LinkA1}}}

\* Three calls; /lib64/a.1 is another name of an argument, "/" is none.
MCInputs ==
  [world : MCWorlds, host : MCHosts,
   calls : {<<a>> \o l : a \in {<<P1>>, <<P2, P1>>, <<LinkA1>>, <<P2, Root>>},
                         l \in {<<<<P1>>, <<P2>>>>, <<<<P2>>, <<P1>>>>, <<<<P1>>, <<LinkA1>>>>}}]
=============================================================================
