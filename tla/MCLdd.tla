------------------------------- MODULE MCLdd -------------------------------
(***************************************************************************)
(* Small file systems for Ldd.  A path is a pair <<directory, name>>; two  *)
(* programs and two library names, three library directories of which the  *)
(* last two are the default ones.                                          *)
(***************************************************************************)
EXTENDS Ldd

S == INSTANCE ReplaceSlice

MCNames == {"a", "b"}
MCDirs == {"x", "y", "lib64"}
MCJoined == [d \in MCDirs |-> [n \in MCNames |-> <<d, n>>]]
MCDefaultLibdirs == <<"y", "lib64">>

P1 == <<"bin", "p1">>
P2 == <<"bin", "p2">>
Libs == MCDirs \X MCNames
MCPaths == Libs \cup {P1, P2}

XA == <<"x", "a">>
YA == <<"y", "a">>
LA == <<"lib64", "a">>
LB == <<"lib64", "b">>

\* Library files of name n need the names in needs[n].
World4(files, dest, kinds, prog, lib, rpath, cache, args) ==
  [ exists |-> files \cup {P1, P2},
    dest   |-> dest,
    kind   |-> kinds,
    needed |-> [p \in MCPaths |-> IF p \in {P1, P2} THEN prog[p] ELSE lib[p[2]]],
    rpath  |-> rpath,
    cache  |-> cache,
    args   |-> args ]

AllElf == [p \in MCPaths |-> "elf"]
Rpath(r1, r2) == [p \in MCPaths |-> IF p = P1 THEN r1 ELSE IF p = P2 THEN r2 ELSE {}]
Progs(n1, n2) == [p \in {P1, P2} |-> IF p = P1 THEN n1 ELSE n2]
NoLibDeps == [n \in MCNames |-> <<>>]
Cycle == [n \in MCNames |-> IF n = "a" THEN <<"b">> ELSE <<"a">>]
NoCache == [n \in MCNames |-> <<>>]
LibCache == [n \in MCNames |-> <<<<"lib64", n>>>>]
MultiCache == [n \in MCNames |-> <<<<"x", n>>, <<"lib64", n>>>>]

\* Missing and shadowed libraries, populated destination, cyclic needs ...
SearchWorlds ==
  {World4(f, d, AllElf, Progs(<<"a", "b">>, <<"b", "a">>), l, Rpath(r1, {"y"}), c, <<P1, P2>>) :
     f  \in {{LA, LB}, {XA, YA, LB}},
     d  \in {{}, {P2, LA}},
     l  \in {NoLibDeps, Cycle},
     r1 \in {{}, {"x", "y"}},
     c  \in {NoCache, MultiCache}}

\* ... files that cannot be opened or parsed ...
BadFileWorlds ==
  {World4({LA, YA, LB}, d, k, Progs(<<"a", "b">>, <<"b", "a">>), Cycle, Rpath({"x"}, {}), c, <<P1, P2>>) :
     d \in {{}, {LB}},
     k \in {[AllElf EXCEPT ![LA] = "notElf", ![P2] = "missing"],
            [AllElf EXCEPT ![LB] = "badDynamic", ![YA] = "badElf"]},
     c \in {NoCache, MultiCache}}

\* ... a repeated argument, and a library as an argument.
ArgumentWorlds ==
  {World4({LA, LB}, {}, AllElf, Progs(<<"a", "b">>, <<"b", "a">>), Cycle, Rpath(r1, {"y"}), c, g) :
     r1 \in {{}, {"x", "y"}},
     c  \in {NoCache, LibCache},
     g  \in {<<P1, P1>>, <<P2, LA>>}}

\* No RPATH or RUNPATH anywhere and every name in the ld.so.cache.
CacheWorlds ==
  {World4(f, d, AllElf, Progs(<<"a", "b">>, n2), l, Rpath({}, {}), c, <<P1, P2>>) :
     f  \in {{LA, LB}, {XA, LB}, {LB}},
     d  \in {{}, {LA}, {P2, LB}},
     n2 \in {<<"a">>, <<"b", "a">>},
     l  \in {NoLibDeps, Cycle},
     c  \in {LibCache, MultiCache}}

\* No RPATH or RUNPATH anywhere, and names that are in a default directory only.
DefaultWorlds ==
  {World4(f, d, AllElf, Progs(<<"a", "b">>, n2), l, Rpath({}, {}), c, <<P1, P2>>) :
     f  \in {{LA, LB}, {YA, LB}},
     d  \in {{}, {P2}},
     n2 \in {<<"a">>, <<"b", "a">>},
     l  \in {NoLibDeps, Cycle},
     c  \in {NoCache, [NoCache EXCEPT !["a"] = <<LA>>]}}

MCWorlds == SearchWorlds \cup BadFileWorlds \cup ArgumentWorlds \cup CacheWorlds \cup DefaultWorlds

\* Two programs with the same RPATH {x, y}; library a is in the cache only.
RaceWorlds ==
  {World4({LA}, {}, AllElf, Progs(<<"a">>, <<"a">>), NoLibDeps,
          Rpath({"x", "y"}, {"x", "y"}), LibCache, <<P1, P2>>)}

\* A second call for a DESTROOTDIR that holds a already, without ld.so.cache.
RerunWorlds ==
  {World4({LA, LB}, {LA}, AllElf, Progs(<<"a", "b">>, <<>>), NoLibDeps,
          Rpath({}, {}), NoCache, <<P1>>)}

----------------------------------------------------------------------------
\* All words over two letters of at most n letters.
Words(n) == UNION {[1..k -> {"o", "r"}] : k \in 0..n}

\* replace_slice() replaces every occurrence from the left, overlapping ones
\* and ones at both ends included, and nothing else.
ASSUME ReplaceIsRight ==
  \A buf \in Words(5), from \in Words(3) \ {<<>>}, to \in Words(2) :
    S!IsReplaced(buf, from, to)
=============================================================================
