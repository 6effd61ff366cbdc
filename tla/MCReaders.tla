----------------------------- MODULE MCReaders -----------------------------
(***************************************************************************)
(* ELF files with four sections: section 0 is the null section, the others *)
(* have all types and links.  Caches with up to two entries and two        *)
(* strings, with and without damage, and some whose size fits in both byte *)
(* orders.                                                                 *)
(***************************************************************************)
EXTENDS Readers, TLC

CONSTANTS a, b, c   \* strings

MCStrings == {a, b, c}

----------------------------------------------------------------------------
MakeElf(h, tb, t, l, u, es) ==
  [ header |-> h, tables |-> tb, n |-> 4, type |-> (0 :> "other") @@ t, link |-> (0 :> 0) @@ l,
    unreadable |-> u, entries |-> es,
    strings |-> [i \in 0..3 |-> IF i = 1 THEN <<a, b>> ELSE <<c>>] ]

E(tag, val) == [tag |-> tag, val |-> val]

\* An index into the first table may lie beyond the others.
Good == <<E("NEEDED", 1), E("UNKNOWN", 0), E("RUNPATH", 2), E("NEEDED", 2), E("NULL", 0), E("NEEDED", 1)>>

LinkElfs ==
  {MakeElf("ok", "ok", t, l, {}, Good) :
     t \in [1..3 -> {"dynamic", "strtab", "other"}], l \in [1..3 -> {0, 1, 2, 3, 4}]}

Simple(h, tb, t1, l1, u, es) ==
  MakeElf(h, tb, [i \in 1..3 |-> IF i = 1 THEN t1 ELSE IF i = 2 THEN "dynamic" ELSE "strtab"],
          [i \in 1..3 |-> IF i = 1 THEN l1 ELSE IF i = 2 THEN 1 ELSE 0], u, es)

OtherElfs ==
  {Simple("ok", "ok", t1, l1, u, es) :
     t1 \in Types,
     l1 \in 0..3,
     u \in SUBSET {1, 2, 3},
     es \in {Good, <<>>, <<E("RPATH", 1)>>, <<E("FLAGS_1", 0), E("badFlags", 0)>>,
             <<E("NEEDED", 1), E("cut", 0)>>, <<E("NULL", 0), E("cut", 0)>>}}

BadElfs ==
  {Simple(h, tb, "strtab", 0, {}, Good) :
     h \in {"ok", "notElf", "invalid"},
     tb \in {"ok", "badSegment", "badSection", "nameBeyond"}}

MCElfs == LinkElfs \cup OtherElfs \cup BadElfs

AnElf == Simple("ok", "ok", "strtab", 0, {}, Good)

----------------------------------------------------------------------------
MakeCache(o, m, v, p, s, es, sh, ss, t) ==
  [ opens |-> o, magic |-> m, version |-> v, pre |-> p, swapped |-> s,
    entries |-> es, shift |-> sh, strings |-> ss, trailing |-> t ]

SeqsUpTo2(S) == {<<>>} \cup {<<x>> : x \in S} \cup {<<x, y>> : x, y \in S}

WholeCaches ==
  {MakeCache(TRUE, TRUE, TRUE, p, s, es, sh, ss, t) :
     p \in {0, 3}, s \in BOOLEAN,
     es \in SeqsUpTo2([key : 0..2, value : {0, 1, 3}]),
     sh \in 0..1,
     ss \in {<<>>, <<a>>, <<a, b>>, <<a, a>>},
     t \in 0..1}

\* The size fits in both byte orders: 2 entries and 4 strings are, swapped, 4 and 2;
\* 4 entries and 1 string are 2 and 8, if 5 bytes follow.
AmbiguousCaches ==
  {MakeCache(TRUE, TRUE, TRUE, 3, s, <<x, x>>, 0, <<a, b, c, a>>, 0) :
     s \in BOOLEAN, x \in [key : {2}, value : {2, 5}]} \cup
  {MakeCache(TRUE, TRUE, TRUE, 0, s, <<x, x, x, x>>, 0, <<a, b>>, 0) :
     s \in BOOLEAN, x \in [key : {0, 4}, value : {0}]} \cup
  {MakeCache(TRUE, TRUE, TRUE, 0, s, <<x, x, x, x>>, 0, <<a>>, 5) :
     s \in BOOLEAN, x \in [key : {0, 4}, value : {0}]}

BrokenCaches ==
  {MakeCache(o, m, v, 3, FALSE, <<>>, 0, <<a>>, 0) : o, m, v \in BOOLEAN}

MCCaches == WholeCaches \cup AmbiguousCaches \cup BrokenCaches

NoCache == MakeCache(FALSE, TRUE, TRUE, 3, FALSE, <<>>, 0, <<a>>, 0)

\* Every file without a cache, and every cache with one file.
MCInputs ==
  [cache : {NoCache}, elf : MCElfs] \cup [cache : MCCaches, elf : {AnElf}]
=============================================================================
