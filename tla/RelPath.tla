------------------------------ MODULE RelPath ------------------------------
(***************************************************************************)
(* convert_abs_rel() of src/src/file/mod.rs: the relative path that a      *)
(* symbolic link gets so that it leads to `source`.                        *)
(*                                                                         *)
(* An absolute path is the sequence of its components; `dir` is the parent *)
(* of the link.  zip_longest walks along both at once: a component that    *)
(* differs costs one ".." and is kept in `rest`, one that only the source  *)
(* has is kept in `rest`, all others are dropped.                          *)
(***************************************************************************)
EXTENDS Naturals, Sequences, FiniteSets

\* The positions at which both have a component, and not the same.
BothDiffer(source, dir) ==
  {j \in (1..Len(source)) \cap (1..Len(dir)) : source[j] # dir[j]}

\* Number of ".." in target_rel.
Ups(source, dir) == Cardinality(BothDiffer(source, dir))

\* The loop over the components of the source; `rest` after j of them.
Rest(source, dir) ==
  LET Pushed[j \in 0..Len(source)] ==
        IF j = 0 THEN <<>>
        ELSE IF j \in BothDiffer(source, dir) \/ j > Len(dir) THEN Append(Pushed[j - 1], source[j])
        ELSE Pushed[j - 1]
  IN  Pushed[Len(source)]

ConvertAbsRel(source, dir) == [ups |-> Ups(source, dir), rest |-> Rest(source, dir)]

----------------------------------------------------------------------------
\* Where a link with the relative path rel in the directory `at` leads; the
\* parent of the root is the root.
LeadsTo(at, rel) ==
  SubSeq(at, 1, IF rel.ups <= Len(at) THEN Len(at) - rel.ups ELSE 0) \o rel.rest

\* From their first difference on, the two paths have no component in common
\* at the same depth, and the directory is not the deeper one.
Aligned(source, dir) ==
  \E c \in 0..Len(dir) :
    /\ c <= Len(source)
    /\ \A j \in 1..c : source[j] = dir[j]
    /\ \A j \in (c + 1)..Len(dir) : j <= Len(source) /\ source[j] # dir[j]

(***************************************************************************)
(* convert_abs_rel() is right for aligned paths, and for no others.        *)
(***************************************************************************)
RightForAligned(source, dir) ==
  LeadsTo(dir, ConvertAbsRel(source, dir)) = source <=> Aligned(source, dir)
=============================================================================
