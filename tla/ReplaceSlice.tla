---------------------------- MODULE ReplaceSlice ---------------------------
(***************************************************************************)
(* replace_slice() of src/src/elfkit/ldd.rs, which puts the directory of a *)
(* file in the place of $ORIGIN in its RPATH and RUNPATH.  `from` must not *)
(* be empty: the loop would not advance.                                   *)
(***************************************************************************)
EXTENDS Naturals, Sequences, SequencesExt

\* buf[i..]
From(buf, i) == SubSeq(buf, i, Len(buf))

\* What the loop appends to `res` from index i on, the tail behind it included.
Replace(buf, from, to) ==
  LET rest[i \in 1..Len(buf) + 1] ==
        IF i + Len(from) > Len(buf) + 1 THEN From(buf, i)
        ELSE IF IsPrefix(from, From(buf, i)) THEN to \o rest[i + Len(from)]
        ELSE <<buf[i]>> \o rest[i + 1]
  IN  rest[1]

----------------------------------------------------------------------------
\* The indices at which `from` occurs in buf.
Occurrences(buf, from) == {i \in 1..Len(buf) : IsPrefix(from, From(buf, i))}

(***************************************************************************)
(* Replacement from the left: what has no occurrence of `from` stays as it *)
(* is, and otherwise the first occurrence is replaced, what is before it   *)
(* stays, and what is behind it is treated in the same way.                *)
(***************************************************************************)
IsReplaced(buf, from, to) ==
  LET occ == Occurrences(buf, from)
      first == CHOOSE i \in occ : \A j \in occ : i <= j
  IN  Replace(buf, from, to) =
        IF occ = {} THEN buf
        ELSE SubSeq(buf, 1, first - 1) \o to
               \o Replace(From(buf, first + Len(from)), from, to)
=============================================================================
