----------------------------- MODULE LdSoCache -----------------------------
(***************************************************************************)
(* LdsoCache::read_ld_so_cache() of src/src/elfkit/ld_so_cache.rs: the     *)
(* table from library names to paths that ldconfig wrote.                  *)
(*                                                                         *)
(* The new format may follow a table in the old format (`pre` bytes), and  *)
(* it may have been written with the other byte order, which is guessed    *)
(* from the size of the file; the guess can be wrong.  The offsets of the  *)
(* strings count from the magic number.  A string takes one unit of the    *)
(* string table, and a byte is a digit to the base Base.                   *)
(***************************************************************************)
EXTENDS Naturals, Sequences

CONSTANTS
  Strings,      \* names and paths
  Empty,        \* the string at the end of the string table
  Base,         \* number of values of a byte
  HeaderSize,   \* size_of::<CacheFileNew>()
  EntrySize,    \* size_of::<FileEntryNew>()
  Caches        \* the files to consider

\* What ldconfig wrote.  An entry is a pair of indices into the strings; an
\* index beyond them, or below 0 (shift), is a damaged entry.
CacheFile(c) ==
  /\ c.opens \in BOOLEAN
  /\ c.magic \in BOOLEAN /\ c.version \in BOOLEAN
  /\ c.pre \in Nat
  /\ c.swapped \in BOOLEAN
  /\ c.entries \in Seq([key : Nat, value : Nat])
  /\ c.shift \in Nat
  /\ c.strings \in Seq(Strings)
  /\ c.trailing \in Nat          \* bytes behind the string table

\* (position of the string table relative to the magic number)
TableOffset(n) == HeaderSize + n * EntrySize

\* The offset ldconfig writes for the string with index i.
Offset(c, i) == TableOffset(Len(c.entries)) + i - c.shift

FileSize(c) == c.pre + TableOffset(Len(c.entries)) + Len(c.strings) + c.trailing

\* The numbers of four bytes.
Words == 0..(Base * Base * Base * Base - 1)

\* The numbers in the file are words, a damaged offset too.
LdSoCacheAssumption ==
  /\ Empty \notin Strings
  /\ Base \in Nat \ {0} /\ HeaderSize \in Nat /\ EntrySize \in Nat \ {0}
  /\ \A c \in Caches :
       /\ CacheFile(c)
       /\ Len(c.entries) \in Words /\ Len(c.strings) \in Words
       /\ \A k \in DOMAIN c.entries :
            Offset(c, c.entries[k].key) \in Words /\ Offset(c, c.entries[k].value) \in Words

VARIABLES
  file,         \* the file (constant)
  pc,           \* "open", "magic", "size", "entries", "ok", "err" or "panic"
  nlibs,        \* cache_file_new.nlibs
  len_strings,  \* cache_file_new.len_strings
  byte_swap,
  next,         \* the loop over file_entries
  cache         \* the BTreeMap

vars == <<file, pc, nlibs, len_strings, byte_swap, next, cache>>

\* The two digits of x to the base b, swapped.
Swap(b, x) == (x % b) * b + x \div b

\* u32::swap_bytes()
SwapBytes(x) ==
  LET Half == Base * Base
  IN  Swap(Base, x % Half) * Half + Swap(Base, x \div Half)

\* How a number is read from the file.
Raw(x) == IF file.swapped THEN SwapBytes(x) ELSE x

AllStrings == Strings \cup {Empty}

Start ==
  /\ pc = "open"
  /\ nlibs = 0 /\ len_strings = 0
  /\ byte_swap = FALSE
  /\ next = 1
  /\ cache = [s \in AllStrings |-> <<>>]

Init == file \in Caches /\ Start

Open ==
  /\ pc = "open"
  /\ pc' = IF file.opens /\ file.magic THEN "magic" ELSE "err"
  /\ UNCHANGED <<file, nlibs, len_strings, byte_swap, next, cache>>

\* read_struct() and the version.
ReadCacheFileNew ==
  /\ pc = "magic"
  /\ pc' = IF file.version THEN "size" ELSE "err"
  /\ nlibs' = Raw(Len(file.entries))
  /\ len_strings' = Raw(Len(file.strings))
  /\ UNCHANGED <<file, byte_swap, next, cache>>

SizeFits(n, l) == file.pre + TableOffset(n) + l = FileSize(file)

NativeOrder ==
  /\ pc = "size" /\ SizeFits(nlibs, len_strings)
  /\ pc' = "entries"
  /\ UNCHANGED <<file, nlibs, len_strings, byte_swap, next, cache>>

\* Mutant of Swapped: the entries are not swapped.
Swapped_HeaderOnly == FALSE

\* With the numbers of the header swapped, the size is right.
Swapped == SizeFits(SwapBytes(nlibs), SwapBytes(len_strings))

OtherOrder ==
  /\ pc = "size" /\ ~SizeFits(nlibs, len_strings)
  /\ nlibs' = SwapBytes(nlibs)
  /\ len_strings' = SwapBytes(len_strings)
  /\ pc' = IF SizeFits(nlibs', len_strings') THEN "entries" ELSE "err"
  /\ byte_swap' = Swapped
  /\ UNCHANGED <<file, next, cache>>

\* The offset an entry holds for the string with index i.
Stored(i) == Raw(Offset(file, i))

\* The offset after the swap.
Read(i) == IF byte_swap THEN SwapBytes(Stored(i)) ELSE Stored(i)

\* string_table[offset - TableOffset ..]: the start must not lie behind the end.
InTable(o) == o >= TableOffset(nlibs) /\ o - TableOffset(nlibs) <= len_strings

\* Mutant of StringsAt: the offset counts from the start of the file.
StringsAt_FromStart(o) ==
  LET k == o - TableOffset(nlibs) + file.pre
  IN  IF k >= Len(file.strings) THEN {Empty} ELSE {file.strings[k + 1]}

\* The strings that may be read at the offset o.  With the right byte order there is
\* one.  With the wrong one the string table read may begin in the entries or end
\* behind the strings, and what is there is read as a string.
StringsAt(o) ==
  LET table == TableOffset(Len(file.entries))
  IN  IF o = TableOffset(nlibs) + len_strings THEN {Empty}
      ELSE IF o \in table..(table + Len(file.strings) - 1) THEN {file.strings[o - table + 1]}
      ELSE AllStrings

\* The offsets in the n-th entry read.  There are no more than ldconfig wrote, unless
\* the byte order is wrong and strings are read as entries.
EntriesAt(n) ==
  IF n <= Len(file.entries) THEN {<<Read(file.entries[n].key), Read(file.entries[n].value)>>}
  ELSE Words \X Words

InsertEntry ==
  /\ pc = "entries" /\ next <= nlibs
  /\ \E e \in EntriesAt(next) :
       IF InTable(e[1]) /\ InTable(e[2])
       THEN /\ \E k \in StringsAt(e[1]), v \in StringsAt(e[2]) :
                 cache' = [cache EXCEPT ![k] = Append(@, v)]
            /\ next' = next + 1
            /\ UNCHANGED pc
       ELSE pc' = "panic" /\ UNCHANGED <<cache, next>>
  /\ UNCHANGED <<file, nlibs, len_strings, byte_swap>>

AllInserted ==
  /\ pc = "entries" /\ next > nlibs
  /\ pc' = "ok"
  /\ UNCHANGED <<file, nlibs, len_strings, byte_swap, next, cache>>

Next ==
  \/ Open \/ ReadCacheFileNew \/ NativeOrder \/ OtherOrder
  \/ InsertEntry \/ AllInserted

Spec == Init /\ [][Next]_vars

----------------------------------------------------------------------------
\* The string with index i, as ldconfig meant it.
Meant(i) ==
  IF i - file.shift = Len(file.strings) THEN Empty ELSE file.strings[i - file.shift + 1]

\* paths are those of the first n entries for the name s, in the order of the file:
\* at[j] is the entry that paths[j] is from.
PathsOf(paths, s, n) ==
  LET mine == {k \in 1..n : Meant(file.entries[k].key) = s}
  IN  \E at \in [DOMAIN paths -> mine] :
        /\ \A k \in mine : \E j \in DOMAIN paths : at[j] = k
        /\ \A i, j \in DOMAIN paths : i < j => at[i] < at[j]
        /\ \A j \in DOMAIN paths : paths[j] = Meant(file.entries[at[j]].value)

(***************************************************************************)
(* The size fits in the wrong byte order too.  The order of the machine is *)
(* tried first, so a file of the other order is misread then, and so is a  *)
(* file of its own order with something behind the strings: the numbers of *)
(* 256 libraries and 1572864 bytes of strings are, swapped, those of 65536 *)
(* libraries and 6144 bytes, and an entry has 24 bytes.  Without entries   *)
(* the order does not matter.                                              *)
(***************************************************************************)
Ambiguous ==
  /\ file.entries # <<>>
  /\ SizeFits(SwapBytes(Len(file.entries)), SwapBytes(Len(file.strings)))

(***************************************************************************)
(* The table read is the one ldconfig wrote, in either byte order and      *)
(* behind a table of the old format: every name has its paths, in the      *)
(* order of the file, and no name has others.                              *)
(***************************************************************************)
TableIsRead ==
  pc = "ok" /\ ~Ambiguous => \A s \in AllStrings : PathsOf(cache[s], s, Len(file.entries))

\* The offset of some entry lies outside of the string table.
Damaged ==
  \E k \in 1..Len(file.entries) :
    \E i \in {file.entries[k].key, file.entries[k].value} :
      i < file.shift \/ i - file.shift > Len(file.strings)

(***************************************************************************)
(* The slices of the string table panic only for a damaged entry or where  *)
(* the size fits in both byte orders, and a file is refused only for its   *)
(* magic number, its version or its size, never for its byte order.        *)
(***************************************************************************)
FailureMeansDamaged ==
  /\ pc = "panic" => Damaged \/ Ambiguous
  /\ pc = "err" => ~file.opens \/ ~file.magic \/ ~file.version \/ file.trailing > 0
=============================================================================
