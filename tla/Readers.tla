------------------------------ MODULE Readers ------------------------------
(***************************************************************************)
(* The two parsers that ldd() of src/src/lib.rs feeds the library search   *)
(* with, in the order it runs them: the ld.so.cache is read first, and an  *)
(* error of it is dropped (`.ok()`), so that the search goes on without a  *)
(* cache; then a worker reads an ELF file.  A panic of the first parser    *)
(* ends the program before any file is looked at.                          *)
(***************************************************************************)
EXTENDS ElfLoad

CONSTANTS
  Base,         \* see LdSoCache
  HeaderSize,
  EntrySize,
  Caches,
  Inputs        \* the pairs [cache, elf] to consider

VARIABLES file, cpc, nlibs, len_strings, byte_swap, next, cache

cacheVars == <<file, cpc, nlibs, len_strings, byte_swap, next, cache>>

L == INSTANCE LdSoCache WITH pc <- cpc

ASSUME ReadersAssumption ==
  /\ L!LdSoCacheAssumption
  /\ \A in \in Inputs : in.cache \in Caches /\ in.elf \in Elfs

ReadersInit ==
  /\ \E in \in Inputs : file = in.cache /\ elf = in.elf
  /\ Start
  /\ L!Start

ReadCache ==
  /\ L!Next
  /\ UNCHANGED vars

\* Mutant of CacheRead: an error is not dropped.
CacheRead_Ok == cpc = "ok"

\* cache is None after an error.
CacheRead == cpc \in {"ok", "err"}

ReadElf ==
  /\ CacheRead
  /\ Next
  /\ UNCHANGED cacheVars

ReadersNext == ReadCache \/ ReadElf

\* The main thread reads the cache, then a worker thread the file.
ReadersSpec ==
  ReadersInit /\ [][ReadersNext]_<<vars, cacheVars>> /\ WF_<<vars, cacheVars>>(ReadersNext)

----------------------------------------------------------------------------
(***************************************************************************)
(* The ld.so.cache that is read is the one ldconfig wrote, in either byte  *)
(* order and behind a table of the old format, unless the size of the file *)
(* fits in both byte orders.                                               *)
(***************************************************************************)
TableIsRead == L!TableIsRead

(***************************************************************************)
(* read_ld_so_cache() panics only for a damaged entry or where the size    *)
(* fits in both byte orders, and a file is refused only for its magic      *)
(* number, its version or its size.                                        *)
(***************************************************************************)
FailureMeansDamaged == L!FailureMeansDamaged

(***************************************************************************)
(* Whatever is wrong with the cache or the file, reading ends: a cache     *)
(* that is refused does not keep the file from being read, and load()      *)
(* comes to an end although it follows links without looking for cycles,   *)
(* since the default section that it leaves behind has no link.            *)
(***************************************************************************)
Termination == <>(Done \/ cpc = "panic")
=============================================================================
