------------------------------ MODULE ElfLoad ------------------------------
(***************************************************************************)
(* Reading the dynamic sections of one ELF file: Elf::from_reader() and    *)
(* Elf::load() of src/src/elfkit/elf.rs, and the loop over the sections in *)
(* Ldd::recurse() of src/src/elfkit/ldd.rs.                                *)
(*                                                                         *)
(* load(i) takes section i out of the table, leaving a default section in  *)
(* its place, loads the section it is linked to (recursively, and without  *)
(* a test for cycles), parses its own content and puts it back.            *)
(*                                                                         *)
(* A section is given by what its header says and by whether its bytes can *)
(* be read.  A string is an index into the strings of a string table.      *)
(***************************************************************************)
EXTENDS Naturals, Sequences, FiniteSets

CONSTANTS
  Strings,   \* names and search paths
  Corrupt,   \* what Strtab::get() returns for an index beyond the table
  Empty,     \* the name if there is no string table
  Elfs       \* the files to consider

Types == {"dynamic", "strtab", "nobits", "other"}

\* "cut": the data ends after the tag.  "badFlags": FLAGS_1 with unknown bits.
Tags == {"NEEDED", "RPATH", "RUNPATH", "FLAGS_1", "UNKNOWN", "NULL", "badFlags", "cut"}

Entry == [tag : Tags, val : Nat]

ElfFile(e) ==
  /\ e.header \in {"ok", "notElf", "invalid"}   \* Header::from_reader()
  /\ e.tables \in {"ok", "badSegment", "badSection", "nameBeyond"}
  /\ e.n \in Nat
  /\ e.type \in [0..(e.n - 1) -> Types]
  /\ e.link \in [0..(e.n - 1) -> Nat]
  /\ e.unreadable \subseteq 0..(e.n - 1)
  /\ e.entries \in Seq(Entry)                  \* of the dynamic sections
  /\ e.strings \in [0..(e.n - 1) -> Seq(Strings)]

ASSUME ElfLoadAssumption ==
  /\ Corrupt \notin Strings /\ Empty \notin Strings
  /\ \A e \in Elfs : ElfFile(e)

VARIABLES
  elf,        \* the file (constant)
  pc,         \* "header", "segments", "sections", "scan", "load", "ok", "notElf", "badElf" or a panic
  sections,   \* Elf::sections
  stack,      \* the calls of load()
  shndx,      \* the loop in recurse()
  deps,       \* the NEEDED names
  lpaths      \* RPATH and RUNPATH

vars == <<elf, pc, sections, stack, shndx, deps, lpaths>>

None == [kind |-> "None", list |-> <<>>]

Unloaded == [kind |-> "Unloaded", list |-> <<>>]

\* Section::default(); `id` is not part of the code, it tells sections apart.
DefaultSection == [id |-> elf.n, type |-> "other", link |-> 0, content |-> None]

Indices == 0..(elf.n - 1)

\* Nothing of the file `elf` is read yet.
Start ==
  /\ pc = "header"
  /\ sections = [i \in Indices |->
                   [id |-> i, type |-> elf.type[i], link |-> elf.link[i], content |-> Unloaded]]
  /\ stack = <<>> /\ shndx = 0 /\ deps = <<>> /\ lpaths = {}

Init == elf \in Elfs /\ Start

----------------------------------------------------------------------------
(***************************************************************************)
(* Elf::from_reader().                                                     *)
(***************************************************************************)
\* A file that is too short or has no magic number is "not a dynamic executable".
ReadHeader ==
  /\ pc = "header"
  /\ pc' = CASE elf.header = "ok" -> "segments"
             [] elf.header = "notElf" -> "notElf"
             [] elf.header = "invalid" -> "badElf"
  /\ UNCHANGED <<elf, sections, stack, shndx, deps, lpaths>>

\* A program header with an unknown type is an error, although none is used.
ReadSegments ==
  /\ pc = "segments"
  /\ pc' = IF elf.tables = "badSegment" THEN "badElf" ELSE "sections"
  /\ UNCHANGED <<elf, sections, stack, shndx, deps, lpaths>>

\* The section headers; shstrtab[name..] panics for a name beyond it.
ReadSections ==
  /\ pc = "sections"
  /\ pc' = CASE elf.tables = "ok" -> "scan"
             [] elf.tables = "badSection" -> "badElf"
             [] elf.tables = "nameBeyond" -> "panicName"
  /\ UNCHANGED <<elf, sections, stack, shndx, deps, lpaths>>

----------------------------------------------------------------------------
(***************************************************************************)
(* Elf::load().                                                            *)
(***************************************************************************)
Call(i) == [index |-> i, sec |-> DefaultSection, taken |-> FALSE]

Top == stack[Len(stack)]

Below == SubSeq(stack, 1, Len(stack) - 1)

HasLink(sec) == ~(sec.link < 1 \/ sec.link >= elf.n)

\* Mutant of Taken: the section is cloned.
Taken_Cloned == sections

\* mem::take()
Taken == [sections EXCEPT ![Top.index] = DefaultSection]

Enter ==
  /\ pc = "load" /\ stack # <<>> /\ ~Top.taken
  /\ LET sec == sections[Top.index]
         frame == [Top EXCEPT !.sec = sec, !.taken = TRUE]
     IN  stack' = Append(Below, frame) \o (IF HasLink(sec) THEN <<Call(sec.link)>> ELSE <<>>)
  /\ sections' = Taken
  /\ UNCHANGED <<elf, pc, shndx, deps, lpaths>>

\* The content of the linked section.
Linked == IF HasLink(Top.sec) THEN sections[Top.sec.link] ELSE DefaultSection

\* Strtab::get(), and the empty name if there is no table.
GetString(val) ==
  CASE ~HasLink(Top.sec) -> Empty
    [] HasLink(Top.sec) /\ val \in 1..Len(elf.strings[Linked.id]) -> elf.strings[Linked.id][val]
    [] OTHER -> Corrupt

\* Mutant of EntriesRead: a NULL entry does not end the table.
EntriesRead_PastNull == elf.entries

\* The entries up to the first NULL, or up to where parsing fails.
EntriesRead ==
  LET Ends(k) == elf.entries[k].tag \in {"NULL", "cut", "badFlags"}
      Last == {k \in 1..Len(elf.entries) : Ends(k) /\ \A j \in 1..(k - 1) : ~Ends(j)}
  IN  IF Last = {} THEN elf.entries ELSE SubSeq(elf.entries, 1, CHOOSE k \in Last : TRUE)

\* Dynamic::from_reader()
DynamicFails ==
  \/ HasLink(Top.sec) /\ Linked.content.kind # "Strtab"
  \/ \E k \in 1..Len(EntriesRead) : EntriesRead[k].tag \in {"cut", "badFlags"}

ParsedDynamic ==
  [ kind |-> "Dynamic",
    list |-> [k \in 1..Len(EntriesRead) |->
                [tag |-> EntriesRead[k].tag, name |-> GetString(EntriesRead[k].val)]] ]

\* Section::from_reader()
ReadFails ==
  /\ Top.sec.content = Unloaded
  /\ Top.sec.type # "nobits"
  /\ Top.sec.id \in elf.unreadable \/ (Top.sec.type = "dynamic" /\ DynamicFails)

Content ==
  CASE Top.sec.content # Unloaded -> Top.sec.content
    [] Top.sec.content = Unloaded /\ Top.sec.type = "nobits" -> None
    [] Top.sec.content = Unloaded /\ Top.sec.type = "strtab" -> [kind |-> "Strtab", list |-> <<>>]
    [] Top.sec.content = Unloaded /\ Top.sec.type = "dynamic" -> ParsedDynamic
    [] OTHER -> Unloaded

Loading == pc = "load" /\ stack # <<>> /\ Top.taken

\* Mutant of Loaded: a section that was loaded before is not put back.
Loaded_OnlyNew ==
  IF Top.sec.content = Unloaded THEN [Top.sec EXCEPT !.content = Content] ELSE sections[Top.index]

\* Mutant of Loaded: the content that was read is dropped.
Loaded_Dropped == Top.sec

Loaded == [Top.sec EXCEPT !.content = Content]

PutBack ==
  /\ Loading /\ ~ReadFails
  /\ sections' = [sections EXCEPT ![Top.index] = Loaded]
  /\ stack' = Below
  /\ UNCHANGED <<elf, pc, shndx, deps, lpaths>>

\* The error goes through all the calls, to load(..).unwrap().
LoadFails ==
  /\ Loading /\ ReadFails
  /\ pc' = "panicLoad"
  /\ stack' = <<>>
  /\ UNCHANGED <<elf, sections, shndx, deps, lpaths>>

----------------------------------------------------------------------------
(***************************************************************************)
(* The loop over the sections in Ldd::recurse().                           *)
(***************************************************************************)
SkipSection ==
  /\ pc = "scan" /\ shndx < elf.n
  /\ sections[shndx].type # "dynamic"
  /\ shndx' = shndx + 1
  /\ UNCHANGED <<elf, pc, sections, stack, deps, lpaths>>

LoadSection ==
  /\ pc = "scan" /\ shndx < elf.n
  /\ sections[shndx].type = "dynamic"
  /\ stack' = <<Call(shndx)>>
  /\ pc' = "load"
  /\ UNCHANGED <<elf, sections, shndx, deps, lpaths>>

\* The names of the NEEDED entries, in their order.
Needed(list) ==
  LET names[k \in 0..Len(list)] ==
        IF k = 0 THEN <<>>
        ELSE names[k - 1] \o (IF list[k].tag = "NEEDED" THEN <<list[k].name>> ELSE <<>>)
  IN  names[Len(list)]

SearchPaths(list) ==
  {list[k].name : k \in {j \in 1..Len(list) : list[j].tag \in {"RPATH", "RUNPATH"}}}

\* as_dynamic().unwrap(), and the loop over the entries.
Collect ==
  /\ pc = "load" /\ stack = <<>>
  /\ LET list == sections[shndx].content.list
     IN  deps' = deps \o Needed(list) /\ lpaths' = lpaths \cup SearchPaths(list)
  /\ shndx' = shndx + 1
  /\ pc' = IF sections[shndx].content.kind = "Dynamic" THEN "scan" ELSE "panicDynamic"
  /\ UNCHANGED <<elf, sections, stack>>

AllScanned ==
  /\ pc = "scan" /\ shndx = elf.n
  /\ pc' = "ok"
  /\ UNCHANGED <<elf, sections, stack, shndx, deps, lpaths>>

Next ==
  \/ ReadHeader \/ ReadSegments \/ ReadSections \/ Enter \/ PutBack \/ LoadFails
  \/ SkipSection \/ LoadSection \/ Collect \/ AllScanned

Spec == Init /\ [][Next]_vars

Done == pc \in {"ok", "notElf", "badElf", "panicName", "panicLoad", "panicDynamic"}

----------------------------------------------------------------------------
\* Sections and calls of load(); every nested load() has taken one section more, so that
\* the recursion ends, cyclic links or not.
TypeOK ==
  /\ pc \in {"header", "segments", "sections", "scan", "load", "ok", "notElf", "badElf",
             "panicName", "panicLoad", "panicDynamic"}
  /\ \A i \in Indices : sections[i].content.kind \in {"None", "Unloaded", "Dynamic", "Strtab"}
  /\ shndx \in 0..elf.n
  /\ lpaths \subseteq Strings \cup {Corrupt, Empty}
  /\ Len(stack) <= elf.n + 1

(***************************************************************************)
(* mem::take() loses no section: it is in the table or held by exactly one *)
(* call of load(), and it is back in its place when no call is active,     *)
(* whatever the links look like.  (A section that was lost would make the  *)
(* loop in recurse() skip its dependencies.)                               *)
(***************************************************************************)
NoSectionLost ==
  pc # "panicLoad" =>
    \A i \in Indices :
      LET holders == {k \in 1..Len(stack) : stack[k].taken /\ stack[k].sec.id = i}
      IN  /\ \A j \in Indices : sections[j].id = i => j = i
          /\ sections[i].id = i => holders = {}
          /\ sections[i].id # i => Cardinality(holders) = 1

(***************************************************************************)
(* The unwrap() of as_dynamic() in recurse() never panics: after load() of *)
(* a dynamic section the content is there.  load() panics only for a file  *)
(* that is damaged: unreadable sections, entries that cannot be parsed, or *)
(* a dynamic section that is linked to something else than a string table, *)
(* or to one with a link of its own (which may lead back, and the table is *)
(* taken out while its own link is loaded).                                *)
(***************************************************************************)
PanicMeansDamaged ==
  /\ pc # "panicDynamic"
  /\ pc = "panicLoad" =>
       \/ elf.unreadable # {}
       \/ \E k \in 1..Len(elf.entries) : elf.entries[k].tag \in {"cut", "badFlags"}
       \/ \E i \in Indices : /\ elf.type[i] = "dynamic"
                             /\ elf.link[i] \in 1..(elf.n - 1)
                             /\ \/ elf.type[elf.link[i]] # "strtab"
                                \/ elf.link[elf.link[i]] \in 1..(elf.n - 1)

\* The name that the dynamic section i means by val.
NameMeant(i, val) ==
  CASE elf.link[i] \notin 1..(elf.n - 1) -> Empty
    [] elf.link[i] \in 1..(elf.n - 1) /\ val \in DOMAIN elf.strings[elf.link[i]] ->
         elf.strings[elf.link[i]][val]
    [] OTHER -> Corrupt

\* The entries before the first NULL.
Live == {k \in DOMAIN elf.entries : \A j \in 1..k : elf.entries[j].tag # "NULL"}

\* What the dynamic section i says by itself: the names of its NEEDED entries.
NeededBy(i) ==
  LET names[k \in 0..Len(elf.entries)] ==
        IF k = 0 THEN <<>>
        ELSE names[k - 1] \o (IF k \in Live /\ elf.entries[k].tag = "NEEDED"
                              THEN <<NameMeant(i, elf.entries[k].val)>> ELSE <<>>)
  IN  names[Len(elf.entries)]

\* What all dynamic sections say, in the order of the sections.
AllNeeded ==
  LET below[n \in 0..elf.n] ==
        IF n = 0 THEN <<>>
        ELSE below[n - 1] \o (IF elf.type[n - 1] = "dynamic" THEN NeededBy(n - 1) ELSE <<>>)
  IN  below[elf.n]

(***************************************************************************)
(* The dependencies recurse() goes on with are those that the headers and  *)
(* entries name, although sections were taken, loaded as the link of       *)
(* others and put back in between.                                         *)
(***************************************************************************)
DepsAreNeeded == pc = "ok" => deps = AllNeeded
=============================================================================
