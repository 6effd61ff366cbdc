---------------------------- MODULE ReaderProofs ---------------------------
(***************************************************************************)
(* Proofs about Readers, for all ld.so.caches and ELF files: any number of *)
(* entries, sections and strings, links that lead anywhere, and any        *)
(* damage.                                                                 *)
(***************************************************************************)
EXTENDS Readers, Integers, DataLemmas, FiniteSetTheorems

(***************************************************************************)
(* The ld.so.cache.  The byte order is guessed from the size of the file;  *)
(* the guess is right if there is an entry to be read and the size fits in *)
(* one order only.                                                         *)
(***************************************************************************)
AllStrings == L!AllStrings

TableRead ==
  /\ cache \in [AllStrings -> Seq(AllStrings)]
  /\ next \in 1..(Len(file.entries) + 1)
  /\ \A s \in AllStrings : L!PathsOf(cache[s], s, next - 1)
  /\ cpc = "ok" => next = Len(file.entries) + 1

TableInv == L!Ambiguous \/ TableRead

OrderInv ==
  /\ cpc \in {"open", "magic", "size"} => next = 1
  /\ cpc = "size" =>
       nlibs = L!Raw(Len(file.entries)) /\ len_strings = L!Raw(Len(file.strings)) /\ ~byte_swap
  /\ cpc \in {"open", "magic"} => ~byte_swap
  /\ cpc \in {"entries", "ok"} /\ ~L!Ambiguous =>
       /\ nlibs = Len(file.entries)
       /\ nlibs > 0 => len_strings = Len(file.strings) /\ (byte_swap <=> file.swapped)

CacheInv ==
  /\ file \in Caches
  /\ cpc \in {"open", "magic", "size", "entries", "ok", "err", "panic"}
  /\ OrderInv /\ TableInv /\ L!FailureMeansDamaged

(***************************************************************************)
(* The sections.  One is in its place in the table, or a default section   *)
(* is and one call of load() has it; a call that waits for another one is  *)
(* never a call for a default section, which has no link.                  *)
(***************************************************************************)
Names == Strings \cup {Corrupt, Empty}

Contents ==
  [ kind : {"None", "Unloaded", "Dynamic", "Strtab"},
    list : Seq([tag : Tags, name : Strings \cup {Corrupt, Empty}]) ]

SectionSet == [id : 0..elf.n, type : Types, link : Nat, content : Contents]

FrameSet == [index : Indices, sec : SectionSet, taken : BOOLEAN]

TypeInv ==
  /\ elf \in Elfs
  /\ pc \in {"header", "segments", "sections", "scan", "load", "ok", "notElf", "badElf",
             "panicName", "panicLoad", "panicDynamic"}
  /\ sections \in [Indices -> SectionSet]
  /\ stack \in Seq(FrameSet)
  /\ shndx \in 0..elf.n
  /\ lpaths \subseteq Strings \cup {Corrupt, Empty}

\* What load() makes of the sections of the different types.
AStrtab == [kind |-> "Strtab", list |-> <<>>]

DynamicOf(i) ==
  [ kind |-> "Dynamic",
    list |-> [k \in 1..Len(EntriesRead) |->
                [tag |-> EntriesRead[k].tag, name |-> NameMeant(i, EntriesRead[k].val)]] ]

ReadWell == \A k \in 1..Len(EntriesRead) : EntriesRead[k].tag \notin {"cut", "badFlags"}

MayHold(i, content) ==
  \/ content = Unloaded
  \/ elf.type[i] = "dynamic" /\ content = DynamicOf(i) /\ ReadWell
  \/ elf.type[i] = "strtab" /\ content = AStrtab
  \/ elf.type[i] = "nobits" /\ content = None

IsSection(i, sec) ==
  sec.id = i /\ sec.type = elf.type[i] /\ sec.link = elf.link[i] /\ MayHold(i, sec.content)

SectionsInv ==
  /\ \A i \in Indices : sections[i] = DefaultSection \/ IsSection(i, sections[i])
  /\ \A k \in DOMAIN stack :
       stack[k].taken => stack[k].sec = DefaultSection \/ IsSection(stack[k].index, stack[k].sec)

AtHome(i) == sections[i].id = i

Holds(k, i) == stack[k].taken /\ stack[k].sec.id = i

HoldersInv ==
  /\ \A i \in Indices : pc # "panicLoad" /\ ~AtHome(i) => \E k \in DOMAIN stack : Holds(k, i)
  /\ \A i \in Indices : \A k \in DOMAIN stack : Holds(k, i) => ~AtHome(i)
  /\ \A i \in Indices : \A k, m \in DOMAIN stack : Holds(k, i) /\ Holds(m, i) => k = m
  /\ \A k \in DOMAIN stack : stack[k].taken => ~AtHome(stack[k].index)

CallsInv ==
  \A k \in DOMAIN stack :
    /\ ~stack[k].taken => k = Len(stack)
    /\ k < Len(stack) => HasLink(stack[k].sec) /\ stack[k + 1].index = stack[k].sec.link

LinkIsRead(i) == AtHome(i) /\ elf.type[i] = "strtab" => sections[i].content = AStrtab

LinkInv == stack # <<>> /\ Top.taken /\ HasLink(Top.sec) => LinkIsRead(Top.sec.link)

\* The loop over the sections.
LoopInv ==
  /\ pc = "sections" => elf.tables # "badSegment"
  /\ pc # "load" => stack = <<>>
  /\ pc = "load" => shndx < elf.n /\ elf.type[shndx] = "dynamic"
  /\ pc = "ok" => shndx = elf.n
  /\ stack # <<>> => stack[1].index = shndx /\ (stack[1].taken => stack[1].sec.id = shndx)
  /\ pc = "load" /\ stack = <<>> => sections[shndx].content = DynamicOf(shndx) /\ ReadWell

DepsBelow ==
  CHOOSE below : below =
    [n \in 0..elf.n |->
      IF n = 0 THEN <<>>
      ELSE below[n - 1] \o (IF elf.type[n - 1] = "dynamic" THEN NeededBy(n - 1) ELSE <<>>)]

DepsInv == deps = DepsBelow[shndx]

ElfInv ==
  /\ TypeInv /\ SectionsInv /\ HoldersInv /\ CallsInv /\ LinkInv /\ LoopInv /\ DepsInv
  /\ PanicMeansDamaged

----------------------------------------------------------------------------
\* Numbers of two digits.
LEMMA TwoDigits ==
  ASSUME NEW B \in Nat \ {0}, NEW q \in Nat, NEW r \in 0..(B - 1)
  PROVE  (q * B + r) \div B = q /\ (q * B + r) % B = r
<1> DEFINE z == q * B + r
<1>1. z \in Nat
  OBVIOUS
<1>2. z = B * (z \div B) + (z % B) /\ z % B \in 0..(B - 1) /\ z \div B \in Int
  <2> HIDE DEF z
  <2>1. z % B \in 0..(B - 1)
    BY <1>1, SMT
  <2>2. z \div B \in Int /\ z = B * (z \div B) + (z % B)
    BY <1>1, SMT
  <2> QED
    BY <2>1, <2>2
<1> QED
  BY <1>2

\* Two digits are swapped.
LEMMA SwapDigits ==
  ASSUME NEW B \in Nat \ {0}, NEW q \in 0..(B - 1), NEW r \in 0..(B - 1)
  PROVE  /\ L!Swap(B, q * B + r) = r * B + q
         /\ r * B + q \in 0..(B * B - 1) /\ q * B + r \in 0..(B * B - 1)
<1>1. (q * B + r) \div B = q /\ (q * B + r) % B = r
  BY TwoDigits
<1>2. \A x, y \in 0..(B - 1) : x * B + y \in 0..(B * B - 1)
  <2> SUFFICES ASSUME NEW x \in 0..(B - 1), NEW y \in 0..(B - 1)
               PROVE  x * B + y \in 0..(B * B - 1)
    OBVIOUS
  <2>1. x * B <= (B - 1) * B /\ x * B >= 0 /\ (B - 1) * B = B * B - B
    BY SMT
  <2> QED
    BY <2>1
<1> QED
  BY <1>1, <1>2 DEF L!Swap

\* A number below B * B has two digits.
LEMMA HasDigits ==
  ASSUME NEW B \in Nat \ {0}, NEW x \in 0..(B * B - 1)
  PROVE  /\ x \div B \in 0..(B - 1) /\ x % B \in 0..(B - 1)
         /\ x = (x \div B) * B + (x % B)
<1> DEFINE q == x \div B
           r == x % B
<1>1. r \in 0..(B - 1) /\ q \in Int /\ x = q * B + r
  BY SMT
<1>2. q >= 0
  BY SMT
<1>3. q < B
  <2> HIDE DEF q, r
  <2> QED
    BY <1>1, <1>2, SMT
<1>4. q \in 0..(B - 1)
  <2> HIDE DEF q, r
  <2> QED
    BY <1>1, <1>2, <1>3
<1>5. x \div B \in 0..(B - 1)
  BY <1>4, Zenon
<1>6. x % B \in 0..(B - 1)
  BY <1>1, Zenon
<1>7. x = (x \div B) * B + (x % B)
  BY SMT
<1> QED
  BY <1>5, <1>6, <1>7, Zenon

\* Swapping the digits twice leaves a number as it is.
LEMMA SwapSwap ==
  ASSUME NEW B \in Nat \ {0}, NEW x \in 0..(B * B - 1)
  PROVE  L!Swap(B, x) \in 0..(B * B - 1) /\ L!Swap(B, L!Swap(B, x)) = x
<1>1. PICK q \in 0..(B - 1), r \in 0..(B - 1) : x = q * B + r
  BY HasDigits
<1>2. L!Swap(B, q * B + r) = r * B + q /\ r * B + q \in 0..(B * B - 1)
  BY SwapDigits
<1>3. L!Swap(B, r * B + q) = q * B + r
  BY SwapDigits
<1> QED
  BY <1>1, <1>2, <1>3

\* The two byte orders: swapping twice leaves a word as it is.
LEMMA SwapTwice ==
  ASSUME NEW x \in L!Words
  PROVE  L!SwapBytes(x) \in L!Words /\ L!SwapBytes(L!SwapBytes(x)) = x
<1>1. Base \in Nat \ {0}
  BY ReadersAssumption DEF L!LdSoCacheAssumption
<1>2. PICK H \in Nat \ {0} : H = Base * Base
  BY <1>1
<1>3. L!Words = 0..(H * H - 1)
  <2>1. Base * Base * Base * Base = H * H
    BY <1>1, <1>2
  <2> QED
    BY <2>1 DEF L!Words
<1> DEFINE q == x \div H
           r == x % H
           u == L!Swap(Base, r)
           w == L!Swap(Base, q)
<1>4. q \in 0..(H - 1) /\ r \in 0..(H - 1) /\ x = q * H + r
  <2>1. x \in 0..(H * H - 1)
    BY <1>3
  <2> QED
    BY <1>2, <2>1, HasDigits
<1>5. \A y : L!SwapBytes(y) = L!Swap(Base, y % H) * H + L!Swap(Base, y \div H)
  BY <1>2 DEF L!SwapBytes
<1>6. L!SwapBytes(x) = u * H + w
  BY <1>5
<1> HIDE DEF q, r
<1>7. /\ u \in 0..(H - 1) /\ w \in 0..(H - 1)
      /\ L!Swap(Base, u) = r /\ L!Swap(Base, w) = q
  BY <1>1, <1>2, <1>4, SwapSwap
<1> HIDE DEF u, w
<1>8. (u * H + w) \div H = u /\ (u * H + w) % H = w /\ u * H + w \in 0..(H * H - 1)
  <2>1. PICK a \in 0..(H - 1), b \in 0..(H - 1) : a = u /\ b = w /\ a \in Nat
    BY <1>2, <1>7
  <2>2. a * H + b \in 0..(H * H - 1)
    BY <1>2, SwapDigits
  <2>3. (a * H + b) \div H = a /\ (a * H + b) % H = b
    BY <1>2, <2>1, TwoDigits
  <2> QED
    BY <2>1, <2>2, <2>3
<1> QED
  BY <1>3, <1>4, <1>5, <1>6, <1>7, <1>8

\* Nothing is nothing in both byte orders.
LEMMA SwapZero == L!SwapBytes(0) = 0
<1>1. Base \in Nat \ {0}
  BY ReadersAssumption DEF L!LdSoCacheAssumption
<1>2. PICK H \in Nat \ {0} : H = Base * Base
  BY <1>1
<1>3. \A B \in Nat \ {0} : 0 * B + 0 = 0 /\ 0 \div B = 0 /\ 0 % B = 0
  <2> SUFFICES ASSUME NEW B \in Nat \ {0} PROVE 0 * B + 0 = 0 /\ 0 \div B = 0 /\ 0 % B = 0
    OBVIOUS
  <2>1. 0 * B + 0 = 0 /\ 0 \in 0..(B - 1)
    OBVIOUS
  <2> QED
    BY <2>1, TwoDigits
<1>4. L!Swap(Base, 0) = 0
  BY <1>1, <1>3 DEF L!Swap
<1> QED
  BY <1>2, <1>3, <1>4 DEF L!SwapBytes

\* The parts of the file, and its size.
LEMMA CacheFacts ==
  ASSUME file \in Caches
  PROVE  /\ Base \in Nat \ {0} /\ HeaderSize \in Nat /\ EntrySize \in Nat \ {0}
         /\ file.entries \in Seq([key : Nat, value : Nat]) /\ file.strings \in Seq(Strings)
         /\ Len(file.entries) \in Nat /\ Len(file.strings) \in Nat
         /\ file.pre \in Nat /\ file.shift \in Nat /\ file.trailing \in Nat
         /\ file.swapped \in BOOLEAN
         /\ L!TableOffset(Len(file.entries)) \in Nat
         /\ Len(file.entries) \in L!Words /\ Len(file.strings) \in L!Words
         /\ \A k \in 1..Len(file.entries) :
              /\ file.entries[k].key \in Nat /\ file.entries[k].value \in Nat
              /\ L!Offset(file, file.entries[k].key) \in L!Words
              /\ L!Offset(file, file.entries[k].value) \in L!Words
<1> DEFINE n == Len(file.entries)
           l == Len(file.strings)
<1>1. Base \in Nat \ {0} /\ HeaderSize \in Nat /\ EntrySize \in Nat \ {0}
  BY ReadersAssumption DEF L!LdSoCacheAssumption
<1>2. L!CacheFile(file) /\ Len(file.entries) \in L!Words /\ Len(file.strings) \in L!Words
  BY ReadersAssumption DEF L!LdSoCacheAssumption
<1>3. \A k \in DOMAIN file.entries :
        /\ L!Offset(file, file.entries[k].key) \in L!Words
        /\ L!Offset(file, file.entries[k].value) \in L!Words
  BY ReadersAssumption DEF L!LdSoCacheAssumption
<1>4. /\ file.entries \in Seq([key : Nat, value : Nat]) /\ file.strings \in Seq(Strings)
      /\ file.pre \in Nat /\ file.shift \in Nat /\ file.trailing \in Nat
      /\ file.swapped \in BOOLEAN
  BY <1>2 DEF L!CacheFile
<1>5. n \in Nat /\ l \in Nat /\ DOMAIN file.entries = 1..n
      /\ \A k \in 1..n : file.entries[k].key \in Nat /\ file.entries[k].value \in Nat
  <2>1. n \in Nat /\ l \in Nat /\ DOMAIN file.entries = 1..n
    BY <1>4
  <2>2. ASSUME NEW k \in 1..n PROVE file.entries[k] \in [key : Nat, value : Nat]
    <3>1. PICK T : T = [key : Nat, value : Nat]
      OBVIOUS
    <3>2. file.entries \in Seq(T) /\ k \in 1..Len(file.entries)
      BY <1>4, <2>2, <3>1
    <3>3. file.entries[k] \in T
      BY <3>2
    <3> QED
      BY <3>1, <3>3
  <2> QED
    BY <2>1, <2>2
<1> HIDE DEF n, l
<1>6. L!TableOffset(n) \in Nat
  BY SMTT(20), <1>1, <1>5 DEF L!TableOffset
<1>10. \A k \in 1..n :
        /\ L!Offset(file, file.entries[k].key) \in L!Words
        /\ L!Offset(file, file.entries[k].value) \in L!Words
  BY <1>3, <1>5
<1> QED
  BY <1>1, <1>2, <1>4, <1>5, <1>6, <1>10 DEF n, l

----------------------------------------------------------------------------
\* The size fits in the order in which the file was written, if nothing is behind the
\* strings; in the other order it fits only for a file that is ambiguous or has no
\* entries.
LEMMA SizeTells ==
  ASSUME file \in Caches
  PROVE  /\ L!SizeFits(Len(file.entries), Len(file.strings)) <=> file.trailing = 0
         /\ L!SizeFits(L!SwapBytes(Len(file.entries)), L!SwapBytes(Len(file.strings)))
              /\ ~L!Ambiguous => L!SwapBytes(Len(file.entries)) = 0 /\ Len(file.entries) = 0
<1> DEFINE n == Len(file.entries)
           l == Len(file.strings)
<1>1. /\ n \in Nat /\ l \in Nat /\ file.pre \in Nat /\ file.trailing \in Nat
      /\ L!TableOffset(n) \in Nat
  BY CacheFacts
<1>2. L!FileSize(file) = file.pre + L!TableOffset(n) + l + file.trailing
  BY DEF L!FileSize
<1>3. ASSUME L!SizeFits(L!SwapBytes(n), L!SwapBytes(l)), ~L!Ambiguous
      PROVE  n = 0 /\ L!SwapBytes(n) = 0
  <2>1. file.entries = <<>>
    BY <1>3 DEF L!Ambiguous
  <2> QED
    BY <2>1, SwapZero
<1> HIDE DEF n, l
<1>4. L!SizeFits(n, l) <=> file.trailing = 0
  BY <1>1, <1>2 DEF L!SizeFits
<1> QED
  BY <1>3, <1>4 DEF n, l

\* What is read of an entry is what ldconfig wrote.
LEMMA EntryIsRead ==
  ASSUME file \in Caches, NEW i \in Nat, L!Offset(file, i) \in L!Words,
         byte_swap <=> file.swapped,
         nlibs = Len(file.entries), len_strings = Len(file.strings)
  PROVE  /\ L!InTable(L!Read(i)) <=> i >= file.shift /\ i - file.shift <= Len(file.strings)
         /\ L!InTable(L!Read(i)) =>
              L!StringsAt(L!Read(i)) = {L!Meant(i)} /\ L!Meant(i) \in AllStrings
<1>1. /\ L!TableOffset(Len(file.entries)) \in Nat /\ file.shift \in Nat
      /\ Len(file.strings) \in Nat /\ file.strings \in Seq(Strings)
  BY CacheFacts
<1>2. L!Read(i) = L!Offset(file, i)
  <2>1. CASE file.swapped
    <3>1. L!Read(i) = L!SwapBytes(L!SwapBytes(L!Offset(file, i)))
      BY <2>1 DEF L!Read, L!Stored, L!Raw
    <3> QED
      BY <3>1, SwapTwice
  <2>2. CASE ~file.swapped
    BY <2>2 DEF L!Read, L!Stored, L!Raw
  <2> QED
    BY <2>1, <2>2
<1> DEFINE d == i - file.shift
           t == L!TableOffset(Len(file.entries))
<1>3. L!Offset(file, i) = t + d /\ d \in Int
  BY <1>1 DEF L!Offset
<1> HIDE DEF d, t
<1>4. t \in Nat /\ t + d - t = d /\ (t + d >= t <=> d >= 0)
  BY <1>1, <1>3 DEF t
<1>5. L!InTable(L!Read(i)) <=> d >= 0 /\ d <= Len(file.strings)
  BY <1>2, <1>3, <1>4 DEF L!InTable, t
<1>6. d >= 0 <=> i >= file.shift
  BY <1>1 DEF d
<1>7. ASSUME d >= 0, d <= Len(file.strings)
      PROVE  L!StringsAt(L!Read(i)) = {L!Meant(i)} /\ L!Meant(i) \in AllStrings
  <2>1. L!StringsAt(L!Read(i)) = IF d = Len(file.strings) THEN {Empty} ELSE {file.strings[d + 1]}
    <3>1. /\ L!TableOffset(nlibs) = t /\ L!TableOffset(Len(file.entries)) = t
          /\ len_strings = Len(file.strings) /\ L!Read(i) = t + d
      BY <1>2, <1>3 DEF t
    <3>2. /\ (t + d = t + Len(file.strings) <=> d = Len(file.strings))
          /\ d # Len(file.strings) => t + d \in t..(t + Len(file.strings) - 1)
      BY <1>1, <1>3, <1>4, <1>7
    <3>3. PICK o, a, b :
            /\ o = L!Read(i) /\ a = L!TableOffset(nlibs) + len_strings
            /\ b = L!TableOffset(Len(file.entries))
      OBVIOUS
    <3>4. L!StringsAt(o) =
            IF o = a THEN {Empty}
            ELSE IF o \in b..(b + Len(file.strings) - 1) THEN {file.strings[o - b + 1]}
            ELSE L!AllStrings
      BY <3>3 DEF L!StringsAt
    <3>5. o = t + d /\ a = t + Len(file.strings) /\ b = t
      BY <3>1, <3>3
    <3>6. CASE d = Len(file.strings)
      BY <3>3, <3>4, <3>5, <3>6
    <3>7. CASE d # Len(file.strings)
      <4>1. o # a /\ o \in b..(b + Len(file.strings) - 1) /\ o - b + 1 = d + 1
        BY <1>3, <1>4, <3>2, <3>5, <3>7
      <4> QED
        BY <3>3, <3>4, <3>7, <4>1, Zenon
    <3> QED
      BY <3>6, <3>7
  <2>2. L!Meant(i) = IF d = Len(file.strings) THEN Empty ELSE file.strings[d + 1]
    BY DEF L!Meant, d
  <2>3. d # Len(file.strings) => file.strings[d + 1] \in Strings
    BY <1>1, <1>3, <1>7
  <2> QED
    BY <2>1, <2>2, <2>3 DEF AllStrings, L!AllStrings
<1> QED
  BY <1>5, <1>6, <1>7 DEF d

\* One entry more.
LEMMA PathsGrow ==
  ASSUME NEW n \in Nat, NEW s \in AllStrings, NEW paths \in Seq(AllStrings),
         L!PathsOf(paths, s, n), NEW v, v = L!Meant(file.entries[n + 1].value)
  PROVE  /\ L!Meant(file.entries[n + 1].key) = s => L!PathsOf(Append(paths, v), s, n + 1)
         /\ L!Meant(file.entries[n + 1].key) # s => L!PathsOf(paths, s, n + 1)
<1> DEFINE Mine(m) == {k \in 1..m : L!Meant(file.entries[k].key) = s}
           IsAt(p, m, at) ==
             /\ \A k \in Mine(m) : \E j \in DOMAIN p : at[j] = k
             /\ \A i, j \in DOMAIN p : i < j => at[i] < at[j]
             /\ \A j \in DOMAIN p : p[j] = L!Meant(file.entries[at[j]].value)
<1>1. PICK at \in [DOMAIN paths -> Mine(n)] : IsAt(paths, n, at)
  <2>1. L!PathsOf(paths, s, n) <=> \E at \in [DOMAIN paths -> Mine(n)] : IsAt(paths, n, at)
    BY DEF L!PathsOf
  <2> HIDE DEF IsAt, Mine
  <2> QED
    BY <2>1
<1>2. Mine(n) \subseteq 1..n /\ Mine(n) \subseteq Nat
  OBVIOUS
<1>3. CASE L!Meant(file.entries[n + 1].key) # s
  <2>1. Mine(n + 1) = Mine(n)
    BY <1>3
  <2>2. L!PathsOf(paths, s, n + 1) <=>
          \E a \in [DOMAIN paths -> Mine(n + 1)] : IsAt(paths, n + 1, a)
    BY DEF L!PathsOf
  <2>3. IsAt(paths, n + 1, at)
    BY <1>1, <2>1
  <2> HIDE DEF IsAt, Mine
  <2> QED
    BY <1>1, <1>3, <2>1, <2>2, <2>3
<1>4. CASE L!Meant(file.entries[n + 1].key) = s
  <2> DEFINE l == Len(paths)
             more == Append(paths, v)
             at2 == [j \in 1..(l + 1) |-> IF j = l + 1 THEN n + 1 ELSE at[j]]
  <2>1. l \in Nat /\ DOMAIN paths = 1..l /\ DOMAIN more = 1..(l + 1)
        /\ more[l + 1] = v /\ \A j \in 1..l : more[j] = paths[j]
    OBVIOUS
  <2>2. Mine(n + 1) = Mine(n) \cup {n + 1}
    BY <1>4
  <2> HIDE DEF l, more, Mine
  <2>3. at2 \in [DOMAIN more -> Mine(n + 1)]
    BY <1>1, <2>1, <2>2
  <2>4. ASSUME NEW k \in Mine(n + 1) PROVE \E j \in DOMAIN more : at2[j] = k
    <3>1. CASE k = n + 1
      BY <2>1, <3>1
    <3>2. CASE k \in Mine(n)
      <4>1. PICK j \in DOMAIN paths : at[j] = k
        BY <1>1, <3>2
      <4>2. j \in DOMAIN more /\ at2[j] = k
        BY <2>1, <4>1
      <4> QED
        BY <4>2
    <3> QED
      BY <2>2, <3>1, <3>2
  <2>5. ASSUME NEW i \in DOMAIN more, NEW j \in DOMAIN more, i < j
        PROVE  at2[i] < at2[j]
    <3>1. i \in 1..l /\ at2[i] = at[i] /\ at[i] \in 1..n
      BY <1>1, <1>2, <2>1, <2>5
    <3>2. CASE j = l + 1
      BY <2>1, <3>1, <3>2
    <3>3. CASE j \in 1..l
      <4>1. at2[j] = at[j]
        BY <2>1, <3>3
      <4> QED
        BY <1>1, <2>1, <2>5, <3>1, <3>3, <4>1
    <3> QED
      BY <2>1, <3>2, <3>3
  <2>6. ASSUME NEW j \in DOMAIN more
        PROVE  more[j] = L!Meant(file.entries[at2[j]].value)
    <3>1. CASE j = l + 1
      BY <2>1, <3>1
    <3>2. CASE j \in 1..l
      BY <1>1, <2>1, <3>2
    <3> QED
      BY <2>1, <3>1, <3>2
  <2>7. IsAt(more, n + 1, at2)
    BY <2>4, <2>5, <2>6
  <2>8. L!PathsOf(more, s, n + 1) <=>
          \E a \in [DOMAIN more -> Mine(n + 1)] : IsAt(more, n + 1, a)
    BY DEF L!PathsOf, Mine
  <2>9. L!PathsOf(more, s, n + 1)
    <3> HIDE DEF IsAt, at2
    <3> QED
      BY <2>3, <2>7, <2>8
  <2> QED
    BY <1>4, <2>9 DEF more
<1> QED
  BY <1>3, <1>4

----------------------------------------------------------------------------
\* Before the file is opened.
LEMMA StartCache ==
  ASSUME file \in Caches, L!Start
  PROVE  CacheInv
<1> USE DEF L!Start
<1>1. OrderInv
  BY DEF OrderInv
<1>2. cache \in [AllStrings -> Seq(AllStrings)]
  BY DEF AllStrings, L!AllStrings
<1>3. next \in 1..(Len(file.entries) + 1)
  BY CacheFacts
<1>4. ASSUME NEW s \in AllStrings PROVE L!PathsOf(cache[s], s, next - 1)
  <2>1. cache[s] = <<>> /\ next - 1 = 0 /\ DOMAIN cache[s] = {}
    BY DEF AllStrings, L!AllStrings
  <2> DEFINE mine == {k \in 1..(next - 1) : L!Meant(file.entries[k].key) = s}
             at == [j \in {} |-> 0]
  <2>2. mine = {} /\ at \in [{} -> {}]
    BY <2>1
  <2> HIDE DEF mine
  <2>3. /\ at \in [DOMAIN cache[s] -> mine]
        /\ \A k \in mine : \E j \in DOMAIN cache[s] : at[j] = k
        /\ \A i, j \in DOMAIN cache[s] : i < j => at[i] < at[j]
        /\ \A j \in DOMAIN cache[s] : cache[s][j] = L!Meant(file.entries[at[j]].value)
    BY <2>1, <2>2
  <2> HIDE DEF at
  <2> QED
    BY <2>3 DEF L!PathsOf, mine
<1>5. L!FailureMeansDamaged
  BY DEF L!FailureMeansDamaged
<1> QED
  BY <1>1, <1>2, <1>3, <1>4, <1>5 DEF CacheInv, TableInv, TableRead

\* Whether a file is ambiguous does not change.
LEMMA AmbiguousStays == file' = file => (L!Ambiguous' <=> L!Ambiguous)
BY DEF L!Ambiguous, L!SizeFits, L!FileSize

\* What an entry means does not change.
LEMMA PathsStay ==
  ASSUME UNCHANGED file, NEW s, NEW n, NEW paths, L!PathsOf(paths, s, n)
  PROVE  L!PathsOf(paths, s, n)'
<1>1. \A i : L!Meant(i)' = L!Meant(i)
  BY DEF L!Meant
<1>2. PICK at \in [DOMAIN paths -> {k \in 1..n : L!Meant(file.entries[k].key) = s}] :
        /\ \A k \in 1..n : L!Meant(file.entries[k].key) = s => \E j \in DOMAIN paths : at[j] = k
        /\ \A i, j \in DOMAIN paths : i < j => at[i] < at[j]
        /\ \A j \in DOMAIN paths : paths[j] = L!Meant(file.entries[at[j]].value)
  BY DEF L!PathsOf
<1> DEFINE mine == {k \in 1..n : L!Meant(file.entries[k].key)' = s}
<1>3. at \in [DOMAIN paths -> mine]
  BY <1>1, <1>2
<1>4. \A k \in mine : \E j \in DOMAIN paths : at[j] = k
  BY <1>1, <1>2
<1>5. \A j \in DOMAIN paths : paths[j] = L!Meant(file.entries[at[j]].value)'
  BY <1>1, <1>2
<1> QED
  BY <1>2, <1>3, <1>4, <1>5 DEF L!PathsOf

\* The table is the same as before.
LEMMA TableStays ==
  ASSUME CacheInv, UNCHANGED <<file, next, cache>>,
         cpc' = "ok" /\ ~L!Ambiguous => next = Len(file.entries) + 1
  PROVE  TableInv'
<1> SUFFICES ASSUME TableRead, ~L!Ambiguous PROVE TableRead'
  BY AmbiguousStays DEF CacheInv, TableInv
<1>1. ASSUME NEW s \in AllStrings PROVE L!PathsOf(cache[s], s, next - 1)'
  <2>1. PICK paths, n : paths = cache[s] /\ n = next - 1
    OBVIOUS
  <2>2. L!PathsOf(paths, s, n)
    BY <2>1 DEF TableRead
  <2>3. L!PathsOf(paths, s, n)'
    BY <2>2, PathsStay
  <2> QED
    BY <2>1, <2>3
<1> QED
  BY <1>1 DEF TableRead, AllStrings, L!AllStrings

\* The order of the bytes is guessed.
LEMMA StepOrder ==
  ASSUME CacheInv, L!NativeOrder \/ L!OtherOrder
  PROVE  CacheInv'
<1> DEFINE n == Len(file.entries)
           l == Len(file.strings)
           sn == L!SwapBytes(n)
           sl == L!SwapBytes(l)
<1>1. /\ file \in Caches /\ cpc = "size" /\ cpc' \in {"entries", "err"}
      /\ UNCHANGED <<file, next, cache>>
      /\ nlibs = L!Raw(n) /\ len_strings = L!Raw(l) /\ ~byte_swap
  BY DEF CacheInv, OrderInv, L!NativeOrder, L!OtherOrder
<1>2. n \in Nat /\ l \in Nat /\ file.swapped \in BOOLEAN /\ file.trailing \in Nat
  BY <1>1, CacheFacts
<1>3. /\ L!SizeFits(n, l) <=> file.trailing = 0
      /\ L!SizeFits(sn, sl) /\ ~L!Ambiguous => sn = 0 /\ n = 0
  BY <1>1, SizeTells
<1>4. L!SwapBytes(sn) = n /\ L!SwapBytes(sl) = l
  BY <1>1, CacheFacts, SwapTwice
<1>5. TableInv' /\ (L!Ambiguous' <=> L!Ambiguous)
  BY <1>1, TableStays, AmbiguousStays
<1>6. ASSUME cpc' = "err" => file.trailing > 0,
             cpc' = "entries" /\ ~L!Ambiguous =>
               nlibs' = n /\ (n > 0 => len_strings' = l /\ (byte_swap' <=> file.swapped))
      PROVE  CacheInv'
  <2>1. OrderInv'
    BY <1>1, <1>5, <1>6 DEF OrderInv
  <2> QED
    BY <1>1, <1>5, <1>6, <2>1 DEF CacheInv, L!FailureMeansDamaged
<1> HIDE DEF n, l, sn, sl
<1>7. CASE L!NativeOrder
  <2>1. /\ cpc' = "entries" /\ UNCHANGED <<nlibs, len_strings, byte_swap>>
        /\ L!SizeFits(nlibs, len_strings)
    BY <1>7 DEF L!NativeOrder
  <2>2. CASE file.swapped
    <3>1. nlibs = sn /\ len_strings = sl
      BY <1>1, <2>2 DEF L!Raw, sn, sl
    <3>2. ~L!Ambiguous => sn = 0 /\ n = 0
      BY <1>3, <2>1, <3>1
    <3> QED
      BY <1>6, <2>1, <3>1, <3>2
  <2>3. CASE ~file.swapped
    <3>1. nlibs = n /\ len_strings = l
      BY <1>1, <2>3 DEF L!Raw
    <3> QED
      BY <1>1, <1>6, <2>1, <2>3, <3>1
  <2> QED
    BY <2>2, <2>3
<1>8. CASE L!OtherOrder
  <2>1. /\ ~L!SizeFits(nlibs, len_strings)
        /\ nlibs' = L!SwapBytes(nlibs) /\ len_strings' = L!SwapBytes(len_strings)
    BY <1>8 DEF L!OtherOrder
  <2>2. PICK fits \in BOOLEAN : fits <=> L!SizeFits(L!SwapBytes(nlibs), L!SwapBytes(len_strings))
    OBVIOUS
  <2>3. byte_swap' <=> fits
    BY <1>8, <2>2 DEF L!OtherOrder, L!Swapped
  <2>4. cpc' = IF fits THEN "entries" ELSE "err"
    BY <1>8, <2>1, <2>2 DEF L!OtherOrder
  <2>5. CASE file.swapped
    <3>1. nlibs = sn /\ len_strings = sl
      BY <1>1, <2>5 DEF L!Raw, sn, sl
    <3>2. nlibs' = n /\ len_strings' = l
      BY <1>4, <2>1, <3>1
    <3>3. fits <=> file.trailing = 0
      BY <1>3, <1>4, <2>2, <3>1
    <3> QED
      BY <1>2, <1>6, <2>3, <2>4, <2>5, <3>2, <3>3
  <2>6. CASE ~file.swapped
    <3>1. nlibs = n /\ len_strings = l
      BY <1>1, <2>6 DEF L!Raw
    <3>2. nlibs' = sn /\ len_strings' = sl
      BY <2>1, <3>1 DEF sn, sl
    <3>3. file.trailing > 0
      BY <1>2, <1>3, <2>1, <3>1
    <3>4. fits /\ ~L!Ambiguous => sn = 0 /\ n = 0
      BY <1>3, <2>2, <3>1 DEF sn, sl
    <3> QED
      BY <1>6, <2>3, <2>4, <3>2, <3>3, <3>4
  <2> QED
    BY <2>5, <2>6
<1> QED
  BY <1>7, <1>8

\* An entry is inserted, or the slice of the string table panics.
LEMMA StepInsertEntry ==
  ASSUME CacheInv, L!InsertEntry
  PROVE  CacheInv'
<1> DEFINE key == file.entries[next].key
           value == file.entries[next].value
           k == L!Read(key)
           v == L!Read(value)
<1>0. CASE L!Ambiguous
  <2>1. /\ UNCHANGED <<file, nlibs, len_strings, byte_swap>> /\ cpc = "entries"
        /\ cpc' \in {"entries", "panic"} /\ file \in Caches
    BY DEF L!InsertEntry, CacheInv
  <2>2. L!Ambiguous'
    BY <1>0, <2>1, AmbiguousStays
  <2> QED
    BY <2>1, <2>2 DEF CacheInv, OrderInv, TableInv, L!FailureMeansDamaged
<1> SUFFICES ASSUME ~L!Ambiguous PROVE CacheInv'
  BY <1>0
<1>1. /\ file \in Caches /\ cpc = "entries" /\ next <= nlibs
      /\ UNCHANGED <<file, nlibs, len_strings, byte_swap>>
      /\ nlibs = Len(file.entries)
      /\ nlibs > 0 => len_strings = Len(file.strings) /\ (byte_swap <=> file.swapped)
      /\ cache \in [AllStrings -> Seq(AllStrings)]
      /\ next \in 1..(Len(file.entries) + 1)
      /\ \A s \in AllStrings : L!PathsOf(cache[s], s, next - 1)
  BY DEF CacheInv, OrderInv, TableInv, TableRead, L!InsertEntry
<1>2. Len(file.entries) \in Nat /\ next \in 1..Len(file.entries) /\ Len(file.entries) > 0
  BY <1>1, CacheFacts
<1>3. /\ key \in Nat /\ L!Offset(file, key) \in L!Words
      /\ value \in Nat /\ L!Offset(file, value) \in L!Words
  BY <1>1, <1>2, CacheFacts
<1>4. len_strings = Len(file.strings) /\ (byte_swap <=> file.swapped)
  BY <1>1, <1>2
<1> HIDE DEF key, value
<1>5. /\ L!InTable(k) <=> key >= file.shift /\ key - file.shift <= Len(file.strings)
      /\ L!InTable(k) => L!StringsAt(k) = {L!Meant(key)} /\ L!Meant(key) \in AllStrings
  BY <1>1, <1>3, <1>4, EntryIsRead
<1>6. /\ L!InTable(v) <=> value >= file.shift /\ value - file.shift <= Len(file.strings)
      /\ L!InTable(v) => L!StringsAt(v) = {L!Meant(value)} /\ L!Meant(value) \in AllStrings
  BY <1>1, <1>3, <1>4, EntryIsRead
<1>7. IF L!InTable(k) /\ L!InTable(v)
      THEN /\ \E x \in L!StringsAt(k), y \in L!StringsAt(v) :
                cache' = [cache EXCEPT ![x] = Append(cache[x], y)]
           /\ next' = next + 1 /\ cpc' = cpc
      ELSE cpc' = "panic" /\ UNCHANGED <<cache, next>>
  <2>1. L!EntriesAt(next) = {<<k, v>>}
    BY <1>1, <1>2 DEF L!EntriesAt, key, value
  <2> HIDE DEF k, v
  <2>2. PICK e : e = <<k, v>>
    OBVIOUS
  <2>3. IF L!InTable(e[1]) /\ L!InTable(e[2])
        THEN /\ \E x \in L!StringsAt(e[1]), y \in L!StringsAt(e[2]) :
                  cache' = [cache EXCEPT ![x] = Append(cache[x], y)]
             /\ next' = next + 1 /\ cpc' = cpc
        ELSE cpc' = "panic" /\ UNCHANGED <<cache, next>>
    BY <2>1, <2>2 DEF L!InsertEntry
  <2> QED
    BY <2>2, <2>3
<1> HIDE DEF k, v
<1>8. CASE ~(L!InTable(k) /\ L!InTable(v))
  <2>1. cpc' = "panic" /\ UNCHANGED <<cache, next>>
    BY <1>7, <1>8
  <2>2. TableInv'
    BY <1>1, <2>1, TableStays
  <2>3. /\ file.shift \in Nat /\ Len(file.strings) \in Nat
    BY <1>1, CacheFacts
  <2>4. \E i \in {key, value} : i < file.shift \/ i - file.shift > Len(file.strings)
    BY <1>3, <1>5, <1>6, <1>8, <2>3
  <2>5. L!Damaged
    BY <1>2, <2>4 DEF L!Damaged, key, value
  <2>6. L!Damaged'
    BY <1>1, <2>5 DEF L!Damaged
  <2> QED
    BY <1>1, <2>1, <2>2, <2>6 DEF CacheInv, OrderInv, L!FailureMeansDamaged
<1>9. CASE L!InTable(k) /\ L!InTable(v)
  <2> DEFINE a == L!Meant(key)
             b == L!Meant(value)
  <2>1. /\ a \in AllStrings /\ b \in AllStrings
        /\ cache' = [cache EXCEPT ![a] = Append(cache[a], b)]
        /\ next' = next + 1 /\ cpc' = "entries"
    BY <1>1, <1>5, <1>6, <1>7, <1>9
  <2>2. /\ cache' \in [AllStrings -> Seq(AllStrings)]
        /\ next' \in 1..(Len(file.entries) + 1) /\ next' - 1 = next
    <3> HIDE DEF a, b
    <3> QED
      BY <1>1, <1>2, <2>1
  <2>3. ASSUME NEW s \in AllStrings PROVE L!PathsOf(cache'[s], s, next)
    <3>1. PICK n \in Nat : n = next - 1 /\ n + 1 = next
      BY <1>2
    <3>2. /\ L!Meant(file.entries[n + 1].key) = s => L!PathsOf(Append(cache[s], b), s, n + 1)
          /\ L!Meant(file.entries[n + 1].key) # s => L!PathsOf(cache[s], s, n + 1)
      <4>1. L!PathsOf(cache[s], s, n) /\ cache[s] \in Seq(AllStrings)
        BY <1>1, <3>1
      <4>2. b = L!Meant(file.entries[n + 1].value)
        BY <3>1 DEF value
      <4> HIDE DEF b
      <4> QED
        BY <4>1, <4>2, PathsGrow
    <3>3. L!Meant(file.entries[n + 1].key) = a
      BY <3>1 DEF key
    <3> HIDE DEF a, b
    <3>4. CASE a = s
      <4>1. cache'[s] = Append(cache[s], b)
        BY <1>1, <2>1, <3>4
      <4> QED
        BY <3>1, <3>2, <3>3, <3>4, <4>1
    <3>5. CASE a # s
      <4>1. cache'[s] = cache[s]
        BY <1>1, <2>1, <3>5
      <4> QED
        BY <3>1, <3>2, <3>3, <3>5, <4>1
    <3> QED
      BY <3>4, <3>5
  <2>4. TableInv'
    <3>1. ASSUME NEW s \in AllStrings PROVE L!PathsOf(cache[s], s, next - 1)'
      <4>1. PICK paths, n : paths = cache'[s] /\ n = next' - 1
        OBVIOUS
      <4>2. L!PathsOf(paths, s, n)
        BY <2>2, <2>3, <4>1
      <4>3. L!PathsOf(paths, s, n)'
        BY <1>1, <4>2, PathsStay
      <4> QED
        BY <4>1, <4>3
    <3> QED
      BY <1>1, <2>1, <2>2, <3>1 DEF TableInv, TableRead, AllStrings, L!AllStrings
  <2>5. OrderInv'
    BY <1>1, <1>4, <2>1, AmbiguousStays DEF OrderInv
  <2> QED
    BY <1>1, <2>1, <2>4, <2>5 DEF CacheInv, L!FailureMeansDamaged
<1> QED
  BY <1>8, <1>9

\* Every step of the parser preserves the invariant.
LEMMA StepCache ==
  ASSUME CacheInv, L!Next
  PROVE  CacheInv'
<1>1. CASE L!Open
  <2>1. /\ cpc = "open" /\ UNCHANGED <<file, nlibs, len_strings, byte_swap, next, cache>>
        /\ cpc' = IF file.opens /\ file.magic THEN "magic" ELSE "err"
    BY <1>1 DEF L!Open
  <2>2. TableInv'
    BY <2>1, TableStays
  <2>3. file' \in Caches /\ OrderInv'
    BY <2>1, AmbiguousStays DEF CacheInv, OrderInv
  <2> QED
    BY <2>1, <2>2, <2>3 DEF CacheInv, L!FailureMeansDamaged
<1>2. CASE L!ReadCacheFileNew
  <2>1. /\ cpc = "magic" /\ UNCHANGED <<file, byte_swap, next, cache>>
        /\ cpc' = IF file.version THEN "size" ELSE "err"
        /\ nlibs' = L!Raw(Len(file.entries)) /\ len_strings' = L!Raw(Len(file.strings))
    BY <1>2 DEF L!ReadCacheFileNew
  <2>2. TableInv'
    BY <2>1, TableStays
  <2>3. file' \in Caches /\ OrderInv'
    BY <2>1 DEF CacheInv, OrderInv, L!Raw
  <2> QED
    BY <2>1, <2>2, <2>3 DEF CacheInv, L!FailureMeansDamaged
<1>3. CASE L!NativeOrder \/ L!OtherOrder
  BY <1>3, StepOrder
<1>4. CASE L!InsertEntry
  BY <1>4, StepInsertEntry
<1>5. CASE L!AllInserted
  <2>1. /\ cpc = "entries" /\ cpc' = "ok" /\ next > nlibs
        /\ UNCHANGED <<file, nlibs, len_strings, byte_swap, next, cache>>
    BY <1>5 DEF L!AllInserted
  <2>2. /\ file \in Caches
        /\ ~L!Ambiguous => nlibs = Len(file.entries) /\ next \in 1..(Len(file.entries) + 1)
    BY <2>1 DEF CacheInv, OrderInv, TableInv, TableRead
  <2>3. ~L!Ambiguous => next = Len(file.entries) + 1
    BY <2>1, <2>2, CacheFacts
  <2>4. TableInv'
    BY <2>1, <2>3, TableStays
  <2>5. OrderInv'
    BY <2>1, AmbiguousStays DEF CacheInv, OrderInv
  <2> QED
    BY <2>1, <2>2, <2>4, <2>5 DEF CacheInv, L!FailureMeansDamaged
<1> QED
  BY <1>1, <1>2, <1>3, <1>4, <1>5 DEF L!Next

\* The parser does nothing while the ELF file is read.
LEMMA CacheStays ==
  ASSUME CacheInv, UNCHANGED cacheVars
  PROVE  CacheInv'
<1> USE DEF cacheVars
<1>1. TableInv'
  BY TableStays DEF CacheInv, TableInv, TableRead
<1>2. OrderInv'
  BY AmbiguousStays DEF CacheInv, OrderInv, L!Raw
<1>3. L!FailureMeansDamaged'
  BY AmbiguousStays DEF CacheInv, L!FailureMeansDamaged, L!Damaged
<1> QED
  BY <1>1, <1>2, <1>3 DEF CacheInv

----------------------------------------------------------------------------
(***************************************************************************)
(* The ELF file.                                                           *)
(***************************************************************************)

\* The parts of the file.
LEMMA ElfFacts ==
  ASSUME elf \in Elfs
  PROVE  /\ elf.n \in Nat /\ Indices = 0..(elf.n - 1) /\ elf.n \notin Indices
         /\ elf.type \in [Indices -> Types] /\ elf.link \in [Indices -> Nat]
         /\ elf.strings \in [Indices -> Seq(Strings)]
         /\ elf.unreadable \subseteq Indices
         /\ elf.entries \in Seq(Entry) /\ Len(elf.entries) \in Nat
         /\ DOMAIN elf.entries = 1..Len(elf.entries)
         /\ \A k \in 1..Len(elf.entries) : elf.entries[k].tag \in Tags /\ elf.entries[k].val \in Nat
<1>1. ElfFile(elf)
  BY ElfLoadAssumption
<1>2. /\ elf.n \in Nat /\ elf.type \in [Indices -> Types] /\ elf.link \in [Indices -> Nat]
      /\ elf.strings \in [Indices -> Seq(Strings)] /\ elf.entries \in Seq(Entry)
      /\ elf.unreadable \subseteq Indices
  BY <1>1 DEF ElfFile, Indices
<1>3. Len(elf.entries) \in Nat /\ DOMAIN elf.entries = 1..Len(elf.entries)
  BY <1>2
<1>4. \A k \in 1..Len(elf.entries) : elf.entries[k] \in Entry
  BY <1>2
<1>5. \A k \in 1..Len(elf.entries) : elf.entries[k].tag \in Tags /\ elf.entries[k].val \in Nat
  BY <1>4 DEF Entry
<1> QED
  BY <1>2, <1>3, <1>5 DEF Indices

\* The entries that are read are the first ones, and all before the last one are good.
LEMMA FirstEntries ==
  ASSUME elf \in Elfs
  PROVE  /\ EntriesRead \in Seq(Entry) /\ Len(EntriesRead) \in 0..Len(elf.entries)
         /\ \A k \in 1..Len(EntriesRead) : EntriesRead[k] = elf.entries[k]
         /\ \A k \in 1..(Len(EntriesRead) - 1) :
              elf.entries[k].tag \notin {"NULL", "cut", "badFlags"}
         /\ Len(EntriesRead) < Len(elf.entries) =>
              /\ Len(EntriesRead) > 0
              /\ elf.entries[Len(EntriesRead)].tag \in {"NULL", "cut", "badFlags"}
<1> DEFINE Ends(k) == elf.entries[k].tag \in {"NULL", "cut", "badFlags"}
           n == Len(elf.entries)
           Last == {k \in 1..n : Ends(k) /\ \A j \in 1..(k - 1) : ~Ends(j)}
           last == CHOOSE k \in Last : TRUE
<1>1. elf.entries \in Seq(Entry) /\ n \in Nat
  BY ElfFacts
<1>2. EntriesRead = IF Last = {} THEN elf.entries ELSE SubSeq(elf.entries, 1, last)
  BY DEF EntriesRead
<1>3. CASE Last = {}
  <2>1. EntriesRead = elf.entries
    BY <1>2, <1>3
  <2> DEFINE E == {k \in 1..n : Ends(k)}
  <2>2. E = {}
    <3>1. SUFFICES ASSUME E # {} PROVE FALSE
      OBVIOUS
    <3>2. E \in SUBSET Nat
      BY <1>1
    <3>3. PICK k \in E : \A j \in E : k <= j
      <4> HIDE DEF E
      <4> QED
        BY <3>1, <3>2, LeastNatural
    <3>4. \A j \in 1..(k - 1) : ~Ends(j)
      BY <1>1, <3>3
    <3>5. k \in Last
      BY <3>3, <3>4
    <3> QED
      BY <1>3, <3>5
  <2>3. \A k \in 1..(n - 1) : ~Ends(k)
    BY <1>1, <2>2
  <2> QED
    BY <1>1, <2>1, <2>3
<1>4. CASE Last # {}
  <2>1. last \in 1..n /\ Ends(last) /\ \A j \in 1..(last - 1) : ~Ends(j)
    BY <1>4
  <2> HIDE DEF last, Ends
  <2>2. EntriesRead = SubSeq(elf.entries, 1, last)
    BY <1>2, <1>4
  <2>3. /\ EntriesRead \in Seq(Entry) /\ Len(EntriesRead) = last
        /\ \A k \in 1..last : EntriesRead[k] = elf.entries[k]
    <3>1. PICK s, T : s = elf.entries /\ T = Entry
      OBVIOUS
    <3>2. s \in Seq(T) /\ last \in 1..Len(s)
      BY <1>1, <2>1, <3>1
    <3>3. /\ SubSeq(s, 1, last) \in Seq(T) /\ Len(SubSeq(s, 1, last)) = last
          /\ \A k \in 1..last : SubSeq(s, 1, last)[k] = s[k]
      BY <3>2
    <3> QED
      BY <2>2, <3>1, <3>3
  <2>4. last > 0
    BY <1>1, <2>1
  <2> QED
    BY <1>1, <2>1, <2>3, <2>4 DEF Ends
<1> QED
  BY <1>3, <1>4

\* A name is one of the file or one of the two that stand for none.
LEMMA NameMeantType ==
  ASSUME elf \in Elfs, NEW i \in Indices, NEW val \in Nat
  PROVE  NameMeant(i, val) \in Strings \cup {Corrupt, Empty}
<1>1. /\ elf.n \in Nat /\ Indices = 0..(elf.n - 1) /\ elf.link[i] \in Nat
      /\ elf.strings \in [Indices -> Seq(Strings)]
  BY ElfFacts
<1>2. CASE elf.link[i] \in 1..(elf.n - 1)
  <2>1. elf.link[i] \in Indices
    BY <1>1, <1>2
  <2>2. PICK tab \in Seq(Strings) : tab = elf.strings[elf.link[i]]
    BY <1>1, <2>1
  <2>3. val \in DOMAIN tab => tab[val] \in Strings
    BY <2>2
  <2>4. NameMeant(i, val) = IF val \in DOMAIN tab THEN tab[val] ELSE Corrupt
    BY <1>2, <2>2 DEF NameMeant
  <2> QED
    BY <2>3, <2>4
<1>3. CASE elf.link[i] \notin 1..(elf.n - 1)
  BY <1>3 DEF NameMeant
<1> QED
  BY <1>2, <1>3

\* What load() puts into the table has the types of a section.
LEMMA ContentTypes ==
  ASSUME elf \in Elfs, NEW i \in Indices
  PROVE  /\ None \in Contents /\ Unloaded \in Contents /\ AStrtab \in Contents
         /\ DynamicOf(i) \in Contents
         /\ None # Unloaded /\ AStrtab # Unloaded /\ DynamicOf(i) # Unloaded
         /\ None.kind = "None" /\ Unloaded.kind = "Unloaded" /\ AStrtab.kind = "Strtab"
         /\ DynamicOf(i).kind = "Dynamic"
<1> DEFINE Row == [tag : Tags, name : Strings \cup {Corrupt, Empty}]
<1>1. <<>> \in Seq(Row)
  OBVIOUS
<1>2. None \in Contents /\ Unloaded \in Contents /\ AStrtab \in Contents
  BY <1>1 DEF None, Unloaded, AStrtab, Contents
<1>3. DynamicOf(i).list \in Seq(Row)
  <2>1. PICK r \in Nat : r = Len(EntriesRead)
    BY FirstEntries
  <2>2. ASSUME NEW k \in 1..r
        PROVE  [tag |-> EntriesRead[k].tag, name |-> NameMeant(i, EntriesRead[k].val)] \in Row
    <3>1. EntriesRead[k].tag \in Tags /\ EntriesRead[k].val \in Nat
      <4>1. EntriesRead[k] = elf.entries[k]
        BY <2>1, <2>2, FirstEntries
      <4>2. Len(elf.entries) \in Nat /\ r \in 0..Len(elf.entries)
        BY <2>1, FirstEntries, ElfFacts
      <4>3. k \in 1..Len(elf.entries)
        BY <2>2, <4>2
      <4> QED
        BY <4>1, <4>3, ElfFacts
    <3>2. NameMeant(i, EntriesRead[k].val) \in Strings \cup {Corrupt, Empty}
      BY <3>1, NameMeantType
    <3> QED
      BY <3>1, <3>2
  <2>3. DynamicOf(i).list =
          [k \in 1..r |-> [tag |-> EntriesRead[k].tag, name |-> NameMeant(i, EntriesRead[k].val)]]
    BY <2>1 DEF DynamicOf
  <2>4. DynamicOf(i).list \in [1..r -> Row]
    <3> HIDE DEF Row
    <3> QED
      BY <2>2, <2>3
  <2> HIDE DEF Row
  <2> QED
    BY <2>1, <2>4
<1>4. DynamicOf(i).kind = "Dynamic" /\ DynamicOf(i) \in Contents
  <2>1. DynamicOf(i) = [kind |-> "Dynamic", list |-> DynamicOf(i).list]
    BY DEF DynamicOf
  <2>2. PICK l : l = DynamicOf(i).list
    OBVIOUS
  <2>3. DynamicOf(i) = [kind |-> "Dynamic", list |-> l] /\ l \in Seq(Row)
    BY <1>3, <2>1, <2>2
  <2> QED
    BY <2>3 DEF Contents
<1>5. None.kind = "None" /\ Unloaded.kind = "Unloaded" /\ AStrtab.kind = "Strtab"
  BY DEF None, Unloaded, AStrtab
<1> QED
  BY <1>2, <1>4, <1>5

----------------------------------------------------------------------------
(***************************************************************************)
(* One call of load().                                                     *)
(***************************************************************************)

\* The innermost call, and those that wait for it.
LEMMA TopFacts ==
  ASSUME TypeInv, stack # <<>>
  PROVE  /\ Len(stack) \in Nat \ {0} /\ DOMAIN stack = 1..Len(stack)
         /\ \A k \in DOMAIN stack :
              /\ stack[k].index \in Indices /\ stack[k].sec \in SectionSet
              /\ stack[k].taken \in BOOLEAN
         /\ Top \in FrameSet /\ Top = stack[Len(stack)] /\ Len(stack) \in DOMAIN stack
         /\ Top.index \in Indices /\ Top.sec \in SectionSet
         /\ Below \in Seq(FrameSet) /\ Len(Below) = Len(stack) - 1
         /\ \A k \in 1..(Len(stack) - 1) : Below[k] = stack[k]
<1>1. stack \in Seq(FrameSet)
  BY DEF TypeInv
<1>2. Len(stack) \in Nat \ {0} /\ DOMAIN stack = 1..Len(stack)
  BY <1>1
<1>3. \A k \in DOMAIN stack : stack[k] \in FrameSet
  BY <1>1
<1>4. \A k \in DOMAIN stack :
        /\ stack[k].index \in Indices /\ stack[k].sec \in SectionSet
        /\ stack[k].taken \in BOOLEAN
  BY <1>3 DEF FrameSet
<1>5. Top = stack[Len(stack)] /\ Len(stack) \in DOMAIN stack
  BY <1>2 DEF Top
<1>6. /\ Below \in Seq(FrameSet) /\ Len(Below) = Len(stack) - 1
      /\ \A k \in 1..(Len(stack) - 1) : Below[k] = stack[k]
  BY <1>1, <1>2, FrontElements DEF Below
<1> QED
  BY <1>2, <1>3, <1>4, <1>5, <1>6

\* The default section.
LEMMA DefaultFacts ==
  ASSUME elf \in Elfs
  PROVE  /\ DefaultSection \in SectionSet
         /\ DefaultSection.id = elf.n /\ DefaultSection.link = 0
         /\ DefaultSection.content = None /\ ~HasLink(DefaultSection)
         /\ \A i \in Indices : DefaultSection.id # i
<1>1. elf.n \in Nat /\ Indices = 0..(elf.n - 1)
  BY ElfFacts
<1>2. /\ DefaultSection.id = elf.n /\ DefaultSection.link = 0
      /\ DefaultSection.content = None
  BY DEF DefaultSection
<1>3. DefaultSection \in SectionSet
  <2>1. None \in Contents
    BY DEF None, Contents
  <2> QED
    BY <1>1, <2>1 DEF DefaultSection, SectionSet, Types
<1> QED
  BY <1>1, <1>2, <1>3 DEF HasLink

\* A section with a link waits for a section of the table.
LEMMA LinkFacts ==
  ASSUME elf \in Elfs, NEW i \in Indices, NEW sec, IsSection(i, sec)
  PROVE  /\ HasLink(sec) <=> elf.link[i] \in 1..(elf.n - 1)
         /\ HasLink(sec) => sec.link \in Indices /\ sec.link = elf.link[i]
<1>1. elf.n \in Nat /\ Indices = 0..(elf.n - 1) /\ elf.link[i] \in Nat
  BY ElfFacts
<1> QED
  BY <1>1 DEF IsSection, HasLink

\* Section::from_reader(): what is put back is the section that was taken, and a dynamic
\* section or a string table has its content.
LEMMA LoadedSection ==
  ASSUME TypeInv, SectionsInv, Loading, ~ReadFails
  PROVE  /\ Loaded \in SectionSet
         /\ Top.sec = DefaultSection => Loaded = DefaultSection
         /\ Top.sec # DefaultSection =>
              /\ IsSection(Top.index, Loaded)
              /\ elf.type[Top.index] = "strtab" => Loaded.content = AStrtab
              /\ elf.type[Top.index] = "dynamic" =>
                   Loaded.content = DynamicOf(Top.index) /\ ReadWell
<1>1. /\ elf \in Elfs /\ pc = "load" /\ stack # <<>> /\ Top.taken
  BY DEF Loading, TypeInv
<1>2. /\ Top.index \in Indices /\ Top.sec \in SectionSet
      /\ Len(stack) \in DOMAIN stack /\ Top = stack[Len(stack)]
  BY <1>1, TopFacts
<1> DEFINE i == Top.index
<1>3. Top.sec = DefaultSection \/ IsSection(i, Top.sec)
  BY <1>1, <1>2 DEF SectionsInv
<1>4. Top.sec = [id |-> Top.sec.id, type |-> Top.sec.type, link |-> Top.sec.link,
                 content |-> Top.sec.content]
      /\ Top.sec.id \in 0..elf.n /\ Top.sec.type \in Types /\ Top.sec.link \in Nat
      /\ Top.sec.content \in Contents
  BY <1>2 DEF SectionSet
<1>5. /\ None \in Contents /\ AStrtab \in Contents /\ DynamicOf(i) \in Contents
      /\ Unloaded \in Contents /\ None # Unloaded
      /\ AStrtab # Unloaded /\ DynamicOf(i) # Unloaded
      /\ None.kind = "None" /\ Unloaded.kind = "Unloaded" /\ DynamicOf(i).kind = "Dynamic"
  BY <1>1, <1>2, ContentTypes
<1>6. Loaded = [id |-> Top.sec.id, type |-> Top.sec.type, link |-> Top.sec.link,
                content |-> Content]
  BY <1>4 DEF Loaded
<1>7. CASE Top.sec = DefaultSection
  <2>1. Top.sec.content = None
    BY <1>1, <1>7, DefaultFacts
  <2>2. Content = Top.sec.content
    BY <1>5, <2>1 DEF Content
  <2>3. Loaded = Top.sec
    BY <1>4, <1>6, <2>2
  <2> QED
    BY <1>2, <1>7, <2>3
<1>8. CASE Top.sec # DefaultSection /\ Top.sec.content # Unloaded
  <2>1. IsSection(i, Top.sec)
    BY <1>3, <1>8
  <2>2. Content = Top.sec.content
    BY <1>8 DEF Content
  <2>3. Loaded = Top.sec
    BY <1>4, <1>6, <2>2
  <2>4. MayHold(i, Top.sec.content)
    BY <2>1 DEF IsSection
  <2>5. /\ elf.type[i] = "strtab" => Top.sec.content = AStrtab
        /\ elf.type[i] = "dynamic" => Top.sec.content = DynamicOf(i) /\ ReadWell
    BY <1>8, <2>4 DEF MayHold
  <2> HIDE DEF i
  <2> QED
    BY <1>2, <1>8, <2>1, <2>3, <2>5 DEF i
<1>9. CASE Top.sec # DefaultSection /\ Top.sec.content = Unloaded
  <2>1. /\ IsSection(i, Top.sec) /\ Top.sec.id = i /\ Top.sec.type = elf.type[i]
        /\ Top.sec.link = elf.link[i]
    BY <1>3, <1>9 DEF IsSection
  <2>2. elf.type[i] \in Types
    BY <1>1, <1>2, ElfFacts
  <2>3. ASSUME elf.type[i] = "dynamic"
        PROVE  Content = DynamicOf(i) /\ ReadWell
    <3>1. ~DynamicFails
      BY <1>9, <2>1, <2>3 DEF ReadFails
    <3>2. ReadWell
      BY <3>1 DEF DynamicFails, ReadWell
    <3>3. Content = ParsedDynamic
      BY <1>9, <2>1, <2>3 DEF Content
    <3>4. HasLink(Top.sec) <=> elf.link[i] \in 1..(elf.n - 1)
      BY <1>1, <1>2, <2>1, LinkFacts
    <3>5. ASSUME NEW val \in Nat PROVE GetString(val) = NameMeant(i, val)
      <4>1. CASE ~HasLink(Top.sec)
        BY <3>4, <4>1 DEF GetString, NameMeant
      <4>2. CASE HasLink(Top.sec)
        <5>1. Linked = sections[elf.link[i]] /\ elf.link[i] \in Indices
          BY <1>1, <1>2, <2>1, <4>2, LinkFacts DEF Linked
        <5>2. Linked.content.kind = "Strtab"
          BY <3>1, <4>2 DEF DynamicFails
        <5>3. Linked # DefaultSection
          BY <1>1, <1>5, <5>2, DefaultFacts
        <5>4. Linked.id = elf.link[i]
          BY <5>1, <5>3 DEF SectionsInv, IsSection
        <5>5. PICK tab \in Seq(Strings) : tab = elf.strings[elf.link[i]]
          BY <1>1, <5>1, ElfFacts
        <5>6. GetString(val) = IF val \in 1..Len(tab) THEN tab[val] ELSE Corrupt
          BY <4>2, <5>4, <5>5 DEF GetString
        <5>7. NameMeant(i, val) = IF val \in DOMAIN tab THEN tab[val] ELSE Corrupt
          BY <3>4, <4>2, <5>5 DEF NameMeant
        <5> QED
          BY <5>5, <5>6, <5>7
      <4> QED
        BY <4>1, <4>2
    <3>6. \A k \in 1..Len(EntriesRead) : EntriesRead[k].val \in Nat
      <4>1. EntriesRead \in Seq(Entry)
        BY <1>1, FirstEntries
      <4>2. \A k \in 1..Len(EntriesRead) : EntriesRead[k] \in Entry
        BY <4>1
      <4> QED
        BY <4>2 DEF Entry
    <3>7. ParsedDynamic = DynamicOf(i)
      <4> HIDE DEF i
      <4> QED
        BY <3>5, <3>6 DEF ParsedDynamic, DynamicOf
    <3> QED
      BY <3>2, <3>3, <3>7
  <2>4. elf.type[i] = "strtab" => Content = AStrtab
    BY <1>9, <2>1 DEF Content, AStrtab
  <2>5. elf.type[i] = "nobits" => Content = None
    BY <1>9, <2>1 DEF Content
  <2>6. elf.type[i] = "other" => Content = Unloaded
    BY <1>9, <2>1 DEF Content
  <2>7. Content \in Contents /\ MayHold(i, Content)
    BY <1>5, <2>2, <2>3, <2>4, <2>5, <2>6 DEF MayHold, Types
  <2>8. Loaded \in SectionSet
    BY <1>4, <1>6, <2>7 DEF SectionSet
  <2>9. /\ Loaded.content = Content /\ Loaded.id = i /\ Loaded.type = elf.type[i]
        /\ Loaded.link = elf.link[i]
    BY <1>6, <2>1
  <2> HIDE DEF i
  <2> QED
    BY <1>9, <2>3, <2>4, <2>7, <2>8, <2>9 DEF IsSection, i
<1> QED
  BY <1>7, <1>8, <1>9

----------------------------------------------------------------------------
(***************************************************************************)
(* The steps that read sections.                                           *)
(***************************************************************************)

\* What depends on the file alone.
LEMMA ElfConstant ==
  ASSUME UNCHANGED elf
  PROVE  /\ Indices' = Indices /\ SectionSet' = SectionSet /\ FrameSet' = FrameSet
         /\ DefaultSection' = DefaultSection
         /\ \A i : DynamicOf(i)' = DynamicOf(i)
         /\ ReadWell' <=> ReadWell
         /\ DepsBelow' = DepsBelow
<1>1. Indices' = Indices /\ DefaultSection' = DefaultSection
  BY DEF Indices, DefaultSection
<1>2. SectionSet' = SectionSet /\ FrameSet' = FrameSet
  BY DEF SectionSet, FrameSet, Indices
<1>3. EntriesRead' = EntriesRead
  BY DEF EntriesRead
<1>4. \A i : DynamicOf(i)' = DynamicOf(i)
  BY <1>3 DEF DynamicOf, NameMeant
<1>5. ReadWell' <=> ReadWell
  BY <1>3 DEF ReadWell
<1>6. \A i : NeededBy(i)' = NeededBy(i)
  BY DEF NeededBy, Live, NameMeant
<1>7. DepsBelow' = DepsBelow
  BY <1>6 DEF DepsBelow
<1> QED
  BY <1>1, <1>2, <1>4, <1>5, <1>7

\* A section in the table or in a call is still one when only its place has changed.
LEMMA SectionsStay ==
  ASSUME UNCHANGED elf, NEW i, NEW sec
  PROVE  IsSection(i, sec)' <=> IsSection(i, sec)
BY ElfConstant DEF IsSection, MayHold

\* When no call is active, all sections are in their places.
LEMMA AllAtHome ==
  ASSUME ElfInv, pc # "panicLoad", \A k \in DOMAIN stack : ~stack[k].taken, NEW i \in Indices
  PROVE  AtHome(i) /\ IsSection(i, sections[i])
<1>1. AtHome(i)
  BY DEF ElfInv, HoldersInv, Holds
<1>2. sections[i] # DefaultSection
  BY <1>1, DefaultFacts DEF ElfInv, TypeInv, AtHome
<1> QED
  BY <1>1, <1>2 DEF ElfInv, SectionsInv

\* load() takes a section out of the table.
LEMMA StepEnter ==
  ASSUME ElfInv, Enter
  PROVE  ElfInv'
<1>0. PICK T, i, sec, frame : /\ T = Len(stack) /\ i = Top.index /\ sec = sections[i]
                              /\ frame = [Top EXCEPT !.sec = sec, !.taken = TRUE]
  OBVIOUS
<1>1. /\ pc = "load" /\ stack # <<>> /\ ~Top.taken
      /\ stack' = Append(Below, frame) \o (IF HasLink(sec) THEN <<Call(sec.link)>> ELSE <<>>)
      /\ sections' = [sections EXCEPT ![i] = DefaultSection]
      /\ UNCHANGED <<elf, pc, shndx, deps, lpaths>>
  BY <1>0 DEF Enter, Taken
<1>2. TypeInv /\ elf \in Elfs /\ sections \in [Indices -> SectionSet]
  BY DEF ElfInv, TypeInv
<1>3. /\ T \in Nat \ {0} /\ DOMAIN stack = 1..T
      /\ Top = stack[T] /\ T \in DOMAIN stack /\ Top \in FrameSet
      /\ i \in Indices
      /\ Below \in Seq(FrameSet) /\ Len(Below) = T - 1
      /\ \A k \in 1..(T - 1) : Below[k] = stack[k]
  BY <1>0, <1>1, <1>2, TopFacts
<1>4. sec \in SectionSet /\ (sec = DefaultSection \/ IsSection(i, sec))
  BY <1>0, <1>2, <1>3 DEF ElfInv, SectionsInv
<1>5. frame = [index |-> i, sec |-> sec, taken |-> TRUE] /\ frame \in FrameSet
  <2>1. frame = [index |-> i, sec |-> sec, taken |-> TRUE]
    <3>1. Top = [index |-> Top.index, sec |-> Top.sec, taken |-> Top.taken]
      BY <1>3 DEF FrameSet
    <3> QED
      BY <1>0, <3>1
  <2> QED
    BY <1>3, <1>4, <2>1 DEF FrameSet
<1>6. HasLink(sec) => sec.link \in Indices /\ IsSection(i, sec)
  BY <1>2, <1>3, <1>4, LinkFacts, DefaultFacts
<1>7. HasLink(sec) => Call(sec.link) \in FrameSet
  BY <1>2, <1>6, DefaultFacts DEF Call, FrameSet
<1>8. /\ stack' \in Seq(FrameSet)
      /\ \A k \in 1..(T - 1) : stack'[k] = stack[k]
      /\ stack'[T] = frame
      /\ HasLink(sec) => Len(stack') = T + 1 /\ stack'[T + 1] = Call(sec.link)
      /\ ~HasLink(sec) => Len(stack') = T
  <2>1. PICK r : r = Append(Below, frame)
    OBVIOUS
  <2>2. /\ r \in Seq(FrameSet) /\ Len(r) = T /\ r[T] = frame
        /\ \A k \in 1..(T - 1) : r[k] = Below[k]
    BY <1>3, <1>5, <2>1
  <2>3. CASE HasLink(sec)
    <3>1. PICK c \in FrameSet : c = Call(sec.link)
      BY <1>7, <2>3
    <3>2. stack' = r \o <<c>>
      BY <1>1, <2>1, <2>3, <3>1
    <3>3. <<c>> \in Seq(FrameSet) /\ Len(<<c>>) = 1 /\ <<c>>[1] = c
      OBVIOUS
    <3>4. /\ r \o <<c>> \in Seq(FrameSet) /\ Len(r \o <<c>>) = T + 1
          /\ \A k \in 1..(T + 1) : (r \o <<c>>)[k] = IF k <= T THEN r[k] ELSE <<c>>[k - T]
      BY <2>2, <3>3, ConcatProperties
    <3>5. /\ (r \o <<c>>)[T + 1] = c /\ (r \o <<c>>)[T] = r[T]
          /\ \A k \in 1..(T - 1) : (r \o <<c>>)[k] = r[k]
      <4>1. T + 1 - T = 1 /\ ~(T + 1 <= T) /\ T + 1 \in 1..(T + 1)
        BY <1>3
      <4> QED
        BY <1>3, <3>3, <3>4, <4>1
    <3> QED
      BY <1>3, <2>2, <2>3, <3>1, <3>2, <3>4, <3>5
  <2>4. CASE ~HasLink(sec)
    <3>1. stack' = r
      BY <1>1, <2>1, <2>2, <2>4
    <3> QED
      BY <1>3, <2>2, <2>4, <3>1
  <2> QED
    BY <2>3, <2>4
<1>9. /\ sections' \in [Indices -> SectionSet] /\ sections'[i] = DefaultSection
      /\ \A j \in Indices : j # i => sections'[j] = sections[j]
  BY <1>1, <1>2, <1>3, DefaultFacts
<1>10. DefaultSection \in SectionSet /\ \A j \in Indices : DefaultSection.id # j
  BY <1>2, DefaultFacts
<1>11. /\ DOMAIN stack' = 1..Len(stack') /\ T \in DOMAIN stack' /\ stack' # <<>>
       /\ \A k \in DOMAIN stack' : k \in 1..(T - 1) \/ k = T \/ (k = T + 1 /\ HasLink(sec))
       /\ \A k \in 1..(T - 1) : k \in DOMAIN stack
  <2>1. Len(stack') \in Nat /\ DOMAIN stack' = 1..Len(stack')
    BY <1>8
  <2> QED
    BY <1>3, <1>8, <2>1
<1>12. ~Call(sec.link).taken /\ Call(sec.link).index = sec.link
  BY DEF Call
<1>13. TypeInv'
  <2>1. sections' \in [Indices -> SectionSet]'
    BY <1>1, <1>9, ElfConstant
  <2>2. (stack \in Seq(FrameSet))'
    BY <1>1, <1>8, ElfConstant
  <2> QED
    BY <1>1, <1>2, <2>1, <2>2 DEF TypeInv
<1>14. SectionsInv'
  <2>1. ASSUME NEW j \in Indices
        PROVE  sections'[j] = DefaultSection \/ IsSection(j, sections[j])'
    <3>1. CASE j = i
      BY <1>9, <3>1
    <3>2. CASE j # i
      <4>1. PICK s : s = sections[j] /\ s = sections'[j]
        BY <1>9, <3>2
      <4>2. s = DefaultSection \/ IsSection(j, s)
        BY <4>1 DEF ElfInv, SectionsInv
      <4>3. s = DefaultSection \/ IsSection(j, s)'
        BY <1>1, <4>2, SectionsStay
      <4> QED
        BY <4>1, <4>3
    <3> QED
      BY <3>1, <3>2
  <2>2. ASSUME NEW k \in DOMAIN stack', stack'[k].taken
        PROVE  \/ stack'[k].sec = DefaultSection
               \/ IsSection(stack[k].index, stack[k].sec)'
    <3>1. k \in 1..(T - 1) \/ k = T
      BY <1>8, <1>11, <1>12, <2>2
    <3>2. PICK s, j : s = stack'[k].sec /\ j = stack'[k].index
      OBVIOUS
    <3>3. s = DefaultSection \/ IsSection(j, s)
      <4>1. CASE k \in 1..(T - 1)
        BY <1>8, <1>11, <2>2, <3>2, <4>1 DEF ElfInv, SectionsInv
      <4>2. CASE k = T
        BY <1>4, <1>5, <1>8, <3>2, <4>2
      <4> QED
        BY <3>1, <4>1, <4>2
    <3>4. s = DefaultSection \/ IsSection(j, s)'
      BY <1>1, <3>3, SectionsStay
    <3> QED
      BY <3>2, <3>4
  <2> QED
    BY <1>1, <2>1, <2>2, ElfConstant DEF SectionsInv
<1>15. HoldersInv'
  <2>1. \A k \in 1..(T - 1), j \in Indices : Holds(k, j)' <=> Holds(k, j)
    BY <1>8 DEF Holds
  <2>2. \A j \in Indices : Holds(T, j)' <=> sec.id = j
    BY <1>5, <1>8 DEF Holds
  <2>3. \A j \in Indices : ~Holds(T, j)
    BY <1>0, <1>1, <1>3 DEF Holds
  <2>4. \A j \in Indices : sec.id = j => j = i /\ AtHome(i)
    BY <1>0, <1>4, <1>10 DEF IsSection, AtHome
  <2>5. \A j \in Indices : ~Holds(T + 1, j)' \/ ~HasLink(sec)
    BY <1>8, <1>12 DEF Holds
  <2>6. /\ ~AtHome(i)' /\ \A j \in Indices : j # i => (AtHome(j)' <=> AtHome(j))
    BY <1>3, <1>9, <1>10 DEF AtHome
  <2>7. ASSUME NEW j \in Indices, ~AtHome(j)'
        PROVE  \E k \in DOMAIN stack' : Holds(k, j)'
    <3>1. CASE j = i /\ sec.id = i
      BY <1>11, <2>2, <3>1
    <3>2. CASE ~(j = i /\ sec.id = i)
      <4>1. ~AtHome(j)
        BY <1>0, <2>6, <2>7, <3>2 DEF AtHome
      <4>2. PICK k \in DOMAIN stack : Holds(k, j)
        BY <1>1, <4>1 DEF ElfInv, HoldersInv
      <4>3. k \in 1..(T - 1)
        BY <1>3, <2>3, <4>2
      <4>4. k \in DOMAIN stack'
        BY <1>3, <1>11, <4>3
      <4> QED
        BY <2>1, <4>2, <4>3, <4>4
    <3> QED
      BY <3>1, <3>2
  <2>8. ASSUME NEW j \in Indices, NEW k \in DOMAIN stack', Holds(k, j)'
        PROVE  ~AtHome(j)'
    <3>1. k \in 1..(T - 1) \/ k = T
      BY <1>11, <2>5, <2>8
    <3>2. CASE k \in 1..(T - 1)
      <4>1. Holds(k, j) /\ k \in DOMAIN stack
        BY <1>11, <2>1, <2>8, <3>2
      <4>2. ~AtHome(j)
        BY <4>1 DEF ElfInv, HoldersInv
      <4> QED
        BY <2>6, <4>2
    <3>3. CASE k = T
      BY <2>2, <2>4, <2>6, <2>8, <3>3
    <3> QED
      BY <3>1, <3>2, <3>3
  <2>9. ASSUME NEW j \in Indices, NEW k \in DOMAIN stack', NEW m \in DOMAIN stack',
               Holds(k, j)', Holds(m, j)'
        PROVE  k = m
    <3>1. /\ k \in 1..(T - 1) \/ k = T
          /\ m \in 1..(T - 1) \/ m = T
      BY <1>11, <2>5, <2>9
    <3>2. ASSUME NEW a \in 1..(T - 1), Holds(a, j)' PROVE Holds(a, j) /\ a \in DOMAIN stack /\ ~AtHome(j)
      <4>1. Holds(a, j) /\ a \in DOMAIN stack
        BY <1>11, <2>1, <3>2
      <4> QED
        BY <4>1 DEF ElfInv, HoldersInv
    <3>3. Holds(T, j)' => AtHome(j)
      BY <2>2, <2>4
    <3>4. CASE k \in 1..(T - 1) /\ m \in 1..(T - 1)
      BY <2>9, <3>2, <3>4 DEF ElfInv, HoldersInv
    <3>5. CASE k = T /\ m = T
      BY <3>5
    <3>6. CASE (k \in 1..(T - 1) /\ m = T) \/ (k = T /\ m \in 1..(T - 1))
      BY <2>9, <3>2, <3>3, <3>6
    <3> QED
      BY <3>1, <3>4, <3>5, <3>6
  <2>10. ASSUME NEW k \in DOMAIN stack', stack'[k].taken
         PROVE  ~AtHome(stack[k].index)'
    <3>1. PICK j : j = stack'[k].index
      OBVIOUS
    <3>2. CASE k \in 1..(T - 1)
      <4>1. j \in Indices /\ ~AtHome(j)
        BY <1>1, <1>2, <1>8, <1>11, <2>10, <3>1, <3>2, TopFacts DEF ElfInv, HoldersInv
      <4> QED
        BY <2>6, <3>1, <4>1 DEF AtHome
    <3>3. CASE k = T
      BY <1>5, <1>8, <2>6, <3>1, <3>3 DEF AtHome
    <3>4. CASE k = T + 1 /\ HasLink(sec)
      BY <1>8, <1>12, <2>10, <3>4
    <3> QED
      BY <1>11, <3>2, <3>3, <3>4
  <2> QED
    BY <1>1, <2>7, <2>8, <2>9, <2>10, ElfConstant DEF HoldersInv
<1>16. CallsInv'
  <2>1. Len(stack') \in Nat
    BY <1>8
  <2>2. ASSUME NEW k \in DOMAIN stack'
        PROVE  /\ ~stack'[k].taken => k = Len(stack')
               /\ k < Len(stack') =>
                    HasLink(stack[k].sec)' /\ stack'[k + 1].index = stack'[k].sec.link
    <3>1. CASE k \in 1..(T - 1)
      <4>1. /\ k \in DOMAIN stack /\ k < T /\ stack'[k] = stack[k]
            /\ k + 1 \in 1..(T - 1) \/ k + 1 = T
        <5>1. k \in Int /\ 1 <= k /\ k <= T - 1 /\ T \in Int
          BY <1>3, <3>1
        <5>2. k < T /\ (k + 1 \in 1..(T - 1) \/ k + 1 = T)
          BY <5>1
        <5> QED
          BY <1>8, <1>11, <3>1, <5>2
      <4>2. /\ stack[k].taken /\ HasLink(stack[k].sec) /\ stack[k + 1].index = stack[k].sec.link
        BY <1>0, <1>3, <4>1 DEF ElfInv, CallsInv
      <4>3. stack'[k + 1].index = stack[k + 1].index
        <5>1. frame.index = stack[T].index
          BY <1>0, <1>3, <1>5
        <5>2. CASE k + 1 = T
          BY <1>8, <5>1, <5>2
        <5>3. CASE k + 1 \in 1..(T - 1)
          BY <1>8, <5>3
        <5> QED
          BY <4>1, <5>2, <5>3
      <4> QED
        BY <1>1, <4>1, <4>2, <4>3 DEF HasLink
    <3>2. CASE k = T
      <4>1. stack'[k] = frame /\ frame.taken /\ frame.sec = sec
        BY <1>5, <1>8, <3>2
      <4>2. k < Len(stack') => HasLink(sec) /\ stack'[k + 1].index = sec.link
        BY <1>3, <1>8, <1>12, <3>2
      <4> QED
        BY <1>1, <4>1, <4>2 DEF HasLink
    <3>3. CASE k = T + 1 /\ HasLink(sec)
      BY <1>3, <1>8, <3>3
    <3> QED
      BY <1>11, <2>2, <3>1, <3>2, <3>3
  <2> QED
    BY <2>2 DEF CallsInv
<1>17. LinkInv'
  <2>1. CASE HasLink(sec)
    <3>1. Top' = Call(sec.link)
      BY <1>3, <1>8, <2>1 DEF Top
    <3> QED
      BY <1>12, <3>1 DEF LinkInv
  <2>2. CASE ~HasLink(sec)
    <3>1. Top' = frame
      BY <1>3, <1>8, <2>2 DEF Top
    <3>2. ~HasLink(Top.sec)'
      BY <1>1, <1>5, <2>2, <3>1 DEF HasLink
    <3> QED
      BY <3>2 DEF LinkInv
  <2> QED
    BY <2>1, <2>2
<1>18. LoopInv'
  <2>1. shndx < elf.n /\ elf.type[shndx] = "dynamic" /\ stack[1].index = shndx
    BY <1>1 DEF ElfInv, LoopInv
  <2>2. stack'[1].index = shndx /\ (stack'[1].taken => stack'[1].sec.id = shndx)
    <3>1. CASE T = 1
      <4>1. \A k \in DOMAIN stack : ~stack[k].taken
        BY <1>1, <1>3, <3>1
      <4>2. i = shndx /\ AtHome(i)
        BY <1>0, <1>1, <1>3, <2>1, <3>1, <4>1, AllAtHome
      <4>3. frame.index = shndx /\ frame.sec.id = shndx
        BY <1>0, <1>5, <4>2 DEF AtHome
      <4> QED
        BY <1>8, <3>1, <4>3
    <3>2. CASE T # 1
      <4>1. 1 \in 1..(T - 1)
        BY <1>3, <3>2
      <4>2. stack'[1] = stack[1]
        BY <1>8, <4>1
      <4> QED
        BY <1>1, <4>2 DEF ElfInv, LoopInv
    <3> QED
      BY <3>1, <3>2
  <2> QED
    BY <1>1, <1>11, <2>1, <2>2 DEF LoopInv
<1>19. DepsInv' /\ PanicMeansDamaged'
  BY <1>1, ElfConstant DEF ElfInv, DepsInv, PanicMeansDamaged
<1> QED
  BY <1>13, <1>14, <1>15, <1>16, <1>17, <1>18, <1>19 DEF ElfInv

\* load() puts a section back, and the call that waited goes on.
LEMMA StepPutBack ==
  ASSUME ElfInv, PutBack
  PROVE  ElfInv'
<1>0. PICK T, i, sec, loaded :
        T = Len(stack) /\ i = Top.index /\ sec = Top.sec /\ loaded = Loaded
  OBVIOUS
<1>1. /\ pc = "load" /\ stack # <<>> /\ Top.taken /\ Loading /\ ~ReadFails
      /\ stack' = Below /\ sections' = [sections EXCEPT ![i] = loaded]
      /\ UNCHANGED <<elf, pc, shndx, deps, lpaths>>
  BY <1>0 DEF PutBack, Loading
<1>2. TypeInv /\ SectionsInv /\ elf \in Elfs /\ sections \in [Indices -> SectionSet]
  BY DEF ElfInv, TypeInv
<1>3. /\ T \in Nat \ {0} /\ DOMAIN stack = 1..T
      /\ Top = stack[T] /\ T \in DOMAIN stack /\ i \in Indices
      /\ \A k \in DOMAIN stack : stack[k].index \in Indices
      /\ stack' \in Seq(FrameSet) /\ Len(stack') = T - 1
      /\ \A k \in 1..(T - 1) : stack'[k] = stack[k]
  BY <1>0, <1>1, <1>2, TopFacts
<1>4. DOMAIN stack' = 1..(T - 1) /\ T - 1 \in Nat
      /\ \A k \in DOMAIN stack' : k \in DOMAIN stack /\ k < T /\ k # T /\ stack'[k] = stack[k]
  <2>1. DOMAIN stack' = 1..(T - 1) /\ T - 1 \in Nat
    BY <1>3
  <2> QED
    BY <1>3, <2>1
<1>5. sec = DefaultSection \/ IsSection(i, sec)
  BY <1>0, <1>1, <1>2, <1>3 DEF SectionsInv
<1>6. /\ loaded \in SectionSet
      /\ sec = DefaultSection => loaded = DefaultSection
      /\ sec # DefaultSection =>
           /\ IsSection(i, loaded)
           /\ elf.type[i] = "strtab" => loaded.content = AStrtab
           /\ elf.type[i] = "dynamic" => loaded.content = DynamicOf(i) /\ ReadWell
  BY <1>0, <1>1, <1>2, LoadedSection
<1>7. /\ sections' \in [Indices -> SectionSet] /\ sections'[i] = loaded
      /\ \A j \in Indices : j # i => sections'[j] = sections[j]
  BY <1>1, <1>2, <1>3, <1>6
<1>8. \A j \in Indices : DefaultSection.id # j
  BY <1>2, DefaultFacts
<1>9. /\ sec = DefaultSection => ~AtHome(i)'
      /\ \A j \in Indices : j # i => (AtHome(j)' <=> AtHome(j))
      /\ sec # DefaultSection => AtHome(i)' /\ Holds(T, i)
      /\ \A j \in Indices : Holds(T, j) => j = i /\ sec # DefaultSection
  <2>1. \A j \in Indices : Holds(T, j) <=> sec.id = j
    BY <1>0, <1>1, <1>3 DEF Holds
  <2>2. \A j \in Indices : sec.id = j => j = i /\ sec # DefaultSection
    BY <1>5, <1>8 DEF IsSection
  <2>3. sec # DefaultSection => sec.id = i /\ loaded.id = i
    BY <1>5, <1>6 DEF IsSection
  <2>4. sec = DefaultSection => loaded.id # i
    BY <1>3, <1>6, <1>8
  <2> QED
    BY <1>3, <1>7, <2>1, <2>2, <2>3, <2>4 DEF AtHome
<1>10. TypeInv'
  <2>1. (sections \in [Indices -> SectionSet])'
    BY <1>1, <1>7, ElfConstant
  <2>2. (stack \in Seq(FrameSet))'
    BY <1>1, <1>3, ElfConstant
  <2> QED
    BY <1>1, <1>2, <2>1, <2>2 DEF TypeInv
<1>11. SectionsInv'
  <2>1. ASSUME NEW j \in Indices
        PROVE  sections'[j] = DefaultSection \/ IsSection(j, sections[j])'
    <3>1. PICK s : s = sections'[j]
      OBVIOUS
    <3>2. s = DefaultSection \/ IsSection(j, s)
      BY <1>2, <1>6, <1>7, <3>1 DEF SectionsInv
    <3>3. s = DefaultSection \/ IsSection(j, s)'
      BY <1>1, <3>2, SectionsStay
    <3> QED
      BY <3>1, <3>3
  <2>2. ASSUME NEW k \in DOMAIN stack', stack'[k].taken
        PROVE  \/ stack'[k].sec = DefaultSection
               \/ IsSection(stack[k].index, stack[k].sec)'
    <3>1. PICK s, j : s = stack'[k].sec /\ j = stack'[k].index
      OBVIOUS
    <3>2. s = DefaultSection \/ IsSection(j, s)
      BY <1>2, <1>4, <2>2, <3>1 DEF SectionsInv
    <3>3. s = DefaultSection \/ IsSection(j, s)'
      BY <1>1, <3>2, SectionsStay
    <3> QED
      BY <3>1, <3>3
  <2> QED
    BY <1>1, <2>1, <2>2, ElfConstant DEF SectionsInv
<1>12. \A j : \A k \in DOMAIN stack' : Holds(k, j)' <=> Holds(k, j)
  BY <1>4 DEF Holds
<1>13. \A k \in DOMAIN stack' : stack[k].taken /\ HasLink(stack[k].sec)
  BY <1>0, <1>4 DEF ElfInv, CallsInv
<1>14. HoldersInv'
  <2>1. ASSUME NEW j \in Indices, ~AtHome(j)'
        PROVE  \E k \in DOMAIN stack' : Holds(k, j)'
    <3>1. ~AtHome(j) /\ ~Holds(T, j)
      <4>1. CASE j = i
        <5>1. sec = DefaultSection
          BY <1>9, <2>1, <4>1
        <5>2. ~AtHome(i)
          BY <1>0, <1>1, <1>3 DEF ElfInv, HoldersInv
        <5> QED
          BY <1>9, <4>1, <5>1, <5>2
      <4>2. CASE j # i
        BY <1>9, <2>1, <4>2
      <4> QED
        BY <4>1, <4>2
    <3>2. PICK k \in DOMAIN stack : Holds(k, j)
      BY <1>1, <3>1 DEF ElfInv, HoldersInv
    <3>3. k \in DOMAIN stack'
      BY <1>3, <1>4, <3>1, <3>2
    <3> QED
      BY <1>12, <3>2, <3>3
  <2>2. ASSUME NEW k \in DOMAIN stack', NEW j \in Indices, Holds(k, j)
        PROVE  ~AtHome(j)'
    <3>1. ~AtHome(j) /\ ~Holds(T, j)
      BY <1>3, <1>4, <2>2 DEF ElfInv, HoldersInv
    <3> QED
      BY <1>9, <3>1
  <2>3. \A j \in Indices : \A k, m \in DOMAIN stack' : Holds(k, j)' /\ Holds(m, j)' => k = m
    BY <1>4, <1>12 DEF ElfInv, HoldersInv
  <2>4. ASSUME NEW k \in DOMAIN stack' PROVE ~AtHome(stack[k].index)'
    <3>1. PICK j : j = stack[k].index
      OBVIOUS
    <3>2. stack[k].taken /\ HasLink(stack[k].sec) /\ k \in DOMAIN stack /\ j \in Indices
      BY <1>3, <1>4, <1>13, <3>1
    <3>3. IsSection(j, stack[k].sec)
      BY <1>2, <3>1, <3>2, DefaultFacts DEF SectionsInv
    <3>4. Holds(k, j)
      BY <3>2, <3>3 DEF Holds, IsSection
    <3>5. ~AtHome(j)'
      BY <2>2, <3>2, <3>4
    <3> QED
      BY <1>4, <3>1, <3>5 DEF AtHome
  <2> QED
    BY <1>1, <1>12, <2>1, <2>2, <2>3, <2>4, ElfConstant DEF HoldersInv
<1>15. CallsInv'
  <2>1. ASSUME NEW k \in DOMAIN stack', k < T - 1
        PROVE  stack'[k + 1].index = stack'[k].sec.link
    <3>1. k + 1 \in DOMAIN stack'
      BY <1>4, <2>1
    <3>2. stack[k + 1].index = stack[k].sec.link
      BY <1>0, <1>4 DEF ElfInv, CallsInv
    <3> QED
      BY <1>4, <3>1, <3>2
  <2> QED
    BY <1>1, <1>3, <1>4, <1>13, <2>1 DEF CallsInv, HasLink
<1>16. LinkInv'
  <2> SUFFICES ASSUME stack' # <<>> PROVE LinkIsRead(Top.sec.link)'
    BY DEF LinkInv
  <2>1. T - 1 \in DOMAIN stack' /\ T - 1 + 1 = T
    <3>1. Len(stack') # 0
      BY <1>3
    <3> QED
      BY <1>3, <1>4, <3>1
  <2>2. Top' = stack[T - 1]
    BY <1>3, <1>4, <2>1 DEF Top
  <2>3. stack[T - 1].sec.link = i
    BY <1>0, <1>3, <1>4, <2>1 DEF ElfInv, CallsInv
  <2>4. LinkIsRead(i)'
    BY <1>1, <1>6, <1>7, <1>9 DEF LinkIsRead
  <2> QED
    BY <2>2, <2>3, <2>4 DEF LinkIsRead, AtHome
<1>17. LoopInv'
  <2>1. /\ shndx < elf.n /\ elf.type[shndx] = "dynamic" /\ stack[1].index = shndx
        /\ stack[1].taken => stack[1].sec.id = shndx
    BY <1>1 DEF ElfInv, LoopInv
  <2>2. CASE T = 1
    <3>1. i = shndx /\ sec.id = shndx
      BY <1>0, <1>1, <1>3, <2>1, <2>2
    <3>2. sec # DefaultSection
      BY <1>3, <1>8, <3>1
    <3>3. sections'[shndx].content = DynamicOf(shndx) /\ ReadWell
      BY <1>6, <1>7, <2>1, <3>1, <3>2
    <3>4. stack' = <<>>
      BY <1>3, <2>2
    <3> QED
      BY <1>1, <2>1, <3>3, <3>4, ElfConstant DEF LoopInv
  <2>3. CASE T # 1
    <3>1. 1 \in DOMAIN stack'
      BY <1>3, <1>4, <2>3
    <3>2. stack'[1] = stack[1] /\ stack' # <<>>
      BY <1>4, <3>1
    <3> QED
      BY <1>1, <2>1, <3>2 DEF LoopInv
  <2> QED
    BY <2>2, <2>3
<1>18. DepsInv' /\ PanicMeansDamaged'
  BY <1>1, ElfConstant DEF ElfInv, DepsInv, PanicMeansDamaged
<1> QED
  BY <1>10, <1>11, <1>14, <1>15, <1>16, <1>17, <1>18 DEF ElfInv

\* A section cannot be read: something is wrong with the file.
LEMMA StepLoadFails ==
  ASSUME ElfInv, LoadFails
  PROVE  ElfInv'
<1> DEFINE i == Top.index
           l == elf.link[i]
<1>1. /\ pc = "load" /\ stack # <<>> /\ Top.taken /\ ReadFails
      /\ pc' = "panicLoad" /\ stack' = <<>>
      /\ UNCHANGED <<elf, sections, shndx, deps, lpaths>>
  BY DEF LoadFails, Loading
<1>2. TypeInv /\ elf \in Elfs /\ SectionsInv
  BY DEF ElfInv, TypeInv
<1>3. /\ Len(stack) \in Nat \ {0} /\ DOMAIN stack = 1..Len(stack)
      /\ Top = stack[Len(stack)] /\ Len(stack) \in DOMAIN stack /\ i \in Indices
      /\ \A k \in DOMAIN stack : stack[k].index \in Indices
  BY <1>1, <1>2, TopFacts
<1>4. Top.sec = DefaultSection \/ IsSection(i, Top.sec)
  BY <1>1, <1>2, <1>3 DEF SectionsInv
<1>5. Top.sec # DefaultSection
  <2>1. None # Unloaded
    BY DEF None, Unloaded
  <2> QED
    BY <1>1, <1>2, <2>1, DefaultFacts DEF ReadFails
<1>6. IsSection(i, Top.sec) /\ Top.sec.id = i /\ Top.sec.type = elf.type[i] /\ Top.sec.link = l
  BY <1>4, <1>5 DEF IsSection
<1>7. PanicMeansDamaged'
  <2>1. CASE Top.sec.id \in elf.unreadable
    BY <1>1, <2>1 DEF PanicMeansDamaged
  <2>2. CASE elf.type[i] = "dynamic" /\ DynamicFails
    <3>1. CASE \E k \in 1..Len(EntriesRead) : EntriesRead[k].tag \in {"cut", "badFlags"}
      <4>1. PICK k \in 1..Len(EntriesRead) : EntriesRead[k].tag \in {"cut", "badFlags"}
        BY <3>1
      <4>2. Len(elf.entries) \in Nat /\ Len(EntriesRead) \in 0..Len(elf.entries)
            /\ EntriesRead[k] = elf.entries[k]
        BY <1>2, <4>1, FirstEntries, ElfFacts
      <4>3. k \in 1..Len(elf.entries)
        BY <4>1, <4>2
      <4> QED
        BY <1>1, <4>1, <4>2, <4>3 DEF PanicMeansDamaged
    <3>2. CASE HasLink(Top.sec) /\ Linked.content.kind # "Strtab"
      <4>1. l \in 1..(elf.n - 1) /\ l \in Indices /\ Linked = sections[l]
        BY <1>2, <1>3, <1>6, <3>2, LinkFacts DEF Linked
      <4>2. elf.type[l] # "strtab" \/ elf.link[l] \in 1..(elf.n - 1)
        <5>1. SUFFICES ASSUME elf.type[l] = "strtab", elf.link[l] \notin 1..(elf.n - 1)
                       PROVE  FALSE
          OBVIOUS
        <5>2. AtHome(l)
          <6>1. SUFFICES ASSUME ~AtHome(l) PROVE FALSE
            OBVIOUS
          <6>2. PICK k \in DOMAIN stack : Holds(k, l)
            BY <1>1, <4>1, <6>1 DEF ElfInv, HoldersInv
          <6>3. stack[k].sec # DefaultSection
            BY <1>2, <4>1, <6>2, DefaultFacts DEF Holds
          <6>4. IsSection(stack[k].index, stack[k].sec) /\ stack[k].index = l
            BY <1>2, <6>2, <6>3 DEF SectionsInv, IsSection, Holds
          <6>5. ~HasLink(stack[k].sec)
            BY <1>2, <4>1, <5>1, <6>4, LinkFacts
          <6>6. k = Len(stack)
            BY <1>3, <6>2, <6>5 DEF ElfInv, CallsInv
          <6> QED
            BY <1>3, <2>2, <5>1, <6>4, <6>6
        <5>3. sections[l].content = AStrtab
          BY <1>1, <1>6, <3>2, <4>1, <5>1, <5>2 DEF ElfInv, LinkInv, LinkIsRead
        <5> QED
          BY <3>2, <4>1, <5>3 DEF AStrtab
      <4> QED
        BY <1>1, <1>3, <2>2, <4>1, <4>2, ElfConstant DEF PanicMeansDamaged
    <3> QED
      BY <2>2, <3>1, <3>2 DEF DynamicFails
  <2> QED
    BY <1>1, <1>6, <2>1, <2>2 DEF ReadFails
<1>8. TypeInv'
  BY <1>1, <1>2, ElfConstant DEF TypeInv
<1>9. SectionsInv'
  <2>1. ASSUME NEW j \in Indices
        PROVE  sections'[j] = DefaultSection \/ IsSection(j, sections[j])'
    <3>1. PICK s : s = sections[j]
      OBVIOUS
    <3>2. s = DefaultSection \/ IsSection(j, s)'
      BY <1>1, <1>2, <3>1, SectionsStay DEF SectionsInv
    <3> QED
      BY <1>1, <3>1, <3>2
  <2> QED
    BY <1>1, <2>1, ElfConstant DEF SectionsInv
<1>10. HoldersInv' /\ CallsInv' /\ LinkInv' /\ LoopInv'
  BY <1>1 DEF HoldersInv, CallsInv, LinkInv, LoopInv
<1>11. DepsInv'
  BY <1>1, ElfConstant DEF ElfInv, DepsInv
<1> QED
  BY <1>7, <1>8, <1>9, <1>10, <1>11 DEF ElfInv
----------------------------------------------------------------------------
(***************************************************************************)
(* The names of the NEEDED entries.                                        *)
(***************************************************************************)

\* What load() made of the dynamic section i has the names that the section means.
LEMMA NeededIsMeant ==
  ASSUME elf \in Elfs, NEW i \in Indices
  PROVE  /\ NeededBy(i) \in Seq(Names)
         /\ ReadWell => Needed(DynamicOf(i).list) = NeededBy(i)
<1>1. PICK n, m, list : n = Len(elf.entries) /\ m = Len(EntriesRead) /\ list = DynamicOf(i).list
  OBVIOUS
<1>2. /\ n \in Nat /\ m \in 0..n /\ m \in Nat
      /\ \A k \in 1..n : elf.entries[k].tag \in Tags /\ elf.entries[k].val \in Nat
      /\ DOMAIN elf.entries = 1..n
      /\ \A k \in 1..m : EntriesRead[k] = elf.entries[k]
      /\ \A k \in 1..(m - 1) : elf.entries[k].tag \notin {"NULL", "cut", "badFlags"}
      /\ m < n => m > 0 /\ elf.entries[m].tag \in {"NULL", "cut", "badFlags"}
  <2>1. /\ n \in Nat /\ DOMAIN elf.entries = 1..n
        /\ \A k \in 1..n : elf.entries[k].tag \in Tags /\ elf.entries[k].val \in Nat
    BY <1>1, ElfFacts
  <2>2. /\ m \in 0..n
        /\ \A k \in 1..m : EntriesRead[k] = elf.entries[k]
        /\ \A k \in 1..(m - 1) : elf.entries[k].tag \notin {"NULL", "cut", "badFlags"}
        /\ m < n => m > 0 /\ elf.entries[m].tag \in {"NULL", "cut", "badFlags"}
    BY <1>1, FirstEntries
  <2>3. m \in Nat
    BY <2>1, <2>2
  <2> QED
    BY <2>1, <2>2, <2>3
<1>3. /\ Len(list) = m
      /\ \A k \in 1..m : /\ list[k].tag = elf.entries[k].tag
                         /\ list[k].name = NameMeant(i, elf.entries[k].val)
  <2>1. list = [k \in 1..m |-> [tag |-> EntriesRead[k].tag,
                                name |-> NameMeant(i, EntriesRead[k].val)]]
    BY <1>1 DEF DynamicOf
  <2> QED
    BY <1>2, <2>1
<1>4. \A k \in 1..n : NameMeant(i, elf.entries[k].val) \in Names
  BY <1>2, NameMeantType DEF Names
<1> DEFINE piece == [k \in 1..n |-> IF k \in Live /\ elf.entries[k].tag = "NEEDED"
                                    THEN <<NameMeant(i, elf.entries[k].val)>> ELSE <<>>]
           other == [k \in 1..m |-> IF list[k].tag = "NEEDED" THEN <<list[k].name>> ELSE <<>>]
           IsNames(F) ==
             F = [k \in 0..n |->
                   IF k = 0 THEN <<>>
                   ELSE F[k - 1] \o (IF k \in Live /\ elf.entries[k].tag = "NEEDED"
                                     THEN <<NameMeant(i, elf.entries[k].val)>> ELSE <<>>)]
           AreNames(F) ==
             F = [k \in 0..Len(list) |->
                   IF k = 0 THEN <<>>
                   ELSE F[k - 1] \o (IF list[k].tag = "NEEDED" THEN <<list[k].name>> ELSE <<>>)]
           f == CHOOSE F : IsNames(F)
           g == CHOOSE F : AreNames(F)
<1>5. NeededBy(i) = f[n]
  BY <1>1, Zenon DEF NeededBy
<1>6. Needed(list) = g[m]
  BY <1>3, Zenon DEF Needed
<1>7. \A F : IsNames(F) <=> IsConcat(F, n, piece)
  <2>1. ASSUME NEW F
        PROVE  IsNames(F) <=> IsConcat(F, n, piece)
    <3>1. \A k \in 0..n : k # 0 => k \in 1..n
      BY <1>2
    <3>2. [k \in 0..n |->
             IF k = 0 THEN <<>>
             ELSE F[k - 1] \o (IF k \in Live /\ elf.entries[k].tag = "NEEDED"
                               THEN <<NameMeant(i, elf.entries[k].val)>> ELSE <<>>)]
          = [k \in 0..n |-> IF k = 0 THEN <<>> ELSE F[k - 1] \o piece[k]]
      BY <3>1
    <3> QED
      BY <3>2, Zenon DEF IsConcat
  <2> QED
    BY <2>1
<1>8. \A F : AreNames(F) <=> IsConcat(F, m, other)
  <2>1. ASSUME NEW F
        PROVE  AreNames(F) <=> IsConcat(F, m, other)
    <3>1. \A k \in 0..m : k # 0 => k \in 1..m
      BY <1>2
    <3>2. [k \in 0..m |->
             IF k = 0 THEN <<>>
             ELSE F[k - 1] \o (IF list[k].tag = "NEEDED" THEN <<list[k].name>> ELSE <<>>)]
          = [k \in 0..m |-> IF k = 0 THEN <<>> ELSE F[k - 1] \o other[k]]
      BY <3>1
    <3> QED
      BY <1>3, <3>2, Zenon DEF IsConcat
  <2> QED
    BY <2>1
<1>9. piece \in [1..n -> Seq(Names)] /\ other \in [1..m -> Seq(Names)]
  <2>1. \A k \in 1..m : k \in 1..n
    BY <1>2
  <2>2. \A k \in 1..m : list[k].name \in Names
    BY <1>3, <1>4, <2>1
  <2>3. \A x \in Names : <<x>> \in Seq(Names)
    OBVIOUS
  <2> QED
    BY <1>4, <2>2, <2>3
<1>10. ASSUME ReadWell
       PROVE  /\ \A k \in 1..m : piece[k] = other[k]
              /\ \A k \in (m + 1)..n : piece[k] = <<>>
  <2>1. \A k \in 1..m : elf.entries[k].tag \notin {"cut", "badFlags"}
    BY <1>1, <1>2, <1>10 DEF ReadWell
  <2>2. ASSUME NEW k \in 1..m
        PROVE  piece[k] = other[k]
    <3>1. k \in 1..n /\ k \in 1..m
      BY <1>2
    <3>2. elf.entries[k].tag # "NULL" => k \in Live
      <4>1. ASSUME elf.entries[k].tag # "NULL", NEW j \in 1..k
            PROVE  elf.entries[j].tag # "NULL"
        <5>1. j = k \/ j \in 1..(m - 1)
          BY <1>2, <3>1
        <5> QED
          BY <1>2, <4>1, <5>1
      <4> QED
        BY <1>2, <3>1, <4>1 DEF Live
    <3> QED
      BY <1>3, <3>1, <3>2
  <2>3. ASSUME NEW k \in (m + 1)..n
        PROVE  piece[k] = <<>>
    <3>1. k \in 1..n /\ m < n /\ m \in 1..k /\ m \in 1..m
      BY <1>2
    <3>2. elf.entries[m].tag = "NULL"
      BY <1>2, <2>1, <3>1
    <3>3. k \notin Live
      BY <3>1, <3>2 DEF Live
    <3> QED
      BY <3>1, <3>3
  <2> QED
    BY <2>2, <2>3
<1> HIDE DEF piece, other, IsNames, AreNames
<1>11. f \in [0..n -> Seq(Names)] /\ IsConcat(f, n, piece)
  <2>1. \E F : IsNames(F)
    BY <1>2, <1>7, <1>9, ConcatExists
  <2>2. IsNames(f)
    BY <2>1, Zenon
  <2> HIDE DEF f
  <2>3. IsConcat(f, n, piece)
    BY <1>7, <2>2
  <2> QED
    BY <1>2, <1>9, <2>3, ConcatIsTyped
<1>12. IsConcat(g, m, other)
  <2>1. \E F : AreNames(F)
    BY <1>2, <1>8, <1>9, ConcatExists
  <2>2. AreNames(g)
    BY <2>1, Zenon
  <2> HIDE DEF g
  <2> QED
    BY <1>8, <2>2
<1> HIDE DEF f, g
<1>13. ReadWell => f[n] = g[m]
  <2>1. SUFFICES ASSUME ReadWell PROVE f[n] = g[m]
    OBVIOUS
  <2>2. \A k \in 1..m : piece[k] = other[k]
    BY <1>10, <2>1
  <2>3. \A k \in (m + 1)..n : piece[k] = <<>>
    BY <1>10, <2>1
  <2> QED
    <3>1. PICK r, t, p, q : r = f /\ t = g /\ p = piece /\ q = other
      OBVIOUS
    <3>2. /\ r \in [0..n -> Seq(Names)] /\ IsConcat(r, n, p) /\ IsConcat(t, m, q)
          /\ \A k \in 1..m : p[k] = q[k]
          /\ \A k \in (m + 1)..n : p[k] = <<>>
      BY <1>11, <1>12, <2>2, <2>3, <3>1
    <3>3. r[n] = t[m]
      BY <1>2, <3>2, ConcatAgree
    <3> QED
      BY <3>1, <3>3
<1>14. f[n] \in Seq(Names)
  BY <1>2, <1>11
<1> QED
  BY <1>1, <1>5, <1>6, <1>13, <1>14

\* The dependencies grow by those of one section.
LEMMA DepsGrow ==
  ASSUME elf \in Elfs
  PROVE  /\ DepsBelow[0] = <<>> /\ AllNeeded = DepsBelow[elf.n]
         /\ \A i \in Indices :
              /\ elf.type[i] = "dynamic" => DepsBelow[i + 1] = DepsBelow[i] \o NeededBy(i)
              /\ elf.type[i] # "dynamic" => DepsBelow[i + 1] = DepsBelow[i]
<1>1. PICK n : n = elf.n
  OBVIOUS
<1>2. n \in Nat /\ Indices = 0..(n - 1)
  BY <1>1, ElfFacts
<1> DEFINE piece == [k \in 1..n |-> IF elf.type[k - 1] = "dynamic" THEN NeededBy(k - 1) ELSE <<>>]
           IsBelow(F) ==
             F = [k \in 0..n |->
                   IF k = 0 THEN <<>>
                   ELSE F[k - 1] \o (IF elf.type[k - 1] = "dynamic" THEN NeededBy(k - 1) ELSE <<>>)]
           f == CHOOSE F : IsBelow(F)
<1>3. DepsBelow = f
  BY <1>1, Zenon DEF DepsBelow
<1>4. AllNeeded = f[n]
  BY <1>1, Zenon DEF AllNeeded
<1>5. \A F : IsBelow(F) <=> IsConcat(F, n, piece)
  <2>1. ASSUME NEW F
        PROVE  IsBelow(F) <=> IsConcat(F, n, piece)
    <3>1. \A k \in 0..n : k # 0 => k \in 1..n
      BY <1>2
    <3>2. [k \in 0..n |->
             IF k = 0 THEN <<>>
             ELSE F[k - 1] \o (IF elf.type[k - 1] = "dynamic" THEN NeededBy(k - 1) ELSE <<>>)]
          = [k \in 0..n |-> IF k = 0 THEN <<>> ELSE F[k - 1] \o piece[k]]
      BY <3>1
    <3> QED
      BY <3>2, Zenon DEF IsConcat
  <2> QED
    BY <2>1
<1>6. piece \in [1..n -> Seq(Names)]
  <2>1. \A k \in 1..n : k - 1 \in Indices
    BY <1>2
  <2>2. \A k \in 1..n : NeededBy(k - 1) \in Seq(Names)
    BY <2>1, NeededIsMeant
  <2> QED
    BY <2>2
<1>7. \A i \in Indices : /\ i \in 0..n /\ i + 1 \in 1..n /\ (i + 1) - 1 = i
                         /\ piece[i + 1] = IF elf.type[i] = "dynamic" THEN NeededBy(i) ELSE <<>>
  <2>1. \A i \in Indices : i \in 0..n /\ i + 1 \in 1..n /\ (i + 1) - 1 = i
    BY <1>2
  <2> QED
    BY <2>1
<1> HIDE DEF piece, IsBelow
<1>8. f \in [0..n -> Seq(Names)] /\ IsConcat(f, n, piece)
  <2>1. \E F : IsBelow(F)
    BY <1>2, <1>5, <1>6, ConcatExists
  <2>2. IsBelow(f)
    BY <2>1, Zenon
  <2> HIDE DEF f
  <2>3. IsConcat(f, n, piece)
    BY <1>5, <2>2
  <2> QED
    BY <1>2, <1>6, <2>3, ConcatIsTyped
<1> HIDE DEF f
<1>9. /\ f[0] = <<>> /\ \A k \in 1..n : f[k] = f[k - 1] \o piece[k]
      /\ f = [k \in 0..n |-> f[k]]
  BY <1>2, <1>8, ConcatUnfolds, Zenon
<1>10. \A i \in Indices : f[i + 1] = f[i] \o piece[i + 1]
  <2>1. ASSUME NEW i \in Indices
        PROVE  f[i + 1] = f[i] \o piece[i + 1]
    <3>1. PICK k \in 1..n : k = i + 1 /\ k - 1 = i
      BY <1>7
    <3>2. f[k] = f[k - 1] \o piece[k]
      BY <1>9
    <3> QED
      BY <3>1, <3>2
  <2> QED
    BY <2>1
<1>11. \A i \in Indices : f[i] \o <<>> = f[i]
  <2>1. ASSUME NEW i \in Indices
        PROVE  f[i] \o <<>> = f[i]
    <3>1. PICK s \in Seq(Names) : s = f[i]
      BY <1>7, <1>8
    <3> QED
      BY <3>1
  <2> QED
    BY <2>1
<1> QED
  BY <1>1, <1>3, <1>4, <1>7, <1>9, <1>10, <1>11

\* The search paths of a loaded section are names.
LEMMA SearchPathsTyped ==
  ASSUME elf \in Elfs, NEW i \in Indices
  PROVE  SearchPaths(DynamicOf(i).list) \subseteq Names
<1>1. PICK list : list = DynamicOf(i).list
  OBVIOUS
<1>2. PICK T : T = [tag : Tags, name : Names]
  OBVIOUS
<1>3. list \in Seq(T)
  <2>1. PICK S : S = Seq(T)
    OBVIOUS
  <2>2. S = Seq([tag : Tags, name : Strings \cup {Corrupt, Empty}])
    BY <1>2, <2>1, Zenon DEF Names
  <2>3. DynamicOf(i) \in [kind : {"None", "Unloaded", "Dynamic", "Strtab"}, list : S]
    BY <2>2, ContentTypes, Zenon DEF Contents
  <2> QED
    BY <1>1, <2>1, <2>3
<1>4. \A k \in 1..Len(list) : list[k] \in T
  BY <1>3
<1>5. \A k \in 1..Len(list) : list[k].name \in Names
  BY <1>2, <1>4
<1> QED
  BY <1>1, <1>5 DEF SearchPaths
----------------------------------------------------------------------------
(***************************************************************************)
(* Elf::from_reader(), and the loop over the sections: no call of load()   *)
(* is active.                                                              *)
(***************************************************************************)

\* What a step leaves alone that reads no section.
LEMMA IdleStep ==
  ASSUME ElfInv, pc # "panicLoad", stack = <<>>, UNCHANGED <<elf, sections>>,
         stack' = <<>> \/ \E i \in Indices : stack' = <<Call(i)>>
  PROVE  /\ stack' \in Seq(FrameSet') /\ SectionsInv' /\ HoldersInv' /\ CallsInv' /\ LinkInv'
<1>1. /\ elf \in Elfs /\ TypeInv /\ SectionsInv
  BY DEF ElfInv, TypeInv
<1>2. /\ \A k \in DOMAIN stack' : k = 1 /\ ~stack'[k].taken
      /\ stack' # <<>> => DOMAIN stack' = {1} /\ Len(stack') = 1
  BY DEF Call
<1>3. stack' \in Seq(FrameSet')
  <2>1. \A i \in Indices : Call(i) \in FrameSet
    BY <1>1, DefaultFacts DEF Call, FrameSet
  <2>2. PICK S : S = FrameSet
    OBVIOUS
  <2>3. stack' = <<>> \/ \E c \in S : stack' = <<c>>
    BY <2>1, <2>2
  <2>4. stack' \in Seq(S)
    <3>1. \A c \in S : <<c>> \in Seq(S)
      OBVIOUS
    <3>2. <<>> \in Seq(S)
      OBVIOUS
    <3> QED
      BY <2>3, <3>1, <3>2
  <2> QED
    BY <2>2, <2>4, ElfConstant
<1>4. SectionsInv'
  <2>1. ASSUME NEW j \in Indices
        PROVE  sections'[j] = DefaultSection \/ IsSection(j, sections[j])'
    <3>1. PICK s : s = sections[j]
      OBVIOUS
    <3>2. s = DefaultSection \/ IsSection(j, s)'
      BY <1>1, <3>1, SectionsStay DEF SectionsInv
    <3> QED
      BY <3>1, <3>2
  <2> QED
    BY <1>2, <2>1, ElfConstant DEF SectionsInv
<1>5. HoldersInv'
  <2>1. \A j \in Indices : AtHome(j)
    BY AllAtHome
  <2>2. \A j \in Indices : AtHome(j)'
    BY <2>1 DEF AtHome
  <2>3. \A j : \A k \in DOMAIN stack' : ~Holds(k, j)'
    BY <1>2 DEF Holds
  <2> QED
    BY <1>2, <2>2, <2>3, ElfConstant DEF HoldersInv
<1>6. CallsInv' /\ LinkInv'
  BY <1>2 DEF CallsInv, LinkInv, Top
<1> QED
  BY <1>3, <1>4, <1>5, <1>6

\* The steps that read the headers.
LEMMA StepReadHeaders ==
  ASSUME ElfInv, ReadHeader \/ ReadSegments \/ ReadSections \/ AllScanned
  PROVE  ElfInv'
<1>1. /\ elf \in Elfs /\ TypeInv /\ LoopInv /\ DepsInv /\ PanicMeansDamaged
  BY DEF ElfInv, TypeInv
<1>2. /\ pc \in {"header", "segments", "sections", "scan"}
      /\ pc' \in {"segments", "sections", "scan", "ok", "notElf", "badElf", "panicName"}
      /\ pc' = "ok" => shndx = elf.n
      /\ pc' = "sections" => elf.tables # "badSegment"
      /\ UNCHANGED <<elf, sections, stack, shndx, deps, lpaths>>
  <2>1. elf.header \in {"ok", "notElf", "invalid"}
        /\ elf.tables \in {"ok", "badSegment", "badSection", "nameBeyond"}
    BY <1>1, ElfLoadAssumption DEF ElfFile
  <2>2. CASE ReadHeader
    BY <2>1, <2>2 DEF ReadHeader
  <2>3. CASE ReadSegments
    BY <2>3 DEF ReadSegments
  <2>4. CASE ReadSections
    <3>1. elf.tables \in {"ok", "badSection", "nameBeyond"}
      BY <1>1, <2>1, <2>4 DEF LoopInv, ReadSections
    <3> QED
      BY <2>4, <3>1 DEF ReadSections
  <2>5. CASE AllScanned
    BY <2>5 DEF AllScanned
  <2> QED
    BY <2>2, <2>3, <2>4, <2>5
<1>3. stack = <<>> /\ pc # "panicLoad" /\ stack' = <<>>
  BY <1>1, <1>2 DEF LoopInv
<1>4. stack' \in Seq(FrameSet') /\ SectionsInv' /\ HoldersInv' /\ CallsInv' /\ LinkInv'
  BY <1>2, <1>3, IdleStep
<1>5. TypeInv'
  BY <1>1, <1>2, <1>4, ElfConstant DEF TypeInv
<1>6. LoopInv'
  BY <1>2, <1>3 DEF LoopInv
<1>7. DepsInv' /\ PanicMeansDamaged'
  BY <1>1, <1>2, ElfConstant DEF DepsInv, PanicMeansDamaged
<1> QED
  BY <1>4, <1>5, <1>6, <1>7 DEF ElfInv

\* A section without dependencies.
LEMMA StepSkipSection ==
  ASSUME ElfInv, SkipSection
  PROVE  ElfInv'
<1>1. /\ pc = "scan" /\ shndx < elf.n /\ sections[shndx].type # "dynamic"
      /\ shndx' = shndx + 1
      /\ UNCHANGED <<elf, pc, sections, stack, deps, lpaths>>
  BY DEF SkipSection
<1>2. /\ elf \in Elfs /\ TypeInv /\ LoopInv /\ DepsInv /\ PanicMeansDamaged
      /\ stack = <<>> /\ pc # "panicLoad" /\ stack' = <<>>
  BY <1>1 DEF ElfInv, TypeInv, LoopInv
<1>3. shndx \in Indices /\ shndx' \in 0..elf.n
  <2>1. elf.n \in Nat /\ shndx \in 0..elf.n
    BY <1>2, ElfFacts DEF TypeInv
  <2> QED
    BY <1>1, <2>1 DEF Indices
<1>4. stack' \in Seq(FrameSet') /\ SectionsInv' /\ HoldersInv' /\ CallsInv' /\ LinkInv'
  BY <1>1, <1>2, IdleStep
<1>5. TypeInv'
  BY <1>1, <1>2, <1>3, <1>4, ElfConstant DEF TypeInv
<1>6. LoopInv'
  BY <1>1, <1>2 DEF LoopInv
<1>7. DepsInv'
  <2>1. elf.type[shndx] # "dynamic"
    BY <1>1, <1>2, <1>3, AllAtHome DEF IsSection
  <2>2. DepsBelow[shndx + 1] = DepsBelow[shndx]
    BY <1>2, <1>3, <2>1, DepsGrow
  <2>3. PICK d, s : d = DepsBelow /\ s = shndx + 1
    OBVIOUS
  <2>4. DepsBelow' = d /\ shndx' = s /\ deps' = d[s]
    BY <1>1, <1>2, <2>2, <2>3, ElfConstant DEF DepsInv
  <2> QED
    BY <2>4 DEF DepsInv
<1>8. PanicMeansDamaged'
  BY <1>1, <1>2, ElfConstant DEF PanicMeansDamaged
<1> QED
  BY <1>4, <1>5, <1>6, <1>7, <1>8 DEF ElfInv

\* A dynamic section: load() is called.
LEMMA StepLoadSection ==
  ASSUME ElfInv, LoadSection
  PROVE  ElfInv'
<1>1. /\ pc = "scan" /\ shndx < elf.n /\ sections[shndx].type = "dynamic"
      /\ stack' = <<Call(shndx)>> /\ pc' = "load"
      /\ UNCHANGED <<elf, sections, shndx, deps, lpaths>>
  BY DEF LoadSection
<1>2. /\ elf \in Elfs /\ TypeInv /\ LoopInv /\ DepsInv /\ PanicMeansDamaged
      /\ stack = <<>> /\ pc # "panicLoad"
  BY <1>1 DEF ElfInv, TypeInv, LoopInv
<1>3. shndx \in Indices
  <2>1. elf.n \in Nat /\ shndx \in 0..elf.n
    BY <1>2, ElfFacts DEF TypeInv
  <2> QED
    BY <1>1, <2>1 DEF Indices
<1>4. stack' \in Seq(FrameSet') /\ SectionsInv' /\ HoldersInv' /\ CallsInv' /\ LinkInv'
  BY <1>1, <1>2, <1>3, IdleStep
<1>5. TypeInv'
  BY <1>1, <1>2, <1>4, ElfConstant DEF TypeInv
<1>6. LoopInv'
  <2>1. elf.type[shndx] = "dynamic"
    BY <1>1, <1>2, <1>3, AllAtHome DEF IsSection
  <2>2. stack'[1].index = shndx /\ ~stack'[1].taken /\ stack' # <<>>
    BY <1>1 DEF Call
  <2> QED
    BY <1>1, <2>1, <2>2 DEF LoopInv
<1>7. DepsInv' /\ PanicMeansDamaged'
  BY <1>1, <1>2, ElfConstant DEF DepsInv, PanicMeansDamaged
<1> QED
  BY <1>4, <1>5, <1>6, <1>7 DEF ElfInv

\* The names of a section that was loaded are those the file means.
LEMMA StepCollect ==
  ASSUME ElfInv, Collect
  PROVE  ElfInv'
<1>0. PICK list : list = sections[shndx].content.list
  OBVIOUS
<1>1. /\ pc = "load" /\ stack = <<>>
      /\ deps' = deps \o Needed(list) /\ lpaths' = lpaths \cup SearchPaths(list)
      /\ shndx' = shndx + 1
      /\ pc' = IF sections[shndx].content.kind = "Dynamic" THEN "scan" ELSE "panicDynamic"
      /\ UNCHANGED <<elf, sections, stack>>
  BY <1>0 DEF Collect
<1>2. /\ elf \in Elfs /\ TypeInv /\ LoopInv /\ DepsInv /\ PanicMeansDamaged
      /\ pc # "panicLoad" /\ stack' = <<>>
  BY <1>1 DEF ElfInv, TypeInv
<1>3. /\ shndx < elf.n /\ elf.type[shndx] = "dynamic"
      /\ sections[shndx].content = DynamicOf(shndx) /\ ReadWell
  BY <1>1, <1>2 DEF LoopInv
<1>4. shndx \in Indices /\ shndx' \in 0..elf.n
  <2>1. elf.n \in Nat /\ shndx \in 0..elf.n
    BY <1>2, ElfFacts DEF TypeInv
  <2> QED
    BY <1>1, <1>3, <2>1 DEF Indices
<1>5. pc' = "scan" /\ list = DynamicOf(shndx).list
  BY <1>0, <1>1, <1>2, <1>3, <1>4, ContentTypes
<1>6. stack' \in Seq(FrameSet') /\ SectionsInv' /\ HoldersInv' /\ CallsInv' /\ LinkInv'
  BY <1>1, <1>2, IdleStep
<1>7. TypeInv'
  <2>1. SearchPaths(list) \subseteq Strings \cup {Corrupt, Empty}
    <3>1. SearchPaths(DynamicOf(shndx).list) \subseteq Names
      BY <1>2, <1>4, SearchPathsTyped
    <3> QED
      BY <1>5, <3>1 DEF Names
  <2> QED
    BY <1>1, <1>2, <1>4, <1>5, <1>6, <2>1, ElfConstant DEF TypeInv
<1>8. LoopInv'
  BY <1>2, <1>5 DEF LoopInv
<1>9. DepsInv'
  <2>1. Needed(list) = NeededBy(shndx)
    <3>1. Needed(DynamicOf(shndx).list) = NeededBy(shndx)
      BY <1>2, <1>3, <1>4, NeededIsMeant
    <3> QED
      BY <1>5, <3>1
  <2>2. DepsBelow[shndx + 1] = DepsBelow[shndx] \o NeededBy(shndx)
    BY <1>2, <1>3, <1>4, DepsGrow
  <2>3. PICK d, s : d = DepsBelow /\ s = shndx + 1
    OBVIOUS
  <2>4. DepsBelow' = d /\ shndx' = s /\ deps' = d[s]
    BY <1>1, <1>2, <2>1, <2>2, <2>3, ElfConstant DEF DepsInv
  <2> QED
    BY <2>4 DEF DepsInv
<1>10. PanicMeansDamaged'
  BY <1>5 DEF PanicMeansDamaged
<1> QED
  BY <1>6, <1>7, <1>8, <1>9, <1>10 DEF ElfInv

\* Before the file is read.
LEMMA StartElf ==
  ASSUME elf \in Elfs, Start
  PROVE  ElfInv
<1>1. /\ pc = "header" /\ stack = <<>> /\ shndx = 0 /\ deps = <<>> /\ lpaths = {}
      /\ sections = [i \in Indices |->
                       [id |-> i, type |-> elf.type[i], link |-> elf.link[i], content |-> Unloaded]]
  BY DEF Start
<1>2. /\ elf.n \in Nat /\ Indices = 0..(elf.n - 1)
      /\ elf.type \in [Indices -> Types] /\ elf.link \in [Indices -> Nat]
  BY ElfFacts
<1>3. ASSUME NEW i \in Indices
      PROVE  /\ sections[i] \in SectionSet /\ IsSection(i, sections[i]) /\ AtHome(i)
  <2>1. sections[i] = [id |-> i, type |-> elf.type[i], link |-> elf.link[i], content |-> Unloaded]
    BY <1>1
  <2>2. Unloaded \in Contents /\ i \in 0..elf.n /\ elf.type[i] \in Types /\ elf.link[i] \in Nat
    BY <1>2, ContentTypes
  <2>3. PICK c, t, l : c = Unloaded /\ t = elf.type[i] /\ l = elf.link[i]
    OBVIOUS
  <2>4. sections[i] = [id |-> i, type |-> t, link |-> l, content |-> c]
    BY <2>1, <2>3
  <2>5. sections[i] \in SectionSet
    BY <2>2, <2>3, <2>4 DEF SectionSet
  <2>6. sections[i].id = i /\ sections[i].type = t /\ sections[i].link = l /\ sections[i].content = c
    BY <2>4
  <2> QED
    BY <2>3, <2>5, <2>6 DEF IsSection, MayHold, AtHome
<1>4. TypeInv
  <2>1. sections \in [Indices -> SectionSet]
    <3>1. PICK S : S = SectionSet
      OBVIOUS
    <3>2. sections = [i \in Indices |-> sections[i]]
      BY <1>1
    <3>3. \A i \in Indices : sections[i] \in S
      BY <1>3, <3>1
    <3>4. sections \in [Indices -> S]
      BY <3>2, <3>3
    <3> QED
      BY <3>1, <3>4
  <2> QED
    BY <1>1, <1>2, <2>1 DEF TypeInv
<1>5. SectionsInv /\ HoldersInv /\ CallsInv /\ LinkInv /\ LoopInv
  BY <1>1, <1>3 DEF SectionsInv, HoldersInv, CallsInv, LinkInv, LoopInv
<1>6. DepsInv /\ PanicMeansDamaged
  BY <1>1, DepsGrow DEF DepsInv, PanicMeansDamaged
<1> QED
  BY <1>4, <1>5, <1>6 DEF ElfInv

\* Every step.
LEMMA StepElf == ElfInv /\ Next => ElfInv'
<1> SUFFICES ASSUME ElfInv, Next PROVE ElfInv'
  OBVIOUS
<1>1. CASE ReadHeader \/ ReadSegments \/ ReadSections \/ AllScanned
  BY <1>1, StepReadHeaders
<1>2. CASE Enter
  BY <1>2, StepEnter
<1>3. CASE PutBack
  BY <1>3, StepPutBack
<1>4. CASE LoadFails
  BY <1>4, StepLoadFails
<1>5. CASE SkipSection
  BY <1>5, StepSkipSection
<1>6. CASE LoadSection
  BY <1>6, StepLoadSection
<1>7. CASE Collect
  BY <1>7, StepCollect
<1> QED
  BY <1>1, <1>2, <1>3, <1>4, <1>5, <1>6, <1>7 DEF Next
\* A step of the parser of the cache leaves the file alone.
LEMMA ElfStays == ElfInv /\ UNCHANGED vars => ElfInv'
<1> SUFFICES ASSUME ElfInv, UNCHANGED vars PROVE ElfInv'
  OBVIOUS
<1>1. UNCHANGED <<elf, pc, sections, stack, shndx, deps, lpaths>>
  BY DEF vars
<1>2. TypeInv'
  BY <1>1, ElfConstant DEF ElfInv, TypeInv
<1>3. SectionsInv'
  <2>1. SectionsInv
    BY DEF ElfInv
  <2>2. ASSUME NEW i, NEW s
        PROVE  IsSection(i, s)' <=> IsSection(i, s)
    BY <1>1, SectionsStay
  <2>3. PICK t, c : t = sections /\ c = stack
    OBVIOUS
  <2>4. /\ \A i \in Indices : t[i] = DefaultSection \/ IsSection(i, t[i])
        /\ \A k \in DOMAIN c :
             c[k].taken => c[k].sec = DefaultSection \/ IsSection(c[k].index, c[k].sec)
    BY <2>1, <2>3 DEF SectionsInv
  <2>5. /\ \A i \in Indices : t[i] = DefaultSection \/ IsSection(i, t[i])'
        /\ \A k \in DOMAIN c :
             c[k].taken => c[k].sec = DefaultSection \/ IsSection(c[k].index, c[k].sec)'
    BY <2>2, <2>4
  <2> QED
    BY <1>1, <2>3, <2>5, ElfConstant DEF SectionsInv
<1>4. HoldersInv'
  <2>1. \A i : (AtHome(i)' <=> AtHome(i)) /\ \A k : Holds(k, i)' <=> Holds(k, i)
    BY <1>1 DEF AtHome, Holds
  <2>2. HoldersInv
    BY DEF ElfInv
  <2>3. PICK c : c = stack
    OBVIOUS
  <2>4. /\ \A i \in Indices : pc # "panicLoad" /\ ~AtHome(i) => \E k \in DOMAIN c : Holds(k, i)
        /\ \A i \in Indices : \A k \in DOMAIN c : Holds(k, i) => ~AtHome(i)
        /\ \A i \in Indices : \A k, m \in DOMAIN c : Holds(k, i) /\ Holds(m, i) => k = m
        /\ \A k \in DOMAIN c : c[k].taken => ~AtHome(c[k].index)
    BY <2>2, <2>3 DEF HoldersInv
  <2>5. /\ \A i \in Indices : pc # "panicLoad" /\ ~AtHome(i)' => \E k \in DOMAIN c : Holds(k, i)'
        /\ \A i \in Indices : \A k \in DOMAIN c : Holds(k, i)' => ~AtHome(i)'
        /\ \A i \in Indices : \A k, m \in DOMAIN c : Holds(k, i)' /\ Holds(m, i)' => k = m
        /\ \A k \in DOMAIN c : c[k].taken => ~AtHome(c[k].index)'
    BY <2>1, <2>4
  <2> QED
    BY <1>1, <2>3, <2>5, ElfConstant DEF HoldersInv
<1>5. CallsInv' /\ LinkInv'
  BY <1>1 DEF ElfInv, CallsInv, LinkInv, LinkIsRead, AtHome, AStrtab, HasLink, Top
<1>6. LoopInv'
  <2>1. LoopInv
    BY DEF ElfInv
  <2>2. \A i : DynamicOf(i)' = DynamicOf(i)
    BY <1>1, ElfConstant
  <2>3. ReadWell' <=> ReadWell
    BY <1>1, ElfConstant
  <2>4. PICK s : s = shndx
    OBVIOUS
  <2>5. pc = "load" /\ stack = <<>> => sections[s].content = DynamicOf(s)' /\ ReadWell'
    BY <2>1, <2>2, <2>3, <2>4 DEF LoopInv
  <2> QED
    BY <1>1, <2>1, <2>4, <2>5 DEF LoopInv
<1>7. DepsInv'
  BY <1>1, ElfConstant DEF ElfInv, DepsInv
<1>8. PanicMeansDamaged'
  BY <1>1, ElfConstant DEF ElfInv, PanicMeansDamaged
<1> QED
  BY <1>2, <1>3, <1>4, <1>5, <1>6, <1>7, <1>8 DEF ElfInv

----------------------------------------------------------------------------
(***************************************************************************)
(* The parsers together.                                                   *)
(***************************************************************************)
ReadersInv == CacheInv /\ ElfInv

\* Every reachable state satisfies the invariant: a step of one parser leaves the other alone.
LEMMA ReadersInvariant == ReadersSpec => []ReadersInv
<1>1. ReadersInit => ReadersInv
  <2> SUFFICES ASSUME ReadersInit PROVE ReadersInv
    OBVIOUS
  <2>1. file \in Caches /\ elf \in Elfs /\ Start /\ L!Start
    BY ReadersAssumption DEF ReadersInit
  <2> QED
    BY <2>1, StartCache, StartElf DEF ReadersInv
<1>2. ReadersInv /\ [ReadersNext]_<<vars, cacheVars>> => ReadersInv'
  <2> SUFFICES ASSUME ReadersInv, [ReadersNext]_<<vars, cacheVars>> PROVE ReadersInv'
    OBVIOUS
  <2>1. CASE ReadCache
    BY <2>1, StepCache, ElfStays DEF ReadersInv, ReadCache
  <2>2. CASE ReadElf
    BY <2>2, StepElf, CacheStays DEF ReadersInv, ReadElf
  <2>3. CASE UNCHANGED <<vars, cacheVars>>
    BY <2>3, ElfStays, CacheStays DEF ReadersInv
  <2> QED
    BY <2>1, <2>2, <2>3 DEF ReadersNext
<1> QED
  BY <1>1, <1>2, PTL DEF ReadersSpec

(***************************************************************************)
(* read_ld_so_cache(): whatever the byte order, a lookup in the map gives  *)
(* the paths of all entries of a library, in the order of the file.        *)
(***************************************************************************)
THEOREM CacheIsTheFile == ReadersSpec => []TableIsRead
<1>1. ReadersInv => TableIsRead
  <2> SUFFICES ASSUME ReadersInv, cpc = "ok", ~L!Ambiguous
               PROVE  \A s \in AllStrings : L!PathsOf(cache[s], s, Len(file.entries))
    BY DEF TableIsRead, L!TableIsRead, AllStrings, L!AllStrings, L!PathsOf, L!Ambiguous, L!Meant
  <2>1. TableRead /\ file \in Caches
    BY DEF ReadersInv, CacheInv, TableInv
  <2>4. next = Len(file.entries) + 1
    BY <2>1 DEF TableRead
  <2>2. Len(file.entries) \in Nat
    BY <2>1, CacheFacts
  <2>3. next - 1 = Len(file.entries)
    BY <2>2, <2>4
  <2> QED
    BY <2>1, <2>3 DEF TableRead
<1> QED
  BY <1>1, ReadersInvariant, PTL

(***************************************************************************)
(* read_ld_so_cache() refuses a file only for its magic number, its        *)
(* version or its size, and it panics only for a damaged entry or where    *)
(* the size fits in both byte orders.                                      *)
(***************************************************************************)
THEOREM CacheFailuresAreExplained == ReadersSpec => []FailureMeansDamaged
<1>1. ReadersInv => FailureMeansDamaged
  BY DEF ReadersInv, CacheInv, FailureMeansDamaged
<1> QED
  BY <1>1, ReadersInvariant, PTL

(***************************************************************************)
(* When the guess of the byte order in read_ld_so_cache() cannot be wrong: *)
(* the file is shorter than 2^24 bytes, and the number of libraries is not *)
(* a multiple of 256.                                                      *)
(***************************************************************************)
THEOREM OrderIsTold ==
  ASSUME file \in Caches, L!FileSize(file) < Base * Base * Base,
         Len(file.entries) % Base # 0
  PROVE  ~L!Ambiguous
<1> DEFINE n == Len(file.entries)
           m == L!SwapBytes(n)
           len == L!SwapBytes(Len(file.strings))
<1>1. /\ Base \in Nat \ {0} /\ HeaderSize \in Nat /\ EntrySize \in Nat \ {0}
      /\ n \in L!Words /\ Len(file.strings) \in L!Words /\ file.pre \in Nat
      /\ L!FileSize(file) \in Nat
  <2>1. L!FileSize(file) \in Nat
    <3>1. /\ file.pre \in Nat /\ file.trailing \in Nat /\ Len(file.strings) \in Nat
          /\ L!TableOffset(Len(file.entries)) \in Nat
      BY CacheFacts
    <3> QED
      BY <3>1 DEF L!FileSize
  <2> QED
    BY <2>1, CacheFacts
<1>2. len \in Nat
  <2>1. len \in L!Words
    BY <1>1, SwapTwice
  <2> HIDE DEF len
  <2> QED
    BY <2>1 DEF L!Words
<1> HIDE DEF len
<1>3. PICK H \in Nat \ {0} : H = Base * Base
  BY <1>1
<1>4. n \in 0..(H * H - 1)
  <2>1. Base * Base * Base * Base = H * H
    BY <1>1, <1>3
  <2> QED
    BY <1>1, <2>1 DEF L!Words
<1> HIDE DEF n
<1>5. PICK q \in 0..(H - 1), r \in 0..(H - 1) : n = q * H + r /\ n \div H = q /\ n % H = r
  BY <1>3, <1>4, HasDigits
<1>6. PICK t \in 0..(Base - 1), s \in 0..(Base - 1) : r = t * Base + s
  <2>1. r \in 0..(Base * Base - 1)
    BY <1>3, <1>5
  <2> QED
    BY <1>1, <2>1, HasDigits
<1>7. s # 0
  <2>1. PICK d \in Nat : d = q * Base + t
    BY <1>1, <1>5, <1>6
  <2>2. n = d * Base + s
    BY <1>1, <1>3, <1>5, <1>6, <2>1
  <2>3. (d * Base + s) % Base = s
    BY <1>1, TwoDigits
  <2> QED
    BY <2>2, <2>3 DEF n
<1>8. PICK u \in Nat, w \in Nat : m = u * H + w /\ u >= Base
  <2>1. L!Swap(Base, r) = s * Base + t
    BY <1>1, <1>6, SwapDigits
  <2>2. L!Swap(Base, q) \in Nat
    <3>1. PICK a \in 0..(Base - 1), b \in 0..(Base - 1) : q = a * Base + b
      <4>1. q \in 0..(Base * Base - 1)
        BY <1>3, <1>5
      <4> QED
        BY <1>1, <4>1, HasDigits
    <3>2. L!Swap(Base, q) = b * Base + a
      BY <1>1, <3>1, SwapDigits
    <3> QED
      BY <1>1, <3>1, <3>2
  <2>3. s * Base + t \in Nat /\ s * Base + t >= Base
    BY <1>1, <1>6, <1>7
  <2>4. m = L!Swap(Base, r) * H + L!Swap(Base, q)
    BY <1>3, <1>5 DEF L!SwapBytes
  <2> QED
    BY <2>1, <2>2, <2>3, <2>4
<1>9. m \in Nat /\ m >= Base * Base * Base
  <2>1. u * H >= Base * H
    BY <1>1, <1>3, <1>8
  <2> QED
    BY <1>1, <1>3, <1>8, <2>1
<1> HIDE DEF m
<1>10. m * EntrySize >= m /\ m * EntrySize \in Nat
  BY <1>1, <1>9
<1>11. file.pre + L!TableOffset(m) + len # L!FileSize(file)
  BY <1>1, <1>2, <1>9, <1>10 DEF L!TableOffset
<1> QED
  BY <1>11 DEF L!Ambiguous, L!SizeFits, m, n, len

(***************************************************************************)
(* recurse() takes the dependencies that the file names from it, all of    *)
(* them and in their order, for any number of sections and any links.      *)
(***************************************************************************)
THEOREM DependenciesAreRead == ReadersSpec => []DepsAreNeeded
<1>1. ReadersInv => DepsAreNeeded
  <2> SUFFICES ASSUME ReadersInv, pc = "ok" PROVE deps = AllNeeded
    BY DEF DepsAreNeeded
  <2>1. shndx = elf.n /\ deps = DepsBelow[shndx] /\ elf \in Elfs
    BY DEF ReadersInv, ElfInv, LoopInv, DepsInv, TypeInv
  <2> QED
    BY <2>1, DepsGrow
<1> QED
  BY <1>1, ReadersInvariant, PTL

\* as_dynamic().unwrap() never panics, and load() only for a file that is damaged.
THEOREM PanicsAreExplained == ReadersSpec => []PanicMeansDamaged
<1>1. ReadersInv => PanicMeansDamaged
  BY DEF ReadersInv, ElfInv
<1> QED
  BY <1>1, ReadersInvariant, PTL

(***************************************************************************)
(* mem::take() in load() loses no section, whatever the links look like.   *)
(***************************************************************************)
THEOREM SectionsAreKept == ReadersSpec => []NoSectionLost
<1>1. ReadersInv => NoSectionLost
  <2> SUFFICES ASSUME ReadersInv, pc # "panicLoad", NEW i \in Indices
               PROVE  LET holders == {k \in 1..Len(stack) : stack[k].taken /\ stack[k].sec.id = i}
                      IN  /\ \A j \in Indices : sections[j].id = i => j = i
                          /\ sections[i].id = i => holders = {}
                          /\ sections[i].id # i => Cardinality(holders) = 1
    BY DEF NoSectionLost
  <2> DEFINE holders == {k \in 1..Len(stack) : stack[k].taken /\ stack[k].sec.id = i}
  <2>1. TypeInv /\ elf \in Elfs /\ SectionsInv /\ HoldersInv /\ DOMAIN stack = 1..Len(stack)
    BY DEF ReadersInv, ElfInv, TypeInv
  <2>2. \A k : k \in holders <=> k \in DOMAIN stack /\ Holds(k, i)
    BY <2>1 DEF Holds
  <2>3. ASSUME NEW j \in Indices, sections[j].id = i
        PROVE  j = i
    <3>1. sections[j] # DefaultSection
      BY <2>1, <2>3, DefaultFacts
    <3> QED
      BY <2>1, <2>3, <3>1 DEF SectionsInv, IsSection
  <2> HIDE DEF holders
  <2>4. sections[i].id = i => holders = {}
    BY <2>1, <2>2 DEF HoldersInv, AtHome
  <2>5. ASSUME sections[i].id # i
        PROVE  Cardinality(holders) = 1
    <3>1. PICK k \in DOMAIN stack : Holds(k, i)
      BY <2>1, <2>5 DEF HoldersInv, AtHome
    <3>2. holders = {k}
      BY <2>1, <2>2, <3>1 DEF HoldersInv
    <3> QED
      BY <3>2, FS_Singleton
  <2> QED
    BY <2>3, <2>4, <2>5 DEF holders
<1> QED
  BY <1>1, ReadersInvariant, PTL

(***************************************************************************)
(* Types; and load() calls itself at most once per section, cyclic links   *)
(* or not.                                                                 *)
(***************************************************************************)
THEOREM ReaderTypes == ReadersSpec => []TypeOK
<1>1. ReadersInv => TypeOK
  <2> SUFFICES ASSUME ReadersInv PROVE TypeOK
    OBVIOUS
  <2>1. /\ TypeInv /\ elf \in Elfs /\ SectionsInv /\ HoldersInv /\ CallsInv
        /\ sections \in [Indices -> SectionSet]
    BY DEF ReadersInv, ElfInv, TypeInv
  <2>2. elf.n \in Nat /\ Indices = 0..(elf.n - 1)
    BY <2>1, ElfFacts
  <2>3. \A i \in Indices : sections[i].content.kind \in {"None", "Unloaded", "Dynamic", "Strtab"}
    <3>1. PICK C : C = Seq([tag : Tags, name : Strings \cup {Corrupt, Empty}])
      OBVIOUS
    <3>2. Contents = [kind : {"None", "Unloaded", "Dynamic", "Strtab"}, list : C]
      BY <3>1, Zenon DEF Contents
    <3>3. \A i \in Indices : sections[i].content \in Contents
      <4>1. PICK D : D = Contents
        OBVIOUS
      <4> QED
        BY <2>1, <4>1 DEF SectionSet
    <3> QED
      BY <3>2, <3>3
  <2>4. Len(stack) <= elf.n + 1
    <3>1. CASE stack = <<>>
      BY <2>2, <3>1
    <3>2. CASE stack # <<>>
      <4>1. PICK W \in Nat : W = Len(stack) - 1
        <5>1. Len(stack) \in Nat \ {0}
          BY <2>1, <3>2, TopFacts
        <5> QED
          BY <5>1
      <4>2. Len(stack) = W + 1 /\ DOMAIN stack = 1..(W + 1)
        BY <2>1, <3>2, <4>1, TopFacts
      <4>3. ASSUME NEW k \in 1..W
            PROVE  /\ k \in DOMAIN stack /\ stack[k].taken
                   /\ stack[k].sec.id \in Indices
        <5>1. k \in DOMAIN stack /\ k < Len(stack) /\ k # Len(stack)
          BY <4>2
        <5>2. stack[k].taken /\ HasLink(stack[k].sec)
          <6>1. stack[k].taken \in BOOLEAN
            BY <2>1, <3>2, <5>1, TopFacts
          <6> QED
            BY <2>1, <5>1, <6>1 DEF CallsInv
        <5>3. stack[k].sec # DefaultSection
          BY <2>1, <5>2, DefaultFacts
        <5>4. stack[k].index \in Indices
          BY <2>1, <3>2, <5>1, TopFacts
        <5> QED
          BY <2>1, <5>1, <5>2, <5>3, <5>4 DEF SectionsInv, IsSection
      <4> DEFINE f == [k \in 1..W |-> stack[k].sec.id]
      <4>4. f \in Injection(1..W, Indices)
        <5>1. f \in [1..W -> Indices]
          BY <4>3
        <5>2. ASSUME NEW k \in 1..W, NEW m \in 1..W, f[k] = f[m]
              PROVE  k = m
          <6>1. PICK i \in Indices : i = f[k]
            BY <5>1
          <6>2. Holds(k, i) /\ Holds(m, i)
            BY <4>3, <5>2, <6>1 DEF Holds
          <6> QED
            BY <2>1, <4>3, <6>2 DEF HoldersInv
        <5> HIDE DEF f
        <5> QED
          BY <5>1, <5>2 DEF Injection, IsInjective
      <4>5. IsFiniteSet(Indices) /\ Cardinality(Indices) = elf.n
        <5>1. PICK a \in Int : a = elf.n - 1
          BY <2>2
        <5>2. IsFiniteSet(0..a) /\ Cardinality(0..a) = IF 0 > a THEN 0 ELSE a - 0 + 1
          BY FS_Interval
        <5> QED
          BY <2>2, <5>1, <5>2
      <4>6. Cardinality(1..W) = W
        BY FS_Interval
      <4> HIDE DEF f
      <4>7. Cardinality(1..W) <= Cardinality(Indices)
        BY <4>4, <4>5, FS_Injection
      <4> QED
        BY <2>2, <4>2, <4>5, <4>6, <4>7
    <3> QED
      BY <3>1, <3>2
  <2> QED
    BY <2>1, <2>3, <2>4 DEF TypeOK, TypeInv
<1> QED
  BY <1>1, ReadersInvariant, PTL
=============================================================================
