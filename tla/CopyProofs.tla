----------------------------- MODULE CopyProofs -----------------------------
(***************************************************************************)
(* Proofs about Copy, for files of every length with every layout of       *)
(* holes, for all attributes, and for what other processes do meanwhile.   *)
(***************************************************************************)
EXTENDS Copy, DataLemmas, FiniteSetTheorems

(***************************************************************************)
(* The contents.  CopiedUpToSrcpos and NothingMisplaced are not inductive: *)
(* they need to know which of the three offsets the next call will take,   *)
(* and that it is where the others are.  BaseInv holds whatever the calls  *)
(* return; PiecesInv, for the offsets, only while they may be trusted.     *)
(***************************************************************************)
FileInv ==
  /\ file \in File /\ file.avail <= file.len /\ file.data \subseteq 0..(file.len - 1)
  /\ avail <= file.len
  /\ ~file.shrinks => avail = file.avail

Zeros == [i \in Offsets |-> 0]

\* Nothing is written before the loop; a first extent has only holes before it.
BeforeLoop ==
  /\ pc \in {"prepare", "acl", "trunc", "seek", "seekHole"} =>
       srcpos = 0 /\ out_off = 0 /\ out = Zeros
  /\ pc \in {"prepare", "acl", "trunc", "seek"} => next_beg = 0 /\ in_off = 0
  /\ pc = "seekHole" =>
       /\ in_off = next_beg
       /\ IF can_handle_sparse
          THEN /\ TRUE \in file.seek
               /\ next_beg \in file.data /\ \A i \in 0..(next_beg - 1) : i \notin file.data
          ELSE next_beg = 0

\* Between SEEK_DATA and SEEK_HOLE.
ExtentInv ==
  pc = "extent" =>
    can_handle_sparse /\ next_beg \in file.data /\ srcpos # 0 /\ srcpos <= next_beg

BaseInv == TypeOK /\ FileInv /\ BeforeLoop /\ ExtentInv

\* A piece is still to be copied, the one in next_beg and next_len.
PieceAhead == pc = "chunk" \/ (pc = "loop" /\ srcpos = 0)

\* With holes, a piece lies within the file, and the descriptors are moved to it.
SparseInv ==
  can_handle_sparse =>
    /\ PieceAhead =>
         next_len > 0 /\ next_beg + next_len <= file.len /\ (next_beg = 0 => out_off = 0)
    /\ pc = "read" =>
         /\ in_off = out_off /\ in_off = next_beg + written
         /\ next_len >= 0 /\ in_off + next_len <= file.len
         /\ written = 0 => next_len > 0

\* The file is shorter than metadata() said, and nothing more will be read.
Stuck ==
  /\ ~Readable /\ in_off >= avail /\ next_len > 0
  /\ \/ ~use_copy_file_range /\ ~use_sendfile
     \/ pc # "read" /\ srcpos = 0 /\ next_beg >= avail

\* Without holes, every call has its own offsets; a call is given up only before
\* it has copied anything.
ByRange ==
  /\ pc # "read" /\ use_copy_file_range
  /\ in_off = 0 /\ out_off = 0 /\ next_beg = srcpos /\ next_len = file.len
  /\ srcpos = 0 \/ file.cfr \cap Unusable = {}

BySendfile ==
  /\ pc # "read" /\ ~use_copy_file_range /\ use_sendfile
  /\ in_off = 0 /\ out_off = srcpos /\ next_beg = srcpos /\ next_len = file.len
  /\ srcpos = 0 \/ file.send \cap Unusable = {}

ByRead ==
  /\ ~use_copy_file_range /\ ~use_sendfile
  /\ in_off = out_off /\ next_len >= 0 /\ in_off + next_len = file.len
  /\ \/ srcpos = 0 /\ next_beg = 0 /\ in_off = (IF pc = "read" THEN written ELSE 0)
     \/ pc = "loop" /\ srcpos >= file.len

PlainInv ==
  ~can_handle_sparse /\ pc \in {"loop", "chunk", "read"} =>
    Stuck \/ ByRange \/ BySendfile \/ ByRead

\* Everything before offset m has been copied.
CopiedTo(m) == \A i \in 0..(m - 1) : out[i] = Content(i)

CopiedInv ==
  Readable =>
    /\ pc \in {"loop", "extent", "chunk", "ok"} => srcpos <= file.len /\ CopiedTo(srcpos)
    /\ PieceAhead => srcpos <= next_beg /\ CopiedTo(next_beg)
    /\ pc = "extent" => CopiedTo(next_beg)
    /\ pc = "read" => srcpos + written <= in_off /\ CopiedTo(in_off)
    /\ pc = "ok" => srcpos = file.len

InPlace == \A i \in Offsets : out[i] \in {0, Content(i)}

\* In the loop, extents are sought, or no call is given up after it has copied something.
Chosen == pc \in {"loop", "extent", "chunk", "read"} => can_handle_sparse \/ Steady

PiecesInv == SparseInv /\ PlainInv /\ InPlace /\ CopiedInv /\ Chosen

ContentsInv == BaseInv /\ PiecesInv

\* The offsets may be trusted.
Trusted ==
  pc \in {"prepare", "acl", "trunc", "seek", "seekHole"} \/ can_handle_sparse \/ Steady

OffsetsInv == BaseInv /\ (Trusted => PiecesInv)

\* copy() gave up for one of its reasons.
FailsInv ==
  /\ can_handle_sparse /\ pc \in {"seekHole", "loop", "extent", "chunk", "read"} =>
       file.data # {} /\ TRUE \in file.seek
  /\ pc = "err" => apc = "err" \/ Environment \/ HoleAtEnd \/ avail < file.len

(***************************************************************************)
(* The attributes.  Those that the source had from the start and never     *)
(* lost are listed, and those that the loop is past have arrived.          *)
(***************************************************************************)
Lost(n) == Absent \in history[n]

InList == apc \in {"getSize", "getValue", "set"}

\* v may be what the attribute n is set to.
Genuine(n, v) ==
  v \in history[n] \/ \E u, w \in history[n] \ {Absent} : Length[w] < Length[u]

HistoryInv ==
  /\ sys \in A!System
  /\ \A n \in Names : attrs[n] \in history[n] /\ sys.initial[n] \in history[n]

\* The attributes that were never missing.
AlwaysThere == {n \in Names : ~Lost(n)}

ListInv ==
  /\ apc = "list" => Cardinality(AlwaysThere) <= num_bytes
  /\ \A k \in DOMAIN names : \E v \in history[names[k]] : v # Absent
  /\ InList =>
       \A n \in Names : sys.initial[n] # Absent /\ ~Lost(n) =>
         \E k \in DOMAIN names :
           names[k] = n /\ (k < pos => dst[n] # Absent \/ A!Ignored(n))
  /\ apc \in {"size", "list"} => pos = 1

ValueInv ==
  /\ \A n \in Names : dst[n] # Absent => Genuine(n, dst[n])
  /\ apc = "getValue" => \E u \in history[A!Name] \ {Absent} : Length[u] = num_bytes
  /\ apc = "set" => Genuine(A!Name, buffer)

AttributesInv ==
  A!TypeOK /\ HistoryInv /\ ListInv /\ ValueInv /\ A!OkMeansCopied /\ (apc = "err" => A!Reason)

\* acl_copy_fd() is called for regular files, and copy() goes on if it is Ok.
TogetherInv ==
  /\ apc = "err" => pc \in {"acl", "err"}
  /\ file.regular /\ pc \in {"trunc", "seek", "seekHole", "loop", "extent", "chunk", "read", "ok"} =>
       apc = "ok"

----------------------------------------------------------------------------
(***************************************************************************)
(* The file and its extents.                                               *)
(***************************************************************************)

\* Sizes.
LEMMA FileFacts ==
  ASSUME TypeOK, FileInv
  PROVE  /\ MaxLen \in Nat /\ BufSize \in Nat \ {0}
         /\ file.len \in Nat /\ file.len <= MaxLen /\ file.data \subseteq 0..(file.len - 1)
         /\ avail \in Nat /\ avail <= file.len
         /\ Size \in Nat /\ Size <= file.len /\ avail <= Size
         /\ Readable => avail = file.len /\ Size = file.len
         /\ \A i : Content(i) \in 0..MaxLen
         /\ file.regular \in BOOLEAN
<1>1. MaxLen \in Nat /\ BufSize \in Nat \ {0}
  BY CopyFileAssumption
<1>2. file.len \in 0..MaxLen /\ file.regular \in BOOLEAN
  BY DEF FileInv, File
<1>3. avail \in 0..MaxLen /\ avail <= file.len /\ (~file.shrinks => avail = file.avail)
      /\ file.data \subseteq 0..(file.len - 1)
  BY DEF FileInv, TypeOK
<1>4. Size \in Nat /\ Size <= file.len /\ avail <= Size
  BY <1>1, <1>2, <1>3 DEF Size
<1>5. Readable => avail = file.len /\ Size = file.len
  BY <1>3 DEF Readable, Size
<1>6. \A i : Content(i) \in 0..MaxLen
  BY <1>1, <1>2, <1>3 DEF Content
<1> QED
  BY <1>1, <1>2, <1>3, <1>4, <1>5, <1>6

\* lseek() works, or it does not.
LEMMA SeekResults ==
  ASSUME FileInv
  PROVE  /\ file.seek \subseteq BOOLEAN
         /\ TRUE \in file.seek /\ FALSE \in file.seek => ~SteadySeek
<1>1. file.seek \subseteq BOOLEAN
  BY DEF FileInv, File, Some
<1> QED
  BY <1>1, Zenon DEF SteadySeek

\* lseek(SEEK_DATA).
LEMMA NextDataIsFirst ==
  ASSUME TypeOK, FileInv, NEW p \in Nat, DataFrom(p) # {}
  PROVE  /\ NextData(p) \in Nat /\ NextData(p) \in file.data
         /\ p <= NextData(p) /\ NextData(p) < Size
         /\ \A j \in file.data : p <= j => NextData(p) <= j
<1>1. file.len \in Nat /\ file.data \subseteq 0..(file.len - 1) /\ Size \in Nat
  BY FileFacts
<1>2. DataFrom(p) \in SUBSET Nat
  BY <1>1 DEF DataFrom
<1>3. \E i \in DataFrom(p) : \A j \in DataFrom(p) : i <= j
  BY <1>2, LeastNatural
<1>4. NextData(p) \in DataFrom(p) /\ \A j \in DataFrom(p) : NextData(p) <= j
  BY <1>3 DEF NextData
<1>5. NextData(p) \in file.data /\ p <= NextData(p) /\ NextData(p) < Size
  BY <1>4 DEF DataFrom
<1>6. ASSUME NEW j \in file.data, p <= j PROVE NextData(p) <= j
  <2>1. CASE j < Size
    BY <1>4, <1>6, <2>1 DEF DataFrom
  <2>2. CASE ~(j < Size)
    BY <1>1, <1>5, <1>6, <2>2
  <2> QED
    BY <2>1, <2>2
<1> QED
  BY <1>1, <1>5, <1>6

\* lseek(SEEK_HOLE), from an offset in a data extent.
LEMMA NextHoleIsBehind ==
  ASSUME TypeOK, FileInv, NEW p \in file.data, p < Size
  PROVE  NextHole(p) \in Nat /\ p < NextHole(p) /\ NextHole(p) <= Size
<1>1. p \in Nat /\ Size \in Nat
  BY FileFacts
<1> DEFINE H == {i \in p..Size : i = Size \/ i \notin file.data}
           IsHole(i) == (i = Size \/ i \notin file.data) /\ \A j \in p..(i - 1) : j \in file.data
<1>2. H \in SUBSET Nat /\ Size \in H
  BY <1>1
<1>3. PICK i \in H : \A j \in H : i <= j
  <2> HIDE DEF H
  <2> QED
    BY <1>2, LeastNatural
<1>4. i \in p..Size /\ IsHole(i)
  <2>1. i \in p..Size /\ (i = Size \/ i \notin file.data)
    BY <1>3
  <2>2. ASSUME NEW j \in p..(i - 1) PROVE j \in file.data
    <3>1. j \in p..Size /\ j # Size /\ ~(i <= j)
      BY <1>1, <2>1
    <3> QED
      BY <1>3, <3>1
  <2> QED
    BY <2>1, <2>2
<1>5. NextHole(p) \in p..Size /\ IsHole(NextHole(p))
  <2>1. NextHole(p) = CHOOSE k \in p..Size : IsHole(k)
    BY DEF NextHole
  <2> HIDE DEF IsHole
  <2> QED
    BY <1>4, <2>1
<1>6. NextHole(p) # p
  BY <1>5
<1> QED
  BY <1>1, <1>5, <1>6

\* Bytes written anywhere.
LEMMA WrittenTypes ==
  ASSUME TypeOK, FileInv, NEW o, NEW s, NEW n
  PROVE  Written(o, s, n) \in [Offsets -> 0..MaxLen]
<1>1. \A i : Content(i) \in 0..MaxLen
  BY FileFacts
<1>2. out \in [Offsets -> 0..MaxLen]
  BY DEF TypeOK
<1> QED
  BY <1>1, <1>2 DEF Written

\* Bytes written where they belong.
LEMMA WrittenInPlace ==
  ASSUME TypeOK, FileInv, InPlace, NEW o \in Nat, NEW s \in Nat, NEW n \in Nat,
         n = 0 \/ o = s
  PROVE  /\ Written(o, s, n) \in [Offsets -> 0..MaxLen]
         /\ \A i \in Offsets : Written(o, s, n)[i] \in {0, Content(i)}
         /\ \A i \in Offsets : out[i] = Content(i) => Written(o, s, n)[i] = Content(i)
         /\ \A i \in Offsets : i \in s..(s + n - 1) => Written(o, s, n)[i] = Content(i)
<1>1. \A i : Content(i) \in 0..MaxLen
  BY FileFacts
<1>2. MaxLen \in Nat /\ out \in [Offsets -> 0..MaxLen]
  BY FileFacts DEF TypeOK
<1>3. \A i \in Offsets : i \in Int
  BY <1>2 DEF Offsets
<1>4. Written(o, s, n) \in [Offsets -> 0..MaxLen]
  BY WrittenTypes
<1>5. ASSUME NEW i \in Offsets, i \in o..(o + n - 1)
      PROVE  Written(o, s, n)[i] = Content(i)
  <2>1. o = s /\ s + i - o = i
    BY <1>3, <1>5
  <2> QED
    BY <1>5, <2>1 DEF Written
<1>6. ASSUME NEW i \in Offsets, i \notin o..(o + n - 1)
      PROVE  Written(o, s, n)[i] = out[i]
  BY <1>6 DEF Written
<1>7. \A i \in Offsets : i \in s..(s + n - 1) => i \in o..(o + n - 1)
  BY <1>3
<1> QED
  BY <1>4, <1>5, <1>6, <1>7 DEF InPlace

----------------------------------------------------------------------------
(***************************************************************************)
(* The steps of the contents: before the loop, and to its head.            *)
(***************************************************************************)
LEMMA StartContents ==
  ASSUME file \in Files, Start
  PROVE  ContentsInv
<1>1. MaxLen \in Nat /\ file \in File /\ file.avail <= file.len /\ file.data \subseteq 0..(file.len - 1)
  BY CopyFileAssumption
<1>2. file.avail \in 0..MaxLen
  BY <1>1 DEF File
<1>3. FileInv
  BY <1>1 DEF Start, FileInv
<1>4. TypeOK
  BY <1>1, <1>2 DEF Start, TypeOK
<1>5. BeforeLoop
  BY DEF Start, BeforeLoop, Zeros
<1>6. SparseInv /\ PlainInv /\ CopiedInv /\ Chosen /\ ExtentInv
  BY DEF Start, SparseInv, PlainInv, CopiedInv, PieceAhead, Chosen, ExtentInv
<1>7. InPlace
  BY DEF Start, InPlace
<1> QED
  BY <1>3, <1>4, <1>5, <1>6, <1>7 DEF ContentsInv, BaseInv, PiecesInv

\* An error ends copy().
LEMMA StepFails ==
  ASSUME ContentsInv, Fails
  PROVE  PiecesInv'
<1> USE DEF ContentsInv, BaseInv, PiecesInv, Fails, loopVars, callVars, fdVars
<1>1. InPlace'
  BY DEF InPlace, Content
<1>2. SparseInv' /\ PlainInv' /\ CopiedInv' /\ Chosen'
  BY DEF SparseInv, PlainInv, CopiedInv, PieceAhead, Chosen
<1> QED
  BY <1>1, <1>2

\* On the way to the first lseek().
Opens ==
  /\ pc \in {"prepare", "acl", "trunc"} /\ pc' \in {"acl", "trunc", "seek"}
  /\ can_handle_sparse' \in BOOLEAN
  /\ UNCHANGED <<file, avail, srcpos, next_beg, next_end, next_len, callVars, fdVars>>

\* Owner and permissions, attributes, ftruncate(): nothing is written yet.
LEMMA StepOpens ==
  ASSUME ContentsInv, Opens
  PROVE  PiecesInv'
<1> USE DEF ContentsInv, BaseInv, PiecesInv, Opens, callVars, fdVars
<1>1. InPlace'
  BY DEF InPlace, Content
<1>2. SparseInv' /\ PlainInv' /\ CopiedInv' /\ Chosen'
  BY DEF SparseInv, PlainInv, CopiedInv, PieceAhead, Chosen
<1> QED
  BY <1>1, <1>2

\* The first SEEK_DATA: nothing is written yet.
LEMMA StepFirstData ==
  ASSUME ContentsInv, FirstData
  PROVE  PiecesInv'
<1> USE DEF ContentsInv, BaseInv, PiecesInv
<1>1. pc' = "seekHole" /\ UNCHANGED <<file, out>>
  BY DEF FirstData
<1>2. InPlace'
  BY <1>1 DEF InPlace, Content
<1>3. SparseInv' /\ PlainInv' /\ CopiedInv' /\ Chosen'
  BY <1>1 DEF SparseInv, PlainInv, CopiedInv, PieceAhead, Chosen
<1> QED
  BY <1>2, <1>3

\* The first SEEK_HOLE: the first extent ends at the next hole.
LEMMA StepFirstHole ==
  ASSUME ContentsInv, FirstHole, Trusted'
  PROVE  PiecesInv'
<1> USE DEF ContentsInv, BaseInv, PiecesInv
<1>1. /\ pc = "seekHole" /\ pc' = "loop"
      /\ UNCHANGED <<file, avail, srcpos, next_beg, written, out_off, out>>
      /\ UNCHANGED <<use_copy_file_range, use_sendfile, HAS_COPY_FILE_RANGE, HAS_SENDFILE>>
      /\ next_len' = next_end' - next_beg
  BY DEF FirstHole, callVars
<1>2. \/ /\ can_handle_sparse' = can_handle_sparse /\ can_handle_sparse /\ next_beg < Size
         /\ next_end' = NextHole(next_beg) /\ in_off' = NextHole(next_beg)
      \/ /\ ~can_handle_sparse \/ FALSE \in file.seek \/ ~(next_beg < Size)
         /\ can_handle_sparse' = FALSE /\ next_end' = file.len /\ in_off' = in_off
  <2>1. PICK works \in file.seek :
          IF can_handle_sparse /\ works /\ next_beg < Size
          THEN next_end' = NextHole(next_beg) /\ in_off' = next_end' /\ UNCHANGED can_handle_sparse
          ELSE next_end' = file.len /\ can_handle_sparse' = FALSE /\ UNCHANGED in_off
    BY DEF FirstHole, bytes_to_copy
  <2>2. works \in BOOLEAN
    BY SeekResults
  <2> QED
    BY <2>1, <2>2
<1>3. srcpos = 0 /\ out_off = 0 /\ out = Zeros /\ in_off = next_beg
  BY <1>1 DEF BeforeLoop
<1>4. IF can_handle_sparse
      THEN next_beg \in file.data /\ \A i \in 0..(next_beg - 1) : i \notin file.data
      ELSE next_beg = 0
  BY <1>1 DEF BeforeLoop
<1>5. /\ MaxLen \in Nat /\ file.len \in Nat /\ file.len <= MaxLen /\ file.data \subseteq 0..(file.len - 1)
      /\ avail \in Nat /\ Size \in Nat /\ Size <= file.len /\ avail <= Size
      /\ (Readable => avail = file.len /\ Size = file.len)
  BY FileFacts
<1>6. next_beg \in Nat /\ next_beg <= file.len
  BY <1>4, <1>5
<1>7. InPlace'
  BY <1>1 DEF InPlace, Content
<1>8. Chosen'
  BY <1>1 DEF Chosen, Trusted
<1>9. CopiedInv'
  <2>1. \A i \in 0..(next_beg - 1) : i \in Offsets /\ i \notin file.data
    <3>1. CASE can_handle_sparse
      BY <1>4, <1>5, <3>1 DEF Offsets
    <3>2. CASE ~can_handle_sparse
      BY <1>4, <3>2
    <3> QED
      BY <3>1, <3>2
  <2>2. CopiedTo(next_beg)
    BY <1>3, <2>1 DEF CopiedTo, Content, Zeros
  <2>3. CopiedTo(next_beg)'
    BY <1>1, <2>2 DEF CopiedTo, Content
  <2>4. CopiedTo(srcpos)'
    BY <1>1, <1>3 DEF CopiedTo
  <2> QED
    BY <1>1, <1>3, <1>5, <1>6, <2>3, <2>4 DEF CopiedInv
<1>10. CASE /\ can_handle_sparse' = can_handle_sparse /\ can_handle_sparse /\ next_beg < Size
            /\ next_end' = NextHole(next_beg) /\ in_off' = NextHole(next_beg)
  <2>1. NextHole(next_beg) \in Nat /\ next_beg < NextHole(next_beg) /\ NextHole(next_beg) <= Size
    BY <1>4, <1>10, NextHoleIsBehind
  <2>2. SparseInv'
    BY <1>1, <1>3, <1>5, <1>6, <1>10, <2>1 DEF SparseInv
  <2>3. PlainInv'
    BY <1>10 DEF PlainInv
  <2> QED
    BY <1>7, <1>8, <1>9, <2>2, <2>3
<1>11. CASE /\ ~can_handle_sparse \/ FALSE \in file.seek \/ ~(next_beg < Size)
            /\ can_handle_sparse' = FALSE /\ next_end' = file.len /\ in_off' = in_off
  <2>1. can_handle_sparse => ~(next_beg < Size)
    <3>1. ~(TRUE \in file.seek /\ FALSE \in file.seek)
      <4>1. SteadySeek
        BY <1>1, <1>11 DEF Trusted, Steady, SteadySeek
      <4> QED
        BY <4>1, SeekResults
    <3>2. can_handle_sparse => TRUE \in file.seek
      BY <1>1 DEF BeforeLoop
    <3> QED
      BY <1>11, <3>1, <3>2
  <2>2. SparseInv'
    BY <1>11 DEF SparseInv
  <2>3. PlainInv'
    <3>1. CASE can_handle_sparse
      <4>1. /\ next_beg' >= avail' /\ in_off' >= avail' /\ next_len' > 0 /\ srcpos' = 0
            /\ Size < file.len
        BY <1>1, <1>3, <1>4, <1>5, <1>6, <1>11, <2>1, <3>1
      <4>2. ~Readable'
        BY <1>1, <1>5, <4>1 DEF Readable
      <4> QED
        BY <1>1, <4>1, <4>2 DEF PlainInv, Stuck
    <3>2. CASE ~can_handle_sparse
      <4>1. srcpos' = 0 /\ next_beg' = 0 /\ in_off' = 0 /\ out_off' = 0 /\ next_len' = file'.len
        BY <1>1, <1>3, <1>4, <1>5, <1>11, <3>2
      <4>2. use_copy_file_range' \in BOOLEAN /\ use_sendfile' \in BOOLEAN
        BY <1>1 DEF TypeOK
      <4>3. ByRange' \/ BySendfile' \/ ByRead'
        BY <1>1, <1>5, <4>1, <4>2 DEF ByRange, BySendfile, ByRead
      <4> QED
        BY <4>3 DEF PlainInv
    <3> QED
      BY <3>1, <3>2
  <2> QED
    BY <1>7, <1>8, <1>9, <2>2, <2>3
<1> QED
  BY <1>2, <1>10, <1>11

\* The end of the loop, or an error.
LEMMA StepReturns ==
  ASSUME ContentsInv, Returns
  PROVE  PiecesInv'
<1> USE DEF ContentsInv, BaseInv, PiecesInv, Returns, loopVars, callVars, fdVars
<1>1. file.len \in Nat /\ srcpos \in Nat
  BY FileFacts DEF TypeOK
<1>2. InPlace' /\ Chosen'
  BY DEF InPlace, Content, Chosen
<1>3. SparseInv' /\ PlainInv'
  BY DEF SparseInv, PlainInv, PieceAhead
<1>4. CopiedInv'
  BY <1>1 DEF CopiedInv, PieceAhead, CopiedTo, Content, Readable, bytes_to_copy
<1> QED
  BY <1>2, <1>3, <1>4

\* The first turn has its extent already.
LEMMA StepFirstTurn ==
  ASSUME ContentsInv, FirstTurn
  PROVE  PiecesInv'
<1> USE DEF ContentsInv, BaseInv, PiecesInv
<1>1. /\ pc = "loop" /\ pc' = "chunk" /\ srcpos = 0 /\ 0 < file.len
      /\ UNCHANGED <<file, avail, srcpos, next_beg, next_end, next_len, can_handle_sparse>>
      /\ UNCHANGED <<use_copy_file_range, use_sendfile, HAS_COPY_FILE_RANGE, HAS_SENDFILE>>
      /\ UNCHANGED <<written, in_off, out_off, out>>
  BY DEF FirstTurn, Looping, bytes_to_copy, loopVars, callVars, fdVars
<1>2. file.len \in Nat /\ next_len \in Int
  BY FileFacts DEF TypeOK
<1>3. PlainInv'
  <2> SUFFICES ASSUME ~can_handle_sparse PROVE Stuck' \/ ByRange' \/ BySendfile' \/ ByRead'
    BY <1>1 DEF PlainInv
  <2>1. Stuck \/ ByRange \/ BySendfile \/ ByRead
    BY <1>1 DEF PlainInv
  <2>2. CASE Stuck
    BY <1>1, <2>2 DEF Stuck, Readable
  <2>3. CASE ByRange
    BY <1>1, <2>3 DEF ByRange
  <2>4. CASE BySendfile
    BY <1>1, <2>4 DEF BySendfile
  <2>5. CASE ByRead
    BY <1>1, <1>2, <2>5 DEF ByRead
  <2> QED
    BY <2>1, <2>2, <2>3, <2>4, <2>5
<1>4. InPlace' /\ Chosen'
  BY <1>1 DEF InPlace, Content, Chosen, Steady, SteadySeek
<1>5. SparseInv'
  BY <1>1 DEF SparseInv, PieceAhead
<1>6. CopiedInv'
  BY <1>1 DEF CopiedInv, PieceAhead, CopiedTo, Content, Readable
<1> QED
  BY <1>3, <1>4, <1>5, <1>6

\* A later turn for a sparse file: the next data; what is skipped is a hole.
LEMMA StepSeekData ==
  ASSUME ContentsInv, SeekData
  PROVE  PiecesInv'
<1> USE DEF ContentsInv, BaseInv, PiecesInv
<1> DEFINE p == NextData(srcpos)
<1>1. /\ pc = "loop" /\ pc' = "extent" /\ srcpos < file.len /\ srcpos # 0
      /\ can_handle_sparse /\ can_handle_sparse' = can_handle_sparse /\ DataFrom(srcpos) # {}
      /\ next_beg' = p /\ UNCHANGED <<file, avail, srcpos, out>>
  BY DEF SeekData, Looping, bytes_to_copy
<1>2. srcpos \in Nat
  BY DEF TypeOK
<1>3. /\ p \in Nat /\ p \in file.data /\ srcpos <= p /\ p < Size
      /\ \A j \in file.data : srcpos <= j => p <= j
  BY <1>1, <1>2, NextDataIsFirst
<1> HIDE DEF p
<1>4. /\ MaxLen \in Nat /\ file.len \in Nat /\ file.len <= MaxLen /\ Size \in Nat /\ Size <= file.len
  BY FileFacts
<1>5. InPlace' /\ PlainInv' /\ SparseInv' /\ Chosen'
  BY <1>1 DEF InPlace, Content, PlainInv, SparseInv, PieceAhead, Chosen
<1>6. CopiedInv'
  <2> SUFFICES ASSUME Readable PROVE CopiedInv'
    BY <1>1 DEF CopiedInv, Readable
  <2>1. srcpos <= file.len /\ CopiedTo(srcpos)
    BY <1>1 DEF CopiedInv
  <2>2. ASSUME NEW i \in 0..(p - 1) PROVE out[i] = Content(i)
    <3>1. CASE i < srcpos
      BY <1>2, <1>3, <2>1, <3>1 DEF CopiedTo
    <3>2. CASE ~(i < srcpos)
      <4>1. i \notin file.data /\ i \in Offsets
        BY <1>2, <1>3, <1>4, <3>2 DEF Offsets
      <4> QED
        BY <4>1 DEF InPlace, Content
    <3> QED
      BY <3>1, <3>2
  <2>3. \A i \in 0..(next_beg' - 1) : out'[i] = Content(i)'
    BY <1>1, <2>2 DEF Content
  <2>4. \A i \in 0..(srcpos' - 1) : out'[i] = Content(i)'
    BY <1>1, <2>1 DEF Content, CopiedTo
  <2> QED
    BY <1>1, <2>1, <2>3, <2>4 DEF CopiedInv, CopiedTo, PieceAhead
<1> QED
  BY <1>5, <1>6

\* The end of this extent.
LEMMA StepSeekHole ==
  ASSUME ContentsInv, SeekHole
  PROVE  PiecesInv'
<1> USE DEF ContentsInv, BaseInv, PiecesInv
<1> DEFINE h == NextHole(next_beg)
<1>1. /\ pc = "extent" /\ pc' = "chunk" /\ next_beg < Size
      /\ can_handle_sparse' = can_handle_sparse /\ next_len' = h - next_beg
      /\ UNCHANGED <<file, avail, srcpos, next_beg, out_off, out>>
  BY DEF SeekHole
<1>2. can_handle_sparse /\ next_beg \in file.data /\ srcpos # 0 /\ srcpos <= next_beg
  BY <1>1 DEF ExtentInv
<1>3. h \in Nat /\ next_beg < h /\ h <= Size
  BY <1>1, <1>2, NextHoleIsBehind
<1> HIDE DEF h
<1>4. file.len \in Nat /\ Size \in Nat /\ Size <= file.len /\ srcpos \in Nat /\ next_beg \in Nat
  BY FileFacts DEF TypeOK
<1>5. InPlace' /\ PlainInv' /\ Chosen'
  BY <1>1, <1>2 DEF InPlace, Content, PlainInv, Chosen
<1>6. SparseInv'
  BY <1>1, <1>2, <1>3, <1>4 DEF SparseInv
<1>7. CopiedInv'
  BY <1>1, <1>2 DEF CopiedInv, CopiedTo, PieceAhead, Content, Readable
<1> QED
  BY <1>5, <1>6, <1>7

\* A later turn for a file that is not sparse goes on where the last one stopped.
LEMMA StepNextPiece ==
  ASSUME ContentsInv, NextPiece
  PROVE  PiecesInv'
<1> USE DEF ContentsInv, BaseInv, PiecesInv
<1>1. /\ pc = "loop" /\ pc' = "chunk" /\ srcpos # 0 /\ srcpos < file.len /\ ~can_handle_sparse
      /\ next_beg' = srcpos /\ next_end' = file.len - srcpos
      /\ UNCHANGED <<file, avail, srcpos, next_len, can_handle_sparse>>
      /\ UNCHANGED <<use_copy_file_range, use_sendfile, HAS_COPY_FILE_RANGE, HAS_SENDFILE>>
      /\ UNCHANGED <<written, in_off, out_off, out>>
  BY DEF NextPiece, Looping, bytes_to_copy, callVars, fdVars
<1>2. file.len \in Nat /\ srcpos \in Nat /\ next_len \in Int
  BY FileFacts DEF TypeOK
<1>3. Stuck \/ ByRange \/ BySendfile \/ ByRead
  BY <1>1 DEF PlainInv
<1>4. Stuck' \/ ByRange' \/ BySendfile' \/ ByRead'
  <2>1. CASE Stuck
    BY <1>1, <2>1 DEF Stuck, Readable
  <2>2. CASE ByRange
    BY <1>1, <1>2, <2>2 DEF ByRange
  <2>3. CASE BySendfile
    BY <1>1, <1>2, <2>3 DEF BySendfile
  <2>4. CASE ByRead
    BY <1>1, <1>2, <2>4 DEF ByRead
  <2> QED
    BY <1>3, <2>1, <2>2, <2>3, <2>4
<1>5. InPlace' /\ SparseInv' /\ PlainInv' /\ Chosen'
  BY <1>1, <1>4 DEF InPlace, Content, SparseInv, PlainInv, Chosen, Steady, SteadySeek
<1>6. CopiedInv'
  BY <1>1, <1>2 DEF CopiedInv, PieceAhead, CopiedTo, Content, Readable
<1> QED
  BY <1>5, <1>6

\* As long as the offsets may be trusted, no piece is empty.
LEMMA NoEmptyPiece == ASSUME ContentsInv PROVE ~EmptyPiece
<1> SUFFICES ASSUME pc = "chunk", next_len <= 0 PROVE FALSE
  BY DEF EmptyPiece
<1> USE DEF ContentsInv, BaseInv, PiecesInv
<1>1. srcpos < file.len /\ srcpos \in Nat /\ file.len \in Nat /\ next_len \in Int
  BY FileFacts DEF TypeOK
<1>2. CASE can_handle_sparse
  BY <1>1, <1>2 DEF SparseInv, PieceAhead
<1>3. CASE ~can_handle_sparse
  <2>1. Stuck \/ ByRange \/ BySendfile \/ ByRead
    BY <1>3 DEF PlainInv
  <2> QED
    BY <1>1, <2>1 DEF Stuck, ByRange, BySendfile, ByRead
<1> QED
  BY <1>2, <1>3

----------------------------------------------------------------------------
(***************************************************************************)
(* The steps of the contents: one turn of the loop.                        *)
(***************************************************************************)

\* What a call may return.
LEMMA CountsFit ==
  ASSUME TypeOK, FileInv, NEW p \in Nat, NEW want \in Int, NEW n \in Counts(p, want)
  PROVE  /\ n \in Nat
         /\ n # 0 => p + n <= avail /\ n <= want
         /\ p < avail /\ want > 0 => n # 0
<1>1. avail \in Nat
  BY FileFacts
<1> QED
  BY <1>1 DEF Counts

\* n bytes are copied from next_beg to offset o, in one call.
Transfers(n, o) ==
  /\ pc = "chunk" /\ pc' = "loop" /\ n \in Counts(next_beg, next_len) /\ next_len > 0
  /\ o \in Nat /\ (n = 0 \/ o = next_beg) /\ out' = Written(o, next_beg, n)
  /\ next_beg' = next_beg + n /\ srcpos' = srcpos + n /\ out_off' \in Nat
  /\ UNCHANGED <<file, avail, next_end, next_len, can_handle_sparse, written, in_off>>
  /\ UNCHANGED <<use_copy_file_range, use_sendfile, HAS_COPY_FILE_RANGE, HAS_SENDFILE>>

\* A transfer of n bytes to the offset o: if any byte is transferred, the offset is the right one.
LEMMA TransferCopies ==
  ASSUME ContentsInv, NEW n, NEW o, Transfers(n, o)
  PROVE  /\ n \in Nat /\ (n # 0 => next_beg + n <= avail)
         /\ InPlace' /\ CopiedInv' /\ Chosen'
<1> USE DEF ContentsInv, BaseInv, PiecesInv
<1>1. /\ pc = "chunk" /\ pc' = "loop" /\ n \in Counts(next_beg, next_len) /\ next_len > 0
      /\ o \in Nat /\ (n = 0 \/ o = next_beg) /\ out' = Written(o, next_beg, n)
      /\ next_beg' = next_beg + n /\ srcpos' = srcpos + n /\ out_off' \in Nat
      /\ UNCHANGED <<file, avail, next_end, next_len, can_handle_sparse, written, in_off>>
      /\ UNCHANGED <<use_copy_file_range, use_sendfile, HAS_COPY_FILE_RANGE, HAS_SENDFILE>>
  BY DEF Transfers
<1>2. next_beg \in Nat /\ next_len \in Int /\ srcpos \in Nat /\ next_len > 0
  BY <1>1 DEF TypeOK
<1>3. /\ MaxLen \in Nat /\ file.len \in Nat /\ file.len <= MaxLen
      /\ avail \in Nat /\ avail <= file.len /\ (Readable => avail = file.len)
  BY FileFacts
<1>4. n \in Nat /\ (n # 0 => next_beg + n <= avail /\ n <= next_len)
      /\ (next_beg < avail /\ next_len > 0 => n # 0)
  BY <1>1, <1>2, CountsFit
<1> DEFINE w == Written(o, next_beg, n)
<1>5. /\ w \in [Offsets -> 0..MaxLen]
      /\ \A i \in Offsets : w[i] \in {0, Content(i)}
      /\ \A i \in Offsets : out[i] = Content(i) => w[i] = Content(i)
      /\ \A i \in Offsets : i \in next_beg..(next_beg + n - 1) => w[i] = Content(i)
  BY <1>1, <1>2, <1>4, WrittenInPlace
<1>6. out' = w
  BY <1>1
<1> HIDE DEF w
<1>7. InPlace'
  BY <1>1, <1>5, <1>6 DEF InPlace, Content, Offsets
<1>8. Chosen'
  BY <1>1 DEF Chosen, Steady, SteadySeek
<1>9. CopiedInv'
  <2> SUFFICES ASSUME Readable PROVE CopiedInv'
    BY <1>1 DEF CopiedInv, Readable
  <2>1. /\ srcpos <= file.len /\ srcpos <= next_beg /\ avail = file.len
        /\ \A i \in 0..(next_beg - 1) : out[i] = Content(i)
        /\ \A i \in 0..(srcpos - 1) : out[i] = Content(i)
    BY <1>1, <1>3 DEF CopiedInv, PieceAhead, CopiedTo
  <2>2. CASE n = 0
    <3>1. \A i \in 0..(srcpos' - 1) : i \in Offsets /\ i \in 0..(srcpos - 1)
      BY <1>1, <1>2, <1>3, <2>1, <2>2 DEF Offsets
    <3>2. \A i \in 0..(srcpos' - 1) : w[i] = Content(i)
      BY <1>5, <2>1, <3>1
    <3>3. \A i \in Offsets : w[i] = out[i]
      <4>1. \A i \in Offsets : i \notin o..(o + n - 1)
        BY <1>1, <1>3, <2>2 DEF Offsets
      <4> QED
        BY <4>1 DEF w, Written
    <3>4. w = out
      <4>1. DOMAIN w = Offsets /\ DOMAIN out = Offsets /\ w = [i \in Offsets |-> w[i]]
            /\ out = [i \in Offsets |-> out[i]]
        BY <1>5 DEF TypeOK
      <4> QED
        BY <3>3, <4>1
    <3>5. \A i \in 0..(srcpos' - 1) : out'[i] = Content(i)'
      BY <1>1, <1>6, <3>2 DEF Content
    <3>6. \A i \in 0..(next_beg' - 1) : out'[i] = Content(i)'
      BY <1>1, <1>2, <1>6, <2>1, <2>2, <3>4 DEF Content
    <3> QED
      BY <1>1, <1>2, <2>1, <2>2, <3>5, <3>6 DEF CopiedInv, CopiedTo
  <2>3. CASE n # 0
    <3>1. srcpos' <= file.len /\ srcpos' # 0 /\ srcpos + n <= next_beg + n
      BY <1>1, <1>2, <1>3, <1>4, <2>1, <2>3
    <3>2. ASSUME NEW i \in 0..(next_beg + n - 1) PROVE w[i] = Content(i)
      <4>1. i \in Offsets /\ (i \in 0..(next_beg - 1) \/ i \in next_beg..(next_beg + n - 1))
        BY <1>2, <1>3, <1>4, <2>3 DEF Offsets
      <4> QED
        BY <1>5, <2>1, <4>1
    <3>3. \A i \in 0..(srcpos' - 1) : i \in 0..(next_beg + n - 1)
      BY <1>1, <1>2, <1>4, <3>1
    <3>4. \A i \in 0..(srcpos' - 1) : out'[i] = Content(i)'
      BY <1>1, <1>6, <3>2, <3>3 DEF Content
    <3> QED
      BY <1>1, <3>1, <3>4 DEF CopiedInv, CopiedTo, PieceAhead
  <2> QED
    BY <2>2, <2>3
<1> QED
  BY <1>4, <1>7, <1>8, <1>9

\* copy_file_range() is told both offsets.
LEMMA StepCopyRange ==
  ASSUME ContentsInv, CopyRange
  PROVE  PiecesInv'
<1>1. PICK n \in Counts(next_beg, next_len) :
        out' = Written(next_beg, next_beg, n) /\ next_beg' = next_beg + n
        /\ pc' = "loop" /\ srcpos' = srcpos + n
  BY DEF CopyRange, RangeTarget, Again
<1>2. /\ pc = "chunk" /\ use_copy_file_range /\ "ok" \in file.cfr /\ next_len > 0
      /\ UNCHANGED <<file, avail, next_end, next_len, can_handle_sparse, written, in_off, out_off>>
      /\ UNCHANGED <<use_copy_file_range, use_sendfile, HAS_COPY_FILE_RANGE, HAS_SENDFILE>>
  BY DEF CopyRange, CopyingRange, callVars
<1>3. next_beg \in Nat /\ out_off \in Nat /\ srcpos \in Nat /\ next_len \in Int
  BY DEF ContentsInv, BaseInv, PiecesInv, TypeOK
<1>4. Transfers(n, next_beg)
  BY <1>1, <1>2, <1>3 DEF Transfers
<1>5. /\ n \in Nat /\ (n # 0 => next_beg + n <= avail)
      /\ InPlace' /\ CopiedInv' /\ Chosen'
  BY <1>4, TransferCopies
<1>6. SparseInv'
  BY <1>1, <1>2, <1>3, <1>5 DEF ContentsInv, BaseInv, PiecesInv, SparseInv, PieceAhead
<1>7. PlainInv'
  <2> SUFFICES ASSUME ~can_handle_sparse PROVE Stuck' \/ ByRange'
    BY <1>2 DEF PlainInv
  <2>1. Stuck \/ ByRange
    BY <1>2 DEF ContentsInv, BaseInv, PiecesInv, PlainInv, BySendfile, ByRead
  <2>2. CASE Stuck
    <3>1. avail \in Nat
      BY FileFacts DEF ContentsInv, BaseInv, PiecesInv
    <3>2. n = 0
      BY <1>2, <1>3, <1>5, <2>2, <3>1 DEF Stuck
    <3> QED
      BY <1>1, <1>2, <1>3, <2>2, <3>2 DEF Stuck, Readable
  <2>3. CASE ByRange
    <3>1. file.cfr \cap Unusable = {}
      BY <1>2 DEF ContentsInv, PiecesInv, Chosen, Steady
    <3> QED
      BY <1>1, <1>2, <1>3, <2>3, <3>1 DEF ByRange
  <2> QED
    BY <2>1, <2>2, <2>3
<1> QED
  BY <1>5, <1>6, <1>7 DEF ContentsInv, BaseInv, PiecesInv

\* Where sendfile() and write_all() write to, for the first byte of the piece.
LEMMA SoughtOutIsRight ==
  ASSUME ContentsInv, pc = "chunk", ~use_copy_file_range
  PROVE  /\ SoughtOut \in Nat
         /\ can_handle_sparse => SoughtOut = next_beg
         /\ ~can_handle_sparse => SoughtOut = out_off
<1>1. next_beg \in Nat /\ out_off \in Nat /\ can_handle_sparse \in BOOLEAN
  BY DEF ContentsInv, BaseInv, PiecesInv, TypeOK
<1>2. can_handle_sparse => (next_beg = 0 => out_off = 0)
  BY DEF ContentsInv, BaseInv, PiecesInv, SparseInv, PieceAhead
<1> QED
  BY <1>1, <1>2 DEF SoughtOut

\* sendfile() writes at the offset of the target, which was sought before.
LEMMA StepSendFile ==
  ASSUME ContentsInv, SendFile
  PROVE  PiecesInv'
<1>1. PICK n \in Counts(next_beg, next_len) :
        out' = Written(SoughtOut, next_beg, n) /\ out_off' = SoughtOut + n
        /\ next_beg' = next_beg + n /\ pc' = "loop" /\ srcpos' = srcpos + n
  BY DEF SendFile, Again
<1>2. /\ pc = "chunk" /\ ~use_copy_file_range /\ use_sendfile /\ "ok" \in file.send /\ next_len > 0
      /\ UNCHANGED <<file, avail, next_end, next_len, can_handle_sparse, written, in_off>>
      /\ UNCHANGED <<use_copy_file_range, use_sendfile, HAS_COPY_FILE_RANGE, HAS_SENDFILE>>
  BY DEF SendFile, Sending, callVars
<1>3. next_beg \in Nat /\ out_off \in Nat /\ srcpos \in Nat /\ next_len \in Int
  BY DEF ContentsInv, BaseInv, PiecesInv, TypeOK
<1>4. avail \in Nat
  BY FileFacts DEF ContentsInv, BaseInv, PiecesInv
<1>5. /\ SoughtOut \in Nat
      /\ can_handle_sparse => SoughtOut = next_beg
      /\ ~can_handle_sparse => SoughtOut = out_off
  BY <1>2, SoughtOutIsRight
<1>6. n \in Nat /\ (n # 0 => next_beg + n <= avail)
  BY <1>3, CountsFit DEF ContentsInv, BaseInv, PiecesInv
<1>7. ~can_handle_sparse => Stuck \/ BySendfile
  BY <1>2 DEF ContentsInv, BaseInv, PiecesInv, PlainInv, ByRange, ByRead
<1>8. Stuck => n = 0
  BY <1>2, <1>3, <1>4, <1>6 DEF Stuck
<1>9. n = 0 \/ SoughtOut = next_beg
  BY <1>5, <1>7, <1>8 DEF BySendfile
<1>10. Transfers(n, SoughtOut)
  BY <1>1, <1>2, <1>5, <1>6, <1>9 DEF Transfers
<1>11. InPlace' /\ CopiedInv' /\ Chosen'
  BY <1>10, TransferCopies
<1>12. SparseInv'
  BY <1>1, <1>2, <1>3, <1>5, <1>6 DEF ContentsInv, BaseInv, PiecesInv, SparseInv, PieceAhead
<1>13. PlainInv'
  <2> SUFFICES ASSUME ~can_handle_sparse PROVE Stuck' \/ BySendfile'
    BY <1>2 DEF PlainInv
  <2>1. CASE Stuck
    BY <1>1, <1>2, <1>3, <1>8, <2>1 DEF Stuck, Readable
  <2>2. CASE BySendfile
    <3>1. file.send \cap Unusable = {}
      BY <1>2 DEF ContentsInv, PiecesInv, Chosen, Steady
    <3> QED
      BY <1>1, <1>2, <1>3, <1>5, <2>2, <3>1 DEF BySendfile
  <2> QED
    BY <1>7, <2>1, <2>2
<1> QED
  BY <1>11, <1>12, <1>13 DEF ContentsInv, BaseInv, PiecesInv

\* copy_file_range() does not work for this pair of files: the next turn tries another way.
LEMMA StepCopyRangeUnusable ==
  ASSUME ContentsInv, CopyRangeUnusable
  PROVE  PiecesInv'
<1> USE DEF ContentsInv, BaseInv, PiecesInv
<1>1. /\ pc = "chunk" /\ pc' = "loop" /\ use_copy_file_range /\ file.cfr \cap Unusable # {}
      /\ use_copy_file_range' = FALSE
      /\ UNCHANGED <<file, avail, srcpos, next_beg, next_end, next_len, can_handle_sparse>>
      /\ UNCHANGED <<use_sendfile, HAS_SENDFILE, written, in_off, out_off, out>>
  BY DEF CopyRangeUnusable, CopyingRange, UseRange, loopVars, fdVars
<1>2. file.len \in Nat /\ use_sendfile \in BOOLEAN
  BY FileFacts DEF TypeOK
<1>3. InPlace' /\ Chosen'
  BY <1>1 DEF InPlace, Content, Chosen, Steady, SteadySeek
<1>4. SparseInv'
  BY <1>1 DEF SparseInv, PieceAhead
<1>5. PlainInv'
  <2> SUFFICES ASSUME ~can_handle_sparse PROVE Stuck' \/ BySendfile' \/ ByRead'
    BY <1>1 DEF PlainInv
  <2>1. Stuck \/ ByRange
    BY <1>1 DEF PlainInv, BySendfile, ByRead
  <2>2. CASE Stuck
    BY <1>1, <2>2 DEF Stuck, Readable
  <2>3. CASE ByRange
    BY <1>1, <1>2, <2>3 DEF ByRange, BySendfile, ByRead
  <2> QED
    BY <2>1, <2>2, <2>3
<1>6. CopiedInv'
  BY <1>1 DEF CopiedInv, PieceAhead, CopiedTo, Content, Readable
<1> QED
  BY <1>3, <1>4, <1>5, <1>6

\* sendfile() does not work for this file: the next turn reads and writes.
LEMMA StepSendFileUnusable ==
  ASSUME ContentsInv, SendFileUnusable
  PROVE  PiecesInv'
<1>1. /\ pc = "chunk" /\ pc' = "loop" /\ ~use_copy_file_range /\ use_sendfile /\ file.send \cap Unusable # {}
      /\ use_sendfile' = FALSE /\ out_off' = SoughtOut
      /\ UNCHANGED <<file, avail, srcpos, next_beg, next_end, next_len, can_handle_sparse>>
      /\ UNCHANGED <<use_copy_file_range, HAS_COPY_FILE_RANGE, written, in_off, out>>
  BY DEF SendFileUnusable, Sending, loopVars
<1>2. file.len \in Nat
  BY FileFacts DEF ContentsInv, BaseInv, PiecesInv
<1>3. /\ SoughtOut \in Nat
      /\ can_handle_sparse => SoughtOut = next_beg
      /\ ~can_handle_sparse => SoughtOut = out_off
  BY <1>1, SoughtOutIsRight
<1> USE DEF ContentsInv, BaseInv, PiecesInv
<1>4. InPlace' /\ Chosen'
  BY <1>1 DEF InPlace, Content, Chosen, Steady, SteadySeek
<1>5. SparseInv'
  BY <1>1, <1>3 DEF SparseInv, PieceAhead
<1>6. PlainInv'
  <2> SUFFICES ASSUME ~can_handle_sparse PROVE Stuck' \/ ByRead'
    BY <1>1 DEF PlainInv
  <2>1. Stuck \/ BySendfile
    BY <1>1 DEF PlainInv, ByRange, ByRead
  <2>2. CASE Stuck
    BY <1>1, <2>2 DEF Stuck, Readable
  <2>3. CASE BySendfile
    BY <1>1, <1>2, <1>3, <2>3 DEF BySendfile, ByRead
  <2> QED
    BY <2>1, <2>2, <2>3
<1>7. CopiedInv'
  BY <1>1 DEF CopiedInv, PieceAhead, CopiedTo, Content, Readable
<1> QED
  BY <1>4, <1>5, <1>6, <1>7

\* The inner loop starts with both descriptors at next_beg.
LEMMA StepStartReading ==
  ASSUME ContentsInv, StartReading
  PROVE  PiecesInv'
<1>1. /\ pc = "chunk" /\ pc' = "read" /\ ~use_copy_file_range /\ ~use_sendfile /\ next_len > 0
      /\ in_off' = (IF can_handle_sparse THEN next_beg ELSE in_off)
      /\ out_off' = SoughtOut /\ written' = 0
      /\ UNCHANGED <<file, avail, srcpos, next_beg, next_end, next_len, can_handle_sparse>>
      /\ UNCHANGED <<use_copy_file_range, use_sendfile, HAS_COPY_FILE_RANGE, HAS_SENDFILE, out>>
  BY DEF StartReading, loopVars, callVars
<1>2. /\ SoughtOut \in Nat
      /\ can_handle_sparse => SoughtOut = next_beg
      /\ ~can_handle_sparse => SoughtOut = out_off
  BY <1>1, SoughtOutIsRight
<1> USE DEF ContentsInv, BaseInv, PiecesInv
<1>3. file.len \in Nat /\ next_beg \in Nat /\ next_len \in Int /\ in_off \in Nat /\ srcpos \in Nat
  BY FileFacts DEF TypeOK
<1>4. InPlace' /\ Chosen'
  BY <1>1 DEF InPlace, Content, Chosen, Steady, SteadySeek
<1>5. SparseInv'
  BY <1>1, <1>2, <1>3 DEF SparseInv, PieceAhead
<1>6. ~can_handle_sparse => Stuck \/ ByRead
  BY <1>1 DEF PlainInv, ByRange, BySendfile
<1>7. PlainInv'
  <2> SUFFICES ASSUME ~can_handle_sparse PROVE Stuck' \/ ByRead'
    BY <1>1 DEF PlainInv
  <2>1. CASE Stuck
    BY <1>1, <2>1 DEF Stuck, Readable
  <2>2. CASE ByRead
    BY <1>1, <1>2, <2>2 DEF ByRead
  <2> QED
    BY <1>6, <2>1, <2>2
<1>8. CopiedInv'
  <2> SUFFICES ASSUME Readable PROVE CopiedInv'
    BY <1>1 DEF CopiedInv, Readable
  <2>1. in_off' = next_beg
    BY <1>1, <1>6 DEF Stuck, ByRead
  <2> QED
    BY <1>1, <1>3, <2>1 DEF CopiedInv, PieceAhead, CopiedTo, Content
<1> QED
  BY <1>4, <1>5, <1>7, <1>8

\* One turn of the inner loop: what was read is written, and the descriptors stay together.
LEMMA StepReadAndWrite ==
  ASSUME ContentsInv, ReadAndWrite
  PROVE  PiecesInv'
<1> DEFINE want == IF next_len <= BufSize THEN next_len ELSE BufSize
<1>1. /\ pc = "read" /\ pc' = "read" /\ next_len > 0
      /\ UNCHANGED <<file, avail, srcpos, next_beg, next_end, can_handle_sparse>>
      /\ UNCHANGED <<use_copy_file_range, use_sendfile, HAS_COPY_FILE_RANGE, HAS_SENDFILE>>
  BY DEF ReadAndWrite, callVars
<1>2. PICK n \in Counts(in_off, want) \ {0} :
        /\ out' = Written(out_off, in_off, n) /\ in_off' = in_off + n /\ out_off' = out_off + n
        /\ written' = written + n /\ next_len' = next_len - n
  BY DEF ReadAndWrite
<1> USE DEF ContentsInv, BaseInv, PiecesInv
<1>3. /\ next_beg \in Nat /\ next_len \in Int /\ srcpos \in Nat /\ written \in Nat
      /\ in_off \in Nat /\ out_off \in Nat
  BY DEF TypeOK
<1>4. /\ MaxLen \in Nat /\ BufSize \in Nat \ {0} /\ file.len \in Nat /\ file.len <= MaxLen
      /\ avail \in Nat /\ avail <= file.len
  BY FileFacts
<1>5. want \in Int /\ want <= next_len
  BY <1>3, <1>4
<1> HIDE DEF want
<1>6. n \in Nat /\ n > 0 /\ in_off + n <= avail /\ n <= next_len
  <2>1. n \in Nat /\ n # 0 /\ in_off + n <= avail /\ n <= want
    BY <1>2, <1>3, <1>5, CountsFit
  <2> QED
    BY <1>3, <1>5, <2>1
<1>7. ~Stuck
  BY <1>3, <1>4, <1>6 DEF Stuck
<1>8. ~can_handle_sparse => ByRead
  BY <1>1, <1>7 DEF PlainInv, ByRange, BySendfile
<1>9. in_off = out_off
  BY <1>1, <1>8 DEF SparseInv, ByRead
<1> DEFINE w == Written(out_off, in_off, n)
<1>10. /\ w \in [Offsets -> 0..MaxLen]
       /\ \A i \in Offsets : w[i] \in {0, Content(i)}
       /\ \A i \in Offsets : out[i] = Content(i) => w[i] = Content(i)
       /\ \A i \in Offsets : i \in in_off..(in_off + n - 1) => w[i] = Content(i)
  BY <1>3, <1>6, <1>9, WrittenInPlace
<1>11. out' = w
  BY <1>2
<1> HIDE DEF w
<1>12. Chosen'
  BY <1>1 DEF Chosen, Steady, SteadySeek
<1>13. InPlace'
  BY <1>1, <1>10, <1>11 DEF InPlace, Content, Offsets
<1>14. SparseInv'
  BY <1>1, <1>2, <1>3, <1>4, <1>6 DEF SparseInv, PieceAhead
<1>15. PlainInv'
  <2> SUFFICES ASSUME ~can_handle_sparse PROVE ByRead'
    BY <1>1 DEF PlainInv
  <2> QED
    BY <1>1, <1>2, <1>3, <1>4, <1>6, <1>8 DEF ByRead
<1>16. CopiedInv'
  <2> SUFFICES ASSUME Readable PROVE CopiedInv'
    BY <1>1 DEF CopiedInv, Readable
  <2>1. srcpos + written <= in_off /\ \A i \in 0..(in_off - 1) : out[i] = Content(i)
    BY <1>1 DEF CopiedInv, CopiedTo
  <2>2. ASSUME NEW i \in 0..(in_off + n - 1) PROVE w[i] = Content(i)
    <3>1. i \in Offsets /\ (i \in 0..(in_off - 1) \/ i \in in_off..(in_off + n - 1))
      BY <1>3, <1>4, <1>6 DEF Offsets
    <3> QED
      BY <1>10, <2>1, <3>1
  <2>3. \A i \in 0..(in_off' - 1) : out'[i] = Content(i)'
    <3>1. file' = file /\ in_off' = in_off + n
      BY <1>1, <1>2
    <3>2. ASSUME NEW i \in 0..(in_off' - 1) PROVE out'[i] = Content(i)'
      <4>1. i \in 0..(in_off + n - 1)
        BY <1>3, <1>6, <3>1
      <4>3. w[i] = Content(i)
        BY <2>2, <4>1
      <4>2. out'[i] = w[i]
        BY <1>11
      <4> QED
        BY <3>1, <4>2, <4>3 DEF Content
    <3> QED
      BY <3>2
  <2>4. srcpos' + written' <= in_off'
    BY <1>1, <1>2, <1>3, <1>6, <2>1
  <2> QED
    BY <1>1, <2>3, <2>4 DEF CopiedInv, CopiedTo, PieceAhead
<1> QED
  BY <1>12, <1>13, <1>14, <1>15, <1>16

\* The loop over read() and write_all() is left.
LEMMA StepReadEnds ==
  ASSUME ContentsInv, ReadNothing \/ ReadDone
  PROVE  PiecesInv'
<1> USE DEF ContentsInv, BaseInv, PiecesInv
<1>1. /\ pc = "read" /\ pc' = "loop"
      /\ UNCHANGED <<file, avail, next_beg, next_end, next_len, can_handle_sparse>>
      /\ UNCHANGED <<use_copy_file_range, use_sendfile, HAS_COPY_FILE_RANGE, HAS_SENDFILE>>
      /\ UNCHANGED <<written, in_off, out_off, out>>
  BY DEF ReadNothing, ReadDone, Again, callVars, fdVars
<1>2. \/ next_len > 0 /\ in_off >= avail /\ srcpos' = srcpos + (written + written)
      \/ next_len <= 0 /\ srcpos' = srcpos + written
  BY DEF ReadNothing, ReadDone, Again
<1>3. /\ next_beg \in Nat /\ next_len \in Int /\ srcpos \in Nat /\ written \in Nat
      /\ in_off \in Nat /\ out_off \in Nat
  BY DEF TypeOK
<1>4. /\ file.len \in Nat /\ avail \in Nat /\ avail <= file.len /\ (Readable => avail = file.len)
  BY FileFacts
<1>5. srcpos' \in Nat /\ (srcpos' = 0 => srcpos = 0 /\ written = 0)
  BY <1>2, <1>3
<1>6. ~can_handle_sparse => Stuck \/ ByRead
  BY <1>1 DEF PlainInv, ByRange, BySendfile
<1>7. InPlace' /\ Chosen'
  BY <1>1 DEF InPlace, Content, Chosen, Steady, SteadySeek
<1>8. SparseInv'
  BY <1>1, <1>2, <1>3, <1>5 DEF SparseInv, PieceAhead
<1>9. Readable => next_len <= 0 /\ srcpos' = srcpos + written
  <2> SUFFICES ASSUME Readable, next_len > 0, in_off >= avail PROVE FALSE
    BY <1>2
  <2>1. in_off + next_len <= file.len
    BY <1>1, <1>3, <1>4, <1>6 DEF SparseInv, Stuck, ByRead
  <2> QED
    BY <1>3, <1>4, <2>1
<1>10. PlainInv'
  <2> SUFFICES ASSUME ~can_handle_sparse PROVE Stuck' \/ ByRead'
    BY <1>1 DEF PlainInv
  <2>1. CASE Stuck
    <3>1. ~use_copy_file_range /\ ~use_sendfile
      BY <1>1, <2>1 DEF Stuck
    <3> QED
      BY <1>1, <2>1, <3>1 DEF Stuck, Readable
  <2>2. CASE ByRead
    <3>1. srcpos = 0 /\ in_off = written /\ in_off = out_off /\ in_off + next_len = file.len
          /\ next_len >= 0 /\ ~use_copy_file_range /\ ~use_sendfile
      BY <1>1, <2>2 DEF ByRead
    <3>2. CASE next_len > 0
      <4>1. in_off >= avail /\ ~Readable
        BY <1>2, <1>3, <1>9, <3>2
      <4> QED
        BY <1>1, <3>1, <3>2, <4>1 DEF Stuck, Readable
    <3>3. CASE ~(next_len > 0)
      <4>1. srcpos' = file.len
        BY <1>2, <1>3, <1>4, <3>1, <3>3
      <4> QED
        BY <1>1, <1>4, <3>1, <4>1 DEF ByRead
    <3> QED
      BY <3>2, <3>3
  <2> QED
    BY <1>6, <2>1, <2>2
<1>11. CopiedInv'
  <2> SUFFICES ASSUME Readable PROVE CopiedInv'
    BY <1>1 DEF CopiedInv, Readable
  <2>1. srcpos + written <= in_off /\ \A i \in 0..(in_off - 1) : out[i] = Content(i)
    BY <1>1 DEF CopiedInv, CopiedTo
  <2>2. srcpos' = srcpos + written
    BY <1>9
  <2>3. in_off <= file.len
    BY <1>1, <1>3, <1>4, <1>6 DEF SparseInv, Stuck, ByRead
  <2>4. \A i \in 0..(srcpos' - 1) : out'[i] = Content(i)'
    BY <1>1, <1>3, <2>1, <2>2 DEF Content
  <2>5. srcpos' = 0 => /\ next_beg <= in_off /\ next_beg' = next_beg
    BY <1>1, <1>3, <1>5, <1>6 DEF SparseInv, Stuck, ByRead
  <2>6. srcpos' = 0 => \A i \in 0..(next_beg' - 1) : out'[i] = Content(i)'
    BY <1>1, <1>3, <2>1, <2>5 DEF Content
  <2> QED
    BY <1>1, <1>3, <1>4, <2>1, <2>2, <2>3, <2>4, <2>6 DEF CopiedInv, CopiedTo, PieceAhead
<1> QED
  BY <1>7, <1>8, <1>10, <1>11

\* Another process truncates the source.
LEMMA StepShrinks ==
  ASSUME ContentsInv, NEW n \in 0..MaxLen, SourceShrinks(n)
  PROVE  PiecesInv'
<1> USE DEF ContentsInv, BaseInv, PiecesInv
<1>1. /\ file.shrinks /\ n < avail /\ avail' = n
      /\ UNCHANGED <<file, pc, srcpos, next_beg, next_end, next_len, can_handle_sparse>>
      /\ UNCHANGED <<use_copy_file_range, use_sendfile, HAS_COPY_FILE_RANGE, HAS_SENDFILE>>
      /\ UNCHANGED <<written, in_off, out_off, out>>
  BY DEF SourceShrinks, loopVars, callVars, fdVars
<1>2. /\ file.len \in Nat /\ avail \in Nat /\ avail <= file.len /\ n \in Nat /\ MaxLen \in Nat
      /\ next_beg \in Nat /\ in_off \in Nat
  <2>1. file.len \in Nat /\ avail \in Nat /\ avail <= file.len /\ MaxLen \in Nat
    BY FileFacts
  <2> QED
    BY <2>1 DEF TypeOK
<1>3. InPlace' /\ Chosen'
  BY <1>1 DEF InPlace, Content, Chosen, Steady, SteadySeek
<1>4. SparseInv' /\ CopiedInv'
  BY <1>1 DEF SparseInv, PieceAhead, CopiedInv, Readable
<1>5. PlainInv'
  <2> SUFFICES ASSUME ~can_handle_sparse, pc \in {"loop", "chunk", "read"}
               PROVE  Stuck' \/ ByRange' \/ BySendfile' \/ ByRead'
    BY <1>1 DEF PlainInv
  <2>1. Stuck \/ ByRange \/ BySendfile \/ ByRead
    BY DEF PlainInv
  <2>2. Stuck => Stuck'
    BY <1>1, <1>2 DEF Stuck, Readable
  <2>3. ByRange => ByRange'
    BY <1>1 DEF ByRange
  <2>4. BySendfile => BySendfile'
    BY <1>1 DEF BySendfile
  <2>5. ByRead => ByRead'
    BY <1>1 DEF ByRead
  <2> QED
    BY <2>1, <2>2, <2>3, <2>4, <2>5
<1> QED
  BY <1>3, <1>4, <1>5

\* The result of acl_copy_fd() is passed on.
Passes ==
  /\ pc = "acl" /\ pc' \in {"trunc", "err"}
  /\ UNCHANGED <<file, avail, loopVars, callVars, fdVars>>

ContentsSteps == Step \/ Passes \/ (\E n \in 0..MaxLen : SourceShrinks(n))

\* Every step preserves what holds whatever the calls return.
LEMMA StepBase ==
  ASSUME BaseInv, ContentsSteps \/ UNCHANGED vars
  PROVE  BaseInv'
<1> USE DEF BaseInv
<1>1. CASE UNCHANGED vars
  <2> USE <1>1 DEF vars, loopVars, callVars, fdVars
  <2>1. TypeOK'
    BY DEF TypeOK
  <2>2. BeforeLoop'
    BY DEF BeforeLoop, Zeros
  <2> QED
    BY <2>1, <2>2 DEF FileInv, ExtentInv
<1>2. CASE Prepare \/ Truncate \/ (Passes /\ pc' = "trunc")
  <2>1. can_handle_sparse' \in BOOLEAN
    <3>1. CASE Prepare
      BY <3>1, FileFacts DEF Prepare
    <3>2. CASE Truncate
      BY <3>2, Zenon DEF Truncate
    <3>3. CASE Passes
      BY <3>3 DEF Passes, loopVars, TypeOK
    <3> QED
      BY <1>2, <3>1, <3>2, <3>3
  <2>2. Opens
    BY <1>2, <2>1 DEF Opens, Prepare, Truncate, Passes, loopVars
  <2> QED
    BY <2>2 DEF Opens, callVars, fdVars, TypeOK, FileInv, BeforeLoop, ExtentInv, Zeros
<1>3. CASE PrepareFails \/ TruncateFails \/ SeekFails \/ CallFails \/ ReadFails
           \/ (Passes /\ pc' = "err")
  <2>1. Fails
    BY <1>3 DEF PrepareFails, TruncateFails, SeekFails, CallFails, ReadFails, Passes, Fails
  <2> QED
    BY <2>1 DEF Fails, loopVars, callVars, fdVars, TypeOK, FileInv, BeforeLoop, ExtentInv
<1>4. CASE FirstData
  <2>1. /\ pc = "seek" /\ pc' = "seekHole"
        /\ UNCHANGED <<file, avail, srcpos, next_end, next_len, written, out_off, out>>
        /\ UNCHANGED <<use_copy_file_range, use_sendfile, HAS_COPY_FILE_RANGE, HAS_SENDFILE>>
    BY <1>4 DEF FirstData, callVars
  <2>2. srcpos = 0 /\ next_beg = 0 /\ in_off = 0 /\ out_off = 0 /\ out = Zeros
    BY <2>1 DEF BeforeLoop
  <2>3. \/ /\ can_handle_sparse' = can_handle_sparse /\ TRUE \in file.seek /\ DataFrom(0) # {}
           /\ next_beg' = NextData(0) /\ in_off' = NextData(0)
        \/ can_handle_sparse' = FALSE /\ next_beg' = 0 /\ in_off' = in_off
    BY <1>4, SeekResults DEF FirstData
  <2>4. CASE /\ can_handle_sparse' = can_handle_sparse /\ TRUE \in file.seek /\ DataFrom(0) # {}
             /\ next_beg' = NextData(0) /\ in_off' = NextData(0)
    <3>1. /\ NextData(0) \in Nat /\ NextData(0) \in file.data
          /\ \A i \in file.data : 0 <= i => NextData(0) <= i
      BY <2>4, NextDataIsFirst
    <3>2. \A i \in 0..(NextData(0) - 1) : i \notin file.data
      BY <3>1
    <3>3. TypeOK'
      BY <2>1, <2>4, <3>1 DEF TypeOK
    <3>4. BeforeLoop'
      <4>1. CASE can_handle_sparse
        BY <2>1, <2>2, <2>4, <3>1, <3>2, <4>1 DEF BeforeLoop, Zeros
      <4>2. CASE ~can_handle_sparse
        <5>1. next_beg' = 0 /\ in_off' = 0
          BY <1>4, <2>2, <4>2 DEF FirstData
        <5> QED
          BY <2>1, <2>2, <2>4, <4>2, <5>1 DEF BeforeLoop, Zeros
      <4> QED
        BY <4>1, <4>2
    <3> QED
      BY <2>1, <3>3, <3>4 DEF FileInv, ExtentInv
  <2>5. CASE can_handle_sparse' = FALSE /\ next_beg' = 0 /\ in_off' = in_off
    BY <2>1, <2>2, <2>5 DEF TypeOK, FileInv, BeforeLoop, ExtentInv, Zeros
  <2> QED
    BY <2>3, <2>4, <2>5
<1>5. CASE FirstHole
  <2>1. /\ pc = "seekHole" /\ pc' = "loop" /\ next_len' = next_end' - next_beg
        /\ UNCHANGED <<file, avail, srcpos, next_beg, written, out_off, out>>
        /\ UNCHANGED <<use_copy_file_range, use_sendfile, HAS_COPY_FILE_RANGE, HAS_SENDFILE>>
    BY <1>5 DEF FirstHole, callVars
  <2>2. \/ /\ can_handle_sparse' = can_handle_sparse /\ can_handle_sparse /\ next_beg < Size
           /\ next_end' = NextHole(next_beg) /\ in_off' = NextHole(next_beg)
        \/ can_handle_sparse' = FALSE /\ next_end' = file.len /\ in_off' = in_off
    BY <1>5 DEF FirstHole, bytes_to_copy
  <2>3. can_handle_sparse => next_beg \in file.data
    BY <2>1 DEF BeforeLoop
  <2>4. next_beg \in Nat /\ file.len \in Nat
    BY FileFacts DEF TypeOK
  <2>5. can_handle_sparse' \in BOOLEAN /\ next_end' \in Nat /\ in_off' \in Nat
    <3>1. CASE can_handle_sparse /\ next_beg < Size
      BY <2>2, <2>3, <2>4, <3>1, NextHoleIsBehind DEF TypeOK
    <3>2. CASE ~(can_handle_sparse /\ next_beg < Size)
      BY <2>2, <2>4, <3>2 DEF TypeOK
    <3> QED
      BY <3>1, <3>2
  <2>6. TypeOK'
    BY <2>1, <2>4, <2>5 DEF TypeOK
  <2> QED
    BY <2>1, <2>6 DEF FileInv, BeforeLoop, ExtentInv
<1>6. CASE Returns \/ FirstTurn \/ NextPiece \/ EmptyPiece
  <2>1. /\ pc \in {"loop", "chunk"} /\ pc' \in {"loop", "chunk", "ok"}
        /\ srcpos' \in Nat /\ next_beg' \in Nat /\ next_end' \in Nat
        /\ pc' = "chunk" => srcpos' < file.len
        /\ UNCHANGED <<file, avail, next_len, can_handle_sparse, written, in_off, out_off, out>>
        /\ UNCHANGED <<use_copy_file_range, use_sendfile, HAS_COPY_FILE_RANGE, HAS_SENDFILE>>
    <3>1. file.len \in Nat /\ srcpos \in Nat /\ next_beg \in Nat /\ next_end \in Nat
      BY FileFacts DEF TypeOK
    <3> QED
      BY <1>6, <3>1 DEF Returns, FirstTurn, NextPiece, EmptyPiece, Looping, bytes_to_copy,
         loopVars, callVars, fdVars
  <2>2. TypeOK'
    BY <2>1 DEF TypeOK
  <2> QED
    BY <2>1, <2>2 DEF FileInv, BeforeLoop, ExtentInv
<1>7. CASE SeekData
  <2>1. srcpos \in Nat /\ DataFrom(srcpos) # {} /\ pc' = "extent" /\ srcpos # 0 /\ srcpos < file.len
        /\ next_beg' = NextData(srcpos) /\ in_off' = NextData(srcpos) /\ can_handle_sparse
        /\ UNCHANGED <<file, avail, srcpos, next_end, next_len, can_handle_sparse, written, out_off, out>>
        /\ UNCHANGED <<use_copy_file_range, use_sendfile, HAS_COPY_FILE_RANGE, HAS_SENDFILE>>
    BY <1>7 DEF SeekData, Looping, bytes_to_copy, callVars, TypeOK
  <2>2. NextData(srcpos) \in Nat /\ NextData(srcpos) \in file.data /\ srcpos <= NextData(srcpos)
    BY <2>1, NextDataIsFirst
  <2>3. TypeOK'
    BY <2>1, <2>2 DEF TypeOK
  <2> QED
    BY <2>1, <2>2, <2>3 DEF FileInv, BeforeLoop, ExtentInv
<1>8. CASE SeekHole
  <2>1. /\ pc = "extent" /\ pc' = "chunk" /\ next_beg < Size
        /\ next_end' = NextHole(next_beg) /\ in_off' = NextHole(next_beg)
        /\ next_len' = NextHole(next_beg) - next_beg
        /\ UNCHANGED <<file, avail, srcpos, next_beg, can_handle_sparse, written, out_off, out>>
        /\ UNCHANGED <<use_copy_file_range, use_sendfile, HAS_COPY_FILE_RANGE, HAS_SENDFILE>>
    BY <1>8 DEF SeekHole, callVars
  <2>2. NextHole(next_beg) \in Nat /\ next_beg \in Nat
    BY <2>1, NextHoleIsBehind DEF ExtentInv, TypeOK
  <2>3. TypeOK'
    BY <2>1, <2>2 DEF TypeOK
  <2> QED
    BY <2>1, <2>3 DEF FileInv, BeforeLoop, ExtentInv
<1>9. CASE CopyRange \/ SendFile \/ ReadAndWrite
  <2>1. out' \in [Offsets -> 0..MaxLen]
    <3>1. \A o, a, n : Written(o, a, n) \in [Offsets -> 0..MaxLen]
      BY WrittenTypes
    <3>2. \E o, a, n : out' = Written(o, a, n)
      <4>1. CASE CopyRange
        BY <4>1 DEF CopyRange
      <4>2. CASE SendFile
        BY <4>2 DEF SendFile
      <4>3. CASE ReadAndWrite
        BY <4>3 DEF ReadAndWrite
      <4> QED
        BY <1>9, <4>1, <4>2, <4>3
    <3> QED
      BY <3>1, <3>2
  <2>2. /\ pc \in {"chunk", "read"} /\ pc' \in {"loop", "read"} /\ (pc' = "read" => pc = "read")
        /\ UNCHANGED <<file, avail, next_end, can_handle_sparse>>
        /\ UNCHANGED <<use_copy_file_range, use_sendfile, HAS_COPY_FILE_RANGE, HAS_SENDFILE>>
        /\ pc' = "read" => srcpos' = srcpos
    BY <1>9 DEF CopyRange, SendFile, ReadAndWrite, CopyingRange, Sending, Again, callVars
  <2>3. /\ srcpos' \in Nat /\ next_beg' \in Nat /\ next_len' \in Int
        /\ written' \in Nat /\ in_off' \in Nat /\ out_off' \in Nat
    <3>1. \A p \in Nat, w \in Int : Counts(p, w) \subseteq Nat
      BY CountsFit
    <3>2. /\ srcpos \in Nat /\ next_beg \in Nat /\ next_len \in Int /\ BufSize \in Nat
          /\ written \in Nat /\ in_off \in Nat /\ out_off \in Nat /\ SoughtOut \in Nat
      BY FileFacts DEF TypeOK, SoughtOut
    <3>3. CASE CopyRange
      <4>1. PICK n \in Counts(next_beg, next_len) : srcpos' = srcpos + n /\ next_beg' = next_beg + n
        BY <3>3 DEF CopyRange, Again
      <4> QED
        BY <3>1, <3>2, <3>3, <4>1 DEF CopyRange
    <3>4. CASE SendFile
      <4>1. PICK n \in Counts(next_beg, next_len) :
              srcpos' = srcpos + n /\ next_beg' = next_beg + n /\ out_off' = SoughtOut + n
        BY <3>4 DEF SendFile, Again
      <4> QED
        BY <3>1, <3>2, <3>4, <4>1 DEF SendFile
    <3>5. CASE ReadAndWrite
      <4>1. PICK w \in Int : w = IF next_len <= BufSize THEN next_len ELSE BufSize
        BY <3>2
      <4>2. PICK n \in Counts(in_off, w) :
              /\ in_off' = in_off + n /\ out_off' = out_off + n /\ written' = written + n
              /\ next_len' = next_len - n
        BY <3>5, <4>1 DEF ReadAndWrite
      <4> QED
        BY <3>1, <3>2, <3>5, <4>2 DEF ReadAndWrite
    <3> QED
      BY <1>9, <3>3, <3>4, <3>5
  <2>4. TypeOK'
    BY <2>1, <2>2, <2>3 DEF TypeOK
  <2> QED
    BY <2>2, <2>4 DEF FileInv, BeforeLoop, ExtentInv
<1>10. CASE CopyRangeUnusable \/ SendFileUnusable
  <2>1. /\ pc = "chunk" /\ pc' = "loop"
        /\ UNCHANGED <<file, avail, srcpos, next_beg, next_end, next_len, can_handle_sparse>>
        /\ UNCHANGED <<written, in_off, out>>
    BY <1>10 DEF CopyRangeUnusable, SendFileUnusable, CopyingRange, Sending, loopVars, fdVars
  <2>2. /\ use_copy_file_range' \in BOOLEAN /\ HAS_COPY_FILE_RANGE' \in BOOLEAN
        /\ use_sendfile' \in BOOLEAN /\ HAS_SENDFILE' \in BOOLEAN
    BY <1>10, Zenon DEF CopyRangeUnusable, SendFileUnusable, UseRange, TypeOK
  <2>3. out_off' \in Nat
    BY <1>10 DEF CopyRangeUnusable, SendFileUnusable, fdVars, SoughtOut, TypeOK
  <2>4. TypeOK'
    BY <2>1, <2>2, <2>3 DEF TypeOK
  <2> QED
    BY <2>1, <2>4 DEF FileInv, BeforeLoop, ExtentInv
<1>11. CASE StartReading \/ ReadNothing \/ ReadDone
  <2>1. /\ pc \in {"chunk", "read"} /\ pc' \in {"read", "loop"}
        /\ UNCHANGED <<file, avail, next_beg, next_end, next_len, can_handle_sparse, out>>
        /\ UNCHANGED <<use_copy_file_range, use_sendfile, HAS_COPY_FILE_RANGE, HAS_SENDFILE>>
        /\ pc' = "read" => srcpos' = srcpos
    BY <1>11 DEF StartReading, ReadNothing, ReadDone, Again, loopVars, callVars, fdVars
  <2>2. srcpos' \in Nat /\ written' \in Nat /\ in_off' \in Nat /\ out_off' \in Nat
    <3>1. /\ srcpos \in Nat /\ written \in Nat /\ in_off \in Nat /\ out_off \in Nat
          /\ next_beg \in Nat
      BY DEF TypeOK
    <3>2. SoughtOut \in Nat
      BY <3>1 DEF SoughtOut
    <3>3. CASE StartReading
      BY <3>1, <3>2, <3>3 DEF StartReading, loopVars
    <3>4. CASE ReadNothing \/ ReadDone
      <4>1. srcpos' = srcpos + (written + written) \/ srcpos' = srcpos + written
        BY <3>4 DEF ReadNothing, ReadDone, Again
      <4>2. UNCHANGED <<written, in_off, out_off>>
        BY <3>4 DEF ReadNothing, ReadDone, fdVars
      <4> QED
        BY <3>1, <4>1, <4>2
    <3> QED
      BY <1>11, <3>3, <3>4
  <2>3. TypeOK'
    BY <2>1, <2>2 DEF TypeOK
  <2> QED
    BY <2>1, <2>3 DEF FileInv, BeforeLoop, ExtentInv
<1>12. CASE \E n \in 0..MaxLen : SourceShrinks(n)
  <2>1. PICK n \in 0..MaxLen : SourceShrinks(n)
    BY <1>12
  <2>2. file.len \in Nat /\ avail \in Nat /\ MaxLen \in Nat
    BY FileFacts
  <2>3. /\ avail' = n /\ n < avail /\ file.shrinks
        /\ UNCHANGED <<file, pc, srcpos, next_beg, next_end, next_len, can_handle_sparse>>
        /\ UNCHANGED <<use_copy_file_range, use_sendfile, HAS_COPY_FILE_RANGE, HAS_SENDFILE>>
        /\ UNCHANGED <<written, in_off, out_off, out>>
    BY <2>1 DEF SourceShrinks, loopVars, callVars, fdVars
  <2>4. TypeOK'
    BY <2>3 DEF TypeOK
  <2>5. FileInv'
    BY <2>2, <2>3 DEF FileInv
  <2>6. BeforeLoop' /\ ExtentInv'
    BY <2>3 DEF BeforeLoop, ExtentInv, Zeros
  <2> QED
    BY <2>4, <2>5, <2>6
<1> QED
  BY <1>1, <1>2, <1>3, <1>4, <1>5, <1>6, <1>7, <1>8, <1>9, <1>10, <1>11, <1>12
     DEF ContentsSteps, Step, Passes

\* What the calls may do is chosen with the file; whether extents are sought, before the loop.
LEMMA StillTrusted ==
  ASSUME ContentsSteps \/ UNCHANGED vars, Trusted'
  PROVE  Trusted
<1> DEFINE Early == {"prepare", "acl", "trunc", "seek", "seekHole"}
<1>1. CASE pc \in Early
  BY <1>1 DEF Trusted
<1>2. CASE pc \notin Early
  <2>1. pc' \notin Early /\ UNCHANGED <<file, can_handle_sparse>>
    BY <1>2 DEF ContentsSteps, Step, PrepareFails, Prepare, TruncateFails, Truncate, FirstData,
       FirstHole, Returns, FirstTurn, SeekData, SeekHole, SeekFails, NextPiece, EmptyPiece,
       CopyRange, CopyRangeUnusable, SendFile, SendFileUnusable, CallFails, StartReading,
       ReadAndWrite, ReadFails, ReadNothing, ReadDone, Fails, Again, Passes, SourceShrinks,
       loopVars, vars
  <2> QED
    BY <2>1 DEF Trusted, Steady, SteadySeek
<1> QED
  BY <1>1, <1>2

\* Every step preserves the invariant of the contents.
LEMMA StepContents ==
  ASSUME OffsetsInv, ContentsSteps \/ UNCHANGED vars
  PROVE  OffsetsInv'
<1>1. BaseInv'
  BY StepBase DEF OffsetsInv
<1> SUFFICES ASSUME Trusted' PROVE PiecesInv'
  BY <1>1 DEF OffsetsInv
<1>2. ContentsInv
  BY StillTrusted DEF ContentsInv, OffsetsInv
<1>3. CASE Prepare \/ Truncate \/ (Passes /\ pc' = "trunc")
  <2>1. can_handle_sparse' \in BOOLEAN
    BY <1>1 DEF BaseInv, TypeOK
  <2>2. Opens
    BY <1>3, <2>1 DEF Opens, Prepare, Truncate, Passes, loopVars
  <2> QED
    BY <1>2, <2>2, StepOpens
<1>4. CASE PrepareFails \/ TruncateFails \/ SeekFails \/ CallFails \/ ReadFails
           \/ (Passes /\ pc' = "err")
  <2>1. Fails
    BY <1>4 DEF PrepareFails, TruncateFails, SeekFails, CallFails, ReadFails, Passes, Fails
  <2> QED
    BY <1>2, <2>1, StepFails
<1>5. CASE FirstData \/ FirstHole \/ Returns \/ FirstTurn \/ SeekData \/ SeekHole \/ NextPiece
           \/ EmptyPiece
  BY <1>2, <1>5, StepFirstData, StepFirstHole, StepReturns, StepFirstTurn, StepSeekData,
     StepSeekHole, StepNextPiece, NoEmptyPiece
<1>6. CASE CopyRange \/ CopyRangeUnusable \/ SendFile \/ SendFileUnusable
  BY <1>2, <1>6, StepCopyRange, StepCopyRangeUnusable, StepSendFile, StepSendFileUnusable
<1>7. CASE StartReading \/ ReadAndWrite \/ ReadNothing \/ ReadDone
  BY <1>2, <1>7, StepStartReading, StepReadAndWrite, StepReadEnds
<1>8. CASE \E n \in 0..MaxLen : SourceShrinks(n)
  BY <1>2, <1>8, StepShrinks
<1>9. CASE UNCHANGED vars
  <2> USE <1>2, <1>9 DEF vars, loopVars, callVars, fdVars, ContentsInv, PiecesInv
  <2>1. InPlace' /\ Chosen'
    BY DEF InPlace, Content, Chosen, Steady, SteadySeek
  <2>2. SparseInv' /\ CopiedInv'
    BY DEF SparseInv, PieceAhead, CopiedInv, Readable, CopiedTo, Content
  <2>3. PlainInv'
    BY DEF PlainInv, Stuck, Readable, ByRange, BySendfile, ByRead
  <2> QED
    BY <2>1, <2>2, <2>3
<1> QED
  BY <1>3, <1>4, <1>5, <1>6, <1>7, <1>8, <1>9 DEF ContentsSteps, Step, Passes

\* lseek() in the loop fails for a reason: a hole from srcpos to the end, or others.
LEMMA SeekFailsForReason ==
  ASSUME BaseInv, FailsInv, SeekFails
  PROVE  HoleAtEnd \/ avail < file.len \/ ~SteadySeek
<1> USE DEF BaseInv
<1>1. /\ file.len \in Nat /\ avail \in Nat /\ avail <= file.len /\ srcpos \in Nat
      /\ file.data \subseteq 0..(file.len - 1)
      /\ (Size = file.len \/ Size = avail)
  BY FileFacts DEF TypeOK, Size
<1>2. can_handle_sparse /\ pc \in {"loop", "extent"}
  BY DEF SeekFails, Looping, ExtentInv
<1>3. file.data # {} /\ TRUE \in file.seek
  BY <1>2 DEF FailsInv
<1>4. CASE FALSE \in file.seek
  BY <1>3, <1>4, SeekResults
<1>5. CASE pc = "loop" /\ FALSE \notin file.seek
  <2>1. srcpos # 0 /\ srcpos < file.len /\ DataFrom(srcpos) = {}
    BY <1>5 DEF SeekFails, Looping, NoMoreData, bytes_to_copy
  <2> SUFFICES ASSUME ~(avail < file.len) PROVE (file.len - 1) \notin file.data
    BY <1>1, <1>3, <2>1 DEF HoleAtEnd
  <2>2. Size = file.len
    BY <1>1
  <2> QED
    BY <1>1, <2>1, <2>2 DEF DataFrom
<1>6. CASE pc = "extent" /\ FALSE \notin file.seek
  <2>1. next_beg >= Size /\ next_beg \in file.data
    BY <1>6 DEF SeekFails, Looping, ExtentInv
  <2> QED
    BY <1>1, <2>1
<1> QED
  BY <1>2, <1>4, <1>5, <1>6

\* copy() fails for a reason.
LEMMA StepFailsInv ==
  ASSUME BaseInv, FailsInv, apc = "err" => apc' = "err",
         Step \/ (Passes /\ (pc' = "err" => apc' = "err"))
           \/ (\E n \in 0..MaxLen : SourceShrinks(n)) \/ UNCHANGED vars
  PROVE  FailsInv'
<1>1. file' = file
  BY DEF Step, PrepareFails, Prepare, TruncateFails, Truncate, FirstData, FirstHole,
     Returns, FirstTurn, SeekData, SeekHole, SeekFails, NextPiece, EmptyPiece, CopyRange, CopyRangeUnusable,
     SendFile, SendFileUnusable, CallFails, StartReading, ReadAndWrite, ReadFails, ReadNothing,
     ReadDone, Fails, Passes, SourceShrinks, vars
<1>2. can_handle_sparse' /\ pc' \in {"seekHole", "loop", "extent", "chunk", "read"} =>
       file.data # {} /\ TRUE \in file.seek
  <2>1. CASE FirstData
    <3>1. can_handle_sparse' => DataFrom(0) # {} /\ TRUE \in file.seek
      BY <2>1, SeekResults DEF FirstData, BaseInv
    <3> QED
      BY <3>1 DEF DataFrom
  <2>2. CASE FirstHole
    BY <2>2 DEF FirstHole, FailsInv
  <2>3. CASE PrepareFails \/ Prepare \/ TruncateFails \/ Truncate \/ Returns \/ SeekFails
             \/ CallFails \/ ReadFails \/ Passes
    BY <2>3 DEF PrepareFails, Prepare, TruncateFails, Truncate, Returns, SeekFails, CallFails,
       ReadFails, Fails, Passes
  <2>4. CASE FirstTurn \/ SeekData \/ SeekHole \/ NextPiece \/ EmptyPiece
    BY <2>4 DEF FirstTurn, SeekData, SeekHole, NextPiece, EmptyPiece, Looping, loopVars, FailsInv
  <2>5. CASE CopyRange \/ CopyRangeUnusable \/ SendFile \/ SendFileUnusable \/ StartReading
    BY <2>5 DEF CopyRange, CopyRangeUnusable, SendFile, SendFileUnusable, StartReading,
       CopyingRange, Sending, loopVars, FailsInv
  <2>6. CASE ReadAndWrite \/ ReadNothing \/ ReadDone
    BY <2>6 DEF ReadAndWrite, ReadNothing, ReadDone, FailsInv
  <2>7. CASE (\E n \in 0..MaxLen : SourceShrinks(n)) \/ UNCHANGED vars
    BY <2>7 DEF SourceShrinks, vars, loopVars, FailsInv
  <2> QED
    BY <2>1, <2>2, <2>3, <2>4, <2>5, <2>6, <2>7 DEF Step
<1>3. pc' = "err" => apc' = "err" \/ Environment \/ HoleAtEnd \/ avail' < file.len
  <2>1. CASE SeekFails
    <3>1. avail' = avail
      BY <2>1 DEF SeekFails, Fails
    <3> QED
      BY <2>1, <3>1, SeekFailsForReason DEF Environment
  <2>2. CASE PrepareFails \/ TruncateFails \/ ReadFails \/ CallFails
    BY <2>2 DEF PrepareFails, Prepared, CvtIgnorePerm, TruncateFails, ReadFails, CallFails, NoFallback,
       Environment, BaseInv, FileInv, File
  <2>3. CASE Prepare \/ Truncate \/ FirstData \/ FirstHole \/ Returns \/ FirstTurn
             \/ SeekData \/ SeekHole \/ NextPiece \/ EmptyPiece
    BY <2>3 DEF Prepare, Truncate, FirstData, FirstHole, Returns, FirstTurn, SeekData, SeekHole,
       NextPiece, EmptyPiece
  <2>4. CASE CopyRange \/ CopyRangeUnusable \/ SendFile \/ SendFileUnusable \/ StartReading
             \/ ReadAndWrite \/ ReadNothing \/ ReadDone
    BY <2>4 DEF CopyRange, CopyRangeUnusable, SendFile, SendFileUnusable, StartReading,
       ReadAndWrite, ReadNothing, ReadDone, Again
  <2>5. CASE Passes /\ (pc' = "err" => apc' = "err")
    BY <2>5
  <2>6. CASE \E n \in 0..MaxLen : SourceShrinks(n)
    <3>1. PICK n \in 0..MaxLen : n < avail /\ avail' = n /\ pc' = pc
      BY <2>6 DEF SourceShrinks
    <3>2. avail \in Nat /\ n \in Nat /\ file.len \in Nat
      BY FileFacts DEF BaseInv
    <3> QED
      BY <3>1, <3>2 DEF FailsInv
  <2>7. CASE UNCHANGED vars
    BY <2>7 DEF vars, FailsInv
  <2> QED
    BY <2>1, <2>2, <2>3, <2>4, <2>5, <2>6, <2>7 DEF Step
<1> QED
  BY <1>1, <1>2, <1>3 DEF FailsInv, Environment, SteadySeek, HoleAtEnd

----------------------------------------------------------------------------
(***************************************************************************)
(* The attributes.                                                         *)
(***************************************************************************)

\* FiniteSets as AclCopy, which Copy instantiates, extends it.
LEMMA SameCardinality ==
  /\ \A S : A!Cardinality(S) = Cardinality(S)
  /\ \A S : A!IsFiniteSet(S) = IsFiniteSet(S)
<1>1. ASSUME NEW S PROVE A!Cardinality(S) = Cardinality(S)
  BY DEF A!Cardinality, Cardinality
<1>2. ASSUME NEW S PROVE A!IsFiniteSet(S) = IsFiniteSet(S)
  BY Zenon DEF A!IsFiniteSet, IsFiniteSet
<1> QED
  BY <1>1, <1>2

\* The names and values of attributes, and the one the loop is at.
LEMMA AttributeFacts ==
  ASSUME A!TypeOK, HistoryInv
  PROVE  /\ IsFiniteSet(Names) /\ Length \in [Values -> Nat]
         /\ \A u, v \in Values : Length[u] = 0 /\ Length[v] = 0 => u = v
         /\ Absent \notin Values /\ Torn \notin Values /\ Absent # Torn
         /\ sys.initial \in [Names -> Values \cup {Absent}]
         /\ sys.list \in {"ok", "unsupported", "fails"}
         /\ sys.get \in [Names -> {"ok", "unsupported", "fails"}]
         /\ sys.set \in [Names -> {"ok", "eperm", "unsupported", "fails"}]
         /\ sys.max_changes \in Nat /\ changes \in Nat
         /\ Len(names) \in Nat /\ DOMAIN names = 1..Len(names) /\ pos \in Nat \ {0}
         /\ pos <= Len(names) => A!Name \in Names /\ A!Name = names[pos] /\ pos \in DOMAIN names
<1>1. /\ IsFiniteSet(Names) /\ Length \in [Values -> Nat]
      /\ \A u, v \in Values : Length[u] = 0 /\ Length[v] = 0 => u = v
      /\ Absent \notin Values /\ Torn \notin Values /\ Absent # Torn
  <2>1. A!AclCopyAssumption
    BY CopyAssumption
  <2>2. IsFiniteSet(Names) /\ Length \in [Values -> Nat]
    BY <2>1, SameCardinality DEF A!AclCopyAssumption
  <2>3. \A u, v \in Values : Length[u] = 0 /\ Length[v] = 0 => u = v
    BY <2>1 DEF A!AclCopyAssumption
  <2>4. Absent \notin Values /\ Torn \notin Values /\ Absent # Torn
    BY <2>1 DEF A!AclCopyAssumption
  <2> QED
    BY <2>2, <2>3, <2>4
<1>2. /\ sys.initial \in [Names -> Values \cup {Absent}]
      /\ sys.list \in {"ok", "unsupported", "fails"}
      /\ sys.get \in [Names -> {"ok", "unsupported", "fails"}]
      /\ sys.set \in [Names -> {"ok", "eperm", "unsupported", "fails"}]
      /\ sys.max_changes \in Nat
  BY DEF HistoryInv, A!System
<1>3. /\ changes \in Nat /\ names \in Seq(Names) /\ pos \in 1..(Len(names) + 1)
  BY <1>2 DEF A!TypeOK
<1>4. /\ Len(names) \in Nat /\ DOMAIN names = 1..Len(names) /\ pos \in Nat \ {0}
      /\ pos <= Len(names) => names[pos] \in Names /\ pos \in DOMAIN names
  BY <1>3
<1> QED
  BY <1>1, <1>2, <1>3, <1>4 DEF A!Name

\* Before acl_copy_fd() is called.
LEMMA StartAttributes ==
  ASSUME sys \in Systems, A!Start
  PROVE  AttributesInv
<1> USE DEF A!Start
<1>1. sys \in A!System
  BY CopyAssumption DEF A!AclCopyAssumption
<1>2. sys.initial \in [Names -> Values \cup {Absent}] /\ sys.max_changes \in Nat
  BY <1>1 DEF A!System
<1>3. A!TypeOK
  <2>1. names \in Seq(Names) /\ Len(names) = 0
    OBVIOUS
  <2>2. history \in [Names -> SUBSET (Values \cup {Absent})]
    BY <1>2
  <2> QED
    BY <1>2, <2>1, <2>2 DEF A!TypeOK
<1>4. HistoryInv
  BY <1>1 DEF HistoryInv
<1>5. ListInv /\ ValueInv
  BY DEF ListInv, InList, ValueInv
<1> QED
  BY <1>3, <1>4, <1>5 DEF AttributesInv, A!OkMeansCopied

\* acl_copy_fd() returns.
AclReturns ==
  /\ apc' \in {"ok", "err"}
  /\ UNCHANGED <<sys, attrs, history, changes, dst, num_bytes, names, pos, buffer>>

\* acl_copy_fd() returns, with or without an error.
LEMMA StepAclReturns ==
  ASSUME AttributesInv, AclReturns
  PROVE  A!TypeOK' /\ HistoryInv' /\ ListInv' /\ ValueInv'
<1> USE DEF AttributesInv, AclReturns
<1>1. A!TypeOK'
  BY DEF A!TypeOK
<1>2. HistoryInv'
  BY DEF HistoryInv
<1>3. ListInv'
  BY DEF ListInv, InList
<1>4. ValueInv'
  BY DEF ValueInv, Genuine
<1> QED
  BY <1>1, <1>2, <1>3, <1>4

\* They are names, and there are finitely many.
LEMMA AlwaysThereIsFinite ==
  ASSUME AttributesInv
  PROVE  IsFiniteSet(AlwaysThere)
<1>1. IsFiniteSet(Names)
  BY AttributeFacts DEF AttributesInv
<1> QED
  BY <1>1, FS_Subset DEF AlwaysThere

\* It returns an error for a reason, and Ok when all is copied or cannot be.
LEMMA ReturnsExplained ==
  ASSUME AttributesInv,
         A!ListFails \/ A!ListGrown \/ A!AllCopied \/ A!GetFails \/ A!GetGone \/ A!GetGrown
           \/ A!SetFails
  PROVE  AclReturns /\ A!OkMeansCopied' /\ (apc' = "err" => A!Reason')
<1> USE DEF AttributesInv, A!Return, A!ReturnError, A!source
<1>1. /\ sys.list \in {"ok", "unsupported", "fails"}
      /\ sys.get \in [Names -> {"ok", "unsupported", "fails"}]
      /\ sys.set \in [Names -> {"ok", "eperm", "unsupported", "fails"}]
      /\ changes \in Nat
      /\ Len(names) \in Nat /\ DOMAIN names = 1..Len(names) /\ pos \in Nat \ {0}
      /\ pos <= Len(names) => A!Name \in Names /\ A!Name = names[pos] /\ pos \in DOMAIN names
  BY AttributeFacts
<1>2. CASE A!ListFails
  <2>1. /\ sys.list # "ok" /\ apc' = (IF sys.list = "unsupported" THEN "ok" ELSE "err")
        /\ UNCHANGED <<sys, attrs, history, changes, dst, num_bytes, names, pos, buffer>>
    BY <1>2 DEF A!ListFails
  <2>2. AclReturns
    BY <2>1 DEF AclReturns
  <2> QED
    BY <1>1, <2>1, <2>2 DEF A!OkMeansCopied, A!Reason
<1>3. CASE A!ListGrown
  <2>1. /\ apc = "list" /\ apc' = "err"
        /\ UNCHANGED <<sys, attrs, history, changes, dst, num_bytes, names, pos, buffer>>
    BY <1>3 DEF A!ListGrown
  <2>2. num_bytes \in Nat /\ Cardinality(A!Present) > num_bytes
    BY <1>3, SameCardinality DEF A!TypeOK, A!ListGrown
  <2>3. \E n \in Names : A!Added(n)
    <3>1. SUFFICES ASSUME \A n \in Names : ~A!Added(n) PROVE FALSE
      OBVIOUS
    <3>2. A!Present \subseteq AlwaysThere
      BY <3>1 DEF A!Present, A!Added, AlwaysThere, Lost
    <3>3. IsFiniteSet(AlwaysThere)
      BY AlwaysThereIsFinite
    <3>4. /\ Cardinality(A!Present) <= Cardinality(AlwaysThere)
          /\ Cardinality(A!Present) \in Nat /\ Cardinality(AlwaysThere) \in Nat
      BY <3>2, <3>3, FS_Subset, FS_CardinalityType
    <3>5. Cardinality(AlwaysThere) <= num_bytes
      BY <2>1 DEF ListInv
    <3> QED
      BY <2>2, <3>4, <3>5
  <2>4. (\E n \in Names : A!Added(n))'
    BY <2>1, <2>3 DEF A!Added
  <2> QED
    BY <2>1, <2>4 DEF A!OkMeansCopied, A!Reason, AclReturns
<1>4. CASE A!AllCopied
  <2>1. /\ apc = "getSize" /\ apc' = "ok" /\ pos > Len(names)
        /\ UNCHANGED <<sys, attrs, history, changes, dst, num_bytes, names, pos, buffer>>
    BY <1>4 DEF A!AllCopied
  <2>2. ASSUME NEW n \in Names, sys.initial[n] # Absent, ~A!Vanished(n)
        PROVE  dst[n] # Absent \/ A!Ignored(n)
    <3>1. sys.initial[n] \in history[n]
      BY DEF HistoryInv
    <3>2. ~Lost(n)
      BY <2>2, <3>1 DEF A!Vanished, Lost
    <3>3. PICK k \in DOMAIN names : names[k] = n /\ (k < pos => dst[n] # Absent \/ A!Ignored(n))
      BY <2>1, <2>2, <3>2 DEF ListInv, InList
    <3>4. k < pos
      BY <1>1, <2>1
    <3> QED
      BY <3>3, <3>4
  <2> QED
    BY <2>1, <2>2 DEF A!OkMeansCopied, AclReturns, A!Vanished, A!Ignored
<1>5. CASE A!GetFails
  <2>1. /\ pos <= Len(names) /\ sys.get[A!Name] # "ok"
        /\ apc' = (IF sys.get[A!Name] = "unsupported" THEN "ok" ELSE "err")
        /\ UNCHANGED <<sys, attrs, history, changes, dst, num_bytes, names, pos, buffer>>
    BY <1>5 DEF A!GetFails, A!Looping
  <2>2. sys.get[A!Name] \in {"unsupported", "fails"} /\ A!Name \in Names
    BY <1>1, <2>1
  <2>3. AclReturns
    BY <2>1 DEF AclReturns
  <2>4. CASE sys.get[A!Name] = "unsupported"
    BY <2>1, <2>2, <2>3, <2>4 DEF A!OkMeansCopied
  <2>5. CASE sys.get[A!Name] = "fails"
    BY <2>1, <2>2, <2>3, <2>5 DEF A!OkMeansCopied, A!Reason
  <2> QED
    BY <2>2, <2>4, <2>5
<1>6. CASE A!GetGone
  <2>1. /\ pos <= Len(names) /\ attrs[A!Name] = Absent /\ apc' = "ok"
        /\ UNCHANGED <<sys, attrs, history, changes, dst, num_bytes, names, pos, buffer>>
    BY <1>6 DEF A!GetGone, A!Looping, A!WhenGone
  <2>2. PICK n \in Names : n = A!Name /\ n = names[pos] /\ pos \in DOMAIN names
    BY <1>1, <2>1
  <2>3. attrs[n] = Absent /\ Absent \in history[n]
    BY <2>1, <2>2 DEF HistoryInv
  <2>4. \E v \in history[n] : v # Absent
    BY <2>2 DEF ListInv
  <2>5. A!Vanished(n)
    BY <2>3, <2>4 DEF A!Vanished
  <2>6. A!Vanished(n)'
    BY <2>1, <2>5 DEF A!Vanished
  <2> QED
    BY <2>1, <2>6 DEF A!OkMeansCopied, AclReturns
<1>7. CASE A!GetGrown
  <2>1. /\ apc = "getValue" /\ pos <= Len(names) /\ Length[attrs[A!Name]] > num_bytes
        /\ attrs[A!Name] # Absent /\ num_bytes # 0
        /\ apc' = "err"
        /\ UNCHANGED <<sys, attrs, history, changes, dst, num_bytes, names, pos, buffer>>
    BY <1>7 DEF A!GetGrown, A!Getting, A!Looping
  <2>2. num_bytes \in Nat
    BY DEF A!TypeOK
  <2>3. PICK n \in Names : n = A!Name
    BY <1>1, <2>1
  <2>4. A!Grown(n)
    <3>1. PICK u \in history[n] \ {Absent} : Length[u] = num_bytes
      BY <2>1, <2>3 DEF ValueInv
    <3> QED
      BY <2>1, <2>2, <2>3, <3>1 DEF A!Grown
  <2>5. A!Grown(n)'
    BY <2>1, <2>4 DEF A!Grown
  <2> QED
    BY <2>1, <2>3, <2>5 DEF A!OkMeansCopied, A!Reason, AclReturns
<1>8. CASE A!SetFails
  <2>1. /\ pos <= Len(names) /\ sys.set[A!Name] \in {"eperm", "fails"} /\ ~A!Ignored(A!Name)
        /\ apc' = "err"
        /\ UNCHANGED <<sys, attrs, history, changes, dst, num_bytes, names, pos, buffer>>
    BY <1>8 DEF A!SetFails, A!Looping
  <2>2. PICK n \in Names : n = A!Name
    BY <1>1, <2>1
  <2>3. sys.set[n] = "fails" \/ (sys.set[n] = "eperm" /\ ~sys.ignore_eperm)
    BY <2>1, <2>2 DEF A!Ignored
  <2> QED
    BY <2>1, <2>3 DEF A!OkMeansCopied, A!Reason, AclReturns
<1> QED
  BY <1>2, <1>3, <1>4, <1>5, <1>6, <1>7, <1>8

\* The calls leave the source alone; what is known of it holds on.
SourceSame == UNCHANGED <<sys, attrs, history, changes>>

\* A step of the program changes no attribute of the source.
LEMMA SourceStays ==
  ASSUME AttributesInv, SourceSame
  PROVE  HistoryInv' /\ A!Present' = A!Present
BY DEF AttributesInv, SourceSame, HistoryInv, A!Present

\* The number of attributes, as the size of the list.
LEMMA PresentIsFinite ==
  ASSUME AttributesInv
  PROVE  /\ IsFiniteSet(A!Present)
         /\ A!Cardinality(A!Present) \in Nat
         /\ A!Cardinality(A!Present) = Cardinality(A!Present)
         /\ A!Cardinality(A!Present) = 0 => A!Present = {}
<1>1. IsFiniteSet(Names)
  BY AttributeFacts DEF AttributesInv
<1>2. A!Present \subseteq Names
  BY DEF A!Present
<1>3. IsFiniteSet(A!Present)
  BY <1>1, <1>2, FS_Subset
<1>4. Cardinality(A!Present) \in Nat /\ (Cardinality(A!Present) = 0 <=> A!Present = {})
  BY <1>3, FS_CardinalityType, FS_EmptySet
<1> QED
  BY <1>3, <1>4, SameCardinality

\* The size of the list; without attributes there is nothing to do.
LEMMA StepListSize ==
  ASSUME AttributesInv, A!ListSize
  PROVE  AttributesInv'
<1> USE DEF AttributesInv, A!ListSize, A!source
<1>1. SourceSame /\ UNCHANGED <<dst, names, pos, buffer>> /\ apc = "size"
  BY DEF SourceSame
<1>2. num_bytes' = A!Cardinality(A!Present) /\ num_bytes' \in Nat
  BY PresentIsFinite
<1>3. apc' = "list" \/ (apc' = "ok" /\ num_bytes' = 0)
  BY <1>2
<1>4. HistoryInv' /\ A!Present' = A!Present
  BY <1>1, SourceStays
<1>5. A!TypeOK'
  BY <1>1, <1>2, <1>3 DEF A!TypeOK, SourceSame
<1>6. ListInv'
  <2>1. AlwaysThere' = AlwaysThere /\ AlwaysThere \subseteq A!Present
    BY <1>1 DEF AlwaysThere, Lost, A!Present, SourceSame, HistoryInv
  <2>2. IsFiniteSet(A!Present) /\ num_bytes' = Cardinality(A!Present)
    BY <1>2, PresentIsFinite
  <2>3. Cardinality(AlwaysThere) <= num_bytes'
    BY <2>1, <2>2, FS_Subset
  <2> QED
    BY <1>1, <1>3, <2>1, <2>3 DEF ListInv, InList, SourceSame
<1>7. ValueInv'
  BY <1>1, <1>3 DEF ValueInv, Genuine, SourceSame
<1>8. A!OkMeansCopied'
  <2>1. CASE apc' = "ok"
    <3>1. A!Present = {}
      BY <1>2, <1>3, <2>1, PresentIsFinite
    <3>2. ASSUME NEW n \in Names, sys.initial[n] # Absent
          PROVE  A!Vanished(n)
      <4>1. attrs[n] = Absent
        BY <3>1 DEF A!Present
      <4>2. attrs[n] \in history[n] /\ sys.initial[n] \in history[n]
        BY DEF HistoryInv
      <4> QED
        BY <3>2, <4>1, <4>2 DEF A!Vanished
    <3> QED
      BY <1>1, <3>2 DEF A!OkMeansCopied, A!Vanished, SourceSame
  <2> QED
    BY <1>3, <2>1 DEF A!OkMeansCopied
<1> QED
  BY <1>3, <1>4, <1>5, <1>6, <1>7, <1>8

\* The list names all attributes that are there now.
LEMMA StepList ==
  ASSUME AttributesInv, A!List
  PROVE  AttributesInv'
<1> USE DEF AttributesInv, A!List, A!source
<1>1. /\ SourceSame /\ UNCHANGED <<dst, num_bytes, pos, buffer>>
      /\ apc = "list" /\ apc' = "getSize" /\ pos = 1
  BY DEF SourceSame, ListInv
<1>2. names' \in A!Listings(A!Present)
  OBVIOUS
<1> DEFINE c == A!Cardinality(A!Present)
<1>3. /\ c \in Nat /\ names' \in [1..c -> A!Present]
      /\ \A n \in A!Present : \E k \in DOMAIN names' : names'[k] = n
  BY <1>2, PresentIsFinite DEF A!Listings
<1> HIDE DEF c
<1>4. names' \in Seq(Names) /\ Len(names') \in Nat
  <2>1. names' \in [1..c -> Names]
    BY <1>3 DEF A!Present
  <2>2. names' \in Seq(Names)
    BY <1>3, <2>1
  <2> QED
    BY <2>2
<1>5. HistoryInv'
  BY <1>1, SourceStays
<1>6. A!TypeOK'
  BY <1>1, <1>4 DEF A!TypeOK, SourceSame
<1>7. ASSUME NEW k \in DOMAIN names'
      PROVE  \E v \in history[names'[k]] : v # Absent
  <2>1. names'[k] \in Names /\ attrs[names'[k]] # Absent
    BY <1>3 DEF A!Present
  <2> QED
    BY <2>1 DEF HistoryInv
<1>8. ASSUME NEW n \in Names, ~Lost(n)
      PROVE  \E k \in DOMAIN names' : names'[k] = n /\ ~(k < 1)
  <2>1. n \in A!Present
    BY <1>8 DEF HistoryInv, Lost, A!Present
  <2>2. PICK k \in DOMAIN names' : names'[k] = n
    BY <1>3, <2>1
  <2>3. k \in 1..c
    BY <1>3
  <2>4. ~(k < 1)
    BY <2>3, <1>3
  <2> QED
    BY <2>2, <2>4
<1>9. ListInv'
  BY <1>1, <1>7, <1>8 DEF ListInv, Lost, SourceSame
<1>10. ValueInv'
  BY <1>1 DEF ValueInv, Genuine, SourceSame
<1> QED
  BY <1>1, <1>5, <1>6, <1>9, <1>10 DEF A!OkMeansCopied

\* The size of a value.
LEMMA StepGetSize ==
  ASSUME AttributesInv, A!GetSize
  PROVE  AttributesInv'
<1> USE DEF AttributesInv
<1>1. /\ SourceSame /\ UNCHANGED <<dst, names, pos, buffer>>
      /\ apc = "getSize" /\ apc' = "getValue" /\ pos <= Len(names)
      /\ num_bytes' = Length[attrs[A!Name]] /\ attrs[A!Name] # Absent
  BY DEF A!GetSize, A!Getting, A!Looping, A!source, SourceSame
<1>2. A!Name \in Names /\ A!Name' = A!Name
  BY <1>1, AttributeFacts DEF A!Name
<1>3. attrs[A!Name] \in Values /\ attrs[A!Name] \in history[A!Name]
  BY <1>1, <1>2 DEF A!TypeOK, HistoryInv
<1>4. num_bytes' \in Nat
  BY <1>1, <1>3, AttributeFacts
<1>5. HistoryInv'
  BY <1>1, SourceStays
<1>6. A!TypeOK'
  BY <1>1, <1>4 DEF A!TypeOK, SourceSame
<1>7. ListInv'
  BY <1>1 DEF ListInv, Lost, InList, SourceSame, A!Ignored
<1>8. ValueInv'
  <2>1. \A n \in Names : dst'[n] # Absent => Genuine(n, dst[n])'
    BY <1>1 DEF ValueInv, Genuine, SourceSame
  <2>2. (\E u \in history[A!Name] \ {Absent} : Length[u] = num_bytes)'
    BY <1>1, <1>2, <1>3 DEF SourceSame
  <2> QED
    BY <1>1, <2>1, <2>2 DEF ValueInv
<1> QED
  BY <1>1, <1>5, <1>6, <1>7, <1>8 DEF A!OkMeansCopied

\* What is read is the value, or, if it became shorter, anything of its old length.
LEMMA StepGetValue ==
  ASSUME AttributesInv, A!GetValue
  PROVE  AttributesInv'
<1> USE DEF AttributesInv
<1>1. /\ SourceSame /\ UNCHANGED <<dst, num_bytes, names, pos>>
      /\ apc = "getValue" /\ apc' = "set" /\ pos <= Len(names)
      /\ buffer' \in A!BufferOf(attrs[A!Name]) /\ attrs[A!Name] # Absent
      /\ num_bytes = 0 \/ Length[attrs[A!Name]] <= num_bytes
  BY DEF A!GetValue, A!Getting, A!Looping, A!source, SourceSame
<1>2. A!Name \in Names /\ A!Name' = A!Name
  BY <1>1, AttributeFacts DEF A!Name
<1>3. attrs[A!Name] \in Values /\ attrs[A!Name] \in history[A!Name]
  BY <1>1, <1>2 DEF A!TypeOK, HistoryInv
<1>4. /\ Length \in [Values -> Nat] /\ Absent \notin Values /\ Torn # Absent
      /\ \A u, v \in Values : Length[u] = 0 /\ Length[v] = 0 => u = v
  BY AttributeFacts
<1>5. num_bytes \in Nat /\ Length[attrs[A!Name]] \in Nat
  BY <1>3, <1>4 DEF A!TypeOK
<1>6. PICK u \in history[A!Name] \ {Absent} : Length[u] = num_bytes
  BY <1>1 DEF ValueInv
<1>7. u \in Values
  BY <1>2, <1>6 DEF A!TypeOK
<1>8. buffer' \in Values \cup {Torn} /\ Genuine(A!Name, buffer')
  <2>1. CASE num_bytes = 0
    <3>1. buffer' \in Values /\ Length[buffer'] = 0
      BY <1>1, <2>1 DEF A!BufferOf
    <3>2. buffer' = u
      BY <1>4, <1>6, <1>7, <2>1, <3>1
    <3> QED
      BY <1>6, <3>1, <3>2 DEF Genuine
  <2>2. CASE num_bytes # 0 /\ Length[attrs[A!Name]] = num_bytes
    <3>1. buffer' = attrs[A!Name]
      BY <1>1, <2>2 DEF A!BufferOf
    <3> QED
      BY <1>3, <3>1 DEF Genuine
  <2>3. CASE num_bytes # 0 /\ Length[attrs[A!Name]] # num_bytes
    <3>1. buffer' \in Values \cup {Torn}
      BY <1>1, <2>3 DEF A!BufferOf
    <3>2. Length[attrs[A!Name]] < Length[u]
      BY <1>1, <1>5, <1>6, <2>3
    <3>3. attrs[A!Name] \in history[A!Name] \ {Absent}
      BY <1>1, <1>3
    <3> QED
      BY <1>6, <3>1, <3>2, <3>3 DEF Genuine
  <2> QED
    BY <2>1, <2>2, <2>3
<1>9. HistoryInv'
  BY <1>1, SourceStays
<1>10. A!TypeOK'
  BY <1>1, <1>4, <1>8 DEF A!TypeOK, SourceSame
<1>11. ListInv'
  BY <1>1 DEF ListInv, Lost, InList, SourceSame, A!Ignored
<1>12. ValueInv'
  <2>1. \A n \in Names : dst'[n] # Absent => Genuine(n, dst[n])'
    BY <1>1 DEF ValueInv, Genuine, SourceSame
  <2>2. Genuine(A!Name, buffer)'
    BY <1>1, <1>2, <1>8 DEF Genuine, SourceSame
  <2> QED
    BY <1>1, <2>1, <2>2 DEF ValueInv
<1> QED
  BY <1>1, <1>9, <1>10, <1>11, <1>12 DEF A!OkMeansCopied

\* The value is set, or not, for a reason to be ignored, and the loop goes on.
LEMMA StepSet ==
  ASSUME AttributesInv, A!SetValue \/ A!SetIgnored
  PROVE  AttributesInv'
<1> USE DEF AttributesInv
<1>1. /\ SourceSame /\ UNCHANGED <<num_bytes, names, buffer>>
      /\ apc = "set" /\ apc' = "getSize" /\ pos <= Len(names) /\ pos' = pos + 1
  BY DEF A!SetValue, A!SetIgnored, A!Looping, A!Copied, A!AfterSet, A!source, SourceSame
<1>2. \/ dst' = [dst EXCEPT ![A!Name] = buffer]
      \/ dst' = dst /\ A!Ignored(A!Name)
  BY DEF A!SetValue, A!SetIgnored
<1>3. /\ Len(names) \in Nat /\ DOMAIN names = 1..Len(names) /\ pos \in Nat \ {0}
      /\ A!Name \in Names /\ A!Name = names[pos]
  BY <1>1, AttributeFacts
<1>4. /\ dst \in [Names -> Values \cup {Absent, Torn}]
      /\ buffer \in Values \cup {Absent, Torn} /\ buffer # Absent
  BY <1>1 DEF A!TypeOK
<1>5. /\ dst' \in [Names -> Values \cup {Absent, Torn}]
      /\ \A n \in Names : n # A!Name => dst'[n] = dst[n]
      /\ dst'[A!Name] = buffer \/ (dst'[A!Name] = dst[A!Name] /\ A!Ignored(A!Name))
  BY <1>2, <1>3, <1>4
<1>6. ASSUME NEW n \in Names
      PROVE  /\ dst[n] # Absent => dst'[n] # Absent
             /\ dst'[n] # Absent => Genuine(n, dst'[n])
  <2>1. Genuine(A!Name, buffer) /\ (dst[n] # Absent => Genuine(n, dst[n]))
    BY <1>1 DEF ValueInv
  <2> QED
    BY <1>4, <1>5, <2>1
<1>7. HistoryInv'
  BY <1>1, SourceStays
<1>8. A!TypeOK'
  <2>1. pos' \in 1..(Len(names) + 1)
    BY <1>1, <1>3
  <2> QED
    BY <1>1, <1>5, <2>1 DEF A!TypeOK, SourceSame
<1>9. ASSUME NEW n \in Names, sys.initial[n] # Absent, ~Lost(n)
      PROVE  \E k \in DOMAIN names : names[k] = n /\ (k < pos' => dst'[n] # Absent \/ A!Ignored(n))
  <2>1. PICK k \in DOMAIN names : names[k] = n /\ (k < pos => dst[n] # Absent \/ A!Ignored(n))
    BY <1>1, <1>9 DEF ListInv, InList
  <2>2. CASE k < pos
    BY <1>6, <2>1, <2>2
  <2>3. CASE k = pos
    BY <1>3, <1>4, <1>5, <2>1, <2>3
  <2>4. CASE pos < k
    <3>1. ~(k < pos')
      BY <1>1, <1>3, <2>4
    <3> QED
      BY <2>1, <3>1
  <2> QED
    BY <1>3, <2>2, <2>3, <2>4
<1>10. ListInv'
  <2>1. \A k \in DOMAIN names : \E v \in history[names[k]] : v # Absent
    BY DEF ListInv
  <2> QED
    BY <1>1, <1>9, <2>1 DEF ListInv, Lost, InList, SourceSame, A!Ignored
<1>11. ValueInv'
  BY <1>1, <1>6 DEF ValueInv, Genuine, SourceSame
<1> QED
  BY <1>1, <1>7, <1>8, <1>10, <1>11 DEF A!OkMeansCopied

\* Another process sets or removes an attribute.
LEMMA StepChange ==
  ASSUME AttributesInv, NEW n \in Names, NEW v \in Values \cup {Absent}, A!Change(n, v)
  PROVE  AttributesInv'
<1> USE DEF AttributesInv
<1>1. /\ apc \notin {"ok", "err"} /\ changes < sys.max_changes /\ changes' = changes + 1
      /\ attrs' = [attrs EXCEPT ![n] = v]
      /\ history' = [history EXCEPT ![n] = history[n] \cup {v}]
      /\ UNCHANGED <<sys, dst, apc, num_bytes, names, pos, buffer>>
  BY DEF A!Change, A!Done
<1>2. /\ attrs \in [Names -> Values \cup {Absent}]
      /\ history \in [Names -> SUBSET (Values \cup {Absent})]
      /\ changes \in Nat /\ sys.max_changes \in Nat
  BY AttributeFacts DEF A!TypeOK
<1>3. /\ attrs' \in [Names -> Values \cup {Absent}]
      /\ history' \in [Names -> SUBSET (Values \cup {Absent})]
      /\ \A m \in Names : history[m] \subseteq history'[m]
      /\ \A m \in Names : m # n => attrs'[m] = attrs[m]
      /\ attrs'[n] = v /\ v \in history'[n]
  BY <1>1, <1>2
<1>4. changes' \in 0..sys.max_changes /\ changes' # 0
  BY <1>1, <1>2
<1>5. A!TypeOK'
  BY <1>1, <1>3, <1>4 DEF A!TypeOK
<1>6. HistoryInv'
  BY <1>1, <1>3, <1>4 DEF HistoryInv
<1>7. ListInv'
  <2>1. ASSUME NEW k \in DOMAIN names
        PROVE  \E w \in history'[names[k]] : w # Absent
    <3>1. names[k] \in Names
      BY DEF A!TypeOK
    <3> QED
      BY <1>3, <3>1 DEF ListInv
  <2>2. \A m \in Names : ~Lost(m)' => ~Lost(m)
    BY <1>3 DEF Lost
  <2>3. ASSUME apc' = "list"
        PROVE  Cardinality(AlwaysThere') <= num_bytes'
    <3>1. AlwaysThere' \subseteq AlwaysThere
      BY <2>2 DEF AlwaysThere
    <3>2. PICK S : S = AlwaysThere'
      OBVIOUS
    <3>3. IsFiniteSet(AlwaysThere)
      BY AlwaysThereIsFinite
    <3>4. /\ Cardinality(S) <= Cardinality(AlwaysThere)
          /\ Cardinality(S) \in Nat /\ Cardinality(AlwaysThere) \in Nat
      BY <3>1, <3>2, <3>3, FS_Subset, FS_CardinalityType
    <3>5. Cardinality(AlwaysThere) <= num_bytes /\ num_bytes \in Nat
      BY <1>1, <2>3 DEF ListInv, A!TypeOK
    <3> QED
      BY <1>1, <3>2, <3>4, <3>5
  <2> QED
    BY <1>1, <2>1, <2>2, <2>3 DEF ListInv, InList, A!Ignored
<1>8. ASSUME NEW m \in Names, NEW b, Genuine(m, b)
      PROVE  Genuine(m, b)'
  BY <1>3, <1>8 DEF Genuine
<1>9. ValueInv'
  <2>1. ASSUME NEW m \in Names, dst'[m] # Absent
        PROVE  Genuine(m, dst[m])'
    <3>1. PICK b : b = dst[m]
      OBVIOUS
    <3>2. Genuine(m, b)
      BY <1>1, <2>1, <3>1 DEF ValueInv
    <3>3. Genuine(m, b)'
      BY <1>8, <3>2
    <3> QED
      BY <1>1, <3>1, <3>3
  <2>2. ASSUME apc' \in {"getValue", "set"}
        PROVE  A!Name \in Names /\ A!Name' = A!Name
    <3>1. pos <= Len(names)
      BY <1>1, <2>2 DEF A!TypeOK
    <3> QED
      BY <1>1, <3>1, AttributeFacts DEF A!Name
  <2>3. CASE apc' = "getValue"
    <3>1. PICK u \in history[A!Name] \ {Absent} : Length[u] = num_bytes
      BY <1>1, <2>3 DEF ValueInv
    <3>2. u \in history'[A!Name'] \ {Absent} /\ Length[u] = num_bytes'
      BY <1>1, <1>3, <2>2, <2>3, <3>1
    <3> QED
      BY <2>1, <2>3, <3>2 DEF ValueInv
  <2>4. CASE apc' = "set"
    <3>1. Genuine(A!Name, buffer)
      BY <1>1, <2>4 DEF ValueInv
    <3>2. PICK m \in Names : m = A!Name
      BY <2>2, <2>4
    <3>3. PICK b : b = buffer
      OBVIOUS
    <3>4. Genuine(m, b)'
      BY <1>8, <3>1, <3>2, <3>3
    <3>5. Genuine(A!Name, buffer)'
      BY <1>1, <2>2, <2>4, <3>2, <3>3, <3>4
    <3> QED
      BY <2>1, <2>4, <3>5 DEF ValueInv
  <2> QED
    BY <2>1, <2>3, <2>4 DEF ValueInv
<1> QED
  BY <1>1, <1>5, <1>6, <1>7, <1>9 DEF A!OkMeansCopied

\* acl_copy_fd() makes a step.
LEMMA StepAttributes ==
  ASSUME AttributesInv, A!Copy
  PROVE  AttributesInv'
<1>1. CASE A!ListSize
  BY <1>1, StepListSize
<1>2. CASE A!List
  BY <1>2, StepList
<1>3. CASE A!GetSize
  BY <1>3, StepGetSize
<1>4. CASE A!GetValue
  BY <1>4, StepGetValue
<1>5. CASE A!SetValue \/ A!SetIgnored
  BY <1>5, StepSet
<1>6. CASE A!ListFails \/ A!ListGrown \/ A!AllCopied \/ A!GetFails \/ A!GetGone \/ A!GetGrown
             \/ A!SetFails
  <2>1. AclReturns /\ A!OkMeansCopied' /\ (apc' = "err" => A!Reason')
    BY <1>6, ReturnsExplained
  <2> QED
    BY <2>1, StepAclReturns DEF AttributesInv
<1> QED
  BY <1>1, <1>2, <1>3, <1>4, <1>5, <1>6 DEF A!Copy

\* The contents make a step, acl_copy_fd() does not.
LEMMA AttributesStay ==
  ASSUME AttributesInv, UNCHANGED aclVars
  PROVE  AttributesInv'
<1> USE DEF AttributesInv, aclVars
<1>1. A!TypeOK'
  BY DEF A!TypeOK
<1>2. HistoryInv'
  BY DEF HistoryInv
<1>3. ListInv'
  BY DEF ListInv, InList, Lost, AlwaysThere, A!Ignored
<1>4. ValueInv'
  BY DEF ValueInv, Genuine, A!Name
<1>5. A!OkMeansCopied'
  BY DEF A!OkMeansCopied, A!Vanished, A!Ignored
<1>6. apc' = "err" => A!Reason'
  BY DEF A!Reason, A!Added, A!Grown
<1> QED
  BY <1>1, <1>2, <1>3, <1>4, <1>5, <1>6

----------------------------------------------------------------------------
(***************************************************************************)
(* Both functions.                                                         *)
(***************************************************************************)
CopyInv == OffsetsInv /\ FailsInv /\ AttributesInv /\ TogetherInv

\* Before the first call.
LEMMA StartCopy == CopyInit => CopyInv
<1> SUFFICES ASSUME CopyInit PROVE CopyInv
  OBVIOUS
<1>1. file \in Files /\ sys \in Systems /\ Start /\ A!Start
  <2>1. PICK in \in Inputs : file = in.file /\ sys = in.sys
    BY DEF CopyInit
  <2> QED
    BY <2>1, CopyAssumption DEF CopyInit
<1>2. OffsetsInv
  BY <1>1, StartContents DEF OffsetsInv, ContentsInv
<1>3. AttributesInv
  BY <1>1, StartAttributes
<1>4. pc = "prepare" /\ apc = "size"
  BY <1>1 DEF Start, A!Start
<1> QED
  BY <1>2, <1>3, <1>4 DEF CopyInv, FailsInv, TogetherInv

\* The contents make a step.
LEMMA StepTogetherContents ==
  ASSUME CopyInv, CopyContents
  PROVE  TogetherInv'
<1>1. apc' = apc
  BY DEF CopyContents, aclVars
<1>2. Step
  BY DEF CopyContents
<1> DEFINE Moves ==
      /\ file' = file /\ pc # "acl" /\ pc # "err" /\ pc' # "prepare"
      /\ pc' = "err" \/ (pc = "prepare" => pc' = IF file.regular THEN "acl" ELSE "seek")
<1>3. Moves
  <2>1. CASE PrepareFails \/ TruncateFails \/ SeekFails \/ CallFails \/ ReadFails
    <3>1. pc # "acl" /\ pc # "err" /\ pc' = "err" /\ file' = file
      BY <2>1 DEF PrepareFails, TruncateFails, SeekFails, CallFails, ReadFails, Fails, Looping,
         CopyingRange, Sending
    <3> QED
      BY <3>1
  <2>2. CASE Prepare
    BY <2>2, Zenon DEF Prepare
  <2>3. CASE Truncate \/ FirstData \/ FirstHole \/ Returns
    <3>1. pc \in {"trunc", "seek", "seekHole", "loop"} /\ pc' # "prepare" /\ file' = file
      BY <2>3 DEF Truncate, FirstData, FirstHole, Returns
    <3> QED
      BY <3>1
  <2>4. CASE FirstTurn \/ SeekData \/ SeekHole \/ NextPiece \/ EmptyPiece
    <3>1. pc \in {"loop", "extent", "chunk"} /\ pc' # "prepare" /\ file' = file
      BY <2>4 DEF FirstTurn, SeekData, SeekHole, NextPiece, EmptyPiece, Looping
    <3> QED
      BY <3>1
  <2>5. CASE CopyRange \/ CopyRangeUnusable \/ SendFile \/ SendFileUnusable \/ StartReading
    <3>1. pc = "chunk" /\ pc' # "prepare" /\ file' = file
      BY <2>5 DEF CopyRange, CopyRangeUnusable, SendFile, SendFileUnusable, StartReading,
         CopyingRange, Sending, Again
    <3> QED
      BY <3>1
  <2>6. CASE ReadAndWrite \/ ReadNothing \/ ReadDone
    <3>1. pc = "read" /\ pc' # "prepare" /\ file' = file
      BY <2>6 DEF ReadAndWrite, ReadNothing, ReadDone, Again
    <3> QED
      BY <3>1
  <2> QED
    BY <1>2, <2>1, <2>2, <2>3, <2>4, <2>5, <2>6 DEF Step
<1>4. pc \in {"prepare", "acl", "trunc", "seek", "seekHole", "loop", "extent", "chunk", "read",
              "ok", "err"}
  BY DEF CopyInv, OffsetsInv, BaseInv, TypeOK
<1> QED
  BY <1>1, <1>2, <1>3, <1>4 DEF CopyInv, TogetherInv

\* Every reachable state satisfies the invariant.
LEMMA CopyInvariant == CopySpec => []CopyInv
<1>1. CopyInit => CopyInv
  BY StartCopy
<1>2. CopyInv /\ [CopyNext]_copyVars => CopyInv'
  <2> SUFFICES ASSUME CopyInv, [CopyNext]_copyVars PROVE CopyInv'
    OBVIOUS
  <2> USE DEF CopyInv
  <2>7. BaseInv
    BY DEF OffsetsInv
  <2>1. CASE CopyContents
    <3>1. OffsetsInv'
      BY <2>1, StepContents DEF CopyContents, ContentsSteps
    <3>2. apc' = apc
      BY <2>1 DEF CopyContents, aclVars
    <3>3. FailsInv'
      BY <2>1, <3>2, <2>7, StepFailsInv DEF CopyContents
    <3>4. AttributesInv'
      BY <2>1, AttributesStay DEF CopyContents
    <3> QED
      BY <2>1, <3>1, <3>3, <3>4, StepTogetherContents
  <2>2. CASE CopyAttributes
    <3>1. UNCHANGED vars /\ pc = "acl" /\ A!Copy
      BY <2>2 DEF CopyAttributes
    <3>2. pc' = "acl" /\ apc # "err"
      <4>1. pc' = "acl"
        BY <3>1 DEF vars
      <4>2. apc # "err"
        BY <3>1 DEF A!Copy, A!ListFails, A!ListSize, A!ListGrown, A!List, A!AllCopied, A!GetFails,
           A!GetGone, A!GetSize, A!GetGrown, A!GetValue, A!SetValue, A!SetIgnored, A!SetFails,
           A!Looping, A!Getting
      <4> QED
        BY <4>1, <4>2
    <3>3. OffsetsInv'
      BY <3>1, StepContents
    <3>4. FailsInv'
      BY <3>1, <3>2, <2>7, StepFailsInv
    <3>5. AttributesInv'
      BY <3>1, StepAttributes
    <3>6. TogetherInv'
      BY <3>2 DEF TogetherInv
    <3> QED
      BY <3>3, <3>4, <3>5, <3>6
  <2>3. CASE AttributesDone
    <3>1. Passes /\ apc' = apc /\ apc \in {"ok", "err"} /\ file' = file
      BY <2>3 DEF AttributesDone, Passes, A!Done, aclVars
    <3>2. pc' = IF apc = "ok" THEN "trunc" ELSE "err"
      BY <2>3 DEF AttributesDone
    <3>3. OffsetsInv'
      BY <3>1, StepContents DEF ContentsSteps
    <3>4. FailsInv'
      BY <3>1, <3>2, <2>7, StepFailsInv
    <3>5. AttributesInv'
      BY <2>3, AttributesStay DEF AttributesDone, aclVars
    <3>6. TogetherInv'
      BY <3>1, <3>2 DEF TogetherInv
    <3> QED
      BY <3>3, <3>4, <3>5, <3>6
  <2>4. CASE UNCHANGED aclVars /\ \E n \in 0..MaxLen : SourceShrinks(n)
    <3>1. OffsetsInv'
      BY <2>4, StepContents DEF ContentsSteps
    <3>2. apc' = apc /\ file' = file /\ pc' = pc
      BY <2>4 DEF aclVars, SourceShrinks
    <3>3. FailsInv'
      BY <2>4, <3>2, <2>7, StepFailsInv
    <3>4. AttributesInv'
      BY <2>4, AttributesStay
    <3>5. TogetherInv'
      BY <3>2 DEF TogetherInv
    <3> QED
      BY <3>1, <3>3, <3>4, <3>5
  <2>5. CASE /\ pc = "acl" /\ UNCHANGED vars
             /\ \E n \in Names : \E v \in Values \cup {Absent} : A!Change(n, v)
    <3>1. PICK n \in Names : \E v \in Values \cup {Absent} : A!Change(n, v)
      BY <2>5
    <3>2. PICK v \in Values \cup {Absent} : A!Change(n, v)
      BY <3>1
    <3>3. AttributesInv'
      BY <3>2, StepChange
    <3>4. apc' = apc /\ file' = file /\ pc' = pc
      BY <2>5, <3>2 DEF A!Change, vars
    <3>5. OffsetsInv'
      BY <2>5, StepContents
    <3>6. FailsInv'
      BY <2>5, <3>4, <2>7, StepFailsInv
    <3>7. TogetherInv'
      BY <3>4 DEF TogetherInv
    <3> QED
      BY <3>3, <3>5, <3>6, <3>7
  <2>6. CASE UNCHANGED copyVars
    <3>1. UNCHANGED vars /\ UNCHANGED aclVars
      BY <2>6 DEF copyVars
    <3>2. apc' = apc /\ file' = file /\ pc' = pc
      BY <3>1 DEF vars, aclVars
    <3>3. OffsetsInv'
      BY <3>1, StepContents
    <3>4. FailsInv'
      BY <3>1, <3>2, <2>7, StepFailsInv
    <3>5. AttributesInv'
      BY <3>1, AttributesStay
    <3>6. TogetherInv'
      BY <3>2 DEF TogetherInv
    <3> QED
      BY <3>3, <3>4, <3>5, <3>6
  <2> QED
    BY <2>1, <2>2, <2>3, <2>4, <2>5, <2>6 DEF CopyNext, Program, OtherProcess
<1> QED
  BY <1>1, <1>2, PTL DEF CopySpec

(***************************************************************************)
(* The locals of copy() and of acl_copy_fd() keep their types: the loops   *)
(* stay inside the file and inside the list of attributes.                 *)
(***************************************************************************)
THEOREM CopyTypes == CopySpec => []CopyTypeOK
<1>1. CopyInv => CopyTypeOK
  BY DEF CopyInv, OffsetsInv, BaseInv, AttributesInv, CopyTypeOK
<1> QED
  BY <1>1, CopyInvariant, PTL

(***************************************************************************)
(* For a file that is what metadata() says, of any length and with any     *)
(* layout of holes, and whichever calls copy() falls back to, everything   *)
(* before srcpos has been copied at the head of the loop, and all of the   *)
(* file when it returns Ok.  It may fall back at every turn if extents are *)
(* sought; if not, only before a call has copied anything.                 *)
(***************************************************************************)
THEOREM ContentsArrive == CopySpec => []CopiedUpToSrcpos
<1>1. CopyInv => CopiedUpToSrcpos
  BY DEF CopyInv, OffsetsInv, Trusted, PiecesInv, CopiedInv, CopiedTo, CopiedUpToSrcpos
<1> QED
  BY <1>1, CopyInvariant, PTL

(***************************************************************************)
(* copy() never writes a byte where it does not belong, whenever the       *)
(* source is truncated and whichever of the two descriptors' offsets and   *)
(* explicit offsets the calls take, under the same condition.              *)
(***************************************************************************)
THEOREM BytesAreInPlace == CopySpec => []NothingMisplaced
<1>1. CopyInv => NothingMisplaced
  BY DEF CopyInv, OffsetsInv, Trusted, PiecesInv, InPlace, NothingMisplaced
<1> QED
  BY <1>1, CopyInvariant, PTL

(***************************************************************************)
(* copy() fails only for a call it has no fallback for, for a hole at the  *)
(* end, for a file that shrank, or because acl_copy_fd() failed; that one  *)
(* fails only for a call, or for attributes changed by others.             *)
(***************************************************************************)
THEOREM CopyErrorsAreExplained == CopySpec => []ErrorsAreExplained
<1>1. CopyInv => ErrorsAreExplained
  <2> SUFFICES ASSUME CopyInv, pc = "err"
               PROVE  IF apc = "err" THEN A!Reason
                      ELSE Environment \/ HoleAtEnd \/ avail < file.len
    BY DEF ErrorsAreExplained
  <2>1. apc = "err" => A!Reason
    BY DEF CopyInv, AttributesInv
  <2>2. apc = "err" \/ Environment \/ HoleAtEnd \/ avail < file.len
    BY DEF CopyInv, FailsInv
  <2> QED
    BY <2>1, <2>2
<1> QED
  BY <1>1, CopyInvariant, PTL

(***************************************************************************)
(* An attribute at the destination has a value that the source's had,      *)
(* unless that became shorter while acl_copy_fd() copied it, for any       *)
(* number of attributes, values and changes by other processes.            *)
(***************************************************************************)
THEOREM AttributesAreGenuine == CopySpec => []ValuesAreGenuine
<1>1. CopyInv => ValuesAreGenuine
  BY DEF CopyInv, AttributesInv, ValueInv, Genuine, ValuesAreGenuine, A!ValuesAreGenuine
<1> QED
  BY <1>1, CopyInvariant, PTL

(***************************************************************************)
(* When copy() of a regular file returns Ok, acl_copy_fd() has, and then   *)
(* an attribute the source had from the start is missing only for one of   *)
(* the reasons acl_copy_fd() passes over.                                  *)
(***************************************************************************)
THEOREM OkMeansAttributesArrive == CopySpec => []AttributesArrive
<1>1. CopyInv => AttributesArrive
  BY DEF CopyInv, AttributesInv, TogetherInv, AttributesArrive
<1> QED
  BY <1>1, CopyInvariant, PTL
=============================================================================
