------------------------------ MODULE CopyFile -----------------------------
(***************************************************************************)
(* copy() of src/src/file/mod.rs: the contents of one file.                *)
(*                                                                         *)
(* The loop copies one piece of the file per turn, with copy_file_range,   *)
(* sendfile or read and write, whichever works here.  If the destination   *)
(* can be sparse, a piece is (part of) a data extent found with lseek.     *)
(* The system calls take the offsets from three places: from next_beg, and *)
(* from the offsets of the two file descriptors, which some of the calls   *)
(* move and others leave alone.                                            *)
(*                                                                         *)
(* A byte of a data extent is its offset plus one, a byte of a hole is 0.  *)
(* The file and what the kernel may do with it are the record `file`: every *)
(* call picks its result anew, so one that worked may not work next time.  *)
(* At pc = "acl" the extended attributes are copied, by AclCopy; Copy puts  *)
(* the two together.                                                       *)
(***************************************************************************)
EXTENDS Integers, FiniteSets

CONSTANTS
  MaxLen,    \* bound on the length of a file
  BufSize,   \* DEFAULT_BUF_SIZE
  Files      \* the files to consider

(***************************************************************************)
(* What happens to a system call here: it works, it is missing or not      *)
(* allowed at all (ENOSYS, EPERM), it cannot be used for these two files   *)
(* (EXDEV, EINVAL), or it fails otherwise.                                 *)
(***************************************************************************)
CallResult == {"ok", "never", "notHere", "fails"}

\* The results a call may have, one or several.
Some(S) == (SUBSET S) \ {{}}

File ==
  [ len     : 0..MaxLen,                 \* metadata().len()
    data    : SUBSET (0..(MaxLen - 1)),  \* offsets in data extents
    avail   : 0..MaxLen,                 \* bytes that can be read
    shrinks : BOOLEAN,                   \* another process may truncate it
    prepare : BOOLEAN,                   \* open, metadata and chmod work
    regular : BOOLEAN,                   \* the destination is a regular file
    chown   : {"ok", "eperm", "fails"},  \* fchown
    ignore_eperm : BOOLEAN,              \* geteuid() is not 0
    trunc   : {"ok", "einval", "fails"}, \* ftruncate64
    seek    : Some(BOOLEAN),             \* whether SEEK_DATA and SEEK_HOLE work
    cfr     : Some(CallResult),          \* copy_file_range
    send    : Some(CallResult),          \* sendfile
    rw      : Some(BOOLEAN) ]            \* whether read and write work

ASSUME CopyFileAssumption ==
  /\ MaxLen \in Nat
  /\ BufSize \in Nat \ {0}
  /\ Files \subseteq File
  /\ \A f \in Files : f.avail <= f.len /\ f.data \subseteq 0..(f.len - 1)

VARIABLES
  file,       \* the file (constant)
  pc,         \* "prepare", "acl", "trunc", "seek", "seekHole", "loop", "extent", "chunk", "read",
              \* "ok" or "err"
  srcpos,
  next_beg,
  next_end,
  next_len,
  can_handle_sparse,
  use_copy_file_range,
  use_sendfile,
  HAS_COPY_FILE_RANGE,
  HAS_SENDFILE,
  written,    \* bytes written in the loop over read and write
  in_off,     \* offset of fd_in
  out_off,    \* offset of fd_out
  out,        \* contents of the destination
  avail       \* bytes of the source that can be read

loopVars == <<srcpos, next_beg, next_end, next_len, can_handle_sparse>>
callVars == <<use_copy_file_range, use_sendfile, HAS_COPY_FILE_RANGE, HAS_SENDFILE>>
fdVars   == <<written, in_off, out_off, out>>
vars     == <<file, avail, pc, loopVars, callVars, fdVars>>

bytes_to_copy == file.len

Content(i) == IF i \in file.data THEN i + 1 ELSE 0

Offsets == 0..(MaxLen - 1)

\* out with n bytes, from offset s of the source, written at offset o.
Written(o, s, n) ==
  [i \in Offsets |-> IF i \in o..(o + n - 1) THEN Content(s + i - o) ELSE out[i]]

\* lseek(SEEK_DATA) and lseek(SEEK_HOLE); there is a hole at the end.  A file
\* with fewer bytes than its size (as in sysfs) is all data to lseek.
Size == IF file.shrinks THEN avail ELSE file.len

DataFrom(p) == {i \in file.data : p <= i /\ i < Size}

NextData(p) == CHOOSE i \in DataFrom(p) : \A j \in DataFrom(p) : i <= j

NextHole(p) ==
  CHOOSE i \in p..Size : (i = Size \/ i \notin file.data) /\ \A j \in p..(i - 1) : j \in file.data

\* What a call for `want` bytes at offset p may return: at least one byte, if
\* there is any.
Counts(p, want) ==
  IF p >= avail \/ want <= 0 THEN {0}
  ELSE 1..(IF want <= avail - p THEN want ELSE avail - p)

\* Nothing is opened yet.
Start ==
  /\ pc = "prepare"
  /\ srcpos = 0 /\ next_beg = 0 /\ next_end = 0 /\ next_len = 0
  /\ can_handle_sparse = TRUE
  /\ HAS_COPY_FILE_RANGE \in BOOLEAN   \* as earlier calls left them
  /\ HAS_SENDFILE \in BOOLEAN
  /\ use_copy_file_range = HAS_COPY_FILE_RANGE
  /\ use_sendfile = HAS_SENDFILE
  /\ written = 0 /\ in_off = 0 /\ out_off = 0
  /\ out = [i \in Offsets |-> 0]
  /\ avail = file.avail

\* Another process truncates the source.
SourceShrinks(n) ==
  /\ file.shrinks
  /\ n < avail
  /\ avail' = n
  /\ UNCHANGED <<file, pc, loopVars, callVars, fdVars>>

----------------------------------------------------------------------------
(***************************************************************************)
(* Before the loop.                                                        *)
(***************************************************************************)
Fails ==
  /\ pc' = "err"
  /\ UNCHANGED <<file, avail, loopVars, callVars, fdVars>>

\* cvt_ignore_perm()
CvtIgnorePerm(result) == result = "ok" \/ (result = "eperm" /\ file.ignore_eperm)

Prepared == file.prepare /\ (file.regular => CvtIgnorePerm(file.chown))

PrepareFails == pc = "prepare" /\ ~Prepared /\ Fails

\* Owner, permissions and attributes are set for regular files only.
Prepare ==
  /\ pc = "prepare" /\ Prepared
  /\ pc' = IF file.regular THEN "acl" ELSE "seek"
  /\ can_handle_sparse' = file.regular
  /\ UNCHANGED <<file, avail, srcpos, next_beg, next_end, next_len, callVars, fdVars>>

TruncateFails == pc = "trunc" /\ file.trunc = "fails" /\ Fails

\* EINVAL: the destination cannot be extended.  (cvt_r() tries again after EINTR.)
Truncate ==
  /\ pc = "trunc" /\ file.trunc # "fails"
  /\ can_handle_sparse' = (file.trunc = "ok")
  /\ pc' = "seek"
  /\ UNCHANGED <<file, avail, srcpos, next_beg, next_end, next_len, callVars, fdVars>>

\* The first extent, or the whole file if there is none or lseek fails.
FirstData ==
  /\ pc = "seek"
  /\ \E works \in file.seek :
       IF can_handle_sparse /\ works /\ DataFrom(0) # {}
       THEN /\ next_beg' = NextData(0)
            /\ in_off' = NextData(0)
            /\ UNCHANGED can_handle_sparse
       ELSE /\ next_beg' = 0
            /\ can_handle_sparse' = FALSE
            /\ UNCHANGED in_off
  /\ pc' = "seekHole"
  /\ UNCHANGED <<file, avail, srcpos, next_end, next_len, callVars, written, out_off, out>>

FirstHole ==
  /\ pc = "seekHole"
  /\ \E works \in file.seek :
       IF can_handle_sparse /\ works /\ next_beg < Size
       THEN /\ next_end' = NextHole(next_beg)
            /\ in_off' = next_end'
            /\ UNCHANGED can_handle_sparse
       ELSE /\ next_end' = bytes_to_copy
            /\ can_handle_sparse' = FALSE
            /\ UNCHANGED in_off
  /\ next_len' = next_end' - next_beg
  /\ pc' = "loop"
  /\ UNCHANGED <<file, avail, srcpos, next_beg, callVars, written, out_off, out>>

----------------------------------------------------------------------------
(***************************************************************************)
(* The head of the loop.                                                   *)
(***************************************************************************)
\* Mutant of Looping: `while srcpos <= bytes_to_copy`.
Looping_OneMore == pc = "loop" /\ srcpos <= bytes_to_copy

Looping == pc = "loop" /\ srcpos < bytes_to_copy

Returns ==
  /\ pc = "loop" /\ srcpos >= bytes_to_copy
  /\ pc' = "ok"
  /\ UNCHANGED <<file, avail, loopVars, callVars, fdVars>>

FirstTurn ==
  /\ Looping /\ srcpos = 0
  /\ pc' = "chunk"
  /\ UNCHANGED <<file, avail, loopVars, callVars, fdVars>>

\* The next extent.  Between the two calls the source may shrink.
SeekData ==
  /\ Looping /\ srcpos # 0 /\ can_handle_sparse
  /\ TRUE \in file.seek /\ DataFrom(srcpos) # {}
  /\ next_beg' = NextData(srcpos)
  /\ in_off' = next_beg'
  /\ pc' = "extent"
  /\ UNCHANGED <<file, avail, srcpos, next_end, next_len, can_handle_sparse, callVars,
                 written, out_off, out>>

SeekHole ==
  /\ pc = "extent"
  /\ TRUE \in file.seek /\ next_beg < Size
  /\ next_end' = NextHole(next_beg)
  /\ next_len' = next_end' - next_beg
  /\ in_off' = next_end'
  /\ pc' = "chunk"
  /\ UNCHANGED <<file, avail, srcpos, next_beg, can_handle_sparse, callVars, written, out_off, out>>

\* There is a hole from srcpos to the end: SEEK_DATA returns ENXIO.
NoMoreData == DataFrom(srcpos) = {}

SeekFails ==
  /\ \/ Looping /\ srcpos # 0 /\ can_handle_sparse /\ (FALSE \in file.seek \/ NoMoreData)
     \/ pc = "extent" /\ (FALSE \in file.seek \/ next_beg >= Size)
  /\ Fails

\* next_len is left as it is.
NextPiece ==
  /\ Looping /\ srcpos # 0 /\ ~can_handle_sparse
  /\ next_beg' = srcpos
  /\ next_end' = bytes_to_copy - srcpos
  /\ pc' = "chunk"
  /\ UNCHANGED <<file, avail, srcpos, next_len, can_handle_sparse, callVars, fdVars>>

----------------------------------------------------------------------------
(***************************************************************************)
(* One turn.                                                               *)
(***************************************************************************)
\* `if next_len <= 0`: reached when the loop over read and write has left next_len
\* at 0, and not all is copied yet.
EmptyPiece ==
  /\ pc = "chunk" /\ next_len <= 0
  /\ srcpos' = next_end
  /\ pc' = "loop"
  /\ UNCHANGED <<file, avail, next_beg, next_end, next_len, can_handle_sparse, callVars, fdVars>>

Again(n) == pc' = "loop" /\ srcpos' = srcpos + n

CopyingRange == pc = "chunk" /\ next_len > 0 /\ use_copy_file_range

\* Mutant of RangeTarget: the destination's own offset is used.
RangeTarget_Offset == out_off

\* Where copy_file_range() writes to.
RangeTarget == next_beg

CopyRange ==
  /\ CopyingRange /\ "ok" \in file.cfr
  /\ \E n \in Counts(next_beg, next_len) :
       /\ out' = Written(RangeTarget, next_beg, n)
       /\ next_beg' = next_beg + n
       /\ Again(n)
  /\ UNCHANGED <<file, avail, next_end, next_len, can_handle_sparse, callVars,
                 written, in_off, out_off>>

\* Mutant of UseRange: the fallback is not chosen.
UseRange_Again == TRUE

\* use_copy_file_range after an error with a fallback.
UseRange == FALSE

\* The errors after which another call is tried.
Unusable == {"never", "notHere"}

\* At any turn, also when earlier ones have copied a part.
CopyRangeUnusable ==
  /\ CopyingRange
  /\ \E r \in file.cfr \cap Unusable :
       HAS_COPY_FILE_RANGE' = (HAS_COPY_FILE_RANGE /\ r # "never")
  /\ use_copy_file_range' = UseRange
  /\ pc' = "loop"
  /\ UNCHANGED <<file, avail, loopVars, use_sendfile, HAS_SENDFILE, fdVars>>

Sending == pc = "chunk" /\ next_len > 0 /\ ~use_copy_file_range /\ use_sendfile

\* Mutant of SoughtOut: fd_out is not moved to the extent.
SoughtOut_Not == out_off

\* lseek(fd_out, next_beg), where the code does it.
SoughtOut == IF can_handle_sparse /\ next_beg # 0 THEN next_beg ELSE out_off

SendFile ==
  /\ Sending /\ "ok" \in file.send
  /\ \E n \in Counts(next_beg, next_len) :
       /\ out' = Written(SoughtOut, next_beg, n)
       /\ out_off' = SoughtOut + n
       /\ next_beg' = next_beg + n
       /\ Again(n)
  /\ UNCHANGED <<file, avail, next_end, next_len, can_handle_sparse, callVars, written, in_off>>

SendFileUnusable ==
  /\ Sending
  /\ \E r \in file.send \cap Unusable : HAS_SENDFILE' = (HAS_SENDFILE /\ r # "never")
  /\ use_sendfile' = FALSE
  /\ out_off' = SoughtOut
  /\ pc' = "loop"
  /\ UNCHANGED <<file, avail, loopVars, use_copy_file_range, HAS_COPY_FILE_RANGE,
                 written, in_off, out>>

\* Mutant of NoFallback: none for EXDEV.
NoFallback_OtherDevice(result) == result \in {"fails", "notHere"}

NoFallback(result) == result = "fails"

CallFails ==
  /\ \/ CopyingRange /\ \E r \in file.cfr : NoFallback(r)
     \/ Sending /\ \E r \in file.send : NoFallback(r)
  /\ Fails

----------------------------------------------------------------------------
(***************************************************************************)
(* read() and write_all() in pieces of at most BufSize bytes.              *)
(***************************************************************************)
StartReading ==
  /\ pc = "chunk" /\ next_len > 0 /\ ~use_copy_file_range /\ ~use_sendfile
  /\ in_off' = IF can_handle_sparse THEN next_beg ELSE in_off
  /\ out_off' = SoughtOut
  /\ written' = 0
  /\ pc' = "read"
  /\ UNCHANGED <<file, avail, loopVars, callVars, out>>

ReadAndWrite ==
  /\ pc = "read" /\ next_len > 0 /\ TRUE \in file.rw
  /\ \E n \in Counts(in_off, IF next_len <= BufSize THEN next_len ELSE BufSize) \ {0} :
       /\ out' = Written(out_off, in_off, n)
       /\ in_off' = in_off + n
       /\ out_off' = out_off + n
       /\ written' = written + n
       /\ next_len' = next_len - n
  /\ UNCHANGED <<file, avail, pc, srcpos, next_beg, next_end, can_handle_sparse, callVars>>

ReadFails == pc = "read" /\ next_len > 0 /\ FALSE \in file.rw /\ Fails

\* Ok(0): `written` is added here and after the loop.
ReadNothing ==
  /\ pc = "read" /\ next_len > 0 /\ TRUE \in file.rw
  /\ in_off >= avail
  /\ Again(written + written)
  /\ UNCHANGED <<file, avail, next_beg, next_end, next_len, can_handle_sparse, callVars, fdVars>>

ReadDone ==
  /\ pc = "read" /\ next_len <= 0
  /\ Again(written)
  /\ UNCHANGED <<file, avail, next_beg, next_end, next_len, can_handle_sparse, callVars, fdVars>>

----------------------------------------------------------------------------
\* The program.
Step ==
  \/ PrepareFails \/ Prepare \/ TruncateFails \/ Truncate \/ FirstData \/ FirstHole
  \/ Returns \/ FirstTurn \/ SeekData \/ SeekHole \/ SeekFails \/ NextPiece \/ EmptyPiece
  \/ CopyRange \/ CopyRangeUnusable \/ SendFile \/ SendFileUnusable \/ CallFails
  \/ StartReading \/ ReadAndWrite \/ ReadFails \/ ReadNothing \/ ReadDone

----------------------------------------------------------------------------
\* The locals and statics of copy(); a turn is made only while something is left to copy.
TypeOK ==
  /\ pc \in {"prepare", "acl", "trunc", "seek", "seekHole", "loop", "extent", "chunk", "read",
             "ok", "err"}
  /\ srcpos \in Nat /\ next_beg \in Nat /\ next_end \in Nat /\ next_len \in Int
  /\ can_handle_sparse \in BOOLEAN
  /\ use_copy_file_range \in BOOLEAN /\ use_sendfile \in BOOLEAN
  /\ HAS_COPY_FILE_RANGE \in BOOLEAN /\ HAS_SENDFILE \in BOOLEAN
  /\ written \in Nat /\ in_off \in Nat /\ out_off \in Nat
  /\ out \in [Offsets -> 0..MaxLen]
  /\ avail \in 0..MaxLen
  /\ pc \in {"extent", "chunk", "read"} => srcpos < file.len

\* The file is what metadata() says, and stays so.
Readable == file.avail = file.len /\ ~file.shrinks

\* lseek works for this file or it does not.
SteadySeek == file.seek # BOOLEAN

(***************************************************************************)
(* A call that copied something is not given up later for another one.     *)
(* Without this a destination that cannot be sparse gets bytes where they  *)
(* do not belong: copy_file_range() leaves the offset of fd_out at 0, and  *)
(* there the call that is tried next goes on; sendfile() leaves that of    *)
(* fd_in at 0, and read() starts again; and when the first SEEK_HOLE fails *)
(* after SEEK_DATA has moved fd_in, the hole is left out.                  *)
(***************************************************************************)
Steady ==
  /\ SteadySeek
  /\ "ok" \in file.cfr => file.cfr \cap Unusable = {}
  /\ "ok" \in file.send => file.send \cap Unusable = {}

(***************************************************************************)
(* At the head of the loop everything before srcpos has been copied to     *)
(* where it belongs, whichever calls were used: srcpos counts bytes that   *)
(* were copied, and after a hole it falls behind next_beg, but it never    *)
(* gets ahead of the data.  So Ok means that the destination has the       *)
(* contents of the source, and the number returned is its length, as       *)
(* test_cp (mod.rs:538) asserts.  If the destination can be sparse, a call *)
(* may be given up in the middle of an extent.                             *)
(***************************************************************************)
CopiedUpToSrcpos ==
  pc \in {"loop", "ok"} /\ Readable /\ (can_handle_sparse \/ Steady) =>
    /\ srcpos <= file.len
    /\ \A i \in 0..(srcpos - 1) : out[i] = Content(i)
    /\ pc = "ok" => srcpos = file.len

(***************************************************************************)
(* No byte that is not the source's is ever written, not even before an    *)
(* error or when the source is truncated in the middle of the copy: the    *)
(* offsets of the two descriptors and next_beg never drift apart, if the   *)
(* destination can be sparse also when a call is given up in the middle of *)
(* an extent.                                                              *)
(***************************************************************************)
NothingMisplaced ==
  can_handle_sparse \/ Steady => \A i \in Offsets : out[i] \in {0, Content(i)}

HoleAtEnd == file.data # {} /\ file.len > 0 /\ (file.len - 1) \notin file.data

\* Some call fails, other than with the errors that copy() is to pass over.
Environment ==
  \/ ~file.prepare
  \/ file.regular /\ file.chown = "fails"
  \/ file.regular /\ file.chown = "eperm" /\ ~file.ignore_eperm
  \/ file.trunc = "fails"
  \/ ~SteadySeek
  \/ "fails" \in file.cfr \/ "fails" \in file.send
  \/ FALSE \in file.rw
=============================================================================
