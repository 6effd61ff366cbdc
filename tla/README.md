# TLA+ models of dracut-install

`dracut-install` populates the root directory of an initramfs: it copies
programs with the shared libraries they need, or kernel modules with the
modules they depend on, into a directory `DESTROOTDIR`.  This directory holds
TLA+ models of its parts, TLC configurations that check them on small
instances, and TLAPS proofs of their safety properties for every value of the
constants.

All paths below are relative to `src/` of the crate; `file/mod.rs:151` means
line 151 of `src/file/mod.rs`.

## 1. Inventory

| Part | State it keeps | Operations | Interacts with |
|---|---|---|---|
| command line, `main`, `do_main` (`main.rs`) | `RunContext` | read options and environment, set up the log, dispatch | everything |
| library resolver, `ldd()` (`lib.rs:90`), `Ldd::recurse` (`elfkit/ldd.rs:67`) | the queue of files, the set `visited` (shared by the rayon workers), per worker the cursors of its search | take an item, read its ELF file, search each `DT_NEEDED` name along RPATH/RUNPATH, ld.so.cache, default directories, enqueue | ELF reader, ld.so.cache, canonicalisation; its result goes to `install_files` |
| ELF reader (`elfkit/*.rs`) | the section table, sections taken out by active `load()` calls | `from_reader`, recursive `load` | called by `recurse` |
| ld.so.cache reader (`elfkit/ld_so_cache.rs`) | the table from names to paths | `read_ld_so_cache` | read once by `ldd()` |
| module installer (`lib.rs:170-389`) | `visited`, the recursion, the errors | resolve arguments, `install_module`, copy | kmod, filter, `install_files` |
| module filter (`lib.rs:276`) | none | `filter_module_name_path_symbols` | called by `install_module` |
| modalias list (`modules/mod.rs`) | the set of names | `modalias_list` | kmod, `/sys/devices` |
| tree cloning, `clone_path` (`file/mod.rs:133`), `install_files` (`lib.rs:158`) | the tree below `DESTROOTDIR`, permissions, the recursion | clone parent, follow link, mkdir, symlink, copy | `convert_abs_rel`, `copy` |
| files with their libraries, `install_files_ldd` (`lib.rs:145`) | none but `DESTROOTDIR`, which outlives the call | `ldd()`, then `install_files()` for its list | called again and again by dracut, for the same directory |
| file copy, `copy` (`file/mod.rs:228`) | positions, which system calls are usable (process-wide) | copy_file_range, sendfile, read/write over data extents | attribute copy |
| attribute copy, `acl_copy_fd` (`acl/mod.rs`) | the list of names, one buffer | flistxattr, fgetxattr, fsetxattr | called by `copy` |
| relative links (`file/mod.rs:93`) | none | `convert_abs_rel`, `ln_r` | called by `clone_path` |
| kmod bindings (`kmod/src`) | libkmod objects | lookups, iterators | external library |

What makes each part correct:

* resolver: no file twice, none lost, exactly what the search came across, all
  that is needed, and an end;
* readers: what is read is what the file says; a refusal or a panic has its
  cause in the file;
* module installer: the copied set is closed under dependencies, holds the
  accepted arguments and nothing beyond them; exit status 0 means all that the
  requests stand for;
* modalias list: complete for the devices that are there throughout;
* cloning: links after what they lead to, Ok means installed, permissions as
  before;
* both together, call after call: after Ok the arguments are there with all
  their libraries, and what was installed stays whole;
* copying: Ok means all bytes and attributes, and never a byte in a wrong place.

What is hard to test, and what the properties are aimed at:

* **Concurrency.** Rayon workers share `visited` and the queue.  A candidate is
  inserted into `visited` before anybody knows whether it exists; the existence
  test and the enqueue happen without the lock.
* **A world that changes between two calls.** Attributes change between the
  call that asks for a size and the one that reads; a source shrinks while it is
  copied; a device vanishes between the directory walk and the open, others
  appear; a system call that worked fails the next time.
* **Errors that are dropped.** Both walks over directories pass over what they
  cannot read, so that an exit status of 0 does not cover it.
* **Stale tests.** `clone_path` tests for its target before a recursion that can
  create it.
* **Partial failure.** Errors leave `visited` half explored, permissions
  relaxed, a queue with entries of a file whose search was abandoned.
* **Crash and restart.** The only record of what was done is which files exist.
  A call that fails or is killed leaves files without their libraries, or half
  of a file, and the next call takes them for installed.
* **Recursion over cyclic data.** Library dependencies, soft dependencies,
  section links, symbolic links.
* **Offsets.** Four counters that advance together in `copy`; string offsets of
  the ld.so.cache in two byte orders.

The list with lines is `hazards` in `PROJECT.json`.

## 2. Modules

| Module | Models | Composed in |
|---|---|---|
| `Ldd` | `ldd()`, `Ldd::recurse()` | `InstallFilesLdd` |
| `Resolver` | what `ldd()` promises, without workers, queue and lock | refined by `Ldd` |
| `ReplaceSlice` | `replace_slice()` | |
| `ElfLoad` | `Elf::from_reader`, `Elf::load`, the section loop of `recurse()` | `Readers` |
| `LdSoCache` | `read_ld_so_cache()` | `Readers` |
| `Readers` | both parsers, in the order `ldd()` runs them | |
| `ModFilter` | `filter_module_name_path_symbols()` | `InstallModules` |
| `InstallModules` | `install_modules()`, `install_module()` | `Main` |
| `ModuleSet` | what `install_modules()` promises, without the recursion | refined by `InstallModules` |
| `Modalias` | `modalias_list()` | `Main` |
| `Main` | `main()`, `do_main()` | |
| `CopyFile` | the contents in `copy()` | `Copy` |
| `AclCopy` | `acl_copy_fd()` | `Copy` |
| `Copy` | `copy()` as a whole | |
| `RelPath` | `convert_abs_rel()` | `ClonePath` |
| `ClonePath` | `install_files()`, `clone_path()`, `ln_r()` | `InstallFilesLdd` |
| `InstallFilesLdd` | `install_files_ldd()`, several calls of it | |

| Proofs | About | Extends |
|---|---|---|
| `DataLemmas` | numbers, sequences, concatenation | |
| `LddProofs` | `Ldd`, that it implements `Resolver`, and `ReplaceSlice` | `DataLemmas` |
| `ReaderProofs` | `LdSoCache`, `ElfLoad`, `Readers` | `DataLemmas` |
| `ModuleProofs` | `ModFilter`, `InstallModules`, and that it implements `ModuleSet` | `DataLemmas` |
| `MainProofs` | `Modalias`, `Main` | `ModuleProofs` |
| `CopyProofs` | `CopyFile`, `AclCopy`, `Copy` | `DataLemmas` |
| `ClonePathProofs` | `RelPath`, `ClonePath` | `DataLemmas` |
| `InstallProofs` | `InstallFilesLdd` | `LddProofs`, and an instance of `ClonePathProofs` |

`MCx.tla` (`MCInstall` for `InstallFilesLdd`) gives the constants of `x` values
for TLC, and `MCx.cfg`,
`MCx_what.cfg` are its runs.  The environment (file system, file, kernel tree,
device tree) is one record that the initial state chooses from a constant set
(`Worlds`, `Trees`, `Hosts`, `Inputs` ...) and that stays as it is, so that one
run covers many environments; what other processes change is an action of its
own.  Definitions named `X_Something` are mutations of `X`, kept to show that
each property can fail; nothing else uses them.

**`Ldd`**.  `log` is the sequence of all items ever enqueued and `claimed` the
ones taken, so the queue is what is in `log` and not claimed (dynqueue promises
no order, so any of them may be taken).  A worker goes through
`idle -> open -> probe <-> fresh -> idle`.  `InsertNew` is the insert under the
lock; between it and `Enqueue` or `NotHere` (the existence tests) other workers
run: the worker is in `fresh`.  `AlreadyVisited` is the branch of a failed
insert, which ends the search of the name, except in the loop over the
ld.so.cache (`ldd.rs:159`, no `else`).  `order` is the iteration order of the
hash set `lpaths`, chosen anew for each call.  `PanicOnLoad` is the `unwrap()`
at `ldd.rs:89`.  `$ORIGIN` and canonicalisation are in the constants `rpath` and
`Joined`; arguments are paths that `canonicalize_dir` accepts (for others see
`BadArgument` of `InstallFilesLdd`).  `replace_slice()`, which replaces
`$ORIGIN`, is the operator `Replace` of **`ReplaceSlice`**.

**`Resolver`** is the search as one process sees it: a set `found` of items that
grows by files that a found ELF file needs, exist and are not installed, and an
`answer`.  `Ldd` implements it with `found` as the set of items enqueued so far:
each `Enqueue` is a `Find`, the last `Return` or `SkipInstalled` is the
`Answer`, and every other step of a worker is a stuttering step.  How far the
search must go is left open, since that is the promise `ldd()` breaks.

**`ElfLoad`** models what happens between `open` and `probe`: reading the
tables, and `load(i)`, which takes section `i` out of the table (leaving
`Section::default()`), loads the linked section, parses and puts back.  `stack`
holds the calls.  Strings are indices into the string table of a section.

**`LdSoCache`**: a number has four digits to the base `Base`, and `SwapBytes`
turns them round.  The byte order is guessed from the size of the file.  Where the
size fits in the wrong order too (`Ambiguous`), the code may take entries for
strings and strings for entries: the model then reads any string (`StringsAt`)
and any offsets (`EntriesAt`).  **`Readers`** runs it before `ElfLoad`: an error of
the cache is dropped, a panic is not.

**`InstallModules`**: `resolve` (arguments by path, by directory, by name),
where a file below `=dir` that the walk of the directory passes over because of an
error (`lib.rs:209`) is a request that is `Lost` and leaves no trace
(`SkipLost`); `walk` with `stack` for the calls of `install_module()`, `copy`.  It asks
`Verdict` of **`ModFilter`**, the code's sequence of tests and early returns;
its properties are stated with `Accepts`, what the options mean together, so
that a difference between the two makes `ImplementsModuleSet` or
`OnlyCompleteSetsAreCopied` fail.  **`ModuleSet`** is the abstract view: modules
are chosen one by one, each because it was asked for or because a chosen one
needs it; nothing is copied before the choice lacks nothing.  `Call` is a
`Choose` or stutters, `AllWalked` a `Commit`, `InstallFile` a `Copy`.

**`Modalias`** has `Plug` and `Unplug` at any time; `steady` are the devices that
are there ever since the walk began, and `sys.hidden` the ones the walk cannot
reach, whose errors it drops (`modules/mod.rs:33`).  The walk may or may not come
to a device that was plugged in behind its back; it ends when nothing is left that
it must come to (`InSight`).  **`Main`** adds the options, the log,
`uname()` and the choice between the list, the modules and the files; an error
of any becomes exit status 1, a panic stays one.  `install_files_ldd()` is one
step with a chosen outcome there.

**`ClonePath`**: `dest` is the set of host paths that exist below `DESTROOTDIR`,
`relaxed` the directories whose permissions are changed.  A path is the sequence
of its components; a path through links is given by what its directory leads
through (`host.via`; `Way` is that and the file itself) and by where it leads
(`Real`).  `Host` states how the kernel resolves paths: what the parent leads
through is on the way of a path too, a real path leads through its parents only,
and a link leads through the same files by whatever path it is taken, except for
those on the way to the link itself.  A created link gets the relative path that
**`RelPath`** computes; `astray` collects the ones that lead elsewhere.
`Overflow` is the stack overflow.  `mkdir()`, `symlink()` and `copy()` may fail for
reasons of their own (`host.createErr`), and so may the `set_permissions()` of a
read-only parent (`host.chmodErr`, `RelaxFails`).  `copy()` is one step here: it creates the
file, or fails before it has opened it (`CopyFile`) or afterwards (`CopyFails`),
and then the file is in `partial`.

**`InstallFilesLdd`** runs `Ldd` and then `ClonePath` for the list, in any order
of it, and does so for a sequence of calls.  `StartCall` resets everything but
the tree below `DESTROOTDIR`, after `canonicalize_dir()` for the arguments; an
argument without a canonical directory is a panic (`BadArgument`).  `Kill` ends
the process between any two steps of the cloning, or in the middle of a copy.
`left` remembers what calls that did not return Ok have created or cut short.
`Agree` relates the two views of the host, the one of `Ldd` (`world`) and the one
of `ClonePath` (`host`): what is read through a link, or by another path, is the
same file, and no path leads through an ELF file.

**`CopyFile`**: contents are numbers per offset, `data` the offsets that are not
in holes.  Every call may transfer fewer bytes than it was asked for, and every
call picks its result anew from those that `file` allows: it can work for a while
and then be given up for another one in the middle of an extent
(`CopyRangeUnusable`, `SendFileUnusable`), and SEEK_HOLE can fail after
SEEK_DATA.  `Steady` says of a file that this does not happen.
`SourceShrinks` is another process.  `Prepared` has the EPERM of `fchown` that is
ignored for users other than root.  **`AclCopy`**: a buffer that was filled with
fewer bytes than are then written is `Torn`: uninitialised memory.  `Change` is
another process; `history` records what each attribute was.  **`Copy`** runs
`AclCopy` at the point where `copy()` calls it, after owner and permissions and
before `ftruncate`.

## 3. Runs

| Run | Configuration | Properties | Result |
|---|---|---|---|
| `ldd` | `MCLdd` | `TypeOK`, `NoDuplicateResults`, `NoFileLost`, `ResultIsVisitedFiles`, `ImplementsResolver`, `KnownAreInstalled`, `Termination` | holds, 253,320 states |
| `ldd_race`, `ldd_rerun` | `MCLdd_race`, `MCLdd_rerun` | `AllNeededInstalled` | violated |
| `readers` | `MCReaders` | `TypeOK`, `NoSectionLost`, `PanicMeansDamaged`, `DepsAreNeeded`, `TableIsRead`, `FailureMeansDamaged`, `Termination` | holds, 128,112 states |
| `main` | `MCMain` | `TypeOK`, `OnlyCompleteSetsAreCopied`, `ImplementsModuleSet`, `NoModuleTwiceOnStack`, `ExitZeroMeansInstalled`, `ListIsComplete`, `ListErrorsAreExplained`, `Termination` | holds, 449,375 states |
| `filter_nosymbol` | `MCMain_nosymbol` | `NosymbolOnlyExcludes` | violated |
| `copy` | `MCCopy` | `CopyTypeOK`, `CopiedUpToSrcpos`, `NothingMisplaced`, `ErrorsAreExplained`, `ValuesAreGenuine`, `AttributesArrive`, `ReadableTerminates` | holds, 790,645 states |
| `copy_hole` | `MCCopy_hole` | `ErrorsAreReal` | violated |
| `copy_short` | `MCCopy_short` | `Termination` | violated |
| `clone` | `MCClonePath` | `TypeOK`, `NoDanglingLink`, `OkMeansInstalled`, `PermissionsRestored`, `ErrorsAreExplained`, `AstrayIsMisaligned`, `RecursionMeansCycle`, `Termination` | holds, 69,359 states |
| `install` | `MCInstall` | `OkMeansComplete`, `InstalledStaysWhole` | holds, 1,604,224 states |
| `clone_astray` | `MCClonePath_astray` | `LinksLeadToSource` | violated |

`MCClonePath` also assumes `RelPathIsRight`, which TLC evaluates at the start of
both clone runs: among all pairs of paths of up to four components over two
names, `convert_abs_rel` is right exactly for the aligned ones.  `MCLdd` assumes
`ReplaceIsRight`: for all words of up to five letters over two, and all patterns
of one to three, `replace_slice` replaces the occurrences from the left and
nothing else, overlapping occurrences and ones at the ends included.  (For an
empty pattern its loop does not end; the only pattern used is `$ORIGIN`.)

`ImplementsResolver` and `ImplementsModuleSet` are the refinements.  A worker
that forgot the directories handed down to it, or a filter whose tests are
swapped, is not a step of the abstract specification.

`OkMeansComplete` is about what outlives a call.  It has two exceptions, which
the code forces on it: links that lead elsewhere, and files that a call left that
did not return Ok.  Without the latter TLC finds that a killed copy leaves half
of a program, which the next call takes for installed (`file/mod.rs:151`) and
reports as Ok; that a program whose call failed before its libraries were copied
never gets them (`lib.rs:125`); and that an installed library is left cut short
when it is copied again through a link.  `InstalledStaysWhole` has an
exception as well: `/lib64/a.1`, where `/lib64` is a link that is not there yet,
is looked for in vain, then the call for the parent creates the link, and
`copy()` truncates the `/usr/lib64/a.1` that was installed before.  It is written
again at once, unless the process is killed or the copy fails at that moment.

`CopiedUpToSrcpos` and `NothingMisplaced` hold for every destination that can be
sparse, whatever calls are given up when, because each call is told where to
read and write, or the offsets are set before it.  For other destinations they are
stated for `Steady` files.  Without that condition TLC finds that a
`copy_file_range()` that copied a part and is then refused makes `sendfile()`
begin at offset 0 of the destination (`mod.rs:404-408`), that after a part by
`sendfile()` the `read()` begins at offset 0 of the source, and that a first
SEEK_HOLE that fails after SEEK_DATA worked leaves out the hole.  In the last case
the loop may also go on forever with empty pieces (`EmptyPiece`, `mod.rs:367`),
which is why `ReadableTerminates` asks for `SteadySeek`.

`ExitZeroMeansInstalled` is about the requests that are not `Lost`: `-m =dir` for
a directory that does not exist, or that cannot be read, installs nothing and
exits with 0.  A module whose soft dependencies libkmod does not return
(`lib.rs:367`) is installed without them, also with 0.

Several properties except what the code is known to do, and show that it is the
only thing that can go wrong there; `hazards` in `PROJECT.json` says which.
`PermissionsRestored` does not hold after an error (an error below a link,
`mod.rs:188`, leaves the parent writable), `ValuesAreGenuine` not for a value that
became shorter, `AttributesArrive` not when an attribute vanished, `OkMeansComplete`
not for what failed calls left, `InstalledStaysWhole` not through a link.

Each violated run is a place where the code does not do what a help text, a
comment or a test of the repository says; the quotations are under `findings`
in `PROJECT.json`.  In short:

* *A worker believes another one* (`ldd_race`).  Two programs with the RPATH
  `x:y` need a library that only the ld.so.cache knows.  One worker inserts
  `x/a`, the other one `y/a`; each then meets the other's candidate and gives
  up.  Neither looks into the cache.  `KnownAreInstalled` shows what this takes.
  Without an RPATH every name in the cache is found: that loop goes on after a
  failed insert.  The loop over the default directories gives up, but all
  searches for a name meet there at the same candidates, so that who was first
  goes on.  What is left is a name that is nowhere or installed already, and a
  path without a file that something else has brought into `visited`: an
  argument, an old entry of the cache, the same directory under a second name
  (`Uncontested`).  The same `continue` does harm without concurrency: a
  candidate that does not exist stays in `visited`, and the next program takes
  it for found and skips the directory that has the library.
* *What is installed counts as missing* (`ldd_rerun`).
* *`--mod-filter-nosymbol` alone excludes everything with readable symbols.*
* *A sparse file that ends with a hole cannot be copied; a file that shrinks
  makes `copy()` spin.*
* *`convert_abs_rel` is right only for aligned paths* (`Aligned`): the link
  `/usr/lib/d/k -> /lib` becomes one to `/usr/lib/lib`.

Two more, which no run singles out.  `ErrorsAreExplained` of `ClonePath` has the
disjunct `Real(p) # p` because of one of them: if the parent of a path is a
link, cloning it can create the target whose absence was tested before, and
`mkdir` or `symlink` fails with EEXIST.  And `modalias_list` begins with all
loaded modules (`modules/mod.rs:17-21`), although the help text has "Only
generate module list from /sys/devices modalias list" (`main.rs:129`);
`ListIsComplete` therefore asks for both.

### Bounds

* `Ldd`: two workers (the race needs two), two programs, two library names,
  three directories.  This is enough for searches that meet, for cycles, for
  shadowing and for every loop of the search to be left in each way.
* `ElfLoad`: three sections besides the null section, all links between them,
  which includes self-links and cycles of length two and three.
* `LdSoCache`: two entries and two strings, and files of up to four entries whose
  size fits in both byte orders.  A byte has two values, the header two bytes and an
  entry one (`MCReaders.cfg`), so that such files are small.
* `Readers`: every file without a cache and every cache with one file; the two
  parsers share nothing but the order.
* `InstallModules`: five modules, one of them built in and one not a module, and
  all filters over one name, one path and two symbols.  `Modalias`: three
  devices, which come and go at any step, two modules.  `Main`: every tree for `--module`, every system for
  `--modalias`, every command line for one tree and one system.
* `ClonePath`: 16 paths with two levels of links, among them a link below
  `/usr/lib/d` that is reached through `/lib` as well and leads to the file beside
  it, back to `/lib`, or to a third link; `MaxDepth` = 12 bounds the
  recursion and `Overflow` stands for the stack overflow, which
  `RecursionMeansCycle` ties to link cycles.
* `InstallFilesLdd`: three calls, the least in which what a failed call left meets
  a call that returns Ok and then another one that relies on it, or in which an
  installed file is copied again through a link; two programs and
  two libraries, one of them a link to its file through another link.  One
  worker: what two of them do to the list is the subject of `ldd`.
* `CopyFile`: `MaxLen` = 4 bytes give every layout with two extents;
  `BufSize` = 2 makes the inner loop turn more than once.
* `AclCopy`: two attributes, values of lengths 0 to 2, at most two changes by
  others (`sys.max_changes`), enough for a change on either side of each pair of
  calls.

`CHECK_DEADLOCK FALSE` is set everywhere because every program here stops when
it is done; that it does not stop earlier is what the `Termination` properties
say.

### Fairness

Every program but `ldd()` has one thread, and weak fairness of its steps says
only that the thread runs.  `MainSpec` assumes nothing of the devices and
`CopySpec` nothing of the processes that change the source or its attributes.
In `Ldd` every worker is weakly fair: rayon threads are threads of the operating
system and the only lock, around `visited`, is held for one insert.

## 4. Proofs

Every safety property that a passing run checks is proved for all values of the
constants.  The proofs assume what the `ASSUME`s
of the models say, which TLC evaluates in the runs: types of the constants, and

* `LddAssumption`: there are finitely many library directories;
* `ClonePathAssumption` (`HostsAreTrees`): a host's paths have their parents,
  real paths lead through their parents and through no link, a file has one kind,
  and a link leads through the same files, by whatever path it is taken, and
  what is below `DESTROOTDIR` initially is a tree of real paths;
* `InputsAgree`: `Agree` above, and that the ELF files below `DESTROOTDIR` come
  from the program itself (`OkMeansComplete` could not promise libraries for
  others);
* `LdSoCacheAssumption`: the numbers in a cache are words of four bytes;
* `AclCopyAssumption`: attributes have finitely many names, and only one value is
  empty; `CopyAssumption`: contents and attributes are copied on one system;
* `CopyFileAssumption`: the data of a file lie below its length;
* `ReadersAssumption`, `ElfLoadAssumption`, `MainAssumption`,
  `InstallModulesAssumption`: types.

All invariants are shown inductive, `Init => IInv` and
`IInv /\ [Next]_vars => IInv'`, with one lemma for each part that needs its own
argument.  Few properties are inductive as they stand; what had to be added:

**`LddProofs`.**
`TypeCorrect` is inductive; beyond types, `TypeOK` says that a busy worker's item
is claimed and that a worker in `fresh` stands on a candidate.  `ResultsAreUnique` and `FilesAreNotLost` need
`SearchInv`: a candidate in the hands of a worker in `fresh` is in `visited`, in
no item and in no other worker's hands (`FreshIsOwned`), and two items have the
same path only if both are arguments.  The insert makes its worker the owner
because the path was not in `visited`; `Enqueue` hands the ownership over to the
queue.  `ResultsAreComplete` and `WorkersImplementResolver` need `ReturnInv`:
what a worker knows about the item it holds (`HeldItems`), that a claimed item is
returned, dropped or held (`ItemsAccounted`), and where the items come from
(`LogSource`).  Then the candidate of a worker is in the abstract search space
(`CandidateInSearchSpace`), `Enqueue` is a `Find` and every other step is an
`Answer` or a stuttering step, for any number of workers.
`KnownLibrariesAreNotMissed` needs `KnownInv`: how much of the loop over the
ld.so.cache each worker is past (`SearchedSoFar`), and that it is past all of it
for what it has returned (`ResultsSearched`).  For the default directories that
is not enough, for a worker that gives up there has looked at one path only.
`DefaultInv` speaks of all workers at once: if a candidate without a file is in
`visited`, then one with a file is too, or the worker that inserted it, and no
other, is on its way to the next (`OneGoesOn`).  When all workers have returned,
nobody is on the way, and the file has been found.

**`ReaderProofs`.**  The cache: `OrderInv` says that the byte order that was
guessed is the file's as soon as there is an entry to read, unless the file is
`Ambiguous`, and `TableInv` that the table has the entries before `next`.
`OrderIsTold` says when this cannot be: a file of less than 2^24 bytes is
ambiguous only if the number of its libraries is divisible by 256, for otherwise
the swapped number has a digit in its highest place, and that many entries do not
fit into the file.  An ambiguous file is possible, and then misread: 256 libraries
with 1572864 bytes of strings, written in the other byte order, have the size of
65536 libraries with 6144 bytes, which is how the program reads them.  `load()`: a section is at home, or a default section is
in its place and exactly one call of `load()` has it (`SectionsInv`,
`HoldersInv`); a call that waits has a section with a link, and the next one is
for what it links to (`CallsInv`), so that no section is loaded twice at a time
and the recursion ends (`ReaderTypes`).  A string table that is needed has been
read (`LinkInv`), hence the names are the ones meant, and `DepsInv` adds them up
section by section.

**`ModuleProofs`.**  `FilterAccepts` says of the filter's tests and early returns,
for all options and lists of symbols, that together they accept what the options
mean.  `OnlyCompleteSetsAreCopied` holds because a visited module whose needs are
not all visited is on the stack, unless `walkErr` (`VisitedComplete`); for one on
the stack it is what its frame is past that is visited (`Progress`).  The
invariant is `ModuleInv`: types, `StackInv` (no module has two calls, and all of
them are visited), `SearchInv` and `RequestsResolved`.  With it a step of a call
is a `Choose` of `ModuleSet` or stutters (`SearchImplementsModuleSet`).

**`MainProofs`.**  Every step of `main()` is one of the installer or none, which
carries all of this over to the program; `ExitStatus` ties the exit status to the
branch that was taken.  The list: only the modules of the device that is being
read may be missing from what the walk has passed (`WalkedListed`).

**`CopyProofs`.**  `copy()` keeps the same offset in `next_beg`, `in_off`,
`out_off` and `srcpos` and changes between calls that use different ones.
`PiecesInv` says which of them the next call takes and that it is where the
others are: `SparseInv` for extents, `PlainInv` for a destination that cannot be
sparse, which is written in one of three ways (`ByRange`, `BySendfile`, `ByRead`)
or, if the source shrinks, not any more (`Stuck`).  Extents are sought at every
turn, so `SparseInv` survives any fallback; each of the three ways keeps its
offsets somewhere else, so `PlainInv` needs that a call that has copied a part is
not given up (`Steady`).  Whether the destination can be sparse is only known when
the loop begins: `PiecesInv` holds as long as one of the two may be relied on
(`Trusted`), and only `BaseInv`, types and the head of the loop, always.
`AttributesInv`: what is listed, what the loop is past, that a value is one the
attribute had (`Genuine`), and that a list that has become too long has an
attribute that was missing once (`AlwaysThere`).

**`ClonePathProofs`.**  `RelativePathsAreRight`: for paths of any length,
`convert_abs_rel()` gives a path that leads to the source exactly for aligned
ones.  `CloneInv` is what a call may rely on when another one returns:
`FramesInv` (a call waits for its parent or for what its link leads to; when it
is on top again, that is there), `TreeInv`, `FilesInv` for the list, and

* `FreshInv`: what a call for a path without links found missing is still
  missing when it creates it.  Everything that happens in between is for
  parents, which are shorter.  Paths with links are not covered, and that is
  where `InstalledStaysWhole` and `ErrorsAreExplained` have their exceptions;
* `SoundInv`: without a reason outside of `clone_path()`, what the active calls
  are to create is not there.  `CloneErrorsAreExplained` follows: no `mkdir()` or
  `symlink()` can fail then.  Two calls for the same path would contradict it
  (`OnlyCall`);
* `LinksInv`, `PermissionsRestored`, `WholeInv` and `AstrayInv` for the other
  theorems.

`EndlessRecursionIsTheHosts` is `RecursionMeansCycle`, for a stack of any depth.  A
call for the parent is for a shorter path (`ParentChain`), so there are links
between two calls for the same path.  `CloneInv` knows what each of them leads
to, but not that the next one is on the way to it and not on the way to the link
itself.  That is `AheadInv`: a call above a link that has passed its test for the
target is for no directory that the link lies in, since those had arrived when
the link was followed (`AboveHasArrived`), and the test finds them.  So each link
leads through the next one (`NextLink`), and the last through the first
(`LinkAgain`): a set of links that can only be followed through each other, which
is what `LinkCycle` says.

**`InstallProofs`.**  Search and cloning take turns, and the proof uses, step by
step, what `LddProofs` and `ClonePathProofs` show of theirs; what was an initial
condition there holds again at each `StartCall`.  `InstallInv` adds what passes
from one to the other: the list is what was returned (`CallInv`), what the search
took for installed is installed (`DestInv`), everything that is cloned needs
nothing but what a file of the list needs (`CoveredInv`: it is one, or what a
link leads to, or a directory), and what was installed before has its libraries
(`CompleteInv`), except for what is in `left`.  With Ok, the list has arrived and
the search has looked at every entry of the cache for it (`SearchedEntries`), so
that what is new has its libraries too (`Settled`) and `CompleteInv` holds for
the next call.  The theorems are `InstallIsComplete` and
`InstalledFilesStayWhole`.

What recursive functions compute is proved by induction over sets of numbers
(`NatSetInduction`, `DownwardSetInduction` of `DataLemmas`): the loop over the
symbols in `ModFilter`, `Rest` of `RelPath`, the NEEDED entries of a section and
of all sections, and the loop of `replace_slice()`, for which
`ReplacementIsFromTheLeft` (in `LddProofs`) shows that it replaces from the left,
whatever the buffer, the name and what takes its place.

Only model-checked: the liveness properties (`Termination`,
`ReadableTerminates`), since fairness is beyond the prover.  The violated
properties are counterexamples, and need no proof.

## 5. Not modelled

* Options that are stored and never read, and log levels.  `--fips` reads an
  argument, `hmac`, that is not declared, and the log file is opened without
  being created; the latter is the field `logs` of a command.
* The cache of canonical directories (`ldd.rs:209`): a value is looked up under a
  read lock and inserted later under a write lock, so that two workers may both
  ask the kernel, but they get the same answer, since the file system is constant
  during the search and the cache lives as long as one `ldd()`.
* A change of the host's file system between two calls, other than whether a copy
  works.
* Reference counts in the kmod bindings, and loading and unloading of modules,
  which the program does not use.
* Byte layouts of ELF headers, tables of constants, error texts, logging,
  benchmarks.

## 6. Plan

Done: the resolver with its proofs, then the parts it uses (ELF reader,
ld.so.cache, `replace_slice`), the module installer with its filter, the modalias
list, the command line that chooses between them, the writing side (clone, copy,
attributes, links), the composition of resolver and cloning over several calls
with crashes in between, and the abstract specifications of the resolver and of
the module installer.  No part of the program with state of its own is left out.

Done as well: the proofs of section 4.

Nothing of the plan is left.  What one could add: `KnownAreInstalled` for files
with an RPATH.  It would need conditions on the search paths of all files at
once, since each path without a file that two of them share can hide a library,
as `ldd_race` shows.
