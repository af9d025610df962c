# A verification project for fictional-succotash

The repository builds five command-line programs that arrange and deduplicate
files: `metafs`, `passthrufs` and `logfs` (FUSE file systems), `fdupes` and
`tidy`. This directory holds TLA+ models of the ones that have behaviour worth
checking, the TLC configurations that check them on small instances, and proofs,
for every instance, of nearly all their safety properties.

Contents: [inventory](#inventory), [modules](#modules-and-how-they-correspond-to-the-code),
[runs](#what-the-runs-check), [fairness](#fairness), [proofs](#what-is-proved),
[where code and documentation differ](#where-the-code-and-its-documentation-differ),
[not modelled](#what-is-not-modelled), [plan](#plan).

To repeat a check: `tlc -config MCEntries.cfg MCEntries`; to repeat the proofs of a
module: `tlapm FDupesProofs.tla`, and so on for each `*Proofs` (the longest of them
take about six minutes).

## Inventory

### metafs (`metafs_src/`)

A read-mostly view of source directories, in which every file appears below
directories named after its metadata (type, size, ...), as a configurable
pattern says.

| part | state | operations |
|---|---|---|
| `Entries` (`entries.cpp`) | `string_index`, `string_reverse_index`, the tree of `path_component`s, the file entries | `get_string_index`, `path_exists`, `get_file`, `get_children`, `get_files`, `delete_file` |
| the scanner (`entries_scanner.cpp`) | its position in the source tree, the counter `num_files` | `scan`, `scan_path`, `add_file` |
| `MetaFS` (`metafs.cpp`) | file descriptors in `fuse_file_info::fh` | `Getattr`, `Opendir`, `Readdir`, `Open`, `Read`, `Release`, `Unlink` |
| `StubFS` (`stubfs.cpp`) | none | every other handler, with a constant answer |
| plugins (`plugin*.cpp`), configuration | none after start-up | classify a file; read the JSON configuration |
| `main.c`, `wrap.cc` | the process | start the scanner, mount, fork, unmount, destroy |

*Interaction.* `set_config_file` starts the scanner in a detached thread
(`entries.cpp:94`) before `fuse_main` has mounted anything, and before it forks.
The FUSE worker threads read the tree while the scanner extends it, and mark
entries deleted. **There is no lock anywhere.**

*What is hard.* Statements that other threads see half done
(`string_index[key] = index` passes through 0, `children[i] = new ...` through a
null pointer); look-ups in two maps that are filled one after the other; an
unlink that looks its file up twice; a fork that leaves the scanner behind; an
exception on the scanner thread that ends the process; an unmount that frees
what the scanner still writes to. For open files: `fh == 0` stands for "none"
(`metafs.cpp:264`, `:284`) although 0 is a descriptor; a path is opened after it was
copied; the scanner, FUSE and the workers share one table of descriptors; a read
beyond the end of `/.config` throws on a thread where nobody catches it (`:279`).

*What makes it correct.* The two maps are inverse to each other, each file hangs
where its attributes say, a name is unique and is never rebound, an unlink
removes the file the name belongs to and hides nothing else, answers after the
scan are exact, requests are answered, files are eventually listed; a handle stays
with the file it was opened for, and no descriptor is lost.

### fdupes (`src/fdupes.cpp`, `src/crc_32.cpp`)

| part | state | operations |
|---|---|---|
| options | `flags`, `min_size`, `read_only`, `globs` | `main` |
| scan | `filelist`: groups of files by size | `scandir`, `is_readonly`, `glob_include` |
| match | the queue of groups, cached checksums in each file | `build_matches`, `groups_match`, `gen_partial_crc`, `gen_full_crc`, `byte_match` |
| delete | `names`, `erase` | `deletefiles`, with or without a prompt |
| print | none | `printmatches` |

*What is hard.* Three comparisons of increasing cost with checksums cached
across comparisons; a group built by inserting at the front twice, although
"first" is promised to the user; read-only files that change which file is
preserved; removals that fail; other programs that write while it reads. In the
scan: links, `stat` or `lstat`, marks handed down by the recursion, directories that
cannot be opened because those above are. A file may be reached under two names, by
a link or another spelling of its directory, of which `-R` protects one.

*What makes it correct.* The scan finds each wanted file once; exactly the
duplicates are found, the last copy of a content is never removed unasked, a file
that is found read only under all its names never, and it ends.

### tidy (`src/main.cpp`, `src/options.cpp`)

`fetchfiles` collects files, `std::sort` orders them by size, key and path,
`boxfiles` moves each to `<type>/<size>/GROUP_<n>`, or to what the pattern given
with `-s` makes of its type, size and date. The state of a run is the
list of files and a counter for each key; between runs only the tree remains.
`Options` keeps what `main` registers (`_parameters`, `_sections`) and, for one
command line, the answers of `getopt_long`, `index` among them, which is a local
variable without a first value.

*What is hard.* A run starts from whatever earlier, interrupted or partly
failing runs have left; counters start from nothing each time; directories may
be given twice; `rename` replaces what is at the target; a file may have been
edited since it was boxed; the paths of groups are compared as text; a symbolic
link counts as a regular file, and a file that cannot be read is read for ever.

*What makes it correct.* No file is lost, a complete run leaves every file in
its place, repeating it changes nothing, a run ends; an option does the same however
it is spelled, and the usage shows every option that was registered.

### passthrufs, logfs (`passthrufs_src/`, `logfs_src/`)

`passthrufs` forwards requests to a root directory; its state is the file
descriptors between `Open` and `Release`, everything else is the file system
below. `logfs` logs each call and gives a constant answer.

*What is hard.* Workers open, close and list at the same time, descriptor numbers
are given out again at once, and what a path stands for changes under the mount.

*What makes it correct.* A handle stays with its file, no descriptor is lost or
closed twice, and each request takes effect on what its path names at one moment.

## Modules and how they correspond to the code

    Entries <--EXTENDS-- MetaFS --refines--> MetaView <--refines--+
       ^                    ^                                      |
    EntriesProofs <----- MetaFSProofs      HandlesProofs --> Handles
                                                                   |
    PassthruProofs --> Passthru --refines--> MountView <--refines--+

    FDupesReads --EXTENDS--> FDupesContents <--EXTENDS-- FDupes <-- FDupesProofs

    FDupesScan        Tidy        Options
       ^                ^            ^
    FDupesScanProofs  TidyProofs  OptionsProofs

`MC<module>` give the constants of each for TLC; `<module>Proofs` extends what it is
about.

**Entries** is the index and the scanner. A `path_component` is the sequence of
numbers that leads to it, so that `store` is the tree; `files` holds all entries
in the order of `push_back`. The scanner is a state machine at the granularity
at which other threads can look: `InternNew` / `InternAssign` / `InternReverse`
are the three stores of `get_string_index`, `ChildNew` / `ChildLink` the two of
`children[i] = new path_component()`, `PushFile` the `push_back`. `scan_path`'s
recursion is an explicit stack (`OpenDir`, `CloseDir`, `SkipDir`, `SkipFile`); any
directory may be refused by `opendir` at the moment it is come to, and `refused` is
the history of those that were.
`Abort` is the exception of `attributes.at`. `IndexInFlux`, `ReverseInFlux` and
`ChildrenInFlux` say when a map is being inserted into: a look-up at that moment
is a data race, and its outcome is left open by the readers. `LoseScanner` is
`fork()`.

**MetaFS** adds the process: worker threads whose every map look-up, list search
and system call is a step, the mount (with or without the fork), the unmount and
exit of `main`. The kernel is external: any of the paths may be asked for at any
time. Crashes (a null pointer, an exception that leaves a handler, use after
free) are a state of the process.

**MetaView** is what metafs promises about names: bound once, removed and hidden
only on request. `MetaFS!ViewSpec` states that the detailed module implements it.

**Handles** is the other half of the requests of metafs, for which `MetaFS` has
shown what names stand for: a look-up is one step here (`LookUp`, `Miss`), and what
is taken apart are the descriptors. `fds` is the table of the process, the lowest
free number given out first; `fh` is `fuse_file_info::fh`; `scanfds` are the
descriptors of the scanner, which has run since before the mount; `fuse` is that of
`/dev/fuse`. `OpenSource` goes by the path that `LookUp` copied, `UnlinkSource` and
`MarkHidden` are the two halves of `Unlink`, `ReadConfig` and `OpenConfig` are
`/.config`, `Stub` the handlers of `StubFS`. `Init` allows a process that was started
without a standard input, so that descriptor 0 is free. `Handles!ViewSpec` shows that
open files behave as those of `MountView` do; that names are removed and marked as
`MetaView` allows (`Handles!NamesSpec`) is proved. The same `MetaView` is what `MetaFS`
implements, and so the two models meet there.

**FDupesScan** is how fdupes comes by its files: `TakeOption` for each option of
`main`, `ScanArgument` for each directory, and `scandir` with its recursion as a
stack of calls: `Descend`, `CannotDescend`, `ListFile`, `PassOver`, `Gone`, `Return`.
Entries are read in any order. A path is kept as what it is put together from, the
argument and the names below it, with the parts that `tokenize` makes of each; the
patterns of `-i` are asked about the whole of it (`Matches`). What it finds is what
`FDupes` starts from (`Found` there): the names with the mark of `-R`.

**Options** is `options.cpp` with the handler of tidy: `add_section` and `add_option`
in any mixture, then one `getopt_long` answer at a time and what `getopt` does with it
(`Describe`, `CallByLetter`, `ShowUsage`, `CallByName`). `getopt_long` itself is
external: joined letters, shortened names, arguments in the same word or the next,
operands passed over. Texts are left out of the usage: `usage` is the sequence of the
options it shows.

**FDupes** models one invocation: `ScanFile` for `scandir`'s filter, one action
per step of `build_matches` (`TakeSize`, `TakeHead`, `ComparePartial`,
`CompareFull`, `CompareBytes`, `GroupDone`), `deletefiles` (`SkipSet`, `TakeSet`,
`Answer`, `QuitAnswer`, `RemoveFile`, `SetDone`) or `printmatches` (`PrintSet`), and
`OtherWrites` for other programs. Both of the last go once more through the sizes,
largest first (`TakeSets`). What an answer says of a file is the last of its words
that is about it (`About`, `Obeyed`). A `scenario` is an invocation with the files it comes
across; `leaked` counts the files that `byte_match` has left open. A file found is a
name of an `Entry`, with its mark: two names may lead to one entry, so that removing
one removes the other, and one may be protected while the other is not. The checksum is
any function, so collisions are possible by construction. A loop that reads is one step;
as soon as another program has written, it may come to anything (`Outcomes`).
`preserved` is a history: the files that answers were to preserve.

**FDupesContents** says what those loops make of a content when nobody writes meanwhile
(`PartialOf`, `FullOf`, `MatchOf`). A content is a sequence of units, `fread` returns
`MaxPartial` of them. The unsigned countdown of `gen_full_crc` and the signed one of
`byte_match` are kept apart, as they differ for a file that has grown.

**FDupesReads** takes the loops apart, one step for a turn (`ReadPartial`, `ReadFull`,
`ReadBytes`, `LoopDone`), with the counts as the code has them (`left`, modulo
`Modulus` where it is unsigned), the end-of-file indicators, reads that return less
than was asked for, and `OtherWrites` between any two turns. It shows that the loops
end and that `FDupesContents` is right about them.

**Tidy** models any number of runs over one tree. A place is a directory and a
name; the directory of a boxed file is what the pattern makes of it (`Expanded`) and
a group number, the date and the size being those recorded by `fetchfiles`, the type
that of the moment. A tree may hold boxed files from the start, in any group and with
other sizes by now. `StartRun` resets what a new process resets, `FetchFile` is one
`readdir` result, `BoxFile` / `RenameFails` / `SkipFile` / `Hang` / `Divide` are the
outcomes of one round of `boxfiles`, `Stop` is `exit(-1)` after a failed `mkdir`, or a
signal. `Hang` may happen to any file, and is all that happens to a link to a
directory. `PathBefore` orders files that agree in size and key by the spelling of
their paths: groups by number, but for the pairs in `Inverted`, as 2 and 10. `clean`
and `begun` are history variables: whether the run passed over anything, and the tree
it found.

**Passthru** has one action for each handler, which makes a single system call,
but for `Readdir`, whose `opendir`, each `readdir` and `closedir` are steps
(`ListFirst`, `ListName`, `ListLast`; `ListFails` is the empty answer after a failed
`opendir`). `fds` is the kernel's descriptor table of the process, the lowest free
number given out first; `fh` is what the kernel keeps for each open file. The files
below the root and what other programs do to them (`Others`) are external. The
kernel may ask for anything at any time, for a handle only between its open and
its one release. The handlers with constant answers are represented by one
operation that is refused and one that is accepted.

**MountView** is a mount without descriptors: a handle is open for a file, each
request takes effect on the file its path names at that moment or its handle is
for. `Passthru!ViewSpec` is the refinement.

## What the runs check

All runs but the two marked as violations pass. Deadlock checking is off
everywhere because each of these programs may stop: the scan ends and nobody
sends a request, `fdupes` and `tidy` exit.

| run | question | instance |
|---|---|---|
| `entries` | is the index sound while it is built? | four files, a directory configured twice, any directory refused by `opendir`, one file that cannot be classified, layouts of 0 to 2 levels over three shared names, files removed and created by others, the scanner lost at any step |
| `process` | are answers, unlinks and the view right while the scanner runs, what is left after a fork, and does everything end? | with `-f` and as a daemon, one worker, two files, one of which may lack an attribute, layouts of one or two levels chosen per file, either directory refused by `opendir`, every path over three names asked for |
| `workers` | do two workers disturb each other? | two workers (symmetric), two files side by side in one directory |
| `handles` | are descriptors kept, and do open files stay with their handles? | two workers, two handles, one name and two files that come to be at its path, `/.config`, six descriptors (two are left when FUSE has mounted), with and without a standard input |
| `passthru` | the same for passthrufs, and is the mount transparent? | two workers, two files, two handles, two free descriptors, one change by another program |
| `scan` | does fdupes find what it should, with the right mark? | a tree of three directories with links up, down and to nothing, an empty file and a pipe; 27 command lines with `-r`, `-s`, `-n`, `-M`, `-R`, `-i` in several orders, patterns for the last name and for the path above it, overlapping arguments, two to four descriptors; any entry gone when it is asked for |
| `fdupes` | are exactly the duplicates found and the right ones deleted? | six invocations: `-d -N` over five files with every assignment of five contents whose checksums collide in the first read, in full or not at all, one unreadable, two read only; the same with four descriptors; `-d` with every answer of up to two words; `-M -1` while others write, truncate or remove; a directory given twice; a file under two names, one of them protected |
| `fdupes_reads` | do the loops that read end, with the right result? | two files of seven contents, up to three reads long, any recorded size, short reads, writes by others without a bound, counts modulo 8 |
| `tidy` | does a tree converge, lose nothing, and does each run end? | two trees: four files, two of them of one size and key, with a dangling link; and two such files, a link to a directory and one that was boxed in `GROUP_2` and edited since; up to three runs with any of nine command lines and two patterns, each stoppable; the numbers of groups are spelled to the base of three, so that `GROUP_10` is the third |
| `tidy_groups` | *(violation)* is the threshold a maximum? | two runs, threshold 2 |
| `options` | does an option do the same however it is given, and is the usage complete? | tidy's options, and a program with sections of equal and of different priority, shared letters, flags and values; every line of up to three of 18 (9) pieces |
| `options_flag` | *(violation)* is the flag of an option stored when the option was seen? | the same |

Type invariants are conjuncts of the first invariant of a module (`CalmAnswers`,
`MatchesExact`, `NothingLost`, `DescriptorsKept`, `FoundExactly`; `UsageComplete` for
the options), except for `Entries`, where `TypeOK` is one of its own.

What the properties say, in the order of the hazards they are for:

* **The index.** `IndexConsistent`: outside the entry being interned the two maps
  are inverse. `TreeNamed`: no reachable directory lacks a name or a parent.
  `UniqueNames`, `EntryPlacement`: as named. `IndexOnlyGrows`: nothing a reader
  was told is taken back.
* **The process.** `CalmAnswers`: a request taken after the scan is answered as
  the layout says, in both directions. `UnlinkExact`: even in mid-scan, when a walk
  may be led into another directory (a new name has number 0 for a moment), the
  file removed is the one the name belongs to. `NoCrashAfterScan`: after the scan
  only a request that had read a null pointer during it can crash the process.
  `IndexFrozenByFork`: without `-f` the daemon shows what was found before the
  fork and no more. `RequestsAnswered`, `EventuallyListed`: liveness.
  `EventuallyListed` exempts a daemon, a process that ended, and the files of a
  directory that was refused, with what is below it, but nothing beside it.
  `ViewSpec`: the refinement; among other things, the second look-up of an unlink
  hides no entry but the one whose file was removed.
* **Open files of metafs.** `DescriptorsKept`: besides those it was given, FUSE's and
  the scanner's, the process has open exactly the descriptors of its open files, no
  two the same. Only descriptor 0 is exempt: when the process has no standard input
  and the scanner holds 0 while FUSE fills the gap, a file may be given 0 later, and
  then it cannot be read and is never closed. `ReadersSurvive`: the
  process is not terminated by a program that reads `/.config` on from where its last
  read ended, up to the end and at it, but only by a read put beyond the end. `ViewSpec`: a handle reads the file it was opened for, unlinked or
  replaced meanwhile or not.
* **The scan of fdupes.** `FoundExactly` compares with a reference definition over the
  paths of the tree: nothing else is found, and everything unless an entry was gone
  or a directory could not be opened. `ReadOnlyByPath`: the mark handed down is what
  the whole path says. `FoundOnce`: one name for each file, unless links are followed
  or directories given twice. `ScanEnds`: links that lead up included.
* **fdupes.** `MatchesExact` compares with a reference definition (the classes of
  equal content). `FirstPreserved`: groups are in the order of the scan, and "the
  first file" is the first scanned. `LastCopyKept`: no content disappears, at no moment, with any removal
  failing. `ReadOnlyKept`: what is removed was found under a name that is not
  protected; a file found read only under every name stays. `UnaskedKept`: an answer
  deletes in its own set only, also where a directory was given twice, and what it was
  to preserve is there until the end, unless it has a second name. `NoFileTwice`,
  `Termination`: whatever other programs write. `ReadsEnd`: each loop that reads
  ends, however long others write; gen_full_crc's count may wrap below zero, and ends
  with the file. `ReadsExact`: undisturbed, the loops compute what `FDupes` takes for
  their results, also for files that are longer or shorter than recorded.
* **tidy.** `NothingLost`: no sequence of runs loses a file, unless two files of one
  name have a directory in common that some pattern sends them to or where one of them
  is boxed (`NoTwins`), in which case `rename` does replace one by the other.
  `RunArranges`: a complete run that passes over nothing fills the groups in the order
  of size and key, whatever was there before (`Filled`); and files that agree in both
  are in the order of their paths (`Arranged`), as long as the groups have one digit.
  `RerunMovesNothing`: an arranged tree is left alone by the next complete run, and any
  tree by a dry run. It needs "passes over nothing": a file that is skipped is not
  counted, and later files of its key move up; and it needs `Arranged`: with such a tie
  in `GROUP_2` and `GROUP_10` the next run swaps them. `RunsEnd`: a run comes to each
  file once, and only a file that cannot be read to its end (`Hang`) keeps it from
  ending, or `-t 0`.
* **Options.** `IndexFresh`: `index` is used only when the latest answer has set it.
  `AsMeant` compares with what the pieces of the line are meant to do; the letter of an
  option that has a flag is left to `SeenIsStored`, which fails.
  `UsageComplete`: every option, once, in the order of the sections.
* **passthrufs.** `DescriptorsKept`: the open descriptors are exactly those of the
  open files and of the directories being listed, no two the same. `ViewSpec`: the
  refinement; a read or write reaches the file that was opened, though its number
  had another use before and its path may stand for another file by now.

*Why the bounds are enough.* The index interns at most three names with up to
two per file, so every interleaving of a new name, a known name below a new one,
and a name shared between levels occurs; three numbers suffice for a name to be
mistaken (as 0) for another. Contents cover one read, two reads and a rest, and
the collisions of checksum each comparison can meet. Three turns of a loop that reads give
one of each kind: before, at and after the recorded end. A threshold of 2 with three
files of one key gives a full and a partial group, a threshold of 1 a group of two
digits (to the base of three); three runs give a partial run,
a complete one and its repetition. Bounds on counters are the constants `MaxNum`
(names asked for), `MaxTokens` (length of an answer), `max_writes` (writes by
others), `max_open` (files open in fdupes), `MaxRuns`, `MaxFd` (descriptors),
`MaxScanFds` (descriptors of the scanner: two in the code, one in the run),
`Modulus` (of the unsigned count; 2^64 in the code, beyond the size of any file),
`ConfigLength`, `MaxLinks` (`ELOOP`) and `MaxOthers` (changes by other programs). With two free descriptors two workers use them up, so that an open and a
listing fail, and every number is given out again for another purpose.

## Fairness

* `MetaFS!Fairness`: weak fairness of the scanner thread, of mounting, and of each
  worker's steps. They are threads of one process, none of them waits for
  another (there are no locks), and the operating system schedules them. Nothing
  forces the kernel to send a request, the user to unmount, or other programs to
  act.
* `FDupes!FairSpec`, `FDupesReads!Spec`, `FDupesScan!FairSpec`, `Tidy!FairSpec`: weak
  fairness of the program's next step. A single thread that can go on does; `fread`
  returns. Answers at the prompt, other writers,
  signals and new runs are not fair.

## What is proved

The theorems are about the specifications that TLC runs, for every value of the
constants: any number of files, workers, descriptors, runs, names. What they assume of
the constants is what the modules assume (`ASSUME`), which TLC evaluates on every run.
Each rests on an inductive invariant: true initially, kept by every step (one proof
step for each action), and implying the property.

### The index of metafs: `EntriesProofs`

For every set of source files and directories, every layout of any length and any
finite set of directory names (`SourcesAssumption`, `PathPartsAssumption`,
`KeyAssumption`).

| theorem | states |
|---|---|
| `TypeCorrect` | `TypeOK`, and that the scanner asks for no part beyond the layout |
| `IndexCorrect` | `IndexConsistent` |
| `NamesCorrect` | `UniqueNames` |
| `OnlyGrows` | `IndexOnlyGrows` |
| `TreeCorrect` | `TreeNamed` |
| `PlacementCorrect` | `EntryPlacement` |

`TypeInv` adds to the types that `cur` is within the layout wherever `add_file`
reads the next part. `IndexConsistent` is not inductive: it does not say that the
number about to be stored is fresh. `IndexInv` adds that the numbers in use are
exactly those below the number of names interned, counting the pending one, and
that the value the scanner holds is the next one; freshness follows, and with it
that no two names get one number. `NamesInv` relates names to the counter: every
name used is below `num_files`. `EntryPlacement` needs to know where the scanner is
on its walk: `PlacementInv` says that the node it has reached spells out, number
by number, the part of the layout it has done (`WhereScannerIs`). That a number
never changes its name (`DecodeKept`, from `IndexInv`) keeps this true while names
are added. `TreeUsed` and `TreeClosed` are the two halves of "the tree is what the
files need": no component leads to nothing, and whatever leads to one is there.

### The process: `MetaFSProofs`

| theorem | states |
|---|---|
| `ProcessKeepsIndex` | every behaviour of `MetaFS!Spec` is one of `EntriesSpec`: workers, fork and unmount do to the index only what it allows |
| `ProcessIndexCorrect` | hence the invariants above hold in the process, with any number of workers |
| `ForkFreezesIndex` | `IndexFrozenByFork`, from the invariant `Forked`: a mounted daemon has no scanner |
| `SafeAfterScan` | `NoCrashAfterScan` |
| `TreeAnswers` | `CalmAnswers`, with the types of the workers |
| `UnlinksWhatWasNamed` | `UnlinkExact`: which source file is removed |
| `NamesAreKept` | `ViewSpec`: metafs implements `MetaView` |

`WalkInv` is what is true of one request whatever the scanner does: which operation
makes which walk, that a walk stays in the tree and is no longer than its path, and
that an entry which `get_file` has returned is of the name asked for. Together with the
index being consistent it gives `UnlinkExact` (names are unique, so that a walk that was
led astray finds nothing) and the refinement. For a request that came in after the scan
(`calm`) `CalmInv` adds `Knows`, that the numbers walked through are those of the
directory asked for and what each call has been made for, and `Told`, what has been
answered. That a directory exists iff a file lies below it is where `TreeUsed` and
`TreeClosed` come in.

### Open files: `HandlesProofs` and `PassthruProofs`

For any number of workers, handles, files and descriptors (`HandlesAssumption`,
`MountAssumption`).

| theorem | states |
|---|---|
| `HandlesProofs!DescriptorsAreKept` | `DescriptorsKept`, the types included |
| `HandlesProofs!ReadersDoSurvive` | `ReadersSurvive` |
| `HandlesProofs!NamesAreUsed` | `NamesSpec`: a file goes and a name is hidden only for a request to unlink it, as `MetaView` allows; not checked by a run |
| `HandlesProofs!PassesRequestsOn` | `ViewSpec`: open files are those of `MountView` |
| `PassthruProofs!DescriptorsAreKept` | `DescriptorsKept`, the types included |
| `PassthruProofs!PassesRequestsOn` | `ViewSpec`: passthrufs implements `MountView` |

`DescriptorsKept` is not inductive. `RequestInv` adds that a handle that is being
opened is not open yet and in nobody else's request, and that one that is being read
or released is open, the latter by nobody else: without it a release could come
twice. `ScannerInv` adds that the scanner's descriptors are open, as no files, and
none of 1, 2 and FUSE's, and what the table is like before the mount; in passthrufs
the directories being listed stand in its place. That the number given out next is
free (`NextFdIsFree`) rests on the least element of a set of numbers. For the
refinements `ViewInv` adds that no read is put beyond the end of `/.config` but by a
seek, that an open file of a name has the descriptor of a file, and that between its
look-up and its end a handler is at the source its path is bound to.

### The scan of fdupes: `FDupesScanProofs`

For every tree with links, every command line, and any limits (`ScanAssumption`).

| theorem | states |
|---|---|
| `MarksAreRight` | `ReadOnlyByPath` |
| `ScanIsExact` | `FoundExactly`, the types included |
| `ScanFindsOnce` | `FoundOnce` |
| `NothingIsReadAgain` | `ScanAdvances`: the stage, the arguments left and the entries left in each open directory, from the outermost in, fall with every step |
| `VariantEnds` | the values of that variant are well ordered, whatever `max_open` is |
| `MarksAgree` | no path is found both read only and not, however it is split between an argument and the names below it: the mark depends on the parts of its directories only |

`StackInv`: the calls that have not returned are those of one path, from the innermost
out. On it stand `ReadOnlyInv` (each call knows whether its path is read only),
`SoundInv` (what is open or found is reached by a walk that the options allow), and
`CoverInv`, which is the converse: every entry a call has read is settled, that is, all
that can be reached from it has been found, or it is the call above. `FreshInv` is for
`FoundOnce`: no file found lies below an entry still to be read. The reference
definition builds walks by length; it is compared with the recursion by induction on
the length (`LeastNumber`: see below). For `NothingIsReadAgain` each call that has not
returned holds finitely many entries (`ScanAssumption`: a directory has finitely many),
and no more calls than descriptors are open at a time, so that the variant has a fixed
length.

### fdupes: `FDupesProofs`

For any files, contents, permissions, limits and checksum, colliding or not
(`FilesAssumption`: files may have any contents of finitely many lengths). Nothing is
assumed of names and marks: an entry may have any number of names, protected or not.

| theorem | states |
|---|---|
| `DuplicatesAreFound` | `MatchesExact`, the types included |
| `FilesAreSorted` | `NoFileTwice` |
| `NoProtectedFileRemoved` | `ReadOnlyKept` |
| `AnswersStayInTheirSet` | `UnaskedKept` |
| `FirstFilesStay` | `FirstPreserved` |
| `NoContentIsLost` | `LastCopyKept` |
| `NoStepIsRepeated` | `VariantFalls`: each step lowers the stage, the files or sizes left, the groups left, or the comparisons or removals left of the group at hand, in this order; only others and an answer after which the prompt is asked again do not |
| `VariantEnds` | the values of that variant are well ordered |

The invariant is in layers, each of which uses those before it.

* `ShapeInv`: the types, and what each place in the program knows of its variables
  (that `names` are the writable files of the group at hand, say).
* `ListInv`: the groups of the scan are single files, the last scanned first.
* `WorkInv`, `DoneInv`: the files of a size are in the queue, the group at hand, the
  files put aside, or a completed group, each in one of them; what is still in the
  queue was scanned before all that was taken from it. `NoFileTwice` and the order of
  the groups follow.
* `TrueInv`: while nobody else writes, the list is what is to be compared, and a
  cached checksum is that of the file, so that equal files cannot differ in it.
* `ClassInv`: completed groups are of one content and of different ones; the group at
  hand is of one content and has met nothing like it among the files put aside; of a
  size that is done, every two files that `byte_match` could compare are together.
* `VariantInv`: for the variant. Neither the comparisons left nor the removals left are
  negative, and no more groups are put aside than were compared, so that the queue does
  shrink.
* `SetsInv`, `ApartInv`, `KeptInv`, `PreservedInv`, `FirstInv`: for the deletion. The groups left are
  the last ones of a size; no entry is in two groups, even if a directory was given
  twice; groups nobody was asked about are as they were compared, and in the one at
  hand only marked files are gone; what an answer preserved is there (`PreservedInv`).

### tidy: `TidyProofs`

For any tree, boxed and edited files among them, any patterns, arguments and number of
runs (`TidyAssumption`).

| theorem | states |
|---|---|
| `FilesAreKept` | `NothingLost`, the types included |
| `LimitIsPassedByOne` | `LimitExceededByOne`: one file more than the limit, never two; not checked by a run |
| `RunsArrange` | `RunArranges` |
| `RerunIsIdle` | `RerunMovesNothing` |
| `RunsAdvance` | `RunAdvances`: each step leaves a run less to do, at first twice the entries and two |
| `OneIsNext` | `file::operator<` always has a file to put first, though it leaves some unordered |

`TreeInv` says why a `rename` replaces nothing: at any time the directories that a
file may come to, or is boxed in, are among those that it had at first (`Proper`), so
that no other file of its name is at the target; and although a run works from a list
made before it moved anything, no other file has come to be where one was found
(`Stale`). `LimitInv` counts: files moved and files
listed are no more than were found. `ListInv` is about a complete run that has passed
over nothing: it has come to the files that are not listed any more. `FillInv` then
says how far the groups of each key are filled by these (`FilledTo`), `IdleInv` that
in an arranged tree the counter of each key stands where the groups do (`CameTo`), so
that each file is left where it is.

That `LimitExceededByOne` needs `NoTwins` was found by its proof: where `rename`
replaces a file, one round changes two places.

### Options: `OptionsProofs`

| theorem | states |
|---|---|
| `IndexIsFresh` | `IndexFresh`, from `AnswerInv`: an answer for a long option sets `index`, one for a letter is a letter that was registered |
| `UsageIsComplete` | `UsageComplete`, the types included |

For `UsageIsComplete` `RegInv` says what registration has come to: the options of a
section are those asked for so far, in their order, the priority of a section is the one
it was given last, and every section with an option has one. What joining (`FlattenSeq`) and
filtering (`Chosen`) do to sequences of any length is proved from how they are defined, by
least counterexample, and that a finite set of sections with a strict order can be sorted
(`Sorted`) likewise.

### Induction

The library's induction theorems take an operator as a parameter, which the provers
used here cannot instantiate. Where a proof goes along a sequence, a path or the
loop that makes `names`, it takes the least number of the set of those for which the
claim fails (`LeastNumber`, which is derived from finite sets being well ordered by
inclusion, or from the finiteness of an interval).

### Model-checked only

* Liveness: `RequestsAnswered`, `EventuallyListed`, `ReadsEnd`, `ScanEnds`,
  `Termination`, `RunsEnd`. The proof system has no rules for fairness (`ENABLED`). Of
  the last three
  the part that is not about fairness is proved: each step lowers a variant whose values
  are well ordered (`VariantEnds`; numbers, for `tidy`); these variants are not checked
  again by a run, since `ScanEnds`, `Termination` and `RunsEnd` fail if a run comes back
  to a state. That a program which is not at its end has a step to take stays with TLC,
  but for the one case that rests on an order (`OneIsNext`).
* `AsMeant`: it compares two folds, over the pieces of a line and over its words, and
  the meaning of a piece is given with it, in the constants.
* `ReadsExact` and `ReadsEnd` of the loops that read.
* The two properties that fail.

## Where the code and its documentation differ

* `tidy --threshold` is documented as the "Maximum files per group"
  (`src/main.cpp:465`); the counters start anew in each run (`src/main.cpp:373`), so
  that a run over a second directory fills groups further. Run `tidy_groups`.
* `options.h:36` says that the value of an option with a flag is stored in the flag
  when the option was seen; it is stored for the long name only, the letter does nothing
  (`src/options.cpp:95`). None of tidy's options has both. Run `options_flag`.

Others, which the models have as the code has them and no run shows as a violation:

* `fdupes -M min` is documented as "at least 'min' bytes" (`src/fdupes.cpp:585`);
  the comparison is strict (`src/fdupes.cpp:229`, `Wanted` in `FDupesScan`);
* `tidy --limit` is documented as "Limit number of files to process"
  (`src/main.cpp:472`); one more is processed (`src/main.cpp:185`), and never two
  (`LimitIsPassedByOne`);
* the help text of fdupes has `-f` and `-m` (`src/fdupes.cpp:581`, `:584`), which the
  string given to `getopt` (`:604`) does not; they are refused (`FDupesScan`);
* the size of `/.config` is a constant of `Getattr` and not the length of its text.

Known limits of the programs that no document denies, and that the models have as
outcomes or leave out:

* metafs skips a directory when there is no descriptor for it
  (`metafs_src/entries_scanner.cpp:73`) and does not try again, so that open files
  decide what is scanned (`SkipDir`);
* fdupes removes by name what it compared before, without looking again
  (`src/fdupes.cpp:332`), removes both names of one file with `-s` or overlapping
  arguments, as its help warns, and asks for ever at the end of its input (`:292`);
  `-R` protects names, so that a file which is found under another name as well may be
  removed (`:271`, `:332`; the scenario `Linked` of `MCFDupes`);
  with `-n` directories whose `st_size` is 0 are passed over (`:220`);
* tidy orders `GROUP_10` before `GROUP_2` (`src/main.cpp:93`), so that a run moves files
  again that agree in size and key where a key has ten groups (`Arranged`); it reads a
  file for ever once a read has failed, and waits for the writer of a FIFO (`:104`-`:112`,
  `Hang`); it replaces one file by another of its name when a pattern sends both to one
  directory, or when one that was edited since it was boxed is in the way (`:292`,
  `NoTwins`); and a `--hash-split` beyond 40 passes over every file (`:119`);
* passthrufs crashes for a root that does not exist (`passthrufs.cpp:59`), shows a
  directory it cannot open as empty (`:276`), and truncates an open file by its path
  (`:158`, no `ftruncate` handler).

## What is not modelled

* metafs: `parse_meta_pattern` and the joining of its parts (the set of layouts a file
  may get is a constant); the plugins' classification (any layout of that set, or
  none); reading the JSON configuration, its text in `/.config`, and logging; offsets
  within source files (`pread` is external).
* fdupes: the crc32 table (any function that may collide); the progress display, and
  sizes and times in the output; which paths `fnmatch` matches is a constant; that a
  directory is renamed or linked anew during the scan; `POSIXLY_CORRECT` is not set.
* tidy: the pattern `%1` with `--hash-split` (the checksum of a file in its directory),
  and patterns that spell `GROUP_` or name a source directory; files that are edited
  while a run is going on; the texts, examples and layout of the usage and manual pages.
* passthrufs: sizes, offsets and attributes; hard links and renames below the root
  (a path may be given another file, which is what they come to for one path).
  The handlers with constant answers are one operation each way.
* logfs: every handler logs its arguments and gives a constant answer; there is no
  state and nothing to check.

## Plan

Of the safety properties that the passing runs check, only `AsMeant` and `ReadsExact` are
not proved. What is left:

1. `ReadsExact` for files of any length, and a variant for the loops of `FDupesReads`,
   from the sequences of what was read.
2. That what `FDupesScan` finds is a scenario of `FDupes`, as a lemma about the two
   modules: `FDupes` takes any names, marks and entries, so that only the types are
   left of it.
3. A variant for the requests of metafs, whose walks end with the path.
4. Shorter proofs: leaves that cite more than they need.
