-------------------------------- MODULE Tidy --------------------------------
(***************************************************************************)
(* tidy (src/main.cpp) moves the files below the directories it is given   *)
(* into directories named after their type and size, a bounded number of   *)
(* them into each GROUP_<n>.                                               *)
(*                                                                         *)
(* It may be run again and again over the same tree, with other arguments, *)
(* and be interrupted at any moment; only the tree outlives a run.         *)
(***************************************************************************)
EXTENDS Naturals, Sequences, Functions, FiniteSetsExt

CONSTANTS
    File,        \* the files there are
    Magic,       \* the type of each file
    SizeOf,      \* the size of each file
    Human,       \* what get_human_size() makes of a size
    DateOf,      \* the day each file was last modified
    Structure,   \* the patterns that may be given with -s, of %m, %z, %d
                 \* and text
    Directory,   \* the directories they make, no source directory
    Expanded,    \* the one a pattern makes of a type, a size and a date
    DirLink,     \* files that are symbolic links to a directory
    Dangling,    \* files that stat() does not find
    Name,        \* the names of files
    NameKey,     \* the lower-case alphanumeric key of a name, as a number
    SourceDir,   \* the directories the files are in at first, as numbers in
                 \* the order of their paths
    NoKey,       \* instead of a key, for the source directories
    OneDigit,    \* the greatest number of a group with one digit
    Inverted,    \* the numbers of groups, the smaller one first, of which
                 \* the paths are in the opposite order, as 2 and 10
    Trees,       \* the trees there may be at first: the file at each place,
                 \* partial functions
    Root,        \* the directories that may be given
    Below,       \* the source directories below each of them
    WholeTree,   \* the root below which all files are, the boxed ones, too
    Args,        \* the command lines
    MaxRuns      \* bound on the number of runs

(* What main() makes of a command line: --dry-run and --disable-group-dir  *)
(* clear a flag, -s sets the pattern, -t and --limit set a number.         *)
CommandLine == [dirs : Seq(Root), structure : Structure, perform_actions : BOOLEAN,
                use_group_dirs : BOOLEAN, threshold : Nat, limit_files : Nat]

(* The directory of a boxed file is what the pattern makes of the file and *)
(* the number of the group; 0 without groups.                              *)
Place == [dir : ({NoKey} \X SourceDir) \cup (Directory \X Nat), name : Name]
FileKey(s, x) == Expanded[s, Magic[x], Human[SizeOf[x]], DateOf[x]]

(* A tree may hold boxed files, and anywhere: tidy was run over it before, *)
(* and the files were edited since.                                        *)
ASSUME TidyAssumption ==
    /\ SourceDir \subseteq Nat
    /\ {SizeOf[f] : f \in File} \subseteq Nat
    /\ {NameKey[n] : n \in Name} \subseteq Nat
    /\ DirLink \cup Dangling \subseteq File
    /\ Expanded \in [Structure \X {Magic[f] : f \in File} \X {Human[SizeOf[f]] : f \in File}
                         \X {DateOf[f] : f \in File} -> Directory]
    /\ NoKey \notin Directory
    /\ OneDigit \in Nat
    /\ Inverted \subseteq Nat \X Nat
    /\ \A o \in Inverted :
        /\ o[1] < o[2] /\ OneDigit < o[2]
        /\ \A m \in (o[1] + 1)..(o[2] - 1) : <<o[1], m>> \in Inverted \/ <<m, o[2]>> \in Inverted
        /\ \A r \in Inverted : o[2] = r[1] => <<o[1], r[2]>> \in Inverted
    /\ \A at \in Trees :
        /\ DOMAIN at \subseteq Place
        /\ IsFiniteSet(DOMAIN at)
        /\ at \in [DOMAIN at -> File]
    /\ WholeTree \in Root /\ Below \in [Root -> SUBSET SourceDir]
    /\ Below[WholeTree] = SourceDir
    /\ Args \subseteq CommandLine
    /\ MaxRuns \in Nat

VARIABLES
    disk,        \* the file at each place, a partial function
    start,       \* the tree before the first run
    runs,        \* the number of runs that were started
    args,        \* the command line of the last one
    pc,
    todo,        \* what readdir() has not returned yet
    files,       \* the files found and not yet boxed
    found,       \* the number of files found
    count_keys,  \* the number of files boxed for each directory
    clean,       \* the run has boxed every file it has come to
    begun        \* the tree as the run has found it

runVars == <<start, runs, args, begun>>
vars == <<disk, runVars, pc, todo, files, found, count_keys, clean>>

----------------------------------------------------------------------------
Boxed(p) == p.dir[1] # NoKey

(* The record of a file that was found: where, below which argument, with  *)
(* which size and of which day.                                            *)
Record(at, p, arg) ==
    [place |-> p, arg |-> arg, size |-> SizeOf[at[p]], date |-> DateOf[at[p]]]
IsBelow(p, root) == IF Boxed(p) THEN root = WholeTree ELSE p.dir[2] \in Below[root]

(* The directory without groups is a prefix of GROUP_1, and GROUP_1 of     *)
(* GROUP_10, which comes before GROUP_2.                                   *)
GroupBefore(m, n) ==
    \/ m < n /\ <<m, n>> \notin Inverted
    \/ n < m /\ <<n, m>> \in Inverted
(* file::operator<.  Size and name decide before the path does.  The paths *)
(* of source directories come first; those of different keys are left      *)
(* unordered.                                                              *)
Ahead(f, g) ==
    \/ f.size > g.size
    \/ f.size = g.size /\ NameKey[f.place.name] < NameKey[g.place.name]
PathBefore(p, q) ==
    \/ ~Boxed(p) /\ Boxed(q)
    \/ ~Boxed(p) /\ ~Boxed(q) /\ p.dir[2] < q.dir[2]
    \/ Boxed(p) /\ p.dir[1] = q.dir[1] /\ GroupBefore(p.dir[2], q.dir[2])
Before(f, g) ==
    \/ Ahead(f, g)
    \/ /\ f.size = g.size /\ NameKey[f.place.name] = NameKey[g.place.name]
       /\ PathBefore(f.place, g.place)

(* Mutant of Group: the counter is incremented first.                      *)
GroupCountedFirst(count) ==
    IF args.use_group_dirs THEN (count + 1) \div args.threshold + 1 ELSE 0
(* The group of the next file, when so many were boxed for its key.        *)
Group(count) == IF args.use_group_dirs THEN count \div args.threshold + 1 ELSE 0
DividesByZero == args.use_group_dirs /\ args.threshold = 0

(* Mutant of KeyOf: the size is left out.                                  *)
KeyOfType(f) ==
    Expanded[args.structure, Magic[disk[f.place]], Min({Human[SizeOf[g]] : g \in File}), f.date]
(* The size and the date were recorded when the file was found; the type   *)
(* is looked at when it is boxed.                                          *)
KeyOf(f) == Expanded[args.structure, Magic[disk[f.place]], Human[f.size], f.date]
Target(f) == [dir |-> <<KeyOf(f), Group(count_keys[KeyOf(f)])>>, name |-> f.place.name]

(* rename(2): a file at the target is replaced.                            *)
Renamed(at, p, q) ==
    [r \in (DOMAIN at \ {p}) \cup {q} |-> IF r = q THEN at[p] ELSE at[r]]

----------------------------------------------------------------------------
Init ==
    /\ disk \in Trees /\ start = disk
    /\ runs = 0 /\ args = <<>>
    /\ pc = "done"
    /\ todo = {} /\ files = {} /\ found = 0
    /\ count_keys = [k \in Directory |-> 0]
    /\ clean = FALSE
    /\ begun = disk

StartRun(a) ==
    /\ pc \in {"done", "stopped", "killed"}
    /\ runs < MaxRuns
    /\ runs' = runs + 1
    /\ args' = a
    /\ pc' = "fetch"
    /\ todo' = UNION {{Record(disk, p, i) : p \in {q \in DOMAIN disk : IsBelow(q, a.dirs[i])}}
                          : i \in DOMAIN a.dirs}
    /\ files' = {} /\ found' = 0
    /\ count_keys' = [k \in Directory |-> 0]
    /\ clean' = TRUE
    /\ begun' = disk
    /\ UNCHANGED <<disk, start>>

LimitPassed == args.limit_files # 0 /\ found > args.limit_files

(* fetchfiles() for one entry; the constructor of file throws when stat()  *)
(* fails, and the file is passed over.                                     *)
FetchFile(f) ==
    /\ pc = "fetch"
    /\ ~LimitPassed
    /\ f \in todo
    /\ \A g \in todo : f.arg <= g.arg
    /\ todo' = todo \ {f}
    /\ IF disk[f.place] \in Dangling
       THEN UNCHANGED <<files, found>>
       ELSE files' = files \cup {f} /\ found' = found + 1
    /\ UNCHANGED <<disk, runVars, pc, count_keys, clean>>

FetchDone ==
    /\ pc = "fetch"
    /\ todo = {} \/ LimitPassed
    /\ pc' = "box"
    /\ UNCHANGED <<disk, runVars, todo, files, found, count_keys, clean>>

(* boxfiles() takes the files in the order of std::sort.                   *)
NextFile(f) ==
    /\ pc = "box"
    /\ f \in files
    /\ \A g \in files : ~Before(g, f)
Exists(f) == f.place \in DOMAIN disk
(* No directory can be read.                                               *)
Unreadable(f) == Exists(f) /\ disk[f.place] \in DirLink
(* The next file, of which the checksum and the type were found.           *)
IsBoxed(f) == NextFile(f) /\ Exists(f) /\ ~Unreadable(f) /\ ~DividesByZero

(* Mutant of BoxFile: the files that are there already are not counted.    *)
BoxFileUncounted(f) ==
    /\ IsBoxed(f)
    /\ files' = files \ {f}
    /\ count_keys' = IF Boxed(f.place) THEN count_keys
                     ELSE [count_keys EXCEPT ![KeyOf(f)] = @ + 1]
    /\ disk' = IF args.perform_actions THEN Renamed(disk, f.place, Target(f)) ELSE disk
    /\ UNCHANGED <<runVars, pc, todo, found, clean>>

(* The file is counted and moved to its group.                             *)
BoxFile(f) ==
    /\ IsBoxed(f)
    /\ files' = files \ {f}
    /\ count_keys' = [count_keys EXCEPT ![KeyOf(f)] = @ + 1]
    /\ disk' = IF args.perform_actions THEN Renamed(disk, f.place, Target(f)) ELSE disk
    /\ UNCHANGED <<runVars, pc, todo, found, clean>>

(* rename() fails: the file is counted and stays.                          *)
RenameFails(f) ==
    /\ IsBoxed(f)
    /\ args.perform_actions /\ Target(f) # f.place
    /\ files' = files \ {f}
    /\ count_keys' = [count_keys EXCEPT ![KeyOf(f)] = @ + 1]
    /\ clean' = FALSE
    /\ UNCHANGED <<disk, runVars, pc, todo, found>>

(* Mutant of SkipFile: the loop does not go on to the next file.           *)
SkipFileAgain(f) ==
    /\ NextFile(f) /\ ~Unreadable(f)
    /\ clean' = FALSE
    /\ UNCHANGED <<disk, runVars, pc, todo, files, found, count_keys>>
(* The type of the file cannot be told: clean_magic() throws and the file  *)
(* is passed over.  A file that was moved already, for an argument that    *)
(* covers it twice, ends here, too, or with a rename() that fails.         *)
SkipFile(f) ==
    /\ NextFile(f) /\ ~Unreadable(f)
    /\ files' = files \ {f}
    /\ clean' = FALSE
    /\ UNCHANGED <<disk, runVars, pc, todo, found, count_keys>>

(* get_sha1(): once a read fails the end of the file is never reached, and *)
(* the loop never left; fopen() waits for a writer of a FIFO.              *)
Hang(f) ==
    /\ NextFile(f) /\ Exists(f)
    /\ pc' = "hung"
    /\ UNCHANGED <<disk, runVars, todo, files, found, count_keys, clean>>

(* count /= threshold, with -t 0.                                          *)
Divide(f) ==
    /\ NextFile(f) /\ Exists(f) /\ ~Unreadable(f) /\ DividesByZero
    /\ pc' = "killed"
    /\ UNCHANGED <<disk, runVars, todo, files, found, count_keys, clean>>

BoxDone ==
    /\ pc = "box"
    /\ files = {}
    /\ pc' = "done"
    /\ UNCHANGED <<disk, runVars, todo, files, found, count_keys, clean>>

(* mkdir() fails and tidy exits, or it is killed.                          *)
Stop ==
    /\ pc \in {"fetch", "box", "hung"}
    /\ pc' = "stopped"
    /\ UNCHANGED <<disk, runVars, todo, files, found, count_keys, clean>>

Program ==
    \/ \E f \in todo : FetchFile(f)
    \/ FetchDone
    \/ \E f \in files : BoxFile(f) \/ RenameFails(f) \/ SkipFile(f) \/ Hang(f) \/ Divide(f)
    \/ BoxDone

Next == Program \/ Stop \/ \E a \in Args : StartRun(a)

Spec == Init /\ [][Next]_vars
FairSpec == Spec /\ WF_vars(Program)
----------------------------------------------------------------------------
(* Type correctness, checked with NothingLost.                             *)
TypeOK ==
    /\ DOMAIN disk \subseteq Place
    /\ Range(disk) \subseteq File
    /\ start \in Trees
    /\ runs \in 0..MaxRuns /\ args \in Args \cup {<<>>}
    /\ pc \in {"fetch", "box", "done", "stopped", "hung", "killed"}
    /\ \A f \in todo \cup files : f.place \in Place /\ f.arg \in Nat /\ f.size \in Nat
    /\ found \in Nat
    /\ count_keys \in [Directory -> Nat]
    /\ clean \in BOOLEAN
    /\ DOMAIN begun \subseteq Place

(* The directories a file may come to be in, by one or the other of the    *)
(* patterns that are given, and the one a boxed file is in.  Files of one  *)
(* name may meet in one group only if they have one of them in common.     *)
Structures == {a.structure : a \in Args}
Homes(at, p) == ({FileKey(s, at[p]) : s \in Structures} \cup {p.dir[1]}) \ {NoKey}
NoTwins ==
    \A p, q \in DOMAIN start :
        p # q /\ p.name = q.name => Homes(start, p) \cap Homes(start, q) = {}

(* tidy loses no file, however often it is run over what earlier runs have *)
(* moved, with one pattern or the other, interrupted, given a directory    *)
(* twice, or unable to move some: rename() never replaces a file, unless a *)
(* pattern sends one to a directory where another of its name is, or is    *)
(* sent, too.                                                              *)
NothingLost ==
    /\ TypeOK
    /\ NoTwins => Range(disk) = Range(start)

(* A complete run over the tree.                                           *)
Complete ==
    /\ runs > 0
    /\ args.dirs = <<WholeTree>> /\ args.limit_files = 0
    /\ args.perform_actions /\ args.use_group_dirs
    /\ NoTwins

(* The files of each key fill the groups one after the other, in the order *)
(* of their sizes and names.                                               *)
Movable(at) == {p \in DOMAIN at : at[p] \notin Dangling \cup DirLink}
InGroup(at, k, g) == {p \in Movable(at) : p.dir = <<k, g>>}
Filled(at) ==
    /\ \A p \in Movable(at) :
        LET k == p.dir[1]
            g == p.dir[2]
        IN  /\ Boxed(p) /\ k = FileKey(args.structure, at[p]) /\ g > 0
            /\ Cardinality(InGroup(at, k, g)) <= args.threshold
            /\ g > 1 => Cardinality(InGroup(at, k, g - 1)) = args.threshold
    /\ \A p, q \in Movable(at) :
        p.dir[1] = q.dir[1] /\ Ahead(Record(at, p, 1), Record(at, q, 1)) => p.dir[2] <= q.dir[2]
(* And files that agree in size and name are in the order of their paths,  *)
(* so that std::sort finds all of them as they are.                        *)
Arranged(at) ==
    /\ Filled(at)
    /\ \A p, q \in Movable(at) :
        p.dir[1] = q.dir[1] /\ Before(Record(at, p, 1), Record(at, q, 1)) => p.dir[2] <= q.dir[2]

(* A run over the whole tree that meets no failure leaves no file where it *)
(* was found and no group but the last one of a key below the maximum,     *)
(* whatever earlier runs have left behind.  With no more groups than nine, *)
(* it leaves every file where the next run would put it.                   *)
RunArranges ==
    pc = "done" /\ Complete /\ clean =>
        /\ Filled(disk)
        /\ (\A p \in Movable(disk) : p.dir[2] <= OneDigit) => Arranged(disk)

(* Running tidy again over a tree that is arranged moves nothing, wherever *)
(* it is stopped, as long as it passes over no file; a dry run moves       *)
(* nothing at all.  A tree with files that agree in size and name, one in  *)
(* GROUP_2 and one in GROUP_10, is not arranged: std::sort comes to the    *)
(* latter first.                                                           *)
RerunMovesNothing ==
    \/ Complete /\ clean /\ Arranged(begun)
    \/ runs > 0 /\ ~args.perform_actions
    => disk = begun

(* A run never touches more files than the limit and one, however many     *)
(* directories it is given and however they overlap; as long as rename()   *)
(* replaces none, which touches a second one.                              *)
Moved == {p \in DOMAIN begun : p \notin DOMAIN disk \/ disk[p] # begun[p]}
LimitExceededByOne ==
    runs > 0 /\ args.limit_files # 0 /\ NoTwins =>
        Cardinality(Moved) <= args.limit_files + 1

(* What a run has still to do: two steps for each entry that was not read, *)
(* one for each file found, and the ends of the two loops.                 *)
StepsLeft ==
    CASE pc = "fetch" -> 2 * Cardinality(todo) + Cardinality(files) + 2
      [] pc = "box" -> Cardinality(files) + 1
      [] pc \in {"done", "stopped", "hung", "killed"} -> 0

(* Each step of a run leaves it less to do, so that it takes no more steps *)
(* than twice the entries and two; it is killed only for -t 0.             *)
RunAdvances ==
    [][/\ Program => StepsLeft' \in 0..(StepsLeft - 1)
       /\ pc' = "killed" => args'.threshold = 0]_vars

(* Every run ends: whatever is passed over, each file is come to once and  *)
(* the loops over them stop, except in get_sha1() for a file that cannot   *)
(* be read; it is killed only for -t 0.                                    *)
RunsEnd ==
    pc = "fetch" ~> \/ pc \in {"done", "stopped"}
                    \/ pc = "hung" /\ \E f \in files : Exists(f)
                    \/ pc = "killed" /\ args.threshold = 0

(* src/main.cpp:465: "Maximum files per group in organisation structure".  *)
(* The files that an earlier run has put into a group are not counted.     *)
GroupMaximum ==
    pc = "done" /\ runs > 0 /\ args.use_group_dirs =>
        \A p \in DOMAIN disk :
            Boxed(p) => Cardinality({q \in DOMAIN disk : q.dir = p.dir}) <= args.threshold
=============================================================================
