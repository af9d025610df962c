------------------------------ MODULE FDupesScan -------------------------------
(***************************************************************************)
(* How fdupes (src/fdupes.cpp) comes by its files: main() takes the        *)
(* options, scandir() descends into the directories it is given.  What it  *)
(* finds is what module FDupes compares and removes.                       *)
(*                                                                         *)
(* The files do not change meanwhile, but for an entry that is gone when   *)
(* stat() asks for it.                                                     *)
(***************************************************************************)
EXTENDS Integers, Sequences, FiniteSets, SequencesExt

CONSTANTS
    Name,        \* names of entries, and the arguments
    Parts,       \* what tokenize() makes of a name: its parts between / and \
    Node,        \* the files and directories there are
    Kind,        \* "file", "dir", "other", or "none", where a link leads nowhere
    SizeOf,      \* st_size of each, directories included
    Entries,     \* the entries of each directory: name, whether it is a link,
                 \* and the node it is or leads to
    Given,       \* the directory each argument names
    Glob,        \* the patterns of -i
    Matches(_, _),  \* what fnmatch() says of a pattern and a path
    MaxLinks,    \* links that may be passed on one path, else ELOOP
    Invocations  \* the command lines, and the descriptors there are

(* opts: the options in the order of the command line, each with its       *)
(* argument; dirs: the other arguments; max_open: how many directories     *)
(* may be open at a time.                                                  *)
Flags == {"r", "s", "n", "d", "N", "q", "1", "S"}
Option(o) ==
    \/ o.opt \in Flags \cup {"h", "v", "f", "m"}
    \/ o.opt = "M" /\ o.arg \in Int
    \/ o.opt = "R" /\ o.arg \in UNION {Parts[n] : n \in Name}
    \/ o.opt = "i" /\ o.arg \in Glob

(* A directory has no two entries of one name.                             *)
ASSUME ScanAssumption ==
    /\ Kind \in [Node -> {"file", "dir", "other", "none"}]
    /\ SizeOf \in [Node -> Nat]
    /\ \A d \in Node :
          /\ Entries[d] \subseteq [name : Name, link : BOOLEAN, node : Node]
          /\ \A e, f \in Entries[d] : e.name = f.name => e = f
          /\ Kind[d] # "dir" => Entries[d] = {}
          /\ IsFiniteSet(Entries[d])
    /\ DOMAIN Given \subseteq Name
    /\ \A d \in DOMAIN Given : Given[d] \in Node
    /\ MaxLinks \in Nat
    /\ \A i \in Invocations :
          /\ i.opts \in Seq(ToSet(i.opts)) /\ \A j \in DOMAIN i.opts : Option(i.opts[j])
          /\ i.dirs \in Seq(DOMAIN Given) /\ i.max_open \in Nat

VARIABLES
    argv,        \* the invocation
    pc,
    optind,      \* how far getopt() has come, then how far main() has
    flags, min_size, read_only, globs,  \* what the options have set
    calls,       \* the calls of scandir() that have not returned, the
                 \* innermost first
    filelist,    \* the files found: path, node, and whether below a -R name
    filecount, read_only_file_count,
    missed       \* an entry was gone, or a directory not to be opened

settings == <<flags, min_size, read_only, globs>>
found == <<filelist, filecount, read_only_file_count>>
vars == <<argv, pc, optind, settings, calls, found, missed>>

----------------------------------------------------------------------------
is_readonly(name) == Parts[name] \cap read_only # {}
glob_include(path) == globs = {} \/ \E g \in globs : Matches(g, path)

Flag(f) == f \in flags
TopCall == Head(calls)

(* The options, from left to right.  -f and -m, which the help text has,   *)
(* too, are unknown to getopt().                                           *)
TakeOption ==
    /\ pc = "options"
    /\ optind <= Len(argv.opts)
    /\ LET o == argv.opts[optind] IN
        /\ flags' = IF o.opt \in Flags THEN flags \cup {o.opt} ELSE flags
        /\ min_size' = IF o.opt = "M" THEN o.arg ELSE min_size
        /\ read_only' = IF o.opt = "R" THEN read_only \cup {o.arg} ELSE read_only
        /\ globs' = IF o.opt = "i" THEN globs \cup {o.arg} ELSE globs
        /\ pc' = IF o.opt \in {"h", "v", "f", "m"} THEN "exited" ELSE pc
    /\ optind' = optind + 1
    /\ UNCHANGED <<argv, calls, found, missed>>

OptionsDone ==
    /\ pc = "options"
    /\ optind > Len(argv.opts)
    /\ pc' = IF argv.dirs = <<>> THEN "exited" ELSE "scan"
    /\ optind' = 1
    /\ UNCHANGED <<argv, settings, calls, found, missed>>

----------------------------------------------------------------------------
(* opendir() fails when as many directories are open already, and for what *)
(* is none.                                                                *)
CanOpen(node) == Kind[node] = "dir" /\ Len(calls) < argv.max_open
Call(path, node, links, ro) ==
    [path |-> path, dir |-> node, links |-> links, read_only |-> ro, left |-> Entries[node]]

ScanArgument ==
    /\ pc = "scan" /\ calls = <<>>
    /\ optind <= Len(argv.dirs)
    /\ LET name == argv.dirs[optind] IN
        IF CanOpen(Given[name])
        THEN /\ calls' = <<Call(<<name>>, Given[name], 0, is_readonly(name))>>
             /\ UNCHANGED missed
        ELSE missed' = TRUE /\ UNCHANGED calls
    /\ optind' = optind + 1
    /\ UNCHANGED <<argv, pc, settings, found>>

(* One entry that readdir() returns, in any order.                         *)
Reads(e) == pc = "scan" /\ calls # <<>> /\ e \in TopCall.left
Left(e) == <<[TopCall EXCEPT !.left = @ \ {e}]>> \o Tail(calls)
(* The path is kept as what it is put together from: the argument and the  *)
(* names below it.                                                         *)
PathOf(e) == Append(TopCall.path, e.name)
LinksTo(e) == TopCall.links + (IF e.link THEN 1 ELSE 0)

(* stat() fails for a link that leads nowhere, after too many links, and   *)
(* for an entry that is gone by now.                                       *)
Found(e) == Kind[e.node] # "none" /\ LinksTo(e) <= MaxLinks
Excluded(e) == SizeOf[e.node] = 0 /\ Flag("n")

(* Mutant of Descends: links to directories are followed without -s.       *)
DescendsLinks(e) == Found(e) /\ ~Excluded(e) /\ Kind[e.node] = "dir" /\ Flag("r")
Descends(e) ==
    /\ Found(e) /\ ~Excluded(e)
    /\ Kind[e.node] = "dir"
    /\ Flag("r") /\ (Flag("s") \/ ~e.link)

(* Mutant of Listed: the least size is one of those looked for.            *)
ListedLeast(e) ==
    /\ Found(e) /\ ~Excluded(e)
    /\ Kind[e.node] # "dir"
    /\ SizeOf[e.node] >= min_size
    /\ IF e.link THEN Flag("s") ELSE Kind[e.node] = "file"
    /\ glob_include(PathOf(e))
Listed(e) ==
    /\ Found(e) /\ ~Excluded(e)
    /\ Kind[e.node] # "dir"
    /\ SizeOf[e.node] > min_size
    /\ IF e.link THEN Flag("s") ELSE Kind[e.node] = "file"
    /\ glob_include(PathOf(e))

(* Mutant of Descend: a directory is looked at for itself only.            *)
DescendAnew(e) ==
    /\ Reads(e) /\ Descends(e) /\ CanOpen(e.node)
    /\ calls' = <<Call(PathOf(e), e.node, LinksTo(e), is_readonly(e.name))>> \o Left(e)
    /\ UNCHANGED <<argv, pc, optind, settings, found, missed>>
Descend(e) ==
    /\ Reads(e) /\ Descends(e) /\ CanOpen(e.node)
    /\ calls' = <<Call(PathOf(e), e.node, LinksTo(e), TopCall.read_only \/ is_readonly(e.name))>>
                    \o Left(e)
    /\ UNCHANGED <<argv, pc, optind, settings, found, missed>>

CannotDescend(e) ==
    /\ Reads(e) /\ Descends(e) /\ ~CanOpen(e.node)
    /\ calls' = Left(e)
    /\ missed' = TRUE
    /\ UNCHANGED <<argv, pc, optind, settings, found>>

ListFile(e) ==
    /\ Reads(e) /\ Listed(e)
    /\ calls' = Left(e)
    /\ filelist' = filelist \cup {[path |-> PathOf(e), node |-> e.node,
                                   read_only |-> TopCall.read_only]}
    /\ filecount' = filecount + 1
    /\ read_only_file_count' = read_only_file_count + (IF TopCall.read_only THEN 1 ELSE 0)
    /\ UNCHANGED <<argv, pc, optind, settings, missed>>

PassOver(e) ==
    /\ Reads(e) /\ ~Descends(e) /\ ~Listed(e)
    /\ calls' = Left(e)
    /\ UNCHANGED <<argv, pc, optind, settings, found, missed>>

Gone(e) ==
    /\ Reads(e)
    /\ calls' = Left(e)
    /\ missed' = TRUE
    /\ UNCHANGED <<argv, pc, optind, settings, found>>

(* Mutant of Return: the directory is begun again.                         *)
ReturnAgain ==
    /\ pc = "scan" /\ calls # <<>>
    /\ TopCall.left = {}
    /\ calls' = <<[TopCall EXCEPT !.left = Entries[TopCall.dir]]>> \o Tail(calls)
    /\ UNCHANGED <<argv, pc, optind, settings, found, missed>>
Return ==
    /\ pc = "scan" /\ calls # <<>>
    /\ TopCall.left = {}
    /\ calls' = Tail(calls)
    /\ UNCHANGED <<argv, pc, optind, settings, found, missed>>

ScanDone ==
    /\ pc = "scan" /\ calls = <<>>
    /\ optind > Len(argv.dirs)
    /\ pc' = "match"
    /\ UNCHANGED <<argv, optind, settings, calls, found, missed>>

Init ==
    /\ argv \in Invocations
    /\ pc = "options" /\ optind = 1
    /\ flags = {} /\ min_size = 0 /\ read_only = {} /\ globs = {}
    /\ calls = <<>>
    /\ filelist = {} /\ filecount = 0 /\ read_only_file_count = 0
    /\ missed = FALSE

Next ==
    \/ TakeOption \/ OptionsDone \/ ScanArgument \/ Return \/ ScanDone
    \/ \E e \in UNION {Entries[d] : d \in Node} :
          Descend(e) \/ CannotDescend(e) \/ ListFile(e) \/ PassOver(e) \/ Gone(e)

Spec == Init /\ [][Next]_vars
FairSpec == Spec /\ WF_vars(Next)
----------------------------------------------------------------------------
(* Type correctness, checked with FoundExactly.                            *)
TypeOK ==
    /\ argv \in Invocations
    /\ pc \in {"options", "scan", "match", "exited"}
    /\ optind \in Nat
    /\ flags \subseteq Flags /\ min_size \in Int /\ globs \subseteq Glob
    /\ read_only \subseteq UNION {Parts[n] : n \in Name}
    /\ Len(calls) <= argv.max_open
    /\ \A i \in DOMAIN calls :
          /\ Len(calls[i].path) = Len(calls) - i + 1
          /\ calls[i].left \subseteq Entries[calls[i].dir]
          /\ calls[i].links \in 0..MaxLinks
    /\ \A f \in filelist : Len(f.path) \in 2..(argv.max_open + 1) /\ f.node \in Node
    /\ {filecount, read_only_file_count} \subseteq Nat
    /\ missed \in BOOLEAN

(* src/fdupes.cpp:575: a directory with a component that matches a name    *)
(* given with -R is read only.  The program never looks at a whole path    *)
(* but at that of the argument; the mark is handed down with the recursion.*)
ReadOnlyByPath ==
    \A f \in filelist :
        f.read_only <=> \E i \in 1..(Len(f.path) - 1) : is_readonly(f.path[i])

(* The reference definition of the files that may be found: the walks of n *)
(* names from an argument, entry by entry, through directories that may be *)
(* descended to.                                                           *)
Passable(w) ==
    \/ Len(w.path) = 1
    \/ /\ Flag("r") /\ (Flag("s") \/ ~w.link)
       /\ Kind[w.node] = "dir" /\ w.links <= MaxLinks
       /\ SizeOf[w.node] = 0 => ~Flag("n")
Longer(w, e) ==
    [path |-> Append(w.path, e.name), node |-> e.node, link |-> e.link,
     links |-> w.links + (IF e.link THEN 1 ELSE 0)]
ArgWalk(d) == [path |-> <<d>>, node |-> Given[d], link |-> FALSE, links |-> 0]
WalksOf[n \in 1..(argv.max_open + 1)] ==
    IF n = 1 THEN {ArgWalk(d) : d \in ToSet(argv.dirs)}
    ELSE UNION {{Longer(w, e) : e \in Entries[w.node]} :
                   w \in {v \in WalksOf[n - 1] : Passable(v)}}
Walks == UNION {WalksOf[n] : n \in 2..(argv.max_open + 1)}
Wanted(w) ==
    /\ Kind[w.node] \in (IF w.link THEN {"file", "other"} ELSE {"file"})
    /\ w.links <= MaxLinks /\ (Flag("s") \/ ~w.link)
    /\ SizeOf[w.node] > min_size
    /\ SizeOf[w.node] = 0 => ~Flag("n")
    /\ glob_include(w.path)

(* scandir() finds nothing but wanted files, and all of them unless one    *)
(* was gone or a directory could not be opened: whatever links lead up and *)
(* down, and however the options were given.                               *)
FoundExactly ==
    /\ TypeOK
    /\ pc = "match" =>
        LET paths == {f.path : f \in filelist}
            wanted == {w.path : w \in {v \in Walks : Wanted(v)}}
        IN  IF missed THEN paths \subseteq wanted ELSE paths = wanted

(* Each file is found once, and under one name only, as deletefiles() has  *)
(* to assume (src/fdupes.cpp:588-593), unless it has hard links, links are *)
(* followed, or a directory is given more than once, itself or below       *)
(* another.                                                                *)
NoHardLinks ==
    \A c, d \in Node : \A e \in Entries[c], f \in Entries[d] :
        e.node = f.node /\ ~e.link /\ ~f.link => c = d /\ e = f
Apart ==
    /\ \A i, j \in DOMAIN argv.dirs : Given[argv.dirs[i]] = Given[argv.dirs[j]] => i = j
    /\ \A w \in Walks : Passable(w) => w.node \notin {Given[d] : d \in ToSet(argv.dirs)}
FoundOnce ==
    pc = "match" /\ NoHardLinks /\ Apart /\ ~Flag("s") =>
        /\ filecount = Cardinality(filelist)
        /\ \A f, g \in filelist : f.node = g.node => f = g

(* What there is still to do, the most significant first: the stage; the   *)
(* arguments; then, from the outermost call of scandir() in, the entries   *)
(* that the call has not read, and its return.                             *)
StageLeft == CASE pc = "options" -> 2 [] pc = "scan" -> 1 [] pc \in {"match", "exited"} -> 0
ArgumentsLeft ==
    CASE pc = "options" -> Len(argv.opts) + 1 - optind
      [] pc = "scan" -> Len(argv.dirs) + 1 - optind
      [] pc \in {"match", "exited"} -> 0
EntriesLeft(depth) ==
    IF depth > Len(calls) THEN 0 ELSE Cardinality(calls[Len(calls) + 1 - depth].left) + 1
Variant ==
    [j \in 1..(argv.max_open + 2) |->
        IF j = 1 THEN StageLeft ELSE IF j = 2 THEN ArgumentsLeft ELSE EntriesLeft(j - 2)]
Variants(n) == [1..n -> Nat]
Below(v, w, n) ==
    /\ {v, w} \subseteq Variants(n)
    /\ \E j \in 1..n : v[j] < w[j] /\ \A i \in 1..(j - 1) : v[i] = w[i]

(* Every step brings the scan nearer to its end: no call reads an entry    *)
(* twice or outlives its entries, and what a call begins below it is       *)
(* bounded by the descriptors, though its links lead back up.              *)
ScanAdvances == [][Below(Variant', Variant, argv.max_open + 2)]_vars

(* The scan ends, whatever links there are: a path that goes round in a    *)
(* circle of them meets ELOOP, or the end of the descriptors.              *)
ScanEnds == <>(pc \in {"match", "exited"})
=============================================================================
