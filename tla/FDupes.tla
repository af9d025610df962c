------------------------------- MODULE FDupes -------------------------------
(***************************************************************************)
(* fdupes (src/fdupes.cpp): the files found are sorted into groups of      *)
(* equal content; then the groups are printed, or all but the preserved    *)
(* files of each group removed, without asking (-N) or as the user answers.*)
(*                                                                         *)
(* Other programs may rewrite or remove files at any moment.  The loops    *)
(* that read are one step each here, after FDupesContents as long as nobody*)
(* writes, and taken apart in module FDupesReads.                          *)
(***************************************************************************)
EXTENDS FDupesContents, FiniteSets, SequencesExt

CONSTANTS
    Entry,        \* the directory entries of files
    Content,      \* the contents a file may have
    Gone,         \* the content of an entry that does not exist
    Checksum,     \* the checksums there are
    Quit, All, None, \* the words of an answer
    MaxTokens,    \* bound on the words and numbers in one answer
    Scenarios     \* the invocations, and the systems they meet

(* found          the files scandir() comes across, in its order: the entry *)
(*                that the name leads to, and whether a component of the   *)
(*                name was given with -R; a directory that is reached by a *)
(*                link (-s) or given in two spellings has two names for an *)
(*                entry, of which one may be read only and the other not   *)
(* contents       the contents they may have                               *)
(* unreadable     the entries that fopen() refuses                         *)
(* min_size, exclude_empty, delete, prompt     -M, -n, -d, -d without -N   *)
(* max_open       the files the process may have open besides the standard *)
(*                ones                                                     *)
(* max_writes     bound on what the other programs do                      *)
Scenario ==
    [found : Seq([entry : Entry, read_only : BOOLEAN]),
     contents : SUBSET Content, unreadable : SUBSET Entry,
     min_size : Int, exclude_empty : BOOLEAN, delete : BOOLEAN, prompt : BOOLEAN,
     max_open : Nat, max_writes : Nat]

ASSUME FilesAssumption ==
    /\ Scenarios \subseteq Scenario
    /\ \A c \in Content : c \in Seq(ToSet(c))
    /\ IsFiniteSet({Len(c) : c \in Content})
    /\ Gone \notin Content
    /\ MaxPartial \in Nat \ {0}
    /\ MaxTokens \in Nat

VARIABLES
    scenario,     \* the one at hand: argv, and the globals main() sets from it
    content,      \* what is on the disk
    writes,       \* how often another program has changed it
    pc,
    scanned,      \* number of files scandir() has looked at
    size,         \* newfile.size of each file, recorded by scandir()
    filelist,     \* for each size the groups of that size
    next_filelist,\* the same, of the groups that build_matches() has completed
    sizes,        \* the sizes the loop over filelist has still to look at
    cursize,      \* the size it is looking at
    queue, cur_group, next_queue,  \* local variables of build_matches()
    b,            \* the position of grp_B_it in queue
    crcpartial, crcfull,           \* the cached checksums of each file
    leaked,       \* the number of files byte_match() has left open
    sets,         \* the groups of that size still to be printed or deleted
    names, erase, \* local variables of deletefiles()
    x,            \* the position in names of its last loop
    preserved     \* the files that answers were to preserve, for UnaskedKept

matchVars == <<sizes, cursize, queue, cur_group, next_queue, b, crcpartial, crcfull, leaked>>
deleteVars == <<sets, names, erase, x>>
vars == <<scenario, content, writes, pc, scanned, size, filelist, next_filelist,
          matchVars, deleteVars, preserved>>

----------------------------------------------------------------------------
Found == scenario.found
Unreadable == scenario.unreadable
MinSize == scenario.min_size
ExcludeEmpty == scenario.exclude_empty
Prompt == scenario.prompt

Entries == {Found[i].entry : i \in DOMAIN Found}
(* A file_t is the position in Found it was read from.                     *)
File == 1..Len(Found)
EntryOf(f) == Found[f].entry
ReadOnly(f) == Found[f].read_only

Size == {Len(c) : c \in Content}
Exists(p) == content[p] # Gone
Readable(p) == Exists(p) /\ p \notin Unreadable

(* fopen() finds a descriptor for n more files.                            *)
CanOpen(n) == leaked + n <= scenario.max_open

(* What a read makes of a file while nobody has written to any; after that *)
(* the units may be of different contents, and it may give anything.       *)
AnyChecksum == {Invalid} \cup {<<k>> : k \in Checksum}
Outcomes(exact, any) == IF writes = 0 THEN {exact} ELSE any

PartialCrc(f) ==
    IF CanOpen(1) /\ Readable(EntryOf(f)) THEN PartialOf(content[EntryOf(f)], size[f])
    ELSE Invalid
FullCrc(f) ==
    IF CanOpen(1) /\ Readable(EntryOf(f)) THEN FullOf(content[EntryOf(f)], size[f])
    ELSE Invalid
BothOpen(f, g) == CanOpen(2) /\ Readable(EntryOf(f)) /\ Readable(EntryOf(g))
(* Mutant of ByteMatch: equal checksums are taken for equal content.       *)
CrcMatch(f, g) == BothOpen(f, g)
ByteMatch(f, g) ==
    BothOpen(f, g) /\ MatchOf(content[EntryOf(f)], content[EntryOf(g)], size[f])

----------------------------------------------------------------------------
Init ==
    /\ scenario \in Scenarios
    /\ content \in [Entries -> scenario.contents]
    /\ writes = 0
    /\ pc = "scan"
    /\ scanned = 0
    /\ size = [f \in File |-> 0]
    /\ filelist = [s \in Size |-> <<>>]
    /\ next_filelist = [s \in Size |-> <<>>]
    /\ sizes = {}
    /\ cursize = 0
    /\ queue = <<>> /\ cur_group = <<>> /\ next_queue = <<>>
    /\ b = 0
    /\ crcpartial = [f \in File |-> Invalid]
    /\ crcfull = [f \in File |-> Invalid]
    /\ leaked = 0
    /\ sets = <<>> /\ names = <<>> /\ erase = <<>>
    /\ x = 0
    /\ preserved = {}

(* scandir(): a file that stat() does not find, an empty one with -n and a *)
(* small one are passed over; a new group goes to the front.               *)
ScanFile ==
    /\ pc = "scan"
    /\ scanned < Len(Found)
    /\ scanned' = scanned + 1
    /\ LET f == scanned + 1
           c == content[EntryOf(f)]
       IN  IF c # Gone /\ ~(Len(c) = 0 /\ ExcludeEmpty) /\ Len(c) > MinSize
           THEN /\ size' = [size EXCEPT ![f] = Len(c)]
                /\ filelist' = [filelist EXCEPT ![Len(c)] = <<<<f>>>> \o @]
           ELSE UNCHANGED <<size, filelist>>
    /\ UNCHANGED <<content, writes, pc, next_filelist, matchVars, deleteVars>>

StartMatching ==
    /\ pc = "scan"
    /\ scanned = Len(Found)
    /\ pc' = "size"
    /\ sizes' = Size
    /\ UNCHANGED <<content, writes, scanned, size, filelist, next_filelist, cursize,
                   queue, cur_group, next_queue, b, crcpartial, crcfull, leaked, deleteVars>>

(* build_matches(): from the largest size down; a lone file has no match.  *)
TakeSize ==
    /\ pc = "size"
    /\ \E s \in sizes :
        /\ \A t \in sizes : t <= s
        /\ sizes' = sizes \ {s}
        /\ IF Len(filelist[s]) <= 1
           THEN UNCHANGED <<pc, cursize, queue>>
           ELSE pc' = "head" /\ cursize' = s /\ queue' = filelist[s]
    /\ UNCHANGED <<content, writes, scanned, size, filelist, next_filelist,
                   cur_group, next_queue, b, crcpartial, crcfull, leaked, deleteVars>>

TakeHead ==
    /\ pc = "head"
    /\ queue # <<>>
    /\ pc' = "compare"
    /\ cur_group' = Head(queue)
    /\ next_queue' = <<>>
    /\ b' = 2
    /\ UNCHANGED <<content, writes, scanned, size, filelist, next_filelist, sizes,
                   cursize, queue, crcpartial, crcfull, leaked, deleteVars>>

SizeDone ==
    /\ pc = "head"
    /\ queue = <<>>
    /\ pc' = "size"
    /\ UNCHANGED <<content, writes, scanned, size, filelist, next_filelist,
                   matchVars, deleteVars>>

(* groups_match() compares the first file of each group.                   *)
FileA == Head(cur_group)
FileB == Head(queue[b])

(* Mutant of Accept: the group is appended.                                *)
AcceptLast == cur_group' = cur_group \o queue[b] /\ UNCHANGED next_queue
Accept == cur_group' = queue[b] \o cur_group /\ UNCHANGED next_queue
Reject == next_queue' = Append(next_queue, queue[b]) /\ UNCHANGED cur_group
NextB == b' = b + 1 /\ pc' = "compare"

Checked(crc, f, g, gen) ==
    [h \in File |-> IF h \in {f, g} /\ crc[h] = Invalid THEN gen[h] ELSE crc[h]]

ComparePartial ==
    /\ pc = "compare"
    /\ b <= Len(queue)
    /\ IF size[FileA] = 0
       THEN Accept /\ NextB /\ UNCHANGED <<crcpartial, crcfull>>
       ELSE \E gen \in Outcomes([h \in File |-> PartialCrc(h)],
                                 [{FileA, FileB} -> AnyChecksum]) :
            LET partial == Checked(crcpartial, FileA, FileB, gen) IN
            /\ crcpartial' = partial
            /\ crcfull' = [h \in File |->
                              IF size[h] <= MaxPartial /\ partial[h] # crcpartial[h]
                              THEN partial[h] ELSE crcfull[h]]
            /\ IF partial[FileA] = Invalid \/ partial[FileA] # partial[FileB]
               THEN Reject /\ NextB
               ELSE pc' = "full" /\ UNCHANGED <<cur_group, next_queue, b>>
    /\ UNCHANGED <<content, writes, scanned, size, filelist, next_filelist, sizes,
                   cursize, queue, leaked, deleteVars>>

(* Two checksums that are both invalid are equal.                          *)
CompareFull ==
    /\ pc = "full"
    /\ \E gen \in Outcomes([h \in File |-> FullCrc(h)], [{FileA, FileB} -> AnyChecksum]) :
       LET full == Checked(crcfull, FileA, FileB, gen) IN
        /\ crcfull' = full
        /\ IF full[FileA] # full[FileB]
           THEN Reject /\ NextB
           ELSE pc' = "bytes" /\ UNCHANGED <<cur_group, next_queue, b>>
    /\ UNCHANGED <<content, writes, scanned, size, filelist, next_filelist, sizes,
                   cursize, queue, crcpartial, leaked, deleteVars>>

(* Files that differ are left open.                                        *)
CompareBytes ==
    /\ pc = "bytes"
    /\ \E opened \in Outcomes(BothOpen(FileA, FileB), {CanOpen(2), FALSE}) :
       \E same \in Outcomes(ByteMatch(FileA, FileB), {opened, FALSE}) :
        IF same
        THEN Accept /\ UNCHANGED leaked
        ELSE Reject /\ leaked' = IF opened THEN leaked + 2 ELSE leaked
    /\ NextB
    /\ UNCHANGED <<content, writes, scanned, size, filelist, next_filelist, sizes,
                   cursize, queue, crcpartial, crcfull, deleteVars>>

(* Mutants of GroupDone: those that matched stay in the queue; nothing     *)
(* leaves it.                                                              *)
GroupDoneKeepingMatched ==
    /\ pc = "compare"
    /\ b > Len(queue)
    /\ pc' = "head"
    /\ queue' = Tail(queue)
    /\ next_filelist' = IF Len(cur_group) > 1
                        THEN [next_filelist EXCEPT ![cursize] = Append(@, cur_group)]
                        ELSE next_filelist
    /\ UNCHANGED <<content, writes, scanned, size, filelist, sizes, cursize,
                   cur_group, next_queue, b, crcpartial, crcfull, leaked, deleteVars>>
GroupDoneAgain ==
    /\ pc = "compare"
    /\ b > Len(queue)
    /\ pc' = "head"
    /\ UNCHANGED <<content, writes, scanned, size, filelist, next_filelist,
                   matchVars, deleteVars>>

(* The group is complete; those that did not match are the next queue.     *)
GroupDone ==
    /\ pc = "compare"
    /\ b > Len(queue)
    /\ pc' = "head"
    /\ queue' = next_queue
    /\ next_filelist' = IF Len(cur_group) > 1
                        THEN [next_filelist EXCEPT ![cursize] = Append(@, cur_group)]
                        ELSE next_filelist
    /\ UNCHANGED <<content, writes, scanned, size, filelist, sizes, cursize,
                   cur_group, next_queue, b, crcpartial, crcfull, leaked, deleteVars>>

MatchingDone ==
    /\ pc = "size"
    /\ sizes = {}
    /\ pc' = IF scenario.delete THEN "set" ELSE "print"
    /\ filelist' = next_filelist
    /\ sizes' = Size
    /\ UNCHANGED <<content, writes, scanned, size, next_filelist, cursize, queue,
                   cur_group, next_queue, b, crcpartial, crcfull, leaked, deleteVars>>

(* deletefiles() and printmatches() take the groups from the largest size  *)
(* down, too.                                                              *)
TakeSets ==
    /\ pc \in {"set", "print"}
    /\ sets = <<>>
    /\ \E s \in sizes :
        /\ \A t \in sizes : t <= s
        /\ sizes' = sizes \ {s}
        /\ cursize' = s
        /\ sets' = filelist[s]
    /\ UNCHANGED <<content, writes, pc, scanned, size, filelist, next_filelist, queue,
                   cur_group, next_queue, b, crcpartial, crcfull, leaked, names, erase, x>>

PrintSet ==
    /\ pc = "print"
    /\ sets # <<>>
    /\ sets' = Tail(sets)
    /\ UNCHANGED <<content, writes, pc, scanned, size, filelist, next_filelist,
                   matchVars, names, erase, x>>

----------------------------------------------------------------------------
(* Mutant of Writable: read-only files, too.                               *)
AllOf(group) == group
Writable(group) ==
    LET named[n \in 0..Len(group)] ==
            IF n = 0 THEN <<>>
            ELSE IF ReadOnly(group[n]) THEN named[n - 1] ELSE Append(named[n - 1], group[n])
    IN  named[Len(group)]
HasReadOnly(group) == \E i \in DOMAIN group : ReadOnly(group[i])

SkipSet ==
    /\ pc = "set"
    /\ sets # <<>>
    /\ Writable(Head(sets)) = <<>>
    /\ sets' = Tail(sets)
    /\ UNCHANGED <<content, writes, pc, scanned, size, filelist, next_filelist,
                   matchVars, names, erase, x>>

(* Mutants of TakeSet: the last file is preserved; the first is preserved  *)
(* iff one is read only.                                                   *)
TakeSetKeepLast ==
    /\ pc = "set"
    /\ sets # <<>>
    /\ Writable(Head(sets)) # <<>>
    /\ names' = Writable(Head(sets))
    /\ erase' = [i \in DOMAIN names' |-> Prompt \/ i < Len(names') \/ HasReadOnly(Head(sets))]
    /\ pc' = IF Prompt THEN "prompt" ELSE "remove"
    /\ x' = 1
    /\ UNCHANGED <<content, writes, scanned, size, filelist, next_filelist, matchVars, sets>>
TakeSetInverted ==
    /\ pc = "set"
    /\ sets # <<>>
    /\ Writable(Head(sets)) # <<>>
    /\ names' = Writable(Head(sets))
    /\ erase' = [i \in DOMAIN names' |-> Prompt \/ i > 1 \/ ~HasReadOnly(Head(sets))]
    /\ pc' = IF Prompt THEN "prompt" ELSE "remove"
    /\ x' = 1
    /\ UNCHANGED <<content, writes, scanned, size, filelist, next_filelist, matchVars, sets>>

(* Without a prompt the first file is preserved iff none is read only.     *)
TakeSet ==
    /\ pc = "set"
    /\ sets # <<>>
    /\ Writable(Head(sets)) # <<>>
    /\ names' = Writable(Head(sets))
    /\ erase' = [i \in DOMAIN names' |-> Prompt \/ i > 1 \/ HasReadOnly(Head(sets))]
    /\ pc' = IF Prompt THEN "prompt" ELSE "remove"
    /\ x' = 1
    /\ UNCHANGED <<content, writes, scanned, size, filelist, next_filelist,
                   matchVars, sets>>

(* An answer is obeyed from left to right, so that of the words about a    *)
(* file the last one counts; a word that is neither a command nor the      *)
(* number of a file (0 here) is about none.  At the end of the input every *)
(* answer is empty.                                                        *)
Answers == BoundedSeq({Quit, All, None} \cup 0..Len(names), MaxTokens)
Said(tokens, word) == \E i \in DOMAIN tokens : tokens[i] = word
About(tokens, i) == {k \in DOMAIN tokens : tokens[k] \in {All, None, i}}
Obeyed(tokens, er) ==
    [i \in DOMAIN er |-> IF About(tokens, i) = {} THEN er[i]
                         ELSE tokens[Max(About(tokens, i))] = None]

Answer(tokens) ==
    /\ pc = "prompt"
    /\ ~Said(tokens, Quit)
    /\ erase' = Obeyed(tokens, [i \in DOMAIN erase |-> i > 1 \/ erase[i]])
    /\ pc' = IF Said(tokens, All) \/ Said(tokens, None) \/ \E i \in DOMAIN erase : ~erase'[i]
             THEN "remove" ELSE "prompt"
    /\ preserved' = preserved \cup
           {names[i] : i \in {j \in DOMAIN erase : pc' = "remove" /\ ~erase'[j]}}
    /\ UNCHANGED <<content, writes, scanned, size, filelist, next_filelist,
                   matchVars, sets, names, x>>

QuitAnswer ==
    /\ pc = "prompt"
    /\ pc' = "done"
    /\ UNCHANGED preserved
    /\ UNCHANGED <<content, writes, scanned, size, filelist, next_filelist,
                   matchVars, deleteVars>>

(* Mutant of RemoveFile: the preserved files are removed, too.             *)
RemoveAnyFile ==
    /\ pc = "remove"
    /\ x <= Len(names)
    /\ x' = x + 1
    /\ content' = [content EXCEPT ![EntryOf(names[x])] = Gone]
    /\ UNCHANGED <<writes, pc, scanned, size, filelist, next_filelist, matchVars,
                   sets, names, erase>>

(* remove() fails for a path that does not exist or may not be removed.    *)
RemoveFile ==
    /\ pc = "remove"
    /\ x <= Len(names)
    /\ x' = x + 1
    /\ \/ erase[x] /\ content' = [content EXCEPT ![EntryOf(names[x])] = Gone]
       \/ UNCHANGED content
    /\ UNCHANGED <<writes, pc, scanned, size, filelist, next_filelist, matchVars,
                   sets, names, erase>>

SetDone ==
    /\ pc = "remove"
    /\ x > Len(names)
    /\ pc' = "set"
    /\ sets' = Tail(sets)
    /\ UNCHANGED <<content, writes, scanned, size, filelist, next_filelist,
                   matchVars, names, erase, x>>

AllSetsDone ==
    /\ pc \in {"set", "print"}
    /\ sets = <<>>
    /\ sizes = {}
    /\ pc' = "done"
    /\ UNCHANGED <<content, writes, scanned, size, filelist, next_filelist,
                   matchVars, deleteVars>>

(* Another program rewrites or removes a file.                             *)
OtherWrites ==
    /\ pc # "done"
    /\ writes < scenario.max_writes
    /\ writes' = writes + 1
    /\ \E p \in Entries : \E c \in scenario.contents \cup {Gone} :
        c # content[p] /\ content' = [content EXCEPT ![p] = c]
    /\ UNCHANGED <<pc, scanned, size, filelist, next_filelist, matchVars, deleteVars, preserved>>

Matching ==
    \/ TakeSize \/ TakeHead \/ SizeDone
    \/ ComparePartial \/ CompareFull \/ CompareBytes \/ GroupDone \/ MatchingDone
Finishing ==
    \/ TakeSets \/ PrintSet \/ SkipSet \/ TakeSet \/ RemoveFile \/ SetDone \/ AllSetsDone
Program ==
    /\ ScanFile \/ StartMatching \/ Matching \/ Finishing
    /\ UNCHANGED <<scenario, preserved>>

User == QuitAnswer \/ \E tokens \in Answers : Answer(tokens)

Next ==
    \/ Program
    \/ /\ User \/ OtherWrites
       /\ UNCHANGED scenario

Spec == Init /\ [][Next]_vars

(* The program runs; nobody has to answer, or to write.                    *)
FairSpec == Spec /\ WF_vars(Program)
----------------------------------------------------------------------------
Groups == UNION {ToSet(filelist[s]) : s \in Size}
Matches == UNION {ToSet(next_filelist[s]) : s \in Size}
Deletion == scenario.delete /\ pc \in {"set", "prompt", "remove", "done"}

(* Type correctness, checked with MatchesExact.                            *)
TypeOK ==
    /\ scenario \in Scenarios
    /\ content \in [Entries -> Content \cup {Gone}]
    /\ writes \in 0..scenario.max_writes
    /\ pc \in {"scan", "size", "head", "compare", "full", "bytes", "print",
               "set", "prompt", "remove", "done"}
    /\ scanned \in 0..Len(Found)
    /\ size \in [File -> Size \cup {0}]
    /\ {filelist, next_filelist} \subseteq [Size -> Seq(Seq(File))]
    /\ sizes \subseteq Size
    /\ cursize \in Size \cup {0}
    /\ {queue, next_queue, sets} \subseteq Seq(Seq(File) \ {<<>>})
    /\ cur_group \in Seq(File)
    /\ b \in Nat /\ x \in Nat /\ leaked \in 0..scenario.max_open
    /\ names \in Seq(File)
    /\ erase \in Seq(BOOLEAN)

(* The reference definition of what fdupes looks for: the classes of equal *)
(* content among the files it considers, the lone files left out.  Empty   *)
(* files are equal without being read.                                     *)
Considered == {f \in File : /\ Exists(EntryOf(f))
                            /\ Len(content[EntryOf(f)]) > MinSize
                            /\ ~(ExcludeEmpty /\ content[EntryOf(f)] = <<>>)}
SameContent(f, g) ==
    /\ content[EntryOf(f)] = content[EntryOf(g)]
    /\ \/ content[EntryOf(f)] = <<>>
       \/ f = g
       \/ Readable(EntryOf(f)) /\ Readable(EntryOf(g))
Classes == {{g \in Considered : SameContent(f, g)} : f \in Considered}

(* build_matches() finds exactly the duplicates when nobody changes the    *)
(* files: colliding checksums do not merge two contents, a checksum cached *)
(* from another comparison or left invalid does not split one, and the     *)
(* re-queueing of what did not match neither loses nor repeats a file.     *)
(* When byte_match() has left so many files open that it cannot open two   *)
(* more, duplicates may be missed, but no different files are matched.     *)
MatchesExact ==
    /\ TypeOK
    /\ pc = "size" /\ sizes = {} /\ writes = 0 =>
        /\ \A g \in Matches : \E c \in Classes : ToSet(g) \subseteq c
        /\ CanOpen(2) =>
               {ToSet(g) : g \in Matches} = {c \in Classes : Cardinality(c) > 1}
        /\ \A s \in Size : IsInjective([i \in DOMAIN next_filelist[s] |->
                                           ToSet(next_filelist[s][i])])

(* A group keeps its files in the order in which they were scanned, though *)
(* it is built by reversing twice: scandir() pushes to the front and       *)
(* build_matches() inserts at the front.  "The first file" of the help     *)
(* text and the numbers at the prompt rest on it.                          *)
InScanOrder ==
    \A g \in Groups \cup Matches \cup {cur_group} :
        \A i, j \in DOMAIN g : i < j => g[i] < g[j]

(* While a size is being worked on, and whatever happens to the files      *)
(* meanwhile, each of its files is in one place only: a completed group,   *)
(* the current one, or waiting.                                            *)
Waiting == next_queue \o (IF b <= Len(queue) THEN SubSeq(queue, b, Len(queue)) ELSE <<>>)
Apart(groups) ==
    \A i, j \in DOMAIN groups : \A k \in DOMAIN groups[i], l \in DOMAIN groups[j] :
        groups[i][k] = groups[j][l] => i = j /\ k = l
NoFileTwice ==
    pc \in {"compare", "full", "bytes"} =>
        Apart(next_filelist[cursize] \o <<cur_group>> \o Waiting)

(* No directory was given twice, nor files under two names with -s: "data  *)
(* may be lost", as the help text of -d has it.                            *)
KnownByOneName == IsInjective([f \in File |-> EntryOf(f)])

(* Removing duplicates loses no content, at no moment in between and       *)
(* whichever removals fail, unless the user has answered that none of the  *)
(* files be preserved and none is read only.                               *)
LastCopyKept ==
    [][/\ pc = "remove"
       /\ writes' = 0 /\ KnownByOneName
       /\ \/ ~Prompt
          \/ HasReadOnly(Head(sets))
          \/ \E i \in DOMAIN erase : ~erase[i]
       => \A p \in Entries : Exists(p) => \E q \in Entries : content'[q] = content[p]]_vars

(* What the program removes was found below no directory named with -R,   *)
(* under one of its names at least, and only if -d was given.  A file that *)
(* is found read only under each of its names is never removed; one that a *)
(* link or another spelling of its directory leads to is.                  *)
ReadOnlyKept ==
    [][writes' = writes =>
        \A p \in Entries : content'[p] # content[p] =>
            scenario.delete /\ \E f \in File : EntryOf(f) = p /\ ~ReadOnly(f)]_vars

(* Without a prompt the file of a set that was scanned first is still      *)
(* there, unless the set has a read-only file.                             *)
FirstPreserved ==
    /\ InScanOrder
    /\ ~Prompt /\ writes = 0 /\ Deletion /\ KnownByOneName =>
        \A g \in Groups :
            ~HasReadOnly(g) =>
                \E f \in ToSet(g) : Exists(EntryOf(f)) /\ \A h \in ToSet(g) : f <= h

(* A file of a set that the user has not been asked about is there, even   *)
(* if a directory was given twice: an answer removes files of its own set  *)
(* only.  A file that an answer was to preserve is there at any later time,*)
(* when other files of its set are removed and when other sets are asked   *)
(* about, unless it has another name, which may be in the set, too.        *)
Unasked ==
    {sets[i] : i \in {j \in DOMAIN sets : j > 1 \/ pc # "remove"}}
        \cup UNION {ToSet(filelist[s]) : s \in sizes}
UnaskedKept ==
    Prompt /\ writes = 0 /\ Deletion =>
        /\ \A g \in Unasked : \A f \in ToSet(g) : Exists(EntryOf(f))
        /\ KnownByOneName => \A f \in preserved : Exists(EntryOf(f))

(* What the program has still to do, the most significant first: the stage *)
(* it is in; the files it has not looked at, or the sizes; the groups of   *)
(* this size; and within the group at hand the comparisons, three tests    *)
(* each, or the removals.                                                  *)
StageLeft ==
    CASE pc = "scan" -> 3
      [] pc \in {"size", "head", "compare", "full", "bytes"} -> 2
      [] pc \in {"print", "set", "prompt", "remove"} -> 1
      [] pc = "done" -> 0
SizesLeft == IF pc = "scan" THEN Len(Found) - scanned ELSE Cardinality(sizes)
GroupsLeft ==
    CASE pc = "head" -> 2 * Len(queue) + 1
      [] pc \in {"compare", "full", "bytes"} -> 2 * Len(queue)
      [] pc \in {"print", "set"} -> 2 * Len(sets) + 1
      [] pc \in {"prompt", "remove"} -> 2 * Len(sets)
      [] pc \in {"scan", "size", "done"} -> 0
Comparisons == Len(queue) + 1 - b
Removals == Len(names) + 1 - x
StepsLeft ==
    CASE pc = "compare" -> 3 * Comparisons + 2
      [] pc = "full" -> 3 * Comparisons + 1
      [] pc = "bytes" -> 3 * Comparisons
      [] pc = "prompt" -> Removals + 1
      [] pc = "remove" -> Removals
      [] pc \in {"scan", "size", "head", "print", "set", "done"} -> 0
Variant == <<StageLeft, SizesLeft, GroupsLeft, StepsLeft>>
Variants == [1..4 -> Nat]
Below(v, w) ==
    /\ {v, w} \subseteq Variants
    /\ \E j \in 1..4 : v[j] < w[j] /\ \A i \in 1..(j - 1) : v[i] = w[i]

(* No step takes the program back, nor leaves it where it was but for the  *)
(* steps of others and an answer after which the prompt is asked again:    *)
(* build_matches() takes no group up again that it has sorted, whatever it *)
(* reads meanwhile, and deletefiles() no file.                             *)
VariantFalls ==
    [][/\ Variant' = Variant \/ Below(Variant', Variant)
       /\ Program => Below(Variant', Variant)]_vars

(* Without a prompt the program ends, whatever others do to the files and  *)
(* whatever it reads meanwhile: the queue of build_matches() shrinks.  That*)
(* each read ends is ReadsEnd of module FDupesReads.                       *)
Termination == ~Prompt => <>(pc = "done")
=============================================================================
