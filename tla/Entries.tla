------------------------------- MODULE Entries -------------------------------
(***************************************************************************)
(* The metadata index of metafs (metafs_src/entries.cpp) and the scanner   *)
(* thread that fills it (metafs_src/entries_scanner.cpp).                  *)
(*                                                                         *)
(* The index is a tree of path_component.  The edges of the tree are       *)
(* labelled with numbers; string_index and string_reverse_index translate  *)
(* between a directory name and its number.  A path_component is here the  *)
(* sequence of the labels that lead to it, the root is <<>>.               *)
(*                                                                         *)
(* No lock protects the index.  A C++ statement that other threads can see *)
(* half done is therefore several steps:                                   *)
(*   string_index[key] = index   inserts 0 and only then stores index;     *)
(*   children[i] = new ...       inserts a null pointer and only then      *)
(*                               stores the new path_component.            *)
(***************************************************************************)
EXTENDS Naturals, Sequences, FiniteSets

CONSTANTS
    Source,         \* the regular files below the configured paths
    SourceDir,      \* the directories below the configured paths
    Paths,          \* config.paths, in order
    FilesIn,        \* the regular files directly inside a directory
    SubDirs,        \* its sub-directories, sorted, without the hidden ones
    Unclassifiable, \* files that may lack an attribute the pattern asks for, or
                    \* whose type libmagic may not be able to tell
    Base,           \* the base names of files
    BaseName,       \* the base name of each file
    Key,            \* directory names of the arranged tree
    PathParts       \* the layouts (sequences of keys) the pattern and the
                    \* plugins can give to a file

ASSUME SourcesAssumption ==
    /\ Paths \in Seq(SourceDir)
    /\ FilesIn \in [SourceDir -> SUBSET Source]
    /\ SubDirs \in [SourceDir -> Seq(SourceDir)]
    /\ Unclassifiable \subseteq Source
    /\ BaseName \in [Source -> Base]

ASSUME PathPartsAssumption == PathParts \in [Source -> SUBSET Seq(Key)]

ASSUME KeyAssumption == IsFiniteSet(Key)

VARIABLES
    string_index,          \* name -> number, a partial function
    string_reverse_index,  \* number -> name, a partial function
    store,                 \* the path_components of the tree
    files,                 \* all file entries, in the order of push_back
    num_files,             \* the counter that makes the names unique
    scanner,               \* the scanner thread
    disk                   \* the source files that exist

entriesVars == <<string_index, string_reverse_index, store, files, num_files,
                 scanner, disk>>

----------------------------------------------------------------------------
(* Data *)

Node == Seq(Nat)
Root == <<>>

(* "%s_%zu.%s": the base name and the counter.  The extension depends on   *)
(* the file and is left out; the counter is unique without it.             *)
Name == [base : Base, num : Nat]

Entry == [name : Name, file : Source, dir : Node, deleted : BOOLEAN]

(* f with the value of k set to v, where k need not be in the domain.      *)
Put(f, k, v) == [x \in DOMAIN f \cup {k} |-> IF x = k THEN v ELSE f[x]]

(* Mutants of EntriesNamed: any directory; the base name only.             *)
NamedAnywhere(dir, name) == {i \in DOMAIN files : files[i].name = name}
NamedByBase(dir, name) ==
    {i \in DOMAIN files : files[i].dir = dir /\ files[i].name.base = name.base}

(* The entry that a lookup by name finds in a path_component: the first.   *)
EntriesNamed(dir, name) ==
    {i \in DOMAIN files : files[i].dir = dir /\ files[i].name = name}
FirstNamed(dir, name) ==
    CHOOSE i \in EntriesNamed(dir, name) :
        \A j \in EntriesNamed(dir, name) : i <= j

(* The layout that a node stands for.                                      *)
Decode(node) == [j \in 1..Len(node) |-> string_reverse_index[node[j]]]

----------------------------------------------------------------------------
(* The scanner thread.  todo: the entries readdir() has not returned yet;  *)
(* stack: the directories still to scan; file, parts: the file being added *)
(* and its path_parts; cur: the path_component add_file() has reached;     *)
(* idx: the string_index of the part it is looking at; refused: the        *)
(* directories that could not be opened, a history that no step looks at.  *)

ScannerPC == {"dir", "file", "intern", "assign", "reverse", "child", "link",
              "done", "aborted"}

Scanner == [pc    : ScannerPC,
            alive : BOOLEAN,
            stack : Seq(SourceDir),
            todo  : SUBSET Source,
            file  : Source \cup {"none"},
            parts : Seq(Key),
            cur   : Node,
            idx   : Nat,
            refused : SUBSET SourceDir]

(* The part add_file() is placing.                                         *)
CurKey == scanner.parts[Len(scanner.cur) + 1]
CurChild == Append(scanner.cur, scanner.idx)

(* A reader of the map finds it being rebalanced.                          *)
IndexInFlux   == scanner.pc = "assign"
ReverseInFlux == scanner.pc = "reverse"
ChildrenInFlux(node) == scanner.pc = "link" /\ node = scanner.cur

(* The path_component is in the tree, its pointer is still null.           *)
IsNull(node) == scanner.pc = "link" /\ node = CurChild

At(pc) == scanner.alive /\ scanner.pc = pc

(* scan(): the paths are scanned, the store does not change any more.      *)
ScanDone ==
    /\ At("dir")
    /\ scanner.stack = <<>>
    /\ scanner' = [scanner EXCEPT !.pc = "done"]
    /\ UNCHANGED <<string_index, string_reverse_index, store, files, num_files, disk>>

(* scan_path(): opendir() fails, for want of permission, or at the moment  *)
(* of descriptors: files that are open in metafs take them, too.           *)
SkipDir ==
    /\ At("dir")
    /\ scanner.stack # <<>>
    /\ scanner' = [scanner EXCEPT !.stack = Tail(@), !.refused = @ \cup {Head(scanner.stack)}]
    /\ UNCHANGED <<string_index, string_reverse_index, store, files, num_files, disk>>

(* Mutant of OpenDir: the sub-directories are forgotten.                   *)
OpenDirFlat ==
    /\ At("dir")
    /\ scanner.stack # <<>>
    /\ scanner' = [scanner EXCEPT !.pc = "file", !.todo = FilesIn[Head(scanner.stack)],
                                  !.stack = Tail(@)]
    /\ UNCHANGED <<string_index, string_reverse_index, store, files, num_files, disk>>

(* scan_path(): the files of a directory come first, then its sub-         *)
(* directories in the order of their names.                                *)
OpenDir ==
    /\ At("dir")
    /\ scanner.stack # <<>>
    /\ LET dir == Head(scanner.stack) IN
        scanner' = [scanner EXCEPT !.pc = "file",
                                   !.todo = FilesIn[dir],
                                   !.stack = SubDirs[dir] \o Tail(@)]
    /\ UNCHANGED <<string_index, string_reverse_index, store, files, num_files, disk>>

(* readdir() returns no more entries.                                      *)
CloseDir ==
    /\ At("file")
    /\ scanner.todo = {}
    /\ scanner' = [scanner EXCEPT !.pc = "dir"]
    /\ UNCHANGED <<string_index, string_reverse_index, store, files, num_files, disk>>

(* plugin::handle(): stat() fails, the file is skipped.                    *)
SkipFile(f) ==
    /\ At("file")
    /\ f \in scanner.todo
    /\ f \notin disk
    /\ scanner' = [scanner EXCEPT !.todo = @ \ {f}]
    /\ UNCHANGED <<string_index, string_reverse_index, store, files, num_files, disk>>

(* attributes.at() in add_file() throws, or the plugin makes a string of   *)
(* the null pointer that magic_file() returned, for want of permission or  *)
(* as the file was removed since stat() was asked: nothing on the scanner  *)
(* thread catches it and the process is terminated.                        *)
Abort(f) ==
    /\ At("file")
    /\ f \in scanner.todo
    /\ f \in disk => f \in Unclassifiable
    /\ scanner' = [scanner EXCEPT !.pc = "aborted"]
    /\ UNCHANGED <<string_index, string_reverse_index, store, files, num_files, disk>>

(* Mutant of Classify: add_file() does not start again at the root.        *)
ClassifyInPlace(f) ==
    /\ At("file")
    /\ f \in scanner.todo \cap disk
    /\ \E parts \in PathParts[f] :
        scanner' = [scanner EXCEPT !.pc = "intern", !.todo = @ \ {f}, !.file = f,
                                   !.parts = parts]
    /\ UNCHANGED <<string_index, string_reverse_index, store, files, num_files, disk>>

(* add_file(): the plugins and the pattern give the file its path_parts.   *)
Classify(f) ==
    /\ At("file")
    /\ f \in scanner.todo \cap disk
    /\ \E parts \in PathParts[f] :
        scanner' = [scanner EXCEPT !.pc = "intern",
                                   !.todo = @ \ {f},
                                   !.file = f,
                                   !.parts = parts,
                                   !.cur = Root]
    /\ UNCHANGED <<string_index, string_reverse_index, store, files, num_files, disk>>

(* get_string_index(): the name has a number already.                      *)
InternKnown ==
    /\ At("intern")
    /\ Len(scanner.cur) < Len(scanner.parts)
    /\ CurKey \in DOMAIN string_index
    /\ scanner' = [scanner EXCEPT !.pc = "child", !.idx = string_index[CurKey]]
    /\ UNCHANGED <<string_index, string_reverse_index, store, files, num_files, disk>>

(* get_string_index(): string_index[key] inserts 0; the number is the size *)
(* the map had.                                                            *)
InternNew ==
    /\ At("intern")
    /\ Len(scanner.cur) < Len(scanner.parts)
    /\ CurKey \notin DOMAIN string_index
    /\ scanner' = [scanner EXCEPT !.pc = "assign",
                                  !.idx = Cardinality(DOMAIN string_index)]
    /\ string_index' = Put(string_index, CurKey, 0)
    /\ UNCHANGED <<string_reverse_index, store, files, num_files, disk>>

(* Mutants of InternAssign: the number is not stored; the reverse map is   *)
(* not filled.                                                             *)
InternForgotten ==
    /\ At("assign")
    /\ scanner' = [scanner EXCEPT !.pc = "reverse"]
    /\ UNCHANGED <<string_index, string_reverse_index, store, files, num_files, disk>>
InternOneWay ==
    /\ At("assign")
    /\ scanner' = [scanner EXCEPT !.pc = "child"]
    /\ string_index' = Put(string_index, CurKey, scanner.idx)
    /\ UNCHANGED <<string_reverse_index, store, files, num_files, disk>>

InternAssign ==
    /\ At("assign")
    /\ scanner' = [scanner EXCEPT !.pc = "reverse"]
    /\ string_index' = Put(string_index, CurKey, scanner.idx)
    /\ UNCHANGED <<string_reverse_index, store, files, num_files, disk>>

InternReverse ==
    /\ At("reverse")
    /\ scanner' = [scanner EXCEPT !.pc = "child"]
    /\ string_reverse_index' = Put(string_reverse_index, scanner.idx, CurKey)
    /\ UNCHANGED <<string_index, store, files, num_files, disk>>

(* add_file(): the child exists.                                           *)
ChildKnown ==
    /\ At("child")
    /\ CurChild \in store
    /\ scanner' = [scanner EXCEPT !.pc = "intern", !.cur = CurChild]
    /\ UNCHANGED <<string_index, string_reverse_index, store, files, num_files, disk>>

(* add_file(): children[string_index] inserts a null pointer ...           *)
ChildNew ==
    /\ At("child")
    /\ CurChild \notin store
    /\ scanner' = [scanner EXCEPT !.pc = "link"]
    /\ store' = store \cup {CurChild}
    /\ UNCHANGED <<string_index, string_reverse_index, files, num_files, disk>>

(* ... and then stores the new path_component.                             *)
ChildLink ==
    /\ At("link")
    /\ scanner' = [scanner EXCEPT !.pc = "intern", !.cur = CurChild]
    /\ UNCHANGED <<string_index, string_reverse_index, store, files, num_files, disk>>

(* Mutants of PushFile: num_files stays; dir is the layout, not the node.  *)
PushFileUncounted ==
    /\ At("intern")
    /\ Len(scanner.cur) = Len(scanner.parts)
    /\ files' = Append(files, [name |-> [base |-> BaseName[scanner.file], num |-> num_files],
                               file |-> scanner.file, dir |-> scanner.cur, deleted |-> FALSE])
    /\ scanner' = [scanner EXCEPT !.pc = "file"]
    /\ UNCHANGED <<string_index, string_reverse_index, store, num_files, disk>>
PushFileByName ==
    /\ At("intern")
    /\ Len(scanner.cur) = Len(scanner.parts)
    /\ files' = Append(files, [name |-> [base |-> BaseName[scanner.file], num |-> num_files],
                               file |-> scanner.file, dir |-> scanner.parts, deleted |-> FALSE])
    /\ num_files' = num_files + 1
    /\ scanner' = [scanner EXCEPT !.pc = "file"]
    /\ UNCHANGED <<string_index, string_reverse_index, store, disk>>

(* add_file(): push_back, then num_files ++ in scan_path().                *)
PushFile ==
    /\ At("intern")
    /\ Len(scanner.cur) = Len(scanner.parts)
    /\ files' = Append(files,
                       [name    |-> [base |-> BaseName[scanner.file], num |-> num_files],
                        file    |-> scanner.file,
                        dir     |-> scanner.cur,
                        deleted |-> FALSE])
    /\ num_files' = num_files + 1
    /\ scanner' = [scanner EXCEPT !.pc = "file"]
    /\ UNCHANGED <<string_index, string_reverse_index, store, disk>>

ScannerStep ==
    \/ ScanDone \/ SkipDir \/ OpenDir \/ CloseDir
    \/ \E f \in Source : SkipFile(f) \/ Abort(f) \/ Classify(f)
    \/ InternKnown \/ InternNew \/ InternAssign \/ InternReverse
    \/ ChildKnown \/ ChildNew \/ ChildLink \/ PushFile

----------------------------------------------------------------------------
(* What the rest of the process and of the machine does to this state.     *)

(* Mutants of MarkDeleted: the flag is flipped; the first file of the      *)
(* directory is marked.                                                    *)
FlipDeleted(dir, name) ==
    /\ EntriesNamed(dir, name) # {}
    /\ files' = [files EXCEPT ![FirstNamed(dir, name)].deleted = ~@]
    /\ UNCHANGED <<string_index, string_reverse_index, store, num_files, scanner, disk>>
MarkFirst(dir, name) ==
    /\ EntriesNamed(dir, name) # {}
    /\ files' = [files EXCEPT ![CHOOSE i \in DOMAIN files : files[i].dir = dir].deleted = TRUE]
    /\ UNCHANGED <<string_index, string_reverse_index, store, num_files, scanner, disk>>

(* delete_file(): the first entry of that name is marked deleted.          *)
MarkDeleted(dir, name) ==
    /\ EntriesNamed(dir, name) # {}
    /\ files' = [files EXCEPT ![FirstNamed(dir, name)].deleted = TRUE]
    /\ UNCHANGED <<string_index, string_reverse_index, store, num_files, scanner, disk>>

(* A file disappears: unlink(2) by metafs, or by another process.          *)
RemoveSource(f) ==
    /\ f \in disk
    /\ disk' = disk \ {f}
    /\ UNCHANGED <<string_index, string_reverse_index, store, files, num_files, scanner>>

(* Another process creates the file.                                       *)
CreateSource(f) ==
    /\ f \in Source \ disk
    /\ disk' = disk \cup {f}
    /\ UNCHANGED <<string_index, string_reverse_index, store, files, num_files, scanner>>

(* fuse_main() daemonises: fork() leaves the scanner thread behind and the *)
(* child goes on with the index as it was at that moment.                  *)
LoseScanner ==
    /\ scanner.alive
    /\ scanner' = [scanner EXCEPT !.alive = FALSE]
    /\ UNCHANGED <<string_index, string_reverse_index, store, files, num_files, disk>>

EntriesInit ==
    /\ string_index = [k \in {} |-> 0]
    /\ string_reverse_index = [i \in {} |-> 0]
    /\ store = {Root}
    /\ files = <<>>
    /\ num_files = 0
    /\ disk \in SUBSET Source
    /\ scanner = [pc |-> "dir", alive |-> TRUE, stack |-> Paths, todo |-> {},
                  file |-> "none", parts |-> <<>>, cur |-> Root, idx |-> 0, refused |-> {}]

EntriesNext ==
    \/ ScannerStep
    \/ \E i \in DOMAIN files : MarkDeleted(files[i].dir, files[i].name)
    \/ \E f \in disk : RemoveSource(f)
    \/ \E f \in Source : CreateSource(f)
    \/ LoseScanner

EntriesSpec == EntriesInit /\ [][EntriesNext]_entriesVars

----------------------------------------------------------------------------
(* Type correctness.                                                       *)
TypeOK ==
    /\ DOMAIN string_index \subseteq Key
    /\ \A k \in DOMAIN string_index : string_index[k] \in Nat
    /\ DOMAIN string_reverse_index \subseteq Nat
    /\ \A i \in DOMAIN string_reverse_index : string_reverse_index[i] \in Key
    /\ store \subseteq Node
    /\ files \in Seq(Entry)
    /\ num_files \in Nat
    /\ scanner \in Scanner
    /\ disk \subseteq Source

Interning == scanner.pc \in {"assign", "reverse"}

(* get_string_index() gives numbers out densely and once: outside its own  *)
(* three statements the two maps are inverse to each other, and inside     *)
(* them only the key being interned is out of step.  Everything that walks *)
(* the tree by name rests on this: were a number given twice, two          *)
(* directories of the layout would be merged into one.                     *)
IndexConsistent ==
    /\ \A k \in DOMAIN string_index :
        (Interning /\ k = CurKey) \/
        /\ string_index[k] \in DOMAIN string_reverse_index
        /\ string_reverse_index[string_index[k]] = k
    /\ \A i \in DOMAIN string_reverse_index :
        /\ string_reverse_index[i] \in DOMAIN string_index
        /\ string_index[string_reverse_index[i]] = i

(* No path_component is reachable whose name get_children() could not look *)
(* up once the maps are at rest, and every one hangs in a tree: its parent *)
(* is there too.  add_file() links a child only after both maps know it.   *)
TreeNamed ==
    \A node \in store :
        /\ \A j \in 1..Len(node) : node[j] \in DOMAIN string_reverse_index
        /\ node # Root => SubSeq(node, 1, Len(node) - 1) \in store

(* Two entries never share a name, whatever directories and base names the *)
(* files come from: the lookup by name in get_file() and delete_file()     *)
(* cannot pick another file than the one that was listed.                  *)
UniqueNames ==
    \A i, j \in DOMAIN files : files[i].name = files[j].name => i = j

(* Every entry hangs below the directories that the pattern makes of its   *)
(* own attributes, however many files and new directory names were         *)
(* interned before or after it.                                            *)
EntryPlacement ==
    \A i \in DOMAIN files :
        /\ files[i].dir \in store
        /\ Decode(files[i].dir) \in PathParts[files[i].file]

(* A step never takes an entry, its name, its place or its tombstone back, *)
(* and never gives a number another name: what a reader has been told of a *)
(* path stays true while the scanner goes on.                              *)
Grows ==
    /\ \A i \in DOMAIN files :
        /\ i \in DOMAIN files'
        /\ files'[i].name = files[i].name
        /\ files'[i].file = files[i].file
        /\ files'[i].dir = files[i].dir
        /\ files[i].deleted => files'[i].deleted
    /\ store \subseteq store'
    /\ \A i \in DOMAIN string_reverse_index :
        /\ i \in DOMAIN string_reverse_index'
        /\ string_reverse_index'[i] = string_reverse_index[i]
IndexOnlyGrows == [][Grows]_entriesVars
=============================================================================
