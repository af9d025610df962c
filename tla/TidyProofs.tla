----------------------------- MODULE TidyProofs -----------------------------
(***************************************************************************)
(* Proofs about module Tidy.                                               *)
(***************************************************************************)
EXTENDS Tidy, TLAPS, FiniteSetTheorems, WellFoundedInduction

Size == {SizeOf[f] : f \in File}
FileRecord == [place : Place, arg : Nat, size : Size, date : {DateOf[f] : f \in File}]

(* A tree: so many files at so many places.                                *)
IsTree(at) ==
    /\ at \in [DOMAIN at -> File]
    /\ DOMAIN at \subseteq Place
    /\ IsFiniteSet(DOMAIN at)

TypeInv ==
    /\ IsTree(disk) /\ IsTree(begun)
    /\ start \in Trees
    /\ runs \in 0..MaxRuns
    /\ args \in Args \cup {<<>>} /\ (runs > 0 => args \in Args)
    /\ pc \in {"fetch", "box", "done", "stopped", "hung", "killed"}
    /\ pc # "done" => runs > 0
    /\ todo \subseteq FileRecord /\ files \subseteq FileRecord
    /\ found \in Nat
    /\ count_keys \in [Directory -> Nat]
    /\ clean \in BOOLEAN

(* What rename() can do no harm to: no two files of one name are, or would *)
(* be put, in one directory.                                               *)
Proper(at) ==
    /\ Range(at) = Range(start)
    /\ \A p, q \in DOMAIN at :
        p # q /\ p.name = q.name => Homes(at, p) \cap Homes(at, q) = {}

(* What a run knows of the tree is stale, but only in that files are gone: *)
(* no other file is where one was found.                                   *)
Stale ==
    /\ \A p \in DOMAIN begun : \E q \in DOMAIN disk : q.name = p.name /\ disk[q] = begun[p]
    /\ \A p \in DOMAIN begun : p \in DOMAIN disk => disk[p] = begun[p]
    /\ \A f \in todo \cup files :
        /\ f.place \in DOMAIN begun
        /\ f.size = SizeOf[begun[f.place]] /\ f.date = DateOf[begun[f.place]]

TreeInv == NoTwins => Proper(disk) /\ Proper(begun) /\ Stale

(* The files that are moved have been found, and are not come to again.    *)
LimitInv ==
    /\ IsFiniteSet(files)
    /\ pc = "fetch" => disk = begun
    /\ NoTwins => Cardinality(Moved) + Cardinality(files) <= found
    /\ runs > 0 /\ args.limit_files # 0 => found <= args.limit_files + 1

(* A complete run that has boxed every file it has come to: it has come to *)
(* those that are not listed any more.                                     *)
Listed(at, p) == Record(at, p, 1) \in todo \cup files
ListInv ==
    Complete /\ clean =>
        /\ pc \in {"fetch", "stopped"} \/ todo = {}
        /\ \A f \in todo \cup files : f.place \in DOMAIN disk /\ f = Record(disk, f.place, 1)
        /\ \A f \in files : disk[f.place] \notin Dangling
        /\ pc = "done" => files = {}

(* When the tree was arranged, the files are come to in the order of their *)
(* groups.                                                                 *)
PastIn(k, g) == {p \in InGroup(disk, k, g) : ~Listed(disk, p)}
CameTo(k, g) ==
    /\ \A p \in Movable(disk) : p.dir[1] = k /\ p.dir[2] < g => ~Listed(disk, p)
    /\ \A p \in Movable(disk) : p.dir[1] = k /\ p.dir[2] > g => Listed(disk, p)
    /\ count_keys[k] = (g - 1) * args.threshold + Cardinality(PastIn(k, g))
IdleInv ==
    /\ runs > 0 /\ ~args.perform_actions => disk = begun
    /\ Complete /\ clean /\ Arranged(begun) =>
        /\ disk = begun
        /\ \A p, q \in Movable(disk) :
            ~Listed(disk, p) /\ Listed(disk, q) => ~Before(Record(disk, q, 1), Record(disk, p, 1))
        /\ args.threshold > 0 => \A k \in Directory : \E g \in Nat \ {0} : CameTo(k, g)
        /\ args.threshold = 0 => \A p \in Movable(disk) : Listed(disk, p)

(* What the run has come to so far is arranged.                            *)
FilledTo(k, g) ==
    /\ \A h \in 1..(g - 1) : Cardinality(PastIn(k, h)) = args.threshold
    /\ \A h \in Nat : h > g => PastIn(k, h) = {}
    /\ Cardinality(PastIn(k, g)) < args.threshold
    /\ count_keys[k] = (g - 1) * args.threshold + Cardinality(PastIn(k, g))
FillInv ==
    Complete /\ clean =>
        /\ \A p \in Movable(disk) : ~Listed(disk, p) =>
            /\ Boxed(p) /\ p.dir[1] = FileKey(args.structure, disk[p]) /\ p.dir[2] > 0
            /\ args.threshold > 0
        /\ args.threshold > 0 => \A k \in Directory : \E g \in Nat \ {0} : FilledTo(k, g)
        /\ \A p, q \in Movable(disk) :
            /\ ~Listed(disk, p) /\ ~Listed(disk, q) /\ p.dir[1] = q.dir[1]
            /\ Ahead(Record(disk, p, 1), Record(disk, q, 1))
            => p.dir[2] <= q.dir[2]
        /\ \A p, q \in Movable(disk) :
            ~Listed(disk, p) /\ Listed(disk, q) =>
                ~Ahead(Record(disk, q, 1), Record(disk, p, 1))

----------------------------------------------------------------------------
LEMMA SizesAreNat == Size \subseteq Nat
BY TidyAssumption DEF TidyAssumption, Size

LEMMA CallsAreTyped ==
    ASSUME NEW a \in Args
    PROVE  /\ a.dirs \in Seq(Root) /\ a.structure \in Structure /\ a.perform_actions \in BOOLEAN
           /\ a.use_group_dirs \in BOOLEAN /\ a.threshold \in Nat /\ a.limit_files \in Nat
BY TidyAssumption DEF TidyAssumption, CommandLine

(* A file record is of a place that has a name and a directory.            *)
LEMMA PlacesAreTyped ==
    ASSUME NEW p \in Place
    PROVE  /\ p = [dir |-> p.dir, name |-> p.name] /\ p.name \in Name
           /\ p.dir = <<p.dir[1], p.dir[2]>> /\ p.dir[2] \in Nat
           /\ ~Boxed(p) => p.dir[2] \in SourceDir
           /\ Boxed(p) => p.dir[1] \in Directory
BY TidyAssumption DEF TidyAssumption, Place, Boxed

LEMMA RecordIsTyped ==
    ASSUME NEW at, IsTree(at), NEW p \in DOMAIN at, NEW arg \in Nat
    PROVE  /\ Record(at, p, arg) \in FileRecord
           /\ Record(at, p, arg).place = p /\ Record(at, p, arg).arg = arg
           /\ Record(at, p, arg).size = SizeOf[at[p]] /\ Record(at, p, arg).date = DateOf[at[p]]
BY DEF IsTree, Record, FileRecord, Size

(* rename(2): a file at the target is gone, all others are where they were.*)
LEMMA RenamedTree ==
    ASSUME NEW at, IsTree(at), NEW p \in DOMAIN at, NEW q \in Place
    PROVE  /\ IsTree(Renamed(at, p, q))
           /\ DOMAIN Renamed(at, p, q) = (DOMAIN at \ {p}) \cup {q}
           /\ Renamed(at, p, q)[q] = at[p]
           /\ \A r \in DOMAIN at \ {p} : r # q => Renamed(at, p, q)[r] = at[r]
<1>1. IsFiniteSet((DOMAIN at \ {p}) \cup {q})
  <2>1. IsFiniteSet(DOMAIN at \ {p})
    BY FS_RemoveElement DEF IsTree
  <2>. QED
    BY <2>1, FS_AddElement
<1>2. DOMAIN Renamed(at, p, q) = (DOMAIN at \ {p}) \cup {q}
  BY DEF Renamed
<1>3. \A r \in (DOMAIN at \ {p}) \cup {q} :
        Renamed(at, p, q)[r] = IF r = q THEN at[p] ELSE at[r]
  BY DEF Renamed
<1>4. Renamed(at, p, q) \in [(DOMAIN at \ {p}) \cup {q} -> File]
  BY DEF Renamed, IsTree
<1>. QED
  BY <1>1, <1>2, <1>3, <1>4 DEF IsTree

LEMMA ExpandedIsTyped ==
    ASSUME NEW s \in Structure, NEW x \in File, NEW n \in Size, NEW y \in File
    PROVE  Expanded[s, Magic[x], Human[n], DateOf[y]] \in Directory
<1>1. Human[n] \in {Human[SizeOf[f]] : f \in File}
  BY DEF Size
<1>. QED
  BY <1>1, TidyAssumption DEF TidyAssumption

LEMMA KeysAreTyped ==
    ASSUME TypeInv, runs > 0, NEW f \in files, Exists(f)
    PROVE  KeyOf(f) \in Directory
<1>1. f.size \in Size /\ disk[f.place] \in File
  BY DEF TypeInv, FileRecord, Exists, IsTree
<1>2. args.structure \in Structure
  BY CallsAreTyped DEF TypeInv
<1>3. PICK y \in File : f.date = DateOf[y]
  BY DEF TypeInv, FileRecord
<1>. QED
  BY <1>1, <1>2, <1>3, ExpandedIsTyped DEF KeyOf

LEMMA GroupsAreTyped ==
    ASSUME NEW c \in Nat, args \in Args, ~DividesByZero
    PROVE  Group(c) \in Nat
<1>1. args.threshold \in Nat /\ args.use_group_dirs \in BOOLEAN
  BY CallsAreTyped
<1>2. CASE args.use_group_dirs
  <2>1. args.threshold # 0
    BY <1>2 DEF DividesByZero
  <2>2. c \div args.threshold \in Nat
    BY <1>1, <2>1
  <2>. QED
    BY <1>2, <2>2 DEF Group
<1>3. CASE ~args.use_group_dirs
  BY <1>3 DEF Group
<1>. QED
  BY <1>2, <1>3

LEMMA TargetsAreTyped ==
    ASSUME TypeInv, runs > 0, NEW f \in files, Exists(f), ~DividesByZero
    PROVE  /\ Target(f) \in Place /\ Target(f).name = f.place.name
           /\ Target(f).dir = <<KeyOf(f), Group(count_keys[KeyOf(f)])>>
           /\ Boxed(Target(f))
<1>1. KeyOf(f) \in Directory
  BY KeysAreTyped
<1>2. count_keys[KeyOf(f)] \in Nat /\ args \in Args
  BY <1>1 DEF TypeInv
<1>3. Group(count_keys[KeyOf(f)]) \in Nat
  BY <1>2, GroupsAreTyped
<1>4. f.place.name \in Name
  BY PlacesAreTyped DEF TypeInv, FileRecord
<1>5. KeyOf(f) # NoKey
  BY <1>1, TidyAssumption DEF TidyAssumption
<1>6. /\ Target(f).dir = <<KeyOf(f), Group(count_keys[KeyOf(f)])>>
      /\ Target(f) = [dir |-> <<KeyOf(f), Group(count_keys[KeyOf(f)])>>, name |-> f.place.name]
  BY DEF Target
<1>. QED
  BY <1>1, <1>3, <1>4, <1>5, <1>6 DEF Place, Boxed

----------------------------------------------------------------------------
(* What the steps do to the tree and to the lists.                         *)
Idles == UNCHANGED <<disk, runVars, todo, files, found, count_keys, clean>>
Drops(f) ==
    /\ pc = "box" /\ f \in files
    /\ files' = files \ {f}
    /\ clean' = FALSE
    /\ UNCHANGED <<disk, runVars, pc, todo, found>>

LEMMA DropsOnly ==
    ASSUME NEW f \in files, RenameFails(f) \/ SkipFile(f)
    PROVE  Drops(f)
BY DEF RenameFails, SkipFile, Drops, IsBoxed, NextFile

(* Every step is one of five kinds.                                        *)
LEMMA StepKinds ==
    ASSUME [Next]_vars
    PROVE  \/ \E a \in Args : StartRun(a)
           \/ \E f \in todo : FetchFile(f)
           \/ \E f \in files : BoxFile(f)
           \/ \E f \in files : Drops(f)
           \/ Idles
<1>1. CASE \E f \in files : RenameFails(f) \/ SkipFile(f)
  BY <1>1, DropsOnly
<1>2. CASE \/ FetchDone \/ BoxDone \/ Stop \/ \E f \in files : Hang(f) \/ Divide(f)
  BY <1>2 DEF FetchDone, BoxDone, Stop, Hang, Divide, Idles
<1>3. CASE UNCHANGED vars
  BY <1>3 DEF vars, runVars, Idles
<1>. QED
  BY <1>1, <1>2, <1>3 DEF Next, Program

(* The lists at the beginning of a run.                                    *)
LEMMA FirstLists ==
    ASSUME TypeInv, NEW a \in Args, StartRun(a)
    PROVE  /\ todo' \subseteq FileRecord
           /\ \A f \in todo' : /\ f.place \in DOMAIN disk
                             /\ f.size = SizeOf[disk[f.place]] /\ f.date = DateOf[disk[f.place]]
           /\ a.dirs = <<WholeTree>> =>
                /\ \A f \in todo' : f = Record(disk, f.place, 1)
                /\ \A p \in DOMAIN disk : Record(disk, p, 1) \in todo'
<1>1. a.dirs \in Seq(Root) /\ DOMAIN a.dirs \subseteq Nat
  BY CallsAreTyped
<1>2. \A f : f \in todo' <=>
        \E i \in DOMAIN a.dirs, p \in DOMAIN disk :
            IsBelow(p, a.dirs[i]) /\ f = Record(disk, p, i)
  BY DEF StartRun
<1>3. \A p \in DOMAIN disk, i \in DOMAIN a.dirs :
        /\ Record(disk, p, i) \in FileRecord
        /\ Record(disk, p, i).place = p /\ Record(disk, p, i).size = SizeOf[disk[p]]
        /\ Record(disk, p, i).date = DateOf[disk[p]]
  BY <1>1, RecordIsTyped DEF TypeInv
<1>4. ASSUME a.dirs = <<WholeTree>>
      PROVE  /\ \A f \in todo' : f = Record(disk, f.place, 1)
             /\ \A p \in DOMAIN disk : Record(disk, p, 1) \in todo'
  <2>1. DOMAIN a.dirs = {1} /\ a.dirs[1] = WholeTree
    BY <1>4
  <2>2. \A p \in DOMAIN disk : p \in Place
    BY DEF TypeInv, IsTree
  <2>3. \A p \in DOMAIN disk : IsBelow(p, WholeTree)
    BY <2>2, PlacesAreTyped, TidyAssumption DEF IsBelow, TidyAssumption
  <2>. QED
    BY <1>2, <1>3, <2>1, <2>3
<1>5. \A f \in todo' : f \in FileRecord
  BY <1>2, <1>3
<1>6. \A f \in todo' : /\ f.place \in DOMAIN disk
                       /\ f.size = SizeOf[disk[f.place]] /\ f.date = DateOf[disk[f.place]]
  BY <1>2, <1>3
<1>. QED
  BY <1>4, <1>5, <1>6

LEMMA NoFileYet == [k \in Directory |-> 0] \in [Directory -> Nat]
OBVIOUS

LEMMA TypeInit == Init => TypeInv
<1>. SUFFICES ASSUME Init PROVE TypeInv
  OBVIOUS
<1>1. IsTree(disk)
  BY TidyAssumption DEF TidyAssumption, Init, IsTree, Place
<1>2. count_keys \in [Directory -> Nat]
  BY NoFileYet DEF Init
<1>3. start \in Trees /\ runs = 0 /\ args \in {<<>>} /\ pc = "done"
  BY DEF Init
<1>4. runs \in 0..MaxRuns
  BY <1>3, TidyAssumption DEF TidyAssumption
<1>5. IsTree(begun) /\ todo \subseteq FileRecord /\ files \subseteq FileRecord
  BY <1>1 DEF Init
<1>6. found \in Nat /\ clean \in BOOLEAN
  BY DEF Init
<1>. QED
  BY <1>1, <1>2, <1>3, <1>4, <1>5, <1>6 DEF TypeInv

(* A file that was boxed is where the run wanted it, or where it was, when *)
(* tidy only shows what it would do.                                       *)
LEMMA BoxedTree ==
    ASSUME TypeInv, NEW f \in files, BoxFile(f)
    PROVE  /\ IsTree(disk')
           /\ runs > 0 /\ args \in Args /\ ~DividesByZero
           /\ f.place \in DOMAIN disk /\ KeyOf(f) \in Directory
           /\ count_keys' = [count_keys EXCEPT ![KeyOf(f)] = @ + 1]
           /\ count_keys' \in [Directory -> Nat]
           /\ files' = files \ {f}
           /\ UNCHANGED <<runVars, pc, todo, found, clean>> /\ pc = "box"
           /\ disk' = IF args.perform_actions THEN Renamed(disk, f.place, Target(f)) ELSE disk
<1>1. /\ pc = "box" /\ Exists(f) /\ ~DividesByZero
      /\ UNCHANGED <<runVars, pc, todo, found, clean>>
      /\ count_keys' = [count_keys EXCEPT ![KeyOf(f)] = @ + 1]
      /\ files' = files \ {f}
      /\ disk' = IF args.perform_actions THEN Renamed(disk, f.place, Target(f)) ELSE disk
  BY DEF BoxFile, IsBoxed, NextFile
<1>2. runs > 0 /\ args \in Args
  BY <1>1 DEF TypeInv
<1>3. KeyOf(f) \in Directory /\ Target(f) \in Place /\ f.place \in DOMAIN disk
  BY <1>1, <1>2, KeysAreTyped, TargetsAreTyped DEF Exists
<1>4. count_keys' \in [Directory -> Nat]
  <2>1. count_keys \in [Directory -> Nat]
    BY DEF TypeInv
  <2>. QED
    BY <1>1, <1>3, <2>1
<1>5. IsTree(disk')
  BY <1>1, <1>3, RenamedTree DEF TypeInv
<1>. QED
  BY <1>1, <1>2, <1>3, <1>4, <1>5

LEMMA TypeStep == TypeInv /\ [Next]_vars => TypeInv'
<1>. SUFFICES ASSUME TypeInv, [Next]_vars PROVE TypeInv'
  OBVIOUS
<1>1. ASSUME NEW a \in Args, StartRun(a) PROVE TypeInv'
  <2>1. todo' \subseteq FileRecord
    BY <1>1, FirstLists
  <2>2. /\ UNCHANGED <<disk, start>> /\ begun' = disk /\ args' = a /\ pc' = "fetch"
        /\ runs' = runs + 1 /\ runs < MaxRuns /\ files' = {} /\ found' = 0
        /\ count_keys' = [k \in Directory |-> 0] /\ clean' = TRUE
    BY <1>1 DEF StartRun
  <2>3. runs' \in 0..MaxRuns
    BY <2>2, TidyAssumption DEF TypeInv, TidyAssumption
  <2>4. IsTree(disk)' /\ IsTree(begun)'
    BY <2>2 DEF TypeInv, IsTree
  <2>5. count_keys' \in [Directory -> Nat]
    BY <2>2, NoFileYet
  <2>6. (pc # "done" => runs > 0)'
    BY <2>2 DEF TypeInv
  <2>. QED
    BY <2>1, <2>2, <2>3, <2>4, <2>5, <2>6 DEF TypeInv
<1>2. ASSUME NEW f \in todo, FetchFile(f) PROVE TypeInv'
  <2>1. /\ todo' = todo \ {f} /\ UNCHANGED <<disk, runVars, pc, count_keys, clean>>
        /\ \/ UNCHANGED <<files, found>>
           \/ files' = files \cup {f} /\ found' = found + 1
    BY <1>2 DEF FetchFile
  <2>2. todo' \subseteq FileRecord /\ files' \subseteq FileRecord /\ found' \in Nat
    BY <2>1 DEF TypeInv
  <2>3. IsTree(disk)' /\ IsTree(begun)'
    BY <2>1 DEF TypeInv, IsTree, runVars
  <2>. QED
    BY <2>1, <2>2, <2>3 DEF TypeInv, runVars
<1>3. ASSUME NEW f \in files, BoxFile(f) PROVE TypeInv'
  <2>1. /\ IsTree(disk)' /\ count_keys' \in [Directory -> Nat] /\ files' = files \ {f}
        /\ UNCHANGED <<runVars, pc, todo, found, clean>>
    BY <1>3, BoxedTree DEF IsTree
  <2>2. IsTree(begun)'
    BY <2>1 DEF TypeInv, IsTree, runVars
  <2>. QED
    BY <2>1, <2>2 DEF TypeInv, runVars
<1>4. ASSUME NEW f \in files, RenameFails(f) \/ SkipFile(f) PROVE TypeInv'
  <2>1. /\ files' = files \ {f} /\ clean' = FALSE /\ UNCHANGED <<disk, runVars, pc, todo, found>>
    BY <1>4, DropsOnly DEF Drops
  <2>2. count_keys' \in [Directory -> Nat]
    <3>1. CASE SkipFile(f)
      BY <3>1 DEF SkipFile, TypeInv
    <3>2. CASE RenameFails(f)
      <4>1. KeyOf(f) \in Directory
        BY <3>2, KeysAreTyped DEF RenameFails, IsBoxed, NextFile, TypeInv
      <4>2. count_keys' = [count_keys EXCEPT ![KeyOf(f)] = @ + 1] /\ count_keys \in [Directory -> Nat]
        BY <3>2 DEF RenameFails, TypeInv
      <4>. QED
        BY <4>1, <4>2
    <3>. QED
      BY <1>4, <3>1, <3>2
  <2>3. IsTree(disk)' /\ IsTree(begun)'
    BY <2>1 DEF TypeInv, IsTree, runVars
  <2>. QED
    BY <2>1, <2>2, <2>3 DEF TypeInv, runVars
<1>5. ASSUME Idles, UNCHANGED pc \/ (pc' \in {"fetch", "box", "done", "stopped", "hung", "killed"}
                                     /\ runs > 0)
      PROVE  TypeInv'
  <2>1. IsTree(disk)' /\ IsTree(begun)'
    BY <1>5 DEF Idles, TypeInv, IsTree, runVars
  <2>. QED
    BY <1>5, <2>1 DEF Idles, TypeInv, runVars
<1>6. CASE \/ FetchDone \/ BoxDone \/ Stop \/ \E f \in files : Hang(f) \/ Divide(f)
  <2>1. Idles /\ pc' \in {"fetch", "box", "done", "stopped", "hung", "killed"} /\ pc # "done"
    BY <1>6 DEF FetchDone, BoxDone, Stop, Hang, Divide, Idles, NextFile
  <2>. QED
    BY <2>1, <1>5 DEF TypeInv
<1>7. CASE UNCHANGED vars
  BY <1>5, <1>7 DEF vars, Idles, runVars
<1>. QED
  BY <1>1, <1>2, <1>3, <1>4, <1>6, <1>7 DEF Next, Program

----------------------------------------------------------------------------
LEMMA TreeInit == Init => TreeInv
<1>. SUFFICES ASSUME Init, NoTwins PROVE Proper(disk) /\ Proper(begun) /\ Stale
  BY DEF TreeInv
<1>1. disk = start /\ begun = disk /\ disk \in Trees /\ todo = {} /\ files = {}
  BY DEF Init
<1>3. Proper(disk)
  BY <1>1 DEF NoTwins, Proper
<1>4. Stale
  BY <1>1 DEF Stale
<1>. QED
  BY <1>1, <1>3, <1>4

(* A file is moved to a place that no other file has.                      *)
LEMMA MoveIsSafe ==
    ASSUME TypeInv, NoTwins, TreeInv, NEW f \in files, BoxFile(f), args.perform_actions,
           NEW p, p = f.place, NEW q, q = Target(f)
    PROVE  /\ p \in DOMAIN disk /\ q \in Place /\ Boxed(q) /\ q.name = p.name
           /\ KeyOf(f) = FileKey(args.structure, disk[p]) /\ KeyOf(f) \in Directory
           /\ q.dir = <<KeyOf(f), Group(count_keys[KeyOf(f)])>>
           /\ KeyOf(f) \in Homes(disk, p) /\ Homes(disk', q) \subseteq Homes(disk, p)
           /\ DOMAIN disk' = (DOMAIN disk \ {p}) \cup {q}
           /\ disk'[q] = disk[p]
           /\ \A r \in DOMAIN disk \ {p} : r # q /\ disk'[r] = disk[r]
<1>1. /\ Exists(f) /\ ~DividesByZero /\ runs > 0 /\ p \in DOMAIN disk
      /\ disk' = Renamed(disk, p, q)
  BY BoxedTree DEF BoxFile, IsBoxed
<1>2. /\ q \in Place /\ q.name = p.name /\ Boxed(q)
      /\ q.dir = <<KeyOf(f), Group(count_keys[KeyOf(f)])>>
  BY <1>1, TargetsAreTyped
<1>3. Proper(disk) /\ Stale
  BY DEF TreeInv
<1>4. f.size = SizeOf[disk[p]] /\ f.date = DateOf[disk[p]]
  <2>1. p \in DOMAIN begun /\ f.size = SizeOf[begun[p]] /\ f.date = DateOf[begun[p]]
    BY <1>3 DEF Stale
  <2>2. disk[p] = begun[p]
    BY <1>1, <1>3, <2>1 DEF Stale
  <2>. QED
    BY <2>1, <2>2
<1>5. /\ KeyOf(f) = FileKey(args.structure, disk[p]) /\ KeyOf(f) \in Directory
      /\ KeyOf(f) \in Homes(disk, p)
  <2>1. KeyOf(f) = FileKey(args.structure, disk[p]) /\ KeyOf(f) \in Directory
    BY <1>1, <1>4, KeysAreTyped DEF KeyOf, FileKey
  <2>2. args.structure \in Structures /\ KeyOf(f) # NoKey
    BY <1>1, <2>1, TidyAssumption DEF TidyAssumption, TypeInv, Structures
  <2>. QED
    BY <2>1, <2>2 DEF Homes
<1>6. /\ DOMAIN disk' = (DOMAIN disk \ {p}) \cup {q} /\ disk'[q] = disk[p]
      /\ \A r \in DOMAIN disk \ {p} : r # q => disk'[r] = disk[r]
  <2>1. IsTree(disk)
    BY DEF TypeInv
  <2>2. /\ DOMAIN Renamed(disk, p, q) = (DOMAIN disk \ {p}) \cup {q}
        /\ Renamed(disk, p, q)[q] = disk[p]
        /\ \A r \in DOMAIN disk \ {p} : r # q => Renamed(disk, p, q)[r] = disk[r]
    <3>1. p \in DOMAIN disk /\ q \in Place
      BY <1>1, <1>2
    <3>2. DOMAIN Renamed(disk, p, q) = (DOMAIN disk \ {p}) \cup {q}
      BY ONLY <2>1, <3>1, RenamedTree
    <3>3. Renamed(disk, p, q)[q] = disk[p]
      BY ONLY <2>1, <3>1, RenamedTree
    <3>4. \A r \in DOMAIN disk \ {p} : r # q => Renamed(disk, p, q)[r] = disk[r]
      BY ONLY <2>1, <3>1, RenamedTree
    <3>. QED
      BY <3>2, <3>3, <3>4
  <2>. QED
    BY <1>1, <2>2
<1>7. ASSUME q \in DOMAIN disk, q # p PROVE FALSE
  <2>1. q.dir[1] \in Homes(disk, q)
    BY <1>2, <1>7 DEF Homes, Boxed
  <2>2. q.dir[1] \in Homes(disk, p)
    BY <1>2, <1>5
  <2>. QED
    BY <1>1, <1>2, <1>3, <1>7, <2>1, <2>2 DEF Proper
<1>8. Homes(disk', q) \subseteq Homes(disk, p)
  BY <1>2, <1>5, <1>6 DEF Homes
<1>. QED
  BY <1>1, <1>2, <1>5, <1>6, <1>7, <1>8

LEMMA MoveKeepsTree ==
    ASSUME TypeInv, NoTwins, TreeInv, NEW f \in files, BoxFile(f), args.perform_actions
    PROVE  Proper(disk)' /\ Stale'
<1>. DEFINE p == f.place
            q == Target(f)
<1>1. /\ p \in DOMAIN disk /\ q.name = p.name /\ Boxed(q) /\ q.dir[1] = KeyOf(f)
      /\ KeyOf(f) \in Homes(disk, p) /\ Homes(disk', q) \subseteq Homes(disk, p)
      /\ DOMAIN disk' = (DOMAIN disk \ {p}) \cup {q} /\ disk'[q] = disk[p]
      /\ \A r \in DOMAIN disk \ {p} : r # q /\ disk'[r] = disk[r]
  BY MoveIsSafe
<1>2. Proper(disk) /\ Proper(begun) /\ Stale
  BY DEF TreeInv
<1>3. start' = start /\ begun' = begun /\ todo' = todo /\ files' \subseteq files
  BY BoxedTree DEF runVars
<1>. HIDE DEF p, q
<1>4. Proper(disk)'
  <2>1. \A x : x \in Range(disk') <=> x \in Range(disk)
    BY <1>1 DEF Range
  <2>2. Range(disk') = Range(start)
    BY <1>2, <2>1 DEF Proper
  <2>3. \A r \in DOMAIN disk \ {p} : Homes(disk', r) = Homes(disk, r)
    BY <1>1 DEF Homes
  <2>4. ASSUME NEW r \in DOMAIN disk', NEW s \in DOMAIN disk', r # s, r.name = s.name
        PROVE  Homes(disk', r) \cap Homes(disk', s) = {}
    <3>1. CASE r # q /\ s # q
      BY <1>1, <1>2, <2>3, <2>4, <3>1 DEF Proper
    <3>2. CASE r = q
      <4>1. s \in DOMAIN disk \ {p} /\ Homes(disk, p) \cap Homes(disk, s) = {}
        BY <1>1, <1>2, <2>4, <3>2 DEF Proper
      <4>. QED
        BY <1>1, <2>3, <3>2, <4>1
    <3>3. CASE s = q
      <4>1. r \in DOMAIN disk \ {p} /\ Homes(disk, p) \cap Homes(disk, r) = {}
        BY <1>1, <1>2, <2>4, <3>3 DEF Proper
      <4>. QED
        BY <1>1, <2>3, <3>3, <4>1
    <3>. QED
      BY <3>1, <3>2, <3>3
  <2>. QED
    BY <1>3, <2>2, <2>4 DEF Proper, Homes, Structures
<1>5. \A r \in DOMAIN begun : \E s \in DOMAIN disk' : s.name = r.name /\ disk'[s] = begun[r]
  <2>. SUFFICES ASSUME NEW r \in DOMAIN begun
                PROVE  \E s \in DOMAIN disk' : s.name = r.name /\ disk'[s] = begun[r]
    OBVIOUS
  <2>1. PICK s \in DOMAIN disk : s.name = r.name /\ disk[s] = begun[r]
    BY <1>2 DEF Stale
  <2>2. CASE s = p
    BY <1>1, <2>1, <2>2
  <2>3. CASE s # p
    BY <1>1, <2>1, <2>3
  <2>. QED
    BY <2>2, <2>3
<1>6. \A r \in DOMAIN begun : r \in DOMAIN disk' => disk'[r] = begun[r]
  <2>. SUFFICES ASSUME NEW r \in DOMAIN begun, r \in DOMAIN disk' PROVE disk'[r] = begun[r]
    OBVIOUS
  <2>1. CASE r # q
    BY <1>1, <1>2, <2>1 DEF Stale
  <2>2. CASE r = q
    <3>1. p \in DOMAIN begun /\ begun[p] = disk[p]
      BY <1>1, <1>2 DEF Stale, p
    <3>2. Homes(begun, p) = Homes(disk, p) /\ q.dir[1] \in Homes(begun, q)
      BY <1>1, <3>1 DEF Homes, Boxed
    <3>3. q = p
      BY <1>1, <1>2, <2>2, <3>1, <3>2 DEF Proper
    <3>. QED
      BY <1>1, <2>2, <3>1, <3>3
  <2>. QED
    BY <2>1, <2>2
<1>. QED
  BY <1>2, <1>3, <1>4, <1>5, <1>6 DEF Stale

LEMMA TreeStep == TypeInv /\ TreeInv /\ [Next]_vars => TreeInv'
<1>. SUFFICES ASSUME TypeInv, TreeInv, [Next]_vars, NoTwins'
              PROVE  (Proper(disk) /\ Proper(begun) /\ Stale)'
  BY DEF TreeInv
<1>0. start' = start
  BY StepKinds DEF StartRun, FetchFile, BoxFile, Drops, Idles, runVars
<1>1. NoTwins /\ Proper(disk) /\ Proper(begun) /\ Stale
  BY <1>0 DEF NoTwins, TreeInv
<1>2. ASSUME UNCHANGED <<disk, begun>> PROVE Proper(disk)' /\ Proper(begun)'
  BY <1>0, <1>1, <1>2 DEF Proper
<1>3. ASSUME UNCHANGED <<disk, begun>>, todo' \subseteq todo,
             files' \subseteq files \cup todo
      PROVE  Stale'
  BY <1>1, <1>3 DEF Stale
<1>4. ASSUME NEW a \in Args, StartRun(a)
      PROVE  (Proper(disk) /\ Proper(begun) /\ Stale)'
  <2>1. disk' = disk /\ begun' = disk /\ files' = {}
    BY <1>4 DEF StartRun
  <2>2. \A f \in todo' : /\ f.place \in DOMAIN disk
                         /\ f.size = SizeOf[disk[f.place]] /\ f.date = DateOf[disk[f.place]]
    BY <1>4, FirstLists
  <2>3. Stale'
    BY <2>1, <2>2 DEF Stale
  <2>. QED
    BY <1>0, <1>1, <2>1, <2>3 DEF Proper
<1>5. CASE \E f \in todo : FetchFile(f)
  BY <1>5, <1>2, <1>3 DEF FetchFile, runVars
<1>6. ASSUME NEW f \in files, BoxFile(f) PROVE (Proper(disk) /\ Proper(begun) /\ Stale)'
  <2>1. begun' = begun /\ todo' = todo /\ files' = files \ {f}
    BY <1>6, BoxedTree DEF runVars
  <2>2. CASE args.perform_actions
    BY <1>0, <1>1, <1>6, <2>1, <2>2, MoveKeepsTree DEF Proper
  <2>3. CASE ~args.perform_actions
    <3>1. disk' = disk
      BY <1>6, <2>3, BoxedTree
    <3>. QED
      BY <2>1, <3>1, <1>2, <1>3
  <2>. QED
    BY <2>2, <2>3
<1>7. CASE \E f \in files : Drops(f)
  BY <1>7, <1>2, <1>3 DEF Drops, runVars
<1>8. CASE Idles
  BY <1>8, <1>2, <1>3 DEF Idles, runVars
<1>. QED
  BY <1>4, <1>5, <1>6, <1>7, <1>8, StepKinds

LEMMA TreeHolds == Spec => [](TypeInv /\ TreeInv)
BY TypeInit, TypeStep, TreeInit, TreeStep, PTL DEF Spec

LEMMA TypesFollow == TypeInv => TypeOK
<1>. SUFFICES ASSUME TypeInv PROVE TypeOK
  OBVIOUS
<1>1. Range(disk) \subseteq File
  BY DEF TypeInv, IsTree, Range
<1>2. \A f \in todo \cup files : f.place \in Place /\ f.arg \in Nat /\ f.size \in Nat
  BY SizesAreNat DEF TypeInv, FileRecord
<1>. QED
  BY <1>1, <1>2 DEF TypeInv, TypeOK, IsTree

(* Every file is on disk that was there before the first run, however many *)
(* runs there were, with whatever patterns and wherever they were stopped: *)
(* for any tree, boxed files included, in which no file of a name is sent  *)
(* to a directory where another is, or is sent, too.                       *)
THEOREM FilesAreKept == Spec => []NothingLost
<1>1. TypeInv /\ TreeInv => NothingLost
  BY TypesFollow DEF TreeInv, Proper, NothingLost
<1>. QED
  BY <1>1, TreeHolds, PTL

----------------------------------------------------------------------------
LEMMA MovedIsFinite == TypeInv => IsFiniteSet(Moved) /\ Cardinality(Moved) \in Nat
<1>1. Moved \subseteq DOMAIN begun
  BY DEF Moved
<1>. QED
  BY <1>1, FS_Subset, FS_CardinalityType DEF TypeInv, IsTree

LEMMA NothingMoved == ASSUME disk = begun PROVE Moved = {} /\ Cardinality(Moved) = 0
BY FS_EmptySet DEF Moved

LEMMA LimitInit == Init => LimitInv
<1>. SUFFICES ASSUME Init PROVE LimitInv
  OBVIOUS
<1>1. disk = begun /\ files = {} /\ found = 0 /\ runs = 0
  BY DEF Init
<1>. QED
  BY <1>1, FS_EmptySet, NothingMoved DEF LimitInv

(* One file more is moved, at most: the one that was come to.              *)
LEMMA MovesOne ==
    ASSUME TypeInv, TypeInv', NoTwins, TreeInv, NEW f \in files, BoxFile(f)
    PROVE  Cardinality(Moved') <= Cardinality(Moved) + 1
<1>1. begun' = begun
  BY BoxedTree DEF runVars
<1>2. Moved' \subseteq Moved \cup {f.place}
  <2>1. CASE args.perform_actions
    <3>1. /\ f.place \in DOMAIN disk
          /\ DOMAIN disk' = (DOMAIN disk \ {f.place}) \cup {Target(f)}
          /\ \A r \in DOMAIN disk \ {f.place} : r # Target(f) /\ disk'[r] = disk[r]
      BY <2>1, MoveIsSafe
    <3>2. Proper(disk)' /\ Stale'
      BY <2>1, MoveKeepsTree
    <3>3. \A r \in DOMAIN begun : r \in DOMAIN disk' => disk'[r] = begun[r]
      BY <1>1, <3>2 DEF Stale
    <3>. QED
      BY <1>1, <3>1, <3>3 DEF Moved
  <2>2. CASE ~args.perform_actions
    <3>1. disk' = disk
      BY <2>2, BoxedTree
    <3>. QED
      BY <1>1, <3>1 DEF Moved
  <2>. QED
    BY <2>1, <2>2
<1>3. IsFiniteSet(Moved) /\ Cardinality(Moved) \in Nat
  BY MovedIsFinite
<1>4. /\ IsFiniteSet(Moved \cup {f.place})
      /\ Cardinality(Moved \cup {f.place}) <= Cardinality(Moved) + 1
  <2>1. \/ Cardinality(Moved \cup {f.place}) = Cardinality(Moved)
        \/ Cardinality(Moved \cup {f.place}) = Cardinality(Moved) + 1
    BY <1>3, FS_AddElement
  <2>2. IsFiniteSet(Moved \cup {f.place})
    BY <1>3, FS_AddElement
  <2>. QED
    BY <1>3, <2>1, <2>2
<1>5. Cardinality(Moved') <= Cardinality(Moved \cup {f.place})
  BY <1>2, <1>4, FS_Subset
<1>6. Cardinality(Moved') \in Nat /\ Cardinality(Moved \cup {f.place}) \in Nat
  <2>1. IsFiniteSet(Moved')
    BY <1>2, <1>4, FS_Subset
  <2>. QED
    BY <1>4, <2>1, FS_CardinalityType
<1>. QED
  BY <1>3, <1>4, <1>5, <1>6

LEMMA LimitStep == TypeInv /\ TreeInv /\ LimitInv /\ [Next]_vars => LimitInv'
<1>. SUFFICES ASSUME TypeInv, TreeInv, LimitInv, [Next]_vars PROVE LimitInv'
  OBVIOUS
<1>1. TypeInv'
  BY TypeStep
<1>2. IsFiniteSet(files) /\ Cardinality(files) \in Nat /\ found \in Nat /\ found' \in Nat
  BY <1>1, FS_CardinalityType DEF LimitInv, TypeInv
<1>3. start' = start /\ (NoTwins' <=> NoTwins)
  <2>1. start' = start
    BY StepKinds DEF StartRun, FetchFile, BoxFile, Drops, Idles, runVars
  <2>. QED
    BY <2>1 DEF NoTwins
<1>4. Cardinality(Moved) \in Nat /\ Cardinality(Moved') \in Nat
  <2>1. Moved' \subseteq DOMAIN begun' /\ IsFiniteSet(DOMAIN begun')
    BY <1>1 DEF Moved, TypeInv, IsTree
  <2>. QED
    BY <2>1, MovedIsFinite, FS_Subset, FS_CardinalityType
<1>5. \A f \in files : /\ IsFiniteSet(files \ {f})
                       /\ Cardinality(files \ {f}) = Cardinality(files) - 1
  BY <1>2, FS_RemoveElement
<1>6. ASSUME NEW a \in Args, StartRun(a) PROVE LimitInv'
  <2>1. disk' = begun' /\ files' = {} /\ found' = 0 /\ args' = a
    BY <1>6 DEF StartRun
  <2>2. Cardinality(Moved)' = 0
    BY <2>1, FS_EmptySet DEF Moved
  <2>3. IsFiniteSet(files') /\ Cardinality(files') = 0
    BY <2>1, FS_EmptySet
  <2>4. a.limit_files \in Nat
    BY CallsAreTyped
  <2>. QED
    BY <2>1, <2>2, <2>3, <2>4 DEF LimitInv
<1>7. ASSUME NEW f \in todo, FetchFile(f) PROVE LimitInv'
  <2>1. /\ pc = "fetch" /\ ~LimitPassed
        /\ UNCHANGED <<disk, runVars, pc, count_keys, clean>>
        /\ \/ UNCHANGED <<files, found>>
           \/ files' = files \cup {f} /\ found' = found + 1
    BY <1>7 DEF FetchFile
  <2>2. disk = begun /\ disk' = begun'
    BY <2>1 DEF LimitInv, runVars
  <2>3. Cardinality(Moved) = 0 /\ Cardinality(Moved') = 0
    BY <2>2, FS_EmptySet DEF Moved
  <2>4. CASE UNCHANGED <<files, found>>
    BY <1>3, <2>1, <2>2, <2>3, <2>4 DEF LimitInv, runVars
  <2>5. CASE files' = files \cup {f} /\ found' = found + 1
    <3>1. IsFiniteSet(files') /\ Cardinality(files') <= Cardinality(files) + 1
      BY <1>2, <2>5, FS_AddElement
    <3>2. runs > 0 /\ args \in Args
      BY <2>1 DEF TypeInv
    <3>3. args.limit_files \in Nat
      BY <3>2, CallsAreTyped
    <3>4. args.limit_files # 0 => found' <= args.limit_files + 1
      BY <1>2, <2>1, <2>5, <3>3 DEF LimitPassed
    <3>5. Cardinality(files') \in Nat
      BY <3>1, FS_CardinalityType
    <3>6. NoTwins => Cardinality(files) <= found
      BY <1>2, <2>3 DEF LimitInv
    <3>7. NoTwins' => Cardinality(Moved') + Cardinality(files') <= found'
      BY <1>2, <1>3, <2>3, <2>5, <3>1, <3>5, <3>6
    <3>8. args' = args
      BY <2>1 DEF runVars
    <3>. QED
      BY <2>2, <3>1, <3>4, <3>7, <3>8 DEF LimitInv
  <2>. QED
    BY <2>1, <2>4, <2>5
<1>8. ASSUME NEW f \in files, BoxFile(f) PROVE LimitInv'
  <2>1. /\ pc' = "box" /\ files' = files \ {f} /\ found' = found
        /\ args' = args /\ runs' = runs
    BY <1>8, BoxedTree DEF runVars
  <2>2. NoTwins => Cardinality(Moved') <= Cardinality(Moved) + 1
    BY <1>1, <1>8, MovesOne
  <2>3. NoTwins => Cardinality(Moved) + Cardinality(files) <= found
    BY DEF LimitInv
  <2>4. Cardinality(files') = Cardinality(files) - 1 /\ IsFiniteSet(files')
    BY <1>5, <2>1
  <2>5. NoTwins' => Cardinality(Moved') + Cardinality(files') <= found'
    BY <1>2, <1>3, <1>4, <2>1, <2>2, <2>3, <2>4
  <2>6. runs' > 0 /\ args'.limit_files # 0 => found' <= args'.limit_files + 1
    BY <2>1 DEF LimitInv
  <2>. QED
    BY <2>1, <2>4, <2>5, <2>6 DEF LimitInv
<1>9. ASSUME NEW f \in files, Drops(f) PROVE LimitInv'
  <2>1. /\ files' = files \ {f}
        /\ UNCHANGED <<disk, begun, args, runs, found, pc>>
    BY <1>9 DEF Drops, runVars
  <2>2. Moved' = Moved
    BY <2>1 DEF Moved
  <2>3. NoTwins => Cardinality(Moved) + Cardinality(files) <= found
    BY DEF LimitInv
  <2>4. Cardinality(files') = Cardinality(files) - 1 /\ IsFiniteSet(files')
    BY <1>5, <2>1
  <2>5. NoTwins' => Cardinality(Moved') + Cardinality(files') <= found'
    BY <1>2, <1>3, <1>4, <2>1, <2>2, <2>3, <2>4
  <2>. QED
    BY <2>1, <2>4, <2>5 DEF LimitInv
<1>10. CASE Idles
  <2>1. UNCHANGED <<disk, begun, args, runs, found, files>> /\ (pc' = "fetch" => pc = "fetch")
    <3>1. \/ UNCHANGED pc
          \/ pc' \in {"box", "hung", "killed", "done", "stopped"}
          \/ \E a \in Args : StartRun(a)
      BY DEF Next, Program, FetchFile, FetchDone, BoxFile, RenameFails, SkipFile, Hang,
             Divide, BoxDone, Stop, vars
    <3>2. ASSUME NEW a \in Args, StartRun(a) PROVE FALSE
      <4>1. runs' = runs + 1 /\ runs' = runs
        BY <1>10, <3>2 DEF StartRun, Idles, runVars
      <4>. QED
        BY <4>1 DEF TypeInv
    <3>. QED
      BY <1>10, <3>1, <3>2 DEF Idles, runVars
  <2>2. Moved' = Moved
    BY <2>1 DEF Moved
  <2>. QED
    BY <1>3, <2>1, <2>2 DEF LimitInv
<1>. QED
  BY <1>6, <1>7, <1>8, <1>9, <1>10, StepKinds

(* A run never touches more files than the limit and one, for any number   *)
(* of files, directories and arguments, unless rename() replaces some.     *)
THEOREM LimitIsPassedByOne == Spec => []LimitExceededByOne
<1>1. TypeInv /\ LimitInv => LimitExceededByOne
  <2>. SUFFICES ASSUME TypeInv, LimitInv, runs > 0, args.limit_files # 0, NoTwins
                PROVE  Cardinality(Moved) <= args.limit_files + 1
    BY DEF LimitExceededByOne
  <2>1. Cardinality(files) \in Nat /\ Cardinality(Moved) \in Nat /\ found \in Nat
    BY FS_CardinalityType, MovedIsFinite DEF LimitInv, TypeInv
  <2>2. args.limit_files \in Nat
    BY CallsAreTyped DEF TypeInv
  <2>3. Cardinality(Moved) + Cardinality(files) <= found /\ found <= args.limit_files + 1
    BY DEF LimitInv
  <2>. QED
    BY <2>1, <2>2, <2>3
<1>2. TypeInv /\ TreeInv /\ LimitInv /\ [Next]_vars => (TypeInv /\ TreeInv /\ LimitInv)'
  BY TypeStep, TreeStep, LimitStep
<1>. QED
  BY <1>1, <1>2, TypeInit, TreeInit, LimitInit, PTL DEF Spec

----------------------------------------------------------------------------
LEMMA IdleKinds ==
    ASSUME TypeInv, [Next]_vars, Idles
    PROVE  \/ UNCHANGED pc
           \/ FetchDone
           \/ pc = "box" /\ (pc' = "done" => files = {})
           \/ pc' = "stopped"
<1>1. ASSUME NEW a \in Args, StartRun(a) PROVE FALSE
  <2>1. runs' = runs + 1 /\ runs' = runs
    BY <1>1 DEF StartRun, Idles, runVars
  <2>. QED
    BY <2>1 DEF TypeInv
<1>2. CASE \E f \in todo : FetchFile(f)
  BY <1>2 DEF FetchFile
<1>3. CASE \E f \in files : \/ BoxFile(f) \/ RenameFails(f) \/ SkipFile(f) \/ Hang(f) \/ Divide(f)
  BY <1>3 DEF BoxFile, RenameFails, SkipFile, Hang, Divide, IsBoxed, NextFile
<1>4. CASE BoxDone \/ Stop
  BY <1>4 DEF BoxDone, Stop
<1>. QED
  BY <1>1, <1>2, <1>3, <1>4 DEF Next, Program, vars

(* The next file of a complete run is moved from its place to its group,   *)
(* and no other file is touched, nor taken off the list.                   *)
Comes(f, p, q, k) ==
    /\ p \in Movable(disk) /\ f = Record(disk, p, 1) /\ Listed(disk, p)
    /\ k \in Directory /\ args.threshold \in Nat \ {0}
    /\ count_keys' = [count_keys EXCEPT ![k] = @ + 1]
    /\ q = [dir |-> <<k, count_keys[k] \div args.threshold + 1>>, name |-> p.name]
    /\ Boxed(q)
    /\ DOMAIN disk' = (DOMAIN disk \ {p}) \cup {q}
    /\ disk'[q] = disk[p]
    /\ \A r \in DOMAIN disk \ {p} : r # q /\ disk'[r] = disk[r]
    /\ Movable(disk') = (Movable(disk) \ {p}) \cup {q}
    /\ todo = {} /\ todo' = {} /\ files' = files \ {f}
    /\ \A r \in DOMAIN disk \ {p} : Listed(disk, r)' <=> Listed(disk, r)
    /\ ~Listed(disk, q)'
    /\ \A r \in DOMAIN disk : Listed(disk, r) => ~Before(Record(disk, r, 1), f)
    /\ UNCHANGED <<runVars, pc, clean>>

LEMMA ComesTo ==
    ASSUME TypeInv, TreeInv, ListInv, Complete, clean, NEW f \in files, BoxFile(f),
           NEW p, p = f.place, NEW q, q = Target(f), NEW k, k = FileKey(args.structure, disk[p])
    PROVE  Comes(f, p, q, k)
<1>0. NoTwins /\ args.perform_actions /\ args.use_group_dirs
  BY DEF Complete
<1>1. /\ Exists(f) /\ ~Unreadable(f) /\ ~DividesByZero /\ NextFile(f)
  BY DEF BoxFile, IsBoxed
<1>2. /\ args \in Args /\ k \in Directory /\ count_keys' = [count_keys EXCEPT ![k] = @ + 1]
      /\ KeyOf(f) = k
      /\ files' = files \ {f} /\ UNCHANGED <<runVars, pc, todo, found, clean>> /\ pc = "box"
  <2>1. KeyOf(f) = k
    BY <1>0, MoveIsSafe
  <2>. QED
    BY <2>1, BoxedTree
<1>3. args.threshold \in Nat \ {0}
  BY <1>0, <1>1, <1>2, CallsAreTyped DEF DividesByZero
<1>4. todo = {} /\ f = Record(disk, p, 1) /\ disk[p] \notin Dangling
  BY <1>2 DEF ListInv
<1>5. /\ p \in DOMAIN disk /\ Boxed(q)
      /\ DOMAIN disk' = (DOMAIN disk \ {p}) \cup {q} /\ disk'[q] = disk[p]
      /\ \A r \in DOMAIN disk \ {p} : r # q /\ disk'[r] = disk[r]
  BY <1>0, MoveIsSafe, SMTT(30)
<1>6. p \in Movable(disk)
  BY <1>1, <1>4, <1>5 DEF Movable, Unreadable
<1>7. q = [dir |-> <<k, count_keys[k] \div args.threshold + 1>>, name |-> p.name]
  BY <1>0, <1>2 DEF Target, Group
<1>8. Movable(disk') = (Movable(disk) \ {p}) \cup {q}
  <2>1. \A r : r \in Movable(disk') <=> r \in (Movable(disk) \ {p}) \cup {q}
    BY <1>5, <1>6 DEF Movable
  <2>. QED
    BY <2>1
<1>9. \A r \in DOMAIN disk \ {p} : Listed(disk, r)' <=> Listed(disk, r)
  <2>. SUFFICES ASSUME NEW r \in DOMAIN disk \ {p}
                PROVE  Listed(disk, r)' <=> Listed(disk, r)
    OBVIOUS
  <2>1. Record(disk', r, 1) = Record(disk, r, 1)
    BY <1>5 DEF Record
  <2>2. Record(disk, r, 1) # f
    BY <1>4 DEF Record
  <2>. QED
    BY <1>2, <1>4, <2>1, <2>2 DEF Listed
<1>10. ~Listed(disk, q)'
  <2>. SUFFICES ASSUME Record(disk', q, 1) \in files \ {f} PROVE FALSE
    BY <1>2, <1>4 DEF Listed
  <2>1. Record(disk', q, 1).place = q
    BY DEF Record
  <2>2. q \in DOMAIN disk
    BY <2>1 DEF ListInv
  <2>3. q = p
    BY <1>5, <2>2
  <2>4. Record(disk', q, 1) = f
    BY <1>4, <1>5, <2>3 DEF Record
  <2>. QED
    BY <2>4
<1>11. \A r \in DOMAIN disk : Listed(disk, r) => ~Before(Record(disk, r, 1), f)
  BY <1>1, <1>4 DEF NextFile, Listed
<1>. QED
  BY <1>2, <1>3, <1>4, <1>5, <1>6, <1>7, <1>8, <1>9, <1>10, <1>11 DEF Listed, Comes

(* Else nothing of this changes in a complete run, but at its beginning.   *)
Rests ==
    /\ Complete /\ clean
    /\ UNCHANGED <<disk, begun, start, args, runs, count_keys, clean>>
    /\ todo' \subseteq todo /\ files' \subseteq files \cup todo
    /\ \A p \in Movable(disk) : Listed(disk, p)' <=> Listed(disk, p)
Begins ==
    /\ disk' = disk /\ begun' = disk /\ files' = {} /\ pc' = "fetch"
    /\ count_keys' = [k \in Directory |-> 0]
    /\ \A f \in todo' : f.place \in DOMAIN disk /\ f = Record(disk, f.place, 1)
    /\ \A p \in DOMAIN disk : Listed(disk, p)'

LEMMA CompleteKinds ==
    ASSUME TypeInv, [Next]_vars, Complete', clean'
    PROVE  \/ Begins
           \/ Complete /\ clean /\ \E f \in files : BoxFile(f)
           \/ Rests /\ \E f \in todo : FetchFile(f)
           \/ Rests /\ Idles
<1>1. ASSUME NEW a \in Args, StartRun(a) PROVE Begins
  <2>1. /\ disk' = disk /\ begun' = disk /\ files' = {} /\ args' = a /\ pc' = "fetch"
        /\ count_keys' = [k \in Directory |-> 0]
    BY <1>1 DEF StartRun
  <2>2. a.dirs = <<WholeTree>>
    BY <2>1 DEF Complete
  <2>3. /\ \A f \in todo' : f.place \in DOMAIN disk /\ f = Record(disk, f.place, 1)
        /\ \A p \in DOMAIN disk : Record(disk, p, 1) \in todo'
    BY <1>1, <2>2, FirstLists
  <2>4. \A p \in DOMAIN disk : Listed(disk, p)'
    BY <2>1, <2>3 DEF Listed
  <2>. QED
    BY <2>1, <2>3, <2>4 DEF Begins
<1>2. ASSUME UNCHANGED runVars, clean' = clean PROVE Complete /\ clean
  BY <1>2 DEF Complete, NoTwins, runVars
<1>3. ASSUME NEW f \in todo, FetchFile(f) PROVE Rests
  <2>1. /\ UNCHANGED <<disk, runVars, pc, count_keys, clean>> /\ todo' = todo \ {f}
        /\ files' = IF disk[f.place] \in Dangling THEN files ELSE files \cup {f}
    BY <1>3 DEF FetchFile
  <2>2. ASSUME NEW p \in Movable(disk) PROVE Listed(disk, p)' <=> Listed(disk, p)
    <3>1. Record(disk', p, 1) = Record(disk, p, 1)
      BY <2>1
    <3>2. CASE Record(disk, p, 1) = f
      <4>1. disk[f.place] \notin Dangling
        BY <3>2 DEF Record, Movable
      <4>. QED
        BY <2>1, <3>1, <3>2, <4>1 DEF Listed
    <3>3. CASE Record(disk, p, 1) # f
      BY <2>1, <3>1, <3>3 DEF Listed
    <3>. QED
      BY <3>2, <3>3
  <2>3. Complete /\ clean
    BY <1>2, <2>1
  <2>. QED
    BY <2>1, <2>2, <2>3 DEF Rests, runVars
<1>4. ASSUME NEW f \in files, BoxFile(f) PROVE Complete /\ clean
  BY <1>2, <1>4, BoxedTree
<1>5. CASE Idles
  <2>1. Complete /\ clean
    BY <1>2, <1>5 DEF Idles
  <2>2. \A p \in Movable(disk) : Listed(disk, p)' <=> Listed(disk, p)
    BY <1>5 DEF Idles, Listed
  <2>. QED
    BY <1>5, <2>1, <2>2 DEF Rests, Idles, runVars
<1>6. ASSUME NEW f \in files, Drops(f) PROVE FALSE
  BY <1>6 DEF Drops
<1>. QED
  BY <1>1, <1>3, <1>4, <1>5, <1>6, StepKinds

LEMMA ListStep == TypeInv /\ TreeInv /\ ListInv /\ [Next]_vars => ListInv'
<1>. SUFFICES ASSUME TypeInv, TreeInv, ListInv, [Next]_vars, Complete', clean'
              PROVE  /\ pc' \in {"fetch", "stopped"} \/ todo' = {}
                     /\ \A f \in todo' \cup files' :
                            f.place \in DOMAIN disk' /\ f = Record(disk', f.place, 1)
                     /\ \A f \in files' : disk'[f.place] \notin Dangling
                     /\ pc' = "done" => files' = {}
  BY DEF ListInv
<1>1. CASE Begins
  BY <1>1 DEF Begins
<1>2. ASSUME NEW g \in todo, FetchFile(g), Rests
      PROVE  /\ pc' \in {"fetch", "stopped"} \/ todo' = {}
             /\ \A f \in todo' \cup files' :
                    f.place \in DOMAIN disk' /\ f = Record(disk', f.place, 1)
             /\ \A f \in files' : disk'[f.place] \notin Dangling
             /\ pc' = "done" => files' = {}
  <2>1. pc' = "fetch" /\ disk' = disk
    BY <1>2 DEF FetchFile
  <2>2. \A f \in todo' \cup files' :
            f.place \in DOMAIN disk /\ f = Record(disk, f.place, 1)
    BY <1>2 DEF Rests, ListInv
  <2>3. \A f \in files' : disk[f.place] \notin Dangling
    BY <1>2 DEF FetchFile, ListInv, Rests
  <2>. QED
    BY <2>1, <2>2, <2>3
<1>3. ASSUME Rests, Idles
      PROVE  /\ pc' \in {"fetch", "stopped"} \/ todo' = {}
             /\ \A f \in todo' \cup files' :
                    f.place \in DOMAIN disk' /\ f = Record(disk', f.place, 1)
             /\ \A f \in files' : disk'[f.place] \notin Dangling
             /\ pc' = "done" => files' = {}
  <2>1. pc \in {"fetch", "stopped"} \/ todo = {}
    BY <1>3 DEF Rests, ListInv
  <2>2. FetchDone => todo = {}
    BY <1>3 DEF FetchDone, LimitPassed, Rests, Complete
  <2>3. pc' \in {"fetch", "stopped"} \/ todo' = {}
    BY <1>3, <2>1, <2>2, IdleKinds DEF Idles
  <2>4. pc' = "done" => files' = {}
    <3>1. FetchDone => pc' = "box"
      BY DEF FetchDone
    <3>2. pc = "done" => files = {}
      BY <1>3 DEF Rests, ListInv
    <3>. QED
      BY <1>3, <3>1, <3>2, IdleKinds DEF Idles
  <2>. QED
    BY <1>3, <2>3, <2>4 DEF Rests, Idles, ListInv
<1>4. ASSUME Complete, clean, NEW f \in files, BoxFile(f)
      PROVE  /\ pc' \in {"fetch", "stopped"} \/ todo' = {}
             /\ \A g \in todo' \cup files' :
                    g.place \in DOMAIN disk' /\ g = Record(disk', g.place, 1)
             /\ \A g \in files' : disk'[g.place] \notin Dangling
             /\ pc' = "done" => files' = {}
  <2>1. /\ todo' = {} /\ files' = files \ {f} /\ f = Record(disk, f.place, 1)
        /\ DOMAIN disk' = (DOMAIN disk \ {f.place}) \cup {Target(f)}
        /\ \A r \in DOMAIN disk \ {f.place} : disk'[r] = disk[r]
    <3>1. PICK p, q, k : p = f.place /\ q = Target(f) /\ k = FileKey(args.structure, disk[p])
      OBVIOUS
    <3>2. Comes(f, p, q, k)
      BY <1>4, <3>1, ComesTo
    <3>. QED
      BY <3>1, <3>2 DEF Comes
  <2>2. ASSUME NEW g \in files'
        PROVE  /\ g.place \in DOMAIN disk' /\ g = Record(disk', g.place, 1)
               /\ disk'[g.place] \notin Dangling
    <3>1. g.place \in DOMAIN disk /\ g = Record(disk, g.place, 1) /\ disk[g.place] \notin Dangling
      BY <1>4, <2>1, <2>2 DEF ListInv
    <3>2. g.place # f.place
      BY <2>1, <2>2, <3>1
    <3>. QED
      BY <2>1, <3>1, <3>2 DEF Record
  <2>3. pc' # "done"
    BY <1>4, BoxedTree
  <2>. QED
    BY <2>1, <2>2, <2>3
<1>. QED
  BY <1>1, <1>2, <1>3, <1>4, CompleteKinds

----------------------------------------------------------------------------
LEMMA Quotient ==
    ASSUME NEW t \in Nat \ {0}, NEW g \in Nat, NEW m \in Nat, m < t
    PROVE  (g * t + m) \div t = g
OBVIOUS

LEMMA GroupsAreFinite ==
    ASSUME TypeInv, NEW k, NEW g
    PROVE  /\ IsFiniteSet(InGroup(disk, k, g)) /\ Cardinality(InGroup(disk, k, g)) \in Nat
           /\ PastIn(k, g) \subseteq InGroup(disk, k, g)
           /\ IsFiniteSet(PastIn(k, g)) /\ Cardinality(PastIn(k, g)) \in Nat
<1>1. /\ InGroup(disk, k, g) \subseteq DOMAIN disk /\ IsFiniteSet(DOMAIN disk)
      /\ PastIn(k, g) \subseteq InGroup(disk, k, g)
  BY DEF TypeInv, IsTree, InGroup, Movable, PastIn
<1>2. IsFiniteSet(InGroup(disk, k, g)) /\ IsFiniteSet(PastIn(k, g))
  BY <1>1, FS_Subset
<1>. QED
  BY <1>1, <1>2, FS_CardinalityType

(* In a tree that is arranged, the files of a key have an order that goes  *)
(* up with their groups.                                                   *)
LEMMA GroupsAreOrdered ==
    ASSUME IsTree(disk), Arranged(disk)
    PROVE  /\ \A p \in Movable(disk) :
                /\ p.dir = <<p.dir[1], p.dir[2]>> /\ p.dir[1] = FileKey(args.structure, disk[p])
                /\ p.dir[2] \in Nat /\ p.dir[2] > 0
                /\ Cardinality(InGroup(disk, p.dir[1], p.dir[2])) <= args.threshold
                /\ p.dir[2] > 1 =>
                    Cardinality(InGroup(disk, p.dir[1], p.dir[2] - 1)) = args.threshold
           /\ \A p, q \in Movable(disk) :
                p.dir[1] = q.dir[1] /\ p.dir[2] < q.dir[2] =>
                    Before(Record(disk, p, 1), Record(disk, q, 1))
<1>1. \A p \in Movable(disk) :
        /\ p.dir = <<p.dir[1], p.dir[2]>> /\ p.dir[2] \in Nat
        /\ SizeOf[disk[p]] \in Nat /\ NameKey[p.name] \in Nat
  <2>. SUFFICES ASSUME NEW p \in Movable(disk)
                PROVE  /\ p.dir = <<p.dir[1], p.dir[2]>> /\ p.dir[2] \in Nat
                       /\ SizeOf[disk[p]] \in Nat /\ NameKey[p.name] \in Nat
    OBVIOUS
  <2>1. p \in Place /\ disk[p] \in File
    BY DEF Movable, IsTree
  <2>. QED
    BY <2>1, PlacesAreTyped, TidyAssumption DEF TidyAssumption
<1>2. \A p \in Movable(disk) :
        /\ p.dir[1] = FileKey(args.structure, disk[p]) /\ p.dir[2] > 0
        /\ Cardinality(InGroup(disk, p.dir[1], p.dir[2])) <= args.threshold
        /\ p.dir[2] > 1 => Cardinality(InGroup(disk, p.dir[1], p.dir[2] - 1)) = args.threshold
  BY DEF Arranged, Filled
<1>3. ASSUME NEW p \in Movable(disk), NEW q \in Movable(disk),
             p.dir[1] = q.dir[1], p.dir[2] < q.dir[2]
      PROVE  Before(Record(disk, p, 1), Record(disk, q, 1))
  <2>1. ~Before(Record(disk, q, 1), Record(disk, p, 1))
    BY <1>1, <1>3 DEF Arranged
  <2>2. PathBefore(p, q) \/ PathBefore(q, p)
    <3>1. Boxed(p) /\ Boxed(q)
      BY DEF Arranged, Filled
    <3>. QED
      BY <1>3, <3>1 DEF PathBefore, GroupBefore
  <2>3. /\ SizeOf[disk[p]] \in Nat /\ NameKey[p.name] \in Nat
        /\ SizeOf[disk[q]] \in Nat /\ NameKey[q.name] \in Nat
    BY <1>1
  <2>. QED
    BY <2>1, <2>2, <2>3 DEF Before, Ahead, Record
<1>. QED
  BY <1>1, <1>2, <1>3

(* Hence the next file of its key is in the group that it is boxed into.   *)
OwnGroupNext(p, k, t) ==
    /\ p.dir = <<k, p.dir[2]>> /\ p.dir[2] \in Nat \ {0}
    /\ count_keys[k] \div t + 1 = p.dir[2]
    /\ \A r \in Movable(disk) : r.dir[1] = k /\ r.dir[2] < p.dir[2] => ~Listed(disk, r)
    /\ \A r \in Movable(disk) : r.dir[1] = k /\ r.dir[2] > p.dir[2] => Listed(disk, r)
    /\ count_keys[k] = (p.dir[2] - 1) * t + Cardinality(PastIn(k, p.dir[2]))

LEMMA ComesToItsGroup ==
    ASSUME TypeInv, TreeInv, ListInv, IdleInv, Complete, clean, Arranged(begun),
           NEW f \in files, BoxFile(f),
           NEW p, p = f.place, NEW k, k = FileKey(args.structure, disk[p]),
           NEW t, t = args.threshold
    PROVE  OwnGroupNext(p, k, t)
<1>. SUFFICES /\ p.dir = <<k, p.dir[2]>> /\ p.dir[2] \in Nat \ {0}
              /\ count_keys[k] \div t + 1 = p.dir[2]
              /\ \A r \in Movable(disk) : r.dir[1] = k /\ r.dir[2] < p.dir[2] => ~Listed(disk, r)
              /\ \A r \in Movable(disk) : r.dir[1] = k /\ r.dir[2] > p.dir[2] => Listed(disk, r)
              /\ count_keys[k] = (p.dir[2] - 1) * t + Cardinality(PastIn(k, p.dir[2]))
  BY DEF OwnGroupNext
<1>1. disk = begun /\ Arranged(disk) /\ IsTree(disk)
  BY DEF IdleInv, TypeInv
<1>2. PICK q : q = Target(f)
  OBVIOUS
<1>3. /\ p \in Movable(disk) /\ f = Record(disk, p, 1) /\ Listed(disk, p)
      /\ k \in Directory /\ t \in Nat \ {0}
      /\ \A r \in DOMAIN disk : Listed(disk, r) => ~Before(Record(disk, r, 1), f)
  <2>1. Comes(f, p, q, k)
    BY <1>2, ComesTo
  <2>. QED
    BY <2>1 DEF Comes
<1>4. /\ p.dir = <<k, p.dir[2]>> /\ p.dir[2] \in Nat /\ p.dir[2] > 0
      /\ Cardinality(InGroup(disk, k, p.dir[2])) <= t
      /\ p.dir[2] > 1 => Cardinality(InGroup(disk, k, p.dir[2] - 1)) = t
  BY <1>1, <1>3, GroupsAreOrdered
<1>5. \A r \in Movable(disk) : r.dir[1] = k /\ r.dir[2] < p.dir[2] => ~Listed(disk, r)
  BY <1>1, <1>3, <1>4, GroupsAreOrdered DEF Movable
<1>6. PICK g \in Nat \ {0} : CameTo(k, g)
  BY <1>3 DEF IdleInv
<1>. DEFINE m == Cardinality(PastIn(k, g))
            h == p.dir[2]
<1>7. m \in Nat /\ count_keys[k] = (g - 1) * t + m /\ h >= g /\ h \in Nat
  BY <1>3, <1>4, <1>6, GroupsAreFinite DEF CameTo
<1>8. CASE h = g
  <2>1. p \in InGroup(disk, k, g) /\ p \notin PastIn(k, g)
    BY <1>3, <1>4, <1>8 DEF InGroup, PastIn
  <2>2. m < Cardinality(InGroup(disk, k, g))
    BY <2>1, GroupsAreFinite, FS_Subset
  <2>3. m < t
    BY <1>3, <1>4, <1>7, <1>8, <2>2, GroupsAreFinite
  <2>4. count_keys[k] \div t = g - 1
    <3>1. g - 1 \in Nat
      OBVIOUS
    <3>. HIDE DEF m
    <3>. QED
      BY <1>3, <1>7, <2>3, <3>1, Quotient
  <2>5. \A r \in Movable(disk) : r.dir[1] = k /\ r.dir[2] > h => Listed(disk, r)
    BY <1>6, <1>8 DEF CameTo
  <2>. QED
    BY <1>4, <1>5, <1>7, <1>8, <2>4, <2>5
<1>9. CASE h > g
  <2>1. h > 1 /\ h - 1 \in Nat /\ h - 1 >= g
    BY <1>7, <1>9
  <2>2. Cardinality(InGroup(disk, k, h - 1)) = t
    BY <1>4, <2>1
  <2>3. PICK r : r \in InGroup(disk, k, h - 1)
    BY <1>3, <2>2, FS_EmptySet
  <2>4. r \in Movable(disk) /\ r.dir[1] = k /\ r.dir[2] = h - 1
    BY <2>3 DEF InGroup
  <2>5. ~Listed(disk, r)
    BY <1>5, <1>7, <2>4
  <2>6. ~(h - 1 > g)
    BY <1>6, <2>4, <2>5 DEF CameTo
  <2>7. h - 1 = g
    BY <1>7, <2>1, <2>6
  <2>8. PastIn(k, g) = InGroup(disk, k, g)
    <3>1. \A s \in InGroup(disk, k, g) : ~Listed(disk, s)
      BY <1>5, <1>9 DEF InGroup
    <3>. QED
      BY <3>1 DEF PastIn
  <2>9. m = t
    BY <2>2, <2>7, <2>8
  <2>10. count_keys[k] = g * t + 0
    BY <1>3, <1>7, <2>9
  <2>11. count_keys[k] \div t = g
    BY <1>3, <2>10, Quotient
  <2>12. PastIn(k, h) = {}
    <3>1. \A s \in InGroup(disk, k, h) : Listed(disk, s)
      BY <1>6, <1>9 DEF CameTo, InGroup
    <3>. QED
      BY <3>1 DEF PastIn
  <2>13. Cardinality(PastIn(k, h)) = 0
    BY <2>12, FS_EmptySet
  <2>14. \A s \in Movable(disk) : s.dir[1] = k /\ s.dir[2] > h => Listed(disk, s)
    <3>1. \A s \in Movable(disk) : s.dir[2] \in Nat
      BY <1>1, GroupsAreOrdered
    <3>. QED
      BY <1>6, <1>7, <1>9, <3>1 DEF CameTo
  <2>15. count_keys[k] = (h - 1) * t + Cardinality(PastIn(k, h))
    BY <1>3, <2>7, <2>10, <2>13
  <2>16. count_keys[k] \div t + 1 = h
    BY <1>7, <2>7, <2>11
  <2>. QED
    BY <1>4, <1>5, <2>14, <2>15, <2>16
<1>. QED
  BY <1>7, <1>8, <1>9

LEMMA StaysInItsGroup ==
    ASSUME TypeInv, TypeInv', TreeInv, ListInv, IdleInv, Complete, clean, Arranged(begun),
           NEW f \in files, BoxFile(f)
    PROVE  /\ disk' = disk
           /\ \A p, q \in Movable(disk) :
                ~Listed(disk, p)' /\ Listed(disk, q)' =>
                    ~Before(Record(disk, q, 1), Record(disk, p, 1))
           /\ args.threshold > 0 /\ args' = args
           /\ \A k \in Directory : \E g \in Nat \ {0} : CameTo(k, g)'
<1>1. PICK p, q, k, t : /\ p = f.place /\ q = Target(f) /\ k = FileKey(args.structure, disk[p])
                        /\ t = args.threshold
  OBVIOUS
<1>2. Comes(f, p, q, k)
  BY <1>1, ComesTo
<1>3. PICK h : h = p.dir[2]
  OBVIOUS
<1>4. /\ p.dir = <<k, h>> /\ h \in Nat \ {0}
      /\ count_keys[k] \div t + 1 = h
      /\ \A r \in Movable(disk) : r.dir[1] = k /\ r.dir[2] < h => ~Listed(disk, r)
      /\ \A r \in Movable(disk) : r.dir[1] = k /\ r.dir[2] > h => Listed(disk, r)
      /\ count_keys[k] = (h - 1) * t + Cardinality(PastIn(k, h))
  <2>1. p = f.place /\ k = FileKey(args.structure, disk[p]) /\ t = args.threshold
    BY <1>1
  <2>2. OwnGroupNext(p, k, t)
    BY <2>1, ComesToItsGroup
  <2>. QED
    BY <1>3, <2>2 DEF OwnGroupNext
<1>5. p \in Place /\ p \in DOMAIN disk
  BY <1>2 DEF Comes, TypeInv, IsTree, Movable
<1>6. q = p
  BY <1>1, <1>2, <1>4, <1>5, PlacesAreTyped DEF Comes
<1>7. disk' = disk
  <2>1. DOMAIN disk' = DOMAIN disk
    BY <1>2, <1>5, <1>6 DEF Comes
  <2>2. \A r \in DOMAIN disk : disk'[r] = disk[r]
    BY <1>2, <1>6 DEF Comes
  <2>3. disk \in [DOMAIN disk -> File] /\ disk' \in [DOMAIN disk' -> File]
    BY DEF TypeInv, IsTree
  <2>. QED
    BY <2>1, <2>2, <2>3
<1>8. \A r \in Movable(disk) : r # p => (Listed(disk, r)' <=> Listed(disk, r))
  BY <1>2 DEF Comes, Movable
<1>9. ~Listed(disk, p)' /\ Listed(disk, p) /\ p \in Movable(disk)
  BY <1>2, <1>6 DEF Comes
<1>10. ASSUME NEW r \in Movable(disk), NEW s \in Movable(disk),
              ~Listed(disk, r)', Listed(disk, s)'
       PROVE  ~Before(Record(disk, s, 1), Record(disk, r, 1))
  <2>1. Listed(disk, s)
    BY <1>8, <1>9, <1>10
  <2>2. CASE r = p
    BY <1>2, <2>1, <2>2 DEF Comes, Movable
  <2>3. CASE r # p
    BY <1>8, <1>10, <2>1, <2>3 DEF IdleInv
  <2>. QED
    BY <2>2, <2>3
<1>11. t \in Nat \ {0} /\ args' = args /\ k \in Directory
  BY <1>1, <1>2 DEF Comes, runVars
<1>12. /\ count_keys' = [count_keys EXCEPT ![k] = @ + 1] /\ count_keys \in [Directory -> Nat]
  BY <1>2 DEF Comes, TypeInv
<1>13. \A g, j : InGroup(disk, j, g)' = InGroup(disk, j, g)
  BY <1>7 DEF InGroup, Movable
<1>14. \A g, j : <<j, g>> # <<k, h>> => PastIn(j, g)' = PastIn(j, g)
  <2>. SUFFICES ASSUME NEW g, NEW j, <<j, g>> # <<k, h>>
                PROVE  PastIn(j, g)' = PastIn(j, g)
    OBVIOUS
  <2>1. \A r \in InGroup(disk, j, g) : Listed(disk, r)' <=> Listed(disk, r)
    BY <1>4, <1>8 DEF InGroup
  <2>. QED
    BY <1>13, <2>1 DEF PastIn
<1>15. CameTo(k, h)'
  <2>1. \A r \in Movable(disk) : r.dir[1] = k /\ r.dir[2] < h => ~Listed(disk, r)'
    BY <1>4, <1>8, <1>9
  <2>2. \A r \in Movable(disk) : r.dir[1] = k /\ r.dir[2] > h => Listed(disk, r)'
    BY <1>3, <1>4, <1>8
  <2>3. PastIn(k, h)' = PastIn(k, h) \cup {p} /\ p \notin PastIn(k, h)
    <3>1. p \in InGroup(disk, k, h)
      BY <1>4, <1>9 DEF InGroup
    <3>2. \A r \in InGroup(disk, k, h) : r # p => (Listed(disk, r)' <=> Listed(disk, r))
      BY <1>8 DEF InGroup
    <3>. QED
      BY <1>9, <1>13, <3>1, <3>2 DEF PastIn
  <2>4. Cardinality(PastIn(k, h)) \in Nat /\ IsFiniteSet(PastIn(k, h))
    BY GroupsAreFinite
  <2>5. Cardinality(PastIn(k, h)') = Cardinality(PastIn(k, h)) + 1
    BY <2>3, <2>4, FS_AddElement
  <2>6. count_keys'[k] = count_keys[k] + 1
    BY <1>11, <1>12
  <2>7. count_keys'[k] = (h - 1) * t + Cardinality(PastIn(k, h)')
    BY <1>4, <1>11, <2>4, <2>5, <2>6
  <2>. QED
    BY <1>1, <1>7, <1>11, <2>1, <2>2, <2>7 DEF CameTo, Movable
<1>16. ASSUME NEW j \in Directory PROVE \E g \in Nat \ {0} : CameTo(j, g)'
  <2>1. CASE j = k
    BY <1>4, <1>15, <2>1
  <2>2. CASE j # k
    <3>1. PICK g \in Nat \ {0} : CameTo(j, g)
      BY <1>1, <1>11 DEF IdleInv
    <3>2. \A r \in Movable(disk) : r.dir[1] = j => (Listed(disk, r)' <=> Listed(disk, r))
      BY <1>4, <1>8, <2>2
    <3>3. PastIn(j, g)' = PastIn(j, g)
      BY <1>14, <2>2
    <3>4. count_keys'[j] = count_keys[j]
      BY <1>12, <2>2
    <3>5. CameTo(j, g)'
      BY <1>7, <1>11, <3>1, <3>2, <3>3, <3>4 DEF CameTo, Movable
    <3>. QED
      BY <3>5
  <2>. QED
    BY <2>1, <2>2
<1>. QED
  BY <1>1, <1>7, <1>10, <1>11, <1>16

LEMMA IdleInit == Init => IdleInv
BY DEF Init, IdleInv, Complete

LEMMA IdleStep ==
    TypeInv /\ TreeInv /\ ListInv /\ IdleInv /\ [Next]_vars => IdleInv'
<1>. SUFFICES ASSUME TypeInv, TreeInv, ListInv, IdleInv, [Next]_vars PROVE IdleInv'
  OBVIOUS
<1>1. TypeInv'
  BY TypeStep
<1>2. (runs > 0 /\ ~args.perform_actions => disk = begun)'
  <2>1. CASE \E a \in Args : StartRun(a)
    BY <2>1 DEF StartRun
  <2>2. ASSUME NEW f \in files, BoxFile(f)
        PROVE  runs' = runs /\ args' = args /\ begun' = begun
               /\ (~args.perform_actions => disk' = disk)
    BY <2>2, BoxedTree DEF runVars
  <2>3. \/ \E f \in todo : FetchFile(f)
        \/ \E f \in files : Drops(f)
        \/ Idles
        => UNCHANGED <<runs, args, begun, disk>>
    BY DEF FetchFile, Drops, Idles, runVars
  <2>. QED
    BY <2>1, <2>2, <2>3, StepKinds DEF IdleInv
<1>. SUFFICES ASSUME Complete', clean', Arranged(begun)'
              PROVE  /\ disk' = begun'
                     /\ \A p, q \in Movable(disk') :
                            ~Listed(disk, p)' /\ Listed(disk, q)' =>
                                ~Before(Record(disk', q, 1), Record(disk', p, 1))
                     /\ args'.threshold > 0 =>
                            \A k \in Directory : \E g \in Nat \ {0} : CameTo(k, g)'
                     /\ args'.threshold = 0 => \A p \in Movable(disk') : Listed(disk, p)'
  BY <1>2 DEF IdleInv
<1>. DEFINE Goal ==
        /\ disk' = begun'
        /\ \A p, q \in Movable(disk') :
               ~Listed(disk, p)' /\ Listed(disk, q)' =>
                   ~Before(Record(disk', q, 1), Record(disk', p, 1))
        /\ args'.threshold > 0 => \A k \in Directory : \E g \in Nat \ {0} : CameTo(k, g)'
        /\ args'.threshold = 0 => \A p \in Movable(disk') : Listed(disk, p)'
<1>3. CASE Begins
  <2>1. /\ disk' = begun' /\ disk' = disk
        /\ \A p \in DOMAIN disk' : Listed(disk, p)'
    BY <1>3 DEF Begins
  <2>2. \A p \in Movable(disk') : Listed(disk, p)'
    BY <2>1 DEF Movable
  <2>3. ASSUME NEW k \in Directory PROVE CameTo(k, 1)'
    <3>1. \A p \in Movable(disk') : ~(p.dir[2] < 1)
      <4>1. \A p \in Movable(disk) : p.dir[2] \in Nat
        BY PlacesAreTyped DEF TypeInv, IsTree, Movable
      <4>2. \A p \in Movable(disk') : p.dir[2] > 0
        BY <2>1 DEF Arranged, Filled
      <4>. QED
        BY <2>1, <4>1, <4>2
    <3>2. PastIn(k, 1)' = {}
      BY <2>2 DEF PastIn, InGroup
    <3>3. Cardinality(PastIn(k, 1)') = 0
      BY <3>2, FS_EmptySet
    <3>4. count_keys'[k] = 0
      BY <1>3 DEF Begins
    <3>5. args'.threshold \in Nat
      <4>1. args' \in Args
        BY <1>1 DEF Complete, TypeInv
      <4>. QED
        BY <4>1, CallsAreTyped
    <3>6. count_keys'[k] = (1 - 1) * args'.threshold + Cardinality(PastIn(k, 1)')
      BY <3>3, <3>4, <3>5
    <3>. QED
      BY <2>2, <3>1, <3>6 DEF CameTo
  <2>4. \A k \in Directory : \E g \in Nat \ {0} : CameTo(k, g)'
    BY <2>3
  <2>. QED
    BY <2>1, <2>2, <2>4
<1>4. ASSUME Rests PROVE Goal
  <2>1. /\ Complete /\ clean
        /\ UNCHANGED <<disk, begun, args, count_keys>>
        /\ \A p \in Movable(disk) : Listed(disk, p)' <=> Listed(disk, p)
    BY <1>4 DEF Rests
  <2>2. Arranged(begun)
    BY <2>1 DEF Arranged, Filled
  <2>3. /\ disk = begun
        /\ \A p, q \in Movable(disk) :
               ~Listed(disk, p) /\ Listed(disk, q) =>
                   ~Before(Record(disk, q, 1), Record(disk, p, 1))
        /\ args.threshold > 0 => \A k \in Directory : \E g \in Nat \ {0} : CameTo(k, g)
        /\ args.threshold = 0 => \A p \in Movable(disk) : Listed(disk, p)
    BY <2>1, <2>2 DEF IdleInv
  <2>4. \A k, g : CameTo(k, g) => CameTo(k, g)'
    <3>. SUFFICES ASSUME NEW k, NEW g, CameTo(k, g) PROVE CameTo(k, g)'
      OBVIOUS
    <3>1. InGroup(disk, k, g)' = InGroup(disk, k, g)
      BY <2>1 DEF InGroup, Movable
    <3>2. \A r \in InGroup(disk, k, g) : Listed(disk, r)' <=> Listed(disk, r)
      BY <2>1 DEF InGroup
    <3>3. PastIn(k, g)' = PastIn(k, g)
      BY <3>1, <3>2 DEF PastIn
    <3>. QED
      BY <2>1, <3>3 DEF CameTo, Movable
  <2>6. args'.threshold > 0 => \A k \in Directory : \E g \in Nat \ {0} : CameTo(k, g)'
    BY <2>1, <2>3, <2>4
  <2>7. Movable(disk') = Movable(disk)
    BY <2>1 DEF Movable
  <2>. QED
    BY <2>1, <2>3, <2>6, <2>7
<1>5. ASSUME Complete, clean, NEW f \in files, BoxFile(f) PROVE Goal
  <2>1. begun' = begun /\ args' = args
    BY <1>5, BoxedTree DEF runVars
  <2>2. Arranged(begun)
    BY <2>1 DEF Arranged, Filled
  <2>3. /\ disk' = disk
        /\ \A p, q \in Movable(disk) :
             ~Listed(disk, p)' /\ Listed(disk, q)' =>
                 ~Before(Record(disk, q, 1), Record(disk, p, 1))
        /\ args.threshold > 0 /\ args' = args
        /\ \A k \in Directory : \E g \in Nat \ {0} : CameTo(k, g)'
    BY <1>1, <1>5, <2>2, StaysInItsGroup
  <2>4. disk = begun
    BY <1>5, <2>2 DEF IdleInv
  <2>5. args.threshold # 0
    BY <2>3
  <2>6. Movable(disk') = Movable(disk)
    BY <2>3 DEF Movable
  <2>. QED
    BY <2>1, <2>3, <2>4, <2>5, <2>6
<1>. QED
  BY <1>3, <1>4, <1>5, CompleteKinds

(* A run over a tree that is arranged, that it boxes without a failure,    *)
(* moves nothing, for any number of files, directories and groups of any   *)
(* size; nor does a dry run.                                               *)
THEOREM RerunIsIdle == Spec => []RerunMovesNothing
<1>1. IdleInv => RerunMovesNothing
  BY DEF IdleInv, RerunMovesNothing
<1>2. Init => ListInv
  BY DEF Init, ListInv
<1>3. TypeInv /\ TreeInv /\ ListInv /\ IdleInv /\ [Next]_vars =>
        (TypeInv /\ TreeInv /\ ListInv /\ IdleInv)'
  BY TypeStep, TreeStep, ListStep, IdleStep
<1>. QED
  BY <1>1, <1>2, <1>3, TypeInit, TreeInit, IdleInit, PTL DEF Spec

----------------------------------------------------------------------------
(* The file that is come to goes to the group that is being filled.        *)
LEMMA FillsOn ==
    ASSUME TypeInv, TypeInv', TreeInv, ListInv, FillInv, Complete, clean,
           NEW f \in files, BoxFile(f),
           NEW p, NEW q, NEW k, Comes(f, p, q, k), NEW g \in Nat \ {0}, FilledTo(k, g),
           NEW t, t = args.threshold
    PROVE  /\ q.dir = <<k, g>>
           /\ PastIn(k, g)' = PastIn(k, g) \cup {q} /\ q \notin PastIn(k, g)
           /\ \A j, h : <<j, h>> # <<k, g>> => PastIn(j, h)' = PastIn(j, h)
           /\ \E h \in Nat \ {0} : FilledTo(k, h)'
<1>. DEFINE m == Cardinality(PastIn(k, g))
<1>1. /\ m \in Nat /\ m < t /\ IsFiniteSet(PastIn(k, g))
      /\ count_keys[k] = (g - 1) * t + m
      /\ t \in Nat \ {0} /\ args' = args /\ k \in Directory
  BY GroupsAreFinite DEF FilledTo, Comes, runVars
<1>2. q.dir = <<k, g>>
  <2>1. g - 1 \in Nat
    OBVIOUS
  <2>. HIDE DEF m
  <2>2. count_keys[k] \div t = g - 1
    BY <1>1, <2>1, Quotient
  <2>3. count_keys[k] \div t + 1 = g
    BY <2>2
  <2>. QED
    BY <2>3 DEF Comes
<1>3. \A j, h : \A r : r \in PastIn(j, h) <=>
                        r \in Movable(disk) /\ r.dir = <<j, h>> /\ ~Listed(disk, r)
  BY DEF PastIn, InGroup
<1>4. \A j, h : \A r : r \in PastIn(j, h)' <=>
                        r \in Movable(disk') /\ r.dir = <<j, h>> /\ ~Listed(disk, r)'
  BY DEF PastIn, InGroup
<1>5. \A r \in Movable(disk) \ {p} : r # q /\ (Listed(disk, r)' <=> Listed(disk, r))
  BY DEF Comes, Movable
<1>6. /\ Movable(disk') = (Movable(disk) \ {p}) \cup {q}
      /\ Listed(disk, p) /\ ~Listed(disk, q)' /\ p \in Movable(disk)
  BY DEF Comes
<1>7. \A j, h : \A r : r \in PastIn(j, h)' <=> r \in PastIn(j, h) \/ (r = q /\ <<j, h>> = <<k, g>>)
  <2>. SUFFICES ASSUME NEW j, NEW h, NEW r
                PROVE  r \in PastIn(j, h)' <=>
                            r \in PastIn(j, h) \/ (r = q /\ <<j, h>> = <<k, g>>)
    OBVIOUS
  <2>1. CASE r = q
    <3>1. r \in PastIn(j, h)' <=> <<j, h>> = <<k, g>>
      BY <1>2, <1>4, <1>6, <2>1
    <3>2. r \notin PastIn(j, h)
      BY <1>3, <1>5, <1>6, <2>1
    <3>. QED
      BY <2>1, <3>1, <3>2
  <2>2. CASE r # q /\ r = p
    BY <1>3, <1>4, <1>6, <2>2
  <2>3. CASE r # q /\ r # p
    <3>1. r \in Movable(disk') <=> r \in Movable(disk)
      BY <1>6, <2>3
    <3>2. r \in Movable(disk) => (Listed(disk, r)' <=> Listed(disk, r))
      BY <1>5, <2>3
    <3>3. r \in PastIn(j, h)' <=> r \in Movable(disk') /\ r.dir = <<j, h>> /\ ~Listed(disk, r)'
      BY <1>4
    <3>4. r \in PastIn(j, h) <=> r \in Movable(disk) /\ r.dir = <<j, h>> /\ ~Listed(disk, r)
      BY <1>3
    <3>. QED
      BY <2>3, <3>1, <3>2, <3>3, <3>4
  <2>. QED
    BY <2>1, <2>2, <2>3
<1>8. PastIn(k, g)' = PastIn(k, g) \cup {q}
  <2>1. \A r : r \in PastIn(k, g)' <=> r \in PastIn(k, g) \cup {q}
    BY <1>7
  <2>. QED
    BY <2>1
<1>9. q \notin PastIn(k, g)
  BY <1>3, <1>5, <1>6
<1>10. \A j, h : <<j, h>> # <<k, g>> => PastIn(j, h)' = PastIn(j, h)
  <2>. SUFFICES ASSUME NEW j, NEW h, <<j, h>> # <<k, g>>
                PROVE  PastIn(j, h)' = PastIn(j, h)
    OBVIOUS
  <2>1. ASSUME NEW r PROVE r \in PastIn(j, h)' <=> r \in PastIn(j, h)
    <3>1. r \in PastIn(j, h)' <=> r \in PastIn(j, h) \/ (r = q /\ <<j, h>> = <<k, g>>)
      BY <1>7
    <3>2. ~(<<j, h>> = <<k, g>>)
      OBVIOUS
    <3>. QED
      BY ONLY <3>1, <3>2, Zenon
  <2>. QED
    BY <2>1
<1>11. Cardinality(PastIn(k, g)') = m + 1
  BY <1>1, <1>8, <1>9, FS_AddElement
<1>12. count_keys'[k] = count_keys[k] + 1
  BY <1>1 DEF Comes, TypeInv
<1>13. \A h \in 1..(g - 1) : Cardinality(PastIn(k, h)') = t
  BY <1>1, <1>10 DEF FilledTo
<1>14. \A h \in Nat : h > g => PastIn(k, h)' = {}
  BY <1>10 DEF FilledTo
<1>15. CASE m + 1 < t
  <2>. HIDE DEF m
  <2>1. count_keys'[k] = (g - 1) * t + (m + 1)
    BY <1>1, <1>12
  <2>2. FilledTo(k, g)'
    BY <1>1, <1>11, <1>13, <1>14, <1>15, <2>1 DEF FilledTo
  <2>. QED
    BY <1>2, <1>8, <1>9, <1>10, <2>2
<1>16. CASE m + 1 = t
  <2>. HIDE DEF m
  <2>1. PastIn(k, g + 1)' = {}
    BY <1>14
  <2>2. Cardinality(PastIn(k, g + 1)') = 0
    BY <2>1, FS_EmptySet
  <2>3. count_keys'[k] = g * t
    BY <1>1, <1>12, <1>16
  <2>4. count_keys'[k] = ((g + 1) - 1) * t + 0
    BY <1>1, <2>3
  <2>5. \A h \in 1..((g + 1) - 1) : Cardinality(PastIn(k, h)') = t
    <3>1. \A h \in 1..((g + 1) - 1) : h = g \/ h \in 1..(g - 1)
      OBVIOUS
    <3>. QED
      BY <1>11, <1>13, <1>16, <3>1
  <2>6. \A h \in Nat : h > g + 1 => PastIn(k, h)' = {}
    BY <1>14
  <2>7. FilledTo(k, g + 1)'
    BY <1>1, <2>2, <2>4, <2>5, <2>6 DEF FilledTo
  <2>. QED
    BY <1>2, <1>8, <1>9, <1>10, <2>7
<1>. QED
  BY <1>1, <1>15, <1>16

(* What decides before the path is the same wherever a file is.            *)
LEMMA AheadOfMoved ==
    ASSUME NEW f, NEW p, NEW q, NEW k, Comes(f, p, q, k), NEW g
    PROVE  /\ Ahead(g, Record(disk', q, 1)) <=> Ahead(g, f)
           /\ Ahead(Record(disk', q, 1), g) <=> Ahead(f, g)
           /\ Ahead(g, f) => Before(g, f)
<1>1. /\ f = Record(disk, p, 1) /\ disk'[q] = disk[p] /\ q.name = p.name
  BY DEF Comes
<1>2. /\ Record(disk', q, 1).size = f.size
      /\ Record(disk', q, 1).place.name = f.place.name
  BY <1>1 DEF Record
<1>. QED
  BY <1>2 DEF Ahead, Before

(* Groups with one digit are in the order of their numbers.                *)
LEMMA SmallGroups ==
    ASSUME NEW m \in Nat, NEW n \in Nat, m <= OneDigit, n <= OneDigit, GroupBefore(m, n)
    PROVE  m < n
<1>1. \A o \in Inverted : OneDigit < o[2]
  BY TidyAssumption DEF TidyAssumption
<1>2. OneDigit \in Nat
  BY TidyAssumption DEF TidyAssumption
<1>3. <<n, m>> \notin Inverted
  BY <1>1, <1>2
<1>. QED
  BY <1>3 DEF GroupBefore

LEMMA FillInit == Init => FillInv
BY DEF Init, FillInv, Complete

LEMMA FillBegins == ASSUME TypeInv', Begins, Complete', clean' PROVE FillInv'
<1>1. \A p \in Movable(disk') : Listed(disk, p)'
  BY DEF Begins, Movable
<1>2. \A k, g : PastIn(k, g)' = {}
  BY <1>1 DEF PastIn, InGroup
<1>3. args' \in Args
  BY DEF Complete, TypeInv
<1>4. args'.threshold \in Nat
  BY <1>3, CallsAreTyped
<1>5. ASSUME args'.threshold > 0, NEW k \in Directory PROVE FilledTo(k, 1)'
  <2>1. Cardinality(PastIn(k, 1)') = 0
    BY <1>2, FS_EmptySet
  <2>2. count_keys'[k] = 0
    BY DEF Begins
  <2>3. count_keys'[k] = (1 - 1) * args'.threshold + Cardinality(PastIn(k, 1)')
    BY <1>4, <2>1, <2>2
  <2>. QED
    BY <1>2, <1>5, <2>1, <2>3 DEF FilledTo
<1>6. args'.threshold > 0 => \A k \in Directory : \E g \in Nat \ {0} : FilledTo(k, g)'
  BY <1>5
<1>. QED
  BY <1>1, <1>6 DEF FillInv

LEMMA FillRests == ASSUME FillInv, Rests PROVE FillInv'
<1>1. /\ Complete /\ clean /\ UNCHANGED <<disk, args, count_keys>>
      /\ \A p \in Movable(disk) : Listed(disk, p)' <=> Listed(disk, p)
  BY DEF Rests
<1>2. Movable(disk') = Movable(disk)
  BY <1>1 DEF Movable
<1>3. ASSUME NEW k, NEW g PROVE PastIn(k, g)' = PastIn(k, g)
  <2>1. InGroup(disk, k, g)' = InGroup(disk, k, g) /\ InGroup(disk, k, g) \subseteq Movable(disk)
    BY <1>1, <1>2 DEF InGroup
  <2>2. \A r \in InGroup(disk, k, g) : Listed(disk, r)' <=> Listed(disk, r)
    BY <1>1, <2>1
  <2>. QED
    BY <2>1, <2>2 DEF PastIn
<1>4. \A k, g : FilledTo(k, g) => FilledTo(k, g)'
  BY <1>1, <1>3 DEF FilledTo
<1>5. args'.threshold > 0 => \A k \in Directory : \E g \in Nat \ {0} : FilledTo(k, g)'
  BY <1>1, <1>4 DEF FillInv
<1>. QED
  BY <1>1, <1>2, <1>5 DEF FillInv

LEMMA FillBoxes ==
    ASSUME TypeInv, TypeInv', TreeInv, ListInv, FillInv, Complete, clean,
           NEW f \in files, BoxFile(f)
    PROVE  FillInv'
<1>1. PICK p, q, k, t : /\ p = f.place /\ q = Target(f) /\ k = FileKey(args.structure, disk[p])
                        /\ t = args.threshold
  OBVIOUS
<1>2. Comes(f, p, q, k)
  BY <1>1, ComesTo
<1>3. t \in Nat \ {0} /\ k \in Directory /\ args' = args
  BY <1>1, <1>2 DEF Comes, runVars
<1>4. PICK g \in Nat \ {0} : FilledTo(k, g)
  BY <1>1, <1>3 DEF FillInv
<1>5. /\ q.dir = <<k, g>>
      /\ PastIn(k, g)' = PastIn(k, g) \cup {q} /\ q \notin PastIn(k, g)
      /\ \A j, h : <<j, h>> # <<k, g>> => PastIn(j, h)' = PastIn(j, h)
      /\ \E h \in Nat \ {0} : FilledTo(k, h)'
  BY <1>1, <1>2, <1>4, FillsOn
<1>6. /\ Movable(disk') = (Movable(disk) \ {p}) \cup {q}
      /\ \A r \in Movable(disk) \ {p} :
            /\ r # q /\ disk'[r] = disk[r]
            /\ Listed(disk, r)' <=> Listed(disk, r)
            /\ Record(disk', r, 1) = Record(disk, r, 1)
      /\ p \in Movable(disk) /\ Listed(disk, p) /\ ~Listed(disk, q)' /\ Boxed(q)
      /\ f = Record(disk, p, 1)
      /\ \A r \in Movable(disk) : Listed(disk, r) => ~Before(Record(disk, r, 1), f)
  BY <1>2 DEF Comes, Movable, Record
<1>7. \A j \in Directory : \E h \in Nat \ {0} : FilledTo(j, h)'
  <2>. SUFFICES ASSUME NEW j \in Directory, j # k PROVE \E h \in Nat \ {0} : FilledTo(j, h)'
    BY <1>5
  <2>1. PICK h \in Nat \ {0} : FilledTo(j, h)
    BY <1>1, <1>3 DEF FillInv
  <2>2. \A i : PastIn(j, i)' = PastIn(j, i)
    BY <1>5
  <2>3. count_keys'[j] = count_keys[j]
    BY <1>2, <1>3 DEF Comes, TypeInv
  <2>4. FilledTo(j, h)'
    BY <1>3, <2>1, <2>2, <2>3 DEF FilledTo
  <2>. QED
    BY <2>4
<1>8. \A r \in Movable(disk') : ~Listed(disk, r)' =>
        Boxed(r) /\ r.dir[1] = FileKey(args.structure, disk'[r]) /\ r.dir[2] > 0
  <2>. SUFFICES ASSUME NEW r \in Movable(disk'), ~Listed(disk, r)'
                PROVE  Boxed(r) /\ r.dir[1] = FileKey(args.structure, disk'[r]) /\ r.dir[2] > 0
    OBVIOUS
  <2>1. CASE r = q
    <3>1. disk'[q] = disk[p]
      BY <1>2 DEF Comes
    <3>2. r.dir[1] = k /\ r.dir[2] = g /\ g > 0
      BY <1>5, <2>1
    <3>. QED
      BY <1>1, <1>6, <2>1, <3>1, <3>2
  <2>2. CASE r # q
    BY <1>6, <2>2 DEF FillInv
  <2>. QED
    BY <2>1, <2>2
<1>9. \A r : /\ Ahead(Record(disk, r, 1), Record(disk', q, 1)) <=> Ahead(Record(disk, r, 1), f)
             /\ Ahead(Record(disk', q, 1), Record(disk, r, 1)) <=> Ahead(f, Record(disk, r, 1))
             /\ Ahead(Record(disk, r, 1), f) => Before(Record(disk, r, 1), f)
  BY <1>2, AheadOfMoved
<1>10. ASSUME NEW r \in Movable(disk'), NEW s \in Movable(disk'),
              ~Listed(disk, r)', ~Listed(disk, s)', r.dir[1] = s.dir[1],
              Ahead(Record(disk', r, 1), Record(disk', s, 1))
       PROVE  r.dir[2] <= s.dir[2]
  <2>1. CASE r = q /\ s = q
    BY <1>5, <2>1
  <2>2. CASE r = q /\ s # q
    <3>1. s \in Movable(disk) /\ ~Listed(disk, s) /\ Record(disk', s, 1) = Record(disk, s, 1)
      BY <1>6, <1>10, <2>2
    <3>2. ~Ahead(f, Record(disk, s, 1))
      BY <1>6, <3>1 DEF FillInv
    <3>. QED
      BY <1>9, <1>10, <2>2, <3>1, <3>2
  <2>3. CASE r # q /\ s = q
    <3>1. r \in Movable(disk) /\ ~Listed(disk, r)
      BY <1>6, <1>10, <2>3
    <3>2. r \in Place
      BY <3>1 DEF Movable, TypeInv, IsTree
    <3>3. r.dir = <<k, r.dir[2]>> /\ r.dir[2] \in Nat
      BY <1>5, <1>10, <2>3, <3>2, PlacesAreTyped
    <3>4. r \in PastIn(k, r.dir[2])
      BY <3>1, <3>3 DEF PastIn, InGroup
    <3>5. ~(r.dir[2] > g)
      BY <1>4, <3>3, <3>4 DEF FilledTo
    <3>. QED
      BY <1>5, <2>3, <3>3, <3>5
  <2>4. CASE r # q /\ s # q
    BY <1>6, <1>10, <2>4 DEF FillInv
  <2>. QED
    BY <2>1, <2>2, <2>3, <2>4
<1>11. ASSUME NEW r \in Movable(disk'), NEW s \in Movable(disk'),
              ~Listed(disk, r)', Listed(disk, s)'
       PROVE  ~Ahead(Record(disk', s, 1), Record(disk', r, 1))
  <2>1. s # q /\ s \in Movable(disk) /\ Listed(disk, s) /\ Record(disk', s, 1) = Record(disk, s, 1)
    BY <1>6, <1>11
  <2>2. CASE r = q
    BY <1>6, <1>9, <2>1, <2>2
  <2>3. CASE r # q
    <3>1. r \in Movable(disk) /\ ~Listed(disk, r) /\ Record(disk', r, 1) = Record(disk, r, 1)
      BY <1>6, <1>11, <2>3
    <3>. QED
      BY <2>1, <3>1 DEF FillInv
  <2>. QED
    BY <2>2, <2>3
<1>12. args'.threshold > 0
  BY <1>1, <1>3
<1>. QED
  BY <1>3, <1>7, <1>8, <1>10, <1>11, <1>12 DEF FillInv

LEMMA FillStep ==
    TypeInv /\ TreeInv /\ ListInv /\ FillInv /\ [Next]_vars => FillInv'
<1>. SUFFICES ASSUME TypeInv, TreeInv, ListInv, FillInv, [Next]_vars, Complete', clean'
              PROVE  FillInv'
  BY DEF FillInv
<1>1. TypeInv'
  BY TypeStep
<1>. QED
  BY <1>1, CompleteKinds, FillBegins, FillRests, FillBoxes

(* A complete run that meets no failure leaves the files of each directory *)
(* in groups that are filled one after the other, to the maximum, in the   *)
(* order of their sizes and names, and of their paths up to GROUP_9: for   *)
(* any pattern, number of files and maximum, and wherever they were.       *)
THEOREM RunsArrange == Spec => []RunArranges
<1>1. TypeInv /\ TreeInv /\ ListInv /\ FillInv => RunArranges
  <2>. SUFFICES ASSUME TypeInv, TreeInv, ListInv, FillInv, pc = "done", Complete, clean
                PROVE  /\ Filled(disk)
                       /\ (\A p \in Movable(disk) : p.dir[2] <= OneDigit) => Arranged(disk)
    BY DEF RunArranges
  <2>1. todo = {} /\ files = {}
    BY DEF ListInv
  <2>2. \A p \in Movable(disk) : ~Listed(disk, p)
    BY <2>1 DEF Listed
  <2>3. \A k, g : PastIn(k, g) = InGroup(disk, k, g)
    BY <2>2 DEF PastIn, InGroup
  <2>4. ASSUME NEW p \in Movable(disk), NEW k, k = p.dir[1], NEW g, g = p.dir[2]
        PROVE  /\ Boxed(p) /\ k = FileKey(args.structure, disk[p]) /\ g > 0
               /\ Cardinality(InGroup(disk, k, g)) <= args.threshold
               /\ g > 1 => Cardinality(InGroup(disk, k, g - 1)) = args.threshold
    <3>1. /\ Boxed(p) /\ k = FileKey(args.structure, disk[p]) /\ g > 0
          /\ args.threshold > 0
      BY <2>2, <2>4 DEF FillInv
    <3>2. p \in Place /\ p \in DOMAIN disk
      BY DEF Movable, TypeInv, IsTree
    <3>3. k \in Directory /\ g \in Nat /\ p.dir = <<k, g>>
      BY <2>4, <3>1, <3>2, PlacesAreTyped
    <3>5. PICK h \in Nat \ {0} : FilledTo(k, h)
      BY <3>1, <3>3 DEF FillInv
    <3>6. p \in PastIn(k, g)
      BY <2>3, <3>3 DEF InGroup
    <3>7. ~(g > h)
      BY <3>3, <3>5, <3>6 DEF FilledTo
    <3>8. args.threshold \in Nat
      BY CallsAreTyped DEF Complete, TypeInv
    <3>9. Cardinality(PastIn(k, g)) <= args.threshold
      <4>1. CASE g = h
        BY <3>5, <3>8, <4>1, GroupsAreFinite DEF FilledTo
      <4>2. CASE g # h
        <5>1. g \in 1..(h - 1)
          BY <3>1, <3>3, <3>7, <4>2
        <5>. QED
          BY <3>5, <3>8, <5>1 DEF FilledTo
      <4>. QED
        BY <4>1, <4>2
    <3>10. g > 1 => Cardinality(PastIn(k, g - 1)) = args.threshold
      <4>1. g > 1 => g - 1 \in 1..(h - 1)
        BY <3>3, <3>7
      <4>. QED
        BY <3>5, <4>1 DEF FilledTo
    <3>. QED
      BY <2>3, <3>1, <3>9, <3>10
  <2>5. Filled(disk)
    BY <2>2, <2>4 DEF Filled, FillInv
  <2>6. ASSUME \A p \in Movable(disk) : p.dir[2] <= OneDigit,
               NEW p \in Movable(disk), NEW q \in Movable(disk), p.dir[1] = q.dir[1],
               Before(Record(disk, p, 1), Record(disk, q, 1))
        PROVE  p.dir[2] <= q.dir[2]
    <3>1. Boxed(p) /\ Boxed(q)
      BY <2>2 DEF FillInv
    <3>2. p.dir[2] \in Nat /\ q.dir[2] \in Nat
      BY PlacesAreTyped DEF Movable, TypeInv, IsTree
    <3>3. CASE Ahead(Record(disk, p, 1), Record(disk, q, 1))
      BY <2>2, <2>6, <3>3 DEF FillInv
    <3>4. CASE PathBefore(p, q)
      <4>1. GroupBefore(p.dir[2], q.dir[2]) /\ p.dir[2] <= OneDigit /\ q.dir[2] <= OneDigit
        BY <2>6, <3>1, <3>4 DEF PathBefore
      <4>. QED
        BY <3>2, <4>1, SmallGroups
    <3>5. Record(disk, p, 1).place = p /\ Record(disk, q, 1).place = q
      BY DEF Record
    <3>. QED
      BY <2>6, <3>3, <3>4, <3>5 DEF Before
  <2>. QED
    BY <2>5, <2>6 DEF Arranged
<1>2. Init => ListInv
  BY DEF Init, ListInv
<1>3. TypeInv /\ TreeInv /\ ListInv /\ FillInv /\ [Next]_vars =>
        (TypeInv /\ TreeInv /\ ListInv /\ FillInv)'
  BY TypeStep, TreeStep, ListStep, FillStep
<1>. QED
  BY <1>1, <1>2, <1>3, TypeInit, TreeInit, FillInit, PTL DEF Spec
----------------------------------------------------------------------------
(* A run comes to its end (src/main.cpp:176-432).                          *)
RunInv ==
    /\ IsFiniteSet(todo)
    /\ IsFiniteSet(files)

LEMMA FirstIsFinite ==
    ASSUME TypeInv, NEW a \in Args, StartRun(a)
    PROVE  IsFiniteSet(todo')
<1>1. Len(a.dirs) \in Nat /\ DOMAIN a.dirs = 1..Len(a.dirs)
  <2>1. a.dirs \in Seq(Root)
    BY CallsAreTyped
  <2>. QED
    BY <2>1
<1>2. PICK listed : listed = todo'
  OBVIOUS
<1>3. \A f \in listed :
          \E i \in DOMAIN a.dirs, p \in DOMAIN disk : f = Record(disk, p, i)
  BY <1>2 DEF StartRun
<1>4. \A f \in listed :
          f.place \in DOMAIN disk /\ f.arg \in DOMAIN a.dirs /\ f = Record(disk, f.place, f.arg)
  BY <1>3 DEF Record
<1>. DEFINE Where == [f \in listed |-> <<f.place, f.arg>>]
<1>5. Where \in Injection(listed, (DOMAIN disk) \X (DOMAIN a.dirs))
  <2>1. Where \in [listed -> (DOMAIN disk) \X (DOMAIN a.dirs)]
    BY <1>4
  <2>2. ASSUME NEW f \in listed, NEW g \in listed, Where[f] = Where[g] PROVE f = g
    <3>1. f.place = g.place /\ f.arg = g.arg
      BY <2>2
    <3>. QED
      BY <1>4, <3>1
  <2>. HIDE DEF Where
  <2>. QED
    BY <2>1, <2>2 DEF Injection, IsInjective
<1>6. IsFiniteSet((DOMAIN disk) \X (DOMAIN a.dirs))
  <2>1. IsFiniteSet(1..Len(a.dirs))
    BY <1>1, FS_Interval
  <2>. QED
    BY <1>1, <2>1, FS_Product DEF TypeInv, IsTree
<1>. HIDE DEF Where
<1>. QED
  BY <1>2, <1>5, <1>6, FS_Injection

LEMMA RunInit == Init => RunInv
BY FS_EmptySet DEF Init, RunInv

LEMMA RunStep == TypeInv /\ RunInv /\ [Next]_vars => RunInv'
<1>. SUFFICES ASSUME TypeInv, RunInv, [Next]_vars PROVE RunInv'
  OBVIOUS
<1>. USE DEF RunInv
<1>1. ASSUME NEW a \in Args, StartRun(a) PROVE RunInv'
  BY <1>1, FirstIsFinite, FS_EmptySet DEF StartRun
<1>2. ASSUME NEW f \in todo, FetchFile(f) PROVE RunInv'
  <2>1. IsFiniteSet(todo \ {f}) /\ IsFiniteSet(files \cup {f})
    BY FS_RemoveElement, FS_AddElement
  <2>. QED
    BY <1>2, <2>1 DEF FetchFile, runVars
<1>3. ASSUME NEW f \in files, BoxFile(f) PROVE RunInv'
  <2>1. IsFiniteSet(files \ {f})
    BY FS_RemoveElement
  <2>. QED
    BY <1>3, <2>1, BoxedTree
<1>4. ASSUME NEW f \in files, Drops(f) PROVE RunInv'
  <2>1. IsFiniteSet(files \ {f})
    BY FS_RemoveElement
  <2>. QED
    BY <1>4, <2>1 DEF Drops, runVars
<1>5. CASE Idles
  BY <1>5 DEF Idles, runVars
<1>. QED
  BY <1>1, <1>2, <1>3, <1>4, <1>5, StepKinds

LEMMA StepsAreCounted ==
    ASSUME RunInv
    PROVE  Cardinality(todo) \in Nat /\ Cardinality(files) \in Nat
BY FS_CardinalityType DEF RunInv

(* A run takes no more steps than twice the entries below its arguments    *)
(* and two (fetchfiles() and boxfiles(), src/main.cpp:176-210, 305-432),   *)
(* for any number of them and whatever is passed over; it is killed only   *)
(* for -t 0.                                                               *)
THEOREM RunsAdvance == Spec => RunAdvances
<1>1. TypeInv /\ RunInv /\ [Next]_vars =>
          [/\ Program => StepsLeft' \in 0..(StepsLeft - 1)
           /\ pc' = "killed" => args'.threshold = 0]_vars
  <2>. SUFFICES ASSUME TypeInv, RunInv, Next, vars' # vars
                PROVE  /\ Program => StepsLeft' \in 0..(StepsLeft - 1)
                       /\ pc' = "killed" => args'.threshold = 0
    OBVIOUS
  <2>1. Cardinality(todo) \in Nat /\ Cardinality(files) \in Nat
    BY StepsAreCounted
  <2>2. ASSUME NEW f \in todo, FetchFile(f)
        PROVE  StepsLeft' \in 0..(StepsLeft - 1) /\ pc' = "fetch"
    <3>1. Cardinality(todo') = Cardinality(todo) - 1
      BY <2>2, FS_RemoveElement DEF FetchFile, RunInv
    <3>2. Cardinality(files') \in {Cardinality(files), Cardinality(files) + 1}
      BY <2>2, FS_AddElement DEF FetchFile, RunInv
    <3>3. pc = "fetch" /\ pc' = "fetch" /\ Cardinality(todo) # 0
      BY <2>2, FS_EmptySet DEF FetchFile, RunInv
    <3>. QED
      BY <2>1, <3>1, <3>2, <3>3 DEF StepsLeft
  <2>3. ASSUME pc = "box", pc' = "box", NEW f \in files, files' = files \ {f}
        PROVE  StepsLeft' \in 0..(StepsLeft - 1) /\ pc' = "box"
    <3>1. Cardinality(files') = Cardinality(files) - 1
      BY <2>3, FS_RemoveElement DEF RunInv
    <3>2. Cardinality(files) # 0
      BY <2>3, FS_EmptySet DEF RunInv
    <3>. QED
      BY <2>1, <2>3, <3>1, <3>2 DEF StepsLeft
  <2>4. ASSUME NEW f \in files, BoxFile(f) \/ RenameFails(f) \/ SkipFile(f)
        PROVE  StepsLeft' \in 0..(StepsLeft - 1) /\ pc' = "box"
    BY <2>3, <2>4 DEF BoxFile, RenameFails, SkipFile, IsBoxed, NextFile
  <2>5. CASE FetchDone
    BY <2>1, <2>5 DEF FetchDone, StepsLeft
  <2>6. CASE BoxDone
    BY <2>1, <2>6 DEF BoxDone, StepsLeft
  <2>7. ASSUME NEW f \in files, Hang(f)
        PROVE  StepsLeft' \in 0..(StepsLeft - 1) /\ pc' = "hung"
    <3>1. pc = "box" /\ pc' = "hung"
      BY <2>7 DEF Hang, NextFile
    <3>. QED
      BY <2>1, <3>1 DEF StepsLeft
  <2>8. ASSUME NEW f \in files, Divide(f)
        PROVE  StepsLeft' \in 0..(StepsLeft - 1) /\ pc' = "killed" /\ args'.threshold = 0
    <3>1. pc = "box" /\ pc' = "killed" /\ args' = args /\ args.threshold = 0
      BY <2>8 DEF Divide, NextFile, DividesByZero, runVars
    <3>. QED
      BY <2>1, <3>1 DEF StepsLeft
  <2>9. CASE Program
    BY <2>2, <2>4, <2>5, <2>6, <2>7, <2>8, <2>9 DEF Program, FetchDone, BoxDone
  <2>10. CASE Stop
    <3>1. pc' = "stopped" /\ pc \in {"fetch", "box", "hung"} /\ UNCHANGED <<todo, files>>
      BY <2>10 DEF Stop
    <3>2. ~Program
      BY <3>1, <2>2, <2>4, <2>7, <2>8 DEF Program, FetchDone, BoxDone
    <3>. QED
      BY <3>1, <3>2
  <2>11. ASSUME NEW a \in Args, StartRun(a)
         PROVE  pc' = "fetch" /\ ~Program
    BY <2>11, <2>2 DEF StartRun, Program, FetchFile, FetchDone, BoxFile, RenameFails, SkipFile,
          Hang, Divide, BoxDone, IsBoxed, NextFile
  <2>. QED
    BY <2>9, <2>10, <2>11 DEF Next
<1>. QED
  BY <1>1, TypeInit, TypeStep, RunInit, RunStep, PTL DEF Spec, RunAdvances

(* The groups are in a strict order.                                       *)
LEMMA GroupsInOrder ==
    ASSUME NEW l \in Nat, NEW m \in Nat, NEW n \in Nat
    PROVE  ~GroupBefore(m, m) /\ (GroupBefore(l, m) /\ GroupBefore(m, n) => GroupBefore(l, n))
<1>1. ASSUME NEW x \in Nat, NEW y \in Nat, NEW z \in Nat, x < y, y < z
      PROVE  /\ <<x, z>> \in Inverted => <<x, y>> \in Inverted \/ <<y, z>> \in Inverted
             /\ <<x, y>> \in Inverted /\ <<y, z>> \in Inverted => <<x, z>> \in Inverted
  <2>1. y \in (x + 1)..(z - 1)
    BY <1>1
  <2>2. ASSUME <<x, z>> \in Inverted
        PROVE  <<x, y>> \in Inverted \/ <<y, z>> \in Inverted
    <3>1. PICK o \in Inverted : o = <<x, z>>
      BY <2>2
    <3>2. \A i \in (o[1] + 1)..(o[2] - 1) : <<o[1], i>> \in Inverted \/ <<i, o[2]>> \in Inverted
      BY TidyAssumption DEF TidyAssumption
    <3>. QED
      BY <2>1, <3>1, <3>2
  <2>3. ASSUME <<x, y>> \in Inverted, <<y, z>> \in Inverted PROVE <<x, z>> \in Inverted
    <3>1. PICK o \in Inverted, r \in Inverted : o = <<x, y>> /\ r = <<y, z>>
      BY <2>3
    <3>2. o[2] = r[1] => <<o[1], r[2]>> \in Inverted
      BY TidyAssumption DEF TidyAssumption
    <3>. QED
      BY <3>1, <3>2
  <2>. QED
    BY <2>2, <2>3
<1>2. ~GroupBefore(m, m)
  BY DEF GroupBefore
<1>3. ASSUME GroupBefore(l, m), GroupBefore(m, n) PROVE GroupBefore(l, n)
  <2>1. CASE l < m /\ m < n
    BY <1>1, <1>3, <2>1 DEF GroupBefore
  <2>2. CASE l < m /\ n < m
    BY <1>1, <1>3, <2>2 DEF GroupBefore
  <2>3. CASE m < l /\ m < n
    BY <1>1, <1>3, <2>3 DEF GroupBefore
  <2>4. CASE m < l /\ n < m
    BY <1>1, <1>3, <2>4 DEF GroupBefore
  <2>. QED
    BY <1>3, <2>1, <2>2, <2>3, <2>4 DEF GroupBefore
<1>. QED
  BY <1>2, <1>3

(* file::operator< is a strict order.                                      *)
LEMMA BeforeIsOrder ==
    ASSUME NEW f \in FileRecord, NEW g \in FileRecord, NEW h \in FileRecord
    PROVE  ~Before(f, f) /\ (Before(f, g) /\ Before(g, h) => Before(f, h))
<1>1. /\ f.size \in Nat /\ g.size \in Nat /\ h.size \in Nat
      /\ f.place \in Place /\ g.place \in Place /\ h.place \in Place
  BY SizesAreNat DEF FileRecord
<1>2. ASSUME NEW p \in Place
      PROVE  NameKey[p.name] \in Nat /\ p.dir[2] \in Nat
  BY <1>2, TidyAssumption DEF TidyAssumption, Place
<1>3. ~PathBefore(f.place, f.place)
  BY <1>1, <1>2, GroupsInOrder DEF PathBefore
<1>4. PathBefore(f.place, g.place) /\ PathBefore(g.place, h.place)
          => PathBefore(f.place, h.place)
  BY <1>1, <1>2, GroupsInOrder DEF PathBefore, Boxed
<1>5. NameKey[f.place.name] \in Nat /\ NameKey[g.place.name] \in Nat
      /\ NameKey[h.place.name] \in Nat
  BY <1>1, <1>2
<1>. QED
  BY <1>1, <1>3, <1>4, <1>5 DEF Before, Ahead

(* std::sort() always has a file to put first, though file::operator<      *)
(* (src/main.cpp:89-99) leaves some files unordered: boxfiles() has a next *)
(* file as long as there are any.                                          *)
THEOREM OneIsNext ==
    Spec => [](pc = "box" /\ files # {} => \E f \in files : NextFile(f))
<1>1. TypeInv /\ RunInv => (pc = "box" /\ files # {} => \E f \in files : NextFile(f))
  <2>. SUFFICES ASSUME TypeInv, RunInv, pc = "box", files # {}
                PROVE  \E f \in files : NextFile(f)
    OBVIOUS
  <2>. DEFINE Earlier(f) == {g \in files : Before(g, f)}
              S == {Earlier(f) : f \in files}
  <2>1. S \subseteq FiniteSubsetsOf(files) /\ S # {}
    <3>1. \A f \in files : IsFiniteSet(Earlier(f)) /\ Earlier(f) \subseteq files
      BY FS_Subset DEF RunInv
    <3>. QED
      BY <3>1 DEF FiniteSubsetsOf
  <2>2. IsWellFoundedOn(StrictSubsetOrdering(files), FiniteSubsetsOf(files))
    BY FS_StrictSubsetOrderingWellFounded
  <2>3. PICK s \in S : \A t \in S : ~ (<<t, s>> \in StrictSubsetOrdering(files))
    <3>. HIDE DEF S
    <3>. QED
      BY <2>1, <2>2, WFMin
  <2>4. PICK f \in files : s = Earlier(f)
    BY <2>3
  <2>5. ASSUME NEW g \in files, Before(g, f) PROVE FALSE
    <3>1. files \subseteq FileRecord
      BY DEF TypeInv
    <3>2. g \in Earlier(f) /\ g \notin Earlier(g)
      BY <2>5, <3>1, BeforeIsOrder
    <3>3. Earlier(g) \subseteq Earlier(f)
      BY <2>5, <3>1, BeforeIsOrder
    <3>4. <<Earlier(g), Earlier(f)>> \in StrictSubsetOrdering(files)
      <4>1. Earlier(g) \subseteq files /\ Earlier(f) \subseteq files
        OBVIOUS
      <4>. HIDE DEF Earlier
      <4>. QED
        BY <3>2, <3>3, <4>1 DEF StrictSubsetOrdering
    <3>. QED
      BY <2>3, <2>4, <2>5, <3>4
  <2>. QED
    BY <2>5 DEF NextFile
<1>. QED
  BY <1>1, TypeInit, TypeStep, RunInit, RunStep, PTL DEF Spec
=============================================================================
