---------------------------- MODULE EntriesProofs ----------------------------
(***************************************************************************)
(* Proofs about the index of metafs, for every set of source files, every  *)
(* layout and any number of directory names.                               *)
(***************************************************************************)
EXTENDS Entries, FiniteSetTheorems, SequenceTheorems, TLAPS

(* The pcs at which add_file() is placing a file, and those at which it    *)
(* still has a component of the layout ahead of it.                        *)
Placing == {"intern", "assign", "reverse", "child", "link"}
Descending == {"assign", "reverse", "child", "link"}

ScannerInv ==
    /\ scanner.pc \in Placing =>
        scanner.file \in Source /\ Len(scanner.cur) <= Len(scanner.parts)
    /\ scanner.pc \in Descending => Len(scanner.cur) < Len(scanner.parts)

TypeInv == TypeOK /\ ScannerInv

----------------------------------------------------------------------------
(* Put() keeps a function within its types.                                *)
LEMMA PutType ==
    ASSUME NEW S, NEW T, NEW f, DOMAIN f \subseteq S, \A j \in DOMAIN f : f[j] \in T,
           NEW k \in S, NEW v \in T
    PROVE  /\ DOMAIN Put(f, k, v) \subseteq S
           /\ \A j \in DOMAIN Put(f, k, v) : Put(f, k, v)[j] \in T
  BY DEF Put

(* The number that get_string_index() gives out is a natural number: the   *)
(* keys are finitely many.                                                 *)
LEMMA IndexFinite ==
    ASSUME TypeOK
    PROVE  /\ IsFiniteSet(DOMAIN string_index)
           /\ Cardinality(DOMAIN string_index) \in Nat
  BY KeyAssumption, FS_Subset, FS_CardinalityType DEF TypeOK

(* The part add_file() is at is one of the layout's keys.                  *)
LEMMA CurKeyType ==
    ASSUME TypeInv,
           \/ scanner.pc \in Descending
           \/ scanner.pc = "intern" /\ Len(scanner.cur) < Len(scanner.parts)
    PROVE  CurKey \in Key
  BY DEF TypeInv, TypeOK, ScannerInv, Scanner, CurKey, Descending, Node

(* delete_file() changes nothing of any entry but its flag, and that only  *)
(* to true.                                                                *)
LEMMA MarkEffect ==
    ASSUME TypeOK, NEW dir, NEW name, MarkDeleted(dir, name)
    PROVE  /\ files' \in Seq(Entry)
           /\ Len(files') = Len(files)
           /\ \A j \in 1..Len(files) :
                /\ files'[j].name = files[j].name
                /\ files'[j].file = files[j].file
                /\ files'[j].dir = files[j].dir
                /\ files[j].deleted => files'[j].deleted
<1>1. PICK m : files' = [files EXCEPT ![m].deleted = TRUE]
  BY DEF MarkDeleted
<1>t. files \in Seq(Entry)
  BY DEF TypeOK
<1>2. CASE m \in 1..Len(files)
  <2>1. files[m] \in Entry
    BY <1>t, <1>2
  <2>2. PICK e \in Entry :
            /\ files' = [files EXCEPT ![m] = e]
            /\ e.name = files[m].name /\ e.file = files[m].file /\ e.dir = files[m].dir
            /\ e.deleted = TRUE
    <3> DEFINE e == [files[m] EXCEPT !.deleted = TRUE]
    <3>1. /\ e \in Entry
          /\ e.name = files[m].name /\ e.file = files[m].file /\ e.dir = files[m].dir
          /\ e.deleted = TRUE
      BY <2>1 DEF Entry
    <3> QED
      BY <1>1, <3>1
  <2>3. /\ files' \in Seq(Entry) /\ Len(files') = Len(files)
        /\ \A j \in 1..Len(files) : files'[j] = IF j = m THEN e ELSE files[j]
    BY <1>t, <1>2, <2>2
  <2> QED
    BY <2>2, <2>3
<1>3. CASE m \notin 1..Len(files)
  <2>1. files \in [1..Len(files) -> Entry]
    BY <1>t
  <2>2. files' = files
    BY <1>1, <1>3, <2>1
  <2> QED
    BY <1>t, <2>2
<1> QED
  BY <1>2, <1>3

LEMMA TypeInit == EntriesInit => TypeInv
  BY SourcesAssumption
  DEF EntriesInit, TypeInv, TypeOK, ScannerInv, Scanner, ScannerPC, Node, Root,
      Placing, Descending, Entry

LEMMA TypeStep == TypeInv /\ [EntriesNext]_entriesVars => TypeInv'
<1> SUFFICES ASSUME TypeInv, [EntriesNext]_entriesVars PROVE TypeInv'
  OBVIOUS
<1> USE DEF TypeInv
<1>1. CASE ScanDone
  BY <1>1 DEF ScanDone, At, TypeOK, ScannerInv, Scanner, ScannerPC, Placing, Descending
<1>2. CASE SkipDir
  <2>1. Tail(scanner.stack) \in Seq(SourceDir)
    BY <1>2 DEF SkipDir, TypeOK, Scanner
  <2>2. Head(scanner.stack) \in SourceDir
    BY <1>2 DEF SkipDir, TypeOK, Scanner
  <2>3. scanner.refused \cup {Head(scanner.stack)} \in SUBSET SourceDir
    BY <2>2 DEF TypeOK, Scanner
  <2>4. scanner \in Scanner
    BY DEF TypeOK
  <2>5. scanner' \in Scanner
    BY ONLY <1>2, <2>1, <2>3, <2>4 DEF SkipDir, Scanner
  <2> QED
    BY <1>2, <2>5 DEF SkipDir, At, TypeOK, ScannerInv, Scanner
<1>3. CASE OpenDir
  <2>1. Head(scanner.stack) \in SourceDir /\ Tail(scanner.stack) \in Seq(SourceDir)
    BY <1>3 DEF OpenDir, At, TypeOK, Scanner
  <2>2. /\ FilesIn[Head(scanner.stack)] \in SUBSET Source
        /\ SubDirs[Head(scanner.stack)] \o Tail(scanner.stack) \in Seq(SourceDir)
    BY <2>1, SourcesAssumption
  <2>3. scanner' \in Scanner
    BY <1>3, <2>2 DEF OpenDir, TypeOK, Scanner, ScannerPC
  <2> QED
    BY <1>3, <2>3 DEF OpenDir, TypeOK, Scanner, ScannerInv, Placing, Descending
<1>4. CASE CloseDir
  BY <1>4 DEF CloseDir, At, TypeOK, ScannerInv, Scanner, ScannerPC, Placing, Descending
<1>5. ASSUME NEW f \in Source, SkipFile(f) PROVE TypeInv'
  BY <1>5 DEF SkipFile, At, TypeOK, ScannerInv, Scanner, ScannerPC, Placing, Descending
<1>6. ASSUME NEW f \in Source, Abort(f) PROVE TypeInv'
  BY <1>6 DEF Abort, At, TypeOK, ScannerInv, Scanner, ScannerPC, Placing, Descending
<1>7. ASSUME NEW f \in Source, Classify(f) PROVE TypeInv'
  <2>1. PICK parts \in PathParts[f] :
            scanner' = [scanner EXCEPT !.pc = "intern", !.todo = @ \ {f}, !.file = f,
                                       !.parts = parts, !.cur = Root]
    BY <1>7 DEF Classify
  <2>2. parts \in Seq(Key)
    BY PathPartsAssumption
  <2>3. Root \in Node /\ Len(Root) = 0
    BY DEF Root, Node
  <2>4. scanner' \in Scanner
    BY <2>1, <2>2, <2>3 DEF TypeOK, Scanner, ScannerPC
  <2> QED
    BY <1>7, <2>1, <2>2, <2>3, <2>4
    DEF Classify, TypeOK, Scanner, ScannerInv, Placing, Descending
<1>8. CASE InternKnown
  <2>1. string_index[CurKey] \in Nat
    BY <1>8 DEF InternKnown, TypeOK
  <2> QED
    BY <1>8, <2>1 DEF InternKnown, At, TypeOK, ScannerInv, Scanner, ScannerPC,
                      Placing, Descending
<1>9. CASE InternNew
  <2>1. CurKey \in Key /\ 0 \in Nat
    BY <1>9, CurKeyType DEF InternNew, At
  <2>2. scanner' \in Scanner
    BY <1>9, IndexFinite DEF InternNew, TypeOK, Scanner, ScannerPC
  <2>3. DOMAIN string_index' \subseteq Key /\ \A k \in DOMAIN string_index' : string_index'[k] \in Nat
    BY <1>9, <2>1, PutType DEF InternNew, TypeOK
  <2> QED
    BY <1>9, <2>2, <2>3 DEF InternNew, At, TypeOK, ScannerInv, Scanner, Placing, Descending
<1>10. CASE InternAssign
  <2>1. CurKey \in Key /\ scanner.idx \in Nat
    BY <1>10, CurKeyType DEF InternAssign, At, Descending, TypeOK, Scanner
  <2>2. DOMAIN string_index' \subseteq Key /\ \A k \in DOMAIN string_index' : string_index'[k] \in Nat
    BY <1>10, <2>1, PutType DEF InternAssign, TypeOK
  <2> QED
    BY <1>10, <2>2 DEF InternAssign, At, TypeOK, ScannerInv, Scanner, ScannerPC,
                       Placing, Descending
<1>11. CASE InternReverse
  <2>1. CurKey \in Key /\ scanner.idx \in Nat
    BY <1>11, CurKeyType DEF InternReverse, At, Descending, TypeOK, Scanner
  <2>2. /\ DOMAIN string_reverse_index' \subseteq Nat
        /\ \A i \in DOMAIN string_reverse_index' : string_reverse_index'[i] \in Key
    BY <1>11, <2>1, PutType DEF InternReverse, TypeOK
  <2> QED
    BY <1>11, <2>2 DEF InternReverse, At, TypeOK, ScannerInv, Scanner, ScannerPC,
                       Placing, Descending
<1>12. CurChild \in Node /\ Len(CurChild) = Len(scanner.cur) + 1
  BY DEF CurChild, TypeOK, Scanner, Node
<1>13. CASE ChildKnown
  <2>1. scanner' \in Scanner
    BY <1>12, <1>13 DEF ChildKnown, TypeOK, Scanner, ScannerPC
  <2> QED
    BY <1>12, <1>13, <2>1 DEF ChildKnown, At, TypeOK, ScannerInv, Scanner, Placing, Descending
<1>14. CASE ChildNew
  BY <1>12, <1>14 DEF ChildNew, At, TypeOK, ScannerInv, Scanner, ScannerPC, Placing,
                      Descending
<1>15. CASE ChildLink
  <2>1. scanner' \in Scanner
    BY <1>12, <1>15 DEF ChildLink, TypeOK, Scanner, ScannerPC
  <2> QED
    BY <1>12, <1>15, <2>1 DEF ChildLink, At, TypeOK, ScannerInv, Scanner, Placing, Descending
<1>16. CASE PushFile
  <2>1. scanner.file \in Source /\ scanner.cur \in Node
    BY <1>16 DEF PushFile, At, TypeOK, ScannerInv, Scanner, Placing
  <2>2. [name |-> [base |-> BaseName[scanner.file], num |-> num_files],
         file |-> scanner.file, dir |-> scanner.cur, deleted |-> FALSE] \in Entry
    BY <2>1, SourcesAssumption DEF Entry, Name, TypeOK
  <2>3. files' \in Seq(Entry) /\ num_files' \in Nat
    BY <1>16, <2>2 DEF PushFile, TypeOK
  <2> QED
    BY <1>16, <2>3 DEF PushFile, At, TypeOK, ScannerInv, Scanner, ScannerPC, Placing,
                       Descending
<1>17. ASSUME NEW i \in DOMAIN files, MarkDeleted(files[i].dir, files[i].name)
       PROVE  TypeInv'
  BY <1>17, MarkEffect DEF MarkDeleted, TypeOK, ScannerInv
<1>18. ASSUME NEW f \in disk, RemoveSource(f) PROVE TypeInv'
  BY <1>18 DEF RemoveSource, TypeOK, ScannerInv
<1>19. ASSUME NEW f \in Source, CreateSource(f) PROVE TypeInv'
  BY <1>19 DEF CreateSource, TypeOK, ScannerInv
<1>20. CASE LoseScanner
  BY <1>20 DEF LoseScanner, TypeOK, ScannerInv, Scanner
<1>21. CASE UNCHANGED entriesVars
  BY <1>21 DEF entriesVars, TypeOK, ScannerInv
<1> QED
  BY <1>1, <1>2, <1>3, <1>4, <1>5, <1>6, <1>7, <1>8, <1>9, <1>10, <1>11, <1>13,
     <1>14, <1>15, <1>16, <1>17, <1>18, <1>19, <1>20, <1>21
  DEF EntriesNext, ScannerStep

(* The index keeps its types, and add_file() never runs past the end of a  *)
(* file's layout.                                                          *)
THEOREM TypeCorrect == EntriesSpec => [](TypeOK /\ ScannerInv)
  BY TypeInit, TypeStep, PTL DEF EntriesSpec, TypeInv
----------------------------------------------------------------------------
(* The numbers handed out so far are 0, 1, ... without a gap.  While a name *)
(* is being interned the last one is not in the reverse map yet.           *)
Given == IF Interning THEN scanner.idx ELSE Cardinality(DOMAIN string_index)

IndexInv ==
    /\ DOMAIN string_reverse_index = {i \in Nat : i < Given}
    /\ Interning => /\ CurKey \in DOMAIN string_index
                    /\ Cardinality(DOMAIN string_index) = scanner.idx + 1
    /\ scanner.pc = "reverse" => string_index[CurKey] = scanner.idx
    /\ \A k \in DOMAIN string_index :
        (Interning /\ k = CurKey) \/
        /\ string_index[k] \in DOMAIN string_reverse_index
        /\ string_reverse_index[string_index[k]] = k
    /\ \A i \in DOMAIN string_reverse_index :
        /\ string_reverse_index[i] \in DOMAIN string_index
        /\ string_index[string_reverse_index[i]] = i
        /\ Interning => string_reverse_index[i] # CurKey

LEMMA IndexInit == EntriesInit => IndexInv
<1> SUFFICES ASSUME EntriesInit PROVE IndexInv
  OBVIOUS
<1>1. DOMAIN string_index = {} /\ DOMAIN string_reverse_index = {} /\ ~Interning
  BY DEF EntriesInit, Interning
<1>2. Given = 0
  BY <1>1, FS_EmptySet DEF Given
<1> QED
  BY <1>1, <1>2 DEF IndexInv, EntriesInit

(* The steps that touch neither map nor are inside get_string_index().     *)
LEMMA IndexKept ==
    ASSUME IndexInv, ~Interning, ~Interning',
           UNCHANGED <<string_index, string_reverse_index>>
    PROVE  IndexInv'
  BY DEF IndexInv, Given, Interning

LEMMA IndexStep == TypeInv /\ IndexInv /\ [EntriesNext]_entriesVars => IndexInv'
<1> SUFFICES ASSUME TypeInv, IndexInv, [EntriesNext]_entriesVars PROVE IndexInv'
  OBVIOUS
<1>t. TypeOK /\ IsFiniteSet(DOMAIN string_index) /\ Cardinality(DOMAIN string_index) \in Nat
  BY IndexFinite DEF TypeInv
<1>s. scanner \in Scanner
  BY <1>t DEF TypeOK
<1>1. ASSUME UNCHANGED <<string_index, string_reverse_index, scanner>> PROVE IndexInv'
  BY <1>1 DEF IndexInv, Given, Interning, CurKey
<1>2. CASE ScanDone \/ SkipDir \/ OpenDir \/ CloseDir
  BY <1>2, <1>s, IndexKept DEF ScanDone, SkipDir, OpenDir, CloseDir, At, Interning, Scanner
<1>3. ASSUME NEW f \in Source, SkipFile(f) \/ Abort(f) \/ Classify(f) PROVE IndexInv'
  BY <1>3, <1>s, IndexKept DEF SkipFile, Abort, Classify, At, Interning, Scanner
<1>4. CASE InternKnown \/ ChildKnown \/ ChildNew \/ ChildLink \/ PushFile
  BY <1>4, <1>s, IndexKept DEF InternKnown, ChildKnown, ChildNew, ChildLink, PushFile, At,
                               Interning, Scanner
<1>5. CASE InternNew
  <2> DEFINE n == Cardinality(DOMAIN string_index)
  <2>1. /\ ~Interning /\ Interning' /\ scanner'.pc = "assign"
        /\ scanner'.idx = n /\ CurKey' = CurKey
    BY <1>5, <1>s DEF InternNew, At, Interning, CurKey, Scanner
  <2>2. DOMAIN string_index' = DOMAIN string_index \cup {CurKey}
    BY <1>5 DEF InternNew, Put
  <2>3. Cardinality(DOMAIN string_index') = n + 1
    BY <1>5, <1>t, <2>2, FS_AddElement DEF InternNew
  <2>4. \A k \in DOMAIN string_index : k # CurKey /\ string_index'[k] = string_index[k]
    BY <1>5 DEF InternNew, Put
  <2>5. string_reverse_index' = string_reverse_index
    BY <1>5 DEF InternNew
  <2>6. DOMAIN string_reverse_index' = {i \in Nat : i < Given'}
    BY <2>1, <2>5 DEF IndexInv, Given
  <2>7. Cardinality(DOMAIN string_index)' = scanner'.idx + 1
    BY <2>1, <2>3
  <2> HIDE DEF n
  <2> QED
    BY <2>1, <2>2, <2>4, <2>5, <2>6, <2>7 DEF IndexInv
<1>6. CASE InternAssign
  <2>1. /\ scanner.pc = "assign" /\ scanner'.pc = "reverse" /\ scanner'.idx = scanner.idx
        /\ CurKey' = CurKey /\ string_reverse_index' = string_reverse_index
    BY <1>6, <1>s DEF InternAssign, At, CurKey, Scanner
  <2>2. Interning /\ Interning'
    BY <2>1 DEF Interning
  <2>3. DOMAIN string_index' = DOMAIN string_index /\ string_index'[CurKey] = scanner.idx
    BY <1>6, <2>2 DEF InternAssign, IndexInv, Put
  <2>4. \A k \in DOMAIN string_index : k # CurKey => string_index'[k] = string_index[k]
    BY <1>6 DEF InternAssign, Put
  <2>5. Given' = Given
    BY <2>1, <2>2 DEF Given
  <2> QED
    BY <2>1, <2>2, <2>3, <2>4, <2>5 DEF IndexInv
<1>7. CASE InternReverse
  <2>1. /\ scanner.pc = "reverse" /\ scanner'.pc = "child"
        /\ CurKey' = CurKey /\ string_index' = string_index
    BY <1>7, <1>s DEF InternReverse, At, CurKey, Scanner
  <2>2. Interning /\ ~Interning'
    BY <2>1 DEF Interning
  <2>3. scanner.idx \in Nat /\ scanner.idx \notin DOMAIN string_reverse_index
    BY <1>s, <2>2 DEF IndexInv, Given, Scanner
  <2>4. /\ DOMAIN string_reverse_index' = DOMAIN string_reverse_index \cup {scanner.idx}
        /\ string_reverse_index'[scanner.idx] = CurKey
    BY <1>7 DEF InternReverse, Put
  <2>5. \A i \in DOMAIN string_reverse_index :
            string_reverse_index'[i] = string_reverse_index[i]
    BY <1>7, <2>3 DEF InternReverse, Put
  <2>6. Given = scanner.idx /\ Given' = scanner.idx + 1
    BY <2>1, <2>2 DEF Given, IndexInv
  <2>7. DOMAIN string_reverse_index' = {i \in Nat : i < Given'}
    BY <2>3, <2>4, <2>6 DEF IndexInv
  <2>8. string_index[CurKey] = scanner.idx /\ CurKey \in DOMAIN string_index
    BY <2>1, <2>2 DEF IndexInv
  <2>9. ~(scanner'.pc = "reverse")
    BY <2>1
  <2> QED
    <3>1. \A k \in DOMAIN string_index' :
            /\ string_index'[k] \in DOMAIN string_reverse_index'
            /\ string_reverse_index'[string_index'[k]] = k
      BY <2>1, <2>2, <2>4, <2>5, <2>8 DEF IndexInv
    <3>2. \A i \in DOMAIN string_reverse_index' :
            /\ string_reverse_index'[i] \in DOMAIN string_index'
            /\ string_index'[string_reverse_index'[i]] = i
      BY <2>1, <2>2, <2>4, <2>5, <2>8 DEF IndexInv
    <3> QED
      BY <2>2, <2>7, <2>9, <3>1, <3>2 DEF IndexInv
<1>8. CASE LoseScanner
  <2>1. /\ scanner'.pc = scanner.pc /\ scanner'.idx = scanner.idx
        /\ scanner'.cur = scanner.cur /\ scanner'.parts = scanner.parts
        /\ UNCHANGED <<string_index, string_reverse_index>>
    BY <1>8, <1>s DEF LoseScanner, Scanner
  <2> QED
    BY <2>1 DEF IndexInv, Given, Interning, CurKey
<1>9. ASSUME NEW i \in DOMAIN files, MarkDeleted(files[i].dir, files[i].name)
      PROVE  IndexInv'
  BY <1>1, <1>9 DEF MarkDeleted
<1>10. ASSUME NEW f \in Source \cup disk, RemoveSource(f) \/ CreateSource(f) PROVE IndexInv'
  BY <1>1, <1>10 DEF RemoveSource, CreateSource
<1>11. CASE UNCHANGED entriesVars
  BY <1>1, <1>11 DEF entriesVars
<1> QED
  BY <1>2, <1>3, <1>4, <1>5, <1>6, <1>7, <1>8, <1>9, <1>10, <1>11
  DEF EntriesNext, ScannerStep

(* get_string_index() gives every directory name one number and every      *)
(* number to one name, at whatever step of the scan the maps are looked at *)
(* and whatever files come and go: only the name that is being interned    *)
(* may be out of step.                                                     *)
THEOREM IndexCorrect == EntriesSpec => []IndexConsistent
<1>1. EntriesInit => TypeInv /\ IndexInv
  BY TypeInit, IndexInit
<1>2. TypeInv /\ IndexInv /\ [EntriesNext]_entriesVars => (TypeInv /\ IndexInv)'
  BY TypeStep, IndexStep
<1>3. IndexInv => IndexConsistent
  BY DEF IndexInv, IndexConsistent
<1> QED
  BY <1>1, <1>2, <1>3, PTL DEF EntriesSpec
----------------------------------------------------------------------------
(* Every number in a name has been counted.                                *)
NamesInv ==
    /\ \A i \in DOMAIN files : files[i].name.num < num_files
    /\ UniqueNames

LEMMA NamesStep == TypeInv /\ NamesInv /\ [EntriesNext]_entriesVars => NamesInv'
<1> SUFFICES ASSUME TypeInv, NamesInv, [EntriesNext]_entriesVars PROVE NamesInv'
  OBVIOUS
<1>t. TypeOK /\ files \in Seq(Entry) /\ num_files \in Nat
  BY DEF TypeInv, TypeOK
<1>n. \A i \in DOMAIN files : files[i].name.num \in Nat
  <2>1. \A i \in DOMAIN files : files[i] \in Entry
    BY <1>t
  <2> QED
    BY <2>1 DEF Entry, Name
<1>1. ASSUME UNCHANGED <<files, num_files>> PROVE NamesInv'
  BY <1>1 DEF NamesInv, UniqueNames
<1>2. CASE PushFile
  <2> DEFINE n == Len(files)
             e == [name |-> [base |-> BaseName[scanner.file], num |-> num_files],
                   file |-> scanner.file, dir |-> scanner.cur, deleted |-> FALSE]
  <2>1. files' = Append(files, e) /\ num_files' = num_files + 1
    BY <1>2 DEF PushFile
  <2>2. e.name.num = num_files
    OBVIOUS
  <2> HIDE DEF e
  <2>3. /\ n \in Nat /\ DOMAIN files = 1..n /\ DOMAIN files' = 1..(n + 1)
        /\ \A i \in 1..n : files'[i] = files[i]
        /\ files'[n + 1] = e
    BY <1>t, <2>1
  <2>4. \A i \in DOMAIN files' : files'[i].name.num < num_files'
    BY <1>t, <1>n, <2>1, <2>2, <2>3 DEF NamesInv
  <2>5. ASSUME NEW i \in DOMAIN files', NEW j \in DOMAIN files',
               files'[i].name = files'[j].name
        PROVE  i = j
    <3>1. CASE i = n + 1 \/ j = n + 1
      BY <1>t, <1>n, <2>2, <2>3, <2>5, <3>1 DEF NamesInv
    <3>2. CASE i # n + 1 /\ j # n + 1
      BY <2>3, <2>5, <3>2 DEF NamesInv, UniqueNames
    <3> QED
      BY <3>1, <3>2
  <2> QED
    BY <2>4, <2>5 DEF NamesInv, UniqueNames
<1>3. ASSUME NEW k \in DOMAIN files, MarkDeleted(files[k].dir, files[k].name)
      PROVE  NamesInv'
  <2>1. DOMAIN files' = DOMAIN files /\ \A i \in DOMAIN files : files'[i].name = files[i].name
    BY <1>3, <1>t, MarkEffect
  <2>2. num_files' = num_files
    BY <1>3 DEF MarkDeleted
  <2> QED
    BY <2>1, <2>2 DEF NamesInv, UniqueNames
<1>4. CASE \/ ScanDone \/ SkipDir \/ OpenDir \/ CloseDir \/ InternKnown \/ InternNew
           \/ InternAssign \/ InternReverse \/ ChildKnown \/ ChildNew \/ ChildLink
           \/ LoseScanner
  BY <1>1, <1>4 DEF ScanDone, SkipDir, OpenDir, CloseDir, InternKnown, InternNew,
     InternAssign, InternReverse, ChildKnown, ChildNew, ChildLink, LoseScanner
<1>5. ASSUME NEW f, \/ SkipFile(f) \/ Abort(f) \/ Classify(f)
                    \/ RemoveSource(f) \/ CreateSource(f)
      PROVE  NamesInv'
  BY <1>1, <1>5 DEF SkipFile, Abort, Classify, RemoveSource, CreateSource
<1>6. CASE UNCHANGED entriesVars
  BY <1>1, <1>6 DEF entriesVars
<1> QED
  BY <1>2, <1>3, <1>4, <1>5, <1>6 DEF EntriesNext, ScannerStep

(* No two entries share a name, however the directories and base names of  *)
(* the files coincide and however often a directory is configured: what    *)
(* delete_file() marks is what get_file() found.                           *)
THEOREM NamesCorrect == EntriesSpec => []UniqueNames
<1>1. EntriesInit => TypeInv /\ NamesInv
  BY TypeInit DEF EntriesInit, NamesInv, UniqueNames
<1>2. TypeInv /\ NamesInv /\ [EntriesNext]_entriesVars => (TypeInv /\ NamesInv)'
  BY TypeStep, NamesStep
<1>3. NamesInv => UniqueNames
  BY DEF NamesInv
<1> QED
  BY <1>1, <1>2, <1>3, PTL DEF EntriesSpec
----------------------------------------------------------------------------
LEMMA GrowsStep == TypeInv /\ IndexInv /\ [EntriesNext]_entriesVars => [Grows]_entriesVars
<1> SUFFICES ASSUME TypeInv, IndexInv, EntriesNext PROVE Grows
  BY DEF Grows
<1>t. TypeOK /\ scanner \in Scanner /\ files \in Seq(Entry)
  BY DEF TypeInv, TypeOK
<1>1. ASSUME UNCHANGED <<files, store, string_reverse_index>> PROVE Grows
  BY <1>1 DEF Grows
<1>2. CASE InternReverse
  <2>1. scanner.idx \notin DOMAIN string_reverse_index
    BY <1>2, <1>t DEF InternReverse, At, IndexInv, Given, Interning, Scanner
  <2> QED
    BY <1>2, <2>1 DEF InternReverse, Put, Grows
<1>3. CASE ChildNew
  BY <1>3 DEF ChildNew, Grows
<1>4. CASE PushFile
  <2>1. PICK e : files' = Append(files, e)
    BY <1>4 DEF PushFile
  <2>2. /\ DOMAIN files \subseteq DOMAIN files'
        /\ \A i \in DOMAIN files : files'[i] = files[i]
    BY <1>t, <2>1
  <2> QED
    BY <1>4, <2>2 DEF PushFile, Grows
<1>5. ASSUME NEW k \in DOMAIN files, MarkDeleted(files[k].dir, files[k].name)
      PROVE  Grows
  <2>1. /\ DOMAIN files' = DOMAIN files
        /\ \A i \in DOMAIN files :
            /\ files'[i].name = files[i].name
            /\ files'[i].file = files[i].file
            /\ files'[i].dir = files[i].dir
            /\ files[i].deleted => files'[i].deleted
    BY <1>5, <1>t, MarkEffect
  <2> QED
    BY <1>5, <2>1 DEF MarkDeleted, Grows
<1>6. CASE \/ ScanDone \/ SkipDir \/ OpenDir \/ CloseDir \/ InternKnown \/ InternNew
           \/ InternAssign \/ ChildKnown \/ ChildLink \/ LoseScanner
  BY <1>1, <1>6 DEF ScanDone, SkipDir, OpenDir, CloseDir, InternKnown, InternNew,
     InternAssign, ChildKnown, ChildLink, LoseScanner
<1>7. ASSUME NEW f, \/ SkipFile(f) \/ Abort(f) \/ Classify(f)
                    \/ RemoveSource(f) \/ CreateSource(f)
      PROVE  Grows
  BY <1>1, <1>7 DEF SkipFile, Abort, Classify, RemoveSource, CreateSource
<1> QED
  BY <1>2, <1>3, <1>4, <1>5, <1>6, <1>7 DEF EntriesNext, ScannerStep

(* Nothing a reader has seen of the tree is taken back by a later step of  *)
(* the scanner or of another worker; in particular delete_file() sets the  *)
(* tombstone and nothing clears it.                                        *)
THEOREM OnlyGrows == EntriesSpec => IndexOnlyGrows
<1>1. EntriesInit => TypeInv /\ IndexInv
  BY TypeInit, IndexInit
<1>2. TypeInv /\ IndexInv /\ [EntriesNext]_entriesVars => (TypeInv /\ IndexInv)'
  BY TypeStep, IndexStep
<1> QED
  BY <1>1, <1>2, GrowsStep, PTL DEF EntriesSpec, IndexOnlyGrows
----------------------------------------------------------------------------
(* Where add_file() is: the component it has reached is in the tree and    *)
(* stands for the parts of the layout it has done; the number it holds is  *)
(* that of the next part; a child it is linking is in the tree.            *)
WhereScannerIs ==
    /\ scanner.pc \in Placing =>
        /\ scanner.cur \in store
        /\ scanner.parts \in PathParts[scanner.file]
        /\ \A j \in 1..Len(scanner.cur) :
                string_reverse_index[scanner.cur[j]] = scanner.parts[j]
    /\ scanner.pc \in {"child", "link"} =>
        /\ scanner.idx \in DOMAIN string_reverse_index
        /\ string_reverse_index[scanner.idx] = CurKey
    /\ scanner.pc = "link" => CurChild \in store

PlacementInv ==
    /\ Root \in store
    /\ TreeNamed
    /\ EntryPlacement
    /\ WhereScannerIs

(* The layout of a component of the tree does not change.                  *)
LEMMA DecodeKept ==
    ASSUME TypeInv, TreeNamed, Grows, NEW node \in store
    PROVE  /\ Decode(node)' = Decode(node)
           /\ \A j \in 1..Len(node) : node[j] \in DOMAIN string_reverse_index'
  BY DEF TreeNamed, Grows, Decode

(* A step that adds neither a component nor an entry keeps the tree.       *)
LEMMA TreeKept ==
    ASSUME TypeInv, Root \in store, TreeNamed, EntryPlacement, Grows,
           store' = store, DOMAIN files' = DOMAIN files
    PROVE  Root \in store' /\ TreeNamed' /\ EntryPlacement'
<1>1. TreeNamed'
  BY DecodeKept DEF TreeNamed
<1>2. EntryPlacement'
  BY DecodeKept DEF EntryPlacement, Grows
<1> QED
  BY <1>1, <1>2

(* Steps between two files: the scanner places nothing, before or after.   *)
LEMMA WhereKept ==
    ASSUME WhereScannerIs, Grows, scanner'.pc \notin Placing
    PROVE  WhereScannerIs'
  BY DEF WhereScannerIs, Placing

(* Steps at which add_file() stays at the component it has reached.        *)
LEMMA WhereStays ==
    ASSUME TypeInv, TreeNamed, WhereScannerIs, Grows,
           scanner.pc \in Placing,
           scanner'.file = scanner.file, scanner'.parts = scanner.parts,
           scanner'.cur = scanner.cur
    PROVE  /\ scanner'.cur \in store'
           /\ scanner'.parts \in PathParts[scanner'.file]
           /\ \A j \in 1..Len(scanner'.cur) :
                string_reverse_index'[scanner'.cur[j]] = scanner'.parts[j]
           /\ CurKey' = CurKey
  BY DEF WhereScannerIs, TreeNamed, Grows, CurKey

(* Steps at which add_file() goes on to the child.                         *)
LEMMA WhereDescends ==
    ASSUME TypeInv, WhereScannerIs,
           scanner.pc \in {"child", "link"}, CurChild \in store,
           scanner' = [scanner EXCEPT !.pc = "intern", !.cur = CurChild],
           UNCHANGED <<string_reverse_index, store>>
    PROVE  WhereScannerIs'
<1>s. scanner \in Scanner
  BY DEF TypeInv, TypeOK
<1>1. /\ scanner'.pc = "intern" /\ scanner'.cur = CurChild
      /\ scanner'.parts = scanner.parts /\ scanner'.file = scanner.file
  BY <1>s DEF Scanner
<1>2. /\ Len(scanner.cur) \in Nat
      /\ Len(CurChild) = Len(scanner.cur) + 1
      /\ \A j \in 1..Len(scanner.cur) : CurChild[j] = scanner.cur[j]
      /\ CurChild[Len(scanner.cur) + 1] = scanner.idx
  BY <1>s DEF Scanner, Node, CurChild
<1>3. \A j \in 1..Len(scanner.cur) :
        string_reverse_index[scanner.cur[j]] = scanner.parts[j]
  BY DEF WhereScannerIs, Placing
<1>4. string_reverse_index[scanner.idx] = scanner.parts[Len(scanner.cur) + 1]
  BY DEF WhereScannerIs, CurKey
<1>5. ASSUME NEW j \in 1..Len(CurChild)
      PROVE  string_reverse_index[CurChild[j]] = scanner.parts[j]
  <2>1. CASE j = Len(scanner.cur) + 1
    BY <1>2, <1>4, <2>1
  <2>2. CASE j \in 1..Len(scanner.cur)
    BY <1>2, <1>3, <2>2
  <2> QED
    BY <1>2, <2>1, <2>2
<1> QED
  BY <1>1, <1>5 DEF WhereScannerIs, Placing

LEMMA PlacementInit == EntriesInit => PlacementInv
<1> SUFFICES ASSUME EntriesInit PROVE PlacementInv
  OBVIOUS
<1>1. store = {Root} /\ DOMAIN files = {} /\ scanner.pc = "dir"
  BY DEF EntriesInit
<1>2. Len(Root) = 0
  BY DEF Root
<1> QED
  BY <1>1, <1>2 DEF PlacementInv, TreeNamed, EntryPlacement, WhereScannerIs, Placing

LEMMA PlacementStep ==
    TypeInv /\ IndexInv /\ PlacementInv /\ [EntriesNext]_entriesVars => PlacementInv'
<1> SUFFICES ASSUME TypeInv, IndexInv, PlacementInv, [EntriesNext]_entriesVars
             PROVE  PlacementInv'
  OBVIOUS
<1>t. /\ TypeOK /\ scanner \in Scanner /\ files \in Seq(Entry)
      /\ Root \in store /\ TreeNamed /\ EntryPlacement /\ WhereScannerIs
  BY DEF TypeInv, TypeOK, PlacementInv
<1>g. Grows
  <2>1. CASE UNCHANGED entriesVars
    BY <2>1 DEF entriesVars, Grows
  <2> QED
    BY <2>1, GrowsStep
<1>1. ASSUME store' = store, DOMAIN files' = DOMAIN files, WhereScannerIs' PROVE PlacementInv'
  BY <1>1, <1>t, <1>g, TreeKept DEF PlacementInv
<1>2. CASE ScanDone \/ SkipDir \/ OpenDir \/ CloseDir
  <2>1. scanner'.pc \notin Placing
    BY <1>2, <1>t DEF ScanDone, SkipDir, OpenDir, CloseDir, At, Scanner, Placing
  <2>2. store' = store /\ files' = files
    BY <1>2 DEF ScanDone, SkipDir, OpenDir, CloseDir
  <2> QED
    BY <1>1, <1>t, <1>g, <2>1, <2>2, WhereKept
<1>3. ASSUME NEW f, SkipFile(f) \/ Abort(f) PROVE PlacementInv'
  <2>1. scanner'.pc \notin Placing
    BY <1>3, <1>t DEF SkipFile, Abort, At, Scanner, Placing
  <2>2. store' = store /\ files' = files
    BY <1>3 DEF SkipFile, Abort
  <2> QED
    BY <1>1, <1>t, <1>g, <2>1, <2>2, WhereKept
<1>4. ASSUME NEW f, Classify(f) PROVE PlacementInv'
  <2>1. PICK parts \in PathParts[f] :
            scanner' = [scanner EXCEPT !.pc = "intern", !.todo = @ \ {f}, !.file = f,
                                       !.parts = parts, !.cur = Root]
    BY <1>4 DEF Classify
  <2>2. /\ scanner'.pc = "intern" /\ scanner'.file = f /\ scanner'.parts = parts
        /\ scanner'.cur = Root /\ Len(Root) = 0
    BY <1>t, <2>1 DEF Scanner, Root
  <2>3. store' = store /\ files' = files
    BY <1>4 DEF Classify
  <2>4. WhereScannerIs'
    BY <1>t, <2>2, <2>3 DEF WhereScannerIs
  <2> QED
    BY <1>1, <2>3, <2>4
<1>5. CASE InternKnown
  <2>1. /\ scanner.pc = "intern" /\ scanner'.pc = "child"
        /\ scanner'.file = scanner.file /\ scanner'.parts = scanner.parts
        /\ scanner'.cur = scanner.cur /\ scanner'.idx = string_index[CurKey]
        /\ UNCHANGED <<string_index, string_reverse_index, store, files>>
    BY <1>5, <1>t DEF InternKnown, At, Scanner
  <2>2. /\ string_index[CurKey] \in DOMAIN string_reverse_index
        /\ string_reverse_index[string_index[CurKey]] = CurKey
    BY <1>5, <2>1 DEF InternKnown, IndexInv, Interning
  <2>3. WhereScannerIs'
    BY <1>t, <1>g, <2>1, <2>2, WhereStays DEF WhereScannerIs, Placing
  <2> QED
    BY <1>1, <2>1, <2>3
<1>6. CASE InternNew \/ InternAssign
  <2>1. /\ scanner.pc \in Placing /\ scanner'.pc \in {"assign", "reverse"}
        /\ scanner'.file = scanner.file /\ scanner'.parts = scanner.parts
        /\ scanner'.cur = scanner.cur
        /\ UNCHANGED <<store, files>>
    BY <1>6, <1>t DEF InternNew, InternAssign, At, Scanner, Placing
  <2>2. WhereScannerIs'
    BY <1>t, <1>g, <2>1, WhereStays DEF WhereScannerIs
  <2> QED
    BY <1>1, <2>1, <2>2
<1>7. CASE InternReverse
  <2>1. /\ scanner.pc \in Placing /\ scanner'.pc = "child"
        /\ scanner'.file = scanner.file /\ scanner'.parts = scanner.parts
        /\ scanner'.cur = scanner.cur /\ scanner'.idx = scanner.idx
        /\ UNCHANGED <<store, files>>
    BY <1>7, <1>t DEF InternReverse, At, Scanner, Placing
  <2>2. /\ scanner.idx \in DOMAIN string_reverse_index'
        /\ string_reverse_index'[scanner.idx] = CurKey
    BY <1>7 DEF InternReverse, Put
  <2>3. WhereScannerIs'
    BY <1>t, <1>g, <2>1, <2>2, WhereStays DEF WhereScannerIs
  <2> QED
    BY <1>1, <2>1, <2>3
<1>8. CASE ChildKnown \/ ChildLink
  <2>1. /\ scanner.pc \in {"child", "link"} /\ CurChild \in store
        /\ scanner' = [scanner EXCEPT !.pc = "intern", !.cur = CurChild]
        /\ UNCHANGED <<string_reverse_index, store, files>>
    BY <1>8, <1>t DEF ChildKnown, ChildLink, At, WhereScannerIs
  <2> QED
    BY <1>1, <1>t, <2>1, WhereDescends
<1>9. CASE ChildNew
  <2>1. /\ scanner.pc = "child" /\ scanner'.pc = "link"
        /\ scanner'.file = scanner.file /\ scanner'.parts = scanner.parts
        /\ scanner'.cur = scanner.cur /\ scanner'.idx = scanner.idx
        /\ store' = store \cup {CurChild}
        /\ UNCHANGED <<string_reverse_index, files>>
    BY <1>9, <1>t DEF ChildNew, At, Scanner
  <2>2. CurChild' = CurChild
    BY <2>1 DEF CurChild
  <2>3. WhereScannerIs'
    BY <1>t, <1>g, <2>1, <2>2, WhereStays DEF WhereScannerIs, Placing
  <2>4. /\ Len(CurChild) = Len(scanner.cur) + 1 /\ Len(scanner.cur) \in Nat
        /\ \A j \in 1..Len(scanner.cur) : CurChild[j] = scanner.cur[j]
        /\ CurChild[Len(scanner.cur) + 1] = scanner.idx
        /\ SubSeq(CurChild, 1, Len(CurChild) - 1) = scanner.cur
    BY <1>t DEF Scanner, Node, CurChild
  <2>5. /\ scanner.cur \in store
        /\ scanner.idx \in DOMAIN string_reverse_index
        /\ \A j \in 1..Len(scanner.cur) : scanner.cur[j] \in DOMAIN string_reverse_index
    BY <1>t, <2>1 DEF WhereScannerIs, Placing, TreeNamed
  <2>6. \A j \in 1..Len(CurChild) : CurChild[j] \in DOMAIN string_reverse_index
    <3> SUFFICES ASSUME NEW j \in 1..Len(CurChild)
                 PROVE  CurChild[j] \in DOMAIN string_reverse_index
      OBVIOUS
    <3>1. j = Len(scanner.cur) + 1 \/ j \in 1..Len(scanner.cur)
      BY <2>4
    <3> QED
      BY <2>4, <2>5, <3>1
  <2>7. TreeNamed'
    BY <1>t, <2>1, <2>4, <2>5, <2>6 DEF TreeNamed
  <2>8. EntryPlacement'
    BY <1>t, <1>g, <2>1, DecodeKept DEF EntryPlacement
  <2> QED
    BY <1>t, <2>1, <2>3, <2>7, <2>8 DEF PlacementInv
<1>10. CASE PushFile
  <2> DEFINE n == Len(files)
  <2>1. /\ scanner.pc = "intern" /\ scanner'.pc = "file"
        /\ Len(scanner.cur) = Len(scanner.parts)
        /\ UNCHANGED <<string_reverse_index, store>>
    BY <1>10, <1>t DEF PushFile, At, Scanner
  <2>2. PICK e : /\ files' = Append(files, e)
                 /\ e.file = scanner.file /\ e.dir = scanner.cur
    BY <1>10 DEF PushFile
  <2>3. /\ n \in Nat /\ DOMAIN files = 1..n /\ DOMAIN files' = 1..(n + 1)
        /\ \A i \in 1..n : files'[i] = files[i]
        /\ files'[n + 1] = e
    BY <1>t, <2>2
  <2>4. WhereScannerIs'
    BY <1>t, <1>g, <2>1, WhereKept DEF Placing
  <2>5. TreeNamed'
    BY <1>t, <2>1 DEF TreeNamed
  <2>6. scanner.cur \in store /\ Decode(scanner.cur) = scanner.parts
    BY <1>t, <2>1 DEF WhereScannerIs, Placing, Decode, Scanner
  <2>7. Decode(scanner.cur) \in PathParts[scanner.file]
    BY <1>t, <2>1, <2>6 DEF WhereScannerIs, Placing
  <2>8. \A node : Decode(node)' = Decode(node)
    BY <2>1 DEF Decode
  <2>9. EntryPlacement'
    BY <1>t, <2>1, <2>2, <2>3, <2>6, <2>7, <2>8 DEF EntryPlacement
  <2> QED
    BY <1>t, <2>1, <2>4, <2>5, <2>9 DEF PlacementInv
<1>11. ASSUME NEW i \in DOMAIN files, MarkDeleted(files[i].dir, files[i].name)
       PROVE  PlacementInv'
  <2>1. DOMAIN files' = DOMAIN files
    BY <1>11, <1>t, MarkEffect
  <2>2. UNCHANGED <<string_reverse_index, store, scanner>>
    BY <1>11 DEF MarkDeleted
  <2> QED
    BY <1>1, <1>t, <2>1, <2>2 DEF WhereScannerIs, CurKey, CurChild
<1>12. ASSUME NEW f, RemoveSource(f) \/ CreateSource(f) PROVE PlacementInv'
  BY <1>1, <1>t, <1>12 DEF RemoveSource, CreateSource, WhereScannerIs, CurKey, CurChild
<1>13. CASE LoseScanner
  <2>1. /\ scanner'.pc = scanner.pc /\ scanner'.file = scanner.file
        /\ scanner'.parts = scanner.parts /\ scanner'.cur = scanner.cur
        /\ scanner'.idx = scanner.idx
        /\ UNCHANGED <<string_reverse_index, store, files>>
    BY <1>13, <1>t DEF LoseScanner, Scanner
  <2> QED
    BY <1>1, <1>t, <2>1 DEF WhereScannerIs, CurKey, CurChild
<1>14. CASE UNCHANGED entriesVars
  BY <1>1, <1>t, <1>14 DEF entriesVars, WhereScannerIs, CurKey, CurChild
<1> QED
  BY <1>2, <1>3, <1>4, <1>5, <1>6, <1>7, <1>8, <1>9, <1>10, <1>11, <1>12, <1>13, <1>14
  DEF EntriesNext, ScannerStep

(* The invariant the two theorems below share.                             *)
LEMMA PlacementAlways == EntriesSpec => []PlacementInv
<1>1. EntriesInit => TypeInv /\ IndexInv /\ PlacementInv
  BY TypeInit, IndexInit, PlacementInit
<1>2. TypeInv /\ IndexInv /\ PlacementInv /\ [EntriesNext]_entriesVars
        => (TypeInv /\ IndexInv /\ PlacementInv)'
  BY TypeStep, IndexStep, PlacementStep
<1> QED
  BY <1>1, <1>2, PTL DEF EntriesSpec

(* get_children() finds the name of every child it may come across, once   *)
(* the reverse map is at rest: add_file() links no component whose number  *)
(* has no name, and none whose parent is not linked.                       *)
THEOREM TreeCorrect == EntriesSpec => []TreeNamed
<1>1. PlacementInv => TreeNamed
  BY DEF PlacementInv
<1> QED
  BY <1>1, PlacementAlways, PTL

(* However many files and names there are, every file hangs below the      *)
(* directories of a layout of its own.                                     *)
THEOREM PlacementCorrect == EntriesSpec => []EntryPlacement
<1>1. PlacementInv => EntryPlacement
  BY DEF PlacementInv
<1> QED
  BY <1>1, PlacementAlways, PTL
----------------------------------------------------------------------------
(* n is on the way to m.                                                   *)
Leads(n, m) == Len(n) <= Len(m) /\ \A j \in 1..Len(n) : n[j] = m[j]

(* No component of the tree is there for nothing: it leads to an entry, or *)
(* to where add_file() is.  And whatever leads to one is in the tree.      *)
TreeUsed ==
    \A node \in store \ {Root} :
        \/ \E i \in DOMAIN files : Leads(node, files[i].dir)
        \/ scanner.pc \in Placing /\ Leads(node, scanner.cur)
        \/ scanner.pc = "link" /\ node = CurChild
TreeClosed == \A n \in Node : (\E m \in store : Leads(n, m)) => n \in store

LEMMA LeadsSelf == ASSUME NEW n \in Node PROVE Leads(n, n)
  BY DEF Leads, Node

LEMMA ClosedInit == EntriesInit => TreeUsed /\ TreeClosed
  BY DEF EntriesInit, TreeUsed, TreeClosed, Leads, Root, Node

LEMMA ClosedStep ==
    TypeInv /\ PlacementInv /\ TreeClosed /\ [EntriesNext]_entriesVars => TreeClosed'
<1> SUFFICES ASSUME TypeInv, PlacementInv, TreeClosed, [EntriesNext]_entriesVars
             PROVE  TreeClosed'
  OBVIOUS
<1>t. TypeOK /\ scanner \in Scanner /\ store \subseteq Node
  BY DEF TypeInv, TypeOK
<1>1. CASE UNCHANGED store
  BY <1>1 DEF TreeClosed
<1>2. CASE ChildNew
  <2>1. store' = store \cup {CurChild} /\ scanner.cur \in store /\ scanner.cur \in Node
    BY <1>t, <1>2 DEF ChildNew, At, PlacementInv, WhereScannerIs, Placing
  <2>2. /\ CurChild \in Node /\ Len(CurChild) = Len(scanner.cur) + 1
        /\ Len(scanner.cur) \in Nat
        /\ \A j \in 1..Len(scanner.cur) : CurChild[j] = scanner.cur[j]
    BY <1>t, <2>1 DEF CurChild, Scanner, Node
  <2>3. ASSUME NEW n \in Node, Leads(n, CurChild), n # CurChild PROVE n \in store
    <3>1. Len(n) \in Nat /\ n = [j \in 1..Len(n) |-> n[j]]
          /\ CurChild = [j \in 1..Len(CurChild) |-> CurChild[j]]
      BY <2>2 DEF Node
    <3>2. Len(n) # Len(CurChild)
      BY <2>3, <3>1 DEF Leads
    <3>3. Leads(n, scanner.cur)
      <4>1. Len(n) <= Len(CurChild) /\ \A j \in 1..Len(n) : n[j] = CurChild[j]
        BY <2>3 DEF Leads
      <4>2. Len(n) <= Len(scanner.cur)
        <5>1. /\ Len(n) \in Nat /\ Len(scanner.cur) \in Nat
              /\ Len(CurChild) = Len(scanner.cur) + 1
              /\ Len(n) <= Len(CurChild) /\ Len(n) # Len(CurChild)
          BY <2>2, <3>1, <3>2, <4>1
        <5>. QED
          BY <5>1
      <4>3. \A j \in 1..Len(n) : j \in 1..Len(scanner.cur)
        BY <2>2, <3>1, <4>2
      <4>. QED
        BY <2>2, <4>1, <4>2, <4>3 DEF Leads
    <3>. QED
      BY <2>1, <3>3 DEF TreeClosed
  <2>. QED
    BY <2>1, <2>3 DEF TreeClosed
<1>. QED
  BY <1>1, <1>2 DEF EntriesNext, ScannerStep, entriesVars, ScanDone, SkipDir, OpenDir, CloseDir,
     SkipFile, Abort, Classify, InternKnown, InternNew, InternAssign, InternReverse, ChildKnown,
     ChildLink, PushFile, MarkDeleted, RemoveSource, CreateSource, LoseScanner

(* Steps after which add_file() is where it was.                           *)
LEMMA UsedKept ==
    ASSUME TypeInv, TreeUsed, Grows, UNCHANGED store,
           scanner.pc \in Placing => scanner'.pc \in Placing /\ scanner'.cur = scanner.cur,
           scanner.pc = "link" => scanner'.pc = "link" /\ CurChild' = CurChild
    PROVE  TreeUsed'
<1>1. ASSUME NEW node \in store \ {Root}, NEW i \in DOMAIN files, Leads(node, files[i].dir)
      PROVE  i \in DOMAIN files' /\ Leads(node, files'[i].dir)
  BY <1>1 DEF Grows
<1>2. ASSUME NEW node \in store \ {Root}, \E i \in DOMAIN files : Leads(node, files[i].dir)
      PROVE  \E i \in DOMAIN files' : Leads(node, files'[i].dir)
  BY <1>1, <1>2
<1>3. ASSUME NEW node \in store \ {Root}
      PROVE  \/ \E i \in DOMAIN files' : Leads(node, files'[i].dir)
             \/ scanner'.pc \in Placing /\ Leads(node, scanner'.cur)
             \/ scanner'.pc = "link" /\ node = CurChild'
  <2>1. CASE \E i \in DOMAIN files : Leads(node, files[i].dir)
    BY <1>2, <2>1
  <2>2. CASE scanner.pc \in Placing /\ Leads(node, scanner.cur)
    BY <2>2
  <2>3. CASE scanner.pc = "link" /\ node = CurChild
    BY <2>3
  <2>. QED
    BY <1>3, <2>1, <2>2, <2>3 DEF TreeUsed
<1>. QED
  BY <1>3 DEF TreeUsed

LEMMA UsedStep ==
    TypeInv /\ IndexInv /\ PlacementInv /\ TreeUsed /\ [EntriesNext]_entriesVars => TreeUsed'
<1> SUFFICES ASSUME TypeInv, IndexInv, PlacementInv, TreeUsed, [EntriesNext]_entriesVars
             PROVE  TreeUsed'
  OBVIOUS
<1>t. TypeOK /\ scanner \in Scanner /\ files \in Seq(Entry) /\ store \subseteq Node
  BY DEF TypeInv, TypeOK
<1>g. Grows
  <2>1. CASE UNCHANGED entriesVars
    BY <2>1 DEF entriesVars, Grows
  <2> QED
    BY <2>1, GrowsStep
<1>1. CASE \/ ScanDone \/ SkipDir \/ OpenDir \/ CloseDir
  BY <1>t, <1>g, <1>1, UsedKept DEF ScanDone, SkipDir, OpenDir, CloseDir, At, Placing, Scanner
<1>2. ASSUME NEW f, SkipFile(f) \/ Abort(f) \/ Classify(f) PROVE TreeUsed'
  BY <1>t, <1>g, <1>2, UsedKept DEF SkipFile, Abort, Classify, At, Placing, Scanner
<1>3. CASE InternKnown \/ InternNew \/ InternAssign \/ InternReverse
  <2>1. /\ scanner.pc # "link" /\ scanner'.pc \in Placing
        /\ scanner'.cur = scanner.cur /\ UNCHANGED store
    BY <1>t, <1>3 DEF InternKnown, InternNew, InternAssign, InternReverse, At, Placing, Scanner
  <2>. QED
    BY <1>g, <2>1, UsedKept
<1>4. CASE ChildNew
  <2>1. /\ scanner.pc = "child" /\ scanner'.pc = "link"
        /\ scanner'.cur = scanner.cur /\ scanner'.idx = scanner.idx
        /\ store' = store \cup {CurChild} /\ UNCHANGED files
    BY <1>t, <1>4 DEF ChildNew, At, Scanner
  <2>2. CurChild' = CurChild
    BY <2>1 DEF CurChild
  <2>. QED
    BY <2>1, <2>2 DEF TreeUsed, Placing
<1>5. CASE ChildKnown \/ ChildLink
  <2>1. /\ scanner.pc \in {"child", "link"} /\ scanner'.pc = "intern"
        /\ scanner'.cur = CurChild /\ UNCHANGED <<store, files>>
    BY <1>t, <1>5 DEF ChildKnown, ChildLink, At, Scanner
  <2>2. /\ CurChild \in Node /\ Len(CurChild) = Len(scanner.cur) + 1 /\ Len(scanner.cur) \in Nat
        /\ \A j \in 1..Len(scanner.cur) : CurChild[j] = scanner.cur[j]
    BY <1>t DEF CurChild, Scanner, Node
  <2>3. ASSUME NEW n \in Node, Leads(n, scanner.cur) PROVE Leads(n, CurChild)
    BY <2>2, <2>3 DEF Leads, Node
  <2>4. Leads(CurChild, CurChild)
    BY <2>2, LeadsSelf
  <2>. QED
    BY <1>t, <2>1, <2>3, <2>4 DEF TreeUsed, Placing
<1>6. CASE PushFile
  <2>1. /\ scanner.pc = "intern" /\ UNCHANGED store
    BY <1>t, <1>6 DEF PushFile, At, Scanner
  <2>2. PICK e : files' = Append(files, e) /\ e.dir = scanner.cur
    BY <1>6 DEF PushFile
  <2>3. /\ Len(files) + 1 \in DOMAIN files' /\ files'[Len(files) + 1] = e
        /\ \A i \in DOMAIN files : i \in DOMAIN files' /\ files'[i] = files[i]
    BY <1>t, <2>2
  <2>. QED
    BY <2>1, <2>2, <2>3 DEF TreeUsed
<1>7. CASE LoseScanner
  <2>1. /\ scanner'.pc = scanner.pc /\ scanner'.cur = scanner.cur /\ scanner'.idx = scanner.idx
        /\ UNCHANGED store
    BY <1>t, <1>7 DEF LoseScanner, Scanner
  <2>. QED
    BY <1>g, <2>1, UsedKept DEF CurChild
<1>8. ASSUME UNCHANGED <<scanner, store>> PROVE TreeUsed'
  BY <1>g, <1>8, UsedKept DEF CurChild
<1>. QED
  BY <1>1, <1>2, <1>3, <1>4, <1>5, <1>6, <1>7, <1>8
  DEF EntriesNext, ScannerStep, entriesVars, MarkDeleted, RemoveSource, CreateSource

(* All that is kept of the index.                                          *)
IndexIsSound == TypeInv /\ IndexInv /\ NamesInv /\ PlacementInv /\ TreeUsed /\ TreeClosed

LEMMA SoundInit == EntriesInit => IndexIsSound
  BY TypeInit, IndexInit, PlacementInit, ClosedInit
  DEF IndexIsSound, EntriesInit, NamesInv, UniqueNames

LEMMA SoundStep == IndexIsSound /\ [EntriesNext]_entriesVars => IndexIsSound'
  BY TypeStep, IndexStep, NamesStep, PlacementStep, UsedStep, ClosedStep DEF IndexIsSound
=============================================================================
