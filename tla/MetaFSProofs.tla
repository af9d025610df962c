----------------------------- MODULE MetaFSProofs -----------------------------
(***************************************************************************)
(* Proofs about the metafs process, for any number of workers, whatever    *)
(* they are asked for.                                                     *)
(***************************************************************************)
EXTENDS MetaFS, EntriesProofs

(* A worker touches the index in two places only: unlink(2) and            *)
(* delete_file().                                                          *)
LEMMA WorkerOnIndex ==
    ASSUME NEW w \in Worker, WorkerStep(w)
    PROVE  [EntriesNext]_entriesVars
<1>1. CASE UnlinkSource(w)
  <2>1. PICK f : RemoveSource(f)
    BY <1>1 DEF UnlinkSource
  <2>2. f \in disk
    BY <2>1 DEF RemoveSource
  <2> QED
    BY <2>1, <2>2 DEF EntriesNext
<1>2. CASE MarkFile(w)
  <2>1. CASE MarkDeleted(worker[w].node, worker[w].name)
    <3>1. PICK i \in DOMAIN files : /\ files[i].dir = worker[w].node
                                    /\ files[i].name = worker[w].name
      BY <2>1 DEF MarkDeleted, EntriesNamed
    <3>2. MarkDeleted(files[i].dir, files[i].name)
      BY <2>1, <3>1
    <3> QED
      BY <3>2 DEF EntriesNext
  <2> QED
    BY <1>2, <2>1 DEF MarkFile
<1>3. ASSUME \/ IndexFound(w) \/ IndexMissing(w) \/ NullSeen(w) \/ NullDereferenced(w)
             \/ ChildFound(w) \/ ChildMissing(w) \/ Reached(w)
             \/ FileFound(w) \/ FileMissing(w) \/ UseFile(w) \/ UnlinkFails(w)
             \/ ListChildren(w) \/ ChildNameMissing(w) \/ ListFiles(w) \/ Finish(w)
      PROVE  UNCHANGED entriesVars
  BY <1>3 DEF IndexFound, IndexMissing, NullSeen, NullDereferenced, ChildFound,
     ChildMissing, Reached, FileFound, FileMissing, UseFile, UnlinkFails, ListChildren,
     ChildNameMissing, ListFiles, Finish, Miss, Crash
<1> QED
  BY <1>1, <1>2, <1>3 DEF WorkerStep

LEMMA IndexStepInProcess == [Next]_vars => [EntriesNext]_entriesVars
<1> SUFFICES ASSUME [Next]_vars PROVE [EntriesNext]_entriesVars
  OBVIOUS
<1>1. CASE ScannerThread
  BY <1>1 DEF ScannerThread, EntriesNext
<1>2. CASE Others
  <2>1. PICK f \in Source : CreateSource(f) \/ RemoveSource(f)
    BY <1>2 DEF Others
  <2> QED
    BY <2>1 DEF EntriesNext, RemoveSource
<1>3. ASSUME NEW w \in Worker, Request(w) \/ WorkerStep(w) PROVE [EntriesNext]_entriesVars
  BY <1>3, WorkerOnIndex DEF Request
<1>4. CASE Mount
  BY <1>4 DEF Mount, EntriesNext
<1>5. CASE Unmount \/ Exit \/ UseAfterFree
  BY <1>5 DEF Unmount, Exit, UseAfterFree, Crash
<1>6. CASE UNCHANGED vars
  BY <1>6 DEF vars
<1> QED
  BY <1>1, <1>2, <1>3, <1>4, <1>5, <1>6 DEF Next

(* Whatever the workers, the kernel and the other processes do, the index  *)
(* behaves as module Entries says: everything proved of it there holds of  *)
(* the process.                                                            *)
THEOREM ProcessKeepsIndex == Spec => EntriesSpec
<1>1. Init => EntriesInit
  BY DEF Init
<1> QED
  BY <1>1, IndexStepInProcess, PTL DEF Spec, EntriesSpec

(* While requests are answered: the two maps of get_string_index() agree,  *)
(* every directory that can be reached has a name, no name is given to two *)
(* files, and every file is where its layout says.                         *)
THEOREM ProcessIndexCorrect ==
    Spec => [](IndexConsistent /\ TreeNamed /\ UniqueNames /\ EntryPlacement)
  BY ProcessKeepsIndex, IndexCorrect, TreeCorrect, NamesCorrect, PlacementCorrect, PTL
----------------------------------------------------------------------------
(* After the fork there is no scanner.                                     *)
Forked == status = "daemon" => ~scanner.alive

(* Workers leave the scanner alone, and add no entry.                      *)
LEMMA WorkerOffScanner ==
    ASSUME TypeOK, NEW w \in Worker, Request(w) \/ WorkerStep(w)
    PROVE  /\ UNCHANGED <<string_index, string_reverse_index, store, scanner>>
           /\ Len(files') = Len(files)
           /\ status' = status \/ status' = "crashed"
<1>1. CASE UnlinkSource(w)
  BY <1>1 DEF UnlinkSource, RemoveSource
<1>2. CASE MarkFile(w)
  <2>1. CASE MarkDeleted(worker[w].node, worker[w].name)
    <3>1. Len(files') = Len(files)
      BY <2>1, MarkEffect
    <3> QED
      BY <1>2, <2>1, <3>1 DEF MarkFile, MarkDeleted
  <2> QED
    BY <1>2, <2>1 DEF MarkFile, entriesVars
<1>3. ASSUME \/ IndexFound(w) \/ IndexMissing(w) \/ NullSeen(w) \/ NullDereferenced(w)
             \/ ChildFound(w) \/ ChildMissing(w) \/ Reached(w)
             \/ FileFound(w) \/ FileMissing(w) \/ UseFile(w) \/ UnlinkFails(w)
             \/ ListChildren(w) \/ ChildNameMissing(w) \/ ListFiles(w) \/ Finish(w)
             \/ Request(w)
      PROVE  UNCHANGED entriesVars /\ (status' = status \/ status' = "crashed")
  BY <1>3 DEF IndexFound, IndexMissing, NullSeen, NullDereferenced, ChildFound,
     ChildMissing, Reached, FileFound, FileMissing, UseFile, UnlinkFails, ListChildren,
     ChildNameMissing, ListFiles, Finish, Request, Miss, Crash
<1> QED
  BY <1>1, <1>2, <1>3 DEF WorkerStep, entriesVars

(* A step of the scanner needs the scanner.                                *)
LEMMA ScannerAliveInStep == ASSUME ScannerStep PROVE scanner.alive
  BY DEF ScannerStep, At, ScanDone, SkipDir, OpenDir, CloseDir, SkipFile, Abort, Classify,
     InternKnown, InternNew, InternAssign, InternReverse, ChildKnown, ChildNew, ChildLink,
     PushFile

LEMMA ForkedStep == TypeOK /\ Forked /\ [Next]_vars => Forked'
<1> SUFFICES ASSUME TypeOK, Forked, [Next]_vars PROVE Forked'
  OBVIOUS
<1>1. CASE ScannerThread
  <2>1. scanner.alive /\ status' \in {status, "crashed"}
    BY <1>1, ScannerAliveInStep DEF ScannerThread
  <2> QED
    BY <2>1 DEF Forked
<1>2. CASE Others
  BY <1>2 DEF Others, CreateSource, RemoveSource, Forked
<1>3. ASSUME NEW w \in Worker, Request(w) \/ WorkerStep(w) PROVE Forked'
  BY <1>3, WorkerOffScanner DEF Forked
<1>4. CASE Mount
  BY <1>4 DEF Mount, LoseScanner, Forked, TypeOK, Scanner
<1>5. CASE Unmount \/ Exit \/ UseAfterFree
  BY <1>5 DEF Unmount, Exit, UseAfterFree, Crash, Forked
<1>6. CASE UNCHANGED vars
  BY <1>6 DEF vars, entriesVars, Forked
<1> QED
  BY <1>1, <1>2, <1>3, <1>4, <1>5, <1>6 DEF Next

LEMMA FrozenStep ==
    TypeOK /\ Forked /\ [Next]_vars =>
        [status = "daemon" =>
            /\ UNCHANGED <<string_index, string_reverse_index, store>>
            /\ Len(files') = Len(files)]_vars
<1> SUFFICES ASSUME TypeOK, Forked, [Next]_vars, status = "daemon"
             PROVE  /\ UNCHANGED <<string_index, string_reverse_index, store>>
                    /\ Len(files') = Len(files)
  OBVIOUS
<1>1. ~scanner.alive
  BY DEF Forked
<1>2. CASE ScannerThread
  BY <1>1, <1>2, ScannerAliveInStep DEF ScannerThread
<1>3. CASE Others
  BY <1>3 DEF Others, CreateSource, RemoveSource
<1>4. ASSUME NEW w \in Worker, Request(w) \/ WorkerStep(w)
      PROVE  /\ UNCHANGED <<string_index, string_reverse_index, store>>
             /\ Len(files') = Len(files)
  BY <1>4, WorkerOffScanner
<1>5. CASE Mount \/ Exit \/ UseAfterFree
  BY <1>5 DEF Mount, Exit, UseAfterFree
<1>6. CASE Unmount
  BY <1>6 DEF Unmount, entriesVars
<1>7. CASE UNCHANGED vars
  BY <1>7 DEF vars, entriesVars
<1> QED
  BY <1>2, <1>3, <1>4, <1>5, <1>6, <1>7 DEF Next

(* main() starts the scanner before fuse_main() forks: in the daemon no    *)
(* name, directory or entry is ever added to what the scanner had made by  *)
(* then.                                                                   *)
THEOREM ForkFreezesIndex == Spec => IndexFrozenByFork
<1>1. Init => Forked
  BY DEF Init, Forked
<1>2. Spec => []TypeOK
  BY ProcessKeepsIndex, TypeCorrect, PTL
<1> QED
  BY <1>1, <1>2, ForkedStep, FrozenStep, PTL DEF Spec, IndexFrozenByFork
----------------------------------------------------------------------------
(* When the scan is over nothing of the index changes but tombstones.      *)
Settled ==
    /\ UNCHANGED <<string_index, string_reverse_index, store>>
    /\ DOMAIN files' = DOMAIN files
    /\ \A i \in DOMAIN files :
        /\ files'[i].name = files[i].name /\ files'[i].dir = files[i].dir
        /\ files'[i].file = files[i].file

LEMMA NoScannerStep == ASSUME ScanOver PROVE ~ScannerStep
  BY DEF ScannerStep, At, ScanDone, SkipDir, OpenDir, CloseDir, SkipFile, Abort, Classify,
     InternKnown, InternNew, InternAssign, InternReverse, ChildKnown, ChildNew, ChildLink,
     PushFile, ScanOver

LEMMA ScanStaysOver ==
    ASSUME TypeInv, ScanOver, [EntriesNext]_entriesVars PROVE ScanOver' /\ Settled
<1>t. TypeOK /\ scanner \in Scanner /\ files \in Seq(Entry)
  BY DEF TypeInv, TypeOK
<1>1. ~ScannerStep
  BY NoScannerStep
<1>2. ASSUME NEW i \in DOMAIN files, MarkDeleted(files[i].dir, files[i].name)
      PROVE  ScanOver' /\ Settled
  BY <1>t, <1>2, MarkEffect DEF MarkDeleted, ScanOver, Settled
<1>3. CASE LoseScanner
  BY <1>t, <1>3 DEF LoseScanner, ScanOver, Settled, Scanner
<1>4. CASE UNCHANGED <<string_index, string_reverse_index, store, files, scanner>>
  BY <1>4 DEF ScanOver, Settled
<1>. QED
  BY <1>1, <1>2, <1>3, <1>4 DEF EntriesNext, RemoveSource, CreateSource, entriesVars

(* Requests and walks, whatever the scanner does.  A walk is for the       *)
(* operation that makes it, and no longer than its path.  get_file() has   *)
(* returned an entry of the name that was asked for.  A null pointer was   *)
(* read during the scan.                                                   *)
OnWalk == {"index", "child", "end"}
WalkInv(w) ==
    LET r == worker[w] IN
    /\ r.name \in Takes(r.op)
    /\ r.walk = "exists" => r.op \in {"getattr", "opendir", "readdir"}
    /\ r.walk = "find" => r.op \in {"getattr", "open", "unlink"}
    /\ r.walk \in {"children", "files"} => r.op = "readdir"
    /\ r.walk = "mark" => r.op = "unlink"
    /\ r.calm => ScanOver
    /\ r.pc \in OnWalk =>
          /\ r.calm => ~r.null
          /\ r.node \in store /\ Len(r.node) <= Depth(w)
          /\ r.pc = "child" => Len(r.node) < Depth(w)
          /\ r.pc = "end" => Len(r.node) = Depth(w) /\ r.walk # "exists"
    /\ r.pc = "syscall" =>
          r.walk = "find" /\ r.entry \in DOMAIN files /\ files[r.entry].name = r.name

ProcessInv ==
    /\ IndexIsSound
    /\ WorkerTypeOK
    /\ \A w \in Worker : WalkInv(w)

LEMMA WalkFrame ==
    ASSUME IndexIsSound, IndexIsSound', [EntriesNext]_entriesVars, NEW w \in Worker,
           WalkInv(w), worker'[w] = worker[w]
    PROVE  WalkInv(w)'
<1>1. Grows
  <2>1. CASE UNCHANGED entriesVars
    BY <2>1 DEF entriesVars, Grows
  <2> QED
    BY <2>1, GrowsStep DEF IndexIsSound
<1>2. worker[w].calm => ScanOver'
  BY ScanStaysOver DEF IndexIsSound, WalkInv
<1>. QED
  BY <1>1, <1>2 DEF WalkInv, Grows, Depth, OnWalk
----------------------------------------------------------------------------
(* What a worker keeps of its request.                                     *)
WorkerState == [pc : WorkerPC, op : Op, dir : Dirs \cup {<<>>}, name : Name \cup {NoName},
                walk : Walk, node : Node, null : BOOLEAN, idx : Nat, entry : Nat,
                calm : BOOLEAN, reply : Reply, names : SUBSET Name, subdirs : SUBSET Key]

(* The request that is served stays the one that came in.                  *)
SameRequest(r, s) ==
    s.op = r.op /\ s.dir = r.dir /\ s.name = r.name /\ s.calm = r.calm
SameListing(r, s) == s.names = r.names /\ s.subdirs = r.subdirs
SamePlace(r, s) == s.walk = r.walk /\ s.node = r.node /\ s.null = r.null

(* How the steps of a worker change its state.                             *)
Starts(r, s, walk) ==
    /\ s \in WorkerState /\ SameRequest(r, s)
    /\ s.pc = "index" /\ s.walk = walk /\ s.node = Root /\ ~s.null
Answers(r, s, reply) ==
    /\ s \in WorkerState /\ SameRequest(r, s) /\ SameListing(r, s)
    /\ s.pc = "reply" /\ s.reply = reply /\ s.walk = r.walk
Misses(r, s) ==
    \/ r.walk = "exists" /\ r.op = "getattr" /\ Starts(r, s, "find") /\ SameListing(r, s)
    \/ r.walk = "exists" /\ r.op = "opendir" /\ Answers(r, s, "error")
    \/ r.walk \in {"exists", "files"} /\ r.op = "readdir" /\ Answers(r, s, "listing")
    \/ r.walk = "children" /\ Starts(r, s, "files") /\ SameListing(r, s)
    \/ r.walk = "find" /\ Answers(r, s, "error")
    \/ r.walk = "mark" /\ Answers(r, s, "ok")

LEMMA SetEffect ==
    ASSUME WorkerTypeOK, NEW w \in Worker, NEW s, s \in WorkerState, Set(w, s), status' = status
    PROVE  /\ WorkerTypeOK' /\ worker'[w] = s
           /\ \A v \in Worker \ {w} : worker'[v] = worker[v]
<1>1. worker \in [Worker -> WorkerState] /\ worker' = [worker EXCEPT ![w] = s]
  BY DEF WorkerTypeOK, WorkerState, Set
<1>2. worker' \in [Worker -> WorkerState] /\ worker'[w] = s
      /\ \A v \in Worker \ {w} : worker'[v] = worker[v]
  BY <1>1
<1>. QED
  BY <1>2 DEF WorkerTypeOK, WorkerState

LEMMA WorkerStateOf ==
    ASSUME WorkerTypeOK, NEW w \in Worker PROVE worker[w] \in WorkerState
  BY DEF WorkerTypeOK, WorkerState

LEMMA StartsEffect ==
    ASSUME NEW w \in Worker, worker[w] \in WorkerState, NEW walk \in Walk
    PROVE  Starts(worker[w], StartWalk(w, walk), walk) /\ SameListing(worker[w], StartWalk(w, walk))
<1> DEFINE r == worker[w]
           s == StartWalk(w, walk)
<1>0. "index" \in WorkerPC /\ Root \in Node /\ FALSE \in BOOLEAN /\ 0 \in Nat
  BY DEF WorkerPC, Root, Node
<1>1. s \in WorkerState
  BY <1>0 DEF StartWalk, WorkerState
<1>2. /\ s.pc = "index" /\ s.walk = walk /\ s.node = Root /\ s.null = FALSE
      /\ s.op = r.op /\ s.dir = r.dir /\ s.name = r.name /\ s.calm = r.calm
      /\ s.names = r.names /\ s.subdirs = r.subdirs
  BY DEF StartWalk, WorkerState
<1>. QED
  BY <1>1, <1>2 DEF Starts, SameRequest, SameListing

LEMMA AnswersEffect ==
    ASSUME NEW w \in Worker, worker[w] \in WorkerState, NEW reply \in Reply,
           NEW s, s = [worker[w] EXCEPT !.pc = "reply", !.reply = reply]
    PROVE  Answers(worker[w], s, reply)
<1>1. s \in WorkerState
  BY DEF WorkerState, WorkerPC
<1>2. /\ s.pc = "reply" /\ s.reply = reply /\ s.walk = worker[w].walk
      /\ s.op = worker[w].op /\ s.dir = worker[w].dir
      /\ s.name = worker[w].name /\ s.calm = worker[w].calm
      /\ s.names = worker[w].names /\ s.subdirs = worker[w].subdirs
  BY DEF WorkerState
<1>. QED
  BY <1>1, <1>2 DEF Answers, SameRequest, SameListing

LEMMA MissEffect ==
    ASSUME WorkerTypeOK, NEW w \in Worker, WalkInv(w), Miss(w)
    PROVE  /\ WorkerTypeOK' /\ Misses(worker[w], worker'[w])
           /\ \A v \in Worker \ {w} : worker'[v] = worker[v]
<1>1. worker[w] \in WorkerState
  BY WorkerStateOf
<1>2. \/ worker[w].walk = "exists" /\ worker[w].op \in {"getattr", "opendir", "readdir"}
      \/ worker[w].walk = "files" /\ worker[w].op = "readdir"
      \/ worker[w].walk \in {"children", "find", "mark"}
  BY <1>1 DEF WalkInv, WorkerState, Walk
<1>3. Misses(worker[w], AfterMiss(w))
  <2>1. CASE worker[w].walk = "exists" /\ worker[w].op = "getattr"
    <3>1. AfterMiss(w) = StartWalk(w, "find")
      BY <2>1 DEF AfterMiss
    <3>. QED
      BY <1>1, <2>1, <3>1, StartsEffect DEF Misses, Walk
  <2>2. CASE worker[w].walk = "exists" /\ worker[w].op = "opendir"
    <3>1. AfterMiss(w) = [worker[w] EXCEPT !.pc = "reply", !.reply = "error"]
      BY <2>2 DEF AfterMiss
    <3>. QED
      BY <1>1, <2>2, <3>1, AnswersEffect DEF Misses, Reply
  <2>3. CASE worker[w].walk \in {"exists", "files"} /\ worker[w].op = "readdir"
    <3>1. AfterMiss(w) = [worker[w] EXCEPT !.pc = "reply", !.reply = "listing"]
      BY <2>3 DEF AfterMiss
    <3>. QED
      BY <1>1, <2>3, <3>1, AnswersEffect DEF Misses, Reply
  <2>4. CASE worker[w].walk = "children"
    <3>1. AfterMiss(w) = StartWalk(w, "files")
      BY <2>4 DEF AfterMiss
    <3>. QED
      BY <1>1, <2>4, <3>1, StartsEffect DEF Misses, Walk
  <2>5. CASE worker[w].walk = "find"
    <3>1. AfterMiss(w) = [worker[w] EXCEPT !.pc = "reply", !.reply = "error"]
      BY <2>5 DEF AfterMiss
    <3>. QED
      BY <1>1, <2>5, <3>1, AnswersEffect DEF Misses, Reply
  <2>6. CASE worker[w].walk = "mark"
    <3>1. AfterMiss(w) = [worker[w] EXCEPT !.pc = "reply", !.reply = "ok"]
      BY <2>6 DEF AfterMiss
    <3>. QED
      BY <1>1, <2>6, <3>1, AnswersEffect DEF Misses, Reply
  <2>. QED
    BY <1>2, <2>1, <2>2, <2>3, <2>4, <2>5, <2>6
<1>4. AfterMiss(w) \in WorkerState
  BY <1>3 DEF Misses, Starts, Answers
<1>. QED
  BY <1>3, <1>4, SetEffect DEF Miss
----------------------------------------------------------------------------
(* The walk goes on.                                                       *)
Moves(r, s, pc) ==
    s \in WorkerState /\ SameRequest(r, s) /\ SameListing(r, s) /\ s.walk = r.walk /\ s.pc = pc

Alone(w) == WorkerTypeOK' /\ \A v \in Worker \ {w} : worker'[v] = worker[v]

LEMMA IdleState == Idle \in WorkerState
<1>1. /\ "idle" \in WorkerPC /\ "getattr" \in Op /\ "exists" \in Walk /\ "none" \in Reply
      /\ Root \in Node /\ FALSE \in BOOLEAN /\ 0 \in Nat
  BY DEF WorkerPC, Op, Walk, Reply, Root, Node
<1>2. {} \in SUBSET Name /\ {} \in SUBSET Key /\ <<>> \in Dirs \cup {<<>>}
      /\ NoName \in Name \cup {NoName}
  OBVIOUS
<1>. QED
  BY <1>1, <1>2 DEF Idle, WorkerState

LEMMA RequestedAreNames == Requested \subseteq Name
  BY RequestsAssumption DEF Requested, Name

LEMMA RequestEffect ==
    ASSUME WorkerTypeOK, NEW w \in Worker, Request(w)
    PROVE  /\ Alone(w)
           /\ LET s == worker'[w] IN
                /\ s.pc = "index" /\ s.node = Root /\ ~s.null
                /\ s.name \in Takes(s.op) /\ s.calm = ScanOver
                /\ s.walk = IF s.op \in {"open", "unlink"} THEN "find" ELSE "exists"
                /\ s.names = {} /\ s.subdirs = {}
<1>1. PICK op \in Op, dir \in Dirs : \E name \in Takes(op) :
        Set(w, [Idle EXCEPT !.pc = "index", !.op = op, !.dir = dir, !.name = name,
                            !.walk = IF op \in {"open", "unlink"} THEN "find" ELSE "exists",
                            !.calm = ScanOver])
  BY DEF Request
<1>2. PICK name \in Takes(op) :
        Set(w, [Idle EXCEPT !.pc = "index", !.op = op, !.dir = dir, !.name = name,
                            !.walk = IF op \in {"open", "unlink"} THEN "find" ELSE "exists",
                            !.calm = ScanOver])
  BY <1>1
<1> DEFINE walk == IF op \in {"open", "unlink"} THEN "find" ELSE "exists"
           s == [Idle EXCEPT !.pc = "index", !.op = op, !.dir = dir, !.name = name,
                             !.walk = walk, !.calm = ScanOver]
<1>3. /\ "index" \in WorkerPC /\ dir \in Dirs \cup {<<>>} /\ walk \in Walk /\ ScanOver \in BOOLEAN
  BY DEF WorkerPC, Walk, ScanOver
<1>4. name \in Name \cup {NoName}
  BY RequestedAreNames DEF Takes, Op
<1>5. /\ Idle.node = Root /\ Idle.null = FALSE /\ Idle.names = {} /\ Idle.subdirs = {}
  BY DEF Idle
<1> HIDE DEF walk
<1>6. s \in WorkerState
  BY <1>3, <1>4, IdleState DEF WorkerState
<1>7. /\ s.pc = "index" /\ s.op = op /\ s.name = name /\ s.walk = walk /\ s.calm = ScanOver
      /\ s.node = Root /\ s.null = FALSE /\ s.names = {} /\ s.subdirs = {}
  BY <1>5, IdleState DEF WorkerState
<1>8. Alone(w) /\ worker'[w] = s
  <2>1. Set(w, s) /\ status' = status
    BY <1>2 DEF Request, walk
  <2>. QED
    BY <1>6, <2>1, SetEffect DEF Alone
<1> HIDE DEF s
<1>. QED
  BY <1>7, <1>8 DEF walk

LEMMA IndexFoundEffect ==
    ASSUME TypeOK, WorkerTypeOK, NEW w \in Worker, IndexFound(w)
    PROVE  /\ Alone(w) /\ UNCHANGED entriesVars
           /\ Moves(worker[w], worker'[w], "child")
           /\ worker'[w].node = worker[w].node /\ worker'[w].null = worker[w].null
           /\ worker'[w].idx = string_index[NextKey(w)]
<1>1. worker[w] \in WorkerState /\ string_index[NextKey(w)] \in Nat /\ "child" \in WorkerPC
  BY WorkerStateOf DEF IndexFound, TypeOK, WorkerPC
<1> DEFINE s == [worker[w] EXCEPT !.pc = "child", !.idx = string_index[NextKey(w)]]
<1>2. s \in WorkerState
  BY <1>1 DEF WorkerState
<1>3. /\ s.pc = "child" /\ s.idx = string_index[NextKey(w)]
      /\ SamePlace(worker[w], s) /\ SameRequest(worker[w], s) /\ SameListing(worker[w], s)
  BY <1>1 DEF WorkerState, SamePlace, SameRequest, SameListing
<1>4. Set(w, s) /\ status' = status
  BY DEF IndexFound
<1> HIDE DEF s
<1>. QED
  BY <1>2, <1>3, <1>4, SetEffect DEF Alone, Moves, SamePlace, IndexFound

LEMMA ChildFoundEffect ==
    ASSUME TypeOK, WorkerTypeOK, NEW w \in Worker, ChildFound(w)
    PROVE  /\ Alone(w) /\ UNCHANGED entriesVars
           /\ Moves(worker[w], worker'[w], "index")
           /\ worker'[w].node = NextNode(w) /\ worker'[w].null = IsNull(NextNode(w))
<1>1. worker[w] \in WorkerState /\ NextNode(w) \in Node /\ "index" \in WorkerPC
      /\ IsNull(NextNode(w)) \in BOOLEAN /\ 0 \in Nat
  BY WorkerStateOf DEF ChildFound, TypeOK, WorkerPC, IsNull
<1> DEFINE s == [worker[w] EXCEPT !.pc = "index", !.node = NextNode(w),
                                  !.null = IsNull(NextNode(w)), !.idx = 0]
<1>2. s \in WorkerState
  BY <1>1 DEF WorkerState
<1>3. /\ s.pc = "index" /\ s.node = NextNode(w) /\ s.null = IsNull(NextNode(w))
      /\ s.walk = worker[w].walk /\ SameRequest(worker[w], s) /\ SameListing(worker[w], s)
  BY <1>1 DEF WorkerState, SameRequest, SameListing
<1>4. Set(w, s) /\ status' = status
  BY DEF ChildFound
<1> HIDE DEF s
<1>. QED
  BY <1>2, <1>3, <1>4, SetEffect DEF Alone, Moves, ChildFound

LEMMA FinishEffect ==
    ASSUME WorkerTypeOK, NEW w \in Worker, Finish(w)
    PROVE  Alone(w) /\ UNCHANGED entriesVars /\ worker'[w] = Idle
  BY IdleState, SetEffect DEF Finish, Alone
----------------------------------------------------------------------------
LEMMA AnswerEffect ==
    ASSUME WorkerTypeOK, NEW w \in Worker, NEW reply \in Reply, Answer(w, reply), status' = status
    PROVE  Alone(w) /\ Answers(worker[w], worker'[w], reply)
<1> DEFINE s == [worker[w] EXCEPT !.pc = "reply", !.reply = reply]
<1>1. Answers(worker[w], s, reply)
  BY WorkerStateOf, AnswersEffect
<1>2. s \in WorkerState
  BY <1>1 DEF Answers
<1>3. Set(w, s)
  BY DEF Answer
<1> HIDE DEF s
<1>. QED
  BY <1>1, <1>2, <1>3, SetEffect DEF Alone

LEMMA StartEffect ==
    ASSUME WorkerTypeOK, NEW w \in Worker, NEW walk \in Walk, Set(w, StartWalk(w, walk)),
           status' = status
    PROVE  /\ Alone(w) /\ Starts(worker[w], worker'[w], walk)
           /\ SameListing(worker[w], worker'[w])
<1>1. Starts(worker[w], StartWalk(w, walk), walk) /\ SameListing(worker[w], StartWalk(w, walk))
  BY WorkerStateOf, StartsEffect
<1>2. StartWalk(w, walk) \in WorkerState
  BY <1>1 DEF Starts
<1>. QED
  BY <1>1, <1>2, SetEffect DEF Alone

LEMMA ReachedEffect ==
    ASSUME WorkerTypeOK, NEW w \in Worker, WalkInv(w), Reached(w)
    PROVE  LET r == worker[w]
               s == worker'[w]
           IN /\ Alone(w) /\ UNCHANGED entriesVars
              /\ \/ r.walk = "exists" /\ r.name # NoName /\ Misses(r, s)
                 \/ /\ r.walk = "exists" /\ r.name = NoName /\ r.op \in {"getattr", "opendir"}
                    /\ Answers(r, s, "dir")
                 \/ /\ r.walk = "exists" /\ r.name = NoName /\ r.op = "readdir"
                    /\ Starts(r, s, "children") /\ SameListing(r, s)
                 \/ r.walk # "exists" /\ r.null /\ Misses(r, s)
                 \/ r.walk # "exists" /\ ~r.null /\ Moves(r, s, "end") /\ s.node = r.node
                    /\ s.null = r.null
<1>1. CASE \/ worker[w].walk = "exists" /\ worker[w].name # NoName /\ Miss(w)
           \/ worker[w].walk # "exists" /\ worker[w].null /\ Miss(w)
  BY <1>1, MissEffect DEF Miss, Alone
<1>2. CASE /\ worker[w].walk = "exists" /\ worker[w].name = NoName
           /\ worker[w].op \in {"getattr", "opendir"} /\ Answer(w, "dir")
           /\ UNCHANGED <<entriesVars, status>>
  BY <1>2, AnswerEffect DEF Reply
<1>3. CASE /\ worker[w].walk = "exists" /\ worker[w].name = NoName
           /\ worker[w].op = "readdir" /\ Set(w, StartWalk(w, "children"))
           /\ UNCHANGED <<entriesVars, status>>
  BY <1>3, StartEffect DEF Walk
<1>4. CASE /\ worker[w].walk # "exists" /\ ~worker[w].null
           /\ Set(w, [worker[w] EXCEPT !.pc = "end"])
           /\ UNCHANGED <<entriesVars, status>>
  <2> DEFINE s == [worker[w] EXCEPT !.pc = "end"]
  <2>1. worker[w] \in WorkerState /\ "end" \in WorkerPC
    BY WorkerStateOf DEF WorkerPC
  <2>2. s \in WorkerState
    BY <2>1 DEF WorkerState
  <2>3. /\ s.pc = "end" /\ SamePlace(worker[w], s)
        /\ SameRequest(worker[w], s) /\ SameListing(worker[w], s)
    BY <2>1 DEF WorkerState, SamePlace, SameRequest, SameListing
  <2>4. Set(w, s)
    BY <1>4
  <2> HIDE DEF s
  <2>. QED
    BY <1>4, <2>2, <2>3, <2>4, SetEffect DEF Alone, Moves, SamePlace
<1>. QED
  BY <1>1, <1>2, <1>3, <1>4 DEF Reached

(* The names are given once: a look-up finds the entry there is.           *)
LEMMA FirstIsThere ==
    ASSUME TypeOK, UniqueNames, NEW dir, NEW name, EntriesNamed(dir, name) # {}
    PROVE  /\ FirstNamed(dir, name) \in DOMAIN files
           /\ files[FirstNamed(dir, name)].dir = dir
           /\ files[FirstNamed(dir, name)].name = name
<1>1. PICK i : i \in EntriesNamed(dir, name)
  OBVIOUS
<1>2. i \in DOMAIN files /\ DOMAIN files \subseteq Nat
  BY <1>1 DEF EntriesNamed, TypeOK
<1>3. \A j \in EntriesNamed(dir, name) : j = i
  BY <1>1 DEF EntriesNamed, UniqueNames
<1>4. \A j \in EntriesNamed(dir, name) : i <= j
  BY <1>2, <1>3
<1>5. FirstNamed(dir, name) \in EntriesNamed(dir, name)
  BY <1>1, <1>4 DEF FirstNamed
<1>. QED
  BY <1>5 DEF EntriesNamed

LEMMA FileFoundEffect ==
    ASSUME TypeOK, UniqueNames, WorkerTypeOK, NEW w \in Worker, FileFound(w)
    PROVE  LET r == worker[w]
               s == worker'[w]
           IN /\ Alone(w) /\ UNCHANGED entriesVars
              /\ \/ Answers(r, s, "error")
                 \/ /\ Moves(r, s, "syscall") /\ s.entry \in DOMAIN files
                    /\ files[s.entry].name = r.name /\ files[s.entry].dir = r.node
<1> DEFINE i == FirstNamed(worker[w].node, worker[w].name)
<1>1. /\ i \in DOMAIN files /\ files[i].dir = worker[w].node
      /\ files[i].name = worker[w].name
  BY FirstIsThere DEF FileFound, Shown
<1>2. i \in Nat
  BY <1>1 DEF TypeOK
<1>3. CASE Answer(w, "error")
  BY <1>3, AnswerEffect DEF FileFound, Reply
<1>4. CASE Set(w, [worker[w] EXCEPT !.pc = "syscall", !.entry = i])
  <2> DEFINE s == [worker[w] EXCEPT !.pc = "syscall", !.entry = i]
  <2> HIDE DEF i
  <2>1. worker[w] \in WorkerState /\ "syscall" \in WorkerPC
    BY WorkerStateOf DEF WorkerPC
  <2>2. s \in WorkerState
    BY <1>2, <2>1 DEF WorkerState
  <2>3. /\ s.pc = "syscall" /\ s.entry = i /\ s.walk = worker[w].walk
        /\ SameRequest(worker[w], s) /\ SameListing(worker[w], s)
    BY <2>1 DEF WorkerState, SameRequest, SameListing
  <2>4. Set(w, s)
    BY <1>4 DEF i
  <2> HIDE DEF s
  <2>. QED
    BY <1>1, <2>2, <2>3, <2>4, SetEffect DEF FileFound, Alone, Moves
<1>. QED
  BY <1>3, <1>4 DEF FileFound

LEMMA ListChildrenEffect ==
    ASSUME TypeOK, WorkerTypeOK, NEW w \in Worker, ListChildren(w)
    PROVE  LET r == worker[w]
               s == worker'[w]
           IN /\ Alone(w) /\ UNCHANGED entriesVars
              /\ Starts(r, s, "files") /\ s.names = r.names
              /\ ScanOver => s.subdirs = {string_reverse_index[i] : i \in ChildrenOf(r.node)}
<1> DEFINE now == ChildrenOf(worker[w].node)
           settled == {i \in now : ~ChildrenInFlux(worker[w].node) \/ i # scanner.idx}
<1>1. PICK seen \in {now, settled} :
         Set(w, [StartWalk(w, "files") EXCEPT !.subdirs = {string_reverse_index[i] : i \in seen}])
  BY DEF ListChildren
<1> DEFINE names == {string_reverse_index[i] : i \in seen}
           s == [StartWalk(w, "files") EXCEPT !.subdirs = names]
<1>2. seen \subseteq DOMAIN string_reverse_index
  BY DEF ChildrenOf
<1>3. names \in SUBSET Key
  BY <1>2 DEF TypeOK
<1>4. ScanOver => seen = now
  BY DEF ScanOver, ChildrenInFlux
<1>5. /\ Starts(worker[w], StartWalk(w, "files"), "files")
      /\ SameListing(worker[w], StartWalk(w, "files"))
  BY WorkerStateOf, StartsEffect DEF Walk
<1> HIDE DEF now, settled
<1>6. Set(w, s)
  BY <1>1
<1> HIDE DEF names
<1>7. s \in WorkerState
  BY <1>3, <1>5 DEF Starts, WorkerState
<1>8. s.subdirs = names /\ Starts(worker[w], s, "files") /\ s.names = worker[w].names
  BY <1>5, <1>7 DEF Starts, SameListing, SameRequest, WorkerState
<1> HIDE DEF s
<1>9. Alone(w) /\ worker'[w] = s
  BY <1>6, <1>7, SetEffect DEF ListChildren, Alone
<1>. QED
  BY <1>4, <1>8, <1>9 DEF names, now, ListChildren

LEMMA ListFilesEffect ==
    ASSUME TypeOK, WorkerTypeOK, NEW w \in Worker, ListFiles(w)
    PROVE  LET r == worker[w]
               s == worker'[w]
           IN /\ Alone(w) /\ UNCHANGED entriesVars
              /\ s \in WorkerState /\ SameRequest(r, s) /\ s.walk = r.walk
              /\ s.pc = "reply" /\ s.reply = "listing" /\ s.subdirs = r.subdirs
              /\ s.names = {files[i].name : i \in {j \in DOMAIN files :
                                 files[j].dir = r.node /\ ~files[j].deleted}}
<1> DEFINE here == {j \in DOMAIN files : files[j].dir = worker[w].node /\ ~files[j].deleted}
           names == {files[i].name : i \in here}
           s == [worker[w] EXCEPT !.pc = "reply", !.reply = "listing", !.names = names]
<1>1. names \in SUBSET Name
  <2>1. \A i \in DOMAIN files : files[i] \in Entry
    BY DEF TypeOK
  <2>2. \A i \in here : files[i].name \in Name
    BY <2>1 DEF Entry
  <2>. QED
    BY <2>2
<1>2. Set(w, s)
  BY DEF ListFiles
<1> HIDE DEF names
<1>3. worker[w] \in WorkerState /\ "reply" \in WorkerPC /\ "listing" \in Reply
  BY WorkerStateOf DEF WorkerPC, Reply
<1>4. s \in WorkerState
  BY <1>1, <1>3 DEF WorkerState
<1>5. /\ s.pc = "reply" /\ s.reply = "listing" /\ s.names = names /\ s.walk = worker[w].walk
      /\ SameRequest(worker[w], s) /\ s.subdirs = worker[w].subdirs
  BY <1>3 DEF WorkerState, SameRequest
<1> HIDE DEF s
<1>6. Alone(w) /\ worker'[w] = s
  BY <1>2, <1>4, SetEffect DEF ListFiles, Alone
<1>. QED
  BY <1>4, <1>5, <1>6 DEF names, ListFiles

LEMMA UseFileEffect ==
    ASSUME WorkerTypeOK, NEW w \in Worker, UseFile(w)
    PROVE  /\ Alone(w) /\ UNCHANGED entriesVars
           /\ \/ worker[w].op = "getattr" /\ Answers(worker[w], worker'[w], "file")
              \/ worker[w].op = "open" /\ Answers(worker[w], worker'[w], "ok")
              \/ Answers(worker[w], worker'[w], "error")
<1>1. \/ worker[w].op = "getattr" /\ Answer(w, "file")
      \/ worker[w].op = "open" /\ Answer(w, "ok")
      \/ Answer(w, "error")
  <2> DEFINE exists == files[worker[w].entry].file \in disk
  <2>1. \/ worker[w].op = "getattr" /\ Answer(w, IF exists THEN "file" ELSE "error")
        \/ worker[w].op = "open" /\ Answer(w, "ok")
        \/ Answer(w, "error")
    BY DEF UseFile
  <2>. QED
    BY <2>1
<1>. QED
  BY <1>1, AnswerEffect DEF UseFile, Reply

LEMMA UnlinkEffect ==
    ASSUME WorkerTypeOK, NEW w \in Worker, UnlinkSource(w)
    PROVE  /\ Alone(w) /\ RemoveSource(files[worker[w].entry].file)
           /\ Starts(worker[w], worker'[w], "mark") /\ SameListing(worker[w], worker'[w])
  BY StartEffect DEF UnlinkSource, Walk

LEMMA AnsweringEffect ==
    ASSUME WorkerTypeOK, NEW w \in Worker
    PROVE  /\ FileMissing(w) => /\ Alone(w) /\ UNCHANGED entriesVars
                                /\ Answers(worker[w], worker'[w], "error")
           /\ UnlinkFails(w) => /\ Alone(w) /\ UNCHANGED entriesVars
                                /\ Answers(worker[w], worker'[w], "error")
           /\ MarkFile(w) => Alone(w) /\ Answers(worker[w], worker'[w], "ok")
<1>1. ASSUME FileMissing(w) PROVE Alone(w) /\ Answers(worker[w], worker'[w], "error")
  BY <1>1, AnswerEffect DEF FileMissing, Reply
<1>2. ASSUME UnlinkFails(w) PROVE Alone(w) /\ Answers(worker[w], worker'[w], "error")
  BY <1>2, AnswerEffect DEF UnlinkFails, Reply
<1>3. ASSUME MarkFile(w) PROVE Alone(w) /\ Answers(worker[w], worker'[w], "ok")
  BY <1>3, AnswerEffect DEF MarkFile, Reply
<1>. QED
  BY <1>1, <1>2, <1>3 DEF FileMissing, UnlinkFails

----------------------------------------------------------------------------
(* The directory of a request is a sequence.                               *)
LEMMA DepthType ==
    ASSUME NEW w \in Worker, worker[w] \in WorkerState
    PROVE  /\ worker[w].dir \in Seq(Key) /\ Len(worker[w].dir) \in Nat
           /\ worker[w].node \in Node /\ Len(worker[w].node) \in Nat /\ Depth(w) \in Int
<1>1. worker[w].dir \in Seq(Key) /\ worker[w].node \in Node
  <2>1. worker[w].dir \in Dirs \cup {<<>>} /\ worker[w].node \in Node
    BY DEF WorkerState
  <2>2. <<>> \in Seq(Key)
    OBVIOUS
  <2>. QED
    BY <2>1, <2>2, RequestsAssumption
<1>. QED
  BY <1>1 DEF Node, Depth

(* A walk begins: at the root, with at least nothing ahead of it.          *)
LEMMA WalkStarts ==
    ASSUME NEW w \in Worker, WalkInv(w), worker[w] \in WorkerState, Root \in store',
           worker[w].calm => ScanOver', NEW walk, Starts(worker[w], worker'[w], walk),
           \/ walk = "find" /\ worker[w].op = "getattr"
                            /\ (worker[w].name = NoName => Len(worker[w].dir) > 0)
           \/ walk \in {"children", "files"} /\ worker[w].op = "readdir"
           \/ walk = "mark" /\ worker[w].op = "unlink"
    PROVE  WalkInv(w)'
<1> DEFINE s == worker'[w]
<1>1. /\ s.op = worker[w].op /\ s.dir = worker[w].dir /\ s.name = worker[w].name
      /\ s.calm = worker[w].calm /\ s.pc = "index" /\ s.walk = walk /\ s.node = Root /\ ~s.null
  BY DEF Starts, SameRequest
<1>2. s.name \in Takes(s.op) /\ (s.calm => ScanOver')
  BY <1>1 DEF WalkInv
<1>3. Len(s.node) = 0 /\ 0 <= Depth(w)'
  BY <1>1, DepthType DEF Root, Depth
<1>4. s.node \in store' /\ Len(s.node) <= Depth(w)'
  BY <1>1, <1>3
<1>. QED
  BY <1>1, <1>2, <1>4 DEF WalkInv

(* A request is answered.                                                  *)
LEMMA WalkAnswers ==
    ASSUME NEW w \in Worker, WalkInv(w), worker[w].calm => ScanOver', NEW reply,
           Answers(worker[w], worker'[w], reply)
    PROVE  WalkInv(w)'
  BY DEF Answers, SameRequest, WalkInv, OnWalk
----------------------------------------------------------------------------
(* The walk ends without its goal.                                         *)
LEMMA WalkMisses ==
    ASSUME NEW w \in Worker, WalkInv(w), worker[w] \in WorkerState, Root \in store',
           worker[w].calm => ScanOver', Misses(worker[w], worker'[w]),
           worker[w].walk = "exists" /\ worker[w].name = NoName => Len(worker[w].dir) > 0
    PROVE  WalkInv(w)'
<1>1. ASSUME NEW reply, Answers(worker[w], worker'[w], reply) PROVE WalkInv(w)'
  BY <1>1, WalkAnswers
<1>2. CASE /\ worker[w].walk = "exists" /\ worker[w].op = "getattr"
           /\ Starts(worker[w], worker'[w], "find")
  BY <1>2, WalkStarts
<1>3. CASE worker[w].walk = "children" /\ Starts(worker[w], worker'[w], "files")
  BY <1>3, WalkStarts DEF WalkInv
<1>. QED
  BY <1>1, <1>2, <1>3 DEF Misses

LEMMA OwnStep ==
    ASSUME IndexIsSound, IndexIsSound', [EntriesNext]_entriesVars, WorkerTypeOK,
           NEW w \in Worker, WalkInv(w), Request(w) \/ WorkerStep(w)
    PROVE  /\ WorkerTypeOK' /\ WalkInv(w)'
           /\ \A v \in Worker \ {w} : worker'[v] = worker[v]
<1>t. /\ TypeOK /\ worker[w] \in WorkerState /\ UniqueNames /\ Root \in store'
      /\ (worker[w].calm => ScanOver') /\ TypeInv
  BY WorkerStateOf, ScanStaysOver DEF IndexIsSound, TypeInv, NamesInv, PlacementInv, WalkInv
<1>d. /\ worker[w].dir \in Seq(Key) /\ Len(worker[w].dir) \in Nat
      /\ worker[w].node \in Node /\ Len(worker[w].node) \in Nat /\ Depth(w) \in Int
  BY <1>t, DepthType
<1>a. ASSUME NEW reply, Alone(w), Answers(worker[w], worker'[w], reply)
      PROVE  WalkInv(w)' /\ Alone(w)
  BY <1>t, <1>a, WalkAnswers
<1>m. ASSUME Miss(w), \/ worker[w].walk # "exists"
                      \/ worker[w].name # NoName
                      \/ worker[w].pc \in {"index", "child"} /\ ~AtTarget(w)
      PROVE  WalkInv(w)' /\ Alone(w)
  <2>1. Alone(w) /\ Misses(worker[w], worker'[w])
    BY <1>m, MissEffect DEF Alone
  <2>2. worker[w].walk = "exists" /\ worker[w].name = NoName => Len(worker[w].dir) > 0
    BY <1>d, <1>m DEF WalkInv, AtTarget, Depth, OnWalk
  <2>. QED
    BY <1>t, <2>1, <2>2, WalkMisses
<1>1. CASE Request(w)
  <2>1. Alone(w)
    BY <1>1, RequestEffect
  <2> DEFINE s == worker'[w]
  <2>2. /\ s.pc = "index" /\ s.node = Root /\ ~s.null
        /\ s.name \in Takes(s.op) /\ s.calm = ScanOver
        /\ s.walk = IF s.op \in {"open", "unlink"} THEN "find" ELSE "exists"
    BY <1>1, RequestEffect
  <2>3. UNCHANGED entriesVars /\ s \in WorkerState
    BY <1>1, <2>1, WorkerStateOf DEF Request, Alone, WorkerTypeOK, WorkerState
  <2>4. s.op \in Op /\ Len(s.dir) \in Nat /\ Len(s.node) = 0
    <3>1. s.dir \in Dirs \cup {<<>>}
      BY <2>3 DEF WorkerState
    <3>. QED
      BY <2>2, <2>3, <3>1, RequestsAssumption DEF WorkerState, Root
  <2>5. s.walk = "find" => s.name # NoName
    BY <2>2, <2>4, RequestedAreNames, RequestsAssumption DEF Takes, Op
  <2>6. Depth(w)' >= 0
    BY <2>4, <2>5 DEF Depth
  <2>7. ScanOver' = ScanOver
    BY <2>3 DEF ScanOver, entriesVars
  <2>. QED
    BY <1>t, <2>1, <2>2, <2>4, <2>6, <2>7 DEF WalkInv, Alone, Op
<1>2. CASE IndexFound(w)
  <2>1. /\ Alone(w) /\ UNCHANGED entriesVars /\ Moves(worker[w], worker'[w], "child")
        /\ worker'[w].node = worker[w].node /\ worker'[w].null = worker[w].null
    BY <1>t, <1>2, IndexFoundEffect
  <2>2. worker[w].pc = "index" /\ Len(worker[w].node) # Depth(w)
    BY <1>2 DEF IndexFound, Walking, AtTarget
  <2>3. Depth(w)' = Depth(w) /\ store' = store
    BY <2>1 DEF Depth, Moves, SameRequest, entriesVars
  <2>4. Len(worker[w].node) < Depth(w)
    BY <1>d, <2>2 DEF WalkInv, OnWalk
  <2>. QED
    BY <1>t, <2>1, <2>2, <2>3, <2>4 DEF WalkInv, Alone, Moves, SameRequest, OnWalk
<1>3. CASE IndexMissing(w) \/ NullSeen(w)
  <2>1. Miss(w) /\ worker[w].pc = "index" /\ ~AtTarget(w)
    BY <1>3 DEF IndexMissing, NullSeen, Walking
  <2>. QED
    BY <1>m, <2>1 DEF Alone
<1>4. CASE NullDereferenced(w) \/ ChildNameMissing(w)
  <2>1. UNCHANGED worker /\ status' = "crashed"
    BY <1>4 DEF NullDereferenced, ChildNameMissing, Crash
  <2>. QED
    BY <2>1, WalkFrame DEF WorkerTypeOK
<1>5. CASE ChildFound(w)
  <2>1. /\ Alone(w) /\ UNCHANGED entriesVars /\ Moves(worker[w], worker'[w], "index")
        /\ worker'[w].node = NextNode(w) /\ worker'[w].null = IsNull(NextNode(w))
    BY <1>t, <1>5, ChildFoundEffect
  <2>2. worker[w].pc = "child" /\ NextNode(w) \in store
    BY <1>5 DEF ChildFound, Walking
  <2>3. Depth(w)' = Depth(w) /\ store' = store
    BY <2>1 DEF Depth, Moves, SameRequest, entriesVars
  <2>4. Len(NextNode(w)) = Len(worker[w].node) + 1
    BY <1>t, <1>d DEF NextNode, Node, WorkerState
  <2>5. Len(NextNode(w)) <= Depth(w)
    <3>1. Len(worker[w].node) < Depth(w)
      BY <2>2 DEF WalkInv, OnWalk
    <3>. QED
      BY <1>d, <2>4, <3>1
  <2>6. worker[w].calm => ~IsNull(NextNode(w))
    BY DEF WalkInv, ScanOver, IsNull
  <2>. QED
    BY <1>t, <2>1, <2>2, <2>3, <2>5, <2>6 DEF WalkInv, Alone, Moves, SameRequest
<1>6. CASE ChildMissing(w)
  <2>1. Miss(w) /\ worker[w].pc = "child"
    BY <1>6 DEF ChildMissing, Walking
  <2>2. ~AtTarget(w)
    BY <1>d, <2>1 DEF WalkInv, AtTarget, OnWalk
  <2>. QED
    BY <1>m, <2>1, <2>2 DEF Alone
<1>7. CASE Reached(w)
  <2> DEFINE r == worker[w]
             s == worker'[w]
  <2>1. /\ Alone(w) /\ UNCHANGED entriesVars
        /\ \/ r.walk = "exists" /\ r.name # NoName /\ Misses(r, s)
           \/ /\ r.walk = "exists" /\ r.name = NoName /\ r.op \in {"getattr", "opendir"}
              /\ Answers(r, s, "dir")
           \/ /\ r.walk = "exists" /\ r.name = NoName /\ r.op = "readdir"
              /\ Starts(r, s, "children") /\ SameListing(r, s)
           \/ r.walk # "exists" /\ r.null /\ Misses(r, s)
           \/ r.walk # "exists" /\ ~r.null /\ Moves(r, s, "end") /\ s.node = r.node
              /\ s.null = r.null
    BY <1>t, <1>7, ReachedEffect
  <2>2. CASE Misses(r, s) /\ (r.walk = "exists" => r.name # NoName)
    BY <1>t, <2>1, <2>2, WalkMisses DEF Alone
  <2>3. CASE Answers(r, s, "dir")
    BY <1>a, <2>1, <2>3 DEF Alone
  <2>4. CASE r.op = "readdir" /\ Starts(r, s, "children")
    BY <1>t, <2>1, <2>4, WalkStarts DEF Alone
  <2>5. CASE r.walk # "exists" /\ ~r.null /\ Moves(r, s, "end") /\ s.node = r.node /\ s.null = r.null
    <3>1. worker[w].pc = "index" /\ Len(worker[w].node) = Depth(w)
      BY <1>7 DEF Reached, Walking, AtTarget
    <3>2. Depth(w)' = Depth(w) /\ store' = store
      BY <2>1, <2>5 DEF Depth, Moves, SameRequest, entriesVars
    <3>3. Len(worker[w].node) <= Depth(w)
      BY <1>d, <3>1
    <3>. QED
      BY <1>t, <2>1, <2>5, <3>1, <3>2, <3>3 DEF WalkInv, Alone, Moves, SameRequest, OnWalk
  <2>. QED
    BY <2>1, <2>2, <2>3, <2>4, <2>5
<1>8. CASE FileFound(w)
  <2> DEFINE r == worker[w]
             s == worker'[w]
  <2>1. /\ Alone(w) /\ UNCHANGED entriesVars
        /\ \/ Answers(r, s, "error")
           \/ /\ Moves(r, s, "syscall") /\ s.entry \in DOMAIN files
              /\ files[s.entry].name = r.name /\ files[s.entry].dir = r.node
    BY <1>t, <1>8, FileFoundEffect
  <2>2. CASE Moves(r, s, "syscall") /\ s.entry \in DOMAIN files /\ files[s.entry].name = r.name
    <3>1. worker[w].walk = "find"
      BY <1>8 DEF FileFound, Ending
    <3>. QED
      BY <1>t, <2>1, <2>2, <3>1 DEF WalkInv, Alone, Moves, SameRequest, OnWalk, entriesVars
  <2>. QED
    BY <1>a, <2>1, <2>2 DEF Alone
<1>9. CASE FileMissing(w) \/ UseFile(w) \/ UnlinkFails(w) \/ MarkFile(w)
  <2>1. Alone(w) /\ \E reply : Answers(worker[w], worker'[w], reply)
    BY <1>t, <1>9, AnsweringEffect, UseFileEffect
  <2>. QED
    BY <1>a, <2>1 DEF Alone
<1>10. CASE UnlinkSource(w)
  BY <1>t, <1>10, UnlinkEffect, WalkStarts DEF UnlinkSource, Alone
<1>11. CASE ListChildren(w)
  <2>1. Alone(w) /\ Starts(worker[w], worker'[w], "files")
    BY <1>t, <1>11, ListChildrenEffect
  <2>2. worker[w].op = "readdir"
    BY <1>11 DEF ListChildren, Ending, WalkInv
  <2>. QED
    BY <1>t, <2>1, <2>2, WalkStarts DEF Alone
<1>12. CASE ListFiles(w)
  <2>1. /\ Alone(w) /\ SameRequest(worker[w], worker'[w])
        /\ worker'[w].walk = worker[w].walk /\ worker'[w].pc = "reply"
    BY <1>t, <1>12, ListFilesEffect
  <2>. QED
    BY <1>t, <2>1 DEF WalkInv, SameRequest, Alone, OnWalk
<1>13. CASE Finish(w)
  <2>1. Alone(w) /\ worker'[w] = Idle
    BY <1>t, <1>13, FinishEffect
  <2>. QED
    BY <2>1 DEF WalkInv, Idle, Alone, OnWalk, Takes
<1>. QED
  BY <1>1, <1>2, <1>3, <1>4, <1>5, <1>6, <1>7, <1>8, <1>9, <1>10, <1>11, <1>12, <1>13
  DEF WorkerStep
----------------------------------------------------------------------------
LEMMA ProcessInit == Init => ProcessInv
<1> SUFFICES ASSUME Init PROVE ProcessInv
  OBVIOUS
<1>1. worker = [w \in Worker |-> Idle] /\ status = "starting"
  BY DEF Init
<1>2. WorkerTypeOK
  BY <1>1, IdleState DEF WorkerTypeOK, WorkerState
<1>3. \A w \in Worker : WalkInv(w)
  BY <1>1 DEF WalkInv, Idle, OnWalk, Takes
<1>. QED
  BY <1>2, <1>3, SoundInit DEF ProcessInv, Init

LEMMA ProcessStep == ProcessInv /\ [Next]_vars => ProcessInv'
<1> SUFFICES ASSUME ProcessInv, [Next]_vars PROVE ProcessInv'
  OBVIOUS
<1>1. [EntriesNext]_entriesVars /\ IndexIsSound /\ IndexIsSound'
  BY IndexStepInProcess, SoundStep DEF ProcessInv
<1>2. CASE UNCHANGED worker
  <2>1. \A w \in Worker : WalkInv(w)'
    BY <1>1, <1>2, WalkFrame DEF ProcessInv
  <2>2. status' \in {"starting", "mounted", "daemon", "destroyed", "exited", "crashed"}
    <3>1. ASSUME NEW w \in Worker, Request(w) \/ WorkerStep(w)
          PROVE  status' = status \/ status' = "crashed"
      BY <1>1, <3>1, WorkerOffScanner DEF IndexIsSound, TypeInv
    <3>. QED
      BY <3>1 DEF Next, ScannerThread, Others, Mount, Unmount, Exit, UseAfterFree, Crash, vars,
         ProcessInv, WorkerTypeOK
  <2>. QED
    BY <1>1, <1>2, <2>1, <2>2 DEF ProcessInv, WorkerTypeOK
<1>3. ASSUME NEW w \in Worker, Request(w) \/ WorkerStep(w) PROVE ProcessInv'
  <2>1. /\ WorkerTypeOK' /\ WalkInv(w)'
        /\ \A v \in Worker \ {w} : worker'[v] = worker[v]
    BY <1>1, <1>3, OwnStep DEF ProcessInv
  <2>2. \A v \in Worker \ {w} : WalkInv(v)'
    BY <1>1, <2>1, WalkFrame DEF ProcessInv
  <2>. QED
    BY <1>1, <2>1, <2>2 DEF ProcessInv
<1>. QED
  BY <1>2, <1>3 DEF Next, vars, ScannerThread, Others, Mount, Unmount, Exit, UseAfterFree, Crash

LEMMA ProcessAlways == Spec => []ProcessInv
  BY ProcessInit, ProcessStep, PTL DEF Spec

(* Once the scan is over, only what a worker read before can end the       *)
(* process: a null pointer it is still holding.                            *)
LEMMA CrashStep ==
    ASSUME ProcessInv, Next, status' = "crashed", status # "crashed", ScanOver
    PROVE  \E w \in Worker : worker[w].null /\ ~worker[w].calm
<1>1. ~ScannerStep
  BY NoScannerStep
<1>2. ~ScannerThread /\ ~UseAfterFree
  BY <1>1 DEF ScannerThread, UseAfterFree, ScannerActive, ScanOver
<1>3. PICK w \in Worker : Request(w) \/ WorkerStep(w)
  BY <1>2 DEF Next, Others, Mount, Unmount, Exit
<1>4. NullDereferenced(w) \/ ChildNameMissing(w)
  BY <1>3 DEF WorkerStep, Request, IndexFound, IndexMissing, NullSeen, ChildFound, ChildMissing,
     Reached, FileFound, FileMissing, UseFile, UnlinkSource, UnlinkFails, MarkFile, ListChildren,
     ListFiles, Finish, Miss
<1>5. ~ChildNameMissing(w)
  BY DEF ChildNameMissing, ReverseInFlux, ScanOver
<1>6. worker[w].null /\ worker[w].pc = "child"
  BY <1>4, <1>5 DEF NullDereferenced, Walking
<1>. QED
  BY <1>6 DEF ProcessInv, WalkInv, OnWalk

(* However many workers there are: no request that comes in after the      *)
(* scan, and no unmounting, ends the process.                              *)
THEOREM SafeAfterScan == Spec => NoCrashAfterScan
<1>1. ProcessInv /\ [Next]_vars =>
        [status' = "crashed" /\ status # "crashed" /\ ScanOver =>
            \E w \in Worker : worker[w].null /\ ~worker[w].calm]_vars
  BY CrashStep
<1>. QED
  BY <1>1, ProcessAlways, PTL DEF Spec, NoCrashAfterScan
----------------------------------------------------------------------------
(* The components of a directory's name, as far as a walk has come, are    *)
(* those of the nodes it went through; and the file i is in the directory  *)
(* dir or below it.                                                        *)
Spells(node, dir) ==
    Len(node) <= Len(dir) /\ \A j \in 1..Len(node) : string_reverse_index[node[j]] = dir[j]
Within(dir, i) ==
    Len(dir) <= Len(files[i].dir)
    /\ \A j \in 1..Len(dir) : string_reverse_index[files[i].dir[j]] = dir[j]

LEMMA EntryPlace ==
    ASSUME TypeInv, PlacementInv, NEW i \in DOMAIN files
    PROVE  /\ files[i].dir \in store /\ files[i].dir \in Node /\ Len(files[i].dir) \in Nat
           /\ Decode(files[i].dir) \in Seq(Key)
           /\ Len(Decode(files[i].dir)) = Len(files[i].dir)
           /\ \A j \in 1..Len(files[i].dir) :
                /\ files[i].dir[j] \in DOMAIN string_reverse_index
                /\ Decode(files[i].dir)[j] = string_reverse_index[files[i].dir[j]]
<1>1. files[i].dir \in store /\ files[i].dir \in Node
  BY DEF TypeInv, TypeOK, PlacementInv, EntryPlacement
<1>2. Len(files[i].dir) \in Nat
  BY <1>1 DEF Node
<1>3. \A j \in 1..Len(files[i].dir) : files[i].dir[j] \in DOMAIN string_reverse_index
  BY <1>1 DEF PlacementInv, TreeNamed
<1> DEFINE n == files[i].dir
<1>4. \A j \in 1..Len(n) : string_reverse_index[n[j]] \in Key
  BY <1>3 DEF TypeInv, TypeOK
<1> HIDE DEF n
<1>5. /\ Decode(n) \in Seq(Key) /\ Len(Decode(n)) = Len(n)
      /\ \A j \in 1..Len(n) : Decode(n)[j] = string_reverse_index[n[j]]
  <2>1. Len(n) \in Nat
    BY <1>2 DEF n
  <2>. QED
    BY <1>4, <2>1 DEF Decode
<1>. QED
  BY <1>1, <1>2, <1>3, <1>5 DEF n

(* Two sequences that agree are the same.                                  *)
LEMMA SameSeq ==
    ASSUME NEW S, NEW d \in Seq(S), NEW e \in Seq(S), Len(d) = Len(e),
           \A j \in 1..Len(d) : d[j] = e[j]
    PROVE  d = e
  OBVIOUS

LEMMA BelowIsWithin ==
    ASSUME TypeInv, PlacementInv, NEW dir \in Seq(Key), NEW i \in DOMAIN files
    PROVE  /\ Decode(files[i].dir) = dir
                <=> Within(dir, i) /\ Len(files[i].dir) = Len(dir)
           /\ Below(dir, Decode(files[i].dir))
                <=> Within(dir, i) /\ Len(files[i].dir) # Len(dir)
<1> DEFINE e == Decode(files[i].dir)
           n == files[i].dir
<1>1. /\ n \in Node /\ Len(n) \in Nat /\ e \in Seq(Key) /\ Len(e) = Len(n)
      /\ \A j \in 1..Len(n) : e[j] = string_reverse_index[n[j]]
  BY EntryPlace
<1>2. Len(dir) \in Nat
  OBVIOUS
<1>3. Within(dir, i) <=> Len(dir) <= Len(e) /\ \A j \in 1..Len(dir) : e[j] = dir[j]
  <2> HIDE DEF e
  <2>1. Within(dir, i) <=> Len(dir) <= Len(n)
                           /\ \A j \in 1..Len(dir) : string_reverse_index[n[j]] = dir[j]
    BY DEF Within
  <2> HIDE DEF n
  <2>. QED
    BY <1>1, <1>2, <2>1
<1>4. Len(files[i].dir) = Len(e)
  BY <1>1
<1> HIDE DEF e, n
<1>5. e = dir <=> Len(dir) = Len(e) /\ \A j \in 1..Len(dir) : e[j] = dir[j]
  BY <1>1, <1>2, SameSeq
<1>6. ASSUME Len(dir) < Len(e)
      PROVE  SubSeq(e, 1, Len(dir)) = dir <=> \A j \in 1..Len(dir) : e[j] = dir[j]
  <2>1. /\ SubSeq(e, 1, Len(dir)) \in Seq(Key) /\ Len(SubSeq(e, 1, Len(dir))) = Len(dir)
        /\ \A j \in 1..Len(dir) : SubSeq(e, 1, Len(dir))[j] = e[j]
    BY <1>1, <1>2, <1>6
  <2>. QED
    BY <2>1, SameSeq
<1>7. Below(dir, e) <=> Len(dir) < Len(e) /\ \A j \in 1..Len(dir) : e[j] = dir[j]
  BY <1>6 DEF Below
<1>8. Len(dir) < Len(e) <=> Len(dir) <= Len(e) /\ Len(e) # Len(dir)
  BY <1>1, <1>2
<1>. QED
  BY <1>1, <1>2, <1>3, <1>4, <1>5, <1>7, <1>8 DEF e

(* A directory of the layout is one that some file is in or below.         *)
LEMMA ExistsIsWithin ==
    ASSUME TypeInv, PlacementInv, NEW dir \in Seq(Key)
    PROVE  DirExists(dir) <=> dir = <<>> \/ \E i \in DOMAIN files : Within(dir, i)
<1>1. \A i \in DOMAIN files :
        Decode(files[i].dir) = dir \/ Below(dir, Decode(files[i].dir)) <=> Within(dir, i)
  BY BelowIsWithin
<1>2. \A d : d \in Layout <=> \E i \in DOMAIN files : d = Decode(files[i].dir)
  BY DEF Layout
<1>. QED
  BY <1>1, <1>2 DEF DirExists

LEMMA SubDirsAreWithin ==
    ASSUME TypeInv, PlacementInv, NEW dir \in Seq(Key), NEW k
    PROVE  k \in SubDirsOf(dir) <=>
             \E i \in DOMAIN files : /\ Within(dir, i) /\ Len(files[i].dir) # Len(dir)
                                     /\ k = string_reverse_index[files[i].dir[Len(dir) + 1]]
<1>1. k \in SubDirsOf(dir) <=> \E d \in Layout : Below(dir, d) /\ k = d[Len(dir) + 1]
  BY DEF SubDirsOf
<1>2. \A d : d \in Layout <=> \E i \in DOMAIN files : d = Decode(files[i].dir)
  BY DEF Layout
<1>3. ASSUME NEW i \in DOMAIN files, Within(dir, i), Len(files[i].dir) # Len(dir)
      PROVE  Decode(files[i].dir)[Len(dir) + 1] = string_reverse_index[files[i].dir[Len(dir) + 1]]
  <2>1. Len(dir) + 1 \in 1..Len(files[i].dir)
    <3>1. Len(dir) \in Nat /\ Len(files[i].dir) \in Nat /\ Len(dir) <= Len(files[i].dir)
      BY <1>3, EntryPlace DEF Within
    <3>. QED
      BY <1>3, <3>1
  <2>. QED
    BY <2>1, EntryPlace
<1>4. \A i \in DOMAIN files : Below(dir, Decode(files[i].dir))
                                <=> Within(dir, i) /\ Len(files[i].dir) # Len(dir)
  BY BelowIsWithin
<1>. QED
  BY <1>1, <1>2, <1>3, <1>4
----------------------------------------------------------------------------
(* A number stands for one name: two nodes that spell the same components  *)
(* have them in common.                                                    *)
LEMMA NumberOfName ==
    ASSUME IndexInv, NEW i \in DOMAIN string_reverse_index, NEW k \in DOMAIN string_reverse_index,
           string_reverse_index[i] = string_reverse_index[k]
    PROVE  i = k
  BY DEF IndexInv

LEMMA SpelledLeads ==
    ASSUME TypeInv, IndexInv, PlacementInv, NEW dir \in Seq(Key), NEW node \in store,
           Spells(node, dir), NEW i \in DOMAIN files, Within(dir, i)
    PROVE  Leads(node, files[i].dir)
<1>1. /\ node \in Node /\ Len(node) \in Nat /\ Len(node) <= Len(dir) /\ Len(dir) \in Nat
      /\ Len(dir) <= Len(files[i].dir) /\ Len(files[i].dir) \in Nat
  BY EntryPlace DEF Spells, Within, TypeInv, TypeOK, Node
<1>2. ASSUME NEW j \in 1..Len(node) PROVE node[j] = files[i].dir[j]
  <2>1. j \in 1..Len(dir) /\ j \in 1..Len(files[i].dir)
    BY <1>1
  <2>2. string_reverse_index[node[j]] = string_reverse_index[files[i].dir[j]]
    BY <2>1 DEF Spells, Within
  <2>3. node[j] \in DOMAIN string_reverse_index /\ files[i].dir[j] \in DOMAIN string_reverse_index
    BY <2>1, EntryPlace DEF PlacementInv, TreeNamed
  <2>. QED
    BY <2>2, <2>3, NumberOfName
<1>3. Len(node) <= Len(files[i].dir)
  BY <1>1
<1>. QED
  BY <1>2, <1>3 DEF Leads

(* Every node that spells a directory leads to a file, once the scan is    *)
(* over: it is the root, or the directory exists.                          *)
LEMMA SpelledExists ==
    ASSUME IndexIsSound, ScanOver, NEW dir \in Seq(Key), NEW node \in store,
           Spells(node, dir), Len(node) = Len(dir)
    PROVE  DirExists(dir)
<1>1. node \in Node
  BY DEF IndexIsSound, TypeInv, TypeOK
<1>2. CASE node = Root
  BY <1>2 DEF Root, DirExists
<1>3. CASE node # Root
  <2>1. PICK i \in DOMAIN files : Leads(node, files[i].dir)
    BY <1>3 DEF IndexIsSound, TreeUsed, ScanOver, Placing
  <2>2. Len(dir) <= Len(files[i].dir) /\ \A j \in 1..Len(dir) : files[i].dir[j] = node[j]
    BY <2>1 DEF Leads
  <2>3. Within(dir, i)
    BY <2>2 DEF Within, Spells
  <2>. QED
    BY <2>3, ExistsIsWithin DEF IndexIsSound
<1>. QED
  BY <1>2, <1>3

(* The child that leads on to a file below is in the tree.                 *)
LEMMA NextChild ==
    ASSUME TypeInv, IndexInv, PlacementInv, TreeClosed, NEW dir \in Seq(Key), NEW node \in store,
           Spells(node, dir), NEW i \in DOMAIN files, Leads(node, files[i].dir),
           Len(node) < Len(files[i].dir)
    PROVE  /\ Len(node) + 1 \in 1..Len(files[i].dir)
           /\ files[i].dir[Len(node) + 1] \in DOMAIN string_reverse_index
           /\ Append(node, files[i].dir[Len(node) + 1]) \in store
<1> DEFINE m == files[i].dir
           x == m[Len(node) + 1]
<1>1. /\ node \in Node /\ Len(node) \in Nat /\ Len(node) < Len(m) /\ m \in store
      /\ m \in Node /\ Len(m) \in Nat /\ \A j \in 1..Len(m) : m[j] \in DOMAIN string_reverse_index
  BY EntryPlace DEF TypeInv, TypeOK, Node
<1>2. Len(node) + 1 \in 1..Len(m)
  BY <1>1
<1>3. x \in DOMAIN string_reverse_index /\ x \in Nat
  BY <1>1, <1>2 DEF TypeInv, TypeOK
<1>4. \A j \in 1..Len(node) : m[j] = node[j]
  BY DEF Leads
<1> HIDE DEF m, x
<1>5. /\ Append(node, x) \in Node /\ Len(Append(node, x)) = Len(node) + 1
      /\ Append(node, x)[Len(node) + 1] = x
      /\ \A j \in 1..Len(node) : Append(node, x)[j] = node[j]
  BY <1>1, <1>3 DEF Node
<1>6. \A j \in 1..(Len(node) + 1) : j = Len(node) + 1 \/ j \in 1..Len(node)
  BY <1>1
<1>7. Len(node) + 1 <= Len(m)
  BY <1>1
<1>8. \A j \in 1..(Len(node) + 1) : Append(node, x)[j] = m[j]
  BY <1>4, <1>5, <1>6 DEF x
<1>9. Leads(Append(node, x), m)
  BY <1>5, <1>7, <1>8 DEF Leads
<1>10. Append(node, x) \in store
  BY <1>1, <1>5, <1>9 DEF TreeClosed
<1>. QED
  BY <1>2, <1>3, <1>10 DEF m, x

(* Where the walk stops for want of a name or of a child, the directory    *)
(* does not exist.                                                         *)
LEMMA MissedIsNot ==
    ASSUME IndexIsSound, NEW dir \in Seq(Key), NEW node \in store,
           Spells(node, dir), Len(node) < Len(dir),
           \/ dir[Len(node) + 1] \notin DOMAIN string_index
           \/ \E idx \in DOMAIN string_reverse_index :
                /\ string_reverse_index[idx] = dir[Len(node) + 1]
                /\ Append(node, idx) \notin store
    PROVE  ~DirExists(dir)
<1>t. TypeInv /\ IndexInv /\ PlacementInv /\ TreeClosed
  BY DEF IndexIsSound
<1>1. Len(node) \in Nat /\ Len(dir) \in Nat /\ dir # <<>>
  BY <1>t DEF TypeInv, TypeOK, Node
<1>2. ASSUME NEW i \in DOMAIN files, Within(dir, i) PROVE FALSE
  <2>1. Leads(node, files[i].dir) /\ Len(node) < Len(files[i].dir)
    <3>1. Len(dir) <= Len(files[i].dir) /\ Len(files[i].dir) \in Nat
      BY <1>t, <1>2, EntryPlace DEF Within
    <3>2. Len(node) < Len(files[i].dir)
      BY <1>1, <3>1
    <3>. QED
      BY <1>t, <1>2, <3>2, SpelledLeads
  <2> DEFINE x == files[i].dir[Len(node) + 1]
  <2>2. x \in DOMAIN string_reverse_index /\ Append(node, x) \in store
    BY <1>t, <2>1, NextChild
  <2>3. string_reverse_index[x] = dir[Len(node) + 1]
    <3>1. Len(node) + 1 \in 1..Len(dir)
      BY <1>1
    <3>. QED
      BY <1>2, <3>1 DEF Within
  <2>4. dir[Len(node) + 1] \in DOMAIN string_index
    BY <1>t, <2>2, <2>3 DEF IndexInv
  <2> HIDE DEF x
  <2>5. \A idx \in DOMAIN string_reverse_index :
          string_reverse_index[idx] = dir[Len(node) + 1] => idx = x
    BY <1>t, <2>2, <2>3, NumberOfName
  <2>. QED
    BY <2>2, <2>4, <2>5
<1>. QED
  BY <1>t, <1>1, <1>2, ExistsIsWithin

(* The entries of the directory that a node spells are those that hang at  *)
(* the node.                                                               *)
LEMMA HereIsDenoted ==
    ASSUME IndexIsSound, NEW dir \in Seq(Key), NEW node \in store,
           Spells(node, dir), Len(node) = Len(dir), NEW i \in DOMAIN files
    PROVE  files[i].dir = node <=> Decode(files[i].dir) = dir
<1>t. TypeInv /\ IndexInv /\ PlacementInv
  BY DEF IndexIsSound
<1>1. node \in Node /\ files[i].dir \in Node /\ Len(node) \in Nat
  BY <1>t, EntryPlace DEF TypeInv, TypeOK, Node
<1>2. ASSUME files[i].dir = node PROVE Decode(files[i].dir) = dir
  <2>1. Within(dir, i) /\ Len(files[i].dir) = Len(dir)
    BY <1>1, <1>2 DEF Spells, Within
  <2>. QED
    BY <1>t, <2>1, BelowIsWithin
<1>3. ASSUME Decode(files[i].dir) = dir PROVE files[i].dir = node
  <2>1. Within(dir, i) /\ Len(files[i].dir) = Len(dir)
    BY <1>t, <1>3, BelowIsWithin
  <2>2. Leads(node, files[i].dir) /\ Len(node) = Len(files[i].dir)
    BY <1>t, <2>1, SpelledLeads
  <2>. QED
    BY <1>1, <2>2, SameSeq DEF Leads, Node
<1>. QED
  BY <1>2, <1>3

(* The children of the node are the sub-directories.                       *)
LEMMA ChildrenAreSubDirs ==
    ASSUME IndexIsSound, ScanOver, NEW dir \in Seq(Key), NEW node \in store,
           Spells(node, dir), Len(node) = Len(dir)
    PROVE  {string_reverse_index[i] : i \in ChildrenOf(node)} = SubDirsOf(dir)
<1>t. TypeInv /\ IndexInv /\ PlacementInv /\ TreeClosed
  BY DEF IndexIsSound
<1>1. node \in Node /\ Len(node) \in Nat
  BY <1>t DEF TypeInv, TypeOK, Node
<1>2. ASSUME NEW x \in ChildrenOf(node) PROVE string_reverse_index[x] \in SubDirsOf(dir)
  <2> DEFINE child == Append(node, x)
  <2>1. x \in DOMAIN string_reverse_index /\ child \in store /\ x \in Nat
    BY <1>t, <1>2 DEF ChildrenOf, TypeInv, TypeOK
  <2>2. /\ child \in Node /\ Len(child) = Len(node) + 1 /\ child[Len(node) + 1] = x
        /\ \A j \in 1..Len(node) : child[j] = node[j]
    BY <1>1, <2>1 DEF Node
  <2>3. child # Root
    BY <1>1, <2>2 DEF Root
  <2> HIDE DEF child
  <2>4. PICK i \in DOMAIN files : Leads(child, files[i].dir)
    BY <2>1, <2>3 DEF IndexIsSound, TreeUsed, ScanOver, Placing
  <2> DEFINE m == files[i].dir
  <2>5. Len(m) \in Nat /\ Len(node) + 1 <= Len(m) /\ \A j \in 1..(Len(node) + 1) : child[j] = m[j]
    BY <1>t, <2>2, <2>4, EntryPlace DEF Leads
  <2> HIDE DEF m
  <2>6. Len(dir) <= Len(m) /\ Len(m) # Len(dir)
    BY <1>1, <2>5
  <2>7. \A j \in 1..Len(dir) : j \in 1..(Len(node) + 1) /\ j \in 1..Len(node)
    BY <1>1
  <2>8. \A j \in 1..Len(dir) : string_reverse_index[m[j]] = dir[j]
    BY <2>2, <2>5, <2>7 DEF Spells
  <2>9. m[Len(dir) + 1] = x
    <3>1. Len(node) + 1 \in 1..(Len(node) + 1)
      BY <1>1
    <3>. QED
      BY <2>2, <2>5, <3>1
  <2>10. Within(dir, i) /\ Len(files[i].dir) # Len(dir)
         /\ string_reverse_index[x] = string_reverse_index[files[i].dir[Len(dir) + 1]]
    BY <2>6, <2>8, <2>9 DEF Within, m
  <2>. QED
    BY <1>t, <2>10, SubDirsAreWithin
<1>3. ASSUME NEW k \in SubDirsOf(dir)
      PROVE  k \in {string_reverse_index[i] : i \in ChildrenOf(node)}
  <2>1. PICK i \in DOMAIN files : /\ Within(dir, i) /\ Len(files[i].dir) # Len(dir)
                                  /\ k = string_reverse_index[files[i].dir[Len(dir) + 1]]
    BY <1>t, <1>3, SubDirsAreWithin
  <2>2. Leads(node, files[i].dir) /\ Len(node) < Len(files[i].dir)
    <3>1. Len(files[i].dir) \in Nat /\ Len(dir) <= Len(files[i].dir)
      BY <1>t, <2>1, EntryPlace DEF Within
    <3>2. Len(node) < Len(files[i].dir)
      BY <1>1, <2>1, <3>1
    <3>. QED
      BY <1>t, <2>1, <3>2, SpelledLeads
  <2>3. files[i].dir[Len(node) + 1] \in ChildrenOf(node)
    BY <1>t, <2>2, NextChild DEF ChildrenOf
  <2>. QED
    BY <2>1, <2>3
<1>. QED
  BY <1>2, <1>3
----------------------------------------------------------------------------
(* What a request that came in after the scan has been told, when it is    *)
(* answered.                                                               *)
Told(r) ==
    /\ r.op \in {"getattr", "opendir"} /\ r.name = NoName => (r.reply = "dir" <=> DirExists(r.dir))
    /\ r.op = "readdir" =>
        /\ r.subdirs = SubDirsOf(r.dir)
        /\ \A n \in r.names : \E i \in DOMAIN files : Denotes(r.dir, n, i)
        /\ \A i \in DOMAIN files :
                Decode(files[i].dir) = r.dir /\ ~files[i].deleted => files[i].name \in r.names
    /\ r.reply = "file" \/ (r.op = "open" /\ r.reply = "ok") =>
            \E i \in DOMAIN files : Denotes(r.dir, r.name, i)
    /\ r.op = "unlink" /\ r.reply = "ok" =>
            \E i \in DOMAIN files : Denotes(r.dir, r.name, i) /\ files[i].deleted

(* What such a request knows on its way there.  The numbers it has gone    *)
(* through are those of the directory asked for.  get_children() and       *)
(* get_files() are called for a directory that exists, the look-up of a    *)
(* file by Getattr for one that does not, delete_file() for a file that    *)
(* is there.                                                               *)
Knows(r) ==
    /\ Spells(r.node, r.dir)
    /\ r.walk \in {"children", "files"} => DirExists(r.dir)
    /\ r.walk \in {"exists", "children", "files"} => r.names = {}
    /\ r.walk \in {"exists", "children"} => r.subdirs = {}
    /\ r.walk = "files" => r.subdirs = SubDirsOf(r.dir)
    /\ r.walk = "find" /\ r.name = NoName => ~DirExists(r.dir)
    /\ r.walk = "mark" => \E i \in DOMAIN files : Denotes(r.dir, r.name, i)

CalmInv(w) ==
    LET r == worker[w] IN
    r.calm =>
        /\ r.pc \in OnWalk => Knows(r)
        /\ r.pc = "child" => /\ r.idx \in DOMAIN string_reverse_index
                             /\ string_reverse_index[r.idx] = NextKey(w)
        /\ r.pc = "syscall" => Decode(files[r.entry].dir) = r.dir
        /\ r.pc = "reply" => Told(r)

(* What is settled stays true.                                             *)
LEMMA SettledTree ==
    ASSUME Settled
    PROVE  /\ \A dir : DirExists(dir)' <=> DirExists(dir)
           /\ \A dir : SubDirsOf(dir)' = SubDirsOf(dir)
           /\ \A dir, name : \A i \in DOMAIN files :
                Denotes(dir, name, i)' <=> Denotes(dir, name, i)
           /\ \A node, dir : Spells(node, dir)' <=> Spells(node, dir)
           /\ \A i \in DOMAIN files : Decode(files[i].dir)' = Decode(files[i].dir)
<1>1. \A node : Decode(node)' = Decode(node)
  BY DEF Settled, Decode
<1>2. \A i \in DOMAIN files : Decode(files[i].dir)' = Decode(files[i].dir)
  BY <1>1 DEF Settled
<1>3. Layout' = Layout
  BY <1>2 DEF Settled, Layout
<1>4. \A dir : DirExists(dir)' <=> DirExists(dir)
  BY <1>3 DEF DirExists
<1>5. \A dir : SubDirsOf(dir)' = SubDirsOf(dir)
  BY <1>3 DEF SubDirsOf
<1>6. \A dir, name : \A i \in DOMAIN files :
                Denotes(dir, name, i)' <=> Denotes(dir, name, i)
  BY <1>2 DEF Denotes, Settled
<1>7. \A node, dir : Spells(node, dir)' <=> Spells(node, dir)
  BY DEF Spells, Settled
<1>. QED
  BY <1>2, <1>4, <1>5, <1>6, <1>7

LEMMA CalmFrame ==
    ASSUME IndexIsSound, [EntriesNext]_entriesVars, NEW w \in Worker,
           WalkInv(w), CalmInv(w), worker'[w] = worker[w]
    PROVE  CalmInv(w)'
<1> SUFFICES ASSUME worker[w].calm PROVE CalmInv(w)'
  BY DEF CalmInv
<1>1. Settled /\ Grows
  <2>1. CASE UNCHANGED entriesVars
    BY <2>1 DEF entriesVars, Grows, Settled
  <2>2. Settled
    BY ScanStaysOver DEF IndexIsSound, WalkInv
  <2>. QED
    BY <2>1, <2>2, GrowsStep DEF IndexIsSound
<1>2. DOMAIN files' = DOMAIN files
  BY <1>1 DEF Settled
<1>3. ASSUME worker[w].pc \in OnWalk PROVE Knows(worker[w])'
  <2>1. Knows(worker[w])
    BY <1>3 DEF CalmInv
  <2>. QED
    BY <1>1, <1>2, <2>1, SettledTree DEF Knows
<1>4. ASSUME worker[w].pc = "reply" PROVE Told(worker[w])'
  <2>1. Told(worker[w])
    BY <1>4 DEF CalmInv
  <2>2. \A i \in DOMAIN files : /\ files'[i].name = files[i].name
                                /\ files[i].deleted => files'[i].deleted
    BY <1>1 DEF Grows
  <2>. QED
    BY <1>1, <1>2, <2>1, <2>2, SettledTree DEF Told
<1>5. ASSUME worker[w].pc = "child"
      PROVE  /\ worker'[w].idx \in DOMAIN string_reverse_index'
             /\ string_reverse_index'[worker'[w].idx] = NextKey(w)'
  BY <1>1, <1>5 DEF CalmInv, NextKey, Settled
<1>6. ASSUME worker[w].pc = "syscall" PROVE Decode(files[worker[w].entry].dir)' = worker'[w].dir
  BY <1>1, <1>6, SettledTree DEF CalmInv, WalkInv, Settled
<1>. QED
  BY <1>3, <1>4, <1>5, <1>6 DEF CalmInv
----------------------------------------------------------------------------
(* The rule of a walk that begins, and of an answer, for a request that    *)
(* came in after the scan.                                                 *)
LEMMA CalmStarts ==
    ASSUME NEW w \in Worker, worker[w] \in WorkerState, Settled, CalmInv(w), worker[w].calm,
           NEW walk, Starts(worker[w], worker'[w], walk),
           walk \in {"children", "files"} => DirExists(worker[w].dir) /\ worker'[w].names = {},
           walk = "children" => worker'[w].subdirs = {},
           walk = "files" => worker'[w].subdirs = SubDirsOf(worker[w].dir),
           walk = "find" /\ worker[w].name = NoName => ~DirExists(worker[w].dir),
           walk = "mark" => \E i \in DOMAIN files : Denotes(worker[w].dir, worker[w].name, i),
           walk # "exists"
    PROVE  CalmInv(w)'
<1> DEFINE s == worker'[w]
<1>1. /\ s.op = worker[w].op /\ s.dir = worker[w].dir /\ s.name = worker[w].name
      /\ s.calm = worker[w].calm /\ s.pc = "index" /\ s.walk = walk /\ s.node = Root
  BY DEF Starts, SameRequest
<1>2. Spells(worker[w].node, worker[w].dir)'
  <2>1. Len(s.dir) \in Nat /\ Len(Root) = 0
    BY <1>1, DepthType DEF Root
  <2>. QED
    BY <1>1, <2>1 DEF Spells
<1>3. DOMAIN files' = DOMAIN files
  BY DEF Settled
<1>4. Knows(worker[w])'
  BY <1>1, <1>2, <1>3, SettledTree DEF Knows
<1>. QED
  BY <1>1, <1>4 DEF CalmInv

LEMMA CalmAnswered ==
    ASSUME NEW w \in Worker, worker'[w].pc = "reply", Told(worker[w])'
    PROVE  CalmInv(w)'
  BY DEF CalmInv, OnWalk

(* Nothing is in or below a directory that does not exist.                 *)
LEMMA NothingInNoDir ==
    ASSUME NEW dir, ~DirExists(dir)
    PROVE  SubDirsOf(dir) = {} /\ \A i \in DOMAIN files : Decode(files[i].dir) # dir
  BY DEF DirExists, SubDirsOf, Layout

LEMMA CalmMisses ==
    ASSUME NEW w \in Worker, worker[w] \in WorkerState, Settled, WalkInv(w), CalmInv(w),
           worker[w].calm, worker[w].pc \in OnWalk,
           Misses(worker[w], worker'[w]),
           worker[w].walk \in {"exists", "find"},
           worker[w].walk = "exists" /\ worker[w].name = NoName => ~DirExists(worker[w].dir)
    PROVE  CalmInv(w)'
<1> DEFINE r == worker[w]
           s == worker'[w]
<1>1. Knows(r)
  BY DEF CalmInv
<1>2. DOMAIN files' = DOMAIN files
  BY DEF Settled
<1>3. CASE r.walk = "exists" /\ r.op = "getattr" /\ Starts(r, s, "find")
  BY <1>3, CalmStarts
<1>4. CASE /\ r.op \in {"getattr", "open", "unlink", "opendir"} /\ Answers(r, s, "error")
           /\ r.name = NoName => ~DirExists(r.dir)
  <2>1. /\ s.op = r.op /\ s.dir = r.dir /\ s.name = r.name /\ s.reply = "error" /\ s.pc = "reply"
    BY <1>4 DEF Answers, SameRequest
  <2>2. Told(r)'
    BY <1>4, <2>1, SettledTree DEF Told
  <2>. QED
    BY <2>1, <2>2, CalmAnswered
<1>5. CASE r.walk = "exists" /\ r.op = "readdir" /\ Answers(r, s, "listing")
  <2>1. /\ s.op = r.op /\ s.dir = r.dir /\ s.name = r.name /\ s.reply = "listing" /\ s.pc = "reply"
        /\ s.names = {} /\ s.subdirs = {}
    BY <1>1, <1>5 DEF Answers, SameRequest, SameListing, Knows
  <2>2. ~DirExists(r.dir)
    BY <1>5 DEF WalkInv, Takes
  <2>3. SubDirsOf(r.dir) = {} /\ \A i \in DOMAIN files : Decode(files[i].dir) # r.dir
    BY <2>2, NothingInNoDir
  <2>4. SubDirsOf(r.dir)' = {}
    BY <2>1, <2>3, SettledTree
  <2>5. \A i \in DOMAIN files' : Decode(files[i].dir)' # s.dir
    BY <1>2, <2>1, <2>3, SettledTree
  <2>6. Told(r)'
    BY <1>5, <2>1, <2>4, <2>5 DEF Told
  <2>. QED
    BY <2>1, <2>6, CalmAnswered
<1>6. r.walk = "find" => /\ r.op \in {"getattr", "open", "unlink"}
                         /\ r.name = NoName => ~DirExists(r.dir)
  BY <1>1 DEF WalkInv, Knows
<1>7. r.walk = "exists" /\ r.op = "opendir" => r.name = NoName
  BY DEF WalkInv, Takes
<1>. QED
  BY <1>3, <1>4, <1>5, <1>6, <1>7 DEF Misses

(* After the scan a walk misses only what is not there.                    *)
LEMMA CalmMissing ==
    ASSUME IndexIsSound, NEW w \in Worker, worker[w] \in WorkerState, WalkInv(w), CalmInv(w),
           worker[w].calm, IndexMissing(w) \/ ChildMissing(w)
    PROVE  ~DirExists(worker[w].dir)
<1> DEFINE r == worker[w]
<1>1. ScanOver /\ r.pc \in {"index", "child"} /\ r.node \in store /\ Spells(r.node, r.dir)
  BY DEF WalkInv, OnWalk, CalmInv, Knows, IndexMissing, ChildMissing, Walking
<1>2. /\ r.dir \in Seq(Key) /\ Len(r.dir) \in Nat /\ Len(r.node) \in Nat
  BY DepthType
<1>3. Len(r.node) < Len(r.dir)
  <2>1. Len(r.node) < Depth(w)
    <3>1. CASE ChildMissing(w)
      BY <3>1 DEF ChildMissing, Walking, WalkInv, OnWalk
    <3>2. CASE IndexMissing(w)
      <4>1. Len(r.node) <= Depth(w) /\ Len(r.node) # Depth(w) /\ Depth(w) \in Int
        BY <1>1, <3>2, DepthType DEF IndexMissing, WalkInv, OnWalk, AtTarget
      <4>. QED
        BY <1>2, <4>1
    <3>. QED
      BY <3>1, <3>2
  <2>2. Depth(w) <= Len(r.dir)
    BY <1>2 DEF Depth
  <2>. QED
    BY <1>2, <2>1, <2>2, DepthType
<1>4. CASE IndexMissing(w)
  <2>1. r.dir[Len(r.node) + 1] \notin DOMAIN string_index
    BY <1>1, <1>4 DEF IndexMissing, NextKey, IndexInFlux, ScanOver
  <2>. QED
    BY <1>1, <1>2, <1>3, <2>1, MissedIsNot
<1>5. CASE ChildMissing(w)
  <2>1. Append(r.node, r.idx) \notin store
    BY <1>1, <1>5 DEF ChildMissing, NextNode, ChildrenInFlux, ScanOver
  <2>2. /\ r.idx \in DOMAIN string_reverse_index
        /\ string_reverse_index[r.idx] = r.dir[Len(r.node) + 1]
    BY <1>5 DEF ChildMissing, Walking, CalmInv, NextKey
  <2>. QED
    BY <1>1, <1>2, <1>3, <2>1, <2>2, MissedIsNot
<1>. QED
  BY <1>4, <1>5
----------------------------------------------------------------------------
(* A request is refused.                                                   *)
LEMMA CalmRefused ==
    ASSUME NEW w \in Worker, Settled, Answers(worker[w], worker'[w], "error"),
           worker[w].op \in {"getattr", "open", "unlink"},
           worker[w].name = NoName => ~DirExists(worker[w].dir)
    PROVE  CalmInv(w)'
<1> DEFINE r == worker[w]
           s == worker'[w]
<1>1. /\ s.op = r.op /\ s.dir = r.dir /\ s.name = r.name /\ s.reply = "error" /\ s.pc = "reply"
  BY DEF Answers, SameRequest
<1>2. Told(r)'
  BY <1>1, SettledTree DEF Told
<1>. QED
  BY <1>1, <1>2, CalmAnswered

(* delete_file() marks the entry it finds.                                 *)
LEMMA MarksIt ==
    ASSUME TypeOK, UniqueNames, NEW i \in DOMAIN files, MarkDeleted(files[i].dir, files[i].name)
    PROVE  files'[i].deleted
<1>1. i \in EntriesNamed(files[i].dir, files[i].name)
  BY DEF EntriesNamed
<1>2. FirstNamed(files[i].dir, files[i].name) = i
  BY <1>1, FirstIsThere DEF UniqueNames
<1>3. files' = [files EXCEPT ![i].deleted = TRUE]
  BY <1>2 DEF MarkDeleted
<1>4. files \in [1..Len(files) -> Entry] /\ i \in 1..Len(files)
  BY DEF TypeOK
<1>5. files'[i] = [files[i] EXCEPT !.deleted = TRUE]
  BY <1>3, <1>4
<1>6. files[i] \in Entry
  BY <1>4
<1>7. [files[i] EXCEPT !.deleted = TRUE].deleted = TRUE
  BY <1>6 DEF Entry
<1>. QED
  BY <1>5, <1>7

(* A step of the look-up in the tree.                                      *)
LEMMA CalmDescends ==
    ASSUME IndexIsSound, NEW w \in Worker, worker[w] \in WorkerState, WalkInv(w), CalmInv(w),
           worker[w].calm, Settled, WorkerTypeOK, IndexFound(w) \/ ChildFound(w)
    PROVE  CalmInv(w)'
<1> DEFINE r == worker[w]
           s == worker'[w]
<1>t. TypeOK /\ IndexInv /\ ScanOver
  BY DEF IndexIsSound, TypeInv, WalkInv
<1>1. r.pc \in {"index", "child"} /\ Knows(r)
  BY DEF IndexFound, ChildFound, Walking, CalmInv, OnWalk
<1>2. DOMAIN files' = DOMAIN files /\ string_reverse_index' = string_reverse_index
  BY DEF Settled
<1>d. /\ r.dir \in Seq(Key) /\ Len(r.dir) \in Nat /\ Len(r.node) \in Nat /\ r.node \in Node
  BY DepthType
<1>3. ASSUME Spells(s.node, s.dir), SameRequest(r, s), SameListing(r, s), s.walk = r.walk
      PROVE  Knows(worker[w])'
  <2>1. Spells(worker[w].node, worker[w].dir)'
    BY <1>2, <1>3 DEF Spells
  <2>. QED
    BY <1>1, <1>2, <1>3, <2>1, SettledTree DEF Knows, SameRequest, SameListing
<1>4. CASE IndexFound(w)
  <2>1. /\ Moves(r, s, "child") /\ s.node = r.node /\ s.idx = string_index[NextKey(w)]
    BY <1>t, <1>4, IndexFoundEffect
  <2>2. Knows(worker[w])'
    BY <1>1, <1>3, <2>1 DEF Moves, SameRequest, Knows
  <2>3. NextKey(w)' = NextKey(w)
    BY <2>1 DEF Moves, SameRequest, NextKey
  <2>4. s.idx \in DOMAIN string_reverse_index /\ string_reverse_index[s.idx] = NextKey(w)
    BY <1>t, <1>4, <2>1 DEF IndexFound, IndexInv, Interning, ScanOver
  <2>. QED
    BY <1>2, <2>1, <2>2, <2>3, <2>4 DEF CalmInv, Moves
<1>5. CASE ChildFound(w)
  <2>1. Moves(r, s, "index") /\ s.node = NextNode(w) /\ r.pc = "child"
    BY <1>t, <1>5, ChildFoundEffect DEF ChildFound, Walking
  <2>2. Len(r.node) < Len(r.dir)
    <3>1. Len(r.node) < Depth(w) /\ Depth(w) \in Int
      BY <2>1, DepthType DEF WalkInv, OnWalk
    <3>2. Depth(w) <= Len(r.dir)
      BY <1>d DEF Depth
    <3>. QED
      BY <1>d, <3>1, <3>2
  <2>3. string_reverse_index[r.idx] = r.dir[Len(r.node) + 1] /\ r.idx \in Nat
    BY <2>1 DEF CalmInv, NextKey, WorkerState
  <2>4. /\ Len(NextNode(w)) = Len(r.node) + 1 /\ NextNode(w)[Len(r.node) + 1] = r.idx
        /\ \A j \in 1..Len(r.node) : NextNode(w)[j] = r.node[j]
    BY <1>d, <2>3 DEF NextNode, Node
  <2>5. \A j \in 1..(Len(r.node) + 1) : j = Len(r.node) + 1 \/ j \in 1..Len(r.node)
    BY <1>d
  <2>6. \A j \in 1..Len(r.node) : string_reverse_index[r.node[j]] = r.dir[j]
    BY <1>1 DEF Knows, Spells
  <2>7. \A j \in 1..(Len(r.node) + 1) : string_reverse_index[NextNode(w)[j]] = r.dir[j]
    BY <2>3, <2>4, <2>5, <2>6
  <2>8. Len(r.node) + 1 <= Len(r.dir)
    BY <1>d, <2>2
  <2>9. Spells(NextNode(w), r.dir)
    BY <2>4, <2>7, <2>8 DEF Spells
  <2>10. Knows(worker[w])'
    BY <1>3, <2>1, <2>9 DEF Moves, SameRequest
  <2>. QED
    BY <2>1, <2>10 DEF CalmInv, Moves
<1>. QED
  BY <1>4, <1>5

(* The directory is reached.                                               *)
LEMMA CalmReached ==
    ASSUME IndexIsSound, NEW w \in Worker, worker[w] \in WorkerState, WalkInv(w), CalmInv(w),
           worker[w].calm, Settled, WorkerTypeOK, Reached(w)
    PROVE  CalmInv(w)'
<1> DEFINE r == worker[w]
           s == worker'[w]
<1>t. TypeOK /\ IndexInv /\ ScanOver
  BY DEF IndexIsSound, TypeInv, WalkInv
<1>1. /\ r.pc = "index" /\ Knows(r) /\ ~r.null /\ r.node \in store
      /\ Len(r.node) = Depth(w) /\ Spells(r.node, r.dir)
  BY DEF Reached, Walking, AtTarget, CalmInv, OnWalk, WalkInv, Knows
<1>d. r.dir \in Seq(Key)
  BY DepthType
<1>2. DOMAIN files' = DOMAIN files /\ string_reverse_index' = string_reverse_index
  BY DEF Settled
<1>3. \/ r.walk = "exists" /\ r.name # NoName /\ Misses(r, s)
      \/ /\ r.walk = "exists" /\ r.name = NoName /\ r.op \in {"getattr", "opendir"}
         /\ Answers(r, s, "dir")
      \/ /\ r.walk = "exists" /\ r.name = NoName /\ r.op = "readdir"
         /\ Starts(r, s, "children") /\ SameListing(r, s)
      \/ r.walk # "exists" /\ ~r.null /\ Moves(r, s, "end") /\ s.node = r.node /\ s.null = r.null
  BY <1>1, ReachedEffect
<1>4. r.walk = "exists" => DirExists(r.dir)
  <2>1. r.walk = "exists" => Len(r.node) = Len(r.dir)
    BY <1>1 DEF Depth
  <2>. QED
    BY <1>t, <1>d, <1>1, <2>1, SpelledExists
<1>5. CASE r.walk = "exists" /\ r.name # NoName /\ Misses(r, s)
  BY <1>1, <1>5, CalmMisses DEF OnWalk
<1>6. CASE /\ r.walk = "exists" /\ r.name = NoName /\ r.op \in {"getattr", "opendir"}
           /\ Answers(r, s, "dir")
  <2>1. /\ s.op = r.op /\ s.dir = r.dir /\ s.name = r.name /\ s.reply = "dir" /\ s.pc = "reply"
    BY <1>6 DEF Answers, SameRequest
  <2>2. Told(worker[w])'
    BY <1>4, <1>6, <2>1, SettledTree DEF Told
  <2>. QED
    BY <2>1, <2>2, CalmAnswered
<1>7. CASE r.walk = "exists" /\ Starts(r, s, "children") /\ SameListing(r, s)
  <2>1. s.names = {} /\ s.subdirs = {}
    BY <1>1, <1>7 DEF Knows, SameListing
  <2>. QED
    BY <1>4, <1>7, <2>1, CalmStarts
<1>8. CASE Moves(r, s, "end") /\ s.node = r.node
  <2>1. Spells(worker[w].node, worker[w].dir)'
    BY <1>1, <1>2, <1>8 DEF Spells, Moves, SameRequest
  <2>2. Knows(worker[w])'
    BY <1>1, <1>2, <1>8, <2>1, SettledTree DEF Knows, Moves, SameRequest, SameListing
  <2>. QED
    BY <1>8, <2>2 DEF CalmInv, Moves
<1>. QED
  BY <1>3, <1>5, <1>6, <1>7, <1>8
----------------------------------------------------------------------------
(* The end of a walk: look-up, unlink and mark, listing.                   *)
LEMMA CalmLooksUp ==
    ASSUME IndexIsSound, NEW w \in Worker, worker[w] \in WorkerState, WalkInv(w), CalmInv(w),
           worker[w].calm, Settled, WorkerTypeOK, FileFound(w) \/ FileMissing(w)
    PROVE  CalmInv(w)'
<1> DEFINE r == worker[w]
           s == worker'[w]
<1>t. TypeOK /\ UniqueNames
  BY DEF IndexIsSound, TypeInv, NamesInv
<1>1. /\ r.pc = "end" /\ r.walk = "find" /\ Knows(r) /\ r.node \in store
      /\ Len(r.node) = Depth(w) /\ Spells(r.node, r.dir)
      /\ r.op \in {"getattr", "open", "unlink"}
  BY DEF FileFound, FileMissing, Ending, Walking, CalmInv, OnWalk, WalkInv, Knows
<1>2. CASE Answers(r, s, "error")
  BY <1>1, <1>2, CalmRefused DEF Knows
<1>3. CASE /\ Moves(r, s, "syscall") /\ s.entry \in DOMAIN files
           /\ files[s.entry].name = r.name /\ files[s.entry].dir = r.node
  <2>1. r.name # NoName
    <3>1. files[s.entry] \in Entry
      BY <1>t, <1>3 DEF TypeOK
    <3>. QED
      BY <1>3, <3>1, RequestsAssumption DEF Entry
  <2>2. Len(r.node) = Len(r.dir) /\ r.dir \in Seq(Key)
    BY <1>1, <2>1, DepthType DEF Depth
  <2>3. Decode(files[s.entry].dir) = r.dir
    BY <1>1, <1>3, <2>2, HereIsDenoted
  <2>4. files'[s.entry].dir = files[s.entry].dir /\ string_reverse_index' = string_reverse_index
    BY <1>3 DEF Settled
  <2>5. Decode(files[worker[w].entry].dir)' = s.dir
    BY <1>3, <2>3, <2>4 DEF Decode, Moves, SameRequest
  <2>. QED
    BY <1>3, <2>5 DEF CalmInv, Moves, OnWalk
<1>. QED
  BY <1>t, <1>2, <1>3, FileFoundEffect, AnsweringEffect

LEMMA CalmUses ==
    ASSUME IndexIsSound, NEW w \in Worker, worker[w] \in WorkerState, WalkInv(w), CalmInv(w),
           worker[w].calm, Settled, WorkerTypeOK,
           UseFile(w) \/ UnlinkSource(w) \/ UnlinkFails(w)
    PROVE  CalmInv(w)'
<1> DEFINE r == worker[w]
           s == worker'[w]
<1>t. TypeOK /\ UniqueNames
  BY DEF IndexIsSound, TypeInv, NamesInv
<1>1. /\ r.pc = "syscall" /\ r.walk = "find" /\ r.op \in {"getattr", "open", "unlink"}
      /\ r.entry \in DOMAIN files /\ files[r.entry].name = r.name
      /\ Decode(files[r.entry].dir) = r.dir
  BY DEF UseFile, UnlinkSource, UnlinkFails, Walking, CalmInv, WalkInv
<1>2. Denotes(r.dir, r.name, r.entry)
  BY <1>1 DEF Denotes
<1>3. r.name # NoName
  <2>1. files[r.entry] \in Entry
    BY <1>t, <1>1 DEF TypeOK
  <2>. QED
    BY <1>1, <2>1, RequestsAssumption DEF Entry
<1>4. CASE Answers(r, s, "error")
  BY <1>1, <1>3, <1>4, CalmRefused
<1>5. CASE \/ r.op = "getattr" /\ Answers(r, s, "file")
           \/ r.op = "open" /\ Answers(r, s, "ok")
  <2>1. /\ s.op = r.op /\ s.dir = r.dir /\ s.name = r.name /\ s.pc = "reply"
        /\ r.op \in {"getattr", "open"}
    BY <1>5 DEF Answers, SameRequest
  <2>2. DOMAIN files' = DOMAIN files
    BY DEF Settled
  <2>3. \E i \in DOMAIN files' : Denotes(worker[w].dir, worker[w].name, i)'
    BY <1>1, <1>2, <2>1, <2>2, SettledTree
  <2>4. Told(worker[w])'
    BY <1>3, <2>1, <2>3 DEF Told
  <2>. QED
    BY <2>1, <2>4, CalmAnswered
<1>6. CASE UnlinkSource(w)
  <2>1. Starts(r, s, "mark")
    BY <1>6, UnlinkEffect
  <2>. QED
    BY <1>1, <1>2, <2>1, CalmStarts
<1>. QED
  BY <1>4, <1>5, <1>6, UseFileEffect, AnsweringEffect

LEMMA CalmMarks ==
    ASSUME IndexIsSound, NEW w \in Worker, worker[w] \in WorkerState, WalkInv(w), CalmInv(w),
           worker[w].calm, Settled, WorkerTypeOK, MarkFile(w)
    PROVE  CalmInv(w)'
<1> DEFINE r == worker[w]
           s == worker'[w]
<1>t. TypeOK /\ UniqueNames
  BY DEF IndexIsSound, TypeInv, NamesInv
<1>1. /\ r.pc = "end" /\ r.walk = "mark" /\ Knows(r) /\ r.node \in store
      /\ Len(r.node) = Depth(w) /\ Spells(r.node, r.dir) /\ r.op = "unlink"
  BY DEF MarkFile, Ending, Walking, CalmInv, OnWalk, WalkInv, Knows
<1>2. Len(r.node) = Len(r.dir) /\ r.dir \in Seq(Key)
  BY <1>1, DepthType DEF Depth
<1>3. PICK i \in DOMAIN files : Denotes(r.dir, r.name, i)
  BY <1>1 DEF Knows
<1>4. files[i].dir = r.node /\ files[i].name = r.name
  BY <1>1, <1>2, <1>3, HereIsDenoted DEF Denotes
<1>5. i \in Shown(w)
  BY <1>4 DEF Shown, EntriesNamed
<1>6. MarkDeleted(files[i].dir, files[i].name)
  BY <1>4, <1>5 DEF MarkFile
<1>7. files'[i].deleted
  BY <1>t, <1>6, MarksIt
<1>8. Answers(r, s, "ok")
  BY AnsweringEffect
<1>9. /\ s.op = r.op /\ s.dir = r.dir /\ s.name = r.name /\ s.pc = "reply"
  BY <1>8 DEF Answers, SameRequest
<1>10. i \in DOMAIN files' /\ Denotes(worker[w].dir, worker[w].name, i)'
  BY <1>3, <1>9, SettledTree DEF Settled
<1>11. Told(worker[w])'
  BY <1>1, <1>7, <1>9, <1>10 DEF Told
<1>. QED
  BY <1>9, <1>11, CalmAnswered

LEMMA CalmLists ==
    ASSUME IndexIsSound, NEW w \in Worker, worker[w] \in WorkerState, WalkInv(w), CalmInv(w),
           worker[w].calm, Settled, WorkerTypeOK, ListChildren(w) \/ ListFiles(w)
    PROVE  CalmInv(w)'
<1> DEFINE r == worker[w]
           s == worker'[w]
<1>t. TypeOK /\ ScanOver
  BY DEF IndexIsSound, TypeInv, WalkInv
<1>1. /\ r.pc = "end" /\ r.walk \in {"children", "files"} /\ Knows(r) /\ r.node \in store
      /\ Len(r.node) = Depth(w) /\ Spells(r.node, r.dir) /\ r.op = "readdir"
  BY DEF ListChildren, ListFiles, Ending, Walking, CalmInv, OnWalk, WalkInv, Knows
<1>2. Len(r.node) = Len(r.dir) /\ r.dir \in Seq(Key)
  BY <1>1, DepthType DEF Depth
<1>3. CASE ListChildren(w)
  <2>1. /\ Starts(r, s, "files") /\ s.names = r.names
        /\ s.subdirs = {string_reverse_index[i] : i \in ChildrenOf(r.node)}
    BY <1>t, <1>3, ListChildrenEffect
  <2>2. s.subdirs = SubDirsOf(r.dir)
    BY <1>t, <1>1, <1>2, <2>1, ChildrenAreSubDirs
  <2>. QED
    BY <1>1, <2>1, <2>2, CalmStarts DEF Knows
<1>4. CASE ListFiles(w)
  <2>1. /\ SameRequest(r, s) /\ s.pc = "reply" /\ s.reply = "listing" /\ s.subdirs = r.subdirs
        /\ s.names = {files[i].name : i \in {j \in DOMAIN files :
                                 files[j].dir = r.node /\ ~files[j].deleted}}
    BY <1>t, <1>4, ListFilesEffect
  <2>2. r.walk = "files" /\ r.subdirs = SubDirsOf(r.dir)
    BY <1>1, <1>4 DEF ListFiles, Ending, Knows
  <2>3. \A i \in DOMAIN files : files[i].dir = r.node <=> Decode(files[i].dir) = r.dir
    BY <1>1, <1>2, HereIsDenoted
  <2>4. \A n \in s.names : \E i \in DOMAIN files : Denotes(r.dir, n, i)
    BY <2>1, <2>3 DEF Denotes
  <2>5. \A i \in DOMAIN files : Decode(files[i].dir) = r.dir /\ ~files[i].deleted
            => files[i].name \in s.names
    BY <2>1, <2>3
  <2>6. UNCHANGED entriesVars
    BY <1>4 DEF ListFiles
  <2>7. files' = files /\ string_reverse_index' = string_reverse_index
    BY <2>6 DEF entriesVars
  <2>8. /\ s.op = "readdir" /\ s.dir = r.dir /\ s.name = r.name
    BY <1>1, <2>1 DEF SameRequest
  <2> HIDE DEF s
  <2>9. SubDirsOf(worker[w].dir)' = SubDirsOf(r.dir)
    BY <2>8, SettledTree DEF s
  <2>10. \A n \in worker'[w].names : \E i \in DOMAIN files' : Denotes(worker[w].dir, n, i)'
    BY <2>4, <2>7, <2>8, SettledTree DEF s
  <2>11. \A i \in DOMAIN files' : (Decode(files[i].dir)' = worker'[w].dir /\ ~files'[i].deleted)
            => files'[i].name \in worker'[w].names
    BY <2>5, <2>7, <2>8, SettledTree DEF s
  <2>12. Told(worker[w])'
    BY <2>1, <2>2, <2>8, <2>9, <2>10, <2>11 DEF Told, s
  <2>. QED
    BY <2>1, <2>12, CalmAnswered DEF s
<1>. QED
  BY <1>3, <1>4
----------------------------------------------------------------------------
LEMMA CalmRequest ==
    ASSUME NEW w \in Worker, WorkerTypeOK, Request(w)
    PROVE  CalmInv(w)'
<1> DEFINE s == worker'[w]
<1>1. /\ Alone(w) /\ s.pc = "index" /\ s.node = Root /\ s.name \in Takes(s.op)
      /\ s.walk = IF s.op \in {"open", "unlink"} THEN "find" ELSE "exists"
      /\ s.names = {} /\ s.subdirs = {}
  BY RequestEffect
<1>2. s \in WorkerState
  BY <1>1, WorkerStateOf DEF Alone, WorkerTypeOK, WorkerState
<1>3. Len(s.dir) \in Nat
  <2>1. s.dir \in Dirs \cup {<<>>}
    BY <1>2 DEF WorkerState
  <2>. QED
    BY <2>1, RequestsAssumption
<1>4. Spells(worker[w].node, worker[w].dir)'
  BY <1>1, <1>3 DEF Spells, Root
<1>5. s.walk = "find" => s.name # NoName
  BY <1>1, RequestedAreNames, RequestsAssumption DEF Takes
<1>6. Knows(worker[w])'
  BY <1>1, <1>4, <1>5 DEF Knows
<1>. QED
  BY <1>1, <1>6 DEF CalmInv

LEMMA CalmOwn ==
    ASSUME IndexIsSound, [EntriesNext]_entriesVars, WorkerTypeOK,
           NEW w \in Worker, WalkInv(w), CalmInv(w), WorkerStep(w)
    PROVE  CalmInv(w)'
<1>1. worker[w] \in WorkerState
  BY WorkerStateOf
<1>2. CASE NullDereferenced(w) \/ ChildNameMissing(w)
  <2>1. UNCHANGED worker
    BY <1>2 DEF NullDereferenced, ChildNameMissing, Crash
  <2>. QED
    BY <2>1, CalmFrame
<1>3. CASE Finish(w)
  BY <1>3, FinishEffect DEF CalmInv, Idle
<1>4. CASE ~Finish(w) /\ ~NullDereferenced(w) /\ ~ChildNameMissing(w)
  <2>1. worker'[w].calm = worker[w].calm
    <3>1. ASSUME Misses(worker[w], worker'[w]) PROVE worker'[w].calm = worker[w].calm
      BY <3>1 DEF Misses, Starts, Answers, SameRequest
    <3>2. CASE IndexMissing(w) \/ NullSeen(w) \/ ChildMissing(w)
      BY <3>1, <3>2, MissEffect DEF IndexMissing, NullSeen, ChildMissing
    <3>3. CASE IndexFound(w) \/ ChildFound(w)
      BY <3>3, IndexFoundEffect, ChildFoundEffect DEF IndexIsSound, TypeInv, Moves, SameRequest
    <3>4. CASE Reached(w)
      <4>1. \/ Misses(worker[w], worker'[w]) \/ Answers(worker[w], worker'[w], "dir")
            \/ Starts(worker[w], worker'[w], "children")
            \/ Moves(worker[w], worker'[w], "end")
        BY <3>4, ReachedEffect
      <4>. QED
        BY <3>1, <4>1 DEF Answers, Starts, Moves, SameRequest
    <3>5. CASE FileFound(w)
      BY <3>5, FileFoundEffect DEF IndexIsSound, TypeInv, NamesInv, Answers, Moves, SameRequest
    <3>6. CASE FileMissing(w) \/ UseFile(w) \/ UnlinkFails(w) \/ MarkFile(w)
      BY <3>6, AnsweringEffect, UseFileEffect DEF Answers, SameRequest
    <3>7. CASE UnlinkSource(w)
      BY <3>7, UnlinkEffect DEF Starts, SameRequest
    <3>8. CASE ListChildren(w) \/ ListFiles(w)
      BY <3>8, ListChildrenEffect, ListFilesEffect DEF IndexIsSound, TypeInv, Starts, SameRequest
    <3>. QED
      BY <1>4, <3>2, <3>3, <3>4, <3>5, <3>6, <3>7, <3>8 DEF WorkerStep
  <2> SUFFICES ASSUME worker[w].calm PROVE CalmInv(w)'
    BY <2>1 DEF CalmInv
  <2>2. Settled
    BY ScanStaysOver DEF IndexIsSound, WalkInv
  <2>3. CASE IndexMissing(w) \/ ChildMissing(w)
    <3>1. ~DirExists(worker[w].dir)
      BY <1>1, <2>3, CalmMissing
    <3>2. Misses(worker[w], worker'[w]) /\ worker[w].pc \in OnWalk
      BY <2>3, MissEffect DEF IndexMissing, ChildMissing, Walking, OnWalk
    <3>3. \A i \in DOMAIN files : Decode(files[i].dir) # worker[w].dir
      BY <3>1, NothingInNoDir
    <3>4. worker[w].walk \in {"exists", "find"}
      BY <1>1, <3>1, <3>2, <3>3 DEF CalmInv, Knows, Denotes, WorkerState, Walk
    <3>. QED
      BY <1>1, <2>2, <3>1, <3>2, <3>4, CalmMisses
  <2>4. ~NullSeen(w)
    BY DEF NullSeen, Walking, WalkInv, OnWalk
  <2>. QED
    BY <1>1, <1>4, <2>2, <2>3, <2>4, CalmDescends, CalmReached, CalmLooksUp, CalmUses,
       CalmMarks, CalmLists DEF WorkerStep
<1>. QED
  BY <1>2, <1>3, <1>4

AllCalm == \A w \in Worker : CalmInv(w)

LEMMA CalmStep == ProcessInv /\ AllCalm /\ [Next]_vars => AllCalm'
<1> SUFFICES ASSUME ProcessInv, AllCalm, [Next]_vars PROVE AllCalm'
  OBVIOUS
<1>1. [EntriesNext]_entriesVars /\ IndexIsSound /\ WorkerTypeOK
  BY IndexStepInProcess DEF ProcessInv
<1>2. CASE UNCHANGED worker
  BY <1>1, <1>2, CalmFrame DEF ProcessInv, AllCalm
<1>3. ASSUME NEW w \in Worker, Request(w) \/ WorkerStep(w) PROVE AllCalm'
  <2>1. CalmInv(w)'
    BY <1>1, <1>3, CalmRequest, CalmOwn DEF ProcessInv, AllCalm
  <2>2. \A v \in Worker \ {w} : worker'[v] = worker[v]
    BY <1>1, <1>3, OwnStep, SoundStep DEF ProcessInv
  <2>3. \A v \in Worker \ {w} : CalmInv(v)'
    BY <1>1, <2>2, CalmFrame DEF ProcessInv, AllCalm
  <2>. QED
    BY <2>1, <2>3 DEF AllCalm
<1>. QED
  BY <1>2, <1>3 DEF Next, vars, ScannerThread, Others, Mount, Unmount, Exit, UseAfterFree, Crash

LEMMA CalmAlways == Spec => []AllCalm
<1>1. Init => AllCalm
  BY DEF Init, AllCalm, CalmInv, Idle
<1>. QED
  BY <1>1, CalmStep, ProcessAlways, PTL DEF Spec

(* Whatever the scanner did before, while and after other requests were    *)
(* served: a request that comes in after the scan is answered, by walks    *)
(* over numbers, as the layouts of the files say by name.                  *)
THEOREM TreeAnswers == Spec => []CalmAnswers
<1>1. ProcessInv /\ AllCalm => CalmAnswers
  BY DEF ProcessInv, AllCalm, CalmInv, Told, CalmAnswers
<1>. QED
  BY <1>1, ProcessAlways, CalmAlways, PTL

LEMMA UnlinkStep ==
    ASSUME ProcessInv, AllCalm, Next, NEW w \in Worker,
           worker[w].pc = "syscall", worker'[w].walk = "mark"
    PROVE  \E i \in DOMAIN files :
                /\ files[i].name = worker[w].name
                /\ disk' = disk \ {files[i].file}
                /\ worker[w].calm => Decode(files[i].dir) = worker[w].dir
<1>1. worker[w].walk = "find" /\ WorkerTypeOK /\ IndexIsSound /\ [EntriesNext]_entriesVars
  BY IndexStepInProcess DEF ProcessInv, WalkInv
<1>2. PICK v \in Worker : Request(v) \/ WorkerStep(v)
  BY <1>1 DEF Next, ScannerThread, Others, Mount, Unmount, Exit, UseAfterFree, Crash
<1>3. v = w
  BY <1>1, <1>2, OwnStep, SoundStep DEF ProcessInv
<1>4. UseFile(w) \/ UnlinkSource(w) \/ UnlinkFails(w) \/ ChildNameMissing(w)
  BY <1>2, <1>3 DEF Request, WorkerStep, Walking, IndexFound, IndexMissing, NullSeen,
     NullDereferenced, ChildFound, ChildMissing, Reached, FileFound, FileMissing, MarkFile,
     Ending, ListChildren, ListFiles, Finish
<1>5. UnlinkSource(w)
  BY <1>1, <1>4, UseFileEffect, AnsweringEffect DEF Answers, ChildNameMissing, Crash
<1>6. disk' = disk \ {files[worker[w].entry].file}
  BY <1>5 DEF UnlinkSource, RemoveSource
<1>. QED
  BY <1>6 DEF ProcessInv, WalkInv, AllCalm, CalmInv

(* Of all source files unlink(2) is called for the one the name was given  *)
(* to; after the scan, in the directory that was asked for.                *)
THEOREM UnlinksWhatWasNamed == Spec => UnlinkExact
<1>1. ProcessInv /\ AllCalm /\ [Next]_vars =>
        [\A w \in Worker :
            worker[w].pc = "syscall" /\ worker'[w].walk = "mark" =>
                \E i \in DOMAIN files :
                    /\ files[i].name = worker[w].name
                    /\ disk' = disk \ {files[i].file}
                    /\ worker[w].calm => Decode(files[i].dir) = worker[w].dir]_vars
  BY UnlinkStep
<1>. QED
  BY <1>1, ProcessAlways, CalmAlways, PTL DEF Spec, UnlinkExact
----------------------------------------------------------------------------
(* The state of MetaView, as MetaFS gives it.                              *)
vbound == [n \in NamesOf(DOMAIN files) |->
              files[CHOOSE i \in DOMAIN files : files[i].name = n].file]
vhidden == NamesOf({i \in DOMAIN files : files[i].deleted})
Marking(r) == r.pc \in OnWalk /\ r.walk = "mark"
vpending == {worker[w].name : w \in {v \in Worker : worker[v].pc \in {"index", "child", "end"}
                                                    /\ worker[v].walk = "mark"}}

LEMMA BoundIs ==
    ASSUME UniqueNames, NEW i \in DOMAIN files
    PROVE  files[i].name \in DOMAIN vbound /\ vbound[files[i].name] = files[i].file
<1>1. files[i].name \in NamesOf(DOMAIN files)
  BY DEF NamesOf
<1>2. (CHOOSE j \in DOMAIN files : files[j].name = files[i].name) = i
  BY DEF UniqueNames
<1>. QED
  BY <1>1, <1>2 DEF vbound

(* Steps that touch no entry, or only tombstones.                          *)
LEMMA BoundKept ==
    ASSUME UniqueNames, DOMAIN files' = DOMAIN files,
           \A i \in DOMAIN files : files'[i].name = files[i].name /\ files'[i].file = files[i].file
    PROVE  vbound' = vbound
<1>1. NamesOf(DOMAIN files)' = NamesOf(DOMAIN files)
  BY DEF NamesOf
<1>2. ASSUME NEW n \in NamesOf(DOMAIN files)
      PROVE  files'[CHOOSE i \in DOMAIN files' : files'[i].name = n].file
               = files[CHOOSE i \in DOMAIN files : files[i].name = n].file
  <2>1. PICK i \in DOMAIN files : files[i].name = n
    BY <1>2 DEF NamesOf
  <2>2. (CHOOSE j \in DOMAIN files : files[j].name = n) = i
    BY <2>1 DEF UniqueNames
  <2>3. (CHOOSE j \in DOMAIN files' : files'[j].name = n) = i
    BY <2>1 DEF UniqueNames
  <2>. QED
    BY <2>1, <2>2, <2>3
<1>. QED
  BY <1>1, <1>2 DEF vbound

LEMMA PendingKept ==
    ASSUME NEW w \in Worker, Alone(w), Marking(worker'[w]) <=> Marking(worker[w]),
           Marking(worker[w]) => worker'[w].name = worker[w].name
    PROVE  vpending' = vpending
<1>1. \A v \in Worker : Marking(worker'[v]) <=> Marking(worker[v])
  BY DEF Alone
<1>2. \A v \in Worker : Marking(worker[v]) => worker'[v].name = worker[v].name
  BY DEF Alone
<1>. QED
  BY <1>1, <1>2 DEF vpending, Marking, OnWalk

LEMMA PendingDropped ==
    ASSUME NEW w \in Worker, Alone(w), ~Marking(worker'[w]), Marking(worker[w])
    PROVE  /\ worker[w].name \in vpending
           /\ vpending' \in {vpending, vpending \ {worker[w].name}}
<1>1. \A v \in Worker \ {w} : worker'[v] = worker[v]
  BY DEF Alone
<1>2. worker[w].name \in vpending
  BY DEF vpending, Marking, OnWalk
<1>3. \A n : n \in vpending <=> \E v \in Worker : Marking(worker[v]) /\ n = worker[v].name
  BY DEF vpending, Marking, OnWalk
<1>4. \A n : n \in vpending' <=> \E v \in Worker : Marking(worker'[v]) /\ n = worker'[v].name
  BY DEF vpending, Marking, OnWalk
<1>5. \A n \in vpending : n # worker[w].name => n \in vpending'
  BY <1>1, <1>3, <1>4
<1>6. \A n \in vpending' : n \in vpending
  BY <1>1, <1>3, <1>4
<1>7. ASSUME worker[w].name \in vpending' PROVE vpending' = vpending
  <2>1. \A n : n \in vpending' <=> n \in vpending
    BY <1>5, <1>6, <1>7
  <2>. QED
    BY <2>1
<1>8. ASSUME worker[w].name \notin vpending' PROVE vpending' = vpending \ {worker[w].name}
  <2>1. \A n : n \in vpending' <=> n \in vpending \ {worker[w].name}
    BY <1>5, <1>6, <1>8
  <2>. QED
    BY <2>1
<1>. QED
  BY <1>2, <1>7, <1>8

LEMMA PendingAdded ==
    ASSUME NEW w \in Worker, Alone(w), Marking(worker'[w]), ~Marking(worker[w]),
           worker'[w].name = worker[w].name
    PROVE  vpending' = vpending \cup {worker[w].name}
<1>1. \A v \in Worker \ {w} : worker'[v] = worker[v]
  BY DEF Alone
<1>3. \A n : n \in vpending <=> \E v \in Worker : Marking(worker[v]) /\ n = worker[v].name
  BY DEF vpending, Marking, OnWalk
<1>4. \A n : n \in vpending' <=> \E v \in Worker : Marking(worker'[v]) /\ n = worker'[v].name
  BY DEF vpending, Marking, OnWalk
<1>5. \A n : n \in vpending' <=> n \in vpending \/ n = worker[w].name
  BY <1>1, <1>3, <1>4
<1>. QED
  BY <1>5

(* How the steps that change the view are steps of MetaView.               *)
LEMMA PushBinds ==
    ASSUME IndexIsSound, PushFile, UNCHANGED worker
    PROVE  \E n \in DOMAIN vbound' : n \in Name /\ \E f \in Source : View!Bind(n, f)
<1> DEFINE e == [name    |-> [base |-> BaseName[scanner.file], num |-> num_files],
                 file    |-> scanner.file,
                 dir     |-> scanner.cur,
                 deleted |-> FALSE]
           k == Len(files) + 1
<1>t. /\ files \in Seq(Entry) /\ num_files \in Nat /\ scanner.file \in Source
      /\ UniqueNames /\ \A i \in DOMAIN files : files[i].name.num < num_files
      /\ scanner.file \in Source => BaseName[scanner.file] \in Base
  BY SourcesAssumption
  DEF IndexIsSound, TypeInv, TypeOK, ScannerInv, NamesInv, PushFile, At, Placing
<1>1. files' = Append(files, e)
  BY DEF PushFile
<1>2. /\ e.name \in Name /\ e.name.num = num_files /\ e.file = scanner.file /\ ~e.deleted
  BY <1>t DEF Name
<1> HIDE DEF e
<1>3. /\ DOMAIN files' = DOMAIN files \cup {k} /\ files'[k] = e /\ k \notin DOMAIN files
      /\ \A i \in DOMAIN files : files'[i] = files[i]
  BY <1>t, <1>1
<1> HIDE DEF k
<1>4. \A i \in DOMAIN files : files[i].name # e.name
  <2>1. \A i \in DOMAIN files : files[i].name.num \in Nat
    <3>1. \A i \in DOMAIN files : files[i] \in Entry
      BY <1>t
    <3>. QED
      BY <3>1 DEF Entry, Name
  <2>. QED
    BY <1>t, <1>2, <2>1
<1>5. UniqueNames'
  BY <1>3, <1>4, <1>t DEF UniqueNames
<1>6. /\ DOMAIN vbound = NamesOf(DOMAIN files) /\ DOMAIN vbound' = NamesOf(DOMAIN files)'
      /\ vbound = [m \in DOMAIN vbound |-> vbound[m]] /\ vbound' = [m \in DOMAIN vbound' |-> vbound'[m]]
  BY DEF vbound
<1>7. DOMAIN vbound' = DOMAIN vbound \cup {e.name} /\ e.name \notin DOMAIN vbound
  BY <1>3, <1>4, <1>6 DEF NamesOf
<1>8. vbound'[e.name] = e.file
  <2>1. k \in DOMAIN files' /\ files'[k] = e
    BY <1>3
  <2>2. (CHOOSE i \in DOMAIN files' : files'[i].name = e.name) = k
    BY <1>5, <2>1 DEF UniqueNames
  <2>. QED
    BY <1>6, <1>7, <2>1, <2>2 DEF vbound
<1>9. ASSUME NEW m \in DOMAIN vbound PROVE vbound'[m] = vbound[m]
  <2>1. PICK i \in DOMAIN files : files[i].name = m
    BY <1>6, <1>9 DEF NamesOf
  <2>2. i \in DOMAIN files' /\ files'[i] = files[i]
    BY <1>3
  <2>3. (CHOOSE j \in DOMAIN files' : files'[j].name = m) = i
    BY <1>5, <2>1, <2>2 DEF UniqueNames
  <2>4. (CHOOSE j \in DOMAIN files : files[j].name = m) = i
    BY <1>t, <2>1 DEF UniqueNames
  <2>5. m \in NamesOf(DOMAIN files) /\ m \in NamesOf(DOMAIN files)'
    BY <1>6, <1>7
  <2>6. vbound[m] = files[i].file
    BY <2>4, <2>5 DEF vbound
  <2>7. vbound'[m] = files'[i].file
    BY <2>3, <2>5 DEF vbound
  <2>. QED
    BY <2>2, <2>6, <2>7
<1>10. vbound' = [m \in DOMAIN vbound \cup {e.name} |-> IF m = e.name THEN e.file ELSE vbound[m]]
  BY <1>6, <1>7, <1>8, <1>9
<1>11. vhidden' = vhidden
  <2>1. \A i : i \in DOMAIN files' /\ files'[i].deleted <=> i \in DOMAIN files /\ files[i].deleted
    BY <1>2, <1>3
  <2>2. \A n : n \in vhidden <=> \E i \in DOMAIN files : files[i].deleted /\ n = files[i].name
    BY DEF vhidden, NamesOf
  <2>3. \A n : n \in vhidden' <=> \E i \in DOMAIN files' : files'[i].deleted /\ n = files'[i].name
    BY DEF vhidden, NamesOf
  <2>4. \A n : n \in vhidden' <=> n \in vhidden
    BY <1>3, <2>1, <2>2, <2>3
  <2>. QED
    BY <2>4
<1>12. vpending' = vpending /\ disk' = disk
  BY DEF vpending, PushFile
<1>13. PICK n \in Name, f \in Source : n = e.name /\ f = e.file
  BY <1>t, <1>2
<1>14. /\ n \notin DOMAIN vbound
       /\ vbound' = [m \in DOMAIN vbound \cup {n} |-> IF m = n THEN f ELSE vbound[m]]
       /\ UNCHANGED <<vhidden, vpending, disk>>
  BY <1>7, <1>10, <1>11, <1>12, <1>13
<1>15. View!Bind(n, f)
  BY ONLY <1>14 DEF View!Bind, vbound, vhidden, vpending
<1>. QED
  BY <1>7, <1>13, <1>15

LEMMA UnlinkInView ==
    ASSUME ProcessInv, NEW w \in Worker, UnlinkSource(w)
    PROVE  \E n \in DOMAIN vbound : View!Unlink(n)
<1> DEFINE r == worker[w]
           n == r.name
<1>1. /\ r.pc = "syscall" /\ r.entry \in DOMAIN files /\ files[r.entry].name = n /\ r.walk = "find"
      /\ UniqueNames /\ WorkerTypeOK
  BY DEF ProcessInv, WalkInv, UnlinkSource, Walking, IndexIsSound, NamesInv
<1>2. n \in DOMAIN vbound /\ vbound[n] = files[r.entry].file
  BY <1>1, BoundIs
<1>3. /\ Alone(w) /\ RemoveSource(files[r.entry].file) /\ Starts(r, worker'[w], "mark")
  BY <1>1, UnlinkEffect
<1>4. vpending' = vpending \cup {n}
  BY <1>1, <1>3, PendingAdded DEF Starts, SameRequest, Marking, OnWalk
<1>5. files' = files /\ disk' = disk \ {vbound[n]} /\ vbound[n] \in disk
  BY <1>2, <1>3 DEF RemoveSource
<1>6. vbound' = vbound /\ vhidden' = vhidden
  BY <1>5 DEF vbound, vhidden, NamesOf
<1> HIDE DEF n
<1>7. PICK m \in DOMAIN vbound : m = n
  BY <1>2
<1>8. View!Unlink(m)
  BY <1>4, <1>5, <1>6, <1>7 DEF View!Unlink, vbound, vhidden, vpending
<1>. QED
  BY <1>8

LEMMA SettlesInView ==
    ASSUME NEW w \in Worker, Alone(w), Marking(worker[w]), ~Marking(worker'[w]),
           vbound' = vbound, disk' = disk, vhidden' \in {vhidden, vhidden \cup {worker[w].name}}
    PROVE  \E n \in vpending : View!Settle(n)
<1>1. /\ worker[w].name \in vpending
      /\ vpending' \in {vpending, vpending \ {worker[w].name}}
  BY PendingDropped
<1>2. PICK n \in vpending : n = worker[w].name
  BY <1>1
<1>3. View!Settle(n)
  BY <1>1, <1>2 DEF View!Settle, vbound, vhidden, vpending
<1>. QED
  BY <1>3

LEMMA MarkInView ==
    ASSUME ProcessInv, NEW w \in Worker, MarkFile(w)
    PROVE  \E n \in vpending : View!Settle(n)
<1> DEFINE r == worker[w]
<1>t. TypeOK /\ UniqueNames /\ WorkerTypeOK
  BY DEF ProcessInv, IndexIsSound, TypeInv, NamesInv
<1>1. Alone(w) /\ Answers(r, worker'[w], "ok") /\ Marking(r)
  BY <1>t, AnsweringEffect DEF MarkFile, Ending, Walking, Marking, OnWalk
<1>2. ~Marking(worker'[w])
  BY <1>1 DEF Answers, Marking, OnWalk
<1>3. CASE UNCHANGED entriesVars
  <2>1. files' = files /\ disk' = disk
    BY <1>3 DEF entriesVars
  <2>2. vbound' = vbound /\ vhidden' = vhidden
    BY <2>1 DEF vbound, vhidden, NamesOf
  <2>. QED
    BY <1>1, <1>2, <2>1, <2>2, SettlesInView
<1>4. CASE MarkDeleted(r.node, r.name)
  <2>1. /\ Len(files') = Len(files) /\ files' \in Seq(Entry)
        /\ \A j \in 1..Len(files) :
                /\ files'[j].name = files[j].name
                /\ files'[j].file = files[j].file
    BY <1>t, <1>4, MarkEffect
  <2>2. DOMAIN files' = DOMAIN files /\ DOMAIN files = 1..Len(files)
    BY <1>t, <2>1 DEF TypeOK
  <2>3. vbound' = vbound
    BY <1>t, <2>1, <2>2, BoundKept
  <2>4. /\ FirstNamed(r.node, r.name) \in DOMAIN files
        /\ files[FirstNamed(r.node, r.name)].name = r.name
        /\ files' = [files EXCEPT ![FirstNamed(r.node, r.name)].deleted = TRUE]
        /\ files[FirstNamed(r.node, r.name)].dir = r.node
    BY <1>t, <1>4, FirstIsThere DEF MarkDeleted
  <2> DEFINE i == FirstNamed(r.node, r.name)
  <2>5. files'[i].deleted
    BY <1>t, <1>4, <2>4, MarksIt
  <2>6. \A j \in DOMAIN files : j # i => files'[j] = files[j]
    BY <2>4
  <2> HIDE DEF i
  <2>7. \A n : n \in vhidden <=> \E j \in DOMAIN files : files[j].deleted /\ n = files[j].name
    BY DEF vhidden, NamesOf
  <2>8. \A n : n \in vhidden' <=> \E j \in DOMAIN files' : files'[j].deleted /\ n = files'[j].name
    BY DEF vhidden, NamesOf
  <2>9. i \in DOMAIN files /\ files[i].name = r.name /\ files'[i].name = r.name
    BY <2>1, <2>2, <2>4 DEF i
  <2>10. \A n : n \in vhidden' <=> n \in vhidden \/ n = r.name
    BY <2>2, <2>5, <2>6, <2>7, <2>8, <2>9
  <2>11. vhidden' = vhidden \cup {r.name}
    BY <2>10
  <2>12. disk' = disk
    BY <1>4 DEF MarkDeleted
  <2>. QED
    BY <1>1, <1>2, <2>3, <2>11, <2>12, SettlesInView
<1>. QED
  BY <1>3, <1>4 DEF MarkFile
----------------------------------------------------------------------------
LEMMA ViewStutters ==
    UNCHANGED <<vbound, vhidden, vpending, disk>> => UNCHANGED View!vars
  BY DEF View!vars, vbound, vhidden, vpending

LEMMA FilesUnseen ==
    ASSUME UNCHANGED files PROVE vbound' = vbound /\ vhidden' = vhidden
  BY DEF vbound, vhidden, NamesOf

LEMMA QuietWorker ==
    ASSUME NEW w \in Worker, Alone(w), UNCHANGED entriesVars,
           Marking(worker'[w]) <=> Marking(worker[w]),
           Marking(worker[w]) => worker'[w].name = worker[w].name
    PROVE  UNCHANGED View!vars
  BY PendingKept, FilesUnseen, ViewStutters DEF entriesVars

LEMMA MissInView ==
    ASSUME NEW w \in Worker, Alone(w), UNCHANGED entriesVars, Misses(worker[w], worker'[w]),
           worker[w].pc \in OnWalk
    PROVE  View!Next \/ UNCHANGED View!vars
<1>1. CASE worker[w].walk = "mark"
  <2>1. Marking(worker[w]) /\ ~Marking(worker'[w])
    BY <1>1 DEF Marking, Misses, Answers, OnWalk
  <2>. QED
    BY <2>1, FilesUnseen, SettlesInView DEF View!Next, entriesVars, vpending
<1>2. CASE worker[w].walk # "mark"
  <2>1. ~Marking(worker[w]) /\ ~Marking(worker'[w])
    BY <1>2 DEF Marking, Misses, Answers, Starts, OnWalk
  <2>. QED
    BY <2>1, QuietWorker
<1>. QED
  BY <1>1, <1>2

LEMMA WorkerInView ==
    ASSUME ProcessInv, NEW w \in Worker, Request(w) \/ WorkerStep(w)
    PROVE  View!Next \/ UNCHANGED View!vars
<1> DEFINE r == worker[w]
           s == worker'[w]
<1>t. TypeOK /\ UniqueNames /\ WorkerTypeOK /\ WalkInv(w) /\ r \in WorkerState
  BY WorkerStateOf DEF ProcessInv, IndexIsSound, TypeInv, NamesInv
<1>1. CASE Request(w)
  <2>1. /\ Alone(w) /\ s.walk \in {"find", "exists"} /\ r.pc = "idle"
    BY <1>t, <1>1, RequestEffect DEF Request
  <2>. QED
    BY <1>1, <2>1, QuietWorker DEF Marking, OnWalk, Request
<1>2. CASE IndexMissing(w) \/ NullSeen(w) \/ ChildMissing(w)
  <2>1. Miss(w) /\ r.pc \in OnWalk
    BY <1>2 DEF IndexMissing, NullSeen, ChildMissing, Walking, OnWalk
  <2>2. Alone(w) /\ Misses(r, s) /\ UNCHANGED entriesVars
    BY <1>t, <2>1, MissEffect DEF Alone, Miss
  <2>. QED
    BY <2>1, <2>2, MissInView
<1>3. CASE IndexFound(w) \/ ChildFound(w)
  <2>1. /\ Alone(w) /\ UNCHANGED entriesVars /\ r.pc \in OnWalk
        /\ Moves(r, s, "child") \/ Moves(r, s, "index")
    BY <1>t, <1>3, IndexFoundEffect, ChildFoundEffect DEF IndexFound, ChildFound, Walking, OnWalk
  <2>. QED
    BY <2>1, QuietWorker DEF Moves, Marking, SameRequest, OnWalk
<1>4. CASE Reached(w)
  <2>1. /\ Alone(w) /\ UNCHANGED entriesVars /\ r.pc \in OnWalk
        /\ \/ Misses(r, s)
           \/ r.walk = "exists" /\ (Answers(r, s, "dir") \/ Starts(r, s, "children"))
           \/ Moves(r, s, "end")
    BY <1>t, <1>4, ReachedEffect DEF Reached, Walking, OnWalk
  <2>2. CASE Misses(r, s)
    BY <2>1, <2>2, MissInView
  <2>3. CASE r.walk = "exists" /\ (Answers(r, s, "dir") \/ Starts(r, s, "children"))
    <3>1. ~Marking(r) /\ ~Marking(s)
      BY <2>3 DEF Answers, Starts, Marking
    <3>. QED
      BY <2>1, <3>1, QuietWorker
  <2>4. CASE Moves(r, s, "end")
    BY <2>1, <2>4, QuietWorker DEF Moves, Marking, SameRequest, OnWalk
  <2>. QED
    BY <2>1, <2>2, <2>3, <2>4
<1>5. CASE FileFound(w)
  <2>1. /\ Alone(w) /\ UNCHANGED entriesVars /\ r.walk = "find"
        /\ Answers(r, s, "error") \/ Moves(r, s, "syscall")
    BY <1>t, <1>5, FileFoundEffect DEF FileFound, Ending
  <2>. QED
    BY <2>1, QuietWorker DEF Moves, Answers, Marking
<1>6. CASE FileMissing(w) \/ UseFile(w) \/ UnlinkFails(w)
  <2>1. /\ Alone(w) /\ UNCHANGED entriesVars /\ r.walk = "find"
        /\ \E reply : Answers(r, s, reply)
    BY <1>t, <1>6, AnsweringEffect, UseFileEffect
    DEF FileMissing, Ending, UseFile, UnlinkFails, Walking, WalkInv
  <2>. QED
    BY <2>1, QuietWorker DEF Answers, Marking
<1>7. CASE UnlinkSource(w)
  BY <1>7, UnlinkInView DEF View!Next, vbound
<1>8. CASE MarkFile(w)
  BY <1>8, MarkInView DEF View!Next, vpending
<1>9. CASE ListChildren(w) \/ ListFiles(w)
  <2>1. /\ Alone(w) /\ UNCHANGED entriesVars /\ r.walk \in {"children", "files"}
        /\ s.walk = "files" \/ s.walk = r.walk
    BY <1>t, <1>9, ListChildrenEffect, ListFilesEffect DEF ListChildren, ListFiles, Ending, Starts
  <2>. QED
    BY <2>1, QuietWorker DEF Marking
<1>10. CASE Finish(w)
  <2>1. Alone(w) /\ UNCHANGED entriesVars /\ s = Idle /\ r.pc = "reply"
    BY <1>t, <1>10, FinishEffect DEF Finish
  <2>. QED
    BY <2>1, QuietWorker DEF Marking, OnWalk, Idle
<1>11. CASE NullDereferenced(w) \/ ChildNameMissing(w)
  <2>1. UNCHANGED entriesVars /\ UNCHANGED worker
    BY <1>11 DEF NullDereferenced, ChildNameMissing, Crash
  <2>. QED
    BY <2>1, FilesUnseen, ViewStutters DEF entriesVars, vpending
<1>. QED
  BY <1>1, <1>2, <1>3, <1>4, <1>5, <1>6, <1>7, <1>8, <1>9, <1>10, <1>11 DEF WorkerStep

LEMMA ViewStep == ProcessInv /\ [Next]_vars => [View!Next]_(View!vars)
<1> SUFFICES ASSUME ProcessInv, [Next]_vars PROVE View!Next \/ UNCHANGED View!vars
  OBVIOUS
<1>1. ASSUME UNCHANGED <<files, disk, worker>> PROVE UNCHANGED View!vars
  BY <1>1, FilesUnseen, ViewStutters DEF vpending
<1>2. CASE ScannerThread
  <2>1. CASE PushFile
    BY <1>2, <2>1, PushBinds DEF ScannerThread, ProcessInv, View!Next, vbound
  <2>2. CASE ~PushFile
    <3>1. UNCHANGED <<files, disk, worker>>
      BY <1>2, <2>2 DEF ScannerThread, ScannerStep, ScanDone, SkipDir, OpenDir, CloseDir, SkipFile,
         Abort, Classify, InternKnown, InternNew, InternAssign, InternReverse, ChildKnown,
         ChildNew, ChildLink
    <3>. QED
      BY <1>1, <3>1
  <2>. QED
    BY <2>1, <2>2
<1>3. CASE Others
  <2>1. PICK f \in Source : CreateSource(f) \/ RemoveSource(f)
    BY <1>3 DEF Others
  <2>2. vbound' = vbound /\ vhidden' = vhidden
    BY <2>1, FilesUnseen DEF CreateSource, RemoveSource
  <2>3. vpending' = vpending
    BY <1>3 DEF Others, vpending
  <2>4. disk' = disk \cup {f} \/ disk' = disk \ {f}
    BY <2>1 DEF CreateSource, RemoveSource
  <2>5. View!Change(f)
    BY <2>2, <2>3, <2>4 DEF View!Change, vbound, vhidden, vpending
  <2>. QED
    BY <2>5 DEF View!Next
<1>4. ASSUME NEW w \in Worker, Request(w) \/ WorkerStep(w)
      PROVE  View!Next \/ UNCHANGED View!vars
  BY <1>4, WorkerInView
<1>5. CASE Mount \/ Unmount \/ Exit \/ UseAfterFree
  <2>1. UNCHANGED <<files, disk, worker>>
    BY <1>5 DEF Mount, LoseScanner, Unmount, Exit, UseAfterFree, Crash, entriesVars
  <2>. QED
    BY <1>1, <2>1
<1>6. CASE UNCHANGED vars
  BY <1>1, <1>6 DEF vars, entriesVars
<1>. QED
  BY <1>2, <1>3, <1>4, <1>5, <1>6 DEF Next

(* With any number of workers, and the scanner among them, metafs keeps    *)
(* what MetaView promises of its names.                                    *)
THEOREM NamesAreKept == Spec => ViewSpec
<1>1. Init => View!Init
  <2> SUFFICES ASSUME Init PROVE View!Init
    OBVIOUS
  <2>1. files = <<>> /\ worker = [w \in Worker |-> Idle] /\ disk \in SUBSET Source
    BY DEF Init, EntriesInit
  <2>2. NamesOf(DOMAIN files) = {}
    BY <2>1 DEF NamesOf
  <2>3. vbound = [n \in {} |-> n] /\ vhidden = {}
    BY <2>1, <2>2 DEF vbound, vhidden, NamesOf
  <2>4. vpending = {}
    BY <2>1 DEF vpending, Idle
  <2>. QED
    BY <2>1, <2>3, <2>4 DEF View!Init, vbound, vhidden, vpending
<1>. QED
  BY <1>1, ProcessAlways, ViewStep, PTL DEF Spec, ViewSpec, View!Spec
=============================================================================
