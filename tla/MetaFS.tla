------------------------------- MODULE MetaFS -------------------------------
(***************************************************************************)
(* The metafs process (metafs_src/metafs.cpp, main.c, wrap.cc): the FUSE   *)
(* worker threads that answer requests from the index while the scanner    *)
(* thread of module Entries is still filling it.                           *)
(*                                                                         *)
(* Getattr, Opendir, Readdir, Open and Unlink walk the tree one component  *)
(* at a time; each look-up in a map, each search of a list and each system *)
(* call is a step of its own, so that the scanner, the other workers and   *)
(* the rest of the machine can act in between.                             *)
(*                                                                         *)
(* The kernel side of FUSE is external: any path may be asked for at any   *)
(* time, which over-approximates what its name cache lets through.         *)
(***************************************************************************)
EXTENDS Entries

CONSTANTS
    Worker,      \* FUSE worker threads
    Dirs,        \* the directories that are asked for, sequences of keys
    NoName,      \* the path of a request is a directory
    MaxNum,      \* the names asked for have numbers below this bound
    Modes        \* how the program may be started: "foreground" (-f, fuse_main()
                 \* does not fork), "background"

ASSUME RequestsAssumption ==
    /\ Dirs \subseteq Seq(Key)
    /\ MaxNum \in Nat
    /\ Modes \subseteq {"foreground", "background"}
    /\ NoName \notin Name

VARIABLES
    worker,      \* the state of each worker thread
    status       \* the state of the process

vars == <<entriesVars, worker, status>>

----------------------------------------------------------------------------
Op == {"getattr", "opendir", "readdir", "open", "unlink"}

(* A path is a directory, or a file name inside one.                       *)
Requested == [base : Base, num : 0..(MaxNum - 1)]
Takes(op) ==
    CASE op = "getattr" -> Requested \cup {NoName}
      [] op \in {"opendir", "readdir"} -> {NoName}
      [] op \in {"open", "unlink"} -> Requested

(* What a worker is doing.                                                 *)
(*   walk: path_exists() for "exists", walk_tree() on behalf of get_file,  *)
(*         get_children, get_files and delete_file for the others;         *)
(*   node: the path_component reached; null: the pointer to it that was    *)
(*         read is null; idx: the number found for the next component;     *)
(*   entry: the copy of the file_entry that get_file returned;             *)
(*   calm: the scanner had finished when the request came in;              *)
(*   names, subdirs: what readdir has put in the reply.                    *)
Walk == {"exists", "find", "children", "files", "mark"}
WorkerPC == {"idle", "index", "child", "end", "syscall", "reply"}
Reply == {"none", "dir", "file", "error", "listing", "ok"}

Idle == [pc |-> "idle", op |-> "getattr", dir |-> <<>>, name |-> NoName,
         walk |-> "exists", node |-> Root, null |-> FALSE, idx |-> 0,
         entry |-> 0, calm |-> FALSE, reply |-> "none",
         names |-> {}, subdirs |-> {}]

(* "daemon" is the process that fuse_main() has forked.                    *)
Serving == status \in {"mounted", "daemon"}
Running == status = "starting" \/ Serving
ScanOver == scanner.pc = "done"
(* Mutant of ScannerActive: the scanner goes on after the scan.            *)
ScannerAlive == scanner.alive
(* The scanner will touch the index again.                                 *)
ScannerActive == scanner.alive /\ scanner.pc \notin {"done", "aborted"}

Set(w, rec) == worker' = [worker EXCEPT ![w] = rec]
Answer(w, reply) == Set(w, [worker[w] EXCEPT !.pc = "reply", !.reply = reply])
StartWalk(w, walk) ==
    [worker[w] EXCEPT !.pc = "index", !.walk = walk, !.node = Root, !.null = FALSE,
                      !.idx = 0]

(* A segmentation fault or an exception nobody catches ends the process.   *)
Crash == status' = "crashed" /\ UNCHANGED <<entriesVars, worker>>

----------------------------------------------------------------------------
(* Requests *)

Request(w) ==
    /\ Serving
    /\ worker[w].pc = "idle"
    /\ \E op \in Op, dir \in Dirs : \E name \in Takes(op) :
        Set(w, [Idle EXCEPT !.pc = "index", !.op = op, !.dir = dir, !.name = name,
                            !.walk = IF op \in {"open", "unlink"} THEN "find" ELSE "exists",
                            !.calm = ScanOver])
    /\ UNCHANGED <<entriesVars, status>>

Finish(w) ==
    /\ Serving
    /\ worker[w].pc = "reply"
    /\ Set(w, Idle)
    /\ UNCHANGED <<entriesVars, status>>

----------------------------------------------------------------------------
(* Walking the tree: path_exists() and walk_tree() *)

Walking(w, pc) == Serving /\ worker[w].pc = pc
(* A getattr that has found no such directory looks for a file of that     *)
(* name in the directory above.                                            *)
Depth(w) ==
    IF worker[w].walk = "find" /\ worker[w].name = NoName
    THEN Len(worker[w].dir) - 1 ELSE Len(worker[w].dir)
AtTarget(w) == Len(worker[w].node) = Depth(w)
NextKey(w) == worker[w].dir[Len(worker[w].node) + 1]
NextNode(w) == Append(worker[w].node, worker[w].idx)

(* Mutant of AfterMiss: a getattr waits for the directory to appear.       *)
AfterMissRetry(w) ==
    CASE worker[w].op = "getattr" /\ worker[w].walk = "exists" -> StartWalk(w, "exists")
      [] worker[w].walk = "mark" -> [worker[w] EXCEPT !.pc = "reply", !.reply = "ok"]
      [] OTHER -> [worker[w] EXCEPT !.pc = "reply", !.reply = "error"]

(* The walk stops at a missing component: false, or a null pointer.  A     *)
(* getattr goes on to look for a file of that name, delete_file() returns  *)
(* without a word, an empty listing is returned for a directory that is    *)
(* gone or not there yet.                                                  *)
AfterMiss(w) ==
    CASE worker[w].walk = "exists" /\ worker[w].op = "getattr" ->
            StartWalk(w, "find")
      [] worker[w].walk = "exists" /\ worker[w].op = "opendir" ->
            [worker[w] EXCEPT !.pc = "reply", !.reply = "error"]
      [] worker[w].walk \in {"exists", "files"} /\ worker[w].op = "readdir" ->
            [worker[w] EXCEPT !.pc = "reply", !.reply = "listing"]
      [] worker[w].walk = "children" -> StartWalk(w, "files")
      [] worker[w].walk = "find" ->
            [worker[w] EXCEPT !.pc = "reply", !.reply = "error"]
      [] worker[w].walk = "mark" ->
            [worker[w] EXCEPT !.pc = "reply", !.reply = "ok"]

Miss(w) == Set(w, AfterMiss(w)) /\ UNCHANGED <<entriesVars, status>>

(* The const get_string_index().  While the scanner inserts a name, the    *)
(* map is being rebalanced and any look-up may miss.  The name being       *)
(* inserted is found with the number 0 before its own is stored.           *)
IndexFound(w) ==
    /\ Walking(w, "index") /\ ~AtTarget(w)
    /\ ~(worker[w].null /\ worker[w].walk # "exists")
    /\ NextKey(w) \in DOMAIN string_index
    /\ Set(w, [worker[w] EXCEPT !.pc = "child", !.idx = string_index[NextKey(w)]])
    /\ UNCHANGED <<entriesVars, status>>

IndexMissing(w) ==
    /\ Walking(w, "index") /\ ~AtTarget(w)
    /\ ~(worker[w].null /\ worker[w].walk # "exists")
    /\ NextKey(w) \notin DOMAIN string_index \/ IndexInFlux
    /\ Miss(w)

(* walk_tree() looks at the pointer before it goes on.                     *)
NullSeen(w) ==
    /\ Walking(w, "index") /\ ~AtTarget(w)
    /\ worker[w].null /\ worker[w].walk # "exists"
    /\ Miss(w)

(* path_exists() does not.                                                 *)
NullDereferenced(w) ==
    /\ Walking(w, "child")
    /\ worker[w].null
    /\ Crash

ChildFound(w) ==
    /\ Walking(w, "child") /\ ~worker[w].null
    /\ NextNode(w) \in store
    /\ Set(w, [worker[w] EXCEPT !.pc = "index", !.node = NextNode(w),
                                !.null = IsNull(NextNode(w)), !.idx = 0])
    /\ UNCHANGED <<entriesVars, status>>

ChildMissing(w) ==
    /\ Walking(w, "child") /\ ~worker[w].null
    /\ NextNode(w) \notin store \/ ChildrenInFlux(worker[w].node)
    /\ Miss(w)

(* The directory of the request is reached.  For path_exists() a file name *)
(* is one more component; it is not in string_index.  walk_tree() returns  *)
(* the pointer it has, null or not.                                        *)
Reached(w) ==
    /\ Walking(w, "index") /\ AtTarget(w)
    /\ \/ /\ worker[w].walk = "exists" /\ worker[w].name # NoName
          /\ Miss(w)
       \/ /\ worker[w].walk = "exists" /\ worker[w].name = NoName
          /\ \/ worker[w].op \in {"getattr", "opendir"} /\ Answer(w, "dir")
             \/ worker[w].op = "readdir" /\ Set(w, StartWalk(w, "children"))
          /\ UNCHANGED <<entriesVars, status>>
       \/ /\ worker[w].walk # "exists" /\ worker[w].null
          /\ Miss(w)
       \/ /\ worker[w].walk # "exists" /\ ~worker[w].null
          /\ Set(w, [worker[w] EXCEPT !.pc = "end"])
          /\ UNCHANGED <<entriesVars, status>>

----------------------------------------------------------------------------
(* At the end of a walk *)

Ending(w, walk) == Walking(w, "end") /\ worker[w].walk = walk
Shown(w) == EntriesNamed(worker[w].node, worker[w].name)

(* get_file(): the entry is copied, its tombstone is looked at now.        *)
FileFound(w) ==
    /\ Ending(w, "find")
    /\ Shown(w) # {}
    /\ LET i == FirstNamed(worker[w].node, worker[w].name)
       IN  IF files[i].deleted
           THEN Answer(w, "error")
           ELSE Set(w, [worker[w] EXCEPT !.pc = "syscall", !.entry = i])
    /\ UNCHANGED <<entriesVars, status>>

FileMissing(w) ==
    /\ Ending(w, "find")
    /\ Shown(w) = {}
    /\ Answer(w, "error")
    /\ UNCHANGED <<entriesVars, status>>

(* lstat() in Getattr; open() in Open, which may be refused.               *)
UseFile(w) ==
    /\ Walking(w, "syscall") /\ worker[w].op \in {"getattr", "open"}
    /\ LET exists == files[worker[w].entry].file \in disk
       IN  \/ worker[w].op = "getattr" /\ Answer(w, IF exists THEN "file" ELSE "error")
           \/ worker[w].op = "open" /\ exists /\ Answer(w, "ok")
           \/ worker[w].op = "open" /\ Answer(w, "error")
    /\ UNCHANGED <<entriesVars, status>>

(* unlink() in Unlink, which may be refused.                               *)
UnlinkSource(w) ==
    /\ Walking(w, "syscall") /\ worker[w].op = "unlink"
    /\ RemoveSource(files[worker[w].entry].file)
    /\ Set(w, StartWalk(w, "mark"))
    /\ UNCHANGED status

(* Mutant of UnlinkFails: the file is marked deleted nevertheless.         *)
UnlinkFailsHidden(w) ==
    /\ Walking(w, "syscall") /\ worker[w].op = "unlink"
    /\ Set(w, StartWalk(w, "mark"))
    /\ UNCHANGED <<entriesVars, status>>

UnlinkFails(w) ==
    /\ Walking(w, "syscall") /\ worker[w].op = "unlink"
    /\ Answer(w, "error")
    /\ UNCHANGED <<entriesVars, status>>

(* Mutant of MarkFile: the file is not marked.                             *)
MarkNothing(w) ==
    /\ Ending(w, "mark")
    /\ Answer(w, "ok")
    /\ UNCHANGED <<entriesVars, status>>

(* delete_file(), from the directory that the second walk has reached.     *)
MarkFile(w) ==
    /\ Ending(w, "mark")
    /\ \/ MarkDeleted(worker[w].node, worker[w].name)
       \/ Shown(w) = {} /\ UNCHANGED entriesVars
    /\ Answer(w, "ok")
    /\ UNCHANGED status

(* get_children(): the names of the children.  A child that is just being  *)
(* inserted may be passed over; at() throws when it misses.                *)
ChildrenOf(node) == {i \in DOMAIN string_reverse_index : Append(node, i) \in store}


ListChildren(w) ==
    /\ Ending(w, "children")
    /\ LET node == worker[w].node
           now  == ChildrenOf(node)
           settled == {i \in now : ~ChildrenInFlux(node) \/ i # scanner.idx}
       IN \E seen \in {now, settled} :
            Set(w, [StartWalk(w, "files") EXCEPT
                        !.subdirs = {string_reverse_index[i] : i \in seen}])
    /\ UNCHANGED <<entriesVars, status>>

ChildNameMissing(w) ==
    /\ Ending(w, "children")
    /\ ReverseInFlux
    /\ ChildrenOf(worker[w].node) # {}
    /\ Crash

(* get_files().                                                            *)
ListFiles(w) ==
    /\ Ending(w, "files")
    /\ Set(w, [worker[w] EXCEPT
                  !.pc = "reply", !.reply = "listing",
                  !.names = {files[i].name : i \in {j \in DOMAIN files :
                                 files[j].dir = worker[w].node /\ ~files[j].deleted}}])
    /\ UNCHANGED <<entriesVars, status>>

WorkerStep(w) ==
    \/ IndexFound(w) \/ IndexMissing(w) \/ NullSeen(w) \/ NullDereferenced(w)
    \/ ChildFound(w) \/ ChildMissing(w) \/ Reached(w)
    \/ FileFound(w) \/ FileMissing(w) \/ UseFile(w) \/ UnlinkSource(w) \/ UnlinkFails(w) \/ MarkFile(w)
    \/ ListChildren(w) \/ ChildNameMissing(w) \/ ListFiles(w)
    \/ Finish(w)

----------------------------------------------------------------------------
(* The process *)

(* Mutant of Mount: the scanner is started after the fork.                 *)
MountThenScan ==
    /\ status = "starting"
    /\ \/ "foreground" \in Modes /\ status' = "mounted"
       \/ "background" \in Modes /\ status' = "daemon"
    /\ UNCHANGED <<entriesVars, worker>>

(* fuse_main() mounts.  Without -f it forks first: only the calling thread *)
(* lives on, the scanner that set_config_file() has started does not.      *)
Mount ==
    /\ status = "starting"
    /\ \/ "foreground" \in Modes /\ status' = "mounted" /\ UNCHANGED entriesVars
       \/ "background" \in Modes /\ status' = "daemon" /\ LoseScanner
    /\ UNCHANGED worker

(* fuse_main() returns when no request is being served; wrap_destroy() has *)
(* deleted the MetaFS and its Entries.                                     *)
Unmount ==
    /\ Serving
    /\ \A w \in Worker : worker[w].pc = "idle"
    /\ status' = "destroyed"
    /\ UNCHANGED <<entriesVars, worker>>

Exit ==
    /\ status = "destroyed"
    /\ status' = "exited"
    /\ UNCHANGED <<entriesVars, worker>>

(* Until main() has returned a scanner that is not finished goes on with   *)
(* the memory that was freed.                                              *)
UseAfterFree ==
    /\ status = "destroyed"
    /\ ScannerActive
    /\ Crash

(* The exception of Abort ends the process, not only the thread.           *)
ScannerThread ==
    /\ Running
    /\ ScannerStep
    /\ status' = IF scanner'.pc = "aborted" THEN "crashed" ELSE status
    /\ UNCHANGED worker

(* Other programs create and remove source files.                          *)
Others ==
    /\ Running
    /\ \E f \in Source : CreateSource(f) \/ RemoveSource(f)
    /\ UNCHANGED <<worker, status>>

Init ==
    /\ EntriesInit
    /\ worker = [w \in Worker |-> Idle]
    /\ status = "starting"

Next ==
    \/ ScannerThread \/ Others
    \/ \E w \in Worker : Request(w) \/ WorkerStep(w)
    \/ Mount \/ Unmount \/ Exit \/ UseAfterFree

Spec == Init /\ [][Next]_vars

(* The operating system runs every thread that can run.  Nothing makes the *)
(* kernel send a request, unmount, or another program act.                 *)
Fairness ==
    /\ WF_vars(ScannerThread)
    /\ WF_vars(Mount)
    /\ \A w \in Worker : WF_vars(WorkerStep(w))

FairSpec == Spec /\ Fairness
----------------------------------------------------------------------------
(* Type correctness of the workers and of the process, with CalmAnswers.   *)
WorkerTypeOK ==
    /\ worker \in [Worker -> [pc : WorkerPC, op : Op, dir : Dirs \cup {<<>>},
                              name : Name \cup {NoName}, walk : Walk,
                              node : Node, null : BOOLEAN, idx : Nat,
                              entry : Nat, calm : BOOLEAN, reply : Reply,
                              names : SUBSET Name, subdirs : SUBSET Key]]
    /\ status \in {"starting", "mounted", "daemon", "destroyed", "exited", "crashed"}

(* The directories of the arranged tree and what is in them, by name.      *)
Layout == {Decode(files[i].dir) : i \in DOMAIN files}
Below(dir, d) == Len(dir) < Len(d) /\ SubSeq(d, 1, Len(dir)) = dir
DirExists(dir) == dir = <<>> \/ \E d \in Layout : d = dir \/ Below(dir, d)
SubDirsOf(dir) == {d[Len(dir) + 1] : d \in {e \in Layout : Below(dir, e)}}
Denotes(dir, name, i) == files[i].name = name /\ Decode(files[i].dir) = dir

(* Once the scan is over the tree answers by name exactly as the layout of *)
(* the files asks for: no directory is missed, none is taken for another   *)
(* one, a listing has every file of the directory that is not unlinked and *)
(* no file of another directory, a lookup succeeds only for a file that is *)
(* there.  The walks are by number, through two maps, and were built while *)
(* other requests were being answered.                                     *)
CalmAnswers ==
    /\ WorkerTypeOK
    /\ \A w \in Worker :
        LET r == worker[w] IN
        r.pc = "reply" /\ r.calm =>
            /\ r.op \in {"getattr", "opendir"} /\ r.name = NoName =>
                    (r.reply = "dir" <=> DirExists(r.dir))
            /\ r.op = "readdir" =>
                /\ r.subdirs = SubDirsOf(r.dir)
                /\ \A n \in r.names : \E i \in DOMAIN files : Denotes(r.dir, n, i)
                /\ \A i \in DOMAIN files :
                        Decode(files[i].dir) = r.dir /\ ~files[i].deleted
                            => files[i].name \in r.names
            /\ r.reply = "file" \/ (r.op = "open" /\ r.reply = "ok") =>
                    \E i \in DOMAIN files : Denotes(r.dir, r.name, i)
            /\ r.op = "unlink" /\ r.reply = "ok" =>
                    \E i \in DOMAIN files :
                        Denotes(r.dir, r.name, i) /\ files[i].deleted

(* Unlink removes one source file: the one that was given the requested    *)
(* name.  During the scan a walk may be led into a wrong directory (a name *)
(* has number 0 until its own is stored), but the name is still its own.   *)
(* When the scan was over, the directory is the requested one, too.        *)
UnlinkExact ==
    [][\A w \in Worker :
        worker[w].pc = "syscall" /\ worker'[w].walk = "mark" =>
            \E i \in DOMAIN files :
                /\ files[i].name = worker[w].name
                /\ disk' = disk \ {files[i].file}
                /\ worker[w].calm => Decode(files[i].dir) = worker[w].dir]_vars

(* Once the scan is over the process crashes at most for a request that    *)
(* was taken before: path_exists() may still hold a null pointer it read   *)
(* during the scan.  No later request, and no unmounting, can end it.      *)
NoCrashAfterScan ==
    [][status' = "crashed" /\ status # "crashed" /\ ScanOver =>
            \E w \in Worker : worker[w].null /\ ~worker[w].calm]_vars

(* Without -f the index is what the scanner had made of it when the        *)
(* process forked: no request, however late, sees another file or          *)
(* directory, and a half-done change stays half done.                      *)
IndexFrozenByFork ==
    [][status = "daemon" =>
            /\ UNCHANGED <<string_index, string_reverse_index, store>>
            /\ Len(files') = Len(files)]_vars

(* A request that a worker has taken is answered, whatever the scanner and *)
(* the other workers do, unless the process crashes.                       *)
RequestsAnswered ==
    \A w \in Worker : (worker[w].pc # "idle") ~> (worker[w].pc = "idle" \/ ~Running)

(* The directories that a scan comes to that finds some of them closed.    *)
Members(s) == {s[i] : i \in DOMAIN s}
Scannable ==
    {d \in SourceDir :
        \A S \in SUBSET SourceDir :
            /\ Members(Paths) \ scanner.refused \subseteq S
            /\ \A e \in S : Members(SubDirs[e]) \ scanner.refused \subseteq S
            => d \in S}

(* A source file that stays where it is gets its entry, unless the process *)
(* ends before the scan does, or forks: a daemon may never list it.  A     *)
(* directory that could not be opened takes with it those below it, and    *)
(* none beside it or above.                                                *)
EventuallyListed ==
    \A f \in Source :
        [](f \in disk) =>
            <>(\/ ~Running \/ status = "daemon"
               \/ \E i \in DOMAIN files : files[i].file = f
               \/ \A d \in Scannable : f \notin FilesIn[d])

(* Every behaviour of the process is one of the view that MetaView states. *)
NamesOf(S) == {files[i].name : i \in S}
View == INSTANCE MetaView WITH
    bound   <- [n \in NamesOf(DOMAIN files) |->
                   files[CHOOSE i \in DOMAIN files : files[i].name = n].file],
    hidden  <- NamesOf({i \in DOMAIN files : files[i].deleted}),
    pending <- {worker[w].name : w \in {v \in Worker : worker[v].pc \in {"index", "child", "end"}
                                                       /\ worker[v].walk = "mark"}}

ViewSpec == View!Spec
=============================================================================
