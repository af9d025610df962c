------------------------------- MODULE Handles --------------------------------
(***************************************************************************)
(* The open files of metafs: Open, Read, Release, Getattr and Unlink of    *)
(* metafs.cpp, from the side of the descriptors.  A look-up of a name is   *)
(* one step here; what a name stands for is what MetaView promises, and    *)
(* MetaFS keeps.  The process keeps nothing for an open file but           *)
(* fuse_file_info::fh, and takes fh = 0 for "none": that is what /.config  *)
(* has, and what a file has that was given descriptor 0.                   *)
(*                                                                         *)
(* The scanner thread runs since before the mount and has descriptors of   *)
(* its own, of the directory it reads and of the file whose type it asks   *)
(* libmagic for.                                                           *)
(***************************************************************************)
EXTENDS Integers, Sequences, FiniteSets, Functions

CONSTANTS
    Worker,       \* FUSE worker threads
    Name,         \* the names of files in the mounted tree
    Config,       \* the name /.config
    Source,       \* the paths of source files
    Inode,        \* the files that can be there
    ConfigInode,  \* what /.config shows
    Data,         \* contents
    data,         \* the content of each file; nobody writes to one here
    Handle,       \* open files, as the kernel numbers them
    MaxFd,        \* bound on the descriptors of the process
    MaxScanFds,   \* bound on the descriptors of the scanner: the code has two
    ConfigLength, \* the length of /.config, in reads
    None,         \* nothing
    MaxOthers     \* bound on what the scanner adds and other programs do

ASSUME HandlesAssumption ==
    /\ Config \notin Name /\ ConfigInode \notin Inode
    /\ data \in [Inode \cup {ConfigInode} -> Data]
    /\ MaxFd \in Nat /\ MaxFd > 3
    /\ MaxScanFds \in {1, 2} /\ ConfigLength \in Nat /\ MaxOthers \in Nat
    /\ None \notin Name \cup {Config} \cup Source \cup Inode \cup Data \cup Handle \cup Nat

VARIABLES
    link,        \* the file at each source path, a partial function
    bound,       \* the source path of each name in the tree, a partial function
    hidden,      \* the names whose entry is marked deleted
    pending,     \* the names whose file was unlinked and that are not marked yet
    scanfds,     \* the descriptors it has open, the last one first
    fds,         \* the open descriptors of the process, a partial function
    zero,        \* descriptor 0 was taken for good when metafs was mounted
    fuse,        \* the descriptor of /dev/fuse
    fh,          \* fuse_file_info::fh of each open file, a partial function
    named,       \* the name each of them was opened by
    pos,         \* how far each of them was read (only of /.config)
    seeked,      \* a read did not begin where the last one of its file ended
    request,     \* the request each worker serves
    status,      \* the state of the process
    others       \* how often the names or the files were changed by others

names == <<bound, hidden, pending>>
handles == <<fh, named, pos>>
mount == <<zero, fuse>>
vars == <<link, names, scanfds, fds, mount, handles, seeked, request,
          status, others>>

----------------------------------------------------------------------------
Fd == 0..(MaxFd - 1)

(* The operations that touch neither names nor descriptors, one of which   *)
(* stands for all: mknod, mkdir, rmdir, symlink, rename, link, chmod,      *)
(* chown, truncate, utime, write, readlink and fsync are refused; flush,   *)
(* statfs and releasedir, whose fh nobody sets, do nothing.                *)
StubOps == {"flush"}

Request ==
    [state : {"none", "asked", "answered"}, step : {"start", "found", "removed"},
     op : {"getattr", "open", "read", "release", "unlink"} \cup StubOps,
     path : Name \cup {Config, None}, handle : Handle \cup {None},
     offset : 0..(ConfigLength + 1), source : Source \cup {None},
     answer : {"ok", "error", None} \cup Data, names : {{}}]

Blank == [state |-> "none", step |-> "start", op |-> "flush", path |-> None,
          handle |-> None, offset |-> 0, source |-> None, answer |-> None, names |-> {}]

(* What the kernel asks for: of an open file only while it is open, its    *)
(* release once, when nothing else is asked of it.                         *)
Serves(w, h) == request[w].state # "none" /\ request[w].handle = h
Usable(h) ==
    /\ h \in DOMAIN fh
    /\ \A w \in Worker : Serves(w, h) => request[w].op = "read"
NotServed(h) == \A w \in Worker : ~Serves(w, h)

To(op, n, h, o) == [Blank EXCEPT !.op = op, !.path = n, !.handle = h, !.offset = o]
OnPath == {To(op, n, None, 0) : op \in {"getattr", "unlink"}, n \in Name \cup {Config}}
AnyTime == {To(op, None, None, 0) : op \in StubOps}
ToOpen == {To("open", n, h, 0) : n \in Name \cup {Config},
                                 h \in {g \in Handle : g \notin DOMAIN fh /\ NotServed(g)}}
Offsets(h) == IF named[h] = Config THEN {pos[h], ConfigLength + 1} ELSE {0}
ToRead == UNION {{To("read", named[h], h, o) : o \in Offsets(h)} :
                    h \in {g \in Handle : Usable(g)}}
ToRelease == {To("release", named[h], h, 0) : h \in {g \in DOMAIN fh : NotServed(g)}}

Ask(w) ==
    /\ status = "mounted"
    /\ request[w].state = "none"
    /\ \E r \in OnPath \cup AnyTime \cup ToOpen \cup ToRead \cup ToRelease :
        /\ request' = [request EXCEPT ![w] = [r EXCEPT !.state = "asked"]]
        /\ seeked' = (seeked \/ (r.op = "read" /\ r.offset # pos[r.handle]))
    /\ UNCHANGED <<link, names, mount, scanfds, fds, handles, status, others>>

Done(w) ==
    /\ status = "mounted"
    /\ request[w].state = "answered"
    /\ request' = [request EXCEPT ![w] = Blank]
    /\ UNCHANGED <<link, names, mount, scanfds, fds, handles, seeked, status, others>>

----------------------------------------------------------------------------
Serving(w, op, step) ==
    /\ status = "mounted"
    /\ request[w].state = "asked" /\ request[w].op = op /\ request[w].step = step
(* The local variables of the handler go.                                  *)
Return(w, a) ==
    request' = [request EXCEPT ![w] = [@ EXCEPT !.state = "answered", !.answer = a,
                                                !.step = "start", !.source = None, !.offset = 0]]

Extended(f, k, v) == [x \in DOMAIN f \cup {k} |-> IF x = k THEN v ELSE f[x]]
Without(f, k) == [x \in DOMAIN f \ {k} |-> f[x]]

(* The kernel gives out the lowest free descriptor.                        *)
NextFd == CHOOSE fd \in Fd \ DOMAIN fds : \A g \in Fd \ DOMAIN fds : fd <= g
NoFd == Fd \subseteq DOMAIN fds

(* FUSE sees to it that descriptors 0, 1 and 2 are taken when it mounts,   *)
(* and takes one for /dev/fuse.  In the background it does so for good; in *)
(* the foreground the scanner may hold one of them at that moment.         *)
Mount ==
    /\ status = "starting"
    /\ fuse' \in Fd \ (DOMAIN fds \cup 0..2)
    /\ \A g \in Fd \ (DOMAIN fds \cup 0..2) : fuse' <= g
    /\ fds' = [fd \in DOMAIN fds \cup 0..2 \cup {fuse'} |-> None]
    /\ zero' = (0 \notin Range(scanfds))
    /\ status' = "mounted"
    /\ UNCHANGED <<link, names, scanfds, handles, seeked, request, others>>

(* The handlers that look for an entry.  get_file() returns a copy of it,  *)
(* or a deleted one; it may miss one while the scanner is inserting, which *)
(* lasts for ever in a daemon that was forked in the middle of it.         *)
Looks(w) == \E op \in {"getattr", "open", "unlink"} : Serving(w, op, "start")
Shown(n) == n \in DOMAIN bound /\ n \notin hidden
LookUp(w) ==
    /\ Looks(w)
    /\ Shown(request[w].path)
    /\ request' = [request EXCEPT ![w].step = "found", ![w].source = bound[request[w].path]]
    /\ UNCHANGED <<link, names, mount, scanfds, fds, handles, seeked, status, others>>
Miss(w) ==
    /\ Looks(w)
    /\ request[w].path # Config \/ request[w].op = "unlink"
    /\ Return(w, "error")
    /\ UNCHANGED <<link, names, mount, scanfds, fds, handles, seeked, status, others>>

Getattr(w) ==
    /\ \/ /\ Serving(w, "getattr", "found")
          /\ Return(w, IF request[w].source \in DOMAIN link THEN "ok" ELSE "error")
       \/ /\ Serving(w, "getattr", "start") /\ request[w].path = Config
          /\ Return(w, "ok")
    /\ UNCHANGED <<link, names, mount, scanfds, fds, handles, seeked, status, others>>

Opened(w, fd) ==
    /\ fh' = Extended(fh, request[w].handle, fd)
    /\ named' = Extended(named, request[w].handle, request[w].path)
    /\ pos' = Extended(pos, request[w].handle, 0)
    /\ Return(w, "ok")

OpenConfig(w) ==
    /\ Serving(w, "open", "start") /\ request[w].path = Config
    /\ Opened(w, 0)
    /\ UNCHANGED <<link, names, mount, scanfds, fds, seeked, status, others>>

(* open() goes by the path that was copied; it fails when there is no file *)
(* by now, no descriptor, or no permission.                                *)
OpenSource(w) ==
    /\ Serving(w, "open", "found")
    /\ \/ /\ request[w].source \in DOMAIN link
          /\ ~NoFd
          /\ fds' = Extended(fds, NextFd, link[request[w].source])
          /\ Opened(w, NextFd)
       \/ /\ Return(w, "error")
          /\ UNCHANGED <<fds, handles>>
    /\ UNCHANGED <<link, names, mount, scanfds, seeked, status, others>>

(* Mutant of ReadSource: the file is looked for again by its name.         *)
ReadByName(w) ==
    /\ Serving(w, "read", "start") /\ request[w].path # Config
    /\ \/ /\ bound[request[w].path] \in DOMAIN link
          /\ Return(w, data[link[bound[request[w].path]]])
       \/ Return(w, "error")
    /\ UNCHANGED <<link, names, mount, scanfds, fds, handles, seeked, status, others>>
(* Without a descriptor the read is left to StubFS.                        *)
ReadSource(w) ==
    /\ Serving(w, "read", "start") /\ request[w].path # Config
    /\ \/ /\ fh[request[w].handle] # 0
          /\ Return(w, data[fds[fh[request[w].handle]]])
       \/ Return(w, "error")
    /\ UNCHANGED <<link, names, mount, scanfds, fds, handles, seeked, status, others>>

(* Mutant of PastEnd: the end itself is beyond the text.                   *)
AtEnd(offset) == offset >= ConfigLength
(* substr() throws for an offset beyond the text; nobody catches it.       *)
PastEnd(offset) == offset > ConfigLength
ReadConfig(w) ==
    /\ Serving(w, "read", "start") /\ request[w].path = Config
    /\ IF PastEnd(request[w].offset)
       THEN status' = "crashed" /\ UNCHANGED <<request, pos>>
       ELSE /\ pos' = [pos EXCEPT ![request[w].handle] =
                          IF request[w].offset < ConfigLength
                          THEN request[w].offset + 1 ELSE ConfigLength]
            /\ Return(w, data[ConfigInode])
            /\ UNCHANGED status
    /\ UNCHANGED <<link, names, mount, scanfds, fds, fh, named, seeked, others>>

(* Mutant of Release: the descriptor is closed whatever its number.        *)
ReleaseAny(w) ==
    /\ Serving(w, "release", "start")
    /\ LET h == request[w].handle IN
        /\ fds' = Without(fds, fh[h])
        /\ fh' = Without(fh, h) /\ named' = Without(named, h) /\ pos' = Without(pos, h)
    /\ Return(w, "ok")
    /\ UNCHANGED <<link, names, mount, scanfds, seeked, status, others>>
(* close() gives the descriptor back even when it reports an error.        *)
Release(w) ==
    /\ Serving(w, "release", "start")
    /\ LET h == request[w].handle IN
        /\ fds' = IF fh[h] = 0 THEN fds ELSE Without(fds, fh[h])
        /\ fh' = Without(fh, h) /\ named' = Without(named, h) /\ pos' = Without(pos, h)
        /\ \/ Return(w, "ok")
           \/ fh[h] # 0 /\ Return(w, "error")
    /\ UNCHANGED <<link, names, mount, scanfds, seeked, status, others>>

UnlinkSource(w) ==
    /\ Serving(w, "unlink", "found")
    /\ \/ /\ request[w].source \in DOMAIN link
          /\ link' = Without(link, request[w].source)
          /\ pending' = pending \cup {request[w].path}
          /\ request' = [request EXCEPT ![w].step = "removed"]
       \/ Return(w, "error") /\ UNCHANGED <<link, pending>>
    /\ UNCHANGED <<bound, hidden, mount, scanfds, fds, handles, seeked, status, others>>

(* delete_file() looks the entry up again, and may miss it.                *)
MarkHidden(w) ==
    /\ Serving(w, "unlink", "removed")
    /\ LET n == request[w].path IN
        /\ \/ hidden' = hidden \cup {n}
           \/ UNCHANGED hidden
        /\ pending' = IF \E v \in Worker \ {w} : Serving(v, "unlink", "removed")
                                                  /\ request[v].path = n
                      THEN pending ELSE pending \ {n}
    /\ Return(w, "ok")
    /\ UNCHANGED <<link, bound, mount, scanfds, fds, handles, seeked, status, others>>

Stub(w) ==
    /\ \E op \in StubOps : Serving(w, op, "start")
    /\ \E a \in {"ok", "error"} : Return(w, a)
    /\ UNCHANGED <<link, names, mount, scanfds, fds, handles, seeked, status, others>>

----------------------------------------------------------------------------
(* scan_path() opens a directory, or skips it when there is no descriptor; *)
(* magic_file() opens a file of it.                                        *)
ScannerOpens ==
    /\ status \in {"starting", "mounted"}
    /\ Len(scanfds) < MaxScanFds /\ ~NoFd
    /\ scanfds' = <<NextFd>> \o scanfds
    /\ fds' = Extended(fds, NextFd, None)
    /\ UNCHANGED <<link, names, mount, handles, seeked, request, status, others>>

ScannerCloses ==
    /\ status \in {"starting", "mounted"}
    /\ scanfds # <<>>
    /\ scanfds' = Tail(scanfds)
    /\ fds' = Without(fds, Head(scanfds))
    /\ UNCHANGED <<link, names, mount, handles, seeked, request, status, others>>

(* add_file(): every file gets a name of its own.                          *)
ScannerAdds ==
    /\ status \in {"starting", "mounted"}
    /\ others < MaxOthers
    /\ \E n \in Name, s \in Source :
        /\ n \notin DOMAIN bound
        /\ \A m \in DOMAIN bound : bound[m] # s
        /\ bound' = Extended(bound, n, s)
    /\ others' = others + 1
    /\ UNCHANGED <<link, hidden, pending, mount, scanfds, fds, handles, seeked,
                   request, status>>

(* Other programs put files in place and remove them.                      *)
Unused == {i \in Inode : /\ \A s \in DOMAIN link : link[s] # i
                         /\ \A fd \in DOMAIN fds : fds[fd] # i}
Others ==
    /\ status = "mounted"
    /\ others < MaxOthers
    /\ others' = others + 1
    /\ \/ \E s \in Source, i \in Unused : link' = Extended(link, s, i)
       \/ \E s \in DOMAIN link : link' = Without(link, s)
    /\ UNCHANGED <<names, mount, scanfds, fds, handles, seeked, request, status>>

Init ==
    /\ \E at \in [Source -> Inode \cup {None}] :
        /\ \A s, t \in Source : at[s] = at[t] /\ at[s] # None => s = t
        /\ link = [s \in {t \in Source : at[t] # None} |-> at[s]]
    /\ bound = [n \in {} |-> None] /\ hidden = {} /\ pending = {}
    /\ scanfds = <<>>
    /\ fds \in {[fd \in 0..2 |-> None], [fd \in 1..2 |-> None]} /\ zero = FALSE /\ fuse = None
    /\ fh = [h \in {} |-> 0] /\ named = [h \in {} |-> None] /\ pos = [h \in {} |-> 0]
    /\ seeked = FALSE
    /\ request = [w \in Worker |-> Blank]
    /\ status = "starting" /\ others = 0

Handler(w) ==
    \/ LookUp(w) \/ Miss(w) \/ Getattr(w)
    \/ OpenConfig(w) \/ OpenSource(w) \/ ReadSource(w) \/ ReadConfig(w) \/ Release(w)
    \/ UnlinkSource(w) \/ MarkHidden(w) \/ Stub(w)

Next ==
    \/ Mount \/ ScannerOpens \/ ScannerCloses \/ ScannerAdds \/ Others
    \/ \E w \in Worker : Ask(w) \/ Handler(w) \/ Done(w)

Spec == Init /\ [][Next]_vars
----------------------------------------------------------------------------
(* Types: the handle of an open file is a descriptor or 0, never the       *)
(* result of a failed open(), and the rest is what the actions allow.      *)
TypeOK ==
    /\ DOMAIN link \subseteq Source /\ Range(link) \subseteq Inode
    /\ DOMAIN bound \subseteq Name /\ Range(bound) \subseteq Source
    /\ pending \subseteq DOMAIN bound /\ hidden \subseteq DOMAIN bound
    /\ {seeked, zero} \subseteq BOOLEAN
    /\ scanfds \in Seq(Fd)
    /\ fuse \in Fd \cup {None}
    /\ DOMAIN fds \subseteq Fd /\ Range(fds) \subseteq Inode \cup {None}
    /\ DOMAIN fh \subseteq Handle /\ Range(fh) \subseteq Fd
    /\ DOMAIN named = DOMAIN fh /\ Range(named) \subseteq Name \cup {Config}
    /\ DOMAIN pos = DOMAIN fh /\ Range(pos) \subseteq 0..ConfigLength
    /\ request \in [Worker -> Request]
    /\ status \in {"starting", "mounted", "crashed"}
    /\ others \in 0..MaxOthers

(* Besides 1 and 2, which it was given, and FUSE's, the process has the    *)
(* descriptors of the open files and of the scanner, each once; only       *)
(* descriptor 0 can be lost, and only when metafs is started without one   *)
(* and the scanner gets it before FUSE has filled the gap.                 *)
Files == {fh[h] : h \in DOMAIN fh} \ {0}
DescriptorsKept ==
    /\ TypeOK
    /\ \A g, h \in DOMAIN fh : fh[g] = fh[h] /\ fh[g] # 0 => g = h
    /\ \A fd \in DOMAIN fds \ {0} : fds[fd] # None <=> fd \in Files
    /\ status # "starting" =>
          {fd \in DOMAIN fds \ {0} : fds[fd] = None}
              = {1, 2, fuse} \cup (Range(scanfds) \ {0})
    /\ Files \subseteq DOMAIN fds
    /\ \A i, j \in DOMAIN scanfds : scanfds[i] = scanfds[j] => i = j
    /\ zero => 0 \in DOMAIN fds /\ fds[0] = None

(* As long as each read of an open /.config begins where the last one of   *)
(* that handle ended, however many read it at a time, none terminates the  *)
(* process, also the one that begins at the end: only a read that was put  *)
(* beyond the end does (src/metafs_src/metafs.cpp:279).                    *)
ReadersSurvive == status = "crashed" => seeked

(* A handle stays with the file it was opened for, whatever has become of  *)
(* its name, of the file's path, and of the numbers of the descriptors:    *)
(* with the names of the scanned files for paths the mount is one that     *)
(* only passes requests on, or refuses them.                               *)
View == INSTANCE MountView WITH
    Path <- Name \cup {Config}, Inode <- Inode \cup {ConfigInode}, Empty <- None,
    link <- [n \in {m \in DOMAIN bound : bound[m] \in DOMAIN link} \cup {Config} |->
                IF n = Config THEN ConfigInode ELSE link[bound[n]]],
    opened <- [h \in DOMAIN fh |-> IF named[h] = Config THEN ConfigInode ELSE fds[fh[h]]],
    request <- [w \in Worker |->
        LET r == request[w]
            served == r.step = "removed"
        IN  [state |-> IF served THEN "answered" ELSE r.state, op |-> r.op, path |-> r.path,
             handle |-> r.handle, answer |-> IF served THEN "ok" ELSE r.answer,
             names |-> r.names]]
ViewSpec == View!Spec

(* The marks of the index are used as MetaView promises, which MetaFS      *)
(* keeps, too: a source file is removed only on request for the name that  *)
(* is bound to it, and a name is hidden only while such a request is being *)
(* served.  It says nothing of which file is opened; ViewSpec does.        *)
Names == INSTANCE MetaView WITH disk <- DOMAIN link
NamesSpec == Names!Spec
=============================================================================
