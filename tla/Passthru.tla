------------------------------ MODULE Passthru ------------------------------
(***************************************************************************)
(* passthrufs (passthrufs_src/): the FUSE worker threads pass requests on  *)
(* to the files below a root directory.  The process keeps nothing but the *)
(* descriptors it has open, whose numbers the kernel keeps for it in       *)
(* fuse_file_info::fh.                                                     *)
(*                                                                         *)
(* The kernel is external on both sides: it sends the requests, and it     *)
(* serves the system calls that the handlers make.  A name may come to     *)
(* stand for another file at any time, through the mount or around it.     *)
(***************************************************************************)
EXTENDS Naturals

CONSTANTS
    Worker,      \* FUSE worker threads
    Path,        \* paths of files
    Dir,         \* paths of directories
    TopDirs,     \* "/" and "/test"
    DirOf,       \* the directory of each file
    Inode,       \* the files that can be there
    Data,        \* their contents
    Empty,       \* the content of a new or truncated file
    Handle,      \* open files, as the kernel numbers them
    MaxFd,       \* bound on the descriptors of the process
    Inherited,   \* those it has before the mount: its parent's, the log, FUSE's
    None,        \* nothing
    MaxOthers    \* bound on what other programs do

ASSUME MountAssumption ==
    /\ TopDirs \subseteq Dir /\ Path \cap Dir = {}
    /\ DirOf \in [Path -> Dir]
    /\ Empty \in Data
    /\ MaxFd \in Nat /\ MaxOthers \in Nat
    /\ Inherited \subseteq 0..(MaxFd - 1)
    /\ None \notin Path \cup Dir \cup Inode \cup Data \cup Handle \cup Nat

VARIABLES
    link,        \* the file at each path, a partial function
    data,        \* the content of each file
    fds,         \* the open descriptors of the process, a partial function
    fh,          \* fuse_file_info::fh of each open file, a partial function
    dirfd,       \* the descriptor of the directory each worker is listing
    request,     \* the request each worker serves
    status,      \* the state of the process
    others       \* how often other programs have changed a file

files == <<link, data>>
vars == <<files, fds, fh, dirfd, request, status, others>>

----------------------------------------------------------------------------
Fd == 0..(MaxFd - 1)

PathOps == {"mknod", "unlink", "truncate"}
(* The operations whose handlers return an error whatever they are given:  *)
(* readlink, mkdir, rmdir, symlink, rename, link, chmod, chown, utime and  *)
(* fsync, one of which stands for all.                                     *)
RefusedOps == {"rename"}
(* The operations whose handlers do nothing: flush, releasedir, fsyncdir.  *)
AcceptedOps == {"flush"}

Request ==
    [state : {"none", "asked", "answered"},
     op : PathOps \cup RefusedOps \cup AcceptedOps \cup
          {"getattr", "opendir", "readdir", "open", "read", "write", "release", "statfs"},
     path : Path \cup Dir \cup {None}, handle : Handle \cup {None},
     value : Data \cup {None}, answer : {"ok", "error", None} \cup Data,
     names : SUBSET Path]

Blank == [state |-> "none", op |-> "statfs", path |-> None, handle |-> None,
          value |-> None, answer |-> None, names |-> {}]

(* What the kernel asks for, any of it at any time; of a handle only while *)
(* it is open, and its release once, when nothing else is asked of it.     *)
Serves(w, h) == request[w].state # "none" /\ request[w].handle = h
Usable(h) ==
    /\ h \in DOMAIN fh
    /\ \A w \in Worker : Serves(w, h) => request[w].op \in {"read", "write"}
NotServed(h) == \A w \in Worker : ~Serves(w, h)

To(op, p, h, v) == [Blank EXCEPT !.op = op, !.path = p, !.handle = h, !.value = v]
OnPath == {To(op, p, None, None) : op \in PathOps, p \in Path}
AnyTime == {To(op, None, None, None) : op \in RefusedOps \cup AcceptedOps \cup {"statfs"}}
OnName == {To("getattr", p, None, None) : p \in Path \cup Dir}
OnDir == {To(op, d, None, None) : op \in {"opendir", "readdir"}, d \in Dir}
ToOpen == {To("open", p, h, None) : p \in Path,
                                    h \in {g \in Handle : g \notin DOMAIN fh /\ NotServed(g)}}
ToRead == {To("read", None, h, None) : h \in {g \in Handle : Usable(g)}}
ToWrite == {To("write", None, h, v) : h \in {g \in Handle : Usable(g)}, v \in Data}
ToRelease == {To("release", None, h, None) : h \in {g \in DOMAIN fh : NotServed(g)}}

Ask(w) ==
    /\ status = "mounted"
    /\ request[w].state = "none"
    /\ \E r \in OnPath \cup OnName \cup OnDir \cup ToOpen \cup ToRead \cup ToWrite
                \cup ToRelease \cup AnyTime :
          request' = [request EXCEPT ![w] = [r EXCEPT !.state = "asked"]]
    /\ UNCHANGED <<files, fds, fh, dirfd, status, others>>

Done(w) ==
    /\ status = "mounted"
    /\ request[w].state = "answered"
    /\ request' = [request EXCEPT ![w] = Blank]
    /\ UNCHANGED <<files, fds, fh, dirfd, status, others>>

----------------------------------------------------------------------------
Serving(w, op) ==
    /\ status = "mounted"
    /\ request[w].state = "asked" /\ request[w].op = op
Return(w, a) == request' = [request EXCEPT ![w].state = "answered", ![w].answer = a]
Fail(w) == Return(w, "error") /\ UNCHANGED <<files, fds, fh>>

Extended(f, k, v) == [x \in DOMAIN f \cup {k} |-> IF x = k THEN v ELSE f[x]]
Without(f, k) == [x \in DOMAIN f \ {k} |-> f[x]]

(* The kernel gives out the lowest free descriptor.                        *)
NextFd == CHOOSE fd \in Fd \ DOMAIN fds : \A g \in Fd \ DOMAIN fds : fd <= g
NoFd == Fd \subseteq DOMAIN fds
Unused == {i \in Inode : /\ \A p \in DOMAIN link : link[p] # i
                         /\ \A fd \in DOMAIN fds : fds[fd] # i}

(* main(): without a root it exits; of a root that realpath() does not     *)
(* find, setRootDir() makes a string of a null pointer.                    *)
Mount ==
    /\ status = "starting"
    /\ status' \in {"mounted", "refused", "crashed"}
    /\ UNCHANGED <<files, fds, fh, dirfd, request, others>>

Getattr(w) ==
    /\ Serving(w, "getattr")
    /\ Return(w, IF request[w].path \in DOMAIN link \cup Dir THEN "ok" ELSE "error")
    /\ UNCHANGED <<files, fds, fh, dirfd, status, others>>

Mknod(w) ==
    /\ Serving(w, "mknod")
    /\ \/ /\ request[w].path \notin DOMAIN link
          /\ \E i \in Unused : /\ link' = Extended(link, request[w].path, i)
                               /\ data' = [data EXCEPT ![i] = Empty]
          /\ Return(w, "ok") /\ UNCHANGED <<fds, fh>>
       \/ Fail(w)
    /\ UNCHANGED <<dirfd, status, others>>

Unlink(w) ==
    /\ Serving(w, "unlink")
    /\ \/ /\ request[w].path \in DOMAIN link
          /\ link' = Without(link, request[w].path)
          /\ Return(w, "ok") /\ UNCHANGED <<data, fds, fh>>
       \/ Fail(w)
    /\ UNCHANGED <<dirfd, status, others>>

(* The mount has no ftruncate(): for an open file, too, this is what is    *)
(* asked, with a path.  Of the sizes, zero.                                *)
Truncate(w) ==
    /\ Serving(w, "truncate")
    /\ \/ /\ request[w].path \in DOMAIN link
          /\ data' = [data EXCEPT ![link[request[w].path]] = Empty]
          /\ Return(w, "ok") /\ UNCHANGED <<link, fds, fh>>
       \/ Fail(w)
    /\ UNCHANGED <<dirfd, status, others>>

(* open() fails for a path that is not there, when no descriptor is left,  *)
(* or for want of permission.                                              *)
Open(w) ==
    /\ Serving(w, "open")
    /\ \/ /\ request[w].path \in DOMAIN link
          /\ ~NoFd
          /\ fds' = Extended(fds, NextFd, link[request[w].path])
          /\ fh' = Extended(fh, request[w].handle, NextFd)
          /\ Return(w, "ok") /\ UNCHANGED files
       \/ Fail(w)
    /\ UNCHANGED <<dirfd, status, others>>

(* Mutant of Target: the number of the file opened last is kept once for   *)
(* all, and not with each handle.                                          *)
TargetLast(w) ==
    LET Numbers == {fh[h] : h \in DOMAIN fh}
    IN  fds[CHOOSE fd \in Numbers : \A g \in Numbers : g <= fd]
(* The file behind the descriptor that the handle holds.                   *)
Target(w) == fds[fh[request[w].handle]]

Read(w) ==
    /\ Serving(w, "read")
    /\ Return(w, data[Target(w)]) \/ Return(w, "error")
    /\ UNCHANGED <<files, fds, fh, dirfd, status, others>>

Write(w) ==
    /\ Serving(w, "write")
    /\ \/ /\ data' = [data EXCEPT ![Target(w)] = request[w].value]
          /\ Return(w, "ok") /\ UNCHANGED <<link, fds, fh>>
       \/ Fail(w)
    /\ UNCHANGED <<dirfd, status, others>>

(* close() gives the descriptor back even when it reports an error.        *)
Release(w) ==
    /\ Serving(w, "release")
    /\ fds' = Without(fds, fh[request[w].handle])
    /\ fh' = Without(fh, request[w].handle)
    /\ \E a \in {"ok", "error"} : Return(w, a)
    /\ UNCHANGED <<files, dirfd, status, others>>

Opendir(w) ==
    /\ Serving(w, "opendir")
    /\ Return(w, IF request[w].path \in TopDirs THEN "ok" ELSE "error")
    /\ UNCHANGED <<files, fds, fh, dirfd, status, others>>

(* Readdir() opens the directory anew.  When that fails the answer is that *)
(* of an empty directory.                                                  *)
ListFails(w) ==
    /\ Serving(w, "readdir") /\ dirfd[w] = None
    /\ Return(w, "ok")
    /\ UNCHANGED <<files, fds, fh, dirfd, status, others>>

ListFirst(w) ==
    /\ Serving(w, "readdir") /\ dirfd[w] = None
    /\ ~NoFd
    /\ dirfd' = [dirfd EXCEPT ![w] = NextFd]
    /\ fds' = Extended(fds, NextFd, None)
    /\ UNCHANGED <<files, fh, request, status, others>>

ListName(w) ==
    /\ Serving(w, "readdir") /\ dirfd[w] # None
    /\ \E p \in DOMAIN link :
        /\ DirOf[p] = request[w].path /\ p \notin request[w].names
        /\ request' = [request EXCEPT ![w].names = @ \cup {p}]
    /\ UNCHANGED <<files, fds, fh, dirfd, status, others>>

(* Mutant of ListLast: the stream is not closed.                           *)
ListLastOpen(w) ==
    /\ Serving(w, "readdir") /\ dirfd[w] # None
    /\ dirfd' = [dirfd EXCEPT ![w] = None]
    /\ Return(w, "ok")
    /\ UNCHANGED <<files, fds, fh, status, others>>
(* After the last name, or when filler() has no room for another.          *)
ListLast(w) ==
    /\ Serving(w, "readdir") /\ dirfd[w] # None
    /\ dirfd' = [dirfd EXCEPT ![w] = None]
    /\ fds' = Without(fds, dirfd[w])
    /\ Return(w, "ok")
    /\ UNCHANGED <<files, fh, status, others>>

Statfs(w) ==
    /\ Serving(w, "statfs")
    /\ \E a \in {"ok", "error"} : Return(w, a)
    /\ UNCHANGED <<files, fds, fh, dirfd, status, others>>

Accept(w) ==
    /\ \E op \in AcceptedOps : Serving(w, op)
    /\ Return(w, "ok")
    /\ UNCHANGED <<files, fds, fh, dirfd, status, others>>

Refuse(w) ==
    /\ \E op \in RefusedOps : Serving(w, op)
    /\ Return(w, "error")
    /\ UNCHANGED <<files, fds, fh, dirfd, status, others>>

(* Other programs create, replace, remove and write files.                 *)
Others ==
    /\ status = "mounted"
    /\ others < MaxOthers
    /\ others' = others + 1
    /\ \/ \E p \in Path, i \in Unused, v \in Data :
            link' = Extended(link, p, i) /\ data' = [data EXCEPT ![i] = v]
       \/ \E p \in DOMAIN link : link' = Without(link, p) /\ UNCHANGED data
       \/ \E p \in DOMAIN link, v \in Data :
            data' = [data EXCEPT ![link[p]] = v] /\ UNCHANGED link
    /\ UNCHANGED <<fds, fh, dirfd, request, status>>

(* No request is being served and no file is open.                         *)
Unmount ==
    /\ status = "mounted"
    /\ \A w \in Worker : request[w].state = "none"
    /\ DOMAIN fh = {}
    /\ status' = "unmounted"
    /\ UNCHANGED <<files, fds, fh, dirfd, request, others>>

Init ==
    /\ \E at \in [Path -> Inode \cup {None}] :
        /\ \A p, q \in Path : at[p] = at[q] /\ at[p] # None => p = q
        /\ link = [p \in {q \in Path : at[q] # None} |-> at[p]]
    /\ data \in [Inode -> Data]
    /\ fds = [fd \in Inherited |-> None]
    /\ fh = [h \in {} |-> None]
    /\ dirfd = [w \in Worker |-> None]
    /\ request = [w \in Worker |-> Blank]
    /\ status = "starting"
    /\ others = 0

Handler(w) ==
    \/ Getattr(w) \/ Mknod(w) \/ Unlink(w) \/ Truncate(w)
    \/ Open(w) \/ Read(w) \/ Write(w) \/ Release(w)
    \/ Opendir(w) \/ ListFails(w) \/ ListFirst(w) \/ ListName(w) \/ ListLast(w)
    \/ Statfs(w) \/ Accept(w) \/ Refuse(w)

Next ==
    \/ Mount \/ Others \/ Unmount
    \/ \E w \in Worker : Ask(w) \/ Handler(w) \/ Done(w)

Spec == Init /\ [][Next]_vars
----------------------------------------------------------------------------
(* Types: an open file has a descriptor, never the result of a failed      *)
(* open(), and the rest of the state is what Init and the handlers allow.  *)
TypeOK ==
    /\ DOMAIN link \subseteq Path /\ \A p \in DOMAIN link : link[p] \in Inode
    /\ data \in [Inode -> Data]
    /\ DOMAIN fds \subseteq Fd /\ \A fd \in DOMAIN fds : fds[fd] \in Inode \cup {None}
    /\ DOMAIN fh \subseteq Handle /\ \A h \in DOMAIN fh : fh[h] \in Fd
    /\ dirfd \in [Worker -> Fd \cup {None}]
    /\ request \in [Worker -> Request]
    /\ status \in {"starting", "mounted", "refused", "crashed", "unmounted"}
    /\ others \in 0..MaxOthers

(* The descriptors of the process are those it was given, one for each     *)
(* open file and one for each directory that is being listed, no two the   *)
(* same, whatever order files are opened and closed in and whichever       *)
(* numbers are given out again: none is lost, and none is closed that      *)
(* somebody still reads from.                                              *)
DescriptorsKept ==
    /\ TypeOK
    /\ DOMAIN fds = Inherited \cup {fh[h] : h \in DOMAIN fh}
                    \cup {dirfd[w] : w \in {v \in Worker : dirfd[v] # None}}
    /\ \A g, h \in DOMAIN fh : fh[g] = fh[h] => g = h
    /\ \A v, w \in Worker : dirfd[v] = dirfd[w] /\ dirfd[v] # None => v = w
    /\ \A h \in DOMAIN fh, w \in Worker : fh[h] # dirfd[w]
    /\ \A h \in DOMAIN fh : fh[h] \notin Inherited

(* Every behaviour of the process is one of a mount that only passes       *)
(* requests on: a handle stays with the file it was opened for, though its *)
(* path may stand for another one by now.                                  *)
View == INSTANCE MountView WITH opened <- [h \in DOMAIN fh |-> fds[fh[h]]]
ViewSpec == View!Spec
=============================================================================
