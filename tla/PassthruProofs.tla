---------------------------- MODULE PassthruProofs ----------------------------
(***************************************************************************)
(* Proofs about module Passthru, for any number of workers, files, handles *)
(* and descriptors: the descriptors are kept, and the mount does nothing   *)
(* but pass requests on.                                                   *)
(***************************************************************************)
EXTENDS Passthru, WellFoundedInduction, TLAPS

(* The handle that is being opened is not open yet and in nobody else's    *)
(* request; one that is used is open, and is released by one worker only.  *)
Alone(w) == \A v \in Worker \ {w} : ~Serves(v, request[w].handle)
RequestInv(w) ==
    LET r == request[w] IN
    /\ r.state = "asked" =>
          /\ r.op \in PathOps \cup {"open"} => r.path \in Path
          /\ r.op = "open" => r.handle \in Handle \ DOMAIN fh /\ Alone(w)
          /\ r.op \in {"read", "write", "release"} => r.handle \in DOMAIN fh
          /\ r.op = "release" => Alone(w)
          /\ r.op = "write" => r.value \in Data
    /\ r.state = "none" => r = Blank

(* The descriptor of an open file is one of a file, and none of those the  *)
(* process was given is taken for a directory.                             *)
PassthruInv ==
    /\ DescriptorsKept
    /\ \A w \in Worker : dirfd[w] \notin Inherited
    /\ \A h \in DOMAIN fh : fds[fh[h]] \in Inode
    /\ \A w \in Worker : RequestInv(w)
----------------------------------------------------------------------------
LEMMA BlankType == Blank \in Request
<1>1. {} \in SUBSET Path
  OBVIOUS
<1>2. "statfs" \in PathOps \cup RefusedOps \cup AcceptedOps \cup
          {"getattr", "opendir", "readdir", "open", "read", "write", "release", "statfs"}
  OBVIOUS
<1>. QED
  BY <1>1, <1>2 DEF Blank, Request

LEMMA ToType ==
    ASSUME NEW op \in PathOps \cup RefusedOps \cup AcceptedOps \cup
               {"getattr", "opendir", "readdir", "open", "read", "write", "release", "statfs"},
           NEW p \in Path \cup Dir \cup {None}, NEW h \in Handle \cup {None},
           NEW v \in Data \cup {None}
    PROVE  /\ To(op, p, h, v) \in Request
           /\ To(op, p, h, v).op = op /\ To(op, p, h, v).path = p
           /\ To(op, p, h, v).handle = h /\ To(op, p, h, v).value = v
           /\ To(op, p, h, v).names = {}
<1>1. Blank \in Request /\ Blank.names = {}
  BY BlankType DEF Blank
<1>2. To(op, p, h, v) = [Blank EXCEPT !.op = op, !.path = p, !.handle = h, !.value = v]
  BY DEF To
<1>3. To(op, p, h, v) \in Request
  BY <1>1, <1>2 DEF Request
<1>. QED
  BY <1>1, <1>2, <1>3 DEF Request

LEMMA NoneIsNoFd == None \notin Fd /\ None \notin Inherited
<1>1. Fd \subseteq Nat /\ Inherited \subseteq Nat
  BY MountAssumption DEF Fd
<1>2. None \notin Nat
  BY MountAssumption
<1>. QED
  BY <1>1, <1>2

LEMMA InitInv == Init => PassthruInv
<1> SUFFICES ASSUME Init PROVE PassthruInv
  OBVIOUS
<1>1. DOMAIN link \subseteq Path /\ \A p \in DOMAIN link : link[p] \in Inode
  BY MountAssumption DEF Init
<1>2. DOMAIN fds = Inherited /\ \A fd \in DOMAIN fds : fds[fd] = None
  BY DEF Init
<1>3. DOMAIN fh = {} /\ dirfd = [w \in Worker |-> None] /\ request = [w \in Worker |-> Blank]
  BY DEF Init
<1>4. TypeOK
  BY <1>1, <1>2, <1>3, BlankType, MountAssumption DEF Init, TypeOK, Fd
<1>5. DescriptorsKept
  BY <1>2, <1>3, <1>4 DEF DescriptorsKept
<1>. QED
  BY <1>3, <1>5, NoneIsNoFd DEF PassthruInv, RequestInv, Blank

(* A handler that returns changes nothing of any request but its own.      *)
LEMMA ReturnEffect ==
    ASSUME TypeOK, NEW w \in Worker, NEW a \in {"ok", "error"} \cup Data, Return(w, a)
    PROVE  /\ request' \in [Worker -> Request]
           /\ \A v \in Worker \ {w} : request'[v] = request[v]
           /\ request'[w] = [request[w] EXCEPT !.state = "answered", !.answer = a]
           /\ request'[w].state = "answered" /\ request'[w].handle = request[w].handle
<1>1. request[w] \in Request
  BY DEF TypeOK
<1>2. [request[w] EXCEPT !.state = "answered", !.answer = a] \in Request
  BY <1>1 DEF Request
<1>3. request'[w] = [request[w] EXCEPT !.state = "answered", !.answer = a]
  BY DEF Return, TypeOK
<1>4. request'[w].state = "answered" /\ request'[w].handle = request[w].handle
  BY <1>1, <1>3 DEF Request
<1>. QED
  BY <1>2, <1>3, <1>4 DEF Return, TypeOK

(* The requests of the others are as they were when no handle of theirs is *)
(* opened or closed.                                                       *)
LEMMA ReturnKeepsRequests ==
    ASSUME PassthruInv, NEW w \in Worker, NEW a \in {"ok", "error"} \cup Data, Return(w, a),
           request[w].state = "asked",
           \A v \in Worker \ {w} :
               request[v].handle \in Handle /\ Serves(v, request[v].handle) =>
                   (request[v].handle \in DOMAIN fh' <=> request[v].handle \in DOMAIN fh)
    PROVE  \A v \in Worker : RequestInv(v)'
<1>1. /\ \A v \in Worker \ {w} : request'[v] = request[v]
      /\ request'[w].state = "answered" /\ request'[w].handle = request[w].handle
  BY ReturnEffect DEF PassthruInv, DescriptorsKept
<1>2. RequestInv(w)'
  BY <1>1 DEF RequestInv
<1>3. ASSUME NEW v \in Worker, v # w PROVE RequestInv(v)'
  <2>1. RequestInv(v) /\ request'[v] = request[v] /\ DOMAIN fh \subseteq Handle
    BY <1>1, <1>3 DEF PassthruInv, DescriptorsKept, TypeOK
  <2>2. Alone(v) => Alone(v)'
    BY <1>1, <1>3 DEF Alone, Serves
  <2>. QED
    BY <2>1, <2>2, <1>3 DEF RequestInv, Serves
<1>. QED
  BY <1>2, <1>3

(* What does not touch the descriptors keeps them.                         *)
LEMMA DescriptorsFrame ==
    ASSUME PassthruInv, TypeOK', UNCHANGED <<fds, fh, dirfd>>
    PROVE  /\ DescriptorsKept' /\ \A w \in Worker : dirfd'[w] \notin Inherited
           /\ \A h \in DOMAIN fh' : fds'[fh'[h]] \in Inode
BY DEF PassthruInv, DescriptorsKept
----------------------------------------------------------------------------
(* What a request that the kernel sends may be.                            *)
AskedOf(r) ==
    /\ r \in Request /\ r.names = {}
    /\ r.op \in PathOps \cup {"open"} => r.path \in Path
    /\ r.op = "open" => r.handle \in Handle \ DOMAIN fh /\ NotServed(r.handle)
    /\ r.op \in {"read", "write"} => r.handle \in DOMAIN fh /\ Usable(r.handle)
    /\ r.op = "write" => r.value \in Data
    /\ r.op = "release" => r.handle \in DOMAIN fh /\ NotServed(r.handle)
    /\ r.op \notin {"open", "read", "write", "release"} => r.handle = None

LEMMA AskedFor ==
    ASSUME TypeOK, NEW w \in Worker, Ask(w)
    PROVE  \E r : AskedOf(r) /\ request' = [request EXCEPT ![w] = [r EXCEPT !.state = "asked"]]
<1>1. PICK r \in OnPath \cup OnName \cup OnDir \cup ToOpen \cup ToRead \cup ToWrite
                 \cup ToRelease \cup AnyTime :
         request' = [request EXCEPT ![w] = [r EXCEPT !.state = "asked"]]
  BY DEF Ask
<1>2. AskedOf(r)
  <2> USE DEF AskedOf
  <2>1. CASE r \in OnPath
    <3>1. PICK op \in PathOps, p \in Path : r = To(op, p, None, None)
      BY <2>1 DEF OnPath
    <3>2. /\ r \in Request /\ r.op = op /\ r.path = p /\ r.handle = None
          /\ r.value = None /\ r.names = {}
      BY <3>1, ToType
    <3>3. op \notin {"open", "read", "write", "release"}
      BY DEF PathOps
    <3>. QED
      BY <3>2, <3>3
  <2>2. CASE r \in OnName
    <3>1. PICK p \in Path \cup Dir : r = To("getattr", p, None, None)
      BY <2>2 DEF OnName
    <3>. QED
      BY <3>1, ToType DEF PathOps
  <2>3. CASE r \in OnDir
    <3>1. PICK op \in {"opendir", "readdir"}, d \in Dir : r = To(op, d, None, None)
      BY <2>3 DEF OnDir
    <3>. QED
      BY <3>1, ToType DEF PathOps
  <2>4. CASE r \in ToOpen
    <3>1. PICK p \in Path, h \in Handle :
             r = To("open", p, h, None) /\ h \notin DOMAIN fh /\ NotServed(h)
      BY <2>4 DEF ToOpen
    <3>. QED
      BY <3>1, ToType DEF PathOps
  <2>5. CASE r \in ToRead
    <3>1. PICK h \in Handle : r = To("read", None, h, None) /\ Usable(h)
      BY <2>5 DEF ToRead
    <3>. QED
      BY <3>1, ToType DEF Usable, PathOps
  <2>6. CASE r \in ToWrite
    <3>1. PICK h \in Handle, v \in Data : r = To("write", None, h, v) /\ Usable(h)
      BY <2>6 DEF ToWrite
    <3>. QED
      BY <3>1, ToType DEF Usable, PathOps
  <2>7. CASE r \in ToRelease
    <3>1. PICK h \in DOMAIN fh : r = To("release", None, h, None) /\ NotServed(h)
      BY <2>7 DEF ToRelease
    <3>2. h \in Handle
      BY DEF TypeOK
    <3>. QED
      BY <3>1, <3>2, ToType DEF PathOps
  <2>8. CASE r \in AnyTime
    <3>1. PICK op \in {"rename", "flush", "statfs"} : r = To(op, None, None, None)
      BY <2>8 DEF AnyTime, RefusedOps, AcceptedOps
    <3>. QED
      BY <3>1, ToType DEF PathOps, RefusedOps, AcceptedOps
  <2>. QED
    BY <1>1, <2>1, <2>2, <2>3, <2>4, <2>5, <2>6, <2>7, <2>8
<1>. QED
  BY <1>1, <1>2

LEMMA AskInv == ASSUME PassthruInv, NEW w \in Worker, Ask(w) PROVE PassthruInv'
<1>t. TypeOK
  BY DEF PassthruInv, DescriptorsKept
<1>1. PICK r : AskedOf(r) /\ request' = [request EXCEPT ![w] = [r EXCEPT !.state = "asked"]]
  BY <1>t, AskedFor
<1>2. /\ r \in Request /\ r.names = {}
      /\ r.op \in PathOps \cup {"open"} => r.path \in Path
      /\ r.op = "open" => r.handle \in Handle \ DOMAIN fh /\ NotServed(r.handle)
      /\ r.op \in {"read", "write"} => r.handle \in DOMAIN fh /\ Usable(r.handle)
      /\ r.op = "write" => r.value \in Data
      /\ r.op = "release" => r.handle \in DOMAIN fh /\ NotServed(r.handle)
      /\ r.op \notin {"open", "read", "write", "release"} => r.handle = None
  BY <1>1 DEF AskedOf
<1>3. /\ request' \in [Worker -> Request]
      /\ \A v \in Worker \ {w} : request'[v] = request[v]
      /\ request'[w] = [r EXCEPT !.state = "asked"]
  BY <1>1, <1>2, <1>t DEF Request, TypeOK
<1>4. TypeOK'
  BY <1>3, <1>t DEF Ask, TypeOK, files
<1>5. /\ DescriptorsKept' /\ \A v \in Worker : dirfd'[v] \notin Inherited
      /\ \A h \in DOMAIN fh' : fds'[fh'[h]] \in Inode
  BY <1>4, DescriptorsFrame DEF Ask
<1>6. RequestInv(w)'
  <2>1. NotServed(r.handle) => Alone(w)'
    BY <1>2, <1>3 DEF NotServed, Alone, Serves, Request
  <2>. QED
    BY <2>1, <1>2, <1>3 DEF RequestInv, Request, Ask
<1>7. ASSUME NEW v \in Worker, v # w PROVE RequestInv(v)'
  <2>1. RequestInv(v) /\ request'[v] = request[v] /\ DOMAIN fh \subseteq Handle
    BY <1>3, <1>7, <1>t DEF PassthruInv, TypeOK
  <2>2. ASSUME Alone(v), request[v].state = "asked", request[v].op \in {"open", "release"}
        PROVE  Alone(v)'
    <3>1. request[v].handle \in Handle /\ request[v].handle # None
      BY <2>1, <2>2, MountAssumption DEF RequestInv
    <3>2. r.handle # request[v].handle
      BY <1>2, <2>2, <3>1 DEF NotServed, Usable, Serves
    <3>. QED
      BY <1>3, <2>1, <2>2, <3>2 DEF Alone, Serves, Request
  <2>. QED
    BY <2>1, <2>2 DEF RequestInv, Ask
<1>. QED
  BY <1>5, <1>6, <1>7 DEF PassthruInv

LEMMA DoneInv == ASSUME PassthruInv, NEW w \in Worker, Done(w) PROVE PassthruInv'
<1>t. TypeOK
  BY DEF PassthruInv, DescriptorsKept
<1>1. /\ request' \in [Worker -> Request]
      /\ \A v \in Worker \ {w} : request'[v] = request[v]
      /\ request'[w] = Blank
  BY <1>t, BlankType DEF Done, TypeOK
<1>2. TypeOK'
  BY <1>1, <1>t DEF Done, TypeOK, files
<1>3. /\ DescriptorsKept' /\ \A v \in Worker : dirfd'[v] \notin Inherited
      /\ \A h \in DOMAIN fh' : fds'[fh'[h]] \in Inode
  BY <1>2, DescriptorsFrame DEF Done
<1>4. RequestInv(w)'
  BY <1>1 DEF RequestInv, Blank
<1>5. ASSUME NEW v \in Worker, v # w PROVE RequestInv(v)'
  <2>1. RequestInv(v) /\ request'[v] = request[v]
    BY <1>1, <1>5 DEF PassthruInv
  <2>2. ASSUME Alone(v), request[v].state = "asked", request[v].op \in {"open", "release"}
        PROVE  Alone(v)'
    BY <1>1, <2>1, <2>2 DEF Alone, Serves, Blank
  <2>. QED
    BY <2>1, <2>2 DEF RequestInv, Done
<1>. QED
  BY <1>3, <1>4, <1>5 DEF PassthruInv

(* Handlers that answer and leave descriptors and handles as they are.     *)
LEMMA QuietReturn ==
    ASSUME PassthruInv, NEW w \in Worker, NEW a \in {"ok", "error"} \cup Data, Return(w, a),
           request[w].state = "asked", UNCHANGED <<fds, fh, dirfd, status, others>>,
           DOMAIN link' \subseteq Path, \A p \in DOMAIN link' : link'[p] \in Inode,
           data' \in [Inode -> Data]
    PROVE  PassthruInv'
<1>1. request' \in [Worker -> Request]
  BY ReturnEffect DEF PassthruInv, DescriptorsKept
<1>2. TypeOK'
  BY <1>1 DEF PassthruInv, DescriptorsKept, TypeOK
<1>3. /\ DescriptorsKept' /\ \A v \in Worker : dirfd'[v] \notin Inherited
      /\ \A h \in DOMAIN fh' : fds'[fh'[h]] \in Inode
  BY <1>2, DescriptorsFrame
<1>4. \A v \in Worker : RequestInv(v)'
  BY ReturnKeepsRequests
<1>. QED
  BY <1>3, <1>4 DEF PassthruInv

LEMMA LookInv ==
    ASSUME PassthruInv, NEW w \in Worker,
           \/ Getattr(w) \/ Read(w) \/ Opendir(w) \/ ListFails(w)
           \/ Statfs(w) \/ Accept(w) \/ Refuse(w)
    PROVE  PassthruInv'
<1>t. /\ DOMAIN link \subseteq Path /\ \A p \in DOMAIN link : link[p] \in Inode
      /\ data \in [Inode -> Data]
  BY DEF PassthruInv, DescriptorsKept, TypeOK
<1>1. CASE Read(w)
  <2>1. request[w].handle \in DOMAIN fh
    BY <1>1 DEF PassthruInv, RequestInv, Read, Serving
  <2>2. data[Target(w)] \in Data
    BY <1>t, <2>1 DEF PassthruInv, Target
  <2>. QED
    BY <1>t, <1>1, <2>2, QuietReturn DEF Read, Serving, files
<1>2. CASE Getattr(w) \/ Opendir(w) \/ ListFails(w) \/ Statfs(w) \/ Accept(w) \/ Refuse(w)
  BY <1>t, <1>2, QuietReturn DEF Getattr, Opendir, ListFails, Statfs, Accept, Refuse, Serving, files
<1>. QED
  BY <1>1, <1>2

LEMMA FailInv ==
    ASSUME PassthruInv, NEW w \in Worker, Fail(w), request[w].state = "asked",
           UNCHANGED <<dirfd, status, others>>
    PROVE  PassthruInv'
BY QuietReturn DEF Fail, files, PassthruInv, DescriptorsKept, TypeOK

(* Handlers that change files and no descriptor.                           *)
LEMMA ChangeInv ==
    ASSUME PassthruInv, NEW w \in Worker,
           Mknod(w) \/ Unlink(w) \/ Truncate(w) \/ Write(w)
    PROVE  PassthruInv'
<1>t. /\ DOMAIN link \subseteq Path /\ \A p \in DOMAIN link : link[p] \in Inode
      /\ data \in [Inode -> Data]
      /\ request[w].state = "asked"
  BY DEF PassthruInv, DescriptorsKept, TypeOK, Mknod, Unlink, Truncate, Write, Serving
<1>0. UNCHANGED <<dirfd, status, others>>
  BY DEF Mknod, Unlink, Truncate, Write
<1>1. CASE Fail(w)
  BY <1>t, <1>0, <1>1, FailInv
<1>2. CASE Mknod(w) /\ ~Fail(w)
  <2>1. PICK i \in Unused : /\ link' = Extended(link, request[w].path, i)
                            /\ data' = [data EXCEPT ![i] = Empty]
    BY <1>2 DEF Mknod
  <2>2. i \in Inode /\ request[w].path \in Path
    BY <1>2, <2>1 DEF Unused, PassthruInv, RequestInv, Mknod, Serving, PathOps
  <2>3. /\ DOMAIN link' \subseteq Path /\ \A p \in DOMAIN link' : link'[p] \in Inode
        /\ data' \in [Inode -> Data]
    BY <1>t, <2>1, <2>2, MountAssumption DEF Extended
  <2>. QED
    BY <1>t, <1>0, <1>2, <2>3, QuietReturn DEF Mknod
<1>3. CASE Unlink(w) /\ ~Fail(w)
  <2>1. DOMAIN link' \subseteq Path /\ \A p \in DOMAIN link' : link'[p] \in Inode
    BY <1>t, <1>3 DEF Unlink, Without
  <2>. QED
    BY <1>t, <1>0, <1>3, <2>1, QuietReturn DEF Unlink
<1>4. CASE Truncate(w) /\ ~Fail(w)
  <2>1. data' \in [Inode -> Data]
    BY <1>t, <1>4, MountAssumption DEF Truncate
  <2>. QED
    BY <1>t, <1>0, <1>4, <2>1, QuietReturn DEF Truncate
<1>5. CASE Write(w) /\ ~Fail(w)
  <2>1. request[w].value \in Data
    BY <1>5 DEF PassthruInv, RequestInv, Write, Serving
  <2>2. data' \in [Inode -> Data]
    BY <1>t, <1>5, <2>1 DEF Write
  <2>. QED
    BY <1>t, <1>0, <1>5, <2>2, QuietReturn DEF Write
<1>. QED
  BY <1>1, <1>2, <1>3, <1>4, <1>5
----------------------------------------------------------------------------
(* A descriptor that is given out was not in use.                          *)
LEMMA NextFdIsFree == TypeOK /\ ~NoFd => NextFd \in Fd \ DOMAIN fds
<1> SUFFICES ASSUME TypeOK, ~NoFd PROVE NextFd \in Fd \ DOMAIN fds
  OBVIOUS
<1> DEFINE free == Fd \ DOMAIN fds
<1>1. free \subseteq Nat /\ free # {}
  BY MountAssumption DEF Fd, NoFd
<1> HIDE DEF free
<1>2. PICK m \in free : \A k \in free : <<k, m>> \notin OpToRel(<, Nat)
  BY <1>1, WFMin, NatLessThanWellFounded, Zenon
<1>3. ASSUME NEW k \in free PROVE m <= k
  <2>1. k \in Nat /\ m \in Nat
    BY <1>1
  <2>2. ~(k < m)
    BY <1>2, <2>1, Zenon DEF OpToRel
  <2>. QED
    BY <2>1, <2>2
<1>. QED
  BY <1>2, <1>3 DEF NextFd, free

LEMMA OpenInv == ASSUME PassthruInv, NEW w \in Worker, Open(w) PROVE PassthruInv'
<1>t. /\ TypeOK /\ DescriptorsKept /\ request[w].state = "asked"
      /\ request[w].handle \in Handle \ DOMAIN fh /\ Alone(w)
      /\ UNCHANGED <<dirfd, status, others>>
  BY DEF Open, Serving, PassthruInv, DescriptorsKept, RequestInv
<1>1. CASE Fail(w)
  BY <1>t, <1>1, FailInv
<1>2. CASE ~Fail(w)
  <2> DEFINE fd == NextFd
             file == link[request[w].path]
             h == request[w].handle
  <2>1. fd \in Fd \ DOMAIN fds /\ file \in Inode
    BY <1>t, <1>2, NextFdIsFree DEF Open, TypeOK
  <2>2. /\ fds' = Extended(fds, fd, file) /\ fh' = Extended(fh, h, fd)
        /\ Return(w, "ok") /\ UNCHANGED files
    BY <1>2 DEF Open
  <2> HIDE DEF fd, file
  <2>3. /\ DOMAIN fds' = DOMAIN fds \cup {fd} /\ fds'[fd] = file
        /\ \A g \in DOMAIN fds : fds'[g] = fds[g]
    BY <2>1, <2>2 DEF Extended
  <2>4. /\ DOMAIN fh' = DOMAIN fh \cup {h} /\ fh'[h] = fd
        /\ \A g \in DOMAIN fh : fh'[g] = fh[g]
    BY <1>t, <2>2 DEF Extended
  <2>5. TypeOK'
    <3>1. /\ DOMAIN fds' \subseteq Fd /\ \A g \in DOMAIN fds' : fds'[g] \in Inode \cup {None}
      BY <1>t, <2>1, <2>3 DEF TypeOK
    <3>2. /\ DOMAIN fh' \subseteq Handle /\ \A g \in DOMAIN fh' : fh'[g] \in Fd
      BY <1>t, <2>1, <2>4 DEF TypeOK
    <3>3. request' \in [Worker -> Request]
      BY <1>t, <2>2, ReturnEffect
    <3>. QED
      BY <1>t, <2>2, <3>1, <3>2, <3>3 DEF TypeOK, files
  <2>6. \A g \in DOMAIN fh : fh[g] # fd
    BY <1>t, <2>1 DEF DescriptorsKept
  <2>7. \A v \in Worker : dirfd[v] # fd
    BY <1>t, <2>1, MountAssumption DEF DescriptorsKept, Fd
  <2>8. fd \notin Inherited
    BY <1>t, <2>1 DEF DescriptorsKept
  <2>9. DescriptorsKept'
    <3>1. DOMAIN fds' = Inherited \cup {fh'[g] : g \in DOMAIN fh'}
                         \cup {dirfd'[v] : v \in {u \in Worker : dirfd'[u] # None}}
      BY <1>t, <2>3, <2>4 DEF DescriptorsKept
    <3>. QED
      BY <1>t, <2>4, <2>5, <2>6, <2>7, <2>8, <3>1 DEF DescriptorsKept
  <2>10. \A g \in DOMAIN fh' : fds'[fh'[g]] \in Inode
    BY <2>1, <2>3, <2>4, <1>t DEF PassthruInv, DescriptorsKept
  <2>11. \A v \in Worker : RequestInv(v)'
    BY <1>t, <2>2, <2>4, ReturnKeepsRequests DEF Alone
  <2>. QED
    BY <1>t, <2>9, <2>10, <2>11 DEF PassthruInv
<1>. QED
  BY <1>1, <1>2

LEMMA ReleaseInv == ASSUME PassthruInv, NEW w \in Worker, Release(w) PROVE PassthruInv'
<1> DEFINE h == request[w].handle
           fd == fh[h]
<1>t. /\ TypeOK /\ DescriptorsKept /\ request[w].state = "asked"
      /\ h \in DOMAIN fh /\ Alone(w) /\ UNCHANGED <<files, dirfd, status, others>>
  BY DEF Release, Serving, PassthruInv, DescriptorsKept, RequestInv
<1>1. PICK a \in {"ok", "error"} : Return(w, a)
  BY DEF Release
<1>2. fds' = Without(fds, fd) /\ fh' = Without(fh, h)
  BY DEF Release
<1>3. /\ DOMAIN fh' = DOMAIN fh \ {h} /\ \A g \in DOMAIN fh' : fh'[g] = fh[g]
      /\ DOMAIN fds' = DOMAIN fds \ {fd} /\ \A g \in DOMAIN fds' : fds'[g] = fds[g]
  BY <1>2 DEF Without
<1>4. /\ fd \notin Inherited /\ \A v \in Worker : dirfd[v] # fd
      /\ \A g \in DOMAIN fh \ {h} : fh[g] # fd
  BY <1>t DEF DescriptorsKept
<1> HIDE DEF fd
<1>5. TypeOK'
  BY <1>t, <1>1, <1>3, ReturnEffect DEF TypeOK, files
<1>6. DescriptorsKept'
  <2>1. DOMAIN fds = Inherited \cup {fh[g] : g \in DOMAIN fh}
                     \cup {dirfd[v] : v \in {u \in Worker : dirfd[u] # None}}
    BY <1>t DEF DescriptorsKept
  <2>2. {fh[g] : g \in DOMAIN fh} \ {fd} = {fh'[g] : g \in DOMAIN fh'}
    BY <1>t, <1>3, <1>4 DEF fd
  <2>3. DOMAIN fds' = Inherited \cup {fh'[g] : g \in DOMAIN fh'}
                      \cup {dirfd'[v] : v \in {u \in Worker : dirfd'[u] # None}}
    BY <1>t, <1>3, <1>4, <2>1, <2>2
  <2>. QED
    BY <1>t, <1>3, <1>5, <2>3 DEF DescriptorsKept
<1>7. \A g \in DOMAIN fh' : fds'[fh'[g]] \in Inode
  BY <1>t, <1>3, <1>4 DEF PassthruInv, DescriptorsKept
<1>8. \A v \in Worker : RequestInv(v)'
  BY <1>t, <1>1, <1>3, ReturnKeepsRequests DEF Alone
<1>. QED
  BY <1>t, <1>6, <1>7, <1>8 DEF PassthruInv
----------------------------------------------------------------------------
LEMMA ListFirstInv == ASSUME PassthruInv, NEW w \in Worker, ListFirst(w) PROVE PassthruInv'
<1> DEFINE fd == NextFd
<1>t. TypeOK /\ DescriptorsKept /\ UNCHANGED <<files, fh, request, status, others>>
  BY DEF ListFirst, PassthruInv, DescriptorsKept
<1>1. fd \in Fd \ DOMAIN fds
  BY <1>t, NextFdIsFree DEF ListFirst
<1>2. fds' = Extended(fds, fd, None) /\ dirfd' = [dirfd EXCEPT ![w] = fd] /\ dirfd[w] = None
  BY DEF ListFirst
<1> HIDE DEF fd
<1>3. /\ DOMAIN fds' = DOMAIN fds \cup {fd} /\ fds'[fd] = None
      /\ \A g \in DOMAIN fds : fds'[g] = fds[g]
  BY <1>1, <1>2 DEF Extended
<1>4. /\ dirfd' \in [Worker -> Fd \cup {None}]
      /\ dirfd'[w] = fd /\ \A v \in Worker \ {w} : dirfd'[v] = dirfd[v]
  BY <1>t, <1>1, <1>2 DEF TypeOK
<1>5. TypeOK'
  BY <1>t, <1>1, <1>3, <1>4 DEF TypeOK, files
<1>6. /\ fd # None /\ fd \notin Inherited
      /\ \A h \in DOMAIN fh : fh[h] # fd
      /\ \A v \in Worker : dirfd[v] # fd
  BY <1>t, <1>1, MountAssumption DEF DescriptorsKept, Fd
<1>7. DescriptorsKept'
  <2>1. {dirfd'[v] : v \in {u \in Worker : dirfd'[u] # None}}
           = {fd} \cup {dirfd[v] : v \in {u \in Worker : dirfd[u] # None}}
    BY <1>2, <1>4, <1>6
  <2>2. DOMAIN fds' = Inherited \cup {fh'[h] : h \in DOMAIN fh'}
                      \cup {dirfd'[v] : v \in {u \in Worker : dirfd'[u] # None}}
    BY <1>t, <1>3, <2>1 DEF DescriptorsKept
  <2>. QED
    BY <1>t, <1>4, <1>5, <1>6, <2>2 DEF DescriptorsKept
<1>8. \A h \in DOMAIN fh' : fds'[fh'[h]] \in Inode
  BY <1>t, <1>3 DEF PassthruInv, DescriptorsKept
<1>9. \A v \in Worker : RequestInv(v)'
  BY <1>t DEF PassthruInv, RequestInv, Alone, Serves
<1>. QED
  BY <1>4, <1>6, <1>7, <1>8, <1>9 DEF PassthruInv

LEMMA ListNameInv == ASSUME PassthruInv, NEW w \in Worker, ListName(w) PROVE PassthruInv'
<1>t. TypeOK /\ UNCHANGED <<files, fds, fh, dirfd, status, others>>
  BY DEF ListName, PassthruInv, DescriptorsKept
<1>1. PICK p \in DOMAIN link : request' = [request EXCEPT ![w].names = @ \cup {p}]
  BY DEF ListName
<1>2. [request[w] EXCEPT !.names = @ \cup {p}] \in Request
  BY <1>t DEF TypeOK, Request
<1>3. /\ request' \in [Worker -> Request]
      /\ \A v \in Worker \ {w} : request'[v] = request[v]
      /\ request'[w] = [request[w] EXCEPT !.names = @ \cup {p}]
  BY <1>t, <1>1, <1>2 DEF TypeOK
<1>4. /\ request'[w].state = request[w].state /\ request'[w].op = request[w].op
      /\ request'[w].handle = request[w].handle /\ request'[w].path = request[w].path
      /\ request'[w].value = request[w].value /\ request[w].state = "asked"
  BY <1>t, <1>3 DEF TypeOK, Request, ListName, Serving
<1>5. TypeOK'
  BY <1>t, <1>3 DEF TypeOK, files
<1>6. /\ DescriptorsKept' /\ \A v \in Worker : dirfd'[v] \notin Inherited
      /\ \A h \in DOMAIN fh' : fds'[fh'[h]] \in Inode
  BY <1>t, <1>5, DescriptorsFrame
<1>7. ASSUME NEW v \in Worker PROVE RequestInv(v)'
  <2>1. RequestInv(v) /\ (Alone(v) => Alone(v)')
    <3>1. \A u \in Worker : /\ request'[u].state = request[u].state
                            /\ request'[u].handle = request[u].handle
      BY <1>3, <1>4
    <3>. QED
      BY <3>1 DEF PassthruInv, Alone, Serves
  <2>. QED
    BY <1>t, <1>3, <1>4, <2>1 DEF RequestInv
<1>. QED
  BY <1>6, <1>7 DEF PassthruInv

LEMMA ListLastInv == ASSUME PassthruInv, NEW w \in Worker, ListLast(w) PROVE PassthruInv'
<1> DEFINE fd == dirfd[w]
<1>t. /\ TypeOK /\ DescriptorsKept /\ Return(w, "ok") /\ request[w].state = "asked"
      /\ UNCHANGED <<files, fh, status, others>>
  BY DEF ListLast, Serving, PassthruInv, DescriptorsKept
<1>1. fds' = Without(fds, fd) /\ dirfd' = [dirfd EXCEPT ![w] = None] /\ fd # None
  BY DEF ListLast
<1>2. DOMAIN fds' = DOMAIN fds \ {fd} /\ \A g \in DOMAIN fds' : fds'[g] = fds[g]
  BY <1>1 DEF Without
<1>3. /\ dirfd' \in [Worker -> Fd \cup {None}]
      /\ dirfd'[w] = None /\ \A v \in Worker \ {w} : dirfd'[v] = dirfd[v]
  BY <1>t, <1>1 DEF TypeOK
<1>4. /\ \A h \in DOMAIN fh : fh[h] # fd
      /\ \A v \in Worker \ {w} : dirfd[v] # fd
      /\ fd \notin Inherited
  BY <1>t, <1>1 DEF PassthruInv, DescriptorsKept
<1>5. TypeOK'
  BY <1>t, <1>2, <1>3, ReturnEffect DEF TypeOK, files
<1>6. DescriptorsKept'
  <2>1. {dirfd[v] : v \in {u \in Worker : dirfd[u] # None}} \ {fd}
           = {dirfd'[v] : v \in {u \in Worker : dirfd'[u] # None}}
    BY <1>3, <1>4
  <2>2. DOMAIN fds' = Inherited \cup {fh'[h] : h \in DOMAIN fh'}
                      \cup {dirfd'[v] : v \in {u \in Worker : dirfd'[u] # None}}
    BY <1>t, <1>2, <1>4, <2>1 DEF DescriptorsKept
  <2>. QED
    <3>1. \A h \in DOMAIN fh' : fh'[h] # None
      BY <1>t, NoneIsNoFd DEF TypeOK
    <3>2. \A u, v \in Worker : dirfd'[u] = dirfd'[v] /\ dirfd'[u] # None => u = v
      BY <1>t, <1>3 DEF DescriptorsKept
    <3>3. \A h \in DOMAIN fh', v \in Worker : fh'[h] # dirfd'[v]
      BY <1>t, <1>3, <3>1 DEF DescriptorsKept
    <3>. QED
      BY <1>t, <1>5, <2>2, <3>2, <3>3 DEF DescriptorsKept
<1>7. \A h \in DOMAIN fh' : fds'[fh'[h]] \in Inode
  BY <1>t, <1>2, <1>4 DEF PassthruInv, DescriptorsKept
<1>8. \A v \in Worker : RequestInv(v)'
  BY <1>t, ReturnKeepsRequests
<1>. QED
  BY <1>3, <1>4, <1>6, <1>7, <1>8, NoneIsNoFd DEF PassthruInv

LEMMA OthersInv == PassthruInv /\ Others => PassthruInv'
<1> SUFFICES ASSUME PassthruInv, Others PROVE PassthruInv'
  OBVIOUS
<1>t. TypeOK /\ UNCHANGED <<fds, fh, dirfd, request, status>>
  BY DEF PassthruInv, DescriptorsKept, Others
<1>1. /\ DOMAIN link' \subseteq Path /\ \A p \in DOMAIN link' : link'[p] \in Inode
      /\ data' \in [Inode -> Data]
  <2>1. CASE \E p \in Path, i \in Unused, v \in Data :
                link' = Extended(link, p, i) /\ data' = [data EXCEPT ![i] = v]
    BY <1>t, <2>1 DEF TypeOK, Extended, Unused
  <2>2. CASE \E p \in DOMAIN link : link' = Without(link, p) /\ UNCHANGED data
    BY <1>t, <2>2 DEF TypeOK, Without
  <2>3. CASE \E p \in DOMAIN link, v \in Data :
                data' = [data EXCEPT ![link[p]] = v] /\ UNCHANGED link
    BY <1>t, <2>3 DEF TypeOK
  <2>. QED
    BY <2>1, <2>2, <2>3 DEF Others
<1>2. others' \in 0..MaxOthers
  BY <1>t, MountAssumption DEF Others, TypeOK
<1>3. TypeOK'
  BY <1>t, <1>1, <1>2 DEF TypeOK
<1>4. /\ DescriptorsKept' /\ \A v \in Worker : dirfd'[v] \notin Inherited
      /\ \A h \in DOMAIN fh' : fds'[fh'[h]] \in Inode
  BY <1>t, <1>3, DescriptorsFrame
<1>5. \A w \in Worker : RequestInv(w)'
  BY <1>t DEF PassthruInv, RequestInv, Alone, Serves
<1>. QED
  BY <1>4, <1>5 DEF PassthruInv

(* Mounting, unmounting, and steps of anybody else.                        *)
LEMMA StatusInv ==
    ASSUME PassthruInv, UNCHANGED <<files, fds, fh, dirfd, request, others>>,
           status' \in {"starting", "mounted", "refused", "crashed", "unmounted"}
    PROVE  PassthruInv'
<1>1. TypeOK'
  BY DEF PassthruInv, DescriptorsKept, TypeOK, files
<1>2. /\ DescriptorsKept' /\ \A v \in Worker : dirfd'[v] \notin Inherited
      /\ \A h \in DOMAIN fh' : fds'[fh'[h]] \in Inode
  BY <1>1, DescriptorsFrame
<1>3. \A w \in Worker : RequestInv(w)'
  BY DEF PassthruInv, RequestInv, Alone, Serves
<1>. QED
  BY <1>2, <1>3 DEF PassthruInv

LEMMA StepInv == PassthruInv /\ [Next]_vars => PassthruInv'
<1> SUFFICES ASSUME PassthruInv, [Next]_vars PROVE PassthruInv'
  OBVIOUS
<1>1. CASE Mount \/ Unmount \/ UNCHANGED vars
  BY <1>1, StatusInv DEF Mount, Unmount, vars, PassthruInv, DescriptorsKept, TypeOK
<1>2. CASE Others
  BY <1>2, OthersInv
<1>3. ASSUME NEW w \in Worker, Ask(w) \/ Done(w) PROVE PassthruInv'
  BY <1>3, AskInv, DoneInv
<1>4. ASSUME NEW w \in Worker, Handler(w) PROVE PassthruInv'
  BY <1>4, LookInv, ChangeInv, OpenInv, ReleaseInv, ListFirstInv, ListNameInv, ListLastInv
     DEF Handler
<1>. QED
  BY <1>1, <1>2, <1>3, <1>4 DEF Next

(* In every state, whatever the workers are asked for and in whatever      *)
(* order files are opened and closed: no descriptor is lost, none stands   *)
(* for two, and none that the process was given is taken away.             *)
THEOREM DescriptorsAreKept == Spec => []DescriptorsKept
<1>1. PassthruInv => DescriptorsKept
  BY DEF PassthruInv
<1>. QED
  BY <1>1, InitInv, StepInv, PTL DEF Spec
----------------------------------------------------------------------------
(* The file behind each open handle, as MountView has it.                  *)
opened == [h \in DOMAIN fh |-> fds[fh[h]]]

(* Requests that are refused, and those that only look at names.           *)
LEMMA RefusedView ==
    ASSUME PassthruInv, NEW w \in Worker, request[w].state = "asked", Return(w, "error"),
           UNCHANGED <<files, fds, fh, others>>
    PROVE  View!Refuse(w)
BY DEF View!Refuse, View!Answer, Return, files

LEMMA LookView ==
    ASSUME PassthruInv, NEW w \in Worker,
           \/ Getattr(w) \/ Opendir(w) \/ ListFails(w) \/ Statfs(w) \/ Accept(w) \/ Refuse(w)
    PROVE  View!Look(w) \/ View!Refuse(w)
<1>1. request[w].state = "asked" /\ UNCHANGED <<files, fds, fh, others>>
  BY DEF Getattr, Opendir, ListFails, Statfs, Accept, Refuse, Serving
<1>2. CASE Return(w, "error")
  BY <1>1, <1>2, RefusedView
<1>3. CASE Return(w, "ok") /\ ~Return(w, "error")
  <2>1. request[w].op \in {"getattr", "opendir", "readdir", "statfs", "flush"}
    BY <1>3 DEF Getattr, Opendir, ListFails, Statfs, Accept, Refuse, Serving, AcceptedOps
  <2>2. request[w].op = "getattr" /\ request[w].path \in Path => request[w].path \in DOMAIN link
    BY <1>3, MountAssumption
    DEF Getattr, Opendir, ListFails, Statfs, Accept, Refuse, Serving, AcceptedOps
  <2>. QED
    BY <1>1, <1>3, <2>1, <2>2 DEF View!Look, View!Asked, View!Answer, Return, files
<1>. QED
  BY <1>2, <1>3 DEF Getattr, Opendir, ListFails, Statfs, Accept, Refuse

LEMMA AskView ==
    ASSUME PassthruInv, NEW w \in Worker, Ask(w) \/ Done(w) PROVE View!Ask(w) \/ View!Done(w)
<1>1. request \in [Worker -> Request] /\ UNCHANGED <<files, fds, fh, others>>
  BY DEF PassthruInv, DescriptorsKept, TypeOK, Ask, Done
<1>2. CASE Done(w)
  BY <1>1, <1>2 DEF Done, View!Done, Blank, files
<1>3. CASE Ask(w)
  <2>0. TypeOK
    BY DEF PassthruInv, DescriptorsKept
  <2>1. PICK r : AskedOf(r) /\ request' = [request EXCEPT ![w] = [r EXCEPT !.state = "asked"]]
    BY <1>3, <2>0, AskedFor
  <2>3. r.names = {} /\ r \in Request
    BY <2>1 DEF AskedOf
  <2>2. /\ request'[w].state = "asked" /\ request'[w].names = {}
        /\ \A v \in Worker : v # w => request'[v] = request[v]
    BY <1>1, <2>1, <2>3 DEF Request
  <2>. QED
    BY <1>1, <1>3, <2>2 DEF Ask, View!Ask, files
<1>. QED
  BY <1>2, <1>3

(* Handlers of requests on paths.                                          *)
LEMMA ChangeView ==
    ASSUME PassthruInv, NEW w \in Worker, Mknod(w) \/ Unlink(w) \/ Truncate(w)
    PROVE  \/ View!Refuse(w) \/ View!Remove(w) \/ View!Clear(w)
           \/ \E i \in Inode : View!Make(w, i)
<1>t. request[w].state = "asked" /\ UNCHANGED others
  BY DEF Mknod, Unlink, Truncate, Serving
<1>1. CASE Fail(w)
  BY <1>t, <1>1, RefusedView DEF Fail
<1>2. CASE Mknod(w) /\ ~Fail(w)
  <2>1. PICK i \in Unused : /\ link' = Extended(link, request[w].path, i)
                            /\ data' = [data EXCEPT ![i] = Empty]
    BY <1>2 DEF Mknod
  <2>2. \A h \in DOMAIN fh : fds[fh[h]] # i
    BY <2>1 DEF Unused, PassthruInv, DescriptorsKept
  <2>3. i \in Inode /\ \A p \in DOMAIN link : link[p] # i
    BY <2>1 DEF Unused
  <2>4. View!Make(w, i)
    BY <1>t, <1>2, <2>1, <2>2, <2>3 DEF View!Make, View!Asked, View!Answer, View!Extended,
       Mknod, Serving, Return, Extended
  <2>. QED
    BY <2>3, <2>4
<1>3. CASE Unlink(w) /\ ~Fail(w)
  BY <1>t, <1>3 DEF Unlink, Serving, Return, Without,
     View!Remove, View!Asked, View!Answer, View!Without
<1>4. CASE Truncate(w) /\ ~Fail(w)
  BY <1>t, <1>4 DEF Truncate, Serving, Return, View!Clear, View!Asked, View!Answer
<1>. QED
  BY <1>1, <1>2, <1>3, <1>4

(* A descriptor that is new, or that no open file has, is no matter to the *)
(* open files.                                                             *)
LEMMA OpenFilesFrame ==
    ASSUME PassthruInv, UNCHANGED fh,
           \A h \in DOMAIN fh : fds'[fh[h]] = fds[fh[h]]
    PROVE  UNCHANGED opened
BY DEF opened

LEMMA ListView ==
    ASSUME PassthruInv, NEW w \in Worker, ListFirst(w) \/ ListName(w) \/ ListLast(w)
    PROVE  \/ View!Look(w) \/ \E p \in Path : View!List(w, p)
           \/ UNCHANGED View!vars
<1>t. TypeOK /\ request[w].state = "asked" /\ UNCHANGED <<files, fh, others>>
  BY DEF PassthruInv, DescriptorsKept, ListFirst, ListName, ListLast, Serving
<1>1. CASE ListFirst(w)
  <2>1. NextFd \notin DOMAIN fds
    BY <1>t, <1>1, NextFdIsFree DEF ListFirst
  <2>2. \A h \in DOMAIN fh : fds'[fh[h]] = fds[fh[h]]
    BY <1>1, <2>1 DEF ListFirst, Extended, PassthruInv, DescriptorsKept
  <2>. QED
    BY <1>t, <1>1, <2>2 DEF ListFirst, View!vars, files
<1>2. CASE ListName(w)
  <2>1. PICK p \in DOMAIN link : request' = [request EXCEPT ![w].names = @ \cup {p}]
    BY <1>2 DEF ListName
  <2>2. View!List(w, p)
    BY <1>t, <1>2, <2>1 DEF ListName, Serving, View!List, View!Asked, files
  <2>. QED
    BY <1>t, <2>2 DEF TypeOK
<1>3. CASE ListLast(w)
  <2>1. \A h \in DOMAIN fh : fds'[fh[h]] = fds[fh[h]]
    BY <1>3 DEF ListLast, Without, PassthruInv, DescriptorsKept
  <2>2. View!Look(w)
    BY <1>t, <1>3, <2>1 DEF ListLast, Serving, Return, View!Look, View!Asked, View!Answer, files
  <2>. QED
    BY <2>2
<1>. QED
  BY <1>1, <1>2, <1>3

(* Handlers of requests on handles.                                        *)
LEMMA OpenView ==
    ASSUME PassthruInv, NEW w \in Worker, Open(w) PROVE View!Open(w) \/ View!Refuse(w)
<1> DEFINE h == request[w].handle
           fd == NextFd
           file == link[request[w].path]
<1>t. /\ TypeOK /\ request[w].state = "asked" /\ request[w].op = "open"
      /\ h \notin DOMAIN fh /\ UNCHANGED others
  BY DEF Open, Serving, PassthruInv, DescriptorsKept, RequestInv
<1>1. CASE Fail(w)
  BY <1>t, <1>1, RefusedView DEF Fail
<1>2. CASE ~Fail(w)
  <2>1. /\ fds' = Extended(fds, fd, file) /\ fh' = Extended(fh, h, fd)
        /\ Return(w, "ok") /\ UNCHANGED files /\ request[w].path \in DOMAIN link
    BY <1>2 DEF Open
  <2>2. fd \notin DOMAIN fds
    BY <1>t, <1>2, NextFdIsFree DEF Open
  <2>3. \A g \in DOMAIN fh : fh[g] \in DOMAIN fds
    BY DEF PassthruInv, DescriptorsKept
  <2> HIDE DEF fd, file
  <2>4. /\ DOMAIN fh' = DOMAIN fh \cup {h} /\ fds'[fh'[h]] = file
        /\ \A g \in DOMAIN fh : fds'[fh'[g]] = fds[fh[g]]
    BY <1>t, <2>1, <2>2, <2>3 DEF Extended
  <2>5. opened' = View!Extended(opened, h, file)
    BY <1>t, <2>4 DEF opened, View!Extended
  <2>6. DOMAIN opened = DOMAIN fh
    BY DEF opened
  <2>. QED
    BY <1>t, <2>1, <2>5, <2>6 DEF View!Open, View!Asked, View!Answer, Return, opened, file, files
<1>. QED
  BY <1>1, <1>2

LEMMA HandleView ==
    ASSUME PassthruInv, NEW w \in Worker, Read(w) \/ Write(w) \/ Release(w)
    PROVE  View!Read(w) \/ View!Write(w) \/ View!Close(w) \/ View!Refuse(w)
<1> DEFINE h == request[w].handle
<1>t. /\ request[w].state = "asked" /\ h \in DOMAIN fh /\ UNCHANGED others
      /\ DOMAIN opened = DOMAIN fh /\ opened[h] = Target(w)
  BY DEF Read, Write, Release, Serving, PassthruInv, RequestInv, opened, Target
<1>1. CASE Read(w)
  <2>1. CASE Return(w, "error")
    BY <1>t, <1>1, <2>1, RefusedView DEF Read
  <2>2. CASE Return(w, data[Target(w)])
    BY <1>t, <1>1, <2>2 DEF Read, Serving, Return, View!Read, View!Asked, View!Answer, opened, files
  <2>. QED
    BY <1>1, <2>1, <2>2 DEF Read
<1>2. CASE Write(w)
  <2>1. CASE Fail(w)
    BY <1>t, <1>2, <2>1, RefusedView DEF Fail
  <2>2. CASE ~Fail(w)
    BY <1>t, <1>2, <2>2
    DEF Write, Serving, Return, View!Write, View!Asked, View!Answer, opened
  <2>. QED
    BY <2>1, <2>2
<1>3. CASE Release(w)
  <2>1. /\ fds' = Without(fds, fh[h]) /\ fh' = Without(fh, h) /\ UNCHANGED files
        /\ \E a \in {"ok", "error"} : Return(w, a)
    BY <1>3 DEF Release
  <2>2. \A g \in DOMAIN fh \ {h} : fh[g] # fh[h] /\ fh[g] \in DOMAIN fds
    BY <1>t DEF PassthruInv, DescriptorsKept
  <2>3. opened' = View!Without(opened, h)
    BY <1>t, <2>1, <2>2 DEF opened, Without, View!Without
  <2>. QED
    BY <1>t, <1>3, <2>1, <2>3
    DEF Release, Serving, Return, View!Close, View!Asked, View!Answer, opened, files
<1>. QED
  BY <1>1, <1>2, <1>3

LEMMA ViewStep == PassthruInv /\ [Next]_vars => [View!Next]_(View!vars)
<1> SUFFICES ASSUME PassthruInv, [Next]_vars PROVE View!Next \/ UNCHANGED View!vars
  OBVIOUS
<1>1. CASE Mount \/ Unmount \/ UNCHANGED vars
  BY <1>1 DEF Mount, Unmount, vars, View!vars, files
<1>2. CASE Others
  BY <1>2 DEF Others, View!Others, View!Next
<1>3. ASSUME NEW w \in Worker, Ask(w) \/ Done(w) PROVE View!Next
  BY <1>3, AskView DEF View!Next
<1>4. ASSUME NEW w \in Worker, Handler(w) PROVE View!Next \/ UNCHANGED View!vars
  BY <1>4, LookView, ChangeView, ListView, OpenView, HandleView DEF Handler, View!Next
<1>. QED
  BY <1>1, <1>2, <1>3, <1>4 DEF Next

(* passthrufs only passes requests on: every behaviour of the process is   *)
(* one of MountView, for any number of workers, files and handles, though  *)
(* the numbers of descriptors are used again and paths come to stand for   *)
(* other files.                                                            *)
THEOREM PassesRequestsOn == Spec => ViewSpec
<1>1. Init => View!Init
  <2> SUFFICES ASSUME Init PROVE View!Init
    OBVIOUS
  <2>1. DOMAIN link \subseteq Path /\ \A p \in DOMAIN link : link[p] \in Inode
    BY InitInv DEF PassthruInv, DescriptorsKept, TypeOK
  <2>. QED
    BY <2>1 DEF Init, View!Init, Blank
<1>. QED
  BY <1>1, InitInv, StepInv, ViewStep, PTL DEF Spec, ViewSpec, View!Spec
=============================================================================
