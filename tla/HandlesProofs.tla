---------------------------- MODULE HandlesProofs -----------------------------
(***************************************************************************)
(* Proofs about module Handles, for any number of workers, open files,     *)
(* descriptors and source files: the descriptors of metafs are kept, who   *)
(* reads on from where the last read ended terminates nothing, the names   *)
(* are used as MetaView promises, and requests are passed on as MountView  *)
(* has it.                                                                 *)
(***************************************************************************)
EXTENDS Handles, WellFoundedInduction, TLAPS

(* Only a request that is served is about a handle.  One to open it is the *)
(* only one about it, and so is the one to release it; whoever reads it    *)
(* does so while it is open.                                               *)
Alone(w) == \A v \in Worker \ {w} : ~Serves(v, request[w].handle)
RequestInv(w) ==
    LET r == request[w] IN
    /\ r.state = "asked" =>
          /\ r.op = "open" => r.handle \in Handle \ DOMAIN fh /\ Alone(w)
          /\ r.op \in {"read", "release"} => r.handle \in DOMAIN fh
          /\ r.op = "release" => Alone(w)
          /\ r.op # "flush" => r.path \in Name \cup {Config}
    /\ r.step # "start" => r.path \in DOMAIN bound /\ r.source \in Source
    /\ r.state = "none" => r.handle = None

(* Before the mount there are no open files.  The scanner's descriptors    *)
(* are open, as no files, and none of those that are taken for good.       *)
ScannerInv ==
    /\ \A i \in DOMAIN scanfds : scanfds[i] \in DOMAIN fds /\ fds[scanfds[i]] = None
    /\ \A i \in DOMAIN scanfds : scanfds[i] \notin {1, 2}
    /\ {1, 2} \subseteq DOMAIN fds /\ fds[1] = None /\ fds[2] = None
    /\ zero => \A i \in DOMAIN scanfds : scanfds[i] # 0
    /\ status = "starting" =>
          /\ DOMAIN fh = {} /\ fuse = None /\ ~zero
          /\ \A w \in Worker : request[w].state = "none"
          /\ DOMAIN fds \ {0} = {1, 2} \cup (Range(scanfds) \ {0})
          /\ \A fd \in DOMAIN fds : fds[fd] = None
    /\ status # "starting" =>
          /\ fuse \in Fd \ 0..2 /\ fuse \in DOMAIN fds
          /\ \A i \in DOMAIN scanfds : scanfds[i] # fuse

HandlesInv ==
    /\ DescriptorsKept
    /\ ScannerInv
    /\ \A w \in Worker : RequestInv(w)
----------------------------------------------------------------------------
LEMMA BlankType == Blank \in Request
BY HandlesAssumption DEF Blank, Request, StubOps

LEMMA ToType ==
    ASSUME NEW op \in {"getattr", "open", "read", "release", "unlink", "flush"},
           NEW n \in Name \cup {Config, None}, NEW h \in Handle \cup {None},
           NEW o \in 0..(ConfigLength + 1)
    PROVE  /\ To(op, n, h, o) \in Request
           /\ To(op, n, h, o).op = op /\ To(op, n, h, o).path = n
           /\ To(op, n, h, o).handle = h /\ To(op, n, h, o).step = "start"
BY BlankType DEF To, Blank, Request, StubOps

LEMMA InitInv == Init => HandlesInv
<1> SUFFICES ASSUME Init PROVE HandlesInv
  OBVIOUS
<1> USE HandlesAssumption
<1>1. TypeOK
  <2>1. DOMAIN link \subseteq Source /\ Range(link) \subseteq Inode
    BY DEF Init, Range
  <2>2. /\ DOMAIN bound = {} /\ Range(bound) = {}
        /\ DOMAIN fh = {} /\ Range(fh) = {} /\ DOMAIN named = {} /\ Range(named) = {}
        /\ DOMAIN pos = {} /\ Range(pos) = {}
    BY DEF Init, Range
  <2>3. DOMAIN fds \subseteq Fd /\ Range(fds) \subseteq Inode \cup {None}
    BY DEF Init, Range, Fd
  <2>4. Blank \in Request
    BY BlankType
  <2>5. request \in [Worker -> Request]
    BY <2>4 DEF Init
  <2>6. {seeked, zero} \subseteq BOOLEAN
    BY DEF Init
  <2>8. scanfds \in Seq(Fd) /\ others \in 0..MaxOthers
    BY DEF Init
  <2>7. pending = {} /\ hidden = {} /\ fuse = None /\ status = "starting"
    BY DEF Init
  <2>. QED
    BY <2>1, <2>2, <2>3, <2>5, <2>6, <2>7, <2>8 DEF TypeOK
<1>2. DescriptorsKept
  BY <1>1 DEF Init, DescriptorsKept, Files, Range
<1>3. ScannerInv
  BY DEF Init, ScannerInv, Range, Blank
<1>4. \A w \in Worker : RequestInv(w)
  BY DEF Init, RequestInv, Blank
<1>. QED
  BY <1>2, <1>3, <1>4 DEF HandlesInv

(* What a partial function has when it is given a value.                   *)
LEMMA ExtendedRange ==
    ASSUME NEW f, NEW k, NEW v
    PROVE  /\ DOMAIN Extended(f, k, v) = DOMAIN f \cup {k}
           /\ Range(Extended(f, k, v)) \subseteq Range(f) \cup {v}
BY DEF Extended, Range

(* A handler that returns changes nothing of any request but its own.      *)
LEMMA ReturnEffect ==
    ASSUME TypeOK, NEW w \in Worker, NEW a \in {"ok", "error", None} \cup Data, Return(w, a)
    PROVE  /\ request' \in [Worker -> Request]
           /\ \A v \in Worker \ {w} : request'[v] = request[v]
           /\ request'[w].state = "answered" /\ request'[w].step = "start"
           /\ request'[w].op = request[w].op /\ request'[w].path = request[w].path
           /\ request'[w].handle = request[w].handle
<1>1. 0 \in 0..(ConfigLength + 1)
  BY HandlesAssumption
<1>2. request[w] \in Request
  BY DEF TypeOK
<1>3. [request[w] EXCEPT !.state = "answered", !.answer = a, !.step = "start",
                         !.source = None, !.offset = 0] \in Request
  BY <1>1, <1>2 DEF Request
<1>. QED
  BY <1>2, <1>3 DEF Return, TypeOK, Request

(* A request that is served stays one, so no request becomes the only one  *)
(* about its handle, and none stops being it.                              *)
LEMMA ReturnKeepsRequests ==
    ASSUME HandlesInv, NEW w \in Worker, NEW a \in {"ok", "error", None} \cup Data,
           Return(w, a), request[w].state = "asked",
           DOMAIN bound \subseteq DOMAIN bound',
           \A v \in Worker \ {w} :
               request[v].handle \in Handle /\ Serves(v, request[v].handle) =>
                    (request[v].handle \in DOMAIN fh' <=> request[v].handle \in DOMAIN fh)
    PROVE  \A v \in Worker : RequestInv(v)'
<1>1. /\ \A v \in Worker \ {w} : request'[v] = request[v]
      /\ request'[w].state = "answered" /\ request'[w].step = "start"
      /\ request'[w].handle = request[w].handle
  BY ReturnEffect DEF HandlesInv, DescriptorsKept
<1>2. RequestInv(w)'
  BY <1>1 DEF RequestInv
<1>3. ASSUME NEW v \in Worker, v # w PROVE RequestInv(v)'
  <2>1. RequestInv(v) /\ request'[v] = request[v] /\ DOMAIN fh \subseteq Handle
    BY <1>1, <1>3 DEF HandlesInv, DescriptorsKept, TypeOK
  <2>2. Alone(v) => Alone(v)'
    BY <1>1, <1>3 DEF Alone, Serves
  <2>. QED
    BY <2>1, <2>2, <1>3 DEF RequestInv, Serves
<1>. QED
  BY <1>2, <1>3

(* What does not touch the descriptors keeps them.                         *)
LEMMA DescriptorsFrame ==
    ASSUME HandlesInv, TypeOK', UNCHANGED <<fds, mount, scanfds, fh>>,
           status # "starting", status' # "starting"
    PROVE  DescriptorsKept' /\ ScannerInv'
BY DEF HandlesInv, DescriptorsKept, ScannerInv, Files, mount
----------------------------------------------------------------------------
LEMMA AskInv == ASSUME HandlesInv, NEW w \in Worker, Ask(w) PROVE HandlesInv'
<1> USE HandlesAssumption
<1>1. PICK r \in OnPath \cup AnyTime \cup ToOpen \cup ToRead \cup ToRelease :
         /\ request' = [request EXCEPT ![w] = [r EXCEPT !.state = "asked"]]
         /\ seeked' = (seeked \/ (r.op = "read" /\ r.offset # pos[r.handle]))
  BY DEF Ask
<1>t. TypeOK
  BY DEF HandlesInv, DescriptorsKept
<1>2. /\ r \in Request /\ r.step = "start"
      /\ r.op = "open" => r.handle \in Handle \ DOMAIN fh /\ NotServed(r.handle)
      /\ r.op = "read" => r.handle \in Handle /\ Usable(r.handle)
      /\ r.op = "release" => r.handle \in DOMAIN fh /\ NotServed(r.handle)
      /\ r.op \notin {"open", "read", "release"} => r.handle = None
      /\ r.op # "flush" => r.path \in Name \cup {Config}
  <2>1. CASE r \in OnPath
    <3>1. PICK op \in {"getattr", "unlink"}, n \in Name \cup {Config} : r = To(op, n, None, 0)
      BY <2>1 DEF OnPath
    <3>. QED
      BY <3>1, ToType
  <2>2. CASE r \in AnyTime
    <3>1. r = To("flush", None, None, 0)
      BY <2>2 DEF AnyTime, StubOps
    <3>. QED
      BY <3>1, ToType
  <2>3. CASE r \in ToOpen
    <3>1. PICK n \in Name \cup {Config}, h \in Handle :
             r = To("open", n, h, 0) /\ h \notin DOMAIN fh /\ NotServed(h)
      BY <2>3 DEF ToOpen
    <3>. QED
      BY <3>1, ToType
  <2>4. CASE r \in ToRead
    <3>1. PICK h \in Handle : Usable(h) /\ \E o \in Offsets(h) : r = To("read", named[h], h, o)
      BY <2>4 DEF ToRead
    <3>2. named[h] \in Name \cup {Config} /\ Offsets(h) \subseteq 0..(ConfigLength + 1)
      BY <1>t, <3>1 DEF TypeOK, Usable, Range, Offsets
    <3>. QED
      BY <3>1, <3>2, ToType
  <2>5. CASE r \in ToRelease
    <3>1. PICK h \in DOMAIN fh : NotServed(h) /\ r = To("release", named[h], h, 0)
      BY <2>5 DEF ToRelease
    <3>2. named[h] \in Name \cup {Config} /\ h \in Handle
      BY <1>t DEF TypeOK, Range
    <3>. QED
      BY <3>1, <3>2, ToType
  <2>. QED
    BY <2>1, <2>2, <2>3, <2>4, <2>5
<1>3. /\ request' \in [Worker -> Request]
      /\ \A v \in Worker \ {w} : request'[v] = request[v]
      /\ request'[w] = [r EXCEPT !.state = "asked"]
  <2>1. [r EXCEPT !.state = "asked"] \in Request
    BY <1>2 DEF Request
  <2>. QED
    BY <1>1, <1>t, <2>1 DEF TypeOK
<1>4. TypeOK'
  BY <1>1, <1>3, <1>t DEF Ask, TypeOK, names, mount, handles
<1>5. DescriptorsKept' /\ ScannerInv'
  BY <1>4, DescriptorsFrame DEF Ask, handles
<1>6. RequestInv(w)'
  <2>1. NotServed(r.handle) => Alone(w)'
    BY <1>2, <1>3 DEF NotServed, Alone, Serves, Request
  <2>. QED
    BY <2>1, <1>2, <1>3 DEF RequestInv, Usable, Request, Ask, handles
<1>7. ASSUME NEW v \in Worker, v # w PROVE RequestInv(v)'
  <2>1. RequestInv(v) /\ request'[v] = request[v] /\ DOMAIN fh \subseteq Handle
    BY <1>3, <1>7, <1>t DEF HandlesInv, TypeOK
  <2>2. ASSUME Alone(v), request[v].state = "asked", request[v].op \in {"open", "release"}
        PROVE  Alone(v)'
    <3>1. request[v].handle \in Handle /\ request[v].handle # None
      BY <2>1, <2>2 DEF RequestInv
    <3>2. r.handle # request[v].handle
      BY <1>2, <2>2, <3>1 DEF NotServed, Usable, Serves
    <3>. QED
      BY <1>3, <2>1, <2>2, <3>2 DEF Alone, Serves, Request
  <2>. QED
    BY <2>1, <2>2 DEF RequestInv, Ask, names, handles
<1>. QED
  BY <1>5, <1>6, <1>7 DEF HandlesInv

LEMMA DoneInv == ASSUME HandlesInv, NEW w \in Worker, Done(w) PROVE HandlesInv'
<1>t. TypeOK
  BY DEF HandlesInv, DescriptorsKept
<1>1. /\ request' \in [Worker -> Request]
      /\ \A v \in Worker \ {w} : request'[v] = request[v]
      /\ request'[w] = Blank
  BY <1>t, BlankType DEF Done, TypeOK
<1>2. TypeOK'
  BY <1>1, <1>t DEF Done, TypeOK, names, mount, handles
<1>3. DescriptorsKept' /\ ScannerInv'
  BY <1>2, DescriptorsFrame DEF Done, handles
<1>4. RequestInv(w)'
  BY <1>1 DEF RequestInv, Blank
<1>5. ASSUME NEW v \in Worker, v # w PROVE RequestInv(v)'
  <2>1. RequestInv(v) /\ request'[v] = request[v]
    BY <1>1, <1>5 DEF HandlesInv
  <2>2. ASSUME Alone(v), request[v].state = "asked", request[v].op \in {"open", "release"}
        PROVE  Alone(v)'
    BY <1>1, <2>1, <2>2 DEF Alone, Serves, Blank
  <2>. QED
    BY <2>1, <2>2 DEF RequestInv, Done, names, handles
<1>. QED
  BY <1>3, <1>4, <1>5 DEF HandlesInv

(* Handlers that only look and answer.                                     *)
LEMMA QuietReturn ==
    ASSUME HandlesInv, NEW w \in Worker, NEW a \in {"ok", "error", None} \cup Data, Return(w, a),
           request[w].state = "asked", status = "mounted",
           UNCHANGED <<link, names, mount, scanfds, fds, handles, seeked, status, others>>
    PROVE  HandlesInv'
<1>1. request' \in [Worker -> Request]
  BY ReturnEffect DEF HandlesInv, DescriptorsKept
<1>2. TypeOK'
  BY <1>1 DEF HandlesInv, DescriptorsKept, TypeOK, names, mount, handles
<1>3. DescriptorsKept' /\ ScannerInv'
  BY <1>2, DescriptorsFrame DEF handles
<1>4. \A v \in Worker : RequestInv(v)'
  BY ReturnKeepsRequests DEF names, handles
<1>. QED
  BY <1>3, <1>4 DEF HandlesInv

LEMMA QuietInv ==
    ASSUME HandlesInv, NEW w \in Worker, Miss(w) \/ Getattr(w) \/ ReadSource(w) \/ Stub(w)
    PROVE  HandlesInv'
<1>1. CASE Miss(w)
  BY <1>1, QuietReturn DEF Miss, Looks, Serving
<1>2. CASE Getattr(w)
  BY <1>2, QuietReturn DEF Getattr, Serving
<1>3. CASE ReadSource(w)
  <2>1. CASE Return(w, "error")
    BY <1>3, <2>1, QuietReturn DEF ReadSource, Serving
  <2>2. CASE /\ fh[request[w].handle] # 0
             /\ Return(w, data[fds[fh[request[w].handle]]])
    <3> DEFINE fd == fh[request[w].handle]
    <3>1. request[w].handle \in DOMAIN fh
      BY <1>3 DEF HandlesInv, RequestInv, ReadSource, Serving
    <3>2. fd \in DOMAIN fds \ {0} /\ fds[fd] \in Inode
      BY <2>2, <3>1 DEF HandlesInv, DescriptorsKept, TypeOK, Files, Range
    <3>3. data[fds[fd]] \in Data
      BY <3>2, HandlesAssumption
    <3>. QED
      BY <1>3, <2>2, <3>3, QuietReturn DEF ReadSource, Serving
  <2>. QED
    BY <1>3, <2>1, <2>2 DEF ReadSource
<1>4. CASE Stub(w)
  BY <1>4, QuietReturn DEF Stub, Serving
<1>. QED
  BY <1>1, <1>2, <1>3, <1>4

(* Handlers that answer and change names or files, and no descriptor.      *)
LEMMA ReadConfigInv == ASSUME HandlesInv, NEW w \in Worker, ReadConfig(w) PROVE HandlesInv'
<1>t. TypeOK /\ request[w].state = "asked" /\ status = "mounted"
  BY DEF ReadConfig, Serving, HandlesInv, DescriptorsKept
<1>1. CASE PastEnd(request[w].offset)
  <2>1. TypeOK'
    BY <1>t, <1>1 DEF ReadConfig, TypeOK, names, mount
  <2>2. DescriptorsKept' /\ ScannerInv'
    BY <2>1, <1>t, <1>1, DescriptorsFrame DEF ReadConfig
  <2>3. \A v \in Worker : RequestInv(v)'
    BY <1>1 DEF ReadConfig, HandlesInv, RequestInv, Alone, Serves, names
  <2>. QED
    BY <2>2, <2>3 DEF HandlesInv
<1>2. CASE ~PastEnd(request[w].offset)
  <2>1. Return(w, data[ConfigInode]) /\ data[ConfigInode] \in Data
    BY <1>2, HandlesAssumption DEF ReadConfig
  <2>2. request' \in [Worker -> Request]
    BY <1>t, <2>1, ReturnEffect
  <2>3. DOMAIN pos' = DOMAIN fh /\ Range(pos') \subseteq 0..ConfigLength
    <3>1. request[w].offset \in 0..(ConfigLength + 1)
      BY <1>t DEF TypeOK, Request
    <3>2. pos' = [pos EXCEPT ![request[w].handle] =
                     IF request[w].offset < ConfigLength
                     THEN request[w].offset + 1 ELSE ConfigLength]
      BY <1>2 DEF ReadConfig
    <3>. QED
      BY <1>t, <3>1, <3>2, HandlesAssumption DEF TypeOK, Range
  <2>4. TypeOK'
    BY <1>t, <1>2, <2>2, <2>3 DEF ReadConfig, TypeOK, names, mount
  <2>5. DescriptorsKept' /\ ScannerInv'
    BY <2>4, <1>t, <1>2, DescriptorsFrame DEF ReadConfig
  <2>6. \A v \in Worker : RequestInv(v)'
    BY <1>t, <2>1, ReturnKeepsRequests DEF ReadConfig, names
  <2>. QED
    BY <2>5, <2>6 DEF HandlesInv
<1>. QED
  BY <1>1, <1>2

LEMMA LookUpInv == ASSUME HandlesInv, NEW w \in Worker, LookUp(w) PROVE HandlesInv'
<1>t. TypeOK /\ request[w].state = "asked" /\ status = "mounted" /\ RequestInv(w)
  BY DEF LookUp, Looks, Serving, HandlesInv, DescriptorsKept
<1>1. request[w].path \in DOMAIN bound /\ bound[request[w].path] \in Source
  BY <1>t DEF LookUp, Shown, TypeOK, Range
<1>2. /\ request' \in [Worker -> Request]
      /\ \A v \in Worker \ {w} : request'[v] = request[v]
      /\ request'[w] = [request[w] EXCEPT !.step = "found", !.source = bound[request[w].path]]
  <2> DEFINE r == [request[w] EXCEPT !.step = "found", !.source = bound[request[w].path]]
  <2>1. request[w] \in Request
    BY <1>t DEF TypeOK
  <2>2. r \in Request
    BY <1>1, <2>1 DEF Request
  <2>3. request' = [request EXCEPT ![w] = r]
    BY <1>t, <2>1 DEF LookUp, TypeOK, Request
  <2> HIDE DEF r
  <2>4. /\ request' \in [Worker -> Request] /\ request'[w] = r
        /\ \A v \in Worker \ {w} : request'[v] = request[v]
    BY <1>t, <2>2, <2>3 DEF TypeOK
  <2>. QED
    BY <2>4 DEF r
<1>3. TypeOK'
  BY <1>t, <1>2 DEF LookUp, TypeOK, names, mount, handles
<1>4. DescriptorsKept' /\ ScannerInv'
  BY <1>t, <1>3, DescriptorsFrame DEF LookUp, handles
<1>5. /\ request'[w].state = request[w].state /\ request'[w].op = request[w].op
      /\ request'[w].path = request[w].path /\ request'[w].handle = request[w].handle
      /\ request'[w].source = bound[request[w].path]
  BY <1>t, <1>2 DEF TypeOK, Request
<1>6. ASSUME NEW v \in Worker PROVE RequestInv(v)'
  <2>1. Alone(v) => Alone(v)'
    <3>1. \A u \in Worker : /\ request'[u].state = request[u].state
                            /\ request'[u].handle = request[u].handle
      BY <1>2, <1>5
    <3>. QED
      BY <3>1 DEF Alone, Serves
  <2>2. CASE v = w
    BY <1>t, <1>1, <1>5, <2>1, <2>2 DEF RequestInv, LookUp, names, handles
  <2>3. CASE v # w
    BY <1>2, <2>1, <2>3 DEF HandlesInv, RequestInv, LookUp, names, handles
  <2>. QED
    BY <2>2, <2>3
<1>. QED
  BY <1>4, <1>6 DEF HandlesInv

LEMMA UnlinkSourceInv == ASSUME HandlesInv, NEW w \in Worker, UnlinkSource(w) PROVE HandlesInv'
<1>t. TypeOK /\ request[w].state = "asked" /\ status = "mounted" /\ RequestInv(w)
  BY DEF UnlinkSource, Serving, HandlesInv, DescriptorsKept
<1>1. CASE request[w].source \in DOMAIN link /\ link' = Without(link, request[w].source)
           /\ pending' = pending \cup {request[w].path}
           /\ request' = [request EXCEPT ![w].step = "removed"]
  <2>1. request[w].path \in DOMAIN bound /\ request[w].source \in Source
    BY <1>t DEF RequestInv, UnlinkSource, Serving
  <2>2. /\ request' \in [Worker -> Request]
        /\ \A v \in Worker \ {w} : request'[v] = request[v]
        /\ request'[w] = [request[w] EXCEPT !.step = "removed"]
    <3>1. request[w] \in Request
      BY <1>t DEF TypeOK
    <3>2. [request[w] EXCEPT !.step = "removed"] \in Request
      BY <3>1 DEF Request
    <3>. QED
      BY <1>t, <1>1, <3>2 DEF TypeOK
  <2>3. DOMAIN link' \subseteq Source /\ Range(link') \subseteq Inode
    BY <1>t, <1>1 DEF TypeOK, Range, Without
  <2>4. TypeOK'
    BY <1>t, <1>1, <2>1, <2>2, <2>3 DEF UnlinkSource, TypeOK, mount, handles
  <2>5. DescriptorsKept' /\ ScannerInv'
    BY <1>t, <2>4, DescriptorsFrame DEF UnlinkSource, handles
  <2>6. /\ request'[w].state = request[w].state /\ request'[w].op = request[w].op
        /\ request'[w].path = request[w].path /\ request'[w].handle = request[w].handle
        /\ request'[w].source = request[w].source
    BY <1>t, <2>2 DEF TypeOK, Request
  <2>7. ASSUME NEW v \in Worker PROVE RequestInv(v)'
    <3>1. Alone(v) => Alone(v)'
      <4>1. \A u \in Worker : /\ request'[u].state = request[u].state
                              /\ request'[u].handle = request[u].handle
        BY <2>2, <2>6
      <4>. QED
        BY <4>1 DEF Alone, Serves
    <3>2. CASE v = w
      BY <1>t, <2>1, <2>6, <3>1, <3>2 DEF RequestInv, UnlinkSource, handles
    <3>3. CASE v # w
      BY <2>2, <3>1, <3>3 DEF HandlesInv, RequestInv, UnlinkSource, handles
    <3>. QED
      BY <3>2, <3>3
  <2>. QED
    BY <2>5, <2>7 DEF HandlesInv
<1>2. CASE Return(w, "error") /\ UNCHANGED <<link, pending>>
  BY <1>t, <1>2, QuietReturn DEF UnlinkSource, names
<1>. QED
  BY <1>1, <1>2 DEF UnlinkSource

LEMMA MarkHiddenInv == ASSUME HandlesInv, NEW w \in Worker, MarkHidden(w) PROVE HandlesInv'
<1>t. /\ TypeOK /\ request[w].state = "asked" /\ status = "mounted" /\ Return(w, "ok")
      /\ request[w].path \in DOMAIN bound
  BY DEF MarkHidden, Serving, HandlesInv, DescriptorsKept, RequestInv
<1>1. request' \in [Worker -> Request]
  BY <1>t, ReturnEffect
<1>2. hidden' \subseteq DOMAIN bound /\ pending' \subseteq DOMAIN bound
  BY <1>t DEF MarkHidden, TypeOK
<1>3. TypeOK'
  BY <1>t, <1>1, <1>2 DEF MarkHidden, TypeOK, mount, handles
<1>4. DescriptorsKept' /\ ScannerInv'
  BY <1>t, <1>3, DescriptorsFrame DEF MarkHidden, handles
<1>5. \A v \in Worker : RequestInv(v)'
  BY <1>t, ReturnKeepsRequests DEF MarkHidden, handles
<1>. QED
  BY <1>4, <1>5 DEF HandlesInv

LEMMA ScannerAddsInv == HandlesInv /\ ScannerAdds => HandlesInv'
<1> SUFFICES ASSUME HandlesInv, ScannerAdds PROVE HandlesInv'
  OBVIOUS
<1>t. TypeOK
  BY DEF HandlesInv, DescriptorsKept
<1>1. DOMAIN bound \subseteq DOMAIN bound' /\ DOMAIN bound' \subseteq Name
      /\ Range(bound') \subseteq Source
  <2>1. PICK n \in Name \ DOMAIN bound, s \in Source : bound' = Extended(bound, n, s)
    BY DEF ScannerAdds
  <2>2. DOMAIN bound' = DOMAIN bound \cup {n} /\ Range(bound') \subseteq Range(bound) \cup {s}
    BY <2>1, ExtendedRange
  <2>. QED
    BY <1>t, <2>2 DEF TypeOK
<1>2. others' \in 0..MaxOthers
  BY <1>t, HandlesAssumption DEF ScannerAdds, TypeOK
<1>3. TypeOK'
  BY <1>t, <1>1, <1>2 DEF ScannerAdds, TypeOK, mount, handles
<1>4. DescriptorsKept' /\ ScannerInv'
  BY <1>3 DEF ScannerAdds, HandlesInv, DescriptorsKept, ScannerInv, Files, mount, handles
<1>5. \A w \in Worker : RequestInv(w)'
  BY <1>1 DEF ScannerAdds, HandlesInv, RequestInv, Alone, Serves, handles
<1>. QED
  BY <1>4, <1>5 DEF HandlesInv

LEMMA OthersInv == HandlesInv /\ Others => HandlesInv'
<1> SUFFICES ASSUME HandlesInv, Others PROVE HandlesInv'
  OBVIOUS
<1>t. TypeOK
  BY DEF HandlesInv, DescriptorsKept
<1>1. DOMAIN link' \subseteq Source /\ Range(link') \subseteq Inode
  <2>1. CASE \E s \in Source, i \in Unused : link' = Extended(link, s, i)
    <3>1. PICK s \in Source, i \in Inode : link' = Extended(link, s, i)
      BY <2>1 DEF Unused
    <3>2. DOMAIN link' = DOMAIN link \cup {s} /\ Range(link') \subseteq Range(link) \cup {i}
      BY <3>1, ExtendedRange
    <3>. QED
      BY <1>t, <3>2 DEF TypeOK
  <2>2. CASE \E s \in DOMAIN link : link' = Without(link, s)
    BY <1>t, <2>2 DEF TypeOK, Range, Without
  <2>. QED
    BY <2>1, <2>2 DEF Others
<1>2. others' \in 0..MaxOthers
  BY <1>t, HandlesAssumption DEF Others, TypeOK
<1>3. TypeOK'
  BY <1>t, <1>1, <1>2 DEF Others, TypeOK, names, mount, handles
<1>4. DescriptorsKept' /\ ScannerInv'
  BY <1>3, DescriptorsFrame DEF Others, handles
<1>5. \A w \in Worker : RequestInv(w)'
  BY DEF Others, HandlesInv, RequestInv, Alone, Serves, names, handles
<1>. QED
  BY <1>4, <1>5 DEF HandlesInv
----------------------------------------------------------------------------
(* A descriptor that is given out was not in use.                          *)
LEMMA NextFdIsFree == TypeOK /\ ~NoFd => NextFd \in Fd \ DOMAIN fds
<1> SUFFICES ASSUME TypeOK, ~NoFd PROVE NextFd \in Fd \ DOMAIN fds
  OBVIOUS
<1> DEFINE free == Fd \ DOMAIN fds
<1>1. free \subseteq Nat /\ free # {}
  BY HandlesAssumption DEF Fd, NoFd
<1> HIDE DEF free
<1>2. PICK m \in free : \A k \in free : <<k, m>> \notin OpToRel(<, Nat)
  BY <1>1, WFMin, NatLessThanWellFounded, Zenon
<1>3. ASSUME NEW k \in free PROVE m <= k
  <2>1. k \in Nat /\ m \in Nat
    BY <1>1
  <2>2. ~(k < m)
    BY <1>2, <2>1, Zenon DEF OpToRel
  <2>. QED
    BY <2>1, <2>2
<1>. QED
  BY <1>2, <1>3 DEF NextFd, free

LEMMA Pushed ==
    ASSUME NEW S, NEW s \in Seq(S), NEW x \in S
    PROVE  /\ <<x>> \o s \in Seq(S)
           /\ DOMAIN (<<x>> \o s) = 1..(Len(s) + 1)
           /\ \A i \in 1..(Len(s) + 1) :
                 (<<x>> \o s)[i] = IF i = 1 THEN x ELSE s[i - 1]
           /\ Range(<<x>> \o s) = {x} \cup Range(s)
<1>1. <<x>> \in Seq(S) /\ Len(<<x>>) = 1 /\ Len(s) \in Nat /\ DOMAIN s = 1..Len(s)
  OBVIOUS
<1>2. /\ <<x>> \o s \in Seq(S)
      /\ DOMAIN (<<x>> \o s) = 1..(Len(s) + 1)
  BY <1>1
<1>3. \A i \in 1..(Len(s) + 1) : (<<x>> \o s)[i] = IF i = 1 THEN x ELSE s[i - 1]
  BY <1>1
<1> DEFINE t == <<x>> \o s
<1> HIDE DEF t
<1>4. 1 \in DOMAIN t /\ t[1] = x /\ \A i \in DOMAIN s : i + 1 \in DOMAIN t /\ t[i + 1] = s[i]
  BY <1>1, <1>2, <1>3 DEF t
<1>5. \A i \in DOMAIN t : i = 1 \/ (i - 1 \in DOMAIN s /\ t[i] = s[i - 1])
  BY <1>1, <1>2, <1>3 DEF t
<1>6. Range(t) = {x} \cup Range(s)
  <2>1. \A y \in Range(t) : y = x \/ y \in Range(s)
    BY <1>4, <1>5 DEF Range
  <2>2. \A y \in Range(s) : y \in Range(t)
    BY <1>4 DEF Range
  <2>3. x \in Range(t)
    BY <1>4 DEF Range
  <2>. QED
    BY <2>1, <2>2, <2>3
<1>. QED
  BY <1>2, <1>3, <1>6 DEF t

LEMMA Popped ==
    ASSUME NEW S, NEW s \in Seq(S), s # <<>>
    PROVE  /\ Tail(s) \in Seq(S)
           /\ 1 \in DOMAIN s /\ Head(s) = s[1]
           /\ \A i \in DOMAIN Tail(s) : i \in Nat /\ i + 1 \in DOMAIN s /\ Tail(s)[i] = s[i + 1]
           /\ \A i \in DOMAIN s : i \in Nat /\ (i = 1 \/ i - 1 \in DOMAIN Tail(s))
<1>1. Len(s) \in Nat /\ Len(s) # 0 /\ DOMAIN s = 1..Len(s)
  OBVIOUS
<1>2. Tail(s) \in Seq(S) /\ Len(Tail(s)) = Len(s) - 1 /\ DOMAIN Tail(s) = 1..(Len(s) - 1)
  BY <1>1
<1>3. \A i \in 1..(Len(s) - 1) : Tail(s)[i] = s[i + 1]
  BY <1>1
<1>. QED
  BY <1>1, <1>2, <1>3

(* The scanner's steps touch neither names, handles nor requests.          *)
LEMMA RequestsFrame ==
    HandlesInv /\ UNCHANGED <<names, handles, request>> => \A w \in Worker : RequestInv(w)'
BY DEF HandlesInv, RequestInv, Alone, Serves, names, handles

LEMMA ScannerOpensInv == HandlesInv /\ ScannerOpens => HandlesInv'
<1> SUFFICES ASSUME HandlesInv, ScannerOpens PROVE HandlesInv'
  OBVIOUS
<1> DEFINE fd == NextFd
<1>t. TypeOK /\ DescriptorsKept /\ ScannerInv /\ scanfds \in Seq(Fd) /\ DOMAIN scanfds = 1..Len(scanfds)
      /\ Len(scanfds) \in Nat
  BY DEF HandlesInv, DescriptorsKept, TypeOK
<1>1. fd \in Fd \ DOMAIN fds
  BY <1>t, NextFdIsFree DEF ScannerOpens
<1>2. /\ fds' = Extended(fds, fd, None) /\ scanfds' = <<fd>> \o scanfds
      /\ UNCHANGED <<fh, zero, fuse, status, request>>
  BY DEF ScannerOpens, mount, handles
<1> HIDE DEF fd
<1>3. /\ DOMAIN fds' = DOMAIN fds \cup {fd} /\ fds'[fd] = None
      /\ \A g \in DOMAIN fds : fds'[g] = fds[g]
  BY <1>1, <1>2 DEF Extended
<1>4. /\ scanfds' \in Seq(Fd) /\ Range(scanfds') = {fd} \cup Range(scanfds)
      /\ DOMAIN scanfds' = 1..(Len(scanfds) + 1)
      /\ \A i \in DOMAIN scanfds' : scanfds'[i] = IF i = 1 THEN fd ELSE scanfds[i - 1]
  BY <1>t, <1>1, <1>2, Pushed
<1>5. TypeOK'
  <2>1. DOMAIN fds' \subseteq Fd /\ Range(fds') \subseteq Inode \cup {None}
    BY <1>t, <1>1, <1>3 DEF TypeOK, Range
  <2>. QED
    BY <1>t, <1>4, <2>1 DEF ScannerOpens, TypeOK, names, mount, handles
<1>6. \A i \in DOMAIN scanfds' : scanfds'[i] = fd \/ \E j \in DOMAIN scanfds : scanfds'[i] = scanfds[j]
  BY <1>t, <1>4
<1>7. fd \notin {1, 2} /\ (status # "starting" => fd # fuse) /\ (zero => fd # 0)
      /\ fd \notin Files /\ fd \notin Range(scanfds)
  BY <1>t, <1>1 DEF DescriptorsKept, ScannerInv, Range
<1>8. \A i, j \in DOMAIN scanfds' : scanfds'[i] = scanfds'[j] => i = j
  BY <1>t, <1>4, <1>7 DEF DescriptorsKept, Range
<1>9. Files' = Files
  BY <1>2 DEF Files
<1>10. DescriptorsKept'
  <2>1. \A g \in DOMAIN fds' \ {0} : fds'[g] # None <=> g \in Files'
    BY <1>t, <1>3, <1>7, <1>9 DEF DescriptorsKept
  <2>2. status' # "starting" =>
           {g \in DOMAIN fds' \ {0} : fds'[g] = None} = {1, 2, fuse'} \cup (Range(scanfds') \ {0})
    BY <1>t, <1>2, <1>3, <1>4 DEF DescriptorsKept
  <2>. QED
    BY <1>t, <1>2, <1>3, <1>5, <1>7, <1>8, <1>9, <2>1, <2>2 DEF DescriptorsKept
<1>11. ScannerInv'
  <2>1. \A i \in DOMAIN scanfds' : scanfds'[i] \in DOMAIN fds' /\ fds'[scanfds'[i]] = None
    BY <1>t, <1>3, <1>6 DEF ScannerInv
  <2>2. \A i \in DOMAIN scanfds' : scanfds'[i] \notin {1, 2}
    BY <1>t, <1>6, <1>7 DEF ScannerInv
  <2>3. zero' => \A i \in DOMAIN scanfds' : scanfds'[i] # 0
    BY <1>t, <1>2, <1>6, <1>7 DEF ScannerInv
  <2>4. status' = "starting" =>
          /\ DOMAIN fh' = {} /\ fuse' = None /\ ~zero'
          /\ \A w \in Worker : request'[w].state = "none"
          /\ DOMAIN fds' \ {0} = {1, 2} \cup (Range(scanfds') \ {0})
          /\ \A g \in DOMAIN fds' : fds'[g] = None
    BY <1>t, <1>2, <1>3, <1>4 DEF ScannerInv
  <2>5. status' # "starting" =>
          /\ fuse' \in Fd \ 0..2 /\ fuse' \in DOMAIN fds'
          /\ \A i \in DOMAIN scanfds' : scanfds'[i] # fuse'
    BY <1>t, <1>2, <1>3, <1>6, <1>7 DEF ScannerInv
  <2>. QED
    BY <1>t, <1>3, <2>1, <2>2, <2>3, <2>4, <2>5 DEF ScannerInv
<1>. QED
  BY <1>10, <1>11, RequestsFrame DEF HandlesInv, ScannerOpens

LEMMA ScannerClosesInv == HandlesInv /\ ScannerCloses => HandlesInv'
<1> SUFFICES ASSUME HandlesInv, ScannerCloses PROVE HandlesInv'
  OBVIOUS
<1> DEFINE fd == Head(scanfds)
<1>t. TypeOK /\ DescriptorsKept /\ ScannerInv /\ scanfds \in Seq(Fd)
  BY DEF HandlesInv, DescriptorsKept, TypeOK
<1>2. /\ fds' = Without(fds, fd) /\ scanfds' = Tail(scanfds)
      /\ UNCHANGED <<fh, zero, fuse, status, request>>
  BY DEF ScannerCloses, mount, handles
<1>4. /\ scanfds' \in Seq(Fd) /\ 1 \in DOMAIN scanfds /\ fd = scanfds[1]
      /\ \A i \in DOMAIN scanfds' :
            i \in Nat /\ i + 1 \in DOMAIN scanfds /\ scanfds'[i] = scanfds[i + 1]
      /\ \A i \in DOMAIN scanfds : i \in Nat /\ (i = 1 \/ i - 1 \in DOMAIN scanfds')
  BY <1>t, <1>2, Popped DEF ScannerCloses
<1> HIDE DEF fd
<1>3. /\ DOMAIN fds' = DOMAIN fds \ {fd}
      /\ \A g \in DOMAIN fds' : fds'[g] = fds[g]
  BY <1>2 DEF Without
<1>5. TypeOK'
  <2>1. DOMAIN fds' \subseteq Fd /\ Range(fds') \subseteq Inode \cup {None}
    BY <1>t, <1>3 DEF TypeOK, Range
  <2>. QED
    BY <1>t, <1>4, <2>1 DEF ScannerCloses, TypeOK, names, mount, handles
<1>6. \A i \in DOMAIN scanfds' : \E j \in DOMAIN scanfds : j # 1 /\ scanfds'[i] = scanfds[j]
  BY <1>4
<1>7. /\ fd \notin {1, 2} /\ (status # "starting" => fd # fuse) /\ (zero => fd # 0)
      /\ fd \in DOMAIN fds /\ fds[fd] = None
      /\ \A i \in DOMAIN scanfds' : scanfds'[i] # fd
  <2>1. 1 \in DOMAIN scanfds /\ fd = scanfds[1]
    BY <1>4
  <2>2. /\ fd \notin {1, 2} /\ (status # "starting" => fd # fuse) /\ (zero => fd # 0)
        /\ fd \in DOMAIN fds /\ fds[fd] = None
    BY <1>t, <2>1 DEF ScannerInv
  <2>3. \A i, j \in DOMAIN scanfds : scanfds[i] = scanfds[j] => i = j
    BY <1>t DEF DescriptorsKept
  <2>. QED
    BY <1>4, <1>6, <2>2, <2>3
<1>8. \A i, j \in DOMAIN scanfds' : scanfds'[i] = scanfds'[j] => i = j
  <2>. TAKE i, j \in DOMAIN scanfds'
  <2>. HAVE scanfds'[i] = scanfds'[j]
  <2>1. /\ i \in Nat /\ i + 1 \in DOMAIN scanfds /\ scanfds'[i] = scanfds[i + 1]
        /\ j \in Nat /\ j + 1 \in DOMAIN scanfds /\ scanfds'[j] = scanfds[j + 1]
    BY <1>4
  <2>2. i + 1 = j + 1
    BY <1>t, <2>1 DEF DescriptorsKept
  <2>. QED
    BY <2>1, <2>2
<1>9. Files' = Files /\ Range(scanfds') = Range(scanfds) \ {fd}
  <2>1. \A i \in DOMAIN scanfds : i = 1 \/ scanfds'[i - 1] = scanfds[i]
    BY <1>4
  <2>2. \A y \in Range(scanfds') : y \in Range(scanfds) /\ y # fd
    BY <1>6, <1>7 DEF Range
  <2>3. \A y \in Range(scanfds) : y = fd \/ y \in Range(scanfds')
    <3>1. ASSUME NEW i \in DOMAIN scanfds PROVE scanfds[i] = fd \/ scanfds[i] \in Range(scanfds')
      <4>1. CASE i = 1
        BY <1>4, <4>1
      <4>2. CASE i # 1
        BY <1>4, <2>1, <4>2 DEF Range
      <4>. QED
        BY <4>1, <4>2
    <3>. QED
      BY <3>1 DEF Range
  <2>4. Files' = Files
    BY <1>2 DEF Files
  <2>. QED
    BY <2>2, <2>3, <2>4
<1>10. DescriptorsKept'
  <2>1. \A g \in DOMAIN fds' \ {0} : fds'[g] # None <=> g \in Files'
    BY <1>t, <1>3, <1>9 DEF DescriptorsKept
  <2>2. status' # "starting" =>
           {g \in DOMAIN fds' \ {0} : fds'[g] = None} = {1, 2, fuse'} \cup (Range(scanfds') \ {0})
    BY <1>t, <1>2, <1>3, <1>7, <1>9 DEF DescriptorsKept
  <2>3. Files' \subseteq DOMAIN fds'
    BY <1>t, <1>3, <1>7, <1>9 DEF DescriptorsKept, Files
  <2>. QED
    BY <1>t, <1>2, <1>3, <1>5, <1>7, <1>8, <2>1, <2>2, <2>3 DEF DescriptorsKept
<1>11. ScannerInv'
  <2>1. \A i \in DOMAIN scanfds' : scanfds'[i] \in DOMAIN fds' /\ fds'[scanfds'[i]] = None
    BY <1>t, <1>3, <1>6, <1>7 DEF ScannerInv
  <2>2. /\ \A i \in DOMAIN scanfds' : scanfds'[i] \notin {1, 2}
        /\ zero' => \A i \in DOMAIN scanfds' : scanfds'[i] # 0
    BY <1>t, <1>2, <1>6 DEF ScannerInv
  <2>4. status' = "starting" =>
          /\ DOMAIN fh' = {} /\ fuse' = None /\ ~zero'
          /\ \A w \in Worker : request'[w].state = "none"
          /\ DOMAIN fds' \ {0} = {1, 2} \cup (Range(scanfds') \ {0})
          /\ \A g \in DOMAIN fds' : fds'[g] = None
    BY <1>t, <1>2, <1>3, <1>7, <1>9 DEF ScannerInv
  <2>5. status' # "starting" =>
          /\ fuse' \in Fd \ 0..2 /\ fuse' \in DOMAIN fds'
          /\ \A i \in DOMAIN scanfds' : scanfds'[i] # fuse'
    BY <1>t, <1>2, <1>3, <1>6, <1>7 DEF ScannerInv
  <2>. QED
    BY <1>t, <1>3, <1>7, <2>1, <2>2, <2>4, <2>5 DEF ScannerInv
<1>. QED
  BY <1>10, <1>11, RequestsFrame DEF HandlesInv, ScannerCloses

LEMMA MountInv == HandlesInv /\ Mount => HandlesInv'
<1> SUFFICES ASSUME HandlesInv, Mount PROVE HandlesInv'
  OBVIOUS
<1>t. TypeOK /\ DescriptorsKept /\ ScannerInv /\ status = "starting"
  BY DEF HandlesInv, DescriptorsKept, TypeOK, Mount
<1>1. /\ fuse' \in Fd \ (DOMAIN fds \cup 0..2) /\ zero' = (0 \notin Range(scanfds))
      /\ DOMAIN fds' = DOMAIN fds \cup 0..2 \cup {fuse'}
      /\ \A fd \in DOMAIN fds' : fds'[fd] = None
      /\ status' = "mounted" /\ UNCHANGED <<scanfds, fh, request>>
  BY DEF Mount, handles
<1>2. 0..2 \subseteq Fd /\ 1 \in 0..2 /\ 2 \in 0..2 /\ 0 \in 0..2 /\ 0..2 \ {0} = {1, 2}
  BY HandlesAssumption DEF Fd
<1>3. TypeOK'
  <2>1. DOMAIN fds' \subseteq Fd /\ Range(fds') \subseteq Inode \cup {None}
    BY <1>t, <1>1, <1>2 DEF TypeOK, Range
  <2>2. {seeked', zero'} \subseteq BOOLEAN
    BY <1>t, <1>1 DEF TypeOK, Mount
  <2>. QED
    BY <1>t, <1>1, <2>1, <2>2 DEF Mount, TypeOK, names, handles
<1>4. DOMAIN fh' = {} /\ Files' = {}
  BY <1>t, <1>1 DEF ScannerInv, Files
<1>5. \A i \in DOMAIN scanfds : scanfds[i] \in DOMAIN fds /\ scanfds[i] # fuse'
  BY <1>t, <1>1 DEF ScannerInv
<1>6. zero' => \A i \in DOMAIN scanfds : scanfds[i] # 0
  BY <1>1 DEF Range
<1>7. DescriptorsKept'
  <2>1. {fd \in DOMAIN fds' \ {0} : fds'[fd] = None} = {1, 2, fuse'} \cup (Range(scanfds') \ {0})
    <3>1. DOMAIN fds \ {0} = {1, 2} \cup (Range(scanfds) \ {0})
      BY <1>t DEF ScannerInv
    <3>2. fuse' # 0
      BY <1>1, <1>2
    <3>. QED
      BY <1>1, <1>2, <3>1, <3>2
  <2>. QED
    BY <1>t, <1>1, <1>2, <1>3, <1>4, <2>1 DEF DescriptorsKept
<1>8. ScannerInv'
  BY <1>t, <1>1, <1>2, <1>5, <1>6 DEF ScannerInv
<1>9. \A w \in Worker : RequestInv(w)'
  BY RequestsFrame DEF Mount
<1>. QED
  BY <1>7, <1>8, <1>9 DEF HandlesInv

(* A handle that is opened is one that nobody else is asking about.        *)
LEMMA OpenedRequests ==
    ASSUME HandlesInv, NEW w \in Worker, NEW fd, Opened(w, fd),
           request[w].state = "asked", request[w].op = "open", UNCHANGED bound
    PROVE  \A v \in Worker : RequestInv(v)'
<1>1. Return(w, "ok") /\ DOMAIN fh' = DOMAIN fh \cup {request[w].handle} /\ Alone(w)
  BY DEF Opened, Extended, HandlesInv, RequestInv
<1>2. \A v \in Worker \ {w} : request[v].state = "asked" => request[v].handle # request[w].handle
  BY <1>1 DEF Alone, Serves
<1>3. \A v \in Worker \ {w} : Serves(v, request[v].handle) => request[v].handle # request[w].handle
  BY <1>1 DEF Alone, Serves
<1>. QED
  BY <1>1, <1>3, ReturnKeepsRequests

LEMMA OpenedTypes ==
    ASSUME TypeOK, NEW w \in Worker, NEW fd \in Fd, Opened(w, fd),
           request[w].handle \in Handle, request[w].path \in Name \cup {Config}
    PROVE  /\ DOMAIN fh' \subseteq Handle /\ Range(fh') \subseteq Fd
           /\ DOMAIN named' = DOMAIN fh' /\ Range(named') \subseteq Name \cup {Config}
           /\ DOMAIN pos' = DOMAIN fh' /\ Range(pos') \subseteq 0..ConfigLength
           /\ request' \in [Worker -> Request]
<1>1. request' \in [Worker -> Request]
  BY ReturnEffect DEF Opened
<1>2. DOMAIN fh' \subseteq Handle /\ Range(fh') \subseteq Fd
  BY DEF Opened, Extended, TypeOK, Range
<1>3. DOMAIN named' = DOMAIN fh' /\ Range(named') \subseteq Name \cup {Config}
  BY DEF Opened, Extended, TypeOK, Range
<1>4. 0 \in 0..ConfigLength
  BY HandlesAssumption
<1>5. DOMAIN pos' = DOMAIN fh' /\ Range(pos') \subseteq 0..ConfigLength
  BY <1>4 DEF Opened, Extended, TypeOK, Range
<1>. QED
  BY <1>1, <1>2, <1>3, <1>5

LEMMA OpenConfigInv == ASSUME HandlesInv, NEW w \in Worker, OpenConfig(w) PROVE HandlesInv'
<1>t. /\ TypeOK /\ DescriptorsKept /\ ScannerInv /\ status = "mounted" /\ Opened(w, 0)
      /\ request[w].state = "asked" /\ request[w].op = "open"
      /\ request[w].handle \in Handle \ DOMAIN fh /\ request[w].path \in Name \cup {Config}
  BY DEF OpenConfig, Serving, HandlesInv, DescriptorsKept, RequestInv
<1>1. 0 \in Fd
  BY HandlesAssumption DEF Fd
<1>2. TypeOK'
  BY <1>t, <1>1, OpenedTypes DEF OpenConfig, TypeOK, names, mount
<1>3. Files' = Files /\ UNCHANGED <<fds, zero, fuse, scanfds, status>>
  BY <1>t DEF OpenConfig, Opened, Extended, Files, mount
<1>4. \A g, h \in DOMAIN fh' : fh'[g] = fh'[h] /\ fh'[g] # 0 => g = h
  BY <1>t DEF Opened, Extended, DescriptorsKept
<1>5. DescriptorsKept'
  BY <1>t, <1>2, <1>3, <1>4 DEF DescriptorsKept
<1>6. ScannerInv'
  BY <1>t, <1>3 DEF ScannerInv
<1>7. \A v \in Worker : RequestInv(v)'
  BY <1>t, OpenedRequests DEF OpenConfig, names
<1>. QED
  BY <1>5, <1>6, <1>7 DEF HandlesInv

LEMMA OpenSourceInv == ASSUME HandlesInv, NEW w \in Worker, OpenSource(w) PROVE HandlesInv'
<1>t. /\ TypeOK /\ DescriptorsKept /\ ScannerInv /\ status = "mounted"
      /\ request[w].state = "asked" /\ request[w].op = "open"
      /\ request[w].handle \in Handle \ DOMAIN fh /\ request[w].path \in Name \cup {Config}
  BY DEF OpenSource, Serving, HandlesInv, DescriptorsKept, RequestInv
<1>1. CASE Return(w, "error") /\ UNCHANGED <<fds, handles>>
  BY <1>t, <1>1, QuietReturn DEF OpenSource
<1>2. CASE /\ request[w].source \in DOMAIN link /\ ~NoFd
           /\ fds' = Extended(fds, NextFd, link[request[w].source])
           /\ Opened(w, NextFd)
  <2> DEFINE fd == NextFd
             file == link[request[w].source]
             h == request[w].handle
  <2>1. fd \in Fd \ DOMAIN fds /\ file \in Inode /\ file # None
    BY <1>t, <1>2, NextFdIsFree, HandlesAssumption DEF TypeOK, Range
  <2>2. fds' = Extended(fds, fd, file) /\ Opened(w, fd)
    BY <1>2
  <2> HIDE DEF fd, file
  <2>3. /\ DOMAIN fds' = DOMAIN fds \cup {fd} /\ fds'[fd] = file
        /\ \A g \in DOMAIN fds : fds'[g] = fds[g]
    BY <2>1, <2>2 DEF Extended
  <2>4. /\ DOMAIN fh' = DOMAIN fh \cup {h} /\ fh'[h] = fd /\ h \notin DOMAIN fh
        /\ \A g \in DOMAIN fh : fh'[g] = fh[g]
    BY <1>t, <2>2 DEF Opened, Extended
  <2>5. UNCHANGED <<scanfds, zero, fuse, status>>
    BY DEF OpenSource, mount
  <2>6. TypeOK'
    <3>1. DOMAIN fds' \subseteq Fd /\ Range(fds') \subseteq Inode \cup {None}
      BY <1>t, <2>1, <2>3 DEF TypeOK, Range
    <3>. QED
      BY <1>t, <2>1, <2>2, <3>1, OpenedTypes DEF OpenSource, TypeOK, names, mount
  <2>7. Files' = Files \cup ({fd} \ {0}) /\ fd \notin Files
    BY <1>t, <2>1, <2>4 DEF Files, DescriptorsKept
  <2>8. DescriptorsKept'
    <3>1. \A f, g \in DOMAIN fh' : fh'[f] = fh'[g] /\ fh'[f] # 0 => f = g
      <4>1. \A g \in DOMAIN fh : fh[g] # 0 => fh[g] # fd
        BY <2>7 DEF Files
      <4>. QED
        BY <1>t, <2>4, <4>1 DEF DescriptorsKept
    <3>2. \A g \in DOMAIN fds' \ {0} : fds'[g] # None <=> g \in Files'
      BY <1>t, <2>1, <2>3, <2>7 DEF DescriptorsKept
    <3>3. {g \in DOMAIN fds' \ {0} : fds'[g] = None} = {1, 2, fuse'} \cup (Range(scanfds') \ {0})
      BY <1>t, <2>1, <2>3, <2>5 DEF DescriptorsKept
    <3>4. Files' \subseteq DOMAIN fds'
      BY <1>t, <2>3, <2>7 DEF DescriptorsKept
    <3>. QED
      BY <1>t, <2>3, <2>5, <2>6, <3>1, <3>2, <3>3, <3>4 DEF DescriptorsKept
  <2>9. ScannerInv'
    BY <1>t, <2>3, <2>5 DEF ScannerInv
  <2>10. \A v \in Worker : RequestInv(v)'
    BY <1>t, <1>2, OpenedRequests DEF OpenSource, names
  <2>. QED
    BY <2>8, <2>9, <2>10 DEF HandlesInv
<1>. QED
  BY <1>1, <1>2 DEF OpenSource

LEMMA ReleaseInv == ASSUME HandlesInv, NEW w \in Worker, Release(w) PROVE HandlesInv'
<1> DEFINE h == request[w].handle
           fd == fh[h]
<1>t. /\ TypeOK /\ DescriptorsKept /\ ScannerInv /\ status = "mounted"
      /\ request[w].state = "asked" /\ h \in DOMAIN fh /\ Alone(w)
  BY DEF Release, Serving, HandlesInv, DescriptorsKept, RequestInv
<1>1. PICK a \in {"ok", "error"} : Return(w, a)
  BY DEF Release
<1>2. /\ fds' = IF fd = 0 THEN fds ELSE Without(fds, fd)
      /\ fh' = Without(fh, h) /\ named' = Without(named, h) /\ pos' = Without(pos, h)
      /\ UNCHANGED <<scanfds, zero, fuse, status>>
  BY DEF Release, mount
<1>3. /\ DOMAIN fh' = DOMAIN fh \ {h} /\ \A g \in DOMAIN fh' : fh'[g] = fh[g]
      /\ DOMAIN fds' = DOMAIN fds \ ({fd} \ {0}) /\ \A g \in DOMAIN fds' : fds'[g] = fds[g]
  BY <1>2 DEF Without
<1>4. TypeOK'
  <2>1. request' \in [Worker -> Request]
    BY <1>t, <1>1, ReturnEffect
  <2>2. DOMAIN fds' \subseteq Fd /\ Range(fds') \subseteq Inode \cup {None}
    BY <1>t, <1>3 DEF TypeOK, Range
  <2>3. /\ DOMAIN fh' \subseteq Handle /\ Range(fh') \subseteq Fd
        /\ DOMAIN named' = DOMAIN fh' /\ Range(named') \subseteq Name \cup {Config}
        /\ DOMAIN pos' = DOMAIN fh' /\ Range(pos') \subseteq 0..ConfigLength
    BY <1>t, <1>2 DEF TypeOK, Range, Without
  <2>. QED
    BY <1>t, <2>1, <2>2, <2>3 DEF Release, TypeOK, names, mount
<1>5. Files' = Files \ {fd}
  BY <1>t, <1>3 DEF Files, DescriptorsKept
<1>6. fd # 0 => fd \in Files /\ fd \in DOMAIN fds /\ fds[fd] # None
  BY <1>t DEF Files, DescriptorsKept
<1> HIDE DEF fd, h
<1>7. DescriptorsKept'
  <2>1. \A g \in DOMAIN fds' \ {0} : fds'[g] # None <=> g \in Files'
    BY <1>t, <1>3, <1>5 DEF DescriptorsKept
  <2>2. {g \in DOMAIN fds' \ {0} : fds'[g] = None} = {1, 2, fuse'} \cup (Range(scanfds') \ {0})
    BY <1>t, <1>2, <1>3, <1>6 DEF DescriptorsKept
  <2>3. Files' \subseteq DOMAIN fds'
    BY <1>t, <1>3, <1>5 DEF DescriptorsKept
  <2>4. \A f, g \in DOMAIN fh' : fh'[f] = fh'[g] /\ fh'[f] # 0 => f = g
    BY <1>t, <1>3 DEF DescriptorsKept
  <2>. QED
    BY <1>t, <1>2, <1>3, <1>4, <2>1, <2>2, <2>3, <2>4 DEF DescriptorsKept
<1>8. ScannerInv'
  <2>1. fuse \in {g \in DOMAIN fds \ {0} : fds[g] = None}
    BY <1>t DEF DescriptorsKept
  <2>2. fd = 0 \/ (fd \notin {1, 2, fuse} /\ \A i \in DOMAIN scanfds : fd # scanfds[i])
    BY <1>t, <1>6, <2>1 DEF ScannerInv
  <2>. QED
    BY <1>t, <1>2, <1>3, <2>2 DEF ScannerInv
<1>9. \A v \in Worker : RequestInv(v)'
  <2>1. \A v \in Worker \ {w} : Serves(v, request[v].handle) => request[v].handle # h
    BY <1>t DEF Alone, Serves, h
  <2>. QED
    BY <1>t, <1>1, <1>3, <2>1, ReturnKeepsRequests DEF Release, names
<1>. QED
  BY <1>7, <1>8, <1>9 DEF HandlesInv
----------------------------------------------------------------------------
LEMMA StepInv == HandlesInv /\ [Next]_vars => HandlesInv'
<1> SUFFICES ASSUME HandlesInv, [Next]_vars PROVE HandlesInv'
  OBVIOUS
<1>1. CASE Mount \/ ScannerOpens \/ ScannerCloses \/ ScannerAdds \/ Others
  BY <1>1, MountInv, ScannerOpensInv, ScannerClosesInv, ScannerAddsInv, OthersInv
<1>2. ASSUME NEW w \in Worker, Ask(w) \/ Done(w) PROVE HandlesInv'
  BY <1>2, AskInv, DoneInv
<1>3. ASSUME NEW w \in Worker, Handler(w) PROVE HandlesInv'
  BY <1>3, LookUpInv, QuietInv, OpenConfigInv, OpenSourceInv, ReadConfigInv, ReleaseInv,
     UnlinkSourceInv, MarkHiddenInv DEF Handler
<1>4. CASE UNCHANGED vars
  <2>1. TypeOK'
    BY <1>4 DEF vars, names, mount, handles, HandlesInv, DescriptorsKept, TypeOK
  <2>2. DescriptorsKept' /\ ScannerInv'
    BY <1>4, <2>1 DEF vars, names, mount, handles, HandlesInv, DescriptorsKept, ScannerInv, Files
  <2>. QED
    BY <1>4, <2>2, RequestsFrame DEF vars, HandlesInv
<1>. QED
  BY <1>1, <1>2, <1>3, <1>4 DEF Next

(* In every state that is reached, with any number of workers, open files, *)
(* descriptors and source files: no descriptor is lost, closed for         *)
(* somebody else, or taken for one of two files, but for descriptor 0.     *)
THEOREM DescriptorsAreKept == Spec => []DescriptorsKept
<1>1. HandlesInv => DescriptorsKept
  BY DEF HandlesInv
<1>. QED
  BY <1>1, InitInv, StepInv, PTL DEF Spec
----------------------------------------------------------------------------
(* A source file has at most one name.  An open file that was opened by    *)
(* the name of a file has a descriptor of a file, though it may be 0.  No  *)
(* read is asked for beyond the end of /.config but by a seek.             *)
OffsetsInv ==
    /\ ~seeked => \A w \in Worker : request[w].offset <= ConfigLength
    /\ status = "crashed" => seeked
FilesInv ==
    /\ \A m, n \in DOMAIN bound : bound[m] = bound[n] => m = n
    /\ \A h \in DOMAIN fh :
          named[h] # Config => fh[h] \in DOMAIN fds /\ fds[fh[h]] \in Inode

(* Between its look-up and its end a handler is at the source its path is  *)
(* bound to; a request about an open file carries the name it was opened   *)
(* by.                                                                     *)
ServedInv(w) ==
    LET r == request[w] IN
    /\ r.step # "start" => r.state = "asked" /\ r.source = bound[r.path]
                           /\ r.op \in {"getattr", "open", "unlink"}
    /\ r.step = "removed" => r.op = "unlink" /\ r.path \in pending
    /\ r.state = "asked" /\ r.op \in {"read", "release"} => r.path = named[r.handle]

ViewInv ==
    /\ HandlesInv
    /\ OffsetsInv
    /\ FilesInv
    /\ \A w \in Worker : ServedInv(w)

LEMMA ViewInitInv == Init => ViewInv
<1> SUFFICES ASSUME Init PROVE ViewInv
  OBVIOUS
<1>1. OffsetsInv
  BY HandlesAssumption DEF Init, OffsetsInv, Blank
<1>2. FilesInv
  BY DEF Init, FilesInv
<1>3. \A w \in Worker : ServedInv(w)
  BY DEF Init, ServedInv, Blank
<1>. QED
  BY <1>1, <1>2, <1>3, InitInv DEF ViewInv

(* A request is served by the same names and handles as long as those that *)
(* it is about stay.                                                       *)
LEMMA ServedFrame ==
    ASSUME ViewInv, NEW v \in Worker, request'[v] = request[v],
           \A n \in DOMAIN bound : n \in DOMAIN bound' /\ bound'[n] = bound[n],
           request[v].step = "removed" /\ request[v].path \in pending =>
               request[v].path \in pending',
           request[v].state = "asked" /\ request[v].op \in {"read", "release"} =>
               named'[request[v].handle] = named[request[v].handle]
    PROVE  ServedInv(v)'
<1>1. ServedInv(v) /\ RequestInv(v)
  BY DEF ViewInv, HandlesInv
<1>. QED
  BY <1>1 DEF ServedInv, RequestInv

LEMMA AnsweredServed ==
    ASSUME ViewInv, NEW w \in Worker, NEW a \in {"ok", "error", None} \cup Data, Return(w, a),
           \A n \in DOMAIN bound : n \in DOMAIN bound' /\ bound'[n] = bound[n],
           \A v \in Worker \ {w} : request[v].step = "removed" /\ request[v].path \in pending =>
               request[v].path \in pending',
           \A v \in Worker \ {w} : request[v].state = "asked" /\ request[v].op \in {"read", "release"} =>
               named'[request[v].handle] = named[request[v].handle]
    PROVE  \A v \in Worker : ServedInv(v)'
<1>1. /\ \A v \in Worker \ {w} : request'[v] = request[v]
      /\ request'[w].state = "answered" /\ request'[w].step = "start"
  BY ReturnEffect DEF ViewInv, HandlesInv, DescriptorsKept
<1>2. ServedInv(w)'
  BY <1>1 DEF ServedInv
<1>. QED
  BY <1>1, <1>2, ServedFrame

LEMMA ReturnOffset ==
    ASSUME TypeOK, NEW w \in Worker, NEW a, Return(w, a), OffsetsInv,
           UNCHANGED <<seeked, status>>
    PROVE  OffsetsInv'
<1>1. request'[w].offset = 0 /\ \A v \in Worker \ {w} : request'[v] = request[v]
  BY DEF TypeOK, Return, Request
<1>. QED
  BY <1>1, HandlesAssumption DEF OffsetsInv

LEMMA QuietView ==
    ASSUME ViewInv, NEW w \in Worker, NEW a \in {"ok", "error", None} \cup Data, Return(w, a),
           HandlesInv', UNCHANGED <<bound, pending, named, fh, fds, seeked, status>>
    PROVE  ViewInv'
<1>1. FilesInv'
  BY DEF ViewInv, FilesInv
<1>2. OffsetsInv'
  BY ReturnOffset DEF ViewInv, HandlesInv, DescriptorsKept
<1>3. \A v \in Worker : ServedInv(v)'
  BY AnsweredServed
<1>. QED
  BY <1>1, <1>2, <1>3 DEF ViewInv

LEMMA AskViewInv == ASSUME ViewInv, NEW w \in Worker, Ask(w) \/ Done(w) PROVE ViewInv'
<1>t. TypeOK /\ HandlesInv'
  BY AskInv, DoneInv DEF ViewInv, HandlesInv, DescriptorsKept
<1>1. UNCHANGED <<bound, pending, named, fh, fds, status>>
  BY DEF Ask, Done, names, handles
<1>2. FilesInv'
  BY <1>1 DEF ViewInv, FilesInv
<1>3. /\ \A v \in Worker \ {w} : request'[v] = request[v]
      /\ request'[w].step = "start"
      /\ request'[w].state = "asked" /\ request'[w].op \in {"read", "release"} =>
             request'[w].path = named[request'[w].handle]
      /\ seeked => seeked'
      /\ ~seeked' => request'[w].offset <= ConfigLength
  <2>1. CASE Done(w)
    BY <1>t, <2>1, HandlesAssumption DEF Done, Blank, TypeOK
  <2>2. CASE Ask(w)
    <3>1. PICK r \in OnPath \cup AnyTime \cup ToOpen \cup ToRead \cup ToRelease :
             /\ request' = [request EXCEPT ![w] = [r EXCEPT !.state = "asked"]]
             /\ seeked' = (seeked \/ (r.op = "read" /\ r.offset # pos[r.handle]))
      BY <2>2 DEF Ask
    <3>2. /\ r \in Request /\ r.step = "start"
          /\ r.op \in {"read", "release"} => r.path = named[r.handle]
          /\ r.op = "read" => r.handle \in DOMAIN fh
          /\ r.op # "read" => r.offset = 0
      <4> USE HandlesAssumption
      <4>o. \A op, n, h, o : To(op, n, h, o).offset = o
        BY DEF To, Blank
      <4>1. CASE r \in OnPath
        <5>1. PICK op \in {"getattr", "unlink"}, n \in Name \cup {Config} : r = To(op, n, None, 0)
          BY <4>1 DEF OnPath
        <5>. QED
          BY <4>o, <5>1, ToType
      <4>2. CASE r \in AnyTime
        <5>1. r = To("flush", None, None, 0)
          BY <4>2 DEF AnyTime, StubOps
        <5>. QED
          BY <4>o, <5>1, ToType
      <4>3. CASE r \in ToOpen
        <5>1. PICK n \in Name \cup {Config}, h \in Handle :
                 r = To("open", n, h, 0) /\ h \notin DOMAIN fh /\ NotServed(h)
          BY <4>3 DEF ToOpen
        <5>. QED
          BY <4>o, <5>1, ToType
      <4>4. CASE r \in ToRead
        <5>1. PICK h \in Handle : Usable(h) /\ \E o \in Offsets(h) : r = To("read", named[h], h, o)
          BY <4>4 DEF ToRead
        <5>2. /\ named[h] \in Name \cup {Config} /\ Offsets(h) \subseteq 0..(ConfigLength + 1)
              /\ h \in DOMAIN fh
          BY <1>t, <5>1 DEF TypeOK, Usable, Range, Offsets
        <5>. QED
          BY <4>o, <5>1, <5>2, ToType
      <4>5. CASE r \in ToRelease
        <5>1. PICK h \in DOMAIN fh : NotServed(h) /\ r = To("release", named[h], h, 0)
          BY <4>5 DEF ToRelease
        <5>2. named[h] \in Name \cup {Config} /\ h \in Handle
          BY <1>t DEF TypeOK, Range
        <5>. QED
          BY <4>o, <5>1, <5>2, ToType
      <4>. QED
        BY <4>1, <4>2, <4>3, <4>4, <4>5
    <3>3. r.op = "read" => pos[r.handle] \in 0..ConfigLength
      BY <1>t, <3>2 DEF TypeOK, Range
    <3>4. /\ \A v \in Worker \ {w} : request'[v] = request[v]
          /\ request'[w] = [r EXCEPT !.state = "asked"]
      BY <1>t, <3>1 DEF TypeOK
    <3>5. /\ request'[w].step = "start" /\ request'[w].op = r.op /\ request'[w].path = r.path
          /\ request'[w].handle = r.handle /\ request'[w].offset = r.offset
      BY <3>2, <3>4 DEF Request
    <3>6. ~seeked' => r.offset <= ConfigLength
      <4>1. ~seeked' => r.op # "read" \/ r.offset = pos[r.handle]
        BY <3>1, Zenon
      <4>. QED
        BY <3>2, <3>3, <4>1, HandlesAssumption
    <3>7. seeked => seeked'
      BY <3>1, Zenon
    <3>. QED
      BY <3>2, <3>4, <3>5, <3>6, <3>7
  <2>. QED
    BY <2>1, <2>2
<1>4. OffsetsInv'
  BY <1>1, <1>3 DEF ViewInv, OffsetsInv
<1>5. ServedInv(w)'
  BY <1>1, <1>3 DEF ServedInv
<1>6. \A v \in Worker \ {w} : ServedInv(v)'
  BY <1>1, <1>3, ServedFrame
<1>. QED
  BY <1>t, <1>2, <1>4, <1>5, <1>6 DEF ViewInv

LEMMA AskStep == ASSUME TypeOK, NEW w \in Worker, Ask(w) PROVE request'[w].step = "start"
<1>1. PICK r \in OnPath \cup AnyTime \cup ToOpen \cup ToRead \cup ToRelease :
         request' = [request EXCEPT ![w] = [r EXCEPT !.state = "asked"]]
  BY DEF Ask
<1>2. \E op, n, h, o : r = To(op, n, h, o)
  BY <1>1 DEF OnPath, AnyTime, ToOpen, ToRead, ToRelease
<1>3. r.step = "start"
  BY <1>2 DEF To, Blank
<1>. QED
  BY <1>1, <1>3 DEF TypeOK

LEMMA LookViewInv ==
    ASSUME ViewInv, NEW w \in Worker,
           LookUp(w) \/ Miss(w) \/ Getattr(w) \/ ReadSource(w) \/ Stub(w)
    PROVE  ViewInv'
<1>t. TypeOK /\ HandlesInv /\ HandlesInv'
  BY LookUpInv, QuietInv DEF ViewInv, HandlesInv, DescriptorsKept
<1>1. UNCHANGED <<bound, pending, named, fh, fds, seeked, status>>
  BY DEF LookUp, Miss, Getattr, ReadSource, Stub, names, handles
<1>2. CASE Miss(w) \/ Getattr(w) \/ Stub(w)
  <2>1. PICK a \in {"ok", "error"} : Return(w, a)
    BY <1>2 DEF Miss, Getattr, Stub
  <2>. QED
    BY <1>t, <1>1, <2>1, QuietView
<1>3. CASE ReadSource(w)
  <2>1. request[w].path = named[request[w].handle] /\ request[w].handle \in DOMAIN fh
    BY <1>t, <1>3 DEF ReadSource, Serving, ViewInv, ServedInv, HandlesInv, RequestInv
  <2>2. data[fds[fh[request[w].handle]]] \in Data
    BY <1>3, <2>1, HandlesAssumption DEF ReadSource, ViewInv, FilesInv
  <2>3. PICK a \in {"error"} \cup Data : Return(w, a)
    BY <1>3, <2>2 DEF ReadSource
  <2>. QED
    BY <1>t, <1>1, <2>3, QuietView
<1>4. CASE LookUp(w)
  <2>1. /\ request[w].state = "asked" /\ request[w].op \in {"getattr", "open", "unlink"}
        /\ request' = [request EXCEPT ![w].step = "found", ![w].source = bound[request[w].path]]
    BY <1>4 DEF LookUp, Looks, Serving
  <2>2. /\ \A v \in Worker \ {w} : request'[v] = request[v]
        /\ request'[w].step = "found" /\ request'[w].source = bound[request[w].path]
        /\ request'[w].state = "asked" /\ request'[w].op = request[w].op
        /\ request'[w].path = request[w].path /\ request'[w].offset = request[w].offset
    BY <1>t, <2>1 DEF TypeOK, Request
  <2>3. ServedInv(w)'
    BY <1>1, <2>1, <2>2 DEF ServedInv
  <2>4. \A v \in Worker \ {w} : ServedInv(v)'
    BY <1>1, <2>2, ServedFrame
  <2>5. FilesInv'
    BY <1>1 DEF ViewInv, FilesInv
  <2>6. OffsetsInv'
    BY <1>1, <2>2 DEF ViewInv, OffsetsInv
  <2>. QED
    BY <1>t, <2>3, <2>4, <2>5, <2>6 DEF ViewInv
<1>. QED
  BY <1>2, <1>3, <1>4

LEMMA OpenViewInv ==
    ASSUME ViewInv, NEW w \in Worker, OpenConfig(w) \/ OpenSource(w) PROVE ViewInv'
<1> DEFINE h == request[w].handle
<1>t. /\ TypeOK /\ HandlesInv /\ HandlesInv' /\ request[w].state = "asked"
      /\ h \in Handle \ DOMAIN fh
  BY OpenConfigInv, OpenSourceInv
  DEF ViewInv, HandlesInv, DescriptorsKept, RequestInv, OpenConfig, OpenSource, Serving
<1>1. UNCHANGED <<bound, pending, seeked, status>>
  BY DEF OpenConfig, OpenSource, names
<1>2. CASE Return(w, "error") /\ UNCHANGED <<fds, handles>>
  BY <1>t, <1>1, <1>2, QuietView DEF handles
<1>3. ASSUME NEW fd, Opened(w, fd),
             \A g \in DOMAIN fds : g \in DOMAIN fds' /\ fds'[g] = fds[g],
             request[w].path # Config => fd \in DOMAIN fds' /\ fds'[fd] \in Inode
      PROVE  ViewInv'
  <2>1. /\ Return(w, "ok")
        /\ DOMAIN fh' = DOMAIN fh \cup {h} /\ fh'[h] = fd /\ named'[h] = request[w].path
        /\ \A g \in DOMAIN fh : fh'[g] = fh[g] /\ named'[g] = named[g]
    BY <1>t, <1>3 DEF Opened, Extended, TypeOK
  <2>2. FilesInv'
    BY <1>1, <1>3, <2>1 DEF ViewInv, FilesInv
  <2>3. OffsetsInv'
    BY <1>t, <1>1, <2>1, ReturnOffset DEF ViewInv
  <2>4. \A v \in Worker : request[v].state = "asked" /\ request[v].op \in {"read", "release"} =>
               named'[request[v].handle] = named[request[v].handle]
    BY <2>1, <1>t DEF HandlesInv, RequestInv
  <2>5. \A v \in Worker : ServedInv(v)'
    BY <1>1, <2>1, <2>4, AnsweredServed
  <2>. QED
    BY <1>t, <2>2, <2>3, <2>5 DEF ViewInv
<1>4. CASE OpenConfig(w)
  BY <1>3, <1>4 DEF OpenConfig, Serving
<1>5. CASE OpenSource(w) /\ Opened(w, NextFd)
           /\ ~NoFd /\ request[w].source \in DOMAIN link
           /\ fds' = Extended(fds, NextFd, link[request[w].source])
  <2>1. NextFd \in Fd \ DOMAIN fds /\ link[request[w].source] \in Inode
    BY <1>t, <1>5, NextFdIsFree DEF TypeOK, Range
  <2>2. /\ \A g \in DOMAIN fds : g \in DOMAIN fds' /\ fds'[g] = fds[g]
        /\ NextFd \in DOMAIN fds' /\ fds'[NextFd] \in Inode
    BY <1>5, <2>1 DEF Extended
  <2>. QED
    BY <1>3, <1>5, <2>2
<1>. QED
  BY <1>2, <1>4, <1>5 DEF OpenSource

LEMMA ReadConfigViewInv == ASSUME ViewInv, NEW w \in Worker, ReadConfig(w) PROVE ViewInv'
<1>t. TypeOK /\ HandlesInv /\ HandlesInv'
  BY ReadConfigInv DEF ViewInv, HandlesInv, DescriptorsKept
<1>1. UNCHANGED <<bound, pending, named, fh, fds, seeked>>
  BY DEF ReadConfig, names
<1>2. CASE PastEnd(request[w].offset)
  <2>1. UNCHANGED request
    BY <1>2 DEF ReadConfig
  <2>2. request[w].offset \in Nat /\ ConfigLength \in Nat
    BY <1>t, HandlesAssumption DEF TypeOK, Request
  <2>3. OffsetsInv'
    BY <1>1, <1>2, <2>1, <2>2 DEF ViewInv, OffsetsInv, PastEnd
  <2>4. FilesInv'
    BY <1>1 DEF ViewInv, FilesInv
  <2>5. \A v \in Worker : ServedInv(v)'
    BY <1>1, <2>1, ServedFrame
  <2>. QED
    BY <1>t, <2>3, <2>4, <2>5 DEF ViewInv
<1>3. CASE ~PastEnd(request[w].offset)
  <2>1. Return(w, data[ConfigInode]) /\ data[ConfigInode] \in Data /\ UNCHANGED status
    BY <1>3, HandlesAssumption DEF ReadConfig
  <2>. QED
    BY <1>t, <1>1, <2>1, QuietView
<1>. QED
  BY <1>2, <1>3

LEMMA ReleaseViewInv == ASSUME ViewInv, NEW w \in Worker, Release(w) PROVE ViewInv'
<1> DEFINE h == request[w].handle
<1>t. /\ TypeOK /\ HandlesInv /\ HandlesInv' /\ request[w].state = "asked"
      /\ h \in DOMAIN fh /\ Alone(w)
  BY ReleaseInv DEF Release, Serving, ViewInv, HandlesInv, DescriptorsKept, RequestInv
<1>1. PICK a \in {"ok", "error"} : Return(w, a)
  BY DEF Release
<1>2. /\ fds' = IF fh[h] = 0 THEN fds ELSE Without(fds, fh[h])
      /\ fh' = Without(fh, h) /\ named' = Without(named, h)
      /\ UNCHANGED <<bound, pending, seeked, status>>
  BY DEF Release, names
<1>3. /\ DOMAIN fh' = DOMAIN fh \ {h}
      /\ \A g \in DOMAIN fh' : fh'[g] = fh[g] /\ named'[g] = named[g]
  BY <1>t, <1>2 DEF Without, TypeOK
<1>4. \A g \in DOMAIN fh' : fh[g] \in DOMAIN fds =>
         fh[g] \in DOMAIN fds' /\ fds'[fh[g]] = fds[fh[g]]
  BY <1>t, <1>2, <1>3 DEF Without, HandlesInv, DescriptorsKept
<1>5. FilesInv'
  BY <1>2, <1>3, <1>4 DEF ViewInv, FilesInv
<1>6. OffsetsInv'
  BY <1>t, <1>1, <1>2, ReturnOffset DEF ViewInv
<1>7. ASSUME NEW v \in Worker \ {w}, request[v].state = "asked",
             request[v].op \in {"read", "release"}
      PROVE  named'[request[v].handle] = named[request[v].handle]
  <2>1. request[v].handle \in DOMAIN fh /\ request[v].handle # h
    BY <1>t, <1>7 DEF HandlesInv, RequestInv, Alone, Serves
  <2>. QED
    BY <1>3, <2>1
<1>8. \A v \in Worker : ServedInv(v)'
  BY <1>1, <1>2, <1>7, AnsweredServed
<1>. QED
  BY <1>t, <1>5, <1>6, <1>8 DEF ViewInv

LEMMA UnlinkViewInv ==
    ASSUME ViewInv, NEW w \in Worker, UnlinkSource(w) \/ MarkHidden(w) PROVE ViewInv'
<1>t. TypeOK /\ HandlesInv /\ HandlesInv' /\ request[w].state = "asked"
  BY UnlinkSourceInv, MarkHiddenInv
  DEF ViewInv, HandlesInv, DescriptorsKept, UnlinkSource, MarkHidden, Serving
<1>1. UNCHANGED <<bound, named, fh, fds, seeked, status>>
  BY DEF UnlinkSource, MarkHidden, handles
<1>2. FilesInv'
  BY <1>1 DEF ViewInv, FilesInv
<1>3. CASE UnlinkSource(w) /\ ~Return(w, "error")
  <2>1. /\ pending' = pending \cup {request[w].path} /\ request[w].op = "unlink"
        /\ request[w].step = "found"
        /\ request' = [request EXCEPT ![w].step = "removed"]
    BY <1>3 DEF UnlinkSource, Serving
  <2>2. /\ \A v \in Worker \ {w} : request'[v] = request[v]
        /\ request'[w].step = "removed" /\ request'[w].source = request[w].source
        /\ request'[w].state = "asked" /\ request'[w].op = "unlink"
        /\ request'[w].path = request[w].path /\ request'[w].offset = request[w].offset
    BY <1>t, <2>1 DEF TypeOK, Request
  <2>3. ServedInv(w)'
    BY <1>1, <2>1, <2>2 DEF ViewInv, ServedInv
  <2>4. \A v \in Worker \ {w} : ServedInv(v)'
    BY <1>1, <2>1, <2>2, ServedFrame
  <2>5. OffsetsInv'
    BY <1>1, <2>2 DEF ViewInv, OffsetsInv
  <2>. QED
    BY <1>t, <1>2, <2>3, <2>4, <2>5 DEF ViewInv
<1>4. CASE UnlinkSource(w) /\ Return(w, "error")
  <2>1. UNCHANGED pending
    <3>1. request'[w].state = "answered"
      BY <1>t, <1>4, ReturnEffect
    <3>2. ~(request' = [request EXCEPT ![w].step = "removed"])
      BY <1>t, <3>1 DEF TypeOK, Request
    <3>. QED
      BY <1>4, <3>2 DEF UnlinkSource
  <2>. QED
    BY <1>t, <1>1, <1>4, <2>1, QuietView
<1>5. CASE MarkHidden(w)
  <2>1. /\ Return(w, "ok") /\ status = "mounted"
        /\ pending' = IF \E v \in Worker \ {w} : Serving(v, "unlink", "removed")
                                                  /\ request[v].path = request[w].path
                      THEN pending ELSE pending \ {request[w].path}
    BY <1>5 DEF MarkHidden, Serving
  <2>2. \A v \in Worker \ {w} : request[v].step = "removed" /\ request[v].path \in pending =>
               request[v].path \in pending'
    BY <2>1 DEF Serving, ViewInv, ServedInv
  <2>3. \A v \in Worker : ServedInv(v)'
    BY <1>1, <2>1, <2>2, AnsweredServed
  <2>4. OffsetsInv'
    BY <1>t, <1>1, <2>1, ReturnOffset DEF ViewInv
  <2>. QED
    BY <1>t, <1>2, <2>3, <2>4 DEF ViewInv
<1>. QED
  BY <1>3, <1>4, <1>5

LEMMA OthersViewInv ==
    ASSUME ViewInv,
           Mount \/ ScannerOpens \/ ScannerCloses \/ ScannerAdds \/ Others \/ UNCHANGED vars
    PROVE  ViewInv'
<1>t. TypeOK /\ HandlesInv /\ HandlesInv' /\ ScannerInv
  BY StepInv DEF Next, ViewInv, HandlesInv, DescriptorsKept
<1>1. UNCHANGED <<request, seeked, fh, named, pending>>
  BY DEF Mount, ScannerOpens, ScannerCloses, ScannerAdds, Others, vars, names, handles
<1>2. status' # status => status' = "mounted"
  BY DEF Mount, ScannerOpens, ScannerCloses, ScannerAdds, Others, vars
<1>3. OffsetsInv'
  BY <1>1, <1>2 DEF ViewInv, OffsetsInv
<1>4. \A n \in DOMAIN bound : n \in DOMAIN bound' /\ bound'[n] = bound[n]
  BY DEF Mount, ScannerOpens, ScannerCloses, ScannerAdds, Others, vars, names, Extended
<1>5. \A w \in Worker : ServedInv(w)'
  BY <1>1, <1>4, ServedFrame
<1>6. \A m, n \in DOMAIN bound' : bound'[m] = bound'[n] => m = n
  <2>1. CASE ScannerAdds
    <3>1. PICK n \in Name, s \in Source :
             /\ n \notin DOMAIN bound /\ \A m \in DOMAIN bound : bound[m] # s
             /\ bound' = Extended(bound, n, s)
      BY <2>1 DEF ScannerAdds
    <3>. QED
      BY <3>1 DEF ViewInv, FilesInv, Extended
  <2>2. CASE UNCHANGED bound
    BY <2>2 DEF ViewInv, FilesInv
  <2>. QED
    BY <2>1, <2>2 DEF Mount, ScannerOpens, ScannerCloses, Others, vars, names
<1>7. \A h \in DOMAIN fh :
          named[h] # Config => fh[h] \in DOMAIN fds' /\ fds'[fh[h]] \in Inode
  <2>1. CASE Mount
    BY <1>t, <2>1 DEF Mount, ScannerInv
  <2>2. CASE ScannerOpens
    <3>1. NextFd \notin DOMAIN fds /\ fds' = Extended(fds, NextFd, None)
      BY <1>t, <2>2, NextFdIsFree DEF ScannerOpens
    <3>. QED
      BY <3>1 DEF ViewInv, FilesInv, Extended
  <2>3. CASE ScannerCloses
    <3>1. scanfds # <<>> /\ fds' = Without(fds, Head(scanfds)) /\ 1 \in DOMAIN scanfds
          /\ Head(scanfds) = scanfds[1]
      BY <1>t, <2>3 DEF ScannerCloses, TypeOK
    <3>2. fds[Head(scanfds)] = None /\ None \notin Inode
      BY <1>t, <3>1, HandlesAssumption DEF ScannerInv
    <3>. QED
      BY <3>1, <3>2 DEF ViewInv, FilesInv, Without
  <2>4. CASE UNCHANGED fds
    BY <2>4 DEF ViewInv, FilesInv
  <2>. QED
    BY <2>1, <2>2, <2>3, <2>4 DEF ScannerAdds, Others, vars
<1>8. FilesInv'
  BY <1>1, <1>6, <1>7 DEF FilesInv
<1>. QED
  BY <1>t, <1>3, <1>5, <1>8 DEF ViewInv

LEMMA ViewStepInv == ViewInv /\ [Next]_vars => ViewInv'
<1> SUFFICES ASSUME ViewInv, [Next]_vars PROVE ViewInv'
  OBVIOUS
<1>1. ASSUME NEW w \in Worker, Handler(w) PROVE ViewInv'
  BY <1>1, LookViewInv, OpenViewInv, ReadConfigViewInv, ReleaseViewInv, UnlinkViewInv DEF Handler
<1>. QED
  BY <1>1, AskViewInv, OthersViewInv DEF Next

(* However many workers, readers and open files there are, and whatever is *)
(* opened and released in between: as long as each read of an open file    *)
(* begins where the last one of it ended, ReadConfig terminates nothing.   *)
THEOREM ReadersDoSurvive == Spec => []ReadersSurvive
<1>1. ViewInv => ReadersSurvive
  BY DEF ViewInv, OffsetsInv, ReadersSurvive
<1>. QED
  BY <1>1, ViewInitInv, ViewStepInv, PTL DEF Spec
----------------------------------------------------------------------------
(* Steps that leave the names and the source files alone.                  *)
LEMMA NamesFrame ==
    UNCHANGED <<bound, hidden, pending, link>> => UNCHANGED Names!vars
BY DEF Names!vars

LEMMA UnlinkNames ==
    ASSUME ViewInv, NEW w \in Worker, UnlinkSource(w) \/ MarkHidden(w)
    PROVE  Names!Next \/ UNCHANGED Names!vars
<1> DEFINE n == request[w].path
<1>t. /\ request[w].step # "start" => n \in DOMAIN bound /\ request[w].source = bound[n]
      /\ request[w].step = "removed" => n \in pending
  BY DEF ViewInv, HandlesInv, RequestInv, ServedInv
<1>1. CASE UnlinkSource(w) /\ UNCHANGED <<link, pending>>
  BY <1>1, NamesFrame DEF UnlinkSource
<1>2. CASE UnlinkSource(w) /\ ~UNCHANGED <<link, pending>>
  <2>1. /\ n \in DOMAIN bound /\ bound[n] \in DOMAIN link
        /\ link' = Without(link, bound[n]) /\ pending' = pending \cup {n}
        /\ UNCHANGED <<bound, hidden>>
    BY <1>t, <1>2 DEF UnlinkSource, Serving
  <2>2. DOMAIN link' = DOMAIN link \ {bound[n]}
    BY <2>1 DEF Without
  <2>3. Names!Unlink(n)
    BY <2>1, <2>2 DEF Names!Unlink
  <2>. QED
    BY <2>1, <2>3 DEF Names!Next
<1>3. CASE MarkHidden(w)
  <2>1. /\ n \in pending /\ hidden' \in {hidden, hidden \cup {n}}
        /\ pending' \in {pending, pending \ {n}} /\ UNCHANGED <<bound, link>>
    BY <1>t, <1>3 DEF MarkHidden, Serving
  <2>2. Names!Settle(n)
    BY <2>1 DEF Names!Settle
  <2>. QED
    BY <2>1, <2>2 DEF Names!Next
<1>. QED
  BY <1>1, <1>2, <1>3

LEMMA NamesStep == ViewInv /\ [Next]_vars => [Names!Next]_(Names!vars)
<1> SUFFICES ASSUME ViewInv, [Next]_vars PROVE Names!Next \/ UNCHANGED Names!vars
  OBVIOUS
<1>t. TypeOK
  BY DEF ViewInv, HandlesInv, DescriptorsKept
<1>1. CASE Mount \/ ScannerOpens \/ ScannerCloses \/ UNCHANGED vars
  BY <1>1, NamesFrame DEF Mount, ScannerOpens, ScannerCloses, vars, names
<1>2. CASE ScannerAdds
  <2>1. PICK n \in Name, s \in Source :
           n \notin DOMAIN bound /\ bound' = Extended(bound, n, s)
    BY <1>2 DEF ScannerAdds
  <2>2. Names!Bind(n, s) /\ n \in DOMAIN bound'
    BY <1>2, <2>1 DEF ScannerAdds, Names!Bind, Extended
  <2>. QED
    BY <2>2 DEF Names!Next
<1>3. CASE Others
  <2>1. \E s \in Source : DOMAIN link' = DOMAIN link \cup {s} \/ DOMAIN link' = DOMAIN link \ {s}
    BY <1>t, <1>3 DEF Others, Extended, Without, TypeOK
  <2>. QED
    BY <1>3, <2>1 DEF Others, Names!Change, Names!Next, names
<1>4. ASSUME NEW w \in Worker, Ask(w) \/ Done(w) PROVE UNCHANGED Names!vars
  BY <1>4, NamesFrame DEF Ask, Done, names
<1>5. ASSUME NEW w \in Worker, Handler(w) PROVE Names!Next \/ UNCHANGED Names!vars
  <2>1. CASE UnlinkSource(w) \/ MarkHidden(w)
    BY <2>1, UnlinkNames
  <2>2. CASE ~(UnlinkSource(w) \/ MarkHidden(w))
    BY <1>5, <2>2, NamesFrame
    DEF Handler, LookUp, Miss, Getattr, OpenConfig, OpenSource, ReadSource, ReadConfig,
        Release, Stub, names
  <2>. QED
    BY <2>1, <2>2
<1>. QED
  BY <1>1, <1>2, <1>3, <1>4, <1>5 DEF Next

(* The handlers use the names as MetaView promises them: they remove no    *)
(* file but one of a name that they are asked to unlink, and hide a name   *)
(* only while such a request is served.                                    *)
THEOREM NamesAreUsed == Spec => NamesSpec
<1>1. Init => Names!Init
  <2> SUFFICES ASSUME Init PROVE Names!Init
    OBVIOUS
  <2>1. DOMAIN link \subseteq Source
    BY InitInv DEF HandlesInv, DescriptorsKept, TypeOK
  <2>. QED
    BY <2>1 DEF Init, Names!Init
<1>. QED
  BY <1>1, ViewInitInv, ViewStepInv, NamesStep, PTL DEF Spec, NamesSpec, Names!Spec
----------------------------------------------------------------------------
(* The files at the paths that the mount shows, those behind its open      *)
(* files, and its requests, as MountView has them.  A request to unlink is *)
(* answered there when the file is gone.                                   *)
vlink == [n \in {m \in DOMAIN bound : bound[m] \in DOMAIN link} \cup {Config} |->
             IF n = Config THEN ConfigInode ELSE link[bound[n]]]
opened == [h \in DOMAIN fh |-> IF named[h] = Config THEN ConfigInode ELSE fds[fh[h]]]
Viewed(r) ==
    LET served == r.step = "removed"
    IN  [state |-> IF served THEN "answered" ELSE r.state, op |-> r.op, path |-> r.path,
         handle |-> r.handle, answer |-> IF served THEN "ok" ELSE r.answer, names |-> r.names]
vrequest == [w \in Worker |-> Viewed(request[w])]

Answered(v, a) == [v EXCEPT !.state = "answered", !.answer = a]
LEMMA AnswerViewed ==
    ASSUME NEW q, NEW r, NEW a,
           r.state = "answered", r.answer = a, r.step = "start",
           r.op = q.op, r.path = q.path, r.handle = q.handle, r.names = q.names
    PROVE  Viewed(r) = Answered(Viewed(q), a)
<1>1. PICK v, st, op, p, h, b, ns :
         /\ v = Viewed(q)
         /\ v = [state |-> st, op |-> op, path |-> p, handle |-> h, answer |-> b, names |-> ns]
         /\ op = q.op /\ p = q.path /\ h = q.handle /\ ns = q.names
  BY DEF Viewed
<1> DEFINE e == [v EXCEPT !.state = "answered", !.answer = a]
<1>2. v \in [state : {st}, op : {op}, path : {p}, handle : {h}, answer : {b}, names : {ns}]
  BY <1>1
<1>3. e \in [state : {"answered"}, op : {op}, path : {p}, handle : {h}, answer : {a}, names : {ns}]
  BY <1>2
<1> HIDE DEF e
<1>4. e = [state |-> "answered", op |-> op, path |-> p, handle |-> h, answer |-> a, names |-> ns]
  BY <1>3
<1>5. Viewed(r) = [state |-> "answered", op |-> op, path |-> p, handle |-> h, answer |-> a,
                   names |-> ns]
  BY <1>1 DEF Viewed
<1>. QED
  BY <1>1, <1>4, <1>5 DEF e, Answered

(* What removes a file answers there, with "ok".                           *)
LEMMA RemovedViewed ==
    ASSUME NEW q, NEW r, r.step = "removed",
           r.op = q.op, r.path = q.path, r.handle = q.handle, r.names = q.names
    PROVE  Viewed(r) = Answered(Viewed(q), "ok")
<1> DEFINE p == [state |-> "answered", answer |-> "ok", step |-> "start", op |-> q.op,
                 path |-> q.path, handle |-> q.handle, names |-> q.names]
<1>1. /\ p.state = "answered" /\ p.answer = "ok" /\ p.step = "start"
      /\ p.op = q.op /\ p.path = q.path /\ p.handle = q.handle /\ p.names = q.names
  OBVIOUS
<1> HIDE DEF p
<1>2. Viewed(r) = Viewed(p)
  BY <1>1 DEF Viewed
<1>. QED
  BY <1>1, <1>2, AnswerViewed

(* An answer is an answer there, and all else of a request is the same.    *)
LEMMA ReturnView ==
    ASSUME ViewInv, NEW w \in Worker, NEW a \in {"ok", "error", None} \cup Data, Return(w, a)
    PROVE  vrequest' = [vrequest EXCEPT ![w].state = "answered", ![w].answer = a]
<1>1. /\ \A v \in Worker \ {w} : request'[v] = request[v]
      /\ request'[w] = [request[w] EXCEPT !.state = "answered", !.answer = a,
                              !.step = "start", !.source = None, !.offset = 0]
      /\ request[w] \in Request
  BY DEF ViewInv, HandlesInv, DescriptorsKept, TypeOK, Return
<1>2. Viewed(request'[w]) = Answered(Viewed(request[w]), a)
  <2>1. LET p == request'[w]
            q == request[w] IN
        /\ p.state = "answered" /\ p.answer = a /\ p.step = "start"
        /\ p.op = q.op /\ p.path = q.path /\ p.handle = q.handle /\ p.names = q.names
    BY <1>1 DEF Request
  <2>. QED
    BY <2>1, AnswerViewed
<1>3. vrequest' = [v \in Worker |-> IF v = w THEN Answered(Viewed(request[w]), a)
                                             ELSE Viewed(request[v])]
  BY <1>1, <1>2 DEF vrequest
<1>4. vrequest' = [vrequest EXCEPT ![w] = Answered(vrequest[w], a)]
  BY <1>3 DEF vrequest
<1>5. DOMAIN vrequest = Worker
  BY DEF vrequest
<1> HIDE DEF vrequest
<1>. QED
  BY <1>4, <1>5 DEF Answered

(* What a request is in the view while its handler runs.                   *)
LEMMA AskedView ==
    ASSUME ViewInv, NEW w \in Worker, request[w].state = "asked", request[w].step # "removed"
    PROVE  /\ vrequest[w].state = "asked" /\ vrequest[w].op = request[w].op
           /\ vrequest[w].path = request[w].path /\ vrequest[w].handle = request[w].handle
BY DEF vrequest, Viewed

LEMMA FilesFrame ==
    ASSUME UNCHANGED <<bound, link, fh, named, fds>> PROVE UNCHANGED <<vlink, opened>>
BY DEF vlink, opened

LEMMA RefusedView ==
    ASSUME ViewInv, NEW w \in Worker, request[w].state = "asked", request[w].step # "removed",
           Return(w, "error"), UNCHANGED <<vlink, opened, others>>
    PROVE  View!Refuse(w)
BY ReturnView, AskedView DEF View!Refuse, View!Answer, vlink, opened, vrequest, Viewed

LEMMA StutterView ==
    UNCHANGED <<vlink, opened, vrequest, others>> => UNCHANGED View!vars
BY DEF View!vars, vlink, opened, vrequest, Viewed

LEMMA AskedInView ==
    ASSUME ViewInv, NEW w \in Worker, Ask(w) \/ Done(w) PROVE View!Ask(w) \/ View!Done(w)
<1>t. TypeOK /\ TypeOK' /\ ServedInv(w) /\ ServedInv(w)'
  BY AskViewInv DEF ViewInv, HandlesInv, DescriptorsKept
<1>1. UNCHANGED <<vlink, opened, others>> /\ \A v \in Worker \ {w} : request'[v] = request[v]
  BY <1>t, FilesFrame DEF Ask, Done, names, handles, TypeOK
<1>2. \A v \in Worker \ {w} : vrequest'[v] = vrequest[v]
  BY <1>1 DEF vrequest
<1>3. CASE Done(w)
  <2>1. vrequest[w].state = "answered"
    BY <1>t, <1>3 DEF Done, ServedInv, vrequest, Viewed
  <2>2. vrequest'[w].state = "none"
    BY <1>t, <1>3 DEF Done, TypeOK, vrequest, Viewed, Blank
  <2>. QED
    BY <1>1, <1>2, <2>1, <2>2 DEF View!Done, vlink, opened, vrequest, Viewed
<1>4. CASE Ask(w)
  <2>1. vrequest[w].state = "none"
    BY <1>t, <1>4 DEF Ask, ServedInv, vrequest, Viewed
  <2>2. request'[w].state = "asked" /\ request'[w].names = {}
    <3>1. PICK r : request' = [request EXCEPT ![w] = [r EXCEPT !.state = "asked"]]
      BY <1>4 DEF Ask
    <3>2. request'[w] = [r EXCEPT !.state = "asked"] /\ request'[w] \in Request
      BY <1>t, <3>1 DEF TypeOK
    <3>. QED
      BY <3>2 DEF Request
  <2>3. request'[w].step # "removed"
    BY <1>4, <1>t, AskStep
  <2>4. vrequest'[w].state = "asked" /\ vrequest'[w].names = {}
    BY <2>2, <2>3 DEF vrequest, Viewed
  <2>. QED
    BY <1>1, <1>2, <2>1, <2>4 DEF View!Ask, vlink, opened, vrequest, Viewed
<1>. QED
  BY <1>3, <1>4

(* Handlers that look for a name, and those that do nothing.               *)
LEMMA LookInView ==
    ASSUME ViewInv, NEW w \in Worker, LookUp(w) \/ Miss(w) \/ Getattr(w) \/ Stub(w)
    PROVE  View!Look(w) \/ View!Refuse(w) \/ UNCHANGED View!vars
<1>t. TypeOK /\ ServedInv(w) /\ RequestInv(w)
  BY DEF ViewInv, HandlesInv, DescriptorsKept
<1>1. UNCHANGED <<vlink, opened, others>>
  BY FilesFrame DEF LookUp, Miss, Getattr, Stub, names, handles
<1>2. request[w].state = "asked" /\ request[w].step # "removed"
  BY DEF LookUp, Looks, Miss, Getattr, Stub, Serving
<1>3. CASE LookUp(w)
  <2>1. /\ \A v \in Worker \ {w} : request'[v] = request[v]
        /\ Viewed(request'[w]) = Viewed(request[w])
    <3>1. /\ \A v \in Worker \ {w} : request'[v] = request[v]
          /\ request'[w] = [request[w] EXCEPT !.step = "found", !.source = bound[request[w].path]]
          /\ request[w] \in Request
      BY <1>t, <1>3 DEF LookUp, TypeOK
    <3>2. LET q == request[w]
              p == request'[w] IN
          /\ p.state = q.state /\ p.step = "found" /\ p.op = q.op /\ p.path = q.path
          /\ p.handle = q.handle /\ p.answer = q.answer /\ p.names = q.names
      BY <3>1 DEF Request
    <3>. QED
      BY <1>2, <3>1, <3>2 DEF Viewed
  <2>2. UNCHANGED vrequest
    BY <2>1 DEF vrequest
  <2>. QED
    BY <1>1, <2>2, StutterView DEF vlink, opened, vrequest
<1>4. CASE Return(w, "error")
  BY <1>1, <1>2, <1>4, RefusedView
<1>5. CASE Return(w, "ok") /\ (Getattr(w) \/ Stub(w)) /\ ~Return(w, "error")
  <2>1. vrequest' = [vrequest EXCEPT ![w].state = "answered", ![w].answer = "ok"]
    BY <1>5, ReturnView
  <2>2. /\ vrequest[w].state = "asked" /\ vrequest[w].op = request[w].op
        /\ vrequest[w].path = request[w].path
    BY <1>2, AskedView
  <2>3. request[w].op \in {"getattr", "flush"}
    BY <1>5 DEF Getattr, Stub, StubOps, Serving
  <2>4. request[w].op = "getattr" /\ request[w].path \in Name \cup {Config} =>
            request[w].path \in DOMAIN vlink
    BY <1>t, <1>5 DEF Getattr, Stub, StubOps, Serving, ServedInv, RequestInv, vlink
  <2>. QED
    BY <1>1, <2>1, <2>2, <2>3, <2>4
    DEF View!Look, View!Asked, View!Answer, vlink, opened, vrequest, Viewed
<1>. QED
  BY <1>3, <1>4, <1>5 DEF Miss, Getattr, Stub

LEMMA OpenInView ==
    ASSUME ViewInv, NEW w \in Worker, OpenConfig(w) \/ OpenSource(w)
    PROVE  View!Open(w) \/ View!Refuse(w)
<1> DEFINE h == request[w].handle
           p == request[w].path
<1>t. /\ TypeOK /\ request[w].state = "asked" /\ request[w].step # "removed"
      /\ request[w].op = "open" /\ h \in Handle \ DOMAIN fh /\ p \in Name \cup {Config}
      /\ UNCHANGED <<bound, link, others>>
  BY DEF OpenConfig, OpenSource, Serving, ViewInv, HandlesInv, DescriptorsKept, RequestInv, names
<1>1. CASE Return(w, "error") /\ UNCHANGED <<fds, handles>>
  BY <1>t, <1>1, RefusedView, FilesFrame DEF handles
<1>2. ASSUME NEW fd, Opened(w, fd), p \in DOMAIN vlink,
             \A g \in DOMAIN fds : g \in DOMAIN fds' /\ fds'[g] = fds[g],
             vlink[p] = IF p = Config THEN ConfigInode ELSE fds'[fd]
      PROVE  View!Open(w)
  <2>1. vrequest' = [vrequest EXCEPT ![w].state = "answered", ![w].answer = "ok"]
    BY <1>2, ReturnView DEF Opened
  <2>2. /\ vrequest[w].state = "asked" /\ vrequest[w].op = "open"
        /\ vrequest[w].path = p /\ vrequest[w].handle = h
    BY <1>t, AskedView
  <2>3. /\ DOMAIN fh' = DOMAIN fh \cup {h} /\ fh'[h] = fd /\ named'[h] = p
        /\ \A g \in DOMAIN fh : fh'[g] = fh[g] /\ named'[g] = named[g]
    BY <1>t, <1>2 DEF Opened, Extended, TypeOK
  <2>4. opened' = View!Extended(opened, h, vlink[p])
    <3>1. opened'[h] = vlink[p]
      BY <1>2, <2>3 DEF opened
    <3>2. \A g \in DOMAIN fh : opened'[g] = opened[g]
      BY <1>2, <2>3 DEF opened, ViewInv, FilesInv
    <3>. QED
      BY <1>t, <2>3, <3>1, <3>2 DEF opened, View!Extended
  <2>5. UNCHANGED vlink /\ h \notin DOMAIN opened
    BY <1>t DEF vlink, opened
  <2>. QED
    BY <1>t, <1>2, <2>1, <2>2, <2>4, <2>5
    DEF View!Open, View!Asked, View!Answer, vlink, opened, vrequest, Viewed
<1>3. CASE OpenConfig(w)
  <2>1. p = Config /\ Opened(w, 0) /\ UNCHANGED fds
    BY <1>3 DEF OpenConfig
  <2>2. p \in DOMAIN vlink /\ vlink[p] = ConfigInode
    BY <2>1 DEF vlink
  <2>. QED
    BY <1>2, <2>1, <2>2
<1>4. CASE OpenSource(w) /\ ~(Return(w, "error") /\ UNCHANGED <<fds, handles>>)
  <2>1. /\ request[w].source \in DOMAIN link /\ ~NoFd /\ Opened(w, NextFd)
        /\ fds' = Extended(fds, NextFd, link[request[w].source])
    BY <1>4 DEF OpenSource
  <2>2. p \in DOMAIN bound /\ request[w].source = bound[p] /\ p # Config
    BY <1>4, <1>t, HandlesAssumption
    DEF OpenSource, Serving, ViewInv, HandlesInv, RequestInv, ServedInv, TypeOK
  <2>3. p \in DOMAIN vlink /\ vlink[p] = link[bound[p]]
    BY <2>1, <2>2 DEF vlink
  <2>4. NextFd \notin DOMAIN fds
    BY <1>t, <2>1, NextFdIsFree
  <2>5. /\ \A g \in DOMAIN fds : g \in DOMAIN fds' /\ fds'[g] = fds[g]
        /\ fds'[NextFd] = link[bound[p]]
    BY <2>1, <2>2, <2>4 DEF Extended
  <2>. QED
    BY <1>2, <2>1, <2>2, <2>3, <2>5
<1>. QED
  BY <1>1, <1>3, <1>4

LEMMA ReadInView ==
    ASSUME ViewInv, NEW w \in Worker, ReadConfig(w) \/ ReadSource(w)
    PROVE  View!Read(w) \/ View!Refuse(w) \/ UNCHANGED View!vars
<1> DEFINE h == request[w].handle
<1>t. /\ TypeOK /\ request[w].state = "asked" /\ request[w].step # "removed"
      /\ request[w].op = "read" /\ h \in DOMAIN fh /\ request[w].path = named[h]
      /\ UNCHANGED <<bound, link, fh, named, fds, others>>
  BY DEF ReadConfig, ReadSource, Serving, ViewInv, HandlesInv, DescriptorsKept, RequestInv,
     ServedInv, names, handles
<1>1. UNCHANGED <<vlink, opened>> /\ DOMAIN opened = DOMAIN fh
  BY <1>t, FilesFrame DEF opened
<1>2. CASE Return(w, "error")
  BY <1>t, <1>1, <1>2, RefusedView
<1>3. CASE UNCHANGED request
  BY <1>t, <1>1, <1>3, StutterView DEF vrequest, vlink, opened
<1>4. ASSUME Return(w, data[opened[h]]), data[opened[h]] \in Data PROVE View!Read(w)
  <2>1. vrequest' = [vrequest EXCEPT ![w].state = "answered", ![w].answer = data[opened[h]]]
    BY <1>4, ReturnView
  <2>2. vrequest[w].state = "asked" /\ vrequest[w].op = "read" /\ vrequest[w].handle = h
    BY <1>t, AskedView
  <2>. QED
    BY <1>t, <1>1, <2>1, <2>2
    DEF View!Read, View!Asked, View!Answer, vlink, opened, vrequest, Viewed
<1>5. CASE ReadConfig(w) /\ ~PastEnd(request[w].offset)
  <2>1. Return(w, data[ConfigInode]) /\ named[h] = Config
    BY <1>t, <1>5 DEF ReadConfig
  <2>2. opened[h] = ConfigInode /\ data[ConfigInode] \in Data
    BY <1>t, <2>1, HandlesAssumption DEF opened
  <2>. QED
    BY <1>4, <2>1, <2>2
<1>6. CASE ReadSource(w) /\ ~Return(w, "error")
  <2>1. Return(w, data[fds[fh[h]]]) /\ named[h] # Config
    BY <1>t, <1>6 DEF ReadSource
  <2>2. opened[h] = fds[fh[h]] /\ data[opened[h]] \in Data
    BY <1>t, <2>1, HandlesAssumption DEF opened, ViewInv, FilesInv
  <2>. QED
    BY <1>4, <2>1, <2>2
<1>. QED
  BY <1>2, <1>3, <1>5, <1>6 DEF ReadConfig

LEMMA ReleaseInView == ASSUME ViewInv, NEW w \in Worker, Release(w) PROVE View!Close(w)
<1> DEFINE h == request[w].handle
<1>t. /\ TypeOK /\ request[w].state = "asked" /\ request[w].step # "removed"
      /\ request[w].op = "release" /\ h \in DOMAIN fh /\ UNCHANGED <<bound, link, others>>
  BY DEF Release, Serving, ViewInv, HandlesInv, DescriptorsKept, RequestInv, names
<1>1. PICK a \in {"ok", "error"} : Return(w, a)
  BY DEF Release
<1>2. /\ fds' = IF fh[h] = 0 THEN fds ELSE Without(fds, fh[h])
      /\ fh' = Without(fh, h) /\ named' = Without(named, h)
  BY DEF Release
<1>3. /\ DOMAIN fh' = DOMAIN fh \ {h}
      /\ \A g \in DOMAIN fh' : fh'[g] = fh[g] /\ named'[g] = named[g]
  BY <1>t, <1>2 DEF Without, TypeOK
<1>4. \A g \in DOMAIN fh' : fh[g] \in DOMAIN fds => fds'[fh[g]] = fds[fh[g]]
  BY <1>t, <1>2, <1>3 DEF Without, ViewInv, HandlesInv, DescriptorsKept
<1>5. opened' = View!Without(opened, h)
  <2>1. \A g \in DOMAIN fh' : opened'[g] = opened[g]
    BY <1>3, <1>4 DEF opened, ViewInv, FilesInv
  <2>. QED
    BY <1>3, <2>1 DEF opened, View!Without
<1>6. UNCHANGED vlink /\ DOMAIN opened = DOMAIN fh
  BY <1>t DEF vlink, opened
<1>7. vrequest' = [vrequest EXCEPT ![w].state = "answered", ![w].answer = a]
  BY <1>1, ReturnView
<1>8. vrequest[w].state = "asked" /\ vrequest[w].op = "release" /\ vrequest[w].handle = h
  BY <1>t, AskedView
<1>. QED
  BY <1>t, <1>5, <1>6, <1>7, <1>8
  DEF View!Close, View!Asked, View!Answer, vlink, opened, vrequest, Viewed

(* The file is gone when unlink() has returned; that the name is hidden    *)
(* only then is no matter, since it shows no file any more.                *)
LEMMA UnlinkInView ==
    ASSUME ViewInv, NEW w \in Worker, UnlinkSource(w) \/ MarkHidden(w)
    PROVE  View!Remove(w) \/ View!Refuse(w) \/ UNCHANGED View!vars
<1> DEFINE p == request[w].path
           q == request[w]
<1>t. /\ TypeOK /\ q.state = "asked" /\ q.op = "unlink"
      /\ p \in DOMAIN bound /\ q.source = bound[p] /\ p # Config
      /\ UNCHANGED <<bound, fds, fh, named, others>>
  BY HandlesAssumption DEF UnlinkSource, MarkHidden, Serving, ViewInv, HandlesInv, RequestInv, ServedInv,
     DescriptorsKept, TypeOK, handles
<1>1. CASE UnlinkSource(w) /\ Return(w, "error") /\ UNCHANGED link
  BY <1>t, <1>1, RefusedView, FilesFrame DEF UnlinkSource, Serving
<1>2. CASE UnlinkSource(w) /\ ~(Return(w, "error") /\ UNCHANGED link)
  <2>1. /\ bound[p] \in DOMAIN link /\ link' = Without(link, bound[p])
        /\ request' = [request EXCEPT ![w].step = "removed"] /\ q.step = "found"
    BY <1>t, <1>2 DEF UnlinkSource, Serving
  <2>2. vlink' = View!Without(vlink, p)
    <3>1. DOMAIN vlink' = DOMAIN vlink \ {p}
      BY <1>t, <2>1, HandlesAssumption DEF vlink, Without, ViewInv, FilesInv, TypeOK
    <3>2. \A n \in DOMAIN vlink' : vlink'[n] = vlink[n]
      BY <1>t, <2>1, <3>1 DEF vlink, Without
    <3>. QED
      BY <3>1, <3>2 DEF vlink, View!Without
  <2>3. p \in DOMAIN vlink
    BY <1>t, <2>1 DEF vlink
  <2>4. UNCHANGED opened
    BY <1>t DEF opened
  <2>5. vrequest' = [vrequest EXCEPT ![w].state = "answered", ![w].answer = "ok"]
    <3>1. /\ \A v \in Worker \ {w} : request'[v] = request[v]
          /\ request'[w] = [q EXCEPT !.step = "removed"] /\ q \in Request
      BY <1>t, <2>1 DEF TypeOK
    <3>2. Viewed(request'[w]) = Answered(Viewed(q), "ok")
      <4>1. LET r == request'[w] IN
            /\ r.step = "removed" /\ r.op = q.op /\ r.path = q.path
            /\ r.handle = q.handle /\ r.names = q.names
        BY <3>1 DEF Request
      <4>. QED
        BY <4>1, RemovedViewed
    <3>3. vrequest' = [v \in Worker |-> IF v = w THEN Answered(Viewed(q), "ok")
                                                ELSE Viewed(request[v])]
      BY <3>1, <3>2 DEF vrequest
    <3>4. vrequest' = [vrequest EXCEPT ![w] = Answered(vrequest[w], "ok")]
      BY <3>3 DEF vrequest
    <3>5. DOMAIN vrequest = Worker
      BY DEF vrequest
    <3> HIDE DEF vrequest
    <3>. QED
      BY <3>4, <3>5 DEF Answered
  <2>6. vrequest[w].state = "asked" /\ vrequest[w].op = "unlink" /\ vrequest[w].path = p
    BY <1>t, <2>1, AskedView
  <2>. QED
    BY <1>t, <2>2, <2>3, <2>4, <2>5, <2>6
    DEF View!Remove, View!Asked, View!Answer, vlink, opened, vrequest, Viewed
<1>3. CASE MarkHidden(w)
  <2>1. q.step = "removed" /\ Return(w, "ok") /\ UNCHANGED link
    BY <1>3 DEF MarkHidden, Serving
  <2>2. UNCHANGED <<vlink, opened>>
    BY <1>t, <2>1, FilesFrame
  <2>3. /\ \A v \in Worker \ {w} : request'[v] = request[v]
        /\ Viewed(request'[w]) = Viewed(q)
    <3>1. /\ \A v \in Worker \ {w} : request'[v] = request[v]
          /\ request'[w] = [q EXCEPT !.state = "answered", !.answer = "ok",
                              !.step = "start", !.source = None, !.offset = 0]
          /\ q \in Request
      BY <1>t, <2>1 DEF TypeOK, Return
    <3>2. LET r == request'[w] IN
          /\ r.state = "answered" /\ r.answer = "ok" /\ r.step = "start" /\ r.op = q.op
          /\ r.path = q.path /\ r.handle = q.handle /\ r.names = q.names
      BY <3>1 DEF Request
    <3>. QED
      BY <2>1, <3>1, <3>2 DEF Viewed
  <2>4. UNCHANGED vrequest
    BY <2>3 DEF vrequest
  <2>. QED
    BY <1>t, <2>2, <2>4, StutterView DEF vlink, opened, vrequest
<1>. QED
  BY <1>1, <1>2, <1>3

LEMMA OthersInView ==
    ASSUME ViewInv,
           Mount \/ ScannerOpens \/ ScannerCloses \/ ScannerAdds \/ Others \/ UNCHANGED vars
    PROVE  View!Others \/ UNCHANGED View!vars
<1>t. TypeOK /\ FilesInv /\ FilesInv' /\ ScannerInv /\ UNCHANGED <<request, fh, named>>
  BY OthersViewInv DEF ViewInv, HandlesInv, DescriptorsKept,
     Mount, ScannerOpens, ScannerCloses, ScannerAdds, Others, vars, names, handles
<1>1. UNCHANGED opened
  <2>1. \A h \in DOMAIN fh : named[h] # Config => fds'[fh[h]] = fds[fh[h]]
    <3>1. CASE Mount
      BY <1>t, <3>1 DEF Mount, ScannerInv
    <3>2. CASE ScannerOpens
      <4>1. NextFd \notin DOMAIN fds /\ fds' = Extended(fds, NextFd, None)
        BY <1>t, <3>2, NextFdIsFree DEF ScannerOpens
      <4>. QED
        BY <1>t, <4>1 DEF FilesInv, Extended
    <3>3. CASE ScannerCloses
      BY <1>t, <3>3 DEF ScannerCloses, FilesInv, Without
    <3>4. CASE UNCHANGED fds
      BY <3>4
    <3>. QED
      BY <3>1, <3>2, <3>3, <3>4 DEF ScannerAdds, Others, vars
  <2>. QED
    BY <1>t, <2>1 DEF opened
<1>2. UNCHANGED vrequest
  BY <1>t DEF vrequest
<1>3. CASE ScannerAdds \/ Others
  BY <1>1, <1>2, <1>3 DEF ScannerAdds, Others, View!Others, vlink, opened, vrequest, Viewed
<1>4. CASE UNCHANGED <<bound, link, others>>
  <2>1. UNCHANGED vlink
    BY <1>4 DEF vlink
  <2>. QED
    BY <1>1, <1>2, <1>4, <2>1, StutterView DEF vlink, opened, vrequest
<1>. QED
  BY <1>3, <1>4 DEF Mount, ScannerOpens, ScannerCloses, vars, names

LEMMA ViewStep == ViewInv /\ [Next]_vars => [View!Next]_(View!vars)
<1> SUFFICES ASSUME ViewInv, [Next]_vars PROVE View!Next \/ UNCHANGED View!vars
  OBVIOUS
<1>1. ASSUME NEW w \in Worker, Handler(w) PROVE View!Next \/ UNCHANGED View!vars
  BY <1>1, LookInView, OpenInView, ReadInView, ReleaseInView, UnlinkInView DEF Handler, View!Next
<1>2. ASSUME NEW w \in Worker, Ask(w) \/ Done(w) PROVE View!Next
  BY <1>2, AskedInView DEF View!Next
<1>3. CASE Mount \/ ScannerOpens \/ ScannerCloses \/ ScannerAdds \/ Others \/ UNCHANGED vars
  BY <1>3, OthersInView DEF View!Next
<1>. QED
  BY <1>1, <1>2, <1>3 DEF Next

(* metafs only passes requests on, or refuses them: what is asked of an    *)
(* open file is done to the file that its name stood for when it was       *)
(* opened, though its number is given out again, its name is unlinked, and *)
(* the scanner opens and closes files of its own in between.               *)
THEOREM PassesRequestsOn == Spec => ViewSpec
<1>1. Init => View!Init
  <2> SUFFICES ASSUME Init PROVE View!Init
    OBVIOUS
  <2>1. DOMAIN vlink = {Config} /\ vlink[Config] = ConfigInode /\ DOMAIN opened = {}
    BY DEF Init, vlink, opened
  <2>2. \A w \in Worker : vrequest[w].state = "none" /\ vrequest[w].names = {}
    BY DEF Init, vrequest, Viewed, Blank
  <2>. QED
    BY <2>1, <2>2, HandlesAssumption DEF Init, View!Init, vlink, opened, vrequest, Viewed
<1>. QED
  BY <1>1, ViewInitInv, ViewStepInv, ViewStep, PTL DEF Spec, ViewSpec, View!Spec
=============================================================================
