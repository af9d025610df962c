----------------------------- MODULE MountView ------------------------------
(***************************************************************************)
(* A mount that does nothing but pass requests on: every request takes     *)
(* effect at one moment between its start and its answer, on the file that *)
(* its path names then or that its handle was opened for, or it fails and  *)
(* has no effect.  Other programs work on the files all the while.         *)
(***************************************************************************)
EXTENDS Naturals

CONSTANTS Worker, Path, Inode, Data, Empty, Handle

VARIABLES
    link,        \* the file at each path, a partial function
    data,        \* the content of each file
    opened,      \* the file each open handle is for, a partial function
    request,     \* what each worker is asked for and what it answers
    others       \* how often other programs have changed a file

vars == <<link, data, opened, request, others>>

Asked(w, op) == request[w].state = "asked" /\ request[w].op = op
Answer(w, a) == request' = [request EXCEPT ![w].state = "answered", ![w].answer = a]

Extended(f, k, v) == [x \in DOMAIN f \cup {k} |-> IF x = k THEN v ELSE f[x]]
Without(f, k) == [x \in DOMAIN f \ {k} |-> f[x]]

Init ==
    /\ DOMAIN link \subseteq Path
    /\ \A p \in DOMAIN link : link[p] \in Inode
    /\ data \in [Inode -> Data]
    /\ DOMAIN opened = {}
    /\ \A w \in Worker : request[w].state = "none" /\ request[w].names = {}
    /\ others = 0

Ask(w) ==
    /\ request[w].state = "none"
    /\ \A v \in Worker : v # w => request'[v] = request[v]
    /\ request'[w].state = "asked"
    /\ request'[w].names = {}
    /\ UNCHANGED <<link, data, opened, others>>

Done(w) ==
    /\ request[w].state = "answered"
    /\ \A v \in Worker : v # w => request'[v] = request[v]
    /\ request'[w].state = "none"
    /\ UNCHANGED <<link, data, opened, others>>

Refuse(w) ==
    /\ request[w].state = "asked"
    /\ Answer(w, "error")
    /\ UNCHANGED <<link, data, opened, others>>

(* The requests that look at names.                                        *)
Look(w) ==
    /\ \E op \in {"getattr", "opendir", "readdir", "statfs", "flush"} : Asked(w, op)
    /\ Asked(w, "getattr") /\ request[w].path \in Path => request[w].path \in DOMAIN link
    /\ Answer(w, "ok")
    /\ UNCHANGED <<link, data, opened, others>>

List(w, p) ==
    /\ Asked(w, "readdir")
    /\ p \in DOMAIN link
    /\ request' = [request EXCEPT ![w].names = @ \cup {p}]
    /\ UNCHANGED <<link, data, opened, others>>

(* The requests on paths.                                                  *)
Make(w, i) ==
    /\ Asked(w, "mknod")
    /\ request[w].path \notin DOMAIN link
    /\ \A p \in DOMAIN link : link[p] # i
    /\ \A h \in DOMAIN opened : opened[h] # i
    /\ link' = Extended(link, request[w].path, i)
    /\ data' = [data EXCEPT ![i] = Empty]
    /\ Answer(w, "ok")
    /\ UNCHANGED <<opened, others>>

Remove(w) ==
    /\ Asked(w, "unlink")
    /\ request[w].path \in DOMAIN link
    /\ link' = Without(link, request[w].path)
    /\ Answer(w, "ok")
    /\ UNCHANGED <<data, opened, others>>

Clear(w) ==
    /\ Asked(w, "truncate")
    /\ request[w].path \in DOMAIN link
    /\ data' = [data EXCEPT ![link[request[w].path]] = Empty]
    /\ Answer(w, "ok")
    /\ UNCHANGED <<link, opened, others>>

Open(w) ==
    /\ Asked(w, "open")
    /\ request[w].handle \notin DOMAIN opened
    /\ request[w].path \in DOMAIN link
    /\ opened' = Extended(opened, request[w].handle, link[request[w].path])
    /\ Answer(w, "ok")
    /\ UNCHANGED <<link, data, others>>

(* The requests on handles.                                                *)
Read(w) ==
    /\ Asked(w, "read") /\ request[w].handle \in DOMAIN opened
    /\ Answer(w, data[opened[request[w].handle]])
    /\ UNCHANGED <<link, data, opened, others>>

Write(w) ==
    /\ Asked(w, "write") /\ request[w].handle \in DOMAIN opened
    /\ data' = [data EXCEPT ![opened[request[w].handle]] = request[w].value]
    /\ Answer(w, "ok")
    /\ UNCHANGED <<link, opened, others>>

Close(w) ==
    /\ Asked(w, "release") /\ request[w].handle \in DOMAIN opened
    /\ opened' = Without(opened, request[w].handle)
    /\ \E a \in {"ok", "error"} : Answer(w, a)
    /\ UNCHANGED <<link, data, others>>

Others ==
    /\ others' = others + 1
    /\ UNCHANGED <<opened, request>>

Next ==
    \/ \E w \in Worker :
        \/ Ask(w) \/ Done(w) \/ Refuse(w) \/ Look(w)
        \/ Remove(w) \/ Clear(w) \/ Open(w) \/ Read(w) \/ Write(w) \/ Close(w)
        \/ \E p \in Path : List(w, p)
        \/ \E i \in Inode : Make(w, i)
    \/ Others

Spec == Init /\ [][Next]_vars
=============================================================================
