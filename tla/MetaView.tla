------------------------------ MODULE MetaView -------------------------------
(***************************************************************************)
(* What metafs promises about the names it shows, whatever the scanner and *)
(* the workers do to the tree behind them:                                 *)
(*   - a name is bound to one source file, once and for good;              *)
(*   - metafs removes no source file but one a name is bound to, on        *)
(*     request for that name;                                              *)
(*   - a name is hidden only while such a request is being served, and     *)
(*     stays hidden.                                                       *)
(* It does not promise that the name is hidden when the request has been   *)
(* answered: delete_file() may miss the entry while the scan goes on.      *)
(***************************************************************************)
CONSTANTS Source, Name

VARIABLES
    bound,      \* the source file of each name in use
    hidden,     \* the names of files unlinked through metafs
    pending,    \* the names for which a file was unlinked and the request
                \* is not answered yet
    disk        \* the source files that exist

vars == <<bound, hidden, pending, disk>>

Init ==
    /\ bound = [n \in {} |-> n]
    /\ hidden = {}
    /\ pending = {}
    /\ disk \in SUBSET Source

Bind(n, f) ==
    /\ n \notin DOMAIN bound
    /\ bound' = [m \in DOMAIN bound \cup {n} |-> IF m = n THEN f ELSE bound[m]]
    /\ UNCHANGED <<hidden, pending, disk>>

Unlink(n) ==
    /\ n \in DOMAIN bound
    /\ bound[n] \in disk
    /\ disk' = disk \ {bound[n]}
    /\ pending' = pending \cup {n}
    /\ UNCHANGED <<bound, hidden>>

(* The request is answered; another one for the same name may be left.     *)
Settle(n) ==
    /\ n \in pending
    /\ hidden' \in {hidden, hidden \cup {n}}
    /\ pending' \in {pending, pending \ {n}}
    /\ UNCHANGED <<bound, disk>>

(* Other programs.                                                         *)
Change(f) ==
    /\ \/ disk' = disk \cup {f}
       \/ disk' = disk \ {f}
    /\ UNCHANGED <<bound, hidden, pending>>

Next ==
    \/ \E n \in DOMAIN bound' : n \in Name /\ \E f \in Source : Bind(n, f)
    \/ \E n \in DOMAIN bound : Unlink(n)
    \/ \E n \in pending : Settle(n)
    \/ \E f \in Source : Change(f)

Spec == Init /\ [][Next]_vars
=============================================================================
