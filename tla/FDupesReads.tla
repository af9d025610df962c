----------------------------- MODULE FDupesReads -----------------------------
(***************************************************************************)
(* The loops of src/fdupes.cpp that read files, gen_partial_crc(),         *)
(* gen_full_crc() and byte_match(), one step for each turn of a loop.      *)
(* Between two turns other programs may write to the files, so that they   *)
(* are longer or shorter than the size scandir() has recorded, and a read  *)
(* may fail.  The files are open: that one is removed does not matter.     *)
(*                                                                         *)
(* Module FDupes has each loop as one step.                                *)
(***************************************************************************)
EXTENDS FDupesContents

CONSTANTS
    Content,      \* the contents a file may have: whatever others write, a
                  \* file has a largest size
    Modulus       \* size_t counts modulo it, 2^64; no file is that large

ASSUME ReadsAssumption ==
    /\ Content # {}
    /\ \A c \in Content : Len(c) < Modulus
    /\ MaxPartial \in Nat \ {0}

VARIABLES
    loop,         \* the function at hand
    pc,
    size,         \* file.size, recorded by scandir()
    left,         \* the local variable size, counted down
    content,      \* of the files A and B
    pos,          \* how far each is read
    ended,        \* each stream's end-of-file indicator, which is sticky
    fed,          \* what the checksum has been computed of
    result,
    disturbed     \* a file was written to, or a read has failed

vars == <<loop, pc, size, left, content, pos, ended, fed, result, disturbed>>

Stream == {"A", "B"}

Init ==
    /\ loop \in {"partial", "full", "bytes"}
    /\ pc = "reading"
    /\ size \in {Len(c) : c \in Content}
    /\ left = IF loop = "partial" THEN Least(size, MaxPartial) ELSE size
    /\ content \in [Stream -> Content]
    /\ pos = [f \in Stream |-> 0]
    /\ ended = [f \in Stream |-> FALSE]
    /\ fed = <<>>
    /\ result = IF loop = "bytes" THEN FALSE ELSE Invalid
    /\ disturbed = FALSE

(* fread(buf, 1, n, fp) has k left to return at this moment; after an      *)
(* error it returns less.                                                  *)
Available(f, n) ==
    IF ended[f] \/ pos[f] >= Len(content[f]) THEN 0
    ELSE Least(n, Len(content[f]) - pos[f])
Returned(f, k) == SubSeq(content[f], pos[f] + 1, pos[f] + k)
EndMet(f, n, k) == ended[f] \/ (k < n /\ k = Available(f, n))

Return(value) == pc' = "done" /\ result' = value

(* Mutant of ReadPartial: the last read is not limited to what is left.    *)
ReadPartialWhole ==
    /\ loop = "partial"
    /\ left > 0
    /\ \E k \in 0..Available("A", MaxPartial) :
        /\ pos' = [pos EXCEPT !["A"] = @ + k]
        /\ ended' = [ended EXCEPT !["A"] = EndMet("A", MaxPartial, k)]
        /\ disturbed' = (disturbed \/ k < Available("A", MaxPartial))
        /\ IF k > 0
           THEN /\ left' = (left - k) % Modulus
                /\ fed' = fed \o Returned("A", k)
                /\ UNCHANGED <<pc, result>>
           ELSE Return(Invalid) /\ UNCHANGED <<left, fed>>
    /\ UNCHANGED <<loop, size, content>>

(* A turn of the loop of gen_partial_crc().                                *)
ReadPartial ==
    /\ loop = "partial"
    /\ left > 0
    /\ \E k \in 0..Available("A", left) :
        /\ pos' = [pos EXCEPT !["A"] = @ + k]
        /\ ended' = [ended EXCEPT !["A"] = EndMet("A", left, k)]
        /\ disturbed' = (disturbed \/ k < Available("A", left))
        /\ IF k > 0
           THEN /\ left' = (left - k) % Modulus
                /\ fed' = fed \o Returned("A", k)
                /\ UNCHANGED <<pc, result>>
           ELSE Return(Invalid) /\ UNCHANGED <<left, fed>>
    /\ UNCHANGED <<loop, size, content>>

(* Mutant of ReadFull: a read that returns nothing is not taken for an     *)
(* error.                                                                  *)
ReadFullOn ==
    /\ loop = "full"
    /\ left > 0
    /\ \E k \in 0..Available("A", MaxPartial) :
        /\ pos' = [pos EXCEPT !["A"] = @ + k]
        /\ ended' = [ended EXCEPT !["A"] = EndMet("A", MaxPartial, k)]
        /\ disturbed' = (disturbed \/ k < Available("A", MaxPartial))
        /\ left' = (left - k) % Modulus
        /\ fed' = fed \o Returned("A", k)
    /\ UNCHANGED <<loop, pc, size, content, result>>

(* A turn of the loop of gen_full_crc(), which reads past what is left.    *)
ReadFull ==
    /\ loop = "full"
    /\ left > 0
    /\ \E k \in 0..Available("A", MaxPartial) :
        /\ pos' = [pos EXCEPT !["A"] = @ + k]
        /\ ended' = [ended EXCEPT !["A"] = EndMet("A", MaxPartial, k)]
        /\ disturbed' = (disturbed \/ k < Available("A", MaxPartial))
        /\ IF k > 0
           THEN /\ left' = (left - k) % Modulus
                /\ fed' = fed \o Returned("A", k)
                /\ UNCHANGED <<pc, result>>
           ELSE Return(Invalid) /\ UNCHANGED <<left, fed>>
    /\ UNCHANGED <<loop, size, content>>

(* A turn of the loop of byte_match(): a read of A, then one of B.         *)
ReadBytes ==
    /\ loop = "bytes"
    /\ left > 0
    /\ \E k \in [Stream -> 0..MaxPartial] :
        /\ \A f \in Stream : k[f] <= Available(f, MaxPartial)
        /\ pos' = [f \in Stream |-> pos[f] + k[f]]
        /\ ended' = [f \in Stream |-> EndMet(f, MaxPartial, k[f])]
        /\ disturbed' = (disturbed \/ \E f \in Stream : k[f] < Available(f, MaxPartial))
        /\ IF Returned("A", k["A"]) = Returned("B", k["B"]) /\ k["A"] > 0
           THEN left' = left - k["A"] /\ UNCHANGED <<pc, result>>
           ELSE Return(FALSE) /\ UNCHANGED left
    /\ UNCHANGED <<loop, size, content, fed>>

(* The loop is left when size is used up.                                  *)
LoopDone ==
    /\ left <= 0
    /\ Return(IF loop = "bytes" THEN TRUE ELSE Valid(fed))
    /\ UNCHANGED <<loop, size, left, content, pos, ended, fed, disturbed>>

Program ==
    /\ pc = "reading"
    /\ ReadPartial \/ ReadFull \/ ReadBytes \/ LoopDone

(* Another program writes to a file, as often as it likes.                 *)
OtherWrites ==
    /\ pc = "reading"
    /\ \E f \in Stream, c \in Content : content' = [content EXCEPT ![f] = c]
    /\ disturbed' = TRUE
    /\ UNCHANGED <<loop, pc, size, left, pos, ended, fed, result>>

Next == Program \/ OtherWrites

(* fread() returns.                                                        *)
Spec == Init /\ [][Next]_vars /\ WF_vars(Program)
----------------------------------------------------------------------------
TypeOK ==
    /\ pc \in {"reading", "done"}
    /\ left \in (-MaxPartial)..Modulus
    /\ pos \in [Stream -> Nat]
    /\ ended \in [Stream -> BOOLEAN]
    /\ disturbed \in BOOLEAN

(* When nobody writes and no read fails, each loop comes to what module    *)
(* FDupes takes for its result: also when the file is longer or shorter    *)
(* than scandir() found it, and though gen_full_crc() and byte_match() read*)
(* past the recorded size and gen_full_crc()'s count may wrap.             *)
ReadsExact ==
    /\ TypeOK
    /\ pc = "done" /\ ~disturbed =>
        CASE loop = "partial" -> result = PartialOf(content["A"], size)
          [] loop = "full" -> result = FullOf(content["A"], size)
          [] loop = "bytes" -> result = MatchOf(content["A"], content["B"], size)

(* Each loop ends, however long others go on writing and whichever reads   *)
(* fail: also gen_full_crc()'s, whose count is not zero again in the length*)
(* of a file once it has wrapped, because a read that returns nothing is an*)
(* error.                                                                  *)
ReadsEnd == <>(pc = "done")
=============================================================================
