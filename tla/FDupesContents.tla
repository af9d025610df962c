--------------------------- MODULE FDupesContents ---------------------------
(***************************************************************************)
(* What the reading functions of fdupes.cpp make of the contents of files  *)
(* when nobody writes to them meanwhile and no read fails.  A content is a *)
(* sequence of units, of which one fread() returns MaxPartial              *)
(* (MAX_PARTIAL_SIZE bytes); s is the size that scandir() has recorded.    *)
(***************************************************************************)
EXTENDS Integers, Sequences

CONSTANTS
    MaxPartial,   \* units per read
    Crc(_)        \* the checksum of a sequence of units, not injective

Least(m, n) == IF m <= n THEN m ELSE n

(* class crc32: valid(false), or a value.                                  *)
Invalid == <<>>
Valid(units) == <<Crc(units)>>

(* gen_partial_crc(): reads min(size, MAX_PARTIAL_SIZE), gives up when the *)
(* file is shorter by now.                                                 *)
PartialOf(c, s) ==
    LET n == Least(s, MaxPartial)
    IN  IF Len(c) >= n THEN Valid(SubSeq(c, 1, n)) ELSE Invalid

(* gen_full_crc(): reads MAX_PARTIAL_SIZE at a time and counts size down,  *)
(* without a sign.  A file that has grown past size ends the count at zero *)
(* only if size is a multiple of what is read at a time; otherwise the     *)
(* count wraps and the reads go on to the end of the file and fail.        *)
FullOf(c, s) ==
    IF Len(c) = s \/ (Len(c) > s /\ s % MaxPartial = 0)
    THEN Valid(SubSeq(c, 1, s)) ELSE Invalid

(* byte_match(): both files are read in steps of MAX_PARTIAL_SIZE until    *)
(* size, with a sign here, is used up.                                     *)
ReadUpTo(c, s) ==
    SubSeq(c, 1, Least(Len(c), ((s + MaxPartial - 1) \div MaxPartial) * MaxPartial))
MatchOf(c, d, s) == ReadUpTo(c, s) = ReadUpTo(d, s) /\ Len(c) >= s
=============================================================================
