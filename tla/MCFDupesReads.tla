---------------------------- MODULE MCFDupesReads ----------------------------
(***************************************************************************)
(* FDupesReads over files of up to three reads; the checksum is the parity *)
(* of the number of y's.                                                   *)
(***************************************************************************)
EXTENDS FDupesReads, SequencesExt

CONSTANTS x1, y1

MCCrc(units) == FoldLeft(LAMBDA sum, unit : IF unit = y1 THEN 1 - sum ELSE sum, 0, units)

(* Files that differ in length, in a read, or only past the end of another.*)
MCContent == {<<>>, <<x1>>, <<x1, x1>>, <<x1, x1, x1>>, <<x1, x1, y1>>,
              <<x1, x1, x1, y1>>, <<x1, x1, x1, y1, x1>>}
=============================================================================
