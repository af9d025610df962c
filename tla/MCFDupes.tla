------------------------------ MODULE MCFDupes -------------------------------
(***************************************************************************)
(* FDupes over a few files.  The checksum is the parity of the number of   *)
(* y's, so that <<x>> and <<z>> agree in both checksums and <<x, x, x>> and *)
(* <<x, x, z>> too; <<x, x, y>> agrees with them in the first read only.   *)
(***************************************************************************)
EXTENDS FDupes

CONSTANTS p1, p2, p3, p4, p5, x1, y1, z1

Weight(unit) == IF unit = y1 THEN 1 ELSE 0
MCCrc(units) == FoldLeft(LAMBDA sum, unit : (sum + Weight(unit)) % 2, 0, units)

Unprotected(p) == [entry |-> p, read_only |-> FALSE]
Protected(p) == [entry |-> p, read_only |-> TRUE]

MCContent == {<<>>, <<x1>>, <<z1>>, <<x1, x1, x1>>, <<x1, x1, z1>>, <<x1, x1, y1>>,
              <<y1, x1, x1>>}

(* fdupes -d -N: every way in which five files may agree.                  *)
Match == [found |-> <<Unprotected(p1), Protected(p2), Unprotected(p3), Unprotected(p4),
                      Protected(p5)>>,
          contents |-> {<<x1>>, <<z1>>, <<x1, x1, x1>>, <<x1, x1, z1>>, <<x1, x1, y1>>},
          unreadable |-> {p4}, min_size |-> 0, exclude_empty |-> FALSE,
          delete |-> TRUE, prompt |-> FALSE, max_open |-> 20, max_writes |-> 0]

(* The same without any protected file, and few files may be open.         *)
Scarce == [Match EXCEPT !.found = <<Unprotected(p1), Unprotected(p2), Unprotected(p3),
                                    Unprotected(p4), Unprotected(p5)>>,
                        !.contents = {<<x1, x1, x1>>, <<x1, x1, z1>>},
                        !.unreadable = {}, !.max_open = 4]

(* fdupes -d                                                               *)
Ask == [Match EXCEPT !.found = <<Unprotected(p1), Unprotected(p2), Protected(p3),
                                 Unprotected(p4)>>,
                     !.contents = {<<x1>>, <<y1, x1, x1>>},
                     !.unreadable = {}, !.prompt = TRUE]

(* fdupes -d -N -M -1, which considers empty files, while others write.    *)
Busy == [Match EXCEPT !.found = <<Unprotected(p1), Unprotected(p2), Protected(p3)>>,
                      !.contents = {<<>>, <<x1>>, <<x1, x1, x1>>},
                      !.unreadable = {p2}, !.min_size = -1, !.max_writes = 2]

(* fdupes -n -M -1 with a directory given twice: the groups are printed.   *)
Twice == [Match EXCEPT !.found = <<Unprotected(p1), Unprotected(p2), Unprotected(p3),
                                   Unprotected(p1), Unprotected(p2)>>,
                       !.contents = {<<>>, <<x1>>, <<x1, x1, x1>>},
                       !.unreadable = {p2}, !.min_size = -1, !.exclude_empty = TRUE,
                       !.delete = FALSE]

(* fdupes -d -N -r -s -R protected: p2 is found below a directory of that  *)
(* name and through a link to it, p3 below it only.                        *)
Linked == [Match EXCEPT !.found = <<Unprotected(p1), Protected(p2), Protected(p3),
                                    Unprotected(p2)>>,
                        !.contents = {<<x1>>, <<x1, x1, y1>>},
                        !.unreadable = {}]

MCScenarios == {Match, Scarce, Ask, Busy, Twice, Linked}
=============================================================================
