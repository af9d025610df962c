------------------------------ MODULE MCHandles ------------------------------
(***************************************************************************)
(* Two workers, two open files, one name and two files that come to be at  *)
(* its path, and six descriptors: those below 3 and FUSE's leave two for   *)
(* the scanner and the open files.                                         *)
(***************************************************************************)
EXTENDS Handles, TLC

CONSTANTS i1, i2, text, other, config

MCInode == {i1, i2}
MCData == [i \in MCInode \cup {ConfigInode} |->
                   CASE i = i1 -> text [] i = i2 -> other [] OTHER -> config]

Symmetries == Permutations(Worker) \cup Permutations(Handle)
=============================================================================
