----------------------------- MODULE MCPassthru -----------------------------
(* Two workers, two files of one directory, a directory that Opendir()     *)
(* refuses, and three descriptors, one of them inherited.                  *)
EXTENDS Passthru, TLC

CONSTANTS p1, p2, root, sub

MCPath == {p1, p2}
MCDir == {root, sub}
MCTopDirs == {root}
MCDirOf == [p \in MCPath |-> root]
MCInherited == {0}

Symmetries == Permutations(Worker) \cup Permutations(Inode) \cup Permutations(Handle)
=============================================================================
