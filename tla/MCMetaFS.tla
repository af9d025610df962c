------------------------------ MODULE MCMetaFS -------------------------------
(***************************************************************************)
(* MetaFS over small trees.  "Deep" has two files, one of them two levels  *)
(* deep, and a choice of layouts, so that names are interned while others  *)
(* are being walked; "Flat" has two files side by side in one directory.   *)
(***************************************************************************)
EXTENDS MetaFS, TLC

CONSTANTS f1, f2, d1, d2, text, image, small, a, b, w1, w2

MCSourceDir == {d1, d2}
MCPaths == <<d1>>
MCFilesIn == [d \in MCSourceDir |-> IF d = d1 THEN {f1} ELSE {f2}]
MCSubDirs == [d \in MCSourceDir |-> IF d = d1 THEN <<d2>> ELSE <<>>]
MCBaseName == [f \in Source |-> a]

(* Deep                                                                    *)
DeepKey == {text, small, image}
DeepPathParts == [f \in Source |-> IF f = f1 THEN {<<text, small>>, <<image>>}
                                             ELSE {<<image, small>>}]
DeepDirs == {<<>>, <<text>>, <<image>>, <<small>>, <<text, small>>, <<image, small>>}

(* Flat                                                                    *)
FlatKey == {text}
FlatPathParts == [f \in Source |-> {<<text>>}]
FlatDirs == {<<text>>}

(* The workers run the same code.  Sound for the safety runs only.         *)
WorkerSymmetry == Permutations(Worker)
=============================================================================
