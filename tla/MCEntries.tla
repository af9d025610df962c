------------------------------ MODULE MCEntries ------------------------------
(***************************************************************************)
(* Entries with four source files in a directory and a sub-directory that  *)
(* the configuration names twice (d2 is a path of its own and inside d1),  *)
(* a directory whose file is in another, too, a file that cannot be        *)
(* classified, and layouts of up to two levels drawn from three names.     *)
(***************************************************************************)
EXTENDS Entries

CONSTANTS f1, f2, f3, f4, d1, d2, d3, text, image, small, a, b

MCSource == {f1, f2, f3, f4}
MCSourceDir == {d1, d2, d3}
MCPaths == <<d1, d2>>
MCFilesIn == [d \in MCSourceDir |-> CASE d = d1 -> {f1, f2} [] d = d2 -> {f3, f4} [] d = d3 -> {f1}]
MCSubDirs == [d \in MCSourceDir |-> IF d = d1 THEN <<d2, d3>> ELSE <<>>]
MCUnclassifiable == {f4}
MCBase == {a, b}
MCBaseName == [f \in MCSource |-> IF f = f1 THEN a ELSE b]
MCKey == {text, image, small}
MCPathParts ==
    [f \in MCSource |->
        CASE f = f1 -> {<<text, small>>, <<image>>}
          [] f = f2 -> {<<image, small>>, <<text>>, <<>>}
          [] f = f3 -> {<<small, small>>}
          [] f = f4 -> {}]
=============================================================================
