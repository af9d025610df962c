------------------------------- MODULE MCTidy -------------------------------
(***************************************************************************)
(* Tidy over two source directories: a, b and c share a key, and b and c a *)
(* size and the key of the name, too; d is of another size, in the other   *)
(* directory under the name of a, or boxed before it was edited; dead is a *)
(* link whose target is missing, loop one whose target is a directory.     *)
(***************************************************************************)
EXTENDS Tidy, TLC

CONSTANTS a, b, c, d, dead, loop, text, here, first, second, byType, byDate

MCMagic == [f \in File |-> text]
MCSizeOf == [f \in File |-> IF f = d THEN 2 ELSE IF f = a THEN 4 ELSE 3]
MCHuman == [s \in 2..4 |-> IF s = 2 THEN 2 ELSE 3]
MCDateOf == [f \in File |-> IF f \in {a, b} THEN 1 ELSE 2]

(* "%m/%z" and "%d".                                                       *)
MCStructure == {byType, byDate}
MCExpanded ==
    [x \in MCStructure \X {text} \X {2, 3} \X {1, 2} |->
        IF x[1] = byType THEN <<x[2], x[3]>> ELSE <<x[4]>>]
MCDirectory == Range(MCExpanded)

(* The names 2 and 3 have the same key.                                    *)
MCName == 1..4
MCNameKey == <<11, 12, 12, 13>>

MCSourceDir == {1, 2}
At(dir, name) == [dir |-> <<NoKey, dir>>, name |-> name]
Tree == At(1, 1) :> a @@ At(1, 2) :> b @@ At(2, 3) :> c @@ At(2, 1) :> d
EditedTree ==
    At(1, 2) :> b @@ At(2, 3) :> c @@ At(1, 1) :> loop
        @@ [dir |-> <<<<text, 3>>, 2>>, name |-> 4] :> d
MCTrees == {Tree @@ At(1, 4) :> dead, EditedTree}
NoLinks == {Tree}

(* The numbers 0 to 9 with the digits 0, 1 and 2 only, in the order of     *)
(* their spelling: 3 is "10", and comes before 2.                          *)
BySpelling == <<0, 1, 3, 9, 4, 5, 2, 6, 7, 8>>
MCInverted == {<<BySpelling[j], BySpelling[i]>> :
                  <<i, j>> \in {x \in (1..10) \X (1..10) :
                                   x[1] < x[2] /\ BySpelling[x[1]] > BySpelling[x[2]]}}

MCRoot == {here, first, second}
MCBelow == [r \in MCRoot |-> CASE r = here -> {1, 2} [] r = first -> {1} [] r = second -> {2}]

Call(dirs) == [dirs |-> dirs, structure |-> byType, perform_actions |-> TRUE, use_group_dirs |-> TRUE,
               threshold |-> 2, limit_files |-> 0]
Plain == {Call(dirs) : dirs \in {<<here>>, <<first>>, <<second>>}}
MCArgs ==
    {Call(<<here>>), Call(<<first>>), Call(<<first, here>>),
     [Call(<<here>>) EXCEPT !.structure = byDate],
     [Call(<<here>>) EXCEPT !.perform_actions = FALSE],
     [Call(<<here>>) EXCEPT !.use_group_dirs = FALSE],
     [Call(<<here>>) EXCEPT !.threshold = 1],
     [Call(<<here>>) EXCEPT !.threshold = 0],
     [Call(<<first, second>>) EXCEPT !.limit_files = 1]}
=============================================================================
