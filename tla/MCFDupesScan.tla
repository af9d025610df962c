----------------------------- MODULE MCFDupesScan -----------------------------
(***************************************************************************)
(* A tree of three directories:                                            *)
(*     top   a.txt, empty, sub/, loop -> top                               *)
(*     sub   b.jpg, keep/, link -> a.txt, gone -> nothing                  *)
(*     keep  a.txt, pipe -> a pipe                                         *)
(* "sub" may be an argument, too.                                          *)
(***************************************************************************)
EXTENDS FDupesScan, TLC

CONSTANTS top, sub, keep, file1, file2, file3, nothing, zero, pipe

MCNode == {top, sub, keep, file1, file2, file3, nothing, zero, pipe}
MCKind == [n \in MCNode |-> CASE n \in {top, sub, keep} -> "dir" [] n = nothing -> "none"
                              [] n = pipe -> "other" [] OTHER -> "file"]
MCSizeOf == [n \in MCNode |-> CASE n \in {zero, pipe, nothing, keep} -> 0 [] n = file3 -> 2
                                [] OTHER -> 1]
Plain(name, node) == [name |-> name, link |-> FALSE, node |-> node]
Link(name, node) == [name |-> name, link |-> TRUE, node |-> node]
MCEntries == [n \in MCNode |->
    CASE n = top -> {Plain("a.txt", file1), Plain("empty", zero), Plain("sub", sub),
                     Link("loop", top)}
      [] n = sub -> {Plain("b.jpg", file2), Plain("keep", keep), Link("link", file1),
                     Link("gone", nothing)}
      [] n = keep -> {Plain("a.txt", file3), Link("pipe", pipe)}
      [] OTHER -> {}]
MCName == {"a.txt", "empty", "sub", "loop", "b.jpg", "keep", "link", "gone", "pipe",
           "top", "top/sub"}
MCParts == [n \in MCName |-> IF n = "top/sub" THEN {"top", "sub"} ELSE {n}]
MCGiven == "top" :> top @@ "top/sub" :> sub
(* A star matches a slash, too: the last pattern is for all below "keep".  *)
MCMatches(g, path) ==
    CASE g = "*.txt" -> Last(path) = "a.txt"
      [] g = "*.jpg" -> Last(path) = "b.jpg"
      [] g = "*/keep/*" -> \E i \in 2..(Len(path) - 1) : path[i] = "keep"

Letter(o) == [opt |-> o, arg |-> 0]
With(o, arg) == [opt |-> o, arg |-> arg]
Run(opts, dirs, max_open) == [opts |-> opts, dirs |-> dirs, max_open |-> max_open]

MCInvocations ==
    {Run(opts, dirs, 4) :
        opts \in {<<>>, <<Letter("r")>>, <<Letter("r"), With("R", "sub")>>,
                  <<With("R", "keep"), Letter("r"), With("M", -1), Letter("n")>>,
                  <<Letter("r"), With("M", 1), With("M", -1), With("i", "*.txt")>>,
                  <<Letter("r"), With("i", "*.txt"), With("i", "*.jpg"), With("R", "top")>>,
                  <<With("i", "*/keep/*"), Letter("r")>>},
        dirs \in {<<"top">>, <<"top/sub">>, <<"top", "top/sub">>}}
    \cup {Run(<<Letter("r"), Letter("s")>>, <<"top">>, n) : n \in 2..4}
    \cup {Run(<<Letter("s"), Letter("r"), With("R", "keep"), With("R", "loop"), With("M", -1)>>,
              <<"top/sub">>, 3)}
    \cup {Run(<<Letter("r"), Letter("f")>>, <<"top">>, 4), Run(<<Letter("r")>>, <<>>, 4)}
=============================================================================
