------------------------------ MODULE MCOptions -------------------------------
(***************************************************************************)
(* Two programs: tidy, with the options that main() registers, and one     *)
(* that uses what else the parser offers: sections, handlers that several  *)
(* options share, a flag with a letter, a value instead of a flag.         *)
(***************************************************************************)
EXTENDS Options, TLC

Section(s, priority) == [call |-> "add_section", section |-> s, priority |-> priority]
Opt(s, name, opt, flag, val, fn, arg) ==
    [call |-> "add_option", section |-> s, name |-> name, opt |-> opt, flag |-> flag,
     val |-> val, fn |-> fn, arg |-> arg]
TidyOption(name, opt, flag, arg) == Opt("", name, opt, flag, "", "processOption", arg)

Tidy ==
    <<TidyOption("structure", "s", "", TRUE), TidyOption("threshold", "t", "", TRUE),
      TidyOption("hash-split", "1", "", TRUE), TidyOption("", "v", "", FALSE),
      TidyOption("dry-run", "", "perform_actions", FALSE),
      TidyOption("disable-group-dir", "", "use_group_dirs", FALSE),
      TidyOption("case-sensitive", "", "case_insensitive", FALSE),
      TidyOption("limit", "", "", TRUE)>>
Other ==
    <<Section("late", 1), Opt("late", "almost", "a", "", "", "f", FALSE),
      Opt("", "all", "a", "", "", "f", FALSE), Opt("late", "all", "", "", "", "g", FALSE),
      Opt("first", "note", "n", "noted", "yes", "", FALSE), Section("first", 2),
      Opt("same", "zip", "z", "", "z", "f", TRUE), Opt("same", "val", "", "", "w", "g", FALSE)>>
MCPrograms == {Tidy, Other}
MCRank == "" :> 0 @@ "first" :> 1 @@ "late" :> 2 @@ "same" :> 3

ShortWord(letters, value) == [dashes |-> 1, letters |-> letters, value |-> value]
LongWord(name, value) == [dashes |-> 2, name |-> name, value |-> value]
Plain == [dashes |-> 0]
MCSpelled ==
    "dir" :> Plain @@ "5" :> Plain @@ "many" :> Plain @@ "--" :> LongWord("", "")
    @@ "-s" :> ShortWord(<<"s">>, "") @@ "-vvt7" :> ShortWord(<<"v", "v", "t">>, "7")
    @@ "-t" :> ShortWord(<<"t">>, "") @@ "-y" :> ShortWord(<<"y">>, "")
    @@ "-1many" :> ShortWord(<<"1">>, "many") @@ "-vh" :> ShortWord(<<"v", "h">>, "")
    @@ "--str" :> LongWord("str", "") @@ "--threshold=7" :> LongWord("threshold", "7")
    @@ "--limit" :> LongWord("limit", "") @@ "--d" :> LongWord("d", "")
    @@ "--dry" :> LongWord("dry", "") @@ "--help" :> LongWord("help", "")
    @@ "--manpage" :> LongWord("manpage", "") @@ "--help=5" :> LongWord("help", "5")
    @@ "--case-sensitive" :> LongWord("case-sensitive", "")
    @@ "-D" :> ShortWord(<<"D">>, "") @@ "-az5" :> ShortWord(<<"a", "z">>, "5")
    @@ "--all" :> LongWord("all", "") @@ "--al" :> LongWord("al", "")
    @@ "-n" :> ShortWord(<<"n">>, "") @@ "--note" :> LongWord("note", "")
    @@ "--zip" :> LongWord("zip", "") @@ "--val" :> LongWord("val", "")
MCAbbreviates ==
    "str" :> {"structure"} @@ "d" :> {"dry-run", "disable-group-dir"} @@ "dry" :> {"dry-run"}
    @@ "al" :> {"all", "almost"}
MCNumber == "5" :> "5" @@ "7" :> "7"

Sets(what, to) == <<[what |-> what, to |-> to]>>
Does(wds, effs) ==
    [words |-> wds, effects |-> effs, operands |-> <<>>, exits |-> FALSE, ends |-> FALSE]
Operand(word) == [Does(<<word>>, <<>>) EXCEPT !.operands = <<word>>]
Ends == [Does(<<"--">>, <<>>) EXCEPT !.ends = TRUE]
Exits(wds, effs) == [Does(wds, effs) EXCEPT !.exits = TRUE]

More == Sets("verbosity", "one more")
TidyPieces ==
    {Does(<<"-s", "--help">>, Sets("box_structure", "--help")),
     Does(<<"--str", "dir">>, Sets("box_structure", "dir")),
     Does(<<"-vvt7">>, More \o More \o Sets("threshold", "7")),
     Does(<<"-t", "many">>, <<>>), Does(<<"--threshold=7">>, Sets("threshold", "7")),
     Does(<<"-1many">>, <<>>), Does(<<"--limit", "5">>, Sets("limit_files", "5")),
     Does(<<"--dry">>, Sets("perform_actions", "")),
     Does(<<"--case-sensitive">>, Sets("case_insensitive", "")),
     Operand("dir"), Operand("5"), Ends,
     Exits(<<"--d">>, <<>>), Exits(<<"-y">>, <<>>), Exits(<<"-vh">>, More),
     Exits(<<"--help=5">>, <<>>), Exits(<<"--manpage">>, <<>>), Exits(<<"-D">>, <<>>)}
OtherPieces ==
    {Does(<<"-az5">>, Sets("f", "") \o Sets("f", "5")),
     Does(<<"--all">>, Sets("f", "") \o Sets("g", "")), Does(<<"--al">>, Sets("f", "") \o Sets("g", "")),
     Does(<<"-n">>, Sets("noted", "yes")), Does(<<"--note">>, Sets("noted", "yes")),
     Does(<<"--zip", "-az5">>, Sets("f", "-az5")), Does(<<"--val">>, Sets("g", "")),
     Operand("dir"), Exits(<<"--help">>, <<>>)}
MCLines ==
    LET Of(pieces, last) == {<<p, q>> \o r : p, q \in pieces, r \in {<<x>> : x \in last} \cup {<<>>}}
    IN  Tidy :> (Of(TidyPieces, TidyPieces \cup {Exits(<<"--limit">>, <<>>), Exits(<<"-t">>, <<>>)})
                   \cup {<<>>})
        @@ Other :> Of(OtherPieces, OtherPieces)
=============================================================================
