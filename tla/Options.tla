------------------------------- MODULE Options --------------------------------
(***************************************************************************)
(* The parser of command lines (src/options.cpp) that tidy uses, with the  *)
(* handler that tidy gives it (src/main.cpp).  A program registers its     *)
(* options, then getopt() takes the command line, calling handlers and     *)
(* storing flags as it goes, or shows the usage and exits.                 *)
(*                                                                         *)
(* getopt_long(3), which it uses, is external: operands are passed over,   *)
(* an option takes the next word whatever it is, and a long name may be    *)
(* cut short.                                                              *)
(***************************************************************************)
EXTENDS Integers, Sequences, FiniteSets, SequencesExt

CONSTANTS
    Programs,    \* what may be registered: sequences of the calls of
                 \* add_section() and add_option()
    Lines,       \* the command lines of each program, as sequences of pieces
    Spelled,     \* how getopt_long() reads each word
    Abbreviates, \* the names that each name cut short begins
    Number,      \* the texts that sscanf("%zu") reads, and what it makes of them
    Rank         \* the order of the names of sections

(* An option has no name, letter, flag or handler where it is None; as a   *)
(* value, and as what getopt_long() returns, None is 0.                    *)
None == ""
DEFAULT_PRIORITY == 1

(* A piece is some words of a line and what they are meant to do: a        *)
(* sequence of effects, operands, the end of the options, or an exit.      *)
ASSUME OptionsAssumption ==
    /\ DOMAIN Lines = Programs
    /\ \A p \in Programs :
          /\ p \in Seq(ToSet(p))
          /\ \A i \in DOMAIN p :
                /\ p[i].section \in DOMAIN Rank
                /\ \/ p[i].call = "add_section" /\ p[i].priority \in Int
                   \/ p[i].call = "add_option" /\ p[i].arg \in BOOLEAN
          /\ \A l \in Lines[p] :
                l \in Seq(ToSet(l)) /\ \A i \in DOMAIN l : l[i].words \in Seq(DOMAIN Spelled)
    /\ \A w \in DOMAIN Spelled :
          /\ Spelled[w].dashes \in 0..2
          /\ Spelled[w].dashes = 1 => Spelled[w].letters \in Seq(ToSet(Spelled[w].letters))
    /\ \A s \in DOMAIN Rank : Rank[s] \in Int
    /\ \A s, t \in DOMAIN Rank : Rank[s] = Rank[t] => s = t

VARIABLES
    program,     \* the calls that register
    line,        \* the command line
    pc,
    made,        \* how many of the calls have been made
    parameters, sections,  \* _parameters, _sections
    words,       \* the words getopt_long() has not come to
    cluster,     \* the letters left of the word it is in
    operands,    \* the words it has passed over
    c, index, optarg,      \* its latest answer
    long,        \* whether that was for a long option
    effects,     \* what flags and handlers have set so far
    shown        \* the options shown by usage()

answer == <<c, index, optarg, long>>
store == <<parameters, sections>>
input == <<words, cluster, operands>>
vars == <<program, line, pc, made, store, input, answer, effects, shown>>

----------------------------------------------------------------------------
(* Maps, sorting and filtering, in definitions that can be reasoned about. *)
With(map, key, value) ==
    [k \in DOMAIN map \cup {key} |-> IF k = key THEN value ELSE map[k]]
Sorted(S, Lower(_, _)) ==
    CHOOSE order \in SetToSeqs(S) :
        \A i, j \in DOMAIN order : i < j => Lower(order[i], order[j])
Chosen(seq, Test(_)) ==
    FlattenSeq([i \in DOMAIN seq |-> IF Test(seq[i]) THEN <<seq[i]>> ELSE <<>>])

(* Registration.                                                           *)
add_section(s, priority) == sections' = With(sections, s, priority)

AddSection ==
    /\ pc = "register" /\ made < Len(program)
    /\ LET call == program[made + 1] IN
        /\ call.call = "add_section"
        /\ add_section(call.section, call.priority)
    /\ made' = made + 1
    /\ UNCHANGED <<program, line, pc, parameters, input, answer, effects, shown>>

OfSection(s) == IF s \in DOMAIN parameters THEN parameters[s] ELSE <<>>
AddOption ==
    /\ pc = "register" /\ made < Len(program)
    /\ LET call == program[made + 1] IN
        /\ call.call = "add_option"
        /\ parameters' = With(parameters, call.section, Append(OfSection(call.section), call))
        /\ IF call.section \in DOMAIN sections
           THEN UNCHANGED sections
           ELSE add_section(call.section, DEFAULT_PRIORITY)
    /\ made' = made + 1
    /\ UNCHANGED <<program, line, pc, input, answer, effects, shown>>

StartGetopt ==
    /\ pc = "register" /\ made = Len(program)
    /\ pc' = "getopt"
    /\ words' = FlattenSeq([i \in DOMAIN line |-> line[i].words])
    /\ UNCHANGED <<program, line, made, store, cluster, operands, answer, effects, shown>>

----------------------------------------------------------------------------
(* What getopt() makes of the options, in the order of a std::map.         *)
RankedLower(s, t) == Rank[s] < Rank[t]
InOrder(map) ==
    LET order == Sorted(DOMAIN map, RankedLower)
    IN  FlattenSeq([i \in DOMAIN order |-> map[order[i]]])
Registered == InOrder(parameters)

(* s_options: a letter that comes twice is as it is the first time.        *)
Builtin == {"D", "h", "?"}
Short(l) == Chosen(Registered, LAMBDA o : o.opt = l)
ShortOptions == Builtin \cup ({o.opt : o \in ToSet(Registered)} \ {None})
(* Mutant of TakesArg: no colon is put after a letter.                     *)
TakesNone(l) == FALSE
TakesArg(l) == l \notin Builtin /\ Short(l)[1].arg

(* functions: handlers of a letter, each once.  Mutant of HasFunctions:    *)
(* NULL is not entered.                                                    *)
Functions(l) == {o.fn : o \in {p \in ToSet(Registered) : p.opt = l}}
HasHandlers(l) == Functions(l) \ {None} # {}
HasFunctions(l) == Functions(l) # {}

BuiltinLong(name) == [name |-> name, arg |-> FALSE, flag |-> None, val |-> None]
IsNamed(o) == o.name # None
longopts ==
    <<BuiltinLong("help"), BuiltinLong("manpage")>>
        \o Chosen(Registered, IsNamed)

(* The long options that a name may stand for.  Where they are alike the   *)
(* first is taken, and otherwise none.                                     *)
Candidates(name) ==
    LET exact == {i \in 1..Len(longopts) : longopts[i].name = name}
        cut == {i \in 1..Len(longopts) :
                   name \in DOMAIN Abbreviates /\ longopts[i].name \in Abbreviates[name]}
    IN  IF exact # {} THEN {CHOOSE i \in exact : \A j \in exact : i <= j} ELSE cut
Alike(i, j) ==
    /\ longopts[i].arg = longopts[j].arg
    /\ longopts[i].flag = longopts[j].flag
    /\ longopts[i].val = longopts[j].val
Resolves(name) == Candidates(name) # {} /\ \A i, j \in Candidates(name) : Alike(i, j)
LongIndex(name) == CHOOSE i \in Candidates(name) : \A j \in Candidates(name) : i <= j

----------------------------------------------------------------------------
(* The argument of an option: the rest of its word, or one of those after. *)
GetsArg(wanted, value, after) == ~wanted \/ value # None \/ after # <<>>
TakeArg(wanted, value, after) ==
    /\ optarg' = IF ~wanted THEN None ELSE IF value # None THEN value ELSE Head(after)
    /\ words' = IF wanted /\ value = None THEN Tail(after) ELSE after
Refuse(after) == c' = "?" /\ optarg' = None /\ words' = after

Word == Spelled[Head(words)]
Scans == pc = "getopt" /\ cluster.letters = <<>> /\ words # <<>>

PassOperand ==
    /\ Scans /\ Word.dashes = 0
    /\ operands' = Append(operands, Head(words))
    /\ words' = Tail(words)
    /\ UNCHANGED <<program, line, pc, made, store, cluster, answer, effects, shown>>

EnterCluster ==
    /\ Scans /\ Word.dashes = 1
    /\ cluster' = [letters |-> Word.letters, value |-> Word.value]
    /\ words' = Tail(words)
    /\ UNCHANGED <<program, line, pc, made, store, operands, answer, effects, shown>>

ShortOption ==
    /\ pc = "getopt" /\ cluster.letters # <<>>
    /\ LET l == Head(cluster.letters) IN
        IF l \in ShortOptions /\ GetsArg(TakesArg(l), cluster.value, words)
        THEN c' = l /\ TakeArg(TakesArg(l), cluster.value, words)
        ELSE Refuse(words)
    /\ cluster' = [cluster EXCEPT !.letters = Tail(@)]
    /\ pc' = "answered" /\ long' = FALSE
    /\ UNCHANGED <<program, line, made, store, operands, index, effects, shown>>

LongOption ==
    /\ Scans /\ Word.dashes = 2 /\ Word.name # None
    /\ LET i == LongIndex(Word.name)
           o == longopts[i]
       IN IF /\ Resolves(Word.name)
             /\ GetsArg(o.arg, Word.value, Tail(words)) /\ (o.arg \/ Word.value = None)
          THEN /\ TakeArg(o.arg, Word.value, Tail(words))
               /\ index' = i
               /\ c' = IF o.flag = None THEN o.val ELSE None
               /\ effects' = IF o.flag = None THEN effects
                             ELSE Append(effects, [what |-> o.flag, to |-> o.val])
          ELSE Refuse(Tail(words)) /\ UNCHANGED <<index, effects>>
    /\ pc' = "answered" /\ long' = TRUE
    /\ UNCHANGED <<program, line, made, store, cluster, operands, shown>>

(* The options end at "--" or with the words, and the operands are left.   *)
OptionsEnd ==
    /\ pc = "getopt" /\ cluster.letters = <<>>
    /\ words # <<>> => Word.dashes = 2 /\ Word.name = None
    /\ operands' = IF words = <<>> THEN operands ELSE operands \o Tail(words)
    /\ words' = <<>>
    /\ pc' = "run"
    /\ UNCHANGED <<program, line, made, store, cluster, answer, effects, shown>>

----------------------------------------------------------------------------
(* tidy's handler.                                                         *)
SettingOf ==
    [command \in {"s", "structure", "t", "threshold", "1", "hash-split", "v", "limit"} |->
        CASE command \in {"s", "structure"} -> "box_structure"
          [] command \in {"t", "threshold"} -> "threshold"
          [] command \in {"1", "hash-split"} -> "sha_split_point"
          [] command = "v" -> "verbosity"
          [] command = "limit" -> "limit_files"]
Counts == {"threshold", "sha_split_point", "limit_files"}
processOption(command, arg) ==
    IF command \notin DOMAIN SettingOf THEN <<>>
    ELSE LET what == SettingOf[command] IN
         IF what = "verbosity" THEN <<[what |-> what, to |-> "one more"]>>
         ELSE IF what \notin Counts THEN <<[what |-> what, to |-> arg]>>
         ELSE IF arg \in DOMAIN Number THEN <<[what |-> what, to |-> Number[arg]]>>
         ELSE <<>>

(* A handler of another program is known by its name.                      *)
Call(fn, name, arg) ==
    IF fn = None THEN <<>>
    ELSE IF fn = "processOption" THEN processOption(name, arg)
    ELSE <<[what |-> fn, to |-> arg]>>
Calls(fns, name) == FlattenSeq([i \in DOMAIN fns |-> Call(fns[i], name, optarg)])

(* usage(): sections of higher priority first, then by name; in each the   *)
(* options in the order they were registered.                              *)
Earlier(s, t) ==
    sections[s] > sections[t] \/ (sections[s] = sections[t] /\ Rank[s] < Rank[t])
(* Mutant of usage: sections are a set whose order is that of priorities.  *)
usageOfSet ==
    LET first == {s \in DOMAIN sections :
                     \A t \in DOMAIN sections : sections[s] = sections[t] => Rank[s] <= Rank[t]}
        order == Sorted(first, Earlier)
    IN  FlattenSeq([i \in DOMAIN order |-> OfSection(order[i])])
usage ==
    LET order == Sorted(DOMAIN sections, Earlier)
    IN  FlattenSeq([i \in DOMAIN order |-> OfSection(order[i])])

Answered == pc = "answered" /\ UNCHANGED <<program, line, made, store, input, answer>>
ByLetter == c # None /\ c # "D" /\ HasFunctions(c)
AsksUsage == c \in {"h", "?"} /\ ~ByLetter
ByName == ~ByLetter /\ ~AsksUsage /\ c # "D"
Name == longopts[index].name

Describe == Answered /\ c = "D" /\ pc' = "exited" /\ UNCHANGED <<effects, shown>>

(* The handlers are called in the order of their addresses.                *)
CallByLetter ==
    /\ Answered /\ ByLetter
    /\ \E fns \in SetToSeqs(Functions(c)) : effects' = effects \o Calls(fns, c)
    /\ pc' = "getopt" /\ UNCHANGED shown

ShowUsage ==
    /\ Answered
    /\ AsksUsage \/ (ByName /\ Name \in {"help", "manpage"})
    /\ shown' = usage
    /\ pc' = "exited" /\ UNCHANGED effects

CallByName ==
    /\ Answered /\ ByName /\ Name \notin {"help", "manpage"}
    /\ LET named == Chosen(Registered, LAMBDA o : o.name = Name)
       IN  effects' = effects \o Calls([i \in DOMAIN named |-> named[i].fn], Name)
    /\ pc' = "getopt" /\ UNCHANGED shown

Init ==
    /\ program \in Programs /\ line \in Lines[program]
    /\ pc = "register" /\ made = 0
    /\ parameters = <<>> /\ sections = <<>>
    /\ words = <<>> /\ cluster = [letters |-> <<>>, value |-> None] /\ operands = <<>>
    /\ c = None /\ index = 0 /\ optarg = None /\ long = FALSE
    /\ effects = <<>> /\ shown = <<>>

Next ==
    \/ AddSection \/ AddOption \/ StartGetopt
    \/ PassOperand \/ EnterCluster \/ ShortOption \/ LongOption \/ OptionsEnd
    \/ Describe \/ CallByLetter \/ ShowUsage \/ CallByName

Spec == Init /\ [][Next]_vars
----------------------------------------------------------------------------
(* What may be set, and to what: a flag of an option, or what a handler    *)
(* sets, to the option's value, to an argument from the line, or to what   *)
(* sscanf() makes of one.                                                  *)
Added == {o \in ToSet(program) : o.call = "add_option"}
Arguments ==
    {None} \cup DOMAIN Spelled
        \cup {Spelled[w].value : w \in {v \in DOMAIN Spelled : Spelled[v].dashes # 0}}
Effect ==
    [what : {SettingOf[command] : command \in DOMAIN SettingOf}
                \cup {o.flag : o \in Added} \cup {o.fn : o \in Added},
     to : Arguments \cup {"one more"} \cup {Number[text] : text \in DOMAIN Number}
              \cup {o.val : o \in Added}]

(* Type correctness, checked with UsageComplete.                           *)
TypeOK ==
    /\ program \in Programs
    /\ pc \in {"register", "getopt", "answered", "run", "exited"}
    /\ made \in 0..Len(program)
    /\ DOMAIN parameters \subseteq DOMAIN sections
    /\ Len(Registered) + Cardinality({i \in 1..made : program[i].call = "add_section"}) = made
    /\ \A s \in DOMAIN sections : sections[s] \in Int
    /\ {words, operands} \subseteq Seq(DOMAIN Spelled)
    /\ c \in ShortOptions \cup {o.val : o \in ToSet(longopts)}
    /\ index \in 0..Len(longopts)
    /\ long \in BOOLEAN
    /\ effects \in Seq(Effect)

(* src/options.cpp:108: index is only written for a long option.  It is    *)
(* not read before, and never for a short option, where it would be that of*)
(* another: whatever is registered, and whatever the line asks for.        *)
IndexFresh == pc = "answered" /\ ByName => long /\ index \in 1..Len(longopts)

(* What the words of the line are meant to do, up to the first that makes  *)
(* the program exit; behind "--" there are only operands.                  *)
Meaning ==
    FoldLeft(LAMBDA m, p :
                IF m.exits THEN m
                ELSE IF m.ended THEN [m EXCEPT !.operands = @ \o p.words]
                ELSE [effects |-> m.effects \o p.effects, exits |-> p.exits,
                      operands |-> m.operands \o p.operands, ended |-> p.ends],
             [effects |-> <<>>, operands |-> <<>>, exits |-> FALSE, ended |-> FALSE], line)

(* The letter of an option with a flag may be on the line.                 *)
FlagByLetter ==
    \E i \in DOMAIN line : \E w \in ToSet(line[i].words), o \in Added :
        /\ Spelled[w].dashes = 1
        /\ o.opt \in ToSet(Spelled[w].letters) /\ o.flag # None

(* However an option is spelled, cut short, joined with others or mixed    *)
(* with operands, it has its effect, once and in its turn; the word that is*)
(* its argument is neither an option nor an operand; the operands are all  *)
(* left, in order; and when one word asks for help or is not understood    *)
(* nothing is done with any operand, not even those before it.  One        *)
(* spelling is left out here, because it does nothing (src/options.cpp:95):*)
(* the letter of an option that has a flag, of which SeenIsStored speaks.  *)
(* None of tidy's options has both.                                        *)
AsMeant ==
    FlagByLetter
    \/ /\ pc \in {"run", "exited"} => effects = Meaning.effects
       /\ pc = "run" => operands = Meaning.operands /\ ~Meaning.exits
       /\ pc = "exited" => Meaning.exits

(* src/options.h:35-36: the value of an option that has a flag is stored in*)
(* the flag to indicate that the option was seen.  When the program goes on*)
(* to its operands, all that the line's options are to set has been set.   *)
SeenIsStored == pc = "run" => ToSet(Meaning.effects) \subseteq ToSet(effects)

(* The usage shows each option that was registered once, those of sections *)
(* of higher priority first, in the order they were registered: however    *)
(* sections and options were mixed, and where several sections have the    *)
(* same priority (src/options.h:153-161).                                  *)
PriorityOf(s) ==
    LET given == {i \in DOMAIN program :
                     program[i].call = "add_section" /\ program[i].section = s}
    IN  IF given = {} THEN DEFAULT_PRIORITY
        ELSE program[CHOOSE i \in given : \A j \in given : j <= i].priority
Asked(calls, s) == Chosen(calls, LAMBDA o : o.call = "add_option" /\ o.section = s)
UsageComplete ==
    /\ TypeOK
    /\ pc = "exited" /\ c # "D" =>
        /\ Len(shown) = Cardinality({i \in DOMAIN program : program[i].call = "add_option"})
        /\ \A s \in DOMAIN Rank : Asked(shown, s) = Asked(program, s)
        /\ \A i, j \in DOMAIN shown :
              i < j => PriorityOf(shown[i].section) >= PriorityOf(shown[j].section)
=============================================================================
