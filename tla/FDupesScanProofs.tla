---------------------------- MODULE FDupesScanProofs ---------------------------
(***************************************************************************)
(* Proofs about module FDupesScan, for any tree, with links that lead      *)
(* anywhere, and any command line: the scan finds what the options ask for *)
(* and nothing else, finds it once, and knows what is read only.           *)
(***************************************************************************)
EXTENDS FDupesScan, FiniteSetTheorems, WellFoundedInduction, TLAPS

(* A set of numbers has a least one.  The induction theorems of the library*)
(* take an operator; this takes a set, and comes from finite sets being    *)
(* well ordered by inclusion.                                              *)
LEMMA LeastNumber ==
    ASSUME NEW T \in SUBSET Nat, T # {}
    PROVE  \E n \in T : \A m \in T : n <= m
<1>. DEFINE F == {0..n : n \in T}
<1>1. F \subseteq FiniteSubsetsOf(Nat)
  <2>1. \A n \in Nat : IsFiniteSet(0..n)
    BY FS_Interval
  <2>2. \A n \in Nat : 0..n \subseteq Nat
    OBVIOUS
  <2>. QED
    BY <2>1, <2>2 DEF FiniteSubsetsOf
<1>2. F # {}
  OBVIOUS
<1>3. IsWellFoundedOn(StrictSubsetOrdering(Nat), FiniteSubsetsOf(Nat))
  BY FS_StrictSubsetOrderingWellFounded
<1>4. PICK s \in F : \A t \in F : ~ (<<t, s>> \in StrictSubsetOrdering(Nat))
  <2>. HIDE DEF F
  <2>. QED
    BY <1>1, <1>2, <1>3, WFMin
<1>5. PICK n \in T : s = 0..n
  BY <1>4
<1>6. ASSUME NEW m \in T PROVE n <= m
  <2>1. 0..m \in F
    OBVIOUS
  <2>2. ~ (<<0..m, 0..n>> \in StrictSubsetOrdering(Nat))
    BY <2>1, <1>4, <1>5
  <2>3. SUFFICES ASSUME m < n PROVE FALSE
    OBVIOUS
  <2>4. 0..m \subseteq 0..n /\ n \in 0..n /\ n \notin 0..m /\ 0..m \subseteq Nat /\ 0..n \subseteq Nat
    BY <2>3
  <2>. QED
    BY <2>2, <2>4 DEF StrictSubsetOrdering
<1>. QED
  BY <1>6

(* Hence induction, up to a bound.                                         *)
LEMMA UpTo ==
    ASSUME NEW m \in Nat, NEW S, 0 \in S,
           \A n \in Nat : n < m /\ n \in S => n + 1 \in S
    PROVE  \A n \in 0..m : n \in S
<1>. DEFINE T == {n \in 0..m : n \notin S}
<1>. SUFFICES ASSUME T # {} PROVE FALSE
  OBVIOUS
<1>1. T \in SUBSET Nat
  OBVIOUS
<1>2. PICK n \in T : \A k \in T : n <= k
  <2>. HIDE DEF T
  <2>. QED
    BY <1>1, LeastNumber
<1>3. n # 0 /\ n \in 0..m /\ n \notin S
  BY <1>2
<1>4. n - 1 \in 0..m /\ n - 1 \in Nat /\ n - 1 < m /\ n - 1 \notin T
  BY <1>2, <1>3
<1>. QED
  BY <1>3, <1>4
----------------------------------------------------------------------------
(* The recursion that defines the walks has a solution.                    *)
Depth == argv.max_open + 1
Onward(W) == UNION {{Longer(w, e) : e \in Entries[w.node]} : w \in {v \in W : Passable(v)}}
FirstWalks == {ArgWalk(d) : d \in ToSet(argv.dirs)}

LEMMA WalksOfIs ==
    ASSUME Depth \in Nat
    PROVE  WalksOf = [n \in 1..Depth |-> IF n = 1 THEN FirstWalks ELSE Onward(WalksOf[n - 1])]
<1>. DEFINE Solves(g, m) ==
              g = [n \in 1..m |-> IF n = 1 THEN FirstWalks ELSE Onward(g[n - 1])]
            S == {m \in 0..Depth : \E g : Solves(g, m)}
<1>1. 0 \in S
  <2>1. \E g : Solves(g, 0)
    <3>1. PICK g : g = [n \in 1..0 |-> {}]
      OBVIOUS
    <3>2. g = [n \in 1..0 |-> IF n = 1 THEN FirstWalks ELSE Onward(g[n - 1])]
      BY <3>1
    <3>. QED
      BY <3>2
  <2>2. 0 \in 0..Depth
    OBVIOUS
  <2>. HIDE DEF Solves
  <2>. QED
    BY <2>1, <2>2
<1>2. ASSUME NEW m \in Nat, m < Depth, m \in S PROVE m + 1 \in S
  <2>1. PICK g : Solves(g, m)
    BY <1>2
  <2>. DEFINE h == [n \in 1..(m + 1) |->
                      IF n \in 1..m THEN g[n] ELSE IF n = 1 THEN FirstWalks ELSE Onward(g[n - 1])]
  <2>2. \A n \in 1..m : g[n] = IF n = 1 THEN FirstWalks ELSE Onward(g[n - 1])
    BY <2>1
  <2>3. \A n \in 1..(m + 1) : n # 1 => n - 1 \in 1..m /\ h[n - 1] = g[n - 1]
    OBVIOUS
  <2>4. \A n \in 1..(m + 1) : h[n] = IF n = 1 THEN FirstWalks ELSE Onward(h[n - 1])
    BY <2>2, <2>3
  <2>5. Solves(h, m + 1)
    <3>. HIDE DEF h
    <3>1. h = [n \in 1..(m + 1) |-> h[n]]
      BY DEF h
    <3>. QED
      BY <2>4, <3>1
  <2>6. m + 1 \in 0..Depth
    BY <1>2
  <2>. HIDE DEF h, Solves
  <2>. QED
    BY <2>5, <2>6
<1>3. Depth \in S
  <2>. HIDE DEF S
  <2>. QED
    BY <1>1, <1>2, UpTo
<1>4. PICK g : Solves(g, Depth)
  BY <1>3
<1>. QED
  BY <1>4 DEF WalksOf, FirstWalks, Onward, Depth

(* What the walks are depends on the command line, taken by then.          *)
LEMMA WalksFixed == ASSUME UNCHANGED <<argv, flags>> PROVE WalksOf' = WalksOf
BY DEF WalksOf, ArgWalk, Longer, Passable, Flag

LEMMA WantedFixed == ASSUME UNCHANGED <<argv, settings>>, NEW w PROVE Wanted(w)' <=> Wanted(w)
BY DEF settings, Wanted, Flag, glob_include

----------------------------------------------------------------------------
Entry == [name : Name, link : BOOLEAN, node : Node]
CallRec == [path : Seq(Name), dir : Node, links : 0..MaxLinks, read_only : BOOLEAN,
            left : SUBSET Entry]
FileRec == [path : Seq(Name), node : Node, read_only : BOOLEAN]
Walk == [path : Seq(Name), node : Node, link : BOOLEAN, links : Nat]

TypeInv ==
    /\ argv \in Invocations
    /\ pc \in {"options", "scan", "match", "exited"}
    /\ optind \in Nat \ {0}
    /\ flags \subseteq Flags /\ min_size \in Int /\ globs \subseteq Glob
    /\ read_only \subseteq UNION {Parts[n] : n \in Name}
    /\ calls \in Seq(CallRec)
    /\ filelist \subseteq FileRec
    /\ filecount \in Nat /\ read_only_file_count \in Nat
    /\ missed \in BOOLEAN

(* The calls that have not returned are those of one path, from the        *)
(* innermost out; nothing is found before the options are taken.           *)
StackInv ==
    /\ Len(calls) <= argv.max_open
    /\ \A i \in DOMAIN calls :
          /\ Len(calls[i].path) = Len(calls) - i + 1
          /\ calls[i].left \subseteq Entries[calls[i].dir]
          /\ Kind[calls[i].dir] = "dir"
    /\ \A f \in filelist : Len(f.path) \in 2..Depth
    /\ pc # "scan" => calls = <<>>
    /\ pc = "options" => filelist = {} /\ filecount = 0 /\ ~missed

(* What an entry, a call and the way to its entry are.                     *)
LEMMA EntryType == ASSUME NEW d \in Node, NEW e \in Entries[d]
                   PROVE  /\ e \in Entry /\ e.name \in Name /\ e.link \in BOOLEAN
                          /\ e.node \in Node
BY ScanAssumption DEF Entry

LEMMA CallType ==
    ASSUME NEW p \in Seq(Name), NEW n \in Node, NEW l \in 0..MaxLinks, NEW ro \in BOOLEAN
    PROVE  /\ Call(p, n, l, ro) \in CallRec
           /\ Call(p, n, l, ro).path = p /\ Call(p, n, l, ro).dir = n
           /\ Call(p, n, l, ro).links = l /\ Call(p, n, l, ro).read_only = ro
           /\ Call(p, n, l, ro).left = Entries[n]
<1>1. Entries[n] \in SUBSET Entry
  BY EntryType
<1>. QED
  BY <1>1 DEF Call, CallRec

LEMMA CallFields ==
    ASSUME NEW r \in CallRec
    PROVE  /\ r.path \in Seq(Name) /\ r.dir \in Node /\ r.links \in 0..MaxLinks
           /\ r.read_only \in BOOLEAN /\ r.left \subseteq Entry
BY DEF CallRec

(* The stack of calls after an entry was read, a call was made, and one    *)
(* has returned.                                                           *)
Without(r, q, e) ==
    /\ r \in CallRec
    /\ r.path = q.path /\ r.dir = q.dir /\ r.links = q.links /\ r.read_only = q.read_only
    /\ r.left = q.left \ {e}

LEMMA LeftIs ==
    ASSUME calls \in Seq(CallRec), calls # <<>>, NEW e
    PROVE  /\ Left(e) \in Seq(CallRec) /\ Len(Left(e)) = Len(calls)
           /\ Without(Left(e)[1], calls[1], e)
           /\ \A i \in 2..Len(calls) : Left(e)[i] = calls[i]
<1>. DEFINE q == [calls[1] EXCEPT !.left = @ \ {e}]
<1>1. calls[1] \in CallRec /\ Head(calls) = calls[1] /\ Len(calls) \in Nat \ {0}
  OBVIOUS
<1>2. q \in CallRec /\ Without(q, calls[1], e)
  BY <1>1 DEF CallRec, Without
<1>3. Left(e) = <<q>> \o Tail(calls)
  BY <1>1 DEF Left, TopCall
<1>4. Tail(calls) \in Seq(CallRec) /\ Len(Tail(calls)) = Len(calls) - 1
      /\ \A i \in 1..(Len(calls) - 1) : Tail(calls)[i] = calls[i + 1]
  OBVIOUS
<1>. HIDE DEF q
<1>5. <<q>> \in Seq(CallRec) /\ Len(<<q>>) = 1
  BY <1>2
<1>6. Left(e) \in Seq(CallRec) /\ Len(Left(e)) = Len(calls) /\ Left(e)[1] = q
  BY <1>1, <1>3, <1>4, <1>5
<1>7. \A i \in 2..Len(calls) : Left(e)[i] = calls[i]
  BY <1>1, <1>3, <1>4, <1>5
<1>. QED
  BY <1>2, <1>6, <1>7

LEMMA PushIs ==
    ASSUME NEW r \in CallRec, NEW s \in Seq(CallRec)
    PROVE  /\ <<r>> \o s \in Seq(CallRec) /\ Len(<<r>> \o s) = Len(s) + 1
           /\ (<<r>> \o s)[1] = r
           /\ \A i \in 2..(Len(s) + 1) : (<<r>> \o s)[i] = s[i - 1]
OBVIOUS

LEMMA PopIs ==
    ASSUME calls \in Seq(CallRec), calls # <<>>
    PROVE  /\ Tail(calls) \in Seq(CallRec) /\ Len(Tail(calls)) = Len(calls) - 1
           /\ \A i \in 1..(Len(calls) - 1) : Tail(calls)[i] = calls[i + 1]
           /\ Len(calls) \in Nat \ {0} /\ calls[1] \in CallRec /\ TopCall = calls[1]
BY DEF TopCall

LEMMA DepthType == ASSUME TypeInv PROVE argv.max_open \in Nat /\ Depth \in Nat
BY ScanAssumption DEF TypeInv, Depth

(* What reading an entry gives.                                            *)
LEMMA ReadsIs ==
    ASSUME TypeInv, StackInv, NEW e, Reads(e)
    PROVE  /\ pc = "scan" /\ calls # <<>> /\ TopCall = calls[1] /\ calls[1] \in CallRec
           /\ Len(calls) \in Nat \ {0}
           /\ Len(calls[1].path) = Len(calls)
           /\ e \in Entries[calls[1].dir] /\ e \in Entry
           /\ e.name \in Name /\ e.link \in BOOLEAN /\ e.node \in Node
           /\ PathOf(e) \in Seq(Name) /\ Len(PathOf(e)) = Len(calls) + 1
           /\ PathOf(e)[Len(calls) + 1] = e.name
           /\ \A k \in 1..Len(calls) : PathOf(e)[k] = calls[1].path[k]
           /\ LinksTo(e) \in Nat
           /\ calls[1].dir \in Node
<1>1. pc = "scan" /\ calls # <<>> /\ e \in TopCall.left
  BY DEF Reads
<1>2. TopCall = calls[1] /\ calls[1] \in CallRec /\ Len(calls) \in Nat \ {0}
  BY <1>1, PopIs DEF TypeInv
<1>3. Len(calls[1].path) = Len(calls) /\ e \in Entries[calls[1].dir]
  BY <1>1, <1>2 DEF StackInv
<1>4. calls[1].path \in Seq(Name) /\ calls[1].dir \in Node /\ calls[1].links \in 0..MaxLinks
  BY <1>2, CallFields
<1>5. e \in Entry /\ e.name \in Name /\ e.link \in BOOLEAN /\ e.node \in Node
  BY <1>3, <1>4, EntryType
<1>6. PathOf(e) = Append(calls[1].path, e.name)
  BY <1>2 DEF PathOf
<1>7. LinksTo(e) \in Nat
  BY <1>2, <1>4, ScanAssumption DEF LinksTo
<1>. QED
  BY <1>1, <1>2, <1>3, <1>4, <1>5, <1>6, <1>7
----------------------------------------------------------------------------
(* The steps, as the invariants see them.                                  *)
Fixed == UNCHANGED <<argv, pc, settings>>
Skips(e) ==
    /\ Reads(e) /\ calls' = Left(e) /\ Fixed
    /\ UNCHANGED <<optind, found>>
    /\ missed' = TRUE \/ (PassOver(e) /\ missed' = missed)

LEMMA Steps ==
    ASSUME Next
    PROVE  \/ TakeOption \/ OptionsDone \/ ScanArgument \/ Return \/ ScanDone
           \/ \E e : Descend(e) \/ ListFile(e) \/ Skips(e)
<1>1. CASE TakeOption \/ OptionsDone \/ ScanArgument \/ Return \/ ScanDone
  BY <1>1
<1>2. ASSUME NEW e, Descend(e) \/ CannotDescend(e) \/ ListFile(e) \/ PassOver(e) \/ Gone(e)
      PROVE  Descend(e) \/ ListFile(e) \/ Skips(e)
  <2>1. CASE Descend(e) \/ ListFile(e)
    BY <2>1
  <2>2. CASE CannotDescend(e)
    BY <2>2 DEF CannotDescend, Skips, Fixed
  <2>3. CASE PassOver(e)
    BY <2>3 DEF PassOver, Skips, Fixed
  <2>4. CASE Gone(e)
    BY <2>4 DEF Gone, Skips, Fixed
  <2>. QED
    BY <1>2, <2>1, <2>2, <2>3, <2>4
<1>. QED
  BY <1>1, <1>2 DEF Next

LEMMA InitInv == Init => TypeInv /\ StackInv
<1>. SUFFICES ASSUME Init PROVE TypeInv /\ StackInv
  OBVIOUS
<1>. USE DEF Init
<1>1. calls \in Seq(CallRec) /\ Len(calls) = 0 /\ DOMAIN calls = {}
  OBVIOUS
<1>2. TypeInv
  <2>1. argv \in Invocations /\ pc \in {"options", "scan", "match", "exited"}
        /\ optind \in Nat \ {0}
    OBVIOUS
  <2>2. flags \subseteq Flags /\ min_size \in Int /\ globs \subseteq Glob
        /\ read_only \subseteq UNION {Parts[n] : n \in Name}
    OBVIOUS
  <2>3. filelist \subseteq FileRec /\ filecount \in Nat /\ read_only_file_count \in Nat
        /\ missed \in BOOLEAN
    OBVIOUS
  <2>. QED
    BY ONLY <1>1, <2>1, <2>2, <2>3 DEF TypeInv
<1>3. Len(calls) <= argv.max_open
  BY <1>1, <1>2, DepthType
<1>. QED
  BY <1>1, <1>2, <1>3 DEF StackInv

LEMMA TypeStep == TypeInv /\ StackInv /\ [Next]_vars => TypeInv'
<1>. SUFFICES ASSUME TypeInv, StackInv, [Next]_vars PROVE TypeInv'
  OBVIOUS
<1>1. CASE TakeOption
  <2>. DEFINE o == argv.opts[optind]
  <2>1. optind \in DOMAIN argv.opts /\ Option(o)
    BY <1>1, ScanAssumption DEF TakeOption, TypeInv
  <2>2. min_size' \in Int /\ globs' \subseteq Glob /\ flags' \subseteq Flags
        /\ read_only' \subseteq UNION {Parts[n] : n \in Name}
    <3>1. o.opt = "M" => o.arg \in Int
      BY <2>1 DEF Option, Flags
    <3>2. o.opt = "R" => o.arg \in UNION {Parts[n] : n \in Name}
      BY <2>1 DEF Option, Flags
    <3>3. o.opt = "i" => o.arg \in Glob
      BY <2>1 DEF Option, Flags
    <3>. QED
      BY <1>1, <3>1, <3>2, <3>3 DEF TakeOption, TypeInv
  <2>. QED
    <3>1. optind' \in Nat \ {0} /\ pc' \in {"options", "scan", "match", "exited"}
      BY <1>1 DEF TakeOption, TypeInv
    <3>. QED
      BY <1>1, <2>2, <3>1 DEF TakeOption, TypeInv, found
<1>2. CASE OptionsDone
  BY <1>2 DEF OptionsDone, TypeInv, settings, found
<1>3. CASE ScanArgument
  <2>. DEFINE name == argv.dirs[optind]
  <2>1. name \in Name /\ Given[name] \in Node
    BY <1>3, ScanAssumption DEF ScanArgument, TypeInv
  <2>2. <<name>> \in Seq(Name) /\ 0 \in 0..MaxLinks /\ is_readonly(name) \in BOOLEAN
    BY <2>1, ScanAssumption DEF is_readonly
  <2>3. Call(<<name>>, Given[name], 0, is_readonly(name)) \in CallRec
    BY <2>1, <2>2, CallType
  <2>4. calls' \in Seq(CallRec)
    <3>1. PICK r \in CallRec : r = Call(<<name>>, Given[name], 0, is_readonly(name))
      BY <2>3
    <3>2. calls' = <<r>> \/ calls' = calls
      BY <1>3, <3>1 DEF ScanArgument
    <3>3. <<r>> \in Seq(CallRec)
      OBVIOUS
    <3>4. calls \in Seq(CallRec)
      BY DEF TypeInv
    <3>. QED
      BY ONLY <3>2, <3>3, <3>4
  <2>5. missed' \in BOOLEAN
    BY <1>3, Zenon DEF ScanArgument, TypeInv
  <2>6. optind' \in Nat \ {0}
    BY <1>3 DEF ScanArgument, TypeInv
  <2>7. pc' = pc /\ UNCHANGED <<argv, settings, found>>
    BY <1>3 DEF ScanArgument
  <2>. QED
    BY <2>4, <2>5, <2>6, <2>7 DEF TypeInv, settings, found
<1>4. CASE Return
  <2>1. calls' \in Seq(CallRec)
    BY <1>4, PopIs DEF Return, TypeInv
  <2>. QED
    BY <1>4, <2>1 DEF Return, TypeInv, settings, found
<1>5. CASE ScanDone
  BY <1>5 DEF ScanDone, TypeInv, settings, found
<1>6. ASSUME NEW e, Descend(e) PROVE TypeInv'
  <2>1. Reads(e)
    BY <1>6 DEF Descend
  <2>2. PathOf(e) \in Seq(Name) /\ e.node \in Node /\ LinksTo(e) \in Nat
        /\ TopCall = calls[1] /\ calls[1] \in CallRec /\ calls # <<>>
    BY <2>1, ReadsIs
  <2>3. LinksTo(e) \in 0..MaxLinks
    BY <1>6, <2>2, ScanAssumption DEF Descend, Descends, Found
  <2>4. TopCall.read_only \/ is_readonly(e.name) \in BOOLEAN
    BY <2>2, CallFields DEF is_readonly
  <2>. DEFINE r == Call(PathOf(e), e.node, LinksTo(e), TopCall.read_only \/ is_readonly(e.name))
  <2>5. r \in CallRec
    BY <2>2, <2>3, <2>4, CallType
  <2>6. Left(e) \in Seq(CallRec)
    BY <2>2, LeftIs DEF TypeInv
  <2>7. calls' = <<r>> \o Left(e)
    BY <1>6 DEF Descend
  <2>8. calls' \in Seq(CallRec)
    <3>. HIDE DEF r
    <3>. QED
      BY <2>5, <2>6, <2>7, PushIs
  <2>. QED
    BY <1>6, <2>8 DEF Descend, TypeInv, settings, found
<1>7. ASSUME NEW e, ListFile(e) PROVE TypeInv'
  <2>1. Reads(e)
    BY <1>7 DEF ListFile
  <2>2. PathOf(e) \in Seq(Name) /\ e.node \in Node
        /\ TopCall = calls[1] /\ calls[1] \in CallRec /\ calls # <<>>
    BY <2>1, ReadsIs
  <2>3. calls' \in Seq(CallRec)
    BY <1>7, <2>2, LeftIs DEF ListFile, TypeInv
  <2>4. filelist' \subseteq FileRec
    BY <1>7, <2>2, CallFields DEF ListFile, TypeInv, FileRec
  <2>5. filecount' \in Nat /\ read_only_file_count' \in Nat
    BY <1>7 DEF ListFile, TypeInv
  <2>. QED
    BY <1>7, <2>3, <2>4, <2>5 DEF ListFile, TypeInv, settings
<1>8. ASSUME NEW e, Skips(e) PROVE TypeInv'
  <2>1. calls # <<>> /\ calls' = Left(e)
    BY <1>8, ReadsIs DEF Skips
  <2>2. calls' \in Seq(CallRec)
    BY <2>1, LeftIs DEF TypeInv
  <2>. QED
    BY <1>8, <2>2 DEF Skips, Fixed, TypeInv, settings, found
<1>9. CASE UNCHANGED vars
  BY <1>9 DEF vars, TypeInv, settings, found
<1>. QED
  BY <1>1, <1>2, <1>3, <1>4, <1>5, <1>6, <1>7, <1>8, <1>9, Steps

(* The stack after each kind of step.                                      *)
LEMMA AfterRead ==
    ASSUME TypeInv, StackInv, NEW e, Reads(e), calls' = Left(e)
    PROVE  /\ Len(calls') = Len(calls) /\ DOMAIN calls' = DOMAIN calls /\ DOMAIN calls = 1..Len(calls)
           /\ \A i \in DOMAIN calls :
                 /\ calls'[i].path = calls[i].path /\ calls'[i].dir = calls[i].dir
                 /\ calls'[i].links = calls[i].links /\ calls'[i].read_only = calls[i].read_only
                 /\ calls'[i].left = IF i = 1 THEN calls[i].left \ {e} ELSE calls[i].left
<1>1. calls # <<>> /\ calls \in Seq(CallRec)
  BY ReadsIs DEF TypeInv
<1>2. /\ Left(e) \in Seq(CallRec) /\ Len(Left(e)) = Len(calls)
      /\ Without(Left(e)[1], calls[1], e)
      /\ \A i \in 2..Len(calls) : Left(e)[i] = calls[i]
  BY <1>1, LeftIs
<1>3. Len(calls') = Len(calls) /\ DOMAIN calls' = DOMAIN calls /\ DOMAIN calls = 1..Len(calls)
  BY <1>1, <1>2
<1>4. \A i \in DOMAIN calls : i = 1 \/ i \in 2..Len(calls)
  BY <1>1
<1>. QED
  BY <1>2, <1>3, <1>4 DEF Without

LEMMA AfterDescend ==
    ASSUME TypeInv, StackInv, NEW e, Descend(e)
    PROVE  /\ Len(calls') = Len(calls) + 1 /\ DOMAIN calls' = 1..(Len(calls) + 1)
           /\ DOMAIN calls = 1..Len(calls)
           /\ calls'[1].path = PathOf(e) /\ calls'[1].dir = e.node
           /\ calls'[1].links = LinksTo(e) /\ calls'[1].left = Entries[e.node]
           /\ calls'[1].read_only = (calls[1].read_only \/ is_readonly(e.name))
           /\ \A i \in DOMAIN calls :
                 /\ calls'[i + 1].path = calls[i].path /\ calls'[i + 1].dir = calls[i].dir
                 /\ calls'[i + 1].links = calls[i].links
                 /\ calls'[i + 1].read_only = calls[i].read_only
                 /\ calls'[i + 1].left = IF i = 1 THEN calls[i].left \ {e} ELSE calls[i].left
<1>0. Reads(e) /\ LinksTo(e) \in 0..MaxLinks
  BY ReadsIs, ScanAssumption DEF Descend, Descends, Found
<1>1. calls # <<>> /\ calls \in Seq(CallRec) /\ Len(calls) \in Nat \ {0} /\ calls[1] \in CallRec
      /\ TopCall = calls[1] /\ PathOf(e) \in Seq(Name) /\ e.node \in Node
  BY <1>0, ReadsIs DEF TypeInv
<1>2. /\ Left(e) \in Seq(CallRec) /\ Len(Left(e)) = Len(calls)
      /\ Without(Left(e)[1], calls[1], e)
      /\ \A i \in 2..Len(calls) : Left(e)[i] = calls[i]
  BY <1>1, LeftIs
<1>. DEFINE ro == calls[1].read_only \/ is_readonly(e.name)
<1>3. ro \in BOOLEAN
  BY <1>1, CallFields DEF is_readonly
<1>4. PICK r \in CallRec :
          /\ r = Call(PathOf(e), e.node, LinksTo(e), ro)
          /\ r.path = PathOf(e) /\ r.dir = e.node /\ r.links = LinksTo(e) /\ r.read_only = ro
          /\ r.left = Entries[e.node]
  <2>1. PICK r : r = Call(PathOf(e), e.node, LinksTo(e), ro)
    OBVIOUS
  <2>. HIDE DEF ro
  <2>2. /\ r \in CallRec
        /\ r.path = PathOf(e) /\ r.dir = e.node /\ r.links = LinksTo(e) /\ r.read_only = ro
        /\ r.left = Entries[e.node]
    BY <1>0, <1>1, <1>3, <2>1, CallType
  <2>. QED
    BY ONLY <2>1, <2>2
<1>5. calls' = <<r>> \o Left(e)
  BY <1>1, <1>4 DEF Descend
<1>6. /\ Len(calls') = Len(calls) + 1 /\ calls'[1] = r /\ DOMAIN calls' = 1..(Len(calls) + 1)
      /\ \A i \in 2..(Len(calls) + 1) : calls'[i] = Left(e)[i - 1]
  BY <1>2, <1>5, PushIs
<1>7. \A i \in 1..Len(calls) : calls'[i + 1] = Left(e)[i]
  BY <1>1, <1>6
<1>8. \A i \in 1..Len(calls) : i = 1 \/ i \in 2..Len(calls)
  BY <1>1
<1>9. DOMAIN calls = 1..Len(calls)
  BY <1>1
<1>10. calls'[1].path = PathOf(e) /\ calls'[1].dir = e.node
       /\ calls'[1].links = LinksTo(e) /\ calls'[1].left = Entries[e.node]
       /\ calls'[1].read_only = ro
  BY ONLY <1>4, <1>6
<1>11. ASSUME NEW i \in DOMAIN calls
       PROVE  /\ calls'[i + 1].path = calls[i].path /\ calls'[i + 1].dir = calls[i].dir
              /\ calls'[i + 1].links = calls[i].links
              /\ calls'[i + 1].read_only = calls[i].read_only
              /\ calls'[i + 1].left = IF i = 1 THEN calls[i].left \ {e} ELSE calls[i].left
  BY <1>2, <1>7, <1>8, <1>9 DEF Without
<1>. QED
  BY <1>6, <1>9, <1>10, <1>11

LEMMA AfterReturn ==
    ASSUME TypeInv, Return
    PROVE  /\ Len(calls) \in Nat \ {0} /\ Len(calls') = Len(calls) - 1
           /\ DOMAIN calls' = 1..(Len(calls) - 1) /\ DOMAIN calls = 1..Len(calls)
           /\ \A i \in DOMAIN calls' : calls'[i] = calls[i + 1]
           /\ calls[1].left = {} /\ calls[1] \in CallRec
BY PopIs DEF Return, TypeInv

(* A step that takes an argument, and opens it or does not.                *)
LEMMA AfterArgument ==
    ASSUME TypeInv, ScanArgument
    PROVE  /\ optind \in DOMAIN argv.dirs /\ argv.dirs[optind] \in Name
           /\ argv.dirs[optind] \in DOMAIN Given
           /\ Given[argv.dirs[optind]] \in Node /\ calls = <<>> /\ pc = "scan" /\ pc' = "scan"
           /\ optind' = optind + 1 /\ UNCHANGED <<argv, settings, found>>
           /\ \/ /\ CanOpen(Given[argv.dirs[optind]])
                 /\ Len(calls') = 1 /\ DOMAIN calls' = {1}
                 /\ calls'[1].path = <<argv.dirs[optind]>>
                 /\ calls'[1].dir = Given[argv.dirs[optind]] /\ calls'[1].links = 0
                 /\ calls'[1].read_only = is_readonly(argv.dirs[optind])
                 /\ calls'[1].left = Entries[Given[argv.dirs[optind]]]
                 /\ missed' = missed
              \/ calls' = <<>> /\ missed' = TRUE
<1>1. PICK name : name = argv.dirs[optind]
  OBVIOUS
<1>2. optind \in DOMAIN argv.dirs /\ name \in Name /\ name \in DOMAIN Given
      /\ Given[name] \in Node
  BY <1>1, ScanAssumption DEF ScanArgument, TypeInv
<1>3. <<name>> \in Seq(Name) /\ 0 \in 0..MaxLinks /\ is_readonly(name) \in BOOLEAN
  BY <1>2, ScanAssumption DEF is_readonly
<1>4. PICK r \in CallRec :
          /\ r = Call(<<name>>, Given[name], 0, is_readonly(name))
          /\ r.path = <<name>> /\ r.dir = Given[name] /\ r.links = 0
          /\ r.read_only = is_readonly(name) /\ r.left = Entries[Given[name]]
  <2>1. PICK p, node, ro : p = <<name>> /\ node = Given[name] /\ ro = is_readonly(name)
    OBVIOUS
  <2>2. PICK r : r = Call(p, node, 0, ro)
    OBVIOUS
  <2>3. p \in Seq(Name) /\ node \in Node /\ 0 \in 0..MaxLinks /\ ro \in BOOLEAN
    BY ONLY <1>2, <1>3, <2>1
  <2>4. /\ r \in CallRec /\ r.path = p /\ r.dir = node /\ r.links = 0
        /\ r.read_only = ro /\ r.left = Entries[node]
    BY ONLY <2>2, <2>3, CallType
  <2>. QED
    BY ONLY <2>1, <2>2, <2>4
<1>5. CASE CanOpen(Given[name])
  <2>1. calls' = <<r>> /\ missed' = missed
    BY <1>1, <1>4, <1>5 DEF ScanArgument
  <2>2. Len(calls') = 1 /\ DOMAIN calls' = {1} /\ calls'[1] = r
    BY <2>1
  <2>. QED
    BY <1>1, <1>2, <1>4, <1>5, <2>1, <2>2 DEF ScanArgument
<1>6. CASE ~CanOpen(Given[name])
  BY <1>1, <1>2, <1>6 DEF ScanArgument
<1>. QED
  BY <1>5, <1>6

LEMMA StackStep == TypeInv /\ StackInv /\ [Next]_vars => StackInv'
<1>. SUFFICES ASSUME TypeInv, StackInv, [Next]_vars PROVE StackInv'
  OBVIOUS
<1>0. Len(calls) \in Nat /\ DOMAIN calls = 1..Len(calls) /\ argv.max_open \in Nat /\ Depth \in Nat
  BY DepthType DEF TypeInv
<1>1. CASE TakeOption
  BY <1>1 DEF TakeOption, StackInv, found, Depth
<1>2. CASE OptionsDone
  BY <1>2 DEF OptionsDone, StackInv, settings, found, Depth
<1>3. CASE ScanArgument
  <2>1. PICK name : name = argv.dirs[optind]
    OBVIOUS
  <2>2. CASE calls' = <<>>
    BY <1>0, <1>3, <2>2, AfterArgument DEF StackInv, Depth, found
  <2>3. CASE ~(calls' = <<>>)
    <3>1. /\ CanOpen(Given[name]) /\ Given[name] \in Node
          /\ Len(calls') = 1 /\ DOMAIN calls' = {1} /\ calls'[1].path = <<name>>
          /\ calls'[1].dir = Given[name] /\ calls'[1].left = Entries[Given[name]]
          /\ pc' = "scan" /\ UNCHANGED <<argv, filelist>> /\ calls = <<>>
      BY <1>3, <2>1, <2>3, AfterArgument DEF found
    <3>2. Kind[Given[name]] = "dir" /\ 1 <= argv.max_open
      BY <1>0, <3>1 DEF CanOpen
    <3>3. Len(calls'[1].path) = 1
      BY ONLY <3>1
    <3>4. Len(calls') <= argv'.max_open /\ (pc' # "scan" => calls' = <<>>)
          /\ (pc' = "options" => filelist' = {} /\ filecount' = 0 /\ ~missed')
      BY <1>0, <3>1, <3>2
    <3>5. \A i \in DOMAIN calls' :
             /\ Len(calls'[i].path) = Len(calls') - i + 1
             /\ calls'[i].left \subseteq Entries[calls'[i].dir]
             /\ Kind[calls'[i].dir] = "dir"
      <4>1. Len(calls'[1].path) = Len(calls') - 1 + 1
        BY ONLY <3>1, <3>3
      <4>2. calls'[1].left \subseteq Entries[calls'[1].dir] /\ Kind[calls'[1].dir] = "dir"
        BY ONLY <3>1, <3>2
      <4>3. \A i \in DOMAIN calls' : i = 1
        BY ONLY <3>1
      <4>. QED
        BY ONLY <4>1, <4>2, <4>3
    <3>6. \A f \in filelist' : Len(f.path) \in 2..Depth'
      BY <3>1 DEF StackInv, Depth
    <3>. QED
      BY ONLY <3>4, <3>5, <3>6 DEF StackInv
  <2>. QED
    BY <2>2, <2>3
<1>4. CASE Return
  <2>1. /\ Len(calls') = Len(calls) - 1 /\ DOMAIN calls' = 1..(Len(calls) - 1)
        /\ \A i \in DOMAIN calls' : calls'[i] = calls[i + 1]
    BY <1>4, AfterReturn
  <2>2. pc = "scan" /\ pc' = pc /\ UNCHANGED <<argv, filelist>>
    BY <1>4 DEF Return, found
  <2>3. ASSUME NEW i \in DOMAIN calls'
        PROVE  /\ Len(calls'[i].path) = Len(calls') - i + 1
               /\ calls'[i].left \subseteq Entries[calls'[i].dir]
               /\ Kind[calls'[i].dir] = "dir"
    <3>1. i + 1 \in DOMAIN calls /\ calls'[i] = calls[i + 1]
      BY <1>0, <2>1
    <3>2. Len(calls[i + 1].path) = Len(calls) - (i + 1) + 1
      BY <3>1 DEF StackInv
    <3>3. Len(calls) - (i + 1) + 1 = (Len(calls) - 1) - i + 1
      BY <1>0, <2>1
    <3>. QED
      BY <2>1, <3>1, <3>2, <3>3 DEF StackInv
  <2>. QED
    BY <1>0, <2>1, <2>2, <2>3 DEF StackInv, Depth
<1>5. CASE ScanDone
  BY <1>5 DEF ScanDone, StackInv, settings, found, Depth
<1>6. ASSUME NEW e, Descend(e) PROVE StackInv'
  <2>1. Reads(e) /\ CanOpen(e.node) /\ pc' = pc /\ UNCHANGED <<argv, filelist>>
    BY <1>6 DEF Descend, found
  <2>2. Len(PathOf(e)) = Len(calls) + 1 /\ pc = "scan"
    BY <2>1, ReadsIs
  <2>3. /\ Len(calls') = Len(calls) + 1 /\ DOMAIN calls' = 1..(Len(calls) + 1)
        /\ calls'[1].path = PathOf(e) /\ calls'[1].dir = e.node
        /\ calls'[1].left = Entries[e.node]
        /\ \A i \in DOMAIN calls :
              /\ calls'[i + 1].path = calls[i].path /\ calls'[i + 1].dir = calls[i].dir
              /\ calls'[i + 1].left = IF i = 1 THEN calls[i].left \ {e} ELSE calls[i].left
    BY <1>6, AfterDescend
  <2>4. ASSUME NEW i \in DOMAIN calls'
        PROVE  /\ Len(calls'[i].path) = Len(calls') - i + 1
               /\ calls'[i].left \subseteq Entries[calls'[i].dir]
               /\ Kind[calls'[i].dir] = "dir"
    <3>1. CASE i = 1
      BY <1>0, <2>1, <2>2, <2>3, <3>1 DEF CanOpen
    <3>2. CASE i # 1
      <4>1. PICK j \in DOMAIN calls : i = j + 1
        <5>1. i - 1 \in DOMAIN calls
          BY <1>0, <2>3, <3>2
        <5>. QED
          BY <1>0, <2>3, <5>1
      <4>2. /\ calls'[i].path = calls[j].path /\ calls'[i].dir = calls[j].dir
            /\ calls'[i].left \subseteq calls[j].left
        BY <2>3, <4>1
      <4>3. Len(calls) - j + 1 = Len(calls') - i + 1
        BY <1>0, <2>3, <4>1
      <4>. QED
        BY <4>2, <4>3 DEF StackInv
    <3>. QED
      BY <3>1, <3>2
  <2>5. Len(calls') <= argv.max_open
    BY <1>0, <2>1, <2>3 DEF CanOpen
  <2>. QED
    BY <1>0, <2>1, <2>2, <2>4, <2>5 DEF StackInv, Depth
<1>7. ASSUME NEW e, Reads(e), calls' = Left(e), Fixed, missed' \in BOOLEAN,
             \A f \in filelist' : f \in filelist \/ f.path = PathOf(e)
      PROVE  StackInv'
  <2>1. pc = "scan" /\ Len(PathOf(e)) = Len(calls) + 1 /\ calls # <<>> /\ Len(calls) # 0
    BY <1>7, ReadsIs
  <2>2. /\ Len(calls') = Len(calls) /\ DOMAIN calls' = DOMAIN calls
        /\ \A i \in DOMAIN calls :
              /\ calls'[i].path = calls[i].path /\ calls'[i].dir = calls[i].dir
              /\ calls'[i].left \subseteq calls[i].left
    <3>1. /\ Len(calls') = Len(calls) /\ DOMAIN calls' = DOMAIN calls
          /\ \A i \in DOMAIN calls :
                /\ calls'[i].path = calls[i].path /\ calls'[i].dir = calls[i].dir
                /\ calls'[i].left = IF i = 1 THEN calls[i].left \ {e} ELSE calls[i].left
      BY <1>7, AfterRead
    <3>. QED
      BY <3>1
  <2>3. pc' = "scan" /\ argv' = argv
    BY <1>7, <2>1 DEF Fixed
  <2>4. \A f \in filelist' : Len(f.path) \in 2..Depth
    BY <1>0, <1>7, <2>1 DEF StackInv, Depth
  <2>. QED
    BY <2>2, <2>3, <2>4 DEF StackInv, Depth
<1>8. ASSUME NEW e, ListFile(e) PROVE StackInv'
  <2>1. Reads(e) /\ calls' = Left(e) /\ Fixed /\ missed' = missed
        /\ \A f \in filelist' : f \in filelist \/ f.path = PathOf(e)
    BY <1>8 DEF ListFile, Fixed
  <2>. QED
    BY <1>7, <2>1 DEF TypeInv
<1>9. ASSUME NEW e, Skips(e) PROVE StackInv'
  <2>1. Reads(e) /\ calls' = Left(e) /\ Fixed /\ (missed' = missed \/ missed' = TRUE)
        /\ filelist' = filelist
    BY <1>9 DEF Skips, found
  <2>. QED
    BY <1>7, <2>1 DEF TypeInv
<1>10. CASE UNCHANGED vars
  BY <1>10 DEF vars, StackInv, settings, found, Depth
<1>. QED
  BY <1>1, <1>2, <1>3, <1>4, <1>5, <1>6, <1>8, <1>9, <1>10, Steps
----------------------------------------------------------------------------
(* A call knows whether its directory is read only.                        *)
BelowReadOnly(p, n) == \E k \in 1..n : is_readonly(p[k])
ReadOnlyInv ==
    /\ \A i \in DOMAIN calls :
          calls[i].read_only <=> BelowReadOnly(calls[i].path, Len(calls[i].path))
    /\ ReadOnlyByPath

LEMMA ReadOnlyStep ==
    TypeInv /\ StackInv /\ ReadOnlyInv /\ [Next]_vars => ReadOnlyInv'
<1>. SUFFICES ASSUME TypeInv, StackInv, ReadOnlyInv, [Next]_vars PROVE ReadOnlyInv'
  OBVIOUS
<1>0. Len(calls) \in Nat /\ DOMAIN calls = 1..Len(calls)
  BY DEF TypeInv
<1>a. ASSUME read_only' = read_only, ReadOnlyByPath',
             \A i \in DOMAIN calls' :
                calls'[i].read_only <=> BelowReadOnly(calls'[i].path, Len(calls'[i].path))
      PROVE  ReadOnlyInv'
  BY <1>a DEF ReadOnlyInv, BelowReadOnly, is_readonly
<1>b. ASSUME UNCHANGED <<read_only, filelist>> PROVE ReadOnlyByPath'
  BY <1>b DEF ReadOnlyInv, ReadOnlyByPath, is_readonly
<1>1. CASE TakeOption
  <2>1. calls' = <<>> /\ filelist' = {}
    BY <1>1 DEF TakeOption, StackInv, found
  <2>. QED
    BY <2>1 DEF ReadOnlyInv, ReadOnlyByPath
<1>2. CASE OptionsDone
  <2>1. calls' = <<>> /\ filelist' = {}
    BY <1>2 DEF OptionsDone, StackInv, found
  <2>. QED
    BY <2>1 DEF ReadOnlyInv, ReadOnlyByPath
<1>3. CASE ScanArgument
  <2>1. PICK name : name = argv.dirs[optind]
    OBVIOUS
  <2>2. UNCHANGED <<read_only, filelist>>
    BY <1>3 DEF ScanArgument, settings, found
  <2>3. ASSUME NEW i \in DOMAIN calls'
        PROVE  calls'[i].read_only <=> BelowReadOnly(calls'[i].path, Len(calls'[i].path))
    <3>1. i = 1 /\ calls'[1].path = <<name>> /\ calls'[1].read_only = is_readonly(name)
      <4>1. ~(calls' = <<>>)
        BY <2>3
      <4>2. DOMAIN calls' = {1} /\ calls'[1].path = <<name>>
            /\ calls'[1].read_only = is_readonly(name)
        BY <1>3, <2>1, <4>1, AfterArgument
      <4>. QED
        BY <2>3, <4>2
    <3>2. BelowReadOnly(<<name>>, 1) <=> is_readonly(name)
      BY DEF BelowReadOnly
    <3>3. Len(<<name>>) = 1
      OBVIOUS
    <3>. QED
      BY <3>1, <3>2, <3>3
  <2>. QED
    BY <1>a, <1>b, <2>2, <2>3
<1>4. CASE Return
  <2>1. UNCHANGED <<read_only, filelist>>
    BY <1>4 DEF Return, settings, found
  <2>2. \A i \in DOMAIN calls' : i + 1 \in DOMAIN calls /\ calls'[i] = calls[i + 1]
    BY <1>0, <1>4, AfterReturn
  <2>3. \A i \in DOMAIN calls' :
            calls'[i].read_only <=> BelowReadOnly(calls'[i].path, Len(calls'[i].path))
    BY <2>1, <2>2 DEF ReadOnlyInv
  <2>. QED
    BY <1>a, <1>b, <2>1, <2>3
<1>5. CASE ScanDone
  BY <1>a, <1>b, <1>5 DEF ScanDone, ReadOnlyInv, settings, found
<1>6. ASSUME NEW e, Descend(e) PROVE ReadOnlyInv'
  <2>1. Reads(e) /\ UNCHANGED <<read_only, filelist>>
    BY <1>6 DEF Descend, settings, found
  <2>2. PICK q, n : q = PathOf(e) /\ n = Len(calls)
    OBVIOUS
  <2>3. /\ Len(calls[1].path) = n /\ Len(q) = n + 1 /\ q[n + 1] = e.name /\ n \in Nat \ {0}
        /\ \A k \in 1..n : q[k] = calls[1].path[k]
    BY <2>1, <2>2, ReadsIs
  <2>4. BelowReadOnly(q, n + 1) <=> BelowReadOnly(calls[1].path, n) \/ is_readonly(e.name)
    <3>1. \A k \in 1..(n + 1) : k \in 1..n \/ k = n + 1
      BY <2>3
    <3>2. \A k \in 1..n : k \in 1..(n + 1)
      BY <2>3
    <3>3. n + 1 \in 1..(n + 1)
      BY <2>3
    <3>. QED
      BY ONLY <2>3, <3>1, <3>2, <3>3 DEF BelowReadOnly
  <2>5. /\ DOMAIN calls' = 1..(n + 1)
        /\ calls'[1].path = q /\ calls'[1].read_only = (calls[1].read_only \/ is_readonly(e.name))
        /\ \A i \in DOMAIN calls : calls'[i + 1].path = calls[i].path
                                   /\ calls'[i + 1].read_only = calls[i].read_only
    BY <1>6, <2>2, AfterDescend
  <2>6. ASSUME NEW i \in DOMAIN calls'
        PROVE  calls'[i].read_only <=> BelowReadOnly(calls'[i].path, Len(calls'[i].path))
    <3>1. CASE i = 1
      <4>1. calls[1].read_only <=> BelowReadOnly(calls[1].path, n)
        <5>1. 1 \in DOMAIN calls
          BY <1>0, <2>2, <2>3
        <5>. QED
          BY <2>3, <5>1 DEF ReadOnlyInv
      <4>. QED
        BY <2>3, <2>4, <2>5, <3>1, <4>1
    <3>2. CASE i # 1
      <4>1. PICK j \in DOMAIN calls : i = j + 1
        <5>1. i - 1 \in DOMAIN calls /\ i = (i - 1) + 1
          BY <1>0, <2>2, <2>3, <2>5, <3>2
        <5>. QED
          BY <5>1
      <4>. QED
        BY <2>5, <4>1 DEF ReadOnlyInv
    <3>. QED
      BY <3>1, <3>2
  <2>. QED
    BY <1>a, <1>b, <2>1, <2>6
<1>7. ASSUME NEW e, Reads(e), calls' = Left(e), Fixed PROVE
        /\ \A i \in DOMAIN calls' :
             calls'[i].read_only <=> BelowReadOnly(calls'[i].path, Len(calls'[i].path))
        /\ read_only' = read_only
  <2>1. read_only' = read_only
    BY <1>7 DEF Fixed, settings
  <2>2. \A i \in DOMAIN calls' :
           i \in DOMAIN calls /\ calls'[i].path = calls[i].path
           /\ calls'[i].read_only = calls[i].read_only
    BY <1>7, AfterRead
  <2>. QED
    BY <2>1, <2>2 DEF ReadOnlyInv
<1>8. ASSUME NEW e, ListFile(e) PROVE ReadOnlyInv'
  <2>1. Reads(e) /\ calls' = Left(e) /\ Fixed
    BY <1>8 DEF ListFile, Fixed
  <2>2. PICK q, n : q = PathOf(e) /\ n = Len(calls)
    OBVIOUS
  <2>3. /\ Len(calls[1].path) = n /\ Len(q) = n + 1 /\ n \in Nat \ {0}
        /\ \A k \in 1..n : q[k] = calls[1].path[k]
        /\ TopCall = calls[1]
    BY <2>1, <2>2, ReadsIs
  <2>4. calls[1].read_only <=> BelowReadOnly(calls[1].path, n)
    <3>1. 1 \in DOMAIN calls
      BY <1>0, <2>2, <2>3
    <3>. QED
      BY <2>3, <3>1 DEF ReadOnlyInv
  <2>5. BelowReadOnly(calls[1].path, n) <=> BelowReadOnly(q, n)
    BY ONLY <2>3 DEF BelowReadOnly
  <2>6. n = Len(q) - 1
    BY <2>3
  <2>7. filelist' = filelist \cup {[path |-> q, node |-> e.node, read_only |-> calls[1].read_only]}
    BY <1>8, <2>2, <2>3 DEF ListFile
  <2>8. ASSUME NEW f \in filelist'
        PROVE  f.read_only <=> BelowReadOnly(f.path, Len(f.path) - 1)
    <3>1. CASE f \in filelist
      BY <3>1 DEF ReadOnlyInv, ReadOnlyByPath, BelowReadOnly
    <3>2. CASE f = [path |-> q, node |-> e.node, read_only |-> calls[1].read_only]
      BY <2>4, <2>5, <2>6, <3>2
    <3>. QED
      BY <2>7, <3>1, <3>2
  <2>9. ReadOnlyByPath'
    BY <1>7, <2>1, <2>8 DEF ReadOnlyByPath, BelowReadOnly, is_readonly
  <2>. QED
    BY <1>7, <1>a, <2>1, <2>9
<1>9. ASSUME NEW e, Skips(e) PROVE ReadOnlyInv'
  <2>1. Reads(e) /\ calls' = Left(e) /\ Fixed /\ filelist' = filelist
    BY <1>9 DEF Skips, found
  <2>. QED
    BY <1>7, <1>a, <1>b, <2>1
<1>10. CASE UNCHANGED vars
  BY <1>10, <1>a, <1>b DEF vars, ReadOnlyInv, settings, found
<1>. QED
  BY <1>1, <1>2, <1>3, <1>4, <1>5, <1>6, <1>8, <1>9, <1>10, Steps
----------------------------------------------------------------------------
(* The walks: those of one name, and those one entry longer.               *)
LEMMA WalksStart ==
    ASSUME TypeInv
    PROVE  /\ \A d \in ToSet(argv.dirs) : ArgWalk(d) \in WalksOf[1]
           /\ \A w \in WalksOf[1] : \E d \in ToSet(argv.dirs) : w = ArgWalk(d)
<1>1. 1 \in 1..Depth
  BY DepthType DEF Depth
<1>2. WalksOf[1] = FirstWalks
  BY <1>1, DepthType, WalksOfIs
<1>. QED
  BY <1>2 DEF FirstWalks

LEMMA WalksGoOn ==
    ASSUME TypeInv, NEW n \in 1..Depth, n + 1 <= Depth,
           NEW w \in WalksOf[n], Passable(w), NEW e \in Entries[w.node]
    PROVE  Longer(w, e) \in WalksOf[n + 1]
<1>1. Depth \in Nat
  BY DepthType
<1>2. n + 1 \in 1..Depth /\ n + 1 # 1 /\ (n + 1) - 1 = n
  BY <1>1
<1>3. WalksOf[n + 1] = Onward(WalksOf[n])
  BY <1>1, <1>2, WalksOfIs
<1>. QED
  BY <1>3 DEF Onward

LEMMA WalksCame ==
    ASSUME TypeInv, NEW n \in 2..Depth, NEW w \in WalksOf[n]
    PROVE  \E v \in WalksOf[n - 1] :
               Passable(v) /\ \E e \in Entries[v.node] : w = Longer(v, e)
<1>1. Depth \in Nat
  BY DepthType
<1>2. n \in 1..Depth /\ n # 1
  BY <1>1
<1>3. WalksOf[n] = Onward(WalksOf[n - 1])
  BY <1>1, <1>2, WalksOfIs
<1>. QED
  BY <1>3 DEF Onward

LEMMA LongerType ==
    ASSUME NEW w \in Walk, NEW e \in Entries[w.node]
    PROVE  /\ Longer(w, e) \in Walk /\ Len(Longer(w, e).path) = Len(w.path) + 1
           /\ Longer(w, e).node = e.node /\ Longer(w, e).link = e.link
           /\ Longer(w, e).path = Append(w.path, e.name)
           /\ Longer(w, e).links = w.links + (IF e.link THEN 1 ELSE 0)
<1>1. w.path \in Seq(Name) /\ w.node \in Node /\ w.links \in Nat
  BY DEF Walk
<1>2. e.name \in Name /\ e.link \in BOOLEAN /\ e.node \in Node
  BY <1>1, EntryType
<1>3. Append(w.path, e.name) \in Seq(Name)
      /\ Len(Append(w.path, e.name)) = Len(w.path) + 1
  BY <1>1, <1>2
<1>4. w.links + (IF e.link THEN 1 ELSE 0) \in Nat
  BY <1>1
<1>. QED
  BY <1>2, <1>3, <1>4 DEF Longer, Walk

LEMMA WalksType ==
    ASSUME TypeInv
    PROVE  \A n \in 1..Depth : \A w \in WalksOf[n] : w \in Walk /\ Len(w.path) = n
<1>. DEFINE S == {n \in 0..Depth : n = 0 \/ \A w \in WalksOf[n] : w \in Walk /\ Len(w.path) = n}
<1>0. Depth \in Nat
  BY DepthType
<1>1. 0 \in S
  BY <1>0
<1>2. ASSUME NEW n \in Nat, n < Depth, n \in S PROVE n + 1 \in S
  <2>1. CASE n = 0
    <3>1. ASSUME NEW w \in WalksOf[1] PROVE w \in Walk /\ Len(w.path) = 1
      <4>1. PICK d \in ToSet(argv.dirs) : w = ArgWalk(d)
        BY <3>1, WalksStart
      <4>2. d \in Name /\ Given[d] \in Node
        <5>1. PICK i \in DOMAIN argv.dirs : d = argv.dirs[i]
          BY DEF ToSet
        <5>2. argv.dirs \in Seq(DOMAIN Given)
          BY ScanAssumption DEF TypeInv
        <5>3. d \in DOMAIN Given
          BY <5>1, <5>2
        <5>. QED
          BY <5>3, ScanAssumption
      <4>3. <<d>> \in Seq(Name) /\ Len(<<d>>) = 1
        BY <4>2
      <4>. QED
        BY <4>1, <4>2, <4>3 DEF ArgWalk, Walk
    <3>. QED
      BY <1>0, <1>2, <2>1, <3>1
  <2>2. CASE n # 0
    <3>1. ASSUME NEW w \in WalksOf[n + 1] PROVE w \in Walk /\ Len(w.path) = n + 1
      <4>1. n + 1 \in 2..Depth /\ (n + 1) - 1 = n
        BY <1>0, <1>2, <2>2
      <4>2. PICK v \in WalksOf[n] : \E e \in Entries[v.node] : w = Longer(v, e)
        BY <3>1, <4>1, WalksCame
      <4>3. v \in Walk /\ Len(v.path) = n
        BY <1>2, <2>2
      <4>. QED
        BY <4>2, <4>3, LongerType
    <3>. QED
      BY <1>0, <1>2, <3>1
  <2>. QED
    BY <2>1, <2>2
<1>3. \A n \in 0..Depth : n \in S
  <2>. HIDE DEF S
  <2>. QED
    BY <1>0, <1>1, <1>2, UpTo
<1>. QED
  BY <1>0, <1>3
----------------------------------------------------------------------------
(* Nothing is found but what a walk leads to that may be walked and is     *)
(* wanted; and that is so, too, for the directories that are open.         *)
OfCall(w, r) == w.path = r.path /\ w.node = r.dir /\ w.links = r.links
OfFile(w, f) == w.path = f.path /\ w.node = f.node
OpenedByWalk(r) == \E w \in WalksOf[Len(r.path)] : Passable(w) /\ OfCall(w, r)
FoundByWalk(f) == \E w \in WalksOf[Len(f.path)] : Wanted(w) /\ OfFile(w, f)
SoundInv ==
    /\ \A i \in DOMAIN calls : OpenedByWalk(calls[i])
    /\ \A f \in filelist : FoundByWalk(f)

(* The walk that an entry continues.                                       *)
LEMMA EntryWalk ==
    ASSUME TypeInv, StackInv, SoundInv, NEW e, Reads(e)
    PROVE  \E w \in WalksOf[Len(calls)] :
              /\ Passable(w) /\ OfCall(w, calls[1]) /\ w \in Walk
              /\ Longer(w, e) \in WalksOf[Len(calls) + 1]
              /\ Longer(w, e).path = PathOf(e) /\ Longer(w, e).node = e.node
              /\ Longer(w, e).link = e.link /\ Longer(w, e).links = LinksTo(e)
              /\ Len(Longer(w, e).path) = Len(calls) + 1
<1>1. /\ Len(calls) \in Nat \ {0} /\ Len(calls[1].path) = Len(calls) /\ TopCall = calls[1]
      /\ e \in Entries[calls[1].dir] /\ 1 \in DOMAIN calls
  BY ReadsIs DEF TypeInv
<1>2. Len(calls) <= argv.max_open /\ argv.max_open \in Nat /\ Depth \in Nat
      /\ Len(calls) \in 1..Depth /\ Len(calls) + 1 <= Depth
  BY <1>1, DepthType DEF StackInv, Depth
<1>3. PICK w \in WalksOf[Len(calls)] : Passable(w) /\ OfCall(w, calls[1])
  BY <1>1 DEF SoundInv, OpenedByWalk
<1>4. w \in Walk /\ e \in Entries[w.node]
  BY <1>1, <1>2, <1>3, WalksType DEF OfCall
<1>5. Longer(w, e) \in WalksOf[Len(calls) + 1]
  BY <1>2, <1>3, <1>4, WalksGoOn
<1>6. /\ Longer(w, e).node = e.node /\ Longer(w, e).link = e.link
      /\ Longer(w, e).path = Append(w.path, e.name)
      /\ Longer(w, e).links = w.links + (IF e.link THEN 1 ELSE 0)
  BY <1>4, LongerType
<1>7. Longer(w, e).path = PathOf(e) /\ Longer(w, e).links = LinksTo(e)
  BY <1>1, <1>3, <1>6 DEF OfCall, PathOf, LinksTo
<1>8. Len(Longer(w, e).path) = Len(calls) + 1
  BY <1>7, ReadsIs
<1>. QED
  BY <1>3, <1>4, <1>5, <1>6, <1>7, <1>8

LEMMA SoundStep ==
    TypeInv /\ StackInv /\ SoundInv /\ [Next]_vars => SoundInv'
<1>. SUFFICES ASSUME TypeInv, StackInv, SoundInv, [Next]_vars PROVE SoundInv'
  OBVIOUS
<1>0. Len(calls) \in Nat /\ DOMAIN calls = 1..Len(calls)
  BY DEF TypeInv
<1>a. ASSUME UNCHANGED <<argv, settings>>,
             \A i \in DOMAIN calls' : OpenedByWalk(calls'[i]),
             \A f \in filelist' : FoundByWalk(f)
      PROVE  SoundInv'
  <2>1. WalksOf' = WalksOf
    BY <1>a, WalksFixed DEF settings
  <2>2. \A w : Passable(w)' <=> Passable(w)
    BY <1>a DEF settings, Passable, Flag
  <2>3. \A w : Wanted(w)' <=> Wanted(w)
    BY <1>a, WantedFixed
  <2>. QED
    BY <1>a, <2>1, <2>2, <2>3 DEF SoundInv, OpenedByWalk, FoundByWalk, OfCall, OfFile
<1>b. ASSUME NEW r, NEW q, r.path = q.path, r.dir = q.dir, r.links = q.links, OpenedByWalk(q)
      PROVE  OpenedByWalk(r)
  BY <1>b DEF OpenedByWalk, OfCall
<1>1. CASE TakeOption
  <2>1. calls' = <<>> /\ filelist' = {}
    BY <1>1 DEF TakeOption, StackInv, found
  <2>. QED
    BY <2>1 DEF SoundInv
<1>2. CASE OptionsDone
  <2>1. calls' = <<>> /\ filelist' = {}
    BY <1>2 DEF OptionsDone, StackInv, found
  <2>. QED
    BY <2>1 DEF SoundInv
<1>3. CASE ScanArgument
  <2>1. PICK name : name = argv.dirs[optind]
    OBVIOUS
  <2>2. UNCHANGED <<argv, settings, filelist>>
    BY <1>3 DEF ScanArgument, found
  <2>3. ASSUME NEW i \in DOMAIN calls' PROVE OpenedByWalk(calls'[i])
    <3>1. ~(calls' = <<>>)
      BY <2>3
    <3>2. /\ DOMAIN calls' = {1} /\ calls'[1].path = <<name>>
          /\ calls'[1].dir = Given[name] /\ calls'[1].links = 0 /\ optind \in DOMAIN argv.dirs
      BY <1>3, <2>1, <3>1, AfterArgument
    <3>3. ArgWalk(name) \in WalksOf[1]
      BY <2>1, <3>2, WalksStart DEF ToSet
    <3>4. Len(<<name>>) = 1
      OBVIOUS
    <3>5. Passable(ArgWalk(name)) /\ OfCall(ArgWalk(name), calls'[1])
      BY <3>2, <3>4 DEF Passable, ArgWalk, OfCall
    <3>6. i = 1
      BY <2>3, <3>2
    <3>. QED
      BY <3>2, <3>3, <3>4, <3>5, <3>6 DEF OpenedByWalk
  <2>. QED
    BY <1>a, <2>2, <2>3 DEF SoundInv
<1>4. CASE Return
  <2>1. UNCHANGED <<argv, settings, filelist>>
    BY <1>4 DEF Return, found
  <2>2. \A i \in DOMAIN calls' : i + 1 \in DOMAIN calls /\ calls'[i] = calls[i + 1]
    BY <1>0, <1>4, AfterReturn
  <2>. QED
    BY <1>a, <2>1, <2>2 DEF SoundInv
<1>5. CASE ScanDone
  BY <1>a, <1>5 DEF ScanDone, SoundInv, found
<1>6. ASSUME NEW e, Descend(e) PROVE SoundInv'
  <2>1. Reads(e) /\ Descends(e) /\ UNCHANGED <<argv, settings, filelist>>
    BY <1>6 DEF Descend, found
  <2>2. PICK w \in WalksOf[Len(calls)] :
              /\ Longer(w, e) \in WalksOf[Len(calls) + 1]
              /\ Longer(w, e).path = PathOf(e) /\ Longer(w, e).node = e.node
              /\ Longer(w, e).link = e.link /\ Longer(w, e).links = LinksTo(e)
              /\ Len(Longer(w, e).path) = Len(calls) + 1
    BY <2>1, EntryWalk
  <2>3. Passable(Longer(w, e))
    BY <2>1, <2>2 DEF Descends, Found, Excluded, Passable
  <2>4. /\ DOMAIN calls' = 1..(Len(calls) + 1)
        /\ calls'[1].path = PathOf(e) /\ calls'[1].dir = e.node /\ calls'[1].links = LinksTo(e)
        /\ \A i \in DOMAIN calls :
              /\ calls'[i + 1].path = calls[i].path /\ calls'[i + 1].dir = calls[i].dir
              /\ calls'[i + 1].links = calls[i].links
    BY <1>6, AfterDescend
  <2>5. OpenedByWalk(calls'[1])
    BY <2>2, <2>3, <2>4 DEF OpenedByWalk, OfCall
  <2>6. ASSUME NEW j \in DOMAIN calls PROVE OpenedByWalk(calls'[j + 1])
    BY <1>b, <2>4 DEF SoundInv
  <2>7. ASSUME NEW i \in DOMAIN calls' PROVE OpenedByWalk(calls'[i])
    <3>1. i = 1 \/ (i - 1 \in DOMAIN calls /\ (i - 1) + 1 = i)
      BY <1>0, <2>4
    <3>2. CASE i = 1
      BY <2>5, <3>2
    <3>3. CASE i - 1 \in DOMAIN calls /\ (i - 1) + 1 = i
      <4>1. OpenedByWalk(calls'[(i - 1) + 1])
        BY <2>6, <3>3
      <4>. QED
        BY <3>3, <4>1
    <3>. QED
      BY <3>1, <3>2, <3>3
  <2>. QED
    BY <1>a, <2>1, <2>7 DEF SoundInv
<1>7. ASSUME NEW e, Reads(e), calls' = Left(e)
      PROVE  \A i \in DOMAIN calls' : OpenedByWalk(calls'[i])
  <2>1. \A i \in DOMAIN calls' :
           /\ i \in DOMAIN calls
           /\ calls'[i].path = calls[i].path /\ calls'[i].dir = calls[i].dir
           /\ calls'[i].links = calls[i].links
    BY <1>7, AfterRead
  <2>. QED
    BY <1>b, <2>1 DEF SoundInv
<1>8. ASSUME NEW e, ListFile(e) PROVE SoundInv'
  <2>1. Reads(e) /\ Listed(e) /\ calls' = Left(e) /\ UNCHANGED <<argv, settings>>
    BY <1>8 DEF ListFile
  <2>2. PICK w \in WalksOf[Len(calls)] :
              /\ Longer(w, e) \in WalksOf[Len(calls) + 1]
              /\ Longer(w, e).path = PathOf(e) /\ Longer(w, e).node = e.node
              /\ Longer(w, e).link = e.link /\ Longer(w, e).links = LinksTo(e)
              /\ Len(Longer(w, e).path) = Len(calls) + 1
    BY <2>1, EntryWalk
  <2>3. Wanted(Longer(w, e))
    <3>1. Kind[e.node] \in {"file", "dir", "other", "none"}
      BY <2>1, ReadsIs, ScanAssumption
    <3>. QED
      BY <2>1, <2>2, <3>1 DEF Listed, Found, Excluded, Wanted
  <2>4. PICK g : g = [path |-> PathOf(e), node |-> e.node, read_only |-> TopCall.read_only]
    OBVIOUS
  <2>5. FoundByWalk(g)
    BY <2>2, <2>3, <2>4 DEF FoundByWalk, OfFile
  <2>6. filelist' = filelist \cup {g}
    BY <1>8, <2>4 DEF ListFile
  <2>. QED
    BY <1>7, <1>a, <2>1, <2>5, <2>6 DEF SoundInv
<1>9. ASSUME NEW e, Skips(e) PROVE SoundInv'
  <2>1. Reads(e) /\ calls' = Left(e) /\ UNCHANGED <<argv, settings, filelist>>
    BY <1>9 DEF Skips, Fixed, found
  <2>. QED
    BY <1>7, <1>a, <2>1 DEF SoundInv
<1>10. CASE UNCHANGED vars
  BY <1>10, <1>a DEF vars, SoundInv, found
<1>. QED
  BY <1>1, <1>2, <1>3, <1>4, <1>5, <1>6, <1>8, <1>9, <1>10, Steps
----------------------------------------------------------------------------
(* A set of walks is complete when it goes on with every entry there is    *)
(* and all that it wants is found; a walk is settled when it is in one.    *)
Complete(D) ==
    \A w \in D :
        /\ Passable(w) => \A e \in Entries[w.node] : Longer(w, e) \in D
        /\ Len(w.path) >= 2 /\ Wanted(w) => \E f \in filelist : f.path = w.path
Settled == UNION {D \in SUBSET Walk : Complete(D)}

(* Nothing is left out: what is not in a call's hands any more is settled, *)
(* or the call above it is at work on it.                                  *)
EntriesCovered(i) ==
    \A e \in Entries[calls[i].dir] \ calls[i].left :
        \/ Longer(calls[i], e) \in Settled
        \/ i > 1 /\ OfCall(Longer(calls[i], e), calls[i - 1])
ArgsCovered ==
    \A j \in DOMAIN argv.dirs :
        j < optind => ArgWalk(argv.dirs[j]) \in Settled \/ (calls # <<>> /\ j = optind - 1)
Outermost ==
    calls # <<>> =>
        optind - 1 \in DOMAIN argv.dirs /\ OfCall(ArgWalk(argv.dirs[optind - 1]), calls[Len(calls)])
CoverInv ==
    /\ ~missed =>
          /\ pc \in {"scan", "match"} => ArgsCovered
          /\ Outermost
          /\ \A i \in DOMAIN calls : EntriesCovered(i)
    /\ pc = "match" => optind > Len(argv.dirs)

(* A walk is settled when all that continues it is, and it was found if it *)
(* is wanted.                                                              *)
LEMMA Settles ==
    ASSUME UNCHANGED <<argv, settings>>, filelist \subseteq filelist'
    PROVE  /\ Settled \subseteq Settled'
           /\ \A v \in Walk :
                 /\ Passable(v) => \A e \in Entries[v.node] : Longer(v, e) \in Settled
                 /\ Len(v.path) >= 2 /\ Wanted(v) => \E f \in filelist' : f.path = v.path
                 => v \in Settled'
<1>1. \A w : Passable(w)' <=> Passable(w)
  BY DEF settings, Passable, Flag
<1>2. \A w : Wanted(w)' <=> Wanted(w)
  BY WantedFixed
<1>3. Settled \subseteq Walk
  BY DEF Settled
<1>4. \A w \in Settled :
          /\ Passable(w) => \A e \in Entries[w.node] : Longer(w, e) \in Settled
          /\ Len(w.path) >= 2 /\ Wanted(w) => \E f \in filelist : f.path = w.path
  BY DEF Settled, Complete
<1>5. ASSUME NEW D \in SUBSET Walk, Settled \subseteq D,
             \A v \in D \ Settled :
                /\ Passable(v) => \A e \in Entries[v.node] : Longer(v, e) \in Settled
                /\ Len(v.path) >= 2 /\ Wanted(v) => \E f \in filelist' : f.path = v.path
      PROVE  D \subseteq Settled'
  <2>1. ASSUME NEW w \in D
        PROVE  /\ Passable(w) => \A e \in Entries[w.node] : Longer(w, e) \in D
               /\ Len(w.path) >= 2 /\ Wanted(w) => \E f \in filelist' : f.path = w.path
    <3>1. CASE w \in Settled
      BY <1>4, <1>5, <3>1
    <3>2. CASE w \notin Settled
      BY <1>5, <3>2
    <3>. QED
      BY <3>1, <3>2
  <2>2. Complete(D)'
    BY <1>1, <1>2, <2>1 DEF Complete
  <2>. QED
    BY <1>5, <2>2 DEF Settled
<1>6. Settled \subseteq Settled'
  BY <1>3, <1>5
<1>7. ASSUME NEW v \in Walk,
             Passable(v) => \A e \in Entries[v.node] : Longer(v, e) \in Settled,
             Len(v.path) >= 2 /\ Wanted(v) => \E f \in filelist' : f.path = v.path
      PROVE  v \in Settled'
  <2>1. Settled \cup {v} \in SUBSET Walk
    BY <1>3
  <2>2. Settled \cup {v} \subseteq Settled'
    BY <1>5, <1>7, <2>1
  <2>. QED
    BY <2>2
<1>. QED
  BY <1>6, <1>7

(* What the entry of a call leads to, and that it is a walk.               *)
LEMMA CallWalk ==
    ASSUME TypeInv, StackInv, NEW i \in DOMAIN calls, NEW e \in Entries[calls[i].dir]
    PROVE  /\ Longer(calls[i], e) \in Walk /\ Longer(calls[i], e).node = e.node
           /\ Longer(calls[i], e).link = e.link
           /\ Longer(calls[i], e).path = Append(calls[i].path, e.name)
           /\ Longer(calls[i], e).links = calls[i].links + (IF e.link THEN 1 ELSE 0)
           /\ Len(Longer(calls[i], e).path) >= 2
<1>1. calls[i] \in CallRec
  BY DEF TypeInv
<1>2. calls[i].path \in Seq(Name) /\ calls[i].dir \in Node /\ calls[i].links \in Nat
  BY <1>1, CallFields, ScanAssumption
<1>3. Len(calls[i].path) >= 1
  BY DEF TypeInv, StackInv
<1>4. PICK w : w = [path |-> calls[i].path, node |-> calls[i].dir, link |-> FALSE,
                    links |-> calls[i].links]
  OBVIOUS
<1>5. w \in Walk /\ e \in Entries[w.node] /\ w.path = calls[i].path /\ w.links = calls[i].links
  BY <1>2, <1>4 DEF Walk
<1>6. Longer(calls[i], e) = Longer(w, e)
  BY <1>5 DEF Longer
<1>7. Len(Longer(w, e).path) >= 2
  BY <1>2, <1>3, <1>5, LongerType
<1>. QED
  BY <1>5, <1>6, <1>7, LongerType

LEMMA ArgWalkType ==
    ASSUME TypeInv, NEW j \in DOMAIN argv.dirs
    PROVE  ArgWalk(argv.dirs[j]) \in Walk
<1>1. argv.dirs \in Seq(DOMAIN Given)
  BY ScanAssumption DEF TypeInv
<1>2. PICK d \in DOMAIN Given : d = argv.dirs[j]
  BY <1>1
<1>3. d \in Name /\ Given[d] \in Node
  BY ScanAssumption
<1>4. <<d>> \in Seq(Name)
  BY <1>3
<1>. QED
  BY <1>2, <1>3, <1>4 DEF ArgWalk, Walk

(* The walk of the directory whose entries have all been read is settled.  *)
LEMMA ReturnSettles ==
    ASSUME TypeInv, StackInv, CoverInv, ~missed, Return
    PROVE  \A v \in Walk : OfCall(v, calls[1]) => v \in Settled'
<1>1. 1 \in DOMAIN calls /\ calls[1].left = {} /\ UNCHANGED <<argv, settings, filelist>>
  BY AfterReturn DEF Return, found
<1>2. Kind[calls[1].dir] = "dir"
  BY <1>1 DEF StackInv
<1>3. \A e \in Entries[calls[1].dir] : Longer(calls[1], e) \in Settled
  BY <1>1 DEF CoverInv, EntriesCovered
<1>4. ASSUME NEW v \in Walk, OfCall(v, calls[1]) PROVE v \in Settled'
  <2>1. \A e : Longer(v, e) = Longer(calls[1], e)
    BY <1>4 DEF OfCall, Longer
  <2>2. \A e \in Entries[v.node] : Longer(v, e) \in Settled
    BY <1>3, <1>4, <2>1 DEF OfCall
  <2>3. ~Wanted(v)
    BY <1>2, <1>4 DEF OfCall, Wanted
  <2>4. filelist \subseteq filelist'
    BY <1>1
  <2>. QED
    BY <1>1, <2>2, <2>3, <2>4, Settles
<1>. QED
  BY <1>4

(* One more entry is settled, or in the hands of another call.             *)
LEMMA PassedSettles ==
    ASSUME TypeInv, StackInv, NEW e, Reads(e), ~Descends(e), UNCHANGED <<argv, settings>>,
           filelist \subseteq filelist',
           Listed(e) => \E f \in filelist' : f.path = PathOf(e)
    PROVE  Longer(calls[1], e) \in Settled'
<1>1. /\ 1 \in DOMAIN calls /\ e \in Entries[calls[1].dir] /\ TopCall = calls[1]
      /\ e.node \in Node
  BY ReadsIs DEF TypeInv
<1>2. PICK v : v = Longer(calls[1], e)
  OBVIOUS
<1>3. /\ v \in Walk /\ v.node = e.node /\ v.link = e.link /\ v.path = PathOf(e)
      /\ v.links = LinksTo(e) /\ Len(v.path) >= 2
  BY <1>1, <1>2, CallWalk DEF PathOf, LinksTo
<1>4. Kind[e.node] \in {"file", "dir", "other", "none"}
  BY <1>1, ScanAssumption
<1>5. ~Passable(v)
  <2>1. Len(v.path) # 1
    BY <1>3, ReadsIs
  <2>. QED
    BY <1>3, <1>4, <2>1 DEF Descends, Found, Excluded, Passable
<1>6. Wanted(v) => Listed(e)
  BY <1>3, <1>4 DEF Wanted, Listed, Found, Excluded
<1>7. Wanted(v) => \E f \in filelist' : f.path = v.path
  BY <1>3, <1>6
<1>. QED
  BY <1>2, <1>3, <1>5, <1>7, Settles

LEMMA CoverStep ==
    TypeInv /\ StackInv /\ CoverInv /\ [Next]_vars => CoverInv'
<1>. SUFFICES ASSUME TypeInv, StackInv, CoverInv, [Next]_vars PROVE CoverInv'
  OBVIOUS
<1>0. Len(calls) \in Nat /\ DOMAIN calls = 1..Len(calls) /\ optind \in Nat \ {0}
      /\ DOMAIN argv.dirs = 1..Len(argv.dirs) /\ Len(argv.dirs) \in Nat
  BY ScanAssumption DEF TypeInv
<1>1. CASE TakeOption
  <2>1. calls' = <<>> /\ pc' \in {"options", "exited"} /\ DOMAIN calls' = {}
    BY <1>1 DEF TakeOption, StackInv
  <2>. QED
    BY <2>1 DEF CoverInv, Outermost
<1>2. CASE OptionsDone
  <2>1. calls' = <<>> /\ pc' \in {"scan", "exited"} /\ DOMAIN calls' = {} /\ optind' = 1
        /\ argv' = argv
    BY <1>2 DEF OptionsDone, StackInv
  <2>2. ArgsCovered'
    BY <1>0, <2>1 DEF ArgsCovered
  <2>. QED
    BY <2>1, <2>2 DEF CoverInv, Outermost
<1>3. CASE ScanArgument
  <2>1. PICK name : name = argv.dirs[optind]
    OBVIOUS
  <2>2. UNCHANGED <<argv, settings, filelist>> /\ calls = <<>> /\ pc = "scan" /\ pc' = "scan"
        /\ optind' = optind + 1 /\ optind \in DOMAIN argv.dirs
    BY <1>3, AfterArgument DEF found
  <2>3. SUFFICES ASSUME ~missed' PROVE CoverInv'
    BY <2>2 DEF CoverInv
  <2>4. /\ Len(calls') = 1 /\ DOMAIN calls' = {1} /\ calls'[1].path = <<name>>
        /\ calls'[1].dir = Given[name] /\ calls'[1].links = 0
        /\ calls'[1].left = Entries[Given[name]] /\ missed' = missed
    <3>1. ~(missed' = TRUE)
      BY <2>3
    <3>. QED
      BY <1>3, <2>1, <3>1, AfterArgument
  <2>4a. ~missed
    BY <2>3, <2>4
  <2>5. filelist \subseteq filelist'
    BY <2>2
  <2>6. \A j \in DOMAIN argv.dirs : j < optind => ArgWalk(argv.dirs[j]) \in Settled'
    BY <2>2, <2>4a, <2>5, Settles DEF CoverInv, ArgsCovered
  <2>7. ~(calls' = <<>>)
    <3>1. Len(<<>>) = 0
      OBVIOUS
    <3>2. Len(calls') = 1
      BY <2>4
    <3>. QED
      BY ONLY <3>1, <3>2
  <2>8. \A j \in DOMAIN argv.dirs : j < optind' => j < optind \/ j = optind' - 1
    BY <1>0, <2>2
  <2>9. ArgsCovered'
    BY <2>2, <2>6, <2>7, <2>8 DEF ArgsCovered
  <2>10. Outermost'
    <3>1. optind' - 1 = optind
      BY <1>0, <2>2
    <3>2. OfCall(ArgWalk(name), calls'[1])
      BY <2>4 DEF OfCall, ArgWalk
    <3>. QED
      BY <2>1, <2>2, <2>4, <3>1, <3>2 DEF Outermost, OfCall, ArgWalk
  <2>11. \A i \in DOMAIN calls' : Entries[calls'[i].dir] \ calls'[i].left = {}
    <3>1. Entries[calls'[1].dir] \ calls'[1].left = {}
      BY ONLY <2>4
    <3>2. \A i \in DOMAIN calls' : i = 1
      BY ONLY <2>4
    <3>. QED
      BY ONLY <3>1, <3>2
  <2>12. \A i \in DOMAIN calls' : EntriesCovered(i)'
    BY <2>11 DEF EntriesCovered
  <2>. QED
    BY <2>2, <2>9, <2>10, <2>12 DEF CoverInv
<1>4. CASE Return
  <2>1. /\ Len(calls) \in Nat \ {0} /\ Len(calls') = Len(calls) - 1
        /\ DOMAIN calls' = 1..(Len(calls) - 1)
        /\ \A i \in DOMAIN calls' : calls'[i] = calls[i + 1]
    BY <1>4, AfterReturn
  <2>2. UNCHANGED <<argv, settings, filelist, pc, optind, missed>> /\ pc = "scan"
        /\ ~(calls = <<>>)
    BY <1>4 DEF Return, found
  <2>3. SUFFICES ASSUME ~missed PROVE CoverInv'
    BY <2>2 DEF CoverInv
  <2>4. Settled \subseteq Settled'
    BY <2>2, Settles
  <2>5. \A v \in Walk : OfCall(v, calls[1]) => v \in Settled'
    BY <1>4, <2>3, ReturnSettles
  <2>6. ArgsCovered'
    <3>1. ASSUME NEW j \in DOMAIN argv.dirs, j < optind
          PROVE  ArgWalk(argv.dirs[j]) \in Settled' \/ (~(calls' = <<>>) /\ j = optind - 1)
      <4>1. CASE ArgWalk(argv.dirs[j]) \in Settled
        BY <2>4, <4>1
      <4>2. CASE j = optind - 1 /\ Len(calls) = 1
        <5>1. OfCall(ArgWalk(argv.dirs[j]), calls[1])
          BY <2>2, <2>3, <4>2 DEF CoverInv, Outermost
        <5>. QED
          BY <2>5, <5>1, ArgWalkType
      <4>3. CASE j = optind - 1 /\ Len(calls) # 1
        <5>1. Len(calls') # 0
          BY <2>1, <4>3
        <5>2. Len(<<>>) = 0
          OBVIOUS
        <5>. QED
          BY <4>3, <5>1, <5>2
      <4>. QED
        BY <2>2, <2>3, <3>1, <4>1, <4>2, <4>3 DEF CoverInv, ArgsCovered
    <3>. QED
      BY <2>2, <3>1 DEF ArgsCovered
  <2>7. Outermost'
    <3>1. SUFFICES ASSUME ~(calls' = <<>>) PROVE Outermost'
      BY DEF Outermost
    <3>2. DOMAIN calls' # {}
      BY <1>4, <2>1, <3>1, PopIs DEF Return, TypeInv
    <3>3. Len(calls) - 1 \in DOMAIN calls' /\ (Len(calls) - 1) + 1 = Len(calls)
      BY <2>1, <3>2
    <3>4. calls'[Len(calls')] = calls[Len(calls)]
      BY <2>1, <3>3
    <3>. QED
      BY <2>2, <2>3, <3>4 DEF CoverInv, Outermost, OfCall, ArgWalk
  <2>8. ASSUME NEW i \in DOMAIN calls' PROVE EntriesCovered(i)'
    <3>1. i + 1 \in DOMAIN calls /\ calls'[i] = calls[i + 1] /\ i \in Nat \ {0}
      BY <1>0, <2>1
    <3>2. ASSUME NEW e \in Entries[calls[i + 1].dir] \ calls[i + 1].left
          PROVE  \/ Longer(calls[i + 1], e) \in Settled'
                 \/ i > 1 /\ OfCall(Longer(calls[i + 1], e), calls'[i - 1])
      <4>1. Longer(calls[i + 1], e) \in Settled \/ OfCall(Longer(calls[i + 1], e), calls[i])
        <5>1. (i + 1) - 1 = i
          BY <3>1
        <5>. QED
          BY <2>3, <3>1, <5>1 DEF CoverInv, EntriesCovered
      <4>2. CASE Longer(calls[i + 1], e) \in Settled
        BY <2>4, <4>2
      <4>3. CASE OfCall(Longer(calls[i + 1], e), calls[i]) /\ i = 1
        BY <2>5, <3>1, <4>3, CallWalk
      <4>4. CASE OfCall(Longer(calls[i + 1], e), calls[i]) /\ i # 1
        <5>1. i - 1 \in DOMAIN calls' /\ (i - 1) + 1 = i /\ i > 1
          BY <2>1, <3>1, <4>4
        <5>2. calls'[i - 1] = calls[i]
          BY <2>1, <5>1
        <5>. QED
          BY <4>4, <5>1, <5>2
      <4>. QED
        BY <4>1, <4>2, <4>3, <4>4
    <3>3. ASSUME NEW e \in Entries[calls'[i].dir] \ calls'[i].left
          PROVE  \/ Longer(calls'[i], e) \in Settled'
                 \/ i > 1 /\ OfCall(Longer(calls'[i], e), calls'[i - 1])
      BY <3>1, <3>2
    <3>. QED
      BY <3>3 DEF EntriesCovered, OfCall, Longer
  <2>. QED
    BY <2>2, <2>6, <2>7, <2>8 DEF CoverInv
<1>5. CASE ScanDone
  <2>1. UNCHANGED <<argv, settings, calls, filelist, optind, missed>> /\ pc = "scan"
        /\ pc' = "match" /\ optind > Len(argv.dirs)
    BY <1>5 DEF ScanDone, found
  <2>2. Settled \subseteq Settled'
    BY <2>1, Settles
  <2>3. ArgsCovered => ArgsCovered'
    BY <2>1, <2>2 DEF ArgsCovered
  <2>4. \A i \in DOMAIN calls : EntriesCovered(i) => EntriesCovered(i)'
    BY <2>1, <2>2 DEF EntriesCovered, OfCall, Longer
  <2>5. Outermost => Outermost'
    BY <2>1 DEF Outermost, OfCall, ArgWalk
  <2>. QED
    BY <2>1, <2>3, <2>4, <2>5 DEF CoverInv
<1>6. ASSUME NEW e, Descend(e) PROVE CoverInv'
  <2>1. UNCHANGED <<argv, settings, filelist, pc, optind, missed>> /\ Reads(e) /\ pc = "scan"
    BY <1>6 DEF Descend, Reads, found
  <2>2. SUFFICES ASSUME ~missed PROVE CoverInv'
    BY <2>1 DEF CoverInv
  <2>3. Settled \subseteq Settled'
    BY <2>1, Settles
  <2>4. PICK n : n = Len(calls)
    OBVIOUS
  <2>5. /\ DOMAIN calls' = 1..(n + 1) /\ Len(calls') = n + 1
        /\ calls'[1].path = PathOf(e) /\ calls'[1].dir = e.node /\ calls'[1].links = LinksTo(e)
        /\ calls'[1].left = Entries[e.node]
        /\ \A i \in DOMAIN calls :
              /\ calls'[i + 1].path = calls[i].path /\ calls'[i + 1].dir = calls[i].dir
              /\ calls'[i + 1].links = calls[i].links
              /\ calls'[i + 1].left = IF i = 1 THEN calls[i].left \ {e} ELSE calls[i].left
    BY <1>6, <2>4, AfterDescend
  <2>6. /\ n \in Nat \ {0} /\ DOMAIN calls = 1..n /\ ~(calls = <<>>) /\ ~(calls' = <<>>)
        /\ TopCall = calls[1] /\ e \in Entries[calls[1].dir]
    <3>1. Len(<<>>) = 0
      OBVIOUS
    <3>. QED
      BY <1>0, <2>1, <2>4, <2>5, <3>1, ReadsIs
  <2>7. ArgsCovered'
    BY <2>1, <2>2, <2>3, <2>6 DEF CoverInv, ArgsCovered
  <2>8. Outermost'
    <3>1. /\ calls'[n + 1].path = calls[n].path /\ calls'[n + 1].dir = calls[n].dir
          /\ calls'[n + 1].links = calls[n].links
      <4>1. n \in DOMAIN calls
        BY <2>6
      <4>. QED
        BY ONLY <2>5, <4>1
    <3>2. optind - 1 \in DOMAIN argv.dirs /\ OfCall(ArgWalk(argv.dirs[optind - 1]), calls[n])
      BY <2>2, <2>4, <2>6 DEF CoverInv, Outermost
    <3>3. OfCall(ArgWalk(argv.dirs[optind - 1]), calls'[Len(calls')])
      BY <2>5, <3>1, <3>2 DEF OfCall
    <3>. QED
      BY <2>1, <3>2, <3>3 DEF Outermost, OfCall, ArgWalk
  <2>9. ASSUME NEW j \in DOMAIN calls,
               NEW d \in Entries[calls'[j + 1].dir] \ calls'[j + 1].left
        PROVE  \/ Longer(calls'[j + 1], d) \in Settled'
               \/ OfCall(Longer(calls'[j + 1], d), calls'[j])
    <3>1. Longer(calls'[j + 1], d) = Longer(calls[j], d)
      BY <2>5 DEF Longer
    <3>2. d \in Entries[calls[j].dir] /\ (d \notin calls[j].left \/ (d = e /\ j = 1))
      BY <2>5
    <3>3. CASE d = e /\ j = 1
      <4>1. OfCall(Longer(calls[1], e), calls'[1])
        BY <2>5, <2>6 DEF OfCall, Longer, PathOf, LinksTo
      <4>. QED
        BY <3>1, <3>3, <4>1
    <3>4. CASE d \notin calls[j].left
      <4>1. Longer(calls[j], d) \in Settled \/ (j > 1 /\ OfCall(Longer(calls[j], d), calls[j - 1]))
        BY <2>2, <3>2, <3>4 DEF CoverInv, EntriesCovered
      <4>2. ASSUME j > 1 PROVE calls'[j].path = calls[j - 1].path /\ calls'[j].dir = calls[j - 1].dir
                               /\ calls'[j].links = calls[j - 1].links
        <5>1. j - 1 \in DOMAIN calls /\ (j - 1) + 1 = j
          BY <2>6, <4>2
        <5>. QED
          <6>1. PICK i \in DOMAIN calls : i = j - 1 /\ i + 1 = j
            BY <5>1
          <6>2. calls'[i + 1].path = calls[i].path /\ calls'[i + 1].dir = calls[i].dir
                /\ calls'[i + 1].links = calls[i].links
            BY <2>5
          <6>. QED
            BY <6>1, <6>2
      <4>. QED
        BY <2>3, <3>1, <4>1, <4>2 DEF OfCall
    <3>. QED
      BY <3>2, <3>3, <3>4
  <2>10. ASSUME NEW i \in DOMAIN calls',
                NEW d \in Entries[calls'[i].dir] \ calls'[i].left
         PROVE  \/ Longer(calls'[i], d) \in Settled'
                \/ i > 1 /\ OfCall(Longer(calls'[i], d), calls'[i - 1])
    <3>1. i # 1
      BY <2>5, <2>10
    <3>2. PICK j \in DOMAIN calls : i = j + 1 /\ j = i - 1 /\ i > 1
      <4>1. i - 1 \in DOMAIN calls /\ i = (i - 1) + 1 /\ i > 1
        BY <2>5, <2>6, <3>1
      <4>. QED
        BY <4>1
    <3>. QED
      BY <2>9, <2>10, <3>2
  <2>11. \A i \in DOMAIN calls' : EntriesCovered(i)'
    BY <2>10 DEF EntriesCovered, OfCall, Longer
  <2>. QED
    BY <2>1, <2>7, <2>8, <2>11 DEF CoverInv
<1>7. ASSUME NEW e, Reads(e), calls' = Left(e), UNCHANGED <<argv, settings, pc, optind>>,
             filelist \subseteq filelist', ~missed,
             Longer(calls[1], e) \in Settled'
      PROVE  CoverInv'
  <2>1. Settled \subseteq Settled'
    BY <1>7, Settles
  <2>2. /\ DOMAIN calls' = DOMAIN calls /\ Len(calls') = Len(calls) /\ ~(calls = <<>>)
        /\ pc = "scan" /\ Len(calls) \in DOMAIN calls
        /\ \A i \in DOMAIN calls :
              /\ calls'[i].path = calls[i].path /\ calls'[i].dir = calls[i].dir
              /\ calls'[i].links = calls[i].links
              /\ calls'[i].left = IF i = 1 THEN calls[i].left \ {e} ELSE calls[i].left
    <3>1. ~(calls = <<>>) /\ pc = "scan" /\ Len(calls) \in Nat \ {0}
      BY <1>7, ReadsIs
    <3>2. Len(calls) \in DOMAIN calls
      BY <1>0, <3>1
    <3>. QED
      BY <1>7, <3>1, <3>2, AfterRead
  <2>3. ~(calls' = <<>>)
    <3>1. Len(<<>>) = 0
      OBVIOUS
    <3>2. Len(calls') # 0
      BY <1>0, <2>2
    <3>. QED
      BY ONLY <3>1, <3>2
  <2>4. ArgsCovered'
    BY <1>7, <2>1, <2>2, <2>3 DEF CoverInv, ArgsCovered
  <2>5. Outermost'
    <3>1. PICK m : m = Len(calls)
      OBVIOUS
    <3>2. /\ calls'[m].path = calls[m].path /\ calls'[m].dir = calls[m].dir
          /\ calls'[m].links = calls[m].links /\ Len(calls') = m
      BY <2>2, <3>1
    <3>3. Outermost /\ UNCHANGED <<argv, optind>>
      BY <1>7 DEF CoverInv
    <3>. QED
      BY <2>2, <3>1, <3>2, <3>3 DEF Outermost, OfCall, ArgWalk
  <2>6. ASSUME NEW i \in DOMAIN calls', NEW d \in Entries[calls'[i].dir] \ calls'[i].left
        PROVE  \/ Longer(calls'[i], d) \in Settled'
               \/ i > 1 /\ OfCall(Longer(calls'[i], d), calls'[i - 1])
    <3>1. Longer(calls'[i], d) = Longer(calls[i], d)
      BY <2>2 DEF Longer
    <3>2. d \in Entries[calls[i].dir] /\ (d \notin calls[i].left \/ (d = e /\ i = 1))
      BY <2>2
    <3>3. CASE d = e /\ i = 1
      BY <1>7, <3>1, <3>3
    <3>4. CASE d \notin calls[i].left
      <4>1. Longer(calls[i], d) \in Settled \/ (i > 1 /\ OfCall(Longer(calls[i], d), calls[i - 1]))
        BY <1>7, <2>2, <3>2, <3>4 DEF CoverInv, EntriesCovered
      <4>2. i > 1 => i - 1 \in DOMAIN calls
        BY <1>0, <2>2
      <4>. QED
        BY <2>1, <2>2, <3>1, <4>1, <4>2 DEF OfCall
    <3>. QED
      BY <3>2, <3>3, <3>4
  <2>7. \A i \in DOMAIN calls' : EntriesCovered(i)'
    BY <2>6 DEF EntriesCovered, OfCall, Longer
  <2>. QED
    BY <1>7, <2>2, <2>4, <2>5, <2>7 DEF CoverInv
<1>8. ASSUME NEW e, ListFile(e) PROVE CoverInv'
  <2>1. Reads(e) /\ Listed(e) /\ calls' = Left(e) /\ UNCHANGED <<argv, settings, pc, optind, missed>>
    BY <1>8 DEF ListFile
  <2>2. SUFFICES ASSUME ~missed PROVE CoverInv'
    BY <2>1, ReadsIs DEF CoverInv
  <2>3. PICK g : g = [path |-> PathOf(e), node |-> e.node, read_only |-> TopCall.read_only]
    OBVIOUS
  <2>4. filelist' = filelist \cup {g} /\ g.path = PathOf(e)
    BY <1>8, <2>3 DEF ListFile
  <2>5. ~Descends(e)
    BY <2>1 DEF Listed, Descends
  <2>6. filelist \subseteq filelist' /\ \E f \in filelist' : f.path = PathOf(e)
    BY <2>4
  <2>7. Longer(calls[1], e) \in Settled'
    BY <2>1, <2>5, <2>6, PassedSettles
  <2>. QED
    BY <1>7, <2>1, <2>2, <2>6, <2>7
<1>9. ASSUME NEW e, Skips(e) PROVE CoverInv'
  <2>1. Reads(e) /\ calls' = Left(e) /\ UNCHANGED <<argv, settings, pc, optind, filelist>>
    BY <1>9 DEF Skips, Fixed, found
  <2>2. SUFFICES ASSUME ~missed' PROVE CoverInv'
    BY <2>1, ReadsIs DEF CoverInv
  <2>3. PassOver(e) /\ missed' = missed
    BY <1>9, <2>2 DEF Skips
  <2>4. ~missed /\ ~Descends(e) /\ ~Listed(e) /\ filelist \subseteq filelist'
    BY <2>1, <2>2, <2>3 DEF PassOver
  <2>5. Longer(calls[1], e) \in Settled'
    BY <2>1, <2>4, PassedSettles
  <2>. QED
    BY <1>7, <2>1, <2>4, <2>5
<1>10. CASE UNCHANGED vars
  <2>1. UNCHANGED <<argv, settings, calls, filelist, optind, missed, pc>>
    BY <1>10 DEF vars, found
  <2>2. Settled \subseteq Settled'
    BY <2>1, Settles
  <2>3. ArgsCovered => ArgsCovered'
    BY <2>1, <2>2 DEF ArgsCovered
  <2>4. \A i \in DOMAIN calls : EntriesCovered(i) => EntriesCovered(i)'
    BY <2>1, <2>2 DEF EntriesCovered, OfCall, Longer
  <2>5. Outermost => Outermost'
    BY <2>1 DEF Outermost, OfCall, ArgWalk
  <2>. QED
    BY <2>1, <2>3, <2>4, <2>5 DEF CoverInv
<1>. QED
  BY <1>1, <1>2, <1>3, <1>4, <1>5, <1>6, <1>8, <1>9, <1>10, Steps

LEMMA TypesOK == TypeInv /\ StackInv => TypeOK
<1>. SUFFICES ASSUME TypeInv, StackInv PROVE TypeOK
  OBVIOUS
<1>1. optind \in Nat /\ {filecount, read_only_file_count} \subseteq Nat
  BY DEF TypeInv
<1>2. \A i \in DOMAIN calls : calls[i].links \in 0..MaxLinks
  BY CallFields DEF TypeInv
<1>3. \A f \in filelist : Len(f.path) \in 2..(argv.max_open + 1) /\ f.node \in Node
  BY DEF TypeInv, StackInv, FileRec, Depth
<1>. QED
  BY <1>1, <1>2, <1>3 DEF TypeInv, StackInv, TypeOK

(* At the end every walk is settled.                                       *)
LEMMA AllSettled ==
    ASSUME TypeInv, CoverInv, pc = "match", ~missed, StackInv
    PROVE  \A n \in 1..Depth : WalksOf[n] \subseteq Settled
<1>. DEFINE S == {n \in 0..Depth : n = 0 \/ WalksOf[n] \subseteq Settled}
<1>0. Depth \in Nat
  BY DepthType
<1>1. 0 \in S
  BY <1>0
<1>2. ASSUME NEW n \in Nat, n < Depth, n \in S PROVE n + 1 \in S
  <2>1. CASE n = 0
    <3>1. calls = <<>>
      BY DEF StackInv
    <3>2. argv.dirs \in Seq(DOMAIN Given)
      BY ScanAssumption DEF TypeInv
    <3>3. \A j \in DOMAIN argv.dirs : ArgWalk(argv.dirs[j]) \in Settled
      BY <3>1, <3>2 DEF CoverInv, ArgsCovered, TypeInv
    <3>4. WalksOf[1] \subseteq Settled
      BY <3>3, WalksStart DEF ToSet
    <3>. QED
      BY <1>0, <1>2, <2>1, <3>4
  <2>2. CASE n # 0
    <3>1. ASSUME NEW w \in WalksOf[n + 1] PROVE w \in Settled
      <4>1. n + 1 \in 2..Depth /\ (n + 1) - 1 = n
        BY <1>0, <1>2, <2>2
      <4>2. PICK v \in WalksOf[n] : Passable(v) /\ \E e \in Entries[v.node] : w = Longer(v, e)
        BY <3>1, <4>1, WalksCame
      <4>3. v \in Settled
        BY <1>2, <2>2
      <4>. QED
        BY <4>2, <4>3 DEF Settled, Complete
    <3>. QED
      BY <1>0, <1>2, <3>1
  <2>. QED
    BY <2>1, <2>2
<1>3. \A n \in 0..Depth : n \in S
  <2>. HIDE DEF S
  <2>. QED
    BY <1>0, <1>1, <1>2, UpTo
<1>. QED
  BY <1>0, <1>3

LEMMA Exactly ==
    TypeInv /\ StackInv /\ SoundInv /\ CoverInv => FoundExactly
<1>. SUFFICES ASSUME TypeInv, StackInv, SoundInv, CoverInv PROVE FoundExactly
  OBVIOUS
<1>. DEFINE paths == {f.path : f \in filelist}
            wanted == {w.path : w \in {v \in Walks : Wanted(v)}}
<1>0. Depth \in Nat
  BY DepthType
<1>1. paths \subseteq wanted
  <2>1. ASSUME NEW f \in filelist PROVE f.path \in wanted
    <3>1. PICK w \in WalksOf[Len(f.path)] : Wanted(w) /\ OfFile(w, f)
      BY DEF SoundInv, FoundByWalk
    <3>2. Len(f.path) \in 2..Depth
      BY DEF StackInv
    <3>3. w \in Walks
      BY <3>1, <3>2 DEF Walks, Depth
    <3>. QED
      BY <3>1, <3>3 DEF OfFile
  <2>. QED
    BY <2>1
<1>2. ASSUME pc = "match", ~missed PROVE wanted \subseteq paths
  <2>1. ASSUME NEW w \in Walks, Wanted(w) PROVE w.path \in paths
    <3>1. PICK n \in 2..Depth : w \in WalksOf[n]
      BY <2>1 DEF Walks, Depth
    <3>2. n \in 1..Depth /\ n >= 2
      BY <1>0
    <3>3. Len(w.path) >= 2 /\ w \in Settled
      BY <1>2, <3>1, <3>2, WalksType, AllSettled
    <3>4. PICK f \in filelist : f.path = w.path
      BY <2>1, <3>3 DEF Settled, Complete
    <3>. QED
      BY <3>4
  <2>. QED
    BY <2>1
<1>. HIDE DEF paths, wanted
<1>3. pc = "match" => IF missed THEN paths \subseteq wanted ELSE paths = wanted
  BY <1>1, <1>2
<1>. QED
  BY <1>3, TypesOK DEF FoundExactly, paths, wanted
----------------------------------------------------------------------------
(* Where no directory is given twice, what is found is new: it is not below*)
(* a directory still to be scanned, nor below an entry still to be read.   *)
DistinctDirs ==
    \A i, j \in DOMAIN argv.dirs : argv.dirs[i] = argv.dirs[j] => i = j
Extends(p, q) == Len(q) < Len(p) /\ \A k \in 1..Len(q) : p[k] = q[k]
NotBelow(p, r) == \A e \in r.left : p[Len(r.path) + 1] # e.name
Counted == IsFiniteSet(filelist) /\ filecount = Cardinality(filelist)
FreshFile(f) ==
    /\ \A j \in DOMAIN argv.dirs : j >= optind => f.path[1] # argv.dirs[j]
    /\ \A i \in DOMAIN calls : Extends(f.path, calls[i].path) => NotBelow(f.path, calls[i])
FreshCall(i) ==
    /\ optind - 1 \in DOMAIN argv.dirs /\ calls[i].path[1] = argv.dirs[optind - 1]
    /\ \A j \in DOMAIN calls : i < j => NotBelow(calls[i].path, calls[j])
FreshInv ==
    DistinctDirs =>
        /\ Counted
        /\ \A f \in filelist : FreshFile(f)
        /\ \A i \in DOMAIN calls : FreshCall(i)

LEMMA FreshKept ==
    ASSUME FreshInv, UNCHANGED <<argv, calls, filelist, filecount, optind>>
    PROVE  FreshInv'
<1>1. DistinctDirs' = DistinctDirs /\ Counted' = Counted
  BY DEF DistinctDirs, Counted
<1>2. \A f : FreshFile(f)' <=> FreshFile(f)
  BY DEF FreshFile, Extends, NotBelow
<1>3. \A i : FreshCall(i)' <=> FreshCall(i)
  BY DEF FreshCall, NotBelow
<1>. QED
  BY <1>1, <1>2, <1>3 DEF FreshInv

LEMMA FreshStep ==
    TypeInv /\ StackInv /\ FreshInv /\ [Next]_vars => FreshInv'
<1>. SUFFICES ASSUME TypeInv, StackInv, FreshInv, [Next]_vars PROVE FreshInv'
  OBVIOUS
<1>a. argv' = argv
  <2>1. Next => argv' = argv
    BY Steps DEF TakeOption, OptionsDone, ScanArgument, Return, ScanDone, Descend, ListFile,
                 Skips, Fixed
  <2>. QED
    BY <2>1 DEF vars
<1>. SUFFICES ASSUME DistinctDirs PROVE FreshInv'
  BY <1>a DEF FreshInv, DistinctDirs
<1>0. /\ Len(calls) \in Nat /\ DOMAIN calls = 1..Len(calls) /\ optind \in Nat \ {0}
      /\ DOMAIN argv.dirs = 1..Len(argv.dirs) /\ Len(argv.dirs) \in Nat
      /\ Counted /\ (\A f \in filelist : FreshFile(f)) /\ (\A i \in DOMAIN calls : FreshCall(i))
  BY ScanAssumption DEF TypeInv, FreshInv
<1>1. ASSUME UNCHANGED <<filelist, filecount>>, calls' = <<>>,
             (optind' \in Nat /\ optind' >= optind) \/ filelist = {}
      PROVE  FreshInv'
  <2>1. DOMAIN calls' = {}
    BY <1>1
  <2>2. ASSUME NEW f \in filelist' PROVE FreshFile(f)'
    <3>1. f \in filelist /\ FreshFile(f) /\ optind' \in Nat /\ optind' >= optind
      BY <1>0, <1>1
    <3>2. \A j \in DOMAIN argv.dirs : j >= optind' => j >= optind
      BY <1>0, <3>1
    <3>. QED
      BY <1>a, <2>1, <3>1, <3>2 DEF FreshFile
  <2>. QED
    BY <1>0, <1>1, <2>1, <2>2 DEF FreshInv, Counted
<1>2. CASE TakeOption
  <2>1. calls' = <<>> /\ UNCHANGED <<filelist, filecount>> /\ filelist = {}
    BY <1>2 DEF TakeOption, StackInv, found
  <2>. QED
    BY <1>1, <2>1
<1>3. CASE OptionsDone
  <2>1. calls' = <<>> /\ UNCHANGED <<filelist, filecount>> /\ filelist = {}
    BY <1>3 DEF OptionsDone, StackInv, found
  <2>. QED
    BY <1>1, <2>1
<1>4. CASE ScanArgument
  <2>1. PICK name : name = argv.dirs[optind]
    OBVIOUS
  <2>2. UNCHANGED <<filelist, filecount>> /\ optind' = optind + 1 /\ optind \in DOMAIN argv.dirs
    BY <1>4, AfterArgument DEF found
  <2>3. CASE calls' = <<>>
    BY <1>0, <1>1, <2>2, <2>3
  <2>4. CASE ~(calls' = <<>>)
    <3>1. DOMAIN calls' = {1} /\ calls'[1].path = <<name>>
      BY <1>4, <2>1, <2>4, AfterArgument
    <3>2. Len(<<name>>) = 1 /\ <<name>>[1] = name
      OBVIOUS
    <3>3. ASSUME NEW f \in filelist PROVE FreshFile(f)'
      <4>1. \A j \in DOMAIN argv.dirs : j >= optind => f.path[1] # argv.dirs[j]
        BY <1>0 DEF FreshFile
      <4>2. \A j \in DOMAIN argv.dirs : j >= optind' => f.path[1] # argv.dirs[j]
        BY <1>0, <2>2, <4>1
      <4>3. f.path[1] # name
        BY <1>0, <2>1, <2>2, <4>1
      <4>4. ~Extends(f.path, <<name>>)
        BY <3>2, <4>3 DEF Extends
      <4>5. \A i \in DOMAIN calls' : ~Extends(f.path, calls'[i].path)
        BY <3>1, <4>4
      <4>. QED
        BY <1>a, <4>2, <4>5 DEF FreshFile, Extends
    <3>4. ASSUME NEW i \in DOMAIN calls' PROVE FreshCall(i)'
      <4>1. i = 1 /\ \A j \in DOMAIN calls' : j = 1
        BY <3>1, <3>4
      <4>2. optind' - 1 = optind
        BY <1>0, <2>2
      <4>. QED
        BY <1>a, <2>1, <2>2, <3>1, <3>2, <4>1, <4>2 DEF FreshCall
    <3>. QED
      BY <1>0, <2>2, <3>3, <3>4 DEF FreshInv, Counted
  <2>. QED
    BY <2>3, <2>4
<1>5. CASE Return
  <2>1. UNCHANGED <<filelist, filecount, optind>>
    BY <1>5 DEF Return, found
  <2>2. \A i \in DOMAIN calls' : i + 1 \in DOMAIN calls /\ calls'[i] = calls[i + 1] /\ i \in Nat
    BY <1>0, <1>5, AfterReturn
  <2>3. ASSUME NEW f \in filelist PROVE FreshFile(f)'
    <3>1. FreshFile(f)
      BY <1>0
    <3>2. ASSUME NEW i \in DOMAIN calls', Extends(f.path, calls'[i].path)
          PROVE  NotBelow(f.path, calls'[i])
      <4>1. PICK h \in DOMAIN calls : calls'[i] = calls[h]
        BY <2>2
      <4>. QED
        BY <3>1, <3>2, <4>1 DEF FreshFile
    <3>. QED
      BY <1>a, <2>1, <3>1, <3>2 DEF FreshFile, Extends, NotBelow
  <2>4. ASSUME NEW i \in DOMAIN calls' PROVE FreshCall(i)'
    <3>1. FreshCall(i + 1) /\ calls'[i] = calls[i + 1]
      BY <1>0, <2>2
    <3>2. ASSUME NEW j \in DOMAIN calls', i < j PROVE NotBelow(calls'[i].path, calls'[j])
      <4>1. i + 1 < j + 1 /\ j + 1 \in DOMAIN calls /\ calls'[j] = calls[j + 1]
        BY <2>2, <3>2
      <4>. QED
        BY <3>1, <4>1 DEF FreshCall
    <3>. QED
      BY <1>a, <2>1, <3>1, <3>2 DEF FreshCall, NotBelow
  <2>. QED
    BY <1>0, <2>1, <2>3, <2>4 DEF FreshInv, Counted
<1>6. CASE ScanDone
  <2>1. UNCHANGED <<calls, filelist, filecount, optind>>
    BY <1>6 DEF ScanDone, found
  <2>. QED
    BY <1>a, <2>1, FreshKept
<1>7. CASE UNCHANGED vars
  <2>1. UNCHANGED <<calls, filelist, filecount, optind>>
    BY <1>7 DEF vars, found
  <2>. QED
    BY <1>a, <2>1, FreshKept
<1>8. ASSUME NEW e, Descend(e) PROVE FreshInv'
  <2>1. Reads(e) /\ UNCHANGED <<filelist, filecount, optind>>
    BY <1>8 DEF Descend, found
  <2>2. PICK q, n : q = PathOf(e) /\ n = Len(calls)
    OBVIOUS
  <2>3. /\ Len(calls[1].path) = n /\ Len(q) = n + 1 /\ q[n + 1] = e.name /\ n \in Nat \ {0}
        /\ \A k \in 1..n : q[k] = calls[1].path[k]
        /\ e \in Entries[calls[1].dir] /\ TopCall = calls[1] /\ calls[1].dir \in Node
    BY <2>1, <2>2, ReadsIs
  <2>4. e \in calls[1].left
    BY <2>1, <2>3 DEF Reads
  <2>5. /\ DOMAIN calls' = 1..(n + 1) /\ calls'[1].path = q
        /\ \A i \in DOMAIN calls :
              /\ calls'[i + 1].path = calls[i].path
              /\ calls'[i + 1].left = IF i = 1 THEN calls[i].left \ {e} ELSE calls[i].left
    BY <1>8, <2>2, AfterDescend
  <2>6. \A i \in DOMAIN calls' : i = 1 \/ (i - 1 \in DOMAIN calls /\ (i - 1) + 1 = i)
    BY <1>0, <2>2, <2>5
  <2>7. \A p : \A i \in DOMAIN calls : NotBelow(p, calls[i]) => NotBelow(p, calls'[i + 1])
    BY <2>5 DEF NotBelow
  <2>8. ASSUME NEW f \in filelist PROVE FreshFile(f)'
    <3>1. ~Extends(f.path, q)
      <4>1. SUFFICES ASSUME Extends(f.path, q) PROVE FALSE
        OBVIOUS
      <4>2. n + 1 < Len(f.path) /\ \A k \in 1..(n + 1) : f.path[k] = q[k]
        BY <2>3, <4>1 DEF Extends
      <4>2a. Len(f.path) \in Nat
        BY DEF TypeInv, FileRec
      <4>3. Extends(f.path, calls[1].path) /\ f.path[n + 1] = e.name
        BY <2>3, <4>2, <4>2a DEF Extends
      <4>4. 1 \in DOMAIN calls
        BY <1>0, <2>2, <2>3
      <4>. QED
        BY <1>0, <2>3, <2>4, <4>3, <4>4 DEF FreshFile, NotBelow
    <3>2. ASSUME NEW j \in DOMAIN calls, Extends(f.path, calls'[j + 1].path)
          PROVE  NotBelow(f.path, calls'[j + 1])
      BY <1>0, <2>5, <2>7, <3>2 DEF FreshFile
    <3>3. ASSUME NEW i \in DOMAIN calls', Extends(f.path, calls'[i].path)
          PROVE  NotBelow(f.path, calls'[i])
      <4>1. CASE i = 1
        BY <2>5, <3>1, <3>3, <4>1
      <4>2. CASE i # 1
        <5>1. i - 1 \in DOMAIN calls /\ (i - 1) + 1 = i
          BY <2>6, <4>2
        <5>2. PICK j \in DOMAIN calls : j + 1 = i
          BY <5>1
        <5>. QED
          BY <3>2, <3>3, <5>2
      <4>. QED
        BY <4>1, <4>2
    <3>. QED
      BY <1>0, <1>a, <2>1, <3>3 DEF FreshFile, Extends, NotBelow
  <2>9. 1 \in DOMAIN calls /\ FreshCall(1)
    BY <1>0, <2>2, <2>3
  <2>10. ASSUME NEW j \in DOMAIN calls PROVE NotBelow(q, calls'[j + 1])
    <3>1. CASE j = 1
      <4>1. \A d \in calls[1].left \ {e} : q[n + 1] # d.name
        <5>1. calls[1].left \subseteq Entries[calls[1].dir]
          BY <2>9 DEF StackInv
        <5>. QED
          BY <2>3, <5>1, ScanAssumption
      <4>. QED
        BY <2>3, <2>5, <3>1, <4>1 DEF NotBelow
    <3>2. CASE j # 1
      <4>1. 1 < j /\ NotBelow(calls[1].path, calls[j])
        BY <1>0, <2>9, <3>2 DEF FreshCall
      <4>2. Len(calls[j].path) = n - j + 1
        BY <2>2 DEF StackInv
      <4>3. Len(calls[j].path) + 1 \in 1..n
        BY <1>0, <2>2, <2>3, <4>1, <4>2
      <4>4. NotBelow(q, calls[j])
        BY <2>3, <4>1, <4>3 DEF NotBelow
      <4>. QED
        BY <2>7, <4>4
    <3>. QED
      BY <3>1, <3>2
  <2>11. ASSUME NEW i \in DOMAIN calls' PROVE FreshCall(i)'
    <3>1. calls'[i].path[1] = argv.dirs[optind - 1] /\ optind - 1 \in DOMAIN argv.dirs
      <4>1. CASE i = 1
        <5>1. 1 \in 1..n
          BY <2>3
        <5>. QED
          BY <2>3, <2>5, <2>9, <4>1, <5>1 DEF FreshCall
      <4>2. CASE i # 1
        <5>1. PICK j \in DOMAIN calls : j + 1 = i
          BY <2>6, <4>2
        <5>. QED
          <6>1. calls'[i].path = calls[j].path
            BY <2>5, <5>1
          <6>. QED
            BY <1>0, <6>1 DEF FreshCall
      <4>. QED
        BY <4>1, <4>2
    <3>2. ASSUME NEW j \in DOMAIN calls', i < j PROVE NotBelow(calls'[i].path, calls'[j])
      <4>1. i \in Nat /\ j \in Nat /\ j # 1
        BY <2>5, <3>2
      <4>2. PICK k \in DOMAIN calls : k + 1 = j
        BY <2>6, <4>1
      <4>3. CASE i = 1
        BY <2>5, <2>10, <4>2, <4>3
      <4>4. CASE i # 1
        <5>1. PICK h \in DOMAIN calls : h + 1 = i
          BY <2>6, <4>4
        <5>2. h < k
          BY <1>0, <3>2, <4>2, <5>1
        <5>3. NotBelow(calls[h].path, calls[k])
          BY <1>0, <5>2 DEF FreshCall
        <5>. QED
          BY <2>5, <2>7, <4>2, <5>1, <5>3
      <4>. QED
        BY <4>3, <4>4
    <3>. QED
      BY <1>a, <2>1, <3>1, <3>2 DEF FreshCall, NotBelow
  <2>. QED
    BY <1>0, <2>1, <2>8, <2>11 DEF FreshInv, Counted
<1>9. ASSUME NEW e, Reads(e), calls' = Left(e), optind' = optind
      PROVE  /\ \A f \in filelist : FreshFile(f)'
             /\ \A i \in DOMAIN calls' : FreshCall(i)'
             /\ DOMAIN calls' = DOMAIN calls
             /\ \A i \in DOMAIN calls :
                   /\ calls'[i].path = calls[i].path
                   /\ calls'[i].left = IF i = 1 THEN calls[i].left \ {e} ELSE calls[i].left
  <2>1. /\ DOMAIN calls' = DOMAIN calls
        /\ \A i \in DOMAIN calls :
              /\ calls'[i].path = calls[i].path
              /\ calls'[i].left = IF i = 1 THEN calls[i].left \ {e} ELSE calls[i].left
    BY <1>9, AfterRead
  <2>2. \A p : \A i \in DOMAIN calls : NotBelow(p, calls[i]) => NotBelow(p, calls'[i])
    BY <2>1 DEF NotBelow
  <2>3. ASSUME NEW f \in filelist PROVE FreshFile(f)'
    <3>1. FreshFile(f)
      BY <1>0
    <3>2. \A i \in DOMAIN calls' :
             Extends(f.path, calls'[i].path) => NotBelow(f.path, calls'[i])
      BY <2>1, <2>2, <3>1 DEF FreshFile
    <3>. QED
      BY <1>9, <1>a, <3>1, <3>2 DEF FreshFile, Extends, NotBelow
  <2>4. ASSUME NEW i \in DOMAIN calls' PROVE FreshCall(i)'
    <3>1. FreshCall(i)
      BY <1>0, <2>1
    <3>2. \A j \in DOMAIN calls' : i < j => NotBelow(calls'[i].path, calls'[j])
      BY <2>1, <2>2, <3>1 DEF FreshCall
    <3>. QED
      BY <1>9, <1>a, <2>1, <3>1, <3>2 DEF FreshCall, NotBelow
  <2>. QED
    BY <2>1, <2>3, <2>4
<1>10. ASSUME NEW e, Skips(e) PROVE FreshInv'
  <2>1. Reads(e) /\ calls' = Left(e) /\ UNCHANGED <<filelist, filecount, optind>>
    BY <1>10 DEF Skips, found
  <2>. QED
    BY <1>0, <1>9, <2>1 DEF FreshInv, Counted
<1>11. ASSUME NEW e, ListFile(e) PROVE FreshInv'
  <2>1. Reads(e) /\ calls' = Left(e) /\ optind' = optind /\ filecount' = filecount + 1
    BY <1>11 DEF ListFile
  <2>2. PICK q, n : q = PathOf(e) /\ n = Len(calls)
    OBVIOUS
  <2>3. /\ Len(calls[1].path) = n /\ Len(q) = n + 1 /\ q[n + 1] = e.name /\ n \in Nat \ {0}
        /\ \A k \in 1..n : q[k] = calls[1].path[k]
        /\ e \in Entries[calls[1].dir] /\ TopCall = calls[1] /\ calls[1].dir \in Node
    BY <2>1, <2>2, ReadsIs
  <2>4. e \in calls[1].left
    BY <2>1, <2>3 DEF Reads
  <2>5. 1 \in DOMAIN calls /\ FreshCall(1)
    BY <1>0, <2>2, <2>3
  <2>6. PICK g : g = [path |-> q, node |-> e.node, read_only |-> TopCall.read_only]
    OBVIOUS
  <2>7. filelist' = filelist \cup {g} /\ g.path = q
    BY <1>11, <2>2, <2>6 DEF ListFile
  <2>8. g \notin filelist
    <3>1. Extends(q, calls[1].path)
      BY <2>3 DEF Extends
    <3>2. ~NotBelow(q, calls[1])
      BY <2>3, <2>4 DEF NotBelow
    <3>. QED
      BY <1>0, <2>5, <2>7, <3>1, <3>2 DEF FreshFile
  <2>9. Counted'
    BY <1>0, <2>1, <2>7, <2>8, FS_AddElement DEF Counted
  <2>10. /\ DOMAIN calls' = DOMAIN calls
         /\ \A i \in DOMAIN calls :
               /\ calls'[i].path = calls[i].path
               /\ calls'[i].left = IF i = 1 THEN calls[i].left \ {e} ELSE calls[i].left
    BY <1>9, <2>1
  <2>11. FreshFile(g)'
    <3>1. \A j \in DOMAIN argv.dirs : j >= optind' => q[1] # argv.dirs[j]
      <4>1. 1 \in 1..n
        BY <2>3
      <4>2. q[1] = argv.dirs[optind - 1] /\ optind - 1 \in DOMAIN argv.dirs
        BY <2>3, <2>5, <4>1 DEF FreshCall
      <4>3. \A j \in DOMAIN argv.dirs : j >= optind => j # optind - 1
        BY <1>0
      <4>. QED
        BY <2>1, <4>2, <4>3 DEF DistinctDirs
    <3>2. ASSUME NEW j \in DOMAIN calls PROVE NotBelow(q, calls'[j])
      <4>1. CASE j = 1
        <5>1. calls[1].left \subseteq Entries[calls[1].dir]
          BY <2>5 DEF StackInv
        <5>2. \A d \in calls[1].left \ {e} : q[n + 1] # d.name
          BY <2>3, <5>1, ScanAssumption
        <5>. QED
          BY <2>3, <2>10, <4>1, <5>2 DEF NotBelow
      <4>2. CASE j # 1
        <5>1. 1 < j /\ NotBelow(calls[1].path, calls[j])
          BY <1>0, <2>5, <4>2 DEF FreshCall
        <5>2. Len(calls[j].path) = n - j + 1
          BY <2>2 DEF StackInv
        <5>3. Len(calls[j].path) + 1 \in 1..n
          BY <1>0, <2>2, <2>3, <5>1, <5>2
        <5>. QED
          BY <2>3, <2>10, <4>2, <5>1, <5>3 DEF NotBelow
      <4>. QED
        BY <4>1, <4>2
    <3>. QED
      BY <1>a, <2>7, <2>10, <3>1, <3>2 DEF FreshFile, NotBelow
  <2>. QED
    BY <1>9, <2>1, <2>7, <2>9, <2>11 DEF FreshInv
<1>. QED
  BY <1>2, <1>3, <1>4, <1>5, <1>6, <1>7, <1>8, <1>10, <1>11, Steps

(* Without hard links and links that are followed, one walk only leads to  *)
(* a directory.                                                            *)
LEMMA OneWalk ==
    ASSUME TypeInv, NoHardLinks, Apart, ~Flag("s")
    PROVE  \A n, m \in 1..Depth : \A w \in WalksOf[n], v \in WalksOf[m] :
               Passable(w) /\ Passable(v) /\ w.node = v.node => w = v
<1>. DEFINE Same(n) == \A m \in 1..Depth : \A w \in WalksOf[n], v \in WalksOf[m] :
                           Passable(w) /\ Passable(v) /\ w.node = v.node => w = v
            S == {n \in 0..Depth : n = 0 \/ Same(n)}
<1>0. Depth \in Nat
  BY DepthType
<1>a. \A d \in ToSet(argv.dirs) : \A m \in 2..Depth : \A v \in WalksOf[m] :
         Passable(v) => v.node # Given[d]
  <2>1. \A m \in 2..Depth : WalksOf[m] \subseteq Walks
    BY DEF Walks, Depth
  <2>. QED
    BY <2>1 DEF Apart
<1>b. \A c, d \in ToSet(argv.dirs) : Given[c] = Given[d] => c = d
  BY DEF Apart, ToSet
<1>c. \A m \in 1..Depth : m = 1 \/ m \in 2..Depth
  BY <1>0
<1>d. \A w \in WalksOf[1] : \E d \in ToSet(argv.dirs) : w = ArgWalk(d) /\ w.node = Given[d]
  BY WalksStart DEF ArgWalk
<1>1. 0 \in S
  BY <1>0
<1>2. ASSUME NEW n \in Nat, n < Depth, n \in S PROVE n + 1 \in S
  <2>1. CASE n = 0
    <3>1. ASSUME NEW m \in 1..Depth, NEW w \in WalksOf[1], NEW v \in WalksOf[m],
                 Passable(w), Passable(v), w.node = v.node
          PROVE  w = v
      <4>1. PICK d \in ToSet(argv.dirs) : w = ArgWalk(d) /\ w.node = Given[d]
        BY <1>d
      <4>2. CASE m = 1
        BY <1>b, <1>d, <3>1, <4>1, <4>2
      <4>3. CASE m \in 2..Depth
        BY <1>a, <3>1, <4>1, <4>3
      <4>. QED
        BY <1>c, <4>2, <4>3
    <3>. QED
      BY <1>0, <1>2, <2>1, <3>1
  <2>2. CASE n # 0
    <3>0. n \in 1..Depth /\ n + 1 \in 2..Depth /\ (n + 1) - 1 = n /\ n + 1 \in 0..Depth
      BY <1>0, <1>2, <2>2
    <3>1. ASSUME NEW m \in 1..Depth, NEW w \in WalksOf[n + 1], NEW v \in WalksOf[m],
                 Passable(w), Passable(v), w.node = v.node
          PROVE  w = v
      <4>1. CASE m = 1
        BY <1>a, <1>d, <3>0, <3>1, <4>1
      <4>2. CASE m \in 2..Depth
        <5>0. m - 1 \in 1..Depth
          BY <1>0, <4>2
        <5>1. PICK w0 \in WalksOf[n] : Passable(w0) /\ \E e \in Entries[w0.node] : w = Longer(w0, e)
          BY <3>0, WalksCame
        <5>2. PICK v0 \in WalksOf[m - 1] :
                  Passable(v0) /\ \E e \in Entries[v0.node] : v = Longer(v0, e)
          BY <4>2, WalksCame
        <5>3. PICK e \in Entries[w0.node] : w = Longer(w0, e)
          BY <5>1
        <5>4. PICK d \in Entries[v0.node] : v = Longer(v0, d)
          BY <5>2
        <5>5. w0 \in Walk /\ v0 \in Walk /\ Len(w0.path) = n /\ Len(v0.path) = m - 1
          BY <3>0, <5>0, WalksType
        <5>6. /\ w.node = e.node /\ w.link = e.link /\ Len(w.path) = n + 1
              /\ v.node = d.node /\ v.link = d.link /\ Len(v.path) = (m - 1) + 1
          BY <5>3, <5>4, <5>5, LongerType
        <5>7. ~e.link /\ ~d.link
          <6>1. Len(w.path) # 1 /\ Len(v.path) # 1
            BY <3>0, <4>2, <5>6
          <6>. QED
            BY <3>1, <5>6, <6>1 DEF Passable
        <5>8. w0.node \in Node /\ v0.node \in Node
          BY <5>5 DEF Walk
        <5>9. w0.node = v0.node /\ e = d
          BY <3>1, <5>3, <5>4, <5>6, <5>7, <5>8 DEF NoHardLinks
        <5>10. w0 = v0
          BY <1>2, <2>2, <5>0, <5>1, <5>2, <5>9
        <5>. QED
          BY <5>3, <5>4, <5>9, <5>10
      <4>. QED
        BY <1>c, <4>1, <4>2
    <3>. QED
      BY <3>0, <3>1
  <2>. QED
    BY <2>1, <2>2
<1>3. \A n \in 0..Depth : n \in S
  <2>. HIDE DEF S
  <2>. QED
    BY <1>0, <1>1, <1>2, UpTo
<1>. QED
  BY <1>0, <1>3

LEMMA Once ==
    TypeInv /\ StackInv /\ SoundInv /\ ReadOnlyInv /\ FreshInv => FoundOnce
<1>. SUFFICES ASSUME TypeInv, StackInv, SoundInv, ReadOnlyInv, FreshInv,
                     NoHardLinks, Apart, ~Flag("s")
              PROVE  /\ filecount = Cardinality(filelist)
                     /\ \A f, g \in filelist : f.node = g.node => f = g
  BY DEF FoundOnce
<1>1. filecount = Cardinality(filelist)
  <2>1. DistinctDirs
    BY DEF DistinctDirs, Apart
  <2>. QED
    BY <2>1 DEF FreshInv, Counted
<1>2. ASSUME NEW f \in filelist
      PROVE  \E n \in 1..Depth : \E w \in WalksOf[n] : \E e \in Entries[w.node] :
                 /\ Passable(w) /\ f.path = Longer(w, e).path /\ f.node = e.node /\ ~e.link
                 /\ w.node \in Node
  <2>0. Depth \in Nat
    BY DepthType
  <2>1. Len(f.path) \in 2..Depth /\ Len(f.path) - 1 \in 1..Depth
    BY <2>0 DEF StackInv
  <2>2. PICK w \in WalksOf[Len(f.path)] : Wanted(w) /\ OfFile(w, f)
    BY DEF SoundInv, FoundByWalk
  <2>3. PICK v \in WalksOf[Len(f.path) - 1] :
            Passable(v) /\ \E e \in Entries[v.node] : w = Longer(v, e)
    BY <2>1, WalksCame
  <2>4. PICK e \in Entries[v.node] : w = Longer(v, e)
    BY <2>3
  <2>5. v \in Walk
    BY <2>1, WalksType
  <2>6. w.node = e.node /\ w.link = e.link /\ v.node \in Node
    BY <2>4, <2>5, LongerType DEF Walk
  <2>7. ~e.link
    BY <2>2, <2>6 DEF Wanted
  <2>. QED
    BY <2>1, <2>2, <2>3, <2>4, <2>6, <2>7 DEF OfFile
<1>3. ASSUME NEW f \in filelist, NEW g \in filelist, f.node = g.node PROVE f = g
  <2>1a. PICK n \in 1..Depth : \E w \in WalksOf[n] : \E e \in Entries[w.node] :
            /\ Passable(w) /\ f.path = Longer(w, e).path /\ f.node = e.node /\ ~e.link
            /\ w.node \in Node
    BY <1>2
  <2>1b. PICK w \in WalksOf[n] : \E e \in Entries[w.node] :
            /\ Passable(w) /\ f.path = Longer(w, e).path /\ f.node = e.node /\ ~e.link
            /\ w.node \in Node
    BY <2>1a
  <2>1. PICK e \in Entries[w.node] :
            /\ Passable(w) /\ f.path = Longer(w, e).path /\ f.node = e.node /\ ~e.link
            /\ w.node \in Node
    BY <2>1b
  <2>2a. PICK m \in 1..Depth : \E v \in WalksOf[m] : \E d \in Entries[v.node] :
            /\ Passable(v) /\ g.path = Longer(v, d).path /\ g.node = d.node /\ ~d.link
            /\ v.node \in Node
    BY <1>2
  <2>2b. PICK v \in WalksOf[m] : \E d \in Entries[v.node] :
            /\ Passable(v) /\ g.path = Longer(v, d).path /\ g.node = d.node /\ ~d.link
            /\ v.node \in Node
    BY <2>2a
  <2>2. PICK d \in Entries[v.node] :
            /\ Passable(v) /\ g.path = Longer(v, d).path /\ g.node = d.node /\ ~d.link
            /\ v.node \in Node
    BY <2>2b
  <2>3. w.node = v.node /\ e = d
    <3>1. e.node = d.node /\ ~e.link /\ ~d.link /\ w.node \in Node /\ v.node \in Node
      BY <1>3, <2>1, <2>2
    <3>. QED
      BY <3>1 DEF NoHardLinks
  <2>4. w = v
    BY <2>1, <2>2, <2>3, OneWalk
  <2>5. f.path = g.path
    BY <2>1, <2>2, <2>3, <2>4
  <2>6. f \in FileRec /\ g \in FileRec
    BY DEF TypeInv
  <2>7. f.read_only <=> g.read_only
    BY <2>5 DEF ReadOnlyInv, ReadOnlyByPath
  <2>8. f.read_only = g.read_only
    <3>1. f.read_only \in BOOLEAN /\ g.read_only \in BOOLEAN
      BY <2>6 DEF FileRec
    <3>. QED
      BY <2>7, <3>1
  <2>. QED
    BY <1>3, <2>5, <2>6, <2>8 DEF FileRec
<1>. QED
  BY <1>1, <1>3
----------------------------------------------------------------------------
LEMMA InitInvs == Init => ReadOnlyInv /\ SoundInv /\ CoverInv /\ FreshInv
<1>. SUFFICES ASSUME Init PROVE ReadOnlyInv /\ SoundInv /\ CoverInv /\ FreshInv
  OBVIOUS
<1>1. calls = <<>> /\ DOMAIN calls = {} /\ filelist = {} /\ pc = "options" /\ filecount = 0
  BY DEF Init
<1>2. ReadOnlyInv
  BY <1>1 DEF ReadOnlyInv, ReadOnlyByPath
<1>3. SoundInv
  BY <1>1 DEF SoundInv
<1>4. CoverInv
  BY <1>1 DEF CoverInv, Outermost
<1>5. FreshInv
  BY <1>1, FS_EmptySet DEF FreshInv, Counted
<1>. QED
  BY <1>2, <1>3, <1>4, <1>5

(* The marks of read-only files (src/fdupes.cpp:133-142, 226): a file found*)
(* is read only iff a directory on its path matches a name given with -R,  *)
(* however deep it is and whatever links lead to it.                       *)
THEOREM MarksAreRight == Spec => []ReadOnlyByPath
<1>1. Init => TypeInv /\ StackInv /\ ReadOnlyInv
  BY InitInv, InitInvs
<1>2. TypeInv /\ StackInv /\ ReadOnlyInv /\ [Next]_vars => (TypeInv /\ StackInv /\ ReadOnlyInv)'
  BY TypeStep, StackStep, ReadOnlyStep
<1>3. TypeInv /\ StackInv /\ ReadOnlyInv => ReadOnlyByPath
  BY DEF ReadOnlyInv
<1>. QED
  BY <1>1, <1>2, <1>3, PTL DEF Spec

(* One path may be put together in more ways than one, where an argument   *)
(* is below another (src/fdupes.cpp:200-204).  The mark (:226) depends on  *)
(* the parts of its directories only, wherever the argument ends: a path   *)
(* is not found both read only and not, however often it is found.         *)
DirectoryParts(path) == UNION {Parts[path[i]] : i \in 1..(Len(path) - 1)}
THEOREM MarksAgree ==
    Spec => [](\A f, g \in filelist :
                  DirectoryParts(f.path) = DirectoryParts(g.path) => f.read_only = g.read_only)
<1>1. Init => TypeInv /\ StackInv /\ ReadOnlyInv
  BY InitInv, InitInvs
<1>2. TypeInv /\ StackInv /\ ReadOnlyInv /\ [Next]_vars => (TypeInv /\ StackInv /\ ReadOnlyInv)'
  BY TypeStep, StackStep, ReadOnlyStep
<1>3. ASSUME TypeInv, ReadOnlyByPath, NEW f \in filelist, NEW g \in filelist,
             DirectoryParts(f.path) = DirectoryParts(g.path)
      PROVE  f.read_only = g.read_only
  <2>1. ASSUME NEW h \in filelist
        PROVE  h.read_only <=> DirectoryParts(h.path) \cap read_only # {}
    <3>1. h.read_only <=> \E i \in 1..(Len(h.path) - 1) : Parts[h.path[i]] \cap read_only # {}
      BY <1>3 DEF ReadOnlyByPath, is_readonly
    <3>. QED
      BY <3>1 DEF DirectoryParts
  <2>2. f.read_only \in BOOLEAN /\ g.read_only \in BOOLEAN
    BY <1>3 DEF TypeInv, FileRec
  <2>3. f.read_only <=> g.read_only
    BY <1>3, <2>1
  <2>. QED
    BY <2>2, <2>3
<1>4. TypeInv /\ StackInv /\ ReadOnlyInv
          => \A f, g \in filelist :
                DirectoryParts(f.path) = DirectoryParts(g.path) => f.read_only = g.read_only
  BY <1>3 DEF ReadOnlyInv
<1>. QED
  BY <1>1, <1>2, <1>4, PTL DEF Spec

(* The scan (scandir(), src/fdupes.cpp:159-240) finds the files that the   *)
(* options ask for and no others, for every tree of directories and links, *)
(* and every command line; if it missed nothing, all of them.              *)
THEOREM ScanIsExact == Spec => []FoundExactly
<1>1. Init => TypeInv /\ StackInv /\ SoundInv /\ CoverInv
  BY InitInv, InitInvs
<1>2. TypeInv /\ StackInv /\ SoundInv /\ CoverInv /\ [Next]_vars
          => (TypeInv /\ StackInv /\ SoundInv /\ CoverInv)'
  BY TypeStep, StackStep, SoundStep, CoverStep
<1>. QED
  BY <1>1, <1>2, Exactly, PTL DEF Spec

(* Each file is found once and counted once (filecount,                    *)
(* src/fdupes.cpp:229-234) where links are not followed and no directory   *)
(* is reached from two arguments.                                          *)
THEOREM ScanFindsOnce == Spec => []FoundOnce
<1>. DEFINE I == TypeInv /\ StackInv /\ SoundInv /\ ReadOnlyInv /\ FreshInv
<1>1. Init => I
  BY InitInv, InitInvs
<1>2. I /\ [Next]_vars => I'
  BY TypeStep, StackStep, SoundStep, ReadOnlyStep, FreshStep
<1>3. I => FoundOnce
  BY Once
<1>. HIDE DEF I
<1>. QED
  BY <1>1, <1>2, <1>3, PTL DEF Spec
----------------------------------------------------------------------------
(* The scan comes to its end (main() and scandir(), src/fdupes.cpp:169-240,*)
(* 600-665).                                                               *)
ArgumentInv ==
    /\ pc = "options" => optind <= Len(argv.opts) + 1
    /\ pc = "scan" => optind <= Len(argv.dirs) + 1

LEMMA ArgvType ==
    ASSUME TypeInv
    PROVE  /\ Len(argv.opts) \in Nat /\ Len(argv.dirs) \in Nat /\ argv.max_open \in Nat
           /\ optind \in Nat \ {0} /\ pc \in {"options", "scan", "match", "exited"}
           /\ Len(calls) \in Nat /\ DOMAIN calls = 1..Len(calls)
<1>1. argv.opts \in Seq(ToSet(argv.opts)) /\ argv.dirs \in Seq(DOMAIN Given)
      /\ argv.max_open \in Nat
  BY ScanAssumption DEF TypeInv
<1>2. \A S : \A s \in Seq(S) : Len(s) \in Nat /\ DOMAIN s = 1..Len(s)
  OBVIOUS
<1>3. calls \in Seq(CallRec) /\ optind \in Nat \ {0} /\ pc \in {"options", "scan", "match", "exited"}
  BY DEF TypeInv
<1>. QED
  BY <1>1, <1>2, <1>3

LEMMA ArgumentStep ==
    TypeInv /\ StackInv /\ ArgumentInv /\ [Next]_vars => ArgumentInv'
<1>. SUFFICES ASSUME TypeInv, StackInv, ArgumentInv, [Next]_vars PROVE ArgumentInv'
  OBVIOUS
<1>. USE ArgvType DEF ArgumentInv
<1>1. CASE TakeOption
  BY <1>1 DEF TakeOption
<1>2. CASE OptionsDone
  BY <1>2 DEF OptionsDone
<1>3. CASE ScanArgument
  BY <1>3 DEF ScanArgument
<1>4. CASE ScanDone
  BY <1>4 DEF ScanDone
<1>5. CASE Return
  BY <1>5 DEF Return
<1>6. ASSUME NEW e, Descend(e) \/ ListFile(e) \/ Skips(e) PROVE ArgumentInv'
  BY <1>6 DEF Descend, ListFile, Skips, Fixed
<1>7. CASE UNCHANGED vars
  BY <1>7 DEF vars
<1>. QED
  BY <1>1, <1>2, <1>3, <1>4, <1>5, <1>6, <1>7, Steps

LEMMA EntriesAreFinite ==
    ASSUME TypeInv, StackInv, NEW i \in DOMAIN calls
    PROVE  IsFiniteSet(calls[i].left) /\ Cardinality(calls[i].left) \in Nat
<1>1. calls[i].dir \in Node /\ calls[i].left \subseteq Entries[calls[i].dir]
  BY ArgvType, CallFields DEF TypeInv, StackInv
<1>2. IsFiniteSet(Entries[calls[i].dir])
  BY <1>1, ScanAssumption
<1>. QED
  BY <1>1, <1>2, FS_Subset, FS_CardinalityType

LEMMA VariantType ==
    TypeInv /\ StackInv /\ ArgumentInv => Variant \in Variants(argv.max_open + 2)
<1>. SUFFICES ASSUME TypeInv, StackInv, ArgumentInv
              PROVE  Variant \in Variants(argv.max_open + 2)
  OBVIOUS
<1>1. StageLeft \in Nat
  BY ArgvType DEF StageLeft
<1>2. ArgumentsLeft \in Nat
  BY ArgvType DEF ArgumentsLeft, ArgumentInv
<1>3. ASSUME NEW j \in 1..(argv.max_open + 2), j # 1, j # 2 PROVE EntriesLeft(j - 2) \in Nat
  <2>1. j - 2 \in Nat \ {0}
    BY <1>3, ArgvType
  <2>2. CASE j - 2 > Len(calls)
    BY <2>2 DEF EntriesLeft
  <2>3. CASE ~(j - 2 > Len(calls))
    <3>1. Len(calls) + 1 - (j - 2) \in DOMAIN calls
      BY <2>1, <2>3, ArgvType
    <3>2. Cardinality(calls[Len(calls) + 1 - (j - 2)].left) \in Nat
      BY <3>1, EntriesAreFinite
    <3>. QED
      BY <2>3, <3>2 DEF EntriesLeft
  <2>. QED
    BY <2>2, <2>3
<1>. QED
  BY <1>1, <1>2, <1>3 DEF Variant, Variants

(* The part of the variant that a step lowers.                             *)
Lower(depth) ==
    /\ StageLeft' = StageLeft /\ ArgumentsLeft' = ArgumentsLeft
    /\ EntriesLeft(depth)' < EntriesLeft(depth)
    /\ \A k \in 1..(depth - 1) : EntriesLeft(k)' = EntriesLeft(k)
Lowered ==
    \/ StageLeft' < StageLeft
    \/ StageLeft' = StageLeft /\ ArgumentsLeft' < ArgumentsLeft
    \/ \E depth \in 1..argv.max_open : Lower(depth)

LEMMA LoweredIsBelow ==
    ASSUME argv.max_open \in Nat, argv' = argv, Lowered,
           Variant \in Variants(argv.max_open + 2), Variant' \in Variants(argv.max_open + 2)
    PROVE  Below(Variant', Variant, argv.max_open + 2)
<1>. DEFINE top == argv.max_open + 2
<1>1. \A j \in 1..top :
          /\ Variant[j] = IF j = 1 THEN StageLeft ELSE IF j = 2 THEN ArgumentsLeft
                          ELSE EntriesLeft(j - 2)
          /\ Variant'[j] = IF j = 1 THEN StageLeft' ELSE IF j = 2 THEN ArgumentsLeft'
                          ELSE EntriesLeft(j - 2)'
  BY DEF Variant
<1>2. \E j \in 1..top :
          Variant'[j] < Variant[j] /\ \A i \in 1..(j - 1) : Variant'[i] = Variant[i]
  <2>1. CASE StageLeft' < StageLeft
    <3>1. 1 \in 1..top /\ Variant'[1] < Variant[1]
      BY <1>1, <2>1
    <3>2. \A i \in 1..(1 - 1) : Variant'[i] = Variant[i]
      OBVIOUS
    <3>. QED
      BY <3>1, <3>2
  <2>2. CASE StageLeft' = StageLeft /\ ArgumentsLeft' < ArgumentsLeft
    <3>1. 2 \in 1..top /\ Variant'[2] < Variant[2] /\ Variant'[1] = Variant[1]
      BY <1>1, <2>2
    <3>2. \A i \in 1..(2 - 1) : i = 1
      OBVIOUS
    <3>. QED
      BY <3>1, <3>2
  <2>3. ASSUME NEW depth \in 1..argv.max_open, Lower(depth)
        PROVE  /\ Variant'[depth + 2] < Variant[depth + 2]
               /\ \A i \in 1..(depth + 1) : Variant'[i] = Variant[i]
    <3>1. depth + 2 \in 1..top /\ depth + 2 # 1 /\ depth + 2 # 2 /\ (depth + 2) - 2 = depth
      OBVIOUS
    <3>2. Variant'[depth + 2] < Variant[depth + 2]
      BY <1>1, <2>3, <3>1 DEF Lower
    <3>3. ASSUME NEW i \in 1..(depth + 1) PROVE Variant'[i] = Variant[i]
      <4>1. i \in 1..top
        OBVIOUS
      <4>2. CASE i \in {1, 2}
        BY <1>1, <2>3, <4>1, <4>2 DEF Lower
      <4>3. CASE i \notin {1, 2}
        <5>1. i - 2 \in 1..(depth - 1)
          BY <4>3
        <5>2. EntriesLeft(i - 2)' = EntriesLeft(i - 2)
          BY <2>3, <5>1 DEF Lower
        <5>. QED
          BY <1>1, <4>1, <4>3, <5>2
      <4>. QED
        BY <4>2, <4>3
    <3>. QED
      BY <3>2, <3>3
  <2>4. ASSUME NEW depth \in 1..argv.max_open, Lower(depth)
        PROVE  \E j \in 1..top :
                  Variant'[j] < Variant[j] /\ \A i \in 1..(j - 1) : Variant'[i] = Variant[i]
    <3>1. depth + 2 \in 1..top /\ (depth + 2) - 1 = depth + 1
      OBVIOUS
    <3>. QED
      BY <2>3, <2>4, <3>1
  <2>. QED
    BY <2>1, <2>2, <2>4 DEF Lowered
<1>. QED
  BY <1>2 DEF Below

(* An entry that was read, and a call that returns.                        *)
LEMMA ReadLowers ==
    ASSUME TypeInv, StackInv, NEW e, Reads(e), UNCHANGED <<argv, pc, optind>>,
           NEW more \in {0, 1}, Len(calls') = Len(calls) + more,
           \A i \in DOMAIN calls :
               calls'[i + more].left = IF i = 1 THEN calls[i].left \ {e} ELSE calls[i].left
    PROVE  Lowered
<1>1. Len(calls) \in 1..argv.max_open /\ DOMAIN calls = 1..Len(calls) /\ e \in calls[1].left
  BY ReadsIs, ArgvType DEF StackInv, Reads
<1>2. ASSUME NEW k \in 1..Len(calls)
      PROVE  /\ EntriesLeft(k) = Cardinality(calls[Len(calls) + 1 - k].left) + 1
             /\ EntriesLeft(k)' = Cardinality(calls'[Len(calls) + 1 - k + more].left) + 1
             /\ Len(calls) + 1 - k \in DOMAIN calls
  <2>1. ~(k > Len(calls)) /\ ~(k > Len(calls')) /\ Len(calls) + 1 - k \in DOMAIN calls
    BY <1>1
  <2>2. Len(calls') + 1 - k = Len(calls) + 1 - k + more
    BY <1>1
  <2>. QED
    BY <2>1, <2>2 DEF EntriesLeft
<1>. PICK d : d = Len(calls)
  OBVIOUS
<1>3. EntriesLeft(d)' < EntriesLeft(d)
  <2>1. d \in 1..Len(calls) /\ Len(calls) + 1 - d = 1 /\ 1 \in DOMAIN calls
    BY <1>1
  <2>2. calls'[1 + more].left = calls[1].left \ {e}
    BY <2>1
  <2>3. IsFiniteSet(calls[1].left) /\ Cardinality(calls[1].left) \in Nat
    BY <2>1, EntriesAreFinite
  <2>4. Cardinality(calls[1].left \ {e}) = Cardinality(calls[1].left) - 1
    BY <1>1, <2>3, FS_RemoveElement
  <2>5. EntriesLeft(d) = Cardinality(calls[1].left) + 1
    BY <1>2, <2>1
  <2>6. EntriesLeft(d)' = Cardinality(calls'[1 + more].left) + 1
    BY <1>2, <2>1
  <2>. QED
    BY <2>2, <2>3, <2>4, <2>5, <2>6
<1>4. ASSUME NEW k \in 1..(d - 1) PROVE EntriesLeft(k)' = EntriesLeft(k)
  <2>1. k \in 1..Len(calls) /\ Len(calls) + 1 - k # 1
    BY <1>1
  <2>2. calls'[Len(calls) + 1 - k + more].left = calls[Len(calls) + 1 - k].left
    BY <1>2, <2>1
  <2>. QED
    BY <1>2, <2>1, <2>2
<1>5. StageLeft' = StageLeft /\ ArgumentsLeft' = ArgumentsLeft
  BY DEF StageLeft, ArgumentsLeft
<1>6. Lower(d)
  BY <1>3, <1>4, <1>5 DEF Lower
<1>. QED
  BY <1>1, <1>6 DEF Lowered

LEMMA ReturnLowers == ASSUME TypeInv, StackInv, Return PROVE Lowered
<1>1. /\ Len(calls) \in 1..argv.max_open /\ Len(calls') = Len(calls) - 1
      /\ DOMAIN calls' = 1..(Len(calls) - 1)
      /\ \A i \in DOMAIN calls' : calls'[i] = calls[i + 1]
      /\ calls[1].left = {}
  BY AfterReturn, ArgvType DEF StackInv
<1>. PICK d : d = Len(calls)
  OBVIOUS
<1>2. EntriesLeft(d)' < EntriesLeft(d)
  <2>1. d > Len(calls') /\ ~(d > Len(calls)) /\ Len(calls) + 1 - d = 1
    BY <1>1
  <2>2. EntriesLeft(d)' = 0
    BY <2>1 DEF EntriesLeft
  <2>3. EntriesLeft(d) = 0 + 1
    BY <1>1, <2>1, FS_EmptySet DEF EntriesLeft
  <2>. QED
    BY <2>2, <2>3
<1>3. ASSUME NEW k \in 1..(d - 1) PROVE EntriesLeft(k)' = EntriesLeft(k)
  <2>1. ~(k > Len(calls)) /\ ~(k > Len(calls')) /\ Len(calls') + 1 - k \in DOMAIN calls'
        /\ Len(calls') + 1 - k + 1 = Len(calls) + 1 - k
    BY <1>1
  <2>2. calls'[Len(calls') + 1 - k] = calls[Len(calls) + 1 - k]
    BY <1>1, <2>1
  <2>. QED
    BY <2>1, <2>2 DEF EntriesLeft
<1>4. StageLeft' = StageLeft /\ ArgumentsLeft' = ArgumentsLeft
  BY DEF Return, StageLeft, ArgumentsLeft
<1>5. Lower(d)
  BY <1>2, <1>3, <1>4 DEF Lower
<1>. QED
  BY <1>1, <1>5 DEF Lowered

LEMMA StepsLower ==
    ASSUME TypeInv, StackInv, ArgumentInv, Next
    PROVE  Lowered
<1>1. CASE TakeOption
  BY <1>1, ArgvType DEF TakeOption, Lowered, StageLeft, ArgumentsLeft
<1>2. CASE OptionsDone \/ ScanDone
  BY <1>2 DEF OptionsDone, ScanDone, Lowered, StageLeft
<1>3. CASE ScanArgument
  BY <1>3, ArgvType DEF ScanArgument, Lowered, StageLeft, ArgumentsLeft
<1>4. ASSUME NEW e, Descend(e) PROVE Lowered
  <2>1. Reads(e) /\ UNCHANGED <<argv, pc, optind>>
    BY <1>4 DEF Descend
  <2>2. /\ Len(calls') = Len(calls) + 1
        /\ \A i \in DOMAIN calls :
              calls'[i + 1].left = IF i = 1 THEN calls[i].left \ {e} ELSE calls[i].left
    BY <1>4, AfterDescend
  <2>. QED
    BY <2>1, <2>2, ReadLowers
<1>5. ASSUME NEW e, ListFile(e) \/ Skips(e) PROVE Lowered
  <2>1. Reads(e) /\ UNCHANGED <<argv, pc, optind>> /\ calls' = Left(e)
    BY <1>5 DEF ListFile, Skips, Fixed
  <2>2. /\ Len(calls') = Len(calls)
        /\ \A i \in DOMAIN calls :
              calls'[i].left = IF i = 1 THEN calls[i].left \ {e} ELSE calls[i].left
    BY <2>1, AfterRead
  <2>3. Len(calls') = Len(calls) + 0 /\ \A i \in DOMAIN calls : i + 0 = i
    BY <2>2, ArgvType
  <2>4. \A i \in DOMAIN calls :
            calls'[i + 0].left = IF i = 1 THEN calls[i].left \ {e} ELSE calls[i].left
    BY <2>2, <2>3
  <2>. QED
    BY <2>1, <2>3, <2>4, ReadLowers
<1>. QED
  BY <1>1, <1>2, <1>3, <1>4, <1>5, ReturnLowers, Steps

(* Each step of the scan brings it nearer to its end, for every tree, with *)
(* links that lead in circles, and every command line: its variant falls   *)
(* (scandir(), src/fdupes.cpp:169-240).                                    *)
THEOREM NothingIsReadAgain == Spec => ScanAdvances
<1>. DEFINE I == TypeInv /\ StackInv /\ ArgumentInv
<1>1. Init => I
  <2>1. Init => TypeInv /\ StackInv
    BY InitInv
  <2>2. TypeInv /\ Init => ArgumentInv
    BY ArgvType DEF Init, ArgumentInv
  <2>. QED
    BY <2>1, <2>2
<1>2. I /\ [Next]_vars => I'
  BY TypeStep, StackStep, ArgumentStep
<1>p. (TypeInv /\ StackInv /\ ArgumentInv => Variant \in Variants(argv.max_open + 2))'
  BY VariantType, PTL
<1>3. I /\ I' /\ [Next]_vars => [Below(Variant', Variant, argv.max_open + 2)]_vars
  <2>. SUFFICES ASSUME I, I', Next PROVE Below(Variant', Variant, argv.max_open + 2)
    OBVIOUS
  <2>1. argv' = argv
    BY Steps DEF TakeOption, OptionsDone, ScanArgument, Return, ScanDone, Descend, ListFile,
          Skips, Fixed
  <2>2. Lowered /\ argv.max_open \in Nat
    BY StepsLower, ArgvType
  <2>3. Variant \in Variants(argv.max_open + 2) /\ Variant' \in Variants(argv.max_open + 2)
    BY <2>1, <1>p, VariantType
  <2>. QED
    BY <2>1, <2>2, <2>3, LoweredIsBelow
<1>. HIDE DEF I
<1>. QED
  BY <1>1, <1>2, <1>3, PTL DEF Spec, ScanAdvances

(* And it cannot fall for ever: the calls of scandir()                     *)
(* (src/fdupes.cpp:169-240) take finitely many steps, whatever the tree.   *)
BelowPairs(n) == {pair \in Variants(n) \X Variants(n) : Below(pair[1], pair[2], n)}
THEOREM VariantEnds == \A n \in Nat : IsWellFoundedOn(BelowPairs(n), Variants(n))
<1>. SUFFICES ASSUME NEW n \in Nat PROVE IsWellFoundedOn(BelowPairs(n), Variants(n))
  OBVIOUS
<1>. DEFINE Less == {pair \in Nat \X Nat : pair[1] < pair[2]}
<1>1. IsWellFoundedOn(Less, Nat)
  <2>1. ASSUME NEW T \in SUBSET Nat, T # {} PROVE \E k \in T : \A m \in T : ~ (<<m, k>> \in Less)
    <3>1. PICK k \in T : \A m \in T : k <= m
      BY <2>1, LeastNumber
    <3>2. \A m \in T : ~ (<<m, k>> \in Less)
      BY <3>1
    <3>. QED
      BY <3>2
  <2>. HIDE DEF Less
  <2>. QED
    BY <2>1, MinWF
<1>2. IsWellFoundedOn(LexProductOrdering(Less, Nat, n), Variants(n))
  <2>. HIDE DEF Less
  <2>. QED
    BY <1>1, WFLexProductOrdering DEF Variants
<1>3. BelowPairs(n) = LexProductOrdering(Less, Nat, n)
  <2>1. ASSUME NEW pair \in Variants(n) \X Variants(n)
        PROVE  Below(pair[1], pair[2], n) <=>
                   \E j \in 1..n : /\ \A i \in 1..(j - 1) : pair[1][i] = pair[2][i]
                                  /\ <<pair[1][j], pair[2][j]>> \in Less
    <3>1. \A j \in 1..n : pair[1][j] \in Nat /\ pair[2][j] \in Nat
      BY DEF Variants
    <3>2. \A j \in 1..n : <<pair[1][j], pair[2][j]>> \in Less <=> pair[1][j] < pair[2][j]
      BY <3>1
    <3>3. {pair[1], pair[2]} \subseteq Variants(n)
      OBVIOUS
    <3>. HIDE DEF Less
    <3>. QED
      BY <3>2, <3>3 DEF Below
  <2>. HIDE DEF Less
  <2>. QED
    BY <2>1 DEF BelowPairs, LexProductOrdering, Variants
<1>. HIDE DEF Less
<1>. QED
  BY <1>2, <1>3
================================================================================
