----------------------------- MODULE FDupesProofs ----------------------------
(***************************************************************************)
(* Proofs about module FDupes, for any files, contents and checksum: what  *)
(* it takes for duplicates are duplicates, all of them, and what it        *)
(* removes is never the last copy, never read only, never unasked for.     *)
(***************************************************************************)
EXTENDS FDupes, FiniteSetTheorems, WellFoundedInduction, TLAPS

(* What a sequence has is of its set.                                      *)
LEMMA InSeq ==
    ASSUME NEW S, NEW s \in Seq(S), NEW i \in DOMAIN s
    PROVE  s[i] \in S
OBVIOUS

(* A set of numbers has a least one.  The induction theorems of the library*)
(* take an operator; this takes a set, and comes from finite sets being    *)
(* well ordered by inclusion.                                              *)
LEMMA LeastNumber ==
    ASSUME NEW T \in SUBSET Nat, T # {}
    PROVE  \E n \in T : \A m \in T : n <= m
<1>. DEFINE F == {0..n : n \in T}
<1>1. F \subseteq FiniteSubsetsOf(Nat)
  <2>1. \A n \in Nat : IsFiniteSet(0..n)
    BY FS_Interval
  <2>2. \A n \in Nat : 0..n \subseteq Nat
    OBVIOUS
  <2>. QED
    BY <2>1, <2>2 DEF FiniteSubsetsOf
<1>2. F # {}
  OBVIOUS
<1>3. IsWellFoundedOn(StrictSubsetOrdering(Nat), FiniteSubsetsOf(Nat))
  BY FS_StrictSubsetOrderingWellFounded
<1>4. PICK s \in F : \A t \in F : ~ (<<t, s>> \in StrictSubsetOrdering(Nat))
  <2>. HIDE DEF F
  <2>. QED
    BY <1>1, <1>2, <1>3, WFMin
<1>5. PICK n \in T : s = 0..n
  BY <1>4
<1>6. ASSUME NEW m \in T PROVE n <= m
  <2>1. 0..m \in F
    OBVIOUS
  <2>2. ~ (<<0..m, 0..n>> \in StrictSubsetOrdering(Nat))
    BY <2>1, <1>4, <1>5
  <2>3. SUFFICES ASSUME m < n PROVE FALSE
    OBVIOUS
  <2>4. 0..m \subseteq 0..n /\ n \in 0..n /\ n \notin 0..m /\ 0..m \subseteq Nat /\ 0..n \subseteq Nat
    BY <2>3
  <2>. QED
    BY <2>2, <2>4 DEF StrictSubsetOrdering
<1>. QED
  BY <1>6

(* Hence induction, up to a bound.                                         *)
LEMMA UpTo ==
    ASSUME NEW m \in Nat, NEW S, 0 \in S,
           \A n \in Nat : n < m /\ n \in S => n + 1 \in S
    PROVE  \A n \in 0..m : n \in S
<1>. DEFINE T == {n \in 0..m : n \notin S}
<1>. SUFFICES ASSUME T # {} PROVE FALSE
  OBVIOUS
<1>1. T \in SUBSET Nat
  OBVIOUS
<1>2. PICK n \in T : \A k \in T : n <= k
  <2>. HIDE DEF T
  <2>. QED
    BY <1>1, LeastNumber
<1>3. n # 0 /\ n \in 0..m /\ n \notin S
  BY <1>2
<1>4. n - 1 \in 0..m /\ n - 1 \in Nat /\ n - 1 < m /\ n - 1 \notin T
  BY <1>2, <1>3
<1>. QED
  BY <1>3, <1>4
----------------------------------------------------------------------------
(***************************************************************************)
(* The inductive invariants.                                               *)
(***************************************************************************)
Files(groups) == UNION {ToSet(groups[i]) : i \in DOMAIN groups}
Increasing(g) == \A i, j \in DOMAIN g : i < j => g[i] < g[j]
(* Lone files, the last one scanned first.                                 *)
Ranked(groups) ==
    /\ \A i \in DOMAIN groups : Len(groups[i]) = 1
    /\ \A i, j \in DOMAIN groups : i < j => groups[j][1] < groups[i][1]

Comparing == pc \in {"compare", "full", "bytes"}
AtWork == pc = "head" \/ Comparing
Searching == pc \in {"scan", "size"} \/ AtWork

(* The types, and what each place in the program knows of its variables.   *)
ShapeInv ==
    /\ TypeOK
    /\ {filelist, next_filelist} \subseteq [Size -> Seq(Seq(File) \ {<<>>})]
    /\ AtWork => cursize \in Size \ sizes
    /\ Comparing => cur_group # <<>> /\ b >= 2
    /\ pc \in {"full", "bytes"} => b <= Len(queue)
    /\ pc \in {"set", "prompt", "remove"} => scenario.delete
    /\ pc \in {"prompt", "remove"} =>
           /\ sets # <<>>
           /\ names = Writable(Head(sets))
           /\ DOMAIN erase = DOMAIN names
           /\ x >= 1
    /\ pc = "prompt" => Prompt
    /\ pc = "remove" /\ ~Prompt =>
           \A i \in DOMAIN erase : erase[i] = (i > 1 \/ HasReadOnly(Head(sets)))

(* The files scandir() has listed, each once, under the size it saw.       *)
ListInv ==
    /\ pc # "scan" => scanned = Len(Found)
    /\ Searching =>
           \A s \in Size :
               /\ Ranked(filelist[s])
               /\ \A f \in Files(filelist[s]) : size[f] = s /\ f <= scanned
               /\ pc = "scan" \/ s \in sizes => next_filelist[s] = <<>>

(* The files of the queue still to be compared, and those being sorted.    *)
Rest == {queue[j][1] : j \in {k \in DOMAIN queue : b <= k}}
Live == IF pc = "head" THEN Files(queue)
        ELSE ToSet(cur_group) \cup Files(next_queue) \cup Rest

(* Where build_matches() has the files of the size it is looking at.       *)
WorkInv ==
    /\ Increasing(cur_group)
    /\ AtWork => Ranked(queue) /\ Files(queue) \subseteq Files(filelist[cursize])
    /\ Comparing =>
           /\ Ranked(next_queue)
           /\ ToSet(cur_group) \cup Files(next_queue) \subseteq Files(filelist[cursize])
           /\ ToSet(cur_group) \cap Files(next_queue) = {}
           /\ \A f \in ToSet(cur_group) \cup Files(next_queue) : \A r \in Rest : r < f

(* The groups it has completed.                                            *)
Disjoint(groups) ==
    \A i, j \in DOMAIN groups : i # j => ToSet(groups[i]) \cap ToSet(groups[j]) = {}
DoneInv ==
    /\ \A s \in Size :
        /\ \A i \in DOMAIN next_filelist[s] :
               Len(next_filelist[s][i]) > 1 /\ Increasing(next_filelist[s][i])
        /\ Disjoint(next_filelist[s])
        /\ Files(next_filelist[s]) \subseteq Files(filelist[s])
    /\ AtWork => Files(next_filelist[cursize]) \cap Live = {}
    /\ ~Searching => filelist = next_filelist

(* When nobody else writes: scandir() has listed what is to be compared,   *)
(* and what is known of a file is true.                                    *)
TrueInv ==
    writes = 0 /\ Searching =>
        /\ \A f \in Considered :
               f <= scanned => f \in Files(filelist[Len(content[EntryOf(f)])])
        /\ \A s \in Size : \A f \in Files(filelist[s]) :
               f \in Considered /\ Len(content[EntryOf(f)]) = s
        /\ \A f \in File :
               /\ crcpartial[f] # Invalid =>
                      crcpartial[f] =
                          Valid(SubSeq(content[EntryOf(f)], 1, Least(size[f], MaxPartial)))
               /\ crcfull[f] # Invalid =>
                      crcfull[f] = Valid(SubSeq(content[EntryOf(f)], 1, size[f]))
               /\ pc = "scan" => crcpartial[f] = Invalid /\ crcfull[f] = Invalid

(* The same, and byte_match() can still open both: it will say so.         *)
Alike(f, g) == SameContent(f, g) /\ (content[EntryOf(f)] = <<>> \/ CanOpen(2))
Together(s, f, g) ==
    \E i \in DOMAIN next_filelist[s] : {f, g} \subseteq ToSet(next_filelist[s][i])
SameWithin(group) == \A f, g \in ToSet(group) : SameContent(f, g)
Different(group, other) == \A f \in ToSet(group), g \in ToSet(other) : ~SameContent(f, g)

ClassInv ==
    writes = 0 /\ Searching =>
        /\ \A s \in Size :
            /\ \A i \in DOMAIN next_filelist[s] : SameWithin(next_filelist[s][i])
            /\ \A i, j \in DOMAIN next_filelist[s] :
                   i # j => Different(next_filelist[s][i], next_filelist[s][j])
            /\ pc # "scan" /\ s \notin sizes =>
                   \A f \in Files(filelist[s]) : \A g \in Considered :
                       Alike(f, g) /\ ~(AtWork /\ s = cursize /\ f \in Live)
                           => f = g \/ Together(s, f, g)
        /\ Comparing =>
            /\ SameWithin(cur_group)
            /\ \A f \in ToSet(cur_group), g \in Files(next_queue) : ~Alike(f, g)
            /\ Len(cur_group) > 1 =>
                   \A i \in DOMAIN next_filelist[cursize] :
                       Different(next_filelist[cursize][i], cur_group)
        /\ pc \in {"full", "bytes"} => content[EntryOf(FileA)] # <<>>

(* The groups still to be printed or deleted are the last ones of a size.  *)
SetsInv ==
    /\ Searching => sets = <<>>
    /\ pc = "print" => ~scenario.delete
    /\ sets # <<>> =>
           /\ cursize \in Size \ sizes
           /\ Len(sets) <= Len(filelist[cursize])
           /\ \A i \in DOMAIN sets :
                  sets[i] = filelist[cursize][Len(filelist[cursize]) - Len(sets) + i]

(* No directory entry is in two groups, even if it has two names.          *)
ApartInv ==
    writes = 0 /\ ~Searching =>
        \A s, t \in Size : \A i \in DOMAIN filelist[s], j \in DOMAIN filelist[t] :
            \A f \in ToSet(filelist[s][i]), g \in ToSet(filelist[t][j]) :
                EntryOf(f) = EntryOf(g) => s = t /\ i = j

(* Groups nobody has been asked about are as they were compared; of the    *)
(* one at hand the files removed are those marked.                         *)
Intact(group) ==
    \A f, g \in ToSet(group) :
        Exists(EntryOf(f)) /\ content[EntryOf(f)] = content[EntryOf(g)]
Removed(f) == \E i \in DOMAIN names : i < x /\ erase[i] /\ EntryOf(names[i]) = EntryOf(f)
KeptInv ==
    writes = 0 /\ Deletion =>
        /\ \A g \in Unasked : Intact(g)
        /\ pc = "remove" =>
               \A f, g \in ToSet(Head(sets)) :
                   /\ Exists(EntryOf(f)) \/ Removed(f)
                   /\ Exists(EntryOf(f)) /\ Exists(EntryOf(g))
                          => content[EntryOf(f)] = content[EntryOf(g)]
(* A file that an answer was to preserve is of no group still to be asked  *)
(* about, and is not marked in the one at hand.                            *)
PreservedInv ==
    writes = 0 =>
        /\ Searching => preserved = {}
        /\ preserved \subseteq File
        /\ \A g \in Unasked : \A f \in preserved : f \notin ToSet(g)
        /\ pc = "remove" => \A i \in DOMAIN names : erase[i] => names[i] \notin preserved
        /\ KnownByOneName => \A f \in preserved : Exists(EntryOf(f))
FirstInv ==
    ~Prompt /\ writes = 0 /\ Deletion /\ KnownByOneName =>
        \A g \in Groups : ~HasReadOnly(g) => Exists(EntryOf(g[1]))
----------------------------------------------------------------------------
(* The loop that collects the files that may be removed has a result.      *)
Named(group, w) ==
    [n \in 0..Len(group) |->
        IF n = 0 THEN <<>>
        ELSE IF ReadOnly(group[n]) THEN w[n - 1] ELSE Append(w[n - 1], group[n])]

LEMMA WritableIs ==
    ASSUME NEW group \in Seq(File)
    PROVE  \E w : w = Named(group, w) /\ Writable(group) = w[Len(group)]
<1>. DEFINE L == Len(group)
            Solves(w, m) ==
              w = [n \in 0..m |->
                     IF n = 0 THEN <<>>
                     ELSE IF ReadOnly(group[n]) THEN w[n - 1] ELSE Append(w[n - 1], group[n])]
            S == {m \in 0..L : \E w : Solves(w, m)}
<1>0. L \in Nat
  OBVIOUS
<1>1. 0 \in S
  <2>1. \E w : Solves(w, 0)
    <3>1. PICK w : w = [n \in 0..0 |-> <<>>]
      OBVIOUS
    <3>2. w = [n \in 0..0 |->
                 IF n = 0 THEN <<>>
                 ELSE IF ReadOnly(group[n]) THEN w[n - 1] ELSE Append(w[n - 1], group[n])]
      BY <3>1
    <3>. QED
      BY <3>2
  <2>2. 0 \in 0..L
    BY <1>0
  <2>. HIDE DEF Solves, L
  <2>. QED
    BY <2>1, <2>2
<1>2. ASSUME NEW m \in Nat, m < L, m \in S PROVE m + 1 \in S
  <2>1. PICK w : Solves(w, m)
    BY <1>2
  <2>. DEFINE Step(v, n) == IF n = 0 THEN <<>>
                            ELSE IF ReadOnly(group[n]) THEN v[n - 1]
                            ELSE Append(v[n - 1], group[n])
              v == [n \in 0..(m + 1) |-> IF n \in 0..m THEN w[n] ELSE Step(w, n)]
  <2>2. \A n \in 0..m : w[n] = Step(w, n)
    BY <2>1
  <2>3. \A n \in 0..(m + 1) : n # 0 => n - 1 \in 0..m /\ v[n - 1] = w[n - 1]
    OBVIOUS
  <2>4. \A n \in 0..(m + 1) : v[n] = Step(v, n)
    BY <2>2, <2>3
  <2>5. Solves(v, m + 1)
    <3>. HIDE DEF v
    <3>1. v = [n \in 0..(m + 1) |-> v[n]]
      BY DEF v
    <3>. QED
      BY <2>4, <3>1
  <2>6. m + 1 \in 0..L
    BY <1>2, <1>0
  <2>. HIDE DEF v, Solves, L
  <2>. QED
    BY <2>5, <2>6
<1>3. L \in S
  <2>. HIDE DEF S, L
  <2>1. \A n \in 0..L : n \in S
    BY <1>0, <1>1, <1>2, UpTo
  <2>. QED
    BY <1>0, <2>1
<1>4. PICK w : Solves(w, L)
  BY <1>3
<1>. QED
  BY <1>4 DEF Writable, Named

(* What is collected: the writable files, in their order.                  *)
LEMMA WritableFacts ==
    ASSUME NEW group \in Seq(File)
    PROVE  /\ Writable(group) \in Seq(File)
           /\ \A i \in DOMAIN Writable(group) :
                  Writable(group)[i] \in ToSet(group) /\ ~ReadOnly(Writable(group)[i])
           /\ \A k \in DOMAIN group :
                  ReadOnly(group[k]) \/ \E i \in DOMAIN Writable(group) :
                                            Writable(group)[i] = group[k]
           /\ Increasing(group) => Increasing(Writable(group))
           /\ ~HasReadOnly(group) => Writable(group) = group
<1>1. PICK w : w = Named(group, w) /\ Writable(group) = w[Len(group)]
  BY WritableIs
<1>. DEFINE L == Len(group)
            Collects(v, n) ==
              /\ v \in Seq(File)
              /\ \A i \in DOMAIN v :
                    \E k \in 1..n : v[i] = group[k] /\ ~ReadOnly(group[k])
              /\ \A k \in 1..n : ReadOnly(group[k]) \/ \E i \in DOMAIN v : v[i] = group[k]
              /\ Increasing(group) => Increasing(v)
              /\ ~HasReadOnly(group) => Len(v) = n /\ \A k \in 1..n : v[k] = group[k]
            S == {n \in 0..L : Collects(w[n], n)}
<1>2. L \in Nat /\ DOMAIN group = 1..L /\ \A k \in 1..L : group[k] \in File /\ group[k] \in Int
  BY DEF File
<1>3. 0 \in S
  <2>1. w[0] = <<>>
    BY <1>1, <1>2 DEF Named
  <2>2. <<>> \in Seq(File) /\ DOMAIN <<>> = {} /\ Len(<<>>) = 0 /\ Increasing(<<>>)
    BY DEF Increasing
  <2>3. 1..0 = {}
    OBVIOUS
  <2>4. Collects(w[0], 0)
    <3>. HIDE DEF L
    <3>. QED
      BY <2>1, <2>2, <2>3
  <2>. HIDE DEF Collects, L
  <2>. QED
    BY <1>2, <2>4
<1>4. ASSUME NEW n \in Nat, n < L, n \in S PROVE n + 1 \in S
  <2>1. PICK v : v = w[n]
    OBVIOUS
  <2>2. Collects(v, n)
    BY <1>4, <2>1
  <2>3. n + 1 \in 1..L /\ group[n + 1] \in File /\ n + 1 # 0
    BY <1>2, <1>4
  <2>4. w[n + 1] = IF ReadOnly(group[n + 1]) THEN v ELSE Append(v, group[n + 1])
    <3>1. n + 1 \in 0..L /\ (n + 1) - 1 = n
      BY <1>2, <1>4
    <3>. QED
      BY <1>1, <2>1, <2>3, <3>1 DEF Named
  <2>5. \A k \in 1..(n + 1) : k \in 1..n \/ k = n + 1
    OBVIOUS
  <2>6. CASE ReadOnly(group[n + 1])
    <3>1. w[n + 1] = v
      BY <2>4, <2>6
    <3>2. HasReadOnly(group)
      BY <1>2, <2>3, <2>6 DEF HasReadOnly
    <3>3. \A k \in 1..n : k \in 1..(n + 1)
      OBVIOUS
    <3>4. Collects(w[n + 1], n + 1)
      <4>. HIDE DEF L
      <4>. QED
        BY <2>2, <2>5, <2>6, <3>1, <3>2, <3>3
    <3>. HIDE DEF Collects, L
    <3>. QED
      BY <2>3, <3>4
  <2>7. CASE ~ReadOnly(group[n + 1])
    <3>1. PICK u : u = Append(v, group[n + 1])
      OBVIOUS
    <3>2. w[n + 1] = u
      BY <2>4, <2>7, <3>1
    <3>3. /\ u \in Seq(File) /\ Len(u) = Len(v) + 1 /\ Len(v) \in Nat
          /\ DOMAIN u = 1..(Len(v) + 1) /\ DOMAIN v = 1..Len(v)
          /\ \A i \in 1..Len(v) : u[i] = v[i]
          /\ u[Len(v) + 1] = group[n + 1]
      BY <2>2, <2>3, <3>1
    <3>4. \A i \in DOMAIN u : i \in DOMAIN v \/ i = Len(v) + 1
      BY <3>3
    <3>5. \A i \in DOMAIN u :
              \E k \in 1..(n + 1) : u[i] = group[k] /\ ~ReadOnly(group[k])
      <4>. SUFFICES ASSUME NEW i \in DOMAIN u
                    PROVE  \E k \in 1..(n + 1) : u[i] = group[k] /\ ~ReadOnly(group[k])
        OBVIOUS
      <4>1. CASE i \in DOMAIN v
        <5>1. PICK k \in 1..n : v[i] = group[k] /\ ~ReadOnly(group[k])
          BY <2>2, <4>1
        <5>2. k \in 1..(n + 1) /\ u[i] = v[i]
          BY <3>3, <4>1
        <5>. QED
          BY <5>1, <5>2
      <4>2. CASE i = Len(v) + 1
        <5>1. n + 1 \in 1..(n + 1)
          OBVIOUS
        <5>. QED
          BY <2>7, <3>3, <4>2, <5>1
      <4>. QED
        BY <3>4, <4>1, <4>2
    <3>6. \A k \in 1..(n + 1) : ReadOnly(group[k]) \/ \E i \in DOMAIN u : u[i] = group[k]
      <4>1. Len(v) + 1 \in DOMAIN u /\ \A i \in DOMAIN v : i \in DOMAIN u
        BY <3>3
      <4>. QED
        BY <2>2, <2>5, <3>3, <4>1
    <3>7. Increasing(group) => Increasing(u)
      <4>. SUFFICES ASSUME Increasing(group), NEW i \in DOMAIN u, NEW j \in DOMAIN u, i < j
                    PROVE  u[i] < u[j]
        BY DEF Increasing
      <4>1. i \in DOMAIN v /\ u[i] = v[i]
        BY <3>3
      <4>2. CASE j \in DOMAIN v
        BY <2>2, <3>3, <4>1, <4>2 DEF Increasing
      <4>3. CASE j = Len(v) + 1
        <5>1. PICK k \in 1..n : v[i] = group[k]
          BY <2>2, <4>1
        <5>2. k \in DOMAIN group /\ n + 1 \in DOMAIN group /\ k < n + 1
          BY <1>2, <1>4
        <5>. QED
          BY <3>3, <4>1, <4>3, <5>1, <5>2 DEF Increasing
      <4>. QED
        BY <3>4, <4>2, <4>3
    <3>8. ~HasReadOnly(group) => Len(u) = n + 1 /\ \A k \in 1..(n + 1) : u[k] = group[k]
      BY <2>2, <2>5, <3>3
    <3>9. Collects(w[n + 1], n + 1)
      <4>. HIDE DEF L
      <4>. QED
        BY <3>2, <3>3, <3>5, <3>6, <3>7, <3>8
    <3>. HIDE DEF Collects, L
    <3>. QED
      BY <2>3, <3>9
  <2>. QED
    BY <2>6, <2>7
<1>5. \A n \in 0..L : n \in S
  <2>. HIDE DEF S, L
  <2>. QED
    BY <1>2, <1>3, <1>4, UpTo
<1>6. PICK v : v = w[L]
  OBVIOUS
<1>7. Collects(v, L)
  <2>1. L \in S
    <3>. HIDE DEF S, L
    <3>. QED
      BY <1>2, <1>5
  <2>. HIDE DEF Collects
  <2>. QED
    BY <1>6, <2>1
<1>8. Writable(group) = v
  BY <1>1, <1>6
<1>9. \A i \in DOMAIN v : v[i] \in ToSet(group) /\ ~ReadOnly(v[i])
  BY <1>2, <1>7 DEF ToSet
<1>10. ~HasReadOnly(group) => v = group
  BY <1>2, <1>7
<1>. HIDE DEF L
<1>. QED
  BY <1>2, <1>7, <1>8, <1>9, <1>10

(* Which they are is settled when the program starts.                      *)
LEMMA WritableFixed ==
    ASSUME UNCHANGED <<scenario, sets>>
    PROVE  /\ Writable(Head(sets))' = Writable(Head(sets))
           /\ HasReadOnly(Head(sets))' <=> HasReadOnly(Head(sets))
BY DEF Writable, HasReadOnly, ReadOnly, Found
----------------------------------------------------------------------------
LEMMA ScenarioFacts ==
    ASSUME scenario \in Scenarios
    PROVE  /\ Found \in Seq([entry : Entry, read_only : BOOLEAN])
           /\ Len(Found) \in Nat /\ File = DOMAIN Found /\ File \subseteq Nat
           /\ \A f \in File : EntryOf(f) \in Entries
           /\ scenario.contents \subseteq Content
           /\ scenario.max_open \in Nat /\ scenario.max_writes \in Nat
           /\ scenario.delete \in BOOLEAN /\ Prompt \in BOOLEAN
<1>1. scenario \in Scenario
  BY FilesAssumption
<1>2. Found \in Seq([entry : Entry, read_only : BOOLEAN])
  BY <1>1 DEF Scenario, Found
<1>. QED
  BY <1>1, <1>2 DEF Scenario, File, Entries, EntryOf, Prompt

LEMMA SizeFacts ==
    /\ Size \subseteq Nat
    /\ \A c \in Content : Len(c) \in Size /\ c \in Seq(ToSet(c)) /\ c # Gone
BY FilesAssumption DEF Size

(* What the comparisons do to the checksums is their own affair.           *)
LEMMA ShapeInit == Init => ShapeInv
<1>. SUFFICES ASSUME Init PROVE ShapeInv
  OBVIOUS
<1>1. scenario \in Scenarios
  BY DEF Init
<1>2. TypeOK
  BY <1>1, ScenarioFacts, SizeFacts DEF Init, TypeOK
<1>3. <<>> \in Seq(Seq(File) \ {<<>>})
  OBVIOUS
<1>. QED
  BY <1>2, <1>3 DEF Init, ShapeInv, Comparing, AtWork

LEMMA ShapeStep == ShapeInv /\ [Next]_vars => ShapeInv'
<1>. SUFFICES ASSUME ShapeInv, [Next]_vars PROVE ShapeInv'
  OBVIOUS
<1>. USE DEF ShapeInv
<1>1. /\ scenario' = scenario /\ Found' = Found /\ File' = File /\ Entries' = Entries
      /\ Prompt' = Prompt
  BY DEF Next, Program, vars, Found, File, Entries, Prompt
<1>2. /\ TypeOK /\ scenario \in Scenarios
      /\ Found \in Seq([entry : Entry, read_only : BOOLEAN])
      /\ Len(Found) \in Nat /\ File = 1..Len(Found)
      /\ \A f \in File : EntryOf(f) \in Entries
      /\ scenario.contents \subseteq Content
      /\ scenario.max_open \in Nat
  BY ScenarioFacts DEF TypeOK, File
<1>. DEFINE Group == Seq(File) \ {<<>>}
<1>3. CASE ScanFile
  <2>1. PICK f, c : f = scanned + 1 /\ c = content[EntryOf(f)]
    OBVIOUS
  <2>2. f \in File /\ f \in Nat /\ scanned' = f /\ scanned' \in 0..Len(Found) /\ c \in Content \cup {Gone}
    BY <1>2, <1>3, <2>1 DEF ScanFile, TypeOK
  <2>3. CASE c = Gone \/ (Len(c) = 0 /\ ExcludeEmpty) \/ ~(Len(c) > MinSize)
    <3>1. UNCHANGED <<size, filelist>>
      BY <1>3, <2>1, <2>3 DEF ScanFile
    <3>2. TypeOK'
      <4>. HIDE DEF ShapeInv
      <4>. QED
        BY <1>1, <1>2, <1>3, <2>2, <3>1 DEF ScanFile, matchVars, deleteVars, TypeOK
    <3>. QED
      BY <1>1, <1>3, <3>1, <3>2 DEF ScanFile, matchVars, deleteVars, AtWork, Comparing
  <2>4. CASE c # Gone /\ ~(Len(c) = 0 /\ ExcludeEmpty) /\ Len(c) > MinSize
    <3>1. /\ size' = [size EXCEPT ![f] = Len(c)]
          /\ filelist' = [filelist EXCEPT ![Len(c)] = <<<<f>>>> \o @]
      BY <1>3, <2>1, <2>4 DEF ScanFile
    <3>2. Len(c) \in Size
      BY <2>2, <2>4, SizeFacts
    <3>3. filelist' \in [Size -> Seq(Group)]
      <4>0. <<f>> \in Group
        BY <2>2
      <4>1. filelist[Len(c)] \in Seq(Group)
        BY <3>2
      <4>. HIDE DEF Group
      <4>2. <<<<f>>>> \o filelist[Len(c)] \in Seq(Group)
        BY <4>0, <4>1
      <4>3. filelist \in [Size -> Seq(Group)]
        BY DEF Group
      <4>. QED
        BY <3>1, <4>2, <4>3
    <3>4. filelist' \in [Size -> Seq(Seq(File))]
      BY <3>3
    <3>5. size' \in [File -> Size \cup {0}]
      BY <1>2, <2>2, <3>1, <3>2 DEF TypeOK
    <3>6. TypeOK'
      <4>1. filelist' \in [Size -> Seq(Seq(File))] /\ UNCHANGED next_filelist
        BY <1>3, <3>4 DEF ScanFile
      <4>. HIDE DEF ShapeInv
      <4>. QED
        BY <1>1, <1>2, <1>3, <2>2, <3>5, <4>1 DEF ScanFile, matchVars, deleteVars, TypeOK
    <3>. QED
      BY <1>1, <1>3, <3>3, <3>6 DEF ScanFile, matchVars, deleteVars, AtWork, Comparing
  <2>. QED
    BY <2>3, <2>4
<1>4. CASE StartMatching
  BY <1>1, <1>2, <1>4 DEF StartMatching, deleteVars, TypeOK, AtWork, Comparing
<1>5. CASE TakeSize
  <2>1. PICK s \in sizes :
           /\ sizes' = sizes \ {s}
           /\ IF Len(filelist[s]) <= 1
              THEN UNCHANGED <<pc, cursize, queue>>
              ELSE pc' = "head" /\ cursize' = s /\ queue' = filelist[s]
    BY <1>5 DEF TakeSize
  <2>2. s \in Size /\ filelist[s] \in Seq(Group)
    BY <1>2 DEF TypeOK
  <2>3. /\ sizes' \subseteq Size /\ cursize' \in Size \cup {0} /\ queue' \in Seq(Group)
        /\ pc' = pc \/ pc' = "head"
    BY <1>2, <2>1, <2>2 DEF TypeOK
  <2>4. TypeOK'
    BY <1>1, <1>2, <1>5, <2>3 DEF TakeSize, deleteVars, TypeOK
  <2>. QED
    BY <1>1, <1>5, <2>1, <2>2, <2>4 DEF TakeSize, deleteVars, AtWork, Comparing
<1>6. CASE TakeHead
  <2>1. Head(queue) \in Group
    BY <1>2, <1>6 DEF TypeOK, TakeHead
  <2>2. cur_group' \in Seq(File) /\ cur_group' # <<>> /\ next_queue' \in Seq(Group)
    BY <1>6, <2>1 DEF TakeHead
  <2>3. TypeOK'
    BY <1>1, <1>2, <1>6, <2>2 DEF TakeHead, deleteVars, TypeOK
  <2>. QED
    BY <1>1, <1>6, <2>2, <2>3 DEF TakeHead, deleteVars, AtWork, Comparing
<1>7. CASE SizeDone
  BY <1>1, <1>2, <1>7 DEF SizeDone, matchVars, deleteVars, TypeOK, AtWork, Comparing
<1>8. ASSUME Comparing, b <= Len(queue), Accept \/ Reject, NextB,
             UNCHANGED <<content, writes, scanned, size, filelist, next_filelist, sizes,
                         cursize, queue, deleteVars>>,
             leaked' \in 0..scenario.max_open
      PROVE  ShapeInv'
  <2>1. /\ cur_group \in Group /\ queue \in Seq(Group) /\ next_queue \in Seq(Group)
        /\ b \in DOMAIN queue /\ b \in Nat
    BY <1>2, <1>8 DEF TypeOK
  <2>2. queue[b] \in Group
    BY <2>1
  <2>3. queue[b] \o cur_group \in Group
    BY <2>1, <2>2
  <2>4. Append(next_queue, queue[b]) \in Seq(Group)
    <3>. HIDE DEF Group
    <3>. QED
      BY <2>1, <2>2
  <2>5. cur_group' \in Group /\ next_queue' \in Seq(Group) /\ b' \in Nat /\ b' >= 2
    <3>1. b' \in Nat /\ b' >= 2
      BY <1>8, <2>1 DEF NextB
    <3>. HIDE DEF Group
    <3>2. cur_group' \in Group /\ next_queue' \in Seq(Group)
      BY <1>8, <2>1, <2>3, <2>4 DEF Accept, Reject
    <3>. QED
      BY <3>1, <3>2
  <2>6. pc' = "compare" /\ Comparing
    BY <1>8 DEF NextB
  <2>7. TypeOK'
    BY <1>1, <1>2, <1>8, <2>5, <2>6 DEF TypeOK, deleteVars
  <2>. QED
    BY <1>1, <1>8, <2>5, <2>6, <2>7 DEF deleteVars, AtWork, Comparing
<1>9. CASE ComparePartial
  <2>1. \/ (Accept \/ Reject) /\ NextB
        \/ pc' = "full" /\ UNCHANGED <<cur_group, next_queue, b>>
    BY <1>9 DEF ComparePartial
  <2>2. CASE (Accept \/ Reject) /\ NextB
    BY <1>2, <1>8, <1>9, <2>2 DEF ComparePartial, Comparing, TypeOK
  <2>3. CASE pc' = "full" /\ UNCHANGED <<cur_group, next_queue, b>>
    BY <1>1, <1>2, <1>9, <2>3 DEF ComparePartial, deleteVars, TypeOK, AtWork, Comparing
  <2>. QED
    BY <2>1, <2>2, <2>3
<1>10. CASE CompareFull
  <2>1. \/ Reject /\ NextB
        \/ pc' = "bytes" /\ UNCHANGED <<cur_group, next_queue, b>>
    BY <1>10 DEF CompareFull
  <2>2. CASE Reject /\ NextB
    BY <1>2, <1>8, <1>10, <2>2 DEF CompareFull, Comparing, TypeOK
  <2>3. CASE pc' = "bytes" /\ UNCHANGED <<cur_group, next_queue, b>>
    BY <1>1, <1>2, <1>10, <2>3 DEF CompareFull, deleteVars, TypeOK, AtWork, Comparing
  <2>. QED
    BY <2>1, <2>2, <2>3
<1>11. CASE CompareBytes
  <2>1. (Accept \/ Reject) /\ NextB
    BY <1>11 DEF CompareBytes
  <2>2. leaked' \in 0..scenario.max_open
    <3>1. \/ leaked' = leaked
          \/ leaked' = leaked + 2 /\ leaked + 2 <= scenario.max_open
      <4>1. \E opened \in Outcomes(BothOpen(FileA, FileB), {CanOpen(2), FALSE}) :
                leaked' = leaked \/ (opened /\ leaked' = leaked + 2)
        <5>. DEFINE Opened == Outcomes(BothOpen(FileA, FileB), {CanOpen(2), FALSE})
                    Same(opened) == Outcomes(ByteMatch(FileA, FileB), {opened, FALSE})
        <5>1. \E opened \in Opened : \E same \in Same(opened) :
                  IF same THEN leaked' = leaked
                  ELSE leaked' = IF opened THEN leaked + 2 ELSE leaked
          BY <1>11 DEF CompareBytes
        <5>. HIDE DEF Opened, Same
        <5>2. \E opened \in Opened : leaked' = leaked \/ (opened /\ leaked' = leaked + 2)
          BY <5>1
        <5>. QED
          BY <5>2 DEF Opened
      <4>2. \A opened \in Outcomes(BothOpen(FileA, FileB), {CanOpen(2), FALSE}) :
                opened => CanOpen(2)
        BY DEF Outcomes, BothOpen
      <4>. QED
        BY <4>1, <4>2 DEF CanOpen
    <3>2. leaked \in 0..scenario.max_open /\ scenario.max_open \in Nat
      BY <1>2, ScenarioFacts DEF TypeOK
    <3>. QED
      BY <3>1, <3>2
  <2>. QED
    BY <1>8, <1>11, <2>1, <2>2 DEF CompareBytes, Comparing
<1>12. CASE GroupDone
  <2>1. cursize \in Size /\ cur_group \in Group /\ next_queue \in Seq(Group)
    BY <1>2, <1>12 DEF GroupDone, AtWork, Comparing, TypeOK
  <2>2. next_filelist' \in [Size -> Seq(Group)]
    <3>1. next_filelist \in [Size -> Seq(Group)]
      OBVIOUS
    <3>. HIDE DEF Group
    <3>2. Append(next_filelist[cursize], cur_group) \in Seq(Group)
      BY <2>1, <3>1
    <3>. QED
      BY <1>12, <3>1, <3>2 DEF GroupDone
  <2>3. next_filelist' \in [Size -> Seq(Seq(File))]
    BY <2>2
  <2>4. TypeOK'
    BY <1>1, <1>2, <1>12, <2>1, <2>3 DEF GroupDone, deleteVars, TypeOK
  <2>. QED
    BY <1>1, <1>12, <2>1, <2>2, <2>4 DEF GroupDone, deleteVars, AtWork, Comparing
<1>13. CASE MatchingDone
  <2>1. TypeOK'
    BY <1>1, <1>2, <1>13 DEF MatchingDone, deleteVars, TypeOK
  <2>. QED
    BY <1>1, <1>13, <2>1 DEF MatchingDone, deleteVars, AtWork, Comparing
<1>14. CASE TakeSets
  <2>1. PICK s \in sizes : sizes' = sizes \ {s} /\ cursize' = s /\ sets' = filelist[s]
    BY <1>14 DEF TakeSets
  <2>2. s \in Size /\ filelist[s] \in Seq(Group)
    BY <1>2, <2>1 DEF TypeOK
  <2>3. TypeOK'
    BY <1>1, <1>2, <1>14, <2>1, <2>2, SMTT(20) DEF TakeSets, TypeOK
  <2>. QED
    BY <1>1, <1>14, <2>1, <2>2, <2>3 DEF TakeSets, AtWork, Comparing
<1>15. CASE PrintSet
  <2>1. Tail(sets) \in Seq(Group)
    BY <1>2, <1>15 DEF PrintSet, TypeOK
  <2>2. TypeOK'
    BY <1>1, <1>2, <1>15, <2>1 DEF PrintSet, matchVars, TypeOK
  <2>. QED
    BY <1>1, <1>15, <2>2 DEF PrintSet, matchVars, AtWork, Comparing
<1>16. CASE SkipSet
  <2>1. Tail(sets) \in Seq(Group)
    BY <1>2, <1>16 DEF SkipSet, TypeOK
  <2>2. TypeOK'
    BY <1>1, <1>2, <1>16, <2>1 DEF SkipSet, matchVars, TypeOK
  <2>. QED
    BY <1>1, <1>16, <2>2 DEF SkipSet, matchVars, AtWork, Comparing
<1>17. CASE TakeSet
  <2>1. UNCHANGED <<scenario, sets>>
    BY <1>1, <1>17 DEF TakeSet
  <2>2. /\ Writable(Head(sets))' = Writable(Head(sets))
        /\ HasReadOnly(Head(sets))' <=> HasReadOnly(Head(sets))
    BY <2>1, WritableFixed
  <2>3. Head(sets) \in Seq(File)
    <3>1. sets \in Seq(Group) /\ sets # <<>>
      BY <1>2, <1>17 DEF TakeSet, TypeOK
    <3>. QED
      BY <3>1
  <2>4. names' = Writable(Head(sets)) /\ names' \in Seq(File)
    BY <1>17, <2>3, WritableFacts DEF TakeSet
  <2>5. /\ DOMAIN names' = 1..Len(names') /\ Len(names') \in Nat
        /\ erase' = [i \in DOMAIN names' |-> Prompt \/ i > 1 \/ HasReadOnly(Head(sets))]
    BY <1>17, <2>4 DEF TakeSet
  <2>6. DOMAIN erase' = DOMAIN names' /\ erase' \in Seq(BOOLEAN)
    <3>1. erase' \in [1..Len(names') -> BOOLEAN]
      BY <2>5
    <3>. QED
      BY <2>5, <3>1
  <2>7. ~Prompt => \A i \in DOMAIN erase' : erase'[i] = (i > 1 \/ HasReadOnly(Head(sets)))
    BY <2>5
  <2>8. /\ pc' = IF Prompt THEN "prompt" ELSE "remove"
        /\ x' = 1 /\ sets # <<>> /\ scenario.delete
    BY <1>17 DEF TakeSet
  <2>9. TypeOK'
    <3>1. x' \in Nat /\ pc' \in {"prompt", "remove"}
      BY <2>8
    <3>. HIDE DEF ShapeInv
    <3>. QED
      BY <1>1, <1>2, <1>17, <2>4, <2>6, <3>1 DEF TakeSet, matchVars, TypeOK
  <2>10. (~Prompt => \A i \in DOMAIN erase : erase[i] = (i > 1 \/ HasReadOnly(Head(sets))))'
    BY <1>1, <2>2, <2>7
  <2>11. (names = Writable(Head(sets)) /\ sets # <<>> /\ DOMAIN erase = DOMAIN names)'
    BY <2>1, <2>2, <2>4, <2>6, <2>8
  <2>. QED
    BY <1>1, <1>17, <2>8, <2>9, <2>10, <2>11 DEF TakeSet, matchVars, AtWork, Comparing
<1>18. CASE RemoveFile
  <2>1. UNCHANGED <<scenario, sets, names, erase>>
    BY <1>1, <1>18 DEF RemoveFile
  <2>2. /\ Writable(Head(sets))' = Writable(Head(sets))
        /\ HasReadOnly(Head(sets))' <=> HasReadOnly(Head(sets))
    BY <2>1, WritableFixed
  <2>3. content' \in [Entries -> Content \cup {Gone}]
    BY <1>2, <1>18 DEF RemoveFile, TypeOK
  <2>4. TypeOK'
    <3>1. x' \in Nat
      BY <1>2, <1>18 DEF RemoveFile, TypeOK
    <3>. HIDE DEF ShapeInv
    <3>. QED
      BY <1>1, <1>2, <1>18, <2>3, <3>1 DEF RemoveFile, matchVars, TypeOK
  <2>5. x' >= 1
    BY <1>2, <1>18 DEF RemoveFile, TypeOK
  <2>. QED
    BY <1>1, <1>18, <2>1, <2>2, <2>4, <2>5 DEF RemoveFile, matchVars, AtWork, Comparing
<1>19. CASE SetDone
  <2>1. Tail(sets) \in Seq(Group)
    BY <1>2, <1>19 DEF SetDone, TypeOK
  <2>2. TypeOK'
    BY <1>1, <1>2, <1>19, <2>1 DEF SetDone, matchVars, TypeOK
  <2>. QED
    BY <1>1, <1>19, <2>2 DEF SetDone, matchVars, AtWork, Comparing
<1>20. CASE AllSetsDone
  BY <1>1, <1>2, <1>20 DEF AllSetsDone, matchVars, deleteVars, TypeOK, AtWork, Comparing
<1>21. CASE QuitAnswer
  BY <1>1, <1>2, <1>21 DEF QuitAnswer, matchVars, deleteVars, TypeOK, AtWork, Comparing
<1>22. ASSUME NEW tokens \in Answers, Answer(tokens) PROVE ShapeInv'
  <2>1. UNCHANGED <<scenario, sets>> /\ names' = names
    BY <1>1, <1>22 DEF Answer
  <2>2. Writable(Head(sets))' = Writable(Head(sets))
    BY <2>1, WritableFixed
  <2>3. pc = "prompt" /\ Prompt /\ scenario.delete
    BY <1>22 DEF Answer
  <2>4. DOMAIN erase = 1..Len(erase) /\ Len(erase) \in Nat /\ erase \in [1..Len(erase) -> BOOLEAN]
    <3>1. erase \in Seq(BOOLEAN)
      BY <1>2 DEF TypeOK
    <3>. QED
      BY ONLY <3>1
  <2>5. erase' = Obeyed(tokens, [i \in DOMAIN erase |-> i > 1 \/ erase[i]])
    BY <1>22 DEF Answer
  <2>6. erase' \in [1..Len(erase) -> BOOLEAN]
    <3>. DEFINE asked == [i \in DOMAIN erase |-> i > 1 \/ erase[i]]
    <3>1. asked \in [1..Len(erase) -> BOOLEAN]
      BY <2>4
    <3>. HIDE DEF asked
    <3>2. Obeyed(tokens, asked) \in [1..Len(erase) -> BOOLEAN]
      BY <3>1 DEF Obeyed
    <3>. QED
      BY <2>5, <3>2 DEF asked
  <2>7. erase' \in Seq(BOOLEAN) /\ DOMAIN erase' = DOMAIN names'
    <3>1. erase' \in Seq(BOOLEAN)
      BY ONLY <2>4, <2>6
    <3>2. DOMAIN erase = DOMAIN names
      BY <1>22 DEF Answer
    <3>. QED
      BY <2>1, <2>4, <2>6, <3>1, <3>2
  <2>8. pc' \in {"remove", "prompt"}
    BY <1>22 DEF Answer
  <2>9. TypeOK'
    BY <1>1, <1>2, <1>22, <2>1, <2>7, <2>8 DEF Answer, matchVars, TypeOK
  <2>. QED
    BY <1>1, <1>22, <2>1, <2>2, <2>3, <2>7, <2>8, <2>9 DEF Answer, matchVars, AtWork, Comparing
<1>23. CASE OtherWrites
  <2>1. UNCHANGED <<scenario, sets, names, erase, pc>> /\ writes' \in 0..scenario.max_writes
    BY <1>1, <1>2, <1>23, ScenarioFacts DEF OtherWrites, deleteVars, TypeOK
  <2>2. /\ Writable(Head(sets))' = Writable(Head(sets))
        /\ HasReadOnly(Head(sets))' <=> HasReadOnly(Head(sets))
    BY <2>1, WritableFixed
  <2>3. content' \in [Entries -> Content \cup {Gone}]
    BY <1>2, <1>23 DEF OtherWrites, TypeOK
  <2>4. TypeOK'
    BY <1>1, <1>2, <1>23, <2>1, <2>3 DEF OtherWrites, matchVars, deleteVars, TypeOK
  <2>. QED
    BY <1>1, <1>23, <2>1, <2>2, <2>4 DEF OtherWrites, matchVars, deleteVars, AtWork, Comparing
<1>24. CASE UNCHANGED vars
  <2>1. UNCHANGED <<scenario, sets, names, erase, pc>>
    BY <1>24 DEF vars, deleteVars
  <2>2. /\ Writable(Head(sets))' = Writable(Head(sets))
        /\ HasReadOnly(Head(sets))' <=> HasReadOnly(Head(sets))
    BY <2>1, WritableFixed
  <2>3. TypeOK'
    BY <1>1, <1>2, <1>24 DEF vars, matchVars, deleteVars, TypeOK
  <2>. QED
    BY <1>1, <1>24, <2>1, <2>2, <2>3 DEF vars, matchVars, deleteVars, AtWork, Comparing
<1>. QED
  BY <1>3, <1>4, <1>5, <1>6, <1>7, <1>9, <1>10, <1>11, <1>12, <1>13, <1>14, <1>15, <1>16,
     <1>17, <1>18, <1>19, <1>20, <1>21, <1>22, <1>23, <1>24
  DEF Next, Program, Matching, Finishing, User

LEMMA Shapes == Spec => []ShapeInv
BY ShapeInit, ShapeStep, PTL DEF Spec
----------------------------------------------------------------------------
(* Only two steps change a file, and one of them is another program's.     *)
LEMMA WhoWrites ==
    [Next]_vars =>
        /\ scenario' = scenario /\ Found' = Found /\ File' = File /\ Entries' = Entries
        /\ Prompt' = Prompt
        /\ \/ OtherWrites /\ pc' = pc /\ writes' = writes + 1
           \/ RemoveFile /\ writes' = writes /\ pc' = pc
           \/ UNCHANGED <<content, writes>>
<1>. SUFFICES ASSUME [Next]_vars
              PROVE  /\ scenario' = scenario
                     /\ \/ OtherWrites /\ pc' = pc /\ writes' = writes + 1
                        \/ RemoveFile /\ writes' = writes /\ pc' = pc
                        \/ UNCHANGED <<content, writes>>
  BY DEF Found, File, Entries, Prompt
<1>1. scenario' = scenario
  BY DEF Next, Program, vars
<1>2. CASE Program
  <2>1. CASE ScanFile \/ StartMatching
    BY <1>1, <2>1 DEF ScanFile, StartMatching
  <2>2. CASE Matching
    BY <1>1, <2>2 DEF Matching, TakeSize, TakeHead, SizeDone, ComparePartial, CompareFull,
                CompareBytes, GroupDone, MatchingDone
  <2>3. CASE Finishing
    BY <1>1, <2>3 DEF Finishing, TakeSets, PrintSet, SkipSet, TakeSet, RemoveFile, SetDone,
                AllSetsDone
  <2>. QED
    BY <1>2, <2>1, <2>2, <2>3 DEF Program
<1>3. CASE User
  BY <1>1, <1>3 DEF User, QuitAnswer, Answer
<1>4. CASE OtherWrites
  BY <1>1, <1>4 DEF OtherWrites
<1>5. CASE UNCHANGED vars
  BY <1>1, <1>5 DEF vars
<1>. QED
  BY <1>1, <1>2, <1>3, <1>4, <1>5 DEF Next

(* The file RemoveFile is about to remove is one that may be.              *)
LEMMA Removable ==
    ASSUME ShapeInv, RemoveFile
    PROVE  /\ x \in DOMAIN names /\ x \in DOMAIN erase
           /\ names[x] \in File /\ ~ReadOnly(names[x])
           /\ sets # <<>> /\ Head(sets) \in Seq(File) /\ names[x] \in ToSet(Head(sets))
           /\ names = Writable(Head(sets)) /\ scenario.delete
           /\ content' # content =>
                  erase[x] /\ content' = [content EXCEPT ![EntryOf(names[x])] = Gone]
<1>1. /\ TypeOK /\ sets # <<>> /\ names = Writable(Head(sets)) /\ x >= 1 /\ x <= Len(names)
      /\ DOMAIN erase = DOMAIN names /\ scenario.delete
  BY DEF ShapeInv, RemoveFile
<1>2. Head(sets) \in Seq(File)
  <2>1. sets \in Seq(Seq(File) \ {<<>>})
    BY <1>1 DEF TypeOK
  <2>. QED
    BY <1>1, <2>1
<1>3. x \in DOMAIN names /\ names \in Seq(File)
  BY <1>1 DEF TypeOK
<1>4. names[x] \in ToSet(Head(sets)) /\ ~ReadOnly(names[x])
  BY <1>1, <1>2, <1>3, WritableFacts
<1>. QED
  BY <1>1, <1>2, <1>3, <1>4 DEF RemoveFile

(* ReadOnlyKept holds (deletefiles(), lines 257-339): what is removed comes *)
(* from names, where no read-only file is, and only deletefiles() removes. *)
(* Thus an entry that is found read only under each of its names stays; one*)
(* that has another name may go.                                           *)
THEOREM NoProtectedFileRemoved == Spec => ReadOnlyKept
<1>1. ASSUME ShapeInv, [Next]_vars, writes' = writes, NEW p \in Entries,
             content'[p] # content[p]
      PROVE  scenario.delete /\ \E f \in File : EntryOf(f) = p /\ ~ReadOnly(f)
  <2>1. CASE UNCHANGED content
    BY <1>1, <2>1
  <2>2. CASE OtherWrites /\ writes' = writes + 1
    BY <1>1, <2>2 DEF ShapeInv, TypeOK
  <2>3. CASE RemoveFile /\ content' # content
    <3>1. /\ names[x] \in File /\ ~ReadOnly(names[x]) /\ scenario.delete
          /\ content' = [content EXCEPT ![EntryOf(names[x])] = Gone]
      BY <1>1, <2>3, Removable
    <3>2. content \in [Entries -> Content \cup {Gone}]
      BY <1>1 DEF ShapeInv, TypeOK
    <3>3. p = EntryOf(names[x])
      BY <1>1, <3>1, <3>2
    <3>. QED
      BY <3>1, <3>3
  <2>. QED
    BY <1>1, <2>1, <2>2, <2>3, WhoWrites
<1>2. ShapeInv /\ [Next]_vars =>
          [writes' = writes => \A p \in Entries : content'[p] # content[p]
               => scenario.delete /\ \E f \in File : EntryOf(f) = p /\ ~ReadOnly(f)]_vars
  BY <1>1
<1>. QED
  BY <1>2, Shapes, PTL DEF Spec, ReadOnlyKept
----------------------------------------------------------------------------
(* What changes while files are searched for, and afterwards.              *)
LEMMA WhileSearching ==
    ASSUME ShapeInv, [Next]_vars, Searching', pc # "scan"
    PROVE  /\ Searching /\ pc' # "scan" /\ sizes' \subseteq sizes
           /\ UNCHANGED <<filelist, size, scanned, sets>>
           /\ GroupDone \/ UNCHANGED next_filelist
<1>1. CASE Matching
  <2>1. CASE TakeSize \/ TakeHead \/ SizeDone
    BY <2>1 DEF TakeSize, TakeHead, SizeDone, Searching, AtWork, Comparing, matchVars, deleteVars
  <2>2. CASE ComparePartial \/ CompareFull \/ CompareBytes
    BY <2>2 DEF ComparePartial, CompareFull, CompareBytes, NextB, Searching, AtWork,
                Comparing, deleteVars
  <2>3. CASE GroupDone
    BY <2>3 DEF GroupDone, Searching, AtWork, Comparing, deleteVars
  <2>4. CASE MatchingDone
    BY <2>4 DEF MatchingDone, Searching, AtWork, Comparing
  <2>. QED
    BY <1>1, <2>1, <2>2, <2>3, <2>4 DEF Matching
<1>2. CASE Finishing
  BY <1>2 DEF Finishing, TakeSets, PrintSet, SkipSet, TakeSet, RemoveFile, SetDone,
              AllSetsDone, Searching, AtWork, Comparing
<1>3. CASE User
  BY <1>3 DEF User, Answer, QuitAnswer, Searching, AtWork, Comparing
<1>4. CASE OtherWrites \/ UNCHANGED vars
  BY <1>4 DEF OtherWrites, vars, matchVars, deleteVars, Searching, AtWork, Comparing
<1>5. CASE ScanFile \/ StartMatching
  BY <1>5 DEF ScanFile, StartMatching
<1>. QED
  BY <1>1, <1>2, <1>3, <1>4, <1>5 DEF Next, Program

LEMMA AfterSearching ==
    ASSUME ShapeInv, [Next]_vars, ~Searching'
    PROVE  \/ MatchingDone
           \/ ~Searching /\ UNCHANGED <<filelist, next_filelist, scanned, size>>
<1>1. CASE Matching
  BY <1>1 DEF Matching, TakeSize, TakeHead, SizeDone, ComparePartial, CompareFull, CompareBytes,
              GroupDone, NextB, Searching, AtWork, Comparing
<1>2. CASE Finishing
  BY <1>2 DEF Finishing, TakeSets, PrintSet, SkipSet, TakeSet, RemoveFile, SetDone,
              AllSetsDone, Searching, AtWork, Comparing
<1>3. CASE User
  BY <1>3 DEF User, Answer, QuitAnswer, Searching, AtWork, Comparing
<1>4. CASE OtherWrites \/ UNCHANGED vars
  BY <1>4 DEF OtherWrites, vars, Searching, AtWork, Comparing
<1>5. CASE ScanFile \/ StartMatching
  BY <1>5 DEF ScanFile, StartMatching, Searching
<1>. QED
  BY <1>1, <1>2, <1>3, <1>4, <1>5 DEF Next, Program

(* One more file in front of a list of groups, or at its end.              *)
LEMMA InFront ==
    ASSUME NEW gs \in Seq(Seq(Nat) \ {<<>>}), NEW f \in Nat
    PROVE  /\ Files(<<<<f>>>> \o gs) = {f} \cup Files(gs)
           /\ Ranked(gs) /\ (\A g \in Files(gs) : g < f) => Ranked(<<<<f>>>> \o gs)
<1>1. PICK hs : hs = <<<<f>>>> \o gs
  OBVIOUS
<1>2. <<f>> \in Seq(Nat) /\ Len(<<f>>) = 1 /\ <<f>>[1] = f /\ ToSet(<<f>>) = {f}
  BY DEF ToSet
<1>0. PICK n \in Nat : n = Len(gs)
  OBVIOUS
<1>3. /\ hs \in Seq(Seq(Nat)) /\ hs[1] = <<f>>
      /\ DOMAIN hs = 1..(n + 1) /\ DOMAIN gs = 1..n
      /\ \A i \in 2..(n + 1) : i - 1 \in DOMAIN gs /\ hs[i] = gs[i - 1]
  <2>1. <<<<f>>>> \in Seq(Seq(Nat)) /\ Len(<<<<f>>>>) = 1 /\ gs \in Seq(Seq(Nat))
    BY <1>2
  <2>2. hs \in Seq(Seq(Nat)) /\ Len(hs) = n + 1
    BY <1>0, <1>1, <2>1
  <2>3. \A i \in 1..(n + 1) : hs[i] = IF i <= 1 THEN <<<<f>>>>[i] ELSE gs[i - 1]
    BY <1>0, <1>1, <2>1
  <2>. QED
    BY <1>0, <2>2, <2>3
<1>4. \A i \in DOMAIN hs : i = 1 \/ i \in 2..(n + 1)
  BY ONLY <1>3, n \in Nat
<1>5. \A i \in DOMAIN gs : i + 1 \in DOMAIN hs /\ hs[i + 1] = gs[i]
  <2>. TAKE i \in DOMAIN gs
  <2>1. i + 1 \in 2..(n + 1) /\ i + 1 \in 1..(n + 1) /\ (i + 1) - 1 = i
    <3>1. i \in 1..n /\ n \in Nat
      BY <1>3
    <3>. QED
      BY ONLY <3>1
  <2>. QED
    BY <1>3, <2>1
<1>6. Files(hs) = {f} \cup Files(gs)
  <2>1. \A g : g \in Files(hs) => g \in {f} \cup Files(gs)
    <3>1. \A i \in DOMAIN hs : ToSet(hs[i]) = {f} \/ (i - 1 \in DOMAIN gs /\ hs[i] = gs[i - 1])
      <4>. TAKE i \in DOMAIN hs
      <4>1. i = 1 => ToSet(hs[i]) = {f}
        BY <1>2, <1>3
      <4>. QED
        BY <1>3, <1>4, <4>1, Zenon
    <3>. QED
      BY <3>1 DEF Files
  <2>2. \A g : g \in Files(gs) => g \in Files(hs)
    BY <1>5 DEF Files
  <2>3. f \in Files(hs)
    <3>1. 1 \in DOMAIN hs
      BY ONLY <1>3, n \in Nat
    <3>2. f \in ToSet(hs[1])
      BY <1>2, <1>3
    <3>. QED
      BY <3>1, <3>2 DEF Files
  <2>. QED
    BY <2>1, <2>2, <2>3
<1>7. ASSUME Ranked(gs), \A g \in Files(gs) : g < f PROVE Ranked(hs)
  <2>1. \A i \in DOMAIN gs : gs[i][1] \in Files(gs)
    <3>. TAKE i \in DOMAIN gs
    <3>1. gs[i] \in Seq(Nat) /\ gs[i] # <<>>
      OBVIOUS
    <3>2. gs[i][1] \in ToSet(gs[i])
      BY <3>1 DEF ToSet
    <3>. QED
      BY <3>2 DEF Files
  <2>2. \A i \in DOMAIN hs : Len(hs[i]) = 1
    BY <1>2, <1>3, <1>4, <1>7 DEF Ranked
  <2>3. ASSUME NEW i \in DOMAIN hs, NEW j \in DOMAIN hs, i < j PROVE hs[j][1] < hs[i][1]
    <3>0. j \in 2..(n + 1) /\ i \in Int /\ j \in Int
      BY ONLY <1>3, <2>3, n \in Nat, i \in DOMAIN hs, j \in DOMAIN hs
    <3>1. hs[j] = gs[j - 1] /\ j - 1 \in DOMAIN gs
      BY <1>3, <3>0
    <3>2. CASE i = 1
      BY <1>2, <1>3, <1>7, <2>1, <3>1, <3>2
    <3>3. CASE i # 1
      <4>1. i - 1 < j - 1
        BY ONLY <2>3, <3>0
      <4>2. hs[i] = gs[i - 1] /\ i - 1 \in DOMAIN gs
        BY <1>3, <1>4, <3>3
      <4>. QED
        BY <1>7, <3>1, <4>1, <4>2 DEF Ranked
    <3>. QED
      BY <3>2, <3>3
  <2>. QED
    BY <2>2, <2>3 DEF Ranked
<1>. QED
  BY <1>1, <1>6, <1>7
LEMMA AtEnd ==
    ASSUME NEW gs \in Seq(Seq(Nat)), NEW g \in Seq(Nat)
    PROVE  /\ Files(Append(gs, g)) = Files(gs) \cup ToSet(g)
           /\ Ranked(gs) /\ Len(g) = 1 /\ (\A f \in Files(gs) : g[1] < f)
                  => Ranked(Append(gs, g))
<1>0. PICK n \in Nat : n = Len(gs)
  OBVIOUS
<1>1. PICK hs : hs = Append(gs, g)
  OBVIOUS
<1>2. /\ hs \in Seq(Seq(Nat)) /\ hs[n + 1] = g
      /\ DOMAIN hs = 1..(n + 1) /\ DOMAIN gs = 1..n
      /\ \A i \in 1..n : hs[i] = gs[i]
  BY <1>0, <1>1
<1>3. /\ \A i \in DOMAIN hs : i \in DOMAIN gs \/ i = n + 1
      /\ \A i \in DOMAIN gs : i \in DOMAIN hs
      /\ n + 1 \in DOMAIN hs
  <2>1. n \in Nat
    BY <1>0
  <2>. QED
    BY ONLY <1>2, <2>1
<1>4. Files(hs) = Files(gs) \cup ToSet(g)
  BY <1>2, <1>3, Zenon DEF Files
<1>5. ASSUME Ranked(gs), Len(g) = 1, \A f \in Files(gs) : g[1] < f PROVE Ranked(hs)
  <2>1. \A i \in DOMAIN hs : Len(hs[i]) = 1
    BY <1>2, <1>3, <1>5 DEF Ranked
  <2>2. ASSUME NEW i \in DOMAIN hs, NEW j \in DOMAIN hs, i < j PROVE hs[j][1] < hs[i][1]
    <3>1. i \in DOMAIN gs
      <4>1. i \in 1..(n + 1) /\ j \in 1..(n + 1) /\ n \in Nat
        BY <1>0, <1>2
      <4>2. i \in 1..n
        BY ONLY <2>2, <4>1
      <4>. QED
        BY <1>2, <4>2
    <3>2. CASE j \in DOMAIN gs
      BY <1>2, <1>5, <2>2, <3>1, <3>2 DEF Ranked
    <3>3. CASE j = n + 1
      <4>1. gs[i] \in Seq(Nat) /\ Len(gs[i]) = 1
        BY <1>5, <3>1 DEF Ranked
      <4>2. gs[i][1] \in ToSet(gs[i])
        BY <4>1 DEF ToSet
      <4>3. gs[i][1] \in Files(gs)
        BY <3>1, <4>2 DEF Files
      <4>. QED
        BY <1>2, <1>5, <3>1, <3>3, <4>3
    <3>. QED
      BY <1>3, <3>2, <3>3
  <2>. QED
    BY <2>1, <2>2 DEF Ranked
<1>. QED
  BY <1>1, <1>4, <1>5

LEMMA Wider ==
    ASSUME NEW T, NEW S, S \subseteq T, NEW g \in Seq(S)
    PROVE  g \in Seq(T) /\ ToSet(g) \subseteq S
<1>1. \A i \in DOMAIN g : g[i] \in S
  OBVIOUS
<1>. QED
  BY <1>1 DEF ToSet

(* The files in lists of groups of files are files.                        *)
LEMMA GroupTypes ==
    ASSUME ShapeInv
    PROVE  /\ File \subseteq Nat
           /\ \A s \in Size :
                 /\ filelist[s] \in Seq(Seq(File) \ {<<>>}) /\ filelist[s] \in Seq(Seq(Nat) \ {<<>>})
                 /\ next_filelist[s] \in Seq(Seq(File) \ {<<>>}) /\ next_filelist[s] \in Seq(Seq(Nat))
                 /\ Files(filelist[s]) \subseteq File /\ Files(next_filelist[s]) \subseteq File
           /\ queue \in Seq(Seq(File) \ {<<>>}) /\ queue \in Seq(Seq(Nat))
           /\ next_queue \in Seq(Seq(File) \ {<<>>}) /\ next_queue \in Seq(Seq(Nat))
           /\ sets \in Seq(Seq(File) \ {<<>>})
           /\ cur_group \in Seq(File) /\ cur_group \in Seq(Nat)
           /\ Files(queue) \subseteq File /\ Files(next_queue) \subseteq File
           /\ ToSet(cur_group) \subseteq File
<1>1. /\ TypeOK /\ File \subseteq Nat
      /\ {filelist, next_filelist} \subseteq [Size -> Seq(Seq(File) \ {<<>>})]
  BY ScenarioFacts DEF ShapeInv, TypeOK
<1>2. \A gs \in Seq(Seq(File) \ {<<>>}) :
          /\ gs \in Seq(Seq(Nat) \ {<<>>}) /\ gs \in Seq(Seq(Nat))
          /\ Files(gs) \subseteq File
  <2>. TAKE gs \in Seq(Seq(File) \ {<<>>})
  <2>1. \A g \in Seq(File) : g \in Seq(Nat) /\ ToSet(g) \subseteq File
    BY <1>1, Wider
  <2>2. \A i \in DOMAIN gs : gs[i] \in Seq(File) /\ gs[i] # <<>>
    OBVIOUS
  <2>3. \A i \in DOMAIN gs : gs[i] \in Seq(Nat) \ {<<>>} /\ gs[i] \in Seq(Nat)
    BY <2>1, <2>2
  <2>4. gs \in Seq(Seq(Nat) \ {<<>>}) /\ gs \in Seq(Seq(Nat))
    BY ONLY <2>3, gs \in Seq(Seq(File) \ {<<>>})
  <2>5. Files(gs) \subseteq File
    BY <2>1, <2>2 DEF Files
  <2>. QED
    BY <2>4, <2>5
<1>3. queue \in Seq(Seq(File) \ {<<>>}) /\ next_queue \in Seq(Seq(File) \ {<<>>})
      /\ sets \in Seq(Seq(File) \ {<<>>}) /\ cur_group \in Seq(File)
  BY <1>1 DEF TypeOK
<1>4. cur_group \in Seq(Nat) /\ ToSet(cur_group) \subseteq File
  BY <1>1, <1>3, Wider
<1>5. \A s \in Size : filelist[s] \in Seq(Seq(File) \ {<<>>})
                      /\ next_filelist[s] \in Seq(Seq(File) \ {<<>>})
  BY <1>1
<1>. QED
  BY <1>1, <1>2, <1>3, <1>4, <1>5
----------------------------------------------------------------------------
LEMMA Empty ==
    Files(<<>>) = {} /\ Ranked(<<>>) /\ Increasing(<<>>) /\ Disjoint(<<>>)
BY DEF Files, Ranked, Increasing, Disjoint

LEMMA ListInit == Init => ListInv
BY Empty DEF Init, ListInv

LEMMA ListStep == ShapeInv /\ ListInv /\ [Next]_vars => ListInv'
<1>. SUFFICES ASSUME ShapeInv, ListInv, [Next]_vars PROVE ListInv'
  OBVIOUS
<1>1. /\ scenario' = scenario /\ Found' = Found /\ TypeOK
      /\ Len(Found) \in Nat /\ File \subseteq Nat /\ File = 1..Len(Found)
  BY WhoWrites, ScenarioFacts DEF ShapeInv, TypeOK, File
<1>2. CASE pc # "scan" /\ Searching'
  <2>1. /\ Searching /\ pc' # "scan" /\ sizes' \subseteq sizes
        /\ UNCHANGED <<filelist, size, scanned>>
        /\ GroupDone \/ UNCHANGED next_filelist
    BY <1>2, WhileSearching
  <2>2. \A s \in sizes' : next_filelist'[s] = next_filelist[s]
    <3>1. CASE GroupDone
      <4>1. cursize \in Size \ sizes /\ next_filelist \in [Size -> Seq(Seq(File) \ {<<>>})]
        BY <3>1 DEF GroupDone, ShapeInv, AtWork, Comparing
      <4>2. sizes \subseteq Size
        BY <1>1 DEF TypeOK
      <4>. QED
        BY <2>1, <3>1, <4>1, <4>2 DEF GroupDone
    <3>. QED
      BY <2>1, <3>1
  <2>. QED
    BY <1>1, <1>2, <2>1, <2>2 DEF ListInv
<1>3. CASE ~Searching'
  <2>1. CASE MatchingDone
    BY <1>1, <1>3, <2>1 DEF ListInv, MatchingDone
  <2>2. CASE ~Searching /\ UNCHANGED scanned
    BY <1>1, <1>3, <2>2 DEF ListInv, Searching
  <2>. QED
    BY <1>3, <2>1, <2>2, AfterSearching
<1>4. CASE pc = "scan" /\ Searching'
  <2>1. Searching /\ (\A s \in Size : next_filelist[s] = <<>>)
    BY <1>4 DEF ListInv, Searching
  <2>2. CASE ScanFile
    <3>1. PICK f, n : f = scanned + 1 /\ n = Len(content[EntryOf(f)])
      OBVIOUS
    <3>2. f \in File /\ f \in Nat /\ scanned' = f /\ scanned \in Nat /\ UNCHANGED <<next_filelist, pc>>
      BY <1>1, <2>2, <3>1 DEF ScanFile, TypeOK
    <3>3. CASE UNCHANGED <<size, filelist>>
      <4>. SUFFICES ASSUME NEW s \in Size, NEW g \in Files(filelist[s])
                    PROVE  g <= f
        BY <1>4, <2>1, <3>2, <3>3 DEF ListInv
      <4>1. g <= scanned /\ g \in Nat
        BY <1>1, <2>1, GroupTypes DEF ListInv
      <4>. QED
        BY <3>1, <3>2, <4>1
    <3>4. CASE /\ content[EntryOf(f)] # Gone
               /\ size' = [size EXCEPT ![f] = n]
               /\ filelist' = [filelist EXCEPT ![n] = <<<<f>>>> \o @]
      <4>1. n \in Size
        <5>1. content[EntryOf(f)] \in Content \cup {Gone}
          BY <1>1, <3>2, ScenarioFacts DEF TypeOK
        <5>. QED
          BY <3>1, <3>4, <5>1, SizeFacts
      <4>2. size \in [File -> Size \cup {0}] /\ filelist \in [Size -> Seq(Seq(File) \ {<<>>})]
        BY <1>1 DEF TypeOK, ShapeInv
      <4>3. ASSUME NEW s \in Size PROVE filelist[s] \in Seq(Seq(Nat) \ {<<>>}) /\ Files(filelist[s]) \subseteq File
        BY GroupTypes
      <4>4. ASSUME NEW s \in Size, NEW g \in Files(filelist[s])
            PROVE  g < f /\ g <= f /\ size'[g] = s
        <5>1. g <= scanned /\ size[g] = s /\ g \in File /\ g \in Nat
          BY <1>1, <2>1, <4>3 DEF ListInv
        <5>2. g < f /\ g <= f /\ g # f
          BY <3>1, <3>2, <5>1
        <5>. QED
          BY <3>4, <4>2, <5>1, <5>2
      <4>5. ASSUME NEW s \in Size, s # n
            PROVE  Ranked(filelist'[s]) /\ \A g \in Files(filelist'[s]) : size'[g] = s /\ g <= f
        BY <2>1, <3>4, <4>2, <4>4, <4>5 DEF ListInv
      <4>6. Ranked(filelist'[n]) /\ \A g \in Files(filelist'[n]) : size'[g] = n /\ g <= f
        <5>1. filelist'[n] = <<<<f>>>> \o filelist[n]
          BY <3>4, <4>1, <4>2
        <5>2. Files(filelist'[n]) = {f} \cup Files(filelist[n]) /\ Ranked(filelist'[n])
          BY <2>1, <3>2, <4>1, <4>3, <4>4, <5>1, InFront DEF ListInv
        <5>3. size'[f] = n /\ f <= f
          BY <3>2, <3>4, <4>2
        <5>. QED
          BY <4>1, <4>4, <5>2, <5>3
      <4>. QED
        BY <1>4, <2>1, <3>2, <4>5, <4>6 DEF ListInv
    <3>. QED
      BY <2>2, <3>1, <3>3, <3>4 DEF ScanFile
  <2>3. CASE StartMatching
    BY <1>1, <2>1, <2>3 DEF ListInv, StartMatching
  <2>4. CASE OtherWrites \/ UNCHANGED vars
    BY <1>1, <1>4, <2>1, <2>4 DEF ListInv, OtherWrites, vars, matchVars
  <2>5. CASE Matching
    BY <1>4, <2>5 DEF Matching, TakeSize, TakeHead, SizeDone, ComparePartial, CompareFull,
                      CompareBytes, GroupDone, MatchingDone
  <2>6. CASE Finishing \/ User
    BY <1>4, <2>6 DEF Finishing, TakeSets, PrintSet, SkipSet, TakeSet, RemoveFile, SetDone,
                      AllSetsDone, User, Answer, QuitAnswer, Searching, AtWork, Comparing
  <2>. QED
    BY <2>2, <2>3, <2>4, <2>5, <2>6 DEF Next, Program
<1>. QED
  BY <1>2, <1>3, <1>4

LEMMA Lists == Spec => [](ShapeInv /\ ListInv)
BY Shapes, ListInit, ListStep, PTL DEF Spec
----------------------------------------------------------------------------
LEMMA Ranks ==
    ASSUME NEW gs \in Seq(Seq(Nat) \ {<<>>}), Ranked(gs)
    PROVE  /\ \A i \in DOMAIN gs :
                 /\ gs[i] = <<gs[i][1]>> /\ gs[i][1] \in Nat
                 /\ ToSet(gs[i]) = {gs[i][1]} /\ gs[i][1] \in Files(gs)
           /\ \A f \in Files(gs) : \E i \in DOMAIN gs : f = gs[i][1]
<1>1. ASSUME NEW g \in Seq(Nat), Len(g) = 1
      PROVE  g = <<g[1]>> /\ g[1] \in Nat /\ ToSet(g) = {g[1]}
  <2>1. DOMAIN g = {1}
    BY <1>1
  <2>. QED
    BY <1>1, <2>1 DEF ToSet
<1>2. \A i \in DOMAIN gs : gs[i] \in Seq(Nat) /\ Len(gs[i]) = 1
  BY DEF Ranked
<1>3. \A i \in DOMAIN gs : gs[i] = <<gs[i][1]>> /\ gs[i][1] \in Nat /\ ToSet(gs[i]) = {gs[i][1]}
  BY <1>1, <1>2
<1>. QED
  BY <1>3 DEF Files

(* The file to be compared next comes before those compared already.       *)
LEMMA NextFile ==
    ASSUME ShapeInv, WorkInv, Comparing, b <= Len(queue),
           NEW r, r = queue[b][1]
    PROVE  /\ queue[b] = <<r>> /\ r = FileB /\ r \in Nat /\ r \in File
           /\ r \in Files(queue) /\ r \in Rest /\ b \in DOMAIN queue
           /\ Rest \ {r} = {queue[j][1] : j \in {k \in DOMAIN queue : b + 1 <= k}}
           /\ \A q \in Rest \ {r} : q < r
           /\ \A f \in ToSet(cur_group) \cup Files(next_queue) : r < f
           /\ r \notin ToSet(cur_group) /\ r \notin Files(next_queue)
           /\ FileA = cur_group[1] /\ FileA \in ToSet(cur_group) /\ FileA \in File
           /\ cursize \in Size \ sizes
<1>1. /\ queue \in Seq(Seq(File) \ {<<>>}) /\ File \subseteq Nat /\ cur_group \in Seq(File)
      /\ ToSet(cur_group) \subseteq File /\ Files(next_queue) \subseteq File
      /\ Files(queue) \subseteq File
  BY GroupTypes
<1>2. b \in Nat /\ b >= 2 /\ cur_group # <<>> /\ cursize \in Size \ sizes
  BY DEF ShapeInv, TypeOK, AtWork
<1>3. Ranked(queue) /\ b \in DOMAIN queue
  BY <1>1, <1>2 DEF WorkInv, AtWork
<1>4. /\ \A i \in DOMAIN queue : queue[i] = <<queue[i][1]>> /\ queue[i][1] \in Nat
                                  /\ queue[i][1] \in Files(queue)
  <2>1. \A g \in Seq(File) \ {<<>>} : g \in Seq(Nat) \ {<<>>}
    BY <1>1, Wider
  <2>2. \A i \in DOMAIN queue : queue[i] \in Seq(File) \ {<<>>}
    BY <1>1
  <2>3. queue \in Seq(Seq(Nat) \ {<<>>})
    BY <1>1, <2>1, <2>2
  <2>. QED
    BY <1>3, <2>3, Ranks
<1>5. queue[b] = <<r>> /\ r \in Nat /\ r \in Files(queue) /\ r \in File
  BY <1>1, <1>3, <1>4
<1>6. FileB = r
  BY <1>5 DEF FileB
<1>7. r \in Rest
  BY <1>2, <1>3 DEF Rest
<1>8. /\ \A j \in DOMAIN queue : b + 1 <= j => j \in Nat /\ queue[j][1] < r /\ b <= j
      /\ \A j \in DOMAIN queue : b <= j => j = b \/ b + 1 <= j
  <2>1. \A j \in DOMAIN queue : j \in Nat
    BY <1>1
  <2>2. \A j \in DOMAIN queue : b < j => queue[j][1] < r
    BY <1>3 DEF Ranked
  <2>. QED
    BY <1>2, <2>1, <2>2
<1>9. /\ Rest \ {r} = {queue[j][1] : j \in {k \in DOMAIN queue : b + 1 <= k}}
      /\ \A q \in Rest \ {r} : q < r
  BY <1>4, <1>5, <1>8 DEF Rest
<1>10. \A f \in ToSet(cur_group) \cup Files(next_queue) : r < f /\ r # f
  BY <1>1, <1>5, <1>7 DEF WorkInv
<1>11. FileA = cur_group[1] /\ FileA \in ToSet(cur_group)
  <2>1. 1 \in DOMAIN cur_group /\ Head(cur_group) = cur_group[1]
    BY <1>1, <1>2
  <2>. QED
    BY <2>1 DEF FileA, ToSet
<1>. QED
  BY <1>1, <1>2, <1>3, <1>5, <1>6, <1>7, <1>9, <1>10, <1>11

(* Where it goes.                                                          *)
LEMMA Sorting ==
    ASSUME ShapeInv, WorkInv, Comparing, b <= Len(queue), NextB, Accept \/ Reject,
           UNCHANGED <<queue, filelist, cursize>>, NEW r, r = queue[b][1]
    PROVE  /\ WorkInv' /\ Rest' = Rest \ {r} /\ Live' = Live
           /\ \/ /\ ToSet(cur_group') = ToSet(cur_group) \cup {r} /\ next_queue' = next_queue
                 /\ Len(cur_group') > 1 /\ Accept
              \/ /\ Files(next_queue') = Files(next_queue) \cup {r} /\ cur_group' = cur_group
                 /\ Reject
           /\ Comparing'
<1>0. /\ queue[b] = <<r>> /\ r \in Nat /\ r \in File
      /\ r \in Files(queue) /\ r \in Rest /\ b \in DOMAIN queue
      /\ Rest \ {r} = {queue[j][1] : j \in {k \in DOMAIN queue : b + 1 <= k}}
      /\ \A q \in Rest \ {r} : q < r
      /\ \A f \in ToSet(cur_group) \cup Files(next_queue) : r < f
      /\ r \notin ToSet(cur_group) /\ r \notin Files(next_queue)
  BY NextFile
<1>1. /\ File \subseteq Nat /\ cur_group \in Seq(Nat) /\ next_queue \in Seq(Seq(Nat))
      /\ cur_group # <<>>
  BY GroupTypes DEF ShapeInv
<1>2. Rest' = Rest \ {r} /\ pc' = "compare" /\ Comparing'
  <2>1. b' = b + 1 /\ pc' = "compare" /\ queue' = queue
    BY DEF NextB
  <2>2. Rest' = {queue[j][1] : j \in {k \in DOMAIN queue : b + 1 <= k}}
    BY <2>1 DEF Rest
  <2>. QED
    BY <1>0, <2>1, <2>2 DEF Comparing
<1>3. /\ Increasing(cur_group) /\ Ranked(queue) /\ Files(queue) \subseteq Files(filelist[cursize])
      /\ Ranked(next_queue)
      /\ ToSet(cur_group) \cup Files(next_queue) \subseteq Files(filelist[cursize])
      /\ ToSet(cur_group) \cap Files(next_queue) = {}
      /\ \A f \in ToSet(cur_group) \cup Files(next_queue) : \A q \in Rest : q < f
  BY DEF WorkInv, AtWork
<1>4. (Ranked(queue) /\ Files(queue) \subseteq Files(filelist[cursize]))'
  BY <1>3
<1>5. CASE Accept
  <2>1. cur_group' = <<r>> \o cur_group /\ next_queue' = next_queue
    BY <1>0, <1>5 DEF Accept
  <2>2. PICK n \in Nat : n = Len(cur_group) /\ n # 0
    BY <1>1
  <2>3. /\ cur_group' \in Seq(Nat) /\ DOMAIN cur_group' = 1..(n + 1) /\ cur_group'[1] = r
        /\ Len(cur_group') = n + 1
        /\ DOMAIN cur_group = 1..n
        /\ \A i \in 2..(n + 1) : i - 1 \in 1..n /\ cur_group'[i] = cur_group[i - 1]
    <3>1. <<r>> \in Seq(Nat) /\ Len(<<r>>) = 1 /\ <<r>>[1] = r
      BY <1>0
    <3>. QED
      BY <1>1, <2>1, <2>2, <3>1
  <2>4. ToSet(cur_group') = ToSet(cur_group) \cup {r}
    <3>1. \A i \in 1..(n + 1) : i = 1 \/ i \in 2..(n + 1)
      OBVIOUS
    <3>2. \A i \in 1..n : i + 1 \in 2..(n + 1) /\ i + 1 \in 1..(n + 1) /\ (i + 1) - 1 = i
      OBVIOUS
    <3>3. 1 \in 1..(n + 1)
      OBVIOUS
    <3>4. \A f \in ToSet(cur_group') : f \in ToSet(cur_group) \cup {r}
      BY <2>3, <3>1 DEF ToSet
    <3>5. \A f \in ToSet(cur_group) : f \in ToSet(cur_group')
      <4>. TAKE f \in ToSet(cur_group)
      <4>1. PICK i \in 1..n : f = cur_group[i]
        BY <2>3 DEF ToSet
      <4>2. i + 1 \in 1..(n + 1) /\ cur_group'[i + 1] = f
        BY <2>3, <3>2, <4>1
      <4>. QED
        BY <2>3, <4>2 DEF ToSet
    <3>6. r \in ToSet(cur_group')
      BY <2>3, <3>3 DEF ToSet
    <3>. QED
      BY <3>4, <3>5, <3>6
  <2>5. Increasing(cur_group')
    <3>. SUFFICES ASSUME NEW i \in 1..(n + 1), NEW j \in 1..(n + 1), i < j
                  PROVE  cur_group'[i] < cur_group'[j]
      BY <2>3 DEF Increasing
    <3>1. j \in 2..(n + 1) /\ j - 1 \in 1..n
      OBVIOUS
    <3>2. cur_group'[j] = cur_group[j - 1] /\ cur_group[j - 1] \in ToSet(cur_group)
      BY <2>3, <3>1 DEF ToSet
    <3>3. CASE i = 1
      BY <1>0, <2>3, <3>2, <3>3
    <3>4. CASE i # 1
      <4>1. i \in 2..(n + 1) /\ i - 1 \in 1..n /\ i - 1 < j - 1
        BY <3>4
      <4>. QED
        BY <1>3, <2>3, <3>1, <3>2, <4>1 DEF Increasing
    <3>. QED
      BY <3>3, <3>4
  <2>6. \A f \in ToSet(cur_group') \cup Files(next_queue') : \A q \in Rest' : q < f
    <3>1. \A f \in ToSet(cur_group') \cup Files(next_queue') :
              f \in ToSet(cur_group) \cup Files(next_queue) \/ f = r
      BY <2>1, <2>4
    <3>2. \A q \in Rest' : q \in Rest /\ q < r
      BY <1>0, <1>2
    <3>3. \A f \in ToSet(cur_group) \cup Files(next_queue) : \A q \in Rest : q < f
      BY <1>3
    <3>. QED
      BY <3>1, <3>2, <3>3
  <2>7. /\ ToSet(cur_group') \cup Files(next_queue') \subseteq Files(filelist'[cursize'])
        /\ ToSet(cur_group') \cap Files(next_queue') = {}
    BY <1>0, <1>3, <2>1, <2>4
  <2>8. WorkInv'
    BY <1>3, <1>4, <2>1, <2>5, <2>6, <2>7 DEF WorkInv
  <2>9. Live' = Live
    BY <1>0, <1>2, <2>1, <2>4 DEF Live, Comparing
  <2>10. Len(cur_group') > 1
    BY <2>2, <2>3
  <2>. QED
    BY <1>2, <1>5, <2>1, <2>4, <2>8, <2>9, <2>10
<1>6. CASE Reject
  <2>1. next_queue' = Append(next_queue, <<r>>) /\ cur_group' = cur_group
    BY <1>0, <1>6 DEF Reject
  <2>2. <<r>> \in Seq(Nat) /\ Len(<<r>>) = 1 /\ <<r>>[1] = r /\ ToSet(<<r>>) = {r}
    <3>1. DOMAIN <<r>> = {1}
      OBVIOUS
    <3>. QED
      BY <1>0, <3>1 DEF ToSet
  <2>3. Files(next_queue') = Files(next_queue) \cup {r} /\ Ranked(next_queue')
    BY <1>0, <1>1, <1>3, <2>1, <2>2, AtEnd
  <2>4. \A f \in ToSet(cur_group') \cup Files(next_queue') : \A q \in Rest' : q < f
    <3>1. \A q \in Rest' : q \in Rest /\ q < r
      BY <1>0, <1>2
    <3>2. \A f \in ToSet(cur_group') \cup Files(next_queue') :
              f = r \/ f \in ToSet(cur_group) \cup Files(next_queue)
      BY <2>1, <2>3
    <3>. QED
      BY <1>3, <3>1, <3>2, Zenon
  <2>5. /\ ToSet(cur_group') \cup Files(next_queue') \subseteq Files(filelist'[cursize'])
        /\ ToSet(cur_group') \cap Files(next_queue') = {}
    BY <1>0, <1>3, <2>1, <2>3
  <2>6. WorkInv'
    BY <1>3, <1>4, <2>1, <2>3, <2>4, <2>5 DEF WorkInv
  <2>7. Live' = Live
    BY <1>0, <1>2, <2>1, <2>3 DEF Live, Comparing
  <2>. QED
    BY <1>2, <1>6, <2>1, <2>3, <2>6, <2>7
<1>. QED
  BY <1>5, <1>6
(* The last file scanned is the first one to start a group.                *)
LEMMA HeadTaken ==
    ASSUME ShapeInv, WorkInv, TakeHead
    PROVE  /\ WorkInv' /\ Live' = Live
           /\ Comparing' /\ AtWork' /\ AtWork /\ Searching'
           /\ \E q \in Nat : cur_group' = <<q>> /\ ToSet(cur_group') = {q}
<1>1. /\ pc = "head" /\ queue # <<>> /\ pc' = "compare" /\ cur_group' = Head(queue)
      /\ next_queue' = <<>> /\ b' = 2
      /\ UNCHANGED <<filelist, next_filelist, queue, cursize>>
  BY DEF TakeHead
<1>2. Ranked(queue) /\ Files(queue) \subseteq Files(filelist[cursize]) /\ cursize \in Size
  BY <1>1 DEF WorkInv, AtWork, ShapeInv
<1>3. queue \in Seq(Seq(Nat) \ {<<>>})
  <2>1. \A g \in Seq(File) \ {<<>>} : g \in Seq(Nat) \ {<<>>}
    BY GroupTypes, Wider
  <2>2. queue \in Seq(Seq(File) \ {<<>>})
    BY GroupTypes
  <2>3. \A i \in DOMAIN queue : queue[i] \in Seq(Nat) \ {<<>>}
    BY <2>1, <2>2
  <2>. QED
    BY <2>2, <2>3
<1>4. PICK q : q = queue[1][1]
  OBVIOUS
<1>5. 1 \in DOMAIN queue /\ Head(queue) = queue[1] /\ DOMAIN queue \subseteq Nat
  BY <1>1, <1>3
<1>6. cur_group' = <<q>> /\ q \in Nat /\ ToSet(cur_group') = {q} /\ q \in Files(queue)
  BY <1>1, <1>2, <1>3, <1>4, <1>5, Ranks
<1>7. Rest' = {queue[j][1] : j \in {k \in DOMAIN queue : 2 <= k}}
  BY <1>1 DEF Rest
<1>8. \A r \in Rest' : r < q /\ r \in Files(queue)
  <2>1. \A j \in DOMAIN queue : 2 <= j => 1 < j
    BY <1>5
  <2>2. \A j \in DOMAIN queue : 2 <= j => queue[j][1] < q
    BY <1>2, <1>4, <1>5, <2>1 DEF Ranked
  <2>. QED
    BY <1>2, <1>3, <1>7, <2>2, Ranks
<1>9. Files(queue) = {q} \cup Rest'
  <2>1. \A k \in DOMAIN queue : k = 1 \/ 2 <= k
    BY <1>3
  <2>2. \A f \in Files(queue) : f \in {q} \cup Rest'
    BY <1>2, <1>3, <1>4, <1>7, <2>1, Ranks
  <2>. QED
    BY <1>6, <1>8, <2>2
<1>10. Increasing(cur_group')
  <2>1. DOMAIN cur_group' = {1} /\ ~(1 < 1)
    BY <1>6
  <2>. QED
    BY <2>1 DEF Increasing
<1>11. Live' = Live
  <2>1. Live' = {q} \cup {} \cup Rest'
    BY <1>1, <1>6, Empty DEF Live
  <2>2. Live = Files(queue)
    BY <1>1 DEF Live
  <2>. QED
    BY <1>9, <2>1, <2>2
<1>12. Comparing' /\ AtWork' /\ AtWork /\ Searching'
  BY <1>1 DEF Comparing, AtWork, Searching
<1>13. WorkInv'
  BY <1>1, <1>2, <1>6, <1>8, <1>10, Empty DEF WorkInv
<1>. QED
  BY <1>6, <1>11, <1>12, <1>13

LEMMA WorkInit == Init => WorkInv /\ DoneInv
<1>. SUFFICES ASSUME Init PROVE WorkInv /\ DoneInv
  OBVIOUS
<1>1. pc = "scan" /\ cur_group = <<>> /\ ~AtWork /\ Searching
  BY DEF Init, AtWork, Comparing, Searching
<1>2. \A s \in Size : next_filelist[s] = <<>>
  BY DEF Init
<1>. QED
  BY <1>1, <1>2, Empty DEF WorkInv, DoneInv, Comparing

LEMMA WorkStep ==
    ShapeInv /\ ListInv /\ WorkInv /\ DoneInv /\ [Next]_vars => WorkInv' /\ DoneInv'
<1>. SUFFICES ASSUME ShapeInv, ListInv, WorkInv, DoneInv, [Next]_vars PROVE WorkInv' /\ DoneInv'
  OBVIOUS
<1>1. TypeOK /\ File \subseteq Nat
  BY GroupTypes DEF ShapeInv
<1>2. ASSUME ~AtWork', UNCHANGED <<cur_group, filelist, next_filelist>>,
             ~Searching' => ~Searching
      PROVE  WorkInv' /\ DoneInv'
  BY <1>2 DEF WorkInv, DoneInv, AtWork
<1>3. ASSUME UNCHANGED <<pc, matchVars, filelist, next_filelist>>
      PROVE  WorkInv' /\ DoneInv'
  BY <1>3 DEF WorkInv, DoneInv, matchVars, AtWork, Comparing, Searching, Live, Rest
<1>4. CASE ScanFile
  <2>1. UNCHANGED <<cur_group, next_filelist>> /\ ~AtWork' /\ Searching'
    BY <1>4 DEF ScanFile, matchVars, AtWork, Comparing, Searching
  <2>2. \A s \in Size : next_filelist[s] = <<>>
    BY <1>4 DEF ScanFile, ListInv, Searching
  <2>. QED
    BY <2>1, <2>2, Empty DEF WorkInv, DoneInv, AtWork
<1>5. CASE StartMatching
  BY <1>2, <1>5 DEF StartMatching, AtWork, Comparing, Searching
<1>6. CASE TakeSize
  <2>1. PICK s \in sizes :
           /\ sizes' = sizes \ {s}
           /\ IF Len(filelist[s]) <= 1
              THEN UNCHANGED <<pc, cursize, queue>>
              ELSE pc' = "head" /\ cursize' = s /\ queue' = filelist[s]
    BY <1>6 DEF TakeSize
  <2>2. UNCHANGED <<filelist, next_filelist, cur_group>> /\ pc = "size"
    BY <1>6 DEF TakeSize
  <2>3. CASE pc' = pc
    BY <1>2, <2>2, <2>3 DEF AtWork, Comparing, Searching
  <2>4. CASE pc' = "head" /\ cursize' = s /\ queue' = filelist[s]
    <3>1. s \in Size /\ next_filelist[s] = <<>> /\ Ranked(filelist[s])
      BY <1>1, <2>2 DEF ListInv, Searching, TypeOK
    <3>2. Searching' /\ ~Comparing' /\ Files(next_filelist'[cursize']) = {}
      BY <2>2, <2>4, <3>1, Empty DEF Searching, AtWork, Comparing
    <3>3. WorkInv'
      BY <2>2, <2>4, <3>1, <3>2 DEF WorkInv
    <3>4. DoneInv'
      BY <2>2, <3>2 DEF DoneInv
    <3>. QED
      BY <3>3, <3>4
  <2>. QED
    BY <2>1, <2>3, <2>4
<1>7. CASE TakeHead
  <2>1. /\ WorkInv' /\ Live' = Live /\ Comparing' /\ AtWork' /\ AtWork /\ Searching'
        /\ UNCHANGED <<filelist, next_filelist, queue, cursize>>
    BY <1>7, HeadTaken DEF TakeHead
  <2>2. DoneInv'
    BY <2>1 DEF DoneInv
  <2>. QED
    BY <2>1, <2>2
<1>8. CASE SizeDone
  BY <1>2, <1>8 DEF SizeDone, matchVars, AtWork, Comparing, Searching
<1>9. ASSUME Comparing, b <= Len(queue), (Accept \/ Reject) /\ NextB,
             UNCHANGED <<queue, filelist, next_filelist, cursize>>
      PROVE  WorkInv' /\ DoneInv'
  <2>1. PICK r : r = queue[b][1]
    OBVIOUS
  <2>2. WorkInv' /\ Live' = Live /\ Comparing'
    BY <1>9, <2>1, Sorting
  <2>3. AtWork /\ AtWork' /\ Searching'
    BY <1>9, <2>2 DEF AtWork, Searching
  <2>4. DoneInv'
    BY <1>9, <2>2, <2>3 DEF DoneInv
  <2>. QED
    BY <2>2, <2>4
<1>10. ASSUME Comparing, Comparing',
              UNCHANGED <<queue, filelist, next_filelist, cursize, cur_group, next_queue, b>>
       PROVE  WorkInv' /\ DoneInv'
  <2>1. Rest' = Rest /\ Live' = Live
    BY <1>10 DEF Rest, Live, Comparing
  <2>2. AtWork /\ AtWork' /\ Searching'
    BY <1>10 DEF AtWork, Searching
  <2>. QED
    BY <1>10, <2>1, <2>2 DEF WorkInv, DoneInv
<1>11. CASE ComparePartial
  BY <1>9, <1>10, <1>11 DEF ComparePartial, Comparing
<1>12. CASE CompareFull
  BY <1>9, <1>10, <1>12 DEF CompareFull, Comparing, ShapeInv
<1>13. CASE CompareBytes
  BY <1>9, <1>13 DEF CompareBytes, Comparing, ShapeInv
<1>14. CASE GroupDone
  <2>1. /\ pc = "compare" /\ b > Len(queue) /\ pc' = "head" /\ queue' = next_queue
        /\ next_filelist' = IF Len(cur_group) > 1
                            THEN [next_filelist EXCEPT ![cursize] = Append(@, cur_group)]
                            ELSE next_filelist
        /\ UNCHANGED <<filelist, cursize, cur_group, next_queue>>
    BY <1>14 DEF GroupDone
  <2>2. Comparing /\ AtWork /\ Searching /\ Searching' /\ AtWork' /\ ~Comparing'
    BY <2>1 DEF Comparing, AtWork, Searching
  <2>3. /\ Increasing(cur_group) /\ Ranked(next_queue) /\ cursize \in Size
        /\ ToSet(cur_group) \cup Files(next_queue) \subseteq Files(filelist[cursize])
        /\ ToSet(cur_group) \cap Files(next_queue) = {}
        /\ Files(next_filelist[cursize]) \cap Live = {}
        /\ ToSet(cur_group) \cup Files(next_queue) \subseteq Live
    BY <2>1, <2>2 DEF WorkInv, DoneInv, ShapeInv, Live
  <2>4. WorkInv'
    BY <2>1, <2>2, <2>3 DEF WorkInv
  <2>5. Live' = Files(next_queue)
    BY <2>1 DEF Live
  <2>6. CASE Len(cur_group) > 1
    <3>1. next_filelist \in [Size -> Seq(Seq(File) \ {<<>>})]
      BY DEF ShapeInv
    <3>2. /\ next_filelist'[cursize] = Append(next_filelist[cursize], cur_group)
          /\ \A s \in Size : s # cursize => next_filelist'[s] = next_filelist[s]
      BY <2>1, <2>3, <2>6, <3>1
    <3>3. PICK gs, n : gs = next_filelist[cursize] /\ n = Len(gs)
      OBVIOUS
    <3>4. gs \in Seq(Seq(Nat)) /\ cur_group \in Seq(Nat) /\ n \in Nat
      BY <2>3, <3>3, GroupTypes
    <3>5. PICK hs : hs = Append(gs, cur_group)
      OBVIOUS
    <3>6. /\ Files(hs) = Files(gs) \cup ToSet(cur_group)
          /\ DOMAIN hs = 1..(n + 1) /\ DOMAIN gs = 1..n /\ hs[n + 1] = cur_group
          /\ \A i \in 1..n : hs[i] = gs[i]
      BY <3>3, <3>4, <3>5, AtEnd
    <3>7. \A i \in DOMAIN hs : i \in DOMAIN gs \/ i = n + 1
      <4>. SUFFICES ASSUME NEW i \in 1..(n + 1) PROVE i \in 1..n \/ i = n + 1
        BY <3>6
      <4>. QED
        BY ONLY <3>4
    <3>8. \A i \in DOMAIN hs : Len(hs[i]) > 1 /\ Increasing(hs[i])
      BY <2>3, <2>6, <3>3, <3>6, <3>7 DEF DoneInv
    <3>9. Disjoint(hs)
      <4>1. \A i \in DOMAIN gs : ToSet(gs[i]) \cap ToSet(cur_group) = {}
        BY <2>3, <3>3 DEF Files
      <4>2. Disjoint(gs)
        BY <2>3, <3>3 DEF DoneInv
      <4>. SUFFICES ASSUME NEW i \in DOMAIN hs, NEW j \in DOMAIN hs, i # j
                    PROVE  ToSet(hs[i]) \cap ToSet(hs[j]) = {}
        BY DEF Disjoint
      <4>3. CASE i \in DOMAIN gs /\ j \in DOMAIN gs
        BY <3>6, <4>2, <4>3 DEF Disjoint
      <4>4. CASE i \in DOMAIN gs /\ j = n + 1
        BY <3>6, <4>1, <4>4
      <4>5. CASE i = n + 1 /\ j \in DOMAIN gs
        BY <3>6, <4>1, <4>5
      <4>. QED
        BY <3>7, <4>3, <4>4, <4>5
    <3>10. Files(hs) \subseteq Files(filelist[cursize])
      BY <2>3, <3>3, <3>6 DEF DoneInv
    <3>11. Files(hs) \cap Files(next_queue) = {}
      BY <2>3, <3>3, <3>6
    <3>12. next_filelist'[cursize] = hs
      BY <3>2, <3>3, <3>5
    <3>13. DoneInv'
      BY <2>1, <2>2, <2>5, <3>2, <3>8, <3>9, <3>10, <3>11, <3>12 DEF DoneInv
    <3>. QED
      BY <2>4, <3>13
  <2>7. CASE ~(Len(cur_group) > 1)
    <3>1. next_filelist' = next_filelist
      BY <2>1, <2>7
    <3>2. DoneInv'
      BY <2>1, <2>2, <2>3, <2>5, <3>1 DEF DoneInv
    <3>. QED
      BY <2>4, <3>2
  <2>. QED
    BY <2>6, <2>7
<1>15. CASE MatchingDone
  <2>1. ~AtWork' /\ cur_group' = cur_group /\ next_filelist' = next_filelist
        /\ filelist' = next_filelist
    BY <1>15 DEF MatchingDone, AtWork, Comparing
  <2>. QED
    BY <2>1 DEF WorkInv, DoneInv, AtWork
<1>16. CASE Finishing
  BY <1>2, <1>16 DEF Finishing, TakeSets, PrintSet, SkipSet, TakeSet, RemoveFile, SetDone,
                     AllSetsDone, matchVars, AtWork, Comparing, Searching
<1>17. CASE User
  BY <1>2, <1>17 DEF User, Answer, QuitAnswer, matchVars, AtWork, Comparing, Searching
<1>18. CASE OtherWrites \/ UNCHANGED vars
  BY <1>3, <1>18 DEF OtherWrites, vars
<1>. QED
  BY <1>4, <1>5, <1>6, <1>7, <1>8, <1>11, <1>12, <1>13, <1>14, <1>15, <1>16, <1>17, <1>18
  DEF Next, Program, Matching

LEMMA Works == Spec => [](ShapeInv /\ ListInv /\ WorkInv /\ DoneInv)
BY Lists, WorkInit, WorkStep, PTL DEF Spec
----------------------------------------------------------------------------
(* Lists of groups in which no file is twice.                              *)
LEMMA ApartJoined ==
    ASSUME NEW gs \in Seq(Seq(Nat)), NEW hs \in Seq(Seq(Nat)),
           Apart(gs), Apart(hs), Files(gs) \cap Files(hs) = {}
    PROVE  /\ gs \o hs \in Seq(Seq(Nat)) /\ Apart(gs \o hs)
           /\ Files(gs \o hs) = Files(gs) \cup Files(hs)
<1>1. PICK m \in Nat, n \in Nat : m = Len(gs) /\ n = Len(hs)
  OBVIOUS
<1>2. PICK ks : ks = gs \o hs
  OBVIOUS
<1>3. /\ ks \in Seq(Seq(Nat)) /\ DOMAIN ks = 1..(m + n) /\ DOMAIN gs = 1..m /\ DOMAIN hs = 1..n
      /\ \A i \in 1..(m + n) : ks[i] = IF i <= m THEN gs[i] ELSE hs[i - m]
  BY <1>1, <1>2
<1>4. \A i \in 1..(m + n) : \/ i \in 1..m /\ ks[i] = gs[i]
                            \/ i - m \in 1..n /\ ks[i] = hs[i - m] /\ i \notin 1..m
  <2>. TAKE i \in 1..(m + n)
  <2>1. (i <= m /\ i \in 1..m) \/ (~(i <= m) /\ i - m \in 1..n /\ i \notin 1..m)
    OBVIOUS
  <2>. QED
    BY <1>3, <2>1
<1>5. /\ \A i \in 1..m : i \in 1..(m + n) /\ ks[i] = gs[i]
      /\ \A i \in 1..n : i + m \in 1..(m + n) /\ ks[i + m] = hs[i]
  <2>1. \A i \in 1..m : i \in 1..(m + n) /\ i <= m
    OBVIOUS
  <2>2. \A i \in 1..n : i + m \in 1..(m + n) /\ ~(i + m <= m) /\ (i + m) - m = i
    OBVIOUS
  <2>3. ASSUME NEW i \in 1..m PROVE ks[i] = gs[i]
    BY <1>3, <2>1
  <2>4. ASSUME NEW i \in 1..n PROVE ks[i + m] = hs[i]
    <3>1. ks[i + m] = hs[(i + m) - m]
      BY <1>3, <2>2
    <3>. QED
      BY <2>2, <3>1
  <2>5. (\A i \in 1..m : ks[i] = gs[i]) /\ (\A i \in 1..n : ks[i + m] = hs[i])
    BY <2>3, <2>4
  <2>. QED
    BY <2>1, <2>2, <2>5, Zenon
<1>6. Files(ks) = Files(gs) \cup Files(hs)
  <2>1. \A f \in Files(ks) : f \in Files(gs) \cup Files(hs)
    <3>. TAKE f \in Files(ks)
    <3>1. PICK i \in 1..(m + n) : f \in ToSet(ks[i])
      BY <1>3 DEF Files
    <3>2. \/ \E j \in DOMAIN gs : f \in ToSet(gs[j])
          \/ \E j \in DOMAIN hs : f \in ToSet(hs[j])
      BY <1>3, <1>4, <3>1
    <3>. QED
      BY <3>2 DEF Files
  <2>2. \A f \in Files(gs) : f \in Files(ks)
    BY <1>3, <1>5 DEF Files
  <2>3. \A f \in Files(hs) : f \in Files(ks)
    <3>. TAKE f \in Files(hs)
    <3>1. PICK i \in 1..n : f \in ToSet(hs[i])
      BY <1>3 DEF Files
    <3>2. i + m \in DOMAIN ks /\ ks[i + m] = hs[i]
      BY <1>3, <1>5
    <3>. QED
      BY <3>1, <3>2 DEF Files
  <2>. QED
    BY <2>1, <2>2, <2>3
<1>7. Apart(ks)
  <2>. SUFFICES ASSUME NEW i \in 1..(m + n), NEW j \in 1..(m + n),
                       NEW k \in DOMAIN ks[i], NEW l \in DOMAIN ks[j], ks[i][k] = ks[j][l]
                PROVE  i = j /\ k = l
    BY <1>3 DEF Apart
  <2>1. CASE i \in 1..m /\ ks[i] = gs[i] /\ j \in 1..m /\ ks[j] = gs[j]
    <3>1. /\ i \in DOMAIN gs /\ j \in DOMAIN gs
          /\ k \in DOMAIN gs[i] /\ l \in DOMAIN gs[j] /\ gs[i][k] = gs[j][l]
      BY <1>3, <2>1
    <3>. QED
      BY <3>1 DEF Apart
  <2>2. CASE i - m \in 1..n /\ ks[i] = hs[i - m] /\ j - m \in 1..n /\ ks[j] = hs[j - m]
    <3>1. /\ i - m \in DOMAIN hs /\ j - m \in DOMAIN hs
          /\ k \in DOMAIN hs[i - m] /\ l \in DOMAIN hs[j - m] /\ hs[i - m][k] = hs[j - m][l]
      BY <1>3, <2>2
    <3>2. i - m = j - m /\ k = l
      BY <3>1 DEF Apart
    <3>. QED
      BY <3>2
  <2>3. ASSUME NEW p \in 1..m, NEW q \in 1..n, NEW u \in DOMAIN gs[p], NEW v \in DOMAIN hs[q]
        PROVE  gs[p][u] # hs[q][v]
    <3>1. gs[p][u] \in ToSet(gs[p]) /\ hs[q][v] \in ToSet(hs[q])
      BY DEF ToSet
    <3>2. p \in DOMAIN gs /\ q \in DOMAIN hs
      BY <1>3
    <3>3. gs[p][u] \in Files(gs)
      BY <3>1, <3>2, Zenon DEF Files
    <3>4. hs[q][v] \in Files(hs)
      BY <3>1, <3>2, Zenon DEF Files
    <3>. QED
      BY <3>3, <3>4
  <2>4. \A p \in 1..m, q \in 1..n : \A u \in DOMAIN gs[p], v \in DOMAIN hs[q] :
            gs[p][u] # hs[q][v]
    BY <2>3
  <2>5. ~(i \in 1..m /\ ks[i] = gs[i] /\ j - m \in 1..n /\ ks[j] = hs[j - m])
    <3>. SUFFICES ASSUME i \in 1..m, ks[i] = gs[i], j - m \in 1..n, ks[j] = hs[j - m]
                  PROVE  FALSE
      OBVIOUS
    <3>1. k \in DOMAIN gs[i] /\ l \in DOMAIN hs[j - m] /\ gs[i][k] = hs[j - m][l]
      OBVIOUS
    <3>. QED
      BY <2>4, <3>1
  <2>6. ~(j \in 1..m /\ ks[j] = gs[j] /\ i - m \in 1..n /\ ks[i] = hs[i - m])
    <3>. SUFFICES ASSUME j \in 1..m, ks[j] = gs[j], i - m \in 1..n, ks[i] = hs[i - m]
                  PROVE  FALSE
      OBVIOUS
    <3>1. l \in DOMAIN gs[j] /\ k \in DOMAIN hs[i - m] /\ gs[j][l] = hs[i - m][k]
      OBVIOUS
    <3>. QED
      BY <2>4, <3>1
  <2>. QED
    BY <1>4, <2>1, <2>2, <2>5, <2>6
<1>. QED
  BY <1>2, <1>3, <1>6, <1>7

(* Files in scan order, and lone files in the order of Ranked, are apart.  *)
LEMMA IncreasingOnce ==
    ASSUME NEW s \in Seq(Nat), Increasing(s), NEW k \in DOMAIN s, NEW l \in DOMAIN s,
           s[k] = s[l]
    PROVE  k = l
<1>1. k \in Nat /\ l \in Nat /\ s[k] \in Nat
  OBVIOUS
<1>2. ~(k < l) /\ ~(l < k)
  BY <1>1 DEF Increasing
<1>. QED
  BY <1>1, <1>2

LEMMA ApartOrdered ==
    ASSUME NEW gs \in Seq(Seq(Nat)), Disjoint(gs), \A i \in DOMAIN gs : Increasing(gs[i])
    PROVE  Apart(gs)
<1>. SUFFICES ASSUME NEW i \in DOMAIN gs, NEW j \in DOMAIN gs,
                     NEW k \in DOMAIN gs[i], NEW l \in DOMAIN gs[j], gs[i][k] = gs[j][l]
              PROVE  i = j /\ k = l
  BY DEF Apart
<1>1. gs[i][k] \in ToSet(gs[i]) /\ gs[j][l] \in ToSet(gs[j])
  BY DEF ToSet
<1>2. i = j
  BY <1>1 DEF Disjoint
<1>3. gs[i] \in Seq(Nat) /\ Increasing(gs[i]) /\ l \in DOMAIN gs[i] /\ gs[i][k] = gs[i][l]
  BY <1>2
<1>4. k = l
  BY <1>3, IncreasingOnce
<1>. QED
  BY <1>2, <1>4

LEMMA ApartRanked ==
    ASSUME NEW gs \in Seq(Seq(Nat)), Ranked(gs)
    PROVE  Apart(gs)
<1>. SUFFICES ASSUME NEW i \in DOMAIN gs, NEW j \in DOMAIN gs,
                     NEW k \in DOMAIN gs[i], NEW l \in DOMAIN gs[j], gs[i][k] = gs[j][l]
              PROVE  i = j /\ k = l
  BY DEF Apart
<1>1. /\ gs[i] \in Seq(Nat) /\ gs[j] \in Seq(Nat) /\ Len(gs[i]) = 1 /\ Len(gs[j]) = 1
      /\ i \in Nat /\ j \in Nat
  BY DEF Ranked
<1>2. k = 1 /\ l = 1 /\ gs[i][1] \in Nat
  <2>1. ASSUME NEW g \in Seq(Nat), Len(g) = 1 PROVE DOMAIN g = {1} /\ g[1] \in Nat
    <3>1. DOMAIN g = {1}
      BY <2>1
    <3>2. 1 \in DOMAIN g /\ g \in Seq(Nat)
      BY <3>1
    <3>3. g[1] \in Nat
      BY <2>1, <3>2, InSeq
    <3>. QED
      BY <3>1, <3>3
  <2>. QED
    BY <1>1, <2>1
<1>3. ~(i < j) /\ ~(j < i)
  <2>1. ~(gs[i][1] < gs[i][1])
    BY <1>2
  <2>. QED
    BY <1>2, <2>1 DEF Ranked
<1>. QED
  BY <1>1, <1>2, <1>3

LEMMA RankedEnd ==
    ASSUME NEW gs \in Seq(Seq(Nat)), Ranked(gs), NEW m \in 1..Len(gs)
    PROVE  /\ SubSeq(gs, m, Len(gs)) \in Seq(Seq(Nat)) /\ Ranked(SubSeq(gs, m, Len(gs)))
           /\ \A f \in Files(SubSeq(gs, m, Len(gs))) :
                  \E j \in DOMAIN gs : m <= j /\ f = gs[j][1]
<1>1. PICK n \in Nat : n = Len(gs)
  OBVIOUS
<1>2. PICK hs : hs = SubSeq(gs, m, n)
  OBVIOUS
<1>3. /\ hs \in Seq(Seq(Nat)) /\ DOMAIN hs = 1..(n - m + 1) /\ DOMAIN gs = 1..n
      /\ \A i \in 1..(n - m + 1) : hs[i] = gs[i + m - 1]
  BY <1>1, <1>2
<1>4. \A i \in DOMAIN hs : i + m - 1 \in DOMAIN gs /\ m <= i + m - 1 /\ hs[i] = gs[i + m - 1]
  <2>1. \A i \in 1..(n - m + 1) : i + m - 1 \in 1..n /\ m <= i + m - 1
    BY <1>1
  <2>. QED
    BY <1>3, <2>1
<1>5. Ranked(hs)
  <2>1. \A i, j \in DOMAIN hs : i < j => i + m - 1 < j + m - 1
    BY <1>1, <1>3
  <2>. QED
    BY <1>4, <2>1 DEF Ranked
<1>6. \A f \in Files(hs) : \E j \in DOMAIN gs : m <= j /\ f = gs[j][1]
  <2>. TAKE f \in Files(hs)
  <2>1. PICK i \in DOMAIN hs : f \in ToSet(hs[i])
    BY DEF Files
  <2>2. PICK j \in DOMAIN gs : m <= j /\ hs[i] = gs[j]
    BY <1>4, <2>1
  <2>3. gs[j] \in Seq(Nat) /\ Len(gs[j]) = 1
    BY DEF Ranked
  <2>4. f = gs[j][1]
    BY <2>1, <2>2, <2>3 DEF ToSet
  <2>. QED
    BY <2>2, <2>4
<1>. QED
  BY <1>1, <1>2, <1>3, <1>5, <1>6

(* NoFileTwice holds (build_matches(), lines 524-547): while a size is     *)
(* worked on, each of its files is in one place, whatever the comparisons  *)
(* say and whatever happens to the files meanwhile.  The queue is in the   *)
(* order of the scan, last file first, and what has been taken from it     *)
(* comes after what has not.                                               *)
THEOREM FilesAreSorted == Spec => []NoFileTwice
<1>1. ShapeInv /\ ListInv /\ WorkInv /\ DoneInv => NoFileTwice
  <2>. SUFFICES ASSUME ShapeInv, ListInv, WorkInv, DoneInv, Comparing
                PROVE  Apart(next_filelist[cursize] \o <<cur_group>> \o Waiting)
    BY DEF NoFileTwice, Comparing
  <2>1. cursize \in Size /\ b \in Nat /\ b >= 2 /\ cur_group \in Seq(Nat) /\ AtWork
        /\ next_filelist[cursize] \in Seq(Seq(Nat)) /\ queue \in Seq(Seq(Nat))
        /\ next_queue \in Seq(Seq(Nat)) /\ pc # "head"
    BY GroupTypes DEF ShapeInv, TypeOK, AtWork, Comparing
  <2>2. Ranked(queue) /\ Ranked(next_queue) /\ Increasing(cur_group)
    BY <2>1 DEF WorkInv
  <2>3. Files(next_filelist[cursize]) \cap (ToSet(cur_group) \cup Files(next_queue) \cup Rest) = {}
    BY <2>1 DEF DoneInv, Live
  <2>4. Rest \cap (ToSet(cur_group) \cup Files(next_queue)) = {}
    <3>1. \A f \in ToSet(cur_group) \cup Files(next_queue) : f \in Nat
      BY GroupTypes
    <3>2. \A f \in Nat : ~(f < f)
      OBVIOUS
    <3>. QED
      BY <3>1, <3>2 DEF WorkInv
  <2>5. ToSet(cur_group) \cap Files(next_queue) = {}
    BY DEF WorkInv
  <2>6. PICK last : last = IF b <= Len(queue) THEN SubSeq(queue, b, Len(queue)) ELSE <<>>
    OBVIOUS
  <2>7. last \in Seq(Seq(Nat)) /\ Apart(last) /\ Files(last) \subseteq Rest
    <3>1. CASE b <= Len(queue)
      <4>1. b \in 1..Len(queue)
        BY <2>1, <3>1
      <4>2. last \in Seq(Seq(Nat)) /\ Ranked(last)
            /\ \A f \in Files(last) : \E j \in DOMAIN queue : b <= j /\ f = queue[j][1]
        BY <2>1, <2>2, <2>6, <3>1, <4>1, RankedEnd
      <4>. QED
        BY <4>2, ApartRanked DEF Rest
    <3>2. CASE ~(b <= Len(queue))
      <4>1. last = <<>> /\ <<>> \in Seq(Seq(Nat))
        BY <2>6, <3>2
      <4>. QED
        BY <4>1, Empty, ApartRanked
    <3>. QED
      BY <3>1, <3>2
  <2>8. Waiting \in Seq(Seq(Nat)) /\ Apart(Waiting) /\ Files(Waiting) \subseteq Files(next_queue) \cup Rest
    <3>1. Waiting = next_queue \o last
      BY <2>6 DEF Waiting
    <3>2. Apart(next_queue) /\ Files(next_queue) \cap Files(last) = {}
      BY <2>1, <2>2, <2>4, <2>7, ApartRanked
    <3>. QED
      BY <2>1, <2>7, <3>1, <3>2, ApartJoined
  <2>9. PICK one : one = <<cur_group>>
    OBVIOUS
  <2>10. one \in Seq(Seq(Nat)) /\ Apart(one) /\ Files(one) = ToSet(cur_group)
    <3>1. one \in Seq(Seq(Nat)) /\ DOMAIN one = {1} /\ one[1] = cur_group
      BY <2>1, <2>9
    <3>2. Disjoint(one) /\ \A i \in DOMAIN one : Increasing(one[i])
      BY <2>2, <3>1 DEF Disjoint
    <3>. QED
      BY <3>1, <3>2, ApartOrdered DEF Files
  <2>11. Apart(next_filelist[cursize])
    BY <2>1, ApartOrdered DEF DoneInv
  <2>12. PICK done : done = next_filelist[cursize] \o one
    OBVIOUS
  <2>13. done \in Seq(Seq(Nat)) /\ Apart(done)
         /\ Files(done) = Files(next_filelist[cursize]) \cup ToSet(cur_group)
    <3>1. Files(next_filelist[cursize]) \cap Files(one) = {}
      BY <2>3, <2>10
    <3>. QED
      BY <2>1, <2>10, <2>11, <2>12, <3>1, ApartJoined
  <2>14. Files(done) \cap Files(Waiting) = {}
    BY <2>3, <2>4, <2>5, <2>8, <2>13
  <2>15. Apart(done \o Waiting)
    BY <2>8, <2>13, <2>14, ApartJoined
  <2>. QED
    BY <2>9, <2>12, <2>15
<1>. QED
  BY <1>1, Works, PTL
----------------------------------------------------------------------------
(* scandir() lists a file iff it is to be compared.                        *)
LEMMA Scanned ==
    ASSUME ShapeInv, ScanFile, NEW f, f = scanned + 1, NEW n, n = Len(content[EntryOf(f)])
    PROVE  /\ f \in File /\ f \in Nat /\ scanned' = f /\ scanned \in Nat
           /\ UNCHANGED <<pc, crcpartial, crcfull, writes, content>>
           /\ \/ f \notin Considered /\ UNCHANGED <<size, filelist>>
              \/ /\ f \in Considered /\ n \in Size
                 /\ \A s \in Size : Files(filelist'[s]) = IF s = n THEN {f} \cup Files(filelist[s])
                                                          ELSE Files(filelist[s])
<1>1. TypeOK /\ File \subseteq Nat /\ File = 1..Len(Found) /\ Len(Found) \in Nat
      /\ \A g \in File : EntryOf(g) \in Entries
  BY ScenarioFacts DEF ShapeInv, TypeOK, File
<1>2. f \in File /\ f \in Nat /\ scanned' = f /\ scanned \in Nat
  BY <1>1 DEF ScanFile, TypeOK
<1>3. PICK c : c = content[EntryOf(f)]
  OBVIOUS
<1>4. c \in Content \cup {Gone}
  BY <1>1, <1>2, <1>3 DEF TypeOK
<1>5. c # Gone => n \in Size /\ (n = 0 <=> c = <<>>)
  <2>1. c # Gone => c \in Seq(ToSet(c)) /\ n \in Size /\ n = Len(c)
    BY <1>3, <1>4, SizeFacts
  <2>. QED
    BY <2>1
<1>6. f \in Considered <=> c # Gone /\ ~(n = 0 /\ ExcludeEmpty) /\ n > MinSize
  BY <1>2, <1>3, <1>5 DEF Considered, Exists
<1>7. \/ f \notin Considered /\ UNCHANGED <<size, filelist>>
      \/ f \in Considered /\ filelist' = [filelist EXCEPT ![n] = <<<<f>>>> \o @]
  BY <1>3, <1>6 DEF ScanFile
<1>8. CASE f \in Considered /\ filelist' = [filelist EXCEPT ![n] = <<<<f>>>> \o @]
  <2>1. n \in Size /\ filelist \in [Size -> Seq(Seq(File) \ {<<>>})]
    BY <1>5, <1>6, <1>8 DEF ShapeInv
  <2>2. filelist'[n] = <<<<f>>>> \o filelist[n] /\ \A s \in Size : s # n => filelist'[s] = filelist[s]
    BY <1>8, <2>1
  <2>3. Files(filelist'[n]) = {f} \cup Files(filelist[n])
    <3>1. filelist[n] \in Seq(Seq(Nat) \ {<<>>})
      BY <2>1, GroupTypes
    <3>. QED
      BY <1>2, <2>2, <3>1, InFront
  <2>4. \A s \in Size : Files(filelist'[s]) = IF s = n THEN {f} \cup Files(filelist[s])
                                              ELSE Files(filelist[s])
    BY <2>2, <2>3
  <2>. QED
    BY <1>2, <1>8, <2>1, <2>4 DEF ScanFile, matchVars
<1>. QED
  BY <1>2, <1>7, <1>8 DEF ScanFile, matchVars

(* While nobody else writes, the files stay as they are until the search   *)
(* is over.                                                                *)
LEMMA Undisturbed ==
    ASSUME ShapeInv, [Next]_vars, writes' = 0, Searching'
    PROVE  /\ writes = 0 /\ Searching /\ UNCHANGED <<content, scenario>>
           /\ Considered' = Considered
           /\ \A f, g : SameContent(f, g)' <=> SameContent(f, g)
<1>1. writes \in Nat
  BY ScenarioFacts DEF ShapeInv, TypeOK
<1>2. writes = 0 /\ UNCHANGED <<content, scenario>>
  <2>1. ~(RemoveFile /\ pc' = pc)
    BY DEF RemoveFile, Searching, AtWork, Comparing
  <2>. QED
    BY <1>1, <2>1, WhoWrites
<1>3. Searching
  BY WhileSearching DEF Searching
<1>. QED
  BY <1>2, <1>3
  DEF Considered, SameContent, Exists, Readable, EntryOf, Found, File, MinSize, ExcludeEmpty,
      Unreadable

(* A checksum that is generated is the right one.                          *)
LEMMA RightCrc ==
    ASSUME NEW f, size[f] \in Nat
    PROVE  /\ PartialCrc(f) # Invalid =>
                  PartialCrc(f) = Valid(SubSeq(content[EntryOf(f)], 1, Least(size[f], MaxPartial)))
           /\ FullCrc(f) # Invalid => FullCrc(f) = Valid(SubSeq(content[EntryOf(f)], 1, size[f]))
BY DEF PartialCrc, FullCrc, PartialOf, FullOf

(* As long as nobody has written, a read has the one outcome.              *)
LEMMA QuietReads ==
    ASSUME writes = 0
    PROVE  /\ ComparePartial =>
                 \/ /\ size[FileA] = 0 /\ Accept /\ NextB
                    /\ UNCHANGED <<crcpartial, crcfull>>
                 \/ LET partial == Checked(crcpartial, FileA, FileB,
                                           [h \in File |-> PartialCrc(h)])
                    IN  /\ size[FileA] # 0
                        /\ crcpartial' = partial
                        /\ crcfull' = [h \in File |->
                                          IF size[h] <= MaxPartial /\ partial[h] # crcpartial[h]
                                          THEN partial[h] ELSE crcfull[h]]
                        /\ IF partial[FileA] = Invalid \/ partial[FileA] # partial[FileB]
                           THEN Reject /\ NextB
                           ELSE pc' = "full" /\ UNCHANGED <<cur_group, next_queue, b>>
           /\ CompareFull =>
                 LET full == Checked(crcfull, FileA, FileB, [h \in File |-> FullCrc(h)])
                 IN  /\ crcfull' = full
                     /\ IF full[FileA] # full[FileB]
                        THEN Reject /\ NextB
                        ELSE pc' = "bytes" /\ UNCHANGED <<cur_group, next_queue, b>>
           /\ CompareBytes =>
                 IF ByteMatch(FileA, FileB)
                 THEN Accept /\ UNCHANGED leaked
                 ELSE Reject /\ leaked' \in {leaked, leaked + 2}
<1>1. \A exact, any : Outcomes(exact, any) = {exact}
  BY DEF Outcomes
<1>2. ASSUME ComparePartial, size[FileA] # 0
      PROVE  LET partial == Checked(crcpartial, FileA, FileB, [h \in File |-> PartialCrc(h)])
             IN  /\ crcpartial' = partial
                 /\ crcfull' = [h \in File |->
                                   IF size[h] <= MaxPartial /\ partial[h] # crcpartial[h]
                                   THEN partial[h] ELSE crcfull[h]]
                 /\ IF partial[FileA] = Invalid \/ partial[FileA] # partial[FileB]
                    THEN Reject /\ NextB
                    ELSE pc' = "full" /\ UNCHANGED <<cur_group, next_queue, b>>
  BY <1>1, <1>2 DEF ComparePartial
<1>3. ASSUME CompareFull
      PROVE  LET full == Checked(crcfull, FileA, FileB, [h \in File |-> FullCrc(h)])
             IN  /\ crcfull' = full
                 /\ IF full[FileA] # full[FileB]
                    THEN Reject /\ NextB
                    ELSE pc' = "bytes" /\ UNCHANGED <<cur_group, next_queue, b>>
  BY <1>1, <1>3 DEF CompareFull
<1>4. ASSUME CompareBytes
      PROVE  IF ByteMatch(FileA, FileB)
             THEN Accept /\ UNCHANGED leaked
             ELSE Reject /\ leaked' \in {leaked, leaked + 2}
  BY <1>1, <1>4 DEF CompareBytes
<1>5. ComparePartial /\ size[FileA] = 0 => Accept /\ NextB /\ UNCHANGED <<crcpartial, crcfull>>
  BY DEF ComparePartial
<1>. QED
  BY <1>2, <1>3, <1>4, <1>5

LEMMA TrueInit == Init => TrueInv
<1>. SUFFICES ASSUME Init PROVE TrueInv
  OBVIOUS
<1>1. /\ \A s \in Size : Files(filelist[s]) = {}
      /\ \A f \in File : crcpartial[f] = Invalid /\ crcfull[f] = Invalid
  BY Empty DEF Init
<1>2. \A f \in Considered : ~(f <= scanned)
  <2>1. scenario \in Scenarios /\ scanned = 0
    BY DEF Init
  <2>. QED
    BY <2>1, ScenarioFacts DEF Considered, File
<1>. QED
  BY <1>1, <1>2 DEF TrueInv

LEMMA TrueStep == ShapeInv /\ ListInv /\ TrueInv /\ [Next]_vars => TrueInv'
<1>. SUFFICES ASSUME ShapeInv, ListInv, TrueInv, [Next]_vars, writes' = 0, Searching'
              PROVE  TrueInv'
  BY DEF TrueInv
<1>1. /\ writes = 0 /\ Searching /\ UNCHANGED <<content, scenario>> /\ Considered' = Considered
  BY Undisturbed
<1>2. /\ \A f \in Considered :
             f <= scanned => f \in Files(filelist[Len(content[EntryOf(f)])])
      /\ \A s \in Size : \A f \in Files(filelist[s]) :
             f \in Considered /\ Len(content[EntryOf(f)]) = s
      /\ \A f \in File :
             /\ crcpartial[f] # Invalid =>
                    crcpartial[f] =
                        Valid(SubSeq(content[EntryOf(f)], 1, Least(size[f], MaxPartial)))
             /\ crcfull[f] # Invalid =>
                    crcfull[f] = Valid(SubSeq(content[EntryOf(f)], 1, size[f]))
             /\ pc = "scan" => crcpartial[f] = Invalid /\ crcfull[f] = Invalid
  BY <1>1 DEF TrueInv
<1>3. /\ File' = File /\ (\A f : EntryOf(f)' = EntryOf(f)) /\ File \subseteq Nat
      /\ \A f \in File : size[f] \in Nat
      /\ Considered \subseteq File
  <2>1. File' = File /\ (\A f : EntryOf(f)' = EntryOf(f))
    BY <1>1 DEF File, EntryOf, Found
  <2>2. size \in [File -> Size \cup {0}]
    BY DEF ShapeInv, TypeOK
  <2>3. \A f \in File : size[f] \in Nat
    <3>1. Size \cup {0} \subseteq Nat
      BY SizeFacts
    <3>. QED
      BY ONLY <2>2, <3>1
  <2>4. Considered \subseteq File
    BY DEF Considered
  <2>5. File \subseteq Nat
    BY GroupTypes
  <2>. QED
    BY <2>1, <2>3, <2>4, <2>5
<1>4. ASSUME UNCHANGED <<filelist, size, scanned, crcpartial, crcfull>>, pc' # "scan" \/ pc = "scan"
      PROVE  TrueInv'
  BY <1>1, <1>2, <1>3, <1>4 DEF TrueInv
<1>5. ASSUME UNCHANGED <<filelist, size, scanned>>, pc' # "scan",
             NEW f \in File, NEW g \in File,
             \/ /\ crcpartial' = Checked(crcpartial, f, g, [h \in File |-> PartialCrc(h)])
                /\ crcfull' = [h \in File |->
                                  IF size[h] <= MaxPartial /\ crcpartial'[h] # crcpartial[h]
                                  THEN crcpartial'[h] ELSE crcfull[h]]
             \/ /\ crcpartial' = crcpartial
                /\ crcfull' = Checked(crcfull, f, g, [h \in File |-> FullCrc(h)])
      PROVE  TrueInv'
  <2>1. ASSUME NEW h \in File
        PROVE  /\ crcpartial'[h] # Invalid =>
                    crcpartial'[h] =
                        Valid(SubSeq(content[EntryOf(h)], 1, Least(size[h], MaxPartial)))
               /\ crcfull'[h] # Invalid =>
                    crcfull'[h] = Valid(SubSeq(content[EntryOf(h)], 1, size[h]))
    <3>1. size[h] \in Nat
      BY <1>3
    <3>2. size[h] <= MaxPartial => Least(size[h], MaxPartial) = size[h]
      BY DEF Least
    <3>3. CASE crcpartial' = Checked(crcpartial, f, g, [k \in File |-> PartialCrc(k)])
               /\ crcfull' = [k \in File |->
                                  IF size[k] <= MaxPartial /\ crcpartial'[k] # crcpartial[k]
                                  THEN crcpartial'[k] ELSE crcfull[k]]
      <4>1. crcpartial'[h] = crcpartial[h] \/ crcpartial'[h] = PartialCrc(h)
        BY <3>3 DEF Checked
      <4>2. \/ crcfull'[h] = crcfull[h]
            \/ size[h] <= MaxPartial /\ crcfull'[h] = crcpartial'[h]
        BY <3>3
      <4>3. crcpartial'[h] # Invalid =>
                crcpartial'[h] = Valid(SubSeq(content[EntryOf(h)], 1, Least(size[h], MaxPartial)))
        BY <1>2, <3>1, <4>1, RightCrc
      <4>. QED
        BY <1>2, <3>2, <4>2, <4>3
    <3>4. CASE crcpartial' = crcpartial
               /\ crcfull' = Checked(crcfull, f, g, [k \in File |-> FullCrc(k)])
      <4>1. crcfull'[h] = crcfull[h] \/ crcfull'[h] = FullCrc(h)
        BY <3>4 DEF Checked
      <4>. QED
        BY <1>2, <3>1, <3>4, <4>1, RightCrc
    <3>. QED
      BY <1>5, <3>3, <3>4
  <2>. QED
    BY <1>1, <1>2, <1>3, <1>5, <2>1 DEF TrueInv, Invalid, Valid
<1>6. CASE ScanFile
  <2>1. PICK f, n : f = scanned + 1 /\ n = Len(content[EntryOf(f)])
    OBVIOUS
  <2>2. /\ f \in File /\ f \in Nat /\ scanned' = f /\ scanned \in Nat
        /\ UNCHANGED <<pc, crcpartial, crcfull>>
        /\ \/ f \notin Considered /\ UNCHANGED <<size, filelist>>
           \/ /\ f \in Considered /\ n \in Size
              /\ \A s \in Size : Files(filelist'[s]) = IF s = n THEN {f} \cup Files(filelist[s])
                                                       ELSE Files(filelist[s])
    BY <1>6, <2>1, Scanned
  <2>3. \A g \in File : g <= f => g <= scanned \/ g = f
    BY <1>3, <2>1, <2>2
  <2>4. \A g \in Considered : Len(content[EntryOf(g)]) \in Size
    <3>1. content \in [Entries -> Content \cup {Gone}] /\ \A g \in File : EntryOf(g) \in Entries
      BY ScenarioFacts DEF ShapeInv, TypeOK
    <3>. QED
      BY <3>1, SizeFacts DEF Considered, Exists
  <2>5. \A g \in Considered :
            g <= scanned' => g \in Files(filelist'[Len(content[EntryOf(g)])])
    <3>. SUFFICES ASSUME NEW g \in Considered, g <= f
                  PROVE  g \in Files(filelist'[Len(content[EntryOf(g)])])
      BY <2>2
    <3>1. CASE g = f
      BY <2>1, <2>2, <3>1
    <3>2. CASE g <= scanned
      BY <1>2, <2>2, <2>4, <3>2
    <3>. QED
      BY <1>3, <2>3, <3>1, <3>2
  <2>6. \A s \in Size : \A g \in Files(filelist'[s]) :
            g \in Considered /\ Len(content[EntryOf(g)]) = s
    BY <1>2, <2>1, <2>2
  <2>7. pc = "scan"
    BY <1>6 DEF ScanFile
  <2>8. \A g \in File : crcpartial'[g] = Invalid /\ crcfull'[g] = Invalid
    BY <1>2, <2>2, <2>7
  <2>. QED
    BY <1>1, <1>3, <2>5, <2>6, <2>8 DEF TrueInv
<1>7. CASE StartMatching
  BY <1>4, <1>7 DEF StartMatching
<1>8. CASE pc # "scan" /\ pc' # "scan" /\ UNCHANGED <<crcpartial, crcfull>>
  BY <1>4, <1>8, WhileSearching
<1>9. CASE ComparePartial \/ CompareFull
  <2>1. Comparing /\ pc # "scan" /\ b <= Len(queue)
    BY <1>9 DEF ComparePartial, CompareFull, Comparing, ShapeInv
  <2>2. pc' # "scan" /\ UNCHANGED <<filelist, size, scanned>>
    BY <2>1, WhileSearching
  <2>3. FileA \in File /\ FileB \in File
    <3>1. queue \in Seq(Seq(File) \ {<<>>}) /\ cur_group \in Seq(File) /\ cur_group # <<>>
          /\ b \in 1..Len(queue)
      BY <2>1, GroupTypes DEF ShapeInv, TypeOK
    <3>2. queue[b] \in Seq(File) \ {<<>>}
      BY <3>1
    <3>. QED
      BY <3>1, <3>2 DEF FileA, FileB
  <2>4. \/ UNCHANGED <<crcpartial, crcfull>>
        \/ /\ crcpartial' = Checked(crcpartial, FileA, FileB, [h \in File |-> PartialCrc(h)])
           /\ crcfull' = [h \in File |->
                             IF size[h] <= MaxPartial /\ crcpartial'[h] # crcpartial[h]
                             THEN crcpartial'[h] ELSE crcfull[h]]
        \/ /\ crcpartial' = crcpartial
           /\ crcfull' = Checked(crcfull, FileA, FileB, [h \in File |-> FullCrc(h)])
    BY <1>1, <1>9, QuietReads DEF CompareFull
  <2>5. CASE UNCHANGED <<crcpartial, crcfull>>
    BY <1>8, <2>1, <2>2, <2>5
  <2>. QED
    BY <1>5, <2>2, <2>3, <2>4, <2>5
<1>10. pc # "scan" => pc' # "scan"
  BY WhileSearching
<1>11. CASE OtherWrites \/ UNCHANGED vars
  BY <1>4, <1>11 DEF OtherWrites, vars, matchVars
<1>12. CASE Matching
  <2>1. pc # "scan"
    BY <1>12 DEF Matching, TakeSize, TakeHead, SizeDone, ComparePartial, CompareFull,
                 CompareBytes, GroupDone, MatchingDone
  <2>2. CASE ComparePartial \/ CompareFull
    BY <1>9, <2>2
  <2>3. CASE ~(ComparePartial \/ CompareFull)
    BY <1>8, <1>10, <1>12, <2>1, <2>3
    DEF Matching, TakeSize, TakeHead, SizeDone, CompareBytes, GroupDone, MatchingDone, matchVars
  <2>. QED
    BY <2>2, <2>3
<1>13. ~Finishing /\ ~User
  BY <1>1 DEF Finishing, TakeSets, PrintSet, SkipSet, TakeSet, RemoveFile, SetDone,
              AllSetsDone, User, Answer, QuitAnswer, Searching, AtWork, Comparing
<1>. QED
  BY <1>6, <1>7, <1>11, <1>12, <1>13 DEF Next, Program

LEMMA Truths == Spec => [](ShapeInv /\ ListInv /\ WorkInv /\ DoneInv /\ TrueInv)
BY Works, TrueInit, TrueStep, PTL DEF Spec
----------------------------------------------------------------------------
(* Being of the same content is an equivalence, and what is alike to one   *)
(* file of a class is alike to all of them.                                *)
LEMMA SameFacts ==
    ASSUME NEW f, NEW g, NEW h
    PROVE  /\ SameContent(f, f)
           /\ SameContent(f, g) => SameContent(g, f)
           /\ SameContent(f, g) /\ SameContent(g, h) => SameContent(f, h)
           /\ Alike(f, g) => Alike(g, f) /\ SameContent(f, g)
           /\ SameContent(f, g) /\ Alike(g, h) => Alike(f, h) /\ Alike(h, f)
           /\ Alike(f, h) /\ SameContent(f, g) => Alike(f, g)
BY DEF SameContent, Alike

(* byte_match() reads all of a file of the size recorded.                  *)
LEMMA WholeRead ==
    ASSUME NEW c, c \in Seq(ToSet(c))
    PROVE  ReadUpTo(c, Len(c)) = c
<1>1. PICK s : s = Len(c)
  OBVIOUS
<1>2. c \in Seq(ToSet(c)) /\ s \in Nat
  BY <1>1
<1>3. PICK k : k = ((s + MaxPartial - 1) \div MaxPartial) * MaxPartial
  OBVIOUS
<1>4. k \in Int /\ s <= k
  BY <1>2, <1>3, FilesAssumption
<1>5. Least(s, k) = s
  BY <1>4 DEF Least
<1>6. SubSeq(c, 1, s) = c
  BY <1>1, <1>2
<1>. QED
  BY <1>1, <1>3, <1>5, <1>6 DEF ReadUpTo

(* The two files compared are listed under the size at hand.               *)
LEMMA Compared ==
    ASSUME ShapeInv, ListInv, WorkInv, TrueInv, writes = 0, Comparing, b <= Len(queue),
           NEW f \in {FileA, FileB}
    PROVE  /\ f \in File /\ f \in Considered /\ f \in Files(filelist[cursize])
           /\ size[f] = cursize /\ cursize \in Size /\ cursize \in Nat
           /\ Len(content[EntryOf(f)]) = cursize
           /\ content[EntryOf(f)] \in Seq(ToSet(content[EntryOf(f)]))
           /\ Exists(EntryOf(f))
           /\ FileA # FileB
           /\ (content[EntryOf(f)] = <<>> <=> cursize = 0)
<1>1. PICK r : r = queue[b][1]
  OBVIOUS
<1>2. /\ r = FileB /\ r \in File /\ r \in Files(queue) /\ r \notin ToSet(cur_group)
      /\ FileA \in ToSet(cur_group) /\ FileA \in File /\ cursize \in Size
  BY <1>1, NextFile
<1>3. AtWork /\ Searching
  BY DEF AtWork, Searching
<1>4. f \in File /\ f \in Files(filelist[cursize]) /\ FileA # FileB
  BY <1>2, <1>3 DEF WorkInv
<1>5. size[f] = cursize
  BY <1>2, <1>3, <1>4 DEF ListInv
<1>6. f \in Considered /\ Len(content[EntryOf(f)]) = cursize
  BY <1>2, <1>3, <1>4 DEF TrueInv
<1>7. Exists(EntryOf(f))
  BY <1>6 DEF Considered
<1>8. content[EntryOf(f)] \in Seq(ToSet(content[EntryOf(f)]))
  <2>1. content \in [Entries -> Content \cup {Gone}] /\ EntryOf(f) \in Entries
    BY <1>4, ScenarioFacts DEF ShapeInv, TypeOK
  <2>. QED
    BY <1>7, <2>1, SizeFacts DEF Exists
<1>9. content[EntryOf(f)] = <<>> <=> cursize = 0
  <2>1. \A c : c \in Seq(ToSet(c)) => (c = <<>> <=> Len(c) = 0)
    OBVIOUS
  <2>. QED
    BY <1>6, <1>8, <2>1
<1>. QED
  BY <1>2, <1>4, <1>5, <1>6, <1>7, <1>8, <1>9, SizeFacts

(* What byte_match() and the checksums of two such files are worth.        *)
LEMMA ByteVerdict ==
    ASSUME ShapeInv, ListInv, WorkInv, TrueInv, writes = 0, Comparing, b <= Len(queue),
           cursize # 0
    PROVE  ByteMatch(FileA, FileB) <=> Alike(FileA, FileB)
<1>1. PICK p, q : p = EntryOf(FileA) /\ q = EntryOf(FileB)
  OBVIOUS
<1>2. /\ size[FileA] = cursize /\ Len(content[p]) = cursize /\ Len(content[q]) = cursize
      /\ content[p] # <<>> /\ FileA # FileB /\ cursize \in Nat
      /\ content[p] \in Seq(ToSet(content[p])) /\ content[q] \in Seq(ToSet(content[q]))
  BY <1>1, Compared
<1>3. ReadUpTo(content[p], cursize) = content[p] /\ ReadUpTo(content[q], cursize) = content[q]
  BY <1>2, WholeRead
<1>4. Len(content[p]) >= cursize
  BY <1>2
<1>5. ByteMatch(FileA, FileB) <=> CanOpen(2) /\ Readable(p) /\ Readable(q) /\ content[p] = content[q]
  BY <1>1, <1>2, <1>3, <1>4 DEF ByteMatch, BothOpen, MatchOf
<1>. QED
  BY <1>1, <1>2, <1>5 DEF Alike, SameContent

LEMMA CrcVerdict ==
    ASSUME ShapeInv, ListInv, WorkInv, TrueInv, writes = 0, Comparing, b <= Len(queue),
           cursize # 0, Alike(FileA, FileB)
    PROVE  /\ LET partial == Checked(crcpartial, FileA, FileB, [h \in File |-> PartialCrc(h)])
              IN  partial[FileA] # Invalid /\ partial[FileA] = partial[FileB]
           /\ LET full == Checked(crcfull, FileA, FileB, [h \in File |-> FullCrc(h)])
              IN  full[FileA] = full[FileB]
<1>1. CanOpen(1) /\ Readable(EntryOf(FileA)) /\ Readable(EntryOf(FileB))
      /\ content[EntryOf(FileA)] = content[EntryOf(FileB)]
  <2>1. content[EntryOf(FileA)] # <<>> /\ FileA # FileB
    BY Compared
  <2>2. leaked \in Nat /\ scenario.max_open \in Nat
    BY ScenarioFacts DEF ShapeInv, TypeOK
  <2>. QED
    BY <2>1, <2>2 DEF Alike, SameContent, CanOpen
<1>2. PICK s, c : s = cursize /\ c = content[EntryOf(FileA)]
  OBVIOUS
<1>3. s \in Nat /\ Len(c) = s /\ Least(s, MaxPartial) <= s
  BY <1>2, Compared, FilesAssumption DEF Least
<1>4. ASSUME NEW f \in {FileA, FileB}
      PROVE  /\ f \in File /\ size[f] = s /\ content[EntryOf(f)] = c
             /\ PartialCrc(f) = Valid(SubSeq(c, 1, Least(s, MaxPartial)))
             /\ FullCrc(f) = Valid(SubSeq(c, 1, s))
             /\ crcpartial[f] # Invalid => crcpartial[f] = Valid(SubSeq(c, 1, Least(s, MaxPartial)))
             /\ crcfull[f] # Invalid => crcfull[f] = Valid(SubSeq(c, 1, s))
  <2>1. f \in File /\ size[f] = s /\ content[EntryOf(f)] = c /\ Readable(EntryOf(f))
    BY <1>1, <1>2, <1>4, Compared
  <2>2. PartialCrc(f) = Valid(SubSeq(c, 1, Least(s, MaxPartial)))
    BY <1>1, <1>3, <2>1 DEF PartialCrc, PartialOf
  <2>3. FullCrc(f) = Valid(SubSeq(c, 1, s))
    BY <1>1, <1>3, <2>1 DEF FullCrc, FullOf
  <2>4. Searching
    BY DEF Searching, AtWork
  <2>. QED
    BY <2>1, <2>2, <2>3, <2>4 DEF TrueInv
<1>5. \A u : Valid(u) # Invalid
  BY DEF Valid, Invalid
<1>. QED
  BY <1>4, <1>5 DEF Checked

(* What becomes of a comparison.                                           *)
LEMMA Verdict ==
    ASSUME ShapeInv, ListInv, WorkInv, TrueInv, writes = 0,
           ComparePartial \/ CompareFull \/ CompareBytes,
           pc \in {"full", "bytes"} => content[EntryOf(FileA)] # <<>>
    PROVE  /\ Comparing /\ b <= Len(queue)
           /\ UNCHANGED <<queue, cursize, filelist, next_filelist, sizes>>
           /\ leaked' >= leaked
           /\ \/ Accept /\ NextB /\ Alike(FileA, FileB) /\ leaked' = leaked
              \/ Reject /\ NextB /\ ~Alike(FileA, FileB)
              \/ /\ pc' \in {"full", "bytes"} /\ content[EntryOf(FileA)] # <<>>
                 /\ UNCHANGED <<cur_group, next_queue, b, leaked>>
<1>1. Comparing /\ b <= Len(queue) /\ UNCHANGED <<queue, cursize, filelist, next_filelist, sizes>>
  BY DEF ComparePartial, CompareFull, CompareBytes, Comparing, ShapeInv
<1>2. leaked \in Nat
  BY ScenarioFacts DEF ShapeInv, TypeOK
<1>3. /\ size[FileA] = cursize /\ (content[EntryOf(FileA)] = <<>> <=> cursize = 0)
      /\ (content[EntryOf(FileB)] = <<>> <=> cursize = 0)
  BY <1>1, Compared
<1>4. CASE ComparePartial
  <2>1. leaked' = leaked /\ leaked' >= leaked
    BY <1>2, <1>4 DEF ComparePartial
  <2>2. CASE cursize = 0
    <3>1. Accept /\ NextB
      BY <1>3, <1>4, <2>2, QuietReads
    <3>2. Alike(FileA, FileB)
      BY <1>3, <2>2 DEF Alike, SameContent
    <3>. QED
      BY <1>1, <2>1, <3>1, <3>2
  <2>3. CASE cursize # 0
    <3>. DEFINE partial == Checked(crcpartial, FileA, FileB, [h \in File |-> PartialCrc(h)])
    <3>1. IF partial[FileA] = Invalid \/ partial[FileA] # partial[FileB]
          THEN Reject /\ NextB
          ELSE pc' = "full" /\ UNCHANGED <<cur_group, next_queue, b>>
      BY <1>3, <1>4, <2>3, QuietReads
    <3>2. Alike(FileA, FileB) => partial[FileA] # Invalid /\ partial[FileA] = partial[FileB]
      BY <1>1, <2>3, CrcVerdict
    <3>. HIDE DEF partial
    <3>. QED
      BY <1>1, <1>3, <2>1, <2>3, <3>1, <3>2
  <2>. QED
    BY <2>2, <2>3
<1>5. CASE CompareFull
  <2>. DEFINE full == Checked(crcfull, FileA, FileB, [h \in File |-> FullCrc(h)])
  <2>1. leaked' = leaked /\ leaked' >= leaked /\ pc = "full"
    BY <1>2, <1>5 DEF CompareFull
  <2>2. IF full[FileA] # full[FileB] THEN Reject /\ NextB
        ELSE pc' = "bytes" /\ UNCHANGED <<cur_group, next_queue, b>>
    BY <1>5, QuietReads
  <2>3. Alike(FileA, FileB) => full[FileA] = full[FileB]
    BY <1>1, <1>3, <2>1, CrcVerdict
  <2>. HIDE DEF full
  <2>. QED
    BY <1>1, <1>3, <2>1, <2>2, <2>3
<1>6. CASE CompareBytes
  <2>1. pc = "bytes" /\ cursize # 0 /\ NextB
    BY <1>3, <1>6 DEF CompareBytes
  <2>2. ByteMatch(FileA, FileB) <=> Alike(FileA, FileB)
    BY <1>1, <2>1, ByteVerdict
  <2>3. leaked' \in {leaked, leaked + 2} /\ (ByteMatch(FileA, FileB) => leaked' = leaked)
    BY <1>6, QuietReads
  <2>4. leaked' >= leaked
    BY <1>2, <2>3
  <2>5. IF ByteMatch(FileA, FileB) THEN Accept ELSE Reject
    BY <1>6, QuietReads
  <2>. QED
    BY <1>1, <2>1, <2>2, <2>3, <2>4, <2>5
<1>. QED
  BY <1>4, <1>5, <1>6
----------------------------------------------------------------------------
LEMMA ClassInit == Init => ClassInv
<1>. SUFFICES ASSUME Init PROVE ClassInv
  OBVIOUS
<1>1. pc = "scan" /\ ~Comparing /\ \A s \in Size : next_filelist[s] = <<>>
  BY DEF Init, Comparing
<1>. QED
  BY <1>1 DEF ClassInv

(* The files of the size at hand are those in work and those settled.      *)
LEMMA Unsettled ==
    ASSUME ShapeInv, ListInv, WorkInv, DoneInv, TrueInv, ClassInv, writes = 0, Comparing,
           NEW f \in Files(filelist[cursize]), f \notin Live,
           NEW g \in Live, g \in Considered
    PROVE  ~Alike(f, g) /\ ~Alike(g, f)
<1>1. cursize \in Size /\ cursize \notin sizes /\ AtWork /\ Searching /\ pc # "scan"
  BY DEF ShapeInv, AtWork, Searching, Comparing
<1>2. ASSUME Alike(f, g) PROVE FALSE
  <2>1. f = g \/ Together(cursize, f, g)
    BY <1>1, <1>2 DEF ClassInv
  <2>2. PICK i \in DOMAIN next_filelist[cursize] : g \in ToSet(next_filelist[cursize][i])
    BY <2>1 DEF Together
  <2>3. g \in Files(next_filelist[cursize])
    BY <2>2 DEF Files
  <2>. QED
    BY <1>1, <2>3 DEF DoneInv
<1>. QED
  BY <1>2, SameFacts

LEMMA ClassCompare ==
    ASSUME ShapeInv, ListInv, WorkInv, DoneInv, TrueInv, ClassInv, writes = 0,
           UNCHANGED <<content, scenario>>, Considered' = Considered,
           \A f, g : SameContent(f, g)' <=> SameContent(f, g),
           \A f : EntryOf(f)' = EntryOf(f),
           ComparePartial \/ CompareFull \/ CompareBytes
    PROVE  ClassInv'
<1>. PICK r : r = queue[b][1]
  OBVIOUS
<1>1. /\ Comparing /\ b <= Len(queue)
      /\ UNCHANGED <<queue, cursize, filelist, next_filelist, sizes>>
      /\ leaked' >= leaked
      /\ \/ Accept /\ NextB /\ Alike(FileA, FileB) /\ leaked' = leaked
         \/ Reject /\ NextB /\ ~Alike(FileA, FileB)
         \/ /\ pc' \in {"full", "bytes"} /\ content[EntryOf(FileA)] # <<>>
            /\ UNCHANGED <<cur_group, next_queue, b, leaked>>
  <2>1. pc \in {"full", "bytes"} => content[EntryOf(FileA)] # <<>>
    BY DEF ClassInv, Searching, AtWork, Comparing
  <2>2. /\ Comparing /\ b <= Len(queue)
        /\ UNCHANGED <<queue, cursize, filelist, next_filelist, sizes>>
        /\ leaked' >= leaked
    BY <2>1, Verdict
  <2>3. \/ Accept /\ NextB /\ Alike(FileA, FileB) /\ leaked' = leaked
        \/ Reject /\ NextB /\ ~Alike(FileA, FileB)
        \/ /\ pc' \in {"full", "bytes"} /\ content[EntryOf(FileA)] # <<>>
           /\ UNCHANGED <<cur_group, next_queue, b, leaked>>
    BY <2>1, Verdict
  <2>. QED
    BY <2>2, <2>3
<1>2. Searching /\ AtWork /\ pc # "scan" /\ cursize \in Size /\ cursize \notin sizes
  BY <1>1 DEF Searching, AtWork, Comparing, ShapeInv
<1>3. /\ r = FileB /\ FileA \in ToSet(cur_group) /\ r \in Rest /\ r \notin ToSet(cur_group)
      /\ r \notin Files(next_queue)
  BY <1>1, NextFile
<1>4. \A f, g : Alike(f, g)' => Alike(f, g)
  <2>1. leaked \in Nat /\ scenario.max_open \in Nat /\ (leaked' = leaked \/ leaked' \in Nat)
    <3>1. leaked \in Nat /\ scenario.max_open \in Nat
      BY ScenarioFacts DEF ShapeInv, TypeOK
    <3>2. leaked' = leaked \/ leaked' = leaked + 2
      BY DEF ComparePartial, CompareFull, CompareBytes
    <3>. QED
      BY <3>1, <3>2
  <2>2. CanOpen(2)' => CanOpen(2)
    BY <1>1, <2>1 DEF CanOpen
  <2>. QED
    BY <2>2 DEF Alike
<1>5. /\ \A g : SameWithin(g)' <=> SameWithin(g)
      /\ \A g, h : Different(g, h)' <=> Different(g, h)
      /\ \A s, f, g : Together(s, f, g)' <=> Together(s, f, g)
  BY <1>1 DEF SameWithin, Different, Together
<1>6. /\ \A s \in Size :
            /\ \A i \in DOMAIN next_filelist[s] : SameWithin(next_filelist[s][i])
            /\ \A i, j \in DOMAIN next_filelist[s] :
                   i # j => Different(next_filelist[s][i], next_filelist[s][j])
            /\ s \notin sizes =>
                   \A f \in Files(filelist[s]) : \A g \in Considered :
                       Alike(f, g) /\ ~(s = cursize /\ f \in Live)
                           => f = g \/ Together(s, f, g)
      /\ SameWithin(cur_group)
      /\ \A f \in ToSet(cur_group), g \in Files(next_queue) : ~Alike(f, g)
      /\ Len(cur_group) > 1 =>
             \A i \in DOMAIN next_filelist[cursize] :
                 Different(next_filelist[cursize][i], cur_group)
  BY <1>1, <1>2 DEF ClassInv
<1>7. ASSUME Live' = Live, AtWork', Comparing', Searching',
             SameWithin(cur_group'), \A f \in ToSet(cur_group'), g \in Files(next_queue') : ~Alike(f, g),
             Len(cur_group') > 1 =>
                 \A i \in DOMAIN next_filelist[cursize] :
                     Different(next_filelist[cursize][i], cur_group'),
             pc' \in {"full", "bytes"} => content[EntryOf(FileA)] # <<>> /\ UNCHANGED cur_group
      PROVE  ClassInv'
  <2>1. (\A s \in Size :
            /\ \A i \in DOMAIN next_filelist[s] : SameWithin(next_filelist[s][i])
            /\ \A i, j \in DOMAIN next_filelist[s] :
                   i # j => Different(next_filelist[s][i], next_filelist[s][j]))'
    BY <1>1, <1>6 DEF SameWithin, Different
  <2>2. (\A s \in Size : s \notin sizes =>
            \A f \in Files(filelist[s]) : \A g \in Considered :
                Alike(f, g) /\ ~(AtWork /\ s = cursize /\ f \in Live)
                    => f = g \/ Together(s, f, g))'
    BY <1>1, <1>4, <1>5, <1>6, <1>7
  <2>3. SameWithin(cur_group)'
    BY <1>7 DEF SameWithin
  <2>4. (\A f \in ToSet(cur_group), g \in Files(next_queue) : ~Alike(f, g))'
    BY <1>4, <1>7
  <2>5. (Len(cur_group) > 1 =>
            \A i \in DOMAIN next_filelist[cursize] : Different(next_filelist[cursize][i], cur_group))'
    BY <1>1, <1>7 DEF Different
  <2>6. (pc \in {"full", "bytes"} => content[EntryOf(FileA)] # <<>>)'
    BY <1>7 DEF FileA
  <2>. QED
    BY <2>1, <2>2, <2>3, <2>4, <2>5, <2>6 DEF ClassInv
<1>8. ASSUME Accept \/ Reject, NextB
      PROVE  /\ Live' = Live /\ AtWork' /\ Comparing' /\ Searching' /\ pc' = "compare"
             /\ \/ /\ ToSet(cur_group') = ToSet(cur_group) \cup {r} /\ next_queue' = next_queue
                   /\ Accept
                \/ /\ Files(next_queue') = Files(next_queue) \cup {r} /\ cur_group' = cur_group
                   /\ Reject
  <2>1. /\ Live' = Live /\ Comparing'
        /\ \/ /\ ToSet(cur_group') = ToSet(cur_group) \cup {r} /\ next_queue' = next_queue
              /\ Len(cur_group') > 1 /\ Accept
           \/ /\ Files(next_queue') = Files(next_queue) \cup {r} /\ cur_group' = cur_group
              /\ Reject
    BY <1>1, <1>8, Sorting
  <2>. QED
    BY <1>8, <2>1 DEF AtWork, Searching, NextB
<1>9. ~(Accept /\ Reject)
  <2>1. queue[b] \in Seq(Nat) /\ queue[b] # <<>> /\ cur_group \in Seq(Nat)
    <3>1. b \in DOMAIN queue /\ queue \in Seq(Seq(File) \ {<<>>}) /\ File \subseteq Nat
          /\ cur_group \in Seq(Nat)
      BY <1>1, NextFile, GroupTypes
    <3>2. queue[b] \in Seq(File) \ {<<>>}
      BY <3>1
    <3>. QED
      BY <3>1, <3>2, Wider
  <2>2. Len(queue[b] \o cur_group) = Len(queue[b]) + Len(cur_group) /\ Len(queue[b]) # 0
        /\ Len(queue[b]) \in Nat /\ Len(cur_group) \in Nat
    BY <2>1
  <2>. QED
    BY <2>2 DEF Accept, Reject
<1>10. CASE Accept /\ NextB /\ Alike(FileA, FileB) /\ leaked' = leaked
  <2>1. /\ Live' = Live /\ AtWork' /\ Comparing' /\ Searching' /\ pc' = "compare"
        /\ ToSet(cur_group') = ToSet(cur_group) \cup {r} /\ next_queue' = next_queue
    BY <1>8, <1>9, <1>10
  <2>2. \A f \in ToSet(cur_group') : SameContent(f, FileA) /\ SameContent(FileA, f)
    BY <1>3, <1>6, <1>10, <2>1, SameFacts DEF SameWithin
  <2>3. SameWithin(cur_group')
    BY <2>2, SameFacts DEF SameWithin
  <2>4. \A f \in ToSet(cur_group'), g \in Files(next_queue') : ~Alike(f, g)
    BY <1>3, <1>6, <2>1, <2>2, SameFacts
  <2>5. \A i \in DOMAIN next_filelist[cursize] : Different(next_filelist[cursize][i], cur_group')
    <3>. SUFFICES ASSUME NEW i \in DOMAIN next_filelist[cursize],
                         NEW f \in ToSet(next_filelist[cursize][i]), NEW g \in ToSet(cur_group'),
                         SameContent(f, g)
                  PROVE  FALSE
      BY DEF Different
    <3>1. f \in Files(next_filelist[cursize])
      BY DEF Files
    <3>2. f \in Files(filelist[cursize]) /\ f \notin Live
      BY <1>2, <3>1 DEF DoneInv
    <3>3. FileA \in Live
      BY <1>1, <1>3 DEF Live, Comparing
    <3>4. SameContent(f, FileA)
      BY <2>2, SameFacts
    <3>5. Alike(f, FileA)
      <4>1. Alike(FileB, FileA) /\ SameContent(f, FileB)
        BY <1>10, <3>4, SameFacts
      <4>. QED
        BY <4>1, SameFacts
    <3>6. FileA \in Considered
      BY <1>1, Compared
    <3>. QED
      BY <1>1, <3>2, <3>3, <3>5, <3>6, Unsettled
  <2>6. ~(pc' \in {"full", "bytes"})
    BY <2>1
  <2>. QED
    BY <1>7, <2>1, <2>3, <2>4, <2>5, <2>6
<1>11. CASE Reject /\ NextB /\ ~Alike(FileA, FileB)
  <2>1. /\ Live' = Live /\ AtWork' /\ Comparing' /\ Searching' /\ pc' = "compare"
        /\ Files(next_queue') = Files(next_queue) \cup {r} /\ cur_group' = cur_group
    BY <1>8, <1>9, <1>11
  <2>2. \A f \in ToSet(cur_group) : ~Alike(f, r)
    <3>. SUFFICES ASSUME NEW f \in ToSet(cur_group), Alike(f, r) PROVE FALSE
      OBVIOUS
    <3>1. SameContent(FileA, f)
      BY <1>3, <1>6 DEF SameWithin
    <3>2. Alike(FileA, r)
      BY <3>1, SameFacts
    <3>. QED
      BY <1>3, <1>11, <3>2
  <2>3. \A f \in ToSet(cur_group'), g \in Files(next_queue') : ~Alike(f, g)
    BY <1>6, <2>1, <2>2
  <2>4. ~(pc' \in {"full", "bytes"})
    BY <2>1
  <2>. QED
    BY <1>6, <1>7, <2>1, <2>3, <2>4
<1>12. CASE /\ pc' \in {"full", "bytes"} /\ content[EntryOf(FileA)] # <<>>
            /\ UNCHANGED <<cur_group, next_queue, b, leaked>>
  <2>1. Live' = Live /\ AtWork' /\ Comparing' /\ Searching'
    BY <1>1, <1>12 DEF Live, Rest, AtWork, Comparing, Searching
  <2>. QED
    BY <1>6, <1>7, <1>12, <2>1
<1>. QED
  BY <1>1, <1>10, <1>11, <1>12

(* A file that has only itself to be compared with is settled, and so is   *)
(* one whose group is complete.                                            *)
LEMMA ClassStep ==
    ShapeInv /\ ListInv /\ WorkInv /\ DoneInv /\ TrueInv /\ ClassInv /\ [Next]_vars => ClassInv'
<1>. SUFFICES ASSUME ShapeInv, ListInv, WorkInv, DoneInv, TrueInv, ClassInv, [Next]_vars,
                     writes' = 0, Searching'
              PROVE  ClassInv'
  BY DEF ClassInv
<1>1. /\ writes = 0 /\ Searching /\ UNCHANGED <<content, scenario>>
      /\ Considered' = Considered
      /\ \A f, g : SameContent(f, g)' <=> SameContent(f, g)
      /\ \A f : EntryOf(f)' = EntryOf(f)
  BY Undisturbed DEF EntryOf, Found
<1>2. /\ \A s \in Size :
            /\ \A i \in DOMAIN next_filelist[s] : SameWithin(next_filelist[s][i])
            /\ \A i, j \in DOMAIN next_filelist[s] :
                   i # j => Different(next_filelist[s][i], next_filelist[s][j])
      /\ \A s \in Size : pc # "scan" /\ s \notin sizes =>
             \A f \in Files(filelist[s]) : \A g \in Considered :
                 Alike(f, g) /\ ~(AtWork /\ s = cursize /\ f \in Live)
                     => f = g \/ Together(s, f, g)
  BY <1>1 DEF ClassInv
<1>3. ASSUME UNCHANGED leaked PROVE \A f, g : Alike(f, g)' <=> Alike(f, g)
  BY <1>1, <1>3 DEF Alike, CanOpen
<1>4. ASSUME UNCHANGED next_filelist
      PROVE  /\ (\A s \in Size :
                    /\ \A i \in DOMAIN next_filelist[s] : SameWithin(next_filelist[s][i])
                    /\ \A i, j \in DOMAIN next_filelist[s] :
                           i # j => Different(next_filelist[s][i], next_filelist[s][j]))'
             /\ \A s, f, g : Together(s, f, g)' <=> Together(s, f, g)
  BY <1>1, <1>2, <1>4 DEF SameWithin, Different, Together
<1>5. ASSUME NEW s \in Size, NEW f \in Files(filelist[s]), NEW g \in Considered, Alike(f, g),
             pc # "scan"
      PROVE  g \in Files(filelist[s]) /\ f \in Considered
  <2>1. f \in Considered /\ Len(content[EntryOf(f)]) = s
    BY <1>1, <1>5 DEF TrueInv
  <2>2. Len(content[EntryOf(g)]) = s
    BY <1>5, <2>1 DEF Alike, SameContent
  <2>3. g <= scanned
    <3>1. g \in 1..Len(Found) /\ scanned = Len(Found)
      BY <1>5 DEF ListInv, Considered, File
    <3>. QED
      BY <3>1
  <2>. QED
    BY <1>1, <2>1, <2>2, <2>3 DEF TrueInv
<1>6. CASE ScanFile \/ StartMatching
  <2>1. \A s \in Size : next_filelist[s] = <<>>
    BY <1>1, <1>6 DEF ListInv, ScanFile, StartMatching
  <2>2. /\ next_filelist' = next_filelist /\ ~Comparing'
        /\ pc' = "scan" \/ sizes' = Size
    BY <1>6 DEF ScanFile, StartMatching, Comparing
  <2>3. ~(pc' \in {"full", "bytes"})
    BY <2>2 DEF Comparing
  <2>. QED
    BY <1>4, <2>1, <2>2, <2>3 DEF ClassInv
<1>7. CASE TakeSize
  <2>1. PICK s \in sizes :
           /\ sizes' = sizes \ {s}
           /\ IF Len(filelist[s]) <= 1
              THEN UNCHANGED <<pc, cursize, queue>>
              ELSE pc' = "head" /\ cursize' = s /\ queue' = filelist[s]
    BY <1>7 DEF TakeSize
  <2>2. UNCHANGED <<filelist, next_filelist, leaked>> /\ pc = "size" /\ ~AtWork /\ s \in Size
    BY <1>7 DEF TakeSize, AtWork, Comparing, ShapeInv, TypeOK
  <2>3. ~Comparing' /\ ~(pc' \in {"full", "bytes"})
    BY <2>1, <2>2 DEF Comparing
  <2>4. ASSUME NEW f \in Files(filelist[s]), NEW g \in Considered, Alike(f, g),
               ~(AtWork' /\ s = cursize' /\ f \in Live')
        PROVE  f = g
    <3>1. Len(filelist[s]) <= 1
      <4>. SUFFICES ASSUME ~(Len(filelist[s]) <= 1) PROVE FALSE
        OBVIOUS
      <4>1. pc' = "head" /\ cursize' = s /\ queue' = filelist[s]
        BY <2>1
      <4>. QED
        BY <2>4, <4>1 DEF AtWork, Live
    <3>2. filelist[s] \in Seq(Seq(Nat) \ {<<>>}) /\ Ranked(filelist[s])
      BY <1>1, <2>2, GroupTypes DEF ListInv
    <3>3. g \in Files(filelist[s])
      BY <1>5, <2>2, <2>4
    <3>4. \A i, j \in DOMAIN filelist[s] : i = j
      BY <3>1, <3>2
    <3>. QED
      BY <2>4, <3>2, <3>3, <3>4, Ranks
  <2>5. (\A t \in Size : t \notin sizes =>
             \A f \in Files(filelist[t]) : \A g \in Considered :
                 Alike(f, g) /\ ~(AtWork /\ t = cursize /\ f \in Live)
                     => f = g \/ Together(t, f, g))'
    <3>1. \A t \in Size : t \notin sizes' => t = s \/ t \notin sizes
      BY <2>1
    <3>. QED
      BY <1>1, <1>2, <1>3, <1>4, <2>2, <2>4, <3>1
  <2>. QED
    BY <1>4, <2>2, <2>3, <2>5 DEF ClassInv
<1>8. CASE TakeHead
  <2>1. /\ Live' = Live /\ Comparing' /\ AtWork' /\ AtWork
        /\ UNCHANGED <<filelist, next_filelist, leaked, sizes, cursize>>
        /\ next_queue' = <<>> /\ pc' = "compare" /\ pc = "head"
    BY <1>8, HeadTaken DEF TakeHead
  <2>2. PICK q \in Nat : cur_group' = <<q>> /\ ToSet(cur_group') = {q}
    BY <1>8, HeadTaken
  <2>3. (/\ SameWithin(cur_group)
         /\ \A f \in ToSet(cur_group), g \in Files(next_queue) : ~Alike(f, g)
         /\ Len(cur_group) > 1 =>
                \A i \in DOMAIN next_filelist[cursize] :
                    Different(next_filelist[cursize][i], cur_group))'
    <3>1. SameContent(q, q)'
      BY <1>1, SameFacts
    <3>2. SameWithin(cur_group)'
      BY <2>2, <3>1 DEF SameWithin
    <3>3. Len(cur_group') = 1 /\ Files(next_queue') = {}
      BY <2>1, <2>2, Empty
    <3>. QED
      BY <3>2, <3>3
  <2>4. (\A s \in Size : s \notin sizes =>
             \A f \in Files(filelist[s]) : \A g \in Considered :
                 Alike(f, g) /\ ~(AtWork /\ s = cursize /\ f \in Live)
                     => f = g \/ Together(s, f, g))'
    BY <1>1, <1>2, <1>3, <1>4, <2>1
  <2>. QED
    BY <1>4, <2>1, <2>3, <2>4 DEF ClassInv
<1>9. CASE SizeDone
  <2>1. /\ UNCHANGED <<filelist, next_filelist, leaked, sizes, cursize>>
        /\ pc = "head" /\ pc' = "size" /\ ~AtWork' /\ ~Comparing' /\ queue = <<>>
    BY <1>9 DEF SizeDone, matchVars, AtWork, Comparing
  <2>2. Live = {}
    BY <2>1, Empty DEF Live
  <2>3. (\A s \in Size : s \notin sizes =>
             \A f \in Files(filelist[s]) : \A g \in Considered :
                 Alike(f, g) /\ ~(AtWork /\ s = cursize /\ f \in Live)
                     => f = g \/ Together(s, f, g))'
    BY <1>1, <1>2, <1>3, <1>4, <2>1, <2>2
  <2>. QED
    BY <1>4, <2>1, <2>3 DEF ClassInv
<1>10. CASE ComparePartial \/ CompareFull \/ CompareBytes
  BY <1>1, <1>10, ClassCompare
<1>11. CASE UNCHANGED vars
  <2>1. UNCHANGED <<pc, sizes, filelist, next_filelist, leaked, cursize, cur_group, next_queue,
                    queue, b>>
    BY <1>11 DEF vars, matchVars
  <2>2. UNCHANGED <<Comparing, AtWork, Live>>
    BY <2>1 DEF Comparing, AtWork, Live, Rest
  <2>3. (\A s \in Size : pc # "scan" /\ s \notin sizes =>
             \A f \in Files(filelist[s]) : \A g \in Considered :
                 Alike(f, g) /\ ~(AtWork /\ s = cursize /\ f \in Live)
                     => f = g \/ Together(s, f, g))'
    BY <1>1, <1>2, <1>3, <1>4, <2>1, <2>2
  <2>4. (Comparing =>
            /\ SameWithin(cur_group)
            /\ \A f \in ToSet(cur_group), g \in Files(next_queue) : ~Alike(f, g)
            /\ Len(cur_group) > 1 =>
                   \A i \in DOMAIN next_filelist[cursize] :
                       Different(next_filelist[cursize][i], cur_group))'
    BY <1>1, <1>3, <2>1, <2>2 DEF ClassInv, SameWithin, Different
  <2>5. (pc \in {"full", "bytes"} => content[EntryOf(FileA)] # <<>>)'
    BY <1>1, <2>1 DEF ClassInv, FileA
  <2>. QED
    BY <1>4, <2>1, <2>3, <2>4, <2>5 DEF ClassInv
<1>12. CASE GroupDone
  <2>1. /\ pc = "compare" /\ b > Len(queue) /\ pc' = "head" /\ queue' = next_queue
        /\ next_filelist' = IF Len(cur_group) > 1
                            THEN [next_filelist EXCEPT ![cursize] = Append(@, cur_group)]
                            ELSE next_filelist
        /\ UNCHANGED <<filelist, cursize, sizes, leaked>>
    BY <1>12 DEF GroupDone
  <2>2. Comparing /\ AtWork /\ AtWork' /\ ~Comparing' /\ cursize \in Size /\ cursize \notin sizes
    BY <2>1 DEF Comparing, AtWork, ShapeInv
  <2>3. Live = ToSet(cur_group) \cup Files(next_queue) /\ Live' = Files(next_queue)
    <3>1. Rest = {}
      <4>1. \A k \in DOMAIN queue : ~(b <= k)
        BY <2>1, GroupTypes DEF ShapeInv, TypeOK
      <4>. QED
        BY <4>1 DEF Rest
    <3>. QED
      BY <2>1, <3>1 DEF Live
  <2>4. /\ SameWithin(cur_group)
        /\ \A f \in ToSet(cur_group), g \in Files(next_queue) : ~Alike(f, g)
        /\ Len(cur_group) > 1 =>
               \A i \in DOMAIN next_filelist[cursize] :
                   Different(next_filelist[cursize][i], cur_group)
    BY <1>1, <2>2 DEF ClassInv
  <2>5. ASSUME NEW f \in Files(filelist[cursize]), NEW g \in Considered, Alike(f, g),
               f \notin Live', f # g
        PROVE  Together(cursize, f, g) \/ {f, g} \subseteq ToSet(cur_group)
    <3>1. g \in Files(filelist[cursize]) /\ f \in Considered
      BY <1>5, <2>1, <2>2, <2>5
    <3>2. CASE f \notin Live
      BY <1>2, <2>1, <2>2, <2>5, <3>2
    <3>3. CASE f \in ToSet(cur_group)
      <4>1. g \in Live
        BY <1>1, <2>2, <2>3, <2>5, <3>1, <3>3, Unsettled
      <4>. QED
        BY <2>3, <2>4, <2>5, <3>3, <4>1
    <3>. QED
      BY <2>3, <2>5, <3>2, <3>3
  <2>6. CASE Len(cur_group) > 1
    <3>1. next_filelist \in [Size -> Seq(Seq(File) \ {<<>>})]
      BY DEF ShapeInv
    <3>2. /\ next_filelist'[cursize] = Append(next_filelist[cursize], cur_group)
          /\ \A s \in Size : s # cursize => next_filelist'[s] = next_filelist[s]
      BY <2>1, <2>2, <2>6, <3>1
    <3>3. PICK gs, hs, n : gs = next_filelist[cursize] /\ n = Len(gs) /\ hs = next_filelist'[cursize]
      OBVIOUS
    <3>4. gs \in Seq(Seq(Nat)) /\ cur_group \in Seq(Nat) /\ n \in Nat
      BY <2>2, <3>3, GroupTypes
    <3>5. /\ DOMAIN hs = 1..(n + 1) /\ DOMAIN gs = 1..n /\ hs[n + 1] = cur_group
          /\ \A i \in 1..n : hs[i] = gs[i]
      BY <3>2, <3>3, <3>4
    <3>6. /\ \A i \in DOMAIN hs : i \in DOMAIN gs \/ i = n + 1
          /\ \A i \in DOMAIN gs : i \in DOMAIN hs
          /\ n + 1 \in DOMAIN hs
      <4>. SUFFICES ASSUME NEW i PROVE (i \in 1..(n + 1) => i \in 1..n \/ i = n + 1)
                                       /\ (i \in 1..n => i \in 1..(n + 1)) /\ n + 1 \in 1..(n + 1)
        BY <3>5
      <4>. QED
        BY ONLY <3>4
    <3>7. /\ \A i \in DOMAIN hs : SameWithin(hs[i])
          /\ \A i, j \in DOMAIN hs : i # j => Different(hs[i], hs[j])
      <4>1. /\ \A i \in DOMAIN gs : SameWithin(gs[i])
            /\ \A i, j \in DOMAIN gs : i # j => Different(gs[i], gs[j])
            /\ \A i \in DOMAIN gs : Different(gs[i], cur_group)
        BY <1>2, <2>2, <2>4, <2>6, <3>3
      <4>2. \A i \in DOMAIN gs : Different(cur_group, gs[i])
        BY <4>1, SameFacts DEF Different
      <4>. QED
        BY <2>4, <3>5, <3>6, <4>1, <4>2
    <3>8. (\A s \in Size :
              /\ \A i \in DOMAIN next_filelist[s] : SameWithin(next_filelist[s][i])
              /\ \A i, j \in DOMAIN next_filelist[s] :
                     i # j => Different(next_filelist[s][i], next_filelist[s][j]))'
      <4>1. \A group, other : /\ SameWithin(group) => SameWithin(group)'
                              /\ Different(group, other) => Different(group, other)'
        BY <1>1, <1>2 DEF SameWithin, Different
      <4>2. ASSUME NEW s \in Size
            PROVE  /\ \A i \in DOMAIN next_filelist'[s] : SameWithin(next_filelist'[s][i])
                   /\ \A i, j \in DOMAIN next_filelist'[s] :
                          i # j => Different(next_filelist'[s][i], next_filelist'[s][j])
        BY <1>2, <3>2, <3>3, <3>7
      <4>. QED
        BY <4>1, <4>2 DEF SameWithin, Different
    <3>9. ASSUME NEW s \in Size, NEW f, NEW g, Together(s, f, g) PROVE Together(s, f, g)'
      <4>1. PICK i \in DOMAIN next_filelist[s] : {f, g} \subseteq ToSet(next_filelist[s][i])
        BY <3>9 DEF Together
      <4>2. i \in DOMAIN next_filelist'[s] /\ next_filelist'[s][i] = next_filelist[s][i]
        BY <3>2, <3>3, <3>5, <3>6, <4>1
      <4>. QED
        BY <4>1, <4>2 DEF Together
    <3>10. ASSUME NEW s, s = cursize, NEW f, NEW g, {f, g} \subseteq ToSet(cur_group)
           PROVE  Together(s, f, g)'
      BY <3>3, <3>5, <3>6, <3>10 DEF Together
    <3>11. (\A s \in Size : s \notin sizes =>
               \A f \in Files(filelist[s]) : \A g \in Considered :
                   Alike(f, g) /\ ~(AtWork /\ s = cursize /\ f \in Live)
                       => f = g \/ Together(s, f, g))'
      <4>. SUFFICES ASSUME NEW s \in Size, s \notin sizes, NEW f \in Files(filelist[s]),
                           NEW g \in Considered, Alike(f, g), ~(s = cursize /\ f \in Live'), f # g
                    PROVE  Together(s, f, g)'
        BY <1>1, <1>3, <2>1, <2>2
      <4>1. CASE s = cursize
        <5>1. Together(s, f, g) \/ {f, g} \subseteq ToSet(cur_group)
          BY <2>5, <4>1
        <5>. QED
          BY <3>9, <3>10, <4>1, <5>1
      <4>2. CASE s # cursize
        BY <1>2, <2>1, <3>9, <4>2
      <4>. QED
        BY <4>1, <4>2
    <3>. QED
      BY <2>1, <2>2, <3>8, <3>11 DEF ClassInv
  <2>7. CASE ~(Len(cur_group) > 1)
    <3>1. next_filelist' = next_filelist
      BY <2>1, <2>7
    <3>2. \A f, g \in ToSet(cur_group) : f = g
      <4>1. \A i, j \in DOMAIN cur_group : i = j
        BY <2>7, GroupTypes
      <4>. QED
        BY <4>1 DEF ToSet
    <3>3. (\A s \in Size : s \notin sizes =>
              \A f \in Files(filelist[s]) : \A g \in Considered :
                  Alike(f, g) /\ ~(AtWork /\ s = cursize /\ f \in Live)
                      => f = g \/ Together(s, f, g))'
      <4>. SUFFICES ASSUME NEW s \in Size, s \notin sizes, NEW f \in Files(filelist[s]),
                           NEW g \in Considered, Alike(f, g), ~(s = cursize /\ f \in Live'), f # g
                    PROVE  Together(s, f, g)
        BY <1>1, <1>3, <1>4, <2>1, <2>2, <3>1
      <4>1. CASE s = cursize
        BY <2>5, <3>2, <4>1
      <4>2. CASE s # cursize
        BY <1>2, <2>1, <4>2
      <4>. QED
        BY <4>1, <4>2
    <3>. QED
      BY <1>4, <2>1, <2>2, <3>1, <3>3 DEF ClassInv
  <2>. QED
    BY <2>6, <2>7
<1>13. ~(MatchingDone \/ Finishing \/ User \/ OtherWrites)
  <2>1. ~MatchingDone
    BY DEF MatchingDone, Searching, AtWork, Comparing
  <2>2. ~Finishing
    BY <1>1 DEF Finishing, TakeSets, PrintSet, SkipSet, TakeSet, RemoveFile, SetDone, AllSetsDone,
                Searching, AtWork, Comparing
  <2>3. ~User
    BY <1>1 DEF User, Answer, QuitAnswer, Searching, AtWork, Comparing
  <2>4. ~OtherWrites
    BY <1>1 DEF OtherWrites
  <2>. QED
    BY <2>1, <2>2, <2>3, <2>4
<1>. QED
  BY <1>6, <1>7, <1>8, <1>9, <1>10, <1>11, <1>12, <1>13 DEF Next, Program, Matching

LEMMA Sorted == Spec => [](ShapeInv /\ ListInv /\ WorkInv /\ DoneInv /\ TrueInv /\ ClassInv)
BY Truths, ClassInit, ClassStep, PTL DEF Spec
----------------------------------------------------------------------------
(* A completed group lies in the class of each of its files, and is all of *)
(* it if byte_match() can open the files.                                  *)
ClassOf(f) == {g \in Considered : SameContent(f, g)}
LEMMA GroupIsClass ==
    ASSUME ShapeInv, ListInv, DoneInv, TrueInv, ClassInv,
           pc = "size", sizes = {}, writes = 0,
           NEW s \in Size, NEW i \in DOMAIN next_filelist[s], NEW f \in ToSet(next_filelist[s][i])
    PROVE  /\ f \in Considered /\ f \in Files(filelist[s])
           /\ ToSet(next_filelist[s][i]) \subseteq ClassOf(f)
           /\ CanOpen(2) => ToSet(next_filelist[s][i]) = ClassOf(f)
<1>1. Searching /\ ~AtWork
  BY DEF Searching, AtWork, Comparing
<1>2. \A g \in ToSet(next_filelist[s][i]) : g \in Files(filelist[s]) /\ g \in Considered
  <2>1. \A g \in ToSet(next_filelist[s][i]) : g \in Files(next_filelist[s])
    BY DEF Files
  <2>. QED
    BY <1>1, <2>1 DEF DoneInv, TrueInv
<1>3. ToSet(next_filelist[s][i]) \subseteq ClassOf(f)
  BY <1>1, <1>2 DEF ClassInv, SameWithin, ClassOf
<1>4. ASSUME CanOpen(2), NEW g \in ClassOf(f) PROVE g \in ToSet(next_filelist[s][i])
  <2>1. Alike(f, g) /\ g \in Considered
    BY <1>4 DEF Alike, ClassOf
  <2>2. f = g \/ Together(s, f, g)
    BY <1>1, <1>2, <2>1 DEF ClassInv
  <2>3. CASE Together(s, f, g)
    <3>1. PICK j \in DOMAIN next_filelist[s] : {f, g} \subseteq ToSet(next_filelist[s][j])
      BY <2>3 DEF Together
    <3>2. i = j
      BY <3>1 DEF DoneInv, Disjoint
    <3>. QED
      BY <3>1, <3>2
  <2>. QED
    BY <2>2, <2>3
<1>. QED
  BY <1>2, <1>3, <1>4

(* MatchesExact holds (build_matches(), lines 510-553, with groups_match()):*)
(* what is matched is the same, whatever the checksum and however short of *)
(* descriptors; with descriptors left, every class of equal files is       *)
(* matched, whole and once.  Of the checksums it takes only that a cached  *)
(* one is the one of what the file has, so that equal files cannot differ  *)
(* in it.                                                                  *)
THEOREM DuplicatesAreFound == Spec => []MatchesExact
<1>. SUFFICES ShapeInv /\ ListInv /\ WorkInv /\ DoneInv /\ TrueInv /\ ClassInv => MatchesExact
  BY Sorted, PTL
<1>. SUFFICES ASSUME ShapeInv, ListInv, DoneInv, TrueInv, ClassInv,
                     pc = "size", sizes = {}, writes = 0
              PROVE  /\ \A g \in Matches : \E c \in Classes : ToSet(g) \subseteq c
                     /\ CanOpen(2) =>
                            {ToSet(g) : g \in Matches} = {c \in Classes : Cardinality(c) > 1}
                     /\ \A s \in Size : IsInjective([i \in DOMAIN next_filelist[s] |->
                                                        ToSet(next_filelist[s][i])])
  BY DEF MatchesExact, ShapeInv
<1>1. /\ Classes = {ClassOf(f) : f \in Considered}
      /\ \A f \in Considered : f \in File /\ IsFiniteSet(ClassOf(f)) /\ f \in ClassOf(f)
  <2>1. IsFiniteSet(File)
    BY ScenarioFacts, FS_Interval DEF ShapeInv, TypeOK, File
  <2>2. \A f : ClassOf(f) \subseteq File
    BY DEF ClassOf, Considered
  <2>3. \A f : IsFiniteSet(ClassOf(f))
    BY <2>1, <2>2, FS_Subset
  <2>. QED
    BY <2>3, SameFacts DEF Classes, ClassOf, Considered
<1>2. \A g \in Matches : \E s \in Size : \E i \in DOMAIN next_filelist[s] : g = next_filelist[s][i]
  BY DEF Matches, ToSet
<1>3. ASSUME NEW s \in Size, NEW i \in DOMAIN next_filelist[s]
      PROVE  \E f, g \in ToSet(next_filelist[s][i]) : f # g
  <2>1. PICK h : h = next_filelist[s][i]
    OBVIOUS
  <2>2. h \in Seq(Nat) /\ Len(h) > 1 /\ Increasing(h)
    BY <2>1, GroupTypes DEF DoneInv
  <2>3. 1 \in DOMAIN h /\ 2 \in DOMAIN h /\ h[1] \in Nat /\ h[2] \in Nat
    BY <2>2
  <2>4. h[1] < h[2]
    BY <2>2, <2>3 DEF Increasing
  <2>. QED
    BY <2>1, <2>3, <2>4 DEF ToSet
<1>4. ASSUME NEW g \in Matches PROVE \E c \in Classes : ToSet(g) \subseteq c
  <2>1. PICK s \in Size : \E i \in DOMAIN next_filelist[s] : g = next_filelist[s][i]
    BY <1>2
  <2>0. PICK i \in DOMAIN next_filelist[s] : g = next_filelist[s][i]
    BY <2>1
  <2>2. PICK f \in ToSet(next_filelist[s][i]) : TRUE
    BY <1>3
  <2>3. f \in Considered /\ ToSet(next_filelist[s][i]) \subseteq ClassOf(f)
    BY <1>1, GroupIsClass
  <2>. QED
    BY <1>1, <2>0, <2>3
<1>5. ASSUME CanOpen(2), NEW g \in Matches
      PROVE  ToSet(g) \in Classes /\ Cardinality(ToSet(g)) > 1
  <2>1. PICK s \in Size : \E i \in DOMAIN next_filelist[s] : g = next_filelist[s][i]
    BY <1>2
  <2>0. PICK i \in DOMAIN next_filelist[s] : g = next_filelist[s][i]
    BY <2>1
  <2>2. PICK f \in ToSet(g), h \in ToSet(g) : f # h
    BY <1>3, <2>0
  <2>3. ToSet(g) = ClassOf(f) /\ f \in Considered
    BY <1>5, <2>0, GroupIsClass
  <2>4. Cardinality({f, h}) = 2
    <3>1. IsFiniteSet({f}) /\ Cardinality({f}) = 1
      BY FS_Singleton
    <3>2. Cardinality({f} \cup {h}) = 2
      <4>1. Cardinality({f} \cup {h}) = IF h \in {f} THEN Cardinality({f}) ELSE Cardinality({f}) + 1
        BY <3>1, FS_AddElement
      <4>. QED
        BY <2>2, <3>1, <4>1
    <3>3. {f, h} = {f} \cup {h}
      OBVIOUS
    <3>. QED
      BY <3>2, <3>3
  <2>5. Cardinality({f, h}) <= Cardinality(ToSet(g)) /\ Cardinality(ToSet(g)) \in Nat
    BY <1>1, <2>3, FS_Subset, FS_CardinalityType
  <2>. QED
    BY <1>1, <2>3, <2>4, <2>5
<1>6. ASSUME CanOpen(2), NEW c \in Classes, Cardinality(c) > 1
      PROVE  \E g \in Matches : ToSet(g) = c
  <2>1. PICK f \in Considered : c = ClassOf(f)
    BY <1>1
  <2>2. PICK h \in c : h # f
    <3>. SUFFICES ASSUME \A h \in c : h = f PROVE FALSE
      OBVIOUS
    <3>1. c = {f}
      BY <1>1, <2>1
    <3>2. Cardinality(c) = 1
      BY <3>1, FS_Singleton
    <3>. QED
      BY <1>6, <3>2
  <2>3. PICK s : s = Len(content[EntryOf(f)])
    OBVIOUS
  <2>4. f \in Files(filelist[s]) /\ s \in Size
    <3>1. f \in 1..Len(Found) /\ scanned = Len(Found) /\ Searching
      BY DEF ListInv, Considered, File, Searching
    <3>2. f <= scanned
      BY <3>1
    <3>3. content[EntryOf(f)] \in Content
      BY ScenarioFacts DEF Considered, Exists, ShapeInv, TypeOK
    <3>. QED
      BY <2>3, <3>1, <3>2, <3>3, SizeFacts DEF TrueInv
  <2>5. Alike(f, h) /\ h \in Considered
    BY <1>6, <2>1, <2>2 DEF Alike, ClassOf
  <2>6. Together(s, f, h)
    BY <2>2, <2>4, <2>5 DEF ClassInv, Searching, AtWork, Comparing
  <2>7. PICK i \in DOMAIN next_filelist[s] : f \in ToSet(next_filelist[s][i])
    BY <2>6 DEF Together
  <2>8. ToSet(next_filelist[s][i]) = c
    BY <1>6, <2>1, <2>4, <2>7, GroupIsClass
  <2>9. next_filelist[s][i] \in Matches
    BY <2>4, <2>7 DEF Matches, ToSet
  <2>. QED
    BY <2>8, <2>9
<1>7. ASSUME NEW s \in Size
      PROVE  IsInjective([i \in DOMAIN next_filelist[s] |-> ToSet(next_filelist[s][i])])
  <2>. SUFFICES ASSUME NEW i \in DOMAIN next_filelist[s], NEW j \in DOMAIN next_filelist[s],
                       ToSet(next_filelist[s][i]) = ToSet(next_filelist[s][j]), i # j
                PROVE  FALSE
    BY DEF IsInjective
  <2>1. ToSet(next_filelist[s][i]) \cap ToSet(next_filelist[s][j]) = {}
    BY DEF DoneInv, Disjoint
  <2>. QED
    BY <1>3, <2>1
<1>8. CanOpen(2) => {ToSet(g) : g \in Matches} = {c \in Classes : Cardinality(c) > 1}
  <2>. SUFFICES ASSUME CanOpen(2)
                PROVE  {ToSet(g) : g \in Matches} = {c \in Classes : Cardinality(c) > 1}
    OBVIOUS
  <2>1. \A c \in {ToSet(g) : g \in Matches} : c \in Classes /\ Cardinality(c) > 1
    BY <1>5
  <2>2. \A c \in Classes : Cardinality(c) > 1 => c \in {ToSet(g) : g \in Matches}
    BY <1>6
  <2>. QED
    BY <2>1, <2>2
<1>. QED
  BY <1>4, <1>7, <1>8
----------------------------------------------------------------------------
(* One group after the other.                                              *)
LEMMA SetsMove ==
    ASSUME ShapeInv, [Next]_vars, ~Searching
    PROVE  /\ UNCHANGED <<filelist, next_filelist>> /\ ~Searching'
           /\ pc = "print" => pc' \in {"print", "done"}
           /\ pc' = "print" => pc = "print"
           /\ \/ UNCHANGED <<sets, cursize, sizes>>
              \/ TakeSets
              \/ /\ sets # <<>> /\ sets' = Tail(sets) /\ UNCHANGED <<cursize, sizes>>
                 /\ pc' \in {"set", "print"}
<1>1. CASE Finishing
  <2>1. CASE TakeSets
    BY <2>1 DEF TakeSets, Searching, AtWork, Comparing
  <2>2. CASE PrintSet \/ SkipSet \/ SetDone
    BY <2>2 DEF PrintSet, SkipSet, SetDone, Searching, AtWork, Comparing, matchVars, ShapeInv
  <2>3. CASE TakeSet \/ RemoveFile \/ AllSetsDone
    BY <2>3 DEF TakeSet, RemoveFile, AllSetsDone, Searching, AtWork, Comparing, matchVars,
                deleteVars
  <2>. QED
    BY <1>1, <2>1, <2>2, <2>3 DEF Finishing
<1>2. CASE User
  BY <1>2 DEF User, Answer, QuitAnswer, Searching, AtWork, Comparing, matchVars, deleteVars
<1>3. CASE OtherWrites \/ UNCHANGED vars
  BY <1>3 DEF OtherWrites, vars, Searching, AtWork, Comparing, matchVars, deleteVars
<1>4. ~(ScanFile \/ StartMatching \/ Matching)
  BY DEF ScanFile, StartMatching, Matching, TakeSize, TakeHead, SizeDone, ComparePartial,
         CompareFull, CompareBytes, GroupDone, MatchingDone, Searching, AtWork, Comparing
<1>. QED
  BY <1>1, <1>2, <1>3, <1>4 DEF Next, Program

LEMMA SetsInit == Init => SetsInv
BY DEF Init, SetsInv

LEMMA SetsStep == ShapeInv /\ SetsInv /\ [Next]_vars => SetsInv'
<1>. SUFFICES ASSUME ShapeInv, SetsInv, [Next]_vars PROVE SetsInv'
  OBVIOUS
<1>0. scenario' = scenario
  BY WhoWrites
<1>1. CASE Searching
  <2>1. sets = <<>>
    BY <1>1 DEF SetsInv
  <2>2. UNCHANGED sets /\ (pc' = "print" => ~scenario.delete)
    <3>1. CASE ScanFile \/ StartMatching \/ OtherWrites \/ UNCHANGED vars
      BY <1>1, <3>1 DEF ScanFile, StartMatching, OtherWrites, vars, deleteVars, Searching, AtWork,
                        Comparing
    <3>2. CASE Matching
      BY <3>2 DEF Matching, TakeSize, TakeHead, SizeDone, ComparePartial, CompareFull,
                  CompareBytes, GroupDone, MatchingDone, NextB, deleteVars
    <3>3. ~Finishing
      BY <1>1 DEF Finishing, TakeSets, PrintSet, SkipSet, TakeSet, RemoveFile, SetDone,
                  AllSetsDone, Searching, AtWork, Comparing
    <3>4. ~User
      BY <1>1 DEF User, Answer, QuitAnswer, Searching, AtWork, Comparing
    <3>. QED
      BY <3>1, <3>2, <3>3, <3>4 DEF Next, Program
  <2>. QED
    BY <1>0, <2>1, <2>2 DEF SetsInv
<1>2. CASE ~Searching
  <2>1. UNCHANGED <<filelist, next_filelist>> /\ ~Searching'
        /\ (pc' = "print" => pc = "print")
    BY <1>2, SetsMove
  <2>2. \/ UNCHANGED <<sets, cursize, sizes>>
        \/ TakeSets
        \/ sets # <<>> /\ sets' = Tail(sets) /\ UNCHANGED <<cursize, sizes>>
    BY <1>2, SetsMove
  <2>3. CASE UNCHANGED <<sets, cursize, sizes>>
    BY <1>0, <2>1, <2>3 DEF SetsInv
  <2>4. CASE TakeSets
    <3>1. PICK s \in sizes : sizes' = sizes \ {s} /\ cursize' = s /\ sets' = filelist[s]
      BY <2>4 DEF TakeSets
    <3>2. s \in Size /\ sizes \subseteq Size
      BY DEF ShapeInv, TypeOK
    <3>3. PICK gs, n : gs = filelist[s] /\ n = Len(gs)
      OBVIOUS
    <3>4. n \in Nat /\ DOMAIN gs \subseteq Nat
      <4>1. gs \in Seq(Seq(File) \ {<<>>})
        BY <3>2, <3>3, GroupTypes
      <4>. QED
        BY <3>3, <4>1
    <3>5. n <= n /\ \A i \in DOMAIN gs : gs[i] = gs[n - n + i]
      <4>1. \A i \in Nat : n - n + i = i
        BY <3>4
      <4>. QED
        BY <3>4, <4>1
    <3>. QED
      BY <1>0, <2>1, <3>1, <3>2, <3>3, <3>5 DEF SetsInv
  <2>5. CASE sets # <<>> /\ sets' = Tail(sets) /\ UNCHANGED <<cursize, sizes>>
    <3>1. /\ cursize \in Size \ sizes /\ Len(sets) <= Len(filelist[cursize])
          /\ \A i \in DOMAIN sets :
                 sets[i] = filelist[cursize][Len(filelist[cursize]) - Len(sets) + i]
      BY <2>5 DEF SetsInv
    <3>2. PICK gs, hs, m, n : gs = filelist[cursize] /\ n = Len(gs) /\ hs = sets /\ m = Len(sets)
      OBVIOUS
    <3>3. n \in Nat /\ m \in Nat /\ m >= 1 /\ hs \in Seq(Seq(File) \ {<<>>})
      BY <2>5, <3>1, <3>2, GroupTypes
    <3>4. PICK ts : ts = Tail(hs)
      OBVIOUS
    <3>5. Len(ts) = m - 1 /\ DOMAIN ts = 1..(m - 1) /\ DOMAIN hs = 1..m
          /\ \A i \in 1..(m - 1) : ts[i] = hs[i + 1]
      BY <2>5, <3>2, <3>3, <3>4
    <3>6. \A i \in 1..(m - 1) : i + 1 \in 1..m /\ n - m + (i + 1) = n - (m - 1) + i
      BY ONLY <3>3
    <3>7. \A i \in DOMAIN ts : ts[i] = gs[n - (m - 1) + i]
      <4>. TAKE i \in DOMAIN ts
      <4>1. i + 1 \in DOMAIN hs /\ n - m + (i + 1) = n - (m - 1) + i /\ ts[i] = hs[i + 1]
        BY <3>5, <3>6
      <4>2. \A j \in DOMAIN hs : hs[j] = gs[n - m + j]
        BY <3>1, <3>2
      <4>3. hs[i + 1] = gs[n - m + (i + 1)]
        BY <4>1, <4>2
      <4>. QED
        BY <4>1, <4>3
    <3>8. m - 1 <= n
      BY <3>1, <3>2, <3>3
    <3>. QED
      BY <1>0, <2>1, <2>5, <3>1, <3>2, <3>4, <3>5, <3>7, <3>8 DEF SetsInv
  <2>. QED
    BY <2>2, <2>3, <2>4, <2>5
<1>. QED
  BY <1>1, <1>2

(* The group at hand, and those behind it.                                 *)
LEMMA AtHand ==
    ASSUME ShapeInv, DoneInv, SetsInv, sets # <<>>
    PROVE  /\ cursize \in Size \ sizes /\ ~Searching
           /\ Head(sets) = sets[1] /\ 1 \in DOMAIN sets /\ Increasing(Head(sets))
           /\ Head(sets) \in Seq(File)
           /\ \E k \in DOMAIN filelist[cursize] :
                 /\ Head(sets) = filelist[cursize][k]
                 /\ \A j \in DOMAIN sets : j > 1 =>
                        \E m \in DOMAIN filelist[cursize] : m # k /\ sets[j] = filelist[cursize][m]
<1>1. /\ cursize \in Size \ sizes /\ Len(sets) <= Len(filelist[cursize]) /\ ~Searching
      /\ \A i \in DOMAIN sets :
             sets[i] = filelist[cursize][Len(filelist[cursize]) - Len(sets) + i]
  BY DEF SetsInv
<1>2. PICK gs, hs, m, n : gs = filelist[cursize] /\ n = Len(gs) /\ hs = sets /\ m = Len(sets)
  OBVIOUS
<1>3. n \in Nat /\ m \in Nat /\ m >= 1 /\ m <= n /\ DOMAIN hs = 1..m /\ DOMAIN gs = 1..n
      /\ hs \in Seq(Seq(File) \ {<<>>})
  <2>1. gs \in Seq(Seq(File) \ {<<>>}) /\ hs \in Seq(Seq(File) \ {<<>>}) /\ hs # <<>>
    BY <1>1, <1>2, GroupTypes
  <2>2. n \in Nat /\ m \in Nat /\ m >= 1 /\ DOMAIN hs = 1..m /\ DOMAIN gs = 1..n
    BY <1>2, <2>1
  <2>. QED
    BY <1>1, <1>2, <2>1, <2>2
<1>4. 1 \in DOMAIN hs /\ Head(hs) = hs[1] /\ hs[1] \in Seq(File)
  <2>1. 1 \in DOMAIN hs
    BY <1>3
  <2>2. hs[1] \in Seq(File) \ {<<>>} /\ Head(hs) = hs[1]
    BY <1>3, <2>1
  <2>. QED
    BY <2>1, <2>2
<1>5. PICK k : k = n - m + 1
  OBVIOUS
<1>6. /\ k \in 1..n
      /\ \A j \in 1..m : j > 1 => n - m + j \in 1..n /\ n - m + j # k
  BY ONLY <1>3, <1>5
<1>7. hs[1] = gs[k] /\ \A j \in DOMAIN hs : hs[j] = gs[n - m + j]
  BY <1>1, <1>2, <1>4, <1>5
<1>8. Increasing(gs[k])
  <2>1. filelist[cursize] = next_filelist[cursize]
    BY <1>1 DEF DoneInv
  <2>. QED
    BY <1>1, <1>2, <1>3, <1>6, <2>1 DEF DoneInv
<1>9. \A j \in DOMAIN hs : j > 1 => \E l \in DOMAIN gs : l # k /\ hs[j] = gs[l]
  BY <1>3, <1>6, <1>7
<1>10. k \in DOMAIN gs /\ Head(hs) = gs[k] /\ Increasing(Head(hs)) /\ Head(hs) \in Seq(File)
  BY <1>3, <1>4, <1>6, <1>7, <1>8
<1>11. \E l \in DOMAIN gs :
          /\ Head(hs) = gs[l]
          /\ \A j \in DOMAIN hs : j > 1 => \E o \in DOMAIN gs : o # l /\ hs[j] = gs[o]
  BY <1>9, <1>10
<1>. QED
  BY <1>1, <1>2, <1>4, <1>10, <1>11
----------------------------------------------------------------------------
(* An entry in two groups would have been compared with itself: each group *)
(* has another file that it was found equal to, so it can be read.         *)
LEMMA ApartInit == Init => ApartInv
BY DEF Init, ApartInv, Searching

LEMMA ApartStep ==
    ShapeInv /\ ListInv /\ DoneInv /\ TrueInv /\ ClassInv /\ ApartInv /\ [Next]_vars => ApartInv'
<1>. SUFFICES ASSUME ShapeInv, ListInv, DoneInv, TrueInv, ClassInv, ApartInv, [Next]_vars,
                     writes' = 0, ~Searching'
              PROVE  ApartInv'
  BY DEF ApartInv
<1>1. writes = 0 /\ \A f : EntryOf(f)' = EntryOf(f)
  <2>1. writes \in Nat
    BY ScenarioFacts DEF ShapeInv, TypeOK
  <2>. QED
    BY <2>1, WhoWrites DEF EntryOf, Found
<1>2. CASE ~Searching /\ UNCHANGED filelist
  BY <1>1, <1>2 DEF ApartInv
<1>3. CASE MatchingDone
  <2>1. filelist' = next_filelist /\ Searching
    BY <1>3 DEF MatchingDone, Searching
  <2>2. ASSUME NEW s \in Size, NEW i \in DOMAIN next_filelist[s],
               NEW f \in ToSet(next_filelist[s][i])
        PROVE  /\ f \in Considered /\ Len(content[EntryOf(f)]) = s
               /\ content[EntryOf(f)] = <<>> \/ Readable(EntryOf(f))
    <3>1. f \in Considered /\ Len(content[EntryOf(f)]) = s
      <4>1. f \in Files(next_filelist[s])
        BY <2>2 DEF Files
      <4>. QED
        BY <1>1, <2>1, <4>1 DEF DoneInv, TrueInv
    <3>2. PICK h : h = next_filelist[s][i]
      OBVIOUS
    <3>3. h \in Seq(Nat) /\ Len(h) > 1 /\ Increasing(h)
      BY <3>2, GroupTypes DEF DoneInv
    <3>4. 1 \in DOMAIN h /\ 2 \in DOMAIN h /\ h[1] \in Nat /\ h[2] \in Nat
      BY <3>3
    <3>5. h[1] < h[2]
      BY <3>3, <3>4 DEF Increasing
    <3>6. \E g \in ToSet(h) : g # f
      BY <3>4, <3>5 DEF ToSet
    <3>7. \A g \in ToSet(h) : SameContent(f, g)
      BY <1>1, <2>1, <2>2, <3>2 DEF ClassInv, SameWithin
    <3>. QED
      BY <3>1, <3>6, <3>7 DEF SameContent
  <2>3. ASSUME NEW s \in Size, NEW t \in Size,
               NEW i \in DOMAIN next_filelist[s], NEW j \in DOMAIN next_filelist[t],
               NEW f \in ToSet(next_filelist[s][i]), NEW g \in ToSet(next_filelist[t][j]),
               EntryOf(f) = EntryOf(g)
        PROVE  s = t /\ i = j
    <3>1. s = t
      BY <2>2, <2>3
    <3>2. SameContent(f, g)
      BY <2>2, <2>3 DEF SameContent
    <3>3. i # j => Different(next_filelist[s][i], next_filelist[s][j])
      BY <1>1, <2>1, <3>1 DEF ClassInv
    <3>. QED
      BY <3>1, <3>2, <3>3 DEF Different
  <2>. QED
    BY <1>1, <2>1, <2>3 DEF ApartInv
<1>. QED
  BY <1>2, <1>3, AfterSearching

(* What is still to be asked about shrinks.                                *)
LEMMA LessUnasked ==
    ASSUME ShapeInv, [Next]_vars, ~Searching
    PROVE  /\ Unasked' \subseteq Unasked
           /\ sets # <<>> /\ UNCHANGED sets /\ pc # "remove" => Head(sets') \in Unasked
<1>1. /\ UNCHANGED filelist
      /\ sizes \subseteq Size
      /\ \/ UNCHANGED <<sets, cursize, sizes>>
         \/ TakeSets
         \/ /\ sets # <<>> /\ sets' = Tail(sets) /\ UNCHANGED <<cursize, sizes>>
            /\ pc' \in {"set", "print"}
  <2>1. UNCHANGED filelist /\ sizes \subseteq Size
    BY SetsMove DEF ShapeInv, TypeOK
  <2>2. \/ UNCHANGED <<sets, cursize, sizes>>
        \/ TakeSets
        \/ /\ sets # <<>> /\ sets' = Tail(sets) /\ UNCHANGED <<cursize, sizes>>
           /\ pc' \in {"set", "print"}
    BY SetsMove
  <2>. QED
    BY <2>1, <2>2
<1>2. PICK hs, m : hs = sets /\ m = Len(hs)
  OBVIOUS
<1>3. hs \in Seq(Seq(File) \ {<<>>}) /\ m \in Nat /\ DOMAIN hs = 1..m
  BY <1>2, GroupTypes
<1>4. CASE UNCHANGED <<sets, cursize, sizes>>
  <2>1. pc = "remove" => pc' \in {"remove", "set"} /\ (pc' = "set" => sets' # sets)
    <3>1. SetDone => sets' # sets
      <4>1. ASSUME SetDone PROVE sets' # sets
        <5>1. hs # <<>> /\ sets' = Tail(hs)
          BY <1>2, <4>1 DEF SetDone, ShapeInv
        <5>2. Len(Tail(hs)) = m - 1
          BY <1>2, <1>3, <5>1
        <5>. QED
          BY <1>2, <1>3, <5>1, <5>2
      <4>. QED
        BY <4>1
    <3>2. ASSUME pc = "remove", ~SetDone PROVE pc' = "remove"
      <4>1. ~(ScanFile \/ StartMatching \/ Matching)
        BY <3>2 DEF ScanFile, StartMatching, Matching, TakeSize, TakeHead, SizeDone,
               ComparePartial, CompareFull, CompareBytes, GroupDone, MatchingDone
      <4>2. CASE Finishing
        BY <3>2, <4>2 DEF Finishing, TakeSets, PrintSet, SkipSet, TakeSet, RemoveFile,
                          AllSetsDone
      <4>3. ~User
        BY <3>2 DEF User, Answer, QuitAnswer
      <4>4. CASE OtherWrites \/ UNCHANGED vars
        BY <3>2, <4>4 DEF OtherWrites, vars
      <4>. QED
        BY <4>1, <4>2, <4>3, <4>4 DEF Next, Program
    <3>3. SetDone => pc' = "set"
      BY DEF SetDone
    <3>. QED
      BY <3>1, <3>2, <3>3
  <2>2. \A i \in DOMAIN sets : (i > 1 \/ pc' # "remove") => (i > 1 \/ pc # "remove")
    BY <1>4, <2>1
  <2>3. Unasked' \subseteq Unasked
    BY <1>1, <1>4, <2>2 DEF Unasked
  <2>4. ASSUME sets # <<>>, pc # "remove" PROVE Head(sets') \in Unasked
    <3>1. 1 \in DOMAIN sets /\ Head(sets') = sets[1]
      BY <1>2, <1>3, <1>4, <2>4
    <3>. QED
      BY <2>4, <3>1 DEF Unasked
  <2>. QED
    BY <2>3, <2>4
<1>5. CASE TakeSets
  <2>1. PICK s \in sizes : sizes' = sizes \ {s} /\ sets' = filelist[s]
    BY <1>5 DEF TakeSets
  <2>2. \A i \in DOMAIN sets' : sets'[i] \in ToSet(filelist[s])
    BY <2>1 DEF ToSet
  <2>3. sets = <<>>
    BY <1>5 DEF TakeSets
  <2>. QED
    BY <1>1, <2>1, <2>2, <2>3 DEF Unasked
<1>6. CASE /\ sets # <<>> /\ sets' = Tail(sets) /\ UNCHANGED <<cursize, sizes>>
           /\ pc' \in {"set", "print"}
  <2>1. PICK ts : ts = Tail(hs)
    OBVIOUS
  <2>2. m >= 1 /\ DOMAIN ts = 1..(m - 1) /\ \A i \in 1..(m - 1) : ts[i] = hs[i + 1]
    BY <1>2, <1>3, <1>6, <2>1
  <2>3. \A i \in 1..(m - 1) : i + 1 \in 1..m /\ i + 1 > 1
    BY <1>3
  <2>4. \A i \in DOMAIN ts : \E j \in DOMAIN hs : j > 1 /\ ts[i] = hs[j]
    BY <1>3, <2>2, <2>3
  <2>5. Unasked' \subseteq Unasked
    BY <1>1, <1>2, <1>6, <2>1, <2>4 DEF Unasked
  <2>6. sets' # sets
    BY <1>2, <1>3, <1>6, <2>1, <2>2
  <2>. QED
    BY <2>5, <2>6
<1>. QED
  BY <1>1, <1>4, <1>5, <1>6

(* The file removed is in no other group.                                  *)
LEMMA OthersUntouched ==
    ASSUME ShapeInv, DoneInv, SetsInv, ApartInv, writes = 0, RemoveFile,
           NEW s \in Size, NEW i \in DOMAIN filelist[s], filelist[s][i] # Head(sets),
           NEW f \in ToSet(filelist[s][i])
    PROVE  EntryOf(f) # EntryOf(names[x])
<1>1. sets # <<>> /\ names[x] \in ToSet(Head(sets))
  BY Removable
<1>2. /\ ~Searching /\ cursize \in Size
      /\ \E k \in DOMAIN filelist[cursize] : Head(sets) = filelist[cursize][k]
  BY <1>1, AtHand
<1>3. PICK k \in DOMAIN filelist[cursize] : Head(sets) = filelist[cursize][k]
  BY <1>2
<1>4. EntryOf(f) = EntryOf(names[x]) => s = cursize /\ i = k
  BY <1>1, <1>2, <1>3 DEF ApartInv
<1>. QED
  BY <1>3, <1>4

LEMMA UnaskedFiles ==
    ASSUME ShapeInv
    PROVE  \A g \in Unasked : ToSet(g) \subseteq File
<1>1. sets \in Seq(Seq(File) \ {<<>>}) /\ sizes \subseteq Size
      /\ \A s \in Size : filelist[s] \in Seq(Seq(File) \ {<<>>})
  BY GroupTypes DEF ShapeInv, TypeOK
<1>2. \A gs \in Seq(Seq(File) \ {<<>>}) : \A i \in DOMAIN gs : gs[i] \in Seq(File)
  OBVIOUS
<1>3. \A g \in Unasked : g \in Seq(File)
  BY <1>1, <1>2 DEF Unasked, ToSet
<1>. QED
  BY <1>3, Wider

LEMMA UnaskedIsOther ==
    ASSUME ShapeInv, DoneInv, SetsInv, ApartInv, writes = 0, RemoveFile, NEW g \in Unasked
    PROVE  \A f \in ToSet(g) : EntryOf(f) # EntryOf(names[x])
<1>1. sets # <<>> /\ names[x] \in ToSet(Head(sets)) /\ pc = "remove"
  BY Removable DEF RemoveFile
<1>2. /\ ~Searching /\ cursize \in Size \ sizes
      /\ \E k \in DOMAIN filelist[cursize] :
            /\ Head(sets) = filelist[cursize][k]
            /\ \A j \in DOMAIN sets : j > 1 =>
                   \E m \in DOMAIN filelist[cursize] : m # k /\ sets[j] = filelist[cursize][m]
  BY <1>1, AtHand
<1>3. PICK k \in DOMAIN filelist[cursize] :
            /\ Head(sets) = filelist[cursize][k]
            /\ \A j \in DOMAIN sets : j > 1 =>
                   \E m \in DOMAIN filelist[cursize] : m # k /\ sets[j] = filelist[cursize][m]
  BY <1>2
<1>4. \E s \in Size : \E i \in DOMAIN filelist[s] : g = filelist[s][i] /\ ~(s = cursize /\ i = k)
  <2>1. CASE \E j \in DOMAIN sets : j > 1 /\ g = sets[j]
    BY <1>2, <1>3, <2>1
  <2>2. CASE \E s \in sizes : g \in ToSet(filelist[s])
    <3>1. PICK s \in sizes : g \in ToSet(filelist[s])
      BY <2>2
    <3>2. s \in Size /\ s # cursize
      BY <1>2 DEF ShapeInv, TypeOK
    <3>. QED
      BY <3>1, <3>2 DEF ToSet
  <2>. QED
    BY <1>1, <2>1, <2>2 DEF Unasked
<1>5. PICK s \in Size : \E i \in DOMAIN filelist[s] : g = filelist[s][i] /\ ~(s = cursize /\ i = k)
  BY <1>4
<1>6. PICK i \in DOMAIN filelist[s] : g = filelist[s][i] /\ ~(s = cursize /\ i = k)
  BY <1>5
<1>. QED
  BY <1>1, <1>2, <1>3, <1>6 DEF ApartInv

LEMMA KeptInit == Init => KeptInv
BY DEF Init, KeptInv, Deletion

LEMMA KeptStep ==
    ShapeInv /\ ListInv /\ DoneInv /\ TrueInv /\ ClassInv /\ SetsInv /\ ApartInv /\ KeptInv
        /\ [Next]_vars => KeptInv'
<1>. SUFFICES ASSUME ShapeInv, ListInv, DoneInv, TrueInv, ClassInv, SetsInv, ApartInv, KeptInv,
                     [Next]_vars, writes' = 0, Deletion'
              PROVE  KeptInv'
  BY DEF KeptInv
<1>1. writes = 0 /\ scenario' = scenario /\ (\A f : EntryOf(f)' = EntryOf(f)) /\ ~OtherWrites
  <2>1. writes \in Nat
    BY ScenarioFacts DEF ShapeInv, TypeOK
  <2>. QED
    BY <2>1, WhoWrites DEF EntryOf, Found, OtherWrites
<1>2. scenario.delete /\ ~Searching'
  BY <1>1 DEF Deletion, Searching, AtWork, Comparing
<1>3. CASE MatchingDone
  <2>1. /\ filelist' = next_filelist /\ Searching /\ sizes' = Size /\ sets' = <<>> /\ content' = content
        /\ pc' # "remove"
    BY <1>3 DEF MatchingDone, Searching, SetsInv, deleteVars
  <2>2. ASSUME NEW s \in Size, NEW i \in DOMAIN next_filelist[s] PROVE Intact(next_filelist[s][i])
    <3>1. \A f \in ToSet(next_filelist[s][i]) : f \in Files(next_filelist[s])
      BY DEF Files
    <3>2. \A f \in ToSet(next_filelist[s][i]) : Exists(EntryOf(f))
      BY <1>1, <2>1, <3>1 DEF DoneInv, TrueInv, Considered
    <3>. QED
      BY <1>1, <2>1, <3>2 DEF ClassInv, SameWithin, SameContent, Intact
  <2>3. \A g \in Unasked' : \E s \in Size : \E i \in DOMAIN next_filelist[s] : g = next_filelist[s][i]
    BY <2>1 DEF Unasked, ToSet
  <2>4. \A g \in Unasked' : Intact(g)
    BY <2>2, <2>3
  <2>5. \A g : Intact(g)' <=> Intact(g)
    BY <1>1, <2>1 DEF Intact, Exists
  <2>. QED
    BY <2>1, <2>4, <2>5 DEF KeptInv
<1>4. CASE ~MatchingDone
  <2>1. ~Searching /\ UNCHANGED <<filelist, next_filelist>>
    BY <1>2, <1>4, AfterSearching
  <2>2. pc # "print" /\ Deletion
    <3>1. pc # "print"
      BY <1>2 DEF SetsInv
    <3>2. pc \in {"set", "prompt", "remove", "done"}
      BY <2>1, <3>1 DEF ShapeInv, TypeOK, Searching, AtWork, Comparing
    <3>. QED
      BY <1>2, <3>2 DEF Deletion
  <2>3. (\A g \in Unasked : Intact(g))
    BY <1>1, <2>2 DEF KeptInv
  <2>4. Unasked' \subseteq Unasked
    BY <2>1, LessUnasked
  <2>5. CASE UNCHANGED content
    <3>1. \A g : Intact(g)' <=> Intact(g)
      BY <1>1, <2>5 DEF Intact, Exists
    <3>2. (\A g \in Unasked : Intact(g))'
      BY <2>3, <2>4, <3>1
    <3>3. ASSUME pc' = "remove"
          PROVE  \A f, g \in ToSet(Head(sets')) :
                     /\ Exists(EntryOf(f))' \/ Removed(f)'
                     /\ Exists(EntryOf(f))' /\ Exists(EntryOf(g))'
                            => content[EntryOf(f)]' = content[EntryOf(g)]'
      <4>1. CASE pc # "remove"
        <5>1. TakeSet \/ User
          <6>1. ~(ScanFile \/ StartMatching \/ Matching)
            BY <2>1 DEF ScanFile, StartMatching, Matching, TakeSize, TakeHead, SizeDone,
                   ComparePartial, CompareFull, CompareBytes, GroupDone, MatchingDone,
                   Searching, AtWork, Comparing
          <6>2. ~(UNCHANGED vars)
            BY <3>3, <4>1 DEF vars
          <6>3. Finishing => TakeSet
            BY <3>3, <4>1 DEF Finishing, TakeSets, PrintSet, SkipSet, RemoveFile, SetDone,
                              AllSetsDone
          <6>. QED
            BY <1>1, <6>1, <6>2, <6>3 DEF Next, Program
        <5>2. UNCHANGED sets /\ sets # <<>>
          BY <4>1, <5>1 DEF TakeSet, User, Answer, QuitAnswer, deleteVars, ShapeInv
        <5>3. Head(sets') \in Unasked
          BY <2>1, <4>1, <5>2, LessUnasked
        <5>4. Intact(Head(sets'))
          BY <2>3, <5>3
        <5>. QED
          BY <1>1, <2>5, <5>4 DEF Intact, Exists
      <4>2. CASE pc = "remove"
        <5>1. RemoveFile \/ UNCHANGED vars
          <6>1. ~(ScanFile \/ StartMatching \/ Matching)
            BY <2>1 DEF ScanFile, StartMatching, Matching, TakeSize, TakeHead, SizeDone,
                   ComparePartial, CompareFull, CompareBytes, GroupDone, MatchingDone,
                   Searching, AtWork, Comparing
          <6>2. Finishing => RemoveFile
            BY <3>3, <4>2 DEF Finishing, TakeSets, PrintSet, SkipSet, TakeSet, SetDone, AllSetsDone
          <6>3. ~User
            BY <4>2 DEF User, Answer, QuitAnswer
          <6>. QED
            BY <1>1, <6>1, <6>2, <6>3 DEF Next, Program
        <5>2. UNCHANGED <<sets, names, erase>> /\ x' \in {x, x + 1}
          BY <5>1 DEF RemoveFile, vars, deleteVars
        <5>3. \A f : Removed(f) => Removed(f)'
          <6>1. x \in Nat
            BY DEF ShapeInv, TypeOK
          <6>2. \A i \in DOMAIN names : i < x => i < x'
            <7>1. names \in Seq(File)
              BY DEF ShapeInv, TypeOK
            <7>2. \A i \in DOMAIN names : i \in Nat
              BY <7>1
            <7>. QED
              BY <5>2, <6>1, <7>2
          <6>. QED
            BY <1>1, <5>2, <6>2 DEF Removed
        <5>. QED
          BY <1>1, <2>2, <2>5, <4>2, <5>2, <5>3 DEF KeptInv, Exists
      <4>. QED
        BY <4>1, <4>2
    <3>. QED
      BY <3>2, <3>3 DEF KeptInv
  <2>6. CASE RemoveFile /\ content' # content
    <3>1. /\ x \in DOMAIN names /\ erase[x] /\ names[x] \in File
          /\ content' = [content EXCEPT ![EntryOf(names[x])] = Gone]
          /\ pc = "remove" /\ pc' = "remove" /\ UNCHANGED <<sets, names, erase>> /\ x' = x + 1
          /\ sets # <<>> /\ Head(sets) \in Seq(File)
      BY <2>6, Removable DEF RemoveFile
    <3>2. content \in [Entries -> Content \cup {Gone}] /\ \A f \in File : EntryOf(f) \in Entries
      BY ScenarioFacts DEF ShapeInv, TypeOK
    <3>3. \A p \in Entries : p # EntryOf(names[x]) => content'[p] = content[p]
      BY <3>1, <3>2
    <3>4. ASSUME NEW g \in Unasked PROVE Intact(g)'
      <4>1. Intact(g) /\ \A f \in ToSet(g) : EntryOf(f) # EntryOf(names[x])
        BY <1>1, <2>3, <2>6, UnaskedIsOther
      <4>2. \A f \in ToSet(g) : EntryOf(f) \in Entries
        BY <3>2, UnaskedFiles
      <4>. QED
        BY <1>1, <3>3, <4>1, <4>2 DEF Intact, Exists
    <3>5. \A f : Removed(f) => Removed(f)'
      <4>1. \A i \in DOMAIN names : i \in Nat
        <5>1. names \in Seq(File)
          BY DEF ShapeInv, TypeOK
        <5>. QED
          BY <5>1
      <4>2. \A i \in DOMAIN names : i < x => i < x + 1
        BY <3>1, <4>1
      <4>. QED
        BY <1>1, <3>1, <4>2 DEF Removed
    <3>6. \A f : EntryOf(f) = EntryOf(names[x]) => Removed(f)'
      <4>1. x < x + 1
        BY DEF ShapeInv, TypeOK
      <4>. QED
        BY <1>1, <3>1, <4>1 DEF Removed
    <3>7. ASSUME NEW f \in ToSet(Head(sets)), NEW g \in ToSet(Head(sets))
          PROVE  /\ Exists(EntryOf(f))' \/ Removed(f)'
                 /\ Exists(EntryOf(f))' /\ Exists(EntryOf(g))'
                        => content[EntryOf(f)]' = content[EntryOf(g)]'
      <4>1. EntryOf(f) \in Entries /\ EntryOf(g) \in Entries
        BY <3>1, <3>2, Wider
      <4>2. /\ Exists(EntryOf(f)) \/ Removed(f)
            /\ Exists(EntryOf(f)) /\ Exists(EntryOf(g)) => content[EntryOf(f)] = content[EntryOf(g)]
        BY <1>1, <2>2, <3>1 DEF KeptInv
      <4>3. content'[EntryOf(names[x])] = Gone
        BY <3>1, <3>2
      <4>. QED
        BY <1>1, <3>3, <3>5, <3>6, <4>1, <4>2, <4>3 DEF Exists
    <3>. QED
      BY <2>4, <3>1, <3>4, <3>7 DEF KeptInv
  <2>. QED
    BY <1>1, <2>5, <2>6, WhoWrites
<1>. QED
  BY <1>3, <1>4

LEMMA PreservedInit == Init => PreservedInv
BY DEF Init, PreservedInv

(* What an answer makes of the group it is about.                          *)
LEMMA AnswerPreserves ==
    ASSUME ShapeInv, ListInv, DoneInv, TrueInv, SetsInv, ApartInv, KeptInv, PreservedInv,
           [Next]_vars, writes = 0, NEW tokens, Answer(tokens), UNCHANGED scenario
    PROVE  PreservedInv'
<1>1. /\ pc = "prompt" /\ pc' \in {"prompt", "remove"} /\ ~Searching /\ ~Searching' /\ Deletion
      /\ UNCHANGED <<content, writes, filelist, sizes, cursize, sets, names>>
      /\ preserved' = preserved \cup
             {names[i] : i \in {j \in DOMAIN erase : pc' = "remove" /\ ~erase'[j]}}
      /\ DOMAIN erase' = DOMAIN erase
  <2>1. pc = "prompt" => scenario.delete
    BY DEF ShapeInv
  <2>. QED
    BY <2>1 DEF Answer, matchVars, Deletion, Searching, AtWork, Comparing, Obeyed
<1>2. /\ sets # <<>> /\ names = Writable(Head(sets)) /\ DOMAIN erase = DOMAIN names
  BY <1>1 DEF ShapeInv
<1>3. /\ Head(sets) \in Seq(File) /\ Increasing(Head(sets)) /\ cursize \in Size \ sizes
      /\ Head(sets) = sets[1] /\ 1 \in DOMAIN sets
  BY <1>2, AtHand
<1>4. /\ names \in Seq(File) /\ Increasing(names)
      /\ \A i \in DOMAIN names : names[i] \in ToSet(Head(sets)) /\ names[i] \in File
  <2>1. ToSet(Head(sets)) \subseteq File
    BY <1>3, Wider
  <2>. QED
    BY <1>2, <1>3, <2>1, WritableFacts
<1>5. \A i, j \in DOMAIN names : names[i] = names[j] => i = j
  <2>1. \A i \in DOMAIN names : i \in Nat /\ names[i] \in Nat
    <3>1. File \subseteq Nat /\ \A i \in DOMAIN names : i \in Nat
      BY <1>4, GroupTypes
    <3>. QED
      BY <1>4, <3>1
  <2>. QED
    BY <1>4, <2>1 DEF Increasing
<1>6. Head(sets) \in Unasked
  BY <1>1, <1>3 DEF Unasked
<1>7. UNCHANGED <<KnownByOneName, File>> /\ \A f : EntryOf(f)' = EntryOf(f)
  BY DEF KnownByOneName, File, Found, EntryOf
<1>8. Unasked' \subseteq Unasked
  BY <1>1, LessUnasked
<1>9. preserved' \subseteq File
  BY <1>1, <1>2, <1>4 DEF PreservedInv
<1>10. \A f \in preserved : \A g \in Unasked' : f \notin ToSet(g)
  BY <1>8 DEF PreservedInv
<1>11. ASSUME pc' = "remove", NEW i \in DOMAIN names, NEW g \in Unasked'
       PROVE  names[i] \notin ToSet(g)
  <2>1. PICK k \in DOMAIN filelist[cursize] :
            /\ Head(sets) = filelist[cursize][k]
            /\ \A j \in DOMAIN sets : j > 1 =>
                   \E m \in DOMAIN filelist[cursize] : m # k /\ sets[j] = filelist[cursize][m]
    BY <1>2, AtHand
  <2>2. PICK s \in Size : \E m \in DOMAIN filelist[s] : g = filelist[s][m] /\ ~(s = cursize /\ m = k)
    <3>1. CASE \E j \in DOMAIN sets : j > 1 /\ g = sets[j]
      BY <1>3, <2>1, <3>1
    <3>2. CASE \E s \in sizes : g \in ToSet(filelist[s])
      <4>1. PICK s \in sizes : g \in ToSet(filelist[s])
        BY <3>2
      <4>2. s \in Size /\ s # cursize
        BY <1>3 DEF ShapeInv, TypeOK
      <4>. QED
        BY <4>1, <4>2 DEF ToSet
    <3>. QED
      BY <1>1, <1>11, <3>1, <3>2 DEF Unasked
  <2>3. PICK m \in DOMAIN filelist[s] : g = filelist[s][m] /\ ~(s = cursize /\ m = k)
    BY <2>2
  <2>4. names[i] \in ToSet(filelist[cursize][k])
    BY <1>4, <2>1
  <2>. QED
    BY <1>1, <1>3, <2>1, <2>3, <2>4 DEF ApartInv
<1>12. \A g \in Unasked' : \A f \in preserved' : f \notin ToSet(g)
  BY <1>1, <1>2, <1>10, <1>11
<1>13. pc' = "remove" => \A i \in DOMAIN names : erase'[i] => names[i] \notin preserved'
  <2>1. \A i \in DOMAIN names : names[i] \notin preserved
    BY <1>4, <1>6 DEF PreservedInv
  <2>. QED
    BY <1>1, <1>2, <1>5, <2>1
<1>14. \A f \in preserved' : KnownByOneName => Exists(EntryOf(f))
  <2>1. \A i \in DOMAIN names : Exists(EntryOf(names[i]))
    BY <1>1, <1>4, <1>6 DEF KeptInv, Intact
  <2>. QED
    BY <1>1, <1>2, <2>1 DEF PreservedInv
<1>. QED
  BY <1>1, <1>7, <1>9, <1>12, <1>13, <1>14 DEF PreservedInv, Exists

LEMMA PreservedStep ==
    ShapeInv /\ ListInv /\ DoneInv /\ TrueInv /\ SetsInv /\ ApartInv /\ KeptInv /\ PreservedInv
        /\ [Next]_vars => PreservedInv'
<1>. SUFFICES ASSUME ShapeInv, ListInv, DoneInv, TrueInv, SetsInv, ApartInv, KeptInv,
                     PreservedInv, [Next]_vars, writes' = 0
              PROVE  PreservedInv'
  BY DEF PreservedInv
<1>1. /\ writes = 0 /\ scenario' = scenario /\ ~OtherWrites
      /\ (\A f : EntryOf(f)' = EntryOf(f)) /\ File' = File
      /\ KnownByOneName' = KnownByOneName
  <2>1. writes \in Nat
    BY ScenarioFacts DEF ShapeInv, TypeOK
  <2>. QED
    BY <2>1, WhoWrites DEF EntryOf, Found, File, KnownByOneName, OtherWrites
<1>2. CASE \E tokens : Answer(tokens)
  BY <1>1, <1>2, AnswerPreserves
<1>3. CASE ~\E tokens : Answer(tokens)
  <2>1. UNCHANGED preserved
    BY <1>1, <1>3 DEF Next, Program, User, QuitAnswer, vars
  <2>2. CASE Searching
    <3>1. preserved' = {}
      BY <1>1, <2>1, <2>2 DEF PreservedInv
    <3>. QED
      BY <3>1 DEF PreservedInv
  <2>3. CASE ~Searching
    <3>1. /\ ~Searching' /\ Unasked' \subseteq Unasked
      <4>1. ~Searching'
        <5>1. pc # "scan"
          BY <2>3 DEF Searching
        <5>. QED
          BY <2>3, <5>1, WhileSearching
      <4>. QED
        BY <2>3, <4>1, LessUnasked
    <3>2. \A g \in Unasked' : \A f \in preserved' : f \notin ToSet(g)
      BY <1>1, <2>1, <3>1 DEF PreservedInv
    <3>3. KnownByOneName => \A f \in preserved : Exists(EntryOf(f))'
      <4>1. CASE UNCHANGED content
        BY <1>1, <4>1 DEF PreservedInv, Exists
      <4>2. CASE RemoveFile /\ content' # content
        <5>1. /\ x \in DOMAIN names /\ erase[x] /\ names[x] \in File /\ pc = "remove"
              /\ content' = [content EXCEPT ![EntryOf(names[x])] = Gone]
          BY <4>2, Removable DEF RemoveFile
        <5>2. content \in [Entries -> Content \cup {Gone}] /\ \A f \in File : EntryOf(f) \in Entries
          BY ScenarioFacts DEF ShapeInv, TypeOK
        <5>3. names[x] \notin preserved /\ preserved \subseteq File
          BY <1>1, <5>1 DEF PreservedInv
        <5>4. KnownByOneName => \A f \in preserved : EntryOf(f) # EntryOf(names[x])
          BY <5>1, <5>3 DEF KnownByOneName, IsInjective
        <5>5. \A p \in Entries : p # EntryOf(names[x]) => content'[p] = content[p]
          BY <5>1, <5>2
        <5>. QED
          BY <1>1, <5>2, <5>3, <5>4, <5>5 DEF PreservedInv, Exists
      <4>. QED
        BY <1>1, <4>1, <4>2, WhoWrites
    <3>4. ASSUME pc' = "remove", NEW i \in DOMAIN names', erase'[i]
          PROVE  names'[i] \notin preserved
      <4>1. CASE pc = "remove"
        <5>1. UNCHANGED <<names, erase>>
          <6>1. ~(ScanFile \/ StartMatching \/ Matching)
            BY <2>3 DEF ScanFile, StartMatching, Matching, TakeSize, TakeHead, SizeDone,
                   ComparePartial, CompareFull, CompareBytes, GroupDone, MatchingDone,
                   Searching, AtWork, Comparing
          <6>2. Finishing => RemoveFile
            BY <3>4, <4>1 DEF Finishing, TakeSets, PrintSet, SkipSet, TakeSet, SetDone, AllSetsDone
          <6>3. ~User
            BY <4>1 DEF User, Answer, QuitAnswer
          <6>. QED
            BY <1>1, <6>1, <6>2, <6>3 DEF Next, Program, RemoveFile, vars, deleteVars
        <5>. QED
          BY <1>1, <3>4, <4>1, <5>1 DEF PreservedInv
      <4>2. CASE pc # "remove"
        <5>1. TakeSet
          <6>1. ~(ScanFile \/ StartMatching \/ Matching)
            BY <2>3 DEF ScanFile, StartMatching, Matching, TakeSize, TakeHead, SizeDone,
                   ComparePartial, CompareFull, CompareBytes, GroupDone, MatchingDone,
                   Searching, AtWork, Comparing
          <6>2. ~(UNCHANGED vars)
            BY <3>4, <4>2 DEF vars
          <6>3. Finishing => TakeSet
            BY <3>4, <4>2 DEF Finishing, TakeSets, PrintSet, SkipSet, RemoveFile, SetDone,
                              AllSetsDone
          <6>4. ~User
            BY <1>3, <3>4 DEF User, QuitAnswer
          <6>. QED
            BY <1>1, <6>1, <6>2, <6>3, <6>4 DEF Next, Program
        <5>2. UNCHANGED sets /\ sets # <<>> /\ names' = Writable(Head(sets))
          BY <5>1 DEF TakeSet
        <5>3. Head(sets) \in Unasked /\ Head(sets) \in Seq(File)
          BY <2>3, <4>2, <5>2, LessUnasked, AtHand
        <5>4. names'[i] \in ToSet(Head(sets))
          BY <3>4, <5>2, <5>3, WritableFacts
        <5>. QED
          BY <1>1, <5>3, <5>4 DEF PreservedInv
      <4>. QED
        BY <4>1, <4>2
    <3>. QED
      BY <1>1, <2>1, <3>1, <3>2, <3>3, <3>4 DEF PreservedInv
  <2>. QED
    BY <2>2, <2>3
<1>. QED
  BY <1>2, <1>3

LEMMA FirstInit == Init => FirstInv
BY DEF Init, FirstInv, Deletion

LEMMA FirstStep ==
    ShapeInv /\ DoneInv /\ TrueInv /\ SetsInv /\ ApartInv /\ FirstInv /\ [Next]_vars => FirstInv'
<1>. SUFFICES ASSUME ShapeInv, DoneInv, TrueInv, SetsInv, ApartInv, FirstInv, [Next]_vars,
                     ~Prompt', writes' = 0, Deletion', KnownByOneName',
                     NEW g \in Groups', ~HasReadOnly(g)'
              PROVE  Exists(EntryOf(g[1]))'
  BY DEF FirstInv
<1>1. /\ writes = 0 /\ scenario' = scenario /\ (\A f : EntryOf(f)' = EntryOf(f)) /\ ~Prompt
      /\ ~OtherWrites
      /\ KnownByOneName /\ (HasReadOnly(g)' <=> HasReadOnly(g))
  <2>1. writes \in Nat
    BY ScenarioFacts DEF ShapeInv, TypeOK
  <2>. QED
    BY <2>1, WhoWrites
    DEF EntryOf, Found, Prompt, KnownByOneName, File, HasReadOnly, ReadOnly, OtherWrites
<1>2. scenario.delete /\ ~Searching'
  BY <1>1 DEF Deletion, Searching, AtWork, Comparing
<1>3. PICK s \in Size : \E i \in DOMAIN filelist'[s] : g = filelist'[s][i]
  BY DEF Groups, ToSet
<1>4. PICK i \in DOMAIN filelist'[s] : g = filelist'[s][i]
  BY <1>3
<1>5. CASE MatchingDone
  <2>1. filelist' = next_filelist /\ Searching /\ content' = content
    BY <1>5 DEF MatchingDone, Searching
  <2>2. g \in Seq(Nat) /\ Len(g) > 1
    BY <1>4, <2>1, GroupTypes DEF DoneInv
  <2>3. g[1] \in ToSet(g)
    BY <2>2 DEF ToSet
  <2>4. g[1] \in Files(next_filelist[s])
    BY <1>4, <2>1, <2>3 DEF Files
  <2>5. Exists(EntryOf(g[1]))
    BY <1>1, <2>1, <2>4 DEF DoneInv, TrueInv, Considered
  <2>. QED
    BY <1>1, <2>1, <2>5 DEF Exists
<1>6. CASE ~MatchingDone
  <2>1. ~Searching /\ UNCHANGED <<filelist, next_filelist>>
    BY <1>2, <1>6, AfterSearching
  <2>2. Deletion
    <3>1. pc # "print"
      BY <1>2 DEF SetsInv
    <3>2. pc \in {"set", "prompt", "remove", "done"}
      BY <2>1, <3>1 DEF ShapeInv, TypeOK, Searching, AtWork, Comparing
    <3>. QED
      BY <1>2, <3>2 DEF Deletion
  <2>3. Exists(EntryOf(g[1])) /\ ~HasReadOnly(g)
    <3>1. g \in Groups /\ ~HasReadOnly(g)
      BY <1>1, <2>1 DEF Groups
    <3>. QED
      BY <1>1, <2>2, <3>1 DEF FirstInv
  <2>4. CASE UNCHANGED content
    BY <1>1, <2>3, <2>4 DEF Exists
  <2>5. CASE RemoveFile /\ content' # content
    <3>1. /\ x \in DOMAIN names /\ x \in DOMAIN erase /\ erase[x] /\ names[x] \in File
          /\ content' = [content EXCEPT ![EntryOf(names[x])] = Gone]
          /\ names = Writable(Head(sets)) /\ Head(sets) \in Seq(File) /\ sets # <<>>
          /\ pc = "remove"
      BY <2>5, Removable DEF RemoveFile
    <3>2. g \in Seq(File) \ {<<>>} /\ g[1] \in ToSet(g) /\ g[1] \in File
      <4>1. filelist[s] \in Seq(Seq(File) \ {<<>>}) /\ i \in DOMAIN filelist[s]
            /\ g = filelist[s][i]
        BY <1>4, <2>1, GroupTypes
      <4>2. g \in Seq(File) \ {<<>>}
        BY <4>1
      <4>3. 1 \in DOMAIN g
        BY <4>2
      <4>. QED
        BY <4>2, <4>3 DEF ToSet
    <3>3. EntryOf(g[1]) # EntryOf(names[x])
      <4>1. CASE g # Head(sets)
        BY <1>1, <1>4, <2>1, <2>5, <3>2, <4>1, OthersUntouched
      <4>2. CASE g = Head(sets)
        <5>1. names = g /\ Increasing(g)
          BY <2>3, <3>1, <4>2, WritableFacts, AtHand
        <5>2. x > 1
          BY <1>1, <2>3, <3>1, <4>2 DEF ShapeInv
        <5>3. g[1] < g[x] /\ 1 \in DOMAIN g /\ x \in DOMAIN g
          <6>1. 1 \in DOMAIN g /\ x \in DOMAIN g /\ 1 < x
            BY <3>1, <3>2, <5>1, <5>2
          <6>. QED
            BY <5>1, <6>1 DEF Increasing
        <5>4. g[1] # names[x]
          <6>1. \A n \in Nat : ~(n < n)
            OBVIOUS
          <6>. QED
            BY <3>2, <5>1, <5>3, <6>1, GroupTypes
        <5>. QED
          BY <1>1, <3>1, <3>2, <5>4 DEF KnownByOneName, IsInjective
      <4>. QED
        BY <4>1, <4>2
    <3>4. content \in [Entries -> Content \cup {Gone}] /\ EntryOf(g[1]) \in Entries
      BY <3>2, ScenarioFacts DEF ShapeInv, TypeOK
    <3>5. content'[EntryOf(g[1])] = content[EntryOf(g[1])]
      BY <3>1, <3>3, <3>4
    <3>. QED
      BY <1>1, <2>3, <3>5 DEF Exists
  <2>. QED
    BY <1>1, <2>4, <2>5, WhoWrites
<1>. QED
  BY <1>5, <1>6

LEMMA Deletions ==
    Spec => [](/\ ShapeInv /\ ListInv /\ WorkInv /\ DoneInv /\ TrueInv
               /\ SetsInv /\ ApartInv /\ KeptInv /\ PreservedInv /\ FirstInv)
BY Sorted, SetsInit, SetsStep, ApartInit, ApartStep, KeptInit, KeptStep,
   PreservedInit, PreservedStep, FirstInit, FirstStep, PTL DEF Spec

(* UnaskedKept holds (deletefiles(), lines 257-339): what an answer removes *)
(* is of the group it is about, because no entry is in two groups, even of *)
(* a directory that was given twice; and what it was to preserve is not    *)
(* removed by it, nor by a later one.                                      *)
THEOREM AnswersStayInTheirSet == Spec => []UnaskedKept
<1>1. ShapeInv /\ KeptInv /\ PreservedInv => UnaskedKept
  BY DEF KeptInv, PreservedInv, UnaskedKept, Intact
<1>. QED
  BY <1>1, Deletions, PTL

(* FirstPreserved holds (scandir(), line 231, build_matches(), lines       *)
(* 530-547, and deletefiles(), lines 262-276): groups are in the order of  *)
(* the scan, and without a prompt the first file of one that has no read-  *)
(* only file is never removed.                                             *)
THEOREM FirstFilesStay == Spec => []FirstPreserved
<1>1. ASSUME ShapeInv, ListInv, WorkInv, DoneInv PROVE InScanOrder
  <2>1. ASSUME NEW s \in Size, NEW i \in DOMAIN next_filelist[s]
        PROVE  Increasing(next_filelist[s][i])
    BY <1>1 DEF DoneInv
  <2>2. ASSUME NEW s \in Size, NEW i \in DOMAIN filelist[s] PROVE Increasing(filelist[s][i])
    <3>1. CASE Searching
      <4>1. filelist[s] \in Seq(Seq(Nat) \ {<<>>}) /\ Len(filelist[s][i]) = 1
        BY <1>1, <3>1, GroupTypes DEF ListInv, Ranked
      <4>2. filelist[s][i] \in Seq(Nat)
        BY <4>1
      <4>3. \A j, k \in DOMAIN filelist[s][i] : ~(j < k)
        BY <4>1, <4>2
      <4>. QED
        BY <4>3 DEF Increasing
    <3>2. CASE ~Searching
      BY <1>1, <2>1, <3>2 DEF DoneInv
    <3>. QED
      BY <3>1, <3>2
  <2>3. Increasing(cur_group)
    BY <1>1 DEF WorkInv
  <2>4. \A g \in Groups \cup Matches \cup {cur_group} : Increasing(g)
    BY <2>1, <2>2, <2>3 DEF Groups, Matches, ToSet
  <2>. QED
    BY <2>4 DEF InScanOrder, Increasing
<1>2. ASSUME ShapeInv, FirstInv, InScanOrder, ~Prompt, writes = 0, Deletion, KnownByOneName,
             NEW g \in Groups, ~HasReadOnly(g)
      PROVE  \E f \in ToSet(g) : Exists(EntryOf(f)) /\ \A h \in ToSet(g) : f <= h
  <2>1. Exists(EntryOf(g[1]))
    BY <1>2 DEF FirstInv
  <2>2. g \in Seq(Nat) /\ g # <<>>
    <3>1. PICK s \in Size : g \in ToSet(filelist[s])
      BY DEF Groups
    <3>2. filelist[s] \in Seq(Seq(Nat) \ {<<>>})
      BY <1>2, GroupTypes
    <3>3. g \in Seq(Nat) \ {<<>>}
      BY <3>1, <3>2 DEF ToSet
    <3>. QED
      BY <3>3
  <2>3. 1 \in DOMAIN g /\ \A i \in DOMAIN g : g[i] \in Nat /\ (i = 1 \/ 1 < i)
    BY <2>2
  <2>4. \A i \in DOMAIN g : g[1] <= g[i]
    <3>1. \A i \in DOMAIN g : i = 1 \/ g[1] < g[i]
      BY <1>2, <2>3 DEF InScanOrder
    <3>. QED
      BY <2>3, <3>1
  <2>5. g[1] \in ToSet(g) /\ \A h \in ToSet(g) : g[1] <= h
    BY <2>3, <2>4 DEF ToSet
  <2>. QED
    BY <2>1, <2>5
<1>3. ShapeInv /\ ListInv /\ WorkInv /\ DoneInv /\ FirstInv => FirstPreserved
  BY <1>1, <1>2 DEF FirstPreserved
<1>. QED
  BY <1>3, Deletions, PTL

(* LastCopyKept holds (deletefiles(), lines 262-339): when a file is       *)
(* removed another one of its group, of the same content, is there: a      *)
(* read-only one, or one that has not been marked.  No marked file is that *)
(* one under another name, as KnownByOneName says.                         *)
THEOREM NoContentIsLost == Spec => LastCopyKept
<1>1. ASSUME ShapeInv, DoneInv, SetsInv, KeptInv, [Next]_vars, pc = "remove",
             writes' = 0, KnownByOneName,
             ~Prompt \/ HasReadOnly(Head(sets)) \/ \E i \in DOMAIN erase : ~erase[i],
             NEW p \in Entries, Exists(p)
      PROVE  \E q \in Entries : content'[q] = content[p]
  <2>1. writes = 0 /\ (UNCHANGED content \/ RemoveFile)
    <3>1. writes \in Nat
      BY <1>1, ScenarioFacts DEF ShapeInv, TypeOK
    <3>. QED
      BY <1>1, <3>1, WhoWrites
  <2>2. CASE content'[p] = content[p]
    BY <2>2
  <2>3. CASE RemoveFile /\ content'[p] # content[p]
    <3>1. /\ x \in DOMAIN names /\ x \in DOMAIN erase /\ erase[x]
          /\ names[x] \in File /\ ~ReadOnly(names[x]) /\ names[x] \in ToSet(Head(sets))
          /\ content' = [content EXCEPT ![EntryOf(names[x])] = Gone]
          /\ sets # <<>> /\ Head(sets) \in Seq(File) /\ names = Writable(Head(sets))
          /\ scenario.delete
      BY <1>1, <2>3, Removable
    <3>2. content \in [Entries -> Content \cup {Gone}] /\ \A f \in File : EntryOf(f) \in Entries
      BY <1>1, ScenarioFacts DEF ShapeInv, TypeOK
    <3>3. p = EntryOf(names[x]) /\ \A q \in Entries : q # p => content'[q] = content[q]
      BY <2>3, <3>1, <3>2
    <3>4. \A f, g \in ToSet(Head(sets)) :
              /\ Exists(EntryOf(f)) \/ Removed(f)
              /\ Exists(EntryOf(f)) /\ Exists(EntryOf(g)) => content[EntryOf(f)] = content[EntryOf(g)]
      BY <1>1, <2>1, <3>1 DEF KeptInv, Deletion
    <3>5. SUFFICES \E f \in ToSet(Head(sets)) : EntryOf(f) # p /\ ~Removed(f)
      <4>1. PICK f \in ToSet(Head(sets)) : EntryOf(f) # p /\ ~Removed(f)
        BY <3>5
      <4>2. EntryOf(f) \in Entries
        BY <3>1, <3>2, <4>1, Wider
      <4>3. content[EntryOf(f)] = content[p]
        BY <1>1, <3>1, <3>3, <3>4, <4>1
      <4>. QED
        BY <3>3, <4>1, <4>2, <4>3
    <3>6. /\ names \in Seq(File) /\ Increasing(names) /\ DOMAIN erase = DOMAIN names
          /\ \A i \in DOMAIN names : names[i] \in ToSet(Head(sets)) /\ ~ReadOnly(names[i])
      <4>1. Increasing(Head(sets))
        BY <1>1, <3>1, AtHand
      <4>2. DOMAIN erase = DOMAIN names
        BY <1>1 DEF ShapeInv
      <4>. QED
        BY <3>1, <4>1, <4>2, WritableFacts
    <3>7. CASE HasReadOnly(Head(sets))
      <4>1. PICK f \in ToSet(Head(sets)) : ReadOnly(f)
        BY <3>7 DEF HasReadOnly, ToSet
      <4>2. f \in File
        BY <3>1, Wider
      <4>3. \A i \in DOMAIN names : EntryOf(names[i]) # EntryOf(f)
        <5>1. \A i \in DOMAIN names : names[i] \in File /\ ~ReadOnly(names[i])
          BY <3>6
        <5>2. \A g \in File : EntryOf(g) = EntryOf(f) => g = f
          BY <1>1, <4>2 DEF KnownByOneName, IsInjective
        <5>. QED
          BY <4>1, <4>2, <5>1, <5>2
      <4>. QED
        BY <3>1, <3>3, <4>1, <4>3 DEF Removed
    <3>8. CASE \E i \in DOMAIN erase : ~erase[i]
      <4>1. PICK i \in DOMAIN erase : ~erase[i]
        BY <3>8
      <4>2. \A j \in DOMAIN names : EntryOf(names[j]) = EntryOf(names[i]) => j = i
        <5>1. \A j \in DOMAIN names : names[j] \in File
          BY <3>6
        <5>2. ASSUME NEW j \in DOMAIN names, NEW k \in DOMAIN names, names[j] = names[k]
              PROVE  j = k
          <6>1. j \in Nat /\ k \in Nat /\ names[j] \in Nat
            <7>1. File \subseteq Nat /\ names \in Seq(File)
              BY <1>1, <3>6, GroupTypes
            <7>2. names[j] \in File
              BY <3>6, <5>1
            <7>3. j \in Nat /\ k \in Nat
              BY <7>1
            <7>. QED
              BY <7>1, <7>2, <7>3
          <6>2. ~(names[j] < names[k]) /\ ~(names[k] < names[j])
            BY <5>2, <6>1
          <6>. QED
            BY <3>6, <6>1, <6>2 DEF Increasing
        <5>3. \A f, g \in File : EntryOf(f) = EntryOf(g) => f = g
          BY <1>1 DEF KnownByOneName, IsInjective
        <5>. QED
          BY <3>6, <4>1, <5>2, <5>1, <5>3
      <4>3. i # x /\ names[i] \in ToSet(Head(sets))
        BY <3>1, <3>6, <4>1
      <4>4. EntryOf(names[i]) # p
        BY <3>1, <3>3, <4>2, <4>3
      <4>5. ~Removed(names[i])
        BY <4>1, <4>2 DEF Removed
      <4>. QED
        BY <4>3, <4>4, <4>5
    <3>9. CASE ~Prompt /\ ~HasReadOnly(Head(sets))
      <4>1. 1 \in DOMAIN erase
        <5>1. x \in 1..Len(names)
          BY <3>1, <3>6
        <5>2. 1 \in DOMAIN names
          BY <3>6, <5>1
        <5>. QED
          BY <3>6, <5>2
      <4>2. erase[1] = (1 > 1 \/ HasReadOnly(Head(sets)))
        BY <1>1, <3>9, <4>1 DEF ShapeInv
      <4>3. ~erase[1]
        <5>1. ~(1 > 1 \/ HasReadOnly(Head(sets)))
          BY <3>9
        <5>. QED
          BY <4>2, <5>1, Zenon
      <4>. QED
        BY <3>8, <4>1, <4>3
    <3>. QED
      BY <1>1, <3>7, <3>8, <3>9
  <2>. QED
    BY <2>1, <2>2, <2>3
<1>2. ShapeInv /\ DoneInv /\ SetsInv /\ KeptInv /\ [Next]_vars =>
          [/\ pc = "remove"
           /\ writes' = 0 /\ KnownByOneName
           /\ \/ ~Prompt
              \/ HasReadOnly(Head(sets))
              \/ \E i \in DOMAIN erase : ~erase[i]
           => \A p \in Entries : Exists(p) => \E q \in Entries : content'[q] = content[p]]_vars
  BY <1>1
<1>. QED
  BY <1>2, Deletions, PTL DEF Spec, LastCopyKept
----------------------------------------------------------------------------
(* The program comes to its end (src/fdupes.cpp:507-552, 242-343): what    *)
(* keeps the parts of its variant above zero.                              *)
VariantInv ==
    /\ Comparing => b <= Len(queue) + 1 /\ Len(next_queue) <= b - 2
    /\ pc \in {"prompt", "remove"} => x <= Len(names) + 1

LEMMA LengthTypes ==
    ASSUME ShapeInv
    PROVE  /\ Len(queue) \in Nat /\ Len(next_queue) \in Nat /\ Len(sets) \in Nat
           /\ Len(names) \in Nat /\ Len(Found) \in Nat
           /\ scanned \in 0..Len(Found) /\ b \in Nat /\ x \in Nat
           /\ pc \in {"scan", "size", "head", "compare", "full", "bytes", "print",
                      "set", "prompt", "remove", "done"}
<1>1. /\ {queue, next_queue, sets} \subseteq Seq(Seq(File) \ {<<>>}) /\ names \in Seq(File)
      /\ scanned \in 0..Len(Found) /\ b \in Nat /\ x \in Nat
      /\ pc \in {"scan", "size", "head", "compare", "full", "bytes", "print",
                "set", "prompt", "remove", "done"}
  BY DEF ShapeInv, TypeOK
<1>2. Len(Found) \in Nat
  BY ScenarioFacts DEF ShapeInv, TypeOK
<1>3. \A S : \A s \in Seq(S) : Len(s) \in Nat
  OBVIOUS
<1>. QED
  BY <1>1, <1>2, <1>3

LEMMA VariantStep == ShapeInv /\ VariantInv /\ [Next]_vars => VariantInv'
<1>. SUFFICES ASSUME ShapeInv, VariantInv, [Next]_vars PROVE VariantInv'
  OBVIOUS
<1>0. /\ Len(queue) \in Nat /\ Len(next_queue) \in Nat /\ b \in Nat /\ x \in Nat
      /\ Len(names) \in Nat /\ next_queue \in Seq(Seq(File) \ {<<>>})
  BY LengthTypes DEF ShapeInv, TypeOK
<1>. USE DEF VariantInv, Comparing
<1>1. CASE UNCHANGED <<pc, matchVars, names, x>>
  BY <1>1 DEF matchVars
<1>2. ASSUME pc' \notin {"compare", "full", "bytes", "prompt", "remove"} PROVE VariantInv'
  BY <1>2
<1>3. CASE TakeHead
  <2>1. Len(<<>>) = 0
    OBVIOUS
  <2>. QED
    BY <1>0, <1>3, <2>1 DEF TakeHead
<1>4. ASSUME pc \in {"compare", "full", "bytes"}, b <= Len(queue), queue' = queue,
             \/ pc' \in {"full", "bytes"} /\ UNCHANGED <<next_queue, b>>
             \/ pc' = "compare" /\ b' = b + 1 /\ UNCHANGED next_queue
             \/ pc' = "compare" /\ b' = b + 1 /\ next_queue' = Append(next_queue, queue[b])
      PROVE  VariantInv'
  <2>1. Len(Append(next_queue, queue[b])) = Len(next_queue) + 1
    BY <1>0
  <2>. QED
    BY <1>0, <1>4, <2>1
<1>5. CASE ComparePartial
  BY <1>4, <1>5 DEF ComparePartial, Accept, Reject, NextB
<1>6. CASE CompareFull
  BY <1>4, <1>6 DEF CompareFull, Reject, NextB, ShapeInv
<1>7. CASE CompareBytes
  BY <1>4, <1>7 DEF CompareBytes, Accept, Reject, NextB, ShapeInv
<1>8. CASE TakeSet
  <2>1. pc' \in {"prompt", "remove"} /\ x' = 1
    BY <1>8 DEF TakeSet
  <2>2. Len(names') \in Nat
    BY ShapeStep, LengthTypes
  <2>. QED
    BY <2>1, <2>2
<1>9. ASSUME NEW tokens \in Answers, Answer(tokens) PROVE VariantInv'
  BY <1>9 DEF Answer, matchVars
<1>10. CASE RemoveFile
  BY <1>0, <1>10 DEF RemoveFile, matchVars
<1>11. CASE \/ ScanFile \/ StartMatching \/ TakeSize \/ SizeDone \/ GroupDone \/ MatchingDone
            \/ TakeSets \/ PrintSet \/ SkipSet \/ SetDone \/ AllSetsDone \/ QuitAnswer
  BY <1>2, <1>11 DEF ScanFile, StartMatching, TakeSize, SizeDone, GroupDone, MatchingDone,
        TakeSets, PrintSet, SkipSet, SetDone, AllSetsDone, QuitAnswer
<1>12. CASE OtherWrites \/ UNCHANGED vars
  BY <1>1, <1>12 DEF OtherWrites, vars, deleteVars
<1>. QED
  BY <1>3, <1>5, <1>6, <1>7, <1>8, <1>9, <1>10, <1>11, <1>12
  DEF Next, Program, Matching, Finishing, User

LEMMA LeftTypes ==
    ShapeInv /\ VariantInv =>
        /\ StageLeft \in Nat /\ SizesLeft \in Nat
        /\ GroupsLeft \in Nat /\ StepsLeft \in Nat
<1>. SUFFICES ASSUME ShapeInv, VariantInv
              PROVE  /\ StageLeft \in Nat /\ SizesLeft \in Nat
                     /\ GroupsLeft \in Nat /\ StepsLeft \in Nat
  OBVIOUS
<1>1. IsFiniteSet(sizes)
  <2>1. sizes \subseteq Size
    BY DEF ShapeInv, TypeOK
  <2>2. IsFiniteSet(Size)
    BY FilesAssumption DEF Size
  <2>. QED
    BY <2>1, <2>2, FS_Subset
<1>2. Cardinality(sizes) \in Nat
  BY <1>1, FS_CardinalityType
<1>3. StageLeft \in Nat
  BY LengthTypes DEF StageLeft
<1>4. SizesLeft \in Nat
  BY <1>2, LengthTypes DEF SizesLeft
<1>5. GroupsLeft \in Nat
  BY LengthTypes DEF GroupsLeft
<1>6. StepsLeft \in Nat
  <2>. USE DEF StepsLeft
  <2>1. CASE pc \in {"compare", "full", "bytes"}
    <3>1. Comparisons \in Nat
      BY <2>1, LengthTypes DEF Comparisons, VariantInv, Comparing
    <3>. QED
      BY <2>1, <3>1
  <2>2. CASE pc \in {"prompt", "remove"}
    <3>1. Removals \in Nat
      BY <2>2, LengthTypes DEF Removals, VariantInv
    <3>. QED
      BY <2>2, <3>1
  <2>3. CASE pc \in {"scan", "size", "head", "print", "set", "done"}
    BY <2>3
  <2>. QED
    BY <2>1, <2>2, <2>3, LengthTypes
<1>. QED
  BY <1>3, <1>4, <1>5, <1>6

(* The first part that a step changes, it makes less.                      *)
Lower(m, m1, n, n1, o, o1, p, p1) ==
    \/ m1 < m
    \/ m1 = m /\ n1 < n
    \/ m1 = m /\ n1 = n /\ o1 < o
    \/ m1 = m /\ n1 = n /\ o1 = o /\ p1 < p
StepLowers == Lower(StageLeft, StageLeft', SizesLeft, SizesLeft', GroupsLeft, GroupsLeft',
                    StepsLeft, StepsLeft')

LEMMA LowerIsBelow ==
    ASSUME NEW m \in Nat, NEW n \in Nat, NEW o \in Nat, NEW p \in Nat,
           NEW m1 \in Nat, NEW n1 \in Nat, NEW o1 \in Nat, NEW p1 \in Nat,
           Lower(m, m1, n, n1, o, o1, p, p1)
    PROVE  Below(<<m1, n1, o1, p1>>, <<m, n, o, p>>)
<1>1. \A a1, a2, a3, a4 \in Nat :
          /\ <<a1, a2, a3, a4>> \in Variants
          /\ <<a1, a2, a3, a4>>[1] = a1 /\ <<a1, a2, a3, a4>>[2] = a2
          /\ <<a1, a2, a3, a4>>[3] = a3 /\ <<a1, a2, a3, a4>>[4] = a4
  BY DEF Variants
<1>2. PICK v, w : v = <<m1, n1, o1, p1>> /\ w = <<m, n, o, p>>
  OBVIOUS
<1>3. /\ {v, w} \subseteq Variants
      /\ v[1] = m1 /\ v[2] = n1 /\ v[3] = o1 /\ v[4] = p1
      /\ w[1] = m /\ w[2] = n /\ w[3] = o /\ w[4] = p
  BY <1>1, <1>2
<1>4. \E j \in 1..4 : v[j] < w[j] /\ \A i \in 1..(j - 1) : v[i] = w[i]
  <2>1. CASE m1 < m
    <3>1. v[1] < w[1] /\ \A i \in 1..(1 - 1) : v[i] = w[i]
      BY <1>3, <2>1
    <3>. QED
      BY <3>1
  <2>2. CASE m1 = m /\ n1 < n
    <3>1. v[2] < w[2] /\ \A i \in 1..(2 - 1) : v[i] = w[i]
      <4>1. \A i \in 1..(2 - 1) : i = 1
        OBVIOUS
      <4>. QED
        BY <1>3, <2>2, <4>1
    <3>. QED
      BY <3>1
  <2>3. CASE m1 = m /\ n1 = n /\ o1 < o
    <3>1. v[3] < w[3] /\ \A i \in 1..(3 - 1) : v[i] = w[i]
      <4>1. \A i \in 1..(3 - 1) : i = 1 \/ i = 2
        OBVIOUS
      <4>. QED
        BY <1>3, <2>3, <4>1
    <3>. QED
      BY <3>1
  <2>4. CASE m1 = m /\ n1 = n /\ o1 = o /\ p1 < p
    <3>1. v[4] < w[4] /\ \A i \in 1..(4 - 1) : v[i] = w[i]
      <4>1. \A i \in 1..(4 - 1) : i = 1 \/ i = 2 \/ i = 3
        OBVIOUS
      <4>. QED
        BY <1>3, <2>4, <4>1
    <3>. QED
      BY <3>1
  <2>. QED
    BY <2>1, <2>2, <2>3, <2>4 DEF Lower
<1>. QED
  BY <1>2, <1>3, <1>4 DEF Below

(* What a step makes less, and what it leaves alone.                       *)
LEMMA SizeTaken ==
    ASSUME sizes \subseteq Size, NEW s \in sizes
    PROVE  Cardinality(sizes \ {s}) < Cardinality(sizes)
<1>1. IsFiniteSet(sizes)
  BY FilesAssumption, FS_Subset DEF Size
<1>2. Cardinality(sizes) \in Nat /\ Cardinality(sizes \ {s}) = Cardinality(sizes) - 1
  BY <1>1, FS_CardinalityType, FS_RemoveElement
<1>. QED
  BY <1>2

LEMMA StepsAreLower ==
    ASSUME ShapeInv, VariantInv, ShapeInv', VariantInv', Program
    PROVE  StepLowers
<1>0. Found' = Found /\ Len(Found) \in Nat
  BY LengthTypes DEF Program, Found
<1>. USE DEF StepLowers, Lower
<1>t. /\ Len(queue) \in Nat /\ Len(next_queue) \in Nat /\ Len(sets) \in Nat
      /\ Len(names) \in Nat /\ scanned \in 0..Len(Found) /\ b \in Nat /\ x \in Nat
  BY LengthTypes
<1>1. CASE ScanFile
  BY <1>0, <1>1, <1>t DEF ScanFile, StageLeft, SizesLeft
<1>2. ASSUME StageLeft' < StageLeft PROVE StepLowers
  BY <1>2
<1>3. CASE StartMatching \/ MatchingDone \/ AllSetsDone
  BY <1>3 DEF StartMatching, MatchingDone, AllSetsDone, StageLeft
<1>4. ASSUME NEW s \in sizes, sizes' = sizes \ {s}, StageLeft' = StageLeft, pc # "scan", pc' # "scan"
      PROVE  StepLowers
  <2>1. sizes \subseteq Size
    BY DEF ShapeInv, TypeOK
  <2>2. Cardinality(sizes') < Cardinality(sizes)
    BY <1>4, <2>1, SizeTaken
  <2>. QED
    BY <1>4, <2>2 DEF SizesLeft
<1>5. CASE TakeSize
  <2>1. PICK s \in sizes : sizes' = sizes \ {s}
    BY <1>5 DEF TakeSize
  <2>2. pc = "size" /\ pc' \in {"size", "head"}
    BY <1>5 DEF TakeSize
  <2>. QED
    BY <1>4, <2>1, <2>2 DEF StageLeft
<1>6. CASE TakeSets
  <2>1. PICK s \in sizes : sizes' = sizes \ {s}
    BY <1>6 DEF TakeSets
  <2>2. pc \in {"set", "print"} /\ pc' = pc
    BY <1>6 DEF TakeSets
  <2>. QED
    BY <1>4, <2>1, <2>2 DEF StageLeft
<1>7. ASSUME sizes' = sizes, pc # "scan", pc' # "scan" PROVE SizesLeft' = SizesLeft
  BY <1>7 DEF SizesLeft
<1>8. CASE TakeHead
  BY <1>7, <1>8, <1>t DEF TakeHead, StageLeft, GroupsLeft
<1>9. CASE SizeDone
  BY <1>7, <1>9, <1>t DEF SizeDone, matchVars, StageLeft, GroupsLeft
<1>10. CASE GroupDone
  <2>1. Len(queue') = Len(next_queue) /\ Len(next_queue) < Len(queue)
    BY <1>10, <1>t DEF GroupDone, VariantInv, Comparing
  <2>. QED
    BY <1>7, <1>10, <1>t, <2>1 DEF GroupDone, StageLeft, GroupsLeft
<1>11. ASSUME pc \in {"compare", "full", "bytes"}, UNCHANGED <<sizes, queue>>,
              \/ pc = "compare" /\ pc' = "full" /\ b' = b
              \/ pc = "full" /\ pc' = "bytes" /\ b' = b
              \/ pc' = "compare" /\ b' = b + 1
       PROVE  StepLowers
  <2>1. StageLeft' = StageLeft /\ GroupsLeft' = GroupsLeft /\ SizesLeft' = SizesLeft
    BY <1>7, <1>11 DEF StageLeft, GroupsLeft
  <2>2. StepsLeft' < StepsLeft
    <3>1. CASE pc = "compare" /\ pc' = "full" /\ b' = b
      BY <1>11, <1>t, <3>1 DEF StepsLeft, Comparisons
    <3>2. CASE pc = "full" /\ pc' = "bytes" /\ b' = b
      BY <1>11, <1>t, <3>2 DEF StepsLeft, Comparisons
    <3>3. CASE pc' = "compare" /\ b' = b + 1
      <4>1. Comparisons \in Int /\ Comparisons' = Comparisons - 1
        BY <1>11, <1>t, <3>3 DEF Comparisons
      <4>2. StepsLeft' = 3 * Comparisons' + 2
        BY <3>3 DEF StepsLeft
      <4>3. StepsLeft \in {3 * Comparisons, 3 * Comparisons + 1, 3 * Comparisons + 2}
        BY <1>11 DEF StepsLeft
      <4>. QED
        BY <4>1, <4>2, <4>3
    <3>. QED
      BY <1>11, <3>1, <3>2, <3>3
  <2>. QED
    BY <2>1, <2>2
<1>12. CASE ComparePartial
  BY <1>11, <1>12 DEF ComparePartial, NextB
<1>13. CASE CompareFull
  BY <1>11, <1>13 DEF CompareFull, NextB
<1>14. CASE CompareBytes
  BY <1>11, <1>14 DEF CompareBytes, NextB
<1>15. ASSUME sets # <<>>, sets' = Tail(sets), sizes' = sizes, pc' = pc, pc \in {"set", "print"}
       PROVE  StepLowers
  <2>1. Len(sets') = Len(sets) - 1
    BY <1>15 DEF ShapeInv, TypeOK
  <2>. QED
    BY <1>7, <1>15, <1>t, <2>1 DEF StageLeft, GroupsLeft
<1>16. CASE PrintSet \/ SkipSet
  BY <1>15, <1>16 DEF PrintSet, SkipSet, matchVars
<1>17. CASE TakeSet
  BY <1>7, <1>17, <1>t DEF TakeSet, matchVars, StageLeft, GroupsLeft
<1>18. CASE RemoveFile
  BY <1>7, <1>18, <1>t DEF RemoveFile, matchVars, StageLeft, GroupsLeft, StepsLeft, Removals
<1>19. CASE SetDone
  <2>1. sets # <<>>
    BY <1>19 DEF SetDone, ShapeInv
  <2>2. Len(sets') = Len(sets) - 1
    BY <1>19, <2>1 DEF SetDone, ShapeInv, TypeOK
  <2>3. pc = "remove" /\ pc' = "set" /\ sizes' = sizes
    BY <1>19 DEF SetDone, matchVars
  <2>4. GroupsLeft = 2 * Len(sets) /\ GroupsLeft' = 2 * Len(sets') + 1
    BY <2>3 DEF GroupsLeft
  <2>5. StageLeft' = StageLeft
    BY <2>3 DEF StageLeft
  <2>. QED
    BY <1>7, <1>t, <2>2, <2>3, <2>4, <2>5
<1>. QED
  BY <1>1, <1>3, <1>5, <1>6, <1>8, <1>9, <1>10, <1>12, <1>13, <1>14, <1>16, <1>17, <1>18, <1>19
  DEF Program, Matching, Finishing

(* An answer, and what others do, never takes the program back.            *)
LEMMA OthersAreNotHigher ==
    ASSUME ShapeInv, VariantInv, [Next]_vars, ~Program
    PROVE  Variant' = Variant \/ StepLowers
<1>1. CASE QuitAnswer
  BY <1>1 DEF QuitAnswer, StageLeft, StepLowers, Lower
<1>2. ASSUME NEW tokens \in Answers, Answer(tokens) PROVE Variant' = Variant \/ StepLowers
  <2>1. StageLeft' = StageLeft /\ SizesLeft' = SizesLeft /\ GroupsLeft' = GroupsLeft
    BY <1>2 DEF Answer, matchVars, StageLeft, SizesLeft, GroupsLeft
  <2>2. CASE pc' = "prompt"
    <3>1. StepsLeft' = StepsLeft
      BY <1>2, <2>2 DEF Answer, StepsLeft, Removals
    <3>. QED
      BY <2>1, <3>1 DEF Variant
  <2>3. CASE pc' = "remove"
    <3>1. StepsLeft' < StepsLeft
      BY <1>2, <2>3, LengthTypes DEF Answer, StepsLeft, Removals
    <3>. QED
      BY <2>1, <3>1 DEF StepLowers, Lower
  <2>. QED
    BY <1>2, <2>2, <2>3 DEF Answer
<1>3. CASE (OtherWrites /\ UNCHANGED scenario) \/ UNCHANGED vars
  BY <1>3 DEF OtherWrites, vars, matchVars, deleteVars, Variant, StageLeft, SizesLeft,
        GroupsLeft, StepsLeft, Comparisons, Removals, Found
<1>. QED
  BY <1>1, <1>2, <1>3 DEF Next, User

(* Each step of the program brings it nearer to its end, for any number of *)
(* files, whatever others write meanwhile and whatever the user answers    *)
(* (build_matches(), src/fdupes.cpp:507-552, and deletefiles(), :242-343): *)
(* the variant of module FDupes falls.                                     *)
THEOREM NoStepIsRepeated == Spec => VariantFalls
<1>1. Init => VariantInv
  BY DEF Init, VariantInv, Comparing
<1>p. (ShapeInv /\ VariantInv =>
           StageLeft \in Nat /\ SizesLeft \in Nat /\ GroupsLeft \in Nat /\ StepsLeft \in Nat)'
  BY LeftTypes, PTL
<1>2. ShapeInv /\ VariantInv /\ ShapeInv' /\ VariantInv' /\ [Next]_vars =>
          /\ Variant' = Variant \/ Below(Variant', Variant)
          /\ Program => Below(Variant', Variant)
  <2>. SUFFICES ASSUME ShapeInv, VariantInv, ShapeInv', VariantInv', [Next]_vars
                PROVE  /\ Variant' = Variant \/ Below(Variant', Variant)
                       /\ Program => Below(Variant', Variant)
    OBVIOUS
  <2>1. /\ StageLeft \in Nat /\ SizesLeft \in Nat /\ GroupsLeft \in Nat /\ StepsLeft \in Nat
        /\ StageLeft' \in Nat /\ SizesLeft' \in Nat /\ GroupsLeft' \in Nat /\ StepsLeft' \in Nat
    BY <1>p, LeftTypes
  <2>2. StepLowers => Below(Variant', Variant)
    BY <2>1, LowerIsBelow DEF StepLowers, Variant
  <2>. QED
    BY <2>2, StepsAreLower, OthersAreNotHigher
<1>3. ShapeInv /\ VariantInv /\ ShapeInv' /\ VariantInv' /\ [Next]_vars =>
          [/\ Variant' = Variant \/ Below(Variant', Variant)
           /\ Program => Below(Variant', Variant)]_vars
  BY <1>2
<1>. QED
  BY <1>1, <1>3, ShapeInit, ShapeStep, VariantStep, PTL DEF Spec, VariantFalls

(* And it cannot fall for ever, so that build_matches() and deletefiles()  *)
(* (src/fdupes.cpp:507-552, 242-343) take finitely many steps, however     *)
(* many files there are.                                                   *)
BelowPairs == {pair \in Variants \X Variants : Below(pair[1], pair[2])}
THEOREM VariantEnds == IsWellFoundedOn(BelowPairs, Variants)
<1>. DEFINE Less == {pair \in Nat \X Nat : pair[1] < pair[2]}
<1>1. IsWellFoundedOn(Less, Nat)
  <2>1. ASSUME NEW T \in SUBSET Nat, T # {} PROVE \E n \in T : \A m \in T : ~ (<<m, n>> \in Less)
    <3>1. PICK n \in T : \A m \in T : n <= m
      BY <2>1, LeastNumber
    <3>2. \A m \in T : ~ (<<m, n>> \in Less)
      BY <3>1
    <3>. QED
      BY <3>2
  <2>. HIDE DEF Less
  <2>. QED
    BY <2>1, MinWF
<1>2. IsWellFoundedOn(LexProductOrdering(Less, Nat, 4), Variants)
  <2>. HIDE DEF Less
  <2>. QED
    BY <1>1, WFLexProductOrdering DEF Variants
<1>3. BelowPairs = LexProductOrdering(Less, Nat, 4)
  <2>1. ASSUME NEW pair \in Variants \X Variants
        PROVE  Below(pair[1], pair[2]) <=>
                   \E j \in 1..4 : /\ \A i \in 1..(j - 1) : pair[1][i] = pair[2][i]
                                  /\ <<pair[1][j], pair[2][j]>> \in Less
    <3>1. \A j \in 1..4 : pair[1][j] \in Nat /\ pair[2][j] \in Nat
      BY DEF Variants
    <3>2. \A j \in 1..4 : <<pair[1][j], pair[2][j]>> \in Less <=> pair[1][j] < pair[2][j]
      BY <3>1
    <3>3. {pair[1], pair[2]} \subseteq Variants
      OBVIOUS
    <3>. HIDE DEF Less
    <3>. QED
      BY <3>2, <3>3 DEF Below
  <2>. HIDE DEF Less
  <2>. QED
    BY <2>1 DEF BelowPairs, LexProductOrdering, Variants
<1>. HIDE DEF Less
<1>. QED
  BY <1>2, <1>3
==============================================================================
