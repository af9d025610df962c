----------------------------- MODULE OptionsProofs -----------------------------
(***************************************************************************)
(* Proofs about module Options, for any options that a program registers   *)
(* and any line: what getopt_long() has left of an earlier answer is not   *)
(* taken for a part of the latest one, and the usage shows every option.   *)
(***************************************************************************)
EXTENDS Options, FiniteSetTheorems, SequenceTheorems, WellFoundedInduction, TLAPS

(* A set of numbers has a least one.  The induction theorems of the library*)
(* take an operator; this takes a set, and comes from finite sets being    *)
(* well ordered by inclusion.                                              *)
LEMMA LeastNumber ==
    ASSUME NEW T \in SUBSET Nat, T # {}
    PROVE  \E n \in T : \A m \in T : n <= m
<1>. DEFINE F == {0..n : n \in T}
<1>1. F \subseteq FiniteSubsetsOf(Nat)
  <2>1. \A n \in Nat : IsFiniteSet(0..n)
    BY FS_Interval
  <2>2. \A n \in Nat : 0..n \subseteq Nat
    OBVIOUS
  <2>. QED
    BY <2>1, <2>2 DEF FiniteSubsetsOf
<1>2. F # {}
  OBVIOUS
<1>3. IsWellFoundedOn(StrictSubsetOrdering(Nat), FiniteSubsetsOf(Nat))
  BY FS_StrictSubsetOrderingWellFounded
<1>4. PICK s \in F : \A t \in F : ~ (<<t, s>> \in StrictSubsetOrdering(Nat))
  <2>. HIDE DEF F
  <2>. QED
    BY <1>1, <1>2, <1>3, WFMin
<1>5. PICK n \in T : s = 0..n
  BY <1>4
<1>6. ASSUME NEW m \in T PROVE n <= m
  <2>1. 0..m \in F
    OBVIOUS
  <2>2. ~ (<<0..m, 0..n>> \in StrictSubsetOrdering(Nat))
    BY <2>1, <1>4, <1>5
  <2>3. SUFFICES ASSUME m < n PROVE FALSE
    OBVIOUS
  <2>4. 0..m \subseteq 0..n /\ n \in 0..n /\ n \notin 0..m /\ 0..m \subseteq Nat /\ 0..n \subseteq Nat
    BY <2>3
  <2>. QED
    BY <2>2, <2>4 DEF StrictSubsetOrdering
<1>. QED
  BY <1>6

----------------------------------------------------------------------------
(* Joining and filtering sequences, in general.                            *)
(* Induction along the numbers, for a set.                                 *)
LEMMA AllNumbers ==
    ASSUME NEW T \in SUBSET Nat, 0 \in T, \A n \in T : n + 1 \in T
    PROVE  T = Nat
<1>. SUFFICES ASSUME Nat \ T # {} PROVE FALSE
  OBVIOUS
<1>1. PICK n \in Nat \ T : \A m \in Nat \ T : n <= m
  BY LeastNumber
<1>2. n # 0 /\ n - 1 \in Nat
  BY <1>1
<1>3. n - 1 \in T
  BY <1>1, <1>2
<1>. QED
  BY <1>1, <1>2, <1>3

(* FlattenSeq() joins one sequence after the other: the recursion of its   *)
(* definition has a solution.                                              *)
LEMMA JoinExists ==
    ASSUME NEW ss, NEW n \in Nat
    PROVE  \E g : g = [i \in 1..n |-> IF i = 1 THEN ss[i] ELSE g[i - 1] \o ss[i]]
<1>. DEFINE Solves(g, m) == g = [i \in 1..m |-> IF i = 1 THEN ss[i] ELSE g[i - 1] \o ss[i]]
            T == {m \in Nat : \E g : Solves(g, m)}
<1>1. 0 \in T
  <2>1. Solves(<<>>, 0)
    <3>1. 1..0 = {}
      OBVIOUS
    <3>. QED
      BY <3>1
  <2>. QED
    BY <2>1
<1>2. ASSUME NEW m \in T PROVE m + 1 \in T
  <2>1. PICK g : Solves(g, m)
    OBVIOUS
  <2>. DEFINE h == [i \in 1..(m + 1) |->
                      IF i <= m THEN g[i] ELSE IF i = 1 THEN ss[i] ELSE g[i - 1] \o ss[i]]
  <2>2. DOMAIN g = 1..m /\ \A i \in 1..m : g[i] = IF i = 1 THEN ss[i] ELSE g[i - 1] \o ss[i]
    BY <2>1
  <2>3. \A i \in 1..(m + 1) : i # 1 => h[i - 1] = g[i - 1]
    OBVIOUS
  <2>4. \A i \in 1..(m + 1) : h[i] = IF i = 1 THEN ss[i] ELSE h[i - 1] \o ss[i]
    <3>. TAKE i \in 1..(m + 1)
    <3>1. CASE i <= m
      <4>1. h[i] = g[i] /\ i \in 1..m
        BY <3>1
      <4>. QED
        BY <2>2, <2>3, <4>1
    <3>2. CASE ~(i <= m)
      <4>1. h[i] = IF i = 1 THEN ss[i] ELSE g[i - 1] \o ss[i]
        BY <3>2
      <4>. QED
        BY <2>3, <4>1
    <3>. QED
      BY <3>1, <3>2
  <2>5. DOMAIN h = 1..(m + 1) /\ h = [i \in DOMAIN h |-> h[i]]
    OBVIOUS
  <2>6. Solves(h, m + 1)
    <3>. HIDE DEF h
    <3>. QED
      BY <2>4, <2>5
  <2>7. m + 1 \in Nat
    OBVIOUS
  <2>. HIDE DEF h, Solves
  <2>. QED
    BY <2>6, <2>7
<1>3. T = Nat
  <2>. HIDE DEF T
  <2>1. T \in SUBSET Nat
    BY DEF T
  <2>. QED
    BY <1>1, <1>2, <2>1, AllNumbers
<1>. QED
  BY <1>3

(* What has been joined after each of them.                                *)
Joins(f, ss, S) ==
    /\ f \in [0..Len(ss) -> Seq(S)]
    /\ f[0] = <<>>
    /\ \A i \in 1..Len(ss) : f[i] = f[i - 1] \o ss[i]

LEMMA JoinedStepwise ==
    ASSUME NEW S, NEW ss \in Seq(Seq(S))
    PROVE  \E f : Joins(f, ss, S) /\ FlattenSeq(ss) = f[Len(ss)]
<1>1. PICK n \in Nat : n = Len(ss) /\ \A i \in 1..n : ss[i] \in Seq(S)
  OBVIOUS
<1>. DEFINE Solves(g) == g = [i \in 1..n |-> IF i = 1 THEN ss[i] ELSE g[i - 1] \o ss[i]]
<1>2. PICK g : Solves(g) /\ g = CHOOSE h : Solves(h)
  BY JoinExists
<1>3. \A i \in 1..n : g[i] = IF i = 1 THEN ss[i] ELSE g[i - 1] \o ss[i]
  BY <1>2
<1>4. PICK f : f = [i \in 0..n |-> IF i = 0 THEN <<>> ELSE g[i]]
  OBVIOUS
<1>5. DOMAIN f = 0..n /\ f[0] = <<>> /\ \A i \in 1..n : f[i] = g[i] /\ i - 1 \in 0..n
  BY <1>4
<1>6. \A i \in 1..n : f[i] = f[i - 1] \o ss[i]
  <2>. TAKE i \in 1..n
  <2>1. CASE i = 1
    <3>1. ss[i] \in Seq(S) /\ f[i] = ss[i] /\ f[i - 1] = <<>>
      BY <1>1, <1>3, <1>5, <2>1
    <3>. QED
      BY <3>1
  <2>2. CASE i # 1
    <3>1. i - 1 \in 1..n
      BY <2>2
    <3>. QED
      BY <1>3, <1>5, <2>2, <3>1
  <2>. QED
    BY <2>1, <2>2
<1>7. ASSUME NEW k \in 0..n PROVE f[k] \in Seq(S)
  <2>. DEFINE T == {m \in Nat : m <= n => f[m] \in Seq(S)}
  <2>1. 0 \in T
    <3>1. f[0] \in Seq(S)
      BY <1>5
    <3>. QED
      BY <3>1
  <2>2. ASSUME NEW m \in T PROVE m + 1 \in T
    <3>. SUFFICES ASSUME m + 1 <= n PROVE f[m + 1] \in Seq(S)
      OBVIOUS
    <3>0. m \in Nat /\ (m <= n => f[m] \in Seq(S))
      OBVIOUS
    <3>. HIDE DEF T
    <3>1. m + 1 \in 1..n /\ (m + 1) - 1 = m /\ f[m] \in Seq(S)
      BY <3>0
    <3>2. f[m + 1] = f[m] \o ss[m + 1] /\ ss[m + 1] \in Seq(S)
      BY <1>1, <1>6, <3>1
    <3>. QED
      BY <3>1, <3>2
  <2>3. T = Nat
    <3>. HIDE DEF T
    <3>1. T \in SUBSET Nat
      BY DEF T
    <3>. QED
      BY <2>1, <2>2, <3>1, AllNumbers
  <2>. QED
    BY <2>3
<1>8. f \in [0..n -> Seq(S)]
  <2>1. f = [i \in 0..n |-> f[i]]
    BY <1>4
  <2>. QED
    BY <1>7, <2>1
<1>9. FlattenSeq(ss) = f[n]
  <2>1. CASE n = 0
    <3>1. ss = <<>>
      BY <1>1, <2>1, EmptySeq
    <3>2. FlattenSeq(ss) = ss
      BY <3>1 DEF FlattenSeq
    <3>. QED
      BY <1>5, <2>1, <3>1, <3>2
  <2>2. CASE n # 0
    <3>1. FlattenSeq(ss) = g[n]
      BY <1>1, <1>2, <2>2 DEF FlattenSeq
    <3>. QED
      BY <1>5, <2>2, <3>1
  <2>. QED
    BY <2>1, <2>2
<1>. QED
  BY <1>1, <1>5, <1>6, <1>8, <1>9 DEF Joins

(* One sequence more.                                                      *)
LEMMA JoinedAppend ==
    ASSUME NEW S, NEW ss \in Seq(Seq(S)), NEW s \in Seq(S)
    PROVE  /\ FlattenSeq(ss) \in Seq(S)
           /\ FlattenSeq(Append(ss, s)) = FlattenSeq(ss) \o s
<1>1. PICK n \in Nat : n = Len(ss)
  OBVIOUS
<1>2. PICK tt \in Seq(Seq(S)) : tt = Append(ss, s)
  BY AppendProperties
<1>3. /\ Len(tt) = n + 1 /\ tt[n + 1] = s
      /\ \A i \in 1..n : tt[i] = ss[i] /\ i - 1 \in 0..n /\ i \in 1..(n + 1)
  BY <1>1, <1>2
<1>4. PICK f : Joins(f, ss, S) /\ FlattenSeq(ss) = f[n]
  BY <1>1, JoinedStepwise
<1>5. PICK g : Joins(g, tt, S) /\ FlattenSeq(tt) = g[n + 1]
  BY <1>3, JoinedStepwise
<1>6. /\ f[0] = <<>> /\ \A i \in 1..n : f[i] = f[i - 1] \o ss[i]
      /\ g[0] = <<>> /\ \A i \in 1..(n + 1) : g[i] = g[i - 1] \o tt[i]
      /\ f[n] \in Seq(S)
  <2>1. f \in [0..n -> Seq(S)] /\ n \in 0..n
    BY <1>1, <1>4 DEF Joins
  <2>2. f[n] \in Seq(S)
    BY <2>1
  <2>3. f[0] = <<>> /\ \A i \in 1..n : f[i] = f[i - 1] \o ss[i]
    BY <1>1, <1>4 DEF Joins
  <2>4. g[0] = <<>> /\ \A i \in 1..(n + 1) : g[i] = g[i - 1] \o tt[i]
    BY <1>3, <1>5 DEF Joins
  <2>. QED
    BY <2>2, <2>3, <2>4
<1>7. g[n] = f[n]
  <2>. DEFINE T == {m \in Nat : m <= n => g[m] = f[m]}
  <2>1. 0 \in T
    BY <1>6
  <2>2. ASSUME NEW m \in T PROVE m + 1 \in T
    <3>. SUFFICES ASSUME m + 1 <= n PROVE g[m + 1] = f[m + 1]
      OBVIOUS
    <3>0. m \in Nat /\ (m <= n => g[m] = f[m])
      OBVIOUS
    <3>. HIDE DEF T
    <3>1. m + 1 \in 1..n /\ (m + 1) - 1 = m /\ g[m] = f[m]
      BY <3>0
    <3>2. g[m + 1] = g[m] \o tt[m + 1] /\ f[m + 1] = f[m] \o ss[m + 1] /\ tt[m + 1] = ss[m + 1]
      BY <1>3, <1>6, <3>1
    <3>. QED
      BY <3>1, <3>2
  <2>3. T = Nat
    <3>. HIDE DEF T
    <3>1. T \in SUBSET Nat
      BY DEF T
    <3>. QED
      BY <2>1, <2>2, <3>1, AllNumbers
  <2>. QED
    BY <2>3
<1>8. g[n + 1] = g[n] \o s
  <2>1. n + 1 \in 1..(n + 1) /\ (n + 1) - 1 = n
    OBVIOUS
  <2>. QED
    BY <1>3, <1>6, <2>1
<1>. QED
  BY <1>2, <1>4, <1>5, <1>6, <1>7, <1>8

(* Longer sequences, by names that the provers leave alone.                *)
Then(s, e) == Append(s, e)
Join(a, b) == a \o b

LEMMA ThenIs ==
    ASSUME NEW S, NEW s \in Seq(S), NEW e \in S
    PROVE  /\ Then(s, e) \in Seq(S) /\ Len(s) \in Nat /\ Len(Then(s, e)) = Len(s) + 1
           /\ Then(s, e)[Len(s) + 1] = e
           /\ \A i \in 1..Len(s) : Then(s, e)[i] = s[i]
BY AppendProperties, LenProperties DEF Then

LEMMA JoinIs ==
    ASSUME NEW S, NEW a \in Seq(S), NEW b \in Seq(S)
    PROVE  /\ Join(a, b) \in Seq(S)
           /\ Len(a) \in Nat /\ Len(b) \in Nat /\ Len(Join(a, b)) = Len(a) + Len(b)
           /\ \A i \in 1..Len(a) : Join(a, b)[i] = a[i]
           /\ \A i \in 1..Len(b) : Join(a, b)[Len(a) + i] = b[i]
           /\ Join(a, <<>>) = a /\ Join(<<>>, b) = b
BY ConcatProperties, ConcatEmptySeq, LenProperties DEF Join

LEMMA JoinThen ==
    ASSUME NEW S, NEW a \in Seq(S), NEW b \in Seq(S), NEW e \in S
    PROVE  Then(Join(a, b), e) = Join(a, Then(b, e))
<1>1. <<e>> \in Seq(S)
  OBVIOUS
<1>2. (a \o b) \o <<e>> = a \o (b \o <<e>>)
  BY <1>1, ConcatAssociative
<1>3. a \o b \in Seq(S)
  BY ConcatProperties
<1>4. Append(a \o b, e) = (a \o b) \o <<e>> /\ Append(b, e) = b \o <<e>>
  BY <1>3, AppendIsConcat
<1>. QED
  BY <1>2, <1>4 DEF Then, Join

(* Filtering, by a set.                                                    *)
Kept(s, P) == Chosen(s, LAMBDA o : o \in P)

LEMMA KeptEmpty == ASSUME NEW P PROVE Kept(<<>>, P) = <<>>
<1>1. [i \in DOMAIN <<>> |-> IF <<>>[i] \in P THEN <<<<>>[i]>> ELSE <<>>] = <<>>
  OBVIOUS
<1>. QED
  BY <1>1 DEF Kept, Chosen, FlattenSeq

LEMMA KeptThen ==
    ASSUME NEW S, NEW s \in Seq(S), NEW e \in S, NEW P
    PROVE  /\ Kept(s, P) \in Seq(S)
           /\ e \in P => Kept(Then(s, e), P) = Then(Kept(s, P), e)
           /\ e \notin P => Kept(Then(s, e), P) = Kept(s, P)
<1>. DEFINE Part(t) == [i \in DOMAIN t |-> IF t[i] \in P THEN <<t[i]>> ELSE <<>>]
            last == IF e \in P THEN <<e>> ELSE <<>>
<1>1. \A t \in Seq(S) : Part(t) \in Seq(Seq(S)) /\ Len(Part(t)) = Len(t)
                        /\ Kept(t, P) = FlattenSeq(Part(t))
  <2>. TAKE t \in Seq(S)
  <2>1. PICK n \in Nat : DOMAIN t = 1..n /\ n = Len(t)
    OBVIOUS
  <2>2. \A i \in 1..n : (IF t[i] \in P THEN <<t[i]>> ELSE <<>>) \in Seq(S)
    BY <2>1
  <2>3. Part(t) \in Seq(Seq(S)) /\ Len(Part(t)) = n
    BY <2>1, <2>2
  <2>. QED
    BY <2>1, <2>3 DEF Kept, Chosen
<1>2. last \in Seq(S)
  OBVIOUS
<1>3. Part(Append(s, e)) = Append(Part(s), last)
  <2>1. PICK n \in Nat : n = Len(s) /\ DOMAIN s = 1..n
    OBVIOUS
  <2>2. PICK t \in Seq(S) : t = Append(s, e)
    BY AppendProperties
  <2>3. DOMAIN t = 1..(n + 1) /\ t[n + 1] = e /\ \A i \in 1..n : t[i] = s[i]
    BY <2>1, <2>2
  <2>4. PICK u \in Seq(Seq(S)) : u = Part(s)
    BY <1>1
  <2>5. DOMAIN u = 1..n /\ Len(u) = n
    BY <1>1, <2>1, <2>4
  <2>6. \A i \in 1..n : u[i] = IF s[i] \in P THEN <<s[i]>> ELSE <<>>
    BY <2>1, <2>4
  <2>7. PICK v : v = Append(u, last)
    OBVIOUS
  <2>. HIDE DEF last
  <2>8. /\ v \in Seq(Seq(S)) /\ DOMAIN v = 1..(n + 1) /\ v[n + 1] = last
        /\ \A i \in 1..n : v[i] = u[i]
    BY <1>2, <2>5, <2>7
  <2>9. PICK w \in Seq(Seq(S)) : w = Part(t)
    BY <1>1
  <2>10. DOMAIN w = 1..(n + 1) /\ \A i \in 1..(n + 1) : w[i] = IF t[i] \in P THEN <<t[i]>> ELSE <<>>
    BY <2>3, <2>9
  <2>11. \A i \in 1..(n + 1) : w[i] = v[i]
    <3>. TAKE i \in 1..(n + 1)
    <3>1. CASE i = n + 1
      BY <2>3, <2>8, <2>10, <3>1 DEF last
    <3>2. CASE i # n + 1
      <4>1. i \in 1..n
        BY <3>2
      <4>. QED
        BY <2>3, <2>6, <2>8, <2>10, <4>1
    <3>. QED
      BY <3>1, <3>2
  <2>12. Len(w) = n + 1 /\ Len(v) = n + 1
    BY <2>8, <2>10
  <2>13. w = v
    BY <2>8, <2>11, <2>12, SeqEqual
  <2>. QED
    BY <2>2, <2>4, <2>7, <2>9, <2>13
<1>4. Append(s, e) \in Seq(S)
  OBVIOUS
<1>5. Kept(s, P) = FlattenSeq(Part(s)) /\ Part(s) \in Seq(Seq(S))
      /\ Kept(Append(s, e), P) = FlattenSeq(Append(Part(s), last))
  <2>. HIDE DEF Part, last
  <2>. QED
    BY <1>1, <1>3, <1>4
<1>6. Kept(s, P) \in Seq(S) /\ Kept(Append(s, e), P) = Kept(s, P) \o last
  <2>. HIDE DEF Part, last
  <2>. QED
    BY <1>2, <1>5, JoinedAppend
<1>. QED
  <2>1. CASE e \in P
    BY <1>6, <2>1, AppendIsConcat DEF Then
  <2>2. CASE e \notin P
    BY <1>6, <2>2, ConcatEmptySeq DEF Then
  <2>. QED
    BY <2>1, <2>2

(* Induction along sequences, for a set of them.                           *)
LEMMA AllSequences ==
    ASSUME NEW S, NEW T \in SUBSET Seq(S), <<>> \in T,
           \A s \in T : \A e \in S : Then(s, e) \in T
    PROVE  T = Seq(S)
<1>. DEFINE N == {n \in Nat : \A s \in Seq(S) : Len(s) = n => s \in T}
<1>1. 0 \in N
  <2>1. \A s \in Seq(S) : Len(s) = 0 => s = <<>>
    BY EmptySeq
  <2>. QED
    BY <2>1
<1>2. ASSUME NEW n \in N PROVE n + 1 \in N
  <2>. SUFFICES ASSUME NEW s \in Seq(S), Len(s) = n + 1 PROVE s \in T
    OBVIOUS
  <2>1. PICK r \in Seq(S), e \in S : s = Then(r, e)
    <3>1. s # <<>>
      BY EmptySeq
    <3>. QED
      BY <3>1, SequenceEmptyOrAppend DEF Then
  <2>2. Len(r) = n
    BY <2>1, ThenIs
  <2>. QED
    BY <2>1, <2>2
<1>3. N = Nat
  <2>. HIDE DEF N
  <2>1. N \in SUBSET Nat
    BY DEF N
  <2>. QED
    BY <1>1, <1>2, <2>1, AllNumbers
<1>. QED
  BY <1>3, LenProperties

LEMMA KeptJoin ==
    ASSUME NEW S, NEW a \in Seq(S), NEW b \in Seq(S), NEW P
    PROVE  Kept(Join(a, b), P) = Join(Kept(a, P), Kept(b, P))
<1>. DEFINE T == {t \in Seq(S) : Kept(Join(a, t), P) = Join(Kept(a, P), Kept(t, P))}
<1>1. <<>> \in T
  <2>1. Kept(a, P) \in Seq(S)
    <3>1. CASE S = {}
      <4>1. a = <<>>
        BY <3>1, EmptySeq, LenProperties
      <4>. QED
        BY <4>1, KeptEmpty, EmptySeq
    <3>2. CASE S # {}
      BY <3>2, KeptThen
    <3>. QED
      BY <3>1, <3>2
  <2>2. Join(a, <<>>) = a /\ Join(Kept(a, P), <<>>) = Kept(a, P) /\ <<>> \in Seq(S)
    BY <2>1, JoinIs, EmptySeq
  <2>3. Kept(<<>>, P) = <<>>
    BY KeptEmpty
  <2>. QED
    BY <2>2, <2>3
<1>2. ASSUME NEW t \in Seq(S), NEW e \in S, t \in T PROVE Then(t, e) \in T
  <2>1. Join(a, t) \in Seq(S) /\ Then(t, e) \in Seq(S)
    BY JoinIs, ThenIs
  <2>2. Then(Join(a, t), e) = Join(a, Then(t, e))
    BY JoinThen
  <2>3. Kept(Join(a, t), P) = Join(Kept(a, P), Kept(t, P))
    BY <1>2
  <2>4. Kept(a, P) \in Seq(S) /\ Kept(t, P) \in Seq(S)
    BY KeptThen
  <2>7. Then(Join(Kept(a, P), Kept(t, P)), e) = Join(Kept(a, P), Then(Kept(t, P), e))
    BY <2>4, JoinThen
  <2>8. Kept(Join(a, Then(t, e)), P) = Join(Kept(a, P), Kept(Then(t, e), P))
    <3>1. CASE e \in P
      <4>1. Kept(Then(Join(a, t), e), P) = Then(Kept(Join(a, t), P), e)
            /\ Kept(Then(t, e), P) = Then(Kept(t, P), e)
        BY <2>1, <3>1, KeptThen
      <4>. QED
        BY <2>2, <2>3, <2>7, <4>1
    <3>2. CASE e \notin P
      <4>1. Kept(Then(Join(a, t), e), P) = Kept(Join(a, t), P)
            /\ Kept(Then(t, e), P) = Kept(t, P)
        BY <2>1, <3>2, KeptThen
      <4>. QED
        BY <2>2, <2>3, <4>1
    <3>. QED
      BY <3>1, <3>2
  <2>. QED
    BY <2>1, <2>8
<1>. HIDE DEF T
<1>3. T = Seq(S)
  <2>1. T \in SUBSET Seq(S)
    BY DEF T
  <2>. QED
    BY <1>1, <1>2, <2>1, AllSequences
<1>. QED
  BY <1>3 DEF T

(* What is kept is of the set, and so many.                                *)
LEMMA KeptWhat ==
    ASSUME NEW S, NEW s \in Seq(S), NEW P
    PROVE  /\ Kept(s, P) \in Seq(S \cap P)
           /\ Len(Kept(s, P)) = Cardinality({i \in 1..Len(s) : s[i] \in P})
           /\ IsFiniteSet({i \in 1..Len(s) : s[i] \in P})
           /\ (\A i \in 1..Len(s) : s[i] \in P) => Kept(s, P) = s
           /\ (\A i \in 1..Len(s) : s[i] \notin P) => Kept(s, P) = <<>>
<1>. DEFINE At(t) == {i \in 1..Len(t) : t[i] \in P}
            Good(t) == /\ Kept(t, P) \in Seq(S \cap P)
                       /\ Len(Kept(t, P)) = Cardinality(At(t))
                       /\ IsFiniteSet(At(t))
                       /\ (\A i \in 1..Len(t) : t[i] \in P) => Kept(t, P) = t
                       /\ (\A i \in 1..Len(t) : t[i] \notin P) => Kept(t, P) = <<>>
            T == {t \in Seq(S) : Good(t)}
<1>1. <<>> \in T
  <2>1. At(<<>>) = {} /\ Len(<<>>) = 0 /\ 1..0 = {}
    OBVIOUS
  <2>2. <<>> \in Seq(S) /\ <<>> \in Seq(S \cap P)
    BY EmptySeq
  <2>3. Good(<<>>)
    BY <2>1, <2>2, KeptEmpty, FS_EmptySet
  <2>. QED
    BY <2>2, <2>3
<1>2. ASSUME NEW t \in Seq(S), NEW e \in S, t \in T PROVE Then(t, e) \in T
  <2>. DEFINE u == Then(t, e)
              n == Len(t)
  <2>1. u \in Seq(S) /\ n \in Nat /\ Len(u) = n + 1 /\ u[n + 1] = e /\ \A i \in 1..n : u[i] = t[i]
    BY ThenIs, LenProperties
  <2>2. /\ e \in P => Kept(u, P) = Then(Kept(t, P), e)
        /\ e \notin P => Kept(u, P) = Kept(t, P)
    BY KeptThen
  <2>3. Good(t) /\ n + 1 \notin At(t)
    BY <1>2
  <2>4. At(u) = IF e \in P THEN At(t) \cup {n + 1} ELSE At(t)
    <3>. HIDE DEF u
    <3>1. 1..(n + 1) = (1..n) \cup {n + 1}
      BY <2>1
    <3>. QED
      BY <2>1, <3>1
  <2>5. Kept(u, P) \in Seq(S \cap P)
    <3>1. e \in P => Then(Kept(t, P), e) \in Seq(S \cap P)
      BY <2>3, ThenIs
    <3>. QED
      BY <2>2, <2>3, <3>1
  <2>6. IsFiniteSet(At(u)) /\ Len(Kept(u, P)) = Cardinality(At(u))
    <3>1. IsFiniteSet(At(t) \cup {n + 1})
          /\ Cardinality(At(t) \cup {n + 1}) = Cardinality(At(t)) + 1
      BY <2>3, FS_AddElement
    <3>2. e \in P => Len(Then(Kept(t, P), e)) = Len(Kept(t, P)) + 1
      <4>. SUFFICES ASSUME e \in P PROVE Len(Then(Kept(t, P), e)) = Len(Kept(t, P)) + 1
        OBVIOUS
      <4>1. PICK Q : Q = S \cap P
        OBVIOUS
      <4>2. Kept(t, P) \in Seq(Q) /\ e \in Q
        BY <2>3, <4>1
      <4>. HIDE DEF At, Good
      <4>. QED
        BY <4>2, ThenIs
    <3>. HIDE DEF At, u
    <3>. QED
      BY <2>2, <2>3, <2>4, <3>1, <3>2
  <2>7. (\A i \in 1..Len(u) : u[i] \in P) => Kept(u, P) = u
    <3>. SUFFICES ASSUME \A i \in 1..Len(u) : u[i] \in P PROVE Kept(u, P) = u
      OBVIOUS
    <3>1. e \in P /\ \A i \in 1..n : t[i] \in P
      <4>. HIDE DEF u
      <4>. QED
        BY <2>1
    <3>. QED
      BY <2>2, <2>3, <3>1
  <2>8. (\A i \in 1..Len(u) : u[i] \notin P) => Kept(u, P) = <<>>
    <3>. SUFFICES ASSUME \A i \in 1..Len(u) : u[i] \notin P PROVE Kept(u, P) = <<>>
      OBVIOUS
    <3>1. e \notin P /\ \A i \in 1..n : t[i] \notin P
      <4>. HIDE DEF u
      <4>. QED
        BY <2>1
    <3>. QED
      BY <2>2, <2>3, <3>1
  <2>9. Good(u)
    BY <2>5, <2>6, <2>7, <2>8
  <2>. HIDE DEF Good
  <2>. QED
    BY <2>1, <2>9
<1>3. T = Seq(S)
  <2>. HIDE DEF T
  <2>1. T \in SUBSET Seq(S)
    BY DEF T
  <2>. QED
    BY <1>1, <1>2, <2>1, AllSequences
<1>4. Good(s)
  BY <1>3
<1>. QED
  BY <1>4

(* The calls that add an option, to one section or to any.                 *)
Adds(S) == {o \in S : o.call = "add_option"}
AddsTo(S, s) == {o \in S : o.call = "add_option" /\ o.section = s}

LEMMA AskedIsKept ==
    ASSUME NEW S, NEW calls \in Seq(S), NEW s
    PROVE  Asked(calls, s) = Kept(calls, AddsTo(S, s))
<1>1. \A i \in DOMAIN calls : calls[i] \in S
  BY LenProperties
<1>2. [i \in DOMAIN calls |-> IF calls[i].call = "add_option" /\ calls[i].section = s
                              THEN <<calls[i]>> ELSE <<>>]
      = [i \in DOMAIN calls |-> IF calls[i] \in AddsTo(S, s) THEN <<calls[i]>> ELSE <<>>]
  BY <1>1 DEF AddsTo
<1>. QED
  BY <1>2 DEF Asked, Kept, Chosen

(* An order of some sections: none comes twice.                            *)
Orders(order) ==
    /\ order \in Seq(ToSet(order))
    /\ \A i, j \in 1..Len(order) : order[i] = order[j] => i = j

Groups(calls, order) == [i \in DOMAIN order |-> Asked(calls, order[i])]

(* What has been joined of the options, section by section: all those of   *)
(* the first k sections, and each in its place.                            *)
Grouped(f, k, S, calls, order) ==
    /\ f \in Seq(Adds(S))
    /\ Len(f) = Cardinality({x \in 1..Len(calls) :
                               /\ calls[x].call = "add_option"
                               /\ \E i \in 1..k : calls[x].section = order[i]})
    /\ \A i \in 1..k : Asked(f, order[i]) = Asked(calls, order[i])
    /\ \A s : (\A i \in 1..k : order[i] # s) => Asked(f, s) = <<>>
    /\ \A x \in 1..Len(f) : f[x] \in ToSet(calls) /\ \E i \in 1..k : f[x].section = order[i]
    /\ \A x, y \in 1..Len(f) : \A i, j \in 1..k :
          x < y /\ f[x].section = order[i] /\ f[y].section = order[j] => i <= j

LEMMA OfOwnElements ==
    ASSUME NEW S, NEW s \in Seq(S)
    PROVE  s \in Seq(ToSet(s))
<1>1. PICK n \in Nat : n = Len(s) /\ s \in [1..n -> S] /\ DOMAIN s = 1..n
  BY LenProperties
<1>2. \A i \in 1..n : s[i] \in ToSet(s)
  BY <1>1 DEF ToSet
<1>3. s \in [1..n -> ToSet(s)]
  BY <1>1, <1>2
<1>. QED
  BY <1>3

LEMMA GroupedMore ==
    ASSUME NEW S, NEW calls \in Seq(S), NEW order, Orders(order),
           NEW k \in Nat, k < Len(order), NEW f, Grouped(f, k, S, calls, order)
    PROVE  Grouped(Join(f, Asked(calls, order[k + 1])), k + 1, S, calls, order)
<1>. DEFINE s == order[k + 1]
            part == Asked(calls, s)
            g == Join(f, part)
<1>1. PICK n \in Nat : n = Len(order) /\ k + 1 \in 1..n /\ \A i \in 1..(k + 1) : i \in 1..n
  BY LenProperties DEF Orders
<1>2. \A i, j \in 1..(k + 1) : order[i] = order[j] => i = j
  BY <1>1 DEF Orders
<1>3. /\ f \in Seq(Adds(S)) /\ Len(f) \in Nat
      /\ \A x \in 1..Len(f) : f[x] \in ToSet(calls) /\ \E i \in 1..k : f[x].section = order[i]
  BY LenProperties DEF Grouped
<1>4. part = Kept(calls, AddsTo(S, s))
  BY AskedIsKept
<1>5. part \in Seq(S \cap AddsTo(S, s)) /\ S \cap AddsTo(S, s) = AddsTo(S, s)
  <2>1. part \in Seq(S \cap AddsTo(S, s))
    <3>. HIDE DEF part, s
    <3>. QED
      BY <1>4, KeptWhat
  <2>. QED
    BY <2>1 DEF AddsTo
<1>6. part \in Seq(AddsTo(S, s)) /\ Len(part) \in Nat /\ \A x \in 1..Len(part) : part[x] \in AddsTo(S, s)
  <2>. HIDE DEF part, s
  <2>. QED
    BY <1>5, LenProperties, ElementOfSeq
<1>7. part \in Seq(Adds(S))
  <2>. HIDE DEF part, s
  <2>1. AddsTo(S, s) \subseteq Adds(S)
    BY DEF AddsTo, Adds
  <2>. QED
    BY <1>6, <2>1
<1>8. /\ g \in Seq(Adds(S)) /\ Len(g) = Len(f) + Len(part)
      /\ \A x \in 1..Len(f) : g[x] = f[x]
      /\ \A x \in 1..Len(part) : g[Len(f) + x] = part[x]
  <2>1. PICK Q : Q = Adds(S)
    OBVIOUS
  <2>2. f \in Seq(Q) /\ part \in Seq(Q)
    BY <1>3, <1>7, <2>1
  <2>. HIDE DEF part
  <2>3. Join(f, part) \in Seq(Q) /\ Len(Join(f, part)) = Len(f) + Len(part)
    BY <2>2, JoinIs
  <2>4. ASSUME NEW x \in 1..Len(f) PROVE Join(f, part)[x] = f[x]
    BY <2>2, JoinIs
  <2>5. ASSUME NEW x \in 1..Len(part) PROVE Join(f, part)[Len(f) + x] = part[x]
    BY <2>2, JoinIs
  <2>. QED
    BY <2>1, <2>3, <2>4, <2>5
<1>. HIDE DEF part, g
(* How many there are. *)
<1>9. Len(g) = Cardinality({x \in 1..Len(calls) :
                              /\ calls[x].call = "add_option"
                              /\ \E i \in 1..(k + 1) : calls[x].section = order[i]})
  <2>. DEFINE Is(x) == calls[x].call = "add_option"
              A == {x \in 1..Len(calls) : Is(x) /\ \E i \in 1..k : calls[x].section = order[i]}
              B == {x \in 1..Len(calls) : calls[x] \in AddsTo(S, s)}
              C == {x \in 1..Len(calls) : Is(x) /\ \E i \in 1..(k + 1) : calls[x].section = order[i]}
  <2>1. Len(f) = Cardinality(A)
    BY DEF Grouped
  <2>2. Len(part) = Cardinality(B) /\ IsFiniteSet(B)
    <3>. HIDE DEF s
    <3>. QED
      BY <1>4, KeptWhat
  <2>3. B = {x \in 1..Len(calls) : Is(x) /\ calls[x].section = order[k + 1]}
    BY LenProperties, ElementOfSeq DEF AddsTo
  <2>4. A \cap B = {}
    <3>. SUFFICES ASSUME NEW x \in A, x \in B PROVE FALSE
      OBVIOUS
    <3>. HIDE DEF B
    <3>1. PICK i \in 1..k : calls[x].section = order[i]
      OBVIOUS
    <3>2. order[i] = order[k + 1] /\ i \in 1..(k + 1) /\ k + 1 \in 1..(k + 1) /\ i # k + 1
      BY <2>3, <3>1
    <3>. QED
      BY <1>2, <3>2
  <2>5. C = A \cup B
    <3>1. 1..(k + 1) = (1..k) \cup {k + 1}
      OBVIOUS
    <3>. QED
      BY <2>3, <3>1
  <2>6. IsFiniteSet(A)
    <3>1. IsFiniteSet(1..Len(calls)) /\ A \subseteq 1..Len(calls)
      BY LenProperties, FS_Interval
    <3>. HIDE DEF A
    <3>. QED
      BY <3>1, FS_Subset
  <2>7. Cardinality(A \cup B) = Cardinality(A) + Cardinality(B)
    <3>. HIDE DEF A, B
    <3>1. Cardinality(A \cup B) = Cardinality(A) + Cardinality(B) - Cardinality(A \cap B)
      BY <2>2, <2>6, FS_Union
    <3>2. Cardinality(A \cap B) = 0 /\ Cardinality(A) \in Nat /\ Cardinality(B) \in Nat
      BY <2>2, <2>4, <2>6, FS_EmptySet, FS_CardinalityType
    <3>. QED
      BY <3>1, <3>2
  <2>8. Len(g) = Cardinality(C)
    <3>. HIDE DEF A, B, C
    <3>. QED
      BY <1>8, <2>1, <2>2, <2>5, <2>7
  <2>. QED
    BY <2>8
(* What is asked of them. *)
<1>10. ASSUME NEW t
       PROVE  /\ Asked(g, t) = Join(Asked(f, t), Asked(part, t))
              /\ Asked(part, t) = IF t = s THEN part ELSE <<>>
              /\ Asked(f, t) \in Seq(S)
  <2>. HIDE DEF s
  <2>1. f \in Seq(S) /\ part \in Seq(S)
    <3>1. Adds(S) \subseteq S
      BY DEF Adds
    <3>. QED
      BY <1>3, <1>7, <3>1
  <2>2. g \in Seq(S)
    BY <2>1, JoinIs DEF g
  <2>. DEFINE P == AddsTo(S, t)
  <2>3. Asked(g, t) = Kept(g, P) /\ Asked(f, t) = Kept(f, P) /\ Asked(part, t) = Kept(part, P)
    BY <2>1, <2>2, AskedIsKept
  <2>. HIDE DEF P
  <2>4. Kept(Join(f, part), P) = Join(Kept(f, P), Kept(part, P))
    BY <2>1, KeptJoin
  <2>5. Kept(f, P) \in Seq(S)
    <3>1. Kept(f, P) \in Seq(S \cap P)
      BY <2>1, KeptWhat
    <3>2. S \cap P \subseteq S
      OBVIOUS
    <3>. QED
      BY <3>1, <3>2
  <2>6. Kept(part, P) = IF t = s THEN part ELSE <<>>
    <3>1. CASE t = s
      <4>1. \A x \in 1..Len(part) : part[x] \in P
        BY <1>6, <3>1 DEF P
      <4>. QED
        BY <2>1, <3>1, <4>1, KeptWhat
    <3>2. CASE t # s
      <4>1. \A x \in 1..Len(part) : part[x] \notin P
        BY <1>6, <3>2 DEF P, AddsTo
      <4>. QED
        BY <2>1, <3>2, <4>1, KeptWhat
    <3>. QED
      BY <3>1, <3>2
  <2>. QED
    BY <2>3, <2>4, <2>5, <2>6 DEF g
<1>11a. ASSUME NEW t, (\A i \in 1..k : order[i] # t) PROVE Asked(f, t) = <<>>
  BY <1>11a DEF Grouped
<1>11. \A i \in 1..(k + 1) : Asked(g, order[i]) = Asked(calls, order[i])
  <2>. TAKE i \in 1..(k + 1)
  <2>1. CASE i = k + 1
    <3>1. \A j \in 1..k : order[j] # s
      <4>. SUFFICES ASSUME NEW j \in 1..k, order[j] = order[k + 1] PROVE FALSE
        OBVIOUS
      <4>1. j \in 1..(k + 1) /\ k + 1 \in 1..(k + 1) /\ j # k + 1
        OBVIOUS
      <4>. QED
        BY <1>2, <4>1
    <3>. HIDE DEF s
    <3>2. Asked(f, s) = <<>> /\ Asked(part, s) = part /\ Asked(g, s) = Join(Asked(f, s), Asked(part, s))
      BY <1>10, <1>11a, <3>1
    <3>3. Join(<<>>, part) = part
      BY <1>6, EmptySeq, JoinIs
    <3>4. Asked(g, s) = Asked(calls, s)
      BY <3>2, <3>3 DEF part
    <3>. QED
      BY <2>1, <3>4 DEF s
  <2>2. CASE i # k + 1
    <3>1. i \in 1..k /\ order[i] # s
      <4>1. k + 1 \in 1..(k + 1)
        OBVIOUS
      <4>. QED
        BY <1>2, <2>2, <4>1
    <3>2. Asked(g, order[i]) = Join(Asked(f, order[i]), <<>>) /\ Asked(f, order[i]) \in Seq(S)
      BY <1>10, <3>1
    <3>3. Join(Asked(f, order[i]), <<>>) = Asked(f, order[i])
      BY <3>2, EmptySeq, JoinIs
    <3>. QED
      BY <3>1, <3>2, <3>3 DEF Grouped
  <2>. QED
    BY <2>1, <2>2
<1>12. \A t : (\A i \in 1..(k + 1) : order[i] # t) => Asked(g, t) = <<>>
  <2>. SUFFICES ASSUME NEW t, \A i \in 1..(k + 1) : order[i] # t PROVE Asked(g, t) = <<>>
    OBVIOUS
  <2>1. t # s /\ \A i \in 1..k : order[i] # t
    OBVIOUS
  <2>2. Asked(g, t) = Join(<<>>, <<>>)
    BY <1>10, <1>11a, <2>1
  <2>3. Join(<<>>, <<>>) = <<>>
    BY EmptySeq, JoinIs
  <2>. QED
    BY <2>2, <2>3
(* The elements of what is joined, of the first part or of the second. *)
<1>13a. \A x \in 1..Len(part) : part[x] \in ToSet(calls) /\ part[x].section = s
  <2>. HIDE DEF s
  <2>1. calls \in Seq(ToSet(calls))
    BY OfOwnElements
  <2>. DEFINE P == AddsTo(ToSet(calls), s)
  <2>2. part = Kept(calls, P)
    BY <2>1, AskedIsKept DEF part
  <2>. HIDE DEF P
  <2>3. part \in Seq(ToSet(calls) \cap P)
    BY <2>1, <2>2, KeptWhat
  <2>. QED
    BY <1>6, <2>3, ElementOfSeq DEF AddsTo
<1>13b. ASSUME NEW x \in 1..Len(g)
        PROVE  \/ x \in 1..Len(f) /\ g[x] = f[x]
               \/ x > Len(f) /\ \E y \in 1..Len(part) : g[x] = part[y]
  <2>1. CASE x <= Len(f)
    BY <1>3, <1>8, <2>1
  <2>2. CASE ~(x <= Len(f))
    <3>1. x - Len(f) \in 1..Len(part) /\ Len(f) + (x - Len(f)) = x
      BY <1>3, <1>6, <1>8, <2>2
    <3>2. g[x] = part[x - Len(f)]
      BY <1>8, <3>1
    <3>. QED
      BY <1>3, <1>8, <2>2, <3>1, <3>2
  <2>. QED
    BY <2>1, <2>2
(* Where they come from, and in which order. *)
<1>13. \A x \in 1..Len(g) : g[x] \in ToSet(calls) /\ \E i \in 1..(k + 1) : g[x].section = order[i]
  <2>1. 1..k \subseteq 1..(k + 1) /\ k + 1 \in 1..(k + 1)
    OBVIOUS
  <2>. QED
    <3>. TAKE x \in 1..Len(g)
    <3>1. CASE x \in 1..Len(f) /\ g[x] = f[x]
      BY <1>3, <2>1, <3>1
    <3>2. CASE \E y \in 1..Len(part) : g[x] = part[y]
      BY <1>13a, <2>1, <3>2
    <3>. QED
      BY <1>13b, <3>1, <3>2
<1>14. \A x, y \in 1..Len(g) : \A i, j \in 1..(k + 1) :
          x < y /\ g[x].section = order[i] /\ g[y].section = order[j] => i <= j
  <2>. SUFFICES ASSUME NEW x \in 1..Len(g), NEW y \in 1..Len(g), x < y,
                       NEW i \in 1..(k + 1), NEW j \in 1..(k + 1),
                       g[x].section = order[i], g[y].section = order[j]
                PROVE  i <= j
    OBVIOUS
  <2>1. CASE y > Len(f) /\ \E z \in 1..Len(part) : g[y] = part[z]
    <3>1. g[y].section = order[k + 1]
      BY <1>13a, <2>1
    <3>2. j = k + 1
      <4>1. order[j] = order[k + 1] /\ k + 1 \in 1..(k + 1)
        BY <3>1
      <4>. QED
        BY <1>2, <4>1
    <3>. QED
      BY <3>2
  <2>2. CASE y \in 1..Len(f) /\ g[y] = f[y]
    <3>1. x \in 1..Len(f) /\ g[x] = f[x]
      BY <1>3, <1>8, <2>2
    <3>2. PICK a \in 1..k, b \in 1..k : f[x].section = order[a] /\ f[y].section = order[b]
      BY <1>3, <2>2, <3>1
    <3>3. a = i /\ b = j
      <4>1. order[a] = order[i] /\ order[b] = order[j] /\ a \in 1..(k + 1) /\ b \in 1..(k + 1)
        BY <2>2, <3>1, <3>2
      <4>. QED
        BY <1>2, <4>1
    <3>. QED
      BY <2>2, <3>1, <3>2, <3>3 DEF Grouped
  <2>. QED
    BY <1>13b, <2>1, <2>2
<1>15. Grouped(g, k + 1, S, calls, order)
  BY <1>8, <1>9, <1>11, <1>12, <1>13, <1>14 DEF Grouped
<1>. QED
  BY <1>15 DEF g, part

(* Section by section, all options that were added come once, each section *)
(* in its order.                                                           *)
LEMMA GroupsJoined ==
    ASSUME NEW S, NEW calls \in Seq(S), NEW order, Orders(order)
    PROVE  Grouped(FlattenSeq(Groups(calls, order)), Len(order), S, calls, order)
<1>1. PICK n \in Nat : n = Len(order) /\ DOMAIN order = 1..n
  BY LenProperties DEF Orders
<1>2. PICK ss : ss = Groups(calls, order)
  OBVIOUS
<1>3. \A i \in 1..n : Asked(calls, order[i]) \in Seq(Adds(S))
  <2>. TAKE i \in 1..n
  <2>1. Asked(calls, order[i]) \in Seq(S \cap AddsTo(S, order[i]))
    <3>1. Asked(calls, order[i]) = Kept(calls, AddsTo(S, order[i]))
      BY AskedIsKept
    <3>2. PICK P : P = AddsTo(S, order[i])
      OBVIOUS
    <3>3. Kept(calls, P) \in Seq(S \cap P)
      BY KeptWhat
    <3>. QED
      BY <3>1, <3>2, <3>3
  <2>2. S \cap AddsTo(S, order[i]) \subseteq Adds(S)
    BY DEF AddsTo, Adds
  <2>. QED
    BY <2>1, <2>2
<1>4. ss \in Seq(Seq(Adds(S))) /\ Len(ss) = n /\ \A i \in 1..n : ss[i] = Asked(calls, order[i])
  BY <1>1, <1>2, <1>3 DEF Groups
<1>5. PICK f : Joins(f, ss, Adds(S)) /\ FlattenSeq(ss) = f[n]
  BY <1>4, JoinedStepwise
<1>6. f[0] = <<>> /\ \A i \in 1..n : f[i] = Join(f[i - 1], Asked(calls, order[i]))
  BY <1>4, <1>5 DEF Joins, Join
<1>. DEFINE T == {k \in Nat : k <= n => Grouped(f[k], k, S, calls, order)}
<1>7. 0 \in T
  <2>1. 1..0 = {} /\ Len(<<>>) = 0 /\ <<>> \in Seq(Adds(S))
    BY EmptySeq
  <2>2. {x \in 1..Len(calls) : /\ calls[x].call = "add_option"
                               /\ \E i \in 1..0 : calls[x].section = order[i]} = {}
    BY <2>1
  <2>3. ASSUME NEW s PROVE Asked(<<>>, s) = <<>>
    <3>1. <<>> \in Seq(S)
      BY EmptySeq
    <3>. QED
      BY <3>1, AskedIsKept, KeptEmpty
  <2>4. Grouped(<<>>, 0, S, calls, order)
    BY <2>1, <2>2, <2>3, FS_EmptySet DEF Grouped
  <2>. QED
    BY <1>6, <2>4
<1>8. ASSUME NEW k \in T PROVE k + 1 \in T
  <2>. SUFFICES ASSUME k + 1 <= n PROVE Grouped(f[k + 1], k + 1, S, calls, order)
    OBVIOUS
  <2>1. k \in Nat /\ k < Len(order) /\ Grouped(f[k], k, S, calls, order)
    BY <1>1
  <2>2. Grouped(Join(f[k], Asked(calls, order[k + 1])), k + 1, S, calls, order)
    BY <2>1, GroupedMore
  <2>3. k + 1 \in 1..n /\ (k + 1) - 1 = k
    BY <2>1
  <2>. QED
    BY <1>6, <2>2, <2>3
<1>9. T = Nat
  <2>. HIDE DEF T
  <2>1. T \in SUBSET Nat
    BY DEF T
  <2>. QED
    BY <1>7, <1>8, <2>1, AllNumbers
<1>. QED
  BY <1>1, <1>2, <1>5, <1>9

(* Where no option is of another section, all are there.                   *)
Whole(g, S, calls, order) ==
    /\ g \in Seq(Adds(S)) /\ ToSet(g) \subseteq ToSet(calls)
    /\ Len(g) = Cardinality({x \in 1..Len(calls) : calls[x].call = "add_option"})
    /\ \A s : Asked(g, s) = Asked(calls, s)
    /\ \A x, y \in 1..Len(g) : \A i, j \in 1..Len(order) :
          x < y /\ g[x].section = order[i] /\ g[y].section = order[j] => i <= j
    /\ \A x \in 1..Len(g) : \E i \in 1..Len(order) : g[x].section = order[i]

LEMMA GroupsWhole ==
    ASSUME NEW S, NEW calls \in Seq(S), NEW order, Orders(order),
           \A x \in 1..Len(calls) :
              calls[x].call = "add_option" => \E i \in 1..Len(order) : calls[x].section = order[i]
    PROVE  Whole(FlattenSeq(Groups(calls, order)), S, calls, order)
<1>. DEFINE g == FlattenSeq(Groups(calls, order))
<1>1. PICK n \in Nat : n = Len(order)
  BY LenProperties DEF Orders
<1>2. Grouped(g, n, S, calls, order)
  BY <1>1, GroupsJoined
<1>. HIDE DEF g
<1>3. {x \in 1..Len(calls) : calls[x].call = "add_option"
                             /\ \E i \in 1..n : calls[x].section = order[i]}
      = {x \in 1..Len(calls) : calls[x].call = "add_option"}
  BY <1>1
<1>4. ASSUME NEW s PROVE Asked(g, s) = Asked(calls, s)
  <2>1. CASE \E i \in 1..n : order[i] = s
    BY <1>2, <2>1 DEF Grouped
  <2>2. CASE \A i \in 1..n : order[i] # s
    <3>1. Asked(g, s) = <<>>
      BY <1>2, <2>2 DEF Grouped
    <3>2. \A x \in 1..Len(calls) : calls[x] \notin AddsTo(S, s)
      BY <1>1, <2>2 DEF AddsTo
    <3>3. Asked(calls, s) = <<>>
      <4>1. Asked(calls, s) = Kept(calls, AddsTo(S, s))
        BY AskedIsKept
      <4>. QED
        BY <3>2, <4>1, KeptWhat
    <3>. QED
      BY <3>1, <3>3
  <2>. QED
    BY <2>1, <2>2
<1>5. g \in Seq(Adds(S)) /\ ToSet(g) \subseteq ToSet(calls)
  <2>1. g \in Seq(Adds(S)) /\ \A x \in 1..Len(g) : g[x] \in ToSet(calls)
    BY <1>2 DEF Grouped
  <2>2. DOMAIN g = 1..Len(g)
    BY <2>1, LenProperties
  <2>3. ToSet(g) = {g[x] : x \in DOMAIN g}
    BY DEF ToSet
  <2>. QED
    BY <2>1, <2>2, <2>3
<1>. QED
  <2>1. Whole(g, S, calls, order)
    BY <1>1, <1>2, <1>3, <1>4, <1>5 DEF Grouped, Whole
  <2>. QED
    BY <2>1 DEF g

(* A finite set that is ordered strictly and totally can be sorted.        *)
LEMMA SortedExists ==
    ASSUME NEW S, IsFiniteSet(S), NEW R,
           \A s \in S : <<s, s>> \notin R,
           \A s, t, u \in S : <<s, t>> \in R /\ <<t, u>> \in R => <<s, u>> \in R,
           \A s, t \in S : s = t \/ <<s, t>> \in R \/ <<t, s>> \in R
    PROVE  \E order \in SetToSeqs(S) :
              \A i, j \in DOMAIN order : i < j => <<order[i], order[j]>> \in R
<1>. DEFINE below(s) == {t \in S : <<t, s>> \in R}
            n == Cardinality(S)
            pos == [s \in S |-> 1 + Cardinality(below(s))]
<1>1. n \in Nat /\ \A s \in S : IsFiniteSet(below(s)) /\ Cardinality(below(s)) \in Nat
  <2>1. ASSUME NEW s \in S PROVE IsFiniteSet(below(s))
    BY FS_Subset
  <2>. HIDE DEF below
  <2>. QED
    BY <2>1, FS_CardinalityType
<1>2. ASSUME NEW s \in S, NEW t \in S, <<s, t>> \in R PROVE pos[s] < pos[t]
  <2>1. below(s) \subseteq below(t) /\ s \in below(t) /\ s \notin below(s)
    BY <1>2
  <2>3. pos[s] = 1 + Cardinality(below(s)) /\ pos[t] = 1 + Cardinality(below(t))
    OBVIOUS
  <2>. HIDE DEF below, pos
  <2>2. Cardinality(below(s)) <= Cardinality(below(t)) /\ Cardinality(below(s)) # Cardinality(below(t))
    BY <1>1, <2>1, FS_Subset
  <2>. QED
    BY <1>1, <2>2, <2>3
<1>3. \A s \in S : pos[s] \in 1..n
  <2>. TAKE s \in S
  <2>1. below(s) \subseteq S /\ s \notin below(s)
    OBVIOUS
  <2>2. pos[s] = 1 + Cardinality(below(s))
    OBVIOUS
  <2>. HIDE DEF below, pos
  <2>3. Cardinality(below(s)) <= n /\ Cardinality(below(s)) # n
    BY <2>1, FS_Subset
  <2>. QED
    BY <1>1, <2>2, <2>3
<1>4. pos \in Injection(S, 1..n)
  <2>1. pos \in [S -> 1..n]
    BY <1>3
  <2>2. DOMAIN pos = S
    OBVIOUS
  <2>. HIDE DEF pos
  <2>3. ASSUME NEW s \in S, NEW t \in S, pos[s] = pos[t] PROVE s = t
    <3>1. ~(pos[s] < pos[t]) /\ ~(pos[t] < pos[s])
      BY <1>3, <2>3
    <3>. QED
      BY <1>2, <3>1
  <2>. QED
    BY <2>1, <2>2, <2>3 DEF Injection, IsInjective
<1>. HIDE DEF pos
<1>5. pos \in Surjection(S, 1..n)
  <2>1. IsFiniteSet(1..n) /\ Cardinality(1..n) = n
    BY <1>1, FS_Interval
  <2>. HIDE DEF n
  <2>2. Cardinality(S) = Cardinality(1..n) <=> pos \in Surjection(S, 1..n)
    BY <1>4, <2>1, FS_Injection
  <2>. QED
    BY <2>1, <2>2 DEF n
<1>6. \A i \in 1..n : \E s \in S : pos[s] = i
  BY <1>5 DEF Surjection
<1>7. PICK order : order = [i \in 1..n |-> CHOOSE s \in S : pos[s] = i]
  OBVIOUS
<1>8. \A i \in 1..n : order[i] \in S /\ pos[order[i]] = i
  BY <1>6, <1>7
<1>9. order \in [1..n -> S] /\ DOMAIN order = 1..n
  BY <1>7, <1>8
<1>10. order \in SetToSeqs(S)
  BY <1>8, <1>9 DEF SetToSeqs
<1>11. ASSUME NEW i \in 1..n, NEW j \in 1..n, i < j PROVE <<order[i], order[j]>> \in R
  <2>1. order[i] # order[j] /\ ~(<<order[j], order[i]>> \in R)
    BY <1>2, <1>8, <1>11
  <2>. QED
    BY <1>8, <2>1
<1>. QED
  BY <1>9, <1>10, <1>11

(* Sequences of the elements of a set, each once.                          *)
LEMMA SeqsOfSet ==
    ASSUME NEW S, IsFiniteSet(S), NEW order \in SetToSeqs(S)
    PROVE  /\ Orders(order) /\ order \in Seq(S) /\ DOMAIN order = 1..Len(order)
           /\ Len(order) = Cardinality(S)
           /\ \A s \in S : \E i \in 1..Len(order) : order[i] = s
<1>1. PICK n \in Nat : n = Cardinality(S)
  BY FS_CardinalityType
<1>2. order \in [1..n -> S] /\ \A i, j \in 1..n : i # j => order[i] # order[j]
  BY <1>1 DEF SetToSeqs
<1>3. DOMAIN order = 1..n /\ Len(order) = n /\ order \in Seq(S)
  BY <1>2
<1>4. Orders(order)
  BY <1>2, <1>3, OfOwnElements DEF Orders
<1>5. order \in Surjection(1..n, S)
  <2>1. order \in Injection(1..n, S)
    BY <1>2, <1>3 DEF Injection, IsInjective
  <2>2. Cardinality(1..n) = n
    BY FS_Interval
  <2>. QED
    BY <1>1, <2>1, <2>2, FS_Injection
<1>. QED
  BY <1>1, <1>3, <1>4, <1>5 DEF Surjection

----------------------------------------------------------------------------
(* An answer for a long option names one that there is; an answer for a    *)
(* short one is a letter that was registered; or nothing was understood.   *)
AnswerInv ==
    pc = "answered" =>
        IF long THEN c = "?" \/ index \in 1..Len(longopts)
        ELSE c \in ShortOptions \cup {"?"}

LEMMA OptionsFixed ==
    ASSUME parameters' = parameters
    PROVE  longopts' = longopts /\ ShortOptions' = ShortOptions
<1>1. Registered' = Registered
  BY DEF Registered
<1>. QED
  BY <1>1 DEF longopts, ShortOptions

(* The long option that a name stands for is one of those registered.      *)
LEMMA LongIndexIs ==
    ASSUME NEW name, Resolves(name)
    PROVE  LongIndex(name) \in 1..Len(longopts)
<1>. DEFINE exact == {i \in 1..Len(longopts) : longopts[i].name = name}
<1>1. exact # {} => (CHOOSE i \in exact : \A j \in exact : i <= j) \in exact
  <2>1. exact \in SUBSET Nat
    OBVIOUS
  <2>2. exact # {} => \E i \in exact : \A j \in exact : i <= j
    <3>. HIDE DEF exact
    <3>. QED
      BY <2>1, LeastNumber
  <2>. HIDE DEF exact
  <2>. QED
    BY <2>2
<1>2. Candidates(name) \subseteq 1..Len(longopts)
  BY <1>1 DEF Candidates
<1>3. Candidates(name) # {} /\ Candidates(name) \in SUBSET Nat
  <2>1. 1..Len(longopts) \subseteq Nat
    OBVIOUS
  <2>. QED
    BY <1>2, <2>1 DEF Resolves
<1>4. \E i \in Candidates(name) : \A j \in Candidates(name) : i <= j
  BY <1>3, LeastNumber
<1>5. LongIndex(name) \in Candidates(name)
  BY <1>4 DEF LongIndex
<1>. QED
  BY <1>2, <1>5

LEMMA AnswerStep == AnswerInv /\ [Next]_vars => AnswerInv'
<1>. SUFFICES ASSUME AnswerInv, [Next]_vars PROVE AnswerInv'
  OBVIOUS
<1>1. CASE AddSection \/ AddOption \/ StartGetopt \/ PassOperand \/ EnterCluster \/ OptionsEnd
          \/ Describe \/ CallByLetter \/ ShowUsage \/ CallByName
  <2>1. pc' # "answered"
    BY <1>1 DEF AddSection, AddOption, StartGetopt, PassOperand, EnterCluster, OptionsEnd, Scans,
                Answered, Describe, CallByLetter, ShowUsage, CallByName
  <2>. QED
    BY <2>1 DEF AnswerInv
<1>2. CASE ShortOption
  <2>1. parameters' = parameters /\ ~long'
    BY <1>2 DEF ShortOption, store
  <2>2. c' \in ShortOptions \cup {"?"}
    BY <1>2 DEF ShortOption, Refuse
  <2>. QED
    BY <2>1, <2>2, OptionsFixed DEF AnswerInv
<1>3. CASE LongOption
  <2>1. parameters' = parameters /\ long'
    BY <1>3 DEF LongOption, store
  <2>2. c' = "?" \/ (Resolves(Word.name) /\ index' = LongIndex(Word.name))
    BY <1>3 DEF LongOption, Refuse
  <2>3. c' = "?" \/ index' \in 1..Len(longopts)
    BY <2>2, LongIndexIs
  <2>. QED
    BY <2>1, <2>3, OptionsFixed DEF AnswerInv
<1>4. CASE UNCHANGED vars
  <2>1. UNCHANGED <<pc, long, c, index, parameters>>
    BY <1>4 DEF vars, answer, store
  <2>. QED
    BY <2>1, OptionsFixed DEF AnswerInv
<1>. QED
  BY <1>1, <1>2, <1>3, <1>4 DEF Next

(* A letter that was registered has functions, be they NULL, so that no    *)
(* letter is looked for among the long options.                            *)
LEMMA LettersHaveFunctions == AnswerInv => IndexFresh
<1>. SUFFICES ASSUME AnswerInv, pc = "answered", ByName
              PROVE  long /\ index \in 1..Len(longopts)
  BY DEF IndexFresh
<1>1. c \notin {"D", "h", "?"} /\ ~ByLetter
  BY DEF ByName, AsksUsage
<1>2. ASSUME c \in ShortOptions PROVE FALSE
  <2>1. PICK o \in ToSet(Registered) : c = o.opt /\ c # None
    BY <1>1, <1>2 DEF ShortOptions, Builtin
  <2>2. o.fn \in Functions(c)
    BY <2>1 DEF Functions
  <2>. QED
    BY <1>1, <2>1, <2>2 DEF ByLetter, HasFunctions
<1>. QED
  BY <1>1, <1>2 DEF AnswerInv

(* src/options.cpp:108: the index of an option that is looked up by its    *)
(* name is that of the latest answer, never one left from before.          *)
THEOREM IndexIsFresh == Spec => []IndexFresh
<1>1. Init => AnswerInv
  BY DEF Init, AnswerInv
<1>. QED
  BY <1>1, AnswerStep, LettersHaveFunctions, PTL DEF Spec

----------------------------------------------------------------------------
(* Registration: what has been stored is what the calls made so far ask    *)
(* for, section by section.                                                *)
Made == [i \in 1..made |-> program[i]]
PriorityAmong(n, s) ==
    LET given == {i \in 1..n : program[i].call = "add_section" /\ program[i].section = s}
    IN  \/ given = {} /\ sections[s] = DEFAULT_PRIORITY
        \/ \E i \in given : (\A j \in given : j <= i) /\ sections[s] = program[i].priority
RegInv ==
    /\ program \in Programs /\ line \in Lines[program]
    /\ made \in 0..Len(program)
    /\ IsFiniteSet(DOMAIN sections)
    /\ DOMAIN parameters \subseteq DOMAIN sections /\ DOMAIN sections \subseteq DOMAIN Rank
    /\ \A i \in 1..made :
          /\ program[i].section \in DOMAIN sections
          /\ program[i].call = "add_option" => program[i].section \in DOMAIN parameters
    /\ \A s \in DOMAIN parameters : parameters[s] = Asked(Made, s)
    /\ \A s \in DOMAIN sections : PriorityAmong(made, s)

(* What getopt() reads and answers.                                        *)
Vals == {o.val : o \in ToSet(longopts)}
InputInv ==
    /\ words \in Seq(DOMAIN Spelled) /\ operands \in Seq(DOMAIN Spelled)
    /\ DOMAIN cluster = {"letters", "value"}
    /\ cluster.letters \in Seq(ToSet(cluster.letters)) /\ cluster.value \in Arguments
    /\ optarg \in Arguments /\ long \in BOOLEAN
EffectInv == effects \in Seq(Effect)
PhaseInv ==
    /\ pc \in {"register", "getopt", "answered", "run", "exited"}
    /\ pc = "register" => c = None /\ index = 0
    /\ pc # "register" =>
         /\ made = Len(program)
         /\ c \in ShortOptions \cup Vals /\ index \in 0..Len(longopts)
    /\ pc = "exited" /\ c # "D" => shown = usage

(* A call of the program, as it may be.                                    *)
CallTyped(o) ==
    /\ o.section \in DOMAIN Rank
    /\ o.call = "add_section" => o.priority \in Int
    /\ o.call \in {"add_section", "add_option"}

LEMMA ProgramTyped ==
    ASSUME RegInv
    PROVE  /\ program \in Seq(ToSet(program)) /\ Len(program) \in Nat
           /\ DOMAIN program = 1..Len(program)
           /\ \A i \in 1..Len(program) : program[i] \in ToSet(program) /\ CallTyped(program[i])
           /\ \A o \in ToSet(program) : CallTyped(o)
<1>1. program \in Programs
  BY DEF RegInv
<1>2. program \in Seq(ToSet(program))
  BY <1>1, OptionsAssumption
<1>3. Len(program) \in Nat /\ DOMAIN program = 1..Len(program)
  BY <1>2, LenProperties
<1>4. ASSUME NEW i \in DOMAIN program PROVE CallTyped(program[i])
  BY <1>1, OptionsAssumption DEF CallTyped
<1>. QED
  BY <1>2, <1>3, <1>4 DEF ToSet

LEMMA MadeTyped ==
    ASSUME RegInv
    PROVE  /\ Made \in Seq(ToSet(program)) /\ Len(Made) = made /\ made \in Nat
           /\ DOMAIN Made = 1..made
           /\ \A i \in 1..made : Made[i] = program[i] /\ i \in 1..Len(program)
           /\ ToSet(Made) \subseteq ToSet(program)
           /\ made = Len(program) => Made = program
<1>1. made \in Nat /\ made <= Len(program) /\ \A i \in 1..made : i \in 1..Len(program)
  BY ProgramTyped DEF RegInv
<1>2. \A i \in 1..made : program[i] \in ToSet(program)
  BY <1>1, ProgramTyped
<1>3. Made \in Seq(ToSet(program)) /\ Len(Made) = made /\ DOMAIN Made = 1..made
  BY <1>1, <1>2 DEF Made
<1>4. \A i \in 1..made : Made[i] = program[i]
  BY DEF Made
<1>5. made = Len(program) => Made = program
  BY <1>3, <1>4, ProgramTyped, SeqEqual
<1>6. ToSet(Made) \subseteq ToSet(program)
  BY <1>2, <1>3, <1>4 DEF ToSet
<1>. QED
  BY <1>1, <1>3, <1>4, <1>5, <1>6

LEMMA OfSectionIs ==
    ASSUME RegInv, NEW s
    PROVE  OfSection(s) = Asked(Made, s)
<1>. DEFINE S == ToSet(program)
<1>1. CASE s \in DOMAIN parameters
  BY <1>1 DEF OfSection, RegInv
<1>2. CASE s \notin DOMAIN parameters
  <2>1. \A i \in 1..Len(Made) : Made[i] \notin AddsTo(S, s)
    BY <1>2, MadeTyped DEF RegInv, AddsTo
  <2>2. Asked(Made, s) = Kept(Made, AddsTo(S, s)) /\ Made \in Seq(S)
    BY MadeTyped, AskedIsKept
  <2>3. Kept(Made, AddsTo(S, s)) = <<>>
    BY <2>1, <2>2, KeptWhat
  <2>. QED
    BY <1>2, <2>2, <2>3 DEF OfSection
<1>. QED
  BY <1>1, <1>2

(* An order of the sections shows all options that have been added.        *)
LEMMA SectionsInOrder ==
    ASSUME RegInv, NEW X, IsFiniteSet(X), DOMAIN parameters \subseteq X,
           NEW order \in SetToSeqs(X)
    PROVE  Whole(FlattenSeq([i \in DOMAIN order |-> OfSection(order[i])]),
                 ToSet(program), Made, order)
<1>. DEFINE S == ToSet(program)
            g == FlattenSeq([i \in DOMAIN order |-> OfSection(order[i])])
<1>1. /\ Orders(order) /\ order \in Seq(X) /\ DOMAIN order = 1..Len(order)
      /\ \A s \in X : \E i \in 1..Len(order) : order[i] = s
  BY SeqsOfSet
<1>3. g = FlattenSeq(Groups(Made, order))
  <2>1. [i \in DOMAIN order |-> OfSection(order[i])] = [i \in DOMAIN order |-> Asked(Made, order[i])]
    BY OfSectionIs
  <2>. QED
    BY <2>1 DEF Groups
<1>4. \A x \in 1..Len(Made) :
         Made[x].call = "add_option" => \E i \in 1..Len(order) : Made[x].section = order[i]
  BY <1>1, MadeTyped DEF RegInv
<1>5. Made \in Seq(S)
  BY MadeTyped
<1>. HIDE DEF g, S
<1>6. Whole(FlattenSeq(Groups(Made, order)), S, Made, order)
  BY <1>1, <1>4, <1>5, GroupsWhole
<1>. QED
  BY <1>3, <1>6 DEF g, S

(* One call more.                                                          *)
LEMMA MadeMore ==
    ASSUME RegInv, made < Len(program), made' = made + 1, program' = program, NEW s
    PROVE  LET call == program[made + 1] IN
           Asked(Made', s) = IF call.call = "add_option" /\ call.section = s
                             THEN Append(Asked(Made, s), call) ELSE Asked(Made, s)
<1>1. PICK call \in ToSet(program) : call = program[made + 1]
  BY ProgramTyped, MadeTyped
<1>. DEFINE S == ToSet(program)
            P == AddsTo(S, s)
<1>2. Made \in Seq(S) /\ Len(Made) = made /\ made \in Nat /\ \A i \in 1..made : Made[i] = program[i]
  BY MadeTyped
<1>3. Made' = [i \in 1..(made + 1) |-> program[i]]
  BY DEF Made
<1>4. \A i \in 1..(made + 1) : program[i] \in S
  BY <1>2, ProgramTyped
<1>5. Made' \in Seq(S) /\ Len(Made') = made + 1
  BY <1>2, <1>3, <1>4
<1>6. PICK m : m = Then(Made, call)
  OBVIOUS
<1>7. /\ m \in Seq(S) /\ Len(m) = made + 1 /\ m[made + 1] = call
      /\ \A i \in 1..made : m[i] = program[i]
  <2>. HIDE DEF S
  <2>1. call \in S
    BY DEF S
  <2>. QED
    <3>1. /\ Then(Made, call) \in Seq(S) /\ Len(Then(Made, call)) = Len(Made) + 1
          /\ Then(Made, call)[Len(Made) + 1] = call
      BY <1>2, <2>1, ThenIs
    <3>2. ASSUME NEW i \in 1..Len(Made) PROVE Then(Made, call)[i] = Made[i]
      <4>1. PICK s1 \in Seq(S) : s1 = Made
        BY <1>2
      <4>2. \A j \in 1..Len(s1) : Then(s1, call)[j] = s1[j]
        BY <2>1, ThenIs
      <4>. QED
        BY <4>1, <4>2
    <3>. QED
      BY <1>2, <1>6, <3>1, <3>2
<1>8. \A i \in 1..(made + 1) : m[i] = Made'[i]
  <2>. TAKE i \in 1..(made + 1)
  <2>1. i = made + 1 \/ i \in 1..made
    BY <1>2
  <2>. QED
    BY <1>1, <1>3, <1>7, <2>1
<1>9. m = Made'
  BY <1>5, <1>7, <1>8, SeqEqual
<1>10. Asked(Made', s) = Kept(Then(Made, call), P) /\ Asked(Made, s) = Kept(Made, P)
  BY <1>2, <1>5, <1>6, <1>9, AskedIsKept
<1>11. call \in P <=> call.call = "add_option" /\ call.section = s
  BY DEF AddsTo
<1>. HIDE DEF P
<1>12. /\ call \in P => Kept(Then(Made, call), P) = Then(Kept(Made, P), call)
       /\ call \notin P => Kept(Then(Made, call), P) = Kept(Made, P)
  BY <1>2, KeptThen
<1>. QED
  BY <1>1, <1>10, <1>11, <1>12 DEF Then

LEMMA RegStart == Init => RegInv
<1>. SUFFICES ASSUME Init PROVE RegInv
  OBVIOUS
<1>1. /\ program \in Programs /\ line \in Lines[program] /\ made = 0
      /\ DOMAIN parameters = {} /\ DOMAIN sections = {}
  BY DEF Init
<1>2. Len(program) \in Nat
  <2>1. program \in Seq(ToSet(program))
    BY <1>1, OptionsAssumption
  <2>. QED
    BY <2>1, LenProperties
<1>3. IsFiniteSet({}) /\ 1..0 = {}
  BY FS_EmptySet
<1>. QED
  BY <1>1, <1>2, <1>3 DEF RegInv

(* A call of either kind comes to a section, which has then a priority.    *)
LEMMA CallMade ==
    ASSUME RegInv, made < Len(program), made' = made + 1, UNCHANGED <<program, line>>,
           NEW s, s = program[made + 1].section,
           DOMAIN sections' = DOMAIN sections \cup {s},
           \A t \in DOMAIN sections : t # s => sections'[t] = sections[t],
           DOMAIN parameters' = IF program[made + 1].call = "add_option"
                                THEN DOMAIN parameters \cup {s} ELSE DOMAIN parameters,
           \A t \in DOMAIN parameters' : parameters'[t] = Asked(Made', t),
           PriorityAmong(made, s)'
    PROVE  RegInv'
<1>1. /\ made \in Nat /\ made + 1 \in 1..Len(program) /\ Len(program) \in Nat
      /\ 1..(made + 1) = (1..made) \cup {made + 1}
  BY MadeTyped, ProgramTyped
<1>2. (program \in Programs)' /\ (line \in Lines[program])' /\ (made \in 0..Len(program))'
  BY <1>1 DEF RegInv
<1>3. IsFiniteSet(DOMAIN sections')
  BY FS_AddElement DEF RegInv
<1>4. DOMAIN parameters' \subseteq DOMAIN sections' /\ DOMAIN sections' \subseteq DOMAIN Rank
  <2>1. s \in DOMAIN Rank
    BY <1>1, ProgramTyped DEF CallTyped
  <2>. QED
    BY <2>1 DEF RegInv
<1>5. \A i \in 1..made' :
         /\ program'[i].section \in DOMAIN sections'
         /\ program'[i].call = "add_option" => program'[i].section \in DOMAIN parameters'
  BY <1>1 DEF RegInv
<1>6. ASSUME NEW t \in DOMAIN sections' PROVE PriorityAmong(made, t)'
  <2>1. CASE t = s
    BY <2>1
  <2>2. CASE t # s
    <3>1. t \in DOMAIN sections /\ sections'[t] = sections[t] /\ PriorityAmong(made, t)
      BY <2>2 DEF RegInv
    <3>2. {i \in 1..(made + 1) : program[i].call = "add_section" /\ program[i].section = t}
          = {i \in 1..made : program[i].call = "add_section" /\ program[i].section = t}
      BY <1>1, <2>2
    <3>. QED
      BY <3>1, <3>2 DEF PriorityAmong
  <2>. QED
    BY <2>1, <2>2
<1>. QED
  BY <1>2, <1>3, <1>4, <1>5, <1>6 DEF RegInv

LEMMA RegStep == RegInv /\ [Next]_vars => RegInv'
<1>. SUFFICES ASSUME RegInv, [Next]_vars PROVE RegInv'
  OBVIOUS
<1>1. CASE AddSection
  <2>0. PICK call, s : call = program[made + 1] /\ s = program[made + 1].section
    OBVIOUS
  <2>1. /\ made < Len(program) /\ made' = made + 1 /\ UNCHANGED <<program, line, parameters>>
        /\ call.call = "add_section" /\ sections' = With(sections, s, call.priority)
    BY <1>1, <2>0 DEF AddSection, add_section
  <2>2. /\ DOMAIN sections' = DOMAIN sections \cup {s} /\ sections'[s] = call.priority
        /\ \A t \in DOMAIN sections : t # s => sections'[t] = sections[t]
    BY <2>1 DEF With
  <2>3. \A t \in DOMAIN parameters' : parameters'[t] = Asked(Made', t)
    BY <2>0, <2>1, MadeMore DEF RegInv
  <2>4. PriorityAmong(made, s)'
    <3>1. made \in Nat
      BY MadeTyped
    <3>2. made + 1 \in {i \in 1..(made + 1) : program[i].call = "add_section" /\ program[i].section = s}
      BY <2>0, <2>1, <3>1
    <3>3. \A j \in 1..(made + 1) : j <= made + 1
      BY <3>1
    <3>4. sections'[s] = program[made + 1].priority
      BY <2>0, <2>2
    <3>. QED
      BY <2>1, <3>2, <3>3, <3>4 DEF PriorityAmong
  <2>. QED
    BY <2>0, <2>1, <2>2, <2>3, <2>4, CallMade
<1>2. CASE AddOption
  <2>0. PICK call, s : call = program[made + 1] /\ s = program[made + 1].section
    OBVIOUS
  <2>1. /\ made < Len(program) /\ made' = made + 1 /\ UNCHANGED <<program, line>>
        /\ call.call = "add_option"
        /\ parameters' = With(parameters, s, Append(OfSection(s), call))
        /\ IF s \in DOMAIN sections THEN UNCHANGED sections
           ELSE sections' = With(sections, s, DEFAULT_PRIORITY)
    BY <1>2, <2>0 DEF AddOption, add_section
  <2>2. /\ DOMAIN sections' = DOMAIN sections \cup {s}
        /\ s \notin DOMAIN sections => sections'[s] = DEFAULT_PRIORITY
        /\ \A t \in DOMAIN sections : sections'[t] = sections[t]
    BY <2>1 DEF With
  <2>3. DOMAIN parameters' = DOMAIN parameters \cup {s}
    BY <2>1 DEF With
  <2>4. ASSUME NEW t \in DOMAIN parameters' PROVE parameters'[t] = Asked(Made', t)
    <3>1. CASE t = s
      <4>1. parameters'[t] = Append(OfSection(s), call)
        BY <2>1, <3>1 DEF With
      <4>2. Asked(Made', t) = Append(Asked(Made, s), call)
        BY <2>0, <2>1, <3>1, MadeMore
      <4>. QED
        BY <4>1, <4>2, OfSectionIs
    <3>2. CASE t # s
      <4>1. parameters'[t] = parameters[t] /\ t \in DOMAIN parameters
        BY <2>1, <2>3, <3>2 DEF With
      <4>2. Asked(Made', t) = Asked(Made, t)
        BY <2>0, <2>1, <3>2, MadeMore
      <4>. QED
        BY <4>1, <4>2 DEF RegInv
    <3>. QED
      BY <3>1, <3>2
  <2>5. PriorityAmong(made, s)'
    <3>. DEFINE given(n) == {i \in 1..n : program[i].call = "add_section" /\ program[i].section = s}
    <3>1. made \in Nat
      BY MadeTyped
    <3>2. given(made + 1) = given(made)
      BY <2>0, <2>1, <3>1
    <3>3. CASE s \in DOMAIN sections
      <4>1. PriorityAmong(made, s) /\ sections'[s] = sections[s]
        BY <2>2, <3>3 DEF RegInv
      <4>. QED
        BY <2>1, <3>2, <4>1 DEF PriorityAmong
    <3>4. CASE s \notin DOMAIN sections
      <4>1. given(made) = {}
        BY <3>4 DEF RegInv
      <4>. QED
        BY <2>1, <2>2, <3>2, <3>4, <4>1 DEF PriorityAmong
    <3>. QED
      BY <3>3, <3>4
  <2>. QED
    BY <2>0, <2>1, <2>2, <2>3, <2>4, <2>5, CallMade
<1>3. CASE StartGetopt \/ PassOperand \/ EnterCluster \/ ShortOption \/ LongOption \/ OptionsEnd
          \/ Describe \/ CallByLetter \/ ShowUsage \/ CallByName \/ UNCHANGED vars
  <2>1. UNCHANGED <<program, line, made, parameters, sections>>
    BY <1>3 DEF StartGetopt, PassOperand, EnterCluster, ShortOption, LongOption, OptionsEnd,
                Answered, Describe, CallByLetter, ShowUsage, CallByName, store, vars
  <2>2. Made' = Made /\ \A s : PriorityAmong(made, s)' <=> PriorityAmong(made, s)
    BY <2>1 DEF Made, PriorityAmong
  <2>. QED
    BY <2>1, <2>2 DEF RegInv
<1>. QED
  BY <1>1, <1>2, <1>3 DEF Next

----------------------------------------------------------------------------
(* What the parser makes of the options.                                   *)
LEMMA OrderedByRank ==
    ASSUME RegInv
    PROVE  Sorted(DOMAIN parameters, RankedLower) \in SetToSeqs(DOMAIN parameters)
<1>. DEFINE X == DOMAIN parameters
            R == {p \in X \X X : Rank[p[1]] < Rank[p[2]]}
<1>1. IsFiniteSet(X) /\ X \subseteq DOMAIN Rank
  BY FS_Subset DEF RegInv
<1>2. /\ \A s, t \in X : <<s, t>> \in R <=> Rank[s] < Rank[t]
      /\ \A s \in X : Rank[s] \in Int
      /\ \A s, t \in X : Rank[s] = Rank[t] => s = t
  BY <1>1, OptionsAssumption
<1>. HIDE DEF R, X
<1>3. PICK order \in SetToSeqs(X) : \A i, j \in DOMAIN order : i < j => <<order[i], order[j]>> \in R
  <2>1. /\ \A s \in X : <<s, s>> \notin R
        /\ \A s, t, u \in X : <<s, t>> \in R /\ <<t, u>> \in R => <<s, u>> \in R
        /\ \A s, t \in X : s = t \/ <<s, t>> \in R \/ <<t, s>> \in R
    BY <1>2
  <2>. QED
    BY <1>1, <2>1, SortedExists
<1>4. \A i \in DOMAIN order : order[i] \in X
  BY <1>3 DEF SetToSeqs
<1>5. \A i, j \in DOMAIN order : i < j => RankedLower(order[i], order[j])
  BY <1>2, <1>3, <1>4 DEF RankedLower
<1>. QED
  BY <1>3, <1>5 DEF Sorted, X

LEMMA RegisteredIs ==
    ASSUME RegInv
    PROVE  /\ Registered \in Seq(Added)
           /\ Len(Registered) = Cardinality({i \in 1..made : program[i].call = "add_option"})
<1>1. PICK order \in SetToSeqs(DOMAIN parameters) : order = Sorted(DOMAIN parameters, RankedLower)
  BY OrderedByRank
<1>2. IsFiniteSet(DOMAIN parameters)
  BY FS_Subset DEF RegInv
<1>3. \A i \in DOMAIN order : order[i] \in DOMAIN parameters
  BY <1>1, <1>2, SeqsOfSet, ElementOfSeq
<1>4. [i \in DOMAIN order |-> parameters[order[i]]] = [i \in DOMAIN order |-> OfSection(order[i])]
  BY <1>3 DEF OfSection
<1>5. Registered = FlattenSeq([i \in DOMAIN order |-> OfSection(order[i])])
  BY <1>1, <1>4 DEF Registered, InOrder
<1>6. Whole(Registered, ToSet(program), Made, order)
  BY <1>2, <1>5, SectionsInOrder
<1>7. {x \in 1..Len(Made) : Made[x].call = "add_option"}
      = {i \in 1..made : program[i].call = "add_option"}
  BY MadeTyped
<1>. QED
  BY <1>6, <1>7 DEF Whole, Added, Adds

(* The options that are known.                                             *)
LEMMA RegisteredTyped ==
    ASSUME RegInv
    PROVE  /\ DOMAIN Registered = 1..Len(Registered) /\ Len(Registered) \in Nat
           /\ \A i \in 1..Len(Registered) : Registered[i] \in Added
           /\ \A o \in ToSet(Registered) : o \in Added
           /\ IsFiniteSet(ToSet(Registered))
<1>1. PICK n \in Nat : n = Len(Registered) /\ DOMAIN Registered = 1..n
  BY RegisteredIs, LenProperties
<1>2. \A i \in 1..n : Registered[i] \in Added
  BY <1>1, RegisteredIs, ElementOfSeq
<1>4. \A o \in ToSet(Registered) : \E i \in 1..n : o = Registered[i]
  BY <1>1 DEF ToSet
<1>5. Registered \in Surjection(1..n, ToSet(Registered))
  <2>1. Registered \in Seq(ToSet(Registered))
    BY RegisteredIs, OfOwnElements
  <2>2. Registered \in [1..n -> ToSet(Registered)]
    BY <1>1, <2>1, LenProperties
  <2>. QED
    BY <1>4, <2>2 DEF Surjection
<1>6. IsFiniteSet(ToSet(Registered))
  <2>1. IsFiniteSet(1..n)
    BY FS_Interval
  <2>. QED
    BY <1>5, <2>1, FS_Surjection
<1>. QED
  BY <1>1, <1>2, <1>4, <1>6

LEMMA LongTyped ==
    ASSUME RegInv
    PROVE  /\ Len(longopts) \in Nat /\ Len(longopts) >= 1 /\ DOMAIN longopts = 1..Len(longopts)
           /\ \A i \in 1..Len(longopts) : longopts[i] \in ToSet(longopts)
           /\ \A o \in ToSet(longopts) : o.flag # None => o \in Added
           /\ None \in Vals
<1>. DEFINE B == {BuiltinLong("help"), BuiltinLong("manpage")}
            O == Added \cup B
            N == {o \in O : IsNamed(o)}
            named == Chosen(Registered, IsNamed)
<1>1. Registered \in Seq(O)
  BY RegisteredIs
<1>2. named = Kept(Registered, N)
  <2>1. \A i \in DOMAIN Registered : Registered[i] \in O
    BY RegisteredTyped
  <2>2. [i \in DOMAIN Registered |-> IF IsNamed(Registered[i]) THEN <<Registered[i]>> ELSE <<>>]
        = [i \in DOMAIN Registered |-> IF Registered[i] \in N THEN <<Registered[i]>> ELSE <<>>]
    BY <2>1
  <2>. QED
    BY <2>2 DEF Kept, Chosen
<1>3. named \in Seq(O)
  <2>. HIDE DEF O, N, named
  <2>1. Kept(Registered, N) \in Seq(O \cap N)
    BY <1>1, KeptWhat
  <2>. QED
    BY <1>2, <2>1
<1>4. \A o \in O : o.flag # None => o \in Added
  BY DEF BuiltinLong
<1>5. PICK b \in Seq(O) : /\ b = <<BuiltinLong("help"), BuiltinLong("manpage")>>
                          /\ Len(b) = 2 /\ b[1] = BuiltinLong("help")
  <2>1. PICK h \in O, m \in O : h = BuiltinLong("help") /\ m = BuiltinLong("manpage")
    OBVIOUS
  <2>. HIDE DEF O
  <2>2. <<h, m>> \in Seq(O) /\ Len(<<h, m>>) = 2 /\ <<h, m>>[1] = h
    OBVIOUS
  <2>. QED
    BY <2>1, <2>2
<1>. HIDE DEF O, named
<1>6. longopts \in Seq(O) /\ Len(longopts) = 2 + Len(named) /\ longopts[1] = BuiltinLong("help")
  <2>1. longopts = b \o named
    BY <1>5 DEF longopts, named
  <2>2. b \o named \in Seq(O) /\ Len(b \o named) = Len(b) + Len(named)
    BY <1>3, ConcatProperties
  <2>3. (b \o named)[1] = b[1]
    BY <1>3, <1>5, ConcatProperties, LenProperties
  <2>. QED
    BY <1>5, <2>1, <2>2, <2>3
<1>7. Len(longopts) \in Nat /\ Len(longopts) >= 1 /\ DOMAIN longopts = 1..Len(longopts)
  BY <1>3, <1>6, LenProperties
<1>8. \A i \in 1..Len(longopts) : longopts[i] \in ToSet(longopts) /\ longopts[i] \in O
  BY <1>6, <1>7, ElementOfSeq DEF ToSet
<1>9. \A o \in ToSet(longopts) : o \in O
  BY <1>7, <1>8 DEF ToSet
<1>10. None \in Vals
  <2>1. longopts[1] \in ToSet(longopts)
    BY <1>7, <1>8
  <2>2. longopts[1].val = None
    BY <1>6 DEF BuiltinLong
  <2>. QED
    BY <2>1, <2>2 DEF Vals
<1>. QED
  BY <1>4, <1>7, <1>8, <1>9, <1>10

----------------------------------------------------------------------------
(* What getopt_long() reads and answers, and what is set, has its type.    *)
LEMMA FlattenTyped ==
    ASSUME NEW S, NEW ss \in Seq(Seq(S))
    PROVE  FlattenSeq(ss) \in Seq(S)
<1>1. PICK f : Joins(f, ss, S) /\ FlattenSeq(ss) = f[Len(ss)]
  BY JoinedStepwise
<1>2. Len(ss) \in Nat
  BY LenProperties
<1>. QED
  BY <1>1, <1>2 DEF Joins

LEMMA TailOwn ==
    ASSUME NEW s, s \in Seq(ToSet(s)), s # <<>>
    PROVE  Tail(s) \in Seq(ToSet(Tail(s)))
<1>1. Tail(s) \in Seq(ToSet(s))
  BY HeadTailProperties
<1>. QED
  BY <1>1, OfOwnElements

LEMMA WordTyped ==
    ASSUME InputInv, words # <<>>
    PROVE  /\ Head(words) \in DOMAIN Spelled /\ Head(words) \in Arguments
           /\ Tail(words) \in Seq(DOMAIN Spelled)
           /\ Word.dashes = 1 => Word.letters \in Seq(ToSet(Word.letters))
           /\ Word.dashes # 0 => Word.value \in Arguments
<1>1. Head(words) \in DOMAIN Spelled /\ Tail(words) \in Seq(DOMAIN Spelled)
  BY HeadTailProperties DEF InputInv
<1>. QED
  BY <1>1, OptionsAssumption DEF Word, Arguments

LEMMA TakeArgTyped ==
    ASSUME InputInv, NEW wanted, NEW value \in Arguments, NEW after \in Seq(DOMAIN Spelled),
           GetsArg(wanted, value, after), TakeArg(wanted, value, after)
    PROVE  words' \in Seq(DOMAIN Spelled) /\ optarg' \in Arguments
<1>1. after # <<>> => Head(after) \in DOMAIN Spelled /\ Tail(after) \in Seq(DOMAIN Spelled)
  BY HeadTailProperties
<1>2. None \in Arguments /\ \A w \in DOMAIN Spelled : w \in Arguments
  BY DEF Arguments
<1>. QED
  BY <1>1, <1>2 DEF TakeArg, GetsArg

LEMMA InputStep == RegInv /\ InputInv /\ [Next]_vars => InputInv'
<1>. SUFFICES ASSUME RegInv, InputInv, [Next]_vars PROVE InputInv'
  OBVIOUS
<1>0. Arguments' = Arguments /\ None \in Arguments
  BY DEF Arguments
<1>1. CASE AddSection \/ AddOption \/ Describe \/ CallByLetter \/ ShowUsage \/ CallByName \/ UNCHANGED vars
  <2>1. UNCHANGED <<words, operands, cluster, optarg, long>>
    BY <1>1 DEF AddSection, AddOption, Answered, Describe, CallByLetter, ShowUsage, CallByName,
                input, answer, vars
  <2>. QED
    BY <1>0, <2>1 DEF InputInv
<1>2. CASE StartGetopt
  <2>1. line \in Seq(ToSet(line)) /\ \A i \in DOMAIN line : line[i].words \in Seq(DOMAIN Spelled)
    <3>1. program \in Programs /\ line \in Lines[program]
      BY DEF RegInv
    <3>. QED
      BY <3>1, OptionsAssumption
  <2>2. [i \in DOMAIN line |-> line[i].words] \in Seq(Seq(DOMAIN Spelled))
    <3>1. PICK n \in Nat : DOMAIN line = 1..n
      BY <2>1, LenProperties
    <3>. QED
      BY <2>1, <3>1
  <2>3. words' \in Seq(DOMAIN Spelled)
    BY <1>2, <2>2, FlattenTyped DEF StartGetopt
  <2>. QED
    BY <1>0, <1>2, <2>3 DEF StartGetopt, answer, InputInv
<1>3. CASE PassOperand
  <2>1. /\ words # <<>> /\ operands' = Append(operands, Head(words)) /\ words' = Tail(words)
        /\ UNCHANGED <<cluster, optarg, long>>
    BY <1>3 DEF PassOperand, Scans, answer
  <2>2. operands' \in Seq(DOMAIN Spelled) /\ words' \in Seq(DOMAIN Spelled)
    BY <2>1, WordTyped, AppendProperties DEF InputInv
  <2>. QED
    BY <1>0, <2>1, <2>2 DEF InputInv
<1>4. CASE EnterCluster
  <2>1. /\ words # <<>> /\ Word.dashes = 1 /\ words' = Tail(words)
        /\ cluster'.letters = Word.letters /\ cluster'.value = Word.value
        /\ DOMAIN cluster' = {"letters", "value"}
        /\ UNCHANGED <<operands, optarg, long>>
    BY <1>4 DEF EnterCluster, Scans, answer
  <2>. QED
    BY <1>0, <2>1, WordTyped DEF InputInv
<1>5. CASE ShortOption
  <2>1. /\ cluster.letters # <<>> /\ cluster'.value = cluster.value
        /\ cluster'.letters = Tail(cluster.letters) /\ DOMAIN cluster' = {"letters", "value"}
        /\ operands' = operands /\ long' = FALSE
    BY <1>5 DEF ShortOption, InputInv
  <2>2. words' \in Seq(DOMAIN Spelled) /\ optarg' \in Arguments
    <3>1. CASE Refuse(words)
      BY <1>0, <3>1 DEF Refuse, InputInv
    <3>2. CASE ~Refuse(words)
      <4>1. PICK wanted : GetsArg(wanted, cluster.value, words) /\ TakeArg(wanted, cluster.value, words)
        BY <1>5, <3>2 DEF ShortOption
      <4>. QED
        BY <4>1, TakeArgTyped DEF InputInv
    <3>. QED
      BY <3>1, <3>2
  <2>3. cluster'.letters \in Seq(ToSet(cluster'.letters))
    BY <2>1, TailOwn DEF InputInv
  <2>. QED
    BY <1>0, <2>1, <2>2, <2>3 DEF InputInv
<1>6. CASE LongOption
  <2>1. /\ words # <<>> /\ Word.dashes = 2 /\ UNCHANGED <<cluster, operands>> /\ long' = TRUE
    BY <1>6 DEF LongOption, Scans
  <2>2. words' \in Seq(DOMAIN Spelled) /\ optarg' \in Arguments
    <3>0. Tail(words) \in Seq(DOMAIN Spelled) /\ Word.value \in Arguments
      BY <2>1, WordTyped
    <3>1. CASE Refuse(Tail(words))
      BY <1>0, <3>0, <3>1 DEF Refuse
    <3>2. CASE ~Refuse(Tail(words))
      <4>1. PICK wanted : /\ GetsArg(wanted, Word.value, Tail(words))
                          /\ TakeArg(wanted, Word.value, Tail(words))
        BY <1>6, <3>2 DEF LongOption
      <4>. QED
        BY <3>0, <4>1, TakeArgTyped
    <3>. QED
      BY <3>1, <3>2
  <2>. QED
    BY <1>0, <2>1, <2>2 DEF InputInv
<1>7. CASE OptionsEnd
  <2>1. /\ words' = <<>> /\ UNCHANGED <<cluster, optarg, long>>
        /\ operands' = IF words = <<>> THEN operands ELSE operands \o Tail(words)
    BY <1>7 DEF OptionsEnd, answer
  <2>2. words' \in Seq(DOMAIN Spelled)
    BY <2>1, EmptySeq
  <2>3. operands' \in Seq(DOMAIN Spelled)
    <3>1. CASE words = <<>>
      BY <2>1, <3>1 DEF InputInv
    <3>2. CASE words # <<>>
      <4>1. operands \in Seq(DOMAIN Spelled) /\ Tail(words) \in Seq(DOMAIN Spelled)
        BY <3>2, WordTyped DEF InputInv
      <4>. QED
        BY <2>1, <3>2, <4>1, ConcatProperties
    <3>. QED
      BY <3>1, <3>2
  <2>. QED
    BY <1>0, <2>1, <2>2, <2>3 DEF InputInv
<1>. QED
  BY <1>1, <1>2, <1>3, <1>4, <1>5, <1>6, <1>7 DEF Next

LEMMA ProcessTyped ==
    ASSUME NEW command, NEW arg \in Arguments
    PROVE  processOption(command, arg) \in Seq(Effect)
<1>1. CASE command \notin DOMAIN SettingOf
  BY <1>1, EmptySeq DEF processOption
<1>2. CASE command \in DOMAIN SettingOf
  <2>. DEFINE what == SettingOf[command]
  <2>1. \A to \in Arguments \cup {"one more"} \cup {Number[text] : text \in DOMAIN Number} :
           [what |-> what, to |-> to] \in Effect
    BY <1>2 DEF Effect
  <2>2. \/ processOption(command, arg) = <<>>
        \/ processOption(command, arg) = <<[what |-> what, to |-> "one more"]>>
        \/ processOption(command, arg) = <<[what |-> what, to |-> arg]>>
        \/ arg \in DOMAIN Number /\ processOption(command, arg) = <<[what |-> what, to |-> Number[arg]]>>
    BY <1>2 DEF processOption
  <2>. HIDE DEF what
  <2>3. \/ processOption(command, arg) = <<>>
        \/ \E e \in Effect : processOption(command, arg) = <<e>>
    BY <2>1, <2>2
  <2>4. \A e \in Effect : <<e>> \in Seq(Effect)
    OBVIOUS
  <2>. QED
    BY <2>3, <2>4, EmptySeq
<1>. QED
  BY <1>1, <1>2

LEMMA CallsTyped ==
    ASSUME NEW fns, fns \in Seq({o.fn : o \in Added}), NEW name, optarg \in Arguments
    PROVE  Calls(fns, name) \in Seq(Effect)
<1>. DEFINE F == {o.fn : o \in Added}
<1>1. \A fn \in F : Call(fn, name, optarg) \in Seq(Effect)
  <2>. TAKE fn \in F
  <2>1. [what |-> fn, to |-> optarg] \in Effect
    BY DEF Effect
  <2>2. <<[what |-> fn, to |-> optarg]>> \in Seq(Effect)
    <3>1. PICK e \in Effect : e = [what |-> fn, to |-> optarg]
      BY <2>1
    <3>. QED
      BY <3>1
  <2>3. <<>> \in Seq(Effect) /\ processOption(name, optarg) \in Seq(Effect)
    BY EmptySeq, ProcessTyped
  <2>. QED
    BY <2>2, <2>3 DEF Call
<1>2. PICK n \in Nat : DOMAIN fns = 1..n /\ \A i \in 1..n : fns[i] \in F
  BY LenProperties, ElementOfSeq
<1>3. [i \in DOMAIN fns |-> Call(fns[i], name, optarg)] \in Seq(Seq(Effect))
  <2>. HIDE DEF F
  <2>. QED
    BY <1>1, <1>2
<1>. QED
  BY <1>3, FlattenTyped DEF Calls

(* Handlers of a letter, in any order, are handlers of options.            *)
LEMMA HandlersTyped ==
    ASSUME RegInv, NEW l, NEW fns \in SetToSeqs(Functions(l))
    PROVE  fns \in Seq({o.fn : o \in Added})
<1>. DEFINE X == {p \in ToSet(Registered) : p.opt = l}
            f == [o \in X |-> o.fn]
<1>1. IsFiniteSet(X)
  BY RegisteredTyped, FS_Subset
<1>2. f \in Surjection(X, Functions(l))
  BY DEF Functions, Surjection
<1>3. IsFiniteSet(Functions(l))
  <2>. HIDE DEF X, f
  <2>. QED
    BY <1>1, <1>2, FS_Surjection
<1>4. Functions(l) \subseteq {o.fn : o \in Added}
  BY RegisteredTyped DEF Functions
<1>5. fns \in Seq(Functions(l))
  BY <1>3, SeqsOfSet
<1>. QED
  BY <1>4, <1>5

Named(name) == Chosen(Registered, LAMBDA o : o.name = name)
LEMMA NamedTyped ==
    ASSUME RegInv, NEW name
    PROVE  [i \in DOMAIN Named(name) |-> Named(name)[i].fn] \in Seq({o.fn : o \in Added})
<1>. DEFINE N == {o \in Added : o.name = name}
            named == Named(name)
<1>1. named = Kept(Registered, N)
  <2>1. \A i \in DOMAIN Registered : Registered[i] \in Added
    BY RegisteredTyped
  <2>2. [i \in DOMAIN Registered |-> IF Registered[i].name = name THEN <<Registered[i]>> ELSE <<>>]
        = [i \in DOMAIN Registered |-> IF Registered[i] \in N THEN <<Registered[i]>> ELSE <<>>]
    BY <2>1
  <2>. QED
    BY <2>2 DEF Kept, Chosen, Named
<1>2. named \in Seq(Added \cap N)
  <2>. HIDE DEF N, named
  <2>. QED
    BY <1>1, RegisteredIs, KeptWhat
<1>. HIDE DEF named
<1>3. PICK n \in Nat : DOMAIN named = 1..n /\ \A i \in 1..n : named[i] \in Added
  <2>1. named \in Seq(Added)
    BY <1>2
  <2>. QED
    BY <2>1, LenProperties, ElementOfSeq
<1>4. [i \in DOMAIN named |-> named[i].fn] \in Seq({o.fn : o \in Added})
  BY <1>3
<1>. QED
  BY <1>4 DEF named

LEMMA EffectStep == RegInv /\ InputInv /\ EffectInv /\ [Next]_vars => EffectInv'
<1>. SUFFICES ASSUME RegInv, InputInv, EffectInv, [Next]_vars PROVE EffectInv'
  OBVIOUS
<1>1. program' = program
  BY DEF Next, AddSection, AddOption, StartGetopt, PassOperand, EnterCluster, ShortOption,
         LongOption, OptionsEnd, Answered, Describe, CallByLetter, ShowUsage, CallByName, vars
<1>2. Effect' = Effect
  BY <1>1 DEF Effect, Added, Arguments
<1>3. effects \in Seq(Effect)
  BY DEF EffectInv
<1>4. CASE AddSection \/ AddOption \/ StartGetopt \/ PassOperand \/ EnterCluster \/ ShortOption
          \/ OptionsEnd \/ Describe \/ ShowUsage \/ UNCHANGED vars
  <2>1. effects' = effects
    BY <1>4 DEF AddSection, AddOption, StartGetopt, PassOperand, EnterCluster, ShortOption,
                OptionsEnd, Describe, ShowUsage, vars
  <2>. QED
    BY <1>2, <1>3, <2>1 DEF EffectInv
<1>5. CASE LongOption
  <2>. DEFINE i == LongIndex(Word.name)
              o == longopts[i]
  <2>1. \/ effects' = effects
        \/ /\ Resolves(Word.name) /\ o.flag # None
           /\ effects' = Append(effects, [what |-> o.flag, to |-> o.val])
    BY <1>5 DEF LongOption
  <2>2. CASE Resolves(Word.name) /\ o.flag # None
    <3>1. o \in Added
      BY <2>2, LongIndexIs, LongTyped
    <3>2. PICK e \in Effect : e = [what |-> o.flag, to |-> o.val]
      BY <3>1 DEF Effect
    <3>. HIDE DEF o
    <3>. QED
      BY <1>2, <1>3, <2>1, <3>2, AppendProperties DEF EffectInv
  <2>. QED
    BY <1>2, <1>3, <2>1, <2>2 DEF EffectInv
<1>6. CASE CallByLetter
  <2>1. PICK fns \in SetToSeqs(Functions(c)) : effects' = effects \o Calls(fns, c)
    BY <1>6 DEF CallByLetter
  <2>2. Calls(fns, c) \in Seq(Effect)
    BY HandlersTyped, CallsTyped DEF InputInv
  <2>. QED
    BY <1>2, <1>3, <2>1, <2>2, ConcatProperties DEF EffectInv
<1>7. CASE CallByName
  <2>. DEFINE named == Named(Name)
  <2>1. effects' = effects \o Calls([i \in DOMAIN named |-> named[i].fn], Name)
    BY <1>7 DEF CallByName, Named
  <2>2. [i \in DOMAIN named |-> named[i].fn] \in Seq({o.fn : o \in Added})
    BY NamedTyped
  <2>. HIDE DEF named
  <2>3. Calls([i \in DOMAIN named |-> named[i].fn], Name) \in Seq(Effect)
    BY <2>2, CallsTyped DEF InputInv
  <2>. QED
    BY <1>2, <1>3, <2>1, <2>3, ConcatProperties DEF EffectInv
<1>. QED
  BY <1>4, <1>5, <1>6, <1>7 DEF Next

(* The answer is one of an option that is known, and the usage is shown as *)
(* it is when the program exits.                                           *)
LEMMA PhaseStart == Init => PhaseInv
BY DEF Init, PhaseInv

LEMMA PhaseStep == RegInv /\ PhaseInv /\ [Next]_vars => PhaseInv'
<1>. SUFFICES ASSUME RegInv, PhaseInv, [Next]_vars PROVE PhaseInv'
  OBVIOUS
<1>1. CASE AddSection \/ AddOption
  <2>1. pc = "register" /\ UNCHANGED <<pc, c, index>>
    BY <1>1 DEF AddSection, AddOption, answer
  <2>. QED
    BY <2>1 DEF PhaseInv
<1>2. CASE ~(AddSection \/ AddOption)
  <2>1. UNCHANGED <<program, parameters, sections, made>>
    BY <1>2 DEF Next, StartGetopt, PassOperand, EnterCluster, ShortOption, LongOption, OptionsEnd,
                Answered, Describe, CallByLetter, ShowUsage, CallByName, store, vars
  <2>2. longopts' = longopts /\ ShortOptions' = ShortOptions /\ Vals' = Vals
    BY <2>1, OptionsFixed DEF Vals
  <2>3. usage' = usage
    BY <2>1 DEF usage, OfSection, Earlier, Sorted
  <2>4. c \in ShortOptions \cup Vals /\ index \in 0..Len(longopts)
    BY LongTyped DEF PhaseInv
  <2>5. CASE StartGetopt
    <3>1. pc' = "getopt" /\ made = Len(program) /\ UNCHANGED <<c, index>>
      BY <2>5 DEF StartGetopt, answer
    <3>. QED
      BY <2>1, <2>2, <2>4, <3>1 DEF PhaseInv
  <2>6. ASSUME pc # "register", made = Len(program), pc' \in {"getopt", "answered", "run"},
               c' \in ShortOptions \cup Vals, index' \in 0..Len(longopts)
        PROVE  PhaseInv'
    BY <2>1, <2>2, <2>6 DEF PhaseInv
  <2>7. CASE PassOperand \/ EnterCluster \/ OptionsEnd \/ CallByLetter \/ CallByName
    <3>1. pc # "register" /\ pc' \in {"getopt", "answered", "run"} /\ UNCHANGED <<c, index>>
      BY <2>7 DEF PassOperand, EnterCluster, OptionsEnd, CallByLetter, CallByName, Answered, Scans, answer
    <3>. QED
      BY <2>4, <2>6, <3>1 DEF PhaseInv
  <2>8. CASE ShortOption
    <3>1. pc # "register" /\ pc' = "answered" /\ index' = index
      BY <2>8 DEF ShortOption
    <3>2. c' \in ShortOptions
      BY <2>8 DEF ShortOption, Refuse, ShortOptions, Builtin
    <3>. QED
      BY <2>4, <2>6, <3>1, <3>2 DEF PhaseInv
  <2>9. CASE LongOption
    <3>1. pc # "register" /\ pc' = "answered"
      BY <2>9 DEF LongOption, Scans
    <3>2. \/ c' = "?" /\ index' = index
          \/ /\ Resolves(Word.name) /\ index' = LongIndex(Word.name)
             /\ c' \in {None, longopts[LongIndex(Word.name)].val}
      BY <2>9 DEF LongOption, Refuse
    <3>3. "?" \in ShortOptions
      BY DEF ShortOptions, Builtin
    <3>4. ASSUME Resolves(Word.name)
          PROVE  /\ LongIndex(Word.name) \in 0..Len(longopts)
                 /\ None \in Vals /\ longopts[LongIndex(Word.name)].val \in Vals
      BY <3>4, LongIndexIs, LongTyped DEF Vals
    <3>. QED
      BY <2>4, <2>6, <3>1, <3>2, <3>3, <3>4 DEF PhaseInv
  <2>10. CASE Describe
    <3>1. pc = "answered" /\ pc' = "exited" /\ c = "D" /\ UNCHANGED <<c, index>>
      BY <2>10 DEF Describe, Answered, answer
    <3>. QED
      BY <2>1, <2>2, <2>4, <3>1 DEF PhaseInv
  <2>11. CASE ShowUsage
    <3>1. pc = "answered" /\ pc' = "exited" /\ shown' = usage /\ UNCHANGED <<c, index>>
      BY <2>11 DEF ShowUsage, Answered, answer
    <3>. QED
      BY <2>1, <2>2, <2>3, <2>4, <3>1 DEF PhaseInv
  <2>12. CASE UNCHANGED vars
    <3>1. UNCHANGED <<pc, c, index, shown>>
      BY <2>12 DEF vars, answer
    <3>. QED
      BY <2>1, <2>2, <2>3, <3>1 DEF PhaseInv
  <2>. QED
    BY <1>2, <2>5, <2>7, <2>8, <2>9, <2>10, <2>11, <2>12 DEF Next
<1>. QED
  BY <1>1, <1>2

(* Section by section: the sections are sorted by priority, and where that *)
(* is the same by name.                                                    *)
LEMMA OrderedByPriority ==
    ASSUME RegInv
    PROVE  /\ Sorted(DOMAIN sections, Earlier) \in SetToSeqs(DOMAIN sections)
           /\ LET order == Sorted(DOMAIN sections, Earlier)
              IN  \A i, j \in DOMAIN order : i < j => sections[order[i]] >= sections[order[j]]
           /\ \A s \in DOMAIN sections : sections[s] \in Int
<1>. DEFINE X == DOMAIN sections
            R == {p \in X \X X : Earlier(p[1], p[2])}
<1>1. IsFiniteSet(X) /\ X \subseteq DOMAIN Rank
  BY DEF RegInv
<1>2. \A s \in X : sections[s] \in Int
  <2>. TAKE s \in X
  <2>1. PriorityAmong(made, s)
    BY DEF RegInv
  <2>2. CASE sections[s] = DEFAULT_PRIORITY
    BY <2>2 DEF DEFAULT_PRIORITY
  <2>3. CASE \E i \in 1..made : program[i].call = "add_section" /\ sections[s] = program[i].priority
    BY <2>3, MadeTyped, ProgramTyped DEF CallTyped
  <2>. QED
    BY <2>1, <2>2, <2>3 DEF PriorityAmong
<1>3. /\ \A s, t \in X : <<s, t>> \in R <=> Earlier(s, t)
      /\ \A s \in X : Rank[s] \in Int
      /\ \A s, t \in X : Rank[s] = Rank[t] => s = t
  BY <1>1, OptionsAssumption
<1>. HIDE DEF R, X
<1>4. PICK order \in SetToSeqs(X) : \A i, j \in DOMAIN order : i < j => <<order[i], order[j]>> \in R
  <2>1. /\ \A s \in X : <<s, s>> \notin R
        /\ \A s, t, u \in X : <<s, t>> \in R /\ <<t, u>> \in R => <<s, u>> \in R
        /\ \A s, t \in X : s = t \/ <<s, t>> \in R \/ <<t, s>> \in R
    BY <1>2, <1>3 DEF Earlier
  <2>. QED
    BY <1>1, <2>1, SortedExists
<1>5. \A seq \in SetToSeqs(X) : \A i \in DOMAIN seq : seq[i] \in X
  BY DEF SetToSeqs
<1>6. \A i, j \in DOMAIN order : i < j => Earlier(order[i], order[j])
  BY <1>3, <1>4, <1>5
<1>7. PICK first \in SetToSeqs(X) : /\ first = Sorted(X, Earlier)
                                    /\ \A i, j \in DOMAIN first : i < j => Earlier(first[i], first[j])
  BY <1>4, <1>6 DEF Sorted
<1>8. \A i, j \in DOMAIN first : i < j => sections[first[i]] >= sections[first[j]]
  <2>. SUFFICES ASSUME NEW i \in DOMAIN first, NEW j \in DOMAIN first, i < j
                PROVE  sections[first[i]] >= sections[first[j]]
    OBVIOUS
  <2>1. Earlier(first[i], first[j]) /\ sections[first[i]] \in Int /\ sections[first[j]] \in Int
    BY <1>2, <1>5, <1>7 DEF X
  <2>. QED
    BY <2>1 DEF Earlier
<1>. QED
  BY <1>2, <1>7, <1>8 DEF X

LEMMA AllMade ==
    ASSUME RegInv, made = Len(program), NEW s \in DOMAIN sections
    PROVE  PriorityOf(s) = sections[s]
<1>. DEFINE given == {i \in 1..made : program[i].call = "add_section" /\ program[i].section = s}
            Latest(i) == \A j \in given : j <= i
<1>1. PriorityAmong(made, s) /\ DOMAIN program = 1..made /\ given \subseteq Nat
  BY ProgramTyped, MadeTyped DEF RegInv
<1>2. PriorityOf(s) = IF given = {} THEN DEFAULT_PRIORITY
                      ELSE program[CHOOSE i \in given : Latest(i)].priority
  BY <1>1 DEF PriorityOf
<1>3. CASE given = {}
  BY <1>1, <1>2, <1>3 DEF PriorityAmong
<1>4. CASE given # {}
  <2>1. PICK i \in given : Latest(i) /\ sections[s] = program[i].priority
    BY <1>1, <1>4 DEF PriorityAmong
  <2>. HIDE DEF given
  <2>2. \A k \in given : Latest(k) => k = i
    BY <1>1, <2>1
  <2>. HIDE DEF Latest
  <2>3. (CHOOSE k \in given : Latest(k)) = i
    BY <2>1, <2>2
  <2>. QED
    BY <1>2, <1>4, <2>1, <2>3
<1>. QED
  BY <1>3, <1>4

OptionsInv == RegInv /\ InputInv /\ EffectInv /\ PhaseInv

LEMMA OptionsStart == Init => OptionsInv
<1>. SUFFICES ASSUME Init PROVE OptionsInv
  OBVIOUS
<1>1. InputInv
  <2>1. /\ words = <<>> /\ operands = <<>> /\ cluster = [letters |-> <<>>, value |-> None]
        /\ optarg = None /\ long = FALSE
    BY DEF Init
  <2>2. cluster.letters = <<>> /\ cluster.value = None /\ DOMAIN cluster = {"letters", "value"}
    BY <2>1
  <2>3. None \in Arguments
    BY DEF Arguments
  <2>. QED
    BY <2>1, <2>2, <2>3, EmptySeq DEF InputInv
<1>2. EffectInv
  BY EmptySeq DEF Init, EffectInv
<1>. QED
  BY <1>1, <1>2, RegStart, PhaseStart DEF OptionsInv

LEMMA OptionsStep == OptionsInv /\ [Next]_vars => OptionsInv'
BY RegStep, InputStep, EffectStep, PhaseStep DEF OptionsInv

LEMMA OptionsTyped == OptionsInv => TypeOK
<1>. SUFFICES ASSUME OptionsInv PROVE TypeOK
  OBVIOUS
<1>1. program \in Programs /\ made \in 0..Len(program) /\ DOMAIN parameters \subseteq DOMAIN sections
  BY DEF OptionsInv, RegInv
<1>2. Len(Registered) + Cardinality({i \in 1..made : program[i].call = "add_section"}) = made
  <2>. DEFINE A == {i \in 1..made : program[i].call = "add_option"}
              B == {i \in 1..made : program[i].call = "add_section"}
  <2>1. made \in Nat /\ IsFiniteSet(1..made) /\ Cardinality(1..made) = made
    BY MadeTyped, FS_Interval DEF OptionsInv
  <2>2. A \cup B = 1..made /\ A \cap B = {}
    BY MadeTyped, ProgramTyped DEF OptionsInv, CallTyped
  <2>3. Len(Registered) = Cardinality(A)
    BY RegisteredIs DEF OptionsInv
  <2>. HIDE DEF A, B
  <2>4. IsFiniteSet(A) /\ IsFiniteSet(B)
    BY <2>1, <2>2, FS_Subset
  <2>5. Cardinality(A \cup B) = Cardinality(A) + Cardinality(B) - Cardinality(A \cap B)
    BY <2>4, FS_Union
  <2>6. Cardinality(A \cap B) = 0 /\ Cardinality(A) \in Nat /\ Cardinality(B) \in Nat
    BY <2>2, <2>4, FS_EmptySet, FS_CardinalityType
  <2>7. Cardinality(A) + Cardinality(B) = made
    <3>1. Cardinality(A \cup B) = made
      BY <2>1, <2>2
    <3>. QED
      BY <2>1, <2>5, <2>6, <3>1
  <2>. QED
    BY <2>3, <2>7 DEF B
<1>3. \A s \in DOMAIN sections : sections[s] \in Int
  BY OrderedByPriority DEF OptionsInv
<1>4. c \in ShortOptions \cup {o.val : o \in ToSet(longopts)} /\ index \in 0..Len(longopts)
  BY LongTyped DEF OptionsInv, PhaseInv, Vals
<1>5. {words, operands} \subseteq Seq(DOMAIN Spelled) /\ long \in BOOLEAN /\ effects \in Seq(Effect)
  BY DEF OptionsInv, InputInv, EffectInv
<1>6. pc \in {"register", "getopt", "answered", "run", "exited"}
  BY DEF OptionsInv, PhaseInv
<1>. QED
  BY <1>1, <1>2, <1>3, <1>4, <1>5, <1>6 DEF TypeOK

LEMMA UsageIs ==
    ASSUME OptionsInv, pc = "exited", c # "D"
    PROVE  /\ Len(shown) = Cardinality({i \in DOMAIN program : program[i].call = "add_option"})
           /\ \A s \in DOMAIN Rank : Asked(shown, s) = Asked(program, s)
           /\ \A i, j \in DOMAIN shown :
                 i < j => PriorityOf(shown[i].section) >= PriorityOf(shown[j].section)
<1>. USE DEF OptionsInv
<1>1. made = Len(program) /\ shown = usage
  BY DEF PhaseInv
<1>2. PICK order \in SetToSeqs(DOMAIN sections) :
         /\ order = Sorted(DOMAIN sections, Earlier)
         /\ \A i, j \in DOMAIN order : i < j => sections[order[i]] >= sections[order[j]]
  BY OrderedByPriority
<1>3. IsFiniteSet(DOMAIN sections) /\ DOMAIN parameters \subseteq DOMAIN sections
  BY DEF RegInv
<1>4. shown = FlattenSeq([i \in DOMAIN order |-> OfSection(order[i])])
  BY <1>1, <1>2 DEF usage
<1>5. Whole(shown, ToSet(program), program, order)
  BY <1>1, <1>3, <1>4, SectionsInOrder, MadeTyped
<1>6. DOMAIN program = 1..Len(program)
  BY ProgramTyped
<1>7. Len(shown) = Cardinality({i \in DOMAIN program : program[i].call = "add_option"})
  BY <1>5, <1>6 DEF Whole
<1>8. \A s \in DOMAIN Rank : Asked(shown, s) = Asked(program, s)
  BY <1>5 DEF Whole
<1>9. DOMAIN shown = 1..Len(shown)
  BY <1>5, LenProperties DEF Whole
<1>10. DOMAIN order = 1..Len(order) /\ \A i \in 1..Len(order) : order[i] \in DOMAIN sections
                                                             /\ sections[order[i]] \in Int
  BY <1>2, <1>3, SeqsOfSet, ElementOfSeq, OrderedByPriority
<1>11. ASSUME NEW i \in DOMAIN shown, NEW j \in DOMAIN shown, i < j
       PROVE  PriorityOf(shown[i].section) >= PriorityOf(shown[j].section)
  <2>1. PICK a \in 1..Len(order), b \in 1..Len(order) :
           shown[i].section = order[a] /\ shown[j].section = order[b] /\ a <= b
    BY <1>5, <1>9, <1>11 DEF Whole
  <2>2. sections[order[a]] >= sections[order[b]]
    BY <1>2, <1>10, <2>1
  <2>3. PriorityOf(order[a]) = sections[order[a]] /\ PriorityOf(order[b]) = sections[order[b]]
    BY <1>1, <1>10, AllMade
  <2>. QED
    BY <2>1, <2>2, <2>3
<1>. QED
  BY <1>7, <1>8, <1>11

(* src/options.h:153-161, src/options.cpp: whatever sections and options a *)
(* program registers, and in whatever order, the usage that getopt() shows *)
(* has each option once, in its section, in its turn, and the sections by  *)
(* their priorities; and the parser's state has its type throughout.       *)
THEOREM UsageIsComplete == Spec => []UsageComplete
<1>1. OptionsInv => UsageComplete
  BY OptionsTyped, UsageIs DEF UsageComplete
<1>. QED
  BY <1>1, OptionsStart, OptionsStep, PTL DEF Spec
=============================================================================
