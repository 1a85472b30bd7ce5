-------------------------- MODULE TextRulesProofs --------------------------
(***************************************************************************)
(* Proofs about TextRules, for every revision, report, patch file and      *)
(* series: that the token alignment finds what two revisions differ by,    *)
(* that the audit is silent about translations and nothing else, what a    *)
(* verdict says of the report it is taken from, that lint and the parser   *)
(* read a patch file alike and what `jx new' and `jx refresh' write lints, *)
(* and that a series that lints still does with a new entry.               *)
(***************************************************************************)
EXTENDS TextRules, SequenceTheorems, FiniteSetTheorems, WellFoundedInduction, TLAPS

-----------------------------------------------------------------------------
(* Induction, and the least and the largest of a set of numbers *)

\* Every nonempty set of naturals has a least element.
LEMMA Least ==
  ASSUME NEW S \in SUBSET Nat, S # {}
  PROVE  \E m \in S : \A k \in S : m <= k
<1> DEFINE R == OpToRel(<, Nat)
<1>1. IsWellFoundedOn(R, Nat)
  BY NatLessThanWellFounded
<1>2. \A y, z \in Nat : y < z => <<y, z>> \in R
  BY DEF OpToRel
<1> HIDE DEF R
<1>3. PICK m \in S : \A y \in S : ~(<<y, m>> \in R)
  BY <1>1, WFMin
<1>4. m \in Nat /\ \A k \in S : k \in Nat /\ ~(k < m)
  BY <1>2, <1>3
<1> QED BY <1>4

\* A set that holds 0, and with a number its successor, holds them all.
LEMMA Induct ==
  ASSUME NEW S, 0 \in S, \A n \in Nat : n \in S => n + 1 \in S
  PROVE  Nat \subseteq S
<1> SUFFICES ASSUME Nat \ S # {} PROVE FALSE
  OBVIOUS
<1>1. PICK m \in Nat \ S : \A k \in Nat \ S : m <= k
  BY Least
<1>2. m # 0 /\ m - 1 \in Nat
  BY <1>1
<1>3. m - 1 \in S
  BY <1>1, <1>2
<1> QED BY <1>1, <1>3

\* Min picks the least.
LEMMA MinIs ==
  ASSUME NEW S \in SUBSET Nat, S # {}
  PROVE  Min(S) \in S /\ \A k \in S : Min(S) <= k
<1>1. \E m \in S : \A k \in S : m =< k
  BY Least
<1> QED BY <1>1, Zenon DEF Min

\* Max picks the one that is known to be the largest.
LEMMA MaxIs ==
  ASSUME NEW S \in SUBSET Nat, NEW m \in S, \A k \in S : k <= m
  PROVE  Max(S) = m
<1>1. \A y \in S : m >= y
  OBVIOUS
<1>2. Max(S) \in S /\ \A y \in S : Max(S) >= y
  BY <1>1, Zenon DEF Max
<1>3. Max(S) \in Nat /\ m \in Nat /\ Max(S) >= m /\ Max(S) <= m
  BY <1>2
<1> QED BY <1>3

-----------------------------------------------------------------------------
(* Sequences of sequences, joined *)

\* What FlattenSeq says of the first n sequences.
JoinRule(s, n, g) == g = [i \in 1..n |-> IF i = 1 THEN s[i] ELSE g[i - 1] \o s[i]]

\* There is a function that obeys the rule, by induction over n.
LEMMA JoinExists ==
  ASSUME NEW s, NEW top \in Nat
  PROVE  \E g : JoinRule(s, top, g)
<1> DEFINE E == {n \in Nat : \E g : JoinRule(s, n, g)}
<1>1. 0 \in E
  <2>1. JoinRule(s, 0, [i \in 1..0 |-> s[i]])
    BY DEF JoinRule
  <2> QED BY <2>1
<1>2. ASSUME NEW n \in Nat, n \in E PROVE n + 1 \in E
  <2>1. PICK g : JoinRule(s, n, g)
    BY <1>2
  <2> DEFINE next(f) == [i \in 1..(n + 1) |-> IF i = 1 THEN s[i] ELSE f[i - 1] \o s[i]]
             h == next(g)
  <2>2. ASSUME NEW i \in 1..n PROVE h[i] = g[i]
    <3>1. i \in 1..(n + 1)
      OBVIOUS
    <3> QED BY <2>1, <3>1, Zenon DEF JoinRule
  <2>3. ASSUME NEW i \in 1..(n + 1), i # 1 PROVE h[i - 1] = g[i - 1]
    <3>1. i - 1 \in 1..n
      BY <2>3
    <3> HIDE DEF h
    <3> QED BY <2>2, <3>1
  <2>4. next(h) = h
    <3> DEFINE Of(i, f) == IF i = 1 THEN s[i] ELSE f[i - 1] \o s[i]
    <3>1. \A i \in 1..(n + 1) : Of(i, h) = Of(i, g)
      <4> HIDE DEF h
      <4> QED BY <2>3
    <3>2. next(h) = [i \in 1..(n + 1) |-> Of(i, h)] /\ h = [i \in 1..(n + 1) |-> Of(i, g)]
      OBVIOUS
    <3> HIDE DEF h, next, Of
    <3> QED BY <3>1, <3>2
  <2>5. JoinRule(s, n + 1, h)
    BY <2>4, Zenon DEF JoinRule
  <2> HIDE DEF h
  <2> QED BY <2>5
<1>3. Nat \subseteq E
  <2> HIDE DEF E
  <2> QED BY <1>1, <1>2, Induct
<1> QED BY <1>3

\* FlattenSeq is the last value of that function.
LEMMA JoinIs ==
  ASSUME NEW S, NEW s \in Seq(Seq(S)), Len(s) # 0
  PROVE  \E g : /\ FlattenSeq(s) = g[Len(s)]
                /\ \A n \in 1..Len(s) : g[n] = IF n = 1 THEN s[n] ELSE g[n - 1] \o s[n]
<1> DEFINE top == Len(s)
           joined == CHOOSE g : g = [i \in 1..top |-> IF i = 1 THEN s[i] ELSE g[i - 1] \o s[i]]
<1>1. FlattenSeq(s) = joined[top]
  BY Zenon DEF FlattenSeq
<1>2. \E g : JoinRule(s, top, g)
  <2>1. top \in Nat
    OBVIOUS
  <2> HIDE DEF top
  <2> QED BY <2>1, JoinExists
<1>3. JoinRule(s, top, joined)
  BY <1>2, Zenon DEF JoinRule
<1> HIDE DEF joined
<1>4. \A n \in 1..top : joined[n] = IF n = 1 THEN s[n] ELSE joined[n - 1] \o s[n]
  BY <1>3, Zenon DEF JoinRule
<1> QED BY <1>1, <1>4

LEMMA JoinNothing == FlattenSeq(<<>>) = <<>>
BY DEF FlattenSeq

\* What is joined is a sequence, and one more sequence comes at its end.
LEMMA JoinStep ==
  ASSUME NEW S, NEW s \in Seq(Seq(S)), NEW e \in Seq(S)
  PROVE  FlattenSeq(s) \in Seq(S) /\ FlattenSeq(Append(s, e)) = FlattenSeq(s) \o e
<1> DEFINE t == Append(s, e)
<1>1. /\ t \in Seq(Seq(S)) /\ Len(t) = Len(s) + 1 /\ t[Len(s) + 1] = e
      /\ \A i \in 1..Len(s) : t[i] = s[i] /\ s[i] \in Seq(S)
      /\ Len(s) \in Nat
  OBVIOUS
<1> HIDE DEF t
<1>2. PICK g : /\ FlattenSeq(t) = g[Len(t)]
               /\ \A n \in 1..Len(t) : g[n] = IF n = 1 THEN t[n] ELSE g[n - 1] \o t[n]
  <2>1. Len(t) # 0
    BY <1>1
  <2> QED BY <1>1, <2>1, JoinIs, Zenon
<1>3. CASE Len(s) = 0
  <2>1. FlattenSeq(t) = e
    BY <1>1, <1>2, <1>3
  <2>2. s = <<>>
    BY <1>3
  <2>3. FlattenSeq(s) = <<>>
    BY <2>2, JoinNothing
  <2>4. <<>> \o e = e /\ <<>> \in Seq(S)
    OBVIOUS
  <2> QED BY <2>1, <2>3, <2>4 DEF t
<1>4. CASE Len(s) # 0
  <2>1. PICK f : /\ FlattenSeq(s) = f[Len(s)]
                 /\ \A n \in 1..Len(s) : f[n] = IF n = 1 THEN s[n] ELSE f[n - 1] \o s[n]
    BY <1>4, JoinIs
  <2> DEFINE E == {n \in Nat : n + 1 \in 1..Len(s) => g[n + 1] = f[n + 1] /\ f[n + 1] \in Seq(S)}
  <2>2. 0 \in E
    <3>1. 1 \in 1..Len(s) => 1 \in 1..Len(t) /\ g[1] = t[1] /\ f[1] = s[1] /\ t[1] = s[1] /\ s[1] \in Seq(S)
      BY <1>1, <1>2, <2>1
    <3> QED BY <3>1
  <2>3. ASSUME NEW n \in Nat, n \in E PROVE n + 1 \in E
    <3> SUFFICES ASSUME n + 2 \in 1..Len(s) PROVE g[n + 2] = f[n + 2] /\ f[n + 2] \in Seq(S)
      OBVIOUS
    <3>0. Len(s) \in Nat /\ Len(t) = Len(s) + 1
      BY <1>1
    <3>1. n + 1 \in 1..Len(s) /\ n + 2 # 1 /\ (n + 2) - 1 = n + 1 /\ n + 2 \in 1..Len(t)
      BY <3>0
    <3>2. g[n + 1] = f[n + 1] /\ f[n + 1] \in Seq(S)
      BY <2>3, <3>1
    <3>3. g[n + 2] = g[n + 1] \o t[n + 2] /\ f[n + 2] = f[n + 1] \o s[n + 2]
      BY <1>2, <2>1, <3>1
    <3>4. t[n + 2] = s[n + 2] /\ s[n + 2] \in Seq(S)
      BY <1>1
    <3> QED BY <3>2, <3>3, <3>4
  <2>4. Nat \subseteq E
    <3> HIDE DEF E
    <3> QED BY <2>2, <2>3, Induct
  <2>5. g[Len(s)] = f[Len(s)] /\ f[Len(s)] \in Seq(S)
    <3>1. Len(s) - 1 \in Nat /\ (Len(s) - 1) + 1 = Len(s) /\ Len(s) \in 1..Len(s)
      BY <1>1, <1>4
    <3>2. Len(s) - 1 \in E
      BY <2>4, <3>1
    <3> QED BY <3>1, <3>2
  <2>6. g[Len(t)] = g[Len(s)] \o t[Len(s) + 1]
    <3>1. Len(s) + 1 \in 1..Len(t) /\ Len(s) + 1 # 1 /\ (Len(s) + 1) - 1 = Len(s) /\ Len(t) = Len(s) + 1
      BY <1>1, <1>4
    <3> QED BY <1>2, <3>1
  <2>7. FlattenSeq(t) = FlattenSeq(s) \o e
    BY <1>1, <1>2, <2>1, <2>5, <2>6
  <2> QED BY <2>1, <2>5, <2>7 DEF t
<1> QED BY <1>3, <1>4

\* Two sequences of sequences, one after the other.
LEMMA JoinConcat ==
  ASSUME NEW S, NEW s \in Seq(Seq(S)), NEW u \in Seq(Seq(S))
  PROVE  FlattenSeq(s \o u) = FlattenSeq(s) \o FlattenSeq(u)
<1> DEFINE T == Seq(Seq(S))
           Holds(v) == FlattenSeq(s \o v) = FlattenSeq(s) \o FlattenSeq(v)
           E == {n \in Nat : \A v \in T : Len(v) = n => Holds(v)}
<1>1. 0 \in E
  <2> SUFFICES ASSUME NEW v \in T, Len(v) = 0 PROVE Holds(v)
    OBVIOUS
  <2>1. v = <<>> /\ s \o v = s
    OBVIOUS
  <2>2. FlattenSeq(v) = <<>>
    BY <2>1, JoinNothing
  <2>3. FlattenSeq(s) \in Seq(S)
    BY JoinStep, EmptySeq
  <2>4. FlattenSeq(s) \o <<>> = FlattenSeq(s)
    BY <2>3
  <2> QED BY <2>1, <2>2, <2>4
<1>2. ASSUME NEW n \in Nat, n \in E PROVE n + 1 \in E
  <2> SUFFICES ASSUME NEW v \in T, Len(v) = n + 1 PROVE Holds(v)
    OBVIOUS
  <2>1. PICK w \in T, e \in Seq(S) : v = Append(w, e)
    <3>1. v # <<>>
      OBVIOUS
    <3> QED BY <3>1, SequenceEmptyOrAppend, Zenon
  <2>2. Len(w) = n /\ s \o v = Append(s \o w, e) /\ s \o w \in T
    BY <2>1
  <2>3. FlattenSeq(s \o w) = FlattenSeq(s) \o FlattenSeq(w)
    BY <1>2, <2>2
  <2>4. FlattenSeq(Append(s \o w, e)) = FlattenSeq(s \o w) \o e
    BY <2>2, JoinStep
  <2>5. FlattenSeq(v) = FlattenSeq(w) \o e /\ FlattenSeq(w) \in Seq(S) /\ FlattenSeq(s) \in Seq(S)
    BY <2>1, JoinStep
  <2>6. (FlattenSeq(s) \o FlattenSeq(w)) \o e = FlattenSeq(s) \o (FlattenSeq(w) \o e)
    <3> HIDE DEF T, Holds, E
    <3> QED BY <2>5, ConcatAssociative, SMTT(30)
  <2> QED BY <2>2, <2>3, <2>4, <2>5, <2>6
<1>3. Nat \subseteq E
  <2> HIDE DEF E
  <2> QED BY <1>1, <1>2, Induct
<1>4. Len(u) \in E
  BY <1>3
<1> QED BY <1>4

-----------------------------------------------------------------------------
(* The entries of a series *)

Paths == DOMAIN Number
Lines == [path : Paths \cup {NotThere}, comment : BOOLEAN]

LEMMA EntryType ==
  ASSUME NEW x \in Lines
  PROVE  EntryOn(x) \in Seq(Paths)
<1>1. x.path \in Paths \/ x.path = NotThere
  BY DEF Lines
<1> QED BY <1>1 DEF EntryOn

\* The entries of each line, line by line.
Entries(lines) == [i \in DOMAIN lines |-> EntryOn(lines[i])]

LEMMA EntriesType ==
  ASSUME NEW lines \in Seq(Lines)
  PROVE  /\ Entries(lines) \in Seq(Seq(Paths))
         /\ Len(Entries(lines)) = Len(lines)
         /\ \A i \in 1..Len(lines) : Entries(lines)[i] = EntryOn(lines[i])
<1>1. \A i \in 1..Len(lines) : lines[i] \in Lines
  OBVIOUS
<1>2. \A i \in 1..Len(lines) : EntryOn(lines[i]) \in Seq(Paths)
  BY <1>1, EntryType
<1> QED BY <1>2 DEF Entries

\* A series is parsed line by line.
LEMMA ParseConcat ==
  ASSUME NEW l \in Seq(Lines), NEW m \in Seq(Lines)
  PROVE  /\ ParseSeries(l) \in Seq(Paths)
         /\ ParseSeries(l \o m) = ParseSeries(l) \o ParseSeries(m)
<1>1. ParseSeries(l) = FlattenSeq(Entries(l)) /\ ParseSeries(m) = FlattenSeq(Entries(m))
  BY DEF ParseSeries, Entries
<1>2. ParseSeries(l \o m) = FlattenSeq(Entries(l \o m)) /\ l \o m \in Seq(Lines)
  BY DEF ParseSeries, Entries
<1>3. Entries(l \o m) = Entries(l) \o Entries(m)
  <2> DEFINE lm == l \o m
             a == Entries(l)
             b == Entries(m)
             e == Entries(lm)
             f == a \o b
  <2>1. /\ a \in Seq(Seq(Paths)) /\ Len(a) = Len(l)
        /\ b \in Seq(Seq(Paths)) /\ Len(b) = Len(m)
    BY EntriesType
  <2>2. /\ lm \in Seq(Lines) /\ Len(lm) = Len(l) + Len(m)
        /\ \A i \in 1..Len(l) : lm[i] = l[i] /\ a[i] = EntryOn(l[i])
        /\ \A i \in 1..Len(m) : lm[Len(l) + i] = m[i] /\ b[i] = EntryOn(m[i])
    BY EntriesType
  <2> HIDE DEF lm, a, b
  <2>3. e \in Seq(Seq(Paths)) /\ Len(e) = Len(l) + Len(m)
    BY <2>2, EntriesType
  <2>4. /\ f \in Seq(Seq(Paths)) /\ Len(f) = Len(l) + Len(m)
        /\ \A i \in 1..Len(l) : f[i] = a[i]
        /\ \A i \in 1..Len(m) : f[Len(l) + i] = b[i]
    <3>1. /\ f \in Seq(Seq(Paths)) /\ Len(f) = Len(a) + Len(b)
          /\ \A i \in 1..(Len(a) + Len(b)) : f[i] = IF i <= Len(a) THEN a[i] ELSE b[i - Len(a)]
      BY <2>1, ConcatProperties
    <3>2. Len(l) \in Nat /\ Len(m) \in Nat
      OBVIOUS
    <3>3. ASSUME NEW i \in 1..Len(m) PROVE f[Len(l) + i] = b[i]
      <4>1. /\ Len(l) + i \in 1..(Len(a) + Len(b)) /\ ~(Len(l) + i <= Len(a))
            /\ (Len(l) + i) - Len(a) = i
        BY <2>1, <3>2
      <4> HIDE DEF f
      <4> QED BY <3>1, <4>1
    <3>4. ASSUME NEW i \in 1..Len(l) PROVE f[i] = a[i]
      <4>1. i \in 1..(Len(a) + Len(b)) /\ i <= Len(a)
        BY <2>1, <3>2
      <4> HIDE DEF f
      <4> QED BY <3>1, <4>1
    <3> HIDE DEF f
    <3> QED BY <2>1, <3>1, <3>3, <3>4
  <2>5. ASSUME NEW i \in 1..(Len(l) + Len(m)) PROVE e[i] = f[i]
    <3>1. e[i] = EntryOn(lm[i])
      BY <2>2, EntriesType
    <3>2. CASE i <= Len(l)
      <4>1. i \in 1..Len(l)
        BY <3>2
      <4> HIDE DEF e, f
      <4> QED BY <2>2, <2>4, <3>1, <4>1
    <3>3. CASE i > Len(l)
      <4>1. PICK k \in 1..Len(m) : i = Len(l) + k
        <5>1. i - Len(l) \in 1..Len(m) /\ i = Len(l) + (i - Len(l))
          BY <3>3
        <5> QED BY <5>1
      <4> HIDE DEF e, f
      <4> QED BY <2>2, <2>4, <3>1, <4>1
    <3>4. i <= Len(l) \/ i > Len(l)
      OBVIOUS
    <3> QED BY <3>2, <3>3, <3>4
  <2> HIDE DEF e, f
  <2>6. e = f
    BY <2>3, <2>4, <2>5, SeqEqual
  <2> QED BY <2>6 DEF e, f, lm, a, b
<1>4. Entries(l) \in Seq(Seq(Paths)) /\ Entries(m) \in Seq(Seq(Paths))
  BY EntriesType
<1>5. FlattenSeq(Entries(l)) \in Seq(Paths)
  BY <1>4, JoinStep, EmptySeq
<1>6. FlattenSeq(Entries(l) \o Entries(m)) = FlattenSeq(Entries(l)) \o FlattenSeq(Entries(m))
  BY <1>4, JoinConcat
<1> QED BY <1>1, <1>2, <1>3, <1>5, <1>6

LEMMA ParseOne ==
  ASSUME NEW x \in Lines
  PROVE  ParseSeries(<<x>>) = EntryOn(x)
<1> DEFINE e == EntryOn(x)
<1>1. e \in Seq(Paths)
  BY EntryType
<1>2. ParseSeries(<<x>>) = FlattenSeq([i \in 1..1 |-> e])
  <2>1. DOMAIN <<x>> = 1..1 /\ <<x>>[1] = x
    OBVIOUS
  <2>2. [i \in DOMAIN <<x>> |-> EntryOn(<<x>>[i])] = [i \in 1..1 |-> e]
    BY <2>1
  <2> QED BY <2>2 DEF ParseSeries
<1> HIDE DEF e
<1>3. [i \in 1..1 |-> e] = Append(<<>>, e) /\ <<>> \in Seq(Seq(Paths))
  OBVIOUS
<1>4. FlattenSeq(Append(<<>>, e)) = FlattenSeq(<<>>) \o e
  BY <1>1, <1>3, JoinStep
<1>5. <<>> \o e = e
  BY <1>1
<1> QED BY <1>2, <1>3, <1>4, <1>5, JoinNothing DEF e

LEMMA ParseNothing == ParseSeries(<<>>) = <<>>
<1>1. [i \in DOMAIN <<>> |-> EntryOn(<<>>[i])] = <<>>
  OBVIOUS
<1> QED BY <1>1, JoinNothing DEF ParseSeries

\* Each entry is the path of a line.
LEMMA EntryOfLine ==
  ASSUME NEW lines \in Seq(Lines), NEW p \in ToSet(ParseSeries(lines))
  PROVE  p # NotThere /\ \E i \in DOMAIN lines : lines[i].path = p
<1> DEFINE From(l) == \A q \in ToSet(ParseSeries(l)) : q # NotThere /\ \E i \in 1..Len(l) : l[i].path = q
           E == {n \in Nat : \A l \in Seq(Lines) : Len(l) = n => From(l)}
<1>1. 0 \in E
  <2> SUFFICES ASSUME NEW l \in Seq(Lines), Len(l) = 0 PROVE From(l)
    OBVIOUS
  <2>1. l = <<>>
    OBVIOUS
  <2>2. ParseSeries(l) = <<>>
    BY <2>1, ParseNothing
  <2> QED BY <2>2 DEF ToSet
<1>2. ASSUME NEW n \in Nat, n \in E PROVE n + 1 \in E
  <2> SUFFICES ASSUME NEW l \in Seq(Lines), Len(l) = n + 1 PROVE From(l)
    OBVIOUS
  <2>1. PICK w \in Seq(Lines), x \in Lines : l = Append(w, x)
    <3>1. l # <<>>
      OBVIOUS
    <3> QED BY <3>1, SequenceEmptyOrAppend, Zenon
  <2>2. /\ Len(w) = n /\ l = w \o <<x>> /\ <<x>> \in Seq(Lines) /\ l[n + 1] = x
        /\ \A i \in 1..n : l[i] = w[i]
    BY <2>1
  <2>3. From(w)
    BY <1>2, <2>2
  <2>4. ParseSeries(l) = ParseSeries(w) \o EntryOn(x) /\ ParseSeries(w) \in Seq(Paths)
    BY <2>2, ParseConcat, ParseOne
  <2> SUFFICES ASSUME NEW k \in DOMAIN ParseSeries(l)
               PROVE  ParseSeries(l)[k] # NotThere /\ \E i \in 1..Len(l) : l[i].path = ParseSeries(l)[k]
    BY DEF ToSet
  <2>5. EntryOn(x) \in Seq(Paths)
    BY EntryType
  <2>6. CASE k \in 1..Len(ParseSeries(w))
    <3>1. ParseSeries(l)[k] = ParseSeries(w)[k] /\ k \in DOMAIN ParseSeries(w)
      BY <2>4, <2>5, <2>6
    <3>2. ParseSeries(w)[k] # NotThere /\ \E i \in 1..n : w[i].path = ParseSeries(w)[k]
      BY <2>2, <2>3, <3>1 DEF ToSet
    <3>3. 1..n \subseteq 1..Len(l)
      OBVIOUS
    <3> QED BY <2>2, <3>1, <3>2, <3>3
  <2>7. CASE k \notin 1..Len(ParseSeries(w))
    <3>1. x.path # NotThere /\ ParseSeries(l)[k] = x.path
      <4>1. k - Len(ParseSeries(w)) \in 1..Len(EntryOn(x)) /\ ParseSeries(l)[k] = EntryOn(x)[k - Len(ParseSeries(w))]
        BY <2>4, <2>5, <2>7
      <4>2. EntryOn(x) # <<>>
        BY <2>5, <4>1
      <4>3. x.path # NotThere /\ EntryOn(x) = <<x.path>>
        BY <4>2 DEF EntryOn
      <4> QED BY <4>1, <4>3
    <3>2. n + 1 \in 1..Len(l)
      OBVIOUS
    <3> QED BY <2>2, <3>1, <3>2
  <2> QED BY <2>6, <2>7
<1>3. Nat \subseteq E
  <2> HIDE DEF E
  <2> QED BY <1>1, <1>2, Induct
<1>4. From(lines) /\ DOMAIN lines = 1..Len(lines)
  BY <1>3
<1> QED BY <1>4

\* What lint asks of a series: the entries are the files, each has a proper name,
\* and their numbers ascend.
InOrder(entries, files) ==
  /\ entries # <<>>
  /\ files = ToSet(entries)
  /\ \A i \in 1..Len(entries) : entries[i] \in ProperNames /\ Number[entries[i]] \in Nat
  /\ \A i, j \in 1..Len(entries) : i < j => Number[entries[i]] < Number[entries[j]]

\* Numbers each larger than the one before ascend.
LEMMA Ascending ==
  ASSUME NEW top \in Nat, NEW f, \A i \in 1..top : f[i] \in Nat,
         \A i \in 2..top : f[i - 1] < f[i]
  PROVE  \A i, j \in 1..top : i < j => f[i] < f[j]
<1> DEFINE E == {n \in Nat : n <= top => \A i, j \in 1..n : i < j => f[i] < f[j]}
<1>1. 0 \in E
  OBVIOUS
<1>2. ASSUME NEW n \in Nat, n \in E PROVE n + 1 \in E
  <2> SUFFICES ASSUME n + 1 <= top, NEW i \in 1..(n + 1), NEW j \in 1..(n + 1), i < j
               PROVE  f[i] < f[j]
    OBVIOUS
  <2>1. CASE j = n + 1
    <3>1. j \in 2..top /\ j - 1 \in 1..n /\ j - 1 \in 1..top /\ i \in 1..top /\ j \in 1..top
      BY <2>1
    <3>2. f[j - 1] < f[j] /\ f[j - 1] \in Nat /\ f[i] \in Nat /\ f[j] \in Nat
      BY <3>1
    <3>3. i = j - 1 \/ f[i] < f[j - 1]
      BY <1>2, <2>1, <3>1
    <3> QED BY <3>2, <3>3
  <2>2. CASE j # n + 1
    <3>1. i \in 1..n /\ j \in 1..n /\ n <= top
      BY <2>2
    <3> QED BY <1>2, <3>1
  <2> QED BY <2>1, <2>2
<1>3. Nat \subseteq E
  <2> HIDE DEF E
  <2> QED BY <1>1, <1>2, Induct
<1> QED BY <1>3

LEMMA NumberType ==
  ASSUME NEW p \in Paths, Number[p] # NotThere
  PROVE  Number[p] \in Nat
BY PatchFilesAssumption DEF Paths

\* Lint has nothing against a series exactly when it is in order.
LEMMA LintIs ==
  ASSUME NEW lines, NEW files, ParseSeries(lines) \in Seq(Paths)
  PROVE  LintSeries(lines, files) = {} <=> InOrder(ParseSeries(lines), files)
<1> DEFINE entries == ParseSeries(lines)
           First(i) == entries[i] \in files /\ \A j \in 1..(i - 1) : entries[j] # entries[i]
           Numbered(i) == First(i) /\ Number[entries[i]] # NotThere
           Before(i) == {j \in 1..(i - 1) : Numbered(j)}
           places == DOMAIN entries
           NoFile == {i \in places : entries[i] \notin files}
           Double == {i \in places : entries[i] \in files /\ ~First(i)}
           Named == {i \in places : First(i) /\ (entries[i] \notin ProperNames \/ ~Numbered(i))}
           Order == {i \in places : /\ Numbered(i) /\ Before(i) # {}
                                    /\ Number[entries[i]] <= Number[entries[Max(Before(i))]]}
<1>1. LintSeries(lines, files) = {} <=>
        /\ NoFile = {} /\ Double = {} /\ Named = {} /\ Order = {}
        /\ files \ ToSet(entries) = {} /\ entries # <<>>
  <2> DEFINE Each(what, S) == {<<what, entries[i]>> : i \in S}
             Other == {<<"not-listed", f>> : f \in files \ ToSet(entries)}
             None == IF entries = <<>> THEN {<<"empty">>} ELSE {}
  <2>1. LintSeries(lines, files) = Each("no-file", NoFile) \cup Each("duplicate", Double)
          \cup Each("name", Named) \cup Each("order", Order) \cup Other \cup None
    BY DEF LintSeries
  <2>2. ASSUME NEW what, NEW S PROVE Each(what, S) = {} <=> S = {}
    OBVIOUS
  <2>3. (Other = {} <=> files \ ToSet(entries) = {}) /\ (None = {} <=> entries # <<>>)
    OBVIOUS
  <2> HIDE DEF Each, Other, None, NoFile, Double, Named, Order, entries
  <2>4. /\ Each("no-file", NoFile) = {} <=> NoFile = {}
        /\ Each("duplicate", Double) = {} <=> Double = {}
        /\ Each("name", Named) = {} <=> Named = {}
        /\ Each("order", Order) = {} <=> Order = {}
    BY <2>2
  <2>5. \A a, b, c, d, e, f : a \cup b \cup c \cup d \cup e \cup f = {} <=>
          a = {} /\ b = {} /\ c = {} /\ d = {} /\ e = {} /\ f = {}
    OBVIOUS
  <2> QED BY <2>1, <2>3, <2>4, <2>5, Zenon
<1>2. entries \in Seq(Paths) /\ places = 1..Len(entries) /\ Len(entries) \in Nat
  OBVIOUS
<1>3. ASSUME LintSeries(lines, files) = {} PROVE InOrder(entries, files)
  <2>1. \A i \in places : First(i) /\ entries[i] \in ProperNames /\ Numbered(i)
    BY <1>1, <1>3
  <2>2. files = ToSet(entries)
    BY <1>1, <1>3, <2>1 DEF ToSet
  <2>3. \A i \in places : Number[entries[i]] \in Nat
    BY <1>2, <2>1, NumberType
  <2>4. ASSUME NEW i \in 2..Len(entries) PROVE Number[entries[i - 1]] < Number[entries[i]]
    <3>1. i \in places /\ i - 1 \in places /\ i - 1 \in 1..(i - 1)
      BY <1>2
    <3>2. Before(i) = 1..(i - 1)
      <4>1. \A j \in 1..(i - 1) : j \in places
        BY <1>2
      <4> QED BY <2>1, <4>1
    <3>3. Max(1..(i - 1)) = i - 1
      <4> DEFINE S == 1..(i - 1)
      <4>1. S \in SUBSET Nat /\ i - 1 \in S /\ \A k \in S : k <= i - 1
        OBVIOUS
      <4> HIDE DEF S
      <4>2. Max(S) = i - 1
        BY <4>1, MaxIs
      <4> QED BY <4>2 DEF S
    <3>4. ~(Number[entries[i]] <= Number[entries[i - 1]])
      <4>1. Numbered(i) /\ Before(i) # {}
        BY <2>1, <3>1, <3>2
      <4>2. i \notin Order
        BY <1>1, <1>3
      <4> QED BY <3>1, <3>2, <3>3, <4>1, <4>2
    <3> QED BY <2>3, <3>1, <3>4
  <2>5. \A i, j \in 1..Len(entries) : i < j => Number[entries[i]] < Number[entries[j]]
    <3> DEFINE f == [i \in 1..Len(entries) |-> Number[entries[i]]]
    <3>1. \A i \in 1..Len(entries) : f[i] \in Nat
      BY <1>2, <2>3
    <3>2. \A i \in 2..Len(entries) : i - 1 \in 1..Len(entries) /\ i \in 1..Len(entries)
      BY <1>2
    <3>3. \A i \in 2..Len(entries) : f[i - 1] < f[i]
      BY <2>4, <3>2
    <3>4. \A i \in 1..Len(entries) : f[i] = Number[entries[i]]
      OBVIOUS
    <3> HIDE DEF f, entries
    <3>5. \A i, j \in 1..Len(entries) : i < j => f[i] < f[j]
      BY <1>2, <3>1, <3>3, Ascending
    <3> QED BY <3>4, <3>5
  <2> QED BY <1>1, <1>2, <1>3, <2>1, <2>2, <2>3, <2>5 DEF InOrder
<1>4. ASSUME InOrder(entries, files) PROVE LintSeries(lines, files) = {}
  <2>1. /\ entries # <<>> /\ files = ToSet(entries)
        /\ \A i \in places : entries[i] \in ProperNames /\ Number[entries[i]] \in Nat
        /\ \A i, j \in places : i < j => Number[entries[i]] < Number[entries[j]]
    BY <1>2, <1>4 DEF InOrder
  <2>2. \A i \in places : entries[i] \in files
    BY <2>1 DEF ToSet
  <2>3. ASSUME NEW i \in places PROVE First(i) /\ Numbered(i)
    <3>1. ASSUME NEW j \in 1..(i - 1) PROVE entries[j] # entries[i]
      <4>1. j \in places /\ j < i /\ i \in places
        BY <1>2
      <4>2. Number[entries[j]] < Number[entries[i]] /\ Number[entries[i]] \in Nat /\ Number[entries[j]] \in Nat
        BY <2>1, <4>1
      <4> QED BY <4>2
    <3> QED BY <2>1, <2>2, <3>1, PatchFilesAssumption
  <2>4. ASSUME NEW i \in Order PROVE FALSE
    <3>1. i \in places /\ Before(i) # {}
      OBVIOUS
    <3>2. Before(i) \in SUBSET Nat /\ i - 1 \in 1..(i - 1)
      BY <1>2, <3>1
    <3>3. i - 1 \in places /\ i - 1 < i
      BY <1>2, <3>1, <3>2
    <3>4. i - 1 \in Before(i) /\ \A k \in Before(i) : k <= i - 1
      BY <1>2, <2>3, <3>2, <3>3
    <3>5. Max(Before(i)) = i - 1
      <4> DEFINE S == Before(i)
      <4>1. S \in SUBSET Nat /\ i - 1 \in S /\ \A k \in S : k <= i - 1
        BY <3>2, <3>4
      <4> HIDE DEF S
      <4>2. Max(S) = i - 1
        BY <4>1, MaxIs
      <4> QED BY <4>2 DEF S
    <3>6. Number[entries[i]] <= Number[entries[i - 1]]
      BY <3>5
    <3>7. Number[entries[i - 1]] < Number[entries[i]] /\ Number[entries[i]] \in Nat /\ Number[entries[i - 1]] \in Nat
      BY <2>1, <3>1, <3>3
    <3> QED BY <3>6, <3>7
  <2>5. NoFile = {} /\ Double = {} /\ Named = {} /\ Order = {} /\ files \ ToSet(entries) = {}
    BY <2>1, <2>2, <2>3, <2>4
  <2> QED BY <1>1, <2>1, <2>5
<1> QED BY <1>3, <1>4

-----------------------------------------------------------------------------
(* A new entry *)

IsLarger(line, entry) ==
  /\ line.path # NotThere
  /\ Number[line.path] # NotThere
  /\ Number[line.path] >= Number[entry]

\* The entry goes before the first line with a number that is not smaller.
LEMMA InsertIs ==
  ASSUME NEW lines \in Seq(Lines), NEW entry \in Paths
  PROVE  \E l, m \in Seq(Lines) :
           /\ lines = l \o m
           /\ InsertIntoText(lines, entry) = (l \o <<EntryLine(entry)>>) \o m
           /\ \A i \in 1..Len(l) : ~IsLarger(l[i], entry)
           /\ m # <<>> => IsLarger(m[1], entry)
<1> DEFINE large == Larger(lines, entry)
           k == Find(large, Len(lines) + 1)
           l == SubSeq(lines, 1, k - 1)
           m == SubSeq(lines, k, Len(lines))
<1>1. large = {i \in 1..Len(lines) : IsLarger(lines[i], entry)} /\ Len(lines) \in Nat
  BY DEF Larger, IsLarger
<1> HIDE DEF large
<1>2. /\ k \in 1..(Len(lines) + 1)
      /\ \A i \in 1..(k - 1) : ~IsLarger(lines[i], entry)
      /\ k # Len(lines) + 1 => IsLarger(lines[k], entry)
  <2>1. CASE large = {}
    <3>1. k = Len(lines) + 1
      BY <2>1 DEF Find
    <3>2. \A i \in 1..(k - 1) : i \in 1..Len(lines)
      BY <1>1, <3>1
    <3> HIDE DEF k
    <3> QED BY <1>1, <2>1, <3>1, <3>2
  <2>2. CASE large # {}
    <3>1. k = Min(large) /\ large \in SUBSET Nat
      BY <1>1, <2>2 DEF Find
    <3>2. k \in large /\ \A i \in large : k <= i
      BY <2>2, <3>1, MinIs
    <3>3. \A i \in 1..(k - 1) : i \in 1..Len(lines) /\ ~(k <= i)
      BY <1>1, <3>2
    <3> QED BY <1>1, <3>2, <3>3
  <2> QED BY <2>1, <2>2
<1>3. InsertIntoText(lines, entry) = (l \o <<EntryLine(entry)>>) \o m
  BY DEF InsertIntoText, InsertAt, large
<1> HIDE DEF k
<1>4. /\ l \in Seq(Lines) /\ Len(l) = k - 1 /\ \A i \in 1..(k - 1) : l[i] = lines[i]
      /\ m \in Seq(Lines)
      /\ m # <<>> => k # Len(lines) + 1 /\ m[1] = lines[k]
  BY <1>1, <1>2
<1>5. lines = l \o m
  <2>1. k - 1 \in 0..Len(lines) /\ (k - 1) + 1 = k /\ SubSeq(lines, 1, Len(lines)) = lines
    BY <1>1, <1>2
  <2> DEFINE n == k - 1
  <2>2. n \in 0..Len(lines)
    BY <2>1
  <2> HIDE DEF n
  <2>3. SubSeq(lines, 1, n) \o SubSeq(lines, n + 1, Len(lines)) = SubSeq(lines, 1, Len(lines))
    <3>1. 1 \in 1..(Len(lines) + 1) /\ n \in (1 - 1)..Len(lines) /\ Len(lines) \in n..Len(lines)
      BY <1>1, <2>2
    <3> QED BY <3>1, ConcatAdjacentSubSeq
  <2> QED BY <2>1, <2>3 DEF n
<1> HIDE DEF l, m
<1>6. \A i \in 1..Len(l) : ~IsLarger(l[i], entry)
  BY <1>2, <1>4
<1>7. m # <<>> => IsLarger(m[1], entry)
  BY <1>2, <1>4
<1>8. l \in Seq(Lines) /\ m \in Seq(Lines)
  BY <1>4
<1> QED BY <1>3, <1>5, <1>6, <1>7, <1>8

\* The items of a sequence with one more between two parts of it.
LEMMA Between ==
  ASSUME NEW S, NEW a \in Seq(S), NEW e \in S, NEW b \in Seq(S)
  PROVE  LET s == (a \o <<e>>) \o b
         IN /\ s \in Seq(S) /\ Len(s) = Len(a) + 1 + Len(b)
            /\ \A i \in 1..Len(a) : s[i] = a[i]
            /\ s[Len(a) + 1] = e
            /\ \A i \in 1..Len(b) : s[Len(a) + 1 + i] = b[i]
<1> DEFINE c == a \o <<e>>
           s == c \o b
<1>1. c \in Seq(S) /\ Len(c) = Len(a) + 1 /\ c[Len(a) + 1] = e /\ \A i \in 1..Len(a) : c[i] = a[i]
  OBVIOUS
<1> HIDE DEF c
<1>2. /\ s \in Seq(S) /\ Len(s) = Len(c) + Len(b)
      /\ \A i \in 1..(Len(c) + Len(b)) : s[i] = IF i <= Len(c) THEN c[i] ELSE b[i - Len(c)]
  BY <1>1, ConcatProperties
<1> HIDE DEF s
<1>3. Len(a) \in Nat /\ Len(b) \in Nat
  OBVIOUS
<1>4. ASSUME NEW i \in 1..(Len(a) + 1) PROVE s[i] = c[i]
  BY <1>1, <1>2, <1>3
<1>5. ASSUME NEW i \in 1..Len(b) PROVE s[Len(a) + 1 + i] = b[i]
  <2>1. /\ Len(a) + 1 + i \in 1..(Len(c) + Len(b)) /\ ~(Len(a) + 1 + i <= Len(c))
        /\ (Len(a) + 1 + i) - Len(c) = i
    BY <1>1, <1>3
  <2> QED BY <1>2, <2>1
<1>6. \A i \in 1..Len(a) : i \in 1..(Len(a) + 1)
  BY <1>3
<1>7. Len(a) + 1 \in 1..(Len(a) + 1)
  BY <1>3
<1>8. /\ s \in Seq(S) /\ Len(s) = Len(a) + 1 + Len(b)
      /\ \A i \in 1..Len(a) : s[i] = a[i]
      /\ s[Len(a) + 1] = e
      /\ \A i \in 1..Len(b) : s[Len(a) + 1 + i] = b[i]
  BY <1>1, <1>2, <1>4, <1>5, <1>6, <1>7
<1> QED BY <1>8 DEF s, c

\* Taking it out again leaves the two parts.
LEMMA RemoveBetween ==
  ASSUME NEW S, NEW a \in Seq(S), NEW e \in S, NEW b \in Seq(S)
  PROVE  RemoveAt((a \o <<e>>) \o b, Len(a) + 1) = a \o b
<1> DEFINE s == (a \o <<e>>) \o b
           top == Len(a) + 1 + Len(b)
<1>1. /\ s \in Seq(S) /\ Len(s) = top
      /\ \A i \in 1..Len(a) : s[i] = a[i]
      /\ \A i \in 1..Len(b) : s[Len(a) + 1 + i] = b[i]
  BY Between
<1>2. Len(a) \in Nat /\ Len(b) \in Nat
  OBVIOUS
<1>3. RemoveAt(s, Len(a) + 1) = SubSeq(s, 1, (Len(a) + 1) - 1) \o SubSeq(s, (Len(a) + 1) + 1, Len(s))
  BY DEF RemoveAt
<1> HIDE DEF s
<1>4. SubSeq(s, 1, (Len(a) + 1) - 1) = a
  <2> DEFINE t == SubSeq(s, 1, Len(a))
  <2>1. \A i \in 1..Len(a) : s[i] \in S
    BY <1>1, <1>2
  <2>2. t \in Seq(S) /\ Len(t) = Len(a) /\ \A i \in 1..Len(a) : t[i] = s[i]
    BY <1>1, <1>2, <2>1
  <2> HIDE DEF t
  <2>3. t = a
    BY <1>1, <1>2, <2>2, SeqEqual
  <2> QED BY <1>2, <2>3 DEF t
<1>5. SubSeq(s, (Len(a) + 1) + 1, Len(s)) = b
  <2> DEFINE t == SubSeq(s, Len(a) + 2, top)
  <2>1. \A i \in (Len(a) + 2)..top : s[i] \in S
    BY <1>1, <1>2
  <2>2. t \in Seq(S) /\ Len(t) = Len(b) /\ \A i \in 1..Len(b) : t[i] = s[Len(a) + 1 + i]
    BY <1>1, <1>2, <2>1
  <2> HIDE DEF t
  <2>3. t = b
    BY <1>1, <1>2, <2>2, SeqEqual
  <2>4. (Len(a) + 1) + 1 = Len(a) + 2
    BY <1>2
  <2> QED BY <1>1, <2>3, <2>4 DEF t
<1> QED BY <1>3, <1>4, <1>5 DEF s

\* An order with a new entry between smaller and larger numbers is one.
LEMMA OrderKept ==
  ASSUME NEW a \in Seq(Paths), NEW e \in Paths, NEW b \in Seq(Paths), NEW files,
         InOrder(a \o b, files), e \in ProperNames, Number[e] \in Nat,
         \A i \in 1..Len(a) : Number[a[i]] < Number[e],
         \A i \in 1..Len(b) : Number[e] < Number[b[i]]
  PROVE  InOrder((a \o <<e>>) \o b, files \cup {e})
<1> DEFINE s == (a \o <<e>>) \o b
           t == a \o b
           n == Len(a)
<1>1. /\ s \in Seq(Paths) /\ Len(s) = n + 1 + Len(b)
      /\ \A i \in 1..n : s[i] = a[i]
      /\ s[n + 1] = e
      /\ \A i \in 1..Len(b) : s[n + 1 + i] = b[i]
  BY Between
<1>2. /\ t \in Seq(Paths) /\ Len(t) = n + Len(b)
      /\ \A i \in 1..n : t[i] = a[i]
      /\ \A i \in 1..Len(b) : t[n + i] = b[i]
  <2>1. /\ t \in Seq(Paths) /\ Len(t) = n + Len(b)
        /\ \A i \in 1..(n + Len(b)) : t[i] = IF i <= n THEN a[i] ELSE b[i - n]
    BY ConcatProperties
  <2>2. n \in Nat /\ Len(b) \in Nat
    OBVIOUS
  <2> HIDE DEF t, n
  <2>3. ASSUME NEW i \in 1..Len(b) PROVE t[n + i] = b[i]
    <3>1. n + i \in 1..(n + Len(b)) /\ ~(n + i <= n) /\ (n + i) - n = i
      BY <2>2
    <3> QED BY <2>1, <3>1
  <2>4. \A i \in 1..n : i \in 1..(n + Len(b)) /\ i <= n
    BY <2>2
  <2> QED BY <2>1, <2>3, <2>4
<1>3. n \in Nat /\ Len(b) \in Nat
  OBVIOUS
<1>4. /\ files = ToSet(t)
      /\ \A i \in 1..Len(t) : t[i] \in ProperNames /\ Number[t[i]] \in Nat
      /\ \A i, j \in 1..Len(t) : i < j => Number[t[i]] < Number[t[j]]
  BY DEF InOrder
<1> HIDE DEF s, t, n
\* Each place of s is that of e, or the place of an item of t.
<1> DEFINE At(i) == IF i <= n THEN i ELSE i - 1
<1>5. ASSUME NEW i \in 1..Len(s), i # n + 1
      PROVE  /\ At(i) \in 1..Len(t) /\ s[i] = t[At(i)]
             /\ i < n + 1 => Number[s[i]] < Number[e]
             /\ i > n + 1 => Number[e] < Number[s[i]]
  <2>1. CASE i <= n
    <3>1. i \in 1..n /\ At(i) = i /\ i \in 1..Len(t) /\ ~(i > n + 1)
      BY <1>2, <1>3, <2>1
    <3>2. s[i] = a[i] /\ t[i] = a[i] /\ Number[a[i]] < Number[e]
      BY <1>1, <1>2, <3>1 DEF n
    <3> HIDE DEF At
    <3> QED BY <3>1, <3>2
  <2>2. CASE ~(i <= n)
    <3>1. PICK k \in 1..Len(b) : i = n + 1 + k
      <4>1. i - (n + 1) \in 1..Len(b) /\ i = n + 1 + (i - (n + 1))
        BY <1>1, <1>3, <1>5, <2>2
      <4> QED BY <4>1
    <3>2. At(i) = n + k /\ n + k \in 1..Len(t) /\ ~(i < n + 1)
      BY <1>2, <1>3, <2>2, <3>1
    <3>3. s[i] = b[k] /\ t[n + k] = b[k] /\ Number[e] < Number[b[k]]
      BY <1>1, <1>2, <3>1
    <3> HIDE DEF At
    <3> QED BY <3>2, <3>3
  <2> QED BY <2>1, <2>2
<1>6. ASSUME NEW i \in 1..Len(s), NEW j \in 1..Len(s), i < j, i # n + 1, j # n + 1
      PROVE  At(i) < At(j)
  <2>1. i \in Nat /\ j \in Nat
    BY <1>1, <1>3
  <2> QED BY <1>3, <1>6, <2>1
<1>7. n + 1 \in 1..Len(s)
  BY <1>1, <1>3
<1>8. ToSet(s) = files \cup {e}
  <2>1. ASSUME NEW k \in 1..Len(t) PROVE \E i \in 1..Len(s) : s[i] = t[k]
    <3>1. CASE k <= n
      <4>1. k \in 1..n /\ k \in 1..Len(s)
        BY <1>1, <1>2, <1>3, <3>1
      <4> QED BY <1>1, <1>2, <4>1
    <3>2. CASE ~(k <= n)
      <4>1. k - n \in 1..Len(b) /\ n + (k - n) = k /\ n + 1 + (k - n) \in 1..Len(s)
        BY <1>1, <1>2, <1>3, <3>2
      <4>2. t[k] = b[k - n] /\ s[n + 1 + (k - n)] = b[k - n]
        BY <1>1, <1>2, <4>1
      <4> QED BY <4>1, <4>2
    <3> QED BY <3>1, <3>2
  <2>2. ASSUME NEW i \in 1..Len(s) PROVE s[i] = e \/ \E k \in 1..Len(t) : s[i] = t[k]
    <3> HIDE DEF At
    <3> QED BY <1>1, <1>5
  <2>3. ToSet(s) = {s[i] : i \in 1..Len(s)} /\ ToSet(t) = {t[i] : i \in 1..Len(t)}
    <3>1. DOMAIN s = 1..Len(s) /\ DOMAIN t = 1..Len(t)
      BY <1>1, <1>2
    <3> QED BY <3>1 DEF ToSet
  <2>4. ASSUME NEW p \in ToSet(s) PROVE p \in files \cup {e}
    BY <1>4, <2>2, <2>3
  <2>5. ASSUME NEW p \in files \cup {e} PROVE p \in ToSet(s)
    BY <1>1, <1>4, <1>7, <2>1, <2>3
  <2> QED BY <2>4, <2>5
<1>9. \A i \in 1..Len(s) : s[i] \in ProperNames /\ Number[s[i]] \in Nat
  <2> HIDE DEF At
  <2> QED BY <1>1, <1>4, <1>5
<1>10. ASSUME NEW i \in 1..Len(s), NEW j \in 1..Len(s), i < j
       PROVE  Number[s[i]] < Number[s[j]]
  <2>1. CASE i = n + 1
    <3>1. j # n + 1 /\ j > n + 1
      BY <1>10, <2>1
    <3> QED BY <1>1, <1>5, <2>1, <3>1
  <2>2. CASE j = n + 1
    <3>1. i # n + 1 /\ i < n + 1
      BY <1>10, <2>2
    <3> QED BY <1>1, <1>5, <2>2, <3>1
  <2>3. CASE i # n + 1 /\ j # n + 1
    <3>1. At(i) < At(j)
      BY <1>6, <1>10, <2>3
    <3> HIDE DEF At
    <3> QED BY <1>4, <1>5, <2>3, <3>1
  <2> QED BY <2>1, <2>2, <2>3
<1>11. s # <<>>
  BY <1>1, <1>3
<1> QED BY <1>8, <1>9, <1>10, <1>11 DEF InOrder, s

\* What comes before the new entry is smaller, and what comes after it is not.
LEMMA Smaller ==
  ASSUME NEW l \in Seq(Lines), NEW entry \in Paths, Number[entry] \in Nat,
         \A i \in 1..Len(l) : ~IsLarger(l[i], entry),
         \A i \in 1..Len(ParseSeries(l)) : Number[ParseSeries(l)[i]] \in Nat
  PROVE  \A i \in 1..Len(ParseSeries(l)) : Number[ParseSeries(l)[i]] < Number[entry]
<1> DEFINE a == ParseSeries(l)
<1>1. a \in Seq(Paths)
  BY ParseConcat
<1> SUFFICES ASSUME NEW i \in 1..Len(a) PROVE Number[a[i]] < Number[entry]
  OBVIOUS
<1>2. a[i] \in ToSet(a)
  BY <1>1 DEF ToSet
<1>3. a[i] # NotThere /\ \E k \in DOMAIN l : l[k].path = a[i]
  BY <1>2, EntryOfLine
<1>4. PICK k \in 1..Len(l) : l[k].path = a[i]
  BY <1>3
<1>5. ~IsLarger(l[k], entry) /\ Number[a[i]] \in Nat
  OBVIOUS
<1> HIDE DEF a
<1> QED BY <1>3, <1>4, <1>5, PatchFilesAssumption DEF IsLarger

LEMMA NotSmaller ==
  ASSUME NEW m \in Seq(Lines), NEW entry \in Paths, m # <<>> => IsLarger(m[1], entry),
         Number[entry] \in Nat,
         \A i \in 1..Len(ParseSeries(m)) : Number[ParseSeries(m)[i]] \in Nat,
         \A i, j \in 1..Len(ParseSeries(m)) : i < j => Number[ParseSeries(m)[i]] < Number[ParseSeries(m)[j]]
  PROVE  \A i \in 1..Len(ParseSeries(m)) : Number[entry] <= Number[ParseSeries(m)[i]]
<1> DEFINE b == ParseSeries(m)
<1>1. CASE m = <<>>
  <2>1. b = <<>>
    BY <1>1, ParseNothing
  <2> QED BY <2>1
<1>2. CASE m # <<>>
  <2> DEFINE rest == SubSeq(m, 2, Len(m))
  <2>1. m = <<m[1]>> \o rest /\ m[1] \in Lines /\ rest \in Seq(Lines) /\ <<m[1]>> \in Seq(Lines)
    <3>1. Len(m) \in Nat /\ Len(m) # 0
      BY <1>2
    <3>2. 1 \in 1..Len(m) /\ Len(m) \in 1..Len(m) /\ SubSeq(m, 1, Len(m)) = m
      BY <3>1
    <3>3. SubSeq(m, 1, Len(m)) = <<m[1]>> \o SubSeq(m, 1 + 1, Len(m))
      BY <3>2, SubSeqRecursiveFirst
    <3> QED BY <3>1, <3>2, <3>3
  <2> HIDE DEF rest
  <2>2. b = EntryOn(m[1]) \o ParseSeries(rest) /\ ParseSeries(rest) \in Seq(Paths)
    BY <2>1, ParseConcat, ParseOne
  <2>3. EntryOn(m[1]) = <<m[1].path>> /\ m[1].path \in Paths /\ Number[m[1].path] >= Number[entry]
    BY <1>2, <2>1 DEF EntryOn, IsLarger, Lines
  <2>4. b[1] = m[1].path /\ 1 \in 1..Len(b) /\ b \in Seq(Paths)
    BY <2>2, <2>3
  <2>5. \A i \in 1..Len(b) : Number[b[i]] \in Nat
    OBVIOUS
  <2>6. \A i \in 1..Len(b) : i = 1 \/ Number[b[1]] < Number[b[i]]
    <3>1. \A i \in 1..Len(b) : i = 1 \/ 1 < i
      OBVIOUS
    <3>2. \A i, j \in 1..Len(b) : i < j => Number[b[i]] < Number[b[j]]
      OBVIOUS
    <3> HIDE DEF b
    <3> QED BY <2>4, <3>1, <3>2
  <2> HIDE DEF b
  <2>7. Number[entry] <= Number[b[1]]
    BY <2>3, <2>4, <2>5
  <2>8. ASSUME NEW i \in 1..Len(b) PROVE Number[entry] <= Number[b[i]]
    <3>1. Number[b[i]] \in Nat /\ Number[b[1]] \in Nat
      BY <2>4, <2>5
    <3> QED BY <2>6, <2>7, <3>1
  <2> QED BY <2>8 DEF b
<1> QED BY <1>1, <1>2

\* Sequences of one item each, joined.
LEMMA JoinSingles ==
  ASSUME NEW S, NEW s \in Seq(S)
  PROVE  FlattenSeq([i \in DOMAIN s |-> <<s[i]>>]) = s
<1> DEFINE T == Seq(S)
           Singles(t) == [i \in DOMAIN t |-> <<t[i]>>]
           E == {n \in Nat : \A t \in T : Len(t) = n => FlattenSeq(Singles(t)) = t}
<1>1. 0 \in E
  <2> SUFFICES ASSUME NEW t \in T, Len(t) = 0 PROVE FlattenSeq(Singles(t)) = t
    OBVIOUS
  <2>1. t = <<>> /\ Singles(t) = <<>>
    OBVIOUS
  <2> HIDE DEF Singles
  <2> QED BY <2>1, JoinNothing
<1>2. ASSUME NEW n \in Nat, n \in E PROVE n + 1 \in E
  <2> SUFFICES ASSUME NEW t \in T, Len(t) = n + 1 PROVE FlattenSeq(Singles(t)) = t
    OBVIOUS
  <2>1. PICK w \in T, e \in S : t = Append(w, e)
    <3>1. t # <<>>
      OBVIOUS
    <3> QED BY <3>1, SequenceEmptyOrAppend, Zenon
  <2>2. Len(w) = n /\ <<e>> \in Seq(S) /\ t = w \o <<e>>
    <3>1. t = w \o <<e>>
      BY <2>1, AppendIsConcat
    <3>2. Len(Append(w, e)) = Len(w) + 1 /\ Len(w) \in Nat
      OBVIOUS
    <3> HIDE DEF E
    <3> QED BY <2>1, <3>1, <3>2
  <2>3. Singles(w) \in Seq(Seq(S))
    <3>1. \A i \in 1..Len(w) : <<w[i]>> \in Seq(S)
      OBVIOUS
    <3>2. DOMAIN w = 1..Len(w) /\ Len(w) \in Nat
      OBVIOUS
    <3> QED BY <3>1, <3>2
  <2>4. Singles(t) = Append(Singles(w), <<e>>)
    BY <2>1
  <2>5. FlattenSeq(Singles(w)) = w
    BY <1>2, <2>2
  <2> HIDE DEF Singles
  <2>6. FlattenSeq(Append(Singles(w), <<e>>)) = FlattenSeq(Singles(w)) \o <<e>>
    BY <2>2, <2>3, JoinStep
  <2> QED BY <2>2, <2>4, <2>5, <2>6
<1>3. Nat \subseteq E
  <2> HIDE DEF E
  <2> QED BY <1>1, <1>2, Induct
<1>4. Len(s) \in E
  BY <1>3
<1> QED BY <1>4

-----------------------------------------------------------------------------
(* The series: SeriesKept *)

LEMMA InsertLints ==
  ASSUME NEW lines \in Seq(Lines), NEW files, NEW entry \in Paths \cap ProperNames, Number[entry] \in Nat,
         LintSeries(lines, files) = {},
         Number[entry] \notin {Number[p] : p \in ToSet(ParseSeries(lines))}
  PROVE  LET after == InsertIntoText(lines, entry)
         IN /\ LintSeries(after, files \cup {entry}) = {}
            /\ Number[entry] = NextAfter(files) => Last(ParseSeries(after)) = entry
<1> DEFINE after == InsertIntoText(lines, entry)
           x == EntryLine(entry)
<1>1. PICK l \in Seq(Lines), m \in Seq(Lines) :
        /\ lines = l \o m
        /\ after = (l \o <<x>>) \o m
        /\ \A i \in 1..Len(l) : ~IsLarger(l[i], entry)
        /\ m # <<>> => IsLarger(m[1], entry)
  BY InsertIs
<1> DEFINE a == ParseSeries(l)
           b == ParseSeries(m)
           t == a \o b
           s == (a \o <<entry>>) \o b
<1>2. x \in Lines /\ <<x>> \in Seq(Lines) /\ l \o <<x>> \in Seq(Lines) /\ EntryOn(x) = <<entry>>
  BY PatchFilesAssumption DEF EntryLine, EntryOn, Lines, Paths
<1> HIDE DEF x
<1>3. a \in Seq(Paths) /\ b \in Seq(Paths) /\ ParseSeries(lines) = t
  BY <1>1, ParseConcat
<1>4. ParseSeries(after) = s
  <2>1. ParseSeries((l \o <<x>>) \o m) = ParseSeries(l \o <<x>>) \o b
    BY <1>2, ParseConcat
  <2>2. ParseSeries(l \o <<x>>) = a \o ParseSeries(<<x>>)
    BY <1>2, ParseConcat
  <2>3. ParseSeries(<<x>>) = <<entry>>
    BY <1>2, ParseOne
  <2> HIDE DEF after, a, b
  <2> QED BY <1>1, <2>1, <2>2, <2>3
<1> HIDE DEF a, b, after
<1>5. InOrder(t, files)
  <2>1. t \in Seq(Paths)
    BY <1>3
  <2> HIDE DEF t
  <2> QED BY <1>3, <2>1, LintIs
<1>6. /\ Len(a) \in Nat /\ Len(b) \in Nat /\ t \in Seq(Paths) /\ Len(t) = Len(a) + Len(b)
      /\ \A i \in 1..Len(a) : i \in 1..Len(t) /\ t[i] = a[i]
      /\ \A i \in 1..Len(b) : Len(a) + i \in 1..Len(t) /\ t[Len(a) + i] = b[i]
  <2>1. /\ t \in Seq(Paths) /\ Len(t) = Len(a) + Len(b)
        /\ \A i \in 1..(Len(a) + Len(b)) : t[i] = IF i <= Len(a) THEN a[i] ELSE b[i - Len(a)]
    BY <1>3, ConcatProperties
  <2>2. Len(a) \in Nat /\ Len(b) \in Nat
    BY <1>3
  <2> HIDE DEF t
  <2>3. ASSUME NEW i \in 1..Len(b) PROVE Len(a) + i \in 1..Len(t) /\ t[Len(a) + i] = b[i]
    <3>1. Len(a) + i \in 1..(Len(a) + Len(b)) /\ ~(Len(a) + i <= Len(a)) /\ (Len(a) + i) - Len(a) = i
      BY <2>2
    <3> QED BY <2>1, <3>1
  <2>4. \A i \in 1..Len(a) : i \in 1..(Len(a) + Len(b)) /\ i <= Len(a)
    BY <2>2
  <2> QED BY <2>1, <2>2, <2>3, <2>4
<1> HIDE DEF t
<1>7. /\ files = ToSet(t) /\ t # <<>>
      /\ \A i \in 1..Len(t) : t[i] \in ProperNames /\ Number[t[i]] \in Nat
      /\ \A i, j \in 1..Len(t) : i < j => Number[t[i]] < Number[t[j]]
  BY <1>5 DEF InOrder
<1>8. \A i \in 1..Len(a) : Number[a[i]] < Number[entry]
  <2>1. \A i \in 1..Len(a) : Number[a[i]] \in Nat
    BY <1>6, <1>7
  <2> QED BY <1>1, <2>1, Smaller DEF a
<1>9. \A i \in 1..Len(b) : Number[b[i]] \in Nat /\ Number[entry] <= Number[b[i]]
  <2>1. \A i \in 1..Len(b) : Number[b[i]] \in Nat
    BY <1>6, <1>7
  <2>2. ASSUME NEW i \in 1..Len(b), NEW j \in 1..Len(b), i < j PROVE Number[b[i]] < Number[b[j]]
    <3>1. Len(a) + i < Len(a) + j
      BY <1>6, <2>2
    <3>2. Number[t[Len(a) + i]] < Number[t[Len(a) + j]]
      BY <1>6, <1>7, <3>1
    <3> QED BY <1>6, <3>2
  <2>3. \A i \in 1..Len(b) : Number[entry] <= Number[b[i]]
    BY <1>1, <2>1, <2>2, NotSmaller DEF b
  <2> QED BY <2>1, <2>3
<1>10. \A i \in 1..Len(b) : Number[entry] < Number[b[i]]
  <2>1. \A i \in 1..Len(b) : b[i] \in ToSet(t)
    <3>1. DOMAIN t = 1..Len(t)
      BY <1>6
    <3> QED BY <1>6, <3>1 DEF ToSet
  <2>2. \A i \in 1..Len(b) : Number[entry] # Number[b[i]]
    BY <1>3, <2>1
  <2> QED BY <1>9, <2>2
<1>11. InOrder(s, files \cup {entry})
  BY <1>3, <1>5, <1>8, <1>10, OrderKept DEF t
<1>12. s \in Seq(Paths) /\ Len(s) = Len(a) + 1 + Len(b) /\ s[Len(a) + 1] = entry
  BY <1>3, Between
<1> HIDE DEF s
<1>13. LintSeries(after, files \cup {entry}) = {}
  BY <1>4, <1>11, <1>12, LintIs
<1>14. ASSUME Number[entry] = NextAfter(files) PROVE Last(ParseSeries(after)) = entry
  <2> DEFINE S == {Number[f] : f \in {g \in files : Number[g] # NotThere}} \cup {0}
             top == Number[t[Len(t)]]
  <2>1. Len(t) \in 1..Len(t) /\ t[Len(t)] \in files /\ DOMAIN t = 1..Len(t)
    BY <1>6, <1>7 DEF ToSet
  <2>2. top \in Nat /\ top # NotThere
    BY <1>7, <2>1, PatchFilesAssumption
  <2>3. \A i \in 1..Len(t) : Number[t[i]] \in Nat /\ Number[t[i]] <= top
    <3> SUFFICES ASSUME NEW i \in 1..Len(t) PROVE Number[t[i]] \in Nat /\ Number[t[i]] <= top
      OBVIOUS
    <3>1. i = Len(t) \/ i < Len(t)
      BY <1>6
    <3>2. i < Len(t) => Number[t[i]] < top
      BY <1>7, <2>1
    <3>3. Number[t[i]] \in Nat
      BY <1>7
    <3> QED BY <2>2, <3>1, <3>2, <3>3
  <2>4. S \in SUBSET Nat /\ top \in S /\ \A k \in S : k <= top
    <3>1. \A f \in files : Number[f] \in Nat /\ Number[f] <= top
      BY <1>7, <2>1, <2>3 DEF ToSet
    <3>2. top \in S
      BY <2>1, <2>2
    <3> QED BY <2>2, <3>1, <3>2
  <2>5. Number[entry] = Max(S) + 1
    BY <1>14, PatchFilesAssumption DEF NextAfter
  <2> HIDE DEF S
  <2>6. Max(S) = top
    BY <2>4, MaxIs
  <2>7. Len(b) = 0
    <3> SUFFICES ASSUME Len(b) # 0 PROVE FALSE
      OBVIOUS
    <3>1. 1 \in 1..Len(b)
      BY <1>6
    <3>2. Number[b[1]] <= top /\ Number[entry] < Number[b[1]] /\ Number[b[1]] \in Nat
      BY <1>6, <1>10, <2>3, <3>1
    <3> HIDE DEF top
    <3> QED BY <2>2, <2>5, <2>6, <3>2
  <2>8. Len(s) = Len(a) + 1
    BY <1>6, <1>12, <2>7
  <2> QED BY <1>4, <1>12, <2>8 DEF Last
<1> QED BY <1>13, <1>14 DEF after

\* A series that lints has no entry the shell splits, if no directory has a blank.
LEMMA ShellReadsAlike ==
  ASSUME NEW lines \in Seq(Lines), NEW files, LintSeries(lines, files) = {},
         ToSet(ParseSeries(lines)) \subseteq PlainDirs
  PROVE  ShellEntries(lines) = ParseSeries(lines)
<1> DEFINE entries == ParseSeries(lines)
<1>1. entries \in Seq(Paths)
  BY ParseConcat
<1>2. InOrder(entries, files)
  BY <1>1, LintIs
<1>3. ShellEntries(lines) = FlattenSeq([i \in DOMAIN entries |-> Words[entries[i]]])
  BY DEF ShellEntries
<1>4. \A i \in DOMAIN entries : entries[i] \in ToSet(entries)
  BY DEF ToSet
<1>5. \A i \in DOMAIN entries : entries[i] \in PlainDirs
  BY <1>4
<1> HIDE DEF entries
<1>6. \A i \in DOMAIN entries : entries[i] \in ProperNames
  BY <1>1, <1>2 DEF InOrder
<1>7. \A i \in DOMAIN entries : Words[entries[i]] = <<entries[i]>>
  BY <1>5, <1>6, PatchFilesAssumption
<1>8. [i \in DOMAIN entries |-> Words[entries[i]]] = [i \in DOMAIN entries |-> <<entries[i]>>]
  BY <1>7
<1>9. FlattenSeq([i \in DOMAIN entries |-> <<entries[i]>>]) = entries
  BY <1>1, JoinSingles
<1> QED BY <1>3, <1>8, <1>9 DEF entries

\* No other line moves.
LEMMA OnlyOneMoves ==
  ASSUME NEW lines \in Seq(Lines), NEW entry \in Paths
  PROVE  LET after == InsertIntoText(lines, entry)
         IN \E k \in DOMAIN after : after[k].path = entry /\ RemoveAt(after, k) = lines
<1> DEFINE after == InsertIntoText(lines, entry)
           x == EntryLine(entry)
<1>1. PICK l \in Seq(Lines), m \in Seq(Lines) :
        /\ lines = l \o m
        /\ after = (l \o <<x>>) \o m
        /\ \A i \in 1..Len(l) : ~IsLarger(l[i], entry)
        /\ m # <<>> => IsLarger(m[1], entry)
  BY InsertIs
<1>2. x \in Lines /\ x.path = entry
  BY DEF EntryLine, Lines, Paths
<1> HIDE DEF x, after
<1>3. RemoveAt(after, Len(l) + 1) = lines
  BY <1>1, <1>2, RemoveBetween
<1>4. after \in Seq(Lines) /\ Len(after) = Len(l) + 1 + Len(m) /\ after[Len(l) + 1] = x
  BY <1>1, <1>2, Between
<1>5. Len(l) + 1 \in DOMAIN after
  BY <1>4
<1> QED BY <1>2, <1>3, <1>4, <1>5 DEF after

-----------------------------------------------------------------------------
(* What is asked *)

AskedSource ==
  \E family \in Families : \E old, new \in family, max \in Caps :
    asked = [of |-> "source", old |-> old, new |-> new, max |-> max]
AskedReport == \E r \in Reports, s \in Scores : asked = [of |-> "report", report |-> r, score |-> s]
AskedPatch == \E p \in Patches, d \in Diffs : asked = [of |-> "patch", lines |-> p, diff |-> d]
Subjects == {"", "subject"}
AskedNew ==
  \E subject \in Subjects, text \in Descriptions, bug \in {NotThere, "url"}, d \in Diffs :
    asked = [of |-> "new", subject |-> subject, description |-> text, bug |-> bug, diff |-> d]
AskedSeries ==
  \E text \in SeriesTexts, files \in SUBSET FileNames, entry \in PatchNames :
    /\ Number[entry] # NotThere
    /\ asked = [of |-> "series", lines |-> text, files |-> files, entry |-> entry]

\* The question is one of those that Next asks, about inputs of the constants.
AskedInv ==
  asked = NoQuestion \/ AskedSource \/ AskedReport \/ AskedPatch \/ AskedNew \/ AskedSeries

\* Which one it is, its kind says.
LEMMA KindIs ==
  ASSUME AskedInv
  PROVE  /\ asked.of = "source" => AskedSource
         /\ asked.of = "report" => AskedReport
         /\ asked.of = "patch" => AskedPatch
         /\ asked.of = "new" => AskedNew
         /\ asked.of = "series" => AskedSeries
<1>1. asked = NoQuestion => asked.of = "nothing"
  BY DEF NoQuestion
<1>2. AskedSource => asked.of = "source"
  BY DEF AskedSource
<1>3. AskedReport => asked.of = "report"
  BY DEF AskedReport
<1>4. AskedPatch => asked.of = "patch"
  BY DEF AskedPatch
<1>5. AskedNew => asked.of = "new"
  <2> SUFFICES ASSUME NEW subject, NEW text, NEW bug, NEW d,
                      asked = [of |-> "new", subject |-> subject, description |-> text, bug |-> bug, diff |-> d]
               PROVE  asked.of = "new"
    BY DEF AskedNew
  <2> QED OBVIOUS
<1>6. AskedSeries => asked.of = "series"
  BY DEF AskedSeries
<1> QED BY <1>1, <1>2, <1>3, <1>4, <1>5, <1>6 DEF AskedInv

LEMMA Asks == Spec => []AskedInv
<1>1. Init => AskedInv
  BY DEF Init, AskedInv
<1>2. AskedInv /\ [Next]_asked => AskedInv'
  <2> SUFFICES ASSUME AskedInv, [Next]_asked PROVE AskedInv'
    OBVIOUS
  <2>1. CASE ComparePair
    BY <2>1, Zenon DEF ComparePair, Ask, AskedInv, AskedSource
  <2>2. CASE CheckReport
    BY <2>2, Zenon DEF CheckReport, Ask, AskedInv, AskedReport
  <2>3. CASE ReadPatch
    BY <2>3, Zenon DEF ReadPatch, Ask, AskedInv, AskedPatch
  <2>4. CASE WritePatch
    BY <2>4, Zenon DEF WritePatch, Ask, AskedInv, AskedNew, Subjects
  <2>5. CASE RegisterPatch
    BY <2>5, Zenon DEF RegisterPatch, Ask, AskedInv, AskedSeries
  <2>6. CASE Answered
    BY <2>6 DEF Answered, AskedInv
  <2>7. CASE UNCHANGED asked
    BY <2>7, Zenon DEF AskedInv, AskedSource, AskedReport, AskedPatch, AskedNew, AskedSeries
  <2> QED BY <2>1, <2>2, <2>3, <2>4, <2>5, <2>6, <2>7 DEF Next
<1> QED BY <1>1, <1>2, PTL DEF Spec

-----------------------------------------------------------------------------
\* A new entry moves no other line, a series that lints still does with it, and the
\* image build reads what lint read (insert_into_text, run_lint, apply-series.sh),
\* for every text of the series, set of files and path.
THEOREM SeriesStaysInOrder == Spec => []SeriesKept
<1>1. AskedInv => SeriesKept
  <2> SUFFICES ASSUME AskedInv, asked.of = "series" PROVE SeriesKept
    BY DEF SeriesKept
  <2>1. PICK text \in SeriesTexts, files \in SUBSET FileNames, entry \in PatchNames :
          /\ Number[entry] # NotThere
          /\ asked = [of |-> "series", lines |-> text, files |-> files, entry |-> entry]
    BY KindIs DEF AskedSeries
  <2>2. asked.lines = text /\ asked.files = files /\ asked.entry = entry
    BY <2>1
  <2>3. text \in Seq(Lines) /\ entry \in Paths
    BY TextRulesAssumption DEF Lines, Paths
  <2>4. Number[entry] \in Nat
    BY <2>1, <2>3, NumberType
  <2>5. \E k \in DOMAIN InsertIntoText(text, entry) :
          InsertIntoText(text, entry)[k].path = entry /\ RemoveAt(InsertIntoText(text, entry), k) = text
    BY <2>3, OnlyOneMoves
  <2>6. ASSUME LintSeries(text, files) = {}, entry \in ProperNames,
               Number[entry] \notin {Number[p] : p \in ToSet(ParseSeries(text))}
        PROVE  /\ LintSeries(InsertIntoText(text, entry), files \cup {entry}) = {}
               /\ Number[entry] = NextAfter(files) => Last(ParseSeries(InsertIntoText(text, entry))) = entry
    BY <2>3, <2>4, <2>6, InsertLints
  <2>7. ASSUME LintSeries(text, files) = {}, ToSet(ParseSeries(text)) \subseteq PlainDirs
        PROVE  ShellEntries(text) = ParseSeries(text)
    BY <2>3, <2>7, ShellReadsAlike
  <2> QED BY <2>2, <2>5, <2>6, <2>7, Zenon DEF SeriesKept
<1> QED BY <1>1, Asks, PTL

-----------------------------------------------------------------------------
(* Reports: VerdictEarned *)

\* Five criteria of at most two points make ten points when all of them have two.
LEMMA FullMarks ==
  ASSUME NEW criteria, \A c \in Criteria : criteria[c] \in 0..2
  PROVE  /\ Total(criteria) \in 0..10
         /\ Total(criteria) = 10 <=> \A c \in Criteria : criteria[c] = 2
<1> DEFINE a == criteria["coverage"]
           b == criteria["naturalness"]
           c == criteria["consistency"]
           d == criteria["context"]
           e == criteria["safety"]
<1>1. a \in 0..2 /\ b \in 0..2 /\ c \in 0..2 /\ d \in 0..2 /\ e \in 0..2
  BY DEF Criteria
<1>2. Total(criteria) = a + b + c + d + e
  BY DEF Total
<1>3. (\A k \in Criteria : criteria[k] = 2) <=> a = 2 /\ b = 2 /\ c = 2 /\ d = 2 /\ e = 2
  BY DEF Criteria
<1> HIDE DEF a, b, c, d, e
<1> QED BY <1>1, <1>2, <1>3

\* A report the store accepts says what its score says (validate_review_report_value,
\* check_review_report), whatever else is in it.
LEMMA AcceptedSays ==
  ASSUME NEW r, NEW s, NEW t, NEW round, ValidateReviewReport(r, s, t, round)
  PROVE  /\ CheckReviewReport(r, s)
         /\ Passed(s) <=> r.findings = <<>> /\ \A c \in Criteria : r.criteria[c] = 2
         /\ Passed(s) => r.untranslated = "empty" /\ r.glossary_violations = "empty"
         /\ Blocks(r.findings) => s <= PassScore - 3
         /\ r[t.kind] = t.id /\ r.round = round
<1>1. /\ FindingsFit(r, s) /\ CriteriaFit(r, s) /\ ListsFit(r, s) /\ Addressed(r, t, round)
      /\ CheckReviewReport(r, s)
  BY DEF ValidateReviewReport, CheckReviewReport
<1>2. s \in 0..10 /\ (s = 10 <=> \A c \in Criteria : r.criteria[c] = 2)
  BY <1>1, FullMarks DEF CriteriaFit
<1>3. (s = 10 => r.findings = <<>>) /\ (Blocks(r.findings) => s <= 7)
  BY <1>1 DEF FindingsFit
<1>4. s = 10 => r.untranslated = "empty" /\ r.glossary_violations = "empty"
  BY <1>1 DEF ListsFit
<1> QED BY <1>1, <1>2, <1>3, <1>4 DEF Passed, PassScore, Addressed

\* The verdict of a report is earned, for every report, score and target.
THEOREM VerdictsAreEarned == Spec => []VerdictEarned
<1>1. AskedInv => VerdictEarned
  <2> SUFFICES ASSUME AskedInv, asked.of = "report" PROVE VerdictEarned
    BY DEF VerdictEarned
  <2> DEFINE r == asked.report
             s == asked.score
  <2>1. ASSUME NEW t \in Targets, NEW u \in Targets, NEW round \in 1..3, NEW other \in 1..3,
               ValidateReviewReport(r, s, t, round), ValidateReviewReport(r, s, u, other)
        PROVE  other = round /\ (u.kind = t.kind => u = t)
    <3>1. r[t.kind] = t.id /\ r.round = round /\ r[u.kind] = u.id /\ r.round = other
      BY <2>1, AcceptedSays
    <3>2. t = [kind |-> t.kind, id |-> t.id] /\ u = [kind |-> u.kind, id |-> u.id]
      BY TextRulesAssumption
    <3>3. u.kind = t.kind => u.id = t.id
      BY <3>1
    <3>4. u.kind = t.kind => [kind |-> u.kind, id |-> u.id] = [kind |-> t.kind, id |-> t.id]
      BY <3>3
    <3> QED BY <3>1, <3>2, <3>4
  <2>2. ASSUME NEW t \in Targets, NEW round \in 1..3, ValidateReviewReport(r, s, t, round)
        PROVE  /\ CheckReviewReport(r, s)
               /\ Passed(s) <=> /\ r.findings = <<>>
                                /\ \A c \in Criteria : r.criteria[c] = 2
               /\ Passed(s) => r.untranslated = "empty" /\ r.glossary_violations = "empty"
               /\ Blocks(r.findings) => s <= PassScore - 3
    BY <2>2, AcceptedSays, Zenon
  <2> QED BY <2>1, <2>2, Zenon DEF VerdictEarned
<1> QED BY <1>1, Asks, PTL

-----------------------------------------------------------------------------
(* Patch files: PatchFilesHold *)

\* What lint has against the header of a patch file.
HeaderComplaints(header) ==
  {<<"missing", n>> : n \in {m \in Required : HeaderValue(header, m) = NotThere}}
    \cup (IF ~Signed(header) THEN {<<"unsigned">>} ELSE {})
    \cup (IF Cardinality(Given(header, "Subject")) > 1 THEN {<<"several-subjects">>} ELSE {})
    \cup (IF Cardinality(Given(header, "Subject")) = 1 /\ ~Titled(header) THEN {<<"empty-subject">>} ELSE {})
    \cup (IF ~Described(header) THEN {<<"empty-description">>} ELSE {})
    \cup {<<"invalid", n>> : n \in {m \in DOMAIN Vocabulary :
            HeaderValue(header, m) # NotThere /\ ~Understood(header, m)}}

\* What parse_patch asks of it.
HeaderParses(header) ==
  /\ Titled(header) /\ Described(header) /\ Signed(header)
  /\ \A n \in DOMAIN Vocabulary : Understood(header, n)
  /\ \A n \in {"From", "Date"} : HeaderValue(header, n) # NotThere

Unless(what, holds) == IF ~holds THEN {<<what>>} ELSE {}

\* What lint has against a patch file: its end, its diff, its header, its paths.
LEMMA LintParts ==
  ASSUME NEW lines
  PROVE  LintPatch(lines) =
           Unless("no-terminator", Terminated(lines)) \cup Unless("no-diff", HasDiff(lines))
             \cup HeaderComplaints(Header(lines))
             \cup {<<"forbidden", p>> : p \in Touched(lines) \cap Forbidden}
<1> DEFINE header == Header(lines)
           missing == {<<"missing", n>> : n \in {m \in Required : HeaderValue(header, m) = NotThere}}
           invalid == {<<"invalid", n>> : n \in {m \in DOMAIN Vocabulary :
                         HeaderValue(header, m) # NotThere /\ ~Understood(header, m)}}
           forbidden == {<<"forbidden", p>> : p \in Touched(lines) \cap Forbidden}
           unsigned == IF ~Signed(header) THEN {<<"unsigned">>} ELSE {}
           several == IF Cardinality(Given(header, "Subject")) > 1 THEN {<<"several-subjects">>} ELSE {}
           untitled == IF Cardinality(Given(header, "Subject")) = 1 /\ ~Titled(header)
                       THEN {<<"empty-subject">>} ELSE {}
           mute == IF ~Described(header) THEN {<<"empty-description">>} ELSE {}
           open == Unless("no-terminator", Terminated(lines))
           bare == Unless("no-diff", HasDiff(lines))
<1>1. LintPatch(lines) =
        open \cup bare \cup missing \cup unsigned \cup several \cup untitled \cup mute \cup invalid
          \cup forbidden
  BY Zenon DEF LintPatch, Unless
<1>2. HeaderComplaints(header) = missing \cup unsigned \cup several \cup untitled \cup mute \cup invalid
  BY Zenon DEF HeaderComplaints
<1> HIDE DEF missing, invalid, forbidden, unsigned, several, untitled, mute, open, bare
<1>3. open \cup bare \cup missing \cup unsigned \cup several \cup untitled \cup mute \cup invalid
          \cup forbidden
      = open \cup bare \cup (missing \cup unsigned \cup several \cup untitled \cup mute \cup invalid)
          \cup forbidden
  OBVIOUS
<1> QED BY <1>1, <1>2, <1>3 DEF open, bare, forbidden

\* No complaint about a header is one about a path, or about the end or the diff.
LEMMA HeaderTags ==
  ASSUME NEW header, NEW f \in HeaderComplaints(header)
  PROVE  f[1] # "forbidden" /\ f[1] # "no-diff" /\ f[1] # "no-terminator"
<1>1. CASE \E n : f = <<"missing", n>>
  BY <1>1
<1>2. CASE \E n : f = <<"invalid", n>>
  BY <1>2
<1>3. CASE f = <<"unsigned">>
  BY <1>3
<1>4. CASE f = <<"several-subjects">>
  BY <1>4
<1>5. CASE f = <<"empty-subject">>
  BY <1>5
<1>6. CASE f = <<"empty-description">>
  BY <1>6
<1> QED BY <1>1, <1>2, <1>3, <1>4, <1>5, <1>6 DEF HeaderComplaints

LEMMA GivenIs ==
  ASSUME NEW header \in Seq(PatchLines), NEW n
  PROVE  /\ Given(header, n) = {i \in 1..Len(header) : header[i].is = "field" /\ header[i].name = n}
         /\ Given(header, n) \in SUBSET Nat
         /\ HeaderValue(header, n) = NotThere <=> Given(header, n) = {}
         /\ Given(header, n) # {} => /\ HeaderValue(header, n) = header[Min(Given(header, n))].value
                                     /\ Min(Given(header, n)) \in Given(header, n)
<1>1. Given(header, n) = {i \in 1..Len(header) : header[i].is = "field" /\ header[i].name = n}
  BY DEF Given
<1>2. Given(header, n) \in SUBSET Nat
  BY <1>1
<1>3. ASSUME Given(header, n) # {}
      PROVE  /\ HeaderValue(header, n) = header[Min(Given(header, n))].value
             /\ Min(Given(header, n)) \in Given(header, n)
             /\ HeaderValue(header, n) # NotThere
  <2>1. Min(Given(header, n)) \in Given(header, n)
    BY <1>2, <1>3, MinIs
  <2>2. header[Min(Given(header, n))] \in PatchLines
    BY <1>1, <2>1
  <2>3. header[Min(Given(header, n))].value \in STRING
    BY <2>2 DEF PatchLines
  <2>4. HeaderValue(header, n) = header[Min(Given(header, n))].value
    BY <1>3 DEF HeaderValue
  <2> QED BY <2>1, <2>3, <2>4, PatchFilesAssumption
<1>4. Given(header, n) = {} => HeaderValue(header, n) = NotThere
  BY DEF HeaderValue
<1> QED BY <1>1, <1>2, <1>3, <1>4

\* The two readings of a header agree.
LEMMA HeaderAlike ==
  ASSUME NEW header \in Seq(PatchLines)
  PROVE  HeaderComplaints(header) = {} <=> HeaderParses(header)
<1> DEFINE missing == {m \in Required : HeaderValue(header, m) = NotThere}
           invalid == {m \in DOMAIN Vocabulary : HeaderValue(header, m) # NotThere /\ ~Understood(header, m)}
           subjects == Cardinality(Given(header, "Subject"))
<1>1. HeaderComplaints(header) = {} <=>
        /\ missing = {} /\ invalid = {} /\ Signed(header) /\ Described(header)
        /\ ~(subjects > 1) /\ ~(subjects = 1 /\ ~Titled(header))
  BY DEF HeaderComplaints
<1>2. subjects \in Nat /\ (subjects = 0 <=> Given(header, "Subject") = {})
  <2>1. IsFiniteSet(1..Len(header)) /\ Given(header, "Subject") \subseteq 1..Len(header)
    BY FS_Interval DEF Given
  <2>2. IsFiniteSet(Given(header, "Subject"))
    BY <2>1, FS_Subset
  <2> QED BY <2>2, FS_EmptySet, FS_CardinalityType
<1>3. HeaderParses(header) => missing = {}
  <2> SUFFICES ASSUME HeaderParses(header), NEW m \in Required PROVE HeaderValue(header, m) # NotThere
    OBVIOUS
  <2>1. CASE m \in {"From", "Date"}
    BY <2>1 DEF HeaderParses
  <2>2. CASE m = "Subject"
    <3>1. Given(header, "Subject") # {}
      <4>1. subjects = 1
        BY DEF HeaderParses, Titled
      <4> HIDE DEF subjects
      <4> QED BY <1>2, <4>1
    <3> QED BY <2>2, <3>1, GivenIs
  <2>3. CASE m = "Description"
    <3>1. Given(header, "Description") # {}
      BY DEF HeaderParses, Described
    <3> QED BY <2>3, <3>1, GivenIs
  <2>4. CASE m \in DOMAIN Vocabulary
    BY <2>4, PatchFilesAssumption DEF HeaderParses, Understood
  <2> QED BY <2>1, <2>2, <2>3, <2>4, PatchFilesAssumption DEF Required
<1>4. HeaderParses(header) => invalid = {} /\ subjects = 1 /\ Titled(header)
  BY DEF HeaderParses, Titled
<1>5. ASSUME missing = {}, invalid = {}, ~(subjects > 1), ~(subjects = 1 /\ ~Titled(header))
      PROVE  /\ Titled(header)
             /\ \A n \in DOMAIN Vocabulary : Understood(header, n)
             /\ \A n \in {"From", "Date"} : HeaderValue(header, n) # NotThere
  <2>1. \A n \in Required : HeaderValue(header, n) # NotThere
    BY <1>5
  <2>2. DOMAIN Vocabulary \subseteq Required /\ {"From", "Date", "Subject"} \subseteq Required
    BY PatchFilesAssumption DEF Required
  <2>3. Given(header, "Subject") # {}
    BY <2>1, <2>2, GivenIs
  <2>4. subjects = 1
    BY <1>2, <1>5, <2>3
  <2> QED BY <1>5, <2>1, <2>2, <2>4
<1> HIDE DEF missing, invalid, subjects
<1> QED BY <1>1, <1>3, <1>4, <1>5, <1>2 DEF HeaderParses

Ends(line) == line.is \in {"end", "diff"}

\* Where a file with a terminator at c is cut.
LEMMA CutIs ==
  ASSUME NEW w \in Seq(PatchLines), NEW c \in 1..Len(w), Ends(w[c]), \A i \in 1..(c - 1) : ~Ends(w[i])
  PROVE  Cut(w) = c
<1> DEFINE S == {i \in DOMAIN w : w[i].is \in {"end", "diff"}}
<1>1. Cut(w) = Find(S, 0)
  BY DEF Cut
<1>2. S \in SUBSET Nat /\ c \in S
  BY DEF Ends
<1>3. \A k \in S : k \in 1..Len(w) /\ Ends(w[k])
  BY DEF Ends
<1> HIDE DEF S
<1>4. Min(S) \in S /\ Min(S) <= c
  BY <1>2, MinIs
<1>5. Min(S) \notin 1..(c - 1) /\ Min(S) \in 1..Len(w)
  BY <1>3, <1>4
<1>6. Min(S) = c
  BY <1>4, <1>5
<1> QED BY <1>1, <1>2, <1>6 DEF Find

DiffLines(lines) == {l \in ToSet(lines) : l.is = "diff"}

LEMMA RestIs ==
  ASSUME NEW T, NEW s \in Seq(T), NEW c \in 1..Len(s)
  PROVE  /\ SubSeq(s, c + 1, Len(s)) \in Seq(T) /\ Len(SubSeq(s, c + 1, Len(s))) = Len(s) - c
         /\ \A i \in 1..(Len(s) - c) : SubSeq(s, c + 1, Len(s))[i] = s[c + i]
<1>1. \A i \in (c + 1)..Len(s) : s[i] \in T
  OBVIOUS
<1> QED BY <1>1

\* What is read after the terminator at c, a blank line and the diff.
LEMMA BodyIs ==
  ASSUME NEW w \in Seq(PatchLines), NEW c \in 1..Len(w), w[c].is = "end", \A i \in 1..(c - 1) : ~Ends(w[i]),
         NEW diff \in Seq(PatchLines), Len(w) = c + 1 + Len(diff), w[c + 1].is = "blank",
         \A i \in 1..Len(diff) : w[c + 1 + i] = diff[i]
  PROVE  /\ Cut(w) = c /\ Terminated(w) /\ Header(w) = SubSeq(w, 1, c - 1)
         /\ HasDiff(w) <=> DiffLines(diff) # {}
         /\ Touched(w) = UNION {{l.name, l.value} : l \in DiffLines(diff)}
<1>1. Cut(w) = c
  BY CutIs DEF Ends
<1>2. Terminated(w) /\ Header(w) = SubSeq(w, 1, c - 1) /\ Body(w) = SubSeq(w, c + 1, Len(w))
  <2>1. Cut(w) # 0 /\ Cut(w) > 0
    BY <1>1
  <2>2. Terminated(w) /\ Header(w) = SubSeq(w, 1, c - 1)
    BY <1>1, <2>1 DEF Terminated, Header
  <2>3. Body(w) = SubSeq(w, c + 1, Len(w))
    BY <1>1, <2>1, <2>2 DEF Body
  <2> QED BY <2>2, <2>3
<1> DEFINE body == SubSeq(w, c + 1, Len(w))
<1>3. /\ body \in Seq(PatchLines) /\ Len(body) = 1 + Len(diff)
      /\ \A i \in 1..(1 + Len(diff)) : body[i] = w[c + i]
  <2>1. /\ body \in Seq(PatchLines) /\ Len(body) = Len(w) - c
        /\ \A i \in 1..(Len(w) - c) : body[i] = w[c + i]
    BY RestIs
  <2>2. Len(w) - c = 1 + Len(diff)
    OBVIOUS
  <2> HIDE DEF body
  <2> QED BY <2>1, <2>2, Zenon
<1> HIDE DEF body
<1>4. ASSUME NEW l PROVE l \in DiffLines(body) <=> l \in DiffLines(diff)
  <2>1. ASSUME l \in DiffLines(body) PROVE l \in DiffLines(diff)
    <3>1. PICK i \in 1..(1 + Len(diff)) : l = body[i]
      BY <1>3, <2>1 DEF DiffLines, ToSet
    <3>2. l.is = "diff"
      BY <2>1 DEF DiffLines
    <3>3. i # 1
      BY <1>3, <3>1, <3>2
    <3>4. i - 1 \in 1..Len(diff) /\ c + 1 + (i - 1) = c + i
      BY <3>3
    <3>5. l = diff[i - 1]
      BY <1>3, <3>1, <3>4
    <3> QED BY <3>2, <3>4, <3>5 DEF DiffLines, ToSet
  <2>2. ASSUME l \in DiffLines(diff) PROVE l \in DiffLines(body)
    <3>1. PICK i \in 1..Len(diff) : l = diff[i]
      BY <2>2 DEF DiffLines, ToSet
    <3>2. 1 + i \in 1..(1 + Len(diff)) /\ c + (1 + i) = c + 1 + i
      OBVIOUS
    <3>3. body[1 + i] = w[c + (1 + i)] /\ 1 + i \in DOMAIN body
      BY <1>3, <3>2
    <3>4. w[c + (1 + i)] = l
      BY <3>1, <3>2
    <3> QED BY <2>2, <3>3, <3>4 DEF DiffLines, ToSet
  <2> QED BY <2>1, <2>2
<1>5. DiffLines(body) = DiffLines(diff)
  BY <1>4
<1>6. Touched(w) = UNION {{l.name, l.value} : l \in DiffLines(diff)}
  BY <1>2, <1>5 DEF Touched, DiffLines, body
<1>7. HasDiff(w) <=> DiffLines(diff) # {}
  BY <1>2, <1>5 DEF HasDiff, DiffLines, body
<1> QED BY <1>1, <1>2, <1>6, <1>7

\* The complaints of lint about the paths of a diff.
PathComplaints(diff) == {<<"forbidden", p>> : p \in Forbidden \cap Touched(<<Mark("end")>> \o diff)}

LEMMA MarkType ==
  /\ Mark("end") \in PatchLines /\ Mark("end").is = "end"
  /\ Mark("blank") \in PatchLines /\ Mark("blank").is = "blank"
<1>1. ASSUME NEW kind \in {"end", "blank"} PROVE Mark(kind) \in PatchLines /\ Mark(kind).is = kind
  <2>1. "" \in STRING
    BY WrittenAssumption
  <2> QED BY <2>1 DEF Mark, PatchLines
<1> QED BY <1>1

\* What lint has against a file whose diff follows the terminator and a blank line.
LEMMA SplicedLints ==
  ASSUME NEW w \in Seq(PatchLines), NEW c \in 1..Len(w), w[c].is = "end", \A i \in 1..(c - 1) : ~Ends(w[i]),
         NEW diff \in Seq(PatchLines), Len(w) = c + 1 + Len(diff), w[c + 1].is = "blank",
         \A i \in 1..Len(diff) : w[c + 1 + i] = diff[i], \E l \in ToSet(diff) : l.is = "diff"
  PROVE  /\ Header(w) = SubSeq(w, 1, c - 1)
         /\ LintPatch(w) = HeaderComplaints(SubSeq(w, 1, c - 1)) \cup PathComplaints(diff)
<1> DEFINE v == <<Mark("end")>> \o diff
           header == SubSeq(w, 1, c - 1)
           paths == UNION {{l.name, l.value} : l \in DiffLines(diff)}
<1>1. /\ Terminated(w) /\ Header(w) = header
      /\ HasDiff(w) <=> DiffLines(diff) # {}
      /\ Touched(w) = paths
  BY BodyIs
<1>2. Touched(v) = paths
  <2>1. v \in Seq(PatchLines) /\ Len(v) = 1 + Len(diff) /\ v[1].is = "end" /\ 1 \in 1..Len(v)
    BY MarkType
  <2>2. \A i \in 1..Len(diff) : v[1 + i] = diff[i]
    BY MarkType
  <2> HIDE DEF v
  <2>3. Cut(v) = 1
    <3>1. Ends(v[1]) /\ \A i \in 1..(1 - 1) : ~Ends(v[i])
      BY <2>1 DEF Ends
    <3> QED BY <2>1, <3>1, CutIs
  <2>4. Body(v) = SubSeq(v, 1 + 1, Len(v))
    BY <2>1, <2>3 DEF Body, Terminated
  <2> DEFINE body == SubSeq(v, 2, Len(v))
  <2>5. body \in Seq(PatchLines) /\ Len(body) = Len(diff) /\ \A i \in 1..Len(diff) : body[i] = diff[i]
    <3>1. \A i \in 2..Len(v) : v[i] \in PatchLines
      BY <2>1
    <3>2. body \in Seq(PatchLines) /\ Len(body) = Len(diff) /\ \A i \in 1..Len(diff) : body[i] = v[1 + i]
      BY <2>1, <3>1
    <3> HIDE DEF body
    <3> QED BY <2>2, <3>2
  <2> HIDE DEF body
  <2>6. body = diff
    BY <2>5, SeqEqual
  <2>7. Body(v) = diff
    BY <2>4, <2>6 DEF body
  <2> QED BY <2>7 DEF Touched, DiffLines
<1>3. HasDiff(w)
  BY <1>1 DEF DiffLines
<1> HIDE DEF header, paths
<1>4. LintPatch(w) = Unless("no-terminator", TRUE) \cup Unless("no-diff", TRUE) \cup HeaderComplaints(header)
                       \cup {<<"forbidden", p>> : p \in paths \cap Forbidden}
  BY <1>1, <1>3, LintParts
<1>5. PathComplaints(diff) = {<<"forbidden", p>> : p \in paths \cap Forbidden}
  BY <1>2 DEF PathComplaints
<1> QED BY <1>1, <1>4, <1>5 DEF Unless, header

\* The header is a part of the lines, none of which ends it.
LEMMA HeaderPart ==
  ASSUME NEW lines \in Seq(PatchLines)
  PROVE  /\ Header(lines) \in Seq(PatchLines)
         /\ Cut(lines) \in 0..Len(lines)
         /\ Cut(lines) # 0 => Ends(lines[Cut(lines)])
         /\ \A i \in 1..(Cut(lines) - 1) : ~Ends(lines[i])
<1> DEFINE S == {i \in DOMAIN lines : lines[i].is \in {"end", "diff"}}
           c == Cut(lines)
<1>1. c = Find(S, 0)
  BY DEF Cut
<1>2. S \in SUBSET Nat /\ \A i \in 1..Len(lines) : i \in S <=> Ends(lines[i])
  BY DEF Ends
<1>3. \A i \in S : i \in 1..Len(lines)
  OBVIOUS
<1> HIDE DEF S, c
<1>4. CASE S = {}
  <2>1. c = 0
    BY <1>1, <1>4 DEF Find
  <2> QED BY <2>1 DEF Header, c
<1>5. CASE S # {}
  <2>1. c \in S /\ \A k \in S : c <= k
    BY <1>1, <1>2, <1>5, MinIs DEF Find
  <2>2. c \in 1..Len(lines) /\ Ends(lines[c])
    BY <1>2, <1>3, <2>1
  <2>3. \A i \in 1..(c - 1) : ~Ends(lines[i])
    BY <1>2, <2>1, <2>2
  <2>4. Header(lines) = SubSeq(lines, 1, c - 1)
    BY <2>2 DEF Header, c
  <2>5. \A i \in 1..(c - 1) : lines[i] \in PatchLines
    BY <2>2
  <2>6. SubSeq(lines, 1, c - 1) \in Seq(PatchLines)
    BY <2>2, <2>5
  <2> QED BY <2>2, <2>3, <2>4, <2>6 DEF c
<1> QED BY <1>4, <1>5

Complaints(lines) == {f \in LintPatch(lines) : f[1] # "forbidden"}

\* What lint has against a file but its paths.
LEMMA ComplaintsAre ==
  ASSUME NEW lines
  PROVE  Complaints(lines) = Unless("no-terminator", Terminated(lines)) \cup Unless("no-diff", HasDiff(lines))
                               \cup HeaderComplaints(Header(lines))
<1> DEFINE open == Unless("no-terminator", Terminated(lines))
           bare == Unless("no-diff", HasDiff(lines))
           said == HeaderComplaints(Header(lines))
           paths == {<<"forbidden", p>> : p \in Touched(lines) \cap Forbidden}
<1>1. LintPatch(lines) = open \cup bare \cup said \cup paths
  BY LintParts
<1>2. \A f \in open \cup bare : f[1] # "forbidden"
  BY DEF Unless
<1>3. \A f \in said : f[1] # "forbidden"
  BY HeaderTags
<1>4. \A f \in paths : f[1] = "forbidden"
  OBVIOUS
<1> HIDE DEF open, bare, said, paths
<1>5. Complaints(lines) = open \cup bare \cup said
  BY <1>1, <1>2, <1>3, <1>4 DEF Complaints
<1> QED BY <1>5 DEF open, bare, said

\* Lint has nothing but its paths against a file exactly when it parses.
LEMMA FilesAlike ==
  ASSUME NEW lines \in Seq(PatchLines)
  PROVE  Parses(lines) <=> Complaints(lines) = {}
<1>1. Parses(lines) <=> Terminated(lines) /\ HasDiff(lines) /\ HeaderParses(Header(lines))
  BY Zenon DEF Parses, HeaderParses
<1>2. HeaderComplaints(Header(lines)) = {} <=> HeaderParses(Header(lines))
  BY HeaderPart, HeaderAlike
<1>3. Complaints(lines) = {} <=> /\ Terminated(lines) /\ HasDiff(lines)
                                 /\ HeaderComplaints(Header(lines)) = {}
  BY ComplaintsAre DEF Unless
<1> QED BY <1>1, <1>2, <1>3

\* A refreshed file has the header of the one it replaces, and lints as the header
\* and the new diff do.
LEMMA RefreshLints ==
  ASSUME NEW lines \in Seq(PatchLines), Terminated(lines),
         NEW diff \in Seq(PatchLines), \E l \in ToSet(diff) : l.is = "diff"
  PROVE  /\ Header(Refreshed(lines, diff)) = Header(lines)
         /\ LintPatch(Refreshed(lines, diff)) =
              (Complaints(lines) \ {<<"no-diff">>}) \cup PathComplaints(diff)
<1> DEFINE c == Cut(lines)
           kept == SubSeq(lines, 1, c)
           after == Refreshed(lines, diff)
<1>1. c \in 1..Len(lines) /\ lines[c].is = "end" /\ \A i \in 1..(c - 1) : ~Ends(lines[i])
  BY HeaderPart, SMTT(30) DEF Terminated
<1>2. Header(lines) = SubSeq(lines, 1, c - 1)
  BY <1>1 DEF Header
<1> HIDE DEF c
<1>3. FirstEnd(lines) = c
  <2> DEFINE S == {i \in DOMAIN lines : lines[i].is = "end"}
  <2>1. S \in SUBSET Nat /\ c \in S
    BY <1>1
  <2>2. \A k \in S : c <= k
    BY <1>1 DEF Ends
  <2>3. FirstEnd(lines) = Find(S, 0)
    BY DEF FirstEnd
  <2> HIDE DEF S
  <2>4. Min(S) \in S /\ \A k \in S : Min(S) <= k
    BY <2>1, MinIs
  <2>5. Min(S) \in Nat /\ c \in Nat /\ c <= Min(S) /\ Min(S) <= c
    BY <2>1, <2>2, <2>4, Zenon
  <2>6. Min(S) = c
    <3> DEFINE m == Min(S)
    <3>1. m \in Nat /\ c \in Nat /\ c <= m /\ m <= c
      BY <2>5
    <3> HIDE DEF m
    <3>2. m = c
      BY <3>1
    <3> QED BY <3>2 DEF m
  <2> QED BY <2>1, <2>3, <2>6 DEF Find
<1>4. kept \in Seq(PatchLines) /\ Len(kept) = c /\ \A i \in 1..c : kept[i] = lines[i]
  <2>1. \A i \in 1..c : lines[i] \in PatchLines
    BY <1>1
  <2> QED BY <1>1, <2>1
<1>5. after = (kept \o <<Mark("blank")>>) \o diff
  BY <1>3 DEF Refreshed, KeptLines
<1> HIDE DEF kept, after
<1>6. /\ after \in Seq(PatchLines) /\ Len(after) = c + 1 + Len(diff)
      /\ \A i \in 1..c : after[i] = lines[i]
      /\ after[c + 1].is = "blank"
      /\ \A i \in 1..Len(diff) : after[c + 1 + i] = diff[i]
  <2>1. Mark("blank") \in PatchLines /\ Mark("blank").is = "blank"
    BY MarkType
  <2> DEFINE x == Mark("blank")
  <2> HIDE DEF x
  <2>2. x \in PatchLines /\ x.is = "blank" /\ after = (kept \o <<x>>) \o diff
    BY <1>5, <2>1 DEF x
  <2>3. /\ after \in Seq(PatchLines) /\ Len(after) = Len(kept) + 1 + Len(diff)
        /\ \A i \in 1..Len(kept) : after[i] = kept[i]
        /\ after[Len(kept) + 1] = x
        /\ \A i \in 1..Len(diff) : after[Len(kept) + 1 + i] = diff[i]
    <3>1. x \in PatchLines /\ kept \in Seq(PatchLines) /\ diff \in Seq(PatchLines)
      BY <1>4, <2>2
    <3> DEFINE s == (kept \o <<x>>) \o diff
    <3>2. /\ s \in Seq(PatchLines) /\ Len(s) = Len(kept) + 1 + Len(diff)
          /\ \A i \in 1..Len(kept) : s[i] = kept[i]
          /\ s[Len(kept) + 1] = x
          /\ \A i \in 1..Len(diff) : s[Len(kept) + 1 + i] = diff[i]
      BY <3>1, Between
    <3>3. after = s
      BY <2>2
    <3> HIDE DEF s
    <3> QED BY <3>2, <3>3
  <2> QED BY <1>4, <2>2, <2>3
<1>7. c \in 1..Len(after) /\ after[c].is = "end" /\ \A i \in 1..(c - 1) : ~Ends(after[i])
  BY <1>1, <1>6
<1>8. /\ Header(after) = SubSeq(after, 1, c - 1)
      /\ LintPatch(after) = HeaderComplaints(SubSeq(after, 1, c - 1)) \cup PathComplaints(diff)
  BY <1>6, <1>7, SplicedLints
<1>9. SubSeq(after, 1, c - 1) = SubSeq(lines, 1, c - 1)
  <2> DEFINE s == SubSeq(after, 1, c - 1)
             t == SubSeq(lines, 1, c - 1)
  <2>1. \A i \in 1..(c - 1) : after[i] \in PatchLines /\ lines[i] \in PatchLines
    BY <1>1, <1>6
  <2>2. c - 1 \in Nat /\ c \in Nat
    BY <1>1
  <2>3. s \in Seq(PatchLines) /\ Len(s) = c - 1 /\ \A i \in 1..(c - 1) : s[i] = after[i]
    BY <2>1, <2>2
  <2>4. t \in Seq(PatchLines) /\ Len(t) = c - 1 /\ \A i \in 1..(c - 1) : t[i] = lines[i]
    BY <2>1, <2>2
  <2>5. \A i \in 1..(c - 1) : i \in 1..c
    BY <2>2
  <2>6. \A i \in 1..(c - 1) : after[i] = lines[i]
    BY <1>6, <2>5
  <2> HIDE DEF s, t
  <2>7. s = t
    BY <2>3, <2>4, <2>6, SeqEqual
  <2> QED BY <2>7 DEF s, t
<1>10. Complaints(lines) \ {<<"no-diff">>} = HeaderComplaints(Header(lines))
  <2> DEFINE said == HeaderComplaints(Header(lines))
  <2>1. Complaints(lines) = Unless("no-diff", HasDiff(lines)) \cup said
    BY ComplaintsAre DEF Unless
  <2>2. \A f \in said : f # <<"no-diff">>
    <3> SUFFICES ASSUME NEW f \in said PROVE f # <<"no-diff">>
      OBVIOUS
    <3>1. f[1] # "no-diff"
      BY HeaderTags
    <3> QED BY <3>1
  <2> HIDE DEF said
  <2>3. (Unless("no-diff", HasDiff(lines)) \cup said) \ {<<"no-diff">>} = said
    BY <2>2 DEF Unless
  <2> QED BY <2>1, <2>3 DEF said
<1> QED BY <1>2, <1>8, <1>9, <1>10 DEF after

\* The lines of two texts, one after the other.
LEMMA Glued ==
  ASSUME NEW a \in Seq(PatchLines), NEW b \in Seq(PatchLines)
  PROVE  /\ a \o b \in Seq(PatchLines) /\ Len(a \o b) = Len(a) + Len(b)
         /\ \A i \in 1..Len(a) : (a \o b)[i] = a[i]
         /\ \A i \in 1..Len(b) : (a \o b)[Len(a) + i] = b[i]
<1> DEFINE s == a \o b
<1>1. /\ s \in Seq(PatchLines) /\ Len(s) = Len(a) + Len(b)
      /\ \A i \in 1..(Len(a) + Len(b)) : s[i] = IF i <= Len(a) THEN a[i] ELSE b[i - Len(a)]
  BY ConcatProperties
<1>2. Len(a) \in Nat /\ Len(b) \in Nat
  OBVIOUS
<1> HIDE DEF s
<1>3. ASSUME NEW i \in 1..Len(a) PROVE s[i] = a[i]
  BY <1>1, <1>2
<1>4. ASSUME NEW i \in 1..Len(b) PROVE s[Len(a) + i] = b[i]
  <2>1. /\ Len(a) + i \in 1..(Len(a) + Len(b)) /\ ~(Len(a) + i <= Len(a))
        /\ (Len(a) + i) - Len(a) = i
    BY <1>2
  <2> QED BY <1>1, <2>1
<1>5. /\ s \in Seq(PatchLines) /\ Len(s) = Len(a) + Len(b)
      /\ \A i \in 1..Len(a) : s[i] = a[i]
      /\ \A i \in 1..Len(b) : s[Len(a) + i] = b[i]
  BY <1>1, <1>3, <1>4
<1> QED BY <1>5 DEF s

\* The parts of what `jx new' writes.
NewOpening(subject) ==
  <<Field("From", "author"), Field("Date", "now"), Field("Subject", subject), Mark("blank"),
    Field("Description", "")>>
NewMiddle == <<Mark("blank"), Field("Origin", "vendor"), Field("Forwarded", "not-needed")>>
NewTicket(bug) == IF bug = NotThere THEN <<>> ELSE <<Field("Bug-Next-Panel", bug)>>
NewClosing ==
  <<Field("Applied-Upstream", "no"), Field("Last-Update", "now"), Field("Signed-off-by", "author"),
    Mark("blank"), Mark("end"), Mark("blank")>>

LEMMA FieldType ==
  ASSUME NEW name \in STRING, NEW value \in STRING
  PROVE  /\ Field(name, value) \in PatchLines
         /\ Field(name, value).is = "field" /\ Field(name, value).name = name
         /\ Field(name, value).value = value
BY DEF Field, PatchLines

LEMMA OpeningIs ==
  ASSUME NEW subject \in STRING
  PROVE  /\ NewOpening(subject) \in Seq(PatchLines) /\ Len(NewOpening(subject)) = 5
         /\ NewOpening(subject)[1] = Field("From", "author") /\ NewOpening(subject)[2] = Field("Date", "now")
         /\ NewOpening(subject)[3] = Field("Subject", subject) /\ NewOpening(subject)[4] = Mark("blank")
         /\ NewOpening(subject)[5] = Field("Description", "")
<1>1. /\ Field("From", "author") \in PatchLines /\ Field("Date", "now") \in PatchLines
      /\ Field("Subject", subject) \in PatchLines /\ Field("Description", "") \in PatchLines
  BY FieldType, WrittenAssumption
<1>2. Mark("blank") \in PatchLines
  BY MarkType
<1> DEFINE a == Field("From", "author")
           b == Field("Date", "now")
           c == Field("Subject", subject)
           d == Mark("blank")
           e == Field("Description", "")
<1>3. NewOpening(subject) = <<a, b, c, d, e>>
  BY DEF NewOpening
<1> HIDE DEF a, b, c, d, e
<1>4. /\ a \in PatchLines /\ b \in PatchLines /\ c \in PatchLines /\ d \in PatchLines
      /\ e \in PatchLines
  BY <1>1, <1>2 DEF a, b, c, d, e
<1>5. /\ NewOpening(subject) \in Seq(PatchLines) /\ Len(NewOpening(subject)) = 5
      /\ NewOpening(subject)[1] = a /\ NewOpening(subject)[2] = b
      /\ NewOpening(subject)[3] = c /\ NewOpening(subject)[4] = d
      /\ NewOpening(subject)[5] = e
  BY <1>3, <1>4
<1> QED BY <1>5 DEF a, b, c, d, e

LEMMA MiddleIs ==
  /\ NewMiddle \in Seq(PatchLines) /\ Len(NewMiddle) = 3
  /\ NewMiddle[1] = Mark("blank") /\ NewMiddle[2] = Field("Origin", "vendor")
  /\ NewMiddle[3] = Field("Forwarded", "not-needed")
<1>1. Field("Origin", "vendor") \in PatchLines /\ Field("Forwarded", "not-needed") \in PatchLines
  BY FieldType, WrittenAssumption
<1>2. Mark("blank") \in PatchLines
  BY MarkType
<1> QED BY <1>1, <1>2 DEF NewMiddle

LEMMA TicketIs ==
  ASSUME NEW bug \in STRING \cup {NotThere}
  PROVE  /\ NewTicket(bug) \in Seq(PatchLines) /\ Len(NewTicket(bug)) \in {0, 1}
         /\ \A i \in 1..Len(NewTicket(bug)) : NewTicket(bug)[i].is = "field" /\ NewTicket(bug)[i].name = "Bug-Next-Panel"
<1>1. CASE bug = NotThere
  <2>1. NewTicket(bug) = <<>>
    BY <1>1 DEF NewTicket
  <2> QED BY <2>1
<1>2. CASE bug # NotThere
  <2> DEFINE x == Field("Bug-Next-Panel", bug)
  <2>1. NewTicket(bug) = <<x>>
    BY <1>2 DEF NewTicket
  <2>2. x \in PatchLines /\ x.is = "field" /\ x.name = "Bug-Next-Panel"
    BY <1>2, FieldType, WrittenAssumption
  <2> HIDE DEF x
  <2> QED BY <2>1, <2>2
<1> QED BY <1>1, <1>2

LEMMA ClosingIs ==
  /\ NewClosing \in Seq(PatchLines) /\ Len(NewClosing) = 6
  /\ NewClosing[1] = Field("Applied-Upstream", "no") /\ NewClosing[2] = Field("Last-Update", "now")
  /\ NewClosing[3] = Field("Signed-off-by", "author") /\ NewClosing[4] = Mark("blank")
  /\ NewClosing[5] = Mark("end") /\ NewClosing[6] = Mark("blank")
<1>1. /\ Field("Applied-Upstream", "no") \in PatchLines /\ Field("Last-Update", "now") \in PatchLines
      /\ Field("Signed-off-by", "author") \in PatchLines
  BY FieldType, WrittenAssumption
<1>2. Mark("blank") \in PatchLines /\ Mark("end") \in PatchLines
  BY MarkType
<1> QED BY <1>1, <1>2 DEF NewClosing

\* The lines of what `jx new' writes, part by part.
LEMMA WrittenIs ==
  ASSUME NEW subject \in STRING, NEW text \in Seq(PatchLines), NEW bug \in STRING \cup {NotThere},
         NEW diff \in Seq(PatchLines)
  PROVE  LET w == NewPatch(subject, text, bug, diff)
             n == Len(text)
             k == Len(NewTicket(bug))
         IN /\ w \in Seq(PatchLines) /\ Len(w) = 14 + n + k + Len(diff)
            /\ \A i \in 1..5 : w[i] = NewOpening(subject)[i]
            /\ \A i \in 1..n : w[5 + i] = text[i]
            /\ \A i \in 1..3 : w[5 + n + i] = NewMiddle[i]
            /\ \A i \in 1..k : w[8 + n + i] = NewTicket(bug)[i]
            /\ \A i \in 1..6 : w[8 + n + k + i] = NewClosing[i]
            /\ \A i \in 1..Len(diff) : w[14 + n + k + i] = diff[i]
<1> DEFINE w == NewPatch(subject, text, bug, diff)
           n == Len(text)
           k == Len(NewTicket(bug))
           a == NewOpening(subject)
           b == a \o text
           c == b \o NewMiddle
           d == c \o NewTicket(bug)
           e == d \o NewClosing
<1>1. w = e \o diff
  BY DEF NewPatch, NewOpening, NewMiddle, NewTicket, NewClosing
<1>2. n \in Nat /\ k \in Nat /\ Len(diff) \in Nat
  BY TicketIs
<1>3. a \in Seq(PatchLines) /\ Len(a) = 5
  BY OpeningIs
<1> HIDE DEF a
<1>4. /\ b \in Seq(PatchLines) /\ Len(b) = 5 + n
      /\ \A i \in 1..5 : b[i] = a[i]
      /\ \A i \in 1..n : b[5 + i] = text[i]
  <2>1. /\ b \in Seq(PatchLines) /\ Len(b) = Len(a) + Len(text)
        /\ \A i \in 1..Len(a) : b[i] = a[i]
        /\ \A i \in 1..Len(text) : b[Len(a) + i] = text[i]
    <3>1. a \in Seq(PatchLines)
      BY <1>3
    <3> QED BY <3>1, Glued, Zenon
  <2> HIDE DEF b
  <2> QED BY <1>2, <1>3, <2>1
<1> HIDE DEF b
<1>5. /\ c \in Seq(PatchLines) /\ Len(c) = 8 + n
      /\ \A i \in 1..(5 + n) : c[i] = b[i]
      /\ \A i \in 1..3 : c[5 + n + i] = NewMiddle[i]
  <2>1. NewMiddle \in Seq(PatchLines) /\ Len(NewMiddle) = 3
    BY MiddleIs
  <2>2. /\ c \in Seq(PatchLines) /\ Len(c) = Len(b) + Len(NewMiddle)
        /\ \A i \in 1..Len(b) : c[i] = b[i]
        /\ \A i \in 1..Len(NewMiddle) : c[Len(b) + i] = NewMiddle[i]
    <3>1. b \in Seq(PatchLines)
      BY <1>4
    <3>2. NewMiddle \in Seq(PatchLines)
      BY <2>1
    <3> QED BY <3>1, <3>2, Glued, Zenon
  <2> HIDE DEF c
  <2> QED BY <1>2, <1>4, <2>1, <2>2
<1> HIDE DEF c
<1>6. /\ d \in Seq(PatchLines) /\ Len(d) = 8 + n + k
      /\ \A i \in 1..(8 + n) : d[i] = c[i]
      /\ \A i \in 1..k : d[8 + n + i] = NewTicket(bug)[i]
  <2>1. /\ d \in Seq(PatchLines) /\ Len(d) = Len(c) + k
        /\ \A i \in 1..Len(c) : d[i] = c[i]
        /\ \A i \in 1..k : d[Len(c) + i] = NewTicket(bug)[i]
    <3>1. c \in Seq(PatchLines)
      BY <1>5
    <3>2. NewTicket(bug) \in Seq(PatchLines)
      BY TicketIs
    <3> QED BY <3>1, <3>2, Glued, Zenon
  <2> HIDE DEF d, k
  <2> QED BY <1>2, <1>5, <2>1
<1> HIDE DEF d
<1>7. /\ e \in Seq(PatchLines) /\ Len(e) = 14 + n + k
      /\ \A i \in 1..(8 + n + k) : e[i] = d[i]
      /\ \A i \in 1..6 : e[8 + n + k + i] = NewClosing[i]
  <2>1. NewClosing \in Seq(PatchLines) /\ Len(NewClosing) = 6
    BY ClosingIs
  <2>2. /\ e \in Seq(PatchLines) /\ Len(e) = Len(d) + Len(NewClosing)
        /\ \A i \in 1..Len(d) : e[i] = d[i]
        /\ \A i \in 1..Len(NewClosing) : e[Len(d) + i] = NewClosing[i]
    <3>1. d \in Seq(PatchLines)
      BY <1>6
    <3>2. NewClosing \in Seq(PatchLines)
      BY <2>1
    <3> QED BY <3>1, <3>2, Glued, Zenon
  <2> HIDE DEF e, k
  <2> QED BY <1>2, <1>6, <2>1, <2>2
<1> HIDE DEF e
<1>8. /\ w \in Seq(PatchLines) /\ Len(w) = 14 + n + k + Len(diff)
      /\ \A i \in 1..(14 + n + k) : w[i] = e[i]
      /\ \A i \in 1..Len(diff) : w[14 + n + k + i] = diff[i]
  <2> DEFINE s == e \o diff
  <2>1. /\ s \in Seq(PatchLines) /\ Len(s) = Len(e) + Len(diff)
        /\ \A i \in 1..Len(e) : s[i] = e[i]
        /\ \A i \in 1..Len(diff) : s[Len(e) + i] = diff[i]
    <3>1. e \in Seq(PatchLines)
      BY <1>7
    <3> QED BY <3>1, Glued, Zenon
  <2> HIDE DEF s, w, k
  <2>2. w = s
    BY <1>1 DEF s
  <2> QED BY <1>2, <1>7, <2>1, <2>2
<1> HIDE DEF w, n, k
<1>9. ASSUME NEW i \in 1..5 PROVE w[i] = a[i]
  <2>1. i \in 1..(5 + n) /\ i \in 1..(8 + n) /\ i \in 1..(8 + n + k) /\ i \in 1..(14 + n + k)
    BY <1>2
  <2>2. w[i] = e[i] /\ e[i] = d[i]
    BY <1>7, <1>8, <2>1
  <2>3. d[i] = c[i] /\ c[i] = b[i] /\ b[i] = a[i]
    BY <1>4, <1>5, <1>6, <2>1
  <2> QED BY <2>2, <2>3
<1>10. ASSUME NEW i \in 1..n PROVE w[5 + i] = text[i]
  <2>1. /\ 5 + i \in 1..(5 + n) /\ 5 + i \in 1..(8 + n) /\ 5 + i \in 1..(8 + n + k)
        /\ 5 + i \in 1..(14 + n + k)
    BY <1>2
  <2>2. w[5 + i] = e[5 + i] /\ e[5 + i] = d[5 + i]
    BY <1>7, <1>8, <2>1
  <2>3. d[5 + i] = c[5 + i] /\ c[5 + i] = b[5 + i]
    BY <1>5, <1>6, <2>1
  <2>4. b[5 + i] = text[i]
    BY <1>4
  <2> QED BY <2>2, <2>3, <2>4
<1>11. ASSUME NEW i \in 1..3 PROVE w[5 + n + i] = NewMiddle[i]
  <2>1. 5 + n + i \in 1..(8 + n) /\ 5 + n + i \in 1..(8 + n + k) /\ 5 + n + i \in 1..(14 + n + k)
    BY <1>2
  <2>2. w[5 + n + i] = e[5 + n + i] /\ e[5 + n + i] = d[5 + n + i]
    BY <1>7, <1>8, <2>1
  <2>3. d[5 + n + i] = c[5 + n + i] /\ c[5 + n + i] = NewMiddle[i]
    BY <1>5, <1>6, <2>1
  <2> QED BY <2>2, <2>3
<1>12. ASSUME NEW i \in 1..k PROVE w[8 + n + i] = NewTicket(bug)[i]
  <2>1. 8 + n + i \in 1..(8 + n + k) /\ 8 + n + i \in 1..(14 + n + k)
    BY <1>2
  <2> QED BY <1>6, <1>7, <1>8, <2>1
<1>13. ASSUME NEW i \in 1..6 PROVE w[8 + n + k + i] = NewClosing[i]
  <2>1. 8 + n + k + i \in 1..(14 + n + k)
    BY <1>2
  <2> QED BY <1>7, <1>8, <2>1
<1>14. /\ w \in Seq(PatchLines) /\ Len(w) = 14 + n + k + Len(diff)
       /\ \A i \in 1..5 : w[i] = a[i]
       /\ \A i \in 1..n : w[5 + i] = text[i]
       /\ \A i \in 1..3 : w[5 + n + i] = NewMiddle[i]
       /\ \A i \in 1..k : w[8 + n + i] = NewTicket(bug)[i]
       /\ \A i \in 1..6 : w[8 + n + k + i] = NewClosing[i]
       /\ \A i \in 1..Len(diff) : w[14 + n + k + i] = diff[i]
  BY <1>8, <1>9, <1>10, <1>11, <1>12, <1>13
<1> QED BY <1>14, Zenon DEF w, n, k, a

Plain(text) == /\ \A l \in ToSet(text) : l.is \in {"text", "blank"}
               /\ \E l \in ToSet(text) : l.is = "text"

\* The provers take no empty string.
Empty == ""

\* Where each field of a new header is: the description, from 6 to 5 + n, is text and
\* blank lines, and a ticket, at 9 + n, is optional.
NewHeader(h, subject, n, k) ==
  /\ h \in Seq(PatchLines) /\ n \in Nat /\ Len(h) = 12 + n + k
  /\ h[1] = Field("From", "author") /\ h[2] = Field("Date", "now") /\ h[3] = Field("Subject", subject)
  /\ h[4] = Mark("blank") /\ h[5] = Field("Description", Empty)
  /\ \A i \in 6..(5 + n) : h[i].is \in {"text", "blank"}
  /\ h[6 + n] = Mark("blank") /\ h[7 + n] = Field("Origin", "vendor")
  /\ h[8 + n] = Field("Forwarded", "not-needed")
  /\ k \in {0, 1} /\ \A i \in (9 + n)..(8 + n + k) : h[i].is = "field" /\ h[i].name = "Bug-Next-Panel"
  /\ h[9 + n + k] = Field("Applied-Upstream", "no") /\ h[10 + n + k] = Field("Last-Update", "now")
  /\ h[11 + n + k] = Field("Signed-off-by", "author") /\ h[12 + n + k] = Mark("blank")
  /\ \E i \in 6..(5 + n) : h[i].is = "text"

LEMMA FieldParts ==
  ASSUME NEW name, NEW value
  PROVE  Field(name, value).is = "field" /\ Field(name, value).name = name /\ Field(name, value).value = value
BY DEF Field

\* The fields of a new header, each of which is there once.
LEMMA NewFields ==
  ASSUME NEW n, NEW k, NEW subject, NEW h, NewHeader(h, subject, n, k),
         NEW i \in 1..Len(h)
  PROVE  /\ ~Ends(h[i])
         /\ h[i].is = "field" =>
              \/ i = 1 /\ h[i].name = "From"
              \/ i = 2 /\ h[i].name = "Date"
              \/ i = 3 /\ h[i].name = "Subject"
              \/ i = 5 /\ h[i].name = "Description"
              \/ i = 7 + n /\ h[i].name = "Origin"
              \/ i = 8 + n /\ h[i].name = "Forwarded"
              \/ h[i].name = "Bug-Next-Panel"
              \/ i = 9 + n + k /\ h[i].name = "Applied-Upstream"
              \/ i = 10 + n + k /\ h[i].name = "Last-Update"
              \/ i = 11 + n + k /\ h[i].name = "Signed-off-by"
<1>1. n \in Nat /\ k \in {0, 1} /\ Len(h) = 12 + n + k
  BY DEF NewHeader
<1>2. \/ i \in {1, 2, 3, 4, 5}
      \/ i \in 6..(5 + n)
      \/ i \in {6 + n, 7 + n, 8 + n}
      \/ i \in (9 + n)..(8 + n + k)
      \/ i \in {9 + n + k, 10 + n + k, 11 + n + k, 12 + n + k}
  BY <1>1
<1>3. CASE i \in {1, 2, 3, 4, 5}
  <2>1. h[1].is = "field" /\ h[1].name = "From"
    <3>1. h[1] = Field("From", "author")
      BY Zenon DEF NewHeader
    <3> QED BY <3>1, FieldParts
  <2>2. h[2].is = "field" /\ h[2].name = "Date"
    <3>1. h[2] = Field("Date", "now")
      BY Zenon DEF NewHeader
    <3> QED BY <3>1, FieldParts
  <2>3. h[3].is = "field" /\ h[3].name = "Subject"
    <3>1. h[3] = Field("Subject", subject)
      BY Zenon DEF NewHeader
    <3> QED BY <3>1, FieldParts
  <2>4. h[4].is = "blank"
    <3>1. h[4] = Mark("blank")
      BY Zenon DEF NewHeader
    <3> QED BY <3>1, MarkType
  <2>5. h[5].is = "field" /\ h[5].name = "Description"
    <3>1. h[5] = Field("Description", Empty)
      BY Zenon DEF NewHeader
    <3> QED BY <3>1, FieldParts
  <2> QED BY <1>3, <2>1, <2>2, <2>3, <2>4, <2>5 DEF Ends
<1>4. CASE i \in 6..(5 + n)
  BY <1>4 DEF NewHeader, Ends
<1>5. CASE i \in {6 + n, 7 + n, 8 + n}
  <2>1. h[6 + n].is = "blank"
    <3>1. h[6 + n] = Mark("blank")
      BY Zenon DEF NewHeader
    <3> QED BY <3>1, MarkType
  <2>2. h[7 + n].is = "field" /\ h[7 + n].name = "Origin"
    <3>1. h[7 + n] = Field("Origin", "vendor")
      BY Zenon DEF NewHeader
    <3> QED BY <3>1, FieldParts
  <2>3. h[8 + n].is = "field" /\ h[8 + n].name = "Forwarded"
    <3>1. h[8 + n] = Field("Forwarded", "not-needed")
      BY Zenon DEF NewHeader
    <3> QED BY <3>1, FieldParts
  <2> QED BY <1>5, <2>1, <2>2, <2>3 DEF Ends
<1>6. CASE i \in (9 + n)..(8 + n + k)
  BY <1>6 DEF NewHeader, Ends
<1>7. CASE i \in {9 + n + k, 10 + n + k, 11 + n + k, 12 + n + k}
  <2>1. h[9 + n + k].is = "field" /\ h[9 + n + k].name = "Applied-Upstream"
    <3>1. h[9 + n + k] = Field("Applied-Upstream", "no")
      BY Zenon DEF NewHeader
    <3> QED BY <3>1, FieldParts
  <2>2. h[10 + n + k].is = "field" /\ h[10 + n + k].name = "Last-Update"
    <3>1. h[10 + n + k] = Field("Last-Update", "now")
      BY Zenon DEF NewHeader
    <3> QED BY <3>1, FieldParts
  <2>3. h[11 + n + k].is = "field" /\ h[11 + n + k].name = "Signed-off-by"
    <3>1. h[11 + n + k] = Field("Signed-off-by", "author")
      BY Zenon DEF NewHeader
    <3> QED BY <3>1, FieldParts
  <2>4. h[12 + n + k].is = "blank"
    <3>1. h[12 + n + k] = Mark("blank")
      BY Zenon DEF NewHeader
    <3> QED BY <3>1, MarkType
  <2> QED BY <1>7, <2>1, <2>2, <2>3, <2>4 DEF Ends
<1> QED BY <1>2, <1>3, <1>4, <1>5, <1>6, <1>7

\* A field that is at i and nowhere else has the value it has there.
LEMMA OnlyField ==
  ASSUME NEW h \in Seq(PatchLines), NEW i \in 1..Len(h), NEW name, NEW value, h[i] = Field(name, value),
         \A j \in 1..Len(h) : h[j].is = "field" /\ h[j].name = name => j = i
  PROVE  Given(h, name) = {i} /\ HeaderValue(h, name) = value
<1>1. h[i].is = "field" /\ h[i].name = name /\ h[i].value = value
  BY DEF Field
<1>2. Given(h, name) = {i}
  BY <1>1 DEF Given
<1>3. Min({i}) = i
  <2>1. {i} \in SUBSET Nat /\ {i} # {}
    OBVIOUS
  <2>2. Min({i}) \in {i}
    BY <2>1, MinIs
  <2> QED BY <2>2
<1>4. Given(h, name) # {} /\ Min(Given(h, name)) = i
  BY <1>2, <1>3
<1> QED BY <1>1, <1>2, <1>4 DEF HeaderValue

\* A new header parses.
LEMMA NewHeaderParses ==
  ASSUME NEW n \in Nat, NEW k, NEW subject \in STRING, subject # Empty, NEW h, NewHeader(h, subject, n, k)
  PROVE  HeaderParses(h)
<1>1. n \in Nat /\ k \in {0, 1} /\ Len(h) = 12 + n + k
  BY DEF NewHeader
<1>0. h \in Seq(PatchLines)
  BY DEF NewHeader
<1>2. Given(h, "Subject") = {3} /\ HeaderValue(h, "Subject") = subject
  <2>1. 3 \in 1..Len(h)
    BY <1>1
  <2>2. h[3] = Field("Subject", subject)
    BY Zenon DEF NewHeader
  <2>3. \A j \in 1..Len(h) : h[j].is = "field" /\ h[j].name = "Subject" => j = 3
    BY NewFields
  <2> QED BY <1>0, <2>1, <2>2, <2>3, OnlyField
<1>3. Titled(h)
  <2>1. Cardinality({3}) = 1
    BY FS_Singleton
  <2> QED BY <1>2, <2>1, Zenon DEF Titled, Empty
<1>4. HeaderValue(h, "From") = "author"
  <2>1. 1 \in 1..Len(h)
    BY <1>1
  <2>2. h[1] = Field("From", "author")
    BY Zenon DEF NewHeader
  <2>3. \A j \in 1..Len(h) : h[j].is = "field" /\ h[j].name = "From" => j = 1
    BY NewFields
  <2> QED BY <1>0, <2>1, <2>2, <2>3, OnlyField
<1>5. HeaderValue(h, "Date") = "now"
  <2>1. 2 \in 1..Len(h)
    BY <1>1
  <2>2. h[2] = Field("Date", "now")
    BY Zenon DEF NewHeader
  <2>3. \A j \in 1..Len(h) : h[j].is = "field" /\ h[j].name = "Date" => j = 2
    BY NewFields
  <2> QED BY <1>0, <2>1, <2>2, <2>3, OnlyField
<1>6. Given(h, "Description") = {5}
  <2>1. 5 \in 1..Len(h)
    BY <1>1
  <2>2. h[5] = Field("Description", Empty)
    BY Zenon DEF NewHeader
  <2>3. \A j \in 1..Len(h) : h[j].is = "field" /\ h[j].name = "Description" => j = 5
    BY NewFields
  <2> QED BY <1>0, <2>1, <2>2, <2>3, OnlyField
<1>7. HeaderValue(h, "Origin") = "vendor"
  <2>1. 7 + n \in 1..Len(h)
    BY <1>1
  <2>2. h[7 + n] = Field("Origin", "vendor")
    BY Zenon DEF NewHeader
  <2>3. \A j \in 1..Len(h) : h[j].is = "field" /\ h[j].name = "Origin" => j = 7 + n
    BY NewFields
  <2> QED BY <1>0, <2>1, <2>2, <2>3, OnlyField
<1>8. HeaderValue(h, "Forwarded") = "not-needed"
  <2>1. 8 + n \in 1..Len(h)
    BY <1>1
  <2>2. h[8 + n] = Field("Forwarded", "not-needed")
    BY Zenon DEF NewHeader
  <2>3. \A j \in 1..Len(h) : h[j].is = "field" /\ h[j].name = "Forwarded" => j = 8 + n
    BY NewFields
  <2> QED BY <1>0, <2>1, <2>2, <2>3, OnlyField
<1>9. HeaderValue(h, "Applied-Upstream") = "no"
  <2>1. 9 + n + k \in 1..Len(h)
    BY <1>1
  <2>2. h[9 + n + k] = Field("Applied-Upstream", "no")
    BY Zenon DEF NewHeader
  <2>3. \A j \in 1..Len(h) : h[j].is = "field" /\ h[j].name = "Applied-Upstream" => j = 9 + n + k
    BY NewFields
  <2> QED BY <1>0, <2>1, <2>2, <2>3, OnlyField
<1>10. HeaderValue(h, "Last-Update") = "now"
  <2>1. 10 + n + k \in 1..Len(h)
    BY <1>1
  <2>2. h[10 + n + k] = Field("Last-Update", "now")
    BY Zenon DEF NewHeader
  <2>3. \A j \in 1..Len(h) : h[j].is = "field" /\ h[j].name = "Last-Update" => j = 10 + n + k
    BY NewFields
  <2> QED BY <1>0, <2>1, <2>2, <2>3, OnlyField
<1>11. HeaderValue(h, "Signed-off-by") = "author"
  <2>1. 11 + n + k \in 1..Len(h)
    BY <1>1
  <2>2. h[11 + n + k] = Field("Signed-off-by", "author")
    BY Zenon DEF NewHeader
  <2>3. \A j \in 1..Len(h) : h[j].is = "field" /\ h[j].name = "Signed-off-by" => j = 11 + n + k
    BY NewFields
  <2> QED BY <1>0, <2>1, <2>2, <2>3, OnlyField
<1>12. Described(h)
  <2> DEFINE starts == Given(h, "Description")
             stops == {j \in (5 + 1)..Len(h) : IsFieldLine(h[j]) /\ j \notin starts}
             top == Find(stops, Len(h) + 1)
             Says(l) == IF l.is = "field" /\ l.name = "Description" THEN l.value # Empty ELSE l.is # "blank"
  <2>1. starts # {} /\ Min(starts) = 5
    <3>1. {5} \in SUBSET Nat /\ {5} # {}
      OBVIOUS
    <3>2. Min({5}) \in {5}
      BY <3>1, MinIs
    <3> QED BY <1>6, <3>2
  <2>2. PICK p \in 6..(5 + n) : h[p].is = "text"
    BY DEF NewHeader
  <2>3. top \in Nat /\ p < top
    <3>1. \A j \in stops : j \in Nat /\ j > 5 + n
      <4> SUFFICES ASSUME NEW j \in 6..Len(h), IsFieldLine(h[j]) PROVE j \in Nat /\ j > 5 + n
        OBVIOUS
      <4>1. j \notin 6..(5 + n)
        <5>1. h[j].is = "field"
          BY Zenon DEF IsFieldLine
        <5> QED BY <5>1 DEF NewHeader
      <4> QED BY <1>1, <4>1
    <3>2. CASE stops = {}
      <4>1. top = Len(h) + 1
        BY <3>2 DEF Find
      <4> QED BY <1>1, <2>2, <4>1
    <3>3. CASE stops # {}
      <4>1. top = Min(stops)
        BY <3>3 DEF Find
      <4> HIDE DEF stops, top
      <4>2. stops \in SUBSET Nat
        BY <3>1
      <4>3. top \in stops
        BY <3>3, <4>1, <4>2, MinIs
      <4> QED BY <3>1, <4>3, <2>2
    <3> QED BY <3>2, <3>3
  <2>4. p \in 5..(top - 1) /\ Says(h[p])
    BY <2>2, <2>3
  <2>5. \E i \in Min(starts)..(Find({j \in (Min(starts) + 1)..Len(h) : IsFieldLine(h[j]) /\ j \notin starts},
                                     Len(h) + 1) - 1) : Says(h[i])
    BY <2>1, <2>4
  <2> HIDE DEF starts
  <2>6. Described(h) = ( /\ starts # {}
                         /\ \E i \in Min(starts)..(Find({j \in (Min(starts) + 1)..Len(h) :
                                                           IsFieldLine(h[j]) /\ j \notin starts},
                                                        Len(h) + 1) - 1) : Says(h[i]) )
    BY Zenon DEF Described, starts, Empty
  <2> QED BY <2>1, <2>5, <2>6
<1>13. "author" # NotThere /\ "now" # NotThere
  BY PatchFilesAssumption, WrittenAssumption
<1>14. Signed(h)
  BY <1>11, <1>13 DEF Signed
<1>15. \A m \in {"From", "Date"} : HeaderValue(h, m) # NotThere
  BY <1>4, <1>5, <1>13
<1>16. \A m \in DOMAIN Vocabulary : Understood(h, m)
  BY <1>7, <1>8, <1>9, <1>10, PatchFilesAssumption DEF Understood
<1> QED BY <1>3, <1>12, <1>14, <1>15, <1>16 DEF HeaderParses

\* What `jx new' writes has a new header, a terminator, a blank line and the diff.
LEMMA NewIsSpliced ==
  ASSUME NEW subject \in STRING, NEW text \in Seq(PatchLines), Plain(text),
         NEW bug \in STRING \cup {NotThere}, NEW diff \in Seq(PatchLines)
  PROVE  LET w == NewPatch(subject, text, bug, diff)
             n == Len(text)
             k == Len(NewTicket(bug))
         IN /\ w \in Seq(PatchLines) /\ Len(w) = 14 + n + k + Len(diff)
            /\ n \in Nat /\ k \in {0, 1} /\ Len(diff) \in Nat
            /\ NewHeader(SubSeq(w, 1, 12 + n + k), subject, n, k)
            /\ \A i \in 1..(12 + n + k) : SubSeq(w, 1, 12 + n + k)[i] = w[i]
            /\ w[13 + n + k].is = "end" /\ w[14 + n + k].is = "blank"
            /\ \A i \in 1..Len(diff) : w[14 + n + k + i] = diff[i]
<1> DEFINE w == NewPatch(subject, text, bug, diff)
           n == Len(text)
           k == Len(NewTicket(bug))
           h == SubSeq(w, 1, 12 + n + k)
<1>1. /\ w \in Seq(PatchLines) /\ Len(w) = 14 + n + k + Len(diff)
      /\ \A i \in 1..5 : w[i] = NewOpening(subject)[i]
      /\ \A i \in 1..n : w[5 + i] = text[i]
      /\ \A i \in 1..3 : w[5 + n + i] = NewMiddle[i]
      /\ \A i \in 1..k : w[8 + n + i] = NewTicket(bug)[i]
      /\ \A i \in 1..6 : w[8 + n + k + i] = NewClosing[i]
      /\ \A i \in 1..Len(diff) : w[14 + n + k + i] = diff[i]
  BY WrittenIs, Zenon
<1>2. n \in Nat /\ Len(diff) \in Nat
  OBVIOUS
<1>3. k \in {0, 1} /\ \A i \in 1..k : NewTicket(bug)[i].is = "field" /\ NewTicket(bug)[i].name = "Bug-Next-Panel"
  BY TicketIs
<1>4. /\ \A i \in 1..n : text[i].is \in {"text", "blank"}
      /\ \E i \in 1..n : text[i].is = "text"
  <2>1. ToSet(text) = {text[i] : i \in 1..n}
    BY DEF ToSet
  <2> QED BY <2>1 DEF Plain
<1> HIDE DEF w, n, k
<1>5. /\ h \in Seq(PatchLines) /\ Len(h) = 12 + n + k
      /\ \A i \in 1..(12 + n + k) : h[i] = w[i]
  <2>1. 12 + n + k \in Nat /\ 12 + n + k <= Len(w)
    BY <1>1, <1>2, <1>3
  <2>2. \A i \in 1..(12 + n + k) : w[i] \in PatchLines
    BY <1>1, <2>1
  <2> QED BY <2>1, <2>2
<1> HIDE DEF h
<1>6. /\ h[1] = Field("From", "author") /\ h[2] = Field("Date", "now") /\ h[3] = Field("Subject", subject)
      /\ h[4] = Mark("blank") /\ h[5] = Field("Description", Empty)
  <2>1. 1 \in 1..(12 + n + k) /\ 2 \in 1..(12 + n + k) /\ 3 \in 1..(12 + n + k) /\ 4 \in 1..(12 + n + k)
        /\ 5 \in 1..(12 + n + k)
    BY <1>2, <1>3
  <2>2. /\ h[1] = NewOpening(subject)[1] /\ h[2] = NewOpening(subject)[2] /\ h[3] = NewOpening(subject)[3]
        /\ h[4] = NewOpening(subject)[4] /\ h[5] = NewOpening(subject)[5]
    <3>1. \A i \in 1..5 : i \in 1..(12 + n + k)
      BY <1>2, <1>3
    <3>2. \A i \in 1..5 : w[i] = NewOpening(subject)[i]
      BY <1>1, Zenon
    <3>3. \A i \in 1..(12 + n + k) : h[i] = w[i]
      BY <1>5, Zenon
    <3>4. ASSUME NEW i \in 1..5 PROVE h[i] = NewOpening(subject)[i]
      BY <3>1, <3>2, <3>3
    <3>5. 1 \in 1..5 /\ 2 \in 1..5 /\ 3 \in 1..5 /\ 4 \in 1..5 /\ 5 \in 1..5
      OBVIOUS
    <3> QED BY <3>4, <3>5, Zenon
  <2> QED BY <2>2, OpeningIs, Zenon DEF Empty
<1>7. ASSUME NEW i \in 6..(5 + n) PROVE i - 5 \in 1..n /\ h[i] = text[i - 5]
  <2>1. i - 5 \in 1..n /\ i \in 1..(12 + n + k) /\ 5 + (i - 5) = i
    BY <1>2, <1>3
  <2>2. w[5 + (i - 5)] = text[i - 5]
    BY <1>1, <2>1
  <2> QED BY <1>5, <2>1, <2>2
<1>8. \A i \in 6..(5 + n) : h[i].is \in {"text", "blank"}
  BY <1>4, <1>7
<1>9. \E i \in 6..(5 + n) : h[i].is = "text"
  <2>1. PICK p \in 1..n : text[p].is = "text"
    BY <1>4
  <2>2. 5 + p \in 6..(5 + n) /\ (5 + p) - 5 = p
    BY <1>2
  <2>3. h[5 + p] = text[(5 + p) - 5]
    BY <1>7, <2>2
  <2> QED BY <2>1, <2>2, <2>3
<1>10. /\ h[6 + n] = Mark("blank") /\ h[7 + n] = Field("Origin", "vendor")
       /\ h[8 + n] = Field("Forwarded", "not-needed")
  <2>1. /\ 6 + n \in 1..(12 + n + k) /\ 7 + n \in 1..(12 + n + k) /\ 8 + n \in 1..(12 + n + k)
        /\ 5 + n + 1 = 6 + n /\ 5 + n + 2 = 7 + n /\ 5 + n + 3 = 8 + n
    BY <1>2, <1>3
  <2>2. w[6 + n] = NewMiddle[1] /\ w[7 + n] = NewMiddle[2] /\ w[8 + n] = NewMiddle[3]
    BY <1>1, <2>1, SMTT(30)
  <2>3. h[6 + n] = NewMiddle[1] /\ h[7 + n] = NewMiddle[2] /\ h[8 + n] = NewMiddle[3]
    BY <1>5, <2>1, <2>2
  <2> QED BY <2>3, MiddleIs
<1>11. ASSUME NEW i \in (9 + n)..(8 + n + k) PROVE h[i].is = "field" /\ h[i].name = "Bug-Next-Panel"
  <2>1. i - (8 + n) \in 1..k /\ i \in 1..(12 + n + k) /\ 8 + n + (i - (8 + n)) = i
    BY <1>2, <1>3
  <2>2. w[8 + n + (i - (8 + n))] = NewTicket(bug)[i - (8 + n)]
    BY <1>1, <2>1
  <2>3. h[i] = NewTicket(bug)[i - (8 + n)]
    BY <1>5, <2>1, <2>2
  <2> QED BY <1>3, <2>1, <2>3
<1>12. /\ h[9 + n + k] = NewClosing[1] /\ h[10 + n + k] = NewClosing[2] /\ h[11 + n + k] = NewClosing[3]
       /\ h[12 + n + k] = NewClosing[4] /\ w[13 + n + k] = NewClosing[5] /\ w[14 + n + k] = NewClosing[6]
  <2>1. /\ 8 + n + k + 1 = 9 + n + k /\ 8 + n + k + 2 = 10 + n + k /\ 8 + n + k + 3 = 11 + n + k
        /\ 8 + n + k + 4 = 12 + n + k /\ 8 + n + k + 5 = 13 + n + k /\ 8 + n + k + 6 = 14 + n + k
    BY <1>2, <1>3
  <2>2. /\ 9 + n + k \in 1..(12 + n + k) /\ 10 + n + k \in 1..(12 + n + k)
        /\ 11 + n + k \in 1..(12 + n + k) /\ 12 + n + k \in 1..(12 + n + k)
    BY <1>2, <1>3
  <2>3. /\ w[9 + n + k] = NewClosing[1] /\ w[10 + n + k] = NewClosing[2] /\ w[11 + n + k] = NewClosing[3]
        /\ w[12 + n + k] = NewClosing[4] /\ w[13 + n + k] = NewClosing[5] /\ w[14 + n + k] = NewClosing[6]
    BY <1>1, <2>1
  <2> QED BY <1>5, <2>2, <2>3
<1>13. /\ h[9 + n + k] = Field("Applied-Upstream", "no") /\ h[10 + n + k] = Field("Last-Update", "now")
       /\ h[11 + n + k] = Field("Signed-off-by", "author") /\ h[12 + n + k] = Mark("blank")
       /\ w[13 + n + k].is = "end" /\ w[14 + n + k].is = "blank"
  BY <1>12, ClosingIs, MarkType
<1>14. NewHeader(h, subject, n, k)
  BY <1>2, <1>3, <1>5, <1>6, <1>8, <1>9, <1>10, <1>11, <1>13, Zenon DEF NewHeader
<1>15. /\ w \in Seq(PatchLines) /\ Len(w) = 14 + n + k + Len(diff)
       /\ n \in Nat /\ k \in {0, 1} /\ Len(diff) \in Nat
       /\ NewHeader(h, subject, n, k)
       /\ \A i \in 1..(12 + n + k) : h[i] = w[i]
       /\ w[13 + n + k].is = "end" /\ w[14 + n + k].is = "blank"
       /\ \A i \in 1..Len(diff) : w[14 + n + k + i] = diff[i]
  BY <1>1, <1>2, <1>3, <1>5, <1>13, <1>14
<1> QED BY <1>15, Zenon DEF w, n, k, h

\* It lints as its diff does.
LEMMA NewLints ==
  ASSUME NEW subject \in STRING, subject # Empty, NEW text \in Seq(PatchLines), Plain(text),
         NEW bug \in STRING \cup {NotThere}, NEW diff \in Seq(PatchLines), \E l \in ToSet(diff) : l.is = "diff"
  PROVE  LintPatch(NewPatch(subject, text, bug, diff)) = PathComplaints(diff)
<1> DEFINE w == NewPatch(subject, text, bug, diff)
           n == Len(text)
           k == Len(NewTicket(bug))
           h == SubSeq(w, 1, 12 + n + k)
           c == 13 + n + k
<1>1. /\ w \in Seq(PatchLines) /\ Len(w) = 14 + n + k + Len(diff)
      /\ n \in Nat /\ k \in {0, 1} /\ Len(diff) \in Nat
      /\ NewHeader(h, subject, n, k)
      /\ \A i \in 1..(12 + n + k) : h[i] = w[i]
      /\ w[13 + n + k].is = "end" /\ w[14 + n + k].is = "blank"
      /\ \A i \in 1..Len(diff) : w[14 + n + k + i] = diff[i]
  BY NewIsSpliced, SMTT(30)
<1> HIDE DEF w, n, k, h
<1>2. h \in Seq(PatchLines) /\ Len(h) = 12 + n + k
  BY <1>1 DEF NewHeader
<1>3. HeaderParses(h)
  BY <1>1, NewHeaderParses
<1>4. HeaderComplaints(h) = {}
  BY <1>2, <1>3, HeaderAlike
<1>5. /\ c \in 1..Len(w) /\ c - 1 = 12 + n + k /\ c + 1 = 14 + n + k
      /\ Len(w) = c + 1 + Len(diff)
  BY <1>1
<1>6. w[c].is = "end" /\ w[c + 1].is = "blank" /\ \A i \in 1..Len(diff) : w[c + 1 + i] = diff[i]
  BY <1>1, <1>5
<1>7. \A i \in 1..(c - 1) : ~Ends(w[i])
  <2> SUFFICES ASSUME NEW i \in 1..(12 + n + k) PROVE ~Ends(w[i])
    BY <1>5
  <2>1. i \in 1..Len(h)
    BY <1>2
  <2>2. ~Ends(h[i])
    BY <1>1, <2>1, NewFields
  <2> QED BY <1>1, <2>2
<1> HIDE DEF c
<1>8. LintPatch(w) = HeaderComplaints(SubSeq(w, 1, c - 1)) \cup PathComplaints(diff)
  BY <1>1, <1>5, <1>6, <1>7, SplicedLints
<1>9. SubSeq(w, 1, c - 1) = h
  BY <1>5 DEF h
<1>10. LintPatch(w) = PathComplaints(diff)
  BY <1>4, <1>8, <1>9
<1> QED BY <1>10 DEF w

-----------------------------------------------------------------------------
\* `jx lint' has nothing against a patch file but its paths exactly when it parses;
\* a refreshed file keeps its header and lints as that header and the new diff do;
\* and what `jx new' writes lints as its diff does (lint_patch_content, parse_patch,
\* dump_refresh, render_new_header), for every file, description and diff.
THEOREM PatchFilesLintAsTheyParse == Spec => []PatchFilesHold
<1> DEFINE asksPatch ==
             asked.of = "patch" =>
               /\ Parses(asked.lines) <=> Complaints(asked.lines) = {}
               /\ Terminated(asked.lines) =>
                    /\ Header(Refreshed(asked.lines, asked.diff)) = Header(asked.lines)
                    /\ LintPatch(Refreshed(asked.lines, asked.diff)) =
                         (Complaints(asked.lines) \ {<<"no-diff">>}) \cup PathComplaints(asked.diff)
           asksNew ==
             asked.of = "new" =>
               (asked.subject # Empty /\ Plain(asked.description) =>
                  LintPatch(NewPatch(asked.subject, asked.description, asked.bug, asked.diff)) =
                    PathComplaints(asked.diff))
<1>1. AskedInv => asksPatch
  <2> SUFFICES ASSUME AskedInv, asked.of = "patch" PROVE asksPatch
    OBVIOUS
  <2>1. PICK p \in Patches, d \in Diffs : asked = [of |-> "patch", lines |-> p, diff |-> d]
    BY KindIs DEF AskedPatch
  <2>2. asked.lines = p /\ asked.diff = d
    BY <2>1
  <2>3. p \in Seq(PatchLines) /\ d \in Seq(PatchLines) /\ \E l \in ToSet(d) : l.is = "diff"
    BY TextRulesAssumption
  <2>4. Parses(p) <=> Complaints(p) = {}
    BY <2>3, FilesAlike
  <2>5. Terminated(p) => /\ Header(Refreshed(p, d)) = Header(p)
                         /\ LintPatch(Refreshed(p, d)) = (Complaints(p) \ {<<"no-diff">>}) \cup PathComplaints(d)
    BY <2>3, RefreshLints
  <2> QED BY <2>2, <2>4, <2>5, Zenon
<1>2. AskedInv => asksNew
  <2> SUFFICES ASSUME AskedInv, asked.of = "new", asked.subject # Empty, Plain(asked.description)
               PROVE  LintPatch(NewPatch(asked.subject, asked.description, asked.bug, asked.diff)) =
                        PathComplaints(asked.diff)
    OBVIOUS
  <2>1. PICK subject \in Subjects, text \in Descriptions, bug \in {NotThere, "url"}, d \in Diffs :
          asked = [of |-> "new", subject |-> subject, description |-> text, bug |-> bug, diff |-> d]
    BY KindIs DEF AskedNew
  <2>2. asked.subject = subject /\ asked.description = text /\ asked.bug = bug /\ asked.diff = d
    BY <2>1
  <2>3. text \in Seq(PatchLines) /\ d \in Seq(PatchLines) /\ \E l \in ToSet(d) : l.is = "diff"
    BY TextRulesAssumption
  <2>4. subject \in STRING /\ bug \in STRING \cup {NotThere}
    <3>1. subject = Empty \/ subject = "subject"
      BY Zenon DEF Subjects, Empty
    <3>2. Empty \in STRING
      BY WrittenAssumption, Zenon DEF Empty
    <3> QED BY <3>1, <3>2, TextRulesAssumption
  <2> QED BY <2>2, <2>3, <2>4, NewLints
<1>3. asksPatch /\ asksNew => PatchFilesHold
  BY Zenon DEF PatchFilesHold, Complaints, PathComplaints, Plain, Empty
<1> HIDE DEF asksPatch, asksNew
<1>4. AskedInv => PatchFilesHold
  BY <1>1, <1>2, <1>3
<1> QED BY <1>4, Asks, PTL

-----------------------------------------------------------------------------
(* Recursive functions *)

\* Each value the rule gives depends on values of lower rank only.
Grounded(D, V, Rule, rank, top) ==
  /\ Rule \in [[D -> V] -> [D -> V]] /\ rank \in [D -> Nat]
  /\ top \in Nat /\ \A p \in D : rank[p] < top
  /\ \A f, g \in [D -> V] : \A p \in D :
       (\A q \in D : rank[q] < rank[p] => f[q] = g[q]) => Rule[f][p] = Rule[g][p]

\* Then there is a function that obeys it.
LEMMA RecursionHas ==
  ASSUME NEW D, NEW V, V # {}, NEW Rule, NEW rank, NEW top, Grounded(D, V, Rule, rank, top)
  PROVE  \E f \in [D -> V] : f = Rule[f]
<1> USE DEF Grounded
<1> DEFINE Good(f, n) == \A p \in D : rank[p] < n => f[p] = Rule[f][p]
           E == {n \in Nat : \E f \in [D -> V] : Good(f, n)}
<1>1. 0 \in E
  <2> PICK v \in V : TRUE
    OBVIOUS
  <2>1. [p \in D |-> v] \in [D -> V]
    OBVIOUS
  <2>2. \A p \in D : ~(rank[p] < 0)
    OBVIOUS
  <2> QED BY <2>1, <2>2
<1>2. ASSUME NEW n \in Nat, n \in E PROVE n + 1 \in E
  <2>1. PICK f \in [D -> V] : Good(f, n)
    BY <1>2
  <2>2. Rule[f] \in [D -> V]
    OBVIOUS
  <2>3. ASSUME NEW p \in D, rank[p] < n + 1 PROVE Rule[f][p] = Rule[Rule[f]][p]
    <3>1. \A q \in D : rank[q] < rank[p] => f[q] = Rule[f][q]
      <4>1. \A q \in D : rank[q] \in Nat
        OBVIOUS
      <4> QED BY <2>1, <2>3, <4>1
    <3> QED BY <2>2, <3>1
  <2>4. Good(Rule[f], n + 1)
    BY <2>3
  <2> HIDE DEF Good
  <2> QED BY <2>2, <2>4
<1>3. Nat \subseteq E
  <2> HIDE DEF E
  <2> QED BY <1>1, <1>2, Induct
<1>4. PICK f \in [D -> V] : Good(f, top)
  BY <1>3
<1>5. Rule[f] \in [D -> V]
  OBVIOUS
<1>6. \A p \in D : f[p] = Rule[f][p]
  BY <1>4
<1> QED BY <1>4, <1>5, <1>6

-----------------------------------------------------------------------------
(* Sequences without some of their places *)

Pieces(s, I) == [i \in DOMAIN s |-> IF i \in I THEN <<>> ELSE <<s[i]>>]

LEMMA PiecesType ==
  ASSUME NEW T, NEW s \in Seq(T), NEW I
  PROVE  /\ Pieces(s, I) \in Seq(Seq(T)) /\ Len(Pieces(s, I)) = Len(s)
         /\ \A i \in 1..Len(s) : Pieces(s, I)[i] = IF i \in I THEN <<>> ELSE <<s[i]>>
<1>1. \A i \in 1..Len(s) : <<s[i]>> \in Seq(T) /\ <<>> \in Seq(T)
  OBVIOUS
<1>2. DOMAIN s = 1..Len(s) /\ Len(s) \in Nat
  OBVIOUS
<1> QED BY <1>1, <1>2 DEF Pieces

LEMMA WithoutType ==
  ASSUME NEW T, NEW s \in Seq(T), NEW I
  PROVE  Without(s, I) = FlattenSeq(Pieces(s, I)) /\ Without(s, I) \in Seq(T)
<1>1. Without(s, I) = FlattenSeq(Pieces(s, I))
  BY DEF Without, Pieces
<1>2. FlattenSeq(Pieces(s, I)) \in Seq(T)
  BY PiecesType, JoinStep, EmptySeq, Zenon
<1> QED BY <1>1, <1>2

\* Some places of s.
Some(s) == SUBSET (1..Len(s))
Others(s, I) == (1..Len(s)) \ I

\* The places I of s and J of u, in s \o u.
Jointly(s, I, J) == I \cup {Len(s) + j : j \in J}

LEMMA PiecesConcat ==
  ASSUME NEW T, NEW s \in Seq(T), NEW u \in Seq(T),
         NEW I \in Some(s), NEW J \in Some(u)
  PROVE  Pieces(s \o u, Jointly(s, I, J)) = Pieces(s, I) \o Pieces(u, J)
<1> DEFINE su == s \o u
           a == Pieces(s, I)
           b == Pieces(u, J)
           c == Pieces(su, Jointly(s, I, J))
           m == Len(s)
           n == Len(u)
<1>0. I \subseteq 1..Len(s) /\ J \subseteq 1..Len(u)
  BY DEF Some
<1>1. /\ su \in Seq(T) /\ Len(su) = m + n /\ m \in Nat /\ n \in Nat
      /\ \A i \in 1..m : su[i] = s[i]
      /\ \A i \in 1..n : su[m + i] = u[i]
  OBVIOUS
<1>2. /\ a \in Seq(Seq(T)) /\ Len(a) = m /\ \A i \in 1..m : a[i] = IF i \in I THEN <<>> ELSE <<s[i]>>
      /\ b \in Seq(Seq(T)) /\ Len(b) = n /\ \A i \in 1..n : b[i] = IF i \in J THEN <<>> ELSE <<u[i]>>
  BY PiecesType
<1> HIDE DEF su, a, b
<1>3. /\ c \in Seq(Seq(T)) /\ Len(c) = m + n
      /\ \A i \in 1..(m + n) : c[i] = IF i \in Jointly(s, I, J) THEN <<>> ELSE <<su[i]>>
  <2>1. su \in Seq(T) /\ Len(su) = m + n
    BY <1>1
  <2>2. /\ c \in Seq(Seq(T)) /\ Len(c) = Len(su)
        /\ \A i \in 1..Len(su) : c[i] = IF i \in Jointly(s, I, J) THEN <<>> ELSE <<su[i]>>
    <3> HIDE DEF m, n
    <3> QED BY <2>1, PiecesType
  <2> HIDE DEF c, m, n
  <2> QED BY <2>1, <2>2
<1> HIDE DEF c, m, n
<1>4. /\ a \o b \in Seq(Seq(T)) /\ Len(a \o b) = m + n
      /\ \A i \in 1..(m + n) : (a \o b)[i] = IF i <= m THEN a[i] ELSE b[i - m]
  BY <1>2, ConcatProperties, ZenonT(30)
<1> DEFINE d == a \o b
<1>5. d \in Seq(Seq(T)) /\ Len(d) = m + n /\ \A i \in 1..(m + n) : d[i] = IF i <= m THEN a[i] ELSE b[i - m]
  BY <1>4
<1> HIDE DEF d
<1>6. ASSUME NEW i \in 1..(m + n) PROVE c[i] = d[i]
  <2>1. CASE i <= m
    <3>1. i \in 1..m
      BY <1>1, <2>1
    <3>2. i \in Jointly(s, I, J) <=> i \in I
      <4>1. \A j \in J : j \in 1..n /\ m + j # i
        BY <1>0, <1>1, <3>1 DEF m, n
      <4> QED BY <4>1 DEF Jointly, m
    <3>3. i \in 1..(m + n) /\ su[i] = s[i] /\ d[i] = a[i]
      BY <1>1, <1>5, <2>1, <3>1
    <3>4. c[i] = IF i \in I THEN <<>> ELSE <<su[i]>>
      BY <1>3, <3>2, <3>3
    <3> QED BY <1>2, <3>1, <3>3, <3>4
  <2>2. CASE i > m
    <3>1. i - m \in 1..n /\ m + (i - m) = i /\ ~(i <= m)
      BY <1>1, <2>2
    <3>2. i \in Jointly(s, I, J) <=> i - m \in J
      <4>1. i \notin I
        BY <1>0, <3>1 DEF m
      <4>2. \A j \in J : m + j = i <=> j = i - m
        BY <1>0, <1>1, <3>1 DEF n
      <4>3. i \in {m + j : j \in J} <=> \E j \in J : m + j = i
        OBVIOUS
      <4> QED BY <4>1, <4>2, <4>3 DEF Jointly, m
    <3>3. su[i] = u[i - m]
      BY <1>1, <3>1
    <3> QED BY <1>2, <1>3, <1>5, <3>1, <3>2, <3>3
  <2>3. i <= m \/ i > m
    BY <1>1
  <2> QED BY <2>1, <2>2, <2>3
<1>7. c = d
  <2>1. m + n \in Nat
    BY <1>1
  <2> QED BY <1>3, <1>5, <1>6, <2>1, SeqEqual, Zenon
<1> QED BY <1>7 DEF a, b, c, d, su

LEMMA WithoutConcat ==
  ASSUME NEW T, NEW s \in Seq(T), NEW u \in Seq(T),
         NEW I \in Some(s), NEW J \in Some(u)
  PROVE  Without(s \o u, Jointly(s, I, J)) = Without(s, I) \o Without(u, J)
<1>1. s \o u \in Seq(T)
  OBVIOUS
<1>2. Pieces(s, I) \in Seq(Seq(T)) /\ Pieces(u, J) \in Seq(Seq(T))
  BY PiecesType, Zenon
<1>3. FlattenSeq(Pieces(s, I) \o Pieces(u, J)) = FlattenSeq(Pieces(s, I)) \o FlattenSeq(Pieces(u, J))
  BY <1>2, JoinConcat, Zenon
<1>4. Without(s \o u, Jointly(s, I, J)) = FlattenSeq(Pieces(s \o u, Jointly(s, I, J)))
  BY <1>1, WithoutType, Zenon
<1>5. Without(s, I) = FlattenSeq(Pieces(s, I)) /\ Without(u, J) = FlattenSeq(Pieces(u, J))
  BY WithoutType, Zenon
<1> QED BY <1>3, <1>4, <1>5, PiecesConcat, Zenon

LEMMA JointlySays ==
  ASSUME NEW T, NEW s \in Seq(T), NEW u \in Seq(T),
         NEW I \in Some(s), NEW J \in Some(u)
  PROVE  /\ Jointly(s, I, J) \in Some(s \o u)
         /\ Others(s \o u, Jointly(s, I, J)) = Jointly(s, Others(s, I), Others(u, J))
<1> DEFINE m == Len(s)
           n == Len(u)
           A == {m + j : j \in J}
           B == {m + j : j \in (1..n) \ J}
<1>0. I \subseteq 1..Len(s) /\ J \subseteq 1..Len(u)
  BY DEF Some
<1>1. Len(s \o u) = m + n /\ m \in Nat /\ n \in Nat
  OBVIOUS
<1> HIDE DEF m, n
<1>2. \A j \in 1..n : m + j \in 1..(m + n) /\ m + j \notin 1..m
  BY <1>1
<1>3. \A i \in (1..(m + n)) \ (1..m) : i - m \in 1..n /\ i = m + (i - m)
  BY <1>1
<1>4. A \subseteq (1..(m + n)) \ (1..m)
  BY <1>0, <1>2 DEF n
<1>5. B = ((1..(m + n)) \ (1..m)) \ A
  <2>1. ASSUME NEW j \in (1..n) \ J PROVE m + j \notin A
    <3>1. \A k \in J : k \in 1..n /\ (m + k = m + j => k = j)
      BY <1>0, <1>1 DEF n
    <3> QED BY <3>1
  <2>2. B \subseteq ((1..(m + n)) \ (1..m)) \ A
    BY <1>2, <2>1
  <2>3. ASSUME NEW i \in ((1..(m + n)) \ (1..m)) \ A PROVE i \in B
    BY <1>3
  <2> QED BY <2>2, <2>3
<1>6. 1..m \subseteq 1..(m + n)
  BY <1>1
<1>7. Jointly(s, I, J) = I \cup A /\ Jointly(s, Others(s, I), Others(u, J)) = ((1..m) \ I) \cup B
  BY DEF Jointly, Others, m, n
<1>8. I \subseteq 1..m
  BY <1>0 DEF m
<1> HIDE DEF A, B
<1> QED BY <1>1, <1>4, <1>5, <1>6, <1>7, <1>8 DEF Some, Others

-----------------------------------------------------------------------------
(* A sequence in two parts *)

\* Some places of s hold what is kept, the others what is dropped.
Split(s, kept, dropped) ==
  \E I \in Some(s) : dropped = Without(s, I) /\ kept = Without(s, Others(s, I))

LEMMA WithoutNothing == \A I : Without(<<>>, I) = <<>>
<1>1. \A I : Pieces(<<>>, I) = <<>>
  BY DEF Pieces
<1> QED BY <1>1, JoinNothing DEF Without, Pieces

LEMMA WithoutOne ==
  ASSUME NEW T, NEW x \in T
  PROVE  Without(<<x>>, {}) = <<x>> /\ Without(<<x>>, {1}) = <<>>
<1> DEFINE s == <<x>>
<1>1. s \in Seq(T) /\ Len(s) = 1 /\ s[1] = x
  OBVIOUS
<1> HIDE DEF s
<1>2. ASSUME NEW I PROVE Without(s, I) = Pieces(s, I)[1]
  <2> DEFINE p == Pieces(s, I)
  <2>1. p \in Seq(Seq(T)) /\ Len(p) = 1
    BY <1>1, PiecesType
  <2>2. p = Append(<<>>, p[1]) /\ p[1] \in Seq(T) /\ <<>> \in Seq(Seq(T))
    <3> HIDE DEF p
    <3> QED BY <2>1
  <2>3. FlattenSeq(Append(<<>>, p[1])) = FlattenSeq(<<>>) \o p[1]
    <3> HIDE DEF p
    <3> QED BY <2>2, JoinStep
  <2>4. <<>> \o p[1] = p[1]
    <3> HIDE DEF p
    <3> QED BY <2>2
  <2>5. Without(s, I) = FlattenSeq(p)
    BY <1>1, WithoutType
  <2> HIDE DEF p
  <2> QED BY <2>2, <2>3, <2>4, <2>5, JoinNothing DEF p
<1>3. \A I : Pieces(s, I)[1] = IF 1 \in I THEN <<>> ELSE <<s[1]>>
  BY <1>1, PiecesType
<1> QED BY <1>1, <1>2, <1>3 DEF s

LEMMA SplitConcat ==
  ASSUME NEW T, NEW s \in Seq(T), NEW u \in Seq(T),
         NEW k, NEW d, Split(s, k, d), NEW l, NEW e, Split(u, l, e)
  PROVE  Split(s \o u, k \o l, d \o e)
<1>1. PICK I \in Some(s) : d = Without(s, I) /\ k = Without(s, Others(s, I))
  BY DEF Split
<1>2. PICK J \in Some(u) : e = Without(u, J) /\ l = Without(u, Others(u, J))
  BY DEF Split
<1>0. s \in Seq(T) /\ u \in Seq(T) /\ I \in Some(s) /\ J \in Some(u)
  OBVIOUS
<1>3. Without(s \o u, Jointly(s, I, J)) = d \o e
  <2>1. Without(s \o u, Jointly(s, I, J)) = Without(s, I) \o Without(u, J)
    BY <1>0, WithoutConcat
  <2> QED BY <1>1, <1>2, <2>1, Zenon
<1> DEFINE I2 == Others(s, I)
           J2 == Others(u, J)
<1>4. I2 \in Some(s) /\ J2 \in Some(u)
  BY DEF Some, Others
<1>5. Without(s \o u, Jointly(s, I2, J2)) = Without(s, I2) \o Without(u, J2)
  <2> HIDE DEF I2, J2
  <2>1. I2 \in Some(s)
    BY <1>4
  <2>2. J2 \in Some(u)
    BY <1>4
  <2> QED BY <1>0, <2>1, <2>2, WithoutConcat
<1>6. /\ Jointly(s, I, J) \in Some(s \o u)
      /\ Others(s \o u, Jointly(s, I, J)) = Jointly(s, I2, J2)
  BY <1>0, JointlySays
<1> QED BY <1>1, <1>2, <1>3, <1>5, <1>6, Zenon DEF Split

LEMMA SplitNothing == Split(<<>>, <<>>, <<>>)
<1> DEFINE s == <<>>
<1>1. {} \in Some(s) /\ \A I : Without(s, I) = s
  BY WithoutNothing DEF Some
<1> HIDE DEF s
<1>2. Without(s, {}) = s /\ Without(s, Others(s, {})) = s
  BY <1>1, Zenon
<1>3. Split(s, s, s)
  BY <1>1, <1>2, Zenon DEF Split
<1> QED BY <1>3 DEF s

LEMMA SplitOne ==
  ASSUME NEW T, NEW x \in T
  PROVE  Split(<<x>>, <<x>>, <<>>) /\ Split(<<x>>, <<>>, <<x>>)
<1>1. 1..Len(<<x>>) = {1} /\ {1} \ {} = {1} /\ {1} \ {1} = {} /\ {} \in SUBSET {1} /\ {1} \in SUBSET {1}
  OBVIOUS
<1> QED BY <1>1, WithoutOne, Zenon DEF Split, Some, Others

LEMMA SplitType ==
  ASSUME NEW T, NEW s \in Seq(T), NEW k, NEW d, Split(s, k, d)
  PROVE  k \in Seq(T) /\ d \in Seq(T)
BY WithoutType, Zenon DEF Split

\* All is kept.
LEMMA SplitWhole ==
  ASSUME NEW T, NEW s \in Seq(T)
  PROVE  Split(s, s, <<>>)
<1> DEFINE E == {n \in Nat : \A t \in Seq(T) : Len(t) = n => Split(t, t, <<>>)}
<1>1. 0 \in E
  <2>1. \A t \in Seq(T) : Len(t) = 0 => t = <<>>
    OBVIOUS
  <2> QED BY <2>1, SplitNothing
<1>2. ASSUME NEW n \in Nat, n \in E PROVE n + 1 \in E
  <2> SUFFICES ASSUME NEW t \in Seq(T), Len(t) = n + 1 PROVE Split(t, t, <<>>)
    OBVIOUS
  <2>1. PICK w \in Seq(T), e \in T : t = Append(w, e)
    <3>1. t # <<>>
      OBVIOUS
    <3> QED BY <3>1, SequenceEmptyOrAppend, Zenon
  <2>2. Len(w) = n /\ t = w \o <<e>> /\ <<e>> \in Seq(T) /\ <<>> \o <<>> = <<>>
    <3>1. Len(Append(w, e)) = Len(w) + 1 /\ Len(w) \in Nat
      OBVIOUS
    <3>2. Append(w, e) = w \o <<e>> /\ <<e>> \in Seq(T)
      OBVIOUS
    <3>3. <<>> \o <<>> = <<>>
      OBVIOUS
    <3> HIDE DEF E
    <3> QED BY <2>1, <3>1, <3>2, <3>3
  <2>3. Split(w, w, <<>>)
    BY <1>2, <2>2
  <2>4. Split(<<e>>, <<e>>, <<>>)
    BY SplitOne
  <2>5. Split(w \o <<e>>, w \o <<e>>, <<>> \o <<>>)
    BY <2>2, <2>3, <2>4, SplitConcat, Zenon
  <2> QED BY <2>2, <2>5
<1>3. Nat \subseteq E
  <2> HIDE DEF E
  <2> QED BY <1>1, <1>2, Induct
<1>4. Len(s) \in E
  BY <1>3
<1> QED BY <1>4

-----------------------------------------------------------------------------
(* Subsequences *)

Sub(z, s) == \E K \in Some(s) : z = Without(s, K)

LEMMA SubType ==
  ASSUME NEW T, NEW s \in Seq(T), NEW z, Sub(z, s)
  PROVE  z \in Seq(T)
BY WithoutType, Zenon DEF Sub

LEMMA SubConcat ==
  ASSUME NEW T, NEW s \in Seq(T), NEW u \in Seq(T), NEW y, Sub(y, s), NEW z, Sub(z, u)
  PROVE  Sub(y \o z, s \o u)
<1>1. PICK I \in Some(s) : y = Without(s, I)
  BY DEF Sub
<1>2. PICK J \in Some(u) : z = Without(u, J)
  BY DEF Sub
<1>3. s \in Seq(T) /\ u \in Seq(T) /\ I \in Some(s) /\ J \in Some(u)
  OBVIOUS
<1>4. Without(s \o u, Jointly(s, I, J)) = Without(s, I) \o Without(u, J)
  BY <1>3, WithoutConcat
<1>5. Jointly(s, I, J) \in Some(s \o u)
  BY <1>3, JointlySays
<1> QED BY <1>1, <1>2, <1>4, <1>5, Zenon DEF Sub

\* Places of s \o u are places of s and places of u.
LEMMA PlacesApart ==
  ASSUME NEW T, NEW s \in Seq(T), NEW u \in Seq(T), NEW K \in Some(s \o u)
  PROVE  \E I \in Some(s), J \in Some(u) : K = Jointly(s, I, J)
<1> DEFINE m == Len(s)
           n == Len(u)
           I == {i \in K : i <= m}
           J == {j \in 1..n : m + j \in K}
<1>1. m \in Nat /\ n \in Nat /\ Len(s \o u) = m + n
  OBVIOUS
<1>2. K \subseteq 1..(m + n)
  BY <1>1 DEF Some
<1> HIDE DEF m, n
<1>3. I \subseteq 1..m
  <2>1. \A i \in 1..(m + n) : i <= m => i \in 1..m
    BY <1>1
  <2> QED BY <1>2, <2>1
<1>4. ASSUME NEW i \in K, i > m PROVE i - m \in J /\ i = m + (i - m)
  BY <1>1, <1>2, <1>4
<1>5. {m + j : j \in J} \subseteq K
  OBVIOUS
<1>6. \A i \in K : i <= m \/ i > m
  BY <1>1, <1>2
<1>7. K = I \cup {m + j : j \in J}
  BY <1>4, <1>5, <1>6
<1>8. I \in Some(s) /\ J \in Some(u)
  BY <1>3 DEF Some, m, n
<1> QED BY <1>7, <1>8 DEF Jointly, m

LEMMA SubCut ==
  ASSUME NEW T, NEW s \in Seq(T), NEW u \in Seq(T), NEW z, Sub(z, s \o u)
  PROVE  \E x, y : z = x \o y /\ Sub(x, s) /\ Sub(y, u)
<1>1. PICK K \in Some(s \o u) : z = Without(s \o u, K)
  BY DEF Sub
<1>2. s \in Seq(T) /\ u \in Seq(T) /\ K \in Some(s \o u)
  OBVIOUS
<1>3. PICK I \in Some(s), J \in Some(u) : K = Jointly(s, I, J)
  BY <1>2, PlacesApart
<1>4. I \in Some(s) /\ J \in Some(u)
  OBVIOUS
<1>5. Without(s \o u, Jointly(s, I, J)) = Without(s, I) \o Without(u, J)
  BY <1>2, <1>4, WithoutConcat
<1>7. Sub(Without(s, I), s) /\ Sub(Without(u, J), u)
  BY <1>4, Zenon DEF Sub
<1> QED BY <1>1, <1>3, <1>5, <1>7, Zenon

LEMMA SubOne ==
  ASSUME NEW T, NEW x \in T
  PROVE  /\ Sub(<<>>, <<x>>) /\ Sub(<<x>>, <<x>>)
         /\ \A z : Sub(z, <<x>>) => z = <<>> \/ z = <<x>>
<1>1. Some(<<x>>) = {{}, {1}}
  <2>1. Some(<<x>>) = SUBSET {1}
    <3>1. 1..Len(<<x>>) = {1}
      OBVIOUS
    <3> QED BY <3>1 DEF Some
  <2> QED BY <2>1
<1> QED BY <1>1, WithoutOne, Zenon DEF Sub

LEMMA SubNothing ==
  /\ Sub(<<>>, <<>>)
  /\ \A z : Sub(z, <<>>) => z = <<>>
<1> DEFINE s == <<>>
<1>1. {} \in Some(s) /\ \A I : Without(s, I) = s
  BY WithoutNothing DEF Some
<1> HIDE DEF s
<1>2. Sub(s, s) /\ \A z : Sub(z, s) => z = s
  BY <1>1, Zenon DEF Sub
<1> QED BY <1>2 DEF s

\* A subsequence of s and one more item x is one of s, or ends in x.
LEMMA SubSnoc ==
  ASSUME NEW T, NEW s \in Seq(T), NEW x \in T, NEW z, Sub(z, s \o <<x>>)
  PROVE  Sub(z, s) \/ \E y \in Seq(T) : z = y \o <<x>> /\ Sub(y, s)
<1> DEFINE u == <<x>>
<1>1. s \in Seq(T) /\ u \in Seq(T) /\ Sub(z, s \o u) /\ \A e : Sub(e, u) => e = <<>> \/ e = u
  BY SubOne
<1> SUFFICES Sub(z, s) \/ \E y \in Seq(T) : z = y \o u /\ Sub(y, s)
  OBVIOUS
<1> HIDE DEF u
<1>2. \A v \in Seq(T) : Sub(z, s \o v) => \E y, e : z = y \o e /\ Sub(y, s) /\ Sub(e, v)
  BY SubCut
<1>3. PICK y, e : z = y \o e /\ Sub(y, s) /\ Sub(e, u)
  BY <1>1, <1>2, Zenon
<1>4. y \in Seq(T)
  BY <1>1, <1>3, SubType
<1>5. e = <<>> \/ e = u
  BY <1>1, <1>3
<1>6. e = <<>> => z = y
  BY <1>3, <1>4
<1> QED BY <1>3, <1>4, <1>5, <1>6, Zenon

LEMMA SubCons ==
  ASSUME NEW T, NEW s \in Seq(T), NEW x \in T, NEW z, Sub(z, <<x>> \o s)
  PROVE  Sub(z, s) \/ \E y \in Seq(T) : z = <<x>> \o y /\ Sub(y, s)
<1> DEFINE u == <<x>>
<1>1. s \in Seq(T) /\ u \in Seq(T) /\ Sub(z, u \o s) /\ \A e : Sub(e, u) => e = <<>> \/ e = u
  BY SubOne
<1> SUFFICES Sub(z, s) \/ \E y \in Seq(T) : z = u \o y /\ Sub(y, s)
  OBVIOUS
<1> HIDE DEF u
<1>2. PICK e, y : z = e \o y /\ Sub(e, u) /\ Sub(y, s)
  BY <1>1, SubCut
<1>3. y \in Seq(T)
  BY <1>1, <1>2, SubType
<1>4. e = <<>> \/ e = u
  BY <1>1, <1>2
<1>5. e = <<>> => z = y
  BY <1>2, <1>3
<1> QED BY <1>2, <1>3, <1>4, <1>5, Zenon

\* More of a sequence has no fewer subsequences.
LEMMA SubLonger ==
  ASSUME NEW T, NEW s \in Seq(T), NEW x \in T, NEW z, Sub(z, s)
  PROVE  Sub(z, s \o <<x>>) /\ Sub(z, <<x>> \o s)
<1>1. s \in Seq(T) /\ <<x>> \in Seq(T) /\ x \in T /\ Sub(<<>>, <<x>>) /\ z \in Seq(T)
  BY SubOne, SubType
<1>2. Sub(z \o <<>>, s \o <<x>>) /\ Sub(<<>> \o z, <<x>> \o s)
  BY <1>1, SubConcat
<1>3. z \o <<>> = z /\ <<>> \o z = z
  BY <1>1
<1> QED BY <1>2, <1>3

\* What two sequences of an end and a beginning are equal in.
LEMMA SnocEqual ==
  ASSUME NEW T, NEW y \in Seq(T), NEW z \in Seq(T), NEW a \in T, NEW b \in T,
         y \o <<a>> = z \o <<b>>
  PROVE  y = z /\ a = b
<1> DEFINE p == y \o <<a>>
           q == z \o <<b>>
<1>1. /\ Len(p) = Len(y) + 1 /\ p[Len(y) + 1] = a /\ \A i \in 1..Len(y) : p[i] = y[i]
      /\ Len(q) = Len(z) + 1 /\ q[Len(z) + 1] = b /\ \A i \in 1..Len(z) : q[i] = z[i]
      /\ Len(y) \in Nat /\ Len(z) \in Nat /\ p = q
  OBVIOUS
<1> HIDE DEF p, q
<1>2. Len(y) = Len(z)
  BY <1>1
<1>3. \A i \in 1..Len(y) : y[i] = z[i]
  BY <1>1, <1>2
<1> QED BY <1>1, <1>2, <1>3, SeqEqual

LEMMA ConsEqual ==
  ASSUME NEW T, NEW y \in Seq(T), NEW z \in Seq(T), NEW a \in T, NEW b \in T,
         <<a>> \o y = <<b>> \o z
  PROVE  y = z /\ a = b
<1> DEFINE p == <<a>> \o y
           q == <<b>> \o z
<1>1. /\ Len(p) = 1 + Len(y) /\ p[1] = a /\ \A i \in 1..Len(y) : p[1 + i] = y[i]
      /\ Len(q) = 1 + Len(z) /\ q[1] = b /\ \A i \in 1..Len(z) : q[1 + i] = z[i]
      /\ Len(y) \in Nat /\ Len(z) \in Nat /\ p = q
  OBVIOUS
<1> HIDE DEF p, q
<1>2. Len(y) = Len(z)
  BY <1>1
<1>3. \A i \in 1..Len(y) : y[i] = z[i]
  BY <1>1, <1>2
<1> QED BY <1>1, <1>2, <1>3, SeqEqual

\* Without its last item, or its first, a subsequence is one still.
LEMMA SubFront ==
  ASSUME NEW T, NEW s \in Seq(T), NEW x \in T, NEW z \in Seq(T), Sub(z \o <<x>>, s)
  PROVE  Sub(z, s)
<1> DEFINE E == {n \in Nat : \A t \in Seq(T) : Len(t) = n /\ Sub(z \o <<x>>, t) => Sub(z, t)}
<1>1. 0 \in E
  <2> SUFFICES ASSUME NEW t \in Seq(T), Len(t) = 0, Sub(z \o <<x>>, t) PROVE FALSE
    OBVIOUS
  <2>1. t = <<>>
    OBVIOUS
  <2>2. z \o <<x>> = <<>>
    BY <2>1, SubNothing
  <2>3. Len(z \o <<x>>) = Len(z) + 1 /\ Len(z) \in Nat
    OBVIOUS
  <2>4. Len(<<>>) = 0
    OBVIOUS
  <2> HIDE DEF E
  <2> QED BY <2>2, <2>3, <2>4
<1>2. ASSUME NEW n \in Nat, n \in E PROVE n + 1 \in E
  <2> SUFFICES ASSUME NEW t \in Seq(T), Len(t) = n + 1, Sub(z \o <<x>>, t) PROVE Sub(z, t)
    OBVIOUS
  <2>1. PICK w \in Seq(T), e \in T : t = w \o <<e>> /\ Len(w) = n
    <3>1. t # <<>>
      OBVIOUS
    <3>2. PICK w \in Seq(T), e \in T : t = Append(w, e)
      BY <3>1, SequenceEmptyOrAppend, Zenon
    <3>3. Append(w, e) = w \o <<e>> /\ Len(Append(w, e)) = Len(w) + 1 /\ Len(w) \in Nat
      OBVIOUS
    <3>4. t = w \o <<e>> /\ Len(t) = Len(w) + 1
      BY <3>2, <3>3
    <3>5. Len(w) = n
      BY <3>3, <3>4
    <3> QED BY <3>4, <3>5
  <2>2. w \in Seq(T) /\ e \in T /\ Sub(z \o <<x>>, w \o <<e>>)
    BY <2>1
  <2>3. Sub(z \o <<x>>, w) \/ \E y \in Seq(T) : z \o <<x>> = y \o <<e>> /\ Sub(y, w)
    BY <2>2, SubSnoc
  <2>4. Sub(z, w)
    <3>1. CASE Sub(z \o <<x>>, w)
      BY <1>2, <2>1, <2>2, <3>1
    <3>2. ASSUME NEW y \in Seq(T), z \o <<x>> = y \o <<e>>, Sub(y, w) PROVE Sub(z, w)
      <4>1. y \in Seq(T) /\ z \in Seq(T) /\ x \in T
        OBVIOUS
      <4>2. z = y
        BY <2>2, <3>2, <4>1, SnocEqual
      <4> QED BY <3>2, <4>2
    <3> HIDE DEF E
    <3> QED BY <2>3, <3>1, <3>2
  <2>5. Sub(z, w \o <<e>>)
    BY <2>2, <2>4, SubLonger
  <2> QED BY <2>1, <2>5
<1>3. Nat \subseteq E
  <2> HIDE DEF E
  <2> QED BY <1>1, <1>2, Induct
<1>4. Len(s) \in E
  BY <1>3
<1> QED BY <1>4

LEMMA SubTail ==
  ASSUME NEW T, NEW s \in Seq(T), NEW x \in T, NEW z \in Seq(T), Sub(<<x>> \o z, s)
  PROVE  Sub(z, s)
<1> DEFINE E == {n \in Nat : \A t \in Seq(T) : Len(t) = n /\ Sub(<<x>> \o z, t) => Sub(z, t)}
<1>1. 0 \in E
  <2> SUFFICES ASSUME NEW t \in Seq(T), Len(t) = 0, Sub(<<x>> \o z, t) PROVE FALSE
    OBVIOUS
  <2>1. t = <<>>
    OBVIOUS
  <2>2. <<x>> \o z = <<>>
    BY <2>1, SubNothing
  <2>3. Len(<<x>> \o z) = 1 + Len(z) /\ Len(z) \in Nat
    OBVIOUS
  <2>4. Len(<<>>) = 0
    OBVIOUS
  <2> HIDE DEF E
  <2> QED BY <2>2, <2>3, <2>4
<1>2. ASSUME NEW n \in Nat, n \in E PROVE n + 1 \in E
  <2> SUFFICES ASSUME NEW t \in Seq(T), Len(t) = n + 1, Sub(<<x>> \o z, t) PROVE Sub(z, t)
    OBVIOUS
  <2>1. PICK w \in Seq(T), e \in T : t = <<e>> \o w /\ Len(w) = n
    <3>1. t # <<>>
      OBVIOUS
    <3>2. t = <<Head(t)>> \o Tail(t) /\ Head(t) \in T /\ Tail(t) \in Seq(T) /\ Len(Tail(t)) = n
      BY <3>1
    <3> QED BY <3>2
  <2>2. w \in Seq(T) /\ e \in T /\ Sub(<<x>> \o z, <<e>> \o w)
    BY <2>1
  <2>3. Sub(<<x>> \o z, w) \/ \E y \in Seq(T) : <<x>> \o z = <<e>> \o y /\ Sub(y, w)
    BY <2>2, SubCons
  <2>4. Sub(z, w)
    <3>1. CASE Sub(<<x>> \o z, w)
      BY <1>2, <2>1, <2>2, <3>1
    <3>2. ASSUME NEW y \in Seq(T), <<x>> \o z = <<e>> \o y, Sub(y, w) PROVE Sub(z, w)
      <4>1. y \in Seq(T) /\ z \in Seq(T) /\ x \in T
        OBVIOUS
      <4>2. z = y
        BY <2>2, <3>2, <4>1, ConsEqual
      <4> QED BY <3>2, <4>2
    <3> HIDE DEF E
    <3> QED BY <2>3, <3>1, <3>2
  <2>5. Sub(z, <<e>> \o w)
    BY <2>2, <2>4, SubLonger
  <2> QED BY <2>1, <2>5
<1>3. Nat \subseteq E
  <2> HIDE DEF E
  <2> QED BY <1>1, <1>2, Induct
<1>4. Len(s) \in E
  BY <1>3
<1> QED BY <1>4

-----------------------------------------------------------------------------
(* How long a common subsequence may be *)

Bound(s, t, n) == \A z : Sub(z, s) /\ Sub(z, t) => Len(z) <= n

LEMMA BoundNothing ==
  ASSUME NEW t
  PROVE  Bound(<<>>, t, 0) /\ Bound(t, <<>>, 0)
<1>1. \A z : Sub(z, <<>>) => z = <<>>
  BY SubNothing
<1>2. Len(<<>>) <= 0
  OBVIOUS
<1> QED BY <1>1, <1>2, Zenon DEF Bound

LEMMA BoundLast ==
  ASSUME NEW T, NEW s \in Seq(T), NEW t \in Seq(T), NEW x \in T, NEW n \in Nat, Bound(s, t, n)
  PROVE  Bound(s \o <<x>>, t \o <<x>>, n + 1)
<1> SUFFICES ASSUME NEW z, Sub(z, s \o <<x>>), Sub(z, t \o <<x>>) PROVE Len(z) <= n + 1
  BY DEF Bound
<1>1. Sub(z, s) \/ \E y \in Seq(T) : z = y \o <<x>> /\ Sub(y, s)
  BY SubSnoc
<1>2. Sub(z, t) \/ \E y \in Seq(T) : z = y \o <<x>> /\ Sub(y, t)
  BY SubSnoc
<1>3. ASSUME NEW y \in Seq(T), z = y \o <<x>>, Len(y) <= n PROVE Len(z) <= n + 1
  <2>1. Len(y \o <<x>>) = Len(y) + 1 /\ Len(y) \in Nat
    OBVIOUS
  <2> QED BY <1>3, <2>1
<1>4. ASSUME NEW y \in Seq(T), z = y \o <<x>>, Sub(y, s), Sub(z, t) PROVE Len(z) <= n + 1
  <2>1. Sub(y, t)
    BY <1>4, SubFront
  <2> QED BY <1>3, <1>4, <2>1, Zenon DEF Bound
<1>5. ASSUME NEW y \in Seq(T), z = y \o <<x>>, Sub(y, t), Sub(z, s) PROVE Len(z) <= n + 1
  <2>1. Sub(y, s)
    BY <1>5, SubFront
  <2> QED BY <1>3, <1>5, <2>1, Zenon DEF Bound
<1>6. ASSUME Sub(z, s), Sub(z, t) PROVE Len(z) <= n + 1
  <2>1. Len(z) <= n
    BY <1>6, Zenon DEF Bound
  <2>2. z \in Seq(T)
    BY <1>6, SubType
  <2> QED BY <2>1, <2>2
<1>7. ASSUME NEW y \in Seq(T), z = y \o <<x>>, Sub(y, s),
             NEW w \in Seq(T), z = w \o <<x>>, Sub(w, t)
      PROVE  Len(z) <= n + 1
  <2>1. y = w
    <3>1. y \o <<x>> = w \o <<x>> /\ y \in Seq(T) /\ w \in Seq(T) /\ x \in T
      BY <1>7
    <3> QED BY <3>1, SnocEqual, ZenonT(30)
  <2> QED BY <1>3, <1>7, <2>1, Zenon DEF Bound
<1> QED BY <1>1, <1>2, <1>4, <1>5, <1>6, <1>7, Zenon

LEMMA BoundFirst ==
  ASSUME NEW T, NEW s \in Seq(T), NEW t \in Seq(T), NEW x \in T, NEW n \in Nat, Bound(s, t, n)
  PROVE  Bound(<<x>> \o s, <<x>> \o t, n + 1)
<1> SUFFICES ASSUME NEW z, Sub(z, <<x>> \o s), Sub(z, <<x>> \o t) PROVE Len(z) <= n + 1
  BY DEF Bound
<1>1. Sub(z, s) \/ \E y \in Seq(T) : z = <<x>> \o y /\ Sub(y, s)
  BY SubCons
<1>2. Sub(z, t) \/ \E y \in Seq(T) : z = <<x>> \o y /\ Sub(y, t)
  BY SubCons
<1>3. ASSUME NEW y \in Seq(T), z = <<x>> \o y, Len(y) <= n PROVE Len(z) <= n + 1
  <2>1. Len(<<x>> \o y) = 1 + Len(y) /\ Len(y) \in Nat
    OBVIOUS
  <2> QED BY <1>3, <2>1
<1>4. ASSUME NEW y \in Seq(T), z = <<x>> \o y, Sub(y, s), Sub(z, t) PROVE Len(z) <= n + 1
  <2>1. Sub(y, t)
    BY <1>4, SubTail
  <2> QED BY <1>3, <1>4, <2>1, Zenon DEF Bound
<1>5. ASSUME NEW y \in Seq(T), z = <<x>> \o y, Sub(y, t), Sub(z, s) PROVE Len(z) <= n + 1
  <2>1. Sub(y, s)
    BY <1>5, SubTail
  <2> QED BY <1>3, <1>5, <2>1, Zenon DEF Bound
<1>6. ASSUME Sub(z, s), Sub(z, t) PROVE Len(z) <= n + 1
  <2>1. Len(z) <= n
    BY <1>6, Zenon DEF Bound
  <2>2. z \in Seq(T)
    BY <1>6, SubType
  <2> QED BY <2>1, <2>2
<1>7. ASSUME NEW y \in Seq(T), z = <<x>> \o y, Sub(y, s),
             NEW w \in Seq(T), z = <<x>> \o w, Sub(w, t)
      PROVE  Len(z) <= n + 1
  <2>1. y = w
    BY <1>7, ConsEqual
  <2> QED BY <1>3, <1>7, <2>1, Zenon DEF Bound
<1> QED BY <1>1, <1>2, <1>4, <1>5, <1>6, <1>7, Zenon

\* What ends in x and what ends in y have no common subsequence that takes both.
LEMMA BoundEither ==
  ASSUME NEW T, NEW s \in Seq(T), NEW t \in Seq(T), NEW x \in T, NEW y \in T, x # y,
         NEW m \in Nat, Bound(s, t \o <<y>>, m), NEW n \in Nat, Bound(s \o <<x>>, t, n),
         NEW k \in Nat, m <= k, n <= k
  PROVE  Bound(s \o <<x>>, t \o <<y>>, k)
<1> SUFFICES ASSUME NEW z, Sub(z, s \o <<x>>), Sub(z, t \o <<y>>) PROVE Len(z) <= k
  BY DEF Bound
<1>1. Sub(z, s) \/ \E w \in Seq(T) : z = w \o <<x>> /\ Sub(w, s)
  BY SubSnoc
<1>2. Sub(z, t) \/ \E w \in Seq(T) : z = w \o <<y>> /\ Sub(w, t)
  BY SubSnoc
<1>3. Len(z) \in Nat
  <2>1. s \o <<x>> \in Seq(T)
    OBVIOUS
  <2>2. z \in Seq(T)
    BY <2>1, SubType
  <2> QED BY <2>2
<1>4. CASE Sub(z, s)
  <2>1. Len(z) <= m
    BY <1>4, Zenon DEF Bound
  <2> QED BY <1>3, <2>1
<1>5. CASE Sub(z, t)
  <2>1. Len(z) <= n
    BY <1>5, Zenon DEF Bound
  <2> QED BY <1>3, <2>1
<1>6. ASSUME NEW w \in Seq(T), z = w \o <<x>>, NEW v \in Seq(T), z = v \o <<y>> PROVE FALSE
  BY <1>6, SnocEqual
<1> QED BY <1>1, <1>2, <1>4, <1>5, <1>6, Zenon

\* A common beginning, and a common end.
LEMMA BoundAfter ==
  ASSUME NEW T, NEW s \in Seq(T), NEW t \in Seq(T), NEW n \in Nat, Bound(s, t, n), NEW q \in Seq(T)
  PROVE  Bound(s \o q, t \o q, n + Len(q))
<1> DEFINE Holds(v) == Bound(s \o v, t \o v, n + Len(v))
           E == {l \in Nat : \A v \in Seq(T) : Len(v) = l => Holds(v)}
<1>1. 0 \in E
  <2> SUFFICES ASSUME NEW v \in Seq(T), Len(v) = 0 PROVE Holds(v)
    OBVIOUS
  <2>1. s \o v = s /\ t \o v = t /\ n + Len(v) = n
    OBVIOUS
  <2> QED BY <2>1
<1>2. ASSUME NEW l \in Nat, l \in E PROVE l + 1 \in E
  <2> SUFFICES ASSUME NEW v \in Seq(T), Len(v) = l + 1 PROVE Holds(v)
    OBVIOUS
  <2>1. PICK w \in Seq(T), e \in T : v = Append(w, e)
    <3>1. v # <<>>
      OBVIOUS
    <3> QED BY <3>1, SequenceEmptyOrAppend, Zenon
  <2>2. Len(Append(w, e)) = Len(w) + 1 /\ Len(w) \in Nat
    OBVIOUS
  <2>3. Len(w) = l
    BY <2>1, <2>2
  <2>4. Bound(s \o w, t \o w, n + l)
    BY <1>2, <2>3
  <2>5. s \o Append(w, e) = (s \o w) \o <<e>> /\ t \o Append(w, e) = (t \o w) \o <<e>>
        /\ s \o w \in Seq(T) /\ t \o w \in Seq(T) /\ n + l \in Nat
    <3> HIDE DEF E, Holds
    <3>1. Append(w, e) = w \o <<e>> /\ <<e>> \in Seq(T)
      OBVIOUS
    <3>2. s \o (w \o <<e>>) = (s \o w) \o <<e>>
      BY <3>1, ConcatAssociative, SMTT(30)
    <3>3. t \o (w \o <<e>>) = (t \o w) \o <<e>>
      BY <3>1, ConcatAssociative, SMTT(30)
    <3>4. s \o w \in Seq(T) /\ t \o w \in Seq(T) /\ n + l \in Nat
      OBVIOUS
    <3> QED BY <3>1, <3>2, <3>3, <3>4
  <2>6. Bound((s \o w) \o <<e>>, (t \o w) \o <<e>>, (n + l) + 1)
    <3> DEFINE a == s \o w
               b == t \o w
               c == n + l
    <3>1. a \in Seq(T) /\ b \in Seq(T) /\ c \in Nat /\ Bound(a, b, c) /\ e \in T
      BY <2>4, <2>5
    <3> HIDE DEF a, b, c
    <3>2. Bound(a \o <<e>>, b \o <<e>>, c + 1)
      BY <3>1, BoundLast
    <3> QED BY <3>2 DEF a, b, c
  <2>7. n + Len(v) = (n + l) + 1
    OBVIOUS
  <2> QED BY <2>1, <2>5, <2>6, <2>7
<1>3. Nat \subseteq E
  <2> HIDE DEF E
  <2> QED BY <1>1, <1>2, Induct
<1>4. Len(q) \in E
  BY <1>3
<1> QED BY <1>4

LEMMA BoundBefore ==
  ASSUME NEW T, NEW s \in Seq(T), NEW t \in Seq(T), NEW n \in Nat, Bound(s, t, n), NEW p \in Seq(T)
  PROVE  Bound(p \o s, p \o t, n + Len(p))
<1> DEFINE Holds(v) == Bound(v \o s, v \o t, n + Len(v))
           E == {l \in Nat : \A v \in Seq(T) : Len(v) = l => Holds(v)}
<1>1. 0 \in E
  <2> SUFFICES ASSUME NEW v \in Seq(T), Len(v) = 0 PROVE Holds(v)
    OBVIOUS
  <2>1. v \o s = s /\ v \o t = t /\ n + Len(v) = n
    OBVIOUS
  <2> QED BY <2>1
<1>2. ASSUME NEW l \in Nat, l \in E PROVE l + 1 \in E
  <2> SUFFICES ASSUME NEW v \in Seq(T), Len(v) = l + 1 PROVE Holds(v)
    OBVIOUS
  <2> DEFINE e == Head(v)
             w == Tail(v)
  <2>1. v = <<e>> \o w /\ e \in T /\ w \in Seq(T) /\ Len(w) = l
    OBVIOUS
  <2> HIDE DEF e, w
  <2>2. Bound(w \o s, w \o t, n + l)
    BY <1>2, <2>1
  <2> DEFINE a == w \o s
             b == w \o t
             c == n + l
  <2>3. a \in Seq(T) /\ b \in Seq(T) /\ c \in Nat /\ Bound(a, b, c) /\ e \in T
    BY <2>1, <2>2
  <2>4. (<<e>> \o w) \o s = <<e>> \o a /\ (<<e>> \o w) \o t = <<e>> \o b
    BY <2>1, SMTT(30)
  <2>5. n + Len(v) = c + 1
    OBVIOUS
  <2> HIDE DEF a, b, c
  <2>6. Bound(<<e>> \o a, <<e>> \o b, c + 1)
    BY <2>3, BoundFirst
  <2> QED BY <2>1, <2>4, <2>5, <2>6
<1>3. Nat \subseteq E
  <2> HIDE DEF E
  <2> QED BY <1>1, <1>2, Induct
<1>4. Len(p) \in E
  BY <1>3
<1> QED BY <1>4

-----------------------------------------------------------------------------
(* The table of the lengths *)

Entry(s, t, f, p) ==
  IF p[1] = 0 \/ p[2] = 0 THEN 0
  ELSE IF s[p[1]] = t[p[2]] THEN f[<<p[1] - 1, p[2] - 1>>] + 1
  ELSE Max({f[<<p[1] - 1, p[2]>>], f[<<p[1], p[2] - 1>>]})

LEMMA MaxOfTwo ==
  ASSUME NEW a \in Nat, NEW b \in Nat
  PROVE  Max({a, b}) = IF a >= b THEN a ELSE b
<1>1. CASE a >= b
  <2>1. {a, b} \in SUBSET Nat /\ a \in {a, b} /\ \A k \in {a, b} : k <= a
    BY <1>1
  <2>2. Max({a, b}) = a
    BY <2>1, MaxIs
  <2> QED BY <1>1, <2>2
<1>2. CASE ~(a >= b)
  <2>1. {a, b} \in SUBSET Nat /\ b \in {a, b} /\ \A k \in {a, b} : k <= b
    BY <1>2
  <2>2. Max({a, b}) = b
    BY <2>1, MaxIs
  <2> QED BY <1>2, <2>2
<1> QED BY <1>1, <1>2

LEMMA GridSays ==
  ASSUME NEW T, NEW s \in Seq(T), NEW t \in Seq(T), NEW p \in Grid(s, t)
  PROVE  /\ p[1] \in 0..Len(s) /\ p[2] \in 0..Len(t) /\ p = <<p[1], p[2]>>
         /\ p[1] # 0 => <<p[1] - 1, p[2]>> \in Grid(s, t) /\ p[1] \in 1..Len(s)
         /\ p[2] # 0 => <<p[1], p[2] - 1>> \in Grid(s, t) /\ p[2] \in 1..Len(t)
         /\ p[1] # 0 /\ p[2] # 0 => <<p[1] - 1, p[2] - 1>> \in Grid(s, t)
<1> DEFINE m == Len(s)
           n == Len(t)
<1>1. m \in Nat /\ n \in Nat /\ p \in (0..m) \X (0..n) /\ Grid(s, t) = (0..m) \X (0..n)
  BY DEF Grid
<1> HIDE DEF m, n
<1>2. p[1] \in 0..m /\ p[2] \in 0..n /\ p = <<p[1], p[2]>>
  BY <1>1
<1>3. p[1] # 0 => p[1] - 1 \in 0..m /\ p[1] \in 1..m
  BY <1>1, <1>2
<1>4. p[2] # 0 => p[2] - 1 \in 0..n /\ p[2] \in 1..n
  BY <1>1, <1>2
<1> QED BY <1>1, <1>2, <1>3, <1>4 DEF m, n

LEMMA CommonExists ==
  ASSUME NEW T, NEW s \in Seq(T), NEW t \in Seq(T)
  PROVE  \E c \in [Grid(s, t) -> Nat] : c = [p \in Grid(s, t) |-> Entry(s, t, c, p)]
<1> DEFINE D == Grid(s, t)
           Rule == [f \in [D -> Nat] |-> [p \in D |-> Entry(s, t, f, p)]]
           rank == [p \in D |-> p[1] + p[2]]
           top == Len(s) + Len(t) + 1
<1>1. \A p \in D : /\ p[1] \in 0..Len(s) /\ p[2] \in 0..Len(t)
                   /\ p[1] # 0 => <<p[1] - 1, p[2]>> \in D
                   /\ p[2] # 0 => <<p[1], p[2] - 1>> \in D
                   /\ p[1] # 0 /\ p[2] # 0 => <<p[1] - 1, p[2] - 1>> \in D
  BY GridSays
<1>2. Len(s) \in Nat /\ Len(t) \in Nat
  OBVIOUS
<1> HIDE DEF D
<1>3. \A p \in D : p[1] \in Nat /\ p[2] \in Nat /\ p[1] + p[2] \in Nat /\ p[1] + p[2] < top
  <2> TAKE p \in D
  <2>1. p[1] \in 0..Len(s) /\ p[2] \in 0..Len(t)
    BY <1>1, Zenon
  <2> QED BY <1>2, <2>1
<1>4. ASSUME NEW f \in [D -> Nat], NEW p \in D PROVE Entry(s, t, f, p) \in Nat
  <2>1. CASE p[1] = 0 \/ p[2] = 0
    BY <2>1 DEF Entry
  <2>2. CASE p[1] # 0 /\ p[2] # 0
    <3>1. f[<<p[1] - 1, p[2] - 1>>] \in Nat /\ f[<<p[1] - 1, p[2]>>] \in Nat /\ f[<<p[1], p[2] - 1>>] \in Nat
      BY <1>1, <2>2
    <3>2. Max({f[<<p[1] - 1, p[2]>>], f[<<p[1], p[2] - 1>>]}) \in Nat
      BY <3>1, MaxOfTwo
    <3> QED BY <2>2, <3>1, <3>2 DEF Entry
  <2> QED BY <2>1, <2>2
<1>5. ASSUME NEW f \in [D -> Nat], NEW g \in [D -> Nat], NEW p \in D,
             \A q \in D : q[1] + q[2] < p[1] + p[2] => f[q] = g[q]
      PROVE  Entry(s, t, f, p) = Entry(s, t, g, p)
  <2>1. CASE p[1] = 0 \/ p[2] = 0
    BY <2>1 DEF Entry
  <2>2. CASE p[1] # 0 /\ p[2] # 0
    <3> DEFINE a == <<p[1] - 1, p[2] - 1>>
               b == <<p[1] - 1, p[2]>>
               c == <<p[1], p[2] - 1>>
    <3>1. a \in D /\ b \in D /\ c \in D
      BY <1>1, <2>2
    <3>2. a[1] + a[2] < p[1] + p[2] /\ b[1] + b[2] < p[1] + p[2] /\ c[1] + c[2] < p[1] + p[2]
      <4>1. p[1] \in Nat /\ p[2] \in Nat
        BY <1>3, Zenon
      <4>2. /\ a[1] = p[1] - 1 /\ a[2] = p[2] - 1 /\ b[1] = p[1] - 1 /\ b[2] = p[2]
            /\ c[1] = p[1] /\ c[2] = p[2] - 1
        OBVIOUS
      <4> HIDE DEF a, b, c
      <4> QED BY <4>1, <4>2, SMTT(30)
    <3>3. f[a] = g[a] /\ f[b] = g[b] /\ f[c] = g[c]
      <4> HIDE DEF a, b, c
      <4> QED BY <1>5, <3>1, <3>2
    <3> QED BY <2>2, <3>3 DEF Entry
  <2> QED BY <2>1, <2>2
<1>6. /\ 0 \in Nat /\ Rule \in [[D -> Nat] -> [D -> Nat]] /\ rank \in [D -> Nat] /\ top \in Nat
      /\ \A p \in D : rank[p] < top
  BY <1>2, <1>3, <1>4, SMTT(30)
<1>7. \A f, g \in [D -> Nat] : \A p \in D :
        (\A q \in D : rank[q] < rank[p] => f[q] = g[q]) => Rule[f][p] = Rule[g][p]
  <2> TAKE f, g \in [D -> Nat]
  <2> TAKE p \in D
  <2> HAVE \A q \in D : rank[q] < rank[p] => f[q] = g[q]
  <2>1. \A q \in D : q[1] + q[2] < p[1] + p[2] => f[q] = g[q]
    OBVIOUS
  <2>2. Entry(s, t, f, p) = Entry(s, t, g, p)
    BY <1>5, <2>1
  <2> QED BY <2>2
<1>8. \A f \in [D -> Nat] : Rule[f] = [p \in D |-> Entry(s, t, f, p)]
  OBVIOUS
<1> HIDE DEF Rule, rank, top
<1>9. \E f \in [D -> Nat] : f = Rule[f]
  <2>1. Grounded(D, Nat, Rule, rank, top)
    BY <1>6, <1>7, Zenon DEF Grounded
  <2>2. Nat # {}
    OBVIOUS
  <2>3. \A R, k, l : Grounded(D, Nat, R, k, l) => \E f \in [D -> Nat] : f = R[f]
    BY <2>2, RecursionHas
  <2> QED BY <2>1, <2>3
<1> QED BY <1>8, <1>9, Zenon DEF D

LEMMA CommonIs ==
  ASSUME NEW T, NEW s \in Seq(T), NEW t \in Seq(T)
  PROVE  \A p \in Grid(s, t) : Common(s, t)[p] = Entry(s, t, Common(s, t), p)
<1> DEFINE c == Common(s, t)
<1>1. \E f : f = [p \in Grid(s, t) |-> Entry(s, t, f, p)]
  BY CommonExists, ZenonT(30)
<1>2. Common(s, t) = CHOOSE f : f = [p \in Grid(s, t) |-> Entry(s, t, f, p)]
  BY Zenon DEF Common, Entry
<1>3. c = [p \in Grid(s, t) |-> Entry(s, t, c, p)]
  BY <1>1, <1>2, Zenon
<1> HIDE DEF c
<1>4. \A p \in Grid(s, t) : c[p] = Entry(s, t, c, p)
  BY <1>3, Zenon
<1> QED BY <1>4 DEF c

-----------------------------------------------------------------------------
(* Hunks *)

HunksOver(T) == [old : Seq(T), new : Seq(T)]
WalksOver(T) == {w \in [hunks : Seq(HunksOver(T)), open : BOOLEAN] : w.open => w.hunks # <<>>}

OldOf(hunks) == [h \in DOMAIN hunks |-> hunks[h].old]
NewOf(hunks) == [h \in DOMAIN hunks |-> hunks[h].new]
Olds(hunks) == FlattenSeq(OldOf(hunks))
News(hunks) == FlattenSeq(NewOf(hunks))

LEMMA HunkType ==
  ASSUME NEW T, NEW h \in HunksOver(T)
  PROVE  h.old \in Seq(T) /\ h.new \in Seq(T)
BY DEF HunksOver

LEMMA OldOfType ==
  ASSUME NEW T, NEW h \in Seq(HunksOver(T))
  PROVE  /\ OldOf(h) \in Seq(Seq(T)) /\ Len(OldOf(h)) = Len(h)
         /\ \A i \in 1..Len(h) : OldOf(h)[i] = h[i].old
         /\ NewOf(h) \in Seq(Seq(T)) /\ Len(NewOf(h)) = Len(h)
         /\ \A i \in 1..Len(h) : NewOf(h)[i] = h[i].new
<1>1. \A i \in 1..Len(h) : h[i].old \in Seq(T) /\ h[i].new \in Seq(T)
  BY HunkType
<1>2. DOMAIN h = 1..Len(h) /\ Len(h) \in Nat
  OBVIOUS
<1> QED BY <1>1, <1>2 DEF OldOf, NewOf

LEMMA OldsAppend ==
  ASSUME NEW T, NEW h \in Seq(HunksOver(T)), NEW e \in HunksOver(T)
  PROVE  /\ Olds(h) \in Seq(T) /\ Olds(Append(h, e)) = Olds(h) \o e.old
         /\ News(h) \in Seq(T) /\ News(Append(h, e)) = News(h) \o e.new
<1> DEFINE k == Append(h, e)
           n == Len(h)
<1>1. /\ k \in Seq(HunksOver(T)) /\ Len(k) = n + 1 /\ n \in Nat /\ k[n + 1] = e
      /\ \A i \in 1..n : k[i] = h[i]
  OBVIOUS
<1> HIDE DEF k
<1>2. e.old \in Seq(T) /\ e.new \in Seq(T)
  BY HunkType
<1>3. OldOf(k) = Append(OldOf(h), e.old)
  <2> DEFINE a == OldOf(k)
             b == Append(OldOf(h), e.old)
  <2>1. a \in Seq(Seq(T)) /\ Len(a) = n + 1 /\ \A i \in 1..(n + 1) : a[i] = k[i].old
    BY <1>1, OldOfType
  <2>2. OldOf(h) \in Seq(Seq(T)) /\ Len(OldOf(h)) = n /\ \A i \in 1..n : OldOf(h)[i] = h[i].old
    BY OldOfType
  <2> HIDE DEF n
  <2>3. b \in Seq(Seq(T)) /\ Len(b) = n + 1 /\ b[n + 1] = e.old /\ \A i \in 1..n : b[i] = h[i].old
    BY <1>2, <2>2
  <2> HIDE DEF a, b
  <2>4. ASSUME NEW i \in 1..(n + 1) PROVE a[i] = b[i]
    <3>1. i \in 1..n \/ i = n + 1
      BY <1>1
    <3> QED BY <1>1, <2>1, <2>3, <3>1
  <2>5. a = b
    BY <1>1, <2>1, <2>3, <2>4, SeqEqual
  <2> QED BY <2>5 DEF a, b
<1>4. NewOf(k) = Append(NewOf(h), e.new)
  <2> DEFINE a == NewOf(k)
             b == Append(NewOf(h), e.new)
  <2>1. a \in Seq(Seq(T)) /\ Len(a) = n + 1 /\ \A i \in 1..(n + 1) : a[i] = k[i].new
    BY <1>1, OldOfType
  <2>2. NewOf(h) \in Seq(Seq(T)) /\ Len(NewOf(h)) = n /\ \A i \in 1..n : NewOf(h)[i] = h[i].new
    BY OldOfType
  <2> HIDE DEF n
  <2>3. b \in Seq(Seq(T)) /\ Len(b) = n + 1 /\ b[n + 1] = e.new /\ \A i \in 1..n : b[i] = h[i].new
    BY <1>2, <2>2
  <2> HIDE DEF a, b
  <2>4. ASSUME NEW i \in 1..(n + 1) PROVE a[i] = b[i]
    <3>1. i \in 1..n \/ i = n + 1
      BY <1>1
    <3> QED BY <1>1, <2>1, <2>3, <3>1
  <2>5. a = b
    BY <1>1, <2>1, <2>3, <2>4, SeqEqual
  <2> QED BY <2>5 DEF a, b
<1>5. OldOf(h) \in Seq(Seq(T)) /\ NewOf(h) \in Seq(Seq(T))
  BY OldOfType
<1>6. /\ FlattenSeq(OldOf(h)) \in Seq(T)
      /\ FlattenSeq(Append(OldOf(h), e.old)) = FlattenSeq(OldOf(h)) \o e.old
  BY <1>2, <1>5, JoinStep
<1>7. /\ FlattenSeq(NewOf(h)) \in Seq(T)
      /\ FlattenSeq(Append(NewOf(h), e.new)) = FlattenSeq(NewOf(h)) \o e.new
  BY <1>2, <1>5, JoinStep
<1> QED BY <1>3, <1>4, <1>6, <1>7, Zenon DEF Olds, News, k

LEMMA FrontAndLast ==
  ASSUME NEW S, NEW h \in Seq(S), h # <<>>
  PROVE  Front(h) \in Seq(S) /\ Last(h) \in S /\ Append(Front(h), Last(h)) = h
<1>1. PICK g \in Seq(S), e \in S : h = Append(g, e)
  BY SequenceEmptyOrAppend, Zenon
<1>2. Len(h) = Len(g) + 1 /\ h[Len(h)] = e /\ SubSeq(h, 1, Len(h) - 1) = g
  BY <1>1
<1> QED BY <1>1, <1>2 DEF Front, Last

\* The tokens of o and n come after those of the hunks before.
Adds(T, w, o, n) ==
  /\ Differ(w, o, n) \in WalksOver(T) /\ Differ(w, o, n).hunks # <<>>
  /\ Olds(Differ(w, o, n).hunks) = Olds(w.hunks) \o o
  /\ News(Differ(w, o, n).hunks) = News(w.hunks) \o n

\* They do, whether a hunk is open or not.
LEMMA DifferAdds ==
  ASSUME NEW T, NEW w \in WalksOver(T), NEW o \in Seq(T), NEW n \in Seq(T)
  PROVE  Adds(T, w, o, n)
<1>0. \A u, v, q \in Seq(T) : u \o (v \o q) = (u \o v) \o q
  BY ConcatAssociative, SMTT(30)
<1>1. w.hunks \in Seq(HunksOver(T)) /\ w.open \in BOOLEAN /\ (w.open => w.hunks # <<>>)
  BY DEF WalksOver
<1> DEFINE H == HunksOver(T)
           h == w.hunks
<1>2. PICK b \in Seq(H), e \in H :
        /\ Differ(w, o, n) = [hunks |-> Append(b, [old |-> e.old \o o, new |-> e.new \o n]), open |-> TRUE]
        /\ Olds(h) = Olds(b) \o e.old /\ News(h) = News(b) \o e.new
  <2>1. CASE w.open
    <3>1. Front(h) \in Seq(H) /\ Last(h) \in H /\ Append(Front(h), Last(h)) = h
      BY <1>1, <2>1, FrontAndLast
    <3>2. Olds(h) = Olds(Front(h)) \o Last(h).old /\ News(h) = News(Front(h)) \o Last(h).new
      BY <3>1, OldsAppend
    <3>3. Differ(w, o, n) = [hunks |-> Append(Front(h), [old |-> Last(h).old \o o, new |-> Last(h).new \o n]), open |-> TRUE]
      BY <2>1 DEF Differ
    <3> QED BY <3>1, <3>2, <3>3, Zenon
  <2>2. CASE ~w.open
    <3> DEFINE e == [old |-> <<>>, new |-> <<>>]
    <3>1. e \in H /\ e.old = <<>> /\ e.new = <<>>
      BY DEF HunksOver
    <3>2. Differ(w, o, n) = [hunks |-> Append(h, [old |-> e.old \o o, new |-> e.new \o n]), open |-> TRUE]
      BY <2>2 DEF Differ
    <3> HIDE DEF e
    <3>3. Olds(h) \in Seq(T) /\ News(h) \in Seq(T)
      BY <1>1, <3>1, OldsAppend
    <3>4. Olds(h) = Olds(h) \o e.old /\ News(h) = News(h) \o e.new
      BY <3>1, <3>3
    <3> QED BY <1>1, <3>1, <3>2, <3>4, Zenon
  <2> QED BY <1>1, <2>1, <2>2
<1> DEFINE f == [old |-> e.old \o o, new |-> e.new \o n]
<1>3. e.old \in Seq(T) /\ e.new \in Seq(T)
  BY HunkType
<1>4. f \in H /\ f.old = e.old \o o /\ f.new = e.new \o n
  BY <1>3 DEF HunksOver
<1> HIDE DEF f
<1>5. Differ(w, o, n).hunks = Append(b, f) /\ Differ(w, o, n) = [hunks |-> Append(b, f), open |-> TRUE]
  BY <1>2 DEF f
<1>6. /\ Olds(b) \in Seq(T) /\ Olds(Append(b, f)) = Olds(b) \o (e.old \o o)
      /\ News(b) \in Seq(T) /\ News(Append(b, f)) = News(b) \o (e.new \o n)
  <2>1. b \in Seq(H)
    OBVIOUS
  <2> QED BY <1>4, <2>1, OldsAppend
<1>7. Olds(b) \o (e.old \o o) = (Olds(b) \o e.old) \o o
  <2> DEFINE x == Olds(b)
             y == e.old
  <2>1. x \in Seq(T) /\ y \in Seq(T) /\ o \in Seq(T)
    BY <1>3, <1>6
  <2> HIDE DEF x, y
  <2>2. x \o (y \o o) = (x \o y) \o o
    BY <1>0, <2>1, SMTT(30)
  <2> QED BY <2>2 DEF x, y
<1>8. News(b) \o (e.new \o n) = (News(b) \o e.new) \o n
  <2> DEFINE x == News(b)
             y == e.new
  <2>1. x \in Seq(T) /\ y \in Seq(T) /\ n \in Seq(T)
    BY <1>3, <1>6
  <2> HIDE DEF x, y
  <2>2. x \o (y \o n) = (x \o y) \o n
    BY <1>0, <2>1
  <2> QED BY <2>2 DEF x, y
<1>9. Append(b, f) \in Seq(H) /\ Append(b, f) # <<>>
  BY <1>4
<1>10. Differ(w, o, n) \in WalksOver(T)
  BY <1>5, <1>9 DEF WalksOver
<1>11. /\ Differ(w, o, n).hunks # <<>>
       /\ Olds(Differ(w, o, n).hunks) = Olds(w.hunks) \o o
       /\ News(Differ(w, o, n).hunks) = News(w.hunks) \o n
  BY <1>2, <1>5, <1>6, <1>7, <1>8, <1>9
<1> QED BY <1>10, <1>11, Zenon DEF Adds

-----------------------------------------------------------------------------
(* The way back through the table *)

Turn(s, t, c, f, p) ==
  IF p[1] = 0 /\ p[2] = 0 THEN [hunks |-> <<>>, open |-> FALSE]
  ELSE IF p[1] > 0 /\ p[2] > 0 /\ s[p[1]] = t[p[2]]
    THEN [hunks |-> f[<<p[1] - 1, p[2] - 1>>].hunks, open |-> FALSE]
  ELSE IF p[1] > 0 /\ (p[2] = 0 \/ c[<<p[1] - 1, p[2]>>] >= c[<<p[1], p[2] - 1>>])
    THEN Differ(f[<<p[1] - 1, p[2]>>], <<s[p[1]]>>, <<>>)
  ELSE Differ(f[<<p[1], p[2] - 1>>], <<>>, <<t[p[2]]>>)

\* Which way is taken, and what from there: one of four.
TurnWays(s, t, c, f, p) ==
  \/ /\ p[1] = 0 /\ p[2] = 0
     /\ Turn(s, t, c, f, p) = [hunks |-> <<>>, open |-> FALSE]
  \/ /\ p[1] # 0 /\ p[2] # 0 /\ s[p[1]] = t[p[2]]
     /\ Turn(s, t, c, f, p) = [hunks |-> f[<<p[1] - 1, p[2] - 1>>].hunks, open |-> FALSE]
  \/ /\ p[1] # 0 /\ (p[2] # 0 => s[p[1]] # t[p[2]])
     /\ p[2] = 0 \/ c[<<p[1] - 1, p[2]>>] >= c[<<p[1], p[2] - 1>>]
     /\ Turn(s, t, c, f, p) = Differ(f[<<p[1] - 1, p[2]>>], <<s[p[1]]>>, <<>>)
  \/ /\ p[2] # 0 /\ (p[1] # 0 => s[p[1]] # t[p[2]])
     /\ p[1] = 0 \/ ~(c[<<p[1] - 1, p[2]>>] >= c[<<p[1], p[2] - 1>>])
     /\ Turn(s, t, c, f, p) = Differ(f[<<p[1], p[2] - 1>>], <<>>, <<t[p[2]]>>)

LEMMA TurnIs ==
  ASSUME NEW T, NEW s \in Seq(T), NEW t \in Seq(T), NEW p \in Grid(s, t), NEW c, NEW f
  PROVE  TurnWays(s, t, c, f, p)
<1>1. p[1] \in 0..Len(s) /\ p[2] \in 0..Len(t)
  BY GridSays
<1>2. (p[1] > 0 <=> p[1] # 0) /\ (p[2] > 0 <=> p[2] # 0)
  BY <1>1
<1> QED BY <1>2, Zenon DEF Turn, TurnWays

LEMMA OneType ==
  ASSUME NEW T, NEW s \in Seq(T), NEW i \in 1..Len(s)
  PROVE  s[i] \in T /\ <<s[i]>> \in Seq(T)
OBVIOUS

WalkRule(s, t, c, f) == f = [p \in Grid(s, t) |-> Turn(s, t, c, f, p)]

LEMMA WalkExists ==
  ASSUME NEW T, NEW s \in Seq(T), NEW t \in Seq(T), NEW c
  PROVE  \E f \in [Grid(s, t) -> WalksOver(T)] : WalkRule(s, t, c, f)
<1> DEFINE D == Grid(s, t)
           V == WalksOver(T)
           Rule == [f \in [D -> V] |-> [p \in D |-> Turn(s, t, c, f, p)]]
           rank == [p \in D |-> p[1] + p[2]]
           top == Len(s) + Len(t) + 1
           start == [hunks |-> <<>>, open |-> FALSE]
<1>1. \A p \in D : /\ p[1] \in 0..Len(s) /\ p[2] \in 0..Len(t)
                   /\ p[1] # 0 => <<p[1] - 1, p[2]>> \in D /\ p[1] \in 1..Len(s)
                   /\ p[2] # 0 => <<p[1], p[2] - 1>> \in D /\ p[2] \in 1..Len(t)
                   /\ p[1] # 0 /\ p[2] # 0 => <<p[1] - 1, p[2] - 1>> \in D
  BY GridSays
<1>2. Len(s) \in Nat /\ Len(t) \in Nat
  OBVIOUS
<1>3. \A p \in D : p \in Grid(s, t)
  OBVIOUS
<1> HIDE DEF D
<1>4. \A p \in D : p[1] \in Nat /\ p[2] \in Nat /\ p[1] + p[2] \in Nat /\ p[1] + p[2] < top
  <2> TAKE p \in D
  <2>1. p[1] \in 0..Len(s) /\ p[2] \in 0..Len(t)
    BY <1>1, Zenon
  <2> QED BY <1>2, <2>1
<1>5. start \in V
  BY DEF WalksOver
<1>6. ASSUME NEW v \in V PROVE [hunks |-> v.hunks, open |-> FALSE] \in V
  BY DEF WalksOver
<1> HIDE DEF V
<1>7. \A v \in V, o, n \in Seq(T) : Differ(v, o, n) \in V
  BY DifferAdds DEF V, Adds
<1>8. ASSUME NEW f \in [D -> V], NEW p \in D PROVE Turn(s, t, c, f, p) \in V
  <2> DEFINE i == p[1]
             j == p[2]
             n == <<i - 1, j>>
             w == <<i, j - 1>>
             b == <<i - 1, j - 1>>
             x == <<s[i]>>
             y == <<t[j]>>
             e == <<>>
             turn == Turn(s, t, c, f, p)
  <2>1. /\ i # 0 => n \in D /\ x \in Seq(T)
        /\ j # 0 => w \in D /\ y \in Seq(T)
        /\ i # 0 /\ j # 0 => b \in D
        /\ e \in Seq(T)
    BY <1>1, OneType, EmptySeq
  <2>2. \/ turn = start
        \/ i # 0 /\ j # 0 /\ turn = [hunks |-> f[b].hunks, open |-> FALSE]
        \/ i # 0 /\ turn = Differ(f[n], x, e)
        \/ j # 0 /\ turn = Differ(f[w], e, y)
    <3>1. p \in Grid(s, t)
      BY <1>3
    <3>2. TurnWays(s, t, c, f, p)
      BY <3>1, TurnIs
    <3> QED BY <3>2, Zenon DEF TurnWays
  <2> HIDE DEF i, j, n, w, b, x, y, e, turn, start
  <2>3. \A q \in D : f[q] \in V
    OBVIOUS
  <2>4. ASSUME i # 0 /\ j # 0 /\ turn = [hunks |-> f[b].hunks, open |-> FALSE] PROVE turn \in V
    <3>1. f[b] \in V
      BY <2>1, <2>3, <2>4
    <3> QED BY <1>6, <2>4, <3>1, Zenon
  <2>5. ASSUME i # 0 /\ turn = Differ(f[n], x, e) PROVE turn \in V
    <3>1. f[n] \in V /\ x \in Seq(T)
      BY <2>1, <2>3, <2>5
    <3> QED BY <1>7, <2>1, <2>5, <3>1, Zenon
  <2>6. ASSUME j # 0 /\ turn = Differ(f[w], e, y) PROVE turn \in V
    <3>1. f[w] \in V /\ y \in Seq(T)
      BY <2>1, <2>3, <2>6
    <3> QED BY <1>7, <2>1, <2>6, <3>1, Zenon
  <2>7. turn \in V
    BY <1>5, <2>2, <2>4, <2>5, <2>6, Zenon
  <2> QED BY <2>7 DEF turn
<1>9. ASSUME NEW f \in [D -> V], NEW g \in [D -> V], NEW p \in D,
             \A q \in D : q[1] + q[2] < p[1] + p[2] => f[q] = g[q]
      PROVE  Turn(s, t, c, f, p) = Turn(s, t, c, g, p)
  <2> DEFINE i == p[1]
             j == p[2]
             n == <<i - 1, j>>
             w == <<i, j - 1>>
             b == <<i - 1, j - 1>>
  <2>1. i \in Nat /\ j \in Nat
    BY <1>4, Zenon
  <2>2. n[1] = i - 1 /\ n[2] = j /\ w[1] = i /\ w[2] = j - 1 /\ b[1] = i - 1 /\ b[2] = j - 1
    OBVIOUS
  <2>3. (i # 0 => n \in D) /\ (j # 0 => w \in D) /\ (i # 0 /\ j # 0 => b \in D)
    BY <1>1
  <2>4. (i > 0 <=> i # 0) /\ (j > 0 <=> j # 0)
    BY <2>1
  <2>5. n[1] + n[2] < i + j /\ w[1] + w[2] < i + j /\ b[1] + b[2] < i + j
    <3> HIDE DEF i, j, n, w, b
    <3> QED BY <2>1, <2>2
  <2>6. (i # 0 => f[n] = g[n]) /\ (j # 0 => f[w] = g[w]) /\ (i # 0 /\ j # 0 => f[b] = g[b])
    <3> HIDE DEF n, w, b
    <3> QED BY <1>9, <2>3, <2>5
  <2>7. Turn(s, t, c, f, p) =
          IF i = 0 /\ j = 0 THEN start
          ELSE IF i > 0 /\ j > 0 /\ s[i] = t[j] THEN [hunks |-> f[b].hunks, open |-> FALSE]
          ELSE IF i > 0 /\ (j = 0 \/ c[n] >= c[w]) THEN Differ(f[n], <<s[i]>>, <<>>)
          ELSE Differ(f[w], <<>>, <<t[j]>>)
    BY Zenon DEF Turn
  <2>8. Turn(s, t, c, g, p) =
          IF i = 0 /\ j = 0 THEN start
          ELSE IF i > 0 /\ j > 0 /\ s[i] = t[j] THEN [hunks |-> g[b].hunks, open |-> FALSE]
          ELSE IF i > 0 /\ (j = 0 \/ c[n] >= c[w]) THEN Differ(g[n], <<s[i]>>, <<>>)
          ELSE Differ(g[w], <<>>, <<t[j]>>)
    BY Zenon DEF Turn
  <2> HIDE DEF i, j, n, w, b, start
  <2>9. CASE i = 0 /\ j = 0
    BY <2>7, <2>8, <2>9, Zenon
  <2>10. CASE ~(i = 0 /\ j = 0) /\ i > 0 /\ j > 0 /\ s[i] = t[j]
    <3>1. f[b] = g[b]
      BY <2>4, <2>6, <2>10, Zenon
    <3> QED BY <2>7, <2>8, <2>10, <3>1, Zenon
  <2>11. CASE ~(i = 0 /\ j = 0) /\ ~(i > 0 /\ j > 0 /\ s[i] = t[j]) /\ i > 0 /\ (j = 0 \/ c[n] >= c[w])
    <3>1. f[n] = g[n]
      BY <2>4, <2>6, <2>11, Zenon
    <3> QED BY <2>7, <2>8, <2>11, <3>1, Zenon
  <2>12. CASE ~(i = 0 /\ j = 0) /\ ~(i > 0 /\ j > 0 /\ s[i] = t[j]) /\ ~(i > 0 /\ (j = 0 \/ c[n] >= c[w]))
    <3>1. j # 0
      BY <2>4, <2>12, Zenon
    <3>2. f[w] = g[w]
      BY <2>6, <3>1, Zenon
    <3> QED BY <2>7, <2>8, <2>12, <3>2, Zenon
  <2> QED BY <2>9, <2>10, <2>11, <2>12, Zenon
<1>10. /\ Rule \in [[D -> V] -> [D -> V]] /\ rank \in [D -> Nat] /\ top \in Nat
       /\ \A p \in D : rank[p] < top
  BY <1>2, <1>4, <1>8
<1>11. \A f, g \in [D -> V] : \A p \in D :
         (\A q \in D : rank[q] < rank[p] => f[q] = g[q]) => Rule[f][p] = Rule[g][p]
  <2> TAKE f, g \in [D -> V]
  <2> TAKE p \in D
  <2> HAVE \A q \in D : rank[q] < rank[p] => f[q] = g[q]
  <2>1. \A q \in D : q[1] + q[2] < p[1] + p[2] => f[q] = g[q]
    OBVIOUS
  <2>2. Turn(s, t, c, f, p) = Turn(s, t, c, g, p)
    BY <1>9, <2>1
  <2> QED BY <2>2
<1>12. \A f \in [D -> V] : Rule[f] = [p \in D |-> Turn(s, t, c, f, p)]
  OBVIOUS
<1>13. V # {}
  BY <1>5
<1> HIDE DEF Rule, rank, top
<1>14. \E f \in [D -> V] : f = Rule[f]
  <2>1. Grounded(D, V, Rule, rank, top)
    BY <1>10, <1>11, Zenon DEF Grounded
  <2>2. \A R, k, l : Grounded(D, V, R, k, l) => \E f \in [D -> V] : f = R[f]
    BY <1>13, RecursionHas
  <2> QED BY <2>1, <2>2
<1> QED BY <1>12, <1>14, Zenon DEF D, V, WalkRule

LEMMA WalkIs ==
  ASSUME NEW T, NEW s \in Seq(T), NEW t \in Seq(T)
  PROVE  \A p \in Grid(s, t) : Walk(s, t)[p] = Turn(s, t, Common(s, t), Walk(s, t), p)
<1>1. \A c : \E f : WalkRule(s, t, c, f)
  BY WalkExists
<1> DEFINE w == Walk(s, t)
           c == Common(s, t)
<1>2. Walk(s, t) = CHOOSE f : f = [p \in Grid(s, t) |-> Turn(s, t, c, f, p)]
  BY Zenon DEF Walk, Turn
<1>3. w = [p \in Grid(s, t) |-> Turn(s, t, c, w, p)]
  BY <1>1, <1>2, Zenon DEF WalkRule
<1> HIDE DEF w, c
<1>4. \A p \in Grid(s, t) : w[p] = Turn(s, t, c, w, p)
  BY <1>3, Zenon
<1> QED BY <1>4 DEF w, c

-----------------------------------------------------------------------------
(* What the table and the way back mean *)

Until(s, i) == SubSeq(s, 1, i)

LEMMA UntilSays ==
  ASSUME NEW T, NEW s \in Seq(T)
  PROVE  /\ Until(s, 0) = <<>> /\ Until(s, Len(s)) = s
         /\ \A i \in 0..Len(s) : Until(s, i) \in Seq(T)
         /\ \A i \in 1..Len(s) : Until(s, i) = Until(s, i - 1) \o <<s[i]>>
<1>1. Until(s, 0) = <<>> /\ Until(s, Len(s)) = s
  BY DEF Until
<1>2. ASSUME NEW i \in 0..Len(s) PROVE Until(s, i) \in Seq(T) /\ Len(Until(s, i)) = i /\ \A k \in 1..i : Until(s, i)[k] = s[k]
  BY DEF Until
<1>3. ASSUME NEW i \in 1..Len(s) PROVE Until(s, i) = Until(s, i - 1) \o <<s[i]>>
  <2> DEFINE a == Until(s, i)
             b == Until(s, i - 1)
             c == b \o <<s[i]>>
  <2>1. i \in 0..Len(s) /\ i - 1 \in 0..Len(s) /\ s[i] \in T
    OBVIOUS
  <2>2. a \in Seq(T) /\ Len(a) = i /\ \A k \in 1..i : a[k] = s[k]
    BY <1>2, <2>1
  <2>3. b \in Seq(T) /\ Len(b) = i - 1 /\ \A k \in 1..(i - 1) : b[k] = s[k]
    BY <1>2, <2>1
  <2> HIDE DEF a, b
  <2>4. c \in Seq(T) /\ Len(c) = i /\ c[i] = s[i] /\ \A k \in 1..(i - 1) : c[k] = b[k]
    <3> DEFINE e == <<s[i]>>
    <3>1. e \in Seq(T) /\ Len(e) = 1 /\ e[1] = s[i]
      BY <2>1
    <3> HIDE DEF e
    <3>2. /\ b \o e \in Seq(T) /\ Len(b \o e) = Len(b) + Len(e)
          /\ \A k \in 1..(Len(b) + Len(e)) : (b \o e)[k] = IF k <= Len(b) THEN b[k] ELSE e[k - Len(b)]
      BY <2>3, <3>1, ConcatProperties
    <3>3. c = b \o e
      BY DEF e
    <3> HIDE DEF c
    <3>4. \A k \in 1..i : c[k] = IF k <= i - 1 THEN b[k] ELSE e[k - (i - 1)]
      BY <2>3, <3>1, <3>2, <3>3
    <3>5. c[i] = e[1]
      <4>1. i \in 1..i /\ ~(i <= i - 1) /\ i - (i - 1) = 1
        OBVIOUS
      <4> QED BY <3>4, <4>1
    <3>6. \A k \in 1..(i - 1) : k \in 1..i /\ k <= i - 1
      OBVIOUS
    <3>7. \A k \in 1..(i - 1) : c[k] = b[k]
      BY <3>4, <3>6
    <3>8. c \in Seq(T) /\ Len(c) = i
      BY <2>3, <3>1, <3>2, <3>3
    <3> QED BY <3>1, <3>5, <3>7, <3>8
  <2> HIDE DEF c
  <2>5. ASSUME NEW k \in 1..i PROVE a[k] = c[k]
    <3>1. k = i \/ k \in 1..(i - 1)
      OBVIOUS
    <3> QED BY <2>2, <2>3, <2>4, <3>1
  <2>6. a = c
    BY <2>2, <2>4, <2>5, SeqEqual
  <2> QED BY <2>6 DEF a, c, b
<1> QED BY <1>1, <1>2, <1>3

LEMMA UntilAlso ==
  ASSUME NEW T, NEW s \in Seq(T), NEW i \in 1..Len(s)
  PROVE  s[i] \in T /\ Until(s, i - 1) \in Seq(T) /\ Until(s, i) = Until(s, i - 1) \o <<s[i]>>
<1>1. i - 1 \in 0..Len(s) /\ s[i] \in T
  OBVIOUS
<1>2. \A k \in 0..Len(s) : Until(s, k) \in Seq(T)
  BY UntilSays
<1>3. \A k \in 1..Len(s) : Until(s, k) = Until(s, k - 1) \o <<s[k]>>
  BY UntilSays
<1> QED BY <1>1, <1>2, <1>3

\* Induction over the places of the table.
LEMMA GridInduct ==
  ASSUME NEW T, NEW s \in Seq(T), NEW t \in Seq(T), NEW G,
         \A p \in Grid(s, t) : (\A q \in Grid(s, t) : q[1] + q[2] < p[1] + p[2] => q \in G) => p \in G
  PROVE  Grid(s, t) \subseteq G
<1> DEFINE D == Grid(s, t)
           E == {n \in Nat : \A p \in D : p[1] + p[2] < n => p \in G}
<1>1. \A p \in D : p[1] \in Nat /\ p[2] \in Nat
  <2>1. \A p \in D : p[1] \in 0..Len(s) /\ p[2] \in 0..Len(t)
    BY GridSays
  <2>2. Len(s) \in Nat /\ Len(t) \in Nat
    OBVIOUS
  <2> HIDE DEF D
  <2> QED BY <2>1, <2>2
<1>2. \A p \in D : (\A q \in D : q[1] + q[2] < p[1] + p[2] => q \in G) => p \in G
  OBVIOUS
<1> HIDE DEF D
<1>3. 0 \in E
  BY <1>1
<1>4. ASSUME NEW n \in Nat, n \in E PROVE n + 1 \in E
  <2> SUFFICES ASSUME NEW p \in D, p[1] + p[2] < n + 1 PROVE p \in G
    OBVIOUS
  <2>1. \A q \in D : q[1] + q[2] < p[1] + p[2] => q \in G
    <3> TAKE q \in D
    <3>1. p[1] \in Nat /\ p[2] \in Nat /\ q[1] \in Nat /\ q[2] \in Nat
      BY <1>1
    <3> QED BY <1>4, <3>1
  <2> QED BY <1>2, <2>1
<1>5. Nat \subseteq E
  <2> HIDE DEF E
  <2> QED BY <1>3, <1>4, Induct
<1>6. ASSUME NEW p \in D PROVE p \in G
  <2>1. p[1] + p[2] + 1 \in Nat /\ p[1] + p[2] < p[1] + p[2] + 1
    BY <1>1
  <2>2. p[1] + p[2] + 1 \in E
    BY <1>5, <2>1
  <2> QED BY <2>1, <2>2
<1> QED BY <1>6 DEF D

Bounded(s, t, c, p) == c[p] \in Nat /\ Bound(Until(s, p[1]), Until(t, p[2]), c[p])

\* No common subsequence of two beginnings is longer than the table says.
LEMMA TableBounds ==
  ASSUME NEW T, NEW s \in Seq(T), NEW t \in Seq(T)
  PROVE  \A p \in Grid(s, t) : Bounded(s, t, Common(s, t), p)
<1> DEFINE c == Common(s, t)
           G == {p \in Grid(s, t) : Bounded(s, t, c, p)}
<1>1. ASSUME NEW p \in Grid(s, t), \A q \in Grid(s, t) : q[1] + q[2] < p[1] + p[2] => q \in G
      PROVE  p \in G
  <2> DEFINE i == p[1]
             j == p[2]
             n == <<i - 1, j>>
             w == <<i, j - 1>>
             b == <<i - 1, j - 1>>
  <2>1. /\ i \in 0..Len(s) /\ j \in 0..Len(t) /\ Len(s) \in Nat /\ Len(t) \in Nat
        /\ i # 0 => n \in Grid(s, t) /\ i \in 1..Len(s)
        /\ j # 0 => w \in Grid(s, t) /\ j \in 1..Len(t)
        /\ i # 0 /\ j # 0 => b \in Grid(s, t)
    BY GridSays
  <2>2. n[1] = i - 1 /\ n[2] = j /\ w[1] = i /\ w[2] = j - 1 /\ b[1] = i - 1 /\ b[2] = j - 1
    OBVIOUS
  <2>3. c[p] = Entry(s, t, c, p)
    BY CommonIs
  <2>4. c[p] = IF i = 0 \/ j = 0 THEN 0
               ELSE IF s[i] = t[j] THEN c[b] + 1
               ELSE Max({c[n], c[w]})
    BY <2>3 DEF Entry
  <2>5. Until(s, 0) = <<>> /\ Until(t, 0) = <<>>
    BY UntilSays
  <2>8. \A k \in 1..Len(s) : /\ s[k] \in T /\ Until(s, k - 1) \in Seq(T)
                             /\ Until(s, k) = Until(s, k - 1) \o <<s[k]>>
    BY UntilAlso
  <2>9. \A k \in 1..Len(t) : /\ t[k] \in T /\ Until(t, k - 1) \in Seq(T)
                             /\ Until(t, k) = Until(t, k - 1) \o <<t[k]>>
    BY UntilAlso
  <2> DEFINE I == Until(s, i)
             J == Until(t, j)
  <2> SUFFICES c[p] \in Nat /\ Bound(I, J, c[p])
    BY DEF Bounded
  <2> HIDE DEF i, j, n, w, b, c
  <2>6. CASE i = 0 \/ j = 0
    <3>1. c[p] = 0
      BY <2>4, <2>6
    <3>2. I = <<>> \/ J = <<>>
      BY <2>5, <2>6
    <3>3. \A v : Bound(<<>>, v, 0) /\ Bound(v, <<>>, 0)
      BY BoundNothing
    <3> QED BY <3>1, <3>2, <3>3
  <2>7. CASE i # 0 /\ j # 0
    <3> DEFINE A == Until(s, i - 1)
               B == Until(t, j - 1)
    <3>1. i \in 1..Len(s) /\ j \in 1..Len(t) /\ i - 1 \in 0..Len(s) /\ j - 1 \in 0..Len(t)
      BY <2>1, <2>7
    <3>2. s[i] \in T /\ A \in Seq(T) /\ I = A \o <<s[i]>>
      BY <2>8, <3>1
    <3>3. t[j] \in T /\ B \in Seq(T) /\ J = B \o <<t[j]>>
      BY <2>9, <3>1
    <3>4. Bounded(s, t, c, n) /\ Bounded(s, t, c, w) /\ Bounded(s, t, c, b)
      <4>1. n[1] + n[2] < i + j /\ w[1] + w[2] < i + j /\ b[1] + b[2] < i + j
        BY <2>2, <3>1
      <4>2. n \in G /\ w \in G /\ b \in G
        BY <1>1, <2>1, <2>7, <4>1 DEF i, j
      <4> QED BY <4>2
    <3>5. c[n] \in Nat /\ Bound(A, J, c[n]) /\ c[w] \in Nat /\ Bound(I, B, c[w]) /\ c[b] \in Nat /\ Bound(A, B, c[b])
      BY <2>2, <3>4 DEF Bounded
    <3> HIDE DEF A, B, I, J
    <3> DEFINE x == s[i]
               y == t[j]
    <3>6. x \in T /\ y \in T /\ A \in Seq(T) /\ B \in Seq(T)
      BY <3>2, <3>3
    <3>7. CASE x = y
      <4>1. c[p] = c[b] + 1
        BY <2>4, <2>7, <3>7
      <4>2. Bound(A \o <<x>>, B \o <<x>>, c[b] + 1)
        <5> HIDE DEF x, y
        <5> QED BY <3>5, <3>6, BoundLast
      <4>3. I = A \o <<x>> /\ J = B \o <<x>>
        BY <3>2, <3>3, <3>7
      <4>4. c[b] + 1 \in Nat
        BY <3>5
      <4> HIDE DEF x, y
      <4> QED BY <3>7, <4>1, <4>2, <4>3, <4>4
    <3>8. CASE x # y
      <4>1. c[p] = Max({c[n], c[w]})
        BY <2>4, <2>7, <3>8
      <4>2. c[p] \in Nat /\ c[n] <= c[p] /\ c[w] <= c[p]
        BY <3>5, <4>1, MaxOfTwo
      <4>3. I = A \o <<x>> /\ J = B \o <<y>>
        BY <3>2, <3>3
      <4>4. Bound(A, B \o <<y>>, c[n]) /\ Bound(A \o <<x>>, B, c[w])
        BY <3>5, <4>3
      <4>5. Bound(A \o <<x>>, B \o <<y>>, c[p])
        <5> HIDE DEF x, y
        <5> QED BY <3>5, <3>6, <3>8, <4>2, <4>4, BoundEither
      <4> QED BY <4>2, <4>3, <4>5
    <3> QED BY <3>7, <3>8
  <2> QED BY <2>6, <2>7
<1>2. Grid(s, t) \subseteq G
  <2> HIDE DEF G
  <2> QED BY <1>1, GridInduct
<1> QED BY <1>2

\* The hunks of w are what a and b differ by: the rest, c tokens, is common.
Aligned(T, a, b, w, c) ==
  /\ w \in WalksOver(T)
  /\ \E k \in Seq(T) : Split(a, k, Olds(w.hunks)) /\ Split(b, k, News(w.hunks)) /\ Len(k) = c
  /\ w.hunks = <<>> => a = b

LEMMA AlignedStart ==
  ASSUME NEW T
  PROVE  Aligned(T, <<>>, <<>>, [hunks |-> <<>>, open |-> FALSE], 0)
<1> DEFINE w == [hunks |-> <<>>, open |-> FALSE]
           e == <<>>
<1>1. w \in WalksOver(T) /\ w.hunks = e /\ e \in Seq(T) /\ Len(e) = 0
  BY DEF WalksOver
<1>2. OldOf(e) = e /\ NewOf(e) = e
  BY DEF OldOf, NewOf
<1>3. Olds(e) = e /\ News(e) = e
  BY <1>2, JoinNothing DEF Olds, News
<1>4. Split(e, e, e)
  BY SplitNothing
<1> HIDE DEF w, e
<1>5. Aligned(T, e, e, w, 0)
  BY <1>1, <1>3, <1>4, Zenon DEF Aligned
<1> QED BY <1>5 DEF w, e

\* A sequence and one more item, kept or dropped.
LEMMA SplitLast ==
  ASSUME NEW T, NEW s \in Seq(T), NEW x \in T, NEW k \in Seq(T), NEW d \in Seq(T), Split(s, k, d)
  PROVE  Split(s \o <<x>>, k \o <<x>>, d) /\ Split(s \o <<x>>, k, d \o <<x>>)
<1> DEFINE u == <<x>>
           e == <<>>
<1>1. u \in Seq(T) /\ k \o e = k /\ d \o e = d
  OBVIOUS
<1>2. Split(u, u, e) /\ Split(u, e, u)
  BY SplitOne
<1> HIDE DEF u, e
<1>3. \A l, f : Split(u, l, f) => Split(s \o u, k \o l, d \o f)
  BY <1>1, SplitConcat
<1>4. Split(s \o u, k \o u, d \o e) /\ Split(s \o u, k \o e, d \o u)
  BY <1>2, <1>3
<1> QED BY <1>1, <1>4 DEF u

LEMMA AlignedBoth ==
  ASSUME NEW T, NEW a \in Seq(T), NEW b \in Seq(T), NEW w, NEW c \in Nat, NEW x \in T,
         Aligned(T, a, b, w, c)
  PROVE  Aligned(T, a \o <<x>>, b \o <<x>>, [hunks |-> w.hunks, open |-> FALSE], c + 1)
<1>1. PICK k \in Seq(T) : Split(a, k, Olds(w.hunks)) /\ Split(b, k, News(w.hunks)) /\ Len(k) = c
  BY Zenon DEF Aligned
<1> DEFINE v == [hunks |-> w.hunks, open |-> FALSE]
           l == k \o <<x>>
<1>2. v \in WalksOver(T) /\ v.hunks = w.hunks
  BY DEF WalksOver, Aligned
<1>3. Olds(w.hunks) \in Seq(T) /\ News(w.hunks) \in Seq(T)
  BY <1>1, SplitType
<1>4. Split(a \o <<x>>, l, Olds(w.hunks)) /\ Split(b \o <<x>>, l, News(w.hunks))
  BY <1>1, <1>3, SplitLast
<1>5. l \in Seq(T) /\ Len(l) = c + 1
  BY <1>1
<1>6. w.hunks = <<>> => a \o <<x>> = b \o <<x>>
  BY Zenon DEF Aligned
<1> HIDE DEF v, l
<1>7. Aligned(T, a \o <<x>>, b \o <<x>>, v, c + 1)
  BY <1>2, <1>4, <1>5, <1>6, Zenon DEF Aligned
<1> QED BY <1>7 DEF v

LEMMA AlignedOld ==
  ASSUME NEW T, NEW a \in Seq(T), NEW b \in Seq(T), NEW w, NEW c, NEW x \in T,
         Aligned(T, a, b, w, c)
  PROVE  Aligned(T, a \o <<x>>, b, Differ(w, <<x>>, <<>>), c)
<1>1. PICK k \in Seq(T) : Split(a, k, Olds(w.hunks)) /\ Split(b, k, News(w.hunks)) /\ Len(k) = c
  BY Zenon DEF Aligned
<1> DEFINE u == <<x>>
           e == <<>>
           v == Differ(w, u, e)
<1>2. Olds(w.hunks) \in Seq(T) /\ News(w.hunks) \in Seq(T)
  BY <1>1, SplitType
<1>3. w \in WalksOver(T) /\ u \in Seq(T) /\ e \in Seq(T)
  BY DEF Aligned
<1>4. Split(a \o u, k, Olds(w.hunks) \o u)
  BY <1>1, <1>2, SplitLast
<1>5. News(w.hunks) \o e = News(w.hunks)
  BY <1>2
<1> HIDE DEF u, e
<1>6. v \in WalksOver(T) /\ v.hunks # <<>> /\ Olds(v.hunks) = Olds(w.hunks) \o u /\ News(v.hunks) = News(w.hunks) \o e
  <2>1. \A o, n \in Seq(T) : /\ Differ(w, o, n) \in WalksOver(T) /\ Differ(w, o, n).hunks # <<>>
                            /\ Olds(Differ(w, o, n).hunks) = Olds(w.hunks) \o o
                            /\ News(Differ(w, o, n).hunks) = News(w.hunks) \o n
    <3>1. w \in WalksOver(T)
      BY <1>3
    <3>2. \A o, n \in Seq(T) : Adds(T, w, o, n)
      BY <3>1, DifferAdds
    <3> QED BY <3>2, Zenon DEF Adds
  <2> QED BY <1>3, <2>1
<1> HIDE DEF v
<1>7. Aligned(T, a \o u, b, v, c)
  BY <1>1, <1>4, <1>5, <1>6, Zenon DEF Aligned
<1> QED BY <1>7 DEF v, u, e

LEMMA AlignedNew ==
  ASSUME NEW T, NEW a \in Seq(T), NEW b \in Seq(T), NEW w, NEW c, NEW x \in T,
         Aligned(T, a, b, w, c)
  PROVE  Aligned(T, a, b \o <<x>>, Differ(w, <<>>, <<x>>), c)
<1>1. PICK k \in Seq(T) : Split(a, k, Olds(w.hunks)) /\ Split(b, k, News(w.hunks)) /\ Len(k) = c
  BY Zenon DEF Aligned
<1> DEFINE u == <<x>>
           e == <<>>
           v == Differ(w, e, u)
<1>2. Olds(w.hunks) \in Seq(T) /\ News(w.hunks) \in Seq(T)
  BY <1>1, SplitType
<1>3. w \in WalksOver(T) /\ u \in Seq(T) /\ e \in Seq(T)
  BY DEF Aligned
<1>4. Split(b \o u, k, News(w.hunks) \o u)
  BY <1>1, <1>2, SplitLast
<1>5. Olds(w.hunks) \o e = Olds(w.hunks)
  BY <1>2
<1> HIDE DEF u, e
<1>6. v \in WalksOver(T) /\ v.hunks # <<>> /\ Olds(v.hunks) = Olds(w.hunks) \o e /\ News(v.hunks) = News(w.hunks) \o u
  <2>1. \A o, n \in Seq(T) : /\ Differ(w, o, n) \in WalksOver(T) /\ Differ(w, o, n).hunks # <<>>
                            /\ Olds(Differ(w, o, n).hunks) = Olds(w.hunks) \o o
                            /\ News(Differ(w, o, n).hunks) = News(w.hunks) \o n
    <3>1. w \in WalksOver(T)
      BY <1>3
    <3>2. \A o, n \in Seq(T) : Adds(T, w, o, n)
      BY <3>1, DifferAdds
    <3> QED BY <3>2, Zenon DEF Adds
  <2> QED BY <1>3, <2>1
<1> HIDE DEF v
<1>7. Aligned(T, a, b \o u, v, c)
  BY <1>1, <1>4, <1>5, <1>6, Zenon DEF Aligned
<1> QED BY <1>7 DEF v, u, e

AlignedAt(T, s, t, p) == Aligned(T, Until(s, p[1]), Until(t, p[2]), Walk(s, t)[p], Common(s, t)[p])

\* The hunks of the way back to a place are what the beginnings up to it differ by.
LEMMA WalkAligns ==
  ASSUME NEW T, NEW s \in Seq(T), NEW t \in Seq(T)
  PROVE  \A p \in Grid(s, t) : AlignedAt(T, s, t, p)
<1> DEFINE c == Common(s, t)
           f == Walk(s, t)
           G == {p \in Grid(s, t) : AlignedAt(T, s, t, p)}
<1>1. ASSUME NEW p \in Grid(s, t), \A q \in Grid(s, t) : q[1] + q[2] < p[1] + p[2] => q \in G
      PROVE  p \in G
  <2> DEFINE i == p[1]
             j == p[2]
             n == <<i - 1, j>>
             w == <<i, j - 1>>
             b == <<i - 1, j - 1>>
             I == Until(s, i)
             J == Until(t, j)
             A == Until(s, i - 1)
             B == Until(t, j - 1)
             x == s[i]
             y == t[j]
  <2>1. /\ i \in 0..Len(s) /\ j \in 0..Len(t)
        /\ i # 0 => n \in Grid(s, t) /\ i \in 1..Len(s)
        /\ j # 0 => w \in Grid(s, t) /\ j \in 1..Len(t)
        /\ i # 0 /\ j # 0 => b \in Grid(s, t)
    BY GridSays
  <2>2. n[1] = i - 1 /\ n[2] = j /\ w[1] = i /\ w[2] = j - 1 /\ b[1] = i - 1 /\ b[2] = j - 1
    OBVIOUS
  <2>3. c[p] = IF i = 0 \/ j = 0 THEN 0
               ELSE IF x = y THEN c[b] + 1
               ELSE Max({c[n], c[w]})
    <3>1. c[p] = Entry(s, t, c, p)
      BY CommonIs
    <3> QED BY <3>1 DEF Entry
  <2>4. \/ i = 0 /\ j = 0 /\ f[p] = [hunks |-> <<>>, open |-> FALSE]
        \/ i # 0 /\ j # 0 /\ x = y /\ f[p] = [hunks |-> f[b].hunks, open |-> FALSE]
        \/ /\ i # 0 /\ (j # 0 => x # y) /\ (j = 0 \/ c[n] >= c[w])
           /\ f[p] = Differ(f[n], <<x>>, <<>>)
        \/ /\ j # 0 /\ (i # 0 => x # y) /\ (i = 0 \/ ~(c[n] >= c[w]))
           /\ f[p] = Differ(f[w], <<>>, <<y>>)
    <3>1. f[p] = Turn(s, t, c, f, p)
      BY WalkIs
    <3>2. TurnWays(s, t, c, f, p)
      BY TurnIs
    <3> QED BY <3>1, <3>2, Zenon DEF TurnWays
  <2>5. i # 0 => x \in T /\ A \in Seq(T) /\ I = A \o <<x>>
    BY <2>1, UntilAlso
  <2>6. j # 0 => y \in T /\ B \in Seq(T) /\ J = B \o <<y>>
    BY <2>1, UntilAlso
  <2>7. I \in Seq(T) /\ J \in Seq(T)
    BY <2>1, UntilSays
  <2>8. (i = 0 => I = <<>>) /\ (j = 0 => J = <<>>)
    BY UntilSays
  <2>9. /\ i # 0 => Aligned(T, A, J, f[n], c[n]) /\ c[n] \in Nat
        /\ j # 0 => Aligned(T, I, B, f[w], c[w]) /\ c[w] \in Nat
        /\ i # 0 /\ j # 0 => Aligned(T, A, B, f[b], c[b]) /\ c[b] \in Nat
    <3>1. (i # 0 => n[1] + n[2] < i + j) /\ (j # 0 => w[1] + w[2] < i + j)
          /\ (i # 0 /\ j # 0 => b[1] + b[2] < i + j)
      <4>1. i \in Nat /\ j \in Nat
        BY <2>1
      <4> HIDE DEF i, j, n, w, b
      <4> QED BY <2>2, <4>1
    <3>2. \A q \in Grid(s, t) : q[1] + q[2] < i + j => AlignedAt(T, s, t, q)
      BY <1>1
    <3>3. \A q \in Grid(s, t) : c[q] \in Nat
      BY TableBounds DEF Bounded
    <3>4. /\ i # 0 => AlignedAt(T, s, t, n) /\ c[n] \in Nat
          /\ j # 0 => AlignedAt(T, s, t, w) /\ c[w] \in Nat
          /\ i # 0 /\ j # 0 => AlignedAt(T, s, t, b) /\ c[b] \in Nat
      <4> HIDE DEF i, j, n, w, b, c
      <4> QED BY <2>1, <3>1, <3>2, <3>3
    <3>5. /\ AlignedAt(T, s, t, n) <=> Aligned(T, A, J, f[n], c[n])
          /\ AlignedAt(T, s, t, w) <=> Aligned(T, I, B, f[w], c[w])
          /\ AlignedAt(T, s, t, b) <=> Aligned(T, A, B, f[b], c[b])
      BY <2>2, Zenon DEF AlignedAt
    <3> QED BY <3>4, <3>5, Zenon
  <2> SUFFICES Aligned(T, I, J, f[p], c[p])
    BY DEF AlignedAt
  <2> HIDE DEF i, j, n, w, b, c, f, x, y, A, B, I, J
  <2>10. CASE i = 0 /\ j = 0 /\ f[p] = [hunks |-> <<>>, open |-> FALSE]
    <3>1. c[p] = 0
      BY <2>3, <2>10
    <3>2. Aligned(T, <<>>, <<>>, f[p], 0)
      BY <2>10, AlignedStart, Zenon
    <3> QED BY <2>8, <2>10, <3>1, <3>2, Zenon
  <2>11. CASE i # 0 /\ j # 0 /\ x = y /\ f[p] = [hunks |-> f[b].hunks, open |-> FALSE]
    <3>1. c[p] = c[b] + 1
      BY <2>3, <2>11
    <3>2. A \in Seq(T) /\ B \in Seq(T) /\ c[b] \in Nat /\ x \in T /\ Aligned(T, A, B, f[b], c[b])
      BY <2>5, <2>6, <2>9, <2>11, Zenon
    <3>3. Aligned(T, A \o <<x>>, B \o <<x>>, [hunks |-> f[b].hunks, open |-> FALSE], c[b] + 1)
      BY <3>2, AlignedBoth
    <3> QED BY <2>5, <2>6, <2>11, <3>1, <3>3, Zenon
  <2>12. CASE /\ i # 0 /\ (j # 0 => x # y) /\ (j = 0 \/ c[n] >= c[w])
              /\ f[p] = Differ(f[n], <<x>>, <<>>)
    <3>1. c[p] = c[n]
      <4>1. CASE j = 0
        <5>1. c[n] = 0
          <6>1. n \in Grid(s, t) /\ n[2] = 0
            BY <2>1, <2>2, <2>12, <4>1
          <6>2. c[n] = Entry(s, t, c, n)
            BY <6>1, CommonIs DEF c
          <6> QED BY <6>1, <6>2 DEF Entry
        <5> QED BY <2>3, <4>1, <5>1
      <4>2. CASE j # 0
        <5>1. c[n] \in Nat /\ c[w] \in Nat /\ c[n] >= c[w]
          BY <2>9, <2>12, <4>2
        <5>2. Max({c[n], c[w]}) = c[n]
          BY <5>1, MaxOfTwo
        <5> QED BY <2>3, <2>12, <4>2, <5>2
      <4> QED BY <4>1, <4>2
    <3>2. A \in Seq(T) /\ J \in Seq(T) /\ x \in T /\ Aligned(T, A, J, f[n], c[n])
      BY <2>5, <2>7, <2>9, <2>12, Zenon
    <3>3. Aligned(T, A \o <<x>>, J, Differ(f[n], <<x>>, <<>>), c[n])
      BY <3>2, AlignedOld
    <3> QED BY <2>5, <2>12, <3>1, <3>3, Zenon
  <2>13. CASE /\ j # 0 /\ (i # 0 => x # y) /\ (i = 0 \/ ~(c[n] >= c[w]))
              /\ f[p] = Differ(f[w], <<>>, <<y>>)
    <3>1. c[p] = c[w]
      <4>1. CASE i = 0
        <5>1. c[w] = 0
          <6>1. w \in Grid(s, t) /\ w[1] = 0
            BY <2>1, <2>2, <2>13, <4>1
          <6>2. c[w] = Entry(s, t, c, w)
            BY <6>1, CommonIs DEF c
          <6> QED BY <6>1, <6>2 DEF Entry
        <5> QED BY <2>3, <4>1, <5>1
      <4>2. CASE i # 0
        <5>1. c[n] \in Nat /\ c[w] \in Nat /\ ~(c[n] >= c[w])
          BY <2>9, <2>13, <4>2
        <5>2. Max({c[n], c[w]}) = c[w]
          BY <5>1, MaxOfTwo
        <5> QED BY <2>3, <2>13, <4>2, <5>2
      <4> QED BY <4>1, <4>2
    <3>2. I \in Seq(T) /\ B \in Seq(T) /\ y \in T /\ Aligned(T, I, B, f[w], c[w])
      BY <2>6, <2>7, <2>9, <2>13, Zenon
    <3>3. Aligned(T, I, B \o <<y>>, Differ(f[w], <<>>, <<y>>), c[w])
      BY <3>2, AlignedNew
    <3> QED BY <2>6, <2>13, <3>1, <3>3, Zenon
  <2> QED BY <2>4, <2>10, <2>11, <2>12, <2>13
<1>2. Grid(s, t) \subseteq G
  <2> HIDE DEF G
  <2> QED BY <1>1, GridInduct
<1> QED BY <1>2

-----------------------------------------------------------------------------
(* The common beginning and the common end *)

LEMMA Largest ==
  ASSUME NEW S \in SUBSET Nat, S # {}, NEW top \in Nat, \A x \in S : x <= top
  PROVE  \E m \in S : \A x \in S : x <= m
<1> DEFINE U == {u \in Nat : \A x \in S : x <= u}
<1>1. U # {} /\ U \subseteq Nat
  OBVIOUS
<1>2. PICK u \in U : \A v \in U : u <= v
  <2> HIDE DEF U
  <2> QED BY <1>1, Least
<1>3. u \in S
  <2> SUFFICES ASSUME u \notin S PROVE FALSE
    OBVIOUS
  <2>1. \A x \in S : x < u
    OBVIOUS
  <2>2. u # 0
    <3>1. PICK x \in S : x < u
      BY <2>1
    <3>2. x \in Nat
      OBVIOUS
    <3> QED BY <3>1, <3>2
  <2>3. u - 1 \in U
    BY <2>1, <2>2
  <2> QED BY <1>2, <2>3
<1> QED BY <1>3

\* The first n items of s are those of t.
Alike(s, t, n) == n \in Nat /\ n <= Len(s) /\ n <= Len(t) /\ SubSeq(s, 1, n) = SubSeq(t, 1, n)

LEMMA PrefixesAre ==
  ASSUME NEW T, NEW s \in Seq(T), NEW t \in Seq(T), NEW x
  PROVE  x \in CommonPrefixes({s, t}) <=> \E n \in Nat : Alike(s, t, n) /\ x = SubSeq(s, 1, n)
<1>1. \A n \in Nat, u \in Seq(T) : n <= Len(u) =>
        Len(SubSeq(u, 1, n)) = n /\ SubSeq(SubSeq(u, 1, n), 1, n) = SubSeq(u, 1, n)
  <2> TAKE n \in Nat, u \in Seq(T)
  <2> HAVE n <= Len(u)
  <2> DEFINE v == SubSeq(u, 1, n)
  <2>1. v \in Seq(T) /\ Len(v) = n
    OBVIOUS
  <2>2. SubSeq(v, 1, n) = v
    <3> HIDE DEF v
    <3> QED BY <2>1
  <2> QED BY <2>1, <2>2
<1>2. x \in CommonPrefixes({s, t}) <=>
        /\ (\E n \in 0..Len(s) : x = SubSeq(s, 1, n)) \/ (\E n \in 0..Len(t) : x = SubSeq(t, 1, n))
        /\ IsPrefix(x, s) /\ IsPrefix(x, t)
  BY DEF CommonPrefixes, Prefixes
<1>3. ASSUME NEW n \in Nat, Alike(s, t, n), x = SubSeq(s, 1, n) PROVE x \in CommonPrefixes({s, t})
  <2>1. n <= Len(s) /\ n <= Len(t) /\ SubSeq(s, 1, n) = SubSeq(t, 1, n) /\ n \in 0..Len(s)
    BY <1>3 DEF Alike
  <2>2. Len(x) = n /\ SubSeq(x, 1, n) = x
    BY <1>1, <1>3, <2>1
  <2>3. IsPrefix(x, s) /\ IsPrefix(x, t)
    BY <1>3, <2>1, <2>2 DEF IsPrefix
  <2> QED BY <1>2, <1>3, <2>1, <2>3
<1>4. ASSUME x \in CommonPrefixes({s, t}) PROVE \E n \in Nat : Alike(s, t, n) /\ x = SubSeq(s, 1, n)
  <2>1. PICK n \in Nat, u \in {s, t} : n <= Len(u) /\ x = SubSeq(u, 1, n)
    BY <1>2, <1>4
  <2>2. Len(x) = n /\ SubSeq(x, 1, n) = x
    BY <1>1, <2>1
  <2>3. n <= Len(s) /\ SubSeq(x, 1, n) = SubSeq(s, 1, n) /\ n <= Len(t) /\ SubSeq(x, 1, n) = SubSeq(t, 1, n)
    BY <1>2, <1>4, <2>2 DEF IsPrefix
  <2> QED BY <2>2, <2>3 DEF Alike
<1> QED BY <1>3, <1>4

\* What the common beginning is: no longer one is.
LEMMA PrefixSays ==
  ASSUME NEW T, NEW s \in Seq(T), NEW t \in Seq(T)
  PROVE  /\ Alike(s, t, CommonPrefix(s, t))
         /\ \A n : Alike(s, t, n) => n <= CommonPrefix(s, t)
<1> DEFINE C == CommonPrefixes({s, t})
           N == {n \in Nat : Alike(s, t, n)}
<1>1. 0 \in N
  BY DEF Alike
<1>2. PICK m \in N : \A n \in N : n <= m
  <2>1. N \in SUBSET Nat /\ N # {} /\ Len(s) \in Nat /\ \A n \in N : n <= Len(s)
    BY <1>1 DEF Alike
  <2> HIDE DEF N
  <2> QED BY <2>1, Largest
<1>3. \A n \in N : n \in Nat /\ Len(SubSeq(s, 1, n)) = n
  BY DEF Alike
<1>4. \A x : x \in C <=> \E n \in N : x = SubSeq(s, 1, n)
  BY PrefixesAre
<1> DEFINE L == LongestCommonPrefix({s, t})
<1>5. L \in C /\ \A x \in C : Len(x) <= Len(L)
  <2>1. L = CHOOSE l \in C : \A x \in C : Len(x) <= Len(l)
    BY DEF LongestCommonPrefix
  <2>2. SubSeq(s, 1, m) \in C /\ \A x \in C : Len(x) <= Len(SubSeq(s, 1, m))
    <3> HIDE DEF C, N
    <3> QED BY <1>2, <1>3, <1>4, ZenonT(30)
  <2> HIDE DEF C, L
  <2> QED BY <2>1, <2>2
<1>6. PICK k \in N : L = SubSeq(s, 1, k)
  <2> HIDE DEF C, N, L
  <2> QED BY <1>4, <1>5
<1>7. CommonPrefix(s, t) = k
  <2>1. Len(L) = k
    <3> HIDE DEF N, L
    <3> QED BY <1>3, <1>6
  <2> QED BY <2>1 DEF CommonPrefix
<1>8. \A n \in N : n <= k
  <2> HIDE DEF C, N, L
  <2> QED BY <1>3, <1>4, <1>5, <1>6
<1> QED BY <1>7, <1>8 DEF Alike

LEMMA PrefixBoth == \A s, t : CommonPrefix(s, t) = CommonPrefix(t, s)
<1>1. \A s, t : {s, t} = {t, s}
  OBVIOUS
<1> QED BY <1>1, Zenon DEF CommonPrefix

Behind(s, n) == SubSeq(s, n + 1, Len(s))

LEMMA SuffixIs == \A s, t :
  CommonSuffix(s, t) = CommonPrefix(Reverse(Behind(s, CommonPrefix(s, t))), Reverse(Behind(t, CommonPrefix(s, t))))
BY Zenon DEF CommonSuffix, Behind

LEMMA SuffixBoth == \A s, t : CommonSuffix(s, t) = CommonSuffix(t, s)
BY SuffixIs, PrefixBoth, Zenon

\* The common end of what is behind the common beginning.
LEMMA SuffixSays ==
  ASSUME NEW T, NEW s \in Seq(T), NEW t \in Seq(T)
  PROVE  LET n == CommonPrefix(s, t)
             m == CommonSuffix(s, t)
         IN /\ n \in Nat /\ m \in Nat /\ n + m <= Len(s) /\ n + m <= Len(t)
            /\ SubSeq(s, 1, n) = SubSeq(t, 1, n)
            /\ \A i \in 0..(m - 1) : s[Len(s) - i] = t[Len(t) - i]
<1> DEFINE n == CommonPrefix(s, t)
           m == CommonSuffix(s, t)
           a == Behind(s, n)
           b == Behind(t, n)
           x == Reverse(a)
           y == Reverse(b)
<1>1. n \in Nat /\ n <= Len(s) /\ n <= Len(t) /\ SubSeq(s, 1, n) = SubSeq(t, 1, n)
  BY PrefixSays DEF Alike
<1>2. m = CommonPrefix(x, y)
  BY SuffixIs, Zenon
<1> HIDE DEF n, m
<1>3. \A u \in Seq(T) : n <= Len(u) =>
        /\ Reverse(Behind(u, n)) \in Seq(T)
        /\ Len(Reverse(Behind(u, n))) = Len(u) - n
        /\ \A i \in 1..(Len(u) - n) : Reverse(Behind(u, n))[i] = u[Len(u) - i + 1]
  <2> TAKE u \in Seq(T)
  <2> HAVE n <= Len(u)
  <2> DEFINE v == Behind(u, n)
             w == Reverse(v)
  <2>1. /\ v \in Seq(T) /\ Len(v) = Len(u) - n
        /\ \A i \in 1..(Len(u) - n) : v[i] = u[n + i]
    BY <1>1 DEF Behind
  <2> HIDE DEF v
  <2>2. /\ w \in Seq(T) /\ Len(w) = Len(v)
        /\ \A i \in 1..Len(v) : w[i] = v[Len(v) - i + 1]
    BY <2>1 DEF Reverse
  <2> HIDE DEF w
  <2>3. ASSUME NEW i \in 1..(Len(u) - n) PROVE w[i] = u[Len(u) - i + 1]
    <3>1. w[i] = v[Len(v) - i + 1]
      BY <2>1, <2>2
    <3>2. Len(v) - i + 1 \in 1..(Len(u) - n) /\ n + (Len(v) - i + 1) = Len(u) - i + 1
      BY <1>1, <2>1
    <3> QED BY <2>1, <3>1, <3>2
  <2> QED BY <2>1, <2>2, <2>3 DEF v, w
<1>4. /\ x \in Seq(T) /\ Len(x) = Len(s) - n /\ \A i \in 1..(Len(s) - n) : x[i] = s[Len(s) - i + 1]
      /\ y \in Seq(T) /\ Len(y) = Len(t) - n /\ \A i \in 1..(Len(t) - n) : y[i] = t[Len(t) - i + 1]
  BY <1>1, <1>3
<1> HIDE DEF x, y
<1>5. m \in Nat /\ m <= Len(x) /\ m <= Len(y) /\ SubSeq(x, 1, m) = SubSeq(y, 1, m)
  BY <1>2, <1>4, PrefixSays DEF Alike
<1>6. ASSUME NEW i \in 0..(m - 1) PROVE s[Len(s) - i] = t[Len(t) - i]
  <2>1. i + 1 \in 1..m /\ i + 1 \in 1..(Len(s) - n) /\ i + 1 \in 1..(Len(t) - n)
        /\ Len(s) - (i + 1) + 1 = Len(s) - i /\ Len(t) - (i + 1) + 1 = Len(t) - i
    BY <1>1, <1>4, <1>5
  <2>2. x[i + 1] = SubSeq(x, 1, m)[i + 1] /\ y[i + 1] = SubSeq(y, 1, m)[i + 1]
    BY <1>4, <1>5, <2>1
  <2> QED BY <1>4, <1>5, <2>1, <2>2
<1> QED BY <1>1, <1>4, <1>5, <1>6 DEF n, m

\* s and t are a and b between two sequences they share.
Between2(T, s, t, a, b) ==
  /\ a \in Seq(T) /\ b \in Seq(T)
  /\ \E p, q \in Seq(T) : s = (p \o a) \o q /\ t = (p \o b) \o q

\* The first n items of s, its last m, and what is between them.
InThree(T, s, n, m) ==
  /\ SubSeq(s, n + 1, Len(s) - m) \in Seq(T) /\ SubSeq(s, 1, n) \in Seq(T)
  /\ SubSeq(s, Len(s) - m + 1, Len(s)) \in Seq(T)
  /\ s = (SubSeq(s, 1, n) \o SubSeq(s, n + 1, Len(s) - m)) \o SubSeq(s, Len(s) - m + 1, Len(s))

LEMMA CutInThree ==
  ASSUME NEW T, NEW s \in Seq(T), NEW n \in Nat, NEW m \in Nat, n + m <= Len(s)
  PROVE  InThree(T, s, n, m)
<1> DEFINE p == SubSeq(s, 1, n)
           a == SubSeq(s, n + 1, Len(s) - m)
           q == SubSeq(s, Len(s) - m + 1, Len(s))
           l == Len(s)
<1>0. l \in Nat
  OBVIOUS
<1>1. /\ p \in Seq(T) /\ Len(p) = n /\ \A i \in 1..n : p[i] = s[i]
      /\ a \in Seq(T) /\ Len(a) = l - m - n /\ \A i \in 1..(l - m - n) : a[i] = s[n + i]
      /\ q \in Seq(T) /\ Len(q) = m /\ \A i \in 1..m : q[i] = s[l - m + i]
  <2>1. p \in Seq(T) /\ Len(p) = n /\ \A i \in 1..n : p[i] = s[i]
    BY SMTT(30)
  <2>2. a \in Seq(T) /\ Len(a) = l - m - n /\ \A i \in 1..(l - m - n) : a[i] = s[n + i]
    <3> DEFINE e == l - m
    <3>1. e \in Int /\ n + 1 \in Int /\ \A i \in (n + 1)..e : s[i] \in T
      BY <1>0
    <3>2. /\ e - (n + 1) + 1 = l - m - n /\ (IF n + 1 <= e THEN e - (n + 1) + 1 ELSE 0) = l - m - n
          /\ \A i \in 1..(l - m - n) : n + 1 + i - 1 = n + i
      BY <1>0
    <3>3. /\ a \in Seq(T) /\ Len(a) = IF n + 1 <= e THEN e - (n + 1) + 1 ELSE 0
          /\ \A i \in 1..(e - (n + 1) + 1) : a[i] = s[n + 1 + i - 1]
      <4> DEFINE b == n + 1
      <4>1. e \in Int /\ b \in Int /\ \A i \in b..e : s[i] \in T
        BY <3>1
      <4> HIDE DEF e, b
      <4>2. /\ SubSeq(s, b, e) \in Seq(T) /\ Len(SubSeq(s, b, e)) = IF b <= e THEN e - b + 1 ELSE 0
            /\ \A i \in 1..(e - b + 1) : SubSeq(s, b, e)[i] = s[b + i - 1]
        BY <4>1, SubSeqProperties
      <4> QED BY <4>2, Zenon DEF e, b
    <3> HIDE DEF e, a, l
    <3> QED BY <3>2, <3>3
  <2>3. q \in Seq(T) /\ Len(q) = m /\ \A i \in 1..m : q[i] = s[l - m + i]
    BY SMTT(30)
  <2> QED BY <2>1, <2>2, <2>3
<1>2. l \in Nat /\ \A i \in 1..l : i \in Nat
  OBVIOUS
<1> HIDE DEF p, a, q
<1> DEFINE c == p \o a
           z == c \o q
<1>3. /\ c \in Seq(T) /\ Len(c) = l - m /\ \A i \in 1..(l - m) : c[i] = IF i <= n THEN p[i] ELSE a[i - n]
  <2>1. c \in Seq(T) /\ Len(c) = Len(p) + Len(a)
        /\ \A i \in 1..(Len(p) + Len(a)) : c[i] = IF i <= Len(p) THEN p[i] ELSE a[i - Len(p)]
    <3>1. p \in Seq(T) /\ a \in Seq(T)
      BY <1>1
    <3> QED BY <3>1
  <2>2. Len(p) = n /\ n + Len(a) = l - m
    BY <1>0, <1>1
  <2> HIDE DEF c, l
  <2> QED BY <2>1, <2>2
<1> HIDE DEF c
<1>4. /\ z \in Seq(T) /\ Len(z) = l /\ \A i \in 1..l : z[i] = IF i <= l - m THEN c[i] ELSE q[i - (l - m)]
  <2>1. z \in Seq(T) /\ Len(z) = Len(c) + Len(q)
        /\ \A i \in 1..(Len(c) + Len(q)) : z[i] = IF i <= Len(c) THEN c[i] ELSE q[i - Len(c)]
    <3>1. c \in Seq(T) /\ q \in Seq(T)
      BY <1>1, <1>3
    <3> QED BY <3>1
  <2>2. Len(c) = l - m /\ Len(q) = m /\ (l - m) + m = l
    BY <1>0, <1>1, <1>3
  <2> HIDE DEF z, l
  <2> QED BY <2>1, <2>2
<1> HIDE DEF z
<1>5. ASSUME NEW i \in 1..l PROVE z[i] = s[i]
  <2> HIDE DEF l
  <2>1. CASE i <= n
    <3>1. i \in 1..(l - m) /\ i <= l - m /\ i \in 1..n
      BY <1>2, <2>1 DEF l
    <3> QED BY <1>1, <1>3, <1>4, <2>1, <3>1
  <2>2. CASE i > n /\ i <= l - m
    <3>1. i \in 1..(l - m) /\ i - n \in 1..(l - m - n) /\ n + (i - n) = i /\ ~(i <= n)
      BY <1>2, <2>2
    <3> QED BY <1>1, <1>3, <1>4, <2>2, <3>1
  <2>3. CASE i > l - m
    <3>1. i - (l - m) \in 1..m /\ l - m + (i - (l - m)) = i /\ ~(i <= l - m)
      BY <1>2, <2>3
    <3> QED BY <1>1, <1>4, <3>1
  <2> QED BY <1>2, <2>1, <2>2, <2>3
<1>6. z = s
  BY <1>4, <1>5, SeqEqual
<1>7. p \in Seq(T) /\ a \in Seq(T) /\ q \in Seq(T) /\ s = (p \o a) \o q
  BY <1>1, <1>6 DEF z, c
<1> QED BY <1>7, Zenon DEF InThree, p, a, q

LEMMA MiddleBetween ==
  ASSUME NEW T, NEW s \in Seq(T), NEW t \in Seq(T)
  PROVE  Between2(T, s, t, Middle(s, t), Middle(t, s))
<1> DEFINE n == CommonPrefix(s, t)
           m == CommonSuffix(s, t)
<1>1. /\ n \in Nat /\ m \in Nat /\ n + m <= Len(s) /\ n + m <= Len(t)
      /\ SubSeq(s, 1, n) = SubSeq(t, 1, n)
      /\ \A i \in 0..(m - 1) : s[Len(s) - i] = t[Len(t) - i]
  BY SuffixSays
<1>2. Middle(s, t) = SubSeq(s, n + 1, Len(s) - m) /\ Middle(t, s) = SubSeq(t, n + 1, Len(t) - m)
  BY PrefixBoth, SuffixBoth, Zenon DEF Middle
<1> HIDE DEF n, m
<1>3. SubSeq(s, Len(s) - m + 1, Len(s)) = SubSeq(t, Len(t) - m + 1, Len(t))
  <2> DEFINE u == SubSeq(s, Len(s) - m + 1, Len(s))
             v == SubSeq(t, Len(t) - m + 1, Len(t))
  <2>1. /\ u \in Seq(T) /\ Len(u) = m /\ \A i \in 1..m : u[i] = s[Len(s) - m + i]
        /\ v \in Seq(T) /\ Len(v) = m /\ \A i \in 1..m : v[i] = t[Len(t) - m + i]
    BY <1>1
  <2> HIDE DEF u, v
  <2>2. ASSUME NEW i \in 1..m PROVE u[i] = v[i]
    <3>1. m - i \in 0..(m - 1) /\ Len(s) - (m - i) = Len(s) - m + i /\ Len(t) - (m - i) = Len(t) - m + i
      BY <1>1
    <3> QED BY <1>1, <2>1, <3>1
  <2>3. u = v
    BY <2>1, <2>2, SeqEqual
  <2> QED BY <2>3 DEF u, v
<1> DEFINE p == SubSeq(s, 1, n)
           q == SubSeq(s, Len(s) - m + 1, Len(s))
           a == SubSeq(s, n + 1, Len(s) - m)
           b == SubSeq(t, n + 1, Len(t) - m)
<1>4. p \in Seq(T) /\ a \in Seq(T) /\ q \in Seq(T) /\ s = (p \o a) \o q
  <2>1. InThree(T, s, n, m)
    BY <1>1, CutInThree
  <2> QED BY <2>1, Zenon DEF InThree
<1>5. b \in Seq(T) /\ t = (SubSeq(t, 1, n) \o b) \o SubSeq(t, Len(t) - m + 1, Len(t))
  <2>1. InThree(T, t, n, m)
    BY <1>1, CutInThree
  <2> QED BY <2>1, Zenon DEF InThree
<1>6. t = (p \o b) \o q
  BY <1>1, <1>3, <1>5
<1> HIDE DEF p, q, a, b
<1>7. Between2(T, s, t, a, b)
  BY <1>4, <1>5, <1>6, Zenon DEF Between2
<1> QED BY <1>2, <1>7 DEF a, b

\* Between a text and itself there is nothing.
LEMMA MiddleOfSame ==
  ASSUME NEW T, NEW s \in Seq(T)
  PROVE  Middle(s, s) = <<>>
<1> DEFINE n == CommonPrefix(s, s)
           m == CommonSuffix(s, s)
<1>1. n \in Nat /\ m \in Nat /\ n + m <= Len(s) /\ Len(s) \in Nat
  BY SuffixSays
<1>2. Len(s) <= n
  <2>1. Alike(s, s, Len(s))
    BY DEF Alike
  <2> QED BY <2>1, PrefixSays
<1> HIDE DEF n, m
<1>3. SubSeq(s, n + 1, Len(s) - m) = <<>>
  BY <1>1, <1>2
<1> QED BY <1>3, Zenon DEF Middle, n, m

-----------------------------------------------------------------------------
(* The hunks of two texts *)

\* What two texts share on both sides is kept.
LEMMA SplitBetween ==
  ASSUME NEW T, NEW p \in Seq(T), NEW q \in Seq(T), NEW a \in Seq(T), NEW k, NEW d, Split(a, k, d)
  PROVE  Split((p \o a) \o q, (p \o k) \o q, d)
<1> DEFINE e == <<>>
<1>1. e \in Seq(T) /\ k \in Seq(T) /\ d \in Seq(T) /\ p \o a \in Seq(T)
  BY SplitType
<1>2. e \o d = d /\ d \o e = d
  BY <1>1
<1>3. Split(p, p, e) /\ Split(q, q, e)
  BY SplitWhole
<1> HIDE DEF e
<1>4. Split(p \o a, p \o k, e \o d)
  BY <1>1, <1>3, SplitConcat
<1>5. Split(p \o a, p \o k, d)
  BY <1>2, <1>4, Zenon
<1> DEFINE x == p \o a
           y == p \o k
<1>6. Split(x \o q, y \o q, d \o e)
  <2>1. x \in Seq(T) /\ Split(x, y, d)
    BY <1>1, <1>5
  <2> HIDE DEF x, y
  <2> QED BY <1>3, <2>1, SplitConcat
<1> QED BY <1>2, <1>6, Zenon

\* The hunks are what s and t differ by, and what is kept is as long as can be.
Apart(T, s, t, h) ==
  /\ h \in Seq(HunksOver(T))
  /\ \E k \in Seq(T) : Split(s, k, Olds(h)) /\ Split(t, k, News(h)) /\ Bound(s, t, Len(k))
  /\ h = <<>> => s = t

LEMMA WalkEnds ==
  ASSUME NEW T, NEW a \in Seq(T), NEW b \in Seq(T)
  PROVE  Apart(T, a, b, Walk(a, b)[<<Len(a), Len(b)>>].hunks)
<1> DEFINE p == <<Len(a), Len(b)>>
           w == Walk(a, b)[p]
           c == Common(a, b)[p]
<1>1. p \in Grid(a, b) /\ p[1] = Len(a) /\ p[2] = Len(b)
  BY DEF Grid
<1>2. AlignedAt(T, a, b, p)
  BY <1>1, WalkAligns
<1>3. Bounded(a, b, Common(a, b), p)
  BY <1>1, TableBounds
<1>4. Until(a, p[1]) = a /\ Until(b, p[2]) = b
  BY <1>1, UntilSays
<1>5. Aligned(T, a, b, w, c)
  BY <1>2, <1>4, Zenon DEF AlignedAt
<1>6. Bound(a, b, c)
  BY <1>3, <1>4, Zenon DEF Bounded
<1> HIDE DEF p, w, c
<1>7. w.hunks \in Seq(HunksOver(T))
  BY <1>5 DEF Aligned, WalksOver
<1>8. Apart(T, a, b, w.hunks)
  BY <1>5, <1>6, <1>7, Zenon DEF Apart, Aligned
<1> QED BY <1>8 DEF w, p

LEMMA HunksApart ==
  ASSUME NEW T, NEW s \in Seq(T), NEW t \in Seq(T)
  PROVE  Apart(T, s, t, Hunks(s, t))
<1> DEFINE a == Middle(s, t)
           b == Middle(t, s)
           h == Walk(a, b)[<<Len(a), Len(b)>>].hunks
<1>1. Hunks(s, t) = h
  BY Zenon DEF Hunks
<1>2. Between2(T, s, t, a, b)
  BY MiddleBetween
<1> HIDE DEF a, b
<1>3. a \in Seq(T) /\ b \in Seq(T)
  BY <1>2 DEF Between2
<1>4. PICK p \in Seq(T), q \in Seq(T) : s = (p \o a) \o q /\ t = (p \o b) \o q
  BY <1>2 DEF Between2
<1>5. Apart(T, a, b, h)
  BY <1>3, WalkEnds
<1> HIDE DEF h
<1>6. PICK k \in Seq(T) : Split(a, k, Olds(h)) /\ Split(b, k, News(h)) /\ Bound(a, b, Len(k))
  BY <1>5, Zenon DEF Apart
<1> DEFINE l == (p \o k) \o q
<1>7. Split(s, l, Olds(h)) /\ Split(t, l, News(h))
  <2>1. Split((p \o a) \o q, l, Olds(h))
    BY <1>3, <1>4, <1>6, SplitBetween
  <2>2. Split((p \o b) \o q, l, News(h))
    BY <1>3, <1>4, <1>6, SplitBetween
  <2> QED BY <1>4, <2>1, <2>2, Zenon
<1>8. l \in Seq(T) /\ p \o a \in Seq(T) /\ p \o b \in Seq(T)
  BY <1>3, <1>4, <1>6
<1>9. Len(l) = Len(k) + Len(p) + Len(q) /\ Len(k) \in Nat /\ Len(p) \in Nat
  BY <1>4, <1>6
<1>10. Bound(s, t, Len(l))
  <2> HIDE DEF l
  <2>1. Bound(p \o a, p \o b, Len(k) + Len(p))
    BY <1>3, <1>4, <1>6, <1>9, BoundBefore
  <2> DEFINE x == p \o a
             y == p \o b
             n == Len(k) + Len(p)
  <2>2. x \in Seq(T) /\ y \in Seq(T) /\ n \in Nat /\ q \in Seq(T) /\ Bound(x, y, n)
    BY <1>4, <1>8, <1>9, <2>1
  <2>3. s = x \o q /\ t = y \o q /\ Len(l) = n + Len(q)
    BY <1>4, <1>9
  <2> HIDE DEF x, y, n
  <2>4. Bound(x \o q, y \o q, n + Len(q))
    BY <2>2, BoundAfter
  <2> QED BY <2>3, <2>4, Zenon
<1>11. h = <<>> => s = t
  BY <1>4, <1>5, Zenon DEF Apart
<1>12. h \in Seq(HunksOver(T))
  BY <1>5, Zenon DEF Apart
<1> HIDE DEF l
<1>13. Apart(T, s, t, h)
  BY <1>7, <1>8, <1>10, <1>11, <1>12, Zenon DEF Apart
<1> QED BY <1>1, <1>13, Zenon

LEMMA NoHunks ==
  ASSUME NEW T, NEW s \in Seq(T)
  PROVE  Hunks(s, s) = <<>>
<1> DEFINE e == <<>>
           p == <<0, 0>>
           g == Walk(e, e)
<1>1. Middle(s, s) = e
  BY MiddleOfSame
<1>2. e \in Seq(T) /\ Len(e) = 0
  OBVIOUS
<1>3. p \in Grid(e, e) /\ p[1] = 0 /\ p[2] = 0
  BY DEF Grid
<1>4. g[p] = Turn(e, e, Common(e, e), g, p)
  <2> HIDE DEF e
  <2> QED BY <1>2, <1>3, WalkIs
<1> HIDE DEF e, p, g
<1>5. g[p] = [hunks |-> <<>>, open |-> FALSE]
  BY <1>3, <1>4, Zenon DEF Turn
<1>6. g[p].hunks = <<>>
  BY <1>5
<1>7. Hunks(s, s) = g[p].hunks
  BY <1>1, <1>2, Zenon DEF Hunks, g, p
<1> QED BY <1>6, <1>7

LEMMA HunksSay ==
  ASSUME NEW T, NEW s \in Seq(T), NEW t \in Seq(T)
  PROVE  (Hunks(s, t) = <<>> <=> s = t) /\ Explains(Hunks(s, t), s, t)
<1> DEFINE h == Hunks(s, t)
<1>1. Apart(T, s, t, h)
  BY HunksApart
<1>2. s = t => h = <<>>
  BY NoHunks
<1> HIDE DEF h
<1>3. h = <<>> => s = t
  BY <1>1, Zenon DEF Apart
<1>4. PICK k \in Seq(T) : Split(s, k, Olds(h)) /\ Split(t, k, News(h)) /\ Bound(s, t, Len(k))
  BY <1>1, Zenon DEF Apart
<1>5. PICK I \in Some(s) : Olds(h) = Without(s, I) /\ k = Without(s, Others(s, I))
  BY <1>4, Zenon DEF Split
<1>6. PICK J \in Some(t) : News(h) = Without(t, J) /\ k = Without(t, Others(t, J))
  BY <1>4, Zenon DEF Split
<1>7. DOMAIN s = 1..Len(s) /\ DOMAIN t = 1..Len(t)
  OBVIOUS
<1>8. /\ SUBSET DOMAIN s = Some(s) /\ DOMAIN s \ I = Others(s, I)
      /\ SUBSET DOMAIN t = Some(t) /\ DOMAIN t \ J = Others(t, J)
  BY <1>7, Zenon DEF Some, Others
<1>9. /\ FlattenSeq([i \in DOMAIN h |-> h[i].old]) = Without(s, I)
      /\ FlattenSeq([i \in DOMAIN h |-> h[i].new]) = Without(t, J)
  BY <1>5, <1>6, Zenon DEF Olds, News, OldOf, NewOf
<1>10. \A K \in Some(s), L \in Some(t) :
         Without(s, K) = Without(t, L) => Len(Without(s, K)) <= Len(k)
  BY <1>4, Zenon DEF Bound, Sub
<1>11. Explains(h, s, t)
  BY <1>5, <1>6, <1>8, <1>9, <1>10, Zenon DEF Explains
<1> QED BY <1>2, <1>3, <1>11 DEF h

-----------------------------------------------------------------------------
(* What is left of a sequence without some items *)

LEMMA WithoutLast ==
  ASSUME NEW T, NEW s \in Seq(T), NEW x \in T, NEW I
  PROVE  Without(Append(s, x), I)
           = IF Len(s) + 1 \in I THEN Without(s, I) ELSE Append(Without(s, I), x)
<1> DEFINE t == Append(s, x)
           e == IF Len(s) + 1 \in I THEN <<>> ELSE <<x>>
           p == Pieces(s, I)
           q == Pieces(t, I)
           w == Without(s, I)
<1>1. /\ t \in Seq(T) /\ Len(t) = Len(s) + 1 /\ t[Len(s) + 1] = x
      /\ \A i \in 1..Len(s) : t[i] = s[i]
      /\ e \in Seq(T) /\ Len(s) \in Nat
  OBVIOUS
<1>2. w = FlattenSeq(p) /\ w \in Seq(T)
  BY WithoutType
<1>3. p \in Seq(Seq(T)) /\ Len(p) = Len(s) /\ \A i \in 1..Len(s) : p[i] = IF i \in I THEN <<>> ELSE <<s[i]>>
  BY PiecesType
<1> HIDE DEF t, p
<1>4. Without(t, I) = FlattenSeq(q)
  BY <1>1, WithoutType
<1>5. q \in Seq(Seq(T)) /\ Len(q) = Len(t) /\ \A i \in 1..Len(t) : q[i] = IF i \in I THEN <<>> ELSE <<t[i]>>
  BY <1>1, PiecesType
<1> HIDE DEF q
<1>6. q = Append(p, e)
  <2>1. q[Len(s) + 1] = e
    BY <1>1, <1>5
  <2>2. \A i \in 1..Len(s) : q[i] = p[i]
    <3> TAKE i \in 1..Len(s)
    <3>1. i \in 1..Len(t) /\ t[i] = s[i]
      BY <1>1
    <3> QED BY <1>3, <1>5, <3>1, Zenon
  <2> HIDE DEF e
  <2> QED BY <1>1, <1>3, <1>5, <2>1, <2>2
<1> HIDE DEF w
<1>7. FlattenSeq(q) = w \o e
  <2> HIDE DEF e
  <2> QED BY <1>1, <1>2, <1>3, <1>6, JoinStep
<1>8. w \o <<>> = w /\ w \o <<x>> = Append(w, x)
  BY <1>2
<1> QED BY <1>4, <1>7, <1>8 DEF t, w

LEMMA SetOfAppend ==
  ASSUME NEW T, NEW s \in Seq(T), NEW x \in T
  PROVE  ToSet(Append(s, x)) = ToSet(s) \cup {x}
<1> DEFINE t == Append(s, x)
<1>1. /\ DOMAIN s = 1..Len(s) /\ DOMAIN t = (1..Len(s)) \cup {Len(s) + 1}
      /\ \A i \in 1..Len(s) : t[i] = s[i]
      /\ t[Len(s) + 1] = x
  OBVIOUS
<1> HIDE DEF t
<1>2. \A e : e \in ToSet(t) <=> e \in ToSet(s) \/ e = x
  BY <1>1, ZenonT(30) DEF ToSet
<1>3. ToSet(t) = ToSet(s) \cup {x}
  BY <1>2, Zenon
<1> QED BY <1>3 DEF t

\* What is left are the items at the other places.
LEMMA WithoutHas ==
  ASSUME NEW T, NEW s \in Seq(T), NEW I
  PROVE  ToSet(Without(s, I)) = {s[i] : i \in (1..Len(s)) \ I}
<1> DEFINE Says(v) == ToSet(Without(v, I)) = {v[i] : i \in (1..Len(v)) \ I}
           E == {n \in Nat : \A v \in Seq(T) : Len(v) = n => Says(v)}
<1>1. 0 \in E
  <2> SUFFICES ASSUME NEW v \in Seq(T), Len(v) = 0 PROVE Says(v)
    OBVIOUS
  <2>1. v = <<>> /\ 1..Len(v) = {}
    OBVIOUS
  <2>2. ToSet(<<>>) = {}
    BY DEF ToSet
  <2> QED BY <2>1, <2>2, WithoutNothing
<1>2. ASSUME NEW n \in Nat, n \in E PROVE n + 1 \in E
  <2> SUFFICES ASSUME NEW v \in Seq(T), Len(v) = n + 1 PROVE Says(v)
    OBVIOUS
  <2>1. PICK w \in Seq(T), e \in T : v = Append(w, e)
    <3>1. v # <<>>
      OBVIOUS
    <3> QED BY <3>1, SequenceEmptyOrAppend, Zenon
  <2>2. /\ Len(w) = n /\ v[n + 1] = e
        /\ 1..(n + 1) = (1..n) \cup {n + 1} /\ n + 1 \notin 1..n
        /\ \A i \in 1..n : v[i] = w[i]
    BY <2>1
  <2> DEFINE a == Without(w, I)
             b == Without(v, I)
  <2>3. ToSet(a) = {w[i] : i \in (1..n) \ I}
    BY <1>2, <2>2
  <2>4. a \in Seq(T) /\ b = IF n + 1 \in I THEN a ELSE Append(a, e)
    BY <2>1, <2>2, WithoutLast, WithoutType
  <2> HIDE DEF a, b
  <2>5. ToSet(Append(a, e)) = ToSet(a) \cup {e}
    BY <2>1, <2>4, SetOfAppend
  <2>6. ToSet(b) = {v[i] : i \in (1..(n + 1)) \ I}
    <3> DEFINE W == {v[i] : i \in (1..n) \ I}
    <3>1. ToSet(a) = W
      BY <2>2, <2>3
    <3>2. CASE n + 1 \in I
      <4>1. (1..(n + 1)) \ I = (1..n) \ I
        BY <2>2, <3>2
      <4> QED BY <2>4, <3>1, <3>2, <4>1
    <3>3. CASE n + 1 \notin I
      <4>1. (1..(n + 1)) \ I = ((1..n) \ I) \cup {n + 1}
        BY <2>2, <3>3
      <4>2. {v[i] : i \in (1..(n + 1)) \ I} = W \cup {e}
        BY <2>2, <4>1, Zenon
      <4> HIDE DEF W
      <4> QED BY <2>4, <2>5, <3>1, <3>3, <4>2
    <3> QED BY <3>2, <3>3
  <2> QED BY <2>2, <2>6 DEF b
<1>3. Nat \subseteq E
  <2> HIDE DEF E
  <2> QED BY <1>1, <1>2, Induct
<1>4. Len(s) \in E
  BY <1>3
<1> QED BY <1>4

LEMMA WithoutNone ==
  ASSUME NEW T, NEW s \in Seq(T)
  PROVE  Without(s, {}) = s
<1> DEFINE E == {n \in Nat : \A v \in Seq(T) : Len(v) = n => Without(v, {}) = v}
<1>1. 0 \in E
  <2>1. \A v \in Seq(T) : Len(v) = 0 => v = <<>>
    OBVIOUS
  <2> QED BY <2>1, WithoutNothing
<1>2. ASSUME NEW n \in Nat, n \in E PROVE n + 1 \in E
  <2> SUFFICES ASSUME NEW v \in Seq(T), Len(v) = n + 1 PROVE Without(v, {}) = v
    OBVIOUS
  <2>1. PICK w \in Seq(T), e \in T : v = Append(w, e)
    <3>1. v # <<>>
      OBVIOUS
    <3> QED BY <3>1, SequenceEmptyOrAppend, Zenon
  <2>2. Len(w) = n
    BY <2>1
  <2>3. Without(w, {}) = w
    BY <1>2, <2>2
  <2>4. Without(Append(w, e), {}) = Append(Without(w, {}), e)
    BY WithoutLast
  <2> QED BY <2>1, <2>3, <2>4
<1>3. Nat \subseteq E
  <2> HIDE DEF E
  <2> QED BY <1>1, <1>2, Induct
<1>4. Len(s) \in E
  BY <1>3
<1> QED BY <1>4

LEMMA WithoutPlaces ==
  ASSUME NEW T, NEW s \in Seq(T), NEW I, NEW J, \A i \in 1..Len(s) : i \in I <=> i \in J
  PROVE  Without(s, I) = Without(s, J)
<1>1. DOMAIN s = 1..Len(s)
  OBVIOUS
<1>2. Pieces(s, I) = Pieces(s, J)
  BY <1>1 DEF Pieces
<1>3. Without(s, I) = FlattenSeq(Pieces(s, I)) /\ Without(s, J) = FlattenSeq(Pieces(s, J))
  BY WithoutType
<1> QED BY <1>2, <1>3, Zenon

LEMMA DropLast ==
  ASSUME NEW T, NEW s \in Seq(T), NEW x \in T, NEW P
  PROVE  Drop(Append(s, x), P) = IF x \in P THEN Drop(s, P) ELSE Append(Drop(s, P), x)
<1> DEFINE t == Append(s, x)
           I == {i \in DOMAIN s : s[i] \in P}
           J == {i \in DOMAIN t : t[i] \in P}
<1>1. /\ t[Len(s) + 1] = x /\ Len(s) + 1 \in DOMAIN t
      /\ \A i \in 1..Len(s) : t[i] = s[i] /\ i \in DOMAIN t /\ i \in DOMAIN s
  OBVIOUS
<1>2. (Len(s) + 1 \in J <=> x \in P) /\ \A i \in 1..Len(s) : i \in J <=> i \in I
  BY <1>1
<1> HIDE DEF I, J
<1>3. Without(t, J) = IF Len(s) + 1 \in J THEN Without(s, J) ELSE Append(Without(s, J), x)
  BY WithoutLast
<1>4. Without(s, J) = Without(s, I)
  BY <1>2, WithoutPlaces
<1>5. Drop(t, P) = Without(t, J) /\ Drop(s, P) = Without(s, I)
  BY Zenon DEF Drop, I, J
<1> QED BY <1>2, <1>3, <1>4, <1>5

LEMMA DropNothing == \A P : Drop(<<>>, P) = <<>>
BY WithoutNothing, Zenon DEF Drop

\* Taking some of them out before makes no difference.
LEMMA DropAfter ==
  ASSUME NEW T, NEW s \in Seq(T), NEW P, NEW I, \A i \in 1..Len(s) : i \in I => s[i] \in P
  PROVE  Drop(Without(s, I), P) = Drop(s, P)
<1> DEFINE Fits(v) == \A i \in 1..Len(v) : i \in I => v[i] \in P
           E == {n \in Nat : \A v \in Seq(T) : Len(v) = n /\ Fits(v) => Drop(Without(v, I), P) = Drop(v, P)}
<1>1. 0 \in E
  <2>1. \A v \in Seq(T) : Len(v) = 0 => v = <<>>
    OBVIOUS
  <2> QED BY <2>1, WithoutNothing
<1>2. ASSUME NEW n \in Nat, n \in E PROVE n + 1 \in E
  <2> SUFFICES ASSUME NEW v \in Seq(T), Len(v) = n + 1, Fits(v) PROVE Drop(Without(v, I), P) = Drop(v, P)
    OBVIOUS
  <2>1. PICK w \in Seq(T), e \in T : v = Append(w, e)
    <3>1. v # <<>>
      OBVIOUS
    <3> QED BY <3>1, SequenceEmptyOrAppend, Zenon
  <2>2. Len(w) = n /\ v[n + 1] = e /\ n + 1 \in 1..(n + 1) /\ \A i \in 1..n : v[i] = w[i] /\ i \in 1..(n + 1)
    BY <2>1
  <2>3. Fits(w) /\ (n + 1 \in I => e \in P)
    BY <2>2
  <2> DEFINE a == Without(w, I)
             b == Without(v, I)
  <2>4. Drop(a, P) = Drop(w, P)
    BY <1>2, <2>2, <2>3
  <2>5. a \in Seq(T) /\ b = IF n + 1 \in I THEN a ELSE Append(a, e)
    BY <2>1, <2>2, WithoutLast, WithoutType
  <2>6. Drop(v, P) = IF e \in P THEN Drop(w, P) ELSE Append(Drop(w, P), e)
    BY <2>1, DropLast
  <2> HIDE DEF a, b, Fits, E
  <2>7. Drop(Append(a, e), P) = IF e \in P THEN Drop(a, P) ELSE Append(Drop(a, P), e)
    BY <2>1, <2>5, DropLast
  <2>8. Drop(b, P) = Drop(v, P)
    <3>1. CASE n + 1 \in I
      BY <2>3, <2>4, <2>5, <2>6, <3>1, Zenon
    <3>2. CASE n + 1 \notin I
      BY <2>4, <2>5, <2>6, <2>7, <3>2
    <3> QED BY <3>1, <3>2
  <2> QED BY <2>8 DEF b
<1>3. Nat \subseteq E
  <2> HIDE DEF E
  <2> QED BY <1>1, <1>2, Induct
<1>4. Len(s) \in E
  BY <1>3
<1> QED BY <1>4

-----------------------------------------------------------------------------
(* Step after step *)

LEMMA FlatType ==
  ASSUME NEW T, NEW s \in Seq(Seq(T))
  PROVE  FlattenSeq(s) \in Seq(T)
<1>1. <<>> \in Seq(T)
  OBVIOUS
<1> QED BY <1>1, JoinStep

\* Step after step, each from the value before.
StepRule(n, a, step, f) == f = [m \in 0..n |-> IF m = 0 THEN a ELSE step[m][f[m - 1]]]

LEMMA StepsHave ==
  ASSUME NEW n \in Nat, NEW V, NEW a \in V, NEW step \in [1..n -> [V -> V]]
  PROVE  \E f \in [0..n -> V] : StepRule(n, a, step, f)
<1> DEFINE D == 0..n
           Rule == [f \in [D -> V] |-> [m \in D |-> IF m = 0 THEN a ELSE step[m][f[m - 1]]]]
           rank == [m \in D |-> m]
           top == n + 1
<1>1. \A m \in D : m \in Nat /\ m < top /\ (m # 0 => m - 1 \in D /\ m - 1 < m /\ m \in 1..n)
  OBVIOUS
<1> HIDE DEF D
<1>2. \A f \in [D -> V] : \A m \in D : m # 0 => step[m] \in [V -> V] /\ f[m - 1] \in V
  BY <1>1
<1>3. \A f \in [D -> V] : [m \in D |-> IF m = 0 THEN a ELSE step[m][f[m - 1]]] \in [D -> V]
  BY <1>2
<1>4. Rule \in [[D -> V] -> [D -> V]] /\ rank \in [D -> Nat] /\ top \in Nat
  BY <1>1, <1>3
<1>5. \A f \in [D -> V], m \in D : Rule[f][m] = IF m = 0 THEN a ELSE step[m][f[m - 1]]
  OBVIOUS
<1>6. \A m \in D : rank[m] = m
  OBVIOUS
<1>7. Grounded(D, V, Rule, rank, top)
  <2> HIDE DEF Rule, rank, top
  <2>1. ASSUME NEW f \in [D -> V], NEW g \in [D -> V], NEW m \in D,
               \A q \in D : rank[q] < rank[m] => f[q] = g[q]
        PROVE  Rule[f][m] = Rule[g][m]
    <3>1. m # 0 => f[m - 1] = g[m - 1]
      BY <1>1, <1>6, <2>1
    <3> QED BY <1>5, <3>1
  <2>2. \A m \in D : rank[m] < top
    BY <1>1, <1>6
  <2> QED BY <1>4, <2>1, <2>2 DEF Grounded
<1>8. PICK f \in [D -> V] : f = Rule[f]
  <2>1. V # {}
    OBVIOUS
  <2> HIDE DEF Rule, rank, top
  <2> QED BY <1>7, <2>1, RecursionHas
<1>9. f = [m \in D |-> IF m = 0 THEN a ELSE step[m][f[m - 1]]]
  BY <1>8
<1> QED BY <1>9, Zenon DEF StepRule, D

-----------------------------------------------------------------------------
(* What is left of sequences that are joined *)

LEMMA DropType ==
  ASSUME NEW T, NEW s \in Seq(T), NEW P
  PROVE  Drop(s, P) \in Seq(T)
BY WithoutType, Zenon DEF Drop

LEMMA DropConcat ==
  ASSUME NEW T, NEW s \in Seq(T), NEW u \in Seq(T), NEW P
  PROVE  Drop(s \o u, P) = Drop(s, P) \o Drop(u, P)
<1> DEFINE Holds(v) == Drop(s \o v, P) = Drop(s, P) \o Drop(v, P)
           E == {n \in Nat : \A v \in Seq(T) : Len(v) = n => Holds(v)}
<1>1. 0 \in E
  <2> SUFFICES ASSUME NEW v \in Seq(T), Len(v) = 0 PROVE Holds(v)
    OBVIOUS
  <2>1. v = <<>> /\ s \o v = s
    OBVIOUS
  <2>2. Drop(s, P) \in Seq(T)
    BY DropType
  <2>3. Drop(s, P) \o <<>> = Drop(s, P)
    BY <2>2
  <2> QED BY <2>1, <2>3, DropNothing, Zenon
<1>2. ASSUME NEW n \in Nat, n \in E PROVE n + 1 \in E
  <2> SUFFICES ASSUME NEW v \in Seq(T), Len(v) = n + 1 PROVE Holds(v)
    OBVIOUS
  <2>1. PICK w \in Seq(T), e \in T : v = Append(w, e)
    <3>1. v # <<>>
      OBVIOUS
    <3> QED BY <3>1, SequenceEmptyOrAppend, Zenon
  <2> DEFINE sw == s \o w
             a == Drop(s, P)
             b == Drop(w, P)
             c == Drop(v, P)
             d == Drop(sw, P)
  <2>2. Len(w) = n /\ s \o v = Append(sw, e) /\ sw \in Seq(T)
    BY <2>1
  <2>3. d = a \o b
    BY <1>2, <2>2
  <2>4. c = IF e \in P THEN b ELSE Append(b, e)
    BY <2>1, DropLast
  <2>5. a \in Seq(T) /\ b \in Seq(T)
    BY DropType
  <2> HIDE DEF a, b, c, d, sw
  <2>6. Drop(Append(sw, e), P) = IF e \in P THEN d ELSE Append(d, e)
    BY <2>2, DropLast DEF d
  <2>7. a \o Append(b, e) = Append(a \o b, e)
    BY <2>1, <2>5
  <2>8. Drop(Append(sw, e), P) = a \o c
    BY <2>3, <2>4, <2>6, <2>7, Zenon
  <2> QED BY <2>2, <2>8 DEF a, c
<1>3. Nat \subseteq E
  <2> HIDE DEF E
  <2> QED BY <1>1, <1>2, Induct
<1>4. Len(u) \in E
  BY <1>3
<1> QED BY <1>4

\* DropConcat for every two sequences over T, as one fact.
DropJoins(T, P) == \A y \in Seq(T) : \A z \in Seq(T) : Drop(y \o z, P) = Drop(y, P) \o Drop(z, P)

LEMMA DropJoinsAll ==
  ASSUME NEW T, NEW P
  PROVE  DropJoins(T, P)
<1> SUFFICES ASSUME NEW y \in Seq(T), NEW z \in Seq(T)
             PROVE  Drop(y \o z, P) = Drop(y, P) \o Drop(z, P)
  BY Zenon DEF DropJoins
<1> QED BY DropConcat

\* What is left of more, from what is left of less.
LEMMA DropMore ==
  ASSUME NEW T, NEW s \in Seq(T), NEW u \in Seq(T), NEW P, NEW Q, P \subseteq Q, Drop(s, P) = Drop(u, P)
  PROVE  Drop(s, Q) = Drop(u, Q)
<1>1. ASSUME NEW v \in Seq(T) PROVE Drop(Drop(v, P), Q) = Drop(v, Q)
  <2> DEFINE I == {i \in DOMAIN v : v[i] \in P}
  <2>1. \A i \in 1..Len(v) : i \in I => v[i] \in Q
    OBVIOUS
  <2>2. Drop(v, P) = Without(v, I)
    BY Zenon DEF Drop
  <2> HIDE DEF I
  <2> QED BY <2>1, <2>2, DropAfter
<1> QED BY <1>1

LEMMA DropHas ==
  ASSUME NEW T, NEW s \in Seq(T), NEW P, NEW x, x \notin P
  PROVE  x \in ToSet(Drop(s, P)) <=> x \in ToSet(s)
<1> DEFINE I == {i \in DOMAIN s : s[i] \in P}
<1>1. ToSet(Without(s, I)) = {s[i] : i \in (1..Len(s)) \ I}
  BY WithoutHas
<1>2. Drop(s, P) = Without(s, I)
  BY Zenon DEF Drop
<1>3. DOMAIN s = 1..Len(s)
  OBVIOUS
<1>4. x \in {s[i] : i \in (1..Len(s)) \ I} <=> \E i \in 1..Len(s) : x = s[i]
  BY <1>3
<1> HIDE DEF I
<1>5. x \in ToSet(s) <=> \E i \in 1..Len(s) : x = s[i]
  BY <1>3, Zenon DEF ToSet
<1> QED BY <1>1, <1>2, <1>4, <1>5, Zenon

\* Item by item, each of x joined and each of y as it is.
LEMMA DropJoinJoin ==
  ASSUME NEW T, NEW x \in Seq(Seq(Seq(T))), NEW y \in Seq(Seq(T)), Len(x) = Len(y), NEW P,
         \A i \in 1..Len(x) : Drop(FlattenSeq(x[i]), P) = Drop(y[i], P)
  PROVE  Drop(FlattenSeq(FlattenSeq(x)), P) = Drop(FlattenSeq(y), P)
<1> DEFINE Fits(v, w) == \A i \in 1..Len(v) : Drop(FlattenSeq(v[i]), P) = Drop(w[i], P)
           Says(v, w) == Drop(FlattenSeq(FlattenSeq(v)), P) = Drop(FlattenSeq(w), P)
           X == Seq(Seq(Seq(T)))
           Y == Seq(Seq(T))
           E == {n \in Nat : \A v \in X, w \in Y : Len(v) = n /\ Len(w) = n /\ Fits(v, w) => Says(v, w)}
<1>1. 0 \in E
  <2> DEFINE S == Seq(Seq(T))
             U == Seq(T)
  <2>1. \A v \in X : Len(v) = 0 => v = <<>>
    <3>1. X = Seq(S)
      OBVIOUS
    <3> HIDE DEF S, X
    <3> QED BY <3>1
  <2>2. \A w \in Y : Len(w) = 0 => w = <<>>
    <3>1. Y = Seq(U)
      OBVIOUS
    <3> HIDE DEF U, Y
    <3> QED BY <3>1
  <2>3. Says(<<>>, <<>>)
    BY JoinNothing
  <2> HIDE DEF X, Y, Says
  <2> QED BY <2>1, <2>2, <2>3
<1>2. ASSUME NEW n \in Nat, n \in E PROVE n + 1 \in E
  <2> SUFFICES ASSUME NEW v \in X, NEW w \in Y, Len(v) = n + 1, Len(w) = n + 1, Fits(v, w) PROVE Says(v, w)
    <3> HIDE DEF X, Y, Fits, Says
    <3> QED OBVIOUS
  <2>1. PICK a \in X, e \in Seq(Seq(T)) : v = Append(a, e)
    <3>1. v # <<>>
      OBVIOUS
    <3> QED BY <3>1, SequenceEmptyOrAppend, Zenon
  <2>2. PICK b \in Y, f \in Seq(T) : w = Append(b, f)
    <3>1. w # <<>>
      OBVIOUS
    <3> QED BY <3>1, SequenceEmptyOrAppend, Zenon
  <2>3. /\ Len(a) = n /\ Len(b) = n /\ v[n + 1] = e /\ w[n + 1] = f
        /\ n + 1 \in 1..(n + 1)
        /\ \A i \in 1..n : v[i] = a[i] /\ w[i] = b[i] /\ i \in 1..(n + 1)
    BY <2>1, <2>2
  <2>4. Fits(a, b) /\ Drop(FlattenSeq(e), P) = Drop(f, P)
    <3> HIDE DEF X, Y, E
    <3> QED BY <2>3
  <2>5. Says(a, b)
    BY <1>2, <2>3, <2>4
  <2>6. /\ FlattenSeq(a) \in Seq(Seq(T)) /\ FlattenSeq(v) = FlattenSeq(a) \o e
        /\ FlattenSeq(b) \in Seq(T) /\ FlattenSeq(w) = FlattenSeq(b) \o f
    BY <2>1, <2>2, JoinStep
  <2>7. /\ FlattenSeq(FlattenSeq(a)) \in Seq(T) /\ FlattenSeq(e) \in Seq(T)
        /\ FlattenSeq(FlattenSeq(a) \o e) = FlattenSeq(FlattenSeq(a)) \o FlattenSeq(e)
    BY <2>6, FlatType, JoinConcat
  <2> HIDE DEF X, Y, E, Fits
  <2>8. Drop(FlattenSeq(FlattenSeq(a)) \o FlattenSeq(e), P)
          = Drop(FlattenSeq(FlattenSeq(a)), P) \o Drop(FlattenSeq(e), P)
    <3> DEFINE p == FlattenSeq(FlattenSeq(a))
               q == FlattenSeq(e)
    <3>1. p \in Seq(T) /\ q \in Seq(T)
      BY <2>7
    <3> HIDE DEF p, q
    <3>2. DropJoins(T, P)
      BY DropJoinsAll, Zenon
    <3>3. Drop(p \o q, P) = Drop(p, P) \o Drop(q, P)
      BY <3>1, <3>2, Zenon DEF DropJoins
    <3> QED BY <3>3, Zenon DEF p, q
  <2>9. Drop(FlattenSeq(b) \o f, P) = Drop(FlattenSeq(b), P) \o Drop(f, P)
    <3> DEFINE p == FlattenSeq(b)
    <3>1. p \in Seq(T) /\ f \in Seq(T)
      BY <2>2, <2>6
    <3> HIDE DEF p
    <3>2. DropJoins(T, P)
      BY DropJoinsAll, Zenon
    <3>3. Drop(p \o f, P) = Drop(p, P) \o Drop(f, P)
      BY <3>1, <3>2, Zenon DEF DropJoins
    <3> QED BY <3>3, Zenon DEF p
  <2> QED BY <2>4, <2>5, <2>6, <2>7, <2>8, <2>9, Zenon
<1>3. Nat \subseteq E
  <2> HIDE DEF E
  <2> QED BY <1>1, <1>2, Induct
<1>4. Len(x) \in E
  BY <1>3
<1> QED BY <1>4

\* One sequence, joined.
LEMMA JoinOne ==
  ASSUME NEW T, NEW e \in Seq(T)
  PROVE  <<e>> \in Seq(Seq(T)) /\ FlattenSeq(<<e>>) = e
<1>1. <<>> \in Seq(Seq(T)) /\ <<e>> = Append(<<>>, e) /\ <<e>> \in Seq(Seq(T))
  OBVIOUS
<1>2. FlattenSeq(Append(<<>>, e)) = FlattenSeq(<<>>) \o e
  BY <1>1, JoinStep
<1>3. <<>> \o e = e
  OBVIOUS
<1> QED BY <1>1, <1>2, <1>3, JoinNothing

\* Item by item.
LEMMA DropJoin ==
  ASSUME NEW T, NEW x \in Seq(Seq(T)), NEW y \in Seq(Seq(T)), Len(x) = Len(y), NEW P,
         \A i \in 1..Len(x) : Drop(x[i], P) = Drop(y[i], P)
  PROVE  Drop(FlattenSeq(x), P) = Drop(FlattenSeq(y), P)
<1> DEFINE z == [i \in DOMAIN x |-> <<x[i]>>]
<1>1. DOMAIN x = 1..Len(x) /\ Len(x) \in Nat /\ \A i \in 1..Len(x) : x[i] \in Seq(T)
  OBVIOUS
<1>2. FlattenSeq(z) = x
  BY JoinSingles
<1>3. z \in Seq(Seq(Seq(T))) /\ Len(z) = Len(x) /\ \A i \in 1..Len(x) : z[i] = <<x[i]>>
  BY <1>1
<1> HIDE DEF z
<1>4. \A i \in 1..Len(x) : FlattenSeq(<<x[i]>>) = x[i]
  BY <1>1, JoinOne
<1>5. Len(z) = Len(y) /\ \A i \in 1..Len(z) : Drop(FlattenSeq(z[i]), P) = Drop(y[i], P)
  BY <1>3, <1>4
<1>6. Drop(FlattenSeq(FlattenSeq(z)), P) = Drop(FlattenSeq(y), P)
  <2>1. z \in Seq(Seq(Seq(T))) /\ Len(z) = Len(y)
    BY <1>3, <1>5, Zenon
  <2> QED BY <1>5, <2>1, DropJoinJoin, Zenon
<1> QED BY <1>2, <1>6

-----------------------------------------------------------------------------
(* The normalisations of code leave everything but its blanks and commas *)

\* u is s but for items in P; and but for blanks and commas.
LessBut(P, T, u, s) == u \in Seq(T) /\ Drop(u, P) = Drop(s, P)
Lightly(T, u, s) == LessBut(Light, T, u, s)

LEMMA LessOf ==
  ASSUME NEW T, NEW s \in Seq(T), NEW I, \A i \in 1..Len(s) : i \in I => s[i] \in Light
  PROVE  Lightly(T, Without(s, I), s)
BY WithoutType, DropAfter DEF Lightly, LessBut

LEMMA NormalSays ==
  ASSUME NEW T, NEW s \in Seq(T)
  PROVE  Lightly(T, Normal(s), s)
<1> DEFINE I == {i \in DOMAIN s : s[i] = " " /\ \/ i = 1 \/ s[i - 1] = " "
                                                \/ \A j \in i..Len(s) : s[j] = " "}
<1>1. \A i \in I : s[i] \in Light
  BY Zenon DEF Light
<1>2. Normal(s) = Without(s, I)
  BY Zenon DEF Normal
<1> HIDE DEF I
<1> QED BY <1>1, <1>2, LessOf

LEMMA TightSays ==
  ASSUME NEW T, NEW s \in Seq(T), NEW marks
  PROVE  Lightly(T, Tight(s, marks), s)
<1> DEFINE I == {i \in DOMAIN s : s[i] = " " /\ \E j \in {i - 1, i + 1} \cap DOMAIN s : s[j] \in marks}
<1>1. \A i \in I : s[i] \in Light
  BY Zenon DEF Light
<1>2. Tight(s, marks) = Without(s, I)
  BY Zenon DEF Tight
<1> HIDE DEF I
<1> QED BY <1>1, <1>2, LessOf

LEMMA NoTrailingSays ==
  ASSUME NEW T, NEW s \in Seq(T)
  PROVE  Lightly(T, NoTrailing(s), s)
<1> DEFINE Trails(c, e) == s[c] = "," /\ s[e] \in {"}", "]"} /\ \A b \in (c + 1)..(e - 1) : s[b] = " "
           I == {i \in DOMAIN s : \E c, e \in DOMAIN s : i \in c..(e - 1) /\ Trails(c, e)}
<1>1. NoTrailing(s) = Without(s, I)
  BY Zenon DEF NoTrailing
<1>2. DOMAIN s = 1..Len(s) /\ Len(s) \in Nat
  OBVIOUS
<1>3. ASSUME NEW i \in I PROVE s[i] \in Light
  <2>1. PICK c \in DOMAIN s, e \in DOMAIN s : i \in c..(e - 1) /\ Trails(c, e)
    OBVIOUS
  <2>2. c \in Nat /\ e \in Nat /\ i \in c..(e - 1)
    <3> HIDE DEF Trails, I
    <3> QED BY <1>2, <2>1
  <2>3. i = c \/ i \in (c + 1)..(e - 1)
    <3> HIDE DEF I
    <3> QED BY <2>2
  <2> QED BY <2>1, <2>3, Zenon DEF Light
<1> HIDE DEF I
<1> QED BY <1>1, <1>3, LessOf

LEMMA NoLastSays ==
  ASSUME NEW T, NEW s \in Seq(T)
  PROVE  Lightly(T, NoLast(s, ","), s)
<1>1. CASE NoLast(s, ",") = s
  BY <1>1 DEF Lightly, LessBut
<1>2. CASE NoLast(s, ",") # s
  <2>1. s # <<>> /\ Last(s) = "," /\ NoLast(s, ",") = Front(s)
    BY <1>2, Zenon DEF NoLast
  <2>2. Front(s) \in Seq(T) /\ Last(s) \in T /\ Append(Front(s), Last(s)) = s
    BY <2>1, FrontAndLast
  <2>3. Drop(Append(Front(s), Last(s)), Light)
          = IF Last(s) \in Light THEN Drop(Front(s), Light) ELSE Append(Drop(Front(s), Light), Last(s))
    <3> DEFINE a == Front(s)
               b == Last(s)
    <3>1. a \in Seq(T) /\ b \in T
      BY <2>2
    <3> HIDE DEF a, b
    <3>2. Drop(Append(a, b), Light) = IF b \in Light THEN Drop(a, Light) ELSE Append(Drop(a, Light), b)
      BY <3>1, DropLast
    <3> QED BY <3>2, Zenon DEF a, b
  <2>4. Last(s) \in Light
    BY <2>1, Zenon DEF Light
  <2> QED BY <2>1, <2>2, <2>3, <2>4, Zenon DEF Lightly, LessBut
<1> QED BY <1>1, <1>2

LEMMA DropAround ==
  ASSUME NEW T, NEW e \in T, NEW u \in T, NEW P, e \in P
  PROVE  Drop(<<e, u, e>>, P) = Drop(<<u>>, P)
<1> DEFINE o == <<>>
           a == <<e>>
           b == <<e, u>>
           c == <<u>>
           d == <<e, u, e>>
<1>1. /\ o \in Seq(T) /\ a \in Seq(T) /\ b \in Seq(T)
      /\ a = Append(o, e) /\ b = Append(a, u) /\ c = Append(o, u) /\ d = Append(b, e)
  OBVIOUS
<1> HIDE DEF o, a, b, c, d
<1>2. Drop(Append(o, e), P) = Drop(o, P)
  <2>1. o \in Seq(T) /\ e \in T /\ e \in P
    BY <1>1
  <2>2. Drop(Append(o, e), P) = IF e \in P THEN Drop(o, P) ELSE Append(Drop(o, P), e)
    BY <2>1, DropLast
  <2> QED BY <2>1, <2>2
<1>3. Drop(Append(b, e), P) = Drop(b, P)
  <2>1. b \in Seq(T) /\ e \in T /\ e \in P
    BY <1>1
  <2>2. Drop(Append(b, e), P) = IF e \in P THEN Drop(b, P) ELSE Append(Drop(b, P), e)
    BY <2>1, DropLast
  <2> QED BY <2>1, <2>2
<1>4. Drop(Append(a, u), P) = IF u \in P THEN Drop(a, P) ELSE Append(Drop(a, P), u)
  <2>1. a \in Seq(T) /\ u \in T
    BY <1>1
  <2> QED BY <2>1, DropLast
<1>5. Drop(Append(o, u), P) = IF u \in P THEN Drop(o, P) ELSE Append(Drop(o, P), u)
  <2>1. o \in Seq(T) /\ u \in T
    BY <1>1
  <2> QED BY <2>1, DropLast
<1>6. Drop(d, P) = Drop(c, P)
  BY <1>1, <1>2, <1>3, <1>4, <1>5, Zenon
<1> QED BY <1>6 DEF c, d

\* Marks with e around them, where e is left out.
Widened(s, marks, e) == FlattenSeq([i \in DOMAIN s |-> IF s[i] \in marks THEN <<e, s[i], e>> ELSE <<s[i]>>])

LEMMA SpreadJoins ==
  ASSUME NEW T, NEW s \in Seq(T), NEW marks, NEW P, NEW e \in T, e \in P
  PROVE  LessBut(P, T, Widened(s, marks, e), s)
<1> DEFINE Wide(u) == IF u \in marks THEN <<e, u, e>> ELSE <<u>>
           x == [i \in DOMAIN s |-> IF s[i] \in marks THEN <<e, s[i], e>> ELSE <<s[i]>>]
           y == [i \in DOMAIN s |-> <<s[i]>>]
<1>1. DOMAIN s = 1..Len(s) /\ Len(s) \in Nat /\ \A i \in 1..Len(s) : s[i] \in T
  OBVIOUS
<1>2. FlattenSeq(y) = s
  BY JoinSingles
<1>3. ASSUME NEW u \in T PROVE Wide(u) \in Seq(T) /\ <<u>> \in Seq(T) /\ Drop(Wide(u), P) = Drop(<<u>>, P)
  <2>1. CASE u \notin marks
    BY <2>1
  <2>2. CASE u \in marks
    <3>1. <<e, u, e>> \in Seq(T) /\ <<u>> \in Seq(T)
      OBVIOUS
    <3> QED BY <2>2, <3>1, DropAround
  <2> QED BY <2>1, <2>2
<1>4. \A i \in 1..Len(s) : x[i] = Wide(s[i]) /\ y[i] = <<s[i]>>
  BY <1>1
<1>5. DOMAIN x = 1..Len(s) /\ DOMAIN y = 1..Len(s)
  BY <1>1
<1>6. x = [i \in 1..Len(s) |-> x[i]] /\ y = [i \in 1..Len(s) |-> y[i]]
  BY <1>5
<1> HIDE DEF Wide, x, y
<1>7. x \in Seq(Seq(T)) /\ y \in Seq(Seq(T)) /\ Len(x) = Len(s) /\ Len(y) = Len(s)
  <2>1. \A i \in 1..Len(s) : x[i] \in Seq(T) /\ y[i] \in Seq(T)
    BY <1>1, <1>3, <1>4
  <2> QED BY <1>1, <1>6, <2>1
<1>8. \A i \in 1..Len(x) : Drop(x[i], P) = Drop(y[i], P)
  BY <1>1, <1>3, <1>4, <1>7
<1>9. FlattenSeq(x) \in Seq(T) /\ Drop(FlattenSeq(x), P) = Drop(FlattenSeq(y), P)
  BY <1>7, <1>8, FlatType, DropJoin
<1> QED BY <1>2, <1>9, Zenon DEF x, Widened, LessBut

LEMMA SpreadSays ==
  ASSUME NEW T, " " \in T, NEW s \in Seq(T), NEW marks
  PROVE  Lightly(T, Spread(s, marks), s)
<1>1. ASSUME NEW e \in T, e \in Light PROVE Lightly(T, Normal(Widened(s, marks, e)), s)
  <2>1. LessBut(Light, T, Widened(s, marks, e), s)
    BY <1>1, SpreadJoins
  <2>2. Lightly(T, Normal(Widened(s, marks, e)), Widened(s, marks, e))
    BY <2>1, NormalSays, Zenon DEF LessBut
  <2> QED BY <2>1, <2>2, Zenon DEF Lightly, LessBut
<1>2. " " \in T /\ " " \in Light
  BY DEF Light
<1>3. Spread(s, marks) = Normal(Widened(s, marks, " "))
  BY Zenon DEF Spread, Widened
<1> QED BY <1>1, <1>2, <1>3, Zenon

-----------------------------------------------------------------------------
(* The words of a line, and the tokens that are put together again *)

WordsMore(s, n, v) ==
  IF s[n] = " " THEN v
  ELSE IF v # <<>> /\ s[n - 1] # " " THEN Append(Front(v), Append(Last(v), s[n]))
  ELSE Append(v, <<s[n]>>)
WordsRule(s, f) == f = [n \in 0..Len(s) |-> IF n = 0 THEN <<>> ELSE WordsMore(s, n, f[n - 1])]

\* The order in which sequences over T are joined does not matter.
JoinsAnyhow(T) == \A p \in Seq(T) : \A q \in Seq(T) : \A r \in Seq(T) : p \o (q \o r) = (p \o q) \o r

LEMMA JoinedAnyhow ==
  ASSUME NEW T
  PROVE  JoinsAnyhow(T)
<1> SUFFICES ASSUME NEW p \in Seq(T), NEW q \in Seq(T), NEW r \in Seq(T)
             PROVE  p \o (q \o r) = (p \o q) \o r
  BY Zenon DEF JoinsAnyhow
<1> QED OBVIOUS

\* Something more at the end of the last sequence of v.
LEMMA LastLonger ==
  ASSUME NEW T, NEW v \in Seq(Seq(T)), v # <<>>, NEW e \in Seq(T)
  PROVE  /\ Append(Front(v), Last(v) \o e) \in Seq(Seq(T))
         /\ FlattenSeq(Append(Front(v), Last(v) \o e)) = FlattenSeq(v) \o e
<1> DEFINE a == Front(v)
           b == Last(v)
           c == b \o e
           x == FlattenSeq(a)
<1>1. a \in Seq(Seq(T)) /\ b \in Seq(T) /\ Append(a, b) = v
  BY FrontAndLast
<1> HIDE DEF a, b
<1>2. c \in Seq(T)
  BY <1>1
<1>3. x \in Seq(T) /\ FlattenSeq(Append(a, b)) = x \o b
  BY <1>1, JoinStep
<1>4. FlattenSeq(Append(a, c)) = x \o c
  BY <1>1, <1>2, JoinStep
<1> HIDE DEF x
<1>5. x \o (b \o e) = (x \o b) \o e
  <2>1. x \in Seq(T) /\ b \in Seq(T) /\ e \in Seq(T)
    BY <1>1, <1>3
  <2>2. JoinsAnyhow(T)
    BY JoinedAnyhow, Zenon
  <2> QED BY <2>1, <2>2, Zenon DEF JoinsAnyhow
<1>6. Append(a, c) \in Seq(Seq(T))
  BY <1>1, <1>2
<1>7. FlattenSeq(Append(a, c)) = FlattenSeq(v) \o e
  BY <1>1, <1>3, <1>4, <1>5, Zenon DEF c
<1> QED BY <1>6, <1>7, Zenon DEF a, b, c

LEMMA WordsMoreSays ==
  ASSUME NEW T, NEW s \in Seq(T), NEW n \in 1..Len(s), NEW v \in Seq(Seq(T))
  PROVE  /\ WordsMore(s, n, v) \in Seq(Seq(T))
         /\ FlattenSeq(WordsMore(s, n, v)) = IF s[n] = " " THEN FlattenSeq(v) ELSE Append(FlattenSeq(v), s[n])
<1> DEFINE e == s[n]
           x == FlattenSeq(v)
<1>1. e \in T /\ <<e>> \in Seq(T)
  OBVIOUS
<1>2. x \in Seq(T) /\ FlattenSeq(Append(v, <<e>>)) = x \o <<e>>
  BY <1>1, JoinStep
<1> HIDE DEF x
<1>3. x \o <<e>> = Append(x, e)
  BY <1>1, <1>2
<1>4. CASE e = " "
  BY <1>4, Zenon DEF WordsMore, x
<1>5. CASE e # " " /\ v # <<>> /\ s[n - 1] # " "
  <2>1. Append(Front(v), Last(v) \o <<e>>) \in Seq(Seq(T)) /\ FlattenSeq(Append(Front(v), Last(v) \o <<e>>)) = x \o <<e>>
    BY <1>1, <1>5, LastLonger DEF x
  <2>2. Last(v) \in Seq(T)
    BY <1>5, FrontAndLast
  <2>3. Last(v) \o <<e>> = Append(Last(v), e)
    BY <1>1, <2>2
  <2>4. WordsMore(s, n, v) = Append(Front(v), Append(Last(v), e))
    BY <1>5, Zenon DEF WordsMore
  <2> QED BY <1>3, <1>5, <2>1, <2>3, <2>4, Zenon DEF x
<1>6. CASE e # " " /\ ~(v # <<>> /\ s[n - 1] # " ")
  <2>1. WordsMore(s, n, v) = Append(v, <<e>>)
    BY <1>6, Zenon DEF WordsMore
  <2>2. Append(v, <<e>>) \in Seq(Seq(T))
    BY <1>1
  <2> QED BY <1>2, <1>3, <1>6, <2>1, <2>2, Zenon DEF x
<1> QED BY <1>4, <1>5, <1>6, Zenon

\* A sequence up to a place, and up to the next.
LEMMA UpToNext ==
  ASSUME NEW T, NEW s \in Seq(T)
  PROVE  /\ SubSeq(s, 1, 0) = <<>> /\ SubSeq(s, 1, Len(s)) = s
         /\ \A m \in Nat : m + 1 <= Len(s) => /\ SubSeq(s, 1, m) \in Seq(T)
                                              /\ SubSeq(s, 1, m + 1) = Append(SubSeq(s, 1, m), s[m + 1])
<1>1. SubSeq(s, 1, 0) = <<>>
  OBVIOUS
<1>2. SubSeq(s, 1, Len(s)) = s
  BY SubSeqFull
<1>3. ASSUME NEW m \in Nat, m + 1 <= Len(s)
      PROVE  SubSeq(s, 1, m) \in Seq(T) /\ SubSeq(s, 1, m + 1) = Append(SubSeq(s, 1, m), s[m + 1])
  BY <1>3
<1> QED BY <1>1, <1>2, <1>3

LEMMA WordsSay ==
  ASSUME NEW T, NEW s \in Seq(T)
  PROVE  WordsIn(s) \in Seq(Seq(T)) /\ Drop(FlattenSeq(WordsIn(s)), Light) = Drop(s, Light)
<1> DEFINE n == Len(s)
           V == Seq(Seq(T))
           step == [m \in 1..n |-> [v \in V |-> WordsMore(s, m, v)]]
           f == CHOOSE g : WordsRule(s, g)
<1>1. n \in Nat /\ <<>> \in V
  OBVIOUS
<1>2. \A m \in 1..n, v \in V : WordsMore(s, m, v) \in V
  BY WordsMoreSays
<1>3. \E g : WordsRule(s, g)
  <2>1. step \in [1..n -> [V -> V]]
    <3> HIDE DEF n, V
    <3> QED BY <1>2
  <2>2. PICK g \in [0..n -> V] : StepRule(n, <<>>, step, g)
    <3> HIDE DEF n, V, step
    <3> QED BY <1>1, <2>1, StepsHave
  <2>3. ASSUME NEW m \in 0..n PROVE (IF m = 0 THEN <<>> ELSE step[m][g[m - 1]])
                                    = IF m = 0 THEN <<>> ELSE WordsMore(s, m, g[m - 1])
    <3>1. CASE m # 0
      <4>1. m \in 1..n /\ m - 1 \in 0..n
        BY <1>1, <3>1
      <4>2. g[m - 1] \in V
        BY <4>1
      <4> HIDE DEF V
      <4> QED BY <3>1, <4>1, <4>2
    <3>2. CASE m = 0
      BY <3>2
    <3> QED BY <3>1, <3>2
  <2>4. g = [m \in 0..n |-> IF m = 0 THEN <<>> ELSE WordsMore(s, m, g[m - 1])]
    <3>1. g = [m \in 0..n |-> IF m = 0 THEN <<>> ELSE step[m][g[m - 1]]]
      BY <2>2, Zenon DEF StepRule
    <3> HIDE DEF step, V
    <3> QED BY <2>3, <3>1
  <2> QED BY <2>4, Zenon DEF WordsRule
<1>4. WordsRule(s, f)
  BY <1>3, Zenon
<1>5. WordsIn(s) = f[n]
  BY Zenon DEF WordsIn, WordsRule, WordsMore
<1> HIDE DEF f
<1>6. \A m \in 0..n : f[m] = IF m = 0 THEN <<>> ELSE WordsMore(s, m, f[m - 1])
  BY <1>4, Zenon DEF WordsRule
<1> DEFINE Good(m) == f[m] \in V /\ Drop(FlattenSeq(f[m]), Light) = Drop(SubSeq(s, 1, m), Light)
           E == {m \in Nat : m <= n => Good(m)}
<1>7. 0 \in E
  <2>1. 0 \in 0..n
    BY <1>1
  <2>2. f[0] = <<>>
    BY <1>6, <2>1, Zenon
  <2>3. SubSeq(s, 1, 0) = <<>>
    BY UpToNext
  <2>4. Good(0)
    BY <1>1, <2>2, <2>3, JoinNothing, Zenon
  <2> HIDE DEF V, n, Good
  <2> QED BY <2>4
<1>8. ASSUME NEW m \in Nat, m \in E PROVE m + 1 \in E
  <2> SUFFICES ASSUME m + 1 <= n PROVE Good(m + 1)
    <3> HIDE DEF V, n, Good
    <3> QED OBVIOUS
  <2>1. m + 1 \in 1..n /\ m + 1 \in 0..n /\ m + 1 # 0 /\ (m + 1) - 1 = m /\ m <= n
    BY <1>1
  <2>2. Good(m)
    BY <1>8, <2>1
  <2> DEFINE e == s[m + 1]
             v == f[m]
             x == FlattenSeq(v)
             y == SubSeq(s, 1, m)
  <2>3. f[m + 1] = WordsMore(s, m + 1, v)
    BY <1>6, <2>1
  <2>4. e \in T
    BY <2>1
  <2>5. v \in Seq(Seq(T)) /\ Drop(x, Light) = Drop(y, Light)
    BY <2>2
  <2>6. y \in Seq(T) /\ SubSeq(s, 1, m + 1) = Append(y, e)
    BY UpToNext
  <2> HIDE DEF V, E, Good
  <2>7. /\ f[m + 1] \in Seq(Seq(T))
        /\ FlattenSeq(f[m + 1]) = IF e = " " THEN x ELSE Append(x, e)
    <3> HIDE DEF v
    <3> QED BY <2>1, <2>3, <2>5, WordsMoreSays DEF n
  <2>8. x \in Seq(T)
    BY <2>5, FlatType
  <2> HIDE DEF x, y, e, v
  <2>9. /\ Drop(Append(x, e), Light) = IF e \in Light THEN Drop(x, Light) ELSE Append(Drop(x, Light), e)
        /\ Drop(Append(y, e), Light) = IF e \in Light THEN Drop(y, Light) ELSE Append(Drop(y, Light), e)
    BY <2>4, <2>6, <2>8, DropLast
  <2>10. e = " " => e \in Light
    BY DEF Light
  <2>11. Drop(FlattenSeq(f[m + 1]), Light) = Drop(Append(y, e), Light)
    <3>1. CASE e = " "
      BY <2>5, <2>7, <2>9, <2>10, <3>1, Zenon
    <3>2. CASE e # " "
      BY <2>5, <2>7, <2>9, <3>2, Zenon
    <3> QED BY <3>1, <3>2
  <2> QED BY <2>6, <2>7, <2>11, Zenon DEF Good, V
<1>9. Nat \subseteq E
  <2> HIDE DEF E
  <2> QED BY <1>7, <1>8, Induct
<1>10. Good(n)
  <2>1. n \in E /\ n <= n
    BY <1>1, <1>9
  <2> HIDE DEF Good
  <2> QED BY <2>1
<1>11. SubSeq(s, 1, n) = s
  BY UpToNext
<1> QED BY <1>5, <1>10, <1>11, Zenon

RejoinMore(s, n, v) ==
  IF Joins(s[n]) /\ v # <<>> THEN Append(Front(v), Last(v) \o s[n]) ELSE Append(v, s[n])
RejoinRule(s, f) == f = [n \in 0..Len(s) |-> IF n = 0 THEN <<>> ELSE RejoinMore(s, n, f[n - 1])]

LEMMA RejoinMoreSays ==
  ASSUME NEW T, NEW s \in Seq(Seq(T)), NEW n \in 1..Len(s), NEW v \in Seq(Seq(T))
  PROVE  /\ RejoinMore(s, n, v) \in Seq(Seq(T))
         /\ FlattenSeq(RejoinMore(s, n, v)) = FlattenSeq(v) \o s[n]
<1> DEFINE e == s[n]
<1>1. e \in Seq(T)
  OBVIOUS
<1>2. CASE Joins(e) /\ v # <<>>
  <2>1. RejoinMore(s, n, v) = Append(Front(v), Last(v) \o e)
    BY <1>2, Zenon DEF RejoinMore
  <2> HIDE DEF e
  <2> QED BY <1>1, <1>2, <2>1, LastLonger DEF e
<1>3. CASE ~(Joins(e) /\ v # <<>>)
  <2>1. RejoinMore(s, n, v) = Append(v, e)
    BY <1>3, Zenon DEF RejoinMore
  <2> HIDE DEF e
  <2>2. Append(v, e) \in Seq(Seq(T)) /\ FlattenSeq(Append(v, e)) = FlattenSeq(v) \o e
    BY <1>1, JoinStep
  <2> QED BY <2>1, <2>2 DEF e
<1> QED BY <1>2, <1>3

LEMMA RejoinedSays ==
  ASSUME NEW T, NEW s \in Seq(Seq(T))
  PROVE  Rejoined(s) \in Seq(Seq(T)) /\ FlattenSeq(Rejoined(s)) = FlattenSeq(s)
<1> DEFINE n == Len(s)
           V == Seq(Seq(T))
           step == [m \in 1..n |-> [v \in V |-> RejoinMore(s, m, v)]]
           f == CHOOSE g : RejoinRule(s, g)
<1>1. n \in Nat /\ <<>> \in V
  OBVIOUS
<1>2. \A m \in 1..n, v \in V : RejoinMore(s, m, v) \in V
  BY RejoinMoreSays
<1>3. \E g : RejoinRule(s, g)
  <2>1. step \in [1..n -> [V -> V]]
    <3> HIDE DEF n, V
    <3> QED BY <1>2
  <2>2. PICK g \in [0..n -> V] : StepRule(n, <<>>, step, g)
    <3> HIDE DEF n, V, step
    <3> QED BY <1>1, <2>1, StepsHave
  <2>3. ASSUME NEW m \in 0..n PROVE (IF m = 0 THEN <<>> ELSE step[m][g[m - 1]])
                                    = IF m = 0 THEN <<>> ELSE RejoinMore(s, m, g[m - 1])
    <3>1. CASE m # 0
      <4>1. m \in 1..n /\ m - 1 \in 0..n
        BY <1>1, <3>1
      <4>2. g[m - 1] \in V
        BY <4>1
      <4> HIDE DEF V
      <4> QED BY <3>1, <4>1, <4>2
    <3>2. CASE m = 0
      BY <3>2
    <3> QED BY <3>1, <3>2
  <2>4. g = [m \in 0..n |-> IF m = 0 THEN <<>> ELSE RejoinMore(s, m, g[m - 1])]
    <3>1. g = [m \in 0..n |-> IF m = 0 THEN <<>> ELSE step[m][g[m - 1]]]
      BY <2>2, Zenon DEF StepRule
    <3> HIDE DEF step, V
    <3> QED BY <2>3, <3>1
  <2> QED BY <2>4, Zenon DEF RejoinRule
<1>4. RejoinRule(s, f)
  BY <1>3, Zenon
<1>5. Rejoined(s) = f[n]
  BY Zenon DEF Rejoined, RejoinRule, RejoinMore
<1> HIDE DEF f
<1>6. \A m \in 0..n : f[m] = IF m = 0 THEN <<>> ELSE RejoinMore(s, m, f[m - 1])
  BY <1>4, Zenon DEF RejoinRule
<1> DEFINE Good(m) == f[m] \in V /\ FlattenSeq(f[m]) = FlattenSeq(SubSeq(s, 1, m))
           E == {m \in Nat : m <= n => Good(m)}
<1>7. 0 \in E
  <2>1. 0 \in 0..n
    BY <1>1
  <2>2. f[0] = <<>>
    BY <1>6, <2>1, Zenon
  <2>3. SubSeq(s, 1, 0) = <<>>
    BY UpToNext
  <2>4. Good(0)
    BY <1>1, <2>2, <2>3, Zenon
  <2> HIDE DEF V, n, Good
  <2> QED BY <2>4
<1>8. ASSUME NEW m \in Nat, m \in E PROVE m + 1 \in E
  <2> SUFFICES ASSUME m + 1 <= n PROVE Good(m + 1)
    <3> HIDE DEF V, n, Good
    <3> QED OBVIOUS
  <2>1. m + 1 \in 1..n /\ m + 1 \in 0..n /\ m + 1 # 0 /\ (m + 1) - 1 = m /\ m <= n
    BY <1>1
  <2>2. Good(m)
    BY <1>8, <2>1
  <2> DEFINE e == s[m + 1]
             v == f[m]
             y == SubSeq(s, 1, m)
  <2>3. f[m + 1] = RejoinMore(s, m + 1, v)
    BY <1>6, <2>1
  <2>4. e \in Seq(T)
    BY <2>1
  <2>5. v \in Seq(Seq(T)) /\ FlattenSeq(v) = FlattenSeq(y)
    BY <2>2
  <2>6. y \in Seq(Seq(T)) /\ SubSeq(s, 1, m + 1) = Append(y, e)
    BY UpToNext
  <2> HIDE DEF V, E, Good
  <2>7. f[m + 1] \in Seq(Seq(T)) /\ FlattenSeq(f[m + 1]) = FlattenSeq(v) \o e
    <3> HIDE DEF v
    <3> QED BY <2>1, <2>3, <2>5, RejoinMoreSays DEF n
  <2> HIDE DEF y, e, v
  <2>8. FlattenSeq(Append(y, e)) = FlattenSeq(y) \o e
    BY <2>4, <2>6, JoinStep
  <2> QED BY <2>5, <2>6, <2>7, <2>8, Zenon DEF Good, V
<1>9. Nat \subseteq E
  <2> HIDE DEF E
  <2> QED BY <1>7, <1>8, Induct
<1>10. Good(n)
  <2>1. n \in E /\ n <= n
    BY <1>1, <1>9
  <2> HIDE DEF Good
  <2> QED BY <2>1
<1>11. SubSeq(s, 1, n) = s
  BY UpToNext
<1> QED BY <1>5, <1>10, <1>11, Zenon

\* What Spread, Tight, NoTrailing and NoLast leave of a line before it is cut.
Uncut(line) == NoLast(NoTrailing(Tight(Spread(line, {"<", ">", "{", "}", "(", ")"}), {"."})), ",")
Trim(word) == IF Len(word) > 1 THEN NoLast(word, ",") ELSE word

HasBlank(T) == " " \in T

LEMMA UncutSays ==
  ASSUME NEW T, HasBlank(T), NEW line \in Seq(T)
  PROVE  Lightly(T, Uncut(line), line)
<1> DEFINE a == Spread(line, {"<", ">", "{", "}", "(", ")"})
           b == Tight(a, {"."})
           c == NoTrailing(b)
<1>1. Lightly(T, a, line)
  BY SpreadSays, Zenon DEF HasBlank
<1> HIDE DEF a
<1>2. Lightly(T, b, a)
  BY <1>1, TightSays, Zenon DEF Lightly, LessBut
<1> HIDE DEF b
<1>3. Lightly(T, c, b)
  BY <1>2, NoTrailingSays, Zenon DEF Lightly, LessBut
<1> HIDE DEF c
<1>4. Lightly(T, NoLast(c, ","), c)
  BY <1>3, NoLastSays, Zenon DEF Lightly, LessBut
<1>5. Uncut(line) = NoLast(c, ",")
  BY Zenon DEF Uncut, a, b, c
<1> QED BY <1>1, <1>2, <1>3, <1>4, <1>5, Zenon DEF Lightly, LessBut

LEMMA TrimSays ==
  ASSUME NEW T, NEW word \in Seq(T)
  PROVE  Lightly(T, Trim(word), word)
<1>1. Trim(word) = NoLast(word, ",") \/ Trim(word) = word
  BY Zenon DEF Trim
<1>2. Lightly(T, word, word)
  BY Zenon DEF Lightly, LessBut
<1> QED BY <1>1, <1>2, NoLastSays, Zenon

\* The tokens of a line say what it says but for blanks and commas.
LEMMA LineTokensSay ==
  ASSUME NEW T, HasBlank(T), NEW line \in Seq(T)
  PROVE  LineTokens(line) \in Seq(Seq(T)) /\ Drop(FlattenSeq(LineTokens(line)), Light) = Drop(line, Light)
<1> DEFINE words == WordsIn(Uncut(line))
           t == [i \in DOMAIN words |-> Trim(words[i])]
<1>1. LineTokens(line) = t
  BY Zenon DEF LineTokens, Uncut, Trim
<1>2. Uncut(line) \in Seq(T) /\ Drop(Uncut(line), Light) = Drop(line, Light)
  BY UncutSays, Zenon DEF Lightly, LessBut
<1>3. words \in Seq(Seq(T)) /\ Drop(FlattenSeq(words), Light) = Drop(Uncut(line), Light)
  BY <1>2, WordsSay
<1> HIDE DEF words
<1>4. DOMAIN words = 1..Len(words) /\ Len(words) \in Nat /\ \A i \in 1..Len(words) : words[i] \in Seq(T)
  BY <1>3
<1>5. \A i \in 1..Len(words) : Trim(words[i]) \in Seq(T) /\ Drop(Trim(words[i]), Light) = Drop(words[i], Light)
  BY <1>4, TrimSays, Zenon DEF Lightly, LessBut
<1>6. t \in Seq(Seq(T)) /\ Len(t) = Len(words) /\ \A i \in 1..Len(words) : t[i] = Trim(words[i])
  BY <1>4, <1>5
<1> HIDE DEF t
<1>7. \A i \in 1..Len(t) : Drop(t[i], Light) = Drop(words[i], Light)
  BY <1>5, <1>6
<1>8. Drop(FlattenSeq(t), Light) = Drop(FlattenSeq(words), Light)
  BY <1>3, <1>6, <1>7, DropJoin
<1> QED BY <1>1, <1>2, <1>3, <1>6, <1>8, Zenon

\* And so do those of all lines.
LEMMA SkeletonTokensSay ==
  ASSUME NEW T, HasBlank(T), NEW lines \in Seq(Seq(T))
  PROVE  /\ SkeletonTokens(lines) \in Seq(Seq(T))
         /\ Drop(FlattenSeq(SkeletonTokens(lines)), Light) = Drop(FlattenSeq(lines), Light)
<1> DEFINE x == [i \in DOMAIN lines |-> LineTokens(lines[i])]
<1>1. SkeletonTokens(lines) = Rejoined(FlattenSeq(x))
  BY Zenon DEF SkeletonTokens
<1>2. DOMAIN lines = 1..Len(lines) /\ Len(lines) \in Nat /\ \A i \in 1..Len(lines) : lines[i] \in Seq(T)
  OBVIOUS
<1>3. \A i \in 1..Len(lines) : /\ LineTokens(lines[i]) \in Seq(Seq(T))
                               /\ Drop(FlattenSeq(LineTokens(lines[i])), Light) = Drop(lines[i], Light)
  BY <1>2, LineTokensSay
<1>4. x \in Seq(Seq(Seq(T))) /\ Len(x) = Len(lines) /\ \A i \in 1..Len(lines) : x[i] = LineTokens(lines[i])
  BY <1>2, <1>3
<1> HIDE DEF x
<1>5. \A i \in 1..Len(x) : Drop(FlattenSeq(x[i]), Light) = Drop(lines[i], Light)
  BY <1>3, <1>4
<1>6. Drop(FlattenSeq(FlattenSeq(x)), Light) = Drop(FlattenSeq(lines), Light)
  BY <1>4, <1>5, DropJoinJoin
<1>7. FlattenSeq(x) \in Seq(Seq(T))
  BY <1>4, FlatType
<1>8. Rejoined(FlattenSeq(x)) \in Seq(Seq(T)) /\ FlattenSeq(Rejoined(FlattenSeq(x))) = FlattenSeq(FlattenSeq(x))
  BY <1>7, RejoinedSays
<1> QED BY <1>1, <1>6, <1>8, Zenon

LEMMA JoinedSays ==
  ASSUME NEW T, HasBlank(T), NEW lines \in Seq(Seq(T))
  PROVE  Joined(lines) \in Seq(T) /\ Drop(Joined(lines), Light) = Drop(FlattenSeq(lines), Light)
<1> DEFINE e == " "
           y == [i \in DOMAIN lines |-> Append(lines[i], e)]
<1>1. Joined(lines) = Normal(FlattenSeq(y))
  BY Zenon DEF Joined
<1>2. e \in T /\ e \in Light
  BY DEF Light, HasBlank
<1> HIDE DEF e
<1>3. DOMAIN lines = 1..Len(lines) /\ Len(lines) \in Nat /\ \A i \in 1..Len(lines) : lines[i] \in Seq(T)
  OBVIOUS
<1>4. \A i \in 1..Len(lines) : Append(lines[i], e) \in Seq(T) /\ Drop(Append(lines[i], e), Light) = Drop(lines[i], Light)
  <2> TAKE i \in 1..Len(lines)
  <2> DEFINE l == lines[i]
  <2>1. l \in Seq(T) /\ Append(l, e) \in Seq(T)
    BY <1>2, <1>3
  <2> HIDE DEF l
  <2>2. Drop(Append(l, e), Light) = IF e \in Light THEN Drop(l, Light) ELSE Append(Drop(l, Light), e)
    BY <1>2, <2>1, DropLast
  <2> QED BY <1>2, <2>1, <2>2 DEF l
<1>5. y \in Seq(Seq(T)) /\ Len(y) = Len(lines) /\ \A i \in 1..Len(lines) : y[i] = Append(lines[i], e)
  BY <1>3, <1>4
<1> HIDE DEF y
<1>6. \A i \in 1..Len(y) : Drop(y[i], Light) = Drop(lines[i], Light)
  BY <1>4, <1>5
<1>7. FlattenSeq(y) \in Seq(T) /\ Drop(FlattenSeq(y), Light) = Drop(FlattenSeq(lines), Light)
  BY <1>5, <1>6, FlatType, DropJoin
<1>8. Lightly(T, Normal(FlattenSeq(y)), FlattenSeq(y))
  BY <1>7, NormalSays
<1> QED BY <1>1, <1>7, <1>8, Zenon DEF Lightly, LessBut

\* The code without {" "}: what Bare and Collapsed say.
Unblanked(lines) == Without(Tightened(lines), JsxBlanks(Tightened(lines)))

LEMMA CollapsedSays ==
  ASSUME NEW T, HasBlank(T), NEW lines \in Seq(Seq(T))
  PROVE  Drop(Collapsed(lines), Light) = Drop(Unblanked(lines), Light)
<1>1. Joined(lines) \in Seq(T)
  BY JoinedSays
<1> DEFINE marks == {"<", ">", "{", "}", "."}
<1>2. Tightened(lines) = Tight(Joined(lines), marks)
  BY Zenon DEF Tightened
<1> HIDE DEF marks
<1>3. Tightened(lines) \in Seq(T)
  BY <1>1, <1>2, TightSays, Zenon DEF Lightly, LessBut
<1>4. Unblanked(lines) \in Seq(T)
  BY <1>3, WithoutType DEF Unblanked
<1>5. Collapsed(lines) = NoTrailing(Unblanked(lines))
  BY Zenon DEF Collapsed, Unblanked
<1>6. Lightly(T, NoTrailing(Unblanked(lines)), Unblanked(lines))
  BY <1>4, NoTrailingSays
<1> QED BY <1>5, <1>6, Zenon DEF Lightly, LessBut

-----------------------------------------------------------------------------
(* The skeleton of a revision *)

MergeOf(done) ==
  IF IsSuffix(<<"TEXT", "{", Quote, Quote, "}", "TEXT">>, done) THEN SubSeq(done, 1, Len(done) - 5) ELSE done
MergeRule(s, f) == f = [n \in 0..Len(s) |-> IF n = 0 THEN <<>> ELSE MergeOf(Append(f[n - 1], s[n]))]

LEMMA MergeOfType ==
  ASSUME NEW T, NEW s \in Seq(T)
  PROVE  MergeOf(s) \in Seq(T)
<1>1. MergeOf(s) = s \/ MergeOf(s) = SubSeq(s, 1, Len(s) - 5)
  BY Zenon DEF MergeOf
<1>2. SubSeq(s, 1, Len(s) - 5) \in Seq(T)
  OBVIOUS
<1> QED BY <1>1, <1>2

\* Merging strings of labels into the text around them makes no unit.
LEMMA MergedType ==
  ASSUME NEW T, NEW s \in Seq(T)
  PROVE  Merged(s) \in Seq(T)
<1> DEFINE n == Len(s)
           V == Seq(T)
           step == [m \in 1..n |-> [v \in V |-> MergeOf(Append(v, s[m]))]]
           f == CHOOSE g : MergeRule(s, g)
<1>1. n \in Nat /\ <<>> \in V /\ \A m \in 1..n : s[m] \in T
  OBVIOUS
<1>2. \A m \in 1..n, v \in V : MergeOf(Append(v, s[m])) \in V
  <2> TAKE m \in 1..n, v \in V
  <2>1. Append(v, s[m]) \in V
    BY <1>1
  <2> QED BY <2>1, MergeOfType
<1>3. \E g : MergeRule(s, g)
  <2>1. step \in [1..n -> [V -> V]]
    <3> HIDE DEF n, V
    <3> QED BY <1>2
  <2>2. PICK g \in [0..n -> V] : StepRule(n, <<>>, step, g)
    <3> HIDE DEF n, V, step
    <3> QED BY <1>1, <2>1, StepsHave
  <2>3. ASSUME NEW m \in 0..n PROVE (IF m = 0 THEN <<>> ELSE step[m][g[m - 1]])
                                    = IF m = 0 THEN <<>> ELSE MergeOf(Append(g[m - 1], s[m]))
    <3>1. CASE m # 0
      <4>1. m \in 1..n /\ m - 1 \in 0..n
        BY <1>1, <3>1
      <4>2. g[m - 1] \in V
        BY <4>1
      <4> HIDE DEF V
      <4> QED BY <3>1, <4>1, <4>2
    <3>2. CASE m = 0
      BY <3>2
    <3> QED BY <3>1, <3>2
  <2>4. g = [m \in 0..n |-> IF m = 0 THEN <<>> ELSE MergeOf(Append(g[m - 1], s[m]))]
    <3>1. g = [m \in 0..n |-> IF m = 0 THEN <<>> ELSE step[m][g[m - 1]]]
      BY <2>2, Zenon DEF StepRule
    <3> HIDE DEF step, V
    <3> QED BY <2>3, <3>1
  <2> QED BY <2>4, Zenon DEF MergeRule
<1>4. MergeRule(s, f)
  BY <1>3, Zenon
<1>5. Merged(s) = f[n]
  BY Zenon DEF Merged, MergeRule, MergeOf
<1> HIDE DEF f
<1>6. \A m \in 0..n : f[m] = IF m = 0 THEN <<>> ELSE MergeOf(Append(f[m - 1], s[m]))
  BY <1>4, Zenon DEF MergeRule
<1> DEFINE E == {m \in Nat : m <= n => f[m] \in V}
<1>7. 0 \in E
  <2>1. 0 \in 0..n
    BY <1>1
  <2>2. f[0] = <<>>
    BY <1>6, <2>1, Zenon
  <2>3. f[0] \in V
    BY <1>1, <2>2, Zenon
  <2> HIDE DEF V, n
  <2> QED BY <2>3
<1>8. ASSUME NEW m \in Nat, m \in E PROVE m + 1 \in E
  <2> SUFFICES ASSUME m + 1 <= n PROVE f[m + 1] \in V
    OBVIOUS
  <2>1. m + 1 \in 1..n /\ m + 1 \in 0..n /\ m + 1 # 0 /\ (m + 1) - 1 = m /\ m <= n
    BY <1>1
  <2>2. f[m] \in V
    BY <1>8, <2>1
  <2>3. f[m + 1] = MergeOf(Append(f[m], s[m + 1]))
    BY <1>6, <2>1
  <2> HIDE DEF V, n
  <2> QED BY <1>2, <2>1, <2>2, <2>3
<1>9. Nat \subseteq E
  <2> HIDE DEF E
  <2> QED BY <1>7, <1>8, Induct
<1>10. n \in E /\ n <= n
  BY <1>1, <1>9
<1> QED BY <1>5, <1>10

UnwrapRule(s, f) == f = [n \in 0..Len(s) |-> IF n = 0 THEN s ELSE Unwrap(f[n - 1])]

LEMMA UnwrapType ==
  ASSUME NEW T, NEW s \in Seq(T)
  PROVE  Unwrap(s) \in Seq(T)
<1> DEFINE I == Wrapping(s)
<1>1. Unwrap(s) = Without(s, I)
  BY Zenon DEF Unwrap, Without
<1> HIDE DEF I
<1> QED BY <1>1, WithoutType

\* What no pass changes, all of them do not.
LEMMA UnwrappedKeeps ==
  ASSUME NEW V, NEW s \in V, Len(s) \in Nat, \A v \in V : Unwrap(v) \in V
  PROVE  Unwrapped(s) \in V
<1> DEFINE n == Len(s)
           step == [m \in 1..n |-> [v \in V |-> Unwrap(v)]]
           f == CHOOSE g : UnwrapRule(s, g)
<1>1. n \in Nat
  OBVIOUS
<1>2. \E g : UnwrapRule(s, g)
  <2>1. step \in [1..n -> [V -> V]]
    <3> HIDE DEF n
    <3> QED OBVIOUS
  <2>2. PICK g \in [0..n -> V] : StepRule(n, s, step, g)
    <3> HIDE DEF n, step
    <3> QED BY <1>1, <2>1, StepsHave
  <2>3. ASSUME NEW m \in 0..n PROVE (IF m = 0 THEN s ELSE step[m][g[m - 1]])
                                    = IF m = 0 THEN s ELSE Unwrap(g[m - 1])
    <3>1. CASE m # 0
      <4>1. m \in 1..n /\ m - 1 \in 0..n
        BY <1>1, <3>1
      <4>2. g[m - 1] \in V
        BY <4>1
      <4> QED BY <3>1, <4>1, <4>2
    <3>2. CASE m = 0
      BY <3>2
    <3> QED BY <3>1, <3>2
  <2>4. g = [m \in 0..n |-> IF m = 0 THEN s ELSE Unwrap(g[m - 1])]
    <3>1. g = [m \in 0..n |-> IF m = 0 THEN s ELSE step[m][g[m - 1]]]
      BY <2>2, Zenon DEF StepRule
    <3> HIDE DEF step
    <3> QED BY <2>3, <3>1
  <2> QED BY <2>4, Zenon DEF UnwrapRule
<1>3. UnwrapRule(s, f)
  BY <1>2, Zenon
<1>4. Unwrapped(s) = f[n]
  BY Zenon DEF Unwrapped, UnwrapRule
<1> HIDE DEF f
<1>5. \A m \in 0..n : f[m] = IF m = 0 THEN s ELSE Unwrap(f[m - 1])
  BY <1>3, Zenon DEF UnwrapRule
<1> DEFINE E == {m \in Nat : m <= n => f[m] \in V}
<1>6. 0 \in E
  BY <1>1, <1>5
<1>7. ASSUME NEW m \in Nat, m \in E PROVE m + 1 \in E
  <2> SUFFICES ASSUME m + 1 <= n PROVE f[m + 1] \in V
    OBVIOUS
  <2>1. m + 1 \in 0..n /\ m + 1 # 0 /\ (m + 1) - 1 = m /\ m <= n
    BY <1>1
  <2>2. f[m] \in V
    BY <1>7, <2>1
  <2>3. f[m + 1] = Unwrap(f[m])
    BY <1>5, <2>1
  <2> QED BY <2>2, <2>3
<1>8. Nat \subseteq E
  <2> HIDE DEF E
  <2> QED BY <1>6, <1>7, Induct
<1>9. n \in E /\ n <= n
  BY <1>1, <1>8
<1> QED BY <1>4, <1>9

\* Nor does dropping parentheses make a token.
LEMMA UnwrappedType ==
  ASSUME NEW T, NEW s \in Seq(T)
  PROVE  Unwrapped(s) \in Seq(T)
<1> DEFINE V == Seq(T)
<1>1. s \in V /\ Len(s) \in Nat
  OBVIOUS
<1>2. \A v \in V : Unwrap(v) \in V
  BY UnwrapType
<1> HIDE DEF V
<1>3. Unwrapped(s) \in V
  BY <1>1, <1>2, UnwrappedKeeps
<1> QED BY <1>3 DEF V

LEMMA LineType ==
  ASSUME NEW P, NEW pieces \in Seq(P), NEW T, \A p \in P : Token(p) \in Seq(T), NEW n
  PROVE  LineOf(pieces, n) \in Seq(T)
<1> DEFINE s == [i \in DOMAIN pieces |-> IF pieces[i].line = n THEN Token(pieces[i]) ELSE <<>>]
<1>1. \A i \in 1..Len(pieces) : Token(pieces[i]) \in Seq(T)
  OBVIOUS
<1>2. <<>> \in Seq(T) /\ DOMAIN pieces = 1..Len(pieces) /\ Len(pieces) \in Nat
  OBVIOUS
<1>3. s \in Seq(Seq(T))
  BY <1>1, <1>2
<1>4. LineOf(pieces, n) = Merged(Normal(FlattenSeq(s)))
  BY Zenon DEF LineOf
<1> HIDE DEF s
<1>5. Normal(FlattenSeq(s)) \in Seq(T)
  BY <1>3, FlatType, NormalSays, Zenon DEF Lightly, LessBut
<1> QED BY <1>4, <1>5, MergedType

\* The lines of the pieces have a last one.
LEMMA LastLine ==
  ASSUME NEW P, NEW pieces \in Seq(P), \A p \in ToSet(pieces) : p.line \in Nat
  PROVE  Max({0} \cup {p.line : p \in ToSet(pieces)}) \in Nat
<1> DEFINE line == [i \in 1..Len(pieces) |-> pieces[i].line]
           Top(n) == \E top \in Nat : \A i \in 1..Len(pieces) : i <= n => line[i] <= top
           E == {n \in Nat : Top(n)}
           S == {0} \cup {p.line : p \in ToSet(pieces)}
<1>1. ToSet(pieces) = {pieces[i] : i \in 1..Len(pieces)} /\ Len(pieces) \in Nat
  BY DEF ToSet
<1>2. \A i \in 1..Len(pieces) : line[i] \in Nat /\ i \in Nat
  BY <1>1
<1>3. S = {0} \cup {line[i] : i \in 1..Len(pieces)}
  BY <1>1
<1> HIDE DEF line, S
<1>4. 0 \in E
  OBVIOUS
<1>5. ASSUME NEW n \in Nat, n \in E PROVE n + 1 \in E
  <2>1. PICK top \in Nat : \A i \in 1..Len(pieces) : i <= n => line[i] <= top
    BY <1>5
  <2>2. CASE n + 1 \in 1..Len(pieces)
    <3> DEFINE more == top + line[n + 1]
    <3>1. more \in Nat /\ top <= more /\ line[n + 1] <= more
      BY <1>2, <2>2
    <3> HIDE DEF more
    <3>2. \A i \in 1..Len(pieces) : i <= n + 1 => line[i] <= more
      <4> TAKE i \in 1..Len(pieces)
      <4> HAVE i <= n + 1
      <4>1. i = n + 1 \/ i <= n
        BY <1>2
      <4> QED BY <1>2, <2>1, <3>1, <4>1, SMTT(30)
    <3> QED BY <3>1, <3>2, SMTT(30)
  <2>3. CASE n + 1 \notin 1..Len(pieces)
    <3>1. \A i \in 1..Len(pieces) : i <= n + 1 => i <= n
      BY <1>2, <2>3
    <3>2. \A i \in 1..Len(pieces) : i <= n + 1 => line[i] <= top
      BY <2>1, <3>1, Zenon
    <3> QED BY <3>2, SMTT(30)
  <2> QED BY <2>2, <2>3
<1>6. Nat \subseteq E
  <2> HIDE DEF E
  <2> QED BY <1>4, <1>5, Induct
<1>7. PICK top \in Nat : \A i \in 1..Len(pieces) : line[i] <= top
  <2>1. \A i \in 1..Len(pieces) : i <= Len(pieces)
    BY <1>1
  <2>2. Len(pieces) \in E
    <3> HIDE DEF E
    <3> QED BY <1>1, <1>6
  <2> QED BY <2>1, <2>2
<1>8. S \in SUBSET Nat /\ S # {} /\ \A x \in S : x <= top
  BY <1>2, <1>3, <1>7
<1>9. PICK m \in S : \A x \in S : x <= m
  BY <1>8, Largest
<1>10. Max(S) = m
  BY <1>8, <1>9, MaxIs
<1> QED BY <1>8, <1>9, <1>10 DEF S

LEMMA SkeletonType ==
  ASSUME NEW P, NEW pieces \in Seq(P), NEW T, \A p \in P : Token(p) \in Seq(T),
         \A p \in ToSet(pieces) : p.line \in Nat
  PROVE  Skeleton(pieces) \in Seq(Seq(T))
<1> DEFINE last == Max({0} \cup {p.line : p \in ToSet(pieces)})
           Line(n) == IF LineOf(pieces, n) = <<>> THEN <<>> ELSE <<LineOf(pieces, n)>>
           s == [n \in 1..last |-> Line(n)]
<1>1. last \in Nat
  BY LastLine
<1>2. Skeleton(pieces) = FlattenSeq(s)
  BY Zenon DEF Skeleton
<1>3. ASSUME NEW n PROVE Line(n) \in Seq(Seq(T))
  <2>1. LineOf(pieces, n) \in Seq(T)
    BY LineType
  <2> QED BY <2>1
<1> HIDE DEF last, Line
<1>4. s \in Seq(Seq(Seq(T)))
  BY <1>1, <1>3
<1> HIDE DEF s
<1> QED BY <1>2, <1>4, FlatType

\* The tokens of a revision, as far as types go.
LEMMA TokensType ==
  ASSUME NEW T, HasBlank(T), NEW lines \in Seq(Seq(T))
  PROVE  Tokens(lines) \in Seq(Seq(T))
<1>1. SkeletonTokens(lines) \in Seq(Seq(T))
  BY SkeletonTokensSay
<1> QED BY <1>1, UnwrappedType DEF Tokens

-----------------------------------------------------------------------------
(* The revisions that are asked about *)

\* A map, if there is one, is comments and entries.
MapType(map) == map # NotThere => map.comments \in Seq(ToSet(map.comments)) /\ map.entries \in Seq(ToSet(map.entries))

Revision(r) ==
  /\ r.pieces \in Seq(ToSet(r.pieces))
  /\ \A p \in ToSet(r.pieces) : p.line \in Nat /\ Token(p) \in Seq(STRING)
  /\ r.comments \in Seq(ToSet(r.comments))
  /\ MapType(r.map)

LEMMA AskedRevisions ==
  ASSUME AskedInv, asked.of = "source"
  PROVE  Revision(asked.old) /\ Revision(asked.new) /\ asked.max \in Nat
<1>1. PICK family \in Families : \E a, b \in family, max \in Caps :
        asked = [of |-> "source", old |-> a, new |-> b, max |-> max]
  BY KindIs, Zenon DEF AskedSource
<1>2. PICK a \in family, b \in family, max \in Caps :
        asked = [of |-> "source", old |-> a, new |-> b, max |-> max]
  BY <1>1
<1>3. asked.old = a /\ asked.new = b /\ asked.max = max
  BY <1>2
<1> DEFINE F == UNION Families
<1>4. a \in F /\ b \in F
  BY Zenon
<1>5. \A r \in F :
        /\ r.pieces \in Seq(ToSet(r.pieces))
        /\ \A p \in ToSet(r.pieces) : p.line \in Nat \ {0} /\ Token(p) \in Seq(STRING)
        /\ r.comments \in Seq(ToSet(r.comments))
        /\ r.map # NotThere => /\ r.map.comments \in Seq(ToSet(r.map.comments))
                              /\ r.map.entries \in Seq(ToSet(r.map.entries))
  BY TextRulesAssumption
<1> HIDE DEF F
<1>6. \A r \in F : Revision(r)
  <2> TAKE r \in F
  <2>1. /\ r.pieces \in Seq(ToSet(r.pieces)) /\ r.comments \in Seq(ToSet(r.comments))
        /\ \A p \in ToSet(r.pieces) : p.line \in Nat /\ Token(p) \in Seq(STRING)
    BY <1>5
  <2>2. MapType(r.map)
    BY <1>5 DEF MapType
  <2> QED BY <2>1, <2>2, Zenon DEF Revision
<1>7. max \in Nat
  BY TextRulesAssumption
<1> QED BY <1>3, <1>4, <1>6, <1>7

LEMMA RevisionLines ==
  ASSUME NEW r, Revision(r)
  PROVE  Skeleton(r.pieces) \in Seq(Seq(STRING))
<1> DEFINE P == ToSet(r.pieces)
<1>1. /\ r.pieces \in Seq(P)
      /\ \A p \in P : Token(p) \in Seq(STRING)
      /\ \A p \in ToSet(r.pieces) : p.line \in Nat
  BY DEF Revision
<1> HIDE DEF P
<1> QED BY <1>1, SkeletonType

\* The hunks of the alignment are what two revisions differ by, and as little as
\* can be: the tokens outside them are a longest common subsequence of the two
\* (align_token_hunks: the table, the way back through it, and the common
\* beginning and end set aside before), for all revisions of all families.
THEOREM HunksAreLeast == Spec => []HunksExplain
<1>1. AskedInv => HunksExplain
  <2> SUFFICES ASSUME AskedInv, asked.of = "source" PROVE HunksExplain
    BY DEF HunksExplain
  <2> DEFINE a == asked.old
             b == asked.new
  <2>1. Revision(a) /\ Revision(b)
    BY AskedRevisions
  <2> HIDE DEF a, b
  <2> DEFINE x == Skeleton(a.pieces)
             y == Skeleton(b.pieces)
             s == Tokens(x)
             t == Tokens(y)
  <2>2. HasBlank(STRING)
    BY TextRulesAssumption, Zenon DEF HasBlank
  <2>3. x \in Seq(Seq(STRING)) /\ y \in Seq(Seq(STRING))
    BY <2>1, RevisionLines
  <2> HIDE DEF x, y
  <2>4. s \in Seq(Seq(STRING)) /\ t \in Seq(Seq(STRING))
    BY <2>2, <2>3, TokensType
  <2> HIDE DEF s, t
  <2>6. (Hunks(s, t) = <<>> <=> s = t) /\ Explains(Hunks(s, t), s, t)
    BY <2>4, HunksSay
  <2> QED BY <2>6, Zenon DEF HunksExplain, a, b, x, y, s, t
<1> QED BY <1>1, Asks, PTL

-----------------------------------------------------------------------------
(* Findings: sequences that are empty *)

\* The codes of the findings about a source file.
Codes == {"comment-changed", "code-changed", "placeholder-changed", "url-changed",
          "glossary-english", "english-label", "findings-truncated"}
FindingsOf(s) == s \in Seq(Codes)

LEMMA JoinEmpty ==
  ASSUME NEW T, NEW s \in Seq(Seq(T))
  PROVE  FlattenSeq(s) = <<>> <=> \A i \in 1..Len(s) : s[i] = <<>>
<1> DEFINE Says(v) == FlattenSeq(v) = <<>> <=> \A i \in 1..Len(v) : v[i] = <<>>
           E == {n \in Nat : \A v \in Seq(Seq(T)) : Len(v) = n => Says(v)}
<1>1. 0 \in E
  <2> SUFFICES ASSUME NEW v \in Seq(Seq(T)), Len(v) = 0 PROVE Says(v)
    OBVIOUS
  <2>1. v = <<>> /\ 1..Len(v) = {}
    OBVIOUS
  <2> QED BY <2>1, JoinNothing
<1>2. ASSUME NEW n \in Nat, n \in E PROVE n + 1 \in E
  <2> SUFFICES ASSUME NEW v \in Seq(Seq(T)), Len(v) = n + 1 PROVE Says(v)
    OBVIOUS
  <2>1. PICK w \in Seq(Seq(T)), e \in Seq(T) : v = Append(w, e)
    <3>1. v # <<>>
      OBVIOUS
    <3> QED BY <3>1, SequenceEmptyOrAppend, Zenon
  <2>2. /\ Len(w) = n /\ v[n + 1] = e
        /\ \A i \in 1..(n + 1) : i # n + 1 => i \in 1..n
        /\ \A i \in 1..n : v[i] = w[i] /\ i \in 1..(n + 1)
        /\ n + 1 \in 1..(n + 1)
    BY <2>1
  <2>3. Says(w)
    BY <1>2, <2>2
  <2>4. FlattenSeq(w) \in Seq(T) /\ FlattenSeq(v) = FlattenSeq(w) \o e
    BY <2>1, JoinStep
  <2> DEFINE y == FlattenSeq(w)
             z == FlattenSeq(v)
  <2>5. z = <<>> <=> y = <<>> /\ e = <<>>
    <3>1. y \in Seq(T) /\ z = y \o e
      BY <2>4
    <3> HIDE DEF y, z
    <3> QED BY <3>1
  <2> HIDE DEF y, z
  <2>6. y = <<>> <=> \A i \in 1..n : v[i] = <<>>
    BY <2>2, <2>3 DEF y
  <2>7. (\A i \in 1..(n + 1) : v[i] = <<>>) <=> (\A i \in 1..n : v[i] = <<>>) /\ e = <<>>
    BY <2>2, Zenon
  <2> QED BY <2>5, <2>6, <2>7 DEF z
<1>3. Nat \subseteq E
  <2> HIDE DEF E
  <2> QED BY <1>1, <1>2, Induct
<1>4. Len(s) \in E
  BY <1>3
<1> QED BY <1>4

LEMMA ConcatEmpty ==
  ASSUME NEW T, NEW s \in Seq(T), NEW u \in Seq(T)
  PROVE  s \o u \in Seq(T) /\ (s \o u = <<>> <=> s = <<>> /\ u = <<>>)
OBVIOUS

LEMMA RepeatedSays ==
  ASSUME NEW code \in Codes, NEW n \in Nat
  PROVE  FindingsOf(Repeated(code, n)) /\ (Repeated(code, n) = <<>> <=> n = 0)
<1>1. Repeated(code, n) \in Seq(Codes) /\ Len(Repeated(code, n)) = n
  BY DEF Repeated
<1> QED BY <1>1 DEF FindingsOf

\* However low max_findings is, findings are not lost but for their number.
LEMMA CappedSays ==
  ASSUME NEW f, FindingsOf(f), NEW max \in Nat
  PROVE  (Capped(f, max) = <<>> <=> f = <<>>) /\ Len(Capped(f, max)) <= max + 1
<1>1. f \in Seq(Codes)
  BY DEF FindingsOf
<1>2. CASE Len(f) <= max
  BY <1>1, <1>2 DEF Capped
<1>3. CASE ~(Len(f) <= max)
  <2> DEFINE c == SubSeq(f, 1, max)
             e == "findings-truncated"
  <2>1. c \in Seq(Codes) /\ Len(c) = max /\ f # <<>>
    BY <1>1, <1>3
  <2>2. e \in Codes
    BY DEF Codes
  <2>3. Capped(f, max) = Append(c, e)
    BY <1>3, Zenon DEF Capped
  <2> HIDE DEF c, e
  <2>4. Append(c, e) # <<>> /\ Len(Append(c, e)) = max + 1
    BY <2>1, <2>2
  <2> QED BY <2>1, <2>3, <2>4
<1> QED BY <1>2, <1>3

\* The places at which two sequences differ.
Differing(s, t) == {i \in Places(s, t) : ItemAt(s, i) # ItemAt(t, i)}

LEMMA PlacesDiffer ==
  ASSUME NEW S, NEW s \in Seq(S), NEW T, NEW t \in Seq(T)
  PROVE  Cardinality(Differing(s, t)) \in Nat /\ (Cardinality(Differing(s, t)) = 0 <=> s = t)
<1> DEFINE D == Differing(s, t)
           top == Max({Len(s), Len(t)})
<1>1. Len(s) \in Nat /\ Len(t) \in Nat
  OBVIOUS
<1>2. top = IF Len(s) >= Len(t) THEN Len(s) ELSE Len(t)
  BY <1>1, MaxOfTwo
<1>3. top \in Nat /\ Len(s) <= top /\ Len(t) <= top /\ (top = Len(s) \/ top = Len(t))
  BY <1>1, <1>2
<1> HIDE DEF top
<1>4. IsFiniteSet(D)
  <2>1. IsFiniteSet(1..top)
    BY <1>3, FS_Interval
  <2>2. D \subseteq 1..top
    BY DEF Differing, Places, top
  <2> QED BY <2>1, <2>2, FS_Subset
<1>5. D = {} <=> s = t
  <2>1. s = t => D = {}
    BY DEF Differing
  <2>2. ASSUME D = {} PROVE s = t
    <3>1. \A i \in 1..top : ItemAt(s, i) = ItemAt(t, i)
      BY <2>2 DEF Differing, Places, top
    <3>2. DOMAIN s = 1..Len(s) /\ DOMAIN t = 1..Len(t)
      OBVIOUS
    <3>3. \A i \in 1..Len(s) : ItemAt(s, i) = <<s[i]>>
      BY <3>2, Zenon DEF ItemAt
    <3>4. \A i \in 1..Len(t) : ItemAt(t, i) = <<t[i]>>
      BY <3>2, Zenon DEF ItemAt
    <3>5. \A i : (i \notin 1..Len(s) => ItemAt(s, i) = <<>>) /\ (i \notin 1..Len(t) => ItemAt(t, i) = <<>>)
      BY <3>2, Zenon DEF ItemAt
    <3>6. \A x : <<x>> # <<>>
      OBVIOUS
    <3>7. Len(s) = Len(t)
      <4>1. CASE Len(s) < Len(t)
        <5>1. Len(t) \in 1..top /\ Len(t) \in 1..Len(t) /\ Len(t) \notin 1..Len(s)
          BY <1>1, <1>3, <4>1
        <5>2. /\ ItemAt(s, Len(t)) = ItemAt(t, Len(t)) /\ ItemAt(s, Len(t)) = <<>>
              /\ ItemAt(t, Len(t)) = <<t[Len(t)]>>
          BY <3>1, <3>4, <3>5, <5>1, ZenonT(30)
        <5> QED BY <3>6, <5>2, Zenon
      <4>2. CASE Len(t) < Len(s)
        <5>1. Len(s) \in 1..top /\ Len(s) \in 1..Len(s) /\ Len(s) \notin 1..Len(t)
          BY <1>1, <1>3, <4>2
        <5>2. /\ ItemAt(s, Len(s)) = ItemAt(t, Len(s)) /\ ItemAt(t, Len(s)) = <<>>
              /\ ItemAt(s, Len(s)) = <<s[Len(s)]>>
          BY <3>1, <3>3, <3>5, <5>1, ZenonT(30)
        <5> QED BY <3>6, <5>2, Zenon
      <4> QED BY <1>1, <4>1, <4>2
    <3>8. \A i \in 1..Len(s) : s[i] = t[i]
      <4> TAKE i \in 1..Len(s)
      <4>1. i \in 1..top /\ i \in 1..Len(t)
        BY <1>1, <1>3, <3>7
      <4>2. <<s[i]>> = <<t[i]>>
        BY <3>1, <3>3, <3>4, <4>1, Zenon
      <4> QED BY <4>2
    <3> QED BY <3>7, <3>8
  <2> QED BY <2>1, <2>2
<1> QED BY <1>4, <1>5, FS_CardinalityType, FS_EmptySet

LEMMA CommentsSay ==
  ASSUME NEW S, NEW s \in Seq(S), NEW T, NEW t \in Seq(T)
  PROVE  FindingsOf(CommentChanges(s, t)) /\ (CommentChanges(s, t) = <<>> <=> s = t)
<1> DEFINE n == Cardinality(Differing(s, t))
           code == "comment-changed"
<1>1. CommentChanges(s, t) = Repeated(code, n)
  BY Zenon DEF CommentChanges, Differing
<1>2. n \in Nat /\ (n = 0 <=> s = t)
  BY PlacesDiffer
<1>3. code \in Codes
  BY DEF Codes
<1> HIDE DEF n, code
<1> QED BY <1>1, <1>2, <1>3, RepeatedSays

-----------------------------------------------------------------------------
(* The map of the categories *)

LEMMA TermsType == \A text : FindingsOf(EnglishTerms(text))
<1> DEFINE a == "glossary-english"
           b == "english-label"
<1>1. <<a>> \in Seq(Codes) /\ <<b>> \in Seq(Codes) /\ <<>> \in Seq(Codes)
  BY DEF Codes
<1> TAKE text
<1>2. EnglishTerms(text) = <<a>> \/ EnglishTerms(text) = <<b>> \/ EnglishTerms(text) = <<>>
  BY Zenon DEF EnglishTerms
<1> QED BY <1>1, <1>2, Zenon DEF FindingsOf

LEMMA EntriesSay ==
  ASSUME NEW map, MapType(map), map # NotThere
  PROVE  /\ FindingsOf(EnglishEntries(map))
         /\ EnglishEntries(map) = <<>> <=> \A e \in ToSet(Listed(map)) : EnglishTerms(e.text) = <<>>
<1> DEFINE listed == Listed(map)
           T == ToSet(map.entries)
           f == [i \in DOMAIN listed |-> EnglishTerms(listed[i].text)]
<1>1. listed \in Seq(T)
  <2> DEFINE I == {i \in DOMAIN map.entries : map.entries[i].text = NotThere}
  <2>1. map.entries \in Seq(T) /\ listed = Without(map.entries, I)
    BY Zenon DEF MapType, Listed
  <2> HIDE DEF I, T, listed
  <2> QED BY <2>1, WithoutType
<1>2. EnglishEntries(map) = FlattenSeq(f)
  BY Zenon DEF EnglishEntries
<1> HIDE DEF listed
<1>3. \A text : EnglishTerms(text) \in Seq(Codes)
  BY TermsType, Zenon DEF FindingsOf
<1>4. f \in Seq(Seq(Codes)) /\ Len(f) = Len(listed) /\ \A i \in 1..Len(listed) : f[i] = EnglishTerms(listed[i].text)
  BY <1>1, <1>3
<1>5. ToSet(listed) = {listed[i] : i \in 1..Len(listed)}
  BY <1>1 DEF ToSet
<1> HIDE DEF f
<1>6. FlattenSeq(f) \in Seq(Codes) /\ (FlattenSeq(f) = <<>> <=> \A i \in 1..Len(listed) : EnglishTerms(listed[i].text) = <<>>)
  <2>1. FlattenSeq(f) = <<>> <=> \A i \in 1..Len(f) : f[i] = <<>>
    BY <1>4, JoinEmpty
  <2>2. FlattenSeq(f) \in Seq(Codes)
    BY <1>4, FlatType
  <2> QED BY <1>4, <2>1, <2>2, Zenon
<1>7. (\A i \in 1..Len(listed) : EnglishTerms(listed[i].text) = <<>>)
      <=> \A e \in ToSet(listed) : EnglishTerms(e.text) = <<>>
  BY <1>5, Zenon
<1> QED BY <1>2, <1>6, <1>7, Zenon DEF FindingsOf, listed

\* What MapChanges is silent about.
SameMap(old, new) ==
  /\ old # NotThere => new # NotThere
  /\ old # NotThere /\ new # NotThere => /\ old.comments = new.comments
                                         /\ old.type = new.type
                                         /\ KeysOf(old) = KeysOf(new)

LEMMA MapChangesSay ==
  ASSUME NEW old, NEW new, MapType(old), MapType(new)
  PROVE  FindingsOf(MapChanges(old, new)) /\ (MapChanges(old, new) = <<>> <=> SameMap(old, new))
<1> DEFINE code == <<"code-changed">>
           c == CommentChanges(old.comments, new.comments)
           Other == old.type # new.type \/ KeysOf(old) # KeysOf(new)
           d == IF Other THEN code ELSE <<>>
<1>1. code \in Seq(Codes) /\ <<>> \in Seq(Codes) /\ code # <<>>
  BY DEF Codes
<1> HIDE DEF code
<1>2. CASE old # NotThere /\ new # NotThere
  <2>1. MapChanges(old, new) = c \o d
    BY <1>2, Zenon DEF MapChanges, code
  <2>2. c \in Seq(Codes) /\ (c = <<>> <=> old.comments = new.comments)
    <3>1. old.comments \in Seq(ToSet(old.comments)) /\ new.comments \in Seq(ToSet(new.comments))
      BY <1>2, Zenon DEF MapType
    <3>2. FindingsOf(c) /\ (c = <<>> <=> old.comments = new.comments)
      BY <3>1, CommentsSay
    <3> QED BY <3>2, Zenon DEF FindingsOf
  <2>3. d \in Seq(Codes) /\ (d = <<>> <=> ~Other)
    BY <1>1, Zenon
  <2> HIDE DEF c, d
  <2>4. c \o d \in Seq(Codes) /\ (c \o d = <<>> <=> c = <<>> /\ d = <<>>)
    BY <2>2, <2>3, ConcatEmpty
  <2>5. SameMap(old, new) <=> old.comments = new.comments /\ ~Other
    BY <1>2, Zenon DEF SameMap
  <2> QED BY <2>1, <2>2, <2>3, <2>4, <2>5, Zenon DEF FindingsOf
<1>3. CASE old # NotThere /\ new = NotThere
  <2>1. MapChanges(old, new) = code /\ ~SameMap(old, new)
    BY <1>3, Zenon DEF MapChanges, SameMap, code
  <2> QED BY <1>1, <2>1, Zenon DEF FindingsOf
<1>4. CASE old = NotThere
  <2>1. MapChanges(old, new) = <<>> /\ SameMap(old, new)
    BY <1>4, Zenon DEF MapChanges, SameMap
  <2> QED BY <1>1, <2>1, Zenon DEF FindingsOf
<1> QED BY <1>2, <1>3, <1>4, Zenon

LEMMA CategoriesSay ==
  ASSUME NEW old, NEW new, MapType(old.map), MapType(new.map)
  PROVE  FindingsOf(CategoryChanges(old, new)) /\ (CategoryChanges(old, new) = <<>> <=> MapKept(old, new))
<1> DEFINE code == <<"code-changed">>
           Looks == new.map = NotThere /\ UsesCategories(new.pieces)
           a == MapChanges(old.map, new.map)
           b == IF Looks THEN code ELSE <<>>
           c == IF new.map # NotThere THEN EnglishEntries(new.map) ELSE <<>>
           Says == new.map # NotThere => \A e \in ToSet(Listed(new.map)) : EnglishTerms(e.text) = <<>>
<1>1. code \in Seq(Codes) /\ <<>> \in Seq(Codes) /\ code # <<>>
  BY DEF Codes
<1>2. CategoryChanges(old, new) = (a \o b) \o c
  BY Zenon DEF CategoryChanges
<1> HIDE DEF code
<1>3. a \in Seq(Codes) /\ (a = <<>> <=> SameMap(old.map, new.map))
  BY MapChangesSay, Zenon DEF FindingsOf
<1>4. b \in Seq(Codes) /\ (b = <<>> <=> ~Looks)
  BY <1>1, Zenon
<1>5. c \in Seq(Codes) /\ (c = <<>> <=> Says)
  BY <1>1, EntriesSay, Zenon DEF FindingsOf
<1>6. MapKept(old, new) <=> SameMap(old.map, new.map) /\ ~Looks /\ Says
  BY Zenon DEF MapKept, SameMap
<1> HIDE DEF a, b, c, Says, Looks
<1>7. (a \o b) \o c \in Seq(Codes) /\ ((a \o b) \o c = <<>> <=> a = <<>> /\ b = <<>> /\ c = <<>>)
  <2>1. a \o b \in Seq(Codes) /\ (a \o b = <<>> <=> a = <<>> /\ b = <<>>)
    BY <1>3, <1>4, ConcatEmpty
  <2> DEFINE ab == a \o b
  <2>2. ab \in Seq(Codes)
    BY <2>1
  <2> HIDE DEF ab
  <2>3. ab \o c \in Seq(Codes) /\ (ab \o c = <<>> <=> ab = <<>> /\ c = <<>>)
    BY <1>5, <2>2, ConcatEmpty
  <2> QED BY <2>1, <2>3, Zenon DEF ab
<1> QED BY <1>2, <1>3, <1>4, <1>5, <1>6, <1>7, Zenon DEF FindingsOf

-----------------------------------------------------------------------------
(* Counting places *)

Within(S, p, c) == Cardinality((p..c) \cap S)

LEMMA WithinStep ==
  ASSUME NEW S, NEW p \in Nat, NEW c \in Nat
  PROVE  /\ Within(S, p, c) \in Nat
         /\ c < p => Within(S, p, c) = 0
         /\ p <= c + 1 => Within(S, p, c + 1) = Within(S, p, c) + IF c + 1 \in S THEN 1 ELSE 0
<1> DEFINE A == (p..c) \cap S
           B == (p..(c + 1)) \cap S
<1>1. IsFiniteSet(A) /\ Within(S, p, c) = Cardinality(A) /\ Within(S, p, c + 1) = Cardinality(B)
  <2>1. IsFiniteSet(p..c)
    BY FS_Interval
  <2> QED BY <2>1, FS_Subset, Zenon DEF Within
<1>2. Cardinality(A) \in Nat
  BY <1>1, FS_CardinalityType
<1>3. c < p => A = {}
  OBVIOUS
<1>4. p <= c + 1 /\ c + 1 \in S => B = A \cup {c + 1} /\ c + 1 \notin A
  OBVIOUS
<1>5. c + 1 \notin S => B = A
  OBVIOUS
<1> HIDE DEF A, B
<1>6. c + 1 \notin A => Cardinality(A \cup {c + 1}) = Cardinality(A) + 1
  BY <1>1, FS_AddElement
<1>7. c < p => Cardinality(A) = 0
  BY <1>3, FS_EmptySet
<1>8. p <= c + 1 /\ c + 1 \in S => Cardinality(B) = Cardinality(A) + 1
  BY <1>4, <1>6
<1>9. c + 1 \notin S => Cardinality(B) = Cardinality(A) + 0
  BY <1>2, <1>5
<1> QED BY <1>1, <1>2, <1>7, <1>8, <1>9

-----------------------------------------------------------------------------
(* Code: the parentheses that are dropped *)

\* The places of x in s.
At(s, x) == {i \in Nat : s[i] = x}

\* The place that closes what p opens holds y, where x opens and y closes.
LEMMA Closes ==
  ASSUME NEW s, NEW x, NEW y, x # y, NEW p \in Nat \ {0}, s[p] = x, NEW c \in Nat, p <= c,
         Within(At(s, x), p, c) = Within(At(s, y), p, c),
         \A d \in p..(c - 1) : Within(At(s, x), p, d) > Within(At(s, y), p, d)
  PROVE  s[c] = y
<1> DEFINE X(d) == Within(At(s, x), p, d)
           Y(d) == Within(At(s, y), p, d)
<1>1. \A d \in Nat : /\ X(d) \in Nat /\ Y(d) \in Nat
                     /\ p <= d + 1 => /\ X(d + 1) = X(d) + IF d + 1 \in At(s, x) THEN 1 ELSE 0
                                      /\ Y(d + 1) = Y(d) + IF d + 1 \in At(s, y) THEN 1 ELSE 0
                     /\ d < p => X(d) = 0 /\ Y(d) = 0
  BY WithinStep
<1>2. \A i \in Nat : (i \in At(s, x) <=> s[i] = x) /\ (i \in At(s, y) <=> s[i] = y)
  BY DEF At
<1>3. X(c) = Y(c) /\ \A d \in p..(c - 1) : X(d) > Y(d)
  OBVIOUS
<1> HIDE DEF X, Y
<1>4. ASSUME c = p PROVE FALSE
  <2>1. p \in At(s, x) /\ p \notin At(s, y)
    BY <1>2
  <2> DEFINE q == p - 1
  <2>2. q \in Nat /\ p = q + 1 /\ q < p /\ p <= q + 1
    OBVIOUS
  <2> HIDE DEF q
  <2>3. X(p) = 0 + 1 /\ Y(p) = 0 + 0
    BY <1>1, <2>1, <2>2
  <2> QED BY <1>3, <1>4, <2>2, <2>3
<1>5. CASE c # p
  <2>1. c - 1 \in p..(c - 1) /\ c - 1 \in Nat /\ (c - 1) + 1 = c /\ p <= (c - 1) + 1
    BY <1>5
  <2> DEFINE d == c - 1
  <2>2. d \in Nat /\ d + 1 = c /\ p <= d + 1 /\ X(d) > Y(d)
    BY <1>3, <2>1
  <2> HIDE DEF d
  <2>3. /\ X(d) \in Nat /\ Y(d) \in Nat
        /\ X(c) = X(d) + IF c \in At(s, x) THEN 1 ELSE 0
        /\ Y(c) = Y(d) + IF c \in At(s, y) THEN 1 ELSE 0
    BY <1>1, <2>2
  <2>4. c \in At(s, y)
    <3> SUFFICES ASSUME c \notin At(s, y) PROVE FALSE
      OBVIOUS
    <3>1. Y(c) = Y(d)
      BY <2>3
    <3>2. X(c) >= X(d)
      BY <2>3
    <3>3. X(c) = Y(c)
      BY <1>3
    <3> QED BY <2>2, <2>3, <3>1, <3>2, <3>3
  <2> QED BY <1>2, <2>4
<1> QED BY <1>4, <1>5

ParenTokens == {<<"(">>, <<")">>}

LEMMA ParensDiffer == <<"(">> # <<")">>
OBVIOUS

\* What is dropped are parentheses, and none if there is no JSX.
LEMMA WrappingSays ==
  ASSUME NEW T, NEW s \in Seq(T)
  PROVE  /\ \A i \in Wrapping(s) : s[i] \in ParenTokens
         /\ <<"<">> \notin ToSet(s) => Wrapping(s) = {}
<1>1. ASSUME NEW p \in DOMAIN s, s[p] = <<"(">>, NEW c \in DOMAIN s, WrapsJsx(s, p, c)
      PROVE  s[c] = <<")">> /\ <<"<">> \in ToSet(s)
  <2> DEFINE x == <<"(">>
             y == <<")">>
  <2>1. x # y /\ s[p] = x
    BY <1>1, ParensDiffer
  <2>2. p \in Nat \ {0} /\ c \in Nat /\ c \in p..Len(s) /\ p <= c
    <3>1. c \in p..Len(s)
      BY <1>1, Zenon DEF WrapsJsx, Closing
    <3> QED BY <3>1
  <2>3. \A d \in Nat : /\ Quantify(p..d, LAMBDA i : s[i] = <<"(">>) = Within(At(s, x), p, d)
                       /\ Quantify(p..d, LAMBDA i : s[i] = <<")">>) = Within(At(s, y), p, d)
    <3> TAKE d \in Nat
    <3> DEFINE D == p..d
    <3>1. \A i \in D : i \in Nat
      BY <2>2
    <3> HIDE DEF D
    <3>2. {i \in D : s[i] = x} = D \cap At(s, x) /\ {i \in D : s[i] = y} = D \cap At(s, y)
      <4> HIDE DEF x, y
      <4> QED BY <3>1 DEF At
    <3> QED BY <3>2, Zenon DEF Quantify, Within, D
  <2>4. /\ Within(At(s, x), p, c) - Within(At(s, y), p, c) = 0
        /\ \A d \in p..(c - 1) : Within(At(s, x), p, d) - Within(At(s, y), p, d) > 0
    <3>1. \A d \in p..(c - 1) : d \in Nat
      BY <2>2
    <3>2. c \in Closing(s, p)
      BY <1>1, Zenon DEF WrapsJsx
    <3> HIDE DEF x, y
    <3>3. /\ Quantify(p..c, LAMBDA i : s[i] = <<"(">>) - Quantify(p..c, LAMBDA i : s[i] = <<")">>) = 0
          /\ \A d \in p..(c - 1) :
               Quantify(p..d, LAMBDA i : s[i] = <<"(">>) - Quantify(p..d, LAMBDA i : s[i] = <<")">>) > 0
      BY <3>2, Zenon DEF Closing
    <3> QED BY <2>2, <2>3, <3>1, <3>3, Zenon
  <2> HIDE DEF x, y
  <2>5. \A d \in Nat : Within(At(s, x), p, d) \in Nat /\ Within(At(s, y), p, d) \in Nat
    BY <2>2, WithinStep
  <2>6. Within(At(s, x), p, c) = Within(At(s, y), p, c)
    <3> DEFINE a == Within(At(s, x), p, c)
               b == Within(At(s, y), p, c)
    <3>1. a \in Nat /\ b \in Nat /\ a - b = 0
      BY <2>2, <2>4, <2>5, Zenon
    <3> HIDE DEF a, b
    <3>2. a = b
      BY <3>1
    <3> QED BY <3>2 DEF a, b
  <2>7. \A d \in p..(c - 1) : Within(At(s, x), p, d) > Within(At(s, y), p, d)
    <3> TAKE d \in p..(c - 1)
    <3> DEFINE a == Within(At(s, x), p, d)
               b == Within(At(s, y), p, d)
    <3>1. d \in Nat
      BY <2>2
    <3>2. a \in Nat /\ b \in Nat /\ a - b > 0
      BY <2>4, <2>5, <3>1, Zenon
    <3> HIDE DEF a, b
    <3>3. a > b
      BY <3>2
    <3> QED BY <3>3 DEF a, b
  <2>8. s[c] = y
    BY <2>1, <2>2, <2>6, <2>7, Closes
  <2>9. <<"<">> \in ToSet(s)
    <3>1. PICK i \in p..c : s[i] = <<"<">>
      BY <1>1, Zenon DEF WrapsJsx
    <3>2. i \in DOMAIN s
      BY <1>1, <2>2, <3>1
    <3> QED BY <3>1, <3>2, Zenon DEF ToSet
  <2> QED BY <2>8, <2>9 DEF y
<1>2. ASSUME NEW i \in Wrapping(s) PROVE s[i] \in ParenTokens /\ <<"<">> \in ToSet(s)
  <2>1. PICK p \in DOMAIN s, c \in DOMAIN s : i \in {p, c} /\ s[p] = <<"(">> /\ WrapsJsx(s, p, c)
    BY <1>2, Zenon DEF Wrapping
  <2>2. s[c] = <<")">> /\ <<"<">> \in ToSet(s)
    BY <1>1, <2>1
  <2> QED BY <2>1, <2>2, Zenon DEF ParenTokens
<1> QED BY <1>2, Zenon


\* Tokens of which nothing is left may be left out.
LEMMA DropTokens ==
  ASSUME NEW T, NEW s \in Seq(Seq(T)), NEW P, NEW I, \A i \in 1..Len(s) : i \in I => Drop(s[i], P) = <<>>
  PROVE  Drop(FlattenSeq(Without(s, I)), P) = Drop(FlattenSeq(s), P)
<1> DEFINE x == Pieces(s, I)
<1>1. Without(s, I) = FlattenSeq(x)
  BY WithoutType
<1>2. x \in Seq(Seq(Seq(T))) /\ Len(x) = Len(s) /\ \A i \in 1..Len(s) : x[i] = IF i \in I THEN <<>> ELSE <<s[i]>>
  BY PiecesType
<1> HIDE DEF x
<1>3. \A i \in 1..Len(s) : s[i] \in Seq(T)
  OBVIOUS
<1>4. \A i \in 1..Len(x) : Drop(FlattenSeq(x[i]), P) = Drop(s[i], P)
  <2> TAKE i \in 1..Len(x)
  <2>1. i \in 1..Len(s) /\ s[i] \in Seq(T)
    BY <1>2, <1>3
  <2>2. CASE i \in I
    <3>1. x[i] = <<>> /\ Drop(s[i], P) = <<>>
      BY <1>2, <2>1, <2>2
    <3> QED BY <3>1, JoinNothing, DropNothing, Zenon
  <2>3. CASE i \notin I
    <3>1. x[i] = <<s[i]>>
      BY <1>2, <2>1, <2>3
    <3>2. FlattenSeq(<<s[i]>>) = s[i]
      BY <2>1, JoinOne
    <3> QED BY <3>1, <3>2, Zenon
  <2> QED BY <2>2, <2>3
<1>5. x \in Seq(Seq(Seq(T))) /\ Len(x) = Len(s)
  BY <1>2
<1>6. Drop(FlattenSeq(FlattenSeq(x)), P) = Drop(FlattenSeq(s), P)
  BY <1>4, <1>5, DropJoinJoin
<1> QED BY <1>1, <1>6, Zenon

LEMMA DropParen ==
  ASSUME NEW T, NEW x \in T, x \in Parens
  PROVE  Drop(<<x>>, Parens) = <<>>
<1>1. <<>> \in Seq(T) /\ <<x>> = Append(<<>>, x)
  OBVIOUS
<1>2. Drop(Append(<<>>, x), Parens)
        = IF x \in Parens THEN Drop(<<>>, Parens) ELSE Append(Drop(<<>>, Parens), x)
  BY <1>1, DropLast
<1> QED BY <1>1, <1>2, DropNothing, Zenon

LEMMA UnwrapSays ==
  ASSUME NEW T, NEW s \in Seq(Seq(T))
  PROVE  /\ Drop(FlattenSeq(Unwrap(s)), Parens) = Drop(FlattenSeq(s), Parens)
         /\ <<"<">> \notin ToSet(s) => Unwrap(s) = s
<1> DEFINE I == Wrapping(s)
<1>1. Unwrap(s) = Without(s, I)
  BY Zenon DEF Unwrap, Without
<1>2. (\A i \in I : s[i] \in ParenTokens) /\ (<<"<">> \notin ToSet(s) => I = {})
  BY WrappingSays
<1> HIDE DEF I
<1>3. \A e \in ParenTokens : Drop(e, Parens) = <<>>
  <2> DEFINE a == "("
             b == ")"
  <2>1. a \in Parens /\ b \in Parens /\ ParenTokens = {<<a>>, <<b>>}
    BY DEF Parens, ParenTokens
  <2> HIDE DEF a, b
  <2>2. Drop(<<a>>, Parens) = <<>> /\ Drop(<<b>>, Parens) = <<>>
    BY <2>1, DropParen
  <2> QED BY <2>1, <2>2
<1>4. \A i \in 1..Len(s) : i \in I => Drop(s[i], Parens) = <<>>
  BY <1>2, <1>3
<1>5. Drop(FlattenSeq(Without(s, I)), Parens) = Drop(FlattenSeq(s), Parens)
  BY <1>4, DropTokens
<1>6. Without(s, {}) = s
  BY WithoutNone
<1> QED BY <1>1, <1>2, <1>5, <1>6, Zenon

LEMMA UnwrappedSays ==
  ASSUME NEW T, NEW s \in Seq(Seq(T))
  PROVE  /\ Drop(FlattenSeq(Unwrapped(s)), Parens) = Drop(FlattenSeq(s), Parens)
         /\ <<"<">> \notin ToSet(s) => Unwrapped(s) = s
<1>1. Drop(FlattenSeq(Unwrapped(s)), Parens) = Drop(FlattenSeq(s), Parens)
  <2> DEFINE V == {v \in Seq(Seq(T)) : Drop(FlattenSeq(v), Parens) = Drop(FlattenSeq(s), Parens)}
  <2>1. s \in V /\ Len(s) \in Nat
    OBVIOUS
  <2>2. \A v \in V : Unwrap(v) \in V
    BY UnwrapSays, UnwrapType
  <2>3. Unwrapped(s) \in V
    <3> HIDE DEF V
    <3> QED BY <2>1, <2>2, UnwrappedKeeps
  <2> QED BY <2>3
<1>2. ASSUME <<"<">> \notin ToSet(s) PROVE Unwrapped(s) = s
  <2> DEFINE V == {s}
  <2>1. s \in V /\ Len(s) \in Nat /\ \A v \in V : v = s
    OBVIOUS
  <2>2. Unwrap(s) = s
    BY <1>2, UnwrapSays
  <2> HIDE DEF V
  <2>3. Unwrapped(s) \in V
    BY <2>1, <2>2, UnwrappedKeeps
  <2> QED BY <2>1, <2>3
<1> QED BY <1>1, <1>2

LEMMA ConcatPlaces ==
  ASSUME NEW T, NEW s \in Seq(T), NEW u \in Seq(T)
  PROVE  /\ DOMAIN s = 1..Len(s) /\ DOMAIN u = 1..Len(u)
         /\ s \o u \in Seq(T) /\ DOMAIN (s \o u) = 1..Len(s \o u)
         /\ \A i \in 1..Len(s) : (s \o u)[i] = s[i] /\ i \in 1..Len(s \o u)
         /\ \A i \in 1..Len(u) : (s \o u)[Len(s) + i] = u[i] /\ Len(s) + i \in 1..Len(s \o u)
         /\ \A i \in 1..Len(s \o u) : i \in 1..Len(s) \/ \E j \in 1..Len(u) : i = Len(s) + j
<1>1. \A i \in 1..(Len(s) + Len(u)) : i \notin 1..Len(s) => i - Len(s) \in 1..Len(u) /\ i = Len(s) + (i - Len(s))
  OBVIOUS
<1>2. Len(s \o u) = Len(s) + Len(u)
  OBVIOUS
<1>3. \A i \in 1..Len(s \o u) : i \in 1..Len(s) \/ \E j \in 1..Len(u) : i = Len(s) + j
  BY <1>1, <1>2, Zenon
<1>4. /\ DOMAIN s = 1..Len(s) /\ DOMAIN u = 1..Len(u)
      /\ s \o u \in Seq(T) /\ DOMAIN (s \o u) = 1..Len(s \o u)
      /\ \A i \in 1..Len(s) : (s \o u)[i] = s[i] /\ i \in 1..Len(s \o u)
      /\ \A i \in 1..Len(u) : (s \o u)[Len(s) + i] = u[i] /\ Len(s) + i \in 1..Len(s \o u)
  OBVIOUS
<1> QED BY <1>3, <1>4, Zenon

LEMMA HasEither ==
  ASSUME NEW T, NEW s \in Seq(T), NEW t \in Seq(T)
  PROVE  s \o t \in Seq(T) /\ ToSet(s \o t) = ToSet(s) \cup ToSet(t)
<1> DEFINE u == s \o t
<1>1. /\ DOMAIN s = 1..Len(s) /\ DOMAIN t = 1..Len(t) /\ u \in Seq(T) /\ DOMAIN u = 1..Len(u)
      /\ \A i \in 1..Len(s) : u[i] = s[i] /\ i \in 1..Len(u)
      /\ \A i \in 1..Len(t) : u[Len(s) + i] = t[i] /\ Len(s) + i \in 1..Len(u)
      /\ \A i \in 1..Len(u) : i \in 1..Len(s) \/ \E j \in 1..Len(t) : i = Len(s) + j
  BY ConcatPlaces
<1> HIDE DEF u
<1>2. ASSUME NEW e PROVE e \in ToSet(u) <=> e \in ToSet(s) \/ e \in ToSet(t)
  <2>1. e \in ToSet(u) => e \in ToSet(s) \/ e \in ToSet(t)
    <3> SUFFICES ASSUME e \in ToSet(u) PROVE e \in ToSet(s) \/ e \in ToSet(t)
      OBVIOUS
    <3>1. PICK i \in 1..Len(u) : u[i] = e
      BY <1>1, Zenon DEF ToSet
    <3> QED BY <1>1, <3>1, Zenon DEF ToSet
  <2>2. e \in ToSet(s) \/ e \in ToSet(t) => e \in ToSet(u)
    BY <1>1, Zenon DEF ToSet
  <2> QED BY <2>1, <2>2
<1>3. ToSet(u) = ToSet(s) \cup ToSet(t)
  BY <1>2, Zenon
<1> QED BY <1>1, <1>3 DEF u

\* What a token has, they have when they are joined.
LEMMA JoinHas ==
  ASSUME NEW T, NEW s \in Seq(Seq(T)), NEW e \in ToSet(s), NEW x \in ToSet(e)
  PROVE  x \in ToSet(FlattenSeq(s))
<1> DEFINE Says(v) == e \in ToSet(v) => x \in ToSet(FlattenSeq(v))
           E == {n \in Nat : \A v \in Seq(Seq(T)) : Len(v) = n => Says(v)}
<1>1. 0 \in E
  <2>1. \A v \in Seq(Seq(T)) : Len(v) = 0 => v = <<>>
    OBVIOUS
  <2>2. ToSet(<<>>) = {}
    BY DEF ToSet
  <2> QED BY <2>1, <2>2
<1>2. ASSUME NEW n \in Nat, n \in E PROVE n + 1 \in E
  <2> SUFFICES ASSUME NEW v \in Seq(Seq(T)), Len(v) = n + 1 PROVE Says(v)
    OBVIOUS
  <2>1. PICK w \in Seq(Seq(T)), f \in Seq(T) : v = Append(w, f)
    <3>1. v # <<>>
      OBVIOUS
    <3> QED BY <3>1, SequenceEmptyOrAppend, Zenon
  <2>2. Len(w) = n
    BY <2>1
  <2>3. Says(w)
    BY <1>2, <2>2
  <2>4. ToSet(v) = ToSet(w) \cup {f}
    BY <2>1, SetOfAppend
  <2>5. FlattenSeq(w) \in Seq(T) /\ FlattenSeq(v) = FlattenSeq(w) \o f
    BY <2>1, JoinStep
  <2>6. ToSet(FlattenSeq(w) \o f) = ToSet(FlattenSeq(w)) \cup ToSet(f)
    BY <2>1, <2>5, HasEither
  <2>7. e \in ToSet(v) => e \in ToSet(w) \/ e = f
    BY <2>4
  <2>8. ToSet(FlattenSeq(v)) = ToSet(FlattenSeq(w)) \cup ToSet(f)
    BY <2>5, <2>6, Zenon
  <2> QED BY <2>3, <2>7, <2>8
<1>3. Nat \subseteq E
  <2> HIDE DEF E
  <2> QED BY <1>1, <1>2, Induct
<1>4. Len(s) \in E
  BY <1>3
<1> QED BY <1>4

\* Its tokens say what the code says, but for blanks, commas and, if it has JSX,
\* parentheses.
LEMMA TokensSay ==
  ASSUME NEW T, HasBlank(T), NEW lines \in Seq(Seq(T))
  PROVE  /\ Tokens(lines) \in Seq(Seq(T))
         /\ Drop(FlattenSeq(Tokens(lines)), Light \cup Parens) = Drop(Joined(lines), Light \cup Parens)
         /\ "<" \notin ToSet(Joined(lines)) => Drop(FlattenSeq(Tokens(lines)), Light) = Drop(Joined(lines), Light)
<1> DEFINE k == SkeletonTokens(lines)
           f == FlattenSeq(k)
           g == FlattenSeq(Tokens(lines))
           j == Joined(lines)
           Both == Light \cup Parens
<1>1. Tokens(lines) \in Seq(Seq(T)) /\ Tokens(lines) = Unwrapped(k)
  BY TokensType, Zenon DEF Tokens
<1>2. k \in Seq(Seq(T)) /\ Drop(f, Light) = Drop(FlattenSeq(lines), Light)
  BY SkeletonTokensSay
<1>3. j \in Seq(T) /\ Drop(j, Light) = Drop(FlattenSeq(lines), Light)
  BY JoinedSays
<1>4. f \in Seq(T) /\ g \in Seq(T)
  BY <1>1, <1>2, FlatType
<1> HIDE DEF j, k
<1>5. Drop(g, Parens) = Drop(f, Parens) /\ (<<"<">> \notin ToSet(k) => Unwrapped(k) = k)
  BY <1>1, <1>2, UnwrappedSays
<1>6. Drop(f, Light) = Drop(j, Light)
  BY <1>2, <1>3, Zenon
<1> DEFINE x == "<"
<1>7. x \notin Light
  BY DEF Light
<1>8. x \in ToSet(<<x>>)
  BY DEF ToSet
<1> HIDE DEF x, f
<1>9. <<x>> \in ToSet(k) => x \in ToSet(f)
  BY <1>2, <1>8, JoinHas DEF f
<1>10. (x \in ToSet(Drop(f, Light)) <=> x \in ToSet(f)) /\ (x \in ToSet(Drop(j, Light)) <=> x \in ToSet(j))
  BY <1>3, <1>4, <1>7, DropHas
<1>11. x \notin ToSet(j) => Drop(g, Light) = Drop(j, Light)
  BY <1>1, <1>5, <1>6, <1>9, <1>10, Zenon DEF x, f
<1> HIDE DEF g
<1>12. Light \subseteq Both /\ Parens \subseteq Both
  OBVIOUS
<1> HIDE DEF Both
<1>13. Drop(g, Both) = Drop(f, Both)
  BY <1>4, <1>5, <1>12, DropMore
<1>14. Drop(f, Both) = Drop(j, Both)
  BY <1>3, <1>4, <1>6, <1>12, DropMore
<1> QED BY <1>1, <1>11, <1>13, <1>14, Zenon DEF Both, g, j, x

\* What SameCode says of two skeletons.
SameText(a, b) ==
  \/ Drop(Unblanked(a), Light) = Drop(Unblanked(b), Light)
  \/ Drop(Joined(a), Light) = Drop(Joined(b), Light)
  \/ /\ Drop(Joined(a), Light \cup Parens) = Drop(Joined(b), Light \cup Parens)
     /\ "<" \in ToSet(Joined(a) \o Joined(b))

\* Of the code nothing is said that is the same, and no more is kept silent about.
LEMMA CodeSays ==
  ASSUME NEW T, HasBlank(T), NEW a \in Seq(Seq(T)), NEW b \in Seq(Seq(T))
  PROVE  /\ FindingsOf(CodeChanges(a, b))
         /\ Joined(a) = Joined(b) => CodeChanges(a, b) = <<>>
         /\ CodeChanges(a, b) = <<>> => SameText(a, b)
<1> DEFINE hunks == CodeHunks(a, b)
           s == Tokens(a)
           t == Tokens(b)
           code == "code-changed"
           Silent == SameText(a, b)
<1>1. CodeChanges(a, b) = IF Collapsed(a) = Collapsed(b) THEN <<>> ELSE Repeated(code, Len(hunks))
  BY Zenon DEF CodeChanges
<1>2. code \in Codes /\ <<>> \in Seq(Codes)
  BY DEF Codes
<1>3. Joined(a) = Joined(b) => Collapsed(a) = Collapsed(b)
  BY Zenon DEF Collapsed, Tightened
<1>4. Collapsed(a) = Collapsed(b) => Silent
  <2>1. /\ Drop(Collapsed(a), Light) = Drop(Unblanked(a), Light)
        /\ Drop(Collapsed(b), Light) = Drop(Unblanked(b), Light)
    BY CollapsedSays
  <2> QED BY <2>1, Zenon DEF SameText
<1>5. hunks = LineHunks(a, b) \/ hunks = Hunks(s, t)
  BY Zenon DEF CodeHunks
<1>6. Len(LineHunks(a, b)) \in Nat /\ (Len(LineHunks(a, b)) = 0 => a = b)
  <2> DEFINE n == Cardinality(Differing(a, b))
             Line(m) == [old |-> ItemAt(a, SetToSortSeq(Differing(a, b), <)[m]),
                         new |-> ItemAt(b, SetToSortSeq(Differing(a, b), <)[m])]
             l == [m \in 1..n |-> Line(m)]
  <2>1. n \in Nat /\ (n = 0 <=> a = b)
    BY PlacesDiffer
  <2>2. LineHunks(a, b) = l
    BY Zenon DEF LineHunks, Differing
  <2> HIDE DEF n, Line
  <2>3. Len(l) = n
    BY <2>1
  <2> QED BY <2>1, <2>2, <2>3
<1>7. a = b => Silent
  BY Zenon DEF SameText
<1>8. /\ s \in Seq(Seq(T)) /\ t \in Seq(Seq(T))
      /\ s = t => Silent
  <2>1. /\ s \in Seq(Seq(T)) /\ Drop(FlattenSeq(s), Light \cup Parens) = Drop(Joined(a), Light \cup Parens)
        /\ "<" \notin ToSet(Joined(a)) => Drop(FlattenSeq(s), Light) = Drop(Joined(a), Light)
    BY TokensSay
  <2>2. /\ t \in Seq(Seq(T)) /\ Drop(FlattenSeq(t), Light \cup Parens) = Drop(Joined(b), Light \cup Parens)
        /\ "<" \notin ToSet(Joined(b)) => Drop(FlattenSeq(t), Light) = Drop(Joined(b), Light)
    BY TokensSay
  <2>3. "<" \in ToSet(Joined(a)) \/ "<" \in ToSet(Joined(b)) => "<" \in ToSet(Joined(a) \o Joined(b))
    <3>1. Joined(a) \in Seq(T) /\ Joined(b) \in Seq(T)
      BY JoinedSays
    <3>2. ToSet(Joined(a) \o Joined(b)) = ToSet(Joined(a)) \cup ToSet(Joined(b))
      BY <3>1, HasEither
    <3> QED BY <3>2, Zenon
  <2> HIDE DEF s, t
  <2> QED BY <2>1, <2>2, <2>3, Zenon DEF SameText
<1> HIDE DEF s, t, Silent
<1>9. Len(Hunks(s, t)) \in Nat /\ (Len(Hunks(s, t)) = 0 => s = t)
  <2> DEFINE S == Seq(T)
             h == Hunks(s, t)
  <2>1. s \in Seq(S) /\ t \in Seq(S)
    BY <1>8
  <2> HIDE DEF S
  <2>2. Apart(S, s, t, h)
    BY <2>1, HunksApart
  <2> HIDE DEF h
  <2>3. h \in Seq(HunksOver(S)) /\ (h = <<>> => s = t)
    BY <2>2, Zenon DEF Apart
  <2>4. Len(h) \in Nat /\ (Len(h) = 0 => h = <<>>)
    BY <2>3
  <2> QED BY <2>3, <2>4 DEF h
<1> HIDE DEF hunks
<1>10. Len(hunks) \in Nat /\ (Len(hunks) = 0 => Silent)
  BY <1>5, <1>6, <1>7, <1>8, <1>9, Zenon
<1> HIDE DEF code
<1>11. FindingsOf(Repeated(code, Len(hunks))) /\ (Repeated(code, Len(hunks)) = <<>> <=> Len(hunks) = 0)
  BY <1>2, <1>10, RepeatedSays
<1> QED BY <1>1, <1>2, <1>3, <1>4, <1>10, <1>11, Zenon DEF FindingsOf, Silent

-----------------------------------------------------------------------------
(* Labels: which of its slot a label is *)

UpTo(S, n) == Within(S, 1, n)

LEMMA UpToStep ==
  ASSUME NEW S
  PROVE  /\ UpTo(S, 0) = 0
         /\ \A n \in Nat : UpTo(S, n) \in Nat /\ UpTo(S, n + 1) = UpTo(S, n) + IF n + 1 \in S THEN 1 ELSE 0
<1>1. \A n \in Nat : 1 <= n + 1 /\ (n = 0 => n < 1)
  OBVIOUS
<1>2. 1 \in Nat /\ 0 \in Nat
  OBVIOUS
<1> QED BY <1>1, <1>2, WithinStep DEF UpTo

LEMMA UpToGrows ==
  ASSUME NEW S, NEW m \in Nat, NEW n \in Nat, m < n
  PROVE  UpTo(S, m) <= UpTo(S, n) /\ (n \in S => UpTo(S, m) < UpTo(S, n))
<1> DEFINE f == [i \in Nat |-> UpTo(S, i)]
           E == {d \in Nat : f[m] <= f[m + d]}
<1>1. \A i \in Nat : f[i] \in Nat /\ f[i + 1] = f[i] + IF i + 1 \in S THEN 1 ELSE 0
  BY UpToStep
<1>2. UpTo(S, m) = f[m] /\ UpTo(S, n) = f[n]
  OBVIOUS
<1> HIDE DEF f
<1>3. 0 \in E
  <2>1. m + 0 = m /\ f[m] <= f[m]
    BY <1>1
  <2> QED BY <2>1
<1>4. ASSUME NEW d \in Nat, d \in E PROVE d + 1 \in E
  <2> DEFINE i == m + d
  <2>1. i \in Nat /\ i + 1 = m + (d + 1) /\ f[m] <= f[i]
    BY <1>4
  <2> HIDE DEF i
  <2>2. f[i + 1] >= f[i] /\ f[i + 1] \in Nat /\ f[i] \in Nat /\ f[m] \in Nat
    BY <1>1, <2>1
  <2>3. f[m] <= f[i + 1]
    BY <2>1, <2>2
  <2> QED BY <2>1, <2>3
<1>5. Nat \subseteq E
  <2> HIDE DEF E
  <2> QED BY <1>3, <1>4, Induct
<1> DEFINE p == n - 1
<1>6. p \in Nat /\ n = p + 1 /\ p - m \in Nat /\ p = m + (p - m)
  OBVIOUS
<1>7. f[m] <= f[p]
  BY <1>5, <1>6
<1> HIDE DEF p
<1>8. f[n] = f[p] + IF n \in S THEN 1 ELSE 0
  BY <1>1, <1>6
<1>9. f[m] \in Nat /\ f[p] \in Nat
  BY <1>1, <1>6
<1> QED BY <1>2, <1>7, <1>8, <1>9

LEMMA UpToAll ==
  ASSUME NEW S, NEW n \in Nat, NEW r \in 1..UpTo(S, n)
  PROVE  \E i \in 1..n : i \in S /\ UpTo(S, i) = r
<1> DEFINE f == [i \in Nat |-> UpTo(S, i)]
           E == {m \in Nat : \A k \in 1..f[m] : \E i \in 1..m : i \in S /\ f[i] = k}
<1>1. f[0] = 0 /\ \A i \in Nat : f[i] \in Nat /\ f[i + 1] = f[i] + IF i + 1 \in S THEN 1 ELSE 0
  BY UpToStep
<1>2. \A i \in Nat : UpTo(S, i) = f[i]
  OBVIOUS
<1> HIDE DEF f
<1>3. 0 \in E
  BY <1>1
<1>4. ASSUME NEW m \in Nat, m \in E PROVE m + 1 \in E
  <2> SUFFICES ASSUME NEW k \in 1..f[m + 1] PROVE \E i \in 1..(m + 1) : i \in S /\ f[i] = k
    OBVIOUS
  <2>1. CASE k \in 1..f[m]
    <3>1. PICK i \in 1..m : i \in S /\ f[i] = k
      BY <1>4, <2>1
    <3>2. i \in 1..(m + 1)
      OBVIOUS
    <3> QED BY <3>1, <3>2
  <2>2. CASE k \notin 1..f[m]
    <3>1. f[m] \in Nat /\ f[m + 1] = f[m] + IF m + 1 \in S THEN 1 ELSE 0
      BY <1>1
    <3>2. m + 1 \in S /\ f[m + 1] = k
      BY <2>2, <3>1
    <3>3. m + 1 \in 1..(m + 1)
      OBVIOUS
    <3> QED BY <3>2, <3>3
  <2> QED BY <2>1, <2>2
<1>5. Nat \subseteq E
  <2> HIDE DEF E
  <2> QED BY <1>3, <1>4, Induct
<1>6. n \in E
  BY <1>5
<1>7. PICK i \in 1..n : i \in S /\ f[i] = r
  BY <1>2, <1>6
<1>8. i \in Nat
  OBVIOUS
<1> QED BY <1>2, <1>7, <1>8

\* The first of S that comes after the first r is the next one.
LEMMA NextIs ==
  ASSUME NEW S, NEW n \in Nat, NEW r \in Nat, NEW F, F = {i \in 1..n : i \in S /\ UpTo(S, i) > r}, F # {}
  PROVE  Min(F) \in F /\ UpTo(S, Min(F)) = r + 1
<1> DEFINE m == Min(F)
<1>1. F \in SUBSET Nat
  OBVIOUS
<1>2. m \in F /\ \A i \in F : m <= i
  BY <1>1, MinIs
<1> HIDE DEF m
<1>3. m \in 1..n /\ m \in Nat /\ m \in S /\ UpTo(S, m) > r /\ UpTo(S, m) \in Nat
  <2>1. m \in 1..n /\ m \in S /\ UpTo(S, m) > r
    BY <1>2
  <2>2. m \in Nat
    BY <2>1
  <2> QED BY <2>1, <2>2, UpToStep
<1>4. ASSUME UpTo(S, m) > r + 1 PROVE FALSE
  <2> DEFINE q == UpTo(S, m) - 1
  <2>1. q \in 1..UpTo(S, m) /\ q > r /\ q # UpTo(S, m)
    BY <1>3, <1>4
  <2> HIDE DEF q
  <2>2. PICK i \in 1..m : i \in S /\ UpTo(S, i) = q
    BY <1>3, <2>1, UpToAll
  <2>3. i \in 1..n
    BY <1>3
  <2>4. i \in F
    BY <2>1, <2>2, <2>3
  <2>5. i = m
    BY <1>2, <1>3, <2>4
  <2> QED BY <2>1, <2>2, <2>5
<1>5. UpTo(S, m) = r + 1
  BY <1>3, <1>4
<1> QED BY <1>2, <1>5 DEF m

InSlot(s, x) == {i \in Nat : Slot(s[i]) = x}

LEMMA RankIs ==
  ASSUME NEW s, NEW i \in Nat
  PROVE  Rank(s, i) = UpTo(InSlot(s, Slot(s[i])), i)
<1> DEFINE x == Slot(s[i])
           D == 1..i
           Of(j) == Slot(s[j])
<1>1. D \subseteq Nat
  OBVIOUS
<1>2. InSlot(s, x) = {j \in Nat : Of(j) = x}
  BY Zenon DEF InSlot
<1>3. Rank(s, i) = Cardinality({j \in D : Of(j) = x})
  BY Zenon DEF Rank
<1> HIDE DEF x, D, Of
<1>4. {j \in D : Of(j) = x} = D \cap InSlot(s, x)
  BY <1>1, <1>2
<1> QED BY <1>3, <1>4, Zenon DEF UpTo, Within, D, x

-----------------------------------------------------------------------------
(* Labels: pairs *)

\* The j-th new label replaces the i-th old one.
Mates(old, new, i, j) ==
  /\ i \in 1..Len(old) /\ j \in 1..Len(new)
  /\ Slot(old[i]) = Slot(new[j]) /\ Rank(old, i) = Rank(new, j)

\* It does when the i-th is the first of its slot left by the labels before.
LEMMA FirstLeft ==
  ASSUME NEW L, NEW old \in Seq(L), NEW new \in Seq(L), NEW n \in Nat, n + 1 \in 1..Len(new), NEW F,
         F = {i \in 1..Len(old) : Slot(old[i]) = Slot(new[n + 1]) /\ \A j \in 1..n : ~Mates(old, new, i, j)}
  PROVE  \A i : Mates(old, new, i, n + 1) <=> F # {} /\ i = Min(F)
<1> DEFINE k == n + 1
           x == Slot(new[k])
           A == InSlot(old, x)
           B == InSlot(new, x)
           r == UpTo(B, n)
<1>1. k \in Nat /\ k = n + 1 /\ n < k /\ k \in 1..Len(new) /\ Len(new) \in Nat /\ Len(old) \in Nat
  OBVIOUS
<1>2. \A i \in Nat : (i \in A <=> Slot(old[i]) = x) /\ (i \in B <=> Slot(new[i]) = x)
  BY Zenon DEF InSlot
<1>3. \A i \in Nat : (i \in A => Rank(old, i) = UpTo(A, i)) /\ (i \in B => Rank(new, i) = UpTo(B, i))
  BY <1>2, RankIs
<1>4. Slot(new[k]) = x /\ k \in B
  BY <1>1, <1>2
<1> HIDE DEF k, x, A, B
<1>5. UpTo(B, k) = r + 1 /\ r \in Nat
  BY <1>1, <1>4, UpToStep
<1>6. \A i \in Nat : UpTo(A, i) \in Nat /\ UpTo(B, i) \in Nat
  BY UpToStep
<1> HIDE DEF r
<1>7. \A i, j \in Nat : i \in 1..Len(old) /\ j \in 1..n =>
        (Mates(old, new, i, j) /\ Slot(old[i]) = x <=> i \in A /\ j \in B /\ UpTo(A, i) = UpTo(B, j))
  <2> TAKE i, j \in Nat
  <2> HAVE i \in 1..Len(old) /\ j \in 1..n
  <2>1. j \in 1..Len(new)
    BY <1>1
  <2> QED BY <1>2, <1>3, <2>1, Zenon DEF Mates
<1>8. ASSUME NEW i \in 1..Len(old), i \in A
      PROVE  (\E j \in 1..n : Mates(old, new, i, j)) <=> UpTo(A, i) <= r
  <2>1. i \in Nat /\ i # 0 /\ Slot(old[i]) = x
    BY <1>2, <1>8
  <2>2. UpTo(A, i) \in Nat /\ UpTo(A, i) > 0
    <3>1. 0 \in Nat /\ 0 < i
      BY <2>1
    <3>2. UpTo(A, 0) < UpTo(A, i)
      BY <1>8, <2>1, <3>1, UpToGrows
    <3> QED BY <2>1, <3>2, UpToStep
  <2>3. ASSUME NEW j \in 1..n, Mates(old, new, i, j) PROVE UpTo(A, i) <= r
    <3>1. j \in Nat /\ (j = n \/ j < n)
      OBVIOUS
    <3>2. UpTo(A, i) = UpTo(B, j)
      BY <1>7, <2>1, <2>3, <3>1
    <3>3. j < n => UpTo(B, j) <= UpTo(B, n)
      BY <3>1, UpToGrows
    <3>4. UpTo(B, n) = r
      BY DEF r
    <3> QED BY <1>5, <3>1, <3>2, <3>3, <3>4
  <2>4. ASSUME UpTo(A, i) <= r PROVE \E j \in 1..n : Mates(old, new, i, j)
    <3> DEFINE q == UpTo(A, i)
    <3>1. q \in 1..UpTo(B, n)
      BY <1>5, <2>2, <2>4 DEF r
    <3> HIDE DEF q
    <3>2. PICK j \in 1..n : j \in B /\ UpTo(B, j) = q
      BY <3>1, UpToAll
    <3>3. j \in Nat
      OBVIOUS
    <3>4. Mates(old, new, i, j)
      BY <1>7, <1>8, <2>1, <3>2, <3>3 DEF q
    <3> QED BY <3>4
  <2> QED BY <2>3, <2>4
<1>9. F = {i \in 1..Len(old) : i \in A /\ UpTo(A, i) > r}
  <2>1. \A i \in 1..Len(old) : i \in Nat
    OBVIOUS
  <2>2. ASSUME NEW i \in 1..Len(old) PROVE i \in F <=> i \in A /\ UpTo(A, i) > r
    <3>1. i \in F <=> i \in A /\ \A j \in 1..n : ~Mates(old, new, i, j)
      <4>1. i \in F <=> Slot(old[i]) = Slot(new[n + 1]) /\ \A j \in 1..n : ~Mates(old, new, i, j)
        BY Zenon
      <4> QED BY <1>2, <2>1, <4>1, Zenon DEF x, k
    <3>2. i \in A => ((\E j \in 1..n : Mates(old, new, i, j)) <=> UpTo(A, i) <= r)
      BY <1>8
    <3>3. UpTo(A, i) <= r <=> ~(UpTo(A, i) > r)
      BY <1>5, <1>6, <2>1
    <3> QED BY <3>1, <3>2, <3>3, Zenon
  <2>3. F \subseteq 1..Len(old)
    BY Zenon
  <2> QED BY <2>2, <2>3, Zenon
<1>10. \A i : Mates(old, new, i, k) <=> i \in 1..Len(old) /\ i \in A /\ UpTo(A, i) = r + 1
  <2>1. \A i \in 1..Len(old) : i \in Nat
    OBVIOUS
  <2> QED BY <1>1, <1>2, <1>3, <1>4, <1>5, <2>1, Zenon DEF Mates
<1>11. F # {} => Min(F) \in F /\ UpTo(A, Min(F)) = r + 1
  <2> DEFINE N == Len(old)
             G == {i \in 1..N : i \in A /\ UpTo(A, i) > r}
  <2>1. N \in Nat /\ r \in Nat
    BY <1>1, <1>5
  <2>2. F = G
    BY <1>9
  <2> HIDE DEF N
  <2>3. G # {} => Min(G) \in G /\ UpTo(A, Min(G)) = r + 1
    BY <2>1, NextIs
  <2> HIDE DEF G
  <2> QED BY <2>2, <2>3, Zenon
<1>12. ASSUME NEW i, Mates(old, new, i, k) PROVE F # {} /\ i = Min(F)
  <2>1. i \in 1..Len(old) /\ i \in A /\ UpTo(A, i) = r + 1
    BY <1>10, <1>12
  <2>2. i \in F
    BY <1>5, <1>9, <2>1
  <2>3. Min(F) \in F /\ UpTo(A, Min(F)) = r + 1
    BY <1>11, <2>2
  <2> DEFINE m == Min(F)
  <2>4. m \in Nat /\ m \in A /\ i \in Nat /\ UpTo(A, m) = r + 1
    BY <1>9, <2>1, <2>3
  <2> HIDE DEF m
  <2>5. ~(m < i) /\ ~(i < m)
    <3>1. m < i => UpTo(A, m) < UpTo(A, i)
      BY <2>1, <2>4, UpToGrows
    <3>2. i < m => UpTo(A, i) < UpTo(A, m)
      BY <2>1, <2>4, UpToGrows
    <3> QED BY <1>5, <2>1, <2>4, <3>1, <3>2
  <2>6. i = m
    BY <2>4, <2>5
  <2> QED BY <2>2, <2>6 DEF m
<1>13. ASSUME F # {} PROVE Mates(old, new, Min(F), k)
  BY <1>9, <1>10, <1>11, <1>13, Zenon
<1> QED BY <1>12, <1>13 DEF k

Pairings(L, n) == [pairs : Seq(L \X L), unpaired : Seq(L), used : SUBSET (1..n)]

LEMMA PairOneType ==
  ASSUME NEW L, NEW old \in Seq(L), NEW acc \in Pairings(L, Len(old)), NEW label \in L
  PROVE  PairOne(old, acc, label) \in Pairings(L, Len(old))
<1> DEFINE n == Len(old)
           free == Fresh(old, acc.used, Slot(label))
           m == Min(free)
<1>1. acc.pairs \in Seq(L \X L) /\ acc.unpaired \in Seq(L) /\ acc.used \in SUBSET (1..n)
  BY DEF Pairings
<1>2. CASE free = {}
  <2>1. PairOne(old, acc, label) = [acc EXCEPT !.unpaired = Append(acc.unpaired, label)]
    BY <1>2, Zenon DEF PairOne
  <2>2. Append(acc.unpaired, label) \in Seq(L)
    BY <1>1
  <2> HIDE DEF n
  <2> QED BY <1>1, <2>1, <2>2 DEF Pairings, n
<1>3. CASE free # {}
  <2>1. PairOne(old, acc, label) = [acc EXCEPT !.pairs = Append(acc.pairs, <<old[m], label>>),
                                               !.used = acc.used \cup {m}]
    BY <1>3, Zenon DEF PairOne
  <2>2. free \in SUBSET (1..n) /\ free \in SUBSET Nat
    BY DEF Fresh
  <2>3. m \in 1..n
    BY <1>3, <2>2, MinIs
  <2> HIDE DEF m
  <2>4. Append(acc.pairs, <<old[m], label>>) \in Seq(L \X L) /\ acc.used \cup {m} \in SUBSET (1..n)
    BY <1>1, <2>3
  <2> HIDE DEF n, free
  <2> QED BY <1>1, <2>1, <2>4 DEF Pairings, n
<1> QED BY <1>2, <1>3

\* What has been paired of the first n new labels.
PairedUpTo(old, new, n, acc) ==
  /\ \A i \in 1..Len(old) : i \in acc.used <=> \E j \in 1..n : Mates(old, new, i, j)
  /\ \A q : q \in ToSet(acc.pairs) <=>
       \E i \in 1..Len(old), j \in 1..n : Mates(old, new, i, j) /\ q = <<old[i], new[j]>>
  /\ \A l : l \in ToSet(acc.unpaired) <=>
       \E j \in 1..n : l = new[j] /\ \A i : ~Mates(old, new, i, j)

LEMMA PairOneSays ==
  ASSUME NEW L, NEW old \in Seq(L), NEW new \in Seq(L), NEW n \in Nat, n + 1 \in 1..Len(new),
         NEW acc \in Pairings(L, Len(old)), PairedUpTo(old, new, n, acc)
  PROVE  PairedUpTo(old, new, n + 1, PairOne(old, acc, new[n + 1]))
<1> DEFINE k == n + 1
           label == new[k]
           free == Fresh(old, acc.used, Slot(label))
           m == Min(free)
           after == PairOne(old, acc, label)
           Mate(i, j) == Mates(old, new, i, j)
<1>1. acc.pairs \in Seq(L \X L) /\ acc.unpaired \in Seq(L) /\ acc.used \in SUBSET (1..Len(old)) /\ label \in L
  BY DEF Pairings
<1>2. /\ DOMAIN old = 1..Len(old) /\ 1..k = (1..n) \cup {k}
  OBVIOUS
<1>3. \A i \in 1..Len(old) : i \in acc.used <=> \E j \in 1..n : Mate(i, j)
  BY Zenon DEF PairedUpTo
<1>4. free = {i \in 1..Len(old) : Slot(old[i]) = Slot(new[n + 1]) /\ \A j \in 1..n : ~Mate(i, j)}
  <2>1. free = {i \in DOMAIN old \ acc.used : Slot(old[i]) = Slot(new[n + 1])}
    BY Zenon DEF Fresh
  <2> HIDE DEF free, Mate
  <2> QED BY <1>2, <1>3, <2>1
<1>5. \A i : Mate(i, k) <=> free # {} /\ i = m
  <2> HIDE DEF free
  <2> QED BY <1>4, FirstLeft
<1>6. \A i, j : Mate(i, j) => i \in 1..Len(old)
  BY Zenon DEF Mates
<1>7. /\ \A q : q \in ToSet(acc.pairs) <=> \E i \in 1..Len(old), j \in 1..n : Mate(i, j) /\ q = <<old[i], new[j]>>
      /\ \A l : l \in ToSet(acc.unpaired) <=> \E j \in 1..n : l = new[j] /\ \A i : ~Mate(i, j)
  BY Zenon DEF PairedUpTo
<1>8. CASE free = {}
  <2>1. after = [acc EXCEPT !.unpaired = Append(acc.unpaired, label)]
    BY <1>8, Zenon DEF PairOne
  <2>2. acc = [pairs |-> acc.pairs, unpaired |-> acc.unpaired, used |-> acc.used]
    BY DEF Pairings
  <2>3. after.pairs = acc.pairs /\ after.used = acc.used /\ after.unpaired = Append(acc.unpaired, label)
    <3> HIDE DEF after, label
    <3> QED BY <2>1, <2>2
  <2>4. ToSet(Append(acc.unpaired, label)) = ToSet(acc.unpaired) \cup {label}
    <3> HIDE DEF label
    <3> QED BY <1>1, SetOfAppend
  <2>5. \A i : ~Mate(i, k)
    BY <1>5, <1>8, Zenon
  <2> HIDE DEF after, Mate, k, free
  <2>6. \A i \in 1..Len(old) : i \in after.used <=> \E j \in 1..k : Mate(i, j)
    BY <1>2, <1>3, <2>3, <2>5, Zenon
  <2>7. \A q : q \in ToSet(after.pairs) <=> \E i \in 1..Len(old), j \in 1..k : Mate(i, j) /\ q = <<old[i], new[j]>>
    <3> TAKE q
    <3>1. q \in ToSet(after.pairs) <=> \E i \in 1..Len(old), j \in 1..n : Mate(i, j) /\ q = <<old[i], new[j]>>
      <4>1. q \in ToSet(acc.pairs) <=> \E i \in 1..Len(old), j \in 1..n : Mate(i, j) /\ q = <<old[i], new[j]>>
        BY <1>7, ZenonT(30)
      <4>2. ToSet(after.pairs) = ToSet(acc.pairs)
        BY <2>3, Zenon
      <4> QED BY <4>1, <4>2, Zenon
    <3>2. \A j : j \in 1..k <=> j \in 1..n \/ j = k
      BY <1>2, Zenon
    <3>3. \A i, j : j \in 1..k /\ Mate(i, j) => j \in 1..n
      BY <2>5, <3>2, Zenon
    <3> DEFINE Says(i, j) == Mate(i, j) /\ q = <<old[i], new[j]>>
    <3>4. \A i, j : Says(i, j) => Mate(i, j)
      BY Zenon
    <3>5. q \in ToSet(after.pairs) <=> \E i \in 1..Len(old), j \in 1..n : Says(i, j)
      BY <3>1, Zenon
    <3> HIDE DEF Says
    <3>6. q \in ToSet(after.pairs) <=> \E i \in 1..Len(old), j \in 1..k : Says(i, j)
      BY <3>2, <3>3, <3>4, <3>5, Zenon
    <3> QED BY <3>6, Zenon DEF Says
  <2>8. \A l : l \in ToSet(after.unpaired) <=> \E j \in 1..k : l = new[j] /\ \A i : ~Mate(i, j)
    <3> TAKE l
    <3>1. l \in ToSet(after.unpaired) <=> (\E j \in 1..n : l = new[j] /\ \A i : ~Mate(i, j)) \/ l = new[k]
      BY <1>7, <2>3, <2>4, Zenon
    <3> QED BY <1>2, <2>5, <3>1, Zenon
  <2> QED BY <2>6, <2>7, <2>8, Zenon DEF PairedUpTo, Mate, k, after
<1>9. CASE free # {}
  <2>1. after = [acc EXCEPT !.pairs = Append(acc.pairs, <<old[m], label>>), !.used = acc.used \cup {m}]
    BY <1>9, Zenon DEF PairOne
  <2>2. acc = [pairs |-> acc.pairs, unpaired |-> acc.unpaired, used |-> acc.used]
    BY DEF Pairings
  <2> DEFINE pair == <<old[m], label>>
  <2>3. after.pairs = Append(acc.pairs, pair) /\ after.used = acc.used \cup {m} /\ after.unpaired = acc.unpaired
    <3> HIDE DEF after, label, m
    <3> QED BY <2>1, <2>2
  <2>4. \A i : Mate(i, k) <=> i = m
    BY <1>5, <1>9, Zenon
  <2>5. m \in 1..Len(old)
    BY <1>6, <2>4, Zenon
  <2>6. ToSet(Append(acc.pairs, pair)) = ToSet(acc.pairs) \cup {pair}
    <3>1. pair \in L \X L
      <4> HIDE DEF m, label
      <4> QED BY <1>1, <2>5
    <3> HIDE DEF pair
    <3> QED BY <1>1, <3>1, SetOfAppend
  <2>7. pair = <<old[m], new[k]>>
    OBVIOUS
  <2> HIDE DEF after, Mate, k, free, m, pair
  <2>8. \A i \in 1..Len(old) : i \in after.used <=> \E j \in 1..k : Mate(i, j)
    BY <1>2, <1>3, <2>3, <2>4, Zenon
  <2>9. \A q : q \in ToSet(after.pairs) <=> \E i \in 1..Len(old), j \in 1..k : Mate(i, j) /\ q = <<old[i], new[j]>>
    <3> TAKE q
    <3>1. q \in ToSet(after.pairs) <=>
            (\E i \in 1..Len(old), j \in 1..n : Mate(i, j) /\ q = <<old[i], new[j]>>) \/ q = <<old[m], new[k]>>
      BY <1>7, <2>3, <2>6, <2>7, Zenon
    <3> QED BY <1>2, <2>4, <2>5, <3>1, Zenon
  <2>10. \A l : l \in ToSet(after.unpaired) <=> \E j \in 1..k : l = new[j] /\ \A i : ~Mate(i, j)
    <3> TAKE l
    <3>1. l \in ToSet(after.unpaired) <=> \E j \in 1..n : l = new[j] /\ \A i : ~Mate(i, j)
      BY <1>7, <2>3, Zenon
    <3>2. \E i : Mate(i, k)
      BY <2>4, Zenon
    <3> QED BY <1>2, <3>1, <3>2, Zenon
  <2> QED BY <2>8, <2>9, <2>10, Zenon DEF PairedUpTo, Mate, k, after
<1> QED BY <1>8, <1>9

PairRule(old, new, f) ==
  f = [n \in 0..Len(new) |-> IF n = 0 THEN [pairs |-> <<>>, unpaired |-> <<>>, used |-> {}]
                             ELSE PairOne(old, f[n - 1], new[n])]

\* Each new label is paired with the one of its slot that comes at its place.
LEMMA PairsAre ==
  ASSUME NEW L, NEW old \in Seq(L), NEW new \in Seq(L)
  PROVE  /\ PairLabels(old, new) \in Pairings(L, Len(old))
         /\ PairedUpTo(old, new, Len(new), PairLabels(old, new))
<1> DEFINE n == Len(new)
           V == Pairings(L, Len(old))
           start == [pairs |-> <<>>, unpaired |-> <<>>, used |-> {}]
           step == [m \in 1..n |-> [v \in V |-> PairOne(old, v, new[m])]]
           f == CHOOSE g : PairRule(old, new, g)
<1>1. n \in Nat /\ \A m \in 1..n : new[m] \in L
  OBVIOUS
<1>2. start \in V
  <2>1. <<>> \in Seq(L \X L) /\ <<>> \in Seq(L) /\ {} \in SUBSET (1..Len(old))
    OBVIOUS
  <2> QED BY <2>1 DEF Pairings
<1>3. \A m \in 1..n, v \in V : PairOne(old, v, new[m]) \in V
  BY <1>1, PairOneType
<1>4. \E g : PairRule(old, new, g)
  <2> HIDE DEF start
  <2>1. step \in [1..n -> [V -> V]]
    <3> HIDE DEF n, V
    <3> QED BY <1>3
  <2>2. PICK g \in [0..n -> V] : StepRule(n, start, step, g)
    <3> HIDE DEF n, V, step
    <3> QED BY <1>1, <1>2, <2>1, StepsHave
  <2> HIDE DEF V
  <2>3. ASSUME NEW m \in 0..n PROVE (IF m = 0 THEN start ELSE step[m][g[m - 1]])
                                    = IF m = 0 THEN start ELSE PairOne(old, g[m - 1], new[m])
    <3>1. CASE m # 0
      <4>1. m \in 1..n /\ m - 1 \in 0..n
        BY <1>1, <3>1
      <4>2. g[m - 1] \in V
        BY <4>1
      <4> QED BY <3>1, <4>1, <4>2
    <3>2. CASE m = 0
      BY <3>2
    <3> QED BY <3>1, <3>2
  <2>4. g = [m \in 0..n |-> IF m = 0 THEN start ELSE PairOne(old, g[m - 1], new[m])]
    <3>1. g = [m \in 0..n |-> IF m = 0 THEN start ELSE step[m][g[m - 1]]]
      BY <2>2, Zenon DEF StepRule
    <3> HIDE DEF step
    <3> QED BY <2>3, <3>1
  <2> QED BY <2>4, Zenon DEF PairRule, start
<1>5. PairRule(old, new, f)
  BY <1>4, Zenon
<1>6. PairLabels(old, new) = f[n]
  BY Zenon DEF PairLabels, PairRule
<1> HIDE DEF f
<1>7. \A m \in 0..n : f[m] = IF m = 0 THEN start ELSE PairOne(old, f[m - 1], new[m])
  BY <1>5, Zenon DEF PairRule
<1> DEFINE E == {m \in Nat : m <= n => f[m] \in V /\ PairedUpTo(old, new, m, f[m])}
<1>8. 0 \in E
  <2>1. 0 \in 0..n /\ 1..0 = {}
    BY <1>1
  <2>2. f[0] = start
    BY <1>7, <2>1, Zenon
  <2>3. start.pairs = <<>> /\ start.unpaired = <<>> /\ start.used = {}
    OBVIOUS
  <2>4. ToSet(<<>>) = {}
    BY DEF ToSet
  <2> HIDE DEF start
  <2>5. PairedUpTo(old, new, 0, start)
    BY <2>1, <2>3, <2>4, Zenon DEF PairedUpTo
  <2>6. f[0] \in V /\ PairedUpTo(old, new, 0, f[0])
    BY <1>2, <2>2, <2>5, Zenon
  <2> HIDE DEF V, n
  <2> QED BY <2>6
<1>9. ASSUME NEW m \in Nat, m \in E PROVE m + 1 \in E
  <2> SUFFICES ASSUME m + 1 <= n PROVE f[m + 1] \in V /\ PairedUpTo(old, new, m + 1, f[m + 1])
    OBVIOUS
  <2>1. m + 1 \in 0..n /\ m + 1 \in 1..n /\ m + 1 # 0 /\ (m + 1) - 1 = m /\ m <= n
    BY <1>1
  <2>2. f[m] \in V /\ PairedUpTo(old, new, m, f[m])
    BY <1>9, <2>1
  <2>3. f[m + 1] = PairOne(old, f[m], new[m + 1])
    BY <1>7, <2>1
  <2>4. PairOne(old, f[m], new[m + 1]) \in V
    BY <1>3, <2>1, <2>2
  <2>5. PairedUpTo(old, new, m + 1, PairOne(old, f[m], new[m + 1]))
    BY <2>1, <2>2, PairOneSays
  <2> QED BY <2>3, <2>4, <2>5, Zenon
<1>10. Nat \subseteq E
  <2> HIDE DEF E
  <2> QED BY <1>8, <1>9, Induct
<1>11. n \in E /\ n <= n
  BY <1>1, <1>10
<1> HIDE DEF V, n
<1>12. f[n] \in V /\ PairedUpTo(old, new, n, f[n])
  BY <1>11
<1> QED BY <1>6, <1>12, Zenon DEF V, n

-----------------------------------------------------------------------------
(* Labels: what is said of them *)

\* Some pairs are of texts that differ in their items.
LEMMA ItemsSay ==
  ASSUME NEW L, NEW pairs \in Seq(L \X L), NEW items, NEW code \in Codes
  PROVE  LET s == Repeated(code, ItemChanges(items, Retold(pairs)))
         IN /\ FindingsOf(s)
            /\ s = <<>> <=> \A p \in ToSet(pairs) :
                              p[1].text # p[2].text => SameItems(items[p[1].text], items[p[2].text])
<1> DEFINE Same(p) == SameItems(items[p[1].text], items[p[2].text])
           I == {i \in DOMAIN pairs : pairs[i][1].text = pairs[i][2].text}
           q == Retold(pairs)
           D == {i \in DOMAIN q : ~Same(q[i])}
           s == Repeated(code, ItemChanges(items, q))
<1>1. q = Without(pairs, I) /\ ItemChanges(items, q) = Cardinality(D)
  BY Zenon DEF Retold, ItemChanges
<1>2. DOMAIN pairs = 1..Len(pairs)
  OBVIOUS
<1>3. ToSet(pairs) = {pairs[i] : i \in 1..Len(pairs)}
  BY <1>2, Zenon DEF ToSet
<1>4. Without(pairs, I) \in Seq(L \X L) /\ ToSet(Without(pairs, I)) = {pairs[i] : i \in (1..Len(pairs)) \ I}
  <2> HIDE DEF I
  <2> QED BY WithoutType, WithoutHas
<1>5. \A i \in 1..Len(pairs) : i \in I <=> pairs[i][1].text = pairs[i][2].text
  BY <1>2, Zenon
<1> HIDE DEF I, q
<1>6. q \in Seq(L \X L) /\ ToSet(q) = {pairs[i] : i \in (1..Len(pairs)) \ I}
  BY <1>1, <1>4
<1>7. DOMAIN q = 1..Len(q) /\ Len(q) \in Nat
  BY <1>6
<1>8. Cardinality(D) \in Nat /\ (Cardinality(D) = 0 <=> D = {})
  <2>1. IsFiniteSet(1..Len(q))
    BY <1>7, FS_Interval
  <2>2. D \subseteq 1..Len(q)
    BY <1>7, Zenon
  <2> HIDE DEF D
  <2>3. IsFiniteSet(D)
    BY <2>1, <2>2, FS_Subset
  <2> QED BY <2>3, FS_CardinalityType, FS_EmptySet
<1>9. D = {} <=> \A p \in ToSet(q) : Same(p)
  <2>1. ToSet(q) = {q[i] : i \in DOMAIN q}
    BY Zenon DEF ToSet
  <2> HIDE DEF Same
  <2> QED BY <2>1, Zenon
<1>10. (\A p \in ToSet(q) : Same(p)) <=> \A p \in ToSet(pairs) : p[1].text # p[2].text => Same(p)
  <2> HIDE DEF Same
  <2>1. (\A p \in ToSet(q) : Same(p)) <=> \A i \in 1..Len(pairs) : i \notin I => Same(pairs[i])
    BY <1>6, Zenon
  <2>2. (\A p \in ToSet(pairs) : p[1].text # p[2].text => Same(p))
        <=> \A i \in 1..Len(pairs) : pairs[i][1].text # pairs[i][2].text => Same(pairs[i])
    BY <1>3, Zenon
  <2> QED BY <1>5, <2>1, <2>2, Zenon
<1>11. FindingsOf(s) /\ (s = <<>> <=> Cardinality(D) = 0)
  <2> DEFINE n == Cardinality(D)
  <2>1. n \in Nat /\ s = Repeated(code, n)
    BY <1>1, <1>8, Zenon
  <2> HIDE DEF n, s
  <2>2. FindingsOf(Repeated(code, n)) /\ (Repeated(code, n) = <<>> <=> n = 0)
    BY <2>1, RepeatedSays
  <2> QED BY <2>1, <2>2, Zenon DEF n
<1> HIDE DEF D
<1> QED BY <1>8, <1>9, <1>10, <1>11, Zenon DEF q

\* Of the labels of one text and line the first that can be asked about is.
LEMMA AskedAll ==
  ASSUME NEW L, NEW c \in Seq(L)
  PROVE  (\A i \in 1..Len(c) : AskedAbout(c, i) => EnglishTerms(c[i].text) = <<>>)
         <=> \A i \in 1..Len(c) : ~Foreign(c[i])
<1>1. ASSUME \A i \in 1..Len(c) : AskedAbout(c, i) => EnglishTerms(c[i].text) = <<>>,
             NEW i \in 1..Len(c), Foreign(c[i])
      PROVE  FALSE
  <2> DEFINE Like(j) == Translatable(c[j]) /\ c[j].line = c[i].line /\ c[j].text = c[i].text
             S == {j \in 1..Len(c) : Like(j)}
  <2>1. i \in S
    BY <1>1, Zenon DEF Foreign
  <2>2. S \in SUBSET Nat
    OBVIOUS
  <2>3. PICK m \in S : \A j \in S : m <= j
    <3> HIDE DEF S
    <3> QED BY <2>1, <2>2, Least
  <2>4. m \in 1..Len(c) /\ Like(m)
    BY <2>3, Zenon
  <2>5. \A j \in 1..(m - 1) : j \in 1..Len(c) /\ ~(m <= j)
    BY <2>4
  <2>6. AskedAbout(c, m)
    BY <2>3, <2>4, <2>5, Zenon DEF AskedAbout
  <2>7. EnglishTerms(c[m].text) = <<>>
    BY <1>1, <2>4, <2>6, Zenon
  <2> QED BY <1>1, <2>4, <2>7, Zenon DEF Foreign
<1>2. ASSUME \A i \in 1..Len(c) : ~Foreign(c[i]), NEW i \in 1..Len(c), AskedAbout(c, i)
      PROVE  EnglishTerms(c[i].text) = <<>>
  BY <1>2, Zenon DEF AskedAbout, Foreign
<1> QED BY <1>1, <1>2, Zenon

LEMMA ConcatHas ==
  ASSUME NEW T, NEW s \in Seq(T), NEW u \in Seq(T)
  PROVE  /\ s \o u \in Seq(T) /\ Len(s \o u) = Len(s) + Len(u)
         /\ Len(s) \in Nat /\ Len(u) \in Nat /\ DOMAIN s = 1..Len(s)
         /\ \A i \in 1..Len(s) : (s \o u)[i] = s[i] /\ i \in 1..Len(s \o u)
         /\ \A i \in 1..Len(u) : (s \o u)[Len(s) + i] = u[i] /\ Len(s) + i \in 1..Len(s \o u)
OBVIOUS

LEMMA EnglishSay ==
  ASSUME NEW L, NEW labels, labels.pairs \in Seq(L \X L), labels.unpaired \in Seq(L)
  PROVE  /\ FindingsOf(EnglishLabels(labels))
         /\ EnglishLabels(labels) = <<>> <=>
              /\ \A l \in ToSet(labels.unpaired) : ~Foreign(l)
              /\ \A p \in ToSet(labels.pairs) : p[1].text # p[2].text => ~Foreign(p[2])
<1> DEFINE pairs == labels.pairs
           I == {i \in DOMAIN pairs : pairs[i][1].text = pairs[i][2].text}
           q == Retold(pairs)
           u == labels.unpaired
           v == [i \in DOMAIN q |-> q[i][2]]
           c == u \o v
           f == [i \in DOMAIN c |-> IF AskedAbout(c, i) THEN EnglishTerms(c[i].text) ELSE <<>>]
<1>1. q = Without(pairs, I)
  BY Zenon DEF Retold
<1>2. DOMAIN pairs = 1..Len(pairs)
  OBVIOUS
<1>3. ToSet(pairs) = {pairs[i] : i \in 1..Len(pairs)}
  BY <1>2, Zenon DEF ToSet
<1>4. Without(pairs, I) \in Seq(L \X L) /\ ToSet(Without(pairs, I)) = {pairs[i] : i \in (1..Len(pairs)) \ I}
  <2> HIDE DEF I
  <2>1. pairs \in Seq(L \X L)
    OBVIOUS
  <2> HIDE DEF pairs
  <2> QED BY <2>1, WithoutType, WithoutHas
<1>5. \A i \in 1..Len(pairs) : i \in I <=> pairs[i][1].text = pairs[i][2].text
  BY <1>2, Zenon
<1>6. EnglishLabels(labels) = FlattenSeq(f)
  BY Zenon DEF EnglishLabels
<1> HIDE DEF I, q
<1>7. q \in Seq(L \X L) /\ ToSet(q) = {pairs[i] : i \in (1..Len(pairs)) \ I} /\ DOMAIN q = 1..Len(q)
  BY <1>1, <1>4
<1>8. v \in Seq(L) /\ Len(v) = Len(q) /\ \A i \in 1..Len(q) : v[i] = q[i][2]
  BY <1>7
<1> HIDE DEF v, pairs
<1>18. u \in Seq(L)
  OBVIOUS
<1> HIDE DEF u
<1>9. /\ c \in Seq(L) /\ Len(c) = Len(u) + Len(v) /\ Len(u) \in Nat /\ Len(v) \in Nat /\ DOMAIN u = 1..Len(u)
      /\ \A i \in 1..Len(u) : c[i] = u[i] /\ i \in 1..Len(c)
      /\ \A i \in 1..Len(v) : c[Len(u) + i] = v[i] /\ Len(u) + i \in 1..Len(c)
  <2>1. v \in Seq(L)
    BY <1>8
  <2> HIDE DEF u, v
  <2> QED BY <1>18, <2>1, ConcatHas
<1>10. \A i \in 1..Len(c) : i \in 1..Len(u) \/ \E j \in 1..Len(v) : i = Len(u) + j
  <2> TAKE i \in 1..Len(c)
  <2>1. i \in 1..Len(u) \/ (i - Len(u) \in 1..Len(v) /\ i = Len(u) + (i - Len(u)))
    BY <1>9
  <2> QED BY <2>1, Zenon
<1> HIDE DEF c
<1>11. f \in Seq(Seq(Codes)) /\ Len(f) = Len(c)
       /\ \A i \in 1..Len(c) : f[i] = IF AskedAbout(c, i) THEN EnglishTerms(c[i].text) ELSE <<>>
  <2>1. \A text : EnglishTerms(text) \in Seq(Codes)
    BY TermsType, Zenon DEF FindingsOf
  <2>2. <<>> \in Seq(Codes) /\ DOMAIN c = 1..Len(c) /\ Len(c) \in Nat
    BY <1>9
  <2> DEFINE g == [i \in 1..Len(c) |-> IF AskedAbout(c, i) THEN EnglishTerms(c[i].text) ELSE <<>>]
  <2>3. \A i \in 1..Len(c) : g[i] \in Seq(Codes) /\ g[i] = IF AskedAbout(c, i) THEN EnglishTerms(c[i].text) ELSE <<>>
    BY <2>1, <2>2, Zenon
  <2>4. DOMAIN g = 1..Len(c) /\ g = [i \in 1..Len(c) |-> g[i]]
    BY Zenon
  <2>5. f = g
    BY <2>2, Zenon
  <2> HIDE DEF f, g
  <2>6. g \in Seq(Seq(Codes)) /\ Len(g) = Len(c)
    BY <2>2, <2>3, <2>4
  <2> QED BY <2>3, <2>5, <2>6, Zenon
<1> HIDE DEF f
<1>12. FlattenSeq(f) \in Seq(Codes)
       /\ (FlattenSeq(f) = <<>> <=> \A i \in 1..Len(c) : AskedAbout(c, i) => EnglishTerms(c[i].text) = <<>>)
  <2>1. FlattenSeq(f) = <<>> <=> \A i \in 1..Len(f) : f[i] = <<>>
    BY <1>11, JoinEmpty
  <2>2. FlattenSeq(f) \in Seq(Codes)
    BY <1>11, FlatType
  <2> QED BY <1>11, <2>1, <2>2, Zenon
<1>13. (\A i \in 1..Len(c) : AskedAbout(c, i) => EnglishTerms(c[i].text) = <<>>)
       <=> \A i \in 1..Len(c) : ~Foreign(c[i])
  BY <1>9, AskedAll
<1>14. (\A i \in 1..Len(c) : ~Foreign(c[i]))
       <=> (\A i \in 1..Len(u) : ~Foreign(u[i])) /\ (\A i \in 1..Len(q) : ~Foreign(q[i][2]))
  <2>1. (\A i \in 1..Len(c) : ~Foreign(c[i]))
        <=> (\A i \in 1..Len(u) : ~Foreign(u[i])) /\ (\A i \in 1..Len(v) : ~Foreign(v[i]))
    BY <1>9, <1>10, Zenon
  <2> QED BY <1>8, <2>1, Zenon
<1>15. (\A i \in 1..Len(u) : ~Foreign(u[i])) <=> \A l \in ToSet(u) : ~Foreign(l)
  BY <1>9, Zenon DEF ToSet
<1>16. (\A i \in 1..Len(q) : ~Foreign(q[i][2])) <=> \A p \in ToSet(pairs) : p[1].text # p[2].text => ~Foreign(p[2])
  <2>1. ToSet(q) = {q[i] : i \in 1..Len(q)}
    BY <1>7, Zenon DEF ToSet
  <2>2. (\A i \in 1..Len(q) : ~Foreign(q[i][2])) <=> \A p \in ToSet(q) : ~Foreign(p[2])
    BY <2>1, Zenon
  <2>3. (\A p \in ToSet(q) : ~Foreign(p[2])) <=> \A i \in 1..Len(pairs) : i \notin I => ~Foreign(pairs[i][2])
    BY <1>7, Zenon
  <2>4. (\A p \in ToSet(pairs) : p[1].text # p[2].text => ~Foreign(p[2]))
        <=> \A i \in 1..Len(pairs) : pairs[i][1].text # pairs[i][2].text => ~Foreign(pairs[i][2])
    BY <1>3, Zenon
  <2> QED BY <1>5, <2>2, <2>3, <2>4, Zenon
<1> QED BY <1>6, <1>12, <1>13, <1>14, <1>15, <1>16, Zenon DEF FindingsOf, pairs, u

\* The findings about labels are none exactly when each keeps what it has to.
LEMMA LabelsSay ==
  ASSUME NEW L, NEW old \in Seq(L), NEW new \in Seq(L)
  PROVE  LET labels == PairLabels(old, new)
         IN /\ FindingsOf(PlaceholderChanges(labels.pairs)) /\ FindingsOf(UrlChanges(labels.pairs))
            /\ FindingsOf(EnglishLabels(labels))
            /\ LabelsKept(old, new) <=> /\ PlaceholderChanges(labels.pairs) = <<>>
                                        /\ UrlChanges(labels.pairs) = <<>>
                                        /\ EnglishLabels(labels) = <<>>
<1> DEFINE labels == PairLabels(old, new)
           pairs == labels.pairs
           code == "placeholder-changed"
           other == "url-changed"
           Mate(i, j) == Mates(old, new, i, j)
           Same(a, b) == SameItems(Holders[a.text], Holders[b.text])
           Also(a, b) == SameItems(Urls[a.text], Urls[b.text])
<1>1. labels \in Pairings(L, Len(old)) /\ PairedUpTo(old, new, Len(new), labels)
  BY PairsAre
<1>2. code \in Codes /\ other \in Codes
  BY DEF Codes
<1> HIDE DEF labels
<1>3. labels.pairs \in Seq(L \X L) /\ labels.unpaired \in Seq(L)
  BY <1>1 DEF Pairings
<1>4. /\ PlaceholderChanges(pairs) = Repeated(code, ItemChanges(Holders, Retold(pairs)))
      /\ UrlChanges(pairs) = Repeated(other, ItemChanges(Urls, Retold(pairs)))
  BY Zenon DEF PlaceholderChanges, UrlChanges
<1> HIDE DEF code, other
<1>5. /\ FindingsOf(PlaceholderChanges(pairs))
      /\ PlaceholderChanges(pairs) = <<>> <=> \A p \in ToSet(pairs) : p[1].text # p[2].text => Same(p[1], p[2])
  <2>1. pairs \in Seq(L \X L)
    BY <1>3
  <2> HIDE DEF pairs
  <2> QED BY <1>2, <1>4, <2>1, ItemsSay
<1>6. /\ FindingsOf(UrlChanges(pairs))
      /\ UrlChanges(pairs) = <<>> <=> \A p \in ToSet(pairs) : p[1].text # p[2].text => Also(p[1], p[2])
  <2>1. pairs \in Seq(L \X L)
    BY <1>3
  <2> HIDE DEF pairs
  <2> QED BY <1>2, <1>4, <2>1, ItemsSay
<1>7. /\ FindingsOf(EnglishLabels(labels))
      /\ EnglishLabels(labels) = <<>> <=>
           /\ \A l \in ToSet(labels.unpaired) : ~Foreign(l)
           /\ \A p \in ToSet(pairs) : p[1].text # p[2].text => ~Foreign(p[2])
  BY <1>3, EnglishSay
<1> HIDE DEF Same, Also
<1>8. DOMAIN old = 1..Len(old) /\ DOMAIN new = 1..Len(new)
  OBVIOUS
<1>9. \A i, j : Mate(i, j) => i \in 1..Len(old) /\ j \in 1..Len(new)
  BY Zenon DEF Mates
<1> DEFINE All(i, j) == Mate(i, j) => \/ old[i].text = new[j].text
                                      \/ Same(old[i], new[j]) /\ Also(old[i], new[j]) /\ ~Foreign(new[j])
           Each(j) == Foreign(new[j]) => \E i : Mate(i, j)
<1>10. LabelsKept(old, new) <=> (\A i, j : All(i, j)) /\ \A j \in 1..Len(new) : Each(j)
  <2> DEFINE C == Counterparts(old, new)
  <2>1. \A i, j : <<i, j>> \in C <=> Mate(i, j)
    <3>1. C = {p \in (1..Len(old)) \X (1..Len(new)) :
                 Slot(old[p[1]]) = Slot(new[p[2]]) /\ Rank(old, p[1]) = Rank(new, p[2])}
      BY <1>8, Zenon DEF Counterparts
    <3> HIDE DEF C
    <3> QED BY <3>1 DEF Mates
  <2>2. \A p \in C : p = <<p[1], p[2]>>
    BY DEF Counterparts
  <2>3. LabelsKept(old, new) <=> /\ \A p \in C : Keeps(old[p[1]], new[p[2]])
                                 /\ \A j \in 1..Len(new) : Foreign(new[j]) => \E p \in C : p[2] = j
    BY <1>8, Zenon DEF LabelsKept
  <2>4. \A i, j : <<i, j>>[1] = i /\ <<i, j>>[2] = j
    OBVIOUS
  <2>5. \A i, j : Keeps(old[i], new[j]) <=> \/ old[i].text = new[j].text
                                            \/ Same(old[i], new[j]) /\ Also(old[i], new[j]) /\ ~Foreign(new[j])
    BY Zenon DEF Keeps, Same, Also
  <2> HIDE DEF C, Mate
  <2>6. (\A p \in C : Keeps(old[p[1]], new[p[2]])) <=> \A i, j : Mate(i, j) => Keeps(old[i], new[j])
    BY <2>1, <2>2, <2>4
  <2>7. \A j : (\E p \in C : p[2] = j) <=> \E i : Mate(i, j)
    <3> TAKE j
    <3>1. ASSUME NEW p \in C, p[2] = j PROVE \E i : Mate(i, j)
      <4>1. <<p[1], j>> \in C
        BY <2>2, <3>1, Zenon
      <4> QED BY <2>1, <4>1, Zenon
    <3>2. ASSUME NEW i, Mate(i, j) PROVE \E p \in C : p[2] = j
      BY <2>1, <2>4, <3>2, Zenon
    <3> QED BY <3>1, <3>2, Zenon
  <2> QED BY <2>3, <2>5, <2>6, <2>7, Zenon
<1>11. \A q : q \in ToSet(pairs) <=> \E i, j : Mate(i, j) /\ q = <<old[i], new[j]>>
  <2>1. \A q : q \in ToSet(pairs) <=> \E i \in 1..Len(old), j \in 1..Len(new) : Mate(i, j) /\ q = <<old[i], new[j]>>
    BY <1>1, Zenon DEF PairedUpTo
  <2> QED BY <1>9, <2>1, Zenon
<1>12. \A l : l \in ToSet(labels.unpaired) <=> \E j \in 1..Len(new) : l = new[j] /\ \A i : ~Mate(i, j)
  BY <1>1, Zenon DEF PairedUpTo
<1> HIDE DEF pairs, Mate
<1>13. /\ (\A p \in ToSet(pairs) : p[1].text # p[2].text => Same(p[1], p[2]))
          <=> \A i, j : Mate(i, j) /\ old[i].text # new[j].text => Same(old[i], new[j])
       /\ (\A p \in ToSet(pairs) : p[1].text # p[2].text => Also(p[1], p[2]))
          <=> \A i, j : Mate(i, j) /\ old[i].text # new[j].text => Also(old[i], new[j])
       /\ (\A p \in ToSet(pairs) : p[1].text # p[2].text => ~Foreign(p[2]))
          <=> \A i, j : Mate(i, j) /\ old[i].text # new[j].text => ~Foreign(new[j])
  <2>1. \A a, b : <<a, b>>[1] = a /\ <<a, b>>[2] = b
    OBVIOUS
  <2> DEFINE Ok(p) == p[1].text # p[2].text => Same(p[1], p[2])
             Fine(p) == p[1].text # p[2].text => Also(p[1], p[2])
             Told(p) == p[1].text # p[2].text => ~Foreign(p[2])
  <2>2. \A a, b : /\ Ok(<<a, b>>) <=> (a.text # b.text => Same(a, b))
                  /\ Fine(<<a, b>>) <=> (a.text # b.text => Also(a, b))
                  /\ Told(<<a, b>>) <=> (a.text # b.text => ~Foreign(b))
    BY <2>1
  <2> HIDE DEF Ok, Fine, Told
  <2>3. (\A p \in ToSet(pairs) : Ok(p)) <=> \A i, j : Mate(i, j) => Ok(<<old[i], new[j]>>)
    <3>1. ASSUME \A p \in ToSet(pairs) : Ok(p), NEW i, NEW j, Mate(i, j) PROVE Ok(<<old[i], new[j]>>)
      BY <1>11, <3>1, Zenon
    <3>2. ASSUME \A i, j : Mate(i, j) => Ok(<<old[i], new[j]>>), NEW p \in ToSet(pairs) PROVE Ok(p)
      <4>1. PICK i, j : Mate(i, j) /\ p = <<old[i], new[j]>>
        BY <1>11, <3>2, Zenon
      <4> QED BY <3>2, <4>1
    <3> QED BY <3>1, <3>2, Zenon
  <2>4. (\A p \in ToSet(pairs) : Fine(p)) <=> \A i, j : Mate(i, j) => Fine(<<old[i], new[j]>>)
    <3>1. ASSUME \A p \in ToSet(pairs) : Fine(p), NEW i, NEW j, Mate(i, j) PROVE Fine(<<old[i], new[j]>>)
      BY <1>11, <3>1, Zenon
    <3>2. ASSUME \A i, j : Mate(i, j) => Fine(<<old[i], new[j]>>), NEW p \in ToSet(pairs) PROVE Fine(p)
      <4>1. PICK i, j : Mate(i, j) /\ p = <<old[i], new[j]>>
        BY <1>11, <3>2, Zenon
      <4> QED BY <3>2, <4>1
    <3> QED BY <3>1, <3>2, Zenon
  <2>5. (\A p \in ToSet(pairs) : Told(p)) <=> \A i, j : Mate(i, j) => Told(<<old[i], new[j]>>)
    <3>1. ASSUME \A p \in ToSet(pairs) : Told(p), NEW i, NEW j, Mate(i, j) PROVE Told(<<old[i], new[j]>>)
      BY <1>11, <3>1, Zenon
    <3>2. ASSUME \A i, j : Mate(i, j) => Told(<<old[i], new[j]>>), NEW p \in ToSet(pairs) PROVE Told(p)
      <4>1. PICK i, j : Mate(i, j) /\ p = <<old[i], new[j]>>
        BY <1>11, <3>2, Zenon
      <4> QED BY <3>2, <4>1
    <3> QED BY <3>1, <3>2, Zenon
  <2>6. /\ (\A p \in ToSet(pairs) : Ok(p)) <=> \A i, j : Mate(i, j) /\ old[i].text # new[j].text => Same(old[i], new[j])
        /\ (\A p \in ToSet(pairs) : Fine(p)) <=> \A i, j : Mate(i, j) /\ old[i].text # new[j].text => Also(old[i], new[j])
        /\ (\A p \in ToSet(pairs) : Told(p)) <=> \A i, j : Mate(i, j) /\ old[i].text # new[j].text => ~Foreign(new[j])
    BY <2>2, <2>3, <2>4, <2>5, Zenon
  <2> QED BY <2>6, Zenon DEF Ok, Fine, Told
<1>14. (\A l \in ToSet(labels.unpaired) : ~Foreign(l)) <=> \A j \in 1..Len(new) : Each(j)
  BY <1>12, Zenon
<1>15. LabelsKept(old, new) <=> /\ PlaceholderChanges(pairs) = <<>>
                                /\ UrlChanges(pairs) = <<>>
                                /\ EnglishLabels(labels) = <<>>
  BY <1>5, <1>6, <1>7, <1>10, <1>13, <1>14, Zenon
<1> QED BY <1>5, <1>6, <1>7, <1>15, Zenon DEF labels, pairs

-----------------------------------------------------------------------------
(* The audit of two revisions *)

\* Findings of two kinds, one after the other.
LEMMA Together ==
  ASSUME NEW f, NEW g, FindingsOf(f), FindingsOf(g)
  PROVE  FindingsOf(f \o g) /\ (f \o g = <<>> <=> f = <<>> /\ g = <<>>)
<1>1. f \in Seq(Codes) /\ g \in Seq(Codes)
  BY DEF FindingsOf
<1>2. f \o g \in Seq(Codes) /\ (f \o g = <<>> <=> f = <<>> /\ g = <<>>)
  BY <1>1, ConcatEmpty
<1> QED BY <1>2, Zenon DEF FindingsOf

LEMMA AllSix ==
  ASSUME NEW a, NEW b, NEW c, NEW d, NEW e, NEW f,
         FindingsOf(a), FindingsOf(b), FindingsOf(c), FindingsOf(d), FindingsOf(e), FindingsOf(f)
  PROVE  LET s == ((((a \o b) \o c) \o d) \o e) \o f
         IN FindingsOf(s) /\ (s = <<>> <=> a = <<>> /\ b = <<>> /\ c = <<>> /\ d = <<>> /\ e = <<>> /\ f = <<>>)
<1>1. FindingsOf(a \o b) /\ (a \o b = <<>> <=> a = <<>> /\ b = <<>>)
  BY Together, Zenon
<1>2. FindingsOf((a \o b) \o c) /\ ((a \o b) \o c = <<>> <=> a \o b = <<>> /\ c = <<>>)
  BY <1>1, Together
<1>3. FindingsOf(((a \o b) \o c) \o d) /\ (((a \o b) \o c) \o d = <<>> <=> (a \o b) \o c = <<>> /\ d = <<>>)
  BY <1>2, Together
<1>4. /\ FindingsOf((((a \o b) \o c) \o d) \o e)
      /\ (((a \o b) \o c) \o d) \o e = <<>> <=> ((a \o b) \o c) \o d = <<>> /\ e = <<>>
  BY <1>3, Together
<1>5. /\ FindingsOf(((((a \o b) \o c) \o d) \o e) \o f)
      /\ ((((a \o b) \o c) \o d) \o e) \o f = <<>> <=> (((a \o b) \o c) \o d) \o e = <<>> /\ f = <<>>
  BY <1>4, Together
<1> QED BY <1>1, <1>2, <1>3, <1>4, <1>5, Zenon

LEMMA LabelsType ==
  ASSUME NEW P, NEW pieces \in Seq(P)
  PROVE  Labels(pieces) \in Seq(P)
<1> DEFINE I == {i \in DOMAIN pieces : pieces[i].kind # "text" /\ ~(pieces[i].kind = "string" /\ IsLabel(pieces[i]))}
<1>1. Labels(pieces) = Without(pieces, I)
  BY Zenon DEF Labels
<1> HIDE DEF I
<1> QED BY <1>1, WithoutType

\* What OnlyTranslations says of two revisions.
Silently(old, new, max) ==
  LET findings == AnalyzePair(old, new, max)
  IN /\ findings = <<>> => Translated(old, new) /\ SameCode(old, new)
     /\ Translated(old, new) /\ CodeOf(old) = CodeOf(new) => findings = <<>>
     /\ Len(findings) <= max + 1

LEMMA SilentOn ==
  ASSUME NEW old, NEW new, Revision(old), Revision(new), old # new, NEW max \in Nat
  PROVE  Silently(old, new, max)
<1> DEFINE labels == PairLabels(Labels(old.pieces), Labels(new.pieces))
           a == CategoryChanges(old, new)
           b == CommentChanges(old.comments, new.comments)
           c == CodeChanges(Skeleton(old.pieces), Skeleton(new.pieces))
           d == PlaceholderChanges(labels.pairs)
           e == UrlChanges(labels.pairs)
           f == EnglishLabels(labels)
           all == ((((a \o b) \o c) \o d) \o e) \o f
           P == ToSet(old.pieces) \cup ToSet(new.pieces)
<1>1. AnalyzePair(old, new, max) = Capped(all, max)
  BY Zenon DEF AnalyzePair
<1>2. old.pieces \in Seq(P) /\ new.pieces \in Seq(P)
  <2>1. old.pieces \in Seq(ToSet(old.pieces)) /\ new.pieces \in Seq(ToSet(new.pieces))
    BY Zenon DEF Revision
  <2> QED BY <2>1
<1>3. FindingsOf(a) /\ (a = <<>> <=> MapKept(old, new))
  BY CategoriesSay, Zenon DEF Revision
<1>4. FindingsOf(b) /\ (b = <<>> <=> old.comments = new.comments)
  <2>1. old.comments \in Seq(ToSet(old.comments)) /\ new.comments \in Seq(ToSet(new.comments))
    BY Zenon DEF Revision
  <2> QED BY <2>1, CommentsSay
<1>5. FindingsOf(c) /\ (CodeOf(old) = CodeOf(new) => c = <<>>) /\ (c = <<>> => SameCode(old, new))
  <2> DEFINE x == Skeleton(old.pieces)
             y == Skeleton(new.pieces)
  <2>1. HasBlank(STRING)
    BY TextRulesAssumption, Zenon DEF HasBlank
  <2>2. x \in Seq(Seq(STRING)) /\ y \in Seq(Seq(STRING))
    BY RevisionLines
  <2>3. /\ CodeOf(old) = Joined(x) /\ CodeOf(new) = Joined(y)
        /\ Bare(old) = Drop(Unblanked(x), Light) /\ Bare(new) = Drop(Unblanked(y), Light)
    BY Zenon DEF CodeOf, Bare, Unblanked
  <2> HIDE DEF x, y
  <2>4. /\ FindingsOf(CodeChanges(x, y))
        /\ Joined(x) = Joined(y) => CodeChanges(x, y) = <<>>
        /\ CodeChanges(x, y) = <<>> => SameText(x, y)
    BY <2>1, <2>2, CodeSays
  <2>5. SameText(x, y) => SameCode(old, new)
    BY <2>3, Zenon DEF SameText, SameCode
  <2>6. c = CodeChanges(x, y)
    BY Zenon DEF x, y
  <2> HIDE DEF c
  <2> QED BY <2>3, <2>4, <2>5, <2>6, Zenon
<1>6. /\ FindingsOf(d) /\ FindingsOf(e) /\ FindingsOf(f)
      /\ LabelsKept(Labels(old.pieces), Labels(new.pieces)) <=> d = <<>> /\ e = <<>> /\ f = <<>>
  <2> DEFINE x == Labels(old.pieces)
             y == Labels(new.pieces)
  <2> HIDE DEF P
  <2>1. x \in Seq(P) /\ y \in Seq(P)
    BY <1>2, LabelsType
  <2>2. d = PlaceholderChanges(PairLabels(x, y).pairs) /\ e = UrlChanges(PairLabels(x, y).pairs)
        /\ f = EnglishLabels(PairLabels(x, y))
    BY Zenon
  <2> HIDE DEF d, e, f, labels, x, y
  <2> QED BY <2>1, <2>2, LabelsSay DEF x, y
<1> HIDE DEF a, b, c, d, e, f
<1>7. FindingsOf(all) /\ (all = <<>> <=> a = <<>> /\ b = <<>> /\ c = <<>> /\ d = <<>> /\ e = <<>> /\ f = <<>>)
  BY <1>3, <1>4, <1>5, <1>6, AllSix
<1> HIDE DEF all
<1>8. (Capped(all, max) = <<>> <=> all = <<>>) /\ Len(Capped(all, max)) <= max + 1
  BY <1>7, CappedSays
<1>9. Translated(old, new) <=> /\ old.comments = new.comments /\ MapKept(old, new)
                               /\ LabelsKept(Labels(old.pieces), Labels(new.pieces))
  BY Zenon DEF Translated
<1>10. AnalyzePair(old, new, max) = <<>> => Translated(old, new) /\ SameCode(old, new)
  BY <1>1, <1>3, <1>4, <1>5, <1>6, <1>7, <1>8, <1>9, Zenon
<1>11. Translated(old, new) /\ CodeOf(old) = CodeOf(new) => AnalyzePair(old, new, max) = <<>>
  BY <1>1, <1>3, <1>4, <1>5, <1>6, <1>7, <1>8, <1>9, Zenon
<1>12. Len(AnalyzePair(old, new, max)) <= max + 1
  BY <1>1, <1>8, Zenon
<1> QED BY <1>10, <1>11, <1>12, Zenon DEF Silently

\* The audit of a source file (analyze_pair) is silent only about translations,
\* whose code differs at most by what collapse_skeleton, skeleton_tokens and
\* drop_jsx_wrap_parens pass over: blanks, commas, {" "} and, if there is JSX,
\* parentheses; and it is silent about every one that leaves the code as it is:
\* for all revisions, all spellings and all values of max_findings.
THEOREM SilentOnTranslations == Spec => []OnlyTranslations
<1>1. AskedInv => OnlyTranslations
  <2> SUFFICES ASSUME AskedInv, asked.of = "source", asked.old # asked.new PROVE OnlyTranslations
    BY Zenon DEF OnlyTranslations
  <2>1. Revision(asked.old) /\ Revision(asked.new) /\ asked.max \in Nat
    BY AskedRevisions
  <2>2. Silently(asked.old, asked.new, asked.max)
    BY <2>1, SilentOn
  <2> QED BY <2>2, Zenon DEF OnlyTranslations, Silently
<1> QED BY <1>1, Asks, PTL
=============================================================================
