-------------------------- MODULE I18nAuditProofs --------------------------
(***************************************************************************)
(* Proofs about I18nCatalog and I18nAudit, for every set of paths, globs   *)
(* and manifests and any number of edits and commits: the lock that passes *)
(* --check gives every file the owner the manifest does, an older lock     *)
(* foresees it, and what passes every audit holds only translations.       *)
(***************************************************************************)
EXTENDS I18nAudit, SequenceTheorems, WellFoundedInduction, TLAPS

-----------------------------------------------------------------------------
(* Induction, for sets of naturals *)

\* Every nonempty set of naturals has a least element.
LEMMA Least ==
  ASSUME NEW S \in SUBSET Nat, S # {}
  PROVE  \E m \in S : \A k \in S : m <= k
<1> DEFINE R == OpToRel(<, Nat)
<1>1. IsWellFoundedOn(R, Nat)
  BY NatLessThanWellFounded
<1>2. \A y, z \in Nat : y < z => <<y, z>> \in R
  BY DEF OpToRel
<1> HIDE DEF R
<1>3. PICK m \in S : \A y \in S : ~(<<y, m>> \in R)
  BY <1>1, WFMin
<1>4. m \in Nat /\ \A k \in S : k \in Nat /\ ~(k < m)
  BY <1>2, <1>3
<1> QED BY <1>4

\* A set that holds 0, and with a number its successor, holds them all.
LEMMA Induct ==
  ASSUME NEW S, 0 \in S, \A n \in Nat : n \in S => n + 1 \in S
  PROVE  Nat \subseteq S
<1> SUFFICES ASSUME Nat \ S # {} PROVE FALSE
  OBVIOUS
<1>1. PICK m \in Nat \ S : \A k \in Nat \ S : m <= k
  BY Least
<1>2. m # 0 /\ m - 1 \in Nat
  BY <1>1
<1>3. m - 1 \in S
  BY <1>1, <1>2
<1> QED BY <1>1, <1>3

-----------------------------------------------------------------------------
(* Sequences of sequences, joined *)

\* What FlattenSeq says of the first n sequences.
JoinRule(s, n, g) == g = [i \in 1..n |-> IF i = 1 THEN s[i] ELSE g[i - 1] \o s[i]]

\* There is a function that obeys the rule, by induction over n.
LEMMA JoinExists ==
  ASSUME NEW s, NEW top \in Nat
  PROVE  \E g : JoinRule(s, top, g)
<1> DEFINE E == {n \in Nat : \E g : JoinRule(s, n, g)}
<1>1. 0 \in E
  <2>1. JoinRule(s, 0, [i \in 1..0 |-> s[i]])
    BY DEF JoinRule
  <2> QED BY <2>1
<1>2. ASSUME NEW n \in Nat, n \in E PROVE n + 1 \in E
  <2>1. PICK g : JoinRule(s, n, g)
    BY <1>2
  <2> DEFINE next(f) == [i \in 1..(n + 1) |-> IF i = 1 THEN s[i] ELSE f[i - 1] \o s[i]]
             h == next(g)
  <2>2. ASSUME NEW i \in 1..n PROVE h[i] = g[i]
    <3>1. i \in 1..(n + 1)
      OBVIOUS
    <3> QED BY <2>1, <3>1, Zenon DEF JoinRule
  <2>3. ASSUME NEW i \in 1..(n + 1), i # 1 PROVE h[i - 1] = g[i - 1]
    <3>1. i - 1 \in 1..n
      BY <2>3
    <3> HIDE DEF h
    <3> QED BY <2>2, <3>1
  <2>4. next(h) = h
    <3> DEFINE Of(i, f) == IF i = 1 THEN s[i] ELSE f[i - 1] \o s[i]
    <3>1. \A i \in 1..(n + 1) : Of(i, h) = Of(i, g)
      <4> HIDE DEF h
      <4> QED BY <2>3
    <3>2. next(h) = [i \in 1..(n + 1) |-> Of(i, h)] /\ h = [i \in 1..(n + 1) |-> Of(i, g)]
      OBVIOUS
    <3> HIDE DEF h, next, Of
    <3> QED BY <3>1, <3>2
  <2>5. JoinRule(s, n + 1, h)
    BY <2>4, Zenon DEF JoinRule
  <2> HIDE DEF h
  <2> QED BY <2>5
<1>3. Nat \subseteq E
  <2> HIDE DEF E
  <2> QED BY <1>1, <1>2, Induct
<1> QED BY <1>3

\* Two sequences joined are a sequence, and one with items if one of them has any.
LEMMA PairType ==
  ASSUME NEW S, NEW a \in Seq(S), NEW b \in Seq(S)
  PROVE  a \o b \in Seq(S) /\ (a # <<>> \/ b # <<>> => a \o b # <<>>)
OBVIOUS

\* The same of any number of sequences.
LEMMA JoinType ==
  ASSUME NEW S, NEW s \in Seq(Seq(S))
  PROVE  /\ FlattenSeq(s) \in Seq(S)
         /\ \A i \in DOMAIN s : s[i] # <<>> => FlattenSeq(s) # <<>>
<1>1. Len(s) \in Nat /\ DOMAIN s = 1..Len(s) /\ \A i \in 1..Len(s) : s[i] \in Seq(S)
  OBVIOUS
<1>2. CASE Len(s) = 0
  <2>1. FlattenSeq(s) = s
    BY <1>2 DEF FlattenSeq
  <2> QED BY <1>1, <1>2, <2>1
<1>3. CASE Len(s) # 0
  <2> DEFINE top == Len(s)
             joined == CHOOSE g : g = [i \in 1..top |-> IF i = 1 THEN s[i] ELSE g[i - 1] \o s[i]]
  <2>1. FlattenSeq(s) = joined[top]
    BY <1>3, Zenon DEF FlattenSeq
  <2>2. \E g : JoinRule(s, top, g)
    BY <1>1, JoinExists
  <2>3. JoinRule(s, top, joined)
    BY <2>2, Zenon DEF JoinRule
  <2> HIDE DEF joined
  <2> DEFINE Whole(n) == joined[n] \in Seq(S) /\ \A i \in 1..n : s[i] # <<>> => joined[n] # <<>>
             E == {n \in Nat : n + 1 \in 1..top => Whole(n + 1)}
  <2>4. \A n \in 1..top : joined[n] = IF n = 1 THEN s[n] ELSE joined[n - 1] \o s[n]
    BY <2>3, Zenon DEF JoinRule
  <2> HIDE DEF top
  <2>5. top \in Nat /\ top # 0 /\ \A i \in 1..top : s[i] \in Seq(S)
    BY <1>1, <1>3 DEF top
  <2>6. 0 \in E
    BY <2>4, <2>5
  <2>7. ASSUME NEW n \in Nat, n \in E PROVE n + 1 \in E
    <3> SUFFICES ASSUME n + 2 \in 1..top PROVE Whole(n + 2)
      BY <2>5
    <3>1. n + 1 \in 1..top /\ n + 2 # 1 /\ (n + 2) - 1 = n + 1
      BY <2>5
    <3>2. Whole(n + 1)
      BY <2>7, <3>1
    <3>3. joined[n + 2] = joined[n + 1] \o s[n + 2]
      BY <2>4, <3>1
    <3>4. joined[n + 1] \in Seq(S) /\ s[n + 2] \in Seq(S)
      BY <2>5, <3>2
    <3>5. ASSUME NEW i \in 1..(n + 2), s[i] # <<>> PROVE joined[n + 2] # <<>>
      <4>1. joined[n + 1] # <<>> \/ s[n + 2] # <<>>
        BY <3>2, <3>5
      <4> HIDE DEF joined
      <4> QED BY <3>3, <3>4, <4>1
    <3> QED BY <3>3, <3>4, <3>5
  <2>8. Nat \subseteq E
    <3> HIDE DEF E
    <3> QED BY <2>6, <2>7, Induct
  <2>9. Whole(top)
    <3>1. top - 1 \in Nat /\ (top - 1) + 1 = top
      BY <2>5
    <3>2. top - 1 \in E
      BY <2>8, <3>1
    <3>3. top \in 1..top
      BY <2>5
    <3> HIDE DEF Whole
    <3> QED BY <3>1, <3>2, <3>3
  <2> QED BY <1>1, <2>1, <2>9 DEF top
<1> QED BY <1>2, <1>3

-----------------------------------------------------------------------------
(* The units in the order in which they claim *)

\* The highest of finitely many numbers and 0.
LEMMA HighestIs ==
  ASSUME NEW n \in Nat, NEW f \in [1..n -> Int]
  PROVE  LET S == {0} \cup {f[i] : i \in 1..n}
         IN Max(S) \in Nat /\ \A i \in 1..n : f[i] <= Max(S)
<1> DEFINE Top(k) == \E b \in {0} \cup {f[i] : i \in 1..k} :
                       0 <= b /\ \A i \in 1..k : f[i] <= b
           E == {k \in Nat : k <= n => Top(k)}
<1>1. 0 \in E
  OBVIOUS
<1>2. ASSUME NEW k \in Nat, k \in E PROVE k + 1 \in E
  <2> SUFFICES ASSUME k + 1 <= n PROVE Top(k + 1)
    OBVIOUS
  <2>1. PICK b \in {0} \cup {f[i] : i \in 1..k} : 0 <= b /\ \A i \in 1..k : f[i] <= b
    BY <1>2
  <2>2. b \in Int /\ f[k + 1] \in Int /\ \A i \in 1..(k + 1) : i \in 1..k \/ i = k + 1
    BY <2>1
  <2>3. CASE f[k + 1] <= b
    <3>1. b \in {0} \cup {f[i] : i \in 1..(k + 1)}
      BY <2>1
    <3> QED BY <2>1, <2>2, <2>3, <3>1
  <2>4. CASE ~(f[k + 1] <= b)
    <3>1. f[k + 1] \in {0} \cup {f[i] : i \in 1..(k + 1)}
      BY <2>2
    <3>2. 0 <= f[k + 1] /\ \A i \in 1..(k + 1) : f[i] <= f[k + 1]
      BY <2>1, <2>2, <2>4
    <3> QED BY <3>1, <3>2
  <2> QED BY <2>3, <2>4
<1>3. Nat \subseteq E
  <2> HIDE DEF E
  <2> QED BY <1>1, <1>2, Induct
<1>4. PICK b \in {0} \cup {f[i] : i \in 1..n} : 0 <= b /\ \A i \in 1..n : f[i] <= b
  <2>1. n \in E
    <3> HIDE DEF E
    <3> QED BY <1>3
  <2> QED BY <2>1
<1> DEFINE S == {0} \cup {f[i] : i \in 1..n}
<1>5. S \subseteq Int /\ b \in S /\ \A x \in S : x <= b
  BY <1>4
<1>6. \A i \in 1..n : f[i] \in S
  OBVIOUS
<1>7. 0 \in S
  OBVIOUS
<1> HIDE DEF S
<1>8. Max(S) \in S /\ \A x \in S : Max(S) >= x
  BY <1>5 DEF Max
<1>9. Max(S) \in Nat /\ \A i \in 1..n : f[i] <= Max(S)
  <2>1. Max(S) \in Int /\ \A x \in S : x \in Int /\ x <= Max(S)
    BY <1>5, <1>8
  <2> QED BY <1>6, <1>7, <2>1
<1> QED BY <1>9 DEF S

Claims ==
  {k \in [id : STRING, category : STRING, globs : SUBSET Globs, exclude : SUBSET Globs,
          catch_all : BOOLEAN] : k.id # "nobody"}

\* They are a sequence of units with an id, and a manifest that is valid has some.
LEMMA ClaimantsType ==
  ASSUME NEW m \in Manifests
  PROVE  /\ Claimants(m) \in Seq(Claims)
         /\ Valid(m) => Claimants(m) # <<>>
<1> DEFINE cs == m.categories
<1>1. /\ cs \in Seq(Categories)
      /\ \A i \in DOMAIN cs : \A j \in DOMAIN cs[i].units : cs[i].units[j].id # "nobody"
  BY ManifestAssumption
<1>2. \A i \in DOMAIN cs : cs[i] \in Categories
  BY <1>1
<1> HIDE DEF cs
<1>3. ASSUME NEW i \in DOMAIN cs, NEW last \in BOOLEAN
      PROVE  /\ ClaimsOf(cs[i], last) \in Seq(Claims)
             /\ \A j \in DOMAIN cs[i].units :
                  cs[i].units[j].catch_all = last => ClaimsOf(cs[i], last) # <<>>
  <2> DEFINE us == cs[i].units
             parts == [j \in DOMAIN us |->
                         IF us[j].catch_all = last THEN <<Claim(cs[i], us[j])>> ELSE <<>>]
  <2>1. us \in Seq(Units) /\ cs[i].id \in STRING
    BY <1>2 DEF Categories
  <2>2. \A j \in DOMAIN us : Claim(cs[i], us[j]) \in Claims
    <3>1. \A j \in DOMAIN us : us[j] \in Units /\ us[j].id # "nobody"
      BY <1>1, <2>1
    <3> HIDE DEF us
    <3> QED BY <2>1, <3>1 DEF Claim, Claims, Units
  <2>3. ClaimsOf(cs[i], last) = FlattenSeq(parts)
    BY DEF ClaimsOf
  <2> HIDE DEF us
  <2>4. parts \in Seq(Seq(Claims))
    <3>1. Len(us) \in Nat /\ DOMAIN us = 1..Len(us)
      BY <2>1
    <3>2. \A j \in 1..Len(us) : parts[j] \in Seq(Claims)
      BY <2>2, <3>1
    <3>3. parts \in [1..Len(us) -> Seq(Claims)]
      BY <3>1, <3>2
    <3> HIDE DEF parts
    <3> QED BY <3>1, <3>3
  <2>5. \A j \in DOMAIN us : j \in DOMAIN parts /\ (us[j].catch_all = last => parts[j] # <<>>)
    OBVIOUS
  <2> HIDE DEF parts
  <2> QED BY <2>3, <2>4, <2>5, JoinType DEF us
<1>4. ASSUME NEW order \in Nat
      PROVE  /\ ClaimsAt(m, order) \in Seq(Claims)
             /\ \A i \in DOMAIN cs :
                  cs[i].order = order /\ cs[i].units # <<>> => ClaimsAt(m, order) # <<>>
  <2> DEFINE both(i) == ClaimsOf(cs[i], FALSE) \o ClaimsOf(cs[i], TRUE)
             parts == [i \in DOMAIN cs |-> IF cs[i].order = order THEN both(i) ELSE <<>>]
  <2>1. ClaimsAt(m, order) = FlattenSeq(parts)
    BY DEF ClaimsAt, cs
  <2>2. \A i \in DOMAIN cs : both(i) \in Seq(Claims)
    <3>1. \A i \in DOMAIN cs :
            ClaimsOf(cs[i], FALSE) \in Seq(Claims) /\ ClaimsOf(cs[i], TRUE) \in Seq(Claims)
      BY <1>3
    <3> QED BY <3>1, PairType
  <2>3. ASSUME NEW i \in DOMAIN cs, cs[i].units # <<>> PROVE both(i) # <<>>
    <3> DEFINE us == cs[i].units
    <3>1. us \in Seq(Units)
      BY <1>2 DEF Categories
    <3>2. 1 \in DOMAIN us
      BY <2>3, <3>1
    <3>3. us[1] \in Units
      BY <3>1, <3>2
    <3>4. us[1].catch_all = TRUE \/ us[1].catch_all = FALSE
      BY <3>3 DEF Units
    <3>5. ClaimsOf(cs[i], FALSE) # <<>> \/ ClaimsOf(cs[i], TRUE) # <<>>
      BY <1>3, <3>2, <3>4
    <3>6. ClaimsOf(cs[i], FALSE) \in Seq(Claims) /\ ClaimsOf(cs[i], TRUE) \in Seq(Claims)
      BY <1>3
    <3> QED BY <3>5, <3>6, PairType
  <2> HIDE DEF both
  <2>4. parts \in Seq(Seq(Claims))
    <3>1. Len(cs) \in Nat /\ DOMAIN cs = 1..Len(cs)
      BY <1>1
    <3>2. \A i \in 1..Len(cs) : parts[i] \in Seq(Claims)
      BY <2>2, <3>1
    <3>3. parts \in [1..Len(cs) -> Seq(Claims)]
      BY <3>1, <3>2
    <3> HIDE DEF parts
    <3> QED BY <3>1, <3>3
  <2>5. \A i \in DOMAIN cs :
          i \in DOMAIN parts /\ (cs[i].order = order /\ cs[i].units # <<>> => parts[i] # <<>>)
    BY <2>3
  <2> HIDE DEF parts
  <2> QED BY <2>1, <2>4, <2>5, JoinType
<1> DEFINE parts == [order \in 1..LastOrder(m) |-> ClaimsAt(m, order)]
<1>5. LastOrder(m) \in Nat /\ \A i \in DOMAIN cs : cs[i].order <= LastOrder(m)
  <2> DEFINE f == [i \in DOMAIN cs |-> cs[i].order]
  <2>1. Len(cs) \in Nat /\ DOMAIN cs = 1..Len(cs) /\ f \in [1..Len(cs) -> Int]
    BY <1>1, <1>2 DEF Categories
  <2>2. {m.categories[i].order : i \in DOMAIN m.categories} = {f[i] : i \in 1..Len(cs)}
    BY <2>1 DEF cs
  <2>3. LastOrder(m) = Max({0} \cup {f[i] : i \in 1..Len(cs)})
    BY <2>2 DEF LastOrder
  <2>4. \A i \in DOMAIN cs : i \in 1..Len(cs) /\ f[i] = cs[i].order
    BY <2>1
  <2> HIDE DEF f
  <2> QED BY <2>1, <2>3, <2>4, HighestIs
<1>6. Claimants(m) = FlattenSeq(parts)
  BY DEF Claimants
<1>7. parts \in Seq(Seq(Claims))
  <2>1. \A order \in 1..LastOrder(m) : ClaimsAt(m, order) \in Seq(Claims)
    BY <1>4, <1>5
  <2>2. parts \in [1..LastOrder(m) -> Seq(Claims)]
    BY <2>1
  <2> HIDE DEF parts
  <2> QED BY <1>5, <2>2
<1>8. Claimants(m) \in Seq(Claims)
  <2> HIDE DEF parts
  <2> QED BY <1>6, <1>7, JoinType
<1>9. ASSUME Valid(m) PROVE Claimants(m) # <<>>
  <2>1. cs # <<>> /\ \A i \in DOMAIN cs : cs[i].order >= 1 /\ cs[i].units # <<>>
    BY <1>9 DEF Valid, cs
  <2>2. 1 \in DOMAIN cs
    BY <1>1, <2>1
  <2>3. cs[1].order \in 1..LastOrder(m) /\ cs[1].order \in Nat
    BY <1>2, <1>5, <2>1, <2>2 DEF Categories
  <2>4. cs[1].order \in DOMAIN parts /\ parts[cs[1].order] # <<>>
    BY <1>4, <2>1, <2>2, <2>3
  <2> HIDE DEF parts
  <2> QED BY <1>6, <1>7, <2>4, JoinType
<1> QED BY <1>8, <1>9

-----------------------------------------------------------------------------
(* Owners *)

\* At most one unit claims a file first, and one does if any wants it.
LEMMA FirstIs ==
  ASSUME NEW units \in Seq(Claims), NEW p
  PROVE  /\ \A i, j \in FirstClaim(units, p) : i = j
         /\ \A i \in FirstClaim(units, p) :
              /\ i \in DOMAIN units /\ Wants(units[i], p)
              /\ \A j \in DOMAIN units : Wants(units[j], p) => i <= j
         /\ (\E i \in DOMAIN units : Wants(units[i], p)) => FirstClaim(units, p) # {}
<1>1. DOMAIN units = 1..Len(units) /\ Len(units) \in Nat
  OBVIOUS
<1>2. ASSUME NEW i \in FirstClaim(units, p)
      PROVE  /\ i \in DOMAIN units /\ Wants(units[i], p)
             /\ \A j \in DOMAIN units : Wants(units[j], p) => i <= j
  <2>1. i \in DOMAIN units /\ Wants(units[i], p) /\ \A j \in 1..(i - 1) : ~Wants(units[j], p)
    BY <1>2 DEF FirstClaim
  <2> QED BY <1>1, <2>1
<1>3. \A i, j \in FirstClaim(units, p) : i = j
  <2>1. \A i, j \in FirstClaim(units, p) : i <= j /\ j <= i /\ i \in Int /\ j \in Int
    BY <1>1, <1>2
  <2> QED BY <2>1
<1>4. ASSUME \E i \in DOMAIN units : Wants(units[i], p)
      PROVE  FirstClaim(units, p) # {}
  <2> DEFINE W == {i \in DOMAIN units : Wants(units[i], p)}
  <2>1. W \in SUBSET Nat /\ W # {}
    BY <1>1, <1>4
  <2>2. PICK i \in W : \A j \in W : i <= j
    BY <2>1, Least
  <2>3. \A j \in 1..(i - 1) : ~Wants(units[j], p)
    BY <1>1, <2>2
  <2> QED BY <2>2, <2>3 DEF FirstClaim
<1> QED BY <1>2, <1>3, <1>4

\* The lock of a manifest, for the files it found.
ClaimsIn(m, files) ==
  LET units == Claimants(m)
  IN [i \in DOMAIN units |->
        [id |-> units[i].id, category |-> units[i].category, globs |-> units[i].globs,
         exclude |-> units[i].exclude, catch_all |-> units[i].catch_all,
         files |-> {p \in files : i \in FirstClaim(units, p)}]]
ExcludedIn(m, files) ==
  [i \in DOMAIN m.excluded |-> [glob |-> m.excluded[i], files |-> ExcludedBy(m, files, i)]]
LockOf(l, m, files) == l.claims = ClaimsIn(m, files) /\ l.excluded = ExcludedIn(m, files)

\* The owner the audit finds in it is the one the manifest gives, for the files the
\* lock lists and for those it does not.
LEMMA OwnerIs ==
  ASSUME NEW m \in Manifests, NEW files, NEW l, LockOf(l, m, files), NEW p
  PROVE  OwnerOf(l, p) = AssignedOwner(m, p)
<1> DEFINE units == Claimants(m)
           first == FirstClaim(units, p)
           exact == {i \in DOMAIN l.claims : p \in l.claims[i].files}
           globbed == {i \in DOMAIN l.claims : Wants(l.claims[i], p)}
           First(S) == CHOOSE i \in S : \A j \in S : i <= j
           rule == \E i \in DOMAIN l.excluded :
                     p \in l.excluded[i].files \/ p \in Matches[l.excluded[i].glob]
           ruled == \E i \in DOMAIN m.excluded : p \in Matches[m.excluded[i]]
<1>1. OwnerOf(l, p) = IF exact # {} THEN l.claims[First(exact)].id
                      ELSE IF globbed # {} THEN l.claims[First(globbed)].id
                      ELSE IF rule THEN "excluded" ELSE "nobody"
  BY DEF OwnerOf
<1>2. AssignedOwner(m, p) = IF first # {} THEN units[CHOOSE i \in first : TRUE].id
                            ELSE IF ruled THEN "excluded" ELSE "nobody"
  BY DEF AssignedOwner
<1>3. units \in Seq(Claims)
  BY ClaimantsType
<1>4. /\ DOMAIN l.claims = DOMAIN units
      /\ \A i \in DOMAIN units :
           /\ l.claims[i].id = units[i].id
           /\ l.claims[i].globs = units[i].globs /\ l.claims[i].exclude = units[i].exclude
           /\ l.claims[i].files = {q \in files : i \in FirstClaim(units, q)}
  BY DEF LockOf, ClaimsIn
<1>5. rule <=> ruled
  <2>1. /\ DOMAIN l.excluded = DOMAIN m.excluded
        /\ \A i \in DOMAIN m.excluded :
             l.excluded[i].glob = m.excluded[i] /\ l.excluded[i].files = ExcludedBy(m, files, i)
    BY DEF LockOf, ExcludedIn
  <2>2. \A i \in DOMAIN m.excluded : p \in ExcludedBy(m, files, i) => p \in Matches[m.excluded[i]]
    BY DEF ExcludedBy
  <2> QED BY <2>1, <2>2
<1> HIDE DEF units
<1>6. /\ \A i, j \in first : i = j
      /\ \A i \in first : i \in DOMAIN units /\ Wants(units[i], p)
           /\ \A j \in DOMAIN units : Wants(units[j], p) => i <= j
      /\ (\E i \in DOMAIN units : Wants(units[i], p)) => first # {}
  BY <1>3, FirstIs
<1>7. exact \subseteq first
  BY <1>4
<1>8. globbed = {i \in DOMAIN units : Wants(units[i], p)}
  BY <1>4 DEF Wants
<1>9. DOMAIN units \subseteq Int
  BY <1>3
<1> HIDE DEF first, exact, globbed, rule, ruled
<1>10. CASE first = {}
  <2>1. exact = {} /\ globbed = {}
    BY <1>6, <1>7, <1>8, <1>10
  <2> QED BY <1>1, <1>2, <1>5, <1>10, <2>1
<1>11. CASE first # {}
  <2>1. PICK i \in first : TRUE
    BY <1>11
  <2>2. first = {i} /\ i \in DOMAIN units /\ i \in globbed /\ i \in Int
    BY <1>6, <1>8, <1>9, <2>1
  <2>3. First(globbed) = i
    <3>1. i \in globbed /\ \A j \in globbed : i <= j
      BY <1>6, <1>8, <2>1, <2>2
    <3>2. \A k \in globbed : (\A j \in globbed : k <= j) => k = i
      BY <1>8, <1>9, <3>1
    <3> QED BY <3>1, <3>2
  <2>4. exact # {} => First(exact) = i
    <3>1. ASSUME exact # {} PROVE exact = {i}
      BY <1>7, <2>2, <3>1
    <3> QED BY <2>2, <3>1
  <2>5. (CHOOSE k \in first : TRUE) = i
    BY <2>2
  <2> HIDE DEF First
  <2>6. OwnerOf(l, p) = units[i].id
    BY <1>1, <1>4, <2>2, <2>3, <2>4
  <2> QED BY <1>2, <1>11, <2>5, <2>6
<1> QED BY <1>10, <1>11

\* It is somebody, for a file the manifest covers.
LEMMA OwnedBySomebody ==
  ASSUME NEW m \in Manifests, NEW files, Uncovered(m, files) = {}, NEW p \in files
  PROVE  AssignedOwner(m, p) # "nobody"
<1> DEFINE units == Claimants(m)
           first == FirstClaim(units, p)
           ruled == \E i \in DOMAIN m.excluded : p \in Matches[m.excluded[i]]
<1>1. AssignedOwner(m, p) = IF first # {} THEN units[CHOOSE i \in first : TRUE].id
                            ELSE IF ruled THEN "excluded" ELSE "nobody"
  BY DEF AssignedOwner
<1>2. first # {} \/ ruled
  BY DEF Uncovered, Assigned
<1>3. units \in Seq(Claims)
  BY ClaimantsType
<1> HIDE DEF units
<1>4. \A i \in first : units[i].id # "nobody"
  <2>1. \A i \in first : i \in DOMAIN units
    BY DEF FirstClaim
  <2>2. \A i \in first : units[i] \in Claims
    BY <1>3, <2>1
  <2> QED BY <2>2 DEF Claims
<1> HIDE DEF first, ruled
<1> QED BY <1>1, <1>2, <1>4

-----------------------------------------------------------------------------
(* The lock *)

\* A lock there is was built from some manifest, which was valid, and some files.
LockInv ==
  /\ manifest \in Manifests
  /\ pin \in Pins
  /\ lock = NoLock \/ \E m \in Manifests : Valid(m) /\ \E files \in SUBSET Listed : LockOf(lock, m, files)

\* What --write writes.
LEMMA BuiltIs == ASSUME NEW m, NEW files PROVE LockOf(BuiltLock(m, files), m, files)
BY DEF LockOf, BuiltLock, ClaimsIn, ExcludedIn

LEMMA LockStep ==
  ASSUME LockInv, [Next]_vars
  PROVE  LockInv'
<1>1. CASE Edit \/ EditOverlay \/ Commit \/ UNCHANGED vars
  <2>1. UNCHANGED <<manifest, pin, lock>>
    BY <1>1 DEF Edit, EditOverlay, Commit, vars
  <2> QED BY <2>1 DEF LockInv
<1>2. CASE EditManifest \/ MovePin
  <2>1. manifest' \in Manifests /\ pin' \in Pins /\ lock' = lock
    BY <1>2 DEF EditManifest, MovePin, LockInv
  <2> QED BY <2>1 DEF LockInv
<1>3. CASE Catalog
  <2>1. CASE CatalogWrite
    <3>1. /\ Valid(manifest) /\ lock' = BuiltLock(manifest, SourceFiles)
          /\ UNCHANGED <<manifest, pin>>
      BY <2>1 DEF CatalogWrite, Sound
    <3>2. LockOf(lock', manifest, SourceFiles) /\ SourceFiles \in SUBSET Listed
      BY <3>1, BuiltIs DEF SourceFiles
    <3> QED BY <3>1, <3>2 DEF LockInv
  <2>2. CASE CatalogWriteTorn
    BY <2>2 DEF CatalogWriteTorn, LockInv
  <2> QED BY <1>3, <2>1, <2>2 DEF Catalog
<1> QED BY <1>1, <1>2, <1>3 DEF Next

\* Safety: the lock, whatever has moved on since, is that of a valid manifest and of
\* source files that were there (i18n-catalog --write is the only one to write it).
THEOREM LocksAreBuilt == Spec => []LockInv
<1>1. Init => LockInv
  BY DEF Init, LockInv
<1> QED BY <1>1, LockStep, PTL DEF Spec

\* Safety: when i18n-catalog --check passes, every source file has an owner, and it is
\* the same for owner_of, which reads the lock, and for assign_units, which reads the
\* manifest.
THEOREM CheckedIsOwned == Spec => []CheckMeansOwned
<1>1. ASSUME LockInv, CheckPasses, NEW p \in SourceFiles
      PROVE  OwnerOf(lock, p) = AssignedOwner(manifest, p) /\ OwnerOf(lock, p) # "nobody"
  <2>1. Uncovered(manifest, SourceFiles) = {} /\ lock = BuiltLock(manifest, SourceFiles)
    BY <1>1 DEF CheckPasses, Sound, SameHash
  <2>2. LockOf(lock, manifest, SourceFiles) /\ manifest \in Manifests
    BY <1>1, <2>1, BuiltIs DEF LockInv
  <2>3. OwnerOf(lock, p) = AssignedOwner(manifest, p)
    BY <2>2, OwnerIs
  <2> QED BY <2>1, <2>2, <2>3, OwnedBySomebody
<1>2. LockInv => CheckMeansOwned
  BY <1>1 DEF CheckMeansOwned
<1> QED BY <1>2, LocksAreBuilt, PTL

\* Manifests that list the same units with the same rules give every file one owner.
LEMMA SameRules ==
  ASSUME NEW m \in Manifests, NEW k \in Manifests, NEW p,
         DOMAIN Claimants(m) = DOMAIN Claimants(k),
         \A i \in DOMAIN Claimants(m) :
           /\ Claimants(m)[i].id = Claimants(k)[i].id
           /\ Claimants(m)[i].globs = Claimants(k)[i].globs
           /\ Claimants(m)[i].exclude = Claimants(k)[i].exclude,
         m.excluded = k.excluded
  PROVE  AssignedOwner(m, p) = AssignedOwner(k, p)
<1> DEFINE U == Claimants(m)
           V == Claimants(k)
           first == FirstClaim(U, p)
<1>1. U \in Seq(Claims) /\ V \in Seq(Claims)
  BY ClaimantsType
<1> HIDE DEF U, V
<1>2. \A i \in DOMAIN U : Wants(U[i], p) <=> Wants(V[i], p)
  BY DEF Wants, U, V
<1>3. DOMAIN U = 1..Len(U) /\ DOMAIN V = DOMAIN U /\ Len(U) \in Nat
  BY <1>1 DEF U, V
<1>4. FirstClaim(V, p) = first
  <2>1. \A i \in DOMAIN U : \A j \in 1..(i - 1) : j \in DOMAIN U
    BY <1>3
  <2> QED BY <1>2, <1>3, <2>1 DEF FirstClaim
<1>5. first # {} => (CHOOSE i \in first : TRUE) \in DOMAIN U
  BY DEF FirstClaim
<1> HIDE DEF first
<1>6. first # {} => U[CHOOSE i \in first : TRUE].id = V[CHOOSE i \in first : TRUE].id
  BY <1>5 DEF U, V
<1>7. AssignedOwner(m, p) =
        IF first # {} THEN U[CHOOSE i \in first : TRUE].id
        ELSE IF \E i \in DOMAIN m.excluded : p \in Matches[m.excluded[i]] THEN "excluded"
        ELSE "nobody"
  BY DEF AssignedOwner, first, U
<1>8. AssignedOwner(k, p) =
        IF first # {} THEN V[CHOOSE i \in first : TRUE].id
        ELSE IF \E i \in DOMAIN k.excluded : p \in Matches[k.excluded[i]] THEN "excluded"
        ELSE "nobody"
  BY <1>4 DEF AssignedOwner, V
<1> QED BY <1>6, <1>7, <1>8

\* An entry of the lock without its files keeps the rest.
LEMMA BareEntry ==
  ASSUME NEW id, NEW category, NEW globs, NEW exclude, NEW catch_all, NEW fs, NEW k,
         k = [id |-> id, category |-> category, globs |-> globs, exclude |-> exclude,
              catch_all |-> catch_all, files |-> fs]
  PROVE  /\ [k EXCEPT !.files = {}].id = id
         /\ [k EXCEPT !.files = {}].globs = globs
         /\ [k EXCEPT !.files = {}].exclude = exclude
OBVIOUS

\* Safety: as long as the rules of the manifest are those of the lock, owner_of finds
\* in the lock, however old, the owner the next --write gives each path.
THEOREM OwnersKnown == Spec => []OwnersForeseen
<1> DEFINE Rules(l) == <<[i \in DOMAIN l.claims |-> [l.claims[i] EXCEPT !.files = {}]],
                         [i \in DOMAIN l.excluded |-> l.excluded[i].glob]>>
<1>1. ASSUME LockInv, lock # NoLock, Rules(lock) = Rules(BuiltLock(manifest, SourceFiles)),
             NEW p \in Listed
      PROVE  OwnerOf(lock, p) = AssignedOwner(manifest, p)
  <2> DEFINE next == BuiltLock(manifest, SourceFiles)
  <2>1. PICK m \in Manifests : \E files \in SUBSET Listed : LockOf(lock, m, files)
    BY <1>1 DEF LockInv
  <2>2. PICK files \in SUBSET Listed : LockOf(lock, m, files)
    BY <2>1
  <2>3. OwnerOf(lock, p) = AssignedOwner(m, p)
    BY <2>2, OwnerIs
  <2>4. LockOf(next, manifest, SourceFiles) /\ manifest \in Manifests
    BY <1>1, BuiltIs DEF LockInv
  <2> HIDE DEF next
  <2>5. /\ [i \in DOMAIN lock.claims |-> [lock.claims[i] EXCEPT !.files = {}]]
             = [i \in DOMAIN next.claims |-> [next.claims[i] EXCEPT !.files = {}]]
        /\ [i \in DOMAIN lock.excluded |-> lock.excluded[i].glob]
             = [i \in DOMAIN next.excluded |-> next.excluded[i].glob]
    BY <1>1 DEF next
  <2>6. DOMAIN lock.claims = DOMAIN next.claims /\ DOMAIN lock.excluded = DOMAIN next.excluded
    BY <2>5
  <2>7. \A i \in DOMAIN lock.excluded : lock.excluded[i].glob = next.excluded[i].glob
    BY <2>5, <2>6
  <2>8. \A i \in DOMAIN lock.claims :
          [lock.claims[i] EXCEPT !.files = {}] = [next.claims[i] EXCEPT !.files = {}]
    BY <2>5, <2>6
  <2>9. /\ DOMAIN Claimants(m) = DOMAIN Claimants(manifest)
        /\ \A i \in DOMAIN Claimants(m) :
             /\ Claimants(m)[i].id = Claimants(manifest)[i].id
             /\ Claimants(m)[i].globs = Claimants(manifest)[i].globs
             /\ Claimants(m)[i].exclude = Claimants(manifest)[i].exclude
    <3> DEFINE U == Claimants(m)
               V == Claimants(manifest)
               Bare(k) == [k EXCEPT !.files = {}]
    <3>1. /\ DOMAIN lock.claims = DOMAIN U
          /\ \A i \in DOMAIN U :
               lock.claims[i] = [id |-> U[i].id, category |-> U[i].category, globs |-> U[i].globs,
                                 exclude |-> U[i].exclude, catch_all |-> U[i].catch_all,
                                 files |-> {q \in files : i \in FirstClaim(U, q)}]
      BY <2>2 DEF LockOf, ClaimsIn
    <3>2. /\ DOMAIN next.claims = DOMAIN V
          /\ \A i \in DOMAIN V :
               next.claims[i] = [id |-> V[i].id, category |-> V[i].category, globs |-> V[i].globs,
                                 exclude |-> V[i].exclude, catch_all |-> V[i].catch_all,
                                 files |-> {q \in SourceFiles : i \in FirstClaim(V, q)}]
      BY <2>4 DEF LockOf, ClaimsIn
    <3> HIDE DEF U, V
    <3>3. \A i \in DOMAIN U :
            /\ Bare(lock.claims[i]).id = U[i].id
            /\ Bare(lock.claims[i]).globs = U[i].globs
            /\ Bare(lock.claims[i]).exclude = U[i].exclude
      <4> SUFFICES ASSUME NEW i \in DOMAIN U
                   PROVE  /\ Bare(lock.claims[i]).id = U[i].id
                          /\ Bare(lock.claims[i]).globs = U[i].globs
                          /\ Bare(lock.claims[i]).exclude = U[i].exclude
        OBVIOUS
      <4> DEFINE k == lock.claims[i]
                 u == U[i]
                 fs == {q \in files : i \in FirstClaim(U, q)}
      <4>1. k = [id |-> u.id, category |-> u.category, globs |-> u.globs, exclude |-> u.exclude,
                 catch_all |-> u.catch_all, files |-> fs]
        BY <3>1
      <4> HIDE DEF k, u, fs
      <4>2. Bare(k).id = u.id /\ Bare(k).globs = u.globs /\ Bare(k).exclude = u.exclude
        BY <4>1, BareEntry
      <4> QED BY <4>2 DEF k, u
    <3>4. \A i \in DOMAIN V :
            /\ Bare(next.claims[i]).id = V[i].id
            /\ Bare(next.claims[i]).globs = V[i].globs
            /\ Bare(next.claims[i]).exclude = V[i].exclude
      <4> SUFFICES ASSUME NEW i \in DOMAIN V
                   PROVE  /\ Bare(next.claims[i]).id = V[i].id
                          /\ Bare(next.claims[i]).globs = V[i].globs
                          /\ Bare(next.claims[i]).exclude = V[i].exclude
        OBVIOUS
      <4> DEFINE k == next.claims[i]
                 u == V[i]
                 fs == {q \in SourceFiles : i \in FirstClaim(V, q)}
      <4>1. k = [id |-> u.id, category |-> u.category, globs |-> u.globs, exclude |-> u.exclude,
                 catch_all |-> u.catch_all, files |-> fs]
        BY <3>2
      <4> HIDE DEF k, u, fs
      <4>2. Bare(k).id = u.id /\ Bare(k).globs = u.globs /\ Bare(k).exclude = u.exclude
        BY <4>1, BareEntry
      <4> QED BY <4>2 DEF k, u
    <3>5. \A i \in DOMAIN lock.claims : Bare(lock.claims[i]) = Bare(next.claims[i])
      BY <2>8
    <3> HIDE DEF Bare
    <3>6. /\ DOMAIN U = DOMAIN V
          /\ \A i \in DOMAIN U :
               U[i].id = V[i].id /\ U[i].globs = V[i].globs /\ U[i].exclude = V[i].exclude
      BY <2>6, <3>1, <3>2, <3>3, <3>4, <3>5
    <3> QED BY <3>6 DEF U, V
  <2>10. m.excluded = manifest.excluded
    <3>1. m.excluded \in Seq(Globs) /\ manifest.excluded \in Seq(Globs)
      BY <2>4, ManifestAssumption
    <3>2. DOMAIN m.excluded = DOMAIN manifest.excluded
      BY <2>2, <2>4, <2>6 DEF LockOf, ExcludedIn
    <3>3. \A i \in DOMAIN m.excluded : m.excluded[i] = manifest.excluded[i]
      <4>1. /\ DOMAIN lock.excluded = DOMAIN m.excluded
            /\ \A i \in DOMAIN m.excluded : lock.excluded[i].glob = m.excluded[i]
        BY <2>2 DEF LockOf, ExcludedIn
      <4>2. \A i \in DOMAIN manifest.excluded : next.excluded[i].glob = manifest.excluded[i]
        BY <2>4 DEF LockOf, ExcludedIn
      <4> QED BY <2>7, <3>2, <4>1, <4>2
    <3> QED BY <3>1, <3>2, <3>3
  <2> QED BY <2>3, <2>4, <2>9, <2>10, SameRules
<1>2. LockInv => OwnersForeseen
  BY <1>1 DEF OwnersForeseen
<1> QED BY <1>2, LocksAreBuilt, PTL

-----------------------------------------------------------------------------
(* The audit *)

\* An owner the audit finds is "excluded", "nobody" or a unit of some category.
LEMMA OwnerInCategory ==
  ASSUME LockInv, lock # NoLock, NEW p
  PROVE  \/ OwnerOf(lock, p) \in {"excluded", "nobody"}
         \/ \E c \in LockCategories : OwnerOf(lock, p) \in UnitsOfCategory(c)
<1>1. PICK m \in Manifests : \E files \in SUBSET Listed : LockOf(lock, m, files)
  BY DEF LockInv
<1>2. PICK files \in SUBSET Listed : LockOf(lock, m, files)
  BY <1>1
<1> DEFINE units == Claimants(m)
           first == FirstClaim(units, p)
<1>3. OwnerOf(lock, p) = AssignedOwner(m, p)
  BY <1>2, OwnerIs
<1>4. DOMAIN lock.claims = DOMAIN units /\ \A i \in DOMAIN units : lock.claims[i].id = units[i].id
  BY <1>2 DEF LockOf, ClaimsIn
<1>5. AssignedOwner(m, p) \in {"excluded", "nobody"}
        \/ \E i \in first : AssignedOwner(m, p) = units[i].id
  BY DEF AssignedOwner
<1>6. first \subseteq DOMAIN units
  BY DEF FirstClaim
<1> HIDE DEF first, units
<1>7. ASSUME NEW i \in first, AssignedOwner(m, p) = units[i].id
      PROVE  \E c \in LockCategories : OwnerOf(lock, p) \in UnitsOfCategory(c)
  <2>1. i \in DOMAIN lock.claims /\ OwnerOf(lock, p) = lock.claims[i].id
    BY <1>3, <1>4, <1>6, <1>7
  <2>2. lock.claims[i].category \in LockCategories
    BY <2>1 DEF LockCategories
  <2>3. OwnerOf(lock, p) \in UnitsOfCategory(lock.claims[i].category)
    BY <2>1 DEF UnitsOfCategory
  <2> QED BY <2>2, <2>3
<1> QED BY <1>3, <1>5, <1>7

\* A lock has some category.
LEMMA SomeCategory == ASSUME LockInv, lock # NoLock PROVE LockCategories # {}
<1>1. PICK m \in Manifests : Valid(m) /\ \E files \in SUBSET Listed : LockOf(lock, m, files)
  BY DEF LockInv
<1>2. PICK files \in SUBSET Listed : LockOf(lock, m, files)
  BY <1>1
<1>3. Claimants(m) \in Seq(Claims) /\ Claimants(m) # <<>>
  BY <1>1, ClaimantsType
<1>4. 1 \in DOMAIN Claimants(m)
  BY <1>3
<1>5. 1 \in DOMAIN lock.claims
  BY <1>2, <1>4 DEF LockOf, ClaimsIn
<1> QED BY <1>5 DEF LockCategories

\* A name of `git status' that is a path is that of an untracked file.
LEMMA UntrackedPath ==
  ASSUME NEW p \in Paths, p \in UntrackedNames
  PROVE  p \in UntrackedFiles
<1>1. PICK q \in UntrackedFiles : p = q \/ p = DirOf[q]
  BY DEF UntrackedNames
<1>2. q \in Paths
  BY DEF UntrackedFiles, Present
<1>3. DirOf[q] \in Dirs /\ p \notin Dirs
  BY <1>2, CatalogAssumption
<1> QED BY <1>1, <1>3

\* What differs from a revision is among the changed files.
LEMMA ChangedIsSeen ==
  ASSUME NEW rev, NEW p \in Paths, rev[p] # worktree[p], ~Hidden(p)
  PROVE  p \in AllChanged(rev)
<1>1. CASE p \in Present(head)
  BY <1>1 DEF AllChanged, Differing
<1>2. CASE p \notin Present(head) /\ p \in Present(rev)
  BY <1>2 DEF AllChanged, Differing, Present
<1>3. CASE p \notin Present(head) /\ p \notin Present(rev)
  <2>1. p \in UntrackedFiles
    BY <1>3 DEF UntrackedFiles, Present
  <2> QED BY <2>1 DEF Hidden, AllChanged
<1> QED BY <1>1, <1>2, <1>3

\* What is compared and is no translation of what the revision has is a finding.
LEMMA ComparedIsFound ==
  ASSUME NEW rev, NEW U, NEW p \in Paths, p \in Compared(U, rev),
         Flagged(rev[p], worktree[p]), Passes(U, rev)
  PROVE  Allowed(p)
<1>1. Flagged(OldText(rev, p), worktree[p])
  <2>1. CASE p \in UntrackedNames
    <3>1. worktree[p] # "absent"
      BY <2>1, UntrackedPath DEF UntrackedFiles, Present
    <3> QED BY <2>1, <3>1 DEF OldText, Flagged
  <2>2. CASE p \notin UntrackedNames
    BY <2>2 DEF OldText
  <2> QED BY <2>1, <2>2
<1>2. <<"content", p>> \in Findings(U, rev)
  BY <1>1 DEF Findings
<1> QED BY <1>2 DEF Passes, Allowed

\* So only the counterpart of an English file of some audit is left to other rules.
LEMMA OnlyCounterparts ==
  ASSUME LockInv, NEW rev, EveryAuditPasses(rev), NEW p \in Paths, p \in SourceNames,
         ~Hidden(p), ~Allowed(p), Flagged(rev[p], worktree[p])
  PROVE  \E c \in LockCategories : p \in CounterpartsOf(UnitsOfCategory(c))
<1>1. lock # NoLock /\ \A c \in LockCategories : Passes(UnitsOfCategory(c), rev)
  BY DEF EveryAuditPasses
<1>2. p \in AllChanged(rev)
  <2>1. rev[p] # worktree[p]
    BY DEF Flagged
  <2> QED BY <2>1, ChangedIsSeen
<1>3. ASSUME NEW c \in LockCategories, p \in Scoped(UnitsOfCategory(c), rev)
      PROVE  p \in CounterpartsOf(UnitsOfCategory(c))
  <2> SUFFICES ASSUME p \notin CounterpartsOf(UnitsOfCategory(c)) PROVE FALSE
    OBVIOUS
  <2>1. p \in Compared(UnitsOfCategory(c), rev)
    BY <1>3 DEF Compared
  <2> QED BY <1>1, <2>1, ComparedIsFound
<1>4. CASE \E c \in LockCategories : p \in Scoped(UnitsOfCategory(c), rev)
  BY <1>3, <1>4
<1>5. CASE \A c \in LockCategories : p \notin Scoped(UnitsOfCategory(c), rev)
  <2>1. \A c \in LockCategories : OwnerOf(lock, p) \notin UnitsOfCategory(c)
    BY <1>2, <1>5 DEF Scoped
  <2>2. OwnerOf(lock, p) \in {"excluded", "nobody"}
    BY <1>1, <2>1, OwnerInCategory
  <2>3. PICK c \in LockCategories : TRUE
    BY <1>1, SomeCategory
  <2>4. p \in OutOfScope(UnitsOfCategory(c), rev)
    BY <1>2, <1>5, <2>2 DEF OutOfScope
  <2>5. <<"out-of-scope", p>> \in Findings(UnitsOfCategory(c), rev)
    BY <2>4 DEF Findings
  <2> QED BY <1>1, <2>5 DEF Passes, Allowed
<1> QED BY <1>4, <1>5

\* And a pt-BR file whose English file the lock lists is compared with it.
LEMMA LookedIsSound ==
  ASSUME NEW rev, EveryAuditPasses(rev), NEW p, Looked(p), ~Hidden(p), ~Allowed(p)
  PROVE  worktree[p] # "flawed"
<1>1. PICK e \in English, i \in DOMAIN lock.claims : Counterpart[e] = p /\ e \in lock.claims[i].files
  BY DEF Looked
<1> DEFINE c == lock.claims[i].category
           U == UnitsOfCategory(c)
<1>2. c \in LockCategories /\ lock.claims[i].id \in U
  BY DEF LockCategories, UnitsOfCategory
<1> HIDE DEF c, U
<1>3. Passes(U, rev)
  BY <1>2 DEF EveryAuditPasses, U
<1>4. e \in UnitEnglish(U)
  BY <1>1, <1>2 DEF UnitEnglish, UnitFiles
<1>5. overlay[e] = "absent" /\ worktree[e] # "absent"
  BY <1>1 DEF Hidden
<1>6. e \in PairedEnglish(U) /\ Portuguese(e) = worktree[p]
  BY <1>1, <1>4, <1>5 DEF PairedEnglish, Portuguese
<1>7. worktree[p] # "translated" => <<"lang-key-mismatch", e>> \in Findings(U, rev)
  BY <1>6 DEF Findings
<1>8. worktree[p] # "translated" => Allowed(p)
  BY <1>1, <1>3, <1>7 DEF Passes, Allowed
<1> QED BY <1>8

\* Safety: what every category's audit lets pass holds no change but translations,
\* however old the lock and whichever audit has to look (run_with_base of
\* orchestrate.rs); every file that differs is some unit's or out of scope.
THEOREM NoChangeSlips == Spec => []NothingSlips
<1>1. ASSUME LockInv, NEW rev, EveryAuditPasses(rev), NEW p \in SourceNames \cap Paths,
             ~Hidden(p), ~Allowed(p)
      PROVE  SourceAccepted(p, rev)
  <2>1. CASE p \notin Counterparts
    <3>1. \A U : p \notin CounterpartsOf(U)
      BY <2>1 DEF CounterpartsOf, UnitEnglish, Counterparts
    <3>2. ~Flagged(rev[p], worktree[p])
      BY <1>1, <3>1, OnlyCounterparts
    <3> QED BY <2>1, <3>2 DEF SourceAccepted
  <2>2. CASE p \in Counterparts
    <3> SUFFICES ASSUME worktree[p] = "flawed" PROVE rev[p] = "flawed" /\ ~Looked(p)
      BY <2>2 DEF SourceAccepted
    <3>1. ~Looked(p)
      BY <1>1, LookedIsSound
    <3>2. ASSUME rev[p] # "flawed" PROVE FALSE
      <4>1. Flagged(rev[p], worktree[p])
        BY <3>2 DEF Flagged
      <4>2. PICK c \in LockCategories : p \in CounterpartsOf(UnitsOfCategory(c))
        BY <1>1, <4>1, OnlyCounterparts
      <4>3. Looked(p)
        BY <4>2 DEF CounterpartsOf, UnitEnglish, UnitFiles, Looked
      <4> QED BY <3>1, <4>3
    <3> QED BY <3>1, <3>2
  <2> QED BY <2>1, <2>2
<1>2. LockInv => NothingSlips
  BY <1>1 DEF NothingSlips
<1> QED BY <1>2, LocksAreBuilt, PTL
=============================================================================
