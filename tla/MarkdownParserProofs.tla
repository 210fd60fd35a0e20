------------------------ MODULE MarkdownParserProofs -------------------------
(***************************************************************************)
(* Theorems about MarkdownParser: no section of a file is lost, a problem   *)
(* that a pass has found is reported, and the lexer of definitions reads    *)
(* them line by line.  The invariant, ParseInv, says pass by pass which     *)
(* node of the tree stands for which section; most of the module shows that *)
(* each pass makes of the tree that the one before it leaves the tree that  *)
(* the one after it expects.  The last part relates the lexer behind each   *)
(* character to the lines that it has read so far.                          *)
(***************************************************************************)
EXTENDS MarkdownParser, FiniteSetTheorems, SequenceTheorems, NaturalsInduction, WellFoundedInduction, TLAPS

\* Every set of numbers that has a member has a least one.
LEMMA LeastExists ==
    ASSUME NEW S \in SUBSET Nat, NEW s \in S
    PROVE  \E x \in S : \A y \in S : x <= y
<1> DEFINE Below == OpToRel(<, Nat)
<1>1. IsWellFoundedOn(Below, Nat)
  BY NatLessThanWellFounded
<1>0. \A a, b \in Nat : a < b => <<a, b>> \in Below
  BY DEF OpToRel
<1> HIDE DEF Below
<1>3. PICK x \in S : \A y \in S : ~ (<<y, x>> \in Below)
  BY <1>1, WFMin
<1>4. \A y \in S : y \in Nat /\ x \in Nat /\ ~ (y < x)
  BY <1>3, <1>0
<1>5. \A y \in S : x <= y
  BY <1>4
<1> QED
  BY <1>5

LEMMA MinFacts ==
    ASSUME NEW S \in SUBSET Nat, NEW s \in S
    PROVE  Min(S) \in S /\ Min(S) \in Nat /\ \A y \in S : Min(S) <= y
BY LeastExists DEF Min

LEMMA Induct ==
    ASSUME NEW S, 0 \in S, \A n \in Nat : n \in S => n + 1 \in S
    PROVE  Nat \subseteq S
<1>1. SUFFICES ASSUME NEW y \in Nat \ S PROVE FALSE
  OBVIOUS
<1>2. PICK x \in Nat \ S : \A z \in Nat \ S : x <= z
  BY LeastExists
<1>3. x # 0
  BY <1>2
<1>4. x - 1 \in Nat /\ (x - 1) + 1 = x
  BY <1>2, <1>3
<1>5. x - 1 \notin Nat \ S
  BY <1>2, <1>4
<1> QED
  BY <1>2, <1>4, <1>5

-----------------------------------------------------------------------------
(* Numbers in order.                                                        *)
UpTo(S, i) == {j \in S : j <= i}
Rank(S, i) == Cardinality(UpTo(S, i))

LEMMA RankType ==
    ASSUME NEW S \in SUBSET Nat, IsFiniteSet(S), NEW i \in S
    PROVE  Rank(S, i) \in 1..Cardinality(S)
<1>1. UpTo(S, i) \in SUBSET S /\ i \in UpTo(S, i)
  BY DEF UpTo
<1>2. IsFiniteSet(UpTo(S, i)) /\ Rank(S, i) <= Cardinality(S)
  BY <1>1, FS_Subset DEF Rank
<1>3. Rank(S, i) \in Nat /\ Cardinality(S) \in Nat
  BY <1>2, FS_CardinalityType DEF Rank
<1>4. Rank(S, i) # 0
  BY <1>1, <1>2, FS_EmptySet DEF Rank
<1> QED
  BY <1>2, <1>3, <1>4

LEMMA RankGrows ==
    ASSUME NEW S \in SUBSET Nat, IsFiniteSet(S), NEW i \in S, NEW j \in S, i < j
    PROVE  Rank(S, i) < Rank(S, j)
<1>1. UpTo(S, i) \in SUBSET UpTo(S, j) /\ j \in UpTo(S, j) /\ j \notin UpTo(S, i)
  <2>1. \A x \in Nat : x <= i => x <= j
    OBVIOUS
  <2>2. j <= j /\ ~ (j <= i)
    OBVIOUS
  <2> QED
    BY <2>1, <2>2 DEF UpTo
<1>2. UpTo(S, j) \in SUBSET S
  BY DEF UpTo
<1>3. IsFiniteSet(UpTo(S, j))
  BY <1>2, FS_Subset
<1>4. Rank(S, i) <= Rank(S, j) /\ Rank(S, i) # Rank(S, j)
  BY <1>1, <1>3, FS_Subset DEF Rank
<1> QED
  BY <1>4, RankType

RankOf(S) == {Rank(S, i) : i \in S}

\* There is a member at every place.
LEMMA EveryRank ==
    ASSUME NEW S \in SUBSET Nat, IsFiniteSet(S), NEW k \in 1..Cardinality(S)
    PROVE  \E i \in S : Rank(S, i) = k
<1> DEFINE f == [i \in S |-> Rank(S, i)]
<1>1. Cardinality(S) \in Nat
  BY FS_CardinalityType
<1>2. IsFiniteSet(1..Cardinality(S)) /\ Cardinality(1..Cardinality(S)) = Cardinality(S)
  BY <1>1, FS_Interval
<1>3. f \in [S -> 1..Cardinality(S)]
  BY RankType
<1>4. \A i, j \in S : i # j => f[i] # f[j]
  <2> SUFFICES ASSUME NEW i \in S, NEW j \in S, i # j PROVE Rank(S, i) # Rank(S, j)
    OBVIOUS
  <2>1. CASE i < j
    BY <2>1, RankGrows, RankType
  <2>2. CASE j < i
    BY <2>2, RankGrows, RankType
  <2> QED
    BY <2>1, <2>2
<1> HIDE DEF f
<1>5. f \in Injection(S, 1..Cardinality(S))
  BY <1>3, <1>4 DEF Injection, IsInjective
<1>6. f \in Surjection(S, 1..Cardinality(S))
  BY <1>2, <1>5, FS_Injection
<1>7. PICK i \in S : f[i] = k
  BY <1>6 DEF Surjection
<1> QED
  BY <1>7 DEF f

Nth(S, k) == CHOOSE i \in S : Cardinality({j \in S : j <= i}) = k

\* InOrder lists the members of a set, each once, and the smaller ones first.
LEMMA InOrderFacts ==
    ASSUME NEW S \in SUBSET Nat, IsFiniteSet(S)
    PROVE  /\ InOrder(S) \in [1..Cardinality(S) -> S]
           /\ \A k, l \in 1..Cardinality(S) : k < l <=> InOrder(S)[k] < InOrder(S)[l]
           /\ \A i \in S : \E k \in 1..Cardinality(S) : InOrder(S)[k] = i
<1>0. Cardinality(S) \in Nat
  BY FS_CardinalityType
<1>1. PICK order : order = InOrder(S)
  OBVIOUS
<1>2. \A k \in 1..Cardinality(S) : order[k] \in S /\ Rank(S, order[k]) = k
  BY <1>1, EveryRank DEF InOrder, Rank, UpTo
<1>7. order \in [1..Cardinality(S) -> S]
  <2>1. order = [k \in 1..Cardinality(S) |-> Nth(S, k)]
    BY <1>1 DEF InOrder, Nth
  <2> QED
    BY <1>2, <2>1
<1>3. \A k, l \in 1..Cardinality(S) : order[k] < order[l] => k < l
  BY <1>2, RankGrows
<1>4. \A k, l \in 1..Cardinality(S) : order[k] = order[l] => k = l
  BY <1>2
<1>5. \A k, l \in 1..Cardinality(S) : k < l => order[k] < order[l]
  <2> SUFFICES ASSUME NEW k \in 1..Cardinality(S), NEW l \in 1..Cardinality(S), k < l
               PROVE  order[k] < order[l]
    OBVIOUS
  <2>1. order[k] # order[l] /\ ~ (order[l] < order[k])
    BY <1>0, <1>3, <1>4
  <2>2. order[k] \in Nat /\ order[l] \in Nat
    BY <1>2
  <2> QED
    BY <2>1, <2>2
<1>6. \A i \in S : \E k \in 1..Cardinality(S) : order[k] = i
  <2> SUFFICES ASSUME NEW i \in S PROVE \E k \in 1..Cardinality(S) : order[k] = i
    OBVIOUS
  <2>1. PICK k \in 1..Cardinality(S) : k = Rank(S, i)
    BY RankType
  <2>2. PICK j \in S : j = order[k]
    BY <1>2
  <2>3. Rank(S, j) = Rank(S, i)
    BY <1>2, <2>1, <2>2
  <2>4. ~ (i < j) /\ ~ (j < i)
    BY <2>3, RankGrows, RankType
  <2> QED
    BY <2>2, <2>4
<1> QED
  BY <1>1, <1>7, <1>3, <1>5, <1>6

\* f has the first n sequences joined.
Extended(seqs, f, i) == IF i = 1 THEN seqs[i] ELSE f[i - 1] \o seqs[i]
JoinsTo(seqs, n, f) == f = [i \in 1..n |-> Extended(seqs, f, i)]

LEMMA JoinsAre ==
    ASSUME NEW seqs, NEW n, NEW f, JoinsTo(seqs, n, f)
    PROVE  DOMAIN f = 1..n /\ \A i \in 1..n : f[i] = Extended(seqs, f, i)
<1>1. PICK h : h = [i \in 1..n |-> Extended(seqs, f, i)]
  OBVIOUS
<1>2. f = h
  BY <1>1 DEF JoinsTo
<1>3. DOMAIN h = 1..n /\ \A i \in 1..n : h[i] = Extended(seqs, f, i)
  BY <1>1
<1> QED
  BY <1>2, <1>3

LEMMA ExtendedIs ==
    ASSUME NEW seqs, NEW f, NEW i
    PROVE  /\ i = 1 => Extended(seqs, f, i) = seqs[i]
           /\ i # 1 => Extended(seqs, f, i) = f[i - 1] \o seqs[i]
BY DEF Extended

LEMMA JoinExists ==
    ASSUME NEW seqs, NEW n \in Nat
    PROVE  \E f : JoinsTo(seqs, n, f)
<1> DEFINE S == {m \in Nat : \E f : JoinsTo(seqs, m, f)}
<1>1. 0 \in S
  <2>1. JoinsTo(seqs, 0, [i \in 1..0 |-> 0])
    BY DEF JoinsTo
  <2> QED
    BY <2>1
<1>2. \A m \in Nat : m \in S => m + 1 \in S
  <2> SUFFICES ASSUME NEW m \in Nat, NEW f, JoinsTo(seqs, m, f) PROVE \E h : JoinsTo(seqs, m + 1, h)
    OBVIOUS
  <2> DEFINE h == [i \in 1..m + 1 |-> Extended(seqs, f, i)]
  <2>1. \A i \in 1..m : f[i] = h[i]
    BY JoinsAre
  <2>2. \A i \in 1..m + 1 : Extended(seqs, h, i) = Extended(seqs, f, i)
    <3> SUFFICES ASSUME NEW i \in 1..m + 1 PROVE Extended(seqs, h, i) = Extended(seqs, f, i)
      OBVIOUS
    <3>1. i # 1 => i - 1 \in 1..m
      OBVIOUS
    <3>2. i # 1 => f[i - 1] = h[i - 1]
      BY <2>1, <3>1
    <3> HIDE DEF h
    <3>3. CASE i = 1
      <4>1. Extended(seqs, h, i) = seqs[i] /\ Extended(seqs, f, i) = seqs[i]
        BY <3>3, ExtendedIs
      <4> QED
        BY <4>1
    <3>4. CASE i # 1
      <4>1. Extended(seqs, h, i) = h[i - 1] \o seqs[i]
        BY <3>4, ExtendedIs
      <4>2. Extended(seqs, f, i) = f[i - 1] \o seqs[i]
        BY <3>4, ExtendedIs
      <4> QED
        BY <3>2, <3>4, <4>1, <4>2
    <3> QED
      BY <3>3, <3>4
  <2>3. h = [i \in 1..m + 1 |-> Extended(seqs, h, i)]
    BY <2>2
  <2> QED
    BY <2>3 DEF JoinsTo
<1>3. Nat \subseteq S
  <2> HIDE DEF S
  <2> QED
    BY <1>1, <1>2, Induct
<1> QED
  BY <1>3

\* What FlattenSeq makes of sequences: the parts one after the other.
LEMMA FlattenJoins ==
    ASSUME NEW seqs, Len(seqs) \in Nat \ {0}
    PROVE  \E f : JoinsTo(seqs, Len(seqs), f) /\ FlattenSeq(seqs) = f[Len(seqs)]
<1>1. PICK f : JoinsTo(seqs, Len(seqs), f)
  BY JoinExists
<1> DEFINE g == CHOOSE f_1 : JoinsTo(seqs, Len(seqs), f_1)
<1>2. JoinsTo(seqs, Len(seqs), g)
  BY <1>1
<1>3. FlattenSeq(seqs) = g[Len(seqs)]
  BY DEF FlattenSeq, JoinsTo, Extended
<1> QED
  BY <1>2, <1>3

\* Flatten

\* Every member of a part has a place in the whole, after those of the parts before
\* and before those of the parts behind, and nothing else is there.
Joined(seqs, n, whole, off) ==
    /\ off \in [1..n + 1 -> Nat] /\ off[1] = 0 /\ Len(whole) = off[n + 1]
    /\ \A i \in 1..n : off[i + 1] = off[i] + Len(seqs[i])
    /\ \A i \in 1..n : \A k \in 1..Len(seqs[i]) : off[i] + k \in DOMAIN whole /\ whole[off[i] + k] = seqs[i][k]

LEMMA ConcatFacts ==
    ASSUME NEW T, NEW s \in Seq(T), NEW t \in Seq(T)
    PROVE  /\ s \o t \in Seq(T) /\ Len(s \o t) = Len(s) + Len(t)
           /\ \A k \in 1..Len(s) : (s \o t)[k] = s[k]
           /\ \A k \in 1..Len(t) : (s \o t)[Len(s) + k] = t[k]
           /\ Len(s) \in Nat /\ Len(t) \in Nat /\ DOMAIN s = 1..Len(s) /\ DOMAIN t = 1..Len(t)
OBVIOUS

LEMMA JoinStep ==
    ASSUME NEW T, NEW seqs, NEW n \in Nat, \A i \in 1..n + 1 : seqs[i] \in Seq(T),
           NEW whole \in Seq(T), NEW off, Joined(seqs, n, whole, off)
    PROVE  \E o : Joined(seqs, n + 1, whole \o seqs[n + 1], o)
<1> DEFINE s == seqs[n + 1]
           o == [i \in 1..(n + 1) + 1 |-> IF i = (n + 1) + 1 THEN off[n + 1] + Len(s) ELSE off[i]]
<1>0. s \in Seq(T) /\ Len(s) \in Nat /\ \A i \in 1..n + 1 : Len(seqs[i]) \in Nat
  OBVIOUS
<1>1. off \in [1..n + 1 -> Nat] /\ off[1] = 0 /\ Len(whole) = off[n + 1]
  BY DEF Joined
<1>2. o \in [1..(n + 1) + 1 -> Nat] /\ o[1] = 0 /\ o[(n + 1) + 1] = off[n + 1] + Len(s) /\ \A i \in 1..n + 1 : o[i] = off[i]
  BY <1>0, <1>1
<1> HIDE DEF o
<1>4. Len(whole \o s) = o[(n + 1) + 1]
  <2>1. Len(whole \o s) = Len(whole) + Len(s)
    BY <1>0, ConcatFacts
  <2> QED
    BY <1>1, <1>2, <2>1
<1>5. \A i \in 1..n + 1 : o[i + 1] = o[i] + Len(seqs[i])
  <2> SUFFICES ASSUME NEW i \in 1..n + 1 PROVE o[i + 1] = o[i] + Len(seqs[i])
    OBVIOUS
  <2>1. CASE i = n + 1
    BY <2>1, <1>2
  <2>2. CASE i # n + 1
    BY <2>2, <1>2 DEF Joined
  <2> QED
    BY <2>1, <2>2
<1>6. \A i \in 1..n + 1 : \A k \in 1..Len(seqs[i]) :
          o[i] + k \in DOMAIN (whole \o s) /\ (whole \o s)[o[i] + k] = seqs[i][k]
  <2> SUFFICES ASSUME NEW i \in 1..n + 1, NEW k \in 1..Len(seqs[i])
               PROVE  o[i] + k \in DOMAIN (whole \o s) /\ (whole \o s)[o[i] + k] = seqs[i][k]
    OBVIOUS
  <2>0. /\ \A j \in 1..Len(whole) : (whole \o s)[j] = whole[j]
        /\ \A j \in 1..Len(s) : (whole \o s)[Len(whole) + j] = s[j]
        /\ DOMAIN (whole \o s) = 1..Len(whole) + Len(s) /\ DOMAIN whole = 1..Len(whole)
        /\ Len(whole) \in Nat
    BY <1>0, ConcatFacts
  <2>1. CASE i = n + 1
    <3>1. o[i] = Len(whole) /\ seqs[i] = s /\ Len(seqs[i]) = Len(s)
      BY <2>1, <1>1, <1>2
    <3> HIDE DEF s
    <3>2. k \in 1..Len(s) /\ Len(s) \in Nat
      BY <1>0, <3>1
    <3>3. (whole \o s)[Len(whole) + k] = s[k]
      BY <2>0, <3>2
    <3>4. Len(whole) + k \in 1..Len(whole) + Len(s)
      BY <2>0, <3>2
    <3> QED
      BY <2>0, <3>1, <3>3, <3>4
  <2>2. CASE i # n + 1
    <3>1. i \in 1..n /\ o[i] = off[i]
      BY <2>2, <1>2
    <3>2. off[i] + k \in DOMAIN whole /\ whole[off[i] + k] = seqs[i][k]
      BY <3>1 DEF Joined
    <3>3. off[i] + k \in DOMAIN (whole \o s)
      BY <2>0, <3>2, <1>0
    <3> QED
      BY <2>0, <3>1, <3>2, <3>3
  <2> QED
    BY <2>1, <2>2
<1>7. Joined(seqs, n + 1, whole \o s, o)
  BY <1>2, <1>4, <1>5, <1>6 DEF Joined
<1> QED
  BY <1>7

IsJoined(seqs, T, m, whole) == whole \in Seq(T) /\ \E off : Joined(seqs, m, whole, off)

LEMMA JoinedUpTo ==
    ASSUME NEW T, NEW seqs, NEW n \in Nat, NEW f, JoinsTo(seqs, n, f),
           \A i \in 1..n : seqs[i] \in Seq(T)
    PROVE  \A m \in 1..n : IsJoined(seqs, T, m, f[m])
<1> DEFINE S == {m \in Nat : m + 1 <= n => IsJoined(seqs, T, m + 1, f[m + 1])}
<1>1. 0 \in S
  <2> SUFFICES ASSUME 1 <= n PROVE IsJoined(seqs, T, 1, f[1])
    OBVIOUS
  <2>1. f[1] = seqs[1] /\ seqs[1] \in Seq(T)
    <3>1. PICK i \in 1..n : i = 1
      OBVIOUS
    <3>2. f[i] = Extended(seqs, f, i)
      BY JoinsAre
    <3>3. Extended(seqs, f, i) = seqs[i]
      BY <3>1, ExtendedIs
    <3> QED
      BY <3>1, <3>2, <3>3
  <2> DEFINE o == [i \in 1..2 |-> IF i = 1 THEN 0 ELSE Len(seqs[1])]
  <2>2. Len(seqs[1]) \in Nat /\ DOMAIN seqs[1] = 1..Len(seqs[1])
    BY <2>1
  <2>3. o \in [1..1 + 1 -> Nat] /\ o[1] = 0 /\ o[1 + 1] = Len(seqs[1])
    BY <2>2
  <2> HIDE DEF o
  <2>4. Joined(seqs, 1, f[1], o)
    BY <2>1, <2>2, <2>3 DEF Joined
  <2> QED
    BY <2>1, <2>4 DEF IsJoined
<1>2. \A m \in Nat : m \in S => m + 1 \in S
  <2> SUFFICES ASSUME NEW m \in Nat, m \in S PROVE m + 1 \in S
    OBVIOUS
  <2>1. PICK k \in Nat : k = m + 1
    OBVIOUS
  <2>2. k <= n => IsJoined(seqs, T, k, f[k])
    BY <2>1
  <2>3. k + 1 <= n => IsJoined(seqs, T, k + 1, f[k + 1])
    <3> SUFFICES ASSUME k + 1 <= n PROVE IsJoined(seqs, T, k + 1, f[k + 1])
      OBVIOUS
    <3>1. k + 1 \in 1..n /\ k + 1 # 1 /\ (k + 1) - 1 = k
      BY <2>1
    <3>2. f[k + 1] = f[k] \o seqs[k + 1]
      <4>1. PICK j \in 1..n : j = k + 1
        BY <3>1
      <4>2. j # 1 /\ j - 1 = k
        BY <2>1, <4>1
      <4>3. f[j] = f[j - 1] \o seqs[j]
        <5>1. f[j] = Extended(seqs, f, j)
          BY JoinsAre
        <5>2. Extended(seqs, f, j) = f[j - 1] \o seqs[j]
          BY <4>2, ExtendedIs
        <5> QED
          BY <5>1, <5>2
      <4> QED
        BY <4>1, <4>2, <4>3
    <3>3. \A i \in 1..k + 1 : seqs[i] \in Seq(T)
      OBVIOUS
    <3>4. PICK off : Joined(seqs, k, f[k], off)
      BY <2>2 DEF IsJoined
    <3>5. f[k] \in Seq(T) /\ seqs[k + 1] \in Seq(T)
      BY <2>2, <3>3 DEF IsJoined
    <3>6. f[k + 1] \in Seq(T)
      BY <3>2, <3>5, ConcatFacts
    <3>7. \E o : Joined(seqs, k + 1, f[k + 1], o)
      BY <3>2, <3>3, <3>4, <3>5, JoinStep
    <3> QED
      BY <3>6, <3>7 DEF IsJoined
  <2> QED
    BY <2>1, <2>3
<1>3. Nat \subseteq S
  <2> HIDE DEF S
  <2> QED
    BY <1>1, <1>2, Induct
<1> SUFFICES ASSUME NEW m \in 1..n PROVE IsJoined(seqs, T, m, f[m])
  OBVIOUS
<1>4. PICK k \in Nat : k + 1 = m
  <2>1. m - 1 \in Nat /\ (m - 1) + 1 = m
    OBVIOUS
  <2> QED
    BY <2>1
<1>5. k \in S
  <2> HIDE DEF S
  <2> QED
    BY <1>3
<1> QED
  BY <1>4, <1>5

LEMMA FlattenFacts ==
    ASSUME NEW T, NEW seqs \in Seq(Seq(T)), seqs # <<>>
    PROVE  FlattenSeq(seqs) \in Seq(T) /\ \E off : Joined(seqs, Len(seqs), FlattenSeq(seqs), off)
<1>1. Len(seqs) \in Nat \ {0} /\ \A i \in 1..Len(seqs) : seqs[i] \in Seq(T)
  OBVIOUS
<1>2. PICK f : JoinsTo(seqs, Len(seqs), f) /\ FlattenSeq(seqs) = f[Len(seqs)]
  BY <1>1, FlattenJoins
<1>3. PICK n \in Nat : n = Len(seqs) /\ n \in 1..n
  BY <1>1
<1>4. JoinsTo(seqs, n, f) /\ \A i \in 1..n : seqs[i] \in Seq(T)
  BY <1>1, <1>2, <1>3
<1>5. IsJoined(seqs, T, n, f[n])
  BY <1>3, <1>4, JoinedUpTo
<1> QED
  BY <1>2, <1>3, <1>5 DEF IsJoined

-----------------------------------------------------------------------------
(* Sequences.                                                               *)
IsSeq(s) == Len(s) \in Nat /\ s = [i \in 1..Len(s) |-> s[i]]
Items(s) == {s[i] : i \in 1..Len(s)}

LEMMA SeqFacts ==
    ASSUME NEW s, IsSeq(s)
    PROVE  Len(s) \in Nat /\ DOMAIN s = 1..Len(s) /\ s \in Seq(Items(s))
<1>1. PICK n \in Nat : n = Len(s)
  BY DEF IsSeq
<1>2. s = [i \in 1..n |-> s[i]]
  BY <1>1 DEF IsSeq
<1>3. s \in [1..n -> Items(s)]
  BY <1>1, <1>2 DEF Items
<1>4. s \in Seq(Items(s))
  BY <1>3
<1> QED
  BY <1>1, <1>2, <1>4

LEMMA SeqIsSeq ==
    ASSUME NEW T, NEW s \in Seq(T)
    PROVE  IsSeq(s)
BY DEF IsSeq

LEMMA FunctionIsSeq ==
    ASSUME NEW n \in Nat, NEW s, s = [i \in 1..n |-> s[i]]
    PROVE  IsSeq(s) /\ Len(s) = n
<1>1. s \in Seq({s[i] : i \in 1..n})
  <2>1. s \in [1..n -> {s[i] : i \in 1..n}]
    OBVIOUS
  <2> QED
    BY <2>1
<1>2. DOMAIN s = 1..n
  OBVIOUS
<1>3. Len(s) = n
  BY <1>1, <1>2
<1> QED
  BY <1>1, <1>3, SeqIsSeq

LEMMA ConcatSeqs ==
    ASSUME NEW s, NEW t, IsSeq(s), IsSeq(t)
    PROVE  /\ IsSeq(s \o t) /\ Len(s \o t) = Len(s) + Len(t)
           /\ \A k \in 1..Len(s) : (s \o t)[k] = s[k]
           /\ \A k \in 1..Len(t) : (s \o t)[Len(s) + k] = t[k]
<1>1. PICK T : s \in Seq(T) /\ t \in Seq(T)
  <2>1. s \in Seq(Items(s) \union Items(t)) /\ t \in Seq(Items(s) \union Items(t))
    BY SeqFacts
  <2> QED
    BY <2>1
<1>2. s \o t \in Seq(T)
  BY <1>1
<1>3. IsSeq(s \o t)
  BY <1>2, SeqIsSeq
<1>4. /\ Len(s \o t) = Len(s) + Len(t)
      /\ \A k \in 1..Len(s) : (s \o t)[k] = s[k]
      /\ \A k \in 1..Len(t) : (s \o t)[Len(s) + k] = t[k]
  BY <1>1
<1> QED
  BY <1>3, <1>4

LEMMA SeqOfSeqs ==
    ASSUME NEW seqs, IsSeq(seqs), \A i \in 1..Len(seqs) : IsSeq(seqs[i])
    PROVE  \E T : seqs \in Seq(Seq(T))
<1> DEFINE T == UNION {Items(seqs[i]) : i \in 1..Len(seqs)}
<1>1. \A i \in 1..Len(seqs) : seqs[i] \in Seq(T)
  <2> SUFFICES ASSUME NEW i \in 1..Len(seqs) PROVE seqs[i] \in Seq(T)
    OBVIOUS
  <2>1. seqs[i] \in Seq(Items(seqs[i])) /\ Items(seqs[i]) \subseteq T
    BY SeqFacts
  <2> HIDE DEF T
  <2> QED
    BY <2>1
<1> HIDE DEF T
<1>2. PICK n \in Nat : n = Len(seqs) /\ seqs = [i \in 1..n |-> seqs[i]]
  BY DEF IsSeq
<1>3. seqs \in [1..n -> Seq(T)]
  BY <1>1, <1>2
<1>4. seqs \in Seq(Seq(T))
  BY <1>3
<1> QED
  BY <1>4

\* FlattenSeq of sequences of anything.
LEMMA Flattens ==
    ASSUME NEW seqs, IsSeq(seqs), \A i \in 1..Len(seqs) : IsSeq(seqs[i])
    PROVE  /\ IsSeq(FlattenSeq(seqs))
           /\ \E off : Joined(seqs, Len(seqs), FlattenSeq(seqs), off)
<1>1. CASE Len(seqs) = 0
  <2>1. FlattenSeq(seqs) = seqs
    BY <1>1 DEF FlattenSeq
  <2> DEFINE off == [i \in 1..1 |-> 0]
  <2>2. off \in [1..0 + 1 -> Nat] /\ off[1] = 0 /\ off[0 + 1] = 0
    OBVIOUS
  <2> HIDE DEF off
  <2>3. Joined(seqs, Len(seqs), seqs, off)
    BY <1>1, <2>2 DEF Joined
  <2> QED
    BY <2>1, <2>3
<1>2. CASE Len(seqs) # 0
  <2>1. PICK T : seqs \in Seq(Seq(T))
    BY SeqOfSeqs
  <2>2. seqs # <<>>
    BY <1>2
  <2> QED
    BY <2>1, <2>2, FlattenFacts, SeqIsSeq
<1> QED
  BY <1>1, <1>2

\* And every member is one of a part.
Sized(seqs, n) == \A i \in 1..n : Len(seqs[i]) \in Nat
CoveredAt(seqs, n, whole, off, p) ==
    \E i \in 1..n : \E k \in 1..Len(seqs[i]) : p = off[i] + k /\ whole[p] = seqs[i][k]

LEMMA JoinedCovers ==
    ASSUME NEW seqs, NEW n \in Nat, NEW whole, NEW off, Joined(seqs, n, whole, off),
           Sized(seqs, n), NEW p \in 1..Len(whole)
    PROVE  CoveredAt(seqs, n, whole, off, p)
<1>1. /\ off \in [1..n + 1 -> Nat] /\ off[1] = 0 /\ Len(whole) = off[n + 1]
      /\ \A i \in 1..n : off[i + 1] = off[i] + Len(seqs[i])
  BY DEF Joined
<1>2. n + 1 \in {j \in 1..n + 1 : p <= off[j]}
  BY <1>1
<1>3. PICK j \in 1..n + 1 : p <= off[j] /\ \A x \in 1..n + 1 : p <= off[x] => j <= x
  <2>1. {x \in 1..n + 1 : p <= off[x]} \in SUBSET Nat
    OBVIOUS
  <2> QED
    BY <1>2, <2>1, LeastExists
<1>4. j # 1
  BY <1>1, <1>3
<1>5. PICK i \in 1..n : i + 1 = j
  <2>1. j - 1 \in 1..n /\ (j - 1) + 1 = j
    BY <1>3, <1>4
  <2> QED
    BY <2>1
<1>6. ~ (p <= off[i])
  BY <1>3, <1>5
<1>7. off[j] = off[i] + Len(seqs[i]) /\ off[i] \in Nat /\ Len(seqs[i]) \in Nat
  BY <1>1, <1>5 DEF Sized
<1>8. p - off[i] \in 1..Len(seqs[i]) /\ off[i] + (p - off[i]) = p
  BY <1>3, <1>6, <1>7
<1> QED
  BY <1>8 DEF Joined, CoveredAt

LEMMA OffsetsGrow ==
    ASSUME NEW seqs, NEW n \in Nat, NEW whole, NEW off, Joined(seqs, n, whole, off),
           \A i \in 1..n : Len(seqs[i]) \in Nat
    PROVE  \A i, j \in 1..n : i < j => off[i] + Len(seqs[i]) <= off[j]
<1>1. /\ off \in [1..n + 1 -> Nat]
      /\ \A i \in 1..n : off[i + 1] = off[i] + Len(seqs[i])
  BY DEF Joined
<1>0. \A i \in 1..n + 1 : off[i] \in Nat
  BY <1>1
<1> SUFFICES ASSUME NEW i \in 1..n PROVE \A j \in 1..n : i < j => off[i] + Len(seqs[i]) <= off[j]
  OBVIOUS
<1> DEFINE S == {m \in Nat : i + 1 + m <= n => off[i] + Len(seqs[i]) <= off[i + 1 + m]}
<1>2. 0 \in S
  BY <1>1
<1>3. \A m \in Nat : m \in S => m + 1 \in S
  <2> SUFFICES ASSUME NEW m \in Nat, m \in S, i + 1 + (m + 1) <= n
               PROVE  off[i] + Len(seqs[i]) <= off[i + 1 + (m + 1)]
    OBVIOUS
  <2>1. PICK k \in 1..n : k = i + 1 + m
    OBVIOUS
  <2>2. k + 1 = i + 1 + (m + 1)
    BY <2>1
  <2>3. off[k + 1] = off[k] + Len(seqs[k]) /\ off[k] \in Nat /\ off[i] \in Nat
    <3>1. off[k + 1] = off[k] + Len(seqs[k])
      BY <1>1
    <3>2. k \in 1..n + 1 /\ i \in 1..n + 1
      OBVIOUS
    <3> QED
      BY <1>0, <3>1, <3>2
  <2>4. off[i] + Len(seqs[i]) <= off[k]
    BY <2>1
  <2>5. Len(seqs[k]) \in Nat /\ Len(seqs[i]) \in Nat
    OBVIOUS
  <2>6. off[i] + Len(seqs[i]) <= off[k + 1]
    <3>1. PICK a \in Nat, x \in Nat, l \in Nat : a = off[i] + Len(seqs[i]) /\ x = off[k] /\ l = Len(seqs[k])
      BY <2>3, <2>5
    <3>2. a <= x /\ off[k + 1] = x + l
      BY <2>3, <2>4, <3>1
    <3> QED
      BY <3>1, <3>2
  <2> QED
    BY <2>2, <2>6
<1>4. Nat \subseteq S
  <2> HIDE DEF S
  <2> QED
    BY <1>2, <1>3, Induct
<1> SUFFICES ASSUME NEW j \in 1..n, i < j PROVE off[i] + Len(seqs[i]) <= off[j]
  OBVIOUS
<1>5. j - (i + 1) \in Nat /\ i + 1 + (j - (i + 1)) = j
  OBVIOUS
<1>6. j - (i + 1) \in S
  <2> HIDE DEF S
  <2> QED
    BY <1>4, <1>5
<1> QED
  BY <1>5, <1>6

\* The places that Chosen keeps, and what it makes of a sequence.
At(seq, S) == [k \in DOMAIN InOrder(S) |-> seq[InOrder(S)[k]]]

IsAt(seq, S) ==
    /\ IsSeq(At(seq, S)) /\ Len(At(seq, S)) = Cardinality(S) /\ Cardinality(S) \in Nat
    /\ InOrder(S) \in [1..Cardinality(S) -> S]
    /\ \A k \in 1..Cardinality(S) : At(seq, S)[k] = seq[InOrder(S)[k]]
    /\ \A k, l \in 1..Cardinality(S) : k < l <=> InOrder(S)[k] < InOrder(S)[l]
    /\ \A i \in S : \E k \in 1..Cardinality(S) : InOrder(S)[k] = i /\ At(seq, S)[k] = seq[i]

LEMMA AtFacts ==
    ASSUME NEW seq, NEW n \in Nat, NEW S \in SUBSET (1..n)
    PROVE  IsAt(seq, S)
<1>1. S \in SUBSET Nat /\ IsFiniteSet(S)
  <2>1. IsFiniteSet(1..n)
    BY FS_Interval
  <2>2. IsFiniteSet(S)
    BY <2>1, FS_Subset
  <2> QED
    BY <2>2
<1>2. PICK c \in Nat : c = Cardinality(S)
  BY <1>1, FS_CardinalityType
<1>3. PICK order : order = InOrder(S)
  OBVIOUS
<1>4. /\ order \in [1..c -> S]
      /\ \A k, l \in 1..c : k < l <=> order[k] < order[l]
      /\ \A i \in S : \E k \in 1..c : order[k] = i
  BY <1>1, <1>2, <1>3, InOrderFacts
<1>5. PICK a : a = [k \in 1..c |-> seq[order[k]]]
  OBVIOUS
<1>6. At(seq, S) = a
  <2>1. DOMAIN order = 1..c
    BY <1>4
  <2> QED
    BY <1>3, <1>5, <2>1 DEF At
<1>7. IsSeq(a) /\ Len(a) = c
  <2>1. a = [k \in 1..c |-> a[k]]
    BY <1>5
  <2> QED
    BY <2>1, FunctionIsSeq
<1>8. \A k \in 1..c : a[k] = seq[order[k]]
  BY <1>5
<1>9. \A i \in S : \E k \in 1..c : order[k] = i /\ a[k] = seq[i]
  BY <1>4, <1>8
<1> HIDE DEF At
<1> QED
  BY <1>2, <1>3, <1>4, <1>6, <1>7, <1>8, <1>9 DEF IsAt

SameParts(s, t, n) == \A i \in 1..n : s[i] = t[i]

LEMMA JoinsAgree ==
    ASSUME NEW s, NEW t, NEW n \in Nat, NEW m \in Nat, n <= m,
           NEW f, NEW g, JoinsTo(s, n, f), JoinsTo(t, m, g),
           SameParts(s, t, n)
    PROVE  SameParts(f, g, n)
<1> DEFINE S == {k \in Nat : k + 1 <= n => f[k + 1] = g[k + 1]}
<1>1. 0 \in S
  <2> SUFFICES ASSUME 1 <= n PROVE f[1] = g[1]
    OBVIOUS
  <2>1. PICK i \in 1..n : i = 1 /\ i \in 1..m
    OBVIOUS
  <2>2. f[i] = Extended(s, f, i) /\ g[i] = Extended(t, g, i)
    BY <2>1, JoinsAre
  <2>3. Extended(s, f, i) = s[i]
    BY <2>1, ExtendedIs
  <2>4. Extended(t, g, i) = t[i]
    BY <2>1, ExtendedIs
  <2> QED
    BY <2>1, <2>2, <2>3, <2>4 DEF SameParts
<1>2. \A k \in Nat : k \in S => k + 1 \in S
  <2> SUFFICES ASSUME NEW k \in Nat, k \in S PROVE k + 1 \in S
    OBVIOUS
  <2> SUFFICES ASSUME (k + 1) + 1 <= n PROVE f[(k + 1) + 1] = g[(k + 1) + 1]
    OBVIOUS
  <2>1. PICK i \in 1..n : i = (k + 1) + 1 /\ i \in 1..m /\ i # 1 /\ i - 1 = k + 1
    OBVIOUS
  <2>2. f[i] = Extended(s, f, i) /\ g[i] = Extended(t, g, i)
    BY <2>1, JoinsAre
  <2>3. Extended(s, f, i) = f[i - 1] \o s[i] /\ Extended(t, g, i) = g[i - 1] \o t[i]
    BY <2>1, ExtendedIs
  <2>4. f[i - 1] = g[i - 1] /\ s[i] = t[i]
    BY <2>1 DEF SameParts
  <2> QED
    BY <2>1, <2>2, <2>3, <2>4
<1>3. Nat \subseteq S
  <2> HIDE DEF S
  <2> QED
    BY <1>1, <1>2, Induct
<1> SUFFICES ASSUME NEW i \in 1..n PROVE f[i] = g[i]
  BY DEF SameParts
<1>4. i - 1 \in Nat /\ (i - 1) + 1 = i
  OBVIOUS
<1>5. i - 1 \in S
  <2> HIDE DEF S
  <2> QED
    BY <1>3, <1>4
<1> QED
  BY <1>4, <1>5

LEMMA EmptyIs ==
    ASSUME NEW T, NEW s \in Seq(T), Len(s) = 0
    PROVE  s = <<>>
OBVIOUS

\* An empty part at the end adds nothing.
LEMMA FlattenEmptyEnd ==
    ASSUME NEW T, NEW s \in Seq(Seq(T))
    PROVE  FlattenSeq(Append(s, <<>>)) = FlattenSeq(s)
<1>1. PICK n \in Nat : n = Len(s)
  OBVIOUS
<1>2. PICK t : t = Append(s, <<>>)
  OBVIOUS
<1>3. Len(t) = n + 1 /\ (\A i \in 1..n : t[i] = s[i] /\ s[i] \in Seq(T)) /\ t[n + 1] = <<>>
  BY <1>1, <1>2
<1>4. PICK g : JoinsTo(t, n + 1, g) /\ FlattenSeq(t) = g[n + 1]
  BY <1>1, <1>3, FlattenJoins
<1>5. CASE n = 0
  <2>1. PICK i \in 1..n + 1 : i = 1
    BY <1>5
  <2>2. g[i] = Extended(t, g, i)
    BY <1>4, <2>1, JoinsAre
  <2>3. Extended(t, g, i) = t[i]
    BY <2>1, ExtendedIs
  <2>4. FlattenSeq(t) = <<>>
    BY <1>3, <1>4, <1>5, <2>1, <2>2, <2>3
  <2>5. s = <<>>
    BY <1>1, <1>5, EmptyIs
  <2>6. FlattenSeq(s) = s
    BY <1>1, <1>5 DEF FlattenSeq
  <2> QED
    BY <1>2, <2>4, <2>5, <2>6
<1>6. CASE n # 0
  <2>1. PICK f : JoinsTo(s, n, f) /\ FlattenSeq(s) = f[n]
    BY <1>1, <1>6, FlattenJoins
  <2>2. SameParts(f, g, n)
    <3>1. PICK m \in Nat : m = n + 1 /\ n <= m
      OBVIOUS
    <3>2. JoinsTo(t, m, g) /\ JoinsTo(s, n, f) /\ SameParts(s, t, n)
      BY <1>1, <1>3, <1>4, <2>1, <3>1 DEF SameParts
    <3> QED
      BY <3>1, <3>2, JoinsAgree
  <2>3. PICK i \in 1..n + 1 : i = n + 1 /\ i # 1 /\ i - 1 = n /\ n \in 1..n
    BY <1>6
  <2>4. g[i] = Extended(t, g, i)
    BY <1>4, <2>3, JoinsAre
  <2>5. Extended(t, g, i) = g[i - 1] \o t[i]
    BY <2>3, ExtendedIs
  <2>6. f[n] \in Seq(T)
    BY <1>3, <2>1, <2>3, JoinedUpTo DEF IsJoined
  <2>7. f[n] \o <<>> = f[n]
    BY <2>6
  <2>8. g[i] = f[n] \o <<>>
    BY <1>3, <2>2, <2>3, <2>4, <2>5 DEF SameParts
  <2> QED
    BY <1>2, <1>4, <2>1, <2>3, <2>7, <2>8
<1> QED
  BY <1>5, <1>6

-----------------------------------------------------------------------------
(* A document and what the tree has of it after each pass.                  *)
SectionsIn(d) == {i \in DOMAIN d : d[i].type = "h2"}
NextIn(d, i) == Min({j \in SectionsIn(d) : j > i} \union {Len(d) + 1})
EndIn(d, i) == NextIn(d, i) - 1
FoundIn(d, i) == Resolve(d[i].words[1], Properties)
KeyIn(d, i) == Properties[FoundIn(d, i)].key
InLines(d, i, n) == n.at.block \in i..EndIn(d, i)

IsNode(n) ==
    n = [type |-> n.type, words |-> n.words, items |-> n.items, at |-> n.at, key |-> n.key,
         propertyType |-> n.propertyType, hasMany |-> n.hasMany, children |-> n.children,
         nested |-> n.nested, value |-> n.value, message |-> n.message]

\* Only the root has properties as children, beside those of a relationship.
IsRootNode(n) ==
    /\ IsNode(n)
    /\ IsSeq(n.children) /\ \A k \in 1..Len(n.children) : n.children[k].type # "property"
    /\ IsSeq(n.nested) /\ \A k \in 1..Len(n.nested) : IsSeq(n.nested[k])

\* The blocks of a section, the last of which may have got the problem of a missing title.
HasContent(d, i, blocks) ==
    LET size == EndIn(d, i) - i
    IN /\ IsSeq(blocks) /\ Len(blocks) \in {size, size + 1}
       /\ \A k \in 1..Len(blocks) : IsNode(blocks[k]) /\ blocks[k].type # "property"
       /\ \A k \in 1..size : /\ blocks[k].words = d[i + k].words /\ blocks[k].items = d[i + k].items
                             /\ blocks[k].at = Position(i + k, 0, 0)
       /\ Len(blocks) = size + 1 => blocks[size + 1].words = <<>> /\ blocks[size + 1].items = <<>>

Holds(n) == IsProperty(n) \/ n.nested # <<>>
InSectionOrder(t) ==
    \A k, l \in 1..Len(t) : k < l /\ Holds(t[k]) /\ Holds(t[l]) => t[k].at.block < t[l].at.block

\* A section has its node, or a problem that says where it was wrong.
Stands(d, i, n) ==
    \/ IsProperty(n) /\ n.at.block = i
    \/ IsProblem(n) /\ InLines(d, i, n)
Standing(d, t) == \A i \in SectionsIn(d) : \E k \in 1..Len(t) : Stands(d, i, t[k])

IsTree(d, t) ==
    /\ IsSeq(t) /\ (\A k \in 1..Len(t) : IsRootNode(t[k]))
    /\ \A k \in 1..Len(t) : Holds(t[k]) => t[k].at.block \in SectionsIn(d)
    /\ InSectionOrder(t)

\* Before the second pass: a node for each block.
Start(d) == [i \in DOMAIN d |-> Node(d[i].type, d[i].words, d[i].items, Position(i, 0, 0))]
Titled(d, t) ==
    /\ IsSeq(t) /\ Len(t) \in {Len(d), Len(d) + 1}
    /\ \A i \in 1..Len(t) : IsNode(t[i]) /\ t[i].type # "property" /\ t[i].children = <<>> /\ t[i].nested = <<>>
    /\ \A i \in 1..Len(d) : /\ t[i].words = d[i].words /\ t[i].items = d[i].items
                            /\ t[i].at = Position(i, 0, 0) /\ (t[i].type = "h2" <=> d[i].type = "h2")
    /\ Len(t) = Len(d) + 1 => LET n == t[Len(d) + 1]
                              IN IsProblem(n) /\ n.words = <<>> /\ n.items = <<>> /\ n.at = Nowhere

\* Then the sections are nodes under the root.
IsCut(d, n) ==
    LET i == n.at.block
    IN IsProperty(n) => n.key = d[i].words[1] /\ n.at = Position(i, 0, 0) /\ HasContent(d, i, n.children)
Cut(d, t) ==
    /\ IsTree(d, t) /\ Standing(d, t)
    /\ \A k \in 1..Len(t) : t[k].nested = <<>> /\ IsCut(d, t[k])

\* They are properties of the type.
IsResolved(d, n) ==
    LET i == n.at.block
    IN /\ FoundIn(d, i) # 0 /\ n.key = KeyIn(d, i)
       /\ n.propertyType = Properties[FoundIn(d, i)].type /\ n.hasMany = Properties[FoundIn(d, i)].hasMany
       /\ n.at = Position(i, 0, 0)
Resolved(d, t) ==
    /\ IsTree(d, t) /\ Standing(d, t)
    /\ \A k \in 1..Len(t) : /\ t[k].nested = <<>>
                            /\ IsProperty(t[k]) => IsResolved(d, t[k]) /\ HasContent(d, t[k].at.block, t[k].children)

\* What a property of a relationship is, before it is coerced, and when that has failed.
IsDefinition(d, i, m) ==
    /\ IsNode(m)
    /\ IsProperty(m) => /\ m.value = Absent
                        /\ m.key = "code" \/ Resolve(m.key, Properties[FoundIn(d, i)].properties) # 0
Definitions(d, n) ==
    \A k \in 1..Len(n.nested) : \A j \in 1..Len(n.nested[k]) : IsDefinition(d, n.at.block, n.nested[k][j])
Defined(d, t) ==
    /\ IsTree(d, t) /\ Standing(d, t)
    /\ \A k \in 1..Len(t) :
           /\ ~IsProperty(t[k]) => t[k].nested = <<>>
           /\ IsProperty(t[k]) => /\ IsResolved(d, t[k]) /\ Definitions(d, t[k])
                                  /\ ~IsNested(t[k]) => /\ t[k].nested = <<>>
                                                       /\ HasContent(d, t[k].at.block, t[k].children)

\* And then values, but for sections that were nothing but comments.
SaysIn(d, i) ==
    LET property == Properties[FoundIn(d, i)]
    IN Coercion([propertyType |-> property.type, hasMany |-> property.hasMany,
                 children |-> [k \in 1..EndIn(d, i) - i |->
                                  Node(d[i + k].type, d[i + k].words, d[i + k].items, Position(i + k, 0, 0))]]).value
OnlyCommentsIn(d, i) ==
    /\ FoundIn(d, i) # 0 /\ Properties[FoundIn(d, i)].type \notin TypeNames
    /\ SaysIn(d, i) \in {<<"text", <<>>>>, <<"document", <<>>>>}

IsValued(d, n) ==
    /\ IsProperty(n) => IsResolved(d, n) /\ n.value # Absent /\ n.nested = <<>>
    /\ n.nested # <<>> => IsProblem(n) /\ FoundIn(d, n.at.block) # 0 /\ Definitions(d, n)
Valued(d, t) ==
    /\ IsTree(d, t)
    /\ \A i \in SectionsIn(d) : OnlyCommentsIn(d, i) \/ \E k \in 1..Len(t) : Stands(d, i, t[k])
    /\ \A k \in 1..Len(t) : IsValued(d, t[k])
Checked(d, t) ==
    /\ Valued(d, t)
    /\ \A k \in 1..Len(t) : \A l \in 1..Len(t[k].nested) : \A j \in 1..Len(t[k].nested[l]) :
           IsProperty(t[k].nested[l][j]) => ValidateProperty(t[k].nested[l][j].key, Absent)

\* The output.
ErrorsAt(d, r, i) == {k \in DOMAIN r.errors : r.errors[k].at.block \in i..EndIn(d, i)}
SectionAccounted(d, r, i) ==
    \/ ErrorsAt(d, r, i) # {}
    \/ FoundIn(d, i) # 0 /\ KeyIn(d, i) \in DOMAIN r.data
    \/ OnlyCommentsIn(d, i)
    \/ \E j \in SectionsIn(d) : /\ j > i /\ ErrorsAt(d, r, j) # {} /\ FoundIn(d, j) # 0
                               /\ Resolve(KeyIn(d, i), Properties[FoundIn(d, j)].properties) # 0
Accounted(d, r) == \A i \in SectionsIn(d) : SectionAccounted(d, r, i)

ParseInv ==
    /\ document \in Documents /\ pass \in 1..9
    /\ pass = 1 => tree = Start(document)
    /\ pass = 2 => Titled(document, tree)
    /\ pass \in {3, 4} => Cut(document, tree)
    /\ pass = 5 => Resolved(document, tree)
    /\ pass = 6 => Defined(document, tree)
    /\ pass = 7 => Valued(document, tree)
    /\ pass = 8 => Checked(document, tree)
    /\ pass = 9 => result.rejected \/ Accounted(document, result)

-----------------------------------------------------------------------------
(* Nodes.                                                                   *)
LEMMA NewNode ==
    ASSUME NEW type, NEW words, NEW items, NEW at
    PROVE  LET n == Node(type, words, items, at)
           IN /\ IsNode(n) /\ n.type = type /\ n.words = words /\ n.items = items /\ n.at = at
              /\ n.children = <<>> /\ n.nested = <<>> /\ n.value = Absent
BY DEF Node, IsNode

\* A node by its fields.
Fields(y, w, i, a, k, t, h, c, d, v, m) ==
    [type |-> y, words |-> w, items |-> i, at |-> a, key |-> k, propertyType |-> t, hasMany |-> h,
     children |-> c, nested |-> d, value |-> v, message |-> m]
FieldsOf(n) ==
    Fields(n.type, n.words, n.items, n.at, n.key, n.propertyType, n.hasMany, n.children, n.nested, n.value, n.message)

LEMMA FieldsAre ==
    ASSUME NEW y, NEW w, NEW i, NEW a, NEW k, NEW t, NEW h, NEW c, NEW d, NEW v, NEW m
    PROVE  LET n == Fields(y, w, i, a, k, t, h, c, d, v, m)
           IN /\ IsNode(n) /\ n.type = y /\ n.words = w /\ n.items = i /\ n.at = a /\ n.key = k
              /\ n.propertyType = t /\ n.hasMany = h /\ n.children = c /\ n.nested = d /\ n.value = v /\ n.message = m
BY DEF Fields, IsNode

LEMMA NodeIsFields ==
    ASSUME NEW n, IsNode(n)
    PROVE  n = FieldsOf(n)
BY DEF Fields, FieldsOf, IsNode

LEMMA ProblemFields ==
    ASSUME NEW y, NEW w, NEW i, NEW a, NEW k, NEW t, NEW h, NEW c, NEW d, NEW v, NEW m,
           NEW n, n = Fields(y, w, i, a, k, t, h, c, d, v, m), NEW message
    PROVE  AsProblem(n, message) = Fields("problem", w, i, a, k, t, h, c, d, v, message)
<1>1. PICK q : q = [n EXCEPT !.type = "problem"]
  OBVIOUS
<1>2. q = Fields("problem", w, i, a, k, t, h, c, d, v, m)
  BY <1>1 DEF Fields
<1>3. [q EXCEPT !.message = message] = Fields("problem", w, i, a, k, t, h, c, d, v, message)
  BY <1>2 DEF Fields
<1>4. AsProblem(n, message) = [q EXCEPT !.message = message]
  BY <1>1 DEF AsProblem
<1> QED
  BY <1>3, <1>4

LEMMA ValueFields ==
    ASSUME NEW y, NEW w, NEW i, NEW a, NEW k, NEW t, NEW h, NEW c, NEW d, NEW v, NEW m,
           NEW n, n = Fields(y, w, i, a, k, t, h, c, d, v, m), NEW value
    PROVE  WithValue(n, value) = Fields(y, w, i, a, k, t, h, <<>>, <<>>, value, m)
<1>1. PICK q : q = [n EXCEPT !.children = <<>>]
  OBVIOUS
<1>2. q = Fields(y, w, i, a, k, t, h, <<>>, d, v, m)
  BY <1>1 DEF Fields
<1>3. PICK r : r = [q EXCEPT !.nested = <<>>]
  OBVIOUS
<1>4. r = Fields(y, w, i, a, k, t, h, <<>>, <<>>, v, m)
  BY <1>2, <1>3 DEF Fields
<1>5. [r EXCEPT !.value = value] = Fields(y, w, i, a, k, t, h, <<>>, <<>>, value, m)
  BY <1>4 DEF Fields
<1>6. WithValue(n, value) = [r EXCEPT !.value = value]
  BY <1>1, <1>3 DEF WithValue
<1> QED
  BY <1>5, <1>6

LEMMA NameFields ==
    ASSUME NEW y, NEW w, NEW i, NEW a, NEW k, NEW t, NEW h, NEW c, NEW d, NEW v, NEW m,
           NEW n, n = Fields(y, w, i, a, k, t, h, c, d, v, m)
    PROVE  AsName(n) = Fields("name", w, i, a, k, t, h, c, d, <<"text", w>>, m)
<1>1. PICK q : q = [n EXCEPT !.type = "name"]
  OBVIOUS
<1>2. q = Fields("name", w, i, a, k, t, h, c, d, v, m)
  BY <1>1 DEF Fields
<1>3. [q EXCEPT !.value = <<"text", w>>] = Fields("name", w, i, a, k, t, h, c, d, <<"text", w>>, m)
  BY <1>2 DEF Fields
<1>4. n.words = w
  BY FieldsAre
<1>5. AsName(n) = [q EXCEPT !.value = <<"text", w>>]
  BY <1>1, <1>4 DEF AsName
<1> QED
  BY <1>3, <1>5

LEMMA ProblemNode ==
    ASSUME NEW n, IsNode(n), NEW message
    PROVE  LET p == AsProblem(n, message)
           IN /\ IsNode(p) /\ IsProblem(p) /\ ~IsProperty(p) /\ p.type = "problem" /\ p.message = message
              /\ p.words = n.words /\ p.items = n.items /\ p.at = n.at
              /\ p.children = n.children /\ p.nested = n.nested /\ p.value = n.value /\ p.key = n.key
<1>1. AsProblem(n, message) =
          Fields("problem", n.words, n.items, n.at, n.key, n.propertyType, n.hasMany, n.children, n.nested, n.value, message)
  BY NodeIsFields, ProblemFields DEF FieldsOf
<1> QED
  BY <1>1, FieldsAre DEF IsProblem, IsProperty

LEMMA ValuedNode ==
    ASSUME NEW n, IsNode(n), NEW value
    PROVE  LET p == WithValue(n, value)
           IN /\ IsNode(p) /\ p.type = n.type /\ p.value = value /\ p.children = <<>> /\ p.nested = <<>>
              /\ p.at = n.at /\ p.key = n.key /\ p.propertyType = n.propertyType /\ p.hasMany = n.hasMany
              /\ p.message = n.message
<1>1. WithValue(n, value) =
          Fields(n.type, n.words, n.items, n.at, n.key, n.propertyType, n.hasMany, <<>>, <<>>, value, n.message)
  BY NodeIsFields, ValueFields DEF FieldsOf
<1> QED
  BY <1>1, FieldsAre

LEMMA NameNode ==
    ASSUME NEW n, IsNode(n)
    PROVE  LET p == AsName(n)
           IN /\ IsNode(p) /\ p.type = "name" /\ p.words = n.words /\ p.items = n.items /\ p.at = n.at
              /\ p.children = n.children /\ p.nested = n.nested
<1>1. AsName(n) = Fields("name", n.words, n.items, n.at, n.key, n.propertyType, n.hasMany, n.children, n.nested,
                         <<"text", n.words>>, n.message)
  BY NodeIsFields, NameFields DEF FieldsOf
<1> QED
  BY <1>1, FieldsAre

LEMMA TypesDiffer ==
    ASSUME NEW n
    PROVE  /\ IsProperty(n) <=> n.type = "property"
           /\ IsProblem(n) <=> n.type = "problem"
           /\ ~ (IsProperty(n) /\ IsProblem(n))
BY DEF IsProperty, IsProblem

LEMMA DocumentType ==
    ASSUME NEW d \in Documents
    PROVE  /\ Len(d) \in Nat /\ DOMAIN d = 1..Len(d) /\ IsSeq(d)
           /\ \A i \in 1..Len(d) : /\ d[i].type \in BlockTypes /\ d[i].words \in Seq(STRING)
                                   /\ d[i].items \in Seq(Seq(STRING))
<1> DEFINE B == [type : BlockTypes, words : Seq(STRING), items : Seq(Seq(STRING))]
<1>1. d \in Seq(B)
  BY DocumentsAssumption
<1>2. Len(d) \in Nat /\ DOMAIN d = 1..Len(d) /\ \A i \in 1..Len(d) : d[i] \in B
  <2> HIDE DEF B
  <2> QED
    BY <1>1
<1>3. IsSeq(d)
  <2> HIDE DEF B
  <2> QED
    BY <1>1, SeqIsSeq
<1> QED
  BY <1>2, <1>3

LEMMA PassIs ==
    ASSUME pass \in 1..9, NEW name, Runs(name)
    PROVE  /\ Passes[pass] = name /\ pass' = pass + 1 /\ document' = document
           /\ name = "title" => pass = 1
           /\ name = "property nodes" => pass = 2
           /\ name = "description" => pass = 3
           /\ name = "property names" => pass = 4
           /\ name = "nested" => pass = 5
           /\ name = "coerce" => pass = 6
           /\ name = "validate" => pass = 7
           /\ name = "stringify" => pass = 8
<1>1. Len(Passes) = 8
  BY DEF Passes
<1>2. pass \in 1..8
  BY <1>1 DEF Runs
<1>3. /\ Passes[1] = "title" /\ Passes[2] = "property nodes" /\ Passes[3] = "description"
      /\ Passes[4] = "property names" /\ Passes[5] = "nested" /\ Passes[6] = "coerce"
      /\ Passes[7] = "validate" /\ Passes[8] = "stringify"
  BY DEF Passes
<1>4. Passes[pass] = name /\ pass' = pass + 1 /\ document' = document
  BY DEF Runs
<1>5. pass = 1 \/ pass = 2 \/ pass = 3 \/ pass = 4 \/ pass = 5 \/ pass = 6 \/ pass = 7 \/ pass = 8
  BY <1>2
<1> QED
  BY <1>3, <1>4, <1>5

\* The nodes that are problems are still there, with their messages.
Keeps(t, u) ==
    \A i \in 1..Len(t) : IsProblem(t[i]) =>
        \E k \in 1..Len(u) : IsProblem(u[k]) /\ u[k].message = t[i].message /\ u[k].at = t[i].at

-----------------------------------------------------------------------------
(* The first pass.                                                          *)
LEMMA TitleStep ==
    ASSUME ParseInv, CreateTitleNode
    PROVE  Titled(document, tree') /\ Keeps(tree, tree')
<1>1. pass = 1 /\ document \in Documents /\ tree = Start(document)
  BY PassIs DEF ParseInv, CreateTitleNode
<1>2. PICK d \in Documents : d = document
  BY <1>1
<1>3. PICK n \in Nat : n = Len(d) /\ DOMAIN d = 1..n
  BY DocumentType
<1>4. /\ DOMAIN tree = 1..n /\ IsSeq(tree) /\ Len(tree) = n
      /\ \A i \in 1..n : tree[i] = Node(d[i].type, d[i].words, d[i].items, Position(i, 0, 0))
  <2>1. tree = [i \in 1..n |-> Node(d[i].type, d[i].words, d[i].items, Position(i, 0, 0))]
    BY <1>1, <1>2, <1>3 DEF Start
  <2>2. tree = [i \in 1..n |-> tree[i]]
    BY <2>1
  <2> QED
    BY <2>1, <2>2, FunctionIsSeq
<1>5. \A i \in 1..n : /\ IsNode(tree[i]) /\ tree[i].type = d[i].type /\ tree[i].type \in BlockTypes
                      /\ tree[i].words = d[i].words /\ tree[i].items = d[i].items /\ tree[i].at = Position(i, 0, 0)
                      /\ tree[i].children = <<>> /\ tree[i].nested = <<>>
  BY <1>3, <1>4, DocumentType, NewNode
<1> DEFINE titles == {i \in DOMAIN tree : tree[i].type \in {"h1", "inline h1"}}
<1> DEFINE several == Cardinality(titles) > 1
<1> DEFINE Mark(i) == CASE several -> AsProblem(tree[i], "several names")
                        [] ~several /\ tree[i].type = "inline h1" -> AsProblem(tree[i], "inline markdown in a name")
                        [] OTHER -> AsName(tree[i])
<1>6. tree' = IF titles = {} THEN Append(tree, AsProblem(Node("problem", <<>>, <<>>, Nowhere), "no name"))
              ELSE [i \in DOMAIN tree |-> IF i \in titles THEN Mark(i) ELSE tree[i]]
  BY DEF CreateTitleNode
<1>7. \A i \in 1..n : LET m == Mark(i)
                      IN /\ IsNode(m) /\ m.type \in {"name", "problem"}
                         /\ m.words = tree[i].words /\ m.items = tree[i].items /\ m.at = tree[i].at
                         /\ m.children = tree[i].children /\ m.nested = tree[i].nested
  <2> SUFFICES ASSUME NEW i \in 1..n
               PROVE  LET m == Mark(i)
                      IN /\ IsNode(m) /\ m.type \in {"name", "problem"}
                         /\ m.words = tree[i].words /\ m.items = tree[i].items /\ m.at = tree[i].at
                         /\ m.children = tree[i].children /\ m.nested = tree[i].nested
    OBVIOUS
  <2>1. PICK x : x = tree[i] /\ IsNode(x)
    BY <1>5
  <2>2. \/ \E message : Mark(i) = AsProblem(x, message)
        \/ Mark(i) = AsName(x)
    <3> HIDE DEF several
    <3>1. CASE several
      BY <2>1, <3>1
    <3>2. CASE ~several /\ tree[i].type = "inline h1"
      BY <2>1, <3>2
    <3>3. CASE ~several /\ tree[i].type # "inline h1"
      BY <2>1, <3>3
    <3> QED
      BY <3>1, <3>2, <3>3
  <2> HIDE DEF Mark
  <2>3. CASE \E message : Mark(i) = AsProblem(x, message)
    BY <2>1, <2>3, ProblemNode
  <2>4. CASE Mark(i) = AsName(x)
    BY <2>1, <2>4, NameNode
  <2> QED
    BY <2>2, <2>3, <2>4
<1>8. CASE titles = {}
  <2>1. PICK p : p = AsProblem(Node("problem", <<>>, <<>>, Nowhere), "no name")
    OBVIOUS
  <2>2. /\ IsNode(p) /\ IsProblem(p) /\ p.type = "problem" /\ p.words = <<>> /\ p.items = <<>> /\ p.at = Nowhere
        /\ p.children = <<>> /\ p.nested = <<>>
    <3>1. PICK q : q = Node("problem", <<>>, <<>>, Nowhere)
      OBVIOUS
    <3>2. IsNode(q) /\ q.words = <<>> /\ q.items = <<>> /\ q.at = Nowhere /\ q.children = <<>> /\ q.nested = <<>>
      BY <3>1, NewNode
    <3>3. p = AsProblem(q, "no name")
      BY <2>1, <3>1
    <3>4. /\ IsNode(p) /\ IsProblem(p) /\ p.type = "problem"
          /\ p.words = q.words /\ p.items = q.items /\ p.at = q.at /\ p.children = q.children /\ p.nested = q.nested
      <4>1. PICK m : p = AsProblem(q, m)
        BY <3>3
      <4> QED
        BY <3>2, <4>1, ProblemNode
    <3> QED
      BY <3>2, <3>4
  <2>3. tree' = Append(tree, p)
    BY <1>6, <1>8, <2>1
  <2> HIDE DEF titles
  <2>4. PICK T : tree \in Seq(T) /\ p \in T
    <3>1. tree \in Seq(Items(tree) \union {p})
      <4>1. tree \in Seq(Items(tree))
        BY <1>4, SeqFacts
      <4> QED
        BY <4>1
    <3> QED
      BY <3>1
  <2>5. /\ tree' \in Seq(T) /\ Len(tree') = n + 1 /\ tree'[n + 1] = p
        /\ \A i \in 1..n : tree'[i] = tree[i]
    BY <1>4, <2>3, <2>4
  <2>6. IsSeq(tree')
    BY <2>5, SeqIsSeq
  <2>7. \A i \in 1..n + 1 : IsNode(tree'[i]) /\ tree'[i].type # "property" /\ tree'[i].children = <<>> /\ tree'[i].nested = <<>>
    <3>1. \A i \in 1..n : tree[i].type # "property"
      BY <1>5 DEF BlockTypes
    <3>2. p.type # "property"
      BY <2>2
    <3>3. \A i \in 1..n + 1 : i \in 1..n \/ i = n + 1
      BY <1>3
    <3> QED
      BY <1>5, <2>2, <2>5, <3>1, <3>2, <3>3
  <2>8. Titled(d, tree')
    BY <1>3, <1>5, <2>2, <2>5, <2>6, <2>7 DEF Titled
  <2>9. Keeps(tree, tree')
    BY <1>4, <2>5 DEF Keeps
  <2> QED
    BY <1>2, <2>8, <2>9
<1>9. CASE titles # {}
  <2>1. tree' = [i \in 1..n |-> IF i \in titles THEN Mark(i) ELSE tree[i]]
    BY <1>4, <1>6, <1>9
  <2>2. \A i \in 1..n : ~ (i \in titles) => tree[i].type \notin {"h1", "inline h1"}
    BY <1>4
  <2>3. \A i \in 1..n : i \in titles => tree[i].type \in {"h1", "inline h1"}
    OBVIOUS
  <2> HIDE DEF titles, Mark
  <2>4. IsSeq(tree') /\ Len(tree') = n /\ \A i \in 1..n : tree'[i] = IF i \in titles THEN Mark(i) ELSE tree[i]
    <3>1. tree' = [i \in 1..n |-> tree'[i]]
      BY <2>1
    <3> QED
      BY <2>1, <3>1, FunctionIsSeq
  <2>5. \A i \in 1..n : /\ IsNode(tree'[i]) /\ tree'[i].type # "property" /\ tree'[i].children = <<>> /\ tree'[i].nested = <<>>
                        /\ tree'[i].words = d[i].words /\ tree'[i].items = d[i].items
                        /\ tree'[i].at = Position(i, 0, 0) /\ (tree'[i].type = "h2" <=> d[i].type = "h2")
    <3> SUFFICES ASSUME NEW i \in 1..n
                 PROVE  /\ IsNode(tree'[i]) /\ tree'[i].type # "property" /\ tree'[i].children = <<>> /\ tree'[i].nested = <<>>
                        /\ tree'[i].words = d[i].words /\ tree'[i].items = d[i].items
                        /\ tree'[i].at = Position(i, 0, 0) /\ (tree'[i].type = "h2" <=> d[i].type = "h2")
      OBVIOUS
    <3>1. CASE i \in titles
      <4>1. tree'[i] = Mark(i)
        BY <2>4, <3>1
      <4>2. tree[i].type # "h2"
        BY <2>3, <3>1
      <4> QED
        BY <1>5, <1>7, <4>1, <4>2
    <3>2. CASE i \notin titles
      <4>1. tree'[i] = tree[i]
        BY <2>4, <3>2
      <4>2. tree[i].type # "property"
        BY <1>5 DEF BlockTypes
      <4> QED
        BY <1>5, <4>1, <4>2
    <3> QED
      BY <3>1, <3>2
  <2>6. Titled(d, tree')
    BY <1>3, <2>4, <2>5 DEF Titled
  <2>7. \A i \in 1..n : ~IsProblem(tree[i])
    BY <1>5 DEF IsProblem, BlockTypes
  <2>8. Keeps(tree, tree')
    BY <1>4, <2>7 DEF Keeps
  <2> QED
    BY <1>2, <2>6, <2>8
<1> QED
  BY <1>8, <1>9

-----------------------------------------------------------------------------
(* The second pass.                                                         *)
LEMMA SubSeqFacts ==
    ASSUME NEW s, IsSeq(s), NEW m \in 1..Len(s) + 1, NEW n \in m - 1..Len(s)
    PROVE  /\ IsSeq(SubSeq(s, m, n)) /\ Len(SubSeq(s, m, n)) = n - m + 1
           /\ \A k \in 1..n - m + 1 : SubSeq(s, m, n)[k] = s[m + k - 1]
<1> DEFINE T == Items(s)
<1>1. s \in Seq(T) /\ Len(s) \in Nat
  BY SeqFacts
<1> HIDE DEF T
<1>2. /\ SubSeq(s, m, n) \in Seq(T) /\ Len(SubSeq(s, m, n)) = n - m + 1
      /\ \A k \in 1..n - m + 1 : SubSeq(s, m, n)[k] = s[m + k - 1]
  BY <1>1
<1> QED
  BY <1>2, SeqIsSeq

LEMMA NewSection ==
    ASSUME NEW heading, NEW blocks
    PROVE  LET n == SectionNode(heading, blocks)
           IN /\ IsNode(n) /\ n.type = "property" /\ n.at = heading.at /\ n.key = heading.words[1]
              /\ n.children = blocks /\ n.nested = <<>>
<1>1. PICK q : q = Node("property", <<>>, <<>>, heading.at)
  OBVIOUS
<1>2. PICK a, w, y, e, s, h, v : /\ a = heading.at /\ w = heading.words[1] /\ y = "property"
                               /\ e = <<>> /\ s = "" /\ h = FALSE /\ v = Absent
  OBVIOUS
<1>3. q = Fields(y, e, e, a, s, s, h, e, e, v, s)
  BY <1>1, <1>2 DEF Node, Fields
<1>4. PICK r : r = [q EXCEPT !.key = w]
  OBVIOUS
<1>5. r = Fields(y, e, e, a, w, s, h, e, e, v, s)
  BY <1>3, <1>4 DEF Fields
<1>6. PICK n : n = [r EXCEPT !.children = blocks]
  OBVIOUS
<1>7. n = Fields(y, e, e, a, w, s, h, blocks, e, v, s)
  BY <1>5, <1>6 DEF Fields
<1>8. n = SectionNode(heading, blocks)
  BY <1>1, <1>2, <1>4, <1>6 DEF SectionNode
<1>9. IsNode(n) /\ n.type = y /\ n.at = a /\ n.key = w /\ n.children = blocks /\ n.nested = e
  BY <1>7, FieldsAre
<1> QED
  BY <1>2, <1>8, <1>9

\* Where a section ends, with and without the node of a missing title.
EndOf(H, n, i) == Min({j \in H : j > i} \union {n + 1}) - 1

EndsWell(H, N, n, i) ==
    LET E == EndOf(H, n, i)
        F == EndOf(H, N, i)
    IN /\ E \in i..n /\ F \in i..N
       /\ E = F \/ (E = n /\ n = N + 1 /\ F = N)
       /\ \A j \in H : j > i => E < j /\ F < j

LEMMA SectionEnds ==
    ASSUME NEW N \in Nat, NEW H \in SUBSET (1..N), NEW n \in {N, N + 1}, NEW i \in 0..N
    PROVE  EndsWell(H, N, n, i)
<1> DEFINE later == {j \in H : j > i}
<1>1. PICK x \in Nat : /\ x = Min(later \union {n + 1}) /\ x \in later \union {n + 1} /\ \A y \in later \union {n + 1} : x <= y
  <2>1. \A j \in later : j \in Nat
    OBVIOUS
  <2>2. n + 1 \in Nat
    OBVIOUS
  <2> HIDE DEF later
  <2>3. n + 1 \in later \union {n + 1} /\ later \union {n + 1} \in SUBSET Nat
    <3>1. later \subseteq Nat
      BY <2>1
    <3> QED
      BY <2>2, <3>1
  <2> QED
    BY <2>3, MinFacts
<1>2. PICK z \in Nat : /\ z = Min(later \union {N + 1}) /\ z \in later \union {N + 1} /\ \A y \in later \union {N + 1} : z <= y
  <2>1. \A j \in later : j \in Nat
    OBVIOUS
  <2>2. N + 1 \in Nat
    OBVIOUS
  <2> HIDE DEF later
  <2>3. N + 1 \in later \union {N + 1} /\ later \union {N + 1} \in SUBSET Nat
    <3>1. later \subseteq Nat
      BY <2>1
    <3> QED
      BY <2>2, <3>1
  <2> QED
    BY <2>3, MinFacts
<1>3. x - 1 \in i..n /\ z - 1 \in i..N
  BY <1>1, <1>2
<1>4. x = z \/ (x = n + 1 /\ n = N + 1 /\ z = N + 1)
  <2>1. CASE later = {}
    BY <1>1, <1>2, <2>1
  <2>2. CASE later # {}
    <3>1. PICK j \in later : TRUE
      BY <2>2
    <3>2. x <= j /\ z <= j /\ j < N + 1 /\ j < n + 1
      BY <1>1, <1>2, <3>1
    <3>3. x \in later /\ z \in later
      BY <1>1, <1>2, <3>2
    <3>4. x <= z /\ z <= x
      BY <1>1, <1>2, <3>3
    <3> QED
      BY <3>4
  <2> QED
    BY <2>1, <2>2
<1>5. \A j \in H : j > i => x - 1 < j /\ z - 1 < j
  BY <1>1, <1>2
<1> QED
  <2>1. EndOf(H, n, i) = x - 1 /\ EndOf(H, N, i) = z - 1
    BY <1>1, <1>2 DEF EndOf
  <2> QED
    BY <1>3, <1>4, <1>5, <2>1 DEF EndsWell

LEMMA EndInFacts ==
    ASSUME NEW d \in Documents, NEW i \in 0..Len(d)
    PROVE  /\ EndIn(d, i) \in i..Len(d) /\ EndIn(d, i) \in Nat /\ i \in i..EndIn(d, i)
           /\ \A j \in SectionsIn(d) : j > i => EndIn(d, i) < j
<1>1. Len(d) \in Nat /\ SectionsIn(d) \in SUBSET (1..Len(d))
  BY DocumentType DEF SectionsIn
<1> DEFINE F == EndOf(SectionsIn(d), Len(d), i)
<1>2. F \in i..Len(d) /\ \A j \in SectionsIn(d) : j > i => F < j
  <2>1. EndsWell(SectionsIn(d), Len(d), Len(d), i)
    BY <1>1, SectionEnds
  <2> QED
    BY <2>1 DEF EndsWell
<1>3. EndIn(d, i) = F
  BY DEF EndIn, NextIn, EndOf
<1> HIDE DEF F
<1> QED
  BY <1>1, <1>2, <1>3

KeepsOutside(d, t, u) ==
    \A i \in 1..Len(t) :
        /\ IsProblem(t[i])
        /\ SectionsIn(d) = {} \/ t[i].at.block \notin {0} \union Min(SectionsIn(d))..Len(d)
        => \E k \in 1..Len(u) : IsProblem(u[k]) /\ u[k].message = t[i].message /\ u[k].at = t[i].at

\* The blocks from a heading to the next one.
LEMMA SectionContent ==
    ASSUME NEW d \in Documents, NEW t, Titled(d, t), NEW i \in SectionsIn(d),
           NEW E, E = EndOf(SectionsIn(d), Len(t), i)
    PROVE  HasContent(d, i, SubSeq(t, i + 1, E))
<1>1. PICK N \in Nat : N = Len(d) /\ SectionsIn(d) \in SUBSET (1..N) /\ i \in 1..N
  BY DocumentType DEF SectionsIn
<1>2. PICK n \in {N, N + 1} : n = Len(t)
  BY <1>1 DEF Titled
<1>3. PICK F : F = EndOf(SectionsIn(d), N, i)
  OBVIOUS
<1>4. E = EndOf(SectionsIn(d), n, i)
  BY <1>2
<1>5. EndIn(d, i) = F
  BY <1>1, <1>3 DEF EndIn, NextIn, EndOf
<1>6. i \in 0..N
  BY <1>1
<1>7. E \in i..n /\ F \in i..N /\ (E = F \/ (E = n /\ n = N + 1 /\ F = N))
  <2>1. PICK H \in SUBSET (1..N) : H = SectionsIn(d)
    BY <1>1
  <2>2. E = EndOf(H, n, i) /\ F = EndOf(H, N, i)
    BY <1>3, <1>4, <2>1
  <2>3. EndsWell(H, N, n, i)
    BY <1>2, <1>6, SectionEnds
  <2> QED
    BY <2>2, <2>3 DEF EndsWell
<1>8. IsSeq(t) /\ i + 1 \in 1..Len(t) + 1 /\ E \in (i + 1) - 1..Len(t)
  BY <1>1, <1>2, <1>7 DEF Titled
<1>9. PICK b : b = SubSeq(t, i + 1, E)
  OBVIOUS
<1>10. IsSeq(b) /\ Len(b) = E - (i + 1) + 1 /\ \A k \in 1..E - (i + 1) + 1 : b[k] = t[(i + 1) + k - 1]
  BY <1>8, <1>9, SubSeqFacts
<1>11. Len(b) = E - i /\ \A k \in 1..E - i : b[k] = t[i + k] /\ i + k \in 1..n
  <2>1. E \in Int /\ i \in Int /\ n \in Int /\ E <= n /\ 1 <= i
    BY <1>1, <1>2, <1>7
  <2>2. E - (i + 1) + 1 = E - i /\ \A k \in 1..E - i : (i + 1) + k - 1 = i + k /\ i + k \in 1..n
    BY <2>1
  <2> QED
    BY <1>10, <2>2
<1>12. \A k \in 1..Len(b) : IsNode(b[k]) /\ b[k].type # "property"
  BY <1>2, <1>11 DEF Titled
<1>13. \A k \in 1..F - i : k \in 1..E - i /\ i + k \in 1..N
  BY <1>1, <1>2, <1>7
<1>14. \A k \in 1..F - i : b[k].words = d[i + k].words /\ b[k].items = d[i + k].items /\ b[k].at = Position(i + k, 0, 0)
  BY <1>1, <1>11, <1>13 DEF Titled
<1>15. Len(b) \in {F - i, (F - i) + 1}
  BY <1>1, <1>2, <1>7, <1>11
<1>16. Len(b) = (F - i) + 1 => b[(F - i) + 1].words = <<>> /\ b[(F - i) + 1].items = <<>>
  <2> SUFFICES ASSUME Len(b) = (F - i) + 1
               PROVE  b[(F - i) + 1].words = <<>> /\ b[(F - i) + 1].items = <<>>
    OBVIOUS
  <2>1. E = n /\ n = N + 1 /\ F = N /\ (F - i) + 1 \in 1..E - i /\ i + ((F - i) + 1) = N + 1
    <3>1. E - i = (F - i) + 1 /\ E \in Int /\ F \in Int /\ i \in Int /\ F <= N /\ i <= F
      BY <1>1, <1>2, <1>7, <1>11
    <3>2. E = F + 1
      BY <3>1
    <3>3. E = n /\ n = N + 1 /\ F = N
      BY <1>7, <3>1, <3>2
    <3> QED
      BY <1>1, <3>1, <3>3
  <2>2. b[(F - i) + 1] = t[N + 1]
    BY <1>11, <2>1
  <2>3. t[N + 1].words = <<>> /\ t[N + 1].items = <<>>
    BY <1>1, <1>2, <2>1 DEF Titled
  <2> QED
    BY <2>2, <2>3
<1>17. HasContent(d, i, b)
  BY <1>5, <1>10, <1>12, <1>14, <1>15, <1>16 DEF HasContent
<1> QED
  BY <1>9, <1>17

\* What the pass makes of a tree t.
TextOf(t, H) == SubSeq(t, 1, EndOf(H, Len(t), 0))
SectionOf(t, H, i) == SectionNode(t[i], SubSeq(t, i + 1, EndOf(H, Len(t), i)))
SectionsOf(t, H) == [k \in 1..Cardinality(H) |-> SectionOf(t, H, InOrder(H)[k])]

LEMMA PropertyNodesAre ==
    ASSUME CreatePropertyNodes
    PROVE  LET H == {i \in DOMAIN tree : tree[i].type = "h2"}
           IN tree' = TextOf(tree, H) \o SectionsOf(tree, H)
BY DEF CreatePropertyNodes, TextOf, SectionsOf, SectionOf, EndOf

LEMMA HeadsAre ==
    ASSUME NEW d \in Documents, NEW t, Titled(d, t)
    PROVE  /\ {i \in DOMAIN t : t[i].type = "h2"} = SectionsIn(d)
           /\ SectionsIn(d) \in SUBSET (1..Len(d)) /\ SectionsIn(d) \in SUBSET (1..Len(t)) /\ IsFiniteSet(SectionsIn(d))
<1>1. PICK N \in Nat : N = Len(d) /\ DOMAIN d = 1..N
  BY DocumentType
<1>2. PICK n \in {N, N + 1} : n = Len(t) /\ DOMAIN t = 1..n
  BY <1>1, SeqFacts DEF Titled
<1>3. \A i \in DOMAIN t : i \in 1..N \/ (i = N + 1 /\ Len(t) = N + 1)
  <2>1. \A i \in 1..n : i \in 1..N \/ (i = N + 1 /\ n = N + 1)
    BY <1>2
  <2> QED
    BY <1>2, <2>1
<1>4. \A i \in DOMAIN t : t[i].type = "h2" <=> (i \in DOMAIN d /\ d[i].type = "h2")
  <2> SUFFICES ASSUME NEW i \in DOMAIN t
               PROVE  t[i].type = "h2" <=> (i \in DOMAIN d /\ d[i].type = "h2")
    OBVIOUS
  <2>1. CASE i \in 1..N
    BY <1>1, <2>1 DEF Titled
  <2>2. CASE i = N + 1 /\ Len(t) = N + 1
    <3>1. IsProblem(t[i])
      BY <1>1, <2>2 DEF Titled
    <3>2. t[i].type = "problem"
      BY <3>1 DEF IsProblem
    <3>3. i \notin DOMAIN d
      BY <1>1, <2>2
    <3> QED
      BY <3>2, <3>3
  <2> QED
    BY <1>3, <2>1, <2>2
<1>5. \A i \in DOMAIN d : i \in DOMAIN t
  <2>1. \A i \in 1..N : i \in 1..n
    BY <1>2
  <2> QED
    BY <1>1, <1>2, <2>1
<1>6. {i \in DOMAIN t : t[i].type = "h2"} = SectionsIn(d)
  BY <1>4, <1>5 DEF SectionsIn
<1>7. SectionsIn(d) \in SUBSET (1..N)
  BY <1>1 DEF SectionsIn
<1>8. IsFiniteSet(SectionsIn(d))
  <2>1. IsFiniteSet(1..N)
    BY FS_Interval
  <2> QED
    BY <1>7, <2>1, FS_Subset
<1> QED
  BY <1>1, <1>2, <1>5, <1>6, <1>7, <1>8

CutParts(t, H, u) ==
    LET e == EndOf(H, Len(t), 0)
        K == Cardinality(H)
    IN /\ e \in 0..Len(t) /\ K \in Nat /\ IsSeq(u) /\ Len(u) = e + K
       /\ \A k \in 1..e : u[k] = t[k]
       /\ \A k \in 1..K : u[e + k] = SectionOf(t, H, InOrder(H)[k]) /\ InOrder(H)[k] \in H
       /\ \A k, l \in 1..K : k < l => InOrder(H)[k] < InOrder(H)[l]
       /\ \A i \in H : e < i /\ \E k \in 1..K : InOrder(H)[k] = i

LEMMA CutPartsAre ==
    ASSUME NEW t, IsSeq(t), NEW H \in SUBSET (1..Len(t)), IsFiniteSet(H)
    PROVE  CutParts(t, H, TextOf(t, H) \o SectionsOf(t, H))
<1>1. PICK n \in Nat : n = Len(t)
  BY SeqFacts
<1>2. PICK e : e = EndOf(H, n, 0)
  OBVIOUS
<1>3. EndsWell(H, n, n, 0)
  BY <1>1, SectionEnds
<1>4. e \in 0..n /\ \A j \in H : e < j
  <2>1. \A j \in H : j > 0
    BY <1>1
  <2> QED
    BY <1>2, <1>3, <2>1 DEF EndsWell
<1>5. PICK p : p = TextOf(t, H)
  OBVIOUS
<1>6. IsSeq(p) /\ Len(p) = e /\ \A k \in 1..e : p[k] = t[k]
  <2>1. 1 \in 1..Len(t) + 1 /\ e \in 1 - 1..Len(t)
    BY <1>1, <1>4
  <2>2. p = SubSeq(t, 1, e)
    BY <1>1, <1>2, <1>5 DEF TextOf
  <2>3. IsSeq(p) /\ Len(p) = e - 1 + 1 /\ \A k \in 1..e - 1 + 1 : p[k] = t[1 + k - 1]
    BY <2>1, <2>2, SubSeqFacts
  <2>4. e - 1 + 1 = e /\ \A k \in 1..e : 1 + k - 1 = k
    BY <1>4
  <2> QED
    BY <2>3, <2>4
<1>7. PICK K \in Nat : K = Cardinality(H)
  BY FS_CardinalityType
<1>8. PICK o : o = InOrder(H)
  OBVIOUS
<1>9. /\ o \in [1..K -> H] /\ (\A k, l \in 1..K : k < l => o[k] < o[l])
      /\ \A i \in H : \E k \in 1..K : o[k] = i
  <2>1. H \in SUBSET Nat
    <3>1. \A i \in H : i \in Nat
      BY <1>1
    <3> QED
      BY <3>1
  <2> QED
    BY <1>7, <1>8, <2>1, InOrderFacts
<1>10. PICK s : s = SectionsOf(t, H)
  OBVIOUS
<1>11. s = [k \in 1..K |-> SectionOf(t, H, o[k])]
  BY <1>7, <1>8, <1>10 DEF SectionsOf
<1>12. s = [k \in 1..K |-> s[k]]
  BY <1>11
<1>13. IsSeq(s) /\ Len(s) = K /\ \A k \in 1..K : s[k] = SectionOf(t, H, o[k])
  BY <1>11, <1>12, FunctionIsSeq
<1>14. PICK u : u = p \o s
  OBVIOUS
<1>15. /\ IsSeq(u) /\ Len(u) = e + K /\ (\A k \in 1..e : u[k] = p[k]) /\ \A k \in 1..K : u[e + k] = s[k]
  <2>1. /\ IsSeq(p \o s) /\ Len(p \o s) = Len(p) + Len(s)
        /\ \A k \in 1..Len(p) : (p \o s)[k] = p[k]
        /\ \A k \in 1..Len(s) : (p \o s)[Len(p) + k] = s[k]
    <3>1. IsSeq(p) /\ IsSeq(s)
      BY <1>6, <1>13
    <3> QED
      BY <3>1, ConcatSeqs
  <2> QED
    BY <1>6, <1>13, <1>14, <2>1
<1>16. \A k \in 1..K : o[k] \in H
  BY <1>9
<1>17. CutParts(t, H, u)
  BY <1>1, <1>2, <1>4, <1>6, <1>7, <1>8, <1>9, <1>13, <1>15, <1>16 DEF CutParts
<1> QED
  BY <1>5, <1>10, <1>14, <1>17

LEMMA BlockOf ==
    ASSUME NEW block, NEW item, NEW line
    PROVE  Position(block, item, line).block = block
BY DEF Position

\* What is before every heading is before the end of the text.
LEMMA TextEnd ==
    ASSUME NEW N \in Nat, NEW H \in SUBSET (1..N), NEW n \in {N, N + 1},
           NEW i \in 1..n, \A j \in H : i < j
    PROVE  i <= EndOf(H, n, 0)
<1> DEFINE S == {j \in H : j > 0} \union {n + 1}
<1>1. n + 1 \in S
  OBVIOUS
<1>2. \A x \in S : x \in Nat /\ i < x
  <2>1. \A x \in H : x \in Nat /\ i < x
    OBVIOUS
  <2>2. n + 1 \in Nat /\ i < n + 1
    OBVIOUS
  <2> QED
    BY <2>1, <2>2
<1>3. S \in SUBSET Nat
  <2> HIDE DEF S
  <2> QED
    BY <1>2
<1>4. EndOf(H, n, 0) = Min(S) - 1
  BY DEF EndOf
<1> HIDE DEF S
<1>5. PICK m \in Nat : m = Min(S) /\ m \in S
  BY <1>1, <1>3, MinFacts
<1> QED
  BY <1>2, <1>4, <1>5

LEMMA CutTree ==
    ASSUME NEW d \in Documents, NEW t, Titled(d, t), NEW u, CutParts(t, SectionsIn(d), u)
    PROVE  Cut(d, u) /\ KeepsOutside(d, t, u)
<1> DEFINE H == SectionsIn(d)
<1>1. PICK N \in Nat : N = Len(d) /\ DOMAIN d = 1..N
  BY DocumentType
<1>2. PICK n \in {N, N + 1} : n = Len(t)
  BY <1>1 DEF Titled
<1>3. PICK e, K, o : e = EndOf(H, Len(t), 0) /\ K = Cardinality(H) /\ o = InOrder(H)
  OBVIOUS
<1>4. /\ e \in 0..n /\ K \in Nat /\ IsSeq(u) /\ Len(u) = e + K
      /\ \A k \in 1..e : u[k] = t[k]
      /\ \A k \in 1..K : u[e + k] = SectionOf(t, H, o[k]) /\ o[k] \in H
      /\ \A k, l \in 1..K : k < l => o[k] < o[l]
      /\ \A i \in H : e < i /\ \E k \in 1..K : o[k] = i
  BY <1>2, <1>3 DEF CutParts
<1>5. H \in SUBSET (1..N)
  BY <1>1, HeadsAre
<1>6. \A p \in 1..Len(u) : p \in 1..e \/ \E k \in 1..K : p = e + k
  <2> SUFFICES ASSUME NEW p \in 1..e + K, p \notin 1..e
               PROVE  \E k \in 1..K : p = e + k
    BY <1>4
  <2>1. e \in Nat
    BY <1>2, <1>4
  <2>2. p - e \in 1..K /\ p = e + (p - e)
    BY <1>4, <2>1
  <2> QED
    BY <2>2
<1>7. \A k \in 1..e : /\ IsNode(u[k]) /\ u[k].type # "property" /\ u[k].children = <<>> /\ u[k].nested = <<>>
  BY <1>2, <1>4 DEF Titled
<1>8. \A k \in 1..K : /\ IsNode(u[e + k]) /\ u[e + k].type = "property" /\ u[e + k].nested = <<>>
                      /\ o[k] \in H /\ u[e + k].at = Position(o[k], 0, 0) /\ u[e + k].key = d[o[k]].words[1]
                      /\ HasContent(d, o[k], u[e + k].children)
  <2> SUFFICES ASSUME NEW k \in 1..K
               PROVE  /\ IsNode(u[e + k]) /\ u[e + k].type = "property" /\ u[e + k].nested = <<>>
                      /\ o[k] \in H /\ u[e + k].at = Position(o[k], 0, 0) /\ u[e + k].key = d[o[k]].words[1]
                      /\ HasContent(d, o[k], u[e + k].children)
    OBVIOUS
  <2>1. PICK i \in H : i = o[k]
    BY <1>4
  <2>2. PICK b : b = SubSeq(t, i + 1, EndOf(H, Len(t), i))
    OBVIOUS
  <2>3. u[e + k] = SectionNode(t[i], b)
    BY <1>4, <2>1, <2>2 DEF SectionOf
  <2>4. PICK x : x = u[e + k]
    OBVIOUS
  <2>5. IsNode(x) /\ x.type = "property" /\ x.at = t[i].at /\ x.key = t[i].words[1] /\ x.children = b /\ x.nested = <<>>
    BY <2>3, <2>4, NewSection
  <2>6. i \in 1..N
    BY <1>5, <2>1
  <2>7. t[i].at = Position(i, 0, 0) /\ t[i].words = d[i].words
    BY <1>1, <2>6 DEF Titled
  <2>8. HasContent(d, i, b)
    BY <2>1, <2>2, SectionContent
  <2> QED
    BY <2>1, <2>4, <2>5, <2>7, <2>8
<1>9. \A k \in 1..K : u[e + k].at.block = o[k]
  BY <1>8, BlockOf
<1> HIDE DEF H
<1>10. \A p \in 1..Len(u) : IsRootNode(u[p])
  <2> SUFFICES ASSUME NEW p \in 1..Len(u)
               PROVE  IsRootNode(u[p])
    OBVIOUS
  <2>1. IsSeq(<<>>) /\ Len(<<>>) = 0
    <3>1. <<>> \in Seq({}) /\ Len(<<>>) = 0
      BY EmptySeq
    <3> QED
      BY <3>1, SeqIsSeq
  <2>2. CASE p \in 1..e
    BY <1>7, <2>1, <2>2 DEF IsRootNode
  <2>3. CASE \E k \in 1..K : p = e + k
    <3>1. PICK k \in 1..K : p = e + k
      BY <2>3
    <3>2. PICK b : b = u[p].children
      OBVIOUS
    <3>3. IsSeq(b) /\ \A j \in 1..Len(b) : b[j].type # "property"
      BY <1>8, <3>1, <3>2 DEF HasContent
    <3> QED
      BY <1>8, <2>1, <3>1, <3>2, <3>3 DEF IsRootNode
  <2> QED
    BY <1>6, <2>2, <2>3
<1>11. \A k \in 1..e : ~IsProperty(u[k]) /\ ~Holds(u[k])
  BY <1>7, TypesDiffer DEF Holds
<1>12. \A k \in 1..K : IsProperty(u[e + k])
  BY <1>8, TypesDiffer
<1>13. \A p \in 1..Len(u) : Holds(u[p]) => u[p].at.block \in H
  BY <1>6, <1>8, <1>9, <1>11
<1>14. InSectionOrder(u)
  <2> SUFFICES ASSUME NEW p \in 1..Len(u), NEW q \in 1..Len(u), p < q, Holds(u[p]), Holds(u[q])
               PROVE  u[p].at.block < u[q].at.block
    BY DEF InSectionOrder
  <2>1. PICK k \in 1..K : p = e + k
    BY <1>6, <1>11
  <2>2. PICK l \in 1..K : q = e + l
    BY <1>6, <1>11
  <2>3. k < l
    BY <1>2, <1>4, <2>1, <2>2
  <2> QED
    BY <1>4, <1>9, <2>1, <2>2, <2>3
<1>15. Standing(d, u)
  <2> SUFFICES ASSUME NEW i \in SectionsIn(d)
               PROVE  \E p \in 1..Len(u) : Stands(d, i, u[p])
    BY DEF Standing
  <2>1. PICK k \in 1..K : o[k] = i
    BY <1>4 DEF H
  <2>2. e + k \in 1..Len(u)
    BY <1>2, <1>4
  <2> QED
    BY <1>9, <1>12, <2>1, <2>2 DEF Stands
<1>16. \A p \in 1..Len(u) : u[p].nested = <<>> /\ IsCut(d, u[p])
  <2> SUFFICES ASSUME NEW p \in 1..Len(u)
               PROVE  u[p].nested = <<>> /\ IsCut(d, u[p])
    OBVIOUS
  <2>1. CASE p \in 1..e
    BY <1>7, <1>11, <2>1 DEF IsCut
  <2>2. CASE \E k \in 1..K : p = e + k
    BY <1>8, <1>9, <2>2 DEF IsCut
  <2> QED
    BY <1>6, <2>1, <2>2
<1>17. Cut(d, u)
  BY <1>4, <1>10, <1>13, <1>14, <1>15, <1>16 DEF Cut, IsTree, H
<1>18. KeepsOutside(d, t, u)
  <2> SUFFICES ASSUME NEW i \in 1..Len(t), IsProblem(t[i]),
                      H = {} \/ t[i].at.block \notin {0} \union Min(H)..Len(d)
               PROVE  \E k \in 1..Len(u) : IsProblem(u[k]) /\ u[k].message = t[i].message /\ u[k].at = t[i].at
    BY DEF KeepsOutside, H
  <2>1. i \in 1..e
    <3>1. i \in 1..n /\ \A j \in H : i < j
      <4>1. CASE H = {}
        BY <1>2, <4>1
      <4>2. CASE H # {}
        <5>1. Min(H) \in H /\ Min(H) \in Nat /\ \A j \in H : Min(H) <= j
          <6>1. PICK j \in H : TRUE
            BY <4>2
          <6>2. H \in SUBSET Nat
            BY <1>5
          <6> QED
            BY <6>1, <6>2, MinFacts
        <5>2. t[i].at.block \notin {0} \union Min(H)..N
          BY <1>1, <4>2
        <5>3. i # N + 1
          <6>1. i = N + 1 => t[i].at = Nowhere
            BY <1>1, <1>2 DEF Titled
          <6>2. Nowhere.block = 0
            BY BlockOf DEF Nowhere
          <6> QED
            BY <5>2, <6>1, <6>2
        <5>4. i \in 1..N
          BY <1>2, <5>3
        <5>5. t[i].at.block = i
          <6>1. t[i].at = Position(i, 0, 0)
            BY <1>1, <5>4 DEF Titled
          <6> QED
            BY <6>1, BlockOf
        <5>6. i < Min(H)
          BY <5>1, <5>2, <5>4, <5>5
        <5> QED
          BY <1>2, <1>5, <5>1, <5>4, <5>6
      <4> QED
        BY <4>1, <4>2
    <3>2. i <= EndOf(H, n, 0)
      BY <1>2, <1>5, <3>1, TextEnd
    <3> QED
      BY <1>2, <1>3, <1>4, <3>1, <3>2
  <2>2. i \in 1..Len(u) /\ u[i] = t[i]
    BY <1>2, <1>4, <2>1
  <2> QED
    BY <2>2
<1> QED
  BY <1>17, <1>18

LEMMA CutStep ==
    ASSUME ParseInv, CreatePropertyNodes
    PROVE  Cut(document, tree') /\ KeepsOutside(document, tree, tree') /\ pass = 2
<1>1. pass = 2 /\ document \in Documents /\ Titled(document, tree)
  BY PassIs DEF ParseInv, CreatePropertyNodes
<1>2. PICK H : H = SectionsIn(document)
  OBVIOUS
<1>3. tree' = TextOf(tree, H) \o SectionsOf(tree, H)
  BY <1>1, <1>2, HeadsAre, PropertyNodesAre
<1>4. IsSeq(tree) /\ H \in SUBSET (1..Len(tree)) /\ IsFiniteSet(H)
  BY <1>1, <1>2, HeadsAre DEF Titled
<1>5. CutParts(tree, H, tree')
  BY <1>3, <1>4, CutPartsAre
<1> QED
  BY <1>1, <1>2, <1>5, CutTree

-----------------------------------------------------------------------------
(* Trees whose nodes come from those of another.                            *)
LEMMA AppendSeq ==
    ASSUME NEW s, IsSeq(s), NEW x
    PROVE  /\ IsSeq(Append(s, x)) /\ Len(Append(s, x)) = Len(s) + 1 /\ Append(s, x)[Len(s) + 1] = x
           /\ \A k \in 1..Len(s) : Append(s, x)[k] = s[k]
<1>1. PICK T : s \in Seq(T) /\ x \in T
  <2>1. s \in Seq(Items(s))
    BY SeqFacts
  <2>2. s \in Seq(Items(s) \union {x})
    BY <2>1
  <2> QED
    BY <2>2
<1>2. Append(s, x) \in Seq(T) /\ Len(Append(s, x)) = Len(s) + 1 /\ Append(s, x)[Len(s) + 1] = x
      /\ \A k \in 1..Len(s) : Append(s, x)[k] = s[k]
  BY <1>1
<1> QED
  BY <1>2, SeqIsSeq

ComesFrom(t, u, f) ==
    /\ IsSeq(u) /\ \A k \in 1..Len(u) : IsRootNode(u[k])
    /\ \A k \in 1..Len(u) : Holds(u[k]) => f[k] \in 1..Len(t) /\ Holds(t[f[k]]) /\ u[k].at.block = t[f[k]].at.block
    /\ \A k, l \in 1..Len(u) : k < l /\ Holds(u[k]) /\ Holds(u[l]) => f[k] < f[l]

LEMMA TreeFrom ==
    ASSUME NEW d, NEW t, IsTree(d, t), NEW u, NEW f, ComesFrom(t, u, f)
    PROVE  IsTree(d, u)
<1>1. \A k \in 1..Len(u) : Holds(u[k]) => u[k].at.block \in SectionsIn(d)
  BY DEF IsTree, ComesFrom
<1>2. InSectionOrder(u)
  BY DEF IsTree, InSectionOrder, ComesFrom
<1> QED
  BY <1>1, <1>2 DEF IsTree, ComesFrom

LEMMA TreeMapped ==
    ASSUME NEW d, NEW t, IsTree(d, t), NEW u, IsSeq(u), Len(u) = Len(t),
           \A k \in 1..Len(u) : IsRootNode(u[k]),
           \A k \in 1..Len(u) : Holds(u[k]) => Holds(t[k]) /\ u[k].at.block = t[k].at.block
    PROVE  IsTree(d, u)
<1>1. PICK f : f = [k \in 1..Len(u) |-> k]
  OBVIOUS
<1>2. \A k \in 1..Len(u) : f[k] = k
  BY <1>1
<1>3. \A k \in 1..Len(u) : Holds(u[k]) => f[k] \in 1..Len(t) /\ Holds(t[f[k]]) /\ u[k].at.block = t[f[k]].at.block
  BY <1>2
<1>4. \A k, l \in 1..Len(u) : k < l /\ Holds(u[k]) /\ Holds(u[l]) => f[k] < f[l]
  BY <1>2
<1>5. ComesFrom(t, u, f)
  BY <1>3, <1>4 DEF ComesFrom
<1> QED
  BY <1>5, TreeFrom

LEMMA MaxFacts ==
    ASSUME NEW n \in Nat, NEW S \in SUBSET (1..n), S # {}
    PROVE  Max(S) \in S /\ \A y \in S : y <= Max(S)
<1> DEFINE U == {b \in 0..n : \A y \in S : y <= b}
<1>1. n \in U /\ U \in SUBSET Nat
  OBVIOUS
<1>2. \A b \in U : b \in 0..n /\ \A y \in S : y <= b
  OBVIOUS
<1>3. \A b \in 0..n : (\A y \in S : y <= b) => b \in U
  OBVIOUS
<1> HIDE DEF U
<1>4. PICK m : m \in U /\ \A b \in U : m <= b
  BY <1>1, MinFacts
<1>5. m \in S
  <2> SUFFICES ASSUME m \notin S
               PROVE  FALSE
    OBVIOUS
  <2>1. \A y \in S : y < m
    BY <1>2, <1>4
  <2>2. PICK y \in S : y < m
    BY <2>1
  <2>3. m - 1 \in 0..n
    BY <1>2, <1>4, <2>2
  <2>4. \A x \in S : x <= m - 1
    BY <1>2, <1>4, <2>1
  <2>5. m - 1 \in U
    BY <1>3, <2>3, <2>4
  <2> QED
    BY <1>2, <1>4, <2>5
<1>6. \E x \in S : \A y \in S : y <= x
  BY <1>2, <1>4, <1>5
<1> QED
  BY <1>6 DEF Max

\* A problem that takes the place of a section's node stands for the section.
LEMMA ProblemStands ==
    ASSUME NEW d \in Documents, NEW i \in SectionsIn(d), NEW n, Stands(d, i, n),
           NEW m, IsProblem(m), m.at.block = n.at.block
    PROVE  Stands(d, i, m)
<1>1. i \in 1..Len(d) /\ Len(d) \in Nat
  BY DocumentType DEF SectionsIn
<1>2. i \in 0..Len(d)
  BY <1>1
<1>3. i \in i..EndIn(d, i)
  BY <1>2, EndInFacts
<1>4. n.at.block \in i..EndIn(d, i)
  BY <1>3 DEF Stands, InLines
<1> QED
  BY <1>4 DEF Stands, InLines

LEMMA StandingFrom ==
    ASSUME NEW d, NEW t, Standing(d, t), NEW u,
           \A i \in SectionsIn(d) : \A k \in 1..Len(t) : Stands(d, i, t[k]) => \E l \in 1..Len(u) : Stands(d, i, u[l])
    PROVE  Standing(d, u)
BY DEF Standing

-----------------------------------------------------------------------------
(* The third pass.                                                          *)
LEMMA DescriptionTree ==
    ASSUME NEW d \in Documents, NEW t, Cut(d, t), NEW u, NEW D,
           IsNode(D), D.type = "description", D.children = <<>>, D.nested = <<>>,
           NEW s, IsSeq(s), Len(s) = Len(t), u = Append(s, D),
           \A k \in 1..Len(t) : \/ s[k] = t[k]
                                \/ /\ t[k].type \notin {"name", "property", "problem"}
                                   /\ \E message : s[k] = AsProblem(t[k], message)
    PROVE  Cut(d, u) /\ Keeps(t, u)
<1>1. PICK n \in Nat : n = Len(t)
  BY SeqFacts DEF Cut, IsTree
<1>2. IsSeq(u) /\ Len(u) = n + 1 /\ u[n + 1] = D /\ \A k \in 1..n : u[k] = s[k]
  BY <1>1, AppendSeq
<1>3. \A k \in 1..n + 1 : k \in 1..n \/ k = n + 1
  OBVIOUS
<1>4. \A k \in 1..n : \/ s[k] = t[k]
                      \/ /\ IsRootNode(s[k]) /\ s[k].nested = <<>> /\ ~IsProperty(s[k])
                         /\ ~IsProperty(t[k]) /\ ~IsProblem(t[k])
  <2> SUFFICES ASSUME NEW k \in 1..n, NEW message, t[k].type \notin {"name", "property", "problem"},
                      s[k] = AsProblem(t[k], message)
               PROVE  /\ IsRootNode(s[k]) /\ s[k].nested = <<>> /\ ~IsProperty(s[k])
                      /\ ~IsProperty(t[k]) /\ ~IsProblem(t[k])
    BY <1>1
  <2>1. IsRootNode(t[k]) /\ t[k].nested = <<>>
    BY <1>1 DEF Cut, IsTree
  <2>2. /\ IsNode(s[k]) /\ ~IsProperty(s[k]) /\ s[k].children = t[k].children /\ s[k].nested = t[k].nested
    BY <2>1, ProblemNode DEF IsRootNode
  <2> QED
    BY <2>1, <2>2, TypesDiffer DEF IsRootNode
<1>5. IsRootNode(D) /\ ~IsProperty(D)
  <2>1. <<>> \in Seq({}) /\ Len(<<>>) = 0
    BY EmptySeq
  <2>2. IsSeq(<<>>)
    BY <2>1, SeqIsSeq
  <2> QED
    BY <2>1, <2>2, TypesDiffer DEF IsRootNode
<1>6. \A k \in 1..n : IsRootNode(t[k]) /\ t[k].nested = <<>> /\ IsCut(d, t[k])
  BY <1>1 DEF Cut, IsTree
<1>7. \A k \in 1..n + 1 : IsRootNode(u[k]) /\ u[k].nested = <<>> /\ IsCut(d, u[k])
  BY <1>2, <1>3, <1>4, <1>5, <1>6 DEF IsCut
<1>8. IsTree(d, u)
  <2>1. PICK f : f = [k \in 1..n + 1 |-> k]
    OBVIOUS
  <2>2. \A k \in 1..n + 1 : f[k] = k
    BY <2>1
  <2>3. \A k \in 1..n + 1 : Holds(u[k]) => k \in 1..n /\ u[k] = t[k]
    BY <1>2, <1>3, <1>4, <1>5, <1>7 DEF Holds
  <2>4. \A k \in 1..Len(u) : Holds(u[k]) => f[k] \in 1..Len(t) /\ Holds(t[f[k]]) /\ u[k].at.block = t[f[k]].at.block
    BY <1>1, <1>2, <2>2, <2>3
  <2>5. \A k, l \in 1..Len(u) : k < l /\ Holds(u[k]) /\ Holds(u[l]) => f[k] < f[l]
    BY <1>2, <2>2
  <2>6. \A k \in 1..Len(u) : IsRootNode(u[k])
    BY <1>2, <1>7
  <2>7. IsTree(d, t)
    BY DEF Cut
  <2>8. ComesFrom(t, u, f)
    BY <1>2, <2>4, <2>5, <2>6 DEF ComesFrom
  <2> QED
    BY <2>7, <2>8, TreeFrom
<1>9. \A k \in 1..n : IsProperty(t[k]) \/ IsProblem(t[k]) => u[k] = t[k] /\ k \in 1..Len(u)
  BY <1>2, <1>4
<1>10. Standing(d, u)
  <2>1. Standing(d, t)
    BY DEF Cut
  <2>2. \A i \in SectionsIn(d) : \A k \in 1..Len(t) : Stands(d, i, t[k]) => \E l \in 1..Len(u) : Stands(d, i, u[l])
    BY <1>1, <1>9 DEF Stands
  <2> QED
    BY <2>1, <2>2, StandingFrom
<1>11. Keeps(t, u)
  BY <1>1, <1>9 DEF Keeps
<1>12. Cut(d, u)
  BY <1>2, <1>7, <1>8, <1>10 DEF Cut
<1> QED
  BY <1>11, <1>12

LEMMA DescriptionStep ==
    ASSUME ParseInv, CreateDescriptionNode
    PROVE  Cut(document, tree') /\ Keeps(tree, tree')
<1>1. pass = 3 /\ document \in Documents /\ Cut(document, tree)
  BY PassIs DEF ParseInv, CreateDescriptionNode
<1> DEFINE blocks == {i \in DOMAIN tree : tree[i].type \notin {"name", "property", "problem"}}
           extra == Cardinality(blocks) > 1
           Kept(i) == IF extra /\ i = Max(blocks) THEN AsProblem(tree[i], "several paragraphs") ELSE tree[i]
           words == Flatten(<<tree[Min(blocks)]>>)
           description == WithValue(Node("description", <<>>, <<>>, Nowhere), <<"document", words>>)
<1>2. tree' = IF blocks = {} THEN tree ELSE Append([i \in DOMAIN tree |-> Kept(i)], description)
  BY DEF CreateDescriptionNode
<1>3. CASE blocks = {}
  BY <1>1, <1>2, <1>3 DEF Keeps
<1>4. CASE blocks # {}
  <2>1. IsSeq(tree) /\ DOMAIN tree = 1..Len(tree) /\ Len(tree) \in Nat
    BY <1>1, SeqFacts DEF Cut, IsTree
  <2>2. PICK s : s = [i \in 1..Len(tree) |-> Kept(i)]
    OBVIOUS
  <2>3. IsSeq(s) /\ Len(s) = Len(tree) /\ \A k \in 1..Len(tree) : s[k] = Kept(k)
    <3> HIDE DEF Kept
    <3>1. s = [i \in 1..Len(tree) |-> s[i]]
      BY <2>2
    <3> QED
      BY <2>1, <2>2, <3>1, FunctionIsSeq
  <2>4. PICK w : w = words
    OBVIOUS
  <2>5. PICK D : D = WithValue(Node("description", <<>>, <<>>, Nowhere), <<"document", w>>)
    OBVIOUS
  <2>6. IsNode(D) /\ D.type = "description" /\ D.children = <<>> /\ D.nested = <<>>
    <3>1. PICK q : q = Node("description", <<>>, <<>>, Nowhere)
      OBVIOUS
    <3>2. PICK v : v = <<"document", w>>
      OBVIOUS
    <3>3. IsNode(q) /\ q.type = "description"
      BY <3>1, NewNode
    <3> QED
      BY <2>5, <3>1, <3>2, <3>3, ValuedNode
  <2>7. tree' = Append(s, D)
    BY <1>2, <1>4, <2>1, <2>2, <2>4, <2>5
  <2>8. \A k \in 1..Len(tree) : \/ s[k] = tree[k]
                                \/ /\ tree[k].type \notin {"name", "property", "problem"}
                                   /\ \E message : s[k] = AsProblem(tree[k], message)
    <3> SUFFICES ASSUME NEW k \in 1..Len(tree), s[k] # tree[k]
                 PROVE  /\ tree[k].type \notin {"name", "property", "problem"}
                        /\ \E message : s[k] = AsProblem(tree[k], message)
      OBVIOUS
    <3>1. s[k] = Kept(k)
      BY <2>3
    <3>2. k = Max(blocks) /\ s[k] = AsProblem(tree[k], "several paragraphs") /\ extra
      <4> HIDE DEF extra, blocks
      <4> QED
        BY <3>1
    <3>3. k \in blocks
      <4>1. Max(blocks) \in blocks
        <5>1. blocks \in SUBSET (1..Len(tree))
          BY <2>1
        <5> HIDE DEF blocks
        <5> QED
          BY <1>4, <2>1, <5>1, MaxFacts
      <4> QED
        BY <3>2, <4>1
    <3>4. tree[k].type \notin {"name", "property", "problem"}
      BY <3>3
    <3> QED
      BY <3>2, <3>4
  <2> HIDE DEF blocks, extra, Kept, words, description
  <2> QED
    BY <1>1, <2>3, <2>6, <2>7, <2>8, DescriptionTree
<1> QED
  BY <1>3, <1>4

-----------------------------------------------------------------------------
(* Names.                                                                   *)
LEMMA ResolveFacts ==
    ASSUME NEW heading, NEW properties, IsSeq(properties)
    PROVE  /\ \/ Resolve(heading, properties) = 0
              \/ /\ Resolve(heading, properties) \in 1..Len(properties)
                 /\ heading \in {properties[Resolve(heading, properties)].key, properties[Resolve(heading, properties)].label}
           /\ \A i \in 1..Len(properties) :
                  heading \in {properties[i].key, properties[i].label} => Resolve(heading, properties) # 0
<1> DEFINE I == {i \in 1..Len(properties) : heading \in {properties[i].key, properties[i].label}}
<1>1. Resolve(heading, properties) = IF I # {} THEN Min(I) ELSE 0
  BY DEF Resolve, SelectInSeq
<1>2. I \in SUBSET Nat /\ Len(properties) \in Nat
  BY DEF IsSeq
<1>3. \A i \in I : /\ i \in 1..Len(properties) /\ heading \in {properties[i].key, properties[i].label} /\ i # 0
  OBVIOUS
<1>4. \A i \in 1..Len(properties) : heading \in {properties[i].key, properties[i].label} => i \in I
  OBVIOUS
<1> HIDE DEF I
<1>5. CASE I = {}
  BY <1>1, <1>4, <1>5
<1>6. CASE I # {}
  <2>1. PICK m : m = Min(I)
    OBVIOUS
  <2>2. m \in I
    BY <1>2, <1>6, <2>1, MinFacts
  <2>3. Resolve(heading, properties) = m
    BY <1>1, <1>6, <2>1
  <2> QED
    BY <1>3, <2>2, <2>3
<1> QED
  BY <1>5, <1>6

LEMMA PropertiesAre ==
    /\ IsSeq(Properties) /\ DOMAIN Properties = 1..Len(Properties) /\ Len(Properties) \in Nat
    /\ \A k \in 1..Len(Properties) : Properties[k] \in Described(Seq(Described({<<>>})))
    /\ \A k \in 1..Len(Properties) : IsSeq(Properties[k].properties)
    /\ \A k, l \in 1..Len(Properties) : Properties[k].key = Properties[l].key => k = l
<1>1. PICK T : T = Described(Seq(Described({<<>>})))
  OBVIOUS
<1>2. Properties \in Seq(T)
  BY <1>1, PropertiesAssumption
<1>3. /\ DOMAIN Properties = 1..Len(Properties) /\ Len(Properties) \in Nat
      /\ \A k \in 1..Len(Properties) : Properties[k] \in T
  BY <1>2
<1>4. IsSeq(Properties)
  BY <1>2, SeqIsSeq
<1>5. \A p \in T : IsSeq(p.properties)
  <2>1. \A p \in T : p.properties \in Seq(Described({<<>>}))
    BY <1>1 DEF Described
  <2> QED
    BY <2>1, SeqIsSeq
<1>6. \A k, l \in DOMAIN Properties : Properties[k].key = Properties[l].key => k = l
  BY PropertiesAssumption
<1> QED
  BY <1>1, <1>3, <1>4, <1>5, <1>6

LEMMA NamedNode ==
    ASSUME NEW n, IsNode(n), NEW property
    PROVE  LET p == AsPropertyOf(n, property)
           IN /\ IsNode(p) /\ p.type = n.type /\ p.key = property.key /\ p.propertyType = property.type
              /\ p.hasMany = property.hasMany /\ p.at = n.at /\ p.children = n.children /\ p.nested = n.nested
              /\ p.value = n.value
<1>1. PICK y, w, i, a, k, t, h, c, d, v, m :
          /\ n = Fields(y, w, i, a, k, t, h, c, d, v, m)
          /\ y = n.type /\ a = n.at /\ c = n.children /\ d = n.nested /\ v = n.value
  BY NodeIsFields DEF FieldsOf
<1>2. PICK e, f, g : e = property.key /\ f = property.type /\ g = property.hasMany
  OBVIOUS
<1>3. PICK q : q = [n EXCEPT !.key = e]
  OBVIOUS
<1>4. q = Fields(y, w, i, a, e, t, h, c, d, v, m)
  BY <1>1, <1>3 DEF Fields
<1>5. PICK r : r = [q EXCEPT !.propertyType = f]
  OBVIOUS
<1>6. r = Fields(y, w, i, a, e, f, h, c, d, v, m)
  BY <1>4, <1>5 DEF Fields
<1>7. PICK p : p = [r EXCEPT !.hasMany = g]
  OBVIOUS
<1>8. p = Fields(y, w, i, a, e, f, g, c, d, v, m)
  BY <1>6, <1>7 DEF Fields
<1>9. p = AsPropertyOf(n, property)
  BY <1>2, <1>3, <1>5, <1>7 DEF AsPropertyOf
<1>10. IsNode(p) /\ p.type = y /\ p.key = e /\ p.propertyType = f /\ p.hasMany = g /\ p.at = a /\ p.children = c
       /\ p.nested = d /\ p.value = v
  BY <1>8, FieldsAre
<1> QED
  BY <1>1, <1>2, <1>9, <1>10

\* A node of a property gets the name of a property of the type, or is a problem.
IsNamed(n, m, properties) ==
    \/ ~IsProperty(n) /\ m = n
    \/ IsProperty(n) /\ \E message : m = AsProblem(n, message)
    \/ /\ IsProperty(n) /\ Resolve(n.key, properties) # 0
       /\ m = AsPropertyOf(n, properties[Resolve(n.key, properties)])

LEMMA WithNamesFacts ==
    ASSUME NEW nodes, IsSeq(nodes), NEW properties
    PROVE  LET u == WithNames(nodes, properties)
           IN /\ IsSeq(u) /\ Len(u) = Len(nodes)
              /\ \A k \in 1..Len(nodes) : IsNamed(nodes[k], u[k], properties)
<1> DEFINE again(i) == \E j \in 1..i - 1 : IsProperty(nodes[j]) /\ Resolve(nodes[j].key, properties) = Resolve(nodes[i].key, properties)
           Named(i) ==
               LET found == Resolve(nodes[i].key, properties)
               IN CASE found = 0 -> AsProblem(nodes[i], "unresolved name")
                    [] found # 0 /\ again(i) -> AsProblem(nodes[i], "duplicate heading")
                    [] OTHER -> AsPropertyOf(nodes[i], properties[found])
<1>1. DOMAIN nodes = 1..Len(nodes) /\ Len(nodes) \in Nat
  BY SeqFacts
<1>2. PICK u : u = WithNames(nodes, properties)
  OBVIOUS
<1>3. u = [i \in 1..Len(nodes) |-> IF IsProperty(nodes[i]) THEN Named(i) ELSE nodes[i]]
  BY <1>1, <1>2 DEF WithNames
<1>4. \A i : \/ \E message : Named(i) = AsProblem(nodes[i], message)
             \/ /\ Resolve(nodes[i].key, properties) # 0
                /\ Named(i) = AsPropertyOf(nodes[i], properties[Resolve(nodes[i].key, properties)])
  <2> TAKE i
  <2> HIDE DEF again
  <2>1. CASE Resolve(nodes[i].key, properties) = 0
    BY <2>1
  <2>2. CASE Resolve(nodes[i].key, properties) # 0 /\ again(i)
    BY <2>2
  <2>3. CASE Resolve(nodes[i].key, properties) # 0 /\ ~again(i)
    BY <2>3
  <2> QED
    BY <2>1, <2>2, <2>3
<1> HIDE DEF Named
<1>5. u = [i \in 1..Len(nodes) |-> u[i]] /\ \A i \in 1..Len(nodes) : u[i] = IF IsProperty(nodes[i]) THEN Named(i) ELSE nodes[i]
  BY <1>3
<1>6. IsSeq(u) /\ Len(u) = Len(nodes)
  BY <1>1, <1>5, FunctionIsSeq
<1>7. \A k \in 1..Len(nodes) : IsNamed(nodes[k], u[k], properties)
  BY <1>4, <1>5 DEF IsNamed
<1> QED
  BY <1>2, <1>6, <1>7

-----------------------------------------------------------------------------
(* The fourth pass.                                                         *)
LEMMA NamesStep ==
    ASSUME ParseInv, SetPropertyNames
    PROVE  Resolved(document, tree') /\ Keeps(tree, tree')
<1>1. pass = 4 /\ document \in Documents /\ Cut(document, tree)
  BY PassIs DEF ParseInv, SetPropertyNames
<1>2. PICK d \in Documents, t \in {tree}, u \in {tree'} : d = document /\ t = tree /\ u = tree'
  BY <1>1
<1>3. Cut(d, t) /\ u = WithNames(t, Properties)
  BY <1>1, <1>2 DEF SetPropertyNames
<1>4. IsSeq(t) /\ IsTree(d, t) /\ Standing(d, t)
  BY <1>3 DEF Cut, IsTree
<1>5. IsSeq(u) /\ Len(u) = Len(t) /\ \A k \in 1..Len(t) : IsNamed(t[k], u[k], Properties)
  BY <1>3, <1>4, WithNamesFacts
<1>6. \A k \in 1..Len(t) : /\ IsRootNode(u[k]) /\ u[k].nested = <<>> /\ u[k].at = t[k].at
                           /\ ~IsProperty(t[k]) => u[k] = t[k]
                           /\ IsProperty(t[k]) => \/ IsProblem(u[k])
                                                  \/ IsProperty(u[k]) /\ IsResolved(d, u[k]) /\ HasContent(d, u[k].at.block, u[k].children)
  <2> SUFFICES ASSUME NEW k \in 1..Len(t)
               PROVE  /\ IsRootNode(u[k]) /\ u[k].nested = <<>> /\ u[k].at = t[k].at
                      /\ ~IsProperty(t[k]) => u[k] = t[k]
                      /\ IsProperty(t[k]) => \/ IsProblem(u[k])
                                             \/ IsProperty(u[k]) /\ IsResolved(d, u[k]) /\ HasContent(d, u[k].at.block, u[k].children)
    OBVIOUS
  <2>1. PICK n, m : n = t[k] /\ m = u[k]
    OBVIOUS
  <2>2. IsRootNode(n) /\ IsNode(n) /\ n.nested = <<>> /\ IsCut(d, n) /\ IsNamed(n, m, Properties)
    BY <1>3, <1>5, <2>1 DEF Cut, IsTree, IsRootNode
  <2>3. CASE ~IsProperty(n) /\ m = n
    BY <2>1, <2>2, <2>3
  <2>4. CASE IsProperty(n) /\ \E message : m = AsProblem(n, message)
    <3>1. IsNode(m) /\ IsProblem(m) /\ m.at = n.at /\ m.children = n.children /\ m.nested = n.nested
      BY <2>2, <2>4, ProblemNode
    <3>2. IsRootNode(m)
      BY <2>2, <3>1 DEF IsRootNode
    <3> QED
      BY <2>1, <2>2, <2>4, <3>1, <3>2
  <2>5. CASE /\ IsProperty(n) /\ Resolve(n.key, Properties) # 0
             /\ m = AsPropertyOf(n, Properties[Resolve(n.key, Properties)])
    <3>1. PICK i : i = n.at.block
      OBVIOUS
    <3>2. n.key = d[i].words[1] /\ n.at = Position(i, 0, 0) /\ HasContent(d, i, n.children)
      BY <2>2, <2>5, <3>1 DEF IsCut
    <3>3. PICK q : q = Properties[Resolve(n.key, Properties)]
      OBVIOUS
    <3>4. /\ IsNode(m) /\ m.type = n.type /\ m.key = q.key /\ m.propertyType = q.type
          /\ m.hasMany = q.hasMany /\ m.at = n.at /\ m.children = n.children /\ m.nested = n.nested
      BY <2>2, <2>5, <3>3, NamedNode
    <3>5. IsRootNode(m)
      BY <2>2, <3>4 DEF IsRootNode
    <3>6. IsResolved(d, m)
      BY <2>5, <3>1, <3>2, <3>3, <3>4 DEF IsResolved, FoundIn, KeyIn
    <3>7. HasContent(d, m.at.block, m.children)
      BY <3>1, <3>2, <3>4
    <3>8. IsProperty(m)
      BY <2>5, <3>4 DEF IsProperty
    <3> QED
      BY <2>1, <2>2, <2>5, <3>4, <3>5, <3>6, <3>7, <3>8
  <2> QED
    BY <2>2, <2>3, <2>4, <2>5 DEF IsNamed
<1>7. \A k \in 1..Len(t) : t[k].nested = <<>>
  BY <1>3 DEF Cut
<1>8. IsTree(d, u)
  <2>1. \A k \in 1..Len(u) : IsRootNode(u[k])
    BY <1>5, <1>6
  <2>2. \A k \in 1..Len(u) : Holds(u[k]) => Holds(t[k]) /\ u[k].at.block = t[k].at.block
    BY <1>5, <1>6 DEF Holds
  <2> QED
    BY <1>4, <1>5, <2>1, <2>2, TreeMapped
<1>9. Standing(d, u)
  <2>1. \A i \in SectionsIn(d) : \A k \in 1..Len(t) : Stands(d, i, t[k]) => Stands(d, i, u[k])
    <3> SUFFICES ASSUME NEW i \in SectionsIn(d), NEW k \in 1..Len(t), Stands(d, i, t[k])
                 PROVE  Stands(d, i, u[k])
      OBVIOUS
    <3>1. CASE IsProblem(u[k])
      BY <1>6, <3>1, ProblemStands
    <3>2. CASE ~IsProblem(u[k])
      BY <1>6, <3>2, TypesDiffer DEF Stands
    <3> QED
      BY <3>1, <3>2
  <2> QED
    BY <1>4, <1>5, <2>1, StandingFrom
<1>10. Keeps(t, u)
  BY <1>5, <1>6, TypesDiffer DEF Keeps
<1>11. \A k \in 1..Len(u) : /\ u[k].nested = <<>>
                            /\ IsProperty(u[k]) => IsResolved(d, u[k]) /\ HasContent(d, u[k].at.block, u[k].children)
  BY <1>5, <1>6, TypesDiffer
<1>12. Resolved(d, u)
  BY <1>8, <1>9, <1>11 DEF Resolved
<1> QED
  BY <1>2, <1>10, <1>12

-----------------------------------------------------------------------------
(* The lexer.                                                               *)
LexerOf(b, p, s, l, f) == [buffer |-> b, propName |-> p, properties |-> s, line |-> l, fault |-> f]
IsLexer(x) == \E b, p, s, l, f : x = LexerOf(b, p, s, l, f) /\ IsSeq(s)

LEMMA LexerFields ==
    ASSUME NEW b, NEW p, NEW s, NEW l, NEW f, NEW x, x = LexerOf(b, p, s, l, f), NEW v
    PROVE  /\ x.properties = s /\ x.line = l /\ x.buffer = b
           /\ [x EXCEPT !.buffer = v] = LexerOf(v, p, s, l, f)
           /\ [x EXCEPT !.propName = v] = LexerOf(b, v, s, l, f)
           /\ [x EXCEPT !.properties = v] = LexerOf(b, p, v, l, f)
           /\ [x EXCEPT !.line = v] = LexerOf(b, p, s, v, f)
           /\ [x EXCEPT !.fault = v] = LexerOf(b, p, s, l, v)
BY DEF LexerOf

LEMMA LexerFails ==
    ASSUME NEW x, IsLexer(x), NEW message
    PROVE  IsLexer(Fails(x, message))
<1>1. PICK b, p, s, l, f : x = LexerOf(b, p, s, l, f) /\ IsSeq(s)
  BY DEF IsLexer
<1>2. PICK v : v = [message |-> message, line |-> x.line]
  OBVIOUS
<1>3. [x EXCEPT !.fault = v] = LexerOf(b, p, s, l, v)
  BY <1>1 DEF LexerOf
<1>4. Fails(x, message) = [x EXCEPT !.fault = v]
  BY <1>2 DEF Fails
<1> QED
  BY <1>1, <1>3, <1>4 DEF IsLexer

LEMMA LexerNames ==
    ASSUME NEW x, IsLexer(x)
    PROVE  IsLexer(Names(x))
<1>1. PICK b, p, s, l, f : x = LexerOf(b, p, s, l, f) /\ IsSeq(s)
  BY DEF IsLexer
<1>2. PICK v, e : v = NameOf(Trim(x.buffer)) /\ e = <<>>
  OBVIOUS
<1>3. PICK y : y = [x EXCEPT !.propName = v]
  OBVIOUS
<1>4. y = LexerOf(b, v, s, l, f)
  BY <1>1, <1>3 DEF LexerOf
<1>5. PICK z : z = [y EXCEPT !.buffer = e]
  OBVIOUS
<1>6. z = LexerOf(e, v, s, l, f)
  BY <1>4, <1>5 DEF LexerOf
<1>7. IsLexer(z)
  BY <1>1, <1>6 DEF IsLexer
<1>8. Names(x) = z \/ \E message : Names(x) = Fails(x, message)
  BY <1>2, <1>3, <1>5 DEF Names
<1> QED
  BY <1>7, <1>8, LexerFails

LEMMA LexerEnds ==
    ASSUME NEW x, IsLexer(x), NEW message
    PROVE  IsLexer(Ends(x, message))
<1>1. PICK b, p, s, l, f : x = LexerOf(b, p, s, l, f) /\ IsSeq(s)
  BY DEF IsLexer
<1>2. PICK v, e, o, n : /\ v = Append(x.properties, Definition(x.propName, Trim(x.buffer), x.line))
                        /\ e = <<>> /\ o = "" /\ n = x.line + 1
  OBVIOUS
<1>3. x.properties = s
  BY <1>1 DEF LexerOf
<1>4. IsSeq(v)
  BY <1>1, <1>2, <1>3, AppendSeq
<1>5. PICK y : y = [x EXCEPT !.properties = v]
  OBVIOUS
<1>6. y = LexerOf(b, p, v, l, f)
  BY <1>1, <1>5 DEF LexerOf
<1>7. PICK z : z = [y EXCEPT !.buffer = e]
  OBVIOUS
<1>8. z = LexerOf(e, p, v, l, f)
  BY <1>6, <1>7 DEF LexerOf
<1>9. PICK q : q = [z EXCEPT !.propName = o]
  OBVIOUS
<1>10. q = LexerOf(e, o, v, l, f)
  BY <1>8, <1>9 DEF LexerOf
<1>11. PICK r : r = [q EXCEPT !.line = n]
  OBVIOUS
<1>12. r = LexerOf(e, o, v, n, f)
  BY <1>10, <1>11 DEF LexerOf
<1>13. q.line = x.line
  BY <1>1, <1>10 DEF LexerOf
<1>14. [q EXCEPT !.line = @ + 1] = r
  BY <1>2, <1>11, <1>13
<1>15. [x EXCEPT !.properties = Append(@, Definition(x.propName, Trim(x.buffer), x.line))] = y
  BY <1>2, <1>5
<1>16. IsLexer(r)
  BY <1>4, <1>12 DEF IsLexer
<1>17. Ends(x, message) = r \/ \E m : Ends(x, message) = Fails(x, m)
  BY <1>2, <1>7, <1>9, <1>14, <1>15 DEF Ends
<1> QED
  BY <1>16, <1>17, LexerFails

LEMMA LexerReads ==
    ASSUME NEW x, IsLexer(x), NEW char
    PROVE  IsLexer(Reads(x, char))
<1>1. PICK b, p, s, l, f : x = LexerOf(b, p, s, l, f) /\ IsSeq(s)
  BY DEF IsLexer
<1>2. PICK v : v = Append(x.buffer, char)
  OBVIOUS
<1>3. PICK y : y = [x EXCEPT !.buffer = v]
  OBVIOUS
<1>4. y = LexerOf(v, p, s, l, f)
  BY <1>1, <1>3 DEF LexerOf
<1>5. IsLexer(y)
  BY <1>1, <1>4 DEF IsLexer
<1>6. y = [x EXCEPT !.buffer = Append(@, char)]
  BY <1>2, <1>3
<1>7. PICK r : r = Reads(x, char)
  OBVIOUS
<1>8. r \in {x, Names(x), Ends(x, "unexpected linefeed"), y}
  <2>1. CASE x.fault # NoFault
    BY <1>7, <2>1 DEF Reads
  <2>2. CASE x.fault = NoFault
    <3>1. r = CASE char = Tab /\ x.buffer = <<>> -> x
                [] char = PropertyNameSeparator -> Names(x)
                [] char = LineFeed -> Ends(x, "unexpected linefeed")
                [] char = CarriageReturn -> x
                [] OTHER -> y
      BY <1>6, <1>7, <2>2 DEF Reads
    <3>2. Tab # PropertyNameSeparator /\ Tab # LineFeed /\ Tab # CarriageReturn /\ PropertyNameSeparator # LineFeed
          /\ PropertyNameSeparator # CarriageReturn /\ LineFeed # CarriageReturn
      BY DEF Tab, PropertyNameSeparator, LineFeed, CarriageReturn
    <3>3. CASE char = Tab /\ x.buffer = <<>>
      BY <3>1, <3>2, <3>3
    <3>4. CASE char = PropertyNameSeparator
      BY <3>1, <3>2, <3>4
    <3>5. CASE char = LineFeed
      BY <3>1, <3>2, <3>5
    <3>6. CASE char = CarriageReturn
      BY <3>1, <3>2, <3>6
    <3>7. CASE ~ (char = Tab /\ x.buffer = <<>>) /\ char # PropertyNameSeparator /\ char # LineFeed /\ char # CarriageReturn
      BY <3>1, <3>7
    <3> QED
      BY <3>3, <3>4, <3>5, <3>6, <3>7
  <2> QED
    BY <2>1, <2>2
<1>9. IsLexer(Names(x)) /\ IsLexer(Ends(x, "unexpected linefeed"))
  BY LexerNames, LexerEnds
<1> QED
  BY <1>5, <1>7, <1>8, <1>9

LEMMA LexerRemains ==
    ASSUME NEW x, IsLexer(x)
    PROVE  IsLexer(Remains(x))
<1>1. Remains(x) = x \/ \E message : Remains(x) = Ends(x, message)
  BY DEF Remains
<1> QED
  BY <1>1, LexerEnds

\* f has the lexer behind each of the first n characters.
ReadOf(text, line, f, i) == IF i = 0 THEN Lexer(line) ELSE Reads(f[i - 1], text[i])
ReadsTo(text, line, n, f) == f = [i \in 0..n |-> ReadOf(text, line, f, i)]

LEMMA ReadsAre ==
    ASSUME NEW text, NEW line, NEW n, NEW f, ReadsTo(text, line, n, f)
    PROVE  DOMAIN f = 0..n /\ \A i \in 0..n : f[i] = ReadOf(text, line, f, i)
<1>1. PICK h : h = [i \in 0..n |-> ReadOf(text, line, f, i)]
  OBVIOUS
<1>2. f = h
  BY <1>1 DEF ReadsTo
<1>3. DOMAIN h = 0..n /\ \A i \in 0..n : h[i] = ReadOf(text, line, f, i)
  BY <1>1
<1> QED
  BY <1>2, <1>3

LEMMA ReadIs ==
    ASSUME NEW text, NEW line, NEW f, NEW i
    PROVE  /\ i = 0 => ReadOf(text, line, f, i) = Lexer(line)
           /\ i # 0 => ReadOf(text, line, f, i) = Reads(f[i - 1], text[i])
BY DEF ReadOf

LEMMA ReadExists ==
    ASSUME NEW text, NEW line, NEW n \in Nat
    PROVE  \E f : ReadsTo(text, line, n, f)
<1> DEFINE S == {m \in Nat : \E f : ReadsTo(text, line, m, f)}
<1>1. 0 \in S
  <2>1. PICK f : f = [i \in 0..0 |-> Lexer(line)]
    OBVIOUS
  <2>2. \A i \in 0..0 : ReadOf(text, line, f, i) = Lexer(line)
    BY ReadIs
  <2>3. f = [i \in 0..0 |-> ReadOf(text, line, f, i)]
    BY <2>1, <2>2
  <2>4. ReadsTo(text, line, 0, f)
    BY <2>3 DEF ReadsTo
  <2> QED
    BY <2>4
<1>2. \A m \in Nat : m \in S => m + 1 \in S
  <2> SUFFICES ASSUME NEW m \in Nat, NEW f, ReadsTo(text, line, m, f)
               PROVE  \E h : ReadsTo(text, line, m + 1, h)
    OBVIOUS
  <2> DEFINE h == [i \in 0..m + 1 |-> ReadOf(text, line, f, i)]
  <2>1. \A i \in 0..m : f[i] = h[i]
    BY ReadsAre
  <2>2. \A i \in 0..m + 1 : ReadOf(text, line, h, i) = ReadOf(text, line, f, i)
    <3> SUFFICES ASSUME NEW i \in 0..m + 1
                 PROVE  ReadOf(text, line, h, i) = ReadOf(text, line, f, i)
      OBVIOUS
    <3>1. i # 0 => i - 1 \in 0..m
      OBVIOUS
    <3>2. i # 0 => f[i - 1] = h[i - 1]
      BY <2>1, <3>1
    <3> HIDE DEF h
    <3>3. CASE i = 0
      BY <3>3, ReadIs
    <3>4. CASE i # 0
      <4>1. ReadOf(text, line, h, i) = Reads(h[i - 1], text[i])
        BY <3>4, ReadIs
      <4>2. ReadOf(text, line, f, i) = Reads(f[i - 1], text[i])
        BY <3>4, ReadIs
      <4> QED
        BY <3>2, <3>4, <4>1, <4>2
    <3> QED
      BY <3>3, <3>4
  <2>3. h = [i \in 0..m + 1 |-> ReadOf(text, line, h, i)]
    BY <2>2
  <2> QED
    BY <2>3 DEF ReadsTo
<1>3. Nat \subseteq S
  <2> HIDE DEF S
  <2> QED
    BY <1>1, <1>2, Induct
<1> QED
  BY <1>3

LEMMA ReadsAreLexers ==
    ASSUME NEW text, NEW line, NEW n \in Nat, NEW f, ReadsTo(text, line, n, f)
    PROVE  IsLexer(f[n])
<1> DEFINE S == {m \in Nat : m <= n => IsLexer(f[m])}
<1>1. 0 \in S
  <2>1. f[0] = Lexer(line)
    BY ReadsAre, ReadIs
  <2>2. Lexer(line) = LexerOf(<<>>, "", <<>>, line, NoFault)
    BY DEF Lexer, LexerOf
  <2>3. IsSeq(<<>>)
    <3>1. <<>> \in Seq({})
      BY EmptySeq
    <3> QED
      BY <3>1, SeqIsSeq
  <2>4. PICK e, q, g : e = <<>> /\ q = "" /\ g = NoFault
    OBVIOUS
  <2>5. f[0] = LexerOf(e, q, e, line, g) /\ IsSeq(e)
    BY <2>1, <2>2, <2>3, <2>4
  <2> QED
    BY <2>5 DEF IsLexer
<1>2. \A m \in Nat : m \in S => m + 1 \in S
  <2> SUFFICES ASSUME NEW m \in Nat, IsLexer(f[m]), m + 1 <= n
               PROVE  IsLexer(f[m + 1])
    OBVIOUS
  <2>1. m + 1 \in 0..n /\ m + 1 # 0 /\ (m + 1) - 1 = m
    OBVIOUS
  <2>2. f[m + 1] = Reads(f[m], text[m + 1])
    BY <2>1, ReadsAre, ReadIs
  <2> QED
    BY <2>2, LexerReads
<1>3. n \in S
  <2> HIDE DEF S
  <2> QED
    BY <1>1, <1>2, Induct
<1> QED
  BY <1>3

\* What the lexer has found of a text is a sequence.
LEMMA ParseIsLexer ==
    ASSUME NEW text, NEW line, Len(text) \in Nat
    PROVE  IsLexer(ParsePropertyDefinition(text, line))
<1> DEFINE g == CHOOSE f : ReadsTo(text, line, Len(text), f)
<1>1. ReadsTo(text, line, Len(text), g)
  BY ReadExists
<1>2. ParsePropertyDefinition(text, line) = Remains(g[Len(text)])
  BY DEF ParsePropertyDefinition, ReadsTo, ReadOf
<1> HIDE DEF g
<1>3. IsLexer(g[Len(text)])
  BY <1>1, ReadsAreLexers
<1> QED
  BY <1>2, <1>3, LexerRemains

LEMMA PropertiesParsed ==
    ASSUME NEW blocks, IsSeq(blocks), \A k \in 1..Len(blocks) : IsSeq(blocks[k].words), NEW line
    PROVE  /\ IsSeq(ParseMultilineDefinition(blocks, line).properties)
           /\ blocks = <<>> \/ (Len(blocks) = 1 /\ blocks[1].words = <<>>)
              => /\ ParseMultilineDefinition(blocks, line).properties = <<>>
                 /\ ParseMultilineDefinition(blocks, line).fault = NoFault
<1>1. CASE blocks = <<>> \/ (Len(blocks) = 1 /\ blocks[1].words = <<>>)
  <2>1. ParseMultilineDefinition(blocks, line) = [properties |-> <<>>, fault |-> NoFault]
    BY <1>1 DEF ParseMultilineDefinition
  <2>2. IsSeq(<<>>)
    <3>1. <<>> \in Seq({})
      BY EmptySeq
    <3> QED
      BY <3>1, SeqIsSeq
  <2> QED
    BY <2>1, <2>2
<1>2. CASE ~ (blocks = <<>> \/ (Len(blocks) = 1 /\ blocks[1].words = <<>>))
  <2>1. PICK text : text = DefinitionText(blocks)
    OBVIOUS
  <2>2. IsSeq(text)
    <3>1. CASE Len(blocks) = 1
      BY <2>1, <3>1 DEF DefinitionText
    <3>2. CASE Len(blocks) # 1
      <4>1. PICK m : m = 2 * Len(blocks) - 1
        OBVIOUS
      <4>2. m \in Nat
        <5>1. PICK n \in Nat : n = Len(blocks)
          BY SeqFacts
        <5>2. n # 0
          <6>1. blocks \in Seq(Items(blocks))
            BY SeqFacts
          <6> QED
            BY <1>2, <5>1, <6>1, EmptyIs
        <5> QED
          BY <4>1, <5>1, <5>2
      <4>3. text = [k \in 1..m |-> IF k % 2 = 1 THEN "undefined" ELSE LineFeed]
        BY <2>1, <3>2, <4>1 DEF DefinitionText
      <4>4. text = [k \in 1..m |-> text[k]]
        BY <4>3
      <4> QED
        BY <4>2, <4>4, FunctionIsSeq
    <3> QED
      BY <3>1, <3>2
  <2>3. PICK parts : parts = DividePropertyDefinition(text)
    OBVIOUS
  <2>4. Len(parts.propDefs) \in Nat
    <3>1. PICK T : text \in Seq(T)
      BY <2>2, SeqFacts
    <3>2. PICK n \in Nat : n = Len(text) /\ DOMAIN text = 1..n
      BY <3>1
    <3> DEFINE breaks == {i \in DOMAIN text : text[i] = LineFeed}
               first == IF breaks = {} THEN Len(text) + 1 ELSE Min(breaks)
    <3>3. first \in Nat
      <4>1. breaks \in SUBSET Nat
        BY <3>2
      <4> HIDE DEF breaks
      <4>2. CASE breaks = {}
        BY <3>2, <4>2
      <4>3. CASE breaks # {}
        <5>1. Min(breaks) \in Nat
          BY <4>1, <4>3, MinFacts
        <5> QED
          BY <4>3, <5>1
      <4> QED
        BY <4>2, <4>3
    <3>4. parts.propDefs = SubSeq(text, first + 1, Len(text))
      BY <2>3 DEF DividePropertyDefinition
    <3> HIDE DEF first
    <3> QED
      BY <3>1, <3>2, <3>3, <3>4
  <2>5. PICK parsed : parsed = ParsePropertyDefinition(parts.propDefs, line + 1)
    OBVIOUS
  <2>6. IsLexer(parsed)
    BY <2>4, <2>5, ParseIsLexer
  <2>7. IsSeq(parsed.properties)
    <3>1. PICK b, p, s, l, f : parsed = LexerOf(b, p, s, l, f) /\ IsSeq(s)
      BY <2>6 DEF IsLexer
    <3>2. parsed.properties = s
      BY <3>1 DEF LexerOf
    <3> QED
      BY <3>1, <3>2
  <2>8. ParseMultilineDefinition(blocks, line).properties = <<Definition("code", parts.code, line)>> \o parsed.properties
    BY <1>2, <2>1, <2>3, <2>5 DEF ParseMultilineDefinition
  <2>9. PICK x : x = Definition("code", parts.code, line)
    OBVIOUS
  <2>10. IsSeq(<<x>>)
    <3>1. <<x>> \in Seq({x})
      OBVIOUS
    <3> QED
      BY <3>1, SeqIsSeq
  <2> QED
    BY <1>2, <2>7, <2>8, <2>9, <2>10, ConcatSeqs
<1> QED
  BY <1>1, <1>2

-----------------------------------------------------------------------------
(* The properties of a relationship.                                        *)
IsPosition(at) == \E block, item, line : at = Position(block, item, line)

LEMMA LineSet ==
    ASSUME NEW at, IsPosition(at), NEW line
    PROVE  [at EXCEPT !.line = line].block = at.block
<1>1. PICK b, i, l : at = Position(b, i, l)
  BY DEF IsPosition
<1>2. [at EXCEPT !.line = line] = Position(b, i, line)
  BY <1>1 DEF Position
<1> QED
  BY <1>1, <1>2, BlockOf

\* What a node among them is: properties says which names there are.
IsDetail(m, properties) ==
    /\ IsNode(m)
    /\ IsProperty(m) => m.value = Absent /\ (m.key = "code" \/ Resolve(m.key, properties) # 0)

LEMMA SetKey ==
    ASSUME NEW n, IsNode(n), NEW key, NEW m, m = [n EXCEPT !.key = key]
    PROVE  IsNode(m) /\ m.type = n.type /\ m.value = n.value /\ m.key = key /\ m.at = n.at
<1>1. PICK y, w, i, a, k, t, h, c, d, v, s :
          n = Fields(y, w, i, a, k, t, h, c, d, v, s) /\ y = n.type /\ v = n.value /\ a = n.at
  BY NodeIsFields DEF FieldsOf
<1>2. m = Fields(y, w, i, a, key, t, h, c, d, v, s)
  BY <1>1 DEF Fields
<1>3. PICK p : p = Fields(y, w, i, a, key, t, h, c, d, v, s)
  OBVIOUS
<1>4. IsNode(p) /\ p.type = y /\ p.value = v /\ p.key = key /\ p.at = a
  BY <1>3, FieldsAre
<1> QED
  BY <1>1, <1>2, <1>3, <1>4

LEMMA SetChildren ==
    ASSUME NEW n, IsNode(n), NEW children, NEW m, m = [n EXCEPT !.children = children]
    PROVE  IsNode(m) /\ m.type = n.type /\ m.value = n.value /\ m.key = n.key /\ m.at = n.at
<1>1. PICK y, w, i, a, k, t, h, c, d, v, s :
          n = Fields(y, w, i, a, k, t, h, c, d, v, s) /\ y = n.type /\ v = n.value /\ a = n.at /\ k = n.key
  BY NodeIsFields DEF FieldsOf
<1>2. m = Fields(y, w, i, a, k, t, h, children, d, v, s)
  BY <1>1 DEF Fields
<1>3. PICK p : p = Fields(y, w, i, a, k, t, h, children, d, v, s)
  OBVIOUS
<1>4. IsNode(p) /\ p.type = y /\ p.value = v /\ p.key = k /\ p.at = a
  BY <1>3, FieldsAre
<1> QED
  BY <1>1, <1>2, <1>3, <1>4

LEMMA SetPropertyType ==
    ASSUME NEW n, IsNode(n), NEW type, NEW m, m = [n EXCEPT !.propertyType = type]
    PROVE  IsNode(m) /\ m.type = n.type /\ m.value = n.value /\ m.key = n.key /\ m.at = n.at
<1>1. PICK y, w, i, a, k, t, h, c, d, v, s :
          n = Fields(y, w, i, a, k, t, h, c, d, v, s) /\ y = n.type /\ v = n.value /\ a = n.at /\ k = n.key
  BY NodeIsFields DEF FieldsOf
<1>2. m = Fields(y, w, i, a, k, type, h, c, d, v, s)
  BY <1>1 DEF Fields
<1>3. PICK p : p = Fields(y, w, i, a, k, type, h, c, d, v, s)
  OBVIOUS
<1>4. IsNode(p) /\ p.type = y /\ p.value = v /\ p.key = k /\ p.at = a
  BY <1>3, FieldsAre
<1> QED
  BY <1>1, <1>2, <1>3, <1>4

LEMMA BareNodesFacts ==
    ASSUME NEW written, IsSeq(written), NEW at
    PROVE  LET b == BareNodes(written, at)
           IN /\ IsSeq(b) /\ Len(b) = Len(written)
              /\ \A k \in 1..Len(written) : IsNode(b[k]) /\ IsProperty(b[k]) /\ b[k].value = Absent
<1>1. DOMAIN written = 1..Len(written) /\ Len(written) \in Nat
  BY SeqFacts
<1> DEFINE New(k) == Node("property", <<>>, <<>>, [at EXCEPT !.line = written[k].line])
           Bare(k) == [New(k) EXCEPT !.key = written[k].key]
<1>2. PICK b : b = BareNodes(written, at)
  OBVIOUS
<1>3. b = [k \in 1..Len(written) |-> Bare(k)]
  BY <1>1, <1>2 DEF BareNodes
<1>4. \A k : IsNode(Bare(k)) /\ IsProperty(Bare(k)) /\ Bare(k).value = Absent
  <2> TAKE k
  <2>1. PICK n : n = New(k)
    OBVIOUS
  <2>2. IsNode(n) /\ n.type = "property" /\ n.value = Absent
    <3>1. PICK p : p = [at EXCEPT !.line = written[k].line]
      OBVIOUS
    <3>2. n = Node("property", <<>>, <<>>, p)
      BY <2>1, <3>1
    <3> QED
      BY <3>2, NewNode
  <2>3. PICK m : m = [n EXCEPT !.key = written[k].key]
    OBVIOUS
  <2>4. IsNode(m) /\ m.type = n.type /\ m.value = n.value
    BY <2>2, <2>3, SetKey
  <2>5. m = Bare(k)
    BY <2>1, <2>3
  <2> QED
    BY <2>2, <2>4, <2>5, TypesDiffer
<1> HIDE DEF Bare
<1>5. b = [k \in 1..Len(written) |-> b[k]] /\ \A k \in 1..Len(written) : b[k] = Bare(k)
  BY <1>3
<1>6. IsSeq(b) /\ Len(b) = Len(written)
  BY <1>1, <1>5, FunctionIsSeq
<1> QED
  BY <1>2, <1>4, <1>5, <1>6

LEMMA NamedDetail ==
    ASSUME NEW n, IsNode(n), IsProperty(n), n.value = Absent, NEW properties, IsSeq(properties),
           NEW m, IsNamed(n, m, properties)
    PROVE  IsDetail(m, properties)
<1>1. CASE \E message : m = AsProblem(n, message)
  BY <1>1, ProblemNode DEF IsDetail
<1>2. CASE Resolve(n.key, properties) # 0 /\ m = AsPropertyOf(n, properties[Resolve(n.key, properties)])
  <2>1. PICK r \in 1..Len(properties) : r = Resolve(n.key, properties)
    BY <1>2, ResolveFacts
  <2>2. PICK q : q = properties[r]
    OBVIOUS
  <2>3. IsNode(m) /\ m.key = q.key /\ m.value = n.value
    BY <1>2, <2>1, <2>2, NamedNode
  <2>4. Resolve(q.key, properties) # 0
    BY <2>1, <2>2, ResolveFacts
  <2> QED
    BY <2>3, <2>4 DEF IsDetail
<1> QED
  BY <1>1, <1>2 DEF IsNamed

LEMMA DefinedNodesFacts ==
    ASSUME NEW written, IsSeq(written), NEW at, NEW properties, IsSeq(properties)
    PROVE  LET u == DefinedNodes(written, at, properties)
           IN /\ IsSeq(u) /\ Len(u) = Len(written)
              /\ \A k \in 1..Len(written) : IsDetail(u[k], properties)
<1>1. PICK b : b = BareNodes(written, at)
  OBVIOUS
<1>2. IsSeq(b) /\ Len(b) = Len(written) /\ \A k \in 1..Len(written) : IsNode(b[k]) /\ IsProperty(b[k]) /\ b[k].value = Absent
  BY <1>1, BareNodesFacts
<1>3. PICK w : w = WithNames(b, properties)
  OBVIOUS
<1>4. IsSeq(w) /\ Len(w) = Len(b) /\ \A k \in 1..Len(b) : IsNamed(b[k], w[k], properties)
  BY <1>2, <1>3, WithNamesFacts
<1>5. \A k \in 1..Len(written) : IsDetail(w[k], properties)
  BY <1>2, <1>4, NamedDetail
<1>6. PICK n \in Nat : n = Len(written) /\ DOMAIN w = 1..n
  BY <1>2, <1>4, SeqFacts
<1> DEFINE Child(k) == [w[k] EXCEPT !.children = NestedChildren(w[k], written[k].value)]
<1>7. PICK u : u = DefinedNodes(written, at, properties)
  OBVIOUS
<1>8. u = [k \in 1..n |-> Child(k)]
  BY <1>1, <1>3, <1>6, <1>7 DEF DefinedNodes, WithChildren
<1>9. \A k \in 1..n : IsDetail(Child(k), properties)
  <2> SUFFICES ASSUME NEW k \in 1..n
               PROVE  IsDetail(Child(k), properties)
    OBVIOUS
  <2>1. PICK x, c : x = w[k] /\ c = NestedChildren(w[k], written[k].value)
    OBVIOUS
  <2>2. IsDetail(x, properties)
    BY <1>5, <1>6, <2>1
  <2>3. PICK m : m = [x EXCEPT !.children = c]
    OBVIOUS
  <2>4. IsNode(m) /\ m.type = x.type /\ m.value = x.value /\ m.key = x.key
    BY <2>2, <2>3, SetChildren DEF IsDetail
  <2>5. IsDetail(m, properties)
    BY <2>2, <2>4, TypesDiffer DEF IsDetail
  <2>6. m = Child(k)
    BY <2>1, <2>3
  <2> QED
    BY <2>5, <2>6
<1> HIDE DEF Child
<1>10. u = [k \in 1..n |-> u[k]] /\ \A k \in 1..n : u[k] = Child(k)
  BY <1>8
<1>11. IsSeq(u) /\ Len(u) = n
  BY <1>10, FunctionIsSeq
<1> QED
  BY <1>6, <1>7, <1>9, <1>10, <1>11

LEMMA CodeNodeFacts ==
    ASSUME NEW definitions, NEW at, NEW properties
    PROVE  IsDetail(CodeNode(definitions, at), properties)
<1>1. CASE definitions = <<>>
  <2>0. PICK t, y, e : t = "Code" /\ y = "" /\ e = <<>>
    OBVIOUS
  <2>1. PICK q : q = Node(y, e, e, at)
    OBVIOUS
  <2>2. IsNode(q) /\ q.type = y
    BY <2>1, NewNode
  <2>3. PICK m : m = [q EXCEPT !.propertyType = t]
    OBVIOUS
  <2>4. IsNode(m) /\ m.type = y
    BY <2>2, <2>3, SetPropertyType
  <2>5. m = CodeNode(definitions, at)
    BY <1>1, <2>0, <2>1, <2>3 DEF CodeNode
  <2>6. ~IsProperty(m)
    BY <2>0, <2>4, TypesDiffer
  <2> QED
    BY <2>4, <2>5, <2>6 DEF IsDetail
<1>2. CASE definitions # <<>>
  <2>1. PICK q, k, t, c : /\ q = Node("property", <<>>, <<>>, at) /\ k = "code" /\ t = "Code"
                          /\ c = <<Node("paragraph", definitions[1].value, <<>>, at)>>
    OBVIOUS
  <2>2. IsNode(q) /\ q.type = "property" /\ q.value = Absent
    BY <2>1, NewNode
  <2>3. PICK x : x = [q EXCEPT !.key = k]
    OBVIOUS
  <2>4. IsNode(x) /\ x.type = q.type /\ x.value = q.value /\ x.key = k
    BY <2>2, <2>3, SetKey
  <2>5. PICK y : y = [x EXCEPT !.propertyType = t]
    OBVIOUS
  <2>6. IsNode(y) /\ y.type = x.type /\ y.value = x.value /\ y.key = x.key
    BY <2>4, <2>5, SetPropertyType
  <2>7. PICK m : m = [y EXCEPT !.children = c]
    OBVIOUS
  <2>8. IsNode(m) /\ m.type = y.type /\ m.value = y.value /\ m.key = y.key
    BY <2>6, <2>7, SetChildren
  <2>9. m = CodeNode(definitions, at)
    BY <1>2, <2>1, <2>3, <2>5, <2>7 DEF CodeNode
  <2>10. IsNode(m) /\ m.value = Absent /\ m.key = k
    BY <2>2, <2>4, <2>6, <2>8
  <2> QED
    BY <2>1, <2>9, <2>10 DEF IsDetail
<1> QED
  BY <1>1, <1>2

NothingIn(blocks) == blocks = <<>> \/ (Len(blocks) = 1 /\ blocks[1].words = <<>>)

HasMistake(m, nodes, problem, fault, at) ==
    /\ m.nodes = nodes
    /\ IsPosition(at) => m.at.block = at.block
    /\ fault = NoFault /\ problem = 0 => m.message = ""

LEMMA MistakeFacts ==
    ASSUME NEW nodes, NEW problem, NEW fault, NEW at
    PROVE  HasMistake(WithMistake(nodes, problem, fault, at), nodes, problem, fault, at)
<1>1. PICK m : m = WithMistake(nodes, problem, fault, at)
  OBVIOUS
<1>2. \E a, s : /\ m = [nodes |-> nodes, message |-> s, at |-> a]
                /\ a = at \/ \E line : a = [at EXCEPT !.line = line]
                /\ fault = NoFault /\ problem = 0 => s = ""
  <2>1. CASE fault # NoFault
    <3>1. m = [nodes |-> nodes, message |-> fault.message, at |-> [at EXCEPT !.line = fault.line]]
      BY <1>1, <2>1 DEF WithMistake
    <3> QED
      BY <2>1, <3>1
  <2>2. CASE fault = NoFault /\ problem # 0
    <3>1. m = [nodes |-> nodes, message |-> nodes[problem].message, at |-> [at EXCEPT !.line = nodes[problem].at.line]]
      BY <1>1, <2>2 DEF WithMistake
    <3> QED
      BY <2>2, <3>1
  <2>3. CASE fault = NoFault /\ problem = 0
    <3>1. m = [nodes |-> nodes, message |-> "", at |-> at]
      BY <1>1, <2>3 DEF WithMistake
    <3> QED
      BY <2>3, <3>1
  <2> QED
    BY <2>1, <2>2, <2>3
<1>3. PICK a, s : /\ m = [nodes |-> nodes, message |-> s, at |-> a]
                  /\ a = at \/ \E line : a = [at EXCEPT !.line = line]
                  /\ fault = NoFault /\ problem = 0 => s = ""
  BY <1>2
<1>4. IsPosition(at) => a.block = at.block
  BY <1>3, LineSet
<1>5. m.nodes = nodes /\ m.message = s /\ m.at = a
  BY <1>3
<1>6. HasMistake(m, nodes, problem, fault, at)
  BY <1>3, <1>4, <1>5 DEF HasMistake
<1> QED
  BY <1>1, <1>6

HaveWords(blocks) == IsSeq(blocks) /\ \A k \in 1..Len(blocks) : IsSeq(blocks[k].words)
IsDefinitionAt(m, blocks, at, properties) ==
    /\ IsSeq(m.nodes) /\ \A k \in 1..Len(m.nodes) : IsDetail(m.nodes[k], properties)
    /\ IsPosition(at) => m.at.block = at.block
    /\ NothingIn(blocks) => m.message = ""

LEMMA DefinitionNodesFacts ==
    ASSUME NEW blocks, HaveWords(blocks), NEW at, NEW properties, IsSeq(properties)
    PROVE  IsDefinitionAt(DefinitionNodes(blocks, at, properties), blocks, at, properties)
<1>1. PICK parsed : parsed = ParseMultilineDefinition(blocks, 0)
  OBVIOUS
<1>2. /\ IsSeq(parsed.properties)
      /\ NothingIn(blocks) => parsed.properties = <<>> /\ parsed.fault = NoFault
  BY <1>1, PropertiesParsed DEF NothingIn, HaveWords
<1> DEFINE S == {i \in DOMAIN parsed.properties : parsed.properties[i].key # "code"}
<1>3. PICK written : written = Chosen(parsed.properties, LAMBDA x : x.key # "code")
  OBVIOUS
<1>4. written = At(parsed.properties, S)
  BY <1>3 DEF Chosen, At
<1>5. IsSeq(written) /\ (NothingIn(blocks) => Len(written) = 0)
  <2>1. PICK n \in Nat : n = Len(parsed.properties) /\ DOMAIN parsed.properties = 1..n
    BY <1>2, SeqFacts
  <2>2. S \in SUBSET (1..n)
    BY <2>1
  <2>3. NothingIn(blocks) => S = {}
    <3>1. Len(<<>>) = 0
      BY EmptySeq
    <3>2. NothingIn(blocks) => n = 0
      BY <1>2, <2>1, <3>1
    <3> HIDE DEF S
    <3> QED
      BY <2>1, <2>2, <3>2
  <2>4. Cardinality({}) = 0
    BY FS_EmptySet
  <2> HIDE DEF S
  <2>5. IsAt(parsed.properties, S)
    BY <1>4, <2>2, AtFacts
  <2>6. IsSeq(written) /\ Len(written) = Cardinality(S)
    BY <1>4, <2>5 DEF IsAt
  <2>7. ASSUME NothingIn(blocks) PROVE Len(written) = 0
    <3>1. S = {}
      BY <2>3, <2>7
    <3> QED
      BY <2>4, <2>6, <3>1
  <2> QED
    BY <2>6, <2>7
<1>6. PICK u : u = DefinedNodes(written, at, properties)
  OBVIOUS
<1>7. IsSeq(u) /\ Len(u) = Len(written) /\ \A k \in 1..Len(written) : IsDetail(u[k], properties)
  BY <1>5, <1>6, DefinedNodesFacts
<1>8. PICK c : c = CodeNode(parsed.properties, at)
  OBVIOUS
<1>9. IsDetail(c, properties)
  BY <1>8, CodeNodeFacts
<1>10. PICK nodes : nodes = Append(u, c)
  OBVIOUS
<1>11. IsSeq(nodes) /\ \A k \in 1..Len(nodes) : IsDetail(nodes[k], properties)
  <2>1. PICK n \in Nat : n = Len(u)
    BY <1>7, SeqFacts
  <2>2. IsSeq(nodes) /\ Len(nodes) = n + 1 /\ nodes[n + 1] = c /\ \A k \in 1..n : nodes[k] = u[k]
    BY <1>7, <1>10, <2>1, AppendSeq
  <2>3. \A k \in 1..n + 1 : k \in 1..n \/ k = n + 1
    BY <2>1
  <2> QED
    BY <1>7, <1>9, <2>1, <2>2, <2>3
<1>12. PICK problem : problem = SelectInSeq(u, IsProblem)
  OBVIOUS
<1>13. NothingIn(blocks) => problem = 0
  <2> SUFFICES ASSUME NothingIn(blocks)
               PROVE  problem = 0
    OBVIOUS
  <2>1. Len(u) = 0
    BY <1>5, <1>7
  <2>2. {i \in 1..Len(u) : IsProblem(u[i])} = {}
    BY <2>1
  <2> QED
    BY <1>12, <2>2 DEF SelectInSeq
<1>14. PICK m : m = DefinitionNodes(blocks, at, properties)
  OBVIOUS
<1>15. m = WithMistake(nodes, problem, parsed.fault, at)
  BY <1>1, <1>3, <1>6, <1>8, <1>10, <1>12, <1>14 DEF DefinitionNodes, NodesOf, DefinitionNodesOf
<1>16. PICK fault : fault = parsed.fault
  OBVIOUS
<1>17. /\ m.nodes = nodes /\ (IsPosition(at) => m.at.block = at.block)
       /\ fault = NoFault /\ problem = 0 => m.message = ""
  <2>1. HasMistake(m, nodes, problem, fault, at)
    BY <1>15, <1>16, MistakeFacts
  <2> QED
    BY <2>1 DEF HasMistake
<1>18. NothingIn(blocks) => m.message = ""
  BY <1>2, <1>13, <1>16, <1>17
<1> QED
  BY <1>11, <1>14, <1>17, <1>18 DEF IsDefinitionAt

\* A member of the whole is one of a part, and the other way round.
HasMembers(whole, seqs) ==
    /\ \A p \in 1..Len(whole) : \E c \in 1..Len(seqs) : \E k \in 1..Len(seqs[c]) : whole[p] = seqs[c][k]
    /\ \A c \in 1..Len(seqs) : \A k \in 1..Len(seqs[c]) : \E p \in 1..Len(whole) : whole[p] = seqs[c][k]

LEMMA FlattenMembers ==
    ASSUME NEW seqs, IsSeq(seqs), \A c \in 1..Len(seqs) : IsSeq(seqs[c])
    PROVE  IsSeq(FlattenSeq(seqs)) /\ HasMembers(FlattenSeq(seqs), seqs)
<1>1. PICK whole : whole = FlattenSeq(seqs)
  OBVIOUS
<1>2. PICK n \in Nat : n = Len(seqs)
  BY SeqFacts
<1>3. IsSeq(whole) /\ \E off : Joined(seqs, n, whole, off)
  BY <1>1, <1>2, Flattens
<1>4. PICK off : Joined(seqs, n, whole, off)
  BY <1>3
<1>5. \A c \in 1..n : Len(seqs[c]) \in Nat
  BY <1>2, SeqFacts
<1>6. \A p \in 1..Len(whole) : \E c \in 1..n : \E k \in 1..Len(seqs[c]) : whole[p] = seqs[c][k]
  <2> SUFFICES ASSUME NEW p \in 1..Len(whole)
               PROVE  \E c \in 1..n : \E k \in 1..Len(seqs[c]) : whole[p] = seqs[c][k]
    OBVIOUS
  <2>1. Sized(seqs, n)
    BY <1>5 DEF Sized
  <2>2. CoveredAt(seqs, n, whole, off, p)
    BY <1>4, <2>1, JoinedCovers
  <2> QED
    BY <2>2 DEF CoveredAt
<1>7. \A c \in 1..n : \A k \in 1..Len(seqs[c]) : \E p \in 1..Len(whole) : whole[p] = seqs[c][k]
  <2>1. DOMAIN whole = 1..Len(whole)
    BY <1>3, SeqFacts
  <2> QED
    BY <1>4, <2>1 DEF Joined
<1> QED
  BY <1>1, <1>2, <1>3, <1>6, <1>7 DEF HasMembers

\* Every item is in one of the blocks of the section.
LEMMA ListItemsFacts ==
    ASSUME NEW d \in Documents, NEW i \in SectionsIn(d), NEW blocks, HasContent(d, i, blocks)
    PROVE  LET items == ListItems(blocks)
           IN /\ IsSeq(items)
              /\ \A p \in 1..Len(items) : /\ IsSeq(items[p].words) /\ IsPosition(items[p].at)
                                         /\ items[p].at.block \in i..EndIn(d, i)
<1>1. PICK N \in Nat : N = Len(d) /\ i \in 1..N
  BY DocumentType DEF SectionsIn
<1>2. PICK e \in i..N : e = EndIn(d, i)
  <2>1. i \in 0..Len(d)
    BY <1>1
  <2> QED
    BY <1>1, <2>1, EndInFacts
<1>3. PICK n \in {e - i, (e - i) + 1} : /\ n = Len(blocks) /\ DOMAIN blocks = 1..n
  BY <1>2, SeqFacts DEF HasContent
<1>4. n \in Nat
  BY <1>1, <1>2, <1>3
<1>5. \A c \in 1..n : c \in 1..e - i \/ (c = (e - i) + 1 /\ n = (e - i) + 1)
  BY <1>1, <1>2, <1>3
<1>6. \A c \in 1..e - i : /\ blocks[c].items = d[i + c].items /\ blocks[c].at = Position(i + c, 0, 0)
                          /\ i + c \in 1..N /\ i + c \in i..e
  <2>1. \A c \in 1..e - i : i + c \in 1..N /\ i + c \in i..e
    BY <1>1, <1>2
  <2> QED
    BY <1>2, <2>1 DEF HasContent
<1>7. n = (e - i) + 1 => blocks[n].items = <<>>
  BY <1>2, <1>3 DEF HasContent
<1>8. \A c \in 1..n : blocks[c].items \in Seq(Seq(STRING))
  <2>1. <<>> \in Seq(Seq(STRING))
    BY EmptySeq
  <2>2. \A c \in 1..e - i : blocks[c].items \in Seq(Seq(STRING))
    BY <1>1, <1>6, DocumentType
  <2> QED
    BY <1>3, <1>5, <1>7, <2>1, <2>2
<1> DEFINE Part(c) == [k \in DOMAIN blocks[c].items |-> [words |-> blocks[c].items[k], at |-> Position(blocks[c].at.block, k, 0)]]
<1>9. PICK seqs : seqs = [c \in DOMAIN blocks |-> Part(c)]
  OBVIOUS
<1>10. ListItems(blocks) = FlattenSeq(seqs)
  BY <1>9 DEF ListItems
<1>11. \A c \in 1..n : /\ IsSeq(Part(c)) /\ Len(Part(c)) = Len(blocks[c].items)
                       /\ Len(blocks[c].items) \in Nat
                       /\ \A k \in 1..Len(blocks[c].items) :
                              /\ blocks[c].items[k] \in Seq(STRING)
                              /\ Part(c)[k] = [words |-> blocks[c].items[k], at |-> Position(blocks[c].at.block, k, 0)]
  <2> SUFFICES ASSUME NEW c \in 1..n
               PROVE  /\ IsSeq(Part(c)) /\ Len(Part(c)) = Len(blocks[c].items)
                      /\ Len(blocks[c].items) \in Nat
                      /\ \A k \in 1..Len(blocks[c].items) :
                             /\ blocks[c].items[k] \in Seq(STRING)
                             /\ Part(c)[k] = [words |-> blocks[c].items[k], at |-> Position(blocks[c].at.block, k, 0)]
    OBVIOUS
  <2>1. PICK I \in Seq(Seq(STRING)) : I = blocks[c].items
    BY <1>8
  <2>2. PICK b : b = blocks[c].at.block
    OBVIOUS
  <2>3. PICK m \in Nat : m = Len(I) /\ DOMAIN I = 1..m
    BY <2>1
  <2>4. PICK P : P = [k \in 1..m |-> [words |-> I[k], at |-> Position(b, k, 0)]]
    OBVIOUS
  <2>5. Part(c) = P
    BY <2>1, <2>2, <2>3, <2>4
  <2>6. \A k \in 1..m : I[k] \in Seq(STRING)
    BY <2>3
  <2>7. P = [k \in 1..m |-> P[k]] /\ \A k \in 1..m : P[k] = [words |-> I[k], at |-> Position(b, k, 0)]
    BY <2>4
  <2>8. IsSeq(P) /\ Len(P) = m
    BY <2>7, FunctionIsSeq
  <2> HIDE DEF Part
  <2> QED
    BY <2>1, <2>2, <2>3, <2>5, <2>6, <2>7, <2>8
<1> HIDE DEF Part
<1>12. IsSeq(seqs) /\ Len(seqs) = n /\ \A c \in 1..n : seqs[c] = Part(c)
  <2>1. seqs = [c \in 1..n |-> seqs[c]] /\ \A c \in 1..n : seqs[c] = Part(c)
    BY <1>3, <1>9
  <2> QED
    BY <1>4, <2>1, FunctionIsSeq
<1>13. PICK items : items = FlattenSeq(seqs)
  OBVIOUS
<1>14. IsSeq(items) /\ HasMembers(items, seqs)
  <2>1. \A c \in 1..Len(seqs) : IsSeq(seqs[c])
    BY <1>11, <1>12
  <2> QED
    BY <1>12, <1>13, <2>1, FlattenMembers
<1>15. \A p \in 1..Len(items) : /\ IsSeq(items[p].words) /\ IsPosition(items[p].at)
                                /\ items[p].at.block \in i..e
  <2> SUFFICES ASSUME NEW p \in 1..Len(items)
               PROVE  /\ IsSeq(items[p].words) /\ IsPosition(items[p].at)
                      /\ items[p].at.block \in i..e
    OBVIOUS
  <2>3. PICK c \in 1..n : \E k \in 1..Len(seqs[c]) : items[p] = seqs[c][k]
    BY <1>12, <1>14 DEF HasMembers
  <2>4. PICK k \in 1..Len(seqs[c]) : items[p] = seqs[c][k]
    BY <2>3
  <2>5. Len(seqs[c]) = Len(blocks[c].items) /\ seqs[c] = Part(c)
    BY <1>11, <1>12
  <2>6. items[p] = [words |-> blocks[c].items[k], at |-> Position(blocks[c].at.block, k, 0)] /\ blocks[c].items[k] \in Seq(STRING)
    BY <1>11, <2>4, <2>5
  <2>7. c \in 1..e - i
    <3>1. CASE c = (e - i) + 1 /\ n = (e - i) + 1
      <4>1. blocks[c].items = <<>>
        BY <1>7, <3>1
      <4>2. Len(<<>>) = 0
        BY EmptySeq
      <4>3. Len(seqs[c]) = 0
        BY <2>5, <4>1, <4>2
      <4> QED
        BY <2>4, <4>3
    <3> QED
      BY <1>5, <3>1
  <2>8. PICK w, a : w = blocks[c].items[k] /\ a = Position(blocks[c].at.block, k, 0)
    OBVIOUS
  <2>9. items[p].words = w /\ items[p].at = a
    BY <2>6, <2>8
  <2>10. IsSeq(w)
    BY <2>6, <2>8, SeqIsSeq
  <2>11. IsPosition(a) /\ a.block = i + c
    <3>1. blocks[c].at.block = i + c
      BY <1>6, <2>7, BlockOf
    <3> QED
      BY <2>8, <3>1, BlockOf DEF IsPosition
  <2>12. i + c \in i..e
    BY <1>6, <2>7
  <2> QED
    BY <2>9, <2>10, <2>11, <2>12
<1> QED
  BY <1>2, <1>10, <1>13, <1>14, <1>15

\* The definitions of a section: what is wrong with one is so in its lines.
IsDefinitionOf(d, i, properties, x) ==
    /\ IsSeq(x.nodes) /\ \A k \in 1..Len(x.nodes) : IsDetail(x.nodes[k], properties)
    /\ x.message # "" => x.at.block \in i..EndIn(d, i)

LEMMA ContentFacts ==
    ASSUME NEW d \in Documents, NEW i \in SectionsIn(d), NEW blocks, HasContent(d, i, blocks)
    PROVE  /\ IsSeq(blocks) /\ \A k \in 1..Len(blocks) : IsSeq(blocks[k].words)
           /\ blocks # <<>> => NothingIn(blocks) \/ (IsPosition(blocks[1].at) /\ blocks[1].at.block \in i..EndIn(d, i))
<1>1. PICK N \in Nat : N = Len(d) /\ i \in 1..N
  BY DocumentType DEF SectionsIn
<1>2. PICK e \in i..N : e = EndIn(d, i)
  <2>1. i \in 0..Len(d)
    BY <1>1
  <2> QED
    BY <1>1, <2>1, EndInFacts
<1>3. PICK n \in {e - i, (e - i) + 1} : n = Len(blocks)
  BY <1>2 DEF HasContent
<1>4. IsSeq(blocks) /\ n \in Nat
  BY <1>1, <1>2, <1>3 DEF HasContent
<1>5. \A c \in 1..n : c \in 1..e - i \/ (c = (e - i) + 1 /\ n = (e - i) + 1)
  BY <1>1, <1>2, <1>3
<1>6. \A c \in 1..e - i : /\ blocks[c].words = d[i + c].words /\ blocks[c].at = Position(i + c, 0, 0)
                          /\ i + c \in 1..N /\ i + c \in i..e
  <2>1. \A c \in 1..e - i : i + c \in 1..N /\ i + c \in i..e
    BY <1>1, <1>2
  <2> QED
    BY <1>2, <2>1 DEF HasContent
<1>7. n = (e - i) + 1 => blocks[n].words = <<>>
  BY <1>2, <1>3 DEF HasContent
<1>8. \A c \in 1..n : IsSeq(blocks[c].words)
  <2>1. <<>> \in Seq(STRING)
    BY EmptySeq
  <2>2. \A c \in 1..e - i : blocks[c].words \in Seq(STRING)
    BY <1>1, <1>6, DocumentType
  <2>3. \A c \in 1..n : blocks[c].words \in Seq(STRING)
    BY <1>3, <1>5, <1>7, <2>1, <2>2
  <2> QED
    BY <2>3, SeqIsSeq
<1>9. blocks # <<>> => n # 0
  <2>1. blocks \in Seq(Items(blocks))
    BY <1>4, SeqFacts
  <2> QED
    BY <1>3, <2>1, EmptyIs
<1>10. CASE blocks # <<>> /\ 1 \in 1..e - i
  <2>1. blocks[1].at = Position(i + 1, 0, 0) /\ i + 1 \in i..e
    BY <1>6, <1>10
  <2>2. IsPosition(blocks[1].at) /\ blocks[1].at.block = i + 1
    BY <2>1, BlockOf DEF IsPosition
  <2> QED
    BY <1>2, <1>3, <1>4, <1>8, <2>1, <2>2
<1>11. CASE blocks # <<>> /\ 1 \notin 1..e - i
  <2>1. e - i = 0 /\ n = 1
    <3>1. PICK size \in Nat : size = e - i
      BY <1>1, <1>2
    <3>2. n \in {size, size + 1} /\ n # 0
      BY <1>2, <1>3, <1>9, <1>11, <3>1
    <3>3. size = 0
      BY <1>11, <3>1
    <3> QED
      BY <3>1, <3>2, <3>3
  <2>2. Len(blocks) = 1 /\ blocks[1].words = <<>>
    BY <1>3, <1>7, <2>1
  <2>3. NothingIn(blocks)
    BY <2>2 DEF NothingIn
  <2> QED
    BY <1>3, <1>4, <1>8, <2>3
<1> QED
  BY <1>3, <1>4, <1>8, <1>10, <1>11

LEMMA DefinitionsInFacts ==
    ASSUME NEW d \in Documents, NEW i \in SectionsIn(d), NEW node, node.at = Position(i, 0, 0),
           HasContent(d, i, node.children), NEW properties, IsSeq(properties)
    PROVE  LET D == DefinitionsIn(node, ListItems(node.children), properties)
           IN IsSeq(D) /\ \A k \in 1..Len(D) : IsDefinitionOf(d, i, properties, D[k])
<1>1. PICK blocks, items : blocks = node.children /\ items = ListItems(blocks)
  OBVIOUS
<1>2. PICK D : D = DefinitionsIn(node, items, properties)
  OBVIOUS
<1>3. i \in i..EndIn(d, i)
  <2>1. i \in 0..Len(d)
    BY DocumentType DEF SectionsIn
  <2> QED
    BY <2>1, EndInFacts
<1>4. HasContent(d, i, blocks)
  BY <1>1
<1>5. CASE items = <<>>
  <2>1. PICK start : start = IF blocks = <<>> THEN node.at ELSE blocks[1].at
    OBVIOUS
  <2>2. PICK x : x = DefinitionNodes(blocks, start, properties)
    OBVIOUS
  <2>3. D = <<x>>
    BY <1>1, <1>2, <1>5, <2>1, <2>2 DEF DefinitionsIn
  <2>4. IsSeq(blocks) /\ \A k \in 1..Len(blocks) : IsSeq(blocks[k].words)
    BY <1>4, ContentFacts
  <2>5. /\ IsSeq(x.nodes) /\ \A k \in 1..Len(x.nodes) : IsDetail(x.nodes[k], properties)
        /\ IsPosition(start) => x.at.block = start.block
        /\ NothingIn(blocks) => x.message = ""
    <3>1. IsDefinitionAt(x, blocks, start, properties)
      BY <2>2, <2>4, DefinitionNodesFacts DEF HaveWords
    <3> QED
      BY <3>1 DEF IsDefinitionAt
  <2>6. NothingIn(blocks) \/ (IsPosition(start) /\ start.block \in i..EndIn(d, i))
    <3>1. CASE blocks = <<>>
      BY <3>1 DEF NothingIn
    <3>2. CASE blocks # <<>>
      <4>1. start = blocks[1].at
        BY <2>1, <3>2
      <4> QED
        BY <1>4, <3>2, <4>1, ContentFacts
    <3> QED
      BY <3>1, <3>2
  <2>7. IsDefinitionOf(d, i, properties, x)
    BY <2>5, <2>6 DEF IsDefinitionOf
  <2>8. IsSeq(<<x>>) /\ Len(<<x>>) = 1 /\ <<x>>[1] = x
    <3>1. <<x>> \in Seq({x})
      OBVIOUS
    <3> QED
      BY <3>1, SeqIsSeq
  <2> QED
    BY <1>1, <1>2, <2>3, <2>7, <2>8
<1>6. CASE items # <<>>
  <2>1. IsSeq(items) /\ \A p \in 1..Len(items) : /\ IsSeq(items[p].words) /\ IsPosition(items[p].at)
                                                /\ items[p].at.block \in i..EndIn(d, i)
    BY <1>1, <1>4, ListItemsFacts
  <2>2. PICK n \in Nat : n = Len(items) /\ DOMAIN items = 1..n
    BY <2>1, SeqFacts
  <2> DEFINE X(k) == DefinitionNodes(<<items[k]>>, items[k].at, properties)
  <2>3. D = [k \in 1..n |-> X(k)]
    BY <1>1, <1>2, <1>6, <2>2 DEF DefinitionsIn
  <2>4. \A k \in 1..n : IsDefinitionOf(d, i, properties, X(k))
    <3> SUFFICES ASSUME NEW k \in 1..n
                 PROVE  IsDefinitionOf(d, i, properties, X(k))
      OBVIOUS
    <3>1. PICK item, at : item = items[k] /\ at = items[k].at
      OBVIOUS
    <3>2. PICK b : b = <<item>>
      OBVIOUS
    <3>3. IsSeq(b) /\ \A c \in 1..Len(b) : IsSeq(b[c].words)
      <4>1. b \in Seq({item}) /\ Len(b) = 1 /\ b[1] = item
        BY <3>2
      <4>2. IsSeq(item.words)
        BY <2>1, <2>2, <3>1
      <4> QED
        BY <4>1, <4>2, SeqIsSeq
    <3>4. IsPosition(at) /\ at.block \in i..EndIn(d, i)
      BY <2>1, <2>2, <3>1
    <3>5. PICK x : x = DefinitionNodes(b, at, properties)
      OBVIOUS
    <3>6. /\ IsSeq(x.nodes) /\ \A c \in 1..Len(x.nodes) : IsDetail(x.nodes[c], properties)
          /\ x.at.block = at.block
      <4>1. IsDefinitionAt(x, b, at, properties)
        BY <3>3, <3>5, DefinitionNodesFacts DEF HaveWords
      <4> QED
        BY <3>4, <4>1 DEF IsDefinitionAt
    <3>7. IsDefinitionOf(d, i, properties, x)
      BY <3>4, <3>6 DEF IsDefinitionOf
    <3>8. x = X(k)
      BY <3>1, <3>2, <3>5
    <3> QED
      BY <3>7, <3>8
  <2> HIDE DEF X
  <2>5. D = [k \in 1..n |-> D[k]] /\ \A k \in 1..n : D[k] = X(k)
    BY <2>3
  <2>6. IsSeq(D) /\ Len(D) = n
    BY <2>5, FunctionIsSeq
  <2> QED
    BY <1>1, <1>2, <2>4, <2>5, <2>6
<1> QED
  BY <1>5, <1>6

Placed(n, at) == [n EXCEPT !.at = at]
LEMMA SetAt ==
    ASSUME NEW n, IsNode(n), NEW at, NEW z, z = Placed(n, at)
    PROVE  IsNode(z) /\ z.type = n.type /\ z.at = at /\ z.children = n.children /\ z.nested = n.nested
<1>1. PICK y, w, i, a, k, t, h, c, d, v, s :
          n = Fields(y, w, i, a, k, t, h, c, d, v, s) /\ y = n.type /\ c = n.children /\ d = n.nested
  BY NodeIsFields DEF FieldsOf
<1>2. z = Fields(y, w, i, at, k, t, h, c, d, v, s)
  BY <1>1 DEF Fields, Placed
<1>3. PICK p : p = Fields(y, w, i, at, k, t, h, c, d, v, s)
  OBVIOUS
<1>4. IsNode(p) /\ p.type = y /\ p.at = at /\ p.children = c /\ p.nested = d
  BY <1>3, FieldsAre
<1> QED
  BY <1>1, <1>2, <1>3, <1>4

Holding(n, e, nested) == [n EXCEPT !.children = e, !.nested = nested]
LEMMA SetNested ==
    ASSUME NEW n, IsNode(n), NEW e, NEW nested, NEW z, z = Holding(n, e, nested)
    PROVE  /\ IsNode(z) /\ z.type = n.type /\ z.at = n.at /\ z.children = e /\ z.nested = nested
           /\ z.key = n.key /\ z.propertyType = n.propertyType /\ z.hasMany = n.hasMany
<1>1. PICK y, w, i, a, k, t, h, c, d, v, s :
          /\ n = Fields(y, w, i, a, k, t, h, c, d, v, s)
          /\ y = n.type /\ a = n.at /\ k = n.key /\ t = n.propertyType /\ h = n.hasMany
  BY NodeIsFields DEF FieldsOf
<1>2. PICK q : q = [n EXCEPT !.children = e]
  OBVIOUS
<1>3. q = Fields(y, w, i, a, k, t, h, e, d, v, s)
  BY <1>1, <1>2 DEF Fields
<1>4. PICK p : p = [q EXCEPT !.nested = nested]
  OBVIOUS
<1>5. p = Fields(y, w, i, a, k, t, h, e, nested, v, s)
  BY <1>3, <1>4 DEF Fields
<1>6. z = p
  BY <1>2, <1>4 DEF Holding
<1>7. IsNode(p) /\ p.type = y /\ p.at = a /\ p.children = e /\ p.nested = nested
      /\ p.key = k /\ p.propertyType = t /\ p.hasMany = h
  BY <1>5, FieldsAre
<1> QED
  BY <1>1, <1>6, <1>7

-----------------------------------------------------------------------------
(* The fifth pass.                                                          *)
PlaceOf(key) == SelectInSeq(Properties, LAMBDA p : p.key = key)
LEMMA PlaceFacts ==
    ASSUME NEW key
    PROVE  /\ PlaceOf(key) = 0 \/ (PlaceOf(key) \in 1..Len(Properties) /\ Properties[PlaceOf(key)].key = key)
           /\ \A r \in 1..Len(Properties) : Properties[r].key = key => PlaceOf(key) = r
<1> DEFINE I == {i \in 1..Len(Properties) : Properties[i].key = key}
<1>1. PlaceOf(key) = IF I # {} THEN Min(I) ELSE 0
  BY DEF PlaceOf, SelectInSeq
<1>2. I \in SUBSET Nat
  BY PropertiesAre
<1>3. \A i \in I : i \in 1..Len(Properties) /\ Properties[i].key = key
  OBVIOUS
<1>4. \A i \in 1..Len(Properties) : Properties[i].key = key => i \in I
  OBVIOUS
<1> HIDE DEF I
<1>5. CASE I = {}
  <2>1. PlaceOf(key) = 0
    BY <1>1, <1>5
  <2>2. \A i \in 1..Len(Properties) : Properties[i].key # key
    BY <1>4, <1>5
  <2> QED
    BY <2>1, <2>2
<1>6. CASE I # {}
  <2>1. PICK m : m = Min(I)
    OBVIOUS
  <2>2. m \in I
    BY <1>2, <1>6, <2>1, MinFacts
  <2>3. PlaceOf(key) = m
    BY <1>1, <1>6, <2>1
  <2>4. \A r \in 1..Len(Properties) : Properties[r].key = key => r = m
    BY <1>3, <2>2, PropertiesAre
  <2> QED
    BY <1>3, <2>2, <2>3, <2>4
<1> QED
  BY <1>5, <1>6

LEMMA FoundFacts ==
    ASSUME NEW d, NEW i, FoundIn(d, i) # 0
    PROVE  /\ FoundIn(d, i) \in 1..Len(Properties)
           /\ PlaceOf(KeyIn(d, i)) = FoundIn(d, i)
           /\ PropertyOf(KeyIn(d, i)) = Properties[FoundIn(d, i)]
           /\ IsSeq(Properties[FoundIn(d, i)].properties)
<1>1. PICK r, w : r = FoundIn(d, i) /\ w = d[i].words[1]
  OBVIOUS
<1>2. r = Resolve(w, Properties) /\ r # 0
  BY <1>1 DEF FoundIn
<1>3. r \in 1..Len(Properties)
  BY <1>2, PropertiesAre, ResolveFacts
<1>4. PICK key : key = KeyIn(d, i)
  OBVIOUS
<1>5. key = Properties[r].key
  BY <1>1, <1>4 DEF KeyIn
<1>6. PlaceOf(key) = r
  BY <1>3, <1>5, PlaceFacts
<1>7. PropertyOf(key) = Properties[r]
  BY <1>6 DEF PropertyOf, PlaceOf
<1> QED
  BY <1>1, <1>3, <1>4, <1>6, <1>7, PropertiesAre

WrongOf(D) == SelectInSeq(D, LAMBDA d : d.message # "")
LEMMA WrongFacts ==
    ASSUME NEW D, IsSeq(D), WrongOf(D) # 0
    PROVE  WrongOf(D) \in 1..Len(D) /\ D[WrongOf(D)].message # ""
<1> DEFINE I == {i \in 1..Len(D) : D[i].message # ""}
<1>1. WrongOf(D) = IF I # {} THEN Min(I) ELSE 0
  BY DEF WrongOf, SelectInSeq
<1>6. \A i \in 1..Len(D) : i \in Nat
  BY SeqFacts
<1>7. \A i \in I : i \in 1..Len(D) /\ D[i].message # ""
  OBVIOUS
<1>2. \A i \in I : i \in 1..Len(D) /\ D[i].message # "" /\ i \in Nat
  BY <1>6, <1>7
<1>5. I \in SUBSET Nat
  BY <1>2
<1> HIDE DEF I
<1>3. PICK m : m = Min(I)
  OBVIOUS
<1>4. m \in I /\ WrongOf(D) = m
  BY <1>1, <1>2, <1>3, <1>5, MinFacts
<1> QED
  BY <1>2, <1>4

\* What a relationship becomes: the problem of a definition of it, or them all.
IsRelationship(d, n, m) ==
    \/ IsProblem(m) /\ m.nested = <<>> /\ InLines(d, n.at.block, m)
    \/ /\ IsProperty(m) /\ m.at = n.at /\ IsResolved(d, m) /\ Definitions(d, m)
       /\ m.propertyType = n.propertyType

LEMMA EmptyIsSeq == IsSeq(<<>>) /\ Len(<<>>) = 0 /\ <<>> \in Seq({})
<1>1. <<>> \in Seq({}) /\ Len(<<>>) = 0
  BY EmptySeq
<1> QED
  BY <1>1, SeqIsSeq

LEMMA NestedFacts ==
    ASSUME NEW d, NEW n, IsRootNode(n), IsProperty(n), IsResolved(d, n), n.nested = <<>>,
           NEW D, IsSeq(D),
           \A k \in 1..Len(D) : IsDefinitionOf(d, n.at.block, Properties[FoundIn(d, n.at.block)].properties, D[k])
    PROVE  IsRootNode(Nested(n, D)) /\ IsRelationship(d, n, Nested(n, D))
<1>1. PICK i, wrong, m : i = n.at.block /\ wrong = WrongOf(D) /\ m = Nested(n, D)
  OBVIOUS
<1>2. IsNode(n) /\ IsSeq(n.children) /\ \A k \in 1..Len(n.children) : n.children[k].type # "property"
  BY DEF IsRootNode
<1>3. CASE wrong # 0
  <2>1. PICK message, at : message = D[wrong].message /\ at = D[wrong].at
    OBVIOUS
  <2>2. m = Placed(AsProblem(n, message), at)
    BY <1>1, <1>3, <2>1 DEF Nested, WrongOf, Placed
  <2>3. PICK q : q = AsProblem(n, message)
    OBVIOUS
  <2>4. IsNode(q) /\ q.type = "problem" /\ q.children = n.children /\ q.nested = n.nested
    BY <1>2, <2>3, ProblemNode
  <2>5. IsNode(m) /\ m.type = q.type /\ m.at = at /\ m.children = q.children /\ m.nested = q.nested
    BY <2>2, <2>3, <2>4, SetAt
  <2>6. at.block \in i..EndIn(d, i)
    <3>1. wrong \in 1..Len(D) /\ D[wrong].message # ""
      BY <1>1, <1>3, WrongFacts
    <3> QED
      BY <1>1, <2>1, <3>1 DEF IsDefinitionOf
  <2>7. IsProblem(m) /\ m.nested = <<>> /\ InLines(d, i, m)
    BY <2>4, <2>5, <2>6, TypesDiffer DEF InLines
  <2>8. IsRootNode(m)
    BY <1>2, <2>4, <2>5, EmptyIsSeq DEF IsRootNode
  <2> QED
    BY <1>1, <2>7, <2>8 DEF IsRelationship
<1>4. CASE wrong = 0
  <2>1. PICK N \in Nat : N = Len(D) /\ DOMAIN D = 1..N
    BY SeqFacts
  <2>2. PICK e, nested : e = <<>> /\ nested = [k \in 1..N |-> D[k].nodes]
    OBVIOUS
  <2>3. m = Holding(n, e, nested)
    BY <1>1, <1>4, <2>1, <2>2 DEF Nested, WrongOf, Holding
  <2>4. /\ IsNode(m) /\ m.type = n.type /\ m.at = n.at /\ m.children = e /\ m.nested = nested
        /\ m.key = n.key /\ m.propertyType = n.propertyType /\ m.hasMany = n.hasMany
    BY <1>2, <2>3, SetNested
  <2>5. IsSeq(nested) /\ Len(nested) = N /\ \A k \in 1..N : nested[k] = D[k].nodes
    <3>1. nested = [k \in 1..N |-> nested[k]] /\ \A k \in 1..N : nested[k] = D[k].nodes
      BY <2>2
    <3> QED
      BY <3>1, FunctionIsSeq
  <2>6. PICK properties : properties = Properties[FoundIn(d, i)].properties
    OBVIOUS
  <2>7. \A k \in 1..N : IsSeq(nested[k]) /\ \A j \in 1..Len(nested[k]) : IsDetail(nested[k][j], properties)
    BY <1>1, <2>1, <2>5, <2>6 DEF IsDefinitionOf
  <2>8. Definitions(d, m)
    BY <1>1, <2>4, <2>5, <2>6, <2>7 DEF Definitions, IsDefinition, IsDetail
  <2>9. IsRootNode(m)
    BY <2>2, <2>4, <2>5, <2>7, EmptyIsSeq DEF IsRootNode
  <2>10. IsProperty(m) /\ m.at = n.at
    BY <2>4, TypesDiffer
  <2>11. IsResolved(d, m)
    BY <2>4 DEF IsResolved
  <2> QED
    BY <1>1, <2>4, <2>8, <2>9, <2>10, <2>11 DEF IsRelationship
<1> QED
  BY <1>3, <1>4

\* The node of a section after the pass.
IsSectionOf(d, n, m) ==
    \/ IsProblem(m) /\ m.nested = <<>> /\ InLines(d, n.at.block, m)
    \/ /\ IsProperty(m) /\ m.at = n.at /\ IsResolved(d, m) /\ Definitions(d, m)
       /\ ~IsNested(m) => m.nested = <<>> /\ HasContent(d, m.at.block, m.children)

LEMMA WithDefinitionsFacts ==
    ASSUME NEW d \in Documents, NEW n, IsRootNode(n), n.nested = <<>>, IsProperty(n), IsResolved(d, n),
           n.at.block \in SectionsIn(d), HasContent(d, n.at.block, n.children)
    PROVE  IsRootNode(WithDefinitions(n)) /\ IsSectionOf(d, n, WithDefinitions(n))
<1>1. PICK i, items, m : i = n.at.block /\ items = ListItems(n.children) /\ m = WithDefinitions(n)
  OBVIOUS
<1>2. i \in SectionsIn(d) /\ HasContent(d, i, n.children) /\ n.at = Position(i, 0, 0)
  BY <1>1 DEF IsResolved
<1>3. CASE ~IsNested(n)
  <2>1. m = n
    BY <1>1, <1>3 DEF WithDefinitions
  <2>2. Definitions(d, n)
    BY EmptyIsSeq DEF Definitions
  <2>3. IsSectionOf(d, n, n)
    BY <1>3, <2>2 DEF IsSectionOf
  <2> QED
    BY <1>1, <2>1, <2>3
<1>4. CASE IsNested(n) /\ items = <<>> /\ n.hasMany
  <2>1. PICK message : message = "not a list"
    OBVIOUS
  <2>2. m = AsProblem(n, message)
    BY <1>1, <1>4, <2>1 DEF WithDefinitions
  <2>3. IsNode(m) /\ IsProblem(m) /\ m.at = n.at /\ m.children = n.children /\ m.nested = n.nested
    BY <2>2, ProblemNode DEF IsRootNode
  <2>4. IsRootNode(m)
    BY <2>3 DEF IsRootNode
  <2>5. InLines(d, i, m)
    <3>1. i \in 0..Len(d)
      BY <1>2, DocumentType DEF SectionsIn
    <3>2. i \in i..EndIn(d, i)
      BY <3>1, EndInFacts
    <3> QED
      BY <1>1, <2>3, <3>2 DEF InLines
  <2>6. IsSectionOf(d, n, m)
    BY <1>1, <2>3, <2>5 DEF IsSectionOf
  <2> QED
    BY <1>1, <2>4, <2>6
<1>5. CASE IsNested(n) /\ ~(items = <<>> /\ n.hasMany)
  <2>1. PICK r, properties : r = FoundIn(d, i) /\ properties = Properties[r].properties
    OBVIOUS
  <2>2. r # 0 /\ n.key = KeyIn(d, i)
    BY <1>1, <2>1 DEF IsResolved
  <2>3. PropertyOf(n.key).properties = properties /\ IsSeq(properties)
    BY <2>1, <2>2, FoundFacts
  <2>4. PICK D : D = DefinitionsIn(n, items, properties)
    OBVIOUS
  <2>5. m = Nested(n, D)
    BY <1>1, <1>5, <2>3, <2>4 DEF WithDefinitions
  <2>6. IsSeq(D) /\ \A k \in 1..Len(D) : IsDefinitionOf(d, i, properties, D[k])
    BY <1>1, <1>2, <2>3, <2>4, DefinitionsInFacts
  <2>7. IsRootNode(m) /\ IsRelationship(d, n, m)
    BY <1>1, <2>1, <2>5, <2>6, NestedFacts
  <2>8. IsProperty(m) /\ m.propertyType = n.propertyType => IsNested(m)
    BY <1>5 DEF IsNested
  <2>9. IsSectionOf(d, n, m)
    BY <2>7, <2>8 DEF IsSectionOf, IsRelationship
  <2> QED
    BY <1>1, <2>7, <2>9
<1> QED
  BY <1>3, <1>4, <1>5

LEMMA SectionStands ==
    ASSUME NEW d, NEW i, NEW n, IsProperty(n), Stands(d, i, n), NEW m, IsSectionOf(d, n, m)
    PROVE  Stands(d, i, m)
BY TypesDiffer DEF Stands, IsSectionOf

LEMMA NestedStep ==
    ASSUME ParseInv, SetNestedProperties
    PROVE  Defined(document, tree') /\ Keeps(tree, tree')
<1>1. pass = 5 /\ document \in Documents /\ Resolved(document, tree)
  BY PassIs DEF ParseInv, SetNestedProperties
<1>2. PICK d \in Documents, t \in {tree}, u \in {tree'} : d = document /\ t = tree /\ u = tree'
  BY <1>1
<1>3. Resolved(d, t) /\ IsSeq(t) /\ IsTree(d, t) /\ Standing(d, t)
  BY <1>1, <1>2 DEF Resolved, IsTree
<1>4. PICK n \in Nat : n = Len(t) /\ DOMAIN t = 1..n
  BY <1>3, SeqFacts
<1>5. u = [k \in 1..n |-> WithDefinitions(t[k])]
  BY <1>2, <1>4 DEF SetNestedProperties, EachNode
<1>6. u = [k \in 1..n |-> u[k]] /\ \A k \in 1..n : u[k] = WithDefinitions(t[k])
  BY <1>5
<1>7. IsSeq(u) /\ Len(u) = n
  BY <1>6, FunctionIsSeq
<1>8. \A k \in 1..n : /\ ~IsProperty(t[k]) => u[k] = t[k]
                      /\ IsProperty(t[k]) => IsRootNode(u[k]) /\ IsSectionOf(d, t[k], u[k])
  <2> SUFFICES ASSUME NEW k \in 1..n
               PROVE  /\ ~IsProperty(t[k]) => u[k] = t[k]
                      /\ IsProperty(t[k]) => IsRootNode(u[k]) /\ IsSectionOf(d, t[k], u[k])
    OBVIOUS
  <2>1. PICK x, m : x = t[k] /\ m = u[k]
    OBVIOUS
  <2>2. m = WithDefinitions(x)
    BY <1>6, <2>1
  <2>3. ~IsProperty(x) => m = x
    BY <2>2 DEF WithDefinitions, IsNested
  <2>4. /\ IsRootNode(x) /\ x.nested = <<>>
        /\ IsProperty(x) => IsResolved(d, x) /\ HasContent(d, x.at.block, x.children) /\ x.at.block \in SectionsIn(d)
    BY <1>3, <1>4, <2>1 DEF Resolved, IsTree, Holds
  <2>5. IsProperty(x) => IsRootNode(m) /\ IsSectionOf(d, x, m)
    BY <2>2, <2>4, WithDefinitionsFacts
  <2> QED
    BY <2>1, <2>3, <2>5
<1>9. \A k \in 1..n : IsRootNode(t[k]) /\ t[k].nested = <<>>
  BY <1>3, <1>4 DEF Resolved, IsTree
<1>10. \A k \in 1..n : IsRootNode(u[k])
  BY <1>8, <1>9
<1>11. \A k \in 1..n : Holds(u[k]) => Holds(t[k]) /\ u[k].at.block = t[k].at.block
  <2>1. \A k \in 1..n : ~IsProperty(t[k]) /\ Holds(u[k]) => Holds(t[k]) /\ u[k].at.block = t[k].at.block
    BY <1>8
  <2>2. \A k \in 1..n : IsProperty(t[k]) /\ Holds(u[k]) => Holds(t[k]) /\ u[k].at.block = t[k].at.block
    BY <1>8, TypesDiffer DEF Holds, IsSectionOf
  <2> QED
    BY <2>1, <2>2
<1>12. IsTree(d, u)
  BY <1>3, <1>4, <1>7, <1>10, <1>11, TreeMapped
<1>13. Standing(d, u)
  <2>1. \A i \in SectionsIn(d) : \A k \in 1..n : Stands(d, i, t[k]) => Stands(d, i, u[k])
    BY <1>8, SectionStands
  <2> QED
    BY <1>3, <1>4, <1>7, <2>1, StandingFrom
<1>14. \A k \in 1..n : /\ ~IsProperty(u[k]) => u[k].nested = <<>>
                       /\ IsProperty(u[k]) => /\ IsResolved(d, u[k]) /\ Definitions(d, u[k])
                                              /\ ~IsNested(u[k]) => /\ u[k].nested = <<>>
                                                                    /\ HasContent(d, u[k].at.block, u[k].children)
  BY <1>8, <1>9, TypesDiffer DEF IsSectionOf
<1>15. Defined(d, u)
  BY <1>7, <1>12, <1>13, <1>14 DEF Defined
<1>16. Keeps(t, u)
  BY <1>4, <1>7, <1>8, TypesDiffer DEF Keeps
<1> QED
  BY <1>2, <1>15, <1>16

-----------------------------------------------------------------------------
(* What a section says, with and without the problem of a missing title.    *)
LEMMA SameFlattened ==
    ASSUME NEW n \in Nat, NEW s, IsSeq(s), Len(s) = n, \A c \in 1..n : IsSeq(s[c]),
           NEW r, IsSeq(r), Len(r) \in {n, n + 1}, \A c \in 1..n : r[c] = s[c],
           Len(r) = n + 1 => r[n + 1] = <<>>
    PROVE  FlattenSeq(r) = FlattenSeq(s)
<1>1. s = [c \in 1..n |-> s[c]] /\ r = [c \in 1..Len(r) |-> r[c]]
  BY DEF IsSeq
<1>2. CASE Len(r) = n
  BY <1>1, <1>2
<1>3. CASE Len(r) = n + 1
  <2>1. PICK e : e = <<>>
    OBVIOUS
  <2>2. PICK a : a = Append(s, e)
    OBVIOUS
  <2>3. IsSeq(a) /\ Len(a) = n + 1 /\ a[n + 1] = e /\ \A c \in 1..n : a[c] = s[c]
    BY <2>2, AppendSeq
  <2>4. a = [c \in 1..n + 1 |-> a[c]] /\ r = [c \in 1..n + 1 |-> r[c]]
    BY <1>3, <2>3 DEF IsSeq
  <2>5. \A c \in 1..n + 1 : a[c] = r[c]
    <3>1. \A c \in 1..n + 1 : c \in 1..n \/ c = n + 1
      OBVIOUS
    <3> QED
      BY <1>3, <2>1, <2>3, <3>1
  <2>6. a = r
    BY <2>4, <2>5
  <2>7. PICK T : s \in Seq(Seq(T))
    BY SeqOfSeqs
  <2>8. FlattenSeq(Append(s, <<>>)) = FlattenSeq(s)
    BY <2>7, FlattenEmptyEnd
  <2> QED
    BY <2>1, <2>2, <2>6, <2>8
<1> QED
  BY <1>2, <1>3

WordsIn(node) == node.words \o FlattenSeq(node.items)
ItemsIn(node) == [k \in DOMAIN node.items |-> [words |-> node.items[k], at |-> Position(node.at.block, k, 0)]]

LEMMA PartsOf ==
    ASSUME NEW node, node.words \in Seq(STRING), node.items \in Seq(Seq(STRING))
    PROVE  IsSeq(WordsIn(node)) /\ IsSeq(ItemsIn(node))
<1>1. PICK w, s : w = node.words /\ s = node.items
  OBVIOUS
<1>2. IsSeq(w) /\ IsSeq(s) /\ \A k \in 1..Len(s) : IsSeq(s[k])
  <2>1. \A k \in 1..Len(s) : s[k] \in Seq(STRING)
    BY <1>1
  <2> QED
    BY <1>1, <2>1, SeqIsSeq
<1>3. IsSeq(FlattenSeq(s))
  BY <1>2, Flattens
<1>4. IsSeq(WordsIn(node))
  <2>1. PICK f : f = FlattenSeq(s)
    OBVIOUS
  <2>2. IsSeq(w \o f)
    BY <1>2, <1>3, <2>1, ConcatSeqs
  <2> QED
    BY <1>1, <2>1, <2>2 DEF WordsIn
<1>5. IsSeq(ItemsIn(node))
  <2>1. PICK n \in Nat : n = Len(s) /\ DOMAIN s = 1..n
    BY <1>2, SeqFacts
  <2>2. PICK x : x = ItemsIn(node)
    OBVIOUS
  <2>3. x = [k \in 1..n |-> [words |-> node.items[k], at |-> Position(node.at.block, k, 0)]]
    BY <1>1, <2>1, <2>2 DEF ItemsIn
  <2>4. x = [k \in 1..n |-> x[k]]
    BY <2>3
  <2> QED
    BY <2>2, <2>4, FunctionIsSeq
<1> QED
  BY <1>4, <1>5

LEMMA NoParts ==
    ASSUME NEW node, node.words = <<>>, node.items = <<>>
    PROVE  WordsIn(node) = <<>> /\ ItemsIn(node) = <<>>
<1>1. PICK e : e = <<>>
  OBVIOUS
<1>2. FlattenSeq(e) = e
  BY <1>1, EmptyIsSeq DEF FlattenSeq
<1>3. e \o e = e
  BY <1>1
<1>4. WordsIn(node) = <<>>
  BY <1>1, <1>2, <1>3 DEF WordsIn
<1>5. PICK x : x = ItemsIn(node)
  OBVIOUS
<1>6. DOMAIN e = {}
  BY <1>1
<1>7. x = [k \in {} |-> [words |-> node.items[k], at |-> Position(node.at.block, k, 0)]]
  BY <1>1, <1>5, <1>6 DEF ItemsIn
<1>8. x = <<>>
  BY <1>7
<1> QED
  BY <1>4, <1>5, <1>8

\* The blocks of a section as they are in the document.
Plain(d, i) == [k \in 1..EndIn(d, i) - i |-> Node(d[i + k].type, d[i + k].words, d[i + k].items, Position(i + k, 0, 0))]

LEMMA SameWords ==
    ASSUME NEW d \in Documents, NEW i \in SectionsIn(d), NEW blocks, HasContent(d, i, blocks)
    PROVE  Flatten(blocks) = Flatten(Plain(d, i)) /\ ListItems(blocks) = ListItems(Plain(d, i))
<1>1. PICK N \in Nat : N = Len(d) /\ i \in 1..N
  BY DocumentType DEF SectionsIn
<1>2. PICK e \in i..N : e = EndIn(d, i)
  <2>1. i \in 0..Len(d)
    BY <1>1
  <2> QED
    BY <1>1, <2>1, EndInFacts
<1>3. PICK n \in Nat : n = e - i /\ \A c \in 1..n : i + c \in 1..N
  BY <1>1, <1>2
<1>4. PICK p : p = Plain(d, i)
  OBVIOUS
<1>5. IsSeq(p) /\ Len(p) = n /\ \A c \in 1..n : p[c] = Node(d[i + c].type, d[i + c].words, d[i + c].items, Position(i + c, 0, 0))
  <2>1. p = [k \in 1..n |-> Node(d[i + k].type, d[i + k].words, d[i + k].items, Position(i + k, 0, 0))]
    BY <1>2, <1>3, <1>4 DEF Plain
  <2>2. p = [k \in 1..n |-> p[k]] /\ \A c \in 1..n : p[c] = Node(d[i + c].type, d[i + c].words, d[i + c].items, Position(i + c, 0, 0))
    BY <2>1
  <2> QED
    BY <2>2, FunctionIsSeq
<1>6. \A c \in 1..n : p[c].words = d[i + c].words /\ p[c].items = d[i + c].items /\ p[c].at = Position(i + c, 0, 0)
  BY <1>5, NewNode
<1>7. PICK m \in {n, n + 1} : m = Len(blocks)
  BY <1>2, <1>3 DEF HasContent
<1>8. IsSeq(blocks) /\ m \in Nat
  BY <1>7 DEF HasContent
<1>9. \A c \in 1..n : blocks[c].words = p[c].words /\ blocks[c].items = p[c].items /\ blocks[c].at = p[c].at
  BY <1>2, <1>3, <1>6 DEF HasContent
<1>10. m = n + 1 => blocks[n + 1].words = <<>> /\ blocks[n + 1].items = <<>>
  BY <1>2, <1>3, <1>7 DEF HasContent
<1>11. \A c \in 1..n : WordsIn(blocks[c]) = WordsIn(p[c]) /\ ItemsIn(blocks[c]) = ItemsIn(p[c])
  BY <1>9 DEF WordsIn, ItemsIn
<1>12. m = n + 1 => WordsIn(blocks[n + 1]) = <<>> /\ ItemsIn(blocks[n + 1]) = <<>>
  BY <1>10, NoParts
<1>13. \A c \in 1..n : IsSeq(WordsIn(p[c])) /\ IsSeq(ItemsIn(p[c]))
  <2>1. \A c \in 1..n : p[c].words \in Seq(STRING) /\ p[c].items \in Seq(Seq(STRING))
    BY <1>1, <1>3, <1>6, DocumentType
  <2> QED
    BY <2>1, PartsOf
<1>14. DOMAIN p = 1..n /\ DOMAIN blocks = 1..m
  BY <1>5, <1>7, <1>8, SeqFacts
<1>15. Flatten(blocks) = Flatten(p)
  <2>1. PICK s, r : s = [c \in 1..n |-> WordsIn(p[c])] /\ r = [c \in 1..m |-> WordsIn(blocks[c])]
    OBVIOUS
  <2>2. s = [c \in 1..n |-> s[c]] /\ r = [c \in 1..m |-> r[c]]
        /\ (\A c \in 1..n : s[c] = WordsIn(p[c])) /\ (\A c \in 1..m : r[c] = WordsIn(blocks[c]))
    BY <2>1
  <2>3. IsSeq(s) /\ Len(s) = n /\ IsSeq(r) /\ Len(r) = m
    BY <1>8, <2>2, FunctionIsSeq
  <2>4. \A c \in 1..n : c \in 1..m
    BY <1>7
  <2>5. \A c \in 1..n : IsSeq(s[c]) /\ r[c] = s[c]
    BY <1>11, <1>13, <2>2, <2>4
  <2>6. m = n + 1 => r[n + 1] = <<>>
    BY <1>8, <1>12, <2>2
  <2>7. FlattenSeq(r) = FlattenSeq(s)
    BY <1>7, <2>3, <2>5, <2>6, SameFlattened
  <2> QED
    BY <1>14, <2>1, <2>7 DEF Flatten, WordsIn
<1>16. ListItems(blocks) = ListItems(p)
  <2>1. PICK s, r : s = [c \in 1..n |-> ItemsIn(p[c])] /\ r = [c \in 1..m |-> ItemsIn(blocks[c])]
    OBVIOUS
  <2>2. s = [c \in 1..n |-> s[c]] /\ r = [c \in 1..m |-> r[c]]
        /\ (\A c \in 1..n : s[c] = ItemsIn(p[c])) /\ (\A c \in 1..m : r[c] = ItemsIn(blocks[c]))
    BY <2>1
  <2>3. IsSeq(s) /\ Len(s) = n /\ IsSeq(r) /\ Len(r) = m
    BY <1>8, <2>2, FunctionIsSeq
  <2>4. \A c \in 1..n : c \in 1..m
    BY <1>7
  <2>5. \A c \in 1..n : IsSeq(s[c]) /\ r[c] = s[c]
    BY <1>11, <1>13, <2>2, <2>4
  <2>6. m = n + 1 => r[n + 1] = <<>>
    BY <1>8, <1>12, <2>2
  <2>7. FlattenSeq(r) = FlattenSeq(s)
    BY <1>7, <2>3, <2>5, <2>6, SameFlattened
  <2> QED
    BY <1>14, <2>1, <2>7 DEF ListItems, ItemsIn
<1> QED
  BY <1>4, <1>15, <1>16

-----------------------------------------------------------------------------
(* Coercions.                                                               *)
Empty(value) == value \in {<<"text", <<>>>>, <<"document", <<>>>>}
\* A coercion that gives no message gives a value.
Gives(c) == c.message = "" => c.value # Absent

LEMMA PairGives ==
    ASSUME NEW x, NEW y
    PROVE  <<x, y>> # Absent /\ Gives(Valid(<<x, y>>)) /\ (x \notin {"text", "document"} => ~Empty(<<x, y>>))
<1>1. PICK v : v = <<x, y>>
  OBVIOUS
<1>2. Len(v) = 2 /\ v[1] = x
  BY <1>1
<1>3. Len(Absent) = 1
  BY DEF Absent
<1>4. v # Absent
  BY <1>2, <1>3
<1>5. Valid(v).value = v
  BY DEF Valid
<1>6. Empty(v) => v[1] \in {"text", "document"}
  BY DEF Empty
<1> QED
  BY <1>1, <1>2, <1>4, <1>5, <1>6 DEF Gives

LEMMA MessageGives ==
    ASSUME NEW message, message # ""
    PROVE  Gives(Invalid(message))
BY DEF Gives, Invalid

LEMMA PrimitiveGives ==
    ASSUME NEW type, NEW blocks
    PROVE  Gives(CoercePrimitive(type, blocks, FALSE))
<1>1. PICK c, p : c = CoercePrimitive(type, blocks, FALSE) /\ p = PrimitiveTypes[type]
  OBVIOUS
<1>2. Gives(CoerceString(blocks))
  BY PairGives, MessageGives DEF CoerceString
<1>3. Gives(CoerceSubdocument(blocks))
  BY PairGives DEF CoerceSubdocument
<1>4. Gives(CoerceDate(blocks))
  BY PairGives, MessageGives DEF CoerceDate
<1>5. Gives(CoerceNumber(blocks))
  BY PairGives, MessageGives DEF CoerceNumber
<1>6. Gives(CoerceBoolean(blocks))
  <2>1. PICK t : t = Flatten(blocks)
    OBVIOUS
  <2>2. CASE Len(t) = 1 /\ t[1] \in YesWords
    <3>1. CoerceBoolean(blocks) \in {Valid(<<"flag", TRUE>>), Valid(<<"flag", FALSE>>)}
      BY <2>1, <2>2 DEF CoerceBoolean
    <3> QED
      BY <3>1, PairGives
  <2>3. CASE Len(t) = 1 /\ t[1] \in NoWords
    <3>1. CoerceBoolean(blocks) \in {Valid(<<"flag", TRUE>>), Valid(<<"flag", FALSE>>)}
      BY <2>1, <2>3 DEF CoerceBoolean
    <3> QED
      BY <3>1, PairGives
  <2>4. CASE ~(Len(t) = 1 /\ t[1] \in YesWords) /\ ~(Len(t) = 1 /\ t[1] \in NoWords)
    <3>1. CoerceBoolean(blocks) = Invalid("not a boolean")
      BY <2>1, <2>4 DEF CoerceBoolean
    <3> QED
      BY <3>1, MessageGives
  <2> QED
    BY <2>2, <2>3, <2>4
<1>7. CASE p = "String" /\ type \in SubdocumentTypes
  <2>1. c = CoerceSubdocument(blocks)
    BY <1>1, <1>7 DEF CoercePrimitive
  <2> QED
    BY <1>1, <1>3, <2>1
<1>8. CASE p = "String" /\ type \notin SubdocumentTypes
  <2>1. c = CoerceString(blocks)
    BY <1>1, <1>8 DEF CoercePrimitive
  <2> QED
    BY <1>1, <1>2, <2>1
<1>9. CASE p = "Boolean"
  <2>1. c = CoerceBoolean(blocks)
    BY <1>1, <1>9 DEF CoercePrimitive
  <2> QED
    BY <1>1, <1>6, <2>1
<1>10. CASE p \in {"Int", "Float"}
  <2>1. c = CoerceNumber(blocks)
    BY <1>1, <1>10 DEF CoercePrimitive
  <2> QED
    BY <1>1, <1>5, <2>1
<1>11. CASE p \in {"Date", "DateTime"}
  <2>1. c = CoerceDate(blocks)
    BY <1>1, <1>11 DEF CoercePrimitive
  <2> QED
    BY <1>1, <1>4, <2>1
<1>12. CASE p \notin {"String", "Boolean", "Int", "Float", "Date", "DateTime"}
  <2>1. c = Invalid("coercer is not a function")
    BY <1>1, <1>12 DEF CoercePrimitive
  <2> QED
    BY <1>1, <2>1, MessageGives
<1> QED
  BY <1>7, <1>8, <1>9, <1>10, <1>11, <1>12

\* It sees the words and the items, not which blocks they are in.
LEMMA SamePrimitive ==
    ASSUME NEW type, NEW a, NEW b, Flatten(a) = Flatten(b), ListItems(a) = ListItems(b)
    PROVE  CoercePrimitive(type, a, FALSE) = CoercePrimitive(type, b, FALSE)
<1>1. CoerceString(a) = CoerceString(b) /\ CoerceSubdocument(a) = CoerceSubdocument(b)
  BY DEF CoerceString, CoerceSubdocument
<1>2. CoerceDate(a) = CoerceDate(b) /\ CoerceNumber(a) = CoerceNumber(b) /\ CoerceBoolean(a) = CoerceBoolean(b)
  BY DEF CoerceDate, CoerceNumber, CoerceBoolean
<1> QED
  BY <1>1, <1>2 DEF CoercePrimitive

LEMMA EnumGives ==
    ASSUME NEW enum, NEW hasMany, NEW blocks
    PROVE  LET c == CoerceEnum(enum, hasMany, blocks)
           IN Gives(c) /\ (c.message = "" => ~Empty(c.value))
<1> DEFINE parts == CASE blocks # <<>> /\ hasMany -> blocks[1].items
                      [] OTHER -> [i \in DOMAIN blocks |-> Flatten(<<blocks[i]>>)]
<1>1. PICK c : c = CoerceEnum(enum, hasMany, blocks)
  OBVIOUS
<1>2. \/ \E message : message # "" /\ c = Invalid(message)
      \/ \E tag, x : tag \notin {"text", "document"} /\ c = Valid(<<tag, x>>)
  <2>1. CASE blocks = <<>>
    <3>1. c = Invalid("no value")
      BY <1>1, <2>1 DEF CoerceEnum
    <3> QED
      BY <3>1
  <2>2. CASE blocks # <<>> /\ hasMany /\ blocks[1].type # "list"
    <3>1. c = Invalid("not a list of enums")
      BY <1>1, <2>2 DEF CoerceEnum
    <3> QED
      BY <3>1
  <2>3. CASE blocks # <<>> /\ ~hasMany /\ blocks[1].type # "paragraph"
    <3>1. c = Invalid("not a single enum")
      BY <1>1, <2>3 DEF CoerceEnum
    <3> QED
      BY <3>1
  <2>4. CASE /\ blocks # <<>>
             /\ ~(hasMany /\ blocks[1].type # "list") /\ ~(~hasMany /\ blocks[1].type # "paragraph")
    <3>1. c = IF \E k \in DOMAIN parts : ~IsEnumValue(parts[k], Enums[enum]) THEN Invalid("not in the enum")
              ELSE Valid(IF hasMany THEN <<"enums", [k \in DOMAIN parts |-> Trim(parts[k])[1]]>>
                         ELSE <<"enum", Trim(parts[1])[1]>>)
      BY <1>1, <2>4 DEF CoerceEnum
    <3> HIDE DEF parts
    <3>2. CASE \E k \in DOMAIN parts : ~IsEnumValue(parts[k], Enums[enum])
      BY <3>1, <3>2
    <3>3. CASE ~ \E k \in DOMAIN parts : ~IsEnumValue(parts[k], Enums[enum])
      <4>1. CASE hasMany
        <5>1. PICK tag, x : tag = "enums" /\ x = [k \in DOMAIN parts |-> Trim(parts[k])[1]]
          OBVIOUS
        <5>2. c = Valid(<<tag, x>>)
          BY <3>1, <3>3, <4>1, <5>1
        <5> QED
          BY <5>1, <5>2
      <4>2. CASE ~hasMany
        <5>1. PICK tag, x : tag = "enum" /\ x = Trim(parts[1])[1]
          OBVIOUS
        <5>2. c = Valid(<<tag, x>>)
          BY <3>1, <3>3, <4>2, <5>1
        <5> QED
          BY <5>1, <5>2
      <4> QED
        BY <4>1, <4>2
    <3> QED
      BY <3>2, <3>3
  <2> QED
    BY <2>1, <2>2, <2>3, <2>4
<1>3. CASE \E message : message # "" /\ c = Invalid(message)
  <2>0. PICK message : message # "" /\ c = Invalid(message)
    BY <1>3
  <2>1. c.message # ""
    BY <2>0 DEF Invalid
  <2> QED
    BY <1>1, <2>1 DEF Gives
<1>4. CASE \E tag, x : tag \notin {"text", "document"} /\ c = Valid(<<tag, x>>)
  <2>1. PICK tag, x : tag \notin {"text", "document"} /\ c = Valid(<<tag, x>>)
    BY <1>4
  <2>2. c.value = <<tag, x>>
    BY <2>1 DEF Valid
  <2> QED
    BY <1>1, <2>1, <2>2, PairGives
<1> QED
  BY <1>2, <1>3, <1>4

LEMMA CoercionFacts ==
    ASSUME NEW d \in Documents, NEW i \in SectionsIn(d), NEW n, IsResolved(d, n), n.at.block = i, ~ (n.propertyType \in TypeNames),
           HasContent(d, i, n.children)
    PROVE  /\ Gives(Coercion(n))
           /\ Coercion(n).message = "" /\ Empty(Coercion(n).value) => OnlyCommentsIn(d, i)
<1>1. PICK type, blocks, c : type = n.propertyType /\ blocks = n.children /\ c = Coercion(n)
  OBVIOUS
<1>2. PICK r : r = FoundIn(d, i) /\ r # 0 /\ type = Properties[r].type
  BY <1>1 DEF IsResolved
<1>3. CASE type \in DOMAIN PrimitiveTypes
  <2>1. c = IF Flatten(blocks) = <<>> THEN Invalid("no value") ELSE CoercePrimitive(type, blocks, FALSE)
    BY <1>1, <1>3 DEF Coercion
  <2>2. Gives(c)
    BY <2>1, PrimitiveGives, MessageGives
  <2>3. PICK plain : plain = Plain(d, i)
    OBVIOUS
  <2>4. Flatten(blocks) = Flatten(plain) /\ ListItems(blocks) = ListItems(plain)
    BY <1>1, <2>3, SameWords
  <2>5. CoercePrimitive(type, blocks, FALSE) = CoercePrimitive(type, plain, FALSE)
    BY <2>4, SamePrimitive
  <2>6. PICK record : record = [propertyType |-> type, hasMany |-> Properties[r].hasMany, children |-> plain]
    OBVIOUS
  <2>7. record.propertyType = type /\ record.children = plain
    BY <2>6
  <2>8. Coercion(record) = c
    BY <1>3, <2>1, <2>4, <2>5, <2>7 DEF Coercion
  <2>9. SaysIn(d, i) = c.value
    BY <1>2, <2>3, <2>6, <2>8 DEF SaysIn, Plain
  <2>10. Empty(c.value) => OnlyCommentsIn(d, i)
    BY <1>1, <1>2, <2>9 DEF OnlyCommentsIn, Empty
  <2> QED
    BY <1>1, <2>2, <2>10
<1>4. CASE type \notin DOMAIN PrimitiveTypes /\ type \in DOMAIN Enums
  <2>1. c = CoerceEnum(type, n.hasMany, blocks)
    BY <1>1, <1>4 DEF Coercion
  <2> QED
    BY <1>1, <2>1, EnumGives
<1>5. CASE type \notin DOMAIN PrimitiveTypes /\ type \notin DOMAIN Enums
  <2>1. c = Invalid("no type")
    BY <1>1, <1>5 DEF Coercion
  <2>2. c.message # ""
    BY <2>1 DEF Invalid
  <2> QED
    BY <1>1, <2>2 DEF Gives
<1> QED
  BY <1>3, <1>4, <1>5

Keeping(n, nested) == [n EXCEPT !.nested = nested]
LEMMA SetRest ==
    ASSUME NEW n, IsNode(n), NEW nested, NEW z, z = Keeping(n, nested)
    PROVE  /\ IsNode(z) /\ z.type = n.type /\ z.at = n.at /\ z.children = n.children /\ z.nested = nested
           /\ z.message = n.message /\ z.key = n.key /\ z.propertyType = n.propertyType /\ z.hasMany = n.hasMany
           /\ z.value = n.value
<1>1. PICK y, w, i, a, k, t, h, c, d, v, s :
          /\ n = Fields(y, w, i, a, k, t, h, c, d, v, s) /\ y = n.type /\ a = n.at /\ c = n.children /\ s = n.message
          /\ k = n.key /\ t = n.propertyType /\ h = n.hasMany /\ v = n.value
  BY NodeIsFields DEF FieldsOf
<1>2. z = Fields(y, w, i, a, k, t, h, c, nested, v, s)
  BY <1>1 DEF Fields, Keeping
<1>3. PICK p : p = Fields(y, w, i, a, k, t, h, c, nested, v, s)
  OBVIOUS
<1>4. IsNode(p) /\ p.type = y /\ p.at = a /\ p.children = c /\ p.nested = nested /\ p.message = s
      /\ p.key = k /\ p.propertyType = t /\ p.hasMany = h /\ p.value = v
  BY <1>3, FieldsAre
<1> QED
  BY <1>1, <1>2, <1>3, <1>4

\* What is kept of a relationship: its definitions, or a value.
IsLinked(d, n, m) ==
    \/ IsProblem(m) /\ m.at = n.at /\ Definitions(d, m)
    \/ \E value : m = WithValue(n, value) /\ value # Absent /\ ~Empty(value)

LEMMA CoerceNestedFacts ==
    ASSUME NEW d, NEW n, IsRootNode(n), Definitions(d, n)
    PROVE  IsRootNode(CoerceNested(n)) /\ IsLinked(d, n, CoerceNested(n))
<1>1. PICK m, all : m = CoerceNested(n) /\ all = FlattenSeq(n.nested)
  OBVIOUS
<1>2. PICK wrong : wrong = SelectInSeq(all, LAMBDA x : CoerceNestedNode(x).message # "")
  OBVIOUS
<1>3. IsNode(n) /\ IsSeq(n.nested) /\ \A k \in 1..Len(n.nested) : IsSeq(n.nested[k])
  BY DEF IsRootNode
<1>4. CASE wrong # 0
  <2> DEFINE Seen(x) == IF x.propertyType \in DOMAIN Enums /\ CoerceNestedNode(x).value = Absent
                        THEN AsProblem(x, "not in the enum") ELSE x
             Kept(k) == IF k < wrong THEN Seen(all[k]) ELSE all[k]
  <2>1. PICK message, rest : message = CoerceNestedNode(all[wrong]).message /\ rest = [k \in DOMAIN all |-> Kept(k)]
    OBVIOUS
  <2>2. PICK nested : nested = <<rest>>
    OBVIOUS
  <2>3. PICK q : q = AsProblem(n, message)
    OBVIOUS
  <2>4. m = Keeping(q, nested)
    BY <1>1, <1>2, <1>4, <2>1, <2>2, <2>3 DEF CoerceNested, Keeping
  <2>5. IsNode(q) /\ q.type = "problem" /\ q.at = n.at /\ q.children = n.children
    BY <1>3, <2>3, ProblemNode
  <2>6. IsNode(m) /\ m.type = q.type /\ m.at = q.at /\ m.children = q.children /\ m.nested = nested
    BY <2>4, <2>5, SetRest
  <2>7. IsSeq(all) /\ \A p \in 1..Len(all) : IsDefinition(d, n.at.block, all[p])
    <3>1. IsSeq(all) /\ HasMembers(all, n.nested)
      BY <1>1, <1>3, FlattenMembers
    <3> QED
      BY <3>1 DEF HasMembers, Definitions
  <2>8. PICK N \in Nat : N = Len(all) /\ DOMAIN all = 1..N
    BY <2>7, SeqFacts
  <2>9. \A x : IsDefinition(d, n.at.block, x) => IsDefinition(d, n.at.block, Seen(x))
    <3> SUFFICES ASSUME NEW x, IsDefinition(d, n.at.block, x)
                 PROVE  IsDefinition(d, n.at.block, Seen(x))
      OBVIOUS
    <3>1. CASE Seen(x) = x
      BY <3>1
    <3>2. CASE Seen(x) = AsProblem(x, "not in the enum")
      <4>1. PICK text, y : text = "not in the enum" /\ y = Seen(x)
        OBVIOUS
      <4>2. y = AsProblem(x, text)
        BY <3>2, <4>1
      <4>3. IsNode(x)
        BY DEF IsDefinition
      <4>4. IsNode(y) /\ ~IsProperty(y)
        BY <4>2, <4>3, ProblemNode
      <4> QED
        BY <4>1, <4>4 DEF IsDefinition
    <3> QED
      BY <3>1, <3>2
  <2> HIDE DEF Seen
  <2>10. rest = [k \in 1..N |-> rest[k]] /\ \A k \in 1..N : rest[k] \in {Seen(all[k]), all[k]}
    BY <2>1, <2>8
  <2>11. IsSeq(rest) /\ Len(rest) = N
    BY <2>10, FunctionIsSeq
  <2>12. \A k \in 1..N : IsDefinition(d, n.at.block, rest[k])
    BY <2>7, <2>8, <2>9, <2>10
  <2>13. IsSeq(nested) /\ Len(nested) = 1 /\ nested[1] = rest
    <3>1. nested \in Seq({rest}) /\ Len(nested) = 1 /\ nested[1] = rest
      BY <2>2
    <3> QED
      BY <3>1, SeqIsSeq
  <2>14. IsRootNode(m)
    BY <2>5, <2>6, <2>11, <2>13 DEF IsRootNode
  <2>15. Definitions(d, m)
    BY <2>5, <2>6, <2>11, <2>12, <2>13 DEF Definitions
  <2>16. IsLinked(d, n, m)
    BY <2>5, <2>6, <2>15, TypesDiffer DEF IsLinked
  <2> QED
    BY <1>1, <2>14, <2>16
<1>5. CASE wrong = 0
  <2>1. PICK value : value = IF n.hasMany THEN <<"links", [k \in DOMAIN n.nested |-> Link(n.nested[k])]>>
                             ELSE <<"link", Link(n.nested[1])>>
    OBVIOUS
  <2>2. m = WithValue(n, value)
    BY <1>1, <1>2, <1>5, <2>1 DEF CoerceNested
  <2>3. value # Absent /\ ~Empty(value)
    <3>1. CASE n.hasMany
      <4>1. PICK tag, x : tag = "links" /\ x = [k \in DOMAIN n.nested |-> Link(n.nested[k])]
        OBVIOUS
      <4>2. value = <<tag, x>> /\ tag \notin {"text", "document"}
        BY <2>1, <3>1, <4>1
      <4> QED
        BY <4>2, PairGives
    <3>2. CASE ~n.hasMany
      <4>1. PICK tag, x : tag = "link" /\ x = Link(n.nested[1])
        OBVIOUS
      <4>2. value = <<tag, x>> /\ tag \notin {"text", "document"}
        BY <2>1, <3>2, <4>1
      <4> QED
        BY <4>2, PairGives
    <3> QED
      BY <3>1, <3>2
  <2>4. IsRootNode(m)
    <3>1. IsNode(m) /\ m.children = <<>> /\ m.nested = <<>>
      BY <1>3, <2>2, ValuedNode
    <3> QED
      BY <3>1, EmptyIsSeq DEF IsRootNode
  <2>5. IsLinked(d, n, m)
    BY <2>2, <2>3 DEF IsLinked
  <2> QED
    BY <1>1, <2>4, <2>5
<1> QED
  BY <1>4, <1>5

\* The node of a section after the pass.
IsCoerced(d, n, m) ==
    \/ IsProblem(m) /\ m.at = n.at /\ Definitions(d, m)
    \/ /\ IsProperty(m) /\ m.at = n.at /\ IsResolved(d, m) /\ m.value # Absent /\ m.nested = <<>>
       /\ Empty(m.value) => OnlyCommentsIn(d, n.at.block)

LEMMA CoercedFacts ==
    ASSUME NEW d \in Documents, NEW n, IsRootNode(n), IsProperty(n), IsResolved(d, n), Definitions(d, n),
           n.at.block \in SectionsIn(d), ~IsNested(n) => n.nested = <<>> /\ HasContent(d, n.at.block, n.children)
    PROVE  IsRootNode(WithCoercedValue(n)) /\ IsCoerced(d, n, WithCoercedValue(n))
<1>1. PICK i, m : i = n.at.block /\ m = WithCoercedValue(n)
  OBVIOUS
<1>2. \A value : LET z == WithValue(n, value)
                 IN /\ IsRootNode(z) /\ IsProperty(z) /\ z.at = n.at /\ IsResolved(d, z) /\ z.value = value /\ z.nested = <<>>
  <2> SUFFICES ASSUME NEW value
               PROVE  LET z == WithValue(n, value)
                      IN /\ IsRootNode(z) /\ IsProperty(z) /\ z.at = n.at /\ IsResolved(d, z) /\ z.value = value /\ z.nested = <<>>
    OBVIOUS
  <2>1. PICK z : z = WithValue(n, value)
    OBVIOUS
  <2>2. /\ IsNode(z) /\ z.type = n.type /\ z.value = value /\ z.children = <<>> /\ z.nested = <<>>
        /\ z.at = n.at /\ z.key = n.key /\ z.propertyType = n.propertyType /\ z.hasMany = n.hasMany
    BY <2>1, ValuedNode DEF IsRootNode
  <2>3. IsRootNode(z)
    BY <2>2, EmptyIsSeq DEF IsRootNode
  <2>4. IsResolved(d, z)
    BY <2>2 DEF IsResolved
  <2> QED
    BY <2>1, <2>2, <2>3, <2>4, TypesDiffer
<1>3. CASE IsNested(n)
  <2>1. m = CoerceNested(n)
    BY <1>1, <1>3 DEF WithCoercedValue
  <2>2. IsRootNode(m) /\ IsLinked(d, n, m)
    BY <2>1, CoerceNestedFacts
  <2>3. IsCoerced(d, n, m)
    BY <1>2, <2>2 DEF IsLinked, IsCoerced
  <2> QED
    BY <1>1, <2>2, <2>3
<1>4. CASE ~IsNested(n)
  <2>1. PICK c : c = Coercion(n)
    OBVIOUS
  <2>2. m = IF c.message = "" THEN WithValue(n, c.value) ELSE AsProblem(n, c.message)
    BY <1>1, <1>4, <2>1 DEF WithCoercedValue
  <2>3. ~(n.propertyType \in TypeNames) /\ HasContent(d, i, n.children) /\ n.nested = <<>>
    BY <1>1, <1>4 DEF IsNested
  <2>4. Gives(c) /\ (c.message = "" /\ Empty(c.value) => OnlyCommentsIn(d, i))
    BY <1>1, <2>1, <2>3, CoercionFacts
  <2>5. CASE c.message = ""
    <3>1. m = WithValue(n, c.value)
      BY <2>2, <2>5
    <3>2. c.value # Absent
      BY <2>4, <2>5 DEF Gives
    <3>3. IsCoerced(d, n, m)
      BY <1>1, <1>2, <2>4, <2>5, <3>1, <3>2 DEF IsCoerced
    <3> QED
      BY <1>1, <1>2, <3>1, <3>3
  <2>6. CASE c.message # ""
    <3>1. PICK message : message = c.message
      OBVIOUS
    <3>2. m = AsProblem(n, message)
      BY <2>2, <2>6, <3>1
    <3>3. IsNode(m) /\ IsProblem(m) /\ m.at = n.at /\ m.children = n.children /\ m.nested = n.nested
      BY <3>2, ProblemNode DEF IsRootNode
    <3>4. IsRootNode(m)
      BY <3>3 DEF IsRootNode
    <3>5. Definitions(d, m)
      BY <2>3, <3>3, EmptyIsSeq DEF Definitions
    <3>6. IsCoerced(d, n, m)
      BY <3>3, <3>5 DEF IsCoerced
    <3> QED
      BY <1>1, <3>4, <3>6
  <2> QED
    BY <2>5, <2>6
<1> QED
  BY <1>3, <1>4

Selects(c, S, u) == S \in SUBSET (1..Len(c)) /\ Len(c) \in Nat /\ u = At(c, S)
LEMMA ChosenTree ==
    ASSUME NEW d, NEW c, IsTree(d, c), NEW S, NEW u, Selects(c, S, u)
    PROVE  /\ IsTree(d, u)
           /\ \A k \in 1..Len(u) : \E j \in S : u[k] = c[j]
           /\ \A j \in S : \E k \in 1..Len(u) : u[k] = c[j]
<1>1. PICK f, m : f = InOrder(S) /\ m = Cardinality(S)
  OBVIOUS
<1>0. /\ IsSeq(At(c, S)) /\ Len(At(c, S)) = Cardinality(S) /\ Cardinality(S) \in Nat
      /\ InOrder(S) \in [1..Cardinality(S) -> S]
      /\ \A k \in 1..Cardinality(S) : At(c, S)[k] = c[InOrder(S)[k]]
      /\ \A k, l \in 1..Cardinality(S) : k < l <=> InOrder(S)[k] < InOrder(S)[l]
      /\ \A i \in S : \E k \in 1..Cardinality(S) : InOrder(S)[k] = i /\ At(c, S)[k] = c[i]
  <2>1. PICK n \in Nat : n = Len(c) /\ S \in SUBSET (1..n)
    BY DEF Selects
  <2> QED
    BY <2>1, AtFacts DEF IsAt
<1>9. u = At(c, S) /\ S \in SUBSET (1..Len(c))
  BY DEF Selects
<1>2. /\ IsSeq(u) /\ Len(u) = m /\ f \in [1..m -> S] /\ m \in Nat
      /\ \A k \in 1..m : u[k] = c[f[k]]
      /\ \A k, l \in 1..m : k < l <=> f[k] < f[l]
      /\ \A j \in S : \E k \in 1..m : f[k] = j /\ u[k] = c[j]
  BY <1>0, <1>1, <1>9
<1>3. \A k \in 1..m : f[k] \in S /\ f[k] \in 1..Len(c)
  BY <1>2, <1>9
<1>4. \A k \in 1..m : IsRootNode(u[k])
  BY <1>2, <1>3 DEF IsTree
<1>5. ComesFrom(c, u, f)
  BY <1>2, <1>3, <1>4 DEF ComesFrom
<1>6. IsTree(d, u)
  BY <1>5, TreeFrom
<1> QED
  BY <1>2, <1>3, <1>6

LEMMA CoercedStands ==
    ASSUME NEW d \in Documents, NEW i \in SectionsIn(d), NEW n, IsProperty(n), Stands(d, i, n), NEW m, IsCoerced(d, n, m)
    PROVE  Stands(d, i, m) /\ (IsOmitted(m) => OnlyCommentsIn(d, i))
<1>1. n.at.block = i
  BY TypesDiffer DEF Stands
<1>2. CASE IsProblem(m)
  BY <1>2, ProblemStands, TypesDiffer DEF IsCoerced, IsOmitted
<1>3. CASE ~IsProblem(m)
  BY <1>1, <1>3 DEF IsCoerced, IsOmitted, Stands, Empty
<1> QED
  BY <1>2, <1>3

LEMMA CoerceStep ==
    ASSUME ParseInv, CoerceProperties
    PROVE  Valued(document, tree') /\ Keeps(tree, tree')
<1>1. pass = 6 /\ document \in Documents /\ Defined(document, tree)
  BY PassIs DEF ParseInv, CoerceProperties
<1>2. PICK d \in Documents, t \in {tree}, u \in {tree'} : d = document /\ t = tree /\ u = tree'
  BY <1>1
<1>3. Defined(d, t) /\ IsSeq(t) /\ IsTree(d, t) /\ Standing(d, t)
  BY <1>1, <1>2 DEF Defined, IsTree
<1>4. PICK n \in Nat : n = Len(t) /\ DOMAIN t = 1..n
  BY <1>3, SeqFacts
<1>5. PICK c : c = [k \in 1..n |-> WithCoercedValue(t[k])]
  OBVIOUS
<1>6. c = [k \in 1..n |-> c[k]] /\ (\A k \in 1..n : c[k] = WithCoercedValue(t[k])) /\ DOMAIN c = 1..n
  BY <1>5
<1>7. IsSeq(c) /\ Len(c) = n
  BY <1>6, FunctionIsSeq
<1> DEFINE S == {k \in 1..n : ~IsOmitted(c[k])}
<1>8. u = At(c, S)
  <2>1. u = Chosen(c, LAMBDA x : ~IsOmitted(x))
    BY <1>2, <1>4, <1>5 DEF CoerceProperties
  <2> QED
    BY <1>6, <2>1 DEF Chosen, At
<1>9. S \in SUBSET (1..n) /\ \A k \in 1..n : k \in S <=> ~IsOmitted(c[k])
  OBVIOUS
<1> HIDE DEF S
<1>10. \A k \in 1..n : /\ ~IsProperty(t[k]) => c[k] = t[k]
                       /\ IsProperty(t[k]) => IsRootNode(c[k]) /\ IsCoerced(d, t[k], c[k])
  <2> SUFFICES ASSUME NEW k \in 1..n
               PROVE  /\ ~IsProperty(t[k]) => c[k] = t[k]
                      /\ IsProperty(t[k]) => IsRootNode(c[k]) /\ IsCoerced(d, t[k], c[k])
    OBVIOUS
  <2>1. PICK x, m : x = t[k] /\ m = c[k]
    OBVIOUS
  <2>2. m = WithCoercedValue(x)
    BY <1>6, <2>1
  <2>3. ~IsProperty(x) => m = x
    BY <2>2 DEF WithCoercedValue, IsNested
  <2>4. /\ IsRootNode(x)
        /\ IsProperty(x) => /\ IsResolved(d, x) /\ Definitions(d, x) /\ x.at.block \in SectionsIn(d)
                            /\ ~IsNested(x) => x.nested = <<>> /\ HasContent(d, x.at.block, x.children)
    BY <1>3, <1>4, <2>1 DEF Defined, IsTree, Holds
  <2>5. IsProperty(x) => IsRootNode(m) /\ IsCoerced(d, x, m)
    BY <2>2, <2>4, CoercedFacts
  <2> QED
    BY <2>1, <2>3, <2>5
<1>11. \A k \in 1..n : IsRootNode(t[k]) /\ (~IsProperty(t[k]) => t[k].nested = <<>>) /\ (IsProperty(t[k]) => IsResolved(d, t[k]))
  BY <1>3, <1>4 DEF Defined, IsTree
<1>12. \A k \in 1..n : IsRootNode(c[k])
  BY <1>10, <1>11
<1>13. \A k \in 1..n : Holds(c[k]) => Holds(t[k]) /\ c[k].at.block = t[k].at.block
  <2>1. \A k \in 1..n : ~IsProperty(t[k]) /\ Holds(c[k]) => Holds(t[k]) /\ c[k].at.block = t[k].at.block
    BY <1>10
  <2>2. \A k \in 1..n : IsProperty(t[k]) /\ Holds(c[k]) => Holds(t[k]) /\ c[k].at.block = t[k].at.block
    BY <1>10 DEF Holds, IsCoerced
  <2> QED
    BY <2>1, <2>2
<1>14. IsTree(d, c)
  BY <1>3, <1>4, <1>7, <1>12, <1>13, TreeMapped
<1>15. /\ IsTree(d, u)
       /\ \A k \in 1..Len(u) : \E j \in S : u[k] = c[j]
       /\ \A j \in S : \E k \in 1..Len(u) : u[k] = c[j]
  <2>1. Selects(c, S, u)
    BY <1>7, <1>8, <1>9 DEF Selects
  <2> QED
    BY <1>14, <2>1, ChosenTree
<1>16. \A k \in 1..n : IsValued(d, c[k])
  <2> SUFFICES ASSUME NEW k \in 1..n
               PROVE  IsValued(d, c[k])
    OBVIOUS
  <2>1. CASE ~IsProperty(t[k])
    BY <1>10, <1>11, <2>1 DEF IsValued
  <2>2. CASE IsProperty(t[k]) /\ IsProblem(c[k])
    <3>1. FoundIn(d, c[k].at.block) # 0
      BY <1>10, <1>11, <2>2, TypesDiffer DEF IsCoerced, IsResolved
    <3> QED
      BY <1>10, <2>2, <3>1, TypesDiffer DEF IsValued, IsCoerced
  <2>3. CASE IsProperty(t[k]) /\ ~IsProblem(c[k])
    BY <1>10, <2>3 DEF IsValued, IsCoerced
  <2> QED
    BY <2>1, <2>2, <2>3
<1>17. \A k \in 1..Len(u) : IsValued(d, u[k])
  BY <1>9, <1>15, <1>16
<1>18. \A i \in SectionsIn(d) : OnlyCommentsIn(d, i) \/ \E k \in 1..Len(u) : Stands(d, i, u[k])
  <2> SUFFICES ASSUME NEW i \in SectionsIn(d), ~OnlyCommentsIn(d, i)
               PROVE  \E k \in 1..Len(u) : Stands(d, i, u[k])
    OBVIOUS
  <2>1. PICK k \in 1..n : Stands(d, i, t[k])
    BY <1>3, <1>4 DEF Standing
  <2>2. Stands(d, i, c[k]) /\ ~IsOmitted(c[k])
    <3>1. CASE IsProperty(t[k])
      BY <1>10, <2>1, <3>1, CoercedStands
    <3>2. CASE ~IsProperty(t[k])
      BY <1>10, <2>1, <3>2 DEF IsOmitted
    <3> QED
      BY <3>1, <3>2
  <2> QED
    BY <1>9, <1>15, <2>2
<1>19. Valued(d, u)
  BY <1>15, <1>17, <1>18 DEF Valued
<1>20. Keeps(t, u)
  <2> SUFFICES ASSUME NEW k \in 1..n, IsProblem(t[k])
               PROVE  \E l \in 1..Len(u) : IsProblem(u[l]) /\ u[l].message = t[k].message /\ u[l].at = t[k].at
    BY <1>4 DEF Keeps
  <2>1. c[k] = t[k] /\ ~IsOmitted(c[k])
    BY <1>10, TypesDiffer DEF IsOmitted
  <2> QED
    BY <1>9, <1>15, <2>1
<1> QED
  BY <1>2, <1>19, <1>20

-----------------------------------------------------------------------------
(* The seventh pass.                                                        *)
LEMMA ValidatedFacts ==
    ASSUME NEW x
    PROVE  \/ Validated(x) = x /\ (IsProperty(x) => ValidateProperty(x.key, x.value))
           \/ IsProperty(x) /\ \E message : Validated(x) = AsProblem(x, message)
<1>1. CASE ~IsProperty(x)
  BY <1>1 DEF Validated
<1>2. CASE IsProperty(x) /\ x.key \in Blacklist
  <2>1. Validated(x) = AsProblem(x, "not permitted")
    BY <1>2 DEF Validated
  <2> QED
    BY <1>2, <2>1
<1>3. CASE IsProperty(x) /\ x.key \notin Blacklist
  <2>1. Validated(x) = IF ValidateProperty(x.key, x.value) THEN x ELSE AsProblem(x, "invalid value")
    BY <1>3 DEF Validated
  <2>2. CASE ValidateProperty(x.key, x.value)
    BY <2>1, <2>2
  <2>3. CASE ~ValidateProperty(x.key, x.value)
    <3>1. Validated(x) = AsProblem(x, "invalid value")
      BY <2>1, <2>3
    <3> QED
      BY <1>3, <3>1
  <2> QED
    BY <2>2, <2>3
<1> QED
  BY <1>1, <1>2, <1>3

AllValidated(parts) == [k \in DOMAIN parts |-> [j \in DOMAIN parts[k] |-> Validated(parts[k][j])]]
Both(n) == Keeping(Validated(n), AllValidated(n.nested))

IsAccepted(x) == IsProperty(x) => ValidateProperty(x.key, Absent)
NestedAccepted(n) == \A l \in 1..Len(n.nested) : \A j \in 1..Len(n.nested[l]) : IsAccepted(n.nested[l][j])

LEMMA AllValidatedFacts ==
    ASSUME NEW d, NEW i, NEW parts, IsSeq(parts), \A k \in 1..Len(parts) : IsSeq(parts[k])
    PROVE  LET u == AllValidated(parts)
           IN /\ IsSeq(u) /\ Len(u) = Len(parts) /\ \A k \in 1..Len(parts) : IsSeq(u[k]) /\ Len(u[k]) = Len(parts[k])
              /\ \A k \in 1..Len(parts) : \A j \in 1..Len(parts[k]) : u[k][j] = Validated(parts[k][j])
<1>1. PICK n \in Nat : n = Len(parts) /\ DOMAIN parts = 1..n
  BY SeqFacts
<1> DEFINE Row(k) == [j \in DOMAIN parts[k] |-> Validated(parts[k][j])]
<1>2. PICK u : u = AllValidated(parts)
  OBVIOUS
<1>3. u = [k \in 1..n |-> Row(k)]
  BY <1>1, <1>2 DEF AllValidated
<1>4. \A k \in 1..n : /\ IsSeq(Row(k)) /\ Len(Row(k)) = Len(parts[k])
                      /\ \A j \in 1..Len(parts[k]) : Row(k)[j] = Validated(parts[k][j])
  <2> SUFFICES ASSUME NEW k \in 1..n
               PROVE  /\ IsSeq(Row(k)) /\ Len(Row(k)) = Len(parts[k])
                      /\ \A j \in 1..Len(parts[k]) : Row(k)[j] = Validated(parts[k][j])
    OBVIOUS
  <2>1. PICK m \in Nat, p \in {parts[k]} : m = Len(p) /\ DOMAIN p = 1..m
    BY <1>1, SeqFacts
  <2>2. p = parts[k]
    BY <2>1
  <2>3. PICK r : r = Row(k)
    OBVIOUS
  <2>4. r = [j \in 1..m |-> Validated(p[j])]
    BY <2>1, <2>2, <2>3
  <2>5. r = [j \in 1..m |-> r[j]] /\ \A j \in 1..m : r[j] = Validated(p[j])
    BY <2>4
  <2>6. IsSeq(r) /\ Len(r) = m
    BY <2>5, FunctionIsSeq
  <2> HIDE DEF Row
  <2> QED
    BY <2>1, <2>2, <2>3, <2>5, <2>6
<1> HIDE DEF Row
<1>5. u = [k \in 1..n |-> u[k]] /\ \A k \in 1..n : u[k] = Row(k)
  BY <1>3
<1>6. IsSeq(u) /\ Len(u) = n
  BY <1>5, FunctionIsSeq
<1> QED
  BY <1>1, <1>2, <1>4, <1>5, <1>6

LEMMA DefinitionValidated ==
    ASSUME NEW d, NEW i, NEW x, IsDefinition(d, i, x)
    PROVE  IsDefinition(d, i, Validated(x)) /\ IsAccepted(Validated(x))
<1>1. PICK y : y = Validated(x)
  OBVIOUS
<1>2. IsNode(x)
  BY DEF IsDefinition
<1>3. CASE y = x /\ (IsProperty(x) => ValidateProperty(x.key, x.value))
  BY <1>1, <1>3 DEF IsDefinition, IsAccepted
<1>4. CASE \E message : y = AsProblem(x, message)
  <2>1. IsNode(y) /\ ~IsProperty(y)
    BY <1>2, <1>4, ProblemNode
  <2> QED
    BY <1>1, <2>1 DEF IsDefinition, IsAccepted
<1> QED
  BY <1>1, <1>3, <1>4, ValidatedFacts

IsCheckedOf(d, n, m) ==
    /\ IsRootNode(m) /\ IsValued(d, m) /\ NestedAccepted(m)
    /\ m.at = n.at /\ (Holds(m) => Holds(n))
    /\ IsProperty(n) => IsProperty(m) \/ IsProblem(m)
    /\ IsProblem(n) => IsProblem(m) /\ m.message = n.message

LEMMA BothFacts ==
    ASSUME NEW d, NEW n, IsRootNode(n), IsValued(d, n)
    PROVE  IsCheckedOf(d, n, Both(n))
<1>1. PICK m, q, nested : m = Both(n) /\ q = Validated(n) /\ nested = AllValidated(n.nested)
  OBVIOUS
<1>2. m = Keeping(q, nested)
  BY <1>1 DEF Both
<1>3. IsNode(n) /\ IsSeq(n.children) /\ (\A k \in 1..Len(n.children) : n.children[k].type # "property")
      /\ IsSeq(n.nested) /\ \A k \in 1..Len(n.nested) : IsSeq(n.nested[k])
  BY DEF IsRootNode
<1>4. /\ IsNode(q) /\ q.children = n.children /\ q.at = n.at
      /\ q = n \/ (IsProperty(n) /\ IsProblem(q))
  <2>1. CASE q = n
    BY <1>3, <2>1
  <2>2. CASE IsProperty(n) /\ \E message : q = AsProblem(n, message)
    BY <1>3, <2>2, ProblemNode
  <2> QED
    BY <1>1, <2>1, <2>2, ValidatedFacts
<1>5. /\ IsNode(m) /\ m.type = q.type /\ m.at = q.at /\ m.children = q.children /\ m.nested = nested
      /\ m.message = q.message /\ m.key = q.key /\ m.propertyType = q.propertyType /\ m.hasMany = q.hasMany
      /\ m.value = q.value
  BY <1>2, <1>4, SetRest
<1>6. PICK N \in Nat : N = Len(n.nested)
  BY <1>3, SeqFacts
<1>7. /\ IsSeq(nested) /\ Len(nested) = N /\ \A k \in 1..N : IsSeq(nested[k]) /\ Len(nested[k]) = Len(n.nested[k])
      /\ \A k \in 1..N : \A j \in 1..Len(n.nested[k]) : nested[k][j] = Validated(n.nested[k][j])
  BY <1>1, <1>3, <1>6, AllValidatedFacts
<1>8. IsRootNode(m)
  BY <1>3, <1>4, <1>5, <1>7 DEF IsRootNode
<1>9. n.nested = <<>> => nested = <<>>
  <2>1. n.nested = <<>> => Len(nested) = 0
    BY <1>6, <1>7, EmptyIsSeq
  <2>2. nested \in Seq(Items(nested))
    BY <1>7, SeqFacts
  <2> QED
    BY <2>1, <2>2, EmptyIs
<1>10. n.nested # <<>> => Definitions(d, m) /\ NestedAccepted(m)
  <2> SUFFICES ASSUME n.nested # <<>>
               PROVE  Definitions(d, m) /\ NestedAccepted(m)
    OBVIOUS
  <2>1. \A k \in 1..N : \A j \in 1..Len(n.nested[k]) : IsDefinition(d, n.at.block, n.nested[k][j])
    BY <1>6 DEF IsValued, Definitions
  <2>2. \A k \in 1..N : \A j \in 1..Len(n.nested[k]) : IsDefinition(d, n.at.block, nested[k][j]) /\ IsAccepted(nested[k][j])
    BY <1>7, <2>1, DefinitionValidated
  <2> QED
    BY <1>4, <1>5, <1>7, <2>2 DEF Definitions, NestedAccepted
<1>11. NestedAccepted(m)
  <2>1. nested = <<>> => NestedAccepted(m)
    BY <1>5, EmptyIsSeq DEF NestedAccepted
  <2> QED
    BY <1>9, <1>10, <2>1
<1>12. IsValued(d, m)
  <2>1. CASE q = n
    BY <1>5, <1>9, <1>10, <2>1, TypesDiffer DEF IsValued, IsResolved
  <2>2. CASE IsProperty(n) /\ IsProblem(q)
    <3>1. n.nested = <<>>
      BY <2>2 DEF IsValued
    <3> QED
      BY <1>5, <1>9, <2>2, <3>1, TypesDiffer DEF IsValued
  <2> QED
    BY <1>4, <2>1, <2>2
<1>13. Holds(m) => Holds(n)
  BY <1>4, <1>5, <1>9, TypesDiffer DEF Holds
<1>14. IsProperty(n) => IsProperty(m) \/ IsProblem(m)
  BY <1>4, <1>5, TypesDiffer
<1>15. IsProblem(n) => IsProblem(m) /\ m.message = n.message
  BY <1>4, <1>5, TypesDiffer
<1> QED
  BY <1>1, <1>4, <1>5, <1>8, <1>11, <1>12, <1>13, <1>14, <1>15 DEF IsCheckedOf

LEMMA CheckedStands ==
    ASSUME NEW d \in Documents, NEW i \in SectionsIn(d), NEW n, Stands(d, i, n), NEW m, IsCheckedOf(d, n, m)
    PROVE  Stands(d, i, m)
<1>1. CASE IsProblem(m)
  <2>1. m.at.block = n.at.block
    BY DEF IsCheckedOf
  <2> QED
    BY <1>1, <2>1, ProblemStands
<1>2. CASE ~IsProblem(m)
  BY <1>2 DEF IsCheckedOf, Stands
<1> QED
  BY <1>1, <1>2

LEMMA ValidateStep ==
    ASSUME ParseInv, ValidateProperties
    PROVE  Checked(document, tree') /\ Keeps(tree, tree')
<1>1. pass = 7 /\ document \in Documents /\ Valued(document, tree)
  BY PassIs DEF ParseInv, ValidateProperties
<1>2. PICK d \in Documents, t \in {tree}, u \in {tree'} : d = document /\ t = tree /\ u = tree'
  BY <1>1
<1>3. Valued(d, t) /\ IsSeq(t) /\ IsTree(d, t)
  BY <1>1, <1>2 DEF Valued, IsTree
<1>4. PICK n \in Nat : n = Len(t) /\ DOMAIN t = 1..n
  BY <1>3, SeqFacts
<1>5. u = [k \in 1..n |-> Both(t[k])]
  BY <1>2, <1>4 DEF ValidateProperties, EachNode, Both, Keeping, AllValidated
<1>6. u = [k \in 1..n |-> u[k]] /\ \A k \in 1..n : u[k] = Both(t[k])
  BY <1>5
<1>7. IsSeq(u) /\ Len(u) = n
  BY <1>6, FunctionIsSeq
<1>8. \A k \in 1..n : IsCheckedOf(d, t[k], u[k])
  <2>1. \A k \in 1..n : IsRootNode(t[k]) /\ IsValued(d, t[k])
    BY <1>3, <1>4 DEF Valued, IsTree
  <2>2. \A k \in 1..n : IsCheckedOf(d, t[k], Both(t[k]))
    BY <2>1, BothFacts
  <2> QED
    BY <1>6, <2>2
<1>9. IsTree(d, u)
  <2>1. \A k \in 1..n : IsRootNode(u[k])
    BY <1>8 DEF IsCheckedOf
  <2>2. \A k \in 1..n : Holds(u[k]) => Holds(t[k]) /\ u[k].at.block = t[k].at.block
    BY <1>8 DEF IsCheckedOf
  <2> QED
    BY <1>3, <1>4, <1>7, <2>1, <2>2, TreeMapped
<1>10. \A i \in SectionsIn(d) : OnlyCommentsIn(d, i) \/ \E k \in 1..Len(u) : Stands(d, i, u[k])
  <2>1. \A i \in SectionsIn(d) : OnlyCommentsIn(d, i) \/ \E k \in 1..n : Stands(d, i, t[k])
    BY <1>3, <1>4 DEF Valued
  <2>2. \A i \in SectionsIn(d) : \A k \in 1..n : Stands(d, i, t[k]) => Stands(d, i, u[k])
    BY <1>8, CheckedStands
  <2> QED
    BY <1>7, <2>1, <2>2
<1>11. \A k \in 1..n : IsValued(d, u[k]) /\ NestedAccepted(u[k])
  BY <1>8 DEF IsCheckedOf
<1>12. Valued(d, u)
  BY <1>7, <1>9, <1>10, <1>11 DEF Valued
<1>13. Checked(d, u)
  BY <1>7, <1>11, <1>12 DEF Checked, NestedAccepted, IsAccepted
<1>14. Keeps(t, u)
  BY <1>4, <1>7, <1>8 DEF Keeps, IsCheckedOf
<1> QED
  BY <1>2, <1>13, <1>14

-----------------------------------------------------------------------------
(* The last pass.                                                           *)
PartOf(n) == <<n>> \o n.children \o FlattenSeq(n.nested)
Within(n, x) ==
    \/ x = n
    \/ \E j \in 1..Len(n.children) : x = n.children[j]
    \/ \E l \in 1..Len(n.nested) : \E j \in 1..Len(n.nested[l]) : x = n.nested[l][j]

LEMMA PartFacts ==
    ASSUME NEW n, IsRootNode(n)
    PROVE  LET s == PartOf(n)
           IN /\ IsSeq(s) /\ 1 \in 1..Len(s) /\ s[1] = n
              /\ \A j \in 1..Len(s) : Within(n, s[j])
<1>1. PICK a, b, c : a = <<n>> /\ b = n.children /\ c = FlattenSeq(n.nested)
  OBVIOUS
<1>2. IsSeq(b) /\ IsSeq(n.nested) /\ \A l \in 1..Len(n.nested) : IsSeq(n.nested[l])
  BY <1>1 DEF IsRootNode
<1>3. IsSeq(c) /\ HasMembers(c, n.nested)
  BY <1>1, <1>2, FlattenMembers
<1>4. IsSeq(a) /\ Len(a) = 1 /\ a[1] = n
  <2>1. a \in Seq({n}) /\ Len(a) = 1 /\ a[1] = n
    BY <1>1
  <2> QED
    BY <2>1, SeqIsSeq
<1>5. PICK p, q : p \in Nat /\ q \in Nat /\ p = Len(b) /\ q = Len(c)
  BY <1>2, <1>3, SeqFacts
<1>6. PICK ab : ab = a \o b
  OBVIOUS
<1>7. /\ IsSeq(ab) /\ Len(ab) = 1 + p /\ (\A j \in 1..1 : ab[j] = a[j])
      /\ \A j \in 1..p : ab[1 + j] = b[j]
  <2>1. /\ IsSeq(a \o b) /\ Len(a \o b) = Len(a) + Len(b) /\ (\A j \in 1..Len(a) : (a \o b)[j] = a[j])
        /\ \A j \in 1..Len(b) : (a \o b)[Len(a) + j] = b[j]
    <3>1. IsSeq(a) /\ IsSeq(b)
      BY <1>2, <1>4
    <3> QED
      BY <3>1, ConcatSeqs
  <2> QED
    BY <1>4, <1>5, <1>6, <2>1
<1>8. PICK s : s = ab \o c
  OBVIOUS
<1>9. /\ IsSeq(s) /\ Len(s) = (1 + p) + q /\ (\A j \in 1..1 + p : s[j] = ab[j])
      /\ \A j \in 1..q : s[(1 + p) + j] = c[j]
  <2>1. /\ IsSeq(ab \o c) /\ Len(ab \o c) = Len(ab) + Len(c) /\ (\A j \in 1..Len(ab) : (ab \o c)[j] = ab[j])
        /\ \A j \in 1..Len(c) : (ab \o c)[Len(ab) + j] = c[j]
    BY <1>3, <1>7, ConcatSeqs
  <2> QED
    BY <1>5, <1>7, <1>8, <2>1
<1>10. s = PartOf(n)
  BY <1>1, <1>6, <1>8 DEF PartOf
<1>11. s[1] = n /\ 1 \in 1..Len(s)
  <2>1. 1 \in 1..1 /\ 1 \in 1..1 + p /\ 1 \in 1..(1 + p) + q
    BY <1>5
  <2> QED
    BY <1>4, <1>7, <1>9, <2>1
<1>12. \A j \in 1..Len(s) : Within(n, s[j])
  <2> SUFFICES ASSUME NEW j \in 1..Len(s)
               PROVE  Within(n, s[j])
    OBVIOUS
  <2>1. CASE j = 1
    BY <1>11, <2>1 DEF Within
  <2>2. CASE j # 1 /\ j <= 1 + p
    <3>1. PICK k \in 1..p : j = 1 + k
      <4>1. j - 1 \in 1..p /\ j = 1 + (j - 1)
        BY <1>5, <1>9, <2>2
      <4> QED
        BY <4>1
    <3>2. s[j] = b[k]
      BY <1>5, <1>7, <1>9, <3>1
    <3> QED
      BY <1>1, <1>5, <3>2 DEF Within
  <2>3. CASE j > 1 + p
    <3>1. PICK k \in 1..q : j = (1 + p) + k
      <4>1. j - (1 + p) \in 1..q /\ j = (1 + p) + (j - (1 + p))
        BY <1>5, <1>9, <2>3
      <4> QED
        BY <4>1
    <3>2. s[j] = c[k]
      BY <1>9, <3>1
    <3>3. k \in 1..Len(c)
      BY <1>5
    <3>4. \E x \in 1..Len(n.nested) : \E y \in 1..Len(n.nested[x]) : c[k] = n.nested[x][y]
      BY <1>3, <3>3 DEF HasMembers
    <3> QED
      BY <3>2, <3>4 DEF Within
  <2> QED
    BY <1>5, <1>9, <2>1, <2>2, <2>3
<1> QED
  BY <1>9, <1>10, <1>11, <1>12

\* The nodes under the root are visited in their order, each before what it holds.
InVisit(t, v, off) ==
    /\ \A k \in 1..Len(t) : off[k] \in Nat /\ off[k] + 1 \in 1..Len(v) /\ v[off[k] + 1] = t[k]
    /\ \A p \in 1..Len(v) : \E k \in 1..Len(t) : /\ Within(t[k], v[p])
                                                 /\ \A l \in 1..Len(t) : k < l => p <= off[l]

LEMMA VisitFacts ==
    ASSUME NEW t, IsSeq(t), \A k \in 1..Len(t) : IsRootNode(t[k])
    PROVE  IsSeq(Visited(t)) /\ \E off : InVisit(t, Visited(t), off)
<1>1. PICK n \in Nat : n = Len(t) /\ DOMAIN t = 1..n
  BY SeqFacts
<1>2. PICK s : s = [k \in 1..n |-> PartOf(t[k])]
  OBVIOUS
<1>3. s = [k \in 1..n |-> s[k]] /\ \A k \in 1..n : s[k] = PartOf(t[k])
  BY <1>2
<1>4. IsSeq(s) /\ Len(s) = n
  BY <1>3, FunctionIsSeq
<1>5. \A k \in 1..n : IsSeq(s[k]) /\ 1 \in 1..Len(s[k]) /\ s[k][1] = t[k] /\ \A j \in 1..Len(s[k]) : Within(t[k], s[k][j])
  BY <1>1, <1>3, PartFacts
<1>6. PICK v : v = Visited(t)
  OBVIOUS
<1>7. v = FlattenSeq(s)
  BY <1>1, <1>2, <1>6 DEF Visited, PartOf
<1>8. IsSeq(v) /\ \E off : Joined(s, n, v, off)
  BY <1>4, <1>5, <1>7, Flattens
<1>9. PICK off : Joined(s, n, v, off)
  BY <1>8
<1>10. \A k \in 1..n : Len(s[k]) \in Nat
  BY <1>5, SeqFacts
<1>11. off \in [1..n + 1 -> Nat] /\ \A k \in 1..n : \A j \in 1..Len(s[k]) : off[k] + j \in DOMAIN v /\ v[off[k] + j] = s[k][j]
  BY <1>9 DEF Joined
<1>12. DOMAIN v = 1..Len(v)
  BY <1>8, SeqFacts
<1>13. \A k \in 1..n : off[k] \in Nat /\ off[k] + 1 \in 1..Len(v) /\ v[off[k] + 1] = t[k]
  <2>1. \A k \in 1..n : k \in 1..n + 1
    OBVIOUS
  <2> QED
    BY <1>5, <1>11, <1>12, <2>1
<1>14. \A k, l \in 1..n : k < l => off[k] + Len(s[k]) <= off[l]
  BY <1>9, <1>10, OffsetsGrow
<1>15. \A p \in 1..Len(v) : \E k \in 1..n : /\ Within(t[k], v[p])
                                            /\ \A l \in 1..n : k < l => p <= off[l]
  <2> SUFFICES ASSUME NEW p \in 1..Len(v)
               PROVE  \E k \in 1..n : /\ Within(t[k], v[p])
                                      /\ \A l \in 1..n : k < l => p <= off[l]
    OBVIOUS
  <2>5. Sized(s, n)
    BY <1>10 DEF Sized
  <2>6. CoveredAt(s, n, v, off, p)
    BY <1>9, <2>5, JoinedCovers
  <2>1. PICK k \in 1..n : \E j \in 1..Len(s[k]) : p = off[k] + j /\ v[p] = s[k][j]
    BY <2>6 DEF CoveredAt
  <2>2. PICK j \in 1..Len(s[k]) : p = off[k] + j /\ v[p] = s[k][j]
    BY <2>1
  <2>3. ASSUME NEW l \in 1..n, k < l
        PROVE  p <= off[l]
    <3>1. off[k] + Len(s[k]) <= off[l]
      BY <1>14, <2>3
    <3>2. PICK x \in Nat, y \in Nat, z \in Nat : x = off[k] /\ y = Len(s[k]) /\ z = off[l]
      BY <1>10, <1>13
    <3>3. x + y <= z /\ p = x + j /\ j \in Nat /\ j <= y
      BY <2>2, <3>1, <3>2
    <3>4. x + j <= z
      BY <3>3
    <3> QED
      BY <3>2, <3>3, <3>4
  <2>4. Within(t[k], v[p])
    BY <1>5, <2>2
  <2> QED
    BY <2>3, <2>4
<1>16. InVisit(t, v, off)
  BY <1>1, <1>13, <1>15 DEF InVisit
<1> QED
  BY <1>6, <1>8, <1>16

TypeIn(v, type) == {p \in DOMAIN v : v[p].type = type}
ChosenOf(v, type) == Chosen(v, LAMBDA x : x.type = type)
IsTyped(v, type, c, f) ==
    /\ IsSeq(c)
    /\ \A k \in 1..Len(c) : f[k] \in 1..Len(v) /\ v[f[k]].type = type /\ c[k] = v[f[k]]
    /\ \A k, l \in 1..Len(c) : k < l <=> f[k] < f[l]
    /\ \A p \in 1..Len(v) : v[p].type = type => \E k \in 1..Len(c) : f[k] = p /\ c[k] = v[p]
LEMMA TypedFacts ==
    ASSUME NEW v, IsSeq(v), NEW type
    PROVE  \E f : IsTyped(v, type, ChosenOf(v, type), f)
<1>1. PICK n \in Nat : n = Len(v) /\ DOMAIN v = 1..n
  BY SeqFacts
<1> DEFINE S == TypeIn(v, type)
<1>2. S \in SUBSET (1..n) /\ \A p \in 1..n : p \in S <=> v[p].type = type
  BY <1>1 DEF TypeIn
<1> HIDE DEF S
<1>3. /\ IsSeq(At(v, S)) /\ Len(At(v, S)) = Cardinality(S) /\ Cardinality(S) \in Nat
      /\ InOrder(S) \in [1..Cardinality(S) -> S]
      /\ \A k \in 1..Cardinality(S) : At(v, S)[k] = v[InOrder(S)[k]]
      /\ \A k, l \in 1..Cardinality(S) : k < l <=> InOrder(S)[k] < InOrder(S)[l]
      /\ \A i \in S : \E k \in 1..Cardinality(S) : InOrder(S)[k] = i /\ At(v, S)[k] = v[i]
  BY <1>1, <1>2, AtFacts DEF IsAt
<1>4. PICK c, f : c = At(v, S) /\ f = InOrder(S)
  OBVIOUS
<1>5. /\ IsSeq(c) /\ Len(c) = Cardinality(S) /\ f \in [1..Cardinality(S) -> S]
      /\ \A k \in 1..Cardinality(S) : c[k] = v[f[k]]
      /\ \A k, l \in 1..Cardinality(S) : k < l <=> f[k] < f[l]
      /\ \A i \in S : \E k \in 1..Cardinality(S) : f[k] = i /\ c[k] = v[i]
  BY <1>3, <1>4
<1>6. \A k \in 1..Len(c) : f[k] \in 1..n /\ v[f[k]].type = type /\ c[k] = v[f[k]]
  BY <1>2, <1>5
<1>7. \A p \in 1..n : v[p].type = type => \E k \in 1..Len(c) : f[k] = p /\ c[k] = v[p]
  BY <1>2, <1>5
<1>8. c = ChosenOf(v, type)
  BY <1>4 DEF At, ChosenOf, Chosen, S, TypeIn
<1>9. IsTyped(v, type, c, f)
  BY <1>1, <1>5, <1>6, <1>7 DEF IsTyped
<1> QED
  BY <1>8, <1>9

\* The last of the nodes that set a key, none of which comes before a given one.
LastSets(v, nodes, pk, key) ==
    /\ key \in {SetBy(nodes[k]) : k \in DOMAIN nodes}
    /\ \E p \in 1..Len(v) : /\ p >= pk /\ v[p].type = "property" /\ v[p].key = key
                            /\ nodes[Max({k \in DOMAIN nodes : SetBy(nodes[k]) = key})] = v[p]

LEMMA LastOfKey ==
    ASSUME NEW v, IsSeq(v), NEW before, IsSeq(before), NEW nodes,
           nodes = before \o ChosenOf(v, "property"),
           NEW pk \in 1..Len(v), v[pk].type = "property", NEW key, v[pk].key = key
    PROVE  LastSets(v, nodes, pk, key)
<1>1. PICK type : type = "property"
  OBVIOUS
<1>2. PICK c : c = ChosenOf(v, type)
  OBVIOUS
<1>21. PICK f : IsTyped(v, type, c, f)
  BY <1>2, TypedFacts
<1>3. /\ IsSeq(c)
      /\ \A k \in 1..Len(c) : f[k] \in 1..Len(v) /\ v[f[k]].type = type /\ c[k] = v[f[k]]
      /\ \A k, l \in 1..Len(c) : k < l <=> f[k] < f[l]
      /\ \A p \in 1..Len(v) : v[p].type = type => \E k \in 1..Len(c) : f[k] = p /\ c[k] = v[p]
  BY <1>21 DEF IsTyped
<1>4. PICK a, m : a \in Nat /\ m \in Nat /\ a = Len(before) /\ m = Len(c)
  BY <1>3, SeqFacts
<1>5. nodes = before \o c
  BY <1>1, <1>2
<1>6. IsSeq(nodes) /\ Len(nodes) = a + m /\ \A k \in 1..m : nodes[a + k] = c[k]
  <2>1. /\ IsSeq(before \o c) /\ Len(before \o c) = Len(before) + Len(c)
        /\ \A k \in 1..Len(c) : (before \o c)[Len(before) + k] = c[k]
    BY <1>3, ConcatSeqs
  <2> QED
    BY <1>4, <1>5, <2>1
<1>7. DOMAIN nodes = 1..a + m
  BY <1>6, SeqFacts
<1>8. PICK k \in 1..m : f[k] = pk /\ c[k] = v[pk]
  BY <1>1, <1>3, <1>4
<1>9. SetBy(v[pk]) = key
  BY DEF SetBy, IsProperty
<1>10. a + k \in 1..a + m /\ nodes[a + k] = v[pk]
  BY <1>4, <1>6, <1>8
<1> DEFINE K == {q \in DOMAIN nodes : SetBy(nodes[q]) = key}
<1>11. a + k \in K /\ K \in SUBSET (1..a + m) /\ \A q \in K : q \in 1..a + m /\ SetBy(nodes[q]) = key
  BY <1>7, <1>9, <1>10
<1>12. PICK M : M = Max(K)
  OBVIOUS
<1>13. M \in K /\ a + k <= M
  <2> HIDE DEF K
  <2>1. a + m \in Nat
    BY <1>4
  <2> QED
    BY <1>11, <1>12, <2>1, MaxFacts
<1>14. M \in 1..a + m /\ SetBy(nodes[M]) = key /\ M >= a + k
  <2> HIDE DEF K
  <2>1. a + k \in Nat
    BY <1>4
  <2> QED
    BY <1>11, <1>13, <2>1
<1>15. PICK l \in 1..m : M = a + l /\ k <= l
  <2>1. M - a \in 1..m /\ M = a + (M - a) /\ k <= M - a
    BY <1>4, <1>14
  <2> QED
    BY <2>1
<1>16. nodes[M] = c[l] /\ c[l] = v[f[l]] /\ f[l] \in 1..Len(v) /\ v[f[l]].type = type
  BY <1>3, <1>4, <1>6, <1>15
<1>17. f[l] >= pk
  <2>1. Len(v) \in Nat
    BY SeqFacts
  <2>2. CASE k = l
    BY <1>8, <2>1, <2>2
  <2>3. CASE k < l
    BY <1>3, <1>4, <1>8, <1>16, <2>1, <2>3
  <2> QED
    BY <1>15, <2>2, <2>3
<1>18. v[f[l]].key = key
  <2>1. PICK x : x = v[f[l]]
    OBVIOUS
  <2>2. IsProperty(x) /\ SetBy(x) = key
    BY <1>1, <1>14, <1>16, <2>1 DEF IsProperty
  <2>3. x.key = key
    BY <2>2 DEF SetBy
  <2> QED
    BY <2>1, <2>3
<1>19. key \in {SetBy(nodes[q]) : q \in DOMAIN nodes}
  BY <1>7, <1>9, <1>10
<1>20. nodes[Max({q \in DOMAIN nodes : SetBy(nodes[q]) = key})] = v[f[l]]
  BY <1>12, <1>16
<1> QED
  BY <1>1, <1>16, <1>17, <1>18, <1>19, <1>20 DEF LastSets

LastValue(nodes, key) == nodes[Max({k \in DOMAIN nodes : SetBy(nodes[k]) = key})].value
DataOf(nodes) ==
    [key \in {k \in {SetBy(nodes[q]) : q \in DOMAIN nodes} : LastValue(nodes, k) # Absent} |-> LastValue(nodes, key)]
ErrorsOf(problems) == [k \in DOMAIN problems |-> [message |-> problems[k].message, at |-> problems[k].at]]

LEMMA StringifyIs ==
    ASSUME Stringify, IsSeq(Visited(tree))
    PROVE  \E before : /\ IsSeq(before)
                       /\ result'.rejected = FALSE
                       /\ result'.data = DataOf(before \o ChosenOf(Visited(tree), "property"))
                       /\ result'.errors = ErrorsOf(ChosenOf(Visited(tree), "problem"))
<1>1. PICK v : v = Visited(tree)
  OBVIOUS
<1>2. PICK a, b, c, p : /\ a = OfType("name") /\ b = OfType("description") /\ c = OfType("property") /\ p = OfType("problem")
  OBVIOUS
<1>3. PICK x, y : x = "name" /\ y = "description"
  OBVIOUS
<1>4. a = ChosenOf(v, x) /\ b = ChosenOf(v, y)
  BY <1>1, <1>2, <1>3 DEF OfType, ChosenOf
<1>5. c = ChosenOf(v, "property") /\ p = ChosenOf(v, "problem")
  BY <1>1, <1>2 DEF OfType, ChosenOf
<1>6. IsSeq(a) /\ IsSeq(b)
  <2>1. \A type : IsSeq(ChosenOf(v, type))
    BY <1>1, TypedFacts DEF IsTyped
  <2> QED
    BY <1>4, <2>1
<1>7. PICK before : before = a \o b
  OBVIOUS
<1>8. IsSeq(before)
  BY <1>6, <1>7, ConcatSeqs
<1>9. PICK nodes : nodes = before \o c
  OBVIOUS
<1>10. result' = Parsed(DataOf(nodes), ErrorsOf(p))
  <2> DEFINE N == OfType("name") \o OfType("description") \o OfType("property")
             P == OfType("problem")
             Data(key) == N[Max({k \in DOMAIN N : SetBy(N[k]) = key})].value
  <2>1. result' = Parsed([key \in {k \in {SetBy(N[k]) : k \in DOMAIN N} : Data(k) # Absent} |-> Data(key)],
                         [k \in DOMAIN P |-> [message |-> P[k].message, at |-> P[k].at]])
    BY DEF Stringify
  <2>2. N = nodes /\ P = p
    BY <1>2, <1>7, <1>9
  <2> HIDE DEF N, P
  <2> QED
    BY <2>1, <2>2 DEF DataOf, ErrorsOf, LastValue
<1>11. result'.rejected = FALSE /\ result'.data = DataOf(nodes) /\ result'.errors = ErrorsOf(p)
  BY <1>10 DEF Parsed
<1> QED
  BY <1>1, <1>5, <1>8, <1>9, <1>11

LEMMA ErrorReported ==
    ASSUME NEW v, IsSeq(v), NEW p \in 1..Len(v), v[p].type = "problem", NEW errors, errors = ErrorsOf(ChosenOf(v, "problem"))
    PROVE  \E e \in DOMAIN errors : /\ errors[e].at = v[p].at
                                    /\ errors[e] = [message |-> v[p].message, at |-> v[p].at]
<1>1. PICK type : type = "problem"
  OBVIOUS
<1>2. PICK c : c = ChosenOf(v, type)
  OBVIOUS
<1>3. PICK f : IsTyped(v, type, c, f)
  BY <1>2, TypedFacts
<1>4. PICK k \in 1..Len(c) : c[k] = v[p]
  BY <1>1, <1>3 DEF IsTyped
<1>5. DOMAIN c = 1..Len(c)
  BY <1>3, SeqFacts DEF IsTyped
<1>6. errors = [q \in 1..Len(c) |-> [message |-> c[q].message, at |-> c[q].at]]
  BY <1>1, <1>2, <1>5 DEF ErrorsOf
<1>7. k \in DOMAIN errors /\ errors[k] = [message |-> c[k].message, at |-> c[k].at]
  BY <1>6
<1>8. errors[k] = [message |-> v[p].message, at |-> v[p].at]
  BY <1>4, <1>7
<1>9. errors[k].at = v[p].at
  BY <1>8
<1> QED
  BY <1>7, <1>8, <1>9

\* A code that is absent is not accepted.
LEMMA AbsentCode == ~ValidateProperty("code", Absent)
<1>1. PICK a, code : a = Absent /\ code = "code"
  OBVIOUS
<1>2. a[1] = "absent"
  BY <1>1 DEF Absent
<1>3. PICK r : r = PlaceOf(code)
  OBVIOUS
<1>4. CASE r = 0
  BY <1>1, <1>3, <1>4 DEF ValidateProperty, PlaceOf
<1>5. CASE r # 0
  <2>1. r \in 1..Len(Properties) /\ Properties[r].key = code
    BY <1>3, <1>5, PlaceFacts
  <2>2. r \in DOMAIN Properties
    BY <2>1, PropertiesAre
  <2>3. Properties[r].type \in DOMAIN PrimitiveTypes /\ PrimitiveTypes[Properties[r].type] \in CheckedPrimitives
    BY <1>1, <2>1, <2>2, PropertiesAssumption
  <2>4. ValidateProperty(code, a) => PrimitiveTypes[Properties[r].type] \notin CheckedPrimitives
    <3> SUFFICES ASSUME ValidateProperty(code, a)
                 PROVE  PrimitiveTypes[Properties[r].type] \notin CheckedPrimitives
      OBVIOUS
    <3>1. (CASE a = Absent -> /\ Properties[r].type \in DOMAIN PrimitiveTypes
                              /\ PrimitiveTypes[Properties[r].type] \notin CheckedPrimitives
            [] a[1] = "link" -> AcceptsLink(a[2])
            [] a[1] = "links" -> \A k \in DOMAIN a[2] : AcceptsLink(a[2][k])
            [] OTHER -> Accepts(a))
      BY <1>3 DEF ValidateProperty, PlaceOf
    <3> QED
      BY <1>1, <1>2, <3>1
  <2> QED
    BY <1>1, <2>3, <2>4
<1> QED
  BY <1>4, <1>5

LEMMA ProblemReported ==
    ASSUME NEW t, NEW v, IsSeq(v), NEW off, InVisit(t, v, off), NEW k \in 1..Len(t), IsProblem(t[k]),
           NEW errors, errors = ErrorsOf(ChosenOf(v, "problem"))
    PROVE  \E e \in DOMAIN errors : /\ errors[e].at = t[k].at
                                    /\ errors[e] = [message |-> t[k].message, at |-> t[k].at]
<1>1. PICK p \in 1..Len(v) : v[p] = t[k]
  BY DEF InVisit
<1>2. v[p].type = "problem"
  BY <1>1 DEF IsProblem
<1> QED
  BY <1>1, <1>2, ErrorReported

\* A definition of a failed section that has no value is a property of the relationship.
LEMMA AbsentDefinition ==
    ASSUME NEW d, NEW t, Checked(d, t), NEW k \in 1..Len(t),
           NEW l \in 1..Len(t[k].nested), NEW j \in 1..Len(t[k].nested[l]),
           NEW x, x = t[k].nested[l][j], x.type = "property"
    PROVE  /\ IsProblem(t[k]) /\ t[k].at.block \in SectionsIn(d) /\ FoundIn(d, t[k].at.block) # 0 /\ Holds(t[k])
           /\ Resolve(x.key, Properties[FoundIn(d, t[k].at.block)].properties) # 0
<1>1. IsTree(d, t) /\ IsValued(d, t[k])
  BY DEF Checked, Valued
<1>2. t[k].nested # <<>>
  BY EmptyIsSeq
<1>3. IsProblem(t[k]) /\ FoundIn(d, t[k].at.block) # 0 /\ Definitions(d, t[k])
  BY <1>1, <1>2 DEF IsValued
<1>4. Holds(t[k]) /\ t[k].at.block \in SectionsIn(d)
  BY <1>1, <1>2 DEF Holds, IsTree
<1>5. IsProperty(x) /\ IsDefinition(d, t[k].at.block, x)
  BY <1>3 DEF Definitions, IsProperty
<1>6. ValidateProperty(x.key, Absent)
  BY <1>5 DEF Checked
<1>7. x.key # "code"
  <2>1. PICK key : key = x.key
    OBVIOUS
  <2> QED
    BY <1>6, <2>1, AbsentCode
<1> QED
  BY <1>3, <1>4, <1>5, <1>7 DEF IsDefinition

LEMMA SectionIsAccounted ==
    ASSUME NEW d \in Documents, NEW t, Checked(d, t), NEW i \in SectionsIn(d),
           NEW v, IsSeq(v), NEW off, InVisit(t, v, off), NEW before, IsSeq(before),
           NEW r, r.data = DataOf(before \o ChosenOf(v, "property")), r.errors = ErrorsOf(ChosenOf(v, "problem"))
    PROVE  SectionAccounted(d, r, i)
<1>1. IsTree(d, t) /\ IsSeq(t)
  BY DEF Checked, Valued, IsTree
<1>2. PICK n \in Nat : n = Len(t)
  BY <1>1, SeqFacts
<1>3. CASE OnlyCommentsIn(d, i)
  BY <1>3 DEF SectionAccounted
<1>4. CASE \E k \in 1..n : IsProblem(t[k]) /\ InLines(d, i, t[k])
  <2>1. PICK k \in 1..n : IsProblem(t[k]) /\ t[k].at.block \in i..EndIn(d, i)
    BY <1>4 DEF InLines
  <2>2. PICK e \in DOMAIN r.errors : r.errors[e].at = t[k].at
    BY <1>2, <2>1, ProblemReported
  <2>3. e \in ErrorsAt(d, r, i)
    BY <2>1, <2>2 DEF ErrorsAt
  <2> QED
    BY <2>3 DEF SectionAccounted
<1>5. CASE \E k \in 1..n : IsProperty(t[k]) /\ t[k].at.block = i
  <2>1. PICK k \in 1..n : IsProperty(t[k]) /\ t[k].at.block = i
    BY <1>5
  <2>2. IsResolved(d, t[k])
    BY <1>2, <2>1 DEF Checked, Valued, IsValued
  <2>3. PICK key : key = KeyIn(d, i)
    OBVIOUS
  <2>4. FoundIn(d, i) # 0 /\ t[k].key = key
    BY <2>1, <2>2, <2>3 DEF IsResolved
  <2>5. PICK pk \in 1..Len(v) : pk = off[k] + 1 /\ v[pk] = t[k] /\ off[k] \in Nat
    BY <1>2 DEF InVisit
  <2>6. PICK nodes : nodes = before \o ChosenOf(v, "property")
    OBVIOUS
  <2>7. LastSets(v, nodes, pk, key)
    BY <2>1, <2>4, <2>5, <2>6, LastOfKey DEF IsProperty
  <2>8. key \in {SetBy(nodes[q]) : q \in DOMAIN nodes}
    BY <2>7 DEF LastSets
  <2>9. PICK p \in 1..Len(v) : /\ p >= pk /\ v[p].type = "property" /\ v[p].key = key
                               /\ nodes[Max({q \in DOMAIN nodes : SetBy(nodes[q]) = key})] = v[p]
    BY <2>7 DEF LastSets
  <2>10. LastValue(nodes, key) = v[p].value
    BY <2>9 DEF LastValue
  <2>11. r.data = DataOf(nodes)
    BY <2>6
  <2>12. CASE v[p].value # Absent
    <3>1. key \in DOMAIN r.data
      BY <2>8, <2>10, <2>11, <2>12 DEF DataOf
    <3> QED
      BY <2>3, <2>4, <3>1 DEF SectionAccounted
  <2>13. CASE v[p].value = Absent
    <3>1. PICK m \in 1..n : Within(t[m], v[p]) /\ \A l \in 1..n : m < l => p <= off[l]
      BY <1>2 DEF InVisit
    <3>2. k <= m
      <4>1. ~(m < k)
        <5>1. m < k => p <= off[k]
          BY <3>1
        <5>2. Len(v) \in Nat
          BY SeqFacts
        <5> QED
          BY <2>5, <2>9, <5>1, <5>2
      <4> QED
        BY <1>2, <4>1
    <3>3. v[p] # t[m]
      <4>1. IsValued(d, t[m])
        BY <1>2 DEF Checked, Valued
      <4> QED
        BY <2>9, <2>13, <4>1, TypesDiffer DEF IsValued
    <3>4. \A c \in 1..Len(t[m].children) : v[p] # t[m].children[c]
      BY <1>1, <1>2, <2>9 DEF IsTree, IsRootNode
    <3>5. PICK l \in 1..Len(t[m].nested) : \E c \in 1..Len(t[m].nested[l]) : v[p] = t[m].nested[l][c]
      BY <3>1, <3>3, <3>4 DEF Within
    <3>6. PICK c \in 1..Len(t[m].nested[l]) : v[p] = t[m].nested[l][c]
      BY <3>5
    <3>7. PICK j, x : j = t[m].at.block /\ x = v[p]
      OBVIOUS
    <3>8. /\ IsProblem(t[m]) /\ j \in SectionsIn(d) /\ FoundIn(d, j) # 0 /\ Holds(t[m])
          /\ Resolve(x.key, Properties[FoundIn(d, j)].properties) # 0
      BY <1>2, <2>9, <3>6, <3>7, AbsentDefinition
    <3>9. k < m
      BY <1>2, <2>1, <3>2, <3>8, TypesDiffer
    <3>10. i < j
      <4>1. Holds(t[k])
        BY <2>1 DEF Holds
      <4> QED
        BY <1>1, <1>2, <2>1, <3>7, <3>8, <3>9, <4>1 DEF IsTree, InSectionOrder
    <3>11. ErrorsAt(d, r, j) # {}
      <4>1. PICK e \in DOMAIN r.errors : r.errors[e].at = t[m].at
        BY <1>2, <3>8, ProblemReported
      <4>2. j \in 0..Len(d)
        BY <3>8, DocumentType DEF SectionsIn
      <4>3. j \in j..EndIn(d, j)
        BY <4>2, EndInFacts
      <4>4. e \in ErrorsAt(d, r, j)
        BY <3>7, <4>1, <4>3 DEF ErrorsAt
      <4> QED
        BY <4>4
    <3>12. j > i
      <4>1. i \in Nat /\ j \in Nat
        BY <3>8, DocumentType DEF SectionsIn
      <4> QED
        BY <3>10, <4>1
    <3>13. x.key = KeyIn(d, i)
      BY <2>3, <2>9, <3>7
    <3> QED
      BY <3>8, <3>11, <3>12, <3>13 DEF SectionAccounted
  <2> QED
    BY <2>12, <2>13
<1>6. OnlyCommentsIn(d, i) \/ \E k \in 1..n : Stands(d, i, t[k])
  BY <1>2 DEF Checked, Valued
<1> QED
  BY <1>3, <1>4, <1>5, <1>6 DEF Stands

LEMMA StringifyStep ==
    ASSUME ParseInv, Stringify
    PROVE  /\ result'.rejected = FALSE /\ Accounted(document, result')
           /\ Problems \subseteq Range(result'.errors)
<1>1. pass = 8 /\ document \in Documents /\ Checked(document, tree)
  BY PassIs DEF ParseInv, Stringify
<1>2. PICK d \in Documents, t \in {tree} : d = document /\ t = tree
  BY <1>1
<1>3. Checked(d, t) /\ IsSeq(t) /\ \A k \in 1..Len(t) : IsRootNode(t[k])
  BY <1>1, <1>2 DEF Checked, Valued, IsTree
<1>4. PICK v : v = Visited(t)
  OBVIOUS
<1>5. PICK off : InVisit(t, v, off)
  BY <1>3, <1>4, VisitFacts
<1>6. IsSeq(v)
  BY <1>3, <1>4, VisitFacts
<1>7. PICK r : r = result'
  OBVIOUS
<1>8. PICK before : /\ IsSeq(before) /\ r.rejected = FALSE
                    /\ r.data = DataOf(before \o ChosenOf(v, "property"))
                    /\ r.errors = ErrorsOf(ChosenOf(v, "problem"))
  BY <1>2, <1>4, <1>6, <1>7, StringifyIs
<1>9. Accounted(d, r)
  BY <1>3, <1>5, <1>6, <1>8, SectionIsAccounted DEF Accounted
<1>10. Problems \subseteq Range(r.errors)
  <2> SUFFICES ASSUME NEW k \in DOMAIN t, IsProblem(t[k])
               PROVE  [message |-> t[k].message, at |-> t[k].at] \in Range(r.errors)
    BY <1>2 DEF Problems
  <2>1. k \in 1..Len(t)
    BY <1>3, SeqFacts
  <2>2. PICK e \in DOMAIN r.errors : r.errors[e] = [message |-> t[k].message, at |-> t[k].at]
    BY <1>5, <1>6, <1>8, <2>1, ProblemReported
  <2> QED
    BY <2>2 DEF Range
<1> QED
  BY <1>2, <1>7, <1>8, <1>9, <1>10

-----------------------------------------------------------------------------
(* The parse.                                                               *)
LEMMA ParseInit == Init => ParseInv
<1> SUFFICES ASSUME Init
             PROVE  ParseInv
  OBVIOUS
<1>1. document \in Documents /\ pass = 1 /\ tree = Start(document)
  BY DEF Init, Start
<1> QED
  BY <1>1 DEF ParseInv

\* Each pass is followed by the next.
LEMMA PassesFollow ==
    ASSUME pass \in 1..9
    PROVE  /\ Runs("title") => pass = 1 /\ pass' = 2 /\ document' = document
           /\ Runs("property nodes") => pass = 2 /\ pass' = 3 /\ document' = document
           /\ Runs("description") => pass = 3 /\ pass' = 4 /\ document' = document
           /\ Runs("property names") => pass = 4 /\ pass' = 5 /\ document' = document
           /\ Runs("nested") => pass = 5 /\ pass' = 6 /\ document' = document
           /\ Runs("coerce") => pass = 6 /\ pass' = 7 /\ document' = document
           /\ Runs("validate") => pass = 7 /\ pass' = 8 /\ document' = document
           /\ Runs("stringify") => pass = 8 /\ pass' = 9 /\ document' = document
<1>1. ASSUME Runs("title")
      PROVE  pass = 1 /\ pass' = 2 /\ document' = document
  <2>1. pass = 1
    BY <1>1, PassIs
  <2>2. pass' = pass + 1 /\ document' = document
    BY <1>1 DEF Runs
  <2> QED
    BY <2>1, <2>2
<1>2. ASSUME Runs("property nodes")
      PROVE  pass = 2 /\ pass' = 3 /\ document' = document
  <2>1. pass = 2
    BY <1>2, PassIs
  <2>2. pass' = pass + 1 /\ document' = document
    BY <1>2 DEF Runs
  <2> QED
    BY <2>1, <2>2
<1>3. ASSUME Runs("description")
      PROVE  pass = 3 /\ pass' = 4 /\ document' = document
  <2>1. pass = 3
    BY <1>3, PassIs
  <2>2. pass' = pass + 1 /\ document' = document
    BY <1>3 DEF Runs
  <2> QED
    BY <2>1, <2>2
<1>4. ASSUME Runs("property names")
      PROVE  pass = 4 /\ pass' = 5 /\ document' = document
  <2>1. pass = 4
    BY <1>4, PassIs
  <2>2. pass' = pass + 1 /\ document' = document
    BY <1>4 DEF Runs
  <2> QED
    BY <2>1, <2>2
<1>5. ASSUME Runs("nested")
      PROVE  pass = 5 /\ pass' = 6 /\ document' = document
  <2>1. pass = 5
    BY <1>5, PassIs
  <2>2. pass' = pass + 1 /\ document' = document
    BY <1>5 DEF Runs
  <2> QED
    BY <2>1, <2>2
<1>6. ASSUME Runs("coerce")
      PROVE  pass = 6 /\ pass' = 7 /\ document' = document
  <2>1. pass = 6
    BY <1>6, PassIs
  <2>2. pass' = pass + 1 /\ document' = document
    BY <1>6 DEF Runs
  <2> QED
    BY <2>1, <2>2
<1>7. ASSUME Runs("validate")
      PROVE  pass = 7 /\ pass' = 8 /\ document' = document
  <2>1. pass = 7
    BY <1>7, PassIs
  <2>2. pass' = pass + 1 /\ document' = document
    BY <1>7 DEF Runs
  <2> QED
    BY <2>1, <2>2
<1>8. ASSUME Runs("stringify")
      PROVE  pass = 8 /\ pass' = 9 /\ document' = document
  <2>1. pass = 8
    BY <1>8, PassIs
  <2>2. pass' = pass + 1 /\ document' = document
    BY <1>8 DEF Runs
  <2> QED
    BY <2>1, <2>2
<1> QED
  BY <1>1, <1>2, <1>3, <1>4, <1>5, <1>6, <1>7, <1>8

LEMMA ThrowsPass ==
    ASSUME ParseInv, CoerceThrows
    PROVE  /\ pass = 6 /\ pass' = 9 /\ result'.rejected = TRUE /\ document' = document /\ tree' = tree
<1>1. Len(Passes) = 8
  BY DEF Passes
<1>2. /\ Passes[1] = "title" /\ Passes[2] = "property nodes" /\ Passes[3] = "description"
      /\ Passes[4] = "property names" /\ Passes[5] = "nested" /\ Passes[6] = "coerce"
      /\ Passes[7] = "validate" /\ Passes[8] = "stringify"
  BY DEF Passes
<1>3. pass \in 1..8 /\ Passes[pass] = "coerce"
  BY <1>1 DEF ParseInv, CoerceThrows
<1>4. pass = 1 \/ pass = 2 \/ pass = 3 \/ pass = 4 \/ pass = 5 \/ pass = 6 \/ pass = 7 \/ pass = 8
  BY <1>3
<1>5. pass = 6
  BY <1>2, <1>3, <1>4
<1>6. pass' = 9 /\ document' = document /\ tree' = tree
  BY <1>1 DEF CoerceThrows
<1>7. result' = Rejected
  BY DEF CoerceThrows
<1>8. result'.rejected = TRUE
  BY <1>7 DEF Rejected
<1> QED
  BY <1>5, <1>6, <1>8

LEMMA ParseNext == ParseInv /\ [Next]_vars => ParseInv'
<1> SUFFICES ASSUME ParseInv, [Next]_vars
             PROVE  ParseInv'
  OBVIOUS
<1>1. pass \in 1..9 /\ document \in Documents
  BY DEF ParseInv
<1>2. CASE UNCHANGED vars
  <2>1. document' = document /\ tree' = tree /\ pass' = pass /\ result' = result
    BY <1>2 DEF vars
  <2> QED
    BY <2>1 DEF ParseInv
<1>3. CASE CreateTitleNode
  <2>1. pass = 1 /\ pass' = 2 /\ document' = document
    BY <1>1, <1>3, PassesFollow DEF CreateTitleNode
  <2> QED
    BY <1>1, <1>3, <2>1, TitleStep DEF ParseInv
<1>4. CASE CreatePropertyNodes
  <2>1. pass = 2 /\ pass' = 3 /\ document' = document
    BY <1>1, <1>4, PassesFollow DEF CreatePropertyNodes
  <2> QED
    BY <1>1, <1>4, <2>1, CutStep DEF ParseInv
<1>5. CASE CreateDescriptionNode
  <2>1. pass = 3 /\ pass' = 4 /\ document' = document
    BY <1>1, <1>5, PassesFollow DEF CreateDescriptionNode
  <2> QED
    BY <1>1, <1>5, <2>1, DescriptionStep DEF ParseInv
<1>6. CASE SetPropertyNames
  <2>1. pass = 4 /\ pass' = 5 /\ document' = document
    BY <1>1, <1>6, PassesFollow DEF SetPropertyNames
  <2> QED
    BY <1>1, <1>6, <2>1, NamesStep DEF ParseInv
<1>7. CASE SetNestedProperties
  <2>1. pass = 5 /\ pass' = 6 /\ document' = document
    BY <1>1, <1>7, PassesFollow DEF SetNestedProperties
  <2> QED
    BY <1>1, <1>7, <2>1, NestedStep DEF ParseInv
<1>8. CASE CoerceProperties
  <2>1. pass = 6 /\ pass' = 7 /\ document' = document
    BY <1>1, <1>8, PassesFollow DEF CoerceProperties
  <2> QED
    BY <1>1, <1>8, <2>1, CoerceStep DEF ParseInv
<1>9. CASE CoerceThrows
  <2>1. pass' = 9 /\ result'.rejected = TRUE /\ document' = document
    BY <1>9, ThrowsPass
  <2> QED
    BY <1>1, <2>1 DEF ParseInv
<1>10. CASE ValidateProperties
  <2>1. pass = 7 /\ pass' = 8 /\ document' = document
    BY <1>1, <1>10, PassesFollow DEF ValidateProperties
  <2> QED
    BY <1>1, <1>10, <2>1, ValidateStep DEF ParseInv
<1>11. CASE Stringify
  <2>1. pass = 8 /\ pass' = 9 /\ document' = document
    BY <1>1, <1>11, PassesFollow DEF Stringify
  <2> QED
    BY <1>1, <1>11, <2>1, StringifyStep DEF ParseInv
<1> QED
  BY <1>2, <1>3, <1>4, <1>5, <1>6, <1>7, <1>8, <1>9, <1>10, <1>11 DEF Next

LEMMA ParseIsInvariant == Spec => []ParseInv
<1>1. Init => ParseInv
  BY ParseInit
<1>2. ParseInv /\ [Next]_vars => ParseInv'
  BY ParseNext
<1> QED
  BY <1>1, <1>2, PTL DEF Spec

-----------------------------------------------------------------------------
(* The sections of the model's properties are those of the invariant.       *)
LEMMA SectionsAre ==
    /\ Sections = SectionsIn(document)
    /\ \A i : LastOf(i) = EndIn(document, i) /\ Found(i) = FoundIn(document, i) /\ KeyOf(i) = KeyIn(document, i)
    /\ \A i : ErrorsIn(i) = ErrorsAt(document, result, i)
<1>1. Sections = SectionsIn(document)
  BY DEF Sections, SectionsIn
<1>2. \A i : LastOf(i) = EndIn(document, i)
  BY <1>1 DEF LastOf, EndIn, NextIn
<1>3. \A i : Found(i) = FoundIn(document, i) /\ KeyOf(i) = KeyIn(document, i)
  BY DEF Found, FoundIn, HeadingOf, KeyOf, KeyIn
<1>4. \A i : ErrorsIn(i) = ErrorsAt(document, result, i)
  BY <1>2 DEF ErrorsIn, ErrorsAt
<1> QED
  BY <1>1, <1>2, <1>3, <1>4

LEMMA CommentsAre ==
    ASSUME document \in Documents, NEW i \in SectionsIn(document), OnlyCommentsIn(document, i)
    PROVE  Found(i) # 0 /\ OnlyComments(i)
<1>1. PICK d \in Documents : d = document
  OBVIOUS
<1>2. PICK N \in Nat : N = Len(d) /\ i \in 1..N
  BY <1>1, DocumentType DEF SectionsIn
<1>3. PICK e \in i..N : e = EndIn(d, i)
  <2>1. i \in 0..Len(d)
    BY <1>2
  <2> QED
    BY <1>2, <2>1, EndInFacts
<1>4. PICK body : body = SubSeq(d, i + 1, e)
  OBVIOUS
<1>5. body = Body(i)
  BY <1>1, <1>3, <1>4, SectionsAre DEF Body
<1>6. DOMAIN body = 1..e - i /\ \A k \in 1..e - i : body[k] = d[i + k]
  <2>1. PICK m \in 1..N + 1 : m = i + 1
    BY <1>2
  <2>2. IsSeq(d) /\ Len(d) = N /\ e \in m - 1..N
    BY <1>2, <1>3, <2>1, DocumentType
  <2>3. IsSeq(SubSeq(d, m, e)) /\ Len(SubSeq(d, m, e)) = e - m + 1
        /\ \A k \in 1..e - m + 1 : SubSeq(d, m, e)[k] = d[m + k - 1]
    BY <2>2, SubSeqFacts
  <2>4. body = SubSeq(d, m, e)
    BY <1>4, <2>1
  <2>5. IsSeq(body) /\ Len(body) = e - m + 1 /\ e - m + 1 = e - i
    BY <1>2, <1>3, <2>1, <2>3, <2>4
  <2>6. DOMAIN body = 1..e - i
    BY <2>5, SeqFacts
  <2>7. ASSUME NEW k \in 1..e - i
        PROVE  body[k] = d[i + k]
    <3>1. k \in 1..e - m + 1 /\ m + k - 1 = i + k
      BY <1>2, <1>3, <2>1
    <3> QED
      BY <2>3, <2>4, <3>1
  <2> QED
    BY <2>6, <2>7
<1>7. PICK property : property = Properties[FoundIn(d, i)]
  OBVIOUS
<1>8. [k \in DOMAIN body |-> Node(body[k].type, body[k].words, body[k].items, Position(i + k, 0, 0))] = Plain(d, i)
  BY <1>3, <1>6 DEF Plain
<1>9. property.type \notin TypeNames /\ FoundIn(d, i) # 0
  BY <1>1, <1>7 DEF OnlyCommentsIn
<1>10. Says(i) = SaysIn(d, i)
  BY <1>1, <1>5, <1>7, <1>8, <1>9, SectionsAre DEF Says, SaysIn, Plain
<1> QED
  BY <1>1, <1>9, <1>10, SectionsAre DEF OnlyComments, OnlyCommentsIn

LEMMA InvAccounts == ParseInv => EverySectionAccounted
<1> SUFFICES ASSUME ParseInv, Done, NEW i \in Sections
             PROVE  \/ ErrorsIn(i) # {}
                    \/ Found(i) # 0 /\ KeyOf(i) \in DOMAIN result.data
                    \/ Found(i) # 0 /\ OnlyComments(i)
                    \/ \E j \in Sections : /\ j > i /\ ErrorsIn(j) # {} /\ Found(j) # 0
                                           /\ Resolve(KeyOf(i), Properties[Found(j)].properties) # 0
  BY DEF EverySectionAccounted
<1>1. pass = 9 /\ document \in Documents
  BY DEF ParseInv, Done, Passes
<1>2. i \in SectionsIn(document)
  BY SectionsAre
<1>3. SectionAccounted(document, result, i)
  BY <1>1, <1>2 DEF ParseInv, Done, Accounted
<1>4. OnlyCommentsIn(document, i) => Found(i) # 0 /\ OnlyComments(i)
  BY <1>1, <1>2, CommentsAre
<1> QED
  BY <1>3, <1>4, SectionsAre DEF SectionAccounted

\* Whatever is wrong in a file, the parse accounts for each of its sections: it
\* is a value, has an error within its lines, was only comments, or is the date
\* that a relationship that failed sets to undefined (markdown-parser.js: all
\* passes run on one tree, and no problem stops them).
THEOREM NoSectionIsLost == Spec => []EverySectionAccounted
<1>1. ParseInv => EverySectionAccounted
  BY InvAccounts
<1> QED
  BY <1>1, ParseIsInvariant, PTL

-----------------------------------------------------------------------------
(* And its problems.                                                        *)
LEMMA KeepsProblems ==
    ASSUME IsSeq(tree), IsSeq(tree'), Keeps(tree, tree')
    PROVE  Problems \subseteq Problems'
<1> SUFFICES ASSUME NEW k \in DOMAIN tree, IsProblem(tree[k])
             PROVE  [message |-> tree[k].message, at |-> tree[k].at] \in Problems'
  BY DEF Problems
<1>1. DOMAIN tree = 1..Len(tree) /\ DOMAIN tree' = 1..Len(tree')
  BY SeqFacts
<1>2. PICK l \in 1..Len(tree') : IsProblem(tree'[l]) /\ tree'[l].message = tree[k].message /\ tree'[l].at = tree[k].at
  BY <1>1 DEF Keeps
<1>3. l \in {j \in DOMAIN tree' : IsProblem(tree'[j])}
  BY <1>1, <1>2
<1>4. [message |-> tree'[l].message, at |-> tree'[l].at] \in Problems'
  BY <1>3 DEF Problems, IsProblem
<1> QED
  BY <1>2, <1>4

LEMMA CutKeepsProblems ==
    ASSUME IsSeq(tree), IsSeq(tree'), KeepsOutside(document, tree, tree')
    PROVE  \A problem \in Problems : ~InSection(problem) => problem \in Problems'
<1> SUFFICES ASSUME NEW k \in DOMAIN tree, IsProblem(tree[k]), NEW problem,
                    problem = [message |-> tree[k].message, at |-> tree[k].at], ~InSection(problem)
             PROVE  problem \in Problems'
  BY DEF Problems
<1>1. DOMAIN tree = 1..Len(tree) /\ DOMAIN tree' = 1..Len(tree')
  BY SeqFacts
<1>2. SectionsIn(document) = {} \/ tree[k].at.block \notin {0} \union Min(SectionsIn(document))..Len(document)
  BY SectionsAre DEF InSection
<1>3. PICK l \in 1..Len(tree') : IsProblem(tree'[l]) /\ tree'[l].message = tree[k].message /\ tree'[l].at = tree[k].at
  BY <1>1, <1>2 DEF KeepsOutside
<1>4. l \in {j \in DOMAIN tree' : IsProblem(tree'[j])}
  BY <1>1, <1>3
<1>5. [message |-> tree'[l].message, at |-> tree'[l].at] \in Problems'
  BY <1>4 DEF Problems, IsProblem
<1> QED
  BY <1>3, <1>5

\* What one step does with the problems.
Kept == (\A problem \in Problems : pass > 2 \/ ~InSection(problem) => problem \in Problems') \/ result'.rejected
Told == Passes[pass] = "stringify" => Problems \subseteq Range(result'.errors)

LEMMA PassNames ==
    /\ Passes[1] # "stringify" /\ Passes[2] # "stringify" /\ Passes[3] # "stringify" /\ Passes[4] # "stringify"
    /\ Passes[5] # "stringify" /\ Passes[6] # "stringify" /\ Passes[7] # "stringify"
BY DEF Passes

\* The trees of the invariant are sequences.
LEMMA TreesAre ==
    ASSUME NEW d, NEW t
    PROVE  /\ Titled(d, t) => IsSeq(t)
           /\ Cut(d, t) => IsSeq(t)
           /\ Resolved(d, t) => IsSeq(t)
           /\ Defined(d, t) => IsSeq(t)
           /\ Valued(d, t) => IsSeq(t)
           /\ Checked(d, t) => IsSeq(t)
BY DEF Titled, Cut, Resolved, Defined, Valued, Checked, IsTree

LEMMA StartIsSeq ==
    ASSUME NEW d \in Documents
    PROVE  IsSeq(Start(d))
<1>1. PICK n \in Nat : n = Len(d) /\ DOMAIN d = 1..n
  BY DocumentType
<1>2. PICK t : t = Start(d)
  OBVIOUS
<1>3. t = [i \in 1..n |-> t[i]]
  BY <1>1, <1>2 DEF Start
<1>4. IsSeq(t)
  BY <1>1, <1>3, FunctionIsSeq
<1> QED
  BY <1>2, <1>4

LEMMA TitleStepKeeps ==
    ASSUME ParseInv, CreateTitleNode
    PROVE  Kept /\ Told
<1>1. pass = 1 /\ document \in Documents
  BY PassesFollow DEF ParseInv, CreateTitleNode
<1>2. IsSeq(tree)
  BY <1>1, StartIsSeq DEF ParseInv
<1>3. IsSeq(tree') /\ Keeps(tree, tree')
  BY TitleStep, TreesAre
<1>4. Problems \subseteq Problems'
  BY <1>2, <1>3, KeepsProblems
<1>5. Told
  BY <1>1, PassNames DEF Told
<1> QED
  BY <1>4, <1>5 DEF Kept

LEMMA CutStepKeeps ==
    ASSUME ParseInv, CreatePropertyNodes
    PROVE  Kept /\ Told
<1>1. pass = 2
  BY PassesFollow DEF ParseInv, CreatePropertyNodes
<1>2. IsSeq(tree)
  BY <1>1, TreesAre DEF ParseInv
<1>3. IsSeq(tree') /\ KeepsOutside(document, tree, tree')
  BY CutStep, TreesAre
<1>4. \A problem \in Problems : ~InSection(problem) => problem \in Problems'
  BY <1>2, <1>3, CutKeepsProblems
<1>5. Told
  BY <1>1, PassNames DEF Told
<1> QED
  BY <1>1, <1>4, <1>5 DEF Kept

LEMMA DescriptionStepKeeps ==
    ASSUME ParseInv, CreateDescriptionNode
    PROVE  Kept /\ Told
<1>1. pass = 3 /\ document \in Documents
  BY PassesFollow DEF ParseInv, CreateDescriptionNode
<1>2. IsSeq(tree)
  BY <1>1, TreesAre DEF ParseInv
<1>3. IsSeq(tree') /\ Keeps(tree, tree')
  BY DescriptionStep, TreesAre
<1>4. Problems \subseteq Problems'
  BY <1>2, <1>3, KeepsProblems
<1>5. Told
  BY <1>1, PassNames DEF Told
<1> QED
  BY <1>4, <1>5 DEF Kept

LEMMA NamesStepKeeps ==
    ASSUME ParseInv, SetPropertyNames
    PROVE  Kept /\ Told
<1>1. pass = 4 /\ document \in Documents
  BY PassesFollow DEF ParseInv, SetPropertyNames
<1>2. IsSeq(tree)
  BY <1>1, TreesAre DEF ParseInv
<1>3. IsSeq(tree') /\ Keeps(tree, tree')
  BY NamesStep, TreesAre
<1>4. Problems \subseteq Problems'
  BY <1>2, <1>3, KeepsProblems
<1>5. Told
  BY <1>1, PassNames DEF Told
<1> QED
  BY <1>4, <1>5 DEF Kept

LEMMA NestedStepKeeps ==
    ASSUME ParseInv, SetNestedProperties
    PROVE  Kept /\ Told
<1>1. pass = 5 /\ document \in Documents
  BY PassesFollow DEF ParseInv, SetNestedProperties
<1>2. IsSeq(tree)
  BY <1>1, TreesAre DEF ParseInv
<1>3. IsSeq(tree') /\ Keeps(tree, tree')
  BY NestedStep, TreesAre
<1>4. Problems \subseteq Problems'
  BY <1>2, <1>3, KeepsProblems
<1>5. Told
  BY <1>1, PassNames DEF Told
<1> QED
  BY <1>4, <1>5 DEF Kept

LEMMA CoerceStepKeeps ==
    ASSUME ParseInv, CoerceProperties
    PROVE  Kept /\ Told
<1>1. pass = 6 /\ document \in Documents
  BY PassesFollow DEF ParseInv, CoerceProperties
<1>2. IsSeq(tree)
  BY <1>1, TreesAre DEF ParseInv
<1>3. IsSeq(tree') /\ Keeps(tree, tree')
  BY CoerceStep, TreesAre
<1>4. Problems \subseteq Problems'
  BY <1>2, <1>3, KeepsProblems
<1>5. Told
  BY <1>1, PassNames DEF Told
<1> QED
  BY <1>4, <1>5 DEF Kept

LEMMA ValidateStepKeeps ==
    ASSUME ParseInv, ValidateProperties
    PROVE  Kept /\ Told
<1>1. pass = 7 /\ document \in Documents
  BY PassesFollow DEF ParseInv, ValidateProperties
<1>2. IsSeq(tree)
  BY <1>1, TreesAre DEF ParseInv
<1>3. IsSeq(tree') /\ Keeps(tree, tree')
  BY ValidateStep, TreesAre
<1>4. Problems \subseteq Problems'
  BY <1>2, <1>3, KeepsProblems
<1>5. Told
  BY <1>1, PassNames DEF Told
<1> QED
  BY <1>4, <1>5 DEF Kept

LEMMA StringifyStepKeeps ==
    ASSUME ParseInv, Stringify
    PROVE  Kept /\ Told
<1>1. tree' = tree
  BY DEF Stringify
<1>2. Problems' = Problems
  BY <1>1 DEF Problems
<1>3. Problems \subseteq Range(result'.errors)
  BY StringifyStep
<1> QED
  BY <1>2, <1>3 DEF Kept, Told

LEMMA ThrowsKeeps ==
    ASSUME ParseInv, CoerceThrows
    PROVE  Kept /\ Told
<1>1. pass = 6 /\ result'.rejected = TRUE
  BY ThrowsPass
<1> QED
  BY <1>1, PassNames DEF Kept, Told

LEMMA EachStepKeeps == ParseInv /\ [Next]_vars => [Kept /\ Told]_vars
BY TitleStepKeeps, CutStepKeeps, DescriptionStepKeeps, NamesStepKeeps, NestedStepKeeps, CoerceStepKeeps,
   ThrowsKeeps, ValidateStepKeeps, StringifyStepKeeps DEF Next

\* A problem that a pass has put under the root stays there through the passes
\* that follow it, and the last of them reports it (stringify-boast.js), unless
\* the parse is rejected.
THEOREM ProblemsStayReported == Spec => ProblemsAreKept
<1>1. ParseInv /\ [Next]_vars
      => [/\ (\A problem \in Problems : pass > 2 \/ ~InSection(problem) => problem \in Problems') \/ result'.rejected
          /\ (Passes[pass] = "stringify") => Problems \subseteq Range(result'.errors)]_vars
  BY EachStepKeeps DEF Kept, Told
<1> QED
  BY <1>1, ParseIsInvariant, PTL DEF Spec, ProblemsAreKept

-----------------------------------------------------------------------------
(* The lexer and the lines of a definition.                                 *)
LEMMA InOrderRank ==
    ASSUME NEW S \in SUBSET Nat, IsFiniteSet(S), NEW k \in 1..Cardinality(S)
    PROVE  InOrder(S)[k] \in S /\ Rank(S, InOrder(S)[k]) = k
<1>1. \E i \in S : Cardinality({j \in S : j <= i}) = k
  BY EveryRank DEF Rank, UpTo
<1>2. InOrder(S)[k] = CHOOSE i \in S : Cardinality({j \in S : j <= i}) = k
  BY DEF InOrder
<1>3. InOrder(S)[k] \in S /\ Cardinality({j \in S : j <= InOrder(S)[k]}) = k
  BY <1>1, <1>2
<1> QED
  BY <1>3 DEF Rank, UpTo

LEMMA RankTells ==
    ASSUME NEW S \in SUBSET Nat, IsFiniteSet(S), NEW i \in S, NEW j \in S, Rank(S, i) = Rank(S, j)
    PROVE  i = j
<1>1. Rank(S, i) \in Nat
  <2>1. Cardinality(S) \in Nat
    BY FS_CardinalityType
  <2> QED
    BY <2>1, RankType
<1>2. i < j => FALSE
  BY <1>1, RankGrows
<1>3. j < i => FALSE
  BY <1>1, RankGrows
<1> QED
  BY <1>2, <1>3

\* A greater number comes behind the others.
LEMMA InOrderGrows ==
    ASSUME NEW S \in SUBSET Nat, IsFiniteSet(S), NEW x \in Nat, \A i \in S : i < x
    PROVE  /\ IsFiniteSet(S \union {x}) /\ Cardinality(S \union {x}) = Cardinality(S) + 1
           /\ InOrder(S \union {x})[Cardinality(S) + 1] = x
           /\ \A k \in 1..Cardinality(S) : InOrder(S \union {x})[k] = InOrder(S)[k]
<1> DEFINE R == S \union {x}
<1>1. x \notin S
  BY SMT
<1>2. IsFiniteSet(R) /\ Cardinality(R) = Cardinality(S) + 1
  BY <1>1, FS_AddElement
<1>3. R \in SUBSET Nat /\ x \in R /\ \A i \in S : i \in R
  OBVIOUS
<1>4. UpTo(R, x) = R
  <2>1. \A i \in R : i <= x
    OBVIOUS
  <2> QED
    BY <2>1 DEF UpTo
<1>5. Rank(R, x) = Cardinality(S) + 1
  BY <1>2, <1>4 DEF Rank
<1>6. \A i \in S : Rank(R, i) = Rank(S, i)
  <2> SUFFICES ASSUME NEW i \in S PROVE Rank(R, i) = Rank(S, i)
    OBVIOUS
  <2>1. i \in Nat /\ i < x /\ ~ (x <= i)
    OBVIOUS
  <2>2. UpTo(R, i) = UpTo(S, i)
    BY <2>1 DEF UpTo
  <2> QED
    BY <2>2 DEF Rank
<1> HIDE DEF R
<1>7. Cardinality(S) \in Nat
  BY FS_CardinalityType
<1>8. InOrder(R)[Cardinality(S) + 1] = x
  <2>1. PICK k : k = Cardinality(S) + 1
    OBVIOUS
  <2>2. k \in 1..Cardinality(R)
    BY <1>2, <1>7, <2>1
  <2>3. InOrder(R)[k] \in R /\ Rank(R, InOrder(R)[k]) = k
    BY <1>2, <1>3, <2>2, InOrderRank
  <2>4. InOrder(R)[k] = x
    BY <1>2, <1>3, <1>5, <2>1, <2>3, RankTells
  <2> QED
    BY <2>1, <2>4
<1>9. \A k \in 1..Cardinality(S) : InOrder(R)[k] = InOrder(S)[k]
  <2> SUFFICES ASSUME NEW k \in 1..Cardinality(S) PROVE InOrder(R)[k] = InOrder(S)[k]
    OBVIOUS
  <2>1. InOrder(S)[k] \in S /\ Rank(S, InOrder(S)[k]) = k
    BY InOrderRank
  <2>2. k \in 1..Cardinality(R)
    BY <1>2, <1>7
  <2>3. InOrder(R)[k] \in R /\ Rank(R, InOrder(R)[k]) = k
    BY <1>2, <1>3, <2>2, InOrderRank
  <2>4. InOrder(S)[k] \in R /\ Rank(R, InOrder(S)[k]) = k
    BY <1>3, <1>6, <2>1
  <2>5. PICK i, j : i = InOrder(R)[k] /\ j = InOrder(S)[k]
    OBVIOUS
  <2>6. i \in R /\ j \in R /\ Rank(R, i) = Rank(R, j)
    BY <2>3, <2>4, <2>5
  <2>7. i = j
    BY <1>2, <1>3, <2>6, RankTells
  <2> QED
    BY <2>5, <2>7
<1> QED
  BY <1>2, <1>8, <1>9 DEF R

\* The places behind which the parts of a text begin.
Cuts(text, token) == {i \in DOMAIN text : text[i] = token} \union {0}

Texts == Seq(STRING)

\* parts are the b texts behind the places o of t.
PartsAt(t, b, o, parts) ==
    /\ b \in Nat \ {0} /\ parts \in Seq(Texts) /\ Len(parts) = b
    /\ \A k \in 1..b : o[k] \in 0..Len(t)
    /\ \A k \in 1..b - 1 : parts[k] = SubSeq(t, o[k] + 1, o[k + 1] - 1)
    /\ parts[b] = SubSeq(t, o[b] + 1, Len(t))

LEMMA CutsFacts ==
    ASSUME NEW t \in Texts, NEW token
    PROVE  /\ Cuts(t, token) \in SUBSET (0..Len(t)) /\ Cuts(t, token) \in SUBSET Nat
           /\ IsFiniteSet(Cuts(t, token)) /\ Cardinality(Cuts(t, token)) \in Nat \ {0}
<1>1. Len(t) \in Nat /\ DOMAIN t = 1..Len(t)
  BY DEF Texts
<1>2. Cuts(t, token) \in SUBSET (0..Len(t)) /\ Cuts(t, token) \in SUBSET Nat /\ 0 \in Cuts(t, token)
  BY <1>1 DEF Cuts
<1>3. IsFiniteSet(0..Len(t))
  BY <1>1, FS_Interval
<1>4. IsFiniteSet(Cuts(t, token))
  BY <1>2, <1>3, FS_Subset
<1>5. Cardinality(Cuts(t, token)) \in Nat
  BY <1>4, FS_CardinalityType
<1>6. Cardinality(Cuts(t, token)) # 0
  BY <1>2, <1>4, FS_EmptySet
<1> QED
  BY <1>2, <1>4, <1>5, <1>6

LEMMA PartOfText ==
    ASSUME NEW t \in Texts, NEW a \in Nat, NEW e \in Int, e <= Len(t)
    PROVE  SubSeq(t, a + 1, e) \in Texts
<1>1. Len(t) \in Nat
  BY DEF Texts
<1> QED
  BY <1>1 DEF Texts

LEMMA SplitIs ==
    ASSUME NEW t \in Texts, NEW token
    PROVE  PartsAt(t, Cardinality(Cuts(t, token)), InOrder(Cuts(t, token)), SplitAt(t, token))
<1>1. PICK M, n, b, o : /\ M = Cuts(t, token) /\ n = Len(t) /\ b = Cardinality(M) /\ o = InOrder(M)
  OBVIOUS
<1>2. n \in Nat /\ M \in SUBSET (0..n) /\ M \in SUBSET Nat /\ IsFiniteSet(M) /\ b \in Nat \ {0}
  BY <1>1, CutsFacts DEF Texts
<1>3. PICK c, cuts : c = M \union {n + 1} /\ cuts = InOrder(c)
  OBVIOUS
<1>4. {i \in DOMAIN t : t[i] = token} \union {0, Len(t) + 1} = c
  BY <1>1, <1>3 DEF Cuts
<1>5. \A i \in M : i < n + 1
  BY <1>2
<1>6. /\ Cardinality(c) = b + 1 /\ cuts[b + 1] = n + 1 /\ \A k \in 1..b : cuts[k] = o[k]
  <2>1. PICK x \in Nat : x = n + 1
    BY <1>2
  <2>2. \A i \in M : i < x
    BY <1>5, <2>1
  <2>3. c = M \union {x}
    BY <1>3, <2>1
  <2>4. /\ Cardinality(M \union {x}) = Cardinality(M) + 1 /\ InOrder(M \union {x})[Cardinality(M) + 1] = x
        /\ \A k \in 1..Cardinality(M) : InOrder(M \union {x})[k] = InOrder(M)[k]
    BY <1>2, <2>2, InOrderGrows
  <2> QED
    BY <1>1, <1>3, <2>1, <2>3, <2>4
<1>7. \A k \in 1..b : o[k] \in 0..n
  BY <1>1, <1>2, InOrderRank
<1>8. Len(cuts) = b + 1
  <2>1. cuts = [k \in 1..Cardinality(c) |-> Nth(c, k)]
    BY <1>3 DEF InOrder, Nth
  <2>2. cuts = [k \in 1..b + 1 |-> cuts[k]]
    <3>1. PICK m : m = b + 1
      OBVIOUS
    <3>2. cuts = [k \in 1..m |-> Nth(c, k)]
      BY <1>6, <2>1, <3>1
    <3>3. cuts = [k \in 1..m |-> cuts[k]]
      BY <3>2
    <3> QED
      BY <3>1, <3>3
  <2> QED
    BY <1>2, <2>2, FunctionIsSeq
<1>9. PICK s : s = SplitAt(t, token)
  OBVIOUS
<1>10. s = [k \in 1..b |-> SubSeq(t, cuts[k] + 1, cuts[k + 1] - 1)]
  <2>1. s = [k \in 1..Len(cuts) - 1 |-> SubSeq(t, cuts[k] + 1, cuts[k + 1] - 1)]
    BY <1>3, <1>4, <1>9 DEF SplitAt
  <2>2. Len(cuts) - 1 = b
    BY <1>2, <1>8
  <2> QED
    BY <2>1, <2>2
<1>11. \A k \in 1..b - 1 : s[k] = SubSeq(t, o[k] + 1, o[k + 1] - 1)
  <2> SUFFICES ASSUME NEW k \in 1..b - 1 PROVE s[k] = SubSeq(t, o[k] + 1, o[k + 1] - 1)
    OBVIOUS
  <2>1. k \in 1..b /\ k + 1 \in 1..b
    BY <1>2
  <2> QED
    BY <1>6, <1>10, <2>1
<1>12. s[b] = SubSeq(t, o[b] + 1, n)
  <2>1. b \in 1..b /\ (n + 1) - 1 = n
    BY <1>2
  <2> QED
    BY <1>6, <1>10, <2>1
<1>13. \A k \in 1..b : s[k] \in Texts
  <2> SUFFICES ASSUME NEW k \in 1..b PROVE s[k] \in Texts
    OBVIOUS
  <2>1. CASE k = b
    <3>1. PICK x \in 0..n : x = o[b]
      BY <1>2, <1>7
    <3>2. x \in Nat /\ n \in Int /\ n <= n
      BY <1>2
    <3>3. SubSeq(t, x + 1, n) \in Texts
      BY <1>1, <3>2, PartOfText
    <3> QED
      BY <1>12, <2>1, <3>1, <3>3
  <2>2. CASE k # b
    <3>1. k \in 1..b - 1 /\ k + 1 \in 1..b
      BY <1>2, <2>2
    <3>2. PICK x \in 0..n, y \in 0..n : x = o[k] /\ y = o[k + 1]
      BY <1>7, <3>1
    <3>3. s[k] = SubSeq(t, x + 1, y - 1)
      BY <1>11, <3>1, <3>2
    <3>4. x \in Nat /\ y - 1 \in Int /\ y - 1 <= n
      BY <1>2
    <3> QED
      BY <1>1, <3>3, <3>4, PartOfText
  <2> QED
    BY <2>1, <2>2
<1>14. s \in Seq(Texts) /\ Len(s) = b
  <2>1. s = [k \in 1..b |-> s[k]]
    BY <1>10
  <2>2. s \in [1..b -> Texts]
    BY <1>13, <2>1
  <2> HIDE DEF Texts
  <2>3. IsSeq(s) /\ Len(s) = b
    BY <1>2, <2>1, FunctionIsSeq
  <2> QED
    BY <1>2, <2>2, <2>3
<1>15. PartsAt(t, b, o, s)
  BY <1>1, <1>2, <1>7, <1>11, <1>12, <1>14 DEF PartsAt
<1> QED
  BY <1>1, <1>9, <1>15

\* One part more, or a token more in the last part.
Grown(parts, c, token, grown) ==
    /\ grown \in Seq(Texts)
    /\ c = token => Len(grown) = Len(parts) + 1 /\ grown[Len(parts) + 1] = <<>> /\ grown[Len(parts)] = parts[Len(parts)]
    /\ c # token => Len(grown) = Len(parts) /\ grown[Len(parts)] = Append(parts[Len(parts)], c)
    /\ \A k \in 1..Len(parts) - 1 : grown[k] = parts[k]

LEMMA CutsGrow ==
    ASSUME NEW t \in Texts, NEW c \in STRING, NEW token
    PROVE  /\ c = token => Cuts(Append(t, c), token) = Cuts(t, token) \union {Len(t) + 1}
           /\ c # token => Cuts(Append(t, c), token) = Cuts(t, token)
<1>1. PICK n \in Nat : n = Len(t) /\ DOMAIN t = 1..n
  BY DEF Texts
<1>2. PICK u : u = Append(t, c)
  OBVIOUS
<1>3. DOMAIN u = 1..n + 1 /\ (\A i \in 1..n : u[i] = t[i]) /\ u[n + 1] = c
  <2>1. IsSeq(t)
    BY SeqIsSeq DEF Texts
  <2>2. IsSeq(u) /\ Len(u) = Len(t) + 1 /\ u[Len(t) + 1] = c /\ \A i \in 1..Len(t) : u[i] = t[i]
    BY <1>2, <2>1, AppendSeq
  <2>3. DOMAIN u = 1..Len(u)
    BY <2>2, SeqFacts
  <2> QED
    BY <1>1, <2>2, <2>3
<1>4. \A i \in 1..n + 1 : i \in 1..n \/ i = n + 1
  BY <1>1
<1>5. n + 1 \in 1..n + 1 /\ n + 1 \notin 1..n /\ 1..n \subseteq 1..n + 1
  BY <1>1
<1>6. c = token => {i \in 1..n + 1 : u[i] = token} = {i \in 1..n : t[i] = token} \union {n + 1}
  BY <1>3, <1>4, <1>5
<1>7. c # token => {i \in 1..n + 1 : u[i] = token} = {i \in 1..n : t[i] = token}
  BY <1>3, <1>4, <1>5
<1> QED
  BY <1>1, <1>2, <1>3, <1>6, <1>7 DEF Cuts

LEMMA EmptyText == <<>> \in Texts /\ Len(<<>>) = 0 /\ DOMAIN <<>> = 1..0
<1>1. <<>> \in Texts
  BY EmptySeq DEF Texts
<1>2. Len(<<>>) = 0
  BY EmptySeq
<1> QED
  BY <1>1, <1>2

LEMMA EmptyTextIs ==
    ASSUME NEW t \in Texts, Len(t) = 0
    PROVE  t = <<>>
BY EmptyIs DEF Texts

LEMMA TextsAgree ==
    ASSUME NEW s \in Texts, NEW t \in Texts, Len(s) = Len(t), \A k \in 1..Len(s) : s[k] = t[k]
    PROVE  s = t
<1>1. IsSeq(s) /\ IsSeq(t)
  BY SeqIsSeq DEF Texts
<1>2. PICK n \in Nat : n = Len(s) /\ n = Len(t)
  BY <1>1 DEF IsSeq
<1>3. s = [k \in 1..n |-> s[k]] /\ t = [k \in 1..n |-> t[k]]
  BY <1>1, <1>2 DEF IsSeq
<1>4. \A k \in 1..n : s[k] = t[k]
  BY <1>2
<1>5. [k \in 1..n |-> s[k]] = [k \in 1..n |-> t[k]]
  BY <1>4
<1> QED
  BY <1>3, <1>5

LEMMA TextFacts ==
    ASSUME NEW t \in Texts
    PROVE  IsSeq(t) /\ Len(t) \in Nat /\ DOMAIN t = 1..Len(t)
BY SeqIsSeq, SeqFacts DEF Texts

LEMMA AppendTyped ==
    ASSUME NEW T, NEW s \in Seq(T), NEW x \in T
    PROVE  Append(s, x) \in Seq(T)
OBVIOUS

LEMMA AppendText ==
    ASSUME NEW t \in Texts, NEW c \in STRING
    PROVE  /\ Append(t, c) \in Texts /\ Len(Append(t, c)) = Len(t) + 1 /\ Append(t, c)[Len(t) + 1] = c
           /\ \A k \in 1..Len(t) : Append(t, c)[k] = t[k]
<1>1. Append(t, c) \in Texts
  <2>1. PICK T : T = STRING
    OBVIOUS
  <2>2. t \in Seq(T) /\ c \in T
    BY <2>1 DEF Texts
  <2>3. Append(t, c) \in Seq(T)
    BY <2>2, AppendTyped
  <2> QED
    BY <2>1, <2>3 DEF Texts
<1>2. IsSeq(t)
  BY TextFacts
<1>3. PICK u : u = Append(t, c)
  OBVIOUS
<1>4. /\ IsSeq(u) /\ Len(u) = Len(t) + 1 /\ u[Len(t) + 1] = c
      /\ \A k \in 1..Len(t) : u[k] = t[k]
  BY <1>2, <1>3, AppendSeq
<1> QED
  BY <1>1, <1>3, <1>4

LEMMA SubTextFacts ==
    ASSUME NEW t \in Texts, NEW a \in Nat, NEW e \in Int, e <= Len(t)
    PROVE  /\ SubSeq(t, a + 1, e) \in Texts
           /\ a >= e => SubSeq(t, a + 1, e) = <<>>
           /\ a <= e => Len(SubSeq(t, a + 1, e)) = e - a
           /\ a <= e => \A k \in 1..e - a : SubSeq(t, a + 1, e)[k] = t[a + k]
<1>1. SubSeq(t, a + 1, e) \in Texts
  BY PartOfText
<1>2. Len(t) \in Nat
  BY TextFacts
<1>3. a >= e => SubSeq(t, a + 1, e) = <<>>
  <2> SUFFICES ASSUME a >= e PROVE SubSeq(t, a + 1, e) = <<>>
    OBVIOUS
  <2>1. Len(SubSeq(t, a + 1, e)) = 0
    BY <1>2 DEF Texts
  <2> QED
    BY <1>1, <2>1, EmptyTextIs
<1>4. a <= e => Len(SubSeq(t, a + 1, e)) = e - a /\ \A k \in 1..e - a : SubSeq(t, a + 1, e)[k] = t[a + k]
  <2> SUFFICES ASSUME a <= e
               PROVE  Len(SubSeq(t, a + 1, e)) = e - a /\ \A k \in 1..e - a : SubSeq(t, a + 1, e)[k] = t[a + k]
    OBVIOUS
  <2>1. PICK m, n \in Nat : m = a + 1 /\ n = e /\ m \in 1..Len(t) + 1 /\ n \in m - 1..Len(t)
    BY <1>2
  <2>2. /\ Len(SubSeq(t, m, n)) = n - m + 1
        /\ \A k \in 1..n - m + 1 : SubSeq(t, m, n)[k] = t[m + k - 1]
    BY <2>1, TextFacts, SubSeqFacts
  <2>3. n - m + 1 = e - a /\ \A k \in 1..e - a : m + k - 1 = a + k
    BY <2>1
  <2> QED
    BY <2>1, <2>2, <2>3
<1> QED
  BY <1>1, <1>3, <1>4

LEMMA InnerOfAppend ==
    ASSUME NEW t \in Texts, NEW c \in STRING, NEW a \in Nat, NEW e \in Int, e <= Len(t)
    PROVE  SubSeq(Append(t, c), a + 1, e) = SubSeq(t, a + 1, e)
<1>1. PICK n \in Nat : n = Len(t)
  BY TextFacts
<1>2. PICK u : u = Append(t, c)
  OBVIOUS
<1>3. u \in Texts /\ Len(u) = n + 1 /\ \A k \in 1..n : u[k] = t[k]
  BY <1>1, <1>2, AppendText
<1>4. e <= Len(u)
  BY <1>1, <1>3
<1>5. CASE a >= e
  <2>1. SubSeq(u, a + 1, e) = <<>>
    BY <1>3, <1>4, <1>5, SubTextFacts
  <2>2. SubSeq(t, a + 1, e) = <<>>
    BY <1>5, SubTextFacts
  <2> QED
    BY <1>2, <2>1, <2>2
<1>6. CASE a < e
  <2>1. PICK v, w : v = SubSeq(u, a + 1, e) /\ w = SubSeq(t, a + 1, e)
    OBVIOUS
  <2>2. v \in Texts /\ Len(v) = e - a /\ \A k \in 1..e - a : v[k] = u[a + k]
    BY <1>3, <1>4, <1>6, <2>1, SubTextFacts
  <2>3. w \in Texts /\ Len(w) = e - a /\ \A k \in 1..e - a : w[k] = t[a + k]
    BY <1>6, <2>1, SubTextFacts
  <2>4. \A k \in 1..e - a : a + k \in 1..n
    BY <1>1
  <2>5. \A k \in 1..e - a : v[k] = w[k]
    BY <1>3, <2>2, <2>3, <2>4
  <2>6. Len(v) = Len(w) /\ \A k \in 1..Len(v) : v[k] = w[k]
    BY <2>2, <2>3, <2>5
  <2>7. v = w
    BY <2>2, <2>3, <2>6, TextsAgree
  <2> QED
    BY <1>2, <2>1, <2>7
<1>7. a >= e \/ a < e
  OBVIOUS
<1> QED
  BY <1>5, <1>6, <1>7

LEMMA EndOfAppend ==
    ASSUME NEW t \in Texts, NEW c \in STRING, NEW a \in 0..Len(t)
    PROVE  SubSeq(Append(t, c), a + 1, Len(t) + 1) = Append(SubSeq(t, a + 1, Len(t)), c)
<1>1. PICK n \in Nat : n = Len(t) /\ a \in 0..n
  BY TextFacts
<1>2. PICK u, v, w, x : /\ u = Append(t, c) /\ v = SubSeq(u, a + 1, n + 1) /\ w = SubSeq(t, a + 1, n)
                        /\ x = Append(w, c)
  OBVIOUS
<1>3. u \in Texts /\ Len(u) = n + 1 /\ u[n + 1] = c /\ \A k \in 1..n : u[k] = t[k]
  BY <1>1, <1>2, AppendText
<1>4. v \in Texts /\ Len(v) = (n - a) + 1 /\ \A k \in 1..(n - a) + 1 : v[k] = u[a + k]
  <2>1. PICK e \in Nat : e = n + 1 /\ e <= Len(u) /\ a <= e /\ e - a = (n - a) + 1
    BY <1>1, <1>3
  <2>2. v = SubSeq(u, a + 1, e) /\ a \in Nat
    BY <1>1, <1>2, <2>1
  <2>3. v \in Texts /\ Len(v) = e - a /\ \A k \in 1..e - a : v[k] = u[a + k]
    BY <1>3, <2>1, <2>2, SubTextFacts
  <2> QED
    BY <2>1, <2>3
<1>5. w \in Texts /\ Len(w) = n - a /\ \A k \in 1..n - a : w[k] = t[a + k]
  BY <1>1, <1>2, SubTextFacts
<1>6. x \in Texts /\ Len(x) = (n - a) + 1 /\ x[(n - a) + 1] = c /\ \A k \in 1..n - a : x[k] = w[k]
  <2>1. PICK m : m = n - a /\ m = Len(w)
    BY <1>5
  <2>2. /\ x \in Texts /\ Len(x) = Len(w) + 1 /\ x[Len(w) + 1] = c /\ \A k \in 1..Len(w) : x[k] = w[k]
    BY <1>2, <1>5, AppendText
  <2>3. x \in Texts /\ Len(x) = m + 1 /\ x[m + 1] = c /\ \A k \in 1..m : x[k] = w[k]
    BY <2>1, <2>2
  <2> QED
    BY <2>1, <2>3
<1>7. \A k \in 1..(n - a) + 1 : v[k] = x[k]
  <2> SUFFICES ASSUME NEW k \in 1..(n - a) + 1 PROVE v[k] = x[k]
    OBVIOUS
  <2>1. CASE k = (n - a) + 1
    <3>1. a + k = n + 1
      BY <1>1, <2>1
    <3> QED
      BY <1>3, <1>4, <1>6, <2>1, <3>1
  <2>2. CASE k # (n - a) + 1
    <3>1. k \in 1..n - a /\ a + k \in 1..n
      BY <1>1, <2>2
    <3> QED
      BY <1>3, <1>4, <1>5, <1>6, <3>1
  <2> QED
    BY <2>1, <2>2
<1>8. v = x
  BY <1>4, <1>6, <1>7, TextsAgree
<1> QED
  BY <1>1, <1>2, <1>8

\* The parts of t, cut at o, and those of t with one token more, cut at h.
LEMMA PartsGrow ==
    ASSUME NEW t \in Texts, NEW c \in STRING, NEW token, NEW b, NEW o, NEW parts, PartsAt(t, b, o, parts),
           NEW h, NEW grown, \A k \in 1..b : h[k] = o[k],
           c = token => PartsAt(Append(t, c), b + 1, h, grown) /\ h[b + 1] = Len(t) + 1,
           c # token => PartsAt(Append(t, c), b, h, grown)
    PROVE  Grown(parts, c, token, grown)
<1>1. /\ b \in Nat \ {0} /\ parts \in Seq(Texts) /\ Len(parts) = b
      /\ \A k \in 1..b : o[k] \in 0..Len(t)
      /\ \A k \in 1..b - 1 : parts[k] = SubSeq(t, o[k] + 1, o[k + 1] - 1)
      /\ parts[b] = SubSeq(t, o[b] + 1, Len(t))
  BY DEF PartsAt
<1>2. PICK n \in Nat : n = Len(t)
  BY TextFacts
<1>3. PICK u : u = Append(t, c)
  OBVIOUS
<1>4. u \in Texts /\ Len(u) = n + 1
  BY <1>2, <1>3, AppendText
<1>5. \A k \in 1..b : h[k] \in 0..n
  BY <1>1, <1>2
<1>6. \A a \in Nat : \A e \in Int : e <= n => SubSeq(u, a + 1, e) = SubSeq(t, a + 1, e)
  BY <1>2, <1>3, InnerOfAppend
<1>7. \A k \in 1..b - 1 : SubSeq(u, h[k] + 1, h[k + 1] - 1) = parts[k]
  <2> SUFFICES ASSUME NEW k \in 1..b - 1 PROVE SubSeq(u, h[k] + 1, h[k + 1] - 1) = parts[k]
    OBVIOUS
  <2>1. k \in 1..b /\ k + 1 \in 1..b
    BY <1>1
  <2>2. PICK x \in Nat, y \in Int : x = h[k] /\ y = h[k + 1] - 1 /\ y <= n
    BY <1>5, <2>1
  <2>3. x = o[k] /\ y = o[k + 1] - 1
    BY <2>1, <2>2
  <2>4. parts[k] = SubSeq(t, x + 1, y)
    BY <1>1, <2>3
  <2> QED
    BY <1>6, <2>2, <2>4
<1>8. CASE c = token
  <2>1. /\ grown \in Seq(Texts) /\ Len(grown) = b + 1
        /\ \A k \in 1..(b + 1) - 1 : grown[k] = SubSeq(u, h[k] + 1, h[k + 1] - 1)
        /\ grown[b + 1] = SubSeq(u, h[b + 1] + 1, Len(u))
    BY <1>3, <1>8 DEF PartsAt
  <2>2. h[b + 1] = n + 1
    BY <1>2, <1>8
  <2>3. grown[b + 1] = <<>>
    <3>1. PICK x \in Nat : x = n + 1 /\ x = h[b + 1]
      BY <2>2
    <3>2. x = Len(u) /\ x >= x /\ x <= x /\ x \in Int
      BY <1>4, <3>1
    <3>3. SubSeq(u, x + 1, x) = <<>>
      BY <1>4, <3>2, SubTextFacts
    <3> QED
      BY <2>1, <3>1, <3>2, <3>3
  <2>4. grown[b] = parts[b]
    <3>1. b \in 1..(b + 1) - 1 /\ b \in 1..b
      BY <1>1
    <3>2. grown[b] = SubSeq(u, h[b] + 1, h[b + 1] - 1)
      BY <2>1, <3>1
    <3>3. PICK x \in Nat : x = h[b] /\ x = o[b]
      BY <1>5, <3>1
    <3>4. (n + 1) - 1 = n /\ n \in Int /\ n <= n
      BY <1>2
    <3>5. grown[b] = SubSeq(u, x + 1, n)
      BY <2>2, <3>2, <3>3, <3>4
    <3>6. parts[b] = SubSeq(t, x + 1, n)
      BY <1>1, <1>2, <3>3
    <3> QED
      BY <1>6, <3>4, <3>5, <3>6
  <2>5. \A k \in 1..b - 1 : grown[k] = parts[k]
    <3>1. \A k \in 1..b - 1 : k \in 1..(b + 1) - 1
      BY <1>1
    <3>2. \A k \in 1..b - 1 : grown[k] = SubSeq(u, h[k] + 1, h[k + 1] - 1)
      BY <2>1, <3>1
    <3> QED
      BY <1>7, <3>2
  <2> QED
    BY <1>1, <1>8, <2>1, <2>3, <2>4, <2>5 DEF Grown
<1>9. CASE c # token
  <2>1. /\ grown \in Seq(Texts) /\ Len(grown) = b
        /\ \A k \in 1..b - 1 : grown[k] = SubSeq(u, h[k] + 1, h[k + 1] - 1)
        /\ grown[b] = SubSeq(u, h[b] + 1, Len(u))
    BY <1>3, <1>9 DEF PartsAt
  <2>2. grown[b] = Append(parts[b], c)
    <3>1. b \in 1..b
      BY <1>1
    <3>2. PICK x : x = o[b] /\ x = h[b] /\ x \in 0..n
      BY <1>5, <3>1
    <3>3. SubSeq(u, x + 1, n + 1) = Append(SubSeq(t, x + 1, n), c)
      BY <1>2, <1>3, <3>2, EndOfAppend
    <3> QED
      BY <1>1, <1>2, <1>4, <2>1, <3>2, <3>3
  <2>3. \A k \in 1..b - 1 : grown[k] = parts[k]
    BY <1>7, <2>1
  <2> QED
    BY <1>1, <1>9, <2>1, <2>2, <2>3 DEF Grown
<1> QED
  BY <1>8, <1>9

LEMMA SplitGrows ==
    ASSUME NEW t \in Texts, NEW c \in STRING, NEW token
    PROVE  Grown(SplitAt(t, token), c, token, SplitAt(Append(t, c), token))
<1>1. PICK M, b, o, parts : /\ M = Cuts(t, token) /\ b = Cardinality(M) /\ o = InOrder(M)
                            /\ parts = SplitAt(t, token)
  OBVIOUS
<1>2. PICK u, R, h, grown : /\ u = Append(t, c) /\ R = Cuts(u, token) /\ h = InOrder(R)
                            /\ grown = SplitAt(u, token)
  OBVIOUS
<1>3. PICK x \in Nat : x = Len(t) + 1 /\ \A i \in 0..Len(t) : i < x
  BY TextFacts
<1>4. M \in SUBSET (0..Len(t)) /\ M \in SUBSET Nat /\ IsFiniteSet(M)
  BY <1>1, CutsFacts
<1>5. PartsAt(t, b, o, parts)
  BY <1>1, SplitIs
<1>6. u \in Texts
  BY <1>2, AppendText
<1>7. PartsAt(u, Cardinality(R), h, grown)
  BY <1>2, <1>6, SplitIs
<1>8. CASE c = token
  <2>1. R = M \union {x}
    BY <1>1, <1>2, <1>3, <1>8, CutsGrow
  <2>2. \A i \in M : i < x
    BY <1>3, <1>4
  <2>3. /\ Cardinality(M \union {x}) = Cardinality(M) + 1 /\ InOrder(M \union {x})[Cardinality(M) + 1] = x
        /\ \A k \in 1..Cardinality(M) : InOrder(M \union {x})[k] = InOrder(M)[k]
    BY <1>4, <2>2, InOrderGrows
  <2>4. Cardinality(R) = b + 1 /\ h[b + 1] = x /\ \A k \in 1..b : h[k] = o[k]
    BY <1>1, <1>2, <2>1, <2>3
  <2>5. Grown(parts, c, token, grown)
    <3>1. \A k \in 1..b : h[k] = o[k]
      BY <2>4
    <3>2. c = token => PartsAt(Append(t, c), b + 1, h, grown) /\ h[b + 1] = Len(t) + 1
      BY <1>2, <1>3, <1>7, <2>4
    <3>3. c # token => PartsAt(Append(t, c), b, h, grown)
      BY <1>8
    <3> QED
      BY <1>5, <3>1, <3>2, <3>3, PartsGrow
  <2> QED
    BY <1>1, <1>2, <2>5
<1>9. CASE c # token
  <2>1. R = M
    BY <1>1, <1>2, <1>9, CutsGrow
  <2>2. Cardinality(R) = b /\ \A k \in 1..b : h[k] = o[k]
    BY <1>1, <1>2, <2>1
  <2>5. Grown(parts, c, token, grown)
    <3>1. \A k \in 1..b : h[k] = o[k]
      BY <2>2
    <3>2. c = token => PartsAt(Append(t, c), b + 1, h, grown) /\ h[b + 1] = Len(t) + 1
      BY <1>9
    <3>3. c # token => PartsAt(Append(t, c), b, h, grown)
      BY <1>2, <1>7, <2>2
    <3> QED
      BY <1>5, <3>1, <3>2, <3>3, PartsGrow
  <2> QED
    BY <1>1, <1>2, <2>5
<1> QED
  BY <1>8, <1>9

LEMMA SplitEmpty ==
    ASSUME NEW token
    PROVE  SplitAt(<<>>, token) \in Seq(Texts) /\ Len(SplitAt(<<>>, token)) = 1 /\ SplitAt(<<>>, token)[1] = <<>>
<1>1. PICK e : e = <<>> /\ e \in Texts /\ Len(e) = 0 /\ DOMAIN e = 1..0
  BY EmptyText
<1>2. Cuts(e, token) = {0}
  BY <1>1 DEF Cuts
<1>3. Cardinality({0}) = 1
  BY FS_Singleton
<1>4. PICK b, o, s : b = 1 /\ o = InOrder({0}) /\ s = SplitAt(e, token) /\ PartsAt(e, b, o, s)
  BY <1>1, <1>2, <1>3, SplitIs
<1>5. s \in Seq(Texts) /\ Len(s) = b /\ o[b] \in 0..0 /\ s[b] = SubSeq(e, o[b] + 1, 0)
  BY <1>1, <1>4 DEF PartsAt
<1>6. s[b] = <<>>
  <2>1. PICK x, z \in Nat : x = o[b] /\ z = 0 /\ x >= z /\ z <= Len(e)
    BY <1>1, <1>5
  <2>2. SubSeq(e, x + 1, z) = <<>>
    BY <1>1, <2>1, SubTextFacts
  <2> QED
    BY <1>5, <2>1, <2>2
<1> QED
  BY <1>1, <1>4, <1>5, <1>6

\* A text without the token is one part.
LEMMA SplitWhole ==
    ASSUME NEW t \in Texts, NEW token
    PROVE  /\ (\A i \in 1..Len(t) : t[i] # token) => Len(SplitAt(t, token)) = 1
           /\ Len(SplitAt(t, token)) = 1 => SplitAt(t, token)[1] = t
           /\ SplitAt(t, token) \in Seq(Texts) /\ Len(SplitAt(t, token)) \in Nat \ {0}
<1>1. PICK M, b, o, s : /\ M = Cuts(t, token) /\ b = Cardinality(M) /\ o = InOrder(M) /\ s = SplitAt(t, token)
  OBVIOUS
<1>2. PartsAt(t, b, o, s)
  BY <1>1, SplitIs
<1>3. /\ s \in Seq(Texts) /\ Len(s) = b /\ b \in Nat \ {0} /\ s[b] = SubSeq(t, o[b] + 1, Len(t))
  BY <1>2 DEF PartsAt
<1>4. ASSUME \A i \in 1..Len(t) : t[i] # token PROVE b = 1
  <2>1. M = {0}
    BY <1>1, <1>4, TextFacts DEF Cuts
  <2> QED
    BY <1>1, <2>1, FS_Singleton
<1>5. ASSUME b = 1 PROVE s[1] = t
  <2>1. M \in SUBSET Nat /\ IsFiniteSet(M) /\ 0 \in M
    <3>1. 0 \in M
      BY <1>1 DEF Cuts
    <3> QED
      BY <1>1, <3>1, CutsFacts
  <2>2. \E k \in 1..b : o[k] = 0
    BY <1>1, <2>1, InOrderFacts
  <2>3. o[b] = 0
    BY <1>5, <2>2
  <2>4. s[1] = SubSeq(t, 1, Len(t))
    <3>1. 0 + 1 = 1
      OBVIOUS
    <3> QED
      BY <1>3, <1>5, <2>3, <3>1
  <2>5. PICK z, n \in Nat : z = 0 /\ n = Len(t) /\ z <= n /\ n - z = n /\ z + 1 = 1
    BY TextFacts
  <2>6. PICK w : w = SubSeq(t, z + 1, n)
    OBVIOUS
  <2>7. w \in Texts /\ Len(w) = n - z /\ \A k \in 1..n - z : w[k] = t[z + k]
    <3>1. n \in Int /\ n <= Len(t)
      BY <2>5
    <3> QED
      BY <2>5, <2>6, <3>1, SubTextFacts
  <2>8. \A k \in 1..n : z + k = k
    BY <2>5
  <2>9. Len(w) = Len(t) /\ \A k \in 1..Len(w) : w[k] = t[k]
    BY <2>5, <2>7, <2>8
  <2>10. w = t
    BY <2>7, <2>9, TextsAgree
  <2> QED
    BY <2>4, <2>5, <2>6, <2>10
<1> QED
  BY <1>1, <1>3, <1>4, <1>5

\* A text without its carriage returns.
Unskipped(text) == {i \in DOMAIN text : text[i] # CarriageReturn}
Clean(text) == Chosen(text, LAMBDA char : char # CarriageReturn)

LEMMA KeptFacts ==
    ASSUME NEW t \in Texts
    PROVE  /\ Unskipped(t) \in SUBSET (1..Len(t)) /\ Unskipped(t) \in SUBSET Nat
           /\ IsFiniteSet(Unskipped(t)) /\ Cardinality(Unskipped(t)) \in Nat
<1>1. PICK n \in Nat : n = Len(t) /\ DOMAIN t = 1..n
  BY TextFacts
<1>2. Unskipped(t) \in SUBSET (1..n) /\ Unskipped(t) \in SUBSET Nat
  BY <1>1 DEF Unskipped
<1>3. IsFiniteSet(1..n)
  BY <1>1, FS_Interval
<1>4. IsFiniteSet(Unskipped(t))
  BY <1>2, <1>3, FS_Subset
<1>5. Cardinality(Unskipped(t)) \in Nat
  BY <1>4, FS_CardinalityType
<1> QED
  BY <1>1, <1>2, <1>4, <1>5

LEMMA CleanIs ==
    ASSUME NEW t \in Texts
    PROVE  /\ Clean(t) \in Texts /\ Len(Clean(t)) = Cardinality(Unskipped(t))
           /\ \A k \in 1..Cardinality(Unskipped(t)) : Clean(t)[k] = t[InOrder(Unskipped(t))[k]]
<1>1. PICK S, m, o, s : S = Unskipped(t) /\ m = Cardinality(S) /\ o = InOrder(S) /\ s = Clean(t)
  OBVIOUS
<1>2. S \in SUBSET (1..Len(t)) /\ S \in SUBSET Nat /\ IsFiniteSet(S) /\ m \in Nat
  BY <1>1, KeptFacts
<1>3. o \in [1..m -> S]
  BY <1>1, <1>2, InOrderFacts
<1>4. s = [k \in DOMAIN InOrder(Unskipped(t)) |-> t[InOrder(Unskipped(t))[k]]]
  BY <1>1 DEF Clean, Chosen, Unskipped
<1>5. s = [k \in 1..m |-> t[o[k]]]
  <2>1. DOMAIN o = 1..m
    BY <1>3
  <2> QED
    BY <1>1, <1>4, <2>1
<1>6. \A k \in 1..m : o[k] \in 1..Len(t)
  BY <1>2, <1>3
<1>7. \A k \in 1..m : t[o[k]] \in STRING
  <2>1. \A i \in 1..Len(t) : t[i] \in STRING
    BY TextFacts DEF Texts
  <2> QED
    BY <1>6, <2>1
<1>8. IsSeq(s) /\ Len(s) = m
  <2>1. s = [k \in 1..m |-> s[k]]
    BY <1>5
  <2> QED
    BY <1>2, <2>1, FunctionIsSeq
<1>9. s \in Texts
  <2>1. PICK T : T = STRING
    OBVIOUS
  <2>2. s \in [1..m -> T]
    BY <1>5, <1>7, <2>1
  <2>3. s \in Seq(T)
    BY <1>2, <2>2
  <2> QED
    BY <2>1, <2>3 DEF Texts
<1>10. \A k \in 1..m : s[k] = t[o[k]]
  BY <1>5
<1> QED
  BY <1>1, <1>8, <1>9, <1>10

LEMMA CleanGrows ==
    ASSUME NEW t \in Texts, NEW c \in STRING
    PROVE  /\ c = CarriageReturn => Clean(Append(t, c)) = Clean(t)
           /\ c # CarriageReturn => Clean(Append(t, c)) = Append(Clean(t), c)
<1>0. PICK u : u = Append(t, c)
  OBVIOUS
<1>1. PICK n \in Nat : n = Len(t) /\ u = Append(t, c)
  BY <1>0, TextFacts
<1>2. u \in Texts /\ Len(u) = n + 1 /\ u[n + 1] = c /\ \A k \in 1..n : u[k] = t[k]
  BY <1>1, AppendText
<1>3. DOMAIN t = 1..n /\ DOMAIN u = 1..n + 1
  BY <1>1, <1>2, TextFacts
<1>4. \A i \in 1..n + 1 : i \in 1..n \/ i = n + 1
  BY <1>1
<1>5. n + 1 \in 1..n + 1 /\ n + 1 \notin 1..n /\ 1..n \subseteq 1..n + 1
  BY <1>1
<1>6. c = CarriageReturn => Unskipped(u) = Unskipped(t)
  BY <1>2, <1>3, <1>4, <1>5 DEF Unskipped
<1>7. c # CarriageReturn => Unskipped(u) = Unskipped(t) \union {n + 1}
  BY <1>2, <1>3, <1>4, <1>5 DEF Unskipped
<1>8. PICK S, m, o, r, s : /\ S = Unskipped(t) /\ m = Cardinality(S) /\ o = InOrder(S)
                           /\ r = Clean(t) /\ s = Clean(u)
  OBVIOUS
<1>9. S \in SUBSET (1..n) /\ S \in SUBSET Nat /\ IsFiniteSet(S) /\ m \in Nat
  BY <1>1, <1>8, KeptFacts
<1>10. r \in Texts /\ Len(r) = m /\ \A k \in 1..m : r[k] = t[o[k]]
  BY <1>8, CleanIs
<1>11. s \in Texts /\ Len(s) = Cardinality(Unskipped(u)) /\ \A k \in 1..Cardinality(Unskipped(u)) : s[k] = u[InOrder(Unskipped(u))[k]]
  BY <1>2, <1>8, CleanIs
<1>12. \A k \in 1..m : o[k] \in 1..n
  <2>1. o \in [1..m -> S]
    BY <1>8, <1>9, InOrderFacts
  <2> QED
    BY <1>9, <2>1
<1>13. CASE c = CarriageReturn
  <2>1. Len(s) = m /\ \A k \in 1..m : s[k] = u[o[k]]
    BY <1>6, <1>8, <1>11, <1>13
  <2>2. Len(s) = Len(r) /\ \A k \in 1..Len(s) : s[k] = r[k]
    BY <1>2, <1>10, <1>12, <2>1
  <2>3. s = r
    BY <1>10, <1>11, <2>2, TextsAgree
  <2> QED
    BY <1>1, <1>8, <1>13, <2>3
<1>14. CASE c # CarriageReturn
  <2>1. PICK x \in Nat : x = n + 1 /\ \A i \in S : i < x
    BY <1>9
  <2>2. /\ Cardinality(S \union {x}) = Cardinality(S) + 1 /\ InOrder(S \union {x})[Cardinality(S) + 1] = x
        /\ \A k \in 1..Cardinality(S) : InOrder(S \union {x})[k] = InOrder(S)[k]
    BY <1>9, <2>1, InOrderGrows
  <2>3. PICK h : h = InOrder(Unskipped(u))
    OBVIOUS
  <2>4. Cardinality(Unskipped(u)) = m + 1 /\ h[m + 1] = n + 1 /\ \A k \in 1..m : h[k] = o[k]
    BY <1>7, <1>8, <1>14, <2>1, <2>2, <2>3
  <2>5. Len(s) = m + 1 /\ \A k \in 1..m + 1 : s[k] = u[h[k]]
    BY <1>11, <2>3, <2>4
  <2>6. PICK v : v = Append(r, c)
    OBVIOUS
  <2>7. v \in Texts /\ Len(v) = m + 1 /\ v[m + 1] = c /\ \A k \in 1..m : v[k] = r[k]
    BY <1>10, <2>6, AppendText
  <2>8. \A k \in 1..m + 1 : s[k] = v[k]
    <3> SUFFICES ASSUME NEW k \in 1..m + 1 PROVE s[k] = v[k]
      OBVIOUS
    <3>1. CASE k = m + 1
      BY <1>2, <2>4, <2>5, <2>7, <3>1
    <3>2. CASE k # m + 1
      <4>1. k \in 1..m
        BY <1>9, <3>2
      <4>2. s[k] = u[o[k]] /\ o[k] \in 1..n
        BY <1>12, <2>4, <2>5, <4>1
      <4>3. v[k] = t[o[k]]
        BY <1>10, <2>7, <4>1
      <4> QED
        BY <1>2, <4>2, <4>3
    <3> QED
      BY <3>1, <3>2
  <2>9. s = v
    BY <1>11, <2>5, <2>7, <2>8, TextsAgree
  <2> QED
    BY <1>1, <1>8, <1>14, <2>6, <2>9
<1> QED
  BY <1>13, <1>14

LEMMA CleanEmpty == Clean(<<>>) = <<>>
<1>1. PICK e : e = <<>> /\ e \in Texts /\ Len(e) = 0 /\ DOMAIN e = 1..0
  BY EmptyText
<1>2. Unskipped(e) = {}
  BY <1>1 DEF Unskipped
<1>3. Cardinality(Unskipped(e)) = 0
  BY <1>2, FS_EmptySet
<1>4. Clean(e) \in Texts /\ Len(Clean(e)) = 0
  BY <1>1, <1>3, CleanIs
<1>5. Clean(e) = <<>>
  BY <1>4, EmptyTextIs
<1> QED
  BY <1>1, <1>5

\* The buffer has what is behind the tabs with which a part begins.
BehindTabs(part, buffer, d) ==
    /\ d \in 0..Len(part) /\ buffer = SubSeq(part, d + 1, Len(part))
    /\ \A i \in 1..d : part[i] = Tab
    /\ buffer # <<>> => buffer[1] # Tab
StripsTo(part, buffer) == \E d : BehindTabs(part, buffer, d)

Inked(text) == {i \in DOMAIN text : text[i] \notin {Tab, Space}}

LEMMA BehindFacts ==
    ASSUME NEW t \in Texts, NEW b, NEW d, BehindTabs(t, b, d)
    PROVE  /\ b \in Texts /\ Len(b) = Len(t) - d /\ d \in Nat /\ Len(b) \in Nat
           /\ \A k \in 1..Len(b) : d + k \in 1..Len(t) /\ b[k] = t[d + k]
           /\ \A i \in 1..Len(t) : i <= d \/ i - d \in 1..Len(b)
<1>1. PICK n \in Nat : n = Len(t)
  BY TextFacts
<1>2. d \in 0..n /\ b = SubSeq(t, d + 1, n)
  BY <1>1 DEF BehindTabs
<1>3. d \in Nat /\ n \in Int /\ n <= Len(t) /\ d <= n
  BY <1>1, <1>2
<1>4. SubSeq(t, d + 1, n) \in Texts /\ Len(SubSeq(t, d + 1, n)) = n - d
      /\ \A k \in 1..n - d : SubSeq(t, d + 1, n)[k] = t[d + k]
  BY <1>3, SubTextFacts
<1>5. b \in Texts /\ Len(b) = n - d /\ \A k \in 1..n - d : b[k] = t[d + k]
  BY <1>2, <1>4
<1>6. n - d \in Nat /\ \A k \in 1..n - d : d + k \in 1..n
  BY <1>3
<1>7. \A i \in 1..n : i <= d \/ i - d \in 1..n - d
  BY <1>3
<1> QED
  BY <1>1, <1>3, <1>5, <1>6, <1>7

LEMMA StripEmpty == StripsTo(<<>>, <<>>)
<1>1. PICK e : e = <<>> /\ e \in Texts /\ Len(e) = 0
  BY EmptyText
<1>2. PICK z \in Nat : z = 0
  OBVIOUS
<1>3. SubSeq(e, z + 1, z) = <<>>
  <2>1. z \in Int /\ z <= Len(e) /\ z >= z
    BY <1>1, <1>2
  <2> QED
    BY <1>1, <1>2, <2>1, SubTextFacts
<1>4. e = SubSeq(e, z + 1, Len(e)) /\ z \in 0..Len(e) /\ \A i \in 1..z : e[i] = Tab
  BY <1>1, <1>2, <1>3
<1>5. BehindTabs(e, e, z)
  BY <1>1, <1>4 DEF BehindTabs
<1> QED
  BY <1>1, <1>5 DEF StripsTo

LEMMA StripGrows ==
    ASSUME NEW t \in Texts, NEW b, StripsTo(t, b), NEW c \in STRING
    PROVE  /\ c = Tab /\ b = <<>> => StripsTo(Append(t, c), b)
           /\ ~ (c = Tab /\ b = <<>>) => StripsTo(Append(t, c), Append(b, c))
<1>1. PICK d : BehindTabs(t, b, d)
  BY DEF StripsTo
<1>2. PICK n \in Nat : n = Len(t)
  BY TextFacts
<1>3. d \in 0..n /\ b = SubSeq(t, d + 1, n) /\ (\A i \in 1..d : t[i] = Tab) /\ (b # <<>> => b[1] # Tab)
  BY <1>1, <1>2 DEF BehindTabs
<1>4. b \in Texts /\ Len(b) = n - d
  BY <1>1, <1>2, BehindFacts
<1>5. PICK u : u = Append(t, c)
  OBVIOUS
<1>6. u \in Texts /\ Len(u) = n + 1 /\ u[n + 1] = c /\ \A k \in 1..n : u[k] = t[k]
  BY <1>2, <1>5, AppendText
<1>7. ASSUME c = Tab, b = <<>> PROVE StripsTo(u, b)
  <2>1. n = d
    <3>1. Len(b) = 0
      BY <1>7, EmptyText
    <3> QED
      BY <1>2, <1>3, <1>4, <3>1
  <2>2. PICK m \in Nat : m = n + 1
    BY <1>2
  <2>3. SubSeq(u, m + 1, m) = <<>>
    <3>1. m \in Int /\ m <= Len(u) /\ m >= m
      BY <1>6, <2>2
    <3> QED
      BY <1>6, <3>1, SubTextFacts
  <2>4. \A i \in 1..m : u[i] = Tab
    <3> SUFFICES ASSUME NEW i \in 1..m PROVE u[i] = Tab
      OBVIOUS
    <3>1. i \in 1..n \/ i = n + 1
      BY <2>2
    <3> QED
      BY <1>3, <1>6, <1>7, <2>1, <3>1
  <2>5. m \in 0..Len(u) /\ b = SubSeq(u, m + 1, Len(u))
    BY <1>6, <1>7, <2>2, <2>3
  <2>6. BehindTabs(u, b, m)
    BY <1>7, <2>4, <2>5 DEF BehindTabs
  <2> QED
    BY <2>6 DEF StripsTo
<1>8. ASSUME ~ (c = Tab /\ b = <<>>) PROVE StripsTo(u, Append(b, c))
  <2>1. PICK v : v = Append(b, c)
    OBVIOUS
  <2>2. v \in Texts /\ Len(v) = Len(b) + 1 /\ v[Len(b) + 1] = c /\ \A k \in 1..Len(b) : v[k] = b[k]
    BY <1>4, <2>1, AppendText
  <2>3. v = SubSeq(u, d + 1, n + 1)
    BY <1>2, <1>3, <1>5, <2>1, EndOfAppend
  <2>4. v[1] # Tab
    <3>1. CASE b = <<>>
      <4>1. Len(b) = 0
        BY <3>1, EmptyText
      <4>2. v[1] = c
        <5>1. Len(b) + 1 = 1
          BY <4>1
        <5> QED
          BY <2>2, <5>1
      <4> QED
        BY <1>8, <3>1, <4>2
    <3>2. CASE b # <<>>
      <4>1. Len(b) # 0
        BY <1>4, <3>2, EmptyTextIs
      <4>2. 1 \in 1..Len(b)
        BY <1>3, <1>4, <4>1
      <4> QED
        BY <1>3, <2>2, <3>2, <4>2
    <3> QED
      BY <3>1, <3>2
  <2>5. d \in 0..Len(u) /\ \A i \in 1..d : u[i] = Tab
    <3>1. d \in 0..n + 1 /\ \A i \in 1..d : i \in 1..n
      BY <1>3
    <3> QED
      BY <1>3, <1>6, <3>1
  <2>6. v = SubSeq(u, d + 1, Len(u))
    BY <1>6, <2>3
  <2>7. BehindTabs(u, v, d)
    BY <2>4, <2>5, <2>6 DEF BehindTabs
  <2> QED
    BY <2>1, <2>7 DEF StripsTo
<1> QED
  BY <1>5, <1>7, <1>8

LEMMA StripTabs ==
    ASSUME NEW t \in Texts, NEW b, StripsTo(t, b)
    PROVE  b \in Texts /\ (b = <<>> <=> \A i \in 1..Len(t) : t[i] = Tab)
<1>1. PICK d : BehindTabs(t, b, d)
  BY DEF StripsTo
<1>2. /\ b \in Texts /\ Len(b) = Len(t) - d /\ d \in Nat /\ Len(b) \in Nat
      /\ \A k \in 1..Len(b) : d + k \in 1..Len(t) /\ b[k] = t[d + k]
  BY <1>1, BehindFacts
<1>3. (\A i \in 1..d : t[i] = Tab) /\ (b # <<>> => b[1] # Tab)
  BY <1>1 DEF BehindTabs
<1>4. Len(t) \in Nat
  BY TextFacts
<1>5. ASSUME b = <<>> PROVE \A i \in 1..Len(t) : t[i] = Tab
  <2>1. Len(b) = 0
    BY <1>5, EmptyText
  <2>2. Len(t) = d
    BY <1>2, <1>4, <2>1
  <2> QED
    BY <1>3, <2>2
<1>6. ASSUME b # <<>> PROVE ~ \A i \in 1..Len(t) : t[i] = Tab
  <2>1. Len(b) # 0
    BY <1>2, <1>6, EmptyTextIs
  <2>2. 1 \in 1..Len(b)
    BY <1>2, <2>1
  <2>3. d + 1 \in 1..Len(t) /\ t[d + 1] = b[1]
    BY <1>2, <2>2
  <2> QED
    BY <1>3, <1>6, <2>3
<1> QED
  BY <1>2, <1>5, <1>6

\* x is between the first and the last of the tokens that are not white.
LEMMA TrimIs ==
    ASSUME NEW t \in Texts
    PROVE  /\ Trim(t) \in Texts
           /\ Inked(t) = {} => Trim(t) = <<>>
           /\ \A a, z \in Inked(t) : (\A i \in Inked(t) : a <= i /\ i <= z) => Trim(t) = SubSeq(t, a, z)
           /\ Inked(t) # {} => \E a, z \in Inked(t) : \A i \in Inked(t) : a <= i /\ i <= z
           /\ Inked(t) \in SUBSET (1..Len(t))
<1>1. PICK n \in Nat : n = Len(t) /\ DOMAIN t = 1..n
  BY TextFacts
<1>2. PICK S : S = Inked(t)
  OBVIOUS
<1>3. S \in SUBSET (1..n) /\ S \in SUBSET Nat
  BY <1>1, <1>2 DEF Inked
<1>4. Trim(t) = IF S = {} THEN <<>> ELSE SubSeq(t, Min(S), Max(S))
  BY <1>2 DEF Trim, Inked
<1>5. S # {} => Min(S) \in S /\ Max(S) \in S /\ \A i \in S : Min(S) <= i /\ i <= Max(S)
  <2> SUFFICES ASSUME S # {} PROVE Min(S) \in S /\ Max(S) \in S /\ \A i \in S : Min(S) <= i /\ i <= Max(S)
    OBVIOUS
  <2>1. Max(S) \in S /\ \A i \in S : i <= Max(S)
    BY <1>3, MaxFacts
  <2>2. PICK s \in S : TRUE
    OBVIOUS
  <2>3. Min(S) \in S /\ \A i \in S : Min(S) <= i
    BY <1>3, <2>2, MinFacts
  <2> QED
    BY <2>1, <2>3
<1>6. \A a, z \in S : (\A i \in S : a <= i /\ i <= z) => Trim(t) = SubSeq(t, a, z)
  <2> SUFFICES ASSUME NEW a \in S, NEW z \in S, \A i \in S : a <= i /\ i <= z
               PROVE  Trim(t) = SubSeq(t, a, z)
    OBVIOUS
  <2>1. a = Min(S)
    <3>1. a <= Min(S) /\ Min(S) <= a /\ Min(S) \in Nat /\ a \in Nat
      BY <1>3, <1>5
    <3> QED
      BY <3>1
  <2>2. z = Max(S)
    <3>1. Max(S) <= z /\ z <= Max(S) /\ Max(S) \in Nat /\ z \in Nat
      BY <1>3, <1>5
    <3> QED
      BY <3>1
  <2> QED
    BY <1>4, <2>1, <2>2
<1>7. Trim(t) \in Texts
  <2>1. CASE S = {}
    BY <1>4, <2>1, EmptyText
  <2>2. CASE S # {}
    <3>1. PICK a, z \in 1..n : a = Min(S) /\ z = Max(S)
      BY <1>3, <1>5, <2>2
    <3>2. PICK b \in Nat : b + 1 = a
      <4>1. a - 1 \in Nat /\ (a - 1) + 1 = a
        BY <3>1
      <4> QED
        BY <4>1
    <3>3. z \in Int /\ z <= Len(t)
      BY <1>1
    <3>4. SubSeq(t, b + 1, z) \in Texts
      BY <3>3, PartOfText
    <3> QED
      BY <1>4, <2>2, <3>1, <3>2, <3>4
  <2> QED
    BY <2>1, <2>2
<1>8. S # {} => \E a, z \in S : \A i \in S : a <= i /\ i <= z
  BY <1>5
<1>9. S = {} => Trim(t) = <<>>
  BY <1>4
<1> QED
  BY <1>1, <1>2, <1>3, <1>6, <1>7, <1>8, <1>9

LEMMA StripTrim ==
    ASSUME NEW t \in Texts, NEW b, StripsTo(t, b)
    PROVE  Trim(b) = Trim(t)
<1>1. PICK d : BehindTabs(t, b, d)
  BY DEF StripsTo
<1>2. /\ b \in Texts /\ Len(b) = Len(t) - d /\ d \in Nat /\ Len(b) \in Nat
      /\ \A k \in 1..Len(b) : d + k \in 1..Len(t) /\ b[k] = t[d + k]
      /\ \A i \in 1..Len(t) : i <= d \/ i - d \in 1..Len(b)
  BY <1>1, BehindFacts
<1>3. PICK m, n \in Nat : m = Len(b) /\ n = Len(t) /\ DOMAIN b = 1..m /\ DOMAIN t = 1..n
  BY <1>2, TextFacts
<1>4. \A i \in 1..d : t[i] = Tab
  BY <1>1 DEF BehindTabs
<1>5. PICK P, Q : P = Inked(t) /\ Q = Inked(b)
  OBVIOUS
<1>6. \A k \in 1..m : k \in Q <=> d + k \in P
  BY <1>2, <1>3, <1>5 DEF Inked
<1>7. \A i \in P : i \in 1..n /\ ~ (i <= d)
  <2>1. \A i \in P : i \in 1..n /\ t[i] # Tab
    BY <1>3, <1>5 DEF Inked
  <2> QED
    BY <1>2, <1>4, <2>1
<1>8. \A i \in P : i - d \in 1..m /\ i - d \in Q /\ d + (i - d) = i
  <2> SUFFICES ASSUME NEW i \in P PROVE i - d \in 1..m /\ i - d \in Q /\ d + (i - d) = i
    OBVIOUS
  <2>1. i \in 1..n /\ i - d \in 1..m /\ d + (i - d) = i
    BY <1>2, <1>3, <1>7
  <2> QED
    BY <1>6, <2>1
<1>9. Q \in SUBSET (1..m)
  BY <1>3, <1>5 DEF Inked
<1>10. CASE P = {}
  <2>1. Q = {}
    BY <1>6, <1>9, <1>10
  <2> QED
    BY <1>2, <1>5, <1>10, <2>1, TrimIs
<1>11. CASE P # {}
  <2>1. Q # {}
    BY <1>8, <1>11
  <2>2. PICK a, z \in Q : \A i \in Q : a <= i /\ i <= z
    BY <1>2, <1>5, <2>1, TrimIs
  <2>3. Trim(b) = SubSeq(b, a, z)
    BY <1>2, <1>5, <2>2, TrimIs
  <2>4. a \in 1..m /\ z \in 1..m /\ a <= z
    BY <1>9, <2>2
  <2>5. PICK x, y : x = d + a /\ y = d + z
    OBVIOUS
  <2>6. x \in P /\ y \in P
    BY <1>6, <2>4, <2>5
  <2>7. \A i \in P : x <= i /\ i <= y
    <3> SUFFICES ASSUME NEW i \in P PROVE x <= i /\ i <= y
      OBVIOUS
    <3>1. PICK k \in 1..m : k \in Q /\ d + k = i
      BY <1>8
    <3>2. a <= k /\ k <= z
      BY <2>2, <3>1
    <3> QED
      BY <1>2, <2>4, <2>5, <3>1, <3>2
  <2>8. Trim(t) = SubSeq(t, x, y)
    BY <1>5, <2>6, <2>7, TrimIs
  <2>9. PICK c \in Nat : c + 1 = a /\ c < z
    <3>1. a - 1 \in Nat /\ (a - 1) + 1 = a /\ a - 1 < z
      BY <2>4
    <3> QED
      BY <3>1
  <2>10. PICK e \in Nat : e = d + c /\ e + 1 = x /\ e < y /\ y \in Int /\ y - e = z - c /\ y \in 1..n
    <3>1. y \in 1..n
      BY <1>7, <2>6
    <3> QED
      BY <1>2, <2>4, <2>5, <2>9, <3>1
  <2>11. PICK v, w : v = SubSeq(b, c + 1, z) /\ w = SubSeq(t, e + 1, y)
    OBVIOUS
  <2>12. v \in Texts /\ Len(v) = z - c /\ \A k \in 1..z - c : v[k] = b[c + k]
    <3>1. z \in Int /\ z <= Len(b) /\ c <= z
      BY <1>3, <2>4, <2>9
    <3> QED
      BY <1>2, <2>9, <2>11, <3>1, SubTextFacts
  <2>13. w \in Texts /\ Len(w) = z - c /\ \A k \in 1..z - c : w[k] = t[e + k]
    <3>1. y \in Int /\ y <= Len(t) /\ e <= y
      BY <1>3, <2>10
    <3>2. w \in Texts /\ Len(w) = y - e /\ \A k \in 1..y - e : w[k] = t[e + k]
      BY <2>10, <2>11, <3>1, SubTextFacts
    <3> QED
      BY <2>10, <3>2
  <2>14. \A k \in 1..z - c : b[c + k] = t[e + k]
    <3> SUFFICES ASSUME NEW k \in 1..z - c PROVE b[c + k] = t[e + k]
      OBVIOUS
    <3>1. c + k \in 1..m /\ d + (c + k) = e + k
      BY <1>2, <2>4, <2>9, <2>10
    <3>2. b[c + k] = t[d + (c + k)]
      BY <1>2, <1>3, <3>1
    <3> QED
      BY <3>1, <3>2
  <2>15. v = w
    BY <2>12, <2>13, <2>14, TextsAgree
  <2> QED
    BY <2>3, <2>8, <2>9, <2>10, <2>11, <2>15
<1> QED
  BY <1>10, <1>11

LEMMA NamesAreNamed ==
    ASSUME NEW name \in Texts, IsCamelCase(name)
    PROVE  NameOf(name) # "" /\ name # <<>>
<1>1. name # <<>> /\ Range(name) \subseteq CamelWords
  BY DEF IsCamelCase
<1>2. CASE Len(name) = 1
  <2>1. 1 \in DOMAIN name
    <3>1. 1 \in 1..Len(name)
      BY <1>2
    <3> QED
      BY <3>1, TextFacts
  <2>2. name[1] \in CamelWords
    BY <1>1, <2>1 DEF Range
  <2>3. NameOf(name) = name[1]
    BY <1>2 DEF NameOf
  <2> QED
    BY <1>1, <2>2, <2>3, CamelAssumption
<1>3. CASE Len(name) # 1
  <2>1. NameOf(name) = "unknown"
    BY <1>3 DEF NameOf
  <2> QED
    BY <1>1, <2>1
<1> QED
  BY <1>2, <1>3

\* The lexer, whichever way it goes.
FaultAt(message, line) == [message |-> message, line |-> line]

LEMMA FaultFacts ==
    ASSUME NEW message, NEW line
    PROVE  FaultAt(message, line).line = line /\ (message # "none" => FaultAt(message, line) # NoFault)
BY DEF FaultAt, NoFault

LEMMA FailsIs ==
    ASSUME NEW b, NEW p, NEW s, NEW l, NEW f, NEW x, x = LexerOf(b, p, s, l, f), NEW message
    PROVE  Fails(x, message) = LexerOf(b, p, s, l, FaultAt(message, l))
<1>1. PICK v : v = FaultAt(message, l)
  OBVIOUS
<1>2. x.line = l
  BY DEF LexerOf
<1>3. Fails(x, message) = [x EXCEPT !.fault = v]
  BY <1>1, <1>2 DEF Fails, FaultAt
<1>4. [x EXCEPT !.fault = v] = LexerOf(b, p, s, l, v)
  BY DEF LexerOf
<1> QED
  BY <1>1, <1>3, <1>4

NamesAs(x, b, p, s, l, f) ==
    /\ ~ IsCamelCase(Trim(b)) =>
           \E message : message # "none" /\ Names(x) = LexerOf(b, p, s, l, FaultAt(message, l))
    /\ IsCamelCase(Trim(b)) => Names(x) = LexerOf(<<>>, NameOf(Trim(b)), s, l, f)

LEMMA NamesIs ==
    ASSUME NEW b, NEW p, NEW s, NEW l, NEW f, NEW x, x = LexerOf(b, p, s, l, f)
    PROVE  NamesAs(x, b, p, s, l, f)
<1>1. PICK name, e, v : name = Trim(b) /\ e = <<>> /\ v = NameOf(name)
  OBVIOUS
<1>2. x.buffer = b
  BY DEF LexerOf
<1>10. PICK y : y = [x EXCEPT !.propName = v]
  OBVIOUS
<1>11. y = LexerOf(b, v, s, l, f)
  BY <1>10 DEF LexerOf
<1>12. PICK z : z = [y EXCEPT !.buffer = e]
  OBVIOUS
<1>4. z = LexerOf(e, v, s, l, f)
  BY <1>11, <1>12 DEF LexerOf
<1>3. Names(x) = IF name = <<>> THEN Fails(x, "unexpected separator")
                 ELSE IF ~IsCamelCase(name) THEN Fails(x, "not camel case")
                 ELSE z
  BY <1>1, <1>2, <1>10, <1>12 DEF Names
<1>5. IsCamelCase(name) => name # <<>>
  BY DEF IsCamelCase
<1>13. PICK one, two : one = "unexpected separator" /\ two = "not camel case"
  OBVIOUS
<1>6. /\ one = "unexpected separator" /\ two = "not camel case"
      /\ one # "none" /\ two # "none"
  BY <1>13
<1>7. /\ Fails(x, one) = LexerOf(b, p, s, l, FaultAt(one, l))
      /\ Fails(x, two) = LexerOf(b, p, s, l, FaultAt(two, l))
  BY FailsIs
<1>8. IsCamelCase(name) => Names(x) = LexerOf(e, v, s, l, f)
  BY <1>3, <1>4, <1>5
<1>9. ~IsCamelCase(name) => Names(x) = Fails(x, one) \/ Names(x) = Fails(x, two)
  BY <1>3, <1>6
<1> QED
  BY <1>1, <1>6, <1>7, <1>8, <1>9 DEF NamesAs

Refuses(x, message, b, p, s, l) ==
    \E m : m # "none" /\ Ends(x, message) = LexerOf(b, p, s, l, FaultAt(m, l))
EndsAs(x, message, b, p, s, l, f) ==
    /\ p = "" \/ Trim(b) = <<>> => Refuses(x, message, b, p, s, l)
    /\ ~ (p = "" \/ Trim(b) = <<>>) =>
           Ends(x, message) = LexerOf(<<>>, "", Append(s, Definition(p, Trim(b), l)), l + 1, f)

LEMMA EndsIs ==
    ASSUME NEW b, NEW p, NEW s, NEW l, NEW f, NEW x, x = LexerOf(b, p, s, l, f),
           NEW message, message # "none"
    PROVE  EndsAs(x, message, b, p, s, l, f)
<1>1. PICK value, e, o, v, n : /\ value = Trim(b) /\ e = <<>> /\ o = "" /\ v = Append(s, Definition(p, value, l))
                               /\ n = l + 1
  OBVIOUS
<1>2. x.buffer = b /\ x.propName = p /\ x.line = l /\ x.properties = s
  BY DEF LexerOf
<1>10. PICK y : y = [x EXCEPT !.properties = v]
  OBVIOUS
<1>11. y = LexerOf(b, p, v, l, f)
  BY <1>10 DEF LexerOf
<1>12. PICK z : z = [y EXCEPT !.buffer = e]
  OBVIOUS
<1>13. z = LexerOf(e, p, v, l, f)
  BY <1>11, <1>12 DEF LexerOf
<1>14. PICK q : q = [z EXCEPT !.propName = o]
  OBVIOUS
<1>15. q = LexerOf(e, o, v, l, f)
  BY <1>13, <1>14 DEF LexerOf
<1>16. PICK r : r = [q EXCEPT !.line = n]
  OBVIOUS
<1>4. r = LexerOf(e, o, v, n, f)
  BY <1>15, <1>16 DEF LexerOf
<1>17. [q EXCEPT !.line = @ + 1] = r
  <2>1. q.line = l
    BY <1>15 DEF LexerOf
  <2> QED
    BY <1>1, <1>16, <2>1
<1>18. [x EXCEPT !.properties = Append(@, Definition(x.propName, Trim(x.buffer), x.line))] = y
  BY <1>1, <1>2, <1>10
<1>3. Ends(x, message) = IF p = "" THEN Fails(x, message)
                         ELSE IF value = <<>> THEN Fails(x, "empty value")
                         ELSE r
  BY <1>1, <1>2, <1>12, <1>14, <1>17, <1>18 DEF Ends
<1>19. PICK two : two = "empty value"
  OBVIOUS
<1>5. two = "empty value" /\ two # "none"
  BY <1>19
<1>6. /\ Fails(x, message) = LexerOf(b, p, s, l, FaultAt(message, l))
      /\ Fails(x, two) = LexerOf(b, p, s, l, FaultAt(two, l))
  BY FailsIs
<1>7. p = "" \/ value = <<>> => Ends(x, message) = Fails(x, message) \/ Ends(x, message) = Fails(x, two)
  BY <1>3, <1>5
<1>8. ~ (p = "" \/ value = <<>>) => Ends(x, message) = LexerOf(e, o, v, n, f)
  BY <1>3, <1>4
<1>20. ASSUME p = "" \/ value = <<>>
       PROVE  \E m : m # "none" /\ Ends(x, message) = LexerOf(b, p, s, l, FaultAt(m, l))
  BY <1>5, <1>6, <1>7, <1>20
<1>21. p = "" \/ Trim(b) = <<>> => Refuses(x, message, b, p, s, l)
  BY <1>1, <1>20 DEF Refuses
<1>22. ~ (p = "" \/ Trim(b) = <<>>) =>
           Ends(x, message) = LexerOf(<<>>, "", Append(s, Definition(p, Trim(b), l)), l + 1, f)
  BY <1>1, <1>8
<1> QED
  BY <1>21, <1>22 DEF EndsAs

ReadsAs(x, c, b, p, s, l, f) ==
    /\ f # NoFault => Reads(x, c) = x
    /\ c = CarriageReturn => Reads(x, c) = x
    /\ f = NoFault /\ c = PropertyNameSeparator => Reads(x, c) = Names(x)
    /\ f = NoFault /\ c = LineFeed => Reads(x, c) = Ends(x, "unexpected linefeed")
    /\ f = NoFault /\ c = Tab /\ b = <<>> => Reads(x, c) = x
    /\ f = NoFault /\ c \notin {CarriageReturn, PropertyNameSeparator, LineFeed} /\ ~ (c = Tab /\ b = <<>>) =>
           Reads(x, c) = LexerOf(Append(b, c), p, s, l, f)

LEMMA ReadsIs ==
    ASSUME NEW b, NEW p, NEW s, NEW l, NEW f, NEW x, x = LexerOf(b, p, s, l, f), NEW c
    PROVE  ReadsAs(x, c, b, p, s, l, f)
<1>1. x.fault = f /\ x.buffer = b
  BY DEF LexerOf
<1>2. PICK v : v = Append(b, c)
  OBVIOUS
<1>3. [x EXCEPT !.buffer = v] = LexerOf(v, p, s, l, f)
  BY DEF LexerOf
<1>4. PICK y : y = [x EXCEPT !.buffer = v]
  OBVIOUS
<1>5. [x EXCEPT !.buffer = Append(@, c)] = y
  BY <1>1, <1>2, <1>4
<1>6. PICK names, ends, e : names = Names(x) /\ ends = Ends(x, "unexpected linefeed") /\ e = <<>>
  OBVIOUS
<1>7. Reads(x, c) = IF f # NoFault THEN x
                    ELSE CASE c = Tab /\ b = e -> x
                           [] c = PropertyNameSeparator -> names
                           [] c = LineFeed -> ends
                           [] c = CarriageReturn -> x
                           [] OTHER -> y
  <2>1. Reads(x, c) = IF x.fault # NoFault THEN x
                      ELSE CASE c = Tab /\ x.buffer = <<>> -> x
                             [] c = PropertyNameSeparator -> Names(x)
                             [] c = LineFeed -> Ends(x, "unexpected linefeed")
                             [] c = CarriageReturn -> x
                             [] OTHER -> [x EXCEPT !.buffer = Append(@, c)]
    BY DEF Reads
  <2>2. PICK w : w = [x EXCEPT !.buffer = Append(@, c)]
    OBVIOUS
  <2>3. w = y
    BY <1>5, <2>2
  <2>4. Reads(x, c) = IF x.fault # NoFault THEN x
                      ELSE CASE c = Tab /\ x.buffer = e -> x
                             [] c = PropertyNameSeparator -> names
                             [] c = LineFeed -> ends
                             [] c = CarriageReturn -> x
                             [] OTHER -> y
    BY <1>6, <2>1, <2>2, <2>3
  <2> QED
    BY <1>1, <2>4
<1>8. /\ CarriageReturn # PropertyNameSeparator /\ CarriageReturn # LineFeed /\ CarriageReturn # Tab
      /\ PropertyNameSeparator # LineFeed /\ PropertyNameSeparator # Tab /\ LineFeed # Tab
  BY DEF CarriageReturn, PropertyNameSeparator, LineFeed, Tab
<1>9. f # NoFault => Reads(x, c) = x
  BY <1>7
<1>10. c = CarriageReturn => Reads(x, c) = x
  BY <1>6, <1>7, <1>8
<1>11. f = NoFault /\ c = PropertyNameSeparator => Reads(x, c) = names
  BY <1>6, <1>7, <1>8
<1>12. f = NoFault /\ c = LineFeed => Reads(x, c) = ends
  BY <1>6, <1>7, <1>8
<1>13. f = NoFault /\ c = Tab /\ b = <<>> => Reads(x, c) = x
  BY <1>6, <1>7, <1>8
<1>14. f = NoFault /\ c \notin {CarriageReturn, PropertyNameSeparator, LineFeed} /\ ~ (c = Tab /\ b = <<>>) =>
           Reads(x, c) = y
  BY <1>6, <1>7
<1> QED
  BY <1>2, <1>3, <1>4, <1>6, <1>9, <1>10, <1>11, <1>12, <1>13, <1>14 DEF ReadsAs

\* The lexer within a line, all names of which are camel case names so far.
PartsIn(line) == SplitAt(line, PropertyNameSeparator)
Fronted(parts) == \A k \in 1..Len(parts) - 1 : IsCamelCase(Trim(parts[k]))
OnLine(line, b, p) ==
    /\ Fronted(PartsIn(line)) /\ StripsTo(PartsIn(line)[Len(PartsIn(line))], b)
    /\ Len(PartsIn(line)) = 1 => p = ""
    /\ Len(PartsIn(line)) > 1 => p = NameOf(Trim(PartsIn(line)[Len(PartsIn(line)) - 1]))

LEMMA PartsInFacts ==
    ASSUME NEW t \in Texts
    PROVE  /\ PartsIn(t) \in Seq(Texts) /\ Len(PartsIn(t)) \in Nat \ {0}
           /\ \A k \in 1..Len(PartsIn(t)) : PartsIn(t)[k] \in Texts
<1>1. PICK W : W = Texts
  OBVIOUS
<1>2. PICK parts : parts = PartsIn(t)
  OBVIOUS
<1>3. parts \in Seq(W) /\ Len(parts) \in Nat \ {0}
  BY <1>1, <1>2, SplitWhole DEF PartsIn
<1>4. \A k \in 1..Len(parts) : parts[k] \in W
  BY <1>3
<1> QED
  BY <1>1, <1>2, <1>3, <1>4

LEMMA LineMeans ==
    ASSUME NEW t \in Texts, NEW parts, parts = PartsIn(t), NEW n, n = Len(parts)
    PROVE  /\ LineIsSound(t) <=> n > 1 /\ Fronted(parts) /\ Trim(parts[n]) # <<>>
           /\ LineSays(t)[1] = NameOf(Trim(parts[n - 1])) /\ LineSays(t)[2] = Trim(parts[n])
<1>1. SplitAt(t, PropertyNameSeparator) = parts
  BY DEF PartsIn
<1>2. Last(parts) = parts[n]
  BY DEF Last
<1>3. LineIsSound(t) <=> n > 1 /\ Fronted(parts) /\ Trim(parts[n]) # <<>>
  BY <1>1, <1>2 DEF LineIsSound, Fronted
<1>4. LineSays(t) = <<NameOf(Trim(parts[n - 1])), Trim(parts[n])>>
  BY <1>1, <1>2 DEF LineSays
<1> QED
  BY <1>3, <1>4

LEMMA UnfrontedStays ==
    ASSUME NEW t \in Texts, NEW c \in STRING, ~ Fronted(PartsIn(t))
    PROVE  ~ Fronted(PartsIn(Append(t, c))) /\ ~ LineIsSound(t)
<1>1. PICK a, g : a = PartsIn(t) /\ g = PartsIn(Append(t, c))
  OBVIOUS
<1>2. Grown(a, c, PropertyNameSeparator, g)
  BY <1>1, SplitGrows DEF PartsIn
<1>3. PICK n \in Nat \ {0} : n = Len(a)
  BY <1>1, PartsInFacts
<1>4. PICK k \in 1..n - 1 : ~ IsCamelCase(Trim(a[k]))
  BY <1>1, <1>3 DEF Fronted
<1>5. g[k] = a[k] /\ (Len(g) = n \/ Len(g) = n + 1)
  BY <1>2, <1>3 DEF Grown
<1>6. k \in 1..Len(g) - 1
  BY <1>3, <1>5
<1>7. ~ Fronted(g)
  BY <1>4, <1>5, <1>6 DEF Fronted
<1> QED
  BY <1>1, <1>7, LineMeans

LEMMA LineBegins == <<>> \in Texts /\ OnLine(<<>>, <<>>, "")
<1>1. PICK e, o : e = <<>> /\ o = ""
  OBVIOUS
<1>2. PICK parts : parts = PartsIn(e)
  OBVIOUS
<1>3. Len(parts) = 1 /\ parts[1] = e
  BY <1>1, <1>2, SplitEmpty DEF PartsIn
<1>4. StripsTo(e, e)
  BY <1>1, StripEmpty
<1>5. Fronted(parts)
  BY <1>3 DEF Fronted
<1>6. OnLine(e, e, o)
  <2>1. ~ (Len(parts) > 1) /\ parts[Len(parts)] = e
    BY <1>3
  <2>2. Fronted(PartsIn(e)) /\ StripsTo(PartsIn(e)[Len(PartsIn(e))], e)
    BY <1>2, <1>4, <1>5, <2>1
  <2>3. ~ (Len(PartsIn(e)) > 1) /\ o = ""
    BY <1>1, <1>2, <2>1
  <2> QED
    BY <2>2, <2>3 DEF OnLine
<1> QED
  BY <1>1, <1>6, EmptyText

LineEndsAs(t, x, message, b, p, s, l) ==
    /\ LineIsSound(t) =>
           Ends(x, message) = LexerOf(<<>>, "", Append(s, Definition(LineSays(t)[1], LineSays(t)[2], l)), l + 1, NoFault)
    /\ ~ LineIsSound(t) => Refuses(x, message, b, p, s, l)

LEMMA LineEnds ==
    ASSUME NEW t \in Texts, NEW b, NEW p, OnLine(t, b, p), NEW s, NEW l,
           NEW x, x = LexerOf(b, p, s, l, NoFault), NEW message, message # "none"
    PROVE  LineEndsAs(t, x, message, b, p, s, l)
<1>1. PICK parts, n : parts = PartsIn(t) /\ n = Len(parts)
  OBVIOUS
<1>2. n \in Nat \ {0} /\ \A k \in 1..n : parts[k] \in Texts
  BY <1>1, PartsInFacts
<1>3. /\ Fronted(parts) /\ StripsTo(parts[n], b) /\ (n = 1 => p = "")
      /\ n > 1 => p = NameOf(Trim(parts[n - 1]))
  BY <1>1 DEF OnLine
<1>4. Trim(b) = Trim(parts[n])
  <2>1. parts[n] \in Texts
    BY <1>2
  <2> QED
    BY <1>3, <2>1, StripTrim
<1>5. n > 1 => p # ""
  <2> SUFFICES ASSUME n > 1 PROVE p # ""
    OBVIOUS
  <2>1. n - 1 \in 1..n /\ n - 1 \in 1..n - 1
    BY <1>2
  <2>2. PICK part, name : part = parts[n - 1] /\ name = Trim(part)
    OBVIOUS
  <2>3. part \in Texts
    BY <1>2, <2>1, <2>2
  <2>4. name \in Texts
    BY <2>2, <2>3, TrimIs
  <2>5. IsCamelCase(name)
    BY <1>1, <1>3, <2>1, <2>2 DEF Fronted
  <2>6. NameOf(name) # ""
    BY <2>4, <2>5, NamesAreNamed
  <2> QED
    BY <1>3, <2>2, <2>6
<1>6. LineIsSound(t) <=> n > 1 /\ Fronted(parts) /\ Trim(parts[n]) # <<>>
  BY <1>1, LineMeans
<1>7. LineIsSound(t) <=> ~ (p = "" \/ Trim(b) = <<>>)
  <2>1. n = 1 \/ n > 1
    BY <1>2
  <2> QED
    BY <1>3, <1>4, <1>5, <1>6, <2>1
<1>8. LineIsSound(t) => p = LineSays(t)[1] /\ Trim(b) = LineSays(t)[2]
  BY <1>1, <1>3, <1>4, <1>6, LineMeans
<1>9. PICK f : f = NoFault
  OBVIOUS
<1>13. x = LexerOf(b, p, s, l, f)
  BY <1>9
<1>15. EndsAs(x, message, b, p, s, l, f)
  BY <1>13, EndsIs
<1>10. p = "" \/ Trim(b) = <<>> => \E m : m # "none" /\ Ends(x, message) = LexerOf(b, p, s, l, FaultAt(m, l))
  BY <1>15 DEF EndsAs, Refuses
<1>14. ~ (p = "" \/ Trim(b) = <<>>) =>
           Ends(x, message) = LexerOf(<<>>, "", Append(s, Definition(p, Trim(b), l)), l + 1, f)
  BY <1>15 DEF EndsAs
<1>11. ASSUME LineIsSound(t)
       PROVE  Ends(x, message) = LexerOf(<<>>, "", Append(s, Definition(LineSays(t)[1], LineSays(t)[2], l)), l + 1, f)
  BY <1>7, <1>8, <1>14, <1>11
<1>12. ASSUME ~ LineIsSound(t)
       PROVE  \E m : m # "none" /\ Ends(x, message) = LexerOf(b, p, s, l, FaultAt(m, l))
  BY <1>7, <1>10, <1>12
<1>16. ~ LineIsSound(t) => Refuses(x, message, b, p, s, l)
  BY <1>12 DEF Refuses
<1> QED
  BY <1>9, <1>11, <1>16 DEF LineEndsAs

ReadsOn(t, c, x, s, l) ==
    \E b, p, f : /\ Reads(x, c) = LexerOf(b, p, s, l, f)
                 /\ \/ f = NoFault /\ OnLine(Append(t, c), b, p)
                    \/ f # NoFault /\ f.line = l /\ ~ Fronted(PartsIn(Append(t, c)))

LEMMA LineReads ==
    ASSUME NEW t \in Texts, NEW b, NEW p, OnLine(t, b, p), NEW s, NEW l,
           NEW x, x = LexerOf(b, p, s, l, NoFault), NEW c \in STRING, c # LineFeed, c # CarriageReturn
    PROVE  ReadsOn(t, c, x, s, l)
<1>1. PICK a, u, g : a = PartsIn(t) /\ u = Append(t, c) /\ g = PartsIn(u)
  OBVIOUS
<1>2. Grown(a, c, PropertyNameSeparator, g)
  BY <1>1, SplitGrows DEF PartsIn
<1>3. PICK n \in Nat \ {0} : n = Len(a) /\ n \in 1..n
  BY <1>1, PartsInFacts
<1>4. /\ Fronted(a) /\ StripsTo(a[n], b)
      /\ n = 1 => p = ""
      /\ n > 1 => p = NameOf(Trim(a[n - 1]))
  BY <1>1, <1>3 DEF OnLine
<1>5. a[n] \in Texts
  BY <1>1, <1>3, PartsInFacts
<1>6. \A k \in 1..n - 1 : IsCamelCase(Trim(a[k])) /\ g[k] = a[k]
  BY <1>2, <1>3, <1>4 DEF Fronted, Grown
<1>7. PICK f : f = NoFault
  OBVIOUS
<1>8. ReadsAs(x, c, b, p, s, l, f) /\ NamesAs(x, b, p, s, l, f)
  <2>1. x = LexerOf(b, p, s, l, f)
    BY <1>7
  <2> QED
    BY <2>1, ReadsIs, NamesIs
<1>9. Trim(b) = Trim(a[n])
  BY <1>4, <1>5, StripTrim
<1>10. CASE c = PropertyNameSeparator
  <2>1. Len(g) = n + 1 /\ g[n + 1] = <<>> /\ g[n] = a[n]
    BY <1>2, <1>3, <1>10 DEF Grown
  <2>2. Reads(x, c) = Names(x)
    BY <1>7, <1>8, <1>10 DEF ReadsAs
  <2>3. CASE IsCamelCase(Trim(b))
    <3>1. PICK e, q : e = <<>> /\ q = NameOf(Trim(b))
      OBVIOUS
    <3>2. Reads(x, c) = LexerOf(e, q, s, l, f)
      BY <1>8, <2>2, <2>3, <3>1 DEF NamesAs
    <3>3. Fronted(g)
      <4>1. \A k \in 1..(n + 1) - 1 : k \in 1..n - 1 \/ k = n
        BY <1>3
      <4>2. \A k \in 1..(n + 1) - 1 : IsCamelCase(Trim(g[k]))
        BY <1>6, <1>9, <2>1, <2>3, <4>1
      <4> QED
        BY <2>1, <4>2 DEF Fronted
    <3>4. StripsTo(g[n + 1], e)
      BY <2>1, <3>1, StripEmpty
    <3>5. q = NameOf(Trim(g[(n + 1) - 1]))
      <4>1. (n + 1) - 1 = n
        BY <1>3
      <4> QED
        BY <1>9, <2>1, <3>1, <4>1
    <3>6. OnLine(u, e, q)
      <4>1. PICK m : m = Len(g) /\ m = n + 1 /\ m # 1
        BY <1>3, <2>1
      <4> QED
        BY <1>1, <3>3, <3>4, <3>5, <4>1 DEF OnLine
    <3> QED
      BY <1>1, <1>7, <3>2, <3>6 DEF ReadsOn
  <2>4. CASE ~ IsCamelCase(Trim(b))
    <3>1. PICK m : m # "none" /\ Reads(x, c) = LexerOf(b, p, s, l, FaultAt(m, l))
      BY <1>8, <2>2, <2>4 DEF NamesAs
    <3>2. PICK h : h = FaultAt(m, l) /\ h # NoFault /\ h.line = l
      BY <3>1, FaultFacts
    <3>3. ~ Fronted(g)
      <4>1. n \in 1..(n + 1) - 1
        BY <1>3
      <4>2. ~ IsCamelCase(Trim(g[n]))
        BY <1>9, <2>1, <2>4
      <4> QED
        BY <2>1, <4>1, <4>2 DEF Fronted
    <3> QED
      BY <1>1, <3>1, <3>2, <3>3 DEF ReadsOn
  <2> QED
    BY <2>3, <2>4
<1>11. CASE c # PropertyNameSeparator
  <2>1. Len(g) = n /\ g[n] = Append(a[n], c)
    BY <1>2, <1>3, <1>11 DEF Grown
  <2>2. Fronted(g)
    <3>1. \A k \in 1..n - 1 : IsCamelCase(Trim(g[k]))
      BY <1>6
    <3> QED
      BY <2>1, <3>1 DEF Fronted
  <2>3. n > 1 => p = NameOf(Trim(g[n - 1]))
    <3>1. n > 1 => n - 1 \in 1..n - 1
      BY <1>3
    <3> QED
      BY <1>4, <1>6, <3>1
  <2>4. \A h : StripsTo(g[n], h) => OnLine(u, h, p)
    BY <1>1, <1>4, <2>1, <2>2, <2>3 DEF OnLine
  <2>5. CASE c = Tab /\ b = <<>>
    <3>1. StripsTo(g[n], b)
      BY <1>4, <1>5, <2>1, <2>5, StripGrows
    <3>2. Reads(x, c) = LexerOf(b, p, s, l, f)
      BY <1>7, <1>8, <2>5 DEF ReadsAs
    <3> QED
      BY <1>1, <1>7, <2>4, <3>1, <3>2 DEF ReadsOn
  <2>6. CASE ~ (c = Tab /\ b = <<>>)
    <3>1. PICK h : h = Append(b, c)
      OBVIOUS
    <3>2. StripsTo(g[n], h)
      BY <1>4, <1>5, <2>1, <2>6, <3>1, StripGrows
    <3>3. c \notin {CarriageReturn, PropertyNameSeparator, LineFeed}
      BY <1>11
    <3>4. Reads(x, c) = LexerOf(h, p, s, l, f)
      BY <1>7, <1>8, <2>6, <3>1, <3>3 DEF ReadsAs
    <3> QED
      BY <1>1, <1>7, <2>4, <3>2, <3>4 DEF ReadsOn
  <2> QED
    BY <2>5, <2>6
<1> QED
  BY <1>10, <1>11

LinesIn(text) == SplitAt(text, LineFeed)
SoundTo(lines, n) == \A k \in 1..n : LineIsSound(lines[k])
SaysLines(s, lines, n) ==
    /\ IsSeq(s) /\ Len(s) = n
    /\ \A k \in 1..n : s[k].key = LineSays(lines[k])[1] /\ s[k].value = LineSays(lines[k])[2]
BrokenAt(lines, k) ==
    \/ k < Len(lines) /\ ~ LineIsSound(lines[k])
    \/ k = Len(lines) /\ ~ Fronted(PartsIn(lines[k]))

\* The lexer and the lines it has read, the last of which may go on.
Undisturbed(lines, b, p, s, l, f) ==
    /\ f = NoFault /\ l = Len(lines)
    /\ SoundTo(lines, l - 1) /\ SaysLines(s, lines, l - 1) /\ OnLine(lines[l], b, p)
Stopped(lines, f) ==
    /\ f # NoFault /\ f.line \in 1..Len(lines)
    /\ SoundTo(lines, f.line - 1) /\ BrokenAt(lines, f.line)
InSync(lines, x) ==
    \E b, p, s, l, f : x = LexerOf(b, p, s, l, f) /\ (Undisturbed(lines, b, p, s, l, f) \/ Stopped(lines, f))

LEMMA LinesFacts ==
    ASSUME NEW t \in Texts
    PROVE  /\ LinesIn(t) \in Seq(Texts) /\ Len(LinesIn(t)) \in Nat \ {0}
           /\ \A k \in 1..Len(LinesIn(t)) : LinesIn(t)[k] \in Texts
<1>1. PICK W : W = Texts
  OBVIOUS
<1>2. PICK lines : lines = LinesIn(t)
  OBVIOUS
<1>3. lines \in Seq(W) /\ Len(lines) \in Nat \ {0}
  BY <1>1, <1>2, SplitWhole DEF LinesIn
<1>4. \A k \in 1..Len(lines) : lines[k] \in W
  BY <1>3
<1> QED
  BY <1>1, <1>2, <1>3, <1>4

LEMMA SyncBegins == InSync(LinesIn(<<>>), Lexer(1))
<1>0. PICK l \in Nat : l = 1
  OBVIOUS
<1>1. PICK e, o, f : e = <<>> /\ o = "" /\ f = NoFault
  OBVIOUS
<1>2. PICK lines : lines = LinesIn(e)
  OBVIOUS
<1>3. Len(lines) = 1 /\ lines[1] = e
  BY <1>1, <1>2, SplitEmpty DEF LinesIn
<1>4. Lexer(1) = LexerOf(e, o, e, l, f)
  BY <1>0, <1>1 DEF Lexer, LexerOf
<1>5. OnLine(lines[l], e, o)
  BY <1>0, <1>1, <1>3, LineBegins
<1>6. SoundTo(lines, l - 1) /\ SaysLines(e, lines, l - 1)
  <2>1. l - 1 = 0 /\ \A k \in 1..l - 1 : FALSE
    <3>1. l - 1 = 0
      BY <1>0
    <3>2. \A k \in 1..0 : FALSE
      OBVIOUS
    <3> QED
      BY <3>1, <3>2
  <2>2. IsSeq(e) /\ Len(e) = 0
    BY <1>1, EmptyIsSeq
  <2> QED
    BY <2>1, <2>2 DEF SoundTo, SaysLines
<1>7. Undisturbed(lines, e, o, e, l, f)
  BY <1>0, <1>1, <1>3, <1>5, <1>6 DEF Undisturbed
<1> QED
  BY <1>1, <1>2, <1>4, <1>7 DEF InSync

\* The lines that are over stay as they are.
Prefixed(lines, grown, n) == \A k \in 1..n : grown[k] = lines[k]

LEMMA PrefixSays ==
    ASSUME NEW lines, NEW grown, NEW n, Prefixed(lines, grown, n)
    PROVE  /\ SoundTo(lines, n) => SoundTo(grown, n)
           /\ \A s : SaysLines(s, lines, n) => SaysLines(s, grown, n)
<1>1. \A k \in 1..n : grown[k] = lines[k]
  BY DEF Prefixed
<1>2. SoundTo(lines, n) => SoundTo(grown, n)
  BY <1>1 DEF SoundTo
<1>3. ASSUME NEW s, SaysLines(s, lines, n) PROVE SaysLines(s, grown, n)
  BY <1>1, <1>3 DEF SaysLines
<1> QED
  BY <1>2, <1>3

LEMMA StoppedStays ==
    ASSUME NEW t \in Texts, NEW c \in STRING, NEW f, Stopped(LinesIn(t), f)
    PROVE  Stopped(LinesIn(Append(t, c)), f)
<1>1. PICK a, g : a = LinesIn(t) /\ g = LinesIn(Append(t, c))
  OBVIOUS
<1>2. Grown(a, c, LineFeed, g)
  BY <1>1, SplitGrows DEF LinesIn
<1>3. PICK m \in Nat \ {0} : m = Len(a) /\ m \in 1..m /\ \A k \in 1..m : a[k] \in Texts
  BY <1>1, LinesFacts
<1>4. PICK k \in 1..m : k = f.line /\ f # NoFault /\ SoundTo(a, k - 1) /\ BrokenAt(a, k)
  BY <1>1, <1>3 DEF Stopped
<1>5. /\ c = LineFeed => Len(g) = m + 1 /\ g[m] = a[m]
      /\ c # LineFeed => Len(g) = m /\ g[m] = Append(a[m], c)
      /\ \A j \in 1..m - 1 : g[j] = a[j]
  BY <1>2, <1>3 DEF Grown
<1>6. Prefixed(a, g, k - 1)
  <2>1. \A j \in 1..k - 1 : j \in 1..m - 1
    BY <1>3, <1>4
  <2> QED
    BY <1>5, <2>1 DEF Prefixed
<1>7. SoundTo(g, k - 1)
  BY <1>4, <1>6, PrefixSays
<1>11. PICK q \in Nat : q = Len(g) /\ (q = m \/ q = m + 1)
  <2>1. Len(g) = m \/ Len(g) = m + 1
    BY <1>5
  <2>2. m \in Nat /\ m + 1 \in Nat
    BY <1>3
  <2> QED
    BY <2>1, <2>2
<1>8. k \in 1..Len(g)
  BY <1>3, <1>11
<1>9. BrokenAt(g, k)
  <2>1. CASE k < m
    <3>1. ~ LineIsSound(a[k])
      BY <1>3, <1>4, <2>1 DEF BrokenAt
    <3>2. k \in 1..m - 1 /\ k < Len(g)
      BY <1>3, <1>11, <2>1
    <3> QED
      BY <1>5, <3>1, <3>2 DEF BrokenAt
  <2>2. CASE k = m
    <3>1. ~ Fronted(PartsIn(a[m]))
      BY <1>3, <1>4, <2>2 DEF BrokenAt
    <3>2. a[m] \in Texts
      BY <1>3
    <3>3. ~ LineIsSound(a[m]) /\ ~ Fronted(PartsIn(Append(a[m], c)))
      BY <3>1, <3>2, UnfrontedStays
    <3>4. m < m + 1
      BY <1>3
    <3> QED
      BY <1>5, <2>2, <3>3, <3>4 DEF BrokenAt
  <2> QED
    BY <1>3, <1>4, <2>1, <2>2
<1>10. Stopped(g, f)
  BY <1>4, <1>7, <1>8, <1>9 DEF Stopped
<1> QED
  BY <1>1, <1>10

LEMMA SaysMore ==
    ASSUME NEW m \in Nat \ {0}, NEW lines, NEW s, SaysLines(s, lines, m - 1), NEW l,
           NEW d, d = Definition(LineSays(lines[m])[1], LineSays(lines[m])[2], l)
    PROVE  SaysLines(Append(s, d), lines, m)
<1>1. IsSeq(s) /\ Len(s) = m - 1
      /\ \A k \in 1..m - 1 : s[k].key = LineSays(lines[k])[1] /\ s[k].value = LineSays(lines[k])[2]
  BY DEF SaysLines
<1>2. PICK u : u = Append(s, d)
  OBVIOUS
<1>3. IsSeq(u) /\ Len(u) = Len(s) + 1 /\ u[Len(s) + 1] = d /\ \A k \in 1..Len(s) : u[k] = s[k]
  BY <1>1, <1>2, AppendSeq
<1>4. Len(s) + 1 = m
  BY <1>1
<1>5. Len(u) = m /\ u[m] = d /\ \A k \in 1..m - 1 : u[k] = s[k]
  BY <1>1, <1>3, <1>4
<1>6. d.key = LineSays(lines[m])[1] /\ d.value = LineSays(lines[m])[2]
  BY DEF Definition
<1>7. \A k \in 1..m : u[k].key = LineSays(lines[k])[1] /\ u[k].value = LineSays(lines[k])[2]
  <2> SUFFICES ASSUME NEW k \in 1..m
               PROVE  u[k].key = LineSays(lines[k])[1] /\ u[k].value = LineSays(lines[k])[2]
    OBVIOUS
  <2>1. CASE k = m
    BY <1>5, <1>6, <2>1
  <2>2. CASE k # m
    <3>1. k \in 1..m - 1
      BY <2>2
    <3> QED
      BY <1>1, <1>5, <3>1
  <2> QED
    BY <2>1, <2>2
<1>8. SaysLines(u, lines, m)
  BY <1>3, <1>5, <1>7 DEF SaysLines
<1> QED
  BY <1>2, <1>8

LEMMA SyncReads ==
    ASSUME NEW t \in Texts, NEW x, InSync(LinesIn(t), x), NEW c \in STRING, c # CarriageReturn
    PROVE  InSync(LinesIn(Append(t, c)), Reads(x, c))
<1>1. PICK a, g : a = LinesIn(t) /\ g = LinesIn(Append(t, c))
  OBVIOUS
<1>2. Grown(a, c, LineFeed, g)
  BY <1>1, SplitGrows DEF LinesIn
<1>3. PICK m \in Nat \ {0} : m = Len(a) /\ m \in 1..m /\ \A k \in 1..m : a[k] \in Texts
  BY <1>1, LinesFacts
<1>4. PICK b, p, s, l, f : x = LexerOf(b, p, s, l, f) /\ (Undisturbed(a, b, p, s, l, f) \/ Stopped(a, f))
  BY <1>1 DEF InSync
<1>5. CASE Stopped(a, f)
  <2>1. Stopped(g, f)
    BY <1>1, <1>5, StoppedStays
  <2>2. f # NoFault
    BY <1>5 DEF Stopped
  <2>3. Reads(x, c) = x
    <3>1. ReadsAs(x, c, b, p, s, l, f)
      BY <1>4, ReadsIs
    <3> QED
      BY <2>2, <3>1 DEF ReadsAs
  <2> QED
    BY <1>1, <1>4, <2>1, <2>3 DEF InSync
<1>6. CASE Undisturbed(a, b, p, s, l, f)
  <2>1. f = NoFault /\ l = m /\ SoundTo(a, m - 1) /\ SaysLines(s, a, m - 1) /\ OnLine(a[m], b, p)
    BY <1>3, <1>6 DEF Undisturbed
  <2>2. x = LexerOf(b, p, s, m, NoFault)
    BY <1>4, <2>1
  <2>3. Prefixed(a, g, m - 1)
    BY <1>2, <1>3 DEF Grown, Prefixed
  <2>4. SoundTo(g, m - 1) /\ SaysLines(s, g, m - 1)
    BY <2>1, <2>3, PrefixSays
  <2>5. a[m] \in Texts
    BY <1>3
  <2>6. CASE c # LineFeed
    <3>1. Len(g) = m /\ g[m] = Append(a[m], c)
      BY <1>2, <1>3, <2>6 DEF Grown
    <3>2. ReadsOn(a[m], c, x, s, m)
      BY <2>1, <2>2, <2>5, <2>6, LineReads
    <3>3. PICK q, r, h : /\ Reads(x, c) = LexerOf(q, r, s, m, h)
                         /\ \/ h = NoFault /\ OnLine(g[m], q, r)
                            \/ h # NoFault /\ h.line = m /\ ~ Fronted(PartsIn(g[m]))
      BY <3>1, <3>2 DEF ReadsOn
    <3>4. CASE h = NoFault
      <4>1. Undisturbed(g, q, r, s, m, h)
        BY <2>4, <3>1, <3>3, <3>4 DEF Undisturbed
      <4> QED
        BY <1>1, <3>3, <4>1 DEF InSync
    <3>5. CASE h # NoFault
      <4>1. h.line = m /\ ~ Fronted(PartsIn(g[m]))
        BY <3>3, <3>5
      <4>2. BrokenAt(g, m)
        BY <3>1, <4>1 DEF BrokenAt
      <4>3. Stopped(g, h)
        BY <1>3, <2>4, <3>1, <3>5, <4>1, <4>2 DEF Stopped
      <4> QED
        BY <1>1, <3>3, <4>3 DEF InSync
    <3> QED
      BY <3>4, <3>5
  <2>7. CASE c = LineFeed
    <3>1. Len(g) = m + 1 /\ g[m] = a[m] /\ g[m + 1] = <<>>
      BY <1>2, <1>3, <2>7 DEF Grown
    <3>2. PICK message : message = "unexpected linefeed"
      OBVIOUS
    <3>3. message # "none"
      BY <3>2
    <3>4. Reads(x, c) = Ends(x, message)
      <4>1. ReadsAs(x, c, b, p, s, l, f)
        BY <1>4, ReadsIs
      <4> QED
        BY <2>1, <2>7, <3>2, <4>1 DEF ReadsAs
    <3>7. LineEndsAs(a[m], x, message, b, p, s, m)
      BY <2>1, <2>2, <2>5, <3>3, LineEnds
    <3>5. CASE LineIsSound(a[m])
      <4>0. PICK n \in Nat : n = m + 1 /\ n - 1 = m
        BY <1>3
      <4>1. PICK e, o, d : /\ e = <<>> /\ o = ""
                           /\ d = Definition(LineSays(a[m])[1], LineSays(a[m])[2], m)
        OBVIOUS
      <4>2. Reads(x, c) = LexerOf(e, o, Append(s, d), n, NoFault)
        BY <3>4, <3>5, <3>7, <4>0, <4>1 DEF LineEndsAs
      <4>3. SaysLines(Append(s, d), g, m)
        BY <2>4, <3>1, <4>1, SaysMore
      <4>4. SoundTo(g, m)
        <5>1. \A k \in 1..m : k \in 1..m - 1 \/ k = m
          BY <1>3
        <5> QED
          BY <2>4, <3>1, <3>5, <5>1 DEF SoundTo
      <4>5. OnLine(g[n], e, o)
        BY <3>1, <4>0, <4>1, LineBegins
      <4>6. n - 1 = m /\ n = Len(g)
        BY <3>1, <4>0
      <4>7. PICK h : h = NoFault
        OBVIOUS
      <4>8. Undisturbed(g, e, o, Append(s, d), n, h)
        BY <4>3, <4>4, <4>5, <4>6, <4>7 DEF Undisturbed
      <4> QED
        BY <1>1, <4>2, <4>7, <4>8 DEF InSync
    <3>6. CASE ~ LineIsSound(a[m])
      <4>1. PICK mess : mess # "none" /\ Ends(x, message) = LexerOf(b, p, s, m, FaultAt(mess, m))
        BY <3>6, <3>7 DEF LineEndsAs, Refuses
      <4>2. PICK h : h = FaultAt(mess, m) /\ h # NoFault /\ h.line = m
        BY <4>1, FaultFacts
      <4>3. m < Len(g) /\ m \in 1..Len(g)
        BY <1>3, <3>1
      <4>4. BrokenAt(g, m)
        BY <3>1, <3>6, <4>3 DEF BrokenAt
      <4>5. Stopped(g, h)
        BY <2>4, <4>2, <4>3, <4>4 DEF Stopped
      <4> QED
        BY <1>1, <3>4, <4>1, <4>2, <4>5 DEF InSync
    <3> QED
      BY <3>5, <3>6
  <2> QED
    BY <2>6, <2>7
<1> QED
  BY <1>4, <1>5, <1>6

LEMMA PrefixGrows ==
    ASSUME NEW t \in Texts, NEW i \in Nat, i + 1 <= Len(t)
    PROVE  /\ SubSeq(t, 1, i) \in Texts /\ t[i + 1] \in STRING
           /\ SubSeq(t, 1, i + 1) = Append(SubSeq(t, 1, i), t[i + 1])
<1>1. PICK n, z \in Nat : n = Len(t) /\ z = 0 /\ z + 1 = 1
  BY TextFacts
<1>2. PICK u, v, w, c : /\ u = SubSeq(t, z + 1, i) /\ v = SubSeq(t, z + 1, i + 1) /\ c = t[i + 1]
                        /\ w = Append(u, c)
  OBVIOUS
<1>3. c \in STRING
  <2>1. PICK T : T = STRING
    OBVIOUS
  <2>2. t \in Seq(T)
    BY <2>1 DEF Texts
  <2>3. i + 1 \in 1..Len(t)
    BY <1>1
  <2>4. c \in T
    BY <1>2, <2>2, <2>3
  <2> QED
    BY <2>1, <2>4
<1>4. u \in Texts /\ Len(u) = i /\ \A k \in 1..i : u[k] = t[k]
  <2>1. i \in Int /\ i <= Len(t) /\ z <= i /\ i - z = i /\ \A k \in 1..i : z + k = k
    BY <1>1
  <2>2. u \in Texts /\ Len(u) = i - z /\ \A k \in 1..i - z : u[k] = t[z + k]
    BY <1>2, <2>1, SubTextFacts
  <2> QED
    BY <2>1, <2>2
<1>5. v \in Texts /\ Len(v) = i + 1 /\ \A k \in 1..i + 1 : v[k] = t[k]
  <2>1. PICK m \in Nat : m = i + 1
    OBVIOUS
  <2>2. m \in Int /\ m <= Len(t) /\ z <= m /\ m - z = m /\ \A k \in 1..m : z + k = k
    <3>1. m \in Int /\ m <= Len(t) /\ z <= m /\ m - z = m
      BY <1>1, <2>1
    <3>2. \A k \in 1..m : z + k = k
      BY <1>1, <2>1
    <3> QED
      BY <3>1, <3>2
  <2>3. v \in Texts /\ Len(v) = m - z /\ \A k \in 1..m - z : v[k] = t[z + k]
    <3>1. v = SubSeq(t, z + 1, m)
      BY <1>2, <2>1
    <3> QED
      BY <2>2, <3>1, SubTextFacts
  <2>4. Len(v) = m /\ \A k \in 1..m : v[k] = t[k]
    BY <2>2, <2>3
  <2> QED
    BY <2>1, <2>3, <2>4
<1>6. w \in Texts /\ Len(w) = Len(u) + 1 /\ w[Len(u) + 1] = c /\ \A k \in 1..Len(u) : w[k] = u[k]
  BY <1>2, <1>3, <1>4, AppendText
<1>7. Len(w) = i + 1 /\ \A k \in 1..i + 1 : w[k] = t[k]
  <2>1. Len(w) = i + 1 /\ w[i + 1] = t[i + 1] /\ \A k \in 1..i : w[k] = t[k]
    BY <1>2, <1>4, <1>6
  <2>2. \A k \in 1..i + 1 : k \in 1..i \/ k = i + 1
    OBVIOUS
  <2> QED
    BY <2>1, <2>2
<1>8. Len(v) = Len(w) /\ \A k \in 1..Len(v) : v[k] = w[k]
  BY <1>5, <1>7
<1>9. v = w
  BY <1>5, <1>6, <1>8, TextsAgree
<1> QED
  BY <1>1, <1>2, <1>3, <1>4, <1>9

LEMMA PrefixEnds ==
    ASSUME NEW t \in Texts
    PROVE  SubSeq(t, 1, 0) = <<>> /\ SubSeq(t, 1, Len(t)) = t
<1>1. PICK n, z \in Nat : n = Len(t) /\ z = 0 /\ z + 1 = 1
  BY TextFacts
<1>2. SubSeq(t, z + 1, z) = <<>>
  <2>1. z \in Int /\ z <= Len(t) /\ z >= z
    BY <1>1
  <2> QED
    BY <2>1, SubTextFacts
<1>3. PICK v : v = SubSeq(t, z + 1, n)
  OBVIOUS
<1>4. n \in Int /\ n <= Len(t) /\ z <= n /\ n - z = n /\ \A k \in 1..n : z + k = k
  BY <1>1
<1>5. v \in Texts /\ Len(v) = n - z /\ \A k \in 1..n - z : v[k] = t[z + k]
  BY <1>3, <1>4, SubTextFacts
<1>6. Len(v) = Len(t) /\ \A k \in 1..Len(v) : v[k] = t[k]
  BY <1>1, <1>4, <1>5
<1>7. v = t
  BY <1>5, <1>6, TextsAgree
<1> QED
  BY <1>1, <1>2, <1>3, <1>7

LEMMA SyncUpTo ==
    ASSUME NEW t \in Texts, NEW n \in Nat, n = Len(t), NEW f, ReadsTo(t, 1, n, f)
    PROVE  InSync(LinesIn(Clean(t)), f[n])
<1> DEFINE S == {i \in Nat : i <= n => InSync(LinesIn(Clean(SubSeq(t, 1, i))), f[i])}
<1>1. 0 \in S
  <2>1. f[0] = Lexer(1)
    BY ReadsAre, ReadIs
  <2>2. SubSeq(t, 1, 0) = <<>>
    BY PrefixEnds
  <2>3. LinesIn(Clean(SubSeq(t, 1, 0))) = LinesIn(<<>>)
    BY <2>2, CleanEmpty
  <2>4. InSync(LinesIn(Clean(SubSeq(t, 1, 0))), f[0])
    BY <2>1, <2>3, SyncBegins
  <2> QED
    BY <2>4
<1>2. \A i \in Nat : i \in S => i + 1 \in S
  <2> SUFFICES ASSUME NEW i \in Nat, InSync(LinesIn(Clean(SubSeq(t, 1, i))), f[i]), i + 1 <= n
               PROVE  InSync(LinesIn(Clean(SubSeq(t, 1, i + 1))), f[i + 1])
    OBVIOUS
  <2>1. i + 1 \in 0..n /\ i + 1 # 0 /\ (i + 1) - 1 = i
    OBVIOUS
  <2>2. f[i + 1] = Reads(f[i], t[i + 1])
    BY <2>1, ReadsAre, ReadIs
  <2>3. PICK u, v, c, x, y : /\ u = SubSeq(t, 1, i) /\ v = SubSeq(t, 1, i + 1) /\ c = t[i + 1]
                             /\ x = f[i] /\ y = f[i + 1]
    OBVIOUS
  <2>4. u \in Texts /\ c \in STRING /\ v = Append(u, c)
    BY <2>3, PrefixGrows
  <2>5. y = Reads(x, c) /\ InSync(LinesIn(Clean(u)), x)
    BY <2>2, <2>3
  <2>6. PICK w : w = Clean(u)
    OBVIOUS
  <2>7. w \in Texts
    BY <2>4, <2>6, CleanIs
  <2>8. CASE c = CarriageReturn
    <3>1. Clean(v) = w
      BY <2>4, <2>6, <2>8, CleanGrows
    <3>2. Reads(x, c) = x
      <4>1. PICK b, p, s, l, h : x = LexerOf(b, p, s, l, h)
        BY <2>5 DEF InSync
      <4>2. ReadsAs(x, c, b, p, s, l, h)
        BY <4>1, ReadsIs
      <4> QED
        BY <2>8, <4>2 DEF ReadsAs
    <3> QED
      BY <2>3, <2>5, <2>6, <3>1, <3>2
  <2>9. CASE c # CarriageReturn
    <3>1. Clean(v) = Append(w, c)
      BY <2>4, <2>6, <2>9, CleanGrows
    <3>2. InSync(LinesIn(Append(w, c)), Reads(x, c))
      BY <2>4, <2>5, <2>6, <2>7, <2>9, SyncReads
    <3> QED
      BY <2>3, <2>5, <3>1, <3>2
  <2> QED
    BY <2>8, <2>9
<1>3. n \in S
  <2> HIDE DEF S
  <2> QED
    BY <1>1, <1>2, Induct
<1>4. InSync(LinesIn(Clean(SubSeq(t, 1, n))), f[n])
  BY <1>3
<1>5. SubSeq(t, 1, n) = t
  BY PrefixEnds
<1> QED
  BY <1>4, <1>5

AllTabs(line) == \A i \in DOMAIN line : line[i] = Tab

NothingLeft(b, p) == b = <<>> /\ p = ""

\* Whether anything is left tells whether the last line counts.
LEMMA TabsTell ==
    ASSUME NEW t \in Texts, NEW b, NEW p, OnLine(t, b, p)
    PROVE  AllTabs(t) <=> NothingLeft(b, p)
<1>1. PICK parts, n : parts = PartsIn(t) /\ n = Len(parts)
  OBVIOUS
<1>2. n \in Nat \ {0} /\ (n = 1 => parts[1] = t) /\ \A k \in 1..n : parts[k] \in Texts
  BY <1>1, PartsInFacts, SplitWhole DEF PartsIn
<1>3. /\ Fronted(parts) /\ StripsTo(parts[n], b) /\ (n = 1 => p = "")
      /\ n > 1 => p = NameOf(Trim(parts[n - 1]))
  BY <1>1 DEF OnLine
<1>4. n # 1 => p # ""
  <2> SUFFICES ASSUME n # 1 PROVE p # ""
    OBVIOUS
  <2>1. n > 1 /\ n - 1 \in 1..n /\ n - 1 \in 1..n - 1
    BY <1>2
  <2>2. PICK part, name : part = parts[n - 1] /\ name = Trim(part)
    OBVIOUS
  <2>3. part \in Texts
    BY <1>2, <2>1, <2>2
  <2>4. name \in Texts
    BY <2>2, <2>3, TrimIs
  <2>5. IsCamelCase(name)
    BY <1>1, <1>3, <2>1, <2>2 DEF Fronted
  <2>6. NameOf(name) # ""
    BY <2>4, <2>5, NamesAreNamed
  <2> QED
    BY <1>3, <2>1, <2>2, <2>6
<1>5. DOMAIN t = 1..Len(t)
  BY TextFacts
<1>6. ASSUME n = 1 PROVE b = <<>> <=> AllTabs(t)
  <2>1. StripsTo(t, b)
    BY <1>2, <1>3, <1>6
  <2> QED
    BY <1>5, <2>1, StripTabs DEF AllTabs
<1>7. ASSUME AllTabs(t) PROVE n = 1
  <2>1. Tab # PropertyNameSeparator
    BY DEF Tab, PropertyNameSeparator
  <2>2. \A i \in 1..Len(t) : t[i] # PropertyNameSeparator
    BY <1>5, <1>7, <2>1 DEF AllTabs
  <2> QED
    BY <1>1, <2>2, SplitWhole DEF PartsIn
<1> QED
  BY <1>3, <1>4, <1>6, <1>7 DEF NothingLeft

\* What the lexer has found in the first j lines.
Outcome(r, lines, j) ==
    \/ r.fault = NoFault /\ SoundTo(lines, j) /\ SaysLines(r.properties, lines, j)
    \/ /\ r.fault # NoFault /\ r.fault.line \in 1..j
       /\ SoundTo(lines, r.fault.line - 1) /\ ~ LineIsSound(lines[r.fault.line])

LEMMA OutcomeIs ==
    ASSUME NEW b, NEW p, NEW s, NEW l, NEW f, NEW r, r = LexerOf(b, p, s, l, f), NEW lines, NEW j,
           \/ f = NoFault /\ SoundTo(lines, j) /\ SaysLines(s, lines, j)
           \/ f # NoFault /\ f.line \in 1..j /\ SoundTo(lines, f.line - 1) /\ ~ LineIsSound(lines[f.line])
    PROVE  Outcome(r, lines, j)
<1>1. r.fault = f /\ r.properties = s
  BY DEF LexerOf
<1> QED
  BY <1>1 DEF Outcome

LEMMA StoppedIn ==
    ASSUME NEW t \in Texts, NEW m \in Nat \ {0}, NEW a, a = LinesIn(t), m = Len(a),
           NEW j, j = IF AllTabs(a[m]) THEN m - 1 ELSE m, NEW f, Stopped(a, f)
    PROVE  f # NoFault /\ f.line \in 1..j /\ SoundTo(a, f.line - 1) /\ ~ LineIsSound(a[f.line])
<1>1. PICK k \in 1..m : k = f.line /\ f # NoFault /\ SoundTo(a, k - 1) /\ BrokenAt(a, k)
  BY DEF Stopped
<1>2. a[m] \in Texts
  <2>1. m \in 1..m
    OBVIOUS
  <2> QED
    BY <2>1, LinesFacts
<1>3. CASE k < m
  <2>1. ~ LineIsSound(a[k])
    BY <1>1, <1>3 DEF BrokenAt
  <2>2. k \in 1..j
    BY <1>3
  <2> QED
    BY <1>1, <2>1, <2>2
<1>4. CASE k = m
  <2>1. ~ Fronted(PartsIn(a[m]))
    BY <1>1, <1>4 DEF BrokenAt
  <2>2. ~ LineIsSound(a[m])
    BY <1>2, <2>1, LineMeans
  <2>3. ~ AllTabs(a[m])
    <3> SUFFICES ASSUME AllTabs(a[m]) PROVE FALSE
      OBVIOUS
    <3>1. PICK line, parts : line = a[m] /\ line \in Texts /\ parts = PartsIn(line)
      BY <1>2
    <3>2. Tab # PropertyNameSeparator
      BY DEF Tab, PropertyNameSeparator
    <3>3. \A i \in 1..Len(line) : line[i] # PropertyNameSeparator
      BY <3>1, <3>2, TextFacts DEF AllTabs
    <3>4. Len(parts) = 1
      BY <3>1, <3>3, SplitWhole DEF PartsIn
    <3>5. Fronted(parts)
      BY <3>4 DEF Fronted
    <3> QED
      BY <2>1, <3>1, <3>5
  <2>4. k \in 1..j
    BY <1>4, <2>3
  <2> QED
    BY <1>1, <1>4, <2>2, <2>4
<1> QED
  BY <1>3, <1>4

RemainsAs(x, b, p, f) ==
    /\ f # NoFault \/ (b = <<>> /\ p = "") => Remains(x) = x
    /\ ~ (f # NoFault \/ (b = <<>> /\ p = "")) => Remains(x) = Ends(x, "unexpected characters")

LEMMA RemainsIs ==
    ASSUME NEW b, NEW p, NEW s, NEW l, NEW f, NEW x, x = LexerOf(b, p, s, l, f)
    PROVE  RemainsAs(x, b, p, f)
<1>1. x.fault = f /\ x.buffer = b /\ x.propName = p
  BY DEF LexerOf
<1>2. Remains(x) = IF f # NoFault \/ (b = <<>> /\ p = "") THEN x ELSE Ends(x, "unexpected characters")
  BY <1>1 DEF Remains
<1> QED
  BY <1>2 DEF RemainsAs

LEMMA RemainsAgrees ==
    ASSUME NEW t \in Texts, NEW m \in Nat \ {0}, NEW a, a = LinesIn(t), m = Len(a),
           NEW j, j = IF AllTabs(a[m]) THEN m - 1 ELSE m, NEW x, InSync(a, x)
    PROVE  Outcome(Remains(x), a, j)
<1>1. PICK b, p, s, l, f : x = LexerOf(b, p, s, l, f) /\ (Undisturbed(a, b, p, s, l, f) \/ Stopped(a, f))
  BY DEF InSync
<1>4. RemainsAs(x, b, p, f)
  BY <1>1, RemainsIs
<1>2. CASE Stopped(a, f)
  <2>1. f # NoFault /\ f.line \in 1..j /\ SoundTo(a, f.line - 1) /\ ~ LineIsSound(a[f.line])
    BY <1>2, StoppedIn
  <2>2. Remains(x) = LexerOf(b, p, s, l, f)
    BY <1>1, <1>4, <2>1 DEF RemainsAs
  <2> QED
    BY <2>1, <2>2, OutcomeIs
<1>3. CASE Undisturbed(a, b, p, s, l, f)
  <2>1. f = NoFault /\ l = m /\ SoundTo(a, m - 1) /\ SaysLines(s, a, m - 1) /\ OnLine(a[m], b, p)
    BY <1>3 DEF Undisturbed
  <2>2. x = LexerOf(b, p, s, m, NoFault)
    BY <1>1, <2>1
  <2>3. a[m] \in Texts
    <3>1. m \in 1..m
      OBVIOUS
    <3> QED
      BY <3>1, LinesFacts
  <2>4. AllTabs(a[m]) <=> b = <<>> /\ p = ""
    <3>1. PICK line : line = a[m] /\ line \in Texts /\ OnLine(line, b, p)
      BY <2>1, <2>3
    <3>2. AllTabs(line) <=> NothingLeft(b, p)
      BY <3>1, TabsTell
    <3> QED
      BY <3>1, <3>2 DEF NothingLeft
  <2>5. CASE AllTabs(a[m])
    <3>1. j = m - 1
      BY <2>5
    <3>2. Remains(x) = LexerOf(b, p, s, l, f)
      BY <1>1, <1>4, <2>4, <2>5 DEF RemainsAs
    <3>3. f = NoFault /\ SoundTo(a, j) /\ SaysLines(s, a, j)
      BY <2>1, <3>1
    <3> QED
      BY <3>2, <3>3, OutcomeIs
  <2>6. CASE ~ AllTabs(a[m])
    <3>1. j = m
      BY <2>6
    <3>2. PICK message : message = "unexpected characters"
      OBVIOUS
    <3>3. message # "none"
      BY <3>2
    <3>4. Remains(x) = Ends(x, message)
      <4>1. ~ (f # NoFault \/ (b = <<>> /\ p = ""))
        BY <2>1, <2>4, <2>6
      <4> QED
        BY <1>1, <1>4, <3>2, <4>1 DEF RemainsAs
    <3>5. LineEndsAs(a[m], x, message, b, p, s, m)
      BY <2>1, <2>2, <2>3, <3>3, LineEnds
    <3>6. CASE LineIsSound(a[m])
      <4>1. PICK e, o, d, n, h : /\ e = <<>> /\ o = "" /\ n = m + 1 /\ h = NoFault
                                 /\ d = Definition(LineSays(a[m])[1], LineSays(a[m])[2], m)
        OBVIOUS
      <4>2. Remains(x) = LexerOf(e, o, Append(s, d), n, h)
        BY <3>4, <3>5, <3>6, <4>1 DEF LineEndsAs
      <4>3. SaysLines(Append(s, d), a, m)
        BY <2>1, <4>1, SaysMore
      <4>4. SoundTo(a, m)
        <5>1. \A k \in 1..m : k \in 1..m - 1 \/ k = m
          OBVIOUS
        <5> QED
          BY <2>1, <3>6, <5>1 DEF SoundTo
      <4>5. h = NoFault /\ SoundTo(a, j) /\ SaysLines(Append(s, d), a, j)
        BY <3>1, <4>1, <4>3, <4>4
      <4> QED
        BY <4>2, <4>5, OutcomeIs
    <3>7. CASE ~ LineIsSound(a[m])
      <4>1. PICK mess : mess # "none" /\ Ends(x, message) = LexerOf(b, p, s, m, FaultAt(mess, m))
        BY <3>5, <3>7 DEF LineEndsAs, Refuses
      <4>2. PICK h : h = FaultAt(mess, m) /\ h # NoFault /\ h.line = m
        BY <4>1, FaultFacts
      <4>3. m \in 1..j
        BY <3>1
      <4>4. Remains(x) = LexerOf(b, p, s, m, h)
        BY <3>4, <4>1, <4>2
      <4>5. h # NoFault /\ h.line \in 1..j /\ SoundTo(a, h.line - 1) /\ ~ LineIsSound(a[h.line])
        BY <2>1, <3>7, <4>2, <4>3
      <4> QED
        BY <4>4, <4>5, OutcomeIs
    <3> QED
      BY <3>6, <3>7
  <2> QED
    BY <2>5, <2>6
<1> QED
  BY <1>1, <1>2, <1>3

\* The lines that count.
FirstOf(j, a, lines) == j \in Nat /\ DOMAIN lines = 1..j /\ \A k \in 1..j : lines[k] = a[k]

LEMMA LinesOfIs ==
    ASSUME NEW text \in Texts, NEW a, a = LinesIn(Clean(text)), NEW m, m = Len(a),
           NEW j, j = IF AllTabs(a[m]) THEN m - 1 ELSE m
    PROVE  FirstOf(j, a, LinesOf(text))
<1>1. Clean(text) \in Texts
  BY CleanIs
<1>2. a \in Seq(Texts) /\ m \in Nat \ {0}
  BY <1>1, LinesFacts
<1>3. LinesOf(text) = IF AllTabs(a[m]) THEN Front(a) ELSE a
  <2>1. PICK clean : clean = Clean(text)
    OBVIOUS
  <2>2. a = SplitAt(clean, LineFeed)
    BY <2>1 DEF LinesIn
  <2>3. clean = Chosen(text, LAMBDA char : char # CarriageReturn)
    BY <2>1 DEF Clean
  <2>4. Last(a) = a[m]
    BY DEF Last
  <2>5. LinesOf(text) = IF \A i \in DOMAIN Last(a) : Last(a)[i] = Tab THEN Front(a) ELSE a
    BY <2>2, <2>3 DEF LinesOf
  <2> QED
    BY <2>4, <2>5 DEF AllTabs
<1>4. IsSeq(a)
  BY <1>2, SeqIsSeq
<1>5. CASE AllTabs(a[m])
  <2>1. j = m - 1 /\ j \in Nat
    BY <1>2, <1>5
  <2>2. PICK u : u = SubSeq(a, 1, m - 1)
    OBVIOUS
  <2>3. LinesOf(text) = u
    BY <1>3, <1>5, <2>2 DEF Front
  <2>4. PICK x, y \in Nat : x = 1 /\ y = m - 1 /\ x \in 1..Len(a) + 1 /\ y \in x - 1..Len(a)
    BY <1>2
  <2>5. IsSeq(SubSeq(a, x, y)) /\ Len(SubSeq(a, x, y)) = y - x + 1
        /\ \A k \in 1..y - x + 1 : SubSeq(a, x, y)[k] = a[x + k - 1]
    BY <1>4, <2>4, SubSeqFacts
  <2>6. y - x + 1 = j /\ \A k \in 1..j : x + k - 1 = k
    BY <2>1, <2>4
  <2>7. IsSeq(u) /\ Len(u) = j /\ \A k \in 1..j : u[k] = a[k]
    BY <2>2, <2>4, <2>5, <2>6
  <2>8. DOMAIN u = 1..j
    BY <2>7, SeqFacts
  <2> QED
    BY <1>2, <2>1, <2>3, <2>7, <2>8 DEF FirstOf
<1>6. CASE ~ AllTabs(a[m])
  <2>1. j = m /\ LinesOf(text) = a
    BY <1>3, <1>6
  <2>2. DOMAIN a = 1..m
    BY <1>4, SeqFacts
  <2> QED
    BY <1>2, <2>1, <2>2 DEF FirstOf
<1> QED
  BY <1>5, <1>6

\* The lexer and the reading by lines say the same of a text.
ReadsByLine(text, parsed) ==
    IF DefinitionIsSound(text)
    THEN /\ parsed.fault = NoFault
         /\ [k \in DOMAIN parsed.properties |-> <<parsed.properties[k].key, parsed.properties[k].value>>]
               = DefinitionsByLine(text)
    ELSE parsed.fault # NoFault /\ parsed.fault.line = FirstUnsound(text)

LEMMA ParseOutcome ==
    ASSUME NEW text \in Texts, NEW a, a = LinesIn(Clean(text)), NEW m, m = Len(a),
           NEW j, j = IF AllTabs(a[m]) THEN m - 1 ELSE m
    PROVE  Outcome(ParsePropertyDefinition(text, 1), a, j)
<1>1. PICK n \in Nat : n = Len(text)
  BY TextFacts
<1> DEFINE g == CHOOSE f : ReadsTo(text, 1, Len(text), f)
<1>2. ReadsTo(text, 1, Len(text), g)
  BY <1>1, ReadExists
<1>3. ParsePropertyDefinition(text, 1) = Remains(g[Len(text)])
  BY DEF ParsePropertyDefinition, ReadsTo, ReadOf
<1> HIDE DEF g
<1>4. PICK t : t = Clean(text) /\ t \in Texts
  BY CleanIs
<1>5. PICK x : x = g[n]
  OBVIOUS
<1>6. InSync(a, x)
  BY <1>1, <1>2, <1>5, SyncUpTo
<1>7. m \in Nat \ {0} /\ a = LinesIn(t)
  BY <1>4, LinesFacts
<1>8. Outcome(Remains(x), a, j)
  BY <1>4, <1>6, <1>7, RemainsAgrees
<1> QED
  BY <1>1, <1>3, <1>5, <1>8

LEMMA LexerAgrees ==
    ASSUME NEW text \in Texts, NEW r, r = ParsePropertyDefinition(text, 1)
    PROVE  ReadsByLine(text, r)
<1>1. PICK a, m : a = LinesIn(Clean(text)) /\ m = Len(a)
  OBVIOUS
<1>2. PICK j : j = IF AllTabs(a[m]) THEN m - 1 ELSE m
  OBVIOUS
<1>3. Outcome(r, a, j)
  BY <1>1, <1>2, ParseOutcome
<1>4. PICK L : L = LinesOf(text)
  OBVIOUS
<1>5. j \in Nat /\ DOMAIN L = 1..j /\ \A k \in 1..j : L[k] = a[k]
  <2>1. FirstOf(j, a, LinesOf(text))
    BY <1>1, <1>2, LinesOfIs
  <2> QED
    BY <1>4, <2>1 DEF FirstOf
<1>6. DefinitionIsSound(text) <=> SoundTo(a, j)
  BY <1>4, <1>5 DEF DefinitionIsSound, SoundTo
<1>7. CASE r.fault = NoFault /\ SoundTo(a, j) /\ SaysLines(r.properties, a, j)
  <2>1. PICK s : s = r.properties
    OBVIOUS
  <2>2. IsSeq(s) /\ Len(s) = j /\ \A k \in 1..j : s[k].key = LineSays(a[k])[1] /\ s[k].value = LineSays(a[k])[2]
    BY <1>7, <2>1 DEF SaysLines
  <2>3. DOMAIN s = 1..j
    BY <2>2, SeqFacts
  <2>4. \A line : <<LineSays(line)[1], LineSays(line)[2]>> = LineSays(line)
    BY DEF LineSays
  <2>5. \A k \in 1..j : <<s[k].key, s[k].value>> = LineSays(L[k])
    <3> SUFFICES ASSUME NEW k \in 1..j PROVE <<s[k].key, s[k].value>> = LineSays(L[k])
      OBVIOUS
    <3>1. PICK line, u, v : line = a[k] /\ u = LineSays(line)[1] /\ v = LineSays(line)[2]
      OBVIOUS
    <3>2. s[k].key = u /\ s[k].value = v /\ L[k] = line
      BY <1>5, <2>2, <3>1
    <3>3. <<u, v>> = LineSays(line)
      BY <2>4, <3>1
    <3> QED
      BY <3>2, <3>3
  <2>6. [k \in 1..j |-> <<s[k].key, s[k].value>>] = [k \in 1..j |-> LineSays(L[k])]
    BY <2>5
  <2>7. DefinitionsByLine(text) = [k \in 1..j |-> LineSays(L[k])]
    BY <1>4, <1>5 DEF DefinitionsByLine
  <2>8. [k \in DOMAIN s |-> <<s[k].key, s[k].value>>] = DefinitionsByLine(text)
    BY <2>3, <2>6, <2>7
  <2> QED
    BY <1>6, <1>7, <2>1, <2>8 DEF ReadsByLine
<1>8. CASE /\ r.fault # NoFault /\ r.fault.line \in 1..j
           /\ SoundTo(a, r.fault.line - 1) /\ ~ LineIsSound(a[r.fault.line])
  <2>1. PICK k \in 1..j : k = r.fault.line /\ SoundTo(a, k - 1) /\ ~ LineIsSound(a[k])
    BY <1>8
  <2>2. ~ SoundTo(a, j)
    BY <2>1 DEF SoundTo
  <2>3. PICK S : S = {i \in DOMAIN L : ~ LineIsSound(L[i])}
    OBVIOUS
  <2>4. S \in SUBSET (1..j) /\ S \in SUBSET Nat /\ k \in S
    BY <1>5, <2>1, <2>3
  <2>5. Min(S) \in S /\ Min(S) \in Nat /\ Min(S) <= k
    BY <2>4, MinFacts
  <2>6. ~ (Min(S) \in 1..k - 1)
    <3>1. ~ LineIsSound(a[Min(S)])
      BY <1>5, <2>3, <2>4, <2>5
    <3> QED
      BY <2>1, <3>1 DEF SoundTo
  <2>7. Min(S) = k
    <3>1. Min(S) \in 1..j /\ k \in 1..j
      BY <2>4, <2>5
    <3> QED
      BY <2>5, <2>6, <3>1
  <2>8. FirstUnsound(text) = Min(S)
    BY <1>4, <2>3 DEF FirstUnsound
  <2> QED
    BY <1>6, <1>8, <2>1, <2>2, <2>7, <2>8 DEF ReadsByLine
<1> QED
  BY <1>3, <1>7, <1>8 DEF Outcome

LEMMA DividedText ==
    ASSUME NEW text \in Texts
    PROVE  DividePropertyDefinition(text).propDefs \in Texts
<1>1. PICK n \in Nat : n = Len(text) /\ DOMAIN text = 1..n
  BY TextFacts
<1> DEFINE breaks == {i \in DOMAIN text : text[i] = LineFeed}
           first == IF breaks = {} THEN Len(text) + 1 ELSE Min(breaks)
<1>2. first \in Nat
  <2>1. breaks \in SUBSET Nat
    BY <1>1
  <2> HIDE DEF breaks
  <2>2. CASE breaks = {}
    BY <1>1, <2>2
  <2>3. CASE breaks # {}
    <3>1. Min(breaks) \in Nat
      BY <2>1, <2>3, MinFacts
    <3> QED
      BY <2>3, <3>1
  <2> QED
    BY <2>2, <2>3
<1>3. DividePropertyDefinition(text).propDefs = SubSeq(text, first + 1, Len(text))
  BY DEF DividePropertyDefinition
<1> HIDE DEF first
<1>4. SubSeq(text, first + 1, n) \in Texts
  <2>1. n \in Int /\ n <= Len(text)
    BY <1>1
  <2> QED
    BY <1>2, <2>1, PartOfText
<1> QED
  BY <1>1, <1>3, <1>4

LEMMA InvReads == ParseInv => DefinitionsReadByLine
<1> SUFFICES ASSUME ParseInv PROVE DefinitionsReadByLine
  OBVIOUS
<1>1. document \in Documents
  BY DEF ParseInv
<1>2. \A i \in DOMAIN document : document[i].words \in Texts
  <2>1. PICK B : B = [type : BlockTypes, words : Seq(STRING), items : Seq(Seq(STRING))]
    OBVIOUS
  <2>2. document \in Seq(B)
    BY <1>1, <2>1, DocumentsAssumption
  <2>3. \A i \in DOMAIN document : document[i] \in B
    BY <2>2
  <2> QED
    BY <2>1, <2>3 DEF Texts
<1>3. \A i \in DOMAIN document :
          ReadsByLine(DividePropertyDefinition(document[i].words).propDefs,
                      ParsePropertyDefinition(DividePropertyDefinition(document[i].words).propDefs, 1))
  BY <1>2, DividedText, LexerAgrees
<1> QED
  BY <1>3 DEF DefinitionsReadByLine, ReadsByLine

\* The lexer reads a definition as one reads it line by line: it finds the same
\* names and values, and when a line is wrong the first such line is the one it
\* names (parse-multiline-definition.js: the buffer, the tabs and carriage
\* returns it skips, the text that ends without a line feed).
THEOREM LexerReadsByLine == Spec => []DefinitionsReadByLine
<1>1. ParseInv => DefinitionsReadByLine
  BY InvReads
<1> QED
  BY <1>1, ParseIsInvariant, PTL
==============================================================================
