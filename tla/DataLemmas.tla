----------------------------- MODULE DataLemmas -----------------------------
(***************************************************************************)
(* Facts about numbers, finite sets, sequences and sums that the proofs of *)
(* several components need.                                                *)
(***************************************************************************)
EXTENDS Integers, Sequences, FiniteSets, Functions, FiniteSetsExt, SequencesExt,
        SequenceTheorems, FiniteSetTheorems, WellFoundedInduction, TLAPS

-----------------------------------------------------------------------------
(* Numbers and finite sets.                                                *)

\* A set of natural numbers has a least element, which is what a search from
\* the front finds. (Below one of its members, the intervals 0 .. x of the
\* others are finite sets, among which there is a smallest.)
LEMMA LeastExists ==
    ASSUME NEW T, T \subseteq Nat, T # {}
    PROVE  /\ Min(T) \in T
           /\ \A j \in T : Min(T) <= j
<1>1. PICK n \in T : TRUE
  OBVIOUS
<1> DEFINE I == 0 .. n
           F == {0 .. x : x \in T \cap I}
<1>2. n \in Nat /\ IsFiniteSet(I) /\ \A x \in T \cap I : IsFiniteSet(0 .. x) /\ 0 .. x \subseteq I
  BY <1>1, FS_Interval
<1>3. F \subseteq FiniteSubsetsOf(I) /\ F # {}
  <2>1. n \in T \cap I
    BY <1>1, <1>2
  <2>2. QED
    BY <1>2, <2>1 DEF FiniteSubsetsOf
<1>4. IsWellFoundedOn(StrictSubsetOrdering(I), FiniteSubsetsOf(I))
  BY <1>2, FS_StrictSubsetOrderingWellFounded
<1>5. PICK X \in F : \A Y \in F : ~ (<<Y, X>> \in StrictSubsetOrdering(I))
  <2> HIDE DEF F, I
  <2>1. QED
    BY <1>3, <1>4, WFMin
<1>6. PICK x \in T \cap I : X = 0 .. x
  OBVIOUS
<1>7. ASSUME NEW y \in T, y < x  PROVE FALSE
  <2>1. /\ y \in Nat /\ x \in Nat /\ y \in T \cap I /\ x \in 0 .. x /\ x \notin 0 .. y
        /\ 0 .. y \subseteq 0 .. x
    BY <1>2, <1>7
  <2>2. 0 .. y \in F /\ 0 .. y \subseteq I /\ 0 .. x \subseteq I
    BY <1>2, <2>1
  <2>3. <<0 .. y, X>> \in StrictSubsetOrdering(I)
    BY <1>6, <2>1, <2>2 DEF StrictSubsetOrdering
  <2>4. QED
    BY <1>5, <2>2, <2>3
<1>8. \A y \in T : x <= y
  BY <1>7
<1>9. QED
  BY <1>8 DEF Min

\* The greatest of three numbers.
LEMMA MaxOfThree ==
    ASSUME NEW a \in Nat, NEW b \in Nat, NEW c \in Nat
    PROVE  /\ Max({a, b, c}) \in Nat
           /\ Max({a, b, c}) >= a /\ Max({a, b, c}) >= b /\ Max({a, b, c}) >= c
<1>1. PICK x \in {a, b, c} : \A y \in {a, b, c} : x >= y
  OBVIOUS
<1>2. Max({a, b, c}) \in {a, b, c} /\ \A y \in {a, b, c} : Max({a, b, c}) >= y
  BY <1>1 DEF Max
<1>3. QED
  BY <1>2

\* Taking a part out of a finite set lowers its cardinality by the part's.
LEMMA CardinalityDifference ==
    ASSUME NEW U, IsFiniteSet(U), NEW R \in SUBSET U
    PROVE  /\ IsFiniteSet(R)
           /\ IsFiniteSet(U \ R)
           /\ Cardinality(U \ R) = Cardinality(U) - Cardinality(R)
           /\ Cardinality(R) \in Nat
           /\ Cardinality(U \ R) \in Nat
<1>1. IsFiniteSet(R) /\ IsFiniteSet(U \ R)
  BY FS_Subset, U \ R \in SUBSET U
<1>2. /\ Cardinality(R) \in Nat /\ Cardinality(U \ R) \in Nat
  BY <1>1, FS_CardinalityType
<1>3. (U \ R) \cup R = U /\ (U \ R) \cap R = {}
  OBVIOUS
<1>4. Cardinality((U \ R) \cup R)
        = Cardinality(U \ R) + Cardinality(R) - Cardinality((U \ R) \cap R)
  BY <1>1, FS_Union
<1>5. QED
  BY <1>1, <1>2, <1>3, <1>4, FS_EmptySet


-----------------------------------------------------------------------------
(* Sequences.                                                              *)

\* RemoveAt takes one element out of a sequence and closes the gap.
LEMMA RemoveAtProperties ==
    ASSUME NEW S, NEW s \in Seq(S), NEW i \in DOMAIN s
    PROVE  /\ RemoveAt(s, i) \in Seq(S)
           /\ Len(RemoveAt(s, i)) = Len(s) - 1
           /\ \A j \in 1 .. Len(s) - 1 :
                 RemoveAt(s, i)[j] = IF j < i THEN s[j] ELSE s[j + 1]
<1>1. Len(s) \in Nat /\ i \in 1 .. Len(s) /\ \A j \in 1 .. Len(s) : s[j] \in S
  BY LenProperties
<1> DEFINE a == SubSeq(s, 1, i - 1)
           b == SubSeq(s, i + 1, Len(s))
<1>2. /\ a \in Seq(S) /\ Len(a) = i - 1
      /\ \A j \in 1 .. i - 1 : a[j] = s[j]
  <2>1. /\ a \in Seq(S)
        /\ Len(a) = IF 1 <= i - 1 THEN (i - 1) - 1 + 1 ELSE 0
        /\ \A j \in 1 .. (i - 1) - 1 + 1 : a[j] = s[1 + j - 1]
    BY <1>1, SubSeqProperties, 1 \in Int, i - 1 \in Int
  <2>2. QED
    BY <1>1, <2>1
<1>3. /\ b \in Seq(S) /\ Len(b) = Len(s) - i
      /\ \A j \in 1 .. Len(s) - i : b[j] = s[i + j]
  <2>1. /\ b \in Seq(S)
        /\ Len(b) = IF i + 1 <= Len(s) THEN Len(s) - (i + 1) + 1 ELSE 0
        /\ \A j \in 1 .. Len(s) - (i + 1) + 1 : b[j] = s[(i + 1) + j - 1]
    BY <1>1, SubSeqProperties, i + 1 \in Int, Len(s) \in Int
  <2>2. QED
    BY <1>1, <2>1
<1>4. /\ a \o b \in Seq(S) /\ Len(a \o b) = Len(a) + Len(b)
      /\ \A j \in 1 .. Len(a) + Len(b) :
            (a \o b)[j] = IF j <= Len(a) THEN a[j] ELSE b[j - Len(a)]
  BY <1>2, <1>3, ConcatProperties
<1>5. RemoveAt(s, i) = a \o b
  BY DEF RemoveAt
<1> HIDE DEF a, b
<1>6. Len(a \o b) = Len(s) - 1
  BY <1>1, <1>2, <1>3, <1>4
<1>7. ASSUME NEW j \in 1 .. Len(s) - 1
      PROVE  (a \o b)[j] = IF j < i THEN s[j] ELSE s[j + 1]
  <2>1. /\ Len(a) = i - 1 /\ Len(b) = Len(s) - i
        /\ Len(s) \in Nat /\ i \in 1 .. Len(s) /\ j \in 1 .. Len(s) - 1
    BY <1>1, <1>2, <1>3
  <2>2. j \in 1 .. Len(a) + Len(b)
    BY <2>1
  <2>3. CASE j < i
    <3>1. j <= Len(a) /\ j \in 1 .. i - 1
      BY <2>1, <2>3
    <3>2. (a \o b)[j] = a[j]
      BY <1>4, <2>2, <3>1
    <3>3. a[j] = s[j]
      BY <1>2, <3>1
    <3>4. QED
      BY <2>3, <3>2, <3>3
  <2>4. CASE ~ (j < i)
    <3>1. ~ (j <= Len(a)) /\ j - (i - 1) \in 1 .. Len(s) - i
      BY <2>1, <2>4
    <3>2. (a \o b)[j] = b[j - (i - 1)]
      <4>1. (a \o b)[j] = b[j - Len(a)]
        BY <1>4, <2>2, <3>1
      <4>2. QED
        BY <2>1, <4>1
    <3>3. b[j - (i - 1)] = s[i + (j - (i - 1))]
      BY <1>3, <3>1
    <3>4. i + (j - (i - 1)) = j + 1
      BY <2>1
    <3>5. QED
      BY <2>4, <3>2, <3>3, <3>4
  <2>5. QED
    BY <2>3, <2>4
<1>8. QED
  BY <1>4, <1>5, <1>6, <1>7

\* Where the elements of RemoveAt(s, i) have been in s: each at a place of
\* its own, in the same order.
Source(j, i) == IF j < i THEN j ELSE j + 1

\* Taking out an element leaves all others, in their order.
LEMMA RemoveAtSources ==
    ASSUME NEW S, NEW s \in Seq(S), NEW i \in DOMAIN s, NEW r, r = RemoveAt(s, i)
    PROVE  /\ r \in Seq(S) /\ Len(r) = Len(s) - 1
           /\ \A j \in DOMAIN r :
                 /\ Source(j, i) \in DOMAIN s \ {i}
                 /\ r[j] = s[Source(j, i)]
           /\ \A j, k \in DOMAIN r : j < k <=> Source(j, i) < Source(k, i)
           /\ \A k \in DOMAIN s \ {i} : \E j \in DOMAIN r : Source(j, i) = k
<1>1. /\ Len(s) \in Nat /\ DOMAIN s = 1 .. Len(s) /\ i \in 1 .. Len(s)
  BY LenProperties
<1>2. /\ r \in Seq(S) /\ Len(r) = Len(s) - 1 /\ DOMAIN r = 1 .. Len(s) - 1
      /\ \A j \in 1 .. Len(s) - 1 : r[j] = IF j < i THEN s[j] ELSE s[j + 1]
  BY RemoveAtProperties, LenProperties
<1>3. ASSUME NEW j \in DOMAIN r
      PROVE  Source(j, i) \in DOMAIN s \ {i} /\ r[j] = s[Source(j, i)]
  BY <1>1, <1>2 DEF Source
<1>4. \A j, k \in DOMAIN r : j < k <=> Source(j, i) < Source(k, i)
  BY <1>1, <1>2 DEF Source
<1>5. ASSUME NEW k \in DOMAIN s \ {i}
      PROVE  \E j \in DOMAIN r : Source(j, i) = k
  <2>1. CASE k < i
    BY <1>1, <1>2, <2>1, k \in DOMAIN r DEF Source
  <2>2. CASE ~ (k < i)
    BY <1>1, <1>2, <2>2, k - 1 \in DOMAIN r DEF Source
  <2>3. QED
    BY <2>1, <2>2
<1>6. QED
  BY <1>2, <1>3, <1>4, <1>5

\* The number of places where a list without repetitions holds an element.
LEMMA ListedOnce ==
    ASSUME NEW s, IsInjective(s), NEW x
    PROVE  Cardinality({i \in DOMAIN s : s[i] = x}) = IF x \in ToSet(s) THEN 1 ELSE 0
<1>1. CASE x \in ToSet(s)
  <2>1. PICK i \in DOMAIN s : s[i] = x
    BY <1>1 DEF ToSet
  <2>2. {j \in DOMAIN s : s[j] = x} = {i}
    BY <2>1 DEF IsInjective
  <2>3. QED
    BY <1>1, <2>2, FS_Singleton
<1>2. CASE x \notin ToSet(s)
  <2>1. {j \in DOMAIN s : s[j] = x} = {}
    BY <1>2 DEF ToSet
  <2>2. QED
    BY <1>2, <2>1, FS_EmptySet
<1>3. QED
  BY <1>1, <1>2

\* A list without repetitions stays one when an element is taken out, ...
LEMMA RemoveAtInjective ==
    ASSUME NEW S, NEW s \in Seq(S), IsInjective(s), NEW i \in DOMAIN s
    PROVE  /\ RemoveAt(s, i) \in Seq(S) /\ IsInjective(RemoveAt(s, i))
           /\ ToSet(RemoveAt(s, i)) = ToSet(s) \ {s[i]}
<1> DEFINE r == RemoveAt(s, i)
<1>1. /\ r \in Seq(S)
      /\ \A j \in DOMAIN r : Source(j, i) \in DOMAIN s \ {i} /\ r[j] = s[Source(j, i)]
      /\ \A k \in DOMAIN s \ {i} : \E j \in DOMAIN r : Source(j, i) = k
      /\ \A j, k \in DOMAIN r : j < k <=> Source(j, i) < Source(k, i)
  BY RemoveAtSources
<1>2. \A j, k \in DOMAIN r : Source(j, i) = Source(k, i) => j = k
  <2>1. DOMAIN r = 1 .. Len(r) /\ DOMAIN s = 1 .. Len(s) /\ Len(r) \in Nat /\ Len(s) \in Nat
    BY <1>1, LenProperties
  <2> HIDE DEF r
  <2>2. QED
    BY <1>1, <2>1 DEF Source
<1> HIDE DEF r
<1>3. IsInjective(r)
  BY <1>1, <1>2, Zenon DEF IsInjective
<1>4. ToSet(r) = ToSet(s) \ {s[i]}
  <2>1. ASSUME NEW x \in ToSet(r) PROVE x \in ToSet(s) /\ x # s[i]
    <3>1. PICK j \in DOMAIN r : x = r[j]
      BY <2>1 DEF ToSet
    <3>2. QED
      BY <1>1, <3>1 DEF ToSet, IsInjective
  <2>2. ASSUME NEW x \in ToSet(s), x # s[i] PROVE x \in ToSet(r)
    <3>1. PICK k \in DOMAIN s : x = s[k]
      BY <2>2 DEF ToSet
    <3>2. PICK j \in DOMAIN r : Source(j, i) = k
      BY <1>1, <2>2, <3>1
    <3>3. QED
      BY <1>1, <3>1, <3>2 DEF ToSet
  <2>3. QED
    BY <2>1, <2>2
<1>5. QED
  BY <1>1, <1>3, <1>4 DEF r

\* ... when others are put behind it, ...
LEMMA ConcatInjective ==
    ASSUME NEW S, NEW s \in Seq(S), NEW t \in Seq(S),
           IsInjective(s), IsInjective(t), ToSet(s) \cap ToSet(t) = {}
    PROVE  /\ s \o t \in Seq(S) /\ IsInjective(s \o t)
           /\ ToSet(s \o t) = ToSet(s) \cup ToSet(t)
<1> DEFINE r == s \o t
<1>1. /\ r \in Seq(S) /\ DOMAIN r = 1 .. Len(s) + Len(t)
      /\ DOMAIN s = 1 .. Len(s) /\ DOMAIN t = 1 .. Len(t)
      /\ Len(s) \in Nat /\ Len(t) \in Nat
      /\ \A i \in 1 .. Len(s) + Len(t) : r[i] = IF i <= Len(s) THEN s[i] ELSE t[i - Len(s)]
  BY ConcatProperties, LenProperties
<1> HIDE DEF r
<1>2. \A i \in DOMAIN r :
          \/ i \in DOMAIN s /\ r[i] = s[i]
          \/ i - Len(s) \in DOMAIN t /\ r[i] = t[i - Len(s)] /\ i \notin DOMAIN s
  BY <1>1
<1>3. \A i \in DOMAIN s : i \in DOMAIN r /\ r[i] = s[i]
  BY <1>1
<1>4. \A i \in DOMAIN t : i + Len(s) \in DOMAIN r /\ r[i + Len(s)] = t[i]
  BY <1>1
<1>5. ToSet(r) = ToSet(s) \cup ToSet(t)
  BY <1>2, <1>3, <1>4 DEF ToSet
<1>6. ASSUME NEW i \in DOMAIN r, NEW j \in DOMAIN r, r[i] = r[j] PROVE i = j
  <2>1. CASE i \in DOMAIN s /\ j \in DOMAIN s
    BY <1>2, <1>6, <2>1 DEF IsInjective
  <2>2. CASE i \notin DOMAIN s /\ j \notin DOMAIN s
    <3>1. i - Len(s) = j - Len(s)
      BY <1>2, <1>6, <2>2 DEF IsInjective
    <3>2. QED
      BY <1>1, <3>1
  <2>3. CASE i \in DOMAIN s /\ j \notin DOMAIN s
    BY <1>2, <1>6, <2>3 DEF ToSet
  <2>4. CASE i \notin DOMAIN s /\ j \in DOMAIN s
    BY <1>2, <1>6, <2>4 DEF ToSet
  <2>5. QED
    BY <2>1, <2>2, <2>3, <2>4
<1>7. QED
  BY <1>1, <1>5, <1>6 DEF IsInjective, r

\* ... and when one is appended.
LEMMA AppendUnlisted ==
    ASSUME NEW S, NEW s \in Seq(S), IsInjective(s), NEW x \in S, x \notin ToSet(s)
    PROVE  /\ Append(s, x) \in Seq(S) /\ IsInjective(Append(s, x))
           /\ ToSet(Append(s, x)) = ToSet(s) \cup {x}
<1> DEFINE r == Append(s, x)
<1>1. /\ r \in Seq(S) /\ DOMAIN r = 1 .. Len(s) + 1
      /\ DOMAIN s = 1 .. Len(s) /\ Len(s) \in Nat
      /\ \A i \in 1 .. Len(s) : r[i] = s[i]
      /\ r[Len(s) + 1] = x
  BY AppendProperties, LenProperties
<1> HIDE DEF r
<1>2. \A i \in DOMAIN r : (i \in DOMAIN s /\ r[i] = s[i]) \/ (i = Len(s) + 1 /\ r[i] = x)
  BY <1>1
<1>3. ToSet(r) = ToSet(s) \cup {x}
  BY <1>1, <1>2 DEF ToSet
<1>4. IsInjective(r)
  BY <1>2 DEF IsInjective, ToSet
<1>5. QED
  BY <1>1, <1>3, <1>4 DEF r

\* Appending brings in the element appended and no other.
LEMMA AppendElements ==
    ASSUME NEW S, NEW s \in Seq(S), NEW x
    PROVE  \A j \in DOMAIN Append(s, x) :
              Append(s, x)[j] = x \/ \E k \in DOMAIN s : Append(s, x)[j] = s[k]
<1>1. s \in Seq(S \cup {x})
  BY SeqMonotonic
<1>2. /\ DOMAIN Append(s, x) = 1 .. Len(s) + 1 /\ Len(s) \in Nat /\ DOMAIN s = 1 .. Len(s)
      /\ \A i \in 1 .. Len(s) : Append(s, x)[i] = s[i]
      /\ Append(s, x)[Len(s) + 1] = x
  BY <1>1, AppendProperties, LenProperties
<1>3. \A j \in 1 .. Len(s) + 1 : j \in 1 .. Len(s) \/ j = Len(s) + 1
  BY <1>2
<1>4. QED
  BY <1>2, <1>3

\* SetToSeqs lists every element of a finite set, and none twice.
LEMMA SetToSeqsLists ==
    ASSUME NEW S, IsFiniteSet(S), NEW s \in SetToSeqs(S)
    PROVE  s \in Seq(S) /\ IsInjective(s) /\ ToSet(s) = S
<1> DEFINE n == Cardinality(S)
<1>1. n \in Nat
  BY FS_CardinalityType
<1>2. s \in [1 .. n -> S] /\ \A i, j \in 1 .. n : i # j => s[i] # s[j]
  BY DEF SetToSeqs
<1>3. s \in Seq(S) /\ IsInjective(s)
  BY <1>1, <1>2 DEF IsInjective
<1>4. IsFiniteSet(1 .. n) /\ Cardinality(1 .. n) = n
  BY <1>1, FS_Interval
<1>5. s \in Injection(1 .. n, S)
  BY <1>2 DEF Injection, IsInjective
<1>6. s \in Surjection(1 .. n, S)
  BY <1>4, <1>5, FS_Injection
<1>7. ToSet(s) = S
  BY <1>2, <1>6 DEF Surjection, ToSet
<1>8. QED
  BY <1>3, <1>7

-----------------------------------------------------------------------------
(* Sums over finite sets. The community modules define them by a recursive *)
(* function, one element less at a time: two such functions agree, and one *)
(* exists, on every finite set, as no least subset is a counterexample.    *)

Pick(s) == CHOOSE x \in s : TRUE

Iterates(g, f, S) ==
    g = [s \in SUBSET S |-> IF s = {} THEN 0 ELSE f[Pick(s)] + g[s \ {Pick(s)}]]

Sum(f, S) == (CHOOSE g : Iterates(g, f, S))[S]

\* Sum is what the community modules compute.
LEMMA SumIsSumFunctionOnSet ==
    ASSUME NEW f, NEW S
    PROVE  SumFunctionOnSet(f, S) = Sum(f, S)
BY Zenon DEF SumFunctionOnSet, FoldFunctionOnSet, MapThenFoldSet, Sum, Iterates, Pick

\* The sum of the community modules is Sum.
LEMMA SumIsMapThenSumSet ==
    ASSUME NEW f, NEW S
    PROVE  MapThenSumSet(LAMBDA x : f[x], S) = Sum(f, S)
BY Zenon DEF MapThenSumSet, MapThenFoldSet, Sum, Iterates, Pick

\* A set of finite sets has a member none of whose parts is one.
LEMMA LeastSet ==
    ASSUME NEW S, IsFiniteSet(S), NEW T, T \subseteq SUBSET S, T # {}
    PROVE  \E x \in T : \A y \in T : ~ (y \subseteq x /\ y # x)
<1>1. IsWellFoundedOn(StrictSubsetOrdering(S), SUBSET S)
  BY FS_StrictSubsetOrderingWellFounded, FS_FiniteSubsetsOfFinite
<1>2. PICK x \in T : \A y \in T : ~ (<<y, x>> \in StrictSubsetOrdering(S))
  BY <1>1, WFMin
<1>3. \A y \in T : <<y, x>> \in (SUBSET S) \X (SUBSET S)
  BY <1>2
<1>4. QED
  BY <1>2, <1>3 DEF StrictSubsetOrdering

\* Two iterations over a set agree on what both are defined for.
LEMMA IterationsAgree ==
    ASSUME NEW S, IsFiniteSet(S), NEW f, NEW A, NEW B, S \subseteq A, S \subseteq B,
           NEW g, NEW h, Iterates(g, f, A), Iterates(h, f, B)
    PROVE  \A s \in SUBSET S : g[s] = h[s]
<1> DEFINE T == {s \in SUBSET S : g[s] # h[s]}
<1>1. SUFFICES ASSUME T # {} PROVE FALSE
  OBVIOUS
<1>2. T \subseteq SUBSET S
  OBVIOUS
<1>3. PICK x \in T : \A y \in T : ~ (y \subseteq x /\ y # x)
  <2> HIDE DEF T
  <2>1. QED
    BY <1>1, <1>2, LeastSet
<1>4. x # {}
  BY <1>3 DEF Iterates
<1>5. Pick(x) \in x
  BY <1>4 DEF Pick
<1>6. g[x \ {Pick(x)}] = h[x \ {Pick(x)}]
  BY <1>3, <1>5
<1>7. /\ g[x] = f[Pick(x)] + g[x \ {Pick(x)}]
      /\ h[x] = f[Pick(x)] + h[x \ {Pick(x)}]
  BY <1>3, <1>4 DEF Iterates
<1>8. QED
  BY <1>3, <1>6, <1>7

\* An iteration exists over every finite set, so the one chosen is one.
LEMMA IterationExists ==
    ASSUME NEW f, NEW S, IsFiniteSet(S)
    PROVE  Iterates(CHOOSE g : Iterates(g, f, S), f, S)
<1> DEFINE G(s) == CHOOSE g : Iterates(g, f, s)
           T == {s \in SUBSET S : ~ \E g : Iterates(g, f, s)}
<1>1. SUFFICES ASSUME T # {} PROVE FALSE
  <2>1. T = {} => \E g : Iterates(g, f, S)
    OBVIOUS
  <2>2. QED
    BY <2>1
<1>2. T \subseteq SUBSET S
  OBVIOUS
<1>3. PICK t \in T : \A y \in T : ~ (y \subseteq t /\ y # t)
  <2> HIDE DEF T
  <2>1. QED
    BY <1>1, <1>2, LeastSet
<1>4. \A s \in SUBSET t : s # t => Iterates(G(s), f, s)
  BY <1>3
<1>5. t \in SUBSET S /\ ~ \E g : Iterates(g, f, t)
  BY <1>3
<1> HIDE DEF G, T
<1> DEFINE k == [s \in SUBSET t |->
                   IF s = {} THEN 0 ELSE f[Pick(s)] + G(s \ {Pick(s)})[s \ {Pick(s)}]]
<1>6. ASSUME NEW s \in SUBSET t, s # t PROVE k[s] = G(s)[s]
  <2>1. Iterates(G(s), f, s)
    BY <1>4, <1>6
  <2>2. CASE s = {}
    BY <2>1, <2>2 DEF Iterates
  <2>3. CASE s # {}
    <3> DEFINE r == s \ {Pick(s)}
    <3>1. Pick(s) \in s
      BY <2>3 DEF Pick
    <3>2. r \in SUBSET t /\ r # t /\ r \subseteq s
      BY <1>6, <3>1
    <3>3. Iterates(G(r), f, r)
      BY <1>4, <3>2
    <3>4. IsFiniteSet(r)
      BY <1>5, <3>2, FS_Subset
    <3>5. G(r)[r] = G(s)[r]
      <4>1. r \subseteq r /\ r \in SUBSET r
        OBVIOUS
      <4> HIDE DEF r
      <4> DEFINE gr == G(r)
                 gs == G(s)
      <4>2. Iterates(gr, f, r) /\ Iterates(gs, f, s)
        BY <2>1, <3>3
      <4> HIDE DEF gr, gs
      <4>3. \A u \in SUBSET r : gr[u] = gs[u]
        BY <3>2, <3>4, <4>1, <4>2, IterationsAgree
      <4>4. QED
        BY <4>1, <4>3 DEF gr, gs
    <3>6. G(s)[s] = f[Pick(s)] + G(s)[r]
      BY <2>1, <2>3 DEF Iterates
    <3>7. k[s] = f[Pick(s)] + G(r)[r]
      BY <2>3
    <3>8. QED
      BY <3>5, <3>6, <3>7
  <2>4. QED
    BY <2>2, <2>3
<1>7. Iterates(k, f, t)
  <2>1. ASSUME NEW s \in SUBSET t, s # {}
        PROVE  G(s \ {Pick(s)})[s \ {Pick(s)}] = k[s \ {Pick(s)}]
    <3>1. Pick(s) \in s
      BY <2>1 DEF Pick
    <3>2. s \ {Pick(s)} \in SUBSET t /\ s \ {Pick(s)} # t
      BY <3>1
    <3>3. QED
      BY <1>6, <3>2
  <2>2. QED
    BY <2>1 DEF Iterates
<1>8. QED
  BY <1>5, <1>7

\* Nothing adds up to zero.
LEMMA SumEmpty == ASSUME NEW f PROVE Sum(f, {}) = 0
<1>1. Iterates(CHOOSE g : Iterates(g, f, {}), f, {})
  BY IterationExists, FS_EmptySet
<1>2. QED
  BY <1>1 DEF Sum, Iterates

\* A sum is the element picked first and the sum of the rest.
LEMMA SumPick ==
    ASSUME NEW f, NEW S, IsFiniteSet(S), S # {}
    PROVE  Sum(f, S) = f[Pick(S)] + Sum(f, S \ {Pick(S)})
<1> DEFINE G(s) == CHOOSE g : Iterates(g, f, s)
           r == S \ {Pick(S)}
           gr == G(r)
           gS == G(S)
<1>1. r \subseteq S /\ r \subseteq r /\ r \in SUBSET r
  OBVIOUS
<1>2. IsFiniteSet(r)
  BY <1>1, FS_Subset
<1>3. Iterates(gS, f, S) /\ Iterates(gr, f, r)
  BY <1>2, IterationExists
<1>4. Sum(f, S) = gS[S] /\ Sum(f, r) = gr[r]
  BY DEF Sum
<1> HIDE DEF gr, gS
<1>5. gS[S] = f[Pick(S)] + gS[r]
  BY <1>3 DEF Iterates
<1> HIDE DEF r
<1>6. \A u \in SUBSET r : gr[u] = gS[u]
  BY <1>1, <1>2, <1>3, IterationsAgree
<1>7. QED
  BY <1>1, <1>4, <1>5, <1>6 DEF r

\* Functions that agree on a set have the same sum over it.
LEMMA SumSame ==
    ASSUME NEW f, NEW g, NEW S, IsFiniteSet(S), \A x \in S : f[x] = g[x]
    PROVE  Sum(f, S) = Sum(g, S)
<1> DEFINE T == {s \in SUBSET S : Sum(f, s) # Sum(g, s)}
<1>1. SUFFICES ASSUME T # {} PROVE FALSE
  OBVIOUS
<1>2. T \subseteq SUBSET S
  OBVIOUS
<1>3. PICK x \in T : \A y \in T : ~ (y \subseteq x /\ y # x)
  <2> HIDE DEF T
  <2>1. QED
    BY <1>1, <1>2, LeastSet
<1>4. x # {} /\ x \in SUBSET S
  BY <1>3, SumEmpty
<1>5. Pick(x) \in x /\ IsFiniteSet(x)
  BY <1>4, FS_Subset DEF Pick
<1>6. Sum(f, x \ {Pick(x)}) = Sum(g, x \ {Pick(x)})
  BY <1>3, <1>5
<1>7. /\ Sum(f, x) = f[Pick(x)] + Sum(f, x \ {Pick(x)})
      /\ Sum(g, x) = g[Pick(x)] + Sum(g, x \ {Pick(x)})
  BY <1>4, <1>5, SumPick
<1>8. f[Pick(x)] = g[Pick(x)]
  BY <1>4, <1>5
<1>9. QED
  BY <1>3, <1>6, <1>7, <1>8

\* A sum of naturals is one.
LEMMA SumNat ==
    ASSUME NEW f, NEW S, IsFiniteSet(S), \A x \in S : f[x] \in Nat
    PROVE  Sum(f, S) \in Nat
<1> DEFINE T == {s \in SUBSET S : Sum(f, s) \notin Nat}
<1>1. SUFFICES ASSUME T # {} PROVE FALSE
  OBVIOUS
<1>2. T \subseteq SUBSET S
  OBVIOUS
<1>3. PICK x \in T : \A y \in T : ~ (y \subseteq x /\ y # x)
  <2> HIDE DEF T
  <2>1. QED
    BY <1>1, <1>2, LeastSet
<1>4. x \in SUBSET S /\ Sum(f, x) \notin Nat
  BY <1>3
<1>5. x # {}
  BY <1>4, SumEmpty, 0 \in Nat
<1>6. Pick(x) \in x /\ IsFiniteSet(x)
  BY <1>4, <1>5, FS_Subset DEF Pick
<1>7. Sum(f, x \ {Pick(x)}) \in Nat
  BY <1>3, <1>6
<1>8. Sum(f, x) = f[Pick(x)] + Sum(f, x \ {Pick(x)})
  BY <1>5, <1>6, SumPick
<1>9. f[Pick(x)] \in Nat
  BY <1>4, <1>6
<1> HIDE DEF T
<1>10. QED
  BY <1>4, <1>7, <1>8, <1>9

\* Any element may be taken out first.
LEMMA SumWithout ==
    ASSUME NEW f, NEW S, IsFiniteSet(S), \A x \in S : f[x] \in Nat, NEW z \in S
    PROVE  Sum(f, S) = f[z] + Sum(f, S \ {z})
<1> DEFINE T == {s \in SUBSET S : \E y \in s : Sum(f, s) # f[y] + Sum(f, s \ {y})}
<1>1. SUFFICES ASSUME T # {} PROVE FALSE
  OBVIOUS
<1>2. T \subseteq SUBSET S
  OBVIOUS
<1>3. PICK x \in T : \A y \in T : ~ (y \subseteq x /\ y # x)
  <2> HIDE DEF T
  <2>1. QED
    BY <1>1, <1>2, LeastSet
<1>4. PICK y \in x : Sum(f, x) # f[y] + Sum(f, x \ {y})
  BY <1>3
<1>5. x \in SUBSET S /\ x # {} /\ IsFiniteSet(x)
  BY <1>3, FS_Subset
<1> DEFINE c == Pick(x)
<1>6. c \in x /\ Sum(f, x) = f[c] + Sum(f, x \ {c})
  BY <1>5, SumPick DEF Pick
<1> HIDE DEF c
<1>7. c # y
  BY <1>4, <1>6
<1>8. Sum(f, x \ {c}) = f[y] + Sum(f, (x \ {c}) \ {y})
  BY <1>3, <1>4, <1>6, <1>7
<1>9. Sum(f, x \ {y}) = f[c] + Sum(f, (x \ {y}) \ {c})
  BY <1>3, <1>4, <1>6, <1>7
<1>10. (x \ {c}) \ {y} = (x \ {y}) \ {c}
  OBVIOUS
<1>11. Sum(f, (x \ {c}) \ {y}) \in Nat
  <2>1. (x \ {c}) \ {y} \in SUBSET S
    BY <1>5
  <2>2. IsFiniteSet((x \ {c}) \ {y}) /\ \A w \in (x \ {c}) \ {y} : f[w] \in Nat
    BY <1>5, FS_Subset
  <2>3. QED
    BY <2>2, SumNat
<1>12. f[c] \in Nat /\ f[y] \in Nat
  BY <1>4, <1>5, <1>6
<1> HIDE DEF T
<1>13. QED
  BY <1>4, <1>6, <1>8, <1>9, <1>10, <1>11, <1>12

\* One summand changes.
LEMMA SumUpdate ==
    ASSUME NEW f, NEW g, NEW S, IsFiniteSet(S), NEW z \in S,
           \A x \in S : f[x] \in Nat /\ g[x] \in Nat, \A x \in S \ {z} : g[x] = f[x]
    PROVE  /\ Sum(f, S) \in Nat /\ Sum(g, S) \in Nat
           /\ Sum(g, S) = Sum(f, S) + g[z] - f[z]
<1>1. Sum(f, S) = f[z] + Sum(f, S \ {z}) /\ Sum(g, S) = g[z] + Sum(g, S \ {z})
  BY SumWithout
<1>2. S \ {z} \in SUBSET S /\ IsFiniteSet(S \ {z})
  BY FS_Subset, S \ {z} \in SUBSET S
<1>3. Sum(f, S \ {z}) = Sum(g, S \ {z})
  BY <1>2, SumSame
<1>4. Sum(f, S \ {z}) \in Nat /\ Sum(f, S) \in Nat /\ Sum(g, S) \in Nat
  BY <1>2, SumNat
<1>5. QED
  BY <1>1, <1>3, <1>4

\* The sum of a part is not greater.
LEMMA SumPart ==
    ASSUME NEW f, NEW S, IsFiniteSet(S), \A x \in S : f[x] \in Nat, NEW R \in SUBSET S
    PROVE  Sum(f, R) \in Nat /\ Sum(f, R) <= Sum(f, S)
<1> DEFINE T == {s \in SUBSET S : R \subseteq s /\ ~ (Sum(f, R) <= Sum(f, s))}
<1>1. IsFiniteSet(R) /\ Sum(f, R) \in Nat
  BY FS_Subset, SumNat
<1>2. SUFFICES ASSUME T # {} PROVE FALSE
  BY <1>1
<1>3. T \subseteq SUBSET S
  OBVIOUS
<1>4. PICK x \in T : \A y \in T : ~ (y \subseteq x /\ y # x)
  <2> HIDE DEF T
  <2>1. QED
    BY <1>2, <1>3, LeastSet
<1>5. x \in SUBSET S /\ R \subseteq x /\ ~ (Sum(f, R) <= Sum(f, x))
  BY <1>4
<1>6. R # x
  BY <1>1, <1>5
<1>7. PICK z \in x : z \notin R
  BY <1>5, <1>6
<1>8. Sum(f, R) <= Sum(f, x \ {z})
  BY <1>4, <1>5, <1>7
<1>9. IsFiniteSet(x) /\ IsFiniteSet(x \ {z})
  BY <1>5, FS_Subset, x \ {z} \in SUBSET S
<1>10. Sum(f, x) = f[z] + Sum(f, x \ {z})
  BY <1>5, <1>7, <1>9, SumWithout
<1>11. f[z] \in Nat /\ Sum(f, x \ {z}) \in Nat
  BY <1>5, <1>7, <1>9, SumNat
<1> HIDE DEF T
<1>12. QED
  BY <1>1, <1>5, <1>8, <1>10, <1>11

\* A sum of zeroes.
LEMMA SumZero ==
    ASSUME NEW f, NEW S, IsFiniteSet(S), \A x \in S : f[x] = 0
    PROVE  Sum(f, S) = 0
<1> DEFINE T == {s \in SUBSET S : Sum(f, s) # 0}
<1>1. SUFFICES ASSUME T # {} PROVE FALSE
  OBVIOUS
<1>2. T \subseteq SUBSET S
  OBVIOUS
<1>3. PICK x \in T : \A y \in T : ~ (y \subseteq x /\ y # x)
  <2> HIDE DEF T
  <2>1. QED
    BY <1>1, <1>2, LeastSet
<1>4. x \in SUBSET S /\ Sum(f, x) # 0
  BY <1>3
<1>5. x # {}
  BY <1>4, SumEmpty
<1>6. Pick(x) \in x /\ IsFiniteSet(x)
  BY <1>4, <1>5, FS_Subset DEF Pick
<1>7. Sum(f, x \ {Pick(x)}) = 0
  BY <1>3, <1>6
<1>8. Sum(f, x) = f[Pick(x)] + Sum(f, x \ {Pick(x)})
  BY <1>5, <1>6, SumPick
<1>9. f[Pick(x)] = 0
  BY <1>4, <1>6
<1>10. QED
  BY <1>4, <1>7, <1>8, <1>9

\* A set of natural numbers none of which exceeds a bound has a greatest.
LEMMA GreatestExists ==
    ASSUME NEW T, T \subseteq Nat, T # {}, NEW b \in Nat, \A x \in T : x <= b
    PROVE  /\ Max(T) \in T
           /\ \A j \in T : j <= Max(T)
<1> DEFINE D == {b - x : x \in T}
<1>1. D \subseteq Nat /\ D # {}
  <2>1. \A x \in T : b - x \in Nat
    OBVIOUS
  <2>2. QED
    BY <2>1
<1>2. Min(D) \in D /\ \A j \in D : Min(D) <= j
  <2> HIDE DEF D
  <2>1. QED
    BY <1>1, LeastExists
<1>3. PICK m \in T : Min(D) = b - m
  BY <1>2
<1>4. \A x \in T : b - m <= b - x
  BY <1>2, <1>3
<1> HIDE DEF D
<1>5. \A x \in T : m >= x
  BY <1>4
<1>6. m \in T /\ \A x \in T : m >= x
  BY <1>5
<1>7. Max(T) \in T /\ \A x \in T : Max(T) >= x
  BY <1>6 DEF Max
<1>8. QED
  BY <1>7

\* A sum of summands none of which exceeds a bound.
LEMMA SumBound ==
    ASSUME NEW f, NEW S, IsFiniteSet(S), NEW m \in Nat,
           \A x \in S : f[x] \in Nat /\ f[x] <= m
    PROVE  Sum(f, S) <= Cardinality(S) * m
<1> DEFINE T == {s \in SUBSET S : ~ (Sum(f, s) <= Cardinality(s) * m)}
<1>1. SUFFICES ASSUME T # {} PROVE FALSE
  OBVIOUS
<1>2. T \subseteq SUBSET S
  OBVIOUS
<1>3. PICK x \in T : \A y \in T : ~ (y \subseteq x /\ y # x)
  <2> HIDE DEF T
  <2>1. QED
    BY <1>1, <1>2, LeastSet
<1>4. x \in SUBSET S /\ ~ (Sum(f, x) <= Cardinality(x) * m)
  BY <1>3
<1>5. x # {}
  <2>1. Sum(f, {}) = 0 /\ Cardinality({}) = 0
    BY SumEmpty, FS_EmptySet
  <2>2. 0 <= 0 * m
    OBVIOUS
  <2>3. QED
    BY <1>4, <2>1, <2>2
<1>6. Pick(x) \in x /\ IsFiniteSet(x)
  BY <1>4, <1>5, FS_Subset DEF Pick
<1>7. Sum(f, x \ {Pick(x)}) <= Cardinality(x \ {Pick(x)}) * m
  BY <1>3, <1>6
<1>8. Sum(f, x) = f[Pick(x)] + Sum(f, x \ {Pick(x)})
  BY <1>5, <1>6, SumPick
<1>9. Cardinality(x \ {Pick(x)}) = Cardinality(x) - 1 /\ Cardinality(x) \in Nat
  BY <1>6, FS_RemoveElement, FS_CardinalityType
<1>10. f[Pick(x)] \in Nat /\ f[Pick(x)] <= m
  BY <1>4, <1>6
<1>11. IsFiniteSet(x \ {Pick(x)}) /\ \A y \in x \ {Pick(x)} : f[y] \in Nat
  BY <1>4, <1>6, FS_RemoveElement
<1>12. Sum(f, x \ {Pick(x)}) \in Nat
  BY <1>11, SumNat
<1> HIDE DEF T
<1> DEFINE a == Sum(f, x \ {Pick(x)})
           c == Cardinality(x)
           v == f[Pick(x)]
<1>13. (c - 1) * m + m = c * m
  BY <1>9
<1>14. a <= (c - 1) * m /\ ~ (v + a <= c * m) /\ v \in Nat /\ v <= m /\ a \in Nat /\ c \in Nat
  BY <1>4, <1>7, <1>8, <1>9, <1>10, <1>12
<1> HIDE DEF a, c, v
<1>15. QED
  BY <1>13, <1>14

\* The summands moved to the numbers after theirs.
LEMMA SumShift ==
    ASSUME NEW f, NEW h, NEW n \in Nat, \A i \in 1 .. n : f[i] \in Nat /\ h[i + 1] = f[i]
    PROVE  Sum(h, 2 .. n + 1) = Sum(f, 1 .. n)
<1> DEFINE Up(s) == {i + 1 : i \in s}
           T == {s \in SUBSET (1 .. n) : Sum(h, Up(s)) # Sum(f, s)}
<1>1. IsFiniteSet(1 .. n) /\ IsFiniteSet(2 .. n + 1)
  BY FS_Interval
<1>2. Up(1 .. n) = 2 .. n + 1
  <2>1. \A i \in 2 .. n + 1 : i - 1 \in 1 .. n /\ (i - 1) + 1 = i
    OBVIOUS
  <2>2. QED
    BY <2>1
<1>3. SUFFICES ASSUME T # {} PROVE FALSE
  BY <1>2
<1>4. T \subseteq SUBSET (1 .. n)
  OBVIOUS
<1>5. PICK x \in T : \A y \in T : ~ (y \subseteq x /\ y # x)
  <2> DEFINE R == 1 .. n
  <2>1. IsFiniteSet(R) /\ T \subseteq SUBSET R
    BY <1>1
  <2> HIDE DEF T, Up, R
  <2>2. QED
    BY <1>3, <2>1, LeastSet
<1>6. x \in SUBSET (1 .. n) /\ Sum(h, Up(x)) # Sum(f, x)
  BY <1>5
<1>7. x # {}
  BY <1>6, SumEmpty, Up({}) = {}
<1> DEFINE c == Pick(x)
<1>8. c \in x /\ IsFiniteSet(x) /\ c \in 1 .. n
  BY <1>1, <1>6, <1>7, FS_Subset DEF Pick
<1>9. Sum(f, x) = f[c] + Sum(f, x \ {c})
  BY <1>7, <1>8, SumPick
<1> HIDE DEF c
<1>10. Sum(h, Up(x \ {c})) = Sum(f, x \ {c})
  BY <1>5, <1>8
<1>11. Up(x \ {c}) = Up(x) \ {c + 1}
  BY <1>6, <1>8
<1>12. c + 1 \in Up(x) /\ Up(x) \subseteq 2 .. n + 1 /\ \A i \in Up(x) : h[i] \in Nat
  BY <1>6, <1>8
<1>13. IsFiniteSet(Up(x))
  BY <1>1, <1>12, FS_Subset
<1> HIDE DEF T, Up
<1>14. Sum(h, Up(x)) = h[c + 1] + Sum(h, Up(x) \ {c + 1})
  BY <1>12, <1>13, SumWithout
<1>15. QED
  BY <1>6, <1>8, <1>9, <1>10, <1>11, <1>14

\* The sum of a sequence, and of what is left when its first element is taken.
LEMMA SumOfHead ==
    ASSUME NEW h, NEW n \in Nat, \A i \in 1 .. n + 1 : h[i] \in Nat,
           NEW f, \A i \in 1 .. n : f[i] = h[i + 1]
    PROVE  Sum(h, 1 .. n + 1) = h[1] + Sum(f, 1 .. n)
<1>1. IsFiniteSet(1 .. n + 1)
  BY FS_Interval
<1> DEFINE S == 1 .. n + 1
<1>2. Sum(h, S) = h[1] + Sum(h, S \ {1})
  <2>1. IsFiniteSet(S) /\ 1 \in S /\ \A i \in S : h[i] \in Nat
    BY <1>1
  <2> HIDE DEF S
  <2>2. QED
    BY <2>1, SumWithout
<1>3. (1 .. n + 1) \ {1} = 2 .. n + 1
  OBVIOUS
<1>4. \A i \in 1 .. n : f[i] \in Nat /\ h[i + 1] = f[i]
  OBVIOUS
<1>5. Sum(h, 2 .. n + 1) = Sum(f, 1 .. n)
  BY <1>4, SumShift
<1>6. QED
  BY <1>2, <1>3, <1>5

\* The sum of a sequence to which one has been appended.
LEMMA SumOfLast ==
    ASSUME NEW f, NEW n \in Nat, \A i \in 1 .. n : f[i] \in Nat,
           NEW g, g[n + 1] \in Nat, \A i \in 1 .. n : g[i] = f[i]
    PROVE  Sum(g, 1 .. n + 1) = Sum(f, 1 .. n) + g[n + 1]
<1>1. IsFiniteSet(1 .. n + 1) /\ IsFiniteSet(1 .. n)
  BY FS_Interval
<1>2. n + 1 \in 1 .. n + 1 /\ (1 .. n + 1) \ {n + 1} = 1 .. n
  OBVIOUS
<1>3. \A i \in 1 .. n + 1 : g[i] \in Nat
  <2>1. \A i \in 1 .. n + 1 : i \in 1 .. n \/ i = n + 1
    OBVIOUS
  <2>2. QED
    BY <2>1
<1>4. Sum(g, 1 .. n + 1) = g[n + 1] + Sum(g, 1 .. n)
  BY <1>1, <1>2, <1>3, SumWithout
<1>5. Sum(g, 1 .. n) = Sum(f, 1 .. n) /\ Sum(f, 1 .. n) \in Nat
  BY <1>1, SumSame, SumNat
<1>6. QED
  BY <1>4, <1>5

\* Greater summands have a greater sum.
LEMMA SumMonotone ==
    ASSUME NEW f, NEW g, NEW S, IsFiniteSet(S),
           \A x \in S : f[x] \in Nat /\ g[x] \in Nat /\ f[x] <= g[x]
    PROVE  Sum(f, S) <= Sum(g, S)
<1> DEFINE T == {s \in SUBSET S : ~ (Sum(f, s) <= Sum(g, s))}
<1>1. SUFFICES ASSUME T # {} PROVE FALSE
  OBVIOUS
<1>2. T \subseteq SUBSET S
  OBVIOUS
<1>3. PICK x \in T : \A y \in T : ~ (y \subseteq x /\ y # x)
  <2> HIDE DEF T
  <2>1. QED
    BY <1>1, <1>2, LeastSet
<1>4. x \in SUBSET S /\ ~ (Sum(f, x) <= Sum(g, x))
  BY <1>3
<1>5. x # {}
  <2>1. Sum(f, {}) = 0 /\ Sum(g, {}) = 0
    BY SumEmpty
  <2>2. QED
    BY <1>4, <2>1
<1>6. Pick(x) \in x /\ IsFiniteSet(x)
  BY <1>4, <1>5, FS_Subset DEF Pick
<1> DEFINE r == x \ {Pick(x)}
           a == f[Pick(x)]
           b == g[Pick(x)]
<1>7. Sum(f, r) <= Sum(g, r)
  BY <1>3, <1>6
<1>8. Sum(f, x) = a + Sum(f, r) /\ Sum(g, x) = b + Sum(g, r)
  BY <1>5, <1>6, SumPick
<1>9. a \in Nat /\ b \in Nat /\ a <= b
  BY <1>4, <1>6
<1>10. IsFiniteSet(r) /\ \A y \in r : f[y] \in Nat /\ g[y] \in Nat
  BY <1>4, <1>6, FS_RemoveElement
<1> HIDE DEF T, r, a, b
<1>11. Sum(f, r) \in Nat /\ Sum(g, r) \in Nat
  BY <1>10, SumNat
<1>12. QED
  BY <1>4, <1>7, <1>8, <1>9, <1>11

=============================================================================
