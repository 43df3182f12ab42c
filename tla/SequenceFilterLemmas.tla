----------------------- MODULE SequenceFilterLemmas -----------------------
(***************************************************************************)
(* What KeepIn returns, for every sequence and every set.  The induction   *)
(* is over the length of the prefix; it goes through a first-order form of *)
(* induction on the naturals (NatSetInduction), which the least-element    *)
(* principle of WellFoundedInduction gives.                                *)
(* At the end, what Append, Head and Tail do to a sequence's elements.      *)
(***************************************************************************)
EXTENDS SequenceFilter, SequenceTheorems, FiniteSetTheorems, TLAPS

Less == {p \in Nat \X Nat : p[1] < p[2]}

LEMMA LessIsWellFounded == IsWellFoundedOn(Less, Nat)
  BY NatLessThanWellFounded DEF OpToRel, Less

\* Every non-empty set of naturals has a least element.
LEMMA LeastNatural ==
  ASSUME NEW T \in SUBSET Nat, T # {}
  PROVE  \E x \in T : \A y \in T : x <= y
<1>1. PICK x \in T : \A y \in T : ~ (<<y, x>> \in Less)
  BY LessIsWellFounded, WFMin, Zenon
<1>2. ASSUME NEW y \in T PROVE x <= y
  <2>1. <<y, x>> \in Nat \X Nat
    OBVIOUS
  <2>2. ~ (y < x)
    BY <1>1, <2>1 DEF Less
  <2> QED BY <2>2
<1> QED BY <1>2

\* Induction on the naturals for a set: no operator parameter to instantiate.
LEMMA NatSetInduction ==
  ASSUME NEW T \in SUBSET Nat, 0 \in T, \A n \in T : n + 1 \in T
  PROVE  T = Nat
<1> SUFFICES ASSUME Nat \ T # {} PROVE FALSE
  OBVIOUS
<1>1. PICK x \in Nat \ T : \A y \in Nat \ T : x <= y
  BY LeastNatural, Zenon
<1>2. x # 0 /\ x - 1 \in T
  BY <1>1
<1> QED BY <1>1, <1>2

---------------------------------------------------------------------------
\* F computes the filtered prefixes of s up to length n.
Computes(F, s, D, n) ==
  F = [i \in 0 .. n |->
         IF i = 0 THEN << >>
         ELSE IF s[i] \in D THEN Append(F[i - 1], s[i])
         ELSE F[i - 1]]

\* The defining equation, one element at a time.
LEMMA ComputesAt ==
  ASSUME NEW F, NEW s, NEW D, NEW n \in Nat, Computes(F, s, D, n),
         NEW i \in 1 .. n
  PROVE  F[i] = IF s[i] \in D THEN Append(F[i - 1], s[i]) ELSE F[i - 1]
<1>1. i \in 0 .. n /\ i # 0
  OBVIOUS
<1>2. F[i] = IF i = 0 THEN << >>
             ELSE IF s[i] \in D THEN Append(F[i - 1], s[i])
             ELSE F[i - 1]
  BY <1>1, Zenon DEF Computes
<1> QED BY <1>1, <1>2

\* The recursive definition of KeptPrefix has a solution.
LEMMA PrefixesExist ==
  ASSUME NEW s, NEW D
  PROVE  \A n \in Nat : \E F : Computes(F, s, D, n)
<1> DEFINE T == {n \in Nat : \E F : Computes(F, s, D, n)}
<1>1. 0 \in T
  <2> DEFINE F == [i \in 0 .. 0 |-> << >>]
  <2>1. Computes(F, s, D, 0)
    BY DEF Computes
  <2> QED BY <2>1
<1>2. ASSUME NEW n \in T PROVE n + 1 \in T
  <2>0. n \in Nat
    OBVIOUS
  <2>1. PICK F : Computes(F, s, D, n)
    OBVIOUS
  <2> DEFINE G == [i \in 0 .. n + 1 |->
                     IF i <= n THEN F[i]
                     ELSE IF s[n + 1] \in D THEN Append(F[n], s[n + 1])
                     ELSE F[n]]
  <2>2. F[0] = << >>
    BY <2>1 DEF Computes
  <2>3. ASSUME NEW i \in 0 .. n + 1
        PROVE  G[i] = IF i = 0 THEN << >>
                      ELSE IF s[i] \in D THEN Append(G[i - 1], s[i])
                      ELSE G[i - 1]
    <3>1. CASE i = 0
      BY <2>2, <3>1
    <3>2. CASE i \in 1 .. n
      <4>1. G[i] = F[i] /\ G[i - 1] = F[i - 1]
        BY <3>2
      <4>2. F[i] = IF s[i] \in D THEN Append(F[i - 1], s[i]) ELSE F[i - 1]
        BY <2>0, <2>1, <3>2, ComputesAt
      <4> QED BY <3>2, <4>1, <4>2
    <3>3. CASE i = n + 1
      <4>1. G[i - 1] = F[n]
        BY <3>3
      <4>2. G[i] = IF s[i] \in D THEN Append(F[n], s[i]) ELSE F[n]
        BY <3>3
      <4> QED BY <3>3, <4>1, <4>2
    <3> QED BY <3>1, <3>2, <3>3
  <2>4. Computes(G, s, D, n + 1)
    BY <2>3 DEF Computes
  <2> QED BY <2>4
<1> HIDE DEF T
<1>3. T = Nat
  <2>1. T \in SUBSET Nat
    BY DEF T
  <2> QED BY <1>1, <1>2, <2>1, NatSetInduction
<1> QED BY <1>3 DEF T

\* What a solution has computed after i elements.
Filtered(F, s, D, S, i) ==
  /\ F[i] \in Seq(S)
  /\ \A x \in S : (\E k \in 1 .. Len(F[i]) : F[i][k] = x)
                     <=> (x \in D /\ \E j \in 1 .. i : s[j] = x)
  /\ NoRepeats(s) => NoRepeats(F[i])
  /\ Len(F[i]) <= i

LEMMA FilteredStep ==
  ASSUME NEW S, NEW s \in Seq(S), NEW D, NEW F, Computes(F, s, D, Len(s)),
         NEW i \in Nat, i < Len(s), Filtered(F, s, D, S, i)
  PROVE  Filtered(F, s, D, S, i + 1)
<1> DEFINE e == s[i + 1]
<1>1. e \in S /\ F[i] \in Seq(S) /\ i + 1 \in 1 .. Len(s)
  BY DEF Filtered
<1>2. F[i + 1] = IF e \in D THEN Append(F[i], e) ELSE F[i]
  <2>1. Len(s) \in Nat /\ (i + 1) - 1 = i
    OBVIOUS
  <2>2. F[i + 1] = IF e \in D THEN Append(F[(i + 1) - 1], e) ELSE F[(i + 1) - 1]
    BY <1>1, <2>1, ComputesAt
  <2> QED BY <2>1, <2>2
<1>3. CASE e \notin D
  BY <1>1, <1>2, <1>3 DEF Filtered
<1>4. CASE e \in D
  <2>1. F[i + 1] = Append(F[i], e)
    BY <1>2, <1>4
  <2>2. /\ F[i + 1] \in Seq(S)
        /\ Len(F[i + 1]) = Len(F[i]) + 1
        /\ F[i + 1][Len(F[i]) + 1] = e
        /\ \A k \in 1 .. Len(F[i]) : F[i + 1][k] = F[i][k]
    BY <1>1, <2>1
  <2>3. Len(F[i]) \in Nat /\ Len(F[i + 1]) <= i + 1
    BY <1>1, <2>2 DEF Filtered
  <2>4. ASSUME NEW x \in S
        PROVE  (\E k \in 1 .. Len(F[i + 1]) : F[i + 1][k] = x)
                  <=> (x \in D /\ \E j \in 1 .. i + 1 : s[j] = x)
    <3>1. (\E k \in 1 .. Len(F[i + 1]) : F[i + 1][k] = x)
             <=> (x = e \/ \E k \in 1 .. Len(F[i]) : F[i][k] = x)
      <4>1. 1 .. Len(F[i + 1]) = 1 .. Len(F[i]) \cup {Len(F[i]) + 1}
        BY <2>2, <2>3
      <4> HIDE DEF e
      <4> QED BY <2>2, <4>1
    <3>2. (\E j \in 1 .. i + 1 : s[j] = x)
             <=> (x = e \/ \E j \in 1 .. i : s[j] = x)
      OBVIOUS
    <3>3. (\E k \in 1 .. Len(F[i]) : F[i][k] = x)
             <=> (x \in D /\ \E j \in 1 .. i : s[j] = x)
      BY DEF Filtered
    <3> QED BY <1>4, <3>1, <3>2, <3>3
  <2>5. ASSUME NoRepeats(s) PROVE NoRepeats(F[i + 1])
    <3>1. \A k \in 1 .. Len(F[i]) : F[i][k] # e
      <4> SUFFICES ASSUME NEW k \in 1 .. Len(F[i]), F[i][k] = e PROVE FALSE
        OBVIOUS
      <4>1. \E j \in 1 .. i : s[j] = e
        BY <1>1 DEF Filtered
      <4> QED BY <1>1, <2>5, <4>1 DEF NoRepeats
    <3>2. NoRepeats(F[i])
      BY <2>5 DEF Filtered
    <3> SUFFICES ASSUME NEW k \in 1 .. Len(F[i + 1]), NEW m \in 1 .. Len(F[i + 1]),
                        F[i + 1][k] = F[i + 1][m]
                 PROVE  k = m
      BY DEF NoRepeats
    <3>3. CASE k \in 1 .. Len(F[i]) /\ m \in 1 .. Len(F[i])
      BY <2>2, <3>2, <3>3 DEF NoRepeats
    <3>4. CASE k = Len(F[i]) + 1 \/ m = Len(F[i]) + 1
      <4>1. k \in 1 .. Len(F[i]) \/ k = Len(F[i]) + 1
        BY <2>2, <2>3
      <4>2. m \in 1 .. Len(F[i]) \/ m = Len(F[i]) + 1
        BY <2>2, <2>3
      <4> HIDE DEF e
      <4> QED BY <2>2, <3>1, <3>4, <4>1, <4>2
    <3> QED BY <2>2, <2>3, <3>3, <3>4
  <2> QED BY <2>2, <2>3, <2>4, <2>5 DEF Filtered
<1> QED BY <1>3, <1>4

LEMMA FilteredAll ==
  ASSUME NEW S, NEW s \in Seq(S), NEW D, NEW F, Computes(F, s, D, Len(s))
  PROVE  Filtered(F, s, D, S, Len(s))
<1> DEFINE T == {i \in Nat : i <= Len(s) => Filtered(F, s, D, S, i)}
<1>1. 0 \in T
  <2>1. F[0] = << >>
    BY DEF Computes
  <2>2. F[0] \in Seq(S) /\ Len(F[0]) = 0
    BY <2>1
  <2>3. NoRepeats(F[0])
    BY <2>2 DEF NoRepeats
  <2>4. 1 .. 0 = {}
    OBVIOUS
  <2>5. Filtered(F, s, D, S, 0)
    BY <2>2, <2>3, <2>4 DEF Filtered
  <2> QED BY <2>5
<1>2. ASSUME NEW n \in T PROVE n + 1 \in T
  <2> SUFFICES ASSUME n + 1 <= Len(s) PROVE Filtered(F, s, D, S, n + 1)
    OBVIOUS
  <2>1. n \in Nat /\ n < Len(s) /\ Filtered(F, s, D, S, n)
    OBVIOUS
  <2> QED BY <2>1, FilteredStep
<1>3. Len(s) \in Nat
  OBVIOUS
<1> HIDE DEF T
<1>4. T = Nat
  <2>1. T \in SUBSET Nat
    BY DEF T
  <2> QED BY <1>1, <1>2, <2>1, NatSetInduction
<1> QED BY <1>3, <1>4 DEF T

(***************************************************************************)
(* Filtering a sequence over S keeps exactly its elements that lie in D,   *)
(* introduces no repetition, and never makes it longer.                    *)
(***************************************************************************)
THEOREM KeepInProperties ==
  ASSUME NEW S, NEW s \in Seq(S), NEW D
  PROVE  /\ KeepIn(s, D) \in Seq(S)
         /\ Range(KeepIn(s, D)) = Range(s) \cap D
         /\ NoRepeats(s) => NoRepeats(KeepIn(s, D))
         /\ Len(KeepIn(s, D)) <= Len(s)
<1> DEFINE F == KeptPrefix(s, D)
<1>1. Computes(F, s, D, Len(s))
  <2>1. \E G : Computes(G, s, D, Len(s))
    <3>1. Len(s) \in Nat
      OBVIOUS
    <3> HIDE DEF F
    <3> QED BY <3>1, PrefixesExist, Zenon
  <2> QED BY <2>1 DEF Computes, KeptPrefix
<1>2. KeepIn(s, D) = F[Len(s)]
  BY DEF KeepIn
<1> HIDE DEF F
<1>3. Filtered(F, s, D, S, Len(s))
  BY <1>1, FilteredAll
<1>4. Range(KeepIn(s, D)) = Range(s) \cap D
  <2>1. KeepIn(s, D) \in Seq(S)
    BY <1>2, <1>3 DEF Filtered
  <2>2. \A x \in S : x \in Range(KeepIn(s, D))
                       <=> x \in D /\ x \in Range(s)
    BY <1>2, <1>3, <2>1 DEF Filtered, Range
  <2>3. Range(KeepIn(s, D)) \subseteq S /\ Range(s) \subseteq S
    BY <2>1 DEF Range
  <2> QED BY <2>2, <2>3
<1> QED BY <1>2, <1>3, <1>4 DEF Filtered

---------------------------------------------------------------------------
\* Elements and repetitions of the sequences the clients build by appending,
\* concatenating and cutting.

LEMMA AppendElements ==
  ASSUME NEW S, NEW s \in Seq(S), NEW e \in S
  PROVE  /\ Append(s, e) \in Seq(S)
         /\ Append(s, e) # << >>
         /\ Range(Append(s, e)) = Range(s) \cup {e}
         /\ NoRepeats(s) /\ e \notin Range(s) => NoRepeats(Append(s, e))
<1> DEFINE a == Append(s, e)
<1>1. /\ a \in Seq(S) /\ Len(s) \in Nat /\ Len(a) = Len(s) + 1
      /\ a[Len(s) + 1] = e
      /\ \A k \in 1 .. Len(s) : a[k] = s[k]
  OBVIOUS
<1>2. DOMAIN a = 1 .. Len(s) \cup {Len(s) + 1} /\ DOMAIN s = 1 .. Len(s)
  BY <1>1
<1> HIDE DEF a
<1>3. Range(a) = Range(s) \cup {e}
  BY <1>1, <1>2 DEF Range
<1>4. ASSUME NoRepeats(s), e \notin Range(s) PROVE NoRepeats(a)
  <2>1. \A k \in 1 .. Len(s) : s[k] # e
    BY <1>2, <1>4 DEF Range
  <2> SUFFICES ASSUME NEW k \in 1 .. Len(a), NEW m \in 1 .. Len(a), a[k] = a[m]
               PROVE  k = m
    BY DEF NoRepeats
  <2>2. (k \in 1 .. Len(s) \/ k = Len(s) + 1) /\ (m \in 1 .. Len(s) \/ m = Len(s) + 1)
    BY <1>1
  <2>3. k \in 1 .. Len(s) /\ m \in 1 .. Len(s) => s[k] = s[m]
    BY <1>1
  <2> QED BY <1>1, <1>4, <2>1, <2>2, <2>3 DEF NoRepeats
<1>5. a # << >>
  BY <1>1
<1> QED BY <1>1, <1>3, <1>4, <1>5 DEF a

LEMMA ConcatElements ==
  ASSUME NEW S, NEW s \in Seq(S), NEW t \in Seq(S)
  PROVE  /\ s \o t \in Seq(S)
         /\ Range(s \o t) = Range(s) \cup Range(t)
         /\ NoRepeats(s) /\ NoRepeats(t) /\ Range(s) \cap Range(t) = {}
               => NoRepeats(s \o t)
<1> DEFINE c == s \o t
<1>1. /\ c \in Seq(S) /\ Len(s) \in Nat /\ Len(t) \in Nat
      /\ Len(c) = Len(s) + Len(t)
      /\ \A k \in 1 .. Len(s) : c[k] = s[k]
      /\ \A k \in 1 .. Len(t) : c[Len(s) + k] = t[k]
  OBVIOUS
<1>2. \A k \in 1 .. Len(c) :
        \/ k \in 1 .. Len(s) /\ c[k] = s[k]
        \/ k - Len(s) \in 1 .. Len(t) /\ c[k] = t[k - Len(s)]
  <2> SUFFICES ASSUME NEW k \in 1 .. Len(c), k \notin 1 .. Len(s)
               PROVE  k - Len(s) \in 1 .. Len(t) /\ c[k] = t[k - Len(s)]
    BY <1>1
  <2>1. k - Len(s) \in 1 .. Len(t) /\ Len(s) + (k - Len(s)) = k
    BY <1>1
  <2> QED BY <1>1, <2>1
<1>3. DOMAIN c = 1 .. Len(c) /\ DOMAIN s = 1 .. Len(s) /\ DOMAIN t = 1 .. Len(t)
  BY <1>1
<1> HIDE DEF c
<1>4. Range(c) = Range(s) \cup Range(t)
  <2>1. Range(c) \subseteq Range(s) \cup Range(t)
    BY <1>2, <1>3 DEF Range
  <2>2. Range(s) \subseteq Range(c)
    <3>1. \A k \in 1 .. Len(s) : k \in 1 .. Len(c)
      BY <1>1
    <3> QED BY <1>1, <1>3, <3>1 DEF Range
  <2>3. Range(t) \subseteq Range(c)
    <3>1. \A k \in 1 .. Len(t) : Len(s) + k \in 1 .. Len(c)
      BY <1>1
    <3> QED BY <1>1, <1>3, <3>1 DEF Range
  <2> QED BY <2>1, <2>2, <2>3
<1>5. ASSUME NoRepeats(s), NoRepeats(t), Range(s) \cap Range(t) = {}
      PROVE  NoRepeats(c)
  <2>1. \A k \in 1 .. Len(s), m \in 1 .. Len(t) : s[k] # t[m]
    BY <1>3, <1>5 DEF Range
  <2> SUFFICES ASSUME NEW k \in 1 .. Len(c), NEW m \in 1 .. Len(c), c[k] = c[m]
               PROVE  k = m
    BY DEF NoRepeats
  <2>2. CASE k \in 1 .. Len(s) /\ m \in 1 .. Len(s)
    BY <1>1, <1>5, <2>2 DEF NoRepeats
  <2>3. CASE k \notin 1 .. Len(s) /\ m \notin 1 .. Len(s)
    <3>1. k - Len(s) = m - Len(s)
      BY <1>2, <1>5, <2>3 DEF NoRepeats
    <3> QED BY <1>1, <3>1
  <2>4. CASE (k \in 1 .. Len(s)) # (m \in 1 .. Len(s))
    BY <1>2, <2>1, <2>4
  <2> QED BY <2>2, <2>3, <2>4
<1> QED BY <1>1, <1>4, <1>5 DEF c

\* Cutting a sequence after its first n elements.
LEMMA CutElements ==
  ASSUME NEW S, NEW s \in Seq(S), NEW n \in 0 .. Len(s)
  PROVE  /\ SubSeq(s, 1, n) \in Seq(S)
         /\ SubSeq(s, n + 1, Len(s)) \in Seq(S)
         /\ Range(s) = Range(SubSeq(s, 1, n)) \cup Range(SubSeq(s, n + 1, Len(s)))
         /\ NoRepeats(s) =>
              /\ NoRepeats(SubSeq(s, 1, n))
              /\ NoRepeats(SubSeq(s, n + 1, Len(s)))
              /\ Range(SubSeq(s, 1, n)) \cap Range(SubSeq(s, n + 1, Len(s))) = {}
<1> DEFINE a == SubSeq(s, 1, n)
           b == SubSeq(s, n + 1, Len(s))
<1>1. Len(s) \in Nat /\ n \in Nat /\ n <= Len(s)
  OBVIOUS
<1>2. /\ a \in Seq(S) /\ Len(a) = n
      /\ \A k \in 1 .. n : a[k] = s[k]
  BY <1>1
<1>3. /\ b \in Seq(S) /\ Len(b) = Len(s) - n
      /\ \A k \in 1 .. Len(s) - n : b[k] = s[n + k]
  BY <1>1, SubSeqProperties
<1>4. DOMAIN a = 1 .. n /\ DOMAIN b = 1 .. Len(s) - n /\ DOMAIN s = 1 .. Len(s)
  BY <1>2, <1>3
<1> HIDE DEF a, b
<1>5. \A k \in 1 .. n : k \in 1 .. Len(s)
  BY <1>1
<1>6. \A k \in 1 .. Len(s) - n : n + k \in 1 .. Len(s) /\ n + k > n
  BY <1>1
<1>7. \A k \in 1 .. Len(s) :
        k \in 1 .. n \/ (k - n \in 1 .. Len(s) - n /\ n + (k - n) = k)
  BY <1>1
<1>8. Range(s) = Range(a) \cup Range(b)
  <2>1. Range(s) \subseteq Range(a) \cup Range(b)
    <3> SUFFICES ASSUME NEW k \in 1 .. Len(s) PROVE s[k] \in Range(a) \cup Range(b)
      BY <1>4 DEF Range
    <3>1. CASE k \in 1 .. n
      BY <1>2, <1>4, <3>1 DEF Range
    <3>2. CASE k - n \in 1 .. Len(s) - n /\ n + (k - n) = k
      <4>1. b[k - n] = s[k]
        BY <1>3, <3>2
      <4> QED BY <1>4, <3>2, <4>1 DEF Range
    <3> QED BY <1>7, <3>1, <3>2
  <2>2. Range(a) \subseteq Range(s)
    BY <1>2, <1>4, <1>5 DEF Range
  <2>3. Range(b) \subseteq Range(s)
    BY <1>3, <1>4, <1>6 DEF Range
  <2> QED BY <2>1, <2>2, <2>3
<1>9. ASSUME NoRepeats(s)
      PROVE  NoRepeats(a) /\ NoRepeats(b) /\ Range(a) \cap Range(b) = {}
  <2>1. NoRepeats(a)
    BY <1>2, <1>5, <1>9 DEF NoRepeats
  <2>2. NoRepeats(b)
    <3> SUFFICES ASSUME NEW k \in 1 .. Len(b), NEW m \in 1 .. Len(b), b[k] = b[m]
                 PROVE  k = m
      BY DEF NoRepeats
    <3>1. n + k = n + m
      BY <1>3, <1>6, <1>9 DEF NoRepeats
    <3> QED BY <1>1, <1>3, <3>1
  <2>3. \A k \in 1 .. n, m \in 1 .. Len(s) - n : s[k] # s[n + m]
    <3> SUFFICES ASSUME NEW k \in 1 .. n, NEW m \in 1 .. Len(s) - n, s[k] = s[n + m]
                 PROVE  FALSE
      OBVIOUS
    <3>1. k = n + m
      BY <1>5, <1>6, <1>9 DEF NoRepeats
    <3> QED BY <1>1, <3>1
  <2>4. Range(a) \cap Range(b) = {}
    BY <1>2, <1>3, <1>4, <2>3 DEF Range
  <2> QED BY <2>1, <2>2, <2>4
<1> QED BY <1>2, <1>3, <1>8, <1>9 DEF a, b

LEMMA RangeIsFinite ==
  ASSUME NEW S, NEW s \in Seq(S)
  PROVE  IsFiniteSet(Range(s))
<1>1. Len(s) \in Nat /\ DOMAIN s = 1 .. Len(s) /\ s \in [1 .. Len(s) -> Range(s)]
  BY DEF Range
<1>2. s \in Surjection(1 .. Len(s), Range(s))
  BY <1>1 DEF Surjection, Range
<1>3. IsFiniteSet(1 .. Len(s))
  BY <1>1, FS_Interval
<1> QED BY <1>2, <1>3, FS_Surjection

\* The elements of a sequence are its first one and those of the rest.
LEMMA TailElements ==
  ASSUME NEW S, NEW s \in Seq(S), s # << >>
  PROVE  /\ Head(s) \in S /\ Tail(s) \in Seq(S)
         /\ Range(s) = {Head(s)} \cup Range(Tail(s))
         /\ NoRepeats(s) => NoRepeats(Tail(s)) /\ Head(s) \notin Range(Tail(s))
<1>1. /\ Len(s) \in Nat \ {0} /\ DOMAIN s = 1 .. Len(s)
      /\ Head(s) = s[1] /\ Head(s) \in S
  OBVIOUS
<1>2. /\ Tail(s) \in Seq(S) /\ Len(Tail(s)) = Len(s) - 1
      /\ DOMAIN Tail(s) = 1 .. Len(s) - 1
      /\ \A i \in 1 .. Len(s) - 1 : Tail(s)[i] = s[i + 1]
  BY <1>1
<1>3. \A i \in 1 .. Len(s) : i = 1 \/ (i - 1 \in 1 .. Len(s) - 1 /\ s[i] = Tail(s)[i - 1])
  BY <1>1, <1>2
<1>4. Range(s) = {Head(s)} \cup Range(Tail(s))
  <2>1. ASSUME NEW e \in Range(s), e # Head(s) PROVE e \in Range(Tail(s))
    <3>1. PICK i \in 1 .. Len(s) : e = s[i]
      BY <1>1, <2>1 DEF Range
    <3>2. i - 1 \in 1 .. Len(s) - 1 /\ e = Tail(s)[i - 1]
      BY <1>1, <1>3, <2>1, <3>1
    <3> QED BY <1>2, <3>2 DEF Range
  <2>2. Head(s) \in Range(s)
    BY <1>1 DEF Range
  <2>3. \A i \in 1 .. Len(s) - 1 : i + 1 \in 1 .. Len(s)
    BY <1>1
  <2>4. Range(Tail(s)) \subseteq Range(s)
    BY <1>1, <1>2, <2>3 DEF Range
  <2> QED BY <2>1, <2>2, <2>4
<1>5. ASSUME NoRepeats(s) PROVE NoRepeats(Tail(s)) /\ Head(s) \notin Range(Tail(s))
  <2>1. \A i \in 1 .. Len(s) - 1 : i \in 1 .. Len(s) /\ i + 1 \in 1 .. Len(s) /\ i + 1 # 1
    BY <1>1
  <2>2. NoRepeats(Tail(s))
    BY <1>1, <1>2, <1>5, <2>1 DEF NoRepeats
  <2>3. Head(s) \notin Range(Tail(s))
    BY <1>1, <1>2, <1>5, <2>1 DEF NoRepeats, Range
  <2> QED BY <2>2, <2>3
<1> QED BY <1>1, <1>2, <1>4, <1>5

\* A sequence whose rest is empty has one element.
LEMMA TailIsEmpty ==
  ASSUME NEW S, NEW s \in Seq(S), s # << >>
  PROVE  /\ Len(s) = 1 => Tail(s) = << >>
         /\ Len(s) # 1 => Tail(s) # << >>
         /\ Len(s) > 1 => Tail(s) # << >>
<1>1. Len(s) \in Nat \ {0} /\ Tail(s) \in Seq(S) /\ Len(Tail(s)) = Len(s) - 1
  OBVIOUS
<1>2. PICK t \in Seq(S) : t = Tail(s)
  BY <1>1
<1>3. Len(t) = Len(s) - 1 /\ (t = << >> <=> Len(t) = 0)
  BY <1>1, <1>2, EmptySeq
<1>4. (Len(s) = 1 => t = << >>) /\ (Len(s) # 1 => t # << >>) /\ (Len(s) > 1 => t # << >>)
  BY <1>1, <1>3
<1> QED BY <1>2, <1>4, Zenon

===========================================================================
