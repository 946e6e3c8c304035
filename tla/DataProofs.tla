----------------------------- MODULE DataProofs -----------------------------
(***************************************************************************)
(* What the operators of the data modules compute, for every argument:     *)
(* induction over the natural numbers and the existence of functions that  *)
(* are defined by recursion (from the well-foundedness of <), Filtered of  *)
(* Subsequence, Pow2 of Powers and the lists of ListHead.                  *)
(***************************************************************************)
EXTENDS Subsequence, Powers, ListHead, SequenceTheorems, WellFoundedInduction, TLAPS

------------------------------------------------------------------------------
(* Induction and recursion                                                   *)

LessOnNat == OpToRel(<, Nat)

LEMMA LessWellFounded == IsWellFoundedOn(LessOnNat, Nat)
BY NatLessThanWellFounded DEF LessOnNat

LEMMA LessMeansLess == \A m, n \in Nat : <<m, n>> \in LessOnNat <=> m < n
BY DEF LessOnNat, OpToRel

\* Every set of numbers that is not empty has a least element.
LEMMA LeastNumber ==
  ASSUME NEW T, T \subseteq Nat, T # {}
  PROVE  \E x \in T : \A y \in T : x <= y
<1>1. \E x \in T : \A y \in T : ~(<<y, x>> \in LessOnNat)
  BY WFMin, LessWellFounded
<1>2. PICK x \in T : \A y \in T : ~(<<y, x>> \in LessOnNat)
  BY <1>1
<1>3. ASSUME NEW y \in T PROVE x <= y
  <2>1. x \in Nat /\ y \in Nat OBVIOUS
  <2>2. ~(y < x) BY <1>2, <2>1, LessMeansLess
  <2> QED BY <2>1, <2>2
<1> QED BY <1>3

\* A set with 0 that has n + 1 with every n has all numbers.
LEMMA SetInduction ==
  ASSUME NEW T, 0 \in T, \A n \in Nat : n \in T => n + 1 \in T
  PROVE  \A n \in Nat : n \in T
<1> SUFFICES ASSUME Nat \ T # {} PROVE FALSE
  OBVIOUS
<1>1. PICK x \in Nat \ T : \A y \in Nat \ T : x <= y
  BY LeastNumber
<1>2. x # 0 /\ x - 1 \in Nat
  BY <1>1
<1>3. x - 1 \in T
  BY <1>1, <1>2
<1> QED BY <1>1, <1>2, <1>3

------------------------------------------------------------------------------
\* f is defined up to n by its value v for 0 and by g for the successors.
Follows(f, n, v, g) ==
  f[0] = v /\ \A i \in Nat : i < n => f[i + 1] = g[<<i, f[i]>>]

LEMMA FollowsOnce ==
  ASSUME NEW v, NEW g, NEW f, NEW h, NEW n \in Nat, Follows(f, n, v, g), Follows(h, n, v, g)
  PROVE  \A i \in 0 .. n : f[i] = h[i]
<1> DEFINE T == {i \in Nat : i <= n => f[i] = h[i]}
<1>1. 0 \in T BY DEF Follows
<1>2. ASSUME NEW i \in Nat, i \in T PROVE i + 1 \in T
  <2>1. SUFFICES ASSUME i + 1 <= n PROVE f[i + 1] = h[i + 1]
    OBVIOUS
  <2>2. i < n /\ f[i] = h[i] BY <1>2, <2>1
  <2>3. f[i + 1] = g[<<i, f[i]>>] BY <2>2 DEF Follows
  <2>4. h[i + 1] = g[<<i, h[i]>>] BY <2>2 DEF Follows
  <2> QED BY <2>2, <2>3, <2>4
<1>3. \A i \in Nat : i \in T
  <2> HIDE DEF T
  <2> QED BY <1>1, <1>2, SetInduction
<1> QED BY <1>3

LEMMA FollowsSomewhere ==
  ASSUME NEW V, NEW v \in V, NEW g \in [Nat \X V -> V]
  PROVE  \A n \in Nat : \E f \in [0 .. n -> V] : Follows(f, n, v, g)
<1> DEFINE T == {n \in Nat : \E f \in [0 .. n -> V] : Follows(f, n, v, g)}
<1>1. 0 \in T
  <2>1. [i \in 0 .. 0 |-> v] \in [0 .. 0 -> V] OBVIOUS
  <2>2. Follows([i \in 0 .. 0 |-> v], 0, v, g) BY DEF Follows
  <2> QED BY <2>1, <2>2
<1>2. ASSUME NEW n \in Nat, n \in T PROVE n + 1 \in T
  <2>1. PICK f \in [0 .. n -> V] : Follows(f, n, v, g) BY <1>2
  <2> DEFINE h == [i \in 0 .. n + 1 |-> IF i = n + 1 THEN g[<<n, f[n]>>] ELSE f[i]]
  <2>2. h \in [0 .. n + 1 -> V] OBVIOUS
  <2>3. h[0] = v BY <2>1 DEF Follows
  <2>4. ASSUME NEW i \in Nat, i < n + 1 PROVE h[i + 1] = g[<<i, h[i]>>]
    <3>1. CASE i = n
      <4>1. h[i + 1] = g[<<i, f[i]>>] /\ h[i] = f[i] BY <3>1
      <4> QED BY <4>1
    <3>2. CASE i < n
      <4>1. f[i + 1] = g[<<i, f[i]>>] BY <2>1, <3>2 DEF Follows
      <4>2. h[i + 1] = f[i + 1] /\ h[i] = f[i] BY <3>2
      <4> QED BY <4>1, <4>2
    <3> QED BY <2>4, <3>1, <3>2
  <2>5. Follows(h, n + 1, v, g)
    <3> HIDE DEF h
    <3> QED BY <2>3, <2>4 DEF Follows
  <2> QED BY <2>2, <2>5
<1>3. \A n \in Nat : n \in T
  <2> HIDE DEF T
  <2> QED BY <1>1, <1>2, SetInduction
<1> QED BY <1>3

\* f is v at 0 and, at n + 1, g of n and of its value at n.
Computes(f, v, g) == f[0] = v /\ \A n \in Nat : f[n + 1] = g[<<n, f[n]>>]

LEMMA Recursion ==
  ASSUME NEW V, NEW v \in V, NEW g \in [Nat \X V -> V]
  PROVE  \E f \in [Nat -> V] : Computes(f, v, g)
<1> DEFINE Up(n) == CHOOSE f \in [0 .. n -> V] : Follows(f, n, v, g)
           F == [n \in Nat |-> Up(n)[n]]
<1>1. ASSUME NEW n \in Nat PROVE Up(n) \in [0 .. n -> V] /\ Follows(Up(n), n, v, g)
  BY FollowsSomewhere
<1> HIDE DEF Up
<1>2. F \in [Nat -> V] BY <1>1
<1>3. F[0] = v BY <1>1 DEF Follows
<1>4. ASSUME NEW n \in Nat PROVE F[n + 1] = g[<<n, F[n]>>]
  <2>1. Follows(Up(n + 1), n, v, g) BY <1>1 DEF Follows
  <2>2. Up(n)[n] = Up(n + 1)[n] BY <1>1, <2>1, FollowsOnce
  <2>3. Up(n + 1)[n + 1] = g[<<n, Up(n + 1)[n]>>] BY <1>1 DEF Follows
  <2> QED BY <2>2, <2>3
<1>5. Computes(F, v, g)
  <2> HIDE DEF F
  <2> QED BY <1>3, <1>4 DEF Computes
<1> QED BY <1>2, <1>5
------------------------------------------------------------------------------
(* Subsequences                                                              *)

\* The function of which Filtered(s, S) is the value at Len(s).
UpToStep(s, S, f, n) == IF s[n] \in S THEN Append(f[n - 1], s[n]) ELSE f[n - 1]
UpTo(s, S) ==
  CHOOSE f : f = [n \in 0 .. Len(s) |-> IF n = 0 THEN << >> ELSE UpToStep(s, S, f, n)]

LEMMA FilteredIsUpTo == \A s, S : Filtered(s, S) = UpTo(s, S)[Len(s)]
BY Zenon DEF Filtered, UpTo, UpToStep

LEMMA UpToFacts ==
  ASSUME NEW E, NEW s \in Seq(E), NEW S
  PROVE  /\ UpTo(s, S) \in [0 .. Len(s) -> Seq(E)]
         /\ UpTo(s, S)[0] = << >>
         /\ \A n \in 1 .. Len(s) : UpTo(s, S)[n] = UpToStep(s, S, UpTo(s, S), n)
<1>0. PICK v \in Seq(E) : v = << >>
  <2>1. << >> \in Seq(E) OBVIOUS
  <2> QED BY <2>1
<1> DEFINE Good(h) == h = [n \in 0 .. Len(s) |-> IF n = 0 THEN v ELSE UpToStep(s, S, h, n)]
<1>1. \E f : /\ f = [n \in 0 .. Len(s) |-> f[n]] /\ f[0] = v
             /\ \A n \in 1 .. Len(s) : f[n] = UpToStep(s, S, f, n)
  <2> DEFINE g == [p \in Nat \X Seq(E) |->
                     IF p[1] < Len(s) /\ s[p[1] + 1] \in S
                     THEN Append(p[2], s[p[1] + 1]) ELSE p[2]]
  <2>0. \A n \in 1 .. Len(s) :
           n - 1 \in Nat /\ n - 1 < Len(s) /\ (n - 1) + 1 = n
    OBVIOUS
  <2>1. g \in [Nat \X Seq(E) -> Seq(E)]
    OBVIOUS
  <2>2. PICK F \in [Nat -> Seq(E)] : Computes(F, v, g)
    <3> HIDE DEF g
    <3> QED BY <2>1, Recursion
  <2>3. PICK f : f = [n \in 0 .. Len(s) |-> F[n]]
    OBVIOUS
  <2>4. ASSUME NEW n \in 1 .. Len(s) PROVE f[n] = UpToStep(s, S, f, n)
    <3>1. n - 1 \in Nat /\ n - 1 < Len(s) /\ (n - 1) + 1 = n
      <4> HIDE DEF g, Good
      <4> QED BY <2>0
    <3>2. F[n] = g[<<n - 1, F[n - 1]>>] BY <2>2, <3>1 DEF Computes
    <3>3. f[n - 1] = F[n - 1] /\ f[n] = F[n] BY <2>3
    <3>4. PICK a : a = F[n - 1] OBVIOUS
    <3>5. <<n - 1, a>> \in Nat \X Seq(E) BY <2>2, <3>1, <3>4
    <3>6. g[<<n - 1, a>>] = IF s[n] \in S THEN Append(a, s[n]) ELSE a
      BY <3>1, <3>5
    <3> HIDE DEF g
    <3> QED BY <3>2, <3>3, <3>4, <3>6 DEF UpToStep
  <2>5. f[0] = v BY <2>2, <2>3 DEF Computes
  <2>6. f = [n \in 0 .. Len(s) |-> f[n]] BY <2>3
  <2> QED BY <2>4, <2>5, <2>6
<1>2. PICK f : /\ f = [n \in 0 .. Len(s) |-> f[n]] /\ f[0] = v
               /\ \A n \in 1 .. Len(s) : f[n] = UpToStep(s, S, f, n)
  BY <1>1
<1>3. f = [n \in 0 .. Len(s) |-> IF n = 0 THEN v ELSE UpToStep(s, S, f, n)]
  <2>1. \A n \in 0 .. Len(s) :
           f[n] = IF n = 0 THEN v ELSE UpToStep(s, S, f, n)
    BY <1>2
  <2> QED BY <1>2, <2>1, Zenon
<1>4. Good(f) BY <1>3
<1>5. UpTo(s, S) = CHOOSE h : Good(h)
  BY <1>0, Zenon DEF UpTo
<1>6. Good(UpTo(s, S))
  <2> HIDE DEF Good
  <2> QED BY <1>4, <1>5
<1>7. PICK k : k = UpTo(s, S) OBVIOUS
<1>8. k = [n \in 0 .. Len(s) |-> IF n = 0 THEN v ELSE UpToStep(s, S, k, n)]
  BY <1>6, <1>7
<1>9. /\ k = [n \in 0 .. Len(s) |-> k[n]] /\ k[0] = v
      /\ \A n \in 1 .. Len(s) : k[n] = UpToStep(s, S, k, n)
  <2>1. \A n \in 0 .. Len(s) : k[n] = IF n = 0 THEN v ELSE UpToStep(s, S, k, n)
    BY <1>8
  <2>2. 0 \in 0 .. Len(s) /\ \A n \in 1 .. Len(s) : n \in 0 .. Len(s) /\ n # 0
    OBVIOUS
  <2>3. k = [n \in 0 .. Len(s) |-> k[n]] BY <1>8
  <2> QED BY <2>1, <2>2, <2>3
<1>10. \A n \in Nat : n <= Len(s) => k[n] \in Seq(E)
  <2> DEFINE T == {n \in Nat : n <= Len(s) => k[n] \in Seq(E)}
  <2>1. 0 \in T BY <1>9
  <2>2. ASSUME NEW n \in Nat, n \in T PROVE n + 1 \in T
    <3>1. SUFFICES ASSUME n + 1 <= Len(s) PROVE k[n + 1] \in Seq(E)
      OBVIOUS
    <3>2. k[n] \in Seq(E) /\ n + 1 \in 1 .. Len(s) /\ (n + 1) - 1 = n
      BY <2>2, <3>1
    <3>3. k[n + 1] = IF s[n + 1] \in S THEN Append(k[n], s[n + 1]) ELSE k[n]
      BY <1>9, <3>2 DEF UpToStep
    <3>4. s[n + 1] \in E BY <3>2
    <3> QED BY <3>2, <3>3, <3>4
  <2>3. \A n \in Nat : n \in T
    <3> HIDE DEF T
    <3> QED BY <2>1, <2>2, SetInduction
  <2> QED BY <2>3
<1> QED
  BY <1>0, <1>7, <1>9, <1>10

\* The value at n depends on the first n elements only.
Alike(s, S, r, R, m) ==
  /\ m <= Len(s) /\ m <= Len(r)
  /\ \A i \in 1 .. m : s[i] = r[i] /\ (s[i] \in S <=> r[i] \in R)

LEMMA UpToSame ==
  ASSUME NEW E, NEW s \in Seq(E), NEW r \in Seq(E), NEW S, NEW R,
         NEW m \in Nat, Alike(s, S, r, R, m)
  PROVE  UpTo(s, S)[m] = UpTo(r, R)[m]
<1> USE DEF Alike
<1> DEFINE T == {n \in Nat : n <= m => UpTo(s, S)[n] = UpTo(r, R)[n]}
<1>1. 0 \in T BY UpToFacts
<1>2. ASSUME NEW n \in Nat, n \in T PROVE n + 1 \in T
  <2>1. SUFFICES ASSUME n + 1 <= m PROVE UpTo(s, S)[n + 1] = UpTo(r, R)[n + 1]
    OBVIOUS
  <2>2. /\ n + 1 \in 1 .. m /\ (n + 1) - 1 = n
        /\ n + 1 \in 1 .. Len(s) /\ n + 1 \in 1 .. Len(r)
        /\ UpTo(s, S)[n] = UpTo(r, R)[n]
    BY <1>2, <2>1
  <2>3. UpTo(s, S)[n + 1] = UpToStep(s, S, UpTo(s, S), n + 1) BY <2>2, UpToFacts
  <2>4. UpTo(r, R)[n + 1] = UpToStep(r, R, UpTo(r, R), n + 1) BY <2>2, UpToFacts
  <2> QED BY <2>2, <2>3, <2>4 DEF UpToStep
<1>3. \A n \in Nat : n \in T
  <2> HIDE DEF T
  <2> QED BY <1>1, <1>2, SetInduction
<1> QED BY <1>3

LEMMA FilteredType ==
  ASSUME NEW E, NEW s \in Seq(E), NEW S
  PROVE  Filtered(s, S) \in Seq(E)
<1>1. Len(s) \in 0 .. Len(s) OBVIOUS
<1> QED BY <1>1, FilteredIsUpTo, UpToFacts

LEMMA FilteredEmpty == \A S : Filtered(<< >>, S) = << >>
<1> TAKE S
<1>1. << >> \in Seq({}) /\ Len(<< >>) = 0 OBVIOUS
<1>2. UpTo(<< >>, S)[0] = << >> BY <1>1, UpToFacts
<1> QED BY <1>1, <1>2, FilteredIsUpTo

LEMMA FilteredAppend ==
  ASSUME NEW E, NEW s \in Seq(E), NEW S, NEW e \in E
  PROVE  Filtered(Append(s, e), S) =
           IF e \in S THEN Append(Filtered(s, S), e) ELSE Filtered(s, S)
<1>1. PICK r \in Seq(E) : r = Append(s, e)
  <2>1. Append(s, e) \in Seq(E) OBVIOUS
  <2> QED BY <2>1
<1>2. /\ Len(s) \in Nat /\ Len(r) = Len(s) + 1 /\ r[Len(r)] = e
      /\ \A i \in 1 .. Len(s) : s[i] = r[i]
  BY <1>1
<1>3. UpTo(s, S)[Len(s)] = UpTo(r, S)[Len(s)]
  <2>1. Alike(s, S, r, S, Len(s)) BY <1>2 DEF Alike
  <2> QED BY <1>2, <2>1, UpToSame
<1>4. UpTo(r, S)[Len(r)] = UpToStep(r, S, UpTo(r, S), Len(r))
  <2>1. Len(r) \in 1 .. Len(r) BY <1>2
  <2> QED BY <2>1, UpToFacts
<1>5. Len(r) - 1 = Len(s) BY <1>2
<1> QED BY <1>1, <1>2, <1>3, <1>4, <1>5, FilteredIsUpTo DEF UpToStep

LEMMA AppendOfConcat ==
  ASSUME NEW E, NEW s \in Seq(E), NEW r \in Seq(E), NEW e \in E
  PROVE  s \o Append(r, e) = Append(s \o r, e)
<1>1. <<e>> \in Seq(E) /\ s \o r \in Seq(E) OBVIOUS
<1>2. Append(s \o r, e) = (s \o r) \o <<e>> BY <1>1, AppendIsConcat
<1>3. Append(r, e) = r \o <<e>> BY AppendIsConcat
<1> QED BY <1>1, <1>2, <1>3, ConcatAssociative

LEMMA FilteredTail ==
  ASSUME NEW E, NEW s \in Seq(E), NEW S, s # << >>
  PROVE  Filtered(s, S) =
           IF Head(s) \in S THEN <<Head(s)>> \o Filtered(Tail(s), S)
                            ELSE Filtered(Tail(s), S)
<1>0. PICK first : first \in Seq(E) /\ first = IF Head(s) \in S THEN <<Head(s)>> ELSE << >>
  <2>1. Head(s) \in E OBVIOUS
  <2>2. << >> \in Seq(E) /\ <<Head(s)>> \in Seq(E) BY <2>1
  <2>3. (IF Head(s) \in S THEN <<Head(s)>> ELSE << >>) \in Seq(E) BY <2>2
  <2> QED BY <2>3
<1>1. PICK r \in Seq(E) : r = Tail(s)
  <2>1. Tail(s) \in Seq(E) OBVIOUS
  <2> QED BY <2>1
<1>2. /\ Len(r) \in Nat /\ Len(s) = Len(r) + 1 /\ Head(s) = s[1] /\ s[1] \in E
      /\ \A i \in 1 .. Len(r) : r[i] = s[i + 1]
  BY <1>1
<1> DEFINE T == {n \in Nat : n <= Len(r) => UpTo(s, S)[n + 1] = first \o UpTo(r, S)[n]}
<1>3. 0 \in T
  <2>1. 1 \in 1 .. Len(s) /\ 1 - 1 = 0 BY <1>2
  <2>2. UpTo(s, S)[1] = UpToStep(s, S, UpTo(s, S), 1) BY <2>1, UpToFacts
  <2>3. UpTo(s, S)[0] = << >> /\ UpTo(r, S)[0] = << >> BY UpToFacts
  <2>4. Append(<< >>, s[1]) = <<s[1]>> BY <1>2
  <2>5. UpTo(s, S)[1] = first BY <1>0, <1>2, <2>1, <2>2, <2>3, <2>4 DEF UpToStep
  <2>6. first \o << >> = first BY <1>0, ConcatEmptySeq
  <2>7. UpTo(s, S)[0 + 1] = first \o UpTo(r, S)[0] BY <2>3, <2>5, <2>6
  <2> QED BY <2>7
<1>4. ASSUME NEW n \in Nat, n \in T PROVE n + 1 \in T
  <2>1. ASSUME n + 1 <= Len(r)
        PROVE  UpTo(s, S)[(n + 1) + 1] = first \o UpTo(r, S)[n + 1]
    <3>2. /\ n + 1 \in 1 .. Len(r) /\ (n + 1) - 1 = n
          /\ (n + 1) + 1 \in 1 .. Len(s) /\ ((n + 1) + 1) - 1 = n + 1
          /\ n \in 0 .. Len(r) /\ n <= Len(r)
      BY <1>2, <2>1
    <3>3. UpTo(s, S)[n + 1] = first \o UpTo(r, S)[n] BY <1>4, <3>2
    <3>4. UpTo(s, S)[(n + 1) + 1] = UpToStep(s, S, UpTo(s, S), (n + 1) + 1) BY <3>2, UpToFacts
    <3>5. UpTo(r, S)[n + 1] = UpToStep(r, S, UpTo(r, S), n + 1) BY <3>2, UpToFacts
    <3>6. UpTo(r, S)[n] \in Seq(E) BY <3>2, UpToFacts
    <3>7. r[n + 1] = s[(n + 1) + 1] /\ r[n + 1] \in E BY <1>2, <3>2
    <3>8. first \o Append(UpTo(r, S)[n], r[n + 1]) = Append(first \o UpTo(r, S)[n], r[n + 1])
      <4>1. PICK w : w = UpTo(r, S)[n] OBVIOUS
      <4>2. PICK x : x = r[n + 1] OBVIOUS
      <4>3. w \in Seq(E) /\ x \in E /\ first \in Seq(E) BY <1>0, <3>6, <3>7, <4>1, <4>2
      <4>4. first \o Append(w, x) = Append(first \o w, x)
        BY <4>3, AppendOfConcat
      <4> QED BY <4>1, <4>2, <4>4
    <3> QED BY <3>2, <3>3, <3>4, <3>5, <3>7, <3>8 DEF UpToStep
  <2> QED BY <2>1
<1>5. \A n \in Nat : n \in T
  <2> HIDE DEF T
  <2> QED BY <1>3, <1>4, SetInduction
<1>6. UpTo(s, S)[Len(s)] = first \o UpTo(r, S)[Len(r)] BY <1>2, <1>5
<1>7. UpTo(r, S)[Len(r)] \in Seq(E)
  <2>1. Len(r) \in 0 .. Len(r) BY <1>2
  <2> QED BY <2>1, UpToFacts
<1>8. << >> \o UpTo(r, S)[Len(r)] = UpTo(r, S)[Len(r)] BY <1>7
<1> QED BY <1>0, <1>1, <1>6, <1>8, FilteredIsUpTo

\* Two sets of which the elements of s are alike give the same subsequence.
LEMMA FilteredSame ==
  ASSUME NEW E, NEW s \in Seq(E), NEW S, NEW R,
         \A i \in 1 .. Len(s) : s[i] \in S <=> s[i] \in R
  PROVE  Filtered(s, S) = Filtered(s, R)
<1>1. PICK m \in Nat : m = Len(s) OBVIOUS
<1>2. Alike(s, S, s, R, m) BY <1>1 DEF Alike
<1>4. UpTo(s, S)[m] = UpTo(s, R)[m] BY <1>2, UpToSame
<1> QED BY <1>1, <1>4, FilteredIsUpTo

\* It has the elements of s that are in S, and no other.
LEMMA FilteredElements ==
  ASSUME NEW E, NEW s \in Seq(E), NEW S
  PROVE  \A e : (\E i \in DOMAIN Filtered(s, S) : Filtered(s, S)[i] = e)
                <=> e \in S /\ \E i \in DOMAIN s : s[i] = e
<1> TAKE e
<1> DEFINE In(q) == \E i \in 1 .. Len(q) : q[i] = e
           T == {n \in Nat : n <= Len(s) =>
                   (In(UpTo(s, S)[n]) <=> e \in S /\ \E i \in 1 .. n : s[i] = e)}
<1>1. 0 \in T
  <2>1. UpTo(s, S)[0] = << >> BY UpToFacts
  <2> QED BY <2>1
<1>2. ASSUME NEW n \in Nat, n \in T PROVE n + 1 \in T
  <2>1. SUFFICES ASSUME n + 1 <= Len(s)
                 PROVE  In(UpTo(s, S)[n + 1]) <=> e \in S /\ \E i \in 1 .. n + 1 : s[i] = e
    OBVIOUS
  <2>2. /\ n + 1 \in 1 .. Len(s) /\ (n + 1) - 1 = n /\ n \in 0 .. Len(s)
        /\ In(UpTo(s, S)[n]) <=> e \in S /\ \E i \in 1 .. n : s[i] = e
    BY <1>2, <2>1
  <2>3. PICK u \in Seq(E) : u = UpTo(s, S)[n] BY <2>2, UpToFacts
  <2>4. UpTo(s, S)[n + 1] = IF s[n + 1] \in S THEN Append(u, s[n + 1]) ELSE u
    BY <2>2, <2>3, UpToFacts DEF UpToStep
  <2>5. PICK x \in E : x = s[n + 1] BY <2>2
  <2>6. In(Append(u, x)) <=> In(u) \/ x = e
    OBVIOUS
  <2>7. (\E i \in 1 .. n + 1 : s[i] = e) <=> (\E i \in 1 .. n : s[i] = e) \/ x = e
    BY <2>5
  <2> HIDE DEF In
  <2> QED BY <2>2, <2>3, <2>4, <2>5, <2>6, <2>7
<1>3. \A n \in Nat : n \in T
  <2> HIDE DEF T
  <2> QED BY <1>1, <1>2, SetInduction
<1>4. In(UpTo(s, S)[Len(s)]) <=> e \in S /\ \E i \in 1 .. Len(s) : s[i] = e
  <2>1. Len(s) \in Nat /\ Len(s) <= Len(s) OBVIOUS
  <2> HIDE DEF In
  <2> QED BY <1>3, <2>1
<1>5. PICK f \in Seq(E) : f = Filtered(s, S) BY FilteredType
<1>6. DOMAIN f = 1 .. Len(f) /\ DOMAIN s = 1 .. Len(s) OBVIOUS
<1> QED BY <1>4, <1>5, <1>6, FilteredIsUpTo

------------------------------------------------------------------------------
(* Powers of two and their multiples                                         *)

LEMMA Pow2Facts ==
  /\ Pow2[0] = 1
  /\ \A k \in Nat : Pow2[k] \in Nat \ {0} /\ Pow2[k + 1] = 2 * Pow2[k]
<1> DEFINE g == [p \in Nat \X Nat |-> 2 * p[2]]
           Good(h) == h = [k \in Nat |-> IF k = 0 THEN 1 ELSE 2 * h[k - 1]]
<1>1. \E f : Good(f)
  <2>1. g \in [Nat \X Nat -> Nat] OBVIOUS
  <2>2. PICK f \in [Nat -> Nat] : Computes(f, 1, g)
    <3> HIDE DEF g
    <3> QED BY <2>1, Recursion
  <2>3. f[0] = 1 BY <2>2 DEF Computes
  <2>4. \A k \in Nat : f[k + 1] = 2 * f[k] BY <2>2 DEF Computes
  <2>5. \A k \in Nat : f[k] = IF k = 0 THEN 1 ELSE 2 * f[k - 1]
    <3>1. ASSUME NEW k \in Nat, k # 0 PROVE f[k] = 2 * f[k - 1]
      <4>1. PICK j \in Nat : k = j + 1 BY <3>1
      <4>2. k - 1 = j BY <4>1
      <4> QED BY <2>4, <4>1, <4>2
    <3> QED BY <2>3, <3>1
  <2>6. f = [k \in Nat |-> f[k]] OBVIOUS
  <2>7. f = [k \in Nat |-> IF k = 0 THEN 1 ELSE 2 * f[k - 1]]
    BY <2>5, <2>6, Zenon
  <2> QED BY <2>7
<1>2. Pow2 = CHOOSE h : Good(h) BY Zenon DEF Pow2
<1>3. Good(Pow2)
  <2> HIDE DEF Good
  <2> QED BY <1>1, <1>2
<1>4. Pow2 = [k \in Nat |-> IF k = 0 THEN 1 ELSE 2 * Pow2[k - 1]] BY <1>3
<1>5. \A k \in Nat : Pow2[k] = IF k = 0 THEN 1 ELSE 2 * Pow2[k - 1]
  BY <1>4, Zenon
<1>6. Pow2[0] = 1 BY <1>5
<1>7. \A k \in Nat : Pow2[k + 1] = 2 * Pow2[k]
  <2> TAKE k \in Nat
  <2>1. k + 1 \in Nat /\ k + 1 # 0 /\ (k + 1) - 1 = k OBVIOUS
  <2> HIDE DEF Good
  <2> QED BY <1>5, <2>1
<1>8. \A k \in Nat : k \in {n \in Nat : Pow2[n] \in Nat \ {0}}
  <2> DEFINE T == {n \in Nat : Pow2[n] \in Nat \ {0}}
  <2>1. 0 \in T BY <1>6
  <2>2. \A n \in Nat : n \in T => n + 1 \in T BY <1>7
  <2> HIDE DEF T
  <2>3. \A k \in Nat : k \in T BY <2>1, <2>2, SetInduction
  <2> QED BY <2>3 DEF T
<1> QED BY <1>6, <1>7, <1>8

\* a is a multiple of p.
Multiple(a, p) == \E q \in Int : a = q * p

LEMMA MultipleFacts ==
  ASSUME NEW p \in Nat \ {0}, NEW a \in Int, NEW b \in Int,
         Multiple(a, p), Multiple(b, p)
  PROVE  /\ Multiple(a + b, p) /\ Multiple(a - b, p)
         /\ a < b => a + p <= b
<1>1. PICK q \in Int : a = q * p BY DEF Multiple
<1>2. PICK r \in Int : b = r * p BY DEF Multiple
<1>3. \A s \in Int : Multiple(s * p, p) BY DEF Multiple
<1>5. a + b = (q + r) * p /\ a - b = (q - r) * p BY <1>1, <1>2
<1>6. q + r \in Int /\ q - r \in Int OBVIOUS
<1>7. Multiple((q + r) * p, p) /\ Multiple((q - r) * p, p) BY <1>3, <1>6
<1>4. ASSUME a < b PROVE a + p <= b
  <2>1. q < r BY <1>1, <1>2, <1>4
  <2>2. q + 1 <= r BY <2>1
  <2>3. (q + 1) * p <= r * p BY <2>2
  <2> QED BY <1>1, <1>2, <2>3
<1> QED BY <1>4, <1>5, <1>7

LEMMA MultipleOfMultiple ==
  ASSUME NEW p \in Nat \ {0}, NEW a \in Int, NEW c \in Int,
         Multiple(a, c), Multiple(c, p)
  PROVE  Multiple(a, p)
<1>1. PICK q \in Int : a = q * c BY DEF Multiple
<1>2. PICK r \in Int : c = r * p BY DEF Multiple
<1>3. a = (q * r) * p /\ q * r \in Int BY <1>1, <1>2
<1>4. PICK s \in Int : a = s * p BY <1>3
<1> QED BY <1>4 DEF Multiple

LEMMA ZeroAndSelf ==
  ASSUME NEW p \in Nat \ {0} PROVE Multiple(0, p) /\ Multiple(p, p)
<1>1. 0 = 0 * p /\ p = 1 * p OBVIOUS
<1> QED BY <1>1 DEF Multiple

\* a % p tells multiples, and what is left of a below them.
LEMMA Remainder ==
  ASSUME NEW p \in Nat \ {0}, NEW a \in Int
  PROVE  /\ a % p \in 0 .. p - 1
         /\ Multiple(a - (a % p), p)
         /\ (a % p = 0) <=> Multiple(a, p)
         /\ \A t \in Int : Multiple(t, p) /\ t <= a /\ a < t + p => t = a - (a % p)
<1>1. a % p \in 0 .. p - 1 /\ a = (a \div p) * p + (a % p) /\ a \div p \in Int
  OBVIOUS
<1>2. Multiple(a - (a % p), p)
  <2>1. a - (a % p) = (a \div p) * p BY <1>1
  <2> QED BY <1>1, <2>1 DEF Multiple
<1>3. ASSUME NEW t \in Int, Multiple(t, p), t <= a, a < t + p
      PROVE  t = a - (a % p)
  <2>1. PICK u \in Int : u = a - (a % p) BY <1>1
  <2>2. Multiple(u, p) /\ u <= a /\ a < u + p BY <1>1, <1>2, <2>1
  <2>3. ~(t < u) BY <1>3, <2>2, MultipleFacts
  <2>4. ~(u < t) BY <1>3, <2>2, MultipleFacts
  <2> QED BY <2>1, <2>3, <2>4
<1>4. Multiple(a, p) => a % p = 0
  <2>1. Multiple(a, p) => a = a - (a % p) BY <1>3
  <2> QED BY <1>1, <2>1
<1>5. a % p = 0 => Multiple(a, p) BY <1>2
<1> QED BY <1>1, <1>2, <1>3, <1>4, <1>5

\* A quotient is what a floor is a multiple by.
LEMMA Quotient ==
  ASSUME NEW p \in Nat \ {0}, NEW q \in Int PROVE (q * p) \div p = q
<1>1. PICK a \in Int : a = q * p OBVIOUS
<1>2. a % p = 0 BY <1>1, Remainder DEF Multiple
<1>3. a = (a \div p) * p + (a % p) /\ a \div p \in Int OBVIOUS
<1>4. PICK r \in Int : r = a \div p BY <1>3
<1>5. r * p = q * p BY <1>1, <1>2, <1>3, <1>4
<1>6. r = q BY <1>5
<1> QED BY <1>1, <1>4, <1>6

LEMMA Pow2Divides ==
  ASSUME NEW j \in Nat, NEW k \in Nat, j <= k
  PROVE  /\ Multiple(Pow2[k], Pow2[j]) /\ Pow2[j] <= Pow2[k]
         /\ j < k => 2 * Pow2[j] <= Pow2[k]
<1> DEFINE T == {n \in Nat : Multiple(Pow2[j + n], Pow2[j]) /\ Pow2[j] <= Pow2[j + n]}
<1>1. 0 \in T BY Pow2Facts, ZeroAndSelf
<1>2. ASSUME NEW n \in Nat, n \in T PROVE n + 1 \in T
  <2>1. PICK c \in Nat \ {0} : c = Pow2[j + n] BY Pow2Facts
  <2>2. PICK p \in Nat \ {0} : p = Pow2[j] BY Pow2Facts
  <2>3. Multiple(c, p) /\ p <= c BY <1>2, <2>1, <2>2
  <2>4. Pow2[j + (n + 1)] = c + c
    <3>1. j + (n + 1) = (j + n) + 1 /\ j + n \in Nat OBVIOUS
    <3>2. Pow2[(j + n) + 1] = 2 * c BY <2>1, <3>1, Pow2Facts
    <3> QED BY <3>1, <3>2
  <2>5. Multiple(c + c, p) /\ p <= c + c BY <2>3, MultipleFacts
  <2> QED BY <2>2, <2>4, <2>5
<1> HIDE DEF T
<1>3. \A n \in Nat : n \in T BY <1>1, <1>2, SetInduction
<1>4. k - j \in T /\ j + (k - j) = k BY <1>3
<1>5. Multiple(Pow2[k], Pow2[j]) /\ Pow2[j] <= Pow2[k] BY <1>4 DEF T
<1>6. ASSUME j < k PROVE 2 * Pow2[j] <= Pow2[k]
  <2>1. PICK n \in Nat : k = j + (n + 1) /\ n \in T
    <3>1. (k - j) - 1 \in Nat /\ k = j + (((k - j) - 1) + 1) BY <1>6
    <3> QED BY <1>3, <3>1
  <2>2. Pow2[j] <= Pow2[j + n] BY <2>1 DEF T
  <2>3. j + n \in Nat /\ k = (j + n) + 1 BY <2>1
  <2>4. Pow2[k] = 2 * Pow2[j + n] BY <2>3, Pow2Facts
  <2> QED BY <2>2, <2>3, <2>4, Pow2Facts
<1> QED BY <1>5, <1>6

------------------------------------------------------------------------------
(* The lists of include/list.h                                               *)

IsHeap(h, Node) == h = [next |-> h.next, prev |-> h.prev]
                   /\ h.next \in [Node -> Node] /\ h.prev \in [Node -> Node]

\* INIT_LIST_HEAD makes of every node a ring of its own.
THEOREM InitLinks ==
  ASSUME NEW Node, NEW n \in Node
  PROVE  /\ Linked(INIT_LIST_HEAD(Node), {n})
         /\ list_empty(INIT_LIST_HEAD(Node), n)
BY DEF Linked, INIT_LIST_HEAD, list_empty

\* __list_add puts a new node between two neighbours of a ring, which is then
\* linked with the new node.
LEMMA InsertLinks ==
  ASSUME NEW Node, NEW h, IsHeap(h, Node), NEW S \in SUBSET Node, Linked(h, S),
         NEW cnew \in Node \ S, NEW prev \in S
  PROVE  Linked(Insert(h, cnew, prev, h.next[prev]), S \cup {cnew})
<1> DEFINE g == Insert(h, cnew, prev, h.next[prev])
           next == h.next[prev]
<1>1. next \in S /\ h.prev[next] = prev BY DEF Linked
<1>2. ASSUME NEW n \in Node
      PROVE  /\ g.next[n] = IF n = prev THEN cnew ELSE IF n = cnew THEN next ELSE h.next[n]
             /\ g.prev[n] = IF n = cnew THEN prev ELSE IF n = next THEN cnew ELSE h.prev[n]
  BY <1>1 DEF Insert, IsHeap
<1>3. ASSUME NEW n \in S \cup {cnew}
      PROVE  /\ g.next[n] \in S \cup {cnew} /\ g.prev[g.next[n]] = n
             /\ g.prev[n] \in S \cup {cnew} /\ g.next[g.prev[n]] = n
  <2> HIDE DEF g, next
  <2>1. \A k \in S : /\ h.next[k] \in S /\ h.prev[h.next[k]] = k
                     /\ h.prev[k] \in S /\ h.next[h.prev[k]] = k
    BY DEF Linked
  <2>2. next = h.next[prev] BY DEF next
  <2> QED BY <1>1, <1>2, <2>1, <2>2
<1> QED BY <1>3 DEF Linked

\* list_add and list_add_tail: the new node becomes the first or the last of
\* the ring of head.
THEOREM AddLinks ==
  ASSUME NEW Node, NEW h, IsHeap(h, Node), NEW S \in SUBSET Node, Linked(h, S),
         NEW cnew \in Node \ S, NEW head \in S
  PROVE  /\ Linked(list_add(h, cnew, head), S \cup {cnew})
         /\ list_add(h, cnew, head).next[head] = cnew
         /\ Linked(list_add_tail(h, cnew, head), S \cup {cnew})
         /\ list_add_tail(h, cnew, head).prev[head] = cnew
<1>1. Linked(list_add(h, cnew, head), S \cup {cnew})
  BY InsertLinks DEF list_add
<1>2. h.prev[head] \in S /\ h.next[h.prev[head]] = head BY DEF Linked
<1>3. Linked(list_add_tail(h, cnew, head), S \cup {cnew})
  BY <1>2, InsertLinks DEF list_add_tail
<1>4. /\ list_add(h, cnew, head).next[head] = cnew
      /\ list_add_tail(h, cnew, head).prev[head] = cnew
  BY <1>2 DEF list_add, list_add_tail, Insert, IsHeap
<1> QED BY <1>1, <1>3, <1>4

\* list_del takes a node out of its ring, of which the rest stays linked; a
\* ring of its own it was before, if the rest is empty.
THEOREM DelLinks ==
  ASSUME NEW Node, NEW h, IsHeap(h, Node), NEW S \in SUBSET Node, Linked(h, S),
         NEW entry \in S
  PROVE  Linked(list_del(h, entry), S \ {entry})
<1> DEFINE g == list_del(h, entry)
           before == h.prev[entry]
           after == h.next[entry]
<1>1. \A k \in S : /\ h.next[k] \in S /\ h.prev[h.next[k]] = k
                   /\ h.prev[k] \in S /\ h.next[h.prev[k]] = k
  BY DEF Linked
<1>2. ASSUME NEW n \in Node
      PROVE  /\ g.next[n] = IF n = before THEN after ELSE h.next[n]
             /\ g.prev[n] = IF n = after THEN before ELSE h.prev[n]
  BY <1>1 DEF list_del, IsHeap
<1>3. /\ before \in S /\ h.next[before] = entry /\ before = h.prev[entry]
      /\ after \in S /\ h.prev[after] = entry /\ after = h.next[entry]
  BY <1>1
<1>4. ASSUME NEW n \in S \ {entry}
      PROVE  /\ g.next[n] \in S \ {entry} /\ g.prev[g.next[n]] = n
             /\ g.prev[n] \in S \ {entry} /\ g.next[g.prev[n]] = n
  <2> HIDE DEF g, before, after
  <2>1. g.next[n] \in S \ {entry} /\ g.prev[g.next[n]] = n
    BY <1>1, <1>2, <1>3
  <2>2. g.prev[n] \in S \ {entry} /\ g.next[g.prev[n]] = n
    BY <1>1, <1>2, <1>3
  <2> QED BY <2>1, <2>2
<1> QED BY <1>4 DEF Linked
=============================================================================
