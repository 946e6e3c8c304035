---------------------------- MODULE TimersProofs ----------------------------
(***************************************************************************)
(* Proofs about Timers: no timer is lost or doubled in the wheel, the list *)
(* finds those that live, the thread keeps up with the time, and every     *)
(* timer rings in the tick it was set for, for every size of the levels,   *)
(* every number of timers and all periods.                                 *)
(***************************************************************************)
EXTENDS Timers, DataProofs, FiniteSetTheorems

------------------------------------------------------------------------------
(* The levels                                                                *)

LEMMA Pow2Sum == \A a, b \in Nat : Pow2[a + b] = Pow2[a] * Pow2[b]
<1> SUFFICES ASSUME NEW a \in Nat PROVE \A b \in Nat : Pow2[a + b] = Pow2[a] * Pow2[b]
  OBVIOUS
<1> DEFINE T == {b \in Nat : Pow2[a + b] = Pow2[a] * Pow2[b]}
<1>1. 0 \in T
  <2>1. a + 0 = a /\ Pow2[a] \in Nat BY Pow2Facts
  <2> QED BY <2>1, Pow2Facts
<1>2. ASSUME NEW b \in Nat, b \in T PROVE b + 1 \in T
  <2>1. PICK x \in Nat : x = Pow2[a] BY Pow2Facts
  <2>2. PICK y \in Nat : y = Pow2[b] BY Pow2Facts
  <2>3. Pow2[b + 1] = 2 * y BY <2>2, Pow2Facts
  <2>4. a + (b + 1) = (a + b) + 1 /\ a + b \in Nat OBVIOUS
  <2>5. Pow2[(a + b) + 1] = 2 * (x * y) BY <1>2, <2>1, <2>2, <2>4, Pow2Facts
  <2>6. 2 * (x * y) = x * (2 * y) OBVIOUS
  <2> QED BY <2>1, <2>3, <2>4, <2>5, <2>6
<1> HIDE DEF T
<1>3. \A b \in Nat : b \in T BY <1>1, <1>2, SetInduction
<1> QED BY <1>3 DEF T

\* The ticks of all slots of a level.
Span(n) == Size(n) * Weight[n]

LEMMA WheelFacts ==
  /\ Word \in Nat \ {0} /\ Sign \in Nat /\ Sign >= 4 /\ Word = 2 * Sign
  /\ Weight[1] = 1
  /\ \A n \in 1..5 : /\ Size(n) \in Nat \ {0} /\ Weight[n] \in Nat \ {0}
                     /\ Span(n) \in Nat \ {0}
  /\ \A n \in 1..4 : Weight[n + 1] = Span(n)
  /\ Word = Span(5) /\ Weight[5] <= Sign
<1> DEFINE r == TVR_BITS
           m == TVN_BITS
<1>1. r \in Nat \ {0} /\ m \in Nat \ {0} /\ WORD_BITS = r + 4 * m
  BY WheelAssumption
<1>2. WORD_BITS - 1 \in Nat /\ 2 <= WORD_BITS - 1 /\ WORD_BITS = (WORD_BITS - 1) + 1
      /\ WORD_BITS \in Nat
  BY <1>1
<1>3. Word \in Nat \ {0} /\ Sign \in Nat /\ Word = 2 * Sign
  <2> DEFINE k == WORD_BITS - 1
  <2>1. k \in Nat /\ WORD_BITS = k + 1 BY <1>2
  <2> HIDE DEF k
  <2>2. Sign = Pow2[k] BY DEF Sign, k
  <2> QED BY <2>1, <2>2, Pow2Facts DEF Word
<1>4. Sign >= 4
  <2>1. Pow2[2] <= Pow2[WORD_BITS - 1] BY <1>2, Pow2Divides
  <2>2. Pow2[2] = 4
    <3>1. Pow2[0 + 1] = 2 * Pow2[0] /\ Pow2[1 + 1] = 2 * Pow2[1] BY Pow2Facts
    <3> QED BY <3>1, Pow2Facts
  <2> QED BY <1>3, <2>1, <2>2 DEF Sign
<1>5. PICK R \in Nat \ {0} : R = Pow2[r] BY <1>1, Pow2Facts
<1>6. PICK N \in Nat \ {0} : N = Pow2[m] /\ 2 <= N
  <2>1. Pow2[1] <= Pow2[m] BY <1>1, Pow2Divides
  <2>2. Pow2[0 + 1] = 2 * Pow2[0] BY Pow2Facts
  <2> QED BY <1>1, <2>1, <2>2, Pow2Facts
<1>7. /\ Size(1) = R /\ Size(2) = N /\ Size(3) = N /\ Size(4) = N /\ Size(5) = N
      /\ \A n \in 1..5 : Size(n) \in Nat \ {0}
  BY <1>5, <1>6 DEF Size, TVR_SIZE, TVN_SIZE
<1>8. /\ Weight[1] = 1 /\ Weight[2] = Pow2[r] /\ Weight[3] = Pow2[r + m]
      /\ Weight[4] = Pow2[(r + m) + m] /\ Weight[5] = Pow2[((r + m) + m) + m]
      /\ WORD_BITS = (((r + m) + m) + m) + m
  <2>1. /\ r + (2 - 2) * m = r /\ r + (3 - 2) * m = r + m
        /\ r + (4 - 2) * m = (r + m) + m /\ r + (5 - 2) * m = ((r + m) + m) + m
        /\ WORD_BITS = (((r + m) + m) + m) + m
    BY <1>1
  <2> QED BY <2>1 DEF Weight
<1>9. /\ Weight[2] = R /\ Weight[3] = R * N /\ Weight[4] = (R * N) * N
      /\ Weight[5] = ((R * N) * N) * N /\ Word = (((R * N) * N) * N) * N
  <2>1. /\ r + m \in Nat /\ (r + m) + m \in Nat /\ ((r + m) + m) + m \in Nat
        /\ r \in Nat /\ m \in Nat
    BY <1>1
  <2> HIDE DEF r, m
  <2>2. \A k \in Nat : Pow2[k + m] = Pow2[k] * N BY <2>1, <1>6, Pow2Sum
  <2>3. Pow2[r + m] = R * N BY <2>1, <2>2, <1>5
  <2>4. Pow2[(r + m) + m] = (R * N) * N BY <2>1, <2>2, <2>3, Zenon
  <2>5. Pow2[((r + m) + m) + m] = ((R * N) * N) * N BY <2>1, <2>2, <2>4, Zenon
  <2>6. Pow2[(((r + m) + m) + m) + m] = (((R * N) * N) * N) * N BY <2>1, <2>2, <2>5, Zenon
  <2> QED BY <1>5, <1>8, <2>3, <2>4, <2>5, <2>6 DEF Word
<1> HIDE DEF r, m
<1>10. \A x, y \in Nat \ {0} : x * y \in Nat \ {0} /\ x * y = y * x OBVIOUS
<1>11. R * N \in Nat \ {0} /\ (R * N) * N \in Nat \ {0} /\ ((R * N) * N) * N \in Nat \ {0}
       /\ (((R * N) * N) * N) * N \in Nat \ {0}
  BY <1>10
<1>12. \A n \in 1..5 : n = 1 \/ n = 2 \/ n = 3 \/ n = 4 \/ n = 5 OBVIOUS
<1>13. \A n \in 1..5 : Weight[n] \in Nat \ {0}
  BY <1>8, <1>9, <1>11, <1>12
<1>14. \A n \in 1..5 : Span(n) \in Nat \ {0}
  BY <1>7, <1>10, <1>13, Zenon DEF Span
<1>15. /\ Span(1) = R /\ Span(2) = R * N /\ Span(3) = (R * N) * N
       /\ Span(4) = ((R * N) * N) * N /\ Span(5) = (((R * N) * N) * N) * N
  <2>1. Span(1) = R BY <1>7, <1>8 DEF Span
  <2>2. Span(2) = R * N BY <1>7, <1>9, <1>10 DEF Span
  <2>3. Span(3) = (R * N) * N BY <1>7, <1>9, <1>10, <1>11 DEF Span
  <2>4. Span(4) = ((R * N) * N) * N BY <1>7, <1>9, <1>10, <1>11 DEF Span
  <2>5. Span(5) = (((R * N) * N) * N) * N BY <1>7, <1>9, <1>10, <1>11 DEF Span
  <2> QED BY <2>1, <2>2, <2>3, <2>4, <2>5
<1>16. \A n \in 1..4 : Weight[n + 1] = Span(n)
  <2>1. \A n \in 1..4 : n = 1 \/ n = 2 \/ n = 3 \/ n = 4 OBVIOUS
  <2>2. Weight[1 + 1] = Span(1) /\ Weight[2 + 1] = Span(2) /\ Weight[3 + 1] = Span(3)
        /\ Weight[4 + 1] = Span(4)
    BY <1>9, <1>15
  <2> QED BY <2>1, <2>2, Zenon
<1>17. Weight[5] <= Sign
  <2>1. PICK y \in Nat \ {0} : y = ((R * N) * N) * N BY <1>11
  <2>2. 2 * Sign = y * N BY <1>3, <1>9, <2>1
  <2>3. 2 * y <= y * N
    <3>1. y * (N - 2) >= 0 BY <1>6
    <3>2. y * (N - 2) = y * N - 2 * y OBVIOUS
    <3> QED BY <3>1, <3>2
  <2>4. y <= Sign BY <1>3, <2>2, <2>3
  <2> QED BY <1>9, <2>1, <2>4
<1> QED BY <1>3, <1>4, <1>7, <1>8, <1>9, <1>13, <1>14, <1>15, <1>16, <1>17

LEMMA SpanDivides ==
  /\ \A m, n \in 1..5 : m <= n => Multiple(Span(n), Span(m))
  /\ \A n \in 1..5 : Multiple(Word, Span(n))
  /\ \A n \in 1..5 : Multiple(Span(n), Weight[n])
<1>1. \A n \in 1..5 : Multiple(Span(n), Weight[n])
  BY WheelFacts DEF Multiple, Span
<1>2. \A n \in 1..4 : Multiple(Span(n + 1), Span(n))
  BY <1>1, WheelFacts
<1>3. \A n \in 1..5 : Multiple(Span(n), Span(n))
  BY WheelFacts, ZeroAndSelf
<1>4. ASSUME NEW m \in 1..5, NEW n \in 1..4, Multiple(Span(n), Span(m))
      PROVE  Multiple(Span(n + 1), Span(m))
  <2>1. PICK a \in Nat \ {0} : a = Span(n + 1) BY WheelFacts
  <2>2. PICK b \in Nat \ {0} : b = Span(n) BY WheelFacts
  <2>3. PICK c \in Nat \ {0} : c = Span(m) BY WheelFacts
  <2>4. Multiple(a, b) /\ Multiple(b, c) BY <1>2, <1>4, <2>1, <2>2, <2>3
  <2> QED BY <2>1, <2>3, <2>4, MultipleOfMultiple
<1>5. ASSUME NEW m \in 1..5, NEW n \in 1..5, m <= n PROVE Multiple(Span(n), Span(m))
  <2> DEFINE T == {k \in Nat : m + k <= 5 => Multiple(Span(m + k), Span(m))}
  <2>1. 0 \in T BY <1>3
  <2>2. ASSUME NEW k \in Nat, k \in T PROVE k + 1 \in T
    <3>1. SUFFICES ASSUME m + (k + 1) <= 5 PROVE Multiple(Span(m + (k + 1)), Span(m))
      OBVIOUS
    <3>2. m + k \in 1..4 /\ m + (k + 1) = (m + k) + 1 BY <3>1
    <3>3. Multiple(Span(m + k), Span(m)) BY <2>2, <3>2
    <3>4. Multiple(Span((m + k) + 1), Span(m)) BY <3>2, <3>3, <1>4
    <3> QED BY <3>2, <3>4
  <2>3. \A k \in Nat : k \in T
    <3> HIDE DEF T
    <3> QED BY <2>1, <2>2, SetInduction
  <2>4. n - m \in T /\ m + (n - m) = n BY <1>5, <2>3
  <2> QED BY <2>4
<1>6. \A n \in 1..5 : Multiple(Word, Span(n)) BY <1>5, WheelFacts
<1> QED BY <1>1, <1>5, <1>6

\* A floor is a quotient.
LEMMA FloorOf ==
  ASSUME NEW p \in Nat \ {0}, NEW q \in Int, NEW c \in 0 .. p - 1
  PROVE  (q * p + c) \div p = q
<1>1. PICK a \in Int : a = q * p + c OBVIOUS
<1>2. PICK b \in Int : b = q * p OBVIOUS
<1>3. Multiple(b, p) BY <1>2 DEF Multiple
<1>4. b <= a /\ a < b + p BY <1>1, <1>2
<1>5. b = a - (a % p) BY <1>3, <1>4, Remainder
<1>6. a = (a \div p) * p + (a % p) /\ a \div p \in Int /\ a % p \in Int OBVIOUS
<1>7. PICK u \in Int : u = a \div p BY <1>6
<1>8. u * p = q * p BY <1>2, <1>5, <1>6, <1>7
<1>9. u = q BY <1>8
<1> QED BY <1>1, <1>7, <1>9

\* Numbers that differ by a multiple have the same remainder.
LEMMA SameRemainder ==
  ASSUME NEW p \in Nat \ {0}, NEW a \in Int, NEW b \in Int, Multiple(a - b, p)
  PROVE  a % p = b % p
<1>1. PICK x \in 0 .. p - 1 : x = a % p /\ Multiple(a - x, p) BY Remainder
<1>0. PICK y \in 0 .. p - 1 : y = b % p BY Remainder
<1>2. PICK c \in Int : c = a - b OBVIOUS
<1>3. PICK d \in Int : d = a - x OBVIOUS
<1>4. Multiple(d - c, p) BY <1>1, <1>2, <1>3, MultipleFacts
<1>5. d - c = b - x BY <1>2, <1>3
<1>6. PICK t \in Int : t = b - x OBVIOUS
<1>7. Multiple(t, p) /\ t <= b /\ b < t + p BY <1>1, <1>4, <1>5, <1>6
<1>8. t = b - (b % p) BY <1>7, Remainder
<1>9. x = y BY <1>0, <1>6, <1>8
<1> QED BY <1>0, <1>1, <1>9

LEMMA SmallMultiple ==
  ASSUME NEW p \in Nat \ {0}, NEW a \in Int, Multiple(a, p), -p < a, a < p
  PROVE  a = 0
<1>1. PICK q \in Int : a = q * p BY DEF Multiple
<1>2. q >= 1 => q * p >= p OBVIOUS
<1>3. q <= -1 => q * p <= -p OBVIOUS
<1>4. q = 0 BY <1>1, <1>2, <1>3
<1> QED BY <1>1, <1>4

\* Only the highest level holds expiries that may be past.
LEMMA LowLevels == \A n \in 1..4 : Span(n) <= Sign
<1> TAKE n \in 1..4
<1>1. n \in 1..5 /\ 4 \in 1..5 /\ 4 \in 1..4 /\ n <= 4 /\ 4 + 1 = 5 OBVIOUS
<1>2. PICK a \in Nat \ {0}, b \in Nat \ {0} :
        a = Span(4) /\ b = Span(n) /\ Multiple(a, b) /\ a <= Sign
  <2>1. Span(4) \in Nat \ {0} /\ Span(n) \in Nat \ {0} /\ Weight[4 + 1] = Span(4)
    BY <1>1, WheelFacts
  <2>2. Multiple(Span(4), Span(n)) BY <1>1, SpanDivides
  <2> QED BY <1>1, <2>1, <2>2, WheelFacts
<1>3. a < b => a = 0
  <2>1. SUFFICES ASSUME a < b PROVE a = 0 OBVIOUS
  <2>2. -b < a /\ a \in Int OBVIOUS
  <2> QED BY <1>2, <2>1, <2>2, SmallMultiple
<1>4. Sign \in Nat BY WheelFacts
<1> QED BY <1>2, <1>3, <1>4

LEMMA OnceRound ==
  ASSUME NEW p \in Nat \ {0}, NEW a \in 0 .. p - 1, NEW b \in 0 .. p
  PROVE  (a + b) % p = IF a + b < p THEN a + b ELSE a + b - p
<1>1. PICK c \in Int : c = a + b OBVIOUS
<1>2. PICK t \in Int : t = IF c < p THEN 0 ELSE p OBVIOUS
<1>3. Multiple(t, p) BY <1>2, ZeroAndSelf
<1>4. t <= c /\ c < t + p BY <1>1, <1>2
<1>5. t = c - (c % p) BY <1>3, <1>4, Remainder
<1>6. PICK x \in 0 .. p - 1 : x = c % p BY Remainder
<1>7. x = c - t BY <1>2, <1>5, <1>6
<1> QED BY <1>1, <1>2, <1>6, <1>7

LEMMA SlotArith ==
  ASSUME NEW w \in Nat \ {0}, NEW s \in Nat \ {0}, NEW i \in Nat, NEW r \in Nat,
         NEW d \in Nat, NEW e \in Nat, r <= d, d < s * w,
         Multiple((e - d) + (r - w * i), s * w)
  PROVE  \E q \in 0 .. s - 1 : /\ (e \div w) % s = (i + q) % s
                               /\ r + q * w <= d /\ d < r + (q + 1) * w
<1>1. PICK z \in Int : (e - d) + (r - w * i) = z * (s * w) BY DEF Multiple
<1>2. PICK q \in Int, c \in Int : d - r = q * w + c /\ c \in 0 .. w - 1 /\ q >= 0
  <2>1. PICK u \in Nat : u = d - r OBVIOUS
  <2>2. u = (u \div w) * w + (u % w) /\ u \div w \in Int /\ u % w \in 0 .. w - 1
    OBVIOUS
  <2>3. PICK q \in Int : q = u \div w BY <2>2
  <2>4. PICK c \in 0 .. w - 1 : c = u % w BY <2>2
  <2>5. u = q * w + c BY <2>2, <2>3, <2>4
  <2>6. q >= 0 BY <2>5
  <2>7. d - r = q * w + c /\ c \in Int BY <2>1, <2>5
  <2> QED BY <2>6, <2>7, Zenon
<1>3. q < s
  <2>1. q * w < s * w BY <1>2
  <2> QED BY <2>1
<1>4. r + q * w <= d /\ d < r + (q + 1) * w
  <2>1. (q + 1) * w = q * w + w OBVIOUS
  <2> QED BY <1>2, <2>1
<1>5. PICK a \in Int : a = i + q + z * s OBVIOUS
<1>6. e = a * w + c
  <2>1. e = d - r + w * i + z * (s * w) BY <1>1
  <2>2. a * w = i * w + q * w + (z * s) * w BY <1>5
  <2>3. z * (s * w) = (z * s) * w /\ w * i = i * w OBVIOUS
  <2> QED BY <1>2, <2>1, <2>2, <2>3
<1>7. e \div w = a BY <1>2, <1>6, FloorOf
<1>8. a % s = (i + q) % s
  <2>1. PICK b \in Int : b = i + q OBVIOUS
  <2>2. a - b = z * s BY <1>5, <2>1
  <2>3. Multiple(a - b, s) BY <2>2 DEF Multiple
  <2>4. a % s = b % s BY <2>3, SameRemainder
  <2> QED BY <2>1, <2>4
<1> QED BY <1>2, <1>3, <1>4, <1>7, <1>8

LEMMA LevelFacts ==
  ASSUME NEW d \in 0 .. Word - 1
  PROVE  /\ Level(d) \in 1..5
         /\ d < Span(Level(d))
         /\ Level(d) # 1 => d >= Weight[Level(d)]
<1> DEFINE Good(n) == /\ n < 5 => d < Weight[n + 1]
                      /\ \A k \in 1..(n - 1) : d >= Weight[k + 1]
           T == {n \in 1..5 : n = 5 \/ d < Weight[n + 1]}
<1>1. PICK n \in T : \A k \in T : n <= k
  <2>1. T \subseteq Nat /\ 5 \in T OBVIOUS
  <2> HIDE DEF T
  <2> QED BY <2>1, LeastNumber
<1>2. n \in 1..5 /\ (n < 5 => d < Weight[n + 1]) BY <1>1
<1>3. ASSUME NEW k \in 1..(n - 1) PROVE d >= Weight[k + 1]
  <2>1. k \in 1..5 /\ k < n /\ k + 1 \in 1..5 BY <1>2
  <2>2. k \notin T BY <1>1, <2>1
  <2> QED BY <2>1, <2>2, WheelFacts
<1>4. Level(d) \in 1..5 /\ Good(Level(d))
  <2>1. Level(d) = CHOOSE k \in 1..5 : Good(k) BY Zenon DEF Level
  <2>2. \E k \in 1..5 : Good(k) BY <1>2, <1>3
  <2> HIDE DEF Good
  <2> QED BY <2>1, <2>2
<1>5. PICK l \in 1..5 : l = Level(d) /\ Good(l) BY <1>4
<1>6. d < Span(l)
  <2>1. CASE l = 5 BY <2>1, WheelFacts
  <2>2. CASE l # 5
    <3>1. l \in 1..4 /\ d < Weight[l + 1] BY <1>5, <2>2
    <3> QED BY <3>1, WheelFacts
  <2> QED BY <2>1, <2>2
<1>7. l # 1 => d >= Weight[l]
  <2>1. l # 1 => l - 1 \in 1..(l - 1) /\ (l - 1) + 1 = l OBVIOUS
  <2> QED BY <1>5, <2>1
<1> QED BY <1>5, <1>6, <1>7

\* What the indexes of the levels mean at the tick now: that of level n names
\* the slot whose first tick is rest[n] ticks ahead.  run: the levels that
\* cascade at now have done so.
InStep(rest, now, i, run) ==
  /\ rest \in [1..5 -> Nat] /\ rest[1] = 0
  /\ i \in [1..5 -> Nat]
  /\ \A n \in 1..5 : i[n] < Size(n)
  /\ \A n \in 2..5 : IF run THEN 1 <= rest[n] /\ rest[n] <= Weight[n]
                     ELSE rest[n] < Weight[n]
  /\ \A n \in 1..5 : Multiple((now + rest[n]) - Weight[n] * i[n], Span(n))

\* An expiry e is d ticks ahead of the tick now; x is the slot, q slots after
\* the one the index names, for these ticks.
Within(e, x, rest, now, i) ==
  LET d == Minus(e, now)
      n == x[1]
  IN  \E q \in 0 .. Size(n) - 1 : /\ x[2] = (i[n] + q) % Size(n)
                                  /\ rest[n] + q * Weight[n] <= d
                                  /\ d < rest[n] + (q + 1) * Weight[n]

\* Where a timer with the expiry e may be: in the slot for it, or, when it
\* is late, in the slot of the tick to come.
Window(e, x, rest, now, i) ==
  \/ Negative(Minus(e, now)) /\ x = <<1, i[1]>>
  \/ ~Negative(Minus(e, now)) /\ Within(e, x, rest, now, i)

LEMMA MinusFacts ==
  ASSUME NEW a \in Int, NEW b \in Int
  PROVE  /\ Minus(a, b) \in 0 .. Word - 1
         /\ Multiple((a - b) - Minus(a, b), Word)
<1>1. PICK c \in Int : c = a - b OBVIOUS
<1> QED BY <1>1, Remainder, WheelFacts DEF Minus

LEMMA SlotsFacts ==
  ASSUME NEW n \in 1..5, NEW k \in 0 .. Size(n) - 1
  PROVE  <<n, k>> \in Slots
<1>1. Size(1) \in Nat \ {0} /\ Size(2) \in Nat \ {0} /\ Size(n) \in Nat \ {0}
      /\ Size(1) = TVR_SIZE /\ Size(2) = TVN_SIZE
  <2>1. Size(1) \in Nat \ {0} /\ Size(2) \in Nat \ {0} /\ Size(n) \in Nat \ {0}
    BY WheelFacts
  <2>2. Size(1) = TVR_SIZE /\ Size(2) = TVN_SIZE BY DEF Size
  <2> QED BY <2>1, <2>2
<1>2. Size(n) <= TVR_SIZE + TVN_SIZE BY <1>1 DEF Size
<1>3. k \in 0 .. (TVR_SIZE + TVN_SIZE) BY <1>1, <1>2
<1> QED BY <1>1, <1>3 DEF Slots

\* internal_add_timer puts a timer into a slot for its expiry, and, in a level
\* that is about to cascade, not into the slot that cascades.
LEMMA SlotFacts ==
  ASSUME NEW now \in 0 .. Word - 1, NEW i, NEW rest, InStep(rest, now, i, FALSE),
         NEW t, expires[t] \in 0 .. Word - 1
  PROVE  /\ Slot(t, now, i) \in Slots
         /\ Window(expires[t], Slot(t, now, i), rest, now, i)
         /\ \A n \in 2..5 : rest[n] = 0 => Slot(t, now, i) # <<n, i[n]>>
<1>1. PICK e \in 0 .. Word - 1 : e = expires[t] OBVIOUS
<1>2. Word \in Nat \ {0} BY WheelFacts
<1>3. PICK d \in 0 .. Word - 1 : d = Minus(e, now) /\ Multiple((e - now) - d, Word)
  <2>1. e \in Int /\ now \in Int BY <1>2
  <2> QED BY <2>1, MinusFacts
<1>4. PICK n \in 1..5 : n = Level(d) /\ d < Span(n) /\ (n # 1 => d >= Weight[n])
  BY LevelFacts
<1>5. CASE n = 5 /\ Negative(d)
  <2>1. Slot(t, now, i) = <<1, i[1]>> BY <1>1, <1>3, <1>4, <1>5, Zenon DEF Slot
  <2>2. i[1] \in 0 .. Size(1) - 1 BY WheelFacts DEF InStep
  <2> QED BY <1>1, <1>3, <1>5, <2>1, <2>2, SlotsFacts DEF Window
<1>6. CASE ~(n = 5 /\ Negative(d))
  <2>0. ~Negative(d)
    <3>1. n # 5 => d < Sign
      <4>1. n # 5 => n \in 1..4 OBVIOUS
      <4>2. PICK z \in Nat, g \in Nat : z = Span(n) /\ g = Sign BY WheelFacts
      <4>3. n # 5 => z <= g BY <4>1, <4>2, LowLevels
      <4>4. d < z /\ d \in Int BY <1>2, <1>4, <4>2
      <4> QED BY <4>2, <4>3, <4>4
    <3>2. d \in Int /\ Sign \in Int BY <1>2, WheelFacts
    <3> QED BY <1>6, <3>1, <3>2 DEF Negative
  <2>1. PICK w \in Nat \ {0}, s \in Nat \ {0} :
          w = Weight[n] /\ s = Size(n) /\ Span(n) = s * w /\ s * w \in Nat \ {0}
    BY WheelFacts DEF Span
  <2>2. PICK j \in 0 .. s - 1 : j = i[n] BY <2>1 DEF InStep
  <2>3. PICK r \in Nat : r = rest[n] BY DEF InStep
  <2>4. r < w \/ r = 0
    BY <2>1, <2>3 DEF InStep
  <2>5. r <= d /\ d \in Nat /\ j \in Nat /\ e \in Nat
    BY <1>2, <1>4, <2>1, <2>2, <2>3, <2>4 DEF InStep
  <2>6. Multiple((e - d) + (r - w * j), s * w)
    <3>1. PICK a \in Int : a = (e - now) - d /\ Multiple(a, Word) BY <1>2, <1>3
    <3>2. Multiple(a, s * w)
      BY <1>2, <2>1, <3>1, SpanDivides, MultipleOfMultiple
    <3>3. PICK b \in Int : b = (now + r) - w * j /\ Multiple(b, s * w)
      <4>1. Multiple((now + rest[n]) - Weight[n] * i[n], Span(n)) BY DEF InStep
      <4>2. (now + r) - w * j \in Int BY <1>2
      <4> QED BY <4>1, <4>2, <2>1, <2>2, <2>3
    <3>4. Multiple(a + b, s * w) BY <2>1, <3>2, <3>3, MultipleFacts
    <3>5. a + b = (e - d) + (r - w * j) BY <1>2, <3>1, <3>3
    <3> QED BY <3>4, <3>5
  <2>7. PICK q \in 0 .. s - 1 : /\ (e \div w) % s = (j + q) % s
                                /\ r + q * w <= d /\ d < r + (q + 1) * w
    <3>1. d < s * w BY <1>4, <2>1
    <3>2. j \in Nat BY <2>1
    <3>3. w \in Nat \ {0} /\ s \in Nat \ {0} /\ r \in Nat /\ d \in Nat /\ e \in Nat
          /\ r <= d
      BY <2>5
    <3> QED BY <2>6, <3>1, <3>2, <3>3, SlotArith, Zenon
  <2>8. Slot(t, now, i) = <<n, (j + q) % s>>
    BY <1>1, <1>3, <1>4, <1>6, <2>1, <2>7, Zenon DEF Slot
  <2>9. (j + q) % s \in 0 .. s - 1 BY <2>2
  <2>10. PICK x : x = Slot(t, now, i) OBVIOUS
  <2>11. x[1] = n /\ x[2] = (j + q) % s BY <2>8, <2>10
  <2>12. Within(e, x, rest, now, i)
    BY <1>3, <2>1, <2>2, <2>3, <2>7, <2>11 DEF Within
  <2>13. ASSUME NEW l \in 2..5, rest[l] = 0, x = <<l, i[l]>> PROVE FALSE
    <3>1. l = n /\ (j + q) % s = j /\ r = 0 BY <2>2, <2>3, <2>11, <2>13
    <3>2. q # 0
      <4>1. d >= w BY <1>4, <2>1, <2>13, <3>1
      <4>2. q = 0 => (q + 1) * w = w OBVIOUS
      <4> QED BY <2>7, <3>1, <4>1, <4>2
    <3>3. (j + q) % s = IF j + q < s THEN j + q ELSE j + q - s
      <4>1. q \in 0 .. s OBVIOUS
      <4> QED BY <2>1, <2>2, <4>1, OnceRound, Zenon
    <3> QED BY <2>2, <2>7, <3>1, <3>2, <3>3
  <2> QED BY <1>1, <1>3, <2>0, <2>1, <2>8, <2>9, <2>10, <2>12, <2>13, SlotsFacts DEF Window
<1> QED BY <1>5, <1>6

------------------------------------------------------------------------------
(* The slots                                                                 *)

Wheels == [Slots -> Seq(Timer)]

Elements(s) == {s[k] : k \in DOMAIN s}
Injective(s) == \A k, l \in DOMAIN s : s[k] = s[l] => k = l

In(v) == {t \in Timer : \E x \in Slots : \E k \in DOMAIN v[x] : v[x][k] = t}

\* No timer is twice in the slots.
Unique(v) ==
  \A x, y \in Slots : \A k \in DOMAIN v[x], l \in DOMAIN v[y] :
    v[x][k] = v[y][l] => x = y /\ k = l

Fits(v, rest, now, i) ==
  \A x \in Slots : \A k \in DOMAIN v[x] : Window(expires[v[x][k]], x, rest, now, i)

\* The slots that cascade are the same in v and w.
SameHeads(v, w, rest, i) ==
  \A n \in 2..5 : rest[n] = 0 => w[<<n, i[n]>>] = v[<<n, i[n]>>]

\* w is v after the slot of level h has cascaded.
Moved(v, w, h, rest, i) ==
  /\ w \in Wheels /\ In(w) = In(v)
  /\ w[<<h, i[h]>>] = << >>
  /\ \A n \in 2..5 : n # h /\ rest[n] = 0 => w[<<n, i[n]>>] = v[<<n, i[n]>>]

Emptied(v, x) == [v EXCEPT ![x] = << >>]
Put(v, x, t) == [v EXCEPT ![x] = Append(@, t)]

LEMMA PutFacts ==
  ASSUME NEW v \in Wheels, NEW x \in Slots, NEW t \in Timer \ In(v)
  PROVE  /\ Put(v, x, t) \in Wheels
         /\ In(Put(v, x, t)) = In(v) \cup {t}
         /\ Unique(v) => Unique(Put(v, x, t))
         /\ \A y \in Slots : \A k \in DOMAIN Put(v, x, t)[y] :
              \/ k \in DOMAIN v[y] /\ Put(v, x, t)[y][k] = v[y][k]
              \/ y = x /\ k = Len(v[x]) + 1 /\ Put(v, x, t)[y][k] = t
         /\ \A y \in Slots : y # x => Put(v, x, t)[y] = v[y]
<1>1. PICK w : w = Put(v, x, t) OBVIOUS
<1>2. v[x] \in Seq(Timer) /\ \A y \in Slots : v[y] \in Seq(Timer) BY DEF Wheels
<1>3. w[x] = Append(v[x], t) /\ (\A y \in Slots : y # x => w[y] = v[y]) /\ w \in Wheels
  BY <1>1, <1>2 DEF Put, Wheels
<1>4. /\ DOMAIN w[x] = 1..(Len(v[x]) + 1) /\ DOMAIN v[x] = 1..Len(v[x])
      /\ Len(v[x]) \in Nat
      /\ w[x][Len(v[x]) + 1] = t
      /\ \A k \in DOMAIN v[x] : w[x][k] = v[x][k]
  BY <1>2, <1>3
<1>5. \A y \in Slots : \A k \in DOMAIN w[y] :
        \/ k \in DOMAIN v[y] /\ w[y][k] = v[y][k]
        \/ y = x /\ k = Len(v[x]) + 1 /\ w[y][k] = t
  BY <1>3, <1>4
<1>6. \A y \in Slots : \A k \in DOMAIN v[y] : k \in DOMAIN w[y] /\ w[y][k] = v[y][k]
  BY <1>3, <1>4
<1>7. \A y \in Slots : \A k \in DOMAIN v[y] : v[y][k] \in Timer /\ v[y][k] # t
  <2> TAKE y \in Slots
  <2> TAKE k \in DOMAIN v[y]
  <2>1. v[y][k] \in Timer BY <1>2
  <2>2. v[y][k] \in In(v) BY <2>1 DEF In
  <2> QED BY <2>1, <2>2
<1>8. In(w) = In(v) \cup {t}
  <2>1. ASSUME NEW u \in In(w) PROVE u \in In(v) \cup {t}
    BY <1>5, <2>1 DEF In
  <2>2. In(v) \subseteq In(w) BY <1>6 DEF In
  <2>3. t \in In(w)
    <3>1. Len(v[x]) + 1 \in DOMAIN w[x] BY <1>4
    <3> QED BY <1>4, <3>1 DEF In
  <2> QED BY <2>1, <2>2, <2>3
<1>9. ASSUME Unique(v) PROVE Unique(w)
  <2>1. SUFFICES ASSUME NEW y \in Slots, NEW z \in Slots,
                        NEW k \in DOMAIN w[y], NEW l \in DOMAIN w[z], w[y][k] = w[z][l]
                 PROVE  y = z /\ k = l
    BY DEF Unique
  <2>2. CASE k \in DOMAIN v[y] /\ w[y][k] = v[y][k]
    <3>1. w[z][l] # t BY <1>7, <2>1, <2>2
    <3>2. l \in DOMAIN v[z] /\ w[z][l] = v[z][l] BY <1>5, <3>1
    <3>3. v[y][k] = v[z][l] BY <2>1, <2>2, <3>2
    <3> QED BY <1>9, <2>2, <3>2, <3>3, Zenon DEF Unique
  <2>3. CASE y = x /\ k = Len(v[x]) + 1 /\ w[y][k] = t
    BY <1>5, <1>7, <2>1, <2>3
  <2> QED BY <1>5, <2>2, <2>3
<1> QED BY <1>1, <1>3, <1>5, <1>8, <1>9

\* The wheels between v and Placed(v, s, now, i).
Steps(u, v, s, now, i) ==
  /\ u \in [0 .. Len(s) -> Wheels]
  /\ u[0] = v
  /\ \A n \in 1 .. Len(s) : u[n] = Put(u[n - 1], Slot(s[n], now, i), s[n])
  /\ Placed(v, s, now, i) = u[Len(s)]

LEMMA PlacedSteps ==
  ASSUME NEW v \in Wheels, NEW s \in Seq(Timer), NEW now, NEW i,
         \A n \in 1 .. Len(s) : Slot(s[n], now, i) \in Slots
  PROVE  \E u : Steps(u, v, s, now, i)
<1> DEFINE put(n, p) == Put(p, Slot(s[n], now, i), s[n])
           g == [a \in Nat \X Wheels |->
                   IF a[1] < Len(s) THEN put(a[1] + 1, a[2]) ELSE a[2]]
           Good(f) == f = [n \in 0 .. Len(s) |-> IF n = 0 THEN v ELSE put(n, f[n - 1])]
<1>1. Len(s) \in Nat /\ \A n \in 1 .. Len(s) : s[n] \in Timer OBVIOUS
<1>2. ASSUME NEW n \in 1 .. Len(s), NEW p \in Wheels PROVE put(n, p) \in Wheels
  <2>1. p[Slot(s[n], now, i)] \in Seq(Timer) /\ s[n] \in Timer BY <1>1 DEF Wheels
  <2> QED BY <2>1 DEF Put, Wheels
<1> HIDE DEF put
<1>3. g \in [Nat \X Wheels -> Wheels]
  <2>1. ASSUME NEW a \in Nat \X Wheels
        PROVE  (IF a[1] < Len(s) THEN put(a[1] + 1, a[2]) ELSE a[2]) \in Wheels
    <3>1. a[1] < Len(s) => a[1] + 1 \in 1 .. Len(s) BY <1>1
    <3> QED BY <1>2, <3>1
  <2> QED BY <2>1
<1>4. PICK u \in [0 .. Len(s) -> Wheels] : Follows(u, Len(s), v, g)
  <2> HIDE DEF g
  <2> QED BY <1>1, <1>3, FollowsSomewhere
<1>5. u[0] = v BY <1>4 DEF Follows
<1>6. ASSUME NEW n \in 1 .. Len(s) PROVE u[n] = put(n, u[n - 1])
  <2>1. PICK k \in Nat : k = n - 1 /\ k < Len(s) /\ n = k + 1 BY <1>1
  <2>2. u[k] \in Wheels BY <1>1, <2>1
  <2>3. u[k + 1] = g[<<k, u[k]>>] BY <1>4, <2>1 DEF Follows
  <2>4. g[<<k, u[k]>>] = put(k + 1, u[k]) BY <2>1, <2>2
  <2> QED BY <2>1, <2>3, <2>4
<1>7. Good(u)
  <2>1. u = [n \in 0 .. Len(s) |-> u[n]] OBVIOUS
  <2>2. \A n \in 0 .. Len(s) : u[n] = IF n = 0 THEN v ELSE put(n, u[n - 1])
    <3> HIDE DEF g
    <3> QED BY <1>1, <1>5, <1>6
  <2> QED BY <2>1, <2>2, Zenon
<1>8. PICK f : f = CHOOSE c : Good(c) OBVIOUS
<1>9. Good(f)
  <2> HIDE DEF Good
  <2> QED BY <1>7, <1>8
<1>10. Placed(v, s, now, i) = f[Len(s)]
  BY <1>8, Zenon DEF Placed, put, Put
<1>11. /\ f[0] = v
       /\ \A n \in 1 .. Len(s) : f[n] = put(n, f[n - 1])
  <2>1. \A n \in 0 .. Len(s) : f[n] = IF n = 0 THEN v ELSE put(n, f[n - 1])
    BY <1>9, Zenon
  <2> HIDE DEF Good, g
  <2> QED BY <1>1, <2>1
<1>12. f[Len(s)] = u[Len(s)]
  <2> DEFINE T == {n \in Nat : n <= Len(s) => f[n] = u[n]}
  <2>1. 0 \in T BY <1>5, <1>11
  <2>2. ASSUME NEW n \in Nat, n \in T PROVE n + 1 \in T
    <3>1. n + 1 <= Len(s) => n + 1 \in 1 .. Len(s) /\ (n + 1) - 1 = n /\ n <= Len(s)
      BY <1>1
    <3> HIDE DEF Good, g
    <3> QED BY <1>6, <1>11, <2>2, <3>1
  <2> HIDE DEF T
  <2>3. \A n \in Nat : n \in T BY <2>1, <2>2, SetInduction
  <2> QED BY <1>1, <2>3 DEF T
<1> HIDE DEF g, Good
<1> QED BY <1>5, <1>6, <1>10, <1>12 DEF Steps, put

\* Timers that are placed are in the slots then, once, each in a slot for its
\* expiry, and none in a slot that cascades at now.
LEMMA PlacedFacts ==
  ASSUME NEW v \in Wheels, NEW s \in Seq(Timer), Injective(s), Unique(v),
         \A k \in DOMAIN s : s[k] \notin In(v),
         NEW now \in 0 .. Word - 1, NEW i, NEW rest, InStep(rest, now, i, FALSE),
         expires \in [Timer -> 0 .. Word - 1]
  PROVE  /\ Placed(v, s, now, i) \in Wheels
         /\ In(Placed(v, s, now, i)) = In(v) \cup Elements(s)
         /\ Unique(Placed(v, s, now, i))
         /\ Fits(v, rest, now, i) => Fits(Placed(v, s, now, i), rest, now, i)
         /\ SameHeads(v, Placed(v, s, now, i), rest, i)
<1>1. Len(s) \in Nat /\ DOMAIN s = 1 .. Len(s) /\ \A n \in 1 .. Len(s) : s[n] \in Timer
  OBVIOUS
<1>2. ASSUME NEW n \in 1 .. Len(s)
      PROVE  /\ Slot(s[n], now, i) \in Slots
             /\ Window(expires[s[n]], Slot(s[n], now, i), rest, now, i)
             /\ \A m \in 2..5 : rest[m] = 0 => Slot(s[n], now, i) # <<m, i[m]>>
  <2>1. expires[s[n]] \in 0 .. Word - 1 BY <1>1
  <2> QED BY <2>1, SlotFacts
<1>3. PICK u : Steps(u, v, s, now, i) BY <1>2, PlacedSteps
<1> DEFINE Good(w, n) == /\ In(w) = In(v) \cup {s[k] : k \in 1 .. n}
                         /\ Unique(w)
                         /\ Fits(v, rest, now, i) => Fits(w, rest, now, i)
                         /\ SameHeads(v, w, rest, i)
           T == {n \in Nat : n <= Len(s) => Good(u[n], n)}
<1>4. 0 \in T
  <2>1. u[0] = v BY <1>3 DEF Steps
  <2>2. Good(v, 0) BY DEF SameHeads
  <2> QED BY <2>1, <2>2
<1>5. ASSUME NEW n \in Nat, n \in T PROVE n + 1 \in T
  <2>1. SUFFICES ASSUME n + 1 <= Len(s) PROVE Good(u[n + 1], n + 1)
    <3> HIDE DEF Good
    <3> QED OBVIOUS
  <2>2. n + 1 \in 1 .. Len(s) /\ (n + 1) - 1 = n /\ n \in 0 .. Len(s) BY <1>1, <2>1
  <2>3. Good(u[n], n) BY <1>5, <2>2
  <2>4. PICK w : w = u[n] OBVIOUS
  <2>5. PICK x \in Slots : x = Slot(s[n + 1], now, i) BY <1>2, <2>2
  <2>6. PICK t \in Timer : t = s[n + 1] BY <1>1, <2>2
  <2>7. u[n + 1] = Put(w, x, t) /\ w \in Wheels
    BY <1>3, <2>2, <2>4, <2>5, <2>6 DEF Steps
  <2>8. t \notin In(w)
    <3>1. \A k \in 1 .. n : s[k] # t
      BY <1>1, <2>2, <2>6 DEF Injective
    <3>2. t \notin In(v) BY <1>1, <2>2, <2>6
    <3> QED BY <2>3, <2>4, <3>1, <3>2
  <2>9. Window(expires[t], x, rest, now, i) /\ \A m \in 2..5 : rest[m] = 0 => x # <<m, i[m]>>
    BY <1>2, <2>2, <2>5, <2>6
  <2>10. PICK p : p = Put(w, x, t) OBVIOUS
  <2>11. /\ p \in Wheels
         /\ In(p) = In(w) \cup {t}
         /\ Unique(w) => Unique(p)
         /\ \A y \in Slots : \A k \in DOMAIN p[y] :
              \/ k \in DOMAIN w[y] /\ p[y][k] = w[y][k]
              \/ y = x /\ k = Len(w[x]) + 1 /\ p[y][k] = t
         /\ \A y \in Slots : y # x => p[y] = w[y]
    BY <2>7, <2>8, <2>10, PutFacts
  <2>12. In(p) = In(v) \cup {s[k] : k \in 1 .. n + 1}
    <3>1. {s[k] : k \in 1 .. n + 1} = {s[k] : k \in 1 .. n} \cup {s[n + 1]} OBVIOUS
    <3> QED BY <2>3, <2>4, <2>6, <2>11, <3>1
  <2>13. Fits(w, rest, now, i) => Fits(p, rest, now, i)
    BY <2>9, <2>11 DEF Fits
  <2>14. SameHeads(v, p, rest, i)
    <3> SUFFICES ASSUME NEW m \in 2..5, rest[m] = 0
                 PROVE  p[<<m, i[m]>>] = v[<<m, i[m]>>]
      BY DEF SameHeads
    <3>1. <<m, i[m]>> \in Slots
      <4>1. i[m] \in 0 .. Size(m) - 1
        <5>1. m \in 1..5 OBVIOUS
        <5>2. PICK z \in Nat \ {0} : z = Size(m) BY <5>1, WheelFacts
        <5>3. i \in [1..5 -> Nat] /\ i[m] < Size(m) BY <5>1 DEF InStep
        <5>4. PICK j \in Nat : j = i[m] BY <5>1, <5>3
        <5>5. j < z BY <5>2, <5>3, <5>4
        <5>6. j \in 0 .. z - 1 BY <5>5
        <5> QED BY <5>2, <5>4, <5>6, Zenon
      <4> QED BY <4>1, SlotsFacts
    <3>2. p[<<m, i[m]>>] = w[<<m, i[m]>>] BY <2>9, <2>11, <3>1
    <3> QED BY <2>3, <2>4, <3>2 DEF SameHeads
  <2>15. Good(p, n + 1) BY <2>3, <2>4, <2>11, <2>12, <2>13, <2>14
  <2> HIDE DEF Good
  <2> QED BY <2>7, <2>10, <2>15
<1>6. \A n \in Nat : n \in T
  <2> HIDE DEF T
  <2> QED BY <1>4, <1>5, SetInduction
<1>7. PICK w \in Wheels : w = Placed(v, s, now, i) /\ Good(w, Len(s))
  <2>1. Len(s) \in T BY <1>1, <1>6
  <2>2. Good(u[Len(s)], Len(s)) BY <1>1, <2>1
  <2>3. u[Len(s)] \in Wheels /\ Placed(v, s, now, i) = u[Len(s)] BY <1>1, <1>3 DEF Steps
  <2> HIDE DEF Good
  <2> QED BY <2>2, <2>3
<1>8. Elements(s) = {s[k] : k \in 1 .. Len(s)} BY <1>1 DEF Elements
<1> QED BY <1>7, <1>8

LEMMA PutElsewhere ==
  \A v \in Wheels : \A x, h \in Slots : \A t \in Timer :
    x # h => Put(Emptied(v, h), x, t) = Emptied(Put(v, x, t), h)
<1> SUFFICES ASSUME NEW v \in Wheels, NEW x \in Slots, NEW h \in Slots, NEW t \in Timer,
                    x # h
             PROVE  Put(Emptied(v, h), x, t) = Emptied(Put(v, x, t), h)
  OBVIOUS
<1>1. v[x] \in Seq(Timer) BY DEF Wheels
<1> QED BY <1>1 DEF Put, Emptied, Wheels

\* A level cascades: what its slot held is somewhere else then.
LEMMA EmptiedFacts ==
  ASSUME NEW v \in Wheels, Unique(v),
         NEW now \in 0 .. Word - 1, NEW i, NEW rest, InStep(rest, now, i, FALSE),
         Fits(v, rest, now, i), expires \in [Timer -> 0 .. Word - 1],
         NEW n \in 2..5, rest[n] = 0,
         NEW w, w = Emptied(Placed(v, v[<<n, i[n]>>], now, i), <<n, i[n]>>)
  PROVE  Unique(w) /\ Fits(w, rest, now, i) /\ Moved(v, w, n, rest, i)
<1> DEFINE h == <<n, i[n]>>
           s == v[h]
           e == Emptied(v, h)
<1>1. \A m \in 2..5 : <<m, i[m]>> \in Slots
  <2> TAKE m \in 2..5
  <2>1. m \in 1..5 OBVIOUS
  <2>2. i[m] \in Nat /\ i[m] < Size(m) BY <2>1 DEF InStep
  <2>4. PICK z \in Nat \ {0} : z = Size(m) BY <2>1, WheelFacts
  <2>3. i[m] \in 0 .. Size(m) - 1 BY <2>2, <2>4
  <2> QED BY <2>1, <2>3, SlotsFacts
<1>2. h \in Slots /\ s \in Seq(Timer) /\ Len(s) \in Nat /\ DOMAIN s = 1 .. Len(s)
  <2>1. h \in Slots BY <1>1
  <2> HIDE DEF h
  <2>2. s \in Seq(Timer) BY <2>1 DEF Wheels
  <2> QED BY <2>1, <2>2
<1>3. /\ e \in Wheels /\ e[h] = << >>
      /\ \A y \in Slots : y # h => e[y] = v[y]
      /\ DOMAIN << >> = {}
  BY <1>2 DEF Wheels, Emptied
<1> HIDE DEF e, h
<1>4. Unique(e) /\ Fits(e, rest, now, i)
  <2>1. \A y \in Slots : \A k \in DOMAIN e[y] : y # h /\ k \in DOMAIN v[y] /\ e[y][k] = v[y][k]
    BY <1>3
  <2>2. Unique(e) BY <2>1 DEF Unique
  <2>3. Fits(e, rest, now, i) BY <2>1 DEF Fits
  <2> QED BY <2>2, <2>3
<1>5. Injective(s) BY <1>2 DEF Unique, Injective
<1>6. \A k \in DOMAIN s : s[k] \notin In(e)
  <2> SUFFICES ASSUME NEW k \in DOMAIN s, NEW y \in Slots, NEW l \in DOMAIN e[y],
                      e[y][l] = s[k]
               PROVE  FALSE
    BY DEF In
  <2>1. y # h /\ l \in DOMAIN v[y] /\ v[y][l] = v[h][k] BY <1>3
  <2> QED BY <1>2, <2>1 DEF Unique
<1>7. In(v) = In(e) \cup Elements(s)
  <2>1. \A y \in Slots : \A k \in DOMAIN v[y] :
          v[y][k] \in Elements(s) \/ (k \in DOMAIN e[y] /\ v[y][k] = e[y][k])
    BY <1>3 DEF Elements
  <2>2. In(v) \subseteq In(e) \cup Elements(s) BY <2>1 DEF In
  <2>3. \A y \in Slots : \A k \in DOMAIN e[y] : k \in DOMAIN v[y] /\ e[y][k] = v[y][k]
    BY <1>3
  <2>4. In(e) \subseteq In(v) BY <2>3 DEF In
  <2>5. Elements(s) \subseteq In(v) BY <1>2 DEF In, Elements
  <2> QED BY <2>2, <2>4, <2>5
<1>8. PICK p \in Wheels :
        /\ p = Placed(e, s, now, i)
        /\ In(p) = In(v) /\ Unique(p) /\ Fits(p, rest, now, i)
        /\ SameHeads(e, p, rest, i)
  <2> HIDE DEF s
  <2>1. e \in Wheels /\ s \in Seq(Timer) BY <1>2, <1>3
  <2>2. /\ Placed(e, s, now, i) \in Wheels
        /\ In(Placed(e, s, now, i)) = In(e) \cup Elements(s)
        /\ Unique(Placed(e, s, now, i))
        /\ Fits(e, rest, now, i) => Fits(Placed(e, s, now, i), rest, now, i)
        /\ SameHeads(e, Placed(e, s, now, i), rest, i)
    <3>1. /\ e \in Wheels /\ s \in Seq(Timer) /\ Injective(s) /\ Unique(e)
          /\ now \in 0 .. Word - 1
          /\ InStep(rest, now, i, FALSE) /\ expires \in [Timer -> 0 .. Word - 1]
      BY <2>1, <1>4, <1>5
    <3> QED BY <3>1, <1>6, PlacedFacts
  <2> QED BY <2>2, <1>4, <1>7
<1>9. p = w
  <2>1. ASSUME NEW k \in 1 .. Len(s)
        PROVE  s[k] \in Timer /\ Slot(s[k], now, i) \in Slots /\ Slot(s[k], now, i) # h
    <3>1. s[k] \in Timer /\ expires[s[k]] \in 0 .. Word - 1 BY <1>2
    <3>2. /\ Slot(s[k], now, i) \in Slots
          /\ \A m \in 2..5 : rest[m] = 0 => Slot(s[k], now, i) # <<m, i[m]>>
      BY <3>1, SlotFacts
    <3> QED BY <3>1, <3>2 DEF h
  <2>2. PICK a : Steps(a, v, s, now, i) BY <1>2, <2>1, PlacedSteps
  <2>3. PICK b : Steps(b, e, s, now, i) BY <1>2, <1>3, <2>1, PlacedSteps
  <2> HIDE DEF s
  <2> DEFINE T == {k \in Nat : k <= Len(s) => b[k] = Emptied(a[k], h)}
  <2>4. 0 \in T BY <2>2, <2>3 DEF Steps, e
  <2>5. ASSUME NEW k \in Nat, k \in T PROVE k + 1 \in T
    <3>1. SUFFICES ASSUME k + 1 <= Len(s) PROVE b[k + 1] = Emptied(a[k + 1], h)
      OBVIOUS
    <3>2. k + 1 \in 1 .. Len(s) /\ (k + 1) - 1 = k /\ k \in 0 .. Len(s) BY <1>2, <3>1
    <3>3. PICK x \in Slots, t \in Timer :
            x = Slot(s[k + 1], now, i) /\ t = s[k + 1] /\ x # h
      BY <2>1, <3>2
    <3>4. a[k + 1] = Put(a[k], x, t) /\ a[k] \in Wheels /\ b[k + 1] = Put(b[k], x, t)
      BY <2>2, <2>3, <3>2, <3>3 DEF Steps
    <3>5. b[k] = Emptied(a[k], h) BY <2>5, <3>2
    <3>6. PICK y \in Wheels : y = a[k] BY <3>4
    <3>7. Put(Emptied(y, h), x, t) = Emptied(Put(y, x, t), h)
      <4>1. h \in Slots /\ x \in Slots /\ x # h /\ t \in Timer /\ y \in Wheels
        BY <1>2, <3>3
      <4> QED BY <4>1, PutElsewhere, Zenon
    <3> QED BY <3>4, <3>5, <3>6, <3>7
  <2>6. \A k \in Nat : k \in T
    <3> HIDE DEF T
    <3> QED BY <2>4, <2>5, SetInduction
  <2>7. b[Len(s)] = Emptied(a[Len(s)], h) BY <1>2, <2>6
  <2>8. w = Emptied(Placed(v, s, now, i), h) BY DEF h, s
  <2> HIDE DEF T
  <2> QED BY <1>8, <2>2, <2>3, <2>7, <2>8 DEF Steps
<1>10. \A m \in 2..5 : m # n => <<m, i[m]>> # h BY DEF h
<1>11. h = <<n, i[n]>> BY DEF h
<1> HIDE DEF s
<1> QED BY <1>1, <1>3, <1>8, <1>9, <1>10, <1>11 DEF SameHeads, Moved, Emptied

------------------------------------------------------------------------------
(* The wheel turns                                                           *)

LEMMA InStepFacts ==
  ASSUME NEW now \in Int, NEW i, NEW rest, NEW run \in BOOLEAN, InStep(rest, now, i, run),
         NEW n \in 1..5
  PROVE  /\ rest[n] \in Nat /\ rest[n] <= Weight[n] /\ (~run => rest[n] < Weight[n])
         /\ i[n] \in 0 .. Size(n) - 1 /\ <<n, i[n]>> \in Slots
         /\ Multiple((now + rest[n]) - Weight[n] * i[n], Span(n))
<1>1. PICK w \in Nat \ {0}, s \in Nat \ {0} : w = Weight[n] /\ s = Size(n)
  BY WheelFacts
<1>2. i[n] \in Nat /\ i[n] < s BY <1>1 DEF InStep
<1>3. i[n] \in 0 .. s - 1 BY <1>1, <1>2
<1>4. rest[n] \in Nat /\ rest[n] <= w /\ (~run => rest[n] < w)
  <2>1. CASE n = 1 BY <1>1, <2>1 DEF InStep
  <2>2. CASE n # 1
    <3>1. n \in 2..5 BY <2>2
    <3> QED BY <1>1, <3>1 DEF InStep
  <2> QED BY <2>1, <2>2
<1>5. <<n, i[n]>> \in Slots BY <1>1, <1>3, SlotsFacts
<1>6. Multiple((now + rest[n]) - Weight[n] * i[n], Span(n)) BY DEF InStep
<1> QED BY <1>1, <1>3, <1>4, <1>5, <1>6

\* A level cascades together with the one below it, if that has come round.
LEMMA RestFacts ==
  ASSUME NEW now \in Int, NEW i, NEW rest, InStep(rest, now, i, FALSE), NEW n \in 1..4
  PROVE  rest[n + 1] = 0 <=> rest[n] = 0 /\ i[n] = 0
<1>1. n \in 1..5 /\ n + 1 \in 1..5 OBVIOUS
<1>2. PICK w \in Nat \ {0}, s \in Nat \ {0}, p \in Nat \ {0} :
        w = Weight[n] /\ s = Size(n) /\ p = s * w /\ p = Span(n) /\ p = Weight[n + 1]
        /\ Multiple(p, w)
  BY <1>1, WheelFacts, SpanDivides DEF Span
<1>3. PICK a \in Nat, b \in Nat, c \in Nat :
        /\ a = rest[n] /\ a < w /\ b = rest[n + 1] /\ b < p /\ c = i[n] /\ c < s
        /\ Multiple((now + a) - w * c, p)
  <2>1. rest[n] \in Nat /\ rest[n] < w BY <1>1, <1>2, InStepFacts
  <2>2. rest[n + 1] \in Nat /\ rest[n + 1] < p BY <1>1, <1>2, InStepFacts
  <2>3. i[n] \in 0 .. s - 1 BY <1>1, <1>2, InStepFacts
  <2>4. Multiple((now + rest[n]) - Weight[n] * i[n], Span(n)) BY <1>1, InStepFacts
  <2> QED BY <1>2, <2>1, <2>2, <2>3, <2>4
<1>4. PICK x \in Int : x = (now + a) - w * c /\ Multiple(x, p) /\ Multiple(x, w)
  <2>1. PICK x \in Int : x = (now + a) - w * c BY <1>2, <1>3
  <2> QED BY <1>2, <1>3, <2>1, MultipleOfMultiple
<1>5. Multiple(now + b, p)
  <2>1. PICK q \in Nat \ {0}, k \in Nat : q = Span(n + 1) /\ k = i[n + 1] /\ Multiple(q, p)
    <3>1. i[n + 1] \in Nat BY <1>1 DEF InStep
    <3> QED BY <1>1, <1>2, <3>1, WheelFacts, SpanDivides
  <2>2. PICK y \in Int : y = (now + b) - p * k /\ Multiple(y, q)
    <3>1. Multiple((now + rest[n + 1]) - Weight[n + 1] * i[n + 1], Span(n + 1))
      BY <1>1, InStepFacts
    <3>2. (now + b) - p * k \in Int BY <1>2, <1>3
    <3> QED BY <1>2, <1>3, <2>1, <3>1, <3>2
  <2>3. Multiple(y, p) BY <2>1, <2>2, MultipleOfMultiple
  <2>4. PICK z \in Int : z = k * p /\ Multiple(z, p) BY <1>2 DEF Multiple
  <2>5. Multiple(y + z, p) BY <2>3, <2>4, MultipleFacts
  <2>6. y + z = now + b BY <1>2, <2>2, <2>4
  <2> QED BY <2>5, <2>6
<1>6. PICK u \in Int : u = now + b /\ Multiple(u, p) /\ Multiple(u, w)
  <2>1. PICK u \in Int : u = now + b OBVIOUS
  <2> QED BY <1>2, <1>5, <2>1, MultipleOfMultiple
<1>7. ASSUME b = 0 PROVE a = 0 /\ c = 0
  <2>1. PICK d \in Int : d = w * c /\ Multiple(d, w) /\ 0 <= d /\ d < p
    <3>1. w * c = c * w /\ w * c \in Int /\ 0 <= w * c OBVIOUS
    <3>2. Multiple(c * w, w) BY DEF Multiple
    <3>3. w * c < p
      <4>1. (s - c) * w > 0 BY <1>3
      <4>2. (s - c) * w = s * w - c * w OBVIOUS
      <4> QED BY <1>2, <3>1, <4>1, <4>2
    <3> QED BY <3>1, <3>2, <3>3
  <2>2. Multiple(x - u, p) /\ Multiple(x - u, w) BY <1>2, <1>4, <1>6, MultipleFacts
  <2>3. x - u = a - d BY <1>3, <1>4, <1>6, <1>7, <2>1
  <2>4. PICK g \in Int : g = a - d /\ Multiple(g, p) /\ Multiple(g, w)
    BY <2>1, <2>2, <2>3
  <2>5. Multiple(g + d, w) BY <1>2, <2>1, <2>4, MultipleFacts
  <2>6. Multiple(a, w) BY <2>4, <2>5
  <2>7. a = 0
    <3>1. -w < a /\ a < w /\ a \in Int BY <1>2, <1>3
    <3> QED BY <1>2, <2>6, <3>1, SmallMultiple
  <2>8. d = 0
    <3>1. -p < g /\ g < p BY <1>2, <2>1, <2>4, <2>7
    <3>2. g = 0 BY <1>2, <2>4, <3>1, SmallMultiple
    <3> QED BY <2>1, <2>4, <2>7, <3>2
  <2>9. c = 0 BY <2>1, <2>8
  <2> QED BY <2>7, <2>9
<1>8. ASSUME a = 0, c = 0 PROVE b = 0
  <2>1. x = now BY <1>4, <1>8
  <2>2. Multiple(u - x, p) BY <1>2, <1>4, <1>6, MultipleFacts
  <2>3. Multiple(b, p) BY <1>6, <2>1, <2>2
  <2>4. -p < b /\ b < p /\ b \in Int BY <1>2, <1>3
  <2> QED BY <1>2, <2>3, <2>4, SmallMultiple
<1> QED BY <1>3, <1>7, <1>8

LEMMA TurnedFacts ==
  ASSUME NEW now \in Int, NEW rest, InStep(rest, now, index, FALSE)
  PROVE  /\ Turned \in 1..5
         /\ \A n \in 2..5 : rest[n] = 0 <=> n <= Turned
<1> DEFINE Good(d) == /\ \A n \in 1..(d - 1) : index[n] = 0
                      /\ d < 5 => index[d] # 0
           T == {d \in 1..5 : d = 5 \/ index[d] # 0}
<1>1. PICK d \in T : \A k \in T : d <= k
  <2>1. T \subseteq Nat /\ 5 \in T OBVIOUS
  <2> HIDE DEF T
  <2> QED BY <2>1, LeastNumber
<1>2. d \in 1..5 /\ (d < 5 => index[d] # 0) BY <1>1
<1>3. ASSUME NEW n \in 1..(d - 1) PROVE index[n] = 0
  <2>1. n \in 1..5 /\ n < d BY <1>2
  <2>2. n \notin T BY <1>1, <2>1
  <2> QED BY <2>1, <2>2
<1>4. PICK t \in 1..5 : t = Turned /\ Good(t)
  <2>1. Turned = CHOOSE k \in 1..5 : Good(k) BY Zenon DEF Turned
  <2>2. \E k \in 1..5 : Good(k) BY <1>2, <1>3
  <2> HIDE DEF Good
  <2> QED BY <2>1, <2>2
<1>5. rest[1] = 0 BY DEF InStep
<1>6. \A n \in 1..4 : rest[n + 1] = 0 <=> rest[n] = 0 /\ index[n] = 0
  BY RestFacts
<1>7. /\ rest[2] = 0 <=> rest[1] = 0 /\ index[1] = 0
      /\ rest[3] = 0 <=> rest[2] = 0 /\ index[2] = 0
      /\ rest[4] = 0 <=> rest[3] = 0 /\ index[3] = 0
      /\ rest[5] = 0 <=> rest[4] = 0 /\ index[4] = 0
  BY <1>6
<1>8. \A n \in 1..4 : /\ n < t => index[n] = 0
                      /\ n = t => index[n] # 0
  BY <1>4
<1>9. \A n \in 2..5 : n = 2 \/ n = 3 \/ n = 4 \/ n = 5 OBVIOUS
<1>10. t = 1 \/ t = 2 \/ t = 3 \/ t = 4 \/ t = 5 OBVIOUS
<1> QED BY <1>4, <1>5, <1>7, <1>8, <1>9, <1>10

\* All levels that cascade do so.
LEMMA CascadedFacts ==
  ASSUME vec \in Wheels, Unique(vec), timer_jiffies \in 0 .. Word - 1,
         NEW rest, InStep(rest, timer_jiffies, index, FALSE),
         Fits(vec, rest, timer_jiffies, index), expires \in [Timer -> 0 .. Word - 1]
  PROVE  /\ Cascaded \in Wheels /\ In(Cascaded) = In(vec) /\ Unique(Cascaded)
         /\ Fits(Cascaded, rest, timer_jiffies, index)
         /\ \A n \in 2..Turned : Cascaded[<<n, index[n]>>] = << >>
<1> DEFINE Good(f) == f = [n \in 1..5 |-> IF n = 1 THEN vec ELSE cascade_timers(f[n - 1], n)]
           u2 == cascade_timers(vec, 2)
           u3 == cascade_timers(u2, 3)
           u4 == cascade_timers(u3, 4)
           u5 == cascade_timers(u4, 5)
           u == [n \in 1..5 |-> IF n = 1 THEN vec ELSE IF n = 2 THEN u2
                                ELSE IF n = 3 THEN u3 ELSE IF n = 4 THEN u4 ELSE u5]
<1>1. timer_jiffies \in Int /\ Turned \in 1..5 /\ \A n \in 2..5 : rest[n] = 0 <=> n <= Turned
  <2>1. timer_jiffies \in Int BY WheelFacts
  <2> QED BY <2>1, TurnedFacts
<1>2. Good(u)
  <2> HIDE DEF u2, u3, u4, u5
  <2>1. u[1] = vec /\ u[2] = u2 /\ u[3] = u3 /\ u[4] = u4 /\ u[5] = u5 OBVIOUS
  <2>2. \A n \in 1..5 : n = 1 \/ n = 2 \/ n = 3 \/ n = 4 \/ n = 5 OBVIOUS
  <2>3. \A n \in 1..5 : u[n] = IF n = 1 THEN vec ELSE cascade_timers(u[n - 1], n)
    <3> TAKE n \in 1..5
    <3>1. CASE n = 1 BY <2>1, <3>1
    <3>2. CASE n = 2 BY <2>1, <3>2 DEF u2
    <3>3. CASE n = 3 BY <2>1, <3>3 DEF u3
    <3>4. CASE n = 4 BY <2>1, <3>4 DEF u4
    <3>5. CASE n = 5 BY <2>1, <3>5 DEF u5
    <3> QED BY <2>2, <3>1, <3>2, <3>3, <3>4, <3>5
  <2>4. u = [n \in 1..5 |-> u[n]] OBVIOUS
  <2> HIDE DEF u
  <2> QED BY <2>3, <2>4, Zenon
<1> HIDE DEF u
<1>3. PICK f : f = CHOOSE c : Good(c) OBVIOUS
<1>4. Good(f)
  <2> HIDE DEF Good
  <2> QED BY <1>2, <1>3
<1>5. Cascaded = f[Turned] BY <1>3, Zenon DEF Cascaded
<1>6. f[1] = vec /\ \A n \in 1..4 : f[n + 1] = cascade_timers(f[n], n + 1)
  <2>1. \A n \in 1..5 : f[n] = IF n = 1 THEN vec ELSE cascade_timers(f[n - 1], n)
    BY <1>4, Zenon
  <2> HIDE DEF Good
  <2>2. ASSUME NEW n \in 1..4 PROVE f[n + 1] = cascade_timers(f[n], n + 1)
    <3>1. n + 1 \in 1..5 /\ n + 1 # 1 /\ (n + 1) - 1 = n OBVIOUS
    <3> QED BY <2>1, <3>1
  <2> QED BY <2>1, <2>2
<1> HIDE DEF Good
<1> DEFINE Done(w, n) == /\ w \in Wheels /\ In(w) = In(vec) /\ Unique(w)
                         /\ Fits(w, rest, timer_jiffies, index)
                         /\ \A m \in 2..n : w[<<m, index[m]>>] = << >>
           T == {n \in Nat : n + 1 <= Turned => Done(f[n + 1], n + 1)}
<1>7. 0 \in T BY <1>6
<1>8. ASSUME NEW n \in Nat, n \in T PROVE n + 1 \in T
  <2>1. SUFFICES ASSUME (n + 1) + 1 <= Turned PROVE Done(f[(n + 1) + 1], (n + 1) + 1)
    <3> HIDE DEF Done
    <3> QED OBVIOUS
  <2>2. PICK m \in 1..4 : m = n + 1 /\ m + 1 <= Turned /\ m <= Turned
    BY <1>1, <2>1
  <2>3. m + 1 \in 2..5 /\ rest[m + 1] = 0 BY <1>1, <2>2
  <2>4. PICK v : v = f[m] /\ Done(v, m)
    <3>1. Done(f[m], m) BY <1>8, <2>2
    <3> HIDE DEF Done
    <3> QED BY <3>1
  <2>5. PICK k \in 2..5 : k = m + 1 /\ rest[k] = 0 BY <2>3
  <2>6. PICK w : w = f[m + 1] /\ w = Emptied(Placed(v, v[<<k, index[k]>>], timer_jiffies, index),
                                             <<k, index[k]>>)
    BY <1>6, <2>4, <2>5 DEF cascade_timers, Emptied
  <2>7. /\ Unique(w) /\ Fits(w, rest, timer_jiffies, index)
        /\ Moved(v, w, k, rest, index)
    <3>1. /\ v \in Wheels /\ Unique(v) /\ timer_jiffies \in 0 .. Word - 1
          /\ InStep(rest, timer_jiffies, index, FALSE)
          /\ Fits(v, rest, timer_jiffies, index) /\ expires \in [Timer -> 0 .. Word - 1]
          /\ k \in 2..5 /\ rest[k] = 0
          /\ w = Emptied(Placed(v, v[<<k, index[k]>>], timer_jiffies, index), <<k, index[k]>>)
      BY <2>4, <2>5, <2>6
    <3> QED BY <2>4, <3>1, EmptiedFacts
  <2>8. ASSUME NEW l \in 2..k PROVE w[<<l, index[l]>>] = << >>
    <3>1. CASE l = k BY <2>7, <3>1 DEF Moved
    <3>2. CASE l # k
      <4>0. PICK t \in 1..5 : t = Turned BY <1>1
      <4>1. l \in 2..m /\ l \in 2..5 /\ l <= Turned BY <2>2, <2>5, <3>2, <4>0
      <4> QED BY <1>1, <2>4, <2>7, <3>2, <4>1 DEF Moved
    <3> QED BY <3>1, <3>2
  <2>9. Done(w, k) BY <2>4, <2>7, <2>8 DEF Moved
  <2> HIDE DEF Done
  <2> QED BY <2>2, <2>5, <2>6, <2>9
<1>9. \A n \in Nat : n \in T
  <2> HIDE DEF T
  <2> QED BY <1>7, <1>8, SetInduction
<1>10. Turned - 1 \in T /\ (Turned - 1) + 1 = Turned
  <2>1. PICK t \in 1..5 : t = Turned BY <1>1
  <2>2. t - 1 \in Nat /\ (t - 1) + 1 = t OBVIOUS
  <2> HIDE DEF T
  <2> QED BY <1>9, <2>1, <2>2
<1>11. Done(Cascaded, Turned)
  <2> HIDE DEF Done
  <2> QED BY <1>5, <1>10
<1> QED BY <1>11

\* An index goes on by one.
LEMMA NextSlot ==
  ASSUME NEW s \in Nat \ {0}, NEW w \in Nat \ {0}, NEW i \in 0 .. s - 1
  PROVE  /\ (i + 1) % s \in 0 .. s - 1
         /\ Multiple(w * (i + 1) - w * ((i + 1) % s), s * w)
         /\ \A q \in 1 .. s - 1 : (((i + 1) % s) + (q - 1)) % s = (i + q) % s
<1>1. PICK j \in Int : j = (i + 1) % s /\ j = IF i + 1 < s THEN i + 1 ELSE i + 1 - s
  <2>1. 1 \in 0 .. s OBVIOUS
  <2>2. (i + 1) % s = IF i + 1 < s THEN i + 1 ELSE i + 1 - s BY <2>1, OnceRound
  <2> QED BY <2>2
<1>2. j \in 0 .. s - 1 BY <1>1
<1>3. Multiple(w * (i + 1) - w * j, s * w)
  <2>1. CASE j = i + 1
    <3>1. w * (i + 1) - w * j = 0 * (s * w) BY <2>1
    <3> QED BY <3>1 DEF Multiple
  <2>2. CASE j = i + 1 - s
    <3>1. i + 1 = j + s BY <1>1, <2>2
    <3>2. w * (j + s) = w * j + s * w /\ w * j \in Int /\ s * w \in Int BY <1>1
    <3>3. w * (i + 1) - w * j = 1 * (s * w) BY <3>1, <3>2
    <3> QED BY <3>3 DEF Multiple
  <2> QED BY <1>1, <2>1, <2>2
<1>4. ASSUME NEW q \in 1 .. s - 1 PROVE (j + (q - 1)) % s = (i + q) % s
  <2>1. PICK a \in Int, b \in Int : a = j + (q - 1) /\ b = i + q BY <1>1
  <2>2. a - b = 0 * s \/ a - b = (-1) * s BY <1>1, <2>1
  <2>3. Multiple(a - b, s) BY <2>2 DEF Multiple
  <2> QED BY <2>1, <2>3, SameRemainder
<1> QED BY <1>1, <1>2, <1>3, <1>4

LEMMA AdvanceCascade ==
  ASSUME NEW now \in 0 .. Word - 1, NEW rest, InStep(rest, now, index, FALSE),
         NEW v \in Wheels, Fits(v, rest, now, index),
         \A n \in 2..Turned : v[<<n, index[n]>>] = << >>
  PROVE  \E r : /\ InStep(r, now, Advanced(2..Turned), TRUE)
                /\ Fits(v, r, now, Advanced(2..Turned))
<1>1. now \in Int /\ Turned \in 1..5 /\ \A n \in 2..5 : rest[n] = 0 <=> n <= Turned
  <2>1. now \in Int BY WheelFacts
  <2> QED BY <2>1, TurnedFacts
<1>2. PICK L : L = 2..Turned /\ L \subseteq 2..5 /\ \A n \in 2..5 : n \in L <=> rest[n] = 0
  <2>1. PICK t \in 1..5 : t = Turned BY <1>1
  <2> QED BY <1>1, <2>1
<1> DEFINE r == [n \in 1..5 |-> IF n \in L THEN Weight[n] ELSE rest[n]]
           i == [n \in 1..5 |-> IF n \in L THEN (index[n] + 1) % Size(n) ELSE index[n]]
<1>3. Advanced(2..Turned) = i BY <1>2 DEF Advanced
<1>4. ASSUME NEW n \in 1..5
      PROVE  /\ r[n] \in Nat /\ (n # 1 => 1 <= r[n] /\ r[n] <= Weight[n])
             /\ i[n] \in Nat /\ i[n] < Size(n)
             /\ Multiple((now + r[n]) - Weight[n] * i[n], Span(n))
             /\ \A q \in 1 .. Size(n) - 1 : n \in L =>
                  (i[n] + (q - 1)) % Size(n) = (index[n] + q) % Size(n)
             /\ n \notin L => r[n] = rest[n] /\ i[n] = index[n]
             /\ n \in L => r[n] = Weight[n] /\ rest[n] = 0 /\ n # 1
  <2>1. PICK w \in Nat \ {0}, s \in Nat \ {0} : w = Weight[n] /\ s = Size(n) /\ Span(n) = s * w
    BY WheelFacts DEF Span
  <2>2. /\ rest[n] \in Nat /\ rest[n] <= w /\ index[n] \in 0 .. s - 1
        /\ Multiple((now + rest[n]) - w * index[n], s * w)
    BY <1>1, <2>1, InStepFacts
  <2>3. CASE n \in L
    <3>1. r[n] = w /\ i[n] = (index[n] + 1) % s /\ rest[n] = 0 /\ n # 1
      BY <1>2, <2>1, <2>3
    <3>2. PICK c \in 0 .. s - 1 : c = index[n] BY <2>2
    <3>3. /\ (c + 1) % s \in 0 .. s - 1
          /\ Multiple(w * (c + 1) - w * ((c + 1) % s), s * w)
          /\ \A q \in 1 .. s - 1 : (((c + 1) % s) + (q - 1)) % s = (c + q) % s
      BY NextSlot
    <3>4. PICK j \in 0 .. s - 1 : j = (c + 1) % s BY <3>3
    <3>5. PICK a \in Int : a = (now + 0) - w * c /\ Multiple(a, s * w)
      <4>1. (now + 0) - w * c \in Int BY <1>1
      <4> QED BY <2>2, <3>1, <3>2, <4>1
    <3>6. PICK b \in Int : b = w * (c + 1) - w * j /\ Multiple(b, s * w)
      <4>1. w * (c + 1) - w * j \in Int OBVIOUS
      <4> QED BY <3>3, <3>4, <4>1
    <3>7. Multiple(a + b, s * w)
      <4>1. s * w \in Nat \ {0} OBVIOUS
      <4> QED BY <3>5, <3>6, <4>1, MultipleFacts
    <3>8. a + b = (now + w) - w * j
      <4>1. w * (c + 1) = w * c + w OBVIOUS
      <4>2. PICK g \in Int, h \in Int : g = w * c /\ h = w * j OBVIOUS
      <4>3. a = now - g /\ b = g + w - h BY <1>1, <3>5, <3>6, <4>1, <4>2
      <4>4. a + b = (now + w) - h BY <1>1, <4>2, <4>3
      <4> QED BY <4>2, <4>4
    <3>9. w <= w /\ 1 <= w /\ j \in Nat /\ j < s OBVIOUS
    <3> HIDE DEF r, i
    <3> QED BY <2>1, <2>3, <3>1, <3>2, <3>3, <3>4, <3>7, <3>8, <3>9
  <2>4. CASE n \notin L
    <3>1. r[n] = rest[n] /\ i[n] = index[n] BY <2>4
    <3>2. n # 1 => n \in 2..5 /\ rest[n] # 0 BY <1>2, <2>4
    <3>3. index[n] \in Nat /\ index[n] < s BY <2>2
    <3> HIDE DEF r, i
    <3> QED BY <2>1, <2>2, <2>4, <3>1, <3>2, <3>3
  <2> QED BY <2>3, <2>4
<1>5. InStep(r, now, i, TRUE)
  <2>1. r[1] = 0 BY <1>2, <1>4 DEF InStep
  <2>2. r \in [1..5 -> Nat] /\ i \in [1..5 -> Nat]
    <3>1. r = [n \in 1..5 |-> r[n]] /\ i = [n \in 1..5 |-> i[n]] OBVIOUS
    <3> HIDE DEF r, i
    <3> QED BY <1>4, <3>1
  <2> HIDE DEF r, i
  <2> QED BY <1>4, <2>1, <2>2 DEF InStep
<1>6. ASSUME NEW x \in Slots, NEW k \in DOMAIN v[x]
      PROVE  Window(expires[v[x][k]], x, r, now, i)
  <2>1. PICK e : e = expires[v[x][k]] /\ Window(e, x, rest, now, index) BY DEF Fits
  <2>2. PICK n \in 1..5 : n = x[1] /\ x = <<n, x[2]>> BY DEF Slots
  <2>3. CASE n \notin L
    <3>1. r[n] = rest[n] /\ i[n] = index[n] /\ i[1] = index[1]
      <4>1. 1 \notin L BY <1>2
      <4> QED BY <1>4, <2>3, <4>1
    <3> HIDE DEF r, i
    <3> QED BY <2>1, <2>2, <3>1 DEF Window, Within
  <2>4. CASE n \in L
    <3>1. PICK w \in Nat \ {0}, s \in Nat \ {0} : w = Weight[n] /\ s = Size(n)
      BY WheelFacts
    <3>2. r[n] = w /\ rest[n] = 0 /\ n # 1 BY <1>4, <2>4, <3>1
    <3>3. Within(e, x, rest, now, index) /\ ~Negative(Minus(e, now))
      BY <2>1, <2>2, <3>2 DEF Window
    <3>4. PICK q \in 0 .. s - 1 : /\ x[2] = (index[n] + q) % s
                                  /\ 0 + q * w <= Minus(e, now)
                                  /\ Minus(e, now) < 0 + (q + 1) * w
      BY <2>2, <3>1, <3>2, <3>3 DEF Within
    <3>5. q # 0
      <4>1. SUFFICES ASSUME q = 0 PROVE FALSE OBVIOUS
      <4>2. index[n] \in 0 .. s - 1 BY <1>1, <3>1, InStepFacts
      <4>0. PICK c \in 0 .. s - 1 : c = index[n] BY <4>2
      <4>6. 0 \in 0 .. s /\ c + 0 < s OBVIOUS
      <4>7. (c + 0) % s = IF c + 0 < s THEN c + 0 ELSE c + 0 - s
        BY <4>6, OnceRound, Zenon
      <4>8. (c + 0) % s = c BY <4>6, <4>7
      <4>3. (index[n] + 0) % s = index[n] BY <4>0, <4>8
      <4>4. x = <<n, index[n]>> BY <2>2, <3>4, <4>1, <4>3
      <4>5. v[x] = << >> BY <1>2, <2>4, <4>4
      <4> QED BY <4>5
    <3>6. q \in 1 .. s - 1 /\ q - 1 \in 0 .. s - 1 BY <3>5
    <3>7. x[2] = (i[n] + (q - 1)) % s BY <1>4, <2>4, <3>1, <3>4, <3>6
    <3>8. w + (q - 1) * w = 0 + q * w /\ w + ((q - 1) + 1) * w = 0 + (q + 1) * w OBVIOUS
    <3> HIDE DEF r, i
    <3>9. Within(e, x, r, now, i)
      BY <2>2, <3>1, <3>2, <3>4, <3>6, <3>7, <3>8 DEF Within
    <3> QED BY <2>1, <3>3, <3>9 DEF Window
  <2> QED BY <2>3, <2>4
<1> HIDE DEF r, i
<1> QED BY <1>3, <1>5, <1>6 DEF Fits

\* In the next tick an expiry is one tick less ahead.
LEMMA MinusNext ==
  ASSUME NEW e \in 0 .. Word - 1, NEW now \in 0 .. Word - 1
  PROVE  /\ (now + 1) % Word \in 0 .. Word - 1
         /\ Multiple(((now + 1) % Word) - (now + 1), Word)
         /\ Minus(e, (now + 1) % Word) = IF Minus(e, now) = 0 THEN Word - 1
                                         ELSE Minus(e, now) - 1
<1>1. PICK w \in Nat \ {0} : w = Word BY WheelFacts
<1>2. e \in Int /\ now \in Int BY <1>1
<1>3. PICK m \in 0 .. w - 1 : m = (now + 1) % w /\ m = IF now + 1 < w THEN now + 1 ELSE 0
  <2>1. now \in 0 .. w - 1 /\ 1 \in 0 .. w BY <1>1
  <2>2. (now + 1) % w = IF now + 1 < w THEN now + 1 ELSE now + 1 - w
    BY <2>1, OnceRound
  <2> QED BY <2>1, <2>2
<1>4. Multiple(m - (now + 1), w)
  <2>1. m - (now + 1) = 0 * w \/ m - (now + 1) = (-1) * w BY <1>1, <1>3
  <2> QED BY <2>1 DEF Multiple
<1>5. PICK d \in 0 .. w - 1 : d = Minus(e, now) /\ Multiple((e - now) - d, w)
  BY <1>1, <1>2, MinusFacts
<1>6. PICK f \in 0 .. w - 1 : f = Minus(e, m) /\ Multiple((e - m) - f, w)
  <2>1. m \in Int OBVIOUS
  <2> QED BY <1>1, <1>2, <2>1, MinusFacts
<1>7. PICK a \in Int, b \in Int, c \in Int :
        a = (e - now) - d /\ b = (e - m) - f /\ c = m - (now + 1)
  BY <1>2
<1>8. Multiple((a - b) - c, w)
  <2>1. PICK g \in Int : g = a - b /\ Multiple(g, w) BY <1>5, <1>6, <1>7, MultipleFacts
  <2>2. Multiple(g - c, w) BY <1>4, <1>7, <2>1, MultipleFacts
  <2> QED BY <2>1, <2>2
<1>9. (a - b) - c = (f - d) + 1 BY <1>2, <1>7
<1>10. PICK g \in Int : g = (f - d) + 1 /\ Multiple(g, w) BY <1>8, <1>9
<1>11. f = IF d = 0 THEN w - 1 ELSE d - 1
  <2>1. CASE d = 0
    <3>1. PICK h \in Int : h = g - w OBVIOUS
    <3>2. Multiple(h, w) BY <1>10, <3>1, MultipleFacts, ZeroAndSelf
    <3>3. -w < h /\ h < w BY <1>10, <2>1, <3>1
    <3>4. h = 0 BY <3>2, <3>3, SmallMultiple
    <3> QED BY <1>10, <2>1, <3>1, <3>4
  <2>2. CASE d # 0
    <3>1. -w < g /\ g < w BY <1>10, <2>2
    <3>2. g = 0 BY <1>10, <3>1, SmallMultiple
    <3> QED BY <1>10, <2>2, <3>2
  <2> QED BY <2>1, <2>2
<1> QED BY <1>1, <1>3, <1>4, <1>5, <1>6, <1>11

LEMMA AdvanceTick ==
  ASSUME NEW now \in 0 .. Word - 1, NEW rest, InStep(rest, now, index, TRUE),
         NEW v \in Wheels, Fits(v, rest, now, index), v[<<1, index[1]>>] = << >>,
         expires \in [Timer -> 0 .. Word - 1], NEW then, then = (now + 1) % Word
  PROVE  \E r : InStep(r, then, Advanced({1}), FALSE) /\ Fits(v, r, then, Advanced({1}))
<1>1. PICK W \in Nat \ {0} : W = Word BY WheelFacts
<1>2. now \in Int /\ then \in 0 .. W - 1 /\ Multiple(then - (now + 1), W)
  BY <1>1, MinusNext
<1> DEFINE r == [n \in 1..5 |-> IF n = 1 THEN 0 ELSE rest[n] - 1]
           i == [n \in 1..5 |-> IF n = 1 THEN (index[1] + 1) % Size(1) ELSE index[n]]
<1>3. Advanced({1}) = i
  <2>1. \A n \in 1..5 : n \in {1} <=> n = 1 OBVIOUS
  <2> QED BY <2>1 DEF Advanced
<1>4. /\ r[1] = 0 /\ i[1] = (index[1] + 1) % Size(1)
      /\ \A n \in 2..5 : r[n] = rest[n] - 1 /\ i[n] = index[n] /\ rest[n] \in Nat
                         /\ 1 <= rest[n] /\ rest[n] <= Weight[n]
  BY DEF InStep
<1>5. r = [n \in 1..5 |-> r[n]] /\ i = [n \in 1..5 |-> i[n]] OBVIOUS
<1> HIDE DEF r, i
<1>6. ASSUME NEW n \in 1..5
      PROVE  /\ r[n] \in Nat /\ r[n] < Weight[n]
             /\ i[n] \in Nat /\ i[n] < Size(n)
             /\ Multiple((then + r[n]) - Weight[n] * i[n], Span(n))
             /\ n = 1 => \A q \in 1 .. Size(n) - 1 :
                           (i[n] + (q - 1)) % Size(n) = (index[n] + q) % Size(n)
  <2>1. PICK w \in Nat \ {0}, s \in Nat \ {0} :
          w = Weight[n] /\ s = Size(n) /\ Span(n) = s * w /\ s * w \in Nat \ {0}
    BY WheelFacts DEF Span
  <2>2. /\ rest[n] \in Nat /\ rest[n] <= w /\ index[n] \in 0 .. s - 1
        /\ Multiple((now + rest[n]) - w * index[n], s * w)
    BY <1>2, <2>1, InStepFacts
  <2>3. PICK c \in 0 .. s - 1 : c = index[n] BY <2>2
  <2>4. PICK a \in Int : a = (now + rest[n]) - w * c /\ Multiple(a, s * w)
    <3>1. PICK h \in Int : h = w * c OBVIOUS
    <3>2. PICK d \in Int : d = rest[n] BY <2>2
    <3>3. (now + d) - h \in Int BY <1>2
    <3> QED BY <2>2, <2>3, <3>1, <3>2, <3>3
  <2>5. PICK g \in Int : g = then - (now + 1) /\ Multiple(g, s * w)
    <3>1. PICK g \in Int : g = then - (now + 1) BY <1>2
    <3>2. PICK z \in Nat \ {0} : z = s * w BY <2>1
    <3>3. Multiple(g, W) /\ Multiple(W, z) BY <1>1, <1>2, <2>1, <3>1, <3>2, SpanDivides
    <3>4. Multiple(g, z) BY <3>1, <3>2, <3>3, MultipleOfMultiple
    <3> QED BY <3>1, <3>2, <3>4
  <2>6. Multiple(a + g, s * w) BY <2>1, <2>4, <2>5, MultipleFacts
  <2>7. CASE n = 1
    <3>1. /\ (c + 1) % s \in 0 .. s - 1
          /\ Multiple(w * (c + 1) - w * ((c + 1) % s), s * w)
          /\ \A q \in 1 .. s - 1 : (((c + 1) % s) + (q - 1)) % s = (c + q) % s
      BY NextSlot
    <3>2. PICK j \in 0 .. s - 1 : j = (c + 1) % s BY <3>1
    <3>3. PICK b \in Int : b = w * (c + 1) - w * j /\ Multiple(b, s * w)
      <4>1. w * (c + 1) - w * j \in Int OBVIOUS
      <4> QED BY <3>1, <3>2, <4>1
    <3>4. Multiple((a + g) + b, s * w)
      <4>1. a + g \in Int OBVIOUS
      <4> QED BY <2>1, <2>6, <3>3, <4>1, MultipleFacts
    <3>5. (a + g) + b = (then + 0) - w * j
      <4>1. w = 1 /\ rest[n] = 0 BY <2>1, <2>7, WheelFacts DEF InStep
      <4>2. w * c = c /\ w * (c + 1) = c + 1 /\ w * j = j BY <4>1
      <4>3. a = now - c /\ g = then - (now + 1) /\ b = (c + 1) - j
        BY <1>2, <2>4, <2>5, <3>3, <4>1, <4>2
      <4>4. PICK x \in Int : x = then BY <1>2
      <4>5. PICK y \in Int : y = now BY <1>2
      <4>6. a = y - c /\ g = x - (y + 1) /\ b = (c + 1) - j BY <4>3, <4>4, <4>5
      <4>7. (a + g) + b = x - j BY <4>6
      <4> QED BY <4>2, <4>4, <4>7
    <3>6. r[n] = 0 /\ i[n] = j BY <1>4, <2>1, <2>3, <2>7, <3>2
    <3>7. j \in Nat /\ j < s /\ 0 < w OBVIOUS
    <3> QED BY <2>1, <2>3, <3>1, <3>2, <3>4, <3>5, <3>6, <3>7
  <2>8. CASE n # 1
    <3>1. n \in 2..5 BY <2>8
    <3>2. r[n] = rest[n] - 1 /\ i[n] = c /\ 1 <= rest[n] BY <1>4, <2>3, <3>1
    <3>3. PICK h \in Int : h = w * c OBVIOUS
    <3>8. PICK y \in Nat : y = rest[n] BY <2>2
    <3>9. y <= w /\ 1 <= y /\ r[n] = y - 1 /\ a = (now + y) - h
      BY <2>2, <2>4, <3>2, <3>3, <3>8
    <3>4. r[n] \in Nat /\ r[n] < w BY <3>9
    <3>5. a + g = (then + r[n]) - h BY <1>2, <2>5, <3>9
    <3>6. c \in Nat /\ c < s OBVIOUS
    <3>7. Multiple((then + r[n]) - w * c, s * w) BY <2>6, <3>3, <3>5
    <3> QED BY <2>1, <2>8, <3>2, <3>4, <3>6, <3>7
  <2> QED BY <2>7, <2>8
<1>7. InStep(r, then, i, FALSE)
  <2>1. r \in [1..5 -> Nat] /\ i \in [1..5 -> Nat] BY <1>5, <1>6
  <2> QED BY <1>4, <1>6, <2>1 DEF InStep
<1>8. ASSUME NEW x \in Slots, NEW k \in DOMAIN v[x]
      PROVE  Window(expires[v[x][k]], x, r, then, i)
  <2>1. PICK e \in 0 .. Word - 1 : e = expires[v[x][k]] /\ Window(e, x, rest, now, index)
    <3>1. v[x][k] \in Timer BY DEF Wheels
    <3> QED BY <3>1 DEF Fits
  <2>2. PICK n \in 1..5 : n = x[1] /\ x = <<n, x[2]>> BY DEF Slots
  <2>3. x # <<1, index[1]>> OBVIOUS
  <2>4. Within(e, x, rest, now, index) /\ ~Negative(Minus(e, now)) BY <2>1, <2>3 DEF Window
  <2>5. PICK w \in Nat \ {0}, s \in Nat \ {0} : w = Weight[n] /\ s = Size(n)
    BY WheelFacts
  <2>6. PICK d \in 0 .. W - 1 : d = Minus(e, now) /\
          Minus(e, then) = IF d = 0 THEN W - 1 ELSE d - 1
    <3>1. Minus(e, now) \in 0 .. Word - 1
      <4>1. e \in Int /\ now \in Int BY <1>1
      <4> QED BY <4>1, MinusFacts
    <3> QED BY <1>1, <3>1, MinusNext
  <2>7. PICK q \in 0 .. s - 1 : /\ x[2] = (index[n] + q) % s
                                /\ rest[n] + q * w <= d /\ d < rest[n] + (q + 1) * w
    BY <2>2, <2>4, <2>5, <2>6 DEF Within
  <2>8. PICK z \in Nat : z = q * w /\ (q + 1) * w = z + w /\ (q - 1) * w = z - w OBVIOUS
  <2>11. d # 0 => ~Negative(Minus(e, then))
    <3>1. SUFFICES ASSUME d # 0 PROVE ~Negative(d - 1) BY <2>6
    <3>2. PICK g \in Nat : g = Sign BY WheelFacts
    <3>3. d < g BY <1>1, <2>4, <2>6, <3>2 DEF Negative
    <3>4. ~(d - 1 >= g) BY <3>3
    <3> QED BY <3>2, <3>4 DEF Negative
  <2>9. CASE n = 1
    <3>1. w = 1 /\ rest[n] = 0 /\ r[n] = 0 BY <1>4, <2>5, <2>9, WheelFacts DEF InStep
    <3>2. d = q /\ z = q BY <2>7, <2>8, <3>1
    <3>3. q # 0
      <4>1. SUFFICES ASSUME q = 0 PROVE FALSE OBVIOUS
      <4>2. index[n] \in 0 .. s - 1 BY <1>2, <2>5, InStepFacts
      <4>3. PICK c \in 0 .. s - 1 : c = index[n] BY <4>2
      <4>4. 0 \in 0 .. s /\ c + 0 < s OBVIOUS
      <4>5. (c + 0) % s = IF c + 0 < s THEN c + 0 ELSE c + 0 - s
        BY <4>4, OnceRound, Zenon
      <4>6. (c + 0) % s = c BY <4>4, <4>5
      <4> QED BY <2>2, <2>3, <2>7, <2>9, <4>1, <4>3, <4>6
    <3>4. q \in 1 .. s - 1 /\ q - 1 \in 0 .. s - 1 BY <3>3
    <3>5. x[2] = (i[n] + (q - 1)) % s BY <1>6, <2>5, <2>7, <2>9, <3>4
    <3>6. Minus(e, then) = q - 1 BY <2>6, <3>2, <3>3
    <3>7. 0 + (q - 1) * w <= q - 1 /\ q - 1 < 0 + ((q - 1) + 1) * w BY <3>1
    <3>8. Within(e, x, r, then, i)
      BY <2>2, <2>5, <3>1, <3>4, <3>5, <3>6, <3>7 DEF Within
    <3> QED BY <2>1, <2>11, <3>2, <3>3, <3>8 DEF Window
  <2>10. CASE n # 1
    <3>1. n \in 2..5 BY <2>10
    <3>2. PICK c \in Nat : c = rest[n] /\ r[n] = c - 1 /\ 1 <= c /\ i[n] = index[n]
      BY <1>4, <3>1
    <3>6. c + z <= d /\ d < c + (z + w)
      <4>1. c + q * w <= d /\ d < c + (q + 1) * w BY <2>7, <3>2
      <4> QED BY <2>8, <4>1
    <3>9. 1 <= d
      <4>1. 1 <= c /\ 0 <= z BY <3>2
      <4> QED BY <1>1, <3>6, <4>1
    <3>3. d # 0 /\ Minus(e, then) = d - 1 BY <2>6, <3>9
    <3>7. (c - 1) + z <= d - 1 /\ d - 1 < (c - 1) + (z + w)
      <4>1. PICK b \in Int : b = d BY <1>1
      <4>2. c + z <= b /\ b < c + (z + w) BY <3>6, <4>1
      <4>3. (c - 1) + z <= b - 1 /\ b - 1 < (c - 1) + (z + w) BY <4>2
      <4> QED BY <4>1, <4>3
    <3>4. (c - 1) + q * w <= d - 1 /\ d - 1 < (c - 1) + (q + 1) * w
      BY <2>8, <3>7
    <3>5. Within(e, x, r, then, i)
      BY <2>2, <2>5, <2>7, <3>2, <3>3, <3>4 DEF Within
    <3> QED BY <2>1, <2>11, <3>3, <3>5 DEF Window
  <2> QED BY <2>9, <2>10
<1> QED BY <1>3, <1>7, <1>8 DEF Fits

------------------------------------------------------------------------------
(* The inductive invariant of the wheel                                      *)

\* The thread is at the tick jiffies, or done with it; before the first tick
\* it is one behind.
TimeInv ==
  /\ pc = "wait" => (jiffies + 1) % Word = timer_jiffies \/ (jiffies = 0 /\ timer_jiffies = 0)
  /\ pc = "tick" \/ running => timer_jiffies = jiffies \/ (jiffies = 1 /\ timer_jiffies = 0)
  /\ pc = "turn" => timer_jiffies = jiffies \/ (jiffies + 1) % Word = timer_jiffies

Alive == {t \in Timer : adding[t] = "added" /\ t \notin freed}

\* No timer is twice in the wheel, twice in what was added while it turns, or
\* in two of these and the hands of the thread; those there are those added.
PlaceInv ==
  /\ Unique(vec) /\ Injective(queued)
  /\ In(vec) \cap Elements(queued) = {}
  /\ cur \notin In(vec) /\ cur \notin Elements(queued)
  /\ In(vec) \cup Elements(queued) \cup (Timer \cap {cur}) = Alive
  /\ ~running => queued = << >>

WheelInv ==
  \E rest : /\ InStep(rest, timer_jiffies, index, running)
            /\ Fits(vec, rest, timer_jiffies, index)

Core == TypeOK /\ TimeInv /\ PlaceInv /\ WheelInv

LEMMA TypeFacts ==
  ASSUME TypeOK
  PROVE  /\ jiffies \in 0 .. Word - 1 /\ timer_jiffies \in 0 .. Word - 1
         /\ jiffies \in Int /\ timer_jiffies \in Int
         /\ vec \in Wheels /\ queued \in Seq(Timer)
         /\ running \in BOOLEAN
         /\ running <=> pc \in {"slot", "call", "callback", "reuse", "readd", "next"}
         /\ cur \in Timer <=> pc \in {"call", "callback", "reuse", "readd"}
         /\ expires \in [Timer -> 0 .. Word - 1]
<1>1. jiffies \in 0 .. Word - 1 /\ timer_jiffies \in 0 .. Word - 1 BY DEF TypeOK
<1>2. jiffies \in Int /\ timer_jiffies \in Int BY <1>1, WheelFacts
<1>3. vec \in Wheels /\ queued \in Seq(Timer) BY DEF TypeOK, Wheels
<1>4. /\ running <=> pc \in {"slot", "call", "callback", "reuse", "readd", "next"}
      /\ cur \in Timer <=> pc \in {"call", "callback", "reuse", "readd"}
  BY DEF TypeOK
<1>5. running \in BOOLEAN BY DEF TypeOK
<1>6. expires \in [Timer -> 0 .. Word - 1] BY DEF TypeOK
<1> QED BY <1>1, <1>2, <1>3, <1>4, <1>5, <1>6

LEMMA PeriodFacts ==
  ASSUME NEW t \in Timer PROVE Periods[t] \subseteq Nat
BY PeriodsAssumption

LEMMA SignFacts ==
  ASSUME NEW d \in 0 .. Word - 1
  PROVE  /\ Negative(d) <=> d >= Sign
         /\ ~Negative(0) /\ ~Negative(1) /\ Negative(Word - 1)
BY WheelFacts DEF Negative

\* The first timer of a slot is taken out.
LEMMA TakenFacts ==
  ASSUME NEW v \in Wheels, Unique(v), NEW x \in Slots, v[x] # << >>,
         NEW w, w = [v EXCEPT ![x] = Tail(@)]
  PROVE  /\ w \in Wheels /\ Unique(w)
         /\ Head(v[x]) \in Timer /\ Head(v[x]) \in In(v)
         /\ In(w) = In(v) \ {Head(v[x])}
         /\ \A rest, now, i : Fits(v, rest, now, i) => Fits(w, rest, now, i)
<1>1. PICK s \in Seq(Timer) : s = v[x] /\ s # << >> BY DEF Wheels
<1>2. /\ Len(s) \in Nat \ {0} /\ DOMAIN s = 1..Len(s)
      /\ Head(s) = s[1] /\ Head(s) \in Timer
      /\ Tail(s) \in Seq(Timer) /\ DOMAIN Tail(s) = 1..(Len(s) - 1)
      /\ \A k \in 1..(Len(s) - 1) : Tail(s)[k] = s[k + 1]
  BY <1>1
<1>3. /\ w \in Wheels /\ w[x] = Tail(s)
      /\ \A y \in Slots : y # x => w[y] = v[y]
  BY <1>1, <1>2 DEF Wheels
<1> DEFINE place(y, k) == IF y = x THEN k + 1 ELSE k
<1>4. ASSUME NEW y \in Slots, NEW k \in DOMAIN w[y]
      PROVE  /\ place(y, k) \in DOMAIN v[y] /\ v[y][place(y, k)] = w[y][k]
             /\ y = x => place(y, k) # 1 /\ k \in Int
  <2>1. CASE y = x
    <3>1. k \in 1..(Len(s) - 1) BY <1>2, <1>3, <2>1
    <3>2. k + 1 \in 1..Len(s) /\ k + 1 # 1 /\ k \in Int BY <1>2, <3>1
    <3>3. place(y, k) = k + 1 BY <2>1
    <3>4. w[y][k] = s[k + 1] /\ v[y] = s BY <1>1, <1>2, <1>3, <2>1, <3>1
    <3> HIDE DEF place
    <3> QED BY <1>2, <3>2, <3>3, <3>4
  <2>2. CASE y # x BY <1>3, <2>2
  <2> QED BY <2>1, <2>2
<1>5. ASSUME NEW y \in Slots, NEW k \in DOMAIN v[y], ~(y = x /\ k = 1)
      PROVE  \E l \in DOMAIN w[y] : w[y][l] = v[y][k]
  <2>1. CASE y = x
    <3>1. k \in 1..Len(s) /\ k # 1 BY <1>1, <1>2, <1>5, <2>1
    <3>2. k - 1 \in 1..(Len(s) - 1) /\ (k - 1) + 1 = k BY <1>2, <3>1
    <3>3. k - 1 \in DOMAIN w[y] /\ w[y][k - 1] = v[y][k] BY <1>1, <1>2, <1>3, <2>1, <3>2
    <3> QED BY <3>3
  <2>2. CASE y # x BY <1>3, <2>2
  <2> QED BY <2>1, <2>2
<1>6. 1 \in DOMAIN v[x] /\ v[x][1] = Head(s) BY <1>1, <1>2
<1>7. Unique(w)
  <2> SUFFICES ASSUME NEW y \in Slots, NEW z \in Slots,
                      NEW k \in DOMAIN w[y], NEW l \in DOMAIN w[z], w[y][k] = w[z][l]
               PROVE  y = z /\ k = l
    BY DEF Unique
  <2>1. /\ place(y, k) \in DOMAIN v[y] /\ v[y][place(y, k)] = w[y][k]
        /\ place(z, l) \in DOMAIN v[z] /\ v[z][place(z, l)] = w[z][l]
    BY <1>4
  <2>2. y = z /\ place(y, k) = place(z, l)
    <3> HIDE DEF place
    <3> QED BY <2>1 DEF Unique
  <2>3. y = x => k \in Int /\ l \in Int
    <3> HIDE DEF place
    <3> QED BY <1>4, <2>2
  <2> QED BY <2>2, <2>3
<1>8. In(w) = In(v) \ {Head(s)}
  <2>1. ASSUME NEW t \in In(w) PROVE t \in In(v) /\ t # Head(s)
    <3>1. PICK y \in Slots : \E k \in DOMAIN w[y] : w[y][k] = t BY DEF In
    <3>0. PICK k \in DOMAIN w[y] : w[y][k] = t BY <3>1
    <3>2. place(y, k) \in DOMAIN v[y] /\ v[y][place(y, k)] = t /\ (y = x => place(y, k) # 1)
      BY <1>4, <3>0
    <3> HIDE DEF place
    <3>3. t \in In(v) BY <2>1, <3>2 DEF In
    <3>4. t # Head(s) BY <1>6, <3>2 DEF Unique
    <3> QED BY <3>3, <3>4
  <2>2. ASSUME NEW t \in In(v), t # Head(s) PROVE t \in In(w)
    <3>1. PICK y \in Slots : \E k \in DOMAIN v[y] : v[y][k] = t BY DEF In
    <3>0. PICK k \in DOMAIN v[y] : v[y][k] = t BY <3>1
    <3>2. ~(y = x /\ k = 1) BY <1>6, <2>2, <3>0
    <3>3. \E l \in DOMAIN w[y] : w[y][l] = t BY <1>5, <3>0, <3>2
    <3> QED BY <2>2, <3>3 DEF In
  <2> QED BY <2>1, <2>2
<1>9. Head(s) \in In(v) BY <1>2, <1>6 DEF In
<1>10. ASSUME NEW rest, NEW now, NEW i, Fits(v, rest, now, i) PROVE Fits(w, rest, now, i)
  <2> SUFFICES ASSUME NEW y \in Slots, NEW k \in DOMAIN w[y]
               PROVE  Window(expires[w[y][k]], y, rest, now, i)
    BY DEF Fits
  <2>1. place(y, k) \in DOMAIN v[y] /\ v[y][place(y, k)] = w[y][k] BY <1>4
  <2> HIDE DEF place
  <2> QED BY <1>10, <2>1 DEF Fits
<1> QED BY <1>1, <1>2, <1>3, <1>7, <1>8, <1>9, <1>10

LEMMA InitCore == ASSUME Init PROVE Core
<1>1. 0 \in 0 .. Word - 1 /\ 0 \in Nat BY WheelFacts
<1>2. TypeOK
  <2>1. \A n \in 1..5 : Size(n) \in Nat \ {0} BY WheelFacts
  <2>2. index \in [1..5 -> Nat] /\ \A n \in 1..5 : index[n] < Size(n) BY <2>1 DEF Init
  <2>3. vec \in [Slots -> Seq(Timer)] /\ queued \in Seq(Timer) BY DEF Init
  <2>4. cur \notin Timer /\ running = FALSE /\ pc = "wait" BY TimerAssumption DEF Init
  <2>5. running <=> pc \in {"slot", "call", "callback", "reuse", "readd", "next"}
    BY <2>4
  <2>6. cur \in Timer <=> (pc \in {"call", "callback", "reuse", "readd"}) BY <2>4
  <2>7. /\ adding \in [Timer -> {"none", "alloc", "listed", "added"}]
        /\ expires \in [Timer -> 0 .. Word - 1] /\ fgRemove \in [Timer -> BOOLEAN]
        /\ msec \in [Timer -> Nat] /\ \A t \in Timer : msec[t] \in Periods[t] \cup {0}
    BY <1>1 DEF Init
  <2>8. /\ {jiffies, timer_jiffies} \subseteq 0 .. Word - 1
        /\ {running, repeat, fgRun} \subseteq BOOLEAN /\ freed \subseteq Timer
    BY <1>1, <2>4 DEF Init
  <2> QED BY <2>2, <2>3, <2>5, <2>6, <2>7, <2>8, Zenon DEF TypeOK
<1>3. TimeInv BY DEF Init, TimeInv
<1>4. PlaceInv
  <2>1. In(vec) = {} /\ Unique(vec) BY DEF Init, In, Unique
  <2>2. Elements(queued) = {} /\ Injective(queued) BY DEF Init, Elements, Injective
  <2>3. Alive = {} BY DEF Init, Alive
  <2>4. cur \notin Timer BY TimerAssumption DEF Init
  <2> QED BY <2>1, <2>2, <2>3, <2>4 DEF Init, PlaceInv
<1>5. WheelInv
  <2> DEFINE r == [n \in 1..5 |-> 0]
  <2>1. Fits(vec, r, timer_jiffies, index) BY DEF Init, Fits
  <2>2. ASSUME NEW n \in 1..5
        PROVE  0 < Weight[n] /\ 0 < Size(n) /\ Multiple((0 + 0) - Weight[n] * 0, Span(n))
    <3>1. PICK w \in Nat \ {0}, a \in Nat \ {0} : w = Weight[n] /\ a = Span(n)
      BY WheelFacts
    <3>2. (0 + 0) - w * 0 = 0 OBVIOUS
    <3>3. Multiple((0 + 0) - w * 0, a) BY <3>2, ZeroAndSelf
    <3>4. 0 < Size(n) BY WheelFacts
    <3> QED BY <3>1, <3>3, <3>4
  <2>3. InStep(r, 0, [n \in 1..5 |-> 0], FALSE)
    <3>1. r \in [1..5 -> Nat] /\ r[1] = 0 /\ \A n \in 1..5 : r[n] = 0 OBVIOUS
    <3>2. [n \in 1..5 |-> 0] \in [1..5 -> Nat] /\ \A n \in 1..5 : [m \in 1..5 |-> 0][n] = 0
      OBVIOUS
    <3> HIDE DEF r
    <3> QED BY <2>2, <3>1, <3>2 DEF InStep
  <2>4. InStep(r, timer_jiffies, index, running) BY <2>3 DEF Init
  <2> QED BY <2>1, <2>4 DEF WheelInv
<1> QED BY <1>2, <1>3, <1>4, <1>5 DEF Core

\* What a step does that lets the wheel alone.
LEMMA WheelKept ==
  ASSUME WheelInv, UNCHANGED <<timer_jiffies, index, vec, running>>,
         \A t \in In(vec) : expires'[t] = expires[t], vec \in Wheels
  PROVE  WheelInv'
<1>1. PICK rest : InStep(rest, timer_jiffies, index, running) /\ Fits(vec, rest, timer_jiffies, index)
  BY DEF WheelInv
<1>2. \A x \in Slots : \A k \in DOMAIN vec[x] : vec[x][k] \in In(vec)
  <2> TAKE x \in Slots
  <2> TAKE k \in DOMAIN vec[x]
  <2>1. vec[x] \in Seq(Timer) BY DEF Wheels
  <2>2. vec[x][k] \in Timer BY <2>1
  <2> QED BY <2>2 DEF In
<1>3. ASSUME NEW x \in Slots, NEW k \in DOMAIN vec[x]
      PROVE  Window(expires'[vec[x][k]], x, rest, timer_jiffies, index)
  BY <1>1, <1>2 DEF Fits
<1>4. Fits(vec, rest, timer_jiffies, index)' BY <1>3 DEF Fits
<1>5. InStep(rest, timer_jiffies, index, running)' BY <1>1
<1> QED BY <1>4, <1>5 DEF WheelInv

\* The wheel after a step that turns it or puts timers into it.
LEMMA WheelNew ==
  ASSUME NEW rest, InStep(rest, timer_jiffies', index', running'),
         Fits(vec', rest, timer_jiffies', index'), expires' = expires
  PROVE  WheelInv'
<1>1. Fits(vec, rest, timer_jiffies, index)' BY DEF Fits
<1> QED BY <1>1 DEF WheelInv

LEMMA TickKeeps == ASSUME Core, Tick PROVE Core'
<1>1. TypeOK /\ TimeInv /\ PlaceInv /\ WheelInv BY DEF Core
<1>2. PICK j \in 0 .. Word - 1 : j = (jiffies + 1) % Word
  BY <1>1, TypeFacts, MinusNext
<1>3. TypeOK' BY <1>1, <1>2 DEF Tick, TypeOK, wheel, timers
<1>4. TimeInv'
  <2>1. jiffies = 0 => j = 1
    <3>1. Word >= 4 BY WheelFacts
    <3>2. 0 \in 0 .. Word - 1 /\ 1 \in 0 .. Word /\ Word \in Nat \ {0} BY <3>1, WheelFacts
    <3>3. (0 + 1) % Word = IF 0 + 1 < Word THEN 0 + 1 ELSE 0 + 1 - Word
      BY <3>2, OnceRound, Zenon
    <3> QED BY <1>2, <3>1, <3>2, <3>3
  <2> QED BY <1>1, <1>2, <2>1, TypeFacts DEF Tick, TimeInv, wheel, timers
<1>5. PlaceInv' BY <1>1 DEF Tick, PlaceInv, Alive, wheel, timers, In, Elements, Unique, Injective
<1>6. WheelInv' BY <1>1, TypeFacts, WheelKept DEF Tick, wheel, timers
<1> QED BY <1>3, <1>4, <1>5, <1>6 DEF Core

LEMMA CascadeKeeps == ASSUME Core, Cascade PROVE Core'
<1>1. TypeOK /\ TimeInv /\ PlaceInv /\ WheelInv BY DEF Core
<1>2. ~running /\ pc \in {"tick", "turn"} BY <1>1, TypeFacts DEF Cascade
<1>3. PICK rest : /\ InStep(rest, timer_jiffies, index, FALSE)
                  /\ Fits(vec, rest, timer_jiffies, index)
  <2>1. running = FALSE BY <1>1, <1>2, TypeFacts
  <2> QED BY <1>1, <2>1 DEF WheelInv
<1>4. PICK v \in Wheels :
        /\ v = Cascaded /\ In(v) = In(vec) /\ Unique(v)
        /\ Fits(v, rest, timer_jiffies, index)
        /\ \A n \in 2..Turned : v[<<n, index[n]>>] = << >>
  <2>1. /\ vec \in Wheels /\ Unique(vec) /\ timer_jiffies \in 0 .. Word - 1
        /\ expires \in [Timer -> 0 .. Word - 1]
    BY <1>1, TypeFacts DEF PlaceInv
  <2> QED BY <1>3, <2>1, CascadedFacts
<1>5. WheelInv'
  <2>1. timer_jiffies \in 0 .. Word - 1 BY <1>1, TypeFacts
  <2>2. PICK r : /\ InStep(r, timer_jiffies, Advanced(2..Turned), TRUE)
                 /\ Fits(v, r, timer_jiffies, Advanced(2..Turned))
    BY <1>3, <1>4, <2>1, AdvanceCascade
  <2>3. /\ timer_jiffies' = timer_jiffies /\ index' = Advanced(2..Turned) /\ running' = TRUE
        /\ vec' = v /\ expires' = expires
    BY <1>4 DEF Cascade, timers
  <2> QED BY <2>2, <2>3, WheelNew
<1>6. TypeOK'
  <2>1. index' \in [1..5 -> Nat] /\ \A n \in 1..5 : index'[n] < Size(n)
    BY <1>5 DEF WheelInv, InStep
  <2>2. vec' \in [Slots -> Seq(Timer)] /\ queued' \in Seq(Timer)
    BY <1>4 DEF Cascade, Wheels
  <2>3. running' = TRUE /\ pc' = "slot" /\ cur' = cur /\ cur \notin Timer
    BY <1>1, <1>2, TypeFacts DEF Cascade
  <2> QED BY <1>1, <2>1, <2>2, <2>3 DEF TypeOK, Cascade, timers
<1>7. TimeInv'
  <2>1. pc = "turn" => timer_jiffies = jiffies
    <3>1. SUFFICES ASSUME pc = "turn", timer_jiffies # jiffies PROVE FALSE
      OBVIOUS
    <3>2. (jiffies + 1) % Word = timer_jiffies /\ ~Negative(Minus(jiffies, timer_jiffies))
      BY <1>1, <3>1 DEF TimeInv, Cascade, Due
    <3>3. Minus(jiffies, jiffies) = 0
      <4>1. jiffies - jiffies = 0 BY <1>1, TypeFacts
      <4>3. PICK w \in Nat \ {0} : w = Word BY WheelFacts
      <4>4. 0 % w = 0 BY ZeroAndSelf, Remainder
      <4>2. 0 % Word = 0 BY <4>3, <4>4
      <4> QED BY <4>1, <4>2 DEF Minus
    <3>4. Minus(jiffies, timer_jiffies) = Word - 1
      BY <1>1, <3>2, <3>3, TypeFacts, MinusNext
    <3>5. 0 \in 0 .. Word - 1 BY WheelFacts
    <3> QED BY <3>2, <3>4, <3>5, SignFacts
  <2> QED BY <1>1, <1>2, <2>1 DEF Cascade, TimeInv
<1>8. PlaceInv'
  <2>1. queued = << >> /\ queued' = << >> /\ vec' = v /\ cur' = cur /\ running' = TRUE
        /\ Alive' = Alive
    BY <1>1, <1>2, <1>4 DEF Cascade, PlaceInv, Alive, timers
  <2>2. In(vec') = In(vec) /\ Unique(vec') BY <1>4, <2>1
  <2>3. Elements(queued') = Elements(queued) /\ Injective(queued')
    BY <1>1, <2>1 DEF PlaceInv
  <2> QED BY <1>1, <2>1, <2>2, <2>3 DEF PlaceInv
<1> QED BY <1>5, <1>6, <1>7, <1>8 DEF Core

LEMMA DetachKeeps == ASSUME Core, DetachTimer PROVE Core'
<1>1. TypeOK /\ TimeInv /\ PlaceInv /\ WheelInv BY DEF Core
<1>2. running /\ pc \in {"slot", "next"} /\ cur \notin Timer
  BY <1>1, TypeFacts DEF DetachTimer
<1>3. PICK x \in Slots : x = <<1, index[1]>>
  <2>1. PICK rest : InStep(rest, timer_jiffies, index, running) BY <1>1 DEF WheelInv
  <2>2. timer_jiffies \in Int /\ running \in BOOLEAN /\ 1 \in 1..5 BY <1>1, TypeFacts
  <2>3. <<1, index[1]>> \in Slots BY <2>1, <2>2, InStepFacts
  <2> QED BY <2>3
<1>4. PICK v : v = vec' /\ v = [vec EXCEPT ![x] = Tail(@)] /\ vec[x] # << >>
               /\ cur' = Head(vec[x])
  BY <1>3 DEF DetachTimer
<1>5. /\ v \in Wheels /\ Unique(v)
      /\ Head(vec[x]) \in Timer /\ Head(vec[x]) \in In(vec)
      /\ In(v) = In(vec) \ {Head(vec[x])}
      /\ \A rest, now, i : Fits(vec, rest, now, i) => Fits(v, rest, now, i)
  <2>1. vec \in Wheels /\ Unique(vec) BY <1>1, TypeFacts DEF PlaceInv
  <2> QED BY <1>4, <2>1, TakenFacts
<1>6. TypeOK'
  <2>1. vec' \in [Slots -> Seq(Timer)] BY <1>4, <1>5 DEF Wheels
  <2>2. cur' \in Timer /\ pc' = "call" BY <1>4, <1>5 DEF DetachTimer
  <2>3. UNCHANGED <<jiffies, timer_jiffies, index, running, queued, repeat, fgRun, adding,
                    freed, expires, msec, fgRemove>>
    BY DEF DetachTimer, timers
  <2> QED BY <1>1, <1>2, <2>1, <2>2, <2>3 DEF TypeOK
<1>7. TimeInv' BY <1>1, <1>2 DEF TimeInv, DetachTimer
<1>8. PlaceInv'
  <2>1. In(vec') = In(vec) \ {cur'} /\ cur' \in In(vec) /\ cur' \in Timer /\ Unique(vec')
    BY <1>4, <1>5
  <2>2. queued' = queued /\ Elements(queued') = Elements(queued) /\ Alive' = Alive
        /\ running' = running
    BY DEF DetachTimer, Alive, timers
  <2> QED BY <1>1, <1>2, <2>1, <2>2 DEF PlaceInv
<1>9. WheelInv'
  <2>1. PICK rest : /\ InStep(rest, timer_jiffies, index, running)
                    /\ Fits(vec, rest, timer_jiffies, index)
    BY <1>1 DEF WheelInv
  <2>2. UNCHANGED <<timer_jiffies, index, running, expires>> BY DEF DetachTimer, timers
  <2>3. Fits(v, rest, timer_jiffies, index) BY <1>5, <2>1
  <2> QED BY <1>4, <2>1, <2>2, <2>3, WheelNew
<1> QED BY <1>6, <1>7, <1>8, <1>9 DEF Core

LEMMA SlotDoneKeeps == ASSUME Core, SlotDone PROVE Core'
<1>1. TypeOK /\ TimeInv /\ PlaceInv /\ WheelInv BY DEF Core
<1>2. running = TRUE /\ pc \in {"slot", "next"} /\ cur \notin Timer
  BY <1>1, TypeFacts DEF SlotDone
<1>3. PICK now \in 0 .. Word - 1 : now = timer_jiffies BY <1>1, TypeFacts
<1>4. PICK rest : InStep(rest, now, index, TRUE) /\ Fits(vec, rest, now, index)
  BY <1>1, <1>2, <1>3 DEF WheelInv
<1>5. PICK then \in 0 .. Word - 1 : then = (now + 1) % Word BY MinusNext
<1>6. /\ vec \in Wheels /\ queued \in Seq(Timer) /\ Unique(vec) /\ Injective(queued)
      /\ expires \in [Timer -> 0 .. Word - 1] /\ vec[<<1, index[1]>>] = << >>
      /\ \A k \in DOMAIN queued : queued[k] \notin In(vec)
  BY <1>1, TypeFacts DEF PlaceInv, Elements, SlotDone
<1>7. PICK r : InStep(r, then, Advanced({1}), FALSE) /\ Fits(vec, r, then, Advanced({1}))
  BY <1>4, <1>5, <1>6, AdvanceTick
<1>8. PICK i : i = Advanced({1}) OBVIOUS
<1>9. PICK v : v = Placed(vec, queued, then, i) OBVIOUS
<1>10. /\ v \in Wheels /\ In(v) = In(vec) \cup Elements(queued) /\ Unique(v)
       /\ Fits(v, r, then, i)
  BY <1>6, <1>7, <1>8, <1>9, PlacedFacts
<1>11. /\ timer_jiffies' = then /\ index' = i /\ vec' = v /\ running' = FALSE
       /\ queued' = << >> /\ pc' = "turn" /\ expires' = expires /\ cur' = cur
       /\ jiffies' = jiffies /\ Alive' = Alive
  BY <1>3, <1>5, <1>8, <1>9 DEF SlotDone, timers, Alive
<1>12. WheelInv' BY <1>7, <1>8, <1>10, <1>11, WheelNew
<1>13. TypeOK'
  <2>1. index' \in [1..5 -> Nat] /\ \A n \in 1..5 : index'[n] < Size(n)
    BY <1>12 DEF WheelInv, InStep
  <2>2. vec' \in [Slots -> Seq(Timer)] /\ queued' \in Seq(Timer)
    BY <1>10, <1>11 DEF Wheels
  <2> QED BY <1>1, <1>2, <1>11, <2>1, <2>2 DEF TypeOK, SlotDone, timers
<1>14. TimeInv'
  <2>1. timer_jiffies = 0 => then = 1
    <3>1. Word >= 4 BY WheelFacts
    <3>2. 0 \in 0 .. Word - 1 /\ 1 \in 0 .. Word /\ Word \in Nat \ {0} BY <3>1, WheelFacts
    <3>3. (0 + 1) % Word = IF 0 + 1 < Word THEN 0 + 1 ELSE 0 + 1 - Word
      BY <3>2, OnceRound, Zenon
    <3> QED BY <1>3, <1>5, <3>1, <3>2, <3>3
  <2>2. timer_jiffies = jiffies \/ (jiffies = 1 /\ timer_jiffies = 0)
    BY <1>1, <1>2 DEF TimeInv
  <2>3. then = jiffies \/ (jiffies + 1) % Word = then BY <1>3, <1>5, <2>1, <2>2
  <2> QED BY <1>11, <2>3 DEF TimeInv
<1>15. PlaceInv'
  <2>1. Elements(queued') = {} /\ Injective(queued') BY <1>11 DEF Elements, Injective
  <2> QED BY <1>1, <1>2, <1>10, <1>11, <2>1 DEF PlaceInv
<1> QED BY <1>12, <1>13, <1>14, <1>15 DEF Core

LEMMA PlaceKept ==
  ASSUME PlaceInv, UNCHANGED <<vec, queued, running, cur>>, Alive' = Alive
  PROVE  PlaceInv'
BY DEF PlaceInv, In, Elements, Unique, Injective

\* The steps of the thread that leave the timers where they are.
LEMMA ThreadKeeps ==
  ASSUME Core, TurnDone \/ WokenUp \/ Call \/ CallbackReturns
  PROVE  Core'
<1>1. TypeOK /\ TimeInv /\ PlaceInv /\ WheelInv BY DEF Core
<1>2. UNCHANGED <<jiffies, timer_jiffies, index, vec, running, queued, cur, adding,
                  freed, expires>>
  BY DEF TurnDone, WokenUp, Call, CallbackReturns, wheel, timers
<1>3. TypeOK'
  BY <1>1, <1>2 DEF TypeOK, TurnDone, WokenUp, Call, CallbackReturns, timers
<1>4. TimeInv'
  <2>1. CASE TurnDone
    <3>1. CASE timer_jiffies = jiffies
      <4>1. Minus(jiffies, jiffies) = 0
        <5>1. jiffies - jiffies = 0 BY <1>1, TypeFacts
        <5>2. PICK w \in Nat \ {0} : w = Word BY WheelFacts
        <5>3. 0 % w = 0 BY ZeroAndSelf, Remainder
        <5> QED BY <5>1, <5>2, <5>3 DEF Minus
      <4>2. 0 \in 0 .. Word - 1 BY WheelFacts
      <4> QED BY <2>1, <3>1, <4>1, <4>2, SignFacts DEF TurnDone, Due
    <3>2. CASE jiffies = 1 /\ timer_jiffies = 0
      <4>1. Minus(1, 0) = 1
        <5>1. 1 - 0 = 1 /\ Word \in Nat \ {0} /\ Word >= 4 BY WheelFacts
        <5>2. 1 % Word = 1
          <6>1. PICK w \in Nat : w = Word /\ w >= 4 BY <5>1
          <6> QED BY <6>1
        <5> QED BY <5>1, <5>2 DEF Minus
      <4>2. 1 \in 0 .. Word - 1 BY WheelFacts
      <4> QED BY <2>1, <3>2, <4>1, <4>2, SignFacts DEF TurnDone, Due
    <3>3. CASE (jiffies + 1) % Word = timer_jiffies
      <4>1. pc' # "tick" /\ pc' # "turn" BY <2>1 DEF TurnDone
      <4>2. running' = FALSE BY <1>1, <1>2, <2>1, TypeFacts DEF TurnDone
      <4> QED BY <1>2, <3>3, <4>1, <4>2 DEF TimeInv
    <3> QED BY <1>1, <2>1, <3>1, <3>2, <3>3 DEF TimeInv, TurnDone
  <2>2. CASE WokenUp
    <3>1. running' = FALSE BY <1>1, <1>2, <2>2, TypeFacts DEF WokenUp
    <3> QED BY <2>2, <3>1 DEF TimeInv, WokenUp
  <2>3. CASE Call \/ CallbackReturns
    <3>1. running /\ pc' \in {"reuse", "callback"}
      BY <1>1, <2>3, TypeFacts DEF Call, CallbackReturns
    <3> QED BY <1>1, <1>2, <3>1 DEF TimeInv
  <2> QED BY <2>1, <2>2, <2>3
<1>5. PlaceInv' BY <1>1, <1>2, PlaceKept DEF Alive
<1>6. WheelInv' BY <1>1, <1>2, TypeFacts, WheelKept
<1> QED BY <1>3, <1>4, <1>5, <1>6 DEF Core

LEMMA ExpireFacts ==
  ASSUME TypeOK, NEW n \in Nat PROVE calculateExpireTime(n) \in 0 .. Word - 1
<1>1. PICK k \in Int : k = jiffies + (IF n = 0 THEN 1 ELSE n) BY TypeFacts
<1> QED BY <1>1, WheelFacts, Remainder DEF calculateExpireTime

LEMMA ReuseRepeatKeeps == ASSUME Core, ReuseRepeat PROVE Core'
<1>1. TypeOK /\ TimeInv /\ PlaceInv /\ WheelInv BY DEF Core
<1>2. UNCHANGED <<jiffies, timer_jiffies, index, vec, running, queued, cur, repeat, fgRun,
                  adding, freed, msec, fgRemove>>
  BY DEF ReuseRepeat, wheel
<1>3. cur \in Timer /\ running /\ pc = "reuse" /\ pc' = "readd"
  BY <1>1, TypeFacts DEF ReuseRepeat
<1>4. PICK e \in 0 .. Word - 1 : expires' = [expires EXCEPT ![cur] = e]
  <2>1. msec[cur] \in Nat BY <1>1, <1>3 DEF TypeOK
  <2> QED BY <1>1, <2>1, ExpireFacts DEF ReuseRepeat
<1>5. TypeOK' BY <1>1, <1>2, <1>3, <1>4 DEF TypeOK
<1>6. TimeInv' BY <1>1, <1>2, <1>3 DEF TimeInv
<1>7. PlaceInv' BY <1>1, <1>2, PlaceKept DEF Alive
<1>8. WheelInv'
  <2>1. cur \notin In(vec) BY <1>1 DEF PlaceInv
  <2>2. \A t \in In(vec) : expires'[t] = expires[t]
    BY <1>1, <1>4, <2>1, TypeFacts DEF In
  <2> QED BY <1>1, <1>2, <2>2, TypeFacts, WheelKept
<1> QED BY <1>5, <1>6, <1>7, <1>8 DEF Core

LEMMA AppendFacts ==
  ASSUME NEW s \in Seq(Timer), NEW t \in Timer, t \notin Elements(s), Injective(s)
  PROVE  /\ Append(s, t) \in Seq(Timer) /\ Injective(Append(s, t))
         /\ Elements(Append(s, t)) = Elements(s) \cup {t}
<1>1. /\ Append(s, t) \in Seq(Timer) /\ DOMAIN s = 1..Len(s) /\ Len(s) \in Nat
      /\ DOMAIN Append(s, t) = 1..(Len(s) + 1)
      /\ Append(s, t)[Len(s) + 1] = t
      /\ \A k \in 1..Len(s) : Append(s, t)[k] = s[k]
  OBVIOUS
<1>2. \A k \in 1..Len(s) : s[k] # t BY <1>1 DEF Elements
<1>3. \A k \in 1..(Len(s) + 1) : k \in 1..Len(s) \/ k = Len(s) + 1 BY <1>1
<1>4. Injective(Append(s, t)) BY <1>1, <1>2, <1>3 DEF Injective
<1>5. Elements(Append(s, t)) = Elements(s) \cup {t} BY <1>1, <1>3 DEF Elements
<1> QED BY <1>1, <1>4, <1>5

LEMMA ReaddKeeps == ASSUME Core, Readd PROVE Core'
<1>1. TypeOK /\ TimeInv /\ PlaceInv /\ WheelInv BY DEF Core
<1>2. cur \in Timer /\ running = TRUE /\ pc = "readd" /\ pc' = "next" /\ cur' = None
      /\ None \notin Timer /\ repeat' = FALSE
  BY <1>1, TypeFacts, TimerAssumption DEF Readd
<1>3. queued' = Append(queued, cur) /\ vec' = vec
  BY <1>2 DEF Readd, internal_add_timer
<1>4. UNCHANGED <<jiffies, timer_jiffies, index, running, fgRun, adding, freed, expires,
                  msec, fgRemove>>
  BY DEF Readd, timers
<1>5. /\ queued' \in Seq(Timer) /\ Injective(queued')
      /\ Elements(queued') = Elements(queued) \cup {cur}
  BY <1>1, <1>2, <1>3, TypeFacts, AppendFacts DEF PlaceInv
<1>6. TypeOK' BY <1>1, <1>2, <1>3, <1>4, <1>5 DEF TypeOK
<1>7. TimeInv' BY <1>1, <1>2, <1>4 DEF TimeInv
<1>8. PlaceInv'
  <2>1. In(vec') = In(vec) /\ Unique(vec') /\ Alive' = Alive
    BY <1>1, <1>3, <1>4 DEF PlaceInv, Alive
  <2>2. None \notin In(vec) /\ None \notin Elements(queued')
    <3>1. Elements(queued) \subseteq Timer BY <1>1, TypeFacts DEF Elements
    <3> QED BY <1>2, <1>5, <3>1 DEF In
  <2> QED BY <1>1, <1>2, <1>4, <1>5, <2>1, <2>2 DEF PlaceInv
<1>9. WheelInv' BY <1>1, <1>3, <1>4, TypeFacts, WheelKept
<1> QED BY <1>6, <1>7, <1>8, <1>9 DEF Core

LEMMA ReuseDoneKeeps == ASSUME Core, ReuseDone PROVE Core'
<1>1. TypeOK /\ TimeInv /\ PlaceInv /\ WheelInv BY DEF Core
<1>2. cur \in Timer /\ running = TRUE /\ pc = "reuse" /\ pc' = "next" /\ cur' = None
      /\ None \notin Timer
  BY <1>1, TypeFacts, TimerAssumption DEF ReuseDone
<1>3. /\ freed' = freed \cup {cur} /\ expires' = [expires EXCEPT ![cur] = 0]
      /\ msec' = [msec EXCEPT ![cur] = 0]
      /\ UNCHANGED <<jiffies, timer_jiffies, index, vec, running, queued, repeat, fgRun,
                     adding, fgRemove>>
  BY DEF ReuseDone, wheel
<1>4. 0 \in 0 .. Word - 1 BY WheelFacts
<1>5. TypeOK' BY <1>1, <1>2, <1>3, <1>4 DEF TypeOK
<1>6. TimeInv' BY <1>1, <1>2, <1>3 DEF TimeInv
<1>7. PlaceInv'
  <2>1. In(vec') = In(vec) /\ Unique(vec') BY <1>1, <1>3 DEF PlaceInv
  <2>2. queued' = queued /\ Elements(queued') = Elements(queued) BY <1>3
  <2>3. Alive' = Alive \ {cur} BY <1>3 DEF Alive
  <2>4. None \notin In(vec) /\ None \notin Elements(queued)
    <3>1. Elements(queued) \subseteq Timer BY <1>1, TypeFacts DEF Elements
    <3> QED BY <1>2, <3>1 DEF In
  <2> QED BY <1>1, <1>2, <1>3, <2>1, <2>2, <2>3, <2>4 DEF PlaceInv
<1>8. WheelInv'
  <2>1. cur \notin In(vec) BY <1>1 DEF PlaceInv
  <2>2. \A t \in In(vec) : expires'[t] = expires[t]
    BY <1>1, <1>3, <2>1, TypeFacts DEF In
  <2> QED BY <1>1, <1>3, <2>2, TypeFacts, WheelKept
<1> QED BY <1>5, <1>6, <1>7, <1>8 DEF Core

LEMMA AllocKeeps == ASSUME Core, NEW t \in Timer, Alloc(t) PROVE Core'
<1>1. TypeOK /\ TimeInv /\ PlaceInv /\ WheelInv BY DEF Core
<1>2. PICK n \in Periods[t] :
        /\ msec' = [msec EXCEPT ![t] = n]
        /\ expires' = [expires EXCEPT ![t] = calculateExpireTime(n)]
  BY DEF Alloc
<1>3. /\ adding[t] = "none" /\ adding' = [adding EXCEPT ![t] = "alloc"]
      /\ UNCHANGED <<jiffies, timer_jiffies, index, vec, running, queued, pc, cur, repeat,
                     fgRun, freed, fgRemove>>
  BY DEF Alloc, wheel
<1>4. PICK e \in 0 .. Word - 1 : expires' = [expires EXCEPT ![t] = e]
  BY <1>1, <1>2, PeriodFacts, ExpireFacts
<1>5. TypeOK'
  <2>1. msec' \in [Timer -> Nat] /\ \A u \in Timer : msec'[u] \in Periods[u] \cup {0}
    BY <1>1, <1>2, PeriodFacts DEF TypeOK
  <2> QED BY <1>1, <1>3, <1>4, <2>1 DEF TypeOK
<1>6. TimeInv' BY <1>1, <1>3 DEF TimeInv
<1>7. PlaceInv'
  <2>1. Alive' = Alive BY <1>1, <1>3 DEF Alive, TypeOK
  <2> QED BY <1>1, <1>3, <2>1, PlaceKept
<1>8. WheelInv'
  <2>1. t \notin In(vec) BY <1>1, <1>3 DEF PlaceInv, Alive
  <2>2. \A u \in In(vec) : expires'[u] = expires[u]
    BY <1>1, <1>4, <2>1, TypeFacts DEF In
  <2> QED BY <1>1, <1>3, <2>2, TypeFacts, WheelKept
<1> QED BY <1>5, <1>6, <1>7, <1>8 DEF Core

LEMMA CallerKeeps ==
  ASSUME Core,
         \/ PFU_timerExit
         \/ \E t \in Timer : ListTimer(t) \/ PFU_timerDelete(t) \/ PFU_timerSetMsec(t)
  PROVE  Core'
<1>1. TypeOK /\ TimeInv /\ PlaceInv /\ WheelInv BY DEF Core
<1>2. UNCHANGED <<jiffies, timer_jiffies, index, vec, running, queued, pc, cur, repeat,
                  freed, expires>>
  BY DEF ListTimer, PFU_timerDelete, PFU_timerSetMsec, PFU_timerExit, wheel, timers
<1>3. TypeOK' /\ Alive' = Alive
  <2>1. ASSUME NEW t \in Timer, ListTimer(t) PROVE TypeOK' /\ Alive' = Alive
    <3>1. adding[t] = "alloc" /\ adding' = [adding EXCEPT ![t] = "listed"]
          /\ UNCHANGED <<fgRun, msec, fgRemove>>
      BY <2>1 DEF ListTimer
    <3> QED BY <1>1, <1>2, <3>1 DEF TypeOK, Alive
  <2>2. ASSUME NEW t \in Timer, PFU_timerDelete(t) PROVE TypeOK' /\ Alive' = Alive
    <3>1. fgRemove' = [fgRemove EXCEPT ![t] = TRUE] /\ UNCHANGED <<fgRun, msec, adding>>
      BY <2>2 DEF PFU_timerDelete
    <3> QED BY <1>1, <1>2, <3>1 DEF TypeOK, Alive
  <2>3. ASSUME NEW t \in Timer, PFU_timerSetMsec(t) PROVE TypeOK' /\ Alive' = Alive
    <3>1. PICK n \in Periods[t] : msec' = [msec EXCEPT ![t] = n]
      BY <2>3 DEF PFU_timerSetMsec
    <3>2. UNCHANGED <<fgRun, adding, fgRemove>> BY <2>3 DEF PFU_timerSetMsec
    <3>3. msec' \in [Timer -> Nat] /\ \A u \in Timer : msec'[u] \in Periods[u] \cup {0}
      BY <1>1, <3>1, PeriodFacts DEF TypeOK
    <3> QED BY <1>1, <1>2, <3>2, <3>3 DEF TypeOK, Alive
  <2>4. CASE PFU_timerExit
    <3>1. fgRun' = FALSE /\ UNCHANGED <<msec, adding, fgRemove>>
      BY <2>4 DEF PFU_timerExit, timers
    <3> QED BY <1>1, <1>2, <3>1 DEF TypeOK, Alive
  <2> QED BY <2>1, <2>2, <2>3, <2>4
<1>4. TimeInv' BY <1>1, <1>2 DEF TimeInv
<1>5. PlaceInv' BY <1>1, <1>2, <1>3, PlaceKept
<1>6. WheelInv' BY <1>1, <1>2, TypeFacts, WheelKept
<1> QED BY <1>3, <1>4, <1>5, <1>6 DEF Core

LEMMA AddTimerKeeps ==
  ASSUME Core, NEW t \in Timer, AddTimer(t), t \notin freed
  PROVE  Core'
<1>1. TypeOK /\ TimeInv /\ PlaceInv /\ WheelInv BY DEF Core
<1>2. /\ adding[t] = "listed" /\ adding' = [adding EXCEPT ![t] = "added"]
      /\ internal_add_timer(t)
      /\ UNCHANGED <<jiffies, timer_jiffies, index, running, pc, cur, repeat, fgRun,
                     freed, expires, msec, fgRemove>>
  BY DEF AddTimer
<1>3. Alive' = Alive \cup {t} /\ t \notin Alive BY <1>1, <1>2 DEF Alive, TypeOK
<1>4. t \notin In(vec) /\ t \notin Elements(queued) /\ t # cur
  BY <1>1, <1>3 DEF PlaceInv
<1>5. TimeInv' BY <1>1, <1>2 DEF TimeInv
<1>6. CASE running
  <2>1. queued' = Append(queued, t) /\ vec' = vec
    BY <1>2, <1>6 DEF internal_add_timer
  <2>2. /\ queued' \in Seq(Timer) /\ Injective(queued')
        /\ Elements(queued') = Elements(queued) \cup {t}
    BY <1>1, <1>4, <2>1, TypeFacts, AppendFacts DEF PlaceInv
  <2>3. TypeOK' BY <1>1, <1>2, <2>1, <2>2 DEF TypeOK
  <2>4. PlaceInv'
    <3>1. In(vec') = In(vec) /\ Unique(vec') BY <1>1, <2>1 DEF PlaceInv
    <3>2. running' = running /\ cur' = cur BY <1>2
    <3> QED BY <1>1, <1>3, <1>4, <1>6, <2>2, <3>1, <3>2 DEF PlaceInv
  <2>5. WheelInv' BY <1>1, <1>2, <2>1, TypeFacts, WheelKept
  <2> QED BY <1>5, <2>3, <2>4, <2>5 DEF Core
<1>7. CASE ~running
  <2>1. vec' = Placed(vec, <<t>>, timer_jiffies, index) /\ queued' = queued
    BY <1>2, <1>7 DEF internal_add_timer
  <2>2. running = FALSE BY <1>1, <1>7, TypeFacts
  <2>3. PICK rest : /\ InStep(rest, timer_jiffies, index, FALSE)
                    /\ Fits(vec, rest, timer_jiffies, index)
    BY <1>1, <2>2 DEF WheelInv
  <2>4. PICK s \in Seq(Timer) : s = <<t>> /\ Injective(s) /\ Elements(s) = {t}
                                /\ \A k \in DOMAIN s : s[k] \notin In(vec)
    <3>1. /\ <<t>> \in Seq(Timer) /\ DOMAIN <<t>> = 1..1 /\ <<t>>[1] = t
          /\ \A k \in 1..1 : k = 1
      OBVIOUS
    <3>2. PICK s \in Seq(Timer) : s = <<t>> BY <3>1
    <3>3. DOMAIN s = {1} /\ s[1] = t BY <3>2
    <3>4. Injective(s) /\ Elements(s) = {t} /\ \A k \in DOMAIN s : s[k] \notin In(vec)
      BY <1>4, <3>3 DEF Injective, Elements
    <3> QED BY <3>2, <3>4
  <2>5. PICK v : v = Placed(vec, s, timer_jiffies, index) OBVIOUS
  <2>6. /\ v \in Wheels /\ In(v) = In(vec) \cup Elements(s) /\ Unique(v)
        /\ Fits(v, rest, timer_jiffies, index)
    <3>1. /\ vec \in Wheels /\ Unique(vec) /\ timer_jiffies \in 0 .. Word - 1
          /\ expires \in [Timer -> 0 .. Word - 1]
      BY <1>1, TypeFacts DEF PlaceInv
    <3> QED BY <2>3, <2>4, <2>5, <3>1, PlacedFacts
  <2>7. vec' = v BY <2>1, <2>4, <2>5
  <2>8. WheelInv' BY <1>2, <2>2, <2>3, <2>6, <2>7, WheelNew
  <2>9. TypeOK' BY <1>1, <1>2, <2>1, <2>6, <2>7 DEF TypeOK, Wheels
  <2>10. PlaceInv'
    <3>1. Elements(queued') = Elements(queued) /\ queued' = queued BY <2>1
    <3> QED BY <1>1, <1>2, <1>3, <1>4, <2>4, <2>6, <2>7, <3>1 DEF PlaceInv
  <2> QED BY <1>5, <2>8, <2>9, <2>10 DEF Core
<1> QED BY <1>6, <1>7

------------------------------------------------------------------------------
(* When the timers are due                                                   *)

\* An expiry lies ahead of the tick now, and not so far that it seems past,
\* or is past by not more than MaxLate.
Timely(e, now) == Minus(e, now) \in 0 .. (Sign - 2) \/ Minus(e, now) >= Word - MaxLate

\* A timer keeps to Timely until it is in the wheel.  What is queued is never
\* exactly half a round ahead: it would count as past in this tick and as to
\* come in the next.
DueInv ==
  /\ \A t \in Timer : adding[t] \in {"alloc", "listed"} => Timely(expires[t], jiffies)
  /\ pc = "readd" => Minus(expires[cur], jiffies) \in 1 .. (Sign - 2)
  /\ \A t \in Elements(queued) : Minus(expires[t], timer_jiffies) # Sign

LEMMA LateFacts == MaxLate \in Nat /\ MaxLate < Sign
BY LateAssumption DEF Sign

LEMMA MinusAhead ==
  ASSUME NEW a \in 0 .. Word - 1, NEW m \in 0 .. Word - 1
  PROVE  Minus((a + m) % Word, a) = m
<1>1. PICK w \in Nat \ {0} : w = Word BY WheelFacts
<1>2. PICK e \in Int : e = (a + m) % w /\ (e = a + m \/ e = a + m - w)
  <2>1. a \in 0 .. w - 1 /\ m \in 0 .. w BY <1>1
  <2>2. (a + m) % w = IF a + m < w THEN a + m ELSE a + m - w BY <2>1, OnceRound
  <2>3. a + m \in Int /\ a + m - w \in Int BY <1>1, <2>1
  <2> QED BY <2>2, <2>3
<1>3. PICK d \in 0 .. w - 1 : d = Minus(e, a) /\ Multiple((e - a) - d, w)
  <2>1. a \in Int BY <1>1
  <2> QED BY <1>1, <2>1, MinusFacts
<1>4. PICK g \in Int : g = (e - a) - d /\ Multiple(g, w) BY <1>1, <1>3
<1>5. PICK h \in Int : h = m - d BY <1>1
<1>6. Multiple(h, w)
  <2>1. CASE e = a + m
    <3>1. g = h BY <1>1, <1>4, <1>5, <2>1
    <3> QED BY <1>4, <3>1
  <2>2. CASE e = a + m - w
    <3>1. g + w = h BY <1>1, <1>4, <1>5, <2>2
    <3>2. Multiple(g + w, w) BY <1>4, MultipleFacts, ZeroAndSelf
    <3> QED BY <3>1, <3>2
  <2> QED BY <1>2, <2>1, <2>2
<1>7. -w < h /\ h < w BY <1>1, <1>3, <1>5
<1>8. h = 0 BY <1>6, <1>7, SmallMultiple
<1> QED BY <1>1, <1>2, <1>3, <1>5, <1>8

LEMMA MinusOpposite ==
  ASSUME NEW a \in 0 .. Word - 1, NEW b \in 0 .. Word - 1
  PROVE  Minus(b, a) = IF Minus(a, b) = 0 THEN 0 ELSE Word - Minus(a, b)
<1>1. PICK w \in Nat \ {0} : w = Word BY WheelFacts
<1>2. a \in Int /\ b \in Int BY <1>1
<1>3. PICK d \in 0 .. w - 1 : d = Minus(a, b) /\ Multiple((a - b) - d, w)
  BY <1>1, <1>2, MinusFacts
<1>4. PICK f \in 0 .. w - 1 : f = Minus(b, a) /\ Multiple((b - a) - f, w)
  BY <1>1, <1>2, MinusFacts
<1>5. PICK x \in Int, y \in Int : x = (a - b) - d /\ y = (b - a) - f BY <1>2
<1>6. Multiple(x + y, w) BY <1>3, <1>4, <1>5, MultipleFacts
<1>7. PICK g \in Int : g = x + y /\ Multiple(g, w) /\ g = -(d + f) BY <1>2, <1>5, <1>6
<1>8. CASE d = 0
  <2>1. -w < g /\ g < w BY <1>7, <1>8
  <2>2. g = 0 BY <1>7, <2>1, SmallMultiple
  <2> QED BY <1>3, <1>4, <1>7, <1>8, <2>2
<1>9. CASE d # 0
  <2>1. PICK h \in Int : h = g + w OBVIOUS
  <2>6. Multiple(w, w) /\ w \in Int BY ZeroAndSelf
  <2>7. Multiple(g + w, w) BY <1>7, <2>6, MultipleFacts
  <2>2. Multiple(h, w) BY <2>1, <2>7
  <2>3. -w < h /\ h < w BY <1>7, <1>9, <2>1
  <2>4. h = 0 BY <2>2, <2>3, SmallMultiple
  <2>5. f = w - d BY <1>7, <2>1, <2>4
  <2> QED BY <1>1, <1>3, <1>4, <1>9, <2>5
<1> QED BY <1>8, <1>9

\* timer_process waits on as long as the timers being added keep to MaxLate.
LEMMA TimelyNext ==
  ASSUME NEW e \in 0 .. Word - 1, NEW now \in 0 .. Word - 1, Timely(e, now),
         (IF Negative(Minus(now, e)) THEN 0 ELSE Minus(now, e)) < MaxLate
  PROVE  Timely(e, (now + 1) % Word)
<1>1. PICK w \in Nat \ {0}, g \in Nat, l \in Nat :
        w = Word /\ g = Sign /\ l = MaxLate /\ g >= 4 /\ w = 2 * g /\ l < g
  BY WheelFacts, LateFacts
<1>2. PICK d \in 0 .. w - 1 : d = Minus(e, now)
  <2>1. e \in Int /\ now \in Int BY <1>1
  <2> QED BY <1>1, <2>1, MinusFacts
<1>3. PICK f \in Int : f = Minus(now, e) /\ f = IF d = 0 THEN 0 ELSE w - d
  BY <1>1, <1>2, MinusOpposite
<1>4. PICK c \in Int : c = Minus(e, (now + 1) % Word) /\ c = IF d = 0 THEN w - 1 ELSE d - 1
  <2>1. Minus(e, (now + 1) % Word) = IF d = 0 THEN w - 1 ELSE d - 1
    BY <1>1, <1>2, MinusNext
  <2> QED BY <1>1, <2>1
<1>5. d \in 0 .. (g - 2) \/ d >= w - l BY <1>1, <1>2 DEF Timely
<1>6. (IF f >= g THEN 0 ELSE f) < l BY <1>1, <1>3 DEF Negative
<1>7. c \in 0 .. (g - 2) \/ c >= w - l
  <2>1. CASE d = 0
    <3>1. f = 0 /\ c = w - 1 BY <1>3, <1>4, <2>1
    <3>2. 0 < l BY <1>1, <1>6, <3>1
    <3>3. c >= w - l BY <3>1, <3>2
    <3> QED BY <3>3
  <2>2. CASE d # 0 /\ d \in 0 .. (g - 2)
    <3>1. c = d - 1 BY <1>4, <2>2
    <3>2. 0 <= d - 1 /\ d - 1 <= g - 2 BY <1>1, <1>2, <2>2
    <3>3. c \in 0 .. (g - 2) BY <3>1, <3>2
    <3> QED BY <3>3
  <2>3. CASE d >= w - l
    <3>1. d # 0 /\ f = w - d /\ f <= l /\ f < g BY <1>1, <1>3, <2>3
    <3>2. f < l BY <1>6, <3>1
    <3>3. d - 1 >= w - l BY <1>1, <3>1, <3>2
    <3> QED BY <1>4, <3>1, <3>3
  <2> QED BY <1>5, <2>1, <2>2, <2>3
<1> QED BY <1>1, <1>4, <1>7 DEF Timely

\* Seen from the tick now, and from the one before.
LEMMA TimelyFacts ==
  ASSUME NEW e \in 0 .. Word - 1, NEW now \in 0 .. Word - 1, Timely(e, now),
         NEW then \in 0 .. Word - 1, now = then \/ now = (then + 1) % Word
  PROVE  Minus(e, then) # Sign
<1>1. PICK w \in Nat \ {0}, g \in Nat, l \in Nat :
        w = Word /\ g = Sign /\ l = MaxLate /\ g >= 4 /\ w = 2 * g /\ l < g
  BY WheelFacts, LateFacts
<1>2. PICK d \in 0 .. w - 1 : d = Minus(e, then)
  <2>1. e \in Int /\ then \in Int BY <1>1
  <2> QED BY <1>1, <2>1, MinusFacts
<1>3. CASE now = then BY <1>1, <1>2, <1>3 DEF Timely
<1>4. CASE now = (then + 1) % Word
  <2>5. PICK f : f = Minus(e, now) OBVIOUS
  <2>1. f = Minus(e, now) /\ f = IF d = 0 THEN w - 1 ELSE d - 1
    BY <1>1, <1>2, <1>4, <2>5, MinusNext
  <2>2. f \in 0 .. (g - 2) \/ f >= w - l BY <1>1, <2>1 DEF Timely
  <2>3. SUFFICES ASSUME d = g PROVE FALSE BY <1>1, <1>2
  <2>4. f = g - 1 BY <1>1, <2>1, <2>3
  <2> QED BY <1>1, <2>2, <2>4
<1> QED BY <1>3, <1>4

LEMMA InitDue == ASSUME Init PROVE DueInv
<1>1. \A t \in Timer : adding[t] = "none" BY DEF Init
<1>2. pc = "wait" /\ Elements(queued) = {} BY DEF Init, Elements
<1> QED BY <1>1, <1>2 DEF DueInv

LEMMA DueKept ==
  ASSUME DueInv, UNCHANGED <<jiffies, timer_jiffies, queued, expires>>,
         \A t \in Timer : adding'[t] \in {"alloc", "listed"} => adding[t] \in {"alloc", "listed"},
         pc' = "readd" => pc = "readd" /\ cur' = cur
  PROVE  DueInv'
<1>1. Elements(queued)' = Elements(queued) BY DEF Elements
<1>2. \A t \in Timer : adding'[t] \in {"alloc", "listed"} => Timely(expires[t], jiffies)'
  BY DEF DueInv, Timely
<1>3. pc' = "readd" => (Minus(expires[cur], jiffies) \in 1 .. (Sign - 2))' BY DEF DueInv
<1>4. \A t \in Elements(queued)' : (Minus(expires[t], timer_jiffies) # Sign)'
  BY <1>1 DEF DueInv
<1> QED BY <1>2, <1>3, <1>4 DEF DueInv

\* What a slot of the wheel or the thread hands on leaves nothing queued.
LEMMA DueEmptied ==
  ASSUME DueInv, UNCHANGED <<jiffies, expires, adding>>, queued' = << >>, pc' # "readd"
  PROVE  DueInv'
<1>1. Elements(queued)' = {} BY DEF Elements
<1>2. \A t \in Timer : adding'[t] \in {"alloc", "listed"} => Timely(expires[t], jiffies)'
  BY DEF DueInv, Timely
<1> QED BY <1>1, <1>2 DEF DueInv

\* The expiry of one timer is set, which is not queued.
LEMMA DueSet ==
  ASSUME TypeOK, DueInv, NEW u \in Timer, u \notin Elements(queued),
         NEW e, expires' = [expires EXCEPT ![u] = e],
         UNCHANGED <<jiffies, timer_jiffies, queued>>,
         \A t \in Timer \ {u} : adding'[t] = adding[t],
         adding'[u] \in {"alloc", "listed"} => Timely(e, jiffies),
         pc' = "readd" => \/ cur' = u /\ Minus(e, jiffies) \in 1 .. (Sign - 2)
                          \/ pc = "readd" /\ cur' = cur /\ cur # u /\ cur \in Timer
  PROVE  DueInv'
<1>1. Elements(queued)' = Elements(queued) /\ Elements(queued) \subseteq Timer
  <2>1. queued \in Seq(Timer) BY TypeFacts
  <2> QED BY <2>1 DEF Elements
<1>2. \A t \in Timer : expires'[t] = IF t = u THEN e ELSE expires[t] BY TypeFacts
<1>3. \A t \in Timer : adding'[t] \in {"alloc", "listed"} => Timely(expires[t], jiffies)'
  BY <1>2 DEF DueInv, Timely
<1>4. pc' = "readd" => (Minus(expires[cur], jiffies) \in 1 .. (Sign - 2))'
  BY <1>2 DEF DueInv
<1>5. \A t \in Elements(queued)' : (Minus(expires[t], timer_jiffies) # Sign)'
  BY <1>1, <1>2 DEF DueInv
<1> QED BY <1>3, <1>4, <1>5 DEF DueInv

\* While the wheel turns, the thread is at the tick jiffies, or, the first
\* time, at the one before.
LEMMA RunningTick ==
  ASSUME TypeOK, TimeInv, running
  PROVE  jiffies = timer_jiffies \/ jiffies = (timer_jiffies + 1) % Word
<1>1. PICK w \in Nat : w = Word /\ w >= 8 BY WheelFacts
<1>2. 0 \in 0 .. w - 1 /\ 1 \in 0 .. w /\ w \in Nat \ {0} BY <1>1
<1>3. (0 + 1) % w = IF 0 + 1 < w THEN 0 + 1 ELSE 0 + 1 - w BY <1>2, OnceRound, Zenon
<1>4. (0 + 1) % w = 1 BY <1>1, <1>3
<1> QED BY <1>1, <1>4 DEF TimeInv

\* calculateExpireTime counts from one tick on, and not half a round.
LEMMA PeriodTimely ==
  ASSUME TypeOK, NEW t \in Timer, NEW n \in Periods[t] \cup {0}
  PROVE  /\ Minus(calculateExpireTime(n), jiffies) \in 1 .. (Sign - 2)
         /\ Timely(calculateExpireTime(n), jiffies)
<1>1. PICK g \in Nat : g = Sign /\ g >= 4 /\ Word = 2 * g BY WheelFacts
<1>2. n \in Nat /\ n + 1 < g
  <2>1. CASE n = 0 BY <1>1, <2>1
  <2>2. CASE n # 0
    <3>1. n \in Periods[t] BY <2>2
    <3> QED BY <1>1, <3>1, PeriodsAssumption DEF Sign
  <2> QED BY <2>1, <2>2
<1>3. PICK m \in Nat : m = (IF n = 0 THEN 1 ELSE n) BY <1>2
<1>9. 1 <= m /\ m <= g - 2
  <2>1. CASE n = 0 BY <1>1, <1>3, <2>1
  <2>2. CASE n # 0 BY <1>1, <1>2, <1>3, <2>2
  <2> QED BY <2>1, <2>2
<1>4. PICK a \in 0 .. Word - 1 : a = jiffies BY TypeFacts
<1>5. m \in 0 .. Word - 1
  <2>1. PICK w \in Nat : w = Word /\ w = 2 * g BY <1>1
  <2> QED BY <1>9, <2>1
<1>6. Minus((a + m) % Word, a) = m BY <1>4, <1>5, MinusAhead
<1>7. Minus(calculateExpireTime(n), jiffies) = m
  BY <1>3, <1>4, <1>6 DEF calculateExpireTime
<1>8. m \in 0 .. (g - 2) /\ m \in 1 .. (g - 2) BY <1>1, <1>9
<1> QED BY <1>1, <1>7, <1>8 DEF Timely

\* A timer that the thread has in its hands, or that is not added, is not queued.
LEMMA NotQueued ==
  ASSUME TypeOK, PlaceInv
  PROVE  /\ cur \in Timer => adding[cur] = "added" /\ cur \notin freed /\ cur \notin Elements(queued)
         /\ \A t \in Timer : adding[t] # "added" => t \notin Elements(queued) /\ t # cur
BY DEF PlaceInv, Alive

LEMMA DueKeeps == ASSUME Core, DueInv, Next PROVE DueInv'
<1>1. TypeOK /\ TimeInv /\ PlaceInv BY DEF Core
<1>2. CASE Tick
  <2>1. UNCHANGED <<timer_jiffies, queued, expires, adding>> /\ pc' = "tick"
        /\ jiffies' = (jiffies + 1) % Word
    BY <1>2 DEF Tick, wheel, timers
  <2>2. ASSUME NEW t \in Timer, adding[t] \in {"alloc", "listed"}
        PROVE  Timely(expires[t], jiffies')
    <3>1. (IF Negative(Minus(jiffies, expires[t])) THEN 0 ELSE Minus(jiffies, expires[t])) < MaxLate
      BY <1>2, <2>2 DEF Tick, Late
    <3>2. expires[t] \in 0 .. Word - 1 /\ jiffies \in 0 .. Word - 1 BY <1>1, TypeFacts
    <3>3. Timely(expires[t], jiffies) BY <2>2 DEF DueInv
    <3> QED BY <2>1, <3>1, <3>2, <3>3, TimelyNext
  <2>3. \A t \in Timer : adding'[t] \in {"alloc", "listed"} => Timely(expires[t], jiffies)'
    BY <2>1, <2>2 DEF Timely
  <2>4. \A t \in Elements(queued)' : (Minus(expires[t], timer_jiffies) # Sign)'
    BY <2>1 DEF DueInv, Elements
  <2> QED BY <2>1, <2>3, <2>4 DEF DueInv
<1>3. CASE Cascade \/ SlotDone
  <2>1. UNCHANGED <<jiffies, expires, adding>> /\ queued' = << >> /\ pc' # "readd"
    BY <1>3 DEF Cascade, SlotDone, timers
  <2> QED BY <2>1, DueEmptied
<1>4. CASE DetachTimer \/ TurnDone \/ WokenUp \/ Call \/ CallbackReturns \/ PFU_timerExit
  <2>1. UNCHANGED <<jiffies, timer_jiffies, queued, expires, adding>>
        /\ (pc' = "readd" => pc = "readd" /\ cur' = cur)
    BY <1>4 DEF DetachTimer, TurnDone, WokenUp, Call, CallbackReturns, PFU_timerExit,
                wheel, timers
  <2> QED BY <2>1, DueKept
<1>5. CASE ReuseRepeat
  <2>1. cur \in Timer BY <1>1, <1>5, TypeFacts DEF ReuseRepeat
  <2>2. msec[cur] \in Periods[cur] \cup {0} BY <1>1, <2>1 DEF TypeOK
  <2>3. PICK e : e = calculateExpireTime(msec[cur])
                 /\ Minus(e, jiffies) \in 1 .. (Sign - 2) /\ Timely(e, jiffies)
    BY <1>1, <2>1, <2>2, PeriodTimely
  <2>4. /\ expires' = [expires EXCEPT ![cur] = e] /\ adding' = adding /\ cur' = cur
        /\ UNCHANGED <<jiffies, timer_jiffies, queued>>
    BY <1>5, <2>3 DEF ReuseRepeat, wheel
  <2>5. cur \notin Elements(queued) BY <1>1, <2>1, NotQueued
  <2>6. adding'[cur] \in {"alloc", "listed"} => Timely(e, jiffies) BY <2>3
  <2> QED BY <1>1, <2>1, <2>3, <2>4, <2>5, <2>6, DueSet
<1>6. CASE ReuseDone
  <2>1. cur \in Timer /\ pc' = "next" BY <1>1, <1>6, TypeFacts DEF ReuseDone
  <2>2. /\ expires' = [expires EXCEPT ![cur] = 0] /\ adding' = adding
        /\ UNCHANGED <<jiffies, timer_jiffies, queued>>
    BY <1>6 DEF ReuseDone, wheel
  <2>3. cur \notin Elements(queued) /\ adding[cur] = "added" BY <1>1, <2>1, NotQueued
  <2> QED BY <1>1, <2>1, <2>2, <2>3, DueSet
<1>7. ASSUME NEW t \in Timer, Alloc(t) PROVE DueInv'
  <2>1. PICK n \in Periods[t] : expires' = [expires EXCEPT ![t] = calculateExpireTime(n)]
    BY <1>7 DEF Alloc
  <2>2. PICK e : e = calculateExpireTime(n) /\ Timely(e, jiffies)
    BY <1>1, PeriodTimely
  <2>3. /\ adding[t] = "none" /\ adding' = [adding EXCEPT ![t] = "alloc"]
        /\ UNCHANGED <<jiffies, timer_jiffies, queued, pc, cur>>
    BY <1>7 DEF Alloc, wheel
  <2>4. \A u \in Timer \ {t} : adding'[u] = adding[u] BY <1>1, <2>3 DEF TypeOK
  <2>5. t \notin Elements(queued) /\ t # cur BY <1>1, <2>3, NotQueued
  <2>6. pc = "readd" => cur \in Timer BY <1>1, TypeFacts
  <2> QED BY <1>1, <2>1, <2>2, <2>3, <2>4, <2>5, <2>6, DueSet
<1>8. ASSUME NEW t \in Timer, ListTimer(t) \/ PFU_timerDelete(t) \/ PFU_timerSetMsec(t)
      PROVE  DueInv'
  <2>1. UNCHANGED <<jiffies, timer_jiffies, queued, expires, pc, cur>>
    BY <1>8 DEF ListTimer, PFU_timerDelete, PFU_timerSetMsec, wheel
  <2>2. adding' = adding \/ (adding[t] = "alloc" /\ adding' = [adding EXCEPT ![t] = "listed"])
    BY <1>8 DEF ListTimer, PFU_timerDelete, PFU_timerSetMsec
  <2>3. \A u \in Timer : adding'[u] \in {"alloc", "listed"} => adding[u] \in {"alloc", "listed"}
    BY <1>1, <2>2 DEF TypeOK
  <2> QED BY <2>1, <2>3, DueKept
<1>9. ASSUME NEW t \in Timer, t \notin Elements(queued), running,
             queued' = Append(queued, t), UNCHANGED <<jiffies, timer_jiffies, expires>>,
             Timely(expires[t], jiffies), pc' # "readd" \/ UNCHANGED <<pc, cur>>,
             \A u \in Timer : adding'[u] \in {"alloc", "listed"} => adding[u] \in {"alloc", "listed"}
      PROVE  DueInv'
  <2>1. Elements(queued)' = Elements(queued) \cup {t}
    <3>1. Injective(queued) /\ queued \in Seq(Timer) BY <1>1, TypeFacts DEF PlaceInv
    <3>2. Elements(Append(queued, t)) = Elements(queued) \cup {t}
      BY <1>9, <3>1, AppendFacts
    <3> QED BY <1>9, <3>2 DEF Elements
  <2>2. Minus(expires[t], timer_jiffies) # Sign
    <3>1. /\ expires[t] \in 0 .. Word - 1 /\ jiffies \in 0 .. Word - 1
          /\ timer_jiffies \in 0 .. Word - 1
      BY <1>1, TypeFacts
    <3>2. jiffies = timer_jiffies \/ jiffies = (timer_jiffies + 1) % Word
      BY <1>1, <1>9, RunningTick
    <3> QED BY <1>9, <3>1, <3>2, TimelyFacts
  <2>3. \A u \in Timer : adding'[u] \in {"alloc", "listed"} => Timely(expires[u], jiffies)'
    BY <1>9 DEF DueInv, Timely
  <2>4. pc' = "readd" => (Minus(expires[cur], jiffies) \in 1 .. (Sign - 2))'
    BY <1>9 DEF DueInv
  <2>5. \A u \in Elements(queued)' : (Minus(expires[u], timer_jiffies) # Sign)'
    BY <1>9, <2>1, <2>2 DEF DueInv
  <2> QED BY <2>3, <2>4, <2>5 DEF DueInv
<1>10. CASE Readd
  <2>1. cur \in Timer /\ running = TRUE /\ pc = "readd" /\ pc' = "next"
    BY <1>1, <1>10, TypeFacts DEF Readd
  <2>2. /\ queued' = Append(queued, cur)
        /\ UNCHANGED <<jiffies, timer_jiffies, expires, adding>>
    BY <1>10, <2>1 DEF Readd, internal_add_timer, timers
  <2>3. cur \notin Elements(queued) BY <1>1, <2>1, NotQueued
  <2>4. Timely(expires[cur], jiffies)
    <3>1. PICK d : d = Minus(expires[cur], jiffies) /\ d \in 1 .. (Sign - 2)
      BY <2>1 DEF DueInv
    <3>2. Sign \in Int BY WheelFacts
    <3>3. d \in 0 .. (Sign - 2) BY <3>1, <3>2
    <3> QED BY <3>1, <3>3 DEF Timely
  <2> QED BY <1>9, <2>1, <2>2, <2>3, <2>4
<1>11. ASSUME NEW t \in Timer, AddTimer(t) PROVE DueInv'
  <2>1. /\ adding[t] = "listed" /\ adding' = [adding EXCEPT ![t] = "added"]
        /\ UNCHANGED <<jiffies, timer_jiffies, expires, pc, cur>>
        /\ internal_add_timer(t)
    BY <1>11 DEF AddTimer
  <2>2. \A u \in Timer : adding'[u] \in {"alloc", "listed"} => adding[u] \in {"alloc", "listed"}
    BY <1>1, <2>1 DEF TypeOK
  <2>3. CASE running
    <3>1. queued' = Append(queued, t) BY <2>1, <2>3 DEF internal_add_timer
    <3>2. t \notin Elements(queued) BY <1>1, <2>1, NotQueued
    <3>3. Timely(expires[t], jiffies) BY <2>1 DEF DueInv
    <3> QED BY <1>9, <2>1, <2>2, <2>3, <3>1, <3>2, <3>3
  <2>4. CASE ~running
    <3>1. queued' = queued BY <2>1, <2>4 DEF internal_add_timer
    <3> QED BY <2>1, <2>2, <3>1, DueKept
  <2> QED BY <2>3, <2>4
<1> QED
  BY <1>2, <1>3, <1>4, <1>5, <1>6, <1>7, <1>8, <1>10, <1>11 DEF Next, Thread, Caller

------------------------------------------------------------------------------
(* The list of all timers                                                    *)

Entry == Timer \cup {Root}

\* S is one ring: whoever follows next from root passes all of it.
OneRing(h, S, root) ==
  /\ Linked(h, S) /\ root \in S
  /\ \A P \in SUBSET S : root \in P /\ (\A n \in P : h.next[n] \in P) => P = S

LEMMA OneRingAdd ==
  ASSUME NEW Node, NEW h, IsHeap(h, Node), NEW S \in SUBSET Node, NEW root,
         OneRing(h, S, root), NEW cnew \in Node \ S
  PROVE  OneRing(list_add(h, cnew, root), S \cup {cnew}, root)
<1>1. PICK g : g = list_add(h, cnew, root) OBVIOUS
<1>2. Linked(h, S) /\ root \in S BY DEF OneRing
<1>3. Linked(g, S \cup {cnew}) BY <1>1, <1>2, AddLinks
<1>4. \A n \in S \cup {cnew} :
        g.next[n] = IF n = root THEN cnew ELSE IF n = cnew THEN h.next[root] ELSE h.next[n]
  BY <1>1, <1>2 DEF list_add, Insert, IsHeap
<1>5. \A n \in S : h.next[n] \in S BY <1>2 DEF Linked
<1>6. ASSUME NEW P \in SUBSET (S \cup {cnew}), root \in P, \A n \in P : g.next[n] \in P
      PROVE  P = S \cup {cnew}
  <2>1. cnew \in P BY <1>2, <1>4, <1>6
  <2>2. h.next[root] \in P BY <1>2, <1>4, <1>6, <2>1
  <2>3. \A n \in P \ {cnew} : h.next[n] \in P \ {cnew}
    BY <1>2, <1>4, <1>5, <1>6, <2>2
  <2>4. P \ {cnew} \in SUBSET S /\ root \in P \ {cnew} BY <1>2, <1>6
  <2>5. P \ {cnew} = S BY <2>3, <2>4 DEF OneRing
  <2> QED BY <2>1, <2>5
<1> QED BY <1>1, <1>2, <1>3, <1>6 DEF OneRing

LEMMA OneRingDel ==
  ASSUME NEW Node, NEW h, IsHeap(h, Node), NEW S \in SUBSET Node, NEW root,
         OneRing(h, S, root), NEW c \in S, c # root
  PROVE  OneRing(list_del(h, c), S \ {c}, root)
<1>1. PICK g : g = list_del(h, c) OBVIOUS
<1>2. Linked(h, S) /\ root \in S BY DEF OneRing
<1>3. Linked(g, S \ {c}) BY <1>1, <1>2, DelLinks
<1>4. PICK p \in S : p = h.prev[c] /\ h.next[p] = c BY <1>2 DEF Linked
<1>5. PICK s \in S : s = h.next[c] /\ h.prev[s] = c BY <1>2 DEF Linked
<1>6. \A n \in S : g.next[n] = IF n = p THEN s ELSE h.next[n]
  BY <1>1, <1>4, <1>5 DEF list_del, IsHeap
<1>7. p # c
  <2>1. SUFFICES ASSUME p = c PROVE FALSE OBVIOUS
  <2>2. h.prev[c] = c /\ h.next[c] = c BY <1>4, <2>1
  <2>3. \A n \in S : h.prev[h.next[n]] = n /\ h.next[n] \in S BY <1>2 DEF Linked
  <2>4. \A n \in S \ {c} : h.next[n] \in S \ {c} BY <2>2, <2>3
  <2>5. S \ {c} \in SUBSET S /\ root \in S \ {c} BY <1>2
  <2>6. S \ {c} = S BY <2>4, <2>5 DEF OneRing
  <2> QED BY <2>6
<1>8. ASSUME NEW P \in SUBSET (S \ {c}), root \in P, \A n \in P : g.next[n] \in P
      PROVE  P = S \ {c}
  <2>1. CASE p \in P
    <3>1. s \in P BY <1>6, <1>8, <2>1
    <3>2. \A n \in P \cup {c} : h.next[n] \in P \cup {c}
      BY <1>4, <1>5, <1>6, <1>8, <3>1
    <3>3. P \cup {c} \in SUBSET S /\ root \in P \cup {c} BY <1>8
    <3>4. P \cup {c} = S BY <3>2, <3>3 DEF OneRing
    <3> QED BY <1>8, <3>4
  <2>2. CASE p \notin P
    <3>1. \A n \in P : h.next[n] \in P BY <1>6, <1>8, <2>2
    <3>2. P \in SUBSET S BY <1>8
    <3>3. P = S BY <1>8, <3>1, <3>2 DEF OneRing
    <3> QED BY <1>4, <2>2, <3>3
  <2> QED BY <2>1, <2>2
<1>9. root \in S \ {c} BY <1>2
<1> QED BY <1>1, <1>3, <1>8, <1>9 DEF OneRing

LEMMA HeapKept ==
  ASSUME NEW Node, NEW h, IsHeap(h, Node), NEW c \in Node, NEW d \in Node
  PROVE  IsHeap(list_add(h, c, d), Node) /\ IsHeap(list_del(h, c), Node)
BY DEF IsHeap, list_add, list_del, Insert

\* list_for_each passes the nodes of the ring.
LEMMA ForEach ==
  ASSUME NEW T, IsFiniteSet(T), NEW root, root \notin T, NEW h, IsHeap(h, T \cup {root}),
         NEW S \in SUBSET (T \cup {root}), OneRing(h, S, root)
  PROVE  list_for_each(h, root, Cardinality(T) + 1) = S \ {root}
<1> DEFINE Node == T \cup {root}
           max == Cardinality(T) + 1
           g == [a \in Nat \X Node |-> h.next[a[2]]]
           Good(at) == at = [i \in 1..max |-> IF i = 1 THEN h.next[root] ELSE h.next[at[i - 1]]]
           Passed(at) == {at[i] : i \in {j \in 1..max : \A k \in 1..j : at[k] # root}}
<1>1. max \in Nat \ {0} /\ max = Cardinality(T) + 1 BY FS_CardinalityType
<1>2. /\ Linked(h, S) /\ root \in S
      /\ \A P \in SUBSET S : root \in P /\ (\A n \in P : h.next[n] \in P) => P = S
  BY DEF OneRing
<1> HIDE DEF max
<1>3. \E at : Good(at)
  <2>1. h.next[root] \in Node /\ g \in [Nat \X Node -> Node] BY DEF IsHeap
  <2>2. PICK f \in [Nat -> Node] : Computes(f, h.next[root], g)
    <3> HIDE DEF g, Node
    <3> QED BY <2>1, Recursion
  <2> DEFINE at == [i \in 1..max |-> f[i - 1]]
  <2>3. ASSUME NEW i \in 1..max
        PROVE  at[i] = IF i = 1 THEN h.next[root] ELSE h.next[at[i - 1]]
    <3>1. CASE i = 1 BY <2>2, <3>1 DEF Computes
    <3>2. CASE i # 1
      <4>1. PICK k \in Nat : i - 1 = k + 1 /\ i - 2 = k BY <1>1, <3>2
      <4>2. f[k + 1] = g[<<k, f[k]>>] /\ f[k] \in Node BY <2>2 DEF Computes
      <4>3. g[<<k, f[k]>>] = h.next[f[k]] BY <4>2
      <4>4. i - 1 \in 1..max /\ (i - 1) - 1 = k BY <1>1, <3>2, <4>1
      <4>5. at[i] = f[k + 1] /\ at[i - 1] = f[k] BY <4>1, <4>4
      <4> HIDE DEF at, g
      <4> QED BY <3>2, <4>2, <4>3, <4>5
    <3> QED BY <3>1, <3>2
  <2>4. at = [i \in 1..max |-> at[i]] OBVIOUS
  <2>5. Good(at)
    <3> HIDE DEF at, g
    <3> QED BY <2>3, <2>4, Zenon
  <2> HIDE DEF Good
  <2> QED BY <2>5
<1>4. PICK at : at = CHOOSE f : Good(f) OBVIOUS
<1>5. Good(at)
  <2> HIDE DEF Good
  <2> QED BY <1>3, <1>4
<1>6. list_for_each(h, root, max) = Passed(at) BY <1>4, Zenon DEF list_for_each
<1>7. /\ at[1] = h.next[root]
      /\ \A i \in 1..max : i # 1 => at[i] = h.next[at[i - 1]]
  <2>1. \A i \in 1..max : at[i] = IF i = 1 THEN h.next[root] ELSE h.next[at[i - 1]]
    BY <1>5, Zenon
  <2> HIDE DEF Good
  <2> QED BY <1>1, <2>1
<1> HIDE DEF Good, g
<1>8. \A n \in S : h.next[n] \in S /\ h.prev[h.next[n]] = n BY <1>2 DEF Linked
<1>9. \A i \in 1..max : at[i] \in S
  <2> DEFINE Q == {i \in Nat : i + 1 <= max => at[i + 1] \in S}
  <2>1. 0 \in Q BY <1>2, <1>7, <1>8
  <2>2. ASSUME NEW i \in Nat, i \in Q PROVE i + 1 \in Q
    <3>1. SUFFICES ASSUME (i + 1) + 1 <= max PROVE at[(i + 1) + 1] \in S OBVIOUS
    <3>2. (i + 1) + 1 \in 1..max /\ (i + 1) + 1 # 1 /\ ((i + 1) + 1) - 1 = i + 1 /\ i + 1 <= max
      BY <1>1, <3>1
    <3> QED BY <1>7, <1>8, <2>2, <3>2
  <2>3. \A i \in Nat : i \in Q
    <3> HIDE DEF Q
    <3> QED BY <2>1, <2>2, SetInduction
  <2>4. \A i \in 1..max : i - 1 \in Nat /\ (i - 1) + 1 = i /\ i <= max BY <1>1
  <2> QED BY <2>3, <2>4
<1>10. \A i \in 1..max : h.prev[at[i]] = IF i = 1 THEN root ELSE at[i - 1]
  <2> TAKE i \in 1..max
  <2>1. CASE i = 1 BY <1>2, <1>7, <1>8, <2>1
  <2>2. CASE i # 1
    <3>1. i - 1 \in 1..max BY <1>1, <2>2
    <3> QED BY <1>7, <1>8, <1>9, <2>2, <3>1
  <2> QED BY <2>1, <2>2
<1>11. ~\A i \in 1..max : at[i] # root
  <2> SUFFICES ASSUME \A i \in 1..max : at[i] # root PROVE FALSE
    OBVIOUS
  <2> DEFINE Q == {i \in Nat : \A j \in 1..max : i + 1 < j => at[i + 1] # at[j]}
  <2>1. 0 \in Q
    <3> SUFFICES ASSUME NEW j \in 1..max, 1 < j, at[1] = at[j] PROVE FALSE
      OBVIOUS
    <3>1. j - 1 \in 1..max /\ 1 \in 1..max /\ j # 1 BY <1>1
    <3>2. root = at[j - 1] BY <1>10, <3>1
    <3> QED BY <3>1, <3>2
  <2>2. ASSUME NEW i \in Nat, i \in Q PROVE i + 1 \in Q
    <3> SUFFICES ASSUME NEW j \in 1..max, (i + 1) + 1 < j, at[(i + 1) + 1] = at[j] PROVE FALSE
      OBVIOUS
    <3>1. /\ j - 1 \in 1..max /\ (i + 1) + 1 \in 1..max /\ j # 1 /\ (i + 1) + 1 # 1
          /\ ((i + 1) + 1) - 1 = i + 1 /\ i + 1 < j - 1
      BY <1>1
    <3>2. h.prev[at[(i + 1) + 1]] = at[i + 1]
      <4>1. h.prev[at[(i + 1) + 1]] = at[((i + 1) + 1) - 1] BY <1>10, <3>1, Zenon
      <4> QED BY <3>1, <4>1
    <3>3. h.prev[at[j]] = at[j - 1] BY <1>10, <3>1
    <3>4. at[i + 1] = at[j - 1] BY <3>2, <3>3
    <3> QED BY <2>2, <3>1, <3>4
  <2>3. \A i \in Nat : i \in Q
    <3> HIDE DEF Q
    <3> QED BY <2>1, <2>2, SetInduction
  <2>4. ASSUME NEW i \in 1..max, NEW j \in 1..max, i < j PROVE at[i] # at[j]
    <3>1. i - 1 \in Nat /\ (i - 1) + 1 = i BY <1>1
    <3>2. i - 1 \in Q BY <2>3, <3>1
    <3> QED BY <2>4, <3>1, <3>2
  <2> DEFINE f == [i \in 1..max |-> at[i]]
  <2>5. f \in [1..max -> T] BY <1>9
  <2>6. IsFiniteSet(1..max) /\ Cardinality(1..max) = max
    <3>1. 1 \in Int /\ max \in Int BY <1>1
    <3>2. /\ IsFiniteSet(1..max)
          /\ Cardinality(1..max) = IF 1 > max THEN 0 ELSE max - 1 + 1
      BY <3>1, FS_Interval
    <3> QED BY <1>1, <3>2
  <2>7. Cardinality(T) < max BY <1>1, FS_CardinalityType
  <2>8. \E i, j \in 1..max : i # j /\ f[i] = f[j]
    <3> HIDE DEF f
    <3> QED BY <2>5, <2>6, <2>7, FS_PigeonHole
  <2>9. PICK i \in 1..max, j \in 1..max : i # j /\ at[i] = at[j] BY <2>8
  <2>10. i < j \/ j < i BY <1>1, <2>9
  <2> QED BY <2>4, <2>9, <2>10
<1> DEFINE L == Passed(at)
<1>12. L \subseteq S \ {root}
  <2> SUFFICES ASSUME NEW i \in 1..max, \A k \in 1..i : at[k] # root
               PROVE  at[i] \in S \ {root}
    OBVIOUS
  <2>1. i \in 1..i BY <1>1
  <2> QED BY <1>9, <2>1
<1>13. ASSUME NEW n \in L \cup {root} PROVE h.next[n] \in L \cup {root}
  <2>1. CASE n = root
    <3>1. 1 \in 1..max /\ \A k \in 1..1 : k = 1 BY <1>1
    <3> QED BY <1>7, <2>1, <3>1
  <2>2. CASE n # root
    <3>1. PICK i \in 1..max : n = at[i] /\ \A k \in 1..i : at[k] # root
      BY <1>13, <2>2
    <3>2. i < max BY <1>1, <1>11, <3>1
    <3>3. i + 1 \in 1..max /\ i + 1 # 1 /\ (i + 1) - 1 = i BY <1>1, <3>2
    <3>4. at[i + 1] = h.next[n] BY <1>7, <3>1, <3>3
    <3>5. at[i + 1] # root => \A k \in 1..(i + 1) : at[k] # root
      <4>1. \A k \in 1..(i + 1) : k \in 1..i \/ k = i + 1 BY <1>1
      <4> QED BY <3>1, <4>1
    <3> QED BY <3>3, <3>4, <3>5
  <2> QED BY <2>1, <2>2
<1>14. L \cup {root} = S
  <2>1. L \cup {root} \in SUBSET S /\ root \in L \cup {root} BY <1>2, <1>12
  <2> HIDE DEF L
  <2> QED BY <1>2, <1>13, <2>1
<1>15. L = S \ {root}
  <2> HIDE DEF L
  <2> QED BY <1>12, <1>14
<1> QED BY <1>1, <1>6, <1>15

\* The timers between ListTimer and their list_del; those deleted late keep
\* their entry for good.
Ring ==
  {t \in Timer : adding[t] \in {"listed", "added"} /\ t \notin freed}
    \cup {t \in freed : fgRemove[t]}

ListInv ==
  /\ IsHeap(list, Entry)
  /\ \A t \in freed : adding[t] = "added"
  /\ OneRing(list, Ring \cup {Root}, Root)

LEMMA InitList == ASSUME Init PROVE ListInv
<1>1. /\ adding = [t \in Timer |-> "none"] /\ freed = {}
      /\ list = INIT_LIST_HEAD(Entry)
  BY DEF Init, Entry
<1>2. IsHeap(list, Entry) BY <1>1 DEF INIT_LIST_HEAD, IsHeap
<1>3. Ring = {} BY <1>1 DEF Ring
<1>4. Root \in Entry /\ list.next[Root] = Root /\ list.prev[Root] = Root
  BY <1>1 DEF INIT_LIST_HEAD, Entry
<1>5. OneRing(list, {Root}, Root) BY <1>4 DEF OneRing, Linked
<1>6. Ring \cup {Root} = {Root} BY <1>3
<1> QED BY <1>1, <1>2, <1>5, <1>6 DEF ListInv

LEMMA ListKept ==
  ASSUME ListInv, list' = list, Ring' = Ring, \A t \in freed' : adding'[t] = "added"
  PROVE  ListInv'
BY DEF ListInv

LEMMA ListFound ==
  ASSUME TypeOK, ListInv
  PROVE  Listed = Ring /\ Ring \subseteq Timer
<1>1. Ring \subseteq Timer BY DEF Ring, TypeOK
<1>2. Ring \cup {Root} \in SUBSET (Timer \cup {Root}) BY <1>1
<1>3. IsHeap(list, Timer \cup {Root}) /\ OneRing(list, Ring \cup {Root}, Root)
  BY DEF ListInv, Entry
<1>4. IsFiniteSet(Timer) /\ Root \notin Timer BY TimerAssumption
<1>5. Listed = (Ring \cup {Root}) \ {Root} BY <1>2, <1>3, <1>4, ForEach DEF Listed
<1> QED BY <1>1, <1>4, <1>5

LEMMA ListTimerRing ==
  ASSUME Core, ListInv, NEW t \in Timer, ListTimer(t)
  PROVE  ListInv'
<1>1. TypeOK BY DEF Core
<1>2. /\ adding[t] = "alloc" /\ adding' = [adding EXCEPT ![t] = "listed"]
      /\ list' = list_add(list, t, Root) /\ freed' = freed /\ fgRemove' = fgRemove
  BY DEF ListTimer
<1>3. t \notin freed BY <1>2 DEF ListInv
<1>4. t \notin Ring /\ Ring' = Ring \cup {t}
  BY <1>1, <1>2, <1>3 DEF Ring, TypeOK
<1>5. Ring \cup {Root} \in SUBSET Entry /\ t \in Entry \ (Ring \cup {Root})
  BY <1>1, <1>4, TimerAssumption DEF Ring, Entry, TypeOK
<1>6. IsHeap(list, Entry) /\ OneRing(list, Ring \cup {Root}, Root) /\ Root \in Entry
  BY DEF ListInv, Entry
<1>7. OneRing(list', (Ring \cup {Root}) \cup {t}, Root)
  BY <1>2, <1>5, <1>6, OneRingAdd
<1>8. IsHeap(list', Entry) BY <1>2, <1>5, <1>6, HeapKept
<1>9. (Ring \cup {Root}) \cup {t} = Ring' \cup {Root} BY <1>4
<1>10. \A u \in freed' : adding'[u] = "added"
  BY <1>1, <1>2, <1>3 DEF ListInv, TypeOK
<1> QED BY <1>7, <1>8, <1>9, <1>10 DEF ListInv

LEMMA ReuseDoneRing == ASSUME Core, ListInv, ReuseDone PROVE ListInv'
<1>1. TypeOK /\ PlaceInv BY DEF Core
<1>2. cur \in Timer /\ cur \in Alive BY <1>1 DEF ReuseDone, TypeOK, PlaceInv
<1>3. /\ list' = IF fgRemove[cur] THEN list ELSE list_del(list, cur)
      /\ freed' = freed \cup {cur} /\ adding' = adding /\ fgRemove' = fgRemove
  BY DEF ReuseDone
<1>4. adding[cur] = "added" /\ cur \notin freed /\ cur \in Ring BY <1>2 DEF Alive, Ring
<1>5. \A t \in freed' : adding'[t] = "added" BY <1>3, <1>4 DEF ListInv
<1>6. CASE fgRemove[cur]
  <2>1. Ring' = Ring BY <1>2, <1>3, <1>4, <1>6 DEF Ring
  <2> QED BY <1>3, <1>5, <1>6, <2>1, ListKept
<1>7. CASE ~fgRemove[cur]
  <2>1. Ring' = Ring \ {cur} BY <1>2, <1>3, <1>4, <1>7 DEF Ring
  <2>2. /\ Ring \cup {Root} \in SUBSET Entry /\ cur \in Ring \cup {Root} /\ cur # Root
        /\ cur \in Entry
    BY <1>1, <1>2, <1>4, TimerAssumption DEF Ring, Entry, TypeOK
  <2>3. IsHeap(list, Entry) /\ OneRing(list, Ring \cup {Root}, Root) BY DEF ListInv
  <2>4. list' = list_del(list, cur) BY <1>3, <1>7
  <2>5. OneRing(list', (Ring \cup {Root}) \ {cur}, Root)
    BY <2>2, <2>3, <2>4, OneRingDel
  <2>6. IsHeap(list', Entry) BY <2>2, <2>3, <2>4, HeapKept
  <2>7. (Ring \cup {Root}) \ {cur} = Ring' \cup {Root} BY <2>1, <2>2
  <2> QED BY <1>5, <2>5, <2>6, <2>7 DEF ListInv
<1> QED BY <1>6, <1>7

\* A timer found by its key is not freed, or deleted already.
LEMMA DeleteRing ==
  ASSUME Core, ListInv, NEW t \in Timer, PFU_timerDelete(t)
  PROVE  ListInv'
<1>1. TypeOK BY DEF Core
<1>2. /\ Found(t) /\ fgRemove' = [fgRemove EXCEPT ![t] = TRUE]
      /\ list' = list /\ freed' = freed /\ adding' = adding
  BY DEF PFU_timerDelete
<1>3. t \in Ring BY <1>1, <1>2, ListFound DEF Found
<1>4. t \in freed => fgRemove[t] BY <1>3 DEF Ring
<1>5. \A u \in Timer : u # t => fgRemove'[u] = fgRemove[u] BY <1>1, <1>2 DEF TypeOK
<1>6. fgRemove'[t] BY <1>1, <1>2 DEF TypeOK
<1>7. freed \subseteq Timer BY <1>1 DEF TypeOK
<1>8. \A u \in freed : fgRemove'[u] <=> fgRemove[u] BY <1>4, <1>5, <1>6, <1>7
<1>9. Ring' = Ring BY <1>2, <1>8 DEF Ring
<1> QED BY <1>2, <1>9, ListKept DEF ListInv

LEMMA AddingRing ==
  ASSUME Core, ListInv, NEW t \in Timer, Alloc(t) \/ AddTimer(t)
  PROVE  ListInv' /\ t \notin freed
<1>1. TypeOK BY DEF Core
<1>2. list' = list /\ freed' = freed /\ fgRemove' = fgRemove
  BY DEF Alloc, AddTimer
<1>3. \/ adding[t] = "none" /\ adding' = [adding EXCEPT ![t] = "alloc"]
      \/ adding[t] = "listed" /\ adding' = [adding EXCEPT ![t] = "added"]
  BY DEF Alloc, AddTimer
<1>4. t \notin freed BY <1>3 DEF ListInv
<1>5. \A u \in Timer : adding'[u] \in {"listed", "added"} <=> adding[u] \in {"listed", "added"}
  BY <1>1, <1>3 DEF TypeOK
<1>6. Ring' = Ring BY <1>2, <1>5 DEF Ring
<1>7. \A u \in freed' : adding'[u] = "added"
  BY <1>1, <1>2, <1>3, <1>4 DEF ListInv, TypeOK
<1> QED BY <1>2, <1>4, <1>6, <1>7, ListKept

LEMMA OthersRing ==
  ASSUME Core, ListInv, UNCHANGED <<adding, freed, fgRemove, list>>
  PROVE  ListInv'
<1>1. Ring' = Ring BY DEF Ring
<1> QED BY <1>1, ListKept DEF ListInv

IInv == Core /\ ListInv /\ DueInv

------------------------------------------------------------------------------
(* The alarms                                                                *)

\* The ticks from timer_jiffies to the expiry of a timer.
Ahead(t) == Minus(expires[t], timer_jiffies)

LEMMA AheadFacts ==
  ASSUME TypeOK, NEW t \in Timer
  PROVE  Ahead(t) \in 0 .. Word - 1
<1>1. expires[t] \in Int /\ timer_jiffies \in Int BY TypeFacts, WheelFacts
<1> QED BY <1>1, MinusFacts DEF Ahead

\* In the slot of this tick a timer is due or late,
LEMMA HeadDue ==
  ASSUME Core, running, NEW k \in DOMAIN vec[<<1, index[1]>>],
         NEW t, t = vec[<<1, index[1]>>][k]
  PROVE  Negative(Ahead(t)) \/ Ahead(t) = 0
<1>1. TypeOK /\ WheelInv BY DEF Core
<1>2. PICK now \in 0 .. Word - 1 : now = timer_jiffies /\ now \in Int
  BY <1>1, TypeFacts
<1>3. PICK rest : InStep(rest, now, index, TRUE) /\ Fits(vec, rest, now, index)
  <2>1. running = TRUE BY <1>1, TypeFacts
  <2> QED BY <1>1, <1>2, <2>1 DEF WheelInv
<1>4. PICK s \in Nat \ {0}, c \in Nat :
        s = Size(1) /\ c = index[1] /\ c \in 0 .. s - 1 /\ Weight[1] = 1 /\ rest[1] = 0
        /\ <<1, index[1]>> \in Slots
  <2>1. 1 \in 1..5 OBVIOUS
  <2>2. PICK s \in Nat \ {0} : s = Size(1) BY <2>1, WheelFacts
  <2>3. index[1] \in 0 .. s - 1 /\ <<1, index[1]>> \in Slots
    BY <1>2, <1>3, <2>1, <2>2, InStepFacts
  <2>4. PICK c \in Nat : c = index[1] /\ c \in 0 .. s - 1 BY <2>3
  <2>5. Weight[1] = 1 BY WheelFacts
  <2>6. rest[1] = 0 BY <1>3 DEF InStep
  <2> QED BY <2>2, <2>3, <2>4, <2>5, <2>6
<1>5. PICK d : d = Ahead(t) /\ d \in Int
  <2>1. t \in Timer
    <3>1. vec \in Wheels BY <1>1, TypeFacts
    <3>2. PICK v \in Seq(Timer) : v = vec[<<1, index[1]>>] BY <1>4, <3>1 DEF Wheels
    <3> QED BY <3>2
  <2>2. Ahead(t) \in 0 .. Word - 1 BY <1>1, <2>1, AheadFacts
  <2>3. Word \in Int BY WheelFacts
  <2> QED BY <2>2, <2>3
<1>6. PICK x : x = <<1, index[1]>> /\ x[1] = 1 /\ x[2] = c BY <1>4
<1>7. Window(expires[t], x, rest, now, index) BY <1>3, <1>4, <1>6 DEF Fits
<1>8. ASSUME ~Negative(d) PROVE d = 0
  <2>1. PICK q \in 0 .. s - 1 : /\ c = (c + q) % s
                                /\ 0 + q * 1 <= d /\ d < 0 + (q + 1) * 1
    BY <1>2, <1>4, <1>5, <1>6, <1>7, <1>8 DEF Window, Within, Ahead
  <2>2. (c + q) % s = IF c + q < s THEN c + q ELSE c + q - s
    <3>1. q \in 0 .. s /\ c \in 0 .. s - 1 BY <1>4
    <3> QED BY <3>1, OnceRound, Zenon
  <2>3. q = 0 BY <1>4, <2>1, <2>2
  <2> QED BY <1>5, <2>1, <2>3
<1> QED BY <1>5, <1>8

\* and only there.
LEMMA ElsewhereAhead ==
  ASSUME Core, running, vec[<<1, index[1]>>] = << >>, NEW t \in In(vec)
  PROVE  Ahead(t) \in 1 .. (Sign - 1)
<1>1. TypeOK /\ WheelInv BY DEF Core
<1>2. PICK now \in 0 .. Word - 1 : now = timer_jiffies /\ now \in Int
  BY <1>1, TypeFacts
<1>3. PICK rest : InStep(rest, now, index, TRUE) /\ Fits(vec, rest, now, index)
  <2>1. running = TRUE BY <1>1, TypeFacts
  <2> QED BY <1>1, <1>2, <2>1 DEF WheelInv
<1>4. PICK y \in Slots : \E k \in DOMAIN vec[y] : vec[y][k] = t BY DEF In
<1>5. y # <<1, index[1]>> BY <1>4
<1>6. PICK d, g \in Nat : d = Ahead(t) /\ d \in Nat /\ g = Sign
  <2>1. t \in Timer BY DEF In
  <2>2. Ahead(t) \in 0 .. Word - 1 BY <1>1, <2>1, AheadFacts
  <2>3. Word \in Nat /\ Sign \in Nat BY WheelFacts
  <2> QED BY <2>2, <2>3
<1>7. Window(expires[t], y, rest, now, index) BY <1>3, <1>4 DEF Fits
<1>8. ~Negative(d) /\ Within(expires[t], y, rest, now, index)
  BY <1>2, <1>5, <1>6, <1>7 DEF Window, Ahead
<1>9. PICK n \in 1..5 : n = y[1] /\ y = <<n, y[2]>> BY DEF Slots
<1>10. PICK w \in Nat \ {0}, s \in Nat \ {0}, r \in Nat, c \in Nat :
         w = Weight[n] /\ s = Size(n) /\ r = rest[n] /\ c = index[n] /\ c \in 0 .. s - 1
  <2>1. PICK w \in Nat \ {0}, s \in Nat \ {0} : w = Weight[n] /\ s = Size(n)
    BY WheelFacts
  <2>2. rest[n] \in Nat /\ index[n] \in 0 .. s - 1 BY <1>2, <1>3, <2>1, InStepFacts
  <2> QED BY <2>1, <2>2
<1>11. PICK q \in 0 .. s - 1 : y[2] = (c + q) % s /\ r + q * w <= d
  BY <1>2, <1>6, <1>8, <1>9, <1>10 DEF Within, Ahead
<1>12. d # 0
  <2>1. SUFFICES ASSUME d = 0 PROVE FALSE OBVIOUS
  <2>2. PICK z \in Nat : z = q * w /\ (q # 0 => z >= 1)
    <3>1. q # 0 => q * w >= 1
      <4>1. ASSUME q # 0 PROVE q * w >= 1
        <5>1. q >= 1 /\ w >= 1 BY <4>1
        <5>2. (q - 1) * w >= 0 /\ (q - 1) * w = q * w - w BY <5>1
        <5> QED BY <5>1, <5>2
      <4> QED BY <4>1
    <3>2. q * w \in Nat OBVIOUS
    <3> QED BY <3>1, <3>2
  <2>3. r = 0 /\ q = 0 BY <1>11, <2>1, <2>2
  <2>4. n = 1
    <3>1. n # 1 => n \in 2..5 OBVIOUS
    <3>2. n # 1 => 1 <= rest[n] BY <1>3, <3>1 DEF InStep
    <3> QED BY <1>10, <2>3, <3>2
  <2>5. (c + 0) % s = c
    <3>1. 0 \in 0 .. s /\ c + 0 < s /\ c \in 0 .. s - 1 BY <1>10
    <3>2. (c + 0) % s = IF c + 0 < s THEN c + 0 ELSE c + 0 - s BY <3>1, OnceRound, Zenon
    <3> QED BY <1>10, <3>1, <3>2
  <2> QED BY <1>5, <1>9, <1>10, <1>11, <2>3, <2>4, <2>5
<1>13. d < g BY <1>6, <1>8 DEF Negative
<1>14. 1 <= d /\ d <= g - 1 BY <1>6, <1>12, <1>13
<1> QED BY <1>6, <1>14

LEMMA QueuedFacts ==
  /\ \A t : Queued(t) <=> t \in Elements(queued)
  /\ \A t : Queued(t)' <=> t \in Elements(queued')
BY DEF Queued, Elements

LEMMA LeftNone ==
  ASSUME NEW t
  PROVE  /\ adding[t] # "added" \/ t \in freed \/ cur = t => Left(t) = None
         /\ adding'[t] # "added" \/ t \in freed' \/ cur' = t => Left(t)' = None
BY DEF Left

\* A step that does not set the timer, nor take it, leaves it its ticks.
LEMMA SameLeft ==
  ASSUME NEW t, timer_jiffies' = timer_jiffies, expires'[t] = expires[t],
         adding'[t] = adding[t], t \in freed' <=> t \in freed, cur' = t <=> cur = t,
         Queued(t)' <=> Queued(t)
  PROVE  Left(t)' = Left(t)
BY DEF Left

LEMMA LeftSomewhere ==
  ASSUME TypeOK, PlaceInv, NEW t \in Timer
  PROVE  /\ t \in In(vec) => Left(t) = IF Negative(Ahead(t)) THEN 0 ELSE Ahead(t)
         /\ t \in Elements(queued) =>
              Left(t) = IF Negative(Ahead(t)) \/ Ahead(t) = 0 THEN 1 ELSE Ahead(t)
         /\ Left(t) = None \/ t \in In(vec) \/ t \in Elements(queued)
<1>1. t \in In(vec) \/ t \in Elements(queued) => adding[t] = "added" /\ t \notin freed /\ cur # t
  BY DEF PlaceInv, Alive
<1>2. t \in In(vec) => ~Queued(t) BY QueuedFacts DEF PlaceInv
<1>3. t \in Elements(queued) => Queued(t) BY QueuedFacts
<1>4. t \in In(vec) \/ t \in Elements(queued) \/ cur = t \/ adding[t] # "added" \/ t \in freed
  BY DEF PlaceInv, Alive
<1>5. t \in In(vec) => Left(t) = IF Negative(Ahead(t)) THEN 0 ELSE Ahead(t)
  BY <1>1, <1>2 DEF Left, Ahead
<1>6. t \in Elements(queued) =>
        Left(t) = IF Negative(Ahead(t)) \/ Ahead(t) = 0 THEN 1 ELSE Ahead(t)
  BY <1>1, <1>3 DEF Left, Ahead
<1> QED BY <1>4, <1>5, <1>6, LeftNone

LEMMA PhaseFacts ==
  /\ pc = "call" => Phase = "due"
  /\ pc = "callback" => Phase = "rings"
  /\ pc \in {"reuse", "readd"} => Phase = "over"
  /\ pc \notin {"call", "callback", "reuse", "readd"} => Phase = "idle"
  /\ pc' = "call" => Phase' = "due"
  /\ pc' = "callback" => Phase' = "rings"
  /\ pc' \in {"reuse", "readd"} => Phase' = "over"
  /\ pc' \notin {"call", "callback", "reuse", "readd"} => Phase' = "idle"
BY DEF Phase

LEMMA RingStutters ==
  ASSUME \A t \in Timer : Left(t)' = Left(t), Phase' = Phase, cur' = cur, fgRemove' = fgRemove
  PROVE  UNCHANGED Ringing!vars
<1>1. [t \in Timer |-> Left(t)]' = [t \in Timer |-> Left(t)] OBVIOUS
<1> QED BY <1>1 DEF Ringing!vars

\* All that happens between a setting and a ring, the cascades among it, is no
\* step of the alarms.
LEMMA StepStutters ==
  ASSUME Core,
         \/ Tick \/ Cascade \/ TurnDone \/ WokenUp \/ ReuseRepeat \/ PFU_timerExit
         \/ \E t \in Timer : Alloc(t) \/ ListTimer(t) \/ PFU_timerSetMsec(t)
  PROVE  UNCHANGED Ringing!vars
<1>1. TypeOK /\ PlaceInv BY DEF Core
<1>2. CASE Tick \/ TurnDone \/ WokenUp \/ PFU_timerExit
  <2>1. UNCHANGED <<timer_jiffies, queued, expires, adding, freed, cur, fgRemove>>
    BY <1>2 DEF Tick, TurnDone, WokenUp, PFU_timerExit, wheel, timers
  <2>2. \A t \in Timer : Left(t)' = Left(t) BY <2>1, SameLeft DEF Queued
  <2>3. Phase' = Phase
    <3>1. CASE PFU_timerExit BY <3>1 DEF PFU_timerExit, Phase
    <3>2. CASE Tick \/ TurnDone \/ WokenUp
      <4>1. /\ pc \notin {"call", "callback", "reuse", "readd"}
            /\ pc' \notin {"call", "callback", "reuse", "readd"}
        BY <3>2 DEF Tick, TurnDone, WokenUp
      <4> QED BY <4>1, PhaseFacts
    <3> QED BY <1>2, <3>1, <3>2
  <2> QED BY <2>1, <2>2, <2>3, RingStutters
<1>3. CASE Cascade
  <2>1. UNCHANGED <<timer_jiffies, expires, adding, freed, cur, fgRemove>> /\ queued' = << >>
    BY <1>3 DEF Cascade, timers
  <2>2. queued = << >>
    <3>1. ~running BY <1>1, <1>3, TypeFacts DEF Cascade
    <3> QED BY <1>1, <3>1 DEF PlaceInv
  <2>3. \A t \in Timer : Left(t)' = Left(t) BY <2>1, <2>2, SameLeft DEF Queued
  <2>4. /\ pc \notin {"call", "callback", "reuse", "readd"}
        /\ pc' \notin {"call", "callback", "reuse", "readd"}
    BY <1>3 DEF Cascade
  <2>5. Phase' = Phase BY <2>4, PhaseFacts
  <2> QED BY <2>1, <2>3, <2>5, RingStutters
<1>4. CASE ReuseRepeat
  <2>1. /\ UNCHANGED <<timer_jiffies, queued, adding, freed, cur, fgRemove>>
        /\ pc = "reuse" /\ pc' = "readd"
        /\ \A t \in Timer : t # cur => expires'[t] = expires[t]
    BY <1>1, <1>4, TypeFacts DEF ReuseRepeat, wheel
  <2>2. ASSUME NEW t \in Timer PROVE Left(t)' = Left(t)
    <3>1. CASE t = cur BY <2>1, <3>1, LeftNone
    <3>2. CASE t # cur BY <2>1, <3>2, SameLeft DEF Queued
    <3> QED BY <3>1, <3>2
  <2>3. Phase' = Phase BY <2>1, PhaseFacts
  <2> QED BY <2>1, <2>2, <2>3, RingStutters
<1>5. ASSUME NEW t \in Timer, Alloc(t) \/ ListTimer(t) \/ PFU_timerSetMsec(t)
      PROVE  UNCHANGED Ringing!vars
  <2>1. UNCHANGED <<timer_jiffies, queued, pc, cur, freed, fgRemove>>
    BY <1>5 DEF Alloc, ListTimer, PFU_timerSetMsec, wheel
  <2>2. \/ expires' = expires /\ adding' = adding
        \/ /\ adding[t] # "added" /\ adding'[t] # "added"
           /\ \A u \in Timer : u # t => expires'[u] = expires[u] /\ adding'[u] = adding[u]
    BY <1>1, <1>5 DEF Alloc, ListTimer, PFU_timerSetMsec, TypeOK
  <2>3. ASSUME NEW u \in Timer PROVE Left(u)' = Left(u)
    <3>1. CASE expires'[u] = expires[u] /\ adding'[u] = adding[u]
      BY <2>1, <3>1, SameLeft DEF Queued
    <3>2. CASE u = t /\ adding[t] # "added" /\ adding'[t] # "added" BY <3>2, LeftNone
    <3> QED BY <2>2, <3>1, <3>2
  <2>4. Phase' = Phase BY <2>1 DEF Phase
  <2> QED BY <2>1, <2>3, <2>4, RingStutters
<1> QED BY <1>2, <1>3, <1>4, <1>5

\* The thread takes a timer in the tick it is due, or late for.
LEMMA DetachRings == ASSUME Core, DetachTimer PROVE Ringing!Next
<1>1. TypeOK /\ PlaceInv BY DEF Core
<1>2. running /\ cur \notin Timer /\ pc \in {"slot", "next"} /\ pc' = "call"
  BY <1>1, TypeFacts DEF DetachTimer
<1>3. PICK s : s = vec[<<1, index[1]>>] /\ s \in Seq(Timer) /\ s # << >>
               /\ \A k \in DOMAIN s : s[k] \in In(vec)
  <2>1. <<1, index[1]>> \in Slots
    <3>1. PICK rest : InStep(rest, timer_jiffies, index, running)
      BY DEF Core, WheelInv
    <3>2. timer_jiffies \in Int /\ running \in BOOLEAN /\ 1 \in 1..5 BY <1>1, TypeFacts
    <3> QED BY <3>1, <3>2, InStepFacts
  <2>2. PICK s \in Seq(Timer) : s = vec[<<1, index[1]>>]
    BY <1>1, <2>1, TypeFacts DEF Wheels
  <2>3. \A k \in DOMAIN s : s[k] \in In(vec) BY <2>1, <2>2 DEF In
  <2> QED BY <2>2, <2>3 DEF DetachTimer
<1>4. PICK t \in Timer : t = Head(s) /\ t = s[1] /\ 1 \in DOMAIN s /\ t \in In(vec) /\ cur' = t
  <2>1. Head(s) = s[1] /\ 1 \in DOMAIN s /\ Head(s) \in Timer BY <1>3
  <2> QED BY <1>3, <2>1 DEF DetachTimer
<1>5. Left(t) = 0
  <2>1. Negative(Ahead(t)) \/ Ahead(t) = 0 BY <1>2, <1>3, <1>4, HeadDue
  <2> QED BY <1>1, <1>4, <2>1, LeftSomewhere
<1>6. UNCHANGED <<timer_jiffies, queued, expires, adding, freed, fgRemove>>
  BY DEF DetachTimer, timers
<1>7. ASSUME NEW u \in Timer PROVE Left(u)' = IF u = t THEN None ELSE Left(u)
  <2>1. CASE u = t BY <1>4, <2>1, LeftNone
  <2>2. CASE u # t BY <1>2, <1>4, <1>6, <2>2, SameLeft DEF Queued
  <2> QED BY <2>1, <2>2
<1>8. Phase = "idle" /\ Phase' = "due" BY <1>2, PhaseFacts
<1>9. Ringing!Elapse(t) BY <1>4, <1>5, <1>6, <1>7, <1>8 DEF Ringing!Elapse
<1> QED BY <1>9 DEF Ringing!Next

\* The thread leaves a tick when no timer is due in it, and every timer has one
\* tick less to wait; those queued have been late, or set for a later tick.
LEMMA SlotDoneTicks == ASSUME IInv, SlotDone PROVE Ringing!Next
<1>1. TypeOK /\ PlaceInv /\ Core /\ DueInv BY DEF IInv, Core
<1>2. running /\ cur \notin Timer /\ pc \in {"slot", "next"} /\ pc' = "turn"
  BY <1>1, TypeFacts DEF SlotDone
<1>3. UNCHANGED <<expires, adding, freed, fgRemove, cur>> /\ queued' = << >>
      /\ timer_jiffies' = (timer_jiffies + 1) % Word
  BY DEF SlotDone, timers
<1>4. PICK g \in Nat : g = Sign /\ g >= 4 /\ Word = 2 * g BY WheelFacts
<1>5. ASSUME NEW t \in Timer
      PROVE  /\ Left(t) # 0
             /\ Left(t)' = IF Left(t) = None THEN None ELSE Left(t) - 1
  <2>1. PICK d \in 0 .. 2 * g - 1 : d = Ahead(t) BY <1>1, <1>4, AheadFacts
  <2>2. Negative(d) <=> d >= g BY <1>4 DEF Negative
  <2>3. Ahead(t)' = IF d = 0 THEN 2 * g - 1 ELSE d - 1
    <3>1. expires[t] \in 0 .. Word - 1 /\ timer_jiffies \in 0 .. Word - 1
      BY <1>1, TypeFacts
    <3>2. Minus(expires[t], (timer_jiffies + 1) % Word) = IF d = 0 THEN Word - 1 ELSE d - 1
      BY <2>1, <3>1, MinusNext DEF Ahead
    <3> QED BY <1>3, <1>4, <3>2 DEF Ahead
  <2>4. PICK f \in Int : f = Ahead(t)' /\ f = (IF d = 0 THEN 2 * g - 1 ELSE d - 1)
                         /\ (Negative(f) <=> f >= g)
    <3>1. PICK f : f = Ahead(t)' OBVIOUS
    <3>2. f = (IF d = 0 THEN 2 * g - 1 ELSE d - 1) BY <2>3, <3>1
    <3>3. f \in Int BY <3>2
    <3> QED BY <1>4, <3>1, <3>2, <3>3 DEF Negative
  <2>5. adding[t] = "added" /\ t \notin freed /\ cur # t
          => Left(t)' = IF Negative(f) THEN 0 ELSE f
    <3>1. ~Queued(t)' BY <1>3 DEF Queued
    <3> QED BY <1>3, <2>4, <3>1 DEF Left, Ahead
  <2>6. CASE t \in In(vec)
    <3>1. vec[<<1, index[1]>>] = << >> BY DEF SlotDone
    <3>2. Ahead(t) \in 1 .. (Sign - 1) BY <1>1, <1>2, <2>6, <3>1, ElsewhereAhead
    <3>3. 1 <= d /\ d < g BY <1>4, <2>1, <3>2
    <3>4. Left(t) = d
      <4>1. ~Negative(d) BY <2>2, <3>3
      <4> QED BY <1>1, <2>1, <2>6, <4>1, LeftSomewhere
    <3>5. f = d - 1 /\ ~Negative(f) BY <2>4, <3>3
    <3>6. Left(t)' = d - 1 BY <1>1, <2>5, <2>6, <3>5 DEF PlaceInv, Alive
    <3>7. d # 0 /\ d # None BY <3>3, TimerAssumption
    <3> QED BY <3>4, <3>6, <3>7
  <2>7. CASE t \in Elements(queued)
    <3>1. d # g BY <1>1, <1>4, <2>1, <2>7 DEF DueInv, Ahead
    <3>2. Left(t)' = IF Negative(f) THEN 0 ELSE f BY <1>1, <2>5, <2>7 DEF PlaceInv, Alive
    <3>3. Left(t) = IF Negative(d) \/ d = 0 THEN 1 ELSE d
      BY <1>1, <2>1, <2>7, LeftSomewhere
    <3>4. CASE d >= g \/ d = 0
      <4>1. f >= g BY <1>4, <2>4, <3>1, <3>4
      <4>2. Left(t) = 1 /\ Left(t)' = 0 BY <2>2, <2>4, <3>2, <3>3, <3>4, <4>1
      <4> QED BY <4>2, TimerAssumption
    <3>5. CASE ~(d >= g \/ d = 0)
      <4>1. f = d - 1 /\ f < g BY <2>4, <3>5
      <4>2. Left(t) = d /\ Left(t)' = d - 1 BY <2>2, <2>4, <3>2, <3>3, <3>5, <4>1
      <4>3. d # None /\ d # 0 BY <3>5, TimerAssumption
      <4> QED BY <4>2, <4>3
    <3> QED BY <3>4, <3>5
  <2>8. CASE t \notin In(vec) /\ t \notin Elements(queued)
    <3>1. adding[t] # "added" \/ t \in freed
      BY <1>1, <1>2, <2>8 DEF PlaceInv, Alive
    <3>2. Left(t) = None /\ Left(t)' = None BY <1>3, <3>1, LeftNone
    <3> QED BY <3>2, TimerAssumption
  <2> QED BY <2>6, <2>7, <2>8
<1>6. Phase = "idle" /\ Phase' = "idle" BY <1>2, PhaseFacts
<1>7. Ringing!Tick BY <1>3, <1>5, <1>6 DEF Ringing!Tick
<1> QED BY <1>7 DEF Ringing!Next

LEMMA CallRings == ASSUME Core, Call \/ CallbackReturns PROVE Ringing!Next
<1>1. TypeOK BY DEF Core
<1>2. UNCHANGED <<timer_jiffies, queued, expires, adding, freed, fgRemove, cur>>
  BY DEF Call, CallbackReturns, wheel, timers
<1>3. \A t \in Timer : Left(t)' = Left(t) BY <1>2, SameLeft DEF Queued
<1>4. cur \in Timer BY <1>1, TypeFacts DEF Call, CallbackReturns
<1>5. CASE Call /\ fgRemove[cur]
  <2>1. Phase = "due" /\ Phase' = "over" BY <1>5, PhaseFacts DEF Call
  <2>2. Ringing!Over BY <1>2, <1>3, <1>4, <1>5, <2>1 DEF Ringing!Over
  <2> QED BY <2>2 DEF Ringing!Next
<1>6. CASE Call /\ ~fgRemove[cur]
  <2>1. Phase = "due" /\ Phase' = "rings" BY <1>6, PhaseFacts DEF Call
  <2>2. Ringing!Ring BY <1>2, <1>3, <1>6, <2>1 DEF Ringing!Ring
  <2> QED BY <2>2 DEF Ringing!Next
<1>7. CASE CallbackReturns
  <2>1. Phase = "rings" /\ Phase' = "over" BY <1>7, PhaseFacts DEF CallbackReturns
  <2>2. Ringing!Over BY <1>2, <1>3, <2>1 DEF Ringing!Over
  <2> QED BY <2>2 DEF Ringing!Next
<1> QED BY <1>5, <1>6, <1>7

\* The ticks of a timer that is put into the wheel or the queue.
LEMMA LeftBounds ==
  ASSUME TypeOK, NEW t \in Timer, UNCHANGED <<timer_jiffies, expires>>,
         adding'[t] = "added", t \notin freed', cur' # t
  PROVE  /\ Left(t)' \in 0 .. Sign
         /\ Queued(t)' => Left(t)' \in 1 .. Sign
<1>1. PICK g \in Nat : g = Sign /\ g >= 4 /\ Word = 2 * g BY WheelFacts
<1>2. PICK d \in 0 .. 2 * g - 1 : d = Ahead(t) BY <1>1, AheadFacts
<1>3. Ahead(t)' = d BY <1>2 DEF Ahead
<1>4. Left(t)' = IF Queued(t)' THEN (IF Negative(d) \/ d = 0 THEN 1 ELSE d)
                 ELSE (IF Negative(d) THEN 0 ELSE d)
  BY <1>3 DEF Left, Ahead
<1>5. Negative(d) <=> d >= g BY <1>1 DEF Negative
<1>6. CASE Queued(t)'
  <2>1. Left(t)' = IF d >= g \/ d = 0 THEN 1 ELSE d BY <1>4, <1>5, <1>6
  <2>2. Left(t)' \in 1 .. g /\ Left(t)' \in 0 .. g BY <1>1, <2>1
  <2> QED BY <1>1, <2>2
<1>7. CASE ~Queued(t)'
  <2>1. Left(t)' = IF d >= g THEN 0 ELSE d BY <1>4, <1>5, <1>7
  <2>2. Left(t)' \in 0 .. g BY <1>1, <2>1
  <2> QED BY <1>1, <1>7, <2>2
<1> QED BY <1>6, <1>7

\* A timer whose turn is over is set again for a later tick, or is gone.
LEMMA ReuseFinishes == ASSUME Core, Readd \/ ReuseDone PROVE Ringing!Next
<1>1. TypeOK /\ PlaceInv BY DEF Core
<1>2. PICK t \in Timer : t = cur
  BY <1>1, TypeFacts DEF Readd, ReuseDone
<1>3. adding[t] = "added" /\ t \notin freed /\ t \notin Elements(queued)
  BY <1>1, <1>2, NotQueued
<1>4. /\ pc \in {"reuse", "readd"} /\ pc' = "next" /\ cur' = None /\ cur' \notin Timer /\ running
  BY <1>1, <1>2, TypeFacts, TimerAssumption DEF Readd, ReuseDone
<1>5. UNCHANGED <<timer_jiffies, adding, fgRemove>>
  BY DEF Readd, ReuseDone, wheel, timers
<1>6. Phase = "over" /\ Phase' = "idle" BY <1>4, PhaseFacts
<1>7. ASSUME Left(t)' \in {None} \cup 1..Sign,
             \A u \in Timer : u # t => Left(u)' = Left(u)
      PROVE  Ringing!Next
  <2>1. PICK n \in {None} \cup 1..Sign : n = Left(t)' BY <1>7
  <2>2. [u \in Timer |-> Left(u)]' = [[u \in Timer |-> Left(u)] EXCEPT ![cur] = n]
    BY <1>2, <1>7, <2>1
  <2>3. Ringing!Finish BY <1>4, <1>5, <1>6, <2>2 DEF Ringing!Finish
  <2> QED BY <2>3 DEF Ringing!Next
<1>8. CASE Readd
  <2>1. queued' = Append(queued, t) /\ UNCHANGED <<expires, freed>>
    BY <1>2, <1>4, <1>8 DEF Readd, internal_add_timer, timers
  <2>2. Elements(queued') = Elements(queued) \cup {t}
    BY <1>1, <1>3, <2>1, TypeFacts, AppendFacts DEF PlaceInv
  <2>3. \A u \in Timer : u # t => (Queued(u)' <=> Queued(u)) BY <2>2, QueuedFacts
  <2>4. \A u \in Timer : u # t => Left(u)' = Left(u)
    BY <1>2, <1>4, <1>5, <2>1, <2>3, SameLeft
  <2>5. Queued(t)' BY <2>2, QueuedFacts
  <2>6. Left(t)' \in 1 .. Sign
    BY <1>1, <1>3, <1>4, <1>5, <2>1, <2>5, LeftBounds
  <2> QED BY <1>7, <2>4, <2>6
<1>9. CASE ReuseDone
  <2>1. /\ freed' = freed \cup {t} /\ queued' = queued
        /\ \A u \in Timer : u # t => expires'[u] = expires[u]
    BY <1>1, <1>2, <1>9, TypeFacts DEF ReuseDone, wheel
  <2>2. \A u \in Timer : u # t => Left(u)' = Left(u)
    BY <1>2, <1>4, <1>5, <2>1, SameLeft DEF Queued
  <2>3. Left(t)' = None BY <2>1, LeftNone
  <2> QED BY <1>7, <2>2, <2>3
<1> QED BY <1>8, <1>9

LEMMA AddSets ==
  ASSUME Core, ListInv, NEW t \in Timer, AddTimer(t)
  PROVE  Ringing!Next
<1>1. TypeOK /\ PlaceInv BY DEF Core
<1>2. /\ adding[t] = "listed" /\ adding' = [adding EXCEPT ![t] = "added"]
      /\ internal_add_timer(t)
      /\ UNCHANGED <<timer_jiffies, running, pc, cur, freed, expires, fgRemove>>
  BY DEF AddTimer
<1>3. adding'[t] = "added" /\ t \notin freed /\ \A u \in Timer : u # t => adding'[u] = adding[u]
  BY <1>1, <1>2 DEF TypeOK, ListInv
<1>4. t \notin Elements(queued) /\ t # cur BY <1>1, <1>2, NotQueued
<1>5. \A u \in Timer : u # t => (Queued(u)' <=> Queued(u))
  <2>1. CASE running
    <3>1. queued' = Append(queued, t) BY <1>2, <2>1 DEF internal_add_timer
    <3>2. Elements(queued') = Elements(queued) \cup {t}
      BY <1>1, <1>4, <3>1, TypeFacts, AppendFacts DEF PlaceInv
    <3> QED BY <3>2, QueuedFacts
  <2>2. CASE ~running
    <3>1. queued' = queued BY <1>2, <2>2 DEF internal_add_timer
    <3> QED BY <3>1 DEF Queued
  <2> QED BY <2>1, <2>2
<1>6. \A u \in Timer : u # t => Left(u)' = Left(u) BY <1>2, <1>3, <1>5, SameLeft
<1>7. Left(t) = None BY <1>2, LeftNone
<1>8. PICK n \in 0 .. Sign : n = Left(t)'
  <2>1. Left(t)' \in 0 .. Sign BY <1>1, <1>2, <1>3, <1>4, LeftBounds
  <2> QED BY <2>1
<1>9. [u \in Timer |-> Left(u)]' = [[u \in Timer |-> Left(u)] EXCEPT ![t] = n]
  BY <1>6, <1>8
<1>10. Phase' = Phase BY <1>2 DEF Phase
<1>11. Ringing!Set(t) BY <1>2, <1>4, <1>7, <1>9, <1>10 DEF Ringing!Set
<1> QED BY <1>11 DEF Ringing!Next

LEMMA DeleteCancels ==
  ASSUME Core, NEW t \in Timer, PFU_timerDelete(t)
  PROVE  Ringing!Next
<1>1. TypeOK BY DEF Core
<1>2. /\ fgRemove' = [fgRemove EXCEPT ![t] = TRUE]
      /\ UNCHANGED <<timer_jiffies, queued, pc, cur, expires, adding, freed>>
  BY DEF PFU_timerDelete, wheel
<1>3. \A u \in Timer : Left(u)' = Left(u) BY <1>2, SameLeft DEF Queued
<1>4. {u \in Timer : fgRemove[u]}' = {u \in Timer : fgRemove[u]} \cup {t}
  BY <1>1, <1>2 DEF TypeOK
<1>5. Phase' = Phase BY <1>2 DEF Phase
<1>6. Ringing!Cancel(t) BY <1>2, <1>3, <1>4, <1>5 DEF Ringing!Cancel
<1> QED BY <1>6 DEF Ringing!Next

LEMMA InitRings == ASSUME Init PROVE Ringing!Init
<1>1. \A t \in Timer : Left(t) = None BY LeftNone DEF Init
<1>2. Phase = "idle" BY PhaseFacts DEF Init
<1>3. {t \in Timer : fgRemove[t]} = {} BY DEF Init
<1> QED BY <1>1, <1>2, <1>3 DEF Init, Ringing!Init

LEMMA NextRings == ASSUME IInv, [Next]_vars PROVE [Ringing!Next]_Ringing!vars
<1>1. Core /\ ListInv BY DEF IInv
<1>2. CASE UNCHANGED vars
  <2>1. UNCHANGED <<timer_jiffies, queued, pc, cur, expires, adding, freed, fgRemove>>
    BY <1>2 DEF vars, wheel, timers
  <2>2. \A t \in Timer : Left(t)' = Left(t) BY <2>1, SameLeft DEF Queued
  <2>3. Phase' = Phase BY <2>1 DEF Phase
  <2> QED BY <2>1, <2>2, <2>3, RingStutters
<1>3. CASE Next
  <2>1. CASE DetachTimer BY <1>1, <2>1, DetachRings
  <2>2. CASE SlotDone BY <2>2, SlotDoneTicks
  <2>3. CASE Call \/ CallbackReturns BY <1>1, <2>3, CallRings
  <2>4. CASE Readd \/ ReuseDone BY <1>1, <2>4, ReuseFinishes
  <2>5. CASE \E t \in Timer : AddTimer(t) BY <1>1, <2>5, AddSets
  <2>6. CASE \E t \in Timer : PFU_timerDelete(t) BY <1>1, <2>6, DeleteCancels
  <2>7. CASE \/ Tick \/ Cascade \/ TurnDone \/ WokenUp \/ ReuseRepeat \/ PFU_timerExit
             \/ \E t \in Timer : Alloc(t) \/ ListTimer(t) \/ PFU_timerSetMsec(t)
    BY <1>1, <2>7, StepStutters
  <2> QED
    BY <1>3, <2>1, <2>2, <2>3, <2>4, <2>5, <2>6, <2>7 DEF Next, Thread, Caller
<1> QED BY <1>2, <1>3

------------------------------------------------------------------------------
(* The theorems                                                              *)

LEMMA CoreListKeeps == ASSUME Core, ListInv, Next PROVE Core' /\ ListInv'
<1>2. CASE Tick
  <2>1. UNCHANGED <<adding, freed, fgRemove, list>> BY <1>2 DEF Tick, timers
  <2> QED BY <1>2, <2>1, TickKeeps, OthersRing
<1>3. CASE Cascade
  <2>1. UNCHANGED <<adding, freed, fgRemove, list>> BY <1>3 DEF Cascade, timers
  <2> QED BY <1>3, <2>1, CascadeKeeps, OthersRing
<1>4. CASE DetachTimer
  <2>1. UNCHANGED <<adding, freed, fgRemove, list>> BY <1>4 DEF DetachTimer, timers
  <2> QED BY <1>4, <2>1, DetachKeeps, OthersRing
<1>5. CASE SlotDone
  <2>1. UNCHANGED <<adding, freed, fgRemove, list>> BY <1>5 DEF SlotDone, timers
  <2> QED BY <1>5, <2>1, SlotDoneKeeps, OthersRing
<1>6. CASE TurnDone \/ WokenUp \/ Call \/ CallbackReturns
  <2>1. UNCHANGED <<adding, freed, fgRemove, list>>
    BY <1>6 DEF TurnDone, WokenUp, Call, CallbackReturns, timers
  <2> QED BY <1>6, <2>1, ThreadKeeps, OthersRing
<1>7. CASE ReuseRepeat
  <2>1. UNCHANGED <<adding, freed, fgRemove, list>> BY <1>7 DEF ReuseRepeat
  <2> QED BY <1>7, <2>1, ReuseRepeatKeeps, OthersRing
<1>8. CASE Readd
  <2>1. UNCHANGED <<adding, freed, fgRemove, list>> BY <1>8 DEF Readd, timers
  <2> QED BY <1>8, <2>1, ReaddKeeps, OthersRing
<1>9. CASE ReuseDone BY <1>9, ReuseDoneKeeps, ReuseDoneRing
<1>10. ASSUME NEW t \in Timer, Alloc(t) PROVE Core' /\ ListInv'
  BY <1>10, AllocKeeps, AddingRing
<1>11. ASSUME NEW t \in Timer, ListTimer(t) PROVE Core' /\ ListInv'
  BY <1>11, CallerKeeps, ListTimerRing
<1>12. ASSUME NEW t \in Timer, AddTimer(t) PROVE Core' /\ ListInv'
  <2>1. ListInv' /\ t \notin freed BY <1>12, AddingRing
  <2> QED BY <1>12, <2>1, AddTimerKeeps
<1>13. ASSUME NEW t \in Timer, PFU_timerDelete(t) PROVE Core' /\ ListInv'
  BY <1>13, CallerKeeps, DeleteRing
<1>14. ASSUME NEW t \in Timer, PFU_timerSetMsec(t) PROVE Core' /\ ListInv'
  <2>1. UNCHANGED <<adding, freed, fgRemove, list>> BY <1>14 DEF PFU_timerSetMsec
  <2> QED BY <1>14, <2>1, CallerKeeps, OthersRing
<1>15. CASE PFU_timerExit
  <2>1. UNCHANGED <<adding, freed, fgRemove, list>> BY <1>15 DEF PFU_timerExit, timers
  <2>2. ListInv' BY <2>1, OthersRing
  <2>3. Core' BY <1>15, CallerKeeps
  <2> QED BY <2>2, <2>3
<1> QED
  BY <1>2, <1>3, <1>4, <1>5, <1>6, <1>7, <1>8, <1>9, <1>10, <1>11, <1>12, <1>13, <1>14,
     <1>15 DEF Next, Thread, Caller

LEMMA NextKeeps == ASSUME IInv, Next PROVE IInv'
BY CoreListKeeps, DueKeeps DEF IInv

LEMMA StutterKeeps == ASSUME IInv, UNCHANGED vars PROVE IInv'
<1>1. UNCHANGED <<jiffies, timer_jiffies, index, vec, running, queued, pc, cur, repeat, fgRun,
                  adding, freed, expires, msec, fgRemove, list>>
  BY DEF vars, wheel, timers
<1>2. TypeOK' /\ Alive' = Alive BY <1>1 DEF IInv, Core, TypeOK, Alive
<1>3. TimeInv' BY <1>1 DEF IInv, Core, TimeInv
<1>4. PlaceInv' BY <1>1, <1>2, PlaceKept DEF IInv, Core
<1>5. WheelInv' BY <1>1, TypeFacts, WheelKept DEF IInv, Core
<1>6. ListInv' BY <1>1, OthersRing DEF IInv
<1>7. DueInv' BY <1>1, DueKept DEF IInv
<1> QED BY <1>2, <1>3, <1>4, <1>5, <1>6, <1>7 DEF IInv, Core

\* The inductive invariant of the timers, for every number of timers, every
\* size of the levels and every set of periods: types, the time, the places of
\* the timers, their slots, the list, and how far ahead their expiries are.
THEOREM Inductive == Spec => []IInv
<1>1. Init => IInv BY InitCore, InitList, InitDue DEF IInv
<1>2. IInv /\ [Next]_vars => IInv' BY NextKeeps, StutterKeeps
<1> QED BY <1>1, <1>2, PTL DEF Spec

\* The variables of utilTimer.c keep their types; the slots that run_timer_list
\* and cascade_timers look up exist.
THEOREM TypesHold == Spec => []TypeOK
<1>1. IInv => TypeOK BY DEF IInv, Core
<1> QED BY <1>1, Inductive, PTL

\* cascade_timers, run_timer_list and internal_add_timer neither lose a timer
\* nor link it twice, whatever is added while a callback runs.
THEOREM OnePlaceInvariant == Spec => []OnePlace
<1>1. ASSUME IInv PROVE OnePlace
  <2>1. TypeOK /\ PlaceInv BY <1>1 DEF IInv, Core
  <2>2. SUFFICES ASSUME NEW t \in Timer
                 PROVE  IF adding[t] = "added" /\ t \notin freed
                        THEN \E p \in Places(t) : Places(t) = {p}
                        ELSE Places(t) = {}
    BY DEF OnePlace
  <2> DEFINE A == {s \in Slots : \E i \in DOMAIN vec[s] : vec[s][i] = t}
             B == IF Queued(t) THEN {<<"queued">>} ELSE {}
             C == IF cur = t THEN {<<"cur">>} ELSE {}
  <2>3. Places(t) = A \cup B \cup C BY DEF Places
  <2>4. Queued(t) <=> t \in Elements(queued) BY DEF Queued, Elements
  <2>5. t \in In(vec) <=> A # {} BY DEF In
  <2>6. \A s1, s2 \in A : s1 = s2 BY <2>1 DEF PlaceInv, Unique
  <2>7. t \in Alive <=> adding[t] = "added" /\ t \notin freed BY DEF Alive
  <2>8. t \in Alive <=> t \in In(vec) \/ t \in Elements(queued) \/ t = cur
    BY <2>1 DEF PlaceInv
  <2>9. /\ ~(t \in In(vec) /\ t \in Elements(queued))
        /\ t = cur => t \notin In(vec) /\ t \notin Elements(queued)
    BY <2>1 DEF PlaceInv
  <2> HIDE DEF A
  <2>10. CASE t \in In(vec)
    <3>1. PICK s \in A : TRUE BY <2>5, <2>10
    <3>2. A = {s} BY <2>6, <3>1
    <3>3. B = {} /\ C = {} BY <2>4, <2>9, <2>10
    <3> QED BY <2>3, <2>7, <2>8, <2>10, <3>2, <3>3
  <2>11. CASE t \in Elements(queued)
    <3>1. A = {} /\ B = {<<"queued">>} /\ C = {} BY <2>4, <2>5, <2>9, <2>11
    <3> QED BY <2>3, <2>7, <2>8, <2>11, <3>1
  <2>12. CASE t = cur
    <3>1. A = {} /\ B = {} /\ C = {<<"cur">>} BY <2>4, <2>5, <2>9, <2>12
    <3> QED BY <2>3, <2>7, <2>8, <2>12, <3>1
  <2>13. CASE t \notin In(vec) /\ t \notin Elements(queued) /\ t # cur
    <3>1. A = {} /\ B = {} /\ C = {} BY <2>4, <2>5, <2>13
    <3> QED BY <2>3, <2>7, <2>8, <2>13, <3>1
  <2> QED BY <2>10, <2>11, <2>12, <2>13
<1> QED BY <1>1, Inductive, PTL

\* timerListsRoot and the entries are one ring under every interleaving of
\* PFU_timerAdd, PFU_timerDelete and reuse_timer, so that list_for_each comes
\* to its end and finds the timers that live, and those deleted too late.
THEOREM ListedAliveInvariant == Spec => []ListedAlive
<1>1. ASSUME IInv PROVE ListedAlive
  <2>1. TypeOK /\ ListInv BY <1>1 DEF IInv, Core
  <2>2. Listed = Ring BY <2>1, ListFound
  <2>3. Linked(list, Ring \cup {Root}) BY <2>1 DEF ListInv, OneRing
  <2> QED BY <2>2, <2>3 DEF ListedAlive, Ring
<1> QED BY <1>1, Inductive, PTL

\* timer_process leaves no tick behind before it waits, and runs none early,
\* also where jiffies and timer_jiffies wrap around.
THEOREM CaughtUpInvariant == Spec => []CaughtUp
<1>1. IInv => CaughtUp BY DEF IInv, Core, TimeInv, CaughtUp
<1> QED BY <1>1, Inductive, PTL

\* run_timer_list and cascade_timers implement Alarms: a timer rings in the tick
\* it was set for, not sooner and not later, whatever is added, deleted or set
\* anew while it waits, how often it cascades and where the words wrap around.
THEOREM Implements == Spec => RingsOnTime
<1>1. Init => Ringing!Init BY InitRings
<1>2. IInv /\ [Next]_vars => [Ringing!Next]_Ringing!vars BY NextRings
<1> QED BY <1>1, <1>2, Inductive, PTL DEF Spec, RingsOnTime, Ringing!Spec
=============================================================================
