------------------------- MODULE ChainRepair_proofs -------------------------
(***************************************************************************)
(* Proofs about the suffixes of conflict losers (OldSuffix) and about the  *)
(* repair of nested losers (ChainRepair).                                  *)
(***************************************************************************)
EXTENDS ChainRepair, SequenceTheorems, FiniteSetTheorems, WellFoundedInduction, TLAPS

----------------------------------------------------------------------------
(* Induction.  A set of naturals that is not empty has a least element;    *)
(* induction over a set stands for induction over a predicate.             *)

LEMMA Least ==
    ASSUME NEW T, T \subseteq Nat, T # {}
    PROVE  \E x \in T : \A y \in T : x <= y
<1>. DEFINE R == OpToRel(<, Nat)
<1>1. IsWellFoundedOn(R, Nat)
  BY NatLessThanWellFounded
<1>2. \A x, y \in Nat : <<x, y>> \in R <=> x < y
  BY DEF OpToRel
<1>. HIDE DEF R
<1>3. PICK x \in T : \A y \in T : ~(<<y, x>> \in R)
  BY <1>1, WFMin
<1>4. ASSUME NEW y \in T PROVE x <= y
  <2>1. ~(y < x)
    BY <1>2, <1>3
  <2>. QED BY <2>1
<1>. QED BY <1>4

LEMMA Greatest ==
    ASSUME NEW T, NEW n \in Nat, T \subseteq 0..n, T # {}
    PROVE  \E x \in T : \A y \in T : y <= x
<1>. DEFINE U == {k \in Nat : \A y \in T : y <= k}
<1>1. n \in U
  OBVIOUS
<1>2. PICK k \in U : \A j \in U : k <= j
  <2>1. U \subseteq Nat /\ U # {}
    BY <1>1
  <2>. HIDE DEF U
  <2>. QED BY <2>1, Least
<1>3. k \in T
  <2>1. SUFFICES ASSUME k \notin T PROVE FALSE
    OBVIOUS
  <2>2. \A y \in T : y <= k - 1
    BY <1>2, <2>1
  <2>3. k - 1 \in Nat
    <3>1. PICK y \in T : TRUE
      OBVIOUS
    <3>2. y \in Nat /\ y <= k - 1
      BY <2>2, <3>1
    <3>. QED BY <1>2, <3>2
  <2>4. k - 1 \in U
    BY <2>2, <2>3
  <2>. QED BY <1>2, <2>4
<1>. QED BY <1>2, <1>3

LEMMA Induction ==
    ASSUME NEW S, \A n \in Nat : (\A k \in 0..(n - 1) : k \in S) => n \in S
    PROVE  \A n \in Nat : n \in S
<1>. DEFINE T == {n \in Nat : n \notin S}
<1>1. SUFFICES ASSUME T # {} PROVE FALSE
  OBVIOUS
<1>2. PICK x \in T : \A y \in T : x <= y
  <2>1. T \subseteq Nat
    OBVIOUS
  <2>. HIDE DEF T
  <2>. QED BY <1>1, <2>1, Least
<1>3. \A k \in 0..(x - 1) : k \in S
  BY <1>2
<1>. QED BY <1>2, <1>3

LEMMA StepInduction ==
    ASSUME NEW S, 0 \in S, \A n \in Nat : n \in S => n + 1 \in S
    PROVE  \A n \in Nat : n \in S
<1>1. ASSUME NEW n \in Nat, \A k \in 0..(n - 1) : k \in S PROVE n \in S
  <2>1. CASE n = 0
    BY <2>1
  <2>2. CASE n # 0
    <3>1. n - 1 \in Nat /\ n - 1 \in 0..(n - 1) /\ (n - 1) + 1 = n
      BY <2>2
    <3>. QED BY <1>1, <3>1
  <2>. QED BY <2>1, <2>2
<1>. QED BY <1>1, Induction

\* A function defined by primitive recursion up to N exists: step gives its
\* value at n from the one at n - 1.
Unfolds(f, X, c, N, step) ==
    f \in [0..N -> X] /\ f[0] = c /\ \A n \in 1..N : f[n] = step[<<n, f[n - 1]>>]

LEMMA Recursion ==
    ASSUME NEW X, NEW c \in X, NEW N \in Nat, NEW step \in [Nat \X X -> X]
    PROVE  \E f : Unfolds(f, X, c, N, step)
<1>. DEFINE Good(n, f) == f[0] = c /\ \A k \in 1..n : f[k] = step[<<k, f[k - 1]>>]
            S == {n \in Nat : \E f \in [0..n -> X] : Good(n, f)}
<1>1. 0 \in S
  <2>1. [k \in 0..0 |-> c] \in [0..0 -> X] /\ Good(0, [k \in 0..0 |-> c])
    OBVIOUS
  <2>. QED BY <2>1
<1>2. ASSUME NEW n \in Nat, n \in S PROVE n + 1 \in S
  <2>1. PICK f \in [0..n -> X] : Good(n, f)
    BY <1>2
  <2>. DEFINE g == [k \in 0..(n + 1) |-> IF k <= n THEN f[k] ELSE step[<<n + 1, f[n]>>]]
  <2>2. f[n] \in X /\ step[<<n + 1, f[n]>>] \in X
    OBVIOUS
  <2>3. g \in [0..(n + 1) -> X]
    BY <2>2
  <2>4. g[0] = c
    BY <2>1
  <2>5. ASSUME NEW k \in 1..(n + 1) PROVE g[k] = step[<<k, g[k - 1]>>]
    <3>1. g[k - 1] = f[k - 1]
      OBVIOUS
    <3>2. CASE k <= n
      BY <2>1, <3>1, <3>2
    <3>3. CASE k = n + 1
      <4>1. g[n + 1] = step[<<n + 1, f[n]>>] /\ k - 1 = n
        BY <3>3
      <4>. QED BY <3>1, <3>3, <4>1
    <3>. QED BY <3>2, <3>3
  <2>6. Good(n + 1, g)
    BY <2>4, <2>5
  <2>. HIDE DEF g
  <2>. QED BY <2>3, <2>6
<1>3. N \in S
  <2>. HIDE DEF S
  <2>. QED BY <1>1, <1>2, StepInduction
<1>. QED BY <1>3 DEF Unfolds

----------------------------------------------------------------------------
(* The numbers in the suffixes.                                            *)

LEMMA Tenth ==
    \A n \in Nat : /\ n \div 10 \in Nat /\ n % 10 \in 0..9
                   /\ n = 10 * (n \div 10) + (n % 10)
                   /\ n >= 10 => (n \div 10 < n /\ n \div 10 >= 1)
  OBVIOUS

\* One step of strconv.Itoa, with f for what it makes of smaller numbers.
Itoa(f, n) == IF n < 10 THEN <<n>> ELSE Append(f[n \div 10], n % 10)
ItoaTo(n) == {f \in [0..n -> Seq(Int)] : \A k \in 0..n : f[k] = Itoa(f, k)}

LEMMA ItoaExists == \A n \in Nat : ItoaTo(n) # {}
<1>. DEFINE S == {n \in Nat : ItoaTo(n) # {}}
<1>1. 0 \in S
  <2>. DEFINE f == [k \in 0..0 |-> <<0>>]
  <2>1. <<0>> \in Seq(Int)
    OBVIOUS
  <2>2. f \in [0..0 -> Seq(Int)]
    BY <2>1
  <2>3. \A k \in 0..0 : k = 0 /\ f[k] = <<0>>
    OBVIOUS
  <2>. HIDE DEF f
  <2>4. \A k \in 0..0 : f[k] = Itoa(f, k)
    BY <2>3 DEF Itoa
  <2>. QED BY <2>2, <2>4 DEF ItoaTo
<1>2. ASSUME NEW n \in Nat, n \in S PROVE n + 1 \in S
  <2>1. PICK f \in [0..n -> Seq(Int)] : \A k \in 0..n : f[k] = Itoa(f, k)
    BY <1>2 DEF ItoaTo
  <2>. DEFINE g == [k \in 0..(n + 1) |-> IF k <= n THEN f[k] ELSE Itoa(f, n + 1)]
  <2>2. Itoa(f, n + 1) \in Seq(Int)
    <3>1. CASE n + 1 < 10
      BY <3>1 DEF Itoa
    <3>2. CASE ~(n + 1 < 10)
      <4>1. (n + 1) \div 10 \in 0..n /\ (n + 1) % 10 \in Int
        BY <3>2, Tenth
      <4>2. f[(n + 1) \div 10] \in Seq(Int)
        BY <4>1
      <4>3. Append(f[(n + 1) \div 10], (n + 1) % 10) \in Seq(Int)
        BY <4>1, <4>2, AppendProperties
      <4>. QED BY <3>2, <4>3 DEF Itoa
    <3>. QED BY <3>1, <3>2
  <2>3. g \in [0..(n + 1) -> Seq(Int)]
    BY <2>2
  <2>4. /\ \A k \in 0..n : g[k] = f[k]
        /\ g[n + 1] = Itoa(f, n + 1)
    OBVIOUS
  <2>. HIDE DEF g
  <2>5. ASSUME NEW k \in 0..(n + 1) PROVE Itoa(g, k) = Itoa(f, k)
    <3>1. k >= 10 => k \div 10 \in 0..n
      BY Tenth
    <3>. QED BY <2>4, <3>1 DEF Itoa
  <2>6. ASSUME NEW k \in 0..(n + 1) PROVE g[k] = Itoa(g, k)
    <3>1. k \in 0..n \/ k = n + 1
      OBVIOUS
    <3>. QED BY <2>1, <2>4, <2>5, <3>1
  <2>7. g \in ItoaTo(n + 1)
    BY <2>3, <2>6 DEF ItoaTo
  <2>. QED BY <2>7
<1>. HIDE DEF S
<1>3. \A n \in Nat : n \in S
  BY <1>1, <1>2, StepInduction
<1>. QED BY <1>3 DEF S

LEMMA ItoaUnique ==
    ASSUME NEW m \in Nat, NEW n \in Nat, NEW f \in ItoaTo(m), NEW g \in ItoaTo(n)
    PROVE  \A k \in Nat : k <= m /\ k <= n => f[k] = g[k]
<1>. DEFINE S == {k \in Nat : k <= m /\ k <= n => f[k] = g[k]}
<1>1. ASSUME NEW k \in Nat, \A j \in 0..(k - 1) : j \in S PROVE k \in S
  <2>1. SUFFICES ASSUME k <= m, k <= n PROVE f[k] = g[k]
    OBVIOUS
  <2>2. f[k] = Itoa(f, k) /\ g[k] = Itoa(g, k)
    BY <2>1 DEF ItoaTo
  <2>3. k >= 10 => f[k \div 10] = g[k \div 10]
    <3>1. k >= 10 => (k \div 10 \in 0..(k - 1) /\ k \div 10 <= m /\ k \div 10 <= n)
      BY <2>1, Tenth
    <3>. QED BY <1>1, <3>1
  <2>. QED BY <2>2, <2>3 DEF Itoa
<1>. HIDE DEF S
<1>2. \A k \in Nat : k \in S
  BY <1>1, Induction
<1>. QED BY <1>2 DEF S

\* The definition of Digits is sound: it is what its own equation says.
LEMMA DigitsRec == \A n \in Nat : Digits[n] = Itoa(Digits, n) /\ Digits[n] \in Seq(Int)
<1>. DEFINE D(n) == CHOOSE f : f \in ItoaTo(n)
            F == [n \in Nat |-> D(n)[n]]
<1>1. ASSUME NEW n \in Nat PROVE D(n) \in ItoaTo(n)
  BY ItoaExists
<1>2. ASSUME NEW n \in Nat PROVE D(n)[n] = Itoa(D(n), n) /\ D(n)[n] \in Seq(Int)
  BY <1>1 DEF ItoaTo
<1>3. ASSUME NEW n \in Nat, n >= 10 PROVE D(n)[n \div 10] = D(n \div 10)[n \div 10]
  <2>1. n \div 10 \in Nat /\ n \div 10 <= n
    BY <1>3, Tenth
  <2>2. D(n) \in ItoaTo(n) /\ D(n \div 10) \in ItoaTo(n \div 10)
    BY <1>1, <2>1
  <2>. HIDE DEF D
  <2>. QED BY <2>1, <2>2, ItoaUnique
<1>. HIDE DEF D
<1>4. ASSUME NEW n \in Nat PROVE F[n] = Itoa(F, n)
  <2>1. F[n] = D(n)[n] /\ (n >= 10 => F[n \div 10] = D(n \div 10)[n \div 10])
    BY Tenth
  <2>. HIDE DEF F
  <2>. QED BY <1>2, <1>3, <2>1 DEF Itoa
<1>5. F = [n \in Nat |-> Itoa(F, n)]
  BY <1>4
<1>6. \E f : f = [n \in Nat |-> Itoa(f, n)]
  BY <1>5
<1>7. Digits = [n \in Nat |-> Itoa(Digits, n)]
  BY <1>6 DEF Digits, Itoa
<1>8. \A n \in Nat : Digits[n] = Itoa(Digits, n)
  BY <1>7
<1>. DEFINE S == {n \in Nat : Digits[n] \in Seq(Int)}
<1>9. ASSUME NEW n \in Nat, \A k \in 0..(n - 1) : k \in S PROVE n \in S
  <2>1. CASE n < 10
    <3>1. <<n>> \in Seq(Int)
      OBVIOUS
    <3>2. Digits[n] = <<n>>
      BY <1>8, <2>1 DEF Itoa
    <3>. QED BY <3>1, <3>2
  <2>2. CASE ~(n < 10)
    <3>1. n \div 10 \in 0..(n - 1) /\ n % 10 \in Int
      BY <2>2, Tenth
    <3>2. Digits[n \div 10] \in Seq(Int)
      BY <1>9, <3>1
    <3>3. Append(Digits[n \div 10], n % 10) \in Seq(Int)
      BY <3>1, <3>2, AppendProperties
    <3>. QED BY <1>8, <2>2, <3>3 DEF Itoa
  <2>. QED BY <2>1, <2>2
<1>. HIDE DEF S
<1>10. \A n \in Nat : n \in S
  BY <1>9, Induction
<1>. QED BY <1>8, <1>10 DEF S

\* Itoa writes a numeral that TrimOne accepts: digits, the first one not 0.
LEMMA DigitsNumeral ==
    \A n \in Nat \ {0} : /\ Digits[n] \in Seq(Int) /\ Len(Digits[n]) >= 1
                         /\ \A i \in 1..Len(Digits[n]) : IsDigit(Digits[n][i])
                         /\ Digits[n][1] # 0
<1>. DEFINE Good(n) == /\ Len(Digits[n]) >= 1
                       /\ \A i \in 1..Len(Digits[n]) : IsDigit(Digits[n][i])
                       /\ Digits[n][1] # 0
            S == {n \in Nat : n = 0 \/ Good(n)}
<1>1. ASSUME NEW n \in Nat, \A k \in 0..(n - 1) : k \in S PROVE n \in S
  <2>1. SUFFICES ASSUME n # 0 PROVE Good(n)
    OBVIOUS
  <2>2. CASE n < 10
    <3>1. Digits[n] = <<n>>
      BY <2>2, DigitsRec DEF Itoa
    <3>2. Len(<<n>>) = 1 /\ <<n>>[1] = n
      OBVIOUS
    <3>. QED BY <2>1, <2>2, <3>1, <3>2 DEF IsDigit
  <2>3. CASE ~(n < 10)
    <3>. DEFINE h == Digits[n \div 10]
    <3>1. n \div 10 \in 1..(n - 1) /\ n % 10 \in 0..9
      BY <2>3, Tenth
    <3>2. Good(n \div 10) /\ h \in Seq(Int)
      BY <1>1, <3>1, DigitsRec
    <3>3. Digits[n] = Append(h, n % 10)
      BY <2>3, DigitsRec DEF Itoa
    <3>4. /\ Len(Digits[n]) = Len(h) + 1
          /\ \A i \in 1..Len(h) : Digits[n][i] = h[i]
          /\ Digits[n][Len(h) + 1] = n % 10
      BY <3>1, <3>2, <3>3, AppendProperties
    <3>5. Len(h) \in Nat
      BY <3>2
    <3>. HIDE DEF h
    <3>6. /\ Len(h) >= 1 /\ h[1] # 0
          /\ \A i \in 1..Len(h) : IsDigit(h[i])
      BY <3>2 DEF h
    <3>7. ASSUME NEW i \in 1..Len(Digits[n]) PROVE IsDigit(Digits[n][i])
      <4>1. i \in 1..Len(h) \/ i = Len(h) + 1
        BY <3>4, <3>5
      <4>. QED BY <3>1, <3>4, <3>6, <4>1 DEF IsDigit
    <3>8. 1 \in 1..Len(h)
      BY <3>5, <3>6
    <3>. QED BY <3>4, <3>5, <3>6, <3>7, <3>8
  <2>. QED BY <2>2, <2>3
<1>. HIDE DEF S
<1>2. \A n \in Nat : n \in S
  BY <1>1, Induction
<1>. QED BY <1>2, DigitsRec DEF S

LEMMA DigitsInjective ==
    ASSUME NEW m \in Nat \ {0}, NEW n \in Nat \ {0}, Digits[m] = Digits[n]
    PROVE  m = n
<1>. DEFINE S == {k \in Nat : \A j \in Nat : (j # 0 /\ k # 0 /\ Digits[j] = Digits[k]) => j = k}
<1>1. ASSUME NEW k \in Nat, \A i \in 0..(k - 1) : i \in S PROVE k \in S
  <2>1. SUFFICES ASSUME NEW j \in Nat, j # 0, k # 0, Digits[j] = Digits[k] PROVE j = k
    OBVIOUS
  <2>. DEFINE Long(i) == /\ Digits[i \div 10] \in Seq(Int) /\ Len(Digits[i \div 10]) >= 1
                         /\ i % 10 \in Int /\ i \div 10 \in Nat \ {0}
                         /\ Digits[i] = Append(Digits[i \div 10], i % 10)
                         /\ Len(Digits[i]) = Len(Digits[i \div 10]) + 1
  <2>2. ASSUME NEW i \in Nat, ~(i < 10) PROVE Long(i)
    <3>1. i \div 10 \in Nat \ {0} /\ i % 10 \in Int
      BY <2>2, Tenth
    <3>2. Digits[i] = Append(Digits[i \div 10], i % 10)
      BY <2>2, DigitsRec DEF Itoa
    <3>3. Digits[i \div 10] \in Seq(Int) /\ Len(Digits[i \div 10]) >= 1
      BY <3>1, DigitsNumeral
    <3>. QED BY <3>1, <3>2, <3>3, AppendProperties
  <2>3. ASSUME NEW i \in Nat, i < 10 PROVE Digits[i] = <<i>> /\ Len(Digits[i]) = 1 /\ Digits[i][1] = i
    <3>1. Digits[i] = <<i>>
      BY <2>3, DigitsRec DEF Itoa
    <3>2. Len(<<i>>) = 1 /\ <<i>>[1] = i
      OBVIOUS
    <3>. QED BY <3>1, <3>2
  <2>4. CASE j < 10 /\ k < 10
    BY <2>1, <2>3, <2>4
  <2>5. CASE j < 10 /\ ~(k < 10)
    <3>1. Long(k) /\ Len(Digits[j]) = 1
      BY <2>2, <2>3, <2>5
    <3>. QED BY <2>1, <3>1
  <2>6. CASE ~(j < 10) /\ k < 10
    <3>1. Long(j) /\ Len(Digits[k]) = 1
      BY <2>2, <2>3, <2>6
    <3>. QED BY <2>1, <3>1
  <2>7. CASE ~(j < 10) /\ ~(k < 10)
    <3>1. Long(j) /\ Long(k)
      BY <2>2, <2>7
    <3>2. Digits[j \div 10] = Digits[k \div 10] /\ j % 10 = k % 10
      <4>. DEFINE a == Digits[j \div 10]
                  b == Digits[k \div 10]
                  x == j % 10
                  y == k % 10
      <4>1. /\ a \in Seq(Int) /\ b \in Seq(Int) /\ x \in Int /\ y \in Int
            /\ Append(a, x) = Append(b, y)
        BY <2>1, <3>1
      <4>. HIDE DEF a, b, x, y
      <4>2. a = b /\ x = y
        BY <4>1, AppendInjective
      <4>. QED BY <4>2 DEF a, b, x, y
    <3>3. k \div 10 \in 0..(k - 1)
      BY <2>7, Tenth
    <3>4. j \div 10 = k \div 10
      BY <1>1, <3>1, <3>2, <3>3
    <3>5. j = 10 * (j \div 10) + (j % 10) /\ k = 10 * (k \div 10) + (k % 10)
      BY Tenth
    <3>. QED BY <3>2, <3>4, <3>5
  <2>. QED BY <2>4, <2>5, <2>6, <2>7
<1>. HIDE DEF S
<1>2. \A k \in Nat : k \in S
  BY <1>1, Induction
<1>. QED BY <1>2 DEF S

----------------------------------------------------------------------------
(* Names with a suffix, place by place.                                    *)

LEMMA SubSeqPlaces ==
    ASSUME NEW s \in Seq(Int), NEW i \in Nat \ {0}, NEW j \in Nat, i <= j + 1, j <= Len(s)
    PROVE  /\ SubSeq(s, i, j) \in Seq(Int)
           /\ Len(SubSeq(s, i, j)) = j - i + 1
           /\ \A k \in 1..(j - i + 1) : SubSeq(s, i, j)[k] = s[i + k - 1]
<1>1. \A k \in i..j : s[k] \in Int
  <2>1. \A k \in i..j : k \in 1..Len(s)
    OBVIOUS
  <2>. QED BY <2>1, ElementOfSeq
<1>2. /\ SubSeq(s, i, j) \in Seq(Int)
      /\ Len(SubSeq(s, i, j)) = IF i <= j THEN j - i + 1 ELSE 0
      /\ \A k \in 1..(j - i + 1) : SubSeq(s, i, j)[k] = s[i + k - 1]
  BY <1>1, SubSeqProperties
<1>. QED BY <1>2

LEMMA ReversePlaces ==
    ASSUME NEW s \in Seq(Int)
    PROVE  /\ Reverse(s) \in Seq(Int) /\ Len(Reverse(s)) = Len(s)
           /\ \A i \in 1..Len(s) : Reverse(s)[i] = s[(Len(s) - i) + 1]
<1>1. Len(s) \in Nat
  OBVIOUS
<1>2. \A i \in 1..Len(s) : s[(Len(s) - i) + 1] \in Int
  <2>1. \A i \in 1..Len(s) : (Len(s) - i) + 1 \in 1..Len(s)
    BY <1>1
  <2>. QED BY <2>1, ElementOfSeq
<1>3. Reverse(s) \in [1..Len(s) -> Int]
  BY <1>2 DEF Reverse
<1>4. Reverse(s) \in Seq(Int)
  BY <1>1, <1>3, SeqDef
<1>5. DOMAIN Reverse(s) = 1..Len(s) /\ DOMAIN Reverse(s) = 1..Len(Reverse(s))
  BY <1>3, <1>4, LenProperties
<1>6. Len(Reverse(s)) = Len(s)
  BY <1>1, <1>4, <1>5, LenProperties
<1>. QED BY <1>4, <1>6 DEF Reverse

LEMMA SuffixPlaces ==
    ASSUME NEW s \in Seq(Int), NEW t \in Seq(Int), Len(s) <= Len(t),
           \A i \in 1..Len(s) : s[i] = t[(Len(t) - Len(s)) + i]
    PROVE  IsSuffix(s, t)
<1>. DEFINE u == SubSeq(Reverse(s), 1, Len(s))
            v == SubSeq(Reverse(t), 1, Len(s))
<1>1. Len(s) \in Nat /\ Len(t) \in Nat
  OBVIOUS
<1>2. /\ u \in Seq(Int) /\ Len(u) = Len(s)
      /\ \A k \in 1..Len(s) : u[k] = s[(Len(s) - k) + 1]
  <2>1. /\ u \in Seq(Int) /\ Len(u) = Len(s)
        /\ \A k \in 1..Len(s) : u[k] = Reverse(s)[k]
    <3>1. /\ u \in Seq(Int) /\ Len(u) = Len(s) - 1 + 1
          /\ \A k \in 1..(Len(s) - 1 + 1) : u[k] = Reverse(s)[1 + k - 1]
      BY <1>1, ReversePlaces, SubSeqPlaces
    <3>. QED BY <1>1, <3>1
  <2>. QED BY <2>1, ReversePlaces
<1>3. /\ v \in Seq(Int) /\ Len(v) = Len(s)
      /\ \A k \in 1..Len(s) : v[k] = t[(Len(t) - k) + 1]
  <2>1. /\ v \in Seq(Int) /\ Len(v) = Len(s)
        /\ \A k \in 1..Len(s) : v[k] = Reverse(t)[k]
    <3>1. /\ v \in Seq(Int) /\ Len(v) = Len(s) - 1 + 1
          /\ \A k \in 1..(Len(s) - 1 + 1) : v[k] = Reverse(t)[1 + k - 1]
      BY <1>1, ReversePlaces, SubSeqPlaces
    <3>. QED BY <1>1, <3>1
  <2>2. \A k \in 1..Len(s) : k \in 1..Len(t)
    BY <1>1
  <2>. QED BY <2>1, <2>2, ReversePlaces
<1>4. ASSUME NEW k \in 1..Len(s) PROVE s[(Len(s) - k) + 1] = t[(Len(t) - k) + 1]
  <2>1. (Len(s) - k) + 1 \in 1..Len(s) /\ (Len(t) - Len(s)) + ((Len(s) - k) + 1) = (Len(t) - k) + 1
    BY <1>1
  <2>. QED BY <2>1
<1>. HIDE DEF u, v
<1>5. u = v
  BY <1>2, <1>3, <1>4, SeqEqual
<1>. QED BY <1>5, <1>1, ReversePlaces DEF IsSuffix, IsPrefix, u, v

LEMMA FormatPlaces ==
    ASSUME NEW m, IsMatcher(m), NEW b \in Seq(Int), NEW n \in Nat \ {0}
    PROVE  LET name == Format(m, b, n)
               B == Len(b)   P == Len(m.pre)   D == Len(Digits[n])   Q == Len(m.post)
           IN /\ B \in Nat /\ P \in Nat \ {0} /\ D \in Nat \ {0} /\ Q \in Nat
              /\ name \in Seq(Int) /\ Len(name) = B + P + D + Q
              /\ \A i \in 1..B : name[i] = b[i]
              /\ \A i \in 1..P : name[B + i] = m.pre[i]
              /\ \A i \in 1..D : name[B + P + i] = Digits[n][i]
              /\ \A i \in 1..Q : name[B + P + D + i] = m.post[i]
<1>. DEFINE pre == m.pre
            post == m.post
            ds == Digits[n]
            B == Len(b)
            P == Len(pre)
            D == Len(ds)
            Q == Len(post)
            x == b \o pre
            y == x \o ds
            z == y \o post
<1>1. /\ pre \in Seq(Int) /\ post \in Seq(Int) /\ ds \in Seq(Int) /\ D >= 1
      /\ \E i \in DOMAIN pre : ~IsDigit(pre[i])
  BY DigitsNumeral DEF IsMatcher
<1>2. Format(m, b, n) = z
  BY DEF Format
<1>3. B \in Nat /\ P \in Nat \ {0} /\ D \in Nat \ {0} /\ Q \in Nat
  <2>1. B \in Nat /\ P \in Nat /\ D \in Nat /\ Q \in Nat /\ DOMAIN pre = 1..P
    BY <1>1, LenProperties
  <2>. HIDE DEF B, P, D, Q
  <2>. QED BY <1>1, <2>1
<1>. HIDE DEF pre, post, ds
<1>4. /\ x \in Seq(Int) /\ Len(x) = B + P
      /\ \A i \in 1..(B + P) : x[i] = IF i <= B THEN b[i] ELSE pre[i - B]
  BY <1>1, ConcatProperties
<1>. HIDE DEF x
<1>5. /\ y \in Seq(Int) /\ Len(y) = B + P + D
      /\ \A i \in 1..(B + P + D) : y[i] = IF i <= B + P THEN x[i] ELSE ds[i - (B + P)]
  <2>1. /\ y \in Seq(Int) /\ Len(y) = Len(x) + D
        /\ \A i \in 1..(Len(x) + D) : y[i] = IF i <= Len(x) THEN x[i] ELSE ds[i - Len(x)]
    BY <1>1, <1>4, ConcatProperties
  <2>. QED BY <1>4, <2>1
<1>. HIDE DEF y
<1>6. /\ z \in Seq(Int) /\ Len(z) = B + P + D + Q
      /\ \A i \in 1..(B + P + D + Q) : z[i] = IF i <= B + P + D THEN y[i] ELSE post[i - (B + P + D)]
  <2>1. /\ z \in Seq(Int) /\ Len(z) = Len(y) + Q
        /\ \A i \in 1..(Len(y) + Q) : z[i] = IF i <= Len(y) THEN y[i] ELSE post[i - Len(y)]
    <3>1. y \in Seq(Int) /\ post \in Seq(Int)
      BY <1>1, <1>5
    <3>. QED BY <3>1, ConcatProperties
  <2>. QED BY <1>5, <2>1
<1>. HIDE DEF z, B, P, D, Q
<1>7. ASSUME NEW i \in 1..B PROVE z[i] = b[i]
  <2>1. i \in 1..(B + P) /\ i <= B
    BY <1>3
  <2>2. x[i] = b[i]
    BY <1>4, <2>1
  <2>. QED BY <1>3, <1>5, <1>6, <2>1, <2>2
<1>8. ASSUME NEW i \in 1..P PROVE z[B + i] = pre[i]
  <2>1. B + i \in 1..(B + P) /\ ~(B + i <= B) /\ (B + i) - B = i
    BY <1>3
  <2>2. x[B + i] = pre[i]
    BY <1>4, <2>1
  <2>. QED BY <1>3, <1>5, <1>6, <2>1, <2>2
<1>9. ASSUME NEW i \in 1..D PROVE z[B + P + i] = ds[i]
  <2>1. /\ B + P + i \in 1..(B + P + D) /\ ~(B + P + i <= B + P)
        /\ (B + P + i) - (B + P) = i
    BY <1>3
  <2>2. y[B + P + i] = ds[i]
    BY <1>5, <2>1
  <2>. QED BY <1>3, <1>6, <2>1, <2>2
<1>10. ASSUME NEW i \in 1..Q PROVE z[B + P + D + i] = post[i]
  <2>1. /\ B + P + D + i \in 1..(B + P + D + Q) /\ ~(B + P + D + i <= B + P + D)
        /\ (B + P + D + i) - (B + P + D) = i
    BY <1>3
  <2>. QED BY <1>6, <2>1
<1>. QED BY <1>2, <1>3, <1>6, <1>7, <1>8, <1>9, <1>10 DEF pre, post, ds, B, P, D, Q

\* The last place where the literal occurs is the one where Format put it:
\* wherever it began later, its last character that is no digit would be
\* beside a digit of its own or of the number.
LEMMA LastOccurrence ==
    ASSUME NEW m, IsMatcher(m), NEW B \in Nat, NEW D \in Nat, NEW rest \in Seq(Int),
           Len(rest) = B + Len(m.pre) + D,
           \A i \in 1..Len(m.pre) : rest[B + i] = m.pre[i],
           \A i \in 1..D : IsDigit(rest[B + Len(m.pre) + i])
    PROVE  Occurs(m.pre, rest) # {} /\ Max(Occurs(m.pre, rest)) = B + 1
<1>. DEFINE pre == m.pre
            P == Len(pre)
            at == Occurs(pre, rest)
<1>1. pre \in Seq(Int) /\ P \in Nat /\ DOMAIN pre = 1..P /\ \E i \in 1..P : ~IsDigit(pre[i])
  BY LenProperties DEF IsMatcher
<1>2. at = {i \in 1..(B + D + 1) : SubSeq(rest, i, i + P - 1) = pre}
  <2>1. P \in Nat /\ Len(rest) = B + P + D
    BY <1>1
  <2>2. Len(rest) + 1 - P = B + D + 1
    <3>. HIDE DEF P
    <3>. QED BY <2>1
  <2>. QED BY <2>2 DEF Occurs
<1>3. /\ Len(rest) = B + P + D
      /\ \A i \in 1..P : rest[B + i] = pre[i]
      /\ \A i \in 1..D : IsDigit(rest[B + P + i])
  OBVIOUS
<1>. HIDE DEF at, pre, P
<1>4. ASSUME NEW i \in 1..(B + D + 1)
      PROVE  /\ SubSeq(rest, i, i + P - 1) \in Seq(Int)
             /\ Len(SubSeq(rest, i, i + P - 1)) = P
             /\ \A k \in 1..P : SubSeq(rest, i, i + P - 1)[k] = rest[i + k - 1]
  <2>1. i \in Nat \ {0} /\ i + P - 1 \in Nat /\ i <= (i + P - 1) + 1 /\ i + P - 1 <= Len(rest)
        /\ (i + P - 1) - i + 1 = P
    BY <1>1, <1>3
  <2>. DEFINE j == i + P - 1
  <2>. HIDE DEF j
  <2>2. i \in Nat \ {0} /\ j \in Nat /\ i <= j + 1 /\ j <= Len(rest) /\ j - i + 1 = P
    BY <2>1 DEF j
  <2>3. /\ SubSeq(rest, i, j) \in Seq(Int) /\ Len(SubSeq(rest, i, j)) = j - i + 1
        /\ \A k \in 1..(j - i + 1) : SubSeq(rest, i, j)[k] = rest[i + k - 1]
    BY <2>2, SubSeqPlaces
  <2>. QED BY <2>2, <2>3 DEF j
<1>5. B + 1 \in at
  <2>1. B + 1 \in 1..(B + D + 1)
    OBVIOUS
  <2>2. \A k \in 1..P : rest[(B + 1) + k - 1] = pre[k]
    <3>1. \A k \in 1..P : (B + 1) + k - 1 = B + k
      BY <1>1
    <3>. QED BY <1>3, <3>1
  <2>3. SubSeq(rest, B + 1, (B + 1) + P - 1) = pre
    BY <1>1, <1>4, <2>1, <2>2, SeqEqual
  <2>. QED BY <1>2, <2>1, <2>3
<1>6. PICK q \in 1..P : ~IsDigit(pre[q]) /\ \A i \in 1..P : ~IsDigit(pre[i]) => i <= q
  <2>. DEFINE T == {i \in 1..P : ~IsDigit(pre[i])}
  <2>1. T \subseteq 0..P /\ T # {}
    BY <1>1
  <2>2. PICK q \in T : \A i \in T : i <= q
    <3>. HIDE DEF T
    <3>. QED BY <1>1, <2>1, Greatest
  <2>. QED BY <2>2
<1>7. ASSUME NEW i \in at PROVE i <= B + 1
  <2>1. i \in 1..(B + D + 1) /\ SubSeq(rest, i, i + P - 1) = pre
    BY <1>2
  <2>2. rest[i + q - 1] = pre[q]
    BY <1>4, <1>6, <2>1
  <2>3. SUFFICES ASSUME i > B + 1 PROVE FALSE
    BY <2>1
  <2>4. CASE i + q - 1 <= B + P
    <3>1. i + q - 1 - B \in 1..P /\ B + (i + q - 1 - B) = i + q - 1 /\ i + q - 1 - B > q
      BY <1>1, <1>6, <2>1, <2>3, <2>4
    <3>2. rest[i + q - 1] = pre[i + q - 1 - B] /\ IsDigit(pre[i + q - 1 - B])
      BY <1>3, <1>6, <3>1
    <3>. QED BY <1>6, <2>2, <3>2
  <2>5. CASE ~(i + q - 1 <= B + P)
    <3>1. i + q - 1 - (B + P) \in 1..D /\ B + P + (i + q - 1 - (B + P)) = i + q - 1
      <4>1. P \in Nat /\ q \in 1..P /\ i \in 1..(B + D + 1)
        BY <1>1, <2>1
      <4>. QED BY <4>1, <2>5
    <3>2. IsDigit(rest[i + q - 1])
      BY <1>3, <3>1
    <3>. QED BY <1>6, <2>2, <3>2
  <2>. QED BY <2>4, <2>5
<1>8. at \subseteq Int
  BY <1>2
<1>9. Max(at) \in at /\ \A y \in at : Max(at) >= y
  <2>1. \E x \in at : \A y \in at : x >= y
    BY <1>5, <1>7, <1>8
  <2>. QED BY <2>1 DEF Max
<1>10. Max(at) = B + 1
  <2>1. Max(at) \in Int /\ Max(at) <= B + 1 /\ Max(at) >= B + 1
    BY <1>5, <1>7, <1>8, <1>9
  <2>. QED BY <2>1
<1>. QED BY <1>5, <1>10 DEF at, pre

\* TrimOne undoes Format.
LEMMA TrimFormat ==
    ASSUME NEW m, IsMatcher(m), NEW b \in Seq(Int), b # <<>>, NEW n \in Nat \ {0}
    PROVE  TrimOne(m, Format(m, b, n)).ok /\ TrimOne(m, Format(m, b, n)).base = b
<1>. DEFINE name == Format(m, b, n)
            pre == m.pre
            post == m.post
            ds == Digits[n]
            B == Len(b)
            P == Len(pre)
            D == Len(ds)
            Q == Len(post)
            rest == SubSeq(name, 1, Len(name) - Q)
            at == Occurs(pre, rest)
<1>1. /\ B \in Nat /\ P \in Nat \ {0} /\ D \in Nat \ {0} /\ Q \in Nat
      /\ name \in Seq(Int) /\ Len(name) = B + P + D + Q
      /\ \A i \in 1..B : name[i] = b[i]
      /\ \A i \in 1..P : name[B + i] = pre[i]
      /\ \A i \in 1..D : name[B + P + i] = ds[i]
      /\ \A i \in 1..Q : name[B + P + D + i] = post[i]
  BY FormatPlaces
<1>0. B \in Nat /\ P \in Nat \ {0} /\ D \in Nat \ {0} /\ Q \in Nat
  BY <1>1
<1>2. post \in Seq(Int) /\ ds \in Seq(Int) /\ ds[1] # 0 /\ \A i \in 1..D : IsDigit(ds[i])
  BY DigitsNumeral DEF IsMatcher
<1>3. B > 0
  BY <1>1, EmptySeq
<1>4. /\ TrimOne(m, name) =
           IF ~IsSuffix(post, name) THEN Bad
           ELSE IF at = {} THEN Bad
           ELSE IF Numeral(SubSeq(rest, Max(at) + P, Len(rest))) /\ Max(at) > 1
                THEN [ok |-> TRUE, base |-> SubSeq(rest, 1, Max(at) - 1),
                      n |-> Number(SubSeq(rest, Max(at) + P, Len(rest)))]
                ELSE Bad
  BY DEF TrimOne
<1>. HIDE DEF name, ds, B, D, Q
<1>5. IsSuffix(post, name)
  <2>1. Q = Len(post) /\ Q <= Len(name)
    <3>1. Len(name) = B + P + D + Q
      BY <1>1
    <3>2. P \in Nat /\ D \in Nat
      BY <1>0
    <3>. HIDE DEF P
    <3>3. Q <= Len(name)
      BY <1>0, <3>1, <3>2
    <3>. QED BY <3>3 DEF Q
  <2>2. ASSUME NEW i \in 1..Q PROVE post[i] = name[(Len(name) - Q) + i]
    <3>1. (Len(name) - Q) + i = B + P + D + i
      BY <1>1
    <3>. QED BY <1>1, <3>1
  <2>. QED BY <1>1, <1>2, <2>1, <2>2, SuffixPlaces
<1>6. /\ rest \in Seq(Int) /\ Len(rest) = B + P + D
      /\ \A i \in 1..(B + P + D) : rest[i] = name[i]
  <2>. DEFINE j == Len(name) - Q
  <2>1. j = B + P + D /\ j \in Nat /\ 1 <= j + 1 /\ j <= Len(name)
    BY <1>1
  <2>. HIDE DEF j
  <2>2. /\ SubSeq(name, 1, j) \in Seq(Int) /\ Len(SubSeq(name, 1, j)) = j - 1 + 1
        /\ \A k \in 1..(j - 1 + 1) : SubSeq(name, 1, j)[k] = name[1 + k - 1]
    <3>1. name \in Seq(Int) /\ 1 \in Nat \ {0}
      BY <1>1
    <3>. QED BY <2>1, <3>1, SubSeqPlaces
  <2>3. j - 1 + 1 = j /\ \A k \in 1..j : 1 + k - 1 = k
    BY <2>1
  <2>4. rest = SubSeq(name, 1, j)
    BY DEF j
  <2>. HIDE DEF rest
  <2>. QED BY <2>1, <2>2, <2>3, <2>4
<1>. HIDE DEF rest
<1>7. at # {} /\ Max(at) = B + 1
  <2>1. ASSUME NEW i \in 1..P PROVE rest[B + i] = pre[i]
    <3>1. B + i \in 1..(B + P + D)
      BY <1>0
    <3>. QED BY <1>1, <1>6, <3>1
  <2>2. ASSUME NEW i \in 1..D PROVE IsDigit(rest[B + P + i])
    <3>1. B + P + i \in 1..(B + P + D)
      BY <1>0
    <3>2. rest[B + P + i] = ds[i]
      BY <1>1, <1>6, <3>1
    <3>. QED BY <1>2, <3>2
  <2>. QED BY <1>0, <1>6, <2>1, <2>2, LastOccurrence
<1>. HIDE DEF at, pre, P
<1>8. SubSeq(rest, B + 1 + P, B + P + D) = ds
  <2>. DEFINE i == B + 1 + P
              j == B + P + D
  <2>1. i \in Nat \ {0} /\ j \in Nat /\ i <= j + 1 /\ j <= Len(rest) /\ j - i + 1 = D
    BY <1>1, <1>6
  <2>2. \A k \in 1..D : i + k - 1 = B + P + k /\ B + P + k \in 1..(B + P + D)
    BY <1>1
  <2>. HIDE DEF i, j
  <2>3. /\ SubSeq(rest, i, j) \in Seq(Int) /\ Len(SubSeq(rest, i, j)) = j - i + 1
        /\ \A k \in 1..(j - i + 1) : SubSeq(rest, i, j)[k] = rest[i + k - 1]
    BY <1>6, <2>1, SubSeqPlaces
  <2>4. ASSUME NEW k \in 1..D PROVE SubSeq(rest, i, j)[k] = ds[k]
    <3>1. SubSeq(rest, i, j)[k] = rest[B + P + k]
      BY <2>1, <2>2, <2>3
    <3>. QED BY <1>1, <1>6, <2>2, <3>1
  <2>5. D = Len(ds) /\ Len(SubSeq(rest, i, j)) = D
    BY <2>1, <2>3 DEF D
  <2>6. SubSeq(rest, i, j) = ds
    BY <1>2, <2>3, <2>4, <2>5, SeqEqual
  <2>. QED BY <2>6 DEF i, j
<1>9. SubSeq(rest, 1, B) = b
  <2>1. B <= Len(rest) /\ 1 <= B + 1 /\ B - 1 + 1 = B /\ \A k \in 1..B : 1 + k - 1 = k /\ k \in 1..(B + P + D)
    <3>1. Len(rest) = B + P + D
      BY <1>6
    <3>. QED BY <1>0, <3>1
  <2>2. /\ SubSeq(rest, 1, B) \in Seq(Int) /\ Len(SubSeq(rest, 1, B)) = B - 1 + 1
        /\ \A k \in 1..(B - 1 + 1) : SubSeq(rest, 1, B)[k] = rest[1 + k - 1]
    BY <1>1, <1>6, <2>1, SubSeqPlaces
  <2>3. \A k \in 1..B : SubSeq(rest, 1, B)[k] = b[k]
    BY <1>1, <1>6, <2>1, <2>2
  <2>4. B = Len(b) /\ Len(SubSeq(rest, 1, B)) = B
    BY <2>1, <2>2 DEF B
  <2>. QED BY <2>2, <2>3, <2>4, SeqEqual
<1>10. Numeral(ds)
  <2>1. ds # <<>> /\ DOMAIN ds = 1..D
    BY <1>1, <1>2, EmptySeq, LenProperties DEF D
  <2>. QED BY <1>2, <2>1 DEF Numeral
<1>11. TrimOne(m, name) = [ok |-> TRUE, base |-> SubSeq(rest, 1, Max(at) - 1),
                           n |-> Number(SubSeq(rest, Max(at) + P, Len(rest)))]
  <2>1. Max(at) + P = B + 1 + P /\ Max(at) > 1 /\ Len(rest) = B + P + D
    BY <1>1, <1>3, <1>6, <1>7
  <2>2. Numeral(SubSeq(rest, Max(at) + P, Len(rest)))
    BY <1>8, <1>10, <2>1
  <2>. QED BY <1>4, <1>5, <1>7, <2>1, <2>2
<1>12. Max(at) - 1 = B
  BY <1>1, <1>7
<1>. QED BY <1>9, <1>11, <1>12 DEF name

LEMMA FormatInjective ==
    ASSUME NEW m, IsMatcher(m), NEW b \in Seq(Int)
    PROVE  \A n, k \in Nat \ {0} : Format(m, b, n) = Format(m, b, k) => n = k
<1>. DEFINE B == Len(b)
            P == Len(m.pre)
            Q == Len(m.post)
            D(j) == Len(Digits[j])
<1>1. ASSUME NEW j \in Nat \ {0}
      PROVE  /\ B \in Nat /\ P \in Nat /\ D(j) \in Nat /\ Q \in Nat
             /\ Len(Format(m, b, j)) = B + P + D(j) + Q
             /\ \A i \in 1..D(j) : Format(m, b, j)[B + P + i] = Digits[j][i]
  <2>1. /\ B \in Nat /\ P \in Nat \ {0} /\ D(j) \in Nat \ {0} /\ Q \in Nat
        /\ Format(m, b, j) \in Seq(Int) /\ Len(Format(m, b, j)) = B + P + D(j) + Q
        /\ \A i \in 1..B : Format(m, b, j)[i] = b[i]
        /\ \A i \in 1..P : Format(m, b, j)[B + i] = m.pre[i]
        /\ \A i \in 1..D(j) : Format(m, b, j)[B + P + i] = Digits[j][i]
        /\ \A i \in 1..Q : Format(m, b, j)[B + P + D(j) + i] = m.post[i]
    BY FormatPlaces
  <2>. HIDE DEF B, P, Q, D
  <2>. QED BY <2>1
<1>2. SUFFICES ASSUME NEW n \in Nat \ {0}, NEW k \in Nat \ {0}, Format(m, b, n) = Format(m, b, k)
               PROVE  n = k
  OBVIOUS
<1>3. Digits[n] \in Seq(Int) /\ Digits[k] \in Seq(Int)
  BY DigitsNumeral
<1>4. D(n) = D(k)
  <2>. HIDE DEF B, P, Q, D
  <2>. QED BY <1>1, <1>2
<1>5. \A i \in 1..D(n) : Digits[n][i] = Digits[k][i]
  <2>. HIDE DEF B, P, Q, D
  <2>. QED BY <1>1, <1>2, <1>4
<1>6. Digits[n] = Digits[k]
  BY <1>3, <1>4, <1>5, SeqEqual
<1>. QED BY <1>6, DigitsInjective

LEMMA FormatLonger ==
    ASSUME NEW m, IsMatcher(m), NEW b \in Seq(Int), NEW n \in Nat \ {0}
    PROVE  Format(m, b, n) \in Seq(Int) /\ Format(m, b, n) # <<>> /\ Format(m, b, n) # b
<1>1. /\ Len(b) \in Nat /\ Format(m, b, n) \in Seq(Int)
      /\ Len(Format(m, b, n)) > Len(b)
  <2>. DEFINE B == Len(b)
              P == Len(m.pre)
              D == Len(Digits[n])
              Q == Len(m.post)
              L == Len(Format(m, b, n))
  <2>1. /\ B \in Nat /\ P \in Nat \ {0} /\ D \in Nat \ {0} /\ Q \in Nat
        /\ Format(m, b, n) \in Seq(Int) /\ L = B + P + D + Q
    BY FormatPlaces
  <2>2. L > B
    <3>. HIDE DEF B, P, D, Q, L
    <3>. QED BY <2>1
  <2>. QED BY <2>1, <2>2
<1>. QED BY <1>1, EmptySeq

\* The number that NextOldN finds is one that it may try.
LEMMA FirstFreeRange ==
    ASSUME NEW m, NEW b, NEW names
    PROVE  LET n == FirstFree(m, b, names)
           IN /\ n \in 1..MaxProbe
              /\ n = MaxProbe \/ Format(m, b, n) \notin names
              /\ \A k \in 1..(n - 1) : Format(m, b, k) \in names
<1>. DEFINE T == {n \in 1..MaxProbe : n = MaxProbe \/ Format(m, b, n) \notin names}
<1>1. T \subseteq Nat /\ T # {}
  BY SuffixAssumption
<1>2. PICK n \in T : \A k \in T : n <= k
  <2>. HIDE DEF T
  <2>. QED BY <1>1, Least
<1>3. \A k \in 1..(n - 1) : Format(m, b, k) \in names
  <2>1. \A k \in 1..(n - 1) : k \in 1..MaxProbe /\ ~(n <= k)
    BY <1>2, SuffixAssumption
  <2>. QED BY <1>2, <2>1
<1>4. \E j \in 1..MaxProbe : /\ j = MaxProbe \/ Format(m, b, j) \notin names
                             /\ \A k \in 1..(j - 1) : Format(m, b, k) \in names
  BY <1>2, <1>3
<1>. QED BY <1>4 DEF FirstFree

\* It is free, when there are not too many names and the base is one of them.
LEMMA FirstFreeFree ==
    ASSUME NEW m, IsMatcher(m), NEW b \in Seq(Int), NEW names,
           IsFiniteSet(names), Cardinality(names) <= MaxProbe, b \in names
    PROVE  Format(m, b, FirstFree(m, b, names)) \notin names
<1>. DEFINE n == FirstFree(m, b, names)
            rest == names \ {b}
            f == [k \in 1..MaxProbe |-> Format(m, b, k)]
<1>1. SUFFICES ASSUME Format(m, b, n) \in names PROVE FALSE
  OBVIOUS
<1>2. \A k \in 1..MaxProbe : Format(m, b, k) \in names
  <2>1. /\ n \in 1..MaxProbe
        /\ n = MaxProbe \/ Format(m, b, n) \notin names
        /\ \A k \in 1..(n - 1) : Format(m, b, k) \in names
    BY FirstFreeRange
  <2>2. n = MaxProbe
    BY <1>1, <2>1
  <2>. HIDE DEF n
  <2>3. \A k \in 1..MaxProbe : k = MaxProbe \/ k \in 1..(MaxProbe - 1)
    BY SuffixAssumption
  <2>. QED BY <1>1, <2>1, <2>2, <2>3
<1>3. ASSUME NEW k \in 1..MaxProbe PROVE k \in Nat \ {0} /\ Format(m, b, k) \in rest
  <2>1. k \in Nat \ {0}
    BY SuffixAssumption
  <2>2. Format(m, b, k) # b
    BY <2>1, FormatLonger
  <2>. QED BY <1>2, <2>1, <2>2
<1>4. f \in [1..MaxProbe -> rest]
  BY <1>3
<1>5. IsFiniteSet(rest) /\ Cardinality(rest) = Cardinality(names) - 1 /\ Cardinality(names) \in Nat
  BY FS_RemoveElement, FS_CardinalityType
<1>6. IsFiniteSet(1..MaxProbe) /\ Cardinality(1..MaxProbe) = MaxProbe
  <2>1. 1 \in Int /\ MaxProbe \in Int /\ ~(1 > MaxProbe) /\ MaxProbe - 1 + 1 = MaxProbe
    BY SuffixAssumption
  <2>. QED BY <2>1, FS_Interval
<1>7. Cardinality(rest) < Cardinality(1..MaxProbe)
  BY <1>5, <1>6, SuffixAssumption
<1>. HIDE DEF rest
<1>8. PICK i, j \in 1..MaxProbe : i # j /\ f[i] = f[j]
  <2>. HIDE DEF f
  <2>. QED BY <1>4, <1>5, <1>6, <1>7, FS_PigeonHole
<1>9. Format(m, b, i) = Format(m, b, j) /\ i \in Nat \ {0} /\ j \in Nat \ {0}
  BY <1>3, <1>8
<1>. QED BY <1>8, <1>9, FormatInjective

----------------------------------------------------------------------------
(* Names with several suffixes: what NameOf puts on, Base takes off.       *)

\* The names on the way from the stem to the name of a link.
IsChain(m, g, f) ==
    /\ f \in [0..Len(g.chain) -> Seq(Int) \ {<<>>}]
    /\ f[0] = g.stem
    /\ \A i \in 1..Len(g.chain) : f[i] = Format(m, f[i - 1], g.chain[i])

LEMMA LinkType ==
    ASSUME NEW m, NEW g, IsLink(m, g)
    PROVE  /\ Len(g.chain) \in Nat /\ Len(g.chain) <= MaxDepth
           /\ \A i \in 1..Len(g.chain) : g.chain[i] \in Nat \ {0}
           /\ g.stem \in Seq(Int) \ {<<>>} /\ ~TrimOne(m, g.stem).ok
<1>1. g.chain \in Seq(Nat \ {0})
  BY DEF IsLink
<1>2. \A i \in 1..Len(g.chain) : g.chain[i] \in Nat \ {0}
  BY <1>1, ElementOfSeq
<1>. QED BY <1>1, <1>2 DEF IsLink

LEMMA NameChain ==
    ASSUME NEW m, IsMatcher(m), NEW g, IsLink(m, g)
    PROVE  \E f : IsChain(m, g, f) /\ NameOf(m, g) = f[Len(g.chain)]
<1>. DEFINE N == Len(g.chain)
            X == Seq(Int) \ {<<>>}
            step == [z \in Nat \X X |-> IF z[1] \in 1..N THEN Format(m, z[2], g.chain[z[1]]) ELSE z[2]]
            Eq(f) == f = [i \in 0..N |-> IF i = 0 THEN g.stem ELSE Format(m, f[i - 1], g.chain[i])]
            F == CHOOSE f : Eq(f)
<1>1. /\ N \in Nat /\ g.stem \in X /\ \A i \in 1..N : g.chain[i] \in Nat \ {0}
  BY LinkType
<1>2. \A b \in X, i \in 1..N : Format(m, b, g.chain[i]) \in X
  BY <1>1, FormatLonger
<1>. HIDE DEF X, N
<1>3. step \in [Nat \X X -> X]
  BY <1>2
<1>4. \A i \in 1..N, b \in X : step[<<i, b>>] = Format(m, b, g.chain[i])
  <2>1. \A i \in 1..N : i \in Nat
    BY <1>1
  <2>. QED BY <2>1
<1>. HIDE DEF step
<1>5. PICK h \in [0..N -> X] : h[0] = g.stem /\ \A i \in 1..N : h[i] = step[<<i, h[i - 1]>>]
  <2>. DEFINE c == g.stem
  <2>1. N \in Nat /\ c \in X
    BY <1>1
  <2>. HIDE DEF c
  <2>2. PICK h : Unfolds(h, X, c, N, step)
    BY <1>3, <2>1, Recursion
  <2>. QED BY <2>2 DEF Unfolds, c
<1>6. ASSUME NEW i \in 1..N PROVE h[i] = Format(m, h[i - 1], g.chain[i])
  <2>1. i - 1 \in 0..N
    BY <1>1
  <2>2. h[i - 1] \in X
    BY <2>1
  <2>. QED BY <1>4, <1>5, <2>2
<1>7. \A i \in 0..N : i = 0 \/ i \in 1..N
  BY <1>1
<1>8. h = [i \in 0..N |-> IF i = 0 THEN g.stem ELSE Format(m, h[i - 1], g.chain[i])]
  BY <1>5, <1>6, <1>7
<1>9. Eq(F)
  <2>1. \E f : Eq(f)
    BY <1>8
  <2>. HIDE DEF Eq
  <2>. QED BY <2>1
<1>10. NameOf(m, g) = F[N]
  BY DEF NameOf, N
<1>. HIDE DEF F
<1>11. /\ 0 \in 0..N /\ F[0] = g.stem
       /\ \A i \in 1..N : F[i] = Format(m, F[i - 1], g.chain[i])
       /\ DOMAIN F = 0..N
  <2>1. \A i \in 1..N : i \in 0..N /\ i # 0
    BY <1>1
  <2>2. 0 \in 0..N
    BY <1>1
  <2>. QED BY <1>9, <2>1, <2>2
<1>. DEFINE S == {i \in Nat : i <= N => F[i] \in X}
<1>12. 0 \in S
  BY <1>1, <1>11
<1>13. ASSUME NEW i \in Nat, i \in S PROVE i + 1 \in S
  <2>1. SUFFICES ASSUME i + 1 <= N PROVE F[i + 1] \in X
    OBVIOUS
  <2>2. i + 1 \in 1..N /\ (i + 1) - 1 = i /\ i <= N
    BY <1>1, <2>1
  <2>3. F[i] \in X
    BY <1>13, <2>2
  <2>. QED BY <1>2, <1>11, <2>2, <2>3
<1>. HIDE DEF S
<1>14. \A i \in Nat : i \in S
  BY <1>12, <1>13, StepInduction
<1>15. \A i \in 0..N : F[i] \in X
  <2>1. \A i \in 0..N : i \in Nat /\ i <= N
    BY <1>1
  <2>. QED BY <1>14, <2>1 DEF S
<1>16. F \in [0..N -> X]
  BY <1>9, <1>11, <1>15
<1>17. IsChain(m, g, F)
  BY <1>11, <1>16 DEF IsChain, N, X
<1>. QED BY <1>10, <1>17 DEF N

\* Base takes all suffixes off, and counts them.
LEMMA BaseOfName ==
    ASSUME NEW m, IsMatcher(m), NEW g, IsLink(m, g)
    PROVE  /\ BaseOf(m, NameOf(m, g)).base = g.stem
           /\ BaseOf(m, NameOf(m, g)).depth = Len(g.chain)
<1>. DEFINE N == Len(g.chain)
            name == NameOf(m, g)
            Eq(s) == s = [d \in 0..MaxDepth |->
                            IF d = 0 THEN [base |-> name, depth |-> 0] ELSE Stripped(m, s[d - 1])]
            F == CHOOSE s : Eq(s)
<1>1. PICK f : IsChain(m, g, f) /\ name = f[N]
  BY NameChain
<1>. DEFINE h == [d \in 0..MaxDepth |-> IF d <= N THEN [base |-> f[N - d], depth |-> d]
                                       ELSE [base |-> g.stem, depth |-> N]]
<1>2. /\ N \in Nat /\ N <= MaxDepth /\ MaxDepth \in Nat \ {0}
      /\ \A i \in 1..N : g.chain[i] \in Nat \ {0}
      /\ ~TrimOne(m, g.stem).ok
  BY LinkType, SuffixAssumption
<1>3. /\ \A i \in 0..N : f[i] \in Seq(Int) \ {<<>>}
      /\ f[0] = g.stem
      /\ \A i \in 1..N : f[i] = Format(m, f[i - 1], g.chain[i])
  BY <1>1 DEF IsChain
<1>. HIDE DEF N, name
<1>4. ASSUME NEW i \in 1..N PROVE TrimOne(m, f[i]).ok /\ TrimOne(m, f[i]).base = f[i - 1]
  <2>1. i - 1 \in 0..N
    BY <1>2
  <2>2. f[i - 1] \in Seq(Int) /\ f[i - 1] # <<>> /\ g.chain[i] \in Nat \ {0}
    BY <1>2, <1>3, <2>1
  <2>3. f[i] = Format(m, f[i - 1], g.chain[i])
    BY <1>3
  <2>. QED BY <2>2, <2>3, TrimFormat
<1>5. ASSUME NEW d \in 1..MaxDepth PROVE h[d] = Stripped(m, h[d - 1])
  <2>0. d \in 0..MaxDepth /\ d - 1 \in 0..MaxDepth
    BY <1>2
  <2>1. CASE d <= N
    <3>1. N - (d - 1) \in 1..N /\ (N - (d - 1)) - 1 = N - d /\ d - 1 <= N /\ (d - 1) + 1 = d
      BY <1>2, <2>1
    <3>2. /\ TrimOne(m, f[N - (d - 1)]).ok
          /\ TrimOne(m, f[N - (d - 1)]).base = f[N - d]
      BY <1>4, <3>1
    <3>3. h[d] = [base |-> f[N - d], depth |-> d] /\ h[d - 1] = [base |-> f[N - (d - 1)], depth |-> d - 1]
      BY <2>0, <2>1, <3>1
    <3>. HIDE DEF h
    <3>. QED BY <3>1, <3>2, <3>3 DEF Stripped
  <2>2. CASE d = N + 1
    <3>1. d - 1 = N /\ N - N = 0 /\ ~(d <= N) /\ N <= N
      BY <1>2, <2>2
    <3>2. h[d] = [base |-> g.stem, depth |-> N] /\ h[d - 1] = [base |-> f[0], depth |-> N]
      BY <2>0, <3>1
    <3>. HIDE DEF h
    <3>. QED BY <1>2, <1>3, <3>2 DEF Stripped
  <2>3. CASE d > N + 1
    <3>1. ~(d - 1 <= N) /\ ~(d <= N)
      BY <1>2, <2>3
    <3>2. h[d] = [base |-> g.stem, depth |-> N] /\ h[d - 1] = [base |-> g.stem, depth |-> N]
      BY <2>0, <3>1
    <3>. HIDE DEF h
    <3>. QED BY <1>2, <3>2 DEF Stripped
  <2>. QED BY <1>2, <2>1, <2>2, <2>3
<1>6. 0 \in 0..MaxDepth /\ h[0] = [base |-> name, depth |-> 0]
  <2>1. 0 \in 0..MaxDepth /\ 0 <= N /\ N - 0 = N
    BY <1>2
  <2>. QED BY <1>1, <2>1 DEF N
<1>7. Eq(F)
  <2>1. \A d \in 0..MaxDepth : d = 0 \/ d \in 1..MaxDepth
    BY <1>2
  <2>2. DOMAIN h = 0..MaxDepth /\ h = [d \in 0..MaxDepth |-> h[d]]
    OBVIOUS
  <2>. HIDE DEF h
  <2>3. Eq(h)
    BY <1>5, <1>6, <2>1, <2>2
  <2>4. \E s : Eq(s)
    BY <2>3
  <2>. HIDE DEF Eq
  <2>. QED BY <2>4
<1>8. BaseOf(m, name) = F[MaxDepth]
  BY DEF BaseOf
<1>. HIDE DEF F
<1>. DEFINE S == {d \in Nat : d <= MaxDepth => F[d] = h[d]}
<1>9. 0 \in S
  BY <1>6, <1>7
<1>10. ASSUME NEW d \in Nat, d \in S PROVE d + 1 \in S
  <2>1. SUFFICES ASSUME d + 1 <= MaxDepth PROVE F[d + 1] = h[d + 1]
    BY DEF S
  <2>2. d + 1 \in 1..MaxDepth /\ d + 1 \in 0..MaxDepth /\ d + 1 # 0 /\ (d + 1) - 1 = d /\ d <= MaxDepth
    BY <1>2, <2>1
  <2>3. F[d] = h[d]
    BY <1>10, <2>2
  <2>4. F[d + 1] = Stripped(m, F[d])
    BY <1>7, <2>2
  <2>5. h[d + 1] = Stripped(m, h[d])
    <3>. HIDE DEF h
    <3>. QED BY <1>5, <2>2
  <2>. HIDE DEF h
  <2>. QED BY <2>3, <2>4, <2>5
<1>. HIDE DEF S
<1>11. \A d \in Nat : d \in S
  BY <1>9, <1>10, StepInduction
<1>12. F[MaxDepth] = h[MaxDepth]
  <2>1. MaxDepth \in Nat /\ MaxDepth <= MaxDepth
    BY <1>2
  <2>. HIDE DEF h
  <2>. QED BY <1>11, <2>1 DEF S
<1>13. h[MaxDepth] = [base |-> g.stem, depth |-> N]
  <2>1. MaxDepth \in 0..MaxDepth
    BY <1>2
  <2>2. CASE MaxDepth <= N
    <3>1. MaxDepth = N /\ N - MaxDepth = 0
      BY <1>2, <2>2
    <3>. QED BY <1>3, <2>1, <2>2, <3>1
  <2>3. CASE ~(MaxDepth <= N)
    BY <2>1, <2>3
  <2>. QED BY <2>2, <2>3
<1>. HIDE DEF h
<1>14. BaseOf(m, name) = [base |-> g.stem, depth |-> N]
  BY <1>8, <1>12, <1>13
<1>. QED BY <1>14 DEF N, name

LEMMA NameType ==
    ASSUME NEW m, IsMatcher(m), NEW g, IsLink(m, g)
    PROVE  NameOf(m, g) \in Seq(Int)
<1>1. PICK f : IsChain(m, g, f) /\ NameOf(m, g) = f[Len(g.chain)]
  BY NameChain
<1>2. Len(g.chain) \in 0..Len(g.chain)
  BY LinkType
<1>. QED BY <1>1, <1>2 DEF IsChain

\* Different links have different names.
LEMMA NameInjective ==
    ASSUME NEW m, IsMatcher(m), NEW g, IsLink(m, g), NEW h, IsLink(m, h),
           NameOf(m, g) = NameOf(m, h)
    PROVE  g = h
<1>. DEFINE N == Len(g.chain)
<1>1. g.stem = h.stem /\ N = Len(h.chain) /\ N \in Nat
  BY BaseOfName, LinkType
<1>2. PICK a : IsChain(m, g, a) /\ NameOf(m, g) = a[N]
  BY NameChain
<1>3. PICK b : IsChain(m, h, b) /\ NameOf(m, h) = b[N]
  BY <1>1, NameChain
<1>4. /\ \A i \in 1..N : g.chain[i] \in Nat \ {0} /\ h.chain[i] \in Nat \ {0}
      /\ \A i \in 0..N : a[i] \in Seq(Int) \ {<<>>} /\ b[i] \in Seq(Int) \ {<<>>}
      /\ \A i \in 1..N : a[i] = Format(m, a[i - 1], g.chain[i])
      /\ \A i \in 1..N : b[i] = Format(m, b[i - 1], h.chain[i])
  BY <1>1, <1>2, <1>3, LinkType DEF IsChain
<1>. HIDE DEF N
<1>5. ASSUME NEW i \in 1..N
      PROVE  TrimOne(m, a[i]).base = a[i - 1] /\ TrimOne(m, b[i]).base = b[i - 1]
  <2>1. i - 1 \in 0..N
    BY <1>1
  <2>2. TrimOne(m, a[i]).base = a[i - 1]
    <3>1. a[i - 1] \in Seq(Int) /\ a[i - 1] # <<>> /\ g.chain[i] \in Nat \ {0}
      BY <1>4, <2>1
    <3>2. a[i] = Format(m, a[i - 1], g.chain[i])
      BY <1>4
    <3>. QED BY <3>1, <3>2, TrimFormat
  <2>3. TrimOne(m, b[i]).base = b[i - 1]
    <3>1. b[i - 1] \in Seq(Int) /\ b[i - 1] # <<>> /\ h.chain[i] \in Nat \ {0}
      BY <1>4, <2>1
    <3>2. b[i] = Format(m, b[i - 1], h.chain[i])
      BY <1>4
    <3>. QED BY <3>1, <3>2, TrimFormat
  <2>. QED BY <2>2, <2>3
<1>. DEFINE S == {d \in Nat : d <= N => a[N - d] = b[N - d]}
<1>6. 0 \in S
  <2>1. N - 0 = N
    BY <1>1
  <2>. QED BY <1>2, <1>3, <2>1
<1>7. ASSUME NEW d \in Nat, d \in S PROVE d + 1 \in S
  <2>1. SUFFICES ASSUME d + 1 <= N PROVE a[N - (d + 1)] = b[N - (d + 1)]
    OBVIOUS
  <2>2. N - d \in 1..N /\ (N - d) - 1 = N - (d + 1) /\ d <= N
    BY <1>1, <2>1
  <2>3. a[N - d] = b[N - d]
    BY <1>7, <2>2
  <2>. QED BY <1>5, <2>2, <2>3
<1>. HIDE DEF S
<1>8. \A d \in Nat : d \in S
  BY <1>6, <1>7, StepInduction
<1>9. ASSUME NEW i \in 0..N PROVE a[i] = b[i]
  <2>1. N - i \in Nat /\ N - i <= N /\ N - (N - i) = i
    BY <1>1
  <2>2. a[N - (N - i)] = b[N - (N - i)]
    BY <1>8, <2>1 DEF S
  <2>. QED BY <2>1, <2>2
<1>10. ASSUME NEW i \in 1..N PROVE g.chain[i] = h.chain[i]
  <2>1. i \in 0..N /\ i - 1 \in 0..N
    BY <1>1
  <2>2. a[i] = b[i] /\ a[i - 1] = b[i - 1] /\ a[i - 1] \in Seq(Int)
    BY <1>4, <1>9, <2>1
  <2>3. Format(m, a[i - 1], g.chain[i]) = Format(m, a[i - 1], h.chain[i])
    BY <1>4, <2>2
  <2>4. g.chain[i] \in Nat \ {0} /\ h.chain[i] \in Nat \ {0}
    BY <1>4
  <2>. QED BY <2>2, <2>3, <2>4, FormatInjective
<1>11. g.chain = h.chain
  <2>1. g.chain \in Seq(Nat \ {0}) /\ h.chain \in Seq(Nat \ {0})
    BY DEF IsLink
  <2>2. Len(g.chain) = N /\ Len(h.chain) = N
    BY <1>1 DEF N
  <2>. QED BY <1>10, <2>1, <2>2, SeqEqual
<1>. QED BY <1>1, <1>11 DEF IsLink

\* A stem is the name of a link without suffixes, a loser of it the name of a
\* link with one.
LEMMA StemName ==
    ASSUME NEW m, IsMatcher(m), NEW stem \in Seq(Int) \ {<<>>}, ~TrimOne(m, stem).ok
    PROVE  /\ BaseOf(m, stem).base = stem /\ BaseOf(m, stem).depth = 0
           /\ \A n \in Nat \ {0} : /\ BaseOf(m, Format(m, stem, n)).base = stem
                                   /\ BaseOf(m, Format(m, stem, n)).depth = 1
<1>. DEFINE G(c) == [stem |-> stem, chain |-> c]
<1>1. ASSUME NEW c \in Seq(Nat \ {0}), Len(c) = 0 \/ Len(c) = 1
      PROVE  /\ BaseOf(m, NameOf(m, G(c))).base = stem
             /\ BaseOf(m, NameOf(m, G(c))).depth = Len(c)
             /\ Len(c) = 0 => NameOf(m, G(c)) = stem
             /\ Len(c) = 1 => NameOf(m, G(c)) = Format(m, stem, c[1])
  <2>1. Len(c) <= MaxDepth
    <3>1. MaxDepth \in Int /\ 0 <= MaxDepth /\ 1 <= MaxDepth
      BY SuffixAssumption
    <3>. QED BY <1>1, <3>1
  <2>2. IsLink(m, G(c)) /\ G(c).stem = stem /\ G(c).chain = c
    BY <2>1 DEF IsLink
  <2>. HIDE DEF G
  <2>3. PICK f : IsChain(m, G(c), f) /\ NameOf(m, G(c)) = f[Len(c)]
    BY <2>2, NameChain
  <2>4. /\ BaseOf(m, NameOf(m, G(c))).base = stem
        /\ BaseOf(m, NameOf(m, G(c))).depth = Len(c)
    BY <2>2, BaseOfName
  <2>5. f[0] = stem
    BY <2>2, <2>3 DEF IsChain
  <2>6. ASSUME Len(c) = 1 PROVE NameOf(m, G(c)) = Format(m, stem, c[1])
    <3>1. 1 \in 1..Len(c) /\ 1 - 1 = 0
      BY <2>6
    <3>2. f[1] = Format(m, f[1 - 1], c[1])
      BY <2>2, <2>3, <3>1 DEF IsChain
    <3>. QED BY <2>3, <2>5, <2>6, <3>1, <3>2
  <2>7. ASSUME Len(c) = 0 PROVE NameOf(m, G(c)) = stem
    BY <2>3, <2>5, <2>7
  <2>. QED BY <2>4, <2>6, <2>7
<1>. HIDE DEF G
<1>2. BaseOf(m, stem).base = stem /\ BaseOf(m, stem).depth = 0
  <2>1. <<>> \in Seq(Nat \ {0}) /\ Len(<<>>) = 0
    OBVIOUS
  <2>2. /\ BaseOf(m, NameOf(m, G(<<>>))).base = stem
        /\ BaseOf(m, NameOf(m, G(<<>>))).depth = 0
        /\ NameOf(m, G(<<>>)) = stem
    BY <1>1, <2>1
  <2>. QED BY <2>2
<1>3. ASSUME NEW n \in Nat \ {0}
      PROVE  /\ BaseOf(m, Format(m, stem, n)).base = stem
             /\ BaseOf(m, Format(m, stem, n)).depth = 1
  <2>1. <<n>> \in Seq(Nat \ {0}) /\ Len(<<n>>) = 1 /\ <<n>>[1] = n
    OBVIOUS
  <2>. DEFINE c == <<n>>
  <2>2. c \in Seq(Nat \ {0}) /\ Len(c) = 1 /\ c[1] = n
    BY <2>1
  <2>. HIDE DEF c
  <2>3. /\ BaseOf(m, NameOf(m, G(c))).base = stem
        /\ BaseOf(m, NameOf(m, G(c))).depth = 1
        /\ NameOf(m, G(c)) = Format(m, stem, n)
    BY <1>1, <2>2
  <2>. QED BY <2>3
<1>. QED BY <1>2, <1>3

\* NextOldN, for every name and every set of names: the number is free, and
\* the loser hangs off the file while that exists and off the name otherwise.
LEMMA NextOldNName ==
    ASSUME NEW m, IsMatcher(m), NEW p \in Seq(Int), NEW names,
           IsFiniteSet(names), Cardinality(names) <= MaxProbe, p \in names,
           BaseOf(m, p).base \in Seq(Int)
    PROVE  LET r == NextOldN(m, p, names)
           IN /\ r.base = IF BaseOf(m, p).base \in names THEN BaseOf(m, p).base ELSE p
              /\ r.n = FirstFree(m, r.base, names) /\ r.n \in 1..MaxProbe
              /\ Format(m, r.base, r.n) \notin names
<1>. DEFINE base == IF BaseOf(m, p).base \in names THEN BaseOf(m, p).base ELSE p
            r == NextOldN(m, p, names)
<1>1. base \in Seq(Int) /\ base \in names
  OBVIOUS
<1>2. r.base = base /\ r.n = FirstFree(m, base, names)
  BY DEF NextOldN
<1>. HIDE DEF base, r
<1>3. r.n \in 1..MaxProbe
  BY <1>2, FirstFreeRange
<1>4. Format(m, base, FirstFree(m, base, names)) \notin names
  BY <1>1, FirstFreeFree
<1>. QED BY <1>2, <1>3, <1>4 DEF base, r

----------------------------------------------------------------------------
(* The paths of a setup.                                                   *)

Flat(m, stem) == {Format(m, stem, n) : n \in 1..MaxProbe}
IsNested(g) == Len(g.chain) >= 2
PathsOf(z) == UNION {{NameOf(z.matcher, g)} \union Flat(z.matcher, g.stem) : g \in z.links}
Links(z) == [path : PathsOf(z), side : Sides]
Items(z) == [path : PathsOf(z), side : Sides, link : z.links]

LEMMA SetupFacts ==
    ASSUME NEW z \in Setups
    PROVE  /\ IsMatcher(z.matcher) /\ \A g \in z.links : IsLink(z.matcher, g)
           /\ IsFiniteSet(z.links) /\ Cardinality(z.links) \in Nat /\ Cardinality(z.links) <= MaxProbe
  BY RepairAssumption, FS_CardinalityType

LEMMA NameFacts ==
    ASSUME NEW z \in Setups, NEW g \in z.links
    PROVE  /\ NameOf(z.matcher, g) \in Seq(Int) /\ NameOf(z.matcher, g) \in PathsOf(z)
           /\ BaseOf(z.matcher, NameOf(z.matcher, g)).base = g.stem
           /\ BaseOf(z.matcher, NameOf(z.matcher, g)).depth = Len(g.chain)
           /\ Len(g.chain) \in Nat
           /\ g.stem \in Seq(Int) /\ BaseOf(z.matcher, g.stem).base = g.stem
           /\ BaseOf(z.matcher, g.stem).depth = 0
<1>1. IsMatcher(z.matcher) /\ IsLink(z.matcher, g)
  BY SetupFacts
<1>2. /\ Len(g.chain) \in Nat
      /\ g.stem \in Seq(Int) \ {<<>>} /\ ~TrimOne(z.matcher, g.stem).ok
  BY <1>1, LinkType
<1>3. NameOf(z.matcher, g) \in PathsOf(z)
  BY DEF PathsOf
<1>4. BaseOf(z.matcher, g.stem).base = g.stem /\ BaseOf(z.matcher, g.stem).depth = 0
  BY <1>1, <1>2, StemName
<1>. QED BY <1>1, <1>2, <1>3, <1>4, NameType, BaseOfName

LEMMA FlatFacts ==
    ASSUME NEW z \in Setups, NEW g \in z.links, NEW p \in Flat(z.matcher, g.stem)
    PROVE  /\ p \in Seq(Int) /\ p \in PathsOf(z)
           /\ BaseOf(z.matcher, p).base = g.stem /\ BaseOf(z.matcher, p).depth = 1
<1>1. IsMatcher(z.matcher) /\ IsLink(z.matcher, g)
  BY SetupFacts
<1>2. g.stem \in Seq(Int) \ {<<>>} /\ ~TrimOne(z.matcher, g.stem).ok
  BY <1>1, LinkType
<1>3. PICK n \in 1..MaxProbe : p = Format(z.matcher, g.stem, n)
  BY DEF Flat
<1>4. n \in Nat \ {0} /\ g.stem \in Seq(Int)
  BY <1>2, SuffixAssumption
<1>5. p \in PathsOf(z)
  BY DEF PathsOf
<1>6. BaseOf(z.matcher, p).base = g.stem /\ BaseOf(z.matcher, p).depth = 1
  BY <1>1, <1>2, <1>3, <1>4, StemName
<1>7. p \in Seq(Int)
  BY <1>1, <1>3, <1>4, FormatLonger
<1>. QED BY <1>5, <1>6, <1>7

\* A path with two suffixes or more is the name of one nested link.
LEMMA DeepPath ==
    ASSUME NEW z \in Setups, NEW p \in PathsOf(z), BaseOf(z.matcher, p).depth >= 2
    PROVE  \E g \in z.links : p = NameOf(z.matcher, g) /\ IsNested(g)
<1>1. PICK g \in z.links : p = NameOf(z.matcher, g) \/ p \in Flat(z.matcher, g.stem)
  BY DEF PathsOf
<1>2. p \notin Flat(z.matcher, g.stem)
  <2>1. p \in Flat(z.matcher, g.stem) => BaseOf(z.matcher, p).depth = 1
    BY FlatFacts
  <2>. QED BY <2>1
<1>3. Len(g.chain) >= 2
  BY <1>1, <1>2, NameFacts
<1>. QED BY <1>1, <1>2, <1>3 DEF IsNested

\* The target of a nested link: a free name with one suffix.
LEMMA TargetFacts ==
    ASSUME NEW z \in Setups, setup = z, NEW g \in z.links, IsNested(g),
           NEW c, c.path = NameOf(z.matcher, g), NEW found, g.stem \in found[c.side],
           IsFiniteSet(found[c.side]), Cardinality(found[c.side]) <= MaxProbe
    PROVE  /\ Target(c, found) \in Flat(z.matcher, g.stem)
           /\ Target(c, found) \notin found[c.side]
           /\ Target(c, found) = Format(z.matcher, g.stem, FirstFree(z.matcher, g.stem, found[c.side]))
<1>. DEFINE m == z.matcher
            stem == g.stem
            names == found[c.side]
            r == NextOldN(m, stem, names)
<1>1. /\ BaseOf(m, c.path).base = stem /\ stem \in Seq(Int) /\ BaseOf(m, stem).base = stem
      /\ IsMatcher(m)
  BY NameFacts, SetupFacts
<1>2. Target(c, found) = Format(m, stem, r.n)
  BY <1>1 DEF Target, Matcher
<1>. HIDE DEF m, stem, names, r
<1>3. IsFiniteSet(names) /\ Cardinality(names) <= MaxProbe /\ stem \in names
  BY DEF names, stem
<1>4. /\ r.base = (IF BaseOf(m, stem).base \in names THEN BaseOf(m, stem).base ELSE stem)
      /\ r.n = FirstFree(m, r.base, names) /\ r.n \in 1..MaxProbe
      /\ Format(m, r.base, r.n) \notin names
  BY <1>1, <1>3, NextOldNName DEF r
<1>5. r.base = stem
  BY <1>1, <1>3, <1>4
<1>6. Format(m, stem, r.n) \in Flat(m, stem)
  BY <1>4 DEF Flat
<1>. QED BY <1>2, <1>4, <1>5, <1>6 DEF m, stem, names

----------------------------------------------------------------------------
(* The invariant.                                                          *)

Renamed(f, t) == [f EXCEPT !.path = t]

\* A file is under its first name, or is a loser of its stem with one suffix
\* when its first name was nested.
Placed(m, f) == f.path = NameOf(m, f.link) \/ (IsNested(f.link) /\ f.path \in Flat(m, f.link.stem))

FilesInv ==
    /\ files \in [Sides -> SUBSET Items(setup)]
    /\ \A s \in Sides :
        /\ \A f \in files[s] : Placed(setup.matcher, f)
        /\ \A f, h \in files[s] : f.link = h.link => f = h
        /\ Contents(files[s]) = Contents(given.files[s])

JournalInv ==
    /\ journal \in SUBSET Items(setup)
    /\ \A e \in journal : Placed(setup.matcher, e)
    /\ \A e, h \in journal : e.path = h.path => e = h

PassRec(z) ==
    [pc : {"idle", "next", "delete", "put"}, dry : BOOLEAN,
     found : [Sides -> SUBSET PathsOf(z)], todo : SUBSET Links(z),
     link : Links(z) \union {NoLink}, target : PathsOf(z) \union {<<>>}, entry : SUBSET Items(z)]

PassType ==
    /\ pass \in PassRec(setup)
    /\ pass.pc \in {"idle", "next"} => pass.target = <<>> /\ pass.entry = {}
    /\ pass.pc = "idle" => pass = NoPass
    /\ pass.pc \in {"delete", "put"} =>
         /\ pass.link \in Links(setup) /\ ~pass.dry
         /\ \E g \in setup.links : pass.target \in Flat(setup.matcher, g.stem)

\* What a pass has to do: links whose base is there.
TodoType ==
    \A c \in pass.todo :
        /\ c.path \in pass.found[c.side] /\ BaseOf(setup.matcher, c.path).depth >= 2
        /\ BaseOf(setup.matcher, c.path).base \in pass.found[c.side]

\* The paths of a set of files.
PathSet(S) == {f.path : f \in S}

\* The live set is what can be seen, but for a rename whose answer was lost.
Exact(s) == s = "local" \/ "lost" \notin setup.faults

FoundInv ==
    /\ \A s \in Sides : pass.pc # "idle" /\ Exact(s) => pass.found[s] = PathSet(Listed(s))
    /\ \A s \in Sides : /\ IsFiniteSet(pass.found[s])
                        /\ Cardinality(pass.found[s]) <= Cardinality(setup.links)

EntryInv ==
    /\ \A e \in pass.entry : IsNested(e.link) /\ pass.target \in Flat(setup.matcher, e.link.stem)
    /\ \A e, h \in pass.entry : e = h

\* What is still nested, where it can be seen, below a file that is there.
Deep(s) == {f \in Listed(s) : /\ f.link.stem \in Existing(s) /\ IsNested(f.link)
                             /\ f.path \notin Flat(setup.matcher, f.link.stem)}

DeepInv ==
    "refused" \notin setup.faults =>
        /\ marker => \A s \in Sides : Deep(s) = {}
        /\ pass.pc # "idle" /\ ~pass.dry =>
              \A s \in Sides : \A f \in Deep(s) : [path |-> f.path, side |-> s] \in pass.todo

CoreInv ==
    /\ setup \in Setups /\ marker \in BOOLEAN
    /\ FilesInv /\ JournalInv /\ PassType /\ TodoType /\ FoundInv /\ EntryInv /\ DeepInv

----------------------------------------------------------------------------
(* What the actions do.                                                    *)

LEMMA ListedIn == \A s : Listed(s) \subseteq files[s] /\ PathSet(Listed(s)) \subseteq Existing(s)
  BY DEF Listed, PathSet, Existing

LEMMA ListedLocal == Listed("local") = files["local"] /\ PathSet(Listed("local")) = Existing("local")
  BY DEF Listed, PathSet, Existing

LEMMA NoPassFields ==
    /\ NoPass.pc = "idle" /\ NoPass.dry = FALSE /\ NoPass.todo = {}
    /\ NoPass.found = [s \in Sides |-> {}] /\ NoPass.link = NoLink
    /\ NoPass.target = <<>> /\ NoPass.entry = {}
    /\ \A z : NoPass \in PassRec(z)
  BY DEF NoPass, PassRec

\* A pass begins: the live set is what is there, and the links are found.
LEMMA BeginFx ==
    ASSUME CoreInv, NEW dry \in BOOLEAN, NEW auto \in BOOLEAN, Begin(dry, auto)
    PROVE  /\ setup' = setup /\ given' = given /\ marker' = marker
           /\ files' = files /\ journal' = journal /\ pass = NoPass
           /\ pass' \in PassRec(setup)
           /\ pass'.pc = "next" /\ pass'.dry = dry /\ pass'.target = <<>> /\ pass'.entry = {}
           /\ pass'.found = [s \in Sides |-> PathSet(Listed(s))]
           /\ pass'.todo = Candidates(pass'.found)
<1>. DEFINE found == [s \in Sides |-> PathSet(Listed(s))]
            todo == Candidates(found)
<1>1. pass' = [NoPass EXCEPT !.pc = "next", !.dry = dry, !.found = found, !.todo = todo]
  BY DEF Begin, PathSet
<1>2. found \in [Sides -> SUBSET PathsOf(setup)]
  <2>1. \A s \in Sides : Existing(s) \subseteq PathsOf(setup)
    BY DEF CoreInv, FilesInv, Existing, Items
  <2>. QED BY <2>1, ListedIn
<1>. HIDE DEF found
<1>3. todo \in SUBSET Links(setup)
  BY <1>2 DEF Candidates, Links
<1>. HIDE DEF todo
<1>4. /\ pass'.pc = "next" /\ pass'.dry = dry /\ pass'.target = <<>> /\ pass'.entry = {}
      /\ pass'.found = found /\ pass'.todo = todo
  BY <1>1 DEF NoPass
<1>5. pass' \in PassRec(setup)
  BY <1>1, <1>2, <1>3 DEF NoPass, PassRec
<1>. QED BY <1>4, <1>5 DEF Begin, disk, still, found, todo

\* A link is left alone, or its rename is taken to have failed.
LEMMA SkipFx ==
    ASSUME CoreInv, NEW c \in NextUp(pass.todo), Show(c) \/ RenameFails(c)
    PROVE  /\ setup' = setup /\ given' = given /\ marker' = marker /\ journal' = journal
           /\ c \in pass.todo /\ c \in Links(setup) /\ pass.pc = "next"
           /\ pass' \in PassRec(setup)
           /\ pass'.pc = "next" /\ pass'.dry = pass.dry /\ pass'.found = pass.found
           /\ pass'.target = pass.target /\ pass'.entry = pass.entry
           /\ pass'.todo = pass.todo \ {c}
<1>1. c \in pass.todo /\ pass \in PassRec(setup)
  BY DEF NextUp, CoreInv, PassType
<1>2. pass' = [pass EXCEPT !.todo = pass.todo \ {c}] /\ pass.pc = "next"
  BY DEF Show, RenameFails
<1>3. c \in Links(setup)
  BY <1>1 DEF PassRec
<1>4. /\ pass' \in PassRec(setup)
      /\ pass'.pc = "next" /\ pass'.dry = pass.dry /\ pass'.found = pass.found
      /\ pass'.target = pass.target /\ pass'.entry = pass.entry
      /\ pass'.todo = pass.todo \ {c}
  BY <1>1, <1>2 DEF PassRec
<1>. QED BY <1>1, <1>2, <1>3, <1>4 DEF Show, RenameFails, disk, still

LEMMA RenameFx ==
    ASSUME CoreInv, NEW c \in NextUp(pass.todo), Rename(c),
           NEW t, t = Target(c, pass.found), t \in PathsOf(setup)
    PROVE  /\ setup' = setup /\ given' = given /\ marker' = marker /\ journal' = journal
           /\ files' = Moved(c, t) /\ pass.pc = "next" /\ ~pass.dry
           /\ pass' \in PassRec(setup)
           /\ pass'.pc = "delete" /\ pass'.dry = pass.dry
           /\ pass'.todo = pass.todo \ {c} /\ pass'.link = c /\ pass'.target = t
           /\ \/ pass'.entry = {e \in journal : e.path = c.path}
              \/ setup.faults # {} /\ pass'.entry = {}
           /\ pass'.found = [pass.found EXCEPT ![c.side] = (pass.found[c.side] \ {c.path}) \union {t}]
<1>1. c \in pass.todo /\ pass \in PassRec(setup) /\ journal \in SUBSET Items(setup)
  BY DEF NextUp, CoreInv, PassType, JournalInv
<1>2. c \in Links(setup)
  BY <1>1 DEF PassRec
<1>. DEFINE found == [pass.found EXCEPT ![c.side] = (pass.found[c.side] \ {c.path}) \union {t}]
            todo == pass.todo \ {c}
<1>0. PICK entry \in JournalGet(c.path) :
         pass' = [pass EXCEPT !.pc = "delete", !.todo = @ \ {c}, !.link = c, !.target = t,
                              !.entry = entry, !.found[c.side] = (@ \ {c.path}) \union {t}]
  BY Zenon DEF Rename
<1>9. \/ entry = {e \in journal : e.path = c.path}
      \/ setup.faults # {} /\ entry = {}
  BY DEF JournalGet, Faults
<1>3. found \in [Sides -> SUBSET PathsOf(setup)] /\ entry \in SUBSET Items(setup) /\ todo \in SUBSET Links(setup)
  BY <1>1, <1>2, <1>9 DEF PassRec, Links
<1>4. pass' = [pass EXCEPT !.pc = "delete", !.todo = todo, !.link = c, !.target = t,
                           !.entry = entry, !.found = found]
  BY <1>0
<1>5. files' = Moved(c, t) /\ pass.pc = "next" /\ ~pass.dry
  BY DEF Rename
<1>6. setup' = setup /\ given' = given /\ marker' = marker /\ journal' = journal
  BY DEF Rename, still
<1>. HIDE DEF found, todo
<1>7. /\ pass'.pc = "delete" /\ pass'.dry = pass.dry /\ pass'.todo = todo /\ pass'.link = c
      /\ pass'.target = t /\ pass'.entry = entry /\ pass'.found = found
  BY <1>1, <1>4 DEF PassRec
<1>8. pass' \in PassRec(setup)
  BY <1>1, <1>2, <1>3, <1>4 DEF PassRec
<1>. QED BY <1>5, <1>6, <1>7, <1>8, <1>9 DEF found, todo

LEMMA DeleteFx ==
    ASSUME CoreInv, JournalDelete
    PROVE  /\ setup' = setup /\ given' = given /\ marker' = marker /\ files' = files
           /\ \/ journal' = {e \in journal : e.path # pass.link.path}
              \/ setup.faults # {} /\ journal' = journal
           /\ pass.pc = "delete" /\ pass'.pc = "put" /\ pass' \in PassRec(setup)
           /\ pass'.dry = pass.dry /\ pass'.found = pass.found /\ pass'.todo = pass.todo
           /\ pass'.link = pass.link /\ pass'.target = pass.target /\ pass'.entry = pass.entry
<1>1. pass \in PassRec(setup)
  BY DEF CoreInv, PassType
<1>2. pass' = [pass EXCEPT !.pc = "put"]
  BY DEF JournalDelete
<1>3. /\ pass'.pc = "put" /\ pass' \in PassRec(setup)
      /\ pass'.dry = pass.dry /\ pass'.found = pass.found /\ pass'.todo = pass.todo
      /\ pass'.link = pass.link /\ pass'.target = pass.target /\ pass'.entry = pass.entry
  BY <1>1, <1>2 DEF PassRec
<1>. QED BY <1>3 DEF JournalDelete, still, Faults

LEMMA PutFx ==
    ASSUME CoreInv, JournalPut \/ JournalPutFails
    PROVE  /\ setup' = setup /\ given' = given /\ marker' = marker /\ files' = files
           /\ pass.pc = "put" /\ pass'.pc = "next" /\ pass' \in PassRec(setup)
           /\ pass'.dry = pass.dry /\ pass'.found = pass.found /\ pass'.todo = pass.todo
           /\ pass'.target = <<>> /\ pass'.entry = {}
           /\ \/ journal' = journal /\ (setup.faults # {} \/ pass.entry = {})
              \/ /\ pass.entry # {}
                 /\ journal' = {e \in journal : e.path # pass.target}
                                 \union {Renamed(e, pass.target) : e \in pass.entry}
<1>1. pass \in PassRec(setup)
  BY DEF CoreInv, PassType
<1>2. pass' = [pass EXCEPT !.pc = "next", !.link = NoLink, !.target = <<>>, !.entry = {}]
  BY DEF JournalPut, JournalPutFails, Goes
<1>3. /\ pass'.pc = "next" /\ pass' \in PassRec(setup)
      /\ pass'.dry = pass.dry /\ pass'.found = pass.found /\ pass'.todo = pass.todo
      /\ pass'.target = <<>> /\ pass'.entry = {}
  BY <1>1, <1>2 DEF PassRec
<1>4. /\ setup' = setup /\ given' = given /\ marker' = marker /\ files' = files /\ pass.pc = "put"
  BY DEF JournalPut, JournalPutFails, disk, still
<1>5. CASE JournalPut
  BY <1>3, <1>4, <1>5 DEF JournalPut, Renamed
<1>6. CASE JournalPutFails
  BY <1>3, <1>4, <1>6 DEF JournalPutFails, disk, Faults
<1>. QED BY <1>5, <1>6

----------------------------------------------------------------------------
(* A rename.                                                               *)

\* What a rename of p to t makes of the files of one side, when t is free.
MovedSet(S, p, t) ==
    {f \in S : f.path # p} \union {Renamed(f, t) : f \in {h \in S : h.path = p}}

LEMMA RenamedFields ==
    ASSUME NEW z, NEW f \in Items(z), NEW t \in PathsOf(z)
    PROVE  /\ Renamed(f, t) \in Items(z)
           /\ Renamed(f, t).path = t /\ Renamed(f, t).side = f.side /\ Renamed(f, t).link = f.link
  BY DEF Renamed, Items

LEMMA ItemEqual ==
    ASSUME NEW z, NEW f \in Items(z), NEW h \in Items(z),
           f.path = h.path, f.side = h.side, f.link = h.link
    PROVE  f = h
  BY DEF Items

LEMMA LinksEqual ==
    ASSUME NEW z, NEW c \in Links(z), NEW d \in Links(z), c.path = d.path, c.side = d.side
    PROVE  c = d
  BY DEF Links

\* Nothing is lost or made: each file of the one set is one of the other.
LEMMA MovedItems ==
    ASSUME NEW z, NEW S \in SUBSET Items(z), NEW p, NEW t \in PathsOf(z)
    PROVE  /\ MovedSet(S, p, t) \in SUBSET Items(z)
           /\ \A h \in MovedSet(S, p, t) :
                 \/ h \in S /\ h.path # p
                 \/ \E f \in S : f.path = p /\ h = Renamed(f, t)
           /\ \A f \in S : IF f.path = p THEN Renamed(f, t) \in MovedSet(S, p, t)
                                         ELSE f \in MovedSet(S, p, t)
<1>1. ASSUME NEW f \in S PROVE Renamed(f, t) \in Items(z)
  BY RenamedFields
<1>. QED BY <1>1 DEF MovedSet

LEMMA MovedContents ==
    ASSUME NEW z, NEW S \in SUBSET Items(z), NEW p, NEW t \in PathsOf(z)
    PROVE  Contents(MovedSet(S, p, t)) = Contents(S)
<1>. DEFINE M == MovedSet(S, p, t)
            C(f) == [side |-> f.side, link |-> f.link]
<1>1. ASSUME NEW h \in M PROVE \E f \in S : C(h) = C(f)
  <2>1. CASE h \in S
    BY <2>1
  <2>2. CASE h \notin S
    <3>1. PICK f \in S : h = Renamed(f, t)
      BY <2>2, MovedItems
    <3>2. h.side = f.side /\ h.link = f.link
      BY <3>1, RenamedFields
    <3>. QED BY <3>2
  <2>. QED BY <2>1, <2>2
<1>2. ASSUME NEW f \in S PROVE \E h \in M : C(h) = C(f)
  <2>1. CASE f.path = p
    <3>1. Renamed(f, t) \in M
      BY <2>1, MovedItems
    <3>2. C(Renamed(f, t)) = C(f)
      BY RenamedFields
    <3>. QED BY <3>1, <3>2
  <2>2. CASE f.path # p
    BY <2>2, MovedItems
  <2>. QED BY <2>1, <2>2
<1>. HIDE DEF M
<1>3. Contents(M) = {C(h) : h \in M} /\ Contents(S) = {C(h) : h \in S}
  BY DEF Contents
<1>. HIDE DEF C
<1>. QED BY <1>1, <1>2, <1>3 DEF M

LEMMA MovedUnique ==
    ASSUME NEW z, NEW S \in SUBSET Items(z), NEW p, NEW t \in PathsOf(z),
           \A f, h \in S : f.link = h.link => f = h
    PROVE  \A f, h \in MovedSet(S, p, t) : f.link = h.link => f = h
<1>. DEFINE M == MovedSet(S, p, t)
<1>1. ASSUME NEW h \in M
      PROVE  \E f \in S : h.link = f.link /\ h = IF f.path = p THEN Renamed(f, t) ELSE f
  <2>1. CASE h \in S /\ h.path # p
    BY <2>1
  <2>2. CASE \E f \in S : f.path = p /\ h = Renamed(f, t)
    BY <2>2, RenamedFields
  <2>3. \/ h \in S /\ h.path # p
        \/ \E f \in S : f.path = p /\ h = Renamed(f, t)
    BY MovedItems
  <2>. QED BY <2>1, <2>2, <2>3
<1>. HIDE DEF M
<1>2. ASSUME NEW f \in M, NEW h \in M, f.link = h.link PROVE f = h
  <2>1. PICK f1 \in S : f.link = f1.link /\ f = IF f1.path = p THEN Renamed(f1, t) ELSE f1
    BY <1>1
  <2>2. PICK h1 \in S : h.link = h1.link /\ h = IF h1.path = p THEN Renamed(h1, t) ELSE h1
    BY <1>1
  <2>3. f1 = h1
    BY <1>2, <2>1, <2>2
  <2>. QED BY <2>1, <2>2, <2>3
<1>. QED BY <1>2 DEF M

LEMMA MovedPaths ==
    ASSUME NEW z, NEW S \in SUBSET Items(z), NEW p, NEW t \in PathsOf(z)
    PROVE  /\ PathSet(MovedSet(S, p, t)) \subseteq (PathSet(S) \ {p}) \union {t}
           /\ PathSet(S) \ {p} \subseteq PathSet(MovedSet(S, p, t))
           /\ p \in PathSet(S) => t \in PathSet(MovedSet(S, p, t))
<1>1. ASSUME NEW h \in MovedSet(S, p, t)
      PROVE  h.path \in (PathSet(S) \ {p}) \union {t}
  <2>1. CASE h \in S /\ h.path # p
    BY <2>1 DEF PathSet
  <2>2. CASE \E f \in S : f.path = p /\ h = Renamed(f, t)
    BY <2>2, RenamedFields
  <2>3. \/ h \in S /\ h.path # p
        \/ \E f \in S : f.path = p /\ h = Renamed(f, t)
    BY MovedItems
  <2>. QED BY <2>1, <2>2, <2>3
<1>2. ASSUME NEW f \in S, f.path # p PROVE f \in MovedSet(S, p, t)
  BY <1>2, MovedItems
<1>3. ASSUME NEW f \in S, f.path = p PROVE \E h \in MovedSet(S, p, t) : h.path = t
  <2>1. Renamed(f, t) \in MovedSet(S, p, t)
    BY <1>3, MovedItems
  <2>. QED BY <2>1, RenamedFields
<1>. QED BY <1>1, <1>2, <1>3 DEF PathSet

\* A rename on a side is one of what can be seen there.
LEMMA MovedListed ==
    ASSUME NEW s \in Sides, NEW p, NEW t \in PathsOf(setup), files[s] \in SUBSET Items(setup),
           setup' = setup, files'[s] = MovedSet(files[s], p, t)
    PROVE  Listed(s)' = MovedSet(Listed(s), p, t)
<1>. DEFINE S == files[s]
            Q(h) == s = "local" \/ h.link.stem \notin setup.folders
            L == {h \in S : Q(h)}
            M == {h \in MovedSet(S, p, t) : Q(h)}
<1>1. Listed(s) = L /\ Listed(s)' = M
  BY DEF Listed
<1>2. ASSUME NEW h \in S PROVE Q(Renamed(h, t)) <=> Q(h)
  <2>1. Renamed(h, t).link = h.link
    BY RenamedFields
  <2>. QED BY <2>1
<1>. HIDE DEF S, Q
<1>3. M = MovedSet(L, p, t)
  BY <1>2 DEF MovedSet
<1>. QED BY <1>1, <1>3

\* A link that is to be renamed is the name of one nested link of the setup,
\* and its target is free in the live set.
LEMMA CandidateFacts ==
    ASSUME CoreInv, NEW c \in pass.todo
    PROVE  /\ c \in Links(setup) /\ c.side \in Sides /\ c.path \in pass.found[c.side]
           /\ \E g \in setup.links :
                 /\ IsNested(g) /\ c.path = NameOf(setup.matcher, g) /\ g.stem \in pass.found[c.side]
                 /\ Target(c, pass.found) \in Flat(setup.matcher, g.stem)
                 /\ Target(c, pass.found) \in PathsOf(setup)
                 /\ Target(c, pass.found) \notin pass.found[c.side]
<1>1. setup \in Setups /\ pass \in PassRec(setup)
  BY DEF CoreInv, PassType
<1>2. c \in Links(setup)
  BY <1>1 DEF PassRec
<1>3. c.side \in Sides /\ c.path \in PathsOf(setup)
  BY <1>2 DEF Links
<1>4. /\ c.path \in pass.found[c.side] /\ BaseOf(setup.matcher, c.path).depth >= 2
      /\ BaseOf(setup.matcher, c.path).base \in pass.found[c.side]
  BY DEF CoreInv, TodoType
<1>5. PICK g \in setup.links : c.path = NameOf(setup.matcher, g) /\ IsNested(g)
  BY <1>1, <1>3, <1>4, DeepPath
<1>6. g.stem \in pass.found[c.side]
  BY <1>1, <1>4, <1>5, NameFacts
<1>7. IsFiniteSet(pass.found[c.side]) /\ Cardinality(pass.found[c.side]) <= MaxProbe
  <2>1. /\ IsFiniteSet(pass.found[c.side])
        /\ Cardinality(pass.found[c.side]) <= Cardinality(setup.links)
    BY <1>3 DEF CoreInv, FoundInv
  <2>2. Cardinality(setup.links) \in Nat /\ Cardinality(setup.links) <= MaxProbe
    BY <1>1, SetupFacts
  <2>3. Cardinality(pass.found[c.side]) \in Nat /\ MaxProbe \in Nat
    BY <2>1, FS_CardinalityType, SuffixAssumption
  <2>. QED BY <2>1, <2>2, <2>3
<1>8. /\ Target(c, pass.found) \in Flat(setup.matcher, g.stem)
      /\ Target(c, pass.found) \notin pass.found[c.side]
  BY <1>1, <1>5, <1>6, <1>7, TargetFacts
<1>9. Target(c, pass.found) \in PathsOf(setup)
  BY <1>1, <1>8, FlatFacts
<1>. QED BY <1>2, <1>3, <1>4, <1>5, <1>6, <1>8, <1>9

\* No file of the local disk is replaced: the target is free there.
LEMMA MovedIs ==
    ASSUME CoreInv, NEW c \in pass.todo, pass.pc = "next",
           NEW t, t = Target(c, pass.found)
    PROVE  Moved(c, t) = [files EXCEPT ![c.side] = MovedSet(files[c.side], c.path, t)]
<1>1. c.side \in Sides /\ t \notin pass.found[c.side]
  BY CandidateFacts
<1>2. c.side = "local" => pass.found[c.side] = Existing(c.side)
  BY <1>1, ListedLocal DEF CoreInv, FoundInv, Exact
<1>3. c.side = "local" => \A f \in files[c.side] : f.path # t
  BY <1>1, <1>2 DEF Existing
<1>4. {f \in files[c.side] : f.path # c.path /\ (c.side = "local" => f.path # t)}
        = {f \in files[c.side] : f.path # c.path}
  BY <1>3
<1>. QED BY <1>4 DEF Moved, MovedSet, Renamed

\* A set of files with one file for each content has at most as many paths
\* as there are links.
LEMMA ExistingBound ==
    ASSUME FilesInv, setup \in Setups, NEW s \in Sides
    PROVE  IsFiniteSet(Existing(s)) /\ Cardinality(Existing(s)) <= Cardinality(setup.links)
<1>. DEFINE L == {g \in setup.links : \E f \in files[s] : f.link = g}
            File(g) == CHOOSE f \in files[s] : f.link = g
            F == [g \in L |-> File(g).path]
<1>1. files[s] \in SUBSET Items(setup) /\ \A f, h \in files[s] : f.link = h.link => f = h
  BY DEF FilesInv
<1>2. ASSUME NEW g \in L PROVE File(g) \in files[s] /\ File(g).link = g
  OBVIOUS
<1>3. ASSUME NEW f \in files[s] PROVE f.link \in L /\ File(f.link) = f
  <2>1. f.link \in L
    BY <1>1 DEF Items
  <2>2. File(f.link) \in files[s] /\ File(f.link).link = f.link
    BY <1>2, <2>1
  <2>. QED BY <1>1, <2>1, <2>2
<1>. HIDE DEF File
<1>4. L \in SUBSET setup.links
  OBVIOUS
<1>. HIDE DEF L
<1>5. F \in [L -> Existing(s)]
  BY <1>2 DEF Existing
<1>6. \A p \in Existing(s) : \E g \in L : F[g] = p
  <2>. SUFFICES ASSUME NEW f \in files[s] PROVE \E g \in L : F[g] = f.path
    BY DEF Existing
  <2>. QED BY <1>3
<1>7. F \in Surjection(L, Existing(s))
  BY <1>5, <1>6 DEF Surjection
<1>. HIDE DEF F
<1>8. IsFiniteSet(setup.links) /\ Cardinality(setup.links) \in Nat
  BY SetupFacts
<1>9. IsFiniteSet(L) /\ Cardinality(L) <= Cardinality(setup.links)
  BY <1>4, <1>8, FS_Subset
<1>10. IsFiniteSet(Existing(s)) /\ Cardinality(Existing(s)) <= Cardinality(L)
  BY <1>7, <1>9, FS_Surjection
<1>11. Cardinality(L) \in Nat /\ Cardinality(Existing(s)) \in Nat
  BY <1>9, <1>10, FS_CardinalityType
<1>. QED BY <1>8, <1>9, <1>10, <1>11

LEMMA ListedBound ==
    ASSUME FilesInv, setup \in Setups, NEW s \in Sides
    PROVE  /\ IsFiniteSet(PathSet(Listed(s)))
           /\ Cardinality(PathSet(Listed(s))) <= Cardinality(setup.links)
<1>. DEFINE S == PathSet(Listed(s))
            E == Existing(s)
<1>1. IsFiniteSet(E) /\ Cardinality(E) <= Cardinality(setup.links)
  BY ExistingBound
<1>2. S \in SUBSET E
  BY ListedIn
<1>. HIDE DEF S, E
<1>3. IsFiniteSet(S) /\ Cardinality(S) <= Cardinality(E)
  BY <1>1, <1>2, FS_Subset
<1>4. Cardinality(S) \in Nat /\ Cardinality(E) \in Nat /\ Cardinality(setup.links) \in Nat
  BY <1>1, <1>3, FS_CardinalityType, SetupFacts
<1>5. Cardinality(S) <= Cardinality(setup.links)
  BY <1>1, <1>3, <1>4
<1>. QED BY <1>3, <1>5 DEF S

\* The file of a loser that can be seen can be seen as well.
LEMMA StemListed ==
    ASSUME FilesInv, setup \in Setups, NEW s \in Sides, NEW f \in Listed(s), f.link.stem \in Existing(s)
    PROVE  f.link.stem \in PathSet(Listed(s))
<1>1. PICK h \in files[s] : h.path = f.link.stem
  BY DEF Existing
<1>2. f \in files[s] /\ files[s] \in SUBSET Items(setup) /\ Placed(setup.matcher, h)
  BY ListedIn DEF FilesInv
<1>3. f.link \in setup.links /\ h.link \in setup.links
  BY <1>2 DEF Items
<1>4. /\ BaseOf(setup.matcher, f.link.stem).base = f.link.stem
      /\ BaseOf(setup.matcher, f.link.stem).depth = 0
  BY <1>3, NameFacts
<1>5. h.path \notin Flat(setup.matcher, h.link.stem)
  <2>1. \A q \in Flat(setup.matcher, h.link.stem) : BaseOf(setup.matcher, q).depth = 1
    BY <1>3, FlatFacts
  <2>. QED BY <1>1, <1>4, <2>1
<1>6. h.path = NameOf(setup.matcher, h.link)
  BY <1>2, <1>5 DEF Placed
<1>7. h.link.stem = f.link.stem
  BY <1>1, <1>3, <1>4, <1>6, NameFacts
<1>8. h \in Listed(s)
  BY <1>7 DEF Listed
<1>. QED BY <1>1, <1>8 DEF PathSet

\* The file at a nested name is the one that this link was.
LEMMA FileAt ==
    ASSUME NEW z \in Setups, NEW f \in Items(z), Placed(z.matcher, f),
           NEW g \in z.links, IsNested(g), f.path = NameOf(z.matcher, g)
    PROVE  f.link = g
<1>1. f.link \in z.links
  BY DEF Items
<1>. DEFINE d == BaseOf(z.matcher, f.path).depth
            N == Len(g.chain)
<1>2. d = N /\ N \in Nat /\ N >= 2
  BY NameFacts DEF IsNested
<1>. HIDE DEF d, N
<1>3. f.path \notin Flat(z.matcher, f.link.stem)
  <2>1. \A q \in Flat(z.matcher, f.link.stem) : BaseOf(z.matcher, q).depth = 1
    BY <1>1, FlatFacts
  <2>2. d # 1
    BY <1>2
  <2>. QED BY <2>1, <2>2 DEF d
<1>4. NameOf(z.matcher, f.link) = NameOf(z.matcher, g)
  BY <1>3 DEF Placed
<1>5. IsMatcher(z.matcher) /\ IsLink(z.matcher, g) /\ IsLink(z.matcher, f.link)
  BY <1>1, SetupFacts
<1>. QED BY <1>4, <1>5, NameInjective

\* A rename of one side.
LEMMA MoveSide ==
    ASSUME NEW z \in Setups, NEW S \in SUBSET Items(z), \A f \in S : Placed(z.matcher, f),
           NEW g \in z.links, IsNested(g), NEW p, p = NameOf(z.matcher, g),
           NEW t \in Flat(z.matcher, g.stem)
    PROVE  /\ \A h \in MovedSet(S, p, t) : Placed(z.matcher, h)
           /\ \A h \in MovedSet(S, p, t) :
                 h.path \notin Flat(z.matcher, h.link.stem) => h \in S /\ h.path # p
           /\ \A q : BaseOf(z.matcher, q).depth = 0 =>
                 (q \in PathSet(MovedSet(S, p, t)) <=> q \in PathSet(S))
<1>1. t \in PathsOf(z) /\ BaseOf(z.matcher, t).depth = 1
  BY FlatFacts
<1>0. \A q : \A h \in MovedSet(S, q, t) :
            \/ h \in S /\ h.path # q
            \/ \E f \in S : f.path = q /\ h = Renamed(f, t)
  BY <1>1, MovedItems
<1>2. BaseOf(z.matcher, p).depth = Len(g.chain) /\ Len(g.chain) \in Nat /\ Len(g.chain) >= 2
  BY NameFacts DEF IsNested
<1>3. ASSUME NEW f \in S, f.path = p
      PROVE  /\ Placed(z.matcher, Renamed(f, t))
             /\ Renamed(f, t).path \in Flat(z.matcher, Renamed(f, t).link.stem)
  <2>1. f.link = g
    BY <1>3, FileAt
  <2>2. Renamed(f, t).path = t /\ Renamed(f, t).link = g
    BY <1>1, <2>1, RenamedFields
  <2>. QED BY <2>2 DEF Placed
<1>4. ASSUME NEW h \in MovedSet(S, p, t)
      PROVE  /\ Placed(z.matcher, h)
             /\ h.path \notin Flat(z.matcher, h.link.stem) => h \in S /\ h.path # p
  <2>1. \/ h \in S /\ h.path # p
        \/ \E f \in S : f.path = p /\ h = Renamed(f, t)
    BY <1>0
  <2>2. CASE h \in S /\ h.path # p
    BY <2>2
  <2>3. CASE \E f \in S : f.path = p /\ h = Renamed(f, t)
    <3>1. PICK f \in S : f.path = p /\ h = Renamed(f, t)
      BY <2>3
    <3>. QED BY <1>3, <3>1
  <2>. QED BY <2>1, <2>2, <2>3
<1>5. ASSUME NEW q, BaseOf(z.matcher, q).depth = 0
      PROVE  q \in PathSet(MovedSet(S, p, t)) <=> q \in PathSet(S)
  <2>1. q # p /\ q # t
    BY <1>1, <1>2, <1>5
  <2>2. /\ PathSet(MovedSet(S, p, t)) \subseteq (PathSet(S) \ {p}) \union {t}
        /\ PathSet(S) \ {p} \subseteq PathSet(MovedSet(S, p, t))
    BY <1>1, MovedPaths
  <2>. QED BY <2>1, <2>2
<1>. QED BY <1>4, <1>5

\* The files after a rename, with or without its answer.
LEMMA MoveKeeps ==
    ASSUME CoreInv, NEW c \in pass.todo, pass.pc = "next",
           files' = Moved(c, Target(c, pass.found)), setup' = setup, given' = given
    PROVE  /\ FilesInv'
           /\ \A s \in Sides : s # c.side => files'[s] = files[s]
           /\ files'[c.side] = MovedSet(files[c.side], c.path, Target(c, pass.found))
           /\ \A s \in Sides : Deep(s)' \subseteq Deep(s)
           /\ \A f \in Deep(c.side)' : f.path # c.path
<1>. DEFINE t == Target(c, pass.found)
            M == MovedSet(files[c.side], c.path, t)
<1>1. PICK g \in setup.links :
         /\ IsNested(g) /\ c.path = NameOf(setup.matcher, g)
         /\ t \in Flat(setup.matcher, g.stem) /\ t \in PathsOf(setup)
  BY CandidateFacts
<1>2. c.side \in Sides /\ setup \in Setups
  BY CandidateFacts DEF CoreInv
<1>3. files' = [files EXCEPT ![c.side] = M]
  BY MovedIs
<1>. HIDE DEF t, M
<1>4. files \in [Sides -> SUBSET Items(setup)]
  BY DEF CoreInv, FilesInv
<1>5. \A s \in Sides : s # c.side => files'[s] = files[s]
  BY <1>3, <1>4
<1>6. files'[c.side] = M
  BY <1>2, <1>3, <1>4
<1>7. files[c.side] \in SUBSET Items(setup) /\ \A f \in files[c.side] : Placed(setup.matcher, f)
  BY <1>2, <1>4 DEF CoreInv, FilesInv
<1>8. /\ \A h \in M : Placed(setup.matcher, h)
      /\ \A h \in M : h.path \notin Flat(setup.matcher, h.link.stem) => h \in files[c.side] /\ h.path # c.path
      /\ \A q : BaseOf(setup.matcher, q).depth = 0 => (q \in PathSet(M) <=> q \in PathSet(files[c.side]))
  BY <1>1, <1>2, <1>7, MoveSide DEF M
<1>9. M \in SUBSET Items(setup)
  BY <1>1, <1>7, MovedItems DEF M
<1>10. Contents(M) = Contents(files[c.side])
  BY <1>1, <1>7, MovedContents DEF M
<1>11. \A f, h \in M : f.link = h.link => f = h
  <2>1. \A f, h \in files[c.side] : f.link = h.link => f = h
    BY <1>2 DEF CoreInv, FilesInv
  <2>. QED BY <1>1, <1>7, <2>1, MovedUnique DEF M
<1>12. FilesInv'
  <2>1. files' \in [Sides -> SUBSET Items(setup)]
    BY <1>3, <1>4, <1>9
  <2>2. ASSUME NEW s \in Sides
        PROVE  /\ \A f \in files'[s] : Placed(setup.matcher, f)
               /\ \A f, h \in files'[s] : f.link = h.link => f = h
               /\ Contents(files'[s]) = Contents(given.files[s])
    <3>1. /\ \A f \in files[s] : Placed(setup.matcher, f)
          /\ \A f, h \in files[s] : f.link = h.link => f = h
          /\ Contents(files[s]) = Contents(given.files[s])
      BY DEF CoreInv, FilesInv
    <3>2. CASE s = c.side
      BY <1>6, <1>8, <1>10, <1>11, <3>1, <3>2
    <3>3. CASE s # c.side
      BY <1>5, <3>1, <3>3
    <3>. QED BY <3>2, <3>3
  <2>. QED BY <2>1, <2>2 DEF FilesInv
<1>13. ASSUME NEW s \in Sides, NEW f \in Deep(s)'
       PROVE  f \in Deep(s) /\ (s = c.side => f.path # c.path)
  <2>1. /\ f \in files'[s] /\ f.link.stem \in PathSet(files'[s]) /\ IsNested(f.link)
        /\ f.path \notin Flat(setup.matcher, f.link.stem)
        /\ s = "local" \/ f.link.stem \notin setup.folders
    BY DEF Deep, Listed, Existing, PathSet
  <2>2. CASE s # c.side
    BY <1>5, <2>1, <2>2 DEF Deep, Listed, Existing, PathSet
  <2>3. CASE s = c.side
    <3>1. f \in M /\ f.link.stem \in PathSet(M)
      BY <1>6, <2>1, <2>3
    <3>2. f \in files[c.side] /\ f.path # c.path
      BY <1>8, <2>1, <3>1
    <3>3. f.link \in setup.links
      BY <1>9, <3>1 DEF Items
    <3>4. BaseOf(setup.matcher, f.link.stem).depth = 0
      BY <1>2, <3>3, NameFacts
    <3>5. f.link.stem \in PathSet(files[c.side])
      BY <1>8, <3>1, <3>4
    <3>. QED BY <2>1, <2>3, <3>2, <3>5 DEF Deep, Listed, Existing, PathSet
  <2>. QED BY <2>2, <2>3
<1>. QED BY <1>2, <1>5, <1>6, <1>12, <1>13 DEF M, t

----------------------------------------------------------------------------
(* The invariant is one.                                                   *)

\* Steps that leave the files keep what is said of them.
LEMMA FilesStill ==
    ASSUME CoreInv, setup' = setup, given' = given, files' = files
    PROVE  /\ FilesInv'
           /\ \A s : Listed(s)' = Listed(s) /\ Deep(s)' = Deep(s) /\ (Exact(s)' <=> Exact(s))
<1>1. FilesInv'
  BY DEF CoreInv, FilesInv
<1>2. \A s : Listed(s)' = Listed(s) /\ Existing(s)' = Existing(s) /\ (Exact(s)' <=> Exact(s))
  BY DEF Listed, Existing, Exact
<1>3. \A s : Deep(s)' = Deep(s)
  BY <1>2 DEF Deep
<1>. QED BY <1>1, <1>2, <1>3

LEMMA JournalStill ==
    ASSUME CoreInv, setup' = setup, journal' \subseteq journal
    PROVE  JournalInv'
  BY DEF CoreInv, JournalInv

LEMMA PassTypeIntro ==
    ASSUME setup' = setup, pass' \in PassRec(setup), pass'.pc # "idle",
           pass'.pc = "next" => pass'.target = <<>> /\ pass'.entry = {},
           pass'.pc \in {"delete", "put"} =>
              /\ pass'.link \in Links(setup) /\ ~pass'.dry
              /\ \E g \in setup.links : pass'.target \in Flat(setup.matcher, g.stem)
    PROVE  PassType'
  BY DEF PassType

\* No pass is going on.
LEMMA IdleKeeps ==
    ASSUME CoreInv, pass' = NoPass, setup' = setup, given' = given, files' = files, journal' = journal,
           marker' \in BOOLEAN,
           "refused" \notin setup.faults /\ marker' => \A s \in Sides : Deep(s) = {}
    PROVE  CoreInv'
<1>1. /\ pass'.pc = "idle" /\ pass'.todo = {} /\ pass'.entry = {} /\ pass'.target = <<>>
      /\ pass' \in PassRec(setup) /\ pass'.found = [s \in Sides |-> {}]
  BY NoPassFields
<1>2. FilesInv' /\ JournalInv'
  BY FilesStill, JournalStill
<1>3. PassType'
  BY <1>1 DEF PassType
<1>4. TodoType' /\ EntryInv'
  BY <1>1 DEF TodoType, EntryInv
<1>5. FoundInv'
  <2>1. IsFiniteSet({}) /\ Cardinality({}) = 0
    BY FS_EmptySet
  <2>2. Cardinality(setup.links) \in Nat
    BY SetupFacts DEF CoreInv
  <2>3. \A s \in Sides : pass'.found[s] = {}
    BY <1>1
  <2>. QED BY <1>1, <2>1, <2>2, <2>3 DEF FoundInv
<1>6. DeepInv'
  <2>1. \A s : Deep(s)' = Deep(s)
    BY FilesStill
  <2>. QED BY <1>1, <2>1 DEF DeepInv
<1>. QED BY <1>2, <1>3, <1>4, <1>5, <1>6 DEF CoreInv

LEMMA BeginKeeps ==
    ASSUME CoreInv, NEW dry \in BOOLEAN, NEW auto \in BOOLEAN, Begin(dry, auto)
    PROVE  CoreInv'
<1>1. /\ setup' = setup /\ given' = given /\ marker' = marker
      /\ files' = files /\ journal' = journal /\ pass = NoPass
      /\ pass' \in PassRec(setup)
      /\ pass'.pc = "next" /\ pass'.dry = dry /\ pass'.target = <<>> /\ pass'.entry = {}
      /\ pass'.found = [s \in Sides |-> PathSet(Listed(s))]
      /\ pass'.todo = Candidates(pass'.found)
  BY BeginFx
<1>2. FilesInv' /\ JournalInv'
  BY <1>1, FilesStill, JournalStill
<1>3. \A s : Listed(s)' = Listed(s) /\ Deep(s)' = Deep(s) /\ (Exact(s)' <=> Exact(s))
  BY <1>1, FilesStill
<1>4. PassType'
  BY <1>1, PassTypeIntro
<1>5. \A s \in Sides : pass'.found[s] = PathSet(Listed(s))
  BY <1>1
<1>6. \A c : c \in pass'.todo <=>
         \E s \in Sides : \E p \in pass'.found[s] :
            /\ c = [path |-> p, side |-> s]
            /\ BaseOf(setup.matcher, p).depth >= 2 /\ BaseOf(setup.matcher, p).base \in pass'.found[s]
  BY <1>1 DEF Candidates, Depth, Matcher
<1>7. TodoType'
  <2>. SUFFICES ASSUME NEW c \in pass'.todo
                PROVE  /\ c.path \in pass'.found[c.side] /\ BaseOf(setup.matcher, c.path).depth >= 2
                       /\ BaseOf(setup.matcher, c.path).base \in pass'.found[c.side]
    BY <1>1 DEF TodoType
  <2>1. PICK s \in Sides : \E p \in pass'.found[s] :
            /\ c = [path |-> p, side |-> s]
            /\ BaseOf(setup.matcher, p).depth >= 2 /\ BaseOf(setup.matcher, p).base \in pass'.found[s]
    BY <1>6
  <2>2. PICK p \in pass'.found[s] :
            /\ c = [path |-> p, side |-> s]
            /\ BaseOf(setup.matcher, p).depth >= 2 /\ BaseOf(setup.matcher, p).base \in pass'.found[s]
    BY <2>1
  <2>3. c.path = p /\ c.side = s
    BY <2>2
  <2>. QED BY <2>2, <2>3
<1>8. FoundInv'
  <2>1. \A s \in Sides : /\ IsFiniteSet(PathSet(Listed(s)))
                         /\ Cardinality(PathSet(Listed(s))) <= Cardinality(setup.links)
    BY ListedBound DEF CoreInv
  <2>2. \A s \in Sides : PathSet(Listed(s))' = PathSet(Listed(s))
    BY <1>3 DEF PathSet
  <2>. QED BY <1>1, <1>5, <2>1, <2>2 DEF FoundInv
<1>9. EntryInv'
  BY <1>1 DEF EntryInv
<1>10. ASSUME NEW s \in Sides, NEW f \in Deep(s) PROVE [path |-> f.path, side |-> s] \in pass'.todo
  <2>0. f \in Listed(s) /\ f \in files[s]
    BY ListedIn DEF Deep
  <2>1. files[s] \in SUBSET Items(setup) /\ Placed(setup.matcher, f) /\ setup \in Setups
    BY <2>0 DEF CoreInv, FilesInv
  <2>2. f.link \in setup.links
    BY <2>0, <2>1 DEF Items
  <2>3. f.path = NameOf(setup.matcher, f.link) /\ IsNested(f.link) /\ f.link.stem \in Existing(s)
    BY <2>1 DEF Deep, Placed
  <2>4. f.path \in PathSet(Listed(s)) /\ f.link.stem \in PathSet(Listed(s))
    <3>1. FilesInv
      BY DEF CoreInv
    <3>2. f.link.stem \in PathSet(Listed(s))
      BY <2>0, <2>1, <2>3, <3>1, StemListed
    <3>. QED BY <2>0, <3>2 DEF PathSet
  <2>5. BaseOf(setup.matcher, f.path).depth >= 2 /\ BaseOf(setup.matcher, f.path).base \in PathSet(Listed(s))
    BY <2>1, <2>2, <2>3, <2>4, NameFacts DEF IsNested
  <2>. QED BY <1>5, <1>6, <2>4, <2>5
<1>11. DeepInv'
  <2>1. ("refused" \notin setup.faults /\ marker) => \A s \in Sides : Deep(s) = {}
    BY DEF CoreInv, DeepInv
  <2>. QED BY <1>1, <1>3, <1>10, <2>1 DEF DeepInv
<1>. QED BY <1>1, <1>2, <1>4, <1>7, <1>8, <1>9, <1>11 DEF CoreInv

\* The links that are left still have a base in the live set.
LEMMA TodoKeeps ==
    ASSUME CoreInv, NEW c \in pass.todo, setup' = setup, pass'.todo = pass.todo \ {c},
           \A s \in Sides : \/ pass'.found[s] = pass.found[s]
                            \/ s = c.side /\ pass.found[s] \ {c.path} \subseteq pass'.found[s]
    PROVE  TodoType'
<1>. SUFFICES ASSUME NEW d \in pass.todo, d # c
              PROVE  /\ d.path \in pass'.found[d.side] /\ BaseOf(setup.matcher, d.path).depth >= 2
                     /\ BaseOf(setup.matcher, d.path).base \in pass'.found[d.side]
  BY DEF TodoType
<1>1. /\ d.path \in pass.found[d.side] /\ BaseOf(setup.matcher, d.path).depth >= 2
      /\ BaseOf(setup.matcher, d.path).base \in pass.found[d.side]
  BY DEF CoreInv, TodoType
<1>2. c \in Links(setup) /\ d \in Links(setup) /\ d.side \in Sides /\ setup \in Setups
  BY CandidateFacts DEF CoreInv
<1>3. CASE pass'.found[d.side] = pass.found[d.side]
  BY <1>1, <1>3
<1>4. CASE d.side = c.side /\ pass.found[d.side] \ {c.path} \subseteq pass'.found[d.side]
  <2>1. d.path # c.path
    BY <1>2, <1>4, LinksEqual
  <2>2. PICK g \in setup.links : d.path = NameOf(setup.matcher, g)
    BY CandidateFacts
  <2>3. BaseOf(setup.matcher, d.path).base = g.stem /\ BaseOf(setup.matcher, g.stem).depth = 0
    BY <1>2, <2>2, NameFacts
  <2>4. BaseOf(setup.matcher, c.path).depth >= 2
    BY DEF CoreInv, TodoType
  <2>5. g.stem # c.path
    BY <2>3, <2>4
  <2>. QED BY <1>1, <1>4, <2>1, <2>3, <2>5
<1>. QED BY <1>2, <1>3, <1>4

LEMMA SkipKeeps ==
    ASSUME CoreInv, NEW c \in NextUp(pass.todo), Show(c) \/ RenameFails(c)
    PROVE  CoreInv'
<1>1. /\ setup' = setup /\ given' = given /\ marker' = marker /\ journal' = journal
      /\ c \in pass.todo /\ c \in Links(setup) /\ pass.pc = "next"
      /\ pass' \in PassRec(setup)
      /\ pass'.pc = "next" /\ pass'.dry = pass.dry /\ pass'.found = pass.found
      /\ pass'.target = pass.target /\ pass'.entry = pass.entry
      /\ pass'.todo = pass.todo \ {c}
  BY SkipFx
<1>2. JournalInv'
  BY <1>1, JournalStill
<1>3. pass.target = <<>> /\ pass.entry = {}
  BY <1>1 DEF CoreInv, PassType
<1>4. PassType'
  BY <1>1, <1>3, PassTypeIntro
<1>5. TodoType'
  BY <1>1, TodoKeeps
<1>6. EntryInv'
  BY <1>1, <1>3 DEF EntryInv
<1>7. \A s \in Sides : IsFiniteSet(pass'.found[s]) /\ Cardinality(pass'.found[s]) <= Cardinality(setup.links)
  BY <1>1 DEF CoreInv, FoundInv
<1>8. \A s \in Sides : Exact(s) => pass'.found[s] = PathSet(Listed(s))
  BY <1>1 DEF CoreInv, FoundInv
<1>9. CASE files' = files /\ ("refused" \notin setup.faults => pass.dry)
  <2>1. FilesInv' /\ \A s : Listed(s)' = Listed(s) /\ Deep(s)' = Deep(s) /\ (Exact(s)' <=> Exact(s))
    BY <1>1, <1>9, FilesStill
  <2>2. FoundInv'
    <3>1. \A s \in Sides : PathSet(Listed(s))' = PathSet(Listed(s))
      BY <2>1 DEF PathSet
    <3>. QED BY <1>1, <1>7, <1>8, <2>1, <3>1 DEF FoundInv
  <2>3. DeepInv'
    BY <1>1, <1>9, <2>1 DEF CoreInv, DeepInv
  <2>. QED BY <1>1, <1>2, <1>4, <1>5, <1>6, <2>1, <2>2, <2>3 DEF CoreInv
<1>10. CASE "lost" \in setup.faults /\ c.side = "remote" /\ files' = Moved(c, Target(c, pass.found))
  <2>1. /\ FilesInv'
        /\ \A s \in Sides : s # c.side => files'[s] = files[s]
        /\ \A s \in Sides : Deep(s)' \subseteq Deep(s)
        /\ \A f \in Deep(c.side)' : f.path # c.path
    BY <1>1, <1>10, MoveKeeps
  <2>2. FoundInv'
    <3>1. ASSUME NEW s \in Sides, Exact(s)' PROVE pass'.found[s] = PathSet(Listed(s))'
      <4>1. s = "local" /\ s # c.side /\ Exact(s)
        BY <1>1, <1>10, <3>1 DEF Exact
      <4>2. Listed(s)' = Listed(s)
        BY <1>1, <2>1, <4>1 DEF Listed
      <4>. QED BY <1>8, <4>1, <4>2 DEF PathSet
    <3>. QED BY <1>1, <1>7, <3>1 DEF FoundInv
  <2>3. DeepInv'
    <3>1. ASSUME NEW s \in Sides, NEW f \in Deep(s)', [path |-> f.path, side |-> s] \in pass.todo
          PROVE  [path |-> f.path, side |-> s] # c
      <4>1. CASE s = c.side
        BY <2>1, <4>1
      <4>2. CASE s # c.side
        BY <4>2
      <4>. QED BY <4>1, <4>2
    <3>. QED BY <1>1, <2>1, <3>1 DEF CoreInv, DeepInv
  <2>. QED BY <1>1, <1>2, <1>4, <1>5, <1>6, <2>1, <2>2, <2>3 DEF CoreInv
<1>. QED BY <1>9, <1>10 DEF Show, RenameFails, disk, Faults

LEMMA RenameKeeps ==
    ASSUME CoreInv, NEW c \in NextUp(pass.todo), Rename(c)
    PROVE  CoreInv'
<1>. DEFINE t == Target(c, pass.found)
<1>1. c \in pass.todo
  BY DEF NextUp
<1>2. /\ c \in Links(setup) /\ c.side \in Sides /\ c.path \in pass.found[c.side]
      /\ setup \in Setups /\ pass \in PassRec(setup)
  BY <1>1, CandidateFacts DEF CoreInv, PassType
<1>3. PICK g \in setup.links :
        /\ IsNested(g) /\ c.path = NameOf(setup.matcher, g)
        /\ t \in Flat(setup.matcher, g.stem) /\ t \in PathsOf(setup) /\ t \notin pass.found[c.side]
  BY <1>1, CandidateFacts
<1>4. /\ setup' = setup /\ given' = given /\ marker' = marker /\ journal' = journal
      /\ files' = Moved(c, t) /\ pass.pc = "next" /\ ~pass.dry
      /\ pass' \in PassRec(setup)
      /\ pass'.pc = "delete" /\ pass'.dry = pass.dry
      /\ pass'.todo = pass.todo \ {c} /\ pass'.link = c /\ pass'.target = t
      /\ \/ pass'.entry = {e \in journal : e.path = c.path}
         \/ setup.faults # {} /\ pass'.entry = {}
      /\ pass'.found = [pass.found EXCEPT ![c.side] = (pass.found[c.side] \ {c.path}) \union {t}]
  BY <1>3, RenameFx
<1>5. /\ FilesInv'
      /\ \A s \in Sides : s # c.side => files'[s] = files[s]
      /\ files'[c.side] = MovedSet(files[c.side], c.path, t)
      /\ \A s \in Sides : Deep(s)' \subseteq Deep(s)
      /\ \A f \in Deep(c.side)' : f.path # c.path
  BY <1>1, <1>4, MoveKeeps
<1>. HIDE DEF t
<1>6. pass.found \in [Sides -> SUBSET PathsOf(setup)]
  BY <1>2 DEF PassRec
<1>7. /\ pass'.found[c.side] = (pass.found[c.side] \ {c.path}) \union {t}
      /\ \A s \in Sides : s # c.side => pass'.found[s] = pass.found[s]
  BY <1>2, <1>4, <1>6
<1>8. JournalInv'
  BY <1>4, JournalStill
<1>9. PassType'
  BY <1>2, <1>3, <1>4, PassTypeIntro
<1>10. TodoType'
  <2>1. \A s \in Sides : \/ pass'.found[s] = pass.found[s]
                         \/ s = c.side /\ pass.found[s] \ {c.path} \subseteq pass'.found[s]
    BY <1>7
  <2>. QED BY <1>1, <1>4, <2>1, TodoKeeps
<1>11. FoundInv'
  <2>1. ASSUME NEW s \in Sides, Exact(s) PROVE pass'.found[s] = PathSet(Listed(s)')
    <3>1. pass.found[s] = PathSet(Listed(s))
      BY <1>4, <2>1 DEF CoreInv, FoundInv
    <3>2. CASE s # c.side
      <4>1. Listed(s)' = Listed(s)
        BY <1>4, <1>5, <3>2 DEF Listed
      <4>. QED BY <1>7, <3>1, <3>2, <4>1
    <3>3. CASE s = c.side
      <4>. DEFINE L == Listed(s)
                  M == MovedSet(L, c.path, t)
      <4>1. files[s] \in SUBSET Items(setup) /\ files'[s] = MovedSet(files[s], c.path, t)
        BY <1>5, <3>3 DEF CoreInv, FilesInv
      <4>2. Listed(s)' = M
        BY <1>3, <1>4, <4>1, MovedListed
      <4>3. L \in SUBSET Items(setup)
        BY <4>1, ListedIn
      <4>. HIDE DEF L
      <4>4. /\ PathSet(M) \subseteq (PathSet(L) \ {c.path}) \union {t}
            /\ PathSet(L) \ {c.path} \subseteq PathSet(M)
            /\ c.path \in PathSet(L) => t \in PathSet(M)
        BY <1>3, <4>3, MovedPaths
      <4>5. pass.found[s] = PathSet(L)
        BY <3>1 DEF L
      <4>. HIDE DEF M
      <4>. QED BY <1>2, <1>7, <3>3, <4>2, <4>4, <4>5
    <3>. QED BY <3>2, <3>3
  <2>2. ASSUME NEW s \in Sides
        PROVE  IsFiniteSet(pass'.found[s]) /\ Cardinality(pass'.found[s]) <= Cardinality(setup.links)
    <3>1. IsFiniteSet(pass.found[s]) /\ Cardinality(pass.found[s]) <= Cardinality(setup.links)
      BY DEF CoreInv, FoundInv
    <3>2. CASE s # c.side
      BY <1>7, <3>1, <3>2
    <3>3. CASE s = c.side
      <4>. DEFINE S == pass.found[s]
                  T == S \ {c.path}
      <4>1. IsFiniteSet(S) /\ c.path \in S /\ t \notin T
        BY <1>2, <1>3, <3>1, <3>3
      <4>. HIDE DEF S
      <4>2. IsFiniteSet(T) /\ Cardinality(T) = Cardinality(S) - 1
        BY <4>1, FS_RemoveElement
      <4>3. t \notin T
        BY <4>1
      <4>. HIDE DEF T
      <4>4. IsFiniteSet(T \union {t}) /\ Cardinality(T \union {t}) = Cardinality(T) + 1
        BY <4>2, <4>3, FS_AddElement
      <4>5. Cardinality(S) \in Nat
        BY <4>1, FS_CardinalityType
      <4>6. Cardinality(T \union {t}) = Cardinality(S)
        BY <4>2, <4>4, <4>5
      <4>7. pass'.found[s] = T \union {t}
        BY <1>7, <3>3 DEF S, T
      <4>. QED BY <3>1, <4>4, <4>6, <4>7 DEF S
    <3>. QED BY <3>2, <3>3
  <2>3. \A s : Exact(s)' <=> Exact(s)
    BY <1>4 DEF Exact
  <2>4. \A s : PathSet(Listed(s))' = PathSet(Listed(s)')
    BY DEF PathSet
  <2>. QED BY <1>4, <2>1, <2>2, <2>3, <2>4 DEF FoundInv
<1>12. EntryInv'
  <2>1. ASSUME NEW e \in journal, e.path = c.path PROVE e.link = g
    BY <1>2, <1>3, <2>1, FileAt DEF CoreInv, JournalInv
  <2>2. \A e, h \in journal : e.path = h.path => e = h
    BY DEF CoreInv, JournalInv
  <2>. QED BY <1>3, <1>4, <2>1, <2>2 DEF EntryInv
<1>13. DeepInv'
  <2>1. ASSUME NEW s \in Sides, NEW f \in Deep(s)', [path |-> f.path, side |-> s] \in pass.todo
        PROVE  [path |-> f.path, side |-> s] # c
    <3>1. CASE s = c.side
      BY <1>5, <3>1
    <3>2. CASE s # c.side
      BY <3>2
    <3>. QED BY <3>1, <3>2
  <2>. QED BY <1>4, <1>5, <2>1 DEF CoreInv, DeepInv
<1>. QED BY <1>2, <1>4, <1>5, <1>8, <1>9, <1>10, <1>11, <1>12, <1>13 DEF CoreInv

LEMMA DeleteKeeps ==
    ASSUME CoreInv, JournalDelete
    PROVE  CoreInv'
<1>1. /\ setup' = setup /\ given' = given /\ marker' = marker /\ files' = files
      /\ \/ journal' = {e \in journal : e.path # pass.link.path}
         \/ setup.faults # {} /\ journal' = journal
      /\ pass.pc = "delete" /\ pass'.pc = "put" /\ pass' \in PassRec(setup)
      /\ pass'.dry = pass.dry /\ pass'.found = pass.found /\ pass'.todo = pass.todo
      /\ pass'.link = pass.link /\ pass'.target = pass.target /\ pass'.entry = pass.entry
  BY DeleteFx
<1>2. FilesInv' /\ JournalInv'
  <2>1. journal' \subseteq journal
    BY <1>1
  <2>. QED BY <1>1, <2>1, FilesStill, JournalStill
<1>3. \A s : Listed(s)' = Listed(s) /\ Deep(s)' = Deep(s) /\ (Exact(s)' <=> Exact(s))
  BY <1>1, FilesStill
<1>4. /\ pass.link \in Links(setup) /\ ~pass.dry
      /\ \E g \in setup.links : pass.target \in Flat(setup.matcher, g.stem)
  BY <1>1 DEF CoreInv, PassType
<1>5. PassType'
  BY <1>1, <1>4, PassTypeIntro
<1>6. TodoType' /\ EntryInv'
  BY <1>1 DEF CoreInv, TodoType, EntryInv
<1>7. FoundInv'
  BY <1>1, <1>3 DEF CoreInv, FoundInv, PathSet
<1>8. DeepInv'
  BY <1>1, <1>3 DEF CoreInv, DeepInv
<1>. QED BY <1>1, <1>2, <1>5, <1>6, <1>7, <1>8 DEF CoreInv

LEMMA PutKeeps ==
    ASSUME CoreInv, JournalPut \/ JournalPutFails
    PROVE  CoreInv'
<1>1. /\ setup' = setup /\ given' = given /\ marker' = marker /\ files' = files
      /\ pass.pc = "put" /\ pass'.pc = "next" /\ pass' \in PassRec(setup)
      /\ pass'.dry = pass.dry /\ pass'.found = pass.found /\ pass'.todo = pass.todo
      /\ pass'.target = <<>> /\ pass'.entry = {}
      /\ \/ journal' = journal /\ (setup.faults # {} \/ pass.entry = {})
         \/ /\ pass.entry # {}
            /\ journal' = {e \in journal : e.path # pass.target}
                            \union {Renamed(e, pass.target) : e \in pass.entry}
  BY PutFx
<1>2. FilesInv'
  BY <1>1, FilesStill
<1>3. \A s : Listed(s)' = Listed(s) /\ Deep(s)' = Deep(s) /\ (Exact(s)' <=> Exact(s))
  BY <1>1, FilesStill
<1>4. JournalInv'
  <2>. DEFINE kept == {e \in journal : e.path # pass.target}
  <2>1. CASE journal' = journal
    BY <1>1, <2>1, JournalStill
  <2>2. CASE journal' = kept \union {Renamed(e, pass.target) : e \in pass.entry}
    <3>1. /\ journal \in SUBSET Items(setup) /\ \A e \in journal : Placed(setup.matcher, e)
          /\ \A e, h \in journal : e.path = h.path => e = h
      BY DEF CoreInv, JournalInv
    <3>2. pass.entry \in SUBSET Items(setup) /\ setup \in Setups
      BY DEF CoreInv, PassType, PassRec
    <3>3. ASSUME NEW e \in pass.entry
          PROVE  /\ Renamed(e, pass.target) \in Items(setup) /\ Renamed(e, pass.target).path = pass.target
                 /\ Placed(setup.matcher, Renamed(e, pass.target))
      <4>1. e.link \in setup.links
        BY <3>2 DEF Items
      <4>2. IsNested(e.link) /\ pass.target \in Flat(setup.matcher, e.link.stem)
        BY DEF CoreInv, EntryInv
      <4>3. pass.target \in PathsOf(setup)
        BY <3>2, <4>1, <4>2, FlatFacts
      <4>4. /\ Renamed(e, pass.target) \in Items(setup)
            /\ Renamed(e, pass.target).path = pass.target /\ Renamed(e, pass.target).link = e.link
        BY <3>2, <4>3, RenamedFields
      <4>. QED BY <4>2, <4>4 DEF Placed
    <3>4. \A e, h \in pass.entry : e = h
      BY DEF CoreInv, EntryInv
    <3>5. ASSUME NEW e \in journal' PROVE e \in Items(setup) /\ Placed(setup.matcher, e)
      BY <2>2, <3>1, <3>3
    <3>6. ASSUME NEW e \in journal', NEW h \in journal', e.path = h.path PROVE e = h
      <4>1. CASE e.path = pass.target
        <5>1. PICK e1 \in pass.entry : e = Renamed(e1, pass.target)
          BY <2>2, <4>1
        <5>2. PICK h1 \in pass.entry : h = Renamed(h1, pass.target)
          BY <2>2, <3>6, <4>1
        <5>. QED BY <3>4, <5>1, <5>2
      <4>2. CASE e.path # pass.target
        <5>1. e \in kept /\ h \in kept
          BY <2>2, <3>3, <3>6, <4>2
        <5>. QED BY <3>1, <3>6, <5>1
      <4>. QED BY <4>1, <4>2
    <3>. QED BY <1>1, <3>5, <3>6 DEF JournalInv
  <2>. QED BY <1>1, <2>1, <2>2
<1>5. PassType'
  BY <1>1, PassTypeIntro
<1>6. TodoType' /\ EntryInv'
  BY <1>1 DEF CoreInv, TodoType, EntryInv
<1>7. FoundInv'
  BY <1>1, <1>3 DEF CoreInv, FoundInv, PathSet
<1>8. DeepInv'
  BY <1>1, <1>3 DEF CoreInv, DeepInv
<1>. QED BY <1>1, <1>2, <1>4, <1>5, <1>6, <1>7, <1>8 DEF CoreInv

LEMMA EndKeeps ==
    ASSUME CoreInv, Finish \/ Crash
    PROVE  CoreInv'
<1>1. pass' = NoPass /\ setup' = setup /\ given' = given /\ files' = files /\ journal' = journal
  BY DEF Finish, Crash, disk, still
<1>2. marker' \in BOOLEAN
  BY DEF CoreInv, Finish, Crash, disk, PassType, PassRec
<1>3. ASSUME "refused" \notin setup.faults, marker', NEW s \in Sides PROVE Deep(s) = {}
  <2>1. CASE marker
    BY <1>3, <2>1 DEF CoreInv, DeepInv
  <2>2. CASE ~marker
    <3>1. pass.pc = "next" /\ pass.todo = {} /\ ~pass.dry
      BY <1>3, <2>2 DEF CoreInv, PassType, PassRec, Finish, Crash, disk
    <3>2. \A f \in Deep(s) : [path |-> f.path, side |-> s] \in pass.todo
      BY <1>3, <3>1 DEF CoreInv, DeepInv
    <3>. QED BY <3>1, <3>2
  <2>. QED BY <2>1, <2>2 DEF CoreInv
<1>. QED BY <1>1, <1>2, <1>3, IdleKeeps

LEMMA StutterKeeps ==
    ASSUME CoreInv, UNCHANGED vars
    PROVE  CoreInv'
<1>1. /\ setup' = setup /\ given' = given /\ files' = files /\ journal' = journal
      /\ marker' = marker /\ pass' = pass
  BY DEF vars, disk, still
<1>2. FilesInv' /\ JournalInv'
  BY <1>1, FilesStill, JournalStill
<1>3. \A s : Listed(s)' = Listed(s) /\ Deep(s)' = Deep(s) /\ (Exact(s)' <=> Exact(s))
  BY <1>1, FilesStill
<1>4. PassType'
  BY <1>1 DEF CoreInv, PassType
<1>5. TodoType' /\ EntryInv'
  BY <1>1 DEF CoreInv, TodoType, EntryInv
<1>6. FoundInv'
  BY <1>1, <1>3 DEF CoreInv, FoundInv, PathSet
<1>7. DeepInv'
  BY <1>1, <1>3 DEF CoreInv, DeepInv
<1>. QED BY <1>1, <1>2, <1>4, <1>5, <1>6, <1>7 DEF CoreInv

\* To begin with every file has the name of its link.
LEMMA StartFacts ==
    ASSUME NEW S \in SUBSET setup.links, NEW at \in Starts(S)
    PROVE  at.local \in SUBSET setup.links /\ at.remote \in SUBSET setup.links
<1>. DEFINE plain == {g \in setup.links : g.chain = <<>>}
<1>1. \/ at \in [local : {S}, remote : {{}}, layout : {"local"}]
      \/ at \in [local : {{}}, remote : {S}, layout : {"remote"}]
      \/ at \in [local : {S}, remote : {S}, layout : {"mirrored"}]
      \/ \E T \in SUBSET S :
            at = [local |-> T \union plain, remote |-> (S \ T) \union plain, layout |-> "apart"]
  BY DEF Starts
<1>2. plain \in SUBSET setup.links
  OBVIOUS
<1>. HIDE DEF plain
<1>3. CASE at \in [local : {S}, remote : {{}}, layout : {"local"}]
  BY <1>3
<1>4. CASE at \in [local : {{}}, remote : {S}, layout : {"remote"}]
  BY <1>4
<1>5. CASE at \in [local : {S}, remote : {S}, layout : {"mirrored"}]
  BY <1>5
<1>6. CASE \E T \in SUBSET S :
            at = [local |-> T \union plain, remote |-> (S \ T) \union plain, layout |-> "apart"]
  BY <1>2, <1>6
<1>. QED BY <1>1, <1>3, <1>4, <1>5, <1>6

LEMMA InitCore == Init => CoreInv
<1>. SUFFICES ASSUME Init PROVE CoreInv
  OBVIOUS
<1>1. /\ setup \in Setups /\ marker = FALSE /\ pass = NoPass
      /\ given = [files |-> files, journal |-> journal]
  BY DEF Init
<1>2. PICK S \in SUBSET setup.links : \E at \in Starts(S) :
        /\ files = [s \in Sides |->
              {At(Name(g), IF g \in at.local THEN "local" ELSE s, g) : g \in at[s]}]
        /\ journal = {At(Name(g), IF g \in at.local THEN "local" ELSE "remote", g)
                         : g \in at.local \union at.remote}
  BY DEF Init
<1>3. PICK at \in Starts(S) :
        /\ files = [s \in Sides |->
              {At(Name(g), IF g \in at.local THEN "local" ELSE s, g) : g \in at[s]}]
        /\ journal = {At(Name(g), IF g \in at.local THEN "local" ELSE "remote", g)
                         : g \in at.local \union at.remote}
  BY <1>2
<1>4. at.local \in SUBSET setup.links /\ at.remote \in SUBSET setup.links
  BY StartFacts
<1>5. \A s \in Sides : at[s] \in SUBSET setup.links
  BY <1>4 DEF Sides
<1>6. ASSUME NEW g \in setup.links, NEW s \in Sides
      PROVE  /\ At(Name(g), s, g) \in Items(setup) /\ Placed(setup.matcher, At(Name(g), s, g))
             /\ At(Name(g), s, g).path = NameOf(setup.matcher, g) /\ At(Name(g), s, g).link = g
  <2>1. Name(g) \in PathsOf(setup) /\ Name(g) = NameOf(setup.matcher, g)
    BY <1>1, NameFacts DEF Name, Matcher
  <2>. QED BY <2>1 DEF At, Items, Placed
<1>7. "local" \in Sides /\ "remote" \in Sides
  BY DEF Sides
<1>8. FilesInv
  <2>1. ASSUME NEW s \in Sides
        PROVE  /\ files[s] \in SUBSET Items(setup) /\ \A f \in files[s] : Placed(setup.matcher, f)
               /\ \A f, h \in files[s] : f.link = h.link => f = h
    <3>. DEFINE A(g) == IF g \in at.local THEN "local" ELSE s
    <3>1. files[s] = {At(Name(g), A(g), g) : g \in at[s]}
      BY <1>3
    <3>2. \A g : A(g) \in Sides
      BY <1>7
    <3>. HIDE DEF A
    <3>3. \A f \in files[s] : \E g \in setup.links : f = At(Name(g), A(g), g)
      BY <1>5, <3>1
    <3>. QED BY <1>6, <3>2, <3>3
  <2>2. files \in [Sides -> SUBSET Items(setup)]
    <3>1. files = [s \in Sides |-> files[s]]
      BY <1>3
    <3>. QED BY <2>1, <3>1
  <2>3. \A s \in Sides : Contents(files[s]) = Contents(given.files[s])
    BY <1>1
  <2>. QED BY <2>1, <2>2, <2>3 DEF FilesInv
<1>9. JournalInv
  <2>. DEFINE A(g) == IF g \in at.local THEN "local" ELSE "remote"
  <2>1. journal = {At(Name(g), A(g), g) : g \in at.local \union at.remote}
    BY <1>3
  <2>2. \A g : A(g) \in Sides
    BY <1>7
  <2>. HIDE DEF A
  <2>3. \A e \in journal : \E g \in setup.links : e = At(Name(g), A(g), g)
    BY <1>4, <2>1
  <2>4. ASSUME NEW e \in journal, NEW h \in journal, e.path = h.path PROVE e = h
    <3>1. PICK g \in setup.links : e = At(Name(g), A(g), g)
      BY <2>3
    <3>2. PICK k \in setup.links : h = At(Name(k), A(k), k)
      BY <2>3
    <3>3. NameOf(setup.matcher, g) = NameOf(setup.matcher, k)
      BY <1>6, <2>2, <2>4, <3>1, <3>2
    <3>4. IsMatcher(setup.matcher) /\ IsLink(setup.matcher, g) /\ IsLink(setup.matcher, k)
      BY <1>1, SetupFacts
    <3>5. g = k
      BY <3>3, <3>4, NameInjective
    <3>. QED BY <3>1, <3>2, <3>5
  <2>5. \A e \in journal : e \in Items(setup) /\ Placed(setup.matcher, e)
    BY <1>6, <2>2, <2>3
  <2>. QED BY <2>4, <2>5 DEF JournalInv
<1>10. PassType
  BY <1>1, NoPassFields DEF PassType
<1>11. TodoType /\ EntryInv
  BY <1>1, NoPassFields DEF TodoType, EntryInv
<1>12. FoundInv
  <2>1. IsFiniteSet({}) /\ Cardinality({}) = 0
    BY FS_EmptySet
  <2>2. Cardinality(setup.links) \in Nat
    BY <1>1, SetupFacts
  <2>3. \A s \in Sides : pass.found[s] = {}
    BY <1>1, NoPassFields
  <2>. QED BY <1>1, <2>1, <2>2, <2>3, NoPassFields DEF FoundInv
<1>13. DeepInv
  BY <1>1, NoPassFields DEF DeepInv
<1>. QED BY <1>1, <1>8, <1>9, <1>10, <1>11, <1>12, <1>13 DEF CoreInv

\* The invariant holds in every state.
THEOREM Core == Spec => []CoreInv
<1>1. ASSUME CoreInv, [Next]_vars PROVE CoreInv'
  <2>1. CASE UNCHANGED vars
    BY <1>1, <2>1, StutterKeeps
  <2>2. CASE \E dry \in BOOLEAN, auto \in BOOLEAN : Begin(dry, auto)
    BY <1>1, <2>2, BeginKeeps
  <2>3. CASE \E c \in NextUp(pass.todo) : Show(c) \/ Rename(c) \/ RenameFails(c)
    BY <1>1, <2>3, SkipKeeps, RenameKeeps
  <2>4. CASE JournalDelete
    BY <1>1, <2>4, DeleteKeeps
  <2>5. CASE JournalPut \/ JournalPutFails
    BY <1>1, <2>5, PutKeeps
  <2>6. CASE Finish \/ Crash
    BY <1>1, <2>6, EndKeeps
  <2>. QED BY <1>1, <2>1, <2>2, <2>3, <2>4, <2>5, <2>6 DEF Next
<1>. QED BY <1>1, InitCore, PTL DEF Spec

----------------------------------------------------------------------------
(* What follows from it.                                                   *)

LEMMA PathsIs ==
    /\ \A g \in setup.links : Flat(setup.matcher, g.stem) \subseteq Numbered
    /\ PathsOf(setup) \subseteq Paths
<1>1. \A g \in setup.links : Flat(setup.matcher, g.stem) \subseteq Numbered
  BY DEF Flat, Numbered, Stems, Matcher
<1>2. \A g \in setup.links : NameOf(setup.matcher, g) \in Paths
  BY DEF Paths, Name, Matcher
<1>3. Numbered \subseteq Paths
  BY DEF Paths
<1>. QED BY <1>1, <1>2, <1>3 DEF PathsOf

LEMMA TypeOKFollows == CoreInv => TypeOK
<1>. SUFFICES ASSUME CoreInv PROVE TypeOK
  OBVIOUS
<1>1. setup \in Setups /\ marker \in BOOLEAN /\ pass \in PassRec(setup)
  BY DEF CoreInv, PassType
<1>2. ASSUME NEW f \in Items(setup) PROVE f.path \in Paths /\ f.link \in setup.links
  BY PathsIs DEF Items
<1>3. journal \in SUBSET Items(setup) /\ \A s \in Sides : files[s] \in SUBSET Items(setup)
  BY DEF CoreInv, FilesInv, JournalInv
<1>4. \A f \in journal \union UNION {files[s] : s \in Sides} : f.path \in Paths /\ f.link \in setup.links
  BY <1>2, <1>3
<1>5. pass.pc \in {"idle", "next", "delete", "put"} /\ pass.dry \in BOOLEAN
  BY <1>1 DEF PassRec
<1>6. \A s \in Sides : pass.found[s] \subseteq Paths
  BY <1>1, PathsIs DEF PassRec
<1>7. pass.target \in Numbered \union {<<>>}
  <2>1. pass.pc \in {"idle", "next"} => pass.target = <<>>
    BY DEF CoreInv, PassType
  <2>2. pass.pc \in {"delete", "put"} => \E g \in setup.links : pass.target \in Flat(setup.matcher, g.stem)
    BY DEF CoreInv, PassType
  <2>. QED BY <1>5, <2>1, <2>2, PathsIs
<1>8. Cardinality(pass.entry) <= 1
  <2>1. \A e, h \in pass.entry : e = h
    BY DEF CoreInv, EntryInv
  <2>2. CASE pass.entry = {}
    <3>1. Cardinality({}) = 0
      BY FS_EmptySet
    <3>. QED BY <2>2, <3>1
  <2>3. CASE pass.entry # {}
    <3>1. PICK e : pass.entry = {e}
      BY <2>1, <2>3
    <3>2. Cardinality({e}) = 1
      BY FS_Singleton
    <3>. QED BY <3>1, <3>2
  <2>. QED BY <2>2, <2>3
<1>. QED BY <1>1, <1>4, <1>5, <1>6, <1>7, <1>8 DEF TypeOK

\* The types of the variables, for every format and every set of links: each
\* path that a repair gives has one suffix, with a number of the probe.
THEOREM TypeCorrect == Spec => []TypeOK
  BY Core, TypeOKFollows, PTL

LEMMA SurvivesFollows == CoreInv => Survives
<1>. SUFFICES ASSUME CoreInv, NEW s \in Sides
              PROVE  /\ Contents(files[s]) = Contents(given.files[s])
                     /\ \A f \in files[s] : Len(f.link.chain) < 2 => f.path = Name(f.link)
  BY DEF Survives
<1>1. Contents(files[s]) = Contents(given.files[s]) /\ \A f \in files[s] : Placed(setup.matcher, f)
  BY DEF CoreInv, FilesInv
<1>2. ASSUME NEW f \in files[s], Len(f.link.chain) < 2 PROVE f.path = Name(f.link)
  <2>1. f.link \in setup.links /\ setup \in Setups
    BY DEF CoreInv, FilesInv, Items
  <2>2. Len(f.link.chain) \in Nat
    BY <2>1, NameFacts
  <2>3. ~IsNested(f.link)
    BY <1>2, <2>2 DEF IsNested
  <2>. QED BY <1>1, <2>3 DEF Placed, Name, Matcher
<1>. QED BY <1>1, <1>2

\* No content is lost or leaves its side, and what is no nested link stays
\* where it is, whatever fails and wherever the process ends.
THEOREM ContentSurvives == Spec => []Survives
  BY Core, SurvivesFollows, PTL

LEMMA DoneFlatFollows == CoreInv => DoneFlat
<1>. SUFFICES ASSUME CoreInv, marker, pass = NoPass, "refused" \notin Faults,
                     NEW s \in Sides, NEW f \in Listed(s),
                     f.link.stem \in Existing(s), Len(f.link.chain) >= 2
              PROVE  \E n \in 1..MaxProbe : f.path = Format(Matcher, f.link.stem, n)
  BY DEF DoneFlat
<1>1. Deep(s) = {}
  BY DEF CoreInv, DeepInv, Faults
<1>2. f.path \in Flat(setup.matcher, f.link.stem)
  BY <1>1 DEF Deep, IsNested
<1>. QED BY <1>2 DEF Flat, Matcher

\* The marker is only set when no nested link with its file is left on the local
\* disk or in the root of Drive, lost answers, store errors and crashes included.
THEOREM MarkerMeansFlat == Spec => []DoneFlat
  BY Core, DoneFlatFollows, PTL

----------------------------------------------------------------------------
(* The order of the links is total.                                        *)

Precedes(m, p, q) ==
    \/ BaseOf(m, p).depth > BaseOf(m, q).depth
    \/ /\ BaseOf(m, p).depth = BaseOf(m, q).depth
       /\ \/ IsStrictPrefix(p, q)
          \/ \E i \in DOMAIN p \intersect DOMAIN q :
                p[i] < q[i] /\ \A j \in 1..(i - 1) : p[j] = q[j]

LEMMA BeforeIs == \A p, q : Before(p, q) <=> Precedes(setup.matcher, p, q)
  BY DEF Before, Precedes, Depth, Matcher

\* A name that agrees with a longer one, as far as it goes, is its prefix.
LEMMA AgreeingPrefix ==
    ASSUME NEW p \in Seq(Int), NEW q \in Seq(Int), p # q, Len(p) <= Len(q),
           \A i \in 1..Len(p) : p[i] = q[i]
    PROVE  IsStrictPrefix(p, q)
<1>. DEFINE N == Len(p)
            a == SubSeq(p, 1, N)
            b == SubSeq(q, 1, N)
<1>1. N \in Nat /\ 1 <= N + 1 /\ N <= Len(p) /\ N <= Len(q) /\ 1 \in Nat \ {0} /\ N - 1 + 1 = N
  OBVIOUS
<1>2. /\ a \in Seq(Int) /\ Len(a) = N - 1 + 1
      /\ \A k \in 1..(N - 1 + 1) : a[k] = p[1 + k - 1]
  BY <1>1, SubSeqPlaces
<1>3. /\ b \in Seq(Int) /\ Len(b) = N - 1 + 1
      /\ \A k \in 1..(N - 1 + 1) : b[k] = q[1 + k - 1]
  BY <1>1, SubSeqPlaces
<1>. HIDE DEF a, b
<1>4. ASSUME NEW k \in 1..N PROVE a[k] = b[k]
  <2>1. 1 + k - 1 = k
    BY <1>1
  <2>. QED BY <1>1, <1>2, <1>3, <2>1
<1>5. a = b
  <2>1. Len(a) = Len(b) /\ Len(a) = N
    BY <1>1, <1>2, <1>3
  <2>2. \A k \in 1..Len(a) : a[k] = b[k]
    BY <1>4, <2>1
  <2>. QED BY <1>2, <1>3, <2>1, <2>2, SeqEqual
<1>. QED BY <1>5 DEF IsStrictPrefix, IsPrefix, a, b

LEMMA PrecedesTotal ==
    ASSUME NEW m, NEW p \in Seq(Int), NEW q \in Seq(Int), p # q,
           BaseOf(m, p).depth \in Nat, BaseOf(m, q).depth \in Nat, ~Precedes(m, q, p)
    PROVE  Precedes(m, p, q)
<1>. DEFINE P == BaseOf(m, p).depth
            Q == BaseOf(m, q).depth
<1>1. CASE P # Q
  <2>1. P > Q \/ Q > P
    BY <1>1
  <2>. QED BY <2>1 DEF Precedes
<1>2. CASE P = Q
  <2>. DEFINE D == {i \in Nat : i \in 1..Len(p) /\ i \in 1..Len(q) /\ p[i] # q[i]}
  <2>1. CASE D = {}
    <3>1. CASE Len(p) <= Len(q)
      <4>1. ASSUME NEW i \in 1..Len(p) PROVE p[i] = q[i]
        <5>1. i \in Nat /\ i \in 1..Len(p) /\ i \in 1..Len(q)
          BY <3>1
        <5>. QED BY <2>1, <5>1
      <4>2. IsStrictPrefix(p, q)
        BY <3>1, <4>1, AgreeingPrefix
      <4>. QED BY <1>2, <4>2 DEF Precedes
    <3>2. CASE Len(q) <= Len(p)
      <4>1. ASSUME NEW i \in 1..Len(q) PROVE q[i] = p[i]
        <5>1. i \in Nat /\ i \in 1..Len(p) /\ i \in 1..Len(q)
          BY <3>2
        <5>. QED BY <2>1, <5>1
      <4>2. IsStrictPrefix(q, p)
        BY <3>2, <4>1, AgreeingPrefix
      <4>. QED BY <1>2, <4>2 DEF Precedes
    <3>. QED BY <3>1, <3>2
  <2>2. CASE D # {}
    <3>1. D \subseteq Nat
      OBVIOUS
    <3>2. PICK i \in D : \A y \in D : i <= y
      <4>. HIDE DEF D
      <4>. QED BY <2>2, <3>1, Least
    <3>3. i \in Nat /\ i \in 1..Len(p) /\ i \in 1..Len(q) /\ p[i] # q[i]
      BY <3>2
    <3>4. ASSUME NEW j \in 1..(i - 1) PROVE p[j] = q[j]
      <4>1. j \in Nat /\ j \in 1..Len(p) /\ j \in 1..Len(q) /\ ~(i <= j)
        BY <3>3
      <4>. QED BY <3>2, <4>1
    <3>5. p[i] \in Int /\ q[i] \in Int
      BY <3>3, ElementOfSeq
    <3>6. p[i] < q[i] \/ q[i] < p[i]
      BY <3>3, <3>5
    <3>7. i \in DOMAIN p \intersect DOMAIN q /\ i \in DOMAIN q \intersect DOMAIN p
      BY <3>3
    <3>8. \A j \in 1..(i - 1) : q[j] = p[j]
      BY <3>4
    <3>. QED BY <1>2, <3>4, <3>6, <3>7, <3>8 DEF Precedes
  <2>. QED BY <2>1, <2>2
<1>. QED BY <1>1, <1>2

\* The link that is up comes before every other path that is left.
LEMMA NextUpFirst ==
    ASSUME CoreInv, NEW c \in NextUp(pass.todo), NEW d \in pass.todo
    PROVE  d.path = c.path \/ Precedes(setup.matcher, c.path, d.path)
<1>1. c \in pass.todo /\ ~Precedes(setup.matcher, d.path, c.path) /\ setup \in Setups
  BY BeforeIs DEF NextUp, CoreInv
<1>2. PICK g \in setup.links : c.path = NameOf(setup.matcher, g)
  BY <1>1, CandidateFacts
<1>3. PICK h \in setup.links : d.path = NameOf(setup.matcher, h)
  BY CandidateFacts
<1>4. c.path \in Seq(Int) /\ BaseOf(setup.matcher, c.path).depth \in Nat
  BY <1>1, <1>2, NameFacts
<1>5. d.path \in Seq(Int) /\ BaseOf(setup.matcher, d.path).depth \in Nat
  BY <1>1, <1>3, NameFacts
<1>. QED BY <1>1, <1>4, <1>5, PrecedesTotal

----------------------------------------------------------------------------
(* The journal follows.                                                    *)

\* The target only depends on the path and on the names of its side.
TargetOf(m, p, names) ==
    Format(m, BaseOf(m, p).base, NextOldN(m, BaseOf(m, p).base, names).n)

LEMMA TargetIs ==
    \A c, found : Target(c, found) = TargetOf(setup.matcher, c.path, found[c.side])
  BY DEF Target, TargetOf, Matcher

Plainly == setup.faults = {} /\ "apart" \notin setup.layouts /\ setup.folders = {}
Other(a) == IF a = "local" THEN "remote" ELSE "local"

\* Between two links, the files of a side and the entries are the same.
Balanced == \A s \in Sides : files[s] = {} \/ files[s] = journal
Both == \A s \in Sides : files[s] # {}

\* Each path is to be renamed on both sides.
Sym(T) == \A c \in T : \A s \in Sides : [path |-> c.path, side |-> s] \in T

\* The path p is first, and is only left on the side b.
HalfTodo(m, T, p, b) ==
    /\ [path |-> p, side |-> b] \in T
    /\ Sym({c \in T : c.path # p})
    /\ \A c \in T : c.path = p => c.side = b
    /\ \A c \in T : c.path = p \/ Precedes(m, p, c.path)

\* No entry is on its way.
Settled ==
    /\ Balanced /\ pass.entry = {} /\ (Both => Sym(pass.todo))
    /\ pass.pc = "delete" => \A e \in journal : e.path # pass.link.path

\* One side has been renamed, with the entry, and the other one follows.
HalfAt(a, p) ==
    /\ HalfTodo(setup.matcher, pass.todo, p, Other(a))
    /\ files[Other(a)] # {} /\ files[a] = journal
    /\ files[a] = MovedSet(files[Other(a)], p, TargetOf(setup.matcher, p, pass.found[Other(a)]))
Half == pass.pc = "next" /\ \E a \in Sides, p \in PathsOf(setup) : HalfAt(a, p)

\* The entry is on its way.
Old == journal \union pass.entry
FirstAt(a, p) ==
    /\ files[a] = MovedSet(Old, p, pass.target)
    /\ pass.entry = {e \in Old : e.path = p}
    /\ \A e \in Old : e.path # pass.target
    /\ pass.pc = "put" => \A e \in journal : e.path # p
    /\ files[Other(a)] # {} =>
         /\ files[Other(a)] = Old
         /\ HalfTodo(setup.matcher, pass.todo, p, Other(a))
         /\ pass.target = TargetOf(setup.matcher, p, pass.found[Other(a)])
First == pass.pc \in {"delete", "put"} /\ FirstAt(pass.link.side, pass.link.path)

CarryInv ==
    Plainly => IF pass.dry \/ pass.pc = "idle" THEN Balanced ELSE Settled \/ Half \/ First

LEMMA OtherSide ==
    \A a \in Sides : /\ Other(a) \in Sides /\ Other(a) # a /\ Other(Other(a)) = a
                     /\ \A s \in Sides : s = a \/ s = Other(a)
  BY DEF Sides, Other

\* A set of items that has no path p is left alone by a rename of p, and a
\* renamed set has no path p.
LEMMA MovedAway ==
    ASSUME NEW z, NEW S \in SUBSET Items(z), NEW p, NEW t \in PathsOf(z), t # p
    PROVE  \A h \in MovedSet(S, p, t) : h.path # p
<1>. SUFFICES ASSUME NEW h \in MovedSet(S, p, t) PROVE h.path # p
  OBVIOUS
<1>1. h.path \in PathSet(MovedSet(S, p, t))
  BY DEF PathSet
<1>2. PathSet(MovedSet(S, p, t)) \subseteq (PathSet(S) \ {p}) \union {t}
  BY MovedPaths
<1>. QED BY <1>1, <1>2

LEMMA InitCarry == Init => CarryInv
<1>. SUFFICES ASSUME Init, Plainly PROVE Balanced
  <2>1. Init => pass.pc = "idle"
    BY NoPassFields DEF Init
  <2>. QED BY <2>1 DEF CarryInv
<1>1. PICK S \in SUBSET setup.links : \E at \in Starts(S) :
        /\ at.layout \in setup.layouts
        /\ files = [s \in Sides |->
              {At(Name(g), IF g \in at.local THEN "local" ELSE s, g) : g \in at[s]}]
        /\ journal = {At(Name(g), IF g \in at.local THEN "local" ELSE "remote", g)
                         : g \in at.local \union at.remote}
  BY DEF Init
<1>2. PICK at \in Starts(S) :
        /\ at.layout \in setup.layouts
        /\ files = [s \in Sides |->
              {At(Name(g), IF g \in at.local THEN "local" ELSE s, g) : g \in at[s]}]
        /\ journal = {At(Name(g), IF g \in at.local THEN "local" ELSE "remote", g)
                         : g \in at.local \union at.remote}
  BY <1>1
<1>. DEFINE plain == {g \in setup.links : g.chain = <<>>}
<1>3. \/ at \in [local : {S}, remote : {{}}, layout : {"local"}]
      \/ at \in [local : {{}}, remote : {S}, layout : {"remote"}]
      \/ at \in [local : {S}, remote : {S}, layout : {"mirrored"}]
      \/ \E T \in SUBSET S :
            at = [local |-> T \union plain, remote |-> (S \ T) \union plain, layout |-> "apart"]
  BY DEF Starts
<1>4. at.layout # "apart"
  BY <1>2 DEF Plainly
<1>5. \/ at.local = S /\ at.remote = {}
      \/ at.local = {} /\ at.remote = S
      \/ at.local = S /\ at.remote = S
  <2>1. CASE at \in [local : {S}, remote : {{}}, layout : {"local"}]
    BY <2>1
  <2>2. CASE at \in [local : {{}}, remote : {S}, layout : {"remote"}]
    BY <2>2
  <2>3. CASE at \in [local : {S}, remote : {S}, layout : {"mirrored"}]
    BY <2>3
  <2>4. ASSUME NEW T, at = [local |-> T \union plain, remote |-> (S \ T) \union plain, layout |-> "apart"]
        PROVE  at.layout = "apart"
    BY <2>4
  <2>. QED BY <1>3, <1>4, <2>1, <2>2, <2>3, <2>4
<1>6. "local" \in Sides /\ "remote" \in Sides /\ \A s \in Sides : s = "local" \/ s = "remote"
  BY DEF Sides
<1>. DEFINE A(g) == IF g \in at.local THEN "local" ELSE "remote"
            B(g) == IF g \in at.local THEN "local" ELSE "local"
<1>7. /\ files["local"] = {At(Name(g), B(g), g) : g \in at.local}
      /\ files["remote"] = {At(Name(g), A(g), g) : g \in at.remote}
      /\ journal = {At(Name(g), A(g), g) : g \in at.local \union at.remote}
  BY <1>2, <1>6
<1>8. \A g \in at.local : A(g) = "local" /\ B(g) = "local"
  OBVIOUS
<1>. HIDE DEF A, B
<1>9. files["local"] = {At(Name(g), A(g), g) : g \in at.local}
  BY <1>7, <1>8
<1>10. CASE at.local = S /\ at.remote = {}
  <2>1. at.local \union at.remote = at.local
    BY <1>10
  <2>2. files["local"] = journal /\ files["remote"] = {}
    BY <1>7, <1>9, <1>10, <2>1
  <2>. QED BY <1>6, <2>2 DEF Balanced
<1>11. CASE at.local = {} /\ at.remote = S
  <2>1. at.local \union at.remote = at.remote
    BY <1>11
  <2>2. files["remote"] = journal /\ files["local"] = {}
    BY <1>7, <1>9, <1>11, <2>1
  <2>. QED BY <1>6, <2>2 DEF Balanced
<1>12. CASE at.local = S /\ at.remote = S
  <2>1. at.local \union at.remote = at.local /\ at.local = at.remote
    BY <1>12
  <2>2. files["remote"] = journal /\ files["local"] = journal
    BY <1>7, <1>9, <2>1
  <2>. QED BY <1>6, <2>2 DEF Balanced
<1>. QED BY <1>5, <1>10, <1>11, <1>12

LEMMA AllListed == Plainly => \A s : Listed(s) = files[s]
  BY DEF Plainly, Listed

LEMMA CarryBegin ==
    ASSUME CoreInv, CarryInv, Plainly, NEW dry \in BOOLEAN, NEW auto \in BOOLEAN, Begin(dry, auto)
    PROVE  CarryInv'
<1>1. /\ setup' = setup /\ files' = files /\ journal' = journal /\ pass = NoPass
      /\ pass'.pc = "next" /\ pass'.dry = dry /\ pass'.entry = {}
      /\ pass'.found = [s \in Sides |-> PathSet(Listed(s))]
      /\ pass'.todo = Candidates(pass'.found)
  BY BeginFx
<1>2. Balanced
  BY <1>1, NoPassFields DEF CarryInv
<1>3. Balanced'
  BY <1>1, <1>2 DEF Balanced
<1>4. ASSUME Both PROVE Sym(pass'.todo)
  <2>1. \A s \in Sides : files[s] = journal
    BY <1>2, <1>4 DEF Both, Balanced
  <2>2. \A s \in Sides : pass'.found[s] = PathSet(journal)
    BY <1>1, <2>1, AllListed
  <2>. DEFINE C(p) == p \in PathSet(journal) /\ Depth(p) >= 2 /\ BaseOf(Matcher, p).base \in PathSet(journal)
  <2>3. \A c : c \in pass'.todo <=> \E s \in Sides : \E p \in PathSet(journal) : C(p) /\ c = [path |-> p, side |-> s]
    BY <1>1, <2>2 DEF Candidates
  <2>. HIDE DEF C
  <2>4. ASSUME NEW c \in pass'.todo, NEW s \in Sides PROVE [path |-> c.path, side |-> s] \in pass'.todo
    <3>1. PICK r \in Sides : \E p \in PathSet(journal) : C(p) /\ c = [path |-> p, side |-> r]
      BY <2>3
    <3>2. PICK p \in PathSet(journal) : C(p) /\ c = [path |-> p, side |-> r]
      BY <3>1
    <3>3. c.path = p
      BY <3>2
    <3>. QED BY <2>3, <3>2, <3>3
  <2>. QED BY <2>4 DEF Sym
<1>5. CASE dry
  BY <1>1, <1>3, <1>5 DEF CarryInv
<1>6. CASE ~dry
  <2>1. Both' <=> Both
    BY <1>1 DEF Both
  <2>2. Settled'
    BY <1>1, <1>3, <1>4, <2>1 DEF Settled
  <2>. QED BY <2>2, <1>3 DEF CarryInv, Settled
<1>. QED BY <1>5, <1>6

\* In a run without faults the live set is what is there.
LEMMA FoundExact ==
    ASSUME CoreInv, Plainly, pass.pc # "idle", NEW s \in Sides
    PROVE  pass.found[s] = PathSet(files[s])
<1>1. pass.found[s] = PathSet(Listed(s))
  BY DEF CoreInv, FoundInv, Exact, Plainly
<1>. QED BY <1>1, AllListed

LEMMA CarryShow ==
    ASSUME CoreInv, CarryInv, Plainly, NEW c \in NextUp(pass.todo), Show(c) \/ RenameFails(c)
    PROVE  CarryInv'
<1>1. Show(c)
  BY DEF RenameFails, Plainly, Faults
<1>2. /\ setup' = setup /\ journal' = journal /\ pass'.pc = "next" /\ pass'.dry = pass.dry
  BY SkipFx
<1>3. files' = files /\ pass.dry
  BY <1>1 DEF Show, disk
<1>4. Balanced
  BY <1>3 DEF CarryInv
<1>. QED BY <1>2, <1>3, <1>4 DEF CarryInv, Balanced

\* A rename while the sides are alike: the entry sets out.
LEMMA CarryFirst ==
    ASSUME CoreInv, Plainly, Settled, NEW c \in NextUp(pass.todo), Rename(c)
    PROVE  First'
<1>. DEFINE t == Target(c, pass.found)
            a == c.side
            p == c.path
            b == Other(a)
            m == setup.matcher
<1>1. c \in pass.todo
  BY DEF NextUp
<1>2. /\ c \in Links(setup) /\ a \in Sides /\ p \in pass.found[a]
      /\ t \in PathsOf(setup) /\ t \notin pass.found[a]
  BY <1>1, CandidateFacts
<1>3. /\ setup' = setup /\ given' = given /\ journal' = journal
      /\ files' = Moved(c, t) /\ pass.pc = "next"
      /\ pass'.pc = "delete" /\ pass'.todo = pass.todo \ {c} /\ pass'.link = c /\ pass'.target = t
      /\ pass'.entry = {e \in journal : e.path = p}
      /\ pass'.found = [pass.found EXCEPT ![a] = (pass.found[a] \ {p}) \union {t}]
  BY <1>2, RenameFx DEF Plainly
<1>4. /\ \A s \in Sides : s # a => files'[s] = files[s]
      /\ files'[a] = MovedSet(files[a], p, t)
  BY <1>1, <1>3, MoveKeeps
<1>5. b \in Sides /\ b # a
  BY <1>2, OtherSide
<1>6. pass.found \in [Sides -> SUBSET PathsOf(setup)]
  BY DEF CoreInv, PassType, PassRec
<1>7. pass'.found[b] = pass.found[b]
  BY <1>3, <1>5, <1>6
<1>8. pass.found[a] = PathSet(files[a]) /\ pass.found[b] = PathSet(files[b])
  BY <1>2, <1>3, <1>5, FoundExact
<1>9. files[a] = journal
  <2>1. files[a] # {}
    BY <1>2, <1>8 DEF PathSet
  <2>. QED BY <1>2, <2>1 DEF Settled, Balanced
<1>10. Old' = journal
  BY <1>3 DEF Old
<1>11. \A e \in journal : e.path # t
  BY <1>2, <1>8, <1>9 DEF PathSet
<1>12. ASSUME files[b] # {}
       PROVE  /\ files[b] = journal /\ HalfTodo(m, pass'.todo, p, b) /\ t = TargetOf(m, p, pass'.found[b])
  <2>1. files[b] = journal
    BY <1>5, <1>12 DEF Settled, Balanced
  <2>2. t = TargetOf(m, p, pass'.found[b])
    BY <1>7, <1>8, <1>9, <2>1, TargetIs
  <2>3. Both
    <3>1. \A s \in Sides : s = a \/ s = b
      BY <1>2, OtherSide
    <3>2. files[a] # {}
      BY <1>2, <1>8 DEF PathSet
    <3>. QED BY <1>12, <3>1, <3>2 DEF Both
  <2>4. Sym(pass.todo)
    BY <2>3 DEF Settled
  <2>5. pass.todo \in SUBSET Links(setup)
    BY DEF CoreInv, PassType, PassRec
  <2>. DEFINE T == pass.todo \ {c}
              d == [path |-> p, side |-> b]
  <2>6. d \in T
    <3>1. d \in pass.todo
      BY <1>1, <1>5, <2>4 DEF Sym
    <3>2. d # c
      BY <1>5
    <3>. QED BY <3>1, <3>2
  <2>7. Sym({e \in T : e.path # p})
    <3>. SUFFICES ASSUME NEW e \in pass.todo, e.path # p, NEW s \in Sides
                  PROVE  LET x == [path |-> e.path, side |-> s] IN x \in pass.todo /\ x # c /\ x.path # p
      BY DEF Sym
    <3>. DEFINE x == [path |-> e.path, side |-> s]
    <3>1. x \in pass.todo
      BY <2>4 DEF Sym
    <3>2. x.path = e.path
      OBVIOUS
    <3>. QED BY <3>1, <3>2
  <2>8. ASSUME NEW e \in T, e.path = p PROVE e.side = b
    <3>1. e.side \in Sides /\ e \in Links(setup)
      BY <2>5 DEF Links
    <3>2. e.side # a
      BY <1>2, <2>8, <3>1, LinksEqual
    <3>. QED BY <1>2, <3>1, <3>2, OtherSide
  <2>9. \A e \in T : e.path = p \/ Precedes(m, p, e.path)
    BY NextUpFirst
  <2>10. HalfTodo(m, T, p, b)
    BY <2>6, <2>7, <2>8, <2>9 DEF HalfTodo
  <2>. QED BY <1>3, <2>1, <2>2, <2>10
<1>13. FirstAt(a, p)'
  <2>1. files'[a] = MovedSet(journal, p, t) /\ files'[b] = files[b]
    BY <1>4, <1>5, <1>9
  <2>. QED BY <1>3, <1>10, <1>11, <1>12, <2>1 DEF FirstAt
<1>. QED BY <1>3, <1>13 DEF First

\* A rename of what has been renamed on the other side: the sides are alike
\* again, and no entry has the path.
LEMMA CarrySecond ==
    ASSUME CoreInv, Plainly, Half, NEW c \in NextUp(pass.todo), Rename(c)
    PROVE  Settled'
<1>. DEFINE t == Target(c, pass.found)
<1>1. c \in pass.todo
  BY DEF NextUp
<1>2. PICK a \in Sides, p \in PathsOf(setup) : HalfAt(a, p)
  BY DEF Half
<1>. DEFINE b == Other(a)
            m == setup.matcher
<1>3. /\ HalfTodo(m, pass.todo, p, b)
      /\ files[b] # {} /\ files[a] = journal
      /\ files[a] = MovedSet(files[b], p, TargetOf(m, p, pass.found[b]))
  BY <1>2 DEF HalfAt
<1>4. c.path = p /\ c.side = b
  <2>1. c.path = p \/ Precedes(m, p, c.path)
    BY <1>1, <1>3 DEF HalfTodo
  <2>2. ~Precedes(m, p, c.path)
    <3>. DEFINE d == [path |-> p, side |-> b]
    <3>1. d \in pass.todo /\ d.path = p
      BY <1>3 DEF HalfTodo
    <3>2. ~Before(d.path, c.path)
      BY <3>1 DEF NextUp
    <3>. QED BY <3>1, <3>2, BeforeIs
  <2>. QED BY <1>1, <1>3, <2>1, <2>2 DEF HalfTodo
<1>5. /\ c \in Links(setup) /\ p \in pass.found[b]
      /\ t \in PathsOf(setup) /\ t \notin pass.found[b]
  BY <1>1, <1>4, CandidateFacts
<1>6. /\ setup' = setup /\ given' = given /\ journal' = journal
      /\ files' = Moved(c, t) /\ pass.pc = "next"
      /\ pass'.pc = "delete" /\ pass'.todo = pass.todo \ {c} /\ pass'.link = c
      /\ pass'.entry = {e \in journal : e.path = p}
  BY <1>4, <1>5, RenameFx DEF Plainly
<1>7. /\ \A s \in Sides : s # b => files'[s] = files[s]
      /\ files'[b] = MovedSet(files[b], p, t)
  BY <1>1, <1>4, <1>6, MoveKeeps
<1>8. t = TargetOf(m, p, pass.found[b])
  BY <1>4, TargetIs
<1>9. b \in Sides /\ b # a /\ \A s \in Sides : s = a \/ s = b
  BY OtherSide
<1>10. files'[b] = journal /\ files'[a] = journal
  BY <1>3, <1>7, <1>8, <1>9
<1>11. Balanced'
  BY <1>6, <1>9, <1>10 DEF Balanced
<1>12. \A e \in journal : e.path # p
  <2>1. files[b] \in SUBSET Items(setup)
    BY <1>9 DEF CoreInv, FilesInv
  <2>2. t # p
    BY <1>5
  <2>3. \A h \in MovedSet(files[b], p, t) : h.path # p
    BY <1>5, <2>1, <2>2, MovedAway
  <2>. QED BY <1>3, <1>8, <2>3
<1>13. Sym(pass'.todo)
  <2>1. pass'.todo = {d \in pass.todo : d.path # p}
    <3>1. pass.todo \in SUBSET Links(setup)
      BY DEF CoreInv, PassType, PassRec
    <3>2. ASSUME NEW d \in pass.todo, d.path = p PROVE d = c
      <4>1. d.side = b
        BY <1>3, <3>2 DEF HalfTodo
      <4>. QED BY <1>4, <1>5, <3>1, <3>2, <4>1, LinksEqual
    <3>. QED BY <1>4, <1>6, <3>2
  <2>. QED BY <1>3, <2>1 DEF HalfTodo
<1>14. pass'.entry = {}
  BY <1>6, <1>12
<1>15. \A e \in journal' : e.path # pass'.link.path
  BY <1>4, <1>6, <1>12
<1>. QED BY <1>11, <1>13, <1>14, <1>15 DEF Settled

LEMMA CarryRename ==
    ASSUME CoreInv, CarryInv, Plainly, NEW c \in NextUp(pass.todo), Rename(c)
    PROVE  CarryInv'
<1>1. pass.pc = "next" /\ ~pass.dry
  BY DEF Rename
<1>2. Settled \/ Half
  BY <1>1 DEF CarryInv, First
<1>3. First' \/ Settled'
  BY <1>2, CarryFirst, CarrySecond
<1>4. pass'.pc = "delete" /\ ~pass'.dry
  <2>1. c \in pass.todo
    BY DEF NextUp
  <2>2. Target(c, pass.found) \in PathsOf(setup)
    BY <2>1, CandidateFacts
  <2>3. pass'.pc = "delete" /\ pass'.dry = pass.dry
    BY <2>2, RenameFx
  <2>. QED BY <1>1, <2>3
<1>. QED BY <1>3, <1>4 DEF CarryInv

LEMMA CarryDelete ==
    ASSUME CoreInv, CarryInv, Plainly, JournalDelete
    PROVE  CarryInv'
<1>1. /\ setup' = setup /\ files' = files
      /\ journal' = {e \in journal : e.path # pass.link.path}
      /\ pass.pc = "delete" /\ pass'.pc = "put"
      /\ pass'.dry = pass.dry /\ pass'.found = pass.found /\ pass'.todo = pass.todo
      /\ pass'.link = pass.link /\ pass'.target = pass.target /\ pass'.entry = pass.entry
  BY DeleteFx DEF Plainly
<1>2. ~pass.dry
  BY <1>1 DEF CoreInv, PassType
<1>3. Settled \/ First
  BY <1>1, <1>2 DEF CarryInv, Half
<1>4. CASE Settled
  <2>1. journal' = journal
    BY <1>1, <1>4 DEF Settled
  <2>2. Settled'
    BY <1>1, <1>4, <2>1 DEF Settled, Balanced, Both
  <2>. QED BY <1>1, <1>2, <2>2 DEF CarryInv
<1>5. CASE First
  <2>. DEFINE a == pass.link.side
              p == pass.link.path
  <2>1. FirstAt(a, p)
    BY <1>5 DEF First
  <2>2. Old' = Old
    <3>1. pass.entry = {e \in Old : e.path = p}
      BY <2>1 DEF FirstAt
    <3>. QED BY <1>1, <3>1 DEF Old
  <2>3. FirstAt(a, p)'
    <3>1. \A e \in journal' : e.path # p
      BY <1>1
    <3>. QED BY <1>1, <2>1, <2>2, <3>1 DEF FirstAt
  <2>4. First'
    BY <1>1, <2>3 DEF First
  <2>. QED BY <1>1, <1>2, <2>4 DEF CarryInv
<1>. QED BY <1>3, <1>4, <1>5

LEMMA CarryPut ==
    ASSUME CoreInv, CarryInv, Plainly, JournalPut \/ JournalPutFails
    PROVE  CarryInv'
<1>1. /\ setup' = setup /\ files' = files
      /\ pass.pc = "put" /\ pass'.pc = "next"
      /\ pass'.dry = pass.dry /\ pass'.found = pass.found /\ pass'.todo = pass.todo
      /\ pass'.entry = {}
      /\ \/ journal' = journal /\ (setup.faults # {} \/ pass.entry = {})
         \/ /\ pass.entry # {}
            /\ journal' = {e \in journal : e.path # pass.target}
                            \union {Renamed(e, pass.target) : e \in pass.entry}
  BY PutFx
<1>2. ~pass.dry
  BY <1>1 DEF CoreInv, PassType
<1>3. Settled \/ First
  BY <1>1, <1>2 DEF CarryInv, Half
<1>4. CASE Settled
  <2>1. journal' = journal
    BY <1>1, <1>4 DEF Settled
  <2>2. Settled'
    BY <1>1, <1>4, <2>1 DEF Settled, Balanced, Both
  <2>. QED BY <1>1, <1>2, <2>2 DEF CarryInv
<1>5. CASE First
  <2>0. pass.link.side \in Sides /\ pass.link.path \in PathsOf(setup)
    BY <1>1 DEF CoreInv, PassType, Links
  <2>1. PICK a \in Sides, p \in PathsOf(setup) : FirstAt(a, p)
    BY <1>5, <2>0 DEF First
  <2>. DEFINE t == pass.target
              b == Other(a)
              m == setup.matcher
  <2>2. b \in Sides /\ \A s \in Sides : s = a \/ s = b
    BY OtherSide
  <2>3. /\ files[a] = MovedSet(Old, p, t)
        /\ pass.entry = {e \in Old : e.path = p}
        /\ \A e \in Old : e.path # t
        /\ \A e \in journal : e.path # p
        /\ files[b] # {} => /\ files[b] = Old
                            /\ HalfTodo(m, pass.todo, p, b)
                            /\ t = TargetOf(m, p, pass.found[b])
    BY <1>1, <2>1 DEF FirstAt
  <2>4. {e \in Old : e.path # p} = journal
    BY <2>3 DEF Old
  <2>5. MovedSet(Old, p, t) = journal \union {Renamed(e, t) : e \in pass.entry}
    BY <2>3, <2>4 DEF MovedSet
  <2>6. journal' = files[a]
    <3>1. CASE journal' = journal /\ pass.entry = {}
      BY <2>3, <2>5, <3>1
    <3>2. CASE journal' = {e \in journal : e.path # t} \union {Renamed(e, t) : e \in pass.entry}
      <4>1. {e \in journal : e.path # t} = journal
        BY <2>3 DEF Old
      <4>. QED BY <2>3, <2>5, <3>2, <4>1
    <3>. QED BY <1>1, <3>1, <3>2 DEF Plainly
  <2>7. CASE files[b] = {}
    <3>1. Balanced'
      BY <1>1, <2>2, <2>6, <2>7 DEF Balanced
    <3>2. ~Both'
      BY <1>1, <2>2, <2>7 DEF Both
    <3>3. Settled'
      BY <1>1, <3>1, <3>2 DEF Settled
    <3>. QED BY <1>1, <1>2, <3>3 DEF CarryInv
  <2>8. CASE files[b] # {}
    <3>1. files[a] = MovedSet(files[b], p, TargetOf(m, p, pass.found[b]))
      BY <2>3, <2>8
    <3>2. HalfAt(a, p)'
      BY <1>1, <2>3, <2>6, <2>8, <3>1 DEF HalfAt
    <3>3. p \in PathsOf(setup')
      BY <1>1
    <3>4. Half'
      BY <1>1, <3>2, <3>3 DEF Half
    <3>. QED BY <1>1, <1>2, <3>4 DEF CarryInv
  <2>. QED BY <2>7, <2>8
<1>. QED BY <1>3, <1>4, <1>5

LEMMA CarryEnd ==
    ASSUME CoreInv, CarryInv, Plainly, Finish \/ Crash
    PROVE  CarryInv'
<1>1. /\ Finish /\ pass' = NoPass /\ files' = files /\ journal' = journal
      /\ pass.pc = "next" /\ pass.todo = {}
  BY DEF Finish, Crash, Plainly, Faults
<1>2. ~Half
  BY <1>1 DEF Half, HalfAt, HalfTodo
<1>3. Balanced
  BY <1>1, <1>2 DEF CarryInv, Settled, First
<1>. QED BY <1>1, <1>3, NoPassFields DEF CarryInv, Balanced

LEMMA CarryStutter ==
    ASSUME CarryInv, UNCHANGED vars
    PROVE  CarryInv'
<1>1. setup' = setup /\ files' = files /\ journal' = journal /\ pass' = pass
  BY DEF vars, disk, still
<1>2. (Plainly' <=> Plainly) /\ (Balanced' <=> Balanced) /\ (Settled' <=> Settled)
  BY <1>1 DEF Plainly, Balanced, Settled, Both
<1>3. Half' <=> Half
  BY <1>1 DEF Half, HalfAt
<1>4. First' <=> First
  <2>1. Old' = Old
    BY <1>1 DEF Old
  <2>. QED BY <1>1, <2>1 DEF First, FirstAt
<1>. QED BY <1>1, <1>2, <1>3, <1>4 DEF CarryInv

LEMMA SetupStays == ASSUME [Next]_vars PROVE setup' = setup
  BY DEF Next, vars, still, disk, Begin, Show, Rename, RenameFails, JournalDelete, JournalPut,
         JournalPutFails, Finish, Crash

LEMMA CarryNext == CoreInv /\ CarryInv /\ [Next]_vars => CarryInv'
<1>. SUFFICES ASSUME CoreInv, CarryInv, [Next]_vars PROVE CarryInv'
  OBVIOUS
<1>1. CASE UNCHANGED vars
  BY <1>1, CarryStutter
<1>2. CASE ~Plainly
  <2>1. ~Plainly'
    BY <1>2, SetupStays DEF Plainly
  <2>. QED BY <2>1 DEF CarryInv
<1>3. ASSUME Plainly, Next PROVE CarryInv'
  <2>1. CASE \E dry \in BOOLEAN, auto \in BOOLEAN : Begin(dry, auto)
    BY <1>3, <2>1, CarryBegin
  <2>2. CASE \E c \in NextUp(pass.todo) : Show(c) \/ Rename(c) \/ RenameFails(c)
    BY <1>3, <2>2, CarryShow, CarryRename
  <2>3. CASE JournalDelete
    BY <1>3, <2>3, CarryDelete
  <2>4. CASE JournalPut \/ JournalPutFails
    BY <1>3, <2>4, CarryPut
  <2>5. CASE Finish \/ Crash
    BY <1>3, <2>5, CarryEnd
  <2>. QED BY <1>3, <2>1, <2>2, <2>3, <2>4, <2>5 DEF Next
<1>. QED BY <1>1, <1>2, <1>3

LEMMA CarriedFollows == CoreInv /\ CarryInv => EntriesCarried
<1>. SUFFICES ASSUME CarryInv, pass = NoPass, OneEntry,
                     NEW s \in Sides, NEW f \in files[s]
              PROVE  f \in journal
  BY DEF EntriesCarried
<1>1. Plainly
  BY DEF Plainly, OneEntry, Faults
<1>2. Balanced
  BY <1>1, NoPassFields DEF CarryInv
<1>. QED BY <1>2 DEF Balanced

\* Without faults each entry follows its file to the name that it gets, also
\* when both sides rename the same link one after the other.
THEOREM EntriesFollow == Spec => []EntriesCarried
<1>1. Spec => []CarryInv
  BY Core, InitCarry, CarryNext, PTL DEF Spec
<1>. QED BY <1>1, Core, CarriedFollows, PTL

\* The number after the names of a side is free there.
LEMMA NextBeside ==
    ASSUME CoreInv, NEW s \in Sides, NEW f \in files[s]
    PROVE  LET r == NextOldN(Matcher, f.path, Existing(s))
           IN /\ Format(Matcher, r.base, r.n) \notin Existing(s)
              /\ r.base = IF f.link.stem \in Existing(s) THEN f.link.stem ELSE f.path
<1>1. setup \in Setups /\ files[s] \in SUBSET Items(setup) /\ Placed(setup.matcher, f)
  BY DEF CoreInv, FilesInv
<1>2. f.link \in setup.links
  BY <1>1 DEF Items
<1>. DEFINE m == setup.matcher
            names == Existing(s)
            p == f.path
            stem == f.link.stem
<1>3. p \in Seq(Int) /\ BaseOf(m, p).base = stem /\ stem \in Seq(Int)
  <2>1. stem \in Seq(Int)
    BY <1>1, <1>2, NameFacts
  <2>2. CASE p = NameOf(m, f.link)
    BY <1>1, <1>2, <2>1, <2>2, NameFacts
  <2>3. CASE p \in Flat(m, stem)
    BY <1>1, <1>2, <2>1, <2>3, FlatFacts
  <2>. QED BY <1>1, <2>2, <2>3 DEF Placed
<1>4. IsMatcher(m) /\ p \in names
  BY <1>1, SetupFacts DEF Existing
<1>5. IsFiniteSet(names) /\ Cardinality(names) <= MaxProbe
  <2>1. IsFiniteSet(names) /\ Cardinality(names) <= Cardinality(setup.links)
    BY ExistingBound DEF CoreInv
  <2>2. Cardinality(setup.links) \in Nat /\ Cardinality(setup.links) <= MaxProbe
    BY <1>1, SetupFacts
  <2>3. Cardinality(names) \in Nat /\ MaxProbe \in Nat
    BY <2>1, FS_CardinalityType, SuffixAssumption
  <2>. QED BY <2>1, <2>2, <2>3
<1>. HIDE DEF m, names, p, stem
<1>. DEFINE r == NextOldN(m, p, names)
<1>6. BaseOf(m, p).base \in Seq(Int)
  BY <1>3
<1>7. /\ r.base = (IF BaseOf(m, p).base \in names THEN BaseOf(m, p).base ELSE p)
      /\ r.n = FirstFree(m, r.base, names) /\ r.n \in 1..MaxProbe
      /\ Format(m, r.base, r.n) \notin names
  BY <1>3, <1>4, <1>5, <1>6, NextOldNName
<1>. HIDE DEF r
<1>8. r.base = IF stem \in names THEN stem ELSE p
  BY <1>3, <1>7
<1>. QED BY <1>7, <1>8 DEF m, names, p, stem, r, Matcher

LEMMA FreeFollows == CoreInv /\ CarryInv => NextFree
<1>. SUFFICES ASSUME CoreInv, CarryInv, pass = NoPass, OneEntry, NEW s \in Sides, NEW f \in files[s]
              PROVE  LET r == NextOldN(Matcher, f.path, {e.path : e \in journal})
                     IN /\ \A side \in Sides : Format(Matcher, r.base, r.n) \notin Existing(side)
                        /\ r.base = IF f.link.stem \in {e.path : e \in journal} THEN f.link.stem ELSE f.path
  BY DEF NextFree
<1>1. Balanced
  <2>1. Plainly
    BY DEF Plainly, OneEntry, Faults
  <2>. QED BY <2>1, NoPassFields DEF CarryInv
<1>2. files[s] = journal
  BY <1>1 DEF Balanced
<1>. DEFINE entries == {e.path : e \in journal}
            r == NextOldN(Matcher, f.path, entries)
<1>3. Existing(s) = entries
  BY <1>2 DEF Existing
<1>4. \A side \in Sides : Existing(side) \subseteq entries
  BY <1>1 DEF Balanced, Existing
<1>5. /\ Format(Matcher, r.base, r.n) \notin entries
      /\ r.base = IF f.link.stem \in entries THEN f.link.stem ELSE f.path
  BY <1>3, NextBeside
<1>. HIDE DEF entries
<1>. QED BY <1>4, <1>5 DEF entries

\* After any number of repairs without faults, the number that the journal
\* gives to the next loser is free on both sides, beside the file it is of.
THEOREM NextLoserFree == Spec => []NextFree
<1>1. Spec => []CarryInv
  BY Core, InitCarry, CarryNext, PTL DEF Spec
<1>. QED BY <1>1, Core, FreeFollows, PTL
=============================================================================
