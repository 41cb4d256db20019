--------------------------- MODULE Watcher_proofs ---------------------------
(***************************************************************************)
(* Proofs about Watcher, for every tree of directories and files and every *)
(* number of steps of a calm user: the watches follow the directories,     *)
(* whatever is made, removed and renamed.                                  *)
(***************************************************************************)
EXTENDS Watcher, SequenceTheorems, FiniteSetTheorems, WellFoundedInduction, TLAPS

----------------------------------------------------------------------------
(* Induction, over a set that stands for a predicate.                      *)

LEMMA LeastNat ==
    ASSUME NEW T, T \subseteq Nat, T # {}
    PROVE  \E x \in T : \A y \in T : x <= y
<1>. DEFINE R == OpToRel(<, Nat)
<1>1. IsWellFoundedOn(R, Nat)
  BY NatLessThanWellFounded
<1>2. \A x, y \in Nat : <<x, y>> \in R <=> x < y
  BY DEF OpToRel
<1>. HIDE DEF R
<1>3. PICK x \in T : \A y \in T : ~(<<y, x>> \in R)
  BY <1>1, WFMin
<1>4. ASSUME NEW y \in T PROVE x <= y
  <2>1. ~(y < x)
    BY <1>2, <1>3
  <2>. QED BY <2>1
<1>. QED BY <1>4

LEMMA UpInduction ==
    ASSUME NEW S, 0 \in S, \A n \in Nat : n \in S => n + 1 \in S
    PROVE  \A n \in Nat : n \in S
<1>. DEFINE T == {n \in Nat : n \notin S}
<1>1. SUFFICES ASSUME T # {} PROVE FALSE
  OBVIOUS
<1>2. PICK x \in T : \A y \in T : x <= y
  <2>1. T \subseteq Nat
    OBVIOUS
  <2>. HIDE DEF T
  <2>. QED BY <1>1, <2>1, LeastNat
<1>3. x # 0 /\ x \in Nat
  BY <1>2
<1>4. x - 1 \in Nat /\ (x - 1) + 1 = x /\ ~(x <= x - 1)
  BY <1>3
<1>5. x - 1 \in S
  BY <1>2, <1>4
<1>. QED BY <1>2, <1>4, <1>5

----------------------------------------------------------------------------
(* What is in a sequence.                                                  *)

LEMMA ToSetEmpty == ToSet(<<>>) = {}
  BY DEF ToSet

LEMMA ToSetOne == \A x : ToSet(<<x>>) = {x}
  BY DEF ToSet

LEMMA ToSetConcat ==
    ASSUME NEW A, NEW s \in Seq(A), NEW t \in Seq(A)
    PROVE  /\ s \o t \in Seq(A) /\ ToSet(s \o t) = ToSet(s) \union ToSet(t)
           /\ ToSet(s) \subseteq A
<1>. DEFINE u == s \o t
            M == Len(s)
            N == Len(t)
<1>1. /\ u \in Seq(A) /\ Len(u) = M + N
      /\ \A i \in 1..(M + N) : u[i] = IF i <= M THEN s[i] ELSE t[i - M]
  BY ConcatProperties
<1>2. M \in Nat /\ N \in Nat /\ DOMAIN s = 1..M /\ DOMAIN t = 1..N /\ DOMAIN u = 1..(M + N)
  BY <1>1, LenProperties
<1>3. \A i \in 1..M : s[i] \in A
  BY ElementOfSeq
<1>. HIDE DEF u, M, N
<1>4. \A i \in 1..(M + N) : u[i] \in ToSet(s) \union ToSet(t)
  <2>. SUFFICES ASSUME NEW i \in 1..(M + N) PROVE u[i] \in ToSet(s) \union ToSet(t)
    OBVIOUS
  <2>1. CASE i <= M
    <3>1. i \in 1..M
      BY <1>2, <2>1
    <3>. QED BY <1>1, <1>2, <2>1, <3>1 DEF ToSet
  <2>2. CASE ~(i <= M)
    <3>1. i - M \in 1..N
      BY <1>2, <2>2
    <3>. QED BY <1>1, <1>2, <2>2, <3>1 DEF ToSet
  <2>. QED BY <2>1, <2>2
<1>5. \A i \in 1..M : s[i] \in ToSet(u)
  <2>. SUFFICES ASSUME NEW i \in 1..M PROVE s[i] \in ToSet(u)
    OBVIOUS
  <2>1. i \in 1..(M + N) /\ i <= M
    BY <1>2
  <2>. QED BY <1>1, <1>2, <2>1 DEF ToSet
<1>6. \A i \in 1..N : t[i] \in ToSet(u)
  <2>. SUFFICES ASSUME NEW i \in 1..N PROVE t[i] \in ToSet(u)
    OBVIOUS
  <2>1. M + i \in 1..(M + N) /\ ~(M + i <= M) /\ (M + i) - M = i
    BY <1>2
  <2>2. u[M + i] = t[i]
    BY <1>1, <2>1
  <2>. QED BY <1>2, <2>1, <2>2 DEF ToSet
<1>7. ToSet(u) = ToSet(s) \union ToSet(t)
  BY <1>2, <1>4, <1>5, <1>6 DEF ToSet
<1>. QED BY <1>1, <1>2, <1>3, <1>7 DEF u, ToSet

LEMMA ToSetAppend ==
    ASSUME NEW A, NEW s \in Seq(A), NEW x \in A
    PROVE  Append(s, x) \in Seq(A) /\ ToSet(Append(s, x)) = ToSet(s) \union {x}
<1>. DEFINE u == Append(s, x)
            M == Len(s)
<1>1. /\ u \in Seq(A) /\ Len(u) = M + 1 /\ \A i \in 1..M : u[i] = s[i]
      /\ u[M + 1] = x
  BY AppendProperties
<1>2. M \in Nat /\ DOMAIN s = 1..M /\ DOMAIN u = 1..(M + 1)
  BY <1>1, LenProperties
<1>. HIDE DEF u, M
<1>3. \A i \in 1..(M + 1) : i \in 1..M \/ i = M + 1
  BY <1>2
<1>4. \A i \in 1..M : i \in 1..(M + 1)
  BY <1>2
<1>5. M + 1 \in 1..(M + 1)
  BY <1>2
<1>6. ToSet(u) = ToSet(s) \union {x}
  BY <1>1, <1>2, <1>3, <1>4, <1>5 DEF ToSet
<1>. QED BY <1>1, <1>6 DEF u

LEMMA ToSetTail ==
    ASSUME NEW A, NEW s \in Seq(A), s # <<>>
    PROVE  /\ Head(s) \in A /\ Tail(s) \in Seq(A)
           /\ ToSet(s) = {Head(s)} \union ToSet(Tail(s))
           /\ Tail(s) # <<>> => Tail(s)[Len(Tail(s))] = s[Len(s)]
           /\ Tail(s) = <<>> => s[Len(s)] = Head(s)
<1>. DEFINE u == Tail(s)
            M == Len(u)
<1>1. /\ Head(s) \in A /\ u \in Seq(A) /\ M = Len(s) - 1
      /\ \A i \in 1..M : u[i] = s[i + 1]
  BY HeadTailProperties
<1>2. M \in Nat /\ Len(s) \in Nat /\ Len(s) = M + 1 /\ DOMAIN s = 1..(M + 1) /\ DOMAIN u = 1..M
  BY <1>1, LenProperties, EmptySeq
<1>3. Head(s) = s[1]
  OBVIOUS
<1>. HIDE DEF u, M
<1>4. \A i \in 1..(M + 1) : i = 1 \/ (i - 1 \in 1..M /\ (i - 1) + 1 = i)
  BY <1>2
<1>5. \A i \in 1..M : i + 1 \in 1..(M + 1)
  BY <1>2
<1>6. 1 \in 1..(M + 1)
  BY <1>2
<1>7. ToSet(s) = {Head(s)} \union ToSet(u)
  <2>1. ToSet(s) = {s[i] : i \in 1..(M + 1)} /\ ToSet(u) = {u[i] : i \in 1..M}
    BY <1>2 DEF ToSet
  <2>2. \A i \in 1..(M + 1) : s[i] \in {Head(s)} \union ToSet(u)
    <3>. SUFFICES ASSUME NEW i \in 1..(M + 1), i # 1 PROVE s[i] \in ToSet(u)
      BY <1>3
    <3>1. i - 1 \in 1..M /\ (i - 1) + 1 = i
      BY <1>4
    <3>2. u[i - 1] = s[i]
      BY <1>1, <3>1
    <3>. QED BY <2>1, <3>1, <3>2
  <2>3. \A i \in 1..M : u[i] \in ToSet(s)
    BY <1>1, <1>5, <2>1
  <2>4. Head(s) \in ToSet(s)
    BY <1>3, <1>6, <2>1
  <2>. QED BY <2>1, <2>2, <2>3, <2>4
<1>8. u # <<>> => u[Len(u)] = s[Len(s)]
  <2>1. u # <<>> => M \in 1..M
    BY <1>1, <1>2, EmptySeq DEF M
  <2>. QED BY <1>1, <1>2, <2>1 DEF M
<1>9. u = <<>> => M = 0
  BY EmptySeq DEF M
<1>. QED BY <1>1, <1>2, <1>3, <1>7, <1>8, <1>9 DEF u

LEMMA WithoutFacts ==
    ASSUME NEW A, NEW s \in Seq(A), NEW x
    PROVE  Without(s, x) \in Seq(A) /\ ToSet(Without(s, x)) \subseteq ToSet(s)
<1>1. CASE x \notin ToSet(s)
  BY <1>1 DEF Without
<1>2. CASE x \in ToSet(s)
  <2>. DEFINE i == CHOOSE k \in DOMAIN s : s[k] = x
              N == Len(s)
              a == SubSeq(s, 1, i - 1)
              b == SubSeq(s, i + 1, N)
  <2>1. i \in 1..N /\ N \in Nat /\ DOMAIN s = 1..N
    BY <1>2, LenProperties DEF ToSet
  <2>2. Without(s, x) = a \o b
    BY <1>2 DEF Without, RemoveAt
  <2>. HIDE DEF i
  <2>3. /\ a \in Seq(A) /\ Len(a) = IF 1 <= i - 1 THEN (i - 1) - 1 + 1 ELSE 0
        /\ \A k \in 1..((i - 1) - 1 + 1) : a[k] = s[1 + k - 1]
    <3>1. \A k \in 1..(i - 1) : s[k] \in A
      BY <2>1, ElementOfSeq
    <3>2. 1 \in Int /\ i - 1 \in Int
      BY <2>1
    <3>. QED BY <3>1, <3>2, SubSeqProperties
  <2>4. /\ b \in Seq(A) /\ Len(b) = IF i + 1 <= N THEN N - (i + 1) + 1 ELSE 0
        /\ \A k \in 1..(N - (i + 1) + 1) : b[k] = s[(i + 1) + k - 1]
    <3>1. \A k \in (i + 1)..N : s[k] \in A
      <4>1. \A k \in (i + 1)..N : k \in 1..N
        BY <2>1
      <4>. QED BY <4>1, ElementOfSeq
    <3>2. i + 1 \in Int /\ N \in Int
      BY <2>1
    <3>. QED BY <3>1, <3>2, SubSeqProperties
  <2>. HIDE DEF a, b
  <2>5. a \o b \in Seq(A) /\ ToSet(a \o b) = ToSet(a) \union ToSet(b)
    BY <2>3, <2>4, ToSetConcat
  <2>6. ToSet(a) \subseteq ToSet(s)
    <3>1. DOMAIN a = 1..Len(a)
      BY <2>3, LenProperties
    <3>2. \A k \in 1..Len(a) : k \in 1..((i - 1) - 1 + 1) /\ 1 + k - 1 \in 1..N
      BY <2>1, <2>3
    <3>. QED BY <2>1, <2>3, <3>1, <3>2 DEF ToSet
  <2>7. ToSet(b) \subseteq ToSet(s)
    <3>1. DOMAIN b = 1..Len(b)
      BY <2>4, LenProperties
    <3>2. \A k \in 1..Len(b) : k \in 1..(N - (i + 1) + 1) /\ (i + 1) + k - 1 \in 1..N
      <4>1. CASE i + 1 <= N
        <5>1. Len(b) = N - (i + 1) + 1
          BY <2>4, <4>1
        <5>. QED BY <2>1, <4>1, <5>1
      <4>2. CASE ~(i + 1 <= N)
        <5>1. Len(b) = 0
          BY <2>4, <4>2
        <5>. QED BY <5>1
      <4>. QED BY <4>1, <4>2
    <3>. QED BY <2>1, <2>4, <3>1, <3>2 DEF ToSet
  <2>. QED BY <2>2, <2>5, <2>6, <2>7
<1>. QED BY <1>1, <1>2

\* SetToSeq lists a finite set.
LEMMA SetToSeqFacts ==
    ASSUME NEW S, IsFiniteSet(S)
    PROVE  SetToSeq(S) \in Seq(S) /\ ToSet(SetToSeq(S)) = S
<1>. DEFINE n == Cardinality(S)
            F == SetToSeq(S)
<1>1. n \in Nat
  BY FS_CardinalityType
<1>2. \E f \in [1..n -> S] : IsInjective(f)
  <2>1. PICK k \in Nat : ExistsBijection(1..k, S)
    BY FS_NatBijection
  <2>2. k = n
    BY <2>1, FS_CountingElements
  <2>. QED BY <2>1, <2>2 DEF ExistsBijection, Bijection, Injection
<1>3. F \in [1..n -> S] /\ IsInjective(F)
  BY <1>2 DEF SetToSeq
<1>. HIDE DEF F
<1>4. F \in Injection(1..n, S)
  BY <1>3 DEF Injection
<1>5. Cardinality(1..n) = n
  BY <1>1, FS_Interval
<1>6. F \in Surjection(1..n, S)
  BY <1>4, <1>5, FS_Injection
<1>7. F \in Seq(S)
  BY <1>1, <1>3, SeqDef
<1>8. ToSet(F) = S
  BY <1>3, <1>6 DEF Surjection, ToSet
<1>. QED BY <1>7, <1>8 DEF F

----------------------------------------------------------------------------
(* Paths.                                                                  *)

PathSeq == Seq(STRING)

LEMMA PathFacts ==
    /\ Dirs \subseteq Paths /\ Files \subseteq Paths
    /\ \A p \in Paths : p \in PathSeq /\ p # <<>> /\ (Front(p) = <<>> \/ Front(p) \in Dirs)
    /\ \A d \in Dirs : d \notin Files
  BY WatcherAssumption DEF Paths, PathSeq

LEMMA LenIs == \A p \in PathSeq : Len(p) \in Nat /\ (p # <<>> => Len(p) >= 1) /\ DOMAIN p = 1..Len(p)
<1>. SUFFICES ASSUME NEW p \in PathSeq
              PROVE  Len(p) \in Nat /\ (p # <<>> => Len(p) >= 1) /\ DOMAIN p = 1..Len(p)
  OBVIOUS
<1>1. Len(p) \in Nat /\ DOMAIN p = 1..Len(p)
  BY LenProperties DEF PathSeq
<1>2. p # <<>> => Len(p) # 0
  BY EmptySeq DEF PathSeq
<1>. QED BY <1>1, <1>2

LEMMA SamePath ==
    ASSUME NEW p \in PathSeq, NEW q \in PathSeq, Len(p) = Len(q), \A i \in 1..Len(p) : p[i] = q[i]
    PROVE  p = q
  BY SeqEqual DEF PathSeq

LEMMA FrontIs ==
    ASSUME NEW p \in PathSeq, p # <<>>
    PROVE  /\ Front(p) \in PathSeq /\ Len(Front(p)) = Len(p) - 1
           /\ \A i \in 1..(Len(p) - 1) : Front(p)[i] = p[i]
           /\ Last(p) \in STRING /\ Append(Front(p), Last(p)) = p
<1>. DEFINE n == Len(p)
            a == SubSeq(p, 1, n - 1)
<1>1. n \in Nat /\ n >= 1
  BY LenIs
<1>2. \A i \in 1..n : p[i] \in STRING
  BY ElementOfSeq DEF PathSeq
<1>3. 1 \in Int /\ n - 1 \in Int /\ \A i \in 1..(n - 1) : i \in 1..n
  BY <1>1
<1>4. /\ a \in Seq(STRING) /\ Len(a) = IF 1 <= n - 1 THEN (n - 1) - 1 + 1 ELSE 0
      /\ \A i \in 1..((n - 1) - 1 + 1) : a[i] = p[1 + i - 1]
  <2>1. \A i \in 1..(n - 1) : p[i] \in STRING
    BY <1>2, <1>3
  <2>. HIDE DEF n
  <2>. QED BY <1>3, <2>1, SubSeqProperties
<1>5. Front(p) = a /\ Last(p) = p[n]
  BY DEF Front, Last
<1>. HIDE DEF n, a
<1>6. Len(a) = n - 1
  BY <1>1, <1>4
<1>7. \A i \in 1..(n - 1) : i \in 1..((n - 1) - 1 + 1) /\ 1 + i - 1 = i
  BY <1>1
<1>8. \A i \in 1..(n - 1) : a[i] = p[i]
  BY <1>4, <1>7
<1>9. p[n] \in STRING
  BY <1>1, <1>2
<1>10. Append(a, p[n]) = p
  <2>. DEFINE b == Append(a, p[n])
  <2>1. b \in Seq(STRING) /\ Len(b) = Len(a) + 1 /\ \A i \in 1..Len(a) : b[i] = a[i]
    BY <1>4, <1>9, AppendProperties
  <2>2. b[Len(a) + 1] = p[n]
    BY <1>4, <1>9, AppendProperties
  <2>. HIDE DEF b
  <2>3. Len(b) = n /\ Len(a) + 1 = n
    BY <1>1, <1>6, <2>1
  <2>4. \A i \in 1..n : i = n \/ i \in 1..Len(a)
    BY <1>1, <1>6
  <2>5. \A i \in 1..n : b[i] = p[i]
    BY <1>6, <1>8, <2>1, <2>2, <2>3, <2>4
  <2>6. b \in PathSeq
    BY <2>1 DEF PathSeq
  <2>7. Len(b) = Len(p) /\ \A i \in 1..Len(b) : b[i] = p[i]
    BY <2>3, <2>5 DEF n
  <2>8. b = p
    BY <2>6, <2>7, SamePath
  <2>. QED BY <2>8 DEF b
<1>. QED BY <1>4, <1>5, <1>6, <1>8, <1>9, <1>10 DEF PathSeq, n

\* What it means to be under a directory, name by name.
LEMMA UnderIs ==
    ASSUME NEW p \in PathSeq, NEW d \in PathSeq
    PROVE  Under(p, d) <=> (Len(d) < Len(p) /\ \A i \in 1..Len(d) : d[i] = p[i])
<1>. DEFINE m == Len(d)
            n == Len(p)
            a == SubSeq(d, 1, m)
            b == SubSeq(p, 1, m)
<1>1. m \in Nat /\ n \in Nat /\ 1 \in Int /\ m \in Int
  BY LenIs
<1>2. \A i \in 1..m : d[i] \in STRING
  BY ElementOfSeq DEF PathSeq
<1>3. /\ a \in Seq(STRING) /\ Len(a) = IF 1 <= m THEN m - 1 + 1 ELSE 0
      /\ \A i \in 1..(m - 1 + 1) : a[i] = d[1 + i - 1]
  <2>. HIDE DEF m
  <2>. QED BY <1>1, <1>2, SubSeqProperties
<1>4. m <= n => /\ b \in Seq(STRING) /\ Len(b) = IF 1 <= m THEN m - 1 + 1 ELSE 0
                /\ \A i \in 1..(m - 1 + 1) : b[i] = p[1 + i - 1]
  <2>. HAVE m <= n
  <2>1. \A i \in 1..m : i \in 1..n
    BY <1>1
  <2>2. \A i \in 1..m : p[i] \in STRING
    BY <2>1, ElementOfSeq DEF PathSeq
  <2>. HIDE DEF m, n
  <2>. QED BY <1>1, <2>2, SubSeqProperties
<1>5. Under(p, d) <=> (m <= n /\ a = b /\ d # p)
  BY DEF Under, IsStrictPrefix, IsPrefix
<1>. HIDE DEF a, b
<1>6. \A i \in 1..m : i \in 1..(m - 1 + 1) /\ 1 + i - 1 = i
  BY <1>1
<1>7. Len(a) = m /\ (m <= n => Len(b) = m)
  <2>1. CASE 1 <= m
    BY <1>1, <1>3, <1>4, <2>1
  <2>2. CASE ~(1 <= m)
    BY <1>1, <1>3, <1>4, <2>2
  <2>. QED BY <2>1, <2>2
<1>8. \A i \in 1..m : a[i] = d[i] /\ (m <= n => b[i] = p[i])
  BY <1>3, <1>4, <1>6
<1>. HIDE DEF m, n
<1>9. ASSUME m <= n, a = b, d # p PROVE m < n /\ \A i \in 1..m : d[i] = p[i]
  <2>1. \A i \in 1..m : d[i] = p[i]
    BY <1>8, <1>9
  <2>2. m # n
    BY <1>9, <2>1, SamePath DEF m, n
  <2>. QED BY <1>1, <1>9, <2>1, <2>2
<1>10. ASSUME m < n, \A i \in 1..m : d[i] = p[i] PROVE m <= n /\ a = b /\ d # p
  <2>1. m <= n /\ d # p
    BY <1>1, <1>10 DEF m, n
  <2>2. a \in PathSeq /\ b \in PathSeq /\ Len(a) = Len(b) /\ \A i \in 1..Len(a) : a[i] = b[i]
    BY <1>3, <1>4, <1>7, <1>8, <1>10, <2>1 DEF PathSeq
  <2>3. a = b
    BY <2>2, SamePath
  <2>. QED BY <2>1, <2>3
<1>. QED BY <1>5, <1>9, <1>10 DEF m, n

LEMMA UnderFront ==
    ASSUME NEW p \in PathSeq, p # <<>>, NEW d \in PathSeq
    PROVE  Under(p, d) <=> (d = Front(p) \/ Under(Front(p), d))
<1>. DEFINE q == Front(p)
            m == Len(d)
            n == Len(p)
<1>1. q \in PathSeq /\ Len(q) = n - 1 /\ \A i \in 1..(n - 1) : q[i] = p[i]
  BY FrontIs
<1>2. m \in Nat /\ n \in Nat /\ n >= 1
  BY LenIs
<1>. HIDE DEF q
<1>3. Under(p, d) <=> (m < n /\ \A i \in 1..m : d[i] = p[i])
  BY UnderIs
<1>4. Under(q, d) <=> (m < Len(q) /\ \A i \in 1..m : d[i] = q[i])
  BY <1>1, UnderIs
<1>. HIDE DEF m, n
<1>5. m < n => \A i \in 1..m : i \in 1..(n - 1)
  BY <1>2
<1>6. m < n => \A i \in 1..m : q[i] = p[i]
  BY <1>1, <1>5
<1>7. d = q => (m = n - 1 /\ m < n /\ \A i \in 1..m : d[i] = p[i])
  BY <1>1, <1>2 DEF m
<1>8. ASSUME m < n, \A i \in 1..m : d[i] = p[i], ~(m < n - 1) PROVE d = q
  <2>1. m = n - 1
    BY <1>2, <1>8
  <2>2. Len(d) = Len(q) /\ \A i \in 1..Len(d) : d[i] = q[i]
    BY <1>1, <1>6, <1>8, <2>1 DEF m
  <2>. QED BY <1>1, <2>2, SamePath
<1>9. m < n - 1 => m < n
  BY <1>2
<1>10. Under(p, d) => (d = q \/ Under(q, d))
  BY <1>1, <1>3, <1>4, <1>6, <1>8
<1>11. Under(q, d) => Under(p, d)
  BY <1>1, <1>3, <1>4, <1>6, <1>9
<1>12. d = q => Under(p, d)
  BY <1>3, <1>7
<1>. QED BY <1>10, <1>11, <1>12 DEF q

LEMMA UnderTrans ==
    ASSUME NEW p \in PathSeq, NEW q \in PathSeq, NEW r \in PathSeq, Under(p, q), Under(q, r)
    PROVE  Under(p, r)
<1>1. Len(q) < Len(p) /\ \A i \in 1..Len(q) : q[i] = p[i]
  BY UnderIs
<1>2. Len(r) < Len(q) /\ \A i \in 1..Len(r) : r[i] = q[i]
  BY UnderIs
<1>3. Len(p) \in Nat /\ Len(q) \in Nat /\ Len(r) \in Nat
  BY LenIs
<1>4. Len(r) < Len(p) /\ \A i \in 1..Len(r) : i \in 1..Len(q)
  BY <1>1, <1>2, <1>3
<1>5. Len(r) < Len(p) /\ \A i \in 1..Len(r) : r[i] = p[i]
  BY <1>1, <1>2, <1>4
<1>. QED BY <1>5, UnderIs

LEMMA UnderStrict ==
    ASSUME NEW p \in PathSeq, NEW q \in PathSeq, Under(p, q)
    PROVE  p # q /\ ~Under(q, p) /\ p # <<>>
<1>1. Len(q) < Len(p)
  BY UnderIs
<1>2. Len(p) \in Nat /\ Len(q) \in Nat
  BY LenIs
<1>3. ~(Len(p) < Len(q)) /\ Len(p) # Len(q) /\ Len(p) # 0
  BY <1>1, <1>2
<1>4. ~Under(q, p)
  BY <1>3, UnderIs
<1>5. p # <<>>
  BY <1>3, EmptySeq
<1>. QED BY <1>3, <1>4, <1>5

LEMMA FrontUnder ==
    ASSUME NEW p \in PathSeq, p # <<>>
    PROVE  Under(p, Front(p)) /\ Front(p) \in PathSeq /\ Len(Front(p)) < Len(p)
<1>1. Front(p) \in PathSeq /\ Len(Front(p)) = Len(p) - 1
  BY FrontIs
<1>2. Len(p) \in Nat
  BY LenIs
<1>3. Under(p, Front(p))
  BY <1>1, UnderFront
<1>. QED BY <1>1, <1>2, <1>3

\* What is under a directory of the model has a directory for its parent.
LEMMA FrontOf ==
    ASSUME NEW p \in Paths, NEW y \in Dirs, Under(p, y)
    PROVE  Front(p) \in Dirs /\ (y = Front(p) \/ Under(Front(p), y))
<1>1. p \in PathSeq /\ p # <<>> /\ y \in PathSeq /\ y # <<>> /\ (Front(p) = <<>> \/ Front(p) \in Dirs)
  BY PathFacts
<1>2. y = Front(p) \/ Under(Front(p), y)
  BY <1>1, UnderFront
<1>3. Front(p) \in PathSeq
  BY <1>1, FrontIs
<1>4. Front(p) # <<>>
  BY <1>1, <1>2, <1>3, UnderStrict
<1>. QED BY <1>1, <1>2, <1>4

\* The way down from a directory to one under it begins with a child.
LEMMA StepDown ==
    ASSUME NEW y \in Dirs, NEW x0 \in Dirs, Under(x0, y)
    PROVE  \E z \in Dirs : Front(z) = y /\ (z = x0 \/ Under(x0, z))
<1>. DEFINE Good(x) == Under(x, y) => \E z \in Dirs : Front(z) = y /\ (z = x \/ Under(x, z))
            S == {n \in Nat : \A x \in Dirs : Len(x) <= n => Good(x)}
<1>0. \A x \in Dirs : x \in PathSeq /\ x # <<>> /\ Len(x) \in Nat /\ Len(x) >= 1
  BY PathFacts, LenIs
<1>1. 0 \in S
  <2>1. \A x \in Dirs : ~(Len(x) <= 0)
    BY <1>0
  <2>. QED BY <2>1
<1>2. ASSUME NEW n \in Nat, n \in S PROVE n + 1 \in S
  <2>1. SUFFICES ASSUME NEW x \in Dirs, Len(x) <= n + 1, Under(x, y)
                 PROVE  \E z \in Dirs : Front(z) = y /\ (z = x \/ Under(x, z))
    OBVIOUS
  <2>2. Front(x) \in Dirs /\ (y = Front(x) \/ Under(Front(x), y))
    BY <2>1, PathFacts, FrontOf
  <2>3. CASE y = Front(x)
    BY <2>3
  <2>4. CASE Under(Front(x), y)
    <3>1. Len(Front(x)) < Len(x) /\ Under(x, Front(x))
      BY <1>0, FrontUnder
    <3>2. Len(Front(x)) <= n
      BY <1>0, <2>1, <2>2, <3>1
    <3>3. PICK z \in Dirs : Front(z) = y /\ (z = Front(x) \/ Under(Front(x), z))
      BY <1>2, <2>2, <2>4, <3>2
    <3>4. z = Front(x) => Under(x, z)
      BY <3>1
    <3>5. Under(Front(x), z) => Under(x, z)
      BY <1>0, <2>2, <3>1, UnderTrans
    <3>. QED BY <3>3, <3>4, <3>5
  <2>. QED BY <2>2, <2>3, <2>4
<1>3. \A n \in Nat : n \in S
  <2>. HIDE DEF S
  <2>. QED BY <1>1, <1>2, UpInduction
<1>4. Len(x0) \in S /\ Len(x0) <= Len(x0)
  BY <1>0, <1>3
<1>. QED BY <1>4

\* A tree in which everything has its parent.
Rooted(t) == \A p \in Paths : (t[p] # 0 /\ Front(p) # <<>>) => t[Front(p)] = 1

LEMMA AncestorExists ==
    ASSUME NEW t, Rooted(t), NEW y \in Dirs, NEW p0 \in Paths, Under(p0, y), t[p0] # 0
    PROVE  t[y] = 1
<1>. DEFINE S == {n \in Nat : \A p \in Paths : (Len(p) <= n /\ Under(p, y) /\ t[p] # 0) => t[y] = 1}
<1>0. \A p \in Paths : p \in PathSeq /\ p # <<>> /\ Len(p) \in Nat /\ Len(p) >= 1
  BY PathFacts, LenIs
<1>1. 0 \in S
  <2>1. \A p \in Paths : ~(Len(p) <= 0)
    BY <1>0
  <2>. QED BY <2>1
<1>2. ASSUME NEW n \in Nat, n \in S PROVE n + 1 \in S
  <2>1. SUFFICES ASSUME NEW p \in Paths, Len(p) <= n + 1, Under(p, y), t[p] # 0 PROVE t[y] = 1
    OBVIOUS
  <2>2. Front(p) \in Dirs /\ (y = Front(p) \/ Under(Front(p), y))
    BY <2>1, FrontOf
  <2>3. Front(p) # <<>> /\ Front(p) \in Paths
    BY <2>2, PathFacts
  <2>4. t[Front(p)] = 1
    BY <2>1, <2>3 DEF Rooted
  <2>5. Len(Front(p)) < Len(p)
    BY <1>0, FrontUnder
  <2>6. Len(Front(p)) <= n
    BY <1>0, <2>1, <2>3, <2>5
  <2>7. t[Front(p)] # 0
    BY <2>4
  <2>. QED BY <1>2, <2>2, <2>3, <2>4, <2>6, <2>7
<1>3. \A n \in Nat : n \in S
  <2>. HIDE DEF S
  <2>. QED BY <1>1, <1>2, UpInduction
<1>4. Len(p0) \in S /\ Len(p0) <= Len(p0)
  BY <1>0, <1>3
<1>. QED BY <1>4

----------------------------------------------------------------------------
(* Where a path comes from when its directory is renamed.                  *)

LEMMA OriginOfRoot ==
    ASSUME NEW d \in Dirs, NEW e \in Dirs
    PROVE  Origin(e, d, e) = d
<1>1. Len(e) \in Nat /\ d \in Seq(STRING)
  BY PathFacts, LenIs DEF PathSeq
<1>2. Len(e) + 1 \in Int /\ Len(e) \in Int /\ Len(e) < Len(e) + 1
  BY <1>1
<1>3. SubSeq(e, Len(e) + 1, Len(e)) = <<>>
  BY <1>2, SubSeqEmpty
<1>. QED BY <1>1, <1>3, ConcatEmptySeq DEF Origin

LEMMA OriginIs ==
    ASSUME NEW d \in Dirs, NEW e \in Dirs, NEW p \in PathSeq, p = e \/ Under(p, e)
    PROVE  /\ Origin(p, d, e) \in PathSeq
           /\ Len(Origin(p, d, e)) = Len(d) + (Len(p) - Len(e))
           /\ \A i \in 1..Len(Origin(p, d, e)) :
                 Origin(p, d, e)[i] = IF i <= Len(d) THEN d[i] ELSE p[(i - Len(d)) + Len(e)]
<1>. DEFINE m == Len(e)
            n == Len(p)
            k == Len(d)
            a == SubSeq(p, m + 1, n)
            o == d \o a
<1>1. d \in PathSeq /\ e \in PathSeq
  BY PathFacts
<1>2. m \in Nat /\ n \in Nat /\ k \in Nat /\ m + 1 \in Int /\ n \in Int
  BY <1>1, LenIs
<1>3. m <= n
  BY <1>1, <1>2, UnderIs
<1>4. \A i \in (m + 1)..n : p[i] \in STRING
  <2>1. \A i \in (m + 1)..n : i \in 1..n
    BY <1>2
  <2>. QED BY <2>1, ElementOfSeq DEF PathSeq
<1>5. /\ a \in Seq(STRING) /\ Len(a) = IF m + 1 <= n THEN n - (m + 1) + 1 ELSE 0
      /\ \A i \in 1..(n - (m + 1) + 1) : a[i] = p[(m + 1) + i - 1]
  <2>. HIDE DEF m, n
  <2>. QED BY <1>2, <1>4, SubSeqProperties
<1>. HIDE DEF a
<1>6. Len(a) = n - m
  <2>1. CASE m + 1 <= n
    BY <1>2, <1>5, <2>1
  <2>2. CASE ~(m + 1 <= n)
    BY <1>2, <1>3, <1>5, <2>2
  <2>. QED BY <2>1, <2>2
<1>7. /\ o \in Seq(STRING) /\ Len(o) = Len(d) + Len(a)
      /\ \A i \in 1..(Len(d) + Len(a)) : o[i] = IF i <= Len(d) THEN d[i] ELSE a[i - Len(d)]
  BY <1>1, <1>5, ConcatProperties DEF PathSeq
<1>8. Origin(p, d, e) = o
  BY DEF Origin, a
<1>. HIDE DEF o, m, n, k
<1>9. Len(o) = k + (n - m)
  BY <1>6, <1>7 DEF k
<1>10. ASSUME NEW i \in 1..(k + (n - m)) PROVE o[i] = IF i <= k THEN d[i] ELSE p[(i - k) + m]
  <2>1. i \in 1..(Len(d) + Len(a))
    BY <1>6 DEF k
  <2>2. o[i] = IF i <= k THEN d[i] ELSE a[i - k]
    BY <1>7, <2>1 DEF k
  <2>3. CASE i <= k
    BY <2>2, <2>3
  <2>4. CASE ~(i <= k)
    <3>1. i - k \in 1..(n - (m + 1) + 1) /\ (m + 1) + (i - k) - 1 = (i - k) + m
      BY <1>2, <1>3, <2>4
    <3>2. a[i - k] = p[(m + 1) + (i - k) - 1]
      BY <1>5, <3>1
    <3>. QED BY <2>2, <2>4, <3>1, <3>2
  <2>. QED BY <2>3, <2>4
<1>. QED BY <1>7, <1>8, <1>9, <1>10 DEF PathSeq, k, m, n

LEMMA OriginUnder ==
    ASSUME NEW d \in Dirs, NEW e \in Dirs, NEW p \in PathSeq, Under(p, e)
    PROVE  /\ Origin(p, d, e) \in PathSeq /\ Under(Origin(p, d, e), d)
           /\ Last(Origin(p, d, e)) = Last(p)
           /\ Front(Origin(p, d, e)) = Origin(Front(p), d, e)
<1>. DEFINE m == Len(e)
            n == Len(p)
            k == Len(d)
            o == Origin(p, d, e)
            q == Front(p)
            r == Origin(q, d, e)
            L == k + (n - m)
<1>1. d \in PathSeq /\ e \in PathSeq /\ p # <<>> /\ m < n
  BY PathFacts, UnderIs, UnderStrict
<1>2. m \in Nat /\ n \in Nat /\ k \in Nat
  BY <1>1, LenIs
<1>3. q \in PathSeq /\ Len(q) = n - 1 /\ \A i \in 1..(n - 1) : q[i] = p[i]
  BY <1>1, FrontIs
<1>4. e = q \/ Under(q, e)
  BY <1>1, UnderFront
<1>5. /\ o \in PathSeq /\ Len(o) = Len(d) + (Len(p) - Len(e))
      /\ \A i \in 1..Len(o) : o[i] = IF i <= Len(d) THEN d[i] ELSE p[(i - Len(d)) + Len(e)]
  BY OriginIs
<1>. HIDE DEF q
<1>6. /\ r \in PathSeq /\ Len(r) = Len(d) + (Len(q) - Len(e))
      /\ \A i \in 1..Len(r) : r[i] = IF i <= Len(d) THEN d[i] ELSE q[(i - Len(d)) + Len(e)]
  BY <1>3, <1>4, OriginIs
<1>. HIDE DEF o, r
<1>7. Len(o) = L /\ Len(r) = L - 1 /\ L \in Nat /\ k < L
  BY <1>1, <1>2, <1>3, <1>5, <1>6
<1>8. \A i \in 1..L : o[i] = IF i <= k THEN d[i] ELSE p[(i - k) + m]
  BY <1>5, <1>7
<1>9. \A i \in 1..(L - 1) : r[i] = IF i <= k THEN d[i] ELSE q[(i - k) + m]
  BY <1>6, <1>7
<1>10. L - k + m = n
  BY <1>2
<1>. HIDE DEF L, k, m, n
<1>11. Under(o, d)
  <2>1. \A i \in 1..k : i \in 1..L /\ i <= k
    BY <1>2, <1>7
  <2>2. \A i \in 1..k : d[i] = o[i]
    BY <1>8, <2>1
  <2>3. Len(d) < Len(o) /\ \A i \in 1..Len(d) : d[i] = o[i]
    BY <1>7, <2>2 DEF k
  <2>. QED BY <1>1, <1>5, <2>3, UnderIs
<1>12. Last(o) = Last(p)
  <2>1. L \in 1..L /\ ~(L <= k)
    BY <1>2, <1>7
  <2>2. o[L] = p[(L - k) + m]
    BY <1>8, <2>1
  <2>3. o[L] = p[n]
    BY <1>10, <2>2
  <2>. QED BY <1>7, <2>3 DEF Last, n
<1>13. Front(o) = r
  <2>1. o # <<>>
    BY <1>1, <1>5, <1>11, UnderStrict
  <2>2. Front(o) \in PathSeq /\ Len(Front(o)) = L - 1 /\ \A i \in 1..(L - 1) : Front(o)[i] = o[i]
    BY <1>5, <1>7, <2>1, FrontIs
  <2>3. ASSUME NEW i \in 1..(L - 1) PROVE o[i] = r[i]
    <3>1. i \in 1..L
      BY <1>7
    <3>2. CASE i <= k
      BY <1>8, <1>9, <3>1, <3>2
    <3>3. CASE ~(i <= k)
      <4>1. (i - k) + m \in 1..(n - 1)
        BY <1>2, <1>7, <1>10, <3>3
      <4>2. q[(i - k) + m] = p[(i - k) + m]
        BY <1>3, <4>1
      <4>. QED BY <1>8, <1>9, <3>1, <3>3, <4>2
    <3>. QED BY <3>2, <3>3
  <2>4. Len(Front(o)) = Len(r) /\ \A i \in 1..Len(Front(o)) : Front(o)[i] = r[i]
    BY <1>7, <2>2, <2>3
  <2>. QED BY <1>6, <2>2, <2>4, SamePath
<1>. QED BY <1>5, <1>11, <1>12, <1>13 DEF o, r, q

\* A directory comes from a directory, a file from a file.
LEMMA OriginKind ==
    ASSUME NEW d \in Dirs, NEW e \in Dirs, NEW p \in Paths, FromDir(p, d, e)
    PROVE  /\ p = e \/ Under(p, e)
           /\ Origin(p, d, e) \in Paths
           /\ p \in Dirs => Origin(p, d, e) \in Dirs
           /\ p \in Files => Origin(p, d, e) \in Files
<1>1. p \in PathSeq
  BY PathFacts
<1>2. (p = e \/ Under(p, e)) /\ Origin(p, d, e) \in Paths
  BY DEF FromDir, InTree
<1>3. CASE p = e
  <2>1. Origin(p, d, e) = d /\ p \notin Files
    BY <1>3, OriginOfRoot, PathFacts
  <2>. QED BY <1>2, <2>1
<1>4. CASE Under(p, e)
  <2>1. Last(Origin(p, d, e)) = Last(p)
    BY <1>1, <1>4, OriginUnder
  <2>. QED BY <1>2, <2>1, WatcherAssumption DEF Paths
<1>. QED BY <1>2, <1>3, <1>4

LEMMA OriginFront ==
    ASSUME NEW d \in Dirs, NEW e \in Dirs, NEW p \in Paths, FromDir(p, d, e), p # e
    PROVE  /\ Front(p) \in Dirs /\ FromDir(Front(p), d, e)
           /\ Front(Origin(p, d, e)) = Origin(Front(p), d, e)
<1>1. p \in PathSeq /\ d \in PathSeq /\ d # <<>>
  BY PathFacts
<1>2. Under(p, e) /\ Origin(p, d, e) \in Paths
  BY DEF FromDir, InTree
<1>3. Front(p) \in Dirs /\ (e = Front(p) \/ Under(Front(p), e))
  BY <1>2, FrontOf
<1>4. Front(Origin(p, d, e)) = Origin(Front(p), d, e) /\ Under(Origin(p, d, e), d)
  BY <1>1, <1>2, OriginUnder
<1>5. Front(Origin(p, d, e)) \in Dirs
  BY <1>2, <1>4, FrontOf
<1>6. Front(p) \in Paths /\ Origin(Front(p), d, e) \in Paths
  BY <1>3, <1>4, <1>5, PathFacts
<1>. QED BY <1>3, <1>4, <1>6 DEF FromDir, InTree

----------------------------------------------------------------------------
(* What is queued and what a walk has still to do.                         *)

Event == [op : Ops, path : Paths]
WalkStep == [path : Dirs, step : {"read", "watch"}]

PathsOf(S) == {v.path : v \in S}
CreatedIn(q) == PathsOf({v \in ToSet(q) : v.op = "create"})
RenamedIn(q) == PathsOf({v \in ToSet(q) : v.op = "rename"})
WatchesIn(t) == PathsOf({v \in ToSet(t) : v.step = "watch"})
ReadsIn(t) == PathsOf({v \in ToSet(t) : v.step = "read"})

AllRename(q) == \A v \in ToSet(q) : v.op = "rename"
EndsInRename(q) == q # <<>> => q[Len(q)].op = "rename"
OneOther(q) ==
    \A i, j \in DOMAIN q : (q[i].op # "rename" /\ q[j].op # "rename") => i = j

LEMMA EmptyQueue ==
    /\ CreatedIn(<<>>) = {} /\ RenamedIn(<<>>) = {} /\ WatchesIn(<<>>) = {} /\ ReadsIn(<<>>) = {}
    /\ AllRename(<<>>) /\ OneOther(<<>>) /\ EndsInRename(<<>>)
  BY ToSetEmpty DEF CreatedIn, RenamedIn, WatchesIn, ReadsIn, PathsOf, AllRename, OneOther, EndsInRename

LEMMA QueueTail ==
    ASSUME NEW q \in Seq(Event), q # <<>>
    PROVE  /\ Head(q) \in Event /\ Tail(q) \in Seq(Event)
           /\ CreatedIn(Tail(q)) \subseteq CreatedIn(q)
           /\ RenamedIn(Tail(q)) \subseteq RenamedIn(q)
           /\ CreatedIn(q) \subseteq CreatedIn(Tail(q)) \union {Head(q).path}
           /\ Head(q).op = "create" => Head(q).path \in CreatedIn(q)
           /\ Head(q).op = "rename" => Head(q).path \in RenamedIn(q)
           /\ Head(q).op # "create" => CreatedIn(q) \subseteq CreatedIn(Tail(q))
           /\ Head(q).op # "rename" => RenamedIn(q) \subseteq RenamedIn(Tail(q))
           /\ AllRename(q) => AllRename(Tail(q)) /\ Head(q).op = "rename"
           /\ EndsInRename(q) => EndsInRename(Tail(q))
           /\ OneOther(q) => OneOther(Tail(q)) /\ (Head(q).op # "rename" => AllRename(Tail(q)))
<1>. DEFINE u == Tail(q)
            h == Head(q)
            M == Len(u)
<1>1. /\ h \in Event /\ u \in Seq(Event)
      /\ ToSet(q) = {h} \union ToSet(u)
      /\ u # <<>> => u[Len(u)] = q[Len(q)]
      /\ u = <<>> => q[Len(q)] = h
  BY ToSetTail
<1>2. /\ M = Len(q) - 1 /\ \A i \in 1..M : u[i] = q[i + 1]
  BY HeadTailProperties
<1>3. M \in Nat /\ Len(q) = M + 1 /\ DOMAIN q = 1..(M + 1) /\ DOMAIN u = 1..M
  BY <1>1, <1>2, LenProperties, EmptySeq
<1>4. h = q[1]
  OBVIOUS
<1>. HIDE DEF u, h, M
<1>5. ToSet(u) = {u[i] : i \in 1..M}
  BY <1>3 DEF ToSet
<1>6. \A i \in 1..M : i + 1 \in 1..(M + 1) /\ i + 1 # 1
  BY <1>3
<1>7. 1 \in 1..(M + 1)
  BY <1>3
<1>8. \A i, j \in 1..M : i + 1 = j + 1 => i = j
  BY <1>3
<1>9. ASSUME OneOther(q) PROVE OneOther(u)
  <2>1. \A i, j \in 1..(M + 1) : (q[i].op # "rename" /\ q[j].op # "rename") => i = j
    BY <1>3, <1>9 DEF OneOther
  <2>2. \A i, j \in 1..M : (u[i].op # "rename" /\ u[j].op # "rename") => i = j
    <3>. SUFFICES ASSUME NEW i \in 1..M, NEW j \in 1..M, u[i].op # "rename", u[j].op # "rename"
                  PROVE  i = j
      OBVIOUS
    <3>1. q[i + 1].op # "rename" /\ q[j + 1].op # "rename"
      BY <1>2
    <3>2. i + 1 = j + 1
      BY <1>6, <2>1, <3>1
    <3>. QED BY <1>8, <3>2
  <2>. QED BY <1>3, <2>2 DEF OneOther
<1>10. ASSUME OneOther(q), h.op # "rename" PROVE AllRename(u)
  <2>1. \A i, j \in 1..(M + 1) : (q[i].op # "rename" /\ q[j].op # "rename") => i = j
    BY <1>3, <1>10 DEF OneOther
  <2>2. \A i \in 1..M : u[i].op = "rename"
    <3>. SUFFICES ASSUME NEW i \in 1..M, u[i].op # "rename" PROVE FALSE
      OBVIOUS
    <3>1. q[i + 1].op # "rename" /\ q[1].op # "rename"
      BY <1>2, <1>4, <1>10
    <3>2. i + 1 = 1
      BY <1>6, <1>7, <2>1, <3>1
    <3>. QED BY <1>6, <3>2
  <2>. QED BY <1>5, <2>2 DEF AllRename
<1>11. AllRename(q) => AllRename(u) /\ h.op = "rename"
  BY <1>1 DEF AllRename
<1>12. EndsInRename(q) => EndsInRename(u)
  BY <1>1 DEF EndsInRename
<1>13. /\ CreatedIn(u) \subseteq CreatedIn(q)
       /\ RenamedIn(u) \subseteq RenamedIn(q)
       /\ CreatedIn(q) \subseteq CreatedIn(u) \union {h.path}
       /\ h.op = "create" => h.path \in CreatedIn(q)
       /\ h.op = "rename" => h.path \in RenamedIn(q)
       /\ h.op # "create" => CreatedIn(q) \subseteq CreatedIn(u)
       /\ h.op # "rename" => RenamedIn(q) \subseteq RenamedIn(u)
  BY <1>1 DEF CreatedIn, RenamedIn, PathsOf
<1>. QED BY <1>1, <1>9, <1>10, <1>11, <1>12, <1>13 DEF u, h

\* An event at the end of the queue.
LEMMA QueueMore ==
    ASSUME NEW q \in Seq(Event), NEW op \in Ops, NEW p \in Paths,
           NEW s, s = <<[op |-> op, path |-> p]>>
    PROVE  /\ q \o s \in Seq(Event)
           /\ CreatedIn(q \o s) = CreatedIn(q) \union (IF op = "create" THEN {p} ELSE {})
           /\ RenamedIn(q \o s) = RenamedIn(q) \union (IF op = "rename" THEN {p} ELSE {})
<1>. DEFINE v == [op |-> op, path |-> p]
<1>1. v \in Event /\ v.op = op /\ v.path = p
  BY DEF Event
<1>. HIDE DEF v
<1>2. <<v>> \in Seq(Event) /\ s = <<v>>
  BY <1>1 DEF v
<1>3. q \o s \in Seq(Event) /\ ToSet(q \o s) = ToSet(q) \union ToSet(s)
  <2>1. \A z \in Seq(Event) : q \o z \in Seq(Event) /\ ToSet(q \o z) = ToSet(q) \union ToSet(z)
    BY ToSetConcat
  <2>2. s \in Seq(Event)
    BY <1>2
  <2>. QED BY <2>1, <2>2
<1>4. ToSet(s) = {v}
  BY <1>2, ToSetOne
<1>5. ToSet(q \o s) = ToSet(q) \union {v}
  BY <1>3, <1>4
<1>. QED BY <1>1, <1>3, <1>5 DEF CreatedIn, RenamedIn, PathsOf

LEMMA QueueSame ==
    ASSUME NEW q \in Seq(Event)
    PROVE  q \o <<>> = q
  BY ConcatEmptySeq

\* The queue of a rename that the watcher was waiting for.
LEMMA RenameQueue ==
    ASSUME NEW d \in Paths, NEW e \in Paths,
           NEW q, q = <<[op |-> "rename", path |-> d], [op |-> "create", path |-> e],
                        [op |-> "rename", path |-> d]>>
    PROVE  /\ q \in Seq(Event) /\ CreatedIn(q) = {e} /\ RenamedIn(q) = {d}
           /\ EndsInRename(q) /\ OneOther(q) /\ q # <<>>
<1>1. q \in Seq(Event) /\ DOMAIN q = 1..3 /\ Len(q) = 3 /\ q # <<>>
  BY DEF Event, Ops
<1>2. /\ q[1].op = "rename" /\ q[1].path = d
      /\ q[2].op = "create" /\ q[2].path = e
      /\ q[3].op = "rename" /\ q[3].path = d
  OBVIOUS
<1>3. ToSet(q) = {q[1], q[2], q[3]}
  BY <1>1 DEF ToSet
<1>4. CreatedIn(q) = {e} /\ RenamedIn(q) = {d}
  BY <1>2, <1>3 DEF CreatedIn, RenamedIn, PathsOf
<1>5. \A i \in 1..3 : i = 1 \/ i = 2 \/ i = 3
  OBVIOUS
<1>6. OneOther(q)
  BY <1>1, <1>2, <1>5 DEF OneOther
<1>. QED BY <1>1, <1>2, <1>4, <1>6 DEF EndsInRename

LEMMA OutQueue ==
    ASSUME NEW d \in Paths,
           NEW q, q = <<[op |-> "rename", path |-> d], [op |-> "rename", path |-> d]>>
    PROVE  /\ q \in Seq(Event) /\ CreatedIn(q) = {} /\ RenamedIn(q) = {d}
           /\ EndsInRename(q) /\ AllRename(q) /\ OneOther(q) /\ q # <<>>
<1>1. q \in Seq(Event) /\ DOMAIN q = 1..2 /\ Len(q) = 2 /\ q # <<>>
  BY DEF Event, Ops
<1>2. /\ q[1].op = "rename" /\ q[1].path = d
      /\ q[2].op = "rename" /\ q[2].path = d
  OBVIOUS
<1>3. ToSet(q) = {q[1], q[2]}
  BY <1>1 DEF ToSet
<1>4. CreatedIn(q) = {} /\ RenamedIn(q) = {d} /\ AllRename(q)
  BY <1>2, <1>3 DEF CreatedIn, RenamedIn, PathsOf, AllRename
<1>5. \A i \in 1..2 : i = 1 \/ i = 2
  OBVIOUS
<1>6. OneOther(q)
  BY <1>1, <1>2, <1>5 DEF OneOther
<1>. QED BY <1>1, <1>2, <1>4, <1>6 DEF EndsInRename

----------------------------------------------------------------------------
(* The inductive invariant.                                                *)

JobOK ==
    /\ job \in [kind : {"none", "create", "pair"}, path : Dirs \union {<<>>},
                from : Dirs \union {<<>>}, todo : Seq(WalkStep)]
    /\ job.kind = "none" => job = NoJob
    /\ job.kind # "none" => job.path \in Dirs
    /\ job.kind = "pair" => job.from \in Dirs

TypeInv == TypeOK /\ JobOK /\ ops \in Nat /\ ops <= MaxOps

\* A tree of directories and files; a watch is that of a directory that is there.
Shape ==
    /\ Rooted(tree)
    /\ \A d \in Dirs : tree[d] = 0 \/ tree[d] = 1
    /\ \A f \in Files : tree[f] # 1
    /\ \A d \in Dirs : watch[d] # NoWatch => tree[d] = 1

\* A directory is watched, or will be: the Create of it or of one above it is
\* queued, or the walk under way has one of them to watch or one above it to read.
Promised(C, W, R, x) ==
    \E y \in Dirs :
       /\ y = x \/ Under(x, y)
       /\ y \in C \/ y \in W \/ (y # x /\ y \in R)
Reached ==
    \A x \in Dirs :
       tree[x] = 1 =>
          \/ watch[x] = x
          \/ Promised(CreatedIn(queue), WatchesIn(job.todo), ReadsIn(job.todo), x)

\* Between renames the kernel reports on a directory under its own name.
Own ==
    \/ RenamedIn(queue) # {}
    \/ job.kind = "pair"
    \/ \A x \in Dirs : watch[x] = x \/ watch[x] = NoWatch

\* What was renamed, and may yet be paired, is gone.
Leaving == ToSet(renames) \union RenamedIn(queue)
Gone == \A r \in Leaving : r \in Dirs /\ tree[r] = 0

\* While a rename is settling the queue holds what the rename put there.
Over == ToSet(renames) = {} /\ suppressed = {} /\ job.kind # "pair" /\ RenamedIn(queue) = {}
Order ==
    /\ RenamedIn(queue) # {} => EndsInRename(queue)
    /\ ~Over => OneOther(queue)
    /\ suppressed # {} \/ job.kind = "pair" \/ (~Over /\ ToSet(creates) # {}) => AllRename(queue)

Steady == Shape /\ Reached /\ Own /\ Gone /\ Order
IndInv == TypeInv /\ Steady

LEMMA ToSetNone ==
    ASSUME NEW A, NEW s \in Seq(A)
    PROVE  ToSet(s) = {} <=> s = <<>>
<1>1. s = <<>> => ToSet(s) = {}
  BY ToSetEmpty
<1>2. s # <<>> => Head(s) \in ToSet(s)
  BY ToSetTail
<1>. QED BY <1>1, <1>2

LEMMA TypeFacts ==
    ASSUME TypeInv
    PROVE  /\ tree \in [Paths -> 0..(MaxOps + 3)] /\ watch \in [Dirs -> Dirs \union {NoWatch}]
           /\ queue \in Seq(Event) /\ renames \in Seq(Dirs) /\ creates \in Seq(Dirs)
           /\ tracked \subseteq Dirs /\ suppressed \subseteq Dirs
           /\ job.todo \in Seq(WalkStep) /\ (job = NoJob <=> job.kind = "none")
           /\ NoJob.kind = "none" /\ NoJob.todo = <<>>
  BY DEF TypeInv, TypeOK, JobOK, Event, NoJob

LEMMA OverIs ==
    ASSUME TypeInv
    PROVE  RenameOver <=> Over
<1>1. renames \in Seq(Dirs) /\ queue \in Seq(Event)
  BY TypeFacts
<1>2. renames = <<>> <=> ToSet(renames) = {}
  BY <1>1, ToSetNone
<1>3. (\A i \in DOMAIN queue : queue[i].op # "rename") <=> RenamedIn(queue) = {}
  BY DEF RenamedIn, PathsOf, ToSet
<1>. QED BY <1>2, <1>3 DEF RenameOver, Over

LEMMA IdleIs ==
    ASSUME TypeInv, ~Busy
    PROVE  /\ queue = <<>> /\ job = NoJob /\ job.kind = "none" /\ job.todo = <<>>
           /\ CreatedIn(queue) = {} /\ RenamedIn(queue) = {}
           /\ WatchesIn(job.todo) = {} /\ ReadsIn(job.todo) = {}
<1>1. queue = <<>> /\ job = NoJob
  BY DEF Busy
<1>2. job.kind = "none" /\ job.todo = <<>>
  BY <1>1, TypeFacts
<1>. QED BY <1>1, <1>2, EmptyQueue

LEMMA IdleWatched ==
    ASSUME IndInv, ~Busy
    PROVE  \A x \in Dirs : tree[x] = 1 => watch[x] = x
<1>1. TypeInv /\ Reached
  BY DEF IndInv, Steady
<1>2. \A x : ~Promised(CreatedIn(queue), WatchesIn(job.todo), ReadsIn(job.todo), x)
  BY <1>1, IdleIs DEF Promised
<1>. QED BY <1>1, <1>2 DEF Reached

\* What inotify reports when every watch has its directory's own name.
LEMMA SeenIs ==
    ASSUME TypeInv, \A x \in Dirs : watch[x] = x \/ watch[x] = NoWatch,
           NEW op \in Ops, NEW p \in Paths
    PROVE  /\ Seen(op, p) = <<>> \/ Seen(op, p) = <<[op |-> op, path |-> p]>>
           /\ Front(p) = <<>> \/ watch[Front(p)] = Front(p) => Seen(op, p) = <<[op |-> op, path |-> p]>>
           /\ Seen(op, p) = <<>> => Front(p) \in Dirs /\ watch[Front(p)] = NoWatch
<1>1. p \in PathSeq /\ p # <<>> /\ (Front(p) = <<>> \/ Front(p) \in Dirs)
  BY PathFacts
<1>2. Append(Front(p), Last(p)) = p
  BY <1>1, FrontIs
<1>3. \A d \in Dirs : d # NoWatch
  BY WatcherAssumption
<1>4. CASE Front(p) = <<>>
  <2>1. Seen(op, p) = <<[op |-> op, path |-> p]>>
    BY <1>4 DEF Seen
  <2>2. <<[op |-> op, path |-> p]>> # <<>>
    OBVIOUS
  <2>. QED BY <2>1, <2>2
<1>5. CASE Front(p) # <<>> /\ watch[Front(p)] = NoWatch
  <2>1. Seen(op, p) = <<>>
    BY <1>5 DEF Seen
  <2>. QED BY <1>1, <1>3, <1>5, <2>1
<1>6. CASE Front(p) # <<>> /\ watch[Front(p)] # NoWatch
  <2>1. watch[Front(p)] = Front(p)
    BY <1>1, <1>6
  <2>2. Seen(op, p) = <<[op |-> op, path |-> p]>>
    BY <1>2, <1>6, <2>1 DEF Seen
  <2>3. <<[op |-> op, path |-> p]>> # <<>>
    OBVIOUS
  <2>. QED BY <2>1, <2>2, <2>3
<1>. QED BY <1>4, <1>5, <1>6

----------------------------------------------------------------------------
(* The steps, by what they do to the part of the state the invariant is    *)
(* about.                                                                  *)

Still == tree' = tree
Neutral ==
    /\ Still /\ watch' = watch /\ queue' = queue /\ job' = job
    /\ ToSet(renames') \subseteq ToSet(renames) /\ ToSet(creates') \subseteq ToSet(creates)
    /\ suppressed' \subseteq suppressed
Taken == job = NoJob /\ queue # <<>> /\ queue' = Tail(queue)
Dropped ==
    /\ Still /\ Taken /\ watch' = watch /\ job' = job
    /\ creates' = creates /\ suppressed' = suppressed
    /\ ToSet(renames') \subseteq Leaving
    /\ Head(queue).op = "create" => tree[Head(queue).path] # 1
PairFound(from, to) ==
    /\ Still /\ Taken /\ Pair(from, to)
    /\ from \in Leaving /\ to \in Dirs
    /\ AllRename(queue')
    /\ ToSet(renames') \subseteq ToSet(renames) /\ ToSet(creates') \subseteq ToSet(creates)
    /\ Head(queue).op = "create" => Head(queue).path = to

LEMMA TailSet ==
    ASSUME NEW A, NEW s \in Seq(A), s # <<>>
    PROVE  ToSet(Tail(s)) \subseteq ToSet(s) /\ Head(s) \in ToSet(s) /\ ToSet(s) # {}
<1>1. ToSet(s) = {Head(s)} \union ToSet(Tail(s))
  BY ToSetTail
<1>. QED BY <1>1

\* The head of the queue, once Handling has taken it.
LEMMA HandlingIs ==
    ASSUME TypeInv, NEW op, NEW p, Handling(op, p)
    PROVE  /\ Taken /\ Still
           /\ Head(queue).op = op /\ Head(queue).path = p
           /\ queue \in Seq(Event) /\ queue # <<>>
<1>1. Head(queue) = [op |-> op, path |-> p]
  BY DEF Handling
<1>2. Head(queue).op = op /\ Head(queue).path = p
  BY <1>1
<1>. QED BY <1>2, TypeFacts DEF Handling, Taken, Still, auxVars

LEMMA NeutralSteps ==
    ASSUME TypeInv,
           \/ PullRecord \/ (\E p \in Paths : TimerFires(p) \/ \E op \in firing[p] : FireEvent(p, op))
           \/ ExpireRename \/ ExpireCreate \/ ExpireSuppressed \/ AtRest \/ UNCHANGED vars
    PROVE  Neutral
<1>0. renames \in Seq(Dirs) /\ creates \in Seq(Dirs)
  BY TypeFacts
<1>1. CASE PullRecord
  BY <1>1 DEF PullRecord, Neutral, Still, pairVars, auxVars
<1>2. ASSUME NEW p \in Paths, TimerFires(p) PROVE Neutral
  BY <1>2 DEF TimerFires, Neutral, Still, pairVars, auxVars, fsVars
<1>3. ASSUME NEW p \in Paths, NEW op \in firing[p], FireEvent(p, op) PROVE Neutral
  BY <1>3 DEF FireEvent, Neutral, Still, pairVars
<1>4. CASE ExpireRename
  <2>1. PICK d \in ToSet(renames) :
           /\ renames' = Without(renames, d)
           /\ UNCHANGED <<fsVars, queue, creates, suppressed, tracked, job, bounceVars>>
    BY <1>4 DEF ExpireRename
  <2>2. ToSet(Without(renames, d)) \subseteq ToSet(renames)
    BY <1>0, WithoutFacts
  <2>. QED BY <2>1, <2>2 DEF Neutral, Still, fsVars
<1>5. CASE ExpireCreate
  <2>1. ToSet(Tail(creates)) \subseteq ToSet(creates)
    BY <1>0, <1>5, TailSet DEF ExpireCreate
  <2>. QED BY <1>5, <2>1 DEF ExpireCreate, Neutral, Still, fsVars, auxVars
<1>6. CASE ExpireSuppressed
  BY <1>6 DEF ExpireSuppressed, Neutral, Still, fsVars, auxVars
<1>7. CASE AtRest \/ UNCHANGED vars
  BY <1>7 DEF AtRest, vars, Neutral, Still, fsVars, pairVars, auxVars
<1>. QED BY <1>1, <1>2, <1>3, <1>4, <1>5, <1>6, <1>7

LEMMA DroppedSteps ==
    ASSUME IndInv,
           \/ DropSuppressed
           \/ \E p \in Paths : \/ RenameBuffered(p) \/ RenameDebounced(p) \/ CreateOther(p)
                               \/ HandleWrite(p) \/ HandleRemove(p)
    PROVE  Dropped
<1>0. TypeInv /\ Order
  BY DEF IndInv, Steady
<1>1. renames \in Seq(Dirs) /\ creates \in Seq(Dirs) /\ queue \in Seq(Event) /\ tracked \subseteq Dirs
  BY <1>0, TypeFacts
<1>2. CASE DropSuppressed
  <2>1. suppressed # {} /\ queue # <<>>
    BY <1>2 DEF DropSuppressed, IsSuppressed
  <2>2. AllRename(queue)
    BY <1>0, <2>1 DEF Order
  <2>3. Head(queue).op = "rename"
    BY <1>1, <2>1, <2>2, QueueTail
  <2>. QED BY <1>2, <2>3 DEF DropSuppressed, Dropped, Taken, Still, Leaving, fsVars, pairVars, auxVars
<1>3. ASSUME NEW p \in Paths, RenameBuffered(p) PROVE Dropped
  <2>1. /\ Taken /\ Still /\ Head(queue).op = "rename" /\ Head(queue).path = p
        /\ queue # <<>>
    BY <1>0, <1>3, HandlingIs DEF RenameBuffered
  <2>2. p \in RenamedIn(queue)
    BY <1>1, <2>1, QueueTail
  <2>3. p \in Dirs
    BY <1>1, <1>3 DEF RenameBuffered
  <2>4. Without(renames, p) \in Seq(Dirs) /\ ToSet(Without(renames, p)) \subseteq ToSet(renames)
    BY <1>1, WithoutFacts
  <2>5. ToSet(Append(Without(renames, p), p)) = ToSet(Without(renames, p)) \union {p}
    BY <2>3, <2>4, ToSetAppend
  <2>6. ToSet(renames') \subseteq Leaving
    BY <1>3, <2>2, <2>4, <2>5 DEF RenameBuffered, Leaving
  <2>. QED BY <1>3, <2>1, <2>6 DEF RenameBuffered, Dropped
<1>4. ASSUME NEW p \in Paths, RenameDebounced(p) PROVE Dropped
  <2>1. Taken /\ Still /\ Head(queue).op = "rename"
    BY <1>0, <1>4, HandlingIs DEF RenameDebounced
  <2>. QED BY <1>4, <2>1 DEF RenameDebounced, Dropped, Leaving, pairVars
<1>5. ASSUME NEW p \in Paths, CreateOther(p) PROVE Dropped
  <2>1. Taken /\ Still /\ Head(queue).path = p
    BY <1>0, <1>5, HandlingIs DEF CreateOther
  <2>. QED BY <1>5, <2>1 DEF CreateOther, Dropped, Leaving, pairVars, IsDir
<1>6. ASSUME NEW p \in Paths, HandleWrite(p) PROVE Dropped
  <2>1. Taken /\ Still /\ Head(queue).op = "write"
    BY <1>0, <1>6, HandlingIs DEF HandleWrite
  <2>. QED BY <1>6, <2>1 DEF HandleWrite, Dropped, Leaving, pairVars
<1>7. ASSUME NEW p \in Paths, HandleRemove(p) PROVE Dropped
  <2>1. Taken /\ Still /\ Head(queue).op = "remove"
    BY <1>0, <1>7, HandlingIs DEF HandleRemove
  <2>. QED BY <1>7, <2>1 DEF HandleRemove, Dropped, Leaving
<1>. QED BY <1>2, <1>3, <1>4, <1>5, <1>6, <1>7

LEMMA PairSteps ==
    ASSUME IndInv, NEW p \in Paths, CreatePairs(p) \/ RenamePairs(p)
    PROVE  \E from, to \in Dirs : PairFound(from, to)
<1>0. TypeInv /\ Order /\ Shape
  BY DEF IndInv, Steady
<1>1. renames \in Seq(Dirs) /\ creates \in Seq(Dirs) /\ queue \in Seq(Event) /\ tracked \subseteq Dirs
  BY <1>0, TypeFacts
<1>2. CASE CreatePairs(p)
  <2>. DEFINE from == Head(renames)
  <2>1. /\ Taken /\ Still /\ Head(queue).op = "create" /\ Head(queue).path = p
        /\ queue # <<>>
    BY <1>0, <1>2, HandlingIs DEF CreatePairs
  <2>2. p \in Dirs
    BY <1>0, <1>2 DEF CreatePairs, IsDir, Shape, Paths
  <2>3. renames # <<>> /\ renames' = Tail(renames) /\ Pair(from, p) /\ creates' = creates
    BY <1>2 DEF CreatePairs
  <2>4. from \in Dirs /\ from \in ToSet(renames) /\ ToSet(Tail(renames)) \subseteq ToSet(renames)
    BY <1>1, <2>3, ToSetTail, TailSet
  <2>5. ToSet(renames) # {}
    BY <2>4
  <2>6. OneOther(queue)
    BY <1>0, <2>5 DEF Order, Over
  <2>7. AllRename(Tail(queue)) /\ p \in CreatedIn(queue)
    BY <1>1, <2>1, <2>6, QueueTail
  <2>8. PairFound(from, p)
    <3>. HIDE DEF from
    <3>1. AllRename(queue')
      BY <2>1, <2>7 DEF Taken
    <3>. QED BY <2>1, <2>2, <2>3, <2>4, <2>7, <3>1 DEF PairFound, Leaving
  <2>. QED BY <2>2, <2>4, <2>8
<1>3. CASE RenamePairs(p)
  <2>. DEFINE to == Head(creates)
  <2>1. /\ Taken /\ Still /\ Head(queue).op = "rename" /\ Head(queue).path = p
        /\ queue # <<>>
    BY <1>0, <1>3, HandlingIs DEF RenamePairs
  <2>2. p \in Dirs
    BY <1>1, <1>3 DEF RenamePairs
  <2>3. creates # <<>> /\ creates' = Tail(creates) /\ Pair(p, to) /\ renames' = renames
    BY <1>3 DEF RenamePairs
  <2>4. to \in Dirs /\ to \in ToSet(creates) /\ ToSet(Tail(creates)) \subseteq ToSet(creates)
    BY <1>1, <2>3, ToSetTail, TailSet
  <2>5. p \in RenamedIn(queue)
    BY <1>1, <2>1, QueueTail
  <2>6. ToSet(creates) # {} /\ ~Over
    BY <2>4, <2>5 DEF Over
  <2>7. AllRename(queue)
    BY <1>0, <2>6 DEF Order
  <2>8. AllRename(Tail(queue))
    BY <1>1, <2>1, <2>7, QueueTail
  <2>9. PairFound(p, to)
    <3>. HIDE DEF to
    <3>1. AllRename(queue')
      BY <2>1, <2>8 DEF Taken
    <3>. QED BY <2>1, <2>2, <2>3, <2>4, <2>5, <3>1 DEF PairFound, Leaving
  <2>. QED BY <2>2, <2>4, <2>9
<1>. QED BY <1>2, <1>3

----------------------------------------------------------------------------
(* Each kind of step keeps the invariant.                                  *)

LEMMA NoPromise == \A x : ~Promised({}, {}, {}, x)
  BY DEF Promised

LEMMA EndHasRename ==
    ASSUME NEW q \in Seq(Event), q # <<>>, EndsInRename(q)
    PROVE  RenamedIn(q) # {}
<1>1. Len(q) \in DOMAIN q
  BY LenProperties, EmptySeq
<1>2. q[Len(q)] \in ToSet(q) /\ q[Len(q)].op = "rename"
  BY <1>1 DEF ToSet, EndsInRename
<1>. QED BY <1>2 DEF RenamedIn, PathsOf

LEMMA NeutralKeeps ==
    ASSUME IndInv, Neutral
    PROVE  Steady'
<1>0. TypeInv /\ Shape /\ Reached /\ Own /\ Gone /\ Order
  BY DEF IndInv, Steady
<1>1. /\ tree' = tree /\ watch' = watch /\ queue' = queue /\ job' = job
     
      /\ ToSet(renames') \subseteq ToSet(renames) /\ ToSet(creates') \subseteq ToSet(creates)
      /\ suppressed' \subseteq suppressed
  BY DEF Neutral, Still
<1>2. Shape'
  BY <1>0, <1>1 DEF Shape
<1>3. Reached'
  BY <1>0, <1>1 DEF Reached
<1>4. Own'
  BY <1>0, <1>1 DEF Own
<1>5. Gone'
  BY <1>0, <1>1 DEF Gone, Leaving
<1>7. Order'
  BY <1>0, <1>1 DEF Order, Over
<1>. QED BY <1>2, <1>3, <1>4, <1>5, <1>7 DEF Steady

\* A promise by way of a Create at the head of the queue is void when there
\* is no directory at that path.
LEMMA DroppedKeeps ==
    ASSUME IndInv, Dropped
    PROVE  Steady'
<1>0. TypeInv /\ Shape /\ Reached /\ Own /\ Gone /\ Order
  BY DEF IndInv, Steady
<1>1. /\ tree' = tree /\ watch' = watch /\ job' = job /\ job = NoJob
      /\ queue # <<>> /\ queue' = Tail(queue)
      /\ creates' = creates /\ suppressed' = suppressed /\ ToSet(renames') \subseteq Leaving
      /\ Head(queue).op = "create" => tree[Head(queue).path] # 1
  BY DEF Dropped, Still, Taken
<1>2. queue \in Seq(Event) /\ job.kind = "none" /\ job.todo = <<>>
  BY <1>0, <1>1, TypeFacts
<1>3. /\ queue' \in Seq(Event)
      /\ CreatedIn(queue') \subseteq CreatedIn(queue)
      /\ RenamedIn(queue') \subseteq RenamedIn(queue)
      /\ CreatedIn(queue) \subseteq CreatedIn(queue') \union {Head(queue).path}
      /\ Head(queue).op # "create" => CreatedIn(queue) \subseteq CreatedIn(queue')
      /\ AllRename(queue) => AllRename(queue')
      /\ EndsInRename(queue) => EndsInRename(queue')
      /\ OneOther(queue) => OneOther(queue')
  BY <1>1, <1>2, QueueTail
<1>4. Shape'
  BY <1>0, <1>1 DEF Shape
<1>5. WatchesIn(job.todo) = {} /\ ReadsIn(job.todo) = {}
  BY <1>2, EmptyQueue
<1>6. Reached'
  <2>. SUFFICES ASSUME NEW x \in Dirs, tree[x] = 1, watch[x] # x
                PROVE  Promised(CreatedIn(queue'), {}, {}, x)
    BY <1>1, <1>5 DEF Reached
  <2>1. Promised(CreatedIn(queue), {}, {}, x)
    BY <1>0, <1>5 DEF Reached
  <2>2. PICK y \in Dirs : (y = x \/ Under(x, y)) /\ y \in CreatedIn(queue)
    BY <2>1 DEF Promised
  <2>3. x \in Paths /\ Rooted(tree)
    BY <1>0, PathFacts DEF Shape
  <2>4. Under(x, y) => tree[y] = 1
    BY <2>3, AncestorExists
  <2>5. tree[y] = 1
    BY <2>2, <2>4
  <2>6. y \in CreatedIn(queue')
    BY <1>1, <1>3, <2>2, <2>5
  <2>. QED BY <2>2, <2>6 DEF Promised
<1>7. Own'
  <2>1. SUFFICES ASSUME RenamedIn(queue') = {}
                 PROVE  \A x \in Dirs : watch'[x] = x \/ watch'[x] = NoWatch
    BY DEF Own
  <2>2. CASE RenamedIn(queue) = {}
    BY <1>0, <1>1, <1>2, <2>2 DEF Own
  <2>3. CASE RenamedIn(queue) # {}
    <3>1. EndsInRename(queue')
      BY <1>0, <1>3, <2>3 DEF Order
    <3>2. queue' = <<>>
      BY <1>3, <2>1, <3>1, EndHasRename
    <3>3. CreatedIn(queue') = {}
      BY <3>2, EmptyQueue
    <3>4. \A x \in Dirs : tree[x] = 1 => watch[x] = x
      BY <1>1, <1>5, <1>6, <3>3, NoPromise DEF Reached
    <3>. QED BY <1>0, <1>1, <3>4 DEF Shape
  <2>. QED BY <2>2, <2>3
<1>8. Leaving' \subseteq Leaving
  BY <1>1, <1>3 DEF Leaving
<1>9. Gone'
  BY <1>0, <1>1, <1>8 DEF Gone
<1>11. Order'
  <2>1. Over => Over'
    BY <1>1, <1>3 DEF Over, Leaving
  <2>. QED BY <1>0, <1>1, <1>3, <2>1 DEF Order
<1>. QED BY <1>4, <1>6, <1>7, <1>9, <1>11 DEF Steady

LEMMA PairKeeps ==
    ASSUME IndInv, NEW from \in Dirs, NEW to \in Dirs, PairFound(from, to)
    PROVE  Steady'
<1>0. TypeInv /\ Shape /\ Reached /\ Own /\ Gone /\ Order
  BY DEF IndInv, Steady
<1>1. /\ tree' = tree /\ job = NoJob
      /\ queue # <<>> /\ queue' = Tail(queue)
      /\ AllRename(queue')
      /\ ToSet(renames') \subseteq ToSet(renames) /\ ToSet(creates') \subseteq ToSet(creates)
      /\ from \in Leaving
      /\ Head(queue).op = "create" => Head(queue).path = to
  BY DEF PairFound, Still, Taken
<1>2. /\ suppressed' = suppressed \union {from, to} /\ Rewatch(from, to)
      /\ job' = [kind |-> "pair", path |-> to, from |-> from, todo |-> <<ToRead(to)>>]
  BY DEF PairFound, Pair
<1>3. /\ job'.kind = "pair" /\ job'.path = to /\ job'.from = from /\ job'.todo = <<ToRead(to)>>
  BY <1>2
<1>4. queue \in Seq(Event) /\ job.kind = "none" /\ job.todo = <<>>
      /\ watch \in [Dirs -> Dirs \union {NoWatch}] /\ tracked \subseteq Dirs
  BY <1>0, <1>1, TypeFacts
<1>5. /\ queue' \in Seq(Event)
      /\ CreatedIn(queue') \subseteq CreatedIn(queue)
      /\ RenamedIn(queue') \subseteq RenamedIn(queue)
      /\ CreatedIn(queue) \subseteq CreatedIn(queue') \union {Head(queue).path}
      /\ Head(queue).op # "create" => CreatedIn(queue) \subseteq CreatedIn(queue')
      /\ EndsInRename(queue) => EndsInRename(queue')
  BY <1>1, <1>4, QueueTail
<1>6. CreatedIn(queue) \subseteq CreatedIn(queue') \union {to}
  BY <1>1, <1>5
<1>7. WatchesIn(job.todo) = {} /\ ReadsIn(job.todo) = {}
  BY <1>4, EmptyQueue
<1>8. to \in ReadsIn(job'.todo)
  <2>1. ToSet(job'.todo) = {ToRead(to)}
    BY <1>3, ToSetOne
  <2>2. ToRead(to).path = to /\ ToRead(to).step = "read"
    BY DEF ToRead
  <2>. QED BY <2>1, <2>2 DEF ReadsIn, PathsOf
<1>9. /\ \A x \in Dirs : (watch[x] = x /\ tree[x] = 1) => watch'[x] = x
      /\ tree[to] = 1 => watch'[to] = to
      /\ \A x \in Dirs : watch'[x] # NoWatch => tree[x] = 1
  <2>. DEFINE gone == SubtreeOf(from)
              rest == [d \in Dirs |-> IF watch[d] \in gone THEN NoWatch ELSE watch[d]]
  <2>1. watch' = IF tree[to] = 1 THEN [rest EXCEPT ![to] = to] ELSE rest
    BY <1>2 DEF Rewatch, Watching, IsDir
  <2>2. ASSUME NEW x \in Dirs, tree[x] = 1 PROVE x \notin gone
    <3>1. tree[from] = 0 /\ Rooted(tree) /\ x \in Paths
      BY <1>0, <1>1, PathFacts DEF Gone, Shape
    <3>2. ~Under(x, from)
      BY <2>2, <3>1, AncestorExists
    <3>. QED BY <2>2, <3>1, <3>2 DEF SubtreeOf
  <2>3. \A x \in Dirs : rest[x] = IF watch[x] \in gone THEN NoWatch ELSE watch[x]
    OBVIOUS
  <2>4. rest \in [Dirs -> Dirs \union {NoWatch}]
    BY <1>4
  <2>. HIDE DEF rest, gone
  <2>5. \A x \in Dirs : (watch[x] = x /\ tree[x] = 1) => rest[x] = x
    BY <2>2, <2>3
  <2>6. \A x \in Dirs : rest[x] # NoWatch => tree[x] = 1
    BY <1>0, <2>3 DEF Shape
  <2>7. CASE tree[to] = 1
    <3>1. \A x \in Dirs : watch'[x] = IF x = to THEN to ELSE rest[x]
      BY <2>1, <2>4, <2>7
    <3>. QED BY <2>5, <2>6, <2>7, <3>1
  <2>8. CASE tree[to] # 1
    BY <2>1, <2>5, <2>6, <2>8
  <2>. QED BY <2>7, <2>8
<1>10. Shape'
  BY <1>0, <1>1, <1>9 DEF Shape
<1>11. Reached'
  <2>. SUFFICES ASSUME NEW x \in Dirs, tree[x] = 1, watch'[x] # x
                PROVE  Promised(CreatedIn(queue'), WatchesIn(job'.todo), ReadsIn(job'.todo), x)
    BY <1>1 DEF Reached
  <2>1. watch[x] # x /\ x # to
    BY <1>9
  <2>2. Promised(CreatedIn(queue), {}, {}, x)
    BY <1>0, <1>7, <2>1 DEF Reached
  <2>3. PICK y \in Dirs : (y = x \/ Under(x, y)) /\ y \in CreatedIn(queue)
    BY <2>2 DEF Promised
  <2>4. y \in CreatedIn(queue') \/ y = to
    BY <1>6, <2>3
  <2>. QED BY <1>8, <2>1, <2>3, <2>4 DEF Promised
<1>12. Own'
  BY <1>3 DEF Own
<1>13. Leaving' \subseteq Leaving
  BY <1>1, <1>5 DEF Leaving
<1>14. Gone'
  BY <1>0, <1>1, <1>13 DEF Gone
<1>16. Order'
  <2>1. OneOther(queue')
    BY <1>1 DEF AllRename, OneOther, ToSet
  <2>2. RenamedIn(queue') # {} => EndsInRename(queue')
    BY <1>0, <1>5 DEF Order
  <2>. QED BY <1>1, <2>1, <2>2 DEF Order
<1>. QED BY <1>10, <1>11, <1>12, <1>14, <1>16 DEF Steady

LEMMA CreateDirKeeps ==
    ASSUME IndInv, NEW p \in Paths, CreateDir(p)
    PROVE  Steady'
<1>0. TypeInv /\ Shape /\ Reached /\ Own /\ Gone /\ Order
  BY DEF IndInv, Steady
<1>1. /\ Taken /\ Still /\ Head(queue).op = "create" /\ Head(queue).path = p
      /\ queue \in Seq(Event) /\ queue # <<>>
  BY <1>0, HandlingIs DEF CreateDir
<1>2. /\ tree[p] = 1 /\ creates' = Append(Without(creates, p), p) /\ renames' = renames
      /\ renames = <<>> /\ suppressed' = suppressed /\ watch' = Watching(watch, p)
      /\ job' = [kind |-> "create", path |-> p, from |-> <<>>, todo |-> <<ToRead(p)>>]
  BY DEF CreateDir, AddWatch, IsDir
<1>3. tree' = tree /\ job = NoJob /\ queue' = Tail(queue)
  BY <1>1 DEF Still, Taken
<1>4. job'.kind = "create" /\ job'.todo = <<ToRead(p)>>
  BY <1>2
<1>5. /\ job.kind = "none" /\ job.todo = <<>> /\ creates \in Seq(Dirs)
      /\ watch \in [Dirs -> Dirs \union {NoWatch}]
  BY <1>0, <1>3, TypeFacts
<1>6. p \in Dirs
  BY <1>0, <1>2 DEF Shape, Paths
<1>7. /\ queue' \in Seq(Event)
      /\ CreatedIn(queue') \subseteq CreatedIn(queue)
      /\ RenamedIn(queue') \subseteq RenamedIn(queue)
      /\ CreatedIn(queue) \subseteq CreatedIn(queue') \union {p}
      /\ p \in CreatedIn(queue)
      /\ RenamedIn(queue) \subseteq RenamedIn(queue')
      /\ AllRename(queue) => FALSE
      /\ EndsInRename(queue) => EndsInRename(queue')
      /\ OneOther(queue) => OneOther(queue') /\ AllRename(queue')
  BY <1>1, <1>3, QueueTail
<1>8. WatchesIn(job.todo) = {} /\ ReadsIn(job.todo) = {}
  BY <1>5, EmptyQueue
<1>9. p \in ReadsIn(job'.todo)
  <2>1. ToSet(job'.todo) = {ToRead(p)}
    BY <1>4, ToSetOne
  <2>2. ToRead(p).path = p /\ ToRead(p).step = "read"
    BY DEF ToRead
  <2>. QED BY <2>1, <2>2 DEF ReadsIn, PathsOf
<1>10. \A x \in Dirs : watch'[x] = IF x = p THEN p ELSE watch[x]
  BY <1>2, <1>5, <1>6 DEF Watching, IsDir
<1>11. Shape'
  BY <1>0, <1>2, <1>3, <1>10 DEF Shape
<1>12. Reached'
  <2>. SUFFICES ASSUME NEW x \in Dirs, tree[x] = 1, watch'[x] # x
                PROVE  Promised(CreatedIn(queue'), WatchesIn(job'.todo), ReadsIn(job'.todo), x)
    BY <1>3 DEF Reached
  <2>1. watch[x] # x /\ x # p
    BY <1>10
  <2>2. Promised(CreatedIn(queue), {}, {}, x)
    BY <1>0, <1>8, <2>1 DEF Reached
  <2>3. PICK y \in Dirs : (y = x \/ Under(x, y)) /\ y \in CreatedIn(queue)
    BY <2>2 DEF Promised
  <2>4. y \in CreatedIn(queue') \/ y = p
    BY <1>7, <2>3
  <2>. QED BY <1>9, <2>1, <2>3, <2>4 DEF Promised
<1>13. Own'
  BY <1>0, <1>5, <1>7, <1>10 DEF Own
<1>14. ToSet(creates') \subseteq ToSet(creates) \union {p}
  <2>1. Without(creates, p) \in Seq(Dirs) /\ ToSet(Without(creates, p)) \subseteq ToSet(creates)
    BY <1>5, WithoutFacts
  <2>2. ToSet(Append(Without(creates, p), p)) = ToSet(Without(creates, p)) \union {p}
    BY <1>6, <2>1, ToSetAppend
  <2>. QED BY <1>2, <2>1, <2>2
<1>15. Leaving' \subseteq Leaving
  BY <1>2, <1>7, <1>14 DEF Leaving
<1>16. Gone'
  BY <1>0, <1>3, <1>15 DEF Gone
<1>18. Order'
  <2>1. Over => Over'
    BY <1>2, <1>4, <1>7 DEF Over
  <2>2. suppressed = {}
    BY <1>0, <1>7 DEF Order
  <2>. QED BY <1>0, <1>2, <1>4, <1>7, <2>1, <2>2 DEF Order
<1>. QED BY <1>11, <1>12, <1>13, <1>16, <1>18 DEF Steady

\* What the walk keeps of the rest of the state.
LEMMA WalkKeeps ==
    ASSUME IndInv, UNCHANGED <<tree, queue, renames, creates, suppressed>>,
           job'.kind = job.kind, job'.path = job.path, job'.from = job.from
    PROVE  Gone' /\ Order'
<1>0. Gone /\ Order
  BY DEF IndInv, Steady
<1>1. Gone'
  BY <1>0 DEF Gone, Leaving
<1>3. Order'
  BY <1>0 DEF Order, Over
<1>. QED BY <1>1, <1>3

LEMMA TodoTail ==
    ASSUME NEW t \in Seq(WalkStep), t # <<>>
    PROVE  /\ Head(t) \in WalkStep /\ Tail(t) \in Seq(WalkStep)
           /\ WatchesIn(t) = WatchesIn(Tail(t)) \union (IF Head(t).step = "watch" THEN {Head(t).path} ELSE {})
           /\ ReadsIn(t) = ReadsIn(Tail(t)) \union (IF Head(t).step = "read" THEN {Head(t).path} ELSE {})
<1>. DEFINE h == Head(t)
            u == Tail(t)
<1>1. h \in WalkStep /\ u \in Seq(WalkStep) /\ ToSet(t) = {h} \union ToSet(u)
  BY ToSetTail
<1>. HIDE DEF h, u
<1>2. /\ WatchesIn(t) = WatchesIn(u) \union (IF h.step = "watch" THEN {h.path} ELSE {})
      /\ ReadsIn(t) = ReadsIn(u) \union (IF h.step = "read" THEN {h.path} ELSE {})
  BY <1>1 DEF WatchesIn, ReadsIn, PathsOf
<1>. QED BY <1>1, <1>2 DEF h, u

LEMMA TodoConcat ==
    ASSUME NEW s \in Seq(WalkStep), NEW t \in Seq(WalkStep)
    PROVE  /\ s \o t \in Seq(WalkStep)
           /\ WatchesIn(s \o t) = WatchesIn(s) \union WatchesIn(t)
           /\ ReadsIn(s \o t) = ReadsIn(s) \union ReadsIn(t)
<1>1. s \o t \in Seq(WalkStep) /\ ToSet(s \o t) = ToSet(s) \union ToSet(t)
  BY ToSetConcat
<1>. QED BY <1>1 DEF WatchesIn, ReadsIn, PathsOf

LEMMA TodoRead ==
    ASSUME NEW d \in Dirs
    PROVE  /\ <<ToRead(d)>> \in Seq(WalkStep)
           /\ WatchesIn(<<ToRead(d)>>) = {} /\ ReadsIn(<<ToRead(d)>>) = {d}
<1>1. ToRead(d) \in WalkStep /\ ToRead(d).step = "read" /\ ToRead(d).path = d
  BY DEF ToRead, WalkStep
<1>2. ToSet(<<ToRead(d)>>) = {ToRead(d)}
  BY ToSetOne
<1>. QED BY <1>1, <1>2 DEF WatchesIn, ReadsIn, PathsOf

\* A subdirectory gets its watch, and is to be read.
LEMMA WatchStep ==
    ASSUME TypeInv, WalkWatch
    PROVE  \E h \in Dirs :
              /\ h = Head(job.todo).path
              /\ job.todo # <<>> /\ Head(job.todo).step = "watch"
              /\ job'.kind = job.kind /\ job'.path = job.path /\ job'.from = job.from
              /\ job' = [job EXCEPT !.todo = <<ToRead(h)>> \o Tail(job.todo)]
              /\ job'.todo \in Seq(WalkStep)
              /\ WatchesIn(job.todo) \subseteq WatchesIn(job'.todo) \union {h}
              /\ ReadsIn(job'.todo) = ReadsIn(job.todo) \union {h}
<1>. DEFINE t == job.todo
            h == Head(t).path
            u == Tail(t)
<1>1. t \in Seq(WalkStep) /\ t # <<>> /\ Head(t).step = "watch"
  BY TypeFacts DEF WalkWatch
<1>2. /\ Head(t) \in WalkStep /\ u \in Seq(WalkStep)
      /\ WatchesIn(t) = WatchesIn(u) \union (IF Head(t).step = "watch" THEN {Head(t).path} ELSE {})
      /\ ReadsIn(t) = ReadsIn(u) \union (IF Head(t).step = "read" THEN {Head(t).path} ELSE {})
  BY <1>1, TodoTail
<1>3. h \in Dirs
  BY <1>2 DEF WalkStep
<1>4. job \in [kind : {"none", "create", "pair"}, path : Dirs \union {<<>>},
               from : Dirs \union {<<>>}, todo : Seq(WalkStep)]
  BY DEF TypeInv, JobOK
<1>5. job' = [job EXCEPT !.todo = <<ToRead(h)>> \o u]
  BY DEF WalkWatch
<1>. HIDE DEF h, u
<1>6. /\ job'.kind = job.kind /\ job'.path = job.path /\ job'.from = job.from
      /\ job'.todo = <<ToRead(h)>> \o u
  BY <1>4, <1>5
<1>7. /\ <<ToRead(h)>> \in Seq(WalkStep)
      /\ WatchesIn(<<ToRead(h)>>) = {} /\ ReadsIn(<<ToRead(h)>>) = {h}
  BY <1>3, TodoRead
<1>8. /\ job'.todo \in Seq(WalkStep)
      /\ WatchesIn(job'.todo) = WatchesIn(<<ToRead(h)>>) \union WatchesIn(u)
      /\ ReadsIn(job'.todo) = ReadsIn(<<ToRead(h)>>) \union ReadsIn(u)
  <2>. DEFINE r == <<ToRead(h)>>
  <2>1. r \in Seq(WalkStep)
    BY <1>7
  <2>. HIDE DEF r
  <2>2. /\ r \o u \in Seq(WalkStep)
        /\ WatchesIn(r \o u) = WatchesIn(r) \union WatchesIn(u)
        /\ ReadsIn(r \o u) = ReadsIn(r) \union ReadsIn(u)
    BY <1>2, <2>1, TodoConcat
  <2>. QED BY <1>6, <2>2 DEF r
<1>9. WatchesIn(t) = WatchesIn(u) \union {h} /\ ReadsIn(t) = ReadsIn(u)
  BY <1>1, <1>2 DEF h
<1>10. WatchesIn(t) \subseteq WatchesIn(job'.todo) \union {h} /\ ReadsIn(job'.todo) = ReadsIn(t) \union {h}
  BY <1>7, <1>8, <1>9
<1>. QED BY <1>1, <1>3, <1>5, <1>6, <1>8, <1>10 DEF h, u

LEMMA WalkWatchKeeps ==
    ASSUME IndInv, WalkWatch
    PROVE  Steady'
<1>0. TypeInv /\ Shape /\ Reached /\ Own
  BY DEF IndInv, Steady
<1>1. PICK h \in Dirs :
         /\ h = Head(job.todo).path
         /\ job.todo # <<>> /\ Head(job.todo).step = "watch"
         /\ job'.kind = job.kind /\ job'.path = job.path /\ job'.from = job.from
         /\ WatchesIn(job.todo) \subseteq WatchesIn(job'.todo) \union {h}
         /\ ReadsIn(job'.todo) = ReadsIn(job.todo) \union {h}
  BY <1>0, WatchStep
<1>2. /\ UNCHANGED <<tree, queue, renames, creates, suppressed>>
      /\ watch' = Watching(watch, h)
  BY <1>1 DEF WalkWatch, AddWatch, auxVars
<1>3. Gone' /\ Order'
  BY <1>1, <1>2, WalkKeeps
<1>4. watch \in [Dirs -> Dirs \union {NoWatch}]
  BY <1>0, TypeFacts
<1>5. \A x \in Dirs : watch'[x] = IF x = h /\ tree[h] = 1 THEN h ELSE watch[x]
  BY <1>2, <1>4 DEF Watching, IsDir
<1>6. Shape'
  BY <1>0, <1>2, <1>5 DEF Shape
<1>7. Reached'
  <2>. SUFFICES ASSUME NEW x \in Dirs, tree[x] = 1, watch'[x] # x
                PROVE  Promised(CreatedIn(queue), WatchesIn(job'.todo), ReadsIn(job'.todo), x)
    BY <1>2 DEF Reached
  <2>1. watch[x] # x /\ x # h
    BY <1>5
  <2>2. Promised(CreatedIn(queue), WatchesIn(job.todo), ReadsIn(job.todo), x)
    BY <1>0, <2>1 DEF Reached
  <2>. QED BY <1>1, <2>1, <2>2 DEF Promised
<1>8. Own'
  BY <1>0, <1>1, <1>2, <1>5 DEF Own
<1>. QED BY <1>3, <1>6, <1>7, <1>8 DEF Steady

\* A directory is read: its subdirectories are to be watched.
LEMMA ReadStep ==
    ASSUME TypeInv, WalkRead
    PROVE  \E h \in Dirs :
              /\ job.todo # <<>>
              /\ job'.kind = job.kind /\ job'.path = job.path /\ job'.from = job.from
              /\ job' \in [kind : {"none", "create", "pair"}, path : Dirs \union {<<>>},
                           from : Dirs \union {<<>>}, todo : Seq(WalkStep)]
              /\ WatchesIn(job'.todo) =
                    WatchesIn(job.todo) \union {z \in Dirs : tree[z] # 0 /\ Front(z) = h}
              /\ ReadsIn(job.todo) \subseteq ReadsIn(job'.todo) \union {h}
<1>. DEFINE t == job.todo
            h == Head(t).path
            u == Tail(t)
            below == {z \in Dirs : tree[z] # 0 /\ Front(z) = h}
            next == {ToWatch(z) : z \in below}
            s == SetToSeq(next)
<1>1. t \in Seq(WalkStep) /\ t # <<>> /\ Head(t).step = "read"
  BY TypeFacts DEF WalkRead
<1>2. /\ Head(t) \in WalkStep /\ u \in Seq(WalkStep)
      /\ WatchesIn(t) = WatchesIn(u) \union (IF Head(t).step = "watch" THEN {Head(t).path} ELSE {})
      /\ ReadsIn(t) = ReadsIn(u) \union (IF Head(t).step = "read" THEN {Head(t).path} ELSE {})
  BY <1>1, TodoTail
<1>3. h \in Dirs
  BY <1>2 DEF WalkStep
<1>4. job \in [kind : {"none", "create", "pair"}, path : Dirs \union {<<>>},
               from : Dirs \union {<<>>}, todo : Seq(WalkStep)]
  BY DEF TypeInv, JobOK
<1>5. {p \in Paths : Exists(p) /\ Front(p) = h} \intersect Dirs = below
  <2>1. \A p \in Paths : p # <<>>
    BY PathFacts
  <2>. QED BY <2>1, PathFacts DEF Exists
<1>6. job' = [job EXCEPT !.todo = s \o u]
  <2>1. job' = [job EXCEPT !.todo =
                  SetToSeq({ToWatch(d) : d \in {p \in Paths : Exists(p) /\ Front(p) = h} \intersect Dirs})
                     \o Tail(@)]
    BY DEF WalkRead
  <2>. QED BY <1>5, <2>1
<1>7. s \in Seq(WalkStep) /\ ToSet(s) = next
  <2>1. IsFiniteSet(below)
    <3>1. below \subseteq Dirs /\ IsFiniteSet(Dirs)
      BY WatcherAssumption
    <3>. QED BY <3>1, FS_Subset
  <2>2. IsFiniteSet(next)
    <3>. DEFINE f == [z \in below |-> ToWatch(z)]
    <3>. HIDE DEF below
    <3>1. f \in Surjection(below, next)
      BY DEF Surjection
    <3>. HIDE DEF f, next
    <3>. QED BY <2>1, <3>1, FS_Surjection
  <2>3. next \subseteq WalkStep
    BY DEF ToWatch, WalkStep
  <2>. HIDE DEF next
  <2>4. s \in Seq(next) /\ ToSet(s) = next
    BY <2>2, SetToSeqFacts
  <2>. QED BY <2>3, <2>4, SeqMonotonic
<1>8. WatchesIn(s) = below /\ ReadsIn(s) = {}
  <2>1. \A z \in below : ToWatch(z).step = "watch" /\ ToWatch(z).path = z
    BY DEF ToWatch
  <2>2. ToSet(s) = {ToWatch(z) : z \in below}
    BY <1>7
  <2>. HIDE DEF s, below, next
  <2>. QED BY <2>1, <2>2 DEF WatchesIn, ReadsIn, PathsOf
<1>. HIDE DEF h, u, s, below
<1>9. /\ job'.kind = job.kind /\ job'.path = job.path /\ job'.from = job.from
      /\ job'.todo = s \o u
  BY <1>4, <1>6
<1>10. /\ s \o u \in Seq(WalkStep)
       /\ WatchesIn(s \o u) = WatchesIn(s) \union WatchesIn(u)
       /\ ReadsIn(s \o u) = ReadsIn(s) \union ReadsIn(u)
  BY <1>2, <1>7, TodoConcat
<1>11. job' \in [kind : {"none", "create", "pair"}, path : Dirs \union {<<>>},
                 from : Dirs \union {<<>>}, todo : Seq(WalkStep)]
  BY <1>4, <1>6, <1>10
<1>12. WatchesIn(t) = WatchesIn(u) /\ ReadsIn(t) = ReadsIn(u) \union {h}
  BY <1>1, <1>2 DEF h
<1>13. /\ WatchesIn(job'.todo) = WatchesIn(t) \union below
       /\ ReadsIn(t) \subseteq ReadsIn(job'.todo) \union {h}
  BY <1>8, <1>9, <1>10, <1>12
<1>. QED BY <1>1, <1>3, <1>9, <1>11, <1>13 DEF below

LEMMA WalkReadKeeps ==
    ASSUME IndInv, WalkRead
    PROVE  Steady'
<1>0. TypeInv /\ Shape /\ Reached /\ Own
  BY DEF IndInv, Steady
<1>1. PICK h \in Dirs :
         /\ job.todo # <<>>
         /\ job'.kind = job.kind /\ job'.path = job.path /\ job'.from = job.from
         /\ WatchesIn(job'.todo) =
               WatchesIn(job.todo) \union {z \in Dirs : tree[z] # 0 /\ Front(z) = h}
         /\ ReadsIn(job.todo) \subseteq ReadsIn(job'.todo) \union {h}
  BY <1>0, ReadStep
<1>2. UNCHANGED <<tree, watch, queue, renames, creates, suppressed>>
  BY DEF WalkRead, auxVars, fsVars, pairVars
<1>3. Gone' /\ Order'
  BY <1>1, <1>2, WalkKeeps
<1>4. Shape'
  BY <1>0, <1>2 DEF Shape
<1>5. Reached'
  <2>. SUFFICES ASSUME NEW x \in Dirs, tree[x] = 1, watch[x] # x
                PROVE  Promised(CreatedIn(queue), WatchesIn(job'.todo), ReadsIn(job'.todo), x)
    BY <1>2 DEF Reached
  <2>1. PICK y \in Dirs :
           /\ y = x \/ Under(x, y)
           /\ y \in CreatedIn(queue) \/ y \in WatchesIn(job.todo) \/ (y # x /\ y \in ReadsIn(job.todo))
    BY <1>0 DEF Reached, Promised
  <2>2. CASE y \in CreatedIn(queue) \/ y \in WatchesIn(job.todo) \/ (y # x /\ y \in ReadsIn(job'.todo))
    BY <1>1, <2>1, <2>2 DEF Promised
  <2>3. CASE y = h /\ y # x
    <3>1. Under(x, h)
      BY <2>1, <2>3
    <3>2. PICK z \in Dirs : Front(z) = h /\ (z = x \/ Under(x, z))
      BY <3>1, StepDown
    <3>3. x \in Paths /\ Rooted(tree)
      BY <1>0, PathFacts DEF Shape
    <3>4. Under(x, z) => tree[z] = 1
      BY <3>3, AncestorExists
    <3>5. tree[z] # 0
      BY <3>2, <3>4
    <3>6. z \in WatchesIn(job'.todo)
      BY <1>1, <3>2, <3>5
    <3>. QED BY <3>2, <3>6 DEF Promised
  <2>. QED BY <1>1, <2>1, <2>2, <2>3
<1>6. Own'
  BY <1>0, <1>1, <1>2 DEF Own
<1>. QED BY <1>3, <1>4, <1>5, <1>6 DEF Steady

LEMMA EndKeeps ==
    ASSUME IndInv, CreateDirEnd \/ PairEnd
    PROVE  Steady'
<1>0. TypeInv /\ Shape /\ Reached /\ Own /\ Gone /\ Order
  BY DEF IndInv, Steady
<1>1. /\ UNCHANGED <<tree, watch, queue, renames, creates, suppressed>>
      /\ job.todo = <<>> /\ job' = NoJob
  BY DEF CreateDirEnd, PairEnd, auxVars, fsVars, pairVars
<1>2. job'.kind = "none" /\ job'.todo = <<>>
  BY <1>1 DEF NoJob
<1>4. Shape'
  BY <1>0, <1>1 DEF Shape
<1>5. Reached'
  BY <1>0, <1>1, <1>2 DEF Reached
<1>6. Own'
  <2>1. CASE job.kind = "pair"
    <3>1. AllRename(queue)
      BY <1>0, <2>1 DEF Order
    <3>2. CreatedIn(queue) = {}
      BY <3>1 DEF AllRename, CreatedIn, PathsOf
    <3>3. WatchesIn(job.todo) = {} /\ ReadsIn(job.todo) = {}
      BY <1>1, EmptyQueue
    <3>4. \A x \in Dirs : tree[x] = 1 => watch[x] = x
      BY <1>0, <3>2, <3>3, NoPromise DEF Reached
    <3>. QED BY <1>0, <1>1, <3>4 DEF Shape, Own
  <2>2. CASE job.kind # "pair"
    BY <1>0, <1>1, <2>2 DEF Own
  <2>. QED BY <2>1, <2>2
<1>7. Gone'
  BY <1>0, <1>1 DEF Gone, Leaving
<1>9. Order'
  BY <1>0, <1>1, <1>2 DEF Order, Over
<1>. QED BY <1>4, <1>5, <1>6, <1>7, <1>9 DEF Steady

----------------------------------------------------------------------------
(* What the user and the Puller do.                                        *)

LEMMA UserReady ==
    ASSUME IndInv, Calm, RenameOver
    PROVE  /\ Over /\ \A x \in Dirs : watch[x] = x \/ watch[x] = NoWatch
           /\ Leaving = {} /\ RenamedIn(queue) = {} /\ suppressed = {} /\ job.kind # "pair"
<1>1. TypeInv /\ Own
  BY DEF IndInv, Steady
<1>2. Over
  BY <1>1, OverIs
<1>. QED BY <1>1, <1>2 DEF Over, Own, Leaving

LEMMA SeenAdds ==
    ASSUME TypeInv, \A x \in Dirs : watch[x] = x \/ watch[x] = NoWatch,
           NEW op \in Ops, NEW p \in Paths, NEW q \in Seq(Event)
    PROVE  /\ q \o Seen(op, p) \in Seq(Event)
           /\ CreatedIn(q) \subseteq CreatedIn(q \o Seen(op, p))
           /\ op # "rename" => RenamedIn(q \o Seen(op, p)) = RenamedIn(q)
           /\ op = "create" /\ Seen(op, p) # <<>> => p \in CreatedIn(q \o Seen(op, p))
<1>. DEFINE s == Seen(op, p)
<1>1. s = <<>> \/ s = <<[op |-> op, path |-> p]>>
  BY SeenIs
<1>. HIDE DEF s
<1>2. CASE s = <<>>
  <2>1. q \o s = q
    BY <1>2, QueueSame
  <2>. QED BY <1>2, <2>1 DEF s
<1>3. CASE s = <<[op |-> op, path |-> p]>>
  <2>1. /\ q \o s \in Seq(Event)
        /\ CreatedIn(q \o s) = CreatedIn(q) \union (IF op = "create" THEN {p} ELSE {})
        /\ RenamedIn(q \o s) = RenamedIn(q) \union (IF op = "rename" THEN {p} ELSE {})
    <3>1. \A z : z = <<[op |-> op, path |-> p]>> =>
             /\ q \o z \in Seq(Event)
             /\ CreatedIn(q \o z) = CreatedIn(q) \union (IF op = "create" THEN {p} ELSE {})
             /\ RenamedIn(q \o z) = RenamedIn(q) \union (IF op = "rename" THEN {p} ELSE {})
      BY QueueMore
    <3>. QED BY <1>3, <3>1, Zenon
  <2>. QED BY <2>1 DEF s
<1>. QED BY <1>1, <1>2, <1>3

\* What the steps other than renames leave as it is.
LEMMA UserKeeps ==
    ASSUME IndInv, Over, RenamedIn(queue') = {},
           UNCHANGED <<renames, creates, suppressed, job>>
    PROVE  Gone' /\ Order'
<1>1. ToSet(renames) = {} /\ suppressed = {} /\ job.kind # "pair"
  BY DEF IndInv, Steady, Over
<1>2. Leaving' = {}
  BY <1>1 DEF Leaving
<1>3. Gone'
  BY <1>2 DEF Gone
<1>5. Over'
  BY <1>1 DEF Over
<1>6. Order'
  BY <1>1, <1>5 DEF Order
<1>. QED BY <1>3, <1>6

LEMMA MkdirKeeps ==
    ASSUME IndInv, Calm, NEW d \in Dirs, Mkdir(d)
    PROVE  Steady' /\ queue' \in Seq(Event)
<1>0. TypeInv /\ Shape /\ Reached
  BY DEF IndInv, Steady
<1>1. /\ RenameOver /\ ~Exists(d) /\ Exists(Front(d)) /\ tree' = [tree EXCEPT ![d] = 1]
      /\ queue' = queue \o Seen("create", d) /\ watch' = watch
      /\ UNCHANGED <<renames, creates, suppressed, job>>
  BY DEF Mkdir, MayAct, Act, pairVars
<1>2. /\ Over /\ \A x \in Dirs : watch[x] = x \/ watch[x] = NoWatch
      /\ RenamedIn(queue) = {}
  BY <1>1, UserReady
<1>3. /\ tree \in [Paths -> 0..(MaxOps + 3)] /\ watch \in [Dirs -> Dirs \union {NoWatch}]
      /\ queue \in Seq(Event)
  BY <1>0, TypeFacts
<1>4. "create" \in Ops /\ d \in Paths /\ d # <<>> /\ (Front(d) = <<>> \/ Front(d) \in Dirs)
  BY PathFacts DEF Ops
<1>5. /\ queue' \in Seq(Event) /\ CreatedIn(queue) \subseteq CreatedIn(queue')
      /\ RenamedIn(queue') = RenamedIn(queue)
      /\ Seen("create", d) # <<>> => d \in CreatedIn(queue')
  BY <1>0, <1>1, <1>2, <1>3, <1>4, SeenAdds
<1>6. Gone' /\ Order'
  BY <1>1, <1>2, <1>5, UserKeeps
<1>7. Own'
  BY <1>1, <1>2 DEF Own
<1>8. tree[d] = 0 /\ \A p \in Paths : tree'[p] = IF p = d THEN 1 ELSE tree[p]
  BY <1>1, <1>3, <1>4 DEF Exists
<1>9. Front(d) = <<>> \/ tree[Front(d)] = 1
  BY <1>0, <1>1, <1>4 DEF Exists, Shape
<1>10. Rooted(tree')
  <2>. SUFFICES ASSUME NEW p \in Paths, tree'[p] # 0, Front(p) # <<>>
                PROVE  tree'[Front(p)] = 1
    BY DEF Rooted
  <2>1. Front(p) \in Paths
    BY PathFacts
  <2>2. tree[Front(p)] = 1
    BY <1>0, <1>8, <1>9 DEF Shape, Rooted
  <2>. QED BY <1>8, <2>1, <2>2
<1>11. Shape'
  <2>1. \A x \in Dirs : x \in Paths
    BY PathFacts
  <2>2. \A f \in Files : f \in Paths /\ f # d
    BY PathFacts
  <2>. QED BY <1>0, <1>1, <1>8, <1>10, <2>1, <2>2 DEF Shape
<1>12. Reached'
  <2>. SUFFICES ASSUME NEW x \in Dirs, tree'[x] = 1, watch[x] # x
                PROVE  Promised(CreatedIn(queue'), WatchesIn(job.todo), ReadsIn(job.todo), x)
    BY <1>1 DEF Reached
  <2>1. CASE x # d
    <3>1. tree[x] = 1
      BY <1>8, <2>1, PathFacts
    <3>2. Promised(CreatedIn(queue), WatchesIn(job.todo), ReadsIn(job.todo), x)
      BY <1>0, <3>1 DEF Reached
    <3>. QED BY <1>5, <3>2 DEF Promised
  <2>2. CASE x = d /\ Seen("create", d) # <<>>
    BY <1>5, <2>2 DEF Promised
  <2>3. CASE x = d /\ Seen("create", d) = <<>>
    <3>. DEFINE u == Front(d)
    <3>1. u \in Dirs /\ watch[u] = NoWatch
      BY <1>0, <1>2, <1>4, <2>3, SeenIs
    <3>2. watch[u] # u
      BY <3>1, WatcherAssumption
    <3>3. tree[u] = 1
      BY <1>9, <3>1, PathFacts
    <3>4. Promised(CreatedIn(queue), WatchesIn(job.todo), ReadsIn(job.todo), u)
      BY <1>0, <3>1, <3>2, <3>3 DEF Reached
    <3>5. PICK y \in Dirs :
             /\ y = u \/ Under(u, y)
             /\ y \in CreatedIn(queue) \/ y \in WatchesIn(job.todo) \/ (y # u /\ y \in ReadsIn(job.todo))
      BY <3>4 DEF Promised
    <3>6. d \in PathSeq /\ y \in PathSeq
      BY PathFacts
    <3>7. Under(d, y)
      BY <1>4, <3>5, <3>6, UnderFront
    <3>8. y # d
      BY <3>6, <3>7, UnderStrict
    <3>. QED BY <1>5, <2>3, <3>5, <3>7, <3>8 DEF Promised
  <2>. QED BY <2>1, <2>2, <2>3
<1>. QED BY <1>5, <1>6, <1>7, <1>11, <1>12 DEF Steady

LEMMA RmdirKeeps ==
    ASSUME IndInv, Calm, NEW d \in Dirs, Rmdir(d)
    PROVE  Steady' /\ queue' \in Seq(Event)
<1>0. TypeInv /\ Shape /\ Reached
  BY DEF IndInv, Steady
<1>1. /\ RenameOver /\ tree' = [tree EXCEPT ![d] = 0] /\ watch' = [watch EXCEPT ![d] = NoWatch]
      /\ \A p \in Paths : Under(p, d) => ~Exists(p)
      /\ queue' = queue \o Seen("remove", d)
      /\ UNCHANGED <<renames, creates, suppressed, job>>
  BY DEF Rmdir, MayAct, Act, pairVars
<1>2. /\ Over /\ \A x \in Dirs : watch[x] = x \/ watch[x] = NoWatch
      /\ RenamedIn(queue) = {}
  BY <1>1, UserReady
<1>3. /\ tree \in [Paths -> 0..(MaxOps + 3)] /\ watch \in [Dirs -> Dirs \union {NoWatch}]
      /\ queue \in Seq(Event)
  BY <1>0, TypeFacts
<1>4. "remove" \in Ops /\ "remove" # "rename" /\ d \in Paths
  BY PathFacts DEF Ops
<1>5. /\ queue' \in Seq(Event) /\ CreatedIn(queue) \subseteq CreatedIn(queue')
      /\ RenamedIn(queue') = RenamedIn(queue)
  BY <1>0, <1>1, <1>2, <1>3, <1>4, SeenAdds
<1>6. Gone' /\ Order'
  BY <1>1, <1>2, <1>5, UserKeeps
<1>7. \A x \in Dirs : watch'[x] = IF x = d THEN NoWatch ELSE watch[x]
  BY <1>1, <1>3
<1>8. \A p \in Paths : tree'[p] = IF p = d THEN 0 ELSE tree[p]
  BY <1>1, <1>3, <1>4
<1>9. Own'
  BY <1>2, <1>7 DEF Own
<1>10. Rooted(tree')
  <2>. SUFFICES ASSUME NEW p \in Paths, tree'[p] # 0, Front(p) # <<>>
                PROVE  tree'[Front(p)] = 1
    BY DEF Rooted
  <2>1. Front(p) \in Paths /\ p \in PathSeq /\ p # <<>>
    BY PathFacts
  <2>2. tree[p] # 0
    BY <1>8
  <2>3. tree[Front(p)] = 1
    BY <1>0, <2>2 DEF Shape, Rooted
  <2>4. Under(p, Front(p))
    BY <2>1, FrontUnder
  <2>5. Front(p) # d
    BY <1>1, <2>1, <2>2, <2>4 DEF Exists
  <2>. QED BY <1>8, <2>1, <2>3, <2>5
<1>11. Shape'
  <2>1. \A x \in Dirs : x \in Paths
    BY PathFacts
  <2>2. \A f \in Files : f \in Paths /\ f # d
    BY PathFacts
  <2>. QED BY <1>0, <1>7, <1>8, <1>10, <2>1, <2>2 DEF Shape
<1>12. Reached'
  <2>. SUFFICES ASSUME NEW x \in Dirs, tree'[x] = 1, watch'[x] # x
                PROVE  Promised(CreatedIn(queue'), WatchesIn(job.todo), ReadsIn(job.todo), x)
    BY <1>1 DEF Reached
  <2>1. x # d /\ tree[x] = 1 /\ watch[x] # x
    BY <1>7, <1>8, PathFacts
  <2>2. Promised(CreatedIn(queue), WatchesIn(job.todo), ReadsIn(job.todo), x)
    BY <1>0, <2>1 DEF Reached
  <2>. QED BY <1>5, <2>2 DEF Promised
<1>. QED BY <1>5, <1>6, <1>9, <1>11, <1>12 DEF Steady

\* A file is written or removed.
FileStep(f, v) ==
    /\ RenameOver /\ v # 1 /\ (v # 0 => Exists(Front(f)))
    /\ tree' = [tree EXCEPT ![f] = v] /\ watch' = watch
    /\ queue' \in Seq(Event) /\ CreatedIn(queue) \subseteq CreatedIn(queue')
    /\ RenamedIn(queue') = RenamedIn(queue)
    /\ UNCHANGED <<renames, creates, suppressed, job>>

LEMMA PutQueue ==
    ASSUME TypeInv, \A x \in Dirs : watch[x] = x \/ watch[x] = NoWatch, NEW f \in Files, Put(f)
    PROVE  /\ queue' \in Seq(Event) /\ CreatedIn(queue) \subseteq CreatedIn(queue')
           /\ RenamedIn(queue') = RenamedIn(queue)
<1>. DEFINE q == IF Exists(f) THEN queue \o <<>> ELSE queue \o Seen("create", f)
<1>1. queue \in Seq(Event) /\ f \in Paths /\ "create" \in Ops /\ "write" \in Ops
      /\ "create" # "rename" /\ "write" # "rename"
  BY TypeFacts, PathFacts DEF Ops
<1>2. /\ queue \o Seen("create", f) \in Seq(Event)
      /\ CreatedIn(queue) \subseteq CreatedIn(queue \o Seen("create", f))
      /\ RenamedIn(queue \o Seen("create", f)) = RenamedIn(queue)
  BY <1>1, SeenAdds
<1>3. queue \o <<>> = queue
  BY <1>1, QueueSame
<1>4. q \in Seq(Event) /\ CreatedIn(queue) \subseteq CreatedIn(q) /\ RenamedIn(q) = RenamedIn(queue)
  BY <1>1, <1>2, <1>3
<1>5. queue' = q \o Seen("write", f)
  BY DEF Put
<1>. HIDE DEF q
<1>6. /\ q \o Seen("write", f) \in Seq(Event)
      /\ CreatedIn(q) \subseteq CreatedIn(q \o Seen("write", f))
      /\ RenamedIn(q \o Seen("write", f)) = RenamedIn(q)
  BY <1>1, <1>4, SeenAdds
<1>. QED BY <1>4, <1>5, <1>6

LEMMA FileSteps ==
    ASSUME IndInv, Calm, NEW f \in Files, WriteFile(f) \/ RemoveFile(f) \/ PullWrite(f)
    PROVE  \E v : FileStep(f, v)
<1>0. TypeInv
  BY DEF IndInv
<1>1. RenameOver
  BY DEF WriteFile, RemoveFile, PullWrite, MayEdit, MayAct
<1>2. \A x \in Dirs : watch[x] = x \/ watch[x] = NoWatch
  BY <1>1, UserReady
<1>3. Stamp # 1 /\ ops \in Nat
  BY <1>0 DEF TypeInv, Stamp
<1>4. CASE Put(f) /\ watch' = watch /\ UNCHANGED <<renames, creates, suppressed, job>>
  <2>1. /\ queue' \in Seq(Event) /\ CreatedIn(queue) \subseteq CreatedIn(queue')
        /\ RenamedIn(queue') = RenamedIn(queue)
    BY <1>0, <1>2, <1>4, PutQueue
  <2>2. Exists(Front(f)) /\ tree' = [tree EXCEPT ![f] = Stamp]
    BY <1>4 DEF Put
  <2>3. FileStep(f, Stamp)
    BY <1>1, <1>3, <1>4, <2>1, <2>2 DEF FileStep
  <2>. QED BY <2>3
<1>5. CASE RemoveFile(f)
  <2>1. queue \in Seq(Event) /\ f \in Paths /\ "remove" \in Ops /\ "remove" # "rename"
    BY <1>0, TypeFacts, PathFacts DEF Ops
  <2>2. /\ queue' = queue \o Seen("remove", f) /\ tree' = [tree EXCEPT ![f] = 0] /\ watch' = watch
        /\ UNCHANGED <<renames, creates, suppressed, job>>
    BY <1>5 DEF RemoveFile, Act, pairVars
  <2>3. /\ queue \o Seen("remove", f) \in Seq(Event)
        /\ CreatedIn(queue) \subseteq CreatedIn(queue \o Seen("remove", f))
        /\ RenamedIn(queue \o Seen("remove", f)) = RenamedIn(queue)
    BY <1>0, <1>2, <2>1, SeenAdds
  <2>4. FileStep(f, 0)
    BY <1>1, <2>2, <2>3 DEF FileStep
  <2>. QED BY <2>4
<1>6. CASE WriteFile(f) \/ PullWrite(f)
  BY <1>4, <1>6 DEF WriteFile, PullWrite, Act, pairVars
<1>. QED BY <1>5, <1>6

LEMMA FileKeeps ==
    ASSUME IndInv, Calm, NEW f \in Files, NEW v, FileStep(f, v)
    PROVE  Steady'
<1>0. TypeInv /\ Shape /\ Reached
  BY DEF IndInv, Steady
<1>1. /\ RenameOver /\ v # 1 /\ (v # 0 => Exists(Front(f)))
      /\ tree' = [tree EXCEPT ![f] = v] /\ watch' = watch
      /\ CreatedIn(queue) \subseteq CreatedIn(queue') /\ RenamedIn(queue') = RenamedIn(queue)
      /\ UNCHANGED <<renames, creates, suppressed, job>>
  BY DEF FileStep
<1>2. /\ Over /\ \A x \in Dirs : watch[x] = x \/ watch[x] = NoWatch
      /\ RenamedIn(queue) = {}
  BY <1>1, UserReady
<1>3. tree \in [Paths -> 0..(MaxOps + 3)] /\ f \in Paths
  BY <1>0, TypeFacts, PathFacts
<1>4. Gone' /\ Order'
  BY <1>1, <1>2, UserKeeps
<1>5. Own'
  BY <1>1, <1>2 DEF Own
<1>6. \A p \in Paths : tree'[p] = IF p = f THEN v ELSE tree[p]
  BY <1>1, <1>3
<1>7. \A x \in Dirs : x \in Paths /\ tree'[x] = tree[x]
  BY <1>6, PathFacts
<1>8. Rooted(tree')
  <2>. SUFFICES ASSUME NEW p \in Paths, tree'[p] # 0, Front(p) # <<>>
                PROVE  tree'[Front(p)] = 1
    BY DEF Rooted
  <2>1. Front(p) \in Dirs
    BY PathFacts
  <2>2. CASE p = f
    BY <1>0, <1>1, <1>3, <1>6, <1>7, <2>1, <2>2 DEF Exists, Shape
  <2>3. CASE p # f
    <3>1. tree[p] # 0
      BY <1>6, <2>3
    <3>. QED BY <1>0, <1>7, <2>1, <3>1 DEF Shape, Rooted
  <2>. QED BY <2>2, <2>3
<1>9. Shape'
  <2>1. \A g \in Files : g \in Paths /\ tree'[g] # 1
    BY <1>0, <1>1, <1>6, PathFacts DEF Shape
  <2>. QED BY <1>0, <1>1, <1>7, <1>8, <2>1 DEF Shape
<1>10. Reached'
  <2>. SUFFICES ASSUME NEW x \in Dirs, tree[x] = 1, watch[x] # x
                PROVE  Promised(CreatedIn(queue'), WatchesIn(job.todo), ReadsIn(job.todo), x)
    BY <1>1, <1>7 DEF Reached
  <2>1. Promised(CreatedIn(queue), WatchesIn(job.todo), ReadsIn(job.todo), x)
    BY <1>0 DEF Reached
  <2>. QED BY <1>1, <2>1 DEF Promised
<1>. QED BY <1>4, <1>5, <1>9, <1>10 DEF Steady

LEMMA TwoEvents ==
    ASSUME NEW A, NEW a \in A, NEW b \in A
    PROVE  (<<>> \o <<a>>) \o <<b>> = <<a, b>>
<1>. DEFINE s == <<a>>
<1>1. <<>> \o s = s /\ s \in Seq(A)
  BY ConcatEmptySeq
<1>2. Append(s, b) = <<a, b>>
  <2>. DEFINE u == Append(s, b)
              v == <<a, b>>
  <2>1. Len(s) = 1 /\ s[1] = a /\ v \in Seq(A) /\ Len(v) = 2 /\ v[1] = a /\ v[2] = b
    OBVIOUS
  <2>. HIDE DEF s, v
  <2>2. /\ u \in Seq(A) /\ Len(u) = Len(s) + 1 /\ \A i \in 1..Len(s) : u[i] = s[i]
        /\ u[Len(s) + 1] = b
    BY <1>1, AppendProperties
  <2>. HIDE DEF u
  <2>3. Len(u) = Len(v) /\ u[1] = a /\ u[2] = b
    BY <2>1, <2>2
  <2>4. \A i \in 1..Len(u) : i = 1 \/ i = 2
    BY <2>1, <2>3
  <2>5. \A i \in 1..Len(u) : u[i] = v[i]
    BY <2>1, <2>3, <2>4
  <2>6. u = v
    BY <2>1, <2>2, <2>3, <2>5, SeqEqual
  <2>. QED BY <2>6 DEF u, v
<1>. HIDE DEF s
<1>3. Append(s, b) = s \o <<b>>
  BY <1>1, AppendIsConcat
<1>. QED BY <1>1, <1>2, <1>3 DEF s

LEMMA ThreeEvents ==
    ASSUME NEW A, NEW a \in A, NEW b \in A, NEW c \in A
    PROVE  ((<<>> \o <<a>>) \o <<b>>) \o <<c>> = <<a, b, c>>
<1>. DEFINE s == <<a, b>>
<1>1. (<<>> \o <<a>>) \o <<b>> = s /\ s \in Seq(A)
  BY TwoEvents
<1>2. Append(s, c) = <<a, b, c>>
  <2>. DEFINE u == Append(s, c)
              v == <<a, b, c>>
  <2>1. /\ Len(s) = 2 /\ s[1] = a /\ s[2] = b
        /\ v \in Seq(A) /\ Len(v) = 3 /\ v[1] = a /\ v[2] = b /\ v[3] = c
    OBVIOUS
  <2>. HIDE DEF s, v
  <2>2. /\ u \in Seq(A) /\ Len(u) = Len(s) + 1 /\ \A i \in 1..Len(s) : u[i] = s[i]
        /\ u[Len(s) + 1] = c
    BY <1>1, AppendProperties
  <2>. HIDE DEF u
  <2>3. Len(u) = Len(v) /\ u[1] = a /\ u[2] = b /\ u[3] = c
    BY <2>1, <2>2
  <2>4. \A i \in 1..Len(u) : i = 1 \/ i = 2 \/ i = 3
    BY <2>1, <2>3
  <2>5. \A i \in 1..Len(u) : u[i] = v[i]
    BY <2>1, <2>3, <2>4
  <2>6. u = v
    BY <2>1, <2>2, <2>3, <2>5, SeqEqual
  <2>. QED BY <2>6 DEF u, v
<1>. HIDE DEF s
<1>3. Append(s, c) = s \o <<c>>
  BY <1>1, AppendIsConcat
<1>. QED BY <1>1, <1>2, <1>3

\* A rename under Calm finds every directory watched under its own name.
LEMMA RenameReady ==
    ASSUME IndInv, Calm, NEW op, MayRename(op), NEW d \in Dirs, tree[d] = 1
    PROVE  /\ queue = <<>> /\ job.kind = "none" /\ job.todo = <<>> /\ ops < MaxOps
           /\ ToSet(renames) = {} /\ ToSet(creates) = {} /\ suppressed = {}
           /\ \A x \in Dirs : tree[x] = 1 => watch[x] = x
           /\ \A x \in Dirs : watch[x] = x \/ watch[x] = NoWatch
           /\ Seen("rename", d) = <<[op |-> "rename", path |-> d]>>
           /\ SeenSelf(d) = <<[op |-> "rename", path |-> d]>>
           /\ \A e \in Dirs : Exists(Front(e)) => Seen("create", e) = <<[op |-> "create", path |-> e]>>
<1>0. TypeInv /\ Shape
  BY DEF IndInv, Steady
<1>1. RenameOver /\ ~Busy /\ creates = <<>> /\ ops < MaxOps
  BY DEF MayRename, MayAct
<1>2. queue = <<>> /\ job.kind = "none" /\ job.todo = <<>>
  BY <1>0, <1>1, IdleIs
<1>3. /\ Over /\ \A x \in Dirs : watch[x] = x \/ watch[x] = NoWatch
  BY <1>1, UserReady
<1>4. \A x \in Dirs : tree[x] = 1 => watch[x] = x
  BY <1>1, IdleWatched
<1>5. ToSet(creates) = {}
  BY <1>1, ToSetEmpty
<1>6. "create" \in Ops /\ "rename" \in Ops
  BY DEF Ops
<1>7. \A e \in Dirs : Exists(Front(e)) => (Front(e) = <<>> \/ watch[Front(e)] = Front(e))
  <2>. SUFFICES ASSUME NEW e \in Dirs, Exists(Front(e)), Front(e) # <<>>
                PROVE  watch[Front(e)] = Front(e)
    OBVIOUS
  <2>1. Front(e) \in Dirs
    BY PathFacts
  <2>. QED BY <1>0, <1>4, <2>1 DEF Exists, Shape
<1>8. \A e \in Dirs : e \in Paths
  BY PathFacts
<1>9. \A e \in Dirs : Exists(Front(e)) => Seen("create", e) = <<[op |-> "create", path |-> e]>>
  BY <1>0, <1>3, <1>6, <1>7, <1>8, SeenIs
<1>10. Exists(Front(d))
  BY <1>0, <1>8 DEF Exists, Shape, Rooted
<1>11. Seen("rename", d) = <<[op |-> "rename", path |-> d]>>
  BY <1>0, <1>3, <1>6, <1>7, <1>8, <1>10, SeenIs
<1>12. watch[d] = d /\ d # NoWatch
  BY <1>4, WatcherAssumption
<1>13. SeenSelf(d) = <<[op |-> "rename", path |-> d]>>
  BY <1>12 DEF SeenSelf
<1>. QED BY <1>1, <1>2, <1>3, <1>4, <1>5, <1>9, <1>11, <1>13 DEF Over

LEMMA RenameKeeps ==
    ASSUME IndInv, Calm, NEW d \in Dirs, NEW e \in Dirs, RenameDir(d, e)
    PROVE  Steady' /\ queue' \in Seq(Event)
<1>0. TypeInv /\ Shape 
  BY DEF IndInv, Steady
<1>1. MayRename("rename") /\ tree[d] = 1 /\ ~Exists(e) /\ Exists(Front(e)) /\ ~Under(e, d)
  BY DEF RenameDir, IsDir
<1>2. /\ tree' = [p \in Paths |-> IF FromDir(p, d, e) THEN tree[Origin(p, d, e)]
                                  ELSE IF p \in InTree(d) THEN 0 ELSE tree[p]]
      /\ watch' = [q \in Dirs |-> IF FromDir(q, d, e) THEN watch[Origin(q, d, e)]
                                  ELSE IF q \in InTree(d) THEN NoWatch ELSE watch[q]]
  BY DEF RenameDir
<1>3. /\ UNCHANGED <<renames, creates, suppressed, job>>
      /\ queue' = queue \o Seen("rename", d) \o Seen("create", e) \o SeenSelf(d)
  BY DEF RenameDir, Act, pairVars
<1>4. /\ queue = <<>> /\ job.kind = "none" /\ job.todo = <<>>
      /\ ToSet(renames) = {} /\ ToSet(creates) = {} /\ suppressed = {}
      /\ \A x \in Dirs : tree[x] = 1 => watch[x] = x
      /\ Seen("rename", d) = <<[op |-> "rename", path |-> d]>>
      /\ SeenSelf(d) = <<[op |-> "rename", path |-> d]>>
      /\ Seen("create", e) = <<[op |-> "create", path |-> e]>>
  BY <1>1, RenameReady
<1>5. d \in Paths /\ e \in Paths /\ d \in PathSeq /\ e \in PathSeq /\ e # <<>> /\ Dirs \subseteq Paths
  BY PathFacts
<1>6. tree[e] = 0 /\ e # d /\ ~Under(d, e) /\ Rooted(tree)
  <2>1. tree[e] = 0 /\ Rooted(tree)
    BY <1>0, <1>1, <1>5 DEF Exists, Shape
  <2>2. ~Under(d, e)
    BY <1>1, <1>5, <2>1, AncestorExists
  <2>. QED BY <1>1, <2>1, <2>2
<1>7. /\ queue' \in Seq(Event) /\ CreatedIn(queue') = {e} /\ RenamedIn(queue') = {d}
      /\ EndsInRename(queue') /\ OneOther(queue') /\ queue' # <<>>
  <2>. DEFINE a == [op |-> "rename", path |-> d]
              b == [op |-> "create", path |-> e]
  <2>1. a \in Event /\ b \in Event
    BY <1>5 DEF Event, Ops
  <2>2. queue' = ((<<>> \o <<a>>) \o <<b>>) \o <<a>>
    BY <1>3, <1>4
  <2>3. ((<<>> \o <<a>>) \o <<b>>) \o <<a>> = <<a, b, a>>
    <3>. HIDE DEF a, b
    <3>. QED BY <2>1, ThreeEvents
  <2>4. \A q : q = <<a, b, a>> =>
           /\ q \in Seq(Event) /\ CreatedIn(q) = {e} /\ RenamedIn(q) = {d}
           /\ EndsInRename(q) /\ OneOther(q) /\ q # <<>>
    BY <1>5, RenameQueue
  <2>. HIDE DEF a, b
  <2>. QED BY <2>2, <2>3, <2>4, Zenon
\* The tree, path by path.
<1>8. /\ \A p \in Paths : FromDir(p, d, e) => tree'[p] = tree[Origin(p, d, e)]
      /\ \A p \in Paths : ~FromDir(p, d, e) /\ p \in InTree(d) => tree'[p] = 0
      /\ \A p \in Paths : ~FromDir(p, d, e) /\ p \notin InTree(d) => tree'[p] = tree[p]
  BY <1>2
<1>9. /\ \A p \in Dirs : FromDir(p, d, e) => watch'[p] = watch[Origin(p, d, e)]
      /\ \A p \in Dirs : ~FromDir(p, d, e) /\ p \in InTree(d) => watch'[p] = NoWatch
      /\ \A p \in Dirs : ~FromDir(p, d, e) /\ p \notin InTree(d) => watch'[p] = watch[p]
  BY <1>2
<1>10. \A p \in Paths : FromDir(p, d, e) =>
          /\ p = e \/ Under(p, e)
          /\ Origin(p, d, e) \in Paths
          /\ p \in Dirs => Origin(p, d, e) \in Dirs
          /\ p \in Files => Origin(p, d, e) \in Files
  BY OriginKind
<1>11. tree'[e] = 1 /\ FromDir(e, d, e)
  <2>1. Origin(e, d, e) = d
    BY OriginOfRoot
  <2>2. FromDir(e, d, e)
    BY <1>5, <2>1 DEF FromDir, InTree
  <2>. QED BY <1>1, <1>5, <1>8, <2>1, <2>2
<1>12. \A p \in Paths : p \in InTree(d) <=> (p = d \/ Under(p, d))
  BY DEF InTree
<1>13. \A p \in Paths : (Front(p) \in Dirs /\ Front(p) \in InTree(d)) => p \in InTree(d)
  <2>. SUFFICES ASSUME NEW p \in Paths, Front(p) \in Dirs, Front(p) \in InTree(d) PROVE Under(p, d)
    BY <1>12
  <2>1. p \in PathSeq /\ p # <<>>
    BY PathFacts
  <2>2. d = Front(p) \/ Under(Front(p), d)
    BY <1>5, <1>12
  <2>. QED BY <1>5, <2>1, <2>2, UnderFront
<1>14. Rooted(tree')
  <2>. SUFFICES ASSUME NEW p \in Paths, tree'[p] # 0, Front(p) # <<>>
                PROVE  tree'[Front(p)] = 1
    BY DEF Rooted
  <2>1. Front(p) \in Dirs /\ Front(p) \in Paths /\ p \in PathSeq /\ p # <<>> /\ Front(p) \in PathSeq
    BY PathFacts
  <2>2. CASE p = e
    <3>1. tree[Front(e)] = 1
      BY <1>0, <1>1, <2>1, <2>2 DEF Exists, Shape
    <3>2. Front(e) \notin InTree(d)
      BY <1>1, <1>5, <1>6, <1>12, <1>13, <2>1, <2>2
    <3>3. Under(e, Front(e))
      BY <1>5, FrontUnder
    <3>4. Front(e) # e /\ ~Under(Front(e), e)
      BY <1>5, <2>1, <2>2, <3>3, UnderStrict
    <3>5. ~FromDir(Front(e), d, e)
      BY <1>10, <2>1, <2>2, <3>4
    <3>. QED BY <1>8, <2>1, <2>2, <3>1, <3>2, <3>5
  <2>3. CASE FromDir(p, d, e) /\ p # e
    <3>1. FromDir(Front(p), d, e) /\ Front(Origin(p, d, e)) = Origin(Front(p), d, e)
      BY <2>3, OriginFront
    <3>2. tree[Origin(p, d, e)] # 0 /\ Origin(p, d, e) \in Paths /\ Origin(Front(p), d, e) \in Paths
      BY <1>8, <1>10, <2>1, <2>3, <3>1
    <3>3. Front(Origin(p, d, e)) # <<>>
      BY <3>1, <3>2, PathFacts
    <3>4. tree[Front(Origin(p, d, e))] = 1
      BY <1>6, <3>2, <3>3 DEF Rooted
    <3>. QED BY <1>8, <2>1, <3>1, <3>4
  <2>4. CASE ~FromDir(p, d, e)
    <3>1. p \notin InTree(d) /\ tree[p] # 0
      BY <1>8, <2>4
    <3>2. tree[Front(p)] = 1
      BY <1>6, <3>1 DEF Rooted
    <3>3. ~FromDir(Front(p), d, e)
      <4>1. p # e /\ ~Under(p, e)
        BY <1>6, <3>1, AncestorExists
      <4>2. Front(p) # e /\ ~Under(Front(p), e)
        BY <1>5, <2>1, <4>1, UnderFront
      <4>. QED BY <1>10, <2>1, <4>2
    <3>4. Front(p) \notin InTree(d)
      BY <1>13, <2>1, <3>1
    <3>. QED BY <1>8, <2>1, <3>2, <3>3, <3>4
  <2>. QED BY <2>2, <2>3, <2>4
<1>15. Shape'
  <2>1. \A x \in Dirs : tree'[x] = 0 \/ tree'[x] = 1
    BY <1>0, <1>5, <1>8, <1>10 DEF Shape
  <2>2. \A f \in Files : tree'[f] # 1
    BY <1>0, <1>8, <1>10, PathFacts DEF Shape
  <2>3. \A x \in Dirs : watch'[x] # NoWatch => tree'[x] = 1
    BY <1>0, <1>5, <1>8, <1>9, <1>10 DEF Shape
  <2>. QED BY <1>14, <2>1, <2>2, <2>3 DEF Shape
<1>16. Reached'
  <2>. SUFFICES ASSUME NEW x \in Dirs, tree'[x] = 1, watch'[x] # x
                PROVE  Promised(CreatedIn(queue'), WatchesIn(job.todo), ReadsIn(job.todo), x)
    BY <1>3 DEF Reached
  <2>1. FromDir(x, d, e)
    BY <1>4, <1>5, <1>8, <1>9
  <2>2. x = e \/ Under(x, e)
    BY <1>5, <1>10, <2>1
  <2>. QED BY <1>7, <2>2 DEF Promised
<1>17. Own'
  BY <1>7 DEF Own
<1>18. tree'[d] = 0
  <2>1. ~FromDir(d, d, e) /\ d \in InTree(d)
    BY <1>5, <1>6, <1>10, <1>12
  <2>. QED BY <1>5, <1>8, <2>1
<1>19. Leaving' = {d}
  BY <1>3, <1>4, <1>7 DEF Leaving
<1>20. Gone'
  BY <1>3, <1>18, <1>19 DEF Gone
<1>22. Order'
  BY <1>3, <1>4, <1>7 DEF Order
<1>. QED BY <1>7, <1>15, <1>16, <1>17, <1>20, <1>22 DEF Steady

LEMMA OutKeeps ==
    ASSUME IndInv, Calm, NEW d \in Dirs, MoveOut(d)
    PROVE  Steady' /\ queue' \in Seq(Event)
<1>0. TypeInv /\ Shape 
  BY DEF IndInv, Steady
<1>1. MayRename("out") /\ tree[d] = 1
  BY DEF MoveOut, IsDir
<1>2. /\ tree' = [p \in Paths |-> IF p \in InTree(d) THEN 0 ELSE tree[p]]
      /\ watch' = [q \in Dirs |-> IF q \in InTree(d) THEN NoWatch ELSE watch[q]]
  BY DEF MoveOut
<1>3. /\ UNCHANGED <<renames, creates, suppressed, job>>
      /\ queue' = queue \o Seen("rename", d) \o SeenSelf(d)
  BY DEF MoveOut, Act, pairVars
<1>4. /\ queue = <<>> /\ job.kind = "none" /\ job.todo = <<>>
      /\ ToSet(renames) = {} /\ ToSet(creates) = {} /\ suppressed = {}
      /\ \A x \in Dirs : tree[x] = 1 => watch[x] = x
      /\ Seen("rename", d) = <<[op |-> "rename", path |-> d]>>
      /\ SeenSelf(d) = <<[op |-> "rename", path |-> d]>>
  BY <1>1, RenameReady
<1>5. d \in Paths /\ d \in PathSeq /\ Dirs \subseteq Paths /\ Files \subseteq Paths
  BY PathFacts
<1>6. /\ queue' \in Seq(Event) /\ CreatedIn(queue') = {} /\ RenamedIn(queue') = {d}
      /\ EndsInRename(queue') /\ AllRename(queue') /\ OneOther(queue') /\ queue' # <<>>
  <2>. DEFINE a == [op |-> "rename", path |-> d]
  <2>1. a \in Event
    BY <1>5 DEF Event, Ops
  <2>2. queue' = (<<>> \o <<a>>) \o <<a>>
    BY <1>3, <1>4
  <2>3. (<<>> \o <<a>>) \o <<a>> = <<a, a>>
    <3>. HIDE DEF a
    <3>. QED BY <2>1, TwoEvents
  <2>4. \A q : q = <<a, a>> =>
           /\ q \in Seq(Event) /\ CreatedIn(q) = {} /\ RenamedIn(q) = {d}
           /\ EndsInRename(q) /\ AllRename(q) /\ OneOther(q) /\ q # <<>>
    BY <1>5, OutQueue
  <2>. HIDE DEF a
  <2>. QED BY <2>2, <2>3, <2>4, Zenon
<1>7. /\ \A p \in Paths : tree'[p] = IF p = d \/ Under(p, d) THEN 0 ELSE tree[p]
      /\ \A p \in Dirs : watch'[p] = IF p = d \/ Under(p, d) THEN NoWatch ELSE watch[p]
  BY <1>2, <1>5 DEF InTree
<1>8. Rooted(tree')
  <2>. SUFFICES ASSUME NEW p \in Paths, tree'[p] # 0, Front(p) # <<>>
                PROVE  tree'[Front(p)] = 1
    BY DEF Rooted
  <2>1. Front(p) \in Paths /\ p \in PathSeq /\ p # <<>>
    BY PathFacts
  <2>2. p # d /\ ~Under(p, d) /\ tree[p] # 0
    BY <1>7
  <2>3. Front(p) # d /\ ~Under(Front(p), d)
    BY <1>5, <2>1, <2>2, UnderFront
  <2>4. tree[Front(p)] = 1
    BY <1>0, <2>2 DEF Shape, Rooted
  <2>. QED BY <1>7, <2>1, <2>3, <2>4
<1>9. Shape'
  BY <1>0, <1>5, <1>7, <1>8 DEF Shape
<1>10. Reached'
  BY <1>4, <1>5, <1>7 DEF Reached
<1>11. Own'
  BY <1>6 DEF Own
<1>12. Leaving' = {d} /\ tree'[d] = 0
  BY <1>3, <1>4, <1>5, <1>6, <1>7 DEF Leaving
<1>13. Gone'
  BY <1>12 DEF Gone
<1>15. Order'
  BY <1>3, <1>4, <1>6 DEF Order
<1>. QED BY <1>6, <1>9, <1>10, <1>11, <1>13, <1>15 DEF Steady

----------------------------------------------------------------------------
(* Types.                                                                  *)

FsTyped ==
    /\ tree \in [Paths -> 0..(MaxOps + 3)] /\ record \in [Files -> 0..(MaxOps + 3)]
    /\ fetching \in Files \union {NoFile} /\ ops \in Nat /\ ops <= MaxOps
    /\ told \in [Files -> {"told", "moved", "changed", "new"}]
WatchTyped == watch \in [Dirs -> Dirs \union {NoWatch}] /\ tracked \subseteq Dirs
PairTyped == renames \in Seq(Dirs) /\ creates \in Seq(Dirs) /\ suppressed \subseteq Dirs
BounceTyped == pending \in [Paths -> Ops \union {"none"}] /\ firing \in [Paths -> SUBSET Ops]
QueueTyped == queue \in Seq(Event)

LEMMA TypeParts ==
    TypeInv <=> (FsTyped /\ WatchTyped /\ PairTyped /\ BounceTyped /\ QueueTyped /\ JobOK)
<1>1. ASSUME JobOK PROVE job.kind \in {"none", "create", "pair"} /\ (job = NoJob \/ job.path \in Dirs)
  BY <1>1 DEF JobOK
<1>. QED BY <1>1 DEF TypeInv, TypeOK, FsTyped, WatchTyped, PairTyped, BounceTyped, QueueTyped, Event

LEMMA TypePartsNext ==
    (FsTyped /\ WatchTyped /\ PairTyped /\ BounceTyped /\ QueueTyped /\ JobOK)' => TypeInv'
<1>1. ASSUME JobOK' PROVE job'.kind \in {"none", "create", "pair"} /\ (job' = NoJob \/ job'.path \in Dirs)
  BY <1>1 DEF JobOK
<1>. QED BY <1>1 DEF TypeInv, TypeOK, FsTyped, WatchTyped, PairTyped, BounceTyped, QueueTyped, Event

LEMMA FsSame == ASSUME FsTyped, UNCHANGED <<tree, record, fetching, ops, told>> PROVE FsTyped'
  BY DEF FsTyped
LEMMA WatchSame == ASSUME WatchTyped, UNCHANGED <<watch, tracked>> PROVE WatchTyped'
  BY DEF WatchTyped
LEMMA PairSame == ASSUME PairTyped, UNCHANGED <<renames, creates, suppressed>> PROVE PairTyped'
  BY DEF PairTyped
LEMMA BounceSame == ASSUME BounceTyped, UNCHANGED <<pending, firing>> PROVE BounceTyped'
  BY DEF BounceTyped
LEMMA QueueKept == ASSUME QueueTyped, UNCHANGED queue PROVE QueueTyped'
  BY DEF QueueTyped
LEMMA JobSame == ASSUME JobOK, UNCHANGED job PROVE JobOK'
  BY DEF JobOK

LEMMA BounceAdds ==
    ASSUME BounceTyped, NEW p \in Paths, NEW op \in Ops, DebouncePath(p, op), firing' = firing
    PROVE  BounceTyped'
  BY DEF BounceTyped, DebouncePath, Debounced

LEMMA TakenTyped == ASSUME QueueTyped, Taken PROVE QueueTyped'
  BY QueueTail DEF QueueTyped, Taken

LEMMA WatchAdds ==
    ASSUME WatchTyped, NEW d \in Dirs, AddWatch(d)
    PROVE  WatchTyped'
  BY DEF WatchTyped, AddWatch, Watching, Tracking

LEMMA NewJob ==
    ASSUME NEW k \in {"create", "pair"}, NEW p \in Dirs, NEW f \in Dirs \union {<<>>},
           k = "pair" => f \in Dirs,
           job' = [kind |-> k, path |-> p, from |-> f, todo |-> <<ToRead(p)>>]
    PROVE  JobOK'
<1>1. <<ToRead(p)>> \in Seq(WalkStep)
  BY TodoRead
<1>2. job'.kind = k /\ job'.path = p /\ job'.from = f
  OBVIOUS
<1>3. job' \in [kind : {"none", "create", "pair"}, path : Dirs \union {<<>>},
                from : Dirs \union {<<>>}, todo : Seq(WalkStep)]
  BY <1>1
<1>. QED BY <1>2, <1>3 DEF JobOK

LEMMA PairTypes ==
    ASSUME TypeInv, NEW from \in Dirs, NEW to \in Dirs, Pair(from, to)
    PROVE  WatchTyped' /\ JobOK' /\ suppressed' \subseteq Dirs
<1>1. WatchTyped /\ PairTyped
  BY TypeParts
<1>2. WatchTyped'
  <2>. DEFINE gone == SubtreeOf(from)
              rest == [d \in Dirs |-> IF watch[d] \in gone THEN NoWatch ELSE watch[d]]
  <2>1. watch' = Watching(rest, to) /\ tracked' = Tracking(tracked \ gone, to)
    BY DEF Pair, Rewatch
  <2>2. rest \in [Dirs -> Dirs \union {NoWatch}] /\ tracked \ gone \subseteq Dirs
    BY <1>1 DEF WatchTyped
  <2>. HIDE DEF rest, gone
  <2>. QED BY <2>1, <2>2 DEF WatchTyped, Watching, Tracking
<1>3. JobOK'
  BY NewJob DEF Pair
<1>4. suppressed' \subseteq Dirs
  BY <1>1 DEF Pair, PairTyped
<1>. QED BY <1>2, <1>3, <1>4

LEMMA JobEnds == ASSUME job' = NoJob PROVE JobOK'
<1>1. <<>> \in Seq(WalkStep)
  OBVIOUS
<1>2. NoJob \in [kind : {"none", "create", "pair"}, path : Dirs \union {<<>>},
                 from : Dirs \union {<<>>}, todo : Seq(WalkStep)] /\ NoJob.kind = "none"
  BY <1>1 DEF NoJob
<1>. QED BY <1>2 DEF JobOK

LEMMA HandleTypes ==
    ASSUME IndInv, NEW p \in Paths,
           \/ RenamePairs(p) \/ RenameBuffered(p) \/ RenameDebounced(p)
           \/ CreatePairs(p) \/ CreateDir(p) \/ CreateOther(p)
           \/ HandleWrite(p) \/ HandleRemove(p)
    PROVE  TypeInv'
<1>0. TypeInv /\ Shape
  BY DEF IndInv, Steady
<1>1. FsTyped /\ WatchTyped /\ PairTyped /\ BounceTyped /\ QueueTyped /\ JobOK
  BY <1>0, TypeParts
<1>2. PICK op : Handling(op, p)
  BY DEF RenamePairs, RenameBuffered, RenameDebounced, CreatePairs, CreateDir, CreateOther,
         HandleWrite, HandleRemove
<1>3. Taken /\ UNCHANGED <<tree, record, fetching, ops, told, firing>>
  BY <1>2 DEF Handling, Taken, auxVars
<1>4. QueueTyped' /\ FsTyped'
  BY <1>1, <1>3, TakenTyped, FsSame
<1>5. renames \in Seq(Dirs) /\ creates \in Seq(Dirs) /\ tracked \subseteq Dirs
  BY <1>1 DEF PairTyped, WatchTyped
<1>6. tree[p] = 1 => p \in Dirs
  BY <1>0 DEF Shape, Paths
<1>7. CASE RenamePairs(p)
  <2>1. /\ p \in Dirs /\ creates # <<>> /\ creates' = Tail(creates) /\ Pair(p, Head(creates))
        /\ renames' = renames /\ pending' = pending
    BY <1>5, <1>7 DEF RenamePairs
  <2>2. Head(creates) \in Dirs /\ Tail(creates) \in Seq(Dirs)
    BY <1>5, <2>1, ToSetTail
  <2>3. WatchTyped' /\ JobOK' /\ suppressed' \subseteq Dirs
    BY <1>0, <2>1, <2>2, PairTypes
  <2>4. PairTyped' /\ BounceTyped'
    BY <1>1, <1>3, <2>1, <2>2, <2>3, BounceSame DEF PairTyped
  <2>. QED BY <1>4, <2>3, <2>4, TypePartsNext
<1>8. CASE CreatePairs(p)
  <2>1. /\ p \in Dirs /\ renames # <<>> /\ renames' = Tail(renames) /\ Pair(Head(renames), p)
        /\ creates' = creates /\ pending' = pending
    BY <1>6, <1>8 DEF CreatePairs, IsDir
  <2>2. Head(renames) \in Dirs /\ Tail(renames) \in Seq(Dirs)
    BY <1>5, <2>1, ToSetTail
  <2>3. WatchTyped' /\ JobOK' /\ suppressed' \subseteq Dirs
    BY <1>0, <2>1, <2>2, PairTypes
  <2>4. PairTyped' /\ BounceTyped'
    BY <1>1, <1>3, <2>1, <2>2, <2>3, BounceSame DEF PairTyped
  <2>. QED BY <1>4, <2>3, <2>4, TypePartsNext
<1>9. CASE RenameBuffered(p)
  <2>1. /\ p \in Dirs /\ renames' = Append(Without(renames, p), p)
        /\ UNCHANGED <<watch, tracked, creates, suppressed, job, pending>>
    BY <1>5, <1>9 DEF RenameBuffered
  <2>2. Without(renames, p) \in Seq(Dirs)
    BY <1>5, WithoutFacts
  <2>3. renames' \in Seq(Dirs)
    BY <2>1, <2>2, ToSetAppend
  <2>4. PairTyped' /\ BounceTyped' /\ WatchTyped' /\ JobOK'
    BY <1>1, <1>3, <2>1, <2>3, BounceSame, WatchSame, JobSame DEF PairTyped
  <2>. QED BY <1>4, <2>4, TypePartsNext
<1>10. CASE CreateDir(p)
  <2>1. /\ p \in Dirs /\ creates' = Append(Without(creates, p), p) /\ AddWatch(p)
        /\ job' = [kind |-> "create", path |-> p, from |-> <<>>, todo |-> <<ToRead(p)>>]
        /\ UNCHANGED <<renames, suppressed, pending>>
    BY <1>6, <1>10 DEF CreateDir, IsDir
  <2>2. Without(creates, p) \in Seq(Dirs)
    BY <1>5, WithoutFacts
  <2>3. creates' \in Seq(Dirs)
    BY <2>1, <2>2, ToSetAppend
  <2>4. PairTyped' /\ BounceTyped' /\ WatchTyped'
    BY <1>1, <1>3, <2>1, <2>3, BounceSame, WatchAdds DEF PairTyped
  <2>5. JobOK'
    BY <2>1, NewJob
  <2>. QED BY <1>4, <2>4, <2>5, TypePartsNext
<1>11. CASE RenameDebounced(p) \/ CreateOther(p) \/ HandleWrite(p)
  <2>1. /\ \E o \in Ops : DebouncePath(p, o)
        /\ UNCHANGED <<watch, renames, creates, suppressed, tracked, job>>
    BY <1>11 DEF RenameDebounced, CreateOther, HandleWrite, pairVars, Ops
  <2>2. BounceTyped'
    BY <1>1, <1>3, <2>1, BounceAdds
  <2>3. PairTyped' /\ WatchTyped' /\ JobOK'
    BY <1>1, <2>1, PairSame, WatchSame, JobSame
  <2>. QED BY <1>4, <2>2, <2>3, TypePartsNext
<1>12. CASE HandleRemove(p)
  <2>1. /\ DebouncePath(p, "remove") /\ "remove" \in Ops /\ tracked' = tracked \ {p}
        /\ UNCHANGED <<watch, renames, creates, suppressed, job>>
    BY <1>12 DEF HandleRemove, Ops
  <2>2. BounceTyped'
    BY <1>1, <1>3, <2>1, BounceAdds
  <2>3. PairTyped' /\ WatchTyped' /\ JobOK'
    BY <1>1, <2>1, PairSame, JobSame DEF WatchTyped
  <2>. QED BY <1>4, <2>2, <2>3, TypePartsNext
<1>. QED BY <1>7, <1>8, <1>9, <1>10, <1>11, <1>12

LEMMA LoopTypes ==
    ASSUME IndInv, DropSuppressed \/ WalkWatch \/ WalkRead \/ CreateDirEnd \/ PairEnd
    PROVE  TypeInv'
<1>0. TypeInv
  BY DEF IndInv
<1>1. FsTyped /\ WatchTyped /\ PairTyped /\ BounceTyped /\ QueueTyped /\ JobOK
  BY <1>0, TypeParts
<1>2. CASE DropSuppressed
  <2>1. Taken /\ UNCHANGED <<tree, record, fetching, ops, told, watch, tracked, renames, creates,
                             suppressed, pending, firing, job>>
    BY <1>2 DEF DropSuppressed, Taken, fsVars, pairVars, bounceVars, auxVars
  <2>2. FsTyped' /\ WatchTyped' /\ PairTyped' /\ BounceTyped' /\ QueueTyped' /\ JobOK'
    BY <1>1, <2>1, TakenTyped, FsSame, WatchSame, PairSame, BounceSame, JobSame
  <2>. QED BY <2>2, TypePartsNext
<1>3. CASE WalkWatch
  <2>1. PICK h \in Dirs :
           /\ h = Head(job.todo).path /\ job.todo # <<>>
           /\ job'.kind = job.kind /\ job'.path = job.path /\ job'.from = job.from
           /\ job' = [job EXCEPT !.todo = <<ToRead(h)>> \o Tail(job.todo)]
           /\ job'.todo \in Seq(WalkStep)
    BY <1>0, <1>3, WatchStep
  <2>2. /\ UNCHANGED <<tree, record, fetching, ops, told, renames, creates, suppressed,
                       pending, firing, queue>>
        /\ AddWatch(h)
    BY <1>3, <2>1 DEF WalkWatch, bounceVars, auxVars
  <2>3. FsTyped' /\ WatchTyped' /\ PairTyped' /\ BounceTyped' /\ QueueTyped'
    BY <1>1, <2>2, FsSame, WatchAdds, PairSame, BounceSame, QueueKept
  <2>4. JobOK'
    <3>. DEFINE t == <<ToRead(h)>> \o Tail(job.todo)
    <3>1. job' = [job EXCEPT !.todo = t]
      BY <2>1
    <3>. HIDE DEF t
    <3>2. job'.todo = t
      BY <1>1, <3>1 DEF JobOK
    <3>3. job' \in [kind : {"none", "create", "pair"}, path : Dirs \union {<<>>},
                    from : Dirs \union {<<>>}, todo : Seq(WalkStep)]
      BY <1>1, <2>1, <3>1, <3>2 DEF JobOK
    <3>4. job.kind # "none"
      BY <1>0, <2>1, TypeFacts
    <3>. QED BY <1>1, <2>1, <3>3, <3>4 DEF JobOK
  <2>. QED BY <2>3, <2>4, TypePartsNext
<1>4. CASE WalkRead
  <2>1. PICK h \in Dirs :
           /\ job.todo # <<>>
           /\ job'.kind = job.kind /\ job'.path = job.path /\ job'.from = job.from
           /\ job' \in [kind : {"none", "create", "pair"}, path : Dirs \union {<<>>},
                        from : Dirs \union {<<>>}, todo : Seq(WalkStep)]
    BY <1>0, <1>4, ReadStep
  <2>2. UNCHANGED <<tree, record, fetching, ops, told, watch, tracked, renames, creates,
                    suppressed, firing, queue>>
    BY <1>4 DEF WalkRead, fsVars, pairVars, auxVars
  <2>3. FsTyped' /\ WatchTyped' /\ PairTyped' /\ QueueTyped'
    BY <1>1, <2>2, FsSame, WatchSame, PairSame, QueueKept
  <2>4. BounceTyped'
    <3>1. PICK S \in SUBSET Paths :
             pending' = [p \in Paths |-> IF p \in S THEN Debounced(p, "create") ELSE pending[p]]
      <4>. DEFINE S == {p \in Paths : /\ Exists(p) /\ Front(p) = Head(job.todo).path
                                      /\ p \in Files /\ job.kind = "create"}
      <4>1. pending' = [p \in Paths |-> IF p \in S THEN Debounced(p, "create") ELSE pending[p]]
        BY <1>4 DEF WalkRead
      <4>2. S \in SUBSET Paths
        OBVIOUS
      <4>. HIDE DEF S
      <4>. QED BY <4>1, <4>2
    <3>2. \A p \in Paths : Debounced(p, "create") \in Ops \union {"none"}
      BY <1>1 DEF BounceTyped, Debounced, Ops
    <3>. QED BY <1>1, <2>2, <3>1, <3>2 DEF BounceTyped
  <2>5. job.kind # "none"
    BY <1>0, <2>1, TypeFacts
  <2>6. JobOK'
    BY <1>1, <2>1, <2>5 DEF JobOK
  <2>. QED BY <2>3, <2>4, <2>6, TypePartsNext
<1>5. CASE CreateDirEnd
  <2>1. /\ job' = NoJob /\ DebouncePath(job.path, "create") /\ "create" \in Ops
        /\ UNCHANGED <<tree, record, fetching, ops, told, watch, tracked, renames, creates,
                       suppressed, firing, queue>>
    BY <1>5 DEF CreateDirEnd, fsVars, pairVars, auxVars, Ops
  <2>2. job.path \in Paths
    BY <1>1, <1>5, PathFacts DEF CreateDirEnd, JobOK
  <2>3. FsTyped' /\ WatchTyped' /\ PairTyped' /\ QueueTyped' /\ JobOK'
    BY <1>1, <2>1, FsSame, WatchSame, PairSame, QueueKept, JobEnds
  <2>4. BounceTyped'
    BY <1>1, <2>1, <2>2, BounceAdds
  <2>. QED BY <2>3, <2>4, TypePartsNext
<1>6. CASE PairEnd
  <2>1. /\ job' = NoJob
        /\ UNCHANGED <<tree, fetching, ops, watch, tracked, renames, creates, suppressed, firing, queue>>
        /\ \E S : pending' = [p \in Paths |-> IF p \in S THEN "none" ELSE pending[p]]
        /\ RewritePrefix(job.from, job.path)
    BY <1>6 DEF PairEnd, pairVars
  <2>2. told' \in [Files -> {"told", "moved", "changed", "new"}]
    BY <1>1, <1>6 DEF PairEnd, FsTyped
  <2>3. record' \in [Files -> 0..(MaxOps + 3)]
    <3>1. record \in [Files -> 0..(MaxOps + 3)] /\ 0 \in 0..(MaxOps + 3)
      BY <1>1, WatcherAssumption DEF FsTyped
    <3>. QED BY <2>1, <3>1 DEF RewritePrefix
  <2>4. FsTyped'
    BY <1>1, <2>1, <2>2, <2>3 DEF FsTyped
  <2>5. BounceTyped'
    BY <1>1, <2>1 DEF BounceTyped
  <2>6. WatchTyped' /\ PairTyped' /\ QueueTyped' /\ JobOK'
    BY <1>1, <2>1, WatchSame, PairSame, QueueKept, JobEnds
  <2>. QED BY <2>4, <2>5, <2>6, TypePartsNext
<1>. QED BY <1>2, <1>3, <1>4, <1>5, <1>6

LEMMA EmitTyped ==
    ASSUME FsTyped, NEW p, NEW op, EmitEvent(p, op)
    PROVE  told' \in [Files -> {"told", "moved", "changed", "new"}]
  BY DEF FsTyped, EmitEvent

LEMMA TimerTypes ==
    ASSUME TypeInv,
           \/ PullRecord \/ (\E p \in Paths : TimerFires(p) \/ \E op \in firing[p] : FireEvent(p, op))
           \/ ExpireRename \/ ExpireCreate \/ ExpireSuppressed \/ AtRest \/ UNCHANGED vars
    PROVE  TypeInv'
<1>1. FsTyped /\ WatchTyped /\ PairTyped /\ BounceTyped /\ QueueTyped /\ JobOK
  BY TypeParts
<1>2. CASE PullRecord
  <2>1. UNCHANGED <<tree, ops, told, watch, tracked, renames, creates, suppressed, pending, firing,
                    job, queue>>
    BY <1>2 DEF PullRecord, pairVars, bounceVars, auxVars
  <2>2. fetching \in Files /\ fetching \in Paths /\ fetching' = NoFile
        /\ record' = [record EXCEPT ![fetching] = tree[fetching]]
    BY <1>1, <1>2, PathFacts DEF PullRecord, FsTyped
  <2>3. FsTyped'
    BY <1>1, <2>1, <2>2 DEF FsTyped
  <2>4. WatchTyped' /\ PairTyped' /\ BounceTyped' /\ QueueTyped' /\ JobOK'
    BY <1>1, <2>1, WatchSame, PairSame, BounceSame, QueueKept, JobSame
  <2>. QED BY <2>3, <2>4, TypePartsNext
<1>3. ASSUME NEW p \in Paths, TimerFires(p) PROVE TypeInv'
  <2>1. UNCHANGED <<tree, record, fetching, ops, told, watch, tracked, renames, creates, suppressed,
                    job, queue>>
    BY <1>3 DEF TimerFires, fsVars, pairVars, auxVars
  <2>2. BounceTyped'
    BY <1>1, <1>3 DEF TimerFires, BounceTyped
  <2>3. FsTyped' /\ WatchTyped' /\ PairTyped' /\ QueueTyped' /\ JobOK'
    BY <1>1, <2>1, FsSame, WatchSame, PairSame, QueueKept, JobSame
  <2>. QED BY <2>2, <2>3, TypePartsNext
<1>4. ASSUME NEW p \in Paths, NEW op \in firing[p], FireEvent(p, op) PROVE TypeInv'
  <2>1. /\ UNCHANGED <<tree, fetching, ops, watch, tracked, renames, creates, suppressed, job, queue,
                       pending>>
        /\ firing' = [firing EXCEPT ![p] = @ \ {op}]
        /\ UNCHANGED <<told, record>> \/ (EmitEvent(p, op) /\ RecordResult(p, op))
    BY <1>4 DEF FireEvent, pairVars
  <2>2. record' \in [Files -> 0..(MaxOps + 3)]
    <3>1. record \in [Files -> 0..(MaxOps + 3)] /\ 0 \in 0..(MaxOps + 3)
          /\ \A f \in Files : tree[f] \in 0..(MaxOps + 3)
      BY <1>1, WatcherAssumption, PathFacts DEF FsTyped
    <3>. QED BY <2>1, <3>1 DEF RecordResult
  <2>3. told' \in [Files -> {"told", "moved", "changed", "new"}]
    <3>1. CASE told' = told
      BY <1>1, <3>1 DEF FsTyped
    <3>2. CASE EmitEvent(p, op)
      BY <1>1, <3>2, EmitTyped
    <3>. QED BY <2>1, <3>1, <3>2
  <2>4. FsTyped' /\ BounceTyped'
    BY <1>1, <2>1, <2>2, <2>3 DEF FsTyped, BounceTyped
  <2>5. WatchTyped' /\ PairTyped' /\ QueueTyped' /\ JobOK'
    BY <1>1, <2>1, WatchSame, PairSame, QueueKept, JobSame
  <2>. QED BY <2>4, <2>5, TypePartsNext
<1>5. CASE ExpireRename
  <2>1. PICK d \in ToSet(renames) :
           /\ renames' = Without(renames, d) /\ EmitEvent(d, "rename")
           /\ UNCHANGED <<fsVars, queue, creates, suppressed, tracked, job, bounceVars>>
    BY <1>5 DEF ExpireRename
  <2>2. Without(renames, d) \in Seq(Dirs)
    BY <1>1, WithoutFacts DEF PairTyped
  <2>3. told' \in [Files -> {"told", "moved", "changed", "new"}]
    BY <1>1, <2>1, EmitTyped
  <2>4. FsTyped' /\ PairTyped'
    BY <1>1, <2>1, <2>2, <2>3 DEF FsTyped, PairTyped, fsVars
  <2>5. WatchTyped' /\ BounceTyped' /\ QueueTyped' /\ JobOK'
    BY <1>1, <2>1, WatchSame, BounceSame, QueueKept, JobSame DEF fsVars, bounceVars
  <2>. QED BY <2>4, <2>5, TypePartsNext
<1>6. CASE ExpireCreate
  <2>1. /\ creates # <<>> /\ creates' = Tail(creates)
        /\ UNCHANGED <<tree, record, fetching, ops, told, watch, tracked, renames, suppressed, job, queue,
                       pending, firing>>
    BY <1>6 DEF ExpireCreate, fsVars, bounceVars, auxVars
  <2>2. Tail(creates) \in Seq(Dirs)
    BY <1>1, <2>1, ToSetTail DEF PairTyped
  <2>3. PairTyped'
    BY <1>1, <2>1, <2>2 DEF PairTyped
  <2>4. FsTyped' /\ WatchTyped' /\ BounceTyped' /\ QueueTyped' /\ JobOK'
    BY <1>1, <2>1, FsSame, WatchSame, BounceSame, QueueKept, JobSame
  <2>. QED BY <2>3, <2>4, TypePartsNext
<1>7. CASE ExpireSuppressed
  <2>1. /\ suppressed' \subseteq suppressed
        /\ UNCHANGED <<tree, record, fetching, ops, told, watch, tracked, renames, creates, job, queue,
                       pending, firing>>
    BY <1>7 DEF ExpireSuppressed, fsVars, bounceVars, auxVars
  <2>2. PairTyped'
    BY <1>1, <2>1 DEF PairTyped
  <2>3. FsTyped' /\ WatchTyped' /\ BounceTyped' /\ QueueTyped' /\ JobOK'
    BY <1>1, <2>1, FsSame, WatchSame, BounceSame, QueueKept, JobSame
  <2>. QED BY <2>2, <2>3, TypePartsNext
<1>8. CASE AtRest \/ UNCHANGED vars
  <2>1. UNCHANGED <<tree, record, fetching, ops, told, watch, tracked, renames, creates, suppressed,
                    job, queue, pending, firing>>
    BY <1>8 DEF AtRest, vars, fsVars, pairVars, bounceVars, auxVars
  <2>2. FsTyped' /\ WatchTyped' /\ PairTyped' /\ BounceTyped' /\ QueueTyped' /\ JobOK'
    BY <1>1, <2>1, FsSame, WatchSame, PairSame, BounceSame, QueueKept, JobSame
  <2>. QED BY <2>2, TypePartsNext
<1>. QED BY <1>2, <1>3, <1>4, <1>5, <1>6, <1>7, <1>8

LEMMA UserTypes ==
    ASSUME IndInv, Calm, NEW x \in Paths,
           \/ Mkdir(x) \/ Rmdir(x) \/ MoveOut(x) \/ \E e \in Dirs : RenameDir(x, e)
           \/ (x \in Files /\ (WriteFile(x) \/ RemoveFile(x) \/ PullWrite(x))),
           QueueTyped', x \in Dirs \/ x \in Files
    PROVE  TypeInv'
<1>0. TypeInv
  BY DEF IndInv
<1>1. FsTyped /\ WatchTyped /\ PairTyped /\ BounceTyped /\ QueueTyped /\ JobOK
  BY <1>0, TypeParts
<1>2. /\ ops < MaxOps /\ ops' = ops + 1
      /\ UNCHANGED <<tracked, renames, creates, suppressed, job, pending, firing>>
  BY DEF Mkdir, Rmdir, MoveOut, RenameDir, WriteFile, RemoveFile, PullWrite, MayRename, MayEdit,
         MayAct, Act, pairVars, bounceVars
<1>3. PairTyped' /\ BounceTyped' /\ JobOK' /\ ops' \in Nat /\ ops' <= MaxOps
  <2>1. PairTyped' /\ BounceTyped' /\ JobOK'
    BY <1>1, <1>2, PairSame, BounceSame, JobSame
  <2>2. ops \in Nat /\ MaxOps \in Nat
    BY <1>1, WatcherAssumption DEF FsTyped
  <2>. QED BY <1>2, <2>1, <2>2
<1>4. /\ tree \in [Paths -> 0..(MaxOps + 3)] /\ record \in [Files -> 0..(MaxOps + 3)]
      /\ fetching \in Files \union {NoFile}
      /\ told \in [Files -> {"told", "moved", "changed", "new"}]
      /\ watch \in [Dirs -> Dirs \union {NoWatch}] /\ tracked \subseteq Dirs
  BY <1>1 DEF FsTyped, WatchTyped
<1>5. 0 \in 0..(MaxOps + 3) /\ 1 \in 0..(MaxOps + 3) /\ Stamp \in 0..(MaxOps + 3)
  <2>1. ops \in Nat /\ MaxOps \in Nat
    BY <1>1, WatcherAssumption DEF FsTyped
  <2>. QED BY <1>2, <2>1 DEF Stamp
<1>6. ASSUME tree' \in [Paths -> 0..(MaxOps + 3)], record' = record, fetching' \in Files \union {NoFile},
             told' \in [Files -> {"told", "moved", "changed", "new"}],
             watch' \in [Dirs -> Dirs \union {NoWatch}]
      PROVE  TypeInv'
  <2>1. FsTyped' /\ WatchTyped'
    BY <1>2, <1>3, <1>4, <1>6 DEF FsTyped, WatchTyped
  <2>. QED BY <1>3, <2>1, TypePartsNext
<1>7. CASE Mkdir(x)
  BY <1>4, <1>5, <1>6, <1>7 DEF Mkdir
<1>8. CASE Rmdir(x)
  BY <1>4, <1>5, <1>6, <1>8 DEF Rmdir
<1>9. \A f \in Files : Left(told[f]) \in {"told", "moved", "changed", "new"}
  BY DEF Left
<1>10. CASE MoveOut(x)
  BY <1>4, <1>5, <1>6, <1>9, <1>10 DEF MoveOut
<1>11. CASE \E e \in Dirs : RenameDir(x, e)
  <2>1. PICK e \in Dirs : RenameDir(x, e)
    BY <1>11
  <2>2. tree[x] = 1
    BY <2>1 DEF RenameDir, IsDir
  <2>3. x \in Dirs
    BY <2>2 DEF IndInv, Steady, Shape
  <2>4. \A p \in Paths : FromDir(p, x, e) =>
           /\ Origin(p, x, e) \in Paths
           /\ p \in Dirs => Origin(p, x, e) \in Dirs
    BY <2>3, OriginKind
  <2>5. tree' \in [Paths -> 0..(MaxOps + 3)]
    BY <1>4, <1>5, <2>1, <2>4 DEF RenameDir
  <2>6. watch' \in [Dirs -> Dirs \union {NoWatch}]
    <3>1. watch' = [q \in Dirs |-> IF FromDir(q, x, e) THEN watch[Origin(q, x, e)]
                                   ELSE IF q \in InTree(x) THEN NoWatch ELSE watch[q]]
      BY <2>1 DEF RenameDir
    <3>2. \A q \in Dirs : FromDir(q, x, e) => Origin(q, x, e) \in Dirs
      BY <2>4, PathFacts
    <3>. QED BY <1>4, <3>1, <3>2
  <2>7. \A p : Arrived(p) \in {"told", "moved", "changed", "new"}
    BY DEF Arrived
  <2>8. told' \in [Files -> {"told", "moved", "changed", "new"}]
    <3>1. told' = [f \in Files |->
                     IF FromDir(f, x, e) /\ Exists(Origin(f, x, e))
                     THEN Arrived(Origin(f, x, e))
                     ELSE IF f \in InTree(x) /\ Exists(f) THEN Left(told[f]) ELSE told[f]]
      BY <2>1 DEF RenameDir
    <3>. QED BY <1>4, <1>9, <2>7, <3>1
  <2>9. record' = record /\ fetching' = fetching
    BY <2>1 DEF RenameDir
  <2>. QED BY <1>4, <1>6, <2>5, <2>6, <2>8, <2>9
<1>12. CASE x \in Files /\ WriteFile(x)
  <2>1. tree' = [tree EXCEPT ![x] = Stamp] /\ UNCHANGED <<watch, record, fetching>>
    BY <1>12 DEF WriteFile, Put
  <2>2. told' \in [Files -> {"told", "moved", "changed", "new"}]
    BY <1>4, <1>12 DEF WriteFile
  <2>. QED BY <1>4, <1>5, <1>6, <2>1, <2>2
<1>13. CASE x \in Files /\ RemoveFile(x)
  <2>1. tree' = [tree EXCEPT ![x] = 0] /\ UNCHANGED <<watch, record, fetching>>
    BY <1>13 DEF RemoveFile
  <2>2. told' \in [Files -> {"told", "moved", "changed", "new"}]
    BY <1>4, <1>13 DEF RemoveFile
  <2>. QED BY <1>4, <1>5, <1>6, <2>1, <2>2
<1>14. CASE x \in Files /\ PullWrite(x)
  <2>1. tree' = [tree EXCEPT ![x] = Stamp] /\ UNCHANGED <<watch, record>> /\ fetching' = x
    BY <1>14 DEF PullWrite, Put
  <2>2. told' \in [Files -> {"told", "moved", "changed", "new"}]
    BY <1>4, <1>14 DEF PullWrite
  <2>. QED BY <1>4, <1>5, <1>6, <1>14, <2>1, <2>2
<1>. QED BY <1>7, <1>8, <1>10, <1>11, <1>12, <1>13, <1>14

----------------------------------------------------------------------------
(* The theorems.                                                           *)

LEMMA InitInv == Init => IndInv
<1>. SUFFICES ASSUME Init PROVE IndInv
  OBVIOUS
<1>1. \A p \in Paths : Cardinality({p} \intersect Files) \in {0, 1} /\ (p \in Files => Cardinality({p} \intersect Files) = 1)
                       /\ (p \in Dirs => Cardinality({p} \intersect Files) = 0)
  <2>1. \A p : p \in Files => {p} \intersect Files = {p}
    OBVIOUS
  <2>2. \A p : p \notin Files => {p} \intersect Files = {}
    OBVIOUS
  <2>3. \A p : Cardinality({p}) = 1
    BY FS_Singleton
  <2>4. Cardinality({}) = 0
    BY FS_EmptySet
  <2>. QED BY <2>1, <2>2, <2>3, <2>4, PathFacts
<1>2. /\ tree = [p \in Paths |-> IF p \in Start THEN 1 + Cardinality({p} \intersect Files) ELSE 0]
      /\ watch = [d \in Dirs |-> IF d \in Start THEN d ELSE NoWatch]
      /\ tracked = Start \intersect Dirs /\ queue = <<>> /\ renames = <<>> /\ creates = <<>>
      /\ suppressed = {} /\ job = NoJob /\ ops = 0
  BY DEF Init
<1>3. /\ \A p \in Paths : tree[p] \in {0, 1, 2} /\ (tree[p] # 0 <=> p \in Start)
      /\ \A d \in Dirs : tree[d] = IF d \in Start THEN 1 ELSE 0
      /\ \A f \in Files : tree[f] # 1
  BY <1>1, <1>2, PathFacts
<1>4. TypeInv
  <2>1. MaxOps \in Nat /\ 0 \in 0..(MaxOps + 3) /\ 1 \in 0..(MaxOps + 3) /\ 2 \in 0..(MaxOps + 3)
    BY WatcherAssumption
  <2>2. tree \in [Paths -> 0..(MaxOps + 3)]
    <3>1. tree = [p \in Paths |-> tree[p]]
      BY <1>2
    <3>2. \A p \in Paths : tree[p] \in 0..(MaxOps + 3)
      BY <1>3, <2>1
    <3>. QED BY <3>1, <3>2
  <2>3. record \in [Files -> 0..(MaxOps + 3)]
    BY <2>2, PathFacts DEF Init
  <2>4. FsTyped
    <3>1. told = [f \in Files |-> "told"] /\ fetching = NoFile
      BY DEF Init
    <3>2. told \in [Files -> {"told", "moved", "changed", "new"}]
      BY <3>1
    <3>3. ops \in Nat /\ ops <= MaxOps
      BY <1>2, <2>1
    <3>. QED BY <2>2, <2>3, <3>1, <3>2, <3>3 DEF FsTyped
  <2>5. WatchTyped /\ PairTyped /\ QueueTyped
    BY <1>2 DEF WatchTyped, PairTyped, QueueTyped
  <2>6. BounceTyped
    BY DEF Init, BounceTyped
  <2>7. JobOK
    <3>1. <<>> \in Seq(WalkStep)
      OBVIOUS
    <3>. QED BY <1>2, <3>1 DEF JobOK, NoJob
  <2>. QED BY <2>4, <2>5, <2>6, <2>7, TypeParts
<1>5. Shape
  <2>1. \A p \in Start : Front(p) = <<>> \/ Front(p) \in Start
    BY WatcherAssumption
  <2>2. Rooted(tree)
    BY <1>3, <2>1, PathFacts DEF Rooted
  <2>. QED BY <1>2, <1>3, <2>2 DEF Shape
<1>6. Reached
  <2>1. \A x \in Dirs : watch[x] = IF x \in Start THEN x ELSE NoWatch
    BY <1>2
  <2>2. \A x \in Dirs : tree[x] = 1 => x \in Start
    BY <1>3
  <2>3. \A x \in Dirs : tree[x] = 1 => watch[x] = x
    BY <2>1, <2>2
  <2>. QED BY <2>3 DEF Reached
<1>7. Own
  BY <1>2 DEF Own
<1>8. RenamedIn(queue) = {} /\ ToSet(renames) = {} /\ ToSet(creates) = {} /\ job.kind = "none"
  BY <1>2, EmptyQueue, ToSetEmpty DEF NoJob
<1>9. Gone
  BY <1>8 DEF Gone, Leaving
<1>11. Order
  BY <1>2, <1>8 DEF Order, Over
<1>. QED BY <1>4, <1>5, <1>6, <1>7, <1>9, <1>11 DEF IndInv, Steady

LEMMA NextInv == ASSUME Calm, IndInv, [Next]_vars PROVE IndInv'
<1>0. TypeInv
  BY DEF IndInv
<1>1. ASSUME NEW d \in Dirs, Mkdir(d) PROVE IndInv'
  <2>1. Steady' /\ QueueTyped' /\ d \in Paths
    BY <1>1, MkdirKeeps, PathFacts DEF QueueTyped
  <2>. QED BY <1>1, <2>1, UserTypes DEF IndInv
<1>2. ASSUME NEW d \in Dirs, Rmdir(d) PROVE IndInv'
  <2>1. Steady' /\ QueueTyped' /\ d \in Paths
    BY <1>2, RmdirKeeps, PathFacts DEF QueueTyped
  <2>. QED BY <1>2, <2>1, UserTypes DEF IndInv
<1>3. ASSUME NEW d \in Dirs, MoveOut(d) PROVE IndInv'
  <2>1. Steady' /\ QueueTyped' /\ d \in Paths
    BY <1>3, OutKeeps, PathFacts DEF QueueTyped
  <2>. QED BY <1>3, <2>1, UserTypes DEF IndInv
<1>4. ASSUME NEW d \in Dirs, NEW e \in Dirs, RenameDir(d, e) PROVE IndInv'
  <2>1. Steady' /\ QueueTyped' /\ d \in Paths
    BY <1>4, RenameKeeps, PathFacts DEF QueueTyped
  <2>. QED BY <1>4, <2>1, UserTypes DEF IndInv
<1>5. ASSUME NEW f \in Files, WriteFile(f) \/ RemoveFile(f) \/ PullWrite(f) PROVE IndInv'
  <2>1. PICK v : FileStep(f, v)
    BY <1>5, FileSteps
  <2>2. Steady' /\ QueueTyped' /\ f \in Paths
    BY <2>1, FileKeeps, PathFacts DEF FileStep, QueueTyped
  <2>. QED BY <1>5, <2>2, UserTypes DEF IndInv
<1>6. ASSUME \/ PullRecord
             \/ (\E p \in Paths : TimerFires(p) \/ \E op \in firing[p] : FireEvent(p, op))
             \/ ExpireRename \/ ExpireCreate \/ ExpireSuppressed \/ AtRest \/ UNCHANGED vars
      PROVE  IndInv'
  <2>1. Neutral /\ TypeInv'
    BY <1>0, <1>6, NeutralSteps, TimerTypes
  <2>. QED BY <2>1, NeutralKeeps DEF IndInv
<1>7. CASE DropSuppressed
  <2>1. Dropped /\ TypeInv'
    BY <1>7, DroppedSteps, LoopTypes
  <2>. QED BY <2>1, DroppedKeeps DEF IndInv
<1>8. ASSUME NEW p \in Paths,
             \/ RenameBuffered(p) \/ RenameDebounced(p) \/ CreateOther(p)
             \/ HandleWrite(p) \/ HandleRemove(p)
      PROVE  IndInv'
  <2>1. Dropped /\ TypeInv'
    BY <1>8, DroppedSteps, HandleTypes
  <2>. QED BY <2>1, DroppedKeeps DEF IndInv
<1>9. ASSUME NEW p \in Paths, CreatePairs(p) \/ RenamePairs(p) PROVE IndInv'
  <2>1. TypeInv' /\ \E from, to \in Dirs : PairFound(from, to)
    BY <1>9, PairSteps, HandleTypes
  <2>. QED BY <2>1, PairKeeps DEF IndInv
<1>10. ASSUME NEW p \in Paths, CreateDir(p) PROVE IndInv'
  BY <1>10, CreateDirKeeps, HandleTypes DEF IndInv
<1>11. CASE WalkWatch
  BY <1>11, WalkWatchKeeps, LoopTypes DEF IndInv
<1>12. CASE WalkRead
  BY <1>12, WalkReadKeeps, LoopTypes DEF IndInv
<1>13. CASE CreateDirEnd \/ PairEnd
  BY <1>13, EndKeeps, LoopTypes DEF IndInv
<1>. QED BY <1>1, <1>2, <1>3, <1>4, <1>5, <1>6, <1>7, <1>8, <1>9, <1>10, <1>11, <1>12, <1>13
         DEF Next, UserOrPuller, EventLoop, Timers

\* The invariant holds in every behaviour in which a rename finds the watcher
\* at rest (Calm): the fsnotify loop, the walk and the pairer keep it.
THEOREM Steadied == ASSUME Calm PROVE Spec => []IndInv
<1>1. Init => IndInv
  BY InitInv
<1>2. IndInv /\ [Next]_vars => IndInv'
  BY NextInv
<1>. QED BY <1>1, <1>2, PTL DEF Spec

\* The watcher's variables keep their types: no event names a path that is
\* not one of the tree, whatever watch reported it.
THEOREM TypeCorrect == ASSUME Calm PROVE Spec => []TypeOK
<1>1. IndInv => TypeOK
  BY DEF IndInv, TypeInv
<1>. QED BY <1>1, Steadied, PTL

\* addWatch, walkNewDir and onDirRenamePaired leave no directory unwatched
\* once the watcher is at rest, however deep the tree and however often it was
\* made, removed and renamed meanwhile.
THEOREM EveryDirWatched == ASSUME Calm PROVE Spec => []Covered
<1>1. IndInv => Covered
  BY IdleWatched DEF Covered, Rest, IsDir
<1>. QED BY <1>1, Steadied, PTL
=============================================================================
