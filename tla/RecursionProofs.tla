---------------------------- MODULE RecursionProofs ----------------------------
(* Induction and recursion up to a number, and what Filters keeps.  Induction *)
(* goes by least elements of sets of numbers.                                 *)
EXTENDS Filters, WellFoundedInduction, TLAPS

LEMMA Least ==
  ASSUME NEW T, T \subseteq Nat, T # {}
  PROVE  \E x \in T : \A y \in T : ~(y < x)
<1> DEFINE R == OpToRel(<, Nat)
<1>1. IsWellFoundedOn(R, Nat)
  BY NatLessThanWellFounded
<1>2. \A x, y \in Nat : y < x => <<y, x>> \in R
  BY DEF OpToRel
<1> HIDE DEF R
<1>3. \E x \in T : \A y \in T : ~ (<<y, x>> \in R)
  BY <1>1, WFMin
<1> QED BY <1>2, <1>3

LEMMA UpTo ==
  ASSUME NEW n \in Nat, NEW T, 0 \in T, \A k \in 1..n : k - 1 \in T => k \in T
  PROVE  \A k \in 0..n : k \in T
<1> DEFINE B == {k \in 0..n : k \notin T}
<1>1. SUFFICES ASSUME B # {} PROVE FALSE
  OBVIOUS
<1>2. B \subseteq Nat
  OBVIOUS
<1>3. PICK x \in B : \A y \in B : ~(y < x)
  BY <1>1, <1>2, Least
<1>4. x \in 1..n /\ x - 1 \in 0..n /\ x - 1 < x
  BY <1>3
<1>5. x - 1 \in T
  BY <1>3, <1>4
<1> QED BY <1>3, <1>4, <1>5

\* A function that starts with c and goes from each number to the next by F.
Steps(S, n) == [1..n -> [S -> S]]
Recurs(g, S, c, n, F) ==
  g \in [0..n -> S] /\ g[0] = c /\ \A k \in 1..n : g[k] = F[k][g[k - 1]]

LEMMA Recursion ==
  ASSUME NEW S, NEW c \in S, NEW n \in Nat, NEW F \in Steps(S, n)
  PROVE  \E g : Recurs(g, S, c, n, F)
<1> DEFINE T == {m \in 0..n : \E g : Recurs(g, S, c, m, F)}
<1>1. 0 \in T
  <2>1. Recurs([k \in 0..0 |-> c], S, c, 0, F)
    BY DEF Recurs
  <2> QED BY <2>1
<1>2. ASSUME NEW m \in 1..n, m - 1 \in T PROVE m \in T
  <2>1. PICK f : Recurs(f, S, c, m - 1, F)
    BY <1>2
  <2> DEFINE g == [k \in 0..m |-> IF k < m THEN f[k] ELSE F[m][f[m - 1]]]
  <2>2. f \in [0..(m - 1) -> S] /\ f[0] = c /\ \A k \in 1..(m - 1) : f[k] = F[k][f[k - 1]]
    BY <2>1 DEF Recurs
  <2>3. m - 1 \in 0..(m - 1) /\ f[m - 1] \in S
    BY <2>2
  <2>4. F[m][f[m - 1]] \in S
    BY <2>3 DEF Steps
  <2>5. g \in [0..m -> S] /\ g[0] = c
    BY <2>2, <2>4
  <2>6. \A k \in 1..m : g[k] = F[k][g[k - 1]]
    BY <2>2
  <2> HIDE DEF g
  <2>7. Recurs(g, S, c, m, F)
    BY <2>5, <2>6 DEF Recurs
  <2> QED BY <2>7
<1>3. n \in T
  <2> HIDE DEF T
  <2> QED BY <1>1, <1>2, UpTo
<1> QED BY <1>3

-----------------------------------------------------------------------------
(* Filters *)

Filtered(s, S, g) ==
  g = [k \in 0..Len(s) |-> IF k = 0 THEN <<>>
                           ELSE IF s[k] \in S THEN Append(g[k - 1], s[k]) ELSE g[k - 1]]

\* What is kept grows with every element that is in S.
Grows(s, S, g) ==
  /\ g[0] = <<>>
  /\ \A k \in 1..Len(s) : /\ k - 1 \in 0..Len(s)
                          /\ g[k] = IF s[k] \in S THEN Append(g[k - 1], s[k]) ELSE g[k - 1]

LEMMA FilterGrows ==
  ASSUME NEW E, NEW s \in Seq(E), NEW S
  PROVE  \E g \in [0..Len(s) -> Seq(E)] : Grows(s, S, g) /\ Filter(s, S) = g[Len(s)]
<1> DEFINE n == Len(s)
           Q == Seq(E)
           c == <<>>
           Next(t, k) == IF s[k] \in S THEN Append(t, s[k]) ELSE t
           F == [k \in 1..n |-> [t \in Q |-> Next(t, k)]]
<1>1. n \in Nat /\ c \in Q
  OBVIOUS
<1>2. ASSUME NEW t \in Q, NEW k \in 1..n PROVE Next(t, k) \in Q
  <2>1. s[k] \in E
    OBVIOUS
  <2> QED BY <2>1
<1>3. F \in Steps(Q, n)
  <2> HIDE DEF Q, Next
  <2> QED BY <1>2 DEF Steps
<1>4. PICK h : Recurs(h, Q, c, n, F)
  <2> HIDE DEF Q, c, F, n
  <2> QED BY <1>1, <1>3, Recursion
<1>5. Filtered(s, S, h)
  <2>1. \A k \in 1..n : F[k][h[k - 1]] = Next(h[k - 1], k)
    <3> HIDE DEF Q, Next, n
    <3>1. \A k \in 1..n : k - 1 \in 0..n
      BY <1>1
    <3> QED BY <1>4, <3>1 DEF Recurs
  <2>2. h = [k \in 0..n |-> IF k = 0 THEN c ELSE Next(h[k - 1], k)]
    <3> HIDE DEF F, Next, c, n
    <3>1. \A k \in 0..n : k # 0 => k \in 1..n
      BY <1>1
    <3> QED BY <1>4, <2>1, <3>1 DEF Recurs
  <2> QED BY <2>2 DEF Filtered
<1> DEFINE g == CHOOSE x : Filtered(s, S, x)
<1>6. Filtered(s, S, g)
  BY <1>5
<1>7. Filter(s, S) = g[n]
  BY DEF Filter, Filtered
<1>8. g \in [0..n -> Q]
  <2> DEFINE T == {k \in 0..n : g[k] \in Q}
  <2> HIDE DEF Q, g
  <2>1. g = [k \in 0..n |-> IF k = 0 THEN c ELSE Next(g[k - 1], k)]
    BY <1>6 DEF Filtered
  <2> HIDE DEF c, Next
  <2>2. 0 \in T
    BY <1>1, <2>1
  <2>3. ASSUME NEW k \in 1..n, k - 1 \in T PROVE k \in T
    BY <1>2, <2>1, <2>3
  <2>4. \A k \in 0..n : k \in T
    <3> HIDE DEF T
    <3> QED BY <1>1, <2>2, <2>3, UpTo
  <2> QED BY <2>1, <2>4
<1>9. Grows(s, S, g)
  <2> HIDE DEF g
  <2>1. n \in Nat /\ 0 \in 0..n /\ \A k \in 1..n : k \in 0..n /\ k # 0 /\ k - 1 \in 0..n
    BY <1>1
  <2>2. g[0] = <<>>
    BY <1>6, <2>1 DEF Filtered
  <2>3. \A k \in 1..n : g[k] = IF s[k] \in S THEN Append(g[k - 1], s[k]) ELSE g[k - 1]
    BY <1>6, <2>1 DEF Filtered
  <2> QED BY <2>1, <2>2, <2>3 DEF Grows
<1> HIDE DEF g
<1> QED BY <1>7, <1>8, <1>9

\* Of n elements at most n are kept, all of them from S and s; fewer, if one is not in S.
LEMMA FilterKeeps ==
  ASSUME NEW E, NEW s \in Seq(E), NEW S
  PROVE  /\ Filter(s, S) \in Seq(E) /\ Len(Filter(s, S)) <= Len(s)
         /\ \A k \in 1..Len(Filter(s, S)) :
              Filter(s, S)[k] \in S /\ \E j \in 1..Len(s) : Filter(s, S)[k] = s[j]
         /\ \A j \in 1..Len(s) : s[j] \notin S => Len(Filter(s, S)) < Len(s)
<1>1. PICK g \in [0..Len(s) -> Seq(E)] : Grows(s, S, g) /\ Filter(s, S) = g[Len(s)]
  BY FilterGrows
<1> DEFINE From(t, k) == /\ t \in Seq(E) /\ Len(t) <= k
                         /\ \A x \in 1..Len(t) : t[x] \in S /\ \E j \in 1..Len(s) : t[x] = s[j]
                         /\ \A j \in 1..k : s[j] \notin S => Len(t) < k
           T == {k \in 0..Len(s) : From(g[k], k)}
<1>2. 0 \in T
  <2>1. g[0] = <<>>
    BY <1>1 DEF Grows
  <2>2. From(<<>>, 0)
    OBVIOUS
  <2> HIDE DEF From
  <2> QED BY <2>1, <2>2
<1>3. ASSUME NEW k \in 1..Len(s), k - 1 \in T PROVE k \in T
  <2>1. g[k] = IF s[k] \in S THEN Append(g[k - 1], s[k]) ELSE g[k - 1]
    BY <1>1 DEF Grows
  <2>2. From(g[k - 1], k - 1) /\ k - 1 \in Nat /\ s[k] \in E
    BY <1>3
  <2>3. CASE s[k] \in S
    <3> DEFINE t == g[k - 1]
               u == Append(t, s[k])
    <3>1. t \in Seq(E) /\ Len(t) <= k - 1 /\ g[k] = u
      BY <2>1, <2>2, <2>3
    <3>2. /\ u \in Seq(E) /\ Len(u) = Len(t) + 1 /\ Len(t) \in Nat /\ u[Len(t) + 1] = s[k]
          /\ \A x \in 1..Len(t) : u[x] = t[x]
      BY <2>2, <3>1
    <3>3. /\ \A x \in 1..Len(t) : t[x] \in S /\ \E j \in 1..Len(s) : t[x] = s[j]
          /\ \A j \in 1..(k - 1) : s[j] \notin S => Len(t) < k - 1
      BY <2>2
    <3> HIDE DEF t, u
    <3>4. \A x \in 1..Len(u) : x = Len(t) + 1 \/ x \in 1..Len(t)
      BY <3>2
    <3>5. \A x \in 1..Len(u) : u[x] \in S /\ \E j \in 1..Len(s) : u[x] = s[j]
      BY <2>3, <3>2, <3>3, <3>4
    <3>6. ASSUME NEW j \in 1..k, s[j] \notin S PROVE Len(u) < k
      <4>1. j \in 1..(k - 1)
        BY <2>3, <3>6
      <4>2. Len(t) < k - 1
        BY <3>3, <3>6, <4>1
      <4> QED BY <3>2, <4>2
    <3>7. From(u, k)
      BY <3>1, <3>2, <3>5, <3>6
    <3> HIDE DEF From
    <3> QED BY <3>1, <3>7
  <2>4. CASE s[k] \notin S
    <3>1. g[k] = g[k - 1]
      BY <2>1, <2>4
    <3>2. From(g[k - 1], k)
      <4>1. Len(g[k - 1]) \in Nat /\ Len(g[k - 1]) < k /\ Len(g[k - 1]) <= k
        BY <2>2
      <4> QED BY <2>2, <4>1
    <3> HIDE DEF From
    <3> QED BY <3>1, <3>2
  <2> QED BY <2>3, <2>4
<1>4. \A k \in 0..Len(s) : k \in T
  <2>1. Len(s) \in Nat
    OBVIOUS
  <2> HIDE DEF T
  <2> QED BY <1>2, <1>3, <2>1, UpTo
<1>5. From(g[Len(s)], Len(s))
  BY <1>4
<1> QED BY <1>1, <1>5

\* Two sets that agree on s keep the same of it.
LEMMA FilterAgrees ==
  ASSUME NEW E, NEW s \in Seq(E), NEW S, NEW R, \A k \in 1..Len(s) : s[k] \in S <=> s[k] \in R
  PROVE  Filter(s, S) = Filter(s, R)
<1>1. PICK g \in [0..Len(s) -> Seq(E)] : Grows(s, S, g) /\ Filter(s, S) = g[Len(s)]
  BY FilterGrows
<1>2. PICK h \in [0..Len(s) -> Seq(E)] : Grows(s, R, h) /\ Filter(s, R) = h[Len(s)]
  BY FilterGrows
<1> DEFINE T == {k \in 0..Len(s) : g[k] = h[k]}
<1>3. 0 \in T
  BY <1>1, <1>2 DEF Grows
<1>4. ASSUME NEW k \in 1..Len(s), k - 1 \in T PROVE k \in T
  <2>1. /\ g[k] = IF s[k] \in S THEN Append(g[k - 1], s[k]) ELSE g[k - 1]
        /\ h[k] = IF s[k] \in R THEN Append(h[k - 1], s[k]) ELSE h[k - 1]
    BY <1>1, <1>2 DEF Grows
  <2>2. g[k - 1] = h[k - 1]
    BY <1>4
  <2>3. g[k] = h[k]
    BY <2>1, <2>2
  <2> QED BY <2>3
<1>5. \A k \in 0..Len(s) : k \in T
  <2>1. Len(s) \in Nat
    OBVIOUS
  <2> HIDE DEF T
  <2> QED BY <1>3, <1>4, <2>1, UpTo
<1> QED BY <1>1, <1>2, <1>5

\* A set that has the elements after the first p and none before keeps those.
LEMMA FilterSuffix ==
  ASSUME NEW E, NEW s \in Seq(E), NEW S, NEW p \in 0..Len(s),
         \A k \in 1..p : s[k] \notin S, \A k \in (p + 1)..Len(s) : s[k] \in S
  PROVE  /\ Filter(s, S) \in Seq(E) /\ Len(Filter(s, S)) = Len(s) - p
         /\ \A k \in 1..(Len(s) - p) : Filter(s, S)[k] = s[k + p]
<1>1. PICK g \in [0..Len(s) -> Seq(E)] : Grows(s, S, g) /\ Filter(s, S) = g[Len(s)]
  BY FilterGrows
<1> DEFINE At(t, k) == /\ k <= p => t = <<>>
                       /\ k > p => Len(t) = k - p /\ \A x \in 1..(k - p) : t[x] = s[x + p]
           T == {k \in 0..Len(s) : At(g[k], k)}
<1>2. 0 \in T
  <2>1. g[0] = <<>>
    BY <1>1 DEF Grows
  <2>2. At(<<>>, 0)
    OBVIOUS
  <2> HIDE DEF At
  <2> QED BY <2>1, <2>2
<1>3. ASSUME NEW k \in 1..Len(s), k - 1 \in T PROVE k \in T
  <2>1. g[k] = IF s[k] \in S THEN Append(g[k - 1], s[k]) ELSE g[k - 1]
    BY <1>1 DEF Grows
  <2>2. At(g[k - 1], k - 1)
    BY <1>3
  <2>3. CASE k <= p
    <3>1. s[k] \notin S /\ k - 1 <= p
      BY <2>3
    <3>2. g[k] = <<>>
      BY <2>1, <2>2, <3>1
    <3>3. At(<<>>, k)
      BY <2>3
    <3> HIDE DEF At
    <3> QED BY <3>2, <3>3
  <2>4. CASE k > p
    <3> DEFINE t == g[k - 1]
               u == Append(t, s[k])
    <3>1. g[k] = u /\ t \in Seq(E) /\ s[k] \in E
      <4>1. s[k] \in S /\ k - 1 \in 0..Len(s) /\ s[k] \in E
        BY <2>4
      <4> QED BY <2>1, <4>1, <1>1
    <3>2. /\ Len(t) = k - 1 - p /\ \A x \in 1..(k - 1 - p) : t[x] = s[x + p]
      <4>1. CASE k - 1 > p
        BY <2>2, <4>1
      <4>2. CASE k - 1 = p
        <5>1. t = <<>>
          BY <2>2, <4>2
        <5> QED BY <5>1, <4>2
      <4> QED BY <2>4, <4>1, <4>2
    <3>3. /\ Len(u) = Len(t) + 1 /\ u[Len(t) + 1] = s[k] /\ \A x \in 1..Len(t) : u[x] = t[x]
      BY <3>1
    <3> HIDE DEF t, u
    <3>4. Len(u) = k - p /\ k - p \in Nat /\ k - p + p = k /\ u[k - p] = s[k]
      BY <3>2, <3>3, <2>4
    <3>5. \A x \in 1..(k - p) : x = k - p \/ x \in 1..(k - 1 - p)
      BY <3>4
    <3>6. \A x \in 1..(k - p) : u[x] = s[x + p]
      BY <3>2, <3>3, <3>4, <3>5
    <3>7. At(u, k)
      BY <2>4, <3>4, <3>6
    <3> HIDE DEF At
    <3> QED BY <3>1, <3>7
  <2> QED BY <2>3, <2>4
<1>4. \A k \in 0..Len(s) : k \in T
  <2>1. Len(s) \in Nat
    OBVIOUS
  <2> HIDE DEF T
  <2> QED BY <1>2, <1>3, <2>1, UpTo
<1>5. At(g[Len(s)], Len(s))
  BY <1>4
<1>6. Len(s) - p \in Nat /\ Len(s) \in Nat /\ p \in Nat
  OBVIOUS
<1>7. CASE Len(s) > p
  BY <1>1, <1>5, <1>7
<1>8. CASE Len(s) = p
  BY <1>1, <1>5, <1>8
<1> QED BY <1>6, <1>7, <1>8

\* Numbers that never go down pass a bound once.
LEMMA Threshold ==
  ASSUME NEW s \in Seq(Int), NEW x \in Int, \A j, k \in 1..Len(s) : j <= k => s[j] <= s[k]
  PROVE  \E p \in 0..Len(s) : (\A k \in 1..p : s[k] <= x) /\ (\A k \in (p + 1)..Len(s) : s[k] > x)
<1> DEFINE T == {k \in 1..Len(s) : s[k] > x}
<1>1. CASE T = {}
  <2>1. \A k \in 1..Len(s) : s[k] <= x
    BY <1>1
  <2>2. Len(s) \in 0..Len(s) /\ \A k \in (Len(s) + 1)..Len(s) : s[k] > x
    OBVIOUS
  <2> QED BY <2>1, <2>2
<1>2. CASE T # {}
  <2>1. PICK q \in T : \A y \in T : ~(y < q)
    <3>1. T \subseteq Nat
      OBVIOUS
    <3> HIDE DEF T
    <3> QED BY <1>2, <3>1, Least
  <2>2. q \in 1..Len(s) /\ s[q] > x /\ q - 1 \in 0..Len(s) /\ q - 1 + 1 = q
    BY <2>1
  <2>3. \A k \in 1..(q - 1) : s[k] <= x
    <3>1. \A k \in 1..(q - 1) : k \in 1..Len(s) /\ k < q /\ s[k] \in Int
      BY <2>2
    <3> QED BY <2>1, <3>1
  <2>4. \A k \in q..Len(s) : s[k] > x
    <3> SUFFICES ASSUME NEW k \in q..Len(s) PROVE s[k] > x
      OBVIOUS
    <3>1. k \in 1..Len(s) /\ q <= k /\ s[q] \in Int /\ s[k] \in Int
      BY <2>2
    <3>2. s[q] <= s[k]
      BY <2>2, <3>1
    <3> QED BY <2>2, <3>1, <3>2
  <2> QED BY <2>2, <2>3, <2>4
<1> QED BY <1>1, <1>2

=============================================================================
