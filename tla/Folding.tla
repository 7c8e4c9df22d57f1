----------------------------- MODULE Folding ------------------------------
(***************************************************************************)
(* Induction and recursion over the naturals for sets and functions        *)
(* instead of operators, which is how the provers can use them.            *)
(***************************************************************************)
EXTENDS Integers, SequencesExt, WellFoundedInduction, TLAPS

CONSTANT Op(_, _, _)   \* of a context, what was folded, and the next member

LEMMA Least ==
  ASSUME NEW T \in SUBSET Nat, T # {}
  PROVE  \E x \in T : \A y \in T : x <= y
<1>1. PICK x \in T : \A y \in T : ~(<<y, x>> \in OpToRel(<, Nat))
  BY NatLessThanWellFounded, WFMin
<1>2. \A y \in T : ~(y < x)
  BY <1>1 DEF OpToRel
<1> QED
  BY <1>2

\* What holds for m, and for k + 1 if it holds for k, holds from m to n.
LEMMA Induction ==
  ASSUME NEW m \in Int, NEW n \in Int, NEW T, m \in T,
         \A k \in m..(n - 1) : k \in T => k + 1 \in T
  PROVE  \A k \in m..n : k \in T
<1> SUFFICES ASSUME NEW k \in m..n, k \notin T PROVE FALSE
  OBVIOUS
<1> DEFINE D == {j \in Nat : m + j <= n /\ m + j \notin T}
<1>1. k - m \in D
  OBVIOUS
<1>2. PICK j \in D : \A l \in D : j <= l
  <2> HIDE DEF D
  <2>1. D \in SUBSET Nat /\ D # {}
    BY <1>1 DEF D
  <2> QED
    BY <2>1, Least
<1>3. j # 0
  BY <1>2
<1>4. j - 1 \in Nat /\ m + (j - 1) \in T
  BY <1>2, <1>3
<1>5. m + (j - 1) \in m..(n - 1)
  BY <1>2, <1>4
<1>6. (m + (j - 1)) + 1 \in T
  BY <1>4, <1>5
<1> QED
  BY <1>2, <1>6

\* A function on 0..n defined by its first value and a step, which may depend on
\* the place.
Recurs(g, n, S, b, G) ==
  /\ g \in [0..n -> S]
  /\ g[0] = b
  /\ \A k \in 1..n : g[k] = G[<<k, g[k - 1]>>]

LEMMA Recursive ==
  ASSUME NEW n \in Nat, NEW S, NEW b \in S,
         NEW G \in [(1..n) \X S -> S]
  PROVE  \E g : Recurs(g, n, S, b, G)
<1> DEFINE P(g, k) == /\ g \in [0..k -> S]
                      /\ g[0] = b
                      /\ \A j \in 1..k : g[j] = G[<<j, g[j - 1]>>]
           T == {k \in 0..n : \E g : P(g, k)}
<1>1. 0 \in T
  <2> DEFINE h == [j \in 0..0 |-> b]
  <2>1. P(h, 0)
    OBVIOUS
  <2>2. \E f : P(f, 0)
    <3> HIDE DEF P, h
    <3> QED
      BY <2>1
  <2> QED
    BY <2>2
<1>2. ASSUME NEW k \in 0..(n - 1), k \in T
      PROVE  k + 1 \in T
  <2>1. PICK g : P(g, k)
    BY <1>2
  <2> DEFINE h == [j \in 0..(k + 1) |-> IF j = k + 1 THEN G[<<k + 1, g[k]>>] ELSE g[j]]
  <2>2. g[k] \in S /\ <<k + 1, g[k]>> \in (1..n) \X S
    BY <2>1
  <2>3. h \in [0..(k + 1) -> S]
    BY <2>1, <2>2
  <2>4. h[0] = b
    BY <2>1
  <2>5. ASSUME NEW j \in 1..(k + 1)
        PROVE  h[j] = G[<<j, h[j - 1]>>]
    <3>1. CASE j = k + 1
      <4>1. h[j - 1] = g[k] /\ h[j] = G[<<k + 1, g[k]>>]
        BY <3>1
      <4> QED
        BY <4>1, <3>1
    <3>2. CASE j # k + 1
      <4>1. j \in 1..k /\ h[j] = g[j] /\ h[j - 1] = g[j - 1]
        BY <3>2
      <4>2. g[j] = G[<<j, g[j - 1]>>]
        BY <4>1, <2>1
      <4> QED
        BY <4>1, <4>2
    <3> QED
      BY <3>1, <3>2
  <2>6. P(h, k + 1)
    BY <2>3, <2>4, <2>5
  <2>7. \E f : P(f, k + 1)
    <3> HIDE DEF P, h
    <3> QED
      BY <2>6
  <2> QED
    BY <2>7
<1>3. n \in T
  <2>1. \A k \in 0..(n - 1) : k \in T => k + 1 \in T
    BY <1>2
  <2> HIDE DEF T
  <2>2. \A k \in 0..n : k \in T
    BY <1>1, <2>1, Induction
  <2> QED
    BY <2>2
<1>4. \E g : P(g, n)
  BY <1>3
<1> QED
  BY <1>4 DEF Recurs

\* A function on the naturals defined by its first value and a step.
RecursOn(g, S, b, G) ==
  /\ g \in [Nat -> S]
  /\ g[0] = b
  /\ \A k \in Nat : g[k + 1] = G[<<k, g[k]>>]

LEMMA RecursiveOnNat ==
  ASSUME NEW S, NEW b \in S, NEW G \in [Nat \X S -> S]
  PROVE  \E g : RecursOn(g, S, b, G)
<1> DEFINE P(g, n) == /\ g \in [0..n -> S]
                      /\ g[0] = b
                      /\ \A k \in 0..(n - 1) : g[k + 1] = G[<<k, g[k]>>]
           h == [n \in Nat |-> CHOOSE g : P(g, n)]
           f == [n \in Nat |-> h[n][n]]
<1>1. ASSUME NEW n \in Nat
      PROVE  P(h[n], n)
  <2> DEFINE H == [p \in (1..n) \X S |-> G[<<p[1] - 1, p[2]>>]]
  <2>1. H \in [(1..n) \X S -> S]
    OBVIOUS
  <2>2. PICK g : Recurs(g, n, S, b, H)
    <3> HIDE DEF H
    <3> QED
      BY <2>1, Recursive
  <2>3. ASSUME NEW k \in 0..(n - 1)
        PROVE  g[k + 1] = G[<<k, g[k]>>]
    <3>1. k + 1 \in 1..n /\ (k + 1) - 1 = k /\ k \in 0..n
      OBVIOUS
    <3>2. g[k + 1] = H[<<k + 1, g[k]>>] /\ g[k] \in S
      BY <2>2, <3>1 DEF Recurs
    <3> QED
      BY <3>1, <3>2
  <2>4. P(g, n)
    BY <2>2, <2>3 DEF Recurs
  <2>5. \E f1 : P(f1, n)
    <3> HIDE DEF P
    <3> QED
      BY <2>4
  <2>6. h[n] = CHOOSE f1 : P(f1, n)
    OBVIOUS
  <2> HIDE DEF P, h
  <2> QED
    BY <2>5, <2>6
<1> HIDE DEF h
\* They agree where both are defined.
<1>2. ASSUME NEW n \in Nat
      PROVE  h[n + 1][n] = h[n][n]
  <2> DEFINE T == {k \in 0..n : h[n + 1][k] = h[n][k]}
  <2>1. 0 \in T
    BY <1>1
  <2>2. \A k \in 0..(n - 1) : k \in T => k + 1 \in T
    <3> SUFFICES ASSUME NEW k \in 0..(n - 1), k \in T PROVE k + 1 \in T
      OBVIOUS
    <3>1. k \in 0..((n + 1) - 1) /\ k + 1 \in 0..n /\ n + 1 \in Nat
      OBVIOUS
    <3>2. P(h[n], n) /\ P(h[n + 1], n + 1)
      BY <1>1
    <3>3. h[n + 1][k + 1] = G[<<k, h[n + 1][k]>>] /\ h[n][k + 1] = G[<<k, h[n][k]>>]
      BY <3>1, <3>2
    <3> QED
      BY <3>1, <3>3
  <2>3. n \in T
    <3>1. 0 \in Int /\ n \in Int /\ n \in 0..n
      OBVIOUS
    <3> HIDE DEF T
    <3> QED
      BY <2>1, <2>2, <3>1, Induction
  <2> QED
    BY <2>3
<1>3. f \in [Nat -> S]
  <2>1. ASSUME NEW n \in Nat PROVE h[n][n] \in S
    BY <1>1
  <2> QED
    BY <2>1
<1>4. f[0] = b
  BY <1>1
<1>5. ASSUME NEW k \in Nat
      PROVE  f[k + 1] = G[<<k, f[k]>>]
  <2>1. k + 1 \in Nat /\ k \in 0..((k + 1) - 1)
    OBVIOUS
  <2>2. P(h[k + 1], k + 1)
    BY <1>1, <2>1
  <2>3. h[k + 1][k + 1] = G[<<k, h[k + 1][k]>>]
    BY <2>1, <2>2
  <2> QED
    BY <2>1, <2>3, <1>2
<1>6. RecursOn(f, S, b, G)
  <2> HIDE DEF f
  <2> QED
    BY <1>3, <1>4, <1>5 DEF RecursOn
<1> QED
  BY <1>6

\* A function on 0..n defined by its first value and a step that looks at all the
\* values before.
RecursOver(g, n, S, b, G) ==
  /\ g \in [0..n -> S]
  /\ g[0] = b
  /\ \A k \in 1..n : g[k] = G[<<k, g>>]

LEMMA CourseOfValues ==
  ASSUME NEW n \in Nat, NEW S, NEW b \in S,
         NEW G \in [(1..n) \X [0..n -> S] -> S],
         \A k \in 1..n : \A f, g \in [0..n -> S] :
           (\A j \in 0..(k - 1) : f[j] = g[j]) => G[<<k, f>>] = G[<<k, g>>]
  PROVE  \E g : RecursOver(g, n, S, b, G)
<1> DEFINE F == [0..n -> S]
           B == [k \in 0..n |-> b]
           H == [p \in (1..n) \X F |-> [p[2] EXCEPT ![p[1]] = G[<<p[1], p[2]>>]]]
<1>1. B \in F /\ H \in [(1..n) \X F -> F]
  OBVIOUS
<1>2. PICK h : Recurs(h, n, F, B, H)
  <2> HIDE DEF F, B, H
  <2> QED
    BY <1>1, Recursive
<1>3. /\ \A k \in 0..n : h[k] \in F
      /\ h[0] = B
  <2> HIDE DEF F, B
  <2> QED
    BY <1>2 DEF Recurs
<1>4. ASSUME NEW k \in 1..n
      PROVE  h[k] = [h[k - 1] EXCEPT ![k] = G[<<k, h[k - 1]>>]]
  <2>1. k - 1 \in 0..n
    OBVIOUS
  <2>2. h[k] = H[<<k, h[k - 1]>>] /\ h[k - 1] \in F
    <3> HIDE DEF F, B, H
    <3> QED
      BY <1>2, <1>3, <2>1 DEF Recurs
  <2> HIDE DEF F
  <2> QED
    BY <2>2
\* A value stays once it is there.
<1>5. ASSUME NEW j \in 0..n
      PROVE  \A k \in j..n : h[k][j] = h[j][j]
  <2> DEFINE T == {k \in j..n : h[k][j] = h[j][j]}
  <2>1. j \in T
    OBVIOUS
  <2>2. ASSUME NEW k \in j..(n - 1), k \in T PROVE k + 1 \in T
    <3> DEFINE m == k + 1
    <3>1. m \in 1..n /\ m - 1 = k /\ m # j /\ m \in j..n
      OBVIOUS
    <3> HIDE DEF m
    <3>2. h[m] = [h[k] EXCEPT ![m] = G[<<m, h[k]>>]] /\ h[k] \in F
      <4>1. h[m] = [h[m - 1] EXCEPT ![m] = G[<<m, h[m - 1]>>]]
        BY <1>4, <3>1
      <4>2. h[k] \in F
        BY <1>3
      <4> QED
        BY <3>1, <4>1, <4>2
    <3>3. h[m][j] = h[k][j]
      BY <3>1, <3>2
    <3> QED
      BY <2>2, <3>1, <3>3 DEF m
  <2>3. j \in Int /\ n \in Int
    OBVIOUS
  <2> HIDE DEF T
  <2>4. \A k \in j..n : k \in T
    BY <2>1, <2>2, <2>3, Induction
  <2> QED
    BY <2>4 DEF T
<1> DEFINE g == h[n]
<1>6. g \in F /\ \A j \in 0..n : \A k \in j..n : h[k][j] = g[j]
  BY <1>3, <1>5
<1>7. ASSUME NEW k \in 1..n
      PROVE  g[k] = G[<<k, g>>]
  <2>1. k - 1 \in 0..n /\ k \in 0..n
    OBVIOUS
  <2>2. h[k - 1] \in F /\ h[k] = [h[k - 1] EXCEPT ![k] = G[<<k, h[k - 1]>>]]
    BY <1>3, <1>4, <2>1
  <2>3. h[k][k] = G[<<k, h[k - 1]>>]
    BY <2>1, <2>2
  <2>4. \A j \in 0..(k - 1) : h[k - 1][j] = g[j]
    BY <1>6
  <2> HIDE DEF g
  <2>5. G[<<k, h[k - 1]>>] = G[<<k, g>>]
    BY <1>6, <2>2, <2>4, ZenonT(30)
  <2>6. h[k][k] = g[k]
    BY <1>6, <2>1
  <2> QED
    BY <2>3, <2>5, <2>6
<1>8. g[0] = b
  BY <1>3, <1>6
<1> HIDE DEF g
<1> QED
  BY <1>6, <1>7, <1>8 DEF RecursOver

LEMMA MaxIsGreatest ==
  ASSUME NEW T \in SUBSET Nat, NEW n \in T, \A k \in T : k <= n
  PROVE  Max(T) = n
<1>1. n \in T /\ \A y \in T : n >= y
  OBVIOUS
<1>2. \A x \in T : (\A y \in T : x >= y) => x = n
  OBVIOUS
<1> QED
  BY <1>1, <1>2 DEF Max

LEMMA FiniteMax ==
  ASSUME NEW n \in Nat, NEW s \in SUBSET (1..n), s # {}
  PROVE  Max(s) \in s /\ \A k \in s : k <= Max(s)
<1> DEFINE T == {n - k : k \in s}
<1>1. PICK x \in T : \A y \in T : x <= y
  <2>1. \A k \in s : k \in Nat /\ k <= n
    OBVIOUS
  <2>2. T \in SUBSET Nat
    BY <2>1
  <2>3. T # {}
    OBVIOUS
  <2> HIDE DEF T
  <2> QED
    BY <2>2, <2>3, Least
<1>2. PICK m \in s : x = n - m
  BY <1>1
<1>3. \A k \in s : k <= m
  BY <1>1, <1>2
<1>4. Max(s) = m
  BY <1>2, <1>3, MaxIsGreatest
<1> QED
  BY <1>2, <1>3, <1>4

\* The function that MapThenFoldSet chooses exists.
Folds(f, c, n, b, seq) ==
  f = [s \in SUBSET (1..n) |->
         IF s = {} THEN b ELSE Op(c, f[s \ {Max(s)}], seq[Max(s)])]

LEMMA FoldExists ==
  ASSUME NEW n \in Nat, NEW S, NEW b \in S, NEW seq, NEW c,
         \A a \in S, k \in 1..n : Op(c, a, seq[k]) \in S
  PROVE  \E f : Folds(f, c, n, b, seq)
<1> DEFINE F == [SUBSET (1..n) -> S]
           G == [p \in (1..n) \X F |->
                   [s \in SUBSET (1..n) |->
                      IF p[1] \in s THEN Op(c, p[2][s], seq[p[1]]) ELSE p[2][s]]]
           B == [s \in SUBSET (1..n) |-> b]
<1>1. G \in [(1..n) \X F -> F] /\ B \in F
  OBVIOUS
<1>2. PICK g : Recurs(g, n, F, B, G)
  <2> HIDE DEF F, G, B
  <2> QED
    BY <1>1, Recursive
<1>9. /\ g \in [0..n -> F]
      /\ g[0] = B
      /\ \A k \in 1..n : g[k] = G[<<k, g[k - 1]>>]
  BY <1>2 DEF Recurs
<1>3. ASSUME NEW k \in 1..n, NEW s \in SUBSET (1..n)
      PROVE  g[k][s] = IF k \in s THEN Op(c, g[k - 1][s], seq[k]) ELSE g[k - 1][s]
  <2>1. k - 1 \in 0..n
    OBVIOUS
  <2>2. g[k] = G[<<k, g[k - 1]>>] /\ g[k - 1] \in F
    <3> HIDE DEF F, G
    <3> QED
      BY <1>9, <2>1
  <2> DEFINE a == g[k - 1]
  <2>3. a \in F
    BY <2>2
  <2> HIDE DEF a
  <2>4. G[<<k, a>>][s] = IF k \in s THEN Op(c, a[s], seq[k]) ELSE a[s]
    BY <2>3
  <2> QED
    BY <2>2, <2>4 DEF a
<1> HIDE DEF G
\* What is not in s does not change the result.
<1>4. ASSUME NEW s \in SUBSET (1..n), NEW m \in 0..n, \A k \in s : k <= m
      PROVE  g[n][s] = g[m][s]
  <2> DEFINE T == {k \in m..n : g[k][s] = g[m][s]}
  <2>1. m \in T
    OBVIOUS
  <2>2. \A k \in m..(n - 1) : k \in T => k + 1 \in T
    <3> SUFFICES ASSUME NEW k \in m..(n - 1), k \in T PROVE k + 1 \in T
      OBVIOUS
    <3>1. k + 1 \in 1..n /\ k + 1 \notin s /\ (k + 1) - 1 = k
      BY <1>4
    <3>2. g[k + 1][s] = g[k][s]
      BY <3>1, <1>3
    <3> QED
      BY <3>2
  <2>3. \A k \in m..n : k \in T
    <3>1. m \in Int /\ n \in Int
      OBVIOUS
    <3> HIDE DEF T
    <3> QED
      BY <2>1, <2>2, <3>1, Induction
  <2> QED
    BY <2>3
<1> DEFINE f == [s \in SUBSET (1..n) |-> g[n][s]]
<1>5. f \in F
  <2>1. g[n] \in F
    <3> HIDE DEF F
    <3> QED
      BY <1>9
  <2> QED
    BY <2>1
<1>6. ASSUME NEW s \in SUBSET (1..n)
      PROVE  f[s] = IF s = {} THEN b ELSE Op(c, f[s \ {Max(s)}], seq[Max(s)])
  <2>1. CASE s = {}
    <3>1. g[n][s] = g[0][s]
      BY <2>1, <1>4
    <3> QED
      BY <3>1, <2>1, <1>9
  <2>2. CASE s # {}
    <3> DEFINE m == Max(s)
               r == s \ {m}
    <3>1. m \in s /\ \A k \in s : k <= m
      BY <2>2, FiniteMax
    <3> HIDE DEF m
    <3>2. m \in 1..n /\ m - 1 \in 0..n /\ r \in SUBSET (1..n) /\ \A k \in r : k <= m - 1
      BY <3>1
    <3>3. g[n][s] = g[m][s]
      BY <3>1, <3>2, <1>4
    <3>4. g[m][s] = Op(c, g[m - 1][s], seq[m])
      BY <3>1, <3>2, <1>3
    <3>5. g[n][r] = g[m - 1][r]
      BY <3>2, <1>4
    <3>6. g[m - 1][s] = g[m - 1][r]
      <4> DEFINE T == {k \in 0..(m - 1) : g[k][s] = g[k][r]}
      <4>1. 0 \in T
        <5>1. g[0][s] = b /\ g[0][r] = b
          BY <1>9, <3>2
        <5> QED
          BY <5>1, <3>2
      <4>2. \A k \in 0..((m - 1) - 1) : k \in T => k + 1 \in T
        <5> SUFFICES ASSUME NEW k \in 0..((m - 1) - 1), k \in T PROVE k + 1 \in T
          OBVIOUS
        <5>1. k + 1 \in 1..n /\ (k + 1 \in s <=> k + 1 \in r) /\ (k + 1) - 1 = k
          BY <3>2
        <5>2. g[k + 1][s] = g[k + 1][r]
          BY <5>1, <3>2, <1>3
        <5> QED
          BY <5>2, <3>2
      <4>3. \A k \in 0..(m - 1) : k \in T
        <5>1. 0 \in Int /\ m - 1 \in Int
          BY <3>2
        <5> HIDE DEF T
        <5> QED
          BY <4>1, <4>2, <5>1, Induction
      <4>4. m - 1 \in 0..(m - 1)
        BY <3>2
      <4> QED
        BY <4>3, <4>4
    <3> QED
      BY <3>2, <3>3, <3>4, <3>5, <3>6, <2>2 DEF m
  <2> QED
    BY <2>1, <2>2
<1> HIDE DEF f
<1>7. f = [s \in SUBSET (1..n) |-> f[s]]
  BY <1>5
<1> QED
  BY <1>5, <1>6, <1>7 DEF Folds

\* What folding from the left makes of seq.
Folded(c, b, seq) == FoldLeft(LAMBDA a, x : Op(c, a, x), b, seq)

\* The results of folding from the left, member after member.
FoldSteps(g, c, n, S, b, seq) ==
  /\ g \in [0..n -> S]
  /\ g[0] = b
  /\ \A k \in 1..n : g[k] = Op(c, g[k - 1], seq[k])
  /\ g[n] = Folded(c, b, seq)

\* Folding from the left, one member after the other.
THEOREM Fold ==
  ASSUME NEW S, NEW b \in S, NEW seq, NEW c, NEW n \in Nat, DOMAIN seq = 1..n,
         \A a \in S, k \in 1..n : Op(c, a, seq[k]) \in S
  PROVE  \E g : FoldSteps(g, c, n, S, b, seq)
<1> DEFINE f == CHOOSE h : Folds(h, c, n, b, seq)
<1>1. Folds(f, c, n, b, seq)
  BY FoldExists
<1>2. Folded(c, b, seq) = f[1..n]
  BY DEF Folded, FoldLeft, MapThenFoldSet, Folds
<1> HIDE DEF f
<1>3. ASSUME NEW k \in 1..n
      PROVE  f[1..k] = Op(c, f[1..(k - 1)], seq[k])
  <2>1. Max(1..k) = k
    BY MaxIsGreatest
  <2>2. (1..k) \ {k} = 1..(k - 1)
    OBVIOUS
  <2>3. 1..k \in SUBSET (1..n) /\ k \in 1..k
    OBVIOUS
  <2> QED
    BY <1>1, <2>1, <2>2, <2>3 DEF Folds
<1>4. f[1..0] = b
  BY <1>1 DEF Folds
<1> DEFINE g == [k \in 0..n |-> f[1..k]]
           T == {k \in 0..n : g[k] \in S}
<1>5. \A k \in 0..n : k \in T
  <2>1. 0 \in T
    BY <1>4
  <2>2. \A k \in 0..(n - 1) : k \in T => k + 1 \in T
    <3> SUFFICES ASSUME NEW k \in 0..(n - 1), k \in T PROVE k + 1 \in T
      OBVIOUS
    <3>1. k + 1 \in 1..n /\ (k + 1) - 1 = k
      OBVIOUS
    <3>2. f[1..(k + 1)] = Op(c, f[1..k], seq[k + 1])
      BY <3>1, <1>3
    <3> QED
      BY <3>1, <3>2
  <2>3. 0 \in Int /\ n \in Int
    OBVIOUS
  <2> HIDE DEF T
  <2> QED
    BY <2>1, <2>2, <2>3, Induction
<1>6. g \in [0..n -> S]
  BY <1>5
<1>7. g[0] = b /\ g[n] = Folded(c, b, seq)
  BY <1>4, <1>2
<1>8. \A k \in 1..n : g[k] = Op(c, g[k - 1], seq[k])
  BY <1>3
<1> QED
  BY <1>6, <1>7, <1>8 DEF FoldSteps
-----------------------------------------------------------------------------
(* FlattenSeq of the community modules. *)

Flattens(f, q) ==
  f = [i \in 1..Len(q) |-> IF i = 1 THEN q[i] ELSE f[i - 1] \o q[i]]

Flat(q) == CHOOSE f : Flattens(f, q)

LEMMA FlattenExists ==
  ASSUME NEW E, NEW q \in Seq(Seq(E))
  PROVE  \E f : Flattens(f, q)
<1> DEFINE n == Len(q)
           S == Seq(E)
           G == [p \in (1..n) \X S |-> IF p[1] = 1 THEN q[1] ELSE p[2] \o q[p[1]]]
<1>1. n \in Nat /\ <<>> \in S /\ \A k \in 1..n : q[k] \in S
  OBVIOUS
<1>2. G \in [(1..n) \X S -> S]
  <2>1. ASSUME NEW p \in (1..n) \X S
        PROVE  (IF p[1] = 1 THEN q[1] ELSE p[2] \o q[p[1]]) \in S
    <3>1. p[1] \in 1..n /\ p[2] \in Seq(E) /\ q[p[1]] \in Seq(E)
      BY <1>1
    <3>2. p[2] \o q[p[1]] \in Seq(E)
      BY <3>1
    <3> QED
      BY <3>1, <3>2
  <2> HIDE DEF S, n
  <2> QED
    BY <2>1
<1>3. PICK g : Recurs(g, n, S, <<>>, G)
  <2> HIDE DEF S, G, n
  <2> QED
    BY <1>1, <1>2, Recursive
<1>4. ASSUME NEW i \in 1..n
      PROVE  g[i] = IF i = 1 THEN q[i] ELSE g[i - 1] \o q[i]
  <2>1. i - 1 \in 0..n
    OBVIOUS
  <2>2. g[i] = G[<<i, g[i - 1]>>] /\ g[i - 1] \in S
    <3> HIDE DEF S, G
    <3> QED
      BY <1>3, <2>1 DEF Recurs
  <2> DEFINE a == g[i - 1]
  <2>3. a \in S
    BY <2>2
  <2> HIDE DEF a, S, n
  <2>4. G[<<i, a>>] = IF i = 1 THEN q[1] ELSE a \o q[i]
    BY <2>3
  <2> QED
    BY <2>2, <2>4 DEF a
<1> DEFINE f == [i \in 1..n |-> g[i]]
<1>5. f = [i \in 1..n |-> IF i = 1 THEN q[i] ELSE f[i - 1] \o q[i]]
  <2>1. ASSUME NEW i \in 1..n
        PROVE  g[i] = IF i = 1 THEN q[i] ELSE f[i - 1] \o q[i]
    <3>1. CASE i = 1
      BY <3>1, <1>4
    <3>2. CASE i # 1
      <4>1. i - 1 \in 1..n
        BY <3>2
      <4>2. f[i - 1] = g[i - 1]
        BY <4>1
      <4> QED
        BY <3>2, <4>2, <1>4
    <3> QED
      BY <3>1, <3>2
  <2> QED
    BY <2>1
<1> QED
  BY <1>5 DEF Flattens

LEMMA FlatValues ==
  ASSUME NEW E, NEW q \in Seq(Seq(E))
  PROVE  /\ FlattenSeq(q) = IF Len(q) = 0 THEN q ELSE Flat(q)[Len(q)]
         /\ \A i \in 1..Len(q) :
              Flat(q)[i] = IF i = 1 THEN q[i] ELSE Flat(q)[i - 1] \o q[i]
<1>1. Flattens(Flat(q), q)
  BY FlattenExists DEF Flat
<1>2. FlattenSeq(q) = IF Len(q) = 0 THEN q ELSE Flat(q)[Len(q)]
  BY DEF FlattenSeq, Flat, Flattens
<1> QED
  BY <1>1, <1>2 DEF Flattens

\* What is flattened with r behind it is what was, and r.
THEOREM FlattenAppend ==
  ASSUME NEW E, NEW q \in Seq(Seq(E)), NEW r \in Seq(E)
  PROVE  FlattenSeq(Append(q, r)) = FlattenSeq(q) \o r
<1> DEFINE n == Len(q)
           p == Append(q, r)
<1>1. /\ p \in Seq(Seq(E)) /\ Len(p) = n + 1 /\ n \in Nat
      /\ \A i \in 1..n : p[i] = q[i]
      /\ p[n + 1] = r
  OBVIOUS
<1> HIDE DEF p
<1>2. /\ FlattenSeq(q) = IF n = 0 THEN q ELSE Flat(q)[n]
      /\ \A i \in 1..n : Flat(q)[i] = IF i = 1 THEN q[i] ELSE Flat(q)[i - 1] \o q[i]
  BY FlatValues
<1>3. /\ FlattenSeq(p) = Flat(p)[n + 1]
      /\ \A i \in 1..(n + 1) : Flat(p)[i] = IF i = 1 THEN p[i] ELSE Flat(p)[i - 1] \o p[i]
  BY <1>1, FlatValues, SMTT(30)
<1> HIDE DEF n
<1>4. CASE n = 0
  <2>1. Flat(p)[1] = r
    BY <1>1, <1>3, <1>4
  <2>2. q = <<>>
    BY <1>4 DEF n
  <2>3. FlattenSeq(q) = <<>>
    BY <1>2, <1>4, <2>2
  <2>4. <<>> \o r = r
    OBVIOUS
  <2> QED
    BY <1>3, <1>4, <2>1, <2>3, <2>4 DEF p
<1>5. CASE n # 0
  <2> DEFINE T == {i \in 1..n : Flat(p)[i] = Flat(q)[i]}
  <2>1. 1 \in T
    BY <1>1, <1>2, <1>3, <1>5
  <2>2. \A i \in 1..(n - 1) : i \in T => i + 1 \in T
    <3> SUFFICES ASSUME NEW i \in 1..(n - 1), i \in T PROVE i + 1 \in T
      OBVIOUS
    <3>1. i + 1 \in 1..n /\ i + 1 \in 1..(n + 1) /\ i + 1 # 1 /\ (i + 1) - 1 = i
      BY <1>1
    <3>2. Flat(q)[i + 1] = Flat(q)[i] \o q[i + 1]
      BY <1>2, <3>1
    <3>3. Flat(p)[i + 1] = Flat(p)[i] \o q[i + 1]
      BY <1>1, <1>3, <3>1
    <3> QED
      BY <3>1, <3>2, <3>3
  <2>3. n \in T
    <3>1. 1 \in Int /\ n \in Int /\ n \in 1..n
      BY <1>1, <1>5
    <3> HIDE DEF T
    <3> QED
      BY <2>1, <2>2, <3>1, Induction
  <2>4. n + 1 \in 1..(n + 1) /\ n + 1 # 1 /\ (n + 1) - 1 = n
    BY <1>1, <1>5
  <2>5. Flat(p)[n + 1] = Flat(p)[n] \o r
    BY <1>1, <1>3, <2>4
  <2> QED
    BY <1>2, <1>3, <1>5, <2>3, <2>5 DEF p
<1> QED
  BY <1>4, <1>5
=============================================================================
