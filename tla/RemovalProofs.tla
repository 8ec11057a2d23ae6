---------------------------- MODULE RemovalProofs ----------------------------
(***************************************************************************)
(* Removal for slices of any length, and the induction such proofs need.   *)
(***************************************************************************)
EXTENDS Removal, FiniteSetsExt, SequenceTheorems, WellFoundedInduction, TLAPS

(***************************************************************************)
(* Induction.  The library's theorem takes an operator; here a proof shows *)
(* that the numbers it is about form a set that 0 is in and that goes on, and *)
(* that set is written out.                                                *)
(***************************************************************************)
\* A set of numbers has a least element, and one with a bound a greatest.
LEMMA Least ==
    ASSUME NEW S, S \subseteq Nat, S # {}
    PROVE  \E x \in S : \A y \in S : x <= y
<1> DEFINE R == OpToRel(<, Nat)
<1>1. IsWellFoundedOn(R, Nat)
  BY NatLessThanWellFounded
<1>2. \A x, y \in Nat : x < y => <<x, y>> \in R
  BY DEF OpToRel
<1> HIDE DEF R
<1>3. PICK x \in S : \A y \in S : ~ (<<y, x>> \in R)
  BY <1>1, WFMin
<1>4. ASSUME NEW y \in S PROVE x <= y
  <2>1. x \in Nat /\ y \in Nat /\ ~(y < x)
    BY <1>2, <1>3
  <2> QED BY <2>1
<1> QED BY <1>3, <1>4

LEMMA Greatest ==
    ASSUME NEW n \in Nat, NEW S, S \subseteq 0..n, S # {}
    PROVE  Max(S) \in S /\ \A y \in S : y <= Max(S)
<1> DEFINE T == {k \in Nat : \E y \in S : k = n - y}
<1>1. T # {} /\ T \subseteq Nat
  <2>1. PICK y \in S : TRUE
    OBVIOUS
  <2>2. y \in Nat /\ n - y \in Nat
    BY <2>1
  <2> QED BY <2>1, <2>2
<1>2. PICK k \in T : \A m \in T : k <= m
  <2> HIDE DEF T
  <2> QED BY <1>1, Least
<1>3. PICK x \in S : k = n - x
  BY <1>2
<1>4. ASSUME NEW y \in S PROVE y <= x
  <2>1. y \in 0..n /\ x \in 0..n /\ n - y \in T
    BY <1>3
  <2>2. n - x <= n - y
    BY <2>1, <1>2, <1>3
  <2> QED BY <2>1, <2>2
<1>5. x \in S /\ \A y \in S : x >= y
  <2>1. ASSUME NEW y \in S PROVE x >= y
    <3>1. x \in 0..n /\ y \in 0..n /\ y <= x
      BY <1>4
    <3> QED BY <3>1
  <2> QED BY <2>1
<1>6. Max(S) \in S /\ \A y \in S : Max(S) >= y
  BY <1>5 DEF Max
<1>7. ASSUME NEW y \in S PROVE y <= Max(S)
  <2>1. Max(S) \in 0..n /\ y \in 0..n /\ Max(S) >= y
    BY <1>6
  <2> QED BY <2>1
<1> QED BY <1>6, <1>7

LEMMA LeastIsMin ==
    ASSUME NEW S, S \subseteq Nat, S # {}
    PROVE  Min(S) \in S /\ \A y \in S : Min(S) <= y
BY Least DEF Min

\* A set of numbers that 0 is in, and that goes on up to n, has all of them.
LEMMA UpTo ==
    ASSUME NEW n \in Nat, NEW T, 0 \in T, \A m \in 0..(n - 1) : m \in T => m + 1 \in T
    PROVE  \A m \in 0..n : m \in T
<1> DEFINE Out == {m \in 0..n : m \notin T}
<1>1. CASE Out = {}
  BY <1>1
<1>2. CASE Out # {}
  <2>1. Out \subseteq Nat
    OBVIOUS
  <2>2. PICK x \in Out : \A y \in Out : x <= y
    <3> HIDE DEF Out
    <3> QED BY <1>2, <2>1, Least
  <2>3. x \in 0..n /\ x # 0 /\ x \notin T
    BY <2>2
  <2>4. x - 1 \in 0..(n - 1) /\ (x - 1) + 1 = x
    BY <2>3
  <2>5. x - 1 \in Out
    BY <2>3, <2>4
  <2>6. x <= x - 1
    BY <2>5, <2>2
  <2> QED BY <2>3, <2>6
<1> QED BY <1>1, <1>2

\* What a loop holds stays in S when one turn of it does not leave S.
LEMMA StaysIn ==
    ASSUME NEW n \in Nat, NEW S, NEW f, f[0] \in S,
           \A m \in 0..(n - 1) : f[m] \in S => f[m + 1] \in S
    PROVE  \A m \in 0..n : f[m] \in S
<1> DEFINE T == {m \in 0..n : f[m] \in S}
<1>1. 0 \in T
  OBVIOUS
<1>2. ASSUME NEW m \in 0..(n - 1), m \in T PROVE m + 1 \in T
  BY <1>2
<1>3. \A m \in 0..n : m \in T
  <2> HIDE DEF T
  <2> QED BY <1>1, <1>2, UpTo
<1> QED BY <1>3

\* A loop over 1..n whose turns are functions on S has a run.
Runs(n, S, b, turn, g) ==
    g \in [0..n -> S] /\ g[0] = b /\ \A m \in 1..n : g[m] = turn[m][g[m - 1]]

LEMMA LoopRuns ==
    ASSUME NEW n \in Nat, NEW S, NEW b \in S, NEW turn \in [1..n -> [S -> S]]
    PROVE  \E g : Runs(n, S, b, turn, g)
<1> DEFINE Run(g, m) == g[0] = b /\ \A k \in 1..m : g[k] = turn[k][g[k - 1]]
           T == {m \in 0..n : \E g \in [0..m -> S] : Run(g, m)}
<1>1. 0 \in T
  <2> DEFINE g == [k \in 0..0 |-> b]
  <2>1. g \in [0..0 -> S] /\ Run(g, 0)
    OBVIOUS
  <2> HIDE DEF g
  <2> QED BY <2>1
<1>2. ASSUME NEW m \in 0..(n - 1), m \in T PROVE m + 1 \in T
  <2>1. PICK g \in [0..m -> S] : Run(g, m)
    BY <1>2
  <2>2. m + 1 \in 1..n /\ m \in 0..m
    OBVIOUS
  <2> DEFINE h == [k \in 0..(m + 1) |-> IF k <= m THEN g[k] ELSE turn[m + 1][g[m]]]
  <2>3. turn[m + 1][g[m]] \in S
    BY <2>1, <2>2
  <2>4. h \in [0..(m + 1) -> S]
    BY <2>3
  <2>5. ASSUME NEW k \in 1..(m + 1) PROVE h[k] = turn[k][h[k - 1]]
    <3>1. CASE k = m + 1
      BY <3>1
    <3>2. CASE k # m + 1
      <4>1. k \in 1..m /\ k - 1 \in 0..m /\ k \in 0..m
        BY <3>2
      <4>2. h[k] = g[k] /\ h[k - 1] = g[k - 1]
        BY <4>1
      <4> HIDE DEF h
      <4> QED BY <4>1, <4>2, <2>1
    <3> QED BY <3>1, <3>2
  <2>6. h[0] = b
    BY <2>1
  <2> HIDE DEF h
  <2>7. Run(h, m + 1)
    BY <2>5, <2>6
  <2> HIDE DEF Run
  <2> QED BY <2>4, <2>7
<1>3. n \in T
  <2> HIDE DEF T
  <2>1. n \in 0..n
    OBVIOUS
  <2> QED BY <1>1, <1>2, <2>1, UpTo
<1> QED BY <1>3 DEF Runs
-----------------------------------------------------------------------------
(***************************************************************************)
(* Removal: what a loop that filters a slice leaves of it, and that it does *)
(* so under any names of the elements.                                     *)
(***************************************************************************)
\* What the loop has kept of s after each of its turns.
Keeps(k, s, gone, S) ==
    /\ k \in [0..Len(s) -> Seq(S)]
    /\ k[0] = <<>> /\ Without(s, gone) = k[Len(s)]
    /\ \A n \in 1..Len(s) : k[n] = IF s[n] \in gone THEN k[n - 1] ELSE Append(k[n - 1], s[n])

LEMMA WithoutSteps ==
    ASSUME NEW S, NEW s \in Seq(S), NEW gone
    PROVE  \E k : Keeps(k, s, gone, S)
<1> DEFINE Made(g) == g = [n \in 0..Len(s) |->
                             IF n = 0 THEN <<>>
                             ELSE IF s[n] \in gone THEN g[n - 1] ELSE Append(g[n - 1], s[n])]
           turn == [n \in 1..Len(s) |-> [t \in Seq(S) |->
                      IF s[n] \in gone THEN t ELSE Append(t, s[n])]]
           k == CHOOSE g : Made(g)
<1>1. Len(s) \in Nat /\ <<>> \in Seq(S)
  BY EmptySeq
<1>2. turn \in [1..Len(s) -> [Seq(S) -> Seq(S)]]
  <2>1. ASSUME NEW n \in 1..Len(s), NEW t \in Seq(S) PROVE Append(t, s[n]) \in Seq(S)
    OBVIOUS
  <2> QED BY <2>1
<1>3. PICK g : Runs(Len(s), Seq(S), <<>>, turn, g)
  <2> HIDE DEF turn
  <2> QED BY <1>1, <1>2, LoopRuns
<1>4. Made(g)
  <2>1. ASSUME NEW n \in 0..Len(s)
        PROVE  g[n] = IF n = 0 THEN <<>>
                      ELSE IF s[n] \in gone THEN g[n - 1] ELSE Append(g[n - 1], s[n])
    <3>1. CASE n = 0
      BY <3>1, <1>3 DEF Runs
    <3>2. CASE n # 0
      <4>1. n \in 1..Len(s) /\ n - 1 \in 0..Len(s)
        BY <3>2, <1>1
      <4>2. g[n] = turn[n][g[n - 1]] /\ g[n - 1] \in Seq(S)
        <5> HIDE DEF turn
        <5> QED BY <4>1, <1>3 DEF Runs
      <4> QED BY <4>1, <4>2, <3>2
    <3> QED BY <3>1, <3>2
  <2>2. g = [n \in 0..Len(s) |-> g[n]]
    BY <1>3 DEF Runs
  <2> HIDE DEF turn
  <2> QED BY <2>1, <2>2
<1>5. Made(k)
  <2> HIDE DEF Made
  <2> QED BY <1>4
<1>6. Without(s, gone) = k[Len(s)]
  BY DEF Without
<1> HIDE DEF k
<1>7. k[0] = <<>> /\ \A n \in 1..Len(s) :
         k[n] = IF s[n] \in gone THEN k[n - 1] ELSE Append(k[n - 1], s[n])
  <2>1. ASSUME NEW n \in 0..Len(s)
        PROVE  k[n] = IF n = 0 THEN <<>>
                      ELSE IF s[n] \in gone THEN k[n - 1] ELSE Append(k[n - 1], s[n])
    BY <1>5
  <2> QED BY <2>1, <1>1
<1>8. ASSUME NEW m \in 0..(Len(s) - 1), k[m] \in Seq(S) PROVE k[m + 1] \in Seq(S)
  <2>1. m + 1 \in 1..Len(s) /\ (m + 1) - 1 = m /\ s[m + 1] \in S
    BY <1>1
  <2>2. Append(k[m], s[m + 1]) \in Seq(S)
    BY <2>1, <1>8
  <2> QED BY <2>1, <2>2, <1>7, <1>8
<1>9. \A m \in 0..Len(s) : k[m] \in Seq(S)
  BY <1>1, <1>7, <1>8, StaysIn
<1>10. k = [m \in 0..Len(s) |-> k[m]]
  BY <1>5
<1> HIDE DEF Made
<1> QED BY <1>6, <1>7, <1>9, <1>10 DEF Keeps

LEMMA WithoutType ==
    ASSUME NEW S, NEW s \in Seq(S), NEW gone
    PROVE  Without(s, gone) \in Seq(S)
<1>1. PICK k : Keeps(k, s, gone, S)
  BY WithoutSteps
<1>2. Len(s) \in 0..Len(s)
  OBVIOUS
<1> QED BY <1>1, <1>2 DEF Keeps

Mapped(s, f) == [i \in DOMAIN s |-> f[s[i]]]

\* Removing commutes with renaming the elements.
LEMMA WithoutOfMap ==
    ASSUME NEW S, NEW s \in Seq(S), NEW f, NEW A, NEW B,
           \A i \in DOMAIN s : s[i] \in A <=> f[s[i]] \in B
    PROVE  Without(Mapped(s, f), B) = Mapped(Without(s, A), f)
<1> DEFINE mapped(t) == [i \in DOMAIN t |-> f[t[i]]]
<1>10. PICK R : R = {f[y] : y \in S}
  OBVIOUS
<1>11. \A y \in S : f[y] \in R
  BY <1>10
<1>1. Len(s) \in Nat /\ DOMAIN s = 1..Len(s)
  OBVIOUS
<1>9. PICK u : u = mapped(s)
  OBVIOUS
<1>2. u \in Seq(R) /\ Len(u) = Len(s) /\ \A i \in 1..Len(s) : u[i] = f[s[i]]
  <2>1. \A i \in 1..Len(s) : f[s[i]] \in R
    BY <1>11
  <2>2. u = [i \in 1..Len(s) |-> f[s[i]]]
    BY <1>1, <1>9
  <2> QED BY <1>1, <2>1, <2>2
<1>3. PICK k : Keeps(k, s, A, S)
  BY WithoutSteps
<1>4. PICK l : Keeps(l, u, B, R)
  BY <1>2, WithoutSteps
<1> DEFINE T == {n \in 0..Len(s) : l[n] = mapped(k[n])}
<1>5. 0 \in T
  <2>1. mapped(<<>>) = <<>>
    OBVIOUS
  <2> HIDE DEF mapped
  <2> QED BY <1>1, <1>2, <1>3, <1>4, <2>1 DEF Keeps
<1>6. ASSUME NEW m \in 0..(Len(s) - 1), m \in T PROVE m + 1 \in T
  <2>1. m + 1 \in 1..Len(s) /\ (m + 1) - 1 = m /\ m \in 0..Len(s) /\ m + 1 \in 0..Len(s)
    BY <1>1
  <2>2. s[m + 1] \in S /\ u[m + 1] = f[s[m + 1]] /\ (s[m + 1] \in A <=> u[m + 1] \in B)
    BY <2>1, <1>1, <1>2
  <2>3. k[m] \in Seq(S) /\ l[m] = mapped(k[m])
    BY <1>3, <1>6, <2>1 DEF Keeps
  <2>4. /\ k[m + 1] = IF s[m + 1] \in A THEN k[m] ELSE Append(k[m], s[m + 1])
        /\ l[m + 1] = IF u[m + 1] \in B THEN l[m] ELSE Append(l[m], u[m + 1])
    BY <1>2, <1>3, <1>4, <2>1 DEF Keeps
  <2>5. mapped(Append(k[m], s[m + 1])) = Append(mapped(k[m]), f[s[m + 1]])
    <3>1. ASSUME NEW t \in Seq(S), NEW x \in S
          PROVE  mapped(Append(t, x)) = Append(mapped(t), f[x])
      <4>1. Len(t) \in Nat /\ DOMAIN t = 1..Len(t) /\ Append(t, x) \in Seq(S)
            /\ Len(Append(t, x)) = Len(t) + 1
        OBVIOUS
      <4>2. mapped(t) \in Seq(R) /\ Len(mapped(t)) = Len(t)
        <5>1. mapped(t) = [i \in 1..Len(t) |-> f[t[i]]]
          BY <4>1
        <5>2. \A i \in 1..Len(t) : f[t[i]] \in R
          BY <4>1, <1>11
        <5> QED BY <5>1, <5>2, <4>1
      <4>6. f[x] \in R
        BY <1>11
      <4>3. Append(mapped(t), f[x]) \in Seq(R) /\ Len(Append(mapped(t), f[x])) = Len(t) + 1
        <5> HIDE DEF mapped
        <5> QED BY <4>2, <4>6
      <4>4. mapped(Append(t, x)) \in Seq(R) /\ Len(mapped(Append(t, x))) = Len(t) + 1
        <5>1. mapped(Append(t, x)) = [i \in 1..(Len(t) + 1) |-> f[Append(t, x)[i]]]
          BY <4>1
        <5>2. \A i \in 1..(Len(t) + 1) : Append(t, x)[i] \in S
          BY <4>1
        <5> HIDE DEF mapped
        <5> QED BY <5>1, <5>2, <4>1, <1>11
      <4>5. ASSUME NEW i \in 1..(Len(t) + 1)
            PROVE  mapped(Append(t, x))[i] = Append(mapped(t), f[x])[i]
        <5>1. mapped(Append(t, x))[i] = f[Append(t, x)[i]]
          BY <4>1
        <5>2. CASE i <= Len(t)
          <6>1. Append(t, x)[i] = t[i] /\ mapped(t)[i] = f[t[i]] /\ i \in 1..Len(t)
            BY <5>2, <4>1
          <6>2. Append(mapped(t), f[x])[i] = mapped(t)[i]
            <7> HIDE DEF mapped
            <7> QED BY <4>2, <6>1
          <6> QED BY <5>1, <6>1, <6>2
        <5>3. CASE ~(i <= Len(t))
          <6>1. i = Len(t) + 1 /\ Append(t, x)[i] = x
            BY <5>3, <4>1
          <6>2. Append(mapped(t), f[x])[i] = f[x]
            <7> HIDE DEF mapped
            <7> QED BY <4>2, <6>1
          <6> QED BY <5>1, <6>1, <6>2
        <5> QED BY <5>2, <5>3
      <4> HIDE DEF mapped
      <4> QED BY <4>1, <4>3, <4>4, <4>5, SeqEqual
    <3> HIDE DEF mapped
    <3> QED BY <2>2, <2>3, <3>1
  <2> HIDE DEF mapped
  <2>6. l[m + 1] = mapped(k[m + 1])
    BY <2>2, <2>3, <2>4, <2>5
  <2> QED BY <2>1, <2>6
<1>7. Len(s) \in T
  <2> HIDE DEF T
  <2>1. Len(s) \in 0..Len(s)
    BY <1>1
  <2> QED BY <1>1, <1>5, <1>6, <2>1, UpTo
<1>8. Without(u, B) = mapped(Without(s, A))
  <2> HIDE DEF mapped
  <2> QED BY <1>2, <1>3, <1>4, <1>7 DEF Keeps
<1> QED BY <1>8, <1>9 DEF Mapped

LEMMA WithoutDrops ==
    ASSUME NEW S, NEW s \in Seq(S), NEW gone
    PROVE  \A i \in DOMAIN Without(s, gone) : Without(s, gone)[i] \notin gone
<1>1. PICK k : Keeps(k, s, gone, S)
  BY WithoutSteps
<1>2. Len(s) \in Nat
  OBVIOUS
<1> DEFINE T == {n \in 0..Len(s) : \A i \in 1..Len(k[n]) : k[n][i] \notin gone}
<1>3. 0 \in T
  <2>1. Len(k[0]) = 0 /\ 0 \in 0..Len(s)
    BY <1>1, <1>2 DEF Keeps
  <2> QED BY <2>1
<1>4. ASSUME NEW m \in 0..(Len(s) - 1), m \in T PROVE m + 1 \in T
  <2>1. m + 1 \in 1..Len(s) /\ (m + 1) - 1 = m /\ m \in 0..Len(s) /\ m + 1 \in 0..Len(s)
    BY <1>2
  <2>2. k[m] \in Seq(S) /\ s[m + 1] \in S
    BY <1>1, <2>1 DEF Keeps
  <2>3. k[m + 1] = IF s[m + 1] \in gone THEN k[m] ELSE Append(k[m], s[m + 1])
    BY <1>1, <2>1 DEF Keeps
  <2>4. CASE s[m + 1] \in gone
    BY <2>1, <2>3, <2>4, <1>4
  <2>5. CASE s[m + 1] \notin gone
    <3>1. k[m + 1] = Append(k[m], s[m + 1]) /\ Len(k[m]) \in Nat
      BY <2>2, <2>3, <2>5
    <3>2. ASSUME NEW i \in 1..Len(k[m + 1]) PROVE k[m + 1][i] \notin gone
      <4>1. CASE i = Len(k[m]) + 1
        BY <4>1, <3>1, <2>2, <2>5
      <4>2. CASE i # Len(k[m]) + 1
        <5>1. i \in 1..Len(k[m]) /\ k[m + 1][i] = k[m][i]
          BY <4>2, <3>1, <2>2
        <5> QED BY <5>1, <1>4
      <4> QED BY <4>1, <4>2
    <3> QED BY <3>2, <2>1
  <2> QED BY <2>4, <2>5
<1>5. Len(s) \in T
  <2> HIDE DEF T
  <2>1. Len(s) \in 0..Len(s)
    BY <1>2
  <2> QED BY <1>2, <1>3, <1>4, <2>1, UpTo
<1>6. Without(s, gone) = k[Len(s)] /\ k[Len(s)] \in Seq(S)
  BY <1>1, <1>2 DEF Keeps
<1> QED BY <1>5, <1>6
\* What is kept of the beginning of a slice is the beginning of what is kept.
SameStart(s, t, A, B) == \A i \in DOMAIN s : t[i] = s[i] /\ (s[i] \in A <=> s[i] \in B)

LEMMA WithoutGrows ==
    ASSUME NEW S, NEW s \in Seq(S), NEW t \in Seq(S), NEW A, NEW B, Len(s) <= Len(t),
           SameStart(s, t, A, B)
    PROVE  \A i \in DOMAIN Without(s, A) :
              i \in DOMAIN Without(t, B) /\ Without(t, B)[i] = Without(s, A)[i]
<1>1. PICK k : Keeps(k, s, A, S)
  BY WithoutSteps
<1>2. PICK l : Keeps(l, t, B, S)
  BY WithoutSteps
<1>3. Len(s) \in Nat /\ Len(t) \in Nat /\ DOMAIN s = 1..Len(s)
  OBVIOUS
<1> DEFINE T == {n \in 0..Len(s) : l[n] = k[n]}
<1>4. 0 \in T
  BY <1>1, <1>2, <1>3 DEF Keeps
<1>5. ASSUME NEW m \in 0..(Len(s) - 1), m \in T PROVE m + 1 \in T
  <2>1. /\ m + 1 \in 1..Len(s) /\ m + 1 \in 1..Len(t) /\ (m + 1) - 1 = m
        /\ m + 1 \in 0..Len(s) /\ m + 1 \in DOMAIN s
    BY <1>3
  <2>2. /\ k[m + 1] = IF s[m + 1] \in A THEN k[m] ELSE Append(k[m], s[m + 1])
        /\ l[m + 1] = IF t[m + 1] \in B THEN l[m] ELSE Append(l[m], t[m + 1])
    BY <1>1, <1>2, <2>1 DEF Keeps
  <2> QED BY <1>5, <2>1, <2>2 DEF SameStart
<1>6. Len(s) \in T
  <2> HIDE DEF T
  <2>1. Len(s) \in 0..Len(s)
    BY <1>3
  <2> QED BY <1>3, <1>4, <1>5, <2>1, UpTo
<1>7. PICK q : q = k[Len(s)] /\ q \in Seq(S)
  BY <1>1, <1>3 DEF Keeps
<1> DEFINE Begins(u) == u \in Seq(S) /\ \A i \in DOMAIN q : i \in DOMAIN u /\ u[i] = q[i]
           U == {n \in 0..(Len(t) - Len(s)) : Begins(l[Len(s) + n])}
<1>8. 0 \in U
  <2>1. Len(s) + 0 = Len(s) /\ 0 \in 0..(Len(t) - Len(s))
    BY <1>3
  <2>2. l[Len(s)] = q
    BY <1>6, <1>7
  <2> QED BY <1>7, <2>1, <2>2
<1>9. ASSUME NEW m \in 0..((Len(t) - Len(s)) - 1), m \in U PROVE m + 1 \in U
  <2>1. PICK n : n = Len(s) + m
    OBVIOUS
  <2>2. /\ n + 1 \in 1..Len(t) /\ (n + 1) - 1 = n /\ Len(s) + (m + 1) = n + 1
        /\ m + 1 \in 0..(Len(t) - Len(s))
    <3>1. PICK a, b : a = Len(s) /\ b = Len(t)
      OBVIOUS
    <3>2. a \in Nat /\ b \in Nat /\ m \in 0..((b - a) - 1) /\ n = a + m
      BY <1>3, <2>1, <3>1
    <3>3. n + 1 \in 1..b /\ (n + 1) - 1 = n /\ a + (m + 1) = n + 1 /\ m + 1 \in 0..(b - a)
      BY <3>2
    <3> QED BY <3>1, <3>3
  <2>3. l[n + 1] = IF t[n + 1] \in B THEN l[n] ELSE Append(l[n], t[n + 1])
    BY <1>2, <2>2 DEF Keeps
  <2>4. Begins(l[n]) /\ t[n + 1] \in S
    BY <1>9, <2>1, <2>2
  <2>5. ASSUME NEW u \in Seq(S), NEW x \in S, Begins(u) PROVE Begins(Append(u, x))
    <3>1. Append(u, x) \in Seq(S) /\ \A i \in DOMAIN u : i \in DOMAIN Append(u, x) /\ Append(u, x)[i] = u[i]
      OBVIOUS
    <3> QED BY <3>1, <2>5
  <2>6. Begins(l[n + 1])
    BY <2>3, <2>4, <2>5
  <2> HIDE DEF Begins
  <2> QED BY <2>2, <2>6
<1>10. Len(t) - Len(s) \in U
  <2> HIDE DEF U
  <2>1. Len(t) - Len(s) \in Nat /\ Len(t) - Len(s) \in 0..(Len(t) - Len(s))
    BY <1>3
  <2> QED BY <1>8, <1>9, <2>1, UpTo
<1>11. Begins(l[Len(t)])
  <2>1. Len(s) + (Len(t) - Len(s)) = Len(t)
    BY <1>3
  <2> HIDE DEF Begins
  <2> QED BY <1>10, <2>1
<1> QED BY <1>1, <1>2, <1>7, <1>11 DEF Keeps
-----------------------------------------------------------------------------
(***************************************************************************)
(* Sequences.                                                              *)
(***************************************************************************)
LEMMA OneLine ==
    ASSUME NEW S, NEW x \in S
    PROVE  <<x>> \in Seq(S) /\ Len(<<x>>) = 1
OBVIOUS

LEMMA SomeLines ==
    ASSUME NEW S, NEW s \in Seq(S)
    PROVE  Len(s) \in Nat /\ (s # <<>> => Len(s) > 0) /\ (s = <<>> => Len(s) = 0)
BY EmptySeq, LenProperties

LEMMA MoreOfOne ==
    ASSUME NEW S, NEW s \in Seq(S), NEW m \in Nat, NEW x \in S
    PROVE  s \o [k \in 1..m |-> x] \in Seq(S) /\ Len(s \o [k \in 1..m |-> x]) = Len(s) + m
<1>1. PICK y : y = [k \in 1..m |-> x]
  OBVIOUS
<1>2. y \in Seq(S) /\ Len(y) = m
  BY <1>1
<1>3. s \o y \in Seq(S) /\ Len(s \o y) = Len(s) + Len(y)
  BY <1>2, ConcatProperties
<1> QED BY <1>1, <1>2, <1>3

-----------------------------------------------------------------------------
(***************************************************************************)
(* Removal from what is put together.                                      *)
(***************************************************************************)
LEMMA ConcatAppend ==
    ASSUME NEW S, NEW u \in Seq(S), NEW v \in Seq(S), NEW x \in S
    PROVE  u \o Append(v, x) = Append(u \o v, x)
<1>1. u \o v \in Seq(S) /\ Len(u \o v) = Len(u) + Len(v) /\ Len(u) \in Nat /\ Len(v) \in Nat
      /\ \A i \in 1..(Len(u) + Len(v)) : (u \o v)[i] = IF i <= Len(u) THEN u[i] ELSE v[i - Len(u)]
  BY ConcatProperties, LenProperties
<1>2. PICK a : a = Append(v, x)
  OBVIOUS
<1>3. a \in Seq(S) /\ Len(a) = Len(v) + 1 /\ \A i \in 1..Len(v) : a[i] = v[i] /\ a[Len(v) + 1] = x
  BY <1>2
<1>4. /\ u \o a \in Seq(S) /\ Len(u \o a) = Len(u) + Len(a)
      /\ \A i \in 1..(Len(u) + Len(a)) : (u \o a)[i] = IF i <= Len(u) THEN u[i] ELSE a[i - Len(u)]
  BY <1>3, ConcatProperties
<1>5. PICK w : w = u \o v
  OBVIOUS
<1>6. PICK b : b = Append(w, x)
  OBVIOUS
<1>7. b \in Seq(S) /\ Len(b) = Len(w) + 1 /\ (\A i \in 1..Len(w) : b[i] = w[i]) /\ b[Len(w) + 1] = x
  BY <1>1, <1>5, <1>6
<1>8. ASSUME NEW i \in 1..Len(b) PROVE (u \o a)[i] = b[i]
  <2>1. i \in 1..(Len(u) + Len(v) + 1) /\ Len(w) = Len(u) + Len(v) /\ i \in 1..(Len(u) + Len(a))
    BY <1>1, <1>3, <1>5, <1>7
  <2>2. CASE i <= Len(u)
    <3>1. i \in 1..Len(w) /\ i \in 1..(Len(u) + Len(v))
      BY <2>1, <2>2, <1>1
    <3> QED BY <3>1, <2>1, <2>2, <1>1, <1>4, <1>5, <1>7
  <2>3. CASE ~(i <= Len(u)) /\ i <= Len(u) + Len(v)
    <3>1. i \in 1..Len(w) /\ i - Len(u) \in 1..Len(v)
      BY <2>1, <2>3, <1>1
    <3>2. (u \o a)[i] = a[i - Len(u)] /\ b[i] = w[i] /\ w[i] = v[i - Len(u)]
      BY <3>1, <2>1, <2>3, <1>1, <1>4, <1>5, <1>7
    <3> QED BY <3>1, <3>2, <1>3
  <2>4. CASE i = Len(u) + Len(v) + 1
    <3>1. (u \o a)[i] = a[i - Len(u)] /\ i - Len(u) = Len(v) + 1
      BY <2>1, <2>4, <1>1, <1>4
    <3>2. a[Len(v) + 1] = x
      BY <1>2
    <3> QED BY <3>1, <3>2, <2>1, <2>4, <1>7
  <2>5. i <= Len(u) \/ (~(i <= Len(u)) /\ i <= Len(u) + Len(v)) \/ i = Len(u) + Len(v) + 1
    <3>1. i \in 1..(Len(u) + Len(v) + 1)
      BY <2>1
    <3>2. PICK e : e = Len(u) + Len(v)
      OBVIOUS
    <3>3. e \in Nat /\ Len(u) \in Nat
      BY <1>1, <3>2
    <3> QED BY ONLY <3>1, <3>2, <3>3
  <2> QED BY <2>2, <2>3, <2>4, <2>5
<1>9. Len(u \o a) = Len(b)
  BY <1>1, <1>3, <1>4, <1>5, <1>7
<1>10. u \o a = b
  BY <1>4, <1>7, <1>8, <1>9, SeqEqual
<1> QED BY <1>2, <1>5, <1>6, <1>10

LEMMA WithoutConcat ==
    ASSUME NEW S, NEW s \in Seq(S), NEW t \in Seq(S), NEW gone
    PROVE  Without(s \o t, gone) = Without(s, gone) \o Without(t, gone)
<1>1. PICK u : u = s \o t
  OBVIOUS
<1>2. /\ u \in Seq(S) /\ Len(u) = Len(s) + Len(t) /\ Len(s) \in Nat /\ Len(t) \in Nat
      /\ \A i \in 1..(Len(s) + Len(t)) : u[i] = IF i <= Len(s) THEN s[i] ELSE t[i - Len(s)]
  BY <1>1, ConcatProperties, LenProperties
<1>3. PICK k : Keeps(k, s, gone, S)
  BY WithoutSteps
<1>4. PICK l : Keeps(l, t, gone, S)
  BY WithoutSteps
<1>5. PICK m : Keeps(m, u, gone, S)
  BY <1>2, WithoutSteps
<1> DEFINE T == {n \in 0..Len(s) : m[n] = k[n]}
<1>6. 0 \in T
  BY <1>2, <1>3, <1>5 DEF Keeps
<1>7. ASSUME NEW n \in 0..(Len(s) - 1), n \in T PROVE n + 1 \in T
  <2>1. n + 1 \in 1..Len(s) /\ n + 1 \in 1..Len(u) /\ (n + 1) - 1 = n /\ n + 1 \in 0..Len(s)
    BY <1>2
  <2>2. u[n + 1] = s[n + 1]
    BY <1>2, <2>1
  <2>3. /\ k[n + 1] = IF s[n + 1] \in gone THEN k[n] ELSE Append(k[n], s[n + 1])
        /\ m[n + 1] = IF u[n + 1] \in gone THEN m[n] ELSE Append(m[n], u[n + 1])
    BY <1>3, <1>5, <2>1 DEF Keeps
  <2> QED BY <1>7, <2>1, <2>2, <2>3
<1>8. m[Len(s)] = Without(s, gone)
  <2> HIDE DEF T
  <2>1. Len(s) \in 0..Len(s)
    BY <1>2
  <2>2. Len(s) \in T
    BY <1>2, <1>6, <1>7, <2>1, UpTo
  <2> QED BY <2>2, <1>3 DEF Keeps, T
<1>9. PICK w : w = Without(s, gone)
  OBVIOUS
<1>10. w \in Seq(S)
  BY <1>9, WithoutType
<1> DEFINE U == {n \in 0..Len(t) : m[Len(s) + n] = w \o l[n]}
<1>11. 0 \in U
  <2>1. w \o <<>> = w
    BY <1>10, ConcatEmptySeq
  <2>2. Len(s) + 0 = Len(s) /\ 0 \in 0..Len(t) /\ l[0] = <<>>
    BY <1>2, <1>4 DEF Keeps
  <2> QED BY <1>8, <1>9, <2>1, <2>2
<1>12. ASSUME NEW n \in 0..(Len(t) - 1), n \in U PROVE n + 1 \in U
  <2>1. /\ n + 1 \in 1..Len(t) /\ Len(s) + (n + 1) \in 1..Len(u) /\ (n + 1) - 1 = n /\ n + 1 \in 0..Len(t)
        /\ (Len(s) + (n + 1)) - 1 = Len(s) + n /\ ~(Len(s) + (n + 1) <= Len(s))
        /\ (Len(s) + (n + 1)) - Len(s) = n + 1 /\ n \in 0..Len(t)
    BY <1>2
  <2>2. u[Len(s) + (n + 1)] = t[n + 1] /\ t[n + 1] \in S
    BY <1>2, <2>1
  <2>3. l[n + 1] = IF t[n + 1] \in gone THEN l[n] ELSE Append(l[n], t[n + 1])
    BY <1>4, <2>1 DEF Keeps
  <2>4. m[Len(s) + (n + 1)] = IF u[Len(s) + (n + 1)] \in gone THEN m[Len(s) + n]
                              ELSE Append(m[Len(s) + n], u[Len(s) + (n + 1)])
    BY <1>5, <2>1 DEF Keeps
  <2>5. l[n] \in Seq(S) /\ m[Len(s) + n] = w \o l[n]
    BY <1>4, <1>12, <2>1 DEF Keeps
  <2>6. w \o Append(l[n], t[n + 1]) = Append(w \o l[n], t[n + 1])
    <3>1. PICK v : v = l[n]
      OBVIOUS
    <3>2. PICK x : x = t[n + 1]
      OBVIOUS
    <3>3. w \in Seq(S) /\ v \in Seq(S) /\ x \in S
      BY <1>10, <2>2, <2>5, <3>1, <3>2
    <3>4. w \o Append(v, x) = Append(w \o v, x)
      BY <3>3, ConcatAppend
    <3> QED BY <3>1, <3>2, <3>4
  <2>7. m[Len(s) + (n + 1)] = w \o l[n + 1]
    <3>1. CASE t[n + 1] \in gone
      BY <2>2, <2>3, <2>4, <2>5, <3>1
    <3>2. CASE t[n + 1] \notin gone
      <4>1. l[n + 1] = Append(l[n], t[n + 1]) /\ m[Len(s) + (n + 1)] = Append(m[Len(s) + n], t[n + 1])
        BY <2>2, <2>3, <2>4, <3>2
      <4> QED BY <4>1, <2>5, <2>6, Zenon
    <3> QED BY <3>1, <3>2
  <2> QED BY <2>1, <2>7
<1>13. Len(t) \in U
  <2> HIDE DEF U
  <2>1. Len(t) \in 0..Len(t)
    BY <1>2
  <2> QED BY <1>2, <1>11, <1>12, <2>1, UpTo
<1>14. m[Len(s) + Len(t)] = w \o Without(t, gone)
  BY <1>4, <1>13 DEF Keeps
<1>15. Without(u, gone) = m[Len(s) + Len(t)]
  BY <1>2, <1>5 DEF Keeps
<1> QED BY <1>1, <1>9, <1>14, <1>15, Zenon

LEMMA WithoutAll ==
    ASSUME NEW S, NEW s \in Seq(S), NEW gone, \A i \in 1..Len(s) : s[i] \in gone
    PROVE  Without(s, gone) = <<>>
<1>1. PICK k : Keeps(k, s, gone, S)
  BY WithoutSteps
<1>2. Len(s) \in Nat
  BY LenProperties
<1> DEFINE T == {n \in 0..Len(s) : k[n] = <<>>}
<1>3. 0 \in T
  BY <1>1, <1>2 DEF Keeps
<1>4. ASSUME NEW n \in 0..(Len(s) - 1), n \in T PROVE n + 1 \in T
  <2>1. n + 1 \in 1..Len(s) /\ (n + 1) - 1 = n /\ n + 1 \in 0..Len(s)
    BY <1>2
  <2>2. k[n + 1] = IF s[n + 1] \in gone THEN k[n] ELSE Append(k[n], s[n + 1])
    BY <1>1, <2>1 DEF Keeps
  <2> QED BY <1>4, <2>1, <2>2
<1>5. Len(s) \in T
  <2> HIDE DEF T
  <2>1. Len(s) \in 0..Len(s)
    BY <1>2
  <2> QED BY <1>2, <1>3, <1>4, <2>1, UpTo
<1> QED BY <1>1, <1>5 DEF Keeps

LEMMA WithoutNone ==
    ASSUME NEW S, NEW s \in Seq(S), NEW gone, \A i \in 1..Len(s) : s[i] \notin gone
    PROVE  Without(s, gone) = s
<1>1. PICK k : Keeps(k, s, gone, S)
  BY WithoutSteps
<1>2. Len(s) \in Nat
  BY LenProperties
<1> DEFINE T == {n \in 0..Len(s) : Len(k[n]) = n /\ \A i \in 1..n : k[n][i] = s[i]}
<1>3. 0 \in T
  <2>1. k[0] = <<>> /\ Len(<<>>) = 0 /\ 0 \in 0..Len(s)
    BY <1>1, <1>2 DEF Keeps
  <2> QED BY <2>1
<1>4. ASSUME NEW n \in 0..(Len(s) - 1), n \in T PROVE n + 1 \in T
  <2>1. n + 1 \in 1..Len(s) /\ (n + 1) - 1 = n /\ n + 1 \in 0..Len(s) /\ n \in 0..Len(s)
    BY <1>2
  <2>2. k[n + 1] = Append(k[n], s[n + 1]) /\ k[n] \in Seq(S) /\ s[n + 1] \in S
    <3>1. s[n + 1] \notin gone /\ s[n + 1] \in S
      BY <2>1, ElementOfSeq
    <3>2. k[n + 1] = IF s[n + 1] \in gone THEN k[n] ELSE Append(k[n], s[n + 1])
      BY <1>1, <2>1 DEF Keeps
    <3>3. k[n] \in Seq(S)
      BY <1>1, <2>1 DEF Keeps
    <3> QED BY <3>1, <3>2, <3>3
  <2>3. Len(k[n]) = n /\ \A i \in 1..n : k[n][i] = s[i]
    BY <1>4
  <2>4. Len(k[n + 1]) = n + 1
    BY <2>2, <2>3
  <2>5. ASSUME NEW i \in 1..(n + 1) PROVE k[n + 1][i] = s[i]
    <3>1. CASE i = n + 1
      BY <2>2, <2>3, <3>1
    <3>2. CASE i # n + 1
      <4>1. i \in 1..n /\ i \in 1..Len(k[n])
        BY <3>2, <2>3
      <4> QED BY <4>1, <2>2, <2>3
    <3> QED BY <3>1, <3>2
  <2> QED BY <2>1, <2>4, <2>5
<1>5. Len(s) \in T
  <2> HIDE DEF T
  <2>1. Len(s) \in 0..Len(s)
    BY <1>2
  <2> QED BY <1>2, <1>3, <1>4, <2>1, UpTo
<1>6. Without(s, gone) = k[Len(s)] /\ k[Len(s)] \in Seq(S)
  BY <1>1, <1>2 DEF Keeps
<1> QED BY <1>5, <1>6, SeqEqual
=============================================================================
