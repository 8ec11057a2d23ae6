---------------------------- MODULE ScreenProofs ----------------------------
(***************************************************************************)
(* What the screen shows, for any number of tabs and any length of text:   *)
(* the panes and their tabs, the cache of tokens a tab is painted from,    *)
(* the question before a tab or the program is closed, and the lists of the *)
(* git panel, the popups and the debugger with what is selected in them.   *)
(***************************************************************************)
EXTENDS MCScreen, LineCache, RemovalProofs, SequenceTheorems, FiniteSetTheorems,
        WellFoundedInduction, TLAPS

(***************************************************************************)
(* Panes implements PaneHistory: under the map from indices to tabs each step *)
(* of the panes is a step of the views, or none.                           *)
(***************************************************************************)
Distinct(s) == \A i, j \in DOMAIN s : s[i] = s[j] => i = j

\* A closing takes the tabs of the closed indices out of s and leaves t.
Renumbers(s, t, closed) ==
    /\ Len(t) = Left(Len(s), closed)
    /\ \A i \in DOMAIN s \ closed : Left(i, closed) \in DOMAIN t /\ t[Left(i, closed)] = s[i]
    /\ \A k \in DOMAIN t : \E i \in DOMAIN s \ closed : k = Left(i, closed)

LEMMA LeftCounts ==
    ASSUME NEW closed
    PROVE  /\ \A n \in Nat : Left(n, closed) \in Nat
           /\ Left(0, closed) = 0
           /\ \A n \in Nat : Left(n + 1, closed) = IF n + 1 \in closed THEN Left(n, closed)
                                                   ELSE Left(n, closed) + 1
<1>1. ASSUME NEW n \in Nat PROVE IsFiniteSet((1..n) \ closed)
  <2>1. IsFiniteSet(1..n)
    BY FS_Interval
  <2>2. (1..n) \ closed \in SUBSET (1..n)
    OBVIOUS
  <2> QED BY <2>1, <2>2, FS_Subset
<1>2. \A n \in Nat : Left(n, closed) \in Nat
  BY <1>1, FS_CardinalityType DEF Left
<1>3. Left(0, closed) = 0
  <2>1. (1..0) \ closed = {}
    OBVIOUS
  <2> QED BY <2>1, FS_EmptySet DEF Left
<1>4. ASSUME NEW n \in Nat
      PROVE  Left(n + 1, closed) = IF n + 1 \in closed THEN Left(n, closed) ELSE Left(n, closed) + 1
  <2>1. CASE n + 1 \in closed
    <3>1. (1..(n + 1)) \ closed = (1..n) \ closed
      BY <2>1
    <3> QED BY <3>1, <2>1 DEF Left
  <2>2. CASE n + 1 \notin closed
    <3>1. (1..(n + 1)) \ closed = ((1..n) \ closed) \cup {n + 1}
      BY <2>2
    <3>2. n + 1 \notin (1..n) \ closed
      OBVIOUS
    <3>3. Cardinality(((1..n) \ closed) \cup {n + 1}) = Cardinality((1..n) \ closed) + 1
      BY <1>1, <3>2, FS_AddElement
    <3> QED BY <2>2, <3>1, <3>3 DEF Left
  <2> QED BY <2>1, <2>2
<1> QED BY <1>2, <1>3, <1>4

LEMMA LeftGrows ==
    ASSUME NEW closed, NEW n \in Nat, NEW i \in 0..n
    PROVE  Left(i, closed) <= Left(n, closed)
<1>1. IsFiniteSet(1..n)
  BY FS_Interval
<1>2. IsFiniteSet((1..n) \ closed)
  <2>1. (1..n) \ closed \in SUBSET (1..n)
    OBVIOUS
  <2> QED BY <1>1, <2>1, FS_Subset
<1>3. (1..i) \ closed \in SUBSET ((1..n) \ closed)
  OBVIOUS
<1> QED BY <1>2, <1>3, FS_Subset DEF Left

LEMMA WithoutRenumbers ==
    ASSUME NEW S, NEW s \in Seq(S), Distinct(s), NEW closed \in SUBSET (DOMAIN s)
    PROVE  Renumbers(s, Without(s, {s[i] : i \in closed}), closed)
<1>1. PICK k : Keeps(k, s, {s[i] : i \in closed}, S)
  BY WithoutSteps
<1>2. Len(s) \in Nat /\ DOMAIN s = 1..Len(s)
  OBVIOUS
<1>3. \A n \in DOMAIN s : s[n] \in {s[i] : i \in closed} <=> n \in closed
  BY DEF Distinct
<1> DEFINE Upto(n) ==
             /\ Len(k[n]) = Left(n, closed)
             /\ \A i \in (1..n) \ closed :
                   Left(i, closed) \in 1..Len(k[n]) /\ k[n][Left(i, closed)] = s[i]
             /\ \A j \in 1..Len(k[n]) : \E i \in (1..n) \ closed : j = Left(i, closed)
           T == {n \in 0..Len(s) : Upto(n)}
<1>4. 0 \in T
  <2>1. k[0] = <<>> /\ Len(k[0]) = 0 /\ 0 \in 0..Len(s)
    BY <1>1, <1>2 DEF Keeps
  <2> QED BY <2>1, LeftCounts
<1>5. ASSUME NEW m \in 0..(Len(s) - 1), m \in T PROVE m + 1 \in T
  <2>1. m + 1 \in 1..Len(s) /\ (m + 1) - 1 = m /\ m \in 0..Len(s) /\ m + 1 \in 0..Len(s) /\ m \in Nat
    BY <1>2
  <2>2. k[m] \in Seq(S) /\ s[m + 1] \in S
    BY <1>1, <1>2, <2>1 DEF Keeps
  <2>3. k[m + 1] = IF m + 1 \in closed THEN k[m] ELSE Append(k[m], s[m + 1])
    BY <1>1, <1>2, <1>3, <2>1 DEF Keeps
  <2>4. Left(m + 1, closed) = IF m + 1 \in closed THEN Left(m, closed) ELSE Left(m, closed) + 1
    BY <2>1, LeftCounts
  <2>5. Upto(m)
    BY <1>5
  <2>6. CASE m + 1 \in closed
    <3>1. (1..(m + 1)) \ closed = (1..m) \ closed
      BY <2>1, <2>6
    <3>2. k[m + 1] = k[m] /\ Left(m + 1, closed) = Left(m, closed)
      BY <2>3, <2>4, <2>6
    <3>3. Upto(m + 1)
      BY <2>5, <3>1, <3>2
    <3> QED BY <3>3, <2>1
  <2>7. CASE m + 1 \notin closed
    <3>1. (1..(m + 1)) \ closed = ((1..m) \ closed) \cup {m + 1}
      BY <2>1, <2>7
    <3>2. k[m + 1] = Append(k[m], s[m + 1]) /\ Left(m + 1, closed) = Left(m, closed) + 1
      BY <2>3, <2>4, <2>7
    <3>3. Len(k[m + 1]) = Len(k[m]) + 1 /\ Len(k[m]) \in Nat
          /\ Len(k[m + 1]) = Left(m + 1, closed)
      BY <2>2, <3>2, <2>5
    <3>4. ASSUME NEW i \in (1..(m + 1)) \ closed
          PROVE  Left(i, closed) \in 1..Len(k[m + 1]) /\ k[m + 1][Left(i, closed)] = s[i]
      <4>1. CASE i = m + 1
        BY <4>1, <2>2, <3>2, <3>3
      <4>2. CASE i # m + 1
        <5>1. i \in (1..m) \ closed
          BY <4>2, <3>1
        <5>2. Left(i, closed) \in 1..Len(k[m]) /\ k[m][Left(i, closed)] = s[i]
          BY <5>1, <2>5
        <5> QED BY <5>2, <2>2, <3>2, <3>3
      <4> QED BY <4>1, <4>2
    <3>5. ASSUME NEW j \in 1..Len(k[m + 1])
          PROVE  \E i \in (1..(m + 1)) \ closed : j = Left(i, closed)
      <4>1. CASE j = Len(k[m + 1])
        BY <4>1, <3>1, <3>3
      <4>2. CASE j # Len(k[m + 1])
        <5>1. j \in 1..Len(k[m])
          BY <4>2, <3>3
        <5>2. PICK i \in (1..m) \ closed : j = Left(i, closed)
          BY <5>1, <2>5
        <5> QED BY <5>2, <3>1
      <4> QED BY <4>1, <4>2
    <3>6. Upto(m + 1)
      BY <3>3, <3>4, <3>5
    <3> QED BY <3>6, <2>1
  <2> QED BY <2>6, <2>7
<1>6. Upto(Len(s))
  <2>1. Len(s) \in 0..Len(s)
    BY <1>2
  <2>2. Len(s) \in T
    <3> HIDE DEF T
    <3> QED BY <1>2, <1>4, <1>5, <2>1, UpTo
  <2> QED BY <2>2
<1>7. Without(s, {s[i] : i \in closed}) = k[Len(s)] /\ k[Len(s)] \in Seq(S)
  BY <1>1, <1>2 DEF Keeps
<1>8. DOMAIN k[Len(s)] = 1..Len(k[Len(s)])
  BY <1>7
<1> QED BY <1>2, <1>6, <1>7, <1>8 DEF Renumbers

LEMMA RemoveAtRenumbers ==
    ASSUME NEW S, NEW s \in Seq(S), NEW i \in DOMAIN s
    PROVE  Renumbers(s, RemoveAt(s, i), {i})
<1> DEFINE t == RemoveAt(s, i)
<1>1. Len(s) \in Nat /\ DOMAIN s = 1..Len(s) /\ i \in 1..Len(s)
  OBVIOUS
<1>2. /\ t \in Seq(S) /\ Len(t) = Len(s) - 1
      /\ \A k \in 1..Len(t) : t[k] = IF k < i THEN s[k] ELSE s[k + 1]
  <2>1. t = SubSeq(s, 1, i - 1) \o SubSeq(s, i + 1, Len(s))
    BY DEF RemoveAt
  <2> DEFINE a == SubSeq(s, 1, i - 1)
             b == SubSeq(s, i + 1, Len(s))
  <2>2. a \in Seq(S) /\ Len(a) = i - 1 /\ \A k \in 1..(i - 1) : a[k] = s[k]
    BY <1>1
  <2>3. /\ b \in Seq(S) /\ Len(b) = Len(s) - i
        /\ \A k \in 1..(Len(s) - i) : b[k] = s[i + k]
    BY <1>1
  <2> HIDE DEF t, a, b
  <2>4. t = a \o b
    BY <2>1 DEF a, b
  <2>5. /\ t \in Seq(S) /\ Len(t) = Len(a) + Len(b)
        /\ \A k \in 1..(Len(a) + Len(b)) : t[k] = IF k <= Len(a) THEN a[k] ELSE b[k - Len(a)]
    BY <2>2, <2>3, <2>4, ConcatProperties
  <2>6. ASSUME NEW k \in 1..(Len(s) - 1) PROVE t[k] = IF k < i THEN s[k] ELSE s[k + 1]
    <3>1. CASE k < i
      <4>1. k \in 1..(i - 1) /\ k \in 1..(Len(a) + Len(b)) /\ k <= Len(a)
        BY <3>1, <1>1, <2>2, <2>3
      <4> QED BY <4>1, <3>1, <2>2, <2>5
    <3>2. CASE ~(k < i)
      <4>1. /\ k \in 1..(Len(a) + Len(b)) /\ ~(k <= Len(a)) /\ k - Len(a) \in 1..(Len(s) - i)
            /\ i + (k - Len(a)) = k + 1
        BY <3>2, <1>1, <2>2, <2>3
      <4>2. t[k] = b[k - Len(a)] /\ b[k - Len(a)] = s[i + (k - Len(a))]
        BY <4>1, <2>3, <2>5
      <4> QED BY <4>1, <4>2, <3>2
    <3> QED BY <3>1, <3>2
  <2>7. Len(t) = Len(s) - 1
    BY <1>1, <2>2, <2>3, <2>5
  <2> QED BY <2>5, <2>6, <2>7
<1>3. ASSUME NEW n \in 0..Len(s) PROVE Left(n, {i}) = IF n < i THEN n ELSE n - 1
  <2>1. IsFiniteSet(1..n) /\ Cardinality(1..n) = n
    BY FS_Interval
  <2>2. Cardinality((1..n) \ {i}) = IF i \in 1..n THEN n - 1 ELSE n
    BY <2>1, FS_RemoveElement
  <2> QED BY <2>2, <1>1 DEF Left
<1> HIDE DEF t
<1>4. DOMAIN t = 1..(Len(s) - 1)
  BY <1>1, <1>2
<1>5. Len(t) = Left(Len(s), {i})
  <2>1. Len(s) \in 0..Len(s) /\ ~(Len(s) < i)
    BY <1>1
  <2>2. Left(Len(s), {i}) = Len(s) - 1
    BY <2>1, <1>3
  <2> QED BY <2>2, <1>2
<1>6. ASSUME NEW k \in DOMAIN s \ {i} PROVE Left(k, {i}) \in DOMAIN t /\ t[Left(k, {i})] = s[k]
  <2>1. k \in 1..Len(s) /\ k # i /\ k \in 0..Len(s)
    BY <1>1
  <2>2. Left(k, {i}) = IF k < i THEN k ELSE k - 1
    BY <2>1, <1>3
  <2>3. CASE k < i
    BY <2>1, <2>2, <2>3, <1>1, <1>2, <1>4
  <2>4. CASE ~(k < i)
    <3>1. Left(k, {i}) = k - 1 /\ k - 1 \in 1..(Len(s) - 1) /\ ~(k - 1 < i) /\ (k - 1) + 1 = k
      BY <2>1, <2>2, <2>4, <1>1
    <3> QED BY <3>1, <1>2, <1>4
  <2> QED BY <2>3, <2>4
<1>7. ASSUME NEW k \in DOMAIN t PROVE \E j \in DOMAIN s \ {i} : k = Left(j, {i})
  <2>1. k \in 1..(Len(s) - 1)
    BY <1>4
  <2>2. CASE k < i
    <3>1. k \in DOMAIN s \ {i} /\ k \in 0..Len(s)
      BY <2>1, <2>2, <1>1
    <3>2. Left(k, {i}) = k
      BY <3>1, <2>2, <1>3
    <3> QED BY <3>1, <3>2
  <2>3. CASE ~(k < i)
    <3>1. k + 1 \in DOMAIN s \ {i} /\ k + 1 \in 0..Len(s) /\ ~(k + 1 < i) /\ (k + 1) - 1 = k
      BY <2>1, <2>3, <1>1
    <3>2. Left(k + 1, {i}) = k
      BY <3>1, <1>3
    <3> QED BY <3>1, <3>2
  <2> QED BY <2>2, <2>3
<1> QED BY <1>5, <1>6, <1>7 DEF Renumbers, t

PaneT(n) == [shows : 1..n, recent : Seq(1..n), walk : Seq(1..n), pos : Nat]

TabsInv ==
    /\ opened \in 1..MaxOpened /\ paneTabs \in Seq(1..opened)
    /\ Len(paneTabs) \in Nat \ {0} /\ Distinct(paneTabs)

PanesInv ==
    /\ TabsInv
    /\ panes \in Seq(PaneT(Len(paneTabs))) /\ Len(panes) \in 1..2 /\ active \in 1..Len(panes)

ViewOf(p, s) == [shows |-> s[p.shows], recent |-> Mapped(p.recent, s)]
Views(ps, s) == [k \in DOMAIN ps |-> ViewOf(ps[k], s)]

LEMMA NewPane ==
    ASSUME NEW n \in Nat, NEW i \in 1..n
    PROVE  Pane(i) \in PaneT(n) /\ Pane(i).shows = i /\ Pane(i).recent = <<>>
BY EmptySeq DEF Pane, PaneT

LEMMA ShowingType ==
    ASSUME NEW n \in Nat, NEW p \in PaneT(n), NEW i \in 1..n
    PROVE  Showing(p, i) \in PaneT(n)
<1>1. p.shows \in 1..n /\ p.recent \in Seq(1..n)
  BY DEF PaneT
<1>2. RecordRecent(p.recent, p.shows) \in Seq(1..n)
  <2>1. Without(p.recent, {p.shows}) \in Seq(1..n)
    BY <1>1, WithoutType
  <2>2. <<p.shows>> \in Seq(1..n)
    BY <1>1
  <2> QED BY <2>1, <2>2, ConcatProperties DEF RecordRecent
<1> QED BY <1>2, EmptySeq DEF Showing, PaneT

LEMMA RecencyType ==
    ASSUME PanesInv, NEW p \in PaneT(Len(paneTabs))
    PROVE  Recency(p) \in Seq(1..Len(paneTabs))
<1> DEFINE n == Len(paneTabs)
           known == <<p.shows>> \o Without(p.recent, {p.shows})
<1>1. p.shows \in 1..n /\ p.recent \in Seq(1..n)
  BY DEF PaneT
<1>2. n \in Nat /\ DOMAIN paneTabs = 1..n
  BY DEF PanesInv, TabsInv
<1>3. known \in Seq(1..n)
  <2>1. Without(p.recent, {p.shows}) \in Seq(1..n)
    BY <1>1, WithoutType
  <2>2. <<p.shows>> \in Seq(1..n)
    BY <1>1
  <2> QED BY <2>1, <2>2, ConcatProperties
<1>4. [i \in DOMAIN paneTabs |-> i] \in Seq(1..n)
  BY <1>2
<1>5. Without([i \in DOMAIN paneTabs |-> i], ToSet(known)) \in Seq(1..n)
  BY <1>4, WithoutType
<1>6. Recency(p) = known \o Without([i \in DOMAIN paneTabs |-> i], ToSet(known))
  BY DEF Recency
<1> HIDE DEF known
<1> QED BY <1>3, <1>5, <1>6, ConcatProperties

\* The renaming of a sequence with an element in front.
LEMMA MapCons ==
    ASSUME NEW S, NEW x \in S, NEW r \in Seq(S), NEW s
    PROVE  Mapped(Cons(x, r), s) = Cons(s[x], Mapped(r, s))
<1> DEFINE u == <<x>> \o r
           m == [n \in DOMAIN r |-> s[r[n]]]
           a == [n \in DOMAIN u |-> s[u[n]]]
           b == <<s[x]>> \o m
<1>8. PICK R : R = {s[y] : y \in S}
  OBVIOUS
<1>9. \A y \in S : s[y] \in R
  BY <1>8
<1>1. Len(r) \in Nat /\ DOMAIN r = 1..Len(r) /\ <<x>> \in Seq(S) /\ Len(<<x>>) = 1 /\ <<x>>[1] = x
  OBVIOUS
<1>2. /\ u \in Seq(S) /\ Len(u) = Len(r) + 1
      /\ \A n \in 1..(Len(r) + 1) : u[n] = IF n = 1 THEN x ELSE r[n - 1]
  <2>1. /\ u \in Seq(S) /\ Len(u) = 1 + Len(r)
        /\ \A n \in 1..(1 + Len(r)) : u[n] = IF n <= 1 THEN <<x>>[n] ELSE r[n - 1]
    BY <1>1, ConcatProperties
  <2> HIDE DEF u
  <2> QED BY <1>1, <2>1
<1>3. m \in Seq(R) /\ Len(m) = Len(r)
  <2>1. \A n \in 1..Len(r) : s[r[n]] \in R
    BY <1>1, <1>9
  <2> QED BY <1>1, <2>1
<1>4. /\ b \in Seq(R) /\ Len(b) = Len(r) + 1
      /\ \A n \in 1..(Len(r) + 1) : b[n] = IF n = 1 THEN s[x] ELSE m[n - 1]
  <2> HIDE DEF m
  <2>1. <<s[x]>> \in Seq(R) /\ Len(<<s[x]>>) = 1 /\ <<s[x]>>[1] = s[x]
    BY <1>9
  <2>2. /\ b \in Seq(R) /\ Len(b) = 1 + Len(m)
        /\ \A n \in 1..(1 + Len(m)) : b[n] = IF n <= 1 THEN <<s[x]>>[n] ELSE m[n - 1]
    BY <1>3, <2>1, ConcatProperties
  <2> HIDE DEF b
  <2> QED BY <1>1, <1>3, <2>1, <2>2
<1>5. a \in Seq(R) /\ Len(a) = Len(r) + 1 /\ \A n \in 1..(Len(r) + 1) : a[n] = s[u[n]]
  <2> HIDE DEF u
  <2>1. DOMAIN u = 1..(Len(r) + 1) /\ \A n \in 1..(Len(r) + 1) : s[u[n]] \in R
    BY <1>1, <1>2, <1>9
  <2> QED BY <1>1, <2>1
<1>6. ASSUME NEW n \in 1..(Len(r) + 1) PROVE a[n] = b[n]
  <2> HIDE DEF a, b, u
  <2>1. CASE n = 1
    <3>1. u[n] = x /\ b[n] = s[x] /\ a[n] = s[u[n]]
      <4> HIDE DEF m
      <4> QED BY <2>1, <1>2, <1>4, <1>5
    <3> QED BY <3>1
  <2>2. CASE n # 1
    <3>1. n - 1 \in DOMAIN r
      BY <2>2, <1>1
    <3>2. m[n - 1] = s[r[n - 1]]
      BY <3>1
    <3> HIDE DEF m
    <3> QED BY <2>2, <3>2, <1>2, <1>4, <1>5
  <2> QED BY <2>1, <2>2
<1>7. a = b
  <2> HIDE DEF a, b
  <2> QED BY <1>4, <1>5, <1>6, SeqEqual
<1> QED BY <1>7 DEF Mapped, Cons

LEMMA SameWithout == \A s, g : History!Without(s, g) = Without(s, g)
BY DEF History!Without, Without

\* A pane that comes to show a tab is a view that moves there.
LEMMA ViewShowing ==
    ASSUME NEW n \in Nat, NEW S, NEW s \in Seq(S), Len(s) = n, Distinct(s),
           NEW p \in PaneT(n), NEW i \in 1..n
    PROVE  ViewOf(Showing(p, i), s) = History!Moved(ViewOf(p, s), s[i])
<1>1. p.shows \in 1..n /\ p.recent \in Seq(1..n) /\ DOMAIN s = 1..n /\ s \in [1..n -> S]
  BY DEF PaneT
<1>2. CASE p.shows = i
  BY <1>2 DEF Showing, History!Moved, ViewOf
<1>3. CASE p.shows # i
  <2>1. s[p.shows] # s[i]
    BY <1>1, <1>3 DEF Distinct
  <2>2. Showing(p, i).shows = i /\ Showing(p, i).recent = <<p.shows>> \o Without(p.recent, {p.shows})
    BY <1>3 DEF Showing, RecordRecent
  <2> DEFINE r == Without(p.recent, {p.shows})
             m == Mapped(p.recent, s)
  <2>3. r \in Seq(1..n)
    BY <1>1, WithoutType
  <2>5. Mapped(<<p.shows>> \o r, s) = <<s[p.shows]>> \o Mapped(r, s)
    <3> HIDE DEF r
    <3>2. PICK D, x : D = 1..n /\ x = p.shows
      OBVIOUS
    <3>3. x \in D /\ r \in Seq(D)
      BY <1>1, <2>3, <3>2
    <3>4. Mapped(Cons(x, r), s) = Cons(s[x], Mapped(r, s))
      BY <3>3, MapCons
    <3>1. Mapped(Cons(p.shows, r), s) = Cons(s[p.shows], Mapped(r, s))
      BY <3>2, <3>4
    <3> QED BY <3>1 DEF Cons
  <2>6. \A k \in DOMAIN p.recent : p.recent[k] \in {p.shows} <=> s[p.recent[k]] \in {s[p.shows]}
    <3>1. \A k \in DOMAIN p.recent : p.recent[k] \in DOMAIN s
      BY <1>1
    <3> QED BY <1>1, <3>1 DEF Distinct
  <2>7. Without(m, {s[p.shows]}) = Mapped(r, s)
    <3>1. PICK A, B : A = {p.shows} /\ B = {s[p.shows]}
      OBVIOUS
    <3>2. \A k \in DOMAIN p.recent : p.recent[k] \in A <=> s[p.recent[k]] \in B
      BY <2>6, <3>1
    <3>3. Without(Mapped(p.recent, s), B) = Mapped(Without(p.recent, A), s)
      BY <1>1, <3>2, WithoutOfMap
    <3> QED BY <3>1, <3>3
  <2>8. ViewOf(Showing(p, i), s) = [shows |-> s[i], recent |-> <<s[p.shows]>> \o Without(m, {s[p.shows]})]
    <3> HIDE DEF r, m
    <3> QED BY <2>2, <2>5, <2>7 DEF ViewOf, r
  <2>9. History!Moved(ViewOf(p, s), s[i])
           = [shows |-> s[i], recent |-> <<s[p.shows]>> \o Without(m, {s[p.shows]})]
    <3>1. PICK v : v = ViewOf(p, s)
      OBVIOUS
    <3>2. v.shows = s[p.shows] /\ v.recent = m
      BY <3>1 DEF ViewOf
    <3>3. History!Moved(v, s[i]) = [shows |-> s[i], recent |-> <<v.shows>> \o Without(v.recent, {v.shows})]
      BY <2>1, <3>2, SameWithout DEF History!Moved
    <3> HIDE DEF m
    <3> QED BY <3>1, <3>2, <3>3
  <2> QED BY <2>8, <2>9
<1> QED BY <1>2, <1>3

\* A pane sees the tabs it knows as before when one is appended.
LEMMA ViewGrows ==
    ASSUME NEW n \in Nat, NEW S, NEW s \in Seq(S), Len(s) = n, NEW x \in S, NEW p \in PaneT(n)
    PROVE  ViewOf(p, Append(s, x)) = ViewOf(p, s) /\ p \in PaneT(n + 1)
<1>1. p.shows \in 1..n /\ p.recent \in Seq(1..n) /\ DOMAIN p.recent = 1..Len(p.recent)
  BY DEF PaneT
<1>2. \A k \in 1..n : Append(s, x)[k] = s[k]
  OBVIOUS
<1>3. \A k \in DOMAIN p.recent : Append(s, x)[p.recent[k]] = s[p.recent[k]]
  BY <1>1, <1>2
<1>4. ViewOf(p, Append(s, x)) = ViewOf(p, s)
  BY <1>1, <1>2, <1>3 DEF ViewOf, Mapped
<1>5. p \in PaneT(n + 1)
  <2>1. 1..n \subseteq 1..(n + 1)
    OBVIOUS
  <2>2. p.shows \in 1..(n + 1) /\ p.recent \in Seq(1..(n + 1)) /\ p.walk \in Seq(1..(n + 1))
    BY <2>1, SeqMonotonic DEF PaneT
  <2> QED BY <2>2 DEF PaneT
<1> QED BY <1>4, <1>5

\* What a closing leaves of the tabs.
LEMMA TabsLeft ==
    ASSUME NEW S, NEW s \in Seq(S), NEW t \in Seq(S), NEW closed \in SUBSET (DOMAIN s),
           Distinct(s), Renumbers(s, t, closed)
    PROVE  /\ Distinct(t)
           /\ ToSet(t) = ToSet(s) \ {s[i] : i \in closed}
<1>1. ASSUME NEW k \in DOMAIN t, NEW l \in DOMAIN t, t[k] = t[l] PROVE k = l
  BY <1>1 DEF Renumbers, Distinct
<1>2. ASSUME NEW x \in ToSet(t) PROVE x \in ToSet(s) \ {s[i] : i \in closed}
  <2>1. PICK k \in DOMAIN t : x = t[k]
    BY DEF ToSet
  <2>2. PICK i \in DOMAIN s \ closed : k = Left(i, closed) /\ t[k] = s[i]
    BY DEF Renumbers
  <2> QED BY <2>1, <2>2 DEF ToSet, Distinct
<1>3. ASSUME NEW x \in ToSet(s) \ {s[i] : i \in closed} PROVE x \in ToSet(t)
  <2>1. PICK i \in DOMAIN s : x = s[i]
    BY DEF ToSet
  <2>2. i \notin closed
    BY <2>1
  <2>3. Left(i, closed) \in DOMAIN t /\ t[Left(i, closed)] = s[i]
    BY <2>1, <2>2 DEF Renumbers
  <2> QED BY <2>1, <2>3 DEF ToSet
<1> QED BY <1>1, <1>2, <1>3 DEF Distinct

\* What a closing leaves of a pane.
TabsClose(s, t, closed, out) ==
    /\ \E S : s \in Seq(S) /\ t \in Seq(S)
    /\ closed \in SUBSET (DOMAIN s) /\ Distinct(s) /\ Renumbers(s, t, closed) /\ t # <<>>
    /\ \A i \in DOMAIN s : i \in closed <=> s[i] \in out

LEMMA PaneLeft ==
    ASSUME NEW s, NEW t, NEW closed, NEW Out, TabsClose(s, t, closed, Out), NEW p \in PaneT(Len(s))
    PROVE  /\ AfterClose(p, closed) \in PaneT(Len(t))
           /\ p.shows \notin closed => t[AfterClose(p, closed).shows] = s[p.shows]
           /\ ViewOf(AfterClose(p, closed), t).recent = Without(ViewOf(p, s).recent, Out)
<1>13. PICK S : s \in Seq(S) /\ t \in Seq(S)
  BY DEF TabsClose
<1>14. /\ closed \in SUBSET (DOMAIN s) /\ Distinct(s) /\ Renumbers(s, t, closed) /\ t # <<>>
       /\ \A i \in DOMAIN s : i \in closed <=> s[i] \in Out
  BY DEF TabsClose
<1>15. Len(t) \in Nat \ {0}
  BY <1>13, <1>14
<1>12. PICK n \in Nat : n = Len(s)
  BY <1>13
<1> DEFINE q == AfterClose(p, closed)
           remain == Without(p.recent, closed)
<1>1. p.shows \in 1..n /\ p.recent \in Seq(1..n) /\ DOMAIN s = 1..n /\ DOMAIN t = 1..Len(t) /\ s \in [1..n -> S]
      /\ DOMAIN p.recent = 1..Len(p.recent)
  BY <1>12, <1>13 DEF PaneT
<1>2. /\ q.shows = (IF Left(p.shows, closed) = 0 THEN 1 ELSE Left(p.shows, closed))
      /\ q.recent = [k \in DOMAIN remain |-> Left(remain[k], closed)] /\ q.walk = <<>> /\ q.pos = 0
      /\ q = [shows |-> q.shows, recent |-> q.recent, walk |-> q.walk, pos |-> q.pos]
  <2>1. q = [p EXCEPT !.shows = IF Left(p.shows, closed) = 0 THEN 1 ELSE Left(p.shows, closed),
                      !.recent = [k \in DOMAIN remain |-> Left(remain[k], closed)],
                      !.walk = <<>>, !.pos = 0]
    BY DEF AfterClose
  <2>2. p = [shows |-> p.shows, recent |-> p.recent, walk |-> p.walk, pos |-> p.pos]
    BY DEF PaneT
  <2> HIDE DEF q, remain
  <2>3. q = [shows |-> IF Left(p.shows, closed) = 0 THEN 1 ELSE Left(p.shows, closed),
             recent |-> [k \in DOMAIN remain |-> Left(remain[k], closed)],
             walk |-> <<>>, pos |-> 0]
    BY <2>1, <2>2
  <2> QED BY <2>3
<1>3. remain \in Seq(1..n) /\ DOMAIN remain = 1..Len(remain)
  <2>1. remain \in Seq(1..n)
    BY <1>1, WithoutType
  <2> HIDE DEF remain
  <2> QED BY <2>1
<1>4. \A k \in DOMAIN remain : remain[k] \notin closed
  BY <1>1, WithoutDrops
<1>5. \A i \in (1..n) \ closed : Left(i, closed) \in 1..Len(t) /\ t[Left(i, closed)] = s[i]
  BY <1>1, <1>14 DEF Renumbers
<1>6. q.shows \in 1..Len(t)
  <2>1. Left(p.shows, closed) \in 0..Len(t)
    <3>1. Left(p.shows, closed) <= Left(n, closed) /\ Left(p.shows, closed) \in Nat
      BY <1>1, LeftGrows, LeftCounts
    <3> QED BY <3>1, <1>12, <1>14, <1>15 DEF Renumbers
  <2> HIDE DEF q
  <2> QED BY <1>2, <2>1, <1>15
<1>7. p.shows \notin closed => t[q.shows] = s[p.shows]
  <2> SUFFICES ASSUME p.shows \notin closed PROVE t[q.shows] = s[p.shows]
    OBVIOUS
  <2>1. Left(p.shows, closed) \in 1..Len(t) /\ t[Left(p.shows, closed)] = s[p.shows]
    BY <1>1, <1>5
  <2> HIDE DEF q
  <2> QED BY <1>2, <2>1
<1>8. q.recent \in Seq(1..Len(t))
  <2> HIDE DEF q, remain
  <2>1. ASSUME NEW k \in 1..Len(remain) PROVE Left(remain[k], closed) \in 1..Len(t)
    <3>1. k \in DOMAIN remain /\ remain[k] \notin closed
      BY <1>3, <1>4
    <3>2. remain[k] \in 1..n
      BY <1>3, ElementOfSeq
    <3> QED BY <3>1, <3>2, <1>5
  <2>2. q.recent = [k \in 1..Len(remain) |-> Left(remain[k], closed)]
    BY <1>2, <1>3
  <2> QED BY <1>3, <2>1, <2>2
<1>9. q \in PaneT(Len(t))
  <2> HIDE DEF q, remain
  <2>1. q.walk \in Seq(1..Len(t)) /\ q.pos \in Nat
    BY <1>2, EmptySeq
  <2> QED BY <1>2, <1>6, <1>8, <2>1 DEF PaneT
<1>10. ViewOf(q, t).recent = Mapped(remain, s)
  <2>1. ViewOf(q, t).recent = [k \in DOMAIN q.recent |-> t[q.recent[k]]]
    BY DEF ViewOf, Mapped
  <2> HIDE DEF q, remain
  <2>2. DOMAIN q.recent = DOMAIN remain /\ \A k \in DOMAIN remain : q.recent[k] = Left(remain[k], closed)
    BY <1>2
  <2>3. \A k \in DOMAIN remain : t[Left(remain[k], closed)] = s[remain[k]]
    BY <1>3, <1>4, <1>5
  <2> QED BY <2>1, <2>2, <2>3 DEF Mapped
<1>11. Without(ViewOf(p, s).recent, Out) = Mapped(remain, s)
  <2>1. ViewOf(p, s).recent = Mapped(p.recent, s)
    BY DEF ViewOf
  <2>2. \A k \in DOMAIN p.recent : p.recent[k] \in closed <=> s[p.recent[k]] \in Out
    BY <1>1, <1>14
  <2>5. Without(Mapped(p.recent, s), Out) = Mapped(Without(p.recent, closed), s)
    BY <1>1, <2>2, WithoutOfMap, SMTT(30)
  <2> QED BY <2>1, <2>5
<1> HIDE DEF remain
<1> QED BY <1>7, <1>9, <1>10, <1>11

\* The views that the panes are.
Seen == Views(panes, paneTabs)

LEMMA OpenMaps ==
    ASSUME NEW t \in (1..MaxOpened) \ ToSet(paneTabs), NEW i \in DOMAIN Seen,
           Seen' = [Seen EXCEPT ![i] = History!Moved(@, t)],
           ToSet(paneTabs') = ToSet(paneTabs) \cup {t}
    PROVE  History!Open
BY DEF Seen, Views, ViewOf, Mapped, History!Open

LEMMA FocusMaps ==
    ASSUME NEW t \in ToSet(paneTabs), NEW i \in DOMAIN Seen,
           Seen' = [Seen EXCEPT ![i] = History!Moved(@, t)], paneTabs' = paneTabs
    PROVE  History!Focus
BY DEF Seen, Views, ViewOf, Mapped, History!Focus

LEMMA WalkMaps ==
    ASSUME NEW t \in ToSet(paneTabs), NEW i \in DOMAIN Seen,
           Seen' = [Seen EXCEPT ![i].shows = t], paneTabs' = paneTabs
    PROVE  History!Walk
BY DEF Seen, Views, ViewOf, Mapped, History!Walk

LEMMA SplitMaps ==
    ASSUME NEW t \in ToSet(paneTabs), Len(Seen) = 1,
           Seen' = Append(Seen, History!Fresh(t)), paneTabs' = paneTabs
    PROVE  History!Split
BY DEF Seen, Views, ViewOf, Mapped, History!Split

LEMMA UnsplitMaps ==
    ASSUME NEW i \in DOMAIN Seen, Seen' = <<Seen[i]>>, paneTabs' = paneTabs
    PROVE  History!Unsplit
BY DEF Seen, Views, ViewOf, Mapped, History!Unsplit

LEMMA CloseAllMaps ==
    ASSUME NEW t \in (1..MaxOpened) \ ToSet(paneTabs),
           Seen' = <<History!Fresh(t)>>, ToSet(paneTabs') = {t}
    PROVE  History!CloseAll
BY DEF Seen, Views, ViewOf, Mapped, History!CloseAll

LEMMA CloseMaps ==
    ASSUME NEW S \in (SUBSET ToSet(paneTabs)) \ {{}, ToSet(paneTabs)},
           ToSet(paneTabs') = ToSet(paneTabs) \ S,
           \/ DOMAIN Seen' = DOMAIN Seen
              /\ \A i \in DOMAIN Seen : History!Survives(Seen[i], Seen'[i])
           \/ Len(Seen') = 1 /\ \E i \in DOMAIN Seen : History!Survives(Seen[i], Seen'[1])
    PROVE  History!Close
<1>1. \E U \in (SUBSET ToSet(paneTabs)) \ {{}, ToSet(paneTabs)} : ToSet(paneTabs') = ToSet(paneTabs) \ U
  OBVIOUS
<1> QED BY <1>1 DEF Seen, Views, ViewOf, Mapped, History!Close

\* One pane changes, and the others see what they saw.
LEMMA SeenExcept ==
    ASSUME PanesInv, NEW k \in 1..Len(panes), NEW q, panes' = [panes EXCEPT ![k] = q],
           \A j \in 1..Len(panes) : ViewOf(panes[j], paneTabs') = ViewOf(panes[j], paneTabs)
    PROVE  Seen' = [Seen EXCEPT ![k] = ViewOf(q, paneTabs')] /\ DOMAIN Seen = 1..Len(panes)
<1>1. DOMAIN panes = 1..Len(panes) /\ DOMAIN panes' = DOMAIN panes
  BY DEF PanesInv
<1>2. \A j \in 1..Len(panes) : panes'[j] = IF j = k THEN q ELSE panes[j]
  BY <1>1
<1>3. Seen' = [j \in 1..Len(panes) |-> ViewOf(panes'[j], paneTabs')]
  BY <1>1 DEF Seen, Views
<1>4. Seen = [j \in 1..Len(panes) |-> ViewOf(panes[j], paneTabs)]
  BY <1>1 DEF Seen, Views
<1>5. \A j \in 1..Len(panes) :
         ViewOf(panes'[j], paneTabs') = IF j = k THEN ViewOf(q, paneTabs') ELSE ViewOf(panes[j], paneTabs)
  BY <1>2
<1> QED BY <1>3, <1>4, <1>5

LEMMA PanesInitHolds == PanesInit => PanesInv /\ History!HistoryInit
<1> SUFFICES ASSUME PanesInit PROVE PanesInv /\ History!HistoryInit
  OBVIOUS
<1>1. opened \in 1..MaxOpened /\ opened \in Nat \ {0} /\ paneTabs = [i \in 1..opened |-> i]
  BY MaxOpenedAssumption DEF PanesInit
<1>2. paneTabs \in Seq(1..opened) /\ Len(paneTabs) = opened /\ Distinct(paneTabs)
  BY <1>1 DEF Distinct
<1>3. Pane(opened) \in PaneT(opened) /\ Pane(opened).shows = opened /\ Pane(opened).recent = <<>>
  BY <1>1, NewPane
<1>4. panes = <<Pane(opened)>> /\ active = 1
  BY DEF PanesInit
<1>5. panes \in Seq(PaneT(Len(paneTabs))) /\ Len(panes) = 1
  BY <1>2, <1>3, <1>4
<1>6. PanesInv
  BY <1>1, <1>2, <1>4, <1>5 DEF PanesInv, TabsInv
<1>7. ToSet(paneTabs) = 1..opened
  BY <1>1 DEF ToSet
<1>8. ToSet(paneTabs) \in (SUBSET (1..MaxOpened)) \ {{}} /\ opened \in ToSet(paneTabs)
  BY <1>1, <1>7, MaxOpenedAssumption
<1>9. Seen = <<History!Fresh(opened)>>
  <2>1. DOMAIN panes = 1..1 /\ panes[1] = Pane(opened)
    BY <1>4
  <2>2. ViewOf(Pane(opened), paneTabs) = History!Fresh(opened)
    <3>1. paneTabs[opened] = opened /\ Mapped(<<>>, paneTabs) = <<>>
      BY <1>1 DEF Mapped
    <3> QED BY <1>3, <3>1 DEF ViewOf, History!Fresh
  <2> QED BY <2>1, <2>2 DEF Seen, Views
<1>10. History!HistoryInit
  BY <1>8, <1>9 DEF History!HistoryInit, Seen, Views, ViewOf, Mapped
<1> QED BY <1>6, <1>10

LEMMA SetActiveTabMaps ==
    ASSUME PanesInv, NEW i \in DOMAIN paneTabs, SetActiveTab(i)
    PROVE  PanesInv' /\ History!HistoryNext
<1>1. i \in 1..Len(paneTabs) /\ paneTabs \in Seq(1..opened) /\ Len(paneTabs) \in Nat /\ Distinct(paneTabs)
      /\ active \in 1..Len(panes) /\ panes \in Seq(PaneT(Len(paneTabs)))
  BY DEF PanesInv, TabsInv
<1> DEFINE q == Showing(panes[active], i)
<1>2. panes[active] \in PaneT(Len(paneTabs)) /\ q \in PaneT(Len(paneTabs))
  BY <1>1, ShowingType
<1>3. panes' = [panes EXCEPT ![active] = q] /\ UNCHANGED <<paneTabs, active, opened>>
  BY DEF SetActiveTab
<1>4. PanesInv'
  <2> HIDE DEF q
  <2> QED BY <1>1, <1>2, <1>3 DEF PanesInv, TabsInv
<1>5. Seen' = [Seen EXCEPT ![active] = ViewOf(q, paneTabs)] /\ DOMAIN Seen = 1..Len(panes)
  <2> HIDE DEF q
  <2> QED BY <1>1, <1>3, SeenExcept
<1>6. ViewOf(q, paneTabs) = History!Moved(ViewOf(panes[active], paneTabs), paneTabs[i])
  BY <1>1, <1>2, ViewShowing
<1>7. Seen[active] = ViewOf(panes[active], paneTabs)
  BY <1>1 DEF Seen, Views
<1>8. Seen' = [Seen EXCEPT ![active] = History!Moved(@, paneTabs[i])]
  <2> HIDE DEF q
  <2> QED BY <1>1, <1>5, <1>6, <1>7
<1>9. paneTabs[i] \in ToSet(paneTabs)
  BY DEF ToSet
<1>10. History!Focus
  BY <1>1, <1>3, <1>5, <1>8, <1>9, FocusMaps
<1> QED BY <1>4, <1>10 DEF History!HistoryNext

LEMMA OpenTabMaps ==
    ASSUME PanesInv, OpenTab
    PROVE  PanesInv' /\ History!HistoryNext
<1> DEFINE n == Len(paneTabs)
           q == Showing(panes[active], n + 1)
<1>1. paneTabs \in Seq(1..opened) /\ n \in Nat \ {0} /\ Distinct(paneTabs) /\ opened \in 1..MaxOpened
      /\ active \in 1..Len(panes) /\ panes \in Seq(PaneT(n)) /\ DOMAIN paneTabs = 1..n /\ Len(panes) \in 1..2
  BY DEF PanesInv, TabsInv
<1>2. /\ opened < MaxOpened /\ opened' = opened + 1 /\ paneTabs' = Append(paneTabs, opened + 1)
      /\ panes' = [panes EXCEPT ![active] = q] /\ active' = active
  BY DEF OpenTab
<1>3. opened' \in 1..MaxOpened /\ opened + 1 \in 1..(opened + 1)
  BY <1>1, <1>2, MaxOpenedAssumption
<1>4. paneTabs \in Seq(1..(opened + 1))
  <2>1. 1..opened \subseteq 1..(opened + 1)
    BY <1>1
  <2> QED BY <1>1, <2>1, SeqMonotonic
<1>5. /\ paneTabs' \in Seq(1..opened') /\ Len(paneTabs') = n + 1
      /\ \A k \in 1..n : paneTabs'[k] = paneTabs[k]
      /\ paneTabs'[n + 1] = opened + 1 /\ DOMAIN paneTabs' = 1..(n + 1)
  BY <1>1, <1>2, <1>3, <1>4
<1>6. \A k \in 1..n : paneTabs[k] \in 1..opened
  BY <1>1
<1>7. Distinct(paneTabs')
  <2>1. ASSUME NEW k \in 1..(n + 1), NEW l \in 1..(n + 1), paneTabs'[k] = paneTabs'[l] PROVE k = l
    <3>1. CASE k = n + 1 /\ l # n + 1
      BY <3>1, <2>1, <1>1, <1>5, <1>6, SMTT(30)
    <3>2. CASE k # n + 1 /\ l = n + 1
      <4>1. k \in 1..n
        BY <3>2, <1>1
      <4>2. paneTabs'[k] \in 1..opened /\ paneTabs'[l] = opened + 1
        BY <4>1, <3>2, <1>5, <1>6
      <4> QED BY <4>2, <2>1, <1>1
    <3>3. CASE k # n + 1 /\ l # n + 1
      <4>1. k \in 1..n /\ l \in 1..n
        BY <3>3, <1>1
      <4> QED BY <4>1, <2>1, <1>1, <1>5 DEF Distinct
    <3> QED BY <3>1, <3>2, <3>3
  <2> QED BY <2>1, <1>5 DEF Distinct
<1>8. \A j \in 1..Len(panes) : /\ panes[j] \in PaneT(n) /\ panes[j] \in PaneT(n + 1)
                               /\ ViewOf(panes[j], paneTabs') = ViewOf(panes[j], paneTabs)
  <2>1. \A j \in 1..Len(panes) : panes[j] \in PaneT(n)
    BY <1>1
  <2>2. PICK D, x : D = 1..(opened + 1) /\ x = opened + 1
    OBVIOUS
  <2>3. n \in Nat /\ Len(paneTabs) = n /\ paneTabs \in Seq(D) /\ x \in D /\ paneTabs' = Append(paneTabs, x)
    BY <1>1, <1>2, <1>3, <1>4, <2>2
  <2> HIDE DEF n
  <2> QED BY <2>1, <2>3, ViewGrows
<1>9. q \in PaneT(n + 1)
  <2>1. n + 1 \in Nat /\ n + 1 \in 1..(n + 1)
    BY <1>1
  <2>2. panes[active] \in PaneT(n + 1)
    BY <1>1, <1>8
  <2> HIDE DEF n
  <2> QED BY <2>1, <2>2, ShowingType
<1>10. panes' \in Seq(PaneT(n + 1)) /\ Len(panes') = Len(panes)
  <2> HIDE DEF q, n
  <2>1. \A j \in 1..Len(panes) : panes'[j] \in PaneT(n + 1)
    BY <1>1, <1>2, <1>8, <1>9
  <2>3. Len(panes) \in Nat /\ DOMAIN panes = 1..Len(panes)
    BY <1>1
  <2>2. panes' = [j \in 1..Len(panes) |-> panes'[j]]
    BY <1>2, <2>3
  <2> QED BY <2>1, <2>2, <2>3
<1>11. PanesInv'
  <2> HIDE DEF q, n
  <2>1. n + 1 \in Nat \ {0}
    BY <1>1
  <2> QED BY <1>1, <1>2, <1>3, <1>5, <1>7, <1>10, <2>1 DEF PanesInv, TabsInv
<1>12. Seen' = [Seen EXCEPT ![active] = ViewOf(q, paneTabs')] /\ DOMAIN Seen = 1..Len(panes)
  <2> HIDE DEF q, n
  <2> QED BY <1>1, <1>2, <1>8, SeenExcept
<1>13. ViewOf(q, paneTabs') = History!Moved(ViewOf(panes[active], paneTabs'), paneTabs'[n + 1])
  <2>1. n + 1 \in Nat /\ n + 1 \in 1..(n + 1) /\ panes[active] \in PaneT(n + 1)
    BY <1>1, <1>8
  <2> HIDE DEF n
  <2> QED BY <1>5, <1>7, <2>1, ViewShowing
<1>14. Seen[active] = ViewOf(panes[active], paneTabs')
  BY <1>1, <1>8 DEF Seen, Views
<1>15. Seen' = [Seen EXCEPT ![active] = History!Moved(@, opened + 1)]
  <2> HIDE DEF q, n
  <2> QED BY <1>1, <1>5, <1>12, <1>13, <1>14
<1>16. opened + 1 \in (1..MaxOpened) \ ToSet(paneTabs)
  BY <1>1, <1>2, <1>3, <1>6 DEF ToSet
<1>17. ToSet(paneTabs') = ToSet(paneTabs) \cup {opened + 1}
  <2>1. 1..(n + 1) = (1..n) \cup {n + 1}
    BY <1>1
  <2> HIDE DEF n
  <2>2. ASSUME NEW x PROVE x \in ToSet(paneTabs') <=> \E i \in 1..(n + 1) : x = paneTabs'[i]
    BY <1>5 DEF ToSet
  <2>3. ASSUME NEW x PROVE x \in ToSet(paneTabs) <=> \E i \in 1..n : x = paneTabs'[i]
    BY <1>1, <1>5 DEF ToSet
  <2>4. paneTabs'[n + 1] = opened + 1
    BY <1>5
  <2> QED BY <2>1, <2>2, <2>3, <2>4
<1>18. History!Open
  BY <1>1, <1>12, <1>15, <1>16, <1>17, OpenMaps
<1> QED BY <1>11, <1>18 DEF History!HistoryNext

LEMMA MruTabMaps ==
    ASSUME PanesInv, MruTab
    PROVE  PanesInv' /\ History!HistoryNext
<1> DEFINE p == panes[active]
           n == Len(paneTabs)
<1>1. paneTabs \in Seq(1..opened) /\ n \in Nat \ {0} /\ DOMAIN paneTabs = 1..n
      /\ active \in 1..Len(panes) /\ panes \in Seq(PaneT(n))
  BY DEF PanesInv, TabsInv
<1>2. p \in PaneT(n)
  BY <1>1
<1>3. PICK list \in Seq(1..n) :
         /\ Len(list) >= 2
         /\ panes' = [panes EXCEPT ![active] =
                        [p EXCEPT !.walk = list, !.pos = (p.pos + 1) % Len(list),
                                  !.shows = list[((p.pos + 1) % Len(list)) + 1]]]
  <2>1. Recency(p) \in Seq(1..n) /\ p.walk \in Seq(1..n)
    BY <1>2, RecencyType DEF PaneT
  <2> DEFINE list == IF p.walk = <<>> THEN Recency(p) ELSE p.walk
  <2>2. list \in Seq(1..n)
    BY <2>1
  <2>3. /\ Len(list) >= 2
        /\ panes' = [panes EXCEPT ![active] =
                      [@ EXCEPT !.walk = list, !.pos = (p.pos + 1) % Len(list),
                                !.shows = list[((p.pos + 1) % Len(list)) + 1]]]
    BY DEF MruTab
  <2> HIDE DEF list
  <2> QED BY <1>1, <2>2, <2>3
<1>4. UNCHANGED <<paneTabs, active, opened>>
  BY DEF MruTab
<1>5. PICK pos \in 0..(Len(list) - 1) : pos = (p.pos + 1) % Len(list)
  <2>1. p.pos \in Nat /\ Len(list) \in Nat /\ Len(list) >= 2
    BY <1>2, <1>3 DEF PaneT
  <2>2. (p.pos + 1) % Len(list) \in 0..(Len(list) - 1)
    <3> HIDE DEF p
    <3> QED BY <2>1
  <2> QED BY <2>2
<1>6. PICK at \in 1..n : at = list[pos + 1]
  <2>1. pos + 1 \in 1..Len(list)
    BY <1>3, <1>5
  <2> QED BY <2>1
<1> DEFINE q == [p EXCEPT !.walk = list, !.pos = pos, !.shows = at]
<1>7. panes' = [panes EXCEPT ![active] = q]
  BY <1>3, <1>5, <1>6
<1>8. q \in PaneT(n)
  <2>1. pos \in Nat
    BY <1>5
  <2> HIDE DEF p, n
  <2> QED BY <1>2, <2>1 DEF PaneT
<1>9. PanesInv'
  <2> HIDE DEF q
  <2>1. panes' \in Seq(PaneT(n)) /\ Len(panes') = Len(panes)
    BY <1>1, <1>7, <1>8
  <2> QED BY <1>4, <2>1 DEF PanesInv, TabsInv
<1>10. Seen' = [Seen EXCEPT ![active] = ViewOf(q, paneTabs)] /\ DOMAIN Seen = 1..Len(panes)
  <2> HIDE DEF q
  <2> QED BY <1>1, <1>4, <1>7, SeenExcept
<1>11. ViewOf(q, paneTabs) = [ViewOf(p, paneTabs) EXCEPT !.shows = paneTabs[at]]
  <2>1. q.shows = at /\ q.recent = p.recent
    <3> HIDE DEF p
    <3> QED BY <1>2 DEF PaneT
  <2> HIDE DEF q, p
  <2> QED BY <2>1 DEF ViewOf
<1>12. Seen[active] = ViewOf(p, paneTabs)
  BY <1>1 DEF Seen, Views
<1>13. Seen' = [Seen EXCEPT ![active].shows = paneTabs[at]]
  <2> HIDE DEF q, p
  <2> QED BY <1>1, <1>10, <1>11, <1>12
<1>14. paneTabs[at] \in ToSet(paneTabs)
  BY <1>1 DEF ToSet
<1>15. History!Walk
  BY <1>1, <1>4, <1>10, <1>13, <1>14, WalkMaps
<1> QED BY <1>9, <1>15 DEF History!HistoryNext

LEMMA OtherTabType == ASSUME PanesInv PROVE OtherTab \in 1..Len(paneTabs)
<1>1. /\ Len(paneTabs) \in Nat \ {0} /\ active \in 1..Len(panes)
      /\ panes \in Seq(PaneT(Len(paneTabs)))
  BY DEF PanesInv, TabsInv
<1>2. panes[active] \in PaneT(Len(paneTabs))
  BY <1>1
<1>3. Shown \in 1..Len(paneTabs)
  BY <1>2 DEF Shown, PaneT
<1>4. CASE Len(paneTabs) = 1
  <2>1. ~(Shown < Len(paneTabs))
    BY <1>3, <1>4
  <2>2. OtherTab = 1
    BY <1>4, <2>1 DEF OtherTab
  <2> QED BY <1>4, <2>2
<1>5. CASE Len(paneTabs) # 1 /\ Shown < Len(paneTabs)
  BY <1>1, <1>3, <1>5 DEF OtherTab
<1>6. CASE Len(paneTabs) # 1 /\ ~(Shown < Len(paneTabs))
  <2>1. OtherTab = Shown - 1
    BY <1>6 DEF OtherTab
  <2>2. Len(paneTabs) \in Nat \ {0}
    BY <1>1
  <2>4. PICK m, i : m = Len(paneTabs) /\ i = Shown
    OBVIOUS
  <2>6. m \in Nat \ {0} /\ i \in 1..m /\ m # 1 /\ ~(i < m)
    BY <1>3, <1>6, <2>2, <2>4
  <2>5. i - 1 \in 1..m
    BY <2>6
  <2>3. Shown - 1 \in 1..Len(paneTabs)
    BY <2>4, <2>5
  <2> QED BY <2>1, <2>3
<1> QED BY <1>4, <1>5, <1>6

LEMMA SplitPaneMaps ==
    ASSUME PanesInv, SplitPane
    PROVE  PanesInv' /\ History!HistoryNext
<1> DEFINE n == Len(paneTabs)
<1>1. paneTabs \in Seq(1..opened) /\ n \in Nat \ {0} /\ DOMAIN paneTabs = 1..n
      /\ panes \in Seq(PaneT(n)) /\ Len(panes) = 1 /\ DOMAIN panes = 1..1
  BY DEF PanesInv, TabsInv, SplitPane, IsSplit
<1>2. PICK i \in 1..n : i = OtherTab
  BY OtherTabType
<1>3. /\ Pane(i) \in PaneT(n) /\ Pane(i).shows = i /\ Pane(i).recent = <<>>
  BY <1>1, NewPane
<1>4. panes' = Append(panes, Pane(i)) /\ active' = 2 /\ UNCHANGED <<paneTabs, opened>>
  BY <1>2 DEF SplitPane
<1>5. /\ panes' \in Seq(PaneT(n)) /\ Len(panes') = 2 /\ DOMAIN panes' = 1..2
      /\ panes'[1] = panes[1] /\ panes'[2] = Pane(i)
  <2>1. PICK D, x : D = PaneT(n) /\ x = Pane(i)
    OBVIOUS
  <2>2. panes \in Seq(D) /\ x \in D /\ panes' = Append(panes, x) /\ Len(panes) = 1
    BY <1>1, <1>3, <1>4, <2>1
  <2>3. /\ panes' \in Seq(D) /\ Len(panes') = 2
        /\ panes'[1] = panes[1] /\ panes'[2] = x
    <3>1. /\ Append(panes, x) \in Seq(D) /\ Len(Append(panes, x)) = 2
          /\ Append(panes, x)[1] = panes[1] /\ Append(panes, x)[2] = x
      <4>1. PICK y \in D : y = panes[1]
        BY <2>2
      <4>2. panes = <<y>>
        BY <2>2, <4>1
      <4>3. Append(<<y>>, x) = <<y, x>>
        <5>1. <<y>> \in Seq(D) /\ Len(<<y>>) = 1 /\ <<y, x>> \in Seq(D) /\ Len(<<y, x>>) = 2
          BY <2>2
        <5>6. PICK s : s = <<y>>
          OBVIOUS
        <5>2. s = <<y>> /\ s[1] = y
          BY <5>6
        <5>3. /\ Append(s, x) \in Seq(D) /\ Len(Append(s, x)) = 2
              /\ Append(s, x)[1] = y /\ Append(s, x)[2] = x
          BY <2>2, <5>1, <5>2
        <5>4. \A k \in 1..2 : Append(s, x)[k] = <<y, x>>[k]
          BY <5>3
        <5> QED BY <5>1, <5>2, <5>3, <5>4, SeqEqual
      <4> QED BY <2>2, <4>1, <4>2, <4>3
    <3> QED BY <2>2, <3>1
  <2>4. DOMAIN panes' = 1..2
    BY <2>3
  <2> QED BY <2>1, <2>3, <2>4
<1>6. PanesInv'
  BY <1>4, <1>5 DEF PanesInv, TabsInv
<1>7. ViewOf(Pane(i), paneTabs) = History!Fresh(paneTabs[i])
  <2>1. Mapped(<<>>, paneTabs) = <<>>
    BY DEF Mapped
  <2> QED BY <1>3, <2>1 DEF ViewOf, History!Fresh
<1>8. Len(Seen) = 1 /\ Seen = <<ViewOf(panes[1], paneTabs)>>
  BY <1>1 DEF Seen, Views
<1>9. Seen' = <<ViewOf(panes[1], paneTabs), History!Fresh(paneTabs[i])>>
  BY <1>4, <1>5, <1>7 DEF Seen, Views
<1>10. Seen' = Append(Seen, History!Fresh(paneTabs[i]))
  BY <1>8, <1>9
<1>11. paneTabs[i] \in ToSet(paneTabs)
  BY <1>1 DEF ToSet
<1>12. History!Split
  BY <1>4, <1>8, <1>10, <1>11, SplitMaps
<1> QED BY <1>6, <1>12 DEF History!HistoryNext

LEMMA FocusOtherPaneStays ==
    ASSUME PanesInv, FocusOtherPane
    PROVE  PanesInv' /\ UNCHANGED History!view
<1>1. active' \in 1..Len(panes) /\ UNCHANGED <<paneTabs, panes, opened>>
  BY DEF FocusOtherPane, IsSplit, PanesInv
<1>2. PanesInv'
  BY <1>1 DEF PanesInv, TabsInv
<1>3. UNCHANGED History!view
  BY <1>1 DEF History!view
<1> QED BY <1>2, <1>3

\* Closing the active pane of a split leaves the other.
LEMMA OtherPane ==
    ASSUME PanesInv
    PROVE  /\ IsSplit => /\ 3 - active \in 1..Len(panes) /\ OtherOnly = <<panes[3 - active]>>
           /\ OtherOnly \in Seq(PaneT(Len(paneTabs))) /\ Len(OtherOnly) = 1 /\ DOMAIN OtherOnly = 1..1
<1>1. active \in 1..Len(panes) /\ panes \in Seq(PaneT(Len(paneTabs))) /\ Len(panes) \in 1..2
  BY DEF PanesInv
<1>2. CASE IsSplit
  <2>1. 3 - active \in 1..Len(panes)
    BY <1>1, <1>2 DEF IsSplit
  <2>2. panes[3 - active] \in PaneT(Len(paneTabs))
    BY <1>1, <2>1
  <2> QED BY <1>2, <2>1, <2>2 DEF OtherOnly
<1>3. CASE ~IsSplit
  BY <1>1, <1>3 DEF OtherOnly, IsSplit
<1> QED BY <1>2, <1>3

LEMMA ClosePaneMaps ==
    ASSUME PanesInv, ClosePane
    PROVE  PanesInv' /\ History!HistoryNext
<1>1. /\ 3 - active \in 1..Len(panes) /\ panes' = <<panes[3 - active]>>
      /\ panes' \in Seq(PaneT(Len(paneTabs))) /\ Len(panes') = 1
      /\ active' = 1 /\ UNCHANGED <<paneTabs, opened>>
  BY OtherPane DEF ClosePane
<1>2. PanesInv'
  BY <1>1 DEF PanesInv, TabsInv
<1>3. DOMAIN Seen = 1..Len(panes) /\ Seen[3 - active] = ViewOf(panes[3 - active], paneTabs)
  BY <1>1 DEF Seen, Views, PanesInv
<1>4. Seen' = <<ViewOf(panes[3 - active], paneTabs)>>
  <2>1. DOMAIN panes' = 1..1 /\ panes'[1] = panes[3 - active] /\ paneTabs' = paneTabs
    BY <1>1
  <2> QED BY <2>1 DEF Seen, Views
<1>5. History!Unsplit
  BY <1>1, <1>3, <1>4, UnsplitMaps
<1> QED BY <1>2, <1>5 DEF History!HistoryNext

LEMMA DropAllTabsMaps ==
    ASSUME PanesInv, DropAllTabs
    PROVE  PanesInv' /\ History!HistoryNext
<1>1. /\ opened' = opened + 1 /\ opened' \in 1..MaxOpened
      /\ paneTabs' = <<opened + 1>> /\ panes' = <<Pane(1)>> /\ active' = 1
  BY MaxOpenedAssumption DEF DropAllTabs, PanesInv, TabsInv
<1>2. /\ opened + 1 \in 1..(opened + 1) /\ opened + 1 \notin 1..opened /\ opened \in Nat
      /\ paneTabs \in Seq(1..opened)
  BY DEF PanesInv, TabsInv
<1>3. /\ paneTabs' \in Seq(1..opened') /\ Len(paneTabs') = 1 /\ DOMAIN paneTabs' = 1..1
      /\ paneTabs'[1] = opened + 1 /\ Distinct(paneTabs')
  BY <1>1, <1>2 DEF Distinct
<1>4. Pane(1) \in PaneT(1) /\ Pane(1).shows = 1 /\ Pane(1).recent = <<>>
  BY NewPane
<1>5. panes' \in Seq(PaneT(Len(paneTabs'))) /\ Len(panes') = 1
  BY <1>1, <1>3, <1>4
<1>6. PanesInv'
  BY <1>1, <1>3, <1>5 DEF PanesInv, TabsInv
<1>7. Seen' = <<History!Fresh(opened + 1)>>
  <2>1. DOMAIN panes' = 1..1 /\ panes'[1] = Pane(1)
    BY <1>1
  <2>2. ViewOf(Pane(1), paneTabs') = History!Fresh(opened + 1)
    <3>1. Mapped(<<>>, paneTabs') = <<>>
      BY DEF Mapped
    <3> QED BY <1>3, <1>4, <3>1 DEF ViewOf, History!Fresh
  <2> QED BY <2>1, <2>2 DEF Seen, Views
<1>8. ToSet(paneTabs') = {opened + 1}
  BY <1>3 DEF ToSet
<1>9. opened + 1 \in (1..MaxOpened) \ ToSet(paneTabs)
  BY <1>1, <1>2 DEF ToSet
<1>10. History!CloseAll
  BY <1>7, <1>8, <1>9, CloseAllMaps
<1> QED BY <1>6, <1>10 DEF History!HistoryNext

\* A closing: what is left of the panes in base, with the tabs of closed taken out.
LEMMA ClosingMaps ==
    ASSUME PanesInv, NEW closed \in (SUBSET (DOMAIN paneTabs)) \ {{}, DOMAIN paneTabs},
           NEW base \in Seq(PaneT(Len(paneTabs))), Len(base) \in 1..2,
           base = panes \/ (Len(base) = 1 /\ \E i \in 1..Len(panes) : base[1] = panes[i]),
           paneTabs' \in Seq(1..opened), Renumbers(paneTabs, paneTabs', closed),
           panes' = Renumbered(base, closed), active' \in 1..Len(base), opened' = opened
    PROVE  PanesInv' /\ History!HistoryNext
<1> DEFINE n == Len(paneTabs)
           Out == (1..MaxOpened) \ ToSet(paneTabs')
           gone == {paneTabs[i] : i \in closed}
<1>1. /\ n \in Nat /\ paneTabs \in Seq(1..opened) /\ DOMAIN paneTabs = 1..n /\ Distinct(paneTabs)
      /\ opened \in 1..MaxOpened /\ panes \in Seq(PaneT(n)) /\ closed \in SUBSET (1..n)
      /\ DOMAIN panes = 1..Len(panes) /\ DOMAIN base = 1..Len(base)
      /\ DOMAIN paneTabs' = 1..Len(paneTabs')
  BY DEF PanesInv, TabsInv
<1>2. Distinct(paneTabs') /\ ToSet(paneTabs') = ToSet(paneTabs) \ gone
  BY <1>1, TabsLeft
<1>3. Len(paneTabs') \in Nat \ {0}
  <2>1. PICK i \in DOMAIN paneTabs \ closed : TRUE
    OBVIOUS
  <2>2. Left(i, closed) \in DOMAIN paneTabs'
    BY <2>1 DEF Renumbers
  <2> QED BY <1>1, <2>2
<1>4. \A i \in 1..n : paneTabs[i] \in 1..MaxOpened
  <2>1. \A i \in 1..n : paneTabs[i] \in 1..opened
    BY <1>1
  <2> QED BY <1>1, <2>1, MaxOpenedAssumption
<1>5. \A i \in 1..n : i \in closed <=> paneTabs[i] \in gone
  <2>1. ASSUME NEW i \in 1..n, NEW c \in closed, paneTabs[i] = paneTabs[c]
        PROVE  i \in closed
    <3>1. i \in DOMAIN paneTabs /\ c \in DOMAIN paneTabs
      BY <1>1
    <3>2. Distinct(paneTabs) /\ paneTabs[i] = paneTabs[c]
      BY <1>1, <2>1
    <3>3. i = c
      BY ONLY <3>1, <3>2 DEF Distinct
    <3> QED BY <3>3
  <2> QED BY ONLY <2>1 DEF gone
<1>6. \A i \in 1..n : i \in closed <=> paneTabs[i] \in Out
  <2> HIDE DEF gone, n
  <2> QED BY <1>1, <1>2, <1>4, <1>5 DEF ToSet
<1>7. ASSUME NEW k \in 1..Len(base)
      PROVE  /\ panes'[k] \in PaneT(Len(paneTabs'))
             /\ History!Survives(ViewOf(base[k], paneTabs), ViewOf(panes'[k], paneTabs'))
  <2> DEFINE p == base[k]
             q == AfterClose(p, closed)
  <2>1. p \in PaneT(n) /\ panes'[k] = q
    BY <1>1 DEF Renumbered
  <2>2. /\ q \in PaneT(Len(paneTabs'))
        /\ p.shows \notin closed => paneTabs'[q.shows] = paneTabs[p.shows]
        /\ ViewOf(q, paneTabs').recent = Without(ViewOf(p, paneTabs).recent, Out)
    <3>1. TabsClose(paneTabs, paneTabs', closed, Out)
      <4>1. \E S : paneTabs \in Seq(S) /\ paneTabs' \in Seq(S)
        BY <1>1
      <4>2. paneTabs' # <<>>
        BY <1>3
      <4> HIDE DEF Out
      <4> QED BY <1>1, <1>6, <4>1, <4>2 DEF TabsClose
    <3> HIDE DEF p, n, Out
    <3> QED BY <2>1, <3>1, PaneLeft DEF n, q
  <2>3. /\ ViewOf(q, paneTabs').shows = paneTabs'[q.shows] /\ ViewOf(p, paneTabs).shows = paneTabs[p.shows]
    BY DEF ViewOf
  <2>4. p.shows \in 1..n /\ q.shows \in 1..Len(paneTabs')
    <3> HIDE DEF q, p
    <3> QED BY <2>1, <2>2 DEF PaneT
  <2>5. paneTabs'[q.shows] \in ToSet(paneTabs')
    <3> HIDE DEF q
    <3> QED BY <1>1, <2>4 DEF ToSet
  <2>6. p.shows \in closed => paneTabs[p.shows] \notin ToSet(paneTabs')
    <3> HIDE DEF q, p, gone, Out
    <3> QED BY <1>2, <1>5, <2>4
  <2>7. History!Survives(ViewOf(p, paneTabs), ViewOf(q, paneTabs'))
    <3>1. PICK v, w : v = ViewOf(p, paneTabs) /\ w = ViewOf(q, paneTabs')
      OBVIOUS
    <3>2. /\ w.shows = v.shows \/ v.shows \notin ToSet(paneTabs')
          /\ w.shows \in ToSet(paneTabs')
          /\ w.recent = Without(v.recent, (1..MaxOpened) \ ToSet(paneTabs'))
      <4> HIDE DEF p, q
      <4> QED BY <2>2, <2>3, <2>5, <2>6, <3>1
    <3>3. History!Survives(v, w)
      BY <3>2, SameWithout DEF History!Survives
    <3> QED BY <3>1, <3>3
  <2> HIDE DEF p, q
  <2> QED BY <2>1, <2>2, <2>7 DEF p
<1>8. panes' \in Seq(PaneT(Len(paneTabs'))) /\ Len(panes') = Len(base) /\ DOMAIN panes' = 1..Len(base)
  <2>1. panes' = [k \in 1..Len(base) |-> panes'[k]] /\ Len(base) \in Nat
    BY <1>1 DEF Renumbered
  <2> QED BY <1>7, <2>1
<1>9. PanesInv'
  BY <1>1, <1>2, <1>3, <1>8 DEF PanesInv, TabsInv
<1>10. DOMAIN Seen = 1..Len(panes) /\ \A k \in 1..Len(panes) : Seen[k] = ViewOf(panes[k], paneTabs)
  BY <1>1 DEF Seen, Views
<1>11. DOMAIN Seen' = 1..Len(base) /\ \A k \in 1..Len(base) : Seen'[k] = ViewOf(panes'[k], paneTabs')
  BY <1>8 DEF Seen, Views
<1>12. gone \in (SUBSET ToSet(paneTabs)) \ {{}, ToSet(paneTabs)}
  <2>1. gone # {} /\ gone \subseteq ToSet(paneTabs)
    BY DEF ToSet
  <2>2. gone # ToSet(paneTabs)
    <3>1. PICK i \in DOMAIN paneTabs \ closed : TRUE
      OBVIOUS
    <3>2. paneTabs[i] \in ToSet(paneTabs) /\ paneTabs[i] \notin gone
      BY <1>1, <1>5, <3>1 DEF ToSet
    <3> QED BY <3>2
  <2> HIDE DEF gone
  <2> QED BY <2>1, <2>2
<1>13. \/ DOMAIN Seen' = DOMAIN Seen
          /\ \A i \in DOMAIN Seen : History!Survives(Seen[i], Seen'[i])
       \/ Len(Seen') = 1 /\ \E i \in DOMAIN Seen : History!Survives(Seen[i], Seen'[1])
  <2>1. CASE base = panes
    BY <2>1, <1>7, <1>10, <1>11
  <2>2. CASE Len(base) = 1 /\ \E i \in 1..Len(panes) : base[1] = panes[i]
    <3>1. PICK i \in 1..Len(panes) : base[1] = panes[i]
      BY <2>2
    <3>2. History!Survives(ViewOf(base[1], paneTabs), ViewOf(panes'[1], paneTabs'))
      BY <1>7, <2>2
    <3>3. Seen' \in Seq({Seen'[1]}) /\ Len(Seen') = 1
      <4>1. Seen' = [k \in 1..1 |-> Seen'[1]]
        BY <1>11, <2>2 DEF Seen, Views
      <4>2. PICK v : v = Seen'[1]
        OBVIOUS
      <4>3. [k \in 1..1 |-> v] \in Seq({v}) /\ Len([k \in 1..1 |-> v]) = 1
        OBVIOUS
      <4> QED BY <4>1, <4>2, <4>3
    <3> QED BY <3>1, <3>2, <3>3, <1>10, <1>11, <2>2
  <2> QED BY <2>1, <2>2
<1>14. History!Close
  <2> HIDE DEF gone
  <2> QED BY <1>2, <1>12, <1>13, CloseMaps
<1> QED BY <1>9, <1>14 DEF History!HistoryNext

LEMMA ClosePanesTabMaps ==
    ASSUME PanesInv, NEW i \in DOMAIN paneTabs, ClosePanesTab(i)
    PROVE  PanesInv' /\ History!HistoryNext
<1>1. /\ paneTabs \in Seq(1..opened) /\ DOMAIN paneTabs = 1..Len(paneTabs) /\ Len(paneTabs) \in Nat
      /\ panes \in Seq(PaneT(Len(paneTabs))) /\ Len(panes) \in 1..2
  BY DEF PanesInv, TabsInv
<1>2. /\ Len(paneTabs) > 1 /\ paneTabs' = RemoveAt(paneTabs, i)
      /\ panes' = Renumbered(OtherOnly, {i}) /\ active' = 1 /\ opened' = opened
  BY DEF ClosePanesTab
<1>3. Renumbers(paneTabs, paneTabs', {i})
  BY <1>1, <1>2, RemoveAtRenumbers
<1>4. paneTabs' \in Seq(1..opened)
  <2>1. PICK S : S = 1..opened
    OBVIOUS
  <2>5. i \in 1..Len(paneTabs) /\ paneTabs \in Seq(S)
    BY <1>1, <2>1
  <2>2. SubSeq(paneTabs, 1, i - 1) \in Seq(S) /\ SubSeq(paneTabs, i + 1, Len(paneTabs)) \in Seq(S)
    BY <1>1, <2>5
  <2>3. paneTabs' = SubSeq(paneTabs, 1, i - 1) \o SubSeq(paneTabs, i + 1, Len(paneTabs))
    BY <1>2 DEF RemoveAt
  <2>4. paneTabs' \in Seq(S)
    BY <2>2, <2>3, ConcatProperties
  <2> QED BY <2>1, <2>4
<1>5. {i} \in (SUBSET (DOMAIN paneTabs)) \ {{}, DOMAIN paneTabs}
  <2>1. 1 \in DOMAIN paneTabs /\ 2 \in DOMAIN paneTabs
    BY <1>1, <1>2
  <2> QED BY <2>1
<1>6. /\ OtherOnly \in Seq(PaneT(Len(paneTabs))) /\ Len(OtherOnly) = 1
      /\ OtherOnly = panes \/ \E k \in 1..Len(panes) : OtherOnly[1] = panes[k]
  <2>1. CASE IsSplit
    BY <2>1, OtherPane
  <2>2. CASE ~IsSplit
    BY <2>2, OtherPane DEF OtherOnly
  <2> QED BY <2>1, <2>2
<1>7. PICK closed, base : closed = {i} /\ base = OtherOnly
  OBVIOUS
<1>8. /\ closed \in (SUBSET (DOMAIN paneTabs)) \ {{}, DOMAIN paneTabs}
      /\ base \in Seq(PaneT(Len(paneTabs))) /\ Len(base) = 1 /\ Len(base) \in 1..2
      /\ base = panes \/ (Len(base) = 1 /\ \E k \in 1..Len(panes) : base[1] = panes[k])
      /\ Renumbers(paneTabs, paneTabs', closed) /\ panes' = Renumbered(base, closed)
      /\ active' \in 1..Len(base)
  <2>1. Renumbers(paneTabs, paneTabs', closed) /\ panes' = Renumbered(base, closed)
    BY <1>2, <1>3, <1>7
  <2>2. /\ base \in Seq(PaneT(Len(paneTabs))) /\ Len(base) = 1
        /\ base = panes \/ \E k \in 1..Len(panes) : base[1] = panes[k]
    BY <1>6, <1>7
  <2>3. closed \in (SUBSET (DOMAIN paneTabs)) \ {{}, DOMAIN paneTabs}
    BY <1>5, <1>7
  <2>4. Len(base) \in 1..2 /\ active' \in 1..Len(base)
    BY <1>2, <2>2
  <2> QED BY <2>1, <2>2, <2>3, <2>4
<1> QED BY <1>2, <1>4, <1>8, ClosingMaps

LEMMA DropTabsMaps ==
    ASSUME PanesInv, NEW closed \in (SUBSET (DOMAIN paneTabs)) \ {{}}, DropTabs(closed)
    PROVE  PanesInv' /\ History!HistoryNext
<1>1. /\ paneTabs \in Seq(1..opened) /\ Distinct(paneTabs)
      /\ panes \in Seq(PaneT(Len(paneTabs))) /\ Len(panes) \in 1..2 /\ active \in 1..Len(panes)
  BY DEF PanesInv, TabsInv
<1>2. /\ closed # DOMAIN paneTabs /\ paneTabs' = Without(paneTabs, {paneTabs[i] : i \in closed})
      /\ panes' = Renumbered(panes, closed) /\ active' = active /\ opened' = opened
  BY DEF DropTabs
<1>3. Renumbers(paneTabs, paneTabs', closed)
  BY <1>1, <1>2, WithoutRenumbers
<1>4. paneTabs' \in Seq(1..opened)
  BY <1>1, <1>2, WithoutType
<1> QED BY <1>1, <1>2, <1>3, <1>4, ClosingMaps

\* The panes keep the promise of PaneHistory for any number of tabs: however
\* closings renumber, a pane keeps its tab and its memory.
THEOREM HistoryCorrect == PanesSpec => ImplementsHistory
<1>1. PanesInv /\ [PanesNext]_paneVars => PanesInv' /\ [History!HistoryNext]_History!view
  <2> SUFFICES ASSUME PanesInv, [PanesNext]_paneVars
               PROVE  PanesInv' /\ (History!HistoryNext \/ UNCHANGED History!view)
    OBVIOUS
  <2>1. CASE \E i \in DOMAIN paneTabs : SetActiveTab(i)
    BY <2>1, SetActiveTabMaps
  <2>2. CASE \E i \in DOMAIN paneTabs : ClosePanesTab(i)
    BY <2>2, ClosePanesTabMaps
  <2>3. CASE \E closed \in (SUBSET (DOMAIN paneTabs)) \ {{}} : DropTabs(closed)
    <3>1. ASSUME NEW closed \in (SUBSET (DOMAIN paneTabs)) \ {{}}, DropTabs(closed)
          PROVE  PanesInv' /\ History!HistoryNext
      BY <3>1, DropTabsMaps
    <3> QED BY <2>3, <3>1
  <2>4. CASE OpenTab
    BY <2>4, OpenTabMaps
  <2>5. CASE MruTab
    BY <2>5, MruTabMaps
  <2>6. CASE SplitPane
    BY <2>6, SplitPaneMaps
  <2>7. CASE FocusOtherPane
    BY <2>7, FocusOtherPaneStays
  <2>8. CASE ClosePane
    BY <2>8, ClosePaneMaps
  <2>9. CASE DropAllTabs
    BY <2>9, DropAllTabsMaps
  <2>10. CASE UNCHANGED paneVars
    BY <2>10 DEF paneVars, PanesInv, TabsInv, History!view
  <2> QED BY <2>1, <2>2, <2>3, <2>4, <2>5, <2>6, <2>7, <2>8, <2>9, <2>10 DEF PanesNext
<1>2. PanesInit => PanesInv /\ History!HistoryInit
  BY PanesInitHolds
<1> QED BY <1>1, <1>2, PTL DEF PanesSpec, ImplementsHistory, History!HistorySpec
-----------------------------------------------------------------------------
(***************************************************************************)
(* LineCache for any length of text and any window: the lines a pass takes *)
(* over before the first change.                                           *)
(***************************************************************************)
LineTypes ==
    /\ lines \in Seq(LineKinds) /\ cached.text \in Seq(LineKinds)
    /\ cached = [text |-> cached.text, toks |-> cached.toks]

LineInv == LineTypes /\ PrefixIsSound

\* The tokens of a line depend on the lines up to it.
LEMMA LexedUpTo ==
    ASSUME NEW s \in Seq(LineKinds), NEW t \in Seq(LineKinds), NEW i \in 1..Len(s),
           i \in 1..Len(t), \A k \in 1..i : s[k] = t[k]
    PROVE  Lexed(s)[i] = Lexed(t)[i]
<1>1. {k \in 1..(i - 1) : s[k] \in {"open", "close"}} = {k \in 1..(i - 1) : t[k] \in {"open", "close"}}
  OBVIOUS
<1>2. \A k \in {j \in 1..(i - 1) : t[j] \in {"open", "close"}} : s[k] = t[k]
  OBVIOUS
<1>3. Inside(s, i - 1) = Inside(t, i - 1)
  <2> DEFINE M == {k \in 1..(i - 1) : t[k] \in {"open", "close"}}
  <2>1. CASE M = {}
    BY <2>1, <1>1 DEF Inside
  <2>2. CASE M # {}
    <3>1. i - 1 \in Nat /\ M \subseteq 0..(i - 1)
      OBVIOUS
    <3>2. Max(M) \in M
      <4> HIDE DEF M
      <4> QED BY <3>1, <2>2, Greatest
    <3>3. s[Max(M)] = t[Max(M)]
      BY <3>2, <1>2
    <3> QED BY <3>3, <1>1 DEF Inside
  <2> QED BY <2>1, <2>2
<1>4. s[i] = t[i] /\ i \in DOMAIN s /\ i \in DOMAIN t
  OBVIOUS
<1> QED BY <1>3, <1>4 DEF Lexed

LEMMA PrefixAgrees ==
    ASSUME LineTypes
    PROVE  /\ Prefix(lines) \in 0..Len(lines)
           /\ \A i \in 1..Prefix(lines) : Same(lines, i)
<1> DEFINE P == {p \in 0..Len(lines) : \A i \in 1..p : Same(lines, i)}
<1>1. Len(lines) \in Nat /\ P \subseteq 0..Len(lines) /\ 0 \in P
  BY DEF LineTypes
<1>2. Max(P) \in P
  <2> HIDE DEF P
  <2> QED BY <1>1, Greatest
<1> QED BY <1>2 DEF Prefix

\* A walk that resynchronized did so at a line behind the prefix.
LEMMA ResyncIsLine ==
    ASSUME LineTypes
    PROVE  Resync(lines) \in 0..Len(lines)
<1> DEFINE fits(i) == Same(lines, i) /\ Lexed(lines)[i] = cached.toks[i]
           ends == {r \in (Prefix(lines) + IncWindow)..Len(lines) :
                    \A i \in (r - IncWindow + 1)..r : fits(i)}
<1>1. ends \subseteq 0..Len(lines) /\ Len(lines) \in Nat
  <2>1. Prefix(lines) \in Nat /\ IncWindow \in Nat
    BY PrefixAgrees, LineCacheAssumption
  <2> QED BY <2>1 DEF LineTypes
<1>2. Resync(lines) = IF ends = {} THEN 0 ELSE Min(ends)
  BY DEF Resync
<1>3. ends # {} => Min(ends) \in ends
  <2> SUFFICES ASSUME ends # {} PROVE Min(ends) \in ends
    OBVIOUS
  <2>1. ends \subseteq Nat
    BY <1>1
  <2> HIDE DEF ends
  <2>2. PICK x \in ends : \A y \in ends : x <= y
    BY <2>1, Least
  <2> QED BY <2>2 DEF Min
<1>4. 0 \in 0..Len(lines)
  BY <1>1
<1> HIDE DEF ends
<1>5. CASE ends = {}
  BY <1>2, <1>4, <1>5
<1>6. CASE ends # {}
  BY <1>1, <1>2, <1>3, <1>6
<1> QED BY <1>5, <1>6

LEMMA LineInitHolds == LineInit => LineInv
<1> SUFFICES ASSUME LineInit PROVE LineInv
  OBVIOUS
<1>1. Lexed(<<>>) = <<>>
  BY DEF Lexed
<1>2. lines \in Seq(LineKinds)
  <2>1. PICK k \in LineKinds : lines = <<k>>
    BY DEF LineInit
  <2> QED BY <2>1
<1> QED BY <1>1, <1>2 DEF LineInit, LineInv, LineTypes, PrefixIsSound

LEMMA LinePassKeeps == ASSUME LineInv, LinePass PROVE LineInv'
<1>1. LineTypes'
  BY DEF LineInv, LineTypes, LinePass
<1>2. ASSUME ~spliced' PROVE Update(lines) = Lexed(lines)
  <2>1. ~spliced /\ Resync(lines) \notin 1..(Len(lines) - 1) /\ Resync(lines) \in 0..Len(lines)
    BY <1>2, ResyncIsLine DEF LineInv, LinePass
  <2>2. Len(lines) \in Nat /\ DOMAIN lines = 1..Len(lines)
    BY DEF LineInv, LineTypes
  <2>3. Resync(lines) = 0 \/ \A i \in DOMAIN lines : i <= Resync(lines)
    BY <2>1, <2>2
  <2>4. ASSUME NEW i \in DOMAIN lines, i <= Prefix(lines)
        PROVE  cached.toks[i] = Lexed(lines)[i]
    <3>1. \A k \in 1..i : Same(lines, k)
      BY <2>4, <2>2, PrefixAgrees DEF LineInv
    <3>2. \A k \in 1..i : k \in 1..Len(cached.text) /\ lines[k] = cached.text[k]
      BY <3>1 DEF Same, LineInv, LineTypes
    <3>3. Lexed(cached.text)[i] = Lexed(lines)[i]
      BY <3>2, <2>2, LexedUpTo DEF LineInv, LineTypes
    <3> QED BY <3>3, <2>1 DEF LineInv, PrefixIsSound
  <2>5. ASSUME NEW i \in DOMAIN lines PROVE Update(lines)[i] = Lexed(lines)[i]
    <3>1. CASE i <= Prefix(lines)
      BY <3>1, <2>4 DEF Update
    <3>2. CASE ~(i <= Prefix(lines))
      <4>1. i > Prefix(lines) /\ (Resync(lines) = 0 \/ i <= Resync(lines))
        BY <3>2, <2>2, <2>3, PrefixAgrees DEF LineInv
      <4> QED BY <4>1, <3>2 DEF Update
    <3> QED BY <3>1, <3>2
  <2>6. Update(lines) = [i \in DOMAIN lines |-> Update(lines)[i]]
    BY DEF Update
  <2>7. Lexed(lines) = [i \in DOMAIN lines |-> Lexed(lines)[i]]
    BY DEF Lexed
  <2> QED BY <2>5, <2>6, <2>7
<1>3. PrefixIsSound'
  BY <1>2 DEF PrefixIsSound, LinePass
<1> QED BY <1>1, <1>3 DEF LineInv

\* A line is typed, comes or goes: the cache does not notice.
LEMMA LinesMove ==
    ASSUME LineInv, EditLine \/ InsertLine \/ DropCachedLine
    PROVE  lines' \in Seq(LineKinds)
<1>1. CASE EditLine
  BY <1>1 DEF EditLine, LineInv, LineTypes
<1>2. CASE InsertLine
  <2>1. PICK i \in 1..(Len(lines) + 1), k \in LineKinds : lines' = InsertAt(lines, i, k)
    BY <1>2 DEF InsertLine
  <2>2. lines' = SubSeq(lines, 1, i - 1) \o <<k>> \o SubSeq(lines, i, Len(lines))
    BY <2>1 DEF InsertAt
  <2> QED BY <2>1, <2>2 DEF LineInv, LineTypes
<1>3. CASE DropCachedLine
  <2>1. PICK i \in DOMAIN lines : lines' = RemoveAt(lines, i)
    BY <1>3 DEF DropCachedLine
  <2>2. lines' = SubSeq(lines, 1, i - 1) \o SubSeq(lines, i + 1, Len(lines))
    BY <2>1 DEF RemoveAt
  <2> QED BY <2>1, <2>2 DEF LineInv, LineTypes
<1> QED BY <1>1, <1>2, <1>3

\* Reusing the cached lines before the first change paints a text as a pass over
\* all of it does, however lines were typed, inserted and dropped since.
THEOREM PrefixCorrect == LineSpec => []PrefixIsSound
<1>1. LineInv /\ [LineNext]_lineVars => LineInv'
  <2> SUFFICES ASSUME LineInv, [LineNext]_lineVars PROVE LineInv'
    OBVIOUS
  <2>1. CASE EditLine \/ InsertLine \/ DropCachedLine
    <3>1. cached' = cached /\ spliced' = spliced
      BY <2>1 DEF EditLine, InsertLine, DropCachedLine
    <3> QED BY <2>1, <3>1, LinesMove DEF LineInv, LineTypes, PrefixIsSound
  <2>2. CASE UNCHANGED lineVars
    BY <2>2 DEF lineVars, LineInv, LineTypes, PrefixIsSound
  <2> QED BY <2>1, <2>2, LinePassKeeps DEF LineNext
<1>2. LineInv => PrefixIsSound
  BY DEF LineInv
<1> QED BY <1>1, <1>2, LineInitHolds, PTL DEF LineSpec
-----------------------------------------------------------------------------
(***************************************************************************)
(* Quitting for any number of tabs.  The two properties need of the past only *)
(* that the shown index names a tab.                                       *)
(***************************************************************************)
USE DEF dialogVars

LEMMA NewTabType ==
    ASSUME NEW named \in BOOLEAN
    PROVE  NewTab(named) \in TabType /\ NewTab(named).dirty = FALSE
BY DEF NewTab, TabType

LEMMA OneTab ==
    ASSUME NEW t \in TabType
    PROVE  <<t>> \in Seq(TabType) /\ Len(<<t>>) = 1 /\ DOMAIN <<t>> = 1..1
OBVIOUS

LEMMA Positive == MaxTabs \in Nat /\ 1 \in 1..MaxTabs
BY BoundAssumption

\* A change of one tab changes no index.
LEMMA OneTabChanged ==
    ASSUME TypeOK, NEW i \in DOMAIN tabs, NEW t \in TabType, tabs' = [tabs EXCEPT ![i] = t]
    PROVE  /\ tabs' \in Seq(TabType) /\ Len(tabs') = Len(tabs)
           /\ tabs'[i] = t
BY DEF TypeOK

LEMMA DirtyType ==
    ASSUME TypeOK, NEW i \in DOMAIN tabs, NEW dirty \in BOOLEAN,
           tabs' = [tabs EXCEPT ![i].dirty = dirty]
    PROVE  /\ tabs' \in Seq(TabType) /\ Len(tabs') = Len(tabs)
           /\ tabs'[i].dirty = dirty
<1> DEFINE t == [tabs[i] EXCEPT !.dirty = dirty]
<1>1. tabs[i] \in TabType
  BY DEF TypeOK
<1>2. t \in TabType /\ t.dirty = dirty
  BY <1>1 DEF TabType
<1>3. tabs' = [tabs EXCEPT ![i] = t]
  OBVIOUS
<1> HIDE DEF t
<1> QED BY <1>2, <1>3, OneTabChanged

LEMMA NamedType ==
    ASSUME TypeOK, NEW i \in DOMAIN tabs, tabs' = [tabs EXCEPT ![i].named = TRUE]
    PROVE  tabs' \in Seq(TabType) /\ Len(tabs') = Len(tabs)
<1> DEFINE t == [tabs[i] EXCEPT !.named = TRUE]
<1>1. tabs[i] \in TabType
  BY DEF TypeOK
<1>2. t \in TabType
  BY <1>1 DEF TabType
<1>3. tabs' = [tabs EXCEPT ![i] = t]
  OBVIOUS
<1> HIDE DEF t
<1> QED BY <1>2, <1>3, OneTabChanged

LEMMA WrittenType ==
    ASSUME TypeOK, Written
    PROVE  tabs' \in Seq(TabType) /\ Len(tabs') = Len(tabs)
BY DirtyType DEF Written, TypeOK

LEMMA RemovedType ==
    ASSUME TypeOK, NEW i \in DOMAIN tabs, Len(tabs) # 1
    PROVE  RemoveAt(tabs, i) \in Seq(TabType) /\ Len(RemoveAt(tabs, i)) = Len(tabs) - 1
<1> DEFINE s == SubSeq(tabs, 1, i - 1)
           t == SubSeq(tabs, i + 1, Len(tabs))
<1>1. tabs \in Seq(TabType) /\ Len(tabs) \in Nat /\ i \in 1..Len(tabs)
  BY DEF TypeOK
<1>2. s \in Seq(TabType) /\ Len(s) = i - 1
  <2>1. \A k \in 1..i - 1 : k \in 1..Len(tabs)
    BY <1>1
  <2> QED BY <1>1, <2>1, SubSeqProperties
<1>3. t \in Seq(TabType) /\ Len(t) = Len(tabs) - i
  <2>1. \A k \in i + 1..Len(tabs) : k \in 1..Len(tabs)
    BY <1>1
  <2> QED BY <1>1, <2>1, SubSeqProperties
<1> HIDE DEF s, t
<1>4. s \o t \in Seq(TabType) /\ Len(s \o t) = Len(s) + Len(t)
  BY <1>2, <1>3
<1>5. RemoveAt(tabs, i) = s \o t
  BY DEF RemoveAt, s, t
<1>6. RemoveAt(tabs, i) \in Seq(TabType) /\ Len(RemoveAt(tabs, i)) = Len(s) + Len(t)
  BY ONLY <1>4, <1>5
<1>7. i \in Int /\ Len(tabs) \in Int
  BY <1>1
<1>8. Len(s) + Len(t) = Len(tabs) - 1
  BY ONLY <1>2, <1>3, <1>7
<1> QED BY ONLY <1>6, <1>8

LEMMA CloseType ==
    ASSUME TypeOK, NEW i \in DOMAIN tabs, CloseTabAt(i)
    PROVE  /\ tabs' \in Seq(TabType) /\ Len(tabs') \in 1..MaxTabs /\ shown' \in DOMAIN tabs'
           /\ quitConfirm' \in BOOLEAN /\ running' \in BOOLEAN
<1>1. CASE Len(tabs) = 1
  BY <1>1 DEF CloseTabAt, RequestQuit, TypeOK
<1>2. CASE Len(tabs) # 1
  BY <1>2, RemovedType, BoundAssumption DEF CloseTabAt, TypeOK
<1> QED BY <1>1, <1>2

LEMMA InitType == Init => TypeOK
<1> SUFFICES ASSUME Init PROVE TypeOK
  OBVIOUS
<1>1. PICK named \in BOOLEAN : tabs = <<NewTab(named)>>
  BY DEF Init
<1>2. tabs \in Seq(TabType) /\ Len(tabs) = 1 /\ DOMAIN tabs = 1..1
  BY <1>1, NewTabType, OneTab
<1>3. /\ shown = 1
      /\ quitConfirm = FALSE /\ quitTab = FALSE /\ pendingQuit = FALSE
      /\ promptSave = FALSE /\ running = TRUE /\ discarded = FALSE
  BY DEF Init
<1>4. Len(tabs) \in 1..MaxTabs /\ shown \in DOMAIN tabs
  BY <1>2, <1>3, Positive
<1> QED BY <1>2, <1>3, <1>4 DEF TypeOK

LEMMA NextType == TypeOK /\ [Next]_vars => TypeOK'
<1> SUFFICES ASSUME TypeOK, [Next]_vars PROVE TypeOK'
  OBVIOUS
<1>0. discarded' \in BOOLEAN
  BY DEF Next, ConfirmNo, vars, TypeOK
<1> USE <1>0 DEF TypeOK
<1>1. CASE Focus
  BY <1>1 DEF Focus
<1>2. CASE OpenPath
  <2>1. tabs' \in Seq(TabType) /\ Len(tabs') = Len(tabs) + 1
    <3>1. NewTab(TRUE) \in TabType
      BY NewTabType
    <3> QED BY <1>2, <3>1, AppendProperties DEF OpenPath
  <2>2. Len(tabs') \in 1..MaxTabs /\ shown' \in DOMAIN tabs'
    BY <1>2, <2>1, Positive DEF OpenPath
  <2> QED BY <1>2, <2>1, <2>2 DEF OpenPath
<1>3. CASE Edit
  <2>1. PICK i \in DOMAIN tabs, dirty \in BOOLEAN : tabs' = [tabs EXCEPT ![i].dirty = dirty]
    BY <1>3 DEF Edit
  <2>2. tabs' \in Seq(TabType) /\ Len(tabs') = Len(tabs)
    BY <2>1, DirtyType
  <2> QED BY <1>3, <2>2 DEF Edit
<1>4. CASE SaveActive
  BY <1>4, WrittenType DEF SaveActive
<1>5. CASE Quit
  BY <1>5 DEF Quit, RequestQuit
<1>6. CASE MiddleClick
  BY <1>6, CloseType DEF MiddleClick
<1>7. CASE CloseActiveTab
  <2>1. CASE Cur.dirty
    BY <1>7, <2>1 DEF CloseActiveTab
  <2>2. CASE ~Cur.dirty
    BY <1>7, <2>2, CloseType DEF CloseActiveTab
  <2> QED BY <2>1, <2>2
<1>8. CASE DropTabsUnder
  <2>1. tabs' \in Seq(TabType) /\ Len(tabs') \in 1..MaxTabs
    <3>1. CASE tabs' = <<NewTab(FALSE)>>
      <4>1. NewTab(FALSE) \in TabType
        BY NewTabType
      <4> QED BY <3>1, <4>1, OneTab, Positive
    <3>2. ASSUME NEW n \in 1..Len(tabs) - 1, NEW remain \in [1..n -> DOMAIN tabs],
                 tabs' = [k \in 1..n |-> tabs[remain[k]]]
          PROVE  tabs' \in Seq(TabType) /\ Len(tabs') = n
      <4>1. \A k \in 1..n : tabs[remain[k]] \in TabType
        OBVIOUS
      <4> QED BY <3>2, <4>1
    <3>3. CASE tabs' # <<NewTab(FALSE)>>
      <4>1. PICK n \in 1..Len(tabs) - 1 : \E remain \in [1..n -> DOMAIN tabs] :
                   tabs' = [k \in 1..n |-> tabs[remain[k]]]
        BY <1>8, <3>3 DEF DropTabsUnder
      <4>2. tabs' \in Seq(TabType) /\ Len(tabs') = n
        BY <3>2, <4>1
      <4> QED BY <4>1, <4>2, Positive
    <3> QED BY <3>1, <3>3
  <2> QED BY <1>8, <2>1 DEF DropTabsUnder
<1>9. CASE StartSavePrompt
  BY <1>9 DEF StartSavePrompt
<1>10. CASE SavePromptEsc
  BY <1>10 DEF SavePromptEsc
<1>11. CASE SavePromptEnter
  <2>1. tabs' \in Seq(TabType) /\ Len(tabs') = Len(tabs)
    BY <1>11, NamedType, OneTabChanged, NewTabType DEF SavePromptEnter
  <2>2. pendingQuit' \in BOOLEAN /\ running' \in BOOLEAN
    BY <1>11 DEF SavePromptEnter
  <2> QED BY <1>11, <2>1, <2>2 DEF SavePromptEnter
<1>12. CASE ConfirmEsc
  BY <1>12 DEF ConfirmEsc, Settled
<1>13. CASE ConfirmYes
  <2>1. CASE ~Cur.named
    BY <1>13, <2>1 DEF ConfirmYes
  <2>2. CASE Cur.named
    <3>1. tabs' \in Seq(TabType) /\ Len(tabs') = Len(tabs)
      BY <1>13, <2>2, WrittenType DEF ConfirmYes
    <3>2. running' \in BOOLEAN
      <4>1. tabs'[shown] \in TabType /\ running' = tabs'[shown].dirty
        BY <1>13, <2>2, <3>1 DEF ConfirmYes
      <4> QED BY <4>1 DEF TabType
    <3>3. /\ shown' = shown /\ promptSave' = promptSave
          /\ quitConfirm' = FALSE /\ pendingQuit' = FALSE /\ quitTab' = FALSE
      BY <1>13, <2>2 DEF ConfirmYes, Settled
    <3>4. Len(tabs') \in 1..MaxTabs /\ shown' \in DOMAIN tabs'
      BY <3>1, <3>3
    <3> QED BY <3>1, <3>2, <3>3, <3>4
  <2> QED BY <2>1, <2>2
<1>14. CASE ConfirmNo
  BY <1>14 DEF ConfirmNo, Settled
<1>15. CASE UNCHANGED vars
  BY <1>15 DEF vars
<1> QED
  BY <1>1, <1>2, <1>3, <1>4, <1>5, <1>6, <1>7, <1>8, <1>9, <1>10, <1>11, <1>12, <1>13,
     <1>14, <1>15 DEF Next, Editing, Closing, Prompting, Answering

\* The tab on screen always is a tab, however tabs are opened, closed and deleted.
THEOREM TypeCorrect == Spec => []TypeOK
BY InitType, NextType, PTL DEF Spec
-----------------------------------------------------------------------------
(* Quitting.  The steps that can end the program are few.                  *)

LEMMA Ends ==
    ASSUME Next, ~running'
    PROVE  \/ RequestQuit /\ ~HasDirty /\ UNCHANGED <<tabs, shown>>
           \/ SavePromptEnter /\ pendingQuit /\ tabs' = [tabs EXCEPT ![shown] = NewTab(TRUE)]
           \/ ConfirmYes /\ Cur.named
           \/ ConfirmNo
<1>1. running
  BY DEF Next
<1>2. CASE Editing \/ StartSavePrompt \/ SavePromptEsc \/ ConfirmEsc \/ DropTabsUnder
  BY <1>1, <1>2
  DEF Editing, Focus, OpenPath, Edit, SaveActive, StartSavePrompt, SavePromptEsc,
      ConfirmEsc, DropTabsUnder
<1>3. CASE Quit
  BY <1>1, <1>3 DEF Quit, RequestQuit
<1>4. CASE MiddleClick \/ CloseActiveTab
  BY <1>1, <1>4 DEF MiddleClick, CloseActiveTab, CloseTabAt, RequestQuit
<1>5. CASE SavePromptEnter
  BY <1>1, <1>5 DEF SavePromptEnter
<1>6. CASE ConfirmYes
  BY <1>1, <1>6 DEF ConfirmYes
<1> QED
  BY <1>2, <1>3, <1>4, <1>5, <1>6 DEF Next, Closing, Prompting, Answering

\* Unsaved text is never lost to one key: the program ends over it by a dialog only,
\* with any number of tabs.
THEOREM QuitNeedsAnAnswerCorrect == Spec => QuitNeedsAnAnswer
<1>1. [Next]_vars => [~running' /\ HasDirty => Asked \/ (promptSave /\ pendingQuit)]_vars
  BY Ends DEF ConfirmYes, ConfirmNo, SavePromptEnter
<1> QED BY <1>1, PTL DEF Spec, QuitNeedsAnAnswer

\* Nobody but the user who answers "n" ends the program over the unsaved text on
\* screen, whichever writes fail.
THEOREM QuitKeepsTheShownTabCorrect == Spec => []QuitKeepsTheShownTab
<1>1. ASSUME TypeOK, Next, ~running', Cur'.dirty PROVE discarded'
  <2>1. shown \in DOMAIN tabs
    BY <1>1 DEF TypeOK
  <2>2. CASE ~HasDirty /\ UNCHANGED <<tabs, shown>>
    BY <1>1, <2>1, <2>2 DEF HasDirty, Cur
  <2>3. CASE SavePromptEnter /\ tabs' = [tabs EXCEPT ![shown] = NewTab(TRUE)]
    <3>1. tabs'[shown] = NewTab(TRUE) /\ shown' = shown
      BY <1>1, <2>1, <2>3, OneTabChanged, NewTabType DEF SavePromptEnter
    <3> QED BY <1>1, <3>1, NewTabType DEF Cur
  <2>4. CASE ConfirmYes /\ Cur.named
    BY <1>1, <2>4 DEF ConfirmYes, Cur
  <2>5. CASE ConfirmNo
    BY <2>5 DEF ConfirmNo
  <2> QED BY <1>1, <2>2, <2>3, <2>4, <2>5, Ends
<1>2. Init => QuitKeepsTheShownTab
  BY DEF Init, QuitKeepsTheShownTab, ShownTextIsLost
<1>3. TypeOK /\ QuitKeepsTheShownTab /\ [Next]_vars => QuitKeepsTheShownTab'
  <2> SUFFICES ASSUME TypeOK, QuitKeepsTheShownTab, [Next]_vars PROVE QuitKeepsTheShownTab'
    OBVIOUS
  <2>1. CASE Next
    BY <1>1, <2>1 DEF QuitKeepsTheShownTab, ShownTextIsLost
  <2>2. CASE UNCHANGED vars
    BY <2>2 DEF vars, QuitKeepsTheShownTab, ShownTextIsLost, Cur
  <2> QED BY <2>1, <2>2
<1> QED BY <1>2, <1>3, TypeCorrect, PTL DEF Spec

\* For any number of tabs, unsaved text is left only by an answer, and the text on
\* screen only by "n".
THEOREM QuitIsAnsweredCorrect == Spec => QuitIsAnswered
<1>1. QuitKeepsTheShownTab <=> (ShownTextIsLost => discarded)
  BY DEF QuitKeepsTheShownTab
<1>2. Spec => [](ShownTextIsLost => discarded)
  BY <1>1, QuitKeepsTheShownTabCorrect, PTL
<1> QED BY <1>2, QuitNeedsAnAnswerCorrect DEF QuitIsAnswered

(***************************************************************************)
(* GitPanel.  What a list's offset is after a move, and that what was      *)
(* selected is a row of what was read last.                                *)
(***************************************************************************)
GpType == [open : BOOLEAN, focus : BOOLEAN, mode : {"status", "log", "branch", "commit"},
           diffFocus : BOOLEAN, sel : [GpLists -> Counts], off : [GpLists -> 0..(2 * MaxGpRows)]]

GpInv ==
    /\ gp \in GpType /\ gpList \in [GpLists -> Counts] /\ gpReal \in Counts \cup {NoRepo}
    /\ gpDiff \in {"none", "file", "commit"} /\ gpHeight \in GpHeights
    /\ GitSelectionsExist
    /\ gp.open /\ gp.diffFocus => gp.mode \in {"status", "log"} /\ gpDiff # "none"

Tall(l) == IF l = "log" THEN 2 ELSE 1

\* The window of height h at off shows the rows of entry s.
Shows(l, s, off, h) ==
    /\ off <= Tall(l) * s + Tall(l) - 1
    /\ h >= Tall(l) => off <= Tall(l) * s /\ Tall(l) * s + Tall(l) <= off + h

LEMMA ClampGitIs ==
    ASSUME GpInv, NEW l \in GpLists, NEW s \in Counts, NEW off \in 0..(2 * MaxGpRows), NEW n \in Counts
    PROVE  /\ ClampGit(l, s, off, n) \in 0..(2 * MaxGpRows)
           /\ l \in {"files", "log"} /\ s < n => Shows(l, s, ClampGit(l, s, off, n), gpHeight)
<1>1. gpHeight \in Nat \ {0} /\ MaxGpRows \in Nat
  BY GpAssumption DEF GpInv
<1>2. s \in Nat /\ n \in Nat /\ s <= MaxGpRows /\ n <= MaxGpRows /\ off \in Nat
  BY <1>1 DEF Counts
<1>3. CASE l = "files"
  <2>1. ClampGit(l, s, off, n) = FollowGp(s, 1, n, Smaller(n, gpHeight), off)
    BY <1>3 DEF ClampGit
  <2> QED BY <1>1, <1>2, <1>3, <2>1 DEF FollowGp, Smaller, Larger, Shows, Tall
<1>4. CASE l = "log"
  <2>1. ClampGit(l, s, off, n) = FollowGp(2 * s, 2, 2 * n, Smaller(2 * n, gpHeight), off)
    BY <1>4 DEF ClampGit
  <2> QED BY <1>1, <1>2, <1>4, <2>1 DEF FollowGp, Smaller, Larger, Shows, Tall
<1>5. CASE l = "branches"
  <2>1. ClampGit(l, s, off, n) = FollowGp(s, 1, n, Smaller(Larger(n, 1), gpHeight), off)
    BY <1>5 DEF ClampGit
  <2> QED BY <1>1, <1>2, <1>5, <2>1 DEF FollowGp, Smaller, Larger
<1> QED BY <1>3, <1>4, <1>5 DEF GpLists

\* The panel p is q but for the selection and the offset of list l, which is of n rows.
Chosen(p, q, l, n) ==
    /\ p \in GpType /\ \A f \in {"open", "focus", "mode", "diffFocus"} : p[f] = q[f]
    /\ \A k \in GpLists \ {l} : p.sel[k] = q.sel[k] /\ p.off[k] = q.off[k]
    /\ l \in {"files", "log"} /\ n > 0 /\ p.sel[l] < n => Shows(l, p.sel[l], p.off[l], gpHeight)

LEMMA SelectChooses ==
    ASSUME GpInv, NEW q \in GpType, NEW l \in GpLists, NEW s \in Counts, NEW n \in Counts
    PROVE  Chosen(Select(q, l, s, n), q, l, n) /\ Select(q, l, s, n).sel[l] = s
<1>1. q.off[l] \in 0..(2 * MaxGpRows)
  BY DEF GpType
<1>2. PICK o : o = ClampGit(l, s, q.off[l], n)
  OBVIOUS
<1>3. o \in 0..(2 * MaxGpRows) /\ (l \in {"files", "log"} /\ s < n => Shows(l, s, o, gpHeight))
  BY <1>1, <1>2, ClampGitIs
<1>4. Select(q, l, s, n) = [q EXCEPT !.sel[l] = s, !.off[l] = o]
  BY <1>2 DEF Select
<1>5. PICK p : p = Select(q, l, s, n)
  OBVIOUS
<1>6. p = [q EXCEPT !.sel = [q.sel EXCEPT ![l] = s], !.off = [q.off EXCEPT ![l] = o]]
  BY <1>4, <1>5
<1>7. q.sel \in [GpLists -> Counts] /\ q.off \in [GpLists -> 0..(2 * MaxGpRows)]
  BY DEF GpType
<1>8. /\ [q.sel EXCEPT ![l] = s] \in [GpLists -> Counts]
      /\ [q.off EXCEPT ![l] = o] \in [GpLists -> 0..(2 * MaxGpRows)]
  BY <1>3, <1>7
<1>9. /\ p \in GpType /\ \A f \in {"open", "focus", "mode", "diffFocus"} : p[f] = q[f]
      /\ p.sel = [q.sel EXCEPT ![l] = s] /\ p.off = [q.off EXCEPT ![l] = o]
  BY <1>6, <1>8 DEF GpType
<1>10. /\ p.sel[l] = s /\ p.off[l] = o
       /\ \A k \in GpLists \ {l} : p.sel[k] = q.sel[k] /\ p.off[k] = q.off[k]
  BY <1>7, <1>9
<1>11. Chosen(p, q, l, n)
  BY <1>3, <1>9, <1>10 DEF Chosen
<1> QED BY <1>5, <1>10, <1>11

LEMMA RefreshChooses ==
    ASSUME GpInv, NEW q \in GpType, NEW l \in GpLists
    PROVE  /\ Chosen(Refreshed(q, l), q, l, Rows)
           /\ l # "branches" /\ Rows > 0 => Refreshed(q, l).sel[l] < Rows
           /\ Rows \in Counts
<1>1. MaxGpRows \in Nat
  BY GpAssumption
<1>2. CASE gpReal = NoRepo
  BY <1>1, <1>2 DEF Refreshed, Rows, Larger, NoRepo, Chosen, Counts
<1>3. CASE gpReal # NoRepo
  <2>1. gpReal \in Counts /\ Rows = gpReal
    BY <1>1, <1>3 DEF GpInv, Rows, Larger, Counts
  <2>2. q.sel[l] \in Counts
    BY DEF GpType
  <2>3. PICK s : s = IF l # "branches" /\ q.sel[l] >= gpReal THEN Larger(0, gpReal - 1) ELSE q.sel[l]
    OBVIOUS
  <2>4. s \in Counts /\ (l # "branches" /\ Rows > 0 => s < Rows)
    BY <1>1, <2>1, <2>2, <2>3 DEF Counts, Larger
  <2>5. Refreshed(q, l) = Select(q, l, s, Rows)
    BY <1>3, <2>1, <2>3 DEF Refreshed
  <2> QED BY <2>1, <2>4, <2>5, SelectChooses
<1> QED BY <1>2, <1>3

\* What a step may do to the lists: none changed, or one chosen anew.
MovesShown ==
    \A l \in {"files", "log"} : gp.sel[l] # gp'.sel[l] /\ gpList'[l] > 0 => Shows(l, gp'.sel[l], gp'.off[l], gpHeight)

LEMMA ShownIsShown ==
    MovesShown => \A l \in {"files", "log"} :
           gp.sel[l] # gp'.sel[l] /\ gpList'[l] > 0 =>
               LET tall == IF l = "log" THEN 2 ELSE 1
               IN /\ gp'.off[l] <= tall * gp'.sel[l] + tall - 1
                  /\ gpHeight >= tall => /\ gp'.off[l] <= tall * gp'.sel[l]
                                         /\ tall * gp'.sel[l] + tall <= gp'.off[l] + gpHeight
BY DEF MovesShown, Shows, Tall

\* A list read again, the panel having become q.
LEMMA Reread ==
    ASSUME GpInv, NEW q \in GpType, NEW l \in GpLists, gp' = Refreshed(q, l), gpList' = Renewed(l),
           UNCHANGED <<gpReal, gpHeight>>,
           \A k \in {"files", "log"} \ {l} : q.sel[k] = gp.sel[k]
    PROVE  /\ gp' \in GpType /\ gpList' \in [GpLists -> Counts] /\ GitSelectionsExist' /\ MovesShown
           /\ \A f \in {"open", "focus", "mode", "diffFocus"} : gp'[f] = q[f]
           /\ gpReal' \in Counts \cup {NoRepo} /\ gpHeight' \in GpHeights
<1>1. /\ Chosen(gp', q, l, Rows) /\ (l # "branches" /\ Rows > 0 => gp'.sel[l] < Rows) /\ Rows \in Counts
  BY RefreshChooses
<1>2. gpList' \in [GpLists -> Counts] /\ gpList'[l] = Rows /\ \A k \in GpLists \ {l} : gpList'[k] = gpList[k]
  BY <1>1 DEF GpInv, Renewed
<1>3. \A k \in {"files", "log"} \ {l} : gp'.sel[k] = gp.sel[k]
  BY <1>1 DEF Chosen, GpLists
<1>4. GitSelectionsExist'
  BY <1>1, <1>2, <1>3 DEF GpInv, GitSelectionsExist, GpLists
<1>5. MovesShown
  BY <1>1, <1>2, <1>3 DEF MovesShown, Chosen, GpLists
<1> QED BY <1>1, <1>2, <1>4, <1>5 DEF Chosen, GpInv

\* A row selected in a list as it is.
LEMMA Chose ==
    ASSUME GpInv, NEW q \in GpType, NEW l \in GpLists, NEW s \in 0..(gpList[l] - 1),
           gp' = Select(q, l, s, gpList[l]), UNCHANGED <<gpList, gpReal, gpHeight>>,
           \A k \in GpLists : q.sel[k] = gp.sel[k]
    PROVE  /\ gp' \in GpType /\ GitSelectionsExist' /\ MovesShown
           /\ \A f \in {"open", "focus", "mode", "diffFocus"} : gp'[f] = q[f]
<1>1. gpList[l] \in Counts /\ s \in Counts /\ s < gpList[l]
  BY GpAssumption DEF GpInv, Counts
<1>2. Chosen(gp', q, l, gpList[l]) /\ gp'.sel[l] = s
  BY <1>1, SelectChooses
<1>3. \A k \in GpLists \ {l} : gp'.sel[k] = gp.sel[k]
  BY <1>2 DEF Chosen
<1>4. GitSelectionsExist'
  BY <1>1, <1>2, <1>3 DEF GpInv, GitSelectionsExist, GpLists
<1>5. MovesShown
  BY <1>1, <1>2, <1>3 DEF MovesShown, Chosen, GpLists
<1> QED BY <1>2, <1>4, <1>5 DEF Chosen

\* Steps that select nothing.
LEMMA Stood ==
    ASSUME GpInv, UNCHANGED gpList, gp'.sel = gp.sel
    PROVE  GitSelectionsExist' /\ MovesShown
BY DEF GpInv, GitSelectionsExist, MovesShown

\* The rest of the invariant, the panel's own fields.
DiffFits(p, d) == p.open /\ p.diffFocus => p.mode \in {"status", "log"} /\ d # "none"

LEMMA GpStep ==
    ASSUME GpInv, GpNext
    PROVE  GpInv' /\ MovesShown
<1> USE GpAssumption
<1>0. /\ gp \in GpType /\ gpList \in [GpLists -> Counts] /\ gpReal \in Counts \cup {NoRepo}
      /\ gpDiff \in {"none", "file", "commit"} /\ gpHeight \in GpHeights /\ GitSelectionsExist
      /\ DiffFits(gp, gpDiff)
  BY DEF GpInv, DiffFits
<1>1. /\ gp.open \in BOOLEAN /\ gp.focus \in BOOLEAN /\ gp.diffFocus \in BOOLEAN
      /\ gp.mode \in {"status", "log", "branch", "commit"}
  BY <1>0 DEF GpType
<1> DEFINE Types == /\ gp' \in GpType /\ gpList' \in [GpLists -> Counts]
                    /\ gpReal' \in Counts \cup {NoRepo} /\ gpHeight' \in GpHeights
           Diff  == gpDiff' \in {"none", "file", "commit"} /\ DiffFits(gp', gpDiff')
<1>2. Types /\ Diff /\ GitSelectionsExist' => GpInv'
  BY DEF GpInv, DiffFits
<1>3. \A kind \in {"file", "commit"} : \A p, n : Previewed(kind, p, n) \subseteq {"none", "file", "commit"}
  BY DEF Previewed
<1> HIDE DEF Types
<1> SUFFICES Types /\ Diff /\ GitSelectionsExist' /\ MovesShown
  BY <1>2
\* A list is read again; of the panel before that, q, only its own fields changed,
\* and the selection of the list.
<1>4. ASSUME NEW q \in GpType, NEW l \in GpLists, gp' = Refreshed(q, l), gpList' = Renewed(l),
             UNCHANGED <<gpReal, gpHeight>>, \A k \in {"files", "log"} \ {l} : q.sel[k] = gp.sel[k]
      PROVE  /\ Types /\ GitSelectionsExist' /\ MovesShown
             /\ \A f \in {"open", "focus", "mode", "diffFocus"} : gp'[f] = q[f]
  BY <1>4, Reread DEF Types
<1>5. CASE OpenGitPanel
  <2>1. PICK q : q = [gp EXCEPT !.open = TRUE, !.focus = TRUE, !.mode = "status", !.diffFocus = FALSE]
    OBVIOUS
  <2>2. q \in GpType /\ q.diffFocus = FALSE /\ q.sel = gp.sel
    BY <1>0, <2>1 DEF GpType
  <2>3. gp' = Refreshed(q, "files") /\ gpDiff' \in Previewed("file", gp', Rows)
        /\ gpList' = Renewed("files") /\ UNCHANGED <<gpReal, gpHeight>>
    BY <1>5, <2>1 DEF OpenGitPanel
  <2>4. "files" \in GpLists
    BY DEF GpLists
  <2>5. Types /\ GitSelectionsExist' /\ MovesShown /\ gp'.diffFocus = FALSE
    BY <1>4, <2>2, <2>3, <2>4
  <2> QED BY <1>3, <2>3, <2>5 DEF DiffFits
<1>6. CASE CloseGitPanel
  <2>1. /\ gp' \in GpType /\ gp'.open = FALSE /\ gp'.sel = gp.sel
        /\ UNCHANGED <<gpList, gpReal, gpDiff, gpHeight>>
    BY <1>0, <1>6 DEF CloseGitPanel, GpType
  <2> QED BY <1>0, <2>1, Stood DEF DiffFits, Types
<1>7. CASE LeaveGitPanel
  <2>1. /\ gp' \in GpType /\ gp'.sel = gp.sel /\ gp'.mode = gp.mode /\ gp'.open = gp.open
        /\ gp'.diffFocus => gp.diffFocus
        /\ UNCHANGED <<gpList, gpReal, gpDiff, gpHeight>>
    BY <1>0, <1>7 DEF LeaveGitPanel, GpType
  <2> QED BY <1>0, <2>1, Stood DEF DiffFits, Types
<1>8. CASE \E l \in GpLists : MoveGitSel(l)
  <2>1. PICK l \in GpLists : MoveGitSel(l)
    BY <1>8
  <2>2. PICK d \in {-1, 1} \cup IF l = "log" THEN {-gpHeight, gpHeight, -MaxGpRows, MaxGpRows} ELSE {} :
            Moved(l, Select([gp EXCEPT !.focus = TRUE], l, Larger(0, Smaller(gp.sel[l] + d, gpList[l] - 1)), gpList[l]))
    BY <2>1 DEF MoveGitSel
  <2>3. gpList[l] \in Nat /\ gpList[l] > 0 /\ gp.sel[l] \in Nat /\ d \in Int
    BY <1>0, <2>1 DEF MoveGitSel, GpType, Counts
  <2>4. PICK s : s = Larger(0, Smaller(gp.sel[l] + d, gpList[l] - 1))
    OBVIOUS
  <2>5. s \in 0..(gpList[l] - 1)
    BY <2>3, <2>4 DEF Larger, Smaller
  <2>6. PICK q : q = [gp EXCEPT !.focus = TRUE]
    OBVIOUS
  <2>7. q \in GpType /\ q.sel = gp.sel /\ q.diffFocus = gp.diffFocus
    BY <1>0, <2>6 DEF GpType
  <2>8. gp' = Select(q, l, s, gpList[l]) /\ UNCHANGED <<gpList, gpReal, gpHeight>>
    BY <2>2, <2>4, <2>6 DEF Moved
  <2>9. gpDiff' \in {"none", "file", "commit"}
    <3>1. CASE l = "branches"
      BY <1>0, <2>2, <3>1 DEF Moved
    <3>2. CASE l # "branches"
      <4>1. KindOf[l] \in {"file", "commit"}
        BY <3>2 DEF KindOf, GpLists
      <4> QED BY <1>3, <2>2, <3>2, <4>1 DEF Moved
    <3> QED BY <3>1, <3>2
  <2>10. gp' \in GpType /\ GitSelectionsExist' /\ MovesShown /\ gp'.diffFocus = gp.diffFocus
    BY <2>5, <2>7, <2>8, Chose
  <2>11. gp.diffFocus = FALSE
    BY <1>1, <2>1 DEF MoveGitSel
  <2> QED BY <1>0, <2>8, <2>9, <2>10, <2>11 DEF DiffFits, Types
<1>9. CASE \E y \in 0..MaxGpRows : ClickGitRow(y)
  <2>1. PICK y \in 0..MaxGpRows : ClickGitRow(y)
    BY <1>9
  <2>2. PICK l : l = ListOf[gp.mode]
    OBVIOUS
  <2>3. gp.open /\ gp.mode # "commit" /\ l \in GpLists /\ (l = "branches" => gp.mode = "branch")
    BY <1>1, <2>1, <2>2 DEF ClickGitRow, ListOf, GpLists
  <2>4. PICK s : s = gp.off[l] + IF l = "log" THEN y \div 2 ELSE y
    OBVIOUS
  <2>5. PICK q : q = [gp EXCEPT !.focus = TRUE, !.diffFocus = (l = "branches") /\ @]
    OBVIOUS
  <2>6. q \in GpType /\ q.sel = gp.sel /\ q.diffFocus = ((l = "branches") /\ gp.diffFocus)
    BY <1>0, <2>5 DEF GpType
  <2>7. q.diffFocus = FALSE
    BY <1>0, <1>1, <2>3, <2>6 DEF DiffFits
  <2>8. s \in Nat
    <3>1. gp.off[l] \in Nat
      BY <1>0, <2>3 DEF GpType
    <3>2. y \in Nat /\ y \div 2 \in Nat
      OBVIOUS
    <3> QED BY <2>4, <3>1, <3>2
  <2>9. IF s < gpList[l] THEN Moved(l, Select(q, l, s, gpList[l]))
        ELSE gp' = q /\ UNCHANGED <<gpList, gpReal, gpDiff, gpHeight>>
    BY <2>1, <2>2, <2>4, <2>5 DEF ClickGitRow
  <2>10. CASE s < gpList[l]
    <3>1. s \in 0..(gpList[l] - 1)
      BY <1>0, <2>3, <2>8, <2>10 DEF Counts
    <3>2. gp' = Select(q, l, s, gpList[l]) /\ UNCHANGED <<gpList, gpReal, gpHeight>>
      BY <2>9, <2>10 DEF Moved
    <3>3. gp' \in GpType /\ GitSelectionsExist' /\ MovesShown /\ gp'.diffFocus = FALSE
      BY <2>3, <2>6, <2>7, <3>1, <3>2, Chose
    <3>4. gpDiff' \in {"none", "file", "commit"}
      <4>1. CASE l = "branches"
        BY <1>0, <2>9, <2>10, <4>1 DEF Moved
      <4>2. CASE l # "branches"
        <5>1. KindOf[l] \in {"file", "commit"}
          BY <2>3, <4>2 DEF KindOf, GpLists
        <5> QED BY <1>3, <2>9, <2>10, <4>2, <5>1 DEF Moved
      <4> QED BY <4>1, <4>2
    <3> QED BY <1>0, <3>2, <3>3, <3>4 DEF DiffFits, Types
  <2>11. CASE ~(s < gpList[l])
    <3>1. gp' = q /\ UNCHANGED <<gpList, gpReal, gpDiff, gpHeight>>
      BY <2>9, <2>11
    <3> QED BY <1>0, <2>6, <2>7, <3>1, Stood DEF DiffFits, Types
  <2> QED BY <2>10, <2>11
<1>10. CASE FocusDiff
  <2>1. gp' = [gp EXCEPT !.diffFocus = TRUE] /\ UNCHANGED <<gpList, gpReal, gpDiff, gpHeight>>
        /\ gp.mode \in {"status", "log"} /\ gpDiff # "none"
    BY <1>10 DEF FocusDiff
  <2>2. gp' \in GpType /\ gp'.sel = gp.sel /\ gp'.mode = gp.mode
    BY <1>0, <2>1 DEF GpType
  <2> QED BY <1>0, <2>1, <2>2, Stood DEF DiffFits, Types
<1>11. CASE LeaveDiff \/ BackToStatus \/ CommitMode
  <2>1. gp' \in GpType /\ gp'.sel = gp.sel /\ UNCHANGED <<gpList, gpReal, gpDiff, gpHeight>>
    BY <1>0, <1>11 DEF LeaveDiff, BackToStatus, CommitMode, FocusKey, GpType
  <2>2. gp'.diffFocus = FALSE
    BY <1>0, <1>1, <1>11 DEF LeaveDiff, BackToStatus, CommitMode, FocusKey, GpType, DiffFits
  <2> QED BY <1>0, <2>1, <2>2, Stood DEF DiffFits, Types
<1>12. CASE RefreshStatus \/ RefreshLog
  <2>1. PICK l \in {"files", "log"} : gp' = Refreshed(gp, l) /\ gpList' = Renewed(l)
                                      /\ UNCHANGED <<gpReal, gpHeight>>
    BY <1>12 DEF RefreshStatus, RefreshLog
  <2>2. l \in GpLists
    BY DEF GpLists
  <2>3. Types /\ GitSelectionsExist' /\ MovesShown /\ gp'.diffFocus = gp.diffFocus
    BY <1>0, <1>4, <2>1, <2>2
  <2>4. gpDiff' \in {"none", "file", "commit"} /\ gp.diffFocus = FALSE
    BY <1>1, <1>3, <1>12 DEF RefreshStatus, RefreshLog, FocusKey
  <2> QED BY <2>3, <2>4 DEF DiffFits
<1>13. CASE OpenLogView
  <2>1. PICK q : q = [gp EXCEPT !.mode = "log", !.sel["log"] = 0, !.off["log"] = 0, !.diffFocus = FALSE]
    OBVIOUS
  <2>2. gp.sel \in [GpLists -> Counts] /\ gp.off \in [GpLists -> 0..(2 * MaxGpRows)]
    BY <1>0 DEF GpType
  <2>3. 0 \in Counts /\ 0 \in 0..(2 * MaxGpRows)
    BY DEF Counts
  <2>4. /\ [gp.sel EXCEPT !["log"] = 0] \in [GpLists -> Counts]
        /\ [gp.off EXCEPT !["log"] = 0] \in [GpLists -> 0..(2 * MaxGpRows)]
        /\ [gp.sel EXCEPT !["log"] = 0]["files"] = gp.sel["files"]
    BY <2>2, <2>3 DEF GpLists
  <2>5. q = [gp EXCEPT !.mode = "log", !.sel = [gp.sel EXCEPT !["log"] = 0],
                       !.off = [gp.off EXCEPT !["log"] = 0], !.diffFocus = FALSE]
    BY <1>0, <2>1 DEF GpType
  <2>6. q \in GpType /\ q.diffFocus = FALSE /\ q.sel["files"] = gp.sel["files"]
    BY <1>0, <2>4, <2>5 DEF GpType
  <2>7. gp' = Refreshed(q, "log") /\ gpDiff' \in Previewed("commit", gp', Rows)
        /\ gpList' = Renewed("log") /\ UNCHANGED <<gpReal, gpHeight>>
    BY <1>13, <2>1 DEF OpenLogView
  <2>8. "log" \in GpLists
    BY DEF GpLists
  <2>9. Types /\ GitSelectionsExist' /\ MovesShown /\ gp'.diffFocus = FALSE
    BY <1>4, <2>6, <2>7, <2>8
  <2> QED BY <1>3, <2>7, <2>9 DEF DiffFits
<1>14. CASE ShowBranches
  <2>1. PICK q : q = IF gp.mode = "branch" THEN gp
                     ELSE [gp EXCEPT !.mode = "branch", !.sel["branches"] = 0, !.off["branches"] = 0]
    OBVIOUS
  <2>2. gp.sel \in [GpLists -> Counts] /\ gp.off \in [GpLists -> 0..(2 * MaxGpRows)]
    BY <1>0 DEF GpType
  <2>3. 0 \in Counts /\ 0 \in 0..(2 * MaxGpRows)
    BY DEF Counts
  <2>4. /\ [gp.sel EXCEPT !["branches"] = 0] \in [GpLists -> Counts]
        /\ [gp.off EXCEPT !["branches"] = 0] \in [GpLists -> 0..(2 * MaxGpRows)]
        /\ \A k \in {"files", "log"} : [gp.sel EXCEPT !["branches"] = 0][k] = gp.sel[k]
    BY <2>2, <2>3 DEF GpLists
  <2>5. q = IF gp.mode = "branch" THEN gp
            ELSE [gp EXCEPT !.mode = "branch", !.sel = [gp.sel EXCEPT !["branches"] = 0],
                            !.off = [gp.off EXCEPT !["branches"] = 0]]
    BY <1>0, <2>1 DEF GpType
  <2>6. q \in GpType /\ q.diffFocus = gp.diffFocus /\ \A k \in {"files", "log"} : q.sel[k] = gp.sel[k]
    BY <1>0, <2>4, <2>5 DEF GpType
  <2>7. gp' = Refreshed(q, "branches") /\ gpList' = Renewed("branches")
        /\ UNCHANGED <<gpReal, gpDiff, gpHeight>>
    BY <1>14, <2>1 DEF ShowBranches
  <2>8. "branches" \in GpLists
    BY DEF GpLists
  <2>9. Types /\ GitSelectionsExist' /\ MovesShown /\ gp'.diffFocus = gp.diffFocus
    BY <1>4, <2>6, <2>7, <2>8
  <2>10. gp.diffFocus = FALSE
    BY <1>1, <1>14 DEF ShowBranches, FocusKey
  <2> QED BY <1>0, <2>7, <2>9, <2>10 DEF DiffFits
<1>15. CASE SwitchBranch
  <2>1. PICK q : q = [gp EXCEPT !.mode = "status"]
    OBVIOUS
  <2>2. q \in GpType /\ q.diffFocus = gp.diffFocus /\ q.sel = gp.sel
    BY <1>0, <2>1 DEF GpType
  <2>3. gp' = Refreshed(q, "files") /\ gpDiff' \in Previewed("file", gp', Rows)
        /\ gpList' = Renewed("files") /\ UNCHANGED <<gpReal, gpHeight>>
    BY <1>15, <2>1 DEF SwitchBranch
  <2>4. "files" \in GpLists
    BY DEF GpLists
  <2>5. Types /\ GitSelectionsExist' /\ MovesShown /\ gp'.diffFocus = gp.diffFocus
    BY <1>4, <2>2, <2>3, <2>4
  <2>6. gp.diffFocus = FALSE
    BY <1>0, <1>1, <1>15 DEF SwitchBranch, DiffFits
  <2> QED BY <1>3, <2>3, <2>5, <2>6 DEF DiffFits
<1>16. CASE CommitGit
  <2>1. PICK q : q = [gp EXCEPT !.mode = "status", !.open = FALSE, !.focus = FALSE]
    OBVIOUS
  <2>2. q \in GpType /\ q.open = FALSE /\ q.sel = gp.sel
    BY <1>0, <2>1 DEF GpType
  <2>3. gp' = Refreshed(q, "files") /\ gpList' = Renewed("files") /\ UNCHANGED <<gpReal, gpDiff, gpHeight>>
    BY <1>16, <2>1 DEF CommitGit
  <2>4. "files" \in GpLists
    BY DEF GpLists
  <2>5. Types /\ GitSelectionsExist' /\ MovesShown /\ gp'.open = FALSE
    BY <1>4, <2>2, <2>3, <2>4
  <2> QED BY <1>0, <2>3, <2>5 DEF DiffFits
<1>17. CASE RefreshBehind
  <2>1. gp' = Refreshed(gp, "files") /\ gpList' = Renewed("files") /\ UNCHANGED <<gpReal, gpDiff, gpHeight>>
    BY <1>17 DEF RefreshBehind
  <2>2. "files" \in GpLists
    BY DEF GpLists
  <2>3. Types /\ GitSelectionsExist' /\ MovesShown /\ gp'.open = gp.open /\ gp'.mode = gp.mode
        /\ gp'.diffFocus = gp.diffFocus
    BY <1>0, <1>4, <2>1, <2>2
  <2> QED BY <1>0, <2>1, <2>3 DEF DiffFits
<1>18. CASE RepoChanges \/ ResizeGp
  BY <1>0, <1>18, Stood DEF RepoChanges, ResizeGp, DiffFits, Types
<1> QED BY <1>5, <1>6, <1>7, <1>8, <1>9, <1>10, <1>11, <1>12, <1>13, <1>14, <1>15, <1>16, <1>17, <1>18
        DEF GpNext

LEMMA GpInvHolds == GpSpec => []GpInv
<1>1. GpInit => GpInv
  <2> SUFFICES ASSUME GpInit PROVE GpInv
    OBVIOUS
  <2>1. 0 \in Counts /\ 0 \in 0..(2 * MaxGpRows) /\ 1 \in Counts
    BY GpAssumption DEF Counts
  <2> QED BY <2>1, GpAssumption DEF GpInit, GpInv, GpType, GitSelectionsExist, GpLists
<1>2. GpInv /\ [GpNext]_gpVars => GpInv'
  <2> SUFFICES ASSUME GpInv, [GpNext]_gpVars PROVE GpInv'
    OBVIOUS
  <2>1. CASE UNCHANGED gpVars
    BY <2>1 DEF gpVars, GpInv, GitSelectionsExist
  <2> QED BY <2>1, GpStep
<1> QED BY <1>1, <1>2, PTL DEF GpSpec

\* The git panel's types, that the selected file and commit are rows of their
\* lists, and that the diff is scrolled only while one is shown (git_panel.go).
THEOREM GpSelectionsCorrect == GpSpec => [](GpTypeOK /\ GitSelectionsExist /\ FocusedDiffIsShown)
<1>1. GpInv => GpTypeOK /\ GitSelectionsExist /\ FocusedDiffIsShown
  BY DEF GpInv, GpTypeOK, GpType, FocusedDiffIsShown
<1> QED BY <1>1, GpInvHolds, PTL

\* A move of the selection of the files or of the commits leaves it on screen
\* (clampGitScroll, clampGitLogScroll).
THEOREM GpMovesCorrect == GpSpec => MovedSelectionIsShown
<1> DEFINE MoveIsShown ==
      \A l \in {"files", "log"} :
           gp.sel[l] # gp'.sel[l] /\ gpList'[l] > 0 =>
               LET tall == IF l = "log" THEN 2 ELSE 1
               IN /\ gp'.off[l] <= tall * gp'.sel[l] + tall - 1
                  /\ gpHeight >= tall => /\ gp'.off[l] <= tall * gp'.sel[l]
                                         /\ tall * gp'.sel[l] + tall <= gp'.off[l] + gpHeight
<1>1. GpInv /\ [GpNext]_gpVars => [MoveIsShown]_gpVars
  BY GpStep, ShownIsShown
<1> QED BY <1>1, GpInvHolds, PTL DEF GpSpec, MovedSelectionIsShown

(***************************************************************************)
(* Popups.  The window follows the selection.                              *)
(***************************************************************************)
PopupType == [kind : PopupKinds \cup {"none"}, rows : 0..MaxRows, sel : 0..MaxRows, off : 0..MaxRows]

\* A popup in which what is selected can be seen; without rows it is at the top,
\* and help has nothing selected.
PopupFits(p) ==
    /\ p \in PopupType
    /\ p.rows = 0 => p.sel = 0 /\ p.off = 0
    /\ p.kind = "help" => p.sel = 0
    /\ p.rows > 0 =>
          /\ p.kind # "help" => p.off <= p.sel
          /\ p.sel < p.rows /\ p.sel < p.off + VisibleRows
          /\ p.kind # "completion" /\ p.rows > VisibleRows => p.off + VisibleRows <= p.rows

LEMMA FitsShown == PopupFits(popup) => SelectionShown
BY DEF PopupFits, SelectionShown

LEMMA FreshFits ==
    ASSUME NEW kind \in PopupKinds, NEW rows \in 0..MaxRows
    PROVE  PopupFits([kind |-> kind, rows |-> rows, sel |-> 0, off |-> 0])
BY PopupBoundsAssumption DEF PopupFits, PopupType

LEMMA NoPopupFits == PopupFits(NoPopup)
BY PopupBoundsAssumption DEF PopupFits, PopupType, NoPopup

\* Another row selected, the window moved after it.
LEMMA ClampedFits ==
    ASSUME NEW p, PopupFits(p), p.kind \in PopupKinds \ {"help"}, NEW s \in 0..(p.rows - 1)
    PROVE  PopupFits(Clamped([p EXCEPT !.sel = s]))
<1> USE PopupBoundsAssumption
<1>1. p \in PopupType /\ p.rows \in Nat /\ p.rows <= MaxRows /\ p.rows > 0 /\ p.off \in Nat /\ s \in Nat /\ s < p.rows
  BY DEF PopupFits, PopupType
<1>2. PICK q : q = [p EXCEPT !.sel = s]
  OBVIOUS
<1>3. q \in PopupType /\ q.kind = p.kind /\ q.rows = p.rows /\ q.sel = s /\ q.off = p.off
  BY <1>1, <1>2 DEF PopupType
<1>4. PICK o : o = CASE q.kind = "completion" -> ClampCompletion(q)
                     [] q.kind = "palette"    -> ClampPalette(q)
                     [] OTHER                 -> ClampPanel(q)
  OBVIOUS
<1>5. o \in Nat /\ o <= s /\ s < o + VisibleRows
      /\ (q.kind # "completion" /\ q.rows > VisibleRows => o + VisibleRows <= q.rows)
  <2>1. CASE q.kind = "completion"
    <3>1. o = Follow(s, p.off)
      BY <1>3, <1>4, <2>1 DEF ClampCompletion
    <3> QED BY <1>1, <2>1, <3>1 DEF Follow
  <2>2. CASE q.kind = "palette"
    <3>1. o = ClampPalette(q)
      BY <1>4, <2>2
    <3>2. o = IF p.rows <= VisibleRows THEN 0
              ELSE IF s > p.rows - VisibleRows THEN p.rows - VisibleRows ELSE Follow(s, p.off)
      BY <1>3, <3>1 DEF ClampPalette
    <3> QED BY <1>1, <1>3, <3>2 DEF Follow
  <2>3. CASE q.kind \notin {"completion", "palette"}
    <3>1. o = ClampPanel(q)
      BY <1>4, <2>3
    <3>2. PICK f : f = Follow(s, p.off)
      OBVIOUS
    <3>3. o = IF p.rows <= VisibleRows THEN 0
              ELSE IF f > p.rows - VisibleRows THEN p.rows - VisibleRows ELSE f
      BY <1>3, <3>1, <3>2 DEF ClampPanel
    <3> QED BY <1>1, <1>3, <3>2, <3>3 DEF Follow
  <2> QED BY <2>1, <2>2, <2>3
<1>6. Clamped(q) = [q EXCEPT !.off = o]
  BY <1>4 DEF Clamped
<1>7. PICK r : r = [q EXCEPT !.off = o]
  OBVIOUS
<1>8. o \in 0..MaxRows
  BY <1>1, <1>5
<1>9. r \in PopupType /\ r.kind = q.kind /\ r.rows = q.rows /\ r.sel = s /\ r.off = o
  BY <1>3, <1>7, <1>8 DEF PopupType
<1>10. PopupFits(r)
  BY <1>1, <1>3, <1>5, <1>9 DEF PopupFits
<1> QED BY <1>2, <1>6, <1>7, <1>10

LEMMA PopupStep ==
    ASSUME PopupFits(popup), PopupNext
    PROVE  PopupFits(popup')
<1> USE PopupBoundsAssumption
<1>0. /\ popup \in PopupType /\ popup.rows \in Nat /\ popup.sel \in Nat /\ popup.off \in Nat
      /\ popup.rows <= MaxRows
  BY DEF PopupFits, PopupType
<1>1. CASE \E kind \in PopupKinds, rows \in 0..MaxRows : OpenPopup(kind, rows)
  BY <1>1, FreshFits DEF OpenPopup
<1>2. CASE \E d \in {-1, 1} : StepSelection(d)
  <2>1. PICK d \in {-1, 1} : StepSelection(d)
    BY <1>2
  <2>2. PICK s : s = (popup.sel + d) % popup.rows
    OBVIOUS
  <2>3. popup.rows > 0 /\ popup.kind \in PopupKinds \ {"help"}
    BY <2>1 DEF StepSelection
  <2>4. s \in 0..(popup.rows - 1)
    BY <1>0, <2>2, <2>3
  <2>5. popup' = Clamped([popup EXCEPT !.sel = s])
    BY <2>1, <2>2 DEF StepSelection
  <2> QED BY <2>3, <2>4, <2>5, ClampedFits
<1>3. CASE \E d \in {-1, 1} : PageSelection(d)
  <2>1. PICK d \in {-1, 1} : PageSelection(d)
    BY <1>3
  <2>2. PICK s : s = Within(popup.sel + d * VisibleRows, popup.rows)
    OBVIOUS
  <2>3. popup.rows > 0 /\ popup.kind \in PopupKinds \ {"help"}
    BY <2>1 DEF PageSelection, PopupKinds
  <2>4. popup.sel + d * VisibleRows \in Int
    BY <1>0
  <2>5. s \in 0..(popup.rows - 1)
    BY <1>0, <2>2, <2>3, <2>4 DEF Within
  <2>6. popup' = Clamped([popup EXCEPT !.sel = s])
    BY <2>1, <2>2 DEF PageSelection
  <2> QED BY <2>3, <2>5, <2>6, ClampedFits
<1>4. CASE \E rows \in 0..MaxRows : MergeLSPCompletion(rows)
  <2>1. PICK rows \in 0..MaxRows : MergeLSPCompletion(rows)
    BY <1>4
  <2>2. CASE rows = 0
    BY <2>1, <2>2, NoPopupFits DEF MergeLSPCompletion
  <2>3. CASE rows # 0 /\ popup.sel >= rows
    <3>1. popup' = [popup EXCEPT !.rows = rows, !.sel = 0, !.off = 0] /\ popup.kind = "completion"
      BY <2>1, <2>3 DEF MergeLSPCompletion
    <3>2. popup' \in PopupType /\ popup'.rows = rows /\ popup'.sel = 0 /\ popup'.off = 0
          /\ popup'.kind = "completion"
      <4>1. 0 \in 0..MaxRows
        OBVIOUS
      <4> QED BY <1>0, <3>1, <4>1 DEF PopupType
    <3> QED BY <3>2 DEF PopupFits
  <2>4. CASE rows # 0 /\ ~(popup.sel >= rows)
    <3>1. popup' = [popup EXCEPT !.rows = rows] /\ popup.kind = "completion"
      BY <2>1, <2>4 DEF MergeLSPCompletion
    <3>2. popup' \in PopupType /\ popup'.rows = rows /\ popup'.sel = popup.sel /\ popup'.off = popup.off
          /\ popup'.kind = "completion"
      BY <1>0, <3>1 DEF PopupType
    <3> QED BY <1>0, <2>4, <3>1, <3>2 DEF PopupFits
  <2> QED BY <2>2, <2>3, <2>4
<1>5. CASE \E rows \in 0..MaxRows : Refilter(rows)
  <2>1. PICK rows \in 0..MaxRows : Refilter(rows)
    BY <1>5
  <2>2. popup' = [popup EXCEPT !.rows = rows, !.sel = 0, !.off = 0] /\ popup.kind \in {"completion", "palette"}
    BY <2>1 DEF Refilter
  <2>3. popup' \in PopupType /\ popup'.rows = rows /\ popup'.sel = 0 /\ popup'.off = 0
        /\ popup'.kind # "help"
    <3>1. 0 \in 0..MaxRows
      OBVIOUS
    <3> QED BY <1>0, <2>2, <3>1 DEF PopupType
  <2> QED BY <2>3 DEF PopupFits
<1>6. CASE DismissPopup
  BY <1>6, NoPopupFits DEF DismissPopup
<1>7. CASE ScrollHelp
  <2> DEFINE last == IF popup.rows > VisibleRows THEN popup.rows - VisibleRows ELSE 0
  <2>1. PICK d \in {-1, 1, -popup.off, last - popup.off} :
            popup' = [popup EXCEPT !.off = IF @ + d < 0 THEN 0 ELSE IF @ + d > last THEN last ELSE @ + d]
    BY <1>7 DEF ScrollHelp
  <2>2. last \in Nat /\ last <= popup.rows /\ (popup.rows > VisibleRows => last + VisibleRows = popup.rows)
    BY <1>0
  <2> HIDE DEF last
  <2>3. PICK o : o = IF popup.off + d < 0 THEN 0 ELSE IF popup.off + d > last THEN last ELSE popup.off + d
    OBVIOUS
  <2>4. o \in 0..MaxRows /\ o <= last
    BY <1>0, <2>2, <2>3
  <2>5. popup' = [popup EXCEPT !.off = o] /\ popup.kind = "help"
    BY <1>7, <2>1, <2>3 DEF ScrollHelp
  <2>6. popup' \in PopupType /\ popup'.rows = popup.rows /\ popup'.sel = popup.sel /\ popup'.off = o
        /\ popup'.kind = "help"
    BY <1>0, <2>4, <2>5 DEF PopupType
  <2>7. popup.rows = 0 => last = 0
    BY <2>2
  <2> QED BY <1>0, <2>2, <2>4, <2>5, <2>6, <2>7 DEF PopupFits
<1>8. CASE UNCHANGED popup
  BY <1>8
<1> QED BY <1>1, <1>2, <1>3, <1>4, <1>5, <1>6, <1>7, <1>8
        DEF PopupNext, MoveCaret, NextDiagnostic, ReportDiags

(***************************************************************************)
(* The walk over the diagnostics.  Sorted, they are at rising positions    *)
(* when no two are at one, because as many come before each as its place   *)
(* says; so a press of F8 goes on to the next place, around the end.       *)
(***************************************************************************)
\* The order of sortedDiags, and the diagnostics in front of the i-th.
Earlier(i, j) == diags[i] < diags[j] \/ (diags[i] = diags[j] /\ i < j)
InFront(i)    == {j \in 1..Len(diags) : Earlier(j, i)}

LEMMA SortedIs ==
    SortedDiags = [k \in 1..Len(diags) |-> diags[CHOOSE i \in 1..Len(diags) : Cardinality(InFront(i)) = k - 1]]
BY DEF SortedDiags, InFront, Earlier

LEMMA IntervalsCount ==
    ASSUME NEW n \in Nat
    PROVE  /\ IsFiniteSet(1..n) /\ Cardinality(1..n) = n
           /\ IsFiniteSet(0..(n - 1)) /\ Cardinality(0..(n - 1)) = n
<1>1. IsFiniteSet(1..n) /\ Cardinality(1..n) = IF 1 > n THEN 0 ELSE n - 1 + 1
  BY FS_Interval
<1>2. PICK m \in Int : m = n - 1
  OBVIOUS
<1>3. IsFiniteSet(0..m) /\ Cardinality(0..m) = IF 0 > m THEN 0 ELSE m - 0 + 1
  BY FS_Interval
<1> QED BY <1>1, <1>2, <1>3

LEMMA InFrontGrows ==
    ASSUME diags \in Seq(DiagSpots), NEW i \in 1..Len(diags), NEW j \in 1..Len(diags)
    PROVE  /\ IsFiniteSet(InFront(i)) /\ Cardinality(InFront(i)) \in 0..(Len(diags) - 1)
           /\ Earlier(i, j) => Cardinality(InFront(i)) < Cardinality(InFront(j))
<1> USE PopupBoundsAssumption
<1>1. Len(diags) \in Nat /\ \A k \in 1..Len(diags) : diags[k] \in Nat
  BY ElementOfSeq, LenProperties
<1>2. \A k \in 1..Len(diags) : IsFiniteSet(InFront(k))
  <2> TAKE k \in 1..Len(diags)
  <2>1. IsFiniteSet(1..Len(diags)) /\ InFront(k) \in SUBSET (1..Len(diags))
    BY <1>1, FS_Interval DEF InFront
  <2> QED BY <2>1, FS_Subset
<1>3. Cardinality(InFront(i)) \in 0..(Len(diags) - 1)
  <2>1. InFront(i) \in SUBSET (1..Len(diags) \ {i}) /\ IsFiniteSet(1..Len(diags))
        /\ Cardinality(1..Len(diags)) = Len(diags)
    BY <1>1, IntervalsCount DEF InFront, Earlier
  <2>2. IsFiniteSet(1..Len(diags) \ {i}) /\ Cardinality(1..Len(diags) \ {i}) = Len(diags) - 1
    BY <2>1, FS_RemoveElement
  <2>3. Cardinality(InFront(i)) <= Len(diags) - 1
    BY <2>1, <2>2, FS_Subset
  <2>4. Cardinality(InFront(i)) \in Nat
    BY <1>2, FS_CardinalityType
  <2> QED BY <1>1, <2>3, <2>4
<1>4. ASSUME Earlier(i, j)
      PROVE  Cardinality(InFront(i)) < Cardinality(InFront(j))
  <2>1. InFront(i) \subseteq InFront(j) /\ i \in InFront(j) /\ i \notin InFront(i)
    BY <1>1, <1>4 DEF InFront, Earlier
  <2>2. Cardinality(InFront(i)) <= Cardinality(InFront(j)) /\ Cardinality(InFront(i)) # Cardinality(InFront(j))
    BY <1>2, <2>1, FS_Subset
  <2>3. Cardinality(InFront(i)) \in Nat /\ Cardinality(InFront(j)) \in Nat
    BY <1>2, FS_CardinalityType
  <2> QED BY <2>2, <2>3
<1> QED BY <1>2, <1>3, <1>4

\* Each place has a diagnostic with as many in front of it.
LEMMA PlacesAreTaken ==
    ASSUME diags \in Seq(DiagSpots), NEW k \in 1..Len(diags)
    PROVE  \E i \in 1..Len(diags) : Cardinality(InFront(i)) = k - 1
<1> USE PopupBoundsAssumption
<1>1. Len(diags) \in Nat /\ (\A m \in 1..Len(diags) : diags[m] \in Nat) /\ DOMAIN diags = 1..Len(diags)
  BY ElementOfSeq, LenProperties
<1> DEFINE n == Len(diags)
           f == [i \in 1..n |-> Cardinality(InFront(i))]
<1>2. f \in [1..n -> 0..(n - 1)]
  BY InFrontGrows
<1>3. \A i, j \in 1..n : f[i] = f[j] => i = j
  <2> TAKE i, j \in 1..n
  <2> SUFFICES ASSUME i # j PROVE f[i] # f[j]
    OBVIOUS
  <2>1. Earlier(i, j) \/ Earlier(j, i)
    BY <1>1 DEF Earlier
  <2>2. f[i] < f[j] \/ f[j] < f[i]
    BY <2>1, InFrontGrows
  <2>3. f[i] \in Int /\ f[j] \in Int
    BY <1>2
  <2> QED BY <2>2, <2>3
<1> HIDE DEF f
<1>4. f \in Injection(1..n, 0..(n - 1))
  BY <1>2, <1>3 DEF Injection, IsInjective
<1>5. /\ IsFiniteSet(0..(n - 1)) /\ Cardinality(0..(n - 1)) = n
      /\ Cardinality(1..n) = n
  BY <1>1, IntervalsCount
<1>6. f \in Surjection(1..n, 0..(n - 1))
  BY <1>4, <1>5, FS_Injection
<1>7. PICK i \in 1..n : f[i] = k - 1
  <2>1. k - 1 \in 0..(n - 1)
    BY <1>1
  <2> QED BY <1>6, <2>1 DEF Surjection
<1> QED BY <1>7 DEF f

LEMMA SortedRises ==
    ASSUME diags \in Seq(DiagSpots)
    PROVE  /\ SortedDiags \in [1..Len(diags) -> DiagSpots] /\ Len(SortedDiags) = Len(diags)
           /\ IsInjective(diags) =>
                  \A k, l \in 1..Len(diags) : k < l => SortedDiags[k] < SortedDiags[l]
<1> USE PopupBoundsAssumption
<1>1. Len(diags) \in Nat /\ (\A m \in 1..Len(diags) : diags[m] \in DiagSpots /\ diags[m] \in Nat)
      /\ DOMAIN diags = 1..Len(diags)
  BY ElementOfSeq, LenProperties
<1> DEFINE at(k) == CHOOSE i \in 1..Len(diags) : Cardinality(InFront(i)) = k - 1
<1>2. \A k \in 1..Len(diags) : at(k) \in 1..Len(diags) /\ Cardinality(InFront(at(k))) = k - 1
  BY PlacesAreTaken
<1>3. SortedDiags = [k \in 1..Len(diags) |-> diags[at(k)]]
  BY SortedIs
<1> HIDE DEF at
<1>4. \A k \in 1..Len(diags) : SortedDiags[k] = diags[at(k)]
  BY <1>3
<1>5. SortedDiags \in [1..Len(diags) -> DiagSpots]
  BY <1>1, <1>2, <1>3
<1>6. Len(SortedDiags) = Len(diags)
  BY <1>1, <1>3
<1>7. ASSUME IsInjective(diags), NEW k \in 1..Len(diags), NEW l \in 1..Len(diags), k < l
      PROVE  SortedDiags[k] < SortedDiags[l]
  <2>1. ~(diags[at(l)] < diags[at(k)])
    <3>1. SUFFICES ASSUME diags[at(l)] < diags[at(k)] PROVE FALSE
      OBVIOUS
    <3>2. Cardinality(InFront(at(l))) < Cardinality(InFront(at(k)))
      BY <1>2, <3>1, InFrontGrows DEF Earlier
    <3>3. l - 1 < k - 1
      BY <1>2, <3>2
    <3> QED BY <1>1, <1>7, <3>3
  <2>2. diags[at(l)] # diags[at(k)]
    <3>1. SUFFICES ASSUME diags[at(l)] = diags[at(k)] PROVE FALSE
      OBVIOUS
    <3>2. at(l) = at(k)
      BY <1>1, <1>2, <1>7, <3>1 DEF IsInjective
    <3>3. l - 1 = k - 1
      BY <1>2, <3>2
    <3> QED BY <1>1, <1>7, <3>3
  <2> QED BY <1>1, <1>2, <1>4, <2>1, <2>2
<1> QED BY <1>5, <1>6, <1>7

\* The place m steps before place c of n, walking in direction d.
StepBack(d, n, c, m) ==
    IF d = 1 THEN IF c - m >= 1 THEN c - m ELSE c - m + n
    ELSE IF c + m <= n THEN c + m ELSE c + m - n

\* t is a walk of n places in direction d that ends at place c; from there it goes
\* on to e.
Trailed(t, n, d, c) ==
    /\ t \in Seq(1..n) /\ t # <<>> /\ Len(t) <= n /\ t[Len(t)] = c
    /\ \A k \in 1..Len(t) : t[k] = StepBack(d, n, c, Len(t) - k)
GoesOn(n, d, c, e) == e = IF d = 1 THEN IF c = n THEN 1 ELSE c + 1 ELSE IF c = 1 THEN n ELSE c - 1
CutTo(n, u, v)     == v = IF Len(u) > n THEN Tail(u) ELSE u

\* The last stops lie next to each other, and the walk is where the last one was.
Walked(d, t, n) ==
    /\ d \in {-1, 1} /\ t \in Seq(1..n) /\ Len(t) <= n
    /\ t # <<>> => caretSpot = SortedDiags[diagCursor] /\ Trailed(t, n, d, diagCursor)

DiagInv ==
    /\ diags \in Seq(DiagSpots) /\ Len(diags) <= 3 /\ caretSpot \in DiagSpots /\ diagCursor \in 1..3
    /\ IsInjective(diags) => Walked(trail[1], trail[2], Len(diags))

\* The places a press goes on to, and the one it takes.
IsAhead(n, d, ahead) ==
    ahead = {i \in 1..n :
        \/ d * SpotLine[SortedDiags[i]] > d * SpotLine[caretSpot]
        \/ SpotLine[SortedDiags[i]] = SpotLine[caretSpot] /\ d * SortedDiags[i] >= d * caretSpot /\ diagCursor # i}
Takes(n, d, ahead, idx) ==
    idx = IF d > 0
          THEN IF ahead = {} THEN 1 ELSE CHOOSE i \in ahead : \A j \in ahead : i <= j
          ELSE IF ahead = {} THEN n ELSE CHOOSE i \in ahead : \A j \in ahead : i >= j

\* Where a press goes from place c, in the middle of a walk.
LEMMA PlaceTaken ==
    ASSUME diags \in Seq(DiagSpots), NEW n \in Nat, n = Len(diags), n > 0, NEW d \in {-1, 1},
           NEW ahead, IsAhead(n, d, ahead), NEW idx, Takes(n, d, ahead, idx)
    PROVE  /\ idx \in 1..n
           /\ IsInjective(diags) /\ caretSpot \in DiagSpots /\ diagCursor \in 1..n
              /\ caretSpot = SortedDiags[diagCursor]
                => GoesOn(n, d, diagCursor, idx)
<1>0. /\ ahead = {i \in 1..n :
            \/ d * SpotLine[SortedDiags[i]] > d * SpotLine[caretSpot]
            \/ SpotLine[SortedDiags[i]] = SpotLine[caretSpot] /\ d * SortedDiags[i] >= d * caretSpot /\ diagCursor # i}
      /\ idx = IF d > 0
               THEN IF ahead = {} THEN 1 ELSE CHOOSE i \in ahead : \A j \in ahead : i <= j
               ELSE IF ahead = {} THEN n ELSE CHOOSE i \in ahead : \A j \in ahead : i >= j
  BY DEF IsAhead, Takes
<1> USE PopupBoundsAssumption
<1>1. /\ \A k \in 1..n : SortedDiags[k] \in DiagSpots /\ SortedDiags[k] \in Nat
      /\ IsInjective(diags) => \A k, l \in 1..n : k < l => SortedDiags[k] < SortedDiags[l]
  BY SortedRises
<1>2. ahead \subseteq 1..n /\ ahead \subseteq Nat
  BY <1>0
<1>3. ahead # {} => \E i \in ahead : \A j \in ahead : i <= j
  BY <1>2, Least
<1>4. ahead # {} => \E i \in ahead : \A j \in ahead : i >= j
  <2> SUFFICES ASSUME ahead # {} PROVE \E i \in ahead : \A j \in ahead : i >= j
    OBVIOUS
  <2> DEFINE back == {n - i : i \in ahead}
  <2>0. n \in Nat /\ ahead # {}
    OBVIOUS
  <2>1. back \subseteq Nat /\ back # {}
    <3>1. PICK i \in ahead : TRUE
      BY <2>0
    <3>2. n - i \in back
      BY <3>1
    <3>3. back \subseteq Nat
      BY ONLY <1>2, <2>0 DEF back
    <3> QED BY ONLY <3>2, <3>3
  <2>2. PICK b \in back : \A y \in back : b <= y
    <3> HIDE DEF back
    <3> QED BY <2>1, Least
  <2>3. PICK i \in ahead : b = n - i
    OBVIOUS
  <2>4. ASSUME NEW j \in ahead PROVE i >= j
    <3>1. n - j \in back
      OBVIOUS
    <3>2. n - i <= n - j
      BY <2>2, <2>3, <3>1
    <3> QED BY <1>2, <3>2
  <2> QED BY <2>4
<1>5. d = 1 \/ d = -1
  OBVIOUS
<1>6. /\ d = 1 => IF ahead = {} THEN idx = 1 ELSE idx \in ahead /\ \A j \in ahead : idx <= j
      /\ d = -1 => IF ahead = {} THEN idx = n ELSE idx \in ahead /\ \A j \in ahead : idx >= j
  <2>1. ASSUME d = 1, ahead # {} PROVE idx \in ahead /\ \A j \in ahead : idx <= j
    <3>1. idx = CHOOSE i \in ahead : \A j \in ahead : i <= j
      BY ONLY <1>0, <2>1
    <3> QED BY ONLY <2>1, <3>1, <1>3
  <2>2. ASSUME d = -1, ahead # {} PROVE idx \in ahead /\ \A j \in ahead : idx >= j
    <3>1. idx = CHOOSE i \in ahead : \A j \in ahead : i >= j
      BY ONLY <1>0, <2>2
    <3> QED BY ONLY <2>2, <3>1, <1>4
  <2>3. ahead = {} => (d = 1 => idx = 1) /\ (d = -1 => idx = n)
    BY ONLY <1>0
  <2> QED BY ONLY <2>1, <2>2, <2>3
<1>8. n \in Nat /\ n > 0
  OBVIOUS
<1>9. idx \in 1..n
  <2>1. idx \in ahead \/ idx = 1 \/ idx = n
    BY ONLY <1>5, <1>6
  <2>2. idx \in ahead => idx \in 1..n
    BY ONLY <1>2
  <2>3. 1 \in 1..n /\ n \in 1..n
    BY ONLY <1>8
  <2> QED BY ONLY <2>1, <2>2, <2>3
<1>7. ASSUME IsInjective(diags), caretSpot \in DiagSpots, diagCursor \in 1..n, caretSpot = SortedDiags[diagCursor]
      PROVE  GoesOn(n, d, diagCursor, idx)
  <2> USE DEF GoesOn
  <2>1. ASSUME NEW i \in 1..n
        PROVE  /\ SortedDiags[i] > caretSpot <=> i > diagCursor
               /\ SortedDiags[i] < caretSpot <=> i < diagCursor
               /\ SortedDiags[i] = caretSpot <=> i = diagCursor
    <3>1. i < diagCursor \/ i = diagCursor \/ i > diagCursor
      BY <1>7
    <3>2. i < diagCursor => SortedDiags[i] < SortedDiags[diagCursor]
      BY <1>1, <1>7
    <3>3. diagCursor < i => SortedDiags[diagCursor] < SortedDiags[i]
      BY <1>1, <1>7
    <3> QED BY <1>1, <1>7, <3>1, <3>2, <3>3
  <2> DEFINE line == [i \in 1..n |-> SpotLine[SortedDiags[i]]]
  <2>4. \A i \in 1..n : line[i] = SpotLine[SortedDiags[i]] /\ line[i] \in Nat /\ SortedDiags[i] \in Nat
    BY <1>1, SpotLineAssumption
  <2>5. \A i \in 1..n :
            /\ SortedDiags[i] <= caretSpot => line[i] <= line[diagCursor]
            /\ SortedDiags[i] >= caretSpot => line[i] >= line[diagCursor]
    BY <1>1, <1>7, <2>4, SpotLineAssumption
  <2> HIDE DEF line
  <2>6. caretSpot \in Nat /\ line[diagCursor] = SpotLine[caretSpot] /\ line[diagCursor] \in Nat
    BY <1>7, <2>4
  <2>2. CASE d = 1
    <3>2. ahead = {i \in 1..n : i > diagCursor}
      <4>1. ASSUME NEW i \in 1..n PROVE i \in ahead <=> i > diagCursor
        <5>1. i \in ahead <=> \/ line[i] > line[diagCursor]
                              \/ line[i] = line[diagCursor] /\ SortedDiags[i] >= caretSpot /\ diagCursor # i
          BY ONLY <1>0, <1>7, <2>2, <2>4, <2>5, <2>6, <4>1
        <5> QED BY ONLY <1>7, <2>1, <2>4, <2>5, <2>6, <4>1, <5>1
      <4>2. ahead \subseteq 1..n
        BY ONLY <1>2
      <4> QED BY ONLY <4>1, <4>2
    <3>3. CASE diagCursor = n
      <4>1. ahead = {}
        BY <3>2, <3>3, <1>7
      <4> QED BY ONLY <1>6, <2>2, <3>3, <4>1 DEF GoesOn
    <3>4. CASE diagCursor # n
      <4>1. diagCursor + 1 \in ahead /\ \A j \in ahead : diagCursor + 1 <= j
        BY ONLY <1>7, <1>8, <3>2, <3>4
      <4>2. idx \in ahead /\ \A j \in ahead : idx <= j
        BY ONLY <1>6, <2>2, <4>1
      <4>3. idx <= diagCursor + 1 /\ diagCursor + 1 <= idx
        BY <4>1, <4>2
      <4> QED BY ONLY <1>9, <1>7, <1>8, <2>2, <3>4, <4>3 DEF GoesOn
    <3> QED BY <3>3, <3>4
  <2>3. CASE d = -1
    <3>2. ahead = {i \in 1..n : i < diagCursor}
      <4>1. ASSUME NEW i \in 1..n PROVE i \in ahead <=> i < diagCursor
        <5>1. i \in ahead <=> \/ line[i] < line[diagCursor]
                              \/ line[i] = line[diagCursor] /\ SortedDiags[i] <= caretSpot /\ diagCursor # i
          BY ONLY <1>0, <1>7, <2>3, <2>4, <2>5, <2>6, <4>1
        <5> QED BY ONLY <1>7, <2>1, <2>4, <2>5, <2>6, <4>1, <5>1
      <4>2. ahead \subseteq 1..n
        BY ONLY <1>2
      <4> QED BY ONLY <4>1, <4>2
    <3>3. CASE diagCursor = 1
      <4>1. ahead = {}
        BY <3>2, <3>3, <1>7
      <4> QED BY ONLY <1>6, <2>3, <3>3, <4>1 DEF GoesOn
    <3>4. CASE diagCursor # 1
      <4>1. diagCursor - 1 \in ahead /\ \A j \in ahead : diagCursor - 1 >= j
        BY ONLY <1>7, <1>8, <3>2, <3>4
      <4>2. idx \in ahead /\ \A j \in ahead : idx >= j
        BY ONLY <1>6, <2>3, <4>1
      <4>3. idx <= diagCursor - 1 /\ diagCursor - 1 <= idx
        BY <4>1, <4>2
      <4> QED BY ONLY <1>9, <1>7, <1>8, <2>3, <3>4, <4>3 DEF GoesOn
    <3> QED BY <3>3, <3>4
  <2> QED BY <1>5, <2>2, <2>3
<1> QED BY <1>7, <1>9

\* A stop more.
LEMMA WalksOn ==
    ASSUME NEW n \in Nat, NEW d \in {-1, 1}, NEW t, NEW c \in 1..n, Trailed(t, n, d, c),
           NEW e, GoesOn(n, d, c, e), NEW v, CutTo(n, Append(t, e), v)
    PROVE  Trailed(v, n, d, e)
<1> DEFINE u == Append(t, e)
<1>0. /\ t \in Seq(1..n) /\ t # <<>> /\ Len(t) <= n /\ t[Len(t)] = c
      /\ \A k \in 1..Len(t) : t[k] = StepBack(d, n, c, Len(t) - k)
      /\ e = IF d = 1 THEN IF c = n THEN 1 ELSE c + 1 ELSE IF c = 1 THEN n ELSE c - 1
      /\ v = IF Len(u) > n THEN Tail(u) ELSE u
  BY DEF Trailed, GoesOn, CutTo
<1>1. PICK m \in Nat \ {0} : m = Len(t)
  BY <1>0, EmptySeq
<1>2. e \in 1..n /\ m <= n
  BY <1>0, <1>1
<1>3. /\ u \in Seq(1..n) /\ Len(u) = m + 1 /\ u[m + 1] = e
      /\ \A k \in 1..m : u[k] = t[k]
  BY <1>0, <1>1, <1>2, AppendProperties
<1> HIDE DEF u
<1>8. n \in Nat
  OBVIOUS
<1>4. ASSUME NEW k \in 1..m, m - k + 1 < n PROVE t[k] = StepBack(d, n, e, m + 1 - k)
  <2>1. t[k] = StepBack(d, n, c, m - k)
    BY <1>0, <1>1, <1>4
  <2>2. PICK j \in Nat : j = m - k
    BY <1>4
  <2>3. j + 1 < n /\ m + 1 - k = j + 1
    BY <1>4, <2>2
  <2>4. StepBack(d, n, c, j) = StepBack(d, n, e, j + 1)
    <3>1. CASE d = 1
      BY ONLY <1>2, <2>3, <3>1, n \in Nat, c \in 1..n, j \in Nat,
              <1>0 DEF StepBack
    <3>2. CASE d = -1
      BY ONLY <1>2, <2>3, <3>2, n \in Nat, c \in 1..n, j \in Nat,
              <1>0 DEF StepBack
    <3> QED BY <3>1, <3>2
  <2> QED BY <2>1, <2>2, <2>3, <2>4
<1>5. StepBack(d, n, e, 0) = e
  BY <1>2 DEF StepBack
<1>6. CASE m + 1 > n
  <2>1. m = n
    BY <1>2, <1>6
  <2>2. v = Tail(u)
    BY <1>0, <1>3, <1>6
  <2>3. v \in Seq(1..n) /\ Len(v) = m /\ \A k \in 1..m : v[k] = u[k + 1]
    <3>1. u # <<>>
      BY ONLY <1>1, <1>3, EmptySeq
    <3>2. /\ Tail(u) \in Seq(1..n) /\ Len(Tail(u)) = Len(u) - 1
          /\ \A k \in 1..Len(Tail(u)) : Tail(u)[k] = u[k + 1]
      BY ONLY <1>3, <3>1, HeadTailProperties
    <3> QED BY ONLY <1>1, <1>3, <2>2, <3>2
  <2>4. ASSUME NEW k \in 1..m PROVE v[k] = StepBack(d, n, e, m - k)
    <3>1. CASE k = m
      BY <1>3, <1>5, <2>3, <3>1
    <3>2. CASE k # m
      <4>1. k + 1 \in 1..m /\ m - (k + 1) + 1 < n /\ m + 1 - (k + 1) = m - k
        BY ONLY <1>1, <2>1, <2>4, <3>2
      <4>2. v[k] = t[k + 1]
        BY ONLY <1>3, <2>3, <4>1
      <4>3. t[k + 1] = StepBack(d, n, e, m + 1 - (k + 1))
        BY <1>4, <4>1
      <4> QED BY <4>1, <4>2, <4>3
    <3> QED BY <3>1, <3>2
  <2>5. v[m] = e
    BY <1>3, <2>3
  <2>6. v # <<>>
    BY <2>3
  <2> QED BY ONLY <1>2, <2>3, <2>4, <2>5, <2>6 DEF Trailed
<1>7. CASE ~(m + 1 > n)
  <2>1. v = u
    BY <1>0, <1>3, <1>7
  <2>2. ASSUME NEW k \in 1..(m + 1) PROVE u[k] = StepBack(d, n, e, m + 1 - k)
    <3>1. CASE k = m + 1
      BY <1>3, <1>5, <3>1
    <3>2. CASE k # m + 1
      <4>1. k \in 1..m /\ m - k + 1 < n
        BY <1>7, <3>2
      <4> QED BY <1>3, <1>4, <4>1
    <3> QED BY <3>1, <3>2
  <2>3. u # <<>> /\ Len(u) <= n
    BY ONLY <1>1, <1>3, <1>7, <1>8, EmptySeq
  <2> QED BY ONLY <1>1, <1>3, <2>1, <2>2, <2>3 DEF Trailed
<1> QED BY <1>6, <1>7

LEMMA NoTrailWalked ==
    ASSUME diags \in Seq(DiagSpots)
    PROVE  Walked(1, <<>>, Len(diags))
BY EmptySeq, LenProperties DEF Walked

LEMMA PressWalks ==
    ASSUME DiagInv, NEW d \in {-1, 1}, NextDiagnostic(d), diags # <<>>
    PROVE  DiagInv'
<1> USE PopupBoundsAssumption
<1>1. diags \in Seq(DiagSpots) /\ caretSpot \in DiagSpots
  BY DEF DiagInv
<1>2. PICK n \in Nat : n = Len(diags)
  BY <1>1, LenProperties
<1>3. SortedDiags \in [1..n -> DiagSpots] /\ Len(SortedDiags) = n
  BY <1>1, <1>2, SortedRises
<1> DEFINE ahead == Ahead(d, SortedDiags)
           idx == NextPlace(d, SortedDiags)
           u == IF trail[1] = d THEN Append(trail[2], idx) ELSE <<idx>>
           v == Trail(d, idx)
<1>8. /\ Len(SortedDiags) > 0 /\ diagCursor' = idx /\ caretSpot' = SortedDiags[idx]
      /\ trail' = <<d, v>> /\ diags' = diags
  <2>1. Len(SortedDiags) > 0
    BY <1>1, <1>2, <1>3, EmptySeq
  <2>2. diagCursor' = idx
    BY DEF NextDiagnostic
  <2> QED BY <2>1, <2>2 DEF NextDiagnostic
<1>7. CutTo(n, u, v)
  BY <1>2 DEF CutTo, Trail
<1> HIDE DEF v
<1> HIDE DEF u
<1>6. u = IF trail[1] = d THEN Append(trail[2], idx) ELSE <<idx>>
  BY DEF u
<1>5. Takes(n, d, ahead, idx)
  BY <1>3 DEF Takes, NextPlace
<1> HIDE DEF idx
<1>4. IsAhead(n, d, ahead)
  BY <1>3 DEF IsAhead, Ahead
<1> HIDE DEF ahead
<1>9. /\ idx \in 1..n
      /\ IsInjective(diags) /\ caretSpot \in DiagSpots /\ diagCursor \in 1..n
         /\ caretSpot = SortedDiags[diagCursor]
            => GoesOn(n, d, diagCursor, idx)
  <2>1. d \in {-1, 1} /\ n \in Nat /\ n > 0
    BY <1>3, <1>8
  <2> QED BY ONLY <1>1, <1>2, <1>4, <1>5, <2>1, PlaceTaken
<1>10. SortedDiags' = SortedDiags
  BY <1>8 DEF SortedDiags
<1>13. PICK w : w = v
  OBVIOUS
<1>11. CASE IsInjective(diags)
  <2>1. Walked(trail[1], trail[2], n)
    BY <1>2, <1>11 DEF DiagInv
  <2>2. Trailed(v, n, d, idx)
    <3>1. CASE trail[1] = d /\ trail[2] # <<>>
      <4>1. PICK t : t = trail[2]
        OBVIOUS
      <4>2. Trailed(t, n, d, diagCursor) /\ caretSpot = SortedDiags[diagCursor]
        BY <2>1, <3>1, <4>1 DEF Walked
      <4>3. diagCursor \in 1..n
        <5>1. t \in Seq(1..n) /\ t # <<>> /\ t[Len(t)] = diagCursor
          BY <4>2 DEF Trailed
        <5>2. Len(t) \in 1..Len(t)
          BY ONLY <5>1, EmptySeq
        <5> QED BY ONLY <5>1, <5>2, ElementOfSeq
      <4>4. GoesOn(n, d, diagCursor, idx)
        BY ONLY <1>1, <1>9, <1>11, <4>2, <4>3
      <4>5. u = Append(t, idx)
        BY ONLY <1>6, <3>1, <4>1
      <4>6. CutTo(n, Append(t, idx), v)
        BY ONLY <1>7, <4>5
      <4>7. n \in Nat /\ d \in {-1, 1}
        OBVIOUS
      <4> QED BY ONLY <4>2, <4>3, <4>4, <4>6, <4>7, WalksOn
    <3>2. CASE ~(trail[1] = d /\ trail[2] # <<>>)
      <4>0. Append(<<>>, idx) = <<idx>>
        OBVIOUS
      <4>1. u = <<idx>>
        BY ONLY <1>6, <3>2, <4>0
      <4>2. u \in Seq(1..n) /\ Len(u) = 1 /\ u[1] = idx /\ u # <<>>
        BY ONLY <1>9, <4>1
      <4>3. n \in Nat /\ n > 0 /\ d \in {-1, 1}
        BY <1>3, <1>8
      <4>4. v = u
        BY ONLY <1>7, <4>2, <4>3 DEF CutTo
      <4>5. \A k \in 1..1 : u[k] = StepBack(d, n, idx, 1 - k)
        <5> SUFFICES ASSUME NEW k \in 1..1 PROVE u[k] = StepBack(d, n, idx, 1 - k)
          OBVIOUS
        <5>1. k = 1 /\ 1 - k = 0
          OBVIOUS
        <5>2. StepBack(d, n, idx, 0) = idx
          BY <1>9, <4>3 DEF StepBack
        <5> QED BY ONLY <4>2, <5>1, <5>2
      <4>6. Len(u) <= n /\ u[Len(u)] = idx
        BY ONLY <4>2, <4>3
      <4>7. \A k \in 1..Len(u) : u[k] = StepBack(d, n, idx, Len(u) - k)
        BY ONLY <4>2, <4>5
      <4> QED BY ONLY <4>2, <4>4, <4>6, <4>7 DEF Trailed
    <3> QED BY <3>1, <3>2
  <2>3. Trailed(w, n, d, diagCursor')
    BY ONLY <1>8, <1>13, <2>2
  <2>5. w \in Seq(1..n) /\ Len(w) <= n /\ d \in {-1, 1}
    BY <2>3 DEF Trailed
  <2>6. caretSpot' = SortedDiags'[diagCursor'] /\ trail'[1] = d /\ trail'[2] = w /\ Len(diags') = n
    BY <1>2, <1>8, <1>10, <1>13
  <2>4. Walked(trail[1], trail[2], Len(diags))'
    BY ONLY <2>3, <2>5, <2>6 DEF Walked, Trailed
  <2> QED BY <1>1, <1>2, <1>3, <1>8, <1>9, <2>4 DEF DiagInv
<1>12. CASE ~IsInjective(diags)
  BY <1>1, <1>2, <1>3, <1>8, <1>9, <1>12 DEF DiagInv
<1> QED BY <1>11, <1>12

LEMMA PressesOnNothing ==
    ASSUME DiagInv, NEW d \in {-1, 1}, NextDiagnostic(d), diags = <<>>
    PROVE  DiagInv'
<1>1. diagCursor' = 1 /\ caretSpot' = caretSpot /\ trail' = trail /\ diags' = diags
  BY DEF NextDiagnostic
<1>2. Len(diags) = 0
  BY EmptySeq
<1>3. ASSUME Walked(trail[1], trail[2], Len(diags))
      PROVE  Walked(trail[1], trail[2], Len(diags))'
  <2>1. trail[2] \in Seq(1..0)
    BY <1>2, <1>3 DEF Walked
  <2>2. trail[2] = <<>>
    BY ONLY <1>2, <1>3, <2>1, EmptySeq DEF Walked
  <2> QED BY <1>1, <1>2, <1>3, <2>2 DEF Walked
<1> QED BY <1>1, <1>3 DEF DiagInv

LEMMA DiagStep ==
    ASSUME DiagInv, PopupNext \/ UNCHANGED <<popup, diagVars>>
    PROVE  DiagInv'
<1> USE PopupBoundsAssumption
<1>1. diags \in Seq(DiagSpots) /\ Len(diags) \in Nat /\ Len(diags) <= 3 /\ caretSpot \in DiagSpots /\ diagCursor \in 1..3
  BY LenProperties DEF DiagInv
<1>2. CASE UNCHANGED diagVars
  <2>1. SortedDiags' = SortedDiags
    BY <1>2 DEF SortedDiags, diagVars
  <2> QED BY <1>2, <2>1 DEF DiagInv, Walked, Trailed, diagVars
<1>3. CASE \E d \in {-1, 1} : NextDiagnostic(d)
  BY <1>3, PressWalks, PressesOnNothing
<1>4. CASE \E n \in 0..Len(diags) : ReportDiags(n)
  <2>1. PICK n \in 0..Len(diags) : ReportDiags(n)
    BY <1>4
  <2>2. diags' = SubSeq(diags, 1, n) /\ trail' = <<1, <<>>>> /\ UNCHANGED <<caretSpot, diagCursor>>
    BY <2>1 DEF ReportDiags
  <2>3. diags' \in Seq(DiagSpots) /\ Len(diags') = n
    <3>1. \A i \in 1..n : diags[i] \in DiagSpots
      BY <1>1, ElementOfSeq
    <3>2. n \in Nat
      BY <1>1
    <3> QED BY <2>2, <3>1, <3>2, SubSeqProperties
  <2>4. Walked(1, <<>>, Len(diags))'
    BY ONLY <2>3, EmptySeq, <1>1 DEF Walked
  <2> QED BY <1>1, <2>2, <2>3, <2>4 DEF DiagInv
<1>5. CASE MoveCaret
  <2>1. caretSpot' \in DiagSpots /\ trail' = <<1, <<>>>> /\ diags' = diags /\ diagCursor' = diagCursor
    BY <1>5 DEF MoveCaret
  <2>2. Walked(1, <<>>, Len(diags))'
    BY ONLY <1>1, <2>1, EmptySeq DEF Walked
  <2> QED BY <1>1, <2>1, <2>2 DEF DiagInv
<1> QED BY <1>2, <1>3, <1>4, <1>5
        DEF PopupNext, OpenPopup, StepSelection, PageSelection, MergeLSPCompletion, Refilter, DismissPopup,
            ScrollHelp, diagVars

\* One round of steps comes past every place.
\* A round of n presses that ends at the place c.
RoundTo(t, d, n, c) == \A k \in 1..n : t[k] = StepBack(d, n, c, n - k)

LEMMA RoundPassesAll ==
    ASSUME NEW n \in Nat, NEW d \in {-1, 1}, NEW t \in Seq(1..n), Len(t) = n, NEW c,
           n > 0 => c \in 1..n, RoundTo(t, d, n, c)
    PROVE  Range(t) = 1..n
<1> USE DEF RoundTo
<1>1. DOMAIN t = 1..n /\ \A k \in 1..n : t[k] \in 1..n
  BY LenProperties, ElementOfSeq
<1>2. ASSUME NEW x \in 1..n PROVE \E k \in 1..n : t[k] = x
  <2>0. c \in 1..n
    BY <1>2
  <2>1. PICK m \in 0..(n - 1) : StepBack(d, n, c, m) = x
    <3>1. CASE d = 1 /\ x <= c
      <4>1. c - x \in 0..(n - 1) /\ StepBack(d, n, c, c - x) = x
        BY <2>0, <3>1 DEF StepBack
      <4> QED BY <4>1
    <3>2. CASE d = 1 /\ ~(x <= c)
      <4>1. c - x + n \in 0..(n - 1) /\ StepBack(d, n, c, c - x + n) = x
        BY <2>0, <3>2 DEF StepBack
      <4> QED BY <4>1
    <3>3. CASE d = -1 /\ x >= c
      <4>1. x - c \in 0..(n - 1) /\ StepBack(d, n, c, x - c) = x
        BY <2>0, <3>3 DEF StepBack
      <4> QED BY <4>1
    <3>4. CASE d = -1 /\ ~(x >= c)
      <4>1. x - c + n \in 0..(n - 1) /\ StepBack(d, n, c, x - c + n) = x
        BY <2>0, <3>4 DEF StepBack
      <4> QED BY <4>1
    <3> QED BY <3>1, <3>2, <3>3, <3>4
  <2>2. n - m \in 1..n /\ n - (n - m) = m
    OBVIOUS
  <2>3. t[n - m] = x
    BY <2>1, <2>2
  <2> QED BY <2>2, <2>3
<1>3. Range(t) \subseteq 1..n
  BY ONLY <1>1 DEF Range
<1>4. 1..n \subseteq Range(t)
  BY ONLY <1>1, <1>2 DEF Range
<1> QED BY ONLY <1>3, <1>4

LEMMA DiagInvWalks == DiagInv => WalkPassesAll
<1> SUFFICES ASSUME DiagInv, Len(trail[2]) = Len(diags), IsInjective(diags)
             PROVE  Range(trail[2]) = DOMAIN diags
  BY DEF WalkPassesAll
<1>1. PICK n \in Nat : n = Len(diags) /\ DOMAIN diags = 1..n
  BY LenProperties DEF DiagInv
<1>2. PICK t : t = trail[2]
  OBVIOUS
<1>3. PICK d : d = trail[1]
  OBVIOUS
<1>4. Walked(d, t, n) /\ Len(t) = n
  BY <1>1, <1>2, <1>3 DEF DiagInv
<1>5. t \in Seq(1..n) /\ d \in {-1, 1}
  BY <1>4 DEF Walked
<1>6. n > 0 => t # <<>>
  BY ONLY <1>4, <1>5, EmptySeq
<1>7. n > 0 => diagCursor \in 1..n
  <2> SUFFICES ASSUME n > 0 PROVE diagCursor \in 1..n
    OBVIOUS
  <2>1. diagCursor = t[n] /\ n \in 1..Len(t)
    BY <1>4, <1>6 DEF Walked, Trailed
  <2> QED BY ONLY <1>5, <2>1, ElementOfSeq
<1>8. RoundTo(t, d, n, diagCursor)
  <2>1. CASE n > 0
    BY <1>4, <1>6, <2>1 DEF Walked, Trailed, RoundTo
  <2>2. CASE ~(n > 0)
    BY ONLY n \in Nat, <2>2 DEF RoundTo
  <2> QED BY ONLY <2>1, <2>2
<1>10. n \in Nat /\ d \in {-1, 1} /\ t \in Seq(1..n) /\ Len(t) = n
  BY ONLY n \in Nat, <1>4, <1>5
<1>9. Range(t) = 1..n
  BY ONLY <1>10, <1>7, <1>8, RoundPassesAll
<1> QED BY <1>1, <1>2, <1>9

\* The popups' types, that a selected row exists and is inside its window, and that
\* as many presses of F8 as there are diagnostics stop at all of them (completion.go,
\* palette.go, m10.go).
THEOREM PopupsCorrect == PopupSpec => [](PopupTypeOK /\ SelectionShown /\ WalkPassesAll)
<1>1. PopupInit => PopupFits(popup) /\ DiagInv
  <2> SUFFICES ASSUME PopupInit PROVE PopupFits(popup) /\ DiagInv
    OBVIOUS
  <2>1. PICK n \in 0..3 : diags \in [1..n -> DiagSpots]
    BY DEF PopupInit
  <2>2. diags \in Seq(DiagSpots) /\ Len(diags) = n
    BY <2>1
  <2>3. Walked(trail[1], trail[2], Len(diags))
    BY <2>2, NoTrailWalked DEF PopupInit
  <2> QED BY <2>2, <2>3, NoPopupFits DEF PopupInit, DiagInv
<1>2. PopupFits(popup) /\ DiagInv /\ [PopupNext]_<<popup, diagVars>> => PopupFits(popup)' /\ DiagInv'
  <2> SUFFICES ASSUME PopupFits(popup), DiagInv, [PopupNext]_<<popup, diagVars>>
               PROVE  PopupFits(popup)' /\ DiagInv'
    OBVIOUS
  <2>1. PopupFits(popup')
    BY PopupStep DEF PopupFits
  <2> QED BY <2>1, DiagStep DEF PopupFits, PopupType
<1>3. PopupFits(popup) /\ DiagInv => PopupTypeOK /\ SelectionShown /\ WalkPassesAll
  <2>1. PopupFits(popup) /\ DiagInv => PopupTypeOK
    BY DEF PopupFits, PopupType, DiagInv, PopupTypeOK
  <2> QED BY <2>1, FitsShown, DiagInvWalks
<1> QED BY <1>1, <1>2, <1>3, PTL DEF PopupSpec

(***************************************************************************)
(* DapPanel.  The lists of the debugger's panel and its console.           *)
(***************************************************************************)
EntrySelected == \A l \in Lists : Total(l) > 0 => selected[l] < Total(l)

PanelListsInv ==
    /\ panelRows \in DapHeights /\ typed \in BOOLEAN
    /\ dapFocus \in Lists \cup {"input"}
    /\ entries \in [{"threads", "frames"} -> 0..MaxEntries]
    /\ selected \in [Lists -> 0..MaxEntries] /\ varStack \in Seq(0..MaxEntries)
    /\ EntrySelected

ConsoleInv == kept \in 0..DapConsoleMax /\ scroll \in Nat /\ printed \in Nat /\ ScrollStaysInside

LEMMA TotalType ==
    ASSUME PanelListsInv, NEW l \in Lists
    PROVE  Total(l) \in 0..MaxEntries
<1>1. CASE l = "vars"
  <2>1. CASE varStack = <<>>
    BY <1>1, <2>1, DapPanelAssumption DEF Total, CurrentVars
  <2>2. CASE varStack # <<>>
    <3>1. Len(varStack) \in 1..Len(varStack)
      BY <2>2, EmptySeq DEF PanelListsInv
    <3>2. varStack[Len(varStack)] \in 0..MaxEntries
      BY <3>1, ElementOfSeq DEF PanelListsInv
    <3> QED BY <1>1, <2>2, <3>2 DEF Total, CurrentVars
  <2> QED BY <2>1, <2>2
<1>2. CASE l # "vars"
  BY <1>2 DEF Total, PanelListsInv, Lists
<1> QED BY <1>1, <1>2

\* What is selected in each list, list by list.
LEMMA SelectionsAre ==
    EntrySelected <=> /\ entries["threads"] > 0 => selected["threads"] < entries["threads"]
                      /\ entries["frames"] > 0 => selected["frames"] < entries["frames"]
                      /\ CurrentVars > 0 => selected["vars"] < CurrentVars
BY DEF EntrySelected, Total, Lists

LEMMA SelectionsWillBe ==
    EntrySelected' <=> /\ entries'["threads"] > 0 => selected'["threads"] < entries'["threads"]
                       /\ entries'["frames"] > 0 => selected'["frames"] < entries'["frames"]
                       /\ CurrentVars' > 0 => selected'["vars"] < CurrentVars'
BY DEF EntrySelected, Total, Lists

LEMMA ListRowsAre ==
    ASSUME panelRows \in DapHeights
    PROVE  ListRows \in Nat \ {0}
<1>1. panelRows \in Nat \ {0}
  BY DapPanelAssumption
<1> QED BY <1>1 DEF ListRows

LEMMA ScrollIsWithin ==
    ASSUME NEW off \in Int, NEW n \in Nat, panelRows \in DapHeights
    PROVE  /\ ScrollWithin(off, n) \in Nat
           /\ ScrollWithin(off, n) < n \/ ScrollWithin(off, n) = 0
BY ListRowsAre DEF ScrollWithin, Clip

\* A selected entry is drawn: the window of a list is laid around it.
LEMMA EntryIsDrawn ==
    ASSUME PanelListsInv
    PROVE  SelectionExists
<1> SUFFICES ASSUME NEW l \in Lists, Total(l) > 0
             PROVE  /\ selected[l] < Total(l)
                    /\ selected[l] \in WindowStart(l)..(WindowStart(l) + ListRows - 1)
  BY DEF SelectionExists
<1>1. selected[l] < Total(l) /\ selected[l] \in Nat
  BY DEF PanelListsInv, EntrySelected
<1>2. PICK t \in Nat, s \in Nat, r \in Nat \ {0} : t = Total(l) /\ s = selected[l] /\ r = ListRows
  BY <1>1, TotalType, ListRowsAre, DapPanelAssumption DEF PanelListsInv
<1>3. PICK h \in Nat : h = r \div 2 /\ h < r /\ h >= 0
  BY <1>2
<1>4. WindowStart(l) = IF t <= r THEN 0 ELSE Clip(s - h, 0, t - r)
  BY <1>2, <1>3 DEF WindowStart
<1>5. /\ WindowStart(l) \in Nat /\ WindowStart(l) <= s /\ s <= WindowStart(l) + r - 1
  <2>1. CASE t <= r
    BY <1>1, <1>2, <1>4, <2>1
  <2>2. CASE t > r
    <3>1. s < t
      BY <1>1, <1>2
    <3>2. WindowStart(l) = IF s - h > t - r THEN t - r ELSE IF s - h < 0 THEN 0 ELSE s - h
      BY <1>4, <2>2 DEF Clip
    <3> QED BY <1>2, <1>3, <2>2, <3>1, <3>2
  <2> QED BY <1>2, <2>1, <2>2
<1> QED BY <1>1, <1>2, <1>5

LEMMA PanelListsKept ==
    ASSUME PanelListsInv, DapPanelNext
    PROVE  PanelListsInv'
<1> USE DapPanelAssumption
<1>0. /\ dapFocus \in Lists \cup {"input"}
      /\ entries \in [{"threads", "frames"} -> 0..MaxEntries]
      /\ selected \in [Lists -> 0..MaxEntries] /\ varStack \in Seq(0..MaxEntries)
      /\ panelRows \in DapHeights /\ typed \in BOOLEAN
  BY DEF PanelListsInv
<1>1. /\ \A l \in Lists : Total(l) \in 0..MaxEntries
      /\ \A l \in Lists : Total(l) > 0 => selected[l] < Total(l)
  BY TotalType DEF PanelListsInv, EntrySelected
<1> DEFINE Fits == \A l \in Lists : Total(l)' > 0 => selected'[l] < Total(l)'
<1>2. Fits => EntrySelected'
  BY DEF EntrySelected
<1>3. CASE \E d \in {1, 3} : Tab(d)
  <2>1. dapFocus' \in Lists \cup {"input"} /\ UNCHANGED <<entries, varStack, selected, panelRows, typed>>
    <3>1. PICK d \in {1, 3} : Tab(d)
      BY <1>3
    <3>2. PICK k \in 1..4 : dapFocus' = Order[((k - 1 + d) % 4) + 1]
      BY <3>1 DEF Tab
    <3>3. ((k - 1 + d) % 4) + 1 \in 1..4
      OBVIOUS
    <3>4. \A i \in 1..4 : Order[i] \in Lists \cup {"input"}
      BY DEF Order, Lists
    <3> QED BY <3>1, <3>2, <3>3, <3>4 DEF Tab
  <2>2. \A l \in Lists : Total(l)' = Total(l)
    BY <2>1 DEF Total, CurrentVars
  <2> QED BY <1>0, <1>1, <1>2, <2>1, <2>2 DEF PanelListsInv
<1>4. CASE MoveSel
  <2>1. PICK i \in Int : SetSel(i)
    <3> DEFINE total == Total(dapFocus)
               at    == selected[dapFocus]
    <3>1. total \in 0..MaxEntries /\ at \in 0..MaxEntries
      BY <1>0, <1>1, <1>4 DEF MoveSel
    <3>2. \A d \in {-1, 1} : (IF total = 0 THEN 0 ELSE (at + d + total) % total) \in Int
      <4> HIDE DEF total, at
      <4> QED BY <3>1
    <3>3. \A d \in {-1, 1} : at + d * ListRows \in Int
      <4> HIDE DEF at
      <4> QED BY <1>0, <3>1, ListRowsAre
    <3>4. total - 1 \in Int
      BY <3>1
    <3> QED BY <1>4, <3>2, <3>3, <3>4 DEF MoveSel
  <2>2. dapFocus \in Lists /\ UNCHANGED <<dapFocus, entries, varStack, panelRows, typed>>
    BY <1>4 DEF MoveSel
  <2>3. PICK s : s = IF Total(dapFocus) = 0 THEN 0 ELSE Clip(i, 0, Total(dapFocus) - 1)
    OBVIOUS
  <2>4. Total(dapFocus) \in 0..MaxEntries
    BY <1>1, <2>2
  <2>5. s \in 0..MaxEntries /\ (Total(dapFocus) > 0 => s < Total(dapFocus))
    BY <2>3, <2>4 DEF Clip
  <2>6. selected' = [selected EXCEPT ![dapFocus] = s]
    BY <2>1, <2>3 DEF SetSel
  <2>7. \A l \in Lists : Total(l)' = Total(l)
    BY <2>2 DEF Total, CurrentVars
  <2> HIDE DEF Fits
  <2>8. Fits
    BY <1>0, <1>1, <2>2, <2>5, <2>6, <2>7 DEF Fits
  <2>9. selected' \in [Lists -> 0..MaxEntries]
    BY <1>0, <2>2, <2>5, <2>6
  <2> QED BY <1>0, <1>2, <2>2, <2>8, <2>9 DEF PanelListsInv
<1>5. CASE \E l \in Lists, i \in 0..MaxEntries : ClickEntry(l, i)
  <2>1. PICK l \in Lists, i \in 0..MaxEntries : ClickEntry(l, i)
    BY <1>5
  <2>2. \A k \in Lists : Total(k)' = Total(k)
    BY <2>1 DEF ClickEntry, Total, CurrentVars
  <2>3. selected' \in [Lists -> 0..MaxEntries] /\ dapFocus' \in Lists
    BY <1>0, <2>1 DEF ClickEntry, Lists
  <2>4. \A k \in Lists : Total(k) > 0 => selected'[k] < Total(k)
    <3>1. \A k \in Lists \ {l, "frames"} : selected'[k] = selected[k]
      BY <1>0, <2>1 DEF ClickEntry, Lists
    <3>2. l # "frames" => selected'[l] = i
      BY <1>0, <2>1 DEF ClickEntry, Lists
    <3>3. selected'["frames"] \in {0, i, selected["frames"]} /\ (selected'["frames"] = i => l = "frames" \/ i = 0 \/ i = selected["frames"])
      BY <1>0, <2>1 DEF ClickEntry, Lists
    <3>4. i < Total(l)
      BY <2>1 DEF ClickEntry
    <3>5. "frames" \in Lists
      BY DEF Lists
    <3> QED BY <1>1, <3>1, <3>2, <3>3, <3>4, <3>5
  <2> QED BY <1>0, <1>2, <2>1, <2>2, <2>3, <2>4 DEF PanelListsInv, ClickEntry
<1>6. CASE \/ CollapseVar \/ PanelStopped \/ PanelContinued
           \/ \E n \in 1..MaxEntries : PushVars(n)
  <2>1. /\ varStack' \in Seq(0..MaxEntries)
        /\ entries' \in [{"threads", "frames"} -> 0..MaxEntries] /\ dapFocus' = dapFocus
        /\ UNCHANGED <<panelRows, typed>>
        /\ selected' \in [Lists -> 0..MaxEntries]
    <3>1. CASE CollapseVar
      <4>1. varStack' = SubSeq(varStack, 1, Len(varStack) - 1)
        BY <3>1 DEF CollapseVar
      <4>2. varStack' \in Seq(0..MaxEntries)
        <5>1. Len(varStack) \in Nat /\ Len(varStack) - 1 \in Int
          BY <1>0, LenProperties
        <5>2. \A i \in 1..(Len(varStack) - 1) : varStack[i] \in 0..MaxEntries
          BY <1>0, <5>1, ElementOfSeq
        <5> QED BY <4>1, <5>1, <5>2, SubSeqProperties
      <4> QED BY <1>0, <3>1, <4>2 DEF CollapseVar, Lists
    <3>2. CASE PanelStopped
      BY <1>0, <3>2 DEF PanelStopped, Lists
    <3>3. CASE PanelContinued
      BY <1>0, <3>3 DEF PanelContinued, Lists
    <3>4. CASE \E n \in 1..MaxEntries : PushVars(n)
      <4>1. PICK n \in 1..MaxEntries : PushVars(n)
        BY <3>4
      <4>2. varStack' = Append(varStack, n) /\ n \in 0..MaxEntries
        BY <4>1 DEF PushVars
      <4> QED BY <1>0, <4>1, <4>2 DEF PushVars, Lists
    <3> QED BY <1>6, <3>1, <3>2, <3>3, <3>4
  <2>2. /\ entries'["threads"] = 0 \/ (entries'["threads"] = entries["threads"] /\ selected'["threads"] = selected["threads"])
        /\ entries'["frames"] = 0 \/ (entries'["frames"] = entries["frames"] /\ selected'["frames"] = selected["frames"])
        /\ varStack' = <<>> \/ selected'["vars"] = 0
    BY <1>0, <1>6 DEF CollapseVar, PanelStopped, PanelContinued, PushVars, Lists
  <2>3. EntrySelected'
    <3>1. EntrySelected
      BY DEF PanelListsInv
    <3>2. varStack' = <<>> => CurrentVars' = 0
      BY DEF CurrentVars
    <3> QED BY <2>1, <2>2, <3>1, <3>2, SelectionsAre, SelectionsWillBe
  <2> QED BY <1>0, <2>1, <2>3 DEF PanelListsInv
<1>7. CASE \E n, k, v \in 0..MaxEntries : ApplyDapRefresh(n, k, v)
  <2>1. PICK n, k, v \in 0..MaxEntries : ApplyDapRefresh(n, k, v)
    BY <1>7
  <2>2. Fetched("threads", n) \in 0..MaxEntries /\ Fetched("frames", k) \in 0..MaxEntries
    BY <1>0 DEF Fetched
  <2>3. Kept("threads", n) \in 0..MaxEntries /\ Kept("frames", k) \in 0..MaxEntries
    BY <1>0 DEF Kept, Lists
  <2>4. /\ Fetched("threads", n) > 0 => Kept("threads", n) < Fetched("threads", n)
        /\ Fetched("frames", k) > 0 => Kept("frames", k) < Fetched("frames", k)
    BY <1>0, <2>2 DEF Kept, Lists
  <2>5. /\ entries'["threads"] = Fetched("threads", n) /\ entries'["frames"] = Fetched("frames", k)
        /\ entries' \in [{"threads", "frames"} -> 0..MaxEntries]
    BY <2>1, <2>2 DEF ApplyDapRefresh
  <2>6. /\ selected'["threads"] = Kept("threads", n) /\ selected'["frames"] = Kept("frames", k)
        /\ selected'["vars"] = IF v = 0 THEN selected["vars"] ELSE 0
        /\ selected' \in [Lists -> 0..MaxEntries]
    BY <1>0, <2>1, <2>3 DEF ApplyDapRefresh, Lists
  <2>7. varStack' \in Seq(0..MaxEntries)
    <3>1. PICK T : T = 0..MaxEntries
      OBVIOUS
    <3>2. v \in T /\ varStack \in Seq(T)
      BY <1>0, <3>1
    <3>3. varStack' = IF v = 0 THEN varStack ELSE <<v>>
      BY <2>1 DEF ApplyDapRefresh
    <3>4. varStack' \in Seq(T)
      BY <3>2, <3>3
    <3> QED BY <3>1, <3>4
  <2>8. CurrentVars' > 0 => selected'["vars"] < CurrentVars'
    <3>1. CASE v = 0
      <4>1. CurrentVars' = CurrentVars
        BY <2>1, <3>1 DEF ApplyDapRefresh, CurrentVars
      <4> QED BY <2>6, <3>1, <4>1, SelectionsAre DEF PanelListsInv
    <3>2. CASE v # 0
      BY <2>6, <3>2
    <3> QED BY <3>1, <3>2
  <2>9. EntrySelected'
    BY <2>4, <2>5, <2>6, <2>8, SelectionsWillBe
  <2> QED BY <1>0, <2>1, <2>5, <2>6, <2>7, <2>9 DEF PanelListsInv, ApplyDapRefresh
<1>8. CASE DapAppendConsole \/ DapScrollConsole \/ DapClearConsole
  <2>1. UNCHANGED listVars
    BY <1>8 DEF DapAppendConsole, DapScrollConsole, DapClearConsole
  <2>2. \A l \in Lists : Total(l)' = Total(l)
    BY <2>1 DEF Total, CurrentVars, listVars
  <2> QED BY <1>0, <1>1, <1>2, <2>1, <2>2 DEF PanelListsInv, listVars
<1>9. CASE Escape \/ TypeExpression \/ EmptyExpression \/ ResizePanel
  <2>1. /\ UNCHANGED <<entries, varStack, selected>> /\ dapFocus' \in Lists \cup {"input"}
        /\ panelRows' \in DapHeights /\ typed' \in BOOLEAN
    BY <1>0, <1>9 DEF Escape, TypeExpression, EmptyExpression, ResizePanel, Lists
  <2>2. \A l \in Lists : Total(l)' = Total(l)
    BY <2>1 DEF Total, CurrentVars
  <2> QED BY <1>0, <1>1, <1>2, <2>1, <2>2 DEF PanelListsInv
<1> QED BY <1>3, <1>4, <1>5, <1>6, <1>7, <1>8, <1>9 DEF DapPanelNext

LEMMA ConsoleKept ==
    ASSUME ConsoleInv, panelRows \in DapHeights, DapPanelNext
    PROVE  ConsoleInv'
<1> USE DapPanelAssumption
<1>1. kept \in 0..DapConsoleMax /\ kept \in Nat /\ scroll \in Nat /\ printed \in Nat /\ ScrollStaysInside
  BY DEF ConsoleInv
<1>2. CASE UNCHANGED consoleVars
  BY <1>1, <1>2 DEF ConsoleInv, consoleVars, ScrollStaysInside
<1>3. CASE DapAppendConsole
  <2> DEFINE dropped == IF kept = DapConsoleMax THEN 1 ELSE 0
             n == kept + 1 - dropped
  <2>1. dropped \in 0..1 /\ n \in 0..DapConsoleMax /\ n \in Nat
    BY <1>1
  <2>2. printed' = printed + 1 /\ kept' = n
        /\ scroll' = IF scroll > 0 THEN ScrollWithin(scroll + 1 - dropped, n) ELSE 0
    BY <1>3 DEF DapAppendConsole
  <2> HIDE DEF n
  <2>3. scroll + 1 - dropped \in Int
    BY <1>1, <2>1
  <2> HIDE DEF dropped
  <2>4. scroll' \in Nat /\ (scroll' < kept' \/ scroll' = 0)
    <3>1. CASE scroll > 0
      BY <2>1, <2>2, <2>3, <3>1, ScrollIsWithin
    <3>2. CASE ~(scroll > 0)
      BY <2>2, <3>2
    <3> QED BY <3>1, <3>2
  <2> QED BY <1>1, <2>1, <2>2, <2>4 DEF ConsoleInv, ScrollStaysInside
<1>4. CASE DapScrollConsole
  <2>1. PICK off \in {scroll - 1, scroll + 1, scroll - ListRows, scroll + ListRows, kept, 0} :
            scroll' = ScrollWithin(off, kept)
    BY <1>4 DEF DapScrollConsole
  <2>2. off \in Int
    BY <1>1, <2>1, ListRowsAre
  <2>3. UNCHANGED <<printed, kept>>
    BY <1>4 DEF DapScrollConsole
  <2> QED BY <1>1, <2>1, <2>2, <2>3, ScrollIsWithin DEF ConsoleInv, ScrollStaysInside
<1>5. CASE DapClearConsole
  BY <1>1, <1>5 DEF ConsoleInv, DapClearConsole, ScrollStaysInside
<1> QED BY <1>2, <1>3, <1>4, <1>5
        DEF DapPanelNext, Tab, MoveSel, CollapseVar, PanelStopped, PanelContinued, ClickEntry,
            ApplyDapRefresh, PushVars, Escape, TypeExpression, EmptyExpression, ResizePanel

\* The panel's types (dap.go, dap_panel.go), and that it keeps a selected entry in
\* each list that has any, draws it, and has its console scrolled to a line it
\* keeps, in panels that change their height under them.
THEOREM DapPanelCorrect == DapPanelSpec => [](DapPanelTypeOK /\ SelectionExists /\ ScrollStaysInside)
<1>1. DapPanelInit => PanelListsInv /\ ConsoleInv
  <2> SUFFICES ASSUME DapPanelInit PROVE PanelListsInv /\ ConsoleInv
    OBVIOUS
  <2>1. CurrentVars = 0
    BY DEF DapPanelInit, CurrentVars
  <2>2. EntrySelected
    BY <2>1 DEF DapPanelInit, EntrySelected, Total
  <2>3. panelRows \in DapHeights /\ typed \in BOOLEAN
    BY DEF DapPanelInit
  <2> QED BY <2>2, <2>3, DapPanelAssumption
          DEF DapPanelInit, PanelListsInv, ConsoleInv, ScrollStaysInside, Lists
<1>2. PanelListsInv /\ ConsoleInv /\ [DapPanelNext]_<<listVars, consoleVars>>
        => PanelListsInv' /\ ConsoleInv'
  <2> SUFFICES ASSUME PanelListsInv, ConsoleInv, [DapPanelNext]_<<listVars, consoleVars>>
               PROVE  PanelListsInv' /\ ConsoleInv'
    OBVIOUS
  <2>1. CASE UNCHANGED <<listVars, consoleVars>>
    BY <2>1 DEF listVars, consoleVars, PanelListsInv, ConsoleInv, EntrySelected, Total, CurrentVars,
                ScrollStaysInside
  <2>2. panelRows \in DapHeights
    BY DEF PanelListsInv
  <2> QED BY <2>1, <2>2, PanelListsKept, ConsoleKept
<1>3. PanelListsInv /\ ConsoleInv => DapPanelTypeOK /\ SelectionExists /\ ScrollStaysInside
  BY EntryIsDrawn DEF PanelListsInv, ConsoleInv, DapPanelTypeOK
<1> QED BY <1>1, <1>2, <1>3, PTL DEF DapPanelSpec

(***************************************************************************)
(* Together on the screen: a step of it is one of one part.                *)
(***************************************************************************)
LEMMA ScreenIsOfItsLists == ScreenSpec => GpSpec /\ PopupSpec /\ DapPanelSpec
<1>1. ScreenInit => GpInit /\ PopupInit /\ DapPanelInit
  BY DEF ScreenInit
<1> DEFINE screenVars == <<scene, paneVars, vars, gpVars, popupVars, dapPanelVars, mcfVars, gdVars>>
<1>2. [ScreenNext]_screenVars => [GpNext]_gpVars
  BY DEF ScreenNext, PanesScene, QuittingScene, GitScene, PopupsScene, PanelScene, ConflictsScene, DiffScene
<1>3. [ScreenNext]_screenVars => [PopupNext]_<<popup, diagVars>>
  BY DEF ScreenNext, PanesScene, QuittingScene, GitScene, PopupsScene, PanelScene, ConflictsScene, DiffScene,
         popupVars
<1>4. [ScreenNext]_screenVars => [DapPanelNext]_<<listVars, consoleVars>>
  BY DEF ScreenNext, PanesScene, QuittingScene, GitScene, PopupsScene, PanelScene, ConflictsScene, DiffScene,
         dapPanelVars
<1> QED BY <1>1, <1>2, <1>3, <1>4, PTL DEF ScreenSpec, GpSpec, PopupSpec, DapPanelSpec

\* Lists of any length, windows of any height: the selected file, commit, popup
\* row, thread, frame and variable exists; popups and the debugger's lists show
\* theirs, files and commits after a move; a focused diff is there, the console
\* scrolled to a line it keeps; and F8 comes past all diagnostics no two of which
\* are at one position.  Branches and the drawn rows of the log are not in it.
THEOREM ListsCorrect == ScreenSpec => ListsAreShown
BY ScreenIsOfItsLists, GpSelectionsCorrect, GpMovesCorrect, PopupsCorrect, DapPanelCorrect, PTL
   DEF ListsAreShown
=============================================================================
