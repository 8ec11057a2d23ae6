--------------------------- MODULE OpenFileProofs ---------------------------
(***************************************************************************)
(* What an open file is compared with: the other branch of a merge         *)
(* (MergeConflicts), the committed text (GitDiff) and the disk (FileSync), *)
(* for any texts, files and bounds.                                        *)
(***************************************************************************)
EXTENDS FileSync, MergeConflicts, GitDiff, RemovalProofs, FiniteSetTheorems, TLAPS

(***************************************************************************)
(* MergeConflicts.  The scan, line by line: what it has found in the lines *)
(* up to n are their conflicts, and an open block is the last start.       *)
(***************************************************************************)
McfText   == Seq(McfLines \cup {"", Ours, Base, Sep, Theirs})
BlockType == [start : Nat, base : Int, sep : Int, end : Int]
ScanType  == [blocks : Seq(BlockType), broken : SUBSET Nat, open : BOOLEAN, cur : BlockType]

\* The scan after each of its lines.
ScanRun(g, text) ==
    /\ g \in [0..Len(text) -> ScanType] /\ g[0] = Unscanned
    /\ \A n \in 1..Len(text) : g[n] = ScanLine(g[n - 1], n - 1, McfAt(text, n - 1))
    /\ ScanConflicts(text) = Scanned(g[Len(text)])

LEMMA TextLen ==
    ASSUME NEW text \in McfText
    PROVE  Len(text) \in Nat /\ DOMAIN text = 1..Len(text)
<1> DEFINE S == McfLines \cup {"", Ours, Base, Sep, Theirs}
<1>1. text \in Seq(S)
  BY DEF McfText
<1> HIDE DEF S
<1> QED BY <1>1, LenProperties

LEMMA UnscannedType == Unscanned \in ScanType
<1>1. Unmarked(0) \in BlockType
  BY DEF Unmarked, BlockType, NoMark
<1>2. <<>> \in Seq(BlockType)
  BY EmptySeq
<1> QED BY <1>1, <1>2 DEF Unscanned, ScanType

LEMMA BlockMarked ==
    ASSUME NEW c \in BlockType, NEW l \in Nat
    PROVE  /\ [c EXCEPT !.base = l] \in BlockType /\ [c EXCEPT !.sep = l] \in BlockType
           /\ [c EXCEPT !.end = l] \in BlockType
BY DEF BlockType

LEMMA ScanLineType ==
    ASSUME NEW a \in ScanType, NEW l \in Nat, NEW line
    PROVE  ScanLine(a, l, line) \in ScanType
<1>1. Unmarked(l) \in BlockType
  BY DEF Unmarked, BlockType, NoMark
<1>2. a.cur \in BlockType /\ a.cur.start \in Nat /\ a.blocks \in Seq(BlockType) /\ a.broken \subseteq Nat
  BY DEF ScanType, BlockType
<1>3. [a.cur EXCEPT !.base = l] \in BlockType /\ [a.cur EXCEPT !.sep = l] \in BlockType
      /\ [a.cur EXCEPT !.end = l] \in BlockType
  BY <1>2, BlockMarked
<1>4. Append(a.blocks, [a.cur EXCEPT !.end = l]) \in Seq(BlockType)
  BY <1>2, <1>3
<1>5. (IF a.open THEN a.broken \cup {a.cur.start} ELSE a.broken) \in SUBSET Nat
  BY <1>2
<1> QED BY <1>1, <1>2, <1>3, <1>4, <1>5 DEF ScanLine, ScanType

LEMMA ScanRuns ==
    ASSUME NEW text \in McfText
    PROVE  \E g : ScanRun(g, text)
<1> DEFINE Made(g) == g = [n \in 0..Len(text) |->
                             IF n = 0 THEN Unscanned
                             ELSE ScanLine(g[n - 1], n - 1, McfAt(text, n - 1))]
           turn == [n \in 1..Len(text) |-> [a \in ScanType |-> ScanLine(a, n - 1, McfAt(text, n - 1))]]
           k == CHOOSE g : Made(g)
<1>1. Len(text) \in Nat
  BY TextLen
<1>2. turn \in [1..Len(text) -> [ScanType -> ScanType]]
  <2>1. ASSUME NEW n \in 1..Len(text), NEW a \in ScanType
        PROVE  ScanLine(a, n - 1, McfAt(text, n - 1)) \in ScanType
    BY <1>1, ScanLineType
  <2> QED BY <2>1
<1>3. PICK g : Runs(Len(text), ScanType, Unscanned, turn, g)
  <2> HIDE DEF turn
  <2> QED BY <1>1, <1>2, UnscannedType, LoopRuns
<1>4. Made(g)
  <2>1. ASSUME NEW n \in 0..Len(text)
        PROVE  g[n] = IF n = 0 THEN Unscanned
                      ELSE ScanLine(g[n - 1], n - 1, McfAt(text, n - 1))
    <3>1. CASE n = 0
      BY <3>1, <1>3 DEF Runs
    <3>2. CASE n # 0
      <4>1. n \in 1..Len(text) /\ n - 1 \in 0..Len(text)
        BY <3>2, <1>1
      <4>2. g[n] = turn[n][g[n - 1]] /\ g[n - 1] \in ScanType
        <5> HIDE DEF turn
        <5> QED BY <4>1, <1>3 DEF Runs
      <4> QED BY <4>1, <4>2, <3>2
    <3> QED BY <3>1, <3>2
  <2>2. g = [n \in 0..Len(text) |-> g[n]]
    BY <1>3 DEF Runs
  <2> HIDE DEF turn
  <2> QED BY <2>1, <2>2
<1>5. Made(k)
  <2> HIDE DEF Made
  <2> QED BY <1>4
<1>6. ScanConflicts(text) = Scanned(k[Len(text)])
  BY DEF ScanConflicts
<1> HIDE DEF k
<1>7. k[0] = Unscanned /\ \A n \in 1..Len(text) : k[n] = ScanLine(k[n - 1], n - 1, McfAt(text, n - 1))
  <2>1. ASSUME NEW n \in 0..Len(text)
        PROVE  k[n] = IF n = 0 THEN Unscanned ELSE ScanLine(k[n - 1], n - 1, McfAt(text, n - 1))
    BY <1>5
  <2> QED BY <2>1, <1>1
<1>8. ASSUME NEW m \in 0..(Len(text) - 1), k[m] \in ScanType PROVE k[m + 1] \in ScanType
  <2>1. m + 1 \in 1..Len(text) /\ (m + 1) - 1 = m /\ m \in Nat
    BY <1>1
  <2> QED BY <2>1, <1>7, <1>8, ScanLineType
<1>9. \A m \in 0..Len(text) : k[m] \in ScanType
  BY <1>1, <1>7, <1>8, StaysIn, UnscannedType
<1>10. k = [m \in 0..Len(text) |-> k[m]]
  BY <1>5
<1> HIDE DEF Made
<1> QED BY <1>6, <1>7, <1>9, <1>10 DEF ScanRun
-----------------------------------------------------------------------------
\* The first line with a mark behind line l.
First(text, mark, l, p) ==
    /\ l < p /\ p < Len(text) /\ McfAt(text, p) = mark
    /\ \A j \in (l + 1)..(p - 1) : McfAt(text, j) # mark

LEMMA FirstIs ==
    ASSUME NEW text \in McfText, NEW mark, NEW l \in Nat, NEW p \in Nat, First(text, mark, l, p)
    PROVE  FirstAfter(text, mark, l) = p
<1> DEFINE At == {j \in (l + 1)..(Len(text) - 1) : McfAt(text, j) = mark}
           Is(i) == \A j \in (l + 1)..(i - 1) : McfAt(text, j) # mark
<1>1. Len(text) \in Nat
  BY TextLen
<1>2. p \in At /\ Is(p)
  BY <1>1 DEF First
<1>3. ASSUME NEW i \in At, Is(i) PROVE i = p
  <2>1. i \in (l + 1)..(Len(text) - 1) /\ p \in (l + 1)..(Len(text) - 1)
    BY <1>2
  <2>2. ~(p < i) /\ ~(i < p)
    BY <1>2, <1>3, <2>1, <1>1
  <2> QED BY <2>1, <2>2, <1>1
<1>4. FirstAfter(text, mark, l) = CHOOSE i \in At : Is(i)
  BY DEF FirstAfter
<1> HIDE DEF At, Is
<1> QED BY <1>2, <1>3, <1>4

LEMMA FirstExists ==
    ASSUME NEW text \in McfText, NEW mark, NEW l \in Nat, NEW j \in Nat,
           l < j, j < Len(text), McfAt(text, j) = mark
    PROVE  \E p \in Nat : p <= j /\ First(text, mark, l, p)
<1> DEFINE S == {i \in Nat : l < i /\ i <= j /\ McfAt(text, i) = mark}
<1>1. S \subseteq Nat /\ S # {} /\ Len(text) \in Nat
  BY TextLen
<1>2. PICK p \in S : \A i \in S : p <= i
  <2> HIDE DEF S
  <2> QED BY <1>1, Least
<1>3. p \in Nat /\ p <= j /\ l < p /\ p < Len(text) /\ McfAt(text, p) = mark
  BY <1>1, <1>2
<1>4. ASSUME NEW i \in (l + 1)..(p - 1), McfAt(text, i) = mark PROVE FALSE
  <2>1. i \in Nat /\ l < i /\ i <= j /\ i < p
    BY <1>3
  <2>2. i \in S
    BY <2>1, <1>4
  <2> QED BY <2>1, <2>2, <1>2, <1>3
<1> QED BY <1>3, <1>4 DEF First

LEMMA FirstIsOne ==
    ASSUME NEW text \in McfText, NEW mark, NEW l \in Nat, NEW p \in Nat, NEW q \in Nat,
           First(text, mark, l, p), First(text, mark, l, q)
    PROVE  p = q
BY FirstIs

\* A conflict, with its separator.
Complete(text, s, p, e) ==
    /\ McfAt(text, s) = Ours /\ First(text, Sep, s, p) /\ First(text, Theirs, p, e)
    /\ \A l \in (s + 1)..e : McfAt(text, l) # Ours

LEMMA ConflictIs ==
    ASSUME NEW text \in McfText, NEW s \in 0..(Len(text) - 1), NEW e \in 0..(Len(text) - 1)
    PROVE  ConflictOn(text, s, e) <=> \E p \in Nat : Complete(text, s, p, e)
<1>1. Len(text) \in Nat /\ s \in Nat /\ e \in Nat /\ s < Len(text) /\ e < Len(text)
  BY TextLen
<1>2. ASSUME ConflictOn(text, s, e) PROVE \E p \in Nat : Complete(text, s, p, e)
  <2>1. PICK j \in (s + 1)..(e - 1) : McfAt(text, j) = Sep
    BY <1>2 DEF ConflictOn
  <2> j \in Nat /\ s < j /\ j < Len(text)
    BY <1>1
  <2>2. PICK p \in Nat : p <= j /\ First(text, Sep, s, p)
    BY <1>1, <2>1, FirstExists
  <2>3. p < e /\ McfAt(text, e) = Theirs
    BY <2>1, <2>2, <1>1, <1>2 DEF ConflictOn
  <2>4. PICK q \in Nat : q <= e /\ First(text, Theirs, p, q)
    BY <1>1, <2>3, FirstExists
  <2>5. FirstAfter(text, Sep, s) = p /\ FirstAfter(text, Theirs, p) = q
    BY <1>1, <2>2, <2>4, FirstIs
  <2>6. q = e
    BY <2>5, <1>2 DEF ConflictOn
  <2> QED BY <2>2, <2>4, <2>6, <1>2 DEF ConflictOn, Complete
<1>3. ASSUME NEW p \in Nat, Complete(text, s, p, e) PROVE ConflictOn(text, s, e)
  <2>1. First(text, Sep, s, p) /\ First(text, Theirs, p, e)
    BY <1>3 DEF Complete
  <2>2. FirstAfter(text, Sep, s) = p /\ FirstAfter(text, Theirs, p) = e
    BY <1>1, <2>1, FirstIs
  <2>3. s < p /\ p < e /\ McfAt(text, p) = Sep /\ McfAt(text, e) = Theirs
    BY <2>1 DEF First
  <2>4. p \in (s + 1)..(e - 1)
    BY <2>3, <1>1
  <2> QED BY <1>1, <1>3, <2>2, <2>3, <2>4 DEF ConflictOn, Complete
<1> QED BY <1>2, <1>3

LEMMA CompleteIsOne ==
    ASSUME NEW text \in McfText, NEW s \in Nat, NEW p \in Nat, NEW e \in Nat, NEW q \in Nat, NEW f \in Nat,
           Complete(text, s, p, e), Complete(text, s, q, f)
    PROVE  p = q /\ e = f
<1>1. p = q
  BY FirstIsOne DEF Complete
<1> QED BY <1>1, FirstIsOne DEF Complete
-----------------------------------------------------------------------------
\* What the scan knows after n lines.
FoundAre(text, n, blocks) ==
    /\ \A i \in DOMAIN blocks :
          LET b == blocks[i]
          IN /\ b.sep \in Nat /\ b.end \in Nat /\ b.end < n /\ Complete(text, b.start, b.sep, b.end)
             /\ b.base # NoMark => McfAt(text, b.base) = Base /\ b.start < b.base /\ b.base < b.sep
    /\ \A i, j \in DOMAIN blocks : i < j => blocks[i].end < blocks[j].start
AllFound(text, n, blocks) ==
    \A s, p, e \in Nat : e < n /\ Complete(text, s, p, e) => \E i \in DOMAIN blocks : blocks[i].start = s
OpenIs(text, n, c, blocks) ==
    /\ c.start < n /\ McfAt(text, c.start) = Ours
    /\ \A l \in (c.start + 1)..(n - 1) : McfAt(text, l) # Ours
    /\ \/ c.sep = NoMark /\ \A l \in (c.start + 1)..(n - 1) : McfAt(text, l) # Sep
       \/ /\ c.sep \in Nat /\ c.sep < n /\ First(text, Sep, c.start, c.sep)
          /\ \A l \in (c.sep + 1)..(n - 1) : McfAt(text, l) # Theirs
    /\ c.base # NoMark => /\ McfAt(text, c.base) = Base /\ c.start < c.base /\ c.base < n
                          /\ c.sep # NoMark => c.base < c.sep
    /\ \A i \in DOMAIN blocks : blocks[i].end < c.start
NoneOpen(text, n, blocks) ==
    \A s \in Nat : s < n /\ McfAt(text, s) = Ours => \E i \in DOMAIN blocks : s <= blocks[i].start
BrokenAre(text, n, a) ==
    a.broken = {l \in Nat : /\ l < n /\ McfAt(text, l) = Ours
                            /\ \A i \in DOMAIN a.blocks : a.blocks[i].start # l
                            /\ ~(a.open /\ l = a.cur.start)}

ScanKnows(text, n, a) ==
    /\ FoundAre(text, n, a.blocks) /\ AllFound(text, n, a.blocks)
    /\ a.open => OpenIs(text, n, a.cur, a.blocks)
    /\ ~a.open => NoneOpen(text, n, a.blocks)
    /\ BrokenAre(text, n, a)

LEMMA NoneIsNew ==
    ASSUME NEW text \in McfText, NEW n \in Nat, NEW blocks \in Seq(BlockType),
           FoundAre(text, n, blocks), AllFound(text, n, blocks),
           \A s, p \in Nat : ~Complete(text, s, p, n)
    PROVE  FoundAre(text, n + 1, blocks) /\ AllFound(text, n + 1, blocks)
<1>1. FoundAre(text, n + 1, blocks)
  <2>1. ASSUME NEW i \in DOMAIN blocks PROVE blocks[i].end \in Nat => (blocks[i].end < n => blocks[i].end < n + 1)
    OBVIOUS
  <2> QED BY <2>1 DEF FoundAre
<1>2. ASSUME NEW s \in Nat, NEW p \in Nat, NEW e \in Nat, e < n + 1, Complete(text, s, p, e)
      PROVE  \E i \in DOMAIN blocks : blocks[i].start = s
  <2>1. e # n
    BY <1>2
  <2>2. e < n
    BY <2>1, <1>2
  <2> QED BY <2>2, <1>2 DEF AllFound
<1> QED BY <1>1, <1>2 DEF AllFound

LEMMA BlockOf ==
    ASSUME NEW blocks \in Seq(BlockType), NEW i \in DOMAIN blocks
    PROVE  blocks[i] \in BlockType /\ blocks[i].start \in Nat /\ i \in Nat
<1>1. blocks[i] \in BlockType /\ i \in Nat
  BY ElementOfSeq, LenProperties
<1> QED BY <1>1 DEF BlockType

LEMMA CompleteEnds ==
    ASSUME NEW text \in McfText, NEW s \in Nat, NEW p \in Nat, NEW e \in Nat, Complete(text, s, p, e)
    PROVE  s < p /\ p < e /\ e < Len(text) /\ McfAt(text, e) = Theirs /\ McfAt(text, s) = Ours
BY DEF Complete, First

\* A line that ends nothing.
LEMMA NothingEnds ==
    ASSUME NEW text \in McfText, NEW n \in Nat, NEW a \in ScanType, ScanKnows(text, n, a),
           McfAt(text, n) # Theirs \/ ~a.open \/ a.cur.sep = NoMark
    PROVE  \A s, p \in Nat : ~Complete(text, s, p, n)
<1> SUFFICES ASSUME NEW s \in Nat, NEW p \in Nat, Complete(text, s, p, n) PROVE FALSE
  OBVIOUS
<1>1. s < p /\ p < n /\ n < Len(text) /\ McfAt(text, n) = Theirs /\ McfAt(text, s) = Ours /\ s < n
  BY CompleteEnds
<1>2. \A l \in (s + 1)..n : McfAt(text, l) # Ours
  BY DEF Complete
<1>3. a.blocks \in Seq(BlockType) /\ a.cur \in BlockType
  BY DEF ScanType
<1>4. CASE ~a.open
  <2>1. PICK i \in DOMAIN a.blocks : s <= a.blocks[i].start
    BY <1>1, <1>4 DEF ScanKnows, NoneOpen
  <2> DEFINE b == a.blocks[i]
  <2>2. b.start \in Nat /\ b.sep \in Nat /\ b.end \in Nat /\ b.end < n /\ Complete(text, b.start, b.sep, b.end)
    BY <1>3, BlockOf DEF ScanKnows, FoundAre
  <2>3. b.start < b.sep /\ b.sep < b.end /\ McfAt(text, b.start) = Ours
    BY <2>2, CompleteEnds
  <2> HIDE DEF b
  <2>4. b.start = s
    <3>1. b.start \notin (s + 1)..n
      BY <1>2, <2>3
    <3> QED BY <3>1, <2>1, <2>2, <2>3 DEF b
  <2>5. b.end = n
    BY <2>2, <2>4, CompleteIsOne
  <2> QED BY <2>5, <2>2
<1>5. CASE a.open /\ a.cur.sep = NoMark
  <2> DEFINE c == a.cur
  <2>1. c.start \in Nat
    BY <1>3 DEF BlockType
  <2>2. /\ c.start < n /\ McfAt(text, c.start) = Ours
        /\ \A l \in (c.start + 1)..(n - 1) : McfAt(text, l) # Ours
        /\ \A l \in (c.start + 1)..(n - 1) : McfAt(text, l) # Sep
    BY <1>5 DEF ScanKnows, OpenIs, NoMark
  <2> HIDE DEF c
  <2>3. s = c.start
    <3>1. s \notin (c.start + 1)..(n - 1) /\ c.start \notin (s + 1)..n
      BY <1>1, <1>2, <2>2
    <3> QED BY <3>1, <2>1, <2>2, <1>1
  <2>4. p \in (c.start + 1)..(n - 1) /\ McfAt(text, p) = Sep
    BY <1>1, <2>3, <2>1 DEF Complete, First
  <2> QED BY <2>2, <2>4
<1> QED BY <1>1, <1>4, <1>5

\* The cases of a line.
LEMMA StartKnows ==
    ASSUME NEW text \in McfText, NEW n \in Nat, NEW a \in ScanType, ScanKnows(text, n, a),
           McfAt(text, n) = Ours
    PROVE  ScanKnows(text, n + 1, ScanLine(a, n, McfAt(text, n)))
<1> DEFINE z == ScanLine(a, n, McfAt(text, n))
<1>1. z = [a EXCEPT !.broken = IF a.open THEN @ \cup {a.cur.start} ELSE @,
                    !.cur = Unmarked(n), !.open = TRUE]
  BY DEF ScanLine, Ours, Base, Sep, Theirs
<1>2. /\ z.blocks = a.blocks /\ z.open = TRUE /\ z.cur = Unmarked(n)
      /\ z.broken = IF a.open THEN a.broken \cup {a.cur.start} ELSE a.broken
  BY <1>1 DEF ScanType
<1> HIDE DEF z
<1>3. a.blocks \in Seq(BlockType) /\ a.cur \in BlockType /\ a.cur.start \in Nat
  BY DEF ScanType, BlockType
<1>4. FoundAre(text, n, a.blocks) /\ AllFound(text, n, a.blocks)
  BY DEF ScanKnows
<1>5. \A s, p \in Nat : ~Complete(text, s, p, n)
  BY NothingEnds DEF Ours, Theirs
<1>6. FoundAre(text, n + 1, z.blocks) /\ AllFound(text, n + 1, z.blocks)
  BY <1>2, <1>3, <1>4, <1>5, NoneIsNew
<1>7. ASSUME NEW i \in DOMAIN a.blocks
      PROVE  a.blocks[i].start \in Nat /\ a.blocks[i].end \in Nat /\ a.blocks[i].end < n
             /\ a.blocks[i].start < a.blocks[i].end
  <2>1. a.blocks[i].start \in Nat /\ a.blocks[i].sep \in Nat /\ a.blocks[i].end \in Nat /\ a.blocks[i].end < n
        /\ Complete(text, a.blocks[i].start, a.blocks[i].sep, a.blocks[i].end)
    BY <1>3, <1>4, BlockOf DEF FoundAre
  <2> QED BY <2>1, CompleteEnds
<1>8. OpenIs(text, n + 1, z.cur, z.blocks)
  <2>1. z.cur.start = n /\ z.cur.sep = NoMark /\ z.cur.base = NoMark
    BY <1>2 DEF Unmarked
  <2> QED BY <2>1, <1>2, <1>7 DEF OpenIs
<1>9. BrokenAre(text, n + 1, z)
  <2> DEFINE In(l) == /\ l < n + 1 /\ McfAt(text, l) = Ours
                      /\ \A i \in DOMAIN a.blocks : a.blocks[i].start # l
                      /\ l # n
             Was(l) == /\ l < n /\ McfAt(text, l) = Ours
                       /\ \A i \in DOMAIN a.blocks : a.blocks[i].start # l
                       /\ ~(a.open /\ l = a.cur.start)
  <2>1. a.broken = {l \in Nat : Was(l)}
    BY DEF ScanKnows, BrokenAre
  <2>2. a.open => In(a.cur.start)
    <3>1. a.open => /\ a.cur.start < n /\ McfAt(text, a.cur.start) = Ours
                    /\ \A i \in DOMAIN a.blocks : a.blocks[i].end < a.cur.start
      BY DEF ScanKnows, OpenIs
    <3> QED BY <3>1, <1>3, <1>7
  <2>3. ASSUME NEW l \in Nat PROVE In(l) <=> Was(l) \/ (a.open /\ l = a.cur.start)
    <3>1. (l < n + 1 /\ l # n) <=> l < n
      OBVIOUS
    <3>2. In(l) => Was(l) \/ (a.open /\ l = a.cur.start)
      BY <3>1
    <3>3. Was(l) => In(l)
      BY <3>1
    <3> HIDE DEF In, Was
    <3> QED BY <3>2, <3>3, <2>2
  <2>4. z.broken = {l \in Nat : In(l)}
    <3> HIDE DEF In, Was
    <3> QED BY <2>1, <2>3, <1>2, <1>3
  <2>5. z.cur.start = n
    BY <1>2 DEF Unmarked
  <2> QED BY <2>4, <2>5, <1>2 DEF BrokenAre
<1>10. ScanKnows(text, n + 1, z)
  BY <1>2, <1>6, <1>8, <1>9 DEF ScanKnows
<1> QED BY <1>10 DEF z

\* A line that is no start and ends nothing leaves what was found, and an open
\* block open, with what it notes in it.
LEMMA InnerKnows ==
    ASSUME NEW text \in McfText, NEW n \in Nat, NEW a \in ScanType, ScanKnows(text, n, a),
           McfAt(text, n) # Ours, \A s, p \in Nat : ~Complete(text, s, p, n),
           NEW c \in BlockType, c.start = a.cur.start, a.open => OpenIs(text, n + 1, c, a.blocks)
    PROVE  ScanKnows(text, n + 1, [a EXCEPT !.cur = c])
<1> DEFINE z == [a EXCEPT !.cur = c]
<1>1. z.blocks = a.blocks /\ z.open = a.open /\ z.cur = c /\ z.broken = a.broken
  BY DEF ScanType
<1> HIDE DEF z
<1>2. a.blocks \in Seq(BlockType)
  BY DEF ScanType
<1>3. FoundAre(text, n + 1, a.blocks) /\ AllFound(text, n + 1, a.blocks)
  BY <1>2, NoneIsNew DEF ScanKnows
<1>4. ~a.open => NoneOpen(text, n + 1, a.blocks)
  <2> SUFFICES ASSUME ~a.open, NEW s \in Nat, s < n + 1, McfAt(text, s) = Ours
               PROVE  \E i \in DOMAIN a.blocks : s <= a.blocks[i].start
    BY DEF NoneOpen
  <2>1. s # n
    OBVIOUS
  <2>2. s < n
    BY <2>1
  <2> QED BY <2>2 DEF ScanKnows, NoneOpen
<1>5. BrokenAre(text, n + 1, z)
  <2>1. ASSUME NEW l \in Nat, McfAt(text, l) = Ours PROVE l < n + 1 <=> l < n
    <3>1. l # n
      BY <2>1
    <3> QED BY <3>1
  <2> QED BY <1>1, <2>1 DEF ScanKnows, BrokenAre
<1>6. ScanKnows(text, n + 1, z)
  BY <1>1, <1>3, <1>4, <1>5 DEF ScanKnows
<1> QED BY <1>6 DEF z

LEMMA EndKnows ==
    ASSUME NEW text \in McfText, NEW n \in Nat, n < Len(text), NEW a \in ScanType, ScanKnows(text, n, a),
           McfAt(text, n) = Theirs, a.open, a.cur.sep # NoMark
    PROVE  ScanKnows(text, n + 1, [a EXCEPT !.blocks = Append(@, [a.cur EXCEPT !.end = n]), !.open = FALSE])
<1> DEFINE z == [a EXCEPT !.blocks = Append(@, [a.cur EXCEPT !.end = n]), !.open = FALSE]
           b == [a.cur EXCEPT !.end = n]
           c == a.cur
           bs == a.blocks
<1>1. z.blocks = Append(bs, b) /\ z.open = FALSE /\ z.cur = c /\ z.broken = a.broken
  BY DEF ScanType
<1>2. c \in BlockType /\ c.start \in Nat /\ c.sep \in Int /\ c.base \in Int /\ bs \in Seq(BlockType)
  BY DEF ScanType, BlockType
<1>3. b.start = c.start /\ b.base = c.base /\ b.sep = c.sep /\ b.end = n /\ b \in BlockType
  BY <1>2 DEF BlockType
<1> HIDE DEF z, b
<1>4. /\ c.start < n /\ McfAt(text, c.start) = Ours
      /\ \A l \in (c.start + 1)..(n - 1) : McfAt(text, l) # Ours
      /\ c.sep \in Nat /\ c.sep < n /\ First(text, Sep, c.start, c.sep)
      /\ \A l \in (c.sep + 1)..(n - 1) : McfAt(text, l) # Theirs
      /\ c.base # NoMark => McfAt(text, c.base) = Base /\ c.start < c.base /\ c.base < c.sep
      /\ \A i \in DOMAIN bs : bs[i].end < c.start
  BY DEF ScanKnows, OpenIs
<1> HIDE DEF c, bs
<1>5. Complete(text, c.start, c.sep, n)
  <2>1. First(text, Theirs, c.sep, n)
    BY <1>4, TextLen DEF First
  <2>2. ASSUME NEW l \in (c.start + 1)..n PROVE McfAt(text, l) # Ours
    <3>1. CASE l = n
      BY <3>1 DEF Ours, Theirs
    <3>2. CASE l # n
      BY <3>2, <1>2, <1>4
    <3> QED BY <3>1, <3>2
  <2> QED BY <1>4, <2>1, <2>2 DEF Complete
<1>6. FoundAre(text, n, bs) /\ AllFound(text, n, bs)
  BY DEF ScanKnows, bs
<1>7. /\ DOMAIN Append(bs, b) = 1..(Len(bs) + 1) /\ Append(bs, b)[Len(bs) + 1] = b
      /\ \A i \in DOMAIN bs : Append(bs, b)[i] = bs[i]
      /\ DOMAIN bs = 1..Len(bs) /\ Len(bs) \in Nat
  BY <1>2, <1>3, AppendProperties, LenProperties
<1> DEFINE new == Append(bs, b)
           Good(x, m) == /\ x.sep \in Nat /\ x.end \in Nat /\ x.end < m /\ Complete(text, x.start, x.sep, x.end)
                         /\ x.base # NoMark => McfAt(text, x.base) = Base /\ x.start < x.base /\ x.base < x.sep
<1>8. FoundAre(text, n + 1, new)
  <2>1. Good(b, n + 1)
    BY <1>3, <1>4, <1>5
  <2>2. ASSUME NEW i \in DOMAIN bs PROVE Good(bs[i], n + 1) /\ bs[i].end < c.start
    <3>1. Good(bs[i], n)
      BY <1>6 DEF FoundAre
    <3> QED BY <3>1, <1>4
  <2>3. ASSUME NEW i \in DOMAIN new PROVE Good(new[i], n + 1)
    <3> HIDE DEF Good
    <3>1. i \in DOMAIN bs \/ i = Len(bs) + 1
      BY <1>7
    <3> QED BY <3>1, <2>1, <2>2, <1>7
  <2>4. ASSUME NEW i \in DOMAIN new, NEW j \in DOMAIN new, i < j PROVE new[i].end < new[j].start
    <3>1. i \in DOMAIN bs
      BY <2>4, <1>7
    <3>2. CASE j \in DOMAIN bs
      BY <3>1, <3>2, <1>6, <1>7, <2>4 DEF FoundAre
    <3>3. CASE j = Len(bs) + 1
      BY <3>1, <3>3, <2>2, <1>7, <1>3
    <3> QED BY <3>2, <3>3, <1>7
  <2> HIDE DEF new
  <2> QED BY <2>3, <2>4 DEF FoundAre
<1>9. \E i \in DOMAIN new : new[i].start = c.start
  BY <1>7, <1>3
<1>10. AllFound(text, n + 1, new)
  <2> SUFFICES ASSUME NEW s \in Nat, NEW p \in Nat, NEW e \in Nat, e < n + 1, Complete(text, s, p, e)
               PROVE  \E i \in DOMAIN new : new[i].start = s
    BY DEF AllFound
  <2>1. CASE e < n
    <3>1. PICK i \in DOMAIN bs : bs[i].start = s
      BY <2>1, <1>6 DEF AllFound
    <3> QED BY <3>1, <1>7
  <2>2. CASE e = n
    <3>1. s < n /\ McfAt(text, s) = Ours /\ s < p /\ p < n
      BY <2>2, CompleteEnds
    <3>2. \A l \in (s + 1)..n : McfAt(text, l) # Ours
      BY <2>2 DEF Complete
    <3>3. s \notin (c.start + 1)..(n - 1) /\ c.start \notin (s + 1)..n
      BY <3>1, <3>2, <1>4
    <3>4. s = c.start
      BY <3>1, <3>3, <1>2, <1>4
    <3> QED BY <3>4, <1>9
  <2> QED BY <2>1, <2>2
<1>11. NoneOpen(text, n + 1, new)
  <2> SUFFICES ASSUME NEW s \in Nat, s < n + 1, McfAt(text, s) = Ours
               PROVE  \E i \in DOMAIN new : s <= new[i].start
    BY DEF NoneOpen
  <2>1. s # n
    BY DEF Ours, Theirs
  <2>2. s \notin (c.start + 1)..(n - 1)
    BY <1>4
  <2>3. s <= c.start
    BY <2>1, <2>2, <1>2
  <2> QED BY <2>3, <1>9
<1>12. BrokenAre(text, n + 1, z)
  <2>1. a.broken = {l \in Nat : /\ l < n /\ McfAt(text, l) = Ours
                                /\ \A i \in DOMAIN bs : bs[i].start # l
                                /\ l # c.start}
    BY DEF ScanKnows, BrokenAre, bs, c
  <2>2. ASSUME NEW l \in Nat, McfAt(text, l) = Ours PROVE l < n + 1 <=> l < n
    <3>1. l # n
      BY <2>2 DEF Ours, Theirs
    <3> QED BY <3>1
  <2>3. ASSUME NEW l \in Nat
        PROVE  (\A i \in DOMAIN new : new[i].start # l) <=>
                  (\A i \in DOMAIN bs : bs[i].start # l) /\ l # c.start
    <3>1. \A i \in DOMAIN new : (i \in DOMAIN bs /\ new[i] = bs[i]) \/ (i = Len(bs) + 1 /\ new[i] = b)
      <4> SUFFICES ASSUME NEW i \in 1..(Len(bs) + 1)
                   PROVE  (i \in DOMAIN bs /\ new[i] = bs[i]) \/ (i = Len(bs) + 1 /\ new[i] = b)
        BY <1>7
      <4>1. i \in DOMAIN bs \/ i = Len(bs) + 1
        BY <1>7
      <4> QED BY <4>1, <1>7
    <3>2. \A i \in DOMAIN bs : i \in DOMAIN new /\ new[i] = bs[i]
      BY <1>7
    <3>3. Len(bs) + 1 \in DOMAIN new /\ new[Len(bs) + 1] = b
      BY <1>7
    <3> HIDE DEF new
    <3> QED BY ONLY <3>1, <3>2, <3>3, <1>3
  <2> HIDE DEF new
  <2>4. z.blocks = new /\ z.open = FALSE /\ z.broken = a.broken
    BY <1>1 DEF new
  <2>5. ASSUME NEW l \in Nat
        PROVE  l \in a.broken <=> /\ l < n + 1 /\ McfAt(text, l) = Ours
                                  /\ \A i \in DOMAIN new : new[i].start # l
    <3>1. l \in a.broken <=> /\ l < n /\ McfAt(text, l) = Ours
                             /\ \A i \in DOMAIN bs : bs[i].start # l
                             /\ l # c.start
      BY ONLY <2>1, <2>5
    <3> QED BY ONLY <2>2, <2>3, <2>5, <3>1
  <2>6. a.broken \subseteq Nat
    BY ONLY <2>1
  <2>7. ASSUME NEW l \in Nat
        PROVE  l \in a.broken <=> /\ l < n + 1 /\ McfAt(text, l) = Ours
                                  /\ \A i \in DOMAIN z.blocks : z.blocks[i].start # l
                                  /\ ~(z.open /\ l = z.cur.start)
    BY ONLY <2>4, <2>5, <2>7
  <2>8. a.broken = {l \in Nat : /\ l < n + 1 /\ McfAt(text, l) = Ours
                                /\ \A i \in DOMAIN z.blocks : z.blocks[i].start # l
                                /\ ~(z.open /\ l = z.cur.start)}
    BY ONLY <2>6, <2>7
  <2> QED BY ONLY <2>4, <2>8 DEF BrokenAre
<1>13. ScanKnows(text, n + 1, z)
  BY <1>1, <1>8, <1>10, <1>11, <1>12 DEF ScanKnows
<1> QED BY <1>13 DEF z

LEMMA LineKnows ==
    ASSUME NEW text \in McfText, NEW n \in Nat, n < Len(text), NEW a \in ScanType, ScanKnows(text, n, a)
    PROVE  ScanKnows(text, n + 1, ScanLine(a, n, McfAt(text, n)))
<1> DEFINE line == McfAt(text, n)
           c == a.cur
           z == ScanLine(a, n, line)
<1> USE DEF Ours, Base, Sep, Theirs
<1>1. c \in BlockType /\ c.start \in Nat /\ c.sep \in Int /\ c.base \in Int /\ a.open \in BOOLEAN
  BY DEF ScanType, BlockType
<1>2. a.open => OpenIs(text, n, c, a.blocks)
  BY DEF ScanKnows
<1>3. CASE line = Ours
  BY <1>3, StartKnows
<1>4. CASE a.open /\ line = Base /\ c.base = NoMark /\ c.sep = NoMark
  <2> DEFINE d == [c EXCEPT !.base = n]
  <2>1. z = [a EXCEPT !.cur = d]
    BY <1>4 DEF ScanLine
  <2>2. d \in BlockType /\ d.start = c.start /\ d.base = n /\ d.sep = NoMark
    BY <1>1, <1>4, BlockMarked DEF BlockType
  <2>3. OpenIs(text, n + 1, d, a.blocks)
    <3> HIDE DEF d, c
    <3> QED BY <1>1, <1>2, <1>4, <2>2 DEF OpenIs, NoMark
  <2>4. \A s, p \in Nat : ~Complete(text, s, p, n)
    BY <1>4, NothingEnds
  <2> HIDE DEF d, z
  <2>5. ScanKnows(text, n + 1, [a EXCEPT !.cur = d])
    BY <1>4, <2>2, <2>3, <2>4, InnerKnows
  <2> QED BY <2>1, <2>5 DEF z
<1>5. CASE a.open /\ line = Sep /\ c.sep = NoMark
  <2> DEFINE d == [c EXCEPT !.sep = n]
  <2>1. z = [a EXCEPT !.cur = d]
    BY <1>5 DEF ScanLine
  <2>2. d \in BlockType /\ d.start = c.start /\ d.base = c.base /\ d.sep = n
    BY <1>1, BlockMarked DEF BlockType
  <2>3. OpenIs(text, n + 1, d, a.blocks)
    <3> HIDE DEF d, c
    <3>1. First(text, Sep, d.start, n)
      BY <1>1, <1>2, <1>5, <2>2 DEF OpenIs, NoMark, First
    <3> QED BY <1>1, <1>2, <1>5, <2>2, <3>1 DEF OpenIs, NoMark
  <2>4. \A s, p \in Nat : ~Complete(text, s, p, n)
    BY <1>5, NothingEnds
  <2> HIDE DEF d, z
  <2>5. ScanKnows(text, n + 1, [a EXCEPT !.cur = d])
    BY <1>5, <2>2, <2>3, <2>4, InnerKnows
  <2> QED BY <2>1, <2>5 DEF z
<1>6. CASE a.open /\ line = Theirs /\ c.sep # NoMark
  <2>1. line # Ours /\ line # Base /\ line # Sep
    BY <1>6
  <2>2. z = [a EXCEPT !.blocks = Append(@, [a.cur EXCEPT !.end = n]), !.open = FALSE]
    <3> HIDE DEF line, Ours, Base, Sep, Theirs
    <3> QED BY <1>6, <2>1 DEF ScanLine
  <2>3. ScanKnows(text, n + 1, [a EXCEPT !.blocks = Append(@, [a.cur EXCEPT !.end = n]), !.open = FALSE])
    BY <1>6, EndKnows
  <2> HIDE DEF z
  <2>4. ScanKnows(text, n + 1, z)
    BY <2>2, <2>3
  <2> QED BY <2>4 DEF z
<1>7. CASE /\ line # Ours
           /\ ~(a.open /\ line = Base /\ c.base = NoMark /\ c.sep = NoMark)
           /\ ~(a.open /\ line = Sep /\ c.sep = NoMark)
           /\ ~(a.open /\ line = Theirs /\ c.sep # NoMark)
  <2>1. z = a
    BY <1>7 DEF ScanLine
  <2>2. a = [a EXCEPT !.cur = c]
    BY DEF ScanType
  <2>3. a.open => OpenIs(text, n + 1, c, a.blocks)
    <3> HIDE DEF c
    <3> QED BY <1>1, <1>2, <1>7 DEF OpenIs, NoMark
  <2>4. \A s, p \in Nat : ~Complete(text, s, p, n)
    BY <1>7, NothingEnds
  <2>5. ScanKnows(text, n + 1, [a EXCEPT !.cur = c])
    BY <1>1, <1>7, <2>3, <2>4, InnerKnows
  <2> QED BY <2>1, <2>2, <2>5
<1> QED BY <1>3, <1>4, <1>5, <1>6, <1>7

LEMMA ScanIsRight ==
    ASSUME NEW text \in McfText
    PROVE  \E a \in ScanType : ScanKnows(text, Len(text), a) /\ ScanConflicts(text) = Scanned(a)
<1>1. PICK g : ScanRun(g, text)
  BY ScanRuns
<1>2. Len(text) \in Nat
  BY TextLen
<1> DEFINE T == {n \in 0..Len(text) : ScanKnows(text, n, g[n])}
<1>3. 0 \in T
  <2>1. DOMAIN Unscanned.blocks = {} /\ Unscanned.open = FALSE /\ Unscanned.broken = {}
    BY DEF Unscanned
  <2>2. ScanKnows(text, 0, Unscanned)
    BY <2>1 DEF ScanKnows, FoundAre, AllFound, NoneOpen, BrokenAre
  <2> QED BY <1>1, <1>2, <2>2 DEF ScanRun
<1>4. ASSUME NEW n \in 0..(Len(text) - 1), n \in T PROVE n + 1 \in T
  <2>1. n + 1 \in 1..Len(text) /\ (n + 1) - 1 = n /\ n \in Nat /\ n < Len(text)
    BY <1>2
  <2>2. g[n + 1] = ScanLine(g[n], n, McfAt(text, n)) /\ g[n] \in ScanType
    BY <1>1, <2>1 DEF ScanRun
  <2>3. ScanKnows(text, n + 1, g[n + 1])
    BY <1>4, <2>1, <2>2, LineKnows
  <2> QED BY <2>1, <2>3
<1>5. Len(text) \in T
  <2> HIDE DEF T
  <2>1. Len(text) \in 0..Len(text)
    BY <1>2
  <2> QED BY <1>2, <1>3, <1>4, <2>1, UpTo
<1> QED BY <1>1, <1>2, <1>5 DEF ScanRun
-----------------------------------------------------------------------------
\* What Blocks finds in any text.
LEMMA BlocksAre ==
    ASSUME NEW text \in McfText
    PROVE  /\ Blocks(text) \in Seq(BlockType) /\ FoundAre(text, Len(text), Blocks(text))
           /\ AllFound(text, Len(text), Blocks(text))
           /\ ScanConflicts(text).broken =
                 {l \in Nat : /\ l < Len(text) /\ McfAt(text, l) = Ours
                              /\ \A i \in DOMAIN Blocks(text) : Blocks(text)[i].start # l}
<1>1. PICK a \in ScanType : ScanKnows(text, Len(text), a) /\ ScanConflicts(text) = Scanned(a)
  BY ScanIsRight
<1>2. Blocks(text) = a.blocks
      /\ ScanConflicts(text).broken = a.broken \cup IF a.open THEN {a.cur.start} ELSE {}
  BY <1>1 DEF Blocks, Scanned
<1>3. a.blocks \in Seq(BlockType) /\ a.cur.start \in Nat
  BY DEF ScanType, BlockType
<1> DEFINE In(l) == /\ l < Len(text) /\ McfAt(text, l) = Ours
                    /\ \A i \in DOMAIN a.blocks : a.blocks[i].start # l
<1>4. a.broken = {l \in Nat : In(l) /\ ~(a.open /\ l = a.cur.start)}
  BY <1>1 DEF ScanKnows, BrokenAre
<1>5. a.open => In(a.cur.start)
  <2> SUFFICES ASSUME a.open PROVE In(a.cur.start)
    OBVIOUS
  <2>1. /\ a.cur.start < Len(text) /\ McfAt(text, a.cur.start) = Ours
        /\ \A i \in DOMAIN a.blocks : a.blocks[i].end < a.cur.start
    BY <1>1 DEF ScanKnows, OpenIs
  <2>2. ASSUME NEW i \in DOMAIN a.blocks PROVE a.blocks[i].start # a.cur.start
    <3> DEFINE b == a.blocks[i]
    <3>1. b.start \in Nat /\ b.sep \in Nat /\ b.end \in Nat /\ Complete(text, b.start, b.sep, b.end)
      BY <1>1, <1>3, BlockOf DEF ScanKnows, FoundAre
    <3>2. b.start < b.sep /\ b.sep < b.end
      BY <3>1, CompleteEnds
    <3> HIDE DEF b
    <3> QED BY <3>1, <3>2, <2>1, <1>3 DEF b
  <2> QED BY <2>1, <2>2
<1>6. ScanConflicts(text).broken = {l \in Nat : In(l)}
  <2> HIDE DEF In
  <2> QED BY <1>2, <1>3, <1>4, <1>5
<1> QED BY <1>1, <1>2, <1>3, <1>6 DEF ScanKnows

\* A block of a text.
BlockIn(text, b) ==
    /\ b \in BlockType /\ b.start < b.sep /\ b.sep < b.end /\ b.end < Len(text)
    /\ b.base # NoMark => b.start < b.base /\ b.base < b.sep

LEMMA BlocksIn ==
    ASSUME NEW text \in McfText, NEW i \in DOMAIN Blocks(text)
    PROVE  LET b == Blocks(text)[i]
           IN BlockIn(text, b) /\ Complete(text, b.start, b.sep, b.end)
              /\ b.start \in Nat /\ b.sep \in Nat /\ b.end \in Nat /\ i \in Nat
<1> DEFINE bs == Blocks(text)
           b == bs[i]
<1>1. bs \in Seq(BlockType) /\ FoundAre(text, Len(text), bs)
  BY BlocksAre
<1> HIDE DEF bs
<1>2. i \in DOMAIN bs
  BY DEF bs
<1>3. b \in BlockType /\ b.start \in Nat /\ i \in Nat
  BY <1>1, <1>2, BlockOf
<1>4. /\ b.sep \in Nat /\ b.end \in Nat /\ Complete(text, b.start, b.sep, b.end)
      /\ b.base # NoMark => b.start < b.base /\ b.base < b.sep
  BY <1>1, <1>2 DEF FoundAre
<1> HIDE DEF b
<1>5. b.start < b.sep /\ b.sep < b.end /\ b.end < Len(text)
  BY <1>3, <1>4, CompleteEnds
<1> QED BY <1>3, <1>4, <1>5 DEF BlockIn, b, bs

LEMMA BlocksRight == mcfText \in McfText => BlocksAreTheConflicts
<1> SUFFICES ASSUME mcfText \in McfText PROVE BlocksAreTheConflicts
  OBVIOUS
<1> DEFINE text == mcfText
           bs == Blocks(text)
           lines == 0..(Len(text) - 1)
           On(s, e) == ConflictOn(text, s, e)
<1> HIDE DEF text
<1>1. text \in McfText /\ Len(text) \in Nat
  BY TextLen DEF text
<1>2. bs \in Seq(BlockType) /\ AllFound(text, Len(text), bs) /\ FoundAre(text, Len(text), bs)
      /\ ScanConflicts(text).broken =
                 {l \in Nat : /\ l < Len(text) /\ McfAt(text, l) = Ours
                              /\ \A i \in DOMAIN bs : bs[i].start # l}
  BY <1>1, BlocksAre
<1>3. ASSUME NEW i \in DOMAIN bs
      PROVE  /\ bs[i].start \in Nat /\ bs[i].sep \in Nat /\ bs[i].end \in Nat
             /\ Complete(text, bs[i].start, bs[i].sep, bs[i].end) /\ bs[i].end < Len(text)
             /\ bs[i].start < bs[i].sep /\ bs[i].sep < bs[i].end
  BY <1>1, BlocksIn DEF BlockIn
<1>4. ToSet(bs) = {bs[i] : i \in DOMAIN bs}
  BY DEF ToSet
<1> HIDE DEF bs
<1>5. {<<b.start, b.end>> : b \in ToSet(bs)} = {se \in lines \X lines : On(se[1], se[2])}
  <2>1. ASSUME NEW b \in ToSet(bs)
        PROVE  <<b.start, b.end>> \in lines \X lines /\ On(b.start, b.end)
    <3>1. PICK i \in DOMAIN bs : b = bs[i]
      BY <1>4
    <3>2. b.start \in lines /\ b.end \in lines /\ b.sep \in Nat /\ Complete(text, b.start, b.sep, b.end)
      BY <1>1, <1>3, <3>1
    <3>3. On(b.start, b.end)
      BY <1>1, <3>2, ConflictIs
    <3> QED BY <3>2, <3>3
  <2>2. ASSUME NEW s \in lines, NEW e \in lines, On(s, e)
        PROVE  \E b \in ToSet(bs) : <<s, e>> = <<b.start, b.end>>
    <3>1. PICK p \in Nat : Complete(text, s, p, e)
      BY <1>1, <2>2, ConflictIs
    <3>2. s \in Nat /\ e \in Nat /\ e < Len(text)
      BY <1>1
    <3>3. PICK i \in DOMAIN bs : bs[i].start = s
      BY <1>2, <3>1, <3>2 DEF AllFound
    <3>4. bs[i].end = e
      BY <1>1, <1>3, <3>1, <3>2, <3>3, CompleteIsOne
    <3> QED BY <1>4, <3>3, <3>4
  <2> HIDE DEF lines, On
  <2>3. ASSUME NEW se \in lines \X lines, On(se[1], se[2])
        PROVE  se \in {<<b.start, b.end>> : b \in ToSet(bs)}
    <3>1. se = <<se[1], se[2]>> /\ se[1] \in lines /\ se[2] \in lines
      OBVIOUS
    <3>2. PICK b \in ToSet(bs) : <<se[1], se[2]>> = <<b.start, b.end>>
      BY <3>1, <2>2, <2>3
    <3> QED BY <3>1, <3>2
  <2> QED BY <2>1, <2>3
<1>6. ASSUME NEW b \in ToSet(bs)
      PROVE  /\ b.sep = FirstAfter(text, Sep, b.start)
             /\ b.base # NoMark => McfAt(text, b.base) = Base /\ b.base < b.sep
  <2>1. PICK i \in DOMAIN bs : b = bs[i]
    BY <1>4
  <2>2. First(text, Sep, b.start, b.sep)
    BY <1>3, <2>1 DEF Complete
  <2>3. b.sep = FirstAfter(text, Sep, b.start)
    BY <1>1, <1>3, <2>1, <2>2, FirstIs
  <2> QED BY <2>1, <2>3, <1>2 DEF FoundAre
<1>7. ScanConflicts(text).broken = {l \in lines : McfAt(text, l) = Ours /\ \A b \in ToSet(bs) : b.start # l}
  <2>1. ASSUME NEW l \in Nat
        PROVE  (\A i \in DOMAIN bs : bs[i].start # l) <=> \A b \in ToSet(bs) : b.start # l
    BY <1>4
  <2>2. \A l : l \in lines <=> l \in Nat /\ l < Len(text)
    BY <1>1
  <2> HIDE DEF lines
  <2> QED BY <1>2, <2>1, <2>2
<1> QED BY <1>5, <1>6, <1>7 DEF BlocksAreTheConflicts, Blocks, text, bs
-----------------------------------------------------------------------------
(* What a resolution makes of a text.                                      *)

LEMMA SliceIs ==
    ASSUME NEW S, NEW t \in Seq(S), NEW m \in Nat, NEW n \in Nat, m + n <= Len(t)
    PROVE  SubSeq(t, m + 1, m + n) \in Seq(S) /\ Len(SubSeq(t, m + 1, m + n)) = n
           /\ \A i \in 1..n : SubSeq(t, m + 1, m + n)[i] = t[m + i]
<1> Len(t) \in Nat
  BY LenProperties
<1>1. \A i \in (m + 1)..(m + n) : t[i] \in S
  <2> SUFFICES ASSUME NEW i \in (m + 1)..(m + n) PROVE t[i] \in S
    OBVIOUS
  <2>1. i \in 1..Len(t)
    OBVIOUS
  <2> QED BY <2>1, ElementOfSeq
<1>2. SubSeq(t, m + 1, m + n) \in Seq(S)
      /\ Len(SubSeq(t, m + 1, m + n)) = (IF m + 1 <= m + n THEN (m + n) - (m + 1) + 1 ELSE 0)
      /\ \A i \in 1..((m + n) - (m + 1) + 1) : SubSeq(t, m + 1, m + n)[i] = t[(m + 1) + i - 1]
  <2>1. m + 1 \in Int /\ m + n \in Int
    OBVIOUS
  <2> QED BY <1>1, <2>1, SubSeqProperties
<1>3. (m + n) - (m + 1) + 1 = n /\ (IF m + 1 <= m + n THEN (m + n) - (m + 1) + 1 ELSE 0) = n
  OBVIOUS
<1>4. ASSUME NEW i \in 1..n PROVE (m + 1) + i - 1 = m + i
  OBVIOUS
<1> QED BY <1>2, <1>3, <1>4

LEMMA ThreeParts ==
    ASSUME NEW S, NEW x \in Seq(S), NEW y \in Seq(S), NEW z \in Seq(S), NEW t, t = x \o y \o z
    PROVE  /\ t \in Seq(S) /\ Len(t) = Len(x) + Len(y) + Len(z)
           /\ SubSeq(t, 1, Len(x)) = x
           /\ SubSeq(t, Len(x) + 1, Len(x) + Len(y)) = y
           /\ SubSeq(t, Len(x) + Len(y) + 1, Len(t)) = z
<1> DEFINE w == x \o y
<1>8. t = w \o z
  OBVIOUS
<1>1. w \in Seq(S) /\ Len(w) = Len(x) + Len(y)
      /\ \A i \in 1..Len(w) : w[i] = IF i <= Len(x) THEN x[i] ELSE y[i - Len(x)]
  BY ConcatProperties
<1> HIDE DEF w
<1>2. t \in Seq(S) /\ Len(t) = Len(w) + Len(z)
      /\ \A i \in 1..Len(t) : t[i] = IF i <= Len(w) THEN w[i] ELSE z[i - Len(w)]
  <2>1. w \in Seq(S)
    BY <1>1
  <2> QED BY <2>1, <1>8, ConcatProperties
<1>3. Len(x) \in Nat /\ Len(y) \in Nat /\ Len(z) \in Nat
  BY LenProperties
<1>4. ASSUME NEW m \in Nat, NEW n \in Nat, m + n <= Len(t)
      PROVE  SubSeq(t, m + 1, m + n) \in Seq(S) /\ Len(SubSeq(t, m + 1, m + n)) = n
             /\ \A i \in 1..n : SubSeq(t, m + 1, m + n)[i] = t[m + i]
  BY <1>2, <1>4, SliceIs
<1>5. SubSeq(t, 1, Len(x)) = x
  <2>1. 0 + 1 = 1 /\ 0 + Len(x) = Len(x) /\ Len(x) <= Len(t)
    BY <1>1, <1>2, <1>3
  <2>2. SubSeq(t, 1, Len(x)) \in Seq(S) /\ Len(SubSeq(t, 1, Len(x))) = Len(x)
        /\ \A i \in 1..Len(x) : SubSeq(t, 1, Len(x))[i] = t[0 + i]
    <3>1. 0 \in Nat /\ 0 + Len(x) <= Len(t)
      BY <1>3, <2>1
    <3>2. SubSeq(t, 0 + 1, 0 + Len(x)) \in Seq(S) /\ Len(SubSeq(t, 0 + 1, 0 + Len(x))) = Len(x)
          /\ \A i \in 1..Len(x) : SubSeq(t, 0 + 1, 0 + Len(x))[i] = t[0 + i]
      BY <1>3, <1>4, <3>1
    <3> QED BY <3>2, <2>1
  <2>3. ASSUME NEW i \in 1..Len(x) PROVE t[0 + i] = x[i]
    BY <1>1, <1>2, <1>3
  <2> QED BY <2>2, <2>3, SeqEqual
<1>6. SubSeq(t, Len(x) + 1, Len(x) + Len(y)) = y
  <2>1. Len(x) + Len(y) <= Len(t)
    BY <1>1, <1>2, <1>3
  <2>2. SubSeq(t, Len(x) + 1, Len(x) + Len(y)) \in Seq(S) /\ Len(SubSeq(t, Len(x) + 1, Len(x) + Len(y))) = Len(y)
        /\ \A i \in 1..Len(y) : SubSeq(t, Len(x) + 1, Len(x) + Len(y))[i] = t[Len(x) + i]
    BY <1>3, <1>4, <2>1
  <2>3. ASSUME NEW i \in 1..Len(y) PROVE t[Len(x) + i] = y[i]
    <3>1. Len(x) + i \in 1..Len(w) /\ Len(x) + i \in 1..Len(t) /\ ~(Len(x) + i <= Len(x))
          /\ Len(x) + i <= Len(w) /\ (Len(x) + i) - Len(x) = i
      BY <1>1, <1>2, <1>3
    <3> QED BY <3>1, <1>1, <1>2
  <2> QED BY <2>2, <2>3, SeqEqual
<1>7. SubSeq(t, Len(w) + 1, Len(t)) = z
  <2>1. Len(w) \in Nat /\ Len(w) + Len(z) = Len(t)
    BY <1>1, <1>2, <1>3
  <2>2. SubSeq(t, Len(w) + 1, Len(t)) \in Seq(S) /\ Len(SubSeq(t, Len(w) + 1, Len(t))) = Len(z)
        /\ \A i \in 1..Len(z) : SubSeq(t, Len(w) + 1, Len(t))[i] = t[Len(w) + i]
    <3>1. Len(w) + Len(z) <= Len(t)
      BY <2>1, <1>2
    <3>2. SubSeq(t, Len(w) + 1, Len(w) + Len(z)) \in Seq(S)
          /\ Len(SubSeq(t, Len(w) + 1, Len(w) + Len(z))) = Len(z)
          /\ \A i \in 1..Len(z) : SubSeq(t, Len(w) + 1, Len(w) + Len(z))[i] = t[Len(w) + i]
      BY <1>3, <1>4, <2>1, <3>1
    <3> QED BY <3>2, <2>1
  <2>3. ASSUME NEW i \in 1..Len(z) PROVE t[Len(w) + i] = z[i]
    <3>1. Len(w) + i \in 1..Len(t) /\ ~(Len(w) + i <= Len(w)) /\ (Len(w) + i) - Len(w) = i
      BY <2>1, <1>3
    <3> QED BY <3>1, <1>2
  <2> QED BY <2>2, <2>3, SeqEqual
<1> QED BY <1>1, <1>2, <1>5, <1>6, <1>7

\* The lines between two markers.
LEMMA SectionIs ==
    ASSUME NEW text \in McfText, NEW i \in Nat, NEW j \in Nat, i < j, j < Len(text)
    PROVE  /\ Section(text, i, j) \in McfText /\ Len(Section(text, i, j)) = j - i - 1
           /\ \A m \in 1..(j - i - 1) : Section(text, i, j)[m] = text[i + m + 1]
<1> DEFINE S == McfLines \cup {"", Ours, Base, Sep, Theirs}
<1>1. text \in Seq(S) /\ Len(text) \in Nat /\ DOMAIN text = 1..Len(text)
  BY TextLen DEF McfText
<1> HIDE DEF S
<1>2. \A m \in (i + 2)..j : text[m] \in S
  <2> SUFFICES ASSUME NEW m \in (i + 2)..j PROVE text[m] \in S
    OBVIOUS
  <2>1. m \in 1..Len(text)
    BY <1>1
  <2> QED BY <2>1, <1>1, ElementOfSeq
<1>3. i + 2 \in Int /\ j \in Int
  OBVIOUS
<1>4. /\ SubSeq(text, i + 2, j) \in Seq(S)
      /\ Len(SubSeq(text, i + 2, j)) = (IF i + 2 <= j THEN j - (i + 2) + 1 ELSE 0)
      /\ \A m \in 1..(j - (i + 2) + 1) : SubSeq(text, i + 2, j)[m] = text[(i + 2) + m - 1]
  BY <1>2, <1>3, SubSeqProperties
<1>5. j - (i + 2) + 1 = j - i - 1 /\ (IF i + 2 <= j THEN j - (i + 2) + 1 ELSE 0) = j - i - 1
  OBVIOUS
<1>6. ASSUME NEW m \in 1..(j - i - 1) PROVE (i + 2) + m - 1 = i + m + 1
  OBVIOUS
<1>7. SubSeq(text, i + 2, j) \in McfText
  BY <1>4 DEF McfText, S
<1> QED BY <1>4, <1>5, <1>6, <1>7 DEF Section

Sides == {"ours", "theirs", "both"}

LEMMA SidesKeep ==
    ASSUME NEW text \in McfText, NEW b, BlockIn(text, b), b.sep \in Nat, b.end \in Nat, NEW k \in Sides
    PROVE  LET body == Side(text, b, k)
               kept == KeptLines(b, k)
           IN /\ body \in McfText /\ Len(body) = Cardinality(kept)
              /\ Len(body) = 0 => kept = {}
              /\ \E from \in [1..Len(body) -> kept] :
                    /\ \A i, j \in 1..Len(body) : i < j => from[i] < from[j]
                    /\ \A i \in 1..Len(body) : body[i] = McfAt(text, from[i])
<1> DEFINE first == IF b.base # NoMark THEN b.base ELSE b.sep
           ours == Section(text, b.start, first)
           theirs == Section(text, b.sep, b.end)
           body == Side(text, b, k)
           kept == KeptLines(b, k)
           no == IF k = "theirs" THEN 0 ELSE first - b.start - 1
           nt == IF k = "ours" THEN 0 ELSE b.end - b.sep - 1
           at(i) == IF i <= no THEN b.start + i ELSE b.sep + (i - no)
           from == [i \in 1..(no + nt) |-> at(i)]
<1>1. b.start \in Nat /\ b.sep \in Nat /\ b.end \in Nat /\ first \in Nat
      /\ b.start < first /\ first <= b.sep /\ b.sep < b.end /\ b.end < Len(text) /\ Len(text) \in Nat
  BY TextLen DEF BlockIn, BlockType
<1>2. b.base # NoMark => b.base = first /\ first < b.sep
  BY DEF BlockIn
<1>3. b.base = NoMark => first = b.sep
  OBVIOUS
<1>4. body = CASE k = "ours" -> ours [] k = "theirs" -> theirs [] k = "both" -> ours \o theirs
  BY DEF Side
<1> HIDE DEF first
<1>5. ours \in McfText /\ Len(ours) = first - b.start - 1
      /\ \A m \in 1..(first - b.start - 1) : ours[m] = text[b.start + m + 1]
  <2>1. b.start \in Nat /\ first \in Nat /\ b.start < first /\ first < Len(text)
    BY <1>1
  <2> QED BY <2>1, SectionIs
<1>6. theirs \in McfText /\ Len(theirs) = b.end - b.sep - 1
      /\ \A m \in 1..(b.end - b.sep - 1) : theirs[m] = text[b.sep + m + 1]
  BY <1>1, SectionIs
<1> HIDE DEF ours, theirs
<1>7. no \in Nat /\ nt \in Nat
  BY <1>1
<1>8. body \in McfText /\ Len(body) = no + nt /\ \A i \in 1..(no + nt) : body[i] = text[at(i) + 1]
  <2>1. CASE k = "ours"
    <3>1. body = ours /\ no = first - b.start - 1 /\ nt = 0
      BY <2>1, <1>4
    <3>2. ASSUME NEW i \in 1..(no + nt) PROVE at(i) + 1 = b.start + i + 1
      BY <3>1, <1>1
    <3>3. no + nt = first - b.start - 1
      BY <3>1, <1>1
    <3> HIDE DEF no, nt, body
    <3> QED BY <1>5, <3>1, <3>2, <3>3
  <2>2. CASE k = "theirs"
    <3>1. body = theirs /\ no = 0 /\ nt = b.end - b.sep - 1
      BY <2>2, <1>4
    <3>2. ASSUME NEW i \in 1..(no + nt) PROVE at(i) + 1 = b.sep + i + 1
      BY <3>1, <1>1
    <3>3. no + nt = b.end - b.sep - 1
      BY <3>1, <1>1
    <3> HIDE DEF no, nt, body
    <3> QED BY <1>6, <3>1, <3>2, <3>3
  <2>3. CASE k = "both"
    <3>1. body = ours \o theirs /\ no = first - b.start - 1 /\ nt = b.end - b.sep - 1
      BY <2>3, <1>4
    <3> DEFINE S == McfLines \cup {"", Ours, Base, Sep, Theirs}
    <3>2. ours \in Seq(S) /\ theirs \in Seq(S)
      BY <1>5, <1>6 DEF McfText
    <3> HIDE DEF S
    <3>3. /\ ours \o theirs \in Seq(S) /\ Len(ours \o theirs) = Len(ours) + Len(theirs)
          /\ \A i \in 1..Len(ours) + Len(theirs) :
                (ours \o theirs)[i] = IF i <= Len(ours) THEN ours[i] ELSE theirs[i - Len(ours)]
      BY <3>2, ConcatProperties
    <3> HIDE DEF no, nt, body
    <3>4. Len(ours) = no /\ Len(theirs) = nt
      BY <1>5, <1>6, <3>1
    <3>5. ASSUME NEW i \in 1..(no + nt) PROVE body[i] = text[at(i) + 1]
      <4>1. body[i] = IF i <= no THEN ours[i] ELSE theirs[i - no]
        BY <3>1, <3>3, <3>4
      <4>2. CASE i <= no
        <5>1. i \in 1..(first - b.start - 1) /\ at(i) + 1 = b.start + i + 1
          BY <3>1, <4>2, <1>1
        <5> QED BY <5>1, <4>1, <4>2, <1>5
      <4>3. CASE ~(i <= no)
        <5>1. i - no \in 1..(b.end - b.sep - 1) /\ at(i) + 1 = b.sep + (i - no) + 1
          <6>1. i \in Nat /\ i <= no + nt /\ no \in Nat /\ nt \in Nat /\ i > no
            BY <4>3, <1>7
          <6>2. i - no \in 1..nt
            BY <6>1
          <6>3. at(i) = b.sep + (i - no)
            BY <4>3
          <6> HIDE DEF at
          <6> QED BY <6>2, <6>3, <3>1, <1>1
        <5> QED BY <5>1, <4>1, <4>3, <1>6
      <4> QED BY <4>2, <4>3
    <3>6. body \in McfText /\ Len(body) = no + nt
      BY <3>1, <3>3, <3>4 DEF McfText, S
    <3> QED BY <3>5, <3>6
  <2> QED BY <2>1, <2>2, <2>3 DEF Sides
<1>9. kept = {l \in (b.start + 1)..(b.end - 1) :
                \/ k # "theirs" /\ l < first
                \/ k # "ours" /\ l > b.sep}
  <2>1. ASSUME NEW l \in (b.start + 1)..(b.end - 1)
        PROVE  (l < b.sep /\ (b.base # NoMark => l < b.base)) <=> l < first
    BY <1>1, <1>2, <1>3
  <2> QED BY <2>1 DEF KeptLines
<1>10. ASSUME NEW i \in 1..(no + nt) PROVE at(i) \in kept /\ at(i) \in Nat
  <2>1. CASE i <= no
    <3>1. k # "theirs" /\ i <= first - b.start - 1
      BY <2>1, <1>7
    <3> HIDE DEF no, nt
    <3> QED BY <1>1, <1>7, <1>9, <2>1, <3>1
  <2>2. CASE ~(i <= no)
    <3>1. i - no <= nt /\ i - no \in Nat \ {0}
      BY <2>2, <1>7
    <3>2. k # "ours" /\ i - no <= b.end - b.sep - 1
      BY <3>1
    <3> HIDE DEF no, nt
    <3> QED BY <1>1, <1>7, <1>9, <2>2, <3>1, <3>2
  <2> QED BY <2>1, <2>2
<1>11. ASSUME NEW i \in 1..(no + nt), NEW j \in 1..(no + nt), i < j PROVE at(i) < at(j)
  <2>1. i <= no => i <= first - b.start - 1
    BY <1>7
  <2> HIDE DEF no, nt
  <2> QED BY <1>1, <1>7, <1>11, <2>1
<1>12. ASSUME NEW l \in kept PROVE \E i \in 1..(no + nt) : at(i) = l
  <2>1. l \in (b.start + 1)..(b.end - 1)
    BY <1>9
  <2>2. CASE k # "theirs" /\ l < first
    <3>1. l - b.start <= no /\ l - b.start \in 1..(no + nt)
      BY <1>1, <1>7, <2>1, <2>2
    <3>2. at(l - b.start) = l
      <4> HIDE DEF no, nt
      <4> QED BY <3>1, <1>1, <2>1
    <3> QED BY <3>1, <3>2
  <2>3. CASE k # "ours" /\ l > b.sep
    <3>1. l - b.sep \in 1..nt
      <4>1. PICK x \in Nat, y \in Nat : x = b.sep /\ y = b.end
        BY <1>1
      <4>2. l \in Int /\ l < y /\ l > x
        BY ONLY <2>1, <2>3, <4>1, <1>1
      <4>3. nt = y - x - 1
        BY <2>3, <4>1
      <4>4. l - x \in 1..(y - x - 1)
        BY ONLY <4>1, <4>2
      <4> QED BY ONLY <4>1, <4>3, <4>4
    <3>2. no + (l - b.sep) \in 1..(no + nt) /\ at(no + (l - b.sep)) = l
      <4> HIDE DEF no, nt
      <4>1. no + (l - b.sep) \in 1..(no + nt) /\ ~(no + (l - b.sep) <= no)
            /\ (no + (l - b.sep)) - no = l - b.sep /\ b.sep + (l - b.sep) = l
        <5>1. PICK x \in Nat : x = b.sep
          BY <1>1
        <5>2. l \in Int /\ l - x \in 1..nt
          BY ONLY <2>1, <3>1, <5>1
        <5>3. no + (l - x) \in 1..(no + nt) /\ ~(no + (l - x) <= no)
              /\ (no + (l - x)) - no = l - x /\ x + (l - x) = l
          BY ONLY <1>7, <5>1, <5>2
        <5> QED BY ONLY <5>1, <5>3
      <4>2. at(no + (l - b.sep)) = b.sep + ((no + (l - b.sep)) - no)
        BY <4>1
      <4> HIDE DEF at
      <4> QED BY <4>1, <4>2
    <3> QED BY <3>2
  <2> QED BY <1>9, <2>2, <2>3
<1> HIDE DEF body, kept, no, nt, at
<1>13. from \in [1..(no + nt) -> kept] /\ \A i \in 1..(no + nt) : from[i] = at(i)
  BY <1>10
<1>14. Cardinality(kept) = no + nt
  <2>1. ASSUME NEW i \in 1..(no + nt), NEW j \in 1..(no + nt), from[i] = from[j] PROVE i = j
    <3>1. ~(i < j) /\ ~(j < i)
      BY <2>1, <1>10, <1>11, <1>13
    <3> QED BY <3>1, <1>7
  <2>2. from \in Bijection(1..(no + nt), kept)
    <3>1. from \in Injection(1..(no + nt), kept)
      BY <1>13, <2>1 DEF Injection, IsInjective
    <3>2. from \in Surjection(1..(no + nt), kept)
      BY <1>12, <1>13 DEF Surjection
    <3> QED BY <3>1, <3>2 DEF Bijection
  <2>3. ExistsBijection(1..(no + nt), kept) /\ no + nt \in Nat
    BY <2>2, <1>7 DEF ExistsBijection
  <2> QED BY <2>3, FS_CountingElements
<1>15. no + nt = 0 => kept = {}
  BY <1>12, <1>7
<1>16. \A i, j \in 1..(no + nt) : i < j => from[i] < from[j]
  BY <1>11, <1>13
<1>17. \A i \in 1..(no + nt) : body[i] = McfAt(text, from[i])
  BY <1>8, <1>13 DEF McfAt
<1> HIDE DEF from
<1>18. \E f \in [1..Len(body) -> kept] :
          /\ \A i, j \in 1..Len(body) : i < j => f[i] < f[j]
          /\ \A i \in 1..Len(body) : body[i] = McfAt(text, f[i])
  BY <1>8, <1>13, <1>16, <1>17
<1> QED BY <1>8, <1>14, <1>15, <1>18 DEF body, kept
\* What a block is replaced with: the lines, or an empty one where the text would
\* end with nothing.
LEMMA ApplyIs ==
    ASSUME NEW text \in McfText, NEW b, BlockIn(text, b), b.sep \in Nat, b.end \in Nat, NEW body \in McfText
    PROVE  LET new    == ApplyConflict(text, b, body)
               before == SubSeq(text, 1, b.start)
               after  == SubSeq(text, b.end + 2, Len(text))
               p      == b.start
               q      == Len(text) - b.end - 1
           IN /\ new.text \in McfText /\ new.line \in 0..(Len(new.text) - 1)
              /\ SubSeq(new.text, 1, p) = before
              /\ SubSeq(new.text, Len(new.text) - q + 1, Len(new.text)) = after
              /\ \/ SubSeq(new.text, p + 1, Len(new.text) - q) = body
                 \/ SubSeq(new.text, p + 1, Len(new.text) - q) = <<"">> /\ body = <<>> /\ q = 0
<1> DEFINE S      == McfLines \cup {"", Ours, Base, Sep, Theirs}
           new    == ApplyConflict(text, b, body)
           before == SubSeq(text, 1, b.start)
           after  == SubSeq(text, b.end + 2, Len(text))
           p      == b.start
           q      == Len(text) - b.end - 1
           blank  == <<"">>
           ins    == IF body = <<>> /\ ~(b.end < Len(text) - 1) THEN blank ELSE body
<1>1. text \in Seq(S) /\ body \in Seq(S) /\ "" \in S
  BY DEF McfText
<1>2. Len(text) \in Nat /\ b.start \in Nat /\ b.end \in Nat /\ b.start < b.end /\ b.end < Len(text)
  BY TextLen DEF BlockIn, BlockType
<1> HIDE DEF S
<1>3. ASSUME NEW i \in 1..Len(text) PROVE text[i] \in S
  BY <1>1, ElementOfSeq
<1>4. before \in Seq(S) /\ Len(before) = p
  <2>1. \A i \in 1..p : text[i] \in S
    BY <1>2, <1>3
  <2>2. before \in Seq(S) /\ Len(before) = IF 1 <= p THEN p - 1 + 1 ELSE 0
    <3>1. 1 \in Int /\ p \in Int
      BY <1>2
    <3> QED BY <2>1, <3>1, SubSeqProperties
  <2> QED BY <2>2, <1>2
<1>5. after \in Seq(S) /\ Len(after) = q
  <2>1. \A i \in (b.end + 2)..Len(text) : text[i] \in S
    BY <1>2, <1>3
  <2>2. after \in Seq(S) /\ Len(after) = IF b.end + 2 <= Len(text) THEN Len(text) - (b.end + 2) + 1 ELSE 0
    <3>1. b.end + 2 \in Int /\ Len(text) \in Int
      BY <1>2
    <3> QED BY <2>1, <3>1, SubSeqProperties
  <2> QED BY <2>2, <1>2
<1>6. ins \in Seq(S) /\ Len(ins) \in Nat /\ Len(blank) = 1
      /\ (body # <<>> => Len(body) > 0) /\ Len(body) \in Nat
  <2>1. blank \in Seq(S) /\ Len(blank) = 1
    BY <1>1, OneLine
  <2> HIDE DEF blank
  <2>2. Len(body) \in Nat /\ (body # <<>> => Len(body) > 0)
    BY <1>1, SomeLines
  <2>3. ins \in Seq(S)
    BY <1>1, <2>1
  <2>4. Len(ins) \in Nat
    <3> HIDE DEF ins
    <3> QED BY <2>3, SomeLines
  <2> QED BY <2>1, <2>2, <2>3, <2>4
<1>7. new.text = before \o ins \o after
      /\ new.line = IF body = <<>> /\ b.end < Len(text) - 1 THEN b.start ELSE b.start + Len(ins) - 1
  <2> HIDE DEF before, after
  <2>1. CASE body = <<>> /\ b.end < Len(text) - 1
    <3>1. new = [text |-> before \o after, line |-> b.start]
      BY <2>1 DEF ApplyConflict, before, after
    <3>2. ins = <<>>
      BY <2>1
    <3>3. before \o ins = before
      BY <1>4, <3>2, ConcatEmptySeq
    <3> QED BY <2>1, <3>1, <3>3
  <2>2. CASE ~(body = <<>> /\ b.end < Len(text) - 1)
    <3>1. ins = IF body = <<>> THEN <<"">> ELSE body
      BY <2>2
    <3> HIDE DEF ins
    <3>2. new = [text |-> before \o ins \o after, line |-> b.start + Len(ins) - 1]
      BY <2>2, <3>1 DEF ApplyConflict, before, after
    <3> HIDE DEF new
    <3> QED BY <2>2, <3>2
  <2> QED BY <2>1, <2>2
<1>8. (body = <<>> /\ b.end < Len(text) - 1) => ins = <<>> /\ q > 0
  BY <1>2
<1>9. ~(body = <<>> /\ b.end < Len(text) - 1) => Len(ins) > 0
  <2> SUFFICES ASSUME ~(body = <<>> /\ b.end < Len(text) - 1) PROVE Len(ins) > 0
    OBVIOUS
  <2>1. CASE body = <<>>
    <3> HIDE DEF blank
    <3>1. ins = blank
      BY <2>1
    <3> HIDE DEF ins
    <3> QED BY <3>1, <1>6
  <2>2. CASE body # <<>>
    <3>1. ins = body
      BY <2>2
    <3> QED BY <3>1, <2>2, <1>6
  <2> QED BY <2>1, <2>2
<1>10. ins = body \/ (ins = blank /\ body = <<>> /\ q = 0)
  <2>1. ~(b.end < Len(text) - 1) => q = 0
    BY <1>2
  <2> HIDE DEF q, blank
  <2> QED BY <2>1
<1> HIDE DEF before, after, ins, blank
<1> DEFINE t == before \o ins \o after
<1>11. /\ t \in Seq(S) /\ Len(t) = p + Len(ins) + q
       /\ SubSeq(t, 1, p) = before
       /\ SubSeq(t, p + 1, p + Len(ins)) = ins
       /\ SubSeq(t, p + Len(ins) + 1, Len(t)) = after
  <2>1. before \in Seq(S) /\ ins \in Seq(S) /\ after \in Seq(S)
    BY <1>4, <1>5, <1>6
  <2>2. PICK u : u = before \o ins \o after
    OBVIOUS
  <2>3. /\ u \in Seq(S) /\ Len(u) = Len(before) + Len(ins) + Len(after)
        /\ SubSeq(u, 1, Len(before)) = before
        /\ SubSeq(u, Len(before) + 1, Len(before) + Len(ins)) = ins
        /\ SubSeq(u, Len(before) + Len(ins) + 1, Len(u)) = after
    <3> HIDE DEF t, p, q
    <3> QED BY <2>1, <2>2, ThreeParts
  <2>4. t = u
    BY <2>2
  <2> HIDE DEF t, p, q
  <2> QED BY <2>3, <2>4, <1>4, <1>5
<1>12. new.text = t
  BY <1>7
<1> HIDE DEF t, new
<1>13. q \in Nat /\ p \in Nat
  BY <1>2
<1>14. new.line \in 0..(Len(t) - 1)
  <2>1. CASE body = <<>> /\ b.end < Len(text) - 1
    <3>1. new.line = p /\ q > 0
      BY <1>7, <1>8, <2>1
    <3> HIDE DEF p, q
    <3> QED BY <3>1, <1>6, <1>11, <1>13
  <2>2. CASE ~(body = <<>> /\ b.end < Len(text) - 1)
    <3>1. new.line = p + Len(ins) - 1 /\ Len(ins) > 0
      BY <1>7, <1>9, <2>2
    <3> HIDE DEF p, q
    <3> QED BY <3>1, <1>6, <1>11, <1>13
  <2> QED BY <2>1, <2>2
<1>15. Len(t) - q = p + Len(ins) /\ Len(t) - q + 1 = p + Len(ins) + 1
  <2> HIDE DEF p, q
  <2> QED BY <1>6, <1>11, <1>13
<1>16. t \in McfText
  BY <1>11 DEF McfText, S
<1> HIDE DEF p, q
<1>17. /\ new.text \in McfText /\ new.line \in 0..(Len(new.text) - 1)
       /\ SubSeq(new.text, 1, p) = before
       /\ SubSeq(new.text, Len(new.text) - q + 1, Len(new.text)) = after
       /\ \/ SubSeq(new.text, p + 1, Len(new.text) - q) = body
          \/ SubSeq(new.text, p + 1, Len(new.text) - q) = blank /\ body = <<>> /\ q = 0
  BY <1>10, <1>11, <1>12, <1>14, <1>15, <1>16
<1> QED BY <1>17 DEF p, q, new, before, after, blank

\* The blocks a jump goes to: in the order of the text.
LEMMA BlocksInOrder ==
    ASSUME NEW text \in McfText, NEW i \in DOMAIN Blocks(text), NEW j \in DOMAIN Blocks(text), i < j
    PROVE  Blocks(text)[i].start < Blocks(text)[j].start
<1>1. Blocks(text)[i].end < Blocks(text)[j].start
  BY BlocksAre DEF FoundAre
<1>2. /\ Blocks(text)[i].start \in Nat /\ Blocks(text)[i].sep \in Nat /\ Blocks(text)[i].end \in Nat
      /\ Blocks(text)[j].start \in Nat /\ BlockIn(text, Blocks(text)[i])
  BY BlocksIn
<1> QED BY <1>1, <1>2 DEF BlockIn

LEMMA BlockIndices ==
    ASSUME NEW text \in McfText
    PROVE  Len(Blocks(text)) \in Nat /\ DOMAIN Blocks(text) = 1..Len(Blocks(text))
           /\ (Blocks(text) # <<>> => Len(Blocks(text)) > 0)
<1>1. Blocks(text) \in Seq(BlockType)
  BY BlocksAre
<1> QED BY <1>1, LenProperties, EmptySeq

LEMMA AfterIs ==
    ASSUME NEW text \in McfText, NEW l \in Int, Blocks(text) # <<>>
    PROVE  LET b == ConflictAfter(Blocks(text), l)
           IN /\ \E i \in DOMAIN Blocks(text) : b = Blocks(text)[i]
              /\ Len(Blocks(text)) > 1 => b.start # l
<1> DEFINE bs == Blocks(text)
           ahead == {i \in DOMAIN bs : bs[i].start > l}
           n == IF ahead # {} THEN Min(ahead) ELSE 1
<1>1. Len(bs) \in Nat /\ DOMAIN bs = 1..Len(bs) /\ Len(bs) > 0
  BY BlockIndices
<1>2. ASSUME NEW i \in DOMAIN bs PROVE bs[i].start \in Nat
  BY BlocksIn
<1>3. ASSUME NEW i \in DOMAIN bs, NEW j \in DOMAIN bs, i < j PROVE bs[i].start < bs[j].start
  BY <1>3, BlocksInOrder
<1> HIDE DEF bs
<1>4. ahead # {} => Min(ahead) \in ahead
  <2>1. ahead \subseteq Nat
    BY <1>1
  <2> QED BY <2>1, LeastIsMin
<1>5. n \in DOMAIN bs
  BY <1>1, <1>4
<1>6. ASSUME Len(bs) > 1 PROVE bs[n].start # l
  <2>1. CASE ahead # {}
    BY <1>2, <1>4, <2>1
  <2>2. CASE ahead = {}
    <3>1. 1 \in DOMAIN bs /\ 2 \in DOMAIN bs /\ n = 1
      BY <1>1, <1>6, <2>2
    <3>2. ~(bs[2].start > l) /\ bs[1].start < bs[2].start
      BY <1>3, <2>2, <3>1
    <3> QED BY <1>2, <3>1, <3>2
  <2> QED BY <2>1, <2>2
<1>7. ConflictAfter(bs, l) = bs[n]
  BY DEF ConflictAfter
<1> HIDE DEF n
<1> QED BY <1>5, <1>6, <1>7 DEF bs

LEMMA BeforeIs ==
    ASSUME NEW text \in McfText, NEW l \in Int, Blocks(text) # <<>>
    PROVE  LET b == ConflictBefore(Blocks(text), l)
           IN /\ \E i \in DOMAIN Blocks(text) : b = Blocks(text)[i]
              /\ Len(Blocks(text)) > 1 => b.start # l
<1> DEFINE bs == Blocks(text)
           behind == {i \in DOMAIN bs : bs[i].start < l}
           n == IF behind # {} THEN Max(behind) ELSE Len(bs)
<1>1. Len(bs) \in Nat /\ DOMAIN bs = 1..Len(bs) /\ Len(bs) > 0
  BY BlockIndices
<1>2. ASSUME NEW i \in DOMAIN bs PROVE bs[i].start \in Nat
  BY BlocksIn
<1>3. ASSUME NEW i \in DOMAIN bs, NEW j \in DOMAIN bs, i < j PROVE bs[i].start < bs[j].start
  BY <1>3, BlocksInOrder
<1> HIDE DEF bs
<1>4. behind # {} => Max(behind) \in behind
  <2>1. behind \subseteq 0..Len(bs)
    BY <1>1
  <2> QED BY <1>1, <2>1, Greatest
<1>5. n \in DOMAIN bs
  BY <1>1, <1>4
<1>6. ASSUME Len(bs) > 1 PROVE bs[n].start # l
  <2>1. CASE behind # {}
    BY <1>2, <1>4, <2>1
  <2>2. CASE behind = {}
    <3>1. 1 \in DOMAIN bs /\ Len(bs) \in DOMAIN bs /\ n = Len(bs) /\ 1 < Len(bs)
      BY <1>1, <1>6, <2>2
    <3>2. ~(bs[1].start < l) /\ bs[1].start < bs[n].start
      BY <1>3, <2>2, <3>1
    <3> HIDE DEF n
    <3> QED BY <1>2, <1>5, <3>1, <3>2
  <2> QED BY <2>1, <2>2
<1>7. ConflictBefore(bs, l) = bs[n]
  BY DEF ConflictBefore
<1> HIDE DEF n
<1> QED BY <1>5, <1>6, <1>7 DEF bs
-----------------------------------------------------------------------------
(* The keys.                                                               *)

\* What ResolutionKeepsTheRest says of a text and what it was.
KeepsTheRest(text, was, l, k) ==
    \E b \in ToSet(Blocks(was)) :
        LET p    == b.start
            q    == Len(was) - b.end - 1
            mid  == SubSeq(text, p + 1, Len(text) - q)
            kept == KeptLines(b, k)
        IN /\ p <= l /\ l <= b.end
           /\ SubSeq(text, 1, p) = SubSeq(was, 1, p)
           /\ SubSeq(text, Len(text) - q + 1, Len(text)) = SubSeq(was, b.end + 2, Len(was))
           /\ \/ mid = <<"">> /\ kept = {} /\ q = 0
              \/ /\ Len(mid) = Cardinality(kept)
                 /\ \E from \in [DOMAIN mid -> kept] :
                       /\ \A i, j \in DOMAIN mid : i < j => from[i] < from[j]
                       /\ \A i \in DOMAIN mid : mid[i] = McfAt(was, from[i])

LEMMA ResolvedText ==
    ASSUME NEW text \in McfText, NEW l \in Nat, NEW n \in DOMAIN Blocks(text), NEW k \in Sides,
           Blocks(text)[n].start <= l, l <= Blocks(text)[n].end
    PROVE  LET new == ApplyConflict(text, Blocks(text)[n], Side(text, Blocks(text)[n], k))
           IN new.text \in McfText /\ new.line \in 0..(Len(new.text) - 1) /\ KeepsTheRest(new.text, text, l, k)
<1> DEFINE b == Blocks(text)[n]
           body == Side(text, b, k)
           new == ApplyConflict(text, b, body)
           p == b.start
           q == Len(text) - b.end - 1
           mid == SubSeq(new.text, p + 1, Len(new.text) - q)
           kept == KeptLines(b, k)
<1>1. BlockIn(text, b) /\ b.sep \in Nat /\ b.end \in Nat
  BY BlocksIn
<1>2. b \in ToSet(Blocks(text)) /\ p <= l /\ l <= b.end
  BY DEF ToSet
<1> HIDE DEF b
<1>3. /\ body \in McfText /\ Len(body) = Cardinality(kept) /\ (Len(body) = 0 => kept = {})
      /\ \E from \in [1..Len(body) -> kept] :
            /\ \A i, j \in 1..Len(body) : i < j => from[i] < from[j]
            /\ \A i \in 1..Len(body) : body[i] = McfAt(text, from[i])
  BY <1>1, SidesKeep
<1> HIDE DEF body
<1>4. /\ new.text \in McfText /\ new.line \in 0..(Len(new.text) - 1)
      /\ SubSeq(new.text, 1, p) = SubSeq(text, 1, p)
      /\ SubSeq(new.text, Len(new.text) - q + 1, Len(new.text)) = SubSeq(text, b.end + 2, Len(text))
      /\ mid = body \/ (mid = <<"">> /\ body = <<>> /\ q = 0)
  BY <1>1, <1>3, ApplyIs
<1>5. \/ mid = <<"">> /\ kept = {} /\ q = 0
      \/ /\ Len(mid) = Cardinality(kept)
         /\ \E from \in [DOMAIN mid -> kept] :
               /\ \A i, j \in DOMAIN mid : i < j => from[i] < from[j]
               /\ \A i \in DOMAIN mid : mid[i] = McfAt(text, from[i])
  <2>1. CASE mid = body
    <3>1. DOMAIN body = 1..Len(body)
      BY <1>3, TextLen
    <3> HIDE DEF mid, kept, q
    <3> QED BY <2>1, <3>1, <1>3
  <2>2. CASE mid = <<"">> /\ body = <<>> /\ q = 0
    <3>1. kept = {}
      BY <2>2, <1>3
    <3> HIDE DEF mid, kept, q
    <3> QED BY <2>2, <3>1
  <2> QED BY <1>4, <2>1, <2>2
<1> HIDE DEF new
<1>6. KeepsTheRest(new.text, text, l, k)
  BY <1>2, <1>4, <1>5 DEF KeepsTheRest
<1> QED BY <1>4, <1>6 DEF new, body, b

\* The inductive invariant: beside the type, what the last step did.
McfInv == McfTypeOK /\ ResolutionKeepsTheRest /\ ResolvingMovesOn

LEMMA McfTypeText == McfTypeOK <=> /\ mcfText \in McfText /\ mcfLine \in 0..(Len(mcfText) - 1)
                                   /\ mcfOp \in {"closed", "open", "next", "prev", "malformed", "none",
                                                 "ours", "theirs", "both"}
BY DEF McfTypeOK, McfText

LEMMA McfKept ==
    ResolutionKeepsTheRest <=>
        (mcfOp \in {"ours", "theirs", "both"} => KeepsTheRest(mcfText, mcfWas[1], mcfWas[2], mcfOp))
BY DEF ResolutionKeepsTheRest, KeepsTheRest

LEMMA StartInBlock ==
    ASSUME NEW text \in McfText, NEW i \in DOMAIN Blocks(text)
    PROVE  /\ Blocks(text)[i].start \in 0..(Len(text) - 1)
           /\ ConflictAt(Blocks(text), Blocks(text)[i].start) # {}
<1> DEFINE b == Blocks(text)[i]
<1>1. BlockIn(text, b) /\ b.start \in Nat /\ b.sep \in Nat /\ b.end \in Nat /\ Len(text) \in Nat
  BY BlocksIn, TextLen
<1>2. b.start <= b.end /\ b.start < Len(text) /\ b.start <= b.start
  BY <1>1 DEF BlockIn
<1>3. i \in ConflictAt(Blocks(text), b.start)
  BY <1>2 DEF ConflictAt
<1> QED BY <1>1, <1>2, <1>3

LEMMA OpenStep == OpenConflicted => McfInv'
<1> SUFFICES ASSUME OpenConflicted PROVE McfInv'
  OBVIOUS
<1>1. mcfText' \in McfText /\ mcfLine' \in 0..(Len(mcfText') - 1) /\ mcfOp' = "open"
  BY McfTextsAssumption DEF OpenConflicted, McfText
<1>2. McfTypeOK'
  BY <1>1 DEF McfTypeOK, McfText
<1>3. ResolutionKeepsTheRest' /\ ResolvingMovesOn'
  BY <1>1 DEF ResolutionKeepsTheRest, ResolvingMovesOn
<1> QED BY <1>2, <1>3 DEF McfInv

LEMMA JumpStep ==
    ASSUME McfTypeOK, NEW dir \in {-1, 1}, JumpConflict(dir)
    PROVE  McfInv'
<1>1. mcfText \in McfText /\ mcfLine \in Nat
  BY McfTypeText
<1>2. /\ Blocks(mcfText) # <<>> /\ mcfText' = mcfText /\ mcfWas'[2] = mcfLine
      /\ mcfOp' = IF dir = 1 THEN "next" ELSE "prev"
  BY DEF JumpConflict, Done
<1>3. /\ \E i \in DOMAIN Blocks(mcfText) : mcfLine' = Blocks(mcfText)[i].start
      /\ Len(Blocks(mcfText)) > 1 => mcfLine' # mcfLine
  <2>1. CASE dir = 1
    <3>1. mcfLine' = ConflictAfter(Blocks(mcfText), mcfLine).start
      BY <2>1 DEF JumpConflict
    <3> QED BY <1>1, <1>2, <3>1, AfterIs
  <2>2. CASE dir # 1
    <3>1. mcfLine' = ConflictBefore(Blocks(mcfText), mcfLine).start
      BY <2>2 DEF JumpConflict
    <3> QED BY <1>1, <1>2, <3>1, BeforeIs
  <2> QED BY <2>1, <2>2
<1>4. mcfLine' \in 0..(Len(mcfText') - 1)
  BY <1>1, <1>2, <1>3, StartInBlock
<1>5. McfTypeOK'
  <2>1. mcfOp' \in {"closed", "open", "next", "prev", "malformed", "none", "ours", "theirs", "both"}
    BY <1>2
  <2>2. mcfText' \in McfText
    BY <1>1, <1>2
  <2> QED BY <1>4, <2>1, <2>2 DEF McfTypeOK, McfText
<1>6. mcfOp' \notin {"ours", "theirs", "both"}
  BY <1>2
<1>7. ResolutionKeepsTheRest'
  BY <1>6 DEF ResolutionKeepsTheRest
<1>8. ResolvingMovesOn'
  BY <1>2, <1>3, <1>6 DEF ResolvingMovesOn
<1> QED BY <1>5, <1>7, <1>8 DEF McfInv

LEMMA ResolveStep ==
    ASSUME McfTypeOK, NEW k \in {"ours", "theirs", "both"}, Resolve(k)
    PROVE  McfInv'
<1> DEFINE bs == Blocks(mcfText)
           at == ConflictAt(bs, mcfLine)
<1>1. mcfText \in McfText /\ mcfLine \in Nat /\ mcfLine \in 0..(Len(mcfText) - 1)
  BY McfTypeText
<1>2. CASE at = {}
  <2>1. /\ mcfOp' \in {"malformed", "none"} /\ mcfText' = mcfText /\ mcfLine' = mcfLine
    BY <1>2 DEF Resolve, Done
  <2>2. McfTypeOK'
    BY <1>1, <2>1 DEF McfTypeOK, McfText
  <2>3. ResolutionKeepsTheRest' /\ ResolvingMovesOn'
    BY <2>1 DEF ResolutionKeepsTheRest, ResolvingMovesOn
  <2> QED BY <2>2, <2>3 DEF McfInv
<1>3. CASE at # {}
  <2> DEFINE n == Min(at)
             new == ApplyConflict(mcfText, bs[n], Side(mcfText, bs[n], k))
             rest == Blocks(new.text)
  <2>1. /\ mcfText' = new.text /\ mcfOp' = k /\ mcfWas' = <<mcfText, mcfLine>>
        /\ mcfLine' = IF rest = <<>> THEN new.line ELSE ConflictAfter(rest, new.line).start
    BY <1>3 DEF Resolve, Done
  <2>2. n \in DOMAIN bs /\ bs[n].start <= mcfLine /\ mcfLine <= bs[n].end
    <3>1. at \subseteq Nat
      BY <1>1, BlockIndices DEF ConflictAt
    <3>2. n \in at
      BY <1>3, <3>1, LeastIsMin
    <3> HIDE DEF n
    <3> QED BY <3>2 DEF ConflictAt
  <2> HIDE DEF n
  <2>3. new.text \in McfText /\ new.line \in 0..(Len(new.text) - 1)
        /\ KeepsTheRest(new.text, mcfText, mcfLine, k)
    BY <1>1, <2>2, ResolvedText DEF Sides
  <2> HIDE DEF new
  <2>4. new.line \in Int
    BY <2>3, TextLen
  <2>5. rest # <<>> => /\ mcfLine' \in 0..(Len(new.text) - 1)
                       /\ ConflictAt(rest, mcfLine') # {}
    <3> SUFFICES ASSUME rest # <<>>
                 PROVE  mcfLine' \in 0..(Len(new.text) - 1) /\ ConflictAt(rest, mcfLine') # {}
      OBVIOUS
    <3>1. \E i \in DOMAIN rest : ConflictAfter(rest, new.line) = rest[i]
      BY <2>3, <2>4, AfterIs
    <3>2. PICK i \in DOMAIN rest : ConflictAfter(rest, new.line) = rest[i]
      BY <3>1
    <3>3. mcfLine' = rest[i].start
      BY <2>1, <3>2
    <3> QED BY <2>3, <3>3, StartInBlock
  <2>6. McfTypeOK'
    <3>1. mcfLine' \in 0..(Len(mcfText') - 1)
      BY <2>1, <2>3, <2>5
    <3>2. mcfText' \in McfText
      BY <2>1, <2>3
    <3> QED BY <2>1, <3>1, <3>2 DEF McfTypeOK, McfText
  <2>7. ResolutionKeepsTheRest'
    <3>1. mcfWas'[1] = mcfText /\ mcfWas'[2] = mcfLine
      BY <2>1
    <3>2. KeepsTheRest(mcfText', mcfWas'[1], mcfWas'[2], mcfOp')
      BY <2>1, <2>3, <3>1
    <3> QED BY ONLY <3>2 DEF ResolutionKeepsTheRest, KeepsTheRest
  <2>8. ResolvingMovesOn'
    BY <2>1, <2>5 DEF ResolvingMovesOn
  <2> QED BY <2>6, <2>7, <2>8 DEF McfInv
<1> QED BY <1>2, <1>3

LEMMA McfInitInv == McfInit => McfInv
<1> SUFFICES ASSUME McfInit PROVE McfInv
  OBVIOUS
<1>1. mcfText \in McfText /\ Len(mcfText) = 1
  <2> DEFINE S == McfLines \cup {"", Ours, Base, Sep, Theirs}
  <2>1. "" \in S
    OBVIOUS
  <2> HIDE DEF S
  <2>2. <<"">> \in Seq(S) /\ Len(<<"">>) = 1
    BY <2>1, OneLine
  <2> QED BY <2>2 DEF McfInit, McfText, S
<1>2. mcfLine = 0 /\ mcfOp = "closed"
  BY DEF McfInit
<1>3. McfTypeOK
  <2>1. mcfLine \in 0..(Len(mcfText) - 1)
    BY <1>1, <1>2
  <2> QED BY <1>1, <1>2, <2>1 DEF McfTypeOK, McfText
<1>4. ResolutionKeepsTheRest /\ ResolvingMovesOn
  BY <1>2 DEF ResolutionKeepsTheRest, ResolvingMovesOn
<1> QED BY <1>3, <1>4 DEF McfInv

LEMMA McfNextInv == McfInv /\ [McfNext]_mcfVars => McfInv'
<1> SUFFICES ASSUME McfInv, [McfNext]_mcfVars PROVE McfInv'
  OBVIOUS
<1>1. McfTypeOK
  BY DEF McfInv
<1>2. CASE OpenConflicted
  BY <1>2, OpenStep
<1>3. ASSUME NEW dir \in {-1, 1}, JumpConflict(dir) PROVE McfInv'
  BY <1>1, <1>3, JumpStep
<1>4. ASSUME NEW k \in {"ours", "theirs", "both"}, Resolve(k) PROVE McfInv'
  BY <1>1, <1>4, ResolveStep
<1>5. CASE UNCHANGED mcfVars
  <2>1. mcfText' = mcfText /\ mcfLine' = mcfLine /\ mcfOp' = mcfOp /\ mcfWas' = mcfWas
    BY <1>5 DEF mcfVars
  <2>2. McfTypeOK'
    BY <2>1 DEF McfInv, McfTypeOK
  <2>3. ResolutionKeepsTheRest'
    <3>1. mcfOp \in {"ours", "theirs", "both"} => KeepsTheRest(mcfText, mcfWas[1], mcfWas[2], mcfOp)
      BY McfKept DEF McfInv
    <3>2. mcfOp' \in {"ours", "theirs", "both"} => KeepsTheRest(mcfText', mcfWas'[1], mcfWas'[2], mcfOp')
      BY <2>1, <3>1
    <3> QED BY ONLY <3>2 DEF ResolutionKeepsTheRest, KeepsTheRest
  <2>4. ResolvingMovesOn'
    BY <2>1 DEF McfInv, ResolvingMovesOn
  <2> QED BY <2>2, <2>3, <2>4 DEF McfInv
<1> QED BY <1>2, <1>3, <1>4, <1>5 DEF McfNext

\* A conflicted file is a text with the caret in it, whatever keys are pressed.
THEOREM McfTypeCorrect == McfSpec => []McfTypeOK
<1>1. McfInv => McfTypeOK
  BY DEF McfInv
<1> QED BY McfInitInv, McfNextInv, <1>1, PTL DEF McfSpec

\* The blocks the scan finds are the conflicts of any text, a resolution changes
\* nothing but the lines of one, in the order of the text, and goes to the next
\* (scanConflicts, applyConflict, resolveMergeConflict).
THEOREM ConflictsCorrect == McfSpec => []ConflictsAreResolved
<1>1. McfInv => ConflictsAreResolved
  <2>1. McfInv => mcfText \in McfText
    BY McfTypeText DEF McfInv
  <2> QED BY <2>1, BlocksRight DEF McfInv, ConflictsAreResolved
<1> QED BY McfInitInv, McfNextInv, <1>1, PTL DEF McfSpec
-----------------------------------------------------------------------------
(***************************************************************************)
(* GitDiff.  The loops over the runs of a difference.                      *)
(***************************************************************************)
RunType  == [type : {"equal", "delete", "insert"}, n : Nat]
RowType  == [left : Int, right : Int, type : {"none", "deleted", "modified", "added"}]
ShowType == [rows : Seq(RowType), li : Nat, ri : Nat, del : Nat]

LEMMA RunsLen ==
    ASSUME NEW d \in Seq(RunType)
    PROVE  /\ Len(d) \in Nat /\ DOMAIN d = 1..Len(d)
           /\ \A n \in 1..Len(d) : d[n] \in RunType /\ d[n].n \in Nat
                                   /\ d[n].type \in {"equal", "delete", "insert"}
<1>1. Len(d) \in Nat /\ DOMAIN d = 1..Len(d)
  BY LenProperties
<1>2. \A n \in 1..Len(d) : d[n] \in RunType
  BY ElementOfSeq
<1> QED BY <1>1, <1>2 DEF RunType

LEMMA LinesRun ==
    ASSUME NEW d \in Seq(RunType), NEW types
    PROVE  LET k == LinesOf(d, types)
           IN /\ k \in [0..Len(d) -> Nat] /\ k[0] = 0
              /\ \A n \in 1..Len(d) : k[n] = (k[n - 1] + IF d[n].type \in types THEN d[n].n ELSE 0)
<1> DEFINE Made(g) == g = [n \in 0..Len(d) |-> IF n = 0 THEN 0 ELSE (g[n - 1] + IF d[n].type \in types THEN d[n].n ELSE 0)]
           turn == [n \in 1..Len(d) |-> [a \in Nat |-> (a + IF d[n].type \in types THEN d[n].n ELSE 0)]]
           k == CHOOSE g : Made(g)
<1>1. Len(d) \in Nat
  BY RunsLen
<1>2. ASSUME NEW n \in 1..Len(d), NEW a \in Nat
      PROVE  (a + IF d[n].type \in types THEN d[n].n ELSE 0) \in Nat
  BY <1>1, RunsLen
<1>3. turn \in [1..Len(d) -> [Nat -> Nat]]
  BY <1>2
<1>4. 0 \in Nat
  BY RunsLen
<1>5. PICK g : Runs(Len(d), Nat, 0, turn, g)
  <2> HIDE DEF turn
  <2> QED BY <1>1, <1>3, <1>4, LoopRuns
<1>6. Made(g)
  <2>1. ASSUME NEW n \in 0..Len(d)
        PROVE  g[n] = IF n = 0 THEN 0 ELSE (g[n - 1] + IF d[n].type \in types THEN d[n].n ELSE 0)
    <3>1. CASE n = 0
      BY <3>1, <1>5 DEF Runs
    <3>2. CASE n # 0
      <4>1. n \in 1..Len(d) /\ n - 1 \in 0..Len(d)
        BY <3>2, <1>1
      <4>2. g[n] = turn[n][g[n - 1]] /\ g[n - 1] \in Nat
        <5> HIDE DEF turn
        <5> QED BY <4>1, <1>5 DEF Runs
      <4> QED BY <4>1, <4>2, <3>2
    <3> QED BY <3>1, <3>2
  <2>2. g = [n \in 0..Len(d) |-> g[n]]
    BY <1>5 DEF Runs
  <2> HIDE DEF turn
  <2> QED BY <2>1, <2>2
<1>7. Made(k)
  <2> HIDE DEF Made
  <2> QED BY <1>6
<1>8. LinesOf(d, types) = k
  BY DEF LinesOf
<1> HIDE DEF k
<1>9. k[0] = 0 /\ \A n \in 1..Len(d) : k[n] = (k[n - 1] + IF d[n].type \in types THEN d[n].n ELSE 0)
  <2>1. ASSUME NEW n \in 0..Len(d)
        PROVE  k[n] = IF n = 0 THEN 0 ELSE (k[n - 1] + IF d[n].type \in types THEN d[n].n ELSE 0)
    BY <1>7
  <2> QED BY <2>1, <1>1
<1>10. ASSUME NEW m \in 0..(Len(d) - 1), k[m] \in Nat PROVE k[m + 1] \in Nat
  <2>1. m + 1 \in 1..Len(d) /\ (m + 1) - 1 = m
    BY <1>1
  <2>2. k[m + 1] = (k[m] + IF d[m + 1].type \in types THEN d[m + 1].n ELSE 0)
    BY <2>1, <1>9
  <2> QED BY <2>1, <2>2, <1>2, <1>10
<1>11. \A m \in 0..Len(d) : k[m] \in Nat
  BY <1>1, <1>4, <1>9, <1>10, StaysIn
<1>12. k = [m \in 0..Len(d) |-> k[m]]
  BY <1>7
<1> HIDE DEF Made
<1> QED BY <1>8, <1>9, <1>11, <1>12

Nothing == [rows |-> <<>>, li |-> 0, ri |-> 0, del |-> 0]

\* The loop after each run.
ShownRun(k, d) ==
    /\ k \in [0..Len(d) -> ShowType] /\ k[0] = Nothing
    /\ \A n \in 1..Len(d) : k[n] = ShowRun(k[n - 1], d[n])
    /\ SideBySide(d) = FlushDel(k[Len(d)]).rows

\* A block of rows put behind the others.
LEMMA MoreRows ==
    ASSUME NEW rows \in Seq(RowType), NEW m \in Nat, NEW y \in [1..m -> RowType]
    PROVE  rows \o y \in Seq(RowType) /\ y \in Seq(RowType) /\ Len(y) = m /\ DOMAIN y = 1..m
<1>1. y \in Seq(RowType) /\ Len(y) = m /\ DOMAIN y = 1..m
  OBVIOUS
<1> QED BY <1>1, ConcatProperties

LEMMA RowIs ==
    ASSUME NEW l \in Int, NEW r \in Int, NEW t \in {"none", "deleted", "modified", "added"}
    PROVE  DiffRow(l, r, t) \in RowType /\ DiffRow(l, r, t).left = l /\ DiffRow(l, r, t).right = r
           /\ DiffRow(l, r, t).type = t
BY DEF DiffRow, RowType

Deleted(a, m)     == [k \in 1..m |-> DiffRow(a + k - 1, -1, "deleted")]
Added(b, m)       == [k \in 1..m |-> DiffRow(-1, b + k - 1, "added")]
Paired(a, b, m, t) == [k \in 1..m |-> DiffRow(a + k - 1, b + k - 1, t)]

LEMMA DeletedIs ==
    ASSUME NEW a \in Nat, NEW m \in Nat
    PROVE  /\ Deleted(a, m) \in [1..m -> RowType]
           /\ \A k \in 1..m : /\ Deleted(a, m)[k].left = a + k - 1 /\ Deleted(a, m)[k].right = -1
                              /\ Deleted(a, m)[k].type = "deleted"
<1>1. ASSUME NEW k \in 1..m
      PROVE  LET r == DiffRow(a + k - 1, -1, "deleted")
             IN r \in RowType /\ r.left = a + k - 1 /\ r.right = -1 /\ r.type = "deleted"
  <2>1. a + k - 1 \in Int /\ -1 \in Int
    OBVIOUS
  <2> QED BY <2>1, RowIs
<1> QED BY <1>1 DEF Deleted

LEMMA AddedIs ==
    ASSUME NEW b \in Nat, NEW m \in Nat
    PROVE  /\ Added(b, m) \in [1..m -> RowType]
           /\ \A k \in 1..m : /\ Added(b, m)[k].right = b + k - 1 /\ Added(b, m)[k].left = -1
                              /\ Added(b, m)[k].type = "added"
<1>1. ASSUME NEW k \in 1..m
      PROVE  LET r == DiffRow(-1, b + k - 1, "added")
             IN r \in RowType /\ r.right = b + k - 1 /\ r.left = -1 /\ r.type = "added"
  <2>1. b + k - 1 \in Int /\ -1 \in Int
    OBVIOUS
  <2> QED BY <2>1, RowIs
<1> QED BY <1>1 DEF Added

LEMMA PairedIs ==
    ASSUME NEW a \in Nat, NEW b \in Nat, NEW m \in Nat, NEW t \in {"none", "modified"}
    PROVE  /\ Paired(a, b, m, t) \in [1..m -> RowType]
           /\ \A k \in 1..m : /\ Paired(a, b, m, t)[k].left = a + k - 1
                              /\ Paired(a, b, m, t)[k].right = b + k - 1
                              /\ Paired(a, b, m, t)[k].type = t
<1>1. ASSUME NEW k \in 1..m
      PROVE  LET r == DiffRow(a + k - 1, b + k - 1, t)
             IN r \in RowType /\ r.left = a + k - 1 /\ r.right = b + k - 1 /\ r.type = t
  <2>1. a + k - 1 \in Int /\ b + k - 1 \in Int
    OBVIOUS
  <2> QED BY <2>1, RowIs
<1> QED BY <1>1 DEF Paired

PairRows(y, a, b, m, t) ==
    /\ y \in [1..m -> RowType]
    /\ \A k \in 1..m : y[k].left = a + k - 1 /\ y[k].right = b + k - 1 /\ y[k].type = t

LEMMA SameIs ==
    ASSUME NEW a \in Nat, NEW b \in Nat, NEW m \in Nat
    PROVE  PairRows(Paired(a, b, m, "none"), a, b, m, "none")
<1>1. ASSUME NEW k \in 1..m
      PROVE  LET r == DiffRow(a + k - 1, b + k - 1, "none")
             IN r \in RowType /\ r.left = a + k - 1 /\ r.right = b + k - 1 /\ r.type = "none"
  <2>1. a + k - 1 \in Int /\ b + k - 1 \in Int
    OBVIOUS
  <2> QED BY <2>1, RowIs
<1> QED BY <1>1 DEF Paired, PairRows

LEMMA ModifiedIs ==
    ASSUME NEW a \in Nat, NEW b \in Nat, NEW m \in Nat
    PROVE  PairRows(Paired(a, b, m, "modified"), a, b, m, "modified")
<1>1. ASSUME NEW k \in 1..m
      PROVE  LET r == DiffRow(a + k - 1, b + k - 1, "modified")
             IN r \in RowType /\ r.left = a + k - 1 /\ r.right = b + k - 1 /\ r.type = "modified"
  <2>1. a + k - 1 \in Int /\ b + k - 1 \in Int
    OBVIOUS
  <2> QED BY <2>1, RowIs
<1> QED BY <1>1 DEF Paired, PairRows

\* What the parts of a turn make, field by field.
LEMMA FlushIs ==
    ASSUME NEW a \in ShowType
    PROVE  LET z == FlushDel(a)
           IN /\ z \in ShowType /\ z.rows = a.rows \o Deleted(a.li, a.del)
              /\ z.li = a.li + a.del /\ z.ri = a.ri /\ z.del = 0
<1>1. a.rows \in Seq(RowType) /\ a.li \in Nat /\ a.ri \in Nat /\ a.del \in Nat
  BY DEF ShowType
<1>4. PICK y : y = Deleted(a.li, a.del) /\ y \in [1..a.del -> RowType]
  BY <1>1, DeletedIs
<1>2. a.rows \o Deleted(a.li, a.del) \in Seq(RowType)
  <2>1. a.rows \o y \in Seq(RowType)
    BY <1>1, <1>4, MoreRows
  <2> QED BY <1>4, <2>1
<1>3. FlushDel(a) = [a EXCEPT !.rows = a.rows \o Deleted(a.li, a.del), !.li = a.li + a.del, !.del = 0]
  BY DEF FlushDel, Deleted
<1>5. PICK q : q = a.rows \o Deleted(a.li, a.del)
  OBVIOUS
<1>6. q \in Seq(RowType) /\ a.li + a.del \in Nat /\ 0 \in Nat
  BY <1>1, <1>2, <1>5
<1>7. PICK li : li = a.li + a.del
  OBVIOUS
<1>8. PICK del : del = 0
  OBVIOUS
<1>9. PICK z : z = [a EXCEPT !.rows = q, !.li = li, !.del = del]
  OBVIOUS
<1>10. FlushDel(a) = z
  BY <1>3, <1>5, <1>7, <1>8, <1>9
<1>11. li \in Nat /\ del \in Nat
  BY <1>6, <1>7, <1>8
<1>12. z \in ShowType /\ z.rows = q /\ z.li = li /\ z.ri = a.ri /\ z.del = del
  <2>1. PICK T : T = Seq(RowType)
    OBVIOUS
  <2>2. a \in [rows : T, li : Nat, ri : Nat, del : Nat] /\ ShowType = [rows : T, li : Nat, ri : Nat, del : Nat]
        /\ q \in T
    BY <1>6, <2>1 DEF ShowType
  <2> QED BY ONLY <1>9, <1>11, <2>2
<1> QED BY <1>5, <1>7, <1>8, <1>10, <1>12

LEMMA EqualIs ==
    ASSUME NEW a \in ShowType, NEW n \in Nat
    PROVE  LET z == EqualRun(a, n)
               f == FlushDel(a)
           IN /\ z \in ShowType /\ z.rows = f.rows \o Paired(f.li, f.ri, n, "none")
              /\ z.li = f.li + n /\ z.ri = f.ri + n /\ z.del = 0
<1> DEFINE f == FlushDel(a)
<1>1. f \in ShowType /\ f.del = 0
  BY FlushIs
<1>2. EqualRun(a, n) = [f EXCEPT !.rows = f.rows \o Paired(f.li, f.ri, n, "none"),
                                 !.li = f.li + n, !.ri = f.ri + n]
  BY DEF EqualRun, Paired
<1> HIDE DEF f
<1>3. f.rows \in Seq(RowType) /\ f.li \in Nat /\ f.ri \in Nat
  BY <1>1 DEF ShowType
<1>4. PICK q : q = f.rows \o Paired(f.li, f.ri, n, "none") /\ q \in Seq(RowType)
  <2>1. PICK y : y = Paired(f.li, f.ri, n, "none") /\ y \in [1..n -> RowType]
    <3>1. "none" \in {"none", "modified"}
      OBVIOUS
    <3>2. PICK t : t = "none" /\ t \in {"none", "modified"}
      BY <3>1
    <3>3. Paired(f.li, f.ri, n, t) \in [1..n -> RowType]
      BY <1>3, <3>2, PairedIs
    <3> QED BY <3>2, <3>3
  <2>2. f.rows \o y \in Seq(RowType)
    BY <1>3, <2>1, MoreRows
  <2> QED BY <2>1, <2>2
<1>5. LET z == EqualRun(a, n)
      IN /\ z \in ShowType /\ z.rows = f.rows \o Paired(f.li, f.ri, n, "none")
         /\ z.li = f.li + n /\ z.ri = f.ri + n /\ z.del = 0
  <2>1. PICK li : li = f.li + n
    OBVIOUS
  <2>2. PICK ri : ri = f.ri + n
    OBVIOUS
  <2>3. PICK z : z = [f EXCEPT !.rows = q, !.li = li, !.ri = ri]
    OBVIOUS
  <2>4. EqualRun(a, n) = z
    BY <1>2, <1>4, <2>1, <2>2, <2>3
  <2>5. li \in Nat /\ ri \in Nat
    BY <1>3, <2>1, <2>2
  <2>6. z \in ShowType /\ z.rows = q /\ z.li = li /\ z.ri = ri /\ z.del = f.del
    <3>1. PICK T : T = Seq(RowType)
      OBVIOUS
    <3>2. f \in [rows : T, li : Nat, ri : Nat, del : Nat] /\ q \in T
          /\ ShowType = [rows : T, li : Nat, ri : Nat, del : Nat]
      BY <1>1, <1>4, <3>1 DEF ShowType
    <3> QED BY ONLY <2>3, <2>5, <3>2
  <2> QED BY <1>1, <1>4, <2>1, <2>2, <2>4, <2>6
<1> QED BY <1>5 DEF f

\* An insertion: the pairs, then what is left of one or of the other.
Smaller(m, n) == IF m > n THEN n ELSE m
PairUp(a, n) == LET mod == Smaller(a.del, n)
                IN [a EXCEPT !.rows = @ \o Paired(a.li, a.ri, mod, "modified"),
                             !.li = @ + mod, !.ri = @ + mod, !.del = @ - mod]

LEMMA PairUpIs ==
    ASSUME NEW a \in ShowType, NEW n \in Nat
    PROVE  LET mod == Smaller(a.del, n)
               z == PairUp(a, n)
           IN /\ z \in ShowType /\ z.rows = a.rows \o Paired(a.li, a.ri, mod, "modified")
              /\ z.li = a.li + mod /\ z.ri = a.ri + mod /\ z.del = a.del - mod
              /\ mod \in Nat /\ mod <= n /\ mod <= a.del
<1> DEFINE mod == Smaller(a.del, n)
<1>1. a.rows \in Seq(RowType) /\ a.li \in Nat /\ a.ri \in Nat /\ a.del \in Nat
  BY DEF ShowType
<1>2. mod \in Nat /\ mod <= n /\ mod <= a.del /\ a.del - mod \in Nat
  BY <1>1 DEF Smaller
<1> HIDE DEF mod
<1>3. PICK q : q = a.rows \o Paired(a.li, a.ri, mod, "modified") /\ q \in Seq(RowType)
  <2>1. PICK y : y = Paired(a.li, a.ri, mod, "modified") /\ y \in [1..mod -> RowType]
    <3>1. "modified" \in {"none", "modified"}
      OBVIOUS
    <3>2. PICK t : t = "modified" /\ t \in {"none", "modified"}
      BY <3>1
    <3>3. Paired(a.li, a.ri, mod, t) \in [1..mod -> RowType]
      BY <1>1, <1>2, <3>2, PairedIs
    <3> QED BY <3>2, <3>3
  <2>2. a.rows \o y \in Seq(RowType)
    BY <1>1, <1>2, <2>1, MoreRows
  <2> QED BY <2>1, <2>2
<1>4. PairUp(a, n) = [a EXCEPT !.rows = a.rows \o Paired(a.li, a.ri, mod, "modified"),
                               !.li = a.li + mod, !.ri = a.ri + mod, !.del = a.del - mod]
  BY DEF PairUp, mod
<1>5. LET z == PairUp(a, n)
      IN /\ z \in ShowType /\ z.rows = a.rows \o Paired(a.li, a.ri, mod, "modified")
         /\ z.li = a.li + mod /\ z.ri = a.ri + mod /\ z.del = a.del - mod
  <2>1. PICK li : li = a.li + mod
    OBVIOUS
  <2>2. PICK ri : ri = a.ri + mod
    OBVIOUS
  <2>3. PICK del : del = a.del - mod
    OBVIOUS
  <2>4. PICK z : z = [a EXCEPT !.rows = q, !.li = li, !.ri = ri, !.del = del]
    OBVIOUS
  <2>5. PairUp(a, n) = z
    BY <1>3, <1>4, <2>1, <2>2, <2>3, <2>4
  <2>6. li \in Nat /\ ri \in Nat /\ del \in Nat
    BY <1>1, <1>2, <2>1, <2>2, <2>3
  <2>7. z \in ShowType /\ z.rows = q /\ z.li = li /\ z.ri = ri /\ z.del = del
    <3>1. PICK T : T = Seq(RowType)
      OBVIOUS
    <3>2. a \in [rows : T, li : Nat, ri : Nat, del : Nat] /\ q \in T
          /\ ShowType = [rows : T, li : Nat, ri : Nat, del : Nat]
      BY <1>3, <3>1 DEF ShowType
    <3> QED BY ONLY <2>4, <2>6, <3>2
  <2> QED BY <1>3, <2>1, <2>2, <2>3, <2>5, <2>7
<1> QED BY <1>2, <1>5 DEF mod

LEMMA InsertIs ==
    ASSUME NEW a \in ShowType, NEW n \in Nat
    PROVE  LET f    == FlushDel(PairUp(a, n))
               more == n - Smaller(a.del, n)
               z    == InsertRun(a, n)
           IN /\ more \in Nat /\ z \in ShowType /\ z.rows = f.rows \o Added(f.ri, more)
              /\ z.li = f.li /\ z.ri = f.ri + more /\ z.del = 0
<1> DEFINE p == PairUp(a, n)
           f == FlushDel(p)
           mod == Smaller(a.del, n)
           more == n - mod
<1>1. p \in ShowType /\ mod \in Nat /\ mod <= n
  BY PairUpIs
<1>2. p = [a EXCEPT !.rows = @ \o [k \in 1..mod |-> DiffRow(a.li + k - 1, a.ri + k - 1, "modified")],
                    !.li = @ + mod, !.ri = @ + mod, !.del = @ - mod]
  BY DEF PairUp, Paired
<1> HIDE DEF p
<1>3. f \in ShowType /\ f.del = 0
  BY <1>1, FlushIs
<1>4. InsertRun(a, n) = [f EXCEPT !.rows = @ \o [k \in 1..(n - mod) |-> DiffRow(-1, f.ri + k - 1, "added")],
                                  !.ri = @ + n - mod]
  BY <1>2 DEF InsertRun, Smaller
<1> HIDE DEF f, mod
<1>5. f.rows \in Seq(RowType) /\ f.li \in Nat /\ f.ri \in Nat /\ more \in Nat
      /\ f.ri + n - mod = f.ri + more
  BY <1>1, <1>3 DEF ShowType
<1>6. InsertRun(a, n) = [f EXCEPT !.rows = f.rows \o Added(f.ri, more), !.ri = f.ri + more]
  BY <1>4, <1>5 DEF Added
<1> HIDE DEF more
<1>7. PICK q : q = f.rows \o Added(f.ri, more) /\ q \in Seq(RowType)
  <2>1. PICK y : y = Added(f.ri, more) /\ y \in [1..more -> RowType]
    BY <1>5, AddedIs
  <2>2. f.rows \o y \in Seq(RowType)
    BY <1>5, <2>1, MoreRows
  <2> QED BY <2>1, <2>2
<1>8. LET z == InsertRun(a, n)
      IN /\ z \in ShowType /\ z.rows = f.rows \o Added(f.ri, more)
         /\ z.li = f.li /\ z.ri = f.ri + more /\ z.del = 0
  <2>1. PICK ri : ri = f.ri + more
    OBVIOUS
  <2>2. PICK z : z = [f EXCEPT !.rows = q, !.ri = ri]
    OBVIOUS
  <2>3. InsertRun(a, n) = z
    BY <1>6, <1>7, <2>1, <2>2
  <2>4. ri \in Nat
    BY <1>5, <2>1
  <2>5. z \in ShowType /\ z.rows = q /\ z.li = f.li /\ z.ri = ri /\ z.del = f.del
    <3>1. PICK T : T = Seq(RowType)
      OBVIOUS
    <3>2. f \in [rows : T, li : Nat, ri : Nat, del : Nat] /\ q \in T
          /\ ShowType = [rows : T, li : Nat, ri : Nat, del : Nat]
      BY <1>3, <1>7, <3>1 DEF ShowType
    <3> QED BY ONLY <2>2, <2>4, <3>2
  <2> QED BY <1>3, <1>7, <2>1, <2>3, <2>5
<1> QED BY <1>5, <1>8 DEF p, f, mod, more

LEMMA ShowRunType ==
    ASSUME NEW a \in ShowType, NEW r \in RunType
    PROVE  ShowRun(a, r) \in ShowType
<1>1. r.n \in Nat /\ r.type \in {"equal", "delete", "insert"}
  BY DEF RunType
<1>2. EqualRun(a, r.n) \in ShowType /\ InsertRun(a, r.n) \in ShowType
  BY <1>1, EqualIs, InsertIs
<1>3. [a EXCEPT !.del = @ + r.n] \in ShowType
  BY <1>1 DEF ShowType
<1> QED BY <1>1, <1>2, <1>3 DEF ShowRun

LEMMA NothingType == Nothing \in ShowType
<1>1. <<>> \in Seq(RowType)
  BY EmptySeq
<1> QED BY <1>1 DEF Nothing, ShowType

LEMMA ShownRuns ==
    ASSUME NEW d \in Seq(RunType)
    PROVE  \E k : ShownRun(k, d)
<1> DEFINE Made(g) == g = [n \in 0..Len(d) |-> IF n = 0 THEN Nothing ELSE ShowRun(g[n - 1], d[n])]
           turn == [n \in 1..Len(d) |-> [a \in ShowType |-> ShowRun(a, d[n])]]
           k == CHOOSE g : Made(g)
<1>1. Len(d) \in Nat
  BY RunsLen
<1>2. ASSUME NEW n \in 1..Len(d), NEW a \in ShowType
      PROVE  ShowRun(a, d[n]) \in ShowType
  BY <1>1, RunsLen, ShowRunType
<1>3. turn \in [1..Len(d) -> [ShowType -> ShowType]]
  BY <1>2
<1>4. Nothing \in ShowType
  BY NothingType
<1>5. PICK g : Runs(Len(d), ShowType, Nothing, turn, g)
  <2> HIDE DEF turn
  <2> QED BY <1>1, <1>3, <1>4, LoopRuns
<1>6. Made(g)
  <2>1. ASSUME NEW n \in 0..Len(d)
        PROVE  g[n] = IF n = 0 THEN Nothing ELSE ShowRun(g[n - 1], d[n])
    <3>1. CASE n = 0
      BY <3>1, <1>5 DEF Runs
    <3>2. CASE n # 0
      <4>1. n \in 1..Len(d) /\ n - 1 \in 0..Len(d)
        BY <3>2, <1>1
      <4>2. g[n] = turn[n][g[n - 1]] /\ g[n - 1] \in ShowType
        <5> HIDE DEF turn
        <5> QED BY <4>1, <1>5 DEF Runs
      <4> QED BY <4>1, <4>2, <3>2
    <3> QED BY <3>1, <3>2
  <2>2. g = [n \in 0..Len(d) |-> g[n]]
    BY <1>5 DEF Runs
  <2> HIDE DEF turn
  <2> QED BY <2>1, <2>2
<1>7. Made(k)
  <2> HIDE DEF Made
  <2> QED BY <1>6
<1>8. SideBySide(d) = FlushDel(k[Len(d)]).rows
  BY DEF SideBySide, Nothing
<1> HIDE DEF k
<1>9. k[0] = Nothing /\ \A n \in 1..Len(d) : k[n] = ShowRun(k[n - 1], d[n])
  <2>1. ASSUME NEW n \in 0..Len(d)
        PROVE  k[n] = IF n = 0 THEN Nothing ELSE ShowRun(k[n - 1], d[n])
    BY <1>7
  <2> QED BY <2>1, <1>1
<1>10. ASSUME NEW m \in 0..(Len(d) - 1), k[m] \in ShowType PROVE k[m + 1] \in ShowType
  <2>1. m + 1 \in 1..Len(d) /\ (m + 1) - 1 = m
    BY <1>1
  <2>2. k[m + 1] = ShowRun(k[m], d[m + 1])
    BY <2>1, <1>9
  <2> QED BY <2>1, <2>2, <1>2, <1>10
<1>11. \A m \in 0..Len(d) : k[m] \in ShowType
  BY <1>1, <1>4, <1>9, <1>10, StaysIn
<1>12. k = [m \in 0..Len(d) |-> k[m]]
  BY <1>7
<1> HIDE DEF Made
<1> QED BY <1>8, <1>9, <1>11, <1>12 DEF ShownRun
-----------------------------------------------------------------------------
\* The lines of one side, one after the other.
Count(n) == [i \in 1..n |-> i - 1]

LEMMA CountIs ==
    ASSUME NEW n \in Nat
    PROVE  Count(n) \in Seq(Int) /\ Len(Count(n)) = n /\ \A i \in 1..n : Count(n)[i] = i - 1
<1>1. \A i \in 1..n : i - 1 \in Int
  OBVIOUS
<1> QED BY <1>1 DEF Count

\* A sequence that is two others, and one with the first n lines of a side.
Joined(w, s, y) == w = s \o y
Numbers(y, m)   == y \in Seq(Int) /\ Len(y) = m
Counts(s, n)    == s \in Seq(Int) /\ Without(s, {-1}) = Count(n)

LEMMA JoinIs ==
    ASSUME NEW S, NEW a \in Seq(S), NEW b \in Seq(S), NEW w, Joined(w, a, b)
    PROVE  /\ w \in Seq(S) /\ Len(w) = Len(a) + Len(b)
           /\ \A i \in 1..(Len(a) + Len(b)) : w[i] = IF i <= Len(a) THEN a[i] ELSE b[i - Len(a)]
BY ConcatProperties DEF Joined

LEMMA CountGoesOn ==
    ASSUME NEW s, NEW y, NEW w, NEW n \in Nat, NEW m \in Nat, Numbers(y, m), Counts(s, n), Joined(w, s, y),
           \A k \in 1..m : y[k] = n + k - 1
    PROVE  Counts(w, n + m)
<1> USE DEF Joined
<1>0. y \in Seq(Int) /\ Len(y) = m /\ s \in Seq(Int) /\ Without(s, {-1}) = Count(n) /\ m = Len(y)
  BY DEF Numbers, Counts
<1>9. w \in Seq(Int)
  BY <1>0, ConcatProperties
<1>1. Without(w, {-1}) = Without(s, {-1}) \o Without(y, {-1})
  BY <1>0, WithoutConcat
<1>2. Without(y, {-1}) = y
  <2>1. \A k \in 1..Len(y) : y[k] \notin {-1}
    BY <1>0
  <2> QED BY <1>0, <2>1, WithoutNone
<1>3. PICK c : c = Count(n) /\ c \in Seq(Int) /\ n = Len(c) /\ \A i \in 1..n : c[i] = i - 1
  <2>1. n = Len(Count(n))
    BY CountIs
  <2> QED BY <2>1, CountIs
<1>4. PICK b : b = Count(n + m) /\ b \in Seq(Int) /\ Len(b) = n + m /\ \A i \in 1..(n + m) : b[i] = i - 1
  <2>1. n + m \in Nat
    OBVIOUS
  <2> QED BY <2>1, CountIs
<1>5. PICK v : Joined(v, c, y)
  OBVIOUS
<1>6. /\ v \in Seq(Int) /\ Len(v) = n + m
      /\ \A i \in 1..(n + m) : v[i] = IF i <= n THEN c[i] ELSE y[i - n]
  <2>1. c \in Seq(Int) /\ n = Len(c)
    BY <1>3
  <2> HIDE DEF Joined
  <2>2. /\ v \in Seq(Int) /\ Len(v) = Len(c) + Len(y)
        /\ \A i \in 1..(Len(c) + Len(y)) : v[i] = IF i <= Len(c) THEN c[i] ELSE y[i - Len(c)]
    <3>1. PICK T : T = Int
      OBVIOUS
    <3>2. c \in Seq(T) /\ y \in Seq(T) /\ Joined(v, c, y)
      BY <1>0, <1>5, <2>1, <3>1
    <3>3. /\ v \in Seq(T) /\ Len(v) = Len(c) + Len(y)
          /\ \A i \in 1..(Len(c) + Len(y)) : v[i] = IF i <= Len(c) THEN c[i] ELSE y[i - Len(c)]
      BY ONLY <3>2, JoinIs
    <3> QED BY ONLY <3>1, <3>3
  <2> QED BY ONLY <1>0, <2>1, <2>2
<1>7. ASSUME NEW i \in 1..(n + m) PROVE v[i] = b[i]
  <2>1. CASE i <= n
    <3>1. i \in 1..n
      BY <2>1
    <3> QED BY <2>1, <3>1, <1>3, <1>4, <1>6
  <2>2. CASE ~(i <= n)
    <3>1. i - n \in 1..m /\ n + (i - n) - 1 = i - 1
      BY <2>2
    <3>2. v[i] = y[i - n]
      BY <1>6, <2>2
    <3>3. y[i - n] = n + (i - n) - 1
      BY <3>1
    <3> QED BY <3>1, <3>2, <3>3, <1>4
  <2> QED BY <2>1, <2>2
<1>8. v = b
  BY <1>4, <1>6, <1>7, SeqEqual
<1> QED BY <1>1, <1>2, <1>3, <1>4, <1>5, <1>8, <1>9 DEF Counts

LEMMA CountStays ==
    ASSUME NEW s, NEW y, NEW w, NEW n \in Nat, NEW m \in Nat, Numbers(y, m), Counts(s, n), Joined(w, s, y),
           \A k \in 1..m : y[k] = -1
    PROVE  Counts(w, n)
<1> USE DEF Joined
<1>0. y \in Seq(Int) /\ Len(y) = m /\ s \in Seq(Int) /\ Without(s, {-1}) = Count(n)
  BY DEF Numbers, Counts
<1>1. Without(w, {-1}) = Without(s, {-1}) \o Without(y, {-1}) /\ w \in Seq(Int)
  BY <1>0, WithoutConcat, ConcatProperties
<1>2. Without(y, {-1}) = <<>>
  BY <1>0, WithoutAll
<1>3. Count(n) \in Seq(Int)
  BY CountIs
<1>4. Count(n) \o <<>> = Count(n)
  BY <1>3, ConcatEmptySeq
<1> QED BY <1>0, <1>1, <1>2, <1>4 DEF Counts

LeftsOf(rows)  == [i \in DOMAIN rows |-> rows[i].left]
RightsOf(rows) == [i \in DOMAIN rows |-> rows[i].right]
SameOf(rows)   == {<<rows[i].left, rows[i].right>> : i \in {j \in DOMAIN rows : rows[j].type = "none"}}

LEMMA RowsLen ==
    ASSUME NEW rows \in Seq(RowType)
    PROVE  /\ Len(rows) \in Nat /\ DOMAIN rows = 1..Len(rows)
           /\ \A i \in 1..Len(rows) : rows[i] \in RowType /\ rows[i].left \in Int /\ rows[i].right \in Int
           /\ LeftsOf(rows) \in Seq(Int) /\ RightsOf(rows) \in Seq(Int)
           /\ Len(LeftsOf(rows)) = Len(rows) /\ Len(RightsOf(rows)) = Len(rows)
           /\ \A i \in 1..Len(rows) : LeftsOf(rows)[i] = rows[i].left /\ RightsOf(rows)[i] = rows[i].right
<1>1. Len(rows) \in Nat /\ DOMAIN rows = 1..Len(rows)
  BY LenProperties
<1>2. \A i \in 1..Len(rows) : rows[i] \in RowType
  BY ElementOfSeq
<1>3. \A i \in 1..Len(rows) : rows[i].left \in Int /\ rows[i].right \in Int
  BY <1>2 DEF RowType
<1>4. LeftsOf(rows) = [i \in 1..Len(rows) |-> rows[i].left]
      /\ RightsOf(rows) = [i \in 1..Len(rows) |-> rows[i].right]
  BY <1>1 DEF LeftsOf, RightsOf
<1> QED BY <1>1, <1>2, <1>3, <1>4

LEMMA ConcatIs ==
    ASSUME NEW rows \in Seq(RowType), NEW y \in Seq(RowType), NEW z, z = rows \o y
    PROVE  /\ z \in Seq(RowType) /\ Len(z) = Len(rows) + Len(y)
           /\ \A i \in 1..Len(z) : z[i] = IF i <= Len(rows) THEN rows[i] ELSE y[i - Len(rows)]
BY ConcatProperties

\* No row without a line.
Valued(rows) == \A i \in DOMAIN rows : rows[i].left >= 0 \/ rows[i].right >= 0

LEMMA SidesOfConcat ==
    ASSUME NEW rows \in Seq(RowType), NEW y \in Seq(RowType), NEW z, Joined(z, rows, y)
    PROVE  /\ LeftsOf(z) = LeftsOf(rows) \o LeftsOf(y)
           /\ RightsOf(z) = RightsOf(rows) \o RightsOf(y)
           /\ SameOf(z) = SameOf(rows) \cup SameOf(y)
           /\ Valued(rows) /\ Valued(y) => Valued(z)
<1>1. /\ z \in Seq(RowType) /\ Len(z) = Len(rows) + Len(y)
      /\ \A i \in 1..Len(z) : z[i] = IF i <= Len(rows) THEN rows[i] ELSE y[i - Len(rows)]
  BY ConcatIs DEF Joined
<1>2. PICK n \in Nat : n = Len(rows)
  BY RowsLen
<1>3. PICK m \in Nat : m = Len(y)
  BY RowsLen
<1>4. /\ DOMAIN rows = 1..n /\ DOMAIN y = 1..m /\ DOMAIN z = 1..(n + m) /\ Len(z) = n + m
      /\ LeftsOf(rows) \in Seq(Int) /\ RightsOf(rows) \in Seq(Int)
      /\ LeftsOf(y) \in Seq(Int) /\ RightsOf(y) \in Seq(Int)
      /\ LeftsOf(z) \in Seq(Int) /\ RightsOf(z) \in Seq(Int)
      /\ Len(LeftsOf(rows)) = n /\ Len(RightsOf(rows)) = n /\ Len(LeftsOf(y)) = m /\ Len(RightsOf(y)) = m
      /\ Len(LeftsOf(z)) = n + m /\ Len(RightsOf(z)) = n + m
  BY <1>1, <1>2, <1>3, RowsLen
<1>5. /\ \A i \in 1..n : LeftsOf(rows)[i] = rows[i].left /\ RightsOf(rows)[i] = rows[i].right
      /\ \A i \in 1..m : LeftsOf(y)[i] = y[i].left /\ RightsOf(y)[i] = y[i].right
      /\ \A i \in 1..(n + m) : LeftsOf(z)[i] = z[i].left /\ RightsOf(z)[i] = z[i].right
  BY <1>1, <1>2, <1>3, RowsLen
<1>13. \A i \in 1..(n + m) : z[i] = IF i <= n THEN rows[i] ELSE y[i - n]
  BY <1>1, <1>2, <1>4
<1>6. ASSUME NEW i \in 1..n PROVE z[i] = rows[i] /\ i \in 1..(n + m)
  BY <1>13
<1>7. ASSUME NEW i \in 1..m PROVE z[n + i] = y[i] /\ n + i \in 1..(n + m)
  <2>1. n + i \in 1..(n + m) /\ ~(n + i <= n) /\ (n + i) - n = i
    OBVIOUS
  <2> QED BY <2>1, <1>13
<1>8. ASSUME NEW i \in 1..(n + m)
      PROVE  \/ i \in 1..n /\ z[i] = rows[i]
             \/ i - n \in 1..m /\ z[i] = y[i - n] /\ ~(i <= n)
  <2>1. CASE i <= n
    <3>1. i \in 1..n
      BY <2>1
    <3> QED BY <3>1, <1>6
  <2>2. CASE ~(i <= n)
    <3>1. i - n \in 1..m
      BY <2>2
    <3> QED BY <2>2, <3>1, <1>13
  <2> QED BY <2>1, <2>2
<1>9. LeftsOf(z) = LeftsOf(rows) \o LeftsOf(y)
  <2>1. PICK a : a = LeftsOf(rows) /\ a \in Seq(Int) /\ n = Len(a) /\ \A i \in 1..n : a[i] = rows[i].left
    BY <1>4, <1>5
  <2>2. PICK b : b = LeftsOf(y) /\ b \in Seq(Int) /\ m = Len(b) /\ \A i \in 1..m : b[i] = y[i].left
    BY <1>4, <1>5
  <2>3. PICK c : c = LeftsOf(z) /\ c \in Seq(Int) /\ n + m = Len(c) /\ \A i \in 1..(n + m) : c[i] = z[i].left
    BY <1>4, <1>5
  <2>5. PICK u : Joined(u, a, b)
    BY DEF Joined
  <2>6. /\ u \in Seq(Int) /\ Len(u) = n + m
        /\ \A i \in 1..(n + m) : u[i] = IF i <= n THEN a[i] ELSE b[i - n]
    <3>1. /\ u \in Seq(Int) /\ Len(u) = Len(a) + Len(b)
          /\ \A i \in 1..(Len(a) + Len(b)) : u[i] = IF i <= Len(a) THEN a[i] ELSE b[i - Len(a)]
      <4>1. a \in Seq(Int) /\ b \in Seq(Int) /\ Joined(u, a, b)
        BY <2>1, <2>2, <2>5
      <4> QED BY ONLY <4>1, JoinIs
    <3> QED BY <2>1, <2>2, <3>1
  <2>7. ASSUME NEW i \in 1..(n + m) PROVE c[i] = u[i]
    <3>1. CASE i \in 1..n /\ z[i] = rows[i]
      <4>1. i <= n /\ u[i] = a[i]
        BY <3>1, <2>6
      <4> QED BY <3>1, <4>1, <2>1, <2>3
    <3>2. CASE i - n \in 1..m /\ z[i] = y[i - n] /\ ~(i <= n)
      BY <3>2, <2>2, <2>3, <2>6
    <3> QED BY <3>1, <3>2, <1>8
  <2>8. c = u
    BY <2>3, <2>6, <2>7, SeqEqual
  <2> QED BY <2>1, <2>2, <2>3, <2>5, <2>8 DEF Joined
<1>10. RightsOf(z) = RightsOf(rows) \o RightsOf(y)
  <2>1. PICK a : a = RightsOf(rows) /\ a \in Seq(Int) /\ n = Len(a) /\ \A i \in 1..n : a[i] = rows[i].right
    BY <1>4, <1>5
  <2>2. PICK b : b = RightsOf(y) /\ b \in Seq(Int) /\ m = Len(b) /\ \A i \in 1..m : b[i] = y[i].right
    BY <1>4, <1>5
  <2>3. PICK c : c = RightsOf(z) /\ c \in Seq(Int) /\ n + m = Len(c) /\ \A i \in 1..(n + m) : c[i] = z[i].right
    BY <1>4, <1>5
  <2>5. PICK u : Joined(u, a, b)
    BY DEF Joined
  <2>6. /\ u \in Seq(Int) /\ Len(u) = n + m
        /\ \A i \in 1..(n + m) : u[i] = IF i <= n THEN a[i] ELSE b[i - n]
    <3>1. /\ u \in Seq(Int) /\ Len(u) = Len(a) + Len(b)
          /\ \A i \in 1..(Len(a) + Len(b)) : u[i] = IF i <= Len(a) THEN a[i] ELSE b[i - Len(a)]
      <4>1. a \in Seq(Int) /\ b \in Seq(Int) /\ Joined(u, a, b)
        BY <2>1, <2>2, <2>5
      <4> QED BY ONLY <4>1, JoinIs
    <3> QED BY <2>1, <2>2, <3>1
  <2>7. ASSUME NEW i \in 1..(n + m) PROVE c[i] = u[i]
    <3>1. CASE i \in 1..n /\ z[i] = rows[i]
      <4>1. i <= n /\ u[i] = a[i]
        BY <3>1, <2>6
      <4> QED BY <3>1, <4>1, <2>1, <2>3
    <3>2. CASE i - n \in 1..m /\ z[i] = y[i - n] /\ ~(i <= n)
      BY <3>2, <2>2, <2>3, <2>6
    <3> QED BY <3>1, <3>2, <1>8
  <2>8. c = u
    BY <2>3, <2>6, <2>7, SeqEqual
  <2> QED BY <2>1, <2>2, <2>3, <2>5, <2>8 DEF Joined
<1>11. SameOf(z) = SameOf(rows) \cup SameOf(y)
  <2>1. ASSUME NEW e \in SameOf(z) PROVE e \in SameOf(rows) \cup SameOf(y)
    <3>1. PICK i \in 1..(n + m) : z[i].type = "none" /\ e = <<z[i].left, z[i].right>>
      BY <1>4 DEF SameOf
    <3> QED BY <3>1, <1>4, <1>8 DEF SameOf
  <2>2. ASSUME NEW e \in SameOf(rows) PROVE e \in SameOf(z)
    <3>1. PICK i \in 1..n : rows[i].type = "none" /\ e = <<rows[i].left, rows[i].right>>
      BY <1>4 DEF SameOf
    <3> QED BY <3>1, <1>4, <1>6 DEF SameOf
  <2>3. ASSUME NEW e \in SameOf(y) PROVE e \in SameOf(z)
    <3>1. PICK i \in 1..m : y[i].type = "none" /\ e = <<y[i].left, y[i].right>>
      BY <1>4 DEF SameOf
    <3>2. z[n + i] = y[i] /\ n + i \in DOMAIN z
      BY <1>4, <1>7
    <3> QED BY <3>1, <3>2 DEF SameOf
  <2> QED BY <2>1, <2>2, <2>3
<1>12. Valued(rows) /\ Valued(y) => Valued(z)
  BY <1>4, <1>8 DEF Valued
<1> QED BY <1>9, <1>10, <1>11, <1>12

\* Rows that show the first li and ri lines of the sides.
RowsShow(rows, li, ri, same) ==
    /\ Lefts(rows) = Count(li) /\ Rights(rows) = Count(ri) /\ SameOf(rows) = same
    /\ Valued(rows)

LEMMA AddRows ==
    ASSUME NEW rows \in Seq(RowType), NEW li \in Nat, NEW ri \in Nat, NEW same, RowsShow(rows, li, ri, same),
           NEW y \in Seq(RowType), NEW z, Joined(z, rows, y), NEW dl \in Nat, NEW dr \in Nat,
           \/ dl = Len(y) /\ \A k \in 1..Len(y) : y[k].left = li + k - 1
           \/ dl = 0 /\ \A k \in 1..Len(y) : y[k].left = -1,
           \/ dr = Len(y) /\ \A k \in 1..Len(y) : y[k].right = ri + k - 1
           \/ dr = 0 /\ \A k \in 1..Len(y) : y[k].right = -1,
           Valued(y)
    PROVE  RowsShow(z, li + dl, ri + dr, same \cup SameOf(y))
<1>1. Len(y) \in Nat /\ DOMAIN y = 1..Len(y)
  BY RowsLen
<1>2. /\ LeftsOf(z) = LeftsOf(rows) \o LeftsOf(y)
      /\ RightsOf(z) = RightsOf(rows) \o RightsOf(y)
      /\ SameOf(z) = SameOf(rows) \cup SameOf(y)
      /\ Valued(rows) /\ Valued(y) => Valued(z)
  BY SidesOfConcat
<1>3. /\ Numbers(LeftsOf(y), Len(y)) /\ \A k \in 1..Len(y) : LeftsOf(y)[k] = y[k].left
      /\ Numbers(RightsOf(y), Len(y)) /\ \A k \in 1..Len(y) : RightsOf(y)[k] = y[k].right
  BY <1>1, RowsLen DEF Numbers
<1>4. Counts(LeftsOf(rows), li) /\ Counts(RightsOf(rows), ri)
  BY RowsLen DEF RowsShow, Lefts, Rights, LeftsOf, RightsOf, Counts
<1>5. Counts(LeftsOf(z), li + dl)
  <2>1. Joined(LeftsOf(z), LeftsOf(rows), LeftsOf(y))
    BY <1>2 DEF Joined
  <2>2. CASE dl = Len(y) /\ \A k \in 1..Len(y) : y[k].left = li + k - 1
    <3>1. \A k \in 1..Len(y) : LeftsOf(y)[k] = li + k - 1
      BY <1>3, <2>2
    <3> QED BY <1>3, <1>4, <2>1, <2>2, <3>1, CountGoesOn
  <2>3. CASE dl = 0 /\ \A k \in 1..Len(y) : y[k].left = -1
    <3>1. \A k \in 1..Len(y) : LeftsOf(y)[k] = -1
      BY <1>3, <2>3
    <3>2. li + dl = li
      BY <2>3
    <3> QED BY <1>3, <1>4, <2>1, <3>1, <3>2, CountStays
  <2> QED BY <2>2, <2>3
<1>6. Counts(RightsOf(z), ri + dr)
  <2>1. Joined(RightsOf(z), RightsOf(rows), RightsOf(y))
    BY <1>2 DEF Joined
  <2>2. CASE dr = Len(y) /\ \A k \in 1..Len(y) : y[k].right = ri + k - 1
    <3>1. \A k \in 1..Len(y) : RightsOf(y)[k] = ri + k - 1
      BY <1>3, <2>2
    <3> QED BY <1>3, <1>4, <2>1, <2>2, <3>1, CountGoesOn
  <2>3. CASE dr = 0 /\ \A k \in 1..Len(y) : y[k].right = -1
    <3>1. \A k \in 1..Len(y) : RightsOf(y)[k] = -1
      BY <1>3, <2>3
    <3>2. ri + dr = ri
      BY <2>3
    <3> QED BY <1>3, <1>4, <2>1, <3>1, <3>2, CountStays
  <2> QED BY <2>2, <2>3
<1>7. SameOf(z) = same \cup SameOf(y)
  BY <1>2 DEF RowsShow
<1>8. Valued(z)
  BY <1>2 DEF RowsShow
<1> QED BY <1>5, <1>6, <1>7, <1>8 DEF RowsShow, Counts, Lefts, Rights, LeftsOf, RightsOf

\* The parts of a turn, in what the rows show.
LEMMA BlockSame ==
    ASSUME NEW y \in Seq(RowType), \A k \in 1..Len(y) : y[k].type # "none"
    PROVE  SameOf(y) = {}
BY RowsLen DEF SameOf

LEMMA FlushShows ==
    ASSUME NEW a \in ShowType, NEW same, RowsShow(a.rows, a.li, a.ri, same)
    PROVE  RowsShow(FlushDel(a).rows, FlushDel(a).li, FlushDel(a).ri, same)
<1>1. a.rows \in Seq(RowType) /\ a.li \in Nat /\ a.ri \in Nat /\ a.del \in Nat
  BY DEF ShowType
<1>2. PICK y : y = Deleted(a.li, a.del)
  OBVIOUS
<1>3. y \in [1..a.del -> RowType]
      /\ \A k \in 1..a.del : y[k].left = a.li + k - 1 /\ y[k].right = -1 /\ y[k].type = "deleted"
  BY <1>1, <1>2, DeletedIs
<1>4. y \in Seq(RowType) /\ Len(y) = a.del /\ DOMAIN y = 1..Len(y)
  BY <1>1, <1>3, MoreRows
<1>5. /\ \A k \in 1..Len(y) : y[k].left = a.li + k - 1
      /\ \A k \in 1..Len(y) : y[k].right = -1
      /\ \A k \in 1..Len(y) : y[k].type # "none"
  BY <1>3, <1>4
<1>6. Valued(y)
  BY <1>1, <1>4, <1>5 DEF Valued
<1>7. SameOf(y) = {}
  BY <1>4, <1>5, BlockSame
<1>8. PICK z : Joined(z, a.rows, y)
  BY DEF Joined
<1>9. RowsShow(z, a.li + Len(y), a.ri + 0, same \cup SameOf(y))
  <2>1. 0 \in Nat /\ Len(y) \in Nat
    BY <1>1, <1>4
  <2> QED BY <1>1, <1>4, <1>5, <1>6, <1>8, <2>1, AddRows
<1>10. FlushDel(a).rows = z /\ FlushDel(a).li = a.li + Len(y) /\ FlushDel(a).ri = a.ri + 0
  <2>1. a.ri + 0 = a.ri /\ Len(y) = a.del
    BY <1>1, <1>4
  <2>2. FlushDel(a).rows = a.rows \o Deleted(a.li, a.del) /\ FlushDel(a).li = a.li + a.del
        /\ FlushDel(a).ri = a.ri
    BY FlushIs
  <2>3. z = a.rows \o Deleted(a.li, a.del)
    BY <1>2, <1>8 DEF Joined
  <2> QED BY ONLY <2>1, <2>2, <2>3
<1> QED BY <1>7, <1>9, <1>10

LEMMA PairShows ==
    ASSUME NEW a \in ShowType, NEW n \in Nat, NEW same, RowsShow(a.rows, a.li, a.ri, same)
    PROVE  RowsShow(PairUp(a, n).rows, PairUp(a, n).li, PairUp(a, n).ri, same)
<1>1. a.rows \in Seq(RowType) /\ a.li \in Nat /\ a.ri \in Nat /\ a.del \in Nat
  BY DEF ShowType
<1>2. PICK mod \in Nat : mod = Smaller(a.del, n)
  BY PairUpIs
<1>3. PICK y : y = Paired(a.li, a.ri, mod, "modified")
  OBVIOUS
<1>4. y \in [1..mod -> RowType]
      /\ \A k \in 1..mod : y[k].left = a.li + k - 1 /\ y[k].right = a.ri + k - 1 /\ y[k].type = "modified"
  <2>1. PICK l \in Nat : l = a.li
    BY <1>1
  <2>2. PICK r \in Nat : r = a.ri
    BY <1>1
  <2>3. PairRows(Paired(l, r, mod, "modified"), l, r, mod, "modified")
    BY <2>1, <2>2, ModifiedIs
  <2>4. y = Paired(l, r, mod, "modified")
    BY <1>3, <2>1, <2>2
  <2>5. PairRows(y, l, r, mod, "modified")
    BY <2>3, <2>4
  <2> QED BY <2>1, <2>2, <2>5 DEF PairRows
<1>5. y \in Seq(RowType) /\ Len(y) = mod /\ DOMAIN y = 1..Len(y)
  BY <1>1, <1>4, MoreRows
<1>6. /\ \A k \in 1..Len(y) : y[k].left = a.li + k - 1
      /\ \A k \in 1..Len(y) : y[k].right = a.ri + k - 1
      /\ \A k \in 1..Len(y) : y[k].type # "none"
  BY <1>4, <1>5
<1>7. Valued(y)
  BY <1>1, <1>5, <1>6 DEF Valued
<1>8. SameOf(y) = {}
  BY <1>5, <1>6, BlockSame
<1>9. PICK z : Joined(z, a.rows, y)
  BY DEF Joined
<1>10. RowsShow(z, a.li + Len(y), a.ri + Len(y), same \cup SameOf(y))
  <2>1. Len(y) \in Nat
    BY <1>5
  <2> QED BY <1>1, <1>5, <1>6, <1>7, <1>9, <2>1, AddRows
<1>11. PairUp(a, n).rows = z /\ PairUp(a, n).li = a.li + Len(y) /\ PairUp(a, n).ri = a.ri + Len(y)
  <2>1. Len(y) = mod
    BY <1>5
  <2>2. PairUp(a, n).rows = a.rows \o Paired(a.li, a.ri, mod, "modified") /\ PairUp(a, n).li = a.li + mod
        /\ PairUp(a, n).ri = a.ri + mod
    BY <1>2, PairUpIs
  <2>3. z = a.rows \o Paired(a.li, a.ri, mod, "modified")
    BY <1>3, <1>9 DEF Joined
  <2> QED BY ONLY <2>1, <2>2, <2>3
<1> QED BY <1>8, <1>10, <1>11

LEMMA InsertShows ==
    ASSUME NEW a \in ShowType, NEW n \in Nat, NEW same, RowsShow(a.rows, a.li, a.ri, same)
    PROVE  /\ RowsShow(InsertRun(a, n).rows, InsertRun(a, n).li, InsertRun(a, n).ri, same)
           /\ InsertRun(a, n).li = a.li + a.del /\ InsertRun(a, n).ri = a.ri + n /\ InsertRun(a, n).del = 0
<1> DEFINE p == PairUp(a, n)
           f == FlushDel(p)
           mod == Smaller(a.del, n)
<1>1. a.li \in Nat /\ a.ri \in Nat /\ a.del \in Nat
  BY DEF ShowType
<1>2. /\ p \in ShowType /\ p.li = a.li + mod /\ p.ri = a.ri + mod /\ p.del = a.del - mod
      /\ mod \in Nat /\ mod <= n /\ mod <= a.del
  BY PairUpIs
<1>3. RowsShow(p.rows, p.li, p.ri, same)
  BY PairShows
<1> HIDE DEF p, mod
<1>4. f \in ShowType /\ f.li = p.li + p.del /\ f.ri = p.ri /\ f.del = 0
  BY <1>2, FlushIs
<1>5. RowsShow(f.rows, f.li, f.ri, same)
  BY <1>2, <1>3, FlushShows
<1>6. PICK more \in Nat : more = n - mod
  BY <1>2
<1>7. LET z == InsertRun(a, n)
      IN z.rows = f.rows \o Added(f.ri, more) /\ z.li = f.li /\ z.ri = f.ri + more /\ z.del = 0
  BY <1>6, InsertIs DEF p, mod
<1> HIDE DEF f
<1>8. f.rows \in Seq(RowType) /\ f.li \in Nat /\ f.ri \in Nat
  BY <1>4 DEF ShowType
<1>9. PICK y : y = Added(f.ri, more)
  OBVIOUS
<1>10. y \in [1..more -> RowType]
       /\ \A k \in 1..more : y[k].right = f.ri + k - 1 /\ y[k].left = -1 /\ y[k].type = "added"
  BY <1>8, <1>9, AddedIs
<1>11. y \in Seq(RowType) /\ Len(y) = more /\ DOMAIN y = 1..Len(y)
  BY <1>8, <1>10, MoreRows
<1>12. /\ \A k \in 1..Len(y) : y[k].right = f.ri + k - 1
       /\ \A k \in 1..Len(y) : y[k].left = -1
       /\ \A k \in 1..Len(y) : y[k].type # "none"
  BY <1>10, <1>11
<1>13. Valued(y)
  BY <1>8, <1>11, <1>12 DEF Valued
<1>14. SameOf(y) = {}
  BY <1>11, <1>12, BlockSame
<1>15. PICK z : Joined(z, f.rows, y)
  BY DEF Joined
<1>16. RowsShow(z, f.li + 0, f.ri + Len(y), same \cup SameOf(y))
  <2>1. 0 \in Nat /\ Len(y) \in Nat
    BY <1>11
  <2> QED BY <1>5, <1>8, <1>11, <1>12, <1>13, <1>15, <2>1, AddRows
<1>17. /\ InsertRun(a, n).rows = z /\ InsertRun(a, n).li = f.li + 0 /\ InsertRun(a, n).ri = f.ri + Len(y)
       /\ InsertRun(a, n).del = 0
  BY <1>7, <1>8, <1>9, <1>11, <1>15 DEF Joined
<1>18. f.li + 0 = a.li + a.del /\ f.ri + Len(y) = a.ri + n
  <2>1. PICK l : l = a.li
    OBVIOUS
  <2>2. PICK r : r = a.ri
    OBVIOUS
  <2>3. PICK e : e = a.del
    OBVIOUS
  <2>4. f.li = (l + mod) + (e - mod) /\ f.ri = r + mod /\ Len(y) = n - mod
    BY <1>2, <1>4, <1>6, <1>11, <2>1, <2>2, <2>3
  <2>5. f.li + 0 = l + e /\ f.ri + Len(y) = r + n
    <3>1. l \in Nat /\ r \in Nat /\ e \in Nat /\ mod \in Nat /\ n \in Nat
      BY <1>1, <1>2, <2>1, <2>2, <2>3
    <3> QED BY ONLY <2>4, <3>1
  <2> QED BY <2>1, <2>2, <2>3, <2>5
<1> QED BY <1>14, <1>16, <1>17, <1>18

Shift(o, w, n) == {<<o + k, w + k>> : k \in 0..(n - 1)}

LEMMA EqualShows ==
    ASSUME NEW a \in ShowType, NEW n \in Nat, NEW same, RowsShow(a.rows, a.li, a.ri, same)
    PROVE  /\ RowsShow(EqualRun(a, n).rows, EqualRun(a, n).li, EqualRun(a, n).ri,
                       same \cup Shift(a.li + a.del, a.ri, n))
           /\ EqualRun(a, n).li = a.li + a.del + n /\ EqualRun(a, n).ri = a.ri + n /\ EqualRun(a, n).del = 0
<1> DEFINE f == FlushDel(a)
<1>1. a.li \in Nat /\ a.ri \in Nat /\ a.del \in Nat
  BY DEF ShowType
<1>2. f \in ShowType /\ f.li = a.li + a.del /\ f.ri = a.ri
  BY FlushIs
<1>3. RowsShow(f.rows, f.li, f.ri, same)
  BY FlushShows
<1>4. LET z == EqualRun(a, n)
      IN z.rows = f.rows \o Paired(f.li, f.ri, n, "none") /\ z.li = f.li + n /\ z.ri = f.ri + n /\ z.del = 0
  BY EqualIs
<1> HIDE DEF f
<1>5. f.rows \in Seq(RowType) /\ f.li \in Nat /\ f.ri \in Nat
  BY <1>2 DEF ShowType
<1>6. PICK y : y = Paired(f.li, f.ri, n, "none")
  OBVIOUS
<1>7. y \in [1..n -> RowType]
      /\ \A k \in 1..n : y[k].left = f.li + k - 1 /\ y[k].right = f.ri + k - 1 /\ y[k].type = "none"
  <2>1. PICK l \in Nat : l = f.li
    BY <1>5
  <2>2. PICK r \in Nat : r = f.ri
    BY <1>5
  <2>3. PairRows(Paired(l, r, n, "none"), l, r, n, "none")
    BY <2>1, <2>2, SameIs
  <2>4. y = Paired(l, r, n, "none")
    BY <1>6, <2>1, <2>2
  <2>5. PairRows(y, l, r, n, "none")
    BY <2>3, <2>4
  <2> QED BY <2>1, <2>2, <2>5 DEF PairRows
<1>8. y \in Seq(RowType) /\ Len(y) = n /\ DOMAIN y = 1..Len(y)
  BY <1>5, <1>7, MoreRows
<1>9. /\ \A k \in 1..Len(y) : y[k].left = f.li + k - 1
      /\ \A k \in 1..Len(y) : y[k].right = f.ri + k - 1
  BY <1>7, <1>8
<1>10. Valued(y)
  BY <1>5, <1>8, <1>9 DEF Valued
<1>11. SameOf(y) = Shift(f.li, f.ri, n)
  <2>1. ASSUME NEW e \in SameOf(y) PROVE e \in Shift(f.li, f.ri, n)
    <3>1. PICK k \in 1..n : e = <<y[k].left, y[k].right>>
      BY <2>1, <1>8 DEF SameOf
    <3>2. k - 1 \in 0..(n - 1) /\ f.li + (k - 1) = f.li + k - 1 /\ f.ri + (k - 1) = f.ri + k - 1
      BY <1>5
    <3>3. e = <<f.li + (k - 1), f.ri + (k - 1)>>
      BY <3>1, <3>2, <1>7
    <3> QED BY <3>2, <3>3 DEF Shift
  <2>2. ASSUME NEW e \in Shift(f.li, f.ri, n) PROVE e \in SameOf(y)
    <3>1. PICK k \in 0..(n - 1) : e = <<f.li + k, f.ri + k>>
      BY DEF Shift
    <3>2. k + 1 \in 1..n /\ f.li + (k + 1) - 1 = f.li + k /\ f.ri + (k + 1) - 1 = f.ri + k
      BY <1>5
    <3>3. e = <<y[k + 1].left, y[k + 1].right>> /\ y[k + 1].type = "none" /\ k + 1 \in DOMAIN y
      BY <3>1, <3>2, <1>7, <1>8
    <3> QED BY <3>3 DEF SameOf
  <2> QED BY <2>1, <2>2
<1>12. PICK z : Joined(z, f.rows, y)
  BY DEF Joined
<1>13. RowsShow(z, f.li + Len(y), f.ri + Len(y), same \cup SameOf(y))
  <2>1. Len(y) \in Nat
    BY <1>8
  <2> QED BY <1>3, <1>5, <1>8, <1>9, <1>10, <1>12, <2>1, AddRows
<1>14. /\ EqualRun(a, n).rows = z /\ EqualRun(a, n).li = f.li + Len(y) /\ EqualRun(a, n).ri = f.ri + Len(y)
       /\ EqualRun(a, n).del = 0
  BY <1>4, <1>6, <1>8, <1>12 DEF Joined
<1>15. f.li + Len(y) = a.li + a.del + n /\ f.ri + Len(y) = a.ri + n
  BY <1>1, <1>2, <1>8
<1>16. Shift(f.li, f.ri, n) = Shift(a.li + a.del, a.ri, n)
  BY <1>2
<1> QED BY <1>11, <1>13, <1>14, <1>15, <1>16

-----------------------------------------------------------------------------
(* The rows, run after run.                                                *)

LEMMA OldRuns ==
    ASSUME NEW d \in Seq(RunType)
    PROVE  LET k == OldLinesTo(d)
           IN /\ k \in [0..Len(d) -> Nat] /\ k[0] = 0
              /\ \A n \in 1..Len(d) : k[n] = (k[n - 1] + IF d[n].type = "insert" THEN 0 ELSE d[n].n)
<1> DEFINE k == OldLinesTo(d)
<1>1. /\ k \in [0..Len(d) -> Nat] /\ k[0] = 0
      /\ \A n \in 1..Len(d) : k[n] = (k[n - 1] + IF d[n].type \in {"equal", "delete"} THEN d[n].n ELSE 0)
  BY LinesRun DEF OldLinesTo
<1> HIDE DEF k
<1>2. ASSUME NEW n \in 1..Len(d) PROVE k[n] = (k[n - 1] + IF d[n].type = "insert" THEN 0 ELSE d[n].n)
  <2>1. d[n].type \in {"equal", "delete"} <=> d[n].type # "insert"
    BY RunsLen
  <2> QED BY <1>1, <2>1
<1> QED BY <1>1, <1>2 DEF k

LEMMA NewRuns ==
    ASSUME NEW d \in Seq(RunType)
    PROVE  LET k == NewLinesTo(d)
           IN /\ k \in [0..Len(d) -> Nat] /\ k[0] = 0
              /\ \A n \in 1..Len(d) : k[n] = (k[n - 1] + IF d[n].type = "delete" THEN 0 ELSE d[n].n)
<1> DEFINE k == NewLinesTo(d)
<1>1. /\ k \in [0..Len(d) -> Nat] /\ k[0] = 0
      /\ \A n \in 1..Len(d) : k[n] = (k[n - 1] + IF d[n].type \in {"equal", "insert"} THEN d[n].n ELSE 0)
  BY LinesRun DEF NewLinesTo
<1> HIDE DEF k
<1>2. ASSUME NEW n \in 1..Len(d) PROVE k[n] = (k[n - 1] + IF d[n].type = "delete" THEN 0 ELSE d[n].n)
  <2>1. d[n].type \in {"equal", "insert"} <=> d[n].type # "delete"
    BY RunsLen
  <2> QED BY <1>1, <2>1
<1> QED BY <1>1, <1>2 DEF k

\* The lines of the first n runs that are the same.
SameTo(d, n) ==
    UNION {Shift(OldLinesTo(d)[i - 1], NewLinesTo(d)[i - 1], d[i].n) : i \in {j \in 1..n : d[j].type = "equal"}}

LEMMA SameGrows ==
    ASSUME NEW d \in Seq(RunType), NEW n \in 1..Len(d)
    PROVE  /\ d[n].type = "equal" =>
                  SameTo(d, n) = SameTo(d, n - 1) \cup Shift(OldLinesTo(d)[n - 1], NewLinesTo(d)[n - 1], d[n].n)
           /\ d[n].type # "equal" => SameTo(d, n) = SameTo(d, n - 1)
<1> DEFINE runs(m) == {j \in 1..m : d[j].type = "equal"}
           of(i)   == Shift(OldLinesTo(d)[i - 1], NewLinesTo(d)[i - 1], d[i].n)
<1>1. Len(d) \in Nat
  BY RunsLen
<1>2. 1..n = (1..(n - 1)) \cup {n}
  BY <1>1
<1>3. d[n].type = "equal" => runs(n) = runs(n - 1) \cup {n}
  BY <1>2
<1>4. d[n].type # "equal" => runs(n) = runs(n - 1)
  BY <1>2
<1>5. \A m : SameTo(d, m) = UNION {of(i) : i \in runs(m)}
  BY DEF SameTo
<1> HIDE DEF runs, of
<1>6. d[n].type = "equal" => SameTo(d, n) = SameTo(d, n - 1) \cup of(n)
  BY <1>3, <1>5
<1>7. d[n].type # "equal" => SameTo(d, n) = SameTo(d, n - 1)
  BY <1>4, <1>5
<1> QED BY <1>6, <1>7 DEF of

ShowKnows(d, n, a) ==
    /\ RowsShow(a.rows, a.li, a.ri, SameTo(d, n))
    /\ a.li + a.del = OldLinesTo(d)[n] /\ a.ri = NewLinesTo(d)[n]

LEMMA ShowStep ==
    ASSUME NEW d \in Seq(RunType), NEW n \in 1..Len(d), NEW a \in ShowType, ShowKnows(d, n - 1, a)
    PROVE  ShowKnows(d, n, ShowRun(a, d[n]))
<1>1. d[n].n \in Nat /\ d[n].type \in {"equal", "delete", "insert"}
  BY RunsLen
<1>2. a.li \in Nat /\ a.ri \in Nat /\ a.del \in Nat
  BY DEF ShowType
<1>3. PICK m \in Nat : m = d[n].n
  BY <1>1
<1>4. PICK same : same = SameTo(d, n - 1)
  OBVIOUS
<1>5. RowsShow(a.rows, a.li, a.ri, same) /\ a.li + a.del = OldLinesTo(d)[n - 1] /\ a.ri = NewLinesTo(d)[n - 1]
  BY <1>4 DEF ShowKnows
<1>6. OldLinesTo(d)[n] = (OldLinesTo(d)[n - 1] + IF d[n].type = "insert" THEN 0 ELSE m)
  BY <1>3, OldRuns
<1>7. NewLinesTo(d)[n] = (NewLinesTo(d)[n - 1] + IF d[n].type = "delete" THEN 0 ELSE m)
  BY <1>3, NewRuns
<1>8. CASE d[n].type = "equal"
  <2>1. ShowRun(a, d[n]) = EqualRun(a, m)
    BY <1>3, <1>8 DEF ShowRun
  <2>2. SameTo(d, n) = same \cup Shift(a.li + a.del, a.ri, m)
    BY <1>3, <1>4, <1>5, <1>8, SameGrows
  <2>3. /\ RowsShow(EqualRun(a, m).rows, EqualRun(a, m).li, EqualRun(a, m).ri, SameTo(d, n))
        /\ EqualRun(a, m).li = a.li + a.del + m /\ EqualRun(a, m).ri = a.ri + m /\ EqualRun(a, m).del = 0
    BY <1>5, <2>2, EqualShows
  <2>4. EqualRun(a, m).li + EqualRun(a, m).del = OldLinesTo(d)[n] /\ EqualRun(a, m).ri = NewLinesTo(d)[n]
    <3>1. OldLinesTo(d)[n] = OldLinesTo(d)[n - 1] + m /\ NewLinesTo(d)[n] = NewLinesTo(d)[n - 1] + m
      BY <1>6, <1>7, <1>8
    <3>2. EqualRun(a, m).li = OldLinesTo(d)[n]
      BY <1>5, <2>3, <3>1
    <3>3. OldLinesTo(d)[n] \in Nat
      BY <1>2, <1>3, <1>5, <3>1
    <3> QED BY <1>5, <2>3, <3>1, <3>2, <3>3
  <2> QED BY <2>1, <2>3, <2>4 DEF ShowKnows
<1>9. CASE d[n].type = "insert"
  <2>1. ShowRun(a, d[n]) = InsertRun(a, m)
    BY <1>3, <1>9 DEF ShowRun
  <2>2. SameTo(d, n) = same
    BY <1>4, <1>9, SameGrows
  <2>3. /\ RowsShow(InsertRun(a, m).rows, InsertRun(a, m).li, InsertRun(a, m).ri, same)
        /\ InsertRun(a, m).li = a.li + a.del /\ InsertRun(a, m).ri = a.ri + m /\ InsertRun(a, m).del = 0
    BY <1>5, InsertShows
  <2>4. InsertRun(a, m).li + InsertRun(a, m).del = OldLinesTo(d)[n] /\ InsertRun(a, m).ri = NewLinesTo(d)[n]
    <3>1. OldLinesTo(d)[n] = OldLinesTo(d)[n - 1] + 0 /\ NewLinesTo(d)[n] = NewLinesTo(d)[n - 1] + m
      BY <1>6, <1>7, <1>9
    <3> QED BY <1>2, <1>5, <2>3, <3>1
  <2> QED BY <2>1, <2>2, <2>3, <2>4 DEF ShowKnows
<1>10. CASE d[n].type = "delete"
  <2>1. PICK e : e = a.del + m
    OBVIOUS
  <2>2. PICK z : z = [a EXCEPT !.del = e]
    OBVIOUS
  <2>3. ShowRun(a, d[n]) = z
    BY <1>3, <1>10, <2>1, <2>2 DEF ShowRun
  <2>4. z.rows = a.rows /\ z.li = a.li /\ z.ri = a.ri /\ z.del = e
    <3>1. PICK T : T = Seq(RowType)
      OBVIOUS
    <3>2. a \in [rows : T, li : Nat, ri : Nat, del : Nat]
      BY <3>1 DEF ShowType
    <3> QED BY ONLY <2>2, <3>2
  <2>5. SameTo(d, n) = same
    BY <1>4, <1>10, SameGrows
  <2>6. OldLinesTo(d)[n] = OldLinesTo(d)[n - 1] + m /\ NewLinesTo(d)[n] = NewLinesTo(d)[n - 1] + 0
    BY <1>6, <1>7, <1>10
  <2>7. z.li + z.del = OldLinesTo(d)[n] /\ z.ri = NewLinesTo(d)[n]
    BY <1>2, <1>5, <2>1, <2>4, <2>6
  <2>8. RowsShow(z.rows, z.li, z.ri, SameTo(d, n))
    BY <1>5, <2>4, <2>5
  <2> QED BY <2>3, <2>7, <2>8 DEF ShowKnows
<1> QED BY <1>1, <1>8, <1>9, <1>10

LEMMA NoRows == RowsShow(<<>>, 0, 0, {})
<1>1. <<>> \in Seq(RowType) /\ Len(<<>>) = 0 /\ DOMAIN <<>> = {}
  BY EmptySeq
<1>2. Len(LeftsOf(<<>>)) = 0 /\ LeftsOf(<<>>) \in Seq(Int) /\ Len(RightsOf(<<>>)) = 0 /\ RightsOf(<<>>) \in Seq(Int)
  BY <1>1, RowsLen
<1>3. Without(LeftsOf(<<>>), {-1}) = <<>> /\ Without(RightsOf(<<>>), {-1}) = <<>>
  BY <1>2, WithoutAll
<1>4. Count(0) = <<>>
  <2>1. Count(0) \in Seq(Int) /\ Len(Count(0)) = 0
    BY CountIs
  <2> QED BY <2>1, EmptySeq
<1>5. SameOf(<<>>) = {} /\ Valued(<<>>)
  BY <1>1 DEF SameOf, Valued
<1> QED BY <1>3, <1>4, <1>5 DEF RowsShow, Lefts, Rights, LeftsOf, RightsOf

LEMMA RowsAreBothTexts ==
    ASSUME NEW d \in Seq(RunType)
    PROVE  /\ SideBySide(d) \in Seq(RowType)
           /\ RowsShow(SideBySide(d), OldLines(d), NewLines(d), SameLines(d))
<1>1. PICK k : ShownRun(k, d)
  BY ShownRuns
<1>2. Len(d) \in Nat /\ DOMAIN d = 1..Len(d)
  BY RunsLen
<1> DEFINE T == {n \in 0..Len(d) : ShowKnows(d, n, k[n])}
<1>3. 0 \in T
  <2>1. SameTo(d, 0) = {}
    BY DEF SameTo
  <2>2. k[0].rows = <<>> /\ k[0].li = 0 /\ k[0].ri = 0 /\ k[0].del = 0
    BY <1>1 DEF ShownRun, Nothing
  <2>3. OldLinesTo(d)[0] = 0 /\ NewLinesTo(d)[0] = 0
    BY OldRuns, NewRuns
  <2>4. ShowKnows(d, 0, k[0])
    <3>1. RowsShow(k[0].rows, k[0].li, k[0].ri, SameTo(d, 0))
      BY ONLY <2>1, <2>2, NoRows
    <3>2. k[0].li + k[0].del = OldLinesTo(d)[0] /\ k[0].ri = NewLinesTo(d)[0]
      BY ONLY <2>2, <2>3
    <3> QED BY <3>1, <3>2 DEF ShowKnows
  <2> QED BY <1>2, <2>4
<1>4. ASSUME NEW n \in 0..(Len(d) - 1), n \in T PROVE n + 1 \in T
  <2>1. n + 1 \in 1..Len(d) /\ (n + 1) - 1 = n /\ n \in 0..Len(d) /\ n + 1 \in 0..Len(d)
    BY <1>2
  <2>2. k[n + 1] = ShowRun(k[n], d[n + 1]) /\ k[n] \in ShowType
    BY <1>1, <2>1 DEF ShownRun
  <2>3. ShowKnows(d, (n + 1) - 1, k[n])
    BY <1>4, <2>1
  <2>4. ShowKnows(d, n + 1, ShowRun(k[n], d[n + 1]))
    <3> HIDE DEF T
    <3> QED BY <2>1, <2>2, <2>3, ShowStep
  <2> QED BY <2>1, <2>2, <2>4
<1>5. ShowKnows(d, Len(d), k[Len(d)])
  <2> HIDE DEF T
  <2>1. Len(d) \in 0..Len(d)
    BY <1>2
  <2>2. Len(d) \in T
    BY <1>2, <1>3, <1>4, <2>1, UpTo
  <2> QED BY <2>2 DEF T
<1>6. PICK a \in ShowType : a = k[Len(d)]
  <2>1. Len(d) \in 0..Len(d)
    BY <1>2
  <2> QED BY <1>1, <2>1 DEF ShownRun
<1>7. PICK same : same = SameTo(d, Len(d))
  OBVIOUS
<1>8. RowsShow(a.rows, a.li, a.ri, same) /\ a.li + a.del = OldLines(d) /\ a.ri = NewLines(d)
  BY <1>5, <1>6, <1>7 DEF ShowKnows, OldLines, NewLines
<1>9. RowsShow(FlushDel(a).rows, FlushDel(a).li, FlushDel(a).ri, same)
  BY <1>8, FlushShows
<1>10. FlushDel(a) \in ShowType /\ FlushDel(a).li = a.li + a.del /\ FlushDel(a).ri = a.ri
  BY FlushIs
<1>11. SideBySide(d) = FlushDel(a).rows
  BY <1>1, <1>6 DEF ShownRun
<1>12. FlushDel(a).rows \in Seq(RowType)
  BY <1>10 DEF ShowType
<1>13. SameTo(d, Len(d)) = SameLines(d)
  BY <1>2 DEF SameTo, SameLines, Shift
<1> QED BY <1>7, <1>8, <1>9, <1>10, <1>11, <1>12, <1>13

-----------------------------------------------------------------------------
(* The marks.                                                              *)

MarkNames == {"none", "modified", "added"}
MarkType  == [marks : Seq(MarkNames), del : BOOLEAN]
NoMarks   == [marks |-> <<>>, del |-> FALSE]

Grown(z, a, m) == z \in MarkType /\ Len(z.marks) = Len(a.marks) + m

LEMMA MarkedMore ==
    ASSUME NEW a \in MarkType, NEW m \in Nat, NEW x \in MarkNames, NEW b \in BOOLEAN
    PROVE  Grown([marks |-> a.marks \o [k \in 1..m |-> x], del |-> b], a, m)
<1>1. a.marks \in Seq(MarkNames)
  BY DEF MarkType
<1>2. PICK y : y = a.marks \o [k \in 1..m |-> x]
  OBVIOUS
<1>3. y \in Seq(MarkNames) /\ Len(y) = Len(a.marks) + m
  BY <1>1, <1>2, MoreOfOne
<1> QED BY <1>2, <1>3 DEF Grown, MarkType

LEMMA MarkRunIs ==
    ASSUME NEW a \in MarkType, NEW r \in RunType
    PROVE  Grown(MarkRun(a, r), a, IF r.type = "delete" THEN 0 ELSE r.n)
<1>1. r.n \in Nat /\ r.type \in {"equal", "delete", "insert"}
  BY DEF RunType
<1>2. "none" \in MarkNames /\ (IF a.del THEN "modified" ELSE "added") \in MarkNames
  BY DEF MarkNames
<1>3. CASE r.type = "equal"
  <2>1. PICK x \in MarkNames : x = "none"
    BY <1>2
  <2>2. MarkRun(a, r) = [marks |-> a.marks \o [k \in 1..r.n |-> x], del |-> FALSE]
    BY <1>3, <2>1 DEF MarkRun
  <2>3. Grown([marks |-> a.marks \o [k \in 1..r.n |-> x], del |-> FALSE], a, r.n)
    BY <1>1, MarkedMore
  <2>4. (IF r.type = "delete" THEN 0 ELSE r.n) = r.n
    BY <1>3
  <2> QED BY <2>2, <2>3, <2>4
<1>4. CASE r.type = "insert"
  <2>1. PICK x \in MarkNames : x = (IF a.del THEN "modified" ELSE "added")
    BY <1>2
  <2>2. MarkRun(a, r) = [marks |-> a.marks \o [k \in 1..r.n |-> x], del |-> FALSE]
    BY <1>4, <2>1 DEF MarkRun
  <2>3. Grown([marks |-> a.marks \o [k \in 1..r.n |-> x], del |-> FALSE], a, r.n)
    BY <1>1, MarkedMore
  <2>4. (IF r.type = "delete" THEN 0 ELSE r.n) = r.n
    BY <1>4
  <2> QED BY <2>2, <2>3, <2>4
<1>5. CASE r.type = "delete"
  <2>1. MarkRun(a, r) = [a EXCEPT !.del = TRUE]
    BY <1>5 DEF MarkRun
  <2>2. PICK T : T = Seq(MarkNames)
    OBVIOUS
  <2>3. a \in [marks : T, del : BOOLEAN] /\ MarkType = [marks : T, del : BOOLEAN]
    BY <2>2 DEF MarkType
  <2>4. [a EXCEPT !.del = TRUE] \in [marks : T, del : BOOLEAN] /\ [a EXCEPT !.del = TRUE].marks = a.marks
    BY ONLY <2>3
  <2>5. a.marks \in Seq(MarkNames)
    BY DEF MarkType
  <2>6. Len(a.marks) = Len(a.marks) + 0
    BY <2>5, LenProperties
  <2>7. (IF r.type = "delete" THEN 0 ELSE r.n) = 0
    BY <1>5
  <2>8. MarkRun(a, r) \in MarkType /\ Len(MarkRun(a, r).marks) = Len(a.marks)
    BY ONLY <2>1, <2>3, <2>4
  <2> QED BY <2>6, <2>7, <2>8 DEF Grown
<1> QED BY <1>1, <1>3, <1>4, <1>5

LEMMA NoMarksType == NoMarks \in MarkType
<1>1. <<>> \in Seq(MarkNames)
  BY EmptySeq
<1> QED BY <1>1 DEF NoMarks, MarkType

MarkedRun(k, d) ==
    /\ k \in [0..Len(d) -> MarkType] /\ k[0] = NoMarks
    /\ \A n \in 1..Len(d) : k[n] = MarkRun(k[n - 1], d[n])
    /\ Marks(d) = k[Len(d)].marks

LEMMA MarkedRuns ==
    ASSUME NEW d \in Seq(RunType)
    PROVE  \E k : MarkedRun(k, d)
<1> DEFINE Made(g) == g = [n \in 0..Len(d) |-> IF n = 0 THEN NoMarks ELSE MarkRun(g[n - 1], d[n])]
           turn == [n \in 1..Len(d) |-> [a \in MarkType |-> MarkRun(a, d[n])]]
           k == CHOOSE g : Made(g)
<1>1. Len(d) \in Nat
  BY RunsLen
<1>2. ASSUME NEW n \in 1..Len(d), NEW a \in MarkType
      PROVE  MarkRun(a, d[n]) \in MarkType
  BY <1>1, RunsLen, MarkRunIs DEF Grown
<1>3. turn \in [1..Len(d) -> [MarkType -> MarkType]]
  BY <1>2
<1>4. NoMarks \in MarkType
  BY NoMarksType
<1>5. PICK g : Runs(Len(d), MarkType, NoMarks, turn, g)
  <2> HIDE DEF turn
  <2> QED BY <1>1, <1>3, <1>4, LoopRuns
<1>6. Made(g)
  <2>1. ASSUME NEW n \in 0..Len(d)
        PROVE  g[n] = IF n = 0 THEN NoMarks ELSE MarkRun(g[n - 1], d[n])
    <3>1. CASE n = 0
      BY <3>1, <1>5 DEF Runs
    <3>2. CASE n # 0
      <4>1. n \in 1..Len(d) /\ n - 1 \in 0..Len(d)
        BY <3>2, <1>1
      <4>2. g[n] = turn[n][g[n - 1]] /\ g[n - 1] \in MarkType
        <5> HIDE DEF turn
        <5> QED BY <4>1, <1>5 DEF Runs
      <4> QED BY <4>1, <4>2, <3>2
    <3> QED BY <3>1, <3>2
  <2>2. g = [n \in 0..Len(d) |-> g[n]]
    BY <1>5 DEF Runs
  <2> HIDE DEF turn
  <2> QED BY <2>1, <2>2
<1>7. Made(k)
  <2> HIDE DEF Made
  <2> QED BY <1>6
<1>8. Marks(d) = k[Len(d)].marks
  BY DEF Marks, NoMarks
<1> HIDE DEF k
<1>9. k[0] = NoMarks /\ \A n \in 1..Len(d) : k[n] = MarkRun(k[n - 1], d[n])
  <2>1. ASSUME NEW n \in 0..Len(d)
        PROVE  k[n] = IF n = 0 THEN NoMarks ELSE MarkRun(k[n - 1], d[n])
    BY <1>7
  <2> QED BY <2>1, <1>1
<1>10. ASSUME NEW m \in 0..(Len(d) - 1), k[m] \in MarkType PROVE k[m + 1] \in MarkType
  <2>1. m + 1 \in 1..Len(d) /\ (m + 1) - 1 = m
    BY <1>1
  <2>2. k[m + 1] = MarkRun(k[m], d[m + 1])
    BY <2>1, <1>9
  <2> QED BY <2>1, <2>2, <1>2, <1>10
<1>11. \A m \in 0..Len(d) : k[m] \in MarkType
  BY <1>1, <1>4, <1>9, <1>10, StaysIn
<1>12. k = [m \in 0..Len(d) |-> k[m]]
  BY <1>7
<1> HIDE DEF Made
<1> QED BY <1>8, <1>9, <1>11, <1>12 DEF MarkedRun

LEMMA MarksAre ==
    ASSUME NEW d \in Seq(RunType)
    PROVE  Marks(d) \in Seq(MarkNames) /\ Len(Marks(d)) = NewLines(d)
<1>1. PICK k : MarkedRun(k, d)
  BY MarkedRuns
<1>2. Len(d) \in Nat
  BY RunsLen
<1> DEFINE T == {n \in 0..Len(d) : Len(k[n].marks) = NewLinesTo(d)[n]}
<1>3. 0 \in T
  <2>1. k[0].marks = <<>> /\ Len(<<>>) = 0
    BY <1>1 DEF MarkedRun, NoMarks
  <2> QED BY <1>2, <2>1, NewRuns
<1>4. ASSUME NEW n \in 0..(Len(d) - 1), n \in T PROVE n + 1 \in T
  <2>1. n + 1 \in 1..Len(d) /\ (n + 1) - 1 = n /\ n \in 0..Len(d) /\ n + 1 \in 0..Len(d)
    BY <1>2
  <2>2. k[n + 1] = MarkRun(k[n], d[n + 1]) /\ k[n] \in MarkType
    BY <1>1, <2>1 DEF MarkedRun
  <2>3. Grown(MarkRun(k[n], d[n + 1]), k[n], IF d[n + 1].type = "delete" THEN 0 ELSE d[n + 1].n)
    <3> HIDE DEF T
    <3> QED BY <2>1, <2>2, RunsLen, MarkRunIs
  <2>4. NewLinesTo(d)[n + 1] = (NewLinesTo(d)[n] + IF d[n + 1].type = "delete" THEN 0 ELSE d[n + 1].n)
    BY <2>1, NewRuns
  <2> QED BY <1>4, <2>1, <2>2, <2>3, <2>4 DEF Grown
<1>5. Len(d) \in 0..Len(d)
  BY <1>2
<1>6. Len(d) \in T
  <2> HIDE DEF T
  <2> QED BY <1>2, <1>3, <1>4, <1>5, UpTo
<1>7. k[Len(d)].marks \in Seq(MarkNames)
  BY <1>1, <1>5 DEF MarkedRun, MarkType
<1> QED BY <1>1, <1>6, <1>7 DEF MarkedRun, NewLines

-----------------------------------------------------------------------------
(* The hunks.                                                              *)

HunkType == [start : Int, end : Int, type : MarkNames]
CutType  == [hunks : Seq(HunkType), start : Nat, type : MarkNames]
NoCut    == [hunks |-> <<>>, start |-> 0, type |-> "none"]

LEMMA HunksLen ==
    ASSUME NEW hs \in Seq(HunkType)
    PROVE  /\ Len(hs) \in Nat /\ DOMAIN hs = 1..Len(hs)
           /\ \A i \in 1..Len(hs) : /\ hs[i] \in HunkType /\ hs[i].start \in Int /\ hs[i].end \in Int
                                    /\ hs[i].type \in MarkNames
<1>1. Len(hs) \in Nat /\ DOMAIN hs = 1..Len(hs)
  BY LenProperties
<1>2. \A i \in 1..Len(hs) : hs[i] \in HunkType
  BY ElementOfSeq
<1> QED BY <1>1, <1>2 DEF HunkType

Within(marks, hs, n) ==
    \A i \in 1..Len(hs) :
        /\ 0 <= hs[i].start /\ hs[i].start <= hs[i].end /\ hs[i].end < n /\ hs[i].type # "none"
        /\ \A l \in hs[i].start..hs[i].end : marks[l + 1] = hs[i].type
Ordered(hs) == \A i, j \in 1..Len(hs) : i < j => hs[i].end < hs[j].start
Apart(hs)   == \A i \in 2..Len(hs) : hs[i].start = hs[i - 1].end + 1 => hs[i].type # hs[i - 1].type
Holds(hs, l) == \E i \in 1..Len(hs) : hs[i].start <= l /\ l <= hs[i].end

\* One hunk more, behind the others.
Behind(hs, s, t) ==
    \A i \in 1..Len(hs) : hs[i].end < s /\ (hs[i].end + 1 = s => hs[i].type # t)

LEMMA HunkMore ==
    ASSUME NEW marks, NEW n \in Nat, NEW hs \in Seq(HunkType), Within(marks, hs, n), Ordered(hs), Apart(hs),
           NEW s \in Nat, NEW e \in Int, NEW t \in MarkNames, s <= e, e < n, t # "none",
           \A l \in s..e : marks[l + 1] = t, Behind(hs, s, t)
    PROVE  LET more == Append(hs, Hunk(s, e, t))
           IN /\ more \in Seq(HunkType) /\ Within(marks, more, n) /\ Ordered(more) /\ Apart(more)
              /\ \A l \in Int : Holds(hs, l) \/ (s <= l /\ l <= e) => Holds(more, l)
              /\ Len(more) = Len(hs) + 1
              /\ \A i \in 1..Len(hs) : more[i] = hs[i]
              /\ more[Len(hs) + 1].end = e /\ more[Len(hs) + 1].type = t
<1> DEFINE h == Hunk(s, e, t)
           more == Append(hs, h)
<1>1. Len(hs) \in Nat /\ \A i \in 1..Len(hs) : hs[i].start \in Int /\ hs[i].end \in Int
  BY HunksLen
<1>2. h \in HunkType /\ h.start = s /\ h.end = e /\ h.type = t
  BY DEF Hunk, HunkType
<1> HIDE DEF h
<1>3. /\ more \in Seq(HunkType) /\ Len(more) = Len(hs) + 1 /\ more[Len(hs) + 1] = h
      /\ \A i \in 1..Len(hs) : more[i] = hs[i]
  BY <1>2
<1> HIDE DEF more
<1>4. PICK c \in Nat : c = Len(hs)
  BY <1>1
<1>5. Len(more) = c + 1 /\ more[c + 1] = h /\ \A i \in 1..c : more[i] = hs[i]
  BY <1>3, <1>4
<1>6. \A i \in 1..(c + 1) : i \in 1..c \/ i = c + 1
  OBVIOUS
<1>7. Within(marks, more, n)
  <2>1. ASSUME NEW i \in 1..(c + 1)
        PROVE  /\ 0 <= more[i].start /\ more[i].start <= more[i].end /\ more[i].end < n /\ more[i].type # "none"
               /\ \A l \in more[i].start..more[i].end : marks[l + 1] = more[i].type
    <3>1. CASE i \in 1..c
      BY <3>1, <1>4, <1>5 DEF Within
    <3>2. CASE i = c + 1
      BY <3>2, <1>2, <1>5
    <3> QED BY <3>1, <3>2, <1>6
  <2> QED BY <2>1, <1>5 DEF Within
<1>8. Ordered(more)
  <2>1. ASSUME NEW i \in 1..(c + 1), NEW j \in 1..(c + 1), i < j PROVE more[i].end < more[j].start
    <3>1. CASE j \in 1..c
      BY <2>1, <3>1, <1>4, <1>5 DEF Ordered
    <3>2. CASE j = c + 1
      BY <2>1, <3>2, <1>2, <1>4, <1>5 DEF Behind
    <3> QED BY <3>1, <3>2, <1>6
  <2> QED BY <2>1, <1>5 DEF Ordered
<1>9. Apart(more)
  <2>1. ASSUME NEW i \in 2..(c + 1), more[i].start = more[i - 1].end + 1
        PROVE  more[i].type # more[i - 1].type
    <3>1. CASE i \in 2..c
      <4>1. i - 1 \in 1..c /\ i \in 1..c
        BY <3>1
      <4> QED BY <2>1, <3>1, <4>1, <1>4, <1>5 DEF Apart
    <3>2. CASE i = c + 1
      <4>1. i - 1 \in 1..c /\ i - 1 = c
        BY <3>2
      <4>2. more[i - 1] = hs[c] /\ more[i] = h
        BY <3>2, <4>1, <1>5
      <4>3. hs[c].end + 1 = s
        BY <2>1, <4>2, <1>2
      <4>4. hs[c].type # t
        BY <4>1, <4>3, <1>4 DEF Behind
      <4> QED BY <4>2, <4>4, <1>2
    <3>3. i \in 2..c \/ i = c + 1
      OBVIOUS
    <3> QED BY <3>1, <3>2, <3>3
  <2> QED BY <2>1, <1>5 DEF Apart
<1>10. ASSUME NEW l \in Int, Holds(hs, l) \/ (s <= l /\ l <= e) PROVE Holds(more, l)
  <2>1. CASE Holds(hs, l)
    <3>1. PICK i \in 1..c : hs[i].start <= l /\ l <= hs[i].end
      BY <2>1, <1>4 DEF Holds
    <3>2. i \in 1..(c + 1)
      OBVIOUS
    <3> QED BY <3>1, <3>2, <1>5 DEF Holds
  <2>2. CASE s <= l /\ l <= e
    <3>1. c + 1 \in 1..(c + 1)
      OBVIOUS
    <3> QED BY <2>2, <3>1, <1>2, <1>5 DEF Holds
  <2> QED BY <1>10, <2>1, <2>2
<1> QED BY <1>2, <1>3, <1>7, <1>8, <1>9, <1>10 DEF more, h

\* What the loop knows after n lines.
CutKnows(marks, n, a) ==
    /\ Within(marks, a.hunks, n) /\ Ordered(a.hunks) /\ Apart(a.hunks)
    /\ a.type = "none" => \A i \in 1..Len(a.hunks) : a.hunks[i].end < n - 1
    /\ a.type # "none" => /\ a.start < n /\ Behind(a.hunks, a.start, a.type)
                          /\ \A l \in a.start..(n - 1) : marks[l + 1] = a.type
    /\ \A l \in 0..(n - 1) :
           marks[l + 1] # "none" => Holds(a.hunks, l) \/ (a.type # "none" /\ a.start <= l)

\* And once no hunk is open.
AllClosed(marks, n, hs) ==
    /\ hs \in Seq(HunkType) /\ Within(marks, hs, n) /\ Ordered(hs) /\ Apart(hs)
    /\ \A l \in 0..(n - 1) : marks[l + 1] # "none" => Holds(hs, l)

LEMMA CloseIs ==
    ASSUME NEW marks, NEW n \in Nat, NEW a \in CutType, CutKnows(marks, n, a)
    PROVE  LET z == CloseHunk(a, n)
           IN /\ z \in CutType /\ AllClosed(marks, n, z.hunks)
              /\ \A i \in 1..Len(z.hunks) : z.hunks[i].end = n - 1 => z.hunks[i].type = a.type
<1> DEFINE z == CloseHunk(a, n)
<1>1. a.hunks \in Seq(HunkType) /\ a.start \in Nat /\ a.type \in MarkNames
  BY DEF CutType
<1>2. PICK hs \in Seq(HunkType) : hs = a.hunks
  BY <1>1
<1>3. Within(marks, hs, n) /\ Ordered(hs) /\ Apart(hs)
  BY <1>2 DEF CutKnows
<1>4. Len(hs) \in Nat /\ \A i \in 1..Len(hs) : hs[i].end \in Int
  BY HunksLen
<1>5. CASE a.type = "none"
  <2>1. z = a
    BY <1>5 DEF CloseHunk
  <2> HIDE DEF z
  <2>2. \A i \in 1..Len(hs) : hs[i].end < n - 1
    BY <1>2, <1>5 DEF CutKnows
  <2>3. \A l \in 0..(n - 1) : marks[l + 1] # "none" => Holds(hs, l)
    BY <1>2, <1>5 DEF CutKnows
  <2>4. \A i \in 1..Len(hs) : hs[i].end # n - 1
    BY <2>2, <1>4
  <2> QED BY <1>2, <1>3, <2>1, <2>3, <2>4 DEF AllClosed, z
<1>6. CASE a.type # "none"
  <2>1. a.start < n /\ Behind(hs, a.start, a.type) /\ \A l \in a.start..(n - 1) : marks[l + 1] = a.type
    BY <1>2, <1>6 DEF CutKnows
  <2>2. PICK s \in Nat : s = a.start
    BY <1>1
  <2>3. PICK t \in MarkNames : t = a.type
    BY <1>1
  <2>4. PICK e \in Int : e = n - 1
    OBVIOUS
  <2>5. s <= e /\ e < n /\ t # "none" /\ (\A l \in s..e : marks[l + 1] = t) /\ Behind(hs, s, t)
    BY <1>6, <2>1, <2>2, <2>3, <2>4
  <2>6. PICK more : more = Append(hs, Hunk(s, e, t))
    OBVIOUS
  <2>7. /\ more \in Seq(HunkType) /\ Within(marks, more, n) /\ Ordered(more) /\ Apart(more)
        /\ \A l \in Int : Holds(hs, l) \/ (s <= l /\ l <= e) => Holds(more, l)
        /\ Len(more) = Len(hs) + 1
        /\ \A i \in 1..Len(hs) : more[i] = hs[i]
        /\ more[Len(hs) + 1].end = e /\ more[Len(hs) + 1].type = t
    BY <1>3, <2>5, <2>6, HunkMore
  <2>8. z = [a EXCEPT !.hunks = more, !.type = "none"]
    BY <1>2, <1>6, <2>2, <2>3, <2>4, <2>6 DEF CloseHunk
  <2> HIDE DEF z
  <2>9. z \in CutType /\ z.hunks = more
    <3>1. PICK T : T = Seq(HunkType)
      OBVIOUS
    <3>2. a \in [hunks : T, start : Nat, type : MarkNames] /\ more \in T
          /\ CutType = [hunks : T, start : Nat, type : MarkNames]
      BY <2>7, <3>1 DEF CutType
    <3>3. PICK none \in MarkNames : none = "none"
      BY DEF MarkNames
    <3>4. z = [a EXCEPT !.hunks = more, !.type = none]
      BY <2>8, <3>3
    <3>5. none \in MarkNames
      BY <3>3
    <3> QED BY ONLY <3>2, <3>4, <3>5
  <2>10. \A l \in 0..(n - 1) : marks[l + 1] # "none" => Holds(more, l)
    <3>1. ASSUME NEW l \in 0..(n - 1), marks[l + 1] # "none" PROVE Holds(more, l)
      <4>1. Holds(hs, l) \/ s <= l
        BY <3>1, <1>2, <2>2 DEF CutKnows
      <4>2. l \in Int /\ l <= e
        BY <2>4
      <4> QED BY <4>1, <4>2, <2>7
    <3> QED BY <3>1
  <2>11. ASSUME NEW i \in 1..Len(more), more[i].end = n - 1 PROVE more[i].type = t
    <3>1. CASE i \in 1..Len(hs)
      <4>1. hs[i].end < s /\ hs[i].end \in Int /\ more[i] = hs[i]
        BY <3>1, <1>4, <2>5, <2>7 DEF Behind
      <4> QED BY <4>1, <2>4, <2>5, <2>11
    <3>2. CASE i = Len(hs) + 1
      BY <3>2, <2>7
    <3>3. i \in 1..Len(hs) \/ i = Len(hs) + 1
      BY <2>7, <1>4
    <3> QED BY <3>1, <3>2, <3>3
  <2>12. AllClosed(marks, n, more)
    BY <2>7, <2>10 DEF AllClosed
  <2> QED BY <2>3, <2>9, <2>11, <2>12 DEF z
<1> QED BY <1>5, <1>6

LEMMA HunkLineType ==
    ASSUME NEW a \in CutType, NEW i \in Nat, NEW t \in MarkNames
    PROVE  HunkLine(a, i, t) \in CutType
<1>1. PICK T : T = Seq(HunkType)
  OBVIOUS
<1>2. a \in [hunks : T, start : Nat, type : MarkNames] /\ CutType = [hunks : T, start : Nat, type : MarkNames]
  BY <1>1 DEF CutType
<1>3. a.hunks \in Seq(HunkType) /\ a.start \in Nat /\ a.type \in MarkNames
  BY DEF CutType
<1>4. PICK none \in MarkNames : none = "none"
  BY DEF MarkNames
<1>5. PICK more : more = Append(a.hunks, Hunk(a.start, i - 1, a.type))
  OBVIOUS
<1>6. more \in T
  <2>1. Hunk(a.start, i - 1, a.type) \in HunkType
    BY <1>3 DEF Hunk, HunkType
  <2> QED BY <1>1, <1>3, <1>5, <2>1
<1>7. PICK z : z = CloseHunk(a, i)
  OBVIOUS
<1>8. z = a \/ z = [a EXCEPT !.hunks = more, !.type = none]
  BY <1>4, <1>5, <1>7 DEF CloseHunk
<1>9. none \in MarkNames /\ i \in Nat /\ t \in MarkNames
  BY <1>4
<1>10. z \in [hunks : T, start : Nat, type : MarkNames]
  BY ONLY <1>2, <1>6, <1>8, <1>9
<1>11. HunkLine(a, i, t) = a \/ HunkLine(a, i, t) = [z EXCEPT !.type = t, !.start = i]
  BY <1>7 DEF HunkLine
<1> QED BY ONLY <1>2, <1>9, <1>10, <1>11

LEMMA CutStep ==
    ASSUME NEW marks, NEW n \in Nat, NEW a \in CutType, CutKnows(marks, n, a), marks[n + 1] \in MarkNames
    PROVE  CutKnows(marks, n + 1, HunkLine(a, n, marks[n + 1]))
<1>1. PICK t \in MarkNames : t = marks[n + 1]
  OBVIOUS
<1>2. \A l \in 0..n : l \in 0..(n - 1) \/ l = n
  OBVIOUS
<1>3. (n + 1) - 1 = n
  OBVIOUS
<1>4. CASE t = a.type
  <2>1. HunkLine(a, n, t) = a
    BY <1>4 DEF HunkLine
  <2>2. PICK hs \in Seq(HunkType) : hs = a.hunks
    BY DEF CutType
  <2>3. Len(hs) \in Nat /\ \A i \in 1..Len(hs) : hs[i].end \in Int
    BY HunksLen
  <2>4. Within(marks, hs, n) /\ Ordered(hs) /\ Apart(hs)
    BY <2>2 DEF CutKnows
  <2>5. Within(marks, hs, n + 1)
    BY <2>3, <2>4 DEF Within
  <2>6. \A i \in 1..Len(hs) : hs[i].end < n
    BY <2>4 DEF Within
  <2>7. a.start \in Nat
    BY DEF CutType
  <2>8. a.type # "none" => /\ a.start < n + 1 /\ Behind(hs, a.start, a.type)
                           /\ \A l \in a.start..n : marks[l + 1] = a.type
    <3> SUFFICES ASSUME a.type # "none"
                 PROVE  /\ a.start < n + 1 /\ Behind(hs, a.start, a.type)
                        /\ \A l \in a.start..n : marks[l + 1] = a.type
      OBVIOUS
    <3>1. a.start < n /\ Behind(hs, a.start, a.type) /\ \A l \in a.start..(n - 1) : marks[l + 1] = a.type
      BY <2>2 DEF CutKnows
    <3>2. \A l \in a.start..n : l \in a.start..(n - 1) \/ l = n
      BY <2>7
    <3>3. marks[n + 1] = a.type
      BY <1>1, <1>4
    <3>4. \A l \in a.start..n : marks[l + 1] = a.type
      BY <3>1, <3>2, <3>3
    <3>5. a.start < n + 1
      BY <2>7, <3>1
    <3> QED BY <3>1, <3>4, <3>5
  <2>9. ASSUME NEW l \in 0..n, marks[l + 1] # "none"
        PROVE  Holds(hs, l) \/ (a.type # "none" /\ a.start <= l)
    <3>1. CASE l \in 0..(n - 1)
      BY <2>2, <2>9, <3>1 DEF CutKnows
    <3>2. CASE l = n
      <4>1. a.type # "none"
        BY <1>1, <1>4, <2>9, <3>2
      <4>2. a.start < n
        BY <4>1 DEF CutKnows
      <4> QED BY <2>7, <3>2, <4>1, <4>2
    <3> QED BY <1>2, <3>1, <3>2
  <2>10. CutKnows(marks, n + 1, a)
    BY <1>3, <2>2, <2>4, <2>5, <2>6, <2>8, <2>9 DEF CutKnows
  <2> QED BY <1>1, <2>1, <2>10
<1>5. CASE t # a.type
  <2>1. PICK z \in CutType : z = CloseHunk(a, n)
    BY CloseIs
  <2>2. /\ AllClosed(marks, n, z.hunks)
        /\ \A i \in 1..Len(z.hunks) : z.hunks[i].end = n - 1 => z.hunks[i].type = a.type
    BY <2>1, CloseIs
  <2>3. PICK y : y = [z EXCEPT !.type = t, !.start = n]
    OBVIOUS
  <2>4. HunkLine(a, n, t) = y
    BY <1>5, <2>1, <2>3 DEF HunkLine
  <2>5. y.hunks = z.hunks /\ y.type = t /\ y.start = n
    <3>1. PICK T : T = Seq(HunkType)
      OBVIOUS
    <3>2. z \in [hunks : T, start : Nat, type : MarkNames]
      BY <2>1, <3>1 DEF CutType
    <3> QED BY ONLY <2>3, <3>2
  <2>6. PICK hs : hs = z.hunks
    OBVIOUS
  <2>7. hs \in Seq(HunkType) /\ Within(marks, hs, n) /\ Ordered(hs) /\ Apart(hs)
        /\ \A l \in 0..(n - 1) : marks[l + 1] # "none" => Holds(hs, l)
    BY <2>2, <2>6 DEF AllClosed
  <2>8. Len(hs) \in Nat /\ \A i \in 1..Len(hs) : hs[i].end \in Int
    BY <2>7, HunksLen
  <2>9. Within(marks, hs, n + 1) /\ \A i \in 1..Len(hs) : hs[i].end < n
    BY <2>7, <2>8 DEF Within
  <2>10. Behind(hs, n, t)
    <3>1. ASSUME NEW i \in 1..Len(hs), hs[i].end + 1 = n PROVE hs[i].type # t
      <4>1. hs[i].end = n - 1
        BY <2>8, <3>1
      <4> QED BY <1>5, <2>2, <2>6, <4>1
    <3> QED BY <2>9, <3>1 DEF Behind
  <2>11. \A l \in n..n : marks[l + 1] = t
    BY <1>1
  <2>12. \A l \in 0..n : marks[l + 1] # "none" => Holds(hs, l) \/ (t # "none" /\ n <= l)
    BY <1>1, <1>2, <2>7
  <2>13. n < n + 1
    OBVIOUS
  <2>14. CutKnows(marks, n + 1, y)
    BY <1>3, <2>5, <2>6, <2>7, <2>9, <2>10, <2>11, <2>12, <2>13 DEF CutKnows
  <2> QED BY <1>1, <2>4, <2>14
<1> QED BY <1>4, <1>5

LEMMA NoCutType == NoCut \in CutType
<1>1. <<>> \in Seq(HunkType)
  BY EmptySeq
<1> QED BY <1>1 DEF NoCut, CutType, MarkNames

CutRun(k, d) ==
    /\ k \in [0..Len(Marks(d)) -> CutType] /\ k[0] = NoCut
    /\ \A n \in 1..Len(Marks(d)) : k[n] = HunkLine(k[n - 1], n - 1, Marks(d)[n])
    /\ Hunks(d) = CloseHunk(k[Len(Marks(d))], Len(Marks(d))).hunks

LEMMA MarksLen ==
    ASSUME NEW d \in Seq(RunType)
    PROVE  /\ Len(Marks(d)) \in Nat /\ DOMAIN Marks(d) = 1..Len(Marks(d))
           /\ \A n \in 1..Len(Marks(d)) : Marks(d)[n] \in MarkNames /\ n - 1 \in Nat
<1>1. PICK m \in Seq(MarkNames) : m = Marks(d)
  BY MarksAre
<1>2. Len(m) \in Nat /\ DOMAIN m = 1..Len(m)
  BY LenProperties
<1>3. \A n \in 1..Len(m) : m[n] \in MarkNames
  BY ElementOfSeq
<1> QED BY <1>1, <1>2, <1>3

LEMMA CutRuns ==
    ASSUME NEW d \in Seq(RunType)
    PROVE  \E k : CutRun(k, d)
<1> DEFINE Made(g) == g = [n \in 0..Len(Marks(d)) |-> IF n = 0 THEN NoCut ELSE HunkLine(g[n - 1], (n) - 1, Marks(d)[n])]
           turn == [n \in 1..Len(Marks(d)) |-> [a \in CutType |-> HunkLine(a, (n) - 1, Marks(d)[n])]]
           k == CHOOSE g : Made(g)
<1>1. Len(Marks(d)) \in Nat
  BY MarksLen
<1>2. ASSUME NEW n \in 1..Len(Marks(d)), NEW a \in CutType
      PROVE  HunkLine(a, (n) - 1, Marks(d)[n]) \in CutType
  BY <1>1, MarksLen, HunkLineType
<1>3. turn \in [1..Len(Marks(d)) -> [CutType -> CutType]]
  BY <1>2
<1>4. NoCut \in CutType
  BY NoCutType
<1>5. PICK g : Runs(Len(Marks(d)), CutType, NoCut, turn, g)
  <2> HIDE DEF turn
  <2> QED BY <1>1, <1>3, <1>4, LoopRuns
<1>6. Made(g)
  <2>1. ASSUME NEW n \in 0..Len(Marks(d))
        PROVE  g[n] = IF n = 0 THEN NoCut ELSE HunkLine(g[n - 1], (n) - 1, Marks(d)[n])
    <3>1. CASE n = 0
      BY <3>1, <1>5 DEF Runs
    <3>2. CASE n # 0
      <4>1. n \in 1..Len(Marks(d)) /\ n - 1 \in 0..Len(Marks(d))
        BY <3>2, <1>1
      <4>2. g[n] = turn[n][g[n - 1]] /\ g[n - 1] \in CutType
        <5> HIDE DEF turn
        <5> QED BY <4>1, <1>5 DEF Runs
      <4> QED BY <4>1, <4>2, <3>2
    <3> QED BY <3>1, <3>2
  <2>2. g = [n \in 0..Len(Marks(d)) |-> g[n]]
    BY <1>5 DEF Runs
  <2> HIDE DEF turn
  <2> QED BY <2>1, <2>2
<1>7. Made(k)
  <2> HIDE DEF Made
  <2> QED BY <1>6
<1>8. Hunks(d) = CloseHunk(k[Len(Marks(d))], Len(Marks(d))).hunks
  BY DEF Hunks, NoCut
<1> HIDE DEF k
<1>9. k[0] = NoCut /\ \A n \in 1..Len(Marks(d)) : k[n] = HunkLine(k[n - 1], (n) - 1, Marks(d)[n])
  <2>1. ASSUME NEW n \in 0..Len(Marks(d))
        PROVE  k[n] = IF n = 0 THEN NoCut ELSE HunkLine(k[n - 1], (n) - 1, Marks(d)[n])
    BY <1>7
  <2> QED BY <2>1, <1>1
<1>10. ASSUME NEW m \in 0..(Len(Marks(d)) - 1), k[m] \in CutType PROVE k[m + 1] \in CutType
  <2>1. m + 1 \in 1..Len(Marks(d)) /\ (m + 1) - 1 = m
    BY <1>1
  <2>2. k[m + 1] = HunkLine(k[m], (m + 1) - 1, Marks(d)[m + 1])
    BY <2>1, <1>9
  <2> QED BY <2>1, <2>2, <1>2, <1>10
<1>11. \A m \in 0..Len(Marks(d)) : k[m] \in CutType
  BY <1>1, <1>4, <1>9, <1>10, StaysIn
<1>12. k = [m \in 0..Len(Marks(d)) |-> k[m]]
  BY <1>7
<1> HIDE DEF Made
<1> QED BY <1>8, <1>9, <1>11, <1>12 DEF CutRun

LEMMA HunksAre ==
    ASSUME NEW d \in Seq(RunType)
    PROVE  AllClosed(Marks(d), Len(Marks(d)), Hunks(d))
<1>1. PICK k : CutRun(k, d)
  BY CutRuns
<1>2. PICK marks : marks = Marks(d)
  OBVIOUS
<1>3. Len(marks) \in Nat /\ \A n \in 1..Len(marks) : marks[n] \in MarkNames
  BY <1>2, MarksLen
<1>4. /\ k \in [0..Len(marks) -> CutType] /\ k[0] = NoCut
      /\ \A n \in 1..Len(marks) : k[n] = HunkLine(k[n - 1], n - 1, marks[n])
      /\ Hunks(d) = CloseHunk(k[Len(marks)], Len(marks)).hunks
  BY <1>1, <1>2 DEF CutRun
<1> DEFINE T == {n \in 0..Len(marks) : CutKnows(marks, n, k[n])}
<1>5. 0 \in T
  <2>1. k[0].hunks = <<>> /\ k[0].type = "none" /\ Len(<<>>) = 0
    BY <1>4 DEF NoCut
  <2>2. Within(marks, <<>>, 0) /\ Ordered(<<>>) /\ Apart(<<>>)
    <3>1. Len(<<>>) = 0
      OBVIOUS
    <3> QED BY <3>1 DEF Within, Ordered, Apart
  <2>3. CutKnows(marks, 0, k[0])
    BY <2>1, <2>2 DEF CutKnows
  <2> QED BY <1>3, <2>3
<1>6. ASSUME NEW n \in 0..(Len(marks) - 1), n \in T PROVE n + 1 \in T
  <2>1. n + 1 \in 1..Len(marks) /\ (n + 1) - 1 = n /\ n \in 0..Len(marks) /\ n + 1 \in 0..Len(marks) /\ n \in Nat
    BY <1>3
  <2>2. k[n + 1] = HunkLine(k[n], n, marks[n + 1]) /\ k[n] \in CutType /\ marks[n + 1] \in MarkNames
    BY <1>3, <1>4, <2>1
  <2>3. CutKnows(marks, n, k[n])
    BY <1>6
  <2>4. CutKnows(marks, n + 1, HunkLine(k[n], n, marks[n + 1]))
    <3> HIDE DEF T
    <3> QED BY <2>1, <2>2, <2>3, CutStep
  <2> QED BY <2>1, <2>2, <2>4
<1>7. Len(marks) \in 0..Len(marks)
  BY <1>3
<1>8. CutKnows(marks, Len(marks), k[Len(marks)])
  <2> HIDE DEF T
  <2>1. Len(marks) \in T
    BY <1>3, <1>5, <1>6, <1>7, UpTo
  <2> QED BY <2>1 DEF T
<1>9. PICK a \in CutType : a = k[Len(marks)]
  BY <1>4, <1>7
<1>10. PICK n \in Nat : n = Len(marks)
  BY <1>3
<1>11. CutKnows(marks, n, a)
  BY <1>8, <1>9, <1>10
<1>12. AllClosed(marks, n, CloseHunk(a, n).hunks)
  BY <1>11, CloseIs
<1>13. Hunks(d) = CloseHunk(a, n).hunks /\ n = Len(Marks(d)) /\ marks = Marks(d)
  BY <1>2, <1>4, <1>9, <1>10
<1> QED BY <1>12, <1>13

-----------------------------------------------------------------------------
(* The jumps.                                                              *)

\* The hunks as the jumps need them.
Walkable(hs, n) ==
    /\ hs \in Seq(HunkType)
    /\ \A i \in 1..Len(hs) : hs[i].start \in 0..(n - 1)
    /\ \A i, j \in 1..Len(hs) : i < j => hs[i].start < hs[j].start

LEMMA HunksWalkable ==
    ASSUME NEW marks, NEW n \in Nat, NEW hs, AllClosed(marks, n, hs)
    PROVE  Walkable(hs, n)
<1>1. hs \in Seq(HunkType) /\ Within(marks, hs, n) /\ Ordered(hs)
  BY DEF AllClosed
<1>2. \A i \in 1..Len(hs) : hs[i].start \in Int /\ hs[i].end \in Int
  BY <1>1, HunksLen
<1>3. \A i \in 1..Len(hs) : 0 <= hs[i].start /\ hs[i].start <= hs[i].end /\ hs[i].end < n
  BY <1>1 DEF Within
<1>4. \A i, j \in 1..Len(hs) : i < j => hs[i].end < hs[j].start
  BY <1>1 DEF Ordered
<1>5. \A i \in 1..Len(hs) : hs[i].start \in 0..(n - 1)
  BY <1>2, <1>3
<1>6. \A i, j \in 1..Len(hs) : i < j => hs[i].start < hs[j].start
  BY <1>2, <1>3, <1>4
<1> QED BY <1>1, <1>5, <1>6 DEF Walkable

Starts(hs) == {hs[i].start : i \in DOMAIN hs}
Beyond(hs, from, dir) == {s \in Starts(hs) : IF dir = 1 THEN s > from ELSE s < from}
Nearest(hs, from, dir, line) ==
    /\ line \in Starts(hs)
    /\ Beyond(hs, from, dir) # {} =>
           /\ line \in Beyond(hs, from, dir)
           /\ \A s \in Beyond(hs, from, dir) : IF dir = 1 THEN line <= s ELSE line >= s

LEMMA NextIs ==
    ASSUME NEW n \in Nat, NEW hs, Walkable(hs, n), hs # <<>>, NEW from \in Nat
    PROVE  NextHunk(hs, from).start \in 0..(n - 1) /\ Nearest(hs, from, 1, NextHunk(hs, from).start)
<1>1. Len(hs) \in Nat /\ DOMAIN hs = 1..Len(hs) /\ Len(hs) > 0
  BY EmptySeq, LenProperties DEF Walkable
<1>2. PICK ahead : ahead = {i \in DOMAIN hs : hs[i].start > from}
  OBVIOUS
<1>3. \A i \in 1..Len(hs) : hs[i].start \in 0..(n - 1)
  BY DEF Walkable
<1>4. \A i, j \in 1..Len(hs) : i < j => hs[i].start < hs[j].start
  BY DEF Walkable
<1>5. CASE ahead # {}
  <2>1. ahead \subseteq Nat
    BY <1>1, <1>2
  <2>2. PICK m : m = Min(ahead)
    OBVIOUS
  <2>3. m \in ahead /\ \A i \in ahead : m <= i
    BY <1>5, <2>1, <2>2, LeastIsMin
  <2>4. m \in 1..Len(hs) /\ hs[m].start > from
    BY <1>1, <1>2, <2>3
  <2>5. NextHunk(hs, from) = hs[m]
    BY <1>2, <1>5, <2>2 DEF NextHunk
  <2>6. ASSUME NEW s \in Beyond(hs, from, 1) PROVE hs[m].start <= s
    <3>1. PICK j \in 1..Len(hs) : s = hs[j].start /\ hs[j].start > from
      BY <2>6, <1>1 DEF Beyond, Starts
    <3>2. m <= j
      BY <1>1, <1>2, <2>3, <3>1
    <3>3. m = j \/ m < j
      BY <2>4, <3>2
    <3> QED BY <1>3, <1>4, <2>4, <3>1, <3>3
  <2>7. hs[m].start \in Starts(hs) /\ hs[m].start \in Beyond(hs, from, 1)
    BY <1>1, <2>4 DEF Starts, Beyond
  <2> QED BY <1>3, <2>4, <2>5, <2>6, <2>7 DEF Nearest
<1>6. CASE ahead = {}
  <2>1. NextHunk(hs, from) = hs[1] /\ 1 \in 1..Len(hs)
    BY <1>1, <1>2, <1>6 DEF NextHunk
  <2>2. Beyond(hs, from, 1) = {}
    BY <1>2, <1>6 DEF Beyond, Starts
  <2>3. hs[1].start \in Starts(hs)
    BY <1>1, <2>1 DEF Starts
  <2> QED BY <1>3, <2>1, <2>2, <2>3 DEF Nearest
<1> QED BY <1>5, <1>6

LEMMA PrevIs ==
    ASSUME NEW n \in Nat, NEW hs, Walkable(hs, n), hs # <<>>, NEW from \in Nat
    PROVE  PrevHunk(hs, from).start \in 0..(n - 1) /\ Nearest(hs, from, -1, PrevHunk(hs, from).start)
<1>1. Len(hs) \in Nat /\ DOMAIN hs = 1..Len(hs) /\ Len(hs) > 0
  BY EmptySeq, LenProperties DEF Walkable
<1>2. PICK behind : behind = {i \in DOMAIN hs : hs[i].start < from}
  OBVIOUS
<1>3. \A i \in 1..Len(hs) : hs[i].start \in 0..(n - 1)
  BY DEF Walkable
<1>4. \A i, j \in 1..Len(hs) : i < j => hs[i].start < hs[j].start
  BY DEF Walkable
<1>5. CASE behind # {}
  <2>1. behind \subseteq 0..Len(hs)
    BY <1>1, <1>2
  <2>2. PICK m : m = Max(behind)
    OBVIOUS
  <2>3. m \in behind /\ \A i \in behind : i <= m
    BY <1>1, <1>5, <2>1, <2>2, Greatest
  <2>4. m \in 1..Len(hs) /\ hs[m].start < from
    BY <1>1, <1>2, <2>3
  <2>5. PrevHunk(hs, from) = hs[m]
    BY <1>2, <1>5, <2>2 DEF PrevHunk
  <2>6. ASSUME NEW s \in Beyond(hs, from, -1) PROVE hs[m].start >= s
    <3>1. PICK j \in 1..Len(hs) : s = hs[j].start /\ hs[j].start < from
      BY <2>6, <1>1 DEF Beyond, Starts
    <3>2. j <= m
      BY <1>1, <1>2, <2>3, <3>1
    <3>3. m = j \/ j < m
      BY <2>4, <3>2
    <3> QED BY <1>3, <1>4, <2>4, <3>1, <3>3
  <2>7. hs[m].start \in Starts(hs) /\ hs[m].start \in Beyond(hs, from, -1)
    BY <1>1, <2>4 DEF Starts, Beyond
  <2> QED BY <1>3, <2>4, <2>5, <2>6, <2>7 DEF Nearest
<1>6. CASE behind = {}
  <2>1. PrevHunk(hs, from) = hs[Len(hs)] /\ Len(hs) \in 1..Len(hs)
    BY <1>1, <1>2, <1>6 DEF PrevHunk
  <2>2. Beyond(hs, from, -1) = {}
    BY <1>2, <1>6 DEF Beyond, Starts
  <2>3. hs[Len(hs)].start \in Starts(hs)
    BY <1>1, <2>1 DEF Starts
  <2> QED BY <1>3, <2>1, <2>2, <2>3 DEF Nearest
<1> QED BY <1>5, <1>6
-----------------------------------------------------------------------------
(* The inductive invariant and what follows from it.                       *)

JumpFound == gdFrom[2] # 0 => Nearest(Hunks(gdDiff), gdFrom[1], gdFrom[2], gdLine)

GdInv ==
    /\ gdDiff \in Seq(RunType) /\ CleanedUp(gdDiff) /\ gdLine \in 0..NewLines(gdDiff)
    /\ gdScroll \in Int /\ JumpFound /\ ViewIsFilled

LEMMA DiffsAreRuns ==
    ASSUME NEW d \in Diffs
    PROVE  d \in Seq(RunType) /\ CleanedUp(d)
<1>1. PICK k \in 0..MaxGdRuns : d \in [1..k -> DiffRuns]
  BY DEF Diffs
<1>2. k \in Nat
  BY <1>1
<1>3. MaxGdRun \in Nat
  BY GdAssumption
<1>4. ASSUME NEW i \in 1..k PROVE d[i] \in RunType
  <2>1. 1..MaxGdRun \subseteq Nat
    BY <1>3
  <2>2. d[i] \in DiffRuns
    BY <1>1
  <2> QED BY <2>1, <2>2 DEF DiffRuns, RunType
<1>5. d \in [1..k -> RunType]
  BY <1>1, <1>4
<1>6. d \in Seq(RunType)
  BY <1>2, <1>5
<1> QED BY <1>6 DEF Diffs

LEMMA NewLinesType ==
    ASSUME NEW d \in Seq(RunType)
    PROVE  NewLines(d) \in Nat /\ OldLines(d) \in Nat
<1>1. Len(d) \in 0..Len(d)
  BY RunsLen
<1> QED BY <1>1, OldRuns, NewRuns DEF NewLines, OldLines

LEMMA DiffWalkable ==
    ASSUME NEW d \in Seq(RunType)
    PROVE  Walkable(Hunks(d), NewLines(d))
<1>1. PICK n \in Nat : n = NewLines(d)
  BY NewLinesType
<1>2. n = Len(Marks(d))
  BY <1>1, MarksAre
<1>3. AllClosed(Marks(d), n, Hunks(d))
  BY <1>2, HunksAre
<1>4. Walkable(Hunks(d), n)
  BY <1>3, HunksWalkable
<1> QED BY <1>1, <1>4

LEMMA ClampIs ==
    ASSUME gdDiff \in Seq(RunType), NEW y \in Int
    PROVE  LET z == ClampDiffScroll(y)
           IN z \in Int /\ (z = 0 \/ (z > 0 /\ z + GdHeight <= Len(SideBySide(gdDiff))))
<1>1. PICK rows \in Nat : rows = Len(SideBySide(gdDiff))
  BY RowsAreBothTexts, LenProperties
<1>2. GdHeight \in Nat \ {0}
  BY GdAssumption
<1>3. ClampDiffScroll(y) = LET last == IF rows > GdHeight THEN rows - GdHeight ELSE 0
                           IN IF y > last THEN last ELSE IF y < 0 THEN 0 ELSE y
  BY <1>1 DEF ClampDiffScroll
<1> QED BY <1>1, <1>2, <1>3

LEMMA EmptyDiff ==
    <<>> \in Seq(RunType) /\ CleanedUp(<<>>) /\ NewLines(<<>>) = 0
<1>1. <<>> \in Seq(RunType) /\ Len(<<>>) = 0
  BY EmptySeq
<1>2. CleanedUp(<<>>)
  BY <1>1 DEF CleanedUp
<1>3. NewLinesTo(<<>>)[0] = 0
  BY <1>1, NewRuns
<1> QED BY <1>1, <1>2, <1>3 DEF NewLines

LEMMA GdInitInv == GdInit => GdInv
<1> SUFFICES ASSUME GdInit PROVE GdInv
  OBVIOUS
<1>1. gdDiff = <<>> /\ gdLine = 0 /\ gdScroll = -1 /\ gdFrom[2] = 0
  BY DEF GdInit
<1>2. gdDiff \in Seq(RunType) /\ CleanedUp(gdDiff) /\ NewLines(gdDiff) = 0
  BY <1>1, EmptyDiff
<1>3. JumpFound /\ ViewIsFilled
  BY <1>1 DEF JumpFound, ViewIsFilled
<1> QED BY <1>1, <1>2, <1>3 DEF GdInv

LEMMA GdNextInv == GdInv /\ [GdNext]_gdVars => GdInv'
<1> SUFFICES ASSUME GdInv, [GdNext]_gdVars PROVE GdInv'
  OBVIOUS
<1>0. /\ gdDiff \in Seq(RunType) /\ CleanedUp(gdDiff) /\ gdLine \in 0..NewLines(gdDiff)
      /\ gdScroll \in Int /\ JumpFound /\ ViewIsFilled
  BY DEF GdInv
<1>1. CASE OpenDiffed
  <2>1. /\ gdScroll = -1 /\ gdDiff' \in Diffs /\ gdLine' \in 0..NewLines(gdDiff')
        /\ gdFrom' = <<gdLine', 0>> /\ gdScroll' = gdScroll
    BY <1>1 DEF OpenDiffed
  <2>2. gdDiff' \in Seq(RunType) /\ CleanedUp(gdDiff')
    BY <2>1, DiffsAreRuns
  <2>3. gdFrom'[2] = 0 /\ gdScroll' = -1
    BY <2>1
  <2>4. JumpFound' /\ ViewIsFilled'
    BY <2>3 DEF JumpFound, ViewIsFilled
  <2> QED BY <2>1, <2>2, <2>3, <2>4 DEF GdInv
<1>2. CASE OpenDiffView
  <2>1. gdScroll' = 0 /\ gdDiff' = gdDiff /\ gdLine' = gdLine /\ gdFrom' = gdFrom
    BY <1>2 DEF OpenDiffView
  <2>2. JumpFound' /\ ViewIsFilled'
    BY <1>0, <2>1 DEF JumpFound, ViewIsFilled
  <2> QED BY <1>0, <2>1, <2>2 DEF GdInv
<1>3. CASE CloseDiffView
  <2>1. gdScroll' = -1 /\ gdDiff' = gdDiff /\ gdLine' = gdLine /\ gdFrom' = gdFrom
    BY <1>3 DEF CloseDiffView
  <2>2. JumpFound' /\ ViewIsFilled'
    BY <1>0, <2>1 DEF JumpFound, ViewIsFilled
  <2> QED BY <1>0, <2>1, <2>2 DEF GdInv
<1>4. CASE ScrollDiff
  <2>1. gdDiff' = gdDiff /\ gdLine' = gdLine /\ gdFrom' = gdFrom
    BY <1>4 DEF ScrollDiff
  <2>2. GdHeight \in Int /\ Len(SideBySide(gdDiff)) \in Int
    BY <1>0, GdAssumption, RowsAreBothTexts, LenProperties
  <2>3. PICK y \in Int : gdScroll' = ClampDiffScroll(y)
    BY <1>0, <1>4, <2>2 DEF ScrollDiff
  <2>4. gdScroll' \in Int /\ (gdScroll' = 0 \/ (gdScroll' > 0 /\ gdScroll' + GdHeight <= Len(SideBySide(gdDiff))))
    BY <1>0, <2>3, ClampIs
  <2>5. JumpFound' /\ ViewIsFilled'
    BY <1>0, <2>1, <2>4 DEF JumpFound, ViewIsFilled
  <2> QED BY <1>0, <2>1, <2>4, <2>5 DEF GdInv
<1>5. ASSUME NEW dir \in {-1, 1}, JumpHunk(dir) PROVE GdInv'
  <2>1. PICK hs : hs = Hunks(gdDiff)
    OBVIOUS
  <2>2. PICK n \in Nat : n = NewLines(gdDiff)
    BY <1>0, NewLinesType
  <2>3. PICK from \in Nat : from = gdLine
    BY <1>0, <2>2
  <2>4. /\ gdScroll = -1 /\ hs # <<>> /\ gdFrom' = <<gdLine, dir>> /\ gdDiff' = gdDiff /\ gdScroll' = gdScroll
        /\ gdLine' = (IF dir = 1 THEN NextHunk(hs, from) ELSE PrevHunk(hs, from)).start
    BY <1>5, <2>1, <2>3 DEF JumpHunk
  <2>5. Walkable(hs, n)
    BY <1>0, <2>1, <2>2, DiffWalkable
  <2>6. gdLine' \in 0..(n - 1) /\ Nearest(hs, from, dir, gdLine')
    <3>1. CASE dir = 1
      BY <2>4, <2>5, <3>1, NextIs
    <3>2. CASE dir = -1
      BY <2>4, <2>5, <3>2, PrevIs
    <3> QED BY <3>1, <3>2
  <2>7. gdLine' \in 0..NewLines(gdDiff)
    BY <2>2, <2>6
  <2>8. gdFrom'[1] = from /\ gdFrom'[2] = dir
    BY <2>3, <2>4
  <2>9. JumpFound'
    BY <2>1, <2>4, <2>6, <2>8 DEF JumpFound
  <2>10. ViewIsFilled'
    BY <2>4 DEF ViewIsFilled
  <2> QED BY <1>0, <2>4, <2>7, <2>9, <2>10 DEF GdInv
<1>6. CASE UNCHANGED gdVars
  <2>1. gdScroll' = gdScroll /\ gdDiff' = gdDiff /\ gdLine' = gdLine /\ gdFrom' = gdFrom
    BY <1>6 DEF gdVars
  <2>2. JumpFound' /\ ViewIsFilled'
    BY <1>0, <2>1 DEF JumpFound, ViewIsFilled
  <2> QED BY <1>0, <2>1, <2>2 DEF GdInv
<1> QED BY <1>1, <1>2, <1>3, <1>4, <1>5, <1>6 DEF GdNext

LEMMA GdInductive == GdSpec => []GdInv
BY GdInitInv, GdNextInv, PTL DEF GdSpec

LEMMA GdInvType == GdInv => GdTypeOK
<1> SUFFICES ASSUME GdInv PROVE GdTypeOK
  OBVIOUS
<1>1. /\ gdDiff \in Seq(RunType) /\ CleanedUp(gdDiff) /\ gdLine \in 0..NewLines(gdDiff) /\ gdScroll \in Int
  BY DEF GdInv
<1>2. PICK hs : hs = Hunks(gdDiff)
  OBVIOUS
<1>3. hs \in Seq(HunkType) /\ Within(Marks(gdDiff), hs, Len(Marks(gdDiff)))
  BY <1>1, <1>2, HunksAre DEF AllClosed
<1>4. ASSUME NEW i \in DOMAIN hs PROVE hs[i].type \in {"added", "modified"}
  <2>1. i \in 1..Len(hs) /\ hs[i].type \in MarkNames
    BY <1>3, HunksLen
  <2>2. hs[i].type # "none"
    BY <1>3, <2>1 DEF Within
  <2> QED BY <2>1, <2>2 DEF MarkNames
<1> QED BY <1>1, <1>2, <1>4 DEF GdTypeOK

LEMMA GdInvRows == GdInv => RowsShowBothTexts
<1> SUFFICES ASSUME GdInv PROVE RowsShowBothTexts
  OBVIOUS
<1>1. gdDiff \in Seq(RunType)
  BY DEF GdInv
<1>2. PICK rows : rows = SideBySide(gdDiff)
  OBVIOUS
<1>3. RowsShow(rows, OldLines(gdDiff), NewLines(gdDiff), SameLines(gdDiff))
  BY <1>1, <1>2, RowsAreBothTexts
<1> QED BY <1>2, <1>3 DEF RowsShow, RowsShowBothTexts, Count, SameOf, Valued

LEMMA GdInvHunks == GdInv => HunksAreTheMarkedRuns
<1> SUFFICES ASSUME GdInv PROVE HunksAreTheMarkedRuns
  OBVIOUS
<1>1. gdDiff \in Seq(RunType)
  BY DEF GdInv
<1>2. PICK marks : marks = Marks(gdDiff)
  OBVIOUS
<1>3. PICK hs : hs = Hunks(gdDiff)
  OBVIOUS
<1>4. PICK n \in Nat : n = Len(marks)
  BY <1>1, <1>2, MarksLen
<1>5. n = NewLines(gdDiff)
  BY <1>1, <1>2, <1>4, MarksAre
<1>6. AllClosed(marks, n, hs)
  BY <1>1, <1>2, <1>3, <1>4, HunksAre
<1>7. /\ hs \in Seq(HunkType) /\ Within(marks, hs, n) /\ Ordered(hs) /\ Apart(hs)
      /\ \A l \in 0..(n - 1) : marks[l + 1] # "none" => Holds(hs, l)
  BY <1>6 DEF AllClosed
<1>8. /\ Len(hs) \in Nat /\ DOMAIN hs = 1..Len(hs)
      /\ \A i \in 1..Len(hs) : hs[i].start \in Int /\ hs[i].end \in Int
  BY <1>7, HunksLen
<1>9. \A i \in 1..Len(hs) :
          /\ 0 <= hs[i].start /\ hs[i].start <= hs[i].end /\ hs[i].end < n /\ hs[i].type # "none"
          /\ \A l \in hs[i].start..hs[i].end : marks[l + 1] = hs[i].type
  BY <1>7 DEF Within
<1>10. ASSUME NEW l \in 0..(n - 1)
       PROVE  marks[l + 1] # "none" <=> \E i \in DOMAIN hs : hs[i].start <= l /\ l <= hs[i].end
  <2>1. ASSUME NEW i \in DOMAIN hs, hs[i].start <= l, l <= hs[i].end PROVE marks[l + 1] # "none"
    <3>1. i \in 1..Len(hs) /\ l \in hs[i].start..hs[i].end
      BY <1>8, <2>1
    <3> QED BY <1>9, <3>1
  <2> QED BY <2>1, <1>7, <1>8 DEF Holds
<1>11. ASSUME NEW i \in DOMAIN hs
       PROVE  /\ \A l \in hs[i].start..hs[i].end : l < n /\ marks[l + 1] = hs[i].type
              /\ i > 1 => hs[i].start > hs[i - 1].end
              /\ i > 1 /\ hs[i].start = hs[i - 1].end + 1 => hs[i].type # hs[i - 1].type
  <2>1. i \in 1..Len(hs)
    BY <1>8
  <2>2. \A l \in hs[i].start..hs[i].end : l < n /\ marks[l + 1] = hs[i].type
    <3>1. PICK x \in Int, y \in Int : x = hs[i].start /\ y = hs[i].end
      BY <1>8, <2>1
    <3>2. y < n /\ \A l \in x..y : marks[l + 1] = hs[i].type
      BY ONLY <1>9, <2>1, <3>1
    <3>3. \A l \in x..y : l < n
      BY ONLY <1>4, <3>1, <3>2
    <3> QED BY ONLY <3>1, <3>2, <3>3
  <2>3. ASSUME i > 1
        PROVE  hs[i].start > hs[i - 1].end
               /\ (hs[i].start = hs[i - 1].end + 1 => hs[i].type # hs[i - 1].type)
    <3>1. i - 1 \in 1..Len(hs) /\ i \in 2..Len(hs) /\ i - 1 < i
      BY <1>8, <2>1, <2>3
    <3>2. hs[i - 1].end < hs[i].start
      BY <1>7, <2>1, <3>1 DEF Ordered
    <3>3. hs[i].start = hs[i - 1].end + 1 => hs[i].type # hs[i - 1].type
      BY <1>7, <3>1 DEF Apart
    <3> QED BY <1>8, <2>1, <3>1, <3>2, <3>3
  <2> QED BY <2>2, <2>3
<1> QED BY <1>2, <1>3, <1>4, <1>5, <1>10, <1>11 DEF HunksAreTheMarkedRuns

LEMMA GdInvShown == GdInv => DiffIsShown
<1>1. ASSUME GdInv PROVE JumpFindsTheNearest /\ ViewIsFilled
  BY <1>1 DEF GdInv, JumpFound, JumpFindsTheNearest, Nearest, Beyond, Starts
<1> QED BY <1>1, GdInvRows, GdInvHunks DEF DiffIsShown

\* The marks, the hunks and the caret stay what they should be, whatever the
\* difference.
THEOREM GdTypeCorrect == GdSpec => []GdTypeOK
BY GdInductive, GdInvType, PTL

\* The side by side view shows both texts, line for line and the same lines beside
\* each other, the hunks are the longest marked runs, a jump reaches the nearest
\* and the view is never scrolled past its rows (SideBySide, DiffBuffer, jumpHunk,
\* clampDiffScroll).
THEOREM DiffShown == GdSpec => []DiffIsShown
BY GdInductive, GdInvShown, PTL
-----------------------------------------------------------------------------
(***************************************************************************)
(* FileSync.  TypeOK is inductive.  StaleIsNoticed is not: an edit can     *)
(* make a dirty buffer clean again, so the news of a dirty buffer must be  *)
(* under way as well (NewsUnderWay).                                       *)
(***************************************************************************)
USE DEF watcherVars, tabVars, histVars

NewsUnderWay ==
    \A f \in Files :
        saved[f] # disk[f] /\ f \notin missed \union told => UnderWay(f)

LEMMA WriteType ==
    ASSUME TypeOK, NEW f \in Files, NEW t \in TextsOf(f), Write(f, t)
    PROVE  /\ disk' \in [Files -> Texts]
           /\ events' \in [Files -> Nat]
           /\ writes' \in 0..MaxWrites
BY BoundsAssumption DEF TypeOK, Write, TextsOf, Texts

LEMMA LoadType ==
    ASSUME TypeOK, NEW f \in Files, LoadFrom(f)
    PROVE  /\ buf' \in [Files -> Texts] /\ saved' \in [Files -> Texts]
           /\ missed' \subseteq Files /\ told' \subseteq Files
BY DEF TypeOK, LoadFrom

LEMMA UnreadableType ==
    ASSUME TypeOK, NEW f \in Files, Unreadable(f)
    PROVE  /\ buf' \in [Files -> Texts] /\ saved' \in [Files -> Texts]
           /\ missed' \subseteq Files /\ told' \subseteq Files
BY DEF TypeOK, Unreadable

LEMMA InitType == Init => TypeOK
BY BoundsAssumption, FileCapAssumption DEF Init, TypeOK, Texts

LEMMA NextType == TypeOK /\ [Next]_vars => TypeOK'
<1> SUFFICES ASSUME TypeOK, [Next]_vars PROVE TypeOK'
  OBVIOUS
<1>1. ASSUME ExternalWrite PROVE TypeOK'
  <2>1. PICK f \in Files : \E t \in TextsOf(f) : Write(f, t)
    BY <1>1 DEF ExternalWrite
  <2>2. UNCHANGED <<tabVars, entry, loose, bodies, fileEvents, conflict, histVars>>
    BY <1>1 DEF ExternalWrite
  <2> QED BY <2>1, <2>2, WriteType DEF TypeOK
<1>2. ASSUME NEW f \in Files, ScheduleNotify(f) PROVE TypeOK'
  BY <1>2 DEF ScheduleNotify, TypeOK
<1>3. ASSUME NEW f \in Files, TimerFires(f) PROVE TypeOK'
  <2>1. entry' \in [Files -> {"none", "armed", "fired"}]
    BY <1>3 DEF TimerFires, TypeOK
  <2>2. loose' \in [Files -> Nat]
    <3>1. CASE entry[f] = "armed" /\ UNCHANGED loose
      BY <3>1 DEF TypeOK
    <3>2. CASE loose[f] > 0 /\ loose' = [loose EXCEPT ![f] = @ - 1]
      BY <3>2 DEF TypeOK
    <3> QED BY <1>3, <3>1, <3>2 DEF TimerFires
  <2>3. bodies' \in [Files -> Nat]
    BY <1>3 DEF TimerFires, TypeOK
  <2> QED BY <1>3, <2>1, <2>2, <2>3 DEF TimerFires, TypeOK
<1>4. ASSUME NEW f \in Files, TimerRuns(f) PROVE TypeOK'
  <2>1. fileEvents' \in Seq(Files) /\ Len(fileEvents') <= FileCap /\ missed' \subseteq Files
    <3>1. CASE Len(fileEvents) < FileCap /\ fileEvents' = Append(fileEvents, f) /\ UNCHANGED missed
      BY <3>1, FileCapAssumption DEF TypeOK
    <3>2. CASE UNCHANGED fileEvents /\ missed' \in {missed, missed \union {f}}
      BY <3>2 DEF TypeOK
    <3> QED BY <1>4, <3>1, <3>2 DEF TimerRuns, Deliver
  <2>2. /\ bodies' \in [Files -> Nat] /\ loose' \in [Files -> Nat]
        /\ entry' \in [Files -> {"none", "armed", "fired"}]
    BY <1>4 DEF TimerRuns, TypeOK
  <2> QED BY <1>4, <2>1, <2>2 DEF TimerRuns, TypeOK
<1>5. ASSUME FileChanged PROVE TypeOK'
  <2> DEFINE f == Head(fileEvents)
  <2>1. f \in Files /\ fileEvents' \in Seq(Files) /\ Len(fileEvents') <= FileCap
    BY <1>5, FileCapAssumption DEF FileChanged, TypeOK
  <2> HIDE DEF f
  <2>2. \/ (LoadFrom(f) \/ Unreadable(f)) /\ UNCHANGED conflict
        \/ conflict' = f /\ told' = told \union {f} /\ UNCHANGED <<tabVars, missed>>
    BY <1>5 DEF FileChanged, f
  <2>3. UNCHANGED <<disk, watcherVars, writes>>
    BY <1>5 DEF FileChanged
  <2>4. CASE LoadFrom(f) /\ UNCHANGED conflict
    BY <2>1, <2>3, <2>4, LoadType DEF TypeOK
  <2>5. CASE Unreadable(f) /\ UNCHANGED conflict
    BY <2>1, <2>3, <2>5, UnreadableType DEF TypeOK
  <2>6. CASE conflict' = f /\ told' = told \union {f} /\ UNCHANGED <<tabVars, missed>>
    BY <2>1, <2>3, <2>6 DEF TypeOK
  <2> QED BY <2>2, <2>4, <2>5, <2>6
<1>6. ASSUME ConflictReload PROVE TypeOK'
  <2>1. conflict \in Files /\ conflict' = NoFile /\ (LoadFrom(conflict) \/ Unreadable(conflict))
    BY <1>6 DEF ConflictReload, TypeOK
  <2>2. /\ buf' \in [Files -> Texts] /\ saved' \in [Files -> Texts]
        /\ missed' \subseteq Files /\ told' \subseteq Files
    BY <2>1, LoadType, UnreadableType
  <2> QED BY <1>6, <2>1, <2>2 DEF ConflictReload, TypeOK
<1>7. ASSUME ConflictIgnore PROVE TypeOK'
  BY <1>7 DEF ConflictIgnore, TypeOK
<1>8. ASSUME NEW f \in Files, Edit(f) PROVE TypeOK'
  BY <1>8 DEF Edit, TypeOK, TextsOf, Texts
<1>9. ASSUME NEW f \in Files, Save(f) PROVE TypeOK'
  <2>1. CASE /\ Write(f, buf[f])
             /\ saved' = [saved EXCEPT ![f] = buf[f]]
             /\ missed' = missed \ {f} /\ told' = told \ {f}
    <3>1. buf[f] \in Texts
      BY DEF TypeOK
    <3>2. /\ disk' \in [Files -> Texts] /\ events' \in [Files -> Nat]
          /\ writes' \in 0..MaxWrites
      BY <2>1, <3>1, BoundsAssumption DEF Write, TypeOK
    <3> QED BY <1>9, <2>1, <3>1, <3>2 DEF Save, TypeOK
  <2>2. CASE (\E t \in TextsOf(f) \ {disk[f]} : Write(f, t)) /\ UNCHANGED <<saved, histVars>>
    <3>1. /\ disk' \in [Files -> Texts] /\ events' \in [Files -> Nat]
          /\ writes' \in 0..MaxWrites
      BY <2>2, WriteType
    <3> QED BY <1>9, <2>2, <3>1 DEF Save, TypeOK
  <2> QED BY <1>9, <2>1, <2>2 DEF Save
<1>10. ASSUME NEW f \in Files, ApplyAgentChange(f) PROVE TypeOK'
  <2> PICK t \in TextsOf(f) :
        /\ Write(f, t)
        /\ buf' = [g \in Files |-> IF ReloadedBy(g, f) THEN t ELSE buf[g]]
        /\ saved' = [g \in Files |-> IF ReloadedBy(g, f) THEN t ELSE saved[g]]
    BY <1>10 DEF ApplyAgentChange
  <2>1. t \in Texts
    BY DEF TextsOf, Texts
  <2>2. buf' \in [Files -> Texts] /\ saved' \in [Files -> Texts]
    BY <2>1 DEF TypeOK
  <2> QED BY <1>10, <2>2, WriteType DEF ApplyAgentChange, TypeOK
<1>11. CASE UNCHANGED vars
  BY <1>11 DEF vars, TypeOK
<1> QED
  BY <1>1, <1>2, <1>3, <1>4, <1>5, <1>6, <1>7, <1>8, <1>9, <1>10, <1>11
  DEF Next, WatcherNext, UserNext

\* The variables of tabs, watcher and channel keep their types; in particular the
\* channel never holds more than its capacity.
THEOREM TypeCorrect == Spec => []TypeOK
BY InitType, NextType, PTL DEF Spec
-----------------------------------------------------------------------------
(* Staleness.                                                              *)

\* News on their way for every file that differs from its buffer.
Pending(f) == saved[f] # disk[f] /\ f \notin missed \union told => UnderWay(f)

DistinctNames == \A f, g \in Files : {f, g} \in Namesakes => f = g

\* What stays in the channel when its head is received.
LEMMA TailKeeps ==
    ASSUME NEW s \in Seq(Files), s # <<>>, NEW g \in ToSet(s), g # Head(s)
    PROVE  g \in ToSet(Tail(s))
<1>1. PICK i \in 1..Len(s) : s[i] = g
  BY DEF ToSet
<1>2. i # 1
  BY <1>1
<1>3. i - 1 \in DOMAIN Tail(s) /\ Tail(s)[i - 1] = g
  BY <1>1, <1>2
<1> QED BY <1>3 DEF ToSet

LEMMA AppendHolds ==
    ASSUME NEW s \in Seq(Files), NEW f \in Files
    PROVE  ToSet(s) \union {f} \subseteq ToSet(Append(s, f))
<1>1. f \in ToSet(Append(s, f))
  <2>1. Len(s) + 1 \in DOMAIN Append(s, f) /\ Append(s, f)[Len(s) + 1] = f
    OBVIOUS
  <2> QED BY <2>1 DEF ToSet
<1>2. ASSUME NEW g \in ToSet(s) PROVE g \in ToSet(Append(s, f))
  <2>1. PICK i \in 1..Len(s) : s[i] = g
    BY DEF ToSet
  <2>2. i \in DOMAIN Append(s, f) /\ Append(s, f)[i] = g
    BY <2>1
  <2> QED BY <2>2 DEF ToSet
<1> QED BY <1>1, <1>2

\* A written file has its news under way, and no other file is concerned.
LEMMA WritePending ==
    ASSUME TypeOK, NewsUnderWay, NEW f \in Files, NEW t, Write(f, t),
           UNCHANGED <<entry, loose, bodies, fileEvents>>,
           NEW g \in Files,
           g = f \/ (saved'[g] = saved[g] /\ (g \in missed \union told => g \in missed' \union told'))
    PROVE  Pending(g)'
<1>1. CASE g = f
  BY <1>1 DEF Write, TypeOK, Pending, UnderWay
<1>2. CASE g # f
  BY <1>2 DEF Write, TypeOK, NewsUnderWay, Pending, UnderWay
<1> QED BY <1>1, <1>2

\* A file that was read, or could not be read, needs no news.
LEMMA ReadPending ==
    ASSUME TypeOK, NewsUnderWay, NEW f \in Files, LoadFrom(f) \/ Unreadable(f),
           UNCHANGED <<disk, watcherVars>>,
           NEW g \in Files, g = f \/ (UnderWay(g) => UnderWay(g)')
    PROVE  Pending(g)'
<1>1. CASE LoadFrom(f)
  BY <1>1 DEF LoadFrom, TypeOK, NewsUnderWay, Pending
<1>2. CASE Unreadable(f)
  BY <1>2 DEF Unreadable, TypeOK, NewsUnderWay, Pending
<1> QED BY <1>1, <1>2

LEMMA NextNews ==
    DistinctNames /\ TypeOK /\ NewsUnderWay /\ [Next]_vars => NewsUnderWay'
<1> SUFFICES ASSUME DistinctNames, TypeOK, NewsUnderWay, [Next]_vars, NEW g \in Files
             PROVE  Pending(g)'
  BY DEF NewsUnderWay, Pending
<1> USE DEF Pending
<1>0. Pending(g)
  BY DEF NewsUnderWay
<1>1. ASSUME ExternalWrite PROVE Pending(g)'
  <2>1. PICK f \in Files : \E t \in TextsOf(f) : Write(f, t)
    BY <1>1 DEF ExternalWrite
  <2>2. UNCHANGED <<tabVars, entry, loose, bodies, fileEvents, conflict, histVars>>
    BY <1>1 DEF ExternalWrite
  <2> QED BY <2>1, <2>2, WritePending
<1>2. ASSUME NEW f \in Files, ScheduleNotify(f) PROVE Pending(g)'
  BY <1>0, <1>2 DEF ScheduleNotify, TypeOK, UnderWay
<1>3. ASSUME NEW f \in Files, TimerFires(f) PROVE Pending(g)'
  <2>1. UNCHANGED <<disk, tabVars, events, fileEvents, histVars>>
    BY <1>3 DEF TimerFires
  <2>2. CASE g = f
    BY <1>3, <2>1, <2>2 DEF TimerFires, TypeOK, UnderWay
  <2>3. CASE g # f
    BY <1>0, <1>3, <2>1, <2>3 DEF TimerFires, TypeOK, UnderWay
  <2> QED BY <2>2, <2>3
<1>4. ASSUME NEW f \in Files, TimerRuns(f) PROVE Pending(g)'
  <2>1. /\ UNCHANGED <<disk, tabVars, events, told>>
        /\ missed \subseteq missed' /\ ToSet(fileEvents) \subseteq ToSet(fileEvents')
        /\ f \in missed' \union ToSet(fileEvents')
    BY <1>4, AppendHolds DEF TimerRuns, Deliver, TypeOK
  <2>2. CASE g = f
    BY <2>1, <2>2 DEF UnderWay
  <2>3. CASE g # f
    <3>1. entry'[g] = entry[g] /\ loose'[g] = loose[g] /\ bodies'[g] = bodies[g]
      BY <1>4, <2>3 DEF TimerRuns, TypeOK
    <3> QED BY <1>0, <2>1, <3>1 DEF UnderWay
  <2> QED BY <2>2, <2>3
<1>5. ASSUME FileChanged PROVE Pending(g)'
  <2> DEFINE f == Head(fileEvents)
  <2>1. f \in Files /\ UNCHANGED <<disk, watcherVars>>
    BY <1>5 DEF FileChanged, TypeOK
  <2>2. g = f \/ (UnderWay(g) => UnderWay(g)')
    BY <1>5, <2>1, TailKeeps DEF FileChanged, TypeOK, UnderWay
  <2> HIDE DEF f
  <2>3. \/ LoadFrom(f) \/ Unreadable(f)
        \/ told' = told \union {f} /\ UNCHANGED <<tabVars, missed>>
    BY <1>5 DEF FileChanged, f
  <2>4. CASE LoadFrom(f) \/ Unreadable(f)
    BY <2>1, <2>2, <2>4, ReadPending
  <2>5. CASE told' = told \union {f} /\ UNCHANGED <<tabVars, missed>>
    BY <1>0, <2>1, <2>2, <2>5
  <2> QED BY <2>3, <2>4, <2>5
<1>6. ASSUME ConflictReload PROVE Pending(g)'
  <2>1. conflict \in Files /\ (LoadFrom(conflict) \/ Unreadable(conflict))
    BY <1>6 DEF ConflictReload, TypeOK
  <2>2. UNCHANGED <<disk, watcherVars, fileEvents>>
    BY <1>6 DEF ConflictReload
  <2>3. UnderWay(g) => UnderWay(g)'
    BY <2>2 DEF UnderWay
  <2> QED BY <2>1, <2>2, <2>3, ReadPending
<1>7. ASSUME ConflictIgnore PROVE Pending(g)'
  BY <1>0, <1>7 DEF ConflictIgnore, UnderWay
<1>8. ASSUME NEW f \in Files, Edit(f) PROVE Pending(g)'
  BY <1>0, <1>8 DEF Edit, UnderWay
<1>9. ASSUME NEW f \in Files, Save(f) PROVE Pending(g)'
  <2>1. PICK t : Write(f, t)
    BY <1>9 DEF Save
  <2>2. UNCHANGED <<entry, loose, bodies, fileEvents>>
    BY <1>9 DEF Save
  <2>3. g = f \/ (saved'[g] = saved[g] /\ (g \in missed \union told => g \in missed' \union told'))
    BY <1>9 DEF Save, TypeOK
  <2> QED BY <2>1, <2>2, <2>3, WritePending
<1>10. ASSUME NEW f \in Files, ApplyAgentChange(f) PROVE Pending(g)'
  <2>1. PICK t \in TextsOf(f) :
          /\ Write(f, t)
          /\ saved' = [h \in Files |-> IF ReloadedBy(h, f) THEN t ELSE saved[h]]
    BY <1>10 DEF ApplyAgentChange
  <2>2. UNCHANGED <<entry, loose, bodies, fileEvents, histVars>>
    BY <1>10 DEF ApplyAgentChange
  <2>3. g = f \/ saved'[g] = saved[g]
    BY <2>1 DEF ReloadedBy, DistinctNames
  <2> QED BY <2>1, <2>2, <2>3, WritePending
<1>11. CASE UNCHANGED vars
  BY <1>0, <1>11 DEF vars, UnderWay
<1> QED
  BY <1>1, <1>2, <1>3, <1>4, <1>5, <1>6, <1>7, <1>8, <1>9, <1>10, <1>11
  DEF Next, WatcherNext, UserNext

\* Where no two open files share a base name, news of a file are lost by a full
\* channel or a failed read only, whatever the timers do.
THEOREM StaleIsNoticedCorrect == DistinctNames => (Spec => []StaleIsNoticed)
<1> SUFFICES ASSUME DistinctNames PROVE Spec => []StaleIsNoticed
  OBVIOUS
<1>1. Init => TypeOK /\ NewsUnderWay
  BY InitType DEF Init, NewsUnderWay
<1>2. TypeOK /\ NewsUnderWay /\ [Next]_vars => (TypeOK /\ NewsUnderWay)'
  BY NextType, NextNews
<1>3. TypeOK /\ NewsUnderWay => StaleIsNoticed
  BY DEF NewsUnderWay, StaleIsNoticed, Stale
<1> QED BY <1>1, <1>2, <1>3, PTL DEF Spec
-----------------------------------------------------------------------------
(* Unsaved edits.                                                          *)

\* Unsaved edits are replaced by the disk's text only at a prompt about their
\* own file, for any number of files and of messages under way.
THEOREM UnsavedIsKeptCorrect == Spec => UnsavedIsKept
<1>1. ASSUME TypeOK, [Next]_vars, NEW f \in Files, Dirty(f), buf'[f] # buf[f]
      PROVE  OnlyTyping \/ (conflict = f /\ conflict' = NoFile)
  <2>1. CASE \E g \in Files : Edit(g)
    BY <2>1 DEF Edit, OnlyTyping
  <2>2. CASE FileChanged
    BY <1>1, <2>2 DEF FileChanged, LoadFrom, Unreadable, TypeOK
  <2>3. CASE ConflictReload
    BY <1>1, <2>3 DEF ConflictReload, LoadFrom, Unreadable, TypeOK
  <2>4. CASE \E g \in Files : ApplyAgentChange(g)
    BY <1>1, <2>4 DEF ApplyAgentChange, ReloadedBy, TypeOK
  <2>5. CASE UNCHANGED buf
    BY <1>1, <2>5
  <2> QED
    BY <1>1, <2>1, <2>2, <2>3, <2>4, <2>5
    DEF Next, WatcherNext, UserNext, ExternalWrite, ScheduleNotify, TimerFires, TimerRuns,
        ConflictIgnore, Save, vars
<1>2. TypeOK /\ [Next]_vars =>
        [\A f \in Files :
           Dirty(f) /\ buf'[f] # buf[f]
             => OnlyTyping \/ (conflict = f /\ conflict' = NoFile)]_vars
  BY <1>1
<1> QED BY <1>2, TypeCorrect, PTL DEF Spec, UnsavedIsKept
-----------------------------------------------------------------------------
(* Texts.                                                                  *)

\* BufferHasOwnText with what a load takes its text from.
OwnText == BufferHasOwnText /\ \A f \in Files : disk[f] \in TextsOf(f)

LEMMA NextOwn == DistinctNames /\ TypeOK /\ OwnText /\ [Next]_vars => OwnText'
<1> SUFFICES ASSUME DistinctNames, TypeOK, OwnText, [Next]_vars, NEW f \in Files
             PROVE  /\ disk'[f] \in TextsOf(f)
                    /\ buf'[f] \in TextsOf(f) /\ saved'[f] \in TextsOf(f)
  BY DEF OwnText, BufferHasOwnText, TextsOf
<1>0. disk[f] \in TextsOf(f) /\ buf[f] \in TextsOf(f) /\ saved[f] \in TextsOf(f)
  BY DEF OwnText, BufferHasOwnText
<1>1. disk'[f] \in TextsOf(f)
  <2>1. CASE UNCHANGED disk
    BY <1>0, <2>1
  <2>2. ASSUME NEW g \in Files, NEW t \in TextsOf(g), Write(g, t) PROVE disk'[f] \in TextsOf(f)
    BY <1>0, <2>2 DEF Write, TypeOK
  <2>3. ASSUME NEW g \in Files, Save(g) PROVE disk'[f] \in TextsOf(f)
    <3>1. buf[g] \in TextsOf(g)
      BY DEF OwnText, BufferHasOwnText
    <3> QED BY <2>2, <2>3, <3>1 DEF Save
  <2>4. CASE ExternalWrite
    BY <2>2, <2>4 DEF ExternalWrite
  <2>5. ASSUME NEW g \in Files, ApplyAgentChange(g) PROVE disk'[f] \in TextsOf(f)
    BY <2>2, <2>5 DEF ApplyAgentChange
  <2> QED
    BY <2>1, <2>3, <2>4, <2>5
    DEF Next, WatcherNext, UserNext, ScheduleNotify, TimerFires, TimerRuns, FileChanged,
        ConflictReload, ConflictIgnore, Edit, vars
<1>2. buf'[f] \in TextsOf(f) /\ saved'[f] \in TextsOf(f)
  <2>1. CASE UNCHANGED tabVars
    BY <1>0, <2>1
  <2>2. CASE FileChanged \/ ConflictReload
    BY <1>0, <2>2 DEF FileChanged, ConflictReload, LoadFrom, Unreadable, TypeOK
  <2>3. ASSUME NEW g \in Files, Edit(g) \/ Save(g)
        PROVE  buf'[f] \in TextsOf(f) /\ saved'[f] \in TextsOf(f)
    BY <1>0, <2>3 DEF Edit, Save, TypeOK
  <2>4. ASSUME NEW g \in Files, ApplyAgentChange(g)
        PROVE  buf'[f] \in TextsOf(f) /\ saved'[f] \in TextsOf(f)
    <3>1. ReloadedBy(f, g) => f = g
      BY DEF ReloadedBy, DistinctNames
    <3> QED BY <1>0, <2>4, <3>1 DEF ApplyAgentChange, TypeOK
  <2> QED
    BY <2>1, <2>2, <2>3, <2>4
    DEF Next, WatcherNext, UserNext, ExternalWrite, ScheduleNotify, TimerFires, TimerRuns,
        ConflictIgnore, vars
<1> QED BY <1>1, <1>2

\* Where no two open files share a base name, no buffer shows or saves the text
\* of another file.
THEOREM OwnTextCorrect == DistinctNames => (Spec => []BufferHasOwnText)
<1> SUFFICES ASSUME DistinctNames PROVE Spec => []BufferHasOwnText
  OBVIOUS
<1>1. Init => TypeOK /\ OwnText
  BY InitType, BoundsAssumption DEF Init, OwnText, BufferHasOwnText, TextsOf
<1>2. TypeOK /\ OwnText /\ [Next]_vars => (TypeOK /\ OwnText)'
  BY NextType, NextOwn
<1>3. OwnText => BufferHasOwnText
  BY DEF OwnText
<1> QED BY <1>1, <1>2, <1>3, PTL DEF Spec

\* Without namesakes, a clean buffer is its own file as it is on disk, or the news
\* are under way.
THEOREM BuffersAreTheirFilesCorrect == DistinctNames => (Spec => []BuffersAreTheirFiles)
<1>1. StaleIsNoticed /\ BufferHasOwnText <=> BuffersAreTheirFiles
  BY DEF BuffersAreTheirFiles
<1>. QED
  BY <1>1, StaleIsNoticedCorrect, OwnTextCorrect, PTL
=============================================================================
