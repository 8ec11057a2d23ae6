----------------------------- MODULE TextProofs -----------------------------
(***************************************************************************)
(* Safety of what works on the text of one tab: EditBuffer for any loaded  *)
(* texts, lengths and size of the undo stack (the types, that undo loses   *)
(* nothing, that the caret stays in the text), Folding for any texts,      *)
(* typed lines and height of the pane (what is folded is what the          *)
(* indentation means, and every line is shown or counted once), and Search *)
(* for any texts, files and queries (it walks every match, and replacing   *)
(* changes the matches and nothing else).                                  *)
(***************************************************************************)
EXTENDS MCText, RemovalProofs, SequenceTheorems, TLAPS

\* A buffer and each of its undo and redo steps has a line at least.
Filled      == [text : Text \ {<<>>}, line : Nat, col : Nat]
FilledSteps == undo \in Seq(Filled) /\ redo \in Seq(Filled)

\* A typing run goes on in the undo step of its first rune: there is one to join.
RunHasStep == run # NoRun => undo # <<>>

IInv == TypeOK /\ FilledSteps /\ RunHasStep

\* The text that undoing everything gives back.
Oldest == IF undo = <<>> THEN text ELSE Head(undo).text

TextLines == Seq(Nat) \ {<<>>}
-----------------------------------------------------------------------------
(* Texts and positions.                                                    *)

LEMMA TextIsNats == Text \subseteq Seq(Nat)
<1> SUFFICES ASSUME NEW t \in Text PROVE t \in Seq(Nat)
  OBVIOUS
<1>1. 0..MaxLen \subseteq Nat
  BY TextsAssumption
<1> QED BY <1>1, SeqMonotonic DEF Text

LEMMA Bounded ==
    ASSUME NEW t \in Seq(Nat), \A i \in DOMAIN t : t[i] <= MaxLen
    PROVE  t \in Text
<1>1. t \in [1..Len(t) -> Nat] /\ Len(t) \in Nat /\ DOMAIN t = 1..Len(t)
  BY LenProperties
<1>2. \A i \in 1..Len(t) : t[i] \in 0..MaxLen
  BY <1>1, TextsAssumption
<1>3. SubSeq(t, 1, Len(t)) \in Seq(0..MaxLen)
  BY <1>1, <1>2, SubSeqProperties
<1> QED BY <1>3, SubSeqFull DEF Text

\* Part of a text, the empty one included.
LEMMA PartOfText ==
    ASSUME NEW S, NEW t \in Seq(S), NEW m \in Nat \ {0}, NEW n \in Int, n <= Len(t)
    PROVE  /\ SubSeq(t, m, n) \in Seq(S)
           /\ Len(SubSeq(t, m, n)) = IF m <= n THEN n - m + 1 ELSE 0
<1>1. \A i \in m..n : i \in 1..Len(t)
  BY LenProperties
<1>2. \A i \in m..n : t[i] \in S
  BY <1>1, ElementOfSeq
<1> QED BY <1>2, SubSeqProperties

LEMMA NotEmpty ==
    ASSUME NEW s \in Seq(Nat), NEW t \in Seq(Nat), s # <<>> \/ t # <<>>
    PROVE  s \o t \in TextLines
BY ConcatProperties, ConcatSimplifications!concIsEmpty DEF TextLines

LEMMA SpliceType ==
    ASSUME NEW t \in Text, NEW p \in Place, NEW q \in Place, InText(t, p), InText(t, q),
           NEW ins \in TextLines
    PROVE  Splice(t, p, q, ins) \in TextLines
<1> DEFINE n    == Len(ins)
           head == p[2] + ins[1]
           tail == t[q[1]] - q[2]
           body == IF n = 1 THEN <<head + tail>>
                   ELSE <<head>> \o SubSeq(ins, 2, n - 1) \o <<ins[n] + tail>>
           before == SubSeq(t, 1, p[1] - 1)
           after  == SubSeq(t, q[1] + 1, Len(t))
<1>1. t \in Seq(Nat) /\ Len(t) \in Nat
  BY TextIsNats, LenProperties
<1>2. n \in Nat \ {0} /\ ins \in Seq(Nat)
  BY EmptySeq DEF TextLines
<1>3. ins[1] \in Nat /\ ins[n] \in Nat
  BY <1>2, ElementOfSeq
<1>4. /\ p[1] \in 1..Len(t) /\ p[2] \in Nat
      /\ q[1] \in 1..Len(t) /\ q[2] \in 0..t[q[1]] /\ t[q[1]] \in Nat
  BY <1>1, ElementOfSeq DEF InText, Place
<1>5. head \in Nat /\ tail \in Nat
  <2>1. \A x, y \in Nat : x + y \in Nat
    OBVIOUS
  <2>2. \A x \in Nat : \A y \in 0..x : x - y \in Nat
    OBVIOUS
  <2>3. head \in Nat
    BY <1>3, <1>4, <2>1
  <2>4. tail \in Nat
    BY <1>4, <2>2
  <2> QED BY <2>3, <2>4
<1>6. before \in Seq(Nat) /\ after \in Seq(Nat)
  <2>1. p[1] - 1 \in Int /\ p[1] - 1 <= Len(t) /\ q[1] + 1 \in Nat \ {0} /\ Len(t) \in Int
    BY <1>1, <1>4
  <2> HIDE DEF head, tail, body
  <2>2. before \in Seq(Nat)
    BY <1>1, <2>1, PartOfText
  <2>3. after \in Seq(Nat)
    BY <1>1, <2>1, PartOfText
  <2> QED BY <2>2, <2>3
<1> HIDE DEF head, tail, before, after
<1>7. body \in Seq(Nat) /\ body # <<>>
  <2>1. CASE n = 1
    BY <2>1, <1>5
  <2>2. CASE n # 1
    <3>1. SubSeq(ins, 2, n - 1) \in Seq(Nat)
      BY <1>2, PartOfText
    <3>2. <<head>> \in Seq(Nat) /\ <<head>> # <<>>
      BY <1>5
    <3>3. <<ins[n] + tail>> \in Seq(Nat)
      BY <1>3, <1>5
    <3>4. <<head>> \o SubSeq(ins, 2, n - 1) \in Seq(Nat) \ {<<>>}
      BY <3>1, <3>2, NotEmpty DEF TextLines
    <3> QED BY <2>2, <3>3, <3>4, NotEmpty DEF TextLines
  <2> QED BY <2>1, <2>2
<1> HIDE DEF body
<1>8. before \o body \in Seq(Nat) \ {<<>>}
  BY <1>6, <1>7, NotEmpty DEF TextLines
<1>9. (before \o body) \o after \in TextLines
  BY <1>6, <1>8, NotEmpty
<1>10. Splice(t, p, q, ins) = before \o body \o after
  BY DEF Splice, before, body, after, head, tail
<1> QED BY <1>9, <1>10

LEMMA AfterType ==
    ASSUME NEW p \in Place, NEW ins \in TextLines
    PROVE  After(p, ins) \in Place
<1>1. Len(ins) \in Nat \ {0} /\ ins \in Seq(Nat)
  BY EmptySeq DEF TextLines
<1>2. ins[1] \in Nat /\ ins[Len(ins)] \in Nat
  BY <1>1, ElementOfSeq
<1>3. p = <<p[1], p[2]>> /\ p[1] \in Nat /\ p[2] \in Nat
  BY DEF Place
<1>4. p[2] + ins[1] \in Nat /\ p[1] + Len(ins) - 1 \in Nat
  BY <1>1, <1>2, <1>3
<1>5. CASE Len(ins) = 1
  BY <1>3, <1>4, <1>5 DEF After, Place
<1>6. CASE Len(ins) # 1
  BY <1>2, <1>4, <1>6 DEF After, Place
<1> QED BY <1>5, <1>6

\* The ends of the selection: positions of the text, the first one first.
LEMMA RangeType ==
    ASSUME TypeOK, Usable
    PROVE  /\ From \in Place /\ To \in Place
           /\ InText(text, From) /\ InText(text, To)
           /\ From[1] \in 1..Len(text) /\ To[1] \in From[1]..Len(text)
<1>1. Len(text) \in Nat
  BY LenProperties DEF TypeOK, Text
<1>2. Caret \in Place /\ anchor \in Place
  BY DEF TypeOK
<1>3. From \in {anchor, Caret} /\ To \in {anchor, Caret}
  BY DEF From, To
<1>4. InText(text, From) /\ InText(text, To)
  BY DEF Usable, From, To
<1>5. From[1] \in 1..Len(text) /\ To[1] \in 1..Len(text)
  BY <1>4 DEF InText
<1>6. From[1] <= To[1]
  <2> DEFINE c == Caret
             a == anchor
  <2>1. c[1] \in Nat /\ a[1] \in Nat /\ c[2] \in Nat /\ a[2] \in Nat
    BY <1>2 DEF Place
  <2>2. Before(a, c) => a[1] <= c[1]
    BY <2>1 DEF Before
  <2>3. Before(c, a) => c[1] <= a[1]
    BY <2>1 DEF Before
  <2>4. Before(a, c) \/ Before(c, a)
    BY <2>1 DEF Before
  <2> HIDE DEF a, c
  <2>5. HasSelection => From[1] <= To[1]
    <3>1. CASE HasSelection /\ Before(a, c) /\ Before(c, a)
      <4>1. From = a /\ To = a
        BY <3>1 DEF From, To, a, c
      <4> QED BY <4>1, <2>1
    <3>2. CASE HasSelection /\ Before(a, c) /\ ~Before(c, a)
      <4>1. From = a /\ To = c
        BY <3>2 DEF From, To, a, c
      <4> QED BY <4>1, <2>1, <2>2, <3>2
    <3>3. CASE HasSelection /\ ~Before(a, c)
      <4>1. From = c /\ To = a
        BY <3>3, <2>4 DEF From, To, a, c
      <4> QED BY <4>1, <2>1, <2>3, <2>4, <3>3
    <3> QED BY <3>1, <3>2, <3>3
  <2>6. ~HasSelection => From = c /\ To = c
    BY DEF From, To, c
  <2> QED BY <2>1, <2>5, <2>6
<1> QED BY <1>1, <1>2, <1>3, <1>4, <1>5, <1>6
-----------------------------------------------------------------------------
(* The undo stack.                                                         *)

LEMMA FilledStep ==
    ASSUME TypeOK
    PROVE  Snapshot(text, Caret) \in Filled /\ Snapshot(text, Caret).text = text
<1>1. line \in Nat /\ col \in Nat
  BY DEF TypeOK, Caret, Place
<1> QED BY <1>1 DEF Snapshot, Caret, Filled, TypeOK

\* Pushing leaves a stack that is not overfull, and whose oldest step is the one
\* it was unless the stack was full.
LEMMA Pushed ==
    ASSUME IInv, PushUndo
    PROVE  /\ undo' \in Seq(Filled) /\ undo' # <<>> /\ Len(undo') <= MaxUndo
           /\ dropped' \in BOOLEAN
           /\ ~dropped' => ~dropped /\ Head(undo').text = Oldest
<1> DEFINE step   == Snapshot(text, Caret)
           longer == Append(undo, step)
<1>1. undo \in Seq(Filled) /\ Len(undo) \in Nat /\ Len(undo) <= MaxUndo
  BY LenProperties DEF IInv, FilledSteps, TypeOK
<1>2. step \in Filled /\ step.text = text
  BY FilledStep DEF IInv
<1> HIDE DEF step
<1>3. /\ longer \in Seq(Filled) /\ longer # <<>> /\ Len(longer) = Len(undo) + 1
      /\ \A i \in 1..Len(undo) : longer[i] = undo[i]
      /\ longer[Len(undo) + 1] = step
  BY <1>1, <1>2, AppendProperties
<1> HIDE DEF longer
<1>4. undo' = IF Len(longer) > MaxUndo THEN Tail(longer) ELSE longer
  BY DEF PushUndo, PushedTo, longer, step
<1>5. Tail(longer) \in Seq(Filled) /\ Len(Tail(longer)) = Len(undo)
  BY <1>1, <1>3, HeadTailProperties
<1>6. dropped' = (dropped \/ Len(undo) = MaxUndo) /\ dropped \in BOOLEAN
  BY DEF PushUndo, IInv, TypeOK
<1>7. CASE Len(longer) > MaxUndo
  <2>1. Len(undo) = MaxUndo /\ undo' = Tail(longer)
    BY <1>1, <1>3, <1>4, <1>7, MaxUndoAssumption
  <2>2. Len(undo') # 0
    BY <2>1, <1>5, MaxUndoAssumption
  <2>3. undo' # <<>>
    BY <2>2, EmptySeq
  <2> QED BY <2>1, <2>3, <1>1, <1>5, <1>6
<1>8. CASE ~(Len(longer) > MaxUndo)
  <2>1. undo' = longer /\ Len(undo') <= MaxUndo
    BY <1>1, <1>3, <1>4, <1>8, MaxUndoAssumption
  <2>2. Head(longer) = longer[1]
    BY <1>3
  <2>3. Head(longer).text = Oldest
    <3>1. CASE undo = <<>>
      <4>1. Len(undo) = 0
        BY <3>1, EmptySeq
      <4> QED BY <3>1, <4>1, <2>2, <1>2, <1>3 DEF Oldest
    <3>2. CASE undo # <<>>
      <4>1. 1 \in 1..Len(undo) /\ Head(undo) = undo[1]
        BY <3>2, <1>1, EmptySeq
      <4> QED BY <3>2, <4>1, <2>2, <1>3 DEF Oldest
    <3> QED BY <3>1, <3>2
  <2> QED BY <2>1, <2>3, <1>3, <1>6
<1> QED BY <1>7, <1>8

\* Undoing takes the last step, which is the oldest if it is the only one.
LEMMA Undone ==
    ASSUME IInv, Undo
    PROVE  /\ undo' \in Seq(Filled) /\ Len(undo') <= MaxUndo /\ Last(undo) \in Filled
           /\ Oldest' = Oldest
<1> DEFINE n == Len(undo)
<1>1. undo \in Seq(Filled) /\ undo # <<>> /\ n <= MaxUndo /\ n \in Nat \ {0}
  BY EmptySeq DEF IInv, FilledSteps, TypeOK, Undo
<1>2. undo' = SubSeq(undo, 1, n - 1) /\ text' = undo[n].text
  BY DEF Undo, Restore, Front, Last
<1>3. \A i \in 1..n : undo[i] \in Filled
  BY <1>1, ElementOfSeq
<1>4. /\ undo' \in Seq(Filled) /\ Len(undo') = n - 1
      /\ \A i \in 1..n - 1 : undo'[i] = undo[i]
  <2>1. /\ SubSeq(undo, 1, n - 1) \in Seq(Filled)
        /\ Len(SubSeq(undo, 1, n - 1)) = IF 1 <= n - 1 THEN (n - 1) - 1 + 1 ELSE 0
        /\ \A i \in 1..(n - 1) - 1 + 1 : SubSeq(undo, 1, n - 1)[i] = undo[1 + i - 1]
    <3>1. 1 \in Int /\ n - 1 \in Int /\ \A i \in 1..n - 1 : undo[i] \in Filled
      BY <1>1, <1>3
    <3> HIDE DEF n
    <3> QED BY <3>1, SubSeqProperties
  <2> HIDE DEF n
  <2> QED BY <2>1, <1>1, <1>2
<1>5. Head(undo) = undo[1]
  BY <1>1
<1>6. Len(undo') <= MaxUndo /\ Last(undo) \in Filled
  BY <1>1, <1>3, <1>4, MaxUndoAssumption DEF Last
<1>7. Oldest' = Oldest
  <2>1. CASE n = 1
    <3>1. undo' = <<>>
      BY <1>4, <2>1, EmptySeq
    <3>2. Oldest' = text'
      BY <3>1 DEF Oldest
    <3> QED BY <3>2, <2>1, <1>1, <1>2, <1>5 DEF Oldest
  <2>2. CASE n # 1
    <3>1. undo' # <<>> /\ 1 \in 1..n - 1
      BY <1>1, <1>4, <2>2, EmptySeq
    <3>2. Head(undo') = undo'[1]
      BY <3>1, <1>4
    <3> QED BY <3>1, <3>2, <1>1, <1>4, <1>5 DEF Oldest
  <2> QED BY <2>1, <2>2
<1> QED BY <1>4, <1>6, <1>7
-----------------------------------------------------------------------------
(* The edits.                                                              *)

\* What an edit must say of its text, caret and anchor to keep the invariant.
LEMMA ChangeKeeps ==
    ASSUME IInv, NEW t \in TextLines, NEW p \in Place, NEW sel \in Place, Change(t, p, sel)
    PROVE  IInv' /\ PushUndo /\ first' = first
<1>1. t \in Text
  BY Bounded DEF Change, TextLines
<1>2. PushUndo /\ redo' = <<>> /\ run' = NoRun /\ first' = first /\ selected' = selected
  BY DEF Change
<1>3. text' = t /\ Caret' = <<p[1], p[2]>> /\ anchor' = sel
  BY DEF Change, Caret
<1>4. <<p[1], p[2]>> \in Place /\ NoRun \in Place
  BY DEF Place, NoRun, Nowhere
<1>5. undo' \in Seq(Filled) /\ Len(undo') <= MaxUndo /\ dropped' \in BOOLEAN
  BY <1>2, Pushed
<1>6. redo' \in Seq(Filled)
  BY <1>2, EmptySeq
<1>7. Seq(Filled) \subseteq Seq(Step)
  <2>1. Filled \subseteq Step
    BY DEF Filled, Step
  <2> QED BY <2>1, SeqMonotonic
<1>8. TypeOK'
  BY <1>1, <1>2, <1>3, <1>4, <1>5, <1>6, <1>7 DEF TypeOK, IInv, TextLines
<1> QED BY <1>2, <1>5, <1>6, <1>8 DEF IInv, FilledSteps, RunHasStep

\* The usual edit: what lies between two positions is replaced.
LEMMA SpliceKeeps ==
    ASSUME IInv, NEW p \in Place, NEW q \in Place, InText(text, p), InText(text, q),
           NEW ins \in TextLines, NEW c \in Place, NEW sel \in Place,
           Change(Splice(text, p, q, ins), c, sel)
    PROVE  IInv' /\ PushUndo /\ first' = first
<1>1. Splice(text, p, q, ins) \in TextLines
  BY SpliceType DEF IInv, TypeOK
<1> QED BY <1>1, ChangeKeeps

LEMMA Ins == /\ <<0>> \in TextLines /\ <<1>> \in TextLines /\ <<0, 1>> \in TextLines
             /\ \A n \in Nat : <<0, n>> \in TextLines
BY DEF TextLines

LEMMA Places == /\ NoAnchor \in Place /\ NoRun \in Place /\ <<1, 0>> \in Place
                /\ \A p \in Nat, q \in Nat : <<p, q>> \in Place
BY DEF Place, NoAnchor, NoRun, Nowhere

\* The facts of the current state the edits start from.
LEMMA Facts ==
    ASSUME TypeOK
    PROVE  /\ text \in TextLines /\ text \in Seq(Nat) /\ Len(text) \in Nat \ {0}
           /\ \A i \in 1..Len(text) : text[i] \in Nat
           /\ DOMAIN text = 1..Len(text)
           /\ line \in Nat /\ col \in Nat /\ Caret \in Place /\ anchor \in Place
<1>1. text \in TextLines
  BY TextIsNats DEF TypeOK, TextLines
<1>2. text \in Seq(Nat) /\ Len(text) \in Nat \ {0}
  BY <1>1, EmptySeq DEF TextLines
<1>3. line \in Nat /\ col \in Nat /\ Caret \in Place /\ anchor \in Place
  BY DEF TypeOK, Caret, Place
<1> QED BY <1>1, <1>2, <1>3, ElementOfSeq, LenProperties

\* What a step does to the undo stack: it pushes, it pops, or it leaves the stack
\* alone, which it may do while changing the text only if there is a step to join.
Kept == UNCHANGED <<text, undo, dropped>> \/ (undo # <<>> /\ UNCHANGED <<undo, dropped>>)
Recorded == first' = first /\ (PushUndo \/ Undo \/ Kept)

\* One line in the place of others: it is the only one that can be too long.
LEMMA OneNatLine ==
    ASSUME NEW t \in Text, NEW i \in 1..Len(t), NEW k \in i..Len(t), NEW x \in Nat,
           NEW u, u = SubSeq(t, 1, i - 1) \o <<x>> \o SubSeq(t, k + 1, Len(t)),
           u[i] <= MaxLen
    PROVE  u \in Text
<1> DEFINE before == SubSeq(t, 1, i - 1)
           after  == SubSeq(t, k + 1, Len(t))
           S      == 0..MaxLen
<1>1. Len(t) \in Nat /\ t \in Seq(S)
  BY LenProperties DEF Text
<1>2. S \subseteq Nat /\ Text = Seq(S)
  BY TextsAssumption DEF Text
<1> HIDE DEF S
<1>3. /\ i - 1 \in Int /\ i - 1 <= Len(t) /\ i - 1 >= 0
      /\ k + 1 \in Nat \ {0} /\ Len(t) \in Int
  BY <1>1
<1>4. before \in Seq(S) /\ Len(before) = i - 1
  <2>1. /\ SubSeq(t, 1, i - 1) \in Seq(S)
        /\ Len(SubSeq(t, 1, i - 1)) = IF 1 <= i - 1 THEN i - 1 - 1 + 1 ELSE 0
    BY <1>1, <1>3, PartOfText
  <2> QED BY <2>1, <1>3
<1>5. after \in Seq(S)
  BY <1>1, <1>3, PartOfText
<1> HIDE DEF before, after
<1>6. before \in Seq(Nat) /\ after \in Seq(Nat) /\ <<x>> \in Seq(Nat)
  <2>1. before \in Seq(Nat) /\ after \in Seq(Nat)
    BY <1>2, <1>4, <1>5, SeqMonotonic
  <2>2. <<x>> \in Seq(Nat)
    OBVIOUS
  <2> QED BY <2>1, <2>2
<1> DEFINE two == before \o <<x>>
<1>7. two \in Seq(Nat) /\ Len(two) = i /\ two[i] = x
  <2>1. Len(<<x>>) = 1 /\ <<x>>[1] = x
    OBVIOUS
  <2>2. /\ two \in Seq(Nat) /\ Len(two) = Len(before) + Len(<<x>>)
        /\ \A j \in 1..Len(before) + Len(<<x>>) :
             two[j] = IF j <= Len(before) THEN before[j] ELSE <<x>>[j - Len(before)]
    BY <1>6, ConcatProperties
  <2> HIDE DEF two
  <2>3. Len(two) = i
    BY <1>4, <2>1, <2>2
  <2>4. i \in 1..Len(before) + Len(<<x>>) /\ ~(i <= Len(before)) /\ i - Len(before) = 1
    BY <1>1, <1>4, <2>1
  <2> QED BY <2>1, <2>2, <2>3, <2>4
<1>8. u = two \o after
  BY DEF before, after
<1> HIDE DEF two
<1>9. u[i] = x
  <2>1. \A j \in 1..Len(two) + Len(after) :
           (two \o after)[j] = IF j <= Len(two) THEN two[j] ELSE after[j - Len(two)]
    BY <1>6, <1>7, ConcatProperties
  <2>2. i \in 1..Len(two) + Len(after)
    BY <1>6, <1>7, LenProperties
  <2>3. (two \o after)[i] = two[i]
    BY <2>1, <2>2, <1>7
  <2> QED BY <2>3, <1>7, <1>8
<1>10. <<x>> \in Seq(S)
  <2>1. x <= MaxLen
    BY <1>9
  <2>2. x \in S
    BY <2>1, TextsAssumption DEF S
  <2> QED BY <2>2
<1>11. two \in Seq(S)
  BY <1>4, <1>10, ConcatProperties DEF two
<1>12. two \o after \in Seq(S)
  BY <1>5, <1>11, ConcatProperties
<1> QED BY <1>2, <1>8, <1>12

LEMMA InsertKeeps == ASSUME IInv, Insert PROVE IInv' /\ Recorded
<1> DEFINE t     == Splice(text, From, To, <<1>>)
           joins == ~HasSelection /\ run = Caret
           p     == After(From, <<1>>)
<1>1. /\ Usable /\ t[p[1]] <= MaxLen
      /\ text' = t /\ line' = p[1] /\ col' = p[2] /\ anchor' = NoAnchor /\ run' = p
      /\ \/ joins /\ UNCHANGED <<undo, dropped, edits>>
         \/ ~joins /\ PushUndo
      /\ redo' \in {<<>>, redo}
      /\ first' = first /\ selected' = selected
  BY DEF Insert
<1>2. /\ From \in Place /\ To \in Place /\ InText(text, From) /\ InText(text, To)
      /\ From[1] \in 1..Len(text) /\ From[2] \in Nat /\ To[1] \in From[1]..Len(text)
  BY <1>1, RangeType DEF IInv, Place
<1>3. t \in TextLines
  BY <1>2, Ins, SpliceType DEF IInv, TypeOK
<1>4. p = <<From[1], From[2] + 1>> /\ p \in Place
  BY <1>2, Places DEF After
<1>5. t \in Text
  <2> DEFINE x == From[2] + 1 + (text[To[1]] - To[2])
  <2>1. x \in Nat
    BY <1>2, Facts DEF InText, IInv
  <2>2. t = SubSeq(text, 1, From[1] - 1) \o <<x>> \o SubSeq(text, To[1] + 1, Len(text))
    BY DEF Splice
  <2>3. t[From[1]] <= MaxLen
    BY <1>1, <1>4
  <2> HIDE DEF t, x
  <2> QED BY <1>2, <2>1, <2>2, <2>3, OneNatLine DEF IInv, TypeOK
<1> HIDE DEF t, p
<1>6. Caret' \in Place /\ anchor' \in Place /\ run' \in Place
  BY <1>1, <1>4, Places DEF Caret, Place
<1>7. redo' \in Seq(Filled) /\ redo' \in Seq(Step)
  BY <1>1, EmptySeq DEF IInv, FilledSteps, TypeOK
<1>8. /\ undo' \in Seq(Filled) /\ Len(undo') <= MaxUndo /\ dropped' \in BOOLEAN /\ undo' # <<>>
      /\ Recorded
  <2>1. CASE PushUndo
    BY <1>1, <2>1, Pushed DEF Recorded
  <2>2. CASE joins /\ UNCHANGED <<undo, dropped, edits>>
    <3>1. Caret # NoRun
      BY <1>1 DEF Usable, InText, Caret, NoRun, Nowhere
    <3>2. undo # <<>>
      BY <2>2, <3>1 DEF IInv, RunHasStep
    <3> QED BY <1>1, <2>2, <3>2 DEF Recorded, Kept, IInv, FilledSteps, TypeOK
  <2> QED BY <1>1, <2>1, <2>2
<1>9. undo' \in Seq(Step)
  <2>1. Filled \subseteq Step
    BY DEF Filled, Step
  <2> QED BY <1>8, <2>1, SeqMonotonic
<1>10. TypeOK'
  BY <1>1, <1>3, <1>5, <1>6, <1>7, <1>8, <1>9 DEF TypeOK, IInv, TextLines
<1> QED BY <1>7, <1>8, <1>10 DEF IInv, FilledSteps, RunHasStep

\* An edit with nothing to do: only the run and the redo stack go.
LEMMA BeginChangeKeeps == ASSUME IInv, BeginChange PROVE IInv' /\ Recorded
BY Places, EmptySeq
DEF BeginChange, IInv, TypeOK, FilledSteps, RunHasStep, Recorded, Kept, docVars, histVars, Caret

LEMMA InsertTextKeeps ==
    ASSUME IInv, NEW ins \in TextLines, InsertText(ins) PROVE IInv' /\ Recorded
<1>1. From \in Place /\ To \in Place /\ InText(text, From) /\ InText(text, To)
  BY RangeType DEF InsertText, Change, IInv
<1>2. After(From, ins) \in Place
  BY <1>1, AfterType
<1>3. (IF HasSelection THEN NoAnchor ELSE anchor) \in Place
  BY Facts, Places DEF IInv
<1> QED BY <1>1, <1>2, <1>3, SpliceKeeps DEF InsertText, Recorded

LEMMA InsertNewlineKeeps ==
    ASSUME IInv, NEW indent \in Nat, InsertNewline(indent) PROVE IInv' /\ Recorded
<1>1. From \in Place /\ To \in Place /\ InText(text, From) /\ InText(text, To)
  BY RangeType DEF InsertNewline, Change, IInv
<1>2. <<From[1] + 1, indent>> \in Place
  BY <1>1 DEF Place
<1> QED BY <1>1, <1>2, Ins, Places, SpliceKeeps DEF InsertNewline, Recorded

LEMMA DeleteSelectionKeeps == ASSUME IInv, DeleteSelection PROVE IInv' /\ Recorded
<1>1. From \in Place /\ To \in Place /\ InText(text, From) /\ InText(text, To)
  BY RangeType DEF DeleteSelection, Change, IInv
<1> QED BY <1>1, Ins, Places, SpliceKeeps DEF DeleteSelection, Recorded

LEMMA BackspaceKeeps == ASSUME IInv, Backspace PROVE IInv' /\ Recorded
<1>1. CASE DeleteSelection
  BY <1>1, DeleteSelectionKeeps
<1>2. CASE /\ col > 0
           /\ Change(Splice(text, <<line, col - 1>>, Caret, <<0>>), <<line, col - 1>>, anchor)
  <2>1. InText(text, Caret) /\ Caret \in Place /\ anchor \in Place
    BY <1>2, Facts DEF Change, Usable, IInv
  <2>2. <<line, col - 1>> \in Place /\ InText(text, <<line, col - 1>>)
    BY <1>2, <2>1, Facts DEF InText, Caret, Place, IInv
  <2> QED BY <1>2, <2>1, <2>2, Ins, SpliceKeeps DEF Recorded
<1>3. CASE line > 1 /\ BackspaceJoins
  <2>1. InText(text, Caret) /\ Caret \in Place /\ anchor \in Place
    BY <1>3, Facts DEF BackspaceJoins, Change, Usable, IInv
  <2>2. line - 1 \in 1..Len(text)
    BY <1>3, <2>1, Facts DEF InText, Caret, IInv
  <2>3. /\ <<line - 1, text[line - 1]>> \in Place
        /\ InText(text, <<line - 1, text[line - 1]>>)
    BY <2>2, Facts DEF InText, Place, IInv
  <2> QED BY <1>3, <2>1, <2>3, Ins, SpliceKeeps DEF BackspaceJoins, Recorded
<1>4. CASE BeginChange
  BY <1>4, BeginChangeKeeps
<1> QED BY <1>1, <1>2, <1>3, <1>4 DEF Backspace

LEMMA DeleteKeeps == ASSUME IInv, Delete PROVE IInv' /\ Recorded
<1>1. CASE DeleteSelection
  BY <1>1, DeleteSelectionKeeps
<1>2. CASE /\ col < text[line]
           /\ Change(Splice(text, Caret, <<line, col + 1>>, <<0>>), Caret, anchor)
  <2>1. InText(text, Caret) /\ Caret \in Place /\ anchor \in Place
    BY <1>2, Facts DEF Change, Usable, IInv
  <2>2. <<line, col + 1>> \in Place /\ InText(text, <<line, col + 1>>)
    BY <1>2, <2>1, Facts DEF InText, Caret, Place, IInv
  <2> QED BY <1>2, <2>1, <2>2, Ins, SpliceKeeps DEF Recorded
<1>3. CASE /\ line < Len(text)
           /\ Change(Splice(text, Caret, <<line + 1, 0>>, <<0>>), Caret, anchor)
  <2>1. InText(text, Caret) /\ Caret \in Place /\ anchor \in Place
    BY <1>3, Facts DEF Change, Usable, IInv
  <2>2. <<line + 1, 0>> \in Place /\ InText(text, <<line + 1, 0>>)
    BY <1>3, <2>1, Facts DEF InText, Caret, Place, IInv
  <2> QED BY <1>3, <2>1, <2>2, Ins, SpliceKeeps DEF Recorded
<1>4. CASE BeginChange
  BY <1>4, BeginChangeKeeps
<1> QED BY <1>1, <1>2, <1>3, <1>4 DEF Delete

LEMMA ReplaceSpanKeeps ==
    ASSUME IInv, NEW p \in Positions, NEW q \in Positions, NEW ins \in TextLines,
           ReplaceSpan(p, q, ins)
    PROVE  IInv' /\ Recorded
<1>1. p \in Place /\ q \in Place /\ InText(text, p) /\ InText(text, q)
  BY TextsAssumption DEF Positions, Place
<1>2. After(p, ins) \in Place
  BY <1>1, AfterType
<1> QED BY <1>1, <1>2, Places, SpliceKeeps DEF ReplaceSpan, Recorded

LEMMA SameLinesType ==
    ASSUME TypeOK, NEW t \in SameLines
    PROVE  /\ t \in TextLines /\ Len(t) = Len(text)
           /\ \A i \in 1..Len(text) : t[i] \in Nat
<1> DEFINE n == Len(text)
<1>1. n \in Nat \ {0} /\ t \in [1..n -> 0..MaxLen]
  BY Facts DEF SameLines
<1>2. \A i \in 1..n : t[i] \in Nat
  BY <1>1, TextsAssumption
<1> HIDE DEF n
<1>3. t \in [1..n -> Nat]
  BY <1>1, <1>2
<1>4. t \in Seq(Nat) /\ Len(t) = n
  BY <1>1, <1>3
<1>5. t # <<>>
  BY <1>1, <1>4, EmptySeq
<1> QED BY <1>2, <1>4, <1>5 DEF TextLines, n

LEMMA ClampType == ASSUME NEW c \in Int, NEW n \in Nat PROVE Clamp(c, n) \in Nat
BY DEF Clamp

LEMMA ReplaceMatchesKeeps ==
    ASSUME IInv, NEW t \in SameLines, ReplaceMatches(t) PROVE IInv' /\ Recorded
<1>1. line \in 1..Len(text) /\ col \in Nat
  BY Facts DEF ReplaceMatches, Change, Usable, InText, Caret, IInv
<1>2. t \in TextLines /\ t[line] \in Nat
  BY <1>1, SameLinesType DEF IInv
<1>3. <<line, Clamp(col, t[line])>> \in Place
  <2>1. Clamp(col, t[line]) \in Nat
    <3>1. col \in Int /\ t[line] \in Nat
      BY <1>1, <1>2
    <3> QED BY <3>1, ClampType
  <2>2. line \in Nat
    BY <1>1
  <2> QED BY <2>1, <2>2, Places
<1> QED BY <1>2, <1>3, Places, ChangeKeeps DEF ReplaceMatches, Recorded
-----------------------------------------------------------------------------
(* Whole lines.                                                            *)

LEMMA DeleteLineKeeps == ASSUME IInv, DeleteLine PROVE IInv' /\ Recorded
<1>1. CASE Len(text) = 1
  <2>1. Change(<<0>>, <<1, 0>>, anchor)
    BY <1>1 DEF DeleteLine
  <2> QED BY <2>1, Ins, Places, Facts, ChangeKeeps DEF Recorded, IInv
<1>2. CASE Len(text) # 1
  <2> DEFINE before == SubSeq(text, 1, line - 1)
             after  == SubSeq(text, line + 1, Len(text))
             n      == Clamp(line, Len(text) - 1)
  <2>1. Change(RemoveAt(text, line), <<n, 0>>, anchor)
    BY <1>2 DEF DeleteLine
  <2>2. /\ line \in 1..Len(text) /\ Len(text) \in Nat \ {0} /\ Len(text) # 1
        /\ text \in Seq(Nat)
    BY <1>2, <2>1, Facts DEF Change, Usable, InText, Caret, IInv
  <2>3. /\ line - 1 \in Int /\ line - 1 <= Len(text) /\ line + 1 \in Nat \ {0}
        /\ Len(text) \in Int /\ Len(text) - 1 \in Nat /\ line \in Int
        /\ Len(text) >= 2
    <3>1. Len(text) \in Nat /\ Len(text) >= 2
      <4> DEFINE m == Len(text)
      <4>1. m \in Nat /\ m # 0 /\ m # 1
        BY <2>2
      <4> HIDE DEF m
      <4>2. m >= 2
        BY <4>1
      <4> QED BY <4>1, <4>2 DEF m
    <3>2. line \in Nat /\ line >= 1 /\ line <= Len(text)
      BY <2>2, <3>1
    <3> QED BY <3>1, <3>2
  <2>4. before \in Seq(Nat) /\ Len(before) = IF 1 <= line - 1 THEN line - 1 - 1 + 1 ELSE 0
    BY <2>2, <2>3, PartOfText
  <2>5. /\ after \in Seq(Nat)
        /\ Len(after) = IF line + 1 <= Len(text) THEN Len(text) - (line + 1) + 1 ELSE 0
    BY <2>2, <2>3, PartOfText
  <2> HIDE DEF before, after
  <2>6. before # <<>> \/ after # <<>>
    <3>1. 1 <= line - 1 => Len(before) # 0
      BY <2>2, <2>4
    <3>2. line + 1 <= Len(text) => Len(after) # 0
      BY <2>2, <2>5
    <3>3. 1 <= line - 1 \/ line + 1 <= Len(text)
      BY <2>3
    <3> QED BY <3>1, <3>2, <3>3, EmptySeq
  <2>7. RemoveAt(text, line) \in TextLines
    <3>1. RemoveAt(text, line) = before \o after
      BY DEF RemoveAt, before, after
    <3> QED BY <3>1, <2>4, <2>5, <2>6, NotEmpty
  <2>8. <<n, 0>> \in Place
    <3>1. n \in Nat
      BY <2>3, ClampType
    <3> HIDE DEF n
    <3> QED BY <3>1, Places
  <2> QED BY <2>1, <2>7, <2>8, Facts, ChangeKeeps DEF Recorded, IInv
<1> QED BY <1>1, <1>2

\* The block, and what is before and behind it.
LEMMA BlockType ==
    ASSUME IInv, Usable
    PROVE  /\ From[1] \in 1..Len(text) /\ To[1] \in From[1]..Len(text)
           /\ Len(text) \in Nat \ {0} /\ text \in Seq(Nat)
           /\ Block \in Seq(Nat) /\ Block # <<>>
<1>1. /\ From[1] \in 1..Len(text) /\ To[1] \in From[1]..Len(text)
      /\ Len(text) \in Nat \ {0} /\ text \in Seq(Nat)
  BY RangeType, Facts DEF IInv
<1>2. /\ From[1] \in Nat \ {0} /\ To[1] \in Int /\ To[1] <= Len(text) /\ From[1] <= To[1]
  BY <1>1
<1>3. /\ Block \in Seq(Nat)
      /\ Len(Block) = IF From[1] <= To[1] THEN To[1] - From[1] + 1 ELSE 0
  BY <1>1, <1>2, PartOfText DEF Block
<1>4. Len(Block) # 0
  BY <1>2, <1>3
<1> QED BY <1>1, <1>3, <1>4, EmptySeq

\* A text with other lines between its first m and those from k on.
LEMMA Rearranged ==
    ASSUME NEW t \in Seq(Nat), NEW m \in Int, m <= Len(t), NEW k \in Nat \ {0},
           NEW b \in Seq(Nat), NEW c \in Seq(Nat), b # <<>>
    PROVE  /\ SubSeq(t, 1, m) \o b \o SubSeq(t, k, Len(t)) \in TextLines
           /\ SubSeq(t, 1, m) \o b \o c \o SubSeq(t, k, Len(t)) \in TextLines
           /\ SubSeq(t, 1, m) \o c \o b \o SubSeq(t, k, Len(t)) \in TextLines
<1> DEFINE before == SubSeq(t, 1, m)
           after  == SubSeq(t, k, Len(t))
<1>1. before \in Seq(Nat)
  <2>1. 1 \in Nat \ {0}
    OBVIOUS
  <2> QED BY <2>1, PartOfText
<1>2. after \in Seq(Nat)
  <2>1. Len(t) \in Int /\ Len(t) <= Len(t)
    BY LenProperties
  <2> QED BY <2>1, PartOfText
<1> HIDE DEF before, after
<1>3. before \o b \in Seq(Nat) \ {<<>>} /\ before \o c \in Seq(Nat)
  BY <1>1, NotEmpty, ConcatProperties DEF TextLines
<1>4. (before \o b) \o c \in Seq(Nat) \ {<<>>} /\ (before \o c) \o b \in Seq(Nat) \ {<<>>}
  BY <1>3, NotEmpty DEF TextLines
<1>5. /\ (before \o b) \o after \in TextLines
      /\ ((before \o b) \o c) \o after \in TextLines
      /\ ((before \o c) \o b) \o after \in TextLines
  BY <1>2, <1>3, <1>4, NotEmpty
<1> QED BY <1>5 DEF before, after

LEMMA DuplicateLineKeeps == ASSUME IInv, DuplicateLine PROVE IInv' /\ Recorded
<1> DEFINE k == To[1]
           t == SubSeq(text, 1, k) \o Block \o SubSeq(text, k + 1, Len(text))
<1>1. Change(t, <<k + 1, col>>, NoAnchor)
  BY DEF DuplicateLine
<1>2. Usable
  BY <1>1 DEF Change
<1>3. k \in Int /\ k <= Len(text) /\ k + 1 \in Nat \ {0} /\ k + 1 \in Nat
  BY <1>2, BlockType
<1>4. <<k + 1, col>> \in Place
  BY <1>3, Facts, Places DEF IInv
<1> HIDE DEF k
<1>5. t \in TextLines
  BY <1>2, <1>3, BlockType, Rearranged
<1> HIDE DEF t
<1> QED BY <1>1, <1>4, <1>5, Places, ChangeKeeps DEF Recorded

\* Moving a block over a line that is not there is an edit that changes nothing.
LEMMA MovesNothing ==
    ASSUME IInv, Change(text, Caret, anchor) PROVE IInv' /\ Recorded
BY Facts, ChangeKeeps DEF Recorded, IInv

LEMMA MoveLineUpKeeps == ASSUME IInv, MoveLineUp PROVE IInv' /\ Recorded
<1> DEFINE i == From[1]
           k == To[1]
           above == <<text[i - 1]>>
           t == SubSeq(text, 1, i - 2) \o Block \o above \o SubSeq(text, k + 1, Len(text))
<1>1. CASE i = 1
  BY <1>1, MovesNothing DEF MoveLineUp
<1>2. CASE i # 1
  <2>1. Change(t, <<i - 1, col>>, NoAnchor)
    BY <1>2 DEF MoveLineUp
  <2>2. Usable
    BY <2>1 DEF Change
  <2>3. /\ i \in 1..Len(text) /\ k \in i..Len(text) /\ Len(text) \in Nat
        /\ text \in Seq(Nat) /\ Block \in Seq(Nat) /\ Block # <<>>
    BY <2>2, BlockType
  <2> HIDE DEF i, k
  <2>4. /\ i - 2 \in Int /\ i - 2 <= Len(text) /\ k + 1 \in Nat \ {0}
        /\ i - 1 \in 1..Len(text) /\ i - 1 \in Nat
    BY <1>2, <2>3
  <2>5. above \in Seq(Nat)
    <3>1. text[i - 1] \in Nat
      BY <2>3, <2>4, ElementOfSeq
    <3> QED BY <3>1
  <2>6. <<i - 1, col>> \in Place
    BY <2>4, Facts, Places DEF IInv
  <2> HIDE DEF above
  <2>7. t \in TextLines
    BY <2>3, <2>4, <2>5, Rearranged
  <2> HIDE DEF t
  <2> QED BY <2>1, <2>6, <2>7, Places, ChangeKeeps DEF Recorded
<1> QED BY <1>1, <1>2

LEMMA MoveLineDownKeeps == ASSUME IInv, MoveLineDown PROVE IInv' /\ Recorded
<1> DEFINE i == From[1]
           k == To[1]
           below == <<text[k + 1]>>
           t == SubSeq(text, 1, i - 1) \o below \o Block \o SubSeq(text, k + 2, Len(text))
<1>1. CASE k = Len(text)
  BY <1>1, MovesNothing DEF MoveLineDown
<1>2. CASE k # Len(text)
  <2>1. Change(t, <<i + 1, col>>, NoAnchor)
    BY <1>2 DEF MoveLineDown
  <2>2. Usable
    BY <2>1 DEF Change
  <2>3. /\ i \in 1..Len(text) /\ k \in i..Len(text) /\ Len(text) \in Nat
        /\ text \in Seq(Nat) /\ Block \in Seq(Nat) /\ Block # <<>>
    BY <2>2, BlockType
  <2> HIDE DEF i, k
  <2>4. /\ i - 1 \in Int /\ i - 1 <= Len(text) /\ k + 2 \in Nat \ {0}
        /\ k + 1 \in 1..Len(text) /\ i + 1 \in Nat
    BY <1>2, <2>3
  <2>5. below \in Seq(Nat)
    <3>1. text[k + 1] \in Nat
      BY <2>3, <2>4, ElementOfSeq
    <3> QED BY <3>1
  <2>6. <<i + 1, col>> \in Place
    BY <2>4, Facts, Places DEF IInv
  <2> HIDE DEF below
  <2>7. t \in TextLines
    BY <2>3, <2>4, <2>5, Rearranged
  <2> HIDE DEF t
  <2> QED BY <2>1, <2>6, <2>7, Places, ChangeKeeps DEF Recorded
<1> QED BY <1>1, <1>2

LEMMA IndentLinesKeeps ==
    ASSUME IInv, NEW t \in SameLines, IndentLines(t) PROVE IInv' /\ Recorded
<1> DEFINE moved(p) == <<p[1], Clamp(p[2] + t[p[1]] - text[p[1]], t[p[1]])>>
<1>1. Change(t, moved(To), IF HasSelection THEN moved(From) ELSE anchor)
  BY DEF IndentLines
<1>2. /\ From[1] \in 1..Len(text) /\ From[2] \in Nat
      /\ To[1] \in 1..Len(text) /\ To[2] \in Nat
  BY <1>1, RangeType DEF Change, Place, IInv, InText
<1>3. t \in TextLines /\ \A i \in 1..Len(text) : t[i] \in Nat /\ text[i] \in Nat
  BY SameLinesType, Facts DEF IInv
<1>4. moved(From) \in Place
  <2>1. t[From[1]] \in Nat /\ From[2] + t[From[1]] - text[From[1]] \in Int
    BY <1>2, <1>3
  <2>2. Clamp(From[2] + t[From[1]] - text[From[1]], t[From[1]]) \in Nat
    BY <2>1, ClampType
  <2> QED BY <1>2, <2>2, Places
<1>5. moved(To) \in Place
  <2>1. t[To[1]] \in Nat /\ To[2] + t[To[1]] - text[To[1]] \in Int
    BY <1>2, <1>3
  <2>2. Clamp(To[2] + t[To[1]] - text[To[1]], t[To[1]]) \in Nat
    BY <2>1, ClampType
  <2> QED BY <1>2, <2>2, Places
<1> HIDE DEF moved
<1>6. (IF HasSelection THEN moved(From) ELSE anchor) \in Place
  BY <1>4, Facts DEF IInv
<1> QED BY <1>1, <1>3, <1>5, <1>6, ChangeKeeps DEF Recorded

LEMMA ToggleCommentKeeps ==
    ASSUME IInv, NEW t \in SameLines, NEW c \in Nat, ToggleComment(t, c)
    PROVE  IInv' /\ Recorded
<1>1. <<line, c>> \in Place
  BY Facts, Places DEF IInv
<1> QED BY <1>1, SameLinesType, Places, ChangeKeeps DEF ToggleComment, Recorded, IInv
-----------------------------------------------------------------------------
(* Undo, redo and the caret.                                               *)

LEMMA FilledText ==
    ASSUME NEW s \in Filled
    PROVE  s.text \in Text /\ s.text # <<>> /\ s.line \in Nat /\ s.col \in Nat
BY DEF Filled

LEMMA StepsAreSteps == Seq(Filled) \subseteq Seq(Step)
<1>1. Filled \subseteq Step
  BY DEF Filled, Step
<1> QED BY <1>1, SeqMonotonic

LEMMA UndoKeeps == ASSUME IInv, Undo PROVE IInv' /\ Recorded
<1>1. undo' \in Seq(Filled) /\ Len(undo') <= MaxUndo /\ Last(undo) \in Filled
  BY Undone
<1>2. text' \in Text /\ text' # <<>> /\ line' \in Nat /\ col' \in Nat
  BY <1>1, FilledText DEF Undo, Restore
<1>3. redo' \in Seq(Filled)
  <2>1. Snapshot(text, Caret) \in Filled /\ redo \in Seq(Filled)
    BY FilledStep DEF IInv, FilledSteps
  <2> QED BY <2>1, AppendProperties DEF Undo
<1>4. run' = NoRun /\ UNCHANGED <<anchor, first, dropped, selected>>
  BY DEF Undo, histVars
<1>5. Caret' \in Place /\ run' \in Place
  BY <1>2, <1>4, Places DEF Caret
<1>6. TypeOK'
  BY <1>1, <1>2, <1>3, <1>4, <1>5, StepsAreSteps DEF TypeOK, IInv
<1> QED BY <1>1, <1>3, <1>4, <1>6 DEF IInv, FilledSteps, RunHasStep, Recorded

LEMMA RedoKeeps == ASSUME IInv, Redo PROVE IInv' /\ Recorded
<1> DEFINE n == Len(redo)
<1>1. redo \in Seq(Filled) /\ redo # <<>> /\ n \in Nat \ {0}
  BY EmptySeq DEF IInv, FilledSteps, Redo
<1>2. Last(redo) \in Filled
  BY <1>1, ElementOfSeq DEF Last
<1>3. redo' \in Seq(Filled)
  <2>1. n - 1 \in Int /\ \A i \in 1..n - 1 : i \in 1..n
    BY <1>1
  <2> HIDE DEF n
  <2>2. \A i \in 1..n - 1 : redo[i] \in Filled
    BY <1>1, <2>1, ElementOfSeq DEF n
  <2>3. SubSeq(redo, 1, n - 1) \in Seq(Filled)
    BY <2>1, <2>2, SubSeqProperties
  <2> QED BY <2>3 DEF Redo, Front, n
<1>4. text' \in Text /\ text' # <<>> /\ line' \in Nat /\ col' \in Nat
  BY <1>2, FilledText DEF Redo, Restore
<1>5. undo' \in Seq(Filled) /\ Len(undo') <= MaxUndo /\ dropped' \in BOOLEAN /\ PushUndo
  BY Pushed DEF Redo
<1>6. run' = NoRun /\ UNCHANGED <<anchor, first, selected>>
  BY DEF Redo
<1>7. Caret' \in Place /\ run' \in Place
  BY <1>4, <1>6, Places DEF Caret
<1>8. TypeOK'
  BY <1>3, <1>4, <1>5, <1>6, <1>7, StepsAreSteps DEF TypeOK, IInv
<1> QED BY <1>3, <1>5, <1>6, <1>8 DEF IInv, FilledSteps, RunHasStep, Recorded

LEMMA MoveKeeps ==
    ASSUME IInv, UNCHANGED <<text, undo, redo, first, dropped>>, line' \in Nat, col' \in Nat,
           anchor' \in Place, run' \in {run, NoRun}, selected' \in BOOLEAN
    PROVE  IInv' /\ Recorded
<1>1. Caret' \in Place /\ run' \in Place
  BY Places DEF Caret, IInv, TypeOK
<1>2. TypeOK'
  BY <1>1 DEF TypeOK, IInv
<1> QED BY <1>2 DEF IInv, FilledSteps, RunHasStep, Recorded, Kept

LEMMA MoveToKeeps ==
    ASSUME IInv, NEW p \in Positions, MoveTo(p) \/ DragSelect(p) \/ MoveToWithSelect(p)
    PROVE  IInv' /\ Recorded
<1>1. p[1] \in Nat /\ p[2] \in Nat
  BY TextsAssumption DEF Positions
<1>2. Caret \in Place /\ anchor \in Place /\ NoAnchor \in Place /\ selected \in BOOLEAN
  BY Facts, Places DEF IInv, TypeOK
<1>3. CASE MoveTo(p)
  BY <1>1, <1>2, <1>3, MoveKeeps DEF MoveTo, histVars
<1>4. CASE DragSelect(p) \/ MoveToWithSelect(p)
  BY <1>1, <1>2, <1>4, MoveKeeps DEF DragSelect, MoveToWithSelect, Selected, Extended
<1> QED BY <1>3, <1>4

LEMMA SelectRangeKeeps ==
    ASSUME IInv, NEW p \in Positions, NEW q \in Positions, SelectRange(p, q)
    PROVE  IInv' /\ Recorded
<1>1. /\ p \in Place /\ q[1] \in Nat /\ q[2] \in Nat /\ NoAnchor \in Place
  BY TextsAssumption, Places DEF Positions, Place
<1> QED BY <1>1, MoveKeeps DEF SelectRange, Selected

LEMMA DeselectKeeps == ASSUME IInv, Deselect PROVE IInv' /\ Recorded
<1>1. line \in Nat /\ col \in Nat /\ NoAnchor \in Place /\ selected \in BOOLEAN
  BY Facts, Places DEF IInv, TypeOK
<1> QED BY <1>1, MoveKeeps DEF Deselect, stackVars, histVars
-----------------------------------------------------------------------------
(* The theorems.                                                           *)

LEMMA InitKeeps == Init => IInv /\ FirstTextIsKept
<1> SUFFICES ASSUME Init PROVE IInv /\ FirstTextIsKept
  OBVIOUS
<1>1. text \in Text /\ text # <<>> /\ first = text /\ first \in Texts
  BY TextsAssumption DEF Init, Text
<1>2. /\ undo = <<>> /\ redo = <<>> /\ anchor = NoAnchor /\ run = NoRun
      /\ line = 1 /\ col = 0 /\ dropped = FALSE /\ selected = FALSE
  BY DEF Init
<1>3. Caret \in Place /\ anchor \in Place /\ run \in Place
  BY <1>2, Places DEF Caret
<1>4. Len(undo) <= MaxUndo
  BY <1>2, EmptySeq, MaxUndoAssumption
<1>5. undo \in Seq(Filled) /\ redo \in Seq(Filled) /\ undo \in Seq(Step) /\ redo \in Seq(Step)
  BY <1>2, EmptySeq
<1> QED BY <1>1, <1>2, <1>3, <1>4, <1>5
        DEF IInv, TypeOK, FilledSteps, RunHasStep, FirstTextIsKept

LEMMA NextKeeps == ASSUME IInv, Next PROVE IInv' /\ Recorded
<1>1. CASE Insert
  BY <1>1, InsertKeeps
<1>2. CASE Backspace \/ Delete
  BY <1>2, BackspaceKeeps, DeleteKeeps
<1>3. CASE DeleteLine \/ DuplicateLine \/ MoveLineUp \/ MoveLineDown
  BY <1>3, DeleteLineKeeps, DuplicateLineKeeps, MoveLineUpKeeps, MoveLineDownKeeps
<1>4. CASE Undo \/ Redo \/ Deselect
  BY <1>4, UndoKeeps, RedoKeeps, DeselectKeeps
<1>5. Parts \subseteq TextLines
  BY Ins DEF Parts
<1>6. ASSUME NEW ins \in Parts, InsertText(ins) PROVE IInv' /\ Recorded
  BY <1>5, <1>6, InsertTextKeeps
<1>7. ASSUME NEW indent \in 0..1, InsertNewline(indent) PROVE IInv' /\ Recorded
  BY <1>7, InsertNewlineKeeps
<1>8. ASSUME NEW p \in Positions, NEW q \in Positions, SelectRange(p, q)
      PROVE  IInv' /\ Recorded
  BY <1>8, SelectRangeKeeps
<1>9. ASSUME NEW p \in Positions, NEW q \in Positions, NEW ins \in Parts,
             ReplaceSpan(p, q, ins)
      PROVE  IInv' /\ Recorded
  BY <1>5, <1>9, ReplaceSpanKeeps
<1>10. ASSUME NEW t \in SameLines, ReplaceMatches(t) \/ IndentLines(t)
       PROVE  IInv' /\ Recorded
  BY <1>10, ReplaceMatchesKeeps, IndentLinesKeeps
<1>11. ASSUME NEW t \in SameLines, NEW c \in 0..MaxLen, ToggleComment(t, c)
       PROVE  IInv' /\ Recorded
  <2>1. c \in Nat
    BY TextsAssumption
  <2> QED BY <1>11, <2>1, ToggleCommentKeeps
<1>12. ASSUME NEW p \in Positions, MoveTo(p) \/ DragSelect(p) \/ MoveToWithSelect(p)
       PROVE  IInv' /\ Recorded
  BY <1>12, MoveToKeeps
<1> QED BY <1>1, <1>2, <1>3, <1>4, <1>6, <1>7, <1>8, <1>9, <1>10, <1>11, <1>12 DEF Next

LEMMA IdleKeeps == ASSUME IInv, UNCHANGED vars PROVE IInv'
BY DEF vars, docVars, stackVars, histVars, IInv, TypeOK, FilledSteps, RunHasStep, Caret

LEMMA Invariance == Spec => []IInv
<1>1. IInv /\ [Next]_vars => IInv'
  BY NextKeeps, IdleKeeps
<1> QED BY <1>1, InitKeeps, PTL DEF Spec

\* Text, caret, selection and steps keep their types, and the undo stack its limit,
\* for any loaded text, any limit and any length of lines.
THEOREM TypeCorrect == Spec => []TypeOK
<1>1. IInv => TypeOK
  BY DEF IInv
<1> QED BY <1>1, Invariance, PTL

\* Undoing everything gives the loaded text back until the stack was full once: no
\* edit, typing run or redo is without a step or replaces the oldest one.
THEOREM FirstTextCorrect == Spec => []FirstTextIsKept
<1>1. FirstTextIsKept <=> (~dropped => first = Oldest)
  BY DEF FirstTextIsKept, Oldest
<1>2. ASSUME IInv, FirstTextIsKept, Next PROVE FirstTextIsKept'
  <2>1. Recorded
    BY <1>2, NextKeeps
  <2>2. CASE PushUndo
    <3>1. undo' # <<>> /\ (~dropped' => ~dropped /\ Head(undo').text = Oldest)
      BY <1>2, <2>2, Pushed
    <3> QED BY <1>1, <1>2, <2>1, <3>1 DEF Recorded, FirstTextIsKept
  <2>3. CASE Undo
    <3>1. Oldest' = Oldest /\ dropped' = dropped /\ first' = first
      BY <1>2, <2>3, Undone DEF Undo, histVars
    <3> QED BY <1>1, <1>2, <3>1 DEF FirstTextIsKept, Oldest
  <2>4. CASE Kept
    BY <1>2, <2>1, <2>4 DEF Recorded, Kept, FirstTextIsKept
  <2> QED BY <2>1, <2>2, <2>3, <2>4 DEF Recorded
<1>3. IInv /\ FirstTextIsKept /\ [Next]_vars => FirstTextIsKept'
  <2>1. ASSUME FirstTextIsKept, UNCHANGED vars PROVE FirstTextIsKept'
    BY <2>1 DEF vars, docVars, stackVars, histVars, FirstTextIsKept
  <2> QED BY <1>2, <2>1
<1> QED BY <1>3, InitKeeps, Invariance, PTL DEF Spec
-----------------------------------------------------------------------------
(* The caret.                                                              *)

\* A step's caret is a position of the step's text, for every step of a stack.
CaretFits(s)    == InText(s.text, <<s.line, s.col>>)
FitSteps(stack) == \A i \in 1..Len(stack) : CaretFits(stack[i])

\* Until something is selected there is no anchor, so every edit works at the caret.
CaretInv ==
    ~selected => /\ anchor = NoAnchor /\ InText(text, Caret)
                 /\ FitSteps(undo) /\ FitSteps(redo)

LEMMA Unselected ==
    ASSUME CaretInv, ~selected
    PROVE  /\ ~HasSelection /\ From = Caret /\ To = Caret /\ anchor = NoAnchor
           /\ InText(text, Caret) /\ FitSteps(undo) /\ FitSteps(redo)
BY DEF CaretInv, HasSelection, From, To

\* Behind a part in the middle stands what stands behind it, and it ends as it ends.
LEMMA EndOfMiddle ==
    ASSUME NEW a \in Seq(Nat), NEW b \in Seq(Nat), NEW c \in Seq(Nat), b # <<>>
    PROVE  /\ Len(a \o b \o c) = Len(a) + Len(b) + Len(c)
           /\ Len(a) + Len(b) \in 1..Len(a \o b \o c)
           /\ (a \o b \o c)[Len(a) + Len(b)] = b[Len(b)]
<1> DEFINE two == a \o b
           k   == Len(a) + Len(b)
<1>1. Len(a) \in Nat /\ Len(b) \in Nat \ {0} /\ Len(c) \in Nat
  BY EmptySeq, LenProperties
<1>2. /\ two \in Seq(Nat) /\ Len(two) = k
      /\ \A i \in 1..k : two[i] = IF i <= Len(a) THEN a[i] ELSE b[i - Len(a)]
  BY ConcatProperties
<1>3. k \in 1..k /\ ~(k <= Len(a)) /\ k - Len(a) = Len(b)
  BY <1>1
<1>4. two[k] = b[Len(b)]
  BY <1>2, <1>3
<1> HIDE DEF two, k
<1>5. /\ Len(two \o c) = k + Len(c)
      /\ \A i \in 1..k + Len(c) : (two \o c)[i] = IF i <= k THEN two[i] ELSE c[i - k]
  BY <1>2, ConcatProperties
<1>6. k \in 1..k + Len(c) /\ k \in Nat
  BY <1>1, <1>3
<1>7. (two \o c)[k] = b[Len(b)]
  BY <1>4, <1>5, <1>6
<1> QED BY <1>5, <1>6, <1>7 DEF two, k

\* What was put between two positions ends where the caret is set: there is as
\* much text before it on its line as the last part is long.
LEMMA SpliceCaret ==
    ASSUME NEW t \in Text, NEW p \in Place, NEW q \in Place, InText(t, p), InText(t, q),
           NEW ins \in TextLines
    PROVE  InText(Splice(t, p, q, ins), After(p, ins))
<1> DEFINE n    == Len(ins)
           head == p[2] + ins[1]
           tail == t[q[1]] - q[2]
           body == IF n = 1 THEN <<head + tail>>
                   ELSE <<head>> \o SubSeq(ins, 2, n - 1) \o <<ins[n] + tail>>
           before == SubSeq(t, 1, p[1] - 1)
           after  == SubSeq(t, q[1] + 1, Len(t))
           u      == before \o body \o after
<1> HIDE DEF u
<1>1. t \in Seq(Nat) /\ Len(t) \in Nat
  BY TextIsNats, LenProperties
<1>2. n \in Nat \ {0} /\ ins \in Seq(Nat)
  BY EmptySeq DEF TextLines
<1>3. ins[1] \in Nat /\ ins[n] \in Nat
  BY <1>2, ElementOfSeq
<1>4. /\ p[1] \in 1..Len(t) /\ p[2] \in Nat
      /\ q[1] \in 1..Len(t) /\ q[2] \in 0..t[q[1]] /\ t[q[1]] \in Nat
  BY <1>1, ElementOfSeq DEF InText, Place
<1>5. head \in Nat /\ tail \in Nat
  <2> HIDE DEF body, before, after, n
  <2> QED BY <1>3, <1>4
<1>6. before \in Seq(Nat) /\ Len(before) = p[1] - 1 /\ after \in Seq(Nat)
  <2>1. /\ p[1] - 1 \in Int /\ p[1] - 1 <= Len(t) /\ q[1] + 1 \in Nat \ {0}
        /\ Len(t) \in Int /\ 1 \in Nat \ {0}
    BY <1>1, <1>4
  <2> HIDE DEF head, tail, body
  <2>2. before \in Seq(Nat) /\ Len(before) = IF 1 <= p[1] - 1 THEN p[1] - 1 - 1 + 1 ELSE 0
    BY <1>1, <2>1, PartOfText
  <2>3. after \in Seq(Nat)
    BY <1>1, <2>1, PartOfText
  <2>4. Len(before) = p[1] - 1
    <3> HIDE DEF before
    <3> QED BY <2>2, <1>4
  <2> QED BY <2>2, <2>3, <2>4
<1> HIDE DEF head, tail, before, after
<1>7. ASSUME body \in Seq(Nat), body # <<>>
        PROVE  /\ Len(before) + Len(body) \in 1..Len(u)
               /\ u[Len(before) + Len(body)] = body[Len(body)]
  <2> HIDE DEF body
  <2> QED BY <1>6, <1>7, EndOfMiddle DEF u
<1>8. CASE n = 1
  <2>1. body = <<head + tail>> /\ body \in Seq(Nat) /\ body # <<>> /\ Len(body) = 1
        /\ body[1] = head + tail
    BY <1>5, <1>8
  <2> HIDE DEF body
  <2>2. Len(before) + Len(body) = p[1]
    BY <2>1, <1>6, <1>4
  <2>3. p[1] \in 1..Len(u) /\ u[p[1]] = head + tail
    BY <2>1, <2>2, <1>7
  <2>4. head \in 0..u[p[1]]
    BY <2>3, <1>5
  <2>5. After(p, ins) = <<p[1], head>>
    BY <1>8 DEF After, head
  <2>6. InText(u, <<p[1], head>>)
    BY <2>3, <2>4 DEF InText
  <2> QED BY <2>5, <2>6 DEF Splice, u, body, before, after, head, tail
<1>9. CASE n # 1
  <2> DEFINE mid == SubSeq(ins, 2, n - 1)
             end == ins[n] + tail
  <2>0. n - 1 \in Int /\ n - 1 <= n /\ 2 \in Nat \ {0} /\ n >= 2
    <3> HIDE DEF n
    <3> QED BY <1>2, <1>9
  <2>1. mid \in Seq(Nat) /\ Len(mid) = n - 2
    <3>1. /\ mid \in Seq(Nat)
          /\ Len(mid) = IF 2 <= n - 1 THEN n - 1 - 2 + 1 ELSE 0
      BY <1>2, <2>0, PartOfText
    <3> HIDE DEF mid, n
    <3> QED BY <3>1, <2>0, <1>2
  <2>2. <<head>> \in Seq(Nat) /\ <<head>> # <<>> /\ Len(<<head>>) = 1
    BY <1>5
  <2>3. end \in Nat
    BY <1>3, <1>5
  <2> HIDE DEF end
  <2>4. <<end>> \in Seq(Nat) /\ <<end>> # <<>> /\ Len(<<end>>) = 1 /\ <<end>>[1] = end
    BY <2>3
  <2>5. body = (<<head>> \o mid) \o <<end>>
    BY <1>9 DEF body, mid, end
  <2> HIDE DEF body, mid
  <2>6. <<head>> \o mid \in Seq(Nat) /\ Len(<<head>> \o mid) = n - 1
    <3>1. <<head>> \o mid \in Seq(Nat) /\ Len(<<head>> \o mid) = 1 + Len(mid)
      BY <2>1, <2>2, ConcatProperties
    <3> HIDE DEF n
    <3> QED BY <3>1, <2>1, <1>2
  <2>7. body \in Seq(Nat) /\ body # <<>> /\ Len(body) = n /\ body[n] = end
    <3> DEFINE l == <<head>> \o mid
    <3> HIDE DEF l
    <3>1. l \in Seq(Nat) /\ Len(l) = n - 1
      BY <2>6 DEF l
    <3>2. body = l \o <<end>>
      BY <2>5 DEF l
    <3>3. /\ body \in Seq(Nat) /\ Len(body) = n - 1 + 1
          /\ \A i \in 1..n - 1 + 1 :
               body[i] = IF i <= n - 1 THEN l[i] ELSE <<end>>[i - (n - 1)]
      BY <3>1, <3>2, <2>4, ConcatProperties
    <3>4. Len(body) = n /\ n \in 1..n - 1 + 1 /\ ~(n <= n - 1) /\ n - (n - 1) = 1
      <4> HIDE DEF n
      <4> QED BY <3>3, <1>2
    <3>5. body[n] = end
      BY <3>3, <3>4, <2>4
    <3>6. body # <<>>
      BY <3>3, <3>4, <1>2, EmptySeq
    <3> QED BY <3>3, <3>4, <3>5, <3>6
  <2>8. Len(before) + Len(body) = p[1] + n - 1
    <3> HIDE DEF n
    <3> QED BY <2>7, <1>2, <1>4, <1>6
  <2>9. p[1] + n - 1 \in 1..Len(u) /\ u[p[1] + n - 1] = end
    BY <2>7, <2>8, <1>7
  <2>10. ins[n] \in 0..u[p[1] + n - 1]
    <3>1. end = ins[n] + tail
      BY DEF end
    <3> HIDE DEF n
    <3> QED BY <3>1, <2>9, <1>3, <1>5
  <2>11. After(p, ins) = <<p[1] + n - 1, ins[n]>>
    BY <1>9 DEF After
  <2>12. InText(u, <<p[1] + n - 1, ins[n]>>)
    <3> HIDE DEF n
    <3> QED BY <2>9, <2>10 DEF InText
  <2> QED BY <2>11, <2>12 DEF Splice, u, body, before, after, head, tail
<1> QED BY <1>8, <1>9
-----------------------------------------------------------------------------
\* An undo step is pushed with the caret of the text it records.
LEMMA PushFits ==
    ASSUME IInv, FitSteps(undo), InText(text, Caret), PushUndo
    PROVE  FitSteps(undo')
<1> DEFINE step   == Snapshot(text, Caret)
           longer == Append(undo, step)
<1>1. undo \in Seq(Filled) /\ Len(undo) \in Nat
  BY LenProperties DEF IInv, FilledSteps
<1>2. step \in Filled /\ CaretFits(step)
  <2>1. step \in Filled
    BY FilledStep DEF IInv
  <2>2. step.text = text /\ <<step.line, step.col>> = Caret
    BY DEF Snapshot, Caret
  <2> HIDE DEF step
  <2> QED BY <2>1, <2>2 DEF CaretFits
<1> HIDE DEF step
<1>3. /\ longer \in Seq(Filled) /\ longer # <<>> /\ Len(longer) = Len(undo) + 1
      /\ \A i \in 1..Len(undo) : longer[i] = undo[i]
      /\ longer[Len(undo) + 1] = step
  BY <1>1, <1>2, AppendProperties
<1> HIDE DEF longer
<1>4. undo' = Tail(longer) \/ undo' = longer
  BY DEF PushUndo, PushedTo, longer, step
<1>5. FitSteps(longer)
  <2> SUFFICES ASSUME NEW i \in 1..Len(longer) PROVE CaretFits(longer[i])
    BY DEF FitSteps
  <2>1. i \in 1..Len(undo) \/ i = Len(undo) + 1
    BY <1>1, <1>3
  <2> QED BY <2>1, <1>2, <1>3 DEF FitSteps
<1>6. FitSteps(Tail(longer))
  <2> DEFINE rest == Tail(longer)
  <2>1. /\ Len(rest) = Len(longer) - 1
        /\ \A i \in 1..Len(rest) : rest[i] = longer[i + 1]
    BY <1>3, HeadTailProperties
  <2> HIDE DEF rest
  <2> SUFFICES ASSUME NEW i \in 1..Len(rest) PROVE CaretFits(rest[i])
    BY DEF FitSteps, rest
  <2>2. i + 1 \in 1..Len(longer)
    BY <2>1, <1>1, <1>3
  <2> QED BY <2>1, <2>2, <1>5 DEF FitSteps
<1> QED BY <1>4, <1>5, <1>6

\* What an edit must say of its text and caret while nothing was selected.
LEMMA CaretChange ==
    ASSUME IInv, CaretInv, NEW t, NEW p, NEW sel, Change(t, p, sel),
           ~selected => InText(t, p) /\ sel = NoAnchor
    PROVE  CaretInv'
<1> SUFFICES ASSUME ~selected' PROVE anchor' = NoAnchor /\ InText(text', Caret')
                                     /\ FitSteps(undo') /\ FitSteps(redo')
  BY DEF CaretInv, NoAnchor, Nowhere
<1>1. ~selected /\ PushUndo /\ redo' = <<>> /\ text' = t /\ anchor' = sel
      /\ line' = p[1] /\ col' = p[2]
  BY DEF Change
<1>2. InText(text', Caret')
  BY <1>1 DEF InText, Caret
<1>3. FitSteps(undo')
  BY <1>1, Unselected, PushFits
<1>4. FitSteps(redo')
  <2>1. Len(redo') = 0
    BY <1>1, EmptySeq
  <2> QED BY <2>1 DEF FitSteps
<1> QED BY <1>1, <1>2, <1>3, <1>4

\* The usual edit, seen from the caret.
LEMMA CaretSplice ==
    ASSUME IInv, CaretInv, NEW p \in Place, NEW q \in Place, NEW ins \in TextLines, NEW sel,
           NEW c, ~selected => /\ InText(text, p) /\ InText(text, q) /\ sel = NoAnchor
                               /\ c = After(p, ins),
           Change(Splice(text, p, q, ins), c, sel)
    PROVE  CaretInv'
<1>1. ASSUME ~selected PROVE InText(Splice(text, p, q, ins), c)
  BY <1>1, SpliceCaret DEF IInv, TypeOK
<1> QED BY <1>1, CaretChange
\* An edit that changes neither text nor caret, or only ends the run.
LEMMA CaretStays ==
    ASSUME CaretInv, UNCHANGED <<text, line, col, anchor, selected>>,
           undo' = undo, redo' \in {redo, <<>>}
    PROVE  CaretInv'
<1>1. FitSteps(<<>>)
  BY EmptySeq DEF FitSteps
<1> QED BY <1>1 DEF CaretInv, Caret, InText, NoAnchor, Nowhere

LEMMA CaretInsert == ASSUME IInv, CaretInv, Insert PROVE CaretInv'
<1> DEFINE t == Splice(text, From, To, <<1>>)
           p == After(From, <<1>>)
<1>1. /\ text' = t /\ line' = p[1] /\ col' = p[2] /\ anchor' = NoAnchor
      /\ (PushUndo \/ undo' = undo) /\ redo' \in {<<>>, redo} /\ selected' = selected
  BY DEF Insert
<1> SUFFICES ASSUME ~selected PROVE InText(text', Caret') /\ FitSteps(undo') /\ FitSteps(redo')
  BY <1>1 DEF CaretInv, NoAnchor, Nowhere
<1>2. From = Caret /\ To = Caret /\ Caret \in Place /\ InText(text, Caret)
  BY Unselected, Facts DEF IInv
<1>3. InText(t, p)
  BY <1>2, Ins, SpliceCaret DEF IInv, TypeOK
<1> HIDE DEF t, p
<1>4. InText(text', Caret')
  BY <1>1, <1>3 DEF InText, Caret
<1>5. FitSteps(undo')
  BY <1>1, Unselected, PushFits
<1>6. FitSteps(<<>>)
  BY EmptySeq DEF FitSteps
<1> QED BY <1>1, <1>4, <1>5, <1>6, Unselected

LEMMA CaretInsertText ==
    ASSUME IInv, CaretInv, NEW ins \in TextLines, InsertText(ins) PROVE CaretInv'
<1>1. From \in Place /\ To \in Place /\ InText(text, From) /\ InText(text, To)
  BY RangeType DEF InsertText, Change, IInv
<1>2. ~selected => (IF HasSelection THEN NoAnchor ELSE anchor) = NoAnchor
  BY Unselected
<1> QED BY <1>1, <1>2, CaretSplice DEF InsertText

LEMMA CaretInsertNewline ==
    ASSUME IInv, CaretInv, NEW indent \in Nat, InsertNewline(indent) PROVE CaretInv'
<1>1. From \in Place /\ To \in Place /\ InText(text, From) /\ InText(text, To)
  BY RangeType DEF InsertNewline, Change, IInv
<1>2. From[1] \in Nat /\ From[1] + 2 - 1 = From[1] + 1
  BY <1>1 DEF Place
<1>3. After(From, <<0, indent>>) = <<From[1] + 1, indent>>
  BY <1>2 DEF After
<1> QED BY <1>1, <1>3, Ins, CaretSplice DEF InsertNewline

\* Without a selection nothing is deleted between its ends, and the caret stays.
LEMMA CaretDeleteSelection ==
    ASSUME IInv, CaretInv, DeleteSelection PROVE CaretInv'
<1>1. From \in Place /\ To \in Place /\ InText(text, From) /\ InText(text, To)
  BY RangeType DEF DeleteSelection, Change, IInv
<1>2. ~selected => After(From, <<0>>) = From
  BY Unselected, Facts DEF After, Caret, IInv
<1> QED BY <1>1, <1>2, Ins, CaretSplice DEF DeleteSelection

\* What is deleted begins where the caret is set.
LEMMA CaretDeleted ==
    ASSUME IInv, CaretInv, NEW p \in Place, NEW q \in Place, InText(text, p), InText(text, q),
           Change(Splice(text, p, q, << 0 >>), p, anchor)
    PROVE  CaretInv'
<1>1. p = <<p[1], p[2] + 0>>
  BY DEF Place
<1>2. After(p, <<0>>) = p
  BY <1>1 DEF After
<1>3. ~selected => anchor = NoAnchor
  BY Unselected
<1> QED BY <1>2, <1>3, Ins, CaretSplice

LEMMA CaretBackspace == ASSUME IInv, CaretInv, Backspace PROVE CaretInv'
<1>1. CASE DeleteSelection
  BY <1>1, CaretDeleteSelection
<1>2. CASE /\ col > 0
           /\ Change(Splice(text, <<line, col - 1>>, Caret, <<0>>), <<line, col - 1>>, anchor)
  <2>1. InText(text, Caret) /\ Caret \in Place
    BY <1>2, Facts DEF Change, Usable, IInv
  <2>2. <<line, col - 1>> \in Place /\ InText(text, <<line, col - 1>>)
    BY <1>2, <2>1, Facts DEF InText, Caret, Place, IInv
  <2> QED BY <1>2, <2>1, <2>2, CaretDeleted
<1>3. CASE line > 1 /\ BackspaceJoins
  <2>1. InText(text, Caret) /\ Caret \in Place
    BY <1>3, Facts DEF BackspaceJoins, Change, Usable, IInv
  <2>2. line - 1 \in 1..Len(text)
    BY <1>3, <2>1, Facts DEF InText, Caret, IInv
  <2>3. /\ <<line - 1, text[line - 1]>> \in Place
        /\ InText(text, <<line - 1, text[line - 1]>>)
    BY <2>2, Facts DEF InText, Place, IInv
  <2> QED BY <1>3, <2>1, <2>3, CaretDeleted DEF BackspaceJoins
<1>4. CASE BeginChange
  BY <1>4, CaretStays DEF BeginChange, docVars, histVars
<1> QED BY <1>1, <1>2, <1>3, <1>4 DEF Backspace

LEMMA CaretDelete == ASSUME IInv, CaretInv, Delete PROVE CaretInv'
<1>1. CASE DeleteSelection
  BY <1>1, CaretDeleteSelection
<1>2. CASE /\ col < text[line]
           /\ Change(Splice(text, Caret, <<line, col + 1>>, <<0>>), Caret, anchor)
  <2>1. InText(text, Caret) /\ Caret \in Place
    BY <1>2, Facts DEF Change, Usable, IInv
  <2>2. <<line, col + 1>> \in Place /\ InText(text, <<line, col + 1>>)
    BY <1>2, <2>1, Facts DEF InText, Caret, Place, IInv
  <2> QED BY <1>2, <2>1, <2>2, CaretDeleted
<1>3. CASE /\ line < Len(text)
           /\ Change(Splice(text, Caret, <<line + 1, 0>>, <<0>>), Caret, anchor)
  <2>1. InText(text, Caret) /\ Caret \in Place
    BY <1>3, Facts DEF Change, Usable, IInv
  <2>2. <<line + 1, 0>> \in Place /\ InText(text, <<line + 1, 0>>)
    BY <1>3, <2>1, Facts DEF InText, Caret, Place, IInv
  <2> QED BY <1>3, <2>1, <2>2, CaretDeleted
<1>4. CASE BeginChange
  BY <1>4, CaretStays DEF BeginChange, docVars, histVars
<1> QED BY <1>1, <1>2, <1>3, <1>4 DEF Delete

LEMMA CaretReplaceSpan ==
    ASSUME IInv, CaretInv, NEW p \in Positions, NEW q \in Positions, NEW ins \in TextLines,
           ReplaceSpan(p, q, ins)
    PROVE  CaretInv'
<1>1. p \in Place /\ q \in Place /\ InText(text, p) /\ InText(text, q)
  BY TextsAssumption DEF Positions, Place
<1> QED BY <1>1, CaretSplice DEF ReplaceSpan

LEMMA ClampedInText == ASSUME NEW c \in Int, NEW n \in Nat PROVE Clamp(c, n) \in 0..n
BY DEF Clamp

\* The lines get another length: the caret's column is clamped to its line.
LEMMA CaretReplaceMatches ==
    ASSUME IInv, CaretInv, NEW t \in SameLines, ReplaceMatches(t) PROVE CaretInv'
<1>1. line \in 1..Len(text) /\ col \in Nat
  BY Facts DEF ReplaceMatches, Change, Usable, InText, Caret, IInv
<1>2. Len(t) = Len(text) /\ t[line] \in Nat
  BY <1>1, SameLinesType DEF IInv
<1>3. InText(t, <<line, Clamp(col, t[line])>>)
  <2>1. col \in Int
    BY <1>1
  <2>2. Clamp(col, t[line]) \in 0..t[line]
    BY <1>2, <2>1, ClampedInText
  <2> QED BY <1>1, <1>2, <2>2 DEF InText
<1> QED BY <1>3, CaretChange DEF ReplaceMatches

LEMMA CaretToggleComment ==
    ASSUME IInv, CaretInv, NEW t \in SameLines, NEW c, ToggleComment(t, c) PROVE CaretInv'
<1>1. line \in 1..Len(text)
  BY Facts DEF ToggleComment, Change, Usable, InText, Caret, IInv
<1>2. Len(t) = Len(text)
  BY SameLinesType DEF IInv
<1>3. InText(t, <<line, c>>)
  BY <1>1, <1>2 DEF InText, ToggleComment
<1> QED BY <1>3, CaretChange DEF ToggleComment

LEMMA CaretIndentLines ==
    ASSUME IInv, CaretInv, NEW t \in SameLines, IndentLines(t) PROVE CaretInv'
<1> DEFINE moved(p) == <<p[1], Clamp(p[2] + t[p[1]] - text[p[1]], t[p[1]])>>
<1>1. Change(t, moved(To), IF HasSelection THEN moved(From) ELSE anchor)
  BY DEF IndentLines
<1>2. To[1] \in 1..Len(text) /\ To[2] \in Nat
  BY <1>1, RangeType DEF Change, Place, IInv, InText
<1>3. Len(t) = Len(text) /\ \A i \in 1..Len(text) : t[i] \in Nat /\ text[i] \in Nat
  BY SameLinesType, Facts DEF IInv
<1>4. InText(t, moved(To))
  <2>1. t[To[1]] \in Nat /\ To[2] + t[To[1]] - text[To[1]] \in Int
    BY <1>2, <1>3
  <2>2. Clamp(To[2] + t[To[1]] - text[To[1]], t[To[1]]) \in 0..t[To[1]]
    BY <2>1, ClampedInText
  <2> QED BY <1>2, <1>3, <2>2 DEF InText
<1> HIDE DEF moved
<1>5. ~selected => (IF HasSelection THEN moved(From) ELSE anchor) = NoAnchor
  BY Unselected
<1> QED BY <1>1, <1>4, <1>5, CaretChange

\* A line goes: the caret is at the start of a line there still is.
LEMMA CaretDeleteLine == ASSUME IInv, CaretInv, DeleteLine PROVE CaretInv'
<1>0. ~selected => anchor = NoAnchor
  BY Unselected
<1>1. CASE Len(text) = 1
  <2>1. Change(<<0>>, <<1, 0>>, anchor)
    BY <1>1 DEF DeleteLine
  <2>2. InText(<<0>>, <<1, 0>>)
    BY DEF InText
  <2> QED BY <2>1, <2>2, <1>0, CaretChange
<1>2. CASE Len(text) # 1
  <2> DEFINE u == RemoveAt(text, line)
             n == Clamp(line, Len(text) - 1)
  <2>1. Change(u, <<n, 0>>, anchor)
    BY <1>2 DEF DeleteLine
  <2>2. line \in 1..Len(text) /\ Len(text) \in Nat \ {0}
    BY <2>1, Facts DEF Change, Usable, InText, Caret, IInv
  <2>3. Len(text) - 1 \in Nat /\ Len(text) - 1 >= 1 /\ line \in Nat \ {0}
    <3> DEFINE m == Len(text)
    <3>1. m \in Nat \ {0} /\ m # 1 /\ line \in 1..m
      BY <1>2, <2>2
    <3> HIDE DEF m
    <3>2. m - 1 \in Nat /\ m - 1 >= 1 /\ line \in Nat \ {0}
      BY <3>1
    <3> QED BY <3>2 DEF m
  <2>4. u \in TextLines /\ Len(u) = Len(text) - 1
    <3>1. text \in Seq(Nat)
      BY Facts DEF IInv
    <3> DEFINE before == SubSeq(text, 1, line - 1)
               after  == SubSeq(text, line + 1, Len(text))
    <3>2. /\ line - 1 \in Int /\ line - 1 <= Len(text) /\ line + 1 \in Nat \ {0}
          /\ Len(text) \in Int /\ 1 \in Nat \ {0} /\ Len(text) <= Len(text)
      BY <2>2
    <3>3. /\ before \in Seq(Nat)
          /\ Len(before) = IF 1 <= line - 1 THEN line - 1 - 1 + 1 ELSE 0
      BY <3>1, <3>2, PartOfText
    <3>4. /\ after \in Seq(Nat)
          /\ Len(after) = IF line + 1 <= Len(text) THEN Len(text) - (line + 1) + 1 ELSE 0
      BY <3>1, <3>2, PartOfText
    <3> HIDE DEF before, after
    <3>5. Len(before) = line - 1 /\ Len(after) = Len(text) - line
      BY <2>2, <3>3, <3>4
    <3>6. /\ before \o after \in Seq(Nat)
          /\ Len(before \o after) = Len(before) + Len(after)
      BY <3>3, <3>4, ConcatProperties
    <3>7. u = before \o after
      BY DEF RemoveAt, before, after
    <3> HIDE DEF u
    <3>8. Len(u) = Len(text) - 1 /\ u \in Seq(Nat)
      <4>1. u \in Seq(Nat) /\ Len(u) = Len(before) + Len(after)
        BY <3>6, <3>7
      <4>2. Len(u) = line - 1 + (Len(text) - line)
        BY <4>1, <3>5
      <4> QED BY <4>1, <4>2, <2>2
    <3>9. Len(u) # 0
      BY <3>8, <2>3
    <3> QED BY <3>8, <3>9, EmptySeq DEF TextLines
  <2>5. n \in 1..Len(text) - 1
    BY <2>3 DEF Clamp
  <2> HIDE DEF u, n
  <2>6. u[n] \in Nat /\ n \in 1..Len(u)
    <3>1. u \in Seq(Nat) /\ n \in 1..Len(u)
      BY <2>4, <2>5 DEF TextLines
    <3> QED BY <3>1, ElementOfSeq
  <2>7. InText(u, <<n, 0>>)
    BY <2>6 DEF InText
  <2> QED BY <2>1, <2>7, <1>0, CaretChange
<1> QED BY <1>1, <1>2

\* Without a selection the block is the caret's line.
LEMMA OneLineBlock ==
    ASSUME IInv, CaretInv, ~selected
    PROVE  /\ From[1] = line /\ To[1] = line
           /\ line \in 1..Len(text) /\ col \in 0..text[line]
           /\ Block \in Seq(Nat) /\ Block # <<>> /\ Len(Block) = 1 /\ Block[1] = text[line]
<1>1. From = Caret /\ To = Caret /\ InText(text, Caret)
  BY Unselected
<1>2. line \in 1..Len(text) /\ col \in 0..text[line] /\ From[1] = line /\ To[1] = line
  BY <1>1 DEF Caret, InText
<1>3. text \in Seq(Nat) /\ Len(text) \in Nat
  BY Facts DEF IInv
<1>4. Block = SubSeq(text, line, line)
  BY <1>2 DEF Block
<1>5. line \in Int /\ \A i \in line..line : text[i] \in Nat
  <2>1. line \in Int /\ \A i \in line..line : i \in 1..Len(text)
    BY <1>2, <1>3
  <2> QED BY <2>1, <1>3, ElementOfSeq
<1>6. /\ SubSeq(text, line, line) \in Seq(Nat)
      /\ Len(SubSeq(text, line, line)) = IF line <= line THEN line - line + 1 ELSE 0
      /\ \A i \in 1..line - line + 1 : SubSeq(text, line, line)[i] = text[line + i - 1]
  BY <1>5, SubSeqProperties
<1>7. line - line + 1 = 1 /\ line <= line /\ line + 1 - 1 = line
  BY <1>5
<1>8. Block \in Seq(Nat) /\ Len(Block) = 1 /\ Block[1] = text[line]
  BY <1>4, <1>6, <1>7
<1> QED BY <1>2, <1>8, EmptySeq

\* The parts of the text before and behind a line.
LEMMA Ends ==
    ASSUME NEW t \in Seq(Nat), NEW m \in Nat, m <= Len(t), NEW k \in Nat \ {0}
    PROVE  /\ SubSeq(t, 1, m) \in Seq(Nat) /\ Len(SubSeq(t, 1, m)) = m
           /\ SubSeq(t, k, Len(t)) \in Seq(Nat)
<1>1. /\ SubSeq(t, 1, m) \in Seq(Nat)
      /\ Len(SubSeq(t, 1, m)) = IF 1 <= m THEN m - 1 + 1 ELSE 0
  <2>1. 1 \in Nat \ {0} /\ m \in Int
    OBVIOUS
  <2> QED BY <2>1, PartOfText
<1>2. Len(SubSeq(t, 1, m)) = m
  <2> DEFINE l == Len(SubSeq(t, 1, m))
  <2>1. l = IF 1 <= m THEN m - 1 + 1 ELSE 0
    BY <1>1
  <2> HIDE DEF l
  <2>2. l = m
    BY <2>1
  <2> QED BY <2>2 DEF l
<1>3. SubSeq(t, k, Len(t)) \in Seq(Nat)
  <2>1. Len(t) \in Int /\ Len(t) <= Len(t)
    BY LenProperties
  <2> QED BY <2>1, PartOfText
<1> QED BY <1>1, <1>2, <1>3

LEMMA CaretDuplicateLine == ASSUME IInv, CaretInv, DuplicateLine PROVE CaretInv'
<1> DEFINE before == SubSeq(text, 1, line)
           after  == SubSeq(text, line + 1, Len(text))
           u      == before \o Block \o after
<1>1. ASSUME ~selected PROVE InText(u, <<line + 1, col>>)
  <2>1. /\ line \in 1..Len(text) /\ col \in 0..text[line]
        /\ Block \in Seq(Nat) /\ Block # <<>> /\ Len(Block) = 1 /\ Block[1] = text[line]
    BY <1>1, OneLineBlock
  <2>2. text \in Seq(Nat) /\ line \in Nat /\ line <= Len(text) /\ line + 1 \in Nat \ {0}
    BY <2>1, Facts DEF IInv
  <2>3. before \in Seq(Nat) /\ Len(before) = line /\ after \in Seq(Nat)
    BY <2>2, Ends
  <2> HIDE DEF before, after
  <2>4. line + 1 \in 1..Len(u) /\ u[line + 1] = text[line]
    <3>1. /\ Len(before) + Len(Block) \in 1..Len(u)
          /\ u[Len(before) + Len(Block)] = Block[Len(Block)]
      BY <2>1, <2>3, EndOfMiddle
    <3> QED BY <3>1, <2>1, <2>3
  <2> HIDE DEF u
  <2> QED BY <2>1, <2>4 DEF InText
<1>2. Change(SubSeq(text, 1, To[1]) \o Block \o SubSeq(text, To[1] + 1, Len(text)),
             <<To[1] + 1, col>>, NoAnchor)
  BY DEF DuplicateLine
<1>3. ~selected => /\ u = SubSeq(text, 1, To[1]) \o Block \o SubSeq(text, To[1] + 1, Len(text))
                   /\ <<To[1] + 1, col>> = <<line + 1, col>>
  BY OneLineBlock
<1> HIDE DEF u
<1> QED BY <1>1, <1>2, <1>3, CaretChange

LEMMA CaretMovesNothing ==
    ASSUME IInv, CaretInv, Change(text, Caret, anchor) PROVE CaretInv'
BY Unselected, CaretChange

LEMMA CaretMoveLineUp == ASSUME IInv, CaretInv, MoveLineUp PROVE CaretInv'
<1>1. CASE From[1] = 1
  BY <1>1, CaretMovesNothing DEF MoveLineUp
<1>2. CASE From[1] # 1
  <2> DEFINE before == SubSeq(text, 1, line - 2)
             above  == <<text[line - 1]>>
             after  == SubSeq(text, line + 1, Len(text))
             two    == before \o Block \o above
             u      == two \o after
  <2>1. ASSUME ~selected PROVE InText(u, <<line - 1, col>>)
    <3>1. /\ line \in 1..Len(text) /\ col \in 0..text[line] /\ line # 1
          /\ Block \in Seq(Nat) /\ Block # <<>> /\ Len(Block) = 1 /\ Block[1] = text[line]
      BY <1>2, <2>1, OneLineBlock
    <3>2. /\ text \in Seq(Nat) /\ line - 2 \in Nat /\ line - 2 <= Len(text)
          /\ line + 1 \in Nat \ {0} /\ line - 1 \in 1..Len(text)
      BY <3>1, Facts DEF IInv
    <3>3. before \in Seq(Nat) /\ Len(before) = line - 2 /\ after \in Seq(Nat)
      BY <3>2, Ends
    <3>4. text[line - 1] \in Nat
      BY <3>2, ElementOfSeq
    <3>5. above \in Seq(Nat)
      BY <3>4
    <3> HIDE DEF before, after, above
    <3>6. /\ Len(before) + Len(Block) \in 1..Len(two)
          /\ two[Len(before) + Len(Block)] = Block[Len(Block)]
      BY <3>1, <3>3, <3>5, EndOfMiddle
    <3>7. line - 2 + 1 = line - 1
      BY <3>2, <3>1
    <3>8. line - 1 \in 1..Len(two) /\ two[line - 1] = text[line]
      BY <3>1, <3>3, <3>6, <3>7
    <3>9. two \in Seq(Nat)
      <4>1. before \o Block \in Seq(Nat)
        BY <3>1, <3>3, ConcatProperties
      <4> QED BY <4>1, <3>5, ConcatProperties
    <3> HIDE DEF two
    <3>10. /\ Len(u) = Len(two) + Len(after) /\ Len(two) \in Nat /\ Len(after) \in Nat
           /\ \A i \in 1..Len(two) + Len(after) :
                u[i] = IF i <= Len(two) THEN two[i] ELSE after[i - Len(two)]
      BY <3>3, <3>9, ConcatProperties, LenProperties
    <3> HIDE DEF u
    <3>11. line - 1 \in 1..Len(u) /\ u[line - 1] = text[line]
      BY <3>8, <3>10
    <3> QED BY <3>1, <3>11 DEF InText
  <2>2. Change(SubSeq(text, 1, From[1] - 2) \o Block \o <<text[From[1] - 1]>>
                 \o SubSeq(text, To[1] + 1, Len(text)), <<From[1] - 1, col>>, NoAnchor)
    BY <1>2 DEF MoveLineUp
  <2>3. ~selected => /\ u = SubSeq(text, 1, From[1] - 2) \o Block \o <<text[From[1] - 1]>>
                              \o SubSeq(text, To[1] + 1, Len(text))
                     /\ <<From[1] - 1, col>> = <<line - 1, col>>
    BY OneLineBlock
  <2> HIDE DEF u
  <2> QED BY <2>1, <2>2, <2>3, CaretChange
<1> QED BY <1>1, <1>2

LEMMA CaretMoveLineDown == ASSUME IInv, CaretInv, MoveLineDown PROVE CaretInv'
<1>1. CASE To[1] = Len(text)
  BY <1>1, CaretMovesNothing DEF MoveLineDown
<1>2. CASE To[1] # Len(text)
  <2> DEFINE before == SubSeq(text, 1, line - 1)
             below  == <<text[line + 1]>>
             after  == SubSeq(text, line + 2, Len(text))
             two    == before \o below
             u      == two \o Block \o after
  <2>1. ASSUME ~selected PROVE InText(u, <<line + 1, col>>)
    <3>1. /\ line \in 1..Len(text) /\ col \in 0..text[line] /\ line # Len(text)
          /\ Block \in Seq(Nat) /\ Block # <<>> /\ Len(Block) = 1 /\ Block[1] = text[line]
      BY <1>2, <2>1, OneLineBlock
    <3>2. /\ text \in Seq(Nat) /\ line - 1 \in Nat /\ line - 1 <= Len(text)
          /\ line + 2 \in Nat \ {0} /\ line + 1 \in 1..Len(text)
      <4> DEFINE m == Len(text)
      <4>1. text \in Seq(Nat) /\ m \in Nat /\ line \in 1..m /\ line # m
        BY <3>1, Facts DEF IInv
      <4> HIDE DEF m
      <4>2. /\ line - 1 \in Nat /\ line - 1 <= m /\ line + 2 \in Nat \ {0}
            /\ line + 1 \in 1..m
        BY <4>1
      <4> QED BY <4>1, <4>2 DEF m
    <3>3. before \in Seq(Nat) /\ Len(before) = line - 1 /\ after \in Seq(Nat)
      BY <3>2, Ends
    <3>4. text[line + 1] \in Nat
      BY <3>2, ElementOfSeq
    <3>5. below \in Seq(Nat) /\ Len(below) = 1
      BY <3>4
    <3> HIDE DEF before, after, below
    <3>6. two \in Seq(Nat) /\ Len(two) = Len(before) + Len(below)
      BY <3>3, <3>5, ConcatProperties
    <3>7. Len(two) + 1 = line + 1
      <4> HIDE DEF two
      <4>1. Len(two) = line - 1 + 1 /\ line \in Int
        BY <3>1, <3>3, <3>5, <3>6
      <4> QED BY <4>1
    <3> HIDE DEF two
    <3>8. line + 1 \in 1..Len(u) /\ u[line + 1] = text[line]
      <4>1. /\ Len(two) + Len(Block) \in 1..Len(u)
            /\ u[Len(two) + Len(Block)] = Block[Len(Block)]
        BY <3>1, <3>3, <3>6, EndOfMiddle
      <4> QED BY <4>1, <3>1, <3>7
    <3> HIDE DEF u
    <3> QED BY <3>1, <3>8 DEF InText
  <2>2. Change(SubSeq(text, 1, From[1] - 1) \o <<text[To[1] + 1]>> \o Block
                 \o SubSeq(text, To[1] + 2, Len(text)), <<From[1] + 1, col>>, NoAnchor)
    BY <1>2 DEF MoveLineDown
  <2>3. ~selected => /\ u = SubSeq(text, 1, From[1] - 1) \o <<text[To[1] + 1]>> \o Block
                              \o SubSeq(text, To[1] + 2, Len(text))
                     /\ <<From[1] + 1, col>> = <<line + 1, col>>
    BY OneLineBlock
  <2> HIDE DEF u
  <2> QED BY <2>1, <2>2, <2>3, CaretChange
<1> QED BY <1>1, <1>2
-----------------------------------------------------------------------------
\* What comes back is a step that fits, and what is recorded for it fits.
LEMMA Popped ==
    ASSUME NEW stack \in Seq(Filled), stack # <<>>, FitSteps(stack)
    PROVE  CaretFits(Last(stack)) /\ FitSteps(Front(stack))
<1> DEFINE n == Len(stack)
<1>1. n \in Nat \ {0}
  BY EmptySeq
<1>2. CaretFits(Last(stack))
  BY <1>1 DEF FitSteps, Last
<1>3. Front(stack) = SubSeq(stack, 1, n - 1)
  BY DEF Front
<1>4. 1 \in Int /\ n - 1 \in Int /\ \A i \in 1..n - 1 : stack[i] \in Filled /\ i \in 1..n
  BY <1>1, ElementOfSeq
<1>5. /\ Len(SubSeq(stack, 1, n - 1)) = IF 1 <= n - 1 THEN (n - 1) - 1 + 1 ELSE 0
      /\ \A i \in 1..(n - 1) - 1 + 1 : SubSeq(stack, 1, n - 1)[i] = stack[1 + i - 1]
  <2> HIDE DEF n
  <2> QED BY <1>4, SubSeqProperties
<1>6. \A i \in 1..n : CaretFits(stack[i])
  BY DEF FitSteps
<1> DEFINE rest == SubSeq(stack, 1, n - 1)
<1>7. Len(rest) = n - 1 /\ \A i \in 1..n - 1 : rest[i] = stack[i]
  <2> HIDE DEF n
  <2> QED BY <1>1, <1>5
<1> HIDE DEF rest
<1>8. FitSteps(rest)
  BY <1>1, <1>6, <1>7 DEF FitSteps
<1> QED BY <1>2, <1>3, <1>8 DEF rest

LEMMA CaretUndo == ASSUME IInv, CaretInv, Undo PROVE CaretInv'
<1> DEFINE step == Snapshot(text, Caret)
<1>1. /\ undo # <<>> /\ Restore(Last(undo)) /\ undo' = Front(undo)
      /\ redo' = Append(redo, step) /\ anchor' = anchor /\ selected' = selected
      /\ undo \in Seq(Filled) /\ redo \in Seq(Filled)
  BY DEF Undo, histVars, IInv, FilledSteps
<1> SUFFICES ASSUME ~selected
             PROVE  InText(text', Caret') /\ FitSteps(undo') /\ FitSteps(redo')
  BY <1>1 DEF CaretInv, NoAnchor, Nowhere
<1>2. InText(text', Caret') /\ FitSteps(undo')
  <2>1. CaretFits(Last(undo)) /\ FitSteps(Front(undo))
    BY <1>1, Unselected, Popped
  <2> QED BY <2>1, <1>1 DEF CaretFits, InText, Caret, Restore
<1>3. FitSteps(redo')
  <2>1. step \in Filled /\ CaretFits(step)
    <3>1. step \in Filled
      BY FilledStep DEF IInv
    <3>2. step.text = text /\ <<step.line, step.col>> = Caret
      BY DEF Snapshot, Caret
    <3> HIDE DEF step
    <3> QED BY <3>1, <3>2, Unselected DEF CaretFits
  <2> HIDE DEF step
  <2> DEFINE longer == Append(redo, step)
  <2>2. /\ Len(longer) = Len(redo) + 1 /\ Len(redo) \in Nat
        /\ \A i \in 1..Len(redo) : longer[i] = redo[i]
        /\ longer[Len(redo) + 1] = step
    BY <1>1, <2>1, AppendProperties, LenProperties
  <2>3. redo' = longer
    BY <1>1
  <2> HIDE DEF longer
  <2>4. FitSteps(longer)
    <3> SUFFICES ASSUME NEW i \in 1..Len(longer) PROVE CaretFits(longer[i])
      BY DEF FitSteps
    <3>1. i \in 1..Len(redo) \/ i = Len(redo) + 1
      BY <2>2
    <3> QED BY <3>1, <2>1, <2>2, Unselected DEF FitSteps
  <2> QED BY <2>3, <2>4
<1> QED BY <1>2, <1>3

LEMMA CaretRedo == ASSUME IInv, CaretInv, Redo PROVE CaretInv'
<1>1. /\ redo # <<>> /\ Restore(Last(redo)) /\ redo' = Front(redo) /\ PushUndo
      /\ anchor' = anchor /\ selected' = selected /\ redo \in Seq(Filled)
  BY DEF Redo, IInv, FilledSteps
<1> SUFFICES ASSUME ~selected
             PROVE  InText(text', Caret') /\ FitSteps(undo') /\ FitSteps(redo')
  BY <1>1 DEF CaretInv, NoAnchor, Nowhere
<1>2. InText(text', Caret') /\ FitSteps(redo')
  <2>1. CaretFits(Last(redo)) /\ FitSteps(Front(redo))
    BY <1>1, Unselected, Popped
  <2> QED BY <2>1, <1>1 DEF CaretFits, InText, Caret, Restore
<1>3. FitSteps(undo')
  BY <1>1, Unselected, PushFits
<1> QED BY <1>2, <1>3

\* Moving sets the caret to a position, and every selection is remembered.
LEMMA CaretMoves ==
    ASSUME IInv, CaretInv, NEW p \in Positions, MoveTo(p) \/ DragSelect(p) \/ MoveToWithSelect(p)
    PROVE  CaretInv'
<1>1. CASE MoveTo(p)
  <2>1. InText(text, p)
    BY DEF Positions
  <2>2. /\ line' = p[1] /\ col' = p[2] /\ anchor' = NoAnchor /\ text' = text
        /\ undo' = undo /\ redo' = redo /\ selected' = selected
    BY <1>1 DEF MoveTo, histVars
  <2>3. InText(text', Caret')
    BY <2>1, <2>2 DEF InText, Caret
  <2> QED BY <2>2, <2>3 DEF CaretInv, NoAnchor, Nowhere
<1>2. CASE DragSelect(p) \/ MoveToWithSelect(p)
  BY <1>2 DEF DragSelect, MoveToWithSelect, Selected, CaretInv
<1> QED BY <1>1, <1>2

LEMMA CaretDeselects ==
    ASSUME CaretInv,
           Deselect \/ \E p, q \in Positions : SelectRange(p, q)
    PROVE  CaretInv'
<1>1. CASE Deselect
  <2>1. anchor' = NoAnchor /\ UNCHANGED <<text, line, col, undo, redo, selected>>
    BY <1>1 DEF Deselect, stackVars, histVars
  <2> QED BY <2>1 DEF CaretInv, Caret, InText, NoAnchor, Nowhere
<1>2. CASE \E p, q \in Positions : SelectRange(p, q)
  BY <1>2 DEF SelectRange, Selected, CaretInv
<1> QED BY <1>1, <1>2

LEMMA CaretNext == ASSUME IInv, CaretInv, Next PROVE CaretInv'
<1>1. CASE Insert \/ Backspace \/ Delete
  BY <1>1, CaretInsert, CaretBackspace, CaretDelete
<1>2. CASE DeleteLine \/ DuplicateLine \/ MoveLineUp \/ MoveLineDown
  BY <1>2, CaretDeleteLine, CaretDuplicateLine, CaretMoveLineUp, CaretMoveLineDown
<1>3. CASE Undo \/ Redo
  BY <1>3, CaretUndo, CaretRedo
<1>4. CASE Deselect \/ \E p, q \in Positions : SelectRange(p, q)
  BY <1>4, CaretDeselects
<1>5. Parts \subseteq TextLines
  BY Ins DEF Parts
<1>6. ASSUME NEW ins \in Parts, InsertText(ins) PROVE CaretInv'
  BY <1>5, <1>6, CaretInsertText
<1>7. ASSUME NEW indent \in 0..1, InsertNewline(indent) PROVE CaretInv'
  BY <1>7, CaretInsertNewline
<1>8. ASSUME NEW p \in Positions, NEW q \in Positions, NEW ins \in Parts,
             ReplaceSpan(p, q, ins)
      PROVE  CaretInv'
  BY <1>5, <1>8, CaretReplaceSpan
<1>9. ASSUME NEW t \in SameLines, ReplaceMatches(t) \/ IndentLines(t) PROVE CaretInv'
  BY <1>9, CaretReplaceMatches, CaretIndentLines
<1>10. ASSUME NEW t \in SameLines, NEW c \in 0..MaxLen, ToggleComment(t, c) PROVE CaretInv'
  BY <1>10, CaretToggleComment
<1>11. ASSUME NEW p \in Positions, MoveTo(p) \/ DragSelect(p) \/ MoveToWithSelect(p)
       PROVE  CaretInv'
  BY <1>11, CaretMoves
<1> QED BY <1>1, <1>2, <1>3, <1>4, <1>6, <1>7, <1>8, <1>9, <1>10, <1>11 DEF Next

\* Without selections the caret, and the caret of every step that undo or redo can
\* bring back, is a position of its text, whatever lines were deleted, moved, joined,
\* replaced or brought back, for any text, any limit and any length of lines.
THEOREM CaretCorrect == Spec => []CaretIsInText
<1>1. Init => CaretInv
  <2> SUFFICES ASSUME Init PROVE CaretInv
    OBVIOUS
  <2>1. /\ text \in TextLines /\ line = 1 /\ col = 0 /\ anchor = NoAnchor
        /\ undo = <<>> /\ redo = <<>>
    BY InitKeeps, Facts DEF Init, IInv
  <2>2. 1 \in 1..Len(text) /\ text[1] \in Nat
    <3>1. text \in Seq(Nat) /\ Len(text) \in Nat \ {0}
      BY <2>1, EmptySeq DEF TextLines
    <3>2. 1 \in 1..Len(text)
      BY <3>1
    <3> QED BY <3>1, <3>2, ElementOfSeq
  <2>3. InText(text, Caret)
    BY <2>1, <2>2 DEF InText, Caret
  <2>4. FitSteps(<<>>)
    BY EmptySeq DEF FitSteps
  <2> QED BY <2>1, <2>3, <2>4 DEF CaretInv
<1>2. IInv /\ CaretInv /\ [Next]_vars => CaretInv'
  <2>1. ASSUME CaretInv, UNCHANGED vars PROVE CaretInv'
    BY <2>1, CaretStays DEF vars, docVars, stackVars, histVars
  <2> QED BY <2>1, CaretNext
<1>3. IInv /\ CaretInv => CaretIsInText
  <2> SUFFICES ASSUME IInv, CaretInv, ~selected
               PROVE  /\ InText(text, Caret)
                      /\ \A i \in DOMAIN (undo \o redo) : CaretFits((undo \o redo)[i])
    BY DEF CaretIsInText, StepsLandInText, CaretStaysInText, CaretFits
  <2>1. InText(text, Caret) /\ FitSteps(undo) /\ FitSteps(redo)
    BY Unselected
  <2>2. undo \in Seq(Filled) /\ redo \in Seq(Filled)
    BY DEF IInv, FilledSteps
  <2> DEFINE both == undo \o redo
  <2>3. /\ both \in Seq(Filled) /\ Len(both) = Len(undo) + Len(redo)
        /\ \A i \in 1..Len(undo) + Len(redo) :
             both[i] = IF i <= Len(undo) THEN undo[i] ELSE redo[i - Len(undo)]
    BY <2>2, ConcatProperties
  <2>4. DOMAIN both = 1..Len(both) /\ Len(undo) \in Nat /\ Len(redo) \in Nat
    BY <2>2, <2>3, LenProperties
  <2> HIDE DEF both
  <2>5. ASSUME NEW i \in DOMAIN both PROVE CaretFits(both[i])
    <3>1. i \in 1..Len(undo) + Len(redo)
      BY <2>3, <2>4
    <3>2. CASE i <= Len(undo)
      <4>1. i \in 1..Len(undo) /\ both[i] = undo[i]
        BY <3>1, <3>2, <2>3, <2>4
      <4> QED BY <4>1, <2>1 DEF FitSteps
    <3>3. CASE ~(i <= Len(undo))
      <4>1. i - Len(undo) \in 1..Len(redo) /\ both[i] = redo[i - Len(undo)]
        BY <3>1, <3>3, <2>3, <2>4
      <4> QED BY <4>1, <2>1 DEF FitSteps
    <3> QED BY <3>2, <3>3
  <2> QED BY <2>1, <2>5 DEF both
<1> QED BY <1>1, <1>2, <1>3, Invariance, PTL DEF Spec
-----------------------------------------------------------------------------
(***************************************************************************)
(* Folding.  The stack of the scan holds the lines that nothing at their   *)
(* depth or above has followed yet.                                        *)
(***************************************************************************)
FoldText == Seq(FoldLineType) \ {<<>>}

LEMMA FoldTextIs ==
    ASSUME NEW t \in FoldText
    PROVE  /\ Len(t) \in Nat \ {0} /\ Lines(t) = 0..(Len(t) - 1) /\ t \in Seq(FoldLineType)
           /\ \A l \in Lines(t) : /\ t[l + 1] \in FoldLineType
                                  /\ Indent(t, l) \in Nat \cup {-1} /\ t[l + 1].segs \in Nat \ {0}
<1>1. t \in Seq(FoldLineType) /\ Len(t) \in Nat \ {0}
  BY EmptySeq, LenProperties DEF FoldText
<1>2. ASSUME NEW l \in Lines(t) PROVE t[l + 1] \in FoldLineType
  <2>1. l + 1 \in 1..Len(t)
    BY <1>1, <1>2 DEF Lines
  <2> QED BY ONLY <1>1, <2>1, ElementOfSeq
<1>3. ASSUME NEW l \in Lines(t) PROVE Indent(t, l) \in Nat \cup {-1} /\ t[l + 1].segs \in Nat \ {0}
  BY <1>2, <1>3 DEF FoldLineType, Indent, Empty
<1> QED BY <1>1, <1>2, <1>3 DEF Lines

\* The lines that are not blank, and of those above line n the ones below l that are
\* deeper, all that come between included.
FilledLines(t)   == {l \in Lines(t) : Indent(t, l) # Empty}
UnderTo(t, l, n) == {k \in FilledLines(t) :
                        /\ k > l /\ k < n
                        /\ \A j \in FilledLines(t) : l < j /\ j <= k => Indent(t, j) > Indent(t, l)}

\* Line l has not come to its end above line n.
OpenAt(t, l, n) ==
    /\ l \in FilledLines(t) /\ l < n
    /\ \A j \in FilledLines(t) : l < j /\ j < n => Indent(t, j) > Indent(t, l)

EndsAs(t, n, l, e) == e \in UnderTo(t, l, n) /\ \A k \in UnderTo(t, l, n) : k <= e

LastIs(t, n, last) ==
    /\ \A l \in FilledLines(t) : l < n => l <= last
    /\ last # -1 => last \in FilledLines(t) /\ last < n

OpenType == [start : Nat, indent : Nat]
ScanType == [stack : Seq(OpenType), done : SUBSET (Nat \X Int), last : Nat \cup {-1}]

StackIs(t, n, s) ==
    /\ s \in Seq(OpenType)
    /\ \A i \in 1..Len(s) : OpenAt(t, s[i].start, n) /\ s[i].indent = Indent(t, s[i].start)
    /\ \A i, j \in 1..Len(s) : i < j => s[i].start < s[j].start
    /\ \A l \in FilledLines(t) : OpenAt(t, l, n) => \E i \in 1..Len(s) : s[i].start = l

\* The blocks that came to their end above line n.
DoneIs(t, n, done) ==
    \A b : b \in done <=> \E l \in FilledLines(t), e \in FilledLines(t) :
                              b = <<l, e>> /\ l < n /\ ~OpenAt(t, l, n) /\ EndsAs(t, n, l, e)

FoldsKnow(t, n, a) == LastIs(t, n, a.last) /\ StackIs(t, n, a.stack) /\ DoneIs(t, n, a.done)

LEMMA FilledIs ==
    ASSUME NEW t \in FoldText
    PROVE  FilledLines(t) \subseteq 0..(Len(t) - 1) /\ \A l \in FilledLines(t) : l \in Nat /\ Indent(t, l) \in Nat
BY FoldTextIs DEF FilledLines, Empty

\* A line that is still open has under it all that came after it.
LEMMA OpenUnder ==
    ASSUME NEW t \in FoldText, NEW n \in Nat, NEW l, OpenAt(t, l, n), NEW last, LastIs(t, n, last), NEW e
    PROVE  EndsAs(t, n, l, e) <=> last > l /\ e = last
<1>1. /\ l \in FilledLines(t) /\ l \in Nat /\ l < n
      /\ \A j \in FilledLines(t) : l < j /\ j < n => Indent(t, j) > Indent(t, l)
      /\ \A j \in FilledLines(t) : j \in Nat /\ (j < n => j <= last)
      /\ last # -1 => last \in FilledLines(t) /\ last < n
  BY FilledIs DEF OpenAt, LastIs
<1>2. last \in FilledLines(t) /\ last < n /\ last \in Nat /\ l <= last
  <2>1. l <= last
    BY <1>1
  <2>2. last # -1
    BY <1>1, <2>1
  <2> QED BY <1>1, <2>1, <2>2
<1>3. ASSUME NEW k PROVE k \in UnderTo(t, l, n) <=> k \in FilledLines(t) /\ k > l /\ k < n
  <2>1. k \in UnderTo(t, l, n) => k \in FilledLines(t) /\ k > l /\ k < n
    BY DEF UnderTo
  <2>2. ASSUME k \in FilledLines(t), k > l, k < n PROVE k \in UnderTo(t, l, n)
    <3>1. ASSUME NEW j \in FilledLines(t), l < j, j <= k PROVE Indent(t, j) > Indent(t, l)
      <4>1. j \in Nat /\ k \in Nat
        BY <1>1, <2>2
      <4>2. j < n
        BY <2>2, <3>1, <4>1
      <4> QED BY <1>1, <3>1, <4>2
    <3> QED BY <2>2, <3>1 DEF UnderTo
  <2> QED BY <2>1, <2>2
<1>4. ASSUME EndsAs(t, n, l, e) PROVE last > l /\ e = last
  <2>1. e \in FilledLines(t) /\ e > l /\ e < n /\ e \in Nat
    BY <1>1, <1>3, <1>4 DEF EndsAs
  <2>2. e <= last
    BY <1>1, <2>1
  <2>3. last > l
    BY <1>1, <1>2, <2>1, <2>2
  <2>4. last <= e
    BY <1>2, <1>3, <1>4, <2>3 DEF EndsAs
  <2> QED BY <1>2, <2>1, <2>2, <2>3, <2>4
<1>5. ASSUME last > l, e = last PROVE EndsAs(t, n, l, e)
  <2>1. last \in UnderTo(t, l, n)
    BY <1>2, <1>3, <1>5
  <2>2. \A k \in UnderTo(t, l, n) : k <= last
    BY <1>1, <1>3
  <2> QED BY <1>5, <2>1, <2>2 DEF EndsAs
<1> QED BY <1>4, <1>5

\* What lies under a line that has ended does not grow.
LEMMA EndedUnder ==
    ASSUME NEW t \in FoldText, NEW n \in Nat, NEW l \in FilledLines(t), l < n, ~OpenAt(t, l, n)
    PROVE  ~OpenAt(t, l, n + 1) /\ UnderTo(t, l, n + 1) = UnderTo(t, l, n)
<1>1. PICK j \in FilledLines(t) : l < j /\ j < n /\ ~(Indent(t, j) > Indent(t, l))
  BY DEF OpenAt
<1>2. \A k \in FilledLines(t) : k \in Nat
  BY FilledIs
<1>3. ~OpenAt(t, l, n + 1)
  BY <1>1, <1>2 DEF OpenAt
<1>4. ASSUME NEW k \in FilledLines(t), k > l, k < n + 1, k \in UnderTo(t, l, n + 1) PROVE k < n
  BY <1>1, <1>2, <1>4 DEF UnderTo
<1>5. ASSUME NEW k PROVE k \in UnderTo(t, l, n + 1) <=> k \in UnderTo(t, l, n)
  <2>1. k \in UnderTo(t, l, n + 1) => k \in UnderTo(t, l, n)
    BY <1>2, <1>4 DEF UnderTo
  <2>2. k \in UnderTo(t, l, n) => k \in UnderTo(t, l, n + 1)
    BY <1>2 DEF UnderTo
  <2> QED BY <2>1, <2>2
<1> QED BY <1>3, <1>5

LEMMA OpenStack ==
    ASSUME NEW s \in Seq(OpenType)
    PROVE  /\ Len(s) \in Nat /\ DOMAIN s = 1..Len(s)
           /\ \A i \in 1..Len(s) : s[i] \in OpenType /\ s[i].indent \in Nat /\ s[i].start \in Nat
<1>1. Len(s) \in Nat /\ DOMAIN s = 1..Len(s)
  BY LenProperties
<1>2. ASSUME NEW i \in 1..Len(s) PROVE s[i] \in OpenType
  BY ElementOfSeq
<1>3. \A x \in OpenType : x.indent \in Nat /\ x.start \in Nat
  BY DEF OpenType
<1> QED BY <1>1, <1>2, <1>3

\* The first keep lines of the stack are less deep than d, and stay on it.
Cut(s, d, keep) ==
    /\ keep \in 0..Len(s)
    /\ \A i \in 1..keep : s[i].indent < d
    /\ \A i \in 1..Len(s) : i > keep => s[i].indent >= d
Ended(s, last, keep, ended) ==
    \A b : b \in ended <=> \E i \in 1..Len(s) : i > keep /\ last > s[i].start /\ b = <<s[i].start, last>>
PopsTo(s, last, d, p) ==
    \E keep \in 0..Len(s) : p.stack = SubSeq(s, 1, keep) /\ Cut(s, d, keep) /\ Ended(s, last, keep, p.ended)

LEMMA PopIs ==
    ASSUME NEW t \in FoldText, NEW n \in Nat, NEW s, StackIs(t, n, s), NEW last, NEW d \in Nat \cup {-1}
    PROVE  PopsTo(s, last, d, PopTo(s, last, d))
<1>1. /\ s \in Seq(OpenType) /\ Len(s) \in Nat /\ DOMAIN s = 1..Len(s)
      /\ \A i \in 1..Len(s) : s[i] \in OpenType /\ s[i].indent \in Nat /\ s[i].start \in Nat
  BY OpenStack DEF StackIs
<1>2. ASSUME NEW i \in 1..Len(s), NEW j \in 1..Len(s), i < j PROVE s[i].indent < s[j].indent
  <2>1. OpenAt(t, s[i].start, n) /\ OpenAt(t, s[j].start, n) /\ s[i].start < s[j].start
        /\ s[i].indent = Indent(t, s[i].start) /\ s[j].indent = Indent(t, s[j].start)
    BY <1>2 DEF StackIs
  <2>2. Indent(t, s[j].start) > Indent(t, s[i].start)
    BY ONLY <2>1 DEF OpenAt
  <2> QED BY <1>1, <2>1, <2>2
<1> DEFINE less == {0} \cup {i \in DOMAIN s : s[i].indent < d}
           keep == Max(less)
           gone == {s[i] : i \in keep + 1..Len(s)}
<1>3. PopTo(s, last, d) = [stack |-> SubSeq(s, 1, keep),
                           ended |-> {<<b.start, last>> : b \in {g \in gone : last > g.start}}]
  BY DEF PopTo
<1>4. keep \in less /\ \A y \in less : y <= keep
  <2>1. less \subseteq 0..Len(s) /\ less # {}
    BY <1>1
  <2> HIDE DEF less
  <2> QED BY <1>1, <2>1, Greatest
<1>5. keep \in 0..Len(s) /\ (keep # 0 => s[keep].indent < d)
  BY <1>1, <1>4
<1>6. ASSUME NEW i \in 1..Len(s), i > keep PROVE s[i].indent >= d
  <2>1. i \notin less
    <3>1. \A y \in less : y <= keep
      BY <1>4
    <3>2. keep \in Nat /\ i \in Nat /\ ~(i <= keep)
      BY <1>1, <1>5, <1>6
    <3> HIDE DEF less, keep
    <3> QED BY <3>1, <3>2
  <2>2. ~(s[i].indent < d)
    BY <1>1, <2>1
  <2> QED BY <1>1, <2>2
<1> HIDE DEF less, keep
<1>7. ASSUME NEW i \in 1..keep PROVE s[i].indent < d
  <2>1. i \in 1..Len(s) /\ keep \in 1..Len(s) /\ keep # 0
    BY <1>1, <1>5
  <2>2. CASE i = keep
    BY <1>5, <2>1, <2>2
  <2>3. CASE i # keep
    <3>1. i < keep
      BY <1>5, <2>1, <2>3
    <3>2. s[i].indent < s[keep].indent
      BY <1>2, <2>1, <3>1
    <3> QED BY <1>1, <1>5, <2>1, <3>2
  <2> QED BY <2>2, <2>3
<1>8. ASSUME NEW b
      PROVE  b \in {<<g.start, last>> : g \in {h \in gone : last > h.start}} <=>
                 \E i \in 1..Len(s) : i > keep /\ last > s[i].start /\ b = <<s[i].start, last>>
  <2>1. \A i : i \in keep + 1..Len(s) <=> i \in 1..Len(s) /\ i > keep
    BY <1>1, <1>5
  <2> QED BY <2>1
<1> DEFINE some == {<<g.start, last>> : g \in {h \in gone : last > h.start}}
<1>9. PopTo(s, last, d) = [stack |-> SubSeq(s, 1, keep), ended |-> some]
  BY <1>3
<1> HIDE DEF gone, some
<1>10. PopTo(s, last, d).stack = SubSeq(s, 1, keep) /\ PopTo(s, last, d).ended = some
  <2>1. PICK p : p = PopTo(s, last, d)
    OBVIOUS
  <2>2. PICK u : u = SubSeq(s, 1, keep)
    OBVIOUS
  <2>3. p = [stack |-> u, ended |-> some]
    BY <1>9, <2>1, <2>2
  <2>4. p.stack = u /\ p.ended = some
    BY ONLY <2>3
  <2> QED BY <2>1, <2>2, <2>4
<1>11. \A b : b \in some <=> \E i \in 1..Len(s) : i > keep /\ last > s[i].start /\ b = <<s[i].start, last>>
  BY <1>8 DEF some
<1>12. Cut(s, d, keep) /\ Ended(s, last, keep, some)
  BY <1>5, <1>6, <1>7, <1>11 DEF Cut, Ended
<1> QED BY <1>5, <1>10, <1>12 DEF PopsTo

LEMMA OpenNext ==
    ASSUME NEW t \in FoldText, NEW n \in FilledLines(t), NEW l \in FilledLines(t)
    PROVE  /\ OpenAt(t, l, n + 1) <=> l = n \/ (OpenAt(t, l, n) /\ Indent(t, n) > Indent(t, l))
           /\ OpenAt(t, l, n) /\ ~(Indent(t, n) > Indent(t, l)) => UnderTo(t, l, n + 1) = UnderTo(t, l, n)
<1>1. n \in Nat /\ l \in Nat /\ \A j \in FilledLines(t) : j \in Nat
  BY FilledIs
<1>2. l = n => OpenAt(t, l, n + 1)
  BY <1>1 DEF OpenAt
<1>3. l # n => (OpenAt(t, l, n + 1) <=> OpenAt(t, l, n) /\ Indent(t, n) > Indent(t, l))
  <2> SUFFICES ASSUME l # n PROVE OpenAt(t, l, n + 1) <=> OpenAt(t, l, n) /\ Indent(t, n) > Indent(t, l)
    OBVIOUS
  <2>1. \A j \in FilledLines(t) : j < n + 1 <=> j < n \/ j = n
    BY <1>1
  <2> QED BY <1>1, <2>1 DEF OpenAt
<1>4. ASSUME OpenAt(t, l, n), ~(Indent(t, n) > Indent(t, l)) PROVE UnderTo(t, l, n + 1) = UnderTo(t, l, n)
  <2>1. l < n
    BY <1>4 DEF OpenAt
  <2>2. ASSUME NEW k PROVE k \in UnderTo(t, l, n + 1) <=> k \in UnderTo(t, l, n)
    <3>1. k \in UnderTo(t, l, n + 1) => k # n
      BY <1>1, <1>4, <2>1 DEF UnderTo
    <3>2. k \in FilledLines(t) => (k < n + 1 <=> k < n \/ k = n)
      BY <1>1
    <3> QED BY <3>1, <3>2 DEF UnderTo
  <2> QED BY <2>2
<1> QED BY <1>2, <1>3, <1>4

LEMMA BlankLine ==
    ASSUME NEW t \in FoldText, NEW n \in Lines(t), Indent(t, n) = Empty, NEW a, FoldsKnow(t, n, a)
    PROVE  FoldsKnow(t, n + 1, a)
<1>1. n \in Nat /\ (\A j \in FilledLines(t) : j \in Nat) /\ n \notin FilledLines(t)
  BY FilledIs, FoldTextIs DEF FilledLines
<1>2. \A j \in FilledLines(t) : j < n + 1 <=> j < n
  BY <1>1
<1>3. \A l : OpenAt(t, l, n + 1) <=> OpenAt(t, l, n)
  BY <1>2 DEF OpenAt
<1>4. \A l : UnderTo(t, l, n + 1) = UnderTo(t, l, n)
  BY <1>2 DEF UnderTo
<1>5. \A l, e : EndsAs(t, n + 1, l, e) <=> EndsAs(t, n, l, e)
  BY <1>4 DEF EndsAs
<1>6. LastIs(t, n + 1, a.last)
  BY <1>2 DEF FoldsKnow, LastIs
<1>7. StackIs(t, n + 1, a.stack)
  BY <1>3 DEF FoldsKnow, StackIs
<1>8. DoneIs(t, n + 1, a.done)
  BY <1>2, <1>3, <1>5 DEF FoldsKnow, DoneIs
<1> QED BY <1>6, <1>7, <1>8 DEF FoldsKnow



LEMMA ScanStack ==
    ASSUME NEW t \in FoldText, NEW n \in FilledLines(t), NEW s, StackIs(t, n, s),
           NEW keep, Cut(s, Indent(t, n), keep)
    PROVE  StackIs(t, n + 1, Append(SubSeq(s, 1, keep), [start |-> n, indent |-> Indent(t, n)]))
<1>1. n \in Nat /\ Indent(t, n) \in Nat /\ \A j \in FilledLines(t) : j \in Nat /\ Indent(t, j) \in Nat
  BY FilledIs
<1>2. /\ s \in Seq(OpenType) /\ Len(s) \in Nat
      /\ \A i \in 1..Len(s) : s[i] \in OpenType
  BY LenProperties, ElementOfSeq DEF StackIs
<1>3. /\ keep \in 0..Len(s) /\ (\A i \in 1..keep : s[i].indent < Indent(t, n))
      /\ \A i \in 1..Len(s) : i > keep => s[i].indent >= Indent(t, n)
  BY DEF Cut
<1>4. PICK u : u = SubSeq(s, 1, keep)
  OBVIOUS
<1>5. PICK x \in OpenType : x = [start |-> n, indent |-> Indent(t, n)]
  BY <1>1 DEF OpenType
<1>6. PICK v : v = Append(u, x)
  OBVIOUS
<1>7. u \in Seq(OpenType) /\ Len(u) = keep /\ \A i \in 1..keep : u[i] = s[i]
  <2>1. \A i \in 1..keep : s[i] \in OpenType
    BY <1>2, <1>3
  <2> QED BY <1>2, <1>3, <1>4, <2>1, SubSeqProperties
<1>8. v \in Seq(OpenType) /\ Len(v) = keep + 1 /\ v[keep + 1] = x /\ \A i \in 1..keep : v[i] = s[i]
  BY <1>3, <1>6, <1>7, AppendProperties
<1>9. \A i \in 1..keep : i \in 1..Len(s)
  BY <1>2, <1>3
<1>10. \A i \in 1..Len(s) : /\ OpenAt(t, s[i].start, n) /\ s[i].indent = Indent(t, s[i].start)
                            /\ s[i].start \in FilledLines(t) /\ s[i].start < n
  BY DEF StackIs, OpenAt
<1>11. ASSUME NEW i \in 1..Len(v) PROVE OpenAt(t, v[i].start, n + 1) /\ v[i].indent = Indent(t, v[i].start)
  <2>1. CASE i = keep + 1
    BY <1>5, <1>8, <2>1, OpenNext
  <2>2. CASE i # keep + 1
    <3>1. i \in 1..keep /\ i \in 1..Len(s)
      BY <1>3, <1>8, <1>9, <2>2
    <3>2. Indent(t, n) > Indent(t, s[i].start)
      BY <1>1, <1>3, <1>10, <3>1
    <3> QED BY <1>8, <1>10, <3>1, <3>2, OpenNext
  <2> QED BY <2>1, <2>2
<1>12. ASSUME NEW i \in 1..Len(v), NEW j \in 1..Len(v), i < j PROVE v[i].start < v[j].start
  <2>1. i \in 1..keep
    BY <1>3, <1>8, <1>12
  <2>2. CASE j = keep + 1
    BY <1>5, <1>8, <1>9, <1>10, <2>1, <2>2
  <2>3. CASE j # keep + 1
    <3>1. j \in 1..keep
      BY <1>3, <1>8, <2>3
    <3> QED BY <1>8, <1>9, <1>12, <2>1, <3>1 DEF StackIs
  <2> QED BY <2>2, <2>3
<1>13. ASSUME NEW l \in FilledLines(t), OpenAt(t, l, n + 1) PROVE \E i \in 1..Len(v) : v[i].start = l
  <2>0. keep + 1 \in 1..Len(v) /\ \A i \in 1..keep : i \in 1..Len(v)
    BY <1>3, <1>8
  <2>1. CASE l = n
    BY <1>5, <1>8, <2>0, <2>1
  <2>2. CASE l # n
    <3>1. OpenAt(t, l, n) /\ Indent(t, n) > Indent(t, l)
      BY <1>13, <2>2, OpenNext
    <3>2. PICK i \in 1..Len(s) : s[i].start = l
      BY <3>1 DEF StackIs
    <3>3. ~(i > keep)
      BY <1>1, <1>3, <1>10, <3>1, <3>2
    <3>4. i \in 1..keep
      BY <1>3, <3>3
    <3> QED BY <1>8, <2>0, <3>2, <3>4
  <2> QED BY <2>1, <2>2
<1>14. StackIs(t, n + 1, v)
  BY <1>8, <1>11, <1>12, <1>13 DEF StackIs
<1> QED BY <1>4, <1>5, <1>6, <1>14

LEMMA ScanDone ==
    ASSUME NEW t \in FoldText, NEW n \in FilledLines(t), NEW s, StackIs(t, n, s), NEW last, LastIs(t, n, last),
           NEW keep, Cut(s, Indent(t, n), keep), NEW done, DoneIs(t, n, done), NEW ended, Ended(s, last, keep, ended)
    PROVE  DoneIs(t, n + 1, done \cup ended)
<1>1. n \in Nat /\ Indent(t, n) \in Nat /\ \A j \in FilledLines(t) : j \in Nat /\ Indent(t, j) \in Nat
  BY FilledIs
<1>2. /\ keep \in 0..Len(s) /\ (\A i \in 1..keep : s[i].indent < Indent(t, n))
      /\ \A i \in 1..Len(s) : i > keep => s[i].indent >= Indent(t, n)
  BY DEF Cut
<1>3. \A i \in 1..Len(s) : /\ OpenAt(t, s[i].start, n) /\ s[i].indent = Indent(t, s[i].start)
                           /\ s[i].start \in FilledLines(t) /\ s[i].start < n
  BY DEF StackIs, OpenAt
<1>4. \A l \in FilledLines(t) : OpenAt(t, l, n) => \E i \in 1..Len(s) : s[i].start = l
  BY DEF StackIs
<1> DEFINE Closed(b) == \E l \in FilledLines(t), e \in FilledLines(t) :
                            b = <<l, e>> /\ l < n + 1 /\ ~OpenAt(t, l, n + 1) /\ EndsAs(t, n + 1, l, e)
<1>5. ASSUME NEW b, b \in done PROVE Closed(b)
  <2>1. PICK l \in FilledLines(t), e \in FilledLines(t) :
            b = <<l, e>> /\ l < n /\ ~OpenAt(t, l, n) /\ EndsAs(t, n, l, e)
    BY <1>5 DEF DoneIs
  <2>2. ~OpenAt(t, l, n + 1) /\ UnderTo(t, l, n + 1) = UnderTo(t, l, n)
    BY <1>1, <2>1, EndedUnder
  <2>3. l < n + 1 /\ EndsAs(t, n + 1, l, e)
    BY <1>1, <2>1, <2>2 DEF EndsAs
  <2> QED BY <2>1, <2>2, <2>3
<1>6. ASSUME NEW b, b \in ended PROVE Closed(b)
  <2>1. PICK i \in 1..Len(s) : i > keep /\ last > s[i].start /\ b = <<s[i].start, last>>
    BY <1>6 DEF Ended
  <2>2. PICK l \in FilledLines(t) : l = s[i].start
    BY <1>3
  <2>3. OpenAt(t, l, n) /\ l < n /\ ~(Indent(t, n) > Indent(t, l)) /\ l \in Nat
    <3>1. OpenAt(t, l, n) /\ l < n /\ s[i].indent = Indent(t, l) /\ l \in Nat
      BY <1>1, <1>3, <2>2
    <3>2. s[i].indent >= Indent(t, n)
      BY <1>2, <2>1
    <3> QED BY <1>1, <3>1, <3>2
  <2>4. ~OpenAt(t, l, n + 1) /\ UnderTo(t, l, n + 1) = UnderTo(t, l, n)
    <3>1. l # n
      BY <1>1, <2>3
    <3> QED BY <2>3, <3>1, OpenNext
  <2>5. EndsAs(t, n, l, last)
    BY <1>1, <2>1, <2>2, <2>3, OpenUnder
  <2>6. last \in FilledLines(t) /\ EndsAs(t, n + 1, l, last)
    BY <2>4, <2>5 DEF EndsAs, UnderTo
  <2>7. l < n + 1
    BY <1>1, <2>3
  <2>8. b = <<l, last>>
    BY <2>1, <2>2
  <2> QED BY <2>4, <2>6, <2>7, <2>8
<1>7. ASSUME NEW b, Closed(b) PROVE b \in done \/ b \in ended
  <2>1. PICK l \in FilledLines(t), e \in FilledLines(t) :
            b = <<l, e>> /\ l < n + 1 /\ ~OpenAt(t, l, n + 1) /\ EndsAs(t, n + 1, l, e)
    BY <1>7
  <2>2. l # n /\ ~(OpenAt(t, l, n) /\ Indent(t, n) > Indent(t, l))
    BY <2>1, OpenNext
  <2>3. l < n
    BY <1>1, <2>1, <2>2
  <2>4. CASE ~OpenAt(t, l, n)
    <3>1. UnderTo(t, l, n + 1) = UnderTo(t, l, n)
      BY <1>1, <2>3, <2>4, EndedUnder
    <3>2. EndsAs(t, n, l, e)
      BY <2>1, <3>1 DEF EndsAs
    <3> QED BY <2>1, <2>3, <2>4, <3>2 DEF DoneIs
  <2>5. CASE OpenAt(t, l, n)
    <3>1. UnderTo(t, l, n + 1) = UnderTo(t, l, n)
      BY <2>2, <2>5, OpenNext
    <3>2. EndsAs(t, n, l, e)
      BY <2>1, <3>1 DEF EndsAs
    <3>3. last > l /\ e = last
      BY <1>1, <2>5, <3>2, OpenUnder
    <3>4. PICK i \in 1..Len(s) : s[i].start = l
      BY <1>4, <2>5
    <3>5. i > keep
      <4>1. s[i].indent = Indent(t, l)
        BY <1>3, <3>4
      <4>2. ~(i \in 1..keep)
        BY <1>1, <1>2, <2>2, <2>5, <4>1
      <4> QED BY <1>2, <4>2
    <3> QED BY <2>1, <3>3, <3>4, <3>5 DEF Ended
  <2> QED BY <2>4, <2>5
<1> HIDE DEF Closed
<1>8. \A b : b \in done \cup ended <=> Closed(b)
  BY <1>5, <1>6, <1>7
<1> QED BY <1>8 DEF Closed, DoneIs

LEMMA PopType ==
    ASSUME NEW s \in Seq(OpenType), NEW last \in Nat \cup {-1}, NEW d \in Nat \cup {-1}
    PROVE  PopTo(s, last, d).stack \in Seq(OpenType) /\ PopTo(s, last, d).ended \in SUBSET (Nat \X Int)
<1>1. /\ Len(s) \in Nat /\ DOMAIN s = 1..Len(s)
      /\ \A i \in 1..Len(s) : s[i] \in OpenType /\ s[i].start \in Nat
  BY OpenStack
<1> DEFINE less == {0} \cup {i \in DOMAIN s : s[i].indent < d}
           keep == Max(less)
           gone == {s[i] : i \in keep + 1..Len(s)}
<1>2. keep \in 0..Len(s)
  <2>1. less \subseteq 0..Len(s) /\ less # {}
    BY <1>1
  <2> HIDE DEF less
  <2> QED BY <1>1, <2>1, Greatest
<1>3. PopTo(s, last, d) = [stack |-> SubSeq(s, 1, keep),
                           ended |-> {<<b.start, last>> : b \in {g \in gone : last > g.start}}]
  BY DEF PopTo
<1> HIDE DEF less, keep
<1>4. SubSeq(s, 1, keep) \in Seq(OpenType)
  <2>1. \A i \in 1..keep : s[i] \in OpenType
    BY <1>1, <1>2
  <2> QED BY <1>2, <2>1, SubSeqProperties
<1>5. \A g \in gone : g.start \in Nat
  <2>1. \A i \in keep + 1..Len(s) : i \in 1..Len(s)
    BY <1>1, <1>2
  <2> QED BY <1>1, <2>1
<1> HIDE DEF gone
<1>6. {<<b.start, last>> : b \in {g \in gone : last > g.start}} \in SUBSET (Nat \X Int)
  BY <1>5
<1> QED BY <1>3, <1>4, <1>6

NoScan == [stack |-> <<>>, done |-> {}, last |-> -1]

LEMMA ScanLineType ==
    ASSUME NEW t \in FoldText, NEW a \in ScanType, NEW l \in Lines(t)
    PROVE  ScanLine(t, a, l) \in ScanType
<1>1. Indent(t, l) \in Nat \cup {-1} /\ l \in Nat
  BY FoldTextIs
<1>2. CASE Indent(t, l) = Empty
  BY <1>2 DEF ScanLine
<1>3. CASE Indent(t, l) # Empty
  <2>1. Indent(t, l) \in Nat
    BY <1>1, <1>3 DEF Empty
  <2>2. PICK p : p = PopTo(a.stack, a.last, Indent(t, l))
    OBVIOUS
  <2>3. p.stack \in Seq(OpenType) /\ p.ended \in SUBSET (Nat \X Int)
    <3>1. a.stack \in Seq(OpenType) /\ a.last \in Nat \cup {-1}
      BY DEF ScanType
    <3> QED BY ONLY <1>1, <2>2, <3>1, PopType
  <2>4. PICK x \in OpenType : x = [start |-> l, indent |-> Indent(t, l)]
    BY <1>1, <2>1 DEF OpenType
  <2>5. Append(p.stack, x) \in Seq(OpenType)
    BY <2>3, <2>4, AppendProperties
  <2>6. ScanLine(t, a, l) = [stack |-> Append(p.stack, x), done |-> a.done \cup p.ended, last |-> l]
    BY <1>3, <2>2, <2>4 DEF ScanLine
  <2>7. a.done \cup p.ended \in SUBSET (Nat \X Int)
    BY <2>3 DEF ScanType
  <2> QED BY <1>1, <2>5, <2>6, <2>7 DEF ScanType
<1> QED BY <1>2, <1>3

LEMMA ScanTurn ==
    ASSUME NEW t \in FoldText, NEW n \in Lines(t), NEW a \in ScanType, FoldsKnow(t, n, a)
    PROVE  FoldsKnow(t, n + 1, ScanLine(t, a, n))
<1>1. CASE Indent(t, n) = Empty
  BY <1>1, BlankLine DEF ScanLine
<1>2. CASE Indent(t, n) # Empty
  <2>1. n \in FilledLines(t) /\ n \in Nat /\ Indent(t, n) \in Nat
    BY <1>2, FilledIs DEF FilledLines
  <2>2. LastIs(t, n, a.last) /\ StackIs(t, n, a.stack) /\ DoneIs(t, n, a.done)
    BY DEF FoldsKnow
  <2>3. PICK s : s = a.stack
    OBVIOUS
  <2>4. PICK p : p = PopTo(s, a.last, Indent(t, n))
    OBVIOUS
  <2>5. PICK keep \in 0..Len(s) :
            p.stack = SubSeq(s, 1, keep) /\ Cut(s, Indent(t, n), keep) /\ Ended(s, a.last, keep, p.ended)
    <3>1. StackIs(t, n, s) /\ Indent(t, n) \in Nat \cup {-1}
      BY <2>1, <2>2, <2>3
    <3>2. PopsTo(s, a.last, Indent(t, n), p)
      BY <2>1, <2>4, <3>1, PopIs
    <3> QED BY <3>2 DEF PopsTo
  <2>6. Cut(s, Indent(t, n), keep) /\ Ended(s, a.last, keep, p.ended)
    BY <2>5
  <2>7. StackIs(t, n + 1, Append(p.stack, [start |-> n, indent |-> Indent(t, n)]))
    BY <2>1, <2>2, <2>3, <2>5, <2>6, ScanStack
  <2>8. DoneIs(t, n + 1, a.done \cup p.ended)
    BY <2>1, <2>2, <2>3, <2>6, ScanDone
  <2>9. LastIs(t, n + 1, n)
    BY <2>1, FilledIs DEF LastIs
  <2>10. ScanLine(t, a, n) = [stack |-> Append(p.stack, [start |-> n, indent |-> Indent(t, n)]),
                              done |-> a.done \cup p.ended, last |-> n]
    BY <1>2, <2>3, <2>4 DEF ScanLine
  <2> QED BY <2>7, <2>8, <2>9, <2>10 DEF FoldsKnow
<1> QED BY <1>1, <1>2

\* The scan after each line.
ScanRun(k, t) ==
    /\ k \in [0..Len(t) -> ScanType] /\ k[0] = NoScan
    /\ \A n \in 1..Len(t) : k[n] = ScanLine(t, k[n - 1], n - 1)
    /\ FoldRanges(t) = k[Len(t)].done \cup PopTo(k[Len(t)].stack, k[Len(t)].last, -1).ended

LEMMA ScanRuns ==
    ASSUME NEW t \in FoldText
    PROVE  \E k : ScanRun(k, t)
<1> DEFINE Made(g) == g = [n \in 0..Len(t) |-> IF n = 0 THEN NoScan ELSE ScanLine(t, g[n - 1], n - 1)]
           turn == [n \in 1..Len(t) |-> [a \in ScanType |-> ScanLine(t, a, n - 1)]]
           k == CHOOSE g : Made(g)
<1>1. Len(t) \in Nat /\ \A n \in 1..Len(t) : n - 1 \in Lines(t)
  BY FoldTextIs
<1>2. ASSUME NEW n \in 1..Len(t), NEW a \in ScanType
      PROVE  ScanLine(t, a, n - 1) \in ScanType
  BY <1>1, ScanLineType
<1>3. turn \in [1..Len(t) -> [ScanType -> ScanType]]
  BY <1>2
<1>4. NoScan \in ScanType
  BY EmptySeq DEF NoScan, ScanType
<1>5. PICK g : Runs(Len(t), ScanType, NoScan, turn, g)
  <2> HIDE DEF turn
  <2> QED BY <1>1, <1>3, <1>4, LoopRuns
<1>6. Made(g)
  <2>1. ASSUME NEW n \in 0..Len(t)
        PROVE  g[n] = IF n = 0 THEN NoScan ELSE ScanLine(t, g[n - 1], n - 1)
    <3>1. CASE n = 0
      BY <3>1, <1>5 DEF Runs
    <3>2. CASE n # 0
      <4>1. n \in 1..Len(t) /\ n - 1 \in 0..Len(t)
        BY <3>2, <1>1
      <4>2. g[n] = turn[n][g[n - 1]] /\ g[n - 1] \in ScanType
        <5> HIDE DEF turn
        <5> QED BY <4>1, <1>5 DEF Runs
      <4> QED BY <4>1, <4>2, <3>2
    <3> QED BY <3>1, <3>2
  <2>2. g = [n \in 0..Len(t) |-> g[n]]
    BY <1>5 DEF Runs
  <2> HIDE DEF turn
  <2> QED BY <2>1, <2>2
<1>7. Made(k)
  <2> HIDE DEF Made
  <2> QED BY <1>6
<1>8. FoldRanges(t) = k[Len(t)].done \cup PopTo(k[Len(t)].stack, k[Len(t)].last, -1).ended
  BY DEF FoldRanges, NoScan
<1> HIDE DEF k
<1>9. k[0] = NoScan /\ \A n \in 1..Len(t) : k[n] = ScanLine(t, k[n - 1], n - 1)
  <2>1. ASSUME NEW n \in 0..Len(t)
        PROVE  k[n] = IF n = 0 THEN NoScan ELSE ScanLine(t, k[n - 1], n - 1)
    BY <1>7
  <2> QED BY <2>1, <1>1
<1>10. ASSUME NEW m \in 0..(Len(t) - 1), k[m] \in ScanType PROVE k[m + 1] \in ScanType
  <2>1. m + 1 \in 1..Len(t) /\ (m + 1) - 1 = m
    BY <1>1
  <2>2. k[m + 1] = ScanLine(t, k[m], (m + 1) - 1)
    BY <2>1, <1>9
  <2> QED BY <2>1, <2>2, <1>2, <1>10
<1>11. \A m \in 0..Len(t) : k[m] \in ScanType
  BY <1>1, <1>4, <1>9, <1>10, StaysIn
<1>12. k = [m \in 0..Len(t) |-> k[m]]
  BY <1>7
<1> HIDE DEF Made
<1> QED BY <1>8, <1>9, <1>11, <1>12 DEF ScanRun

\* The scan finds the blocks of the text.
LEMMA RangesAre ==
    ASSUME NEW t \in FoldText, NEW b
    PROVE  b \in FoldRanges(t) <=> \E l \in FilledLines(t), e \in FilledLines(t) :
                                       b = <<l, e>> /\ EndsAs(t, Len(t), l, e)
<1>1. Len(t) \in Nat /\ Lines(t) = 0..(Len(t) - 1)
  BY FoldTextIs
<1>2. PICK k : ScanRun(k, t)
  BY ScanRuns
<1> DEFINE T == {n \in 0..Len(t) : FoldsKnow(t, n, k[n])}
<1>3. 0 \in T
  <2>1. k[0].stack = <<>> /\ k[0].done = {} /\ k[0].last = -1
    BY <1>2 DEF ScanRun, NoScan
  <2>2. \A l \in FilledLines(t) : l \in Nat
    BY FilledIs
  <2>3. \A l \in FilledLines(t) : ~(l < 0)
    BY <2>2
  <2>4. <<>> \in Seq(OpenType) /\ Len(<<>>) = 0
    BY EmptySeq
  <2>5. LastIs(t, 0, -1)
    BY <2>3 DEF LastIs
  <2>6. StackIs(t, 0, <<>>)
    BY <2>3, <2>4 DEF StackIs, OpenAt
  <2>7. DoneIs(t, 0, {})
    BY <2>3 DEF DoneIs
  <2>8. FoldsKnow(t, 0, k[0])
    BY <2>1, <2>5, <2>6, <2>7 DEF FoldsKnow
  <2> QED BY <1>1, <2>8
<1>4. ASSUME NEW n \in 0..(Len(t) - 1), n \in T PROVE n + 1 \in T
  <2>1. n \in Lines(t) /\ n + 1 \in 1..Len(t) /\ (n + 1) - 1 = n /\ n \in 0..Len(t)
    BY <1>1
  <2>2. k[n + 1] = ScanLine(t, k[n], n) /\ k[n] \in ScanType
    <3>1. k[n + 1] = ScanLine(t, k[(n + 1) - 1], (n + 1) - 1)
      BY <1>2, <2>1 DEF ScanRun
    <3>2. k[n] \in ScanType
      BY <1>2, <2>1 DEF ScanRun
    <3> QED BY <2>1, <3>1, <3>2
  <2>3. FoldsKnow(t, n, k[n])
    BY <1>4
  <2>4. FoldsKnow(t, n + 1, k[n + 1])
    BY <2>1, <2>2, <2>3, ScanTurn
  <2> QED BY <1>1, <2>1, <2>4
<1>5. FoldsKnow(t, Len(t), k[Len(t)])
  <2>1. \A n \in 0..Len(t) : n \in T
    <3> HIDE DEF T
    <3> QED BY <1>1, <1>3, <1>4, UpTo
  <2> QED BY <1>1, <2>1
<1>6. PICK a : a = k[Len(t)]
  OBVIOUS
<1>7. LastIs(t, Len(t), a.last) /\ StackIs(t, Len(t), a.stack) /\ DoneIs(t, Len(t), a.done)
  BY <1>5, <1>6 DEF FoldsKnow
<1>8. PICK keep \in 0..Len(a.stack) :
          Cut(a.stack, -1, keep) /\ Ended(a.stack, a.last, keep, PopTo(a.stack, a.last, -1).ended)
  <2>1. StackIs(t, Len(t), a.stack) /\ Len(t) \in Nat
    BY <1>1, <1>7
  <2>2. PICK d \in Nat \cup {-1} : d = -1
    OBVIOUS
  <2>3. PICK s : s = a.stack
    OBVIOUS
  <2>4. PICK z : z = a.last
    OBVIOUS
  <2>5. StackIs(t, Len(t), s) /\ Len(t) \in Nat
    BY <2>1, <2>3
  <2>6. PopsTo(s, z, d, PopTo(s, z, d))
    BY ONLY <2>5, d \in Nat \cup {-1}, t \in FoldText, PopIs
  <2> QED BY <2>2, <2>3, <2>4, <2>6 DEF PopsTo
<1>9. keep = 0 /\ Len(a.stack) \in Nat
  <2>1. Len(a.stack) \in Nat /\ \A i \in 1..Len(a.stack) : a.stack[i].indent \in Nat
    BY <1>7, OpenStack DEF StackIs
  <2> QED BY <1>8, <2>1 DEF Cut
<1>10. \A i \in 1..Len(a.stack) : OpenAt(t, a.stack[i].start, Len(t)) /\ a.stack[i].start \in FilledLines(t)
  BY <1>7 DEF StackIs, OpenAt
<1>11. \A l \in FilledLines(t) : OpenAt(t, l, Len(t)) => \E i \in 1..Len(a.stack) : a.stack[i].start = l
  BY <1>7 DEF StackIs
<1>12. \A l \in FilledLines(t) : l < Len(t)
  BY <1>1, FilledIs
<1>13. FoldRanges(t) = a.done \cup PopTo(a.stack, a.last, -1).ended
  BY <1>2, <1>6 DEF ScanRun
<1>14. ASSUME b \in FoldRanges(t)
       PROVE  \E l \in FilledLines(t), e \in FilledLines(t) : b = <<l, e>> /\ EndsAs(t, Len(t), l, e)
  <2>1. CASE b \in a.done
    BY <1>7, <2>1 DEF DoneIs
  <2>2. CASE b \in PopTo(a.stack, a.last, -1).ended
    <3>1. PICK i \in 1..Len(a.stack) : a.last > a.stack[i].start /\ b = <<a.stack[i].start, a.last>>
      BY <1>8, <2>2 DEF Ended
    <3>2. OpenAt(t, a.stack[i].start, Len(t)) /\ a.stack[i].start \in FilledLines(t)
      BY <1>10
    <3>3. EndsAs(t, Len(t), a.stack[i].start, a.last)
      BY <1>1, <1>7, <3>1, <3>2, OpenUnder
    <3>4. a.last \in FilledLines(t)
      BY <3>3 DEF EndsAs, UnderTo
    <3> QED BY <3>1, <3>2, <3>3, <3>4
  <2> QED BY <1>13, <1>14, <2>1, <2>2
<1>15. ASSUME NEW l \in FilledLines(t), NEW e \in FilledLines(t), b = <<l, e>>, EndsAs(t, Len(t), l, e)
       PROVE  b \in FoldRanges(t)
  <2>1. CASE ~OpenAt(t, l, Len(t))
    BY <1>7, <1>12, <1>13, <1>15, <2>1 DEF DoneIs
  <2>2. CASE OpenAt(t, l, Len(t))
    <3>1. a.last > l /\ e = a.last
      BY <1>1, <1>7, <1>15, <2>2, OpenUnder
    <3>2. PICK i \in 1..Len(a.stack) : a.stack[i].start = l
      BY <1>11, <2>2
    <3>3. i > keep
      BY <1>9
    <3>4. b \in PopTo(a.stack, a.last, -1).ended
      BY <1>8, <1>15, <3>1, <3>2, <3>3 DEF Ended
    <3> QED BY <1>13, <3>4
  <2> QED BY <2>1, <2>2
<1> QED BY <1>14, <1>15

\* Blocks of lines below n: a start has one block, and a block that starts in another
\* ends in it.
NestedIn(B, n) ==
    /\ \A b \in B : b[1] \in Nat /\ b[2] \in Nat /\ b[1] < b[2] /\ b[2] < n
    /\ \A b, c \in B : b[1] = c[1] => b = c
    /\ \A b, c \in B : b[1] < c[1] /\ c[1] <= b[2] => c[2] <= b[2]

LEMMA BlockLines ==
    ASSUME NEW t \in FoldText, NEW b \in FoldRanges(t)
    PROVE  /\ b = <<b[1], b[2]>> /\ b[1] \in FilledLines(t) /\ b[2] \in FilledLines(t)
           /\ EndsAs(t, Len(t), b[1], b[2]) /\ b[1] \in Nat /\ b[2] \in Nat /\ b[1] < b[2] /\ b[2] < Len(t)
           /\ Len(t) \in Nat
<1>1. PICK l \in FilledLines(t), e \in FilledLines(t) : b = <<l, e>> /\ EndsAs(t, Len(t), l, e)
  BY RangesAre
<1>2. b[1] = l /\ b[2] = e
  BY <1>1
<1>3. e > l
  BY <1>1 DEF EndsAs, UnderTo
<1>4. l \in Nat /\ e \in Nat /\ e < Len(t) /\ Len(t) \in Nat
  BY FilledIs, FoldTextIs
<1> QED BY <1>1, <1>2, <1>3, <1>4

LEMMA BlocksNest ==
    ASSUME NEW t \in FoldText
    PROVE  NestedIn(FoldRanges(t), Len(t))
<1>1. \A j \in FilledLines(t) : j \in Nat /\ Indent(t, j) \in Nat /\ j < Len(t)
  BY FilledIs, FoldTextIs
<1>2. ASSUME NEW b \in FoldRanges(t), NEW c \in FoldRanges(t), b[1] = c[1] PROVE b = c
  <2>1. EndsAs(t, Len(t), b[1], b[2]) /\ EndsAs(t, Len(t), b[1], c[2]) /\ b[2] \in Nat /\ c[2] \in Nat
    BY <1>2, BlockLines
  <2>2. b[2] = c[2]
    BY <2>1 DEF EndsAs
  <2>3. b = <<b[1], b[2]>> /\ c = <<c[1], c[2]>>
    BY BlockLines
  <2> QED BY <1>2, <2>2, <2>3
<1>3. ASSUME NEW b \in FoldRanges(t), NEW c \in FoldRanges(t), b[1] < c[1], c[1] <= b[2] PROVE c[2] <= b[2]
  <2>1. PICK l \in FilledLines(t), e \in FilledLines(t) : l = b[1] /\ e = b[2] /\ EndsAs(t, Len(t), l, e)
    BY BlockLines
  <2>2. PICK m \in FilledLines(t), z \in FilledLines(t) : m = c[1] /\ z = c[2] /\ EndsAs(t, Len(t), m, z)
    BY BlockLines
  <2>3. /\ e \in UnderTo(t, l, Len(t)) /\ z \in UnderTo(t, m, Len(t))
        /\ \A k \in UnderTo(t, l, Len(t)) : k <= e
    BY <2>1, <2>2 DEF EndsAs
  <2>4. l < m /\ m <= e /\ m < z
    BY <1>3, <2>1, <2>2, <2>3 DEF UnderTo
  <2>5. \A j \in FilledLines(t) : l < j /\ j <= e => Indent(t, j) > Indent(t, l)
    BY <2>3 DEF UnderTo
  <2>6. \A j \in FilledLines(t) : m < j /\ j <= z => Indent(t, j) > Indent(t, m)
    BY <2>3 DEF UnderTo
  <2>7. Indent(t, m) > Indent(t, l)
    BY <2>4, <2>5
  <2>8. ASSUME NEW j \in FilledLines(t), l < j, j <= z PROVE Indent(t, j) > Indent(t, l)
    <3>1. CASE j <= e
      BY <2>5, <2>8, <3>1
    <3>2. CASE e < j
      <4>1. m < j
        BY <1>1, <2>4, <3>2
      <4>2. Indent(t, j) > Indent(t, m)
        BY <2>6, <2>8, <4>1
      <4> QED BY <1>1, <2>7, <4>2
    <3> QED BY <1>1, <3>1, <3>2
  <2>9. z \in UnderTo(t, l, Len(t))
    BY <1>1, <2>4, <2>8 DEF UnderTo
  <2> QED BY <2>1, <2>2, <2>3, <2>9
<1>4. \A b \in FoldRanges(t) : b[1] \in Nat /\ b[2] \in Nat /\ b[1] < b[2] /\ b[2] < Len(t)
  BY BlockLines
<1> QED BY <1>2, <1>3, <1>4 DEF NestedIn

LEMMA FoldedNest ==
    ASSUME NEW t \in FoldText, NEW f
    PROVE  NestedIn(Folded(t, f), Len(t)) /\ Folded(t, f) \subseteq FoldRanges(t)
<1>1. Folded(t, f) \subseteq FoldRanges(t)
  BY DEF Folded
<1> QED BY <1>1, BlocksNest DEF NestedIn

\* The stack scan finds exactly the blocks indentation means.
LEMMA BlocksMeant ==
    ASSUME fText \in FoldText
    PROVE  BlocksAreIndentation
<1> DEFINE Full == {l \in Lines(fText) : Indent(fText, l) # Empty}
           Under(l) == {k \in Full : k > l /\ \A j \in Full : l < j /\ j <= k => Indent(fText, j) > Indent(fText, l)}
           n == Len(fText)
<1>1. Full = FilledLines(fText) /\ n \in Nat /\ \A l \in Full : l \in 0..(n - 1)
  <2>1. Full = FilledLines(fText)
    BY DEF FilledLines
  <2> QED BY <2>1, FilledIs, FoldTextIs
<1>2. ASSUME NEW l \in Full PROVE Under(l) = UnderTo(fText, l, n)
  <2>1. \A k \in Full : k < n
    BY <1>1
  <2> QED BY <1>1, <2>1 DEF UnderTo
<1>3. ASSUME NEW l \in Full, NEW e
      PROVE  EndsAs(fText, n, l, e) <=> Under(l) # {} /\ e = Max(Under(l))
  <2>1. PICK U : U = Under(l)
    OBVIOUS
  <2>2. U \subseteq 0..n
    BY <1>1, <2>1
  <2>3. U = UnderTo(fText, l, n)
    BY <1>2, <2>1
  <2>4. U # {} => Max(U) \in U /\ (\A y \in U : y <= Max(U)) /\ Max(U) \in Nat /\ \A y \in U : y \in Nat
    <3>1. PICK m \in Nat : m = n
      BY <1>1
    <3>2. U \subseteq 0..m /\ \A y \in U : y \in Nat
      BY <2>2, <3>1
    <3>3. U # {} => Max(U) \in U /\ \A y \in U : y <= Max(U)
      BY ONLY m \in Nat, <3>2, Greatest
    <3> QED BY <3>2, <3>3
  <2>5. EndsAs(fText, n, l, e) <=> e \in U /\ \A k \in U : k <= e
    BY <2>3 DEF EndsAs
  <2>6. e \in U /\ (\A k \in U : k <= e) <=> U # {} /\ e = Max(U)
    BY <2>4
  <2> QED BY <2>1, <2>5, <2>6
<1>4. ASSUME NEW b
      PROVE  b \in FoldRanges(fText) <=> b \in {<<l, Max(Under(l))>> : l \in {k \in Full : Under(k) # {}}}
  <2> HIDE DEF Under
  <2>1. b \in FoldRanges(fText) <=>
            \E l \in Full, e \in Full : b = <<l, e>> /\ EndsAs(fText, n, l, e)
    BY <1>1, RangesAre
  <2>2. ASSUME NEW l \in Full, NEW e, EndsAs(fText, n, l, e) PROVE e \in Full
    BY <1>1, <2>2 DEF EndsAs, UnderTo
  <2> QED BY <1>3, <2>1, <2>2
<1>5. FoldRanges(fText) = {<<l, Max(Under(l))>> : l \in {k \in Full : Under(k) # {}}}
  BY <1>4
<1> QED BY <1>5 DEF BlocksAreIndentation

(***************************************************************************)
(* The scanner.                                                            *)
(***************************************************************************)
Hides(B, l)     == \E b \in B : b[1] < l /\ l <= b[2]
StartsAt(B, l)  == \E b \in B : b[1] = l

LEMMA FirstBlockIs ==
    ASSUME NEW B, B # {}, \A b \in B : b[1] \in Nat
    PROVE  FirstBlock(B) \in B /\ \A c \in B : FirstBlock(B)[1] <= c[1]
<1> DEFINE starts == {b[1] : b \in B}
<1>1. starts \subseteq Nat /\ starts # {}
  OBVIOUS
<1>2. PICK x \in starts : \A y \in starts : x <= y
  <2> HIDE DEF starts
  <2> QED BY <1>1, Least
<1>3. \E b \in B : \A c \in B : b[1] <= c[1]
  BY <1>2
<1> QED BY <1>3 DEF FirstBlock

LEMMA ScannerIs ==
    ASSUME NEW B, NEW n, NestedIn(B, n), NEW l \in Nat
    PROVE  /\ ScannerAt(B, l).hidden = Hides(B, l)
           /\ ~StartsAt(B, l) => ScannerAt(B, l).start = NoBlock
           /\ StartsAt(B, l) => /\ ScannerAt(B, l).start \in B /\ ScannerAt(B, l).start[1] = l
                                /\ ScannerAt(B, l).start # NoBlock
<1> DEFINE hi  == {b \in B : b[2] >= l}
           fsi == {b \in B : b[1] >= l}
           hid == hi # {} /\ FirstBlock(hi)[1] < l
           st  == IF fsi # {} /\ FirstBlock(fsi)[1] = l THEN FirstBlock(fsi) ELSE NoBlock
<1>1. \A b \in B : b[1] \in Nat /\ b[2] \in Nat /\ b[1] < b[2]
  BY DEF NestedIn
<1>2. hi # {} => FirstBlock(hi) \in hi /\ \A c \in hi : FirstBlock(hi)[1] <= c[1]
  BY <1>1, FirstBlockIs
<1>3. fsi # {} => FirstBlock(fsi) \in fsi /\ \A c \in fsi : FirstBlock(fsi)[1] <= c[1]
  BY <1>1, FirstBlockIs
<1>4. hid <=> Hides(B, l)
  <2>1. ASSUME hid PROVE Hides(B, l)
    BY <1>1, <1>2, <2>1 DEF Hides
  <2>2. ASSUME NEW b \in B, b[1] < l, l <= b[2] PROVE hid
    <3>1. b \in hi
      BY <1>1, <2>2
    <3>2. FirstBlock(hi) \in B /\ FirstBlock(hi)[1] <= b[1]
      BY <1>2, <3>1
    <3> QED BY <1>1, <2>2, <3>1, <3>2
  <2> QED BY <2>1, <2>2 DEF Hides
<1>5. ~StartsAt(B, l) => st = NoBlock
  BY <1>3 DEF StartsAt
<1>6. ASSUME StartsAt(B, l) PROVE st \in B /\ st[1] = l /\ st # NoBlock
  <2>1. PICK b \in B : b[1] = l
    BY <1>6 DEF StartsAt
  <2>2. b \in fsi
    BY <2>1
  <2>3. FirstBlock(fsi) \in B /\ FirstBlock(fsi)[1] <= l /\ FirstBlock(fsi)[1] >= l
    BY <1>3, <2>1, <2>2
  <2>4. FirstBlock(fsi)[1] = l
    BY <1>1, <2>3
  <2>5. st = FirstBlock(fsi)
    BY <2>2, <2>4
  <2>6. NoBlock[1] = -1
    BY DEF NoBlock
  <2> HIDE DEF st
  <2> QED BY <2>3, <2>4, <2>5, <2>6
<1> HIDE DEF st, hid
<1>7. ScannerAt(B, l) = [hidden |-> hid, start |-> st]
  BY DEF ScannerAt, st, hid
<1>8. ScannerAt(B, l).hidden = hid /\ ScannerAt(B, l).start = st
  BY <1>7
<1>9. hid \in BOOLEAN /\ Hides(B, l) \in BOOLEAN
  BY DEF hid, Hides
<1> QED BY <1>4, <1>5, <1>6, <1>8, <1>9

(***************************************************************************)
(* The rows on the screen: those of the lines above n, and what they tell. *)
(***************************************************************************)
ScreenRow == [ln : Nat, seg : Nat \cup {-1}, hidden : Nat]

\* The rows of one line: none, its wrapped rows, or these and the summary of its block.
RowsOf(B, S, l, u) ==
    /\ u \in Seq(ScreenRow)
    /\ Hides(B, l) => Len(u) = 0
    /\ ~Hides(B, l) =>
           /\ Len(u) = IF StartsAt(B, l) THEN S + 1 ELSE S
           /\ \A s \in 1..S : u[s] = [ln |-> l, seg |-> s - 1, hidden |-> 0]
           /\ StartsAt(B, l) => \E b \in B : b[1] = l /\ u[S + 1] = [ln |-> l, seg |-> -1, hidden |-> b[2] - l]

\* The wrapped rows of line l are those that begin at row from, and the only one that counts what
\* a block hides is row i.
RunAt(r, l, from, S) ==
    /\ from + S - 1 <= Len(r)
    /\ \A i \in 1..Len(r) : /\ r[i].ln = l /\ r[i].hidden = 0 <=> from <= i /\ i <= from + S - 1
                            /\ r[i].ln = l /\ r[i].hidden = 0 => r[i].seg = i - from
SumAt(r, b, i) == \A j \in 1..Len(r) : r[j].ln = b[1] /\ r[j].hidden > 0 <=> j = i

RowIs(B, n, row) ==
    /\ row.ln < n /\ ~Hides(B, row.ln)
    /\ row.hidden > 0 => row.seg = -1 /\ \E b \in B : b[1] = row.ln /\ row.hidden = b[2] - b[1]

RowsKnow(B, segs, n, r) ==
    /\ \A i \in 1..Len(r) : RowIs(B, n, r[i])
    /\ \A i, j \in 1..Len(r) : i < j => r[i].ln <= r[j].ln
    /\ \A l \in 0..(n - 1) : ~Hides(B, l) => \E from \in 1..Len(r) : RunAt(r, l, from, segs[l])
    /\ \A b \in B : b[1] < n /\ ~Hides(B, b[1]) => \E i \in 1..Len(r) : SumAt(r, b, i)

LEMMA SegmentsAre ==
    ASSUME NEW t \in FoldText, NEW wrap \in BOOLEAN, NEW l \in Lines(t)
    PROVE  Segments(t, wrap, l) \in Nat \ {0}
<1>1. t[l + 1].segs \in Nat \ {0}
  BY FoldTextIs
<1> QED BY <1>1 DEF Segments

LEMMA LineRowsAre ==
    ASSUME NEW t \in FoldText, NEW f, NEW wrap \in BOOLEAN, NEW l \in Lines(t)
    PROVE  RowsOf(Folded(t, f), Segments(t, wrap, l), l, LineRows(t, f, wrap, l))
<1>1. PICK B : B = Folded(t, f)
  OBVIOUS
<1>2. PICK S \in Nat \ {0} : S = Segments(t, wrap, l)
  BY SegmentsAre
<1>3. PICK at : at = ScannerAt(B, l)
  OBVIOUS
<1>4. l \in Nat /\ NestedIn(B, Len(t))
  BY <1>1, FoldTextIs, FoldedNest
<1>5. /\ at.hidden = Hides(B, l)
      /\ ~StartsAt(B, l) => at.start = NoBlock
      /\ StartsAt(B, l) => at.start \in B /\ at.start[1] = l /\ at.start # NoBlock
  BY ONLY <1>3, <1>4, ScannerIs
<1> DEFINE own == [s \in 1..S |-> [ln |-> l, seg |-> s - 1, hidden |-> 0]]
           sum == IF at.start = NoBlock THEN <<>> ELSE <<[ln |-> l, seg |-> -1, hidden |-> at.start[2] - l]>>
           u   == LineRows(t, f, wrap, l)
<1>6. u = IF at.hidden THEN <<>> ELSE own \o sum
  BY <1>1, <1>2, <1>3 DEF LineRows
<1>7. own \in Seq(ScreenRow) /\ Len(own) = S /\ \A s \in 1..S : own[s] = [ln |-> l, seg |-> s - 1, hidden |-> 0]
  <2>1. \A s \in 1..S : [ln |-> l, seg |-> s - 1, hidden |-> 0] \in ScreenRow
    BY <1>4 DEF ScreenRow
  <2> QED BY <2>1
<1>8. CASE Hides(B, l)
  <2>1. u = <<>>
    BY <1>5, <1>6, <1>8
  <2>2. u \in Seq(ScreenRow) /\ Len(u) = 0
    <3> HIDE DEF u
    <3> QED BY <2>1, EmptySeq
  <2> HIDE DEF u
  <2>3. RowsOf(B, S, l, u)
    BY <1>8, <2>2 DEF RowsOf
  <2> QED BY <1>1, <1>2, <2>3 DEF u
<1>9. CASE ~Hides(B, l) /\ ~StartsAt(B, l)
  <2>1. u = own \o <<>>
    BY <1>5, <1>6, <1>9
  <2> HIDE DEF own, u
  <2>2. u = own
    BY <1>7, <2>1, ConcatEmptySeq
  <2>3. RowsOf(B, S, l, u)
    BY <1>7, <1>9, <2>2 DEF RowsOf
  <2> QED BY <1>1, <1>2, <2>3 DEF u
<1>10. CASE ~Hides(B, l) /\ StartsAt(B, l)
  <2>1. PICK b \in B : b = at.start /\ b[1] = l
    BY <1>5, <1>10
  <2>2. PICK x : x = [ln |-> l, seg |-> -1, hidden |-> b[2] - l]
    OBVIOUS
  <2>3. x \in ScreenRow
    <3>1. b[2] - l \in Nat
      BY <1>4, <2>1 DEF NestedIn
    <3> QED BY <1>4, <2>2, <3>1 DEF ScreenRow
  <2>4. u = own \o <<x>>
    BY <1>5, <1>6, <1>10, <2>1, <2>2
  <2> HIDE DEF own, u
  <2>5. own \o <<x>> = Append(own, x)
    BY <1>7, <2>3, AppendIsConcat
  <2>6. u \in Seq(ScreenRow) /\ Len(u) = S + 1 /\ u[S + 1] = x /\ \A s \in 1..S : u[s] = own[s]
    BY <1>7, <2>3, <2>4, <2>5, AppendProperties
  <2>7. RowsOf(B, S, l, u)
    BY <1>7, <1>10, <2>1, <2>2, <2>6 DEF RowsOf
  <2> QED BY <1>1, <1>2, <2>7 DEF u
<1> QED BY <1>8, <1>9, <1>10

\* The rows v after those of line n are added to r.
Joined(r, u, v) ==
    /\ Len(v) = Len(r) + Len(u)
    /\ \A i \in 1..Len(r) : v[i] = r[i]
    /\ \A i \in 1..Len(u) : v[Len(r) + i] = u[i]

\* Rows of other lines leave the runs and the summaries of a line as they are.
LEMMA OthersJoin ==
    ASSUME NEW r, NEW u, NEW v, Joined(r, u, v), Len(r) \in Nat, Len(u) \in Nat,
           NEW n, \A i \in 1..Len(u) : u[i].ln = n, NEW l, l # n
    PROVE  /\ \A from \in 1..Len(r), S \in Nat \ {0} :
                  RunAt(r, l, from, S) => from \in 1..Len(v) /\ RunAt(v, l, from, S)
           /\ \A b, i : b[1] = l /\ i \in 1..Len(r) /\ SumAt(r, b, i) => i \in 1..Len(v) /\ SumAt(v, b, i)
<1>1. /\ Len(v) = Len(r) + Len(u)
      /\ \A i \in 1..Len(r) : v[i] = r[i] /\ i \in 1..Len(v)
      /\ \A i \in 1..Len(u) : v[Len(r) + i] = u[i]
  BY DEF Joined
<1>2. ASSUME NEW i \in 1..Len(v), i > Len(r) PROVE v[i].ln # l
  <2>1. i - Len(r) \in 1..Len(u) /\ Len(r) + (i - Len(r)) = i
    BY <1>1, <1>2
  <2>2. v[i] = u[i - Len(r)]
    BY <1>1, <2>1
  <2> QED BY <2>1, <2>2
<1>3. \A i \in 1..Len(v) : i \in 1..Len(r) \/ i > Len(r)
  BY <1>1
<1>4. ASSUME NEW from \in 1..Len(r), NEW S \in Nat \ {0}, RunAt(r, l, from, S)
      PROVE  from \in 1..Len(v) /\ RunAt(v, l, from, S)
  <2>1. from + S - 1 <= Len(r) /\ from + S - 1 <= Len(v)
    BY <1>1, <1>4 DEF RunAt
  <2>2. ASSUME NEW i \in 1..Len(v)
        PROVE  /\ v[i].ln = l /\ v[i].hidden = 0 <=> from <= i /\ i <= from + S - 1
               /\ v[i].ln = l /\ v[i].hidden = 0 => v[i].seg = i - from
    <3>1. CASE i \in 1..Len(r)
      BY <1>1, <1>4, <3>1 DEF RunAt
    <3>2. CASE i > Len(r)
      <4>1. ~(i <= from + S - 1)
        BY <2>1, <3>2
      <4> QED BY <1>2, <3>2, <4>1
    <3> QED BY <1>3, <3>1, <3>2
  <2> QED BY <1>1, <2>1, <2>2 DEF RunAt
<1>5. ASSUME NEW b, NEW i \in 1..Len(r), b[1] = l, SumAt(r, b, i)
      PROVE  i \in 1..Len(v) /\ SumAt(v, b, i)
  <2>1. ASSUME NEW j \in 1..Len(v) PROVE v[j].ln = b[1] /\ v[j].hidden > 0 <=> j = i
    <3>1. CASE j \in 1..Len(r)
      BY <1>1, <1>5, <3>1 DEF SumAt
    <3>2. CASE j > Len(r)
      BY <1>2, <1>5, <3>2
    <3> QED BY <1>3, <3>1, <3>2
  <2> QED BY <1>1, <2>1 DEF SumAt
<1> QED BY <1>4, <1>5

\* The rows of line n when it is shown.
LEMMA OwnJoin ==
    ASSUME NEW B, NEW N, NestedIn(B, N), NEW n \in Nat, NEW S \in Nat \ {0}, NEW r, NEW u, NEW v,
           Joined(r, u, v), Len(r) \in Nat, \A i \in 1..Len(r) : r[i].ln # n,
           RowsOf(B, S, n, u), ~Hides(B, n)
    PROVE  /\ Len(u) \in Nat /\ Len(u) > 0
           /\ \A i \in 1..Len(u) : u[i].ln = n /\ RowIs(B, n + 1, u[i])
           /\ Len(r) + 1 \in 1..Len(v) /\ RunAt(v, n, Len(r) + 1, S)
           /\ \A b \in B : b[1] = n => \E i \in 1..Len(v) : SumAt(v, b, i)
<1>1. /\ Len(v) = Len(r) + Len(u)
      /\ \A i \in 1..Len(r) : v[i] = r[i]
      /\ \A i \in 1..Len(u) : v[Len(r) + i] = u[i]
  BY DEF Joined
<1>2. /\ Len(u) = IF StartsAt(B, n) THEN S + 1 ELSE S
      /\ \A s \in 1..S : u[s] = [ln |-> n, seg |-> s - 1, hidden |-> 0]
      /\ StartsAt(B, n) => \E b \in B : b[1] = n /\ u[S + 1] = [ln |-> n, seg |-> -1, hidden |-> b[2] - n]
  BY DEF RowsOf
<1>3. Len(u) \in Nat /\ Len(u) > 0 /\ \A s \in 1..S : s \in 1..Len(u)
  BY <1>2
<1>4. ASSUME NEW s \in 1..S PROVE u[s].ln = n /\ u[s].seg = s - 1 /\ u[s].hidden = 0
  <2>1. u[s] = [ln |-> n, seg |-> s - 1, hidden |-> 0]
    BY <1>2
  <2> QED BY ONLY <2>1
<1>5. \A b \in B : b[2] - b[1] > 0 /\ b[2] - b[1] \in Nat
  BY DEF NestedIn
<1>6. ASSUME NEW i \in 1..Len(u), ~(i \in 1..S)
      PROVE  /\ i = S + 1 /\ StartsAt(B, n) /\ u[i].ln = n /\ u[i].seg = -1 /\ u[i].hidden > 0
             /\ \E b \in B : b[1] = n /\ u[i].hidden = b[2] - b[1]
  <2>1. i = S + 1 /\ StartsAt(B, n)
    BY <1>2, <1>6
  <2>2. PICK b \in B : b[1] = n /\ u[S + 1] = [ln |-> n, seg |-> -1, hidden |-> b[2] - n]
    BY <1>2, <2>1
  <2>3. u[i].ln = n /\ u[i].seg = -1 /\ u[i].hidden = b[2] - b[1]
    BY <2>1, <2>2
  <2> QED BY <1>5, <2>1, <2>2, <2>3
<1>7. ASSUME NEW i \in 1..Len(u) PROVE u[i].ln = n /\ RowIs(B, n + 1, u[i])
  <2>1. CASE i \in 1..S
    <3>1. u[i].ln = n /\ u[i].hidden = 0
      BY <1>4, <2>1
    <3> QED BY <3>1 DEF RowIs
  <2>2. CASE ~(i \in 1..S)
    <3>1. u[i].ln = n /\ u[i].seg = -1 /\ \E b \in B : b[1] = n /\ u[i].hidden = b[2] - b[1]
      BY <1>6, <2>2
    <3> QED BY <3>1 DEF RowIs
  <2> QED BY <2>1, <2>2
<1>8. ASSUME NEW i \in 1..Len(v)
      PROVE  \/ i \in 1..Len(r) /\ v[i].ln # n /\ i <= Len(r)
             \/ i > Len(r) /\ i - Len(r) \in 1..Len(u) /\ v[i] = u[i - Len(r)]
  <2>1. CASE i <= Len(r)
    BY <1>1, <2>1
  <2>2. CASE i > Len(r)
    <3>1. i - Len(r) \in 1..Len(u) /\ Len(r) + (i - Len(r)) = i
      BY <1>1, <1>3, <2>2
    <3> QED BY <1>1, <2>2, <3>1
  <2> QED BY <1>1, <1>3, <2>1, <2>2
<1>9. RunAt(v, n, Len(r) + 1, S)
  <2>1. (Len(r) + 1) + S - 1 <= Len(v)
    BY <1>1, <1>2
  <2>2. ASSUME NEW i \in 1..Len(v)
        PROVE  /\ v[i].ln = n /\ v[i].hidden = 0 <=> Len(r) + 1 <= i /\ i <= (Len(r) + 1) + S - 1
               /\ v[i].ln = n /\ v[i].hidden = 0 => v[i].seg = i - (Len(r) + 1)
    <3>1. CASE v[i].ln # n /\ i <= Len(r)
      BY <3>1
    <3>2. CASE i > Len(r) /\ i - Len(r) \in 1..S /\ v[i] = u[i - Len(r)]
      <4>1. v[i].ln = n /\ v[i].hidden = 0 /\ v[i].seg = (i - Len(r)) - 1
        BY <1>4, <3>2
      <4> QED BY <3>2, <4>1
    <3>3. CASE i > Len(r) /\ i - Len(r) \in 1..Len(u) /\ ~(i - Len(r) \in 1..S) /\ v[i] = u[i - Len(r)]
      <4>1. i - Len(r) = S + 1 /\ v[i].hidden > 0
        BY <1>6, <3>3
      <4>2. v[i].hidden # 0
        BY <4>1
      <4> QED BY <4>1, <4>2
    <3> QED BY <1>8, <3>1, <3>2, <3>3
  <2> QED BY <2>1, <2>2 DEF RunAt
<1>10. ASSUME NEW b \in B, b[1] = n PROVE \E i \in 1..Len(v) : SumAt(v, b, i)
  <2>1. StartsAt(B, n)
    BY <1>10 DEF StartsAt
  <2>2. Len(u) = S + 1 /\ Len(r) + (S + 1) \in 1..Len(v)
    BY <1>1, <1>2, <2>1
  <2>3. ASSUME NEW j \in 1..Len(v) PROVE v[j].ln = b[1] /\ v[j].hidden > 0 <=> j = Len(r) + (S + 1)
    <3>1. CASE v[j].ln # n /\ j <= Len(r)
      BY <1>10, <3>1
    <3>2. CASE j > Len(r) /\ j - Len(r) \in 1..S /\ v[j] = u[j - Len(r)]
      <4>1. v[j].hidden = 0
        BY <1>4, <3>2
      <4> QED BY <3>2, <4>1
    <3>3. CASE j > Len(r) /\ j - Len(r) \in 1..Len(u) /\ ~(j - Len(r) \in 1..S) /\ v[j] = u[j - Len(r)]
      <4>1. j - Len(r) = S + 1 /\ v[j].hidden > 0 /\ v[j].ln = n
        BY <1>6, <3>3
      <4> QED BY <1>10, <4>1
    <3> QED BY <1>8, <3>1, <3>2, <3>3
  <2> QED BY <2>2, <2>3 DEF SumAt
<1>11. Len(r) + 1 \in 1..Len(v)
  BY <1>1, <1>3
<1> QED BY <1>3, <1>7, <1>9, <1>10, <1>11

SegsOf(segs, n) == \A l \in 0..n : segs[l] \in Nat \ {0}

LEMMA RowsTurn ==
    ASSUME NEW B, NEW N, NestedIn(B, N), NEW n \in Nat, NEW segs, SegsOf(segs, n),
           NEW S, S = segs[n], NEW r \in Seq(ScreenRow), NEW u, RowsKnow(B, segs, n, r), RowsOf(B, S, n, u),
           NEW v, v = r \o u
    PROVE  RowsKnow(B, segs, n + 1, v)
<1>0. segs[n] \in Nat \ {0} /\ \A l \in 0..(n - 1) : segs[l] \in Nat \ {0}
  BY DEF SegsOf
<1>2. u \in Seq(ScreenRow)
  BY DEF RowsOf
<1>3. v \in Seq(ScreenRow) /\ Len(r) \in Nat /\ Len(u) \in Nat /\ Joined(r, u, v)
  <2>1. Len(r) \in Nat /\ Len(u) \in Nat
    BY <1>2, LenProperties
  <2>2. /\ v \in Seq(ScreenRow) /\ Len(v) = Len(r) + Len(u)
        /\ \A i \in 1..(Len(r) + Len(u)) : v[i] = IF i <= Len(r) THEN r[i] ELSE u[i - Len(r)]
    BY <1>2, ConcatProperties
  <2>3. \A i \in 1..Len(r) : v[i] = r[i]
    BY <2>1, <2>2
  <2>4. \A i \in 1..Len(u) : v[Len(r) + i] = u[i]
    <3> SUFFICES ASSUME NEW i \in 1..Len(u) PROVE v[Len(r) + i] = u[i]
      OBVIOUS
    <3>1. Len(r) + i \in 1..(Len(r) + Len(u)) /\ ~(Len(r) + i <= Len(r)) /\ (Len(r) + i) - Len(r) = i
      BY <2>1
    <3> QED BY <2>2, <3>1
  <2> QED BY <2>1, <2>2, <2>3, <2>4 DEF Joined
<1>4. /\ \A i \in 1..Len(r) : RowIs(B, n, r[i])
      /\ \A i, j \in 1..Len(r) : i < j => r[i].ln <= r[j].ln
      /\ \A l \in 0..(n - 1) : ~Hides(B, l) => \E from \in 1..Len(r) : RunAt(r, l, from, segs[l])
      /\ \A b \in B : b[1] < n /\ ~Hides(B, b[1]) => \E i \in 1..Len(r) : SumAt(r, b, i)
  BY DEF RowsKnow
<1>5. /\ Len(v) = Len(r) + Len(u)
      /\ \A i \in 1..Len(r) : v[i] = r[i] /\ i \in 1..Len(v)
      /\ \A i \in 1..Len(u) : v[Len(r) + i] = u[i]
  BY <1>3 DEF Joined
<1>6. ASSUME NEW i \in 1..Len(r) PROVE r[i].ln \in Nat /\ r[i].ln < n /\ r[i].ln # n /\ RowIs(B, n + 1, r[i])
  <2>1. r[i] \in ScreenRow
    BY ElementOfSeq
  <2>2. r[i].ln \in Nat
    BY <2>1 DEF ScreenRow
  <2>3. RowIs(B, n, r[i])
    BY <1>4
  <2>4. r[i].ln < n
    BY <2>3 DEF RowIs
  <2>5. r[i].ln < n + 1 /\ r[i].ln # n
    BY <2>2, <2>4
  <2>6. RowIs(B, n + 1, r[i])
    BY <2>3, <2>5 DEF RowIs
  <2> QED BY <2>2, <2>4, <2>5, <2>6
<1>20. ASSUME ~Hides(B, n)
       PROVE  /\ \A i \in 1..Len(u) : u[i].ln = n /\ RowIs(B, n + 1, u[i])
              /\ Len(r) + 1 \in 1..Len(v) /\ RunAt(v, n, Len(r) + 1, segs[n])
              /\ \A b \in B : b[1] = n => \E i \in 1..Len(v) : SumAt(v, b, i)
  <2>1. S = segs[n] /\ S \in Nat \ {0}
    BY <1>0
  <2>2. RowsOf(B, S, n, u) /\ \A i \in 1..Len(r) : r[i].ln # n
    BY <1>6, <2>1
  <2>3. Joined(r, u, v) /\ Len(r) \in Nat /\ NestedIn(B, N) /\ n \in Nat /\ S \in Nat \ {0}
    BY <1>3, <2>1
  <2>4. /\ \A i \in 1..Len(u) : u[i].ln = n /\ RowIs(B, n + 1, u[i])
        /\ Len(r) + 1 \in 1..Len(v) /\ RunAt(v, n, Len(r) + 1, S)
        /\ \A b \in B : b[1] = n => \E i \in 1..Len(v) : SumAt(v, b, i)
    BY ONLY <1>20, <2>2, <2>3, OwnJoin
  <2> QED BY <2>1, <2>4
<1>7. \A i \in 1..Len(u) : u[i].ln = n /\ RowIs(B, n + 1, u[i])
  <2>1. CASE Hides(B, n)
    BY <1>3, <2>1 DEF RowsOf
  <2> QED BY <1>20, <2>1
<1>8. ASSUME NEW i \in 1..Len(v)
      PROVE  \/ i \in 1..Len(r) /\ v[i] = r[i]
             \/ i > Len(r) /\ i - Len(r) \in 1..Len(u) /\ v[i] = u[i - Len(r)]
  <2>1. CASE i <= Len(r)
    BY <1>3, <1>5, <2>1
  <2>2. CASE i > Len(r)
    <3>1. i - Len(r) \in 1..Len(u) /\ Len(r) + (i - Len(r)) = i
      BY <1>3, <1>5, <2>2
    <3> QED BY <1>5, <2>2, <3>1
  <2> QED BY <1>3, <1>5, <2>1, <2>2
<1>9. \A i \in 1..Len(v) : RowIs(B, n + 1, v[i])
  BY <1>6, <1>7, <1>8
<1>10. ASSUME NEW i \in 1..Len(v), NEW j \in 1..Len(v), i < j PROVE v[i].ln <= v[j].ln
  <2>1. CASE i \in 1..Len(r) /\ j \in 1..Len(r)
    BY <1>4, <1>5, <1>10, <2>1
  <2>2. CASE i \in 1..Len(r) /\ j - Len(r) \in 1..Len(u) /\ v[j] = u[j - Len(r)]
    <3>1. v[i].ln \in Nat /\ v[i].ln < n /\ v[j].ln = n
      BY <1>6, <1>7, <1>5, <2>2
    <3> QED BY <3>1
  <2>3. CASE i > Len(r) /\ i - Len(r) \in 1..Len(u) /\ v[i] = u[i - Len(r)] /\ j - Len(r) \in 1..Len(u) /\ v[j] = u[j - Len(r)]
    <3>1. v[i].ln = n /\ v[j].ln = n
      BY <1>7, <2>3
    <3> QED BY <3>1
  <2>4. CASE i > Len(r) /\ j \in 1..Len(r)
    BY <1>3, <1>10, <2>4
  <2> QED BY <1>8, <2>1, <2>2, <2>3, <2>4
<1>11. ASSUME NEW l \in 0..n, ~Hides(B, l) PROVE \E from \in 1..Len(v) : RunAt(v, l, from, segs[l])
  <2>1. CASE l = n
    <3>1. Len(r) + 1 \in 1..Len(v) /\ RunAt(v, n, Len(r) + 1, segs[n])
      BY <1>11, <1>20, <2>1
    <3> QED BY <2>1, <3>1
  <2>2. CASE l # n
    <3>1. l \in 0..(n - 1)
      BY <2>2
    <3>2. PICK from \in 1..Len(r) : RunAt(r, l, from, segs[l])
      BY <1>4, <1>11, <3>1
    <3>3. segs[l] \in Nat \ {0}
      BY <1>0, <3>1
    <3>5. PICK m \in Nat \ {0} : m = segs[l]
      BY <3>3
    <3>6. RunAt(r, l, from, m) /\ from \in 1..Len(r) /\ m \in Nat \ {0} /\ l # n
      BY <2>2, <3>2, <3>5
    <3>7. /\ Joined(r, u, v) /\ Len(r) \in Nat /\ Len(u) \in Nat
          /\ \A i \in 1..Len(u) : u[i].ln = n
      BY <1>3, <1>7
    <3>8. from \in 1..Len(v) /\ RunAt(v, l, from, m)
      BY ONLY <3>6, <3>7, OthersJoin
    <3>4. from \in 1..Len(v) /\ RunAt(v, l, from, segs[l])
      BY <3>5, <3>8
    <3> QED BY <3>4
  <2> QED BY <2>1, <2>2
<1>12. ASSUME NEW b \in B, b[1] < n + 1, ~Hides(B, b[1]) PROVE \E i \in 1..Len(v) : SumAt(v, b, i)
  <2>1. CASE b[1] = n
    BY <1>12, <1>20, <2>1
  <2>2. CASE b[1] # n
    <3>1. b[1] < n
      BY <1>12, <2>2 DEF NestedIn
    <3>2. PICK i \in 1..Len(r) : SumAt(r, b, i)
      BY <1>4, <1>12, <3>1
    <3>4. PICK l : l = b[1]
      OBVIOUS
    <3>5. b[1] = l /\ l # n /\ i \in 1..Len(r) /\ SumAt(r, b, i)
      BY <2>2, <3>2, <3>4
    <3>7. /\ Joined(r, u, v) /\ Len(r) \in Nat /\ Len(u) \in Nat
          /\ \A j \in 1..Len(u) : u[j].ln = n
      BY <1>3, <1>7
    <3>3. i \in 1..Len(v) /\ SumAt(v, b, i)
      BY ONLY <3>5, <3>7, OthersJoin
    <3> QED BY <3>3
  <2> QED BY <2>1, <2>2
<1>13. \A l \in 0..((n + 1) - 1) : l \in 0..n
  OBVIOUS
<1>14. RowsKnow(B, segs, n + 1, v)
  BY <1>9, <1>10, <1>11, <1>12, <1>13 DEF RowsKnow
<1> QED BY <1>14

\* The rows after each line.
RowRun(k, t, f, wrap) ==
    /\ k \in [0..Len(t) -> Seq(ScreenRow)] /\ k[0] = <<>>
    /\ \A n \in 1..Len(t) : k[n] = k[n - 1] \o LineRows(t, f, wrap, n - 1)
    /\ DispRows(t, f, wrap) = k[Len(t)]

LEMMA RowRuns ==
    ASSUME NEW t \in FoldText, NEW f, NEW wrap \in BOOLEAN
    PROVE  \E k : RowRun(k, t, f, wrap)
<1> DEFINE SoFar(g, n) == IF n = 0 THEN <<>> ELSE g[n - 1] \o LineRows(t, f, wrap, n - 1)
           Made(g) == g = [n \in 0..Len(t) |-> SoFar(g, n)]
           turn == [n \in 1..Len(t) |-> [a \in Seq(ScreenRow) |-> a \o LineRows(t, f, wrap, n - 1)]]
           k == CHOOSE g : Made(g)
<1>1. Len(t) \in Nat /\ \A n \in 1..Len(t) : n - 1 \in Lines(t)
  BY FoldTextIs
<1>2. ASSUME NEW n \in 1..Len(t), NEW a \in Seq(ScreenRow)
      PROVE  a \o LineRows(t, f, wrap, n - 1) \in Seq(ScreenRow)
  <2>1. PICK u : u = LineRows(t, f, wrap, n - 1)
    OBVIOUS
  <2>2. u \in Seq(ScreenRow)
    BY <1>1, <2>1, LineRowsAre DEF RowsOf
  <2>3. a \o u \in Seq(ScreenRow)
    BY <2>2, ConcatProperties
  <2> QED BY <2>1, <2>3
<1>3. turn \in [1..Len(t) -> [Seq(ScreenRow) -> Seq(ScreenRow)]]
  BY <1>2
<1>4. <<>> \in Seq(ScreenRow)
  BY EmptySeq
<1>5. PICK g : Runs(Len(t), Seq(ScreenRow), <<>>, turn, g)
  <2> HIDE DEF turn
  <2> QED BY <1>1, <1>3, <1>4, LoopRuns
<1>6. Made(g)
  <2>1. ASSUME NEW n \in 0..Len(t)
        PROVE  g[n] = IF n = 0 THEN <<>> ELSE g[n - 1] \o LineRows(t, f, wrap, n - 1)
    <3>1. CASE n = 0
      BY <3>1, <1>5 DEF Runs
    <3>2. CASE n # 0
      <4>1. n \in 1..Len(t) /\ n - 1 \in 0..Len(t)
        BY <3>2, <1>1
      <4>2. g[n] = turn[n][g[n - 1]] /\ g[n - 1] \in Seq(ScreenRow)
        <5> HIDE DEF turn
        <5> QED BY <4>1, <1>5 DEF Runs
      <4> QED BY <4>1, <4>2, <3>2
    <3> QED BY <3>1, <3>2
  <2>2. g = [n \in 0..Len(t) |-> g[n]]
    BY <1>5 DEF Runs
  <2> HIDE DEF turn
  <2> QED BY <2>1, <2>2
<1>7. Made(k)
  <2> HIDE DEF Made
  <2> QED BY <1>6
<1>8. DispRows(t, f, wrap) = k[Len(t)]
  BY DEF DispRows
<1> HIDE DEF k
<1>9. k[0] = <<>> /\ \A n \in 1..Len(t) : k[n] = k[n - 1] \o LineRows(t, f, wrap, n - 1)
  <2>1. ASSUME NEW n \in 0..Len(t)
        PROVE  k[n] = IF n = 0 THEN <<>> ELSE k[n - 1] \o LineRows(t, f, wrap, n - 1)
    <3>1. k[n] = SoFar(k, n)
      <4> HIDE DEF SoFar
      <4> QED BY <1>7
    <3> QED BY <3>1
  <2> HIDE DEF Made
  <2>2. k[0] = <<>>
    BY <2>1, <1>1
  <2>3. ASSUME NEW n \in 1..Len(t) PROVE k[n] = k[n - 1] \o LineRows(t, f, wrap, n - 1)
    <3>1. n \in 0..Len(t) /\ n # 0
      BY <1>1
    <3> QED BY <2>1, <3>1
  <2> QED BY <2>2, <2>3
<1>10. ASSUME NEW m \in 0..(Len(t) - 1), k[m] \in Seq(ScreenRow) PROVE k[m + 1] \in Seq(ScreenRow)
  <2>1. m + 1 \in 1..Len(t) /\ (m + 1) - 1 = m
    BY <1>1
  <2>2. k[m + 1] = k[m] \o LineRows(t, f, wrap, (m + 1) - 1)
    BY <2>1, <1>9
  <2> QED BY <2>1, <2>2, <1>2, <1>10
<1>11. \A m \in 0..Len(t) : k[m] \in Seq(ScreenRow)
  BY <1>1, <1>4, <1>9, <1>10, StaysIn
<1>12. k = [m \in 0..Len(t) |-> k[m]]
  BY <1>7
<1> HIDE DEF Made
<1> QED BY <1>8, <1>9, <1>11, <1>12 DEF RowRun

LEMMA RowsAre ==
    ASSUME NEW t \in FoldText, NEW f, NEW wrap \in BOOLEAN
    PROVE  /\ DispRows(t, f, wrap) \in Seq(ScreenRow)
           /\ RowsKnow(Folded(t, f), [l \in Lines(t) |-> Segments(t, wrap, l)], Len(t), DispRows(t, f, wrap))
<1>1. PICK N \in Nat : N = Len(t) /\ Lines(t) = 0..(N - 1)
  BY FoldTextIs
<1>2. PICK B : B = Folded(t, f) /\ NestedIn(B, N)
  BY <1>1, FoldedNest
<1>3. PICK segs : segs = [l \in Lines(t) |-> Segments(t, wrap, l)]
  OBVIOUS
<1>4. \A l \in 0..(N - 1) : segs[l] \in Nat \ {0} /\ segs[l] = Segments(t, wrap, l)
  BY <1>1, <1>3, SegmentsAre
<1>5. PICK k : RowRun(k, t, f, wrap)
  BY RowRuns
<1> DEFINE T == {n \in 0..N : RowsKnow(B, segs, n, k[n])}
<1>6. 0 \in T
  <2>1. k[0] = <<>> /\ Len(<<>>) = 0
    BY <1>5, EmptySeq DEF RowRun
  <2>2. \A b \in B : ~(b[1] < 0)
    BY <1>2 DEF NestedIn
  <2>3. PICK r : r = k[0]
    OBVIOUS
  <2>4. Len(r) = 0
    BY <2>1, <2>3
  <2>5. RowsKnow(B, segs, 0, r)
    BY <2>2, <2>4 DEF RowsKnow
  <2> QED BY <1>1, <2>3, <2>5
<1>7. ASSUME NEW n \in 0..(N - 1), n \in T PROVE n + 1 \in T
  <2>1. n \in Lines(t) /\ n + 1 \in 1..N /\ (n + 1) - 1 = n /\ n \in 0..N /\ n \in Nat
    BY <1>1
  <2>2. PICK r \in Seq(ScreenRow) : r = k[n]
    BY <1>1, <1>5, <2>1 DEF RowRun
  <2>3. PICK u : u = LineRows(t, f, wrap, n)
    OBVIOUS
  <2>4. k[n + 1] = r \o u
    <3>1. k[n + 1] = k[(n + 1) - 1] \o LineRows(t, f, wrap, (n + 1) - 1)
      BY <1>1, <1>5, <2>1 DEF RowRun
    <3> QED BY <2>1, <2>2, <2>3, <3>1
  <2>10. PICK S : S = segs[n]
    OBVIOUS
  <2>5. RowsOf(B, S, n, u)
    BY <1>2, <1>4, <2>1, <2>3, <2>10, LineRowsAre
  <2>6. RowsKnow(B, segs, n, r)
    BY <1>7, <2>2
  <2>7. SegsOf(segs, n)
    BY <1>1, <1>4 DEF SegsOf
  <2>9. PICK v : v = r \o u
    OBVIOUS
  <2>8. RowsKnow(B, segs, n + 1, v)
    <3>1. NestedIn(B, N) /\ n \in Nat /\ r \in Seq(ScreenRow)
      BY <1>2, <2>1
    <3> QED BY ONLY <3>1, <2>5, <2>6, <2>7, <2>9, <2>10, RowsTurn
  <2>11. k[n + 1] = v
    BY <2>4, <2>9
  <2>12. RowsKnow(B, segs, n + 1, k[n + 1])
    BY <2>8, <2>11
  <2>13. n + 1 \in 0..N
    BY <2>1
  <2> QED BY <2>12, <2>13
<1>8. RowsKnow(B, segs, N, k[N])
  <2>1. \A n \in 0..N : n \in T
    <3> HIDE DEF T
    <3> QED BY <1>6, <1>7, UpTo
  <2> QED BY <2>1
<1>9. DispRows(t, f, wrap) = k[N] /\ k[N] \in Seq(ScreenRow)
  BY <1>1, <1>5 DEF RowRun
<1> QED BY <1>1, <1>2, <1>3, <1>8, <1>9

LEMMA FoldsTypedIs ==
    ASSUME FoldTypeOK
    PROVE  /\ fText \in FoldText /\ fWrap \in BOOLEAN /\ fLine \in Lines(fText) /\ fOff \in Nat
           /\ folds \subseteq Nat /\ fSeg \in 0..(fText[fLine + 1].segs - 1)
BY DEF FoldTypeOK, FoldText

\* Of the blocks that hide a line only the outermost starts on a line that is shown.
LEMMA OutermostShown ==
    ASSUME NEW B, NEW N, NestedIn(B, N), NEW l \in Nat, Hides(B, l)
    PROVE  \E b \in B : /\ b[1] < l /\ l <= b[2] /\ ~Hides(B, b[1])
                        /\ \A c \in B : c[1] < l /\ l <= c[2] /\ ~Hides(B, c[1]) => c = b
<1>1. /\ \A b \in B : b[1] \in Nat /\ b[2] \in Nat
      /\ \A b, c \in B : b[1] = c[1] => b = c
      /\ \A b, c \in B : b[1] < c[1] /\ c[1] <= b[2] => c[2] <= b[2]
  BY DEF NestedIn
<1> DEFINE H == {b \in B : b[1] < l /\ l <= b[2]}
           starts == {b[1] : b \in H}
<1>2. starts \subseteq Nat /\ starts # {}
  BY <1>1 DEF Hides
<1>3. PICK x \in starts : \A y \in starts : x <= y
  <2> HIDE DEF starts
  <2> QED BY <1>2, Least
<1>4. PICK b \in B : b[1] < l /\ l <= b[2] /\ b[1] = x
  OBVIOUS
<1>5. ASSUME NEW c \in B, c[1] < l, l <= c[2] PROVE b[1] <= c[1]
  BY <1>3, <1>4, <1>5
<1>6. ~Hides(B, b[1])
  <2> SUFFICES ASSUME NEW c \in B, c[1] < b[1], b[1] <= c[2] PROVE FALSE
    BY DEF Hides
  <2>1. b[2] <= c[2]
    BY <1>1
  <2>2. c[1] < l /\ l <= c[2]
    BY <1>1, <1>4, <2>1
  <2> QED BY <1>1, <1>5, <2>2
<1>7. ASSUME NEW c \in B, c[1] < l, l <= c[2], ~Hides(B, c[1]) PROVE c = b
  <2>1. b[1] <= c[1]
    BY <1>5, <1>7
  <2>2. ~(b[1] < c[1])
    <3> SUFFICES ASSUME b[1] < c[1] PROVE FALSE
      OBVIOUS
    <3>1. c[1] <= b[2]
      BY <1>1, <1>4, <1>7
    <3> QED BY <1>7, <3>1 DEF Hides
  <2>3. b[1] = c[1]
    BY <1>1, <2>1, <2>2
  <2> QED BY <1>1, <2>3
<1> QED BY <1>4, <1>6, <1>7

\* Every line is on the screen once, or counted by exactly one summary.
LEMMA RowsCover ==
    ASSUME FoldTypeOK
    PROVE  RowsCoverTheText
<1> DEFINE rows == DispRows(fText, folds, fWrap)
           Shown(l) == {i \in DOMAIN rows : rows[i].ln = l /\ rows[i].hidden = 0}
           Counting(l) == {i \in DOMAIN rows : rows[i].hidden > 0 /\ l \in rows[i].ln + 1..rows[i].ln + rows[i].hidden}
<1>1. fText \in FoldText /\ fWrap \in BOOLEAN
  BY FoldsTypedIs
<1>2. PICK N \in Nat : N = Len(fText) /\ Lines(fText) = 0..(N - 1)
  BY <1>1, FoldTextIs
<1>3. PICK B : B = Folded(fText, folds) /\ NestedIn(B, N)
  BY <1>1, <1>2, FoldedNest
<1>4. PICK segs : segs = [l \in Lines(fText) |-> Segments(fText, fWrap, l)]
  OBVIOUS
<1>5. \A l \in Lines(fText) : segs[l] = Segments(fText, fWrap, l) /\ segs[l] \in Nat \ {0}
  BY <1>1, <1>4, SegmentsAre
<1>6. rows \in Seq(ScreenRow) /\ RowsKnow(B, segs, N, rows)
  BY <1>1, <1>2, <1>3, <1>4, RowsAre
<1> HIDE DEF rows
<1>7. DOMAIN rows = 1..Len(rows) /\ Len(rows) \in Nat
  BY <1>6, LenProperties
<1>8. \A i \in DOMAIN rows : rows[i].ln \in Nat /\ rows[i].hidden \in Nat
  <2>1. \A i \in DOMAIN rows : rows[i] \in ScreenRow
    BY <1>6, <1>7, ElementOfSeq
  <2>2. \A x \in ScreenRow : x.ln \in Nat /\ x.hidden \in Nat
    BY DEF ScreenRow
  <2> QED BY <2>1, <2>2
<1>9. /\ \A i \in DOMAIN rows : RowIs(B, N, rows[i])
      /\ \A i, j \in DOMAIN rows : i < j => rows[i].ln <= rows[j].ln
      /\ \A l \in 0..(N - 1) : ~Hides(B, l) => \E from \in DOMAIN rows : RunAt(rows, l, from, segs[l])
      /\ \A b \in B : b[1] < N /\ ~Hides(B, b[1]) => \E i \in DOMAIN rows : SumAt(rows, b, i)
  BY <1>6, <1>7 DEF RowsKnow
<1>10. \A b \in B : b[1] \in Nat /\ b[2] \in Nat /\ b[1] < b[2] /\ b[2] < N
  BY <1>3 DEF NestedIn
<1>11. ASSUME NEW l \in Lines(fText), NEW i \in DOMAIN rows
       PROVE  i \in Counting(l) <=>
                  /\ rows[i].hidden > 0
                  /\ \E b \in B : b[1] = rows[i].ln /\ ~Hides(B, b[1]) /\ b[1] < l /\ l <= b[2]
  <2>1. RowIs(B, N, rows[i]) /\ rows[i].ln \in Nat /\ rows[i].hidden \in Nat /\ l \in Nat
    BY <1>2, <1>8, <1>9
  <2>2. ASSUME rows[i].hidden > 0, l \in rows[i].ln + 1..rows[i].ln + rows[i].hidden
        PROVE  \E b \in B : b[1] = rows[i].ln /\ ~Hides(B, b[1]) /\ b[1] < l /\ l <= b[2]
    <3>1. PICK b \in B : b[1] = rows[i].ln /\ rows[i].hidden = b[2] - b[1] /\ ~Hides(B, rows[i].ln)
      BY <2>1, <2>2 DEF RowIs
    <3> QED BY <1>10, <2>1, <2>2, <3>1
  <2>3. ASSUME rows[i].hidden > 0, NEW b \in B, b[1] = rows[i].ln, b[1] < l, l <= b[2]
        PROVE  l \in rows[i].ln + 1..rows[i].ln + rows[i].hidden
    <3>1. PICK c \in B : c[1] = rows[i].ln /\ rows[i].hidden = c[2] - c[1]
      BY <2>1, <2>3 DEF RowIs
    <3>2. c = b
      BY <1>3, <2>3, <3>1 DEF NestedIn
    <3> QED BY <1>10, <2>1, <2>3, <3>1, <3>2
  <2> QED BY <2>2, <2>3
<1>12. ASSUME NEW l \in Lines(fText), ~Hides(B, l)
       PROVE  /\ Counting(l) = {}
              /\ \E from \in DOMAIN rows :
                     /\ Shown(l) = from..from + Segments(fText, fWrap, l) - 1
                     /\ \A i \in Shown(l) : rows[i].seg = i - from
  <2>1. Counting(l) = {}
    <3>1. \A i \in Counting(l) : i \in DOMAIN rows
      OBVIOUS
    <3> HIDE DEF Counting
    <3>2. \A i \in DOMAIN rows : i \notin Counting(l)
      BY <1>11, <1>12 DEF Hides
    <3> QED BY <3>1, <3>2
  <2>2. PICK from \in DOMAIN rows : RunAt(rows, l, from, segs[l])
    BY <1>2, <1>9, <1>12
  <2>3. PICK S \in Nat \ {0} : S = segs[l] /\ S = Segments(fText, fWrap, l)
    BY <1>5
  <2>4. /\ from + S - 1 <= Len(rows)
        /\ \A i \in 1..Len(rows) : /\ rows[i].ln = l /\ rows[i].hidden = 0 <=> from <= i /\ i <= from + S - 1
                                   /\ rows[i].ln = l /\ rows[i].hidden = 0 => rows[i].seg = i - from
    BY <2>2, <2>3 DEF RunAt
  <2>5. ASSUME NEW i PROVE i \in Shown(l) <=> i \in from..from + S - 1
    <3>1. i \in Shown(l) => i \in from..from + S - 1
      BY <1>7, <2>4
    <3>2. ASSUME i \in from..from + S - 1 PROVE i \in Shown(l)
      <4>1. i \in 1..Len(rows) /\ from <= i /\ i <= from + S - 1
        BY <1>7, <2>4, <3>2
      <4> QED BY <1>7, <2>4, <4>1
    <3> QED BY <3>1, <3>2
  <2>6. Shown(l) = from..from + S - 1
    BY <2>5
  <2>7. \A i \in Shown(l) : rows[i].seg = i - from
    BY <1>7, <2>4
  <2> HIDE DEF Shown, Counting
  <2> QED BY <2>1, <2>3, <2>6, <2>7
<1>13. ASSUME NEW l \in Lines(fText), Hides(B, l)
       PROVE  Counting(l) # {} /\ Shown(l) = {} /\ \E i \in DOMAIN rows : Counting(l) = {i}
  <2>1. \A i \in DOMAIN rows : ~Hides(B, rows[i].ln)
    BY <1>9 DEF RowIs
  <2>2. Shown(l) = {}
    BY <1>13, <2>1
  <2>3. PICK b \in B : /\ b[1] < l /\ l <= b[2] /\ ~Hides(B, b[1])
                       /\ \A c \in B : c[1] < l /\ l <= c[2] /\ ~Hides(B, c[1]) => c = b
    <3>1. l \in Nat
      BY <1>2
    <3> QED BY <1>3, <1>13, <3>1, OutermostShown
  <2>4. PICK i \in DOMAIN rows : SumAt(rows, b, i)
    BY <1>2, <1>9, <1>10, <2>3
  <2>5. \A j \in DOMAIN rows : rows[j].ln = b[1] /\ rows[j].hidden > 0 <=> j = i
    BY <1>7, <2>4 DEF SumAt
  <2>6. ASSUME NEW j \in DOMAIN rows PROVE j \in Counting(l) <=> j = i
    <3> HIDE DEF Counting
    <3>1. j \in Counting(l) => j = i
      BY <1>11, <2>3, <2>5
    <3>2. i \in Counting(l)
      BY <1>11, <2>3, <2>5
    <3> QED BY <3>1, <3>2
  <2>7. \A j \in Counting(l) : j \in DOMAIN rows
    OBVIOUS
  <2> HIDE DEF Counting, Shown
  <2>8. Counting(l) = {i}
    BY <2>6, <2>7
  <2> QED BY <2>2, <2>8
<1>14. /\ \A i, j \in DOMAIN rows : i < j => rows[i].ln <= rows[j].ln
       /\ \A l \in Lines(fText) :
              IF Counting(l) = {}
              THEN \E from \in DOMAIN rows :
                       /\ Shown(l) = from..from + Segments(fText, fWrap, l) - 1
                       /\ \A i \in Shown(l) : rows[i].seg = i - from
              ELSE Shown(l) = {} /\ \E i \in DOMAIN rows : Counting(l) = {i}
  <2> HIDE DEF Counting, Shown
  <2> QED BY <1>9, <1>12, <1>13
<1> QED BY <1>14 DEF RowsCoverTheText, rows

(***************************************************************************)
(* The caret.                                                              *)
(***************************************************************************)
LEMMA MaxOf ==
    ASSUME NEW S, S \subseteq Int, NEW x \in S, \A y \in S : y <= x
    PROVE  Max(S) = x
<1>1. x >= x /\ \A y \in S : x >= y
  OBVIOUS
<1>2. PICK m : m = Max(S)
  OBVIOUS
<1>3. m \in S /\ \A y \in S : m >= y
  BY <1>1, <1>2 DEF Max
<1> QED BY <1>2, <1>3


\* The windows of the search for a line's first row.
Window == [lo : Int, hi : Int]
MiddleOf(w) == (w.lo + w.hi) \div 2
AllRows(rows) == [lo |-> 1, hi |-> Len(rows)]

WindowRun(g, rows, l) ==
    /\ g \in [0..Len(rows) -> Window] /\ g[0] = AllRows(rows)
    /\ \A n \in 1..Len(rows) : g[n] = Narrowed(rows, l, g[n - 1])
    /\ IndexOfLine(rows, l) = LET end == g[Len(rows)] IN IF end.lo > end.hi THEN 0 ELSE MiddleOf(end)

LEMMA NarrowedType ==
    ASSUME NEW rows, NEW l, NEW w \in Window
    PROVE  Narrowed(rows, l, w) \in Window /\ MiddleOf(w) \in Int
<1>1. PICK mid \in Int : mid = (w.lo + w.hi) \div 2
  BY DEF Window
<1>2. [w EXCEPT !.lo = mid + 1] \in Window /\ [w EXCEPT !.hi = mid - 1] \in Window
  BY DEF Window
<1>3. MiddleOf(w) = mid
  BY <1>1 DEF MiddleOf
<1> QED BY <1>1, <1>2, <1>3 DEF Narrowed

LEMMA WindowRuns ==
    ASSUME NEW rows, Len(rows) \in Nat, NEW l
    PROVE  \E g : WindowRun(g, rows, l)
<1> DEFINE SoFar(g, n) == IF n = 0 THEN [lo |-> 1, hi |-> Len(rows)] ELSE Narrowed(rows, l, g[n - 1])
           Made(g) == g = [n \in 0..Len(rows) |-> SoFar(g, n)]
           turn == [n \in 1..Len(rows) |-> [a \in Window |-> Narrowed(rows, l, a)]]
           k == CHOOSE g : Made(g)
<1>2. ASSUME NEW n \in 1..Len(rows), NEW a \in Window PROVE Narrowed(rows, l, a) \in Window
  BY NarrowedType
<1>3. turn \in [1..Len(rows) -> [Window -> Window]]
  BY <1>2
<1>4. [lo |-> 1, hi |-> Len(rows)] \in Window
  BY DEF Window
<1>5. PICK g : Runs(Len(rows), Window, [lo |-> 1, hi |-> Len(rows)], turn, g)
  <2> HIDE DEF turn
  <2> QED BY <1>3, <1>4, LoopRuns
<1>6. Made(g)
  <2>1. ASSUME NEW n \in 0..Len(rows) PROVE g[n] = SoFar(g, n)
    <3>1. CASE n = 0
      BY <3>1, <1>5 DEF Runs
    <3>2. CASE n # 0
      <4>1. n \in 1..Len(rows) /\ n - 1 \in 0..Len(rows)
        BY <3>2
      <4>2. g[n] = turn[n][g[n - 1]] /\ g[n - 1] \in Window
        <5> HIDE DEF turn
        <5> QED BY <4>1, <1>5 DEF Runs
      <4> QED BY <4>1, <4>2, <3>2
    <3> QED BY <3>1, <3>2
  <2>2. g = [n \in 0..Len(rows) |-> g[n]]
    BY <1>5 DEF Runs
  <2> HIDE DEF turn, SoFar
  <2> QED BY <2>1, <2>2
<1>7. Made(k)
  <2> HIDE DEF Made
  <2> QED BY <1>6
<1>8. IndexOfLine(rows, l) = LET end == k[Len(rows)] IN IF end.lo > end.hi THEN 0 ELSE MiddleOf(end)
  BY DEF IndexOfLine, MiddleOf
<1> HIDE DEF k
<1>9. k[0] = [lo |-> 1, hi |-> Len(rows)] /\ \A n \in 1..Len(rows) : k[n] = Narrowed(rows, l, k[n - 1])
  <2>1. ASSUME NEW n \in 0..Len(rows)
        PROVE  k[n] = IF n = 0 THEN [lo |-> 1, hi |-> Len(rows)] ELSE Narrowed(rows, l, k[n - 1])
    <3>1. k[n] = SoFar(k, n)
      <4> HIDE DEF SoFar
      <4> QED BY <1>7
    <3> QED BY <3>1
  <2> HIDE DEF Made
  <2>2. k[0] = [lo |-> 1, hi |-> Len(rows)]
    BY <2>1
  <2>3. ASSUME NEW n \in 1..Len(rows) PROVE k[n] = Narrowed(rows, l, k[n - 1])
    <3>1. n \in 0..Len(rows) /\ n # 0
      OBVIOUS
    <3> QED BY <2>1, <3>1
  <2> QED BY <2>2, <2>3
<1>10. ASSUME NEW m \in 0..(Len(rows) - 1), k[m] \in Window PROVE k[m + 1] \in Window
  <2>1. m + 1 \in 1..Len(rows) /\ (m + 1) - 1 = m
    OBVIOUS
  <2>2. k[m + 1] = Narrowed(rows, l, k[m])
    <3>1. k[m + 1] = Narrowed(rows, l, k[(m + 1) - 1])
      BY <2>1, <1>9
    <3> QED BY <2>1, <3>1
  <2> QED BY <2>1, <2>2, <1>2, <1>10
<1>11. \A m \in 0..Len(rows) : k[m] \in Window
  BY <1>4, <1>9, <1>10, StaysIn
<1>12. k = [m \in 0..Len(rows) |-> k[m]]
  BY <1>7
<1> HIDE DEF Made
<1> QED BY <1>8, <1>9, <1>11, <1>12 DEF WindowRun, AllRows

\* A window after k turns: the row is met, or k rows at least are out; and where no summary
\* is in the way the row is in the window.
Met(rows, l, w) ==
    w.lo <= w.hi /\ MiddleOf(w) \in 1..Len(rows) /\ rows[MiddleOf(w)].ln = l /\ rows[MiddleOf(w)].seg = 0
Searching(rows, l, top, k, w) ==
    /\ w \in Window /\ 1 <= w.lo /\ w.hi <= Len(rows)
    /\ Met(rows, l, w) \/ w.hi - w.lo < Len(rows) - k
    /\ (\A i \in 1..Len(rows) : rows[i].ln = l => rows[i].seg # -1) => w.lo <= top /\ top <= w.hi

\* The row of a line its others of text come behind, of n in line order.
TopOf(rows, n, l, top) ==
    /\ n = Len(rows)
    /\ \A i, j \in 1..n : i < j => rows[i].ln <= rows[j].ln
    /\ rows[top].ln = l /\ rows[top].seg = 0
    /\ \A i \in 1..n : rows[i].ln = l /\ rows[i].seg # -1 => top <= i
    /\ \A i \in 1..n : rows[i].ln = l /\ rows[i].seg # -1 /\ i # top => rows[i].seg # 0

\* The row, or none, which takes a summary of the line.
TopOrMissed(rows, n, l, top, x) ==
    x = top \/ (x = 0 /\ \E i \in 1..n : rows[i].ln = l /\ rows[i].seg = -1)

LEMMA SearchTurnKeeps ==
    ASSUME NEW rows \in Seq(ScreenRow), NEW n \in Nat, NEW l \in Nat,
           NEW top \in 1..n, TopOf(rows, n, l, top),
           NEW k \in 0..(n - 1), NEW w, Searching(rows, l, top, k, w)
    PROVE  Searching(rows, l, top, k + 1, Narrowed(rows, l, w))
<1>20. /\ n = Len(rows)
       /\ \A i, j \in 1..n : i < j => rows[i].ln <= rows[j].ln
       /\ rows[top].ln = l /\ rows[top].seg = 0
       /\ \A i \in 1..n : rows[i].ln = l /\ rows[i].seg # -1 => top <= i
       /\ \A i \in 1..n : rows[i].ln = l /\ rows[i].seg # -1 /\ i # top => rows[i].seg # 0
  BY DEF TopOf
<1>21. n = Len(rows)
  BY <1>20
<1>1. PICK lo \in Int, hi \in Int : w = [lo |-> lo, hi |-> hi] /\ w.lo = lo /\ w.hi = hi /\ 1 <= lo /\ hi <= n
  BY <1>21 DEF Searching, Window
<1>2. PICK mid \in Int : mid = (lo + hi) \div 2 /\ MiddleOf(w) = mid /\ (lo <= hi => lo <= mid /\ mid <= hi)
  BY <1>1 DEF MiddleOf
<1> DEFINE NoSum == \A i \in 1..Len(rows) : rows[i].ln = l => rows[i].seg # -1
<1>3. /\ Met(rows, l, w) \/ hi - lo < n - k
      /\ NoSum => lo <= top /\ top <= hi
  BY <1>1, <1>21 DEF Searching
<1>4. CASE lo > hi \/ (rows[mid].ln = l /\ rows[mid].seg = 0)
  <2>1. Narrowed(rows, l, w) = w
    BY <1>1, <1>2, <1>4 DEF Narrowed
  <2>2. Met(rows, l, w) \/ hi - lo < n - (k + 1)
    <3>1. CASE lo > hi
      <4>1. hi - lo < 0 /\ 0 <= n - (k + 1)
        BY <3>1
      <4> QED BY <4>1
    <3>2. CASE ~(lo > hi)
      <4>1. lo <= hi /\ mid \in 1..n
        BY <1>1, <1>2, <3>2
      <4>2. MiddleOf(w) = mid /\ w.lo <= w.hi /\ rows[mid].ln = l /\ rows[mid].seg = 0
        BY <1>1, <1>2, <1>4, <3>2
      <4> QED BY <1>21, <4>1, <4>2 DEF Met
    <3> QED BY <3>1, <3>2
  <2>3. w \in Window /\ 1 <= w.lo /\ w.hi <= Len(rows)
    BY <1>1, <1>21 DEF Window
  <2>4. Met(rows, l, w) \/ w.hi - w.lo < Len(rows) - (k + 1)
    BY <1>1, <1>21, <2>2
  <2>5. NoSum => w.lo <= top /\ top <= w.hi
    BY <1>1, <1>3
  <2>6. Searching(rows, l, top, k + 1, w)
    BY <2>3, <2>4, <2>5 DEF Searching
  <2> QED BY <2>1, <2>6
<1>5. CASE lo <= hi /\ ~(rows[mid].ln = l /\ rows[mid].seg = 0)
  <2>1. mid \in 1..n
    BY <1>1, <1>2, <1>5
  <2>2. hi - lo < n - k
    <3>1. ~(rows[MiddleOf(w)].ln = l /\ rows[MiddleOf(w)].seg = 0)
      BY <1>2, <1>5
    <3>2. ~Met(rows, l, w)
      BY <3>1 DEF Met
    <3> QED BY <1>3, <3>2
  <2>3. PICK r \in ScreenRow : r = rows[mid]
    BY <1>21, <2>1, ElementOfSeq
  <2>4. r.ln \in Nat /\ r.seg \in Nat \cup {-1}
    BY <2>3 DEF ScreenRow
  <2>5. CASE r.ln < l \/ (r.ln = l /\ r.seg = -1)
    <3>1. Narrowed(rows, l, w) = [lo |-> mid + 1, hi |-> hi]
      <4>1. Narrowed(rows, l, w) = [w EXCEPT !.lo = mid + 1]
        BY <1>1, <1>2, <1>5, <2>3, <2>5 DEF Narrowed
      <4> QED BY <1>1, <4>1
    <3>2. hi - (mid + 1) < n - (k + 1)
      BY <1>2, <1>5, <2>2
    <3>3. ASSUME NoSum PROVE mid + 1 <= top /\ top <= hi
      <4>1. r.ln < l
        BY <1>20, <2>1, <2>3, <2>5, <3>3
      <4>2. ~(top < mid) /\ top # mid
        BY <1>20, <2>1, <2>3, <2>4, <4>1
      <4>3. lo <= top /\ top <= hi
        BY <1>3, <3>3
      <4> QED BY <2>1, <4>2, <4>3
    <3>4. 1 <= mid + 1
      BY <2>1
    <3> QED BY <1>21, <1>1, <3>1, <3>2, <3>3, <3>4 DEF Searching, Window
  <2>6. CASE ~(r.ln < l \/ (r.ln = l /\ r.seg = -1))
    <3>1. Narrowed(rows, l, w) = [lo |-> lo, hi |-> mid - 1]
      <4>1. Narrowed(rows, l, w) = [w EXCEPT !.hi = mid - 1]
        BY <1>1, <1>2, <1>5, <2>3, <2>6 DEF Narrowed
      <4> QED BY <1>1, <4>1
    <3>2. (mid - 1) - lo < n - (k + 1)
      BY <1>2, <1>5, <2>2
    <3>3. ASSUME NoSum PROVE lo <= top /\ top <= mid - 1
      <4>1. CASE r.ln > l
        <5>1. ~(mid < top) /\ top # mid
          BY <1>20, <2>1, <2>3, <2>4, <4>1
        <5> QED BY <1>2, <1>3, <3>3, <5>1
      <4>2. CASE r.ln = l
        <5>1. top <= mid /\ top # mid
          BY <1>20, <1>5, <2>1, <2>3, <2>6, <4>2
        <5> QED BY <1>2, <1>3, <3>3, <5>1
      <4> QED BY <2>4, <2>6, <4>1, <4>2
    <3>4. mid - 1 <= n
      BY <2>1
    <3> QED BY <1>21, <1>1, <3>1, <3>2, <3>3, <3>4 DEF Searching, Window
  <2> QED BY <2>5, <2>6
<1> QED BY <1>1, <1>4, <1>5

\* The search meets the line's first row, or misses it, which takes a summary of the line.
LEMMA IndexIs ==
    ASSUME NEW rows \in Seq(ScreenRow), NEW n \in Nat, NEW l \in Nat,
           NEW top \in 1..n, TopOf(rows, n, l, top)
    PROVE  TopOrMissed(rows, n, l, top, IndexOfLine(rows, l))
<1>20. /\ n = Len(rows)
       /\ \A i, j \in 1..n : i < j => rows[i].ln <= rows[j].ln
       /\ rows[top].ln = l /\ rows[top].seg = 0
       /\ \A i \in 1..n : rows[i].ln = l /\ rows[i].seg # -1 => top <= i
       /\ \A i \in 1..n : rows[i].ln = l /\ rows[i].seg # -1 /\ i # top => rows[i].seg # 0
  BY DEF TopOf
<1>1. PICK g : WindowRun(g, rows, l)
  BY WindowRuns
<1> DEFINE T == {k \in 0..n : Searching(rows, l, top, k, g[k])}
<1>2. 0 \in T
  <2>1. g[0] = [lo |-> 1, hi |-> n]
    BY <1>1, <1>20 DEF WindowRun, AllRows
  <2> QED BY <1>20, <2>1 DEF Searching, Window
<1>3. ASSUME NEW k \in 0..(n - 1), k \in T PROVE k + 1 \in T
  <2>1. k + 1 \in 1..n /\ (k + 1) - 1 = k
    OBVIOUS
  <2>2. g[k + 1] = Narrowed(rows, l, g[k])
    <3>1. g[k + 1] = Narrowed(rows, l, g[(k + 1) - 1])
      BY <1>1, <1>20, <2>1 DEF WindowRun
    <3> QED BY <2>1, <3>1
  <2>3. PICK w : w = g[k]
    OBVIOUS
  <2>4. Searching(rows, l, top, k, w)
    BY <1>3, <2>3
  <2>5. Searching(rows, l, top, k + 1, Narrowed(rows, l, w))
    BY <2>4, SearchTurnKeeps
  <2> QED BY <2>1, <2>2, <2>3, <2>5
<1>4. Searching(rows, l, top, n, g[n])
  <2>1. \A k \in 0..n : k \in T
    <3> HIDE DEF T
    <3> QED BY <1>2, <1>3, UpTo
  <2> QED BY <2>1
<1>5. PICK end : end = g[n]
  OBVIOUS
<1>6. /\ end \in Window /\ (Met(rows, l, end) \/ end.hi - end.lo < 0)
      /\ (\A i \in 1..n : rows[i].ln = l => rows[i].seg # -1) => end.lo <= top /\ top <= end.hi
  BY <1>4, <1>5, <1>20 DEF Searching
<1>7. IndexOfLine(rows, l) = IF end.lo > end.hi THEN 0 ELSE MiddleOf(end)
  BY <1>1, <1>5, <1>20 DEF WindowRun
<1>8. end.lo \in Int /\ end.hi \in Int
  BY <1>4, <1>5 DEF Searching, Window
<1>9. CASE end.lo > end.hi
  <2>1. ~(end.lo <= top /\ top <= end.hi)
    BY <1>8, <1>9
  <2>2. \E i \in 1..n : rows[i].ln = l /\ rows[i].seg = -1
    BY <1>6, <2>1
  <2>3. IndexOfLine(rows, l) = 0
    BY <1>7, <1>9
  <2> QED BY <2>2, <2>3 DEF TopOrMissed
<1>10. CASE ~(end.lo > end.hi)
  <2>1. ~(end.hi - end.lo < 0)
    BY <1>8, <1>10
  <2>2. Met(rows, l, end)
    BY <1>6, <2>1
  <2>3. MiddleOf(end) \in 1..n /\ rows[MiddleOf(end)].ln = l /\ rows[MiddleOf(end)].seg = 0
    BY <1>20, <2>2 DEF Met
  <2>4. MiddleOf(end) = top
    BY <1>20, <2>3
  <2>5. IndexOfLine(rows, l) = top
    BY <1>7, <1>10, <2>4
  <2> QED BY <2>5 DEF TopOrMissed
<1> QED BY <1>9, <1>10

LEMMA LargestOfTwo ==
    ASSUME NEW x \in Int, NEW y \in Int
    PROVE  Max({x, y}) = IF x >= y THEN x ELSE y
<1> DEFINE m == IF x >= y THEN x ELSE y
<1>1. m \in {x, y} /\ \A z \in {x, y} : m >= z
  OBVIOUS
<1>2. ASSUME NEW z \in {x, y}, \A w \in {x, y} : z >= w PROVE z = m
  <2>1. z \in Int /\ m \in Int /\ z >= m /\ m >= z
    BY <1>1, <1>2
  <2> QED BY <2>1
<1>3. Max({x, y}) = CHOOSE z \in {x, y} : \A w \in {x, y} : z >= w
  BY DEF Max
<1> HIDE DEF m
<1>4. Max({x, y}) = m
  BY <1>1, <1>2, <1>3
<1> QED BY <1>4 DEF m

LEMMA SmallestOfTwo ==
    ASSUME NEW x \in Int, NEW y \in Int
    PROVE  Min({x, y}) = IF x <= y THEN x ELSE y
<1> DEFINE m == IF x <= y THEN x ELSE y
<1>1. m \in {x, y} /\ \A z \in {x, y} : m <= z
  OBVIOUS
<1>2. ASSUME NEW z \in {x, y}, \A w \in {x, y} : z <= w PROVE z = m
  <2>1. z \in Int /\ m \in Int /\ z <= m /\ m <= z
    BY <1>1, <1>2
  <2> QED BY <2>1
<1>3. Min({x, y}) = CHOOSE z \in {x, y} : \A w \in {x, y} : z <= w
  BY DEF Min
<1> HIDE DEF m
<1>4. Min({x, y}) = m
  BY <1>1, <1>2, <1>3
<1> QED BY <1>4 DEF m

\* The offset of a row that exists shows it.
LEMMA OffsetShows ==
    ASSUME NEW n \in Nat, NEW row \in 0..(n - 1), NEW off \in Nat
    PROVE  OffsetFor(row, n, off) \in Nat /\ row \in OffsetFor(row, n, off)..(OffsetFor(row, n, off) + FoldHeight - 1)
<1> DEFINE follow == IF row < off THEN row ELSE IF row >= off + FoldHeight THEN row - FoldHeight + 1 ELSE off
           low == IF follow <= n - FoldHeight THEN follow ELSE n - FoldHeight
           top == IF 0 >= low THEN 0 ELSE low
<1>1. FoldHeight \in Nat \ {0}
  BY FoldHeightAssumption
<1>2. follow \in Int /\ n - FoldHeight \in Int /\ low \in Int
  BY <1>1
<1>3. top \in Nat /\ row \in top..(top + FoldHeight - 1)
  BY <1>1
<1> HIDE DEF follow, low, top
<1>4. Min({follow, n - FoldHeight}) = low
  BY <1>2, SmallestOfTwo DEF low
<1>5. Max({0, low}) = top
  BY <1>2, LargestOfTwo DEF top
<1>6. OffsetFor(row, n, off) = top
  BY <1>4, <1>5 DEF OffsetFor, follow
<1> QED BY <1>3, <1>6

\* A line that is shown has its row of the caret, once.
CaretRowAt(rows, l, s, p) ==
    p \in 1..Len(rows) /\ \A i \in 1..Len(rows) : rows[i].ln = l /\ rows[i].seg = s <=> i = p

\* The row the scroll follows is one of the line, and the caret's where no fold misleads it.
RowFollowed(rows, l, p, c, misled) == c \in 1..Len(rows) /\ rows[c].ln = l /\ (c = p \/ misled)

LEMMA CaretRow ==
    ASSUME NEW t \in FoldText, NEW f, NEW wrap \in BOOLEAN, NEW l \in Lines(t),
           ~Hides(Folded(t, f), l), NEW s \in 0..(Segments(t, wrap, l) - 1)
    PROVE  /\ Len(DispRows(t, f, wrap)) \in Nat /\ DOMAIN DispRows(t, f, wrap) = 1..Len(DispRows(t, f, wrap))
           /\ \E p : CaretRowAt(DispRows(t, f, wrap), l, s, p)
                     /\ RowFollowed(DispRows(t, f, wrap), l, p, CursorRow(DispRows(t, f, wrap), l, s),
                                    wrap /\ \E b \in Folded(t, f) : b[1] = l)
<1>1. PICK rows : rows = DispRows(t, f, wrap)
  OBVIOUS
<1>2. PICK B : B = Folded(t, f)
  OBVIOUS
<1>3. PICK segs : segs = [k \in Lines(t) |-> Segments(t, wrap, k)]
  OBVIOUS
<1>4. PICK N \in Nat : N = Len(t) /\ Lines(t) = 0..(N - 1)
  BY FoldTextIs
<1>5. PICK S \in Nat \ {0} : S = Segments(t, wrap, l) /\ S = segs[l]
  BY <1>3, SegmentsAre
<1>6. rows \in Seq(ScreenRow) /\ RowsKnow(B, segs, N, rows)
  BY <1>1, <1>2, <1>3, <1>4, RowsAre
<1>7. DOMAIN rows = 1..Len(rows) /\ Len(rows) \in Nat
  BY <1>6, LenProperties
<1>8. PICK from \in 1..Len(rows) : RunAt(rows, l, from, S)
  BY <1>2, <1>4, <1>5, <1>6 DEF RowsKnow
<1>9. /\ from + S - 1 <= Len(rows)
      /\ \A i \in 1..Len(rows) : /\ rows[i].ln = l /\ rows[i].hidden = 0 <=> from <= i /\ i <= from + S - 1
                                 /\ rows[i].ln = l /\ rows[i].hidden = 0 => rows[i].seg = i - from
  BY <1>8 DEF RunAt
<1>10. s \in 0..(S - 1)
  BY <1>5
<1>11. ASSUME NEW i \in 1..Len(rows) PROVE rows[i].ln = l /\ rows[i].seg = s <=> i = from + s
  <2>1. rows[i].hidden \in Nat /\ RowIs(B, N, rows[i])
    <3>1. rows[i] \in ScreenRow
      BY <1>6, ElementOfSeq
    <3> QED BY <1>6, <3>1 DEF ScreenRow, RowsKnow
  <2>2. rows[i].hidden = 0 \/ rows[i].seg = -1
    BY <2>1 DEF RowIs
  <2>3. ASSUME rows[i].ln = l, rows[i].seg = s PROVE i = from + s
    <3>1. rows[i].hidden = 0
      BY <1>10, <2>2, <2>3
    <3>2. s = i - from
      BY <1>9, <2>3, <3>1
    <3> QED BY <1>7, <1>10, <3>2
  <2>4. ASSUME i = from + s PROVE rows[i].ln = l /\ rows[i].seg = s
    <3>1. from <= i /\ i <= from + S - 1
      BY <1>7, <1>10, <2>4
    <3>2. rows[i].ln = l /\ rows[i].seg = i - from
      BY <1>9, <3>1
    <3> QED BY <1>7, <1>10, <2>4, <3>2
  <2> QED BY <2>3, <2>4
<1>12. from + s \in 1..Len(rows)
  BY <1>7, <1>9, <1>10
<1>13. CaretRowAt(rows, l, s, from + s)
  BY <1>11, <1>12 DEF CaretRowAt
<1>14. PICK n \in Nat : n = Len(rows)
  BY <1>7
<1>15. ASSUME NEW i \in 1..n PROVE rows[i] \in ScreenRow /\ RowIs(B, N, rows[i])
  BY <1>6, <1>14, ElementOfSeq DEF RowsKnow
<1>16. l \in Nat
  BY <1>4
<1>17. \A i, j \in 1..n : i < j => rows[i].ln <= rows[j].ln
  BY <1>6, <1>14 DEF RowsKnow
<1>18. ASSUME NEW i \in 1..n, rows[i].ln = l
       PROVE  /\ rows[i].hidden = 0 <=> rows[i].seg # -1
              /\ rows[i].hidden = 0 => from <= i /\ rows[i].seg = i - from
              /\ rows[i].hidden # 0 => \E b \in B : b[1] = l
  <2>1. rows[i].hidden = 0 => from <= i /\ rows[i].seg = i - from
    BY <1>9, <1>14, <1>18
  <2>2. rows[i].hidden = 0 => rows[i].seg # -1
    BY <1>7, <2>1
  <2>3. rows[i].hidden # 0 => rows[i].hidden > 0
    BY <1>15 DEF ScreenRow
  <2>4. rows[i].hidden > 0 => rows[i].seg = -1 /\ \E b \in B : b[1] = rows[i].ln
    BY <1>15 DEF RowIs
  <2>5. rows[i].hidden # 0 => rows[i].seg = -1 /\ \E b \in B : b[1] = l
    <3> SUFFICES ASSUME rows[i].hidden # 0 PROVE rows[i].seg = -1 /\ \E b \in B : b[1] = l
      OBVIOUS
    <3>1. rows[i].seg = -1 /\ \E b \in B : b[1] = rows[i].ln
      BY <2>3, <2>4
    <3> QED BY <1>18, <3>1
  <2>6. rows[i].hidden = 0 <=> rows[i].seg # -1
    BY <2>2, <2>5
  <2> QED BY <2>1, <2>5, <2>6
<1>19. from \in 1..n /\ rows[from].ln = l /\ rows[from].seg = 0
  <2>1. from <= from /\ from <= from + S - 1
    BY <1>5, <1>7
  <2>2. rows[from].ln = l /\ rows[from].hidden = 0
    BY <1>9, <2>1
  <2>3. rows[from].seg = from - from
    BY <1>9, <2>2
  <2> QED BY <1>7, <1>14, <2>2, <2>3
<1>20. \A i \in 1..n : rows[i].ln = l /\ rows[i].seg # -1 => from <= i
  BY <1>18
<1>21. \A i \in 1..n : rows[i].ln = l /\ rows[i].seg # -1 /\ i # from => rows[i].seg # 0
  <2> SUFFICES ASSUME NEW i \in 1..n, rows[i].ln = l, rows[i].seg # -1, i # from PROVE rows[i].seg # 0
    OBVIOUS
  <2>1. rows[i].seg = i - from
    BY <1>18
  <2> QED BY <1>19, <2>1
<1>22. PICK x : x = IndexOfLine(rows, l)
  OBVIOUS
<1>23. x = from \/ (x = 0 /\ \E i \in 1..n : rows[i].ln = l /\ rows[i].seg = -1)
  <2>1. TopOf(rows, n, l, from)
    BY <1>14, <1>17, <1>19, <1>20, <1>21 DEF TopOf
  <2>2. TopOrMissed(rows, n, l, from, x)
    BY <1>6, <1>16, <1>19, <1>22, <2>1, IndexIs
  <2> QED BY <2>2 DEF TopOrMissed
<1>24. PICK misled : misled = (wrap /\ \E b \in B : b[1] = l)
  OBVIOUS
<1>25. CASE x = from
  <2>1. x # 0
    BY <1>19, <1>25
  <2>2. CursorRow(rows, l, s) = from + s
    BY <1>22, <1>25, <2>1 DEF CursorRow
  <2>3. rows[from + s].ln = l
    BY <1>11, <1>12
  <2>4. RowFollowed(rows, l, from + s, CursorRow(rows, l, s), misled)
    BY <1>12, <2>2, <2>3 DEF RowFollowed
  <2> QED BY <1>1, <1>2, <1>7, <1>13, <1>24, <2>4
<1>26. CASE x = 0 /\ \E i \in 1..n : rows[i].ln = l /\ rows[i].seg = -1
  <2>1. \E b \in B : b[1] = l
    BY <1>18, <1>26
  <2> DEFINE M == {1} \cup {i \in 1..n : rows[i].hidden = 0 /\ rows[i].ln <= l}
  <2>2. PICK last \in Nat : last = from + S - 1
    BY <1>7
  <2>3. last \in 1..n /\ from <= last /\ rows[last].ln = l /\ rows[last].hidden = 0
    <3>1. last \in 1..n /\ from <= last
      BY <1>9, <1>14, <1>19, <2>2
    <3> QED BY <1>9, <1>14, <2>2, <3>1
  <2>4. last \in M
    BY <1>16, <2>3
  <2>5. ASSUME NEW i \in M PROVE i <= last
    <3>1. CASE i = 1
      BY <2>3, <3>1
    <3>2. CASE i \in 1..n /\ rows[i].hidden = 0 /\ rows[i].ln <= l /\ last < i
      <4>1. rows[i].ln \in Nat
        BY <1>15, <3>2 DEF ScreenRow
      <4>2. l <= rows[i].ln
        BY <1>17, <2>3, <3>2
      <4>3. rows[i].ln = l
        BY <1>16, <3>2, <4>1, <4>2
      <4>4. i <= from + S - 1
        BY <1>9, <1>14, <3>2, <4>3
      <4> QED BY <2>2, <3>2, <4>4
    <3> QED BY <2>3, <3>1, <3>2
  <2>6. M \subseteq Int
    OBVIOUS
  <2> HIDE DEF M
  <2>7. Max(M) = last
    BY <2>4, <2>5, <2>6, MaxOf
  <2>8. CursorRow(rows, l, s) = last
    <3>1. IndexOfLine(rows, l) = 0 /\ DOMAIN rows = 1..n
      BY <1>7, <1>14, <1>22, <1>26
    <3> QED BY <2>7, <3>1 DEF CursorRow, M
  <2>9. wrap \/ last = from + s
    <3>1. ~wrap => S = 1
      BY <1>5 DEF Segments
    <3> QED BY <1>7, <1>10, <2>2, <3>1
  <2>10. RowFollowed(rows, l, from + s, CursorRow(rows, l, s), misled)
    BY <1>14, <1>24, <2>1, <2>3, <2>8, <2>9 DEF RowFollowed
  <2> QED BY <1>1, <1>2, <1>7, <1>13, <1>24, <2>10
<1> QED BY <1>23, <1>25, <1>26

\* Nothing hides a line once every block that hid it is open.
LEMMA UnfoldedShows ==
    ASSUME NEW t, NEW f, NEW l
    PROVE  ~Hides(Folded(t, UnfoldThrough(t, f, l)), l)
BY DEF Hides, Folded, UnfoldThrough, Hiding

\* A message that ends update leaves a caret that is in its line and in view.
LEMMA SettleKeeps ==
    ASSUME NEW t \in FoldText, NEW f \in SUBSET Nat, NEW l \in Lines(t), NEW s \in 0..(t[l + 1].segs - 1),
           NEW wrap \in BOOLEAN, NEW off \in Nat, Settle(t, f, l, s, wrap, off)
    PROVE  FoldTypeOK' /\ CaretIsInView' /\ fText' = t /\ fLine' = l /\ folds' = UnfoldThrough(t, Pruned(t, f), l)
<1>1. /\ fText' = t /\ fLine' = l /\ fSeg' = s /\ fWrap' = wrap /\ fClamped' = TRUE
      /\ ClampScroll(t, f, l, s, wrap, off)
  BY DEF Settle
<1>2. PICK open : open = UnfoldThrough(t, Pruned(t, f), l)
  OBVIOUS
<1>3. PICK rows : rows = DispRows(t, open, wrap)
  OBVIOUS
<1>4. PICK q : q = IF wrap THEN s ELSE 0
  OBVIOUS
<1>5. folds' = open /\ fOff' = OffsetFor(CursorRow(rows, l, q) - 1, Len(rows), off)
  BY <1>1, <1>2, <1>3, <1>4 DEF ClampScroll
<1>6. open \subseteq Nat
  BY <1>2 DEF UnfoldThrough, Pruned
<1>7. ~Hides(Folded(t, open), l)
  BY <1>2, UnfoldedShows
<1>8. q \in 0..(Segments(t, wrap, l) - 1)
  BY <1>4 DEF Segments
<1>16. PICK misled : misled = (wrap /\ \E b \in Folded(t, open) : b[1] = l)
  OBVIOUS
<1>17. PICK c : c = CursorRow(rows, l, q)
  OBVIOUS
<1>9. PICK p : CaretRowAt(rows, l, q, p) /\ RowFollowed(rows, l, p, c, misled)
  BY <1>3, <1>7, <1>8, <1>16, <1>17, CaretRow
<1>10. Len(rows) \in Nat /\ DOMAIN rows = 1..Len(rows)
  BY <1>3, <1>7, <1>8, CaretRow
<1>11. p \in 1..Len(rows) /\ \A i \in 1..Len(rows) : rows[i].ln = l /\ rows[i].seg = q <=> i = p
  BY <1>9 DEF CaretRowAt
<1>12. c \in 1..Len(rows) /\ rows[c].ln = l /\ (c = p \/ misled)
  BY <1>9 DEF RowFollowed
<1>13. fOff' \in Nat /\ c - 1 \in fOff'..(fOff' + FoldHeight - 1)
  <2>1. c - 1 \in 0..(Len(rows) - 1)
    BY <1>10, <1>12
  <2> QED BY <1>5, <1>10, <1>17, <2>1, OffsetShows
<1>14. FoldTypeOK'
  BY <1>1, <1>5, <1>6, <1>13 DEF FoldTypeOK, FoldText
<1>15. CaretIsInView'
  <2>1. DispRows(fText, folds, fWrap)' = rows
    BY <1>1, <1>3, <1>5
  <2>5. q = IF fWrap' THEN fSeg' ELSE 0
    BY <1>1, <1>4
  <2>2. CaretAt(rows)' = {p}
    <3>1. \A i \in DOMAIN rows : rows[i].ln = fLine' /\ rows[i].seg = (IF fWrap' THEN fSeg' ELSE 0) <=> i = p
      BY <1>1, <1>10, <1>11, <2>5
    <3>2. rows' = rows /\ p \in DOMAIN rows
      BY <1>3, <1>10, <1>11
    <3> QED BY <3>1, <3>2 DEF CaretAt
  <2>3. c \in InPane(rows)'
    BY <1>10, <1>12, <1>13 DEF InPane
  <2>4. rows[c].ln = fLine' /\ (c = p \/ (fWrap' /\ \E b \in Folded(fText', folds') : b[1] = fLine'))
    BY <1>1, <1>2, <1>5, <1>12, <1>16
  <2> QED BY <1>1, <2>1, <2>2, <2>3, <2>4 DEF CaretIsInView
<1> QED BY <1>1, <1>2, <1>5, <1>14, <1>15

\* A click, or a key that answers with a command, leaves the pane unclamped.
LEMMA LeaveKeeps ==
    ASSUME NEW t \in FoldText, NEW f \in SUBSET Nat, NEW l \in Lines(t), NEW s \in 0..(t[l + 1].segs - 1),
           NEW wrap \in BOOLEAN, NEW off \in Nat, Leave(t, f, l, s, wrap, off)
    PROVE  FoldTypeOK' /\ CaretIsInView'
<1>1. /\ fText' = t /\ fLine' = l /\ fSeg' = s /\ fWrap' = wrap /\ fClamped' = FALSE
      /\ folds' = f /\ fOff' = off
  BY DEF Leave
<1>2. FoldTypeOK'
  BY <1>1 DEF FoldTypeOK, FoldText
<1>3. CaretIsInView'
  BY <1>1 DEF CaretIsInView
<1> QED BY <1>2, <1>3

FoldsInv == FoldTypeOK /\ CaretIsInView /\ KeyboardFoldSticks

LEMMA NothingClosed ==
    ASSUME fClosed' = NoBlock
    PROVE  KeyboardFoldSticks'
BY DEF KeyboardFoldSticks

LEMMA FirstSegment ==
    ASSUME NEW t \in FoldText, NEW l \in Lines(t)
    PROVE  0 \in 0..(t[l + 1].segs - 1)
BY FoldTextIs

LEMMA TargetsAreBlocks ==
    ASSUME NEW t, NEW l
    PROVE  FoldTarget(t, l) \subseteq FoldRanges(t)
<1>1. \A k : BlocksAt(t, k) \subseteq FoldRanges(t)
  BY DEF BlocksAt
<1>2. BlockAround(t, l) \subseteq FoldRanges(t)
  BY DEF BlockAround
<1>3. BlockBelow(t, l) \subseteq FoldRanges(t)
  BY <1>1 DEF BlockBelow
<1> QED BY <1>1, <1>2, <1>3 DEF FoldTarget

LEMMA CloseKeeps ==
    ASSUME FoldsInv, NEW b \in FoldRanges(fText), Close(b)
    PROVE  FoldsInv'
<1>1. /\ fText \in FoldText /\ fWrap \in BOOLEAN /\ fLine \in Lines(fText) /\ fOff \in Nat
      /\ folds \subseteq Nat /\ fSeg \in 0..(fText[fLine + 1].segs - 1)
  BY FoldsTypedIs DEF FoldsInv
<1>2. b[1] \in Nat /\ b[1] \in Lines(fText)
  BY <1>1, BlockLines, FoldTextIs
<1>3. PICK s : s = IF fLine = b[1] THEN fSeg ELSE 0
  OBVIOUS
<1>4. s \in 0..(fText[b[1] + 1].segs - 1)
  BY <1>1, <1>2, <1>3, FirstSegment
<1>5. PICK f \in SUBSET Nat : f = folds \cup {b[1]}
  BY <1>1, <1>2
<1>6. PICK l \in Lines(fText) : l = b[1]
  BY <1>2
<1>7. Settle(fText, f, l, s, fWrap, fOff) /\ fClosed' = b
  BY <1>3, <1>5, <1>6 DEF Close
<1>8. s \in 0..(fText[l + 1].segs - 1)
  BY <1>4, <1>6
<1>9. FoldTypeOK' /\ CaretIsInView' /\ fText' = fText /\ fLine' = l /\ folds' = UnfoldThrough(fText, Pruned(fText, f), l)
  BY ONLY <1>1, <1>7, <1>8, f \in SUBSET Nat, l \in Lines(fText), SettleKeeps
<1>10. l \in Pruned(fText, f)
  BY <1>5, <1>6 DEF Pruned
<1>11. l \in UnfoldThrough(fText, Pruned(fText, f), l)
  <2>1. \A c \in Hiding(fText, Pruned(fText, f), l) : c[1] < l /\ c[1] \in Nat
    <3>1. \A c \in FoldRanges(fText) : c[1] \in Nat
      BY <1>1, BlockLines
    <3> QED BY <3>1 DEF Hiding, Folded
  <2>2. l \in Nat
    BY <1>2, <1>6
  <2>3. \A c \in Hiding(fText, Pruned(fText, f), l) : c[1] # l
    BY <2>1, <2>2
  <2> QED BY <1>10, <2>3 DEF UnfoldThrough
<1>12. KeyboardFoldSticks'
  BY <1>6, <1>7, <1>9, <1>11 DEF KeyboardFoldSticks
<1> QED BY <1>9, <1>12 DEF FoldsInv

\* A step that settles, or leaves, and folds nothing by the keyboard.
LEMMA SettledKeeps ==
    ASSUME NEW t \in FoldText, NEW f \in SUBSET Nat, NEW l \in Lines(t), NEW s \in 0..(t[l + 1].segs - 1),
           NEW wrap \in BOOLEAN, NEW off \in Nat, fClosed' = NoBlock,
           Settle(t, f, l, s, wrap, off) \/ Leave(t, f, l, s, wrap, off)
    PROVE  FoldsInv'
<1>1. CASE Settle(t, f, l, s, wrap, off)
  <2>1. FoldTypeOK' /\ CaretIsInView'
    BY <1>1, SettleKeeps
  <2> QED BY <2>1, NothingClosed DEF FoldsInv
<1>2. CASE Leave(t, f, l, s, wrap, off)
  <2>1. FoldTypeOK' /\ CaretIsInView'
    BY <1>2, LeaveKeeps
  <2> QED BY <2>1, NothingClosed DEF FoldsInv
<1> QED BY <1>1, <1>2

LEMMA OpenKeeps ==
    ASSUME FoldsInv, NEW f \in SUBSET Nat, Open(f)
    PROVE  FoldsInv'
BY FoldsTypedIs, SettledKeeps DEF FoldsInv, Open

LEMMA SkippedIs ==
    ASSUME FoldTypeOK, NEW l \in Lines(fText), NEW dir \in {-1, 1}
    PROVE  Skipped(l, dir) \in Lines(fText)
<1>1. fText \in FoldText
  BY FoldsTypedIs
<1>2. PICK n \in Nat \ {0} : n = Len(fText) /\ Lines(fText) = 0..(n - 1)
  BY <1>1, FoldTextIs
<1>3. CASE Hiding(fText, folds, l) = {}
  BY <1>3 DEF Skipped
<1>4. CASE Hiding(fText, folds, l) # {}
  <2>1. PICK b : b = OutermostHiding(fText, folds, l)
    OBVIOUS
  <2>2. \A c \in Hiding(fText, folds, l) : c \in FoldRanges(fText) /\ c[1] \in Nat
    <3>1. \A c \in Hiding(fText, folds, l) : c \in FoldRanges(fText)
      BY DEF Hiding, Folded
    <3> QED BY <1>1, <3>1, BlockLines
  <2>3. b \in Hiding(fText, folds, l)
    BY <1>4, <2>1, <2>2, FirstBlockIs DEF OutermostHiding
  <2>4. b[1] \in Nat /\ b[2] \in Nat /\ b[1] < b[2] /\ b[2] < n
    BY <1>1, <1>2, <2>2, <2>3, BlockLines
  <2>5. Min({b[2] + 1, n - 1}) = IF b[2] + 1 <= n - 1 THEN b[2] + 1 ELSE n - 1
    <3>1. b[2] + 1 \in Int /\ n - 1 \in Int
      BY <2>4
    <3> QED BY ONLY <3>1, SmallestOfTwo
  <2>6. Skipped(l, dir) = IF dir < 0 THEN b[1] ELSE Min({b[2] + 1, n - 1})
    BY <1>2, <1>4, <2>1 DEF Skipped
  <2> QED BY <1>2, <2>4, <2>5, <2>6
<1> QED BY <1>3, <1>4

LEMMA RowsShown ==
    ASSUME FoldTypeOK, NEW r \in Range(DispRows(fText, folds, fWrap))
    PROVE  /\ r.ln \in Nat
           /\ r.hidden = 0 => r.ln \in Lines(fText) /\ r.seg \in 0..(fText[r.ln + 1].segs - 1)
<1>1. fText \in FoldText /\ fWrap \in BOOLEAN
  BY FoldsTypedIs
<1>2. PICK rows : rows = DispRows(fText, folds, fWrap)
  OBVIOUS
<1>3. PICK B : B = Folded(fText, folds)
  OBVIOUS
<1>4. PICK segs : segs = [k \in Lines(fText) |-> Segments(fText, fWrap, k)]
  OBVIOUS
<1>5. PICK N \in Nat : N = Len(fText) /\ Lines(fText) = 0..(N - 1)
  BY <1>1, FoldTextIs
<1>6. rows \in Seq(ScreenRow) /\ RowsKnow(B, segs, N, rows)
  BY <1>1, <1>2, <1>3, <1>4, <1>5, RowsAre
<1>7. DOMAIN rows = 1..Len(rows) /\ Len(rows) \in Nat
  BY <1>6, LenProperties
<1>8. PICK i \in 1..Len(rows) : r = rows[i]
  BY <1>2, <1>7 DEF Range
<1>9. r \in ScreenRow /\ RowIs(B, N, r)
  BY <1>6, <1>8, ElementOfSeq DEF RowsKnow
<1>10. r.ln \in Nat /\ r.ln < N /\ ~Hides(B, r.ln)
  BY <1>9 DEF ScreenRow, RowIs
<1>11. ASSUME r.hidden = 0 PROVE r.ln \in Lines(fText) /\ r.seg \in 0..(fText[r.ln + 1].segs - 1)
  <2>1. PICK l \in Lines(fText) : l = r.ln
    BY <1>5, <1>10
  <2>2. PICK S \in Nat \ {0} : S = Segments(fText, fWrap, l) /\ S = segs[l]
    BY <1>1, <1>4, SegmentsAre
  <2>3. PICK from \in 1..Len(rows) : RunAt(rows, l, from, S)
    BY <1>5, <1>6, <1>10, <2>1, <2>2 DEF RowsKnow
  <2>4. from <= i /\ i <= from + S - 1 /\ r.seg = i - from
    BY <1>8, <1>11, <2>1, <2>3 DEF RunAt
  <2>5. S <= fText[l + 1].segs /\ fText[l + 1].segs \in Nat
    <3>1. fText[l + 1].segs \in Nat \ {0}
      BY <1>1, FoldTextIs
    <3> QED BY <2>2, <3>1 DEF Segments
  <2>6. r.seg \in 0..(fText[l + 1].segs - 1)
    BY <1>7, <2>4, <2>5
  <2> QED BY <2>1, <2>6
<1> QED BY <1>10, <1>11

\* What the lines are after one is put in, and after one is taken.
LEMMA InsertedText ==
    ASSUME NEW t \in FoldText, NEW i \in 1..(Len(t) + 1), NEW x \in FoldLineType, NEW u, u = InsertAt(t, i, x)
    PROVE  u \in FoldText /\ Len(u) = Len(t) + 1
<1>1. t \in Seq(FoldLineType) /\ Len(t) \in Nat /\ i \in Nat
  BY FoldTextIs
<1>2. PICK n \in Nat : n = Len(t)
  BY <1>1
<1>3. PICK a : a = SubSeq(t, 1, i - 1)
  OBVIOUS
<1>4. PICK b : b = SubSeq(t, i, n)
  OBVIOUS
<1>5. a \in Seq(FoldLineType) /\ Len(a) = i - 1
  <2>1. \A k \in 1..(i - 1) : t[k] \in FoldLineType
    BY <1>1, <1>2, ElementOfSeq
  <2> QED BY <1>1, <1>2, <1>3, <2>1, SubSeqProperties
<1>6. b \in Seq(FoldLineType) /\ Len(b) = n - i + 1
  <2>1. \A k \in i..n : t[k] \in FoldLineType
    BY <1>1, <1>2, ElementOfSeq
  <2> QED BY <1>1, <1>2, <1>4, <2>1, SubSeqProperties
<1>7. u = a \o <<x>> \o b
  BY <1>2, <1>3, <1>4 DEF InsertAt
<1>8. PICK c : c = a \o <<x>>
  OBVIOUS
<1>9. c \in Seq(FoldLineType) /\ Len(c) = i
  <2>1. <<x>> \in Seq(FoldLineType) /\ Len(<<x>>) = 1
    BY OneLine
  <2> QED BY <1>1, <1>5, <1>8, <2>1, ConcatProperties
<1>10. u \in Seq(FoldLineType) /\ Len(u) = n + 1
  <2>1. u = c \o b
    BY <1>7, <1>8
  <2>2. u \in Seq(FoldLineType) /\ Len(u) = Len(c) + Len(b)
    BY <1>6, <1>9, <2>1, ConcatProperties
  <2> QED BY <1>1, <1>6, <1>9, <2>2
<1> QED BY <1>2, <1>10, EmptySeq DEF FoldText

LEMMA RemovedText ==
    ASSUME NEW t \in FoldText, Len(t) > 1, NEW i \in 1..Len(t), NEW u, u = RemoveAt(t, i)
    PROVE  u \in FoldText /\ Len(u) = Len(t) - 1
<1>1. t \in Seq(FoldLineType) /\ Len(t) \in Nat /\ i \in Nat
  BY FoldTextIs
<1>2. PICK n \in Nat : n = Len(t)
  BY <1>1
<1>3. PICK a : a = SubSeq(t, 1, i - 1)
  OBVIOUS
<1>4. PICK b : b = SubSeq(t, i + 1, n)
  OBVIOUS
<1>5. a \in Seq(FoldLineType) /\ Len(a) = i - 1
  <2>1. \A k \in 1..(i - 1) : t[k] \in FoldLineType
    BY <1>1, <1>2, ElementOfSeq
  <2> QED BY <1>1, <1>2, <1>3, <2>1, SubSeqProperties
<1>6. b \in Seq(FoldLineType) /\ Len(b) = n - i
  <2>1. \A k \in (i + 1)..n : t[k] \in FoldLineType
    BY <1>1, <1>2, ElementOfSeq
  <2> QED BY <1>1, <1>2, <1>4, <2>1, SubSeqProperties
<1>7. u = a \o b
  BY <1>2, <1>3, <1>4 DEF RemoveAt
<1>8. u \in Seq(FoldLineType) /\ Len(u) = n - 1
  BY <1>1, <1>2, <1>5, <1>6, <1>7, ConcatProperties
<1>9. n > 1
  BY <1>2
<1> QED BY <1>2, <1>8, <1>9, EmptySeq DEF FoldText

LEMMA EditedKeeps ==
    ASSUME FoldsInv, NEW t \in FoldText, NEW l \in Lines(t), Edited(t, l)
    PROVE  FoldsInv'
<1>1. fWrap \in BOOLEAN /\ fOff \in Nat /\ folds \in SUBSET Nat
  BY FoldsTypedIs DEF FoldsInv
<1>2. 0 \in 0..(t[l + 1].segs - 1)
  BY FirstSegment
<1>3. fClosed' = NoBlock /\ (Settle(t, folds, l, 0, fWrap, fOff) \/ Leave(t, folds, l, 0, fWrap, fOff))
  BY DEF Edited
<1> QED BY <1>1, <1>2, <1>3, SettledKeeps

LEMMA FoldStep ==
    ASSUME FoldsInv, [FoldNext]_foldVars
    PROVE  FoldsInv'
<1>1. /\ fText \in FoldText /\ fWrap \in BOOLEAN /\ fLine \in Lines(fText) /\ fOff \in Nat
      /\ folds \in SUBSET Nat /\ fSeg \in 0..(fText[fLine + 1].segs - 1) /\ FoldTypeOK
  BY FoldsTypedIs DEF FoldsInv
<1>2. PICK n \in Nat \ {0} : n = Len(fText) /\ Lines(fText) = 0..(n - 1) /\ fText \in Seq(FoldLineType)
  BY <1>1, FoldTextIs
<1>3. \A b \in FoldRanges(fText) : b[1] \in Nat
  BY <1>1, BlockLines
<1>4. FoldTarget(fText, fLine) \subseteq FoldRanges(fText)
  BY TargetsAreBlocks
<1>5. CASE FoldClose
  BY <1>4, <1>5, CloseKeeps DEF FoldClose
<1>6. ASSUME OpenAtCursor PROVE FoldsInv'
  <2>1. \E f \in SUBSET Nat : Open(f)
    BY <1>1, <1>6 DEF OpenAtCursor, UnfoldThrough
  <2> QED BY <2>1, OpenKeeps
<1>7. CASE ToggleAtCursor
  BY <1>4, <1>6, <1>7, CloseKeeps DEF ToggleAtCursor
<1>8. CASE ToggleAll
  <2>1. PICK f : f = IF folds # {} /\ Cardinality(folds) >= Cardinality(FoldRanges(fText)) THEN {}
                     ELSE {b[1] : b \in FoldRanges(fText)}
    OBVIOUS
  <2>2. f \in SUBSET Nat
    BY <1>3, <2>1
  <2>3. fClosed' = NoBlock /\ Settle(fText, f, fLine, fSeg, fWrap, fOff)
    BY <1>8, <2>1 DEF ToggleAll
  <2> QED BY <1>1, <2>2, <2>3, SettledKeeps
<1>9. CASE ClickFold
  <2>1. PICK r \in Range(DispRows(fText, folds, fWrap)) :
            Leave(fText, IF r.ln \in folds THEN folds \ {r.ln} ELSE folds \cup {r.ln}, fLine, fSeg, fWrap, fOff)
    BY <1>9 DEF ClickFold
  <2>2. PICK f : f = IF r.ln \in folds THEN folds \ {r.ln} ELSE folds \cup {r.ln}
    OBVIOUS
  <2>3. r.ln \in Nat
    BY <1>1, RowsShown
  <2>4. f \in SUBSET Nat
    BY <1>1, <2>2, <2>3
  <2>5. fClosed' = NoBlock /\ Leave(fText, f, fLine, fSeg, fWrap, fOff)
    BY <1>9, <2>1, <2>2 DEF ClickFold
  <2> QED BY <1>1, <2>4, <2>5, SettledKeeps
<1>10. CASE ClickLine
  <2>1. PICK r \in Range(DispRows(fText, folds, fWrap)) :
            r.hidden = 0 /\ Leave(fText, folds, r.ln, r.seg, fWrap, fOff)
    BY <1>10 DEF ClickLine
  <2>2. r.ln \in Lines(fText) /\ r.seg \in 0..(fText[r.ln + 1].segs - 1)
    BY <1>1, <2>1, RowsShown
  <2>3. PICK l \in Lines(fText) : l = r.ln
    BY <2>2
  <2>6. PICK s : s = r.seg
    OBVIOUS
  <2>4. s \in 0..(fText[l + 1].segs - 1) /\ Leave(fText, folds, l, s, fWrap, fOff)
    BY <2>1, <2>2, <2>3, <2>6
  <2>5. fClosed' = NoBlock
    BY <1>10 DEF ClickLine
  <2> QED BY <1>1, <2>4, <2>5, SettledKeeps
<1>11. CASE MoveCaret
  <2>1. PICK dir \in {-1, 1} : fLine + dir \in Lines(fText)
                               /\ Settle(fText, folds, Skipped(fLine + dir, dir), 0, fWrap, fOff)
    BY <1>11 DEF MoveCaret
  <2>2. PICK l \in Lines(fText) : l = Skipped(fLine + dir, dir)
    BY <1>1, <2>1, SkippedIs
  <2>3. fClosed' = NoBlock /\ Settle(fText, folds, l, 0, fWrap, fOff) /\ 0 \in 0..(fText[l + 1].segs - 1)
    BY <1>1, <1>11, <2>1, <2>2, FirstSegment DEF MoveCaret
  <2> QED BY <1>1, <2>3, SettledKeeps
<1>12. CASE JumpTo
  <2>1. PICK l \in Lines(fText) : fClosed' = NoBlock /\ Settle(fText, folds, l, 0, fWrap, fOff)
    BY <1>12 DEF JumpTo
  <2>2. 0 \in 0..(fText[l + 1].segs - 1)
    BY <1>1, FirstSegment
  <2> QED BY <1>1, <2>1, <2>2, SettledKeeps
<1>13. CASE MoveInLine
  BY <1>1, <1>13, SettledKeeps DEF MoveInLine
<1>14. CASE ToggleWrap
  <2>1. PICK w \in BOOLEAN : w = ~fWrap
    OBVIOUS
  <2>2. fClosed' = NoBlock /\ Settle(fText, folds, fLine, fSeg, w, fOff)
    BY <1>14, <2>1 DEF ToggleWrap
  <2> QED BY <1>1, <2>2, SettledKeeps
<1>15. CASE TypeInLine
  <2>1. PICK x \in FoldLines : Edited([fText EXCEPT ![fLine + 1] = x], fLine)
    BY <1>15 DEF TypeInLine
  <2>2. PICK t : t = [fText EXCEPT ![fLine + 1] = x]
    OBVIOUS
  <2>3. t \in Seq(FoldLineType) /\ Len(t) = n
    <3>1. x \in FoldLineType /\ fLine + 1 \in 1..n
      BY <1>1, <1>2, FoldTextsAssumption
    <3> QED BY <1>2, <2>2, <3>1, ExceptSeq
  <2>4. t \in FoldText /\ fLine \in Lines(t)
    <3>1. t # <<>>
      BY <2>3, EmptySeq
    <3>2. Lines(t) = Lines(fText)
      BY <1>2, <2>3 DEF Lines
    <3> QED BY <1>1, <2>3, <3>1, <3>2 DEF FoldText
  <2>5. Edited(t, fLine)
    BY <2>1, <2>2
  <2> QED BY <2>4, <2>5, EditedKeeps
<1>16. CASE EnterLine
  <2>1. PICK x \in FoldLines : Edited(InsertAt(fText, fLine + 2, x), fLine + 1)
    BY <1>16 DEF EnterLine
  <2>2. PICK t : t = InsertAt(fText, fLine + 2, x)
    OBVIOUS
  <2>3. t \in FoldText /\ Len(t) = n + 1
    <3>1. x \in FoldLineType /\ fLine + 2 \in 1..(Len(fText) + 1)
      BY <1>1, <1>2, FoldTextsAssumption
    <3> QED BY <1>1, <1>2, <2>2, <3>1, InsertedText
  <2>4. fLine + 1 \in Lines(t)
    BY <1>1, <1>2, <2>3 DEF Lines
  <2>5. PICK l \in Lines(t) : l = fLine + 1
    BY <2>4
  <2>6. Edited(t, l)
    BY <2>1, <2>2, <2>5
  <2> QED BY <2>3, <2>6, EditedKeeps
<1>17. CASE DropLine
  <2>1. Len(fText) > 1 /\ Edited(RemoveAt(fText, fLine + 1), Min({fLine, Len(fText) - 2}))
    BY <1>17 DEF DropLine
  <2>2. PICK t : t = RemoveAt(fText, fLine + 1)
    OBVIOUS
  <2>3. t \in FoldText /\ Len(t) = n - 1
    <3>1. fLine + 1 \in 1..Len(fText)
      BY <1>1, <1>2
    <3> QED BY <1>1, <1>2, <2>1, <2>2, <3>1, RemovedText
  <2>4. PICK l : l = Min({fLine, Len(fText) - 2})
    OBVIOUS
  <2>5. l = IF fLine <= n - 2 THEN fLine ELSE n - 2
    <3>1. fLine \in Int /\ n - 2 \in Int
      BY <1>1, <1>2
    <3>2. Min({fLine, n - 2}) = IF fLine <= n - 2 THEN fLine ELSE n - 2
      BY ONLY <3>1, SmallestOfTwo
    <3> QED BY <1>2, <2>4, <3>2
  <2>6. l \in Lines(t)
    BY <1>1, <1>2, <2>1, <2>3, <2>5 DEF Lines
  <2>7. Edited(t, l)
    BY <2>1, <2>2, <2>4
  <2> QED BY <2>3, <2>6, <2>7, EditedKeeps
<1>18. CASE OtherMessage
  BY <1>1, <1>18, SettledKeeps DEF OtherMessage
<1>19. CASE UNCHANGED foldVars
  BY <1>19 DEF foldVars, FoldsInv, FoldTypeOK, CaretIsInView, InPane, CaretAt, KeyboardFoldSticks
<1> QED BY <1>5, <1>6, <1>7, <1>8, <1>9, <1>10, <1>11, <1>12, <1>13, <1>14, <1>15, <1>16, <1>17, <1>18, <1>19
        DEF FoldNext

\* The first row is the caret's before anything is typed.
LEMMA FoldStart ==
    ASSUME FoldInit
    PROVE  FoldsInv
<1>1. /\ fText \in FoldText /\ folds = {} /\ fLine = 0 /\ fSeg = 0 /\ fWrap = FALSE /\ fOff = 0
      /\ fClamped = TRUE /\ fClosed = NoBlock
  BY FoldTextsAssumption DEF FoldInit, FoldText
<1>2. PICK n \in Nat \ {0} : n = Len(fText) /\ Lines(fText) = 0..(n - 1)
  BY <1>1, FoldTextIs
<1>3. fLine \in Lines(fText) /\ fWrap \in BOOLEAN
  <2>1. 0 \in 0..(n - 1)
    OBVIOUS
  <2> QED BY <1>1, <1>2, <2>1
<1>4. 0 \in 0..(fText[fLine + 1].segs - 1)
  BY <1>1, <1>3, FirstSegment
<1>5. FoldTypeOK
  BY <1>1, <1>3, <1>4 DEF FoldTypeOK, FoldText
<1>6. CaretIsInView
  <2>1. PICK rows : rows = DispRows(fText, folds, fWrap)
    OBVIOUS
  <2>2. PICK B : B = Folded(fText, folds)
    OBVIOUS
  <2>3. B = {}
    BY <1>1, <2>2 DEF Folded
  <2>4. PICK segs : segs = [k \in Lines(fText) |-> Segments(fText, fWrap, k)]
    OBVIOUS
  <2>5. segs[0] = 1 /\ ~Hides(B, 0)
    BY <1>1, <1>3, <2>3, <2>4 DEF Segments, Hides
  <2>6. rows \in Seq(ScreenRow) /\ RowsKnow(B, segs, n, rows)
    BY <1>1, <1>2, <1>3, <2>1, <2>2, <2>4, RowsAre
  <2>7. DOMAIN rows = 1..Len(rows) /\ Len(rows) \in Nat
    BY <2>6, LenProperties
  <2>8. PICK from \in 1..Len(rows) : RunAt(rows, 0, from, 1)
    <3>1. 0 \in 0..(n - 1)
      BY <1>2
    <3>2. \A l \in 0..(n - 1) : ~Hides(B, l) => \E i \in 1..Len(rows) : RunAt(rows, l, i, segs[l])
      BY <2>6 DEF RowsKnow
    <3>3. \E i \in 1..Len(rows) : RunAt(rows, 0, i, segs[0])
      BY <2>5, <3>1, <3>2
    <3> QED BY <2>5, <3>3
  <2>9. \A i \in 1..Len(rows) : /\ rows[i].ln = 0 /\ rows[i].hidden = 0 <=> i = from
    BY <2>7, <2>8 DEF RunAt
  <2>10. ASSUME NEW i \in 1..Len(rows) PROVE rows[i].ln \in Nat /\ rows[i].hidden = 0
    <3>1. rows[i] \in ScreenRow /\ RowIs(B, n, rows[i])
      BY <2>6, ElementOfSeq DEF RowsKnow
    <3>2. rows[i].hidden \in Nat /\ rows[i].ln \in Nat
      BY <3>1 DEF ScreenRow
    <3>3. ~(rows[i].hidden > 0)
      BY <2>3, <3>1 DEF RowIs
    <3> QED BY <3>2, <3>3
  <2>11. from = 1
    <3> SUFFICES ASSUME from # 1 PROVE FALSE
      OBVIOUS
    <3>1. 1 \in 1..Len(rows) /\ 1 < from
      BY <2>7
    <3>2. rows[1].ln <= rows[from].ln /\ rows[from].ln = 0
      BY <2>6, <2>9, <3>1 DEF RowsKnow
    <3>3. rows[1].ln = 0 /\ rows[1].hidden = 0
      BY <2>10, <3>1, <3>2
    <3> QED BY <2>9, <3>1, <3>3
  <2>12. \A i \in {j \in DOMAIN rows : rows[j].ln = 0 /\ rows[j].seg = 0} : i = 1
    BY <2>7, <2>9, <2>10, <2>11
  <2>13. rows[1].ln = 0 /\ rows[1].seg = 0 /\ 1 \in DOMAIN rows
    <3>1. rows[from].ln = 0 /\ rows[from].hidden = 0
      BY <2>9
    <3>2. rows[from].seg = from - from
      BY <2>8, <3>1 DEF RunAt
    <3> QED BY <2>7, <2>11, <3>1, <3>2
  <2>14. PICK at : at = {j \in DOMAIN rows : rows[j].ln = 0 /\ rows[j].seg = 0}
    OBVIOUS
  <2>15. at # {} /\ \A i \in at : i = 1
    BY <2>12, <2>13, <2>14
  <2>16. \A i \in at : i \in DOMAIN rows /\ i - 1 \in 0..(0 + FoldHeight - 1) /\ rows[i].ln = 0
    BY <2>13, <2>15, FoldHeightAssumption
  <2>17. at = CaretAt(rows)
    BY <1>1, <2>14 DEF CaretAt
  <2>18. \A i \in at : i \in InPane(rows) /\ rows[i].ln = fLine
    BY <1>1, <2>16 DEF InPane
  <2> QED BY <2>1, <2>15, <2>17, <2>18 DEF CaretIsInView
<1>7. KeyboardFoldSticks
  BY <1>1 DEF KeyboardFoldSticks
<1> QED BY <1>5, <1>6, <1>7 DEF FoldsInv

\* Whatever is folded, opened, typed and clicked in whatever order, the blocks are those the
\* indentation means, every line is on the screen once or counted by one summary, and after
\* a message a row of the caret's line is in view, its own row save where the pane wraps and a
\* folded block starts at the line; a fold from the keyboard stays (fold.go, clampScroll).
THEOREM FoldsCorrect == FoldSpec => [](FoldTypeOK /\ FoldsAreSound)
<1>1. FoldInit => FoldsInv
  BY FoldStart
<1>2. FoldsInv /\ [FoldNext]_foldVars => FoldsInv'
  BY FoldStep
<1>3. FoldsInv => FoldTypeOK /\ FoldsAreSound
  <2> SUFFICES ASSUME FoldsInv PROVE FoldTypeOK /\ FoldsAreSound
    OBVIOUS
  <2>1. FoldTypeOK /\ CaretIsInView /\ KeyboardFoldSticks
    BY DEF FoldsInv
  <2>2. fText \in FoldText
    BY <2>1, FoldsTypedIs
  <2> QED BY <2>1, <2>2, BlocksMeant, RowsCover DEF FoldsAreSound
<1> QED BY <1>1, <1>2, <1>3, PTL DEF FoldSpec

(***************************************************************************)
(* The matcher.                                                            *)
(***************************************************************************)
SearchLine == Seq(Nat)
SearchQuery == Seq(Nat) \ {<<>>}
MatchScan == [out : Seq(Nat), from : Nat]

LEMMA QueryIs ==
    ASSUME NEW q \in SearchQuery
    PROVE  q \in Seq(Nat) /\ Len(q) \in Nat \ {0} /\ DOMAIN q = 1..Len(q)
BY EmptySeq, LenProperties DEF SearchQuery

LEMMA MatchAtType ==
    ASSUME NEW ln \in SearchLine, NEW q \in SearchQuery, NEW insensitive, NEW a \in MatchScan, NEW c \in Nat
    PROVE  MatchAt(ln, q, insensitive, a, c) \in MatchScan
<1>1. Len(q) \in Nat /\ a.out \in Seq(Nat) /\ a.from \in Nat
  BY QueryIs DEF MatchScan
<1>2. PICK o : o = Append(a.out, c)
  OBVIOUS
<1>3. o \in Seq(Nat) /\ c + Len(q) \in Nat
  BY <1>1, <1>2, AppendProperties
<1>4. [out |-> o, from |-> c + Len(q)] \in MatchScan
  BY <1>3 DEF MatchScan
<1> QED BY <1>2, <1>4 DEF MatchAt

NoMatchYet == [out |-> <<>>, from |-> 0]

\* The scan after each column.
MatchRun(k, ln, q, insensitive) ==
    /\ k \in [0..Len(ln) -> MatchScan] /\ k[0] = NoMatchYet
    /\ \A n \in 1..Len(ln) : k[n] = MatchAt(ln, q, insensitive, k[n - 1], n - 1)
    /\ MatchLiteral(ln, q, insensitive) = k[Len(ln)].out

LEMMA MatchRuns ==
    ASSUME NEW ln \in SearchLine, NEW q \in SearchQuery, NEW insensitive
    PROVE  \E k : MatchRun(k, ln, q, insensitive)
<1> DEFINE SoFar(g, n) == IF n = 0 THEN NoMatchYet ELSE MatchAt(ln, q, insensitive, g[n - 1], n - 1)
           Made(g) == g = [n \in 0..Len(ln) |-> SoFar(g, n)]
           turn == [n \in 1..Len(ln) |-> [a \in MatchScan |-> MatchAt(ln, q, insensitive, a, n - 1)]]
           k == CHOOSE g : Made(g)
<1>1. Len(ln) \in Nat
  BY LenProperties DEF SearchLine
<1>2. ASSUME NEW n \in 1..Len(ln), NEW a \in MatchScan PROVE MatchAt(ln, q, insensitive, a, n - 1) \in MatchScan
  <2>1. n - 1 \in Nat
    BY <1>1
  <2> QED BY <2>1, <1>2, MatchAtType
<1>3. turn \in [1..Len(ln) -> [MatchScan -> MatchScan]]
  BY <1>2
<1>4. NoMatchYet \in MatchScan
  BY EmptySeq DEF NoMatchYet, MatchScan
<1>5. PICK g : Runs(Len(ln), MatchScan, NoMatchYet, turn, g)
  <2> HIDE DEF turn
  <2> QED BY <1>1, <1>3, <1>4, LoopRuns
<1>6. Made(g)
  <2>1. ASSUME NEW n \in 0..Len(ln) PROVE g[n] = SoFar(g, n)
    <3>1. CASE n = 0
      BY <3>1, <1>5 DEF Runs
    <3>2. CASE n # 0
      <4>1. n \in 1..Len(ln) /\ n - 1 \in 0..Len(ln)
        BY <3>2, <1>1
      <4>2. g[n] = turn[n][g[n - 1]] /\ g[n - 1] \in MatchScan
        <5> HIDE DEF turn
        <5> QED BY <4>1, <1>5 DEF Runs
      <4>3. g[n] = MatchAt(ln, q, insensitive, g[n - 1], n - 1)
        BY <4>1, <4>2
      <4> QED BY <3>2, <4>3
    <3> QED BY <3>1, <3>2
  <2>2. g = [n \in 0..Len(ln) |-> g[n]]
    BY <1>5 DEF Runs
  <2> HIDE DEF turn, SoFar
  <2> QED BY <2>1, <2>2
<1>7. Made(k)
  <2> HIDE DEF Made
  <2> QED BY <1>6
<1>8. MatchLiteral(ln, q, insensitive) = k[Len(ln)].out
  BY DEF MatchLiteral, NoMatchYet
<1> HIDE DEF k
<1>9. k[0] = NoMatchYet /\ \A n \in 1..Len(ln) : k[n] = MatchAt(ln, q, insensitive, k[n - 1], n - 1)
  <2>1. ASSUME NEW n \in 0..Len(ln) PROVE k[n] = SoFar(k, n)
    <3> HIDE DEF SoFar
    <3> QED BY <1>7
  <2> HIDE DEF Made
  <2>2. k[0] = NoMatchYet
    BY <2>1, <1>1
  <2>3. ASSUME NEW n \in 1..Len(ln) PROVE k[n] = MatchAt(ln, q, insensitive, k[n - 1], n - 1)
    <3>1. n \in 0..Len(ln) /\ n # 0
      BY <1>1
    <3>2. k[n] = SoFar(k, n)
      BY <2>1, <3>1
    <3> QED BY <3>1, <3>2
  <2> QED BY <2>2, <2>3
<1>10. ASSUME NEW m \in 0..(Len(ln) - 1), k[m] \in MatchScan PROVE k[m + 1] \in MatchScan
  <2>1. m + 1 \in 1..Len(ln) /\ (m + 1) - 1 = m
    BY <1>1
  <2>2. k[m + 1] = MatchAt(ln, q, insensitive, k[(m + 1) - 1], (m + 1) - 1)
    BY <2>1, <1>9
  <2>3. PICK n \in 1..Len(ln) : n = m + 1 /\ n - 1 = m
    BY <2>1
  <2>4. k[n] = MatchAt(ln, q, insensitive, k[m], n - 1)
    BY <2>2, <2>3
  <2>5. k[n] \in MatchScan
    BY <2>4, <1>2, <1>10
  <2> QED BY <2>3, <2>5
<1>11. \A m \in 0..Len(ln) : k[m] \in MatchScan
  BY <1>1, <1>4, <1>9, <1>10, StaysIn
<1>12. k = [m \in 0..Len(ln) |-> k[m]]
  BY <1>7
<1> HIDE DEF Made
<1> QED BY <1>8, <1>9, <1>11, <1>12 DEF MatchRun

\* The columns of a scan, as a set.
ColumnsOf(out) == {out[i] : i \in 1..Len(out)}

\* Columns that rise by the length of a match.
RisesBy(out, n) == \A i, j \in 1..Len(out) : i < j => out[i] + n <= out[j]

\* What the scan has at column c: the matches left of it that no match before them covers.
ScanHas(ln, q, insensitive, c, a) ==
    /\ RisesBy(a.out, Len(q))
    /\ \A d \in ColumnsOf(a.out) : d < c /\ HitAt(ln, q, insensitive, d) /\ d + Len(q) <= a.from
    /\ \A d \in 0..(c - 1) : HitAt(ln, q, insensitive, d) /\ d \notin ColumnsOf(a.out) =>
           \E e \in ColumnsOf(a.out) : e < d /\ d < e + Len(q)
    /\ a.from > 0 => \E e \in ColumnsOf(a.out) : a.from = e + Len(q)

LEMMA ColumnsAfter ==
    ASSUME NEW s \in Seq(Nat), NEW c \in Nat
    PROVE  /\ ColumnsOf(Append(s, c)) = ColumnsOf(s) \cup {c} /\ ColumnsOf(s) \subseteq Nat
<1>1. PICK t : t = Append(s, c)
  OBVIOUS
<1>6. t \in Seq(Nat) /\ Len(t) = Len(s) + 1 /\ t[Len(s) + 1] = c /\ \A i \in 1..Len(s) : t[i] = s[i]
  BY <1>1, AppendProperties
<1>7. Len(s) \in Nat
  BY LenProperties
<1>2. ASSUME NEW d \in ColumnsOf(t) PROVE d \in ColumnsOf(s) \cup {c}
  <2>1. PICK i \in 1..Len(t) : d = t[i]
    BY DEF ColumnsOf
  <2>2. CASE i \in 1..Len(s)
    BY <1>6, <2>1, <2>2 DEF ColumnsOf
  <2>3. CASE i \notin 1..Len(s)
    <3>1. i = Len(s) + 1
      BY <1>6, <1>7, <2>1, <2>3
    <3> QED BY <1>6, <2>1, <3>1
  <2> QED BY <2>2, <2>3
<1>3. ASSUME NEW d \in ColumnsOf(s) PROVE d \in ColumnsOf(t)
  <2>1. PICK i \in 1..Len(s) : d = s[i]
    BY DEF ColumnsOf
  <2>2. i \in 1..Len(t) /\ t[i] = d
    BY <1>6, <1>7, <2>1
  <2> QED BY <2>2 DEF ColumnsOf
<1>4. c \in ColumnsOf(t)
  <2>1. Len(s) + 1 \in 1..Len(t)
    BY <1>6, <1>7
  <2> QED BY <1>6, <2>1 DEF ColumnsOf
<1>5. ColumnsOf(s) \subseteq Nat
  BY ElementOfSeq DEF ColumnsOf
<1> QED BY <1>1, <1>2, <1>3, <1>4, <1>5

LEMMA MatchTurn ==
    ASSUME NEW ln \in SearchLine, NEW q \in SearchQuery, NEW insensitive, NEW c \in Nat, NEW a \in MatchScan,
           ScanHas(ln, q, insensitive, c, a)
    PROVE  ScanHas(ln, q, insensitive, c + 1, MatchAt(ln, q, insensitive, a, c))
<1>1. PICK n \in Nat \ {0} : n = Len(q)
  BY QueryIs
<1>2. a.out \in Seq(Nat) /\ a.from \in Nat /\ ColumnsOf(a.out) \subseteq Nat
  BY ColumnsAfter DEF MatchScan
<1> DEFINE Hit(d) == HitAt(ln, q, insensitive, d)
<1>3. /\ RisesBy(a.out, n)
      /\ \A d \in ColumnsOf(a.out) : d < c /\ Hit(d) /\ d + n <= a.from
      /\ \A d \in 0..(c - 1) : Hit(d) /\ d \notin ColumnsOf(a.out) => \E e \in ColumnsOf(a.out) : e < d /\ d < e + n
      /\ a.from > 0 => \E e \in ColumnsOf(a.out) : a.from = e + n
  BY <1>1 DEF ScanHas
<1>4. CASE c >= a.from /\ Hit(c)
  <2>1. PICK b : b = MatchAt(ln, q, insensitive, a, c)
    OBVIOUS
  <2>2. b = [out |-> Append(a.out, c), from |-> c + n]
    BY <1>1, <1>4, <2>1 DEF MatchAt
  <2>3. PICK o : o = Append(a.out, c)
    OBVIOUS
  <2>4. b.out = o /\ b.from = c + n /\ ColumnsOf(o) = ColumnsOf(a.out) \cup {c}
    BY <1>2, <2>2, <2>3, ColumnsAfter
  <2>5. o \in Seq(Nat) /\ Len(o) = Len(a.out) + 1 /\ o[Len(a.out) + 1] = c /\ Len(a.out) \in Nat
        /\ \A i \in 1..Len(a.out) : o[i] = a.out[i]
    BY <1>2, <2>3, AppendProperties, LenProperties
  <2>6. RisesBy(o, n)
    <3> SUFFICES ASSUME NEW i \in 1..Len(o), NEW j \in 1..Len(o), i < j PROVE o[i] + n <= o[j]
      BY DEF RisesBy
    <3>1. i \in 1..Len(a.out) /\ o[i] = a.out[i]
      BY <2>5
    <3>2. CASE j \in 1..Len(a.out)
      BY <1>3, <2>5, <3>1, <3>2 DEF RisesBy
    <3>3. CASE j \notin 1..Len(a.out)
      <4>1. j = Len(a.out) + 1
        BY <2>5, <3>3
      <4>2. o[j] = c /\ o[i] \in ColumnsOf(a.out)
        BY <2>5, <3>1, <4>1 DEF ColumnsOf
      <4>3. o[i] + n <= a.from /\ o[i] \in Nat
        BY <1>2, <1>3, <4>2
      <4> QED BY <1>2, <1>4, <4>2, <4>3
    <3> QED BY <3>2, <3>3
  <2>7. ASSUME NEW d \in ColumnsOf(o) PROVE d < c + 1 /\ Hit(d) /\ d + n <= c + n
    <3>1. CASE d = c
      BY <1>4, <3>1
    <3>2. CASE d \in ColumnsOf(a.out)
      BY <1>2, <1>3, <3>2
    <3> QED BY <2>4, <3>1, <3>2
  <2>8. ASSUME NEW d \in 0..((c + 1) - 1), Hit(d), d \notin ColumnsOf(o)
        PROVE  \E e \in ColumnsOf(o) : e < d /\ d < e + n
    <3>1. d # c /\ d \in 0..(c - 1) /\ d \notin ColumnsOf(a.out)
      BY <2>4, <2>8
    <3>2. PICK e \in ColumnsOf(a.out) : e < d /\ d < e + n
      BY <1>3, <2>8, <3>1
    <3> QED BY <2>4, <3>2
  <2>9. \E e \in ColumnsOf(o) : c + n = e + n
    BY <2>4
  <2> HIDE DEF Hit
  <2>10. /\ RisesBy(b.out, n)
         /\ \A d \in ColumnsOf(b.out) : d < c + 1 /\ Hit(d) /\ d + n <= b.from
         /\ \A d \in 0..((c + 1) - 1) : Hit(d) /\ d \notin ColumnsOf(b.out) =>
                \E e \in ColumnsOf(b.out) : e < d /\ d < e + n
         /\ b.from > 0 => \E e \in ColumnsOf(b.out) : b.from = e + n
    BY <2>4, <2>6, <2>7, <2>8, <2>9
  <2>11. ScanHas(ln, q, insensitive, c + 1, b)
    BY <1>1, <2>10 DEF ScanHas, Hit
  <2> QED BY <2>1, <2>11
<1>5. CASE ~(c >= a.from /\ Hit(c))
  <2>1. MatchAt(ln, q, insensitive, a, c) = a
    BY <1>5 DEF MatchAt
  <2>2. ASSUME NEW d \in ColumnsOf(a.out) PROVE d < c + 1 /\ Hit(d) /\ d + n <= a.from
    BY <1>2, <1>3
  <2>3. ASSUME NEW d \in 0..((c + 1) - 1), Hit(d), d \notin ColumnsOf(a.out)
        PROVE  \E e \in ColumnsOf(a.out) : e < d /\ d < e + n
    <3>1. CASE d = c
      <4>1. a.from > c /\ a.from > 0
        BY <1>2, <1>5, <2>3, <3>1
      <4>2. PICK e \in ColumnsOf(a.out) : a.from = e + n
        BY <1>3, <4>1
      <4>3. e < c /\ e \in Nat
        BY <1>2, <1>3
      <4> QED BY <3>1, <4>1, <4>2, <4>3
    <3>2. CASE d # c
      <4>1. d \in 0..(c - 1)
        BY <3>2
      <4> QED BY <1>3, <2>3, <4>1
    <3> QED BY <3>1, <3>2
  <2> HIDE DEF Hit
  <2>4. /\ RisesBy(a.out, n)
        /\ \A d \in ColumnsOf(a.out) : d < c + 1 /\ Hit(d) /\ d + n <= a.from
        /\ \A d \in 0..((c + 1) - 1) : Hit(d) /\ d \notin ColumnsOf(a.out) =>
               \E e \in ColumnsOf(a.out) : e < d /\ d < e + n
        /\ a.from > 0 => \E e \in ColumnsOf(a.out) : a.from = e + n
    BY <1>3, <2>2, <2>3
  <2>5. ScanHas(ln, q, insensitive, c + 1, a)
    BY <1>1, <2>4 DEF ScanHas, Hit
  <2> QED BY <2>1, <2>5
<1> QED BY <1>4, <1>5

\* Two sets that hold the places no earlier place of theirs covers are one set.
Uncovered(places, n, S) == \A c \in places : c \in S <=> ~ \E d \in S : d < c /\ c < d + n

LEMMA OneUncovered ==
    ASSUME NEW places \in SUBSET Nat, NEW n \in Nat, NEW S \in SUBSET places, NEW T \in SUBSET places,
           Uncovered(places, n, S), Uncovered(places, n, T)
    PROVE  S = T
<1> DEFINE D == {c \in places : ~(c \in S <=> c \in T)}
<1>1. CASE D = {}
  BY <1>1
<1>2. CASE D # {}
  <2>1. D \subseteq Nat
    OBVIOUS
  <2>2. PICK c \in D : \A d \in D : c <= d
    <3> HIDE DEF D
    <3> QED BY <1>2, <2>1, Least
  <2>3. c \in places /\ c \in Nat /\ ~(c \in S <=> c \in T)
    BY <2>2
  <2>4. \A d \in places : d < c => (d \in S <=> d \in T)
    <3> SUFFICES ASSUME NEW d \in places, d < c, ~(d \in S <=> d \in T) PROVE FALSE
      OBVIOUS
    <3>1. d \in D /\ d \in Nat
      OBVIOUS
    <3>2. c <= d
      BY <2>2, <3>1
    <3> QED BY <2>3, <3>1, <3>2
  <2>5. (\E d \in S : d < c /\ c < d + n) <=> (\E d \in T : d < c /\ c < d + n)
    BY <2>4
  <2>6. (c \in S <=> ~ \E d \in S : d < c /\ c < d + n) /\ (c \in T <=> ~ \E d \in T : d < c /\ c < d + n)
    BY <2>3 DEF Uncovered
  <2> QED BY <2>3, <2>5, <2>6
<1> QED BY <1>1, <1>2

LEMMA LiteralHas ==
    ASSUME NEW ln \in SearchLine, NEW q \in SearchQuery, NEW insensitive
    PROVE  \E a \in MatchScan : /\ a.out = MatchLiteral(ln, q, insensitive)
                                /\ ScanHas(ln, q, insensitive, Len(ln), a)
<1>2. Len(ln) \in Nat /\ Len(q) \in Nat \ {0}
  BY LenProperties, QueryIs DEF SearchLine
<1>3. PICK k : MatchRun(k, ln, q, insensitive)
  BY MatchRuns
<1>4. /\ k \in [0..Len(ln) -> MatchScan] /\ k[0] = NoMatchYet
      /\ \A c \in 1..Len(ln) : k[c] = MatchAt(ln, q, insensitive, k[c - 1], c - 1)
      /\ MatchLiteral(ln, q, insensitive) = k[Len(ln)].out
  BY <1>3 DEF MatchRun
<1> DEFINE T == {c \in 0..Len(ln) : ScanHas(ln, q, insensitive, c, k[c])}
<1>5. 0 \in T
  <2>1. k[0].out = <<>> /\ k[0].from = 0
    BY <1>4 DEF NoMatchYet
  <2>2. Len(<<>>) = 0
    BY EmptySeq
  <2>3. ScanHas(ln, q, insensitive, 0, k[0])
    BY <2>1, <2>2 DEF ScanHas, RisesBy, ColumnsOf
  <2> QED BY <1>2, <2>3
<1>6. ASSUME NEW c \in 0..(Len(ln) - 1), c \in T PROVE c + 1 \in T
  <2>1. c \in Nat /\ c \in 0..Len(ln) /\ c + 1 \in 1..Len(ln) /\ (c + 1) - 1 = c
    BY <1>2
  <2>2. k[c + 1] = MatchAt(ln, q, insensitive, k[(c + 1) - 1], (c + 1) - 1)
    BY <1>4, <2>1
  <2>3. k[c + 1] = MatchAt(ln, q, insensitive, k[c], c) /\ k[c] \in MatchScan
    BY <1>4, <2>1, <2>2
  <2>4. ScanHas(ln, q, insensitive, c + 1, k[c + 1])
    BY <1>6, <2>1, <2>3, MatchTurn
  <2> QED BY <2>1, <2>4
<1>7. ScanHas(ln, q, insensitive, Len(ln), k[Len(ln)])
  <2>1. \A c \in 0..Len(ln) : c \in T
    <3> HIDE DEF T
    <3> QED BY <1>2, <1>5, <1>6, UpTo
  <2> QED BY <1>2, <2>1
<1>8. k[Len(ln)] \in MatchScan
  BY <1>2, <1>4
<1> QED BY <1>4, <1>7, <1>8

\* The matches rise, and lie within the line.
LEMMA LiteralFits ==
    ASSUME NEW ln \in SearchLine, NEW q \in SearchQuery, NEW insensitive, NEW h,
           h = MatchLiteral(ln, q, insensitive)
    PROVE  /\ h \in Seq(Nat) /\ RisesBy(h, Len(q))
           /\ \A i \in 1..Len(h) : h[i] \in Nat /\ h[i] + Len(q) <= Len(ln)
<1>1. PICK a \in MatchScan : a.out = h /\ ScanHas(ln, q, insensitive, Len(ln), a)
  BY LiteralHas
<1>2. h \in Seq(Nat)
  BY <1>1 DEF MatchScan
<1>3. RisesBy(h, Len(q)) /\ \A d \in ColumnsOf(h) : HitAt(ln, q, insensitive, d)
  BY <1>1 DEF ScanHas
<1>4. ASSUME NEW i \in 1..Len(h) PROVE h[i] \in Nat /\ h[i] + Len(q) <= Len(ln)
  <2>1. h[i] \in ColumnsOf(h) /\ h[i] \in Nat
    BY <1>2, ElementOfSeq DEF ColumnsOf
  <2> QED BY <1>3, <2>1 DEF HitAt
<1> QED BY <1>2, <1>3, <1>4

\* The matches of a line, from the left, are the occurrences a search means.
LEMMA HitsAre ==
    ASSUME NEW ln \in SearchLine, NEW q \in SearchQuery
    PROVE  /\ Hits(ln, q) \in Seq(Nat) /\ RisesBy(Hits(ln, q), Len(q))
           /\ ColumnsOf(Hits(ln, q)) = MatchesOf(ln, q)
           /\ \A c \in MatchesOf(ln, q) : c \in Nat /\ c + Len(q) <= Len(ln)
<1>1. PICK insensitive : insensitive = ~HasUpper(q)
  OBVIOUS
<1>2. Len(ln) \in Nat /\ Len(q) \in Nat \ {0}
  BY LenProperties, QueryIs DEF SearchLine
<1>8. PICK a \in MatchScan : /\ a.out = MatchLiteral(ln, q, insensitive)
                             /\ ScanHas(ln, q, insensitive, Len(ln), a)
  BY LiteralHas
<1>9. a.out = Hits(ln, q) /\ a.out \in Seq(Nat) /\ ColumnsOf(a.out) \subseteq Nat
  <2>1. a.out \in Seq(Nat)
    BY DEF MatchScan
  <2> QED BY <1>1, <1>8, <2>1, ColumnsAfter DEF Hits
<1>10. /\ RisesBy(a.out, Len(q))
       /\ \A d \in ColumnsOf(a.out) : d < Len(ln) /\ HitAt(ln, q, insensitive, d)
       /\ \A d \in 0..(Len(ln) - 1) : HitAt(ln, q, insensitive, d) /\ d \notin ColumnsOf(a.out) =>
              \E e \in ColumnsOf(a.out) : e < d /\ d < e + Len(q)
  BY <1>8 DEF ScanHas
<1>11. PICK places : places = {c \in 0..Len(ln) : HitAt(ln, q, ~HasUpper(q), c)}
  OBVIOUS
<1>12. \A c \in places : c \in Nat /\ c + Len(q) <= Len(ln) /\ c \in 0..(Len(ln) - 1)
  <2> SUFFICES ASSUME NEW c \in places
               PROVE  c \in Nat /\ c + Len(q) <= Len(ln) /\ c \in 0..(Len(ln) - 1)
    OBVIOUS
  <2>1. c \in 0..Len(ln) /\ c + Len(q) <= Len(ln)
    BY <1>11 DEF HitAt
  <2> QED BY <1>2, <2>1
<1>13. PICK S : S = ColumnsOf(a.out)
  OBVIOUS
<1>14. S \in SUBSET places
  <2>1. ASSUME NEW d \in S PROVE d \in places
    <3>1. d \in Nat /\ d < Len(ln) /\ HitAt(ln, q, insensitive, d)
      BY <1>9, <1>10, <1>13
    <3> QED BY <1>1, <1>2, <1>11, <3>1
  <2> QED BY <2>1
<1>15. Uncovered(places, Len(q), S)
  <2> SUFFICES ASSUME NEW c \in places PROVE c \in S <=> ~ \E d \in S : d < c /\ c < d + Len(q)
    BY DEF Uncovered
  <2>1. ASSUME c \in S, NEW d \in S, d < c, c < d + Len(q) PROVE FALSE
    <3>1. PICK i \in 1..Len(a.out) : c = a.out[i]
      BY <1>13, <2>1 DEF ColumnsOf
    <3>2. PICK j \in 1..Len(a.out) : d = a.out[j]
      BY <1>13, <2>1 DEF ColumnsOf
    <3>3. Len(a.out) \in Nat /\ c \in Nat /\ d \in Nat
      BY <1>9, <1>13, <2>1, LenProperties
    <3>7. i \in 1..Len(a.out) /\ j \in 1..Len(a.out)
      OBVIOUS
    <3>4. CASE i < j
      <4>1. a.out[i] + Len(q) <= a.out[j]
        BY ONLY <1>10, <3>4, <3>7 DEF RisesBy
      <4> QED BY <1>2, <2>1, <3>1, <3>2, <3>3, <4>1
    <3>5. CASE j < i
      <4>1. a.out[j] + Len(q) <= a.out[i]
        BY ONLY <1>10, <3>5, <3>7 DEF RisesBy
      <4> QED BY <1>2, <2>1, <3>1, <3>2, <3>3, <4>1
    <3>6. CASE i = j
      BY <2>1, <3>1, <3>2, <3>3, <3>6
    <3> QED BY <3>3, <3>4, <3>5, <3>6
  <2>2. ASSUME c \notin S PROVE \E d \in S : d < c /\ c < d + Len(q)
    <3>1. c \in 0..(Len(ln) - 1) /\ HitAt(ln, q, insensitive, c)
      BY <1>1, <1>11, <1>12
    <3> QED BY <1>10, <1>13, <2>2, <3>1
  <2> QED BY <2>1, <2>2
<1>16. MatchesOf(ln, q) = S
  <2>1. PICK M : M = MatchesOf(ln, q)
    OBVIOUS
  <2>2. M = CHOOSE R \in SUBSET places : Uncovered(places, Len(q), R)
    BY <1>11, <2>1 DEF MatchesOf, Uncovered
  <2>3. M \in SUBSET places /\ Uncovered(places, Len(q), M)
    BY <1>14, <1>15, <2>2
  <2>4. places \in SUBSET Nat /\ Len(q) \in Nat
    BY <1>2, <1>12
  <2>5. M = S
    BY ONLY <2>3, <2>4, <1>14, <1>15, OneUncovered
  <2> QED BY <2>1, <2>5
<1>17. \A c \in S : c \in Nat /\ c + Len(q) <= Len(ln)
  BY <1>12, <1>14
<1> QED BY <1>9, <1>10, <1>13, <1>16, <1>17

(***************************************************************************)
(* All matches of a text.                                                  *)
(***************************************************************************)
SearchText == Seq(SearchLine) \ {<<>>}
SearchSpot == Nat \X Nat

LEMMA SearchTextIs ==
    ASSUME NEW t \in SearchText
    PROVE  /\ Len(t) \in Nat \ {0} /\ DOMAIN t = 1..Len(t) /\ t \in Seq(SearchLine)
           /\ \A l \in 1..Len(t) : t[l] \in SearchLine
BY EmptySeq, LenProperties, ElementOfSeq DEF SearchText

LEMMA LineMatchesAre ==
    ASSUME NEW t \in SearchText, NEW q \in SearchQuery, NEW l \in Nat, l < Len(t)
    PROVE  /\ LineMatches(t, q, l) \in Seq(SearchSpot)
           /\ Len(LineMatches(t, q, l)) = Len(Hits(t[l + 1], q))
           /\ \A i \in 1..Len(Hits(t[l + 1], q)) : LineMatches(t, q, l)[i] = <<l, Hits(t[l + 1], q)[i]>>
<1>1. t[l + 1] \in SearchLine
  <2>1. l + 1 \in 1..Len(t)
    BY SearchTextIs
  <2> QED BY <2>1, SearchTextIs
<1>2. PICK h : h = Hits(t[l + 1], q)
  OBVIOUS
<1>3. h \in Seq(Nat)
  BY <1>1, <1>2, HitsAre
<1>4. Len(h) \in Nat /\ DOMAIN h = 1..Len(h) /\ \A i \in 1..Len(h) : h[i] \in Nat
  BY <1>3, LenProperties, ElementOfSeq
<1>5. LineMatches(t, q, l) = [i \in 1..Len(h) |-> <<l, h[i]>>]
  BY <1>2, <1>4 DEF LineMatches
<1>6. \A i \in 1..Len(h) : <<l, h[i]>> \in SearchSpot
  BY <1>4 DEF SearchSpot
<1>7. PICK m : m = [i \in 1..Len(h) |-> <<l, h[i]>>]
  OBVIOUS
<1>8. m \in Seq(SearchSpot) /\ Len(m) = Len(h)
  BY <1>4, <1>6, <1>7
<1>9. \A i \in 1..Len(h) : m[i] = <<l, h[i]>>
  BY <1>7
<1> QED BY <1>2, <1>5, <1>7, <1>8, <1>9

\* Matches in the order of the text, and those of the lines above line n.
Precedes(a, b) == a[1] < b[1] \/ (a[1] = b[1] /\ a[2] < b[2])
InOrder(ms) == \A i, j \in 1..Len(ms) : i < j => Precedes(ms[i], ms[j])
MatchSet(t, q, n) == UNION {{<<l - 1, c>> : c \in MatchesOf(t[l], q)} : l \in 1..n}
MatchesAbove(t, q, n, ms) == InOrder(ms) /\ {ms[i] : i \in 1..Len(ms)} = MatchSet(t, q, n)

LEMMA MatchSpots ==
    ASSUME NEW t \in SearchText, NEW q \in SearchQuery, NEW n \in 0..Len(t), NEW p \in MatchSet(t, q, n)
    PROVE  /\ p = <<p[1], p[2]>> /\ p[1] \in Nat /\ p[2] \in Nat /\ p[1] < n
           /\ p[2] \in MatchesOf(t[p[1] + 1], q) /\ p[2] + Len(q) <= Len(t[p[1] + 1])
<1>5. PICK l \in 1..n : \E c \in MatchesOf(t[l], q) : p = <<l - 1, c>>
  BY DEF MatchSet
<1>1. PICK c \in MatchesOf(t[l], q) : p = <<l - 1, c>>
  BY <1>5
<1>2. Len(t) \in Nat /\ l \in 1..Len(t) /\ t[l] \in SearchLine /\ l \in Nat /\ n \in Nat
  BY SearchTextIs
<1>3. c \in Nat /\ c + Len(q) <= Len(t[l])
  BY <1>2, HitsAre
<1>4. p[1] = l - 1 /\ p[2] = c /\ (l - 1) + 1 = l
  BY <1>1, <1>2
<1> QED BY <1>1, <1>2, <1>3, <1>4

LEMMA MatchesTurn ==
    ASSUME NEW t \in SearchText, NEW q \in SearchQuery, NEW n \in 0..(Len(t) - 1), NEW ms \in Seq(SearchSpot),
           MatchesAbove(t, q, n, ms)
    PROVE  MatchesAbove(t, q, n + 1, ms \o LineMatches(t, q, n))
<1>1. PICK N \in Nat : N = Len(t)
  BY SearchTextIs
<1>2. n \in Nat /\ n < N /\ n + 1 \in 1..N /\ n \in 0..N
  BY <1>1
<1>3. PICK h : h = Hits(t[n + 1], q)
  OBVIOUS
<1>4. /\ h \in Seq(Nat) /\ RisesBy(h, Len(q)) /\ ColumnsOf(h) = MatchesOf(t[n + 1], q)
  BY <1>1, <1>2, <1>3, SearchTextIs, HitsAre
<1>5. PICK u : u = LineMatches(t, q, n)
  OBVIOUS
<1>6. u \in Seq(SearchSpot) /\ Len(u) = Len(h) /\ \A i \in 1..Len(h) : u[i] = <<n, h[i]>>
  BY <1>1, <1>2, <1>3, <1>5, LineMatchesAre
<1>7. PICK v : v = ms \o u
  OBVIOUS
<1>8. PICK m \in Nat : m = Len(ms)
  BY LenProperties
<1>9. PICK o \in Nat : o = Len(h)
  BY <1>4, LenProperties
<1>10. Len(v) = m + o /\ (\A i \in 1..(m + o) : v[i] = IF i <= m THEN ms[i] ELSE u[i - m])
  <2>1. /\ Len(ms \o u) = Len(ms) + Len(u)
        /\ \A i \in 1..(Len(ms) + Len(u)) : (ms \o u)[i] = IF i <= Len(ms) THEN ms[i] ELSE u[i - Len(ms)]
    BY <1>6, ConcatProperties
  <2>2. Len(ms) = m /\ Len(u) = o
    BY <1>6, <1>8, <1>9
  <2> QED BY <1>7, <2>1, <2>2
<1>11. \A i \in 1..m : v[i] = ms[i] /\ v[i] \in MatchSet(t, q, n)
  <2> SUFFICES ASSUME NEW i \in 1..m PROVE v[i] = ms[i] /\ v[i] \in MatchSet(t, q, n)
    OBVIOUS
  <2>1. i \in 1..(m + o) /\ i <= m
    OBVIOUS
  <2>2. v[i] = ms[i]
    BY <1>10, <2>1
  <2> QED BY <1>8, <2>2 DEF MatchesAbove
<1>12. \A i \in 1..(m + o) : i > m => i - m \in 1..o /\ v[i] = <<n, h[i - m]>>
  <2> SUFFICES ASSUME NEW i \in 1..(m + o), i > m PROVE i - m \in 1..o /\ v[i] = <<n, h[i - m]>>
    OBVIOUS
  <2>1. i - m \in 1..o /\ ~(i <= m)
    OBVIOUS
  <2>2. v[i] = u[i - m]
    BY <1>10, <2>1
  <2> QED BY <1>6, <1>9, <2>1, <2>2
<1>13. \A i \in 1..o : m + i \in 1..(m + o) /\ v[m + i] = <<n, h[i]>>
  <2> SUFFICES ASSUME NEW i \in 1..o PROVE m + i \in 1..(m + o) /\ v[m + i] = <<n, h[i]>>
    OBVIOUS
  <2>1. m + i \in 1..(m + o) /\ m + i > m /\ (m + i) - m = i
    OBVIOUS
  <2> QED BY <1>12, <2>1
<1>14. InOrder(v)
  <2> SUFFICES ASSUME NEW i \in 1..(m + o), NEW j \in 1..(m + o), i < j PROVE Precedes(v[i], v[j])
    BY <1>10 DEF InOrder
  <2>1. CASE j <= m
    <3>1. i \in 1..m /\ j \in 1..m
      BY <2>1
    <3> QED BY <1>8, <1>11, <3>1 DEF MatchesAbove, InOrder
  <2>2. CASE i <= m /\ j > m
    <3>1. i \in 1..m
      BY <2>2
    <3>2. v[i][1] \in Nat /\ v[i][1] < n
      BY <1>1, <1>2, <1>11, <3>1, MatchSpots
    <3>3. v[j][1] = n
      BY <1>12, <2>2
    <3> QED BY <3>2, <3>3 DEF Precedes
  <2>3. CASE i > m
    <3>1. i - m \in 1..o /\ j - m \in 1..o /\ i - m < j - m
      BY <2>3
    <3>2. v[i] = <<n, h[i - m]>> /\ v[j] = <<n, h[j - m]>>
      BY <1>12, <2>3
    <3>3. h[i - m] + Len(q) <= h[j - m] /\ h[i - m] \in Nat /\ h[j - m] \in Nat
      BY <1>4, <1>9, <3>1, ElementOfSeq DEF RisesBy
    <3>4. h[i - m] < h[j - m]
      BY <3>3, QueryIs
    <3> QED BY <3>2, <3>4 DEF Precedes
  <2> QED BY <2>1, <2>2, <2>3
<1>15. ASSUME NEW p \in MatchSet(t, q, n + 1) PROVE p \in {v[i] : i \in 1..(m + o)}
  <2>4. PICK l \in 1..(n + 1) : \E c \in MatchesOf(t[l], q) : p = <<l - 1, c>>
    BY DEF MatchSet
  <2>1. PICK c \in MatchesOf(t[l], q) : p = <<l - 1, c>>
    BY <2>4
  <2>2. CASE l = n + 1
    <3>1. PICK i \in 1..o : h[i] = c
      BY <1>4, <1>9, <2>1, <2>2 DEF ColumnsOf
    <3>2. p = <<n, h[i]>>
      BY <1>2, <2>1, <2>2, <3>1
    <3> QED BY <1>13, <3>1, <3>2
  <2>3. CASE l # n + 1
    <3>1. l \in 1..n
      BY <1>2, <2>3
    <3>2. p \in MatchSet(t, q, n)
      BY <2>1, <3>1 DEF MatchSet
    <3>3. PICK i \in 1..m : p = ms[i]
      BY <1>8, <3>2 DEF MatchesAbove
    <3>4. p = v[i] /\ i \in 1..(m + o)
      BY <1>11, <3>3
    <3> QED BY <3>4
  <2> QED BY <2>2, <2>3
<1>16. ASSUME NEW i \in 1..(m + o) PROVE v[i] \in MatchSet(t, q, n + 1)
  <2>1. CASE i <= m
    <3>1. v[i] \in MatchSet(t, q, n)
      BY <1>11, <2>1
    <3>2. 1..n \subseteq 1..(n + 1)
      BY <1>2
    <3> QED BY <3>1, <3>2 DEF MatchSet
  <2>2. CASE i > m
    <3>1. i - m \in 1..o /\ v[i] = <<n, h[i - m]>>
      BY <1>12, <2>2
    <3>2. h[i - m] \in MatchesOf(t[n + 1], q)
      BY <1>4, <1>9, <3>1 DEF ColumnsOf
    <3>3. n + 1 \in 1..(n + 1) /\ (n + 1) - 1 = n
      BY <1>2
    <3>4. <<(n + 1) - 1, h[i - m]>> \in MatchSet(t, q, n + 1)
      BY <3>2, <3>3 DEF MatchSet
    <3> QED BY <3>1, <3>3, <3>4
  <2> QED BY <2>1, <2>2
<1>17. {v[i] : i \in 1..(m + o)} = MatchSet(t, q, n + 1)
  BY <1>15, <1>16
<1>18. MatchesAbove(t, q, n + 1, v)
  BY <1>10, <1>14, <1>17 DEF MatchesAbove
<1> QED BY <1>5, <1>7, <1>18

\* The matches of the lines above each line.
MatchesRun(k, t, q) ==
    /\ k \in [0..Len(t) -> Seq(SearchSpot)] /\ k[0] = <<>>
    /\ \A n \in 1..Len(t) : k[n] = k[n - 1] \o LineMatches(t, q, n - 1)
    /\ AllMatches(t, q) = k[Len(t)]

LEMMA MatchesRuns ==
    ASSUME NEW t \in SearchText, NEW q \in SearchQuery
    PROVE  \E k : MatchesRun(k, t, q)
<1> DEFINE SoFar(g, n) == IF n = 0 THEN <<>> ELSE g[n - 1] \o LineMatches(t, q, n - 1)
           Made(g) == g = [n \in 0..Len(t) |-> SoFar(g, n)]
           turn == [n \in 1..Len(t) |-> [a \in Seq(SearchSpot) |-> a \o LineMatches(t, q, n - 1)]]
           k == CHOOSE g : Made(g)
<1>1. Len(t) \in Nat
  BY SearchTextIs
<1>2. ASSUME NEW n \in 1..Len(t), NEW a \in Seq(SearchSpot) PROVE a \o LineMatches(t, q, n - 1) \in Seq(SearchSpot)
  <2>1. n - 1 \in Nat /\ n - 1 < Len(t)
    BY <1>1
  <2>2. LineMatches(t, q, n - 1) \in Seq(SearchSpot)
    BY <2>1, LineMatchesAre
  <2> QED BY <1>2, <2>2, ConcatProperties
<1>3. turn \in [1..Len(t) -> [Seq(SearchSpot) -> Seq(SearchSpot)]]
  BY <1>2
<1>4. <<>> \in Seq(SearchSpot)
  BY EmptySeq
<1>5. PICK g : Runs(Len(t), Seq(SearchSpot), <<>>, turn, g)
  <2> HIDE DEF turn
  <2> QED BY <1>1, <1>3, <1>4, LoopRuns
<1>6. Made(g)
  <2>1. ASSUME NEW n \in 0..Len(t) PROVE g[n] = SoFar(g, n)
    <3>1. CASE n = 0
      BY <3>1, <1>5 DEF Runs
    <3>2. CASE n # 0
      <4>1. n \in 1..Len(t) /\ n - 1 \in 0..Len(t)
        BY <3>2, <1>1
      <4>2. g[n] = turn[n][g[n - 1]] /\ g[n - 1] \in Seq(SearchSpot)
        <5> HIDE DEF turn
        <5> QED BY <4>1, <1>5 DEF Runs
      <4>3. g[n] = g[n - 1] \o LineMatches(t, q, n - 1)
        BY <4>1, <4>2
      <4> QED BY <3>2, <4>3
    <3> QED BY <3>1, <3>2
  <2>2. g = [n \in 0..Len(t) |-> g[n]]
    BY <1>5 DEF Runs
  <2> HIDE DEF turn, SoFar
  <2> QED BY <2>1, <2>2
<1>7. Made(k)
  <2> HIDE DEF Made
  <2> QED BY <1>6
<1>8. AllMatches(t, q) = k[Len(t)]
  BY DEF AllMatches
<1> HIDE DEF k
<1>9. k[0] = <<>> /\ \A n \in 1..Len(t) : k[n] = k[n - 1] \o LineMatches(t, q, n - 1)
  <2>1. ASSUME NEW n \in 0..Len(t) PROVE k[n] = SoFar(k, n)
    <3> HIDE DEF SoFar
    <3> QED BY <1>7
  <2> HIDE DEF Made
  <2>2. k[0] = <<>>
    BY <2>1, <1>1
  <2>3. ASSUME NEW n \in 1..Len(t) PROVE k[n] = k[n - 1] \o LineMatches(t, q, n - 1)
    <3>1. n \in 0..Len(t) /\ n # 0
      BY <1>1
    <3>2. k[n] = SoFar(k, n)
      BY <2>1, <3>1
    <3> QED BY <3>1, <3>2
  <2> QED BY <2>2, <2>3
<1>10. ASSUME NEW m \in 0..(Len(t) - 1), k[m] \in Seq(SearchSpot) PROVE k[m + 1] \in Seq(SearchSpot)
  <2>1. m + 1 \in 1..Len(t) /\ (m + 1) - 1 = m
    BY <1>1
  <2>2. k[m + 1] = k[(m + 1) - 1] \o LineMatches(t, q, (m + 1) - 1)
    BY <2>1, <1>9
  <2>3. PICK n \in 1..Len(t) : n = m + 1 /\ n - 1 = m
    BY <2>1
  <2>4. k[n] = k[m] \o LineMatches(t, q, n - 1)
    BY <2>2, <2>3
  <2>5. k[n] \in Seq(SearchSpot)
    BY <2>4, <1>2, <1>10
  <2> QED BY <2>3, <2>5
<1>11. \A m \in 0..Len(t) : k[m] \in Seq(SearchSpot)
  BY <1>1, <1>4, <1>9, <1>10, StaysIn
<1>12. k = [m \in 0..Len(t) |-> k[m]]
  BY <1>7
<1> HIDE DEF Made
<1> QED BY <1>8, <1>9, <1>11, <1>12 DEF MatchesRun

\* The matches of a text, in its order.
LEMMA AllMatchesAre ==
    ASSUME NEW t \in SearchText, NEW q \in SearchQuery
    PROVE  AllMatches(t, q) \in Seq(SearchSpot) /\ MatchesAbove(t, q, Len(t), AllMatches(t, q))
<1>1. Len(t) \in Nat
  BY SearchTextIs
<1>2. PICK k : MatchesRun(k, t, q)
  BY MatchesRuns
<1>3. /\ k \in [0..Len(t) -> Seq(SearchSpot)] /\ k[0] = <<>>
      /\ \A l \in 1..Len(t) : k[l] = k[l - 1] \o LineMatches(t, q, l - 1)
      /\ AllMatches(t, q) = k[Len(t)]
  BY <1>2 DEF MatchesRun
<1> DEFINE T == {n \in 0..Len(t) : MatchesAbove(t, q, n, k[n])}
<1>4. 0 \in T
  <2>1. Len(<<>>) = 0
    BY EmptySeq
  <2>2. MatchesAbove(t, q, 0, <<>>)
    BY <2>1 DEF MatchesAbove, InOrder, MatchSet
  <2> QED BY <1>1, <1>3, <2>2
<1>5. ASSUME NEW n \in 0..(Len(t) - 1), n \in T PROVE n + 1 \in T
  <2>1. n \in 0..Len(t) /\ n + 1 \in 1..Len(t) /\ (n + 1) - 1 = n
    BY <1>1
  <2>2. k[n + 1] = k[(n + 1) - 1] \o LineMatches(t, q, (n + 1) - 1)
    BY <1>3, <2>1
  <2>3. k[n] \in Seq(SearchSpot) /\ k[n + 1] = k[n] \o LineMatches(t, q, n)
    BY <1>3, <2>1, <2>2
  <2>4. MatchesAbove(t, q, n + 1, k[n + 1])
    BY <1>5, <2>3, MatchesTurn
  <2> QED BY <2>1, <2>4
<1>6. \A n \in 0..Len(t) : n \in T
  <2> HIDE DEF T
  <2> QED BY <1>1, <1>4, <1>5, UpTo
<1>7. MatchesAbove(t, q, Len(t), k[Len(t)]) /\ k[Len(t)] \in Seq(SearchSpot)
  BY <1>1, <1>3, <1>6
<1> QED BY <1>3, <1>7

(***************************************************************************)
(* Splices.                                                                *)
(***************************************************************************)
LEMMA PartOfLine ==
    ASSUME NEW w \in Seq(Nat), NEW m \in Nat \ {0}, NEW n \in Nat, n <= Len(w)
    PROVE  /\ SubSeq(w, m, n) \in Seq(Nat) /\ Len(SubSeq(w, m, n)) = IF m <= n THEN n - m + 1 ELSE 0
           /\ \A i \in 1..(n - m + 1) : SubSeq(w, m, n)[i] = w[m + i - 1]
<1>1. \A i \in m..n : i \in 1..Len(w)
  BY LenProperties
<1>2. \A i \in m..n : w[i] \in Nat
  BY <1>1, ElementOfSeq
<1>3. m \in Int /\ n \in Int
  OBVIOUS
<1> QED BY ONLY <1>2, <1>3, SubSeqProperties

\* A splice within a line is a line, as much longer as what is put in.
LEMMA SplicedIs ==
    ASSUME NEW w \in Seq(Nat), NEW c \in Nat, NEW n \in Nat, c + n <= Len(w), NEW rep \in Seq(Nat)
    PROVE  Spliced(w, c, n, rep) \in Seq(Nat) /\ Len(Spliced(w, c, n, rep)) = Len(w) - n + Len(rep)
<1>1. PICK N \in Nat : N = Len(w)
  BY LenProperties
<1>2. PICK a : a = SubSeq(w, 1, c)
  OBVIOUS
<1>3. PICK b : b = SubSeq(w, c + n + 1, N)
  OBVIOUS
<1>4. a \in Seq(Nat) /\ Len(a) = c
  <2>1. c <= Len(w)
    BY <1>1
  <2>2. a \in Seq(Nat) /\ Len(a) = IF 1 <= c THEN c - 1 + 1 ELSE 0
    BY <1>2, <2>1, PartOfLine
  <2> QED BY <2>2
<1>5. b \in Seq(Nat) /\ Len(b) = N - c - n
  <2>1. c + n + 1 \in Nat \ {0} /\ N <= Len(w)
    BY <1>1
  <2>2. b \in Seq(Nat) /\ Len(b) = IF c + n + 1 <= N THEN N - (c + n + 1) + 1 ELSE 0
    BY <1>3, <2>1, PartOfLine
  <2> QED BY <1>1, <2>2
<1>6. PICK r \in Nat : r = Len(rep)
  BY LenProperties
<1>7. PICK x : x = a \o rep
  OBVIOUS
<1>8. x \in Seq(Nat) /\ Len(x) = c + r
  BY <1>4, <1>6, <1>7, ConcatProperties
<1>9. PICK y : y = x \o b
  OBVIOUS
<1>10. y \in Seq(Nat) /\ Len(y) = Len(x) + Len(b)
  BY <1>5, <1>8, <1>9, ConcatProperties
<1>11. Len(y) = N - n + r
  BY <1>5, <1>8, <1>10
<1>12. Spliced(w, c, n, rep) = y
  BY <1>1, <1>2, <1>3, <1>7, <1>9 DEF Spliced
<1> QED BY <1>1, <1>6, <1>10, <1>11, <1>12

\* The line after each splice.
SpliceRun(k, w, h, n, rep) ==
    /\ k \in [0..Len(h) -> Seq(Nat)] /\ k[0] = w
    /\ \A j \in 1..Len(h) : k[j] = Spliced(k[j - 1], h[Len(h) - j + 1], n, rep)
    /\ SplicedAt(w, h, n, rep) = k[Len(h)]

\* Columns of a line, n apart, from which n runes are in it.
FitIn(w, h, n) ==
    /\ h \in Seq(Nat) /\ RisesBy(h, n)
    /\ \A i \in 1..Len(h) : h[i] \in Nat /\ h[i] + n <= Len(w)

\* The splices to come are within the line.
RoomFor(h, n, j, a) == a \in Seq(Nat) /\ (j < Len(h) => h[Len(h) - j] + n <= Len(a))

LEMMA RoomStays ==
    ASSUME NEW w \in Seq(Nat), NEW n \in Nat \ {0}, NEW rep \in Seq(Nat), NEW h, FitIn(w, h, n),
           NEW j \in 0..(Len(h) - 1), NEW a, RoomFor(h, n, j, a)
    PROVE  RoomFor(h, n, j + 1, Spliced(a, h[Len(h) - j], n, rep))
<1>1. PICK m \in Nat : m = Len(h)
  BY LenProperties DEF FitIn
<1>2. PICK c : c = h[m - j]
  OBVIOUS
<1>3. m - j \in 1..m /\ j < m
  BY <1>1
<1>4. c \in Nat /\ a \in Seq(Nat) /\ c + n <= Len(a)
  BY <1>1, <1>2, <1>3 DEF FitIn, RoomFor
<1>5. PICK s : s = Spliced(a, c, n, rep)
  OBVIOUS
<1>6. s \in Seq(Nat) /\ Len(s) = Len(a) - n + Len(rep)
  <2>1. n \in Nat
    OBVIOUS
  <2>2. Spliced(a, c, n, rep) \in Seq(Nat) /\ Len(Spliced(a, c, n, rep)) = Len(a) - n + Len(rep)
    BY ONLY <1>4, <2>1, rep \in Seq(Nat), SplicedIs
  <2> QED BY <1>5, <2>2
<1>7. ASSUME j + 1 < m PROVE h[m - (j + 1)] + n <= Len(s)
  <2>1. m - (j + 1) \in 1..m /\ m - (j + 1) < m - j
    BY <1>3, <1>7
  <2>2. h[m - (j + 1)] + n <= h[m - j] /\ h[m - (j + 1)] \in Nat
    BY <1>1, <1>3, <2>1 DEF FitIn, RisesBy
  <2>3. PICK x \in Nat : x = Len(a)
    BY <1>4, LenProperties
  <2>4. PICK r \in Nat : r = Len(rep)
    BY LenProperties
  <2>5. PICK d \in Nat : d = h[m - (j + 1)]
    BY <2>2
  <2>6. d + n <= c /\ c + n <= x /\ Len(s) = x - n + r
    BY <1>2, <1>4, <1>6, <2>2, <2>3, <2>4, <2>5
  <2>7. PICK y : y = Len(s)
    OBVIOUS
  <2>8. d + n <= y
    <3>1. c \in Nat /\ n \in Nat
      BY <1>4
    <3> QED BY ONLY <2>6, <2>7, <3>1, x \in Nat, r \in Nat, d \in Nat
  <2> QED BY <2>5, <2>7, <2>8
<1>8. RoomFor(h, n, j + 1, s)
  BY <1>1, <1>6, <1>7 DEF RoomFor
<1> QED BY <1>1, <1>2, <1>5, <1>8

LEMMA SpliceRuns ==
    ASSUME NEW w \in Seq(Nat), NEW n \in Nat \ {0}, NEW rep \in Seq(Nat), NEW h, FitIn(w, h, n)
    PROVE  \E k : SpliceRun(k, w, h, n, rep)
<1> DEFINE N == Len(h)
           SoFar(g, j) == IF j = 0 THEN w ELSE Spliced(g[j - 1], h[N - j + 1], n, rep)
           Made(g) == g = [j \in 0..N |-> SoFar(g, j)]
           Turned(j, a) == IF h[N - j + 1] + n <= Len(a) THEN Spliced(a, h[N - j + 1], n, rep) ELSE a
           turn == [j \in 1..N |-> [a \in Seq(Nat) |-> Turned(j, a)]]
           k == CHOOSE g : Made(g)
<1>1. N \in Nat
  BY LenProperties DEF FitIn
<1>2. ASSUME NEW j \in 1..N, NEW a \in Seq(Nat) PROVE Turned(j, a) \in Seq(Nat)
  <2>1. N - j + 1 \in 1..N
    BY <1>1
  <2>2. h[N - j + 1] \in Nat
    BY <2>1 DEF FitIn
  <2>3. PICK c \in Nat : c = h[N - j + 1]
    BY <2>2
  <2>4. c + n <= Len(a) => Spliced(a, c, n, rep) \in Seq(Nat)
    BY SplicedIs
  <2> QED BY <2>3, <2>4
<1>3. turn \in [1..N -> [Seq(Nat) -> Seq(Nat)]]
  <2> HIDE DEF Turned, N
  <2> QED BY <1>2
<1>5. PICK g : Runs(N, Seq(Nat), w, turn, g)
  <2> HIDE DEF turn, N
  <2> QED BY <1>1, <1>3, LoopRuns
<1>6. \A j \in 1..N : g[j] = Turned(j, g[j - 1])
  <2> HIDE DEF Turned, N
  <2> SUFFICES ASSUME NEW j \in 1..N PROVE g[j] = Turned(j, g[j - 1])
    OBVIOUS
  <2>1. j - 1 \in 0..N
    BY <1>1
  <2>2. g[j] = turn[j][g[j - 1]] /\ g[j - 1] \in Seq(Nat)
    <3> HIDE DEF turn
    <3> QED BY <2>1, <1>5 DEF Runs
  <2> QED BY <2>2
<1>7. ASSUME NEW f, f[0] = w, NEW m \in 0..N,
             \A j \in 1..m : RoomFor(h, n, j - 1, f[j - 1]) => f[j] = Spliced(f[j - 1], h[N - j + 1], n, rep)
      PROVE  \A j \in 0..m : RoomFor(h, n, j, f[j])
  <2> DEFINE T == {j \in 0..m : RoomFor(h, n, j, f[j])}
  <2>0. m \in Nat /\ m <= N
    BY <1>1
  <2>1. 0 \in T
    <3>1. ASSUME 0 < N PROVE h[N - 0] + n <= Len(w)
      <4>1. N \in 1..N /\ N - 0 = N
        BY <1>1, <3>1
      <4> QED BY <4>1 DEF FitIn
    <3> QED BY <1>7, <2>0, <3>1 DEF RoomFor
  <2>2. ASSUME NEW j \in 0..(m - 1), j \in T PROVE j + 1 \in T
    <3>1. j + 1 \in 1..m /\ (j + 1) - 1 = j /\ N - (j + 1) + 1 = N - j /\ j \in 0..(N - 1) /\ j + 1 \in 0..m
      BY <1>1, <2>0
    <3>2. RoomFor(h, n, j, f[j])
      BY <2>2
    <3>3. RoomFor(h, n, (j + 1) - 1, f[(j + 1) - 1])
      BY <3>1, <3>2
    <3>4. f[j + 1] = Spliced(f[(j + 1) - 1], h[N - (j + 1) + 1], n, rep)
      <4> HIDE DEF N, T
      <4> QED BY <1>7, <3>1, <3>3
    <3>5. RoomFor(h, n, j + 1, Spliced(f[j], h[N - j], n, rep))
      BY <3>1, <3>2, RoomStays
    <3> QED BY <3>1, <3>4, <3>5
  <2>3. \A j \in 0..m : j \in T
    <3> HIDE DEF T
    <3> QED BY <2>0, <2>1, <2>2, UpTo
  <2> QED BY <2>3
<1>8. \A j \in 0..N : RoomFor(h, n, j, g[j])
  <2>1. g[0] = w /\ N \in 0..N
    BY <1>1, <1>5 DEF Runs
  <2>2. ASSUME NEW j \in 1..N, RoomFor(h, n, j - 1, g[j - 1])
        PROVE  g[j] = Spliced(g[j - 1], h[N - j + 1], n, rep)
    <3>1. j - 1 < N /\ N - (j - 1) = N - j + 1
      BY <1>1
    <3>2. h[N - j + 1] + n <= Len(g[j - 1])
      BY <2>2, <3>1 DEF RoomFor
    <3>3. g[j] = Turned(j, g[j - 1])
      BY <1>6
    <3> QED BY <3>2, <3>3
  <2> HIDE DEF N
  <2> QED BY <1>7, <2>1, <2>2
<1>9. Made(g)
  <2>1. ASSUME NEW j \in 0..N PROVE g[j] = SoFar(g, j)
    <3>1. CASE j = 0
      BY <3>1, <1>5 DEF Runs
    <3>2. CASE j # 0
      <4>1. j \in 1..N /\ j - 1 \in 0..N /\ j - 1 < N /\ N - (j - 1) = N - j + 1
        BY <3>2, <1>1
      <4>2. RoomFor(h, n, j - 1, g[j - 1])
        <5> HIDE DEF N
        <5> QED BY <1>8, <4>1
      <4>3. h[N - j + 1] + n <= Len(g[j - 1])
        BY <4>1, <4>2 DEF RoomFor
      <4>4. g[j] = Turned(j, g[j - 1])
        BY <1>6, <4>1
      <4>5. g[j] = Spliced(g[j - 1], h[N - j + 1], n, rep)
        BY <4>3, <4>4
      <4> QED BY <3>2, <4>5
    <3> QED BY <3>1, <3>2
  <2>2. g = [j \in 0..N |-> g[j]]
    BY <1>5 DEF Runs
  <2> HIDE DEF turn, SoFar
  <2> QED BY <2>1, <2>2
<1>10. Made(k)
  <2> HIDE DEF Made
  <2> QED BY <1>9
<1>11. SplicedAt(w, h, n, rep) = k[N]
  BY DEF SplicedAt
<1> HIDE DEF k
<1>12. k[0] = w /\ \A j \in 1..N : k[j] = Spliced(k[j - 1], h[N - j + 1], n, rep)
  <2>1. ASSUME NEW j \in 0..N PROVE k[j] = SoFar(k, j)
    <3> HIDE DEF SoFar
    <3> QED BY <1>10
  <2> HIDE DEF Made, N
  <2>2. k[0] = w
    BY <2>1, <1>1
  <2>3. ASSUME NEW j \in 1..N PROVE k[j] = Spliced(k[j - 1], h[N - j + 1], n, rep)
    <3>1. j \in 0..N /\ j # 0
      BY <1>1
    <3>2. k[j] = SoFar(k, j)
      BY <2>1, <3>1
    <3> QED BY <3>1, <3>2
  <2> QED BY <2>2, <2>3
<1>13. \A j \in 0..N : k[j] \in Seq(Nat)
  <2>1. \A j \in 0..N : RoomFor(h, n, j, k[j])
    <3>1. N \in 0..N
      BY <1>1
    <3> HIDE DEF N
    <3> QED BY <1>7, <1>12, <3>1
  <2> QED BY <2>1 DEF RoomFor
<1>14. k = [j \in 0..N |-> k[j]]
  BY <1>10
<1> HIDE DEF Made
<1> QED BY <1>11, <1>12, <1>13, <1>14 DEF SpliceRun

LEMMA SplicedAtIs ==
    ASSUME NEW w \in Seq(Nat), NEW n \in Nat \ {0}, NEW rep \in Seq(Nat), NEW h, FitIn(w, h, n)
    PROVE  SplicedAt(w, h, n, rep) \in Seq(Nat)
<1>1. PICK k : SpliceRun(k, w, h, n, rep)
  BY SpliceRuns
<1>2. Len(h) \in Nat
  BY LenProperties DEF FitIn
<1>3. Len(h) \in 0..Len(h)
  BY <1>2
<1> QED BY <1>1, <1>3 DEF SpliceRun

(***************************************************************************)
(* A text put together from what each of its runes becomes.                *)
(***************************************************************************)
\* The text after each piece.
FlatRun(k, p) ==
    /\ k \in [0..Len(p) -> Seq(Nat)] /\ k[0] = <<>>
    /\ \A i \in 1..Len(p) : k[i] = k[i - 1] \o p[i]
    /\ FlattenSeq(p) = k[Len(p)]

LEMMA FlatRuns ==
    ASSUME NEW p \in Seq(Seq(Nat))
    PROVE  \E k : FlatRun(k, p)
<1> DEFINE N == Len(p)
           turn == [i \in 1..N |-> [a \in Seq(Nat) |-> a \o p[i]]]
           SoFar(g, i) == IF i = 1 THEN p[i] ELSE g[i - 1] \o p[i]
           Made(g) == g = [i \in 1..N |-> SoFar(g, i)]
           f == CHOOSE g : Made(g)
<1>1. N \in Nat
  BY LenProperties
<1>2. <<>> \in Seq(Nat) /\ \A i \in 1..N : p[i] \in Seq(Nat)
  BY EmptySeq, ElementOfSeq
<1>3. turn \in [1..N -> [Seq(Nat) -> Seq(Nat)]]
  <2>1. \A i \in 1..N : \A a \in Seq(Nat) : a \o p[i] \in Seq(Nat)
    BY <1>2, ConcatProperties
  <2> HIDE DEF N
  <2> QED BY <2>1
<1>4. PICK k : Runs(N, Seq(Nat), <<>>, turn, k)
  <2> HIDE DEF turn, N
  <2> QED BY <1>1, <1>2, <1>3, LoopRuns
<1>5. k[0] = <<>> /\ k \in [0..N -> Seq(Nat)] /\ \A i \in 1..N : k[i] = k[i - 1] \o p[i]
  <2> HIDE DEF N
  <2>1. ASSUME NEW i \in 1..N PROVE k[i] = k[i - 1] \o p[i]
    <3>1. i - 1 \in 0..N
      BY <1>1
    <3>2. k[i] = turn[i][k[i - 1]] /\ k[i - 1] \in Seq(Nat)
      <4> HIDE DEF turn
      <4> QED BY <3>1, <1>4 DEF Runs
    <3> QED BY <3>2
  <2> QED BY <2>1, <1>4 DEF Runs
<1>6. CASE N = 0
  <2>1. p = <<>>
    BY <1>6, EmptySeq
  <2>2. FlattenSeq(p) = p
    BY <1>6 DEF FlattenSeq
  <2> QED BY <1>5, <1>6, <2>1, <2>2 DEF FlatRun
<1>7. CASE N # 0
  <2> DEFINE g == [i \in 1..N |-> k[i]]
  <2>1. Made(g)
    <3>1. ASSUME NEW i \in 1..N PROVE k[i] = SoFar(g, i)
      <4>1. CASE i = 1
        <5>1. 1 \in 1..N /\ 1 - 1 = 0
          BY <4>1
        <5>2. k[1] = <<>> \o p[1]
          <6>1. k[1] = k[1 - 1] \o p[1]
            BY <1>5, <5>1
          <6> QED BY <1>5, <5>1, <6>1
        <5>3. p[1] \in Seq(Nat)
          BY <1>2, <5>1
        <5>4. k[1] = p[1]
          BY <5>2, <5>3, ConcatEmptySeq
        <5> QED BY <4>1, <5>4
      <4>2. CASE i # 1
        <5>1. i - 1 \in 1..N
          BY <1>1, <4>2
        <5>2. g[i - 1] = k[i - 1]
          BY <5>1
        <5>3. k[i] = k[i - 1] \o p[i]
          BY <1>5
        <5> HIDE DEF g
        <5> QED BY <4>2, <5>2, <5>3
      <4> QED BY <4>1, <4>2
    <3> HIDE DEF SoFar
    <3> QED BY <3>1
  <2>2. Made(f)
    <3> HIDE DEF Made, g
    <3> QED BY <2>1
  <2>3. FlattenSeq(p) = f[N]
    BY <1>7 DEF FlattenSeq
  <2> HIDE DEF f, g
  <2>4. \A i \in 1..N : f[i] = SoFar(f, i)
    <3> HIDE DEF SoFar
    <3> QED BY <2>2
  <2> HIDE DEF Made, N
  <2> DEFINE T == {i \in 0..N : i = 0 \/ f[i] = k[i]}
  <2>5. 0 \in T
    BY <1>1
  <2>6. ASSUME NEW i \in 0..(N - 1), i \in T PROVE i + 1 \in T
    <3>1. i + 1 \in 1..N /\ (i + 1) - 1 = i
      BY <1>1
    <3>2. k[i + 1] = k[(i + 1) - 1] \o p[i + 1]
      BY <1>5, <3>1
    <3>3. CASE i = 0
      <4>1. k[1] = p[1]
        <5>1. 1 \in 1..N /\ (0 + 1) - 1 = 0 /\ 0 + 1 = 1
          BY <3>1, <3>3
        <5>2. k[1] = <<>> \o p[1]
          BY <1>5, <3>2, <3>3, <5>1
        <5>3. p[1] \in Seq(Nat)
          BY <1>2, <5>1
        <5> QED BY <5>2, <5>3, ConcatEmptySeq
      <4>2. f[1] = p[1]
        BY <2>4, <3>1, <3>3
      <4> QED BY <3>1, <3>3, <4>1, <4>2
    <3>4. CASE i # 0
      <4>1. i + 1 # 1 /\ f[i] = k[i]
        BY <2>6, <3>4
      <4>2. f[i + 1] = f[(i + 1) - 1] \o p[i + 1]
        BY <2>4, <3>1, <4>1
      <4>3. f[i + 1] = k[i + 1]
        BY <3>1, <3>2, <4>1, <4>2
      <4> QED BY <3>1, <4>3
    <3> QED BY <3>3, <3>4
  <2>7. \A i \in 0..N : i \in T
    <3> HIDE DEF T
    <3> QED BY <1>1, <2>5, <2>6, UpTo
  <2>8. N \in 0..N
    BY <1>1
  <2>9. f[N] = k[N]
    BY <1>7, <2>7, <2>8
  <2>10. FlattenSeq(p) = k[N]
    BY <2>3, <2>9
  <2> QED BY <1>5, <2>10 DEF FlatRun, N
<1> QED BY <1>6, <1>7

FlatPieces(k, p, N) == k \in [0..N -> Seq(Nat)] /\ \A i \in 1..N : k[i] = k[i - 1] \o p[i]

LEMMA RunesJoin ==
    ASSUME NEW x \in Seq(Nat), NEW y \in Seq(Nat), NEW z \in Seq(Nat)
    PROVE  (x \o y) \o z = x \o (y \o z)
<1>1. PICK a : a = x \o y
  OBVIOUS
<1>2. PICK c : c = y \o z
  OBVIOUS
<1>3. PICK b : b = a \o z
  OBVIOUS
<1>4. PICK d : d = x \o c
  OBVIOUS
<1>5. PICK l \in Nat, m \in Nat, n \in Nat : l = Len(x) /\ m = Len(y) /\ n = Len(z)
  BY LenProperties
<1>6. /\ a \in Seq(Nat) /\ Len(a) = l + m
      /\ \A i \in 1..(l + m) : a[i] = IF i <= l THEN x[i] ELSE y[i - l]
  BY <1>1, <1>5, ConcatProperties
<1>7. /\ c \in Seq(Nat) /\ Len(c) = m + n
      /\ \A i \in 1..(m + n) : c[i] = IF i <= m THEN y[i] ELSE z[i - m]
  BY <1>2, <1>5, ConcatProperties
<1>8. /\ b \in Seq(Nat) /\ Len(b) = l + m + n
      /\ \A i \in 1..(l + m + n) : b[i] = IF i <= l + m THEN a[i] ELSE z[i - (l + m)]
  <2>1. /\ b \in Seq(Nat) /\ Len(b) = Len(a) + Len(z)
        /\ \A i \in 1..(Len(a) + Len(z)) : b[i] = IF i <= Len(a) THEN a[i] ELSE z[i - Len(a)]
    BY <1>3, <1>6, ConcatProperties
  <2>2. Len(a) + Len(z) = l + m + n
    BY <1>5, <1>6
  <2> QED BY <1>5, <1>6, <2>1, <2>2
<1>9. /\ d \in Seq(Nat) /\ Len(d) = l + m + n
      /\ \A i \in 1..(l + m + n) : d[i] = IF i <= l THEN x[i] ELSE c[i - l]
  <2>1. /\ d \in Seq(Nat) /\ Len(d) = Len(x) + Len(c)
        /\ \A i \in 1..(Len(x) + Len(c)) : d[i] = IF i <= Len(x) THEN x[i] ELSE c[i - Len(x)]
    BY <1>4, <1>7, ConcatProperties
  <2>2. Len(x) + Len(c) = l + m + n
    BY <1>5, <1>7
  <2> QED BY <1>5, <2>1, <2>2
<1>10. ASSUME NEW i \in 1..(l + m + n) PROVE b[i] = d[i]
  <2>1. CASE i <= l
    <3>1. i \in 1..(l + m) /\ i <= l + m
      BY <2>1
    <3>2. a[i] = x[i]
      BY <1>6, <2>1, <3>1
    <3>3. b[i] = a[i]
      BY <1>8, <3>1
    <3>4. d[i] = x[i]
      BY <1>9, <2>1
    <3> QED BY <3>2, <3>3, <3>4
  <2>2. CASE ~(i <= l) /\ i <= l + m
    <3>1. i \in 1..(l + m) /\ i - l \in 1..(m + n) /\ i - l <= m
      BY <2>2
    <3> QED BY <1>6, <1>7, <1>8, <1>9, <2>2, <3>1
  <2>3. CASE ~(i <= l) /\ ~(i <= l + m)
    <3>1. i - l \in 1..(m + n) /\ ~(i - l <= m) /\ (i - l) - m = i - (l + m)
      BY <2>3
    <3> QED BY <1>7, <1>8, <1>9, <2>3, <3>1
  <2> QED BY <2>1, <2>2, <2>3
<1>11. b = d
  <2>1. \A i \in 1..Len(b) : b[i] = d[i]
    BY <1>8, <1>10
  <2> QED BY ONLY <1>8, <1>9, <2>1, SeqEqual
<1> QED BY <1>1, <1>2, <1>3, <1>4, <1>11

\* Runes that stay as they are, and runes that are left out.
Stay(p, N, w, s, a, b) ==
    a <= b /\ b <= Len(w) /\ s + Len(w) <= N /\ \A i \in (a + 1)..b : p[s + i] = <<w[i]>>
Stayed(k, w, s, a, b) == k[s + b] = k[s + a] \o SubSeq(w, a + 1, b)
Go(p, N, a, b) == a <= b /\ b <= N /\ \A i \in (a + 1)..b : p[i] = <<>>

LEMMA RunesStay ==
    ASSUME NEW p, NEW N \in Nat, NEW k, FlatPieces(k, p, N), NEW w \in Seq(Nat), NEW s \in Nat,
           NEW a \in Nat, NEW b \in Nat, Stay(p, N, w, s, a, b)
    PROVE  Stayed(k, w, s, a, b)
<1>1. PICK W \in Nat : W = Len(w) /\ s + W <= N /\ b <= W
  BY LenProperties DEF Stay
<1>7. a <= b /\ \A i \in (a + 1)..b : p[s + i] = <<w[i]>>
  BY DEF Stay
<1>8. k \in [0..N -> Seq(Nat)] /\ \A i \in 1..N : k[i] = k[i - 1] \o p[i]
  BY DEF FlatPieces
<1> DEFINE T == {m \in 0..(b - a) : k[s + (a + m)] = k[s + a] \o SubSeq(w, a + 1, a + m)}
<1>2. k[s + a] \in Seq(Nat)
  <2>1. s + a \in 0..N
    BY <1>1, <1>7
  <2> QED BY <1>8, <2>1
<1>3. 0 \in T
  <2>1. SubSeq(w, a + 1, a + 0) = <<>>
    <3>1. a + 1 \in Int /\ a + 0 \in Int /\ a + 0 < a + 1
      OBVIOUS
    <3> QED BY ONLY <3>1, SubSeqEmpty
  <2>2. k[s + a] \o <<>> = k[s + a]
    BY <1>2, ConcatEmptySeq
  <2>3. 0 \in 0..(b - a) /\ a + 0 = a
    BY <1>7
  <2> QED BY <2>1, <2>2, <2>3
<1>4. ASSUME NEW m \in 0..((b - a) - 1), m \in T PROVE m + 1 \in T
  <2>1. PICK i \in Nat : i = a + m + 1
    OBVIOUS
  <2>2. i \in (a + 1)..b /\ i \in 1..W /\ s + i \in 1..N /\ (s + i) - 1 = s + (a + m) /\ i - 1 = a + m
        /\ a + 1 \in 1..W /\ i \in (a + 1)..W
    BY <1>1, <1>7, <2>1
  <2>3. k[s + i] = k[(s + i) - 1] \o p[s + i] /\ p[s + i] = <<w[i]>>
    BY <1>7, <1>8, <2>2
  <2>4. PICK x : x = SubSeq(w, a + 1, a + m)
    OBVIOUS
  <2>5. SubSeq(w, a + 1, i) = x \o <<w[i]>>
    <3>1. SubSeq(w, a + 1, i) = SubSeq(w, a + 1, i - 1) \o <<w[i]>>
      BY <1>1, <2>2, SubSeqRecursiveSecond
    <3> QED BY <2>2, <2>4, <3>1
  <2>6. x \in Seq(Nat)
    <3>1. a + 1 \in Nat \ {0} /\ a + m \in Nat /\ a + m <= Len(w)
      BY <1>1, <1>7
    <3> QED BY <2>4, <3>1, PartOfLine
  <2>7. <<w[i]>> \in Seq(Nat)
    <3>1. w[i] \in Nat
      BY <1>1, <2>2, ElementOfSeq
    <3> QED BY <3>1
  <2>8. PICK y : y = <<w[i]>>
    OBVIOUS
  <2>9. k[s + i] = (k[s + a] \o x) \o y
    BY <1>4, <2>2, <2>3, <2>4, <2>8
  <2>10. (k[s + a] \o x) \o y = k[s + a] \o (x \o y)
    <3>1. y \in Seq(Nat)
      BY <2>7, <2>8
    <3>2. PICK z : z = k[s + a]
      OBVIOUS
    <3>3. z \in Seq(Nat)
      BY <1>2, <3>2
    <3>4. (z \o x) \o y = z \o (x \o y)
      BY <2>6, <3>1, <3>3, RunesJoin
    <3> QED BY <3>2, <3>4
  <2>11. k[s + i] = k[s + a] \o SubSeq(w, a + 1, i)
    BY <2>5, <2>8, <2>9, <2>10
  <2>12. i = a + (m + 1) /\ m + 1 \in 0..(b - a)
    BY <2>1
  <2> QED BY <2>11, <2>12
<1>5. \A m \in 0..(b - a) : m \in T
  <2>1. b - a \in Nat
    BY <1>7
  <2> HIDE DEF T
  <2> QED BY <1>3, <1>4, <2>1, UpTo
<1>6. b - a \in 0..(b - a) /\ a + (b - a) = b
  BY <1>7
<1> QED BY <1>5, <1>6 DEF Stayed

LEMMA RunesGo ==
    ASSUME NEW p, NEW N \in Nat, NEW k, FlatPieces(k, p, N), NEW a \in Nat, NEW b \in Nat, Go(p, N, a, b)
    PROVE  k[b] = k[a]
<1>6. a <= b /\ b <= N /\ \A i \in (a + 1)..b : p[i] = <<>>
  BY DEF Go
<1>7. k \in [0..N -> Seq(Nat)] /\ \A i \in 1..N : k[i] = k[i - 1] \o p[i]
  BY DEF FlatPieces
<1> DEFINE T == {m \in 0..(b - a) : k[a + m] = k[a]}
<1>1. 0 \in T
  BY <1>6
<1>2. ASSUME NEW m \in 0..((b - a) - 1), m \in T PROVE m + 1 \in T
  <2>1. PICK i \in Nat : i = a + m + 1
    OBVIOUS
  <2>2. i \in (a + 1)..b /\ i \in 1..N /\ i - 1 = a + m /\ a + m \in 0..N
    BY <1>6, <2>1
  <2>3. k[i] = k[i - 1] \o <<>> /\ k[i - 1] \in Seq(Nat)
    BY <1>6, <1>7, <2>2
  <2>4. k[i] = k[i - 1]
    BY <2>3, ConcatEmptySeq
  <2>5. i = a + (m + 1) /\ m + 1 \in 0..(b - a)
    BY <2>1
  <2> QED BY <1>2, <2>2, <2>4, <2>5
<1>3. \A m \in 0..(b - a) : m \in T
  <2>1. b - a \in Nat
    BY <1>6
  <2> HIDE DEF T
  <2> QED BY <1>1, <1>2, <2>1, UpTo
<1>4. PICK m \in 0..(b - a) : a + m = b
  <2>1. b - a \in 0..(b - a) /\ a + (b - a) = b
    BY <1>6
  <2> QED BY <2>1
<1>5. k[a + m] = k[a]
  BY <1>3
<1> QED BY <1>4, <1>5

(***************************************************************************)
(* A line spliced at its matches is the text of its pieces.                *)
(***************************************************************************)
IsPart(x, w, c, e) == c <= e /\ e <= Len(w) /\ x = SubSeq(w, c + 1, e)

\* What the runes of a part are, and those of a part from the start.
Reads(x, w, c, e) == x \in Seq(Nat) /\ Len(x) = e - c /\ \A i \in 1..(e - c) : x[i] = w[c + i]
Begins(x, w, e)   == x \in Seq(Nat) /\ Len(x) = e /\ \A i \in 1..e : x[i] = w[i]

LEMMA PartFrom ==
    ASSUME NEW w \in Seq(Nat), NEW c \in Nat, NEW e \in Nat, NEW x, IsPart(x, w, c, e)
    PROVE  x \in Seq(Nat) /\ Len(x) = e - c /\ \A i \in 1..(e - c) : x[i] = w[c + i]
<1>1. PICK m \in Nat \ {0} : m = c + 1
  OBVIOUS
<1>5. c <= e /\ e <= Len(w) /\ x = SubSeq(w, m, e)
  BY <1>1 DEF IsPart
<1>2. /\ x \in Seq(Nat) /\ Len(x) = IF m <= e THEN e - m + 1 ELSE 0
      /\ \A i \in 1..(e - m + 1) : x[i] = w[m + i - 1]
  BY <1>5, PartOfLine
<1>3. (IF m <= e THEN e - m + 1 ELSE 0) = e - c
  BY <1>1, <1>5
<1>4. \A i \in 1..(e - c) : i \in 1..(e - m + 1) /\ m + i - 1 = c + i
  BY <1>1
<1> QED BY <1>2, <1>3, <1>4

Joins(x, a, m, b, n) == Len(a) = m /\ Len(b) = n /\ x = a \o b

LEMMA JoinedIs ==
    ASSUME NEW a \in Seq(Nat), NEW b \in Seq(Nat), NEW m \in Nat, NEW n \in Nat, NEW x, Joins(x, a, m, b, n)
    PROVE  /\ x \in Seq(Nat) /\ Len(x) = m + n
           /\ (\A i \in 1..m : x[i] = a[i]) /\ \A i \in (m + 1)..(m + n) : x[i] = b[i - m]
<1>1. m \in Nat /\ n \in Nat
  BY LenProperties DEF Joins
<1>2. /\ x \in Seq(Nat) /\ Len(x) = Len(a) + Len(b)
      /\ \A i \in 1..(Len(a) + Len(b)) : x[i] = IF i <= Len(a) THEN a[i] ELSE b[i - Len(a)]
  BY ConcatProperties DEF Joins
<1>3. /\ x \in Seq(Nat) /\ Len(x) = m + n
      /\ \A i \in 1..(m + n) : x[i] = IF i <= m THEN a[i] ELSE b[i - m]
  BY <1>2 DEF Joins
<1>4. \A i \in 1..m : i \in 1..(m + n) /\ i <= m
  BY <1>1
<1>5. \A i \in (m + 1)..(m + n) : i \in 1..(m + n) /\ ~(i <= m)
  BY <1>1
<1> QED BY <1>1, <1>3, <1>4, <1>5

LEMMA PartReads ==
    ASSUME NEW w \in Seq(Nat), NEW c \in Nat, NEW e \in Nat, NEW x, IsPart(x, w, c, e)
    PROVE  Reads(x, w, c, e)
BY PartFrom DEF Reads

LEMMA HeadReads ==
    ASSUME NEW w \in Seq(Nat), NEW e \in Nat, NEW x, IsPart(x, w, 0, e)
    PROVE  Begins(x, w, e)
<1>1. Reads(x, w, 0, e)
  BY PartReads
<1>2. e - 0 = e /\ \A i \in 1..e : 0 + i = i
  OBVIOUS
<1> QED BY <1>1, <1>2 DEF Reads, Begins

ReadsOn(x, a, m, b, n) ==
    x \in Seq(Nat) /\ Len(x) = m + n /\ (\A i \in 1..m : x[i] = a[i]) /\ \A i \in (m + 1)..(m + n) : x[i] = b[i - m]

LEMMA JoinReads ==
    ASSUME NEW a \in Seq(Nat), NEW b \in Seq(Nat), NEW m \in Nat, NEW n \in Nat, NEW x, Joins(x, a, m, b, n)
    PROVE  ReadsOn(x, a, m, b, n)
BY JoinedIs DEF ReadsOn

\* What a line is that was as w up to e.
StaysTo(x, w, c, e, R, r) == c <= e /\ e <= Len(w) /\ x = SubSeq(w, 1, e) \o R /\ r = Len(R)

LEMMA HeadJoined ==
    ASSUME NEW w \in Seq(Nat), NEW R \in Seq(Nat), NEW c \in Nat, NEW e \in Nat, NEW x, NEW r \in Nat, StaysTo(x, w, c, e, R, r)
    PROVE  ReadsOn(x, w, e, R, r)
<1>0. e \in Nat /\ e <= Len(w)
  BY DEF StaysTo
<1>1. PICK a : a = SubSeq(w, 1, e)
  OBVIOUS
<1>2. a \in Seq(Nat) /\ Len(a) = e /\ \A i \in 1..e : a[i] = w[i]
  <2>1. 0 <= e /\ 0 + 1 = 1
    OBVIOUS
  <2>2. IsPart(a, w, 0, e)
    BY <1>0, <1>1, <2>1 DEF IsPart
  <2>3. Begins(a, w, e)
    BY <2>2, HeadReads
  <2> QED BY <2>3 DEF Begins
<1>3. /\ x \in Seq(Nat) /\ Len(x) = e + r
      /\ (\A i \in 1..e : x[i] = a[i]) /\ \A i \in (e + 1)..(e + r) : x[i] = R[i - e]
  <2>1. Joins(x, a, e, R, r)
    BY <1>1, <1>2 DEF Joins, StaysTo
  <2>2. ReadsOn(x, a, e, R, r)
    BY <1>2, <2>1, JoinReads
  <2> QED BY <2>2 DEF ReadsOn
<1> QED BY <1>2, <1>3 DEF ReadsOn

LEMMA HeadOfJoined ==
    ASSUME NEW w \in Seq(Nat), NEW R \in Seq(Nat), NEW c \in Nat, NEW e \in Nat, NEW x, NEW r \in Nat, StaysTo(x, w, c, e, R, r)
    PROVE  SubSeq(x, 1, c) = SubSeq(w, 1, c)
<1>1. r \in Nat /\ r = Len(R) /\ e <= Len(w) /\ c <= e
  BY LenProperties DEF StaysTo
<1>2. x \in Seq(Nat) /\ Len(x) = e + r /\ \A i \in 1..e : x[i] = w[i]
  <2>1. ReadsOn(x, w, e, R, r)
    BY HeadJoined
  <2> QED BY <2>1 DEF ReadsOn
<1>3. PICK y : y = SubSeq(x, 0 + 1, c)
  OBVIOUS
<1>4. PICK z : z = SubSeq(w, 0 + 1, c)
  OBVIOUS
<1>5. y \in Seq(Nat) /\ Len(y) = c /\ \A i \in 1..c : y[i] = x[i]
  <2>1. IsPart(y, x, 0, c)
    BY <1>1, <1>2, <1>3 DEF IsPart
  <2>2. Begins(y, x, c)
    BY <1>2, <2>1, HeadReads
  <2> QED BY <2>2 DEF Begins
<1>6. z \in Seq(Nat) /\ Len(z) = c /\ \A i \in 1..c : z[i] = w[i]
  <2>1. PICK W \in Nat : W = Len(w)
    BY LenProperties
  <2>2. IsPart(z, w, 0, c)
    BY <1>1, <1>4, <2>1 DEF IsPart
  <2>3. Begins(z, w, c)
    BY <2>2, HeadReads
  <2> QED BY <2>3 DEF Begins
<1>7. Len(y) = Len(z) /\ \A i \in 1..Len(y) : y[i] = z[i]
  <2>1. \A i \in 1..c : i \in 1..e
    BY <1>1
  <2>2. ASSUME NEW i \in 1..c PROVE y[i] = z[i]
    BY <1>2, <1>5, <1>6, <2>1
  <2> QED BY <1>5, <1>6, <2>2
<1>8. y = z
  BY ONLY <1>5, <1>6, <1>7, SeqEqual
<1> QED BY <1>3, <1>4, <1>8

TailIs(x, w, c, e, R) == SubSeq(x, c + 1, Len(x)) = SubSeq(w, c + 1, e) \o R

LEMMA TailOfJoined ==
    ASSUME NEW w \in Seq(Nat), NEW R \in Seq(Nat), NEW c \in Nat, NEW e \in Nat, NEW x, NEW r \in Nat, StaysTo(x, w, c, e, R, r)
    PROVE  TailIs(x, w, c, e, R)
<1>1. r \in Nat /\ r = Len(R) /\ e <= Len(w) /\ c <= e
  BY LenProperties DEF StaysTo
<1>2. /\ x \in Seq(Nat) /\ Len(x) = e + r
      /\ (\A i \in 1..e : x[i] = w[i]) /\ \A i \in (e + 1)..(e + r) : x[i] = R[i - e]
  <2>1. ReadsOn(x, w, e, R, r)
    BY HeadJoined
  <2> QED BY <2>1 DEF ReadsOn
<1>3. PICK f \in Nat : f = e + r /\ c <= f
  BY <1>1
<1>4. PICK y : y = SubSeq(x, c + 1, f)
  OBVIOUS
<1>5. y \in Seq(Nat) /\ Len(y) = f - c /\ \A i \in 1..(f - c) : y[i] = x[c + i]
  <2>1. IsPart(y, x, c, f)
    BY <1>2, <1>3, <1>4 DEF IsPart
  <2>2. Reads(y, x, c, f)
    BY <1>2, <2>1, PartReads
  <2> QED BY <2>2 DEF Reads
<1>6. PICK b : b = SubSeq(w, c + 1, e)
  OBVIOUS
<1>7. b \in Seq(Nat) /\ Len(b) = e - c /\ \A i \in 1..(e - c) : b[i] = w[c + i]
  <2>1. IsPart(b, w, c, e)
    BY <1>1, <1>6 DEF IsPart
  <2>2. Reads(b, w, c, e)
    BY <2>1, PartReads
  <2> QED BY <2>2 DEF Reads
<1>8. PICK z : z = b \o R
  OBVIOUS
<1>9. PICK m \in Nat : m = e - c
  BY <1>1
<1>10. /\ z \in Seq(Nat) /\ Len(z) = m + r
       /\ (\A i \in 1..m : z[i] = b[i]) /\ \A i \in (m + 1)..(m + r) : z[i] = R[i - m]
  <2>1. Joins(z, b, m, R, r)
    BY <1>1, <1>7, <1>8, <1>9 DEF Joins
  <2>2. b \in Seq(Nat) /\ R \in Seq(Nat) /\ m \in Nat /\ r \in Nat
    BY <1>1, <1>7, <1>9
  <2>3. ReadsOn(z, b, m, R, r)
    BY <2>1, <2>2, JoinReads
  <2> QED BY <2>3 DEF ReadsOn
<1>11. f - c = m + r
  BY <1>1, <1>3, <1>9
<1>12. ASSUME NEW i \in 1..(m + r) PROVE y[i] = z[i]
  <2>1. i \in 1..(f - c) /\ (c + i) - e = i - m
    BY <1>1, <1>3, <1>9
  <2>2. y[i] = x[c + i]
    BY <1>5, <2>1
  <2>3. CASE i <= m
    <3>1. i \in 1..m /\ i \in 1..(e - c) /\ c + i \in 1..e
      BY <1>9, <2>3
    <3> QED BY <1>2, <1>7, <1>10, <2>2, <3>1
  <2>4. CASE ~(i <= m)
    <3>1. i \in (m + 1)..(m + r) /\ c + i \in (e + 1)..(e + r)
      BY <1>1, <1>9, <2>4
    <3>2. x[c + i] = R[(c + i) - e] /\ z[i] = R[i - m]
      BY <1>2, <1>10, <3>1
    <3> QED BY <2>1, <2>2, <3>2
  <2> QED BY <2>3, <2>4
<1>13. y = z
  <2>1. Len(y) = Len(z) /\ \A i \in 1..Len(y) : y[i] = z[i]
    BY <1>5, <1>10, <1>11, <1>12
  <2> QED BY ONLY <1>5, <1>10, <2>1, SeqEqual
<1> QED BY <1>2, <1>3, <1>4, <1>6, <1>8, <1>13 DEF TailIs

\* What a splice makes of a line that is as it was up to e.
SplicedTo(w, R, rep, e, c, n) ==
    /\ Spliced(SubSeq(w, 1, e) \o R, c, n, rep) = SubSeq(w, 1, c) \o (rep \o (SubSeq(w, c + n + 1, e) \o R))
    /\ rep \o (SubSeq(w, c + n + 1, e) \o R) \in Seq(Nat)

LEMMA SpliceTurn ==
    ASSUME NEW w \in Seq(Nat), NEW R \in Seq(Nat), NEW rep \in Seq(Nat), NEW e \in Nat, e <= Len(w),
           NEW c \in Nat, NEW n \in Nat, c + n <= e
    PROVE  SplicedTo(w, R, rep, e, c, n)
<1>1. PICK x : x = SubSeq(w, 1, e) \o R
  OBVIOUS
<1>2. PICK a : a = SubSeq(w, 1, c)
  OBVIOUS
<1>3. PICK b : b = SubSeq(w, c + n + 1, e)
  OBVIOUS
<1>4. PICK W \in Nat : W = Len(w) /\ e <= W /\ c <= W /\ c <= e
  BY LenProperties
<1>5. a \in Seq(Nat)
  BY <1>2, <1>4, PartOfLine
<1>6. b \in Seq(Nat)
  <2>1. c + n + 1 \in Nat \ {0}
    OBVIOUS
  <2> QED BY <1>3, <2>1, PartOfLine
<1>7. PICK y : y = b \o R
  OBVIOUS
<1>8. y \in Seq(Nat)
  BY <1>6, <1>7, ConcatProperties
<1>14. PICK r \in Nat : r = Len(R)
  BY LenProperties
<1>9. SubSeq(x, 1, c) = a
  <2>1. StaysTo(x, w, c, e, R, r)
    BY <1>1, <1>4, <1>14 DEF StaysTo
  <2>2. SubSeq(x, 1, c) = SubSeq(w, 1, c)
    BY <2>1, HeadOfJoined
  <2> QED BY <1>2, <2>2
<1>10. SubSeq(x, c + n + 1, Len(x)) = y
  <2>1. PICK f \in Nat : f = c + n
    OBVIOUS
  <2>2. StaysTo(x, w, f, e, R, r)
    BY <1>1, <1>14, <2>1 DEF StaysTo
  <2>3. SubSeq(x, f + 1, Len(x)) = SubSeq(w, f + 1, e) \o R
    <3>1. TailIs(x, w, f, e, R)
      BY <2>2, TailOfJoined
    <3> QED BY <3>1 DEF TailIs
  <2> QED BY <1>3, <1>7, <2>1, <2>3
<1>11. Spliced(x, c, n, rep) = (a \o rep) \o y
  BY <1>9, <1>10 DEF Spliced
<1>12. (a \o rep) \o y = a \o (rep \o y)
  BY <1>5, <1>8, RunesJoin
<1>13. rep \o y \in Seq(Nat)
  BY <1>8, ConcatProperties
<1> QED BY <1>1, <1>2, <1>3, <1>7, <1>11, <1>12, <1>13 DEF SplicedTo

\* What a rune of a line becomes.
PieceOf(w, h, n, rep, i, x) ==
    x = IF i - 1 \in ColumnsOf(h) THEN rep
        ELSE IF \E d \in ColumnsOf(h) : d < i /\ i <= d + n THEN <<>> ELSE <<w[i]>>

\* Where the last j matches start.
Top(w, h, j) == IF j = 0 THEN Len(w) ELSE h[Len(h) - j + 1]

\* No column of a match is between c and e, and none before c reaches beyond it.
ClearFrom(h, n, c, e) == \A d \in ColumnsOf(h) : d \in Nat /\ (d = c \/ d + n <= c \/ d >= e)

LEMMA TopIs ==
    ASSUME NEW w \in Seq(Nat), NEW n \in Nat \ {0}, NEW h, FitIn(w, h, n), NEW j \in 0..Len(h)
    PROVE  Top(w, h, j) \in Nat /\ Top(w, h, j) <= Len(w)
<1>1. PICK m \in Nat : m = Len(h)
  BY LenProperties DEF FitIn
<1>2. PICK W \in Nat : W = Len(w)
  BY LenProperties
<1>3. CASE j = 0
  BY <1>2, <1>3 DEF Top
<1>4. CASE j # 0
  <2>1. m - j + 1 \in 1..m
    BY <1>1, <1>4
  <2>2. PICK c : c = h[m - j + 1]
    OBVIOUS
  <2>3. c \in Nat /\ c + n <= W
    BY <1>1, <1>2, <2>1, <2>2 DEF FitIn
  <2>4. c <= W
    BY <2>3
  <2> QED BY <1>1, <1>2, <1>4, <2>2, <2>3, <2>4 DEF Top
<1> QED BY <1>3, <1>4

LEMMA TopStep ==
    ASSUME NEW w \in Seq(Nat), NEW n \in Nat \ {0}, NEW h, FitIn(w, h, n), NEW j \in 0..(Len(h) - 1)
    PROVE  /\ Top(w, h, j + 1) = h[Len(h) - j] /\ Top(w, h, j + 1) + n <= Top(w, h, j)
           /\ Top(w, h, j + 1) \in ColumnsOf(h) /\ ClearFrom(h, n, Top(w, h, j + 1), Top(w, h, j))
<1>1. PICK m \in Nat : m = Len(h)
  BY LenProperties DEF FitIn
<1>2. PICK c : c = h[m - j]
  OBVIOUS
<1>3. m - j \in 1..m /\ m - (j + 1) + 1 = m - j /\ j + 1 # 0
  BY <1>1
<1>4. c \in Nat /\ Top(w, h, j + 1) = c /\ c \in ColumnsOf(h) /\ c + n <= Len(w)
  BY <1>1, <1>2, <1>3 DEF Top, FitIn, ColumnsOf
<1>5. PICK e \in Nat : e = Top(w, h, j)
  <2>1. j \in 0..Len(h)
    BY <1>1
  <2> QED BY <2>1, TopIs
<1>6. c + n <= e
  <2>1. CASE j = 0
    BY <1>4, <1>5, <2>1 DEF Top
  <2>2. CASE j # 0
    <3>1. m - j + 1 \in 1..m /\ m - j < m - j + 1
      BY <1>1, <2>2
    <3>2. e = h[m - j + 1]
      BY <1>1, <1>5, <2>2 DEF Top
    <3> QED BY <1>1, <1>2, <1>3, <3>1, <3>2 DEF FitIn, RisesBy
  <2> QED BY <2>1, <2>2
<1>7. ASSUME NEW d \in ColumnsOf(h) PROVE d \in Nat /\ (d = c \/ d + n <= c \/ d >= e)
  <2>1. PICK i \in 1..m : d = h[i]
    BY <1>1 DEF ColumnsOf
  <2>2. d \in Nat
    BY <1>1, <2>1 DEF FitIn
  <2>3. CASE i < m - j
    <3>1. d + n <= c
      BY <1>1, <1>2, <1>3, <2>1, <2>3 DEF FitIn, RisesBy
    <3> QED BY <2>2, <3>1
  <2>4. CASE i = m - j
    BY <1>2, <2>1, <2>2, <2>4
  <2>5. CASE i > m - j
    <3>1. j # 0 /\ m - j + 1 \in 1..m /\ (i = m - j + 1 \/ m - j + 1 < i)
      BY <1>1, <2>5
    <3>2. e = h[m - j + 1]
      BY <1>1, <1>5, <3>1 DEF Top
    <3>3. CASE i = m - j + 1
      BY <2>1, <2>2, <3>2, <3>3
    <3>4. CASE m - j + 1 < i
      <4>1. e + n <= d
        BY <1>1, <2>1, <3>1, <3>2, <3>4 DEF FitIn, RisesBy
      <4>2. d >= e
        BY <1>5, <2>2, <4>1
      <4> QED BY <2>2, <4>2
    <3> QED BY <3>1, <3>3, <3>4
  <2> QED BY <1>3, <2>3, <2>4, <2>5
<1> QED BY <1>1, <1>2, <1>4, <1>5, <1>6, <1>7 DEF ClearFrom

\* The pieces of a line that begin behind s.
Reaches(w, s, N) == s + Len(w) <= N
PiecesOf(p, s, w, h, n, rep) == \A i \in 1..Len(w) : PieceOf(w, h, n, rep, i, p[s + i])

AtPart(w, h, j, c, e) == c = Top(w, h, j + 1) /\ e = Top(w, h, j)
Turned(k, s, w, n, rep, c, e) ==
    k[s + c] \in Seq(Nat) /\ k[s + e] = (k[s + c] \o rep) \o SubSeq(w, c + n + 1, e)

LEMMA PieceTurn ==
    ASSUME NEW w \in Seq(Nat), NEW n \in Nat \ {0}, NEW rep \in Seq(Nat), NEW h, FitIn(w, h, n),
           NEW N \in Nat, NEW p, NEW k, FlatPieces(k, p, N), NEW s \in Nat, Reaches(w, s, N), PiecesOf(p, s, w, h, n, rep),
           NEW j \in 0..(Len(h) - 1), NEW c \in Nat, NEW e \in Nat, AtPart(w, h, j, c, e)
    PROVE  Turned(k, s, w, n, rep, c, e)
<1>15. c = Top(w, h, j + 1) /\ e = Top(w, h, j)
  BY DEF AtPart
<1>1. PICK W \in Nat : W = Len(w) /\ s + W <= N
  BY LenProperties DEF Reaches
<1>2. c + n <= e /\ c \in ColumnsOf(h) /\ ClearFrom(h, n, c, e)
  BY <1>15, TopStep
<1>3. e <= W
  <2>1. j \in 0..Len(h)
    BY LenProperties DEF FitIn
  <2> QED BY <1>1, <1>15, <2>1, TopIs
<1>13. s \in Nat /\ c \in Nat /\ e \in Nat /\ n \in Nat /\ N \in Nat /\ W \in Nat
  OBVIOUS
<1>14. n # 0 /\ c + n <= e /\ e <= W /\ s + W <= N
  BY <1>1, <1>2, <1>3
<1>4. k \in [0..N -> Seq(Nat)] /\ \A i \in 1..N : k[i] = k[i - 1] \o p[i]
  BY DEF FlatPieces
<1>5. ASSUME NEW i \in 1..W, NEW d \in ColumnsOf(h) PROVE d \in Nat /\ (d = c \/ d + n <= c \/ d >= e)
  BY <1>2 DEF ClearFrom
<1>6. k[s + c] \in Seq(Nat)
  <2>1. s + c \in 0..N
    BY ONLY <1>13, <1>14
  <2> QED BY <1>4, <2>1
<1>7. ASSUME NEW i \in 1..W, i - 1 \in ColumnsOf(h) PROVE p[s + i] = rep
  BY <1>1, <1>7 DEF PiecesOf, PieceOf
<1>8. ASSUME NEW i \in 1..W, i - 1 \notin ColumnsOf(h), \E d \in ColumnsOf(h) : d < i /\ i <= d + n
      PROVE  p[s + i] = <<>>
  BY <1>1, <1>8 DEF PiecesOf, PieceOf
<1>9. ASSUME NEW i \in 1..W, i - 1 \notin ColumnsOf(h), ~ \E d \in ColumnsOf(h) : d < i /\ i <= d + n
      PROVE  p[s + i] = <<w[i]>>
  BY <1>1, <1>9 DEF PiecesOf, PieceOf
<1>10. k[s + (c + 1)] = k[s + c] \o rep
  <2>1. c + 1 \in 1..W /\ (c + 1) - 1 = c /\ s + (c + 1) \in 1..N /\ (s + (c + 1)) - 1 = s + c
    BY ONLY <1>13, <1>14
  <2>2. p[s + (c + 1)] = rep
    BY <1>2, <1>7, <2>1
  <2>3. k[s + (c + 1)] = k[(s + (c + 1)) - 1] \o p[s + (c + 1)]
    BY <1>4, <2>1
  <2> QED BY <2>1, <2>2, <2>3
<1>11. k[s + (c + n)] = k[s + (c + 1)]
  <2>1. PICK a \in Nat, b \in Nat : a = s + (c + 1) /\ b = s + (c + n) /\ a <= b /\ b <= N
    BY ONLY <1>13, <1>14
  <2>2. ASSUME NEW i \in (a + 1)..b PROVE p[i] = <<>>
    <3>1. PICK g \in 1..W : g = i - s /\ s + g = i /\ c + 1 < g /\ g <= c + n
      BY ONLY <1>13, <1>14, <2>1, i \in (a + 1)..b, a \in Nat, b \in Nat
    <3>2. g - 1 \notin ColumnsOf(h)
      <4>1. ASSUME g - 1 \in ColumnsOf(h) PROVE FALSE
        <5>1. g - 1 = c \/ (g - 1) + n <= c \/ g - 1 >= e
          BY <1>5, <4>1
        <5> QED BY <1>2, <3>1, <5>1
      <4> QED BY <4>1
    <3>3. \E d \in ColumnsOf(h) : d < g /\ g <= d + n
      BY <1>2, <3>1
    <3> QED BY <1>8, <3>1, <3>2, <3>3
  <2>3. k[b] = k[a]
    <3>1. Go(p, N, a, b)
      BY <2>1, <2>2 DEF Go
    <3> QED BY <3>1, RunesGo
  <2> QED BY <2>1, <2>3
<1>12. k[s + e] = k[s + (c + n)] \o SubSeq(w, (c + n) + 1, e)
  <2>1. PICK a \in Nat : a = c + n /\ a <= e /\ e <= Len(w)
    BY <1>1, <1>2, <1>3
  <2>2. ASSUME NEW i \in (a + 1)..e PROVE p[s + i] = <<w[i]>>
    <3>1. i \in 1..W /\ c + n < i /\ i <= e
      BY ONLY <1>13, <1>14, <2>1, i \in (a + 1)..e, a \in Nat
    <3>2. i - 1 \notin ColumnsOf(h)
      <4>1. ASSUME i - 1 \in ColumnsOf(h) PROVE FALSE
        <5>1. i - 1 = c \/ (i - 1) + n <= c \/ i - 1 >= e
          BY <1>5, <3>1, <4>1
        <5> QED BY <1>2, <3>1, <5>1
      <4> QED BY <4>1
    <3>3. ASSUME NEW d \in ColumnsOf(h), d < i, i <= d + n PROVE FALSE
      <4>1. d \in Nat /\ (d = c \/ d + n <= c \/ d >= e)
        BY <1>5, <3>1
      <4> QED BY <3>1, <3>3, <4>1
    <3> QED BY <1>9, <3>1, <3>2, <3>3
  <2>3. k[s + e] = k[s + a] \o SubSeq(w, a + 1, e)
    <3>1. Stay(p, N, w, s, a, e)
      BY <1>1, <2>1, <2>2 DEF Stay
    <3>2. Stayed(k, w, s, a, e)
      BY <3>1, RunesStay
    <3> QED BY <3>2 DEF Stayed
  <2> QED BY <2>1, <2>3
<1> QED BY <1>6, <1>10, <1>11, <1>12 DEF Turned

\* The text after the pieces of a line.
LineGives(k, s, w, h, n, rep) == k[s + Len(w)] = k[s] \o SplicedAt(w, h, n, rep)

LEMMA LinePieces ==
    ASSUME NEW w \in Seq(Nat), NEW n \in Nat \ {0}, NEW rep \in Seq(Nat), NEW h, FitIn(w, h, n),
           NEW N \in Nat, NEW p, NEW k, FlatPieces(k, p, N), NEW s \in Nat, Reaches(w, s, N), PiecesOf(p, s, w, h, n, rep)
    PROVE  LineGives(k, s, w, h, n, rep)
<1>1. PICK W \in Nat : W = Len(w) /\ s + W <= N
  BY LenProperties DEF Reaches
<1>2. PICK m \in Nat : m = Len(h)
  BY LenProperties DEF FitIn
<1>3. PICK g : SpliceRun(g, w, h, n, rep)
  BY SpliceRuns
<1>4. /\ g[0] = w /\ SplicedAt(w, h, n, rep) = g[m]
      /\ \A j \in 1..m : g[j] = Spliced(g[j - 1], h[m - j + 1], n, rep)
  BY <1>2, <1>3 DEF SpliceRun
<1>5. k \in [0..N -> Seq(Nat)] /\ \A i \in 1..N : k[i] = k[i - 1] \o p[i]
  BY DEF FlatPieces
<1> DEFINE LeftSide(j, R) == g[j] = SubSeq(w, 1, Top(w, h, j)) \o R /\ k[s + W] = k[s + Top(w, h, j)] \o R
           T == {j \in 0..m : \E R \in Seq(Nat) : LeftSide(j, R)}
<1>6. 0 \in T
  <2>1. Top(w, h, 0) = W
    BY <1>1 DEF Top
  <2>2. SubSeq(w, 1, W) = w
    BY <1>1, SubSeqFull
  <2>3. s + W \in 0..N
    BY <1>1
  <2>4. k[s + W] \in Seq(Nat)
    BY <1>5, <2>3
  <2>5. <<>> \in Seq(Nat)
    BY EmptySeq
  <2>6. w \o <<>> = w /\ k[s + W] \o <<>> = k[s + W]
    BY <2>4, ConcatEmptySeq
  <2>7. LeftSide(0, <<>>)
    BY <1>4, <2>1, <2>2, <2>6
  <2>8. 0 \in 0..m
    BY <1>2
  <2> HIDE DEF LeftSide
  <2> QED BY <2>5, <2>7, <2>8
<1>7. ASSUME NEW j \in 0..(m - 1), j \in T PROVE j + 1 \in T
  <2>0. j \in 0..(Len(h) - 1) /\ j \in 0..Len(h) /\ j + 1 \in 0..Len(h) /\ j + 1 \in 1..m /\ (j + 1) - 1 = j
        /\ m - (j + 1) + 1 = m - j /\ j + 1 \in 0..m
    BY <1>2
  <2>1. PICK e \in Nat : e = Top(w, h, j) /\ e <= W
    BY <1>1, <2>0, TopIs
  <2>2. PICK c \in Nat : c = Top(w, h, j + 1)
    BY <2>0, TopIs
  <2>3. c = h[m - j] /\ c + n <= e
    BY <1>2, <2>0, <2>1, <2>2, TopStep
  <2>4. PICK R \in Seq(Nat) : LeftSide(j, R)
    <3> HIDE DEF LeftSide
    <3> QED BY <1>7
  <2>5. g[j] = SubSeq(w, 1, e) \o R /\ k[s + W] = k[s + e] \o R
    BY <2>1, <2>4
  <2>6. g[j + 1] = Spliced(g[j], c, n, rep)
    <3>1. g[j + 1] = Spliced(g[(j + 1) - 1], h[m - (j + 1) + 1], n, rep)
      BY <1>4, <2>0
    <3> QED BY <2>0, <2>3, <3>1
  <2>7. PICK b : b = SubSeq(w, c + n + 1, e)
    OBVIOUS
  <2>8. /\ g[j + 1] = SubSeq(w, 1, c) \o (rep \o (b \o R))
        /\ rep \o (b \o R) \in Seq(Nat)
    <3>1. e <= Len(w) /\ n \in Nat
      BY <1>1, <2>1
    <3>2. SplicedTo(w, R, rep, e, c, n)
      BY <2>3, <3>1, SpliceTurn
    <3> QED BY <2>5, <2>6, <2>7, <3>2 DEF SplicedTo
  <2>9. PICK a : a = k[s + c]
    OBVIOUS
  <2>10. a \in Seq(Nat) /\ k[s + e] = (a \o rep) \o b
    <3>1. AtPart(w, h, j, c, e)
      BY <2>1, <2>2 DEF AtPart
    <3>2. Turned(k, s, w, n, rep, c, e)
      BY <2>0, <3>1, PieceTurn
    <3> QED BY <2>7, <2>9, <3>2 DEF Turned
  <2>11. b \in Seq(Nat)
    <3>1. c + n + 1 \in Nat \ {0} /\ e <= Len(w)
      BY <1>1, <2>1
    <3> QED BY <2>7, <3>1, PartOfLine
  <2>12. k[s + W] = a \o (rep \o (b \o R))
    <3>1. PICK x : x = a \o rep
      OBVIOUS
    <3>2. x \in Seq(Nat)
      BY <2>10, <3>1, ConcatProperties
    <3>3. PICK y : y = b \o R
      OBVIOUS
    <3>4. y \in Seq(Nat)
      BY <2>11, <3>3, ConcatProperties
    <3>5. (x \o b) \o R = x \o y
      BY <2>11, <3>2, <3>3, RunesJoin
    <3>6. x \o y = a \o (rep \o y)
      BY <2>10, <3>1, <3>4, RunesJoin
    <3> QED BY <2>5, <2>10, <3>1, <3>3, <3>5, <3>6
  <2>13. LeftSide(j + 1, rep \o (b \o R))
    BY <2>2, <2>8, <2>9, <2>12
  <2> HIDE DEF LeftSide
  <2> QED BY <2>0, <2>8, <2>13
<1>8. \A j \in 0..m : j \in T
  <2> HIDE DEF T
  <2> QED BY <1>6, <1>7, UpTo
<1>9. PICK R \in Seq(Nat) : LeftSide(m, R)
  <2>1. m \in 0..m
    BY <1>2
  <2> HIDE DEF LeftSide
  <2> QED BY <1>8, <2>1
<1>10. PICK e \in Nat : e = Top(w, h, m) /\ e <= W
  <2>1. m \in 0..Len(h)
    BY <1>2
  <2> QED BY <1>1, <2>1, TopIs
<1>11. \A d \in ColumnsOf(h) : d \in Nat /\ d >= e
  <2>1. CASE m = 0
    BY <1>2, <2>1 DEF ColumnsOf
  <2>2. CASE m # 0
    <3>1. m - m + 1 = 1 /\ 1 \in 1..m
      BY <2>2
    <3>2. e = h[1]
      BY <1>2, <1>10, <2>2, <3>1 DEF Top
    <3>3. ASSUME NEW d \in ColumnsOf(h) PROVE d \in Nat /\ d >= e
      <4>1. PICK i \in 1..m : d = h[i]
        BY <1>2 DEF ColumnsOf
      <4>2. d \in Nat
        BY <1>2, <4>1 DEF FitIn
      <4>3. CASE i = 1
        BY <1>10, <3>2, <4>1, <4>2, <4>3
      <4>4. CASE i # 1
        <5>1. 1 < i
          BY <4>4
        <5>2. e + n <= d
          BY <1>2, <3>1, <3>2, <4>1, <5>1 DEF FitIn, RisesBy
        <5> QED BY <1>10, <4>2, <5>2
      <4> QED BY <4>3, <4>4
    <3> QED BY <3>3
  <2> QED BY <2>1, <2>2
<1>12. k[s + e] = k[s] \o SubSeq(w, 1, e)
  <2>1. ASSUME NEW i \in (0 + 1)..e PROVE p[s + i] = <<w[i]>>
    <3>1. i \in 1..W /\ i <= e
      BY <1>10
    <3>2. i - 1 \notin ColumnsOf(h) /\ ~ \E d \in ColumnsOf(h) : d < i /\ i <= d + n
      BY <1>11, <3>1
    <3> QED BY <1>1, <3>1, <3>2 DEF PiecesOf, PieceOf
  <2>2. 0 \in Nat /\ Stay(p, N, w, s, 0, e)
    BY <1>1, <1>10, <2>1 DEF Stay
  <2>3. k[s + e] = k[s + 0] \o SubSeq(w, 0 + 1, e)
    <3>1. Stayed(k, w, s, 0, e)
      BY <2>2, RunesStay
    <3> QED BY <3>1 DEF Stayed
  <2>4. s + 0 = s /\ 0 + 1 = 1
    OBVIOUS
  <2> QED BY <2>3, <2>4
<1>13. PICK a : a = SubSeq(w, 1, e)
  OBVIOUS
<1>14. a \in Seq(Nat)
  <2>1. e <= Len(w)
    BY <1>1, <1>10
  <2> QED BY <1>13, <2>1, PartOfLine
<1>15. k[s] \in Seq(Nat)
  <2>1. s \in 0..N
    BY <1>1
  <2> QED BY <1>5, <2>1
<1>16. k[s + W] = (k[s] \o a) \o R /\ g[m] = a \o R
  BY <1>9, <1>10, <1>12, <1>13
<1>17. (k[s] \o a) \o R = k[s] \o (a \o R)
  BY <1>14, <1>15, RunesJoin
<1> QED BY <1>1, <1>4, <1>16, <1>17 DEF LineGives

(***************************************************************************)
(* A file and its chunks.                                                  *)
(***************************************************************************)
FileStart(old, k) == Max({0} \cup {i \in DOMAIN old : i <= k /\ old[i] = Lf})
FileEnd(old, k)   == Min({Len(old)} \cup {i - 1 : i \in {j \in DOMAIN old : j > k /\ old[j] = Lf}})
FileStop(old, k)  == IF FileEnd(old, k) < Len(old) /\ FileEnd(old, k) > FileStart(old, k) /\ old[FileEnd(old, k)] = Cr
                     THEN FileEnd(old, k) - 1 ELSE FileEnd(old, k)
FileLine(old, k)  == SubSeq(old, FileStart(old, k) + 1, FileStop(old, k))
FileStarts(old, q, k)  == k < Len(old) /\ (k - FileStart(old, k)) \in MatchesOf(FileLine(old, k), q)
FileCovered(old, q, k) == \E d \in 0..k : FileStarts(old, q, d) /\ k < d + Len(q)
FilePieces(old, q, rep) ==
    [k \in 1..Len(old) |-> IF FileStarts(old, q, k - 1) THEN rep
                           ELSE IF FileCovered(old, q, k - 1) THEN <<>> ELSE <<old[k]>>]

LEMMA MinOf ==
    ASSUME NEW S, S \subseteq Int, NEW x \in S, \A y \in S : x <= y
    PROVE  Min(S) = x
<1>2. PICK m : m = Min(S)
  OBVIOUS
<1>3. m \in S /\ \A y \in S : m <= y
  BY <1>2 DEF Min
<1> QED BY <1>2, <1>3

\* A line of a file with its ending, from behind byte lo to byte hi, and the end of its text.
ChunkOf(data, lo, hi) ==
    /\ lo < hi /\ hi <= Len(data) /\ (lo = 0 \/ data[lo] = Lf) /\ (data[hi] = Lf \/ hi = Len(data))
    /\ \A i \in (lo + 1)..(hi - 1) : data[i] # Lf
StopOf(data, lo, hi) ==
    IF data[hi] # Lf THEN hi ELSE IF hi - 1 > lo /\ data[hi - 1] = Cr THEN hi - 2 ELSE hi - 1

LEMMA StopIs ==
    ASSUME NEW data \in Seq(Nat), NEW lo \in Nat, NEW hi \in Nat, ChunkOf(data, lo, hi)
    PROVE  StopOf(data, lo, hi) \in Nat /\ lo <= StopOf(data, lo, hi) /\ StopOf(data, lo, hi) <= hi
<1>1. lo < hi
  BY DEF ChunkOf
<1> QED BY <1>1 DEF StopOf

\* Where the line of a byte of a chunk is.
LEMMA ChunkPlaces ==
    ASSUME NEW data \in Seq(Nat), NEW lo \in Nat, NEW hi \in Nat, ChunkOf(data, lo, hi), NEW k \in lo..(hi - 1)
    PROVE  FileStart(data, k) = lo /\ FileStop(data, k) = StopOf(data, lo, hi)
<1>1. PICK D \in Nat : D = Len(data)
  BY LenProperties
<1>2. /\ lo < hi /\ hi <= D /\ (lo = 0 \/ data[lo] = Lf) /\ (data[hi] = Lf \/ hi = D)
      /\ \A i \in (lo + 1)..(hi - 1) : data[i] # Lf
  BY <1>1 DEF ChunkOf
<1>3. DOMAIN data = 1..D
  BY <1>1, LenProperties
<1>4. FileStart(data, k) = lo
  <2> DEFINE S == {0} \cup {i \in DOMAIN data : i <= k /\ data[i] = Lf}
  <2>1. S \subseteq Int
    BY <1>3
  <2>2. lo \in S
    BY <1>2, <1>3
  <2>3. ASSUME NEW y \in S PROVE y <= lo
    <3>1. CASE y = 0
      BY <3>1
    <3>2. CASE y # 0
      <4>1. y \in 1..D /\ y <= k /\ data[y] = Lf
        BY <1>3, <3>2
      <4>2. y \notin (lo + 1)..(hi - 1)
        BY <1>2, <4>1
      <4> QED BY <4>1, <4>2
    <3> QED BY <3>1, <3>2
  <2>4. FileStart(data, k) = Max(S)
    BY DEF FileStart
  <2> HIDE DEF S
  <2> QED BY <2>1, <2>2, <2>3, <2>4, MaxOf
<1>5. FileEnd(data, k) = IF data[hi] = Lf THEN hi - 1 ELSE hi
  <2> DEFINE S == {D} \cup {i - 1 : i \in {j \in DOMAIN data : j > k /\ data[j] = Lf}}
             e == IF data[hi] = Lf THEN hi - 1 ELSE hi
  <2>1. S \subseteq Int
    BY <1>1, <1>3
  <2>2. e \in S
    <3>1. CASE data[hi] = Lf
      <4>1. hi \in 1..D /\ hi > k
        BY <1>2
      <4> QED BY <1>3, <3>1, <4>1
    <3>2. CASE data[hi] # Lf
      BY <1>2, <3>2
    <3> QED BY <3>1, <3>2
  <2>3. ASSUME NEW y \in S PROVE e <= y
    <3>1. CASE y = D
      BY <1>1, <1>2, <3>1
    <3>2. CASE y # D
      <4>1. PICK j \in 1..D : j > k /\ data[j] = Lf /\ y = j - 1
        BY <1>3, <3>2
      <4>2. j \notin (lo + 1)..(hi - 1)
        BY <1>2, <4>1
      <4>3. j >= hi
        BY <4>1, <4>2
      <4>4. CASE data[hi] = Lf
        BY <4>1, <4>3, <4>4
      <4>5. CASE data[hi] # Lf
        <5>1. hi = D
          BY <1>2, <4>5
        <5>2. j = hi
          BY <4>1, <4>3, <5>1
        <5> QED BY <4>1, <4>5, <5>2
      <4> QED BY <4>4, <4>5
    <3> QED BY <3>1, <3>2
  <2>4. FileEnd(data, k) = Min(S)
    BY <1>1 DEF FileEnd
  <2>5. FileEnd(data, k) = e
    <3> HIDE DEF S, e
    <3> QED BY <2>1, <2>2, <2>3, <2>4, MinOf
  <2> QED BY <2>5
<1>6. FileStop(data, k) = StopOf(data, lo, hi)
  <2>1. CASE data[hi] = Lf
    <3>1. FileEnd(data, k) = hi - 1 /\ hi - 1 < D
      BY <1>1, <1>2, <1>5, <2>1
    <3>2. FileStop(data, k) = IF hi - 1 > lo /\ data[hi - 1] = Cr THEN (hi - 1) - 1 ELSE hi - 1
      BY <1>1, <1>4, <3>1 DEF FileStop
    <3>3. (hi - 1) - 1 = hi - 2
      OBVIOUS
    <3> QED BY <2>1, <3>2, <3>3 DEF StopOf
  <2>2. CASE data[hi] # Lf
    <3>1. FileEnd(data, k) = hi /\ hi = D
      BY <1>2, <1>5, <2>2
    <3>2. ~(hi < D)
      BY <3>1
    <3>3. FileStop(data, k) = hi
      BY <1>1, <3>1, <3>2 DEF FileStop
    <3> QED BY <2>2, <3>3 DEF StopOf
  <2> QED BY <2>1, <2>2
<1> QED BY <1>4, <1>6

Shifted(lo, hi, x, y, a, b) == lo + x = a /\ lo + y = b /\ x <= y /\ b <= hi
SamePart(c, w, x, y, a, b) == SubSeq(c, x + 1, y) = SubSeq(w, a + 1, b)

LEMMA PartOfPart ==
    ASSUME NEW w \in Seq(Nat), NEW lo \in Nat, NEW hi \in Nat, NEW c, IsPart(c, w, lo, hi),
           NEW x \in Nat, NEW y \in Nat, NEW a \in Nat, NEW b \in Nat, Shifted(lo, hi, x, y, a, b)
    PROVE  SamePart(c, w, x, y, a, b)
<1>1. lo + x = a /\ lo + y = b /\ x <= y /\ b <= hi
  BY DEF Shifted
<1>2. lo <= hi /\ hi <= Len(w)
  BY DEF IsPart
<1>3. c \in Seq(Nat) /\ Len(c) = hi - lo /\ \A i \in 1..(hi - lo) : c[i] = w[lo + i]
  <2>1. Reads(c, w, lo, hi)
    BY PartReads
  <2> QED BY <2>1 DEF Reads
<1>4. PICK W \in Nat : W = Len(w)
  BY LenProperties
<1>5. PICK s : s = SubSeq(c, x + 1, y)
  OBVIOUS
<1>6. PICK t : t = SubSeq(w, a + 1, b)
  OBVIOUS
<1>7. s \in Seq(Nat) /\ Len(s) = y - x /\ \A i \in 1..(y - x) : s[i] = c[x + i]
  <2>1. x <= y /\ y <= Len(c)
    BY <1>1, <1>2, <1>3, <1>4
  <2>2. IsPart(s, c, x, y)
    BY <1>5, <2>1 DEF IsPart
  <2>3. c \in Seq(Nat)
    BY <1>3
  <2> QED BY <2>2, <2>3, PartReads DEF Reads
<1>8. t \in Seq(Nat) /\ Len(t) = b - a /\ \A i \in 1..(b - a) : t[i] = w[a + i]
  <2>1. a <= b /\ b <= Len(w)
    BY <1>1, <1>2, <1>4
  <2>2. IsPart(t, w, a, b)
    BY <1>6, <2>1 DEF IsPart
  <2> QED BY <2>2, PartReads DEF Reads
<1>9. y - x = b - a
  BY <1>1
<1>10. ASSUME NEW i \in 1..(y - x) PROVE s[i] = t[i]
  <2>1. x + i \in 1..(hi - lo) /\ i \in 1..(b - a) /\ lo + (x + i) = a + i
    BY <1>1
  <2>2. s[i] = c[x + i] /\ t[i] = w[a + i]
    BY <1>7, <1>8, <2>1
  <2>3. c[x + i] = w[lo + (x + i)]
    BY <1>3, <2>1
  <2> QED BY <2>1, <2>2, <2>3
<1>11. Len(s) = Len(t) /\ \A i \in 1..Len(s) : s[i] = t[i]
  BY <1>7, <1>8, <1>9, <1>10
<1>12. s = t
  BY ONLY <1>7, <1>8, <1>11, SeqEqual
<1> QED BY <1>5, <1>6, <1>12 DEF SamePart

\* The text of a chunk and its ending.
OneChunk(c, data, lo, hi, z) == c = SubSeq(data, lo + 1, hi) /\ z = StopOf(data, lo, hi)

LEMMA ChunkParts ==
    ASSUME NEW data \in Seq(Nat), NEW lo \in Nat, NEW hi \in Nat, ChunkOf(data, lo, hi),
           NEW c, NEW z \in Nat, OneChunk(c, data, lo, hi, z)
    PROVE  Body(c) = SubSeq(data, lo + 1, z) /\ Ending(c) = SubSeq(data, z + 1, hi)
<1>15. c = SubSeq(data, lo + 1, hi) /\ z = StopOf(data, lo, hi)
  BY DEF OneChunk
<1>1. PICK D \in Nat : D = Len(data)
  BY LenProperties
<1>2. lo < hi /\ hi <= D /\ lo <= z /\ z <= hi
  BY <1>1, <1>15, StopIs DEF ChunkOf
<1>0. lo \in Nat /\ hi \in Nat /\ z \in Nat
  OBVIOUS
<1>3. PICK n \in Nat : n = hi - lo /\ n # 0
  BY <1>2
<1>14. IsPart(c, data, lo, hi)
  BY <1>1, <1>2, <1>15 DEF IsPart
<1>4. c \in Seq(Nat) /\ Len(c) = n /\ \A i \in 1..n : c[i] = data[lo + i]
  <2>1. c \in Seq(Nat) /\ Len(c) = hi - lo /\ \A i \in 1..(hi - lo) : c[i] = data[lo + i]
    <3>1. data \in Seq(Nat)
      OBVIOUS
    <3> QED BY ONLY <1>0, <1>14, <3>1, PartFrom
  <2> QED BY <1>3, <2>1
<1>5. c # <<>>
  BY <1>3, <1>4, EmptySeq
<1>6. Last(c) = data[hi]
  <2>1. n \in 1..n /\ lo + n = hi
    BY <1>2, <1>3
  <2> QED BY <1>4, <2>1 DEF Last
<1>7. n > 1 => c[n - 1] = data[hi - 1]
  <2>1. ASSUME n > 1 PROVE n - 1 \in 1..n /\ lo + (n - 1) = hi - 1
    BY <1>2, <1>3, <2>1
  <2> QED BY <1>4, <2>1
<1>8. n > 1 <=> hi - 1 > lo
  BY <1>2, <1>3
<1>9. PICK x \in Nat : x = EndingLen(c) /\ n - x = z - lo
  <2>1. CASE data[hi] # Lf
    <3>1. EndingLen(c) = 0 /\ z = hi
      BY <1>6, <1>15, <2>1 DEF EndingLen, StopOf
    <3> QED BY <1>2, <1>3, <3>1
  <2>2. CASE data[hi] = Lf /\ n > 1 /\ data[hi - 1] = Cr
    <3>1. EndingLen(c) = 2 /\ z = hi - 2
      BY <1>15, <1>4, <1>5, <1>6, <1>7, <1>8, <2>2 DEF EndingLen, StopOf
    <3> QED BY <1>2, <1>3, <3>1
  <2>3. CASE data[hi] = Lf /\ ~(n > 1 /\ data[hi - 1] = Cr)
    <3>1. EndingLen(c) = 1 /\ z = hi - 1
      BY <1>15, <1>4, <1>5, <1>6, <1>7, <1>8, <2>3 DEF EndingLen, StopOf
    <3> QED BY <1>2, <1>3, <3>1
  <2> QED BY <2>1, <2>2, <2>3
<1>10. PICK y \in Nat : y = n - x /\ y = z - lo /\ y <= n /\ n - y = hi - z
  BY <1>2, <1>3, <1>9
<1>11. Body(c) = SubSeq(c, 0 + 1, y) /\ Ending(c) = SubSeq(c, y + 1, n)
  <2>1. 0 + 1 = 1
    OBVIOUS
  <2> QED BY <1>4, <1>9, <1>10, <2>1 DEF Body, Ending
<1>12. SubSeq(c, 0 + 1, y) = SubSeq(data, lo + 1, z)
  <2>1. 0 \in Nat /\ Shifted(lo, hi, 0, y, lo, z)
    BY ONLY <1>0, <1>2, <1>10, y \in Nat DEF Shifted
  <2>2. SamePart(c, data, 0, y, lo, z)
    BY <1>14, <2>1, PartOfPart
  <2> QED BY <2>2 DEF SamePart
<1>13. SubSeq(c, y + 1, n) = SubSeq(data, z + 1, hi)
  <2>1. Shifted(lo, hi, y, n, z, hi)
    BY ONLY <1>0, <1>2, <1>3, <1>10, y \in Nat, n \in Nat DEF Shifted
  <2>2. SamePart(c, data, y, n, z, hi)
    BY <1>14, <2>1, PartOfPart
  <2> QED BY <2>2 DEF SamePart
<1> QED BY <1>11, <1>12, <1>13

\* A match of an earlier line ends before this one.
LEMMA EarlierEnds ==
    ASSUME NEW data \in Seq(Nat), NEW q \in SearchQuery, NEW lo \in Nat, NEW d \in Nat,
           d < lo, lo <= Len(data), data[lo] = Lf, FileStarts(data, q, d)
    PROVE  d + Len(q) <= lo
<1>1. PICK D \in Nat : D = Len(data) /\ lo <= D
  BY LenProperties
<1>2. DOMAIN data = 1..D
  BY <1>1, LenProperties
<1>3. PICK n \in Nat : n = Len(q) /\ n # 0
  BY QueryIs
<1>4. PICK a \in Nat : a = FileStart(data, d)
  <2> DEFINE S == {0} \cup {i \in DOMAIN data : i <= d /\ data[i] = Lf}
  <2>1. S \subseteq 0..D /\ S # {}
    BY <1>2
  <2>2. FileStart(data, d) = Max(S)
    BY DEF FileStart
  <2> HIDE DEF S
  <2>3. Max(S) \in S
    BY <2>1, Greatest
  <2>4. PICK m : m = Max(S)
    OBVIOUS
  <2>5. m \in 0..D
    BY <2>1, <2>3, <2>4
  <2>6. m \in Nat
    BY <2>5
  <2> QED BY <2>2, <2>4, <2>6
<1>5. PICK e \in Nat : e = FileEnd(data, d) /\ e <= lo - 1
  <2> DEFINE S == {D} \cup {i - 1 : i \in {j \in DOMAIN data : j > d /\ data[j] = Lf}}
  <2>1. S \subseteq Nat
    <3>1. \A i \in 1..D : i - 1 \in Nat
      OBVIOUS
    <3> QED BY <1>2, <3>1
  <2>2. lo - 1 \in S
    <3>1. lo \in 1..D
      BY <1>1
    <3> QED BY <1>2, <3>1
  <2>3. FileEnd(data, d) = Min(S)
    BY <1>1 DEF FileEnd
  <2> HIDE DEF S
  <2>4. Min(S) \in S /\ \A y \in S : Min(S) <= y
    BY <2>1, <2>2, LeastIsMin
  <2>5. Min(S) \in Nat /\ Min(S) <= lo - 1
    BY <2>1, <2>2, <2>4
  <2> QED BY <2>3, <2>5
<1>6. PICK z : z = FileStop(data, d)
  OBVIOUS
<1>7. z \in Int /\ z <= lo - 1
  <2>1. z = e \/ z = e - 1
    BY <1>5, <1>6 DEF FileStop
  <2> QED BY <1>5, <2>1
<1>8. PICK w : w = SubSeq(data, a + 1, z)
  OBVIOUS
<1>9. d - a \in MatchesOf(w, q)
  BY <1>4, <1>6, <1>8 DEF FileStarts, FileLine
<1>10. w \in Seq(Nat)
  <2>1. \A i \in (a + 1)..z : i \in 1..D
    BY <1>1, <1>7
  <2>2. \A i \in (a + 1)..z : data[i] \in Nat
    BY <1>1, <2>1, ElementOfSeq
  <2>3. a + 1 \in Int
    OBVIOUS
  <2> QED BY <1>7, <1>8, <2>2, <2>3, SubSeqProperties
<1>11. Len(w) = IF a + 1 <= z THEN z - (a + 1) + 1 ELSE 0
  <2>1. \A i \in (a + 1)..z : i \in 1..D
    BY <1>1, <1>7
  <2>2. \A i \in (a + 1)..z : data[i] \in Nat
    BY <1>1, <2>1, ElementOfSeq
  <2>3. a + 1 \in Int
    OBVIOUS
  <2> QED BY <1>7, <1>8, <2>2, <2>3, SubSeqProperties
<1>12. d - a \in Nat /\ (d - a) + n <= Len(w)
  <2>1. w \in SearchLine
    BY <1>10 DEF SearchLine
  <2> QED BY <1>3, <1>9, <2>1, HitsAre
<1>13. PICK x \in Nat : x = Len(w)
  BY <1>10, LenProperties
<1>14. d + n <= lo
  <2>1. CASE a + 1 <= z
    <3>1. x = z - a
      BY <1>7, <1>11, <1>13, <2>1
    <3> QED BY <1>7, <1>12, <1>13, <3>1
  <2>2. CASE ~(a + 1 <= z)
    <3>1. x = 0
      BY <1>11, <1>13, <2>2
    <3> QED BY <1>3, <1>12, <1>13, <3>1
  <2> QED BY <2>1, <2>2
<1> QED BY <1>3, <1>14

\* The pieces of the bytes of a chunk.
LEMMA ChunkPieces ==
    ASSUME NEW data \in Seq(Nat), NEW q \in SearchQuery, NEW rep \in Seq(Nat), NEW lo \in Nat, NEW hi \in Nat,
           ChunkOf(data, lo, hi), NEW z \in Nat, z = StopOf(data, lo, hi), NEW w \in Seq(Nat),
           IsPart(w, data, lo, z), NEW h, h = Hits(w, q), NEW n \in Nat, n = Len(q)
    PROVE  /\ FitIn(w, h, n) /\ PiecesOf(FilePieces(data, q, rep), lo, w, h, n, rep)
           /\ \A i \in (z + 1)..hi : FilePieces(data, q, rep)[i] = <<data[i]>>
<1>1. PICK D \in Nat : D = Len(data)
  BY LenProperties
<1>2. lo < hi /\ hi <= D /\ lo <= z /\ z <= hi
  BY <1>1, StopIs DEF ChunkOf
<1>3. Len(w) = z - lo /\ \A i \in 1..(z - lo) : w[i] = data[lo + i]
  <2>1. Reads(w, data, lo, z)
    BY PartReads
  <2> QED BY <2>1 DEF Reads
<1>4. n # 0
  BY QueryIs
<1>5. /\ h \in Seq(Nat) /\ RisesBy(h, n) /\ ColumnsOf(h) = MatchesOf(w, q)
      /\ \A c \in ColumnsOf(h) : c \in Nat /\ c + n <= z - lo
  <2>1. w \in SearchLine
    BY DEF SearchLine
  <2> QED BY <1>3, <2>1, HitsAre
<1>6. FitIn(w, h, n)
  BY <1>3, <1>5 DEF FitIn, ColumnsOf
<1>7. ASSUME NEW k \in lo..(hi - 1) PROVE FileStarts(data, q, k) <=> k - lo \in ColumnsOf(h)
  <2>1. FileStart(data, k) = lo /\ FileStop(data, k) = z
    BY <1>7, ChunkPlaces
  <2>2. FileLine(data, k) = w
    BY <2>1 DEF FileLine, IsPart
  <2>3. k < Len(data)
    BY <1>1, <1>2
  <2> QED BY <1>5, <2>1, <2>2, <2>3 DEF FileStarts
<1>8. ASSUME NEW d \in Nat, d < lo, FileStarts(data, q, d) PROVE d + n <= lo
  <2>1. lo <= Len(data) /\ data[lo] = Lf
    BY <1>1, <1>2, <1>8 DEF ChunkOf
  <2>2. d + Len(q) <= lo
    BY <1>8, <2>1, EarlierEnds
  <2> QED BY <2>2
<1>9. ASSUME NEW k \in lo..(hi - 1)
      PROVE FileCovered(data, q, k) <=> \E c \in ColumnsOf(h) : c < k - lo + 1 /\ k - lo + 1 <= c + n
  <2>1. ASSUME NEW d \in 0..k, FileStarts(data, q, d), k < d + n
        PROVE  \E c \in ColumnsOf(h) : c < k - lo + 1 /\ k - lo + 1 <= c + n
    <3>1. d >= lo
      <4>1. ASSUME d < lo PROVE FALSE
        <5>1. d + n <= lo
          BY <1>8, <2>1, <4>1
        <5> QED BY <2>1, <5>1
      <4> QED BY <4>1
    <3>2. d \in lo..(hi - 1)
      BY <3>1
    <3>3. d - lo \in ColumnsOf(h)
      BY <1>7, <2>1, <3>2
    <3>4. d - lo < k - lo + 1 /\ k - lo + 1 <= (d - lo) + n
      BY <2>1, <3>1
    <3> QED BY <3>3, <3>4
  <2>2. ASSUME NEW c \in ColumnsOf(h), c < k - lo + 1, k - lo + 1 <= c + n
        PROVE  \E d \in 0..k : FileStarts(data, q, d) /\ k < d + n
    <3>1. c \in Nat
      BY <1>5
    <3>2. PICK d \in Nat : d = lo + c
      BY <3>1
    <3>3. d \in 0..k /\ d \in lo..(hi - 1) /\ k < d + n /\ d - lo = c
      BY <2>2, <3>1, <3>2
    <3>4. FileStarts(data, q, d)
      BY <1>7, <3>3
    <3> QED BY <3>3, <3>4
  <2> QED BY <2>1, <2>2 DEF FileCovered
<1>10. PICK p : p = FilePieces(data, q, rep)
  OBVIOUS
<1>11. ASSUME NEW g \in lo..(hi - 1)
       PROVE  p[g + 1] = IF g - lo \in ColumnsOf(h) THEN rep
                         ELSE IF \E c \in ColumnsOf(h) : c < g - lo + 1 /\ g - lo + 1 <= c + n THEN <<>> ELSE <<data[g + 1]>>
  <2>1. PICK k \in 1..D : k = g + 1 /\ k - 1 = g
    BY <1>2
  <2>2. p[k] = IF FileStarts(data, q, g) THEN rep ELSE IF FileCovered(data, q, g) THEN <<>> ELSE <<data[k]>>
    BY <1>1, <1>10, <2>1 DEF FilePieces
  <2>3. FileStarts(data, q, g) <=> g - lo \in ColumnsOf(h)
    BY <1>7
  <2>4. FileCovered(data, q, g) <=> \E c \in ColumnsOf(h) : c < g - lo + 1 /\ g - lo + 1 <= c + n
    BY <1>9
  <2> QED BY <2>1, <2>2, <2>3, <2>4
<1>12. ASSUME NEW i \in 1..Len(w) PROVE PieceOf(w, h, n, rep, i, p[lo + i])
  <2>1. PICK g \in lo..(hi - 1) : g + 1 = lo + i /\ g - lo = i - 1 /\ g - lo + 1 = i
    <3>1. i \in 1..(z - lo)
      BY <1>3
    <3>2. (lo + i) - 1 \in lo..(hi - 1) /\ ((lo + i) - 1) + 1 = lo + i /\ ((lo + i) - 1) - lo = i - 1
          /\ ((lo + i) - 1) - lo + 1 = i
      BY <1>2, <3>1
    <3> QED BY <3>2
  <2>2. w[i] = data[lo + i]
    BY <1>3
  <2> QED BY <1>11, <2>1, <2>2 DEF PieceOf
<1>13. ASSUME NEW i \in (z + 1)..hi PROVE p[i] = <<data[i]>>
  <2>1. PICK g \in lo..(hi - 1) : g + 1 = i /\ g >= z
    <3>1. i - 1 \in lo..(hi - 1) /\ (i - 1) + 1 = i /\ i - 1 >= z
      BY <1>2
    <3> QED BY <3>1
  <2>2. g - lo \notin ColumnsOf(h)
    <3>1. ASSUME g - lo \in ColumnsOf(h) PROVE FALSE
      <4>1. (g - lo) + n <= z - lo
        BY <1>5, <3>1
      <4> QED BY <1>4, <2>1, <4>1
    <3> QED BY <3>1
  <2>3. ASSUME NEW c \in ColumnsOf(h), c < g - lo + 1, g - lo + 1 <= c + n PROVE FALSE
    <3>1. c \in Nat /\ c + n <= z - lo
      BY <1>5
    <3> QED BY <2>1, <2>3, <3>1
  <2> QED BY <1>11, <2>1, <2>2, <2>3
<1> QED BY <1>6, <1>10, <1>12, <1>13 DEF PiecesOf

\* The text after the pieces of a chunk.
ChunkGives(k, data, q, rep, lo, hi) ==
    /\ ReplacedChunk(SubSeq(data, lo + 1, hi), q, rep) \in Seq(Nat)
    /\ k[hi] = k[lo] \o ReplacedChunk(SubSeq(data, lo + 1, hi), q, rep)

LEMMA ChunkTurn ==
    ASSUME NEW data \in Seq(Nat), NEW q \in SearchQuery, NEW rep \in Seq(Nat), NEW lo \in Nat, NEW hi \in Nat,
           ChunkOf(data, lo, hi), NEW k, FlatPieces(k, FilePieces(data, q, rep), Len(data))
    PROVE  ChunkGives(k, data, q, rep, lo, hi)
<1>1. PICK D \in Nat : D = Len(data)
  BY LenProperties
<1>2. PICK z \in Nat : z = StopOf(data, lo, hi) /\ lo <= z /\ z <= hi
  BY StopIs
<1>3. lo < hi /\ hi <= D
  BY <1>1 DEF ChunkOf
<1>4. PICK c : c = SubSeq(data, lo + 1, hi)
  OBVIOUS
<1>5. PICK w : w = SubSeq(data, lo + 1, z)
  OBVIOUS
<1>6. PICK y : y = SubSeq(data, z + 1, hi)
  OBVIOUS
<1>7. Body(c) = w /\ Ending(c) = y
  <2>1. OneChunk(c, data, lo, hi, z)
    BY <1>2, <1>4 DEF OneChunk
  <2>2. Body(c) = SubSeq(data, lo + 1, z) /\ Ending(c) = SubSeq(data, z + 1, hi)
    BY <2>1, ChunkParts
  <2> QED BY <1>5, <1>6, <2>2
<1>8. IsPart(w, data, lo, z) /\ IsPart(y, data, z, hi)
  BY <1>1, <1>2, <1>3, <1>5, <1>6 DEF IsPart
<1>9. w \in Seq(Nat) /\ Len(w) = z - lo
  BY <1>8, PartFrom
<1>10. y \in Seq(Nat)
  BY <1>8, PartFrom
<1>11. PICK h : h = Hits(w, q)
  OBVIOUS
<1>12. PICK n \in Nat : n = Len(q) /\ n # 0
  BY QueryIs
<1>13. PICK p : p = FilePieces(data, q, rep)
  OBVIOUS
<1>14. /\ FitIn(w, h, n) /\ PiecesOf(p, lo, w, h, n, rep)
       /\ \A i \in (z + 1)..hi : p[i] = <<data[i]>>
  BY <1>2, <1>8, <1>9, <1>11, <1>12, <1>13, ChunkPieces
<1>15. FlatPieces(k, p, D)
  BY <1>1, <1>13
<1>16. PICK x : x = SplicedAt(w, h, n, rep)
  OBVIOUS
<1>17. x \in Seq(Nat)
  BY <1>9, <1>12, <1>14, <1>16, SplicedAtIs
<1>18. k[lo + Len(w)] = k[lo] \o x
  <2>1. Reaches(w, lo, D) /\ n \in Nat \ {0}
    BY <1>2, <1>3, <1>9, <1>12 DEF Reaches
  <2>2. D \in Nat /\ rep \in Seq(Nat) /\ lo \in Nat
    OBVIOUS
  <2>3. LineGives(k, lo, w, h, n, rep)
    BY <1>9, <1>14, <1>15, <2>1, <2>2, LinePieces
  <2> QED BY <1>16, <2>3 DEF LineGives
<1>19. lo + Len(w) = z
  BY <1>2, <1>9
<1>20. k[hi] = k[z] \o y
  <2>1. \A i \in (z + 1)..hi : p[0 + i] = <<data[i]>>
    <3>1. \A i \in (z + 1)..hi : 0 + i = i
      BY <1>3
    <3> QED BY <1>14, <3>1
  <2>2. 0 \in Nat /\ Stay(p, D, data, 0, z, hi)
    BY <1>1, <1>2, <1>3, <2>1 DEF Stay
  <2>3. Stayed(k, data, 0, z, hi)
    BY <1>15, <2>2, RunesStay
  <2>4. 0 + hi = hi /\ 0 + z = z
    OBVIOUS
  <2> QED BY <1>6, <2>3, <2>4 DEF Stayed
<1>21. k[lo] \in Seq(Nat)
  <2>1. lo \in 0..D /\ k \in [0..D -> Seq(Nat)]
    BY <1>3, <1>15 DEF FlatPieces
  <2> QED BY <2>1
<1>22. k[hi] = k[lo] \o (x \o y)
  <2>1. k[hi] = (k[lo] \o x) \o y
    BY <1>18, <1>19, <1>20
  <2>2. (k[lo] \o x) \o y = k[lo] \o (x \o y)
    BY <1>10, <1>17, <1>21, RunesJoin
  <2> QED BY <2>1, <2>2
<1>23. ReplacedChunk(c, q, rep) = x \o y
  BY <1>7, <1>11, <1>12, <1>16 DEF ReplacedChunk, Substitute
<1>24. x \o y \in Seq(Nat)
  BY <1>10, <1>17, ConcatProperties
<1> QED BY <1>4, <1>22, <1>23, <1>24 DEF ChunkGives

\* Chunks that follow one another from the start of a file, and their bounds.
Chunked(cs, data, b) ==
    /\ b \in [0..Len(cs) -> Nat] /\ b[0] = 0
    /\ \A x \in 1..Len(cs) : ChunkOf(data, b[x - 1], b[x]) /\ cs[x] = SubSeq(data, b[x - 1] + 1, b[x])

ChunkBehind(c, cs, data, b, hi) ==
    ChunkOf(data, b[Len(cs)], hi) /\ c = SubSeq(data, b[Len(cs)] + 1, hi)

LEMMA OneChunkMore ==
    ASSUME NEW data \in Seq(Nat), NEW cs \in Seq(Seq(Nat)), NEW b, Chunked(cs, data, b),
           NEW hi \in Nat, NEW c \in Seq(Nat), ChunkBehind(c, cs, data, b, hi)
    PROVE  \E a : Chunked(Append(cs, c), data, a) /\ a[Len(Append(cs, c))] = hi
<1>9. ChunkOf(data, b[Len(cs)], hi) /\ c = SubSeq(data, b[Len(cs)] + 1, hi)
  BY DEF ChunkBehind
<1>1. PICK m \in Nat : m = Len(cs)
  BY LenProperties
<1>2. PICK d : d = Append(cs, c)
  OBVIOUS
<1>3. Len(d) = m + 1 /\ d[m + 1] = c /\ \A i \in 1..m : d[i] = cs[i]
  <2>1. d \in Seq(Seq(Nat)) /\ Len(d) = Len(cs) + 1 /\ d[Len(cs) + 1] = c /\ \A i \in 1..Len(cs) : d[i] = cs[i]
    <3>1. cs \in Seq(Seq(Nat)) /\ c \in Seq(Nat)
      OBVIOUS
    <3> QED BY ONLY <1>2, <3>1, AppendProperties
  <2> QED BY <1>1, <2>1
<1>4. /\ b \in [0..m -> Nat] /\ b[0] = 0
      /\ \A x \in 1..m : ChunkOf(data, b[x - 1], b[x]) /\ cs[x] = SubSeq(data, b[x - 1] + 1, b[x])
  BY <1>1 DEF Chunked
<1>5. PICK a : a = [x \in 0..(m + 1) |-> IF x = m + 1 THEN hi ELSE b[x]]
  OBVIOUS
<1>6. a \in [0..(m + 1) -> Nat] /\ a[0] = 0 /\ a[m + 1] = hi /\ \A x \in 0..m : a[x] = b[x]
  <2>1. \A x \in 0..(m + 1) : x # m + 1 => x \in 0..m
    OBVIOUS
  <2>2. \A x \in 0..m : x # m + 1 /\ x \in 0..(m + 1)
    OBVIOUS
  <2>3. m + 1 \in 0..(m + 1) /\ 0 \in 0..m
    OBVIOUS
  <2> QED BY <1>4, <1>5, <2>1, <2>2, <2>3
<1>7. ASSUME NEW x \in 1..(m + 1) PROVE ChunkOf(data, a[x - 1], a[x]) /\ d[x] = SubSeq(data, a[x - 1] + 1, a[x])
  <2>1. CASE x = m + 1
    <3>1. x - 1 = m /\ m \in 0..m
      BY <2>1
    <3>2. a[x - 1] = b[m] /\ a[x] = hi /\ d[x] = c
      BY <1>3, <1>6, <2>1, <3>1
    <3> QED BY <1>1, <1>9, <3>2
  <2>2. CASE x # m + 1
    <3>1. x \in 1..m /\ x - 1 \in 0..m /\ x \in 0..m
      BY <2>2
    <3>2. a[x - 1] = b[x - 1] /\ a[x] = b[x] /\ d[x] = cs[x]
      BY <1>3, <1>6, <3>1
    <3> QED BY <1>4, <3>1, <3>2
  <2> QED BY <2>1, <2>2
<1>8. Chunked(d, data, a)
  BY <1>3, <1>6, <1>7 DEF Chunked
<1> QED BY <1>2, <1>3, <1>6, <1>8

(***************************************************************************)
(* A file is cut into its chunks.                                          *)
(***************************************************************************)
CutState == [chunks : Seq(Seq(Nat)), start : Nat]
NothingCut == [chunks |-> <<>>, start |-> 0]
Rest(end, data) == IF end.start < Len(data) THEN Append(end.chunks, SubSeq(data, end.start + 1, Len(data)))
                   ELSE end.chunks

LEMMA PartTyped ==
    ASSUME NEW data \in Seq(Nat), NEW m \in Nat, NEW i \in 0..Len(data)
    PROVE  SubSeq(data, m + 1, i) \in Seq(Nat)
<1>1. PICK n \in Nat : n = m + 1 /\ n # 0
  OBVIOUS
<1>2. n \in Nat \ {0} /\ i \in Nat /\ i <= Len(data)
  BY <1>1, LenProperties
<1>3. SubSeq(data, n, i) \in Seq(Nat)
  BY <1>2, PartOfLine
<1> QED BY <1>1, <1>3

LEMMA CutTyped ==
    ASSUME NEW data \in Seq(Nat), NEW n \in 1..Len(data), NEW a \in CutState
    PROVE  CutAt(data, a, n) \in CutState
<1>1. a.chunks \in Seq(Seq(Nat)) /\ a.start \in Nat
  BY DEF CutState
<1>2. PICK c : c = SubSeq(data, a.start + 1, n)
  OBVIOUS
<1>3. n \in Nat /\ n \in 0..Len(data)
  BY LenProperties
<1>4. c \in Seq(Nat)
  BY <1>1, <1>2, <1>3, PartTyped
<1>5. Append(a.chunks, c) \in Seq(Seq(Nat))
  BY <1>1, <1>4, AppendProperties
<1>6. [chunks |-> Append(a.chunks, c), start |-> n] \in CutState
  BY <1>3, <1>5 DEF CutState
<1> QED BY <1>2, <1>6 DEF CutAt

\* The chunks cut before each byte.
CutRun(k, data) ==
    /\ k \in [0..Len(data) -> CutState] /\ k[0] = NothingCut
    /\ \A n \in 1..Len(data) : k[n] = CutAt(data, k[n - 1], n)
    /\ KeepEndings(data) = Rest(k[Len(data)], data)

LEMMA CutRuns ==
    ASSUME NEW data \in Seq(Nat)
    PROVE  \E k : CutRun(k, data)
<1> DEFINE SoFar(g, n) == IF n = 0 THEN NothingCut ELSE CutAt(data, g[n - 1], n)
           Made(g) == g = [n \in 0..Len(data) |-> SoFar(g, n)]
           turn == [n \in 1..Len(data) |-> [a \in CutState |-> CutAt(data, a, n)]]
           k == CHOOSE g : Made(g)
<1>1. Len(data) \in Nat
  BY LenProperties
<1>2. ASSUME NEW n \in 1..Len(data), NEW a \in CutState PROVE CutAt(data, a, n) \in CutState
  BY <1>2, CutTyped
<1>3. turn \in [1..Len(data) -> [CutState -> CutState]]
  BY <1>2
<1>4. NothingCut \in CutState
  BY EmptySeq DEF NothingCut, CutState
<1>5. PICK g : Runs(Len(data), CutState, NothingCut, turn, g)
  <2> HIDE DEF turn
  <2> QED BY <1>1, <1>3, <1>4, LoopRuns
<1>6. Made(g)
  <2>1. ASSUME NEW n \in 0..Len(data) PROVE g[n] = SoFar(g, n)
    <3>1. CASE n = 0
      BY <3>1, <1>5 DEF Runs
    <3>2. CASE n # 0
      <4>1. n \in 1..Len(data) /\ n - 1 \in 0..Len(data)
        BY <3>2, <1>1
      <4>2. g[n] = turn[n][g[n - 1]] /\ g[n - 1] \in CutState
        <5> HIDE DEF turn
        <5> QED BY <4>1, <1>5 DEF Runs
      <4>3. g[n] = CutAt(data, g[n - 1], n)
        BY <4>1, <4>2
      <4> QED BY <3>2, <4>3
    <3> QED BY <3>1, <3>2
  <2>2. g = [n \in 0..Len(data) |-> g[n]]
    BY <1>5 DEF Runs
  <2> HIDE DEF turn, SoFar
  <2> QED BY <2>1, <2>2
<1>7. Made(k)
  <2> HIDE DEF Made
  <2> QED BY <1>6
<1>8. KeepEndings(data) = Rest(k[Len(data)], data)
  BY DEF KeepEndings, Rest, NothingCut
<1> HIDE DEF k
<1>9. k[0] = NothingCut /\ \A n \in 1..Len(data) : k[n] = CutAt(data, k[n - 1], n)
  <2>1. ASSUME NEW n \in 0..Len(data) PROVE k[n] = SoFar(k, n)
    <3> HIDE DEF SoFar
    <3> QED BY <1>7
  <2> HIDE DEF Made
  <2>2. k[0] = NothingCut
    BY <2>1, <1>1
  <2>3. ASSUME NEW n \in 1..Len(data) PROVE k[n] = CutAt(data, k[n - 1], n)
    <3>1. n \in 0..Len(data) /\ n # 0
      BY <1>1
    <3>2. k[n] = SoFar(k, n)
      BY <2>1, <3>1
    <3> QED BY <3>1, <3>2
  <2> QED BY <2>2, <2>3
<1>10. ASSUME NEW m \in 0..(Len(data) - 1), k[m] \in CutState PROVE k[m + 1] \in CutState
  <2>1. m + 1 \in 1..Len(data) /\ (m + 1) - 1 = m
    BY <1>1
  <2>2. k[m + 1] = CutAt(data, k[(m + 1) - 1], (m + 1))
    BY <2>1, <1>9
  <2>3. PICK n \in 1..Len(data) : n = m + 1 /\ n - 1 = m
    BY <2>1
  <2>4. k[n] = CutAt(data, k[m], n)
    BY <2>2, <2>3
  <2>5. k[n] \in CutState
    BY <2>4, <1>2, <1>10
  <2> QED BY <2>3, <2>5
<1>11. \A m \in 0..Len(data) : k[m] \in CutState
  BY <1>1, <1>4, <1>9, <1>10, StaysIn
<1>12. k = [m \in 0..Len(data) |-> k[m]]
  BY <1>7
<1> HIDE DEF Made
<1> QED BY <1>8, <1>9, <1>11, <1>12 DEF CutRun

\* The chunks cut before byte i, and the line that is not ended yet.
CutAlong(data, i, a, b) ==
    /\ Chunked(a.chunks, data, b) /\ b[Len(a.chunks)] = a.start
    /\ a.start <= i /\ (a.start = 0 \/ data[a.start] = Lf) /\ \A j \in (a.start + 1)..i : data[j] # Lf

LEMMA CutTurn ==
    ASSUME NEW data \in Seq(Nat), NEW i \in 1..Len(data), NEW a \in CutState, NEW b, CutAlong(data, i - 1, a, b)
    PROVE  \E c : CutAlong(data, i, CutAt(data, a, i), c)
<1>1. a.chunks \in Seq(Seq(Nat)) /\ a.start \in Nat
  BY DEF CutState
<1>2. PICK s \in Nat : s = a.start
  BY <1>1
<1>3. PICK cs \in Seq(Seq(Nat)) : cs = a.chunks
  BY <1>1
<1>4. /\ Chunked(cs, data, b) /\ b[Len(cs)] = s
      /\ s <= i - 1 /\ (s = 0 \/ data[s] = Lf) /\ \A j \in (s + 1)..(i - 1) : data[j] # Lf
  BY <1>2, <1>3 DEF CutAlong
<1>5. PICK D \in Nat : D = Len(data) /\ i <= D /\ i \in Nat
  BY LenProperties
<1>6. CASE data[i] = Lf
  <2>1. ChunkOf(data, s, i)
    BY <1>4, <1>5, <1>6 DEF ChunkOf
  <2>2. PICK c : c = SubSeq(data, s + 1, i)
    OBVIOUS
  <2>3. c \in Seq(Nat)
    BY <1>5, <2>2, PartTyped
  <2>4. PICK d : d = Append(cs, c)
    OBVIOUS
  <2>5. PICK e : Chunked(d, data, e) /\ e[Len(d)] = i
    <3>1. ChunkBehind(c, cs, data, b, i)
      BY <1>4, <2>1, <2>2 DEF ChunkBehind
    <3> QED BY <1>4, <1>5, <2>3, <2>4, <3>1, OneChunkMore
  <2>6. CutAt(data, a, i) = [chunks |-> d, start |-> i]
    BY <1>2, <1>3, <1>6, <2>2, <2>4 DEF CutAt
  <2>7. CutAt(data, a, i).chunks = d /\ CutAt(data, a, i).start = i
    BY <2>6
  <2>8. i <= i /\ \A j \in (i + 1)..i : FALSE
    BY <1>5
  <2> QED BY <1>6, <2>5, <2>7, <2>8 DEF CutAlong
<1>7. CASE data[i] # Lf
  <2>1. CutAt(data, a, i) = a
    BY <1>7 DEF CutAt
  <2>2. s <= i
    BY <1>4, <1>5
  <2>3. ASSUME NEW j \in (s + 1)..i PROVE data[j] # Lf
    <3>1. j = i \/ j \in (s + 1)..(i - 1)
      BY <1>5
    <3> QED BY <1>4, <1>7, <3>1
  <2>4. CutAlong(data, i, a, b)
    BY <1>2, <1>3, <1>4, <2>2, <2>3 DEF CutAlong
  <2> QED BY <2>1, <2>4
<1> QED BY <1>6, <1>7

\* Its lines one after the other, each with its ending.
LEMMA ChunksAre ==
    ASSUME NEW data \in Seq(Nat)
    PROVE  /\ KeepEndings(data) \in Seq(Seq(Nat))
           /\ \E b : Chunked(KeepEndings(data), data, b) /\ b[Len(KeepEndings(data))] = Len(data)
<1>1. PICK D \in Nat : D = Len(data)
  BY LenProperties
<1>2. PICK k : CutRun(k, data)
  BY CutRuns
<1>3. /\ k \in [0..D -> CutState] /\ k[0] = NothingCut /\ KeepEndings(data) = Rest(k[D], data)
      /\ \A n \in 1..D : k[n] = CutAt(data, k[n - 1], n)
  BY <1>1, <1>2 DEF CutRun
<1> DEFINE T == {i \in 0..D : \E b : CutAlong(data, i, k[i], b)}
<1>4. 0 \in T
  <2>1. k[0].chunks = <<>> /\ k[0].start = 0
    BY <1>3 DEF NothingCut
  <2>2. Len(<<>>) = 0
    BY EmptySeq
  <2>3. PICK b : b = [x \in 0..0 |-> 0]
    OBVIOUS
  <2>4. b \in [0..0 -> Nat] /\ b[0] = 0
    BY <2>3
  <2>5. Chunked(<<>>, data, b)
    BY <2>2, <2>4 DEF Chunked
  <2>6. CutAlong(data, 0, k[0], b)
    BY <2>1, <2>2, <2>4, <2>5 DEF CutAlong
  <2>7. 0 \in 0..D
    BY <1>1
  <2> QED BY <2>6, <2>7
<1>5. ASSUME NEW i \in 0..(D - 1), i \in T PROVE i + 1 \in T
  <2>1. PICK j \in 1..D : j = i + 1 /\ j - 1 = i /\ j - 1 \in 0..D /\ j \in 0..D
    BY <1>1
  <2>2. PICK b : CutAlong(data, j - 1, k[j - 1], b)
    BY <1>5, <2>1
  <2>3. k[j - 1] \in CutState /\ k[j] = CutAt(data, k[j - 1], j)
    BY <1>3, <2>1
  <2>4. \E c : CutAlong(data, j, k[j], c)
    BY <1>1, <2>2, <2>3, CutTurn
  <2> QED BY <2>1, <2>4
<1>6. \A i \in 0..D : i \in T
  <2> HIDE DEF T
  <2> QED BY <1>1, <1>4, <1>5, UpTo
<1>7. D \in 0..D
  BY <1>1
<1>8. PICK b : CutAlong(data, D, k[D], b)
  BY <1>6, <1>7
<1>9. k[D] \in CutState
  BY <1>3, <1>7
<1>10. PICK s \in Nat : s = k[D].start
  BY <1>9 DEF CutState
<1>11. PICK cs \in Seq(Seq(Nat)) : cs = k[D].chunks
  BY <1>9 DEF CutState
<1>12. /\ Chunked(cs, data, b) /\ b[Len(cs)] = s
       /\ s <= D /\ (s = 0 \/ data[s] = Lf) /\ \A j \in (s + 1)..D : data[j] # Lf
  BY <1>8, <1>10, <1>11 DEF CutAlong
<1>13. CASE s < D
  <2>1. \A j \in (s + 1)..(D - 1) : j \in (s + 1)..D
    OBVIOUS
  <2>2. ChunkOf(data, s, D)
    <3>1. D <= D
      BY <1>1
    <3> QED BY <1>1, <1>12, <1>13, <2>1, <3>1 DEF ChunkOf
  <2>3. PICK c : c = SubSeq(data, s + 1, D)
    OBVIOUS
  <2>4. c \in Seq(Nat)
    BY <1>1, <1>7, <2>3, PartTyped
  <2>5. PICK d : d = Append(cs, c)
    OBVIOUS
  <2>6. \E e : Chunked(d, data, e) /\ e[Len(d)] = D
    <3>1. ChunkBehind(c, cs, data, b, D)
      BY <1>12, <2>2, <2>3 DEF ChunkBehind
    <3>2. Chunked(cs, data, b) /\ D \in Nat /\ data \in Seq(Nat) /\ cs \in Seq(Seq(Nat))
      BY <1>12
    <3>3. \E e : Chunked(Append(cs, c), data, e) /\ e[Len(Append(cs, c))] = D
      BY ONLY <2>4, <3>1, <3>2, OneChunkMore
    <3> QED BY <2>5, <3>3
  <2>7. KeepEndings(data) = d
    BY <1>1, <1>3, <1>10, <1>11, <1>13, <2>3, <2>5 DEF Rest
  <2>8. d \in Seq(Seq(Nat))
    BY <2>4, <2>5, AppendProperties
  <2> QED BY <1>1, <2>6, <2>7, <2>8
<1>14. CASE ~(s < D)
  <2>1. s = D
    BY <1>12, <1>14
  <2>2. KeepEndings(data) = cs
    BY <1>1, <1>3, <1>10, <1>11, <1>14 DEF Rest
  <2> QED BY <1>1, <1>12, <2>1, <2>2
<1> QED BY <1>13, <1>14

LEMMA PiecesTyped ==
    ASSUME NEW data \in Seq(Nat), NEW q \in SearchQuery, NEW rep \in Seq(Nat)
    PROVE  FilePieces(data, q, rep) \in Seq(Seq(Nat)) /\ Len(FilePieces(data, q, rep)) = Len(data)
<1>1. PICK D \in Nat : D = Len(data)
  BY LenProperties
<1> DEFINE One(i) == IF FileStarts(data, q, i - 1) THEN rep ELSE IF FileCovered(data, q, i - 1) THEN <<>> ELSE <<data[i]>>
<1>2. ASSUME NEW i \in 1..D PROVE One(i) \in Seq(Nat)
  <2>1. data[i] \in Nat
    BY <1>1, ElementOfSeq
  <2>2. <<data[i]>> \in Seq(Nat) /\ <<>> \in Seq(Nat)
    BY <2>1, EmptySeq
  <2> QED BY <2>2
<1>3. FilePieces(data, q, rep) = [i \in 1..D |-> One(i)]
  BY <1>1 DEF FilePieces
<1> HIDE DEF One
<1>4. PICK p : p = [i \in 1..D |-> One(i)]
  OBVIOUS
<1>5. p \in [1..D -> Seq(Nat)]
  BY <1>2, <1>4
<1>6. p \in Seq(Seq(Nat)) /\ Len(p) = D
  BY <1>5, IsASeq
<1> QED BY <1>1, <1>3, <1>4, <1>6

LEMMA TextAfterPieces ==
    ASSUME NEW data \in Seq(Nat), NEW q \in SearchQuery, NEW rep \in Seq(Nat)
    PROVE  \E k : /\ FlatPieces(k, FilePieces(data, q, rep), Len(data)) /\ k[0] = <<>>
                  /\ FlattenSeq(FilePieces(data, q, rep)) = k[Len(data)]
<1>1. PICK p \in Seq(Seq(Nat)) : p = FilePieces(data, q, rep) /\ Len(p) = Len(data)
  BY PiecesTyped
<1>2. PICK k : FlatRun(k, p)
  BY FlatRuns
<1>3. FlatPieces(k, p, Len(data)) /\ k[0] = <<>> /\ FlattenSeq(p) = k[Len(data)]
  BY <1>1, <1>2 DEF FlatRun, FlatPieces
<1> QED BY <1>1, <1>3

\* What each chunk becomes.
LEMMA ChunkBytes ==
    ASSUME NEW data \in Seq(Nat), NEW q \in SearchQuery, NEW rep \in Seq(Nat),
           NEW n \in 1..Len(KeepEndings(data))
    PROVE  ReplacedChunk(KeepEndings(data)[n], q, rep) \in Seq(Nat)
<1>1. PICK cs \in Seq(Seq(Nat)) : cs = KeepEndings(data)
  BY ChunksAre
<1>2. PICK b : Chunked(cs, data, b)
  BY <1>1, ChunksAre
<1>3. PICK k : FlatPieces(k, FilePieces(data, q, rep), Len(data))
  BY TextAfterPieces
<1>4. PICK m \in Nat : m = Len(cs)
  BY LenProperties
<1>5. n \in 1..m /\ n - 1 \in 0..m /\ n \in 0..m
  BY <1>1, <1>4
<1>6. PICK lo \in Nat, hi \in Nat : lo = b[n - 1] /\ hi = b[n]
  BY <1>2, <1>4, <1>5 DEF Chunked
<1>7. ChunkOf(data, lo, hi) /\ cs[n] = SubSeq(data, lo + 1, hi)
  BY <1>2, <1>4, <1>5, <1>6 DEF Chunked
<1>8. ReplacedChunk(SubSeq(data, lo + 1, hi), q, rep) \in Seq(Nat)
  BY <1>3, <1>7, ChunkTurn DEF ChunkGives
<1> QED BY <1>1, <1>7, <1>8

\* The bytes written after each chunk.
BytesRun(k, data, q, rep) ==
    /\ k \in [0..Len(KeepEndings(data)) -> Seq(Nat)] /\ k[0] = <<>>
    /\ \A n \in 1..Len(KeepEndings(data)) : k[n] = k[n - 1] \o ReplacedChunk(KeepEndings(data)[n], q, rep)
    /\ ReplaceBytes(data, q, rep) = k[Len(KeepEndings(data))]

LEMMA BytesRuns ==
    ASSUME NEW data \in Seq(Nat), NEW q \in SearchQuery, NEW rep \in Seq(Nat)
    PROVE  \E k : BytesRun(k, data, q, rep)
<1> DEFINE SoFar(g, n) == IF n = 0 THEN <<>> ELSE g[n - 1] \o ReplacedChunk(KeepEndings(data)[n], q, rep)
           Made(g) == g = [n \in 0..Len(KeepEndings(data)) |-> SoFar(g, n)]
           turn == [n \in 1..Len(KeepEndings(data)) |-> [a \in Seq(Nat) |-> a \o ReplacedChunk(KeepEndings(data)[n], q, rep)]]
           k == CHOOSE g : Made(g)
<1>1. Len(KeepEndings(data)) \in Nat
  BY ChunksAre, LenProperties
<1>2. ASSUME NEW n \in 1..Len(KeepEndings(data)), NEW a \in Seq(Nat) PROVE a \o ReplacedChunk(KeepEndings(data)[n], q, rep) \in Seq(Nat)
  <2>1. ReplacedChunk(KeepEndings(data)[n], q, rep) \in Seq(Nat)
    BY <1>2, ChunkBytes
  <2> QED BY <1>2, <2>1, ConcatProperties
<1>3. turn \in [1..Len(KeepEndings(data)) -> [Seq(Nat) -> Seq(Nat)]]
  BY <1>2
<1>4. <<>> \in Seq(Nat)
  BY EmptySeq
<1>5. PICK g : Runs(Len(KeepEndings(data)), Seq(Nat), <<>>, turn, g)
  <2> HIDE DEF turn
  <2> QED BY <1>1, <1>3, <1>4, LoopRuns
<1>6. Made(g)
  <2>1. ASSUME NEW n \in 0..Len(KeepEndings(data)) PROVE g[n] = SoFar(g, n)
    <3>1. CASE n = 0
      BY <3>1, <1>5 DEF Runs
    <3>2. CASE n # 0
      <4>1. n \in 1..Len(KeepEndings(data)) /\ n - 1 \in 0..Len(KeepEndings(data))
        BY <3>2, <1>1
      <4>2. g[n] = turn[n][g[n - 1]] /\ g[n - 1] \in Seq(Nat)
        <5> HIDE DEF turn
        <5> QED BY <4>1, <1>5 DEF Runs
      <4>3. g[n] = g[n - 1] \o ReplacedChunk(KeepEndings(data)[n], q, rep)
        BY <4>1, <4>2
      <4> QED BY <3>2, <4>3
    <3> QED BY <3>1, <3>2
  <2>2. g = [n \in 0..Len(KeepEndings(data)) |-> g[n]]
    BY <1>5 DEF Runs
  <2> HIDE DEF turn, SoFar
  <2> QED BY <2>1, <2>2
<1>7. Made(k)
  <2> HIDE DEF Made
  <2> QED BY <1>6
<1>8. ReplaceBytes(data, q, rep) = k[Len(KeepEndings(data))]
  BY DEF ReplaceBytes
<1> HIDE DEF k
<1>9. k[0] = <<>> /\ \A n \in 1..Len(KeepEndings(data)) : k[n] = k[n - 1] \o ReplacedChunk(KeepEndings(data)[n], q, rep)
  <2>1. ASSUME NEW n \in 0..Len(KeepEndings(data)) PROVE k[n] = SoFar(k, n)
    <3> HIDE DEF SoFar
    <3> QED BY <1>7
  <2> HIDE DEF Made
  <2>2. k[0] = <<>>
    BY <2>1, <1>1
  <2>3. ASSUME NEW n \in 1..Len(KeepEndings(data)) PROVE k[n] = k[n - 1] \o ReplacedChunk(KeepEndings(data)[n], q, rep)
    <3>1. n \in 0..Len(KeepEndings(data)) /\ n # 0
      BY <1>1
    <3>2. k[n] = SoFar(k, n)
      BY <2>1, <3>1
    <3> QED BY <3>1, <3>2
  <2> QED BY <2>2, <2>3
<1>10. ASSUME NEW m \in 0..(Len(KeepEndings(data)) - 1), k[m] \in Seq(Nat) PROVE k[m + 1] \in Seq(Nat)
  <2>1. m + 1 \in 1..Len(KeepEndings(data)) /\ (m + 1) - 1 = m
    BY <1>1
  <2>2. k[m + 1] = k[(m + 1) - 1] \o ReplacedChunk(KeepEndings(data)[(m + 1)], q, rep)
    BY <2>1, <1>9
  <2>3. PICK n \in 1..Len(KeepEndings(data)) : n = m + 1 /\ n - 1 = m
    BY <2>1
  <2>4. k[n] = k[m] \o ReplacedChunk(KeepEndings(data)[n], q, rep)
    BY <2>2, <2>3
  <2>5. k[n] \in Seq(Nat)
    BY <2>4, <1>2, <1>10
  <2> QED BY <2>3, <2>5
<1>11. \A m \in 0..Len(KeepEndings(data)) : k[m] \in Seq(Nat)
  BY <1>1, <1>4, <1>9, <1>10, StaysIn
<1>12. k = [m \in 0..Len(KeepEndings(data)) |-> k[m]]
  BY <1>7
<1> HIDE DEF Made
<1> QED BY <1>8, <1>9, <1>11, <1>12 DEF BytesRun

\* The bytes of a file after a replacement are its text with each match replaced.
LEMMA BytesAreReplaced ==
    ASSUME NEW data \in Seq(Nat), NEW q \in SearchQuery, NEW rep \in Seq(Nat)
    PROVE  ReplaceBytes(data, q, rep) = FlattenSeq(FilePieces(data, q, rep))
<1>1. PICK cs \in Seq(Seq(Nat)) : cs = KeepEndings(data)
  BY ChunksAre
<1>2. PICK b : Chunked(cs, data, b) /\ b[Len(cs)] = Len(data)
  BY <1>1, ChunksAre
<1>3. PICK k : /\ FlatPieces(k, FilePieces(data, q, rep), Len(data)) /\ k[0] = <<>>
               /\ FlattenSeq(FilePieces(data, q, rep)) = k[Len(data)]
  BY TextAfterPieces
<1>4. PICK m \in Nat : m = Len(cs)
  BY LenProperties
<1>5. PICK o : BytesRun(o, data, q, rep)
  BY BytesRuns
<1>6. /\ o[0] = <<>> /\ ReplaceBytes(data, q, rep) = o[m]
      /\ \A n \in 1..m : o[n] = o[n - 1] \o ReplacedChunk(cs[n], q, rep)
  BY <1>1, <1>4, <1>5 DEF BytesRun
<1>7. /\ b \in [0..m -> Nat] /\ b[0] = 0
      /\ \A x \in 1..m : ChunkOf(data, b[x - 1], b[x]) /\ cs[x] = SubSeq(data, b[x - 1] + 1, b[x])
  BY <1>2, <1>4 DEF Chunked
<1> DEFINE T == {x \in 0..m : o[x] = k[b[x]]}
<1>8. 0 \in T
  BY <1>3, <1>4, <1>6, <1>7
<1>9. ASSUME NEW x \in 0..(m - 1), x \in T PROVE x + 1 \in T
  <2>1. PICK n \in 1..m : n = x + 1 /\ n - 1 = x /\ n \in 0..m /\ n - 1 \in 0..m
    BY <1>4
  <2>2. PICK lo \in Nat, hi \in Nat : lo = b[n - 1] /\ hi = b[n]
    BY <1>7, <2>1
  <2>3. ChunkOf(data, lo, hi) /\ cs[n] = SubSeq(data, lo + 1, hi)
    BY <1>7, <2>1, <2>2
  <2>4. k[hi] = k[lo] \o ReplacedChunk(SubSeq(data, lo + 1, hi), q, rep)
    <3>1. ChunkGives(k, data, q, rep, lo, hi)
      BY <1>3, <2>3, ChunkTurn
    <3> QED BY <3>1 DEF ChunkGives
  <2>5. o[n] = o[n - 1] \o ReplacedChunk(cs[n], q, rep)
    BY <1>6, <2>1
  <2>6. o[n - 1] = k[lo]
    BY <1>9, <2>1, <2>2
  <2>7. o[n] = k[b[n]]
    BY <2>2, <2>3, <2>4, <2>5, <2>6
  <2> QED BY <2>1, <2>7
<1>10. \A x \in 0..m : x \in T
  <2> HIDE DEF T
  <2> QED BY <1>4, <1>8, <1>9, UpTo
<1>11. o[m] = k[Len(data)]
  <2>1. m \in 0..m
    BY <1>4
  <2> QED BY <1>2, <1>4, <1>10, <2>1
<1> QED BY <1>3, <1>6, <1>11

(***************************************************************************)
(* The caret and the matches.                                              *)
(***************************************************************************)
CaretIn(t, l, c) == l \in 0..(Len(t) - 1) /\ c \in 0..Len(t[l + 1])
Stands(i, t, q) == i = -1 \/ (i \in Nat /\ i < Len(AllMatches(t, q)))

LEMMA SpotIs ==
    ASSUME NEW t \in SearchText, NEW q \in SearchQuery, NEW i \in 1..Len(AllMatches(t, q)), NEW p, p = AllMatches(t, q)[i]
    PROVE  /\ p = <<p[1], p[2]>> /\ p[1] \in Nat /\ p[2] \in Nat /\ p[1] < Len(t)
           /\ p[2] + Len(q) <= Len(t[p[1] + 1]) /\ CaretIn(t, p[1], p[2])
<1>1. PICK N \in Nat : N = Len(t)
  BY SearchTextIs
<1>2. p \in MatchSet(t, q, N)
  BY <1>1, AllMatchesAre DEF MatchesAbove
<1>3. /\ p = <<p[1], p[2]>> /\ p[1] \in Nat /\ p[2] \in Nat /\ p[1] < N
      /\ p[2] \in MatchesOf(t[p[1] + 1], q) /\ p[2] + Len(q) <= Len(t[p[1] + 1])
  <2>1. N \in 0..Len(t)
    BY <1>1
  <2> QED BY <1>2, <2>1, MatchSpots
<1>4. PICK l \in 1..N : l = p[1] + 1
  BY <1>1, <1>3
<1>5. PICK W \in Nat : W = Len(t[l])
  <2>1. t[l] \in Seq(Nat)
    BY <1>1, SearchTextIs DEF SearchLine
  <2> QED BY <2>1, LenProperties
<1>6. PICK n \in Nat : n = Len(q)
  BY QueryIs
<1>7. p[2] \in 0..W
  BY <1>3, <1>4, <1>5, <1>6
<1>8. p[1] \in 0..(N - 1)
  BY <1>1, <1>3
<1> QED BY <1>1, <1>3, <1>4, <1>5, <1>7, <1>8 DEF CaretIn

LEMMA MatchesTyped ==
    ASSUME NEW t \in SearchText, NEW q \in SearchQuery
    PROVE  /\ AllMatches(t, q) \in Seq(SearchSpot) /\ Len(AllMatches(t, q)) \in Nat
           /\ DOMAIN AllMatches(t, q) = 1..Len(AllMatches(t, q))
           /\ AllMatches(t, q) = <<>> <=> Len(AllMatches(t, q)) = 0
BY AllMatchesAre, LenProperties, EmptySeq

LEMMA FoundStands ==
    ASSUME NEW t \in SearchText, NEW q \in SearchQuery, NEW caret, NEW idx \in Nat \cup {-1}, NEW jump
    PROVE  Stands(FoundFrom(t, q, caret, idx, jump), t, q)
<1>1. PICK ms : ms = AllMatches(t, q)
  OBVIOUS
<1>2. PICK m \in Nat : m = Len(ms) /\ DOMAIN ms = 1..m /\ (ms = <<>> <=> m = 0)
  BY <1>1, MatchesTyped
<1>3. PICK ahead : ahead = {i \in DOMAIN ms : Later(ms[i], caret)}
  OBVIOUS
<1>4. PICK f : f = FoundFrom(t, q, caret, idx, jump)
  OBVIOUS
<1>5. f = IF ms = <<>> THEN -1 ELSE IF jump /\ idx >= 0 THEN (idx + 1) % Len(ms)
          ELSE IF ahead = {} THEN 0 ELSE Min(ahead) - 1
  BY <1>1, <1>3, <1>4 DEF FoundFrom
<1>6. f = -1 \/ (f \in Nat /\ f < m)
  <2>1. CASE ms = <<>>
    BY <1>5, <2>1
  <2>2. CASE ms # <<>> /\ jump /\ idx >= 0
    <3>1. f = (idx + 1) % m /\ m # 0 /\ idx + 1 \in Nat
      BY <1>2, <1>5, <2>2
    <3> QED BY <3>1
  <2>3. CASE ms # <<>> /\ ~(jump /\ idx >= 0) /\ ahead = {}
    <3>1. f = 0 /\ m # 0
      BY <1>2, <1>5, <2>3
    <3> QED BY <3>1
  <2>4. CASE ms # <<>> /\ ~(jump /\ idx >= 0) /\ ahead # {}
    <3>1. PICK g : g = Min(ahead)
      OBVIOUS
    <3>2. ahead \subseteq Nat
      BY <1>2, <1>3
    <3>3. g \in ahead
      BY <2>4, <3>1, <3>2, LeastIsMin
    <3>4. g \in 1..m
      BY <1>2, <1>3, <3>3
    <3>5. f = g - 1
      BY <1>5, <2>4, <3>1
    <3> QED BY <3>4, <3>5
  <2> QED BY <2>1, <2>2, <2>3, <2>4
<1> QED BY <1>1, <1>2, <1>4, <1>6 DEF Stands

StandsAt(t, q, i) ==
    /\ seText' = t /\ seQuery' = q /\ seIdx' = i /\ CaretIn(t, seLine', seCol')
    /\ i >= 0 => i < Len(AllMatches(t, q)) /\ <<seLine', seCol'>> = AllMatches(t, q)[i + 1]

LEMMA StandsThere ==
    ASSUME NEW t \in SearchText, NEW q \in SearchQuery, NEW i, Stands(i, t, q),
           NEW caret, CaretIn(t, caret[1], caret[2]), StandAt(t, q, caret, i)
    PROVE  StandsAt(t, q, i)
<1>1. /\ seText' = t /\ seQuery' = q /\ seIdx' = i
      /\ LET at == IF i < 0 THEN caret ELSE AllMatches(t, q)[i + 1] IN seLine' = at[1] /\ seCol' = at[2]
  BY DEF StandAt
<1>2. CASE i = -1
  <2>1. seLine' = caret[1] /\ seCol' = caret[2]
    BY <1>1, <1>2
  <2> QED BY <1>1, <1>2, <2>1 DEF StandsAt
<1>3. CASE i \in Nat /\ i < Len(AllMatches(t, q))
  <2>1. PICK m \in Nat : m = Len(AllMatches(t, q))
    BY MatchesTyped
  <2>2. PICK p : p = AllMatches(t, q)[i + 1]
    OBVIOUS
  <2>3. i + 1 \in 1..m
    BY <1>3, <2>1
  <2>4. p = <<p[1], p[2]>> /\ CaretIn(t, p[1], p[2])
    BY <2>1, <2>2, <2>3, SpotIs
  <2>5. ~(i < 0)
    BY <1>3
  <2>6. seLine' = p[1] /\ seCol' = p[2]
    BY <1>1, <2>2, <2>5
  <2> QED BY <1>1, <1>3, <2>2, <2>4, <2>6 DEF StandsAt
<1> QED BY <1>2, <1>3 DEF Stands

(***************************************************************************)
(* What holds in every state.                                              *)
(***************************************************************************)
ByTheSearch == {"query", "next", "prev", "replace"}
SeOnMatch ==
    seOp \in ByTheSearch /\ seIdx >= 0 =>
        /\ seQuery # <<>> /\ seIdx < Len(AllMatches(seText, seQuery))
        /\ SeCaret = AllMatches(seText, seQuery)[seIdx + 1]
SeFileAs ==
    seOp = "file" =>
        /\ seQuery # <<>> /\ seRepl \in Seq(Nat)
        /\ \E data \in Seq(Nat) : seBytes = <<data, ReplaceBytes(data, seQuery, seRepl)>>
SeInv == SeTypeOK /\ SeOnMatch /\ SeFileAs

LEMMA SeTyped ==
    ASSUME SeTypeOK
    PROVE  /\ seText \in SearchText /\ CaretIn(seText, seLine, seCol) /\ seIdx \in Nat \cup {-1}
           /\ (seQuery # <<>> => seQuery \in SearchQuery) /\ SeQueries \subseteq SearchQuery
           /\ CaretIn(seText, SeCaret[1], SeCaret[2])
<1>1. SeQueries \subseteq SearchQuery
  BY SeQueriesAssumption DEF SearchQuery
<1>2. SeCaret[1] = seLine /\ SeCaret[2] = seCol
  BY DEF SeCaret
<1> QED BY <1>1, <1>2 DEF SeTypeOK, SearchText, SearchLine, CaretIn

\* A step after which the search stands on its text.
LEMMA SearchStep ==
    ASSUME SeTypeOK, NEW q \in SeQueries, NEW t \in SearchText, NEW i, Stands(i, t, q), StandsAt(t, q, i), seOp' # "file"
    PROVE  SeInv'
<1>1. q \in SearchQuery /\ q # <<>>
  BY SeTyped DEF SearchQuery
<1>2. seText' = t /\ seQuery' = q /\ seIdx' = i /\ CaretIn(t, seLine', seCol')
  BY DEF StandsAt
<1>3. SeTypeOK'
  <2>1. i \in Nat \cup {-1}
    BY DEF Stands
  <2> QED BY <1>2, <2>1 DEF SeTypeOK, SearchText, SearchLine, CaretIn
<1>4. SeOnMatch'
  BY <1>1, <1>2 DEF SeOnMatch, StandsAt, SeCaret
<1>5. SeFileAs'
  BY DEF SeFileAs
<1> QED BY <1>3, <1>4, <1>5 DEF SeInv

\* After a search, the caret is on its match.
LEMMA FromAMatch ==
    ASSUME SeInv, seOp \in ByTheSearch, seIdx >= 0, NEW m, m = Len(AllMatches(seText, seQuery))
    PROVE  /\ seQuery \in SearchQuery /\ m \in Nat /\ seIdx \in Nat /\ seIdx < m
           /\ SeCaret = AllMatches(seText, seQuery)[seIdx + 1]
<1>1. /\ seQuery # <<>> /\ seIdx < m /\ SeCaret = AllMatches(seText, seQuery)[seIdx + 1]
  BY DEF SeInv, SeOnMatch
<1>2. seText \in SearchText /\ seQuery \in SearchQuery /\ seIdx \in Nat \cup {-1}
  BY <1>1, SeTyped DEF SeInv
<1>3. m \in Nat
  BY <1>2, MatchesTyped
<1>4. seIdx \in Nat
  BY <1>2
<1> QED BY <1>1, <1>2, <1>3, <1>4

LEMMA SearchTypesQuery ==
    ASSUME SeInv, TypeQuery
    PROVE  SeInv'
<1>1. SeTypeOK /\ seText \in SearchText /\ SeQueries \subseteq SearchQuery /\ seIdx \in Nat \cup {-1}
      /\ CaretIn(seText, SeCaret[1], SeCaret[2])
  BY SeTyped DEF SeInv
<1>2. PICK q \in SeQueries : UpdateMatches(seText, q, SeCaret, FALSE)
  BY DEF TypeQuery
<1>3. q \in SearchQuery
  BY <1>1
<1>4. PICK i : i = FoundFrom(seText, q, SeCaret, seIdx, FALSE)
  OBVIOUS
<1>5. Stands(i, seText, q)
  BY <1>1, <1>3, <1>4, FoundStands
<1>6. StandAt(seText, q, SeCaret, i)
  BY <1>2, <1>4 DEF UpdateMatches
<1>7. StandsAt(seText, q, i)
  BY <1>1, <1>3, <1>5, <1>6, StandsThere
<1>8. seOp' # "file"
  BY DEF TypeQuery, SeStep
<1> QED BY <1>1, <1>5, <1>7, <1>8, SearchStep

\* F3: the match behind the one the search stands on, the first one behind the last.
Onward(m, x) == IF x = m THEN 1 ELSE x + 1

LEMMA NextIs ==
    ASSUME SeInv, FindNext
    PROVE  /\ SeInv'
           /\ \A m : seOp \in ByTheSearch /\ seIdx >= 0 /\ m = Len(AllMatches(seText, seQuery)) =>
                  <<seLine', seCol'>> = AllMatches(seText, seQuery)[Onward(m, seIdx + 1)]
<1>1. SeTypeOK /\ seText \in SearchText /\ seIdx \in Nat \cup {-1} /\ CaretIn(seText, SeCaret[1], SeCaret[2])
  BY SeTyped DEF SeInv
<1>2. seQuery # <<>> /\ UpdateMatches(seText, seQuery, SeCaret, TRUE) /\ seOp' # "file"
  BY DEF FindNext, SeStep
<1>3. seQuery \in SearchQuery /\ seQuery \in SeQueries
  BY <1>1, <1>2, SeTyped DEF SeTypeOK
<1>4. PICK i : i = FoundFrom(seText, seQuery, SeCaret, seIdx, TRUE)
  OBVIOUS
<1>5. Stands(i, seText, seQuery)
  BY <1>1, <1>3, <1>4, FoundStands
<1>6. StandAt(seText, seQuery, SeCaret, i)
  BY <1>2, <1>4 DEF UpdateMatches
<1>7. StandsAt(seText, seQuery, i)
  BY <1>1, <1>3, <1>5, <1>6, StandsThere
<1>8. SeInv'
  BY <1>1, <1>2, <1>3, <1>5, <1>7, SearchStep
<1>9. ASSUME NEW m, seOp \in ByTheSearch, seIdx >= 0, m = Len(AllMatches(seText, seQuery))
      PROVE  <<seLine', seCol'>> = AllMatches(seText, seQuery)[Onward(m, seIdx + 1)]
  <2>1. m \in Nat /\ seIdx \in Nat /\ seIdx < m
    BY <1>9, FromAMatch
  <2>2. AllMatches(seText, seQuery) # <<>>
    BY <1>1, <1>3, <1>9, <2>1, MatchesTyped
  <2>3. i = (seIdx + 1) % m
    BY <1>4, <1>9, <2>1, <2>2 DEF FoundFrom
  <2>4. i \in Nat /\ i + 1 = Onward(m, seIdx + 1)
    <3>1. CASE seIdx + 1 = m
      <4>1. i = 0
        BY <2>1, <2>3, <3>1
      <4> QED BY <3>1, <4>1 DEF Onward
    <3>2. CASE seIdx + 1 # m
      <4>1. i = seIdx + 1
        BY <2>1, <2>3, <3>2
      <4> QED BY <2>1, <3>2, <4>1 DEF Onward
    <3> QED BY <3>1, <3>2
  <2>5. <<seLine', seCol'>> = AllMatches(seText, seQuery)[i + 1]
    BY <1>7, <2>4 DEF StandsAt
  <2> QED BY <2>4, <2>5
<1> QED BY <1>8, <1>9

\* Shift+F3: the match before it, the last one before the first.
LEMMA PrevIs ==
    ASSUME SeInv, FindPrev
    PROVE  /\ SeInv'
           /\ \A m : seOp \in ByTheSearch /\ seIdx >= 0 /\ m = Len(AllMatches(seText, seQuery)) =>
                  \E x \in 1..m : /\ <<seLine', seCol'>> = AllMatches(seText, seQuery)[x]
                                  /\ Onward(m, x) = seIdx + 1
<1>1. SeTypeOK /\ seText \in SearchText /\ seIdx \in Nat \cup {-1} /\ CaretIn(seText, SeCaret[1], SeCaret[2])
  BY SeTyped DEF SeInv
<1>2. PICK n : n = Len(AllMatches(seText, seQuery))
  OBVIOUS
<1>3. PICK i : i = IF n = 0 THEN -1 ELSE IF seIdx <= 0 THEN n - 1 ELSE seIdx - 1
  OBVIOUS
<1>4. /\ seQuery # <<>> /\ seOp' # "file" /\ (n = 0 \/ seIdx <= n)
      /\ StandAt(seText, seQuery, SeCaret, i)
  BY <1>2, <1>3 DEF FindPrev, SeStep
<1>5. seQuery \in SearchQuery /\ seQuery \in SeQueries
  BY <1>1, <1>4, SeTyped DEF SeTypeOK
<1>6. n \in Nat
  BY <1>1, <1>2, <1>5, MatchesTyped
<1>7. i = -1 \/ (i \in Nat /\ i < n)
  <2>1. CASE n = 0
    BY <1>3, <2>1
  <2>2. CASE n # 0 /\ seIdx <= 0
    <3>1. i = n - 1
      BY <1>3, <2>2
    <3> QED BY <1>6, <2>2, <3>1
  <2>3. CASE n # 0 /\ ~(seIdx <= 0)
    <3>1. i = seIdx - 1 /\ seIdx \in Nat /\ seIdx # 0 /\ seIdx <= n
      BY <1>1, <1>3, <1>4, <2>3
    <3> QED BY <1>6, <3>1
  <2> QED BY <2>1, <2>2, <2>3
<1>8. Stands(i, seText, seQuery)
  BY <1>2, <1>7 DEF Stands
<1>9. StandsAt(seText, seQuery, i)
  BY <1>1, <1>4, <1>5, <1>8, StandsThere
<1>10. SeInv'
  BY <1>1, <1>4, <1>5, <1>8, <1>9, SearchStep
<1>11. ASSUME NEW m, seOp \in ByTheSearch, seIdx >= 0, m = Len(AllMatches(seText, seQuery))
       PROVE  \E x \in 1..m : /\ <<seLine', seCol'>> = AllMatches(seText, seQuery)[x]
                              /\ Onward(m, x) = seIdx + 1
  <2>1. m \in Nat /\ seIdx \in Nat /\ seIdx < m /\ n = m
    BY <1>2, <1>11, FromAMatch
  <2>2. i \in Nat /\ i + 1 \in 1..m /\ Onward(m, i + 1) = seIdx + 1
    <3>1. CASE seIdx = 0
      <4>1. i = m - 1
        BY <1>3, <2>1, <3>1
      <4>2. i \in Nat /\ i + 1 \in 1..m /\ i + 1 = m
        BY <2>1, <4>1
      <4> QED BY <3>1, <4>2 DEF Onward
    <3>2. CASE seIdx # 0
      <4>1. i = seIdx - 1
        BY <1>3, <2>1, <3>2
      <4>2. i \in Nat /\ i + 1 \in 1..m /\ i + 1 = seIdx /\ i + 1 # m
        BY <2>1, <3>2, <4>1
      <4> QED BY <4>2 DEF Onward
    <3> QED BY <3>1, <3>2
  <2>3. <<seLine', seCol'>> = AllMatches(seText, seQuery)[i + 1]
    BY <1>9, <2>2 DEF StandsAt
  <2> QED BY <2>2, <2>3
<1> QED BY <1>10, <1>11

\* One match replaced: the line is spliced, and the search goes on behind what was put in.
LEMMA ReplaceOne ==
    ASSUME SeInv, DoReplace
    PROVE  SeInv' /\ (seOp' = "replace" =>
               /\ \A l \in DOMAIN seText : l # seLine + 1 => seText'[l] = seText[l]
               /\ Len(seText'[seLine + 1]) = Len(seText[seLine + 1]) - Len(seQuery) + Len(seRepl')
               /\ seIdx' >= 0 /\ Later(<<seLine', seCol'>>, SeCaret) =>
                      seLine' # seLine \/ seCol' >= seCol + Len(seRepl') \/ seIdx' = 0)
<1>1. SeTypeOK /\ seText \in SearchText /\ seIdx \in Nat \cup {-1} /\ CaretIn(seText, SeCaret[1], SeCaret[2])
  BY SeTyped DEF SeInv
<1>2. seQuery # <<>> /\ AllMatches(seText, seQuery) # <<>>
  BY DEF DoReplace
<1>3. seQuery \in SearchQuery /\ seQuery \in SeQueries
  BY <1>1, <1>2, SeTyped DEF SeTypeOK
<1> DEFINE Here == \E i \in DOMAIN AllMatches(seText, seQuery) : AllMatches(seText, seQuery)[i] = SeCaret
<1>4. PICK rep \in SeRepls :
        /\ seRepl' = rep
        /\ IF Here
           THEN /\ SeStep("replace")
                /\ UpdateMatches([seText EXCEPT ![seLine + 1] = Spliced(@, seCol, Len(seQuery), rep)],
                                 seQuery, BehindIt(rep), FALSE)
           ELSE SeStep("query") /\ UpdateMatches(seText, seQuery, SeCaret, FALSE)
  BY DEF DoReplace
<1>5. rep \in Seq(Nat)
  BY SeQueriesAssumption
<1>6. CASE ~Here
  <2>1. seOp' = "query" /\ UpdateMatches(seText, seQuery, SeCaret, FALSE)
    BY <1>4, <1>6 DEF SeStep
  <2>2. PICK i : i = FoundFrom(seText, seQuery, SeCaret, seIdx, FALSE)
    OBVIOUS
  <2>3. Stands(i, seText, seQuery)
    BY <1>1, <1>3, <2>2, FoundStands
  <2>4. StandAt(seText, seQuery, SeCaret, i)
    BY <2>1, <2>2 DEF UpdateMatches
  <2>5. StandsAt(seText, seQuery, i)
    BY <1>1, <1>3, <2>3, <2>4, StandsThere
  <2>6. SeInv'
    BY <1>1, <1>3, <2>1, <2>3, <2>5, SearchStep
  <2> QED BY <2>1, <2>6
<1>7. CASE Here
  <2>1. PICK t : t = [seText EXCEPT ![seLine + 1] = Spliced(@, seCol, Len(seQuery), rep)]
    OBVIOUS
  <2>2. seOp' = "replace" /\ UpdateMatches(t, seQuery, BehindIt(rep), FALSE)
    BY <1>4, <1>7, <2>1 DEF SeStep
  <2>3. PICK N \in Nat : N = Len(seText) /\ N # 0 /\ DOMAIN seText = 1..N /\ \A l \in 1..N : seText[l] \in Seq(Nat)
    BY <1>1, SearchTextIs DEF SearchLine
  <2>4. seLine \in 0..(N - 1) /\ seCol \in Nat
    BY <1>1, <2>3 DEF SeTypeOK
  <2>5. PICK L \in 1..N : L = seLine + 1
    BY <2>4
  <2>6. PICK w \in Seq(Nat) : w = seText[L]
    BY <2>3
  <2>7. PICK n \in Nat : n = Len(seQuery)
    BY <1>3, QueryIs
  <2>8. seCol + n <= Len(w)
    <3>1. PICK i \in 1..Len(AllMatches(seText, seQuery)) : AllMatches(seText, seQuery)[i] = SeCaret
      BY <1>1, <1>3, <1>7, MatchesTyped
    <3>2. SeCaret[2] + Len(seQuery) <= Len(seText[SeCaret[1] + 1])
      BY <1>1, <1>3, <3>1, SpotIs
    <3>3. SeCaret[1] = seLine /\ SeCaret[2] = seCol
      BY DEF SeCaret
    <3> QED BY <2>5, <2>6, <2>7, <3>2, <3>3
  <2>9. PICK s : s = Spliced(w, seCol, n, rep)
    OBVIOUS
  <2>10. s \in Seq(Nat) /\ Len(s) = Len(w) - n + Len(rep)
    BY <1>5, <2>4, <2>8, <2>9, SplicedIs
  <2>11. t = [seText EXCEPT ![L] = s]
    BY <2>1, <2>5, <2>6, <2>7, <2>9
  <2>12. t \in SearchText /\ Len(t) = N /\ t[L] = s /\ \A l \in 1..N : l # L => t[l] = seText[l]
    <3>1. seText \in Seq(Seq(Nat))
      BY <1>1, SearchTextIs DEF SearchLine
    <3>2. t \in Seq(Seq(Nat)) /\ Len(t) = N
      BY <2>3, <2>10, <2>11, <3>1, ExceptSeq
    <3>3. t # <<>>
      BY <2>3, <3>2, EmptySeq
    <3>4. t[L] = s /\ \A l \in 1..N : l # L => t[l] = seText[l]
      BY <2>3, <2>11
    <3> QED BY <3>2, <3>3, <3>4 DEF SearchText, SearchLine
  <2>13. PICK r \in Nat : r = Len(rep)
    BY <1>5, LenProperties
  <2>14. PICK b : b = <<seLine, seCol + r>>
    OBVIOUS
  <2>15. BehindIt(rep) = b /\ b[1] = seLine /\ b[2] = seCol + r
    BY <2>13, <2>14 DEF BehindIt
  <2>16. CaretIn(t, b[1], b[2])
    <3>1. PICK W \in Nat : W = Len(w)
      BY LenProperties
    <3>2. Len(s) = W - n + r /\ seCol + n <= W
      BY <2>8, <2>10, <2>13, <3>1
    <3>3. seCol + r \in 0..Len(s)
      BY <2>4, <3>2
    <3> QED BY <2>4, <2>5, <2>12, <2>15, <3>3 DEF CaretIn
  <2>17. PICK i : i = FoundFrom(t, seQuery, b, seIdx, FALSE)
    OBVIOUS
  <2>18. Stands(i, t, seQuery)
    BY <1>1, <1>3, <2>12, <2>17, FoundStands
  <2>19. StandAt(t, seQuery, b, i)
    BY <2>2, <2>15, <2>17 DEF UpdateMatches
  <2>20. StandsAt(t, seQuery, i)
    BY <1>3, <2>12, <2>16, <2>18, <2>19, StandsThere
  <2>21. SeInv'
    BY <1>1, <1>3, <2>2, <2>12, <2>18, <2>20, SearchStep
  <2>22. seText' = t /\ seIdx' = i /\ seRepl' = rep
    BY <1>4, <2>20 DEF StandsAt
  <2>23. \A l \in DOMAIN seText : l # seLine + 1 => seText'[l] = seText[l]
    BY <2>3, <2>5, <2>12, <2>22
  <2>24. Len(seText'[seLine + 1]) = Len(seText[seLine + 1]) - Len(seQuery) + Len(seRepl')
    BY <2>5, <2>6, <2>7, <2>10, <2>12, <2>22
  <2>25. ASSUME seIdx' >= 0
         PROVE  seLine' # seLine \/ seCol' >= seCol + Len(seRepl') \/ seIdx' = 0
    <3>1. PICK ms : ms = AllMatches(t, seQuery)
      OBVIOUS
    <3>2. PICK ahead : ahead = {j \in DOMAIN ms : Later(ms[j], b)}
      OBVIOUS
    <3>3. i >= 0 /\ <<seLine', seCol'>> = ms[i + 1]
      BY <2>20, <2>22, <2>25, <3>1 DEF StandsAt
    <3>4. i = IF ms = <<>> THEN -1 ELSE IF ahead = {} THEN 0 ELSE Min(ahead) - 1
      BY <2>17, <3>1, <3>2 DEF FoundFrom
    <3>5. CASE ms = <<>>
      BY <3>3, <3>4, <3>5
    <3>6. CASE ms # <<>> /\ ahead = {}
      BY <2>22, <3>4, <3>6
    <3>7. CASE ms # <<>> /\ ahead # {}
      <4>1. PICK g : g = Min(ahead)
        OBVIOUS
      <4>2. ahead \subseteq Nat
        BY <1>3, <2>12, <3>1, <3>2, MatchesTyped
      <4>3. g \in ahead
        BY <3>7, <4>1, <4>2, LeastIsMin
      <4>4. g \in Nat /\ Later(ms[g], b)
        BY <3>2, <4>2, <4>3
      <4>5. i + 1 = g
        BY <3>4, <3>7, <4>1, <4>4
      <4>6. ms[g][1] = seLine' /\ ms[g][2] = seCol'
        BY <3>3, <4>5
      <4>7. seLine' > seLine \/ (seLine' = seLine /\ seCol' >= seCol + r)
        BY <2>15, <4>4, <4>6 DEF Later
      <4>8. seLine' > seLine => seLine' # seLine
        BY <2>4
      <4> QED BY <2>13, <2>22, <4>7, <4>8
    <3> QED BY <3>5, <3>6, <3>7
  <2> QED BY <2>21, <2>23, <2>24, <2>25
<1> QED BY <1>6, <1>7

LEMMA ReplaceEvery ==
    ASSUME SeInv, DoReplaceAll
    PROVE  SeInv'
<1>1. SeTypeOK /\ seText \in SearchText /\ CaretIn(seText, seLine, seCol)
  BY SeTyped DEF SeInv
<1>2. seQuery # <<>> /\ seOp' = "all" /\ UNCHANGED <<seLine, seQuery, seIdx>>
  BY DEF DoReplaceAll, SeStep
<1>3. seQuery \in SearchQuery
  BY <1>1, <1>2, SeTyped
<1> DEFINE Exact(ln, rep) == SplicedAt(ln, MatchLiteral(ln, seQuery, FALSE), Len(seQuery), rep)
<1>4. PICK rep \in SeRepls : /\ seText' = [l \in DOMAIN seText |-> Exact(seText[l], rep)]
                             /\ seCol' = Min({seCol, Len(seText'[seLine + 1])})
  BY DEF DoReplaceAll
<1>5. rep \in Seq(Nat)
  BY SeQueriesAssumption
<1>6. PICK N \in Nat : N = Len(seText) /\ N # 0 /\ DOMAIN seText = 1..N /\ \A l \in 1..N : seText[l] \in SearchLine
  BY <1>1, SearchTextIs
<1>7. ASSUME NEW ln \in SearchLine PROVE Exact(ln, rep) \in Seq(Nat)
  <2>1. PICK h : h = MatchLiteral(ln, seQuery, FALSE)
    OBVIOUS
  <2>2. FitIn(ln, h, Len(seQuery))
    BY <1>3, <2>1, LiteralFits DEF FitIn
  <2>3. Len(seQuery) \in Nat \ {0}
    BY <1>3, QueryIs
  <2>4. SplicedAt(ln, h, Len(seQuery), rep) \in Seq(Nat)
    BY <1>5, <2>2, <2>3, SplicedAtIs DEF SearchLine
  <2> QED BY <2>1, <2>4
<1> HIDE DEF Exact
<1>8. PICK t : t = [l \in 1..N |-> Exact(seText[l], rep)]
  OBVIOUS
<1>9. t \in Seq(Seq(Nat)) /\ Len(t) = N /\ seText' = t
  <2>1. t \in [1..N -> Seq(Nat)]
    BY <1>6, <1>7, <1>8
  <2>2. t \in Seq(Seq(Nat)) /\ Len(t) = N
    BY <2>1, IsASeq
  <2> QED BY <1>4, <1>6, <1>8, <2>2
<1>10. t # <<>>
  BY <1>6, <1>9, EmptySeq
<1>11. seLine \in 0..(N - 1) /\ seCol \in Nat
  BY <1>1, <1>6 DEF SeTypeOK
<1>12. PICK W \in Nat : W = Len(t[seLine + 1])
  <2>1. seLine + 1 \in 1..N
    BY <1>11
  <2>2. t[seLine + 1] \in Seq(Nat)
    BY <1>9, <2>1, ElementOfSeq
  <2> QED BY <2>2, LenProperties
<1>13. seCol' \in 0..W
  <2>1. PICK S : S = {seCol, W}
    OBVIOUS
  <2>2. seCol' = Min(S)
    BY <1>4, <1>9, <1>12, <2>1
  <2>3. S \subseteq Nat /\ S # {}
    BY <1>11, <2>1
  <2>4. Min(S) \in S /\ \A y \in S : Min(S) <= y
    BY <2>3, LeastIsMin
  <2>5. PICK c : c = Min(S)
    OBVIOUS
  <2>6. c \in Nat /\ c <= W
    BY <2>1, <2>3, <2>4, <2>5
  <2> QED BY <2>2, <2>5, <2>6
<1>14. SeTypeOK'
  BY <1>1, <1>2, <1>9, <1>10, <1>11, <1>12, <1>13 DEF SeTypeOK
<1>15. SeOnMatch' /\ SeFileAs'
  BY <1>2 DEF SeOnMatch, SeFileAs, ByTheSearch
<1> QED BY <1>14, <1>15 DEF SeInv

LEMMA SeInvHolds == SeSpec => []SeInv
<1>1. SeInit => SeInv
  <2> SUFFICES ASSUME SeInit PROVE SeInv
    OBVIOUS
  <2>1. seText \in Seq(Seq(Nat)) \ {<<>>} /\ seLine = 0 /\ seCol = 0 /\ seQuery = <<>> /\ seIdx = -1 /\ seOp = "open"
    BY SeTextsAssumption DEF SeInit
  <2>2. SeTypeOK
    <3>1. Len(seText) \in Nat \ {0} /\ seText[0 + 1] \in Seq(Nat)
      BY <2>1, LenProperties, EmptySeq, ElementOfSeq
    <3>2. Len(seText[0 + 1]) \in Nat
      BY <3>1, LenProperties
    <3>3. 0 \in 0..(Len(seText) - 1) /\ 0 \in 0..Len(seText[0 + 1])
      BY <3>1, <3>2
    <3> QED BY <2>1, <3>3 DEF SeTypeOK
  <2> QED BY <2>1, <2>2 DEF SeInv, SeOnMatch, SeFileAs
<1>2. SeInv /\ [SeNext]_seVars => SeInv'
  <2> SUFFICES ASSUME SeInv, [SeNext]_seVars PROVE SeInv'
    OBVIOUS
  <2>1. CASE TypeQuery
    BY <2>1, SearchTypesQuery
  <2>2. CASE FindNext
    BY <2>2, NextIs
  <2>3. CASE FindPrev
    BY <2>3, PrevIs
  <2>4. CASE MoveAway
    <3>1. seOp' = "click" /\ UNCHANGED <<seText, seQuery, seIdx>>
      BY <2>4 DEF MoveAway, SeStep
    <3>2. PICK l \in DOMAIN seText, c \in Nat : c \in 0..Len(seText[l]) /\ seLine' = l - 1 /\ seCol' = c
      BY <2>4 DEF MoveAway
    <3>3. SeTypeOK /\ seText \in SearchText
      BY SeTyped DEF SeInv
    <3>4. l \in 1..Len(seText) /\ Len(seText) \in Nat
      BY <3>2, <3>3, SearchTextIs
    <3>5. l - 1 \in 0..(Len(seText) - 1) /\ (l - 1) + 1 = l
      BY <3>4
    <3>6. SeTypeOK'
      BY <3>1, <3>2, <3>3, <3>5 DEF SeTypeOK
    <3> QED BY <3>1, <3>6 DEF SeInv, SeOnMatch, SeFileAs, ByTheSearch
  <2>5. CASE DoReplace
    BY <2>5, ReplaceOne
  <2>6. CASE DoReplaceAll
    BY <2>6, ReplaceEvery
  <2>7. CASE ReplaceFile
    <3>1. seOp' = "file" /\ seQuery # <<>> /\ UNCHANGED <<seText, seLine, seCol, seQuery, seIdx>>
      BY <2>7 DEF ReplaceFile, SeStep
    <3>2. PICK data \in SeFiles, rep \in SeRepls : seRepl' = rep /\ seBytes' = <<data, ReplaceBytes(data, seQuery, rep)>>
      BY <2>7 DEF ReplaceFile
    <3>3. data \in Seq(Nat) /\ rep \in Seq(Nat)
      BY SeFilesAssumption, SeQueriesAssumption
    <3>4. SeFileAs'
      BY <3>1, <3>2, <3>3 DEF SeFileAs
    <3>5. SeTypeOK'
      BY <3>1 DEF SeInv, SeTypeOK
    <3>6. SeOnMatch'
      BY <3>1 DEF SeOnMatch, ByTheSearch
    <3> QED BY <3>4, <3>5, <3>6 DEF SeInv
  <2>8. CASE SearchReopen
    <3>1. seText' \in Seq(Seq(Nat)) \ {<<>>} /\ seLine' = 0 /\ seCol' = 0 /\ seQuery' = <<>> /\ seIdx' = -1 /\ seOp' = "open"
      BY <2>8, SeTextsAssumption DEF SearchReopen
    <3>2. PICK t \in Seq(Seq(Nat)) \ {<<>>} : t = seText'
      BY <3>1
    <3>3. Len(t) \in Nat \ {0} /\ t[0 + 1] \in Seq(Nat)
      BY LenProperties, EmptySeq, ElementOfSeq
    <3>4. Len(t[0 + 1]) \in Nat
      BY <3>3, LenProperties
    <3>5. 0 \in 0..(Len(t) - 1) /\ 0 \in 0..Len(t[0 + 1])
      BY <3>3, <3>4
    <3>6. SeTypeOK'
      BY <3>1, <3>2, <3>5 DEF SeTypeOK
    <3> QED BY <3>1, <3>6 DEF SeInv, SeOnMatch, SeFileAs, ByTheSearch
  <2>9. CASE UNCHANGED seVars
    BY <2>9 DEF SeInv, SeTypeOK, SeOnMatch, SeFileAs, SeCaret, seVars
  <2> QED BY <2>1, <2>2, <2>3, <2>4, <2>5, <2>6, <2>7, <2>8, <2>9 DEF SeNext
<1> QED BY <1>1, <1>2, PTL DEF SeSpec

\* From a match to the one after it, around the end of the text.
Follows(t, q, from, to) ==
    \E x \in 1..Len(AllMatches(t, q)) :
        from = AllMatches(t, q)[x] /\ to = AllMatches(t, q)[Onward(Len(AllMatches(t, q)), x)]
IsNext(t, q, from, to) ==
    LET all  == UNION {{<<l - 1, c>> : c \in MatchesOf(t[l], q)} : l \in DOMAIN t}
        past == {p \in all : p # from /\ Later(p, from)}
        next == IF past = {} THEN all ELSE past
    IN from \in all /\ to \in next /\ \A p \in next : Later(p, to)

LEMMA OnwardIsNext ==
    ASSUME NEW t \in SearchText, NEW q \in SearchQuery, NEW from, NEW to, Follows(t, q, from, to)
    PROVE  IsNext(t, q, from, to)
<1>0. PICK m : m = Len(AllMatches(t, q))
  OBVIOUS
<1>15. PICK x \in 1..m : from = AllMatches(t, q)[x] /\ to = AllMatches(t, q)[Onward(m, x)]
  BY <1>0 DEF Follows
<1>1. PICK ms : ms = AllMatches(t, q)
  OBVIOUS
<1>2. PICK M \in Nat : M = m /\ M = Len(ms)
  BY <1>0, <1>1, MatchesTyped
<1>3. PICK all : all = UNION {{<<l - 1, c>> : c \in MatchesOf(t[l], q)} : l \in DOMAIN t}
  OBVIOUS
<1>4. all = {ms[i] : i \in 1..M} /\ InOrder(ms)
  <2>1. DOMAIN t = 1..Len(t)
    BY SearchTextIs
  <2>2. all = MatchSet(t, q, Len(t))
    BY <1>3, <2>1 DEF MatchSet
  <2> QED BY <1>1, <1>2, <2>2, AllMatchesAre DEF MatchesAbove
<1>5. ASSUME NEW i \in 1..M PROVE ms[i][1] \in Nat /\ ms[i][2] \in Nat /\ ms[i] = <<ms[i][1], ms[i][2]>>
  BY <1>1, <1>2, SpotIs
<1>6. ASSUME NEW i \in 1..M, NEW j \in 1..M, i < j PROVE Later(ms[j], ms[i]) /\ ms[j] # ms[i] /\ ~Later(ms[i], ms[j])
  <2>1. Precedes(ms[i], ms[j])
    BY <1>2, <1>4, <1>6 DEF InOrder
  <2>2. PICK a \in Nat, b \in Nat : a = ms[i][1] /\ b = ms[i][2]
    BY <1>5
  <2>3. PICK c \in Nat, d \in Nat : c = ms[j][1] /\ d = ms[j][2]
    BY <1>5
  <2>4. a < c \/ (a = c /\ b < d)
    BY <2>1, <2>2, <2>3 DEF Precedes
  <2>5. (c > a \/ (c = a /\ d >= b)) /\ ~(a > c \/ (a = c /\ b >= d)) /\ (a # c \/ b # d)
    BY <2>4
  <2> QED BY <2>2, <2>3, <2>5 DEF Later
<1>7. ASSUME NEW i \in 1..M PROVE Later(ms[i], ms[i])
  BY <1>5 DEF Later
<1>8. PICK past : past = {p \in all : p # from /\ Later(p, from)}
  OBVIOUS
<1>9. from = ms[x] /\ x \in 1..M
  BY <1>1, <1>2, <1>15
<1>10. ASSUME NEW j \in 1..M PROVE ms[j] \in past <=> x < j
  <2>1. ms[j] \in all
    BY <1>4
  <2>2. CASE x < j
    BY <1>6, <1>8, <1>9, <2>1, <2>2
  <2>3. CASE x = j
    BY <1>8, <1>9, <2>3
  <2>4. CASE j < x
    <3>1. ~Later(ms[j], ms[x])
      BY <1>6, <1>9, <2>4
    <3> QED BY <1>8, <1>9, <2>4, <3>1
  <2> QED BY <1>9, <2>2, <2>3, <2>4
<1>11. \A p \in past : \E j \in 1..M : p = ms[j] /\ x < j
  BY <1>4, <1>8, <1>10
<1>12. from \in all
  BY <1>4, <1>9
<1>13. CASE x = M
  <2>1. past = {}
    <3>1. ASSUME NEW p \in past PROVE FALSE
      <4>1. PICK j \in 1..M : p = ms[j] /\ x < j
        BY <1>11
      <4> QED BY <1>13, <4>1
    <3> QED BY <3>1
  <2>2. 1 \in 1..M /\ to = ms[1]
    <3>1. Onward(m, x) = 1 /\ 1 \in 1..M
      BY <1>2, <1>9, <1>13 DEF Onward
    <3> QED BY <1>1, <1>15, <3>1
  <2>3. ASSUME NEW p \in all PROVE Later(p, to)
    <3>1. PICK j \in 1..M : p = ms[j]
      BY <1>4
    <3>2. j = 1 \/ 1 < j
      OBVIOUS
    <3> QED BY <1>6, <1>7, <2>2, <3>1, <3>2
  <2>4. to \in all
    BY <1>4, <2>2
  <2> QED BY <1>3, <1>8, <1>12, <2>1, <2>3, <2>4 DEF IsNext
<1>14. CASE x # M
  <2>1. PICK y \in 1..M : y = x + 1 /\ x < y
    BY <1>9, <1>14
  <2>2. to = ms[y]
    <3>1. Onward(m, x) = y
      BY <1>2, <1>14, <2>1 DEF Onward
    <3> QED BY <1>1, <1>15, <3>1
  <2>3. to \in past
    BY <1>10, <2>1, <2>2
  <2>4. ASSUME NEW p \in past PROVE Later(p, to)
    <3>1. PICK j \in 1..M : p = ms[j] /\ x < j
      BY <1>11
    <3>2. j = y \/ y < j
      BY <1>9, <2>1, <3>1
    <3> QED BY <1>6, <1>7, <2>2, <3>1, <3>2
  <2> QED BY <1>3, <1>8, <1>12, <2>3, <2>4 DEF IsNext
<1> QED BY <1>13, <1>14

LEMMA WalksOn ==
    ASSUME SeInv, [SeNext]_seVars, seOp' \in {"next", "prev"}, seOp \in ByTheSearch, seIdx >= 0, ~UNCHANGED seVars
    PROVE  LET all  == UNION {{<<l - 1, c>> : c \in MatchesOf(seText[l], seQuery)} : l \in DOMAIN seText}
               from == IF seOp' = "next" THEN SeCaret ELSE <<seLine', seCol'>>
               to   == IF seOp' = "next" THEN <<seLine', seCol'>> ELSE SeCaret
               past == {p \in all : p # from /\ Later(p, from)}
               next == IF past = {} THEN all ELSE past
           IN from \in all /\ to \in next /\ \A p \in next : Later(p, to)
<1>1. PICK m : m = Len(AllMatches(seText, seQuery))
  OBVIOUS
<1>2. /\ seQuery \in SearchQuery /\ m \in Nat /\ seIdx \in Nat /\ seIdx < m
      /\ SeCaret = AllMatches(seText, seQuery)[seIdx + 1]
  BY <1>1, FromAMatch
<1>3. seText \in SearchText
  BY SeTyped DEF SeInv
<1>4. seIdx + 1 \in 1..m
  BY <1>2
<1>5. (FindNext /\ seOp' = "next") \/ (FindPrev /\ seOp' = "prev")
  <2>1. CASE TypeQuery
    BY <2>1 DEF TypeQuery, SeStep
  <2>2. CASE FindNext
    BY <2>2 DEF FindNext, SeStep
  <2>3. CASE FindPrev
    BY <2>3 DEF FindPrev, SeStep
  <2>4. CASE MoveAway
    BY <2>4 DEF MoveAway, SeStep
  <2>5. CASE DoReplace
    <3>1. seOp' = "replace" \/ seOp' = "query"
      BY <2>5 DEF DoReplace, SeStep
    <3> QED BY <3>1
  <2>6. CASE DoReplaceAll
    BY <2>6 DEF DoReplaceAll, SeStep
  <2>7. CASE ReplaceFile
    BY <2>7 DEF ReplaceFile, SeStep
  <2>8. CASE SearchReopen
    BY <2>8 DEF SearchReopen
  <2> QED BY <2>1, <2>2, <2>3, <2>4, <2>5, <2>6, <2>7, <2>8 DEF SeNext
<1>6. CASE FindNext /\ seOp' = "next"
  <2>1. <<seLine', seCol'>> = AllMatches(seText, seQuery)[Onward(m, seIdx + 1)]
    BY <1>1, <1>6, NextIs
  <2>2. Follows(seText, seQuery, SeCaret, <<seLine', seCol'>>)
    BY <1>1, <1>2, <1>4, <2>1 DEF Follows
  <2>3. IsNext(seText, seQuery, SeCaret, <<seLine', seCol'>>)
    BY <1>2, <1>3, <2>2, OnwardIsNext
  <2> QED BY <1>6, <2>3 DEF IsNext
<1>7. CASE FindPrev /\ seOp' = "prev"
  <2>1. PICK x \in 1..m : <<seLine', seCol'>> = AllMatches(seText, seQuery)[x] /\ Onward(m, x) = seIdx + 1
    BY <1>1, <1>7, PrevIs
  <2>2. SeCaret = AllMatches(seText, seQuery)[Onward(m, x)]
    BY <1>2, <2>1
  <2>3. PICK back : back = <<seLine', seCol'>>
    OBVIOUS
  <2>4. back = AllMatches(seText, seQuery)[x]
    BY <2>1, <2>3
  <2>5. Follows(seText, seQuery, back, SeCaret)
    BY <1>1, <2>2, <2>4 DEF Follows
  <2>6. IsNext(seText, seQuery, back, SeCaret)
    BY <1>2, <1>3, <2>5, OnwardIsNext
  <2>7. seOp' # "next"
    BY <1>7
  <2> QED BY <2>3, <2>6, <2>7 DEF IsNext
<1> QED BY <1>5, <1>6, <1>7

\* Searching walks every match in the order of the text and back, replacing one
\* match changes nothing else and goes on behind it, and a file replaced is its old
\* text with each match replaced; the caret is always a place of the text.
THEOREM SearchCorrect == SeSpec => []SeTypeOK /\ SearchIsSound
<1>1. SeInv /\ [SeNext]_seVars =>
        [(seOp' \in {"next", "prev"} /\ seOp \in {"query", "next", "prev", "replace"} /\ seIdx >= 0) =>
          LET all  == UNION {{<<l - 1, c>> : c \in MatchesOf(seText[l], seQuery)} : l \in DOMAIN seText}
              from == IF seOp' = "next" THEN SeCaret ELSE <<seLine', seCol'>>
              to   == IF seOp' = "next" THEN <<seLine', seCol'>> ELSE SeCaret
              past == {p \in all : p # from /\ Later(p, from)}
              next == IF past = {} THEN all ELSE past
          IN from \in all /\ to \in next /\ \A p \in next : Later(p, to)]_seVars
  BY WalksOn DEF ByTheSearch
<1>2. SeInv /\ [SeNext]_seVars =>
        [seOp' = "replace" /\ seSteps' # seSteps =>
          /\ \A l \in DOMAIN seText : l # seLine + 1 => seText'[l] = seText[l]
          /\ Len(seText'[seLine + 1]) = Len(seText[seLine + 1]) - Len(seQuery) + Len(seRepl')
          /\ seIdx' >= 0 /\ Later(<<seLine', seCol'>>, SeCaret) =>
                 seLine' # seLine \/ seCol' >= seCol + Len(seRepl') \/ seIdx' = 0]_seVars
  <2> SUFFICES ASSUME SeInv, SeNext, seOp' = "replace"
               PROVE  /\ \A l \in DOMAIN seText : l # seLine + 1 => seText'[l] = seText[l]
                      /\ Len(seText'[seLine + 1]) = Len(seText[seLine + 1]) - Len(seQuery) + Len(seRepl')
                      /\ seIdx' >= 0 /\ Later(<<seLine', seCol'>>, SeCaret) =>
                             seLine' # seLine \/ seCol' >= seCol + Len(seRepl') \/ seIdx' = 0
    OBVIOUS
  <2>1. DoReplace
    BY DEF SeNext, TypeQuery, FindNext, FindPrev, MoveAway, DoReplace, DoReplaceAll, ReplaceFile, SearchReopen, SeStep
  <2> QED BY <2>1, ReplaceOne
<1>3. SeInv => (seOp = "file" => FileIsItsMatchesReplaced)
  <2> SUFFICES ASSUME SeInv, seOp = "file" PROVE FileIsItsMatchesReplaced
    OBVIOUS
  <2>1. seQuery \in SearchQuery /\ seRepl \in Seq(Nat)
    BY SeTyped DEF SeInv, SeFileAs
  <2>2. PICK data \in Seq(Nat) : seBytes = <<data, ReplaceBytes(data, seQuery, seRepl)>>
    BY DEF SeInv, SeFileAs
  <2>3. seBytes[1] = data /\ seBytes[2] = FlattenSeq(FilePieces(data, seQuery, seRepl))
    BY <2>1, <2>2, BytesAreReplaced
  <2> QED BY <2>3 DEF FileIsItsMatchesReplaced, FilePieces, FileCovered, FileStarts, FileLine, FileStop, FileEnd, FileStart
<1>4. SeSpec => FindWalksTheText
  BY <1>1, SeInvHolds, PTL DEF FindWalksTheText, SeSpec
<1>5. SeSpec => ReplaceMovesOn
  BY <1>2, SeInvHolds, PTL DEF ReplaceMovesOn, SeSpec
<1>6. SeSpec => [](seOp = "file" => FileIsItsMatchesReplaced)
  BY <1>3, SeInvHolds, PTL
<1>7. SeInv => SeTypeOK
  BY DEF SeInv
<1>8. SeSpec => []SeTypeOK
  BY <1>7, SeInvHolds, PTL
<1> QED BY <1>4, <1>5, <1>6, <1>8 DEF SearchIsSound
=============================================================================
