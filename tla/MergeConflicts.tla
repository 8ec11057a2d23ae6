---------------------------- MODULE MergeConflicts ----------------------------
(***************************************************************************)
(* Git's conflict markers, resolved in the buffer                          *)
(* (editor/mergeconflict.go).  A line is one of the four markers or text;  *)
(* lines count from 0, a text is a sequence of them.                       *)
(***************************************************************************)
EXTENDS Integers, FiniteSetsExt, SequencesExt

CONSTANTS
    McfLines,  \* the lines of text that are no marker
    McfTexts   \* the texts a file is opened with

\* A marker is a line that starts with seven of its character.
Ours   == "<"
Base   == "|"
Sep    == "="
Theirs == ">"
NoMark == -1

ASSUME McfTextsAssumption ==
    \A t \in McfTexts : t \in Seq(McfLines \cup {"", Ours, Base, Sep, Theirs}) /\ t # <<>>

VARIABLES
    mcfText, mcfLine,  \* the buffer and the line of its caret
    mcfOp,             \* the last operation, for the properties
    mcfWas             \* the text and the caret before it

mcfVars == <<mcfText, mcfLine, mcfOp, mcfWas>>

McfInit == mcfText = <<"">> /\ mcfLine = 0 /\ mcfOp = "closed" /\ mcfWas = <<<<"">>, 0>>

McfAt(text, l) == text[l + 1]
-----------------------------------------------------------------------------
(* scanConflicts: one pass over the lines.                                 *)

Unmarked(l) == [start |-> l, base |-> NoMark, sep |-> NoMark, end |-> NoMark]
Unscanned   == [blocks |-> <<>>, broken |-> {}, open |-> FALSE, cur |-> Unmarked(0)]
Scanned(acc) == [blocks |-> acc.blocks,
                 broken |-> acc.broken \cup IF acc.open THEN {acc.cur.start} ELSE {}]

ScanLine(acc, l, line) ==
    CASE line = Ours ->
           [acc EXCEPT !.broken = IF acc.open THEN @ \cup {acc.cur.start} ELSE @,
                       !.cur = Unmarked(l), !.open = TRUE]
      [] acc.open /\ line = Base /\ acc.cur.base = NoMark /\ acc.cur.sep = NoMark ->
           [acc EXCEPT !.cur.base = l]
      [] acc.open /\ line = Sep /\ acc.cur.sep = NoMark -> [acc EXCEPT !.cur.sep = l]
      [] acc.open /\ line = Theirs /\ acc.cur.sep # NoMark ->
           [acc EXCEPT !.blocks = Append(@, [acc.cur EXCEPT !.end = l]), !.open = FALSE]
      [] OTHER -> acc

\* A later separator taken for the one of the block.
ScanLineOfTheLastSep(acc, l, line) ==
    CASE line = Ours ->
           [acc EXCEPT !.broken = IF acc.open THEN @ \cup {acc.cur.start} ELSE @,
                       !.cur = Unmarked(l), !.open = TRUE]
      [] acc.open /\ line = Base /\ acc.cur.base = NoMark -> [acc EXCEPT !.cur.base = l]
      [] acc.open /\ line = Sep -> [acc EXCEPT !.cur.sep = l]
      [] acc.open /\ line = Theirs /\ acc.cur.sep # NoMark ->
           [acc EXCEPT !.blocks = Append(@, [acc.cur EXCEPT !.end = l]), !.open = FALSE]
      [] OTHER -> acc

ScanConflictsOfTheLastSep(text) ==
    LET pass[n \in 0..Len(text)] ==
            IF n = 0 THEN Unscanned ELSE ScanLineOfTheLastSep(pass[n - 1], n - 1, McfAt(text, n - 1))
    IN Scanned(pass[Len(text)])

ScanConflicts(text) ==
    LET pass[n \in 0..Len(text)] ==
            IF n = 0 THEN Unscanned ELSE ScanLine(pass[n - 1], n - 1, McfAt(text, n - 1))
    IN Scanned(pass[Len(text)])

Blocks(text) == ScanConflicts(text).blocks
-----------------------------------------------------------------------------
(* The sides of a block and the block's replacement.                       *)

Section(text, from, to) == SubSeq(text, from + 2, to)  \* the lines between two markers

SideWithBase(text, b, k) ==
    LET ours   == Section(text, b.start, b.sep)
        theirs == Section(text, b.sep, b.end)
    IN CASE k = "ours" -> ours [] k = "theirs" -> theirs [] k = "both" -> ours \o theirs

\* conflictBlock.side: the base section is part of none.
Side(text, b, k) ==
    LET ours   == Section(text, b.start, IF b.base # NoMark THEN b.base ELSE b.sep)
        theirs == Section(text, b.sep, b.end)
    IN CASE k = "ours" -> ours [] k = "theirs" -> theirs [] k = "both" -> ours \o theirs

ApplyConflictWithBlank(text, b, body) ==
    LET before == SubSeq(text, 1, b.start)
        after  == SubSeq(text, b.end + 2, Len(text))
        ins    == IF body = <<>> THEN <<"">> ELSE body
    IN [text |-> before \o ins \o after, line |-> b.start + Len(ins) - 1]

\* The caret behind what was put in.
ApplyConflictBehind(text, b, body) ==
    LET before == SubSeq(text, 1, b.start)
        after  == SubSeq(text, b.end + 2, Len(text))
    IN IF body = <<>> /\ b.end < Len(text) - 1
       THEN [text |-> before \o after, line |-> b.start]
       ELSE LET ins == IF body = <<>> THEN <<"">> ELSE body
            IN [text |-> before \o ins \o after, line |-> b.start + Len(ins)]

\* applyConflict over buffer.ReplaceSpan, which inserts at least one line: an
\* empty side reaches into column 0 of the line after the block.
ApplyConflict(text, b, body) ==
    LET before == SubSeq(text, 1, b.start)
        after  == SubSeq(text, b.end + 2, Len(text))
    IN IF body = <<>> /\ b.end < Len(text) - 1
       THEN [text |-> before \o after, line |-> b.start]
       ELSE LET ins == IF body = <<>> THEN <<"">> ELSE body
            IN [text |-> before \o ins \o after, line |-> b.start + Len(ins) - 1]

-----------------------------------------------------------------------------
(* The keys.                                                               *)

\* conflictAt, the first of these blocks.
ConflictAt(bs, l) == {i \in DOMAIN bs : bs[i].start <= l /\ l <= bs[i].end}

ConflictAfterOrHere(bs, l) ==
    LET ahead == {i \in DOMAIN bs : bs[i].start >= l}
    IN bs[IF ahead # {} THEN Min(ahead) ELSE 1]

\* conflictAfter, conflictBefore: the next one, around the end.
ConflictAfter(bs, l) ==
    LET ahead == {i \in DOMAIN bs : bs[i].start > l}
    IN bs[IF ahead # {} THEN Min(ahead) ELSE 1]
ConflictBefore(bs, l) ==
    LET behind == {i \in DOMAIN bs : bs[i].start < l}
    IN bs[IF behind # {} THEN Max(behind) ELSE Len(bs)]

BrokenUnderCursor(text, l) ==
    LET scan   == ScanConflicts(text)
        starts == {scan.blocks[i].start : i \in DOMAIN scan.blocks}
        above  == {s \in starts \cup scan.broken : s <= l}
    IN above # {} /\ (CHOOSE s \in above : \A x \in above : x <= s) \notin starts

Done(op) == mcfOp' = op /\ mcfWas' = <<mcfText, mcfLine>>

JumpConflict(dir) ==
    LET bs == Blocks(mcfText)
    IN /\ bs # <<>>
       /\ mcfLine' = (IF dir = 1 THEN ConflictAfter(bs, mcfLine) ELSE ConflictBefore(bs, mcfLine)).start
       /\ Done(IF dir = 1 THEN "next" ELSE "prev") /\ UNCHANGED mcfText

\* resolveMergeConflict; what it refuses is told apart only in the message.
Resolve(k) ==
    LET bs == Blocks(mcfText)
        at == ConflictAt(bs, mcfLine)
    IN IF at = {}
       THEN /\ Done(IF BrokenUnderCursor(mcfText, mcfLine) THEN "malformed" ELSE "none")
            /\ UNCHANGED <<mcfText, mcfLine>>
       ELSE LET new  == ApplyConflict(mcfText, bs[Min(at)], Side(mcfText, bs[Min(at)], k))
                rest == Blocks(new.text)
            IN /\ mcfText' = new.text
               /\ mcfLine' = IF rest = <<>> THEN new.line ELSE ConflictAfter(rest, new.line).start
               /\ Done(k)

\* A file is opened (mergeConflictHint counts what is in it) and the caret is
\* somewhere in it.
OpenConflicted ==
    /\ mcfOp = "closed" /\ mcfOp' = "open"
    /\ mcfText' \in McfTexts /\ mcfLine' \in 0..(Len(mcfText') - 1)
    /\ mcfWas' = <<mcfText', mcfLine'>>

McfNext ==
    \/ OpenConflicted
    \/ \E dir \in {-1, 1} : JumpConflict(dir)
    \/ \E k \in {"ours", "theirs", "both"} : Resolve(k)

McfSpec == McfInit /\ [][McfNext]_mcfVars
-----------------------------------------------------------------------------
McfTypeOK ==
    /\ mcfText \in Seq(McfLines \cup {"", Ours, Base, Sep, Theirs})
    /\ mcfLine \in 0..(Len(mcfText) - 1)
    /\ mcfOp \in {"closed", "open", "next", "prev", "malformed", "none", "ours", "theirs", "both"}

\* A start, the first separator after it, the first end after that, and no
\* other start in between: what a block is, said without the scan.
FirstAfter(text, mark, l) ==
    CHOOSE i \in {j \in (l + 1)..(Len(text) - 1) : McfAt(text, j) = mark} :
        \A j \in (l + 1)..(i - 1) : McfAt(text, j) # mark
ConflictOn(text, s, e) ==
    /\ s < e /\ McfAt(text, s) = Ours /\ McfAt(text, e) = Theirs
    /\ \A l \in (s + 1)..e : McfAt(text, l) # Ours
    /\ \E l \in (s + 1)..(e - 1) : McfAt(text, l) = Sep
    /\ e = FirstAfter(text, Theirs, FirstAfter(text, Sep, s))

\* A block ends where its conflict ends and divides where it divides, whatever
\* else is in the text, and every start that opens none is reported broken
\* (scanConflicts against ConflictOn).
BlocksAreTheConflicts ==
    LET scan   == ScanConflicts(mcfText)
        blocks == ToSet(scan.blocks)
        lines  == 0..(Len(mcfText) - 1)
    IN /\ {<<b.start, b.end>> : b \in blocks} =
              {se \in lines \X lines : ConflictOn(mcfText, se[1], se[2])}
       /\ \A b \in blocks :
              /\ b.sep = FirstAfter(mcfText, Sep, b.start)
              /\ b.base # NoMark => McfAt(mcfText, b.base) = Base /\ b.base < b.sep
       /\ scan.broken = {l \in lines : /\ McfAt(mcfText, l) = Ours
                                       /\ \A b \in blocks : b.start # l}

KeptLines(b, k) ==
    {l \in (b.start + 1)..(b.end - 1) :
         \/ k # "theirs" /\ l < b.sep /\ (b.base # NoMark => l < b.base)
         \/ k # "ours" /\ l > b.sep}

\* A resolution takes away the lines of the conflict under the caret that it does
\* not keep, and nothing else: what it keeps stays in its order, no line of a base
\* section, no marker of its own and no new blank line is left in the block's
\* place, and all lines around it stay (applyConflict; the last line of a file
\* cannot be taken away).
ResolutionKeepsTheRest ==
    mcfOp \in {"ours", "theirs", "both"} =>
        LET was == mcfWas[1]
        IN \E b \in ToSet(Blocks(was)) :
               LET p    == b.start
                   q    == Len(was) - b.end - 1
                   mid  == SubSeq(mcfText, p + 1, Len(mcfText) - q)
                   kept == KeptLines(b, mcfOp)
               IN /\ p <= mcfWas[2] /\ mcfWas[2] <= b.end
                  /\ SubSeq(mcfText, 1, p) = SubSeq(was, 1, p)
                  /\ SubSeq(mcfText, Len(mcfText) - q + 1, Len(mcfText)) = SubSeq(was, b.end + 2, Len(was))
                  /\ \/ mid = <<"">> /\ kept = {} /\ q = 0
                     \/ /\ Len(mid) = Cardinality(kept)
                        /\ \E from \in [DOMAIN mid -> kept] :
                              /\ \A i, j \in DOMAIN mid : i < j => from[i] < from[j]
                              /\ \A i \in DOMAIN mid : mid[i] = McfAt(was, from[i])

\* After a resolution the caret stands at the start of the conflict that comes
\* next in the text as it is now, if there is one, so that the same key resolves
\* them all in turn; a jump always moves on when there is more than one.
ResolvingMovesOn ==
    /\ (mcfOp \in {"ours", "theirs", "both"} /\ Blocks(mcfText) # <<>>) =>
           ConflictAt(Blocks(mcfText), mcfLine) # {}
    /\ (mcfOp \in {"next", "prev"} /\ Len(Blocks(mcfText)) > 1) => mcfLine # mcfWas[2]

\* The blocks are the conflicts of the text, and resolving one changes nothing but
\* its lines and goes to the next.
ConflictsAreResolved == BlocksAreTheConflicts /\ ResolutionKeepsTheRest /\ ResolvingMovesOn
=============================================================================
