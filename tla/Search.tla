------------------------------- MODULE Search -------------------------------
(***************************************************************************)
(* The search of a buffer and its replacements (editor/search.go, the      *)
(* matcher of projectsearch.go, buffer.ReplaceRange and ReplaceAll), and   *)
(* the replacement of one file on disk (projectreplace.go, replaceBytes).  *)
(*                                                                         *)
(* A rune is a number: below Cased a lower case letter, r + Cased the      *)
(* same letter in upper case, Cr and Lf the bytes of line endings.  Lines  *)
(* and columns count from 0.  Regular expressions are left out.            *)
(***************************************************************************)
EXTENDS Integers, SequencesExt

CONSTANTS
    SeTexts,    \* the texts searched, sequences of lines
    SeFiles,    \* the contents of files replaced on disk
    SeQueries,  \* what is searched for
    SeRepls,    \* what replaces it
    MaxSeSteps  \* operations on one text, for the bound

Cased == 50
Cr == 1000
Lf == 1001

ASSUME SeTextsAssumption == SeTexts \subseteq Seq(Seq(Nat)) \ {<<>>}
ASSUME SeFilesAssumption == SeFiles \subseteq Seq(Nat)
ASSUME SeQueriesAssumption == SeQueries \subseteq Seq(Nat) \ {<<>>} /\ SeRepls \subseteq Seq(Nat)

VARIABLES
    seText, seLine, seCol,  \* the buffer and its caret
    seQuery,                \* searchQuery
    seIdx,                  \* searchMatchIdx
    seOp, seRepl,           \* the last operation and its replacement, for the properties
    seBytes,                \* a file before and after its replacement
    seSteps

seVars == <<seText, seLine, seCol, seQuery, seIdx, seOp, seRepl, seBytes, seSteps>>

SeInit ==
    /\ seText \in SeTexts /\ seLine = 0 /\ seCol = 0
    /\ seQuery = <<>> /\ seIdx = -1
    /\ seOp = "open" /\ seRepl = <<>> /\ seBytes = <<<<>>, <<>>>> /\ seSteps = 0
-----------------------------------------------------------------------------
(* The matcher.                                                            *)

LowerCase(r) == IF r > Cased /\ r < Cr THEN r - Cased ELSE r
HasUpper(q)  == \E i \in DOMAIN q : LowerCase(q[i]) # q[i]

SameRune(a, b, insensitive) == a = b \/ (insensitive /\ LowerCase(a) = LowerCase(b))
HitAt(line, q, insensitive, c) ==
    c + Len(q) <= Len(line) /\ \A j \in DOMAIN q : SameRune(line[c + j], q[j], insensitive)

\* matchLiteral at one column: a match is gone past by its length.
MatchAt(line, q, insensitive, acc, c) ==
    IF c >= acc.from /\ HitAt(line, q, insensitive, c)
    THEN [out |-> Append(acc.out, c), from |-> c + Len(q)] ELSE acc

\* matchLiteral: the columns from the left.
MatchLiteral(line, q, insensitive) ==
    LET scan[c \in 0..Len(line)] == IF c = 0 THEN [out |-> <<>>, from |-> 0]
                                    ELSE MatchAt(line, q, insensitive, scan[c - 1], c - 1)
    IN scan[Len(line)].out

Hits(line, q) == MatchLiteral(line, q, ~HasUpper(q))

LineMatches(text, q, l) ==
    [i \in DOMAIN Hits(text[l + 1], q) |-> <<l, Hits(text[l + 1], q)[i]>>]

\* allMatches.
AllMatches(text, q) ==
    LET above[l \in 0..Len(text)] == IF l = 0 THEN <<>> ELSE above[l - 1] \o LineMatches(text, q, l - 1)
    IN above[Len(text)]

Spliced(line, c, n, rep) == SubSeq(line, 1, c) \o rep \o SubSeq(line, c + n + 1, Len(line))

\* Splices of n runes at the columns, from the last one back.
SplicedAt(line, hits, n, rep) ==
    LET back[k \in 0..Len(hits)] == IF k = 0 THEN line
                                    ELSE Spliced(back[k - 1], hits[Len(hits) - k + 1], n, rep)
    IN back[Len(hits)]

\* substitute: spliced from the right, so that no match is moved by another.
SubstituteFromTheLeft(line, q, rep) == SplicedAt(line, Reverse(Hits(line, q)), Len(q), rep)
Substitute(line, q, rep) == SplicedAt(line, Hits(line, q), Len(q), rep)
-----------------------------------------------------------------------------
(* The caret and the matches.                                              *)

SeStep(op) == seSteps < MaxSeSteps /\ seSteps' = seSteps + 1 /\ seOp' = op
Later(a, b) == a[1] > b[1] \/ (a[1] = b[1] /\ a[2] >= b[2])

FoundWithoutWrap(text, q, caret, idx, jump) ==
    LET ms    == AllMatches(text, q)
        ahead == {i \in DOMAIN ms : Later(ms[i], caret)}
    IN IF ms = <<>> THEN -1
       ELSE IF jump /\ idx >= 0 THEN Min({idx + 1, Len(ms) - 1})
       ELSE IF ahead = {} THEN 0 ELSE Min(ahead) - 1

\* updateSearchMatches on a text, from a caret: where the search stands then.
FoundFrom(text, q, caret, idx, jump) ==
    LET ms    == AllMatches(text, q)
        ahead == {i \in DOMAIN ms : Later(ms[i], caret)}
    IN IF ms = <<>> THEN -1
       ELSE IF jump /\ idx >= 0 THEN (idx + 1) % Len(ms)
       ELSE IF ahead = {} THEN 0 ELSE Min(ahead) - 1
StandAt(text, q, caret, i) ==
    /\ seText' = text /\ seQuery' = q /\ seIdx' = i
    /\ LET at == IF i < 0 THEN caret ELSE AllMatches(text, q)[i + 1]
       IN seLine' = at[1] /\ seCol' = at[2]

UpdateMatches(text, q, caret, jump) ==
    StandAt(text, q, caret, FoundFrom(text, q, caret, seIdx, jump))

SeCaret == <<seLine, seCol>>

TypeQuery ==
    /\ SeStep("query")
    /\ \E q \in SeQueries : UpdateMatches(seText, q, SeCaret, FALSE)
    /\ UNCHANGED <<seRepl, seBytes>>

FindNext ==
    /\ seQuery # <<>> /\ SeStep("next")
    /\ UpdateMatches(seText, seQuery, SeCaret, TRUE)
    /\ UNCHANGED <<seRepl, seBytes>>

\* It panics where the index is beyond the matches of the text as it is now.
FindPrev ==
    /\ seQuery # <<>> /\ SeStep("prev")
    /\ LET n == Len(AllMatches(seText, seQuery))
       IN /\ n = 0 \/ seIdx <= n
          /\ StandAt(seText, seQuery, SeCaret, IF n = 0 THEN -1 ELSE IF seIdx <= 0 THEN n - 1 ELSE seIdx - 1)
    /\ UNCHANGED <<seRepl, seBytes>>

\* A click in the buffer; the panel stays open and its index with it.
MoveAway ==
    /\ SeStep("click")
    /\ \E l \in DOMAIN seText : \E c \in 0..Len(seText[l]) : seLine' = l - 1 /\ seCol' = c
    /\ UNCHANGED <<seText, seQuery, seIdx, seRepl, seBytes>>

BeforeIt(rep)    == SeCaret
BehindTheQuery(rep) == <<seLine, seCol + Len(seQuery)>>

BehindIt(rep)    == <<seLine, seCol + Len(rep)>>

\* doReplace: the match the caret stands on, or on to the next one.
DoReplace ==
    /\ seQuery # <<>> /\ AllMatches(seText, seQuery) # <<>>
    /\ \E rep \in SeRepls :
          /\ seRepl' = rep
          /\ IF \E i \in DOMAIN AllMatches(seText, seQuery) : AllMatches(seText, seQuery)[i] = SeCaret
             THEN /\ SeStep("replace")
                  /\ UpdateMatches([seText EXCEPT ![seLine + 1] = Spliced(@, seCol, Len(seQuery), rep)],
                                   seQuery, BehindIt(rep), FALSE)
             ELSE SeStep("query") /\ UpdateMatches(seText, seQuery, SeCaret, FALSE)
    /\ UNCHANGED seBytes

\* doReplaceAll of a literal: strings.ReplaceAll, which minds the case.
DoReplaceAll ==
    /\ seQuery # <<>> /\ SeStep("all")
    /\ \E rep \in SeRepls :
          LET Exact(line) == SplicedAt(line, MatchLiteral(line, seQuery, FALSE), Len(seQuery), rep)
          IN /\ seRepl' = rep
             /\ seText' = [l \in DOMAIN seText |-> Exact(seText[l])]
             /\ seCol' = Min({seCol, Len(seText'[seLine + 1])})
    /\ UNCHANGED <<seLine, seQuery, seIdx, seBytes>>
-----------------------------------------------------------------------------
(* One file of Replace in Project.                                         *)

\* splitKeepEndings: a line ends behind its Lf, the last one with the file.
CutAt(data, acc, i) ==
    IF data[i] = Lf THEN [chunks |-> Append(acc.chunks, SubSeq(data, acc.start + 1, i)), start |-> i]
    ELSE acc
KeepEndings(data) ==
    LET cut[i \in 0..Len(data)] == IF i = 0 THEN [chunks |-> <<>>, start |-> 0]
                                   ELSE CutAt(data, cut[i - 1], i)
        end == cut[Len(data)]
    IN IF end.start < Len(data) THEN Append(end.chunks, SubSeq(data, end.start + 1, Len(data)))
       ELSE end.chunks

EndingLenOfLf(chunk) == IF chunk = <<>> \/ Last(chunk) # Lf THEN 0 ELSE 1

\* splitEnding.
EndingLen(chunk) ==
    IF chunk = <<>> \/ Last(chunk) # Lf THEN 0
    ELSE IF Len(chunk) > 1 /\ chunk[Len(chunk) - 1] = Cr THEN 2 ELSE 1
Body(chunk)   == SubSeq(chunk, 1, Len(chunk) - EndingLen(chunk))
Ending(chunk) == SubSeq(chunk, Len(chunk) - EndingLen(chunk) + 1, Len(chunk))

ReplacedChunk(chunk, q, rep) == Substitute(Body(chunk), q, rep) \o Ending(chunk)

\* replaceBytes.
ReplaceBytes(data, q, rep) ==
    LET chunks == KeepEndings(data)
        out[k \in 0..Len(chunks)] == IF k = 0 THEN <<>> ELSE out[k - 1] \o ReplacedChunk(chunks[k], q, rep)
    IN out[Len(chunks)]

ReplaceFile ==
    /\ seQuery # <<>> /\ SeStep("file")
    /\ \E data \in SeFiles, rep \in SeRepls :
          seRepl' = rep /\ seBytes' = <<data, ReplaceBytes(data, seQuery, rep)>>
    /\ UNCHANGED <<seText, seLine, seCol, seQuery, seIdx>>

SearchReopen ==
    /\ seSteps > 0
    /\ seText' \in SeTexts /\ seLine' = 0 /\ seCol' = 0 /\ seQuery' = <<>> /\ seIdx' = -1
    /\ seOp' = "open" /\ seRepl' = <<>> /\ seBytes' = <<<<>>, <<>>>> /\ seSteps' = 0

SeNext ==
    \/ TypeQuery \/ FindNext \/ FindPrev \/ MoveAway
    \/ DoReplace \/ DoReplaceAll \/ ReplaceFile \/ SearchReopen

SeSpec == SeInit /\ [][SeNext]_seVars
-----------------------------------------------------------------------------
SeTypeOK ==
    /\ seText \in Seq(Seq(Nat)) \ {<<>>}
    /\ seLine \in 0..Len(seText) - 1 /\ seCol \in 0..Len(seText[seLine + 1])
    /\ seIdx \in Nat \cup {-1} /\ seQuery \in SeQueries \cup {<<>>}

\* Occurrences as a search means them, without a scan: a place counts unless a
\* match that starts earlier covers it.
MatchesOf(line, q) ==
    LET places == {c \in 0..Len(line) : HitAt(line, q, ~HasUpper(q), c)}
    IN CHOOSE S \in SUBSET places :
          \A c \in places : c \in S <=> ~\E d \in S : d < c /\ c < d + Len(q)

\* F3 goes through every match in the order of the text, and Shift+F3 back,
\* whatever was replaced before, as long as the search itself moved the caret.
FindWalksTheText ==
    [][(seOp' \in {"next", "prev"} /\ seOp \in {"query", "next", "prev", "replace"} /\ seIdx >= 0) =>
          LET all  == UNION {{<<l - 1, c>> : c \in MatchesOf(seText[l], seQuery)} : l \in DOMAIN seText}
              from == IF seOp' = "next" THEN SeCaret ELSE <<seLine', seCol'>>
              to   == IF seOp' = "next" THEN <<seLine', seCol'>> ELSE SeCaret
              past == {p \in all : p # from /\ Later(p, from)}
              next == IF past = {} THEN all ELSE past
          IN from \in all /\ to \in next /\ \A p \in next : Later(p, to)]_seVars

\* Replacing one match changes nothing else, and the next one shown is not inside
\* what was just put in unless the search has wrapped around.
ReplaceMovesOn ==
    [][seOp' = "replace" /\ seSteps' # seSteps =>
          /\ \A l \in DOMAIN seText : l # seLine + 1 => seText'[l] = seText[l]
          /\ Len(seText'[seLine + 1]) = Len(seText[seLine + 1]) - Len(seQuery) + Len(seRepl')
          /\ seIdx' >= 0 /\ Later(<<seLine', seCol'>>, SeCaret) =>
                 seLine' # seLine \/ seCol' >= seCol + Len(seRepl') \/ seIdx' = 0]_seVars

\* "the project-wide replace must change exactly the occurrences the Find panel
\* listed", and "must not turn a CRLF file into LF" (projectsearch.go,
\* projectreplace.go): after a replacement in a file it is its old text with each
\* match replaced and every other byte in its place.
FileIsItsMatchesReplaced ==
    LET old == seBytes[1]
        StartOf(k) == Max({0} \cup {i \in DOMAIN old : i <= k /\ old[i] = Lf})
        EndOf(k)   == Min({Len(old)} \cup {i - 1 : i \in {j \in DOMAIN old : j > k /\ old[j] = Lf}})
        Stop(k)    == IF EndOf(k) < Len(old) /\ EndOf(k) > StartOf(k) /\ old[EndOf(k)] = Cr THEN EndOf(k) - 1 ELSE EndOf(k)
        Line(k)    == SubSeq(old, StartOf(k) + 1, Stop(k))
        Starts(k)  == k < Len(old) /\ (k - StartOf(k)) \in MatchesOf(Line(k), seQuery)
        Covered(k) == \E d \in 0..k : Starts(d) /\ k < d + Len(seQuery)
    IN seBytes[2] = FlattenSeq([k \in 1..Len(old) |->
            IF Starts(k - 1) THEN seRepl ELSE IF Covered(k - 1) THEN <<>> ELSE <<old[k]>>])

\* projectsearch.go:19-21: one matcher, so that smart case behaves identically.
\* What Replace All replaces is what the search shows as matches.
ReplaceAllFollowsFind ==
    [][seOp' = "all" /\ seSteps' # seSteps =>
          seText' = [l \in DOMAIN seText |-> Substitute(seText[l], seQuery, seRepl')]]_seVars

\* Searching walks the matches, replacing one goes on behind it, and replacing in
\* a file is replacing its matches.
SearchIsSound == FindWalksTheText /\ ReplaceMovesOn /\ [](seOp = "file" => FileIsItsMatchesReplaced)
=============================================================================
