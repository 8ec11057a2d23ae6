----------------------------- MODULE LineCache ------------------------------
(***************************************************************************)
(* The cache of tokens per line that highlighting passes go through        *)
(* (syntax/incremental.go).  The lexer is external: it is reduced to what  *)
(* the cache depends on, a state (inside a comment or not) that the lines  *)
(* above leave behind and that decides the tokens of a line.  A blank line *)
(* has no tokens in any state.                                             *)
(***************************************************************************)
EXTENDS Naturals, Sequences, FiniteSetsExt, SequencesExt

CONSTANTS
    IncWindow,   \* incWindow: 3 in the code
    MaxCached    \* bound of the model: lines of a text

ASSUME LineCacheAssumption == IncWindow \in Nat \ {0} /\ MaxCached \in Nat \ {0}

VARIABLES
    lines,       \* the text of the tab
    cached,      \* Incremental: [text, toks], the text of the last pass and its tokens
    spliced      \* history: a pass took lines behind the window from the cache

lineVars == <<lines, cached, spliced>>

LineKinds  == {"code", "open", "close", "blank"}
TextOf == UNION {[1..n -> LineKinds] : n \in 1..MaxCached}
\* What the lexer makes of a line; "none" is HighlightedLine{}.
Tokens == {"code", "comment", "none"}

\* The lexer is inside a comment after the line i.
Inside(text, i) ==
    LET marks == {k \in 1..i : text[k] \in {"open", "close"}}
    IN  marks # {} /\ text[Max(marks)] = "open"

\* HighlightBuffer: a pass over the whole text without a cache.
Lexed(text) ==
    [i \in DOMAIN text |->
        CASE text[i] = "blank" -> "none"
          [] text[i] # "blank" /\ (Inside(text, i - 1) \/ text[i] = "open") -> "comment"
          [] OTHER -> "code"]

Same(text, i) == i \in DOMAIN cached.text /\ text[i] = cached.text[i]

\* The lines before the first one that changed.
Prefix(text) ==
    Max({p \in 0..Len(text) : \A i \in 1..p : Same(text, i)})

\* The line after which IncWindow lines in a row came out as they were cached,
\* 0 when there is none: tokenizing stops there.
Resync(text) ==
    LET fits(i) == Same(text, i) /\ Lexed(text)[i] = cached.toks[i]
        ends == {r \in (Prefix(text) + IncWindow)..Len(text) :
                    \A i \in (r - IncWindow + 1)..r : fits(i)}
    IN  IF ends = {} THEN 0 ELSE Min(ends)

\* The cached tokens are kept by place, up to the first line walked.
UpdateOfALongerPrefix(text) ==
    LET r == Resync(text)
        spliceable(i) == \A j \in (r + 1)..i : Same(text, j)
    IN  [i \in DOMAIN text |->
            CASE i <= Prefix(text) + 1 /\ i \in DOMAIN cached.toks -> cached.toks[i]
              [] i > Prefix(text) /\ (i > Prefix(text) + 1 \/ i \notin DOMAIN cached.toks)
                   /\ (r = 0 \/ i <= r) -> Lexed(text)[i]
              [] OTHER -> IF spliceable(i) /\ i \in DOMAIN cached.toks THEN cached.toks[i] ELSE "none"]

\* The lines behind the window are not taken over.
UpdateUpToTheWindow(text) ==
    LET r == Resync(text)
    IN  [i \in 1..(IF r = 0 THEN Len(text) ELSE r) |->
            IF i <= Prefix(text) THEN cached.toks[i] ELSE Lexed(text)[i]]

\* Update: the prefix from the cache, the lines of the walk fresh, and the rest
\* from the cache up to the first line that differs; what is left has no tokens.
Update(text) ==
    LET r == Resync(text)
        spliceable(i) == \A j \in (r + 1)..i : Same(text, j)
    IN  [i \in DOMAIN text |->
            CASE i <= Prefix(text)                -> cached.toks[i]
              [] i > Prefix(text) /\ (r = 0 \/ i <= r) -> Lexed(text)[i]
              [] OTHER -> IF spliceable(i) THEN cached.toks[i] ELSE "none"]

LineInit ==
    /\ lines \in {<<k>> : k \in LineKinds}
    /\ cached = [text |-> <<>>, toks |-> <<>>]
    /\ spliced = FALSE

\* A pass over the text: its result is stored as the cache.
LinePass ==
    /\ lines # cached.text
    /\ cached' = [text |-> lines, toks |-> Update(lines)]
    /\ spliced' = (spliced \/ Resync(lines) \in 1..(Len(lines) - 1))
    /\ UNCHANGED lines

EditLine ==
    /\ \E i \in DOMAIN lines : \E k \in LineKinds \ {lines[i]} :
           lines' = [lines EXCEPT ![i] = k]
    /\ UNCHANGED <<cached, spliced>>

InsertLine ==
    /\ Len(lines) < MaxCached
    /\ \E i \in 1..(Len(lines) + 1), k \in LineKinds : lines' = InsertAt(lines, i, k)
    /\ UNCHANGED <<cached, spliced>>

DropCachedLine ==
    /\ Len(lines) > 1
    /\ \E i \in DOMAIN lines : lines' = RemoveAt(lines, i)
    /\ UNCHANGED <<cached, spliced>>

LineNext == LinePass \/ EditLine \/ InsertLine \/ DropCachedLine
LineSpec == LineInit /\ [][LineNext]_lineVars
-----------------------------------------------------------------------------
LineTypeOK ==
    /\ lines \in TextOf
    /\ DOMAIN cached.text = DOMAIN cached.toks
    /\ \A i \in DOMAIN cached.toks : cached.toks[i] \in Tokens

\* As long as no tail was taken from the cache behind the window, what a pass
\* made of a text through the cache is what a pass over the whole text makes of
\* it: reusing the lines before the first change is sound.
PrefixIsSound == ~spliced => cached.toks = Lexed(cached.text)

\* Correctness never depends on the window (incremental.go:28-31): whatever was
\* spliced, the result is that of a whole pass.
SpliceIsSound == cached.toks = Lexed(cached.text)
=============================================================================
