--------------------------- MODULE ProjectReplace ---------------------------
(***************************************************************************)
(* Find and Replace in Project (editor/projectsearch.go,                   *)
(* projectreplace.go): a scan on a goroutine streams batches through a     *)
(* channel to the panel both flavours share, a review shows one change of  *)
(* the series, and an answer applies it through agent.Applier.             *)
(*                                                                         *)
(* A content is <<file, n, pad>>, pad the white space around it.  It holds *)
(* the query when n is even; replacing makes n odd, an edit gives it the   *)
(* next even number or other white space.  A place is a line of the walk   *)
(* that matches where its file holds the query.                            *)
(***************************************************************************)
EXTENDS Integers, SequencesExt, Removal

CONSTANTS
    MaxFiles,     \* the files are 1..MaxFiles
    FileAt,       \* the file of each place, in the order of the walk
    HitsAt,       \* how often the line of a place matches
    Unscannable,  \* files that are not UTF-8, or cannot be read
    Namesakes,    \* files of different directories with one base name
    MaxMatches,   \* projReplMaxFiles, projSearchMaxHits
    BatchSize,    \* projReplBatchSz, projSearchBatchSz
    ChanCap,      \* capacity of a scan's channel
    MaxScans,     \* bound of the model: scans
    MaxGens,      \* bound of the model: generations
    MaxFileEdits  \* bound of the model: edits outside the panel

ASSUME PrAssumption ==
    /\ {MaxFiles, MaxMatches, BatchSize, ChanCap} \subseteq Nat \ {0}
    /\ {MaxScans, MaxGens, MaxFileEdits} \subseteq Nat
    /\ FileAt \in Seq(1..MaxFiles) /\ HitsAt \in [DOMAIN FileAt -> Nat \ {0}]

VARIABLES
    prDisk,    \* what the files hold
    prTabs,    \* per file its tab: [open, dirty, text]
    panel,     \* the panel's fields, see PrInit
    prGen,     \* projSearchGen
    scans,     \* scans started: [kind, gen, known, next, found, batch, sent, queue, at]
    prWaiting,   \* per scan, the commands that wait on its channel
    inbox,     \* messages a command has received and Update has not handled
    prEdits    \* edits made outside the panel

prVars == <<prDisk, prTabs, panel, prGen, scans, prWaiting, inbox, prEdits>>

PrFiles   == 1..MaxFiles
ScanIds == 1..MaxScans
Replaced(c) == <<c[1], c[2] + 1, c[3]>>
Holds(c)    == c[2] % 2 = 0
Padded(c)   == <<c[1], c[2], 1 - c[3]>>
Normalized(c) == <<c[1], c[2]>>
NoFile      == 0

PrInit ==
    /\ prDisk = [f \in PrFiles |-> <<f, 0, 0>>]
    /\ prTabs = [f \in PrFiles |-> [open |-> FALSE, dirty |-> FALSE, text |-> <<f, 0, 0>>]]
    /\ panel = [open |-> FALSE, input |-> FALSE, repl |-> FALSE, step |-> 0,
                hits |-> <<>>, fch |-> 0, rows |-> <<>>, order |-> <<>>, ch |-> 0,
                sel |-> 0, review |-> FALSE, rev |-> 1, shown |-> NoFile]
    /\ prGen = 0 /\ scans = <<>> /\ inbox = {} /\ prEdits = 0
    /\ prWaiting = [s \in ScanIds |-> 0]

\* waitForProjSearch and waitForProjRepl: a nil channel arms nothing.
Rearmed(w, ch) == IF ch = 0 THEN w ELSE [w EXCEPT ![ch] = @ + 1]

\* jumpProjSel.
ListOf(p)     == IF p.repl THEN p.rows ELSE p.hits
JumpProjSelPastTheEnd(p, sel) == [p EXCEPT !.sel = Max({0, Min({sel, Len(ListOf(p))})})]
JumpProjSelBeforeTheStart(p, sel) == [p EXCEPT !.sel = Min({sel, Max({0, Len(ListOf(p)) - 1})})]

JumpProjSel(p, sel) == [p EXCEPT !.sel = Max({0, Min({sel, Len(ListOf(p)) - 1})})]

\* rebuildProjReplOrder: the rows that carry a change.
ChangedRows(rows) == Without([i \in DOMAIN rows |-> i], {i \in DOMAIN rows : ~rows[i].change})
Rebuilt(p) == [p EXCEPT !.order = ChangedRows(p.rows)]
EndReview(p) == [p EXCEPT !.review = FALSE, !.shown = NoFile]
-----------------------------------------------------------------------------
(* Opening, closing and running.                                           *)

Panel(p) == panel' = p /\ UNCHANGED <<prDisk, prTabs, scans, prWaiting, inbox, prEdits>>

\* Ctrl+Shift+F answers over everything, the review included.  The scan of a
\* replacement stays of this generation.
StartProjectSearch ==
    /\ Panel([panel EXCEPT !.open = TRUE, !.input = TRUE, !.repl = FALSE, !.step = 0,
                           !.ch = 0, !.rows = <<>>, !.order = <<>>, !.sel = 0])
    /\ UNCHANGED prGen

ReplaceOverReview(p) ==
    [p EXCEPT !.open = TRUE, !.input = TRUE, !.repl = TRUE, !.step = 0, !.hits = <<>>, !.fch = 0,
              !.rows = <<>>, !.order = <<>>, !.ch = 0, !.sel = 0]
FreshReplace(p) ==
    [p EXCEPT !.open = TRUE, !.input = TRUE, !.repl = TRUE, !.step = 0, !.hits = <<>>, !.fch = 0,
              !.rows = <<>>, !.order = <<>>, !.ch = 0, !.sel = 0,
              !.review = FALSE, !.shown = NoFile]

StartProjectReplace ==
    /\ prGen < MaxGens
    /\ Panel(FreshReplace(panel)) /\ prGen' = prGen + 1

StopProjectSearch ==
    /\ panel.open /\ ~panel.review /\ prGen < MaxGens
    /\ Panel([EndReview(panel) EXCEPT !.open = FALSE, !.fch = 0, !.repl = FALSE, !.step = 0,
                           !.ch = 0, !.rows = <<>>, !.order = <<>>])
    /\ prGen' = prGen + 1

\* The goroutine of a scan and its channel.  The tabs it asks about are those
\* of the model it was started from.
StartScan(kind) ==
    /\ Len(scans) < MaxScans /\ prGen < MaxGens
    /\ prGen' = prGen + 1
    /\ scans' = Append(scans, [kind |-> kind, gen |-> prGen', known |-> {f \in PrFiles : prTabs[f].open},
                               next |-> 1, found |-> 0, batch |-> <<>>, sent |-> 0, queue |-> <<>>, at |-> "walk"])
    /\ prWaiting' = Rearmed(prWaiting, Len(scans'))
    /\ UNCHANGED <<prDisk, prTabs, inbox, prEdits>>

Typing == panel.open /\ ~panel.review /\ panel.input

RunProjectSearch ==
    /\ Typing /\ ~panel.repl
    /\ StartScan("find")
    /\ panel' = [panel EXCEPT !.hits = <<>>, !.sel = 0, !.input = FALSE, !.fch = Len(scans')]

\* Enter on the query goes on to the replacement, Enter there runs the scan.
NextField ==
    /\ Typing /\ panel.repl /\ panel.step = 0
    /\ Panel([panel EXCEPT !.step = 1]) /\ UNCHANGED prGen

RunProjectReplace ==
    /\ Typing /\ panel.repl /\ panel.step # 0
    /\ StartScan("repl")
    /\ panel' = [panel EXCEPT !.fch = 0, !.rows = <<>>, !.order = <<>>, !.sel = 0, !.input = FALSE,
                              !.step = 2, !.ch = Len(scans')]
-----------------------------------------------------------------------------
(* The scan.                                                               *)

Scan(s, rec) == scans' = [scans EXCEPT ![s] = rec] /\ UNCHANGED <<prDisk, prTabs, panel, prGen, prEdits>>

Row(s, p, k, c) ==
    [file |-> FileAt[p], place |-> p, match |-> k, change |-> c, orig |-> prDisk[FileAt[p]], scan |-> s]

\* searchProject: a row for every match of a line.
HitsOf(s, p) ==
    IF Holds(prDisk[FileAt[p]]) /\ FileAt[p] \notin Unscannable
    THEN [k \in 1..HitsAt[p] |-> Row(s, p, k, FALSE)] ELSE <<>>

\* replaceProject: a row for a file, where the walk comes to it; one without a
\* change stays out of the series.
FileRow(s, p) ==
    LET f     == FileAt[p]
        dirty == f \in scans[s].known /\ prTabs[f].dirty
    IN IF \E q \in 1..p - 1 : FileAt[q] = f THEN <<>>
       ELSE IF f \in Unscannable THEN <<Row(s, p, 0, FALSE)>>
       ELSE IF Holds(prDisk[f]) THEN <<Row(s, p, 0, ~dirty)>> ELSE <<>>

RowsAt(s, p) == IF scans[s].kind = "find" THEN HitsOf(s, p) ELSE FileRow(s, p)

Walked(s) == scans[s].next > Len(FileAt) \/ scans[s].found >= MaxMatches

ScanVisits(s) ==
    /\ scans[s].at = "walk" /\ ~Walked(s) /\ Len(scans[s].batch) < BatchSize
    /\ LET rows == RowsAt(s, scans[s].next)
       IN Scan(s, [scans[s] EXCEPT !.next = @ + 1, !.found = @ + Len(rows), !.batch = @ \o rows])
    /\ UNCHANGED <<prWaiting, inbox>>

\* flush: the channel has room, or the batch is given up after two seconds.
ScanFlushes(s) ==
    /\ scans[s].at = "walk" /\ (Walked(s) \/ Len(scans[s].batch) >= BatchSize)
    /\ LET done == Walked(s) /\ Len(scans[s].batch) < BatchSize
           msg  == [scan |-> s, n |-> scans[s].sent, rows |-> scans[s].batch, done |-> done]
       IN Scan(s, [scans[s] EXCEPT !.sent = @ + 1, !.batch = <<>>,
                                   !.queue = IF Len(@) < ChanCap THEN Append(@, msg) ELSE @,
                                   !.at = IF done THEN "done" ELSE "walk"])
    /\ UNCHANGED <<prWaiting, inbox>>

CommandReceives(s) ==
    /\ prWaiting[s] > 0 /\ scans[s].queue # <<>>
    /\ Scan(s, [scans[s] EXCEPT !.queue = Tail(@)])
    /\ prWaiting' = [prWaiting EXCEPT ![s] = @ - 1]
    /\ inbox' = inbox \cup {Head(scans[s].queue)}

MergedOfAnyScan(p, msg) ==
    IF scans[msg.scan].kind = "find"
    THEN [p EXCEPT !.hits = @ \o msg.rows, !.fch = IF msg.done THEN 0 ELSE @]
    ELSE Rebuilt([p EXCEPT !.rows = @ \o msg.rows, !.ch = IF msg.done THEN 0 ELSE @])

\* handleProjSearchMessage and handleProjReplMessage.
Merged(p, msg) ==
    IF scans[msg.scan].gen # prGen THEN p
    ELSE IF scans[msg.scan].kind = "find"
    THEN [p EXCEPT !.hits = @ \o msg.rows, !.fch = IF msg.done THEN 0 ELSE @]
    ELSE Rebuilt([p EXCEPT !.rows = @ \o msg.rows, !.ch = IF msg.done THEN 0 ELSE @])

\* Update arms the reader again, on the channel of the present scan.
HandleMessage(msg) ==
    /\ msg \in inbox
    /\ panel' = Merged(panel, msg)
    /\ prWaiting' = Rearmed(prWaiting, IF scans[msg.scan].kind = "find" THEN panel'.fch ELSE panel'.ch)
    /\ inbox' = inbox \ {msg}
    /\ UNCHANGED <<prDisk, prTabs, prGen, scans, prEdits>>
-----------------------------------------------------------------------------
(* The list and the review.                                                *)

Listing == panel.open /\ ~panel.review /\ ~panel.input

MoveSelection ==
    /\ Listing /\ ListOf(panel) # <<>> /\ UNCHANGED prGen
    /\ LET n == Len(ListOf(panel))
       IN \E sel \in {(panel.sel + 1) % n, (panel.sel + n - 1) % n, panel.sel - 10, panel.sel + 10} :
              Panel(JumpProjSel(panel, sel))

TypeOver ==
    /\ Listing /\ UNCHANGED prGen
    /\ Panel([panel EXCEPT !.input = TRUE, !.step = IF panel.repl THEN 0 ELSE @])

Loaded(p, i) == [p EXCEPT !.rev = i, !.shown = p.rows[p.order[i]].file]

StartReview ==
    /\ Listing /\ panel.repl /\ UNCHANGED prGen
    /\ \E i \in DOMAIN panel.order :
          /\ panel.order[i] = panel.sel + 1
          /\ Panel([Loaded(panel, i) EXCEPT !.review = TRUE])

ReviewNext ==
    /\ panel.review /\ panel.order # <<>> /\ UNCHANGED prGen
    /\ LET n == Len(panel.order)
       IN \E i \in {(panel.rev % n) + 1, ((panel.rev + n - 2) % n) + 1} : Panel(Loaded(panel, i))

RejectReview == panel.review /\ Panel(EndReview(panel)) /\ UNCHANGED prGen

\* Applier.Validate on the series: white space around a file does not count.
NotChecked(rows) == TRUE
Validates(rows)  == \A r \in rows : Normalized(prDisk[r.file]) = Normalized(r.orig)

\* Applier.Apply: the files of the series hold what was made of them when they were scanned.
AfterSeries(series) ==
    [f \in PrFiles |->
        IF \E r \in Range(series) : r.file = f
        THEN Replaced((CHOOSE r \in Range(series) : r.file = f).orig) ELSE prDisk[f]]

\* openAiFile for the files of a series: the tab, opened if need be, and every clean one of that name get
\* what the file now holds.
OpenAiFile(tabs, f, text) ==
    [g \in PrFiles |->
        IF g = f /\ ~tabs[g].open THEN [open |-> TRUE, dirty |-> FALSE, text |-> text]
        ELSE IF tabs[g].open /\ ~tabs[g].dirty /\ (g = f \/ {f, g} \subseteq Namesakes)
        THEN [tabs[g] EXCEPT !.text = text] ELSE tabs[g]]
OpenSeries(tabs, rows, texts) ==
    LET shown[k \in 0..Len(rows)] ==
            IF k = 0 THEN tabs ELSE OpenAiFile(shown[k - 1], rows[k].file, texts[rows[k].file])
    IN  shown[Len(rows)]

\* dropProjReplRows goes from the lowest row up: the rows above have moved.
DropRows(rows, gone) ==
    LET left[k \in 0..Len(gone)] ==
            IF k = 0 THEN rows
            ELSE IF gone[k] <= Len(left[k - 1]) THEN RemoveAt(left[k - 1], gone[k]) ELSE left[k - 1]
    IN  left[Len(gone)]

\* acceptProjRepl: the change on screen, or all of the series.
Accept ==
    /\ panel.review
    /\ \E gone \in {IF panel.rev \in DOMAIN panel.order THEN <<panel.order[panel.rev]>> ELSE <<>>,
                    panel.order} :
          LET series == [k \in DOMAIN gone |-> panel.rows[gone[k]]]
          IN IF series # <<>> /\ Validates(Range(series))
             THEN /\ prDisk' = AfterSeries(series)
                  /\ prTabs' = OpenSeries(prTabs, series, prDisk')
                  /\ panel' = EndReview(JumpProjSel(Rebuilt([panel EXCEPT !.rows = DropRows(@, gone)]), panel.sel))
             ELSE panel' = EndReview(panel) /\ UNCHANGED <<prDisk, prTabs>>
    /\ UNCHANGED <<prGen, scans, prWaiting, inbox, prEdits>>
-----------------------------------------------------------------------------
(* What goes on around the panel.                                          *)

Around == UNCHANGED <<panel, prGen, scans, prWaiting, inbox>>
Edits(c) == {<<c[1], 2 * (prEdits + 1), c[3]>>, Padded(c)}

OpenTab(f) ==
    /\ ~prTabs[f].open
    /\ prTabs' = [prTabs EXCEPT ![f] = [open |-> TRUE, dirty |-> FALSE, text |-> prDisk[f]]]
    /\ Around /\ UNCHANGED <<prDisk, prEdits>>

TypeInTab(f) ==
    /\ prTabs[f].open /\ ~prTabs[f].dirty /\ prEdits < MaxFileEdits
    /\ \E c \in Edits(prTabs[f].text) :
           prTabs' = [prTabs EXCEPT ![f].dirty = TRUE, ![f].text = c]
    /\ prEdits' = prEdits + 1 /\ Around /\ UNCHANGED prDisk

SaveTab(f) ==
    /\ prTabs[f].dirty
    /\ prTabs' = [prTabs EXCEPT ![f].dirty = FALSE]
    /\ prDisk' = [prDisk EXCEPT ![f] = prTabs[f].text]
    /\ Around /\ UNCHANGED prEdits

\* Another program; the watcher reloads a clean tab.
FileChanges(f) ==
    /\ prEdits < MaxFileEdits
    /\ \E c \in Edits(prDisk[f]) :
           /\ prDisk' = [prDisk EXCEPT ![f] = c]
           /\ prTabs' = IF prTabs[f].open /\ ~prTabs[f].dirty THEN [prTabs EXCEPT ![f].text = c] ELSE prTabs
    /\ prEdits' = prEdits + 1 /\ Around

PrNext ==
    \/ StartProjectSearch \/ StartProjectReplace \/ StopProjectSearch
    \/ RunProjectSearch \/ NextField \/ RunProjectReplace
    \/ \E s \in DOMAIN scans : ScanVisits(s) \/ ScanFlushes(s) \/ CommandReceives(s)
    \/ \E msg \in inbox : HandleMessage(msg)
    \/ MoveSelection \/ TypeOver \/ StartReview \/ ReviewNext \/ RejectReview \/ Accept
    \/ \E f \in PrFiles : OpenTab(f) \/ TypeInTab(f) \/ SaveTab(f) \/ FileChanges(f)

PrSpec == PrInit /\ [][PrNext]_prVars
-----------------------------------------------------------------------------
PrTypeOK ==
    /\ prGen \in 0..MaxGens /\ panel.ch \in 0..Len(scans) /\ panel.fch \in 0..Len(scans)
    /\ panel.shown \in {NoFile} \cup PrFiles /\ panel.step \in 0..2 /\ panel.sel \in Nat
    /\ \A m \in inbox : m.scan \in DOMAIN scans

\* Whatever batches are late, given up or received out of order: what a panel
\* lists is of one scan, no match is found twice and no file replaced in twice; a
\* series is of the latest scan.
PreviewIsOfTheLastScan ==
    /\ \A list \in {panel.rows, panel.hits} : \A i, j \in DOMAIN list : list[i].scan = list[j].scan
    /\ \A i, j \in DOMAIN panel.hits :
          i # j => panel.hits[i].place # panel.hits[j].place \/ panel.hits[i].match # panel.hits[j].match
    /\ \A i, j \in DOMAIN panel.rows : i # j => panel.rows[i].file # panel.rows[j].file
    /\ panel.repl => \A i \in DOMAIN panel.rows : scans[panel.rows[i].scan].gen = prGen

\* The panel writes a file only when it still holds what the scan read, white
\* space around it aside, and writes nothing but what the scan made of it: edits,
\* saves and other programs between the scan and the answer make it refuse the
\* whole series.
Applying == panel.review /\ ~panel'.review /\ prDisk' # prDisk
OnlyThePreviewIsWritten ==
    [][Applying => \A f \in PrFiles : prDisk'[f] # prDisk[f] =>
          \E i \in DOMAIN panel.rows :
              /\ panel.rows[i].file = f /\ panel.rows[i].change
              /\ Normalized(panel.rows[i].orig) = Normalized(prDisk[f])
              /\ prDisk'[f] = Replaced(panel.rows[i].orig)]_prVars

\* While Replace in Project has the panel, the diff on screen is that of the row
\* the answer would apply, through late batches, partial answers and Tab.
ReviewIsOfItsRow ==
    panel.review /\ panel.repl =>
        panel.rev \in DOMAIN panel.order /\ panel.shown = panel.rows[panel.order[panel.rev]].file

\* The selection both flavours share is a row of the list on screen.
SelectionInList == panel.open => panel.sel < Max({1, Len(ListOf(panel))})

\* projectsearch.go:296-298: "a late replace batch must not append rows to a find
\* panel".
LateRowsAreDropped == ~panel.repl => panel.rows = <<>>

\* apply.go:136-137: "A change whose current content differs from Change.Orig is
\* stale".  White space a file was given after the scan is overwritten.
WhiteSpaceSurvives ==
    [][Applying => \A f \in PrFiles : prDisk'[f] # prDisk[f] => prDisk'[f] = Replaced(prDisk[f])]_prVars

\* projectreplace.go:20-22: "a diff review gates the apply".  What an answer
\* writes includes the change that was on screen.
AnswerIsForWhatIsShown ==
    [][Applying => panel.shown # NoFile /\ prDisk'[panel.shown] # prDisk[panel.shown]]_prVars

\* projectreplace.go:509-511: "Applied rows leave the preview".
AppliedRowsLeave ==
    [][Applying => \A i \in DOMAIN panel'.rows :
          prDisk'[panel'.rows[i].file] = prDisk[panel'.rows[i].file]]_prVars

\* agent_panel.go:723-725: the buffer reloaded is one "whose path matches".
CleanTabsShowTheirFile ==
    \A f \in PrFiles : prTabs[f].open /\ ~prTabs[f].dirty => prTabs[f].text[1] = f

\* What an answer writes to a file is what its row showed, however late batches,
\* answers and edits come.
ReplaceIsReviewed ==
    /\ [](PreviewIsOfTheLastScan /\ ReviewIsOfItsRow /\ SelectionInList)
    /\ OnlyThePreviewIsWritten
=============================================================================
