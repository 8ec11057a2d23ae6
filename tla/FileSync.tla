------------------------------ MODULE FileSync ------------------------------
(***************************************************************************)
(* Open files and the disk: the debouncing watcher (internal/watcher), the *)
(* bounded channel that carries its news to the UI (editor.New), the       *)
(* reload of clean buffers and the prompt for dirty ones (update,          *)
(* handleConflict), saving (saveActive), and the reload after an agent's   *)
(* series was applied (reloadChangedBuffer).                               *)
(*                                                                         *)
(* Every file is open in one tab.  A text belongs to the file it was       *)
(* written for: <<f, n>>.  Files are written in place; the file system     *)
(* and fsnotify are external.                                              *)
(***************************************************************************)
EXTENDS Naturals, FiniteSets, SequencesExt

CONSTANTS
    Files,
    Namesakes,   \* the pairs of files with the same base name
    FileCap,     \* the capacity of fileEvents: 16 in the code
    Versions,    \* how many texts a file can have
    MaxWrites,   \* bound of the model: writes to the disk
    NoFile

ASSUME FileCapAssumption == FileCap \in Nat \ {0}
ASSUME BoundsAssumption == Versions \in Nat \ {0} /\ MaxWrites \in Nat

VARIABLES
    disk,        \* what the files hold
    buf, saved,  \* tab.buf: its text and Buffer.saved
    events,      \* fsw.Events: undelivered events per file
    entry,       \* Watcher.timers: a file's timer, "none" when it has none
    loose,       \* armed timers that lost their entry, per file
    bodies,      \* timer functions that have not run yet, per file
    fileEvents,  \* the channel to the UI
    conflict,    \* conflictPath while conflictOpen, else NoFile
    missed,      \* history: files whose news were dropped or could not be read
    told,        \* history: files a prompt was raised for, since last read or saved
    writes       \* the number of writes, for the bound

tabVars     == <<buf, saved>>
watcherVars == <<events, entry, loose, bodies>>
histVars    == <<missed, told>>
vars == <<disk, tabVars, watcherVars, fileEvents, conflict, histVars, writes>>

TextsOf(f) == {f} \X (1..Versions)
Texts      == Files \X (1..Versions)

Dirty(f) == buf[f] # saved[f]

Init ==
    /\ disk = [f \in Files |-> <<f, 1>>]
    /\ buf = disk /\ saved = disk
    /\ events = [f \in Files |-> 0]
    /\ entry = [f \in Files |-> "none"]
    /\ loose = [f \in Files |-> 0]
    /\ bodies = [f \in Files |-> 0]
    /\ fileEvents = <<>>
    /\ conflict = NoFile
    /\ missed = {} /\ told = {}
    /\ writes = 0

\* A write of the disk, which the kernel reports.
Write(f, t) ==
    /\ writes < MaxWrites
    /\ writes' = writes + 1
    /\ disk' = [disk EXCEPT ![f] = t]
    /\ events' = [events EXCEPT ![f] = @ + 1]

\* Another program changes a file, or has written a part of it.
ExternalWrite ==
    \E f \in Files : \E t \in TextsOf(f) \ {disk[f]} :
        /\ Write(f, t)
        /\ UNCHANGED <<tabVars, entry, loose, bodies, fileEvents, conflict, histVars>>
-----------------------------------------------------------------------------
(* The watcher.                                                            *)

\* Watcher.loop and scheduleNotify: the timer in the map is stopped, unless it
\* has fired, and a new one takes its place.
ScheduleNotify(f) ==
    /\ events[f] > 0
    /\ events' = [events EXCEPT ![f] = @ - 1]
    /\ entry' = [entry EXCEPT ![f] = "armed"]
    /\ UNCHANGED <<disk, tabVars, loose, bodies, fileEvents, conflict, histVars, writes>>

TimerFires(f) ==
    /\ \/ entry[f] = "armed" /\ entry' = [entry EXCEPT ![f] = "fired"] /\ UNCHANGED loose
       \/ loose[f] > 0 /\ loose' = [loose EXCEPT ![f] = @ - 1] /\ UNCHANGED entry
    /\ bodies' = [bodies EXCEPT ![f] = @ + 1]
    /\ UNCHANGED <<disk, tabVars, events, fileEvents, conflict, histVars, writes>>

Deliver_Always(f) == fileEvents' = Append(fileEvents, f) /\ UNCHANGED missed

\* The callback of editor.New: it does not wait for room in the channel.
Deliver(f) ==
    \/ /\ Len(fileEvents) < FileCap
       /\ fileEvents' = Append(fileEvents, f)
       /\ UNCHANGED missed
    \/ /\ Len(fileEvents) = FileCap
       /\ missed' = IF f \in ToSet(fileEvents) THEN missed ELSE missed \union {f}
       /\ UNCHANGED fileEvents

\* The timer's function deletes the entry of its file, also when it is of a newer
\* timer (which nobody can stop from then on), and calls back.
TimerRuns(f) ==
    /\ bodies[f] > 0
    /\ bodies' = [bodies EXCEPT ![f] = @ - 1]
    /\ entry' = [entry EXCEPT ![f] = "none"]
    /\ loose' = [loose EXCEPT ![f] = IF entry[f] = "armed" THEN @ + 1 ELSE @]
    /\ Deliver(f)
    /\ UNCHANGED <<disk, tabVars, events, conflict, told, writes>>
-----------------------------------------------------------------------------
(* The UI.                                                                 *)

\* buffer.Load of what the disk holds.
LoadFrom(f) ==
    /\ buf' = [buf EXCEPT ![f] = disk[f]]
    /\ saved' = [saved EXCEPT ![f] = disk[f]]
    /\ missed' = missed \ {f}
    /\ told' = told \ {f}

\* ReadFile failed: the tab stays as it is, and nothing tries again.
Unreadable(f) == missed' = missed \union {f} /\ UNCHANGED <<tabVars, told>>

FileChanged_NotWhileAsking ==
    /\ fileEvents # <<>>
    /\ fileEvents' = Tail(fileEvents)
    /\ LET f == Head(fileEvents)
       IN \/ conflict # NoFile /\ UNCHANGED <<tabVars, histVars, conflict>>
          \/ conflict = NoFile /\ ~Dirty(f) /\ LoadFrom(f) /\ UNCHANGED conflict
          \/ conflict = NoFile /\ Dirty(f) /\ conflict' = f /\ told' = told \union {f}
               /\ UNCHANGED <<tabVars, missed>>
    /\ UNCHANGED <<disk, watcherVars, writes>>

FileChanged_Blindly ==
    /\ fileEvents # <<>>
    /\ fileEvents' = Tail(fileEvents)
    /\ LoadFrom(Head(fileEvents))
    /\ UNCHANGED <<disk, watcherVars, conflict, writes>>

\* FileChangedMsg: a clean buffer is loaded again, over a dirty one the prompt
\* opens, also when it is open for another file.
FileChanged ==
    /\ fileEvents # <<>>
    /\ fileEvents' = Tail(fileEvents)
    /\ LET f == Head(fileEvents)
       IN \/ ~Dirty(f) /\ (LoadFrom(f) \/ Unreadable(f)) /\ UNCHANGED conflict
          \/ Dirty(f) /\ conflict' = f /\ told' = told \union {f}
               /\ UNCHANGED <<tabVars, missed>>
    /\ UNCHANGED <<disk, watcherVars, writes>>

\* handleConflict: "r" loads the file the prompt is about, "i" keeps the buffer.
ConflictReload ==
    /\ conflict # NoFile
    /\ LoadFrom(conflict) \/ Unreadable(conflict)
    /\ conflict' = NoFile
    /\ UNCHANGED <<disk, watcherVars, fileEvents, writes>>

ConflictIgnore ==
    /\ conflict # NoFile
    /\ conflict' = NoFile
    /\ UNCHANGED <<disk, tabVars, watcherVars, fileEvents, histVars, writes>>

\* An open prompt takes the plain keys only: global chords (cut, the palette) and a
\* paste come before it, so it stops neither an edit nor a save.
Edit(f) ==
    /\ \E t \in TextsOf(f) : buf' = [buf EXCEPT ![f] = t]
    /\ UNCHANGED <<disk, saved, watcherVars, fileEvents, conflict, histVars, writes>>

\* saveActive does not look at the disk first.  A write that fails leaves any
\* part of the text behind, and the buffer dirty.
Save(f) ==
    /\ \/ /\ Write(f, buf[f])
          /\ saved' = [saved EXCEPT ![f] = buf[f]]
          /\ missed' = missed \ {f} /\ told' = told \ {f}
       \/ /\ \E t \in TextsOf(f) \ {disk[f]} : Write(f, t)
          /\ UNCHANGED <<saved, histVars>>
    /\ UNCHANGED <<buf, entry, loose, bodies, fileEvents, conflict>>

ReloadedBy_Any(g, f) == ~Dirty(g)

\* reloadChangedBuffer: the clean tabs of this file and of its namesakes.
ReloadedBy(g, f) == ~Dirty(g) /\ (g = f \/ {f, g} \in Namesakes)

\* A series the user accepted is on disk and shown.
ApplyAgentChange(f) ==
    /\ \E t \in TextsOf(f) :
         /\ Write(f, t)
         /\ buf' = [g \in Files |-> IF ReloadedBy(g, f) THEN t ELSE buf[g]]
         /\ saved' = [g \in Files |-> IF ReloadedBy(g, f) THEN t ELSE saved[g]]
    /\ UNCHANGED <<entry, loose, bodies, fileEvents, conflict, histVars>>
-----------------------------------------------------------------------------
WatcherNext == \E f \in Files : ScheduleNotify(f) \/ TimerFires(f) \/ TimerRuns(f)

UserNext ==
    \/ ConflictReload \/ ConflictIgnore
    \/ \E f \in Files : Edit(f) \/ Save(f) \/ ApplyAgentChange(f)

Next == ExternalWrite \/ WatcherNext \/ FileChanged \/ UserNext

Spec == Init /\ [][Next]_vars

\* The watcher's goroutines and the UI's message loop run; nobody has to type.
WatcherFairness ==
    /\ WF_vars(FileChanged)
    /\ \A f \in Files :
         WF_vars(ScheduleNotify(f)) /\ WF_vars(TimerFires(f)) /\ WF_vars(TimerRuns(f))

FairSpec == Spec /\ WatcherFairness
-----------------------------------------------------------------------------
(* Properties.                                                             *)

TypeOK ==
    /\ disk \in [Files -> Texts] /\ buf \in [Files -> Texts] /\ saved \in [Files -> Texts]
    /\ events \in [Files -> Nat] /\ loose \in [Files -> Nat] /\ bodies \in [Files -> Nat]
    /\ entry \in [Files -> {"none", "armed", "fired"}]
    /\ fileEvents \in Seq(Files) /\ Len(fileEvents) <= FileCap
    /\ conflict \in Files \union {NoFile}
    /\ missed \subseteq Files /\ told \subseteq Files
    /\ writes \in 0..MaxWrites

\* A clean buffer that is not what the disk holds, without a reason the user or
\* a full channel gave.
Stale(f) == ~Dirty(f) /\ saved[f] # disk[f] /\ f \notin missed \union told

\* News of the file are on their way to the UI.
UnderWay(f) ==
    \/ events[f] > 0 \/ entry[f] = "armed" \/ loose[f] > 0 \/ bodies[f] > 0
    \/ f \in ToSet(fileEvents)

\* Whatever the debouncing timers replace, orphan and merge, a clean buffer shows
\* what is on disk or will be told: news are lost by a full channel or a failed
\* read, and in no other way.
StaleIsNoticed == \A f \in Files : Stale(f) => UnderWay(f)

\* No buffer ever shows, nor saves, the text of another file.
BufferHasOwnText == \A f \in Files : buf[f] \in TextsOf(f) /\ saved[f] \in TextsOf(f)

\* A step of the user's typing: it changes a buffer and nothing else.
OnlyTyping ==
    UNCHANGED <<disk, saved, watcherVars, fileEvents, conflict, histVars, writes>>

\* Unsaved edits go by typing, or by the disk's text when the user says so, at a
\* prompt about that very file: no message and no agent's change replaces them.
UnsavedIsKept ==
    [][\A f \in Files :
         Dirty(f) /\ buf'[f] # buf[f] => OnlyTyping \/ (conflict = f /\ conflict' = NoFile)]_vars

\* A clean buffer catches up with the disk.
CatchesUp == \A f \in Files : Stale(f) ~> ~Stale(f)

\* A clean buffer is its own file as it is on disk, or the news are under way.
BuffersAreTheirFiles == StaleIsNoticed /\ BufferHasOwnText
=============================================================================
