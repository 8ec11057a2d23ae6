-------------------------- MODULE DbgpBreakpoints --------------------------
(***************************************************************************)
(* SetBreakpoints of the DBGp client (internal/dbgp): DBGp sets one        *)
(* breakpoint per command, so the client keeps the ids of those it knows   *)
(* to be installed in a file and sets and removes only the difference.     *)
(* The panel calls it from a goroutine per change, and two calls for one   *)
(* file may overlap: mu is only held to look and to store.                 *)
(***************************************************************************)
EXTENDS Integers, FiniteSets

CONSTANTS
    DbgpSyncs,     \* the calls of SetBreakpoints, each on a goroutine
    DbgpLines,     \* lines with breakpoints
    MaxBreakIds,   \* bound of the model: breakpoints the engine sets
    NoLine         \* the line of a call between two lines

ASSUME DbgpBreakAssumption == MaxBreakIds \in Nat /\ DbgpLines \subseteq Nat

VARIABLES
    known,         \* Client.breakpoints: line -> id, 0 for none
    installed,     \* the engine's breakpoints: <<id, line>>
    ids,           \* the ids the engine has given
    syncs          \* the calls: [at, want, todo, line, id, stale]

breakVars == <<known, installed, ids, syncs>>

NoSync == [at |-> "idle", want |-> {}, todo |-> {}, line |-> NoLine, id |-> 0, stale |-> {}]

DbgpBreakInit ==
    /\ known = [l \in DbgpLines |-> 0] /\ installed = {} /\ ids = 0
    /\ syncs = [s \in DbgpSyncs |-> NoSync]
-----------------------------------------------------------------------------
SyncAt(s, where) == syncs[s].at = where

SyncBegins(s, lines) ==
    /\ SyncAt(s, "idle")
    /\ syncs' = [syncs EXCEPT ![s].at = "look", ![s].want = lines, ![s].todo = lines]
    /\ UNCHANGED <<known, installed, ids>>

\* Under mu: is the next line installed?
SyncLooks(s) ==
    /\ SyncAt(s, "look")
    /\ \E l \in syncs[s].todo :
           /\ \A k \in syncs[s].todo : l <= k
           /\ syncs' = [syncs EXCEPT ![s].todo = @ \ {l}, ![s].line = l,
                                     ![s].at = IF known[l] # 0 THEN "look" ELSE "set"]
    /\ UNCHANGED <<known, installed, ids>>

\* breakpoint_set: the engine gives the breakpoint an id, or the call fails.
SyncSets(s) ==
    /\ SyncAt(s, "set")
    /\ \/ /\ ids < MaxBreakIds /\ ids' = ids + 1
          /\ installed' = installed \cup {<<ids + 1, syncs[s].line>>}
          /\ syncs' = [syncs EXCEPT ![s].at = "store", ![s].id = ids + 1]
       \/ syncs' = [syncs EXCEPT ![s].at = "look"] /\ UNCHANGED <<ids, installed>>
    /\ UNCHANGED known

SyncStores(s) ==
    /\ SyncAt(s, "store")
    /\ known' = [known EXCEPT ![syncs[s].line] = syncs[s].id]
    /\ syncs' = [syncs EXCEPT ![s].at = "look"]
    /\ UNCHANGED <<installed, ids>>

\* What is removed stays known.
SyncForgetsNothing(s) ==
    /\ SyncAt(s, "look") /\ syncs[s].todo = {}
    /\ LET stale == {l \in DbgpLines \ syncs[s].want : known[l] # 0}
       IN  syncs' = [syncs EXCEPT ![s].at = "remove", ![s].stale = {known[l] : l \in stale}]
    /\ UNCHANGED <<known, installed, ids>>

SyncForgetsAnyLine(s) ==
    /\ SyncAt(s, "look") /\ syncs[s].todo = {}
    /\ LET stale == DbgpLines \ syncs[s].want
       IN  /\ known' = [l \in DbgpLines |-> IF l \in stale THEN 0 ELSE known[l]]
           /\ syncs' = [syncs EXCEPT ![s].at = "remove", ![s].stale = {known[l] : l \in stale}]
    /\ UNCHANGED <<installed, ids>>

\* Under mu: the lines nobody wants any more are forgotten ...
SyncForgets(s) ==
    /\ SyncAt(s, "look") /\ syncs[s].todo = {}
    /\ LET stale == {l \in DbgpLines \ syncs[s].want : known[l] # 0}
       IN  /\ known' = [l \in DbgpLines |-> IF l \in stale THEN 0 ELSE known[l]]
           /\ syncs' = [syncs EXCEPT ![s].at = "remove", ![s].stale = {known[l] : l \in stale}]
    /\ UNCHANGED <<installed, ids>>

\* ... and then removed, whatever comes of it.
SyncRemoves(s) ==
    /\ SyncAt(s, "remove")
    /\ \E kept \in {{}, syncs[s].stale} :
           installed' = {p \in installed : p[1] \notin syncs[s].stale \/ p[1] \in kept}
    /\ syncs' = [syncs EXCEPT ![s] = NoSync]
    /\ UNCHANGED <<known, ids>>

DbgpBreakNext ==
    \E s \in DbgpSyncs :
        \/ \E lines \in SUBSET DbgpLines : SyncBegins(s, lines)
        \/ SyncLooks(s) \/ SyncSets(s) \/ SyncStores(s) \/ SyncForgets(s) \/ SyncRemoves(s)

DbgpBreakSpec == DbgpBreakInit /\ [][DbgpBreakNext]_breakVars
-----------------------------------------------------------------------------
DbgpBreakTypeOK ==
    /\ ids \in 0..MaxBreakIds /\ known \in [DbgpLines -> 0..ids]
    /\ installed \subseteq (1..ids) \X DbgpLines
    /\ \A s \in DbgpSyncs : syncs[s].stale \subseteq 1..ids
    /\ \A s \in DbgpSyncs : syncs[s].at \in {"idle", "look", "set", "store", "remove"}

\* Every breakpoint the client knows is one the engine has, for the line it is
\* known for, however two synchronizations of a file overlap.
KnownAreInstalled ==
    \A l \in DbgpLines : known[l] # 0 => <<known[l], l>> \in installed
=============================================================================
