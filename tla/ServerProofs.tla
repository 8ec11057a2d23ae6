---------------------------- MODULE ServerProofs ----------------------------
(***************************************************************************)
(* Safety of the clients of other programs for any bounds: the debuggers'  *)
(* (the sessions of DapSession, those of DbgpSession and the breakpoints   *)
(* of DBGp), then the language server's.                                   *)
(***************************************************************************)
EXTENDS DapSession, DbgpSession, DbgpBreakpoints, LspSession, SequenceTheorems,
        FiniteSetTheorems, TLAPS

(***************************************************************************)
(* DapSession.  A session is started once, by a command and then a result  *)
(* of its generation, and has a client only after that: so the handler of  *)
(* a start finds no older client to forget.                                *)
(***************************************************************************)
CmdKinds  == {"start", "launch", "continue", "next", "pause", "refresh", "close"}
CmdType   == [kind : CmdKinds, gen : Nat, cl : Nat]
DoneType  == [kind : CmdKinds \cup {"follow"}, gen : Nat, cl : Nat, ok : BOOLEAN, n : Nat]
EventType == [kind : {"stopped", "terminated", "disconnected"}, gen : Sessions, n : Nat]

DapTypes ==
    /\ dapGen \in 0..MaxSessions /\ dapClient \in 0..MaxSessions
    /\ dapRunState \in {"idle", "launch", "run", "stop", "end"}
    /\ dapBusy \in BOOLEAN /\ follow \in BOOLEAN
    /\ inFlight \subseteq CmdType /\ results \subseteq DoneType
    /\ \A c \in inFlight : c.kind # "start" => c.cl \in Sessions
    /\ dapCh \in Seq(EventType) /\ Len(dapCh) <= DapQueue
    /\ adapter \in [Sessions -> {"none", "up", "gone", "closed"}]
    /\ program \in [Sessions -> {"none", "running", "stopped", "ended"}]
    /\ stops \in [Sessions -> Nat]

\* A session's adapter is started by one command, which has one result.
StartsOnce ==
    /\ \A g \in Sessions : g > dapGen => adapter[g] = "none"
    /\ \A c \in inFlight : c.kind = "start" =>
         /\ c.gen \in Sessions /\ c.gen <= dapGen /\ c.cl = 0
         /\ adapter[c.gen] = "none"
         /\ \A r \in results : r.kind = "start" => r.gen # c.gen
    /\ \A r \in results : r.kind = "start" =>
         /\ r.gen \in Sessions /\ r.gen <= dapGen
         /\ r.cl = IF r.ok THEN r.gen ELSE 0
    /\ \A r, s \in results : r.kind = "start" /\ s.kind = "start" /\ r.gen = s.gen => r = s

\* The client is the adapter of this generation, whose start is over.
ClientIsCurrent ==
    dapClient # 0 => /\ dapClient = dapGen
                     /\ \A c \in inFlight \cup results : c.kind = "start" => c.gen # dapGen

\* What the channel says of an adapter that went away is true.
GoneIsGone ==
    \A i \in 1..Len(dapCh) :
        dapCh[i].kind = "disconnected" => adapter[dapCh[i].gen] \in {"gone", "closed"}

DapInv ==
    /\ DapTypes
    /\ StartsOnce /\ ClientIsCurrent /\ GoneIsGone
    /\ AdaptersAreOwned /\ LaunchIsUnderWay

LEMMA DapInitHolds == DapInit => DapInv
<1> SUFFICES ASSUME DapInit PROVE DapInv
  OBVIOUS
<1>1. DapTypes
  <2>1. dapCh \in Seq(EventType) /\ Len(dapCh) <= DapQueue
    BY EmptySeq, DapBoundsAssumption DEF DapInit
  <2>2. 0 \in 0..MaxSessions
    BY DapBoundsAssumption
  <2> QED BY <2>1, <2>2 DEF DapInit, DapTypes
<1>2. dapCh = <<>> /\ Len(dapCh) = 0
  BY DEF DapInit
<1> QED BY <1>1, <1>2 DEF DapInit, DapInv, StartsOnce, ClientIsCurrent, GoneIsGone,
                          AdaptersAreOwned, LaunchIsUnderWay

\* What an event channel still holds, after one more or one less.
LEMMA EmitKeeps ==
    ASSUME DapTypes, NEW kind \in {"stopped", "terminated", "disconnected"}, NEW g \in Sessions,
           stops' \in [Sessions -> Nat], Emit(kind, g)
    PROVE  /\ dapCh' \in Seq(EventType) /\ Len(dapCh') <= DapQueue
           /\ \A i \in 1..Len(dapCh') :
                \/ i \in 1..Len(dapCh) /\ dapCh'[i] = dapCh[i]
                \/ dapCh'[i].kind = kind /\ dapCh'[i].gen = g
<1>1. PICK ev : ev = [kind |-> kind, gen |-> g, n |-> stops'[g]]
  OBVIOUS
<1>2. ev \in EventType /\ ev.kind = kind /\ ev.gen = g
  BY <1>1 DEF EventType
<1>3. dapCh \in Seq(EventType) /\ Len(dapCh) \in Nat /\ Len(dapCh) <= DapQueue /\ DapQueue \in Nat
  BY DapBoundsAssumption, LenProperties DEF DapTypes
<1>4. dapCh' = IF Len(dapCh) < DapQueue THEN Append(dapCh, ev) ELSE dapCh
  BY <1>1 DEF Emit
<1>5. CASE Len(dapCh) < DapQueue
  <2>1. /\ dapCh' \in Seq(EventType) /\ Len(dapCh') = Len(dapCh) + 1
        /\ \A i \in 1..Len(dapCh) : dapCh'[i] = dapCh[i]
        /\ dapCh'[Len(dapCh) + 1] = ev
    BY <1>2, <1>3, <1>4, <1>5, AppendProperties
  <2> QED BY <1>2, <1>3, <1>5, <2>1
<1>6. CASE ~(Len(dapCh) < DapQueue)
  BY <1>3, <1>4, <1>6
<1> QED BY <1>5, <1>6

\* Where no start ends and no adapter comes or goes, the invariant is about what is
\* under way: commands may end, results may be handled, others may be sent off.
LEMMA CommandsCarryOn ==
    ASSUME DapInv, DapTypes', GoneIsGone',
           UNCHANGED <<dapGen, dapClient, adapter>>,
           \A c \in inFlight : c \in inFlight' \/ c.kind \notin {"start", "close"},
           \A c \in inFlight' : c \in inFlight \/ c.kind # "start",
           \A r \in results : r \in results' \/ r.kind # "start",
           \A r \in results' : r \in results \/ r.kind # "start",
           LaunchIsUnderWay'
    PROVE  DapInv'
<1>1. StartsOnce'
  BY DEF DapInv, StartsOnce
<1>2. ClientIsCurrent'
  BY DEF DapInv, ClientIsCurrent
<1>3. AdaptersAreOwned'
  BY DEF DapInv, AdaptersAreOwned
<1> QED BY <1>1, <1>2, <1>3 DEF DapInv

LEMMA GoneUndisturbed ==
    ASSUME DapInv, dapCh' = dapCh, adapter' = adapter
    PROVE  GoneIsGone'
BY DEF DapInv, GoneIsGone

\* A command that is neither a start nor a close ends with a result of its kind.
LEMMA CommandEnds ==
    ASSUME DapInv, NEW c \in inFlight, c.kind \notin {"start", "close"},
           NEW ok \in BOOLEAN, NEW n \in Nat, Ends(c, ok, n),
           UNCHANGED <<panelVars, adapter, stops, dapCh>>,
           program' \in [Sessions -> {"none", "running", "stopped", "ended"}]
    PROVE  DapInv'
<1>1. c \in CmdType
  BY DEF DapInv, DapTypes
<1>2. PICK r : r = Result(c, ok, n)
  OBVIOUS
<1>3. r \in DoneType /\ r.kind = c.kind /\ r.gen = c.gen
  BY <1>1, <1>2 DEF Result, CmdType, DoneType
<1>4. inFlight' = inFlight \ {c} /\ results' = results \cup {r}
  BY <1>2 DEF Ends
<1>5. DapTypes'
  BY <1>3, <1>4 DEF DapInv, DapTypes, panelVars
<1>6. GoneIsGone'
  BY GoneUndisturbed
<1>7. LaunchIsUnderWay'
  BY <1>3, <1>4 DEF DapInv, LaunchIsUnderWay, panelVars
<1> QED BY <1>3, <1>4, <1>5, <1>6, <1>7, CommandsCarryOn DEF panelVars

\* A key that sends one more command off.
LEMMA CommandSent ==
    ASSUME DapInv, NEW kind \in {"continue", "pause", "next", "refresh"},
           inFlight' = inFlight \/ (dapClient # 0
                           /\ inFlight' = inFlight \cup {Cmd(kind, dapGen, dapClient)}),
           UNCHANGED <<panelVars, backendVars, dapCh, results>>
    PROVE  DapInv'
<1>1. PICK c : c = Cmd(kind, dapGen, dapClient)
  OBVIOUS
<1>2. c.kind = kind /\ c.cl = dapClient /\ c \in CmdType
  BY <1>1 DEF Cmd, CmdType, CmdKinds, DapInv, DapTypes
<1>3. dapClient # 0 => dapClient \in Sessions
  BY DEF DapInv, DapTypes, Sessions
<1>4. inFlight' = inFlight \/ (dapClient # 0 /\ inFlight' = inFlight \cup {c})
  BY <1>1
<1>5. DapTypes'
  BY <1>2, <1>3, <1>4 DEF DapInv, DapTypes, panelVars, backendVars
<1>6. GoneIsGone'
  BY GoneUndisturbed DEF backendVars
<1>7. LaunchIsUnderWay'
  BY <1>4 DEF DapInv, LaunchIsUnderWay, panelVars
<1> QED BY <1>2, <1>4, <1>5, <1>6, <1>7, CommandsCarryOn DEF panelVars, backendVars

\* A result that starts nothing is handled.
LEMMA ResultHandled ==
    ASSUME DapInv, NEW r \in results, r.kind # "start",
           dapRunState' \in {"idle", "launch", "run", "stop", "end"},
           dapBusy' \in BOOLEAN, follow' \in BOOLEAN,
           dapRunState' # "launch" \/ dapRunState' = dapRunState,
           dapBusy' => dapBusy,
           r.kind # "launch" \/ r.gen # dapGen \/ (~dapBusy' /\ dapRunState' # "launch"),
           results' = results \ {r}
             \/ results' = (results \ {r}) \cup {Result(Cmd("follow", 0, 0), TRUE, 0)},
           UNCHANGED <<dapGen, dapClient, backendVars, dapCh, inFlight>>
    PROVE  DapInv'
<1>1. PICK f : f = Result(Cmd("follow", 0, 0), TRUE, 0)
  OBVIOUS
<1>2. f \in DoneType /\ f.kind = "follow"
  BY <1>1 DEF Result, Cmd, DoneType
<1>3. results' = results \ {r} \/ results' = (results \ {r}) \cup {f}
  BY <1>1
<1>4. DapTypes'
  BY <1>2, <1>3 DEF DapInv, DapTypes, backendVars
<1>5. GoneIsGone'
  BY GoneUndisturbed DEF backendVars
<1>6. LaunchIsUnderWay'
  BY <1>3 DEF DapInv, LaunchIsUnderWay
<1> QED BY <1>2, <1>3, <1>4, <1>5, <1>6, CommandsCarryOn DEF backendVars

\* A session is over: its client is forgotten, and closed from a goroutine.
LEMMA ClientReleased ==
    ASSUME DapTypes, DapRelease
    PROVE  /\ dapClient' = 0 /\ inFlight' \subseteq CmdType /\ inFlight \subseteq inFlight'
           /\ \A c \in inFlight' : c.kind # "start" => c.cl \in Sessions
           /\ \A c \in inFlight' : c \in inFlight \/ c.kind = "close"
           /\ dapClient # 0 => \E c \in inFlight' : c.kind = "close" /\ c.cl = dapClient
<1>1. dapClient # 0 => dapClient \in Sessions
  BY DEF DapTypes, Sessions
<1>2. PICK c : c = Cmd("close", dapGen, dapClient)
  OBVIOUS
<1>3. c \in CmdType /\ c.kind = "close" /\ c.cl = dapClient
  BY <1>2 DEF Cmd, CmdType, CmdKinds, DapTypes
<1>4. dapClient' = 0 /\ inFlight' = IF dapClient = 0 THEN inFlight ELSE inFlight \cup {c}
  BY <1>2 DEF DapRelease
<1> QED BY <1>1, <1>3, <1>4 DEF DapTypes

LEMMA StartDebuggingKeeps ==
    ASSUME DapInv, StartDebugging
    PROVE  DapInv'
<1>1. CASE dapRunState = "stop" /\ DapStep("continue") /\ UNCHANGED panelVars
  BY <1>1, CommandSent DEF StartDebugging, DapStep
<1>2. CASE dapRunState = "run" /\ DapStep("pause") /\ UNCHANGED panelVars
  BY <1>2, CommandSent DEF StartDebugging, DapStep
<1>3. CASE dapRunState \notin {"stop", "run"} /\ dapGen' = dapGen + 1
  <2>1. PICK st, cl : st = Cmd("start", dapGen + 1, 0) /\ cl = Cmd("close", dapGen, dapClient)
    OBVIOUS
  <2>2. /\ dapGen \in Nat /\ dapGen + 1 \in Sessions /\ dapGen' = dapGen + 1
        /\ dapRunState' = "launch" /\ dapBusy' = TRUE /\ follow' = follow
        /\ dapClient' = 0
        /\ inFlight' = inFlight \cup (IF dapClient # 0 THEN {cl, st} ELSE {st})
        /\ UNCHANGED <<backendVars, dapCh, results>>
    <3>1. /\ dapGen < MaxSessions /\ dapRunState' = "launch" /\ dapBusy' = TRUE
          /\ IF dapClient # 0
             THEN dapClient' = 0 /\ inFlight' = inFlight \cup {cl, Cmd("start", dapGen', 0)}
             ELSE inFlight' = inFlight \cup {Cmd("start", dapGen', 0)} /\ UNCHANGED dapClient
          /\ UNCHANGED <<follow, backendVars, dapCh, results>>
      BY <1>3, <2>1 DEF StartDebugging
    <3>2. Cmd("start", dapGen', 0) = st
      BY <1>3, <2>1
    <3>3. dapGen \in Nat /\ MaxSessions \in Nat
      BY DapBoundsAssumption DEF DapInv, DapTypes
    <3> QED BY <1>3, <3>1, <3>2, <3>3 DEF Sessions
  <2>3. /\ st.kind = "start" /\ st.gen = dapGen + 1 /\ st.cl = 0 /\ st \in CmdType
        /\ cl.kind = "close" /\ cl.cl = dapClient /\ cl \in CmdType
    BY <2>1, <2>2 DEF Cmd, CmdType, CmdKinds, DapInv, DapTypes
  <2>4. dapClient # 0 => dapClient \in Sessions
    BY DEF DapInv, DapTypes, Sessions
  <2>5. DapTypes'
    <3>1. dapGen' \in 0..MaxSessions /\ dapClient' \in 0..MaxSessions
      BY <2>2, DapBoundsAssumption DEF Sessions
    <3>2. inFlight' \subseteq CmdType /\ \A c \in inFlight' : c.kind # "start" => c.cl \in Sessions
      BY <2>2, <2>3, <2>4 DEF DapInv, DapTypes
    <3> QED BY <2>2, <3>1, <3>2 DEF DapInv, DapTypes, backendVars
  <2>6. StartsOnce'
    <3>1. \A g \in Sessions : g > dapGen' => adapter'[g] = "none"
      BY <2>2 DEF DapInv, StartsOnce, backendVars, Sessions
    <3>2. ASSUME NEW c \in inFlight', c.kind = "start"
          PROVE  /\ c.gen \in Sessions /\ c.gen <= dapGen' /\ c.cl = 0
                 /\ adapter'[c.gen] = "none"
                 /\ \A r \in results' : r.kind = "start" => r.gen # c.gen
      <4>1. CASE c \in inFlight
        BY <2>2, <3>2, <4>1 DEF DapInv, StartsOnce, backendVars, Sessions
      <4>2. CASE c = st
        <5>1. \A r \in results : r.kind = "start" => r.gen <= dapGen /\ r.gen \in Sessions
          BY DEF DapInv, StartsOnce
        <5>2. adapter[dapGen + 1] = "none"
          BY <2>2 DEF DapInv, StartsOnce
        <5> QED BY <2>2, <2>3, <4>2, <5>1, <5>2 DEF backendVars, Sessions
      <4> QED BY <2>2, <2>3, <3>2, <4>1, <4>2
    <3>3. \A r \in results' : r.kind = "start" =>
             /\ r.gen \in Sessions /\ r.gen <= dapGen'
             /\ r.cl = IF r.ok THEN r.gen ELSE 0
      BY <2>2 DEF DapInv, StartsOnce, Sessions
    <3>4. \A r, s \in results' : r.kind = "start" /\ s.kind = "start" /\ r.gen = s.gen => r = s
      BY <2>2 DEF DapInv, StartsOnce
    <3> QED BY <3>1, <3>2, <3>3, <3>4 DEF StartsOnce
  <2>7. ClientIsCurrent'
    BY <2>2 DEF ClientIsCurrent
  <2>8. GoneIsGone'
    BY <2>2, GoneUndisturbed DEF backendVars
  <2>9. AdaptersAreOwned'
    BY <2>2, <2>3 DEF DapInv, AdaptersAreOwned, backendVars
  <2>10. LaunchIsUnderWay'
    BY <2>2, <2>3 DEF LaunchIsUnderWay
  <2> QED BY <2>5, <2>6, <2>7, <2>8, <2>9, <2>10 DEF DapInv
<1> QED BY <1>1, <1>2, <1>3 DEF StartDebugging

LEMMA StopDebuggingKeeps ==
    ASSUME DapInv, StopDebugging
    PROVE  DapInv'
<1>1. /\ dapGen \in Nat /\ dapGen' = dapGen + 1 /\ dapGen' \in Sessions
      /\ dapRunState' = "idle" /\ dapBusy' = FALSE /\ DapRelease
      /\ UNCHANGED <<backendVars, dapCh, results, follow>>
  BY DapBoundsAssumption DEF StopDebugging, DapInv, DapTypes, Sessions
<1>2. /\ dapClient' = 0 /\ inFlight' \subseteq CmdType /\ inFlight \subseteq inFlight'
      /\ \A c \in inFlight' : c.kind # "start" => c.cl \in Sessions
      /\ \A c \in inFlight' : c \in inFlight \/ c.kind = "close"
      /\ dapClient # 0 => \E c \in inFlight' : c.kind = "close" /\ c.cl = dapClient
  BY <1>1, ClientReleased DEF DapInv
<1>3. DapTypes'
  <2>1. dapGen' \in 0..MaxSessions /\ dapClient' \in 0..MaxSessions
    BY <1>1, <1>2, DapBoundsAssumption DEF Sessions
  <2> QED BY <1>1, <1>2, <2>1 DEF DapInv, DapTypes, backendVars
<1>4. StartsOnce'
  <2>1. \A g \in Sessions : g > dapGen' => adapter'[g] = "none"
    BY <1>1 DEF DapInv, StartsOnce, backendVars, Sessions
  <2>2. \A c \in inFlight' : c.kind = "start" =>
          /\ c.gen \in Sessions /\ c.gen <= dapGen' /\ c.cl = 0
          /\ adapter'[c.gen] = "none"
          /\ \A r \in results' : r.kind = "start" => r.gen # c.gen
    BY <1>1, <1>2 DEF DapInv, StartsOnce, backendVars, Sessions
  <2>3. \A r \in results' : r.kind = "start" =>
           /\ r.gen \in Sessions /\ r.gen <= dapGen'
           /\ r.cl = IF r.ok THEN r.gen ELSE 0
    BY <1>1 DEF DapInv, StartsOnce, Sessions
  <2>4. \A r, s \in results' : r.kind = "start" /\ s.kind = "start" /\ r.gen = s.gen => r = s
    BY <1>1 DEF DapInv, StartsOnce
  <2> QED BY <2>1, <2>2, <2>3, <2>4 DEF StartsOnce
<1>5. ClientIsCurrent' /\ LaunchIsUnderWay'
  BY <1>1, <1>2 DEF ClientIsCurrent, LaunchIsUnderWay
<1>6. GoneIsGone'
  BY <1>1, GoneUndisturbed DEF backendVars
<1>7. AdaptersAreOwned'
  BY <1>1, <1>2 DEF DapInv, AdaptersAreOwned, backendVars
<1> QED BY <1>3, <1>4, <1>5, <1>6, <1>7 DEF DapInv

\* The adapter of a start is up before its result is on the way: one owner follows
\* the other.
LEMMA DapStartEndsKeeps ==
    ASSUME DapInv, DapStartEnds
    PROVE  DapInv'
<1>1. PICK c \in inFlight :
        /\ c.kind = "start"
        /\ \/ /\ adapter' = [adapter EXCEPT ![c.gen] = "up"]
              /\ inFlight' = inFlight \ {c}
              /\ results' = results \cup {Result([c EXCEPT !.cl = c.gen], TRUE, 0)}
           \/ Ends(c, FALSE, 0) /\ UNCHANGED adapter
        /\ UNCHANGED <<panelVars, program, stops, dapCh>>
  BY DEF DapStartEnds
<1>2. /\ c \in CmdType /\ c.gen \in Sessions /\ c.gen <= dapGen /\ c.cl = 0
      /\ adapter[c.gen] = "none"
      /\ \A r \in results : r.kind = "start" => r.gen # c.gen
  BY <1>1 DEF DapInv, DapTypes, StartsOnce
<1>3. PICK r \in DoneType :
        /\ r.kind = "start" /\ r.gen = c.gen /\ r.cl = IF r.ok THEN c.gen ELSE 0
        /\ inFlight' = inFlight \ {c} /\ results' = results \cup {r}
        /\ adapter' = IF r.ok THEN [adapter EXCEPT ![c.gen] = "up"] ELSE adapter
  <2>1. CASE /\ adapter' = [adapter EXCEPT ![c.gen] = "up"]
             /\ inFlight' = inFlight \ {c}
             /\ results' = results \cup {Result([c EXCEPT !.cl = c.gen], TRUE, 0)}
    <3>1. PICK r : r = Result([c EXCEPT !.cl = c.gen], TRUE, 0)
      OBVIOUS
    <3>2. r \in DoneType /\ r.kind = "start" /\ r.gen = c.gen /\ r.cl = c.gen /\ r.ok
      BY <1>1, <1>2, <3>1 DEF Result, CmdType, DoneType, Sessions
    <3> QED BY <2>1, <3>1, <3>2
  <2>2. CASE Ends(c, FALSE, 0) /\ UNCHANGED adapter
    <3>1. PICK r : r = Result(c, FALSE, 0)
      OBVIOUS
    <3>2. r \in DoneType /\ r.kind = "start" /\ r.gen = c.gen /\ r.cl = 0 /\ r.ok = FALSE
      BY <1>1, <1>2, <3>1 DEF Result, CmdType, DoneType
    <3> QED BY <2>2, <3>1, <3>2 DEF Ends
  <2> QED BY <1>1, <2>1, <2>2
<1>4. UNCHANGED <<dapGen, dapClient, dapRunState, dapBusy, follow, program, stops, dapCh>>
  BY <1>1 DEF panelVars
<1>5. adapter' \in [Sessions -> {"none", "up", "gone", "closed"}]
      /\ \A g \in Sessions : g # c.gen => adapter'[g] = adapter[g]
  BY <1>2, <1>3 DEF DapInv, DapTypes
<1>6. DapTypes'
  BY <1>3, <1>4, <1>5 DEF DapInv, DapTypes
<1>7. \A d \in inFlight' : d.kind = "start" => d \in inFlight /\ d.gen # c.gen
  <2> SUFFICES ASSUME NEW d \in inFlight, d # c, d.kind = "start" PROVE d.gen # c.gen
    BY <1>3
  <2>1. d \in CmdType /\ d.cl = 0
    BY DEF DapInv, DapTypes, StartsOnce
  <2> QED BY <1>1, <1>2, <2>1 DEF CmdType
<1>8. StartsOnce'
  <2>1. \A g \in Sessions : g > dapGen' => adapter'[g] = "none"
    BY <1>2, <1>4, <1>5 DEF DapInv, StartsOnce, Sessions, DapTypes
  <2>2. ASSUME NEW d \in inFlight', d.kind = "start"
        PROVE  /\ d.gen \in Sessions /\ d.gen <= dapGen' /\ d.cl = 0
               /\ adapter'[d.gen] = "none"
               /\ \A s \in results' : s.kind = "start" => s.gen # d.gen
    <3>1. /\ d \in inFlight /\ d.gen # c.gen /\ d.gen \in Sessions
          /\ d.gen <= dapGen /\ d.cl = 0 /\ adapter[d.gen] = "none"
          /\ \A s \in results : s.kind = "start" => s.gen # d.gen
      BY <1>7, <2>2 DEF DapInv, StartsOnce
    <3> QED BY <1>3, <1>4, <1>5, <3>1
  <2>3. \A s \in results' : s.kind = "start" =>
           /\ s.gen \in Sessions /\ s.gen <= dapGen'
           /\ s.cl = IF s.ok THEN s.gen ELSE 0
    BY <1>2, <1>3, <1>4 DEF DapInv, StartsOnce
  <2>4. \A s, t \in results' : s.kind = "start" /\ t.kind = "start" /\ s.gen = t.gen => s = t
    BY <1>2, <1>3 DEF DapInv, StartsOnce
  <2> QED BY <2>1, <2>2, <2>3, <2>4 DEF StartsOnce
<1>9. ClientIsCurrent'
  BY <1>1, <1>3, <1>4 DEF DapInv, ClientIsCurrent
<1>10. GoneIsGone'
  <2> SUFFICES ASSUME NEW i \in 1..Len(dapCh), dapCh[i].kind = "disconnected"
               PROVE  adapter'[dapCh[i].gen] \in {"gone", "closed"}
    BY <1>4 DEF GoneIsGone
  <2>1. adapter[dapCh[i].gen] \in {"gone", "closed"}
    BY DEF DapInv, GoneIsGone
  <2>2. dapCh[i] \in EventType
    BY ElementOfSeq DEF DapInv, DapTypes
  <2> QED BY <1>2, <1>5, <2>1, <2>2 DEF EventType
<1>11. AdaptersAreOwned'
  <2> SUFFICES ASSUME NEW g \in Sessions, adapter'[g] = "up"
               PROVE  \/ dapClient' = g
                      \/ \E s \in results' : s.kind = "start" /\ s.cl = g
                      \/ \E d \in inFlight' : d.kind = "close" /\ d.cl = g
    BY DEF AdaptersAreOwned
  <2>1. CASE g = c.gen
    <3>1. r.ok
      BY <1>2, <1>3, <2>1
    <3> QED BY <1>3, <2>1, <3>1
  <2>2. CASE g # c.gen
    <3>1. adapter[g] = "up"
      BY <1>5, <2>2
    <3> QED BY <1>1, <1>3, <1>4, <3>1 DEF DapInv, AdaptersAreOwned
  <2> QED BY <2>1, <2>2
<1>12. LaunchIsUnderWay'
  BY <1>1, <1>3, <1>4 DEF DapInv, LaunchIsUnderWay
<1> QED BY <1>6, <1>8, <1>9, <1>10, <1>11, <1>12 DEF DapInv

\* An adapter that is closed was up: nothing else about adapters changes.
LEMMA ClosedType ==
    ASSUME DapTypes, NEW g
    PROVE  /\ AdapterClosed(g) \in [Sessions -> {"none", "up", "gone", "closed"}]
           /\ \A h \in Sessions : /\ h # g => AdapterClosed(g)[h] = adapter[h]
                                  /\ AdapterClosed(g)[h] = "up" => adapter[h] = "up" /\ h # g
                                  /\ adapter[h] # "up" => AdapterClosed(g)[h] = adapter[h]
BY DEF DapTypes, AdapterClosed

\* What is up afterwards was up before, and what was not up has not changed.
LEMMA FewerAdapters ==
    ASSUME DapInv, adapter' \in [Sessions -> {"none", "up", "gone", "closed"}],
           \A h \in Sessions : adapter[h] # "up" => adapter'[h] = adapter[h],
           dapGen' = dapGen,
           \A c \in inFlight' : c \in inFlight \/ c.kind # "start",
           \A r \in results' : r \in results \/ r.kind # "start"
    PROVE  StartsOnce'
<1>1. \A g \in Sessions : g > dapGen' => adapter'[g] = "none"
  BY DEF DapInv, StartsOnce
<1>2. \A c \in inFlight' : c.kind = "start" =>
         /\ c.gen \in Sessions /\ c.gen <= dapGen' /\ c.cl = 0
         /\ adapter'[c.gen] = "none"
         /\ \A r \in results' : r.kind = "start" => r.gen # c.gen
  BY DEF DapInv, StartsOnce
<1>3. \A r \in results' : r.kind = "start" =>
         /\ r.gen \in Sessions /\ r.gen <= dapGen'
         /\ r.cl = IF r.ok THEN r.gen ELSE 0
  BY DEF DapInv, StartsOnce
<1>4. \A r, s \in results' : r.kind = "start" /\ s.kind = "start" /\ r.gen = s.gen => r = s
  BY DEF DapInv, StartsOnce
<1> QED BY <1>1, <1>2, <1>3, <1>4 DEF StartsOnce

LEMMA EventSession ==
    ASSUME DapTypes, NEW i \in 1..Len(dapCh)
    PROVE  dapCh[i].gen \in Sessions
<1>1. dapCh \in Seq(EventType)
  BY DEF DapTypes
<1>2. dapCh[i] \in EventType
  BY <1>1, ElementOfSeq
<1> QED BY <1>2 DEF EventType

LEMMA StillGone ==
    ASSUME DapInv, dapCh' = dapCh,
           \A h \in Sessions : adapter[h] # "up" => adapter'[h] = adapter[h]
    PROVE  GoneIsGone'
<1> SUFFICES ASSUME NEW i \in 1..Len(dapCh), dapCh[i].kind = "disconnected"
             PROVE  adapter'[dapCh[i].gen] \in {"gone", "closed"}
  BY DEF GoneIsGone
<1>1. adapter[dapCh[i].gen] \in {"gone", "closed"}
  BY DEF DapInv, GoneIsGone
<1>2. dapCh[i].gen \in Sessions
  BY EventSession DEF DapInv
<1> QED BY <1>1, <1>2

LEMMA DapClosesKeeps ==
    ASSUME DapInv, DapCloses
    PROVE  DapInv'
<1>1. PICK c \in inFlight :
        /\ c.kind = "close" /\ adapter' = AdapterClosed(c.cl) /\ inFlight' = inFlight \ {c}
        /\ UNCHANGED <<panelVars, program, stops, dapCh, results>>
  BY DEF DapCloses
<1>2. UNCHANGED <<dapGen, dapClient, dapRunState, dapBusy, follow>>
  BY <1>1 DEF panelVars
<1>3. /\ adapter' \in [Sessions -> {"none", "up", "gone", "closed"}]
      /\ \A h \in Sessions : /\ adapter[h] # "up" => adapter'[h] = adapter[h]
                             /\ adapter'[h] = "up" => adapter[h] = "up" /\ h # c.cl
  BY <1>1, ClosedType DEF DapInv
<1>4. DapTypes'
  BY <1>1, <1>2, <1>3 DEF DapInv, DapTypes
<1>5. StartsOnce' /\ GoneIsGone'
  BY <1>1, <1>2, <1>3, FewerAdapters, StillGone
<1>6. ClientIsCurrent' /\ LaunchIsUnderWay'
  BY <1>1, <1>2 DEF DapInv, ClientIsCurrent, LaunchIsUnderWay
<1>7. AdaptersAreOwned'
  BY <1>1, <1>2, <1>3 DEF DapInv, AdaptersAreOwned
<1> QED BY <1>4, <1>5, <1>6, <1>7 DEF DapInv

LEMMA BackendKeeps ==
    ASSUME DapInv, NEW g \in Sessions, ProgramStops(g) \/ ProgramEnds(g) \/ AdapterGoes(g)
    PROVE  DapInv'
<1>1. UNCHANGED <<dapGen, dapClient, dapRunState, dapBusy, follow, inFlight, results>>
  BY DEF ProgramStops, ProgramEnds, AdapterGoes, panelVars
<1>2. stops' \in [Sessions -> Nat]
      /\ program' \in [Sessions -> {"none", "running", "stopped", "ended"}]
  <2>1. /\ stops \in [Sessions -> Nat]
        /\ program \in [Sessions -> {"none", "running", "stopped", "ended"}]
    BY DEF DapInv, DapTypes
  <2>2. CASE ProgramStops(g)
    BY <2>1, <2>2 DEF ProgramStops
  <2>3. CASE ProgramEnds(g)
    BY <2>1, <2>3 DEF ProgramEnds
  <2>4. CASE AdapterGoes(g)
    BY <2>1, <2>4 DEF AdapterGoes
  <2> QED BY <2>2, <2>3, <2>4
<1>3. PICK kind \in {"stopped", "terminated", "disconnected"} :
        /\ Emit(kind, g)
        /\ adapter' = IF kind = "disconnected" THEN [adapter EXCEPT ![g] = "gone"] ELSE adapter
  BY DEF ProgramStops, ProgramEnds, AdapterGoes
<1>4. /\ dapCh' \in Seq(EventType) /\ Len(dapCh') <= DapQueue
      /\ \A i \in 1..Len(dapCh') :
           \/ i \in 1..Len(dapCh) /\ dapCh'[i] = dapCh[i]
           \/ dapCh'[i].kind = kind /\ dapCh'[i].gen = g
  BY <1>2, <1>3, EmitKeeps DEF DapInv
<1>5. adapter[g] = "up"
  BY DEF ProgramStops, ProgramEnds, AdapterGoes
<1>6. /\ adapter' \in [Sessions -> {"none", "up", "gone", "closed"}]
      /\ \A h \in Sessions : /\ adapter[h] # "up" => adapter'[h] = adapter[h]
                             /\ adapter'[h] = "up" => adapter[h] = "up"
      /\ kind = "disconnected" => adapter'[g] = "gone"
  BY <1>3, <1>5 DEF DapInv, DapTypes
<1>7. DapTypes'
  BY <1>1, <1>2, <1>4, <1>6 DEF DapInv, DapTypes
<1>8. StartsOnce'
  BY <1>1, <1>6, FewerAdapters
<1>9. GoneIsGone'
  <2> SUFFICES ASSUME NEW i \in 1..Len(dapCh'), dapCh'[i].kind = "disconnected"
               PROVE  adapter'[dapCh'[i].gen] \in {"gone", "closed"}
    BY DEF GoneIsGone
  <2>1. CASE i \in 1..Len(dapCh) /\ dapCh'[i] = dapCh[i]
    <3>1. adapter[dapCh[i].gen] \in {"gone", "closed"}
      BY <2>1 DEF DapInv, GoneIsGone
    <3>2. dapCh[i].gen \in Sessions
      BY <2>1, EventSession DEF DapInv
    <3> QED BY <1>6, <2>1, <3>1, <3>2
  <2>2. CASE dapCh'[i].kind = kind /\ dapCh'[i].gen = g
    BY <1>6, <2>2
  <2> QED BY <1>4, <2>1, <2>2
<1>10. ClientIsCurrent' /\ LaunchIsUnderWay'
  BY <1>1 DEF DapInv, ClientIsCurrent, LaunchIsUnderWay
<1>11. AdaptersAreOwned'
  BY <1>1, <1>6 DEF DapInv, AdaptersAreOwned
<1> QED BY <1>7, <1>8, <1>9, <1>10, <1>11 DEF DapInv

LEMMA HandleDapStartKeeps ==
    ASSUME DapInv, HandleDapStart
    PROVE  DapInv'
<1>1. PICK r \in results :
        /\ r.kind = "start" /\ results' = results \ {r}
        /\ \/ /\ r.gen # dapGen
              /\ adapter' = IF r.ok THEN AdapterClosed(r.cl) ELSE adapter
              /\ UNCHANGED <<panelVars, inFlight>>
           \/ /\ r.gen = dapGen
              /\ dapBusy' = FALSE
              /\ IF r.ok
                 THEN /\ dapClient' = r.cl /\ UNCHANGED dapRunState
                      /\ inFlight' = inFlight \cup {Cmd("launch", dapGen, r.cl)}
                 ELSE dapRunState' = "idle" /\ UNCHANGED <<dapClient, inFlight>>
              /\ UNCHANGED <<adapter, dapGen, dapFrames, dapCur, follow>>
        /\ UNCHANGED <<program, stops, dapCh>>
  BY DEF HandleDapStart
<1>2. /\ r \in DoneType /\ r.gen \in Sessions /\ r.gen <= dapGen
      /\ r.cl = IF r.ok THEN r.gen ELSE 0
      /\ \A s \in results : s.kind = "start" /\ s.gen = r.gen => s = r
      /\ \A c \in inFlight : c.kind = "start" => c.gen # r.gen
  BY <1>1 DEF DapInv, DapTypes, StartsOnce
<1>3. CASE r.gen # dapGen
  <2>1. /\ UNCHANGED <<dapGen, dapClient, dapRunState, dapBusy, follow, inFlight>>
        /\ adapter' = IF r.ok THEN AdapterClosed(r.cl) ELSE adapter
    BY <1>1, <1>3 DEF panelVars
  <2>2. /\ adapter' \in [Sessions -> {"none", "up", "gone", "closed"}]
        /\ \A h \in Sessions : /\ adapter[h] # "up" => adapter'[h] = adapter[h]
                               /\ adapter'[h] = "up" => adapter[h] = "up" /\ (r.ok => h # r.cl)
    BY <2>1, ClosedType DEF DapInv, DapTypes
  <2>3. DapTypes'
    BY <1>1, <2>1, <2>2 DEF DapInv, DapTypes
  <2>4. StartsOnce' /\ GoneIsGone'
    BY <1>1, <2>1, <2>2, FewerAdapters, StillGone
  <2>5. ClientIsCurrent' /\ LaunchIsUnderWay'
    BY <1>1, <1>3, <2>1 DEF DapInv, ClientIsCurrent, LaunchIsUnderWay
  <2>6. AdaptersAreOwned'
    <3> SUFFICES ASSUME NEW g \in Sessions, adapter'[g] = "up"
                 PROVE  \/ dapClient' = g
                        \/ \E s \in results' : s.kind = "start" /\ s.cl = g
                        \/ \E c \in inFlight' : c.kind = "close" /\ c.cl = g
      BY DEF AdaptersAreOwned
    <3>1. adapter[g] = "up" /\ g # r.cl
      BY <1>2, <2>2 DEF Sessions
    <3> QED BY <1>1, <2>1, <3>1 DEF DapInv, AdaptersAreOwned
  <2> QED BY <2>3, <2>4, <2>5, <2>6 DEF DapInv
<1>4. CASE r.gen = dapGen
  <2>1. dapClient = 0 /\ dapGen \in Sessions
    BY <1>1, <1>2, <1>4 DEF DapInv, ClientIsCurrent
  <2>2. PICK l : l = Cmd("launch", dapGen, r.cl)
    OBVIOUS
  <2>3. /\ UNCHANGED <<dapGen, adapter, follow, program, stops, dapCh>>
        /\ dapBusy' = FALSE
        /\ r.ok => /\ dapClient' = dapGen /\ dapRunState' = dapRunState
                   /\ inFlight' = inFlight \cup {l}
        /\ ~r.ok => /\ dapRunState' = "idle" /\ dapClient' = 0
                    /\ inFlight' = inFlight
    BY <1>1, <1>2, <1>4, <2>1, <2>2
  <2>4. r.ok => l \in CmdType /\ l.kind = "launch" /\ l.gen = dapGen /\ l.cl = dapGen
    BY <1>2, <1>4, <2>1, <2>2 DEF Cmd, CmdType, CmdKinds, DapInv, DapTypes
  <2>5. DapTypes'
    BY <1>1, <2>1, <2>3, <2>4 DEF DapInv, DapTypes
  <2>6. StartsOnce' /\ GoneIsGone'
    <3>1. \A c \in inFlight' : c \in inFlight \/ c.kind # "start"
      BY <2>3, <2>4
    <3>2. adapter' \in [Sessions -> {"none", "up", "gone", "closed"}]
      BY <2>3 DEF DapInv, DapTypes
    <3> QED BY <1>1, <2>3, <3>1, <3>2, FewerAdapters, StillGone
  <2>7. ClientIsCurrent'
    BY <1>1, <1>2, <1>4, <2>3, <2>4 DEF ClientIsCurrent
  <2>8. AdaptersAreOwned'
    <3> SUFFICES ASSUME NEW g \in Sessions, adapter[g] = "up"
                 PROVE  \/ dapClient' = g
                        \/ \E s \in results' : s.kind = "start" /\ s.cl = g
                        \/ \E c \in inFlight' : c.kind = "close" /\ c.cl = g
      BY <2>3 DEF AdaptersAreOwned
    <3>1. \/ \E s \in results : s.kind = "start" /\ s.cl = g
          \/ \E c \in inFlight : c.kind = "close" /\ c.cl = g
      BY <2>1 DEF DapInv, AdaptersAreOwned, Sessions
    <3>2. r.cl = g => r.ok /\ dapClient' = g
      BY <1>2, <1>4, <2>3 DEF Sessions
    <3> QED BY <1>1, <2>3, <3>1, <3>2
  <2>9. LaunchIsUnderWay'
    BY <2>3, <2>4 DEF LaunchIsUnderWay
  <2> QED BY <2>5, <2>6, <2>7, <2>8, <2>9 DEF DapInv
<1> QED BY <1>3, <1>4

LEMMA HandleDapLaunchKeeps ==
    ASSUME DapInv, HandleDapLaunch
    PROVE  DapInv'
<1>1. PICK r \in results :
        /\ r.kind = "launch" /\ results' = results \ {r}
        /\ \/ r.gen # dapGen /\ UNCHANGED <<panelVars, inFlight>>
           \/ /\ r.gen = dapGen
              /\ dapBusy' = FALSE
              /\ IF r.ok
                 THEN /\ dapRunState' = "run"
                      /\ UNCHANGED <<dapClient, dapFrames, dapCur, inFlight>>
                 ELSE dapRunState' = "idle" /\ DapRelease
              /\ UNCHANGED <<dapGen, follow>>
        /\ UNCHANGED <<backendVars, dapCh>>
  BY DEF HandleDapLaunch
<1>2. CASE r.gen # dapGen \/ r.ok
  <2>1. /\ UNCHANGED <<dapGen, dapClient, follow, inFlight>>
        /\ dapRunState' \in {dapRunState, "run"} /\ dapBusy' \in {dapBusy, FALSE}
        /\ r.gen # dapGen \/ (dapBusy' = FALSE /\ dapRunState' = "run")
    BY <1>1, <1>2 DEF panelVars
  <2>2. dapRunState \in {"idle", "launch", "run", "stop", "end"} /\ dapBusy \in BOOLEAN
        /\ follow \in BOOLEAN
    BY DEF DapInv, DapTypes
  <2>3. /\ dapRunState' \in {"idle", "launch", "run", "stop", "end"}
        /\ dapRunState' # "launch" \/ dapRunState' = dapRunState
        /\ dapBusy' \in BOOLEAN /\ follow' \in BOOLEAN
    BY <2>1, <2>2
  <2>4. dapBusy' => dapBusy
    BY <2>1
  <2>5. r.gen # dapGen \/ (~dapBusy' /\ dapRunState' # "launch")
    BY <2>1
  <2>6. r.kind # "start" /\ results' = results \ {r} /\ UNCHANGED <<backendVars, dapCh>>
    BY <1>1
  <2> QED BY <2>1, <2>3, <2>4, <2>5, <2>6, ResultHandled
<1>3. CASE r.gen = dapGen /\ ~r.ok
  <2>1. /\ dapBusy' = FALSE /\ dapRunState' = "idle" /\ DapRelease
        /\ UNCHANGED <<dapGen, follow, adapter, program, stops, dapCh>>
    BY <1>1, <1>3 DEF backendVars
  <2>2. /\ dapClient' = 0 /\ inFlight' \subseteq CmdType /\ inFlight \subseteq inFlight'
        /\ \A c \in inFlight' : c.kind # "start" => c.cl \in Sessions
        /\ \A c \in inFlight' : c \in inFlight \/ c.kind = "close"
        /\ dapClient # 0 => \E c \in inFlight' : c.kind = "close" /\ c.cl = dapClient
    BY <2>1, ClientReleased DEF DapInv
  <2>3. DapTypes'
    <3>1. dapClient' \in 0..MaxSessions
      BY <2>2, DapBoundsAssumption
    <3> QED BY <1>1, <2>1, <2>2, <3>1 DEF DapInv, DapTypes
  <2>4. StartsOnce' /\ GoneIsGone'
    <3>1. adapter' \in [Sessions -> {"none", "up", "gone", "closed"}]
      BY <2>1 DEF DapInv, DapTypes
    <3> QED BY <1>1, <2>1, <2>2, <3>1, FewerAdapters, StillGone
  <2>5. ClientIsCurrent' /\ LaunchIsUnderWay'
    BY <2>1, <2>2 DEF ClientIsCurrent, LaunchIsUnderWay
  <2>6. AdaptersAreOwned'
    BY <1>1, <2>1, <2>2 DEF DapInv, AdaptersAreOwned
  <2> QED BY <2>3, <2>4, <2>5, <2>6 DEF DapInv
<1> QED BY <1>1, <1>2, <1>3

LEMMA HandleDapEventKeeps ==
    ASSUME DapInv, HandleDapEvent
    PROVE  DapInv'
<1>1. /\ dapCh \in Seq(EventType) /\ dapCh # <<>> /\ Len(dapCh) \in Nat
      /\ dapCh' \in Seq(EventType) /\ Len(dapCh') = Len(dapCh) - 1
      /\ \A i \in 1..Len(dapCh') : i + 1 \in 1..Len(dapCh) /\ dapCh'[i] = dapCh[i + 1]
  <2>1. dapCh \in Seq(EventType) /\ dapCh # <<>> /\ dapCh' = Tail(dapCh) /\ Len(dapCh) \in Nat
    BY LenProperties DEF HandleDapEvent, DapInv, DapTypes
  <2> QED BY <2>1, HeadTailProperties
<1>2. Len(dapCh') <= DapQueue
  BY <1>1, DapBoundsAssumption DEF DapInv, DapTypes
<1>3. PICK e \in EventType : e = Head(dapCh) /\ e = dapCh[1] /\ 1 \in 1..Len(dapCh)
  BY <1>1, HeadTailProperties, ElementOfSeq
<1>4. UNCHANGED <<adapter, program, stops, dapGen, dapBusy>>
  BY <1>3 DEF HandleDapEvent, backendVars, panelVars
<1>5. GoneIsGone'
  <2> SUFFICES ASSUME NEW i \in 1..Len(dapCh'), dapCh'[i].kind = "disconnected"
               PROVE  adapter[dapCh'[i].gen] \in {"gone", "closed"}
    BY <1>4 DEF GoneIsGone
  <2> QED BY <1>1 DEF DapInv, GoneIsGone
<1>6. PICK f, c : f = Result(Cmd("follow", 0, 0), TRUE, 0) /\ c = Cmd("refresh", dapGen, dapClient)
  OBVIOUS
<1>7. /\ f \in DoneType /\ f.kind = "follow"
      /\ c \in CmdType /\ c.kind = "refresh" /\ c.cl = dapClient
  BY <1>6 DEF Result, Cmd, DoneType, CmdType, CmdKinds, DapInv, DapTypes
<1>8. dapClient # 0 => dapClient \in Sessions
  BY DEF DapInv, DapTypes, Sessions
<1>9. CASE ~(e.gen = dapGen /\ e.kind = "disconnected")
  <2>1. /\ dapClient' = dapClient
        /\ inFlight' = inFlight \/ (dapClient # 0 /\ inFlight' = inFlight \cup {c})
        /\ results' = results \/ results' = results \cup {f}
        /\ dapRunState' \in {dapRunState, "stop", "end"} /\ follow' \in {follow, TRUE}
    BY <1>3, <1>6, <1>9 DEF HandleDapEvent, panelVars
  <2>2. DapTypes'
    <3>1. /\ inFlight' \subseteq CmdType /\ results' \subseteq DoneType
          /\ \A d \in inFlight' : d.kind # "start" => d.cl \in Sessions
      BY <1>7, <1>8, <2>1 DEF DapInv, DapTypes
    <3> QED BY <1>1, <1>2, <1>4, <2>1, <3>1 DEF DapInv, DapTypes
  <2>3. LaunchIsUnderWay'
    BY <1>4, <2>1 DEF DapInv, LaunchIsUnderWay
  <2> QED BY <1>4, <1>5, <1>7, <2>1, <2>2, <2>3, CommandsCarryOn
<1>10. CASE e.gen = dapGen /\ e.kind = "disconnected"
  <2>1. /\ dapRunState' = "idle" /\ dapClient' = 0
        /\ UNCHANGED <<follow, inFlight, results>>
    BY <1>3, <1>10 DEF HandleDapEvent
  <2>2. adapter[dapGen] \in {"gone", "closed"}
    BY <1>3, <1>10 DEF DapInv, GoneIsGone
  <2>3. DapTypes'
    BY <1>1, <1>2, <1>4, <2>1, DapBoundsAssumption DEF DapInv, DapTypes
  <2>4. StartsOnce'
    BY <1>4, <2>1, FewerAdapters DEF DapInv, DapTypes
  <2>5. ClientIsCurrent' /\ LaunchIsUnderWay'
    BY <1>4, <2>1 DEF DapInv, ClientIsCurrent, LaunchIsUnderWay
  <2>6. AdaptersAreOwned'
    BY <1>4, <2>1, <2>2 DEF DapInv, ClientIsCurrent, AdaptersAreOwned
  <2> QED BY <1>5, <2>3, <2>4, <2>5, <2>6 DEF DapInv
<1> QED BY <1>9, <1>10

\* The other handlers: a step's, a refresh's and a follow's.
LEMMA QuietHandlersKeep ==
    ASSUME DapInv, HandleDapStep \/ HandleDapRefresh \/ HandleDapFollow
    PROVE  DapInv'
<1>0. /\ dapRunState \in {"idle", "launch", "run", "stop", "end"} /\ dapBusy \in BOOLEAN
      /\ follow \in BOOLEAN
  BY DEF DapInv, DapTypes
<1>1. CASE HandleDapStep
  <2>1. PICK r \in results :
          /\ r.kind \in {"continue", "next", "pause"} /\ results' = results \ {r}
          /\ dapRunState' \in {dapRunState, "run"}
          /\ UNCHANGED <<dapGen, dapClient, dapBusy, follow, backendVars, dapCh, inFlight>>
    BY <1>1 DEF HandleDapStep
  <2> QED BY <1>0, <2>1, ResultHandled
<1>2. CASE HandleDapRefresh
  <2>1. PICK r \in results :
          /\ r.kind = "refresh"
          /\ results' = results \ {r}
             \/ results' = (results \ {r}) \cup {Result(Cmd("follow", 0, 0), TRUE, 0)}
          /\ follow' = FALSE
          /\ UNCHANGED <<dapGen, dapClient, dapRunState, dapBusy, backendVars, dapCh, inFlight>>
    BY <1>2 DEF HandleDapRefresh
  <2> QED BY <1>0, <2>1, ResultHandled
<1>3. CASE HandleDapFollow
  <2>1. PICK r \in results :
          /\ r.kind = "follow" /\ results' = results \ {r} /\ follow' = FALSE
          /\ UNCHANGED <<dapGen, dapClient, dapRunState, dapBusy, backendVars, dapCh, inFlight>>
    BY <1>3 DEF HandleDapFollow
  <2> QED BY <1>0, <2>1, ResultHandled
<1> QED BY <1>1, <1>2, <1>3

LEMMA DapCommandsKeep ==
    ASSUME DapInv, DapLaunches \/ DapLaunchEnds \/ DapStepEnds \/ DapRefreshEnds
    PROVE  DapInv'
<1>0. /\ program \in [Sessions -> {"none", "running", "stopped", "ended"}]
      /\ stops \in [Sessions -> Nat]
      /\ \A c \in inFlight : c.kind # "start" => c.cl \in Sessions
  BY DEF DapInv, DapTypes
<1>1. CASE DapLaunches
  <2>1. /\ UNCHANGED <<panelVars, adapter, stops, dapCh, inFlight, results>>
        /\ program' \in [Sessions -> {"none", "running", "stopped", "ended"}]
    BY <1>0, <1>1 DEF DapLaunches
  <2>2. DapTypes'
    BY <2>1 DEF DapInv, DapTypes, panelVars
  <2>3. GoneIsGone' /\ LaunchIsUnderWay'
    BY <2>1, GoneUndisturbed DEF DapInv, LaunchIsUnderWay, panelVars
  <2> QED BY <2>1, <2>2, <2>3, CommandsCarryOn DEF panelVars
<1>2. CASE DapLaunchEnds
  <2>1. PICK c \in inFlight, ok \in BOOLEAN :
          c.kind = "launch" /\ Ends(c, ok, 0) /\ UNCHANGED <<panelVars, backendVars, dapCh>>
    BY <1>2 DEF DapLaunchEnds
  <2> QED BY <1>0, <2>1, CommandEnds DEF backendVars
<1>3. CASE DapStepEnds
  <2>1. PICK c \in inFlight, ok \in BOOLEAN :
          /\ c.kind \in {"continue", "next", "pause"} /\ Ends(c, ok, 0)
          /\ program' = IF ok THEN [program EXCEPT ![c.cl] = "running"] ELSE program
          /\ UNCHANGED <<panelVars, adapter, stops, dapCh>>
    BY <1>3 DEF DapStepEnds
  <2>2. program' \in [Sessions -> {"none", "running", "stopped", "ended"}]
    BY <1>0, <2>1
  <2> QED BY <2>1, <2>2, CommandEnds
<1>4. CASE DapRefreshEnds
  <2>1. PICK c \in inFlight, ok \in BOOLEAN :
          /\ c.kind = "refresh" /\ Ends(c, ok, stops[c.cl])
          /\ UNCHANGED <<panelVars, backendVars, dapCh>>
    BY <1>4 DEF DapRefreshEnds
  <2>2. stops[c.cl] \in Nat
    BY <1>0, <2>1
  <2> QED BY <1>0, <2>1, <2>2, CommandEnds DEF backendVars
<1> QED BY <1>1, <1>2, <1>3, <1>4

LEMMA DapNextKeeps == DapInv /\ [DapNext]_dapVars => DapInv'
<1> SUFFICES ASSUME DapInv, [DapNext]_dapVars PROVE DapInv'
  OBVIOUS
<1>1. CASE StartDebugging \/ StopDebugging
  BY <1>1, StartDebuggingKeeps, StopDebuggingKeeps
<1>2. CASE DapStepKey
  BY <1>2, CommandSent DEF DapStepKey, DapStep
<1>3. CASE DapSelect
  BY <1>3, CommandSent DEF DapSelect
<1>4. CASE DapCommands
  BY <1>4, DapStartEndsKeeps, DapCommandsKeep, DapClosesKeeps DEF DapCommands
<1>5. CASE DapHandles
  BY <1>5, HandleDapStartKeeps, HandleDapLaunchKeeps, QuietHandlersKeep, HandleDapEventKeeps
     DEF DapHandles
<1>6. ASSUME NEW g \in Sessions, ProgramStops(g) \/ ProgramEnds(g) \/ AdapterGoes(g)
      PROVE  DapInv'
  BY <1>6, BackendKeeps
<1>7. CASE UNCHANGED dapVars
  <2>1. UNCHANGED <<panelVars, backendVars, dapCh, inFlight, results>>
    BY <1>7 DEF dapVars
  <2> QED BY <2>1, CommandSent
<1> QED BY <1>1, <1>2, <1>3, <1>4, <1>5, <1>6, <1>7 DEF DapNext

\* However starts, stops, restarts and deaths overtake each other, every adapter that
\* runs has an owner who will close it, and a launch that is shown is under way.
THEOREM DapIsSoundCorrect == DapSpec => []DapIsSound
<1>1. DapInv => DapIsSound
  BY DEF DapInv, DapIsSound
<1> QED BY <1>1, DapInitHolds, DapNextKeeps, PTL DEF DapSpec
-----------------------------------------------------------------------------
(***************************************************************************)
(* DbgpSession.  While the engine is there, a continuation command is owed *)
(* one response: it is not out yet, or the engine runs, or the response is *)
(* among the documents that wait.  The events follow: "continued" was told *)
(* before the command went out, and the response tells the next stop.      *)
(***************************************************************************)
Ending   == {"exited", "terminated", "disconnected"}
EventSet == {"continued", "stopped"} \cup Ending
DocType  == [id : Nat, status : {"answer", "break", "stopping"}]

DbgpTypes ==
    /\ conn \in {"up", "lost", "closed"}
    /\ engine \in {"break", "running", "stopping", "gone"}
    /\ pcmd \in {"none", "tell", "send"}
    /\ sent \in Nat /\ waiting \subseteq 1..sent /\ continuation \subseteq 1..sent
    /\ unwritten \subseteq 1..sent /\ unwritten \cap continuation = {}
    /\ docs \in Seq(DocType) /\ events \in Seq(EventSet)
    /\ emittedExit \in BOOLEAN

\* The program's end is in the events at most once, and nothing of it before
\* emittedExit says so.
EndIsTold ==
    /\ ~emittedExit => \A i \in 1..Len(events) : events[i] \notin Ending
    /\ \A i, j \in 1..Len(events) : events[i] = "exited" /\ events[j] = "exited" => i = j
    /\ \A i \in 1..Len(events) : events[i] = "disconnected" =>
         conn # "up" /\ \A j \in 1..Len(events) : events[j] # "terminated"

Last == events[Len(events)]
Attached == conn = "up" /\ engine # "gone"

\* The documents that are responses to a continuation command.
Stops == {i \in 1..Len(docs) : docs[i].status # "answer"}

Protocol ==
    /\ \A i \in 1..Len(docs) :
         IF docs[i].status = "answer" THEN docs[i].id \notin continuation /\ docs[i].id <= sent
         ELSE docs[i].id \in continuation /\ docs[i].status = engine
    /\ \A i, j \in Stops : i = j
    /\ \A a, b \in continuation : a = b
    /\ pcmd # "none" => continuation # {} /\ engine = "break" /\ Stops = {}
    /\ engine = "running" => continuation # {} /\ pcmd = "none" /\ Stops = {}
    /\ continuation # {} /\ pcmd = "none" /\ engine # "running" => Stops # {}
    /\ pcmd = "send" \/ (pcmd = "none" /\ continuation # {}) =>
         events # <<>> /\ Last = "continued"
    /\ continuation = {} =>
         IF engine = "break" THEN events # <<>> => Last = "stopped"
                             ELSE events # <<>> /\ Last = "terminated"

DbgpInv ==
    /\ DbgpTypes
    /\ EndIsTold /\ LostCallsFail
    /\ Attached => Protocol

LEMMA DbgpInitHolds == DbgpInit => DbgpInv
<1> SUFFICES ASSUME DbgpInit PROVE DbgpInv
  OBVIOUS
<1>1. docs \in Seq(DocType) /\ Len(docs) = 0 /\ events \in Seq(EventSet) /\ Len(events) = 0
  BY EmptySeq DEF DbgpInit
<1>2. DbgpTypes
  BY <1>1 DEF DbgpInit, DbgpTypes
<1>3. Stops = {}
  BY <1>1 DEF Stops
<1>4. Protocol
  BY <1>1, <1>3 DEF DbgpInit, Protocol
<1> QED BY <1>1, <1>2, <1>4 DEF DbgpInit, DbgpInv, EndIsTold, LostCallsFail

\* What onEvent is told comes last, in its order.
LEMMA ToldLast ==
    ASSUME DbgpTypes, NEW evs \in Seq(EventSet), evs # <<>>, events' = events \o evs
    PROVE  /\ events' \in Seq(EventSet) /\ events' # <<>> /\ Last' = evs[Len(evs)]
           /\ \A i \in 1..Len(events') :
                \/ i \in 1..Len(events) /\ events'[i] = events[i]
                \/ /\ i \notin 1..Len(events) /\ i - Len(events) \in 1..Len(evs)
                   /\ events'[i] = evs[i - Len(events)]
<1>1. events \in Seq(EventSet) /\ Len(events) \in Nat /\ Len(evs) \in Nat /\ Len(evs) # 0
  BY LenProperties, EmptySeq DEF DbgpTypes
<1>2. PICK m, n \in Nat : m = Len(events) /\ n = Len(evs) /\ n >= 1
  BY <1>1
<1>3. /\ events' \in Seq(EventSet) /\ Len(events') = m + n
      /\ \A i \in 1..(m + n) : events'[i] = IF i <= m THEN events[i] ELSE evs[i - m]
  BY <1>1, <1>2, ConcatProperties
<1>4. events'[m + n] = evs[n]
  BY <1>2, <1>3
<1>5. events' # <<>>
  BY <1>2, <1>3, EmptySeq
<1>6. ASSUME NEW i \in 1..(m + n)
      PROVE  \/ i \in 1..m /\ events'[i] = events[i]
             \/ i \notin 1..m /\ i - m \in 1..n /\ events'[i] = evs[i - m]
  BY <1>2, <1>3
<1> QED BY <1>2, <1>3, <1>4, <1>5, <1>6 DEF Last

LEMMA OneEvent ==
    ASSUME NEW k \in EventSet
    PROVE  <<k>> \in Seq(EventSet) /\ Len(<<k>>) = 1 /\ <<k>> # <<>> /\ <<k>>[1] = k
OBVIOUS

LEMMA TwoEvents ==
    ASSUME NEW k \in EventSet, NEW l \in EventSet
    PROVE  /\ <<k, l>> \in Seq(EventSet) /\ Len(<<k, l>>) = 2 /\ <<k, l>> # <<>>
           /\ <<k, l>>[1] = k /\ <<k, l>>[2] = l
OBVIOUS

\* One event that is not the end.
LEMMA EndNotYet ==
    ASSUME DbgpTypes, EndIsTold, NEW k \in {"continued", "stopped"}, events' = events \o <<k>>,
           emittedExit' = emittedExit, conn' = conn
    PROVE  events' \in Seq(EventSet) /\ events' # <<>> /\ Last' = k /\ EndIsTold'
<1>1. k \in EventSet /\ k \notin Ending
  BY DEF EventSet, Ending
<1>2. /\ events' \in Seq(EventSet) /\ events' # <<>> /\ Last' = k
      /\ \A i \in 1..Len(events') :
           (i \in 1..Len(events) /\ events'[i] = events[i]) \/ events'[i] = k
  <2>1. PICK evs : evs = <<k>>
    OBVIOUS
  <2>2. evs \in Seq(EventSet) /\ Len(evs) = 1 /\ evs # <<>> /\ evs[1] = k
    BY <1>1, <2>1, OneEvent
  <2>3. \A i \in 1..Len(events') :
           \/ i \in 1..Len(events) /\ events'[i] = events[i]
           \/ i - Len(events) = 1 /\ events'[i] = evs[i - Len(events)]
    BY <2>1, <2>2, ToldLast
  <2> QED BY <2>1, <2>2, <2>3, ToldLast
<1> QED BY <1>1, <1>2 DEF EndIsTold, Ending

\* The end: exited, and what followed from it.
LEMMA EndTold ==
    ASSUME DbgpTypes, EndIsTold, ~emittedExit, NEW k \in {"terminated", "disconnected"},
           events' = events \o <<"exited", k>>, emittedExit' = TRUE,
           k = "disconnected" => conn' # "up"
    PROVE  events' \in Seq(EventSet) /\ events' # <<>> /\ Last' = k /\ EndIsTold'
<1>1. k \in EventSet /\ "exited" \in EventSet
  BY DEF EventSet, Ending
<1>2. PICK evs : evs = <<"exited", k>>
  OBVIOUS
<1>3. evs \in Seq(EventSet) /\ Len(evs) = 2 /\ evs # <<>> /\ evs[1] = "exited" /\ evs[2] = k
  BY <1>1, <1>2, TwoEvents
<1>4. /\ events' \in Seq(EventSet) /\ events' # <<>> /\ Last' = k
      /\ \A i \in 1..Len(events') :
           \/ i \in 1..Len(events) /\ events'[i] = events[i]
           \/ /\ i \notin 1..Len(events) /\ i - Len(events) \in 1..2
              /\ events'[i] = evs[i - Len(events)]
  BY <1>2, <1>3, ToldLast
<1>5. PICK m \in Nat : m = Len(events)
  BY LenProperties DEF DbgpTypes
<1>6. \A i \in 1..Len(events') :
        \/ events'[i] \notin Ending
        \/ i = m + 1 /\ events'[i] = "exited"
        \/ i = m + 2 /\ events'[i] = k
  <2> SUFFICES ASSUME NEW i \in 1..Len(events'), events'[i] \in Ending
               PROVE  (i = m + 1 /\ events'[i] = "exited") \/ (i = m + 2 /\ events'[i] = k)
    OBVIOUS
  <2>1. ~(i \in 1..Len(events) /\ events'[i] = events[i])
    BY DEF EndIsTold
  <2>2. i - m \in 1..2 /\ events'[i] = evs[i - m]
    BY <1>4, <1>5, <2>1
  <2> QED BY <1>3, <1>5, <2>2
<1>7. EndIsTold'
  BY <1>6 DEF EndIsTold, Ending
<1> QED BY <1>4, <1>7

\* The program was reported ended before: only the session ends now.
LEMMA EndToldBefore ==
    ASSUME DbgpTypes, EndIsTold, emittedExit, conn = "up", events' = events \o <<"terminated">>,
           emittedExit' = TRUE, conn' = conn
    PROVE  events' \in Seq(EventSet) /\ events' # <<>> /\ Last' = "terminated" /\ EndIsTold'
<1>1. "terminated" \in EventSet
  BY DEF EventSet, Ending
<1>2. /\ events' \in Seq(EventSet) /\ events' # <<>> /\ Last' = "terminated"
      /\ \A i \in 1..Len(events') :
           (i \in 1..Len(events) /\ events'[i] = events[i]) \/ events'[i] = "terminated"
  <2>1. PICK evs : evs = <<"terminated">>
    OBVIOUS
  <2>2. evs \in Seq(EventSet) /\ Len(evs) = 1 /\ evs # <<>> /\ evs[1] = "terminated"
    BY <1>1, <2>1, OneEvent
  <2>3. \A i \in 1..Len(events') :
           \/ i \in 1..Len(events) /\ events'[i] = events[i]
           \/ i - Len(events) = 1 /\ events'[i] = evs[i - Len(events)]
    BY <2>1, <2>2, ToldLast
  <2> QED BY <2>1, <2>2, <2>3, ToldLast
<1>3. \A i \in 1..Len(events) : events[i] # "disconnected"
  BY DEF EndIsTold
<1> QED BY <1>2, <1>3 DEF EndIsTold

\* With nothing told and no response coming or going, only what is pending counts.
LEMMA ProtocolUndisturbed ==
    ASSUME DbgpInv, UNCHANGED <<engine, docs, continuation, events, pcmd>>,
           conn' = conn, sent' = sent
    PROVE  Attached' => Protocol'
<1>1. Stops' = Stops /\ Last' = Last /\ Attached' = Attached
  BY DEF Stops, Last, Attached
<1> QED BY <1>1 DEF DbgpInv, Protocol

LEMMA EventsUndisturbed ==
    ASSUME DbgpInv, events' = events, emittedExit' = emittedExit, conn' = conn \/ conn' # "up"
    PROVE  EndIsTold'
BY DEF DbgpInv, EndIsTold

LEMMA ContinueKeeps ==
    ASSUME DbgpInv, ContinueCmd
    PROVE  DbgpInv'
<1>1. /\ pcmd = "none" /\ pcmd' = "tell" /\ sent' = sent + 1 /\ sent \in Nat
      /\ events # <<>> => Last = "stopped"
      /\ continuation' = continuation \cup {sent + 1}
      /\ UNCHANGED <<conn, engine, docs, waiting, unwritten, late, events, emittedExit>>
  BY DEF ContinueCmd, callsDbgp, Last, DbgpInv, DbgpTypes
<1>2. DbgpTypes'
  BY <1>1 DEF DbgpInv, DbgpTypes
<1>3. Attached' => Protocol'
  <2> SUFFICES ASSUME Attached PROVE Protocol'
    BY <1>1 DEF Attached
  <2>1. continuation = {} /\ engine = "break"
    <3>1. engine \in {"break", "running", "stopping"}
      BY DEF Attached, DbgpInv, DbgpTypes
    <3>2. continuation = {}
      BY <1>1, <3>1 DEF DbgpInv, Protocol
    <3> QED BY <1>1, <3>1, <3>2 DEF DbgpInv, Protocol
  <2>2. \A i \in 1..Len(docs) : docs[i].status = "answer" /\ docs[i].id <= sent /\ docs[i].id \in Nat
    <3> SUFFICES ASSUME NEW i \in 1..Len(docs)
                 PROVE  docs[i].status = "answer" /\ docs[i].id <= sent /\ docs[i].id \in Nat
      OBVIOUS
    <3>1. docs \in Seq(DocType)
      BY DEF DbgpInv, DbgpTypes
    <3>2. docs[i] \in DocType
      BY <3>1, ElementOfSeq
    <3>3. docs[i].id \in Nat
      BY <3>2 DEF DocType
    <3> QED BY <2>1, <3>3 DEF DbgpInv, Protocol
  <2>3. Stops' = {}
    BY <1>1, <2>2 DEF Stops
  <2>4. continuation' = {sent + 1}
    BY <1>1, <2>1
  <2> QED BY <1>1, <2>1, <2>2, <2>3, <2>4 DEF Protocol
<1>4. EndIsTold' /\ LostCallsFail'
  BY <1>1, EventsUndisturbed DEF DbgpInv, LostCallsFail
<1> QED BY <1>2, <1>3, <1>4 DEF DbgpInv

LEMMA TellKeeps ==
    ASSUME DbgpInv, TellContinued
    PROVE  DbgpInv'
<1>1. /\ pcmd = "tell" /\ pcmd' = "send" /\ emittedExit' = emittedExit
      /\ UNCHANGED <<conn, engine, docs, sent, continuation, waiting, unwritten, late>>
      /\ events' = IF conn = "closed" THEN events ELSE events \o <<"continued">>
  BY DEF TellContinued, Told, wireDbgp, callsDbgp
<1>2. CASE conn = "closed"
  <2>1. DbgpTypes'
    BY <1>1, <1>2 DEF DbgpInv, DbgpTypes
  <2>2. EndIsTold' /\ LostCallsFail'
    BY <1>1, <1>2, EventsUndisturbed DEF DbgpInv, LostCallsFail
  <2> QED BY <1>1, <1>2, <2>1, <2>2 DEF DbgpInv, Attached
<1>3. CASE conn # "closed"
  <2>1. events' \in Seq(EventSet) /\ events' # <<>> /\ Last' = "continued" /\ EndIsTold'
    BY <1>1, <1>3, EndNotYet DEF DbgpInv
  <2>2. DbgpTypes'
    BY <1>1, <2>1 DEF DbgpInv, DbgpTypes
  <2>3. Attached' => Protocol'
    <3> SUFFICES ASSUME Attached PROVE Protocol'
      BY <1>1 DEF Attached
    <3>1. Stops' = Stops
      BY <1>1 DEF Stops
    <3> QED BY <1>1, <2>1, <3>1 DEF DbgpInv, Protocol
  <2>4. LostCallsFail'
    BY <1>1 DEF DbgpInv, LostCallsFail
  <2> QED BY <2>1, <2>2, <2>3, <2>4 DEF DbgpInv
<1> QED BY <1>2, <1>3

LEMMA SendKeeps ==
    ASSUME DbgpInv, SendContinuation
    PROVE  DbgpInv'
<1>1. /\ pcmd = "send" /\ pcmd' = "none"
      /\ UNCHANGED <<conn, docs, sent, waiting, unwritten, late, events, emittedExit>>
      /\ Attached => /\ engine' = IF engine = "break" THEN "running" ELSE engine
                     /\ continuation' = continuation
      /\ engine' = engine \/ (engine = "break" /\ engine' = "running")
      /\ continuation' \subseteq continuation
  BY DEF SendContinuation, WriteSucceeds, WriteFails, Attached, callsDbgp
<1>2. DbgpTypes'
  BY <1>1 DEF DbgpInv, DbgpTypes
<1>3. Attached' => Protocol'
  <2> SUFFICES ASSUME Attached' PROVE Protocol'
    OBVIOUS
  <2>1. Attached /\ conn = "up"
    BY <1>1 DEF Attached
  <2>2. Stops' = Stops /\ Last' = Last
    BY <1>1 DEF Stops, Last
  <2>3. Stops = {} /\ engine = "break" /\ engine' = "running" /\ continuation' = continuation
    BY <1>1, <2>1 DEF DbgpInv, Protocol
  <2>4. \A i \in 1..Len(docs) : docs[i].status = "answer"
    BY <2>3 DEF Stops
  <2> QED BY <1>1, <2>1, <2>2, <2>3, <2>4 DEF DbgpInv, Protocol
<1>4. EndIsTold' /\ LostCallsFail'
  BY <1>1, EventsUndisturbed DEF DbgpInv, LostCallsFail
<1> QED BY <1>2, <1>3, <1>4 DEF DbgpInv

\* A document more: the documents before it keep their places.
LEMMA DocAdded ==
    ASSUME DbgpTypes, NEW d \in DocType, docs' = Append(docs, d)
    PROVE  /\ docs' \in Seq(DocType) /\ docs' # <<>>
           /\ Len(docs') = Len(docs) + 1 /\ Len(docs) \in Nat
           /\ \A i \in 1..Len(docs') :
                (i \in 1..Len(docs) /\ docs'[i] = docs[i]) \/ (i = Len(docs) + 1 /\ docs'[i] = d)
<1>1. docs \in Seq(DocType) /\ Len(docs) \in Nat
  BY LenProperties DEF DbgpTypes
<1>2. /\ docs' \in Seq(DocType) /\ docs' # <<>> /\ Len(docs') = Len(docs) + 1
      /\ \A i \in 1..Len(docs) : docs'[i] = docs[i]
      /\ docs'[Len(docs) + 1] = d
  BY <1>1, AppendProperties
<1> QED BY <1>1, <1>2

LEMMA BeginsCallKeeps ==
    ASSUME DbgpInv, CallBegins
    PROVE  DbgpInv'
<1>1. /\ sent' = sent + 1 /\ sent \in Nat
      /\ waiting' = waiting \cup {sent + 1} /\ unwritten' = unwritten \cup {sent + 1}
      /\ late' = IF conn = "lost" THEN late \cup {sent + 1} ELSE late
      /\ UNCHANGED <<conn, engine, docs, continuation, events, emittedExit, pcmd>>
  BY DEF CallBegins, eventVars, DbgpInv, DbgpTypes
<1>2. DbgpTypes'
  BY <1>1 DEF DbgpInv, DbgpTypes
<1>3. Attached' => Protocol'
  <2> SUFFICES ASSUME Attached PROVE Protocol'
    BY <1>1 DEF Attached
  <2>1. Stops' = Stops /\ Last' = Last
    BY <1>1 DEF Stops, Last
  <2>2. ASSUME NEW i \in 1..Len(docs), docs[i].status = "answer"
        PROVE  docs[i].id \notin continuation /\ docs[i].id <= sent + 1
    <3>1. docs[i] \in DocType
      BY ElementOfSeq DEF DbgpInv, DbgpTypes
    <3>2. docs[i].id \in Nat
      BY <3>1 DEF DocType
    <3> QED BY <1>1, <2>2, <3>2 DEF DbgpInv, Protocol
  <2> QED BY <1>1, <2>1, <2>2 DEF DbgpInv, Protocol
<1>4. EndIsTold' /\ LostCallsFail'
  BY <1>1, EventsUndisturbed DEF DbgpInv, LostCallsFail
<1> QED BY <1>2, <1>3, <1>4 DEF DbgpInv

LEMMA WrittenCallKeeps ==
    ASSUME DbgpInv, CallIsWritten
    PROVE  DbgpInv'
<1>1. PICK c \in unwritten :
        /\ waiting' \subseteq waiting /\ unwritten' \subseteq unwritten
        /\ UNCHANGED <<conn, engine, sent, continuation, late, events, emittedExit, pcmd>>
        /\ docs' = docs \/ docs' = Append(docs, [id |-> c, status |-> "answer"])
  BY DEF CallIsWritten, eventVars
<1>2. PICK d : d = [id |-> c, status |-> "answer"]
  OBVIOUS
<1>9. c \in 1..sent /\ c \notin continuation /\ sent \in Nat
  BY DEF DbgpInv, DbgpTypes
<1>3. d \in DocType /\ d.status = "answer" /\ d.id = c
  BY <1>2, <1>9 DEF DocType
<1>4. docs' = docs \/ docs' = Append(docs, d)
  BY <1>1, <1>2
<1>5. /\ docs' \in Seq(DocType) /\ Len(docs) \in Nat
      /\ Len(docs') = Len(docs) \/ Len(docs') = Len(docs) + 1
      /\ \A i \in 1..Len(docs') :
           (i \in 1..Len(docs) /\ docs'[i] = docs[i]) \/ (i \notin 1..Len(docs) /\ docs'[i] = d)
      /\ \A i \in 1..Len(docs) : i \in 1..Len(docs') /\ docs'[i] = docs[i]
  <2>1. docs \in Seq(DocType) /\ Len(docs) \in Nat
    BY LenProperties DEF DbgpInv, DbgpTypes
  <2>2. CASE docs' = docs
    BY <2>1, <2>2
  <2>3. CASE docs' = Append(docs, d)
    BY <1>3, <2>1, <2>3, AppendProperties
  <2> QED BY <1>4, <2>2, <2>3
<1>6. DbgpTypes'
  BY <1>1, <1>5 DEF DbgpInv, DbgpTypes
<1>7. Attached' => Protocol'
  <2> SUFFICES ASSUME Attached PROVE Protocol'
    BY <1>1 DEF Attached
  <2>1. Stops' = Stops
    BY <1>3, <1>5 DEF Stops
  <2>2. Last' = Last
    BY <1>1 DEF Last
  <2>4. ASSUME NEW i \in 1..Len(docs')
        PROVE  IF docs'[i].status = "answer"
               THEN docs'[i].id \notin continuation' /\ docs'[i].id <= sent'
               ELSE docs'[i].id \in continuation' /\ docs'[i].status = engine'
    <3>1. CASE i \in 1..Len(docs) /\ docs'[i] = docs[i]
      <4>1. docs[i] \in DocType
        BY <3>1, ElementOfSeq DEF DbgpInv, DbgpTypes
      <4>2. docs[i].id \in Nat
        BY <4>1 DEF DocType
      <4> QED BY <1>1, <3>1, <4>2 DEF DbgpInv, Protocol
    <3>2. CASE docs'[i] = d
      BY <1>1, <1>3, <1>9, <3>2
    <3> QED BY <1>5, <3>1, <3>2
  <2> QED BY <1>1, <2>1, <2>2, <2>4 DEF DbgpInv, Protocol
<1>8. EndIsTold' /\ LostCallsFail'
  BY <1>1, EventsUndisturbed DEF DbgpInv, LostCallsFail
<1> QED BY <1>6, <1>7, <1>8 DEF DbgpInv

LEMMA EngineStopsKeeps ==
    ASSUME DbgpInv, EngineStops
    PROVE  DbgpInv'
<1>1. PICK i \in continuation :
        /\ conn = "up" /\ engine = "running" /\ engine' \in {"break", "stopping"}
        /\ docs' = Append(docs, [id |-> i, status |-> engine'])
        /\ UNCHANGED <<conn, sent, continuation, waiting, unwritten, late, events, emittedExit, pcmd>>
  BY DEF EngineStops, eventVars, callsDbgp
<1>2. PICK d : d = [id |-> i, status |-> engine']
  OBVIOUS
<1>3. d \in DocType /\ d.status = engine' /\ d.id = i /\ d.status # "answer"
  BY <1>1, <1>2 DEF DocType, DbgpInv, DbgpTypes
<1>4. /\ docs' \in Seq(DocType) /\ Len(docs') = Len(docs) + 1 /\ Len(docs) \in Nat
      /\ \A j \in 1..Len(docs') :
           (j \in 1..Len(docs) /\ docs'[j] = docs[j]) \/ (j = Len(docs) + 1 /\ docs'[j] = d)
  BY <1>1, <1>2, <1>3, DocAdded DEF DbgpInv
<1>5. DbgpTypes'
  BY <1>1, <1>4 DEF DbgpInv, DbgpTypes
<1>6. Attached /\ Protocol
  BY <1>1 DEF Attached, DbgpInv
<1>7. \A j \in 1..Len(docs) : docs[j].status = "answer"
  BY <1>1, <1>6 DEF Protocol, Stops
<1>8. Stops' = {Len(docs) + 1}
  BY <1>3, <1>4, <1>7 DEF Stops
<1>9. Last' = Last
  BY <1>1 DEF Last
<1>10. Protocol'
  <2>1. \A j \in 1..Len(docs') :
          IF docs'[j].status = "answer" THEN docs'[j].id \notin continuation' /\ docs'[j].id <= sent'
          ELSE docs'[j].id \in continuation' /\ docs'[j].status = engine'
    BY <1>1, <1>3, <1>4, <1>6, <1>7 DEF Protocol
  <2>2. events # <<>> /\ Last = "continued" /\ pcmd = "none" /\ continuation # {}
    BY <1>1, <1>6 DEF Protocol
  <2> QED BY <1>1, <1>6, <1>8, <1>9, <2>1, <2>2 DEF Protocol
<1>11. EndIsTold' /\ LostCallsFail'
  BY <1>1, EventsUndisturbed DEF DbgpInv, LostCallsFail
<1> QED BY <1>5, <1>10, <1>11 DEF DbgpInv

LEMMA RouteKeeps ==
    ASSUME DbgpInv, RouteResponse
    PROVE  DbgpInv'
<1>1. /\ conn = "up" /\ docs # <<>> /\ docs \in Seq(DocType)
      /\ UNCHANGED <<conn, engine, sent, unwritten, late, pcmd>>
  BY DEF RouteResponse, DbgpInv, DbgpTypes
<1>2. PICK d \in DocType : d = Head(docs) /\ d = docs[1] /\ 1 \in 1..Len(docs)
  BY <1>1, HeadTailProperties, LenProperties, EmptySeq
<1>3. /\ docs' \in Seq(DocType) /\ Len(docs') = Len(docs) - 1 /\ Len(docs) \in Nat
      /\ \A i \in 1..Len(docs') : i + 1 \in 1..Len(docs) /\ docs'[i] = docs[i + 1]
  <2>1. docs' = Tail(docs) /\ Len(docs) \in Nat
    BY <1>1, LenProperties DEF RouteResponse
  <2> QED BY <1>1, <2>1, HeadTailProperties
<1>4. /\ continuation' = continuation \ {d.id} /\ waiting' = waiting \ {d.id}
      /\ IF d.id \in continuation THEN HandleContinuation(d.status)
         ELSE UNCHANGED <<events, emittedExit>>
  BY <1>2 DEF RouteResponse
<1>5. CASE d.id \notin continuation
  <2>1. continuation' = continuation /\ UNCHANGED <<events, emittedExit>>
    BY <1>4, <1>5
  <2>2. DbgpTypes'
    BY <1>1, <1>3, <1>4, <2>1 DEF DbgpInv, DbgpTypes
  <2>3. Attached' => Protocol'
    <3> SUFFICES ASSUME Attached PROVE Protocol'
      BY <1>1 DEF Attached
    <3>1. Protocol /\ d.status = "answer"
      BY <1>2, <1>5 DEF DbgpInv, Protocol
    <3>2. Last' = Last
      BY <2>1 DEF Last
    <3>3. \A i \in Stops : i \in 1..Len(docs) /\ i # 1 /\ i - 1 \in Stops'
      <4> SUFFICES ASSUME NEW i \in Stops PROVE i \in 1..Len(docs) /\ i # 1 /\ i - 1 \in Stops'
        OBVIOUS
      <4>1. i \in 1..Len(docs) /\ i # 1 /\ docs[i].status # "answer"
        BY <1>2, <3>1 DEF Stops
      <4>2. i - 1 \in 1..Len(docs')
        BY <1>3, <4>1
      <4>3. docs'[i - 1] = docs[i]
        BY <1>3, <4>1, <4>2
      <4> QED BY <4>1, <4>2, <4>3 DEF Stops
    <3>4. \A i \in Stops' : i \in 1..Len(docs') /\ i + 1 \in Stops
      BY <1>3 DEF Stops
    <3>5. \A i, j \in Stops' : i = j
      <4> SUFFICES ASSUME NEW i \in Stops', NEW j \in Stops' PROVE i = j
        OBVIOUS
      <4>1. i \in 1..Len(docs') /\ j \in 1..Len(docs') /\ i + 1 \in Stops /\ j + 1 \in Stops
        BY <3>4
      <4>2. i + 1 = j + 1
        BY <3>1, <4>1 DEF Protocol
      <4> QED BY <4>1, <4>2
    <3>6. Stops = {} <=> Stops' = {}
      BY <3>3, <3>4
    <3>7. \A i \in 1..Len(docs') :
            IF docs'[i].status = "answer"
            THEN docs'[i].id \notin continuation' /\ docs'[i].id <= sent'
            ELSE docs'[i].id \in continuation' /\ docs'[i].status = engine'
      BY <1>1, <1>3, <2>1, <3>1 DEF Protocol
    <3> QED BY <1>1, <2>1, <3>1, <3>2, <3>5, <3>6, <3>7 DEF Protocol
  <2>4. EndIsTold' /\ LostCallsFail'
    BY <1>1, <2>1, EventsUndisturbed DEF DbgpInv, LostCallsFail
  <2> QED BY <2>2, <2>3, <2>4 DEF DbgpInv
<1>6. CASE d.id \in continuation
  <2>1. HandleContinuation(d.status)
    BY <1>4, <1>6
  <2>2. /\ events' \in Seq(EventSet) /\ emittedExit' \in BOOLEAN /\ EndIsTold'
        /\ events' # <<>> /\ Last' = IF d.status = "break" THEN "stopped" ELSE "terminated"
    <3>1. CASE d.status = "break"
      <4>1. events' = events \o <<"stopped">> /\ emittedExit' = emittedExit
        BY <1>1, <2>1, <3>1 DEF HandleContinuation, Told
      <4> QED BY <1>1, <3>1, <4>1, EndNotYet DEF DbgpInv, DbgpTypes
    <3>2. CASE d.status # "break" /\ emittedExit
      <4>1. events' = events \o <<"terminated">> /\ emittedExit' = TRUE
        BY <1>1, <2>1, <3>2 DEF HandleContinuation, Told
      <4> QED BY <1>1, <3>2, <4>1, EndToldBefore DEF DbgpInv
    <3>3. CASE d.status # "break" /\ ~emittedExit
      <4>1. events' = events \o <<"exited", "terminated">> /\ emittedExit' = TRUE
        BY <1>1, <2>1, <3>3 DEF HandleContinuation, Told
      <4> QED BY <1>1, <3>3, <4>1, EndTold DEF DbgpInv
    <3> QED BY <3>1, <3>2, <3>3
  <2>3. DbgpTypes'
    BY <1>1, <1>3, <1>4, <2>2 DEF DbgpInv, DbgpTypes
  <2>4. Attached' => Protocol'
    <3> SUFFICES ASSUME Attached PROVE Protocol'
      BY <1>1 DEF Attached
    <3>1. Protocol
      BY DEF DbgpInv
    <3>2. d.status # "answer" /\ d.status = engine /\ 1 \in Stops
      BY <1>2, <1>6, <3>1 DEF Protocol, Stops
    <3>3. pcmd = "none" /\ engine \in {"break", "stopping"}
      BY <3>1, <3>2, <1>1 DEF Protocol, DbgpInv, DbgpTypes, Attached
    <3>4. continuation' = {}
      BY <1>4, <1>6, <3>1 DEF Protocol
    <3>5. ASSUME NEW i \in 1..Len(docs') PROVE docs'[i].status = "answer" /\ docs'[i].id <= sent
      <4>1. i + 1 \in 1..Len(docs) /\ docs'[i] = docs[i + 1] /\ i + 1 # 1
        BY <1>3
      <4>2. i + 1 \notin Stops
        BY <3>1, <3>2, <4>1 DEF Protocol
      <4>3. docs[i + 1].status = "answer"
        BY <4>1, <4>2 DEF Stops
      <4> QED BY <3>1, <4>1, <4>3 DEF Protocol
    <3>6. Stops' = {}
      BY <3>5 DEF Stops
    <3> QED BY <1>1, <2>2, <3>2, <3>3, <3>4, <3>5, <3>6 DEF Protocol
  <2>5. LostCallsFail'
    BY <1>1 DEF LostCallsFail
  <2> QED BY <2>2, <2>3, <2>4, <2>5 DEF DbgpInv
<1> QED BY <1>5, <1>6

LEMMA DisconnectedKeeps ==
    ASSUME DbgpInv, Disconnected
    PROVE  DbgpInv'
<1>1. /\ conn = "up" /\ conn' = "lost" /\ waiting' = {} /\ emittedExit' = TRUE
      /\ events' = IF emittedExit THEN events ELSE events \o <<"exited", "disconnected">>
      /\ UNCHANGED <<engine, docs, sent, continuation, unwritten, late, pcmd>>
  BY DEF Disconnected
<1>2. events' \in Seq(EventSet) /\ EndIsTold'
  <2>1. CASE emittedExit
    BY <1>1, <2>1 DEF DbgpInv, DbgpTypes, EndIsTold
  <2>2. CASE ~emittedExit
    <3>1. events' = events \o <<"exited", "disconnected">>
      BY <1>1, <2>2
    <3> QED BY <1>1, <2>2, <3>1, EndTold DEF DbgpInv
  <2> QED BY <2>1, <2>2
<1>3. DbgpTypes'
  BY <1>1, <1>2 DEF DbgpInv, DbgpTypes
<1> QED BY <1>1, <1>2, <1>3 DEF DbgpInv, LostCallsFail, Attached

LEMMA DbgpQuietKeeps ==
    ASSUME DbgpInv, waiting' \subseteq waiting,
           UNCHANGED <<docs, sent, continuation, unwritten, late, eventVars>>,
           \/ conn' = conn /\ engine' = engine
           \/ conn' = conn /\ engine' = "gone"
           \/ conn' = "closed" /\ engine' = "gone"
    PROVE  DbgpInv'
<1>1. UNCHANGED <<docs, sent, continuation, events, emittedExit, pcmd>>
  BY DEF eventVars
<1>2. DbgpTypes'
  BY <1>1 DEF DbgpInv, DbgpTypes
<1>3. Attached' => Protocol'
  <2>1. Attached' => conn' = conn /\ engine' = engine
    BY DEF Attached
  <2> QED BY <1>1, <2>1, ProtocolUndisturbed
<1>4. EndIsTold' /\ LostCallsFail'
  BY <1>1, EventsUndisturbed DEF DbgpInv, LostCallsFail
<1> QED BY <1>2, <1>3, <1>4 DEF DbgpInv

LEMMA DbgpNextKeeps == DbgpInv /\ [DbgpNext]_dbgpVars => DbgpInv'
<1> SUFFICES ASSUME DbgpInv, [DbgpNext]_dbgpVars PROVE DbgpInv'
  OBVIOUS
<1>1. CASE ContinueCmd \/ TellContinued \/ SendContinuation \/ CallBegins \/ CallIsWritten
  BY <1>1, ContinueKeeps, TellKeeps, SendKeeps, BeginsCallKeeps, WrittenCallKeeps
<1>2. CASE EngineStops \/ RouteResponse \/ Disconnected
  BY <1>2, EngineStopsKeeps, RouteKeeps, DisconnectedKeeps
<1>3. CASE AwaitTimesOut \/ EngineGoes \/ CloseDbgp
  BY <1>3, DbgpQuietKeeps DEF AwaitTimesOut, EngineGoes, CloseDbgp, callsDbgp
<1>4. CASE UNCHANGED dbgpVars
  BY <1>4, DbgpQuietKeeps DEF dbgpVars, wireDbgp, callsDbgp
<1> QED BY <1>1, <1>2, <1>3, <1>4 DEF DbgpNext

\* How often an event was told, from the indexes it has.
LEMMA TimesAtMostOnce ==
    ASSUME NEW k, \A i, j \in 1..Len(events) : events[i] = k /\ events[j] = k => i = j
    PROVE  /\ Times(k) <= 1
           /\ (\A i \in 1..Len(events) : events[i] # k) => Times(k) = 0
<1>1. PICK S : S = {i \in 1..Len(events) : events[i] = k}
  OBVIOUS
<1>2. S = {} => Cardinality(S) = 0
  BY FS_EmptySet
<1>3. ASSUME NEW x \in S PROVE Cardinality(S) = 1
  <2>1. S = {x}
    BY <1>1
  <2>2. Cardinality({x}) = 1
    BY FS_Singleton
  <2> QED BY <2>1, <2>2
<1>4. Cardinality(S) = 0 \/ Cardinality(S) = 1
  BY <1>2, <1>3
<1> QED BY <1>1, <1>2, <1>4 DEF Times

LEMMA TimesNone ==
    ASSUME NEW k, \A i \in 1..Len(events) : events[i] # k
    PROVE  Times(k) = 0
BY TimesAtMostOnce

LEMMA EndsOnceHolds == DbgpInv => EndsOnce
<1> SUFFICES ASSUME DbgpInv PROVE EndsOnce
  OBVIOUS
<1>1. Times("exited") <= 1
  BY TimesAtMostOnce DEF DbgpInv, EndIsTold
<1>2. CASE \E i \in 1..Len(events) : events[i] = "disconnected"
  <2>1. Times("terminated") = 0
    BY <1>2, TimesNone DEF DbgpInv, EndIsTold
  <2> QED BY <1>1, <2>1 DEF EndsOnce
<1>3. CASE \A i \in 1..Len(events) : events[i] # "disconnected"
  BY <1>1, <1>3, TimesNone DEF EndsOnce
<1> QED BY <1>2, <1>3

LEMMA EventsTellHolds == DbgpInv => EventsTellTheEngine
<1> SUFFICES ASSUME DbgpInv, conn = "up", docs = <<>>, pcmd = "none", events # <<>>
             PROVE  Last = CASE engine = "break" -> "stopped" [] engine = "running" -> "continued"
                             [] engine = "stopping" -> "terminated" [] OTHER -> Last
  BY DEF EventsTellTheEngine, Last
<1>1. CASE engine = "gone"
  BY <1>1
<1>2. CASE engine # "gone"
  <2>1. Protocol /\ engine \in {"break", "running", "stopping"}
    BY <1>2 DEF DbgpInv, DbgpTypes, Attached
  <2>2. Len(docs) = 0
    BY EmptySeq
  <2>3. Stops = {}
    BY <2>2 DEF Stops
  <2>4. engine = "running" => Last = "continued"
    BY <2>1 DEF Protocol
  <2>5. engine # "running" => Last = IF engine = "break" THEN "stopped" ELSE "terminated"
    BY <2>1, <2>3 DEF Protocol
  <2> QED BY <2>1, <2>4, <2>5
<1> QED BY <1>1, <1>2

\* Whatever order responses, answers, the loss of the connection and Close come in,
\* the client is told what the engine does while it is there, the end of the session
\* once, and the loss of the engine fails every call that had begun.
THEOREM DbgpIsSoundCorrect == DbgpSpec => []DbgpIsSound
<1>1. DbgpInv => DbgpIsSound
  BY EndsOnceHolds, EventsTellHolds DEF DbgpInv, DbgpIsSound
<1> QED BY <1>1, DbgpInitHolds, DbgpNextKeeps, PTL DEF DbgpSpec

-----------------------------------------------------------------------------
(***************************************************************************)
(* Safety of DbgpBreakpoints for any calls, lines and number of ids: a     *)
(* breakpoint the client knows is one the engine has.  It holds because an *)
(* id is in one place at a time: known for one line, in the hands of one   *)
(* call that will store it, or to be removed.                              *)
(***************************************************************************)
SyncType == [at : {"idle", "look", "set", "store", "remove"}, want : SUBSET DbgpLines,
             todo : SUBSET DbgpLines, line : DbgpLines \cup {NoLine}, id : 0..ids,
             stale : SUBSET (1..ids)]

BpTypeInv ==
    /\ ids \in 0..MaxBreakIds /\ known \in [DbgpLines -> 0..ids]
    /\ installed \subseteq (1..ids) \X DbgpLines
    /\ syncs \in [DbgpSyncs -> SyncType]

\* A call that set a breakpoint has it to store; one that will set one has a line.
StoredIsInstalled ==
    \A s \in DbgpSyncs :
        /\ syncs[s].at \in {"set", "store"} => syncs[s].line \in DbgpLines
        /\ syncs[s].at = "store" => syncs[s].id # 0 /\ <<syncs[s].id, syncs[s].line>> \in installed

KnownOnce ==
    \A k, l \in DbgpLines : k # l /\ known[k] # 0 => known[k] # known[l]

StoredIsUnknown ==
    \A s \in DbgpSyncs : syncs[s].at = "store" => \A l \in DbgpLines : known[l] # syncs[s].id

StoredOnce ==
    \A s, r \in DbgpSyncs :
        s # r /\ syncs[s].at = "store" /\ syncs[r].at = "store" => syncs[s].id # syncs[r].id

\* What a call will remove is known for no line and stored by no call.
StaleIsUnknown ==
    \A s \in DbgpSyncs : syncs[s].at = "remove" =>
        \A i \in syncs[s].stale :
            /\ \A l \in DbgpLines : known[l] # i
            /\ \A r \in DbgpSyncs : syncs[r].at = "store" => syncs[r].id # i

BpIInv ==
    /\ BpTypeInv /\ KnownAreInstalled /\ StoredIsInstalled
    /\ KnownOnce /\ StoredIsUnknown /\ StoredOnce /\ StaleIsUnknown
-----------------------------------------------------------------------------
LEMMA BpInitHolds == DbgpBreakInit => BpIInv
<1> SUFFICES ASSUME DbgpBreakInit PROVE BpIInv
  OBVIOUS
<1>1. ids = 0 /\ installed = {} /\ known = [l \in DbgpLines |-> 0]
      /\ syncs = [s \in DbgpSyncs |-> NoSync]
  BY DEF DbgpBreakInit
<1>2. MaxBreakIds \in Nat
  BY DbgpBreakAssumption
<1>3. NoSync \in SyncType
  BY <1>1 DEF NoSync, SyncType
<1>4. \A s \in DbgpSyncs : syncs[s].at = "idle"
  BY <1>1 DEF NoSync
<1>5. BpTypeInv
  BY <1>1, <1>2, <1>3 DEF BpTypeInv
<1> QED
  BY <1>1, <1>4, <1>5 DEF BpIInv, KnownAreInstalled, StoredIsInstalled, KnownOnce, StoredIsUnknown,
     StoredOnce, StaleIsUnknown

\* A step of a call that touches neither the engine's breakpoints nor the known
\* ones, and does not come to hold an id.
LEMMA OwnStep ==
    ASSUME BpIInv, NEW s \in DbgpSyncs, NEW v \in SyncType,
           syncs' = [syncs EXCEPT ![s] = v],
           v.at \in {"idle", "look", "set"}, v.at = "set" => v.line \in DbgpLines,
           UNCHANGED <<known, installed, ids>>
    PROVE  BpIInv'
<1>1. BpTypeInv'
  BY DEF BpIInv, BpTypeInv, SyncType
<1>2. \A r \in DbgpSyncs : syncs'[r] = IF r = s THEN v ELSE syncs[r]
  BY DEF BpIInv, BpTypeInv
<1> QED
  BY <1>1, <1>2 DEF BpIInv, KnownAreInstalled, StoredIsInstalled, KnownOnce, StoredIsUnknown,
     StoredOnce, StaleIsUnknown

LEMMA BeginsKeeps ==
    ASSUME BpIInv, NEW s \in DbgpSyncs, NEW lines \in SUBSET DbgpLines, SyncBegins(s, lines)
    PROVE  BpIInv'
<1> DEFINE v == [syncs[s] EXCEPT !.at = "look", !.want = lines, !.todo = lines]
<1>1. v \in SyncType /\ v.at = "look"
  BY DEF BpIInv, BpTypeInv, SyncType
<1>2. syncs' = [syncs EXCEPT ![s] = v] /\ UNCHANGED <<known, installed, ids>>
  BY DEF SyncBegins, BpIInv, BpTypeInv, SyncType
<1> HIDE DEF v
<1> QED BY <1>1, <1>2, OwnStep

LEMMA LooksKeeps ==
    ASSUME BpIInv, NEW s \in DbgpSyncs, SyncLooks(s)
    PROVE  BpIInv'
<1>1. PICK l \in syncs[s].todo :
          syncs' = [syncs EXCEPT ![s].todo = @ \ {l}, ![s].line = l,
                                 ![s].at = IF known[l] # 0 THEN "look" ELSE "set"]
  BY DEF SyncLooks
<1> DEFINE v == [syncs[s] EXCEPT !.todo = @ \ {l}, !.line = l,
                                 !.at = IF known[l] # 0 THEN "look" ELSE "set"]
<1>2. l \in DbgpLines
  BY DEF BpIInv, BpTypeInv, SyncType
<1>3. v \in SyncType /\ v.at \in {"look", "set"} /\ v.line \in DbgpLines
  BY <1>2 DEF BpIInv, BpTypeInv, SyncType
<1>4. syncs' = [syncs EXCEPT ![s] = v] /\ UNCHANGED <<known, installed, ids>>
  BY <1>1 DEF SyncLooks, BpIInv, BpTypeInv, SyncType
<1> HIDE DEF v
<1> QED BY <1>3, <1>4, OwnStep

\* The engine gives a fresh id: nobody knows, stores or removes it yet.
LEMMA SetsKeeps ==
    ASSUME BpIInv, NEW s \in DbgpSyncs, SyncSets(s)
    PROVE  BpIInv'
<1>1. CASE syncs' = [syncs EXCEPT ![s].at = "look"] /\ UNCHANGED <<ids, installed>>
  <2> DEFINE v == [syncs[s] EXCEPT !.at = "look"]
  <2>1. v \in SyncType /\ v.at = "look"
    BY DEF BpIInv, BpTypeInv, SyncType
  <2>2. syncs' = [syncs EXCEPT ![s] = v] /\ UNCHANGED <<known, installed, ids>>
    BY <1>1 DEF SyncSets, BpIInv, BpTypeInv, SyncType
  <2> HIDE DEF v
  <2> QED BY <2>1, <2>2, OwnStep
<1>2. CASE /\ ids < MaxBreakIds /\ ids' = ids + 1
           /\ installed' = installed \cup {<<ids + 1, syncs[s].line>>}
           /\ syncs' = [syncs EXCEPT ![s].at = "store", ![s].id = ids + 1]
  <2>1. /\ ids \in Nat /\ ids' \in 0..MaxBreakIds /\ ids' = ids + 1 /\ known' = known
        /\ known \in [DbgpLines -> 0..ids] /\ syncs[s].line \in DbgpLines
        /\ installed' = installed \cup {<<ids + 1, syncs[s].line>>}
    <3>1. known' = known /\ syncs[s].at = "set"
      BY DEF SyncSets, SyncAt
    <3>2. syncs[s].line \in DbgpLines
      BY <3>1 DEF BpIInv, StoredIsInstalled
    <3>3. ids \in 0..MaxBreakIds /\ known \in [DbgpLines -> 0..ids]
      BY DEF BpIInv, BpTypeInv
    <3>4. ids \in Nat /\ ids' \in 0..MaxBreakIds
      BY <1>2, <3>3, DbgpBreakAssumption
    <3> QED BY <1>2, <3>1, <3>2, <3>3, <3>4
  <2>2. \A r \in DbgpSyncs : syncs[r] \in SyncType
    BY DEF BpIInv, BpTypeInv
  <2> DEFINE v == [syncs[s] EXCEPT !.at = "store", !.id = ids + 1]
  <2>3. /\ v.at = "store" /\ v.id = ids + 1 /\ v.line = syncs[s].line
        /\ v \in [at : {"idle", "look", "set", "store", "remove"}, want : SUBSET DbgpLines,
                    todo : SUBSET DbgpLines, line : DbgpLines \cup {NoLine}, id : 0..(ids + 1),
                    stale : SUBSET (1..(ids + 1))]
    <3> DEFINE u == syncs[s]
    <3>1. u \in SyncType /\ ids + 1 \in 0..(ids + 1)
      BY <2>1, <2>2
    <3>2. 0..ids \subseteq 0..(ids + 1) /\ 1..ids \subseteq 1..(ids + 1)
      BY <2>1
    <3>3. u.id \in 0..(ids + 1) /\ u.stale \in SUBSET (1..(ids + 1))
      BY <3>1, <3>2 DEF SyncType
    <3> HIDE DEF u
    <3>4. LET w == [u EXCEPT !.at = "store", !.id = ids + 1]
          IN  /\ w.at = "store" /\ w.id = ids + 1 /\ w.line = u.line
              /\ w \in [at : {"idle", "look", "set", "store", "remove"}, want : SUBSET DbgpLines,
                         todo : SUBSET DbgpLines, line : DbgpLines \cup {NoLine}, id : 0..(ids + 1),
                         stale : SUBSET (1..(ids + 1))]
      BY <3>1, <3>3 DEF SyncType
    <3> QED BY <3>4 DEF u
  <2>4. syncs' = [syncs EXCEPT ![s] = v]
    BY <1>2 DEF BpIInv, BpTypeInv
  <2> HIDE DEF v
  <2>5. /\ syncs' = [r \in DbgpSyncs |-> IF r = s THEN v ELSE syncs[r]]
        /\ syncs'[s] = v /\ \A r \in DbgpSyncs : r # s => syncs'[r] = syncs[r]
    BY <2>4 DEF BpIInv, BpTypeInv
  <2>6. \A r \in DbgpSyncs : syncs[r].id \in 0..ids /\ syncs[r].stale \subseteq 1..ids
    BY <2>2 DEF SyncType
  <2>7. BpTypeInv'
    <3>1. known' \in [DbgpLines -> 0..ids']
      BY <2>1
    <3>2. installed' \subseteq (1..ids') \X DbgpLines
      BY <2>1 DEF BpIInv, BpTypeInv
    <3>3. ASSUME NEW r \in DbgpSyncs PROVE syncs'[r] \in SyncType'
      <4>1. CASE r = s
        BY <2>1, <2>3, <2>5, <4>1 DEF SyncType
      <4>2. CASE r # s
        BY <2>1, <2>2, <2>5, <4>2 DEF SyncType
      <4> QED BY <4>1, <4>2
    <3>4. syncs' \in [DbgpSyncs -> SyncType']
      <4>1. syncs' = [r \in DbgpSyncs |-> syncs'[r]]
        BY <2>5
      <4> HIDE DEF SyncType
      <4> QED BY <3>3, <4>1
    <3> QED BY <2>1, <3>1, <3>2, <3>4 DEF BpTypeInv
  <2>8. KnownAreInstalled' /\ KnownOnce'
    BY <2>1 DEF BpIInv, KnownAreInstalled, KnownOnce
  <2>9. StoredIsInstalled'
    <3> SUFFICES ASSUME NEW r \in DbgpSyncs
                 PROVE  /\ syncs'[r].at \in {"set", "store"} => syncs'[r].line \in DbgpLines
                        /\ syncs'[r].at = "store" =>
                               syncs'[r].id # 0 /\ <<syncs'[r].id, syncs'[r].line>> \in installed'
      BY DEF StoredIsInstalled
    <3>1. CASE r = s
      BY <2>1, <2>3, <2>5, <3>1
    <3>2. CASE r # s
      BY <2>1, <2>5, <3>2 DEF BpIInv, StoredIsInstalled
    <3> QED BY <3>1, <3>2
  <2>10. StoredIsUnknown'
    <3> SUFFICES ASSUME NEW r \in DbgpSyncs, syncs'[r].at = "store", NEW l \in DbgpLines
                 PROVE  known'[l] # syncs'[r].id
      BY DEF StoredIsUnknown
    <3>1. CASE r = s
      BY <2>1, <2>3, <2>5, <3>1
    <3>2. CASE r # s
      BY <2>1, <2>5, <3>2 DEF BpIInv, StoredIsUnknown
    <3> QED BY <3>1, <3>2
  <2>11. StoredOnce'
    <3>1. \A r \in DbgpSyncs : syncs[r].id # ids + 1
      BY <2>1, <2>6
    <3> QED BY <2>3, <2>5, <3>1 DEF BpIInv, StoredOnce
  <2>12. StaleIsUnknown'
    <3> SUFFICES ASSUME NEW r \in DbgpSyncs, syncs'[r].at = "remove", NEW i \in syncs'[r].stale
                 PROVE  /\ \A l \in DbgpLines : known'[l] # i
                        /\ \A q \in DbgpSyncs : syncs'[q].at = "store" => syncs'[q].id # i
      BY DEF StaleIsUnknown
    <3>1. r # s /\ syncs'[r] = syncs[r]
      BY <2>3, <2>5
    <3>2. i \in 1..ids /\ i # ids + 1
      BY <2>1, <2>6, <3>1
    <3> QED BY <2>1, <2>3, <2>5, <3>1, <3>2 DEF BpIInv, StaleIsUnknown
  <2> QED BY <2>7, <2>8, <2>9, <2>10, <2>11, <2>12 DEF BpIInv
<1> QED BY <1>1, <1>2 DEF SyncSets

\* The id a call holds becomes the known one of its line.
LEMMA StoresKeeps ==
    ASSUME BpIInv, NEW s \in DbgpSyncs, SyncStores(s)
    PROVE  BpIInv'
<1> DEFINE i == syncs[s].id
           l == syncs[s].line
<1>1. /\ syncs[s].at = "store" /\ l \in DbgpLines /\ i \in 0..ids /\ i # 0 /\ <<i, l>> \in installed
      /\ \A k \in DbgpLines : known[k] # i
      /\ \A r \in DbgpSyncs : r # s /\ syncs[r].at = "store" => syncs[r].id # i
  BY DEF SyncStores, SyncAt, BpIInv, BpTypeInv, SyncType, StoredIsInstalled, StoredIsUnknown, StoredOnce
<1>2. \A k \in DbgpLines : known'[k] = IF k = l THEN i ELSE known[k]
  BY DEF SyncStores, BpIInv, BpTypeInv
<1>3. /\ installed' = installed /\ ids' = ids
      /\ syncs' = [syncs EXCEPT ![s].at = "look"]
      /\ known' = [known EXCEPT ![l] = i]
  BY DEF SyncStores
<1>4. /\ \A r \in DbgpSyncs : r # s => syncs'[r] = syncs[r]
      /\ syncs'[s].at = "look"
  BY <1>3 DEF BpIInv, BpTypeInv, SyncType
<1>5. BpTypeInv'
  BY <1>1, <1>3 DEF BpIInv, BpTypeInv, SyncType
<1> HIDE DEF i, l
<1>6. KnownAreInstalled' /\ KnownOnce'
  BY <1>1, <1>2, <1>3 DEF BpIInv, KnownAreInstalled, KnownOnce
<1>7. StoredIsInstalled' /\ StoredOnce'
  BY <1>3, <1>4 DEF BpIInv, StoredIsInstalled, StoredOnce
<1>8. StoredIsUnknown'
  BY <1>1, <1>2, <1>4 DEF BpIInv, StoredIsUnknown
<1>9. StaleIsUnknown'
  <2>1. \A r \in DbgpSyncs : syncs[r].at = "remove" => i \notin syncs[r].stale
    BY <1>1 DEF BpIInv, StaleIsUnknown, i
  <2> QED BY <1>2, <1>4, <2>1 DEF BpIInv, StaleIsUnknown
<1> QED BY <1>5, <1>6, <1>7, <1>8, <1>9 DEF BpIInv

\* The lines nobody wants are forgotten in the step that marks their ids.
LEMMA ForgetsKeeps ==
    ASSUME BpIInv, NEW s \in DbgpSyncs, SyncForgets(s)
    PROVE  BpIInv'
<1> DEFINE stale == {l \in DbgpLines \ syncs[s].want : known[l] # 0}
           gone  == {known[l] : l \in stale}
<1>1. /\ known' = [l \in DbgpLines |-> IF l \in stale THEN 0 ELSE known[l]]
      /\ syncs' = [syncs EXCEPT ![s].at = "remove", ![s].stale = gone]
      /\ installed' = installed /\ ids' = ids
  BY DEF SyncForgets
<1>2. \A r \in DbgpSyncs : r # s => syncs'[r] = syncs[r]
  BY <1>1 DEF BpIInv, BpTypeInv
<1>3. syncs'[s].at = "remove" /\ syncs'[s].stale = gone
  BY <1>1 DEF BpIInv, BpTypeInv, SyncType
<1>4. /\ gone \subseteq 1..ids
      /\ \A j \in gone : \E l \in DbgpLines : known[l] = j /\ known[l] # 0 /\ known'[l] = 0
  BY <1>1 DEF BpIInv, BpTypeInv
<1>5. BpTypeInv'
  <2>1. known' \in [DbgpLines -> 0..ids] /\ ids \in 0..MaxBreakIds /\ installed \subseteq (1..ids) \X DbgpLines
    BY <1>1 DEF BpIInv, BpTypeInv
  <2> DEFINE v == [syncs[s] EXCEPT !.at = "remove", !.stale = gone]
  <2>2. syncs' = [syncs EXCEPT ![s] = v]
    BY <1>1 DEF BpIInv, BpTypeInv
  <2>3. v \in SyncType
    <3> DEFINE u == syncs[s]
    <3>1. u \in SyncType
      BY DEF BpIInv, BpTypeInv
    <3> HIDE DEF u, gone
    <3>2. [u EXCEPT !.at = "remove", !.stale = gone] \in SyncType
      BY <1>4, <3>1 DEF SyncType
    <3> QED BY <3>2 DEF u
  <2> HIDE DEF v
  <2>4. syncs' \in [DbgpSyncs -> SyncType]
    BY <2>2, <2>3 DEF BpIInv, BpTypeInv
  <2> QED BY <1>1, <2>1, <2>4 DEF BpTypeInv, SyncType
<1>6. \A l \in DbgpLines : known'[l] # 0 => known'[l] = known[l]
  BY <1>1
<1>11. installed' = installed
  BY <1>1
<1> HIDE DEF gone, stale
<1>7. KnownAreInstalled' /\ KnownOnce'
  BY <1>6, <1>11 DEF BpIInv, KnownAreInstalled, KnownOnce
<1>8. StoredIsInstalled' /\ StoredOnce'
  <2>1. \A r \in DbgpSyncs : syncs'[r].at \in {"set", "store"} => syncs'[r] = syncs[r]
    BY <1>2, <1>3
  <2>2. StoredIsInstalled'
    BY <1>11, <2>1 DEF BpIInv, StoredIsInstalled
  <2> QED BY <2>1, <2>2 DEF BpIInv, StoredOnce
<1>9. StoredIsUnknown'
  BY <1>2, <1>3, <1>6 DEF BpIInv, StoredIsUnknown, StoredIsInstalled
<1>10. StaleIsUnknown'
  <2> SUFFICES ASSUME NEW r \in DbgpSyncs, syncs'[r].at = "remove", NEW j \in syncs'[r].stale
               PROVE  /\ \A l \in DbgpLines : known'[l] # j
                      /\ \A q \in DbgpSyncs : syncs'[q].at = "store" => syncs'[q].id # j
    BY DEF StaleIsUnknown
  <2>1. CASE r # s
    <3>1. j # 0 /\ syncs'[r] = syncs[r]
      BY <1>2, <2>1 DEF BpIInv, BpTypeInv, SyncType
    <3> QED BY <1>2, <1>3, <1>6, <2>1, <3>1 DEF BpIInv, StaleIsUnknown
  <2>2. CASE r = s
    <3>1. PICK l \in DbgpLines : known[l] = j /\ known[l] # 0 /\ known'[l] = 0
      BY <1>3, <1>4, <2>2
    <3>2. \A k \in DbgpLines : known'[k] # j
      BY <1>6, <3>1 DEF BpIInv, KnownOnce
    <3>3. \A q \in DbgpSyncs : syncs'[q].at = "store" => syncs'[q].id # j
      BY <1>2, <1>3, <3>1 DEF BpIInv, StoredIsUnknown
    <3> QED BY <3>2, <3>3
  <2> QED BY <2>1, <2>2
<1> QED BY <1>5, <1>7, <1>8, <1>9, <1>10 DEF BpIInv

\* Only what is to be removed can go, and nobody knows or stores that.
LEMMA RemovesKeeps ==
    ASSUME BpIInv, NEW s \in DbgpSyncs, SyncRemoves(s)
    PROVE  BpIInv'
<1>1. /\ syncs[s].at = "remove" /\ known' = known /\ ids' = ids
      /\ syncs' = [syncs EXCEPT ![s] = NoSync]
      /\ installed' \subseteq installed
      /\ \A p \in installed : p[1] \notin syncs[s].stale => p \in installed'
  BY DEF SyncRemoves, SyncAt
<1>2. NoSync \in SyncType /\ NoSync.at = "idle"
  BY DEF NoSync, SyncType, BpIInv, BpTypeInv
<1>3. \A r \in DbgpSyncs : syncs'[r] = IF r = s THEN NoSync ELSE syncs[r]
  BY <1>1 DEF BpIInv, BpTypeInv
<1>4. BpTypeInv'
  BY <1>1, <1>2 DEF BpIInv, BpTypeInv, SyncType
<1>5. KnownAreInstalled'
  BY <1>1 DEF BpIInv, KnownAreInstalled, StaleIsUnknown
<1>6. StoredIsInstalled'
  BY <1>1, <1>2, <1>3 DEF BpIInv, StoredIsInstalled, StaleIsUnknown
<1>7. KnownOnce' /\ StoredIsUnknown' /\ StoredOnce' /\ StaleIsUnknown'
  BY <1>1, <1>2, <1>3 DEF BpIInv, KnownOnce, StoredIsUnknown, StoredOnce, StaleIsUnknown
<1> QED BY <1>4, <1>5, <1>6, <1>7 DEF BpIInv

LEMMA BpInvariantHolds == DbgpBreakSpec => []BpIInv
<1>1. BpIInv /\ UNCHANGED breakVars => BpIInv'
  BY DEF breakVars, BpIInv, BpTypeInv, SyncType, KnownAreInstalled, StoredIsInstalled, KnownOnce,
     StoredIsUnknown, StoredOnce, StaleIsUnknown
<1>2. BpIInv /\ DbgpBreakNext => BpIInv'
  BY BeginsKeeps, LooksKeeps, SetsKeeps, StoresKeeps, ForgetsKeeps, RemovesKeeps
  DEF DbgpBreakNext
<1> QED BY <1>1, <1>2, BpInitHolds, PTL DEF DbgpBreakSpec
-----------------------------------------------------------------------------
\* For any calls and lines, the client's and the engine's breakpoints keep their
\* types.
THEOREM BreakTypeCorrect == DbgpBreakSpec => []DbgpBreakTypeOK
<1>1. BpIInv => DbgpBreakTypeOK
  BY DEF BpIInv, BpTypeInv, SyncType, DbgpBreakTypeOK
<1> QED BY <1>1, BpInvariantHolds, PTL

\* However many synchronizations of a file overlap, the client knows a breakpoint
\* only while the engine has it.
THEOREM KnownCorrect == DbgpBreakSpec => []KnownAreInstalled
<1>1. BpIInv => KnownAreInstalled
  BY DEF BpIInv
<1> QED BY <1>1, BpInvariantHolds, PTL

-----------------------------------------------------------------------------
(***************************************************************************)
(* Safety of LspSession for any documents, requests and number of servers: *)
(* LspIsSound.  What it rests on is what each goroutine may still do: who  *)
(* will write has passed the handshake and holds an id that is its own,    *)
(* who waits has a channel in the map, and who will send a version is the  *)
(* only one to have it.                                                    *)
(***************************************************************************)
Answers == Routines \cup {Unanswered, Closed, TheServer}
Places  == {"idle", "open", "bump", "change", "call", "write", "wait", "over", "handled"}
Kinds   == {"none", "initialize", "opener", "lookup", "layout", "rename"}
RoutineType == [at : Places, gen : 0..MaxServers, kind : Kinds, doc : LspDocs \cup {"none"},
                id : Nat, ver : Nat, got : Answers]

RoutinesTyped ==
    /\ routine \in [Routines -> RoutineType]
    /\ \A r \in Routines :
           /\ routine[r].at # "idle" => routine[r].gen \in Gens /\ routine[r].doc \in LspDocs
           /\ routine[r].at = "open" => routine[r].kind \in {"lookup", "layout", "opener"}

ServersTyped ==
    /\ lspClient \in 0..MaxServers /\ crashed \in BOOLEAN
    /\ server \in [Gens -> {"unstarted", "up", "died", "killed"}]
    /\ initDone \subseteq Gens /\ lspDead \subseteq Gens
    /\ answer \in [Routines -> Answers]

CallType == [id : Nat, for : Routines]
MessagesTyped ==
    /\ nextID \in [Gens -> Nat]
    /\ pending \in [Gens -> SUBSET CallType] /\ asked \in [Gens -> SUBSET CallType]
    /\ replies \in [Gens -> SUBSET [id : Nat, for : Routines \cup {TheServer}]]

DocsTyped ==
    /\ opened \in [Gens -> SUBSET LspDocs] /\ versions \in [Gens -> [LspDocs -> Nat]]
    /\ seen \in [Gens -> [LspDocs -> [opens : Nat, vers : SUBSET Nat]]]
    /\ uiWaits \in [gen : 0..MaxServers, doc : LspDocs \cup {"none", "exit"}, ver : Nat]
    /\ uiWaits.doc \in LspDocs \cup {"exit"} => uiWaits.gen \in Gens

TypeInv == RoutinesTyped /\ ServersTyped /\ MessagesTyped /\ DocsTyped

DeadIsDown == \A g \in lspDead : server[g] \in {"died", "killed"}

\* What is still to be written may be written.
Gated ==
    /\ early = {}
    /\ \A r \in Routines : routine[r].at = "write" /\ routine[r].kind # "initialize" =>
           routine[r].gen \in initDone

IdsGiven ==
    \A g \in Gens :
        /\ \A p \in pending[g] \cup asked[g] : p.id \in 1..nextID[g]
        /\ \A m \in replies[g] : m.for = TheServer \/ m.id \in 1..nextID[g]

OwnId ==
    \A r \in Routines : routine[r].at = "write" =>
        /\ routine[r].id \in 1..nextID[routine[r].gen]
        /\ \A p \in pending[routine[r].gen] : p.id = routine[r].id => p.for = r

\* An id in the map and in an answer is of the same call.
OneMeantPerId ==
    \A g \in Gens : \A p \in pending[g], m \in asked[g] \cup replies[g] :
        p.id = m.id => m.for \in {p.for, TheServer}

\* Who waits for an answer is in the map of a read loop that runs.
Awaited ==
    \A r \in Routines : routine[r].at \in {"write", "wait"} /\ answer[r] = Unanswered =>
        IF routine[r].gen \in lspDead THEN routine[r].at = "write"
        ELSE \E p \in pending[routine[r].gen] : p.for = r

OpenedBefore ==
    \A g \in Gens, d \in LspDocs :
        /\ seen[g][d].opens <= 1
        /\ seen[g][d].opens = 0 \/ d \in opened[g]

VersionsGiven ==
    \A g \in Gens, d \in LspDocs : seen[g][d].vers \subseteq 1..versions[g][d]

Fresh(g, d, v) == v \in 1..versions[g][d] /\ v \notin seen[g][d].vers

\* A version to be sent was given and is not sent yet ...
VersionsToSend ==
    /\ \A r \in Routines : routine[r].at = "change" =>
           Fresh(routine[r].gen, routine[r].doc, routine[r].ver)
    /\ uiWaits.doc \in LspDocs => Fresh(uiWaits.gen, uiWaits.doc, uiWaits.ver)

Alike(x, y) == x.gen = y.gen /\ x.doc = y.doc /\ x.ver = y.ver

\* ... and one goroutine, or the UI, has it.
SentByOne ==
    /\ \A r, q \in Routines :
           r # q /\ routine[r].at = "change" /\ routine[q].at = "change" =>
               ~Alike(routine[r], routine[q])
    /\ \A r \in Routines :
           routine[r].at = "change" /\ uiWaits.doc \in LspDocs => ~Alike(routine[r], uiWaits)

CallInv == /\ DeadIsDown /\ Gated /\ IdsGiven /\ OwnId /\ OneMeantPerId
           /\ Awaited /\ AnswersReachTheirCall
DocInv  == OpenedBefore /\ VersionsGiven /\ VersionsToSend /\ SentByOne /\ twice = {}
IInv    == TypeInv /\ CallInv /\ DocInv
-----------------------------------------------------------------------------
LEMMA InitHolds == LspInit => IInv
<1> SUFFICES ASSUME LspInit PROVE IInv
  OBVIOUS
<1>1. MaxServers \in Nat /\ "none" \notin LspDocs
  BY LspBoundsAssumption
<1>2. /\ lspClient = 0 /\ uiWaits = NoWrite /\ crashed = FALSE /\ initDone = {} /\ lspDead = {}
      /\ early = {} /\ twice = {}
      /\ \A r \in Routines : routine[r] = LspIdle /\ answer[r] = Unanswered
      /\ \A g \in Gens : pending[g] = {} /\ asked[g] = {} /\ replies[g] = {}
      /\ \A g \in Gens, d \in LspDocs : seen[g][d].opens = 0 /\ seen[g][d].vers = {}
  BY DEF LspInit
<1>3. LspIdle \in RoutineType /\ LspIdle.at = "idle"
  BY <1>1 DEF LspIdle, RoutineType, Places, Kinds, Answers
<1>4. RoutinesTyped
  BY <1>2, <1>3 DEF LspInit, RoutinesTyped
<1>5. ServersTyped
  <2>1. answer \in [Routines -> Answers]
    <3>1. answer = [r \in Routines |-> Unanswered]
      BY DEF LspInit
    <3>2. Unanswered \in Answers
      BY DEF Answers
    <3> QED BY <3>1, <3>2
  <2>2. server \in [Gens -> {"unstarted", "up", "died", "killed"}]
    BY DEF LspInit
  <2>3. lspClient \in 0..MaxServers /\ crashed \in BOOLEAN
    <3>1. lspClient = 0 /\ crashed = FALSE
      BY DEF LspInit
    <3>2. 0 \in 0..MaxServers
      BY <1>1
    <3> QED BY <3>1, <3>2
  <2>4. initDone \subseteq Gens /\ lspDead \subseteq Gens
    BY <1>2
  <2> QED BY <2>1, <2>2, <2>3, <2>4 DEF ServersTyped
<1>6. MessagesTyped
  BY DEF LspInit, MessagesTyped
<1>7. DocsTyped
  BY <1>1 DEF LspInit, DocsTyped, NoWrite
<1>8. CallInv
  BY <1>2, <1>3 DEF CallInv, DeadIsDown, Gated, IdsGiven, OwnId, OneMeantPerId, Awaited,
     AnswersReachTheirCall
<1>9. uiWaits.doc \notin LspDocs
  BY <1>1, <1>2 DEF NoWrite
<1>10. DocInv
  BY <1>2, <1>3, <1>9 DEF DocInv, OpenedBefore, VersionsGiven, VersionsToSend, SentByOne
<1> QED BY <1>4, <1>5, <1>6, <1>7, <1>8, <1>10 DEF IInv, TypeInv
-----------------------------------------------------------------------------
(* A goroutine changes nothing of the others.                              *)

LEMMA Becomes ==
    ASSUME RoutinesTyped, NEW r \in Routines, NEW x \in RoutineType,
           routine' = [routine EXCEPT ![r] = x],
           x.at # "idle" => x.gen \in Gens /\ x.doc \in LspDocs,
           x.at = "open" => x.kind \in {"lookup", "layout", "opener"}
    PROVE  /\ RoutinesTyped' /\ routine'[r] = x
           /\ \A q \in Routines : q # r => routine'[q] = routine[q]
<1>1. \A q \in Routines : routine'[q] = IF q = r THEN x ELSE routine[q]
  BY DEF RoutinesTyped
<1>2. routine' \in [Routines -> RoutineType]
  BY DEF RoutinesTyped
<1> QED BY <1>1, <1>2 DEF RoutinesTyped

LEMMA Goes ==
    ASSUME RoutinesTyped, NEW r \in Routines, NEW w \in Places \ {"idle", "open"},
           routine[r].at # "idle", Goto(r, w)
    PROVE  /\ RoutinesTyped' /\ routine'[r].at = w
           /\ routine'[r].gen = routine[r].gen /\ routine'[r].doc = routine[r].doc
           /\ routine'[r].kind = routine[r].kind /\ routine'[r].id = routine[r].id
           /\ routine'[r].ver = routine[r].ver
           /\ \A q \in Routines : q # r => routine'[q] = routine[q]
<1> DEFINE x == [routine[r] EXCEPT !.at = w]
<1>1. /\ x \in RoutineType /\ x.at = w /\ x.gen = routine[r].gen /\ x.doc = routine[r].doc
      /\ x.kind = routine[r].kind /\ x.id = routine[r].id /\ x.ver = routine[r].ver
  BY DEF RoutinesTyped, RoutineType
<1>2. routine' = [routine EXCEPT ![r] = x]
  BY DEF Goto, RoutinesTyped
<1>3. routine[r].gen \in Gens /\ routine[r].doc \in LspDocs
  BY DEF RoutinesTyped
<1> HIDE DEF x
<1> QED BY <1>1, <1>2, <1>3, Becomes

\* A goroutine that goes on without a write, a channel or a version of its own
\* keeps what is said of the others.
LEMMA CallsUndisturbed ==
    ASSUME CallInv, NEW r \in Routines, routine'[r].at \notin {"write", "wait"},
           \A q \in Routines : q # r => routine'[q] = routine[q],
           initDone \subseteq initDone', early' = early,
           UNCHANGED <<server, lspDead, nextID, pending, asked, replies, answer>>
    PROVE  CallInv'
<1>1. DeadIsDown' /\ IdsGiven' /\ OneMeantPerId' /\ AnswersReachTheirCall'
  BY DEF CallInv, DeadIsDown, IdsGiven, OneMeantPerId, AnswersReachTheirCall
<1>2. Gated'
  BY DEF CallInv, Gated
<1>3. OwnId' /\ Awaited'
  BY DEF CallInv, OwnId, Awaited
<1> QED BY <1>1, <1>2, <1>3 DEF CallInv

LEMMA DocsUndisturbed ==
    ASSUME DocInv, NEW r \in Routines, routine'[r].at # "change",
           \A q \in Routines : q # r => routine'[q] = routine[q],
           UNCHANGED <<opened, versions, seen, twice, uiWaits>>
    PROVE  DocInv'
<1>1. OpenedBefore' /\ VersionsGiven' /\ twice' = {}
  BY DEF DocInv, OpenedBefore, VersionsGiven
<1>2. VersionsToSend'
  BY DEF DocInv, VersionsToSend, Fresh
<1>3. SentByOne'
  BY DEF DocInv, SentByOne, Alike
<1> QED BY <1>1, <1>2, <1>3 DEF DocInv
-----------------------------------------------------------------------------
(* The goroutine of a request.                                             *)

\* Where a goroutine is says that it was started.
LEMMA WasStarted ==
    ASSUME TypeInv, NEW r \in Routines, routine[r].at # "idle"
    PROVE  routine[r].gen \in Gens /\ routine[r].doc \in LspDocs
BY DEF TypeInv, RoutinesTyped

LEMMA OpenKeeps ==
    ASSUME IInv, NEW r \in Routines, EnsureOpened(r)
    PROVE  IInv'
<1> DEFINE g == routine[r].gen
           d == routine[r].doc
<1>1. routine[r].at = "open" /\ g \in Gens /\ d \in LspDocs
  BY WasStarted DEF EnsureOpened, IInv
<1>2. PICK w \in {"bump", "call", "over"} : Goto(r, w)
  <2>1. routine[r].kind \in {"lookup", "layout", "opener"}
    BY <1>1 DEF IInv, TypeInv, RoutinesTyped
  <2> QED BY <2>1 DEF EnsureOpened, AfterOpen
<1>3. RoutinesTyped' /\ routine'[r].at = w /\ \A q \in Routines : q # r => routine'[q] = routine[q]
  BY <1>1, <1>2, Goes DEF IInv, TypeInv, Places
<1>4. UNCHANGED <<initDone, lspDead, versions, nextID, pending, asked, replies, questions,
                  lspClient, uiWaits, crashed, server, answer, twice>>
  BY DEF EnsureOpened, serverVars, lspUIVars
<1>5. \/ UNCHANGED <<opened, seen, early>>
      \/ /\ g \in initDone /\ d \notin opened[g]
         /\ opened' = [opened EXCEPT ![g] = @ \cup {d}]
         /\ seen' = [seen EXCEPT ![g][d].opens = @ + 1]
         /\ early' = early
  BY DEF EnsureOpened, GateOpen, NoteWrite
<1> HIDE DEF g, d
<1>6. /\ \A h \in Gens, e \in LspDocs : seen'[h][e].vers = seen[h][e].vers
      /\ DocsTyped' /\ OpenedBefore'
  <2>1. CASE UNCHANGED <<opened, seen, early>>
    BY <1>4, <2>1 DEF IInv, TypeInv, DocsTyped, DocInv, OpenedBefore
  <2>2. CASE /\ d \notin opened[g] /\ opened' = [opened EXCEPT ![g] = @ \cup {d}]
             /\ seen' = [seen EXCEPT ![g][d].opens = @ + 1]
    <3>1. /\ opened \in [Gens -> SUBSET LspDocs]
          /\ seen \in [Gens -> [LspDocs -> [opens : Nat, vers : SUBSET Nat]]]
          /\ seen[g][d].opens = 0
      BY <1>1, <2>2 DEF IInv, TypeInv, DocsTyped, DocInv, OpenedBefore
    <3> DEFINE y == [seen[g][d] EXCEPT !.opens = @ + 1]
    <3>2. y \in [opens : Nat, vers : SUBSET Nat] /\ y.opens = 1 /\ y.vers = seen[g][d].vers
      <4> DEFINE u == seen[g][d]
      <4>1. u \in [opens : Nat, vers : SUBSET Nat] /\ u.opens = 0
        BY <1>1, <3>1
      <4> HIDE DEF u
      <4>2. [u EXCEPT !.opens = @ + 1] \in [opens : Nat, vers : SUBSET Nat]
        BY <4>1
      <4>3. [u EXCEPT !.opens = @ + 1].opens = 1 /\ [u EXCEPT !.opens = @ + 1].vers = u.vers
        BY <4>1
      <4> QED BY <4>2, <4>3 DEF u
    <3>3. seen' = [seen EXCEPT ![g] = [seen[g] EXCEPT ![d] = y]]
      BY <1>1, <2>2, <3>1
    <3> HIDE DEF y
    <3>4. \A h \in Gens, e \in LspDocs : seen'[h][e] = IF h = g /\ e = d THEN y ELSE seen[h][e]
      BY <1>1, <3>1, <3>3
    <3>5. seen' \in [Gens -> [LspDocs -> [opens : Nat, vers : SUBSET Nat]]]
      BY <1>1, <3>1, <3>2, <3>3
    <3>6. \A h \in Gens : opened[h] \subseteq opened'[h]
      BY <2>2, <3>1
    <3>7. d \in opened'[g] /\ opened' \in [Gens -> SUBSET LspDocs]
      BY <1>1, <2>2, <3>1
    <3>8. DocsTyped'
      BY <1>4, <3>5, <3>7 DEF IInv, TypeInv, DocsTyped
    <3>9. OpenedBefore'
      BY <3>2, <3>4, <3>6, <3>7 DEF IInv, DocInv, OpenedBefore
    <3> QED BY <3>2, <3>4, <3>8, <3>9
  <2> QED BY <1>5, <2>1, <2>2
<1>7. CallInv'
  <2>1. early' = early /\ initDone \subseteq initDone' /\ routine'[r].at \notin {"write", "wait"}
    BY <1>3, <1>4, <1>5
  <2> QED BY <1>3, <1>4, <2>1, CallsUndisturbed DEF IInv
<1>8. VersionsGiven' /\ VersionsToSend'
  <2>1. routine'[r].at # "change"
    BY <1>3
  <2>2. \A q \in Routines : routine'[q].at = "change" =>
            routine'[q] = routine[q] /\ routine[q].gen \in Gens /\ routine[q].doc \in LspDocs
    BY <1>3, <2>1, WasStarted DEF IInv
  <2>3. uiWaits.doc \in LspDocs => uiWaits.gen \in Gens
    BY DEF IInv, TypeInv, DocsTyped
  <2> QED BY <1>4, <1>6, <2>2, <2>3 DEF IInv, DocInv, VersionsGiven, VersionsToSend, Fresh
<1>9. SentByOne' /\ twice' = {}
  <2>1. routine'[r].at # "change"
    BY <1>3
  <2> QED BY <1>3, <1>4, <2>1 DEF IInv, DocInv, SentByOne, Alike
<1>10. ServersTyped' /\ MessagesTyped'
  BY <1>4 DEF IInv, TypeInv, ServersTyped, MessagesTyped
<1> QED BY <1>3, <1>6, <1>7, <1>8, <1>9, <1>10 DEF IInv, TypeInv, DocInv

LEMMA BumpKeeps ==
    ASSUME IInv, NEW r \in Routines, DidChangeBump(r)
    PROVE  IInv'
<1>1. routine[r].at = "bump" /\ routine[r].gen \in Gens /\ routine[r].doc \in LspDocs
  BY WasStarted DEF DidChangeBump, IInv
<1>2. PICK g \in Gens, d \in LspDocs : g = routine[r].gen /\ d = routine[r].doc
  BY <1>1
<1>3. versions \in [Gens -> [LspDocs -> Nat]] /\ versions[g][d] \in Nat
  BY DEF IInv, TypeInv, DocsTyped
<1>4. PICK v \in Nat : v = versions[g][d] + 1
  BY <1>3
<1>5. UNCHANGED <<initDone, lspDead, opened, nextID, pending, asked, replies, questions, seen, early,
                  twice, lspClient, uiWaits, crashed, server, answer>>
  BY DEF DidChangeBump, serverVars, lspUIVars, wireVars
<1>6. versions' = [versions EXCEPT ![g] = [versions[g] EXCEPT ![d] = v]]
  BY <1>2, <1>3, <1>4 DEF DidChangeBump
<1>7. \A h \in Gens, e \in LspDocs :
          versions'[h][e] = IF h = g /\ e = d THEN v ELSE versions[h][e]
  BY <1>3, <1>6
<1>8. PICK x : x = [routine[r] EXCEPT !.ver = v, !.at = "change"]
  OBVIOUS
<1>9. routine' = [routine EXCEPT ![r] = x]
  <2>1. versions'[g][d] = v
    BY <1>7
  <2>2. routine' = [routine EXCEPT ![r].ver = v, ![r].at = "change"]
    BY <1>2, <2>1 DEF DidChangeBump
  <2>3. routine \in [Routines -> RoutineType]
    BY DEF IInv, TypeInv, RoutinesTyped
  <2> QED BY <1>8, <2>2, <2>3
<1>10. x \in RoutineType /\ x.at = "change" /\ x.ver = v /\ x.gen = g /\ x.doc = d
  <2>1. routine[r] \in RoutineType
    BY DEF IInv, TypeInv, RoutinesTyped
  <2> QED BY <1>2, <1>8, <2>1 DEF RoutineType, Places
<1>11. RoutinesTyped' /\ routine'[r] = x /\ \A q \in Routines : q # r => routine'[q] = routine[q]
  BY <1>9, <1>10, Becomes DEF IInv, TypeInv
<1>12. DocsTyped'
  BY <1>3, <1>5, <1>6 DEF IInv, TypeInv, DocsTyped
<1>13. CallInv'
  <2>1. routine'[r].at \notin {"write", "wait"}
    BY <1>10, <1>11
  <2> QED BY <1>5, <1>11, <2>1, CallsUndisturbed DEF IInv
<1>14. ServersTyped' /\ MessagesTyped'
  BY <1>5 DEF IInv, TypeInv, ServersTyped, MessagesTyped
<1>15. \A h \in Gens, e \in LspDocs : 1..versions[h][e] \subseteq 1..versions'[h][e]
  BY <1>3, <1>4, <1>7
<1>16. OpenedBefore' /\ VersionsGiven' /\ twice' = {}
  BY <1>5, <1>15 DEF IInv, DocInv, OpenedBefore, VersionsGiven
<1>17. v \in 1..versions'[g][d] /\ v \notin 1..versions[g][d]
  BY <1>3, <1>4, <1>7
<1>18. \A q \in Routines : q # r /\ routine[q].at = "change" =>
           /\ routine[q].gen \in Gens /\ routine[q].doc \in LspDocs
           /\ routine[q].ver \in 1..versions[routine[q].gen][routine[q].doc]
           /\ routine[q].ver \notin seen[routine[q].gen][routine[q].doc].vers
  BY WasStarted DEF IInv, DocInv, VersionsToSend, Fresh
<1>19. uiWaits.doc \in LspDocs =>
           /\ uiWaits.gen \in Gens
           /\ uiWaits.ver \in 1..versions[uiWaits.gen][uiWaits.doc]
           /\ uiWaits.ver \notin seen[uiWaits.gen][uiWaits.doc].vers
  BY DEF IInv, TypeInv, DocsTyped, DocInv, VersionsToSend, Fresh
<1>20. v \notin seen[g][d].vers
  BY <1>17 DEF IInv, DocInv, VersionsGiven
<1>21. VersionsToSend'
  <2>1. ASSUME NEW q \in Routines, routine'[q].at = "change"
        PROVE  Fresh(routine[q].gen, routine[q].doc, routine[q].ver)'
    <3>1. CASE q = r
      BY <1>5, <1>10, <1>11, <1>17, <1>20, <3>1 DEF Fresh
    <3>2. CASE q # r
      BY <1>5, <1>11, <1>15, <1>18, <2>1, <3>2 DEF Fresh
    <3> QED BY <3>1, <3>2
  <2>2. uiWaits'.doc \in LspDocs => Fresh(uiWaits.gen, uiWaits.doc, uiWaits.ver)'
    BY <1>5, <1>15, <1>19 DEF Fresh
  <2> QED BY <2>1, <2>2 DEF VersionsToSend
<1>22. SentByOne'
  <2>1. \A q \in Routines : q # r /\ routine'[q].at = "change" => ~Alike(routine'[q], x)
    BY <1>10, <1>11, <1>17, <1>18 DEF Alike
  <2>2. uiWaits'.doc \in LspDocs => ~Alike(x, uiWaits')
    BY <1>5, <1>10, <1>17, <1>19 DEF Alike
  <2> QED BY <1>5, <1>11, <2>1, <2>2 DEF IInv, DocInv, SentByOne, Alike
<1> QED BY <1>11, <1>12, <1>13, <1>14, <1>16, <1>21, <1>22 DEF IInv, TypeInv, DocInv

\* Sending the version one holds: it is the only one, so the server gets it once.
LEMMA Sends ==
    ASSUME DocInv, DocsTyped, NEW g \in Gens, NEW d \in LspDocs, NEW v \in Nat,
           v \notin seen[g][d].vers, v \in 1..versions'[g][d],
           \A h \in Gens, e \in LspDocs : 1..versions[h][e] \subseteq 1..versions'[h][e],
           WriteChange(g, d, v), UNCHANGED opened
    PROVE  /\ seen' \in [Gens -> [LspDocs -> [opens : Nat, vers : SUBSET Nat]]]
           /\ OpenedBefore' /\ VersionsGiven' /\ twice' = {}
           /\ \A h \in Gens, e \in LspDocs :
                  seen'[h][e].vers \subseteq seen[h][e].vers \cup
                      (IF h = g /\ e = d THEN {v} ELSE {})
<1>1. seen \in [Gens -> [LspDocs -> [opens : Nat, vers : SUBSET Nat]]]
  BY DEF DocsTyped
<1>2. CASE UNCHANGED wireVars
  BY <1>1, <1>2 DEF wireVars, DocInv, OpenedBefore, VersionsGiven
<1>3. CASE /\ seen' = [seen EXCEPT ![g][d].vers = @ \cup {v}]
           /\ twice' = IF v \in seen[g][d].vers THEN twice \cup {g} ELSE twice
  <2>1. twice' = {}
    BY <1>3 DEF DocInv
  <2>2. PICK u \in [opens : Nat, vers : SUBSET Nat] : u = seen[g][d]
    BY <1>1
  <2>3. PICK y : y = [u EXCEPT !.vers = @ \cup {v}]
    OBVIOUS
  <2>4. y \in [opens : Nat, vers : SUBSET Nat] /\ y.opens = u.opens /\ y.vers = u.vers \cup {v}
    BY <2>2, <2>3
  <2>5. seen' = [seen EXCEPT ![g] = [seen[g] EXCEPT ![d] = y]]
    BY <1>1, <1>3, <2>2, <2>3
  <2>6. \A h \in Gens, e \in LspDocs : seen'[h][e] = IF h = g /\ e = d THEN y ELSE seen[h][e]
    BY <1>1, <2>5
  <2>7. seen' \in [Gens -> [LspDocs -> [opens : Nat, vers : SUBSET Nat]]]
    BY <1>1, <2>4, <2>5
  <2>8. OpenedBefore'
    BY <2>2, <2>4, <2>6 DEF DocInv, OpenedBefore
  <2>9. VersionsGiven'
    BY <2>2, <2>4, <2>6 DEF DocInv, VersionsGiven
  <2> QED BY <2>1, <2>2, <2>4, <2>6, <2>7, <2>8, <2>9
<1> QED BY <1>2, <1>3 DEF WriteChange

LEMMA ChangeKeeps ==
    ASSUME IInv, NEW r \in Routines, DidChangeWrite(r)
    PROVE  IInv'
<1>1. /\ routine[r].at = "change" /\ routine[r].gen \in Gens /\ routine[r].doc \in LspDocs
      /\ routine[r].ver \in Nat
  BY WasStarted DEF DidChangeWrite, IInv, TypeInv, RoutinesTyped, RoutineType
<1>2. PICK g \in Gens, d \in LspDocs, v \in Nat :
          g = routine[r].gen /\ d = routine[r].doc /\ v = routine[r].ver
  BY <1>1
<1>3. Goto(r, "call") /\ UNCHANGED <<initDone, lspDead, opened, versions, nextID, pending, asked,
          replies, questions, lspClient, uiWaits, crashed, server, answer>>
  BY DEF DidChangeWrite, serverVars, lspUIVars, clientVars
<1>4. /\ RoutinesTyped' /\ routine'[r].at = "call"
      /\ \A q \in Routines : q # r => routine'[q] = routine[q]
  BY <1>1, <1>3, Goes DEF IInv, TypeInv, Places
<1>5. \/ UNCHANGED wireVars
      \/ g \in initDone /\ WriteChange(g, d, v)
  BY <1>2 DEF DidChangeWrite, GateOpen
<1>6. early' = early
  BY <1>5 DEF WriteChange, wireVars, NoteWrite
<1>7. CallInv'
  BY <1>3, <1>4, <1>6, CallsUndisturbed DEF IInv
<1>8. ServersTyped' /\ MessagesTyped'
  BY <1>3 DEF IInv, TypeInv, ServersTyped, MessagesTyped
<1>9. Fresh(g, d, v)
  BY <1>1, <1>2 DEF IInv, DocInv, VersionsToSend
<1>10. /\ seen' \in [Gens -> [LspDocs -> [opens : Nat, vers : SUBSET Nat]]]
       /\ OpenedBefore' /\ VersionsGiven' /\ twice' = {}
       /\ \A h \in Gens, e \in LspDocs :
              seen'[h][e].vers \subseteq seen[h][e].vers \cup (IF h = g /\ e = d THEN {v} ELSE {})
  <2>1. CASE UNCHANGED wireVars
    BY <1>3, <2>1 DEF wireVars, IInv, TypeInv, DocsTyped, DocInv, OpenedBefore, VersionsGiven
  <2>2. CASE WriteChange(g, d, v)
    BY <1>3, <1>9, <2>2, Sends DEF IInv, TypeInv, Fresh
  <2> QED BY <1>5, <2>1, <2>2
<1>11. DocsTyped'
  BY <1>3, <1>10 DEF IInv, TypeInv, DocsTyped
<1>12. VersionsToSend'
  <2>1. ASSUME NEW q \in Routines, routine'[q].at = "change"
        PROVE  Fresh(routine[q].gen, routine[q].doc, routine[q].ver)'
    <3>1. q # r /\ routine'[q] = routine[q]
      BY <1>4, <2>1
    <3>2. routine[q].gen \in Gens /\ routine[q].doc \in LspDocs
      BY <2>1, <3>1, WasStarted DEF IInv
    <3>3. ~Alike(routine[q], routine[r])
      BY <1>1, <2>1, <3>1 DEF IInv, DocInv, SentByOne
    <3>4. Fresh(routine[q].gen, routine[q].doc, routine[q].ver)
      BY <2>1, <3>1 DEF IInv, DocInv, VersionsToSend
    <3> QED BY <1>2, <1>3, <1>10, <3>1, <3>2, <3>3, <3>4 DEF Fresh, Alike
  <2>2. uiWaits'.doc \in LspDocs => Fresh(uiWaits.gen, uiWaits.doc, uiWaits.ver)'
    <3> SUFFICES ASSUME uiWaits.doc \in LspDocs
                 PROVE  Fresh(uiWaits.gen, uiWaits.doc, uiWaits.ver)'
      BY <1>3
    <3>1. ~Alike(routine[r], uiWaits) /\ Fresh(uiWaits.gen, uiWaits.doc, uiWaits.ver)
      BY <1>1 DEF IInv, DocInv, SentByOne, VersionsToSend
    <3>2. uiWaits.gen \in Gens
      BY DEF IInv, TypeInv, DocsTyped
    <3> QED BY <1>2, <1>3, <1>10, <3>1, <3>2 DEF Fresh, Alike
  <2> QED BY <2>1, <2>2 DEF VersionsToSend
<1>13. SentByOne'
  BY <1>3, <1>4 DEF IInv, DocInv, SentByOne, Alike
<1> QED BY <1>4, <1>7, <1>8, <1>10, <1>11, <1>12, <1>13 DEF IInv, TypeInv, DocInv

\* A new call takes an id nobody was given.
LEMMA RegisterKeeps ==
    ASSUME IInv, NEW r \in Routines, CallRegister(r)
    PROVE  IInv'
<1>1. routine[r].at = "call" /\ routine[r].gen \in Gens /\ routine[r].doc \in LspDocs
  BY WasStarted DEF CallRegister, IInv
<1>2. PICK g \in Gens : g = routine[r].gen
  BY <1>1
<1>3. nextID \in [Gens -> Nat] /\ nextID[g] \in Nat /\ pending \in [Gens -> SUBSET CallType]
  BY DEF IInv, TypeInv, MessagesTyped
<1>4. PICK n \in Nat : n = nextID[g] + 1
  BY <1>3
<1>5. UNCHANGED <<initDone, lspDead, opened, versions, asked, replies, questions, seen, early, twice,
                  lspClient, uiWaits, crashed, server, answer>>
  BY DEF CallRegister, serverVars, lspUIVars, wireVars
<1>6. ServersTyped' /\ DocsTyped'
  BY <1>5 DEF IInv, TypeInv, ServersTyped, DocsTyped
<1>7. CASE Goto(r, "over") /\ UNCHANGED <<nextID, pending>>
  <2>1. /\ RoutinesTyped' /\ routine'[r].at = "over"
        /\ \A q \in Routines : q # r => routine'[q] = routine[q]
    BY <1>1, <1>7, Goes DEF IInv, TypeInv, Places
  <2>2. CallInv'
    BY <1>5, <1>7, <2>1, CallsUndisturbed DEF IInv
  <2>3. DocInv'
    BY <1>5, <2>1, DocsUndisturbed DEF IInv
  <2>4. MessagesTyped'
    BY <1>5, <1>7 DEF IInv, TypeInv, MessagesTyped
  <2> QED BY <1>6, <2>1, <2>2, <2>3, <2>4 DEF IInv, TypeInv
<1>8. CASE /\ GateOpen(g) \/ routine[r].kind = "initialize"
           /\ nextID' = [nextID EXCEPT ![g] = n]
           /\ pending' = [pending EXCEPT ![g] = @ \cup {[id |-> n, for |-> r]}]
           /\ routine' = [routine EXCEPT ![r].id = n, ![r].at = "write"]
  <2>1. PICK x : x = [routine[r] EXCEPT !.id = n, !.at = "write"]
    OBVIOUS
  <2>2. /\ x \in RoutineType /\ x.at = "write" /\ x.id = n /\ x.gen = g
        /\ x.doc = routine[r].doc /\ x.kind = routine[r].kind
    <3>1. routine[r] \in RoutineType
      BY DEF IInv, TypeInv, RoutinesTyped
    <3> QED BY <1>2, <2>1, <3>1 DEF RoutineType, Places
  <2>3. routine' = [routine EXCEPT ![r] = x]
    BY <1>8, <2>1 DEF IInv, TypeInv, RoutinesTyped
  <2>4. RoutinesTyped' /\ routine'[r] = x /\ \A q \in Routines : q # r => routine'[q] = routine[q]
    BY <1>1, <1>2, <2>2, <2>3, Becomes DEF IInv, TypeInv
  <2>5. PICK e \in CallType : e = [id |-> n, for |-> r]
    BY DEF CallType
  <2>6. /\ \A h \in Gens : nextID'[h] = IF h = g THEN n ELSE nextID[h]
        /\ \A h \in Gens : pending'[h] = IF h = g THEN pending[h] \cup {e} ELSE pending[h]
    BY <1>3, <1>8, <2>5
  <2>7. e.id = n /\ e.for = r
    BY <2>5
  <2>8. MessagesTyped'
    BY <1>3, <1>5, <1>8, <2>5 DEF IInv, TypeInv, MessagesTyped
  <2>9. /\ \A h \in Gens : 1..nextID[h] \subseteq 1..nextID'[h]
        /\ n \in 1..nextID'[g] /\ n \notin 1..nextID[g]
    BY <1>3, <1>4, <2>6
  <2>10. IdsGiven'
    BY <1>5, <2>6, <2>7, <2>9 DEF IInv, CallInv, IdsGiven
  <2>11. OwnId'
    <3> SUFFICES ASSUME NEW q \in Routines, routine'[q].at = "write"
                 PROVE  /\ routine'[q].id \in 1..nextID'[routine'[q].gen]
                        /\ \A p \in pending'[routine'[q].gen] : p.id = routine'[q].id => p.for = q
      BY DEF OwnId
    <3>1. CASE q = r
      <4>1. \A p \in pending[g] : p.id \in 1..nextID[g]
        BY DEF IInv, CallInv, IdsGiven
      <4>2. routine'[q].id = n /\ routine'[q].gen = g /\ n \in 1..nextID'[g]
        BY <2>2, <2>4, <2>9, <3>1
      <4>3. \A p \in pending'[g] : p = e \/ p \in pending[g]
        BY <2>6
      <4>4. \A p \in pending'[g] : p.id = n => p.for = r
        BY <2>7, <2>9, <4>1, <4>3
      <4> QED BY <3>1, <4>2, <4>4
    <3>2. CASE q # r
      <4>1. routine'[q] = routine[q] /\ routine[q].at = "write" /\ routine[q].gen \in Gens
        BY <2>4, <3>2, WasStarted DEF IInv
      <4>2. /\ routine[q].id \in 1..nextID[routine[q].gen]
            /\ \A p \in pending[routine[q].gen] : p.id = routine[q].id => p.for = q
        BY <4>1 DEF IInv, CallInv, OwnId
      <4> QED BY <2>6, <2>7, <2>9, <4>1, <4>2
    <3> QED BY <3>1, <3>2
  <2>12. OneMeantPerId'
    <3>1. /\ \A m \in asked[g] : m.id \in 1..nextID[g]
          /\ \A m \in replies[g] : m.for = TheServer \/ m.id \in 1..nextID[g]
      BY DEF IInv, CallInv, IdsGiven
    <3>2. \A m \in asked[g] \cup replies[g] : e.id = m.id => m.for = TheServer
      BY <2>7, <2>9, <3>1
    <3> SUFFICES ASSUME NEW h \in Gens, NEW p \in pending'[h], NEW m \in asked'[h] \cup replies'[h],
                        p.id = m.id
                 PROVE  m.for \in {p.for, TheServer}
      BY DEF OneMeantPerId
    <3>3. m \in asked[h] \cup replies[h]
      BY <1>5
    <3>4. CASE p \in pending[h]
      BY <3>3, <3>4 DEF IInv, CallInv, OneMeantPerId
    <3>5. CASE p \notin pending[h]
      <4>1. h = g /\ p = e
        BY <2>6, <3>5
      <4> QED BY <3>2, <3>3, <4>1
    <3> QED BY <3>4, <3>5
  <2>13. Gated'
    <3>1. x.kind # "initialize" => x.gen \in initDone'
      BY <1>2, <1>5, <1>8, <2>2 DEF GateOpen
    <3> QED BY <1>5, <2>4, <3>1 DEF IInv, CallInv, Gated
  <2>14. Awaited'
    <3> SUFFICES ASSUME NEW q \in Routines, routine'[q].at \in {"write", "wait"}, answer'[q] = Unanswered
                 PROVE  IF routine'[q].gen \in lspDead' THEN routine'[q].at = "write"
                        ELSE \E p \in pending'[routine'[q].gen] : p.for = q
      BY DEF Awaited
    <3>1. CASE q = r
      BY <2>2, <2>4, <2>6, <2>7, <3>1
    <3>2. CASE q # r
      <4>1. routine'[q] = routine[q] /\ routine[q].gen \in Gens
        BY <2>4, <3>2, WasStarted DEF IInv
      <4>2. pending[routine[q].gen] \subseteq pending'[routine[q].gen]
        BY <2>6, <4>1
      <4> QED BY <1>5, <4>1, <4>2 DEF IInv, CallInv, Awaited
    <3> QED BY <3>1, <3>2
  <2>15. DeadIsDown' /\ AnswersReachTheirCall'
    BY <1>5 DEF IInv, CallInv, DeadIsDown, AnswersReachTheirCall
  <2>16. DocInv'
    BY <1>5, <2>2, <2>4, DocsUndisturbed DEF IInv
  <2> QED BY <1>6, <2>4, <2>8, <2>10, <2>11, <2>12, <2>13, <2>14, <2>15, <2>16
    DEF IInv, TypeInv, CallInv
<1> QED BY <1>2, <1>4, <1>7, <1>8 DEF CallRegister

\* A goroutine that ends its call is out of every condition.
LEMMA LeaveKeeps ==
    ASSUME IInv, NEW r \in Routines, routine[r].at # "idle", NEW got \in Answers, Leave(r, got),
           UNCHANGED <<lspDead, opened, versions, nextID, pending, asked, replies, questions, seen, early,
                       twice, lspClient, uiWaits, crashed, server, answer>>
    PROVE  IInv'
<1>1. routine[r].gen \in Gens /\ routine[r].doc \in LspDocs
  BY WasStarted DEF IInv
<1>2. PICK x : x = [routine[r] EXCEPT !.at = "over", !.got = got]
  OBVIOUS
<1>3. x \in RoutineType /\ x.at = "over" /\ x.gen = routine[r].gen /\ x.doc = routine[r].doc
  <2>1. routine[r] \in RoutineType
    BY DEF IInv, TypeInv, RoutinesTyped
  <2> QED BY <1>2, <2>1 DEF RoutineType, Places
<1>4. routine' = [routine EXCEPT ![r] = x]
  BY <1>2 DEF Leave, IInv, TypeInv, RoutinesTyped
<1>5. RoutinesTyped' /\ routine'[r] = x /\ \A q \in Routines : q # r => routine'[q] = routine[q]
  BY <1>1, <1>3, <1>4, Becomes DEF IInv, TypeInv
<1>6. initDone \subseteq initDone' /\ initDone' \subseteq Gens
  BY <1>1 DEF Leave, IInv, TypeInv, ServersTyped
<1>7. CallInv'
  BY <1>3, <1>5, <1>6, CallsUndisturbed DEF IInv
<1>8. DocInv'
  BY <1>3, <1>5, DocsUndisturbed DEF IInv
<1>9. ServersTyped' /\ MessagesTyped' /\ DocsTyped'
  BY <1>6 DEF IInv, TypeInv, ServersTyped, MessagesTyped, DocsTyped
<1> QED BY <1>5, <1>7, <1>8, <1>9 DEF IInv, TypeInv

LEMMA ReturnKeeps ==
    ASSUME IInv, NEW r \in Routines, CallReturn(r)
    PROVE  IInv'
<1>1. PICK got \in {answer[r], Unanswered} : Leave(r, got)
  BY DEF CallReturn
<1>2. got \in Answers /\ routine[r].at # "idle"
  BY DEF CallReturn, IInv, TypeInv, ServersTyped, Answers
<1>3. UNCHANGED <<lspDead, opened, versions, nextID, pending, asked, replies, questions, seen, early,
                  twice, lspClient, uiWaits, crashed, server, answer>>
  BY DEF CallReturn, serverVars, wireVars, lspUIVars
<1> QED BY <1>1, <1>2, <1>3, LeaveKeeps

\* What is written to the server carries the id of the call.
LEMMA WriteKeeps ==
    ASSUME IInv, NEW r \in Routines, CallWrite(r)
    PROVE  IInv'
<1>1. routine[r].at = "write" /\ routine[r].gen \in Gens /\ routine[r].doc \in LspDocs
  BY WasStarted DEF CallWrite, IInv
<1>2. PICK g \in Gens : g = routine[r].gen
  BY <1>1
<1>3. UNCHANGED <<lspDead, opened, versions, nextID, pending, replies, questions, seen, twice,
                  lspClient, uiWaits, crashed, server, answer>>
  BY DEF CallWrite, lspUIVars
<1>4. CASE Leave(r, Unanswered) /\ UNCHANGED <<asked, early>>
  <2>1. Unanswered \in Answers
    BY DEF Answers
  <2> QED BY <1>1, <1>3, <1>4, <2>1, LeaveKeeps
<1>5. CASE /\ Reaches(g) /\ Goto(r, "wait") /\ UNCHANGED initDone
           /\ asked' = [asked EXCEPT ![g] = @ \cup {[id |-> routine[r].id, for |-> r]}]
           /\ IF routine[r].kind = "initialize" THEN UNCHANGED early ELSE NoteWrite(g)
  <2>1. /\ RoutinesTyped' /\ routine'[r].at = "wait" /\ routine'[r].gen = g
        /\ \A q \in Routines : q # r => routine'[q] = routine[q]
    BY <1>1, <1>2, <1>5, Goes DEF IInv, TypeInv, Places
  <2>2. routine[r].id \in Nat
    BY DEF IInv, TypeInv, RoutinesTyped, RoutineType
  <2>3. PICK e \in CallType : e = [id |-> routine[r].id, for |-> r]
    BY <2>2 DEF CallType
  <2>4. asked \in [Gens -> SUBSET CallType]
    BY DEF IInv, TypeInv, MessagesTyped
  <2>5. \A h \in Gens : asked'[h] = IF h = g THEN asked[h] \cup {e} ELSE asked[h]
    BY <1>5, <2>3, <2>4
  <2>6. /\ e.for = r /\ e.id \in 1..nextID[g]
        /\ \A p \in pending[g] : p.id = e.id => p.for = r
    BY <1>1, <1>2, <2>3 DEF IInv, CallInv, OwnId
  <2>7. early' = {}
    BY <1>1, <1>2, <1>5 DEF IInv, CallInv, Gated, NoteWrite
  <2>8. Gated'
    BY <1>5, <2>1, <2>7 DEF IInv, CallInv, Gated
  <2>9. IdsGiven'
    BY <1>3, <2>5, <2>6 DEF IInv, CallInv, IdsGiven
  <2>10. OneMeantPerId'
    <3> SUFFICES ASSUME NEW h \in Gens, NEW p \in pending'[h], NEW m \in asked'[h] \cup replies'[h],
                        p.id = m.id
                 PROVE  m.for \in {p.for, TheServer}
      BY DEF OneMeantPerId
    <3>1. p \in pending[h]
      BY <1>3
    <3>2. CASE m \in asked[h] \cup replies[h]
      BY <3>1, <3>2 DEF IInv, CallInv, OneMeantPerId
    <3>3. CASE m \notin asked[h] \cup replies[h]
      <4>1. h = g /\ m = e
        BY <1>3, <2>5, <3>3
      <4> QED BY <2>6, <3>1, <4>1
    <3> QED BY <3>2, <3>3
  <2>11. OwnId'
    BY <1>3, <2>1 DEF IInv, CallInv, OwnId
  <2>12. g \notin lspDead
    BY <1>5 DEF Reaches, IInv, CallInv, DeadIsDown
  <2>13. Awaited'
    BY <1>1, <1>2, <1>3, <2>1, <2>12 DEF IInv, CallInv, Awaited
  <2>14. DeadIsDown' /\ AnswersReachTheirCall'
    BY <1>3 DEF IInv, CallInv, DeadIsDown, AnswersReachTheirCall
  <2>15. DocInv'
    BY <1>3, <2>1, DocsUndisturbed DEF IInv
  <2>16. MessagesTyped'
    BY <1>3, <1>5, <2>3, <2>4 DEF IInv, TypeInv, MessagesTyped
  <2>17. ServersTyped' /\ DocsTyped'
    BY <1>3, <1>5 DEF IInv, TypeInv, ServersTyped, DocsTyped
  <2> QED BY <2>1, <2>8, <2>9, <2>10, <2>11, <2>13, <2>14, <2>15, <2>16, <2>17
    DEF IInv, TypeInv, CallInv
<1> QED BY <1>2, <1>4, <1>5 DEF CallWrite
-----------------------------------------------------------------------------
(* The read loop and the server.                                           *)

\* What only moves between the map, the server and the wire leaves the
\* documents and the goroutines alone.
LEMMA WireKeeps ==
    ASSUME IInv, MessagesTyped', ServersTyped', UNCHANGED <<initDone, nextID>>,
           UNCHANGED <<routine, opened, versions, seen, early, twice, uiWaits>>,
           IdsGiven', OwnId', OneMeantPerId', Awaited', DeadIsDown', AnswersReachTheirCall'
    PROVE  IInv'
<1>1. Gated'
  BY DEF IInv, CallInv, Gated
<1>2. OpenedBefore' /\ VersionsGiven' /\ twice' = {}
  BY DEF IInv, DocInv, OpenedBefore, VersionsGiven
<1>3. VersionsToSend' /\ SentByOne'
  BY DEF IInv, DocInv, VersionsToSend, Fresh, SentByOne, Alike
<1>4. RoutinesTyped' /\ DocsTyped'
  BY DEF IInv, TypeInv, RoutinesTyped, DocsTyped
<1> QED BY <1>1, <1>2, <1>3, <1>4 DEF IInv, TypeInv, CallInv, DocInv

LEMMA ReadKeeps == ASSUME IInv, ReadReply PROVE IInv'
<1>0. PICK g \in Gens : \E m \in replies[g] :
        LET hit == {p \in pending[g] : p.id = m.id}
        IN  /\ g \notin lspDead
            /\ replies' = [replies EXCEPT ![g] = @ \ {m}]
            /\ pending' = [pending EXCEPT ![g] = @ \ hit]
            /\ answer' = [r \in Routines |-> IF \E p \in hit : p.for = r THEN m.for ELSE answer[r]]
  BY DEF ReadReply
<1>1. PICK m \in replies[g] :
        LET hit == {p \in pending[g] : p.id = m.id}
        IN  /\ g \notin lspDead
            /\ replies' = [replies EXCEPT ![g] = @ \ {m}]
            /\ pending' = [pending EXCEPT ![g] = @ \ hit]
            /\ answer' = [r \in Routines |-> IF \E p \in hit : p.for = r THEN m.for ELSE answer[r]]
  BY <1>0
<1>2. UNCHANGED <<initDone, lspDead, opened, versions, nextID, asked, questions, seen, early, twice,
                  lspClient, uiWaits, crashed, server, routine>>
  BY DEF ReadReply, wireVars, lspUIVars
<1>3. /\ pending \in [Gens -> SUBSET CallType]
      /\ replies \in [Gens -> SUBSET [id : Nat, for : Routines \cup {TheServer}]]
  BY DEF IInv, TypeInv, MessagesTyped
<1>4. /\ \A h \in Gens : replies'[h] \subseteq replies[h] /\ pending'[h] \subseteq pending[h]
      /\ \A h \in Gens : h # g => pending'[h] = pending[h]
      /\ \A p \in pending[g] : p \in pending'[g] \/ p.id = m.id
  BY <1>1, <1>3
<1>5. \A r \in Routines : IF \E p \in pending[g] : p.id = m.id /\ p.for = r
                            THEN answer'[r] = m.for ELSE answer'[r] = answer[r]
  BY <1>1
<1>6. m.for \in Routines \cup {TheServer} /\ m.for # Unanswered
  BY <1>3, LspChannelsAssumption
<1>7. MessagesTyped'
  BY <1>1, <1>2, <1>3 DEF IInv, TypeInv, MessagesTyped
<1>8. ServersTyped'
  <2>1. answer' \in [Routines -> Answers]
    BY <1>1, <1>6 DEF IInv, TypeInv, ServersTyped, Answers
  <2> QED BY <1>2, <2>1 DEF IInv, TypeInv, ServersTyped
<1>9. IdsGiven' /\ OneMeantPerId' /\ DeadIsDown'
  BY <1>2, <1>4 DEF IInv, CallInv, IdsGiven, OneMeantPerId, DeadIsDown
<1>10. OwnId'
  BY <1>2, <1>4, WasStarted DEF IInv, CallInv, OwnId
<1>11. AnswersReachTheirCall'
  <2>1. \A p \in pending[g] : p.id = m.id => m.for \in {p.for, TheServer}
    BY DEF IInv, CallInv, OneMeantPerId
  <2> QED BY <1>5, <2>1 DEF IInv, CallInv, AnswersReachTheirCall
<1>12. Awaited'
  <2> SUFFICES ASSUME NEW r \in Routines, routine[r].at \in {"write", "wait"}, answer'[r] = Unanswered
               PROVE  IF routine[r].gen \in lspDead THEN routine[r].at = "write"
                      ELSE \E p \in pending'[routine[r].gen] : p.for = r
    BY <1>2 DEF Awaited
  <2>1. answer[r] = Unanswered /\ ~\E p \in pending[g] : p.id = m.id /\ p.for = r
    BY <1>5, <1>6
  <2>2. routine[r].gen \in Gens
    BY WasStarted DEF IInv
  <2> QED BY <1>4, <2>1, <2>2 DEF IInv, CallInv, Awaited
<1> QED BY <1>2, <1>7, <1>8, <1>9, <1>10, <1>11, <1>12, WireKeeps

LEMMA CloseKeeps == ASSUME IInv, ClosePending PROVE IInv'
<1>1. PICK g \in Gens \ lspDead :
        /\ server[g] \in {"killed", "died"}
        /\ lspDead' = lspDead \cup {g}
        /\ answer' = [r \in Routines |->
                        IF \E p \in pending[g] : p.for = r THEN Closed ELSE answer[r]]
        /\ pending' = [pending EXCEPT ![g] = {}]
  BY DEF ClosePending
<1>2. UNCHANGED <<initDone, opened, versions, nextID, asked, replies, questions, seen, early, twice,
                  lspClient, uiWaits, crashed, server, routine>>
  BY DEF ClosePending, serverVars, wireVars, lspUIVars
<1>3. pending \in [Gens -> SUBSET CallType]
  BY DEF IInv, TypeInv, MessagesTyped
<1>4. \A h \in Gens : pending'[h] = IF h = g THEN {} ELSE pending[h]
  BY <1>1, <1>3
<1>5. \A r \in Routines : answer'[r] = IF \E p \in pending[g] : p.for = r THEN Closed ELSE answer[r]
  BY <1>1
<1>6. Closed # Unanswered
  BY LspChannelsAssumption
<1>7. MessagesTyped'
  BY <1>1, <1>2, <1>3 DEF IInv, TypeInv, MessagesTyped
<1>8. ServersTyped'
  <2>1. answer' \in [Routines -> Answers]
    BY <1>1 DEF IInv, TypeInv, ServersTyped, Answers
  <2> QED BY <1>1, <1>2, <2>1 DEF IInv, TypeInv, ServersTyped
<1>9. IdsGiven' /\ OneMeantPerId' /\ DeadIsDown'
  BY <1>1, <1>2, <1>4 DEF IInv, CallInv, IdsGiven, OneMeantPerId, DeadIsDown
<1>10. OwnId'
  BY <1>2, <1>4, WasStarted DEF IInv, CallInv, OwnId
<1>11. AnswersReachTheirCall'
  BY <1>5 DEF IInv, CallInv, AnswersReachTheirCall
<1>12. Awaited'
  <2> SUFFICES ASSUME NEW r \in Routines, routine[r].at \in {"write", "wait"}, answer'[r] = Unanswered
               PROVE  IF routine[r].gen \in lspDead' THEN routine[r].at = "write"
                      ELSE \E p \in pending'[routine[r].gen] : p.for = r
    BY <1>2 DEF Awaited
  <2>1. answer[r] = Unanswered /\ ~\E p \in pending[g] : p.for = r
    BY <1>5, <1>6
  <2>2. routine[r].gen \in Gens
    BY WasStarted DEF IInv
  <2> QED BY <1>1, <1>4, <2>1, <2>2 DEF IInv, CallInv, Awaited
<1> QED BY <1>2, <1>7, <1>8, <1>9, <1>10, <1>11, <1>12, WireKeeps

LEMMA AnswersKeeps == ASSUME IInv, ServerAnswers PROVE IInv'
<1>0. PICK g \in Gens : \E m \in asked[g] :
        /\ asked' = [asked EXCEPT ![g] = @ \ {m}]
        /\ replies' = [replies EXCEPT ![g] = @ \cup {m}]
  BY DEF ServerAnswers
<1>1. PICK m \in asked[g] :
        /\ asked' = [asked EXCEPT ![g] = @ \ {m}]
        /\ replies' = [replies EXCEPT ![g] = @ \cup {m}]
  BY <1>0
<1>2. UNCHANGED <<initDone, lspDead, opened, versions, nextID, pending, questions, seen, early, twice,
                  lspClient, uiWaits, crashed, server, answer, routine>>
  BY DEF ServerAnswers, clientVars, wireVars, lspUIVars
<1>3. /\ asked \in [Gens -> SUBSET CallType]
      /\ replies \in [Gens -> SUBSET [id : Nat, for : Routines \cup {TheServer}]]
  BY DEF IInv, TypeInv, MessagesTyped
<1>4. /\ \A h \in Gens : asked'[h] \subseteq asked[h]
      /\ \A h \in Gens : replies'[h] \subseteq replies[h] \cup asked[h]
  BY <1>1, <1>3
<1>5. MessagesTyped'
  <2>1. m \in [id : Nat, for : Routines \cup {TheServer}]
    BY <1>3 DEF CallType
  <2> QED BY <1>1, <1>2, <1>3, <2>1 DEF IInv, TypeInv, MessagesTyped
<1>6. IdsGiven' /\ OneMeantPerId'
  BY <1>2, <1>4 DEF IInv, CallInv, IdsGiven, OneMeantPerId
<1>7. ServersTyped' /\ OwnId' /\ Awaited' /\ DeadIsDown' /\ AnswersReachTheirCall'
  BY <1>2 DEF IInv, TypeInv, ServersTyped, CallInv, OwnId, Awaited, DeadIsDown, AnswersReachTheirCall
<1> QED BY <1>2, <1>5, <1>6, <1>7, WireKeeps

LEMMA AsksKeeps == ASSUME IInv, ServerAsks PROVE IInv'
<1>1. PICK g \in Gens, n \in 1..2 :
        replies' = [replies EXCEPT ![g] = @ \cup {[id |-> n, for |-> TheServer]}]
  BY DEF ServerAsks
<1>2. UNCHANGED <<initDone, lspDead, opened, versions, nextID, pending, asked, seen, early, twice,
                  lspClient, uiWaits, crashed, server, answer, routine>>
  BY DEF ServerAsks, clientVars, wireVars, lspUIVars
<1>3. replies \in [Gens -> SUBSET [id : Nat, for : Routines \cup {TheServer}]]
  BY DEF IInv, TypeInv, MessagesTyped
<1>4. \A h \in Gens : \A m \in replies'[h] : m \in replies[h] \/ m.for = TheServer
  BY <1>1, <1>3
<1>5. MessagesTyped'
  BY <1>1, <1>2, <1>3 DEF IInv, TypeInv, MessagesTyped
<1>6. IdsGiven' /\ OneMeantPerId'
  BY <1>2, <1>4 DEF IInv, CallInv, IdsGiven, OneMeantPerId
<1>7. ServersTyped' /\ OwnId' /\ Awaited' /\ DeadIsDown' /\ AnswersReachTheirCall'
  BY <1>2 DEF IInv, TypeInv, ServersTyped, CallInv, OwnId, Awaited, DeadIsDown, AnswersReachTheirCall
<1> QED BY <1>2, <1>5, <1>6, <1>7, WireKeeps

\* A server that goes down takes nothing back.
LEMMA DownKeeps ==
    ASSUME IInv, NEW g \in Gens, NEW how \in {"died", "killed"}, NEW c \in 0..MaxServers,
           server' = [server EXCEPT ![g] = how], lspClient' = c,
           UNCHANGED <<initDone, lspDead, opened, versions, nextID, pending, asked, replies, seen, early,
                       twice, uiWaits, crashed, answer, routine>>
    PROVE  IInv'
<1>1. ServersTyped' /\ DeadIsDown'
  BY DEF IInv, TypeInv, ServersTyped, CallInv, DeadIsDown
<1>2. MessagesTyped' /\ IdsGiven' /\ OneMeantPerId'
  BY DEF IInv, TypeInv, MessagesTyped, CallInv, IdsGiven, OneMeantPerId
<1>3. OwnId' /\ Awaited' /\ AnswersReachTheirCall'
  BY DEF IInv, CallInv, OwnId, Awaited, AnswersReachTheirCall
<1> QED BY <1>1, <1>2, <1>3, WireKeeps

LEMMA DiesKeeps == ASSUME IInv, ServerDies PROVE IInv'
<1>1. PICK g \in Gens : server' = [server EXCEPT ![g] = "died"]
  BY DEF ServerDies
<1>2. lspClient \in 0..MaxServers
  BY DEF IInv, TypeInv, ServersTyped
<1> QED BY <1>1, <1>2, DownKeeps DEF ServerDies, clientVars, serverVars, wireVars, lspUIVars

\* The UI has no version to send, whatever it waits with.
LEMMA NoVersionHeld ==
    ASSUME IInv, ServersTyped', DeadIsDown',
           uiWaits' \in [gen : 0..MaxServers, doc : LspDocs \cup {"none", "exit"}, ver : Nat],
           uiWaits'.doc \notin LspDocs, uiWaits'.doc = "exit" => uiWaits'.gen \in Gens,
           UNCHANGED <<initDone, lspDead, opened, versions, nextID, pending, asked, replies, seen, early,
                       twice, answer, routine>>
    PROVE  IInv'
<1>1. TypeInv'
  BY DEF IInv, TypeInv, RoutinesTyped, MessagesTyped, DocsTyped
<1>2. CallInv'
  BY DEF IInv, CallInv, Gated, IdsGiven, OwnId, OneMeantPerId, Awaited, AnswersReachTheirCall
<1>3. OpenedBefore' /\ VersionsGiven' /\ twice' = {}
  BY DEF IInv, DocInv, OpenedBefore, VersionsGiven
<1>4. VersionsToSend' /\ SentByOne'
  BY DEF IInv, DocInv, VersionsToSend, Fresh, SentByOne, Alike
<1> QED BY <1>1, <1>2, <1>3, <1>4 DEF IInv, DocInv

LEMMA ClosedTyped ==
    ASSUME IInv, NEW g \in Gens, LspClosed(g), UNCHANGED <<initDone, lspDead, answer, crashed>>
    PROVE  ServersTyped' /\ DeadIsDown'
<1>1. 0 \in 0..MaxServers
  BY LspBoundsAssumption
<1> QED BY <1>1 DEF LspClosed, IInv, TypeInv, ServersTyped, CallInv, DeadIsDown

LEMMA RestartKeeps == ASSUME IInv, RestartLSP PROVE IInv'
<1>1. lspClient \in Gens /\ 0 \in 0..MaxServers
  BY LspBoundsAssumption DEF RestartLSP, IInv, TypeInv, ServersTyped, Gens
<1>2. UNCHANGED <<initDone, lspDead, opened, versions, nextID, pending, asked, replies, seen, early,
                  twice, crashed, answer, routine>>
  BY DEF RestartLSP, clientVars, serverVars, wireVars
<1>3. CASE LspClosed(lspClient) /\ UNCHANGED uiWaits
  <2>1. server' = [server EXCEPT ![lspClient] = "killed"] /\ lspClient' = 0
    BY <1>3 DEF LspClosed
  <2> QED BY <1>1, <1>2, <1>3, <2>1, DownKeeps
<1>4. CASE /\ uiWaits' = [gen |-> lspClient, doc |-> "exit", ver |-> 0]
           /\ UNCHANGED <<server, lspClient>>
  <2>1. ServersTyped' /\ DeadIsDown'
    BY <1>2, <1>4 DEF IInv, TypeInv, ServersTyped, CallInv, DeadIsDown
  <2>2. /\ uiWaits' \in [gen : 0..MaxServers, doc : LspDocs \cup {"none", "exit"}, ver : Nat]
        /\ uiWaits'.doc \notin LspDocs /\ uiWaits'.gen \in Gens
    BY <1>1, <1>4, LspBoundsAssumption DEF Gens
  <2> QED BY <1>2, <2>1, <2>2, NoVersionHeld
<1> QED BY <1>3, <1>4 DEF RestartLSP
-----------------------------------------------------------------------------
(* The UI.                                                                 *)

\* Goroutines that are started have nothing to write, to wait for or to send.
LEMMA SpawnKeeps ==
    ASSUME IInv, RoutinesTyped', ServersTyped', DeadIsDown',
           \A q \in Routines : routine'[q] = routine[q] \/ routine'[q].at \in {"call", "open"},
           UNCHANGED <<initDone, lspDead, opened, versions, nextID, pending, asked, replies, seen, early,
                       twice, uiWaits, crashed, answer>>
    PROVE  IInv'
<1>1. MessagesTyped' /\ DocsTyped'
  BY DEF IInv, TypeInv, MessagesTyped, DocsTyped
<1>2. IdsGiven' /\ OneMeantPerId' /\ AnswersReachTheirCall'
  BY DEF IInv, CallInv, IdsGiven, OneMeantPerId, AnswersReachTheirCall
<1>3. Gated' /\ OwnId' /\ Awaited'
  BY DEF IInv, CallInv, Gated, OwnId, Awaited
<1>4. OpenedBefore' /\ VersionsGiven' /\ twice' = {}
  BY DEF IInv, DocInv, OpenedBefore, VersionsGiven
<1>5. VersionsToSend' /\ SentByOne'
  <2>1. \A q \in Routines : routine'[q].at = "change" => routine'[q] = routine[q]
    OBVIOUS
  <2>2. VersionsToSend'
    BY <2>1 DEF IInv, DocInv, VersionsToSend, Fresh
  <2> QED BY <2>1, <2>2 DEF IInv, DocInv, SentByOne, Alike
<1> QED BY <1>1, <1>2, <1>3, <1>4, <1>5 DEF IInv, TypeInv, CallInv, DocInv

LEMMA SpawnedType ==
    ASSUME NEW g \in Gens, NEW d \in LspDocs,
           NEW kind \in {"initialize", "opener", "lookup", "layout", "rename"},
           NEW where \in {"call", "open"}, where = "open" => kind \in {"lookup", "layout", "opener"}
    PROVE  /\ Spawned(g, kind, where, d) \in RoutineType /\ Spawned(g, kind, where, d).at = where
           /\ Spawned(g, kind, where, d).gen = g /\ Spawned(g, kind, where, d).doc = d
           /\ Spawned(g, kind, where, d).kind = kind
<1>1. g \in 0..MaxServers /\ 0 \in 0..MaxServers /\ Unanswered \in Answers
  BY LspBoundsAssumption DEF Gens, Answers
<1>2. LspIdle \in RoutineType
  BY <1>1 DEF LspIdle, RoutineType, Places, Kinds
<1>3. PICK x : x = Spawned(g, kind, where, d)
  OBVIOUS
<1>4. x = [LspIdle EXCEPT !.at = where, !.gen = g, !.kind = kind, !.doc = d]
  BY <1>3 DEF Spawned
<1>5. x \in RoutineType /\ x.at = where /\ x.gen = g /\ x.doc = d /\ x.kind = kind
  BY <1>1, <1>2, <1>4 DEF RoutineType, Places, Kinds
<1> QED BY <1>3, <1>5

LEMMA RequestKeeps ==
    ASSUME IInv, NEW r \in LspCalls, NEW kind \in {"lookup", "layout", "rename"}, NEW d \in LspDocs,
           Request(r, kind, d)
    PROVE  IInv'
<1>1. r \in Routines /\ routine[r].at = "idle"
  BY DEF Request, Routines
<1>2. UNCHANGED <<initDone, lspDead, opened, versions, nextID, pending, asked, replies, seen, early,
                  twice, uiWaits, crashed, answer>>
  BY DEF Request, clientVars, serverVars, wireVars
<1>3. Entry(kind) \in {"call", "open"} /\ (Entry(kind) = "open" => kind \in {"lookup", "layout"})
  BY DEF Entry
<1>4. routine \in [Routines -> RoutineType]
  BY DEF IInv, TypeInv, RoutinesTyped
<1>5. ASSUME lspClient # 0, routine' = [routine EXCEPT ![r] = Spawned(lspClient, kind, Entry(kind), d)],
             UNCHANGED <<server, lspClient>>
      PROVE  IInv'
  <2>1. PICK g \in Gens : g = lspClient
    BY <1>5, LspBoundsAssumption DEF IInv, TypeInv, ServersTyped, Gens
  <2>2. PICK x : x = Spawned(g, kind, Entry(kind), d)
    OBVIOUS
  <2>3. /\ x \in RoutineType /\ x.at \in {"call", "open"} /\ x.gen \in Gens /\ x.doc \in LspDocs
        /\ x.at = "open" => x.kind \in {"lookup", "layout", "opener"}
    BY <1>3, <2>2, SpawnedType
  <2>4. routine' = [routine EXCEPT ![r] = x]
    BY <1>5, <2>1, <2>2
  <2>5. RoutinesTyped' /\ routine'[r] = x /\ \A q \in Routines : q # r => routine'[q] = routine[q]
    BY <1>1, <2>3, <2>4, Becomes DEF IInv, TypeInv
  <2>6. ServersTyped' /\ DeadIsDown'
    BY <1>2, <1>5 DEF IInv, TypeInv, ServersTyped, CallInv, DeadIsDown
  <2> QED BY <1>2, <2>3, <2>5, <2>6, SpawnKeeps
<1>6. ASSUME NEW g \in Gens, EnsureLSP(g, d, r, kind) PROVE IInv'
  <2>1. PICK x, y, z : /\ x = Spawned(g, "initialize", "call", d)
                       /\ y = Spawned(g, "opener", "open", d)
                       /\ z = Spawned(g, kind, Entry(kind), d)
    OBVIOUS
  <2>2. \A w \in {x, y, z} :
          /\ w \in RoutineType /\ w.at \in {"call", "open"} /\ w.gen \in Gens /\ w.doc \in LspDocs
          /\ w.at = "open" => w.kind \in {"lookup", "layout", "opener"}
    <3>1. x \in RoutineType /\ x.at = "call" /\ x.gen = g /\ x.doc = d
      BY <2>1, SpawnedType
    <3>2. y \in RoutineType /\ y.at = "open" /\ y.gen = g /\ y.doc = d /\ y.kind = "opener"
      BY <2>1, SpawnedType
    <3>3. z \in RoutineType /\ z.at = Entry(kind) /\ z.gen = g /\ z.doc = d /\ z.kind = kind
      BY <1>3, <2>1, SpawnedType
    <3> QED BY <1>3, <3>1, <3>2, <3>3
  <2>3. routine' = [routine EXCEPT ![InitOf(g)] = x, ![OpenerOf(g)] = y, ![r] = z]
    BY <1>6, <2>1 DEF EnsureLSP
  <2>4. /\ routine' \in [Routines -> RoutineType]
        /\ \A q \in Routines : routine'[q] \in {routine[q], x, y, z}
    BY <1>4, <2>2, <2>3
  <2>5. RoutinesTyped'
    BY <2>2, <2>4 DEF IInv, TypeInv, RoutinesTyped
  <2>6. ServersTyped' /\ DeadIsDown'
    <3>1. /\ server[g] = "unstarted" /\ server' = [server EXCEPT ![g] = "up"] /\ lspClient' = g
          /\ g \in 0..MaxServers
      BY <1>6, LspBoundsAssumption DEF EnsureLSP, Gens
    <3>2. g \notin lspDead
      BY <3>1 DEF IInv, CallInv, DeadIsDown
    <3> QED BY <1>2, <3>1, <3>2 DEF IInv, TypeInv, ServersTyped, CallInv, DeadIsDown
  <2> QED BY <1>2, <2>2, <2>4, <2>5, <2>6, SpawnKeeps
<1> QED BY <1>5, <1>6 DEF Request

LEMMA AskKeeps ==
    ASSUME IInv, NEW r \in LspCalls, NEW d \in LspDocs, Ask(r, d)
    PROVE  IInv'
<1>1. PICK kind \in {"lookup", "layout", "rename"} : Request(r, kind, d)
  BY DEF Ask, LspCompletionCmd, GotoDefinition, StartHover, StartRefs, LspFormat, StartLspActions,
     StartOutline, StartLspRename
<1> QED BY <1>1, RequestKeeps

\* What only the UI's write changes.
LEMMA WatchedKeeps == ASSUME IInv, DidChangeWatchedFiles PROVE IInv'
<1>1. UNCHANGED <<initDone, lspDead, opened, versions, nextID, pending, asked, replies, questions, seen,
                  early, twice, lspClient, crashed, server, answer, routine>>
  BY DEF DidChangeWatchedFiles, clientVars, serverVars, wireVars
<1>2. /\ uiWaits' \in [gen : 0..MaxServers, doc : LspDocs \cup {"none", "exit"}, ver : Nat]
      /\ uiWaits'.doc \notin LspDocs \cup {"exit"}
  <2>1. lspClient \in 0..MaxServers /\ 0 \in 0..MaxServers
    BY LspBoundsAssumption DEF IInv, TypeInv, ServersTyped
  <2>2. uiWaits' \in {NoWrite, [NoWrite EXCEPT !.gen = lspClient]}
    BY DEF DidChangeWatchedFiles
  <2> QED BY <2>1, <2>2, LspBoundsAssumption DEF NoWrite
<1>3. ServersTyped' /\ DeadIsDown'
  BY <1>1 DEF IInv, TypeInv, ServersTyped, CallInv, DeadIsDown
<1> QED BY <1>1, <1>2, <1>3, NoVersionHeld

\* What is sent by a step of the UI: the version is in nobody else's hands.
LEMMA UISends ==
    ASSUME IInv, NEW g \in Gens, NEW d \in LspDocs, NEW v \in Nat, WriteChange(g, d, v),
           g \in initDone, v \notin seen[g][d].vers, v \in 1..versions'[g][d],
           \A h \in Gens, e \in LspDocs : 1..versions[h][e] \subseteq 1..versions'[h][e],
           \A q \in Routines : routine[q].at = "change" =>
               ~(routine[q].gen = g /\ routine[q].doc = d /\ routine[q].ver = v),
           \A q \in Routines : routine'[q] = routine[q]
                              \/ routine'[q].at \in Places \ {"change", "write", "wait"},
           uiWaits'.doc \notin LspDocs \cup {"exit"}, versions' \in [Gens -> [LspDocs -> Nat]],
           uiWaits' \in [gen : 0..MaxServers, doc : LspDocs \cup {"none", "exit"}, ver : Nat],
           RoutinesTyped', ServersTyped',
           UNCHANGED <<initDone, lspDead, opened, nextID, pending, asked, replies, server, answer>>
    PROVE  IInv'
<1>1. /\ seen' \in [Gens -> [LspDocs -> [opens : Nat, vers : SUBSET Nat]]]
      /\ OpenedBefore' /\ VersionsGiven' /\ twice' = {}
      /\ \A h \in Gens, e \in LspDocs :
             seen'[h][e].vers \subseteq seen[h][e].vers \cup (IF h = g /\ e = d THEN {v} ELSE {})
  BY Sends DEF IInv, TypeInv
<1>2. DocsTyped' /\ MessagesTyped'
  BY <1>1 DEF IInv, TypeInv, DocsTyped, MessagesTyped
<1>3. early' = {}
  BY DEF WriteChange, NoteWrite, wireVars, IInv, CallInv, Gated
<1>4. IdsGiven' /\ OneMeantPerId' /\ AnswersReachTheirCall' /\ DeadIsDown'
  BY DEF IInv, CallInv, IdsGiven, OneMeantPerId, AnswersReachTheirCall, DeadIsDown
<1>5. Gated' /\ OwnId' /\ Awaited'
  <2>1. \A q \in Routines : routine'[q].at \in {"write", "wait"} => routine'[q] = routine[q]
    OBVIOUS
  <2>2. Gated'
    BY <1>3, <2>1 DEF IInv, CallInv, Gated
  <2> QED BY <2>1, <2>2 DEF IInv, CallInv, OwnId, Awaited
<1>6. \A q \in Routines : routine'[q].at = "change" => routine'[q] = routine[q]
  OBVIOUS
<1>7. VersionsToSend'
  <2> SUFFICES ASSUME NEW q \in Routines, routine'[q].at = "change"
               PROVE  Fresh(routine[q].gen, routine[q].doc, routine[q].ver)'
    BY <1>6 DEF VersionsToSend
  <2>1. routine'[q] = routine[q] /\ routine[q].gen \in Gens /\ routine[q].doc \in LspDocs
    BY <1>6, WasStarted DEF IInv
  <2>2. Fresh(routine[q].gen, routine[q].doc, routine[q].ver)
    BY <2>1 DEF IInv, DocInv, VersionsToSend
  <2> QED BY <1>1, <2>1, <2>2 DEF Fresh
<1>8. SentByOne'
  BY <1>6 DEF IInv, DocInv, SentByOne, Alike
<1> QED BY <1>1, <1>2, <1>4, <1>5, <1>7, <1>8 DEF IInv, TypeInv, CallInv, DocInv

LEMMA UIWriteKeeps == ASSUME IInv, UIWriteEnds PROVE IInv'
<1>1. UNCHANGED <<initDone, lspDead, opened, versions, nextID, pending, asked, replies, questions,
                  crashed, answer, routine>> /\ uiWaits' = NoWrite
  BY DEF UIWriteEnds, clientVars, serverVars
<1>2. /\ uiWaits' \in [gen : 0..MaxServers, doc : LspDocs \cup {"none", "exit"}, ver : Nat]
      /\ uiWaits'.doc \notin LspDocs \cup {"exit"}
  BY <1>1, LspBoundsAssumption DEF NoWrite
<1>4. CASE /\ WritesAtOnce(uiWaits.gen) /\ uiWaits.doc \in LspDocs
           /\ WriteChange(uiWaits.gen, uiWaits.doc, uiWaits.ver)
           /\ UNCHANGED <<server, lspClient>>
  <2>0. RoutinesTyped' /\ ServersTyped' /\ versions' \in [Gens -> [LspDocs -> Nat]]
    BY <1>1, <1>4 DEF IInv, TypeInv, RoutinesTyped, ServersTyped, DocsTyped
  <2>1. uiWaits.gen \in Gens /\ uiWaits.ver \in Nat
    BY <1>4 DEF IInv, TypeInv, DocsTyped
  <2>2. PICK g \in Gens, d \in LspDocs, v \in Nat :
            g = uiWaits.gen /\ d = uiWaits.doc /\ v = uiWaits.ver
    BY <1>4, <2>1
  <2>3. WriteChange(g, d, v) /\ g \in initDone
    BY <1>4, <2>2 DEF WritesAtOnce, GateOpen
  <2>4. v \notin seen[g][d].vers /\ v \in 1..versions'[g][d]
    BY <1>1, <1>4, <2>2 DEF IInv, DocInv, VersionsToSend, Fresh
  <2>5. \A q \in Routines : routine[q].at = "change" =>
            ~(routine[q].gen = g /\ routine[q].doc = d /\ routine[q].ver = v)
    BY <1>4, <2>2 DEF IInv, DocInv, SentByOne, Alike
  <2>6. \A h \in Gens, e \in LspDocs : 1..versions[h][e] \subseteq 1..versions'[h][e]
    BY <1>1
  <2>7. \A q \in Routines : routine'[q] = routine[q]
    BY <1>1
  <2> QED BY <1>1, <1>2, <1>4, <2>0, <2>3, <2>4, <2>5, <2>6, <2>7, UISends
<1>5. ASSUME UNCHANGED wireVars, ServersTyped', DeadIsDown' PROVE IInv'
  <2>1. UNCHANGED <<seen, early, twice>>
    BY <1>5 DEF wireVars
  <2> QED BY <1>1, <1>2, <1>5, <2>1, NoVersionHeld
<1>6. CASE UNCHANGED <<wireVars, server, lspClient>>
  <2>1. ServersTyped' /\ DeadIsDown'
    BY <1>1, <1>6 DEF IInv, TypeInv, ServersTyped, CallInv, DeadIsDown
  <2> QED BY <1>5, <1>6, <2>1
<1>7. CASE uiWaits.doc = "exit" /\ LspClosed(uiWaits.gen) /\ UNCHANGED wireVars
  <2>1. uiWaits.gen \in Gens
    BY <1>7 DEF IInv, TypeInv, DocsTyped
  <2>2. ServersTyped' /\ DeadIsDown'
    BY <1>1, <1>7, <2>1, ClosedTyped
  <2> QED BY <1>5, <1>7, <2>2
<1> QED BY <1>4, <1>6, <1>7 DEF UIWriteEnds

LEMMA DeliverKeeps ==
    ASSUME IInv, NEW r \in LspCalls, LspDeliver(r)
    PROVE  IInv'
<1>1. r \in Routines /\ routine[r].at = "over" /\ uiWaits = NoWrite /\ Goto(r, "handled")
  BY DEF LspDeliver, UIRuns, Routines
<1>2. UNCHANGED <<initDone, lspDead, opened, nextID, pending, asked, replies, questions, lspClient,
                  server, answer>>
  BY DEF LspDeliver, serverVars
<1>3. /\ RoutinesTyped' /\ routine'[r].at = "handled"
      /\ \A q \in Routines : q # r => routine'[q] = routine[q]
  BY <1>1, Goes DEF IInv, TypeInv, Places
<1>4. uiWaits.doc \notin LspDocs \cup {"exit"}
  BY <1>1, LspBoundsAssumption DEF NoWrite
<1>5. ASSUME UNCHANGED <<versions, wireVars, uiWaits>>, crashed' \in BOOLEAN
      PROVE  IInv'
  <2>1. UNCHANGED <<seen, early, twice>>
    BY <1>5 DEF wireVars
  <2>2. CallInv'
    BY <1>1, <1>2, <1>3, <2>1, CallsUndisturbed DEF IInv
  <2>3. DocInv'
    BY <1>1, <1>2, <1>3, <1>5, <2>1, DocsUndisturbed DEF IInv
  <2>4. ServersTyped' /\ MessagesTyped' /\ DocsTyped'
    BY <1>2, <1>5, <2>1 DEF IInv, TypeInv, ServersTyped, MessagesTyped, DocsTyped
  <2> QED BY <1>3, <2>2, <2>3, <2>4 DEF IInv, TypeInv
<1>6. ASSUME NEW d \in LspDocs, ApplyWorkspaceEdit(d), lspClient # 0
      PROVE  IInv'
  <2>1. PICK g \in Gens : g = lspClient
    BY <1>6, LspBoundsAssumption DEF IInv, TypeInv, ServersTyped, Gens
  <2>2. versions \in [Gens -> [LspDocs -> Nat]] /\ versions[g][d] \in Nat
    BY DEF IInv, TypeInv, DocsTyped
  <2>3. PICK v \in Nat : v = versions[g][d] + 1
    BY <2>2
  <2>4. /\ versions' = [versions EXCEPT ![g] = [versions[g] EXCEPT ![d] = v]] /\ UNCHANGED crashed
        /\ \/ WritesAtOnce(g) /\ WriteChange(g, d, v) /\ UNCHANGED uiWaits
           \/ uiWaits' = [gen |-> g, doc |-> d, ver |-> v] /\ UNCHANGED wireVars
    BY <1>6, <2>1, <2>2, <2>3 DEF ApplyWorkspaceEdit
  <2>5. versions' \in [Gens -> [LspDocs -> Nat]]
    BY <2>2, <2>4
  <2>6. \A h \in Gens, e \in LspDocs :
            versions'[h][e] = IF h = g /\ e = d THEN v ELSE versions[h][e]
    BY <2>2, <2>4
  <2>7. /\ \A h \in Gens, e \in LspDocs : 1..versions[h][e] \subseteq 1..versions'[h][e]
        /\ v \in 1..versions'[g][d] /\ v \notin 1..versions[g][d]
    BY <2>2, <2>3, <2>6
  <2>8. v \notin seen[g][d].vers
    BY <2>7 DEF IInv, DocInv, VersionsGiven
  <2>9. \A q \in Routines : routine[q].at = "change" =>
            /\ routine[q].gen \in Gens /\ routine[q].doc \in LspDocs
            /\ Fresh(routine[q].gen, routine[q].doc, routine[q].ver)
            /\ ~(routine[q].gen = g /\ routine[q].doc = d /\ routine[q].ver = v)
    BY <2>7, WasStarted DEF IInv, DocInv, VersionsToSend, Fresh
  <2>10. ServersTyped'
    BY <1>2, <2>4 DEF IInv, TypeInv, ServersTyped
  <2>11. CASE WritesAtOnce(g) /\ WriteChange(g, d, v) /\ UNCHANGED uiWaits
    <3>1. g \in initDone /\ uiWaits'.doc \notin LspDocs \cup {"exit"}
          /\ uiWaits' \in [gen : 0..MaxServers, doc : LspDocs \cup {"none", "exit"}, ver : Nat]
      BY <1>4, <2>11 DEF WritesAtOnce, GateOpen, IInv, TypeInv, DocsTyped
    <3>2. \A q \in Routines : routine'[q] = routine[q]
                              \/ routine'[q].at \in Places \ {"change", "write", "wait"}
      BY <1>3 DEF Places
    <3> QED BY <1>2, <1>3, <2>5, <2>7, <2>8, <2>9, <2>10, <2>11, <3>1, <3>2, UISends
  <2>12. CASE uiWaits' = [gen |-> g, doc |-> d, ver |-> v] /\ UNCHANGED wireVars
    <3>1. UNCHANGED <<seen, early, twice>>
      BY <2>12 DEF wireVars
    <3>2. /\ uiWaits' \in [gen : 0..MaxServers, doc : LspDocs \cup {"none", "exit"}, ver : Nat]
          /\ uiWaits'.gen = g /\ uiWaits'.doc = d /\ uiWaits'.ver = v
      BY <2>12, LspBoundsAssumption DEF Gens
    <3>3. CallInv'
      BY <1>1, <1>2, <1>3, <3>1, CallsUndisturbed DEF IInv
    <3>4. DocsTyped' /\ MessagesTyped'
      BY <1>2, <2>5, <3>1, <3>2 DEF IInv, TypeInv, DocsTyped, MessagesTyped
    <3>5. OpenedBefore' /\ VersionsGiven' /\ twice' = {}
      BY <1>2, <2>7, <3>1 DEF IInv, DocInv, OpenedBefore, VersionsGiven
    <3>6. \A q \in Routines : routine'[q].at = "change" => routine'[q] = routine[q]
      BY <1>3
    <3>7. VersionsToSend'
      <4>1. Fresh(uiWaits.gen, uiWaits.doc, uiWaits.ver)'
        BY <2>7, <2>8, <3>1, <3>2 DEF Fresh
      <4>2. \A q \in Routines : routine'[q].at = "change" =>
                Fresh(routine[q].gen, routine[q].doc, routine[q].ver)'
        BY <2>7, <2>9, <3>1, <3>6 DEF Fresh
      <4> QED BY <4>1, <4>2 DEF VersionsToSend
    <3>8. SentByOne'
      BY <2>9, <3>2, <3>6 DEF IInv, DocInv, SentByOne, Alike
    <3> QED BY <1>3, <2>10, <3>3, <3>4, <3>5, <3>7, <3>8 DEF IInv, TypeInv, DocInv
  <2> QED BY <2>4, <2>11, <2>12
<1>7. ASSUME NEW d \in LspDocs, ApplyWorkspaceEdit(d), lspClient = 0
      PROVE  UNCHANGED <<versions, wireVars, uiWaits>> /\ crashed' \in BOOLEAN
  BY <1>7 DEF ApplyWorkspaceEdit
<1>8. crashed \in BOOLEAN
  BY DEF IInv, TypeInv, ServersTyped
<1>9. \/ \E d \in LspDocs : ApplyWorkspaceEdit(d)
      \/ UNCHANGED <<versions, wireVars, uiWaits, crashed>>
  BY DEF LspDeliver
<1> QED BY <1>5, <1>6, <1>7, <1>8, <1>9
-----------------------------------------------------------------------------
LEMMA StopsKeeps == ASSUME IInv, ServerStopsReading PROVE IInv'
<1>1. UNCHANGED <<initDone, lspDead, opened, versions, nextID, pending, asked, replies, seen, early,
                  twice, uiWaits, crashed, answer, lspClient, server, routine>>
  BY DEF ServerStopsReading, clientVars, wireVars, lspUIVars
<1>2. RoutinesTyped' /\ ServersTyped' /\ DeadIsDown'
  BY <1>1 DEF IInv, TypeInv, RoutinesTyped, ServersTyped, CallInv, DeadIsDown
<1>3. \A q \in Routines : routine'[q] = routine[q]
  BY <1>1
<1> QED BY <1>1, <1>2, <1>3, SpawnKeeps

\* Only a server that is up is ever said not to read.
DeafTyped == deaf \subseteq Gens

LEMMA DeafAreServers == LspSpec => []DeafTyped
<1>1. LspInit => DeafTyped
  BY DEF LspInit, DeafTyped
<1>2. ASSUME DeafTyped, [LspNext]_lspVars PROVE DeafTyped'
  <2>1. ASSUME NEW r \in Routines, RoutineStep(r) PROVE UNCHANGED deaf
    BY <2>1 DEF RoutineStep, EnsureOpened, DidChangeBump, DidChangeWrite, CallRegister,
       CallWrite, CallReturn, serverVars
  <2>2. ASSUME ReadReply \/ ClosePending \/ ServerAnswers \/ ServerAsks \/ ServerDies
        PROVE  UNCHANGED deaf
    BY <2>2 DEF ReadReply, ClosePending, ServerAnswers, ServerAsks, ServerDies, serverVars
  <2>3. ASSUME NEW r \in LspCalls, NEW d \in LspDocs, Ask(r, d) PROVE UNCHANGED deaf
    BY <2>3 DEF Ask, LspCompletionCmd, GotoDefinition, StartHover, StartRefs, LspFormat,
       StartLspActions, StartOutline, StartLspRename, Request, serverVars
  <2>4. ASSUME RestartLSP \/ DidChangeWatchedFiles \/ UIWriteEnds PROVE UNCHANGED deaf
    BY <2>4 DEF RestartLSP, DidChangeWatchedFiles, UIWriteEnds, serverVars
  <2>5. ASSUME NEW r \in LspCalls, LspDeliver(r) PROVE UNCHANGED deaf
    BY <2>5 DEF LspDeliver, serverVars
  <2>6. CASE ServerStopsReading
    BY <1>2, <2>6 DEF ServerStopsReading, DeafTyped
  <2>7. CASE UNCHANGED lspVars
    BY <1>2, <2>7 DEF lspVars, serverVars, DeafTyped
  <2> QED BY <1>2, <2>1, <2>2, <2>3, <2>4, <2>5, <2>6, <2>7 DEF LspNext, DeafTyped
<1> QED BY <1>1, <1>2, PTL DEF LspSpec

LEMMA InvariantHolds == LspSpec => []IInv
<1>1. ASSUME IInv, [LspNext]_lspVars PROVE IInv'
  <2>1. ASSUME NEW r \in Routines, RoutineStep(r) PROVE IInv'
    BY <1>1, <2>1, OpenKeeps, BumpKeeps, ChangeKeeps, RegisterKeeps, WriteKeeps, ReturnKeeps
    DEF RoutineStep
  <2>2. CASE UNCHANGED lspVars
    <3>1. UNCHANGED <<initDone, lspDead, opened, versions, nextID, pending, asked, replies, seen, early,
                      twice, uiWaits, crashed, answer, lspClient, server, routine>>
      BY <2>2 DEF lspVars, clientVars, serverVars, wireVars, lspUIVars
    <3>2. RoutinesTyped' /\ ServersTyped' /\ DeadIsDown'
      BY <1>1, <3>1 DEF IInv, TypeInv, RoutinesTyped, ServersTyped, CallInv, DeadIsDown
    <3>3. \A q \in Routines : routine'[q] = routine[q]
      BY <3>1
    <3> QED BY <1>1, <3>1, <3>2, <3>3, SpawnKeeps
  <2>3. CASE LspNext
    BY <1>1, <2>1, <2>3, ReadKeeps, CloseKeeps, AnswersKeeps, AsksKeeps, DiesKeeps, AskKeeps,
       StopsKeeps, RestartKeeps, WatchedKeeps, UIWriteKeeps, DeliverKeeps DEF LspNext
  <2> QED BY <1>1, <2>2, <2>3
<1> QED BY <1>1, InitHolds, PTL DEF LspSpec
-----------------------------------------------------------------------------
\* For any documents, requests and servers, the client's tables keep their types.
THEOREM LspTypeCorrect == LspSpec => []LspTypeOK
<1>1. ASSUME IInv, DeafTyped PROVE LspTypeOK
  <2>1. ServersTyped /\ DocsTyped
    BY <1>1 DEF IInv, TypeInv
  <2>2. nextID \in [Gens -> Nat]
    BY <1>1 DEF IInv, TypeInv, MessagesTyped
  <2>3. \A g \in Gens : \A p \in pending[g] \cup asked[g] : p.id \in 1..nextID[g] /\ p.for \in Routines
    BY <1>1 DEF IInv, TypeInv, MessagesTyped, CallType, CallInv, IdsGiven
  <2>4. early \subseteq Gens /\ twice \subseteq Gens
    BY <1>1 DEF IInv, CallInv, Gated, DocInv
  <2> QED BY <1>1, <2>1, <2>2, <2>3, <2>4 DEF LspTypeOK, ServersTyped, DocsTyped, Answers, DeafTyped
<1> QED BY <1>1, InvariantHolds, DeafAreServers, PTL

\* However goroutines, timeouts, answers, deaths of servers and restarts
\* interleave, a call gets its own answer or an end, and a server has each document
\* opened once, after the handshake, and no two changes of it under one number
\* (in which order they are written is not said).
THEOREM LspIsSoundCorrect == LspSpec => []LspIsSound
<1>1. ASSUME IInv PROVE LspIsSound
  <2>1. AnswersReachTheirCall /\ NothingBeforeHandshake /\ VersionsAreUnique
    BY <1>1 DEF IInv, CallInv, DocInv, Gated, NothingBeforeHandshake, VersionsAreUnique
  <2>2. OpenedOnce
    BY <1>1 DEF IInv, DocInv, OpenedBefore, OpenedOnce
  <2>3. NobodyWaitsOnTheDead
    BY <1>1 DEF IInv, CallInv, Awaited, NobodyWaitsOnTheDead
  <2> QED BY <2>1, <2>2, <2>3 DEF LspIsSound
<1> QED BY <1>1, InvariantHolds, PTL
=============================================================================
