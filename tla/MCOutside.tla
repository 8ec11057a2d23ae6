----------------------------- MODULE MCOutside -----------------------------
(* Files, the repository, the language server and the debuggers.  A         *)
(* behaviour is of one part, its scene.                                     *)
(*                                                                          *)
(* apply: two files in the root and one outside, three contents, "pad" is   *)
(* "old" with whitespace around it; the series write a file twice, mix a    *)
(* good change with a stale or an outside one, and create a file.  replace: *)
(* two files with one base name, one that matches in two lines and twice in *)
(* one of them, and a file that cannot be scanned, a channel for one batch  *)
(* of one row, one scan and one edit.  reopen: the same files, two scans    *)
(* and no edit.  repository: two paths, two contents.  server: a lookup and *)
(* a rename of one document.  debugger: a program restarted over a running  *)
(* one.  engine: three commands.  breakpoints: two syncs of two lines.      *)
EXTENDS PatchApply, ProjectReplace, GitRepo, LspSession,
        DapSession, DbgpSession, DbgpBreakpoints

CONSTANTS
    a, b, out, empty, old, pad, new,   \* PatchApply
    c1, c2                             \* LspSession

VARIABLE scene

MCTrimmed == [c \in {empty, old, pad, new} |-> IF c = pad THEN old ELSE c]

PatchEdit(p, o, n) == [path |-> p, orig |-> o, new |-> n]

MCSeries == {<<>>,
             <<PatchEdit(a, old, new)>>,
             <<PatchEdit(a, old, new), PatchEdit(b, empty, old)>>,
             <<PatchEdit(a, empty, old), PatchEdit(a, empty, new), PatchEdit(b, pad, new)>>,
             <<PatchEdit(b, old, new), PatchEdit(out, old, new)>>}

MCFileAt == <<1, 1, 2, 3>>
MCHitsAt == <<1, 2, 1, 1>>

MCKinds == [c \in {c1, c2} |-> IF c = c1 THEN {"lookup"} ELSE {"rename"}]
-----------------------------------------------------------------------------
OutsideInit ==
    /\ scene \in {"apply", "replace", "reopen", "repository", "server", "debugger", "engine",
                 "breakpoints"}
    /\ Init /\ PrInit /\ GrInit /\ LspInit
    /\ DapInit /\ DbgpInit /\ DbgpBreakInit
    /\ scene # "apply" => series = <<>> /\ \A p \in Paths : disk[p] = Missing
    /\ scene # "repository" => grWork = [p \in GrPaths |-> CHOOSE t \in GrTexts : TRUE]

ApplyScene ==
    scene = "apply" /\ Next
    /\ UNCHANGED <<scene, prVars, grVars, lspVars, dapVars, dbgpVars, breakVars>>
ReplaceScene ==
    scene = "replace" /\ PrNext /\ Len(scans') <= 1 /\ prGen' <= 3
    /\ UNCHANGED <<scene, vars, grVars, lspVars, dapVars, dbgpVars, breakVars>>
ReopenScene ==
    scene = "reopen" /\ PrNext /\ prEdits' = 0 /\ (prTabs' = prTabs \/ prDisk' # prDisk)
    /\ UNCHANGED <<scene, vars, grVars, lspVars, dapVars, dbgpVars, breakVars>>
RepositoryScene ==
    scene = "repository" /\ GrNext
    /\ UNCHANGED <<scene, vars, prVars, lspVars, dapVars, dbgpVars, breakVars>>
ServerScene ==
    scene = "server" /\ LspNext
    /\ UNCHANGED <<scene, vars, prVars, grVars, dapVars, dbgpVars, breakVars>>
DebuggerScene ==
    scene = "debugger" /\ DapNext
    /\ UNCHANGED <<scene, vars, prVars, grVars, lspVars, dbgpVars, breakVars>>
EngineScene ==
    scene = "engine" /\ DbgpNext
    /\ UNCHANGED <<scene, vars, prVars, grVars, lspVars, dapVars, breakVars>>
BreakpointsScene ==
    scene = "breakpoints" /\ DbgpBreakNext
    /\ UNCHANGED <<scene, vars, prVars, grVars, lspVars, dapVars, dbgpVars>>

OutsideNext == ApplyScene \/ ReplaceScene \/ ReopenScene \/ RepositoryScene \/ ServerScene
               \/ DebuggerScene \/ EngineScene \/ BreakpointsScene

OutsideSpec ==
    OutsideInit
    /\ [][OutsideNext]_<<scene, vars, prVars, grVars, lspVars, dapVars, dbgpVars, breakVars>>

-----------------------------------------------------------------------------
\* Types of the part that moves; the others stay as they start.
OutsideTypeOK ==
    CASE scene = "apply"       -> TypeOK
      [] scene \in {"replace", "reopen"} -> PrTypeOK
      [] scene = "repository"  -> GrTypeOK
      [] scene = "server"      -> LspTypeOK
      [] scene = "debugger"    -> DapTypeOK
      [] scene = "engine"      -> DbgpTypeOK
      [] scene = "breakpoints" -> DbgpBreakTypeOK
=============================================================================
