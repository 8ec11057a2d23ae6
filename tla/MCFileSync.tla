----------------------------- MODULE MCFileSync -----------------------------
(* Two files and a channel for one message, so that it can be full.  In the *)
(* passing run no two files have the same base name.                        *)
EXTENDS FileSync

CONSTANTS f1, f2

MCFiles     == {f1, f2}
NoNamesakes == {}
=============================================================================
