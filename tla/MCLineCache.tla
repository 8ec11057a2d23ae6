----------------------------- MODULE MCLineCache -----------------------------
(* The window of the code, incWindow = 3, and just enough lines for it.     *)
EXTENDS LineCache
=============================================================================
