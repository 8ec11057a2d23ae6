----------------------------- MODULE MCQuitting -----------------------------
(* Three tabs: the one on screen, the one a question was about, and another. *)
EXTENDS Quitting
=============================================================================
