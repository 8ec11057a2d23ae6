------------------------------ MODULE Removal -------------------------------
(***************************************************************************)
(* What the code's loops that filter a slice leave of it.                  *)
(***************************************************************************)
EXTENDS Naturals, Sequences

\* What is left of a sequence without the elements of a set, in its order.
Without(s, gone) ==
    LET kept[n \in 0..Len(s)] ==
            IF n = 0 THEN <<>>
            ELSE IF s[n] \in gone THEN kept[n - 1] ELSE Append(kept[n - 1], s[n])
    IN  kept[Len(s)]
=============================================================================
