----------------------------- MODULE MCChatLoop -----------------------------
(* Batches of tool calls small enough to enumerate: each kind alone, two     *)
(* parked calls, two proposals, and, for the runs that ask about them, a     *)
(* parked call next to a proposal or to a delegation.                        *)
EXTENDS ChatLoop

Call(n) == [name |-> n, path |-> "-"]
Edit(p) == [name |-> "EDIT", path |-> p]

Decisions   == { <<Call("READ")>>, <<Call("RUN"), Call("ASK_USER")>>,
                 <<Call("SWITCH_MODE")>>, <<Edit("a"), Edit("b")>> }
Delegating  == { <<Call("RUN"), Call("ASK_USER")>>,
                 <<Call("ASK_USER"), Call("SUB_AGENT")>>, <<Edit("a"), Edit("b")>> }
ReadOnly    == { <<Call("READ")>> }
Mixed       == { <<Call("RUN"), Edit("a")>> }
OneDelegation == { <<Call("SUB_AGENT")>> }
=============================================================================
