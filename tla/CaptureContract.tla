-------------------------- MODULE CaptureContract --------------------------
(***************************************************************************)
(* What a capture session promises its client: a frame is accepted only by *)
(* an open session and once; an accepted frame is returned at most once;   *)
(* the session closes when no accepted frame is left, and then stays       *)
(* silent.  A frame may be lost: after a device error, or when the result  *)
(* callback is blocked, its buffers are not returned.                      *)
(***************************************************************************)
EXTENDS Naturals

CONSTANT Frames

VARIABLES
    state,      \* state[f]: what the client knows of frame f
    returns,    \* returns[f]: how often the client was handed frame f
    open        \* the session takes requests

vars == <<state, returns, open>>

Init ==
    /\ state = [f \in Frames |-> "unused"]
    /\ returns = [f \in Frames |-> 0]
    /\ open = TRUE

Move(f, from, to) ==
    /\ open
    /\ state[f] = from
    /\ state' = [state EXCEPT ![f] = to]
    /\ UNCHANGED open

Accept(f) == Move(f, "unused", "accepted") /\ UNCHANGED returns
Lose(f)   == Move(f, "accepted", "lost") /\ UNCHANGED returns

(* Every callback is counted: a second one for a frame is no step of the   *)
(* contract, and neither is one after the session has closed.              *)
Return(f) ==
    /\ Move(f, "accepted", "returned")
    /\ returns' = [returns EXCEPT ![f] = @ + 1]

Close ==
    /\ open
    /\ \A f \in Frames : state[f] # "accepted"
    /\ open' = FALSE
    /\ UNCHANGED <<state, returns>>

Next == (\E f \in Frames : Accept(f) \/ Return(f) \/ Lose(f)) \/ Close

Spec == Init /\ [][Next]_vars
=============================================================================
