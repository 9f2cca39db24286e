----------------------------- MODULE FrameCycle -----------------------------
(***************************************************************************)
(* What a datapath over a shared umem promises: every frame has exactly    *)
(* one owner at any time, and ownership only ever moves along the given    *)
(* stages.  No frame is lost, none is in two places, and none skips a      *)
(* stage (a frame is not given back for reception while it may still be    *)
(* transmitted from).                                                      *)
(***************************************************************************)
CONSTANTS
    Frames,   \* the frames of the umem
    Stages,   \* the owners
    Moves,    \* <<a, b>>: frames may be handed from a to b
    Start     \* every frame starts here

VARIABLE owner

Init == owner = [f \in Frames |-> Start]

\* A batch of frames is handed from one owner to the next.
HandOver(S, a, b) ==
    /\ \A f \in S : owner[f] = a
    /\ owner' = [f \in Frames |-> IF f \in S THEN b ELSE owner[f]]

Next == \E S \in SUBSET Frames, m \in Moves : HandOver(S, m[1], m[2])

Spec == Init /\ [][Next]_owner
=============================================================================
