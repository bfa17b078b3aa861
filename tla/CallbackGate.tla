---------------------------- MODULE CallbackGate ----------------------------
(***************************************************************************)
(* What an object of this library promises to the owner of the callbacks   *)
(* registered with it.  The object is driven from an event loop, closed    *)
(* from any thread, and freed when nobody can reach it any more:           *)
(*                                                                         *)
(*   - a callback begins only while the object has not been closed;        *)
(*   - a thread other than the one running a callback cannot close the     *)
(*     object under that callback, while the callback itself may;          *)
(*   - the object is freed after it was closed, with no callback running.  *)
(*                                                                         *)
(* Mqtt5ClientCore and StreamingOperation each implement this with a       *)
(* different mechanism (a recursive mutex and a flag, a reader/writer lock *)
(* and a flag).                                                            *)
(***************************************************************************)

VARIABLES
    gate,    \* "open", then "closed", then "freed"
    inside,  \* a user callback is running
    closer   \* who closed it: "nobody", "foreign", or the "callback" itself

gateVars == <<gate, inside, closer>>

GateTypeOK ==
    /\ gate \in {"open", "closed", "freed"}
    /\ inside \in BOOLEAN
    /\ closer \in {"nobody", "foreign", "callback"}

Init ==
    /\ gate = "open"
    /\ inside = FALSE
    /\ closer = "nobody"

Enter ==
    /\ gate = "open"
    /\ ~inside
    /\ inside' = TRUE
    /\ UNCHANGED <<gate, closer>>

Leave ==
    /\ inside
    /\ inside' = FALSE
    /\ UNCHANGED <<gate, closer>>

CloseFromOutside ==
    /\ gate = "open"
    /\ ~inside
    /\ gate' = "closed"
    /\ closer' = "foreign"
    /\ UNCHANGED inside

CloseFromCallback ==
    /\ gate = "open"
    /\ gate' = "closed"
    /\ closer' = "callback"
    /\ UNCHANGED inside

Free ==
    /\ gate = "closed"
    /\ ~inside
    /\ gate' = "freed"
    /\ UNCHANGED <<inside, closer>>

Next == Enter \/ Leave \/ CloseFromOutside \/ CloseFromCallback \/ Free

Spec == Init /\ [][Next]_gateVars

-----------------------------------------------------------------------------

\* A callback that runs inside a closed object closed it itself, and no
\* callback runs inside a freed one.
NoCallbackInClosedGate ==
    inside => gate = "open" \/ (gate = "closed" /\ closer = "callback")

=============================================================================
