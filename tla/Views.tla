------------------------------- MODULE Views -------------------------------
(***************************************************************************)
(* What the event stream of velbusweb promises its pages, without its      *)
(* connections and queues: a page shows the state the server had at some   *)
(* moment, never a mixture of two, and never goes back to an older one.    *)
(***************************************************************************)
EXTENDS Integers, Sequences

CONSTANTS
    Viewer,
    State

VARIABLES
    states,     \* every state of the server, in order
    seen,       \* seen[v]: which of them v shows; 0 before the first
    shown       \* shown[v]: what v shows

viewVars == <<states, seen, shown>>

Init ==
    /\ \E s \in State : states = <<s>>
    /\ seen = [v \in Viewer |-> 0]
    /\ shown \in [Viewer -> State]

Change ==
    /\ \E s \in State : states' = Append(states, s)
    /\ UNCHANGED <<seen, shown>>

Look(v) ==
    /\ \E n \in seen[v] .. Len(states) :
          /\ n > 0
          /\ seen' = [seen EXCEPT ![v] = n]
          /\ shown' = [shown EXCEPT ![v] = states[n]]
    /\ UNCHANGED states

Next == Change \/ \E v \in Viewer : Look(v)

Spec == Init /\ [][Next]_viewVars
=============================================================================
