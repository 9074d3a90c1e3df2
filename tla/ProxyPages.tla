----------------------------- MODULE ProxyPages -----------------------------
(***************************************************************************)
(* What the Apple TV's scripts promise of the pages they load behind a     *)
(* spinner (atv.ProxyDocument).  A load that was asked for shows a         *)
(* spinner, which gives way to the page, to a message, or to the viewer,   *)
(* who dismisses it.  What is shown stays.  A page is shown only of a load *)
(* that is bound to it: its document has arrived, or the request for it    *)
(* cannot be given up.  A load that is dismissed is never bound after      *)
(* that, so it shows a page only if it was too late to stop it; the        *)
(* request that is given up may still be answered with a message.  The     *)
(* script's own page is unloaded only in the step that shows what takes    *)
(* its place, and then the script is gone.                                 *)
(***************************************************************************)
CONSTANTS Loads

VARIABLES
    view,   \* what the viewer sees of each load
    bound,  \* the loads whose page nothing can stop
    alive   \* the script's own page is loaded

vars == <<view, bound, alive>>

TypeOK ==
    /\ view \in [Loads -> {"absent", "spinner", "page", "message", "dismissed"}]
    /\ bound \subseteq Loads
    /\ alive \in BOOLEAN

Init ==
    /\ view = [l \in Loads |-> "absent"]
    /\ bound = {}
    /\ alive = TRUE

Ask(l) ==
    /\ alive /\ view[l] = "absent"
    /\ view' = [view EXCEPT ![l] = "spinner"]
    /\ bound' \in {bound, bound \union {l}}
    /\ UNCHANGED alive

\* The document of a load arrives while its spinner is there.
Arrive(l) ==
    /\ alive /\ view[l] = "spinner"
    /\ bound' = bound \union {l}
    /\ UNCHANGED <<view, alive>>

\* It is not shown after all.
Drop(l) ==
    /\ alive
    /\ bound' = bound \ {l}
    /\ UNCHANGED <<view, alive>>

Show(l) ==
    /\ alive /\ l \in bound
    /\ view[l] \in {"spinner", "dismissed"}
    /\ view' = [view EXCEPT ![l] = "page"]
    /\ bound' \in {bound, bound \ {l}}
    /\ alive' \in {TRUE, FALSE}

Tell(l) ==
    /\ alive
    /\ view[l] \in {"spinner", "dismissed"}
    /\ view' = [view EXCEPT ![l] = "message"]
    /\ alive' \in {TRUE, FALSE}
    /\ UNCHANGED bound

Dismiss(l) ==
    /\ alive /\ view[l] = "spinner"
    /\ view' = [view EXCEPT ![l] = "dismissed"]
    /\ UNCHANGED <<bound, alive>>

Next ==
    \E l \in Loads :
        Ask(l) \/ Arrive(l) \/ Drop(l) \/ Show(l) \/ Tell(l) \/ Dismiss(l)

Spec == Init /\ [][Next]_vars
=============================================================================
