---------------------------- MODULE TaskService ----------------------------
(***************************************************************************)
(* What a task pool promises its clients, without threads, queue or        *)
(* wakeups: while open it accepts tasks, it completes each accepted task   *)
(* at most once, and it terminates only when it has completed them all.    *)
(***************************************************************************)
CONSTANT Tasks

VARIABLES
    acceptedSet,   \* the tasks taken on
    completed,     \* the tasks run to the end
    phase          \* "open", "closed" or "terminated"

serviceVars == <<acceptedSet, completed, phase>>

Init ==
    /\ acceptedSet = {}
    /\ completed = {}
    /\ phase = "open"

Accept(t) ==
    /\ phase = "open"
    /\ t \notin acceptedSet
    /\ acceptedSet' = acceptedSet \cup {t}
    /\ UNCHANGED <<completed, phase>>

Complete(t) ==
    /\ phase # "terminated"
    /\ t \in acceptedSet \ completed
    /\ completed' = completed \cup {t}
    /\ UNCHANGED <<acceptedSet, phase>>

Close ==
    /\ phase = "open"
    /\ phase' = "closed"
    /\ UNCHANGED <<acceptedSet, completed>>

Terminate ==
    /\ phase = "closed"
    /\ acceptedSet = completed
    /\ phase' = "terminated"
    /\ UNCHANGED <<acceptedSet, completed>>

Next ==
    \/ \E t \in Tasks : Accept(t) \/ Complete(t)
    \/ Close
    \/ Terminate

Spec == Init /\ [][Next]_serviceVars

=============================================================================
