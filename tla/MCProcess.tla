----------------------------- MODULE MCProcess -----------------------------
(* Instances for TLC of main from its arguments to the API server (module    *)
(* MCStartup), and of its threads and locals from then to its exit (module   *)
(* Shutdown).  Each behaviour is about one of them.                          *)
EXTENDS MCStartup, Shutdown

VARIABLE subject   \* what the behaviour is about

processVars == <<subject, startupVars, vars>>

ProcessInit == subject \in {"startup", "shutdown"} /\ StartupInit /\ Init

ProcessNext ==
    /\ UNCHANGED subject
    /\ \/ subject = "startup" /\ StartupNext /\ UNCHANGED vars
       \/ subject = "shutdown" /\ Next /\ UNCHANGED startupVars

\* The fairness of both: a server that has not been started has no fair step to
\* take, nor have the workers and the capture thread before main's first step.
ProcessSpec ==
    /\ ProcessInit /\ [][ProcessNext]_processVars
    /\ StartupFairness
    /\ WF_vars(subject = "shutdown" /\ MainStep)
    /\ WF_vars(CaptureEnds)
    /\ \A w \in Workers : WF_vars(WorkerStep(w))
=============================================================================
