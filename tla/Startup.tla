------------------------------ MODULE Startup ------------------------------
(***************************************************************************)
(* main from its arguments to the API server (src/main.cpp lines 57-83 and *)
(* 244-251, 333-336): the options decide whether a server is started, and  *)
(* on which port; then module RestApi takes over.  What is built between   *)
(* is in module Shutdown.                                                  *)
(***************************************************************************)
EXTENDS Configuration, RestApi

ASSUME ThereAreThreads == NumThreads \in Nat \ {0}

VARIABLE port   \* the port given to start, NoValue before

startupVars == <<configVars, apiVars, port>>

StartupInit == ConfigInit /\ ApiInit /\ port = NoValue

\* The API server is built and started if the configuration enables it.
StartApi ==
    /\ startup = "ready"
    /\ startup' = "started"
    /\ IF getOrDefault("enable_api")
       THEN port' = getOrDefault("api_port") /\ start
       ELSE UNCHANGED <<port, apiVars>>
    /\ UNCHANGED <<values, said, options>>

\* Nobody but main starts the server; the rest is module RestApi's.
Serve ==
    /\ startup = "started"
    /\ \/ stop \/ destroy \/ OwnerStep
       \/ owner # "terminated" /\ ServerStep
       \/ owner # "terminated" /\ \E t \in Threads : IoStep(t)
       \/ \E c \in Clients : Connect(c) \/ Break(c) \/ \E r \in Requests : Send(c, r)
    /\ UNCHANGED <<configVars, port>>

StartupNext ==
    \/ ParseArguments /\ UNCHANGED <<apiVars, port>>
    \/ StartApi
    \/ Serve

\* main's joins return when they can and the server's threads run; nothing makes
\* a client connect or send, or the server stop.
StartupSpec == StartupInit /\ [][StartupNext]_startupVars

StartupFairness ==
    /\ WF_startupVars(OwnerStep /\ UNCHANGED <<configVars, port>>)
    /\ WF_startupVars(owner # "terminated" /\ ServerStep /\ UNCHANGED <<configVars, port>>)
    /\ \A t \in Threads :
          WF_startupVars(owner # "terminated" /\ IoStep(t) /\ UNCHANGED <<configVars, port>>)

=============================================================================
