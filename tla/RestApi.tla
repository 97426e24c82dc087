------------------------------ MODULE RestApi ------------------------------
(***************************************************************************)
(* api::RestApi (src/api/rest_api.cpp): main's start, stop and destructor, *)
(* the server thread that binds the port and starts the threads of the     *)
(* io_context, and these threads, which accept connections, read one       *)
(* request from each, answer it and close.                                 *)
(*                                                                         *)
(* Of Boost.Asio: handlers of one connection run one after the other, on   *)
(* any of the threads; once the io_context is stopped a thread finishes    *)
(* the handler it runs and leaves.                                         *)
(***************************************************************************)
EXTENDS Naturals

CONSTANTS
    NumThreads,      \* threads of the io_context
    Clients,         \* the connections
    Requests,        \* what clients may ask: [method, path]
    None             \* no request, no answer

ASSUME ClientsAreNoSteps == Clients \cap {"none", "run", "ended"} = {}
ASSUME NoneIsNoRequest == None \notin Requests

VARIABLES
    running_,     \* RestApi::running_
    serving,      \* ServerImpl::running_
    server,       \* server_thread_: "none", "bind", "spawn", "ended" or "joined"
    threads,      \* the threads in threads_, each the number of its start
    spawned,      \* run's i: how many were started
    io,           \* where each of them is: "none", "run", "ended", or the client
                  \* whose request it handles
    stopped,      \* the io_context is stopped
    accepting,    \* an accept is pending
    owner,        \* main: "free", "joining" the threads, "waiting" for the server
                  \* thread, "gone" or "terminated"
    joins,        \* the threads that stop's loop runs over
    complete,     \* history: the server thread had started them all before stop
    analyzer,     \* whether there is a packet analyzer
    client,       \* each connection: "away", "connecting", "reading", "handled",
                  \* "writing", "answered" or "lost"
    ask,          \* its request
    reply         \* the answer's status

ownVars == <<running_, owner, joins, complete>>
serverVars == <<ownVars, serving, server, threads, spawned, io, stopped>>
clientVars == <<accepting, client, ask, reply>>
apiVars == <<serverVars, clientVars, analyzer>>

Threads == 1 .. NumThreads

ApiInit ==
    /\ running_ = FALSE /\ serving = FALSE /\ stopped = FALSE /\ accepting = FALSE
    /\ server = "none"
    /\ threads = {} /\ spawned = 0 /\ joins = {}
    /\ io = [t \in Threads |-> "none"]
    /\ owner = "free"
    /\ complete = FALSE
    /\ analyzer \in BOOLEAN
    /\ client = [c \in Clients |-> "away"]
    /\ ask = [c \in Clients |-> None]
    /\ reply = [c \in Clients |-> None]

-----------------------------------------------------------------------------
(* main and the server thread *)

\* start; main starts a server once.
start ==
    /\ owner = "free" /\ ~running_ /\ server = "none"
    /\ running_' = TRUE
    /\ server' = "bind"
    /\ UNCHANGED <<serving, threads, spawned, io, stopped, owner, joins, complete,
                   clientVars, analyzer>>

\* ServerImpl::run up to its running_: the port is taken, or the first accept is
\* pending and the server is said to run before it has a thread.
Bind ==
    /\ server = "bind"
    /\ \/ server' = "ended" /\ serving' = FALSE /\ UNCHANGED accepting
       \/ server' = "spawn" /\ serving' = TRUE /\ accepting' = TRUE
    /\ UNCHANGED <<ownVars, threads, spawned, io, stopped, client, ask, reply, analyzer>>

Spawn ==
    /\ server = "spawn"
    /\ spawned' = spawned + 1
    /\ threads' = threads \cup {spawned'}
    /\ io' = [io EXCEPT ![spawned'] = "run"]
    /\ server' = IF spawned' = NumThreads THEN "ended" ELSE "spawn"
    /\ UNCHANGED <<ownVars, serving, stopped, clientVars, analyzer>>

\* No thread can be started: the server is said not to run, though the threads that
\* were started do.
SpawnFails ==
    /\ server = "spawn"
    /\ serving' = FALSE
    /\ server' = "ended"
    /\ UNCHANGED <<ownVars, threads, spawned, io, stopped, clientVars, analyzer>>

\* Mutant of stop: the io_context is not stopped.
StopAskingNobody ==
    /\ owner = "free" /\ running_
    /\ complete' = (serving /\ server = "ended")
    /\ owner' = IF serving THEN "joining" ELSE "waiting"
    /\ joins' = threads
    /\ UNCHANGED <<running_, serving, server, threads, spawned, io, stopped, clientVars,
                   analyzer>>

\* stop, up to its first join.  A server that does not run, or not yet, is not stopped.
stop ==
    /\ owner = "free" /\ running_
    /\ complete' = (serving /\ server = "ended")
    /\ IF serving
       THEN stopped' = TRUE /\ joins' = threads /\ owner' = "joining"
       ELSE owner' = "waiting" /\ UNCHANGED <<stopped, joins>>
    /\ UNCHANGED <<running_, serving, server, threads, spawned, io, clientVars, analyzer>>

\* Mutant of JoinThreads: the threads are let go instead.
DetachThreads ==
    /\ owner = "joining"
    /\ threads' = {} /\ serving' = FALSE /\ owner' = "waiting"
    /\ UNCHANGED <<running_, server, spawned, io, stopped, joins, complete, clientVars, analyzer>>

\* The rest of ServerImpl::stop.  Destroying a thread that was not joined, one
\* started since the loop began, ends the program.
JoinThreads ==
    /\ owner = "joining"
    /\ \A t \in joins : io[t] = "ended"
    /\ IF threads # joins
       THEN owner' = "terminated" /\ UNCHANGED <<threads, serving>>
       ELSE threads' = {} /\ serving' = FALSE /\ owner' = "waiting"
    /\ UNCHANGED <<running_, server, spawned, io, stopped, joins, complete, clientVars, analyzer>>

\* The rest of stop.
JoinServer ==
    /\ owner = "waiting"
    /\ server = "ended"
    /\ server' = "joined" /\ running_' = FALSE /\ owner' = "free"
    /\ UNCHANGED <<serving, threads, spawned, io, stopped, joins, complete, clientVars, analyzer>>

\* Mutant of destroy: the threads that are left are let go.
DestroyDetaching ==
    /\ owner = "free" /\ ~running_ /\ server = "joined"
    /\ owner' = "gone" /\ accepting' = FALSE
    /\ UNCHANGED <<running_, serving, server, threads, spawned, io, stopped, joins, complete,
                   client, ask, reply, analyzer>>

\* The destructor, whose stop is the one above if the server runs: main goes on
\* to destroy what the handlers read.  A thread that nobody joined ends the program.
destroy ==
    /\ owner = "free" /\ ~running_ /\ server = "joined"
    /\ owner' = IF threads # {} THEN "terminated" ELSE "gone"
    /\ accepting' = FALSE
    /\ UNCHANGED <<running_, serving, server, threads, spawned, io, stopped, joins, complete,
                   client, ask, reply, analyzer>>

-----------------------------------------------------------------------------
(* What a request is answered *)

Metrics == "/api/v1/metrics"
OneMetric == "/api/v1/metrics/{name}"
CpuUsage == "/api/v1/metrics/cpu.usage"     \* and so for any other metric
Stats == "/api/v1/network/stats"
Connections == "/api/v1/network/connections"
Hosts == "/api/v1/network/hosts"
Info == "/api/v1/system/info"

\* setupRoutes.  Paths are compared as they are: the route of one metric is found
\* under its pattern, and under no metric's name.
Routes == {"GET"} \X {Metrics, OneMetric, Stats, Connections, Hosts, Info}

handleGetMetrics == 200
\* No collector has a metric of the pattern's name.
handleGetMetric == 404
handleGetNetworkStats == IF analyzer THEN 200 ELSE 503
handleGetConnections == IF analyzer THEN 200 ELSE 503
handleGetTopHosts == IF analyzer THEN 200 ELSE 503
handleGetSystemInfo == 200

Handler(path) ==
    CASE path = Metrics -> handleGetMetrics
      [] path = OneMetric -> handleGetMetric
      [] path = Stats -> handleGetNetworkStats
      [] path = Connections -> handleGetConnections
      [] path = Hosts -> handleGetTopHosts
      [] path = Info -> handleGetSystemInfo

processRequest(r) ==
    CASE r.method \notin {"GET", "POST", "PUT", "DELETE", "OPTIONS"} -> 405
      [] <<r.method, r.path>> \in Routes -> Handler(r.path)
      [] OTHER -> 404

-----------------------------------------------------------------------------
(* The threads of the io_context *)

Free(t) == io[t] = "run" /\ ~stopped

Become(c, what) == client' = [client EXCEPT ![c] = what]

\* Mutant of onAccept: the next accept is not asked for.
OnAcceptOnce(t, c) ==
    /\ Free(t) /\ accepting /\ client[c] = "connecting"
    /\ Become(c, "reading") /\ accepting' = FALSE
    /\ UNCHANGED <<serverVars, ask, reply, analyzer>>

\* onAccept: a session that begins to read, and the next accept.
onAccept(t, c) ==
    /\ Free(t) /\ accepting /\ client[c] = "connecting"
    /\ Become(c, "reading")
    /\ UNCHANGED <<serverVars, accepting, ask, reply, analyzer>>

\* The request is there: processRequest begins.
ReadRequest(t, c) ==
    /\ Free(t) /\ client[c] = "reading" /\ ask[c] # None
    /\ io' = [io EXCEPT ![t] = c]
    /\ Become(c, "handled")
    /\ UNCHANGED <<ownVars, serving, server, threads, spawned, stopped, accepting, ask, reply,
                   analyzer>>

\* The answer is made, and written at once or as the client takes it.
Respond(t, c) ==
    /\ io[t] = c
    /\ io' = [io EXCEPT ![t] = "run"]
    /\ reply' = [reply EXCEPT ![c] = processRequest(ask[c])]
    /\ Become(c, "answered") \/ Become(c, "writing")
    /\ UNCHANGED <<ownVars, serving, server, threads, spawned, stopped, accepting, ask,
                   analyzer>>

Written(t, c) ==
    /\ Free(t) /\ client[c] = "writing"
    /\ Become(c, "answered")
    /\ UNCHANGED <<serverVars, accepting, ask, reply, analyzer>>

\* run returns.
Leave(t) ==
    /\ io[t] = "run" /\ stopped
    /\ io' = [io EXCEPT ![t] = "ended"]
    /\ UNCHANGED <<ownVars, serving, server, threads, spawned, stopped, clientVars, analyzer>>

IoStep(t) ==
    \/ \E c \in Clients :
          onAccept(t, c) \/ ReadRequest(t, c) \/ Respond(t, c) \/ Written(t, c)
    \/ Leave(t)

-----------------------------------------------------------------------------
(* The clients *)

Connect(c) ==
    /\ client[c] = "away" /\ accepting
    /\ Become(c, "connecting")
    /\ UNCHANGED <<serverVars, accepting, ask, reply, analyzer>>

\* A client that is connected may send its request, and may never do so.
Send(c, r) ==
    /\ client[c] \in {"connecting", "reading"} /\ ask[c] = None
    /\ ask' = [ask EXCEPT ![c] = r]
    /\ UNCHANGED <<serverVars, accepting, client, reply, analyzer>>

\* The connection breaks: the session ends, without an answer if it was not sent.
Break(c) ==
    /\ client[c] \in {"connecting", "reading", "writing"}
    /\ Become(c, "lost")
    /\ UNCHANGED <<serverVars, accepting, ask, reply, analyzer>>

OwnerStep == JoinThreads \/ JoinServer
ServerStep == Bind \/ Spawn \/ SpawnFails

-----------------------------------------------------------------------------
(* Properties *)

\* Once stop has returned no thread of the server is left, if the server thread had
\* started them all when stop was called (rest_api.cpp 224-302).
StopLeavesNothing ==
    complete /\ server = "joined" =>
        /\ owner # "terminated"
        /\ threads = {}
        /\ \A t \in Threads : io[t] \in {"none", "ended"}

\* When main goes on to destroy the collectors and the analyzer, no thread is left
\* that a handler could read them on, also if stop came while the server thread was
\* still starting, or if a thread could not be started: the program ends before
\* (rest_api.cpp 224-302, main.cpp 131-251).
HandlersAreGone == owner = "gone" => \A t \in Threads : io[t] \in {"none", "ended"}

\* No thread was started for the io_context.
NobodyServes == server \in {"ended", "joined"} /\ threads = {}

\* A client that has sent its request is answered or its connection breaks, unless
\* the server is stopped or has no thread (rest_api.cpp 47-56 and 195-214).
EveryClientIsServed ==
    \A c \in Clients :
        client[c] \in {"connecting", "reading"} /\ ask[c] # None
        ~> client[c] \in {"answered", "lost"} \/ stopped \/ NobodyServes
           \/ owner = "terminated"

\* stop returns or ends the program, however busy the server is (rest_api.cpp 247-302).
StopReturns == owner \in {"joining", "waiting"} ~> owner \in {"free", "terminated"}

-----------------------------------------------------------------------------
(* What the code does not keep *)

\* The paths that docs/API.md documents, a metric's among them, are found: line 87,
\* "GET /api/v1/metrics/{name}", "name: The name of the metric (e.g., cpu.usage)".
DocumentedPathsAnswer ==
    \A c \in Clients :
        /\ client[c] = "answered"
        /\ ask[c].method = "GET"
        /\ ask[c].path \in {Metrics, CpuUsage, Stats, Connections, Hosts, Info}
        => reply[c] # 404

=============================================================================
