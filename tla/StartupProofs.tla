---------------------------- MODULE StartupProofs ----------------------------
(***************************************************************************)
(* Proofs about Startup, and with it about Configuration and RestApi, for  *)
(* any keys, options, files, clients, requests and number of threads.      *)
(*                                                                         *)
(* What main reads follows from one fact about every key (WordIsStored).   *)
(* That no handler outlives the server follows from one about its threads: *)
(* each that runs is in threads_ (ThreadsAreKept), which stop clears only  *)
(* of threads it has joined and which must be empty when it is destroyed.  *)
(* What a stop leaves that was called when all of them ran follows from    *)
(* what it finds at each of its steps (CalmStop).                          *)
(***************************************************************************)
EXTENDS Startup, DataLemmas

-----------------------------------------------------------------------------
(* The inductive invariant *)

\* Both maps are maps on the keys.
MapsOnKeys == DOMAIN values = Keys /\ DOMAIN said = Keys

\* A key whose last word main can read holds it, with the type main reads.
WordIsStored ==
    \A k \in Keys :
        /\ said[k] # NoValue
        /\ said[k].fits
        /\ k \in Flags \cup Strings \/ said[k].by = "option"
        => values[k] = Typed(TypeRead(k), said[k].value) /\ values[k] # NoValue

\* The shape of the server's members (rest_api.hpp and rest_api.cpp).
Positions == {"away", "connecting", "reading", "handled", "writing", "answered", "lost"}
Statuses == {200, 404, 405, 503}
ApiTypeOK ==
    /\ running_ \in BOOLEAN /\ serving \in BOOLEAN /\ stopped \in BOOLEAN
    /\ accepting \in BOOLEAN /\ complete \in BOOLEAN /\ analyzer \in BOOLEAN
    /\ server \in {"none", "bind", "spawn", "ended", "joined"}
    /\ spawned \in 0 .. NumThreads
    /\ threads \subseteq Threads
    /\ joins \subseteq Threads
    /\ io \in [Threads -> {"none", "run", "ended"} \cup Clients]
    /\ owner \in {"free", "joining", "waiting", "gone", "terminated"}
    /\ client \in [Clients -> Positions]
    /\ ask \in [Clients -> Requests \cup {None}]
    /\ reply \in [Clients -> Statuses \cup {None}]

\* The server thread starts the threads in their order, as many as there are to be,
\* and none once the server is gone.
ServerThread ==
    /\ server \in {"none", "bind"} => spawned = 0
    /\ server = "spawn" => spawned < NumThreads
    /\ owner = "gone" => server = "joined" /\ threads = {}

\* A thread that runs is in threads_.
ThreadsAreKept == \A t \in Threads : io[t] \notin {"none", "ended"} => t \in threads

\* A stop that was called when the server thread had started them all.
CalmStop ==
    complete =>
        /\ owner # "terminated"
        /\ server \in {"ended", "joined"}
        /\ owner = "joining" => joins = threads
        /\ owner = "waiting" \/ server = "joined" => threads = {}

ConfigIInv == MapsOnKeys /\ WordIsStored
Kept == ServerThread /\ ThreadsAreKept /\ CalmStop
ApiIInv == ApiTypeOK /\ Kept
IInv == ConfigIInv /\ ApiIInv

-----------------------------------------------------------------------------
(* The configuration *)

\* The last line that sets a key is a line that sets it (parseYaml stores the
\* lines of a file in their order).
LEMMA LastLineSets ==
    ASSUME NEW f \in Files, NEW k \in Keys, LastLine(f, k) # 0
    PROVE  LastLine(f, k) \in DOMAIN f /\ f[LastLine(f, k)].key = k
<1> DEFINE of == {i \in DOMAIN f : Sets(f[i], k)}
<1>1. of # {} /\ LastLine(f, k) = CHOOSE i \in of : \A j \in of : j <= i
  BY DEF LastLine
<1>2. DOMAIN f = 1 .. Len(f) /\ Len(f) \in Nat
  BY FilesAreSequences, LenProperties
<1>3. \E i \in of : \A j \in of : j <= i
  <2>1. of \in SUBSET Nat /\ \A i \in of : i <= Len(f)
    BY <1>2
  <2> HIDE DEF of
  <2>2. QED
    BY <1>1, <1>2, <2>1, GreatestElement
<1>4. QED
  BY <1>1, <1>3 DEF Sets

\* What looks like what main reads a flag or a string as is stored with that type.
LEMMA FittingType ==
    ASSUME NEW line, line.key \in Flags \cup Strings, Fits(line)
    PROVE  line.looks = TypeRead(line.key)
BY KeysHaveOneType DEF Fits, TypeRead

LEMMA ConfigInitIInv == ConfigInit => ConfigIInv
BY DEF ConfigInit, Defaults, ConfigIInv, MapsOnKeys, WordIsStored

LEMMA LoadFileIInv ==
    ASSUME ConfigIInv, NEW f \in Files, LoadFile(f)
    PROVE  ConfigIInv'
<1> DEFINE line(k) == f[LastLine(f, k)]
<1>1. /\ values' = [k \in Keys |-> IF LastLine(f, k) # 0
                                    THEN Typed(line(k).looks, line(k).value) ELSE values[k]]
      /\ said' = [k \in Keys |-> IF LastLine(f, k) # 0
                                  THEN Word("file", Fits(line(k)), line(k).value) ELSE said[k]]
  BY DEF LoadFile, Overrides, parsedType
<1>2. MapsOnKeys'
  BY <1>1 DEF MapsOnKeys
<1>3. ASSUME NEW k \in Keys, said'[k] # NoValue, said'[k].fits,
             k \in Flags \cup Strings \/ said'[k].by = "option"
      PROVE  values'[k] = Typed(TypeRead(k), said'[k].value) /\ values'[k] # NoValue
  <2>1. CASE LastLine(f, k) # 0
    <3>1. LastLine(f, k) \in DOMAIN f /\ line(k).key = k
      BY <2>1, LastLineSets
    <3>2. /\ said'[k] = Word("file", Fits(line(k)), line(k).value)
          /\ values'[k] = Typed(line(k).looks, line(k).value)
      BY <1>1, <2>1
    <3>3. /\ said'[k].fits = Fits(line(k)) /\ said'[k].by = "file"
          /\ said'[k].value = line(k).value
      BY <3>2 DEF Word
    <3>4. line(k).looks = TypeRead(k)
      BY <1>3, <3>1, <3>3, FittingType
    <3>5. values'[k] # NoValue
      BY <3>1, <3>2, NoValueIsNoValue
    <3>6. QED
      BY <3>2, <3>3, <3>4, <3>5
  <2>2. CASE LastLine(f, k) = 0
    <3>1. said'[k] = said[k] /\ values'[k] = values[k]
      BY <1>1, <2>2
    <3>2. QED
      BY <1>3, <3>1 DEF ConfigIInv, WordIsStored
  <2>3. QED
    BY <2>1, <2>2
<1>4. QED
  BY <1>2, <1>3 DEF ConfigIInv, WordIsStored

LEMMA SetOptionIInv ==
    ASSUME ConfigIInv, NEW o \in Options, SetOption(o)
    PROVE  ConfigIInv'
<1> DEFINE fits(k) == k \in Ports => o[k] \in 0 .. PortModulus - 1
<1>1. /\ values' = [k \in Keys |-> IF k \in DOMAIN o THEN Stored(k, o[k]) ELSE values[k]]
      /\ said' = [k \in Keys |->
                     IF k \in DOMAIN o THEN Word("option", fits(k), o[k]) ELSE said[k]]
  BY DEF SetOption
<1>2. MapsOnKeys'
  BY <1>1 DEF MapsOnKeys
<1>3. ASSUME NEW k \in Keys, said'[k] # NoValue, said'[k].fits,
             k \in Flags \cup Strings \/ said'[k].by = "option"
      PROVE  values'[k] = Typed(TypeRead(k), said'[k].value) /\ values'[k] # NoValue
  <2>1. CASE k \in DOMAIN o
    <3>1. said'[k] = Word("option", fits(k), o[k]) /\ values'[k] = Stored(k, o[k])
      BY <1>1, <2>1
    <3>2. said'[k].value = o[k] /\ said'[k].fits = fits(k)
      BY <3>1 DEF Word
    <3>3. k \in Ports => o[k] \in 0 .. PortModulus - 1
      BY <1>3, <3>2
    <3>4. k \in Ports => o[k] % PortModulus = o[k]
      BY <3>3, PortsAreNumbers
    <3>5. Stored(k, o[k]) = Typed(TypeRead(k), o[k])
      BY <3>4 DEF Stored
    <3>6. QED
      BY <2>1, <3>1, <3>2, <3>5, NoValueIsNoValue
  <2>2. CASE k \notin DOMAIN o
    <3>1. said'[k] = said[k] /\ values'[k] = values[k]
      BY <1>1, <2>2
    <3>2. QED
      BY <1>3, <3>1 DEF ConfigIInv, WordIsStored
  <2>3. QED
    BY <2>1, <2>2
<1>4. QED
  BY <1>2, <1>3 DEF ConfigIInv, WordIsStored

\* Nothing but the options touches the configuration.
LEMMA ConfigStays ==
    ASSUME ConfigIInv, UNCHANGED <<values, said>>
    PROVE  ConfigIInv'
BY DEF ConfigIInv, MapsOnKeys, WordIsStored

LEMMA ParseArgumentsIInv ==
    ASSUME ConfigIInv, ParseArguments
    PROVE  ConfigIInv'
<1>1. CASE \E f \in Files : LoadFile(f)
  BY <1>1, LoadFileIInv
<1>2. CASE \E o \in Options : SetOption(o)
  BY <1>2, SetOptionIInv
<1>3. CASE Exit \/ OptionsEnd
  BY <1>3, ConfigStays DEF Exit, OptionsEnd
<1>4. QED
  BY <1>1, <1>2, <1>3 DEF ParseArguments

-----------------------------------------------------------------------------
(* main and the server thread: one lemma per step *)

LEMMA ApiInitIInv == ApiInit => ApiIInv
<1> SUFFICES ASSUME ApiInit PROVE ApiIInv
  OBVIOUS
<1> USE DEF ApiInit
<1>1. ApiTypeOK
  <2>1. io \in [Threads -> {"none", "run", "ended"} \cup Clients]
    OBVIOUS
  <2>2. client \in [Clients -> Positions]
    BY DEF Positions
  <2>3. ask \in [Clients -> Requests \cup {None}] /\ reply \in [Clients -> Statuses \cup {None}]
    OBVIOUS
  <2>4. spawned \in 0 .. NumThreads
    BY ThereAreThreads
  <2>5. QED
    BY <2>1, <2>2, <2>3, <2>4 DEF ApiTypeOK
<1>2. Kept
  BY DEF Kept, ServerThread, ThreadsAreKept, CalmStop
<1>3. QED
  BY <1>1, <1>2 DEF ApiIInv

LEMMA StartIInv ==
    ASSUME ApiIInv, start
    PROVE  ApiIInv'
<1> USE DEF start
<1>1. ApiTypeOK'
  BY DEF ApiIInv, ApiTypeOK, clientVars
<1>2. Kept'
  BY DEF ApiIInv, Kept, ServerThread, ThreadsAreKept, CalmStop
<1>3. QED
  BY <1>1, <1>2 DEF ApiIInv

\* The port is taken, or there is the first thread to start.
LEMMA BindIInv ==
    ASSUME ApiIInv, Bind
    PROVE  ApiIInv'
<1> USE DEF Bind, ownVars
<1>1. ApiTypeOK'
  BY DEF ApiIInv, ApiTypeOK
<1>2. Kept'
  BY ThereAreThreads DEF ApiIInv, Kept, ServerThread, ThreadsAreKept, CalmStop
<1>3. QED
  BY <1>1, <1>2 DEF ApiIInv

\* The thread that is started is kept.
LEMMA SpawnIInv ==
    ASSUME ApiIInv, Spawn
    PROVE  ApiIInv'
<1> USE DEF Spawn, ownVars
<1>1. spawned < NumThreads /\ spawned \in 0 .. NumThreads /\ NumThreads \in Nat
  BY ThereAreThreads DEF ApiIInv, Kept, ServerThread, ApiTypeOK
<1>2. spawned' \in Threads /\ spawned' \in 0 .. NumThreads
  BY <1>1 DEF Threads
<1>3. ApiTypeOK'
  <2>1. io' \in [Threads -> {"none", "run", "ended"} \cup Clients]
    BY <1>2 DEF ApiIInv, ApiTypeOK
  <2>2. threads' \subseteq Threads
    BY <1>2 DEF ApiIInv, ApiTypeOK
  <2>3. QED
    BY <1>2, <2>1, <2>2 DEF ApiIInv, ApiTypeOK, clientVars
<1>4. ServerThread' /\ CalmStop'
  BY <1>1 DEF ApiIInv, Kept, ServerThread, CalmStop
<1>5. ThreadsAreKept'
  BY <1>2 DEF ApiIInv, ApiTypeOK, Kept, ThreadsAreKept
<1>6. QED
  BY <1>3, <1>4, <1>5 DEF ApiIInv, Kept

LEMMA SpawnFailsIInv ==
    ASSUME ApiIInv, SpawnFails
    PROVE  ApiIInv'
<1> USE DEF SpawnFails, ownVars
<1>1. ApiTypeOK'
  BY DEF ApiIInv, ApiTypeOK, clientVars
<1>2. Kept'
  BY DEF ApiIInv, Kept, ServerThread, ThreadsAreKept, CalmStop
<1>3. QED
  BY <1>1, <1>2 DEF ApiIInv

LEMMA StopIInv ==
    ASSUME ApiIInv, stop
    PROVE  ApiIInv'
<1> USE DEF stop
<1>1. ApiTypeOK'
  <2>1. complete' \in BOOLEAN
    OBVIOUS
  <2>2. joins' \subseteq Threads /\ owner' \in {"joining", "waiting"} /\ stopped' \in BOOLEAN
    BY DEF ApiIInv, ApiTypeOK
  <2>3. QED
    BY <2>1, <2>2 DEF ApiIInv, ApiTypeOK, clientVars
<1>2. Kept'
  BY DEF ApiIInv, Kept, ServerThread, ThreadsAreKept, CalmStop
<1>3. QED
  BY <1>1, <1>2 DEF ApiIInv

\* threads_ is cleared of threads that were joined.
LEMMA JoinThreadsIInv ==
    ASSUME ApiIInv, JoinThreads
    PROVE  ApiIInv'
<1> USE DEF JoinThreads
<1>1. ApiTypeOK'
  <2>1. threads' \subseteq Threads /\ owner' \in {"terminated", "waiting"}
    BY DEF ApiIInv, ApiTypeOK
  <2>2. serving' \in BOOLEAN
    BY Zenon DEF ApiIInv, ApiTypeOK
  <2>3. UNCHANGED <<running_, server, spawned, io, stopped, joins, complete, accepting,
                    client, ask, reply, analyzer>>
    BY DEF clientVars
  <2>4. QED
    BY <2>1, <2>2, <2>3 DEF ApiIInv, ApiTypeOK
<1>2. ServerThread' /\ CalmStop'
  BY DEF ApiIInv, Kept, ServerThread, CalmStop
<1>3. ThreadsAreKept'
  <2>1. CASE threads # joins
    BY <2>1 DEF ApiIInv, Kept, ThreadsAreKept
  <2>2. CASE threads = joins
    <3>1. \A t \in Threads : io[t] \notin {"none", "ended"} => io[t] = "ended"
      BY <2>2 DEF ApiIInv, Kept, ThreadsAreKept
    <3>2. QED
      BY <3>1 DEF ThreadsAreKept
  <2>3. QED
    BY <2>1, <2>2
<1>4. QED
  BY <1>1, <1>2, <1>3 DEF ApiIInv, Kept

LEMMA JoinServerIInv ==
    ASSUME ApiIInv, JoinServer
    PROVE  ApiIInv'
<1> USE DEF JoinServer
<1>1. ApiTypeOK'
  BY DEF ApiIInv, ApiTypeOK, clientVars
<1>2. Kept'
  BY DEF ApiIInv, Kept, ServerThread, ThreadsAreKept, CalmStop
<1>3. QED
  BY <1>1, <1>2 DEF ApiIInv

\* The server goes only without threads.
LEMMA DestroyIInv ==
    ASSUME ApiIInv, destroy
    PROVE  ApiIInv'
<1> USE DEF destroy
<1>1. ApiTypeOK'
  BY DEF ApiIInv, ApiTypeOK
<1>2. Kept'
  BY DEF ApiIInv, Kept, ServerThread, ThreadsAreKept, CalmStop
<1>3. QED
  BY <1>1, <1>2 DEF ApiIInv

-----------------------------------------------------------------------------
(* The threads of the io_context and the clients *)

\* A request has an answer.
LEMMA StatusOfAnswer ==
    ASSUME NEW r
    PROVE  processRequest(r) \in Statuses
<1>1. <<r.method, r.path>> \in Routes =>
         r.path \in {Metrics, OneMetric, Stats, Connections, Hosts, Info}
  BY DEF Routes
<1>2. ASSUME NEW path \in {Metrics, OneMetric, Stats, Connections, Hosts, Info}
      PROVE  Handler(path) \in Statuses
  <2>1. {200, 404, IF analyzer THEN 200 ELSE 503} \subseteq Statuses
    BY DEF Statuses
  <2>2. path = Metrics \/ path = OneMetric \/ path = Stats \/ path = Connections
        \/ path = Hosts \/ path = Info
    OBVIOUS
  <2>3. Handler(path) \in {200, 404, IF analyzer THEN 200 ELSE 503}
    BY <2>2 DEF Handler, handleGetMetrics, handleGetMetric, handleGetNetworkStats,
       handleGetConnections, handleGetTopHosts, handleGetSystemInfo
  <2>4. QED
    BY <2>1, <2>3
<1>3. QED
  BY <1>1, <1>2 DEF processRequest, Statuses

\* A thread that runs goes on running or ends; threads_ is not touched.
LEMMA RunningThread ==
    ASSUME ApiIInv, NEW t \in Threads, io[t] \in {"run"} \cup Clients,
           NEW where \in {"run", "ended"} \cup Clients, io' = [io EXCEPT ![t] = where],
           UNCHANGED <<ownVars, serving, server, threads, spawned, stopped>>
    PROVE  /\ Kept'
           /\ io' \in [Threads -> {"none", "run", "ended"} \cup Clients]
<1>1. /\ io' \in [Threads -> {"none", "run", "ended"} \cup Clients]
      /\ \A u \in Threads : u # t => io'[u] = io[u]
  BY DEF ApiIInv, ApiTypeOK
<1>2. io[t] \notin {"none", "ended"}
  BY ClientsAreNoSteps
<1>3. ThreadsAreKept'
  BY <1>1, <1>2 DEF ApiIInv, Kept, ThreadsAreKept
<1>4. ServerThread' /\ CalmStop'
  BY DEF ApiIInv, Kept, ServerThread, CalmStop, ownVars
<1>5. QED
  BY <1>1, <1>3, <1>4 DEF Kept

\* The server is what its variables are.
LEMMA ServerStays ==
    ASSUME ApiIInv, UNCHANGED serverVars
    PROVE  Kept'
BY DEF ApiIInv, Kept, ServerThread, ThreadsAreKept, CalmStop, serverVars, ownVars

\* A connection that is made, read from, was written to or breaks.
LEMMA ClientMoves ==
    ASSUME ApiIInv, NEW c \in Clients, NEW what \in Positions,
           Become(c, what), UNCHANGED <<serverVars, accepting, ask, reply, analyzer>>
    PROVE  ApiIInv'
<1>1. client' \in [Clients -> Positions]
  BY DEF Become, ApiIInv, ApiTypeOK
<1>2. ApiTypeOK'
  BY <1>1 DEF ApiIInv, ApiTypeOK, serverVars, ownVars
<1>3. QED
  BY <1>2, ServerStays DEF ApiIInv

LEMMA SendIInv ==
    ASSUME ApiIInv, NEW c \in Clients, NEW r \in Requests, Send(c, r)
    PROVE  ApiIInv'
<1>1. ask' \in [Clients -> Requests \cup {None}]
  BY DEF Send, ApiIInv, ApiTypeOK
<1>2. UNCHANGED <<serverVars, accepting, client, reply, analyzer>>
  BY DEF Send
<1>3. ApiTypeOK'
  BY <1>1, <1>2 DEF ApiIInv, ApiTypeOK, serverVars, ownVars
<1>4. QED
  BY <1>2, <1>3, ServerStays DEF ApiIInv

LEMMA ReadRequestIInv ==
    ASSUME ApiIInv, NEW t \in Threads, NEW c \in Clients, ReadRequest(t, c)
    PROVE  ApiIInv'
<1>1. /\ io[t] = "run" /\ io' = [io EXCEPT ![t] = c] /\ Become(c, "handled")
      /\ UNCHANGED <<ownVars, serving, server, threads, spawned, stopped>>
      /\ UNCHANGED <<accepting, ask, reply, analyzer>>
  BY DEF ReadRequest, Free
<1>2. client' \in [Clients -> Positions]
  BY <1>1 DEF Become, ApiIInv, ApiTypeOK, Positions
<1>3. Kept' /\ io' \in [Threads -> {"none", "run", "ended"} \cup Clients]
  BY <1>1, RunningThread
<1>4. ApiTypeOK'
  BY <1>1, <1>2, <1>3 DEF ApiIInv, ApiTypeOK, ownVars
<1>5. QED
  BY <1>3, <1>4 DEF ApiIInv

LEMMA RespondIInv ==
    ASSUME ApiIInv, NEW t \in Threads, NEW c \in Clients, Respond(t, c)
    PROVE  ApiIInv'
<1>1. /\ io[t] = c /\ io' = [io EXCEPT ![t] = "run"]
      /\ reply' = [reply EXCEPT ![c] = processRequest(ask[c])]
      /\ Become(c, "answered") \/ Become(c, "writing")
      /\ UNCHANGED <<ownVars, serving, server, threads, spawned, stopped>>
      /\ UNCHANGED <<accepting, ask, analyzer>>
  BY DEF Respond
<1>2. client' \in [Clients -> Positions]
  BY <1>1 DEF Become, ApiIInv, ApiTypeOK, Positions
<1>3. reply' \in [Clients -> Statuses \cup {None}]
  <2>1. processRequest(ask[c]) \in Statuses \cup {None}
    BY StatusOfAnswer
  <2>2. QED
    BY <1>1, <2>1 DEF ApiIInv, ApiTypeOK
<1>4. Kept' /\ io' \in [Threads -> {"none", "run", "ended"} \cup Clients]
  BY <1>1, RunningThread
<1>5. ApiTypeOK'
  BY <1>1, <1>2, <1>3, <1>4 DEF ApiIInv, ApiTypeOK, ownVars
<1>6. QED
  BY <1>4, <1>5 DEF ApiIInv

LEMMA LeaveIInv ==
    ASSUME ApiIInv, NEW t \in Threads, Leave(t)
    PROVE  ApiIInv'
<1>1. /\ io[t] = "run" /\ io' = [io EXCEPT ![t] = "ended"]
      /\ UNCHANGED <<ownVars, serving, server, threads, spawned, stopped>>
      /\ UNCHANGED <<clientVars, analyzer>>
  BY DEF Leave
<1>2. Kept' /\ io' \in [Threads -> {"none", "run", "ended"} \cup Clients]
  BY <1>1, RunningThread
<1>3. ApiTypeOK'
  BY <1>1, <1>2 DEF ApiIInv, ApiTypeOK, ownVars, clientVars
<1>4. QED
  BY <1>2, <1>3 DEF ApiIInv

LEMMA IoStepIInv ==
    ASSUME ApiIInv, NEW t \in Threads, IoStep(t)
    PROVE  ApiIInv'
<1>1. ASSUME NEW c \in Clients, onAccept(t, c) PROVE ApiIInv'
  BY <1>1, ClientMoves DEF onAccept, Positions
<1>2. ASSUME NEW c \in Clients, ReadRequest(t, c) PROVE ApiIInv'
  BY <1>2, ReadRequestIInv
<1>3. ASSUME NEW c \in Clients, Respond(t, c) PROVE ApiIInv'
  BY <1>3, RespondIInv
<1>4. ASSUME NEW c \in Clients, Written(t, c) PROVE ApiIInv'
  BY <1>4, ClientMoves DEF Written, Positions
<1>5. QED
  BY <1>1, <1>2, <1>3, <1>4, LeaveIInv DEF IoStep

LEMMA ServeIInv ==
    ASSUME ApiIInv, Serve
    PROVE  ApiIInv'
<1>1. CASE stop \/ destroy \/ OwnerStep
  BY <1>1, StopIInv, DestroyIInv, JoinThreadsIInv, JoinServerIInv DEF OwnerStep
<1>2. CASE ServerStep
  BY <1>2, BindIInv, SpawnIInv, SpawnFailsIInv DEF ServerStep
<1>3. CASE \E t \in Threads : IoStep(t)
  BY <1>3, IoStepIInv
<1>4. ASSUME NEW c \in Clients, Connect(c) \/ Break(c) PROVE ApiIInv'
  BY <1>4, ClientMoves DEF Connect, Break, Positions
<1>5. QED
  BY <1>1, <1>2, <1>3, <1>4, SendIInv DEF Serve

\* Before the server is started, and if it is not.
LEMMA ApiStays ==
    ASSUME ApiIInv, UNCHANGED apiVars
    PROVE  ApiIInv'
<1>1. ApiTypeOK'
  BY DEF ApiIInv, ApiTypeOK, apiVars, serverVars, ownVars, clientVars
<1>2. QED
  BY <1>1, ServerStays DEF ApiIInv, apiVars

LEMMA StartApiIInv ==
    ASSUME IInv, StartApi
    PROVE  IInv'
<1>1. ConfigIInv'
  BY ConfigStays DEF StartApi, IInv
<1>2. CASE start
  BY <1>1, <1>2, StartIInv DEF IInv
<1>3. CASE UNCHANGED apiVars
  BY <1>1, <1>3, ApiStays DEF IInv
<1>4. QED
  BY <1>2, <1>3 DEF StartApi

-----------------------------------------------------------------------------
(* Theorems *)

LEMMA InitIInv == StartupInit => IInv
BY ConfigInitIInv, ApiInitIInv DEF StartupInit, IInv

LEMMA NextIInv == IInv /\ [StartupNext]_startupVars => IInv'
<1> SUFFICES ASSUME IInv, [StartupNext]_startupVars PROVE IInv'
  OBVIOUS
<1>1. CASE ParseArguments /\ UNCHANGED <<apiVars, port>>
  BY <1>1, ParseArgumentsIInv, ApiStays DEF IInv
<1>2. CASE StartApi
  BY <1>2, StartApiIInv
<1>3. CASE Serve
  <2>1. UNCHANGED <<values, said>>
    BY <1>3 DEF Serve, configVars
  <2>2. QED
    BY <1>3, <2>1, ServeIInv, ConfigStays DEF IInv
<1>4. CASE UNCHANGED startupVars
  <2>1. UNCHANGED <<values, said>> /\ UNCHANGED apiVars
    BY <1>4 DEF startupVars, configVars
  <2>2. QED
    BY <2>1, ConfigStays, ApiStays DEF IInv
<1>5. QED
  BY <1>1, <1>2, <1>3, <1>4 DEF StartupNext

\* The options, the start of the server and all that it does keep the invariant.
THEOREM InductiveInvariant == StartupSpec => []IInv
BY InitIInv, NextIInv, PTL DEF StartupSpec

\* The server's members always have the shape the class declares.
THEOREM TypeCorrect == StartupSpec => []ApiTypeOK
<1>1. IInv => ApiTypeOK
  BY DEF IInv, ApiIInv
<1>2. QED
  BY <1>1, InductiveInvariant, PTL

\* main gets what was said last of a flag, a string or, by an option, of a port,
\* in whatever order options and files come (main.cpp 57-83).
THEOREM LastWordIsRead == StartupSpec => []LastWordCounts
<1>1. IInv => LastWordCounts
  <2> SUFFICES ASSUME IInv, NEW k \in Keys, said[k] # NoValue, said[k].fits,
                      k \in Flags \cup Strings \/ said[k].by = "option"
               PROVE  getOrDefault(k) = said[k].value
    BY DEF LastWordCounts
  <2>1. values[k] = Typed(TypeRead(k), said[k].value) /\ values[k] # NoValue
    BY DEF IInv, ConfigIInv, WordIsStored
  <2>2. values[k].type = TypeRead(k) /\ values[k].value = said[k].value
    BY <2>1 DEF Typed
  <2>3. QED
    BY <2>1, <2>2 DEF getOrDefault, get
<1>2. QED
  BY <1>1, InductiveInvariant, PTL

\* A stop that is called when the server thread had started all of its threads
\* leaves none of them (rest_api.cpp 224-302).
THEOREM ServerIsGone == StartupSpec => []StopLeavesNothing
<1>1. IInv => StopLeavesNothing
  <2> SUFFICES ASSUME IInv, complete, server = "joined" PROVE StopLeavesNothing
    BY DEF StopLeavesNothing
  <2>1. owner # "terminated" /\ threads = {}
    BY DEF IInv, ApiIInv, Kept, CalmStop
  <2>2. \A t \in Threads : io[t] \in {"none", "ended"}
    BY <2>1 DEF IInv, ApiIInv, Kept, ThreadsAreKept
  <2>3. QED
    BY <2>1, <2>2 DEF StopLeavesNothing
<1>2. QED
  BY <1>1, InductiveInvariant, PTL

\* Whenever stop came and whichever thread could not be started, main does not get
\* to destroy what the handlers read while a thread is left to run them
\* (rest_api.cpp 224-302, main.cpp 131-251).
THEOREM NoHandlerOutlives == StartupSpec => []HandlersAreGone
<1>1. IInv => HandlersAreGone
  BY DEF IInv, ApiIInv, Kept, ServerThread, ThreadsAreKept, HandlersAreGone
<1>2. QED
  BY <1>1, InductiveInvariant, PTL

=============================================================================
