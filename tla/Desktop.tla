------------------------------ MODULE Desktop ------------------------------
(***************************************************************************)
(* The desktop application (cmd/desktop/app.go): calls of the user         *)
(* interface, of the web API and of the MQTT client meet at the            *)
(* application's mutex a.mu and at the mutex e.mu of each sweep engine,    *)
(* and the engine and the MQTT client call back into the application.      *)
(*                                                                         *)
(* A goroutine is the list of the instructions it has still to run: the    *)
(* operations of a Go RWMutex, and pieces of code that read or write the   *)
(* shared state and put what they call in front of the rest.  The sweep    *)
(* loop is left out: it takes e.mu alone, for single assignments.          *)
(***************************************************************************)
EXTENDS Naturals, Sequences, FiniteSets

CONSTANTS
  Callers,     \* goroutines of calls
  Forwarders,  \* goroutines of forwardScans
  Calls,       \* the calls there are
  AutoStart,   \* config.AutoStart
  MaxCalls, MaxRunners,  \* bounds
  App,         \* a.mu
  None         \* no goroutine

Threads == Callers \cup Forwarders

ASSUME CallsAssumption ==
  /\ Calls \subseteq {"autoConnect", "Connect", "Disconnect", "shutdown", "StartScanning",
       "StopScanning", "GetStatus", "SetBandEnabled", "SetGain", "EnableMQTT", "DisableMQTT",
       "mqttEvent", "apiStart", "apiStop", "apiBands"}
  /\ AutoStart \in BOOLEAN
ASSUME ThreadsAssumption == Callers \cap Forwarders = {} /\ None \notin Threads
ASSUME BoundsAssumption == MaxCalls \in Nat /\ MaxRunners \in Nat /\ App \notin Nat

Engines == 1..MaxRunners
NoRunner == 0

VARIABLES
  locks,       \* the mutexes
  code,        \* what each goroutine has still to run
  call,        \* the last call of each goroutine
  calls,       \* how many calls began
  runners,     \* how many runners were made
  runner,      \* a.runner
  running,     \* e.running, per engine
  mqttClients, \* the engines whose runner has an MQTT client
  standalone,  \* a.standaloneMQTT is there
  forwarding   \* a.forwardingScans

appVars == <<locks, code, call, calls, runners, runner, running, mqttClients, standalone, forwarding>>

-----------------------------------------------------------------------------
(* Instructions                                                            *)

Instr(op, arg) == [op |-> op, arg |-> arg]
Do(op)     == Instr(op, App)
Lock(m)    == Instr("Lock", m)
Unlock(m)  == Instr("Unlock", m)
RLock(m)   == Instr("RLock", m)
RUnlock(m) == Instr("RUnlock", m)

\* The status and the config callback read a.runner or a.webServer
Callback == <<RLock(App), RUnlock(App)>>

\* mqttConnectionCallback, and the end of DisableMQTT, set a.mqttStatus
MqttCallback == <<Lock(App), Unlock(App)>>

Start(e)         == <<Lock(e), Instr("start", e)>>
Stop(e)          == <<Lock(e), Instr("stop", e)>>
SetMQTTClient(e) == <<Lock(e), Unlock(e)>>
UpdateConfig(e)  == <<Lock(e), Unlock(e)>> \o Callback
CloseRunner(e)   == <<RLock(e), Instr("close", e), Instr("closeClient", e)>>

\* What a call begins with; the rest depends on what it reads under the lock
Program(c, e) ==
  CASE c \in {"StartScanning", "StopScanning", "GetStatus"} -> <<RLock(App), Do(c)>>
    [] c = "autoConnect" -> <<Lock(App), Do("create")>>
    [] c = "mqttEvent"   -> MqttCallback
    [] c = "apiStart"    -> Start(e)
    [] c = "apiStop"     -> Stop(e)
    [] c = "apiBands"    -> UpdateConfig(e)
    [] OTHER             -> <<Lock(App), Do(c)>>

When(condition, program) == IF condition THEN program ELSE <<>>

-----------------------------------------------------------------------------
Free == [writer |-> None, pending |-> None, readers |-> 0, waiting |-> {}, woken |-> {}]

AppInit ==
  /\ locks = [m \in Engines \cup {App} |-> Free]
  /\ code = [t \in Threads |-> <<>>]
  /\ call = [t \in Threads |-> ""]
  /\ calls = 0 /\ runners = 0 /\ runner = NoRunner
  /\ running = [e \in Engines |-> FALSE]
  /\ mqttClients = {}
  /\ standalone \in BOOLEAN
  /\ forwarding = FALSE

Mutex == [writer : Threads \cup {None}, pending : Threads \cup {None},
          readers : Nat, waiting : SUBSET Threads, woken : SUBSET Threads]

AppTypeOK ==
  /\ locks \in [Engines \cup {App} -> Mutex]
  /\ \A m \in DOMAIN locks : locks[m].writer # None => locks[m].readers = 0
  /\ DOMAIN code = Threads /\ DOMAIN call = Threads
  /\ calls \in 0..MaxCalls
  /\ runners \in 0..MaxRunners /\ runner \in 0..runners
  /\ running \in [Engines -> BOOLEAN]
  /\ mqttClients \subseteq 1..runners
  /\ standalone \in BOOLEAN /\ forwarding \in BOOLEAN

Busy(t) == code[t] # <<>>

At(t, op) == Busy(t) /\ Head(code[t]).op = op

Arg(t) == Head(code[t]).arg

\* The instruction is replaced by more
Goes(t, more) == code' = [code EXCEPT ![t] = more \o Tail(@)]

state == <<runners, runner, running, mqttClients, standalone, forwarding>>

-----------------------------------------------------------------------------
(* sync.RWMutex: a writer that waits keeps new readers out, and when it    *)
(* lets go the readers that wait come first.                               *)

RLocks(t) ==
  LET m == locks[Arg(t)] IN
  /\ At(t, "RLock")
  /\ \/ /\ t \in m.woken \/ (m.writer = None /\ m.pending = None)
        /\ locks' = [locks EXCEPT ![Arg(t)].readers = @ + 1, ![Arg(t)].woken = @ \ {t}]
        /\ Goes(t, <<>>)
     \/ /\ m.writer # None \/ m.pending # None
        /\ t \notin m.woken \cup m.waiting
        /\ locks' = [locks EXCEPT ![Arg(t)].waiting = @ \cup {t}]
        /\ UNCHANGED code
  /\ UNCHANGED <<call, calls, state>>

RUnlocks(t) ==
  /\ At(t, "RUnlock")
  /\ locks' = [locks EXCEPT ![Arg(t)].readers = @ - 1]
  /\ Goes(t, <<>>)
  /\ UNCHANGED <<call, calls, state>>

Locks(t) ==
  LET m == locks[Arg(t)] IN
  /\ At(t, "Lock")
  /\ \/ /\ m.writer = None /\ m.pending = None
        /\ locks' = [locks EXCEPT ![Arg(t)].pending = t]
        /\ UNCHANGED code
     \/ /\ m.pending = t /\ m.readers = 0 /\ m.woken = {}
        /\ locks' = [locks EXCEPT ![Arg(t)].pending = None, ![Arg(t)].writer = t]
        /\ Goes(t, <<>>)
  /\ UNCHANGED <<call, calls, state>>

Unlocks(t) ==
  /\ At(t, "Unlock")
  /\ locks' = [locks EXCEPT ![Arg(t)] = [Free EXCEPT !.woken = locks[Arg(t)].waiting]]
  /\ Goes(t, <<>>)
  /\ UNCHANGED <<call, calls, state>>

-----------------------------------------------------------------------------
(* The engine and the runner                                               *)

\* Engine.Start tells the application after it let go of e.mu
EngineStart(t) ==
  LET e == Arg(t) IN
  /\ At(t, "start")
  /\ running' = [running EXCEPT ![e] = TRUE]
  /\ Goes(t, <<Unlock(e)>> \o When(~running[e], Callback))
  /\ UNCHANGED <<locks, call, calls, runners, runner, mqttClients, standalone, forwarding>>

\* Engine.Stop tells it under e.mu
EngineStop(t) ==
  LET e == Arg(t) IN
  /\ At(t, "stop")
  /\ running' = [running EXCEPT ![e] = FALSE]
  /\ Goes(t, When(running[e], Callback) \o <<Unlock(e)>>)
  /\ UNCHANGED <<locks, call, calls, runners, runner, mqttClients, standalone, forwarding>>

\* Runner.Close stops the engine if it runs
RunnerClose(t) ==
  /\ At(t, "close")
  /\ Goes(t, <<RUnlock(Arg(t))>> \o When(running[Arg(t)], Stop(Arg(t))))
  /\ UNCHANGED <<locks, call, calls, state>>

\* Then it disconnects its client, which tells the application
RunnerCloseClient(t) ==
  /\ At(t, "closeClient")
  /\ Goes(t, When(Arg(t) \in mqttClients, MqttCallback))
  /\ UNCHANGED <<locks, call, calls, state>>

\* Runner.DisableMQTT takes no lock of its own
RunnerDisable(t) ==
  LET e == Arg(t) IN
  /\ At(t, "disable")
  /\ Goes(t, When(e \in mqttClients, MqttCallback) \o <<Instr("noClient", e)>> \o SetMQTTClient(e))
  /\ UNCHANGED <<locks, call, calls, state>>

RunnerNoClient(t) ==
  /\ At(t, "noClient")
  /\ mqttClients' = mqttClients \ {Arg(t)}
  /\ Goes(t, <<>>)
  /\ UNCHANGED <<locks, call, calls, runners, runner, running, standalone, forwarding>>

\* Runner.EnableMQTTWithCallback, once the old client is gone: the new one may
\* not be made
RunnerClient(t) ==
  LET e == Arg(t) IN
  /\ At(t, "client")
  /\ \/ mqttClients' = mqttClients \cup {e} /\ Goes(t, SetMQTTClient(e))
     \/ mqttClients' = mqttClients \ {e} /\ Goes(t, <<>>)
  /\ UNCHANGED <<locks, call, calls, runners, runner, running, standalone, forwarding>>

-----------------------------------------------------------------------------
(* The application's calls, each under a.mu from its first instruction     *)

Begin(t) ==
  /\ t \in Callers /\ ~Busy(t) /\ calls < MaxCalls
  /\ \A u \in Callers : call[u] # "shutdown"
  /\ \E c \in Calls :
       /\ call' = [call EXCEPT ![t] = c]
       /\ \/ /\ c \notin {"apiStart", "apiStop", "apiBands"}
             /\ code' = [code EXCEPT ![t] = Program(c, NoRunner)]
          \/ /\ c \in {"apiStart", "apiStop", "apiBands"}
             /\ \E e \in 1..runners : code' = [code EXCEPT ![t] = Program(c, e)]
  /\ calls' = calls + 1
  /\ UNCHANGED <<locks, state>>

\* Connect closes the runner there is; autoConnect only creates one
Connect(t) ==
  /\ At(t, "Connect")
  /\ Goes(t, When(runner # NoRunner, CloseRunner(runner) \o <<Do("drop")>>) \o <<Do("create")>>)
  /\ UNCHANGED <<locks, call, calls, state>>

Disconnect(t) ==
  /\ At(t, "Disconnect")
  /\ Goes(t, When(runner # NoRunner, CloseRunner(runner) \o <<Do("drop")>>) \o <<Unlock(App)>>)
  /\ UNCHANGED <<locks, call, calls, state>>

Drop(t) ==
  /\ At(t, "drop")
  /\ runner' = NoRunner
  /\ Goes(t, <<>>)
  /\ UNCHANGED <<locks, call, calls, runners, running, mqttClients, standalone, forwarding>>

\* The backend does not answer: the call ends, and the new runner is closed
CreateFails(t) ==
  /\ At(t, "create")
  /\ Goes(t, <<Unlock(App)>>)
  /\ UNCHANGED <<locks, call, calls, state>>

Create(t) ==
  LET e == runners + 1 IN
  /\ At(t, "create") /\ runners < MaxRunners
  /\ runners' = e /\ runner' = e
  /\ Goes(t, <<Unlock(App)>> \o When(AutoStart, <<Do("go")>> \o Start(e)))
  /\ UNCHANGED <<locks, call, calls, running, mqttClients, standalone, forwarding>>

Shutdown(t) ==
  /\ At(t, "shutdown")
  /\ Goes(t, When(standalone, MqttCallback) \o When(runner # NoRunner, CloseRunner(runner))
               \o <<Unlock(App)>>)
  /\ UNCHANGED <<locks, call, calls, state>>

StartScanning(t) ==
  /\ At(t, "StartScanning")
  /\ Goes(t, <<RUnlock(App)>> \o When(runner # NoRunner, <<Do("go")>> \o Start(runner)))
  /\ UNCHANGED <<locks, call, calls, state>>

\* Mutant: the read lock is held over the call
StopScanningLocked(t) ==
  /\ At(t, "StopScanning")
  /\ Goes(t, When(runner # NoRunner, Stop(runner)) \o <<RUnlock(App)>>)
  /\ UNCHANGED <<locks, call, calls, state>>

StopScanning(t) ==
  /\ At(t, "StopScanning")
  /\ Goes(t, <<RUnlock(App)>> \o When(runner # NoRunner, Stop(runner)))
  /\ UNCHANGED <<locks, call, calls, state>>

\* IsRunning and CurrentBand
GetStatus(t) ==
  LET read == <<RLock(runner), RUnlock(runner)>> IN
  /\ At(t, "GetStatus")
  /\ Goes(t, When(runner # NoRunner, read \o read) \o <<RUnlock(App)>>)
  /\ UNCHANGED <<locks, call, calls, state>>

SetBandEnabled(t) ==
  /\ At(t, "SetBandEnabled")
  /\ Goes(t, When(runner # NoRunner, UpdateConfig(runner)) \o <<Unlock(App)>>)
  /\ UNCHANGED <<locks, call, calls, state>>

SetGain(t) ==
  /\ At(t, "SetGain")
  /\ Goes(t, <<Unlock(App)>> \o When(runner # NoRunner, UpdateConfig(runner)))
  /\ UNCHANGED <<locks, call, calls, state>>

\* The standalone client is disconnected outside of the lock, the runner's
\* client inside it
EnableMQTT(t) ==
  /\ At(t, "EnableMQTT")
  /\ standalone' = FALSE
  /\ Goes(t, <<Unlock(App)>> \o When(standalone, MqttCallback) \o <<Lock(App), Do("startMQTT")>>)
  /\ UNCHANGED <<locks, call, calls, runners, runner, running, mqttClients, forwarding>>

StartMQTTRunner(t) ==
  /\ At(t, "startMQTT") /\ runner # NoRunner
  /\ Goes(t, When(runner \in mqttClients, MqttCallback) \o <<Instr("client", runner), Unlock(App)>>)
  /\ UNCHANGED <<locks, call, calls, state>>

StartMQTTStandalone(t) ==
  /\ At(t, "startMQTT") /\ runner = NoRunner
  /\ standalone' = TRUE
  /\ Goes(t, <<Unlock(App)>>)
  /\ UNCHANGED <<locks, call, calls, runners, runner, running, mqttClients, forwarding>>

\* No broker is configured
StartMQTTFails(t) ==
  /\ At(t, "startMQTT")
  /\ Goes(t, <<Unlock(App)>>)
  /\ UNCHANGED <<locks, call, calls, state>>

DisableMQTT(t) ==
  /\ At(t, "DisableMQTT")
  /\ standalone' = FALSE
  /\ Goes(t, <<Unlock(App)>> \o When(runner # NoRunner, <<Instr("disable", runner)>>)
               \o When(standalone, MqttCallback) \o MqttCallback)
  /\ UNCHANGED <<locks, call, calls, runners, runner, running, mqttClients, forwarding>>

-----------------------------------------------------------------------------
(* forwardScans, a goroutine of its own                                    *)

Go(t) ==
  /\ At(t, "go")
  /\ \E f \in Forwarders :
       /\ ~Busy(f)
       /\ code' = [code EXCEPT ![f] = <<Lock(App), Do("forward")>>, ![t] = Tail(@)]
       /\ call' = [call EXCEPT ![f] = "forwardScans"]
  /\ UNCHANGED <<locks, calls, state>>

\* Mutant: a forwarder that is ahead of the engine's start gives up
ForwardIfRunning(t) ==
  /\ At(t, "forward") /\ ~forwarding
  /\ forwarding' = TRUE
  /\ Goes(t, <<Unlock(App)>> \o IF runner = NoRunner \/ ~running[runner]
                               THEN <<Lock(App), Do("forwarded")>>
                               ELSE <<Instr("range", runner)>>)
  /\ UNCHANGED <<locks, call, calls, runners, runner, running, mqttClients, standalone>>

\* The channel is never closed by another, so the range never ends
Forward(t) ==
  /\ At(t, "forward") /\ ~forwarding
  /\ forwarding' = TRUE
  /\ Goes(t, <<Unlock(App)>> \o IF runner = NoRunner THEN <<Lock(App), Do("forwarded")>>
                               ELSE <<Instr("range", runner)>>)
  /\ UNCHANGED <<locks, call, calls, runners, runner, running, mqttClients, standalone>>

ForwardedAlready(t) ==
  /\ At(t, "forward") /\ forwarding
  /\ Goes(t, <<Unlock(App)>>)
  /\ UNCHANGED <<locks, call, calls, state>>

\* The deferred reset
Forwarded(t) ==
  /\ At(t, "forwarded")
  /\ forwarding' = FALSE
  /\ Goes(t, <<Unlock(App)>>)
  /\ UNCHANGED <<locks, call, calls, runners, runner, running, mqttClients, standalone>>

-----------------------------------------------------------------------------
Step(t) ==
  \/ RLocks(t) \/ RUnlocks(t) \/ Locks(t) \/ Unlocks(t)
  \/ EngineStart(t) \/ EngineStop(t)
  \/ RunnerClose(t) \/ RunnerCloseClient(t)
  \/ RunnerDisable(t) \/ RunnerNoClient(t) \/ RunnerClient(t)
  \/ Connect(t) \/ Disconnect(t) \/ Drop(t) \/ CreateFails(t) \/ Create(t) \/ Shutdown(t)
  \/ StartScanning(t) \/ StopScanning(t) \/ GetStatus(t) \/ SetBandEnabled(t) \/ SetGain(t)
  \/ EnableMQTT(t) \/ StartMQTTRunner(t) \/ StartMQTTStandalone(t) \/ StartMQTTFails(t)
  \/ DisableMQTT(t)
  \/ Go(t) \/ Forward(t) \/ ForwardedAlready(t) \/ Forwarded(t)

AppNext == \E t \in Threads : Begin(t) \/ Step(t)

AppSafe == AppInit /\ [][AppNext]_appVars

\* Goroutines are scheduled; no call need be made
AppSpec == AppSafe /\ \A t \in Threads : WF_appVars(Step(t))

-----------------------------------------------------------------------------
(* Properties                                                              *)

Forwards(t) == code[t] # <<>> /\ Head(code[t]).op = "range"

Quiet == \A t \in Threads : Busy(t) => Forwards(t)

Served == \E t \in Forwarders : Forwards(t) /\ Arg(t) = runner

\* Once the window asked for scans, and every call has ended, the scans of the
\* first runner go to it, in whatever order starts and stops came; and at no
\* time do they go to it twice (forwardScans and forwardingScans, app.go:404).
ForwardedOnce ==
  /\ AppTypeOK
  /\ \A t, u \in Forwarders : Forwards(t) /\ Forwards(u) => t = u
  /\ Quiet /\ runner = 1 /\ (\E f \in Forwarders : call[f] = "forwardScans") => Served

\* The calls that hold a.mu while they call the engine or the MQTT client
Holding == {"Connect", "Disconnect", "shutdown", "SetBandEnabled", "EnableMQTT", "GetStatus"}

\* A call that lets go of a.mu before it calls the engine or the MQTT client
\* ends, unless one that does not is stuck: "Release lock before
\* callbacks/events that may need it" (app.go:169).
DisciplinedCallsEnd ==
  \A t \in Threads :
    Busy(t) ~> (~Busy(t) \/ Forwards(t) \/ \E u \in Callers : Busy(u) /\ call[u] \in Holding)
=============================================================================
