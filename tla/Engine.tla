------------------------------- MODULE Engine -------------------------------
(***************************************************************************)
(* The scanner's sweep engine (scanner/internal/scanner/engine.go): the    *)
(* goroutines that call Start and Stop, the sweep-loop goroutine that each *)
(* Start spawns, the one radio they share, and the status the engine tells *)
(* the MQTT broker and the local WebSocket clients.                        *)
(*                                                                         *)
(* Between two statements of a goroutine every other goroutine may run, so *)
(* each statement that touches shared state is an action of its own.  The  *)
(* mutex e.mu is the variable mu: Stop holds it from its first to its last *)
(* statement, every other user takes and releases it within one action.    *)
(*                                                                         *)
(* What a sweep measures is reduced to the band the tuner stood on when    *)
(* the samples were taken; one segment stands for the segments of a sweep. *)
(* The paths that change and publish the configuration are in ConfigSync;  *)
(* the loop only sees that the band list has been replaced.                *)
(***************************************************************************)
EXTENDS Naturals, Sequences

CONSTANTS
  Api,         \* goroutines of the HTTP server
  Remote,      \* the goroutine that runs the MQTT command handler
  Bands,       \* names of bands
  Configs,     \* the band lists the scanner may be given
  MaxStarts,   \* bound: how many sweep loops a run may spawn
  MaxLosses,   \* bound: how often the MQTT connection is lost
  None         \* no goroutine, no band, no loop

Callers == Api \cup {Remote}
Loops   == 1..MaxStarts

ASSUME NamesAssumption == /\ None \notin Callers
                          /\ None \notin Bands
                          /\ None \notin Loops
                          /\ Remote \notin Api
ASSUME BoundsAssumption == MaxStarts \in Nat /\ MaxLosses \in Nat
ASSUME ConfigsAssumption ==
  /\ Configs # {}
  /\ Configs \subseteq Seq([name : Bands, enabled : BOOLEAN])

VARIABLES
  mu,          \* who holds e.mu, None if free
  running,     \* e.running
  cancel,      \* the loop e.cancel cancels, None when e.cancel is nil
  spawned,     \* how many contexts Start has made: loop l has context l
  ctxDone,     \* the loops whose context is cancelled
  config,      \* e.config.Bands
  currentBand, \* e.currentBand
  caller,      \* per calling goroutine: its next statement and its context
  loop,        \* per sweep loop: its next statement and its locals
  hw,          \* the band the backend was last configured for
  tuned,       \* the band the receiver was last tuned to
  lastScan,    \* the last scan handed to broadcast
  late,        \* history: scans a loop broadcast after its cancellation
  link,        \* the MQTT connection is open
  losses,      \* how often it has been lost
  outbox,      \* status messages the MQTT client keeps until it is open again
  onConnect,   \* the OnConnect handler has its status still to publish
  retained,    \* the retained message of the status topic
  ui           \* what the last status broadcast told the WebSocket clients

engineVars == <<mu, running, cancel, spawned, ctxDone, currentBand>>
radioVars  == <<hw, tuned, lastScan, late>>
linkVars   == <<link, losses, outbox, onConnect>>
vars == <<engineVars, config, caller, loop, radioVars, linkVars, retained, ui>>

-----------------------------------------------------------------------------
Status(online, scanning, band) ==
  [online |-> online, scanning |-> scanning, band |-> band]

Scan(label, data) == [label |-> label, data |-> data]

IdleLoop(pc) == [pc |-> pc, todo |-> <<>>, band |-> None, swept |-> None]

EnabledNames(bands) ==
  {bands[i].name : i \in {j \in DOMAIN bands : bands[j].enabled}}

BandList == Seq([name : Bands, enabled : BOOLEAN])

CallerPc == {"idle", "start", "startStatus", "startNotify", "started",
             "stop", "stopStatus", "stopNotify", "stopped"}

LoopPc == {"none", "top", "next", "band", "status", "configure",
           "sweep", "tune", "collect", "broadcast", "exit", "done"}

\* Types of the variables, by what they belong to
CallerOK == caller \in [Callers -> [pc : CallerPc, ctx : Loops \cup {None}]]

LoopOK == loop \in [Loops -> [pc : LoopPc, todo : BandList,
                              band : Bands \cup {None}, swept : Bands \cup {None}]]

\* A loop has a band from "band" to "broadcast", a swept one from "tune" on
LocalsOK ==
  \A l \in Loops :
    /\ loop[l].pc \in {"band", "status", "configure", "sweep", "tune", "collect", "broadcast"}
         => loop[l].band \in Bands
    /\ loop[l].pc \in {"tune", "collect", "broadcast"} => loop[l].swept \in Bands
    /\ loop[l].pc \in {"sweep", "tune", "collect"} => hw \in Bands
    /\ loop[l].pc = "collect" => tuned \in Bands

ControlOK ==
  /\ mu \in Callers \cup {None}
  /\ cancel \in Loops \cup {None}
  /\ spawned \in 0..MaxStarts
  /\ ctxDone \subseteq Loops
  /\ config \in Configs
  /\ currentBand \in Bands \cup {None}

RadioOK ==
  /\ hw \in Bands \cup {None}
  /\ tuned \in Bands \cup {None}
  /\ lastScan \in {None} \cup [label : Bands, data : Bands]
  /\ late \in [Loops -> Nat]

FlagsOK == running \in BOOLEAN /\ link \in BOOLEAN /\ onConnect \in BOOLEAN /\ ui \in BOOLEAN

StatusMessage == [online : BOOLEAN, scanning : BOOLEAN, band : Bands \cup {None}]

StatusOK ==
  /\ retained \in StatusMessage
  /\ outbox \subseteq StatusMessage
  /\ losses \in 0..MaxLosses

TypeOK == CallerOK /\ LoopOK /\ LocalsOK /\ ControlOK /\ RadioOK /\ FlagsOK /\ StatusOK

Init ==
  /\ mu = None
  /\ running = FALSE
  /\ cancel = None
  /\ spawned = 0
  /\ ctxDone = {}
  /\ config \in Configs
  /\ currentBand = None
  /\ caller = [c \in Callers |-> [pc |-> "idle", ctx |-> None]]
  /\ loop = [l \in Loops |-> IdleLoop("none")]
  /\ hw = None
  /\ tuned = None
  /\ lastScan = None
  /\ late = [l \in Loops |-> 0]
  /\ link = FALSE
  /\ losses = 0
  /\ outbox = {}
  /\ onConnect = FALSE
  /\ retained = Status(FALSE, FALSE, None)
  /\ ui = FALSE

\* PublishStatus behind the callers' "mqtt != nil && IsConnected()" test, which
\* holds of a client that is still connecting too.  A message for a lost
\* connection is kept for the next one; one for a connection that never was
\* goes when the first clean session starts.
PublishStatus(online, scanning, band) ==
  LET message == Status(online, scanning, band) IN
  IF link
    THEN retained' = message /\ UNCHANGED outbox
    ELSE /\ outbox' = IF losses > 0 THEN outbox \cup {message} ELSE outbox
         /\ UNCHANGED retained

CallerAt(c, pc) == caller[c].pc = pc
CallerTo(c, pc) == caller' = [caller EXCEPT ![c].pc = pc]
LoopAt(l, pc)   == loop[l].pc = pc
LoopTo(l, pc)   == loop' = [loop EXCEPT ![l].pc = pc]

-----------------------------------------------------------------------------
(* Start: the HTTP handler and the MQTT command                            *)

\* handleStartScan looks at IsRunning before it calls Start
ApiStart(c) ==
  /\ c \in Api /\ CallerAt(c, "idle")
  /\ mu = None /\ ~running
  /\ CallerTo(c, "start")
  /\ UNCHANGED <<engineVars, config, loop, radioVars, linkVars, retained, ui>>

\* Where the goroutine goes on when Start or Stop has returned to it
AfterCall(c, pc) == IF c \in Api THEN pc ELSE "idle"

AtCall(c, pc) == CallerAt(c, IF c \in Api THEN pc ELSE "idle")

\* Mutant: Start does not look whether the engine is running
StartUnguarded(c) ==
  /\ AtCall(c, "start")
  /\ mu = None
  /\ spawned < MaxStarts
  /\ running' = TRUE
  /\ spawned' = spawned + 1
  /\ cancel' = spawned + 1
  /\ caller' = [caller EXCEPT ![c] = [pc |-> "startStatus", ctx |-> spawned + 1]]
  /\ UNCHANGED <<mu, ctxDone, currentBand, config, loop, radioVars, linkVars, retained, ui>>

\* The locked part of Start: a second Start returns without an effect
StartLocked(c) ==
  /\ AtCall(c, "start")
  /\ mu = None
  /\ ~running
  /\ spawned < MaxStarts
  /\ running' = TRUE
  /\ spawned' = spawned + 1
  /\ cancel' = spawned + 1
  /\ caller' = [caller EXCEPT ![c] = [pc |-> "startStatus", ctx |-> spawned + 1]]
  /\ UNCHANGED <<mu, ctxDone, currentBand, config, loop, radioVars, linkVars, retained, ui>>

StartRunning(c) ==
  /\ AtCall(c, "start")
  /\ mu = None
  /\ running
  /\ CallerTo(c, AfterCall(c, "started"))
  /\ UNCHANGED <<engineVars, config, loop, radioVars, linkVars, retained, ui>>

StartStatus(c) ==
  /\ CallerAt(c, "startStatus")
  /\ PublishStatus(TRUE, TRUE, None)
  /\ CallerTo(c, "startNotify")
  /\ UNCHANGED <<engineVars, config, loop, radioVars, link, losses, onConnect, ui>>

\* notifyStatusChange(true, ""), then go runLoop(ctx)
StartNotify(c) ==
  /\ CallerAt(c, "startNotify")
  /\ ui' = TRUE
  /\ loop' = [loop EXCEPT ![caller[c].ctx] = IdleLoop("top")]
  /\ caller' = [caller EXCEPT ![c] = [pc |-> AfterCall(c, "started"), ctx |-> None]]
  /\ UNCHANGED <<engineVars, config, radioVars, linkVars, retained>>

\* handleStartScan broadcasts the status once more
ApiStarted(c) ==
  /\ CallerAt(c, "started")
  /\ ui' = TRUE
  /\ CallerTo(c, "idle")
  /\ UNCHANGED <<engineVars, config, loop, radioVars, linkVars, retained>>

-----------------------------------------------------------------------------
(* Stop                                                                    *)

ApiStop(c) ==
  /\ c \in Api /\ CallerAt(c, "idle")
  /\ mu = None /\ running
  /\ CallerTo(c, "stop")
  /\ UNCHANGED <<engineVars, config, loop, radioVars, linkVars, retained, ui>>

\* Takes e.mu and keeps it until StopNotify
StopLocked(c) ==
  /\ AtCall(c, "stop")
  /\ mu = None
  /\ running
  /\ mu' = c
  /\ running' = FALSE
  /\ ctxDone' = ctxDone \cup ({cancel} \ {None})
  /\ cancel' = None
  /\ CallerTo(c, "stopStatus")
  /\ UNCHANGED <<spawned, currentBand, config, loop, radioVars, linkVars, retained, ui>>

StopNotRunning(c) ==
  /\ AtCall(c, "stop")
  /\ mu = None
  /\ ~running
  /\ CallerTo(c, AfterCall(c, "stopped"))
  /\ UNCHANGED <<engineVars, config, loop, radioVars, linkVars, retained, ui>>

StopStatus(c) ==
  /\ CallerAt(c, "stopStatus")
  /\ PublishStatus(TRUE, FALSE, None)
  /\ CallerTo(c, "stopNotify")
  /\ UNCHANGED <<engineVars, config, loop, radioVars, link, losses, onConnect, ui>>

StopNotify(c) ==
  /\ CallerAt(c, "stopNotify")
  /\ ui' = FALSE
  /\ mu' = None
  /\ CallerTo(c, AfterCall(c, "stopped"))
  /\ UNCHANGED <<running, cancel, spawned, ctxDone, currentBand, config, loop, radioVars,
                 linkVars, retained>>

ApiStopped(c) ==
  /\ CallerAt(c, "stopped")
  /\ ui' = FALSE
  /\ CallerTo(c, "idle")
  /\ UNCHANGED <<engineVars, config, loop, radioVars, linkVars, retained>>

\* HandleBands and UpdateConfig, as far as the sweep loop sees them
ReplaceBands ==
  /\ mu = None
  /\ config' \in Configs
  /\ UNCHANGED <<engineVars, caller, loop, radioVars, linkVars, retained, ui>>

-----------------------------------------------------------------------------
(* runLoop                                                                 *)

\* Mutant: the loop looks at e.running, which the next Start sets again
CancelledByFlag(l) == ~running

\* Mutant: the loop is given a context of its own that nobody cancels
CancelledNever(l) == FALSE

\* The loop's own context, as ctx.Done() and ctx.Err() show it
Cancelled(l) == l \in ctxDone

\* Context test at the head of a pass, then a snapshot of the band list
LoopTop(l) ==
  /\ LoopAt(l, "top")
  /\ IF Cancelled(l)
       THEN LoopTo(l, "exit")
       ELSE /\ mu = None
            /\ loop' = [loop EXCEPT ![l].pc = "next", ![l].todo = config]
  /\ UNCHANGED <<engineVars, config, caller, radioVars, linkVars, retained, ui>>

\* Next band of the snapshot: a disabled one is passed over
LoopNext(l) ==
  LET todo == loop[l].todo IN
  /\ LoopAt(l, "next")
  /\ \/ todo = <<>> /\ LoopTo(l, "top")
     \/ todo # <<>> /\ Cancelled(l) /\ LoopTo(l, "exit")
     \/ /\ todo # <<>> /\ ~Cancelled(l)
        /\ loop' = [loop EXCEPT ![l] =
             IF Head(todo).enabled
               THEN [@ EXCEPT !.pc = "band", !.band = Head(todo).name, !.todo = Tail(todo)]
               ELSE [@ EXCEPT !.todo = Tail(todo)]]
  /\ UNCHANGED <<engineVars, config, caller, radioVars, linkVars, retained, ui>>

LoopBand(l) ==
  /\ LoopAt(l, "band")
  /\ mu = None
  /\ currentBand' = loop[l].band
  /\ LoopTo(l, "status")
  /\ UNCHANGED <<mu, running, cancel, spawned, ctxDone, config, caller, radioVars, linkVars,
                 retained, ui>>

\* Mutant: the band is not reported
LoopStatusSilent(l) ==
  /\ LoopAt(l, "status")
  /\ LoopTo(l, "configure")
  /\ UNCHANGED <<engineVars, config, caller, radioVars, linkVars, retained, ui>>

LoopStatus(l) ==
  /\ LoopAt(l, "status")
  /\ PublishStatus(TRUE, TRUE, loop[l].band)
  /\ LoopTo(l, "configure")
  /\ UNCHANGED <<engineVars, config, caller, radioVars, link, losses, onConnect, ui>>

\* The loop is done with a band, and with the locals of its sweep
NextBand(l, pc) == loop' = [loop EXCEPT ![l].pc = pc, ![l].band = None, ![l].swept = None]

LoopConfigure(l) ==
  /\ LoopAt(l, "configure")
  /\ \/ hw' = loop[l].band /\ LoopTo(l, "sweep")
     \/ UNCHANGED hw /\ NextBand(l, "next")
  /\ UNCHANGED <<engineVars, config, caller, tuned, lastScan, late, linkVars, retained, ui>>

\* Sweep failed: a cancelled loop returns, any other goes on
SweepFails(l) ==
  /\ loop[l].pc \in {"sweep", "tune", "collect"}
  /\ NextBand(l, IF Cancelled(l) THEN "exit" ELSE "next")
  /\ UNCHANGED <<engineVars, config, caller, radioVars, linkVars, retained, ui>>

\* The backend copies the configured band under its own lock ...
SweepBegin(l) ==
  /\ LoopAt(l, "sweep")
  /\ loop' = [loop EXCEPT ![l].pc = "tune", ![l].swept = hw]
  /\ UNCHANGED <<engineVars, config, caller, radioVars, linkVars, retained, ui>>

\* ... and, unless the context is cancelled, tunes to a segment of it ...
SweepTune(l) ==
  /\ LoopAt(l, "tune")
  /\ ~Cancelled(l)
  /\ tuned' = loop[l].swept
  /\ LoopTo(l, "collect")
  /\ UNCHANGED <<engineVars, config, caller, hw, lastScan, late, linkVars, retained, ui>>

\* ... whose samples come from wherever the receiver stands by now
SweepCollect(l) ==
  /\ LoopAt(l, "collect")
  /\ loop' = [loop EXCEPT ![l].pc = "broadcast", ![l].swept = tuned]
  /\ UNCHANGED <<engineVars, config, caller, radioVars, linkVars, retained, ui>>

LoopBroadcast(l) ==
  /\ LoopAt(l, "broadcast")
  /\ lastScan' = Scan(loop[l].band, loop[l].swept)
  /\ late' = IF l \in ctxDone THEN [late EXCEPT ![l] = @ + 1] ELSE late
  /\ NextBand(l, "next")
  /\ UNCHANGED <<engineVars, config, caller, hw, tuned, linkVars, retained, ui>>

\* Mutant: the loop leaves without its deferred function
LoopExitPlain(l) ==
  /\ LoopAt(l, "exit")
  /\ loop' = [loop EXCEPT ![l] = IdleLoop("done")]
  /\ UNCHANGED <<engineVars, config, caller, radioVars, linkVars, retained, ui>>

\* The deferred function of runLoop
LoopExit(l) ==
  /\ LoopAt(l, "exit")
  /\ mu = None
  /\ currentBand' = None
  /\ loop' = [loop EXCEPT ![l] = IdleLoop("done")]
  /\ UNCHANGED <<mu, running, cancel, spawned, ctxDone, config, caller, radioVars, linkVars,
                 retained, ui>>

-----------------------------------------------------------------------------
(* The MQTT connection                                                     *)

\* The broker publishes the last will
LinkLost ==
  /\ link /\ losses < MaxLosses
  /\ link' = FALSE
  /\ losses' = losses + 1
  /\ retained' = Status(FALSE, FALSE, None)
  /\ UNCHANGED <<engineVars, config, caller, loop, radioVars, outbox, onConnect, ui>>

\* One OnConnect handler at a time
LinkUp ==
  /\ ~link /\ ~onConnect
  /\ link' = TRUE
  /\ onConnect' = TRUE
  /\ UNCHANGED <<engineVars, config, caller, loop, radioVars, losses, outbox, retained, ui>>

\* The client sends what it kept, in no particular order
SendKept ==
  /\ link
  /\ \E message \in outbox : retained' = message /\ outbox' = outbox \ {message}
  /\ UNCHANGED <<engineVars, config, caller, loop, radioVars, link, losses, onConnect, ui>>

\* The handler says scanning = false whatever the engine does
OnConnectStatus ==
  /\ onConnect
  /\ PublishStatus(TRUE, FALSE, None)
  /\ onConnect' = FALSE
  /\ UNCHANGED <<engineVars, config, caller, loop, radioVars, link, losses, ui>>

-----------------------------------------------------------------------------
StartStep(c) == StartLocked(c) \/ StartRunning(c) \/ StartStatus(c) \/ StartNotify(c)
                  \/ ApiStarted(c)
StopStep(c) == StopLocked(c) \/ StopNotRunning(c) \/ StopStatus(c) \/ StopNotify(c)
                  \/ ApiStopped(c)

SweepStep(l) == SweepBegin(l) \/ SweepTune(l) \/ SweepCollect(l) \/ SweepFails(l)
LoopStep(l) == LoopTop(l) \/ LoopNext(l) \/ LoopBand(l) \/ LoopStatus(l) \/ LoopConfigure(l)
                  \/ SweepStep(l) \/ LoopBroadcast(l) \/ LoopExit(l)

Next ==
  \/ \E c \in Callers : ApiStart(c) \/ ApiStop(c) \/ StartStep(c) \/ StopStep(c)
  \/ \E l \in Loops : LoopStep(l)
  \/ ReplaceBands
  \/ LinkLost \/ LinkUp \/ SendKept \/ OnConnectStatus

Safe == Init /\ [][Next]_vars

\* A call that has begun goes on: goroutines are scheduled, and the publish
\* and the status callback return.  Nobody has to call Start or Stop.
InCall(c) == ~CallerAt(c, "idle") /\ (StartStep(c) \/ StopStep(c))

Fairness ==
  /\ \A c \in Callers : WF_vars(InCall(c))
  /\ \A l \in Loops : WF_vars(LoopStep(l))
  /\ WF_vars(OnConnectStatus)
  /\ WF_vars(SendKept)

Spec == Safe /\ Fairness

-----------------------------------------------------------------------------
(* Properties                                                              *)

\* The engine has at most one sweep loop whose context is live, and it is the
\* one Stop will cancel: running, e.cancel and the contexts agree whoever
\* called Start and Stop in whatever order (engine.go:184-230).
OneLiveLoop ==
  /\ running <=> cancel # None
  /\ (1..spawned) \ ctxDone = {cancel} \ {None}

\* A loop runs only after the Start that made its context, leaves only after
\* that context is cancelled, and no other context ever is.
LoopLifetime ==
  /\ ctxDone \subseteq 1..spawned
  /\ \A l \in Loops : l > spawned => LoopAt(l, "none")
  /\ \A l \in Loops : loop[l].pc \in {"exit", "done"} => l \in ctxDone

\* After Stop a loop hands out at most the one scan it was collecting: the
\* context test before each band stops it (engine.go:278-282).
LateScanAtMostOne == \A l \in Loops : late[l] <= 1

\* The engine implements the sessions it promises: one open at a time, and at
\* most one scan from a session that was closed.
Promise == INSTANCE SweepSessions WITH
  MaxSessions <- MaxStarts, Outputs <- [label : Bands, data : Bands],
  session <- cancel, opened <- spawned, closed <- ctxDone,
  leftover <- late, output <- lastScan
KeepsSessions == Promise!Spec

\* Once every loop has gone, GET /api/status reports no current band: the
\* deferred reset of the last one is not undone (engine.go:259-264).
IdleBandCleared ==
  (\A l \in Loops : loop[l].pc \in {"none", "done"}) => currentBand = None

\* A cancelled loop ends, wherever Stop caught it.
StoppedLoopEnds == \A l \in Loops : l \in ctxDone ~> loop[l].pc \in {"none", "done"}

\* While the engine sweeps and the broker is reachable, the retained status
\* is corrected to scanning = true: the next band repairs what OnConnect
\* published (client.go:137, engine.go:293).
ScanningStatusShown ==
  (running /\ link) ~> (retained.scanning \/ ~running \/ ~link \/ EnabledNames(config) = {})

-----------------------------------------------------------------------------
(* The inductive invariant behind the theorems of EngineProofs             *)

\* Start keeps the context it made until it has spawned the loop
CallerCtx ==
  \A c \in Callers :
    caller[c].pc \in {"startStatus", "startNotify"} => caller[c].ctx \in 1..spawned

\* A loop that has handed out a scan after its cancellation has no way back
\* to a sweep
LateInv ==
  \A l \in Loops :
    late[l] # 0 => /\ late[l] = 1
                   /\ l \in ctxDone
                   /\ loop[l].pc \in {"next", "top", "exit", "done"}

\* Whoever set currentBand is still there to reset it
BandInv ==
  currentBand # None => \E l \in Loops : loop[l].pc \notin {"none", "done"}

IInv == /\ TypeOK /\ OneLiveLoop /\ LoopLifetime
        /\ CallerCtx /\ LateInv /\ BandInv
=============================================================================
