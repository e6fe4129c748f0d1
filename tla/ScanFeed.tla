------------------------------ MODULE ScanFeed ------------------------------
(***************************************************************************)
(* How scans and status leave the sweep engine inside the scanner's        *)
(* process: the subscribers of internal/scanner/engine.go, of whom one is  *)
(* the goroutine that stores scans (internal/runner), the others serve the *)
(* WebSocket clients of internal/api/websocket.go; the hub that sends      *)
(* those clients status; and the end, Runner.Close.                        *)
(*                                                                         *)
(* A broadcast of a scan is under subscribersMu.RLock, one of status under *)
(* the hub's mu.RLock.  Go lets no new reader in while a writer waits.  A  *)
(* client that does not read blocks who writes to it; one that is gone     *)
(* fails him.  Scans are counted, not told apart, and one broadcast stands *)
(* for the two of a greeting.  Commands over MQTT stand for whoever starts *)
(* and stops the engine.                                                   *)
(***************************************************************************)
EXTENDS Integers, FiniteSets

CONSTANTS
  Clients,
  Loops,     \* sweep loops: Stop does not wait for the one it cancels
  Capacity,  \* of a subscriber's channel
  None

\* Who sends status: the handler of MQTT commands, Close, and the handler of
\* each client that greets it
Senders == {"mqtt", "close"} \cup Clients
Subscribers == {"store"} \cup Clients

ASSUME ScanFeedAssumption ==
  /\ Capacity \in Nat \ {0}
  /\ Clients \cap {"mqtt", "close", "store", None} = {}

VARIABLES
  running,  \* e.running
  mu,       \* who holds e.mu for longer than a step, or None
  loop,     \* the sweep loops: where they are, who is left to send to
  subs,     \* e.subscribers
  queue,    \* scans in each subscriber's channel
  at,       \* where the senders are, and the goroutine that stores
  hub,      \* WSHub.clients
  cast,     \* the clients a broadcast of status has left, or None
  net       \* how each client behaves

vars == <<running, mu, loop, subs, queue, at, hub, cast, net>>

Closing == at["close"] # "idle"

Goes(t, place) == at' = [at EXCEPT ![t] = place]

-----------------------------------------------------------------------------
(* The broadcast of scans: Subscribe, Unsubscribe, broadcast                *)

SubscribersLocked == \E l \in Loops : loop[l].at = "send"
SubscribersAwaited == \E t \in Subscribers : at[t] \in {"joining", "leaving"}

Idle == [at |-> "off", left |-> {}, cancelled |-> FALSE]

\* One band: the loop needs e.mu to say which; a sweep may fail, and one that
\* is cancelled may still deliver.
Sweep(l) ==
  /\ loop[l].at = "sweep" /\ mu = None
  /\ \/ loop' = [loop EXCEPT ![l].at = "locking"]
     \/ loop[l].cancelled /\ loop' = [loop EXCEPT ![l] = Idle]
  /\ UNCHANGED <<running, mu, subs, queue, at, hub, cast, net>>

BroadcastLocks(l) ==
  /\ loop[l].at = "locking" /\ ~SubscribersAwaited
  /\ loop' = [loop EXCEPT ![l].at = "send", ![l].left = subs]
  /\ UNCHANGED <<running, mu, subs, queue, at, hub, cast, net>>

\* Mutant: a select without its default waits
SendWaits(l, s) ==
  /\ loop[l].at = "send" /\ s \in loop[l].left /\ queue[s] < Capacity
  /\ queue' = [queue EXCEPT ![s] = @ + 1]
  /\ loop' = [loop EXCEPT ![l].left = @ \ {s}]
  /\ UNCHANGED <<running, mu, subs, at, hub, cast, net>>

\* A subscriber whose channel is full misses the scan.
Send(l, s) ==
  /\ loop[l].at = "send" /\ s \in loop[l].left
  /\ queue' = [queue EXCEPT ![s] = IF @ < Capacity THEN @ + 1 ELSE @]
  /\ loop' = [loop EXCEPT ![l].left = @ \ {s}]
  /\ UNCHANGED <<running, mu, subs, at, hub, cast, net>>

BroadcastEnds(l) ==
  /\ loop[l].at = "send" /\ loop[l].left = {}
  /\ loop' = [loop EXCEPT ![l] = IF @.cancelled THEN Idle ELSE [@ EXCEPT !.at = "sweep"]]
  /\ UNCHANGED <<running, mu, subs, queue, at, hub, cast, net>>

\* Subscribe and Unsubscribe, for the goroutine that stores and for handlers
Subscribe(s, next) ==
  /\ at[s] = "joining" /\ ~SubscribersLocked
  /\ subs' = subs \cup {s} /\ queue' = [queue EXCEPT ![s] = 0]
  /\ Goes(s, next)
  /\ UNCHANGED <<running, mu, loop, hub, cast, net>>

\* Mutant: without subscribersMu
UnsubscribeUnlocked(s, next) ==
  /\ at[s] = "leaving"
  /\ subs' = subs \ {s} /\ queue' = [queue EXCEPT ![s] = 0]
  /\ Goes(s, next)
  /\ UNCHANGED <<running, mu, loop, hub, cast, net>>

Unsubscribe(s, next) ==
  /\ at[s] = "leaving" /\ ~SubscribersLocked
  /\ subs' = subs \ {s} /\ queue' = [queue EXCEPT ![s] = 0]
  /\ Goes(s, next)
  /\ UNCHANGED <<running, mu, loop, hub, cast, net>>

Receive(s, next) ==
  /\ queue[s] > 0
  /\ queue' = [queue EXCEPT ![s] = @ - 1]
  /\ Goes(s, next)
  /\ UNCHANGED <<running, mu, loop, subs, hub, cast, net>>

-----------------------------------------------------------------------------
(* runScanPersistence                                                       *)

StoreReceived ==
  /\ at["store"] = "storing"
  /\ Goes("store", "waiting")
  /\ UNCHANGED <<running, mu, loop, subs, queue, hub, cast, net>>

\* Mutant: the goroutine ends with its channel only
StoreUnsubscribed ==
  /\ at["store"] = "waiting" /\ "store" \notin subs
  /\ Goes("store", "leaving")
  /\ UNCHANGED <<running, mu, loop, subs, queue, hub, cast, net>>

\* ctx.Done(): what is in the channel is not stored
StoreCancelled ==
  /\ at["store"] = "waiting" /\ Closing
  /\ Goes("store", "leaving")
  /\ UNCHANGED <<running, mu, loop, subs, queue, hub, cast, net>>

Persistence ==
  \/ Subscribe("store", "waiting")
  \/ at["store"] = "waiting" /\ Receive("store", "storing")
  \/ StoreReceived \/ StoreCancelled
  \/ Unsubscribe("store", "done")

-----------------------------------------------------------------------------
(* The broadcast of status: WSHub                                           *)

HubLocked == \E t \in Senders : cast[t] # None
HubAwaited == \E c \in Clients : at[c] \in {"adding", "removing"}

\* A greeting tells whether the engine runs: IsRunning needs e.mu.
CastBegins(t) ==
  /\ at[t] \in {"starting", "stopping", "greeting"} /\ cast[t] = None /\ ~HubAwaited
  /\ t \in Clients => mu = None
  /\ cast' = [cast EXCEPT ![t] = hub]
  /\ UNCHANGED <<running, mu, loop, subs, queue, at, hub, net>>

\* WriteMessage: an error is logged
CastTo(t, c) ==
  /\ cast[t] # None /\ c \in cast[t] /\ net[c] # "stuck"
  /\ cast' = [cast EXCEPT ![t] = @ \ {c}]
  /\ UNCHANGED <<running, mu, loop, subs, queue, at, hub, net>>

CastEnded(t) == cast[t] = {} /\ cast' = [cast EXCEPT ![t] = None]

-----------------------------------------------------------------------------
(* Engine.Start and Engine.Stop, by a command over MQTT or by Close         *)

\* The bound on loops holds starts up, not loops.
HandleStart ==
  /\ at["mqtt"] = "idle" /\ at["close"] # "closed" /\ mu = None /\ ~running
  /\ Idle \in {loop[l] : l \in Loops}
  /\ running' = TRUE /\ Goes("mqtt", "starting")
  /\ UNCHANGED <<mu, loop, subs, queue, hub, cast, net>>

\* go e.runLoop(ctx): the context is cancelled when Stop was faster
StartEnds ==
  /\ at["mqtt"] = "starting" /\ CastEnded("mqtt")
  /\ \E l \in {i \in Loops : loop[i] = Idle} :
       loop' = [loop EXCEPT ![l] = [at |-> "sweep", left |-> {}, cancelled |-> ~running]]
  /\ Goes("mqtt", "idle")
  /\ UNCHANGED <<running, mu, subs, queue, hub, net>>

StopLocks(t) ==
  /\ mu = None /\ running
  /\ mu' = t /\ running' = FALSE
  /\ loop' = [l \in Loops |-> IF loop[l] = Idle THEN Idle
                              ELSE [loop[l] EXCEPT !.cancelled = TRUE]]
  /\ Goes(t, "stopping")
  /\ UNCHANGED <<subs, queue, hub, cast, net>>

HandleStop == at["mqtt"] = "idle" /\ at["close"] # "closed" /\ StopLocks("mqtt")

StopEnds(t, next) ==
  /\ at[t] = "stopping" /\ CastEnded(t)
  /\ mu' = None
  /\ Goes(t, next)
  /\ UNCHANGED <<running, loop, subs, queue, hub, net>>

-----------------------------------------------------------------------------
(* Runner.Close                                                             *)

CloseStep(from, next) ==
  /\ at["close"] = from
  /\ Goes("close", next)
  /\ UNCHANGED <<running, mu, loop, subs, queue, hub, cast, net>>

\* r.cancel()
Close == CloseStep("idle", "checking")

\* IsRunning; then Stop, which somebody else may have called meanwhile
CloseChecks == mu = None /\ CloseStep("checking", IF running THEN "locking" ELSE "waiting")
CloseStops  ==
  \/ at["close"] = "locking" /\ StopLocks("close")
  \/ mu = None /\ ~running /\ CloseStep("locking", "waiting")
  \/ StopEnds("close", "waiting")

\* Mutant: without wg.Wait()
CloseAtOnce == CloseStep("waiting", "closed")

\* wg.Wait(), then the MQTT client, the backend and the store are closed
CloseWaits == at["store"] = "done" /\ CloseStep("waiting", "closed")

-----------------------------------------------------------------------------
(* handleWebSocket                                                          *)

Connect(c) ==
  /\ net[c] = "off"
  /\ net' = [net EXCEPT ![c] = "reading"] /\ Goes(c, "adding")
  /\ UNCHANGED <<running, mu, loop, subs, queue, hub, cast>>

Add(c) ==
  /\ at[c] = "adding" /\ ~HubLocked
  /\ hub' = hub \cup {c} /\ Goes(c, "joining")
  /\ UNCHANGED <<running, mu, loop, subs, queue, cast, net>>

Greeted(c) ==
  /\ at[c] = "greeting" /\ CastEnded(c)
  /\ Goes(c, "serving")
  /\ UNCHANGED <<running, mu, loop, subs, queue, hub, net>>

\* Mutant: a write that fails is logged
WriteLogged(c) ==
  /\ at[c] = "writing" /\ net[c] # "stuck"
  /\ Goes(c, "serving")
  /\ UNCHANGED <<running, mu, loop, subs, queue, hub, cast, net>>

\* WriteJSON: the handler ends at a write that fails, and only there
WriteScan(c) ==
  /\ at[c] = "writing" /\ net[c] # "stuck"
  /\ Goes(c, IF net[c] = "gone" THEN "leaving" ELSE "serving")
  /\ UNCHANGED <<running, mu, loop, subs, queue, hub, cast, net>>

Remove(c) ==
  /\ at[c] = "removing" /\ ~HubLocked
  /\ hub' = hub \ {c} /\ net' = [net EXCEPT ![c] = "off"] /\ Goes(c, "off")
  /\ UNCHANGED <<running, mu, loop, subs, queue, cast>>

Handler(c) ==
  \/ Add(c) \/ Subscribe(c, "greeting") \/ Greeted(c)
  \/ at[c] = "serving" /\ Receive(c, "writing")
  \/ WriteScan(c) \/ Unsubscribe(c, "removing") \/ Remove(c)

\* A client stops to read, reads again, or goes.
ClientChanges(c) ==
  /\ \/ net[c] = "reading" /\ net' = [net EXCEPT ![c] = "stuck"]
     \/ net[c] = "stuck" /\ net' = [net EXCEPT ![c] = "reading"]
     \/ net[c] \in {"reading", "stuck"} /\ net' = [net EXCEPT ![c] = "gone"]
  /\ UNCHANGED <<running, mu, loop, subs, queue, at, hub, cast>>

-----------------------------------------------------------------------------
Init ==
  /\ running = FALSE /\ mu = None
  /\ loop = [l \in Loops |-> Idle]
  /\ subs = {} /\ queue = [s \in Subscribers |-> 0]
  /\ at = [t \in Senders \cup {"store"} |->
             IF t \in Clients THEN "off" ELSE IF t = "store" THEN "joining" ELSE "idle"]
  /\ hub = {} /\ cast = [t \in Senders |-> None]
  /\ net = [c \in Clients |-> "off"]

LoopSteps(l) == Sweep(l) \/ BroadcastLocks(l) \/ BroadcastEnds(l) \/ \E s \in Subscribers : Send(l, s)
CastSteps(t) == CastBegins(t) \/ \E c \in Clients : CastTo(t, c)
Commands == StartEnds \/ StopEnds("mqtt", "idle")
Closes == CloseChecks \/ CloseStops \/ CloseWaits

Next ==
  \/ HandleStart \/ HandleStop \/ Close \/ Commands \/ Closes \/ Persistence
  \/ \E l \in Loops : LoopSteps(l)
  \/ \E t \in Senders : CastSteps(t)
  \/ \E c \in Clients : Connect(c) \/ Handler(c) \/ ClientChanges(c)

\* Goroutines run, a mutex passes to who has waited for it, and a select takes
\* each of its cases now and then.  Commands, clients and Close come when they
\* like.
Fairness ==
  /\ WF_vars(Commands) /\ WF_vars(Persistence) /\ SF_vars(StoreCancelled) /\ SF_vars(Closes)
  /\ \A l \in Loops : WF_vars(LoopSteps(l))
  /\ \A t \in Senders : SF_vars(CastSteps(t))
  /\ \A c \in Clients : WF_vars(Handler(c))

Spec == Init /\ [][Next]_vars
FairSpec == Spec /\ Fairness

-----------------------------------------------------------------------------
(* Properties                                                               *)

TypeOK ==
  /\ running \in BOOLEAN
  /\ mu \in {"mqtt", "close", None}
  /\ loop \in [Loops -> [at : {"off", "sweep", "locking", "send"},
                         left : SUBSET Subscribers, cancelled : BOOLEAN]]
  /\ subs \subseteq Subscribers
  /\ queue \in [Subscribers -> 0..Capacity]
  /\ at \in [Senders \cup {"store"} -> {"off", "idle", "starting", "stopping", "checking",
       "locking", "waiting", "closed", "joining", "storing", "leaving", "done", "adding",
       "greeting", "serving", "writing", "removing"}]
  /\ hub \subseteq Clients
  /\ cast \in [Senders -> {None} \cup SUBSET Clients]
  /\ net \in [Clients -> {"off", "reading", "stuck", "gone"}]

\* Unsubscribe closes the channel while loops broadcast, and a send on a closed
\* channel is a panic: whoever a broadcast has left is subscribed.
NoSendOnClosed == \A l \in Loops : loop[l].left \subseteq subs

\* Close waits for the goroutine that stores before it closes the database:
\* no scan is stored, and no channel left open for it, after that.
StoreClosedLast == at["close"] = "closed" => at["store"] = "done" /\ "store" \notin subs

\* A client that does not read its scans, or a goroutine that does not store
\* them, holds up no broadcast of scans.
BroadcastsEnd == \A l \in Loops : loop[l].at = "send" ~> loop[l].at # "send"

NobodyStuck == \A c \in Clients : net[c] # "stuck"

\* Close ends whatever loops, commands, handlers and clients do, if no client
\* refuses to read for ever: for such a one Stop waits under e.mu.
CloseReturns == <>[]NobodyStuck => (Closing ~> at["close"] = "closed")

\* A client that is gone is forgotten by the engine and by the hub, if scans
\* go on: it takes one to find out.
GoneForgotten == \A c \in Clients :
  <>[]NobodyStuck /\ []<>SubscribersLocked => (net[c] = "gone" ~> net[c] = "off")
=============================================================================
