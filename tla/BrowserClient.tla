---------------------------- MODULE BrowserClient ----------------------------
(***************************************************************************)
(* The browser's connection to the broker: MqttClient of                   *)
(* frontend/src/lib/mqttClient.js, the store's part of it (connect,        *)
(* disconnect, subscribe and unsubscribe of stores/scanners.js), and the   *)
(* pages that use it.  Login and logout connect and disconnect; mounted    *)
(* views count their subscriptions.                                        *)
(*                                                                         *)
(* JavaScript runs one task at a time: an action is a task.  What an await *)
(* separates is two actions: connect asks for credentials, and the answer  *)
(* makes a client of the mqtt.js library.  That library tries to connect,  *)
(* waits after each failure and tries again.  Time is counted in seconds,  *)
(* and timers run out on time.                                             *)
(***************************************************************************)
EXTENDS Integers, FiniteSets

CONSTANTS
  Scanners,
  Views,           \* components that subscribe
  Debounce,        \* seconds until a lost connection is reported
  ReconnectPeriod, \* seconds between attempts
  ConnectTimeout,  \* seconds an attempt may take
  Leaves,          \* whether the user leaves the page and comes back
  MaxLogins        \* bound

ASSUME BrowserClientAssumption ==
  /\ {Debounce, ReconnectPeriod, ConnectTimeout} \subseteq Nat \ {0}
  /\ Leaves \in BOOLEAN /\ MaxLogins \in Nat
  /\ IsFiniteSet(Views)

VARIABLES
  auth,     \* auth.isAuthenticated
  view,     \* the scanners each view shows, {} when it is not mounted
  current,  \* the store's mqttClient, 0 when it is null
  clients,  \* the MqttClients there were
  refs,     \* _subscriptionRefs
  ui,       \* the store's connected, and its ticking clock
  down      \* seconds since the current client was last up

vars == <<auth, view, current, clients, refs, ui, down>>

Off == -1

(* A client's "subs" are its _subscriptions, "asked" the topics mqtt.js     *)
(* has subscribed and subscribes again on its own when it reconnects, and   *)
(* "at" is where it is: asking for credentials, without them (failed), with *)
(* an mqtt.js client that is trying, up, waiting to try again or ended, or  *)
(* over.  "timer" is _disconnectTimer, "left" what an attempt or a wait     *)
(* has left.                                                                *)
Fresh == [at |-> "asking", subs |-> {}, asked |-> {}, timer |-> Off, left |-> Off]
Alive(c) == c.at \in {"trying", "up", "waiting"}
Ids == DOMAIN clients
IsUp(i) == i \in Ids /\ clients[i].at = "up"

Trying(c)  == [c EXCEPT !.at = "trying", !.left = ConnectTimeout]

Set(i, c) == clients' = [clients EXCEPT ![i] = c]

\* _stateCallback: the store's onStateChange, which every client keeps
Report(up) == ui' = [connected |-> up, ticking |-> ui.ticking \/ up]

-----------------------------------------------------------------------------
(* Login and logout: the store's connect and disconnect                     *)

\* The login page shows no view; connect makes a client and asks.
Login ==
  /\ ~auth /\ \A v \in Views : view[v] = {}
  /\ Cardinality(Ids) < MaxLogins
  /\ auth' = TRUE
  /\ current' = Cardinality(Ids) + 1
  /\ clients' = [i \in 1..current' |-> IF i = current' THEN Fresh ELSE clients[i]]
  /\ down' = 0
  /\ UNCHANGED <<view, refs, ui>>

\* MqttClient.disconnect: what waits for credentials goes on waiting
Disconnected(c) ==
  [c EXCEPT !.at = IF @ \in {"asking", "failed"} THEN @ ELSE "over",
            !.subs = {}, !.asked = {}, !.timer = Off, !.left = Off]

Logout ==
  /\ auth
  /\ auth' = FALSE
  /\ Set(current, Disconnected(clients[current]))
  /\ current' = 0
  /\ refs' = [s \in Scanners |-> 0]
  /\ ui' = [connected |-> FALSE, ticking |-> FALSE]
  /\ down' = 0
  /\ UNCHANGED view

\* The answer to fetchMqttCredentials, for whoever asked
Credentials(i) ==
  /\ clients[i].at = "asking"
  /\ \/ Set(i, Trying(clients[i]))
     \/ Set(i, [clients[i] EXCEPT !.at = "failed"])
  /\ UNCHANGED <<auth, view, current, refs, ui, down>>

-----------------------------------------------------------------------------
(* mqtt.js and the handlers of its events                                   *)

\* Mutant: what mqtt.js knows is enough
Remembered(c) == c.asked

\* "connect": every subscription is made again
Resubscribed(c) == c.asked \cup c.subs

Connack(i) ==
  /\ clients[i].at = "trying"
  /\ Set(i, [clients[i] EXCEPT !.at = "up", !.asked = Resubscribed(clients[i]),
                               !.timer = Off, !.left = Off])
  /\ Report(TRUE)
  /\ down' = IF i = current THEN 0 ELSE down
  /\ UNCHANGED <<auth, view, current, refs>>

\* Mutants: reported at once, or not before the next connection
AtOnce(c) == [c EXCEPT !.timer = 0]
Untimed(c) == c

\* "close": after a lost connection, and after every attempt that failed
Debounced(c) == [c EXCEPT !.timer = Debounce]

Close(i) ==
  /\ clients[i].at \in {"trying", "up"}
  /\ Set(i, [Debounced(clients[i]) EXCEPT !.at = "waiting", !.left = ReconnectPeriod])
  /\ UNCHANGED <<auth, view, current, refs, ui, down>>

Retry(i) ==
  /\ clients[i].at = "waiting" /\ clients[i].left = 0
  /\ Set(i, Trying(clients[i]))
  /\ UNCHANGED <<auth, view, current, refs, ui, down>>

\* _disconnectTimer
Expire(i) ==
  /\ clients[i].timer = 0
  /\ Set(i, [clients[i] EXCEPT !.timer = Off])
  /\ IF clients[i].at = "up" THEN UNCHANGED ui ELSE Report(FALSE)
  /\ UNCHANGED <<auth, view, current, refs, down>>

\* beforeunload ends each client, although the page may stay
Ended(c) == [(IF c.at = "waiting" THEN c ELSE Debounced(c)) EXCEPT !.at = "ended", !.left = Off]

BeforeUnload ==
  /\ Leaves /\ \E i \in Ids : Alive(clients[i])
  /\ clients' = [i \in Ids |-> IF Alive(clients[i]) THEN Ended(clients[i]) ELSE clients[i]]
  /\ UNCHANGED <<auth, view, current, refs, ui, down>>

\* visibilitychange: whoever has a client that is not connected reconnects
Visible ==
  /\ Leaves /\ \E i \in Ids : clients[i].at \in {"waiting", "ended"}
  /\ clients' = [i \in Ids |->
       IF clients[i].at \in {"trying", "waiting", "ended"} THEN Trying(clients[i]) ELSE clients[i]]
  /\ UNCHANGED <<auth, view, current, refs, ui, down>>

\* Nothing waits longer than its timer.
Second(n) == IF n = Off THEN Off ELSE n - 1

Tick ==
  /\ \E i \in Ids : clients[i].timer # Off \/ clients[i].left # Off
  /\ \A i \in Ids : clients[i].timer # 0 /\ clients[i].left # 0
  /\ clients' = [i \in Ids |->
       [clients[i] EXCEPT !.timer = Second(@), !.left = Second(@)]]
  /\ down' = IF IsUp(current) \/ current = 0 \/ down > Debounce THEN down ELSE down + 1
  /\ UNCHANGED <<auth, view, current, refs, ui>>

-----------------------------------------------------------------------------
(* Views: subscribe and unsubscribe of the store                            *)

\* MqttClient.subscribe and unsubscribe: topics only while connected
Subscribe(c, S) ==
  [c EXCEPT !.subs = @ \cup S, !.asked = IF c.at = "up" THEN @ \cup S ELSE @]
Unsubscribe(c, S) ==
  [c EXCEPT !.subs = @ \ S, !.asked = IF c.at = "up" THEN @ \ S ELSE @]

\* Mutant: the first to go takes it along
Deleted(n) == 0

\* A disconnect forgot the counts of views that are still there.
Dropped(n) == IF n = 0 THEN 0 ELSE n - 1

Counted(old, new) ==
  [s \in Scanners |-> IF s \in new \ old THEN refs[s] + 1
                      ELSE IF s \in old \ new THEN Dropped(refs[s]) ELSE refs[s]]

\* A view is mounted or taken down, or the scanners it shows change.
Show(v, S) ==
  /\ S # view[v]
  /\ view[v] = {} => auth
  /\ view' = [view EXCEPT ![v] = S]
  /\ refs' = Counted(view[v], S)
  /\ IF current = 0 THEN UNCHANGED clients
     ELSE LET first == {s \in S \ view[v] : refs'[s] = 1}
              last  == {s \in view[v] \ S : refs[s] > 0 /\ refs'[s] = 0}
          IN  Set(current, Unsubscribe(Subscribe(clients[current], first), last))
  /\ UNCHANGED <<auth, current, ui, down>>

-----------------------------------------------------------------------------
Init ==
  /\ auth = FALSE
  /\ view = [v \in Views |-> {}]
  /\ current = 0
  /\ clients = [i \in {} |-> Fresh]
  /\ refs = [s \in Scanners |-> 0]
  /\ ui = [connected |-> FALSE, ticking |-> FALSE]
  /\ down = 0

Next ==
  \/ Login \/ Logout \/ BeforeUnload \/ Visible \/ Tick
  \/ \E i \in Ids : Credentials(i) \/ Connack(i) \/ Close(i) \/ Retry(i) \/ Expire(i)
  \/ \E v \in Views, S \in SUBSET Scanners : Show(v, S)

Spec == Init /\ [][Next]_vars

-----------------------------------------------------------------------------
(* Properties                                                               *)

TypeOK ==
  /\ auth \in BOOLEAN
  /\ view \in [Views -> SUBSET Scanners]
  /\ current \in Ids \cup {0}
  /\ Ids = 1..Cardinality(Ids) /\ Cardinality(Ids) \in 0..MaxLogins
  /\ \A i \in Ids : clients[i] \in
       [at : {"asking", "failed", "trying", "up", "waiting", "ended", "over"},
        subs : SUBSET Scanners, asked : SUBSET Scanners,
        timer : 0..Debounce \cup {Off},
        left : 0..ReconnectPeriod \cup 0..ConnectTimeout \cup {Off}]
  /\ refs \in [Scanners -> 0..Cardinality(Views)]
  /\ ui \in [connected : BOOLEAN, ticking : BOOLEAN]
  /\ down \in 0..Debounce + 1

\* No client is left over from a logout that came while it asked.
Alone == \A i \in Ids \ {current} : clients[i].at \in {"asking", "failed", "over"}

\* Subscriptions are counted per view and cleared by disconnect, whose views
\* are still there and give up later what is no longer counted: while there is
\* a client, it is subscribed to what some view shows, and to nothing else.
ViewsCounted ==
  TypeOK /\ (current # 0 => clients[current].subs = UNION {view[v] : v \in Views})

\* A view that is mounted while the connection is asked for, tried, lost or
\* ended has only its name put down: whenever the connection is up, the topics
\* of everything that is shown are subscribed at the broker.
TopicsCover == IsUp(current) =>
  \A v \in Views : view[v] \subseteq clients[current].asked

\* The indicator says connected while the connection is up, and goes on saying
\* so over an outage only while a timer is there to take it back.
IndicatorFollows == Alone =>
  /\ IsUp(current) => ui.connected
  /\ ui.connected => IsUp(current) \/ (current # 0 /\ clients[current].timer # Off)

\* "only report disconnected if we stay down for 5s" (mqttClient.js:166): the
\* indicator of a user who is logged in goes out for no shorter outage.
NoFlapping == [][Alone /\ auth' /\ ui.connected /\ ~ui'.connected => down >= Debounce]_vars
=============================================================================
