----------------------------- MODULE ScanProofs -----------------------------
(***************************************************************************)
(* What becomes of a scanner's scans, for any number of clients, sweep     *)
(* loops, scans and restarts: how they leave the engine and the process    *)
(* ends (ScanFeed), and its own history of them (ScanStore): the table is  *)
(* well formed, a process that has been up for a period keeps nothing that *)
(* is too old, whatever others left it, a preview has one scan for every   *)
(* minute of the timeline, and its points stand for every sample but at    *)
(* most the last.                                                          *)
(***************************************************************************)
EXTENDS ScanFeed, ScanStore, FiniteSetTheorems, WellFoundedInduction, TLAPS

-----------------------------------------------------------------------------
(* ScanFeed                                                                *)

\* What a broadcast has left is forgotten when it is not on its way.
LeftWhileSending == \A l \in Loops : loop[l].at # "send" => loop[l].left = {}

\* The goroutine that stores goes from its subscription to its end, which
\* takes the subscription away for good.
StoreLeaves ==
  /\ at["store"] \in {"joining", "waiting", "storing", "leaving", "done"}
  /\ at["store"] = "done" => "store" \notin subs

FeedInv == TypeOK /\ LeftWhileSending /\ NoSendOnClosed /\ StoreLeaves /\ StoreClosedLast

LoopTypes == [at : {"off", "sweep", "locking", "send"}, left : SUBSET Subscribers, cancelled : BOOLEAN]

LEMMA Names ==
  /\ "store" \notin Clients /\ "close" \notin Clients /\ "mqtt" \notin Clients
  /\ None \notin Clients
  /\ Capacity \in Nat \ {0}
BY ScanFeedAssumption

LEMMA FeedInit == Init => FeedInv
<1> SUFFICES ASSUME Init PROVE FeedInv
  OBVIOUS
<1> USE Names DEF Init
<1>1. TypeOK
  <2>1. loop \in [Loops -> LoopTypes]
    BY DEF Idle, LoopTypes
  <2>2. at \in [Senders \cup {"store"} -> {"off", "joining", "idle"}]
    BY SMT
  <2>3. at \in [Senders \cup {"store"} -> {"off", "idle", "starting", "stopping", "checking",
          "locking", "waiting", "closed", "joining", "storing", "leaving", "done", "adding",
          "greeting", "serving", "writing", "removing"}]
    BY <2>2
  <2>4. queue \in [Subscribers -> 0..Capacity]
    BY SMT
  <2>5. cast \in [Senders -> {None} \cup SUBSET Clients] /\ net \in [Clients -> {"off", "reading", "stuck", "gone"}]
    OBVIOUS
  <2> QED BY <2>1, <2>3, <2>4, <2>5 DEF TypeOK, LoopTypes
<1>2. LeftWhileSending /\ NoSendOnClosed
  BY DEF LeftWhileSending, NoSendOnClosed, Idle
<1>3. at["store"] = "joining" /\ at["close"] = "idle"
  BY DEF Senders
<1> QED BY <1>1, <1>2, <1>3 DEF FeedInv, StoreLeaves, StoreClosedLast

\* A loop that changes keeps the invariant if its type is right and what it has
\* left is subscribed, and nothing while it does not send.
LEMMA LoopChanges ==
  ASSUME FeedInv, NEW l \in Loops, NEW value \in LoopTypes,
         loop' = [loop EXCEPT ![l] = value],
         value.left \subseteq subs, value.at # "send" => value.left = {},
         UNCHANGED <<running, mu, subs, at, hub, cast, net>>,
         queue' \in [Subscribers -> 0..Capacity]
  PROVE  FeedInv'
<1>1. loop \in [Loops -> LoopTypes]
  BY DEF FeedInv, TypeOK, LoopTypes
<1>2. loop' \in [Loops -> LoopTypes]
  BY <1>1
<1>3. TypeOK'
  BY <1>2 DEF FeedInv, TypeOK, LoopTypes
<1>4. \A k1 \in Loops : loop'[k1] = IF k1 = l THEN value ELSE loop[k1]
  BY <1>1
<1>5. LeftWhileSending' /\ NoSendOnClosed'
  BY <1>4 DEF FeedInv, LeftWhileSending, NoSendOnClosed
<1>6. StoreLeaves' /\ StoreClosedLast'
  BY DEF FeedInv, StoreLeaves, StoreClosedLast
<1> QED BY <1>3, <1>5, <1>6 DEF FeedInv

\* The sweep loops
LEMMA LoopStep ==
  ASSUME FeedInv, NEW l \in Loops, LoopSteps(l)
  PROVE  FeedInv'
<1>1. /\ loop \in [Loops -> LoopTypes] /\ loop[l] \in LoopTypes
      /\ queue \in [Subscribers -> 0..Capacity] /\ subs \subseteq Subscribers
  BY DEF FeedInv, TypeOK, LoopTypes
<1>2. loop[l].left \subseteq subs /\ (loop[l].at # "send" => loop[l].left = {})
  BY DEF FeedInv, LeftWhileSending, NoSendOnClosed
<1>3. Idle \in LoopTypes /\ Idle.left = {} /\ Idle.at = "off"
  BY DEF Idle, LoopTypes
<1>4. CASE Sweep(l)
  <2>1. CASE loop' = [loop EXCEPT ![l].at = "locking"]
    <3> DEFINE value == [loop[l] EXCEPT !.at = "locking"]
    <3>1. value \in LoopTypes /\ value.left = {}
      BY <1>1, <1>2, <1>4 DEF LoopTypes, Sweep
    <3>2. loop' = [loop EXCEPT ![l] = value]
      BY <2>1
    <3> HIDE DEF value
    <3> QED BY <1>1, <1>4, <3>1, <3>2, LoopChanges DEF Sweep
  <2>2. CASE loop' = [loop EXCEPT ![l] = Idle]
    BY <1>1, <1>3, <1>4, <2>2, LoopChanges DEF Sweep
  <2> QED BY <1>4, <2>1, <2>2 DEF Sweep
<1>5. CASE BroadcastLocks(l)
  <2> DEFINE value == [loop[l] EXCEPT !.at = "send", !.left = subs]
  <2>1. value \in LoopTypes /\ value.left = subs /\ value.at = "send"
    BY <1>1 DEF LoopTypes
  <2>2. loop' = [loop EXCEPT ![l] = value]
    BY <1>1, <1>5 DEF BroadcastLocks
  <2> HIDE DEF value
  <2> QED BY <1>1, <1>5, <2>1, <2>2, LoopChanges DEF BroadcastLocks
<1>6. CASE BroadcastEnds(l)
  <2>1. CASE loop[l].cancelled
    BY <1>1, <1>3, <1>6, <2>1, LoopChanges DEF BroadcastEnds
  <2>2. CASE ~loop[l].cancelled
    <3> DEFINE value == [loop[l] EXCEPT !.at = "sweep"]
    <3>1. value \in LoopTypes /\ value.left = {}
      BY <1>1, <1>6 DEF LoopTypes, BroadcastEnds
    <3>2. loop' = [loop EXCEPT ![l] = value]
      BY <1>6, <2>2 DEF BroadcastEnds
    <3> HIDE DEF value
    <3> QED BY <1>1, <1>6, <3>1, <3>2, LoopChanges DEF BroadcastEnds
  <2> QED BY <2>1, <2>2
<1>7. ASSUME NEW s \in Subscribers, Send(l, s)
      PROVE  FeedInv'
  <2> DEFINE value == [loop[l] EXCEPT !.left = @ \ {s}]
  <2>1. value \in LoopTypes /\ value.left \subseteq subs /\ value.at = "send"
    BY <1>1, <1>2, <1>7 DEF LoopTypes, Send
  <2>2. loop' = [loop EXCEPT ![l] = value]
    BY <1>7 DEF Send
  <2>3. queue' \in [Subscribers -> 0..Capacity]
    BY <1>1, <1>7, Names DEF Send
  <2> HIDE DEF value
  <2> QED BY <1>7, <2>1, <2>2, <2>3, LoopChanges DEF Send
<1> QED BY <1>4, <1>5, <1>6, <1>7 DEF LoopSteps

\* The goroutine that stores
LEMMA StoreStep ==
  ASSUME FeedInv, Persistence
  PROVE  FeedInv'
<1> USE Names DEF FeedInv, TypeOK, LeftWhileSending, NoSendOnClosed, StoreLeaves, StoreClosedLast,
        Subscribers, Senders, Goes
<1>1. CASE Subscribe("store", "waiting")
  BY <1>1 DEF Subscribe
<1>2. CASE at["store"] = "waiting" /\ Receive("store", "storing")
  BY <1>2 DEF Receive
<1>3. CASE StoreReceived
  BY <1>3 DEF StoreReceived
<1>4. CASE StoreCancelled
  BY <1>4 DEF StoreCancelled
<1>5. CASE Unsubscribe("store", "done")
  BY <1>5 DEF Unsubscribe, SubscribersLocked
<1> QED BY <1>1, <1>2, <1>3, <1>4, <1>5 DEF Persistence

\* Broadcasts of status
LEMMA CastStep ==
  ASSUME FeedInv, NEW t \in Senders, CastSteps(t)
  PROVE  FeedInv'
<1> USE Names DEF FeedInv, TypeOK, LeftWhileSending, NoSendOnClosed, StoreLeaves, StoreClosedLast
<1>1. CASE CastBegins(t)
  BY <1>1 DEF CastBegins
<1>2. ASSUME NEW c \in Clients, CastTo(t, c)
      PROVE  FeedInv'
  BY <1>2 DEF CastTo
<1> QED BY <1>1, <1>2 DEF CastSteps

\* A handler that subscribes or unsubscribes leaves the types alone.
LEMMA MembershipTypes ==
  ASSUME TypeOK, NEW c \in Clients, NEW next \in {"greeting", "removing"},
         Goes(c, next), subs' \subseteq Subscribers, queue' = [queue EXCEPT ![c] = 0],
         UNCHANGED <<running, mu, loop, hub, cast, net>>
  PROVE  TypeOK'
<1>1. queue' \in [Subscribers -> 0..Capacity]
  <2>1. queue \in [Subscribers -> 0..Capacity]
    BY DEF TypeOK
  <2>2. 0 \in 0..Capacity
    BY Names
  <2> QED BY <2>1, <2>2, Zenon
<1> DEFINE Places == {"off", "idle", "starting", "stopping", "checking",
       "locking", "waiting", "closed", "joining", "storing", "leaving", "done", "adding",
       "greeting", "serving", "writing", "removing"}
<1>2. at \in [Senders \cup {"store"} -> Places]
  BY DEF TypeOK
<1>3. next \in Places
  OBVIOUS
<1> HIDE DEF Places
<1>4. at' \in [Senders \cup {"store"} -> Places]
  BY <1>2, <1>3, Zenon DEF Goes
<1> USE DEF Places
<1> QED BY <1>1, <1>4, Zenon DEF TypeOK

\* The handler of a client
LEMMA HandlerStep ==
  ASSUME FeedInv, NEW c \in Clients, Connect(c) \/ Handler(c) \/ ClientChanges(c)
  PROVE  FeedInv'
<1> USE Names DEF FeedInv, TypeOK, LeftWhileSending, NoSendOnClosed, StoreLeaves, StoreClosedLast,
        Subscribers, Senders, Goes
<1>1. CASE Connect(c)
  BY <1>1 DEF Connect
<1>2. CASE Add(c)
  BY <1>2 DEF Add
<1>3. CASE Subscribe(c, "greeting")
  <2>1. TypeOK'
    BY <1>3, MembershipTypes DEF Subscribe
  <2>2. (LeftWhileSending /\ NoSendOnClosed)'
    BY <1>3 DEF Subscribe
  <2>3. (StoreLeaves /\ StoreClosedLast)'
    BY <1>3 DEF Subscribe
  <2> QED BY <2>1, <2>2, <2>3
<1>4. CASE Greeted(c)
  BY <1>4 DEF Greeted, CastEnded
<1>5. CASE at[c] = "serving" /\ Receive(c, "writing")
  BY <1>5 DEF Receive
<1>6. CASE WriteScan(c)
  BY <1>6 DEF WriteScan
<1>7. CASE Unsubscribe(c, "removing")
  <2>1. TypeOK'
    BY <1>7, MembershipTypes DEF Unsubscribe
  <2>2. \A l \in Loops : loop[l].left = {}
    BY <1>7 DEF Unsubscribe, SubscribersLocked
  <2>3. (LeftWhileSending /\ NoSendOnClosed)'
    BY <1>7, <2>2 DEF Unsubscribe
  <2>4. (StoreLeaves /\ StoreClosedLast)'
    BY <1>7 DEF Unsubscribe
  <2> QED BY <2>1, <2>3, <2>4
<1>8. CASE Remove(c)
  BY <1>8 DEF Remove
<1>9. CASE ClientChanges(c)
  BY <1>9 DEF ClientChanges
<1> QED BY <1>1, <1>2, <1>3, <1>4, <1>5, <1>6, <1>7, <1>8, <1>9 DEF Handler

\* Engine.Start and Engine.Stop
LEMMA StopLocksKeeps ==
  ASSUME FeedInv, NEW t \in {"mqtt", "close"}, StopLocks(t)
  PROVE  FeedInv'
<1> USE Names DEF FeedInv, TypeOK, LeftWhileSending, NoSendOnClosed, StoreLeaves, StoreClosedLast,
        Senders, Goes, StopLocks, Idle
<1>1. \A l \in Loops : /\ loop'[l].at = loop[l].at /\ loop'[l].left = loop[l].left
                       /\ loop'[l] \in LoopTypes
  <2> TAKE l \in Loops
  <2>1. loop[l] \in LoopTypes
    BY DEF LoopTypes
  <2>2. loop'[l] = IF loop[l] = Idle THEN Idle ELSE [loop[l] EXCEPT !.cancelled = TRUE]
    BY Zenon
  <2> QED BY <2>1, <2>2 DEF LoopTypes
<1>2. TypeOK'
  <2>1. loop' \in [Loops -> LoopTypes]
    BY <1>1
  <2> QED BY <2>1 DEF LoopTypes
<1>3. LeftWhileSending' /\ NoSendOnClosed'
  BY <1>1
<1>4. StoreLeaves' /\ StoreClosedLast'
  OBVIOUS
<1> QED BY <1>2, <1>3, <1>4

LEMMA StopEndsKeeps ==
  ASSUME FeedInv, NEW t \in {"mqtt", "close"}, NEW next \in {"idle", "waiting"}, StopEnds(t, next)
  PROVE  FeedInv'
BY Names DEF FeedInv, TypeOK, LeftWhileSending, NoSendOnClosed, StoreLeaves, StoreClosedLast,
   Senders, Goes, StopEnds, CastEnded

LEMMA CommandStep ==
  ASSUME FeedInv, HandleStart \/ HandleStop \/ Commands
  PROVE  FeedInv'
<1> USE Names DEF FeedInv, TypeOK, LeftWhileSending, NoSendOnClosed, StoreLeaves, StoreClosedLast,
        Senders, Goes
<1>1. CASE HandleStart
  BY <1>1 DEF HandleStart
<1>2. CASE HandleStop
  BY <1>2, StopLocksKeeps DEF HandleStop
<1>3. CASE StartEnds
  <2>1. PICK l \in Loops : loop' = [loop EXCEPT ![l] = [at |-> "sweep", left |-> {}, cancelled |-> ~running]]
    BY <1>3 DEF StartEnds
  <2> DEFINE stopped == ~running
             value == [at |-> "sweep", left |-> {}, cancelled |-> stopped]
  <2>2. stopped \in BOOLEAN
    OBVIOUS
  <2>3. loop' = [loop EXCEPT ![l] = value]
    BY <2>1
  <2> HIDE DEF stopped
  <2>4. value \in LoopTypes /\ value.left = {}
    BY <2>2 DEF LoopTypes
  <2> HIDE DEF value
  <2>5. loop' \in [Loops -> LoopTypes] /\ \A i \in Loops : loop'[i] = IF i = l THEN value ELSE loop[i]
    BY <2>3, <2>4 DEF LoopTypes
  <2>6. TypeOK'
    BY <1>3, <2>5 DEF StartEnds, CastEnded, LoopTypes
  <2>7. (LeftWhileSending /\ NoSendOnClosed)'
    BY <1>3, <2>4, <2>5 DEF StartEnds
  <2>8. (StoreLeaves /\ StoreClosedLast)'
    BY <1>3 DEF StartEnds
  <2> QED BY <2>6, <2>7, <2>8
<1>4. CASE StopEnds("mqtt", "idle")
  BY <1>4, StopEndsKeeps
<1> QED BY <1>1, <1>2, <1>3, <1>4 DEF Commands

\* Runner.Close
LEMMA CloseStepKeeps ==
  ASSUME FeedInv, NEW from, NEW next \in {"checking", "locking", "waiting"}, CloseStep(from, next)
  PROVE  FeedInv'
BY Names DEF FeedInv, TypeOK, LeftWhileSending, NoSendOnClosed, StoreLeaves, StoreClosedLast,
   Senders, Goes, CloseStep

LEMMA ClosingStep ==
  ASSUME FeedInv, Close \/ Closes
  PROVE  FeedInv'
<1>1. CASE Close
  BY <1>1, CloseStepKeeps DEF Close
<1>2. CASE CloseChecks
  BY <1>2, CloseStepKeeps DEF CloseChecks
<1>3. CASE CloseStops
  BY <1>3, CloseStepKeeps, StopLocksKeeps, StopEndsKeeps DEF CloseStops
<1>4. CASE CloseWaits
  BY <1>4, Names DEF CloseWaits, CloseStep, Goes, FeedInv, TypeOK, LeftWhileSending, NoSendOnClosed,
     StoreLeaves, StoreClosedLast, Senders
<1> QED BY <1>1, <1>2, <1>3, <1>4 DEF Closes

LEMMA FeedStutter == ASSUME FeedInv, UNCHANGED vars PROVE FeedInv'
BY DEF vars, FeedInv, TypeOK, LeftWhileSending, NoSendOnClosed, StoreLeaves, StoreClosedLast

\* The invariant of every behaviour.
THEOREM FeedInvariance == Spec => []FeedInv
<1>1. FeedInv /\ [Next]_vars => FeedInv'
  BY LoopStep, StoreStep, CastStep, HandlerStep, CommandStep, ClosingStep, FeedStutter DEF Next
<1> QED BY FeedInit, <1>1, PTL DEF Spec

\* Channels hold no more than they can, and everybody is at a place there is.
THEOREM Types == Spec => []TypeOK
<1>1. FeedInv => TypeOK
  BY DEF FeedInv
<1> QED BY FeedInvariance, <1>1, PTL

\* Unsubscribe closes no channel a broadcast still has to send to.
THEOREM NoPanic == Spec => []NoSendOnClosed
<1>1. FeedInv => NoSendOnClosed
  BY DEF FeedInv
<1> QED BY FeedInvariance, <1>1, PTL

\* Close closes the store after the goroutine that stores has ended.
THEOREM StoreLast == Spec => []StoreClosedLast
<1>1. FeedInv => StoreClosedLast
  BY DEF FeedInv
<1> QED BY FeedInvariance, <1>1, PTL

-----------------------------------------------------------------------------
(* ScanStore: the least of a set of numbers, which GROUP BY picks          *)

LEMMA LeastExists ==
  ASSUME NEW S, S \subseteq Nat, S # {}
  PROVE  \E m \in S : \A n \in S : m <= n
  <1>. DEFINE R == OpToRel(<, Nat)
  <1>1. IsWellFoundedOn(R, Nat)
    BY NatLessThanWellFounded
  <1>2. \A x, y \in Nat : <<x, y>> \in R <=> x < y
    BY DEF OpToRel
  <1>. HIDE DEF R
  <1>3. PICK m \in S : \A n \in S : <<n, m>> \notin R
    BY <1>1, WFMin
  <1>4. ASSUME NEW n \in S PROVE m <= n
    <2>1. n \in Nat /\ m \in Nat /\ ~(n < m)
      BY <1>2, <1>3
    <2>. QED  BY <2>1
  <1>. QED  BY <1>4

-----------------------------------------------------------------------------
(* The inductive invariant                                                 *)

Row == [id : 1..ids, band : Bands, timestamp : 0..now]

Table ==
  /\ scans \subseteq Row
  /\ \A r, s \in scans : r.id = s.id => r = s
  /\ ids \in 0..MaxScans

\* The ticker fires a period after the start of the process or the last
\* clean-up, and after a clean-up nothing is left that was too old then.
Ticking ==
  /\ now \in 0..MaxTime /\ since \in 0..now \cup {Down} /\ ticker \in 0..MaxTime + Period
  /\ since # Down =>
       /\ now <= ticker /\ ticker <= now + Period /\ since + Period <= ticker
       /\ ticker > since + Period =>
            \A r \in scans : r.timestamp >= ticker - Period - Retention

StoreInv == Table /\ Ticking

USE ScanStoreAssumption

LEMMA Stored ==
  ASSUME StoreInv, NEW r \in scans
  PROVE  r.id \in 1..ids /\ r.band \in Bands /\ r.timestamp \in 0..now
  BY DEF StoreInv, Table, Row

LEMMA StoreInitInv == StoreInit => StoreInv
  BY DEF StoreInit, StoreInv, Table, Ticking, Row

LEMMA StoreNextInv == StoreInv /\ [StoreNext]_storeVars => StoreInv'
  <1>. SUFFICES ASSUME StoreInv, [StoreNext]_storeVars
                PROVE  StoreInv'
    OBVIOUS
  <1>1. /\ now \in Nat /\ ids \in Nat /\ ticker \in Nat /\ ids <= MaxScans /\ now <= MaxTime
        /\ since # Down => since \in Nat /\ since <= now
        /\ Period \in Nat /\ Retention \in Nat /\ MaxScans \in Nat /\ MaxTime \in Nat
        /\ \A r \in scans : r.id \in 1..ids /\ r.band \in Bands /\ r.timestamp \in 0..now
    BY Stored DEF StoreInv, Table, Ticking
  <1>2. ASSUME NEW b \in Bands, StoreScan(b) PROVE StoreInv'
    <2>. DEFINE new == [id |-> ids + 1, band |-> b, timestamp |-> now]
    <2>1. /\ since # Down /\ ids < MaxScans /\ ids' = ids + 1 /\ scans' = scans \cup {new}
          /\ since' = since /\ ticker' = ticker /\ now' = now
      BY <1>2 DEF StoreScan, NewId
    <2>2. new.id = ids + 1 /\ new.timestamp = now /\ new \in [id : 1..ids', band : Bands, timestamp : 0..now]
      BY <1>1, <2>1
    <2>. HIDE DEF new
    <2>3. scans \subseteq [id : 1..ids', band : Bands, timestamp : 0..now]
      BY <1>1, <2>1 DEF StoreInv, Table, Row
    <2>4. \A r \in scans : r.id # new.id
      BY <1>1, <2>2
    <2>5. Table'
      <3>1. ids' \in 0..MaxScans
        BY <1>1, <2>1
      <3>. QED  BY <2>1, <2>2, <2>3, <2>4, <3>1 DEF StoreInv, Table, Row
    <2>6. Ticking'
      <3>1. ticker > since + Period => \A r \in scans \cup {new} : r.timestamp >= ticker - Period - Retention
        BY <1>1, <2>1, <2>2 DEF StoreInv, Ticking
      <3>. QED  BY <2>1, <3>1 DEF StoreInv, Ticking
    <2>. QED  BY <2>5, <2>6 DEF StoreInv
  <1>3. CASE Cleanup
    <2>1. /\ since # Down /\ ticker = now /\ scans' = {r \in scans : Kept(r)} /\ ticker' = now + Period
          /\ ids' = ids /\ since' = since /\ now' = now
      BY <1>3 DEF Cleanup
    <2>2. Table'
      BY <2>1 DEF StoreInv, Table, Row
    <2>3. \A r \in scans' : r.timestamp >= ticker' - Period - Retention
      BY <1>1, <2>1 DEF Kept
    <2>4. ticker' \in 0..MaxTime + Period /\ now <= ticker' /\ since + Period <= ticker'
      BY <1>1, <2>1
    <2>5. Ticking'
      BY <1>1, <2>1, <2>3, <2>4 DEF StoreInv, Ticking
    <2>. QED  BY <2>2, <2>5 DEF StoreInv
  <1>4. CASE Start
    <2>1. /\ since' = now /\ ticker' = now + Period /\ scans' = scans /\ ids' = ids /\ now' = now
      BY <1>4 DEF Start
    <2>2. now \in 0..now /\ now + Period \in 0..MaxTime + Period /\ now <= now + Period
      BY <1>1
    <2>. QED  BY <1>1, <2>1, <2>2 DEF StoreInv, Table, Ticking, Row
  <1>5. CASE Stop
    BY <1>5 DEF Stop, StoreInv, Table, Ticking, Row
  <1>6. CASE Tick
    <2>1. /\ now < MaxTime /\ (since # Down => ticker # now) /\ now' = now + 1
          /\ scans' = scans /\ ids' = ids /\ since' = since /\ ticker' = ticker
      BY <1>6 DEF Tick
    <2>2. 0..now \subseteq 0..now' /\ now' \in 0..MaxTime
      BY <1>1, <2>1
    <2>3. Table'
      BY <2>1, <2>2 DEF StoreInv, Table, Row
    <2>4. since # Down => now + 1 <= ticker /\ ticker <= now + 1 + Period
      BY <1>1, <2>1 DEF StoreInv, Ticking
    <2>5. Ticking'
      BY <2>1, <2>2, <2>4 DEF StoreInv, Ticking
    <2>. QED  BY <2>3, <2>5 DEF StoreInv
  <1>7. CASE UNCHANGED storeVars
    BY <1>7 DEF storeVars, StoreInv, Table, Ticking, Row
  <1>. QED  BY <1>2, <1>3, <1>4, <1>5, <1>6, <1>7 DEF StoreNext

\* The table's ids are unique and its times past, and the ticker of a running
\* process never lies in the past.
THEOREM StoreInvariance == StoreSpec => []StoreInv
  BY StoreInitInv, StoreNextInv, PTL DEF StoreSpec

\* runCleanupLoop's clean-ups come often enough that a process that has been
\* up for a period holds no scan past the retention by more than a period,
\* even one that other processes stored.
THEOREM OldIsGone == StoreSpec => []OldGone
  <1>1. ASSUME StoreInv PROVE OldGone
    <2>1. StoreTypeOK
      BY <1>1 DEF StoreInv, Table, Ticking, Row, StoreTypeOK
    <2>2. ASSUME since # Down, now > since + Period, NEW r \in scans
          PROVE  r.timestamp >= now - Retention - Period
      <3>1. r.timestamp \in 0..now /\ since \in Nat /\ now \in Nat /\ ticker \in Nat
        BY <1>1, <2>2, Stored DEF StoreInv, Ticking
      <3>2. now <= ticker /\ (ticker > since + Period => r.timestamp >= ticker - Period - Retention)
        BY <1>1, <2>2 DEF StoreInv, Ticking
      <3>. QED  BY <2>2, <3>1, <3>2
    <2>. QED  BY <2>1, <2>2 DEF OldGone
  <1>. QED  BY <1>1, StoreInvariance, PTL

-----------------------------------------------------------------------------
(* Previews                                                                *)

SameMinute(t, u) == t \div Minute = u \div Minute

\* The query of a preview, a join with the least id of every minute, gives
\* each minute that the timeline has an entry of exactly one scan.
THEOREM PreviewsCover == StoreSpec => []PreviewCovers
  <1>1. ASSUME StoreInv, NEW b \in Bands, NEW e \in GetTimeline(b)
        PROVE  Cardinality({p \in GetDecimatedScans(b) :
                 p.timestamp \div Minute = e.timestamp \div Minute}) = 1
    <2>. DEFINE Mates == {t \in Within(b) : SameMinute(t.timestamp, e.timestamp)}
                Shown == {p \in GetDecimatedScans(b) : SameMinute(p.timestamp, e.timestamp)}
    <2>1. Within(b) \subseteq scans /\ \A r \in scans : r.id \in Nat
      BY <1>1, Stored DEF Within
    <2>2. PICK r \in Within(b) : e.timestamp = r.timestamp
      BY DEF GetTimeline
    <2>3. {t.id : t \in Mates} \subseteq Nat /\ {t.id : t \in Mates} # {}
      BY <2>1, <2>2 DEF SameMinute
    <2>4. PICK m \in {t.id : t \in Mates} : \A n \in {t.id : t \in Mates} : m <= n
      BY <2>3, LeastExists
    <2>5. PICK p \in Mates : p.id = m
      BY <2>4
    <2>6. p \in Shown
      <3>1. p \in Within(b) /\ SameMinute(p.timestamp, e.timestamp)
        BY <2>5
      <3>2. \A t \in Within(b) : SameMinute(t.timestamp, p.timestamp) => p.id <= t.id
        BY <2>4, <2>5, <3>1 DEF SameMinute
      <3>3. p.id \in First(b)
        BY <3>1, <3>2 DEF First, SameMinute
      <3>. QED  BY <3>1, <3>3 DEF GetDecimatedScans
    <2>7. ASSUME NEW q \in Shown PROVE q = p
      <3>1. q \in Within(b) /\ q.id \in First(b) /\ SameMinute(q.timestamp, e.timestamp)
        BY DEF GetDecimatedScans
      <3>2. PICK s \in Within(b) : /\ s.id = q.id
                                   /\ \A t \in Within(b) : SameMinute(t.timestamp, s.timestamp) => s.id <= t.id
        BY <3>1 DEF First, SameMinute
      <3>3. s = q
        BY <1>1, <2>1, <3>1, <3>2 DEF StoreInv, Table
      <3>4. q.id <= p.id
        BY <2>5, <3>1, <3>2, <3>3 DEF SameMinute
      <3>5. p.id <= q.id
        BY <2>4, <2>5, <3>1
      <3>6. p.id = q.id
        BY <2>1, <2>5, <3>1, <3>4, <3>5
      <3>. QED  BY <1>1, <2>1, <2>5, <3>1, <3>6 DEF StoreInv, Table
    <2>8. Shown = {p}
      BY <2>6, <2>7
    <2>9. Cardinality(Shown) = 1
      BY <2>8, FS_Singleton
    <2>. QED  BY <2>9 DEF SameMinute
  <1>2. StoreInv => PreviewCovers
    BY <1>1 DEF PreviewCovers
  <1>. QED  BY <1>2, StoreInvariance, PTL

-----------------------------------------------------------------------------
(* Points of a preview                                                     *)

LEMMA DivFacts ==
  ASSUME NEW a \in Nat, NEW d \in Nat, 0 < d
  PROVE  /\ a \div d \in Nat
         /\ d * (a \div d) <= a /\ a < d * ((a \div d) + 1)
         /\ a % d = 0 => a = d * (a \div d)
  OBVIOUS

\* Two products of a positive number are ordered as their other factors are.
LEMMA FactorLess ==
  ASSUME NEW a \in Int, NEW b \in Int, NEW d \in Nat, 0 < d, d * a < d * b
  PROVE  a < b
  <1>. SUFFICES ASSUME b <= a PROVE FALSE
    OBVIOUS
  <1>1. PICK c \in Nat : a = b + c
    <2>1. a - b \in Nat /\ a = b + (a - b)
      OBVIOUS
    <2>. QED  BY <2>1
  <1>2. d * a = d * b + d * c
    BY <1>1
  <1>3. d * c \in Nat /\ d * b \in Int
    OBVIOUS
  <1>. QED  BY <1>2, <1>3

\* A bound of a bin is the whole part of its product or, when that is exact,
\* at worst the number below.
LEMMA ProductNear ==
  ASSUME NEW n \in Nat, NEW i \in Nat, 0 < n
  PROVE  /\ Product(n, i) \in Nat
         /\ Target * Product(n, i) <= i * n
         /\ \/ i * n < Target * (Product(n, i) + 1)
            \/ i > 0 /\ i * n = Target * (Product(n, i) + 1)
  <1>. DEFINE q == (i * n) \div Target
  <1>1. Target \in Nat /\ 0 < Target /\ i * n \in Nat
    BY DecimationAssumption
  <1>2. /\ q \in Nat /\ Target * q <= i * n /\ i * n < Target * (q + 1)
        /\ (i * n) % Target = 0 => i * n = Target * q
    BY <1>1, DivFacts
  <1>3. \/ Product(n, i) = q
        \/ Product(n, i) = q - 1 /\ i > 0 /\ (i * n) % Target = 0
    BY DEF Product
  <1>. HIDE DEF q
  <1>4. CASE Product(n, i) = q
    BY <1>2, <1>4
  <1>5. CASE Product(n, i) = q - 1 /\ i > 0 /\ (i * n) % Target = 0
    <2>1. i * n = Target * q
      BY <1>2, <1>5
    <2>2. i * n > 0
      BY <1>5
    <2>3. q > 0
      BY <1>1, <1>2, <2>1, <2>2
    <2>4. Target * (q - 1) <= Target * q
      <3>1. Target * (q - 1) = Target * q - Target
        BY <1>1, <1>2
      <3>. QED  BY <1>1, <1>2, <3>1
    <2>5. q - 1 \in Nat /\ (q - 1) + 1 = q
      BY <1>2, <2>3
    <2>. QED  BY <1>5, <2>1, <2>4, <2>5
  <1>. QED  BY <1>3, <1>4, <1>5

\* Longer than Target, no two bins begin at the same place.
LEMMA ProductGrows ==
  ASSUME NEW n \in Nat, Target < n, NEW i \in Nat
  PROVE  Product(n, i) < Product(n, i + 1)
  <1>. DEFINE a == Product(n, i)
              b == Product(n, i + 1)
  <1>1. Target \in Nat /\ 0 < Target /\ 0 < n /\ i + 1 \in Nat
    BY DecimationAssumption
  <1>2. a \in Nat /\ Target * a <= i * n
    BY <1>1, ProductNear
  <1>3. b \in Nat /\ (i + 1) * n <= Target * (b + 1)
    <2>1. /\ b \in Nat
          /\ (i + 1) * n < Target * (b + 1) \/ (i + 1) * n = Target * (b + 1)
      BY <1>1, ProductNear
    <2>2. (i + 1) * n \in Nat /\ Target * (b + 1) \in Nat
      BY <1>1, <2>1
    <2>. QED  BY <2>1, <2>2
  <1>. HIDE DEF a, b
  <1>4. (i + 1) * n = i * n + n
    OBVIOUS
  <1>5. Target * (a + 1) = Target * a + Target
    BY <1>1, <1>2
  <1>6. Target * (a + 1) < Target * (b + 1)
    <2>1. Target * a \in Nat /\ Target * (b + 1) \in Nat /\ i * n \in Nat
      BY <1>1, <1>2, <1>3
    <2>. QED  BY <1>1, <1>2, <1>3, <1>4, <1>5, <2>1
  <1>7. a + 1 < b + 1
    BY <1>1, <1>2, <1>3, <1>6, FactorLess
  <1>8. a < b
    BY <1>2, <1>3, <1>7
  <1>. QED  BY <1>8 DEF a, b

LEMMA ProductEnds ==
  ASSUME NEW n \in Nat, Target < n
  PROVE  Product(n, 0) = 0 /\ Product(n, Target) \in {n - 1, n}
  <1>1. Target \in Nat /\ 0 < Target /\ 0 < n
    BY DecimationAssumption
  <1>2. Product(n, 0) = 0
    <2>1. Product(n, 0) \in Nat /\ Target * Product(n, 0) <= 0 * n
      BY <1>1, ProductNear
    <2>2. PICK a \in Nat : a = Product(n, 0)
      BY <2>1
    <2>3. ~(0 < a)
      <3>1. SUFFICES ASSUME 0 < a PROVE FALSE
        OBVIOUS
      <3>2. Target * a > 0
        BY <1>1, <3>1
      <3>3. 0 * n = 0
        OBVIOUS
      <3>. QED  BY <1>1, <2>1, <2>2, <3>2, <3>3
    <2>. QED  BY <2>2, <2>3
  <1>3. Product(n, Target) \in {n - 1, n}
    <2>1. PICK a \in Nat : a = Product(n, Target)
      BY <1>1, ProductNear
    <2>2. /\ Target * a <= Target * n
          /\ Target * n <= Target * (a + 1)
      <3>1. /\ Target * a <= Target * n
            /\ Target * n < Target * (a + 1) \/ Target * n = Target * (a + 1)
        BY <1>1, <2>1, ProductNear
      <3>2. Target * n \in Nat /\ Target * (a + 1) \in Nat
        BY <1>1
      <3>. QED  BY <3>1, <3>2
    <2>3. a < n + 1
      <3>1. Target * (n + 1) = Target * n + Target /\ Target * n \in Nat /\ Target * a \in Nat
        BY <1>1
      <3>2. Target * a < Target * (n + 1)
        BY <1>1, <2>2, <3>1
      <3>. QED  BY <1>1, <3>2, FactorLess
    <2>4. n < a + 2
      <3>1. Target * (a + 2) = Target * (a + 1) + Target /\ Target * (a + 1) \in Nat /\ Target * n \in Nat
        BY <1>1
      <3>2. Target * n < Target * (a + 2)
        BY <1>1, <2>2, <3>1
      <3>. QED  BY <1>1, <3>2, FactorLess
    <2>. QED  BY <2>1, <2>3, <2>4
  <1>. QED  BY <1>2, <1>3

\* Max-pooling loses no sample but at most the last of a scan of any length,
\* whichever way the floating-point products of its bounds are rounded.
LEMMA BinsKeep == BinsKeepSamples
  <1>. SUFFICES ASSUME NEW n \in Target + 1..MaxLength
                PROVE  /\ \A i \in 0..Target - 1 : Bin(n, i) # {}
                       /\ \A i \in 1..Target - 1 : Bin(n, i) \cap Bin(n, i - 1) = {}
                       /\ 0..n - 2 \subseteq UNION {Bin(n, i) : i \in 0..Target - 1}
    BY DEF BinsKeepSamples
  <1>1. Target \in Nat /\ 0 < Target /\ n \in Nat /\ Target < n /\ 0 < n
    BY DecimationAssumption
  <1>2. \A i \in Nat : Product(n, i) \in Nat
    BY <1>1, ProductNear
  <1>3. \A i \in Nat : Product(n, i) < Product(n, i + 1)
    BY <1>1, ProductGrows
  <1>4. ASSUME NEW i \in 0..Target - 1
        PROVE  Product(n, i) < n
    <2>1. PICK a \in Nat : a = Product(n, i)
      BY <1>2
    <2>2. Target * a <= i * n
      BY <1>1, <2>1, ProductNear
    <2>3. i * n < Target * n
      <3>1. PICK c \in Nat : c > 0 /\ Target = i + c
        <4>1. Target - i \in Nat /\ Target - i > 0 /\ Target = i + (Target - i)
          BY <1>1
        <4>. QED  BY <4>1
      <3>2. Target * n = i * n + c * n
        BY <1>1, <3>1
      <3>3. c * n > 0 /\ c * n \in Nat /\ i * n \in Nat
        BY <1>1, <3>1
      <3>. QED  BY <3>2, <3>3
    <2>4. Target * a < Target * n
      <3>1. Target * a \in Nat /\ i * n \in Nat /\ Target * n \in Nat
        BY <1>1
      <3>. QED  BY <2>2, <2>3, <3>1
    <2>. QED  BY <1>1, <2>1, <2>4, FactorLess
  <1>5. ASSUME NEW i \in 0..Target - 1
        PROVE  Bin(n, i) # {}
    <2>1. Product(n, i) \in Nat /\ Product(n, i + 1) \in Nat /\ Product(n, i) < Product(n, i + 1)
      BY <1>1, <1>2, <1>3
    <2>2. Product(n, i) \in Bin(n, i)
      BY <1>1, <1>4, <2>1 DEF Bin, Least
    <2>. QED  BY <2>2
  <1>6. ASSUME NEW i \in 1..Target - 1
        PROVE  Bin(n, i) \cap Bin(n, i - 1) = {}
    <2>1. i - 1 \in Nat /\ i \in Nat /\ (i - 1) + 1 = i
      BY <1>1
    <2>2. Product(n, i) \in Nat /\ Product(n, i - 1) \in Nat /\ Product(n, i + 1) \in Nat
      BY <1>1, <1>2, <2>1
    <2>3. \A x \in Bin(n, i) : x \in Int /\ Product(n, i) <= x
      BY <1>1, <2>2 DEF Bin
    <2>4. \A x \in Bin(n, i - 1) : x \in Int /\ x < Product(n, i)
      BY <1>1, <2>1, <2>2 DEF Bin, Least
    <2>5. ASSUME NEW x \in Bin(n, i), x \in Bin(n, i - 1) PROVE FALSE
      BY <2>2, <2>3, <2>4, <2>5
    <2>. QED  BY <2>5
  <1>7. ASSUME NEW x \in 0..n - 2
        PROVE  \E i \in 0..Target - 1 : x \in Bin(n, i)
    <2>. DEFINE S == {i \in Nat : x < Product(n, i)}
    <2>1. x \in Nat /\ x < n - 1
      BY <1>1
    <2>2. Target \in S
      <3>1. Product(n, Target) \in {n - 1, n}
        BY <1>1, ProductEnds
      <3>. QED  BY <1>1, <2>1, <3>1
    <2>3. PICK m \in S : \A j \in S : m <= j
      <3>1. S \subseteq Nat /\ S # {}
        BY <2>2
      <3>. QED  BY <3>1, LeastExists
    <2>4. m \in Nat /\ m <= Target /\ x < Product(n, m)
      BY <2>2, <2>3
    <2>5. m # 0
      <3>1. Product(n, 0) = 0
        BY <1>1, ProductEnds
      <3>. QED  BY <2>1, <2>4, <3>1
    <2>6. m - 1 \in 0..Target - 1 /\ m - 1 \in Nat /\ (m - 1) + 1 = m
      BY <1>1, <2>4, <2>5
    <2>7. Product(n, m - 1) \in Nat /\ Product(n, m) \in Nat
      BY <1>2, <2>4, <2>6
    <2>8. Product(n, m - 1) <= x
      <3>1. m - 1 \notin S
        BY <2>3, <2>4, <2>6
      <3>. QED  BY <2>1, <2>6, <2>7, <3>1
    <2>9. x \in Bin(n, m - 1)
      BY <1>1, <2>1, <2>4, <2>6, <2>7, <2>8 DEF Bin, Least
    <2>. QED  BY <2>6, <2>9
  <1>8. 0..n - 2 \subseteq UNION {Bin(n, i) : i \in 0..Target - 1}
    BY <1>7
  <1>. QED  BY <1>5, <1>6, <1>8

\* The points of the previews that the page shows stand for every sample of
\* their scans but at most the last, for any number of points and any length.
THEOREM PreviewsKeepSamples == StoreSpec => []SamplesKept
  <1>1. SamplesKept
    BY BinsKeep DEF SamplesKept
  <1>. QED  BY <1>1, PTL
=============================================================================
