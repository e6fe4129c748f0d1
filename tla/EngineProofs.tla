---------------------------- MODULE EngineProofs ----------------------------
(***************************************************************************)
(* Theorems about Engine, for any goroutines, bands, band lists and number *)
(* of Starts.  The argument is the inductive invariant IInv of Engine: its *)
(* type part and its control part are proved one action at a time, and the *)
(* safety properties and the implementation of SweepSessions follow.       *)
(***************************************************************************)
EXTENDS Engine, TLAPS

\* The prover's view of the next-state relation: one disjunct per action
LEMMA NextCases ==
  ASSUME Next
  PROVE  \/ \E c \in Callers : \/ ApiStart(c) \/ StartLocked(c) \/ StartRunning(c)
                               \/ StartStatus(c) \/ StartNotify(c) \/ ApiStarted(c)
                               \/ ApiStop(c) \/ StopLocked(c) \/ StopNotRunning(c)
                               \/ StopStatus(c) \/ StopNotify(c) \/ ApiStopped(c)
         \/ \E l \in Loops : \/ LoopTop(l) \/ LoopNext(l) \/ LoopBand(l) \/ LoopStatus(l)
                             \/ LoopConfigure(l) \/ SweepBegin(l) \/ SweepTune(l)
                             \/ SweepCollect(l) \/ SweepFails(l) \/ LoopBroadcast(l)
                             \/ LoopExit(l)
         \/ ReplaceBands \/ LinkLost \/ LinkUp \/ SendKept \/ OnConnectStatus
  BY DEF Next, StartStep, StopStep, LoopStep, SweepStep

\* Facts about band lists, the only sequences of the model.
LEMMA BandListFacts ==
  /\ <<>> \in BandList
  /\ Configs \subseteq BandList
  /\ \A todo \in BandList :
       todo # <<>> => /\ Head(todo).name \in Bands
                      /\ Tail(todo) \in BandList
<1> DEFINE R == [name : Bands, enabled : BOOLEAN]
<1>1. \A band \in R : band.name \in Bands
  OBVIOUS
<1> HIDE DEF R
<1>2. ASSUME NEW todo \in Seq(R), todo # <<>>
      PROVE  Head(todo).name \in Bands /\ Tail(todo) \in Seq(R)
  BY <1>1, <1>2
<1>3. <<>> \in Seq(R)
  OBVIOUS
<1>4. BandList = Seq(R) /\ Configs \subseteq Seq(R)
  BY ConfigsAssumption DEF BandList, R
<1> QED
  BY <1>2, <1>3, <1>4

\* The initial states satisfy the inductive invariant.
LEMMA InitIInv == Init => IInv
<1> SUFFICES ASSUME Init PROVE IInv
  OBVIOUS
<1> USE BoundsAssumption
<1>1. TypeOK
  <2>1. CallerOK
    BY DEF Init, CallerOK, CallerPc
  <2>2. <<>> \in BandList
    BY DEF BandList
  <2>3. LoopOK /\ LocalsOK
    BY <2>2 DEF Init, LoopOK, LoopPc, LocalsOK, IdleLoop
  <2>4. ControlOK /\ RadioOK
    BY DEF Init, ControlOK, RadioOK
  <2>5. FlagsOK
    BY Zenon DEF Init, FlagsOK
  <2>6. StatusOK
    BY DEF Init, StatusOK, StatusMessage, Status
  <2> QED
    BY <2>1, <2>3, <2>4, <2>5, <2>6 DEF TypeOK
<1>2. OneLiveLoop
  BY DEF Init, OneLiveLoop
<1>3. LoopLifetime
  BY DEF Init, LoopLifetime, IdleLoop, LoopAt
<1>4. CallerCtx /\ LateInv /\ BandInv
  BY DEF Init, CallerCtx, LateInv, BandInv
<1> QED
  BY <1>1, <1>2, <1>3, <1>4 DEF IInv

\* Publishing a status keeps the status topic and the outbox well typed.
LEMMA PublishKeeps ==
  ASSUME StatusOK, NEW scanning \in BOOLEAN, NEW band \in Bands \cup {None},
         PublishStatus(TRUE, scanning, band), losses' = losses
  PROVE  StatusOK'
<1> DEFINE message == Status(TRUE, scanning, band)
<1>1. message \in StatusMessage
  BY DEF Status, StatusMessage
<1>2. \/ retained' = message /\ outbox' = outbox
      \/ retained' = retained /\ (outbox' = outbox \cup {message} \/ outbox' = outbox)
  BY DEF PublishStatus
<1> HIDE DEF message
<1> QED
  BY <1>1, <1>2 DEF StatusOK

\* What one step of the loop over the bands of a pass does to the loops.
LEMMA LoopNextMoves ==
  ASSUME TypeOK, NEW l \in Loops, LoopNext(l)
  PROVE  /\ LoopOK' /\ LocalsOK'
         /\ \A k \in Loops \ {l} : loop'[k] = loop[k]
         /\ loop'[l].pc \in {"top", "exit", "next", "band"}
         /\ loop'[l].pc = "exit" => l \in ctxDone
         /\ loop'[l].pc = "band" => l \notin ctxDone
<1> USE DEF TypeOK
<1> DEFINE todo == loop[l].todo
<1> DEFINE Moves == /\ LoopOK' /\ LocalsOK'
                    /\ \A k \in Loops \ {l} : loop'[k] = loop[k]
                    /\ loop'[l].pc \in {"top", "exit", "next", "band"}
                    /\ loop'[l].pc = "exit" => l \in ctxDone
                    /\ loop'[l].pc = "band" => l \notin ctxDone
<1>1. todo \in BandList
  BY DEF LoopOK
<1>2. todo # <<>> => Head(todo).name \in Bands /\ Tail(todo) \in BandList
  BY <1>1, BandListFacts
<1>3. \/ LoopTo(l, "top") \/ (LoopTo(l, "exit") /\ l \in ctxDone)
      \/ /\ todo # <<>>
         /\ \/ loop' = [loop EXCEPT ![l] = [@ EXCEPT !.todo = Tail(todo)]]
            \/ loop' = [loop EXCEPT ![l] =
                 [@ EXCEPT !.pc = "band", !.band = Head(todo).name, !.todo = Tail(todo)]]
         /\ l \notin ctxDone
  BY DEF LoopNext, Cancelled
<1>4. loop[l].pc = "next" /\ UNCHANGED <<hw, tuned>>
  BY DEF LoopNext, LoopAt, radioVars
<1> HIDE DEF todo
<1>5. ASSUME LoopTo(l, "top") \/ (LoopTo(l, "exit") /\ l \in ctxDone)
      PROVE  Moves
  BY <1>4, <1>5 DEF LoopTo, LoopOK, LoopPc, LocalsOK
<1>6. ASSUME todo # <<>>, loop' = [loop EXCEPT ![l] = [@ EXCEPT !.todo = Tail(todo)]]
      PROVE  Moves
  <2> DEFINE next == [loop[l] EXCEPT !.todo = Tail(todo)]
  <2>1. /\ next \in [pc : LoopPc, todo : BandList,
                     band : Bands \cup {None}, swept : Bands \cup {None}]
        /\ next.pc = "next"
    BY <1>2, <1>4, <1>6 DEF LoopOK
  <2>2. loop' = [loop EXCEPT ![l] = next]
    BY <1>6
  <2> HIDE DEF next
  <2> QED
    BY <1>4, <2>1, <2>2 DEF LoopOK, LoopPc, LocalsOK
<1>7. ASSUME todo # <<>>, l \notin ctxDone,
             loop' = [loop EXCEPT ![l] =
               [@ EXCEPT !.pc = "band", !.band = Head(todo).name, !.todo = Tail(todo)]]
      PROVE  Moves
  <2> DEFINE next == [loop[l] EXCEPT !.pc = "band", !.band = Head(todo).name,
                                     !.todo = Tail(todo)]
  <2>1. /\ next \in [pc : LoopPc, todo : BandList,
                     band : Bands \cup {None}, swept : Bands \cup {None}]
        /\ next.pc = "band" /\ next.band \in Bands
    BY <1>2, <1>7 DEF LoopOK, LoopPc
  <2>2. loop' = [loop EXCEPT ![l] = next] /\ l \notin ctxDone
    BY <1>7
  <2> HIDE DEF next
  <2> QED
    BY <1>4, <2>1, <2>2 DEF LoopOK, LoopPc, LocalsOK
<1> QED
  BY <1>3, <1>5, <1>6, <1>7

\* What the head of a pass does to the loops.
LEMMA LoopTopMoves ==
  ASSUME TypeOK, NEW l \in Loops, LoopTop(l)
  PROVE  /\ LoopOK' /\ LocalsOK'
         /\ \A k \in Loops \ {l} : loop'[k] = loop[k]
         /\ loop'[l].pc \in {"exit", "next"}
         /\ loop'[l].pc = "exit" => l \in ctxDone
<1> USE DEF TypeOK
<1>1. config \in BandList
  BY BandListFacts DEF ControlOK
<1>2. UNCHANGED <<hw, tuned>>
  BY DEF LoopTop, radioVars
<1>3. CASE LoopTo(l, "exit") /\ l \in ctxDone
  BY <1>2, <1>3 DEF LoopTo, LoopOK, LoopPc, LocalsOK
<1>4. CASE loop' = [loop EXCEPT ![l].pc = "next", ![l].todo = config]
  BY <1>1, <1>2, <1>4 DEF LoopOK, LoopPc, LocalsOK
<1> QED
  BY <1>3, <1>4 DEF LoopTop, Cancelled

\* Every step keeps the types.
LEMMA StepTypeOK == ASSUME TypeOK, Next PROVE TypeOK'
<1> USE BoundsAssumption, ConfigsAssumption, NamesAssumption DEF TypeOK
<1>1. ASSUME NEW c \in Callers, ApiStart(c) PROVE TypeOK'
  <2>1. LoopOK' /\ LocalsOK' /\ ControlOK' /\ RadioOK' /\ StatusOK'
    BY <1>1 DEF ApiStart, engineVars, radioVars, linkVars, LoopOK, LocalsOK, ControlOK,
       RadioOK, StatusOK
  <2>2. FlagsOK'
    BY <1>1, Zenon DEF ApiStart, CallerAt, CallerTo, engineVars, radioVars, linkVars,
       FlagsOK
  <2>3. CallerOK'
    BY <1>1 DEF ApiStart, CallerAt, CallerTo, engineVars, radioVars, linkVars, CallerOK,
       CallerPc
  <2> QED
    BY <2>1, <2>2, <2>3
<1>2. ASSUME NEW c \in Callers, StartLocked(c) PROVE TypeOK'
  <2>1. LoopOK' /\ LocalsOK' /\ RadioOK' /\ StatusOK'
    BY <1>2 DEF StartLocked, radioVars, linkVars, LoopOK, LocalsOK, RadioOK, StatusOK
  <2>2. FlagsOK'
    BY <1>2, Zenon DEF StartLocked, AtCall, radioVars, linkVars, CallerAt, FlagsOK
  <2>3. CallerOK'
    BY <1>2 DEF StartLocked, AtCall, radioVars, linkVars, CallerAt, CallerOK, CallerPc,
       ControlOK, Loops
  <2>4. ControlOK'
    BY <1>2 DEF StartLocked, AtCall, radioVars, linkVars, CallerAt, ControlOK, Loops
  <2> QED
    BY <2>1, <2>2, <2>3, <2>4
<1>3. ASSUME NEW c \in Callers, StartRunning(c) PROVE TypeOK'
  <2>1. LoopOK' /\ LocalsOK' /\ ControlOK' /\ RadioOK' /\ StatusOK'
    BY <1>3 DEF StartRunning, engineVars, radioVars, linkVars, LoopOK, LocalsOK, ControlOK,
       RadioOK, StatusOK
  <2>2. FlagsOK'
    BY <1>3, Zenon DEF StartRunning, CallerTo, AtCall, AfterCall, engineVars, radioVars,
       linkVars, CallerAt, FlagsOK
  <2>3. CallerOK'
    BY <1>3 DEF StartRunning, CallerTo, AtCall, AfterCall, engineVars, radioVars, linkVars,
       CallerAt, CallerOK, CallerPc
  <2> QED
    BY <2>1, <2>2, <2>3
<1>4. ASSUME NEW c \in Callers, StartStatus(c) PROVE TypeOK'
  <2>1. LoopOK' /\ LocalsOK' /\ ControlOK' /\ RadioOK'
    BY <1>4 DEF StartStatus, engineVars, radioVars, LoopOK, LocalsOK, ControlOK, RadioOK
  <2>2. FlagsOK'
    BY <1>4, Zenon DEF StartStatus, CallerAt, CallerTo, PublishStatus, engineVars,
       radioVars, Status, FlagsOK
  <2>3. CallerOK'
    BY <1>4 DEF StartStatus, CallerAt, CallerTo, PublishStatus, engineVars, radioVars,
       Status, CallerOK, CallerPc
  <2>4. StatusOK'
    BY <1>4, PublishKeeps DEF StartStatus
  <2> QED
    BY <2>1, <2>2, <2>3, <2>4
<1>5. ASSUME NEW c \in Callers, StartNotify(c) PROVE TypeOK'
  <2>1. ControlOK' /\ RadioOK' /\ StatusOK'
    BY <1>5 DEF StartNotify, engineVars, radioVars, linkVars, ControlOK, RadioOK, StatusOK
  <2>2. FlagsOK'
    BY <1>5, Zenon DEF StartNotify, CallerAt, AfterCall, IdleLoop, engineVars, radioVars,
       linkVars, FlagsOK
  <2>3. CallerOK'
    BY <1>5 DEF StartNotify, CallerAt, AfterCall, IdleLoop, engineVars, radioVars, linkVars,
       CallerOK, CallerPc
  <2>4. LoopOK' /\ LocalsOK'
    BY <1>5, BandListFacts DEF StartNotify, CallerAt, AfterCall, IdleLoop, engineVars,
       radioVars, linkVars, LoopOK, LoopPc, LocalsOK
  <2> QED
    BY <2>1, <2>2, <2>3, <2>4
<1>6. ASSUME NEW c \in Callers, ApiStarted(c) PROVE TypeOK'
  <2>1. LoopOK' /\ LocalsOK' /\ ControlOK' /\ RadioOK' /\ StatusOK'
    BY <1>6 DEF ApiStarted, engineVars, radioVars, linkVars, LoopOK, LocalsOK, ControlOK,
       RadioOK, StatusOK
  <2>2. FlagsOK'
    BY <1>6, Zenon DEF ApiStarted, CallerAt, CallerTo, engineVars, radioVars, linkVars,
       FlagsOK
  <2>3. CallerOK'
    BY <1>6 DEF ApiStarted, CallerAt, CallerTo, engineVars, radioVars, linkVars, CallerOK,
       CallerPc
  <2> QED
    BY <2>1, <2>2, <2>3
<1>7. ASSUME NEW c \in Callers, ApiStop(c) PROVE TypeOK'
  <2>1. LoopOK' /\ LocalsOK' /\ ControlOK' /\ RadioOK' /\ StatusOK'
    BY <1>7 DEF ApiStop, engineVars, radioVars, linkVars, LoopOK, LocalsOK, ControlOK,
       RadioOK, StatusOK
  <2>2. FlagsOK'
    BY <1>7, Zenon DEF ApiStop, CallerAt, CallerTo, engineVars, radioVars, linkVars, FlagsOK
  <2>3. CallerOK'
    BY <1>7 DEF ApiStop, CallerAt, CallerTo, engineVars, radioVars, linkVars, CallerOK,
       CallerPc
  <2> QED
    BY <2>1, <2>2, <2>3
<1>8. ASSUME NEW c \in Callers, StopLocked(c) PROVE TypeOK'
  <2>1. LoopOK' /\ LocalsOK' /\ RadioOK' /\ StatusOK'
    BY <1>8 DEF StopLocked, radioVars, linkVars, LoopOK, LocalsOK, RadioOK, StatusOK
  <2>2. FlagsOK'
    BY <1>8, Zenon DEF StopLocked, CallerTo, AtCall, radioVars, linkVars, CallerAt, FlagsOK
  <2>3. CallerOK'
    BY <1>8 DEF StopLocked, CallerTo, AtCall, radioVars, linkVars, CallerAt, CallerOK,
       CallerPc
  <2>4. ControlOK'
    BY <1>8 DEF StopLocked, CallerTo, AtCall, radioVars, linkVars, CallerAt, ControlOK
  <2> QED
    BY <2>1, <2>2, <2>3, <2>4
<1>9. ASSUME NEW c \in Callers, StopNotRunning(c) PROVE TypeOK'
  <2>1. LoopOK' /\ LocalsOK' /\ ControlOK' /\ RadioOK' /\ StatusOK'
    BY <1>9 DEF StopNotRunning, engineVars, radioVars, linkVars, LoopOK, LocalsOK,
       ControlOK, RadioOK, StatusOK
  <2>2. FlagsOK'
    BY <1>9, Zenon DEF StopNotRunning, CallerTo, AtCall, AfterCall, engineVars, radioVars,
       linkVars, CallerAt, FlagsOK
  <2>3. CallerOK'
    BY <1>9 DEF StopNotRunning, CallerTo, AtCall, AfterCall, engineVars, radioVars,
       linkVars, CallerAt, CallerOK, CallerPc
  <2> QED
    BY <2>1, <2>2, <2>3
<1>10. ASSUME NEW c \in Callers, StopStatus(c) PROVE TypeOK'
  <2>1. LoopOK' /\ LocalsOK' /\ ControlOK' /\ RadioOK'
    BY <1>10 DEF StopStatus, engineVars, radioVars, LoopOK, LocalsOK, ControlOK, RadioOK
  <2>2. FlagsOK'
    BY <1>10, Zenon DEF StopStatus, CallerAt, CallerTo, PublishStatus, engineVars,
       radioVars, Status, FlagsOK
  <2>3. CallerOK'
    BY <1>10 DEF StopStatus, CallerAt, CallerTo, PublishStatus, engineVars, radioVars,
       Status, CallerOK, CallerPc
  <2>4. StatusOK'
    BY <1>10, PublishKeeps DEF StopStatus
  <2> QED
    BY <2>1, <2>2, <2>3, <2>4
<1>11. ASSUME NEW c \in Callers, StopNotify(c) PROVE TypeOK'
  <2>1. LoopOK' /\ LocalsOK' /\ RadioOK' /\ StatusOK'
    BY <1>11 DEF StopNotify, radioVars, linkVars, LoopOK, LocalsOK, RadioOK, StatusOK
  <2>2. FlagsOK'
    BY <1>11, Zenon DEF StopNotify, CallerAt, CallerTo, AfterCall, radioVars, linkVars,
       FlagsOK
  <2>3. CallerOK'
    BY <1>11 DEF StopNotify, CallerAt, CallerTo, AfterCall, radioVars, linkVars, CallerOK,
       CallerPc
  <2>4. ControlOK'
    BY <1>11 DEF StopNotify, CallerAt, CallerTo, AfterCall, radioVars, linkVars, ControlOK
  <2> QED
    BY <2>1, <2>2, <2>3, <2>4
<1>12. ASSUME NEW c \in Callers, ApiStopped(c) PROVE TypeOK'
  <2>1. LoopOK' /\ LocalsOK' /\ ControlOK' /\ RadioOK' /\ StatusOK'
    BY <1>12 DEF ApiStopped, engineVars, radioVars, linkVars, LoopOK, LocalsOK, ControlOK,
       RadioOK, StatusOK
  <2>2. FlagsOK'
    BY <1>12, Zenon DEF ApiStopped, CallerAt, CallerTo, engineVars, radioVars, linkVars,
       FlagsOK
  <2>3. CallerOK'
    BY <1>12 DEF ApiStopped, CallerAt, CallerTo, engineVars, radioVars, linkVars, CallerOK,
       CallerPc
  <2> QED
    BY <2>1, <2>2, <2>3
<1>13. ASSUME NEW l \in Loops, LoopTop(l) PROVE TypeOK'
  <2>1. CallerOK' /\ ControlOK' /\ RadioOK' /\ StatusOK'
    BY <1>13 DEF LoopTop, engineVars, radioVars, linkVars, CallerOK, ControlOK, RadioOK,
       StatusOK
  <2>2. FlagsOK'
    BY <1>13, Zenon DEF LoopTop, Cancelled, LoopAt, LoopTo, engineVars, radioVars, linkVars,
       FlagsOK
  <2>3. LoopOK' /\ LocalsOK'
    BY <1>13, LoopTopMoves
  <2> QED
    BY <2>1, <2>2, <2>3
<1>14. ASSUME NEW l \in Loops, LoopNext(l) PROVE TypeOK'
  <2>1. CallerOK' /\ ControlOK' /\ RadioOK' /\ StatusOK'
    BY <1>14 DEF LoopNext, engineVars, radioVars, linkVars, CallerOK, ControlOK, RadioOK,
       StatusOK
  <2>2. FlagsOK'
    BY <1>14, Zenon DEF LoopNext, Cancelled, LoopAt, LoopTo, engineVars, radioVars,
       linkVars, FlagsOK
  <2>3. LoopOK' /\ LocalsOK'
    BY <1>14, LoopNextMoves
  <2> QED
    BY <2>1, <2>2, <2>3
<1>15. ASSUME NEW l \in Loops, LoopBand(l) PROVE TypeOK'
  <2>1. CallerOK' /\ RadioOK' /\ StatusOK'
    BY <1>15 DEF LoopBand, radioVars, linkVars, CallerOK, RadioOK, StatusOK
  <2>2. FlagsOK'
    BY <1>15, Zenon DEF LoopBand, LoopAt, LoopTo, radioVars, linkVars, FlagsOK
  <2>3. LoopOK' /\ LocalsOK'
    BY <1>15 DEF LoopBand, LoopAt, LoopTo, radioVars, linkVars, LoopOK, LoopPc, LocalsOK
  <2>4. ControlOK'
    BY <1>15 DEF LoopBand, LoopAt, LoopTo, radioVars, linkVars, ControlOK, LocalsOK, LoopOK
  <2> QED
    BY <2>1, <2>2, <2>3, <2>4
<1>16. ASSUME NEW l \in Loops, LoopStatus(l) PROVE TypeOK'
  <2>1. CallerOK' /\ ControlOK' /\ RadioOK'
    BY <1>16 DEF LoopStatus, engineVars, radioVars, CallerOK, ControlOK, RadioOK
  <2>2. FlagsOK'
    BY <1>16, Zenon DEF LoopStatus, LoopAt, LoopTo, PublishStatus, engineVars, radioVars,
       Status, FlagsOK
  <2>3. LoopOK' /\ LocalsOK'
    BY <1>16 DEF LoopStatus, LoopAt, LoopTo, PublishStatus, engineVars, radioVars, Status,
       LoopOK, LoopPc, LocalsOK
  <2>4. StatusOK'
    BY <1>16, PublishKeeps DEF LoopStatus, LoopAt, LocalsOK
  <2> QED
    BY <2>1, <2>2, <2>3, <2>4
<1>17. ASSUME NEW l \in Loops, LoopConfigure(l) PROVE TypeOK'
  <2>1. CallerOK' /\ ControlOK' /\ StatusOK'
    BY <1>17 DEF LoopConfigure, engineVars, linkVars, CallerOK, ControlOK, StatusOK
  <2>2. FlagsOK'
    BY <1>17, Zenon DEF LoopConfigure, LoopAt, LoopTo, NextBand, engineVars, linkVars,
       FlagsOK
  <2>3. LoopOK' /\ LocalsOK'
    <3>1. CASE hw' = loop[l].band /\ LoopTo(l, "sweep")
      BY <1>17, <3>1 DEF LoopConfigure, LoopAt, LoopTo, LoopOK, LoopPc, LocalsOK
    <3>2. CASE hw' = hw /\ NextBand(l, "next")
      BY <1>17, <3>2 DEF LoopConfigure, LoopAt, NextBand, LoopOK, LoopPc, LocalsOK
    <3> QED
      BY <1>17, <3>1, <3>2 DEF LoopConfigure
  <2>4. RadioOK'
    BY <1>17 DEF LoopConfigure, LoopAt, LoopTo, NextBand, engineVars, linkVars, RadioOK,
       LocalsOK, LoopOK
  <2> QED
    BY <2>1, <2>2, <2>3, <2>4
<1>18. ASSUME NEW l \in Loops, SweepBegin(l) PROVE TypeOK'
  <2>1. CallerOK' /\ ControlOK' /\ RadioOK' /\ StatusOK'
    BY <1>18 DEF SweepBegin, engineVars, radioVars, linkVars, CallerOK, ControlOK, RadioOK,
       StatusOK
  <2>2. FlagsOK'
    BY <1>18, Zenon DEF SweepBegin, LoopAt, engineVars, radioVars, linkVars, FlagsOK
  <2>3. LoopOK' /\ LocalsOK'
    BY <1>18 DEF SweepBegin, LoopAt, engineVars, radioVars, linkVars, LoopOK, LoopPc,
       LocalsOK
  <2> QED
    BY <2>1, <2>2, <2>3
<1>19. ASSUME NEW l \in Loops, SweepTune(l) PROVE TypeOK'
  <2>1. CallerOK' /\ ControlOK' /\ StatusOK'
    BY <1>19 DEF SweepTune, engineVars, linkVars, CallerOK, ControlOK, StatusOK
  <2>2. FlagsOK'
    BY <1>19, Zenon DEF SweepTune, Cancelled, LoopAt, LoopTo, engineVars, linkVars, FlagsOK
  <2>3. LoopOK' /\ LocalsOK'
    BY <1>19 DEF SweepTune, Cancelled, LoopAt, LoopTo, engineVars, linkVars, LoopOK, LoopPc,
       LocalsOK
  <2>4. RadioOK'
    BY <1>19 DEF SweepTune, Cancelled, LoopAt, LoopTo, engineVars, linkVars, RadioOK,
       LocalsOK, LoopOK
  <2> QED
    BY <2>1, <2>2, <2>3, <2>4
<1>20. ASSUME NEW l \in Loops, SweepCollect(l) PROVE TypeOK'
  <2>1. CallerOK' /\ ControlOK' /\ RadioOK' /\ StatusOK'
    BY <1>20 DEF SweepCollect, engineVars, radioVars, linkVars, CallerOK, ControlOK,
       RadioOK, StatusOK
  <2>2. FlagsOK'
    BY <1>20, Zenon DEF SweepCollect, LoopAt, engineVars, radioVars, linkVars, FlagsOK
  <2>3. LoopOK' /\ LocalsOK'
    BY <1>20 DEF SweepCollect, LoopAt, engineVars, radioVars, linkVars, LoopOK, LoopPc,
       LocalsOK
  <2> QED
    BY <2>1, <2>2, <2>3
<1>21. ASSUME NEW l \in Loops, SweepFails(l) PROVE TypeOK'
  <2>1. CallerOK' /\ ControlOK' /\ RadioOK' /\ StatusOK'
    BY <1>21 DEF SweepFails, engineVars, radioVars, linkVars, CallerOK, ControlOK, RadioOK,
       StatusOK
  <2>2. FlagsOK'
    BY <1>21, Zenon DEF SweepFails, Cancelled, NextBand, engineVars, radioVars, linkVars,
       FlagsOK
  <2>3. LoopOK' /\ LocalsOK'
    BY <1>21 DEF SweepFails, Cancelled, NextBand, engineVars, radioVars, linkVars, LoopOK,
       LoopPc, LocalsOK
  <2> QED
    BY <2>1, <2>2, <2>3
<1>22. ASSUME NEW l \in Loops, LoopBroadcast(l) PROVE TypeOK'
  <2>1. CallerOK' /\ ControlOK' /\ StatusOK'
    BY <1>22 DEF LoopBroadcast, engineVars, linkVars, CallerOK, ControlOK, StatusOK
  <2>2. FlagsOK'
    BY <1>22, Zenon DEF LoopBroadcast, LoopAt, NextBand, Scan, engineVars, linkVars, FlagsOK
  <2>3. LoopOK' /\ LocalsOK'
    BY <1>22 DEF LoopBroadcast, LoopAt, NextBand, Scan, engineVars, linkVars, LoopOK,
       LoopPc, LocalsOK
  <2>4. RadioOK'
    BY <1>22 DEF LoopBroadcast, LoopAt, NextBand, Scan, engineVars, linkVars, RadioOK,
       LocalsOK, LoopOK
  <2> QED
    BY <2>1, <2>2, <2>3, <2>4
<1>23. ASSUME NEW l \in Loops, LoopExit(l) PROVE TypeOK'
  <2>1. CallerOK' /\ RadioOK' /\ StatusOK'
    BY <1>23 DEF LoopExit, radioVars, linkVars, CallerOK, RadioOK, StatusOK
  <2>2. FlagsOK'
    BY <1>23, Zenon DEF LoopExit, LoopAt, IdleLoop, radioVars, linkVars, FlagsOK
  <2>3. LoopOK' /\ LocalsOK'
    BY <1>23, BandListFacts DEF LoopExit, LoopAt, IdleLoop, radioVars, linkVars, LoopOK,
       LoopPc, LocalsOK
  <2>4. ControlOK'
    BY <1>23 DEF LoopExit, LoopAt, IdleLoop, radioVars, linkVars, ControlOK
  <2> QED
    BY <2>1, <2>2, <2>3, <2>4
<1>24. CASE ReplaceBands
  <2>1. CallerOK' /\ LoopOK' /\ LocalsOK' /\ RadioOK' /\ StatusOK'
    BY <1>24 DEF ReplaceBands, engineVars, radioVars, linkVars, CallerOK, LoopOK, LocalsOK,
       RadioOK, StatusOK
  <2>2. FlagsOK'
    BY <1>24, Zenon DEF ReplaceBands, engineVars, radioVars, linkVars, FlagsOK
  <2>3. ControlOK'
    BY <1>24 DEF ReplaceBands, engineVars, radioVars, linkVars, ControlOK
  <2> QED
    BY <2>1, <2>2, <2>3
<1>25. CASE LinkLost
  <2>1. CallerOK' /\ LoopOK' /\ LocalsOK' /\ ControlOK' /\ RadioOK'
    BY <1>25 DEF LinkLost, engineVars, radioVars, CallerOK, LoopOK, LocalsOK, ControlOK,
       RadioOK
  <2>2. FlagsOK'
    BY <1>25, Zenon DEF LinkLost, Status, engineVars, radioVars, FlagsOK
  <2>3. StatusOK'
    BY <1>25 DEF LinkLost, Status, engineVars, radioVars, StatusOK, StatusMessage
  <2> QED
    BY <2>1, <2>2, <2>3
<1>26. CASE LinkUp
  <2>1. CallerOK' /\ LoopOK' /\ LocalsOK' /\ ControlOK' /\ RadioOK' /\ StatusOK'
    BY <1>26 DEF LinkUp, engineVars, radioVars, CallerOK, LoopOK, LocalsOK, ControlOK,
       RadioOK, StatusOK
  <2>2. FlagsOK'
    BY <1>26, Zenon DEF LinkUp, engineVars, radioVars, FlagsOK
  <2> QED
    BY <2>1, <2>2
<1>27. CASE SendKept
  <2>1. CallerOK' /\ LoopOK' /\ LocalsOK' /\ ControlOK' /\ RadioOK'
    BY <1>27 DEF SendKept, engineVars, radioVars, CallerOK, LoopOK, LocalsOK, ControlOK,
       RadioOK
  <2>2. FlagsOK'
    BY <1>27, Zenon DEF SendKept, engineVars, radioVars, FlagsOK
  <2>3. StatusOK'
    BY <1>27 DEF SendKept, engineVars, radioVars, StatusOK, StatusMessage, Status
  <2> QED
    BY <2>1, <2>2, <2>3
<1>28. CASE OnConnectStatus
  <2>1. CallerOK' /\ LoopOK' /\ LocalsOK' /\ ControlOK' /\ RadioOK'
    BY <1>28 DEF OnConnectStatus, engineVars, radioVars, CallerOK, LoopOK, LocalsOK,
       ControlOK, RadioOK
  <2>2. FlagsOK'
    BY <1>28, Zenon DEF OnConnectStatus, PublishStatus, engineVars, radioVars, Status,
       FlagsOK
  <2>3. StatusOK'
    BY <1>28, PublishKeeps DEF OnConnectStatus
  <2> QED
    BY <2>1, <2>2, <2>3
<1> HIDE DEF TypeOK
<1> QED
  BY NextCases, <1>1, <1>2, <1>3, <1>4, <1>5, <1>6, <1>7, <1>8, <1>9, <1>10, <1>11, <1>12,
     <1>13, <1>14, <1>15, <1>16, <1>17, <1>18, <1>19, <1>20, <1>21, <1>22, <1>23, <1>24,
     <1>25, <1>26, <1>27, <1>28

\* Every step keeps the control part: which loop is live, which loops have
\* left, what they owe.
LEMMA StepControl ==
  ASSUME IInv, Next
  PROVE  OneLiveLoop' /\ LoopLifetime' /\ CallerCtx' /\ LateInv' /\ BandInv'
<1> DEFINE Control == OneLiveLoop /\ LoopLifetime /\ CallerCtx /\ LateInv /\ BandInv
<1> USE BoundsAssumption, NamesAssumption DEF IInv
<1>0. CallerOK /\ LoopOK /\ ControlOK /\ FlagsOK /\ RadioOK
  BY DEF TypeOK
<1>1. ASSUME NEW c \in Callers, ApiStart(c) PROVE Control'
  <2>1. OneLiveLoop' /\ LoopLifetime' /\ LateInv' /\ BandInv'
    BY <1>1 DEF ApiStart, engineVars, radioVars, linkVars, OneLiveLoop, LoopLifetime,
       LateInv, BandInv, LoopAt
  <2>2. CallerCtx'
    BY <1>0, <1>1 DEF ApiStart, CallerAt, CallerTo, engineVars, radioVars, linkVars,
       CallerCtx, CallerOK, ControlOK, Loops
  <2> QED
    BY <2>1, <2>2
<1>2. ASSUME NEW c \in Callers, StartLocked(c) PROVE Control'
  <2>1. LateInv' /\ BandInv'
    BY <1>2 DEF StartLocked, radioVars, linkVars, LateInv, BandInv
  <2>2. OneLiveLoop'
    <3>1. cancel = None /\ (1..spawned) \ ctxDone = {} /\ ctxDone \subseteq 1..spawned
      BY <1>2 DEF StartLocked, OneLiveLoop, LoopLifetime
    <3>2. 1..(spawned + 1) = (1..spawned) \cup {spawned + 1} /\ spawned + 1 \notin 1..spawned
      BY <1>0 DEF ControlOK
    <3>3. spawned + 1 \in Loops /\ ctxDone' = ctxDone
      BY <1>0, <1>2 DEF StartLocked, ControlOK, Loops
    <3> QED
      BY <1>2, <3>1, <3>2, <3>3 DEF StartLocked, OneLiveLoop
  <2>3. LoopLifetime'
    BY <1>0, <1>2 DEF StartLocked, AtCall, radioVars, linkVars, CallerAt, LoopLifetime,
       OneLiveLoop, CallerCtx, LoopOK, ControlOK, Loops, LoopAt
  <2>4. CallerCtx'
    BY <1>0, <1>2 DEF StartLocked, AtCall, radioVars, linkVars, CallerAt, CallerCtx,
       CallerOK, ControlOK, Loops
  <2> QED
    BY <2>1, <2>2, <2>3, <2>4
<1>3. ASSUME NEW c \in Callers, StartRunning(c) PROVE Control'
  <2>1. OneLiveLoop' /\ LoopLifetime' /\ LateInv' /\ BandInv'
    BY <1>3 DEF StartRunning, engineVars, radioVars, linkVars, OneLiveLoop, LoopLifetime,
       LateInv, BandInv, LoopAt
  <2>2. CallerCtx'
    BY <1>0, <1>3 DEF StartRunning, CallerTo, AtCall, AfterCall, engineVars, radioVars,
       linkVars, CallerAt, CallerCtx, CallerOK, ControlOK, Loops
  <2> QED
    BY <2>1, <2>2
<1>4. ASSUME NEW c \in Callers, StartStatus(c) PROVE Control'
  <2>1. OneLiveLoop' /\ LoopLifetime' /\ LateInv' /\ BandInv'
    BY <1>4 DEF StartStatus, engineVars, radioVars, OneLiveLoop, LoopLifetime, LateInv,
       BandInv, LoopAt
  <2>2. CallerCtx'
    BY <1>0, <1>4 DEF StartStatus, CallerAt, CallerTo, PublishStatus, engineVars, radioVars,
       Status, CallerCtx, CallerOK, ControlOK, Loops
  <2> QED
    BY <2>1, <2>2
<1>5. ASSUME NEW c \in Callers, StartNotify(c) PROVE Control'
  <2>1. OneLiveLoop'
    BY <1>5 DEF StartNotify, engineVars, radioVars, linkVars, OneLiveLoop
  <2>2. LoopLifetime'
    <3>1. caller[c].ctx \in 1..spawned /\ UNCHANGED <<spawned, ctxDone>>
      BY <1>5 DEF StartNotify, CallerAt, CallerCtx, engineVars
    <3>2. \A k \in Loops : \/ loop'[k] = loop[k]
                           \/ k = caller[c].ctx /\ loop'[k].pc = "top"
      BY <1>0, <1>5 DEF StartNotify, IdleLoop, LoopOK
    <3> QED
      BY <1>0, <3>1, <3>2 DEF LoopLifetime, LoopAt, ControlOK, Loops
  <2>3. CallerCtx'
    BY <1>0, <1>5 DEF StartNotify, CallerAt, AfterCall, IdleLoop, engineVars, radioVars,
       linkVars, CallerCtx, CallerOK, ControlOK, Loops
  <2>4. LateInv'
    BY <1>0, <1>5 DEF StartNotify, CallerAt, AfterCall, IdleLoop, engineVars, radioVars,
       linkVars, LateInv, LoopOK, ControlOK, RadioOK, Loops, CallerCtx
  <2>5. BandInv'
    BY <1>0, <1>5 DEF StartNotify, CallerAt, AfterCall, IdleLoop, engineVars, radioVars,
       linkVars, BandInv, LoopOK, ControlOK, Loops, CallerCtx
  <2> QED
    BY <2>1, <2>2, <2>3, <2>4, <2>5
<1>6. ASSUME NEW c \in Callers, ApiStarted(c) PROVE Control'
  <2>1. OneLiveLoop' /\ LoopLifetime' /\ LateInv' /\ BandInv'
    BY <1>6 DEF ApiStarted, engineVars, radioVars, linkVars, OneLiveLoop, LoopLifetime,
       LateInv, BandInv, LoopAt
  <2>2. CallerCtx'
    BY <1>0, <1>6 DEF ApiStarted, CallerAt, CallerTo, engineVars, radioVars, linkVars,
       CallerCtx, CallerOK, ControlOK, Loops
  <2> QED
    BY <2>1, <2>2
<1>7. ASSUME NEW c \in Callers, ApiStop(c) PROVE Control'
  <2>1. OneLiveLoop' /\ LoopLifetime' /\ LateInv' /\ BandInv'
    BY <1>7 DEF ApiStop, engineVars, radioVars, linkVars, OneLiveLoop, LoopLifetime,
       LateInv, BandInv, LoopAt
  <2>2. CallerCtx'
    BY <1>0, <1>7 DEF ApiStop, CallerAt, CallerTo, engineVars, radioVars, linkVars,
       CallerCtx, CallerOK, ControlOK, Loops
  <2> QED
    BY <2>1, <2>2
<1>8. ASSUME NEW c \in Callers, StopLocked(c) PROVE Control'
  <2>1. BandInv'
    BY <1>8 DEF StopLocked, radioVars, linkVars, BandInv
  <2>2. OneLiveLoop'
    BY <1>0, <1>8 DEF StopLocked, CallerTo, AtCall, radioVars, linkVars, CallerAt,
       OneLiveLoop, CallerOK, ControlOK, FlagsOK, Loops
  <2>3. LoopLifetime'
    BY <1>0, <1>8 DEF StopLocked, CallerTo, AtCall, radioVars, linkVars, CallerAt,
       LoopLifetime, OneLiveLoop, CallerCtx, LoopOK, ControlOK, Loops, LoopAt
  <2>4. CallerCtx'
    BY <1>0, <1>8 DEF StopLocked, CallerTo, AtCall, radioVars, linkVars, CallerAt,
       CallerCtx, CallerOK, ControlOK, Loops
  <2>5. LateInv'
    BY <1>0, <1>8 DEF StopLocked, CallerTo, AtCall, radioVars, linkVars, CallerAt, LateInv,
       LoopOK, ControlOK, RadioOK, Loops, CallerCtx
  <2> QED
    BY <2>1, <2>2, <2>3, <2>4, <2>5
<1>9. ASSUME NEW c \in Callers, StopNotRunning(c) PROVE Control'
  <2>1. OneLiveLoop' /\ LoopLifetime' /\ LateInv' /\ BandInv'
    BY <1>9 DEF StopNotRunning, engineVars, radioVars, linkVars, OneLiveLoop, LoopLifetime,
       LateInv, BandInv, LoopAt
  <2>2. CallerCtx'
    BY <1>0, <1>9 DEF StopNotRunning, CallerTo, AtCall, AfterCall, engineVars, radioVars,
       linkVars, CallerAt, CallerCtx, CallerOK, ControlOK, Loops
  <2> QED
    BY <2>1, <2>2
<1>10. ASSUME NEW c \in Callers, StopStatus(c) PROVE Control'
  <2>1. OneLiveLoop' /\ LoopLifetime' /\ LateInv' /\ BandInv'
    BY <1>10 DEF StopStatus, engineVars, radioVars, OneLiveLoop, LoopLifetime, LateInv,
       BandInv, LoopAt
  <2>2. CallerCtx'
    BY <1>0, <1>10 DEF StopStatus, CallerAt, CallerTo, PublishStatus, engineVars, radioVars,
       Status, CallerCtx, CallerOK, ControlOK, Loops
  <2> QED
    BY <2>1, <2>2
<1>11. ASSUME NEW c \in Callers, StopNotify(c) PROVE Control'
  <2>1. OneLiveLoop' /\ LoopLifetime' /\ LateInv' /\ BandInv'
    BY <1>11 DEF StopNotify, radioVars, linkVars, OneLiveLoop, LoopLifetime, LateInv,
       BandInv, LoopAt
  <2>2. CallerCtx'
    BY <1>0, <1>11 DEF StopNotify, CallerAt, CallerTo, AfterCall, radioVars, linkVars,
       CallerCtx, CallerOK, ControlOK, Loops
  <2> QED
    BY <2>1, <2>2
<1>12. ASSUME NEW c \in Callers, ApiStopped(c) PROVE Control'
  <2>1. OneLiveLoop' /\ LoopLifetime' /\ LateInv' /\ BandInv'
    BY <1>12 DEF ApiStopped, engineVars, radioVars, linkVars, OneLiveLoop, LoopLifetime,
       LateInv, BandInv, LoopAt
  <2>2. CallerCtx'
    BY <1>0, <1>12 DEF ApiStopped, CallerAt, CallerTo, engineVars, radioVars, linkVars,
       CallerCtx, CallerOK, ControlOK, Loops
  <2> QED
    BY <2>1, <2>2
<1>13. ASSUME NEW l \in Loops, LoopTop(l) PROVE Control'
  <2>1. OneLiveLoop' /\ CallerCtx'
    BY <1>13 DEF LoopTop, engineVars, radioVars, linkVars, OneLiveLoop, CallerCtx
  <2>2. /\ loop[l].pc = "top" /\ UNCHANGED <<spawned, ctxDone, late, currentBand>>
        /\ \A k \in Loops \ {l} : loop'[k] = loop[k]
        /\ loop'[l].pc \in {"exit", "next"}
        /\ loop'[l].pc = "exit" => l \in ctxDone
    BY <1>13, LoopTopMoves DEF LoopTop, LoopAt, engineVars, radioVars
  <2>3. LoopLifetime'
    BY <1>0, <2>2 DEF LoopLifetime, LoopAt, ControlOK, Loops
  <2>4. LateInv'
    BY <1>0, <2>2 DEF LateInv
  <2>5. BandInv'
    BY <1>0, <2>2 DEF BandInv
  <2> QED
    BY <2>1, <2>3, <2>4, <2>5
<1>14. ASSUME NEW l \in Loops, LoopNext(l) PROVE Control'
  <2>1. OneLiveLoop' /\ CallerCtx'
    BY <1>14 DEF LoopNext, engineVars, radioVars, linkVars, OneLiveLoop, CallerCtx
  <2>2. /\ loop[l].pc = "next" /\ UNCHANGED <<spawned, ctxDone, late, currentBand>>
        /\ \A k \in Loops \ {l} : loop'[k] = loop[k]
        /\ loop'[l].pc \in {"top", "exit", "next", "band"}
        /\ loop'[l].pc = "exit" => l \in ctxDone
        /\ loop'[l].pc = "band" => l \notin ctxDone
    BY <1>14, LoopNextMoves DEF LoopNext, LoopAt, engineVars, radioVars
  <2>3. LoopLifetime'
    BY <1>0, <2>2 DEF LoopLifetime, LoopAt, ControlOK, Loops
  <2>4. LateInv'
    BY <1>0, <2>2 DEF LateInv
  <2>5. BandInv'
    BY <1>0, <2>2 DEF BandInv
  <2> QED
    BY <2>1, <2>3, <2>4, <2>5
<1>15. ASSUME NEW l \in Loops, LoopBand(l) PROVE Control'
  <2>1. OneLiveLoop' /\ CallerCtx'
    BY <1>15 DEF LoopBand, radioVars, linkVars, OneLiveLoop, CallerCtx
  <2>2. LoopLifetime'
    BY <1>0, <1>15 DEF LoopBand, LoopAt, LoopTo, radioVars, linkVars, LoopLifetime,
       OneLiveLoop, CallerCtx, LoopOK, ControlOK, Loops
  <2>3. LateInv'
    BY <1>0, <1>15 DEF LoopBand, LoopAt, LoopTo, radioVars, linkVars, LateInv, LoopOK,
       ControlOK, RadioOK, Loops, CallerCtx
  <2>4. BandInv'
    BY <1>0, <1>15 DEF LoopBand, LoopAt, LoopTo, radioVars, linkVars, BandInv, LoopOK,
       ControlOK, Loops, CallerCtx
  <2> QED
    BY <2>1, <2>2, <2>3, <2>4
<1>16. ASSUME NEW l \in Loops, LoopStatus(l) PROVE Control'
  <2>1. OneLiveLoop' /\ CallerCtx'
    BY <1>16 DEF LoopStatus, engineVars, radioVars, OneLiveLoop, CallerCtx
  <2>2. LoopLifetime'
    BY <1>0, <1>16 DEF LoopStatus, LoopAt, LoopTo, PublishStatus, engineVars, radioVars,
       Status, LoopLifetime, OneLiveLoop, CallerCtx, LoopOK, ControlOK, Loops
  <2>3. LateInv'
    BY <1>0, <1>16 DEF LoopStatus, LoopAt, LoopTo, PublishStatus, engineVars, radioVars,
       Status, LateInv, LoopOK, ControlOK, RadioOK, Loops, CallerCtx
  <2>4. BandInv'
    BY <1>0, <1>16 DEF LoopStatus, LoopAt, LoopTo, PublishStatus, engineVars, radioVars,
       Status, BandInv, LoopOK, ControlOK, Loops, CallerCtx
  <2> QED
    BY <2>1, <2>2, <2>3, <2>4
<1>17. ASSUME NEW l \in Loops, LoopConfigure(l) PROVE Control'
  <2>1. OneLiveLoop' /\ CallerCtx'
    BY <1>17 DEF LoopConfigure, engineVars, linkVars, OneLiveLoop, CallerCtx
  <2>2. LoopLifetime'
    <3>1. /\ \A k \in Loops \ {l} : loop'[k] = loop[k]
          /\ loop[l].pc = "configure" /\ loop'[l].pc \in {"sweep", "next"}
      BY <1>0, <1>17 DEF LoopConfigure, LoopAt, LoopTo, NextBand, LoopOK
    <3>2. UNCHANGED <<spawned, ctxDone>>
      BY <1>17 DEF LoopConfigure, engineVars
    <3> QED
      BY <1>0, <3>1, <3>2 DEF LoopLifetime, LoopAt, ControlOK, Loops
  <2>3. LateInv'
    BY <1>0, <1>17 DEF LoopConfigure, LoopAt, LoopTo, NextBand, engineVars, linkVars,
       LateInv, LoopOK, ControlOK, RadioOK, Loops, CallerCtx
  <2>4. BandInv'
    BY <1>0, <1>17 DEF LoopConfigure, LoopAt, LoopTo, NextBand, engineVars, linkVars,
       BandInv, LoopOK, ControlOK, Loops, CallerCtx
  <2> QED
    BY <2>1, <2>2, <2>3, <2>4
<1>18. ASSUME NEW l \in Loops, SweepBegin(l) PROVE Control'
  <2>1. OneLiveLoop' /\ CallerCtx'
    BY <1>18 DEF SweepBegin, engineVars, radioVars, linkVars, OneLiveLoop, CallerCtx
  <2>2. LoopLifetime'
    BY <1>0, <1>18 DEF SweepBegin, LoopAt, engineVars, radioVars, linkVars, LoopLifetime,
       OneLiveLoop, CallerCtx, LoopOK, ControlOK, Loops
  <2>3. LateInv'
    BY <1>0, <1>18 DEF SweepBegin, LoopAt, engineVars, radioVars, linkVars, LateInv, LoopOK,
       ControlOK, RadioOK, Loops, CallerCtx
  <2>4. BandInv'
    BY <1>0, <1>18 DEF SweepBegin, LoopAt, engineVars, radioVars, linkVars, BandInv, LoopOK,
       ControlOK, Loops, CallerCtx
  <2> QED
    BY <2>1, <2>2, <2>3, <2>4
<1>19. ASSUME NEW l \in Loops, SweepTune(l) PROVE Control'
  <2>1. OneLiveLoop' /\ CallerCtx'
    BY <1>19 DEF SweepTune, engineVars, linkVars, OneLiveLoop, CallerCtx
  <2>2. LoopLifetime'
    BY <1>0, <1>19 DEF SweepTune, Cancelled, LoopAt, LoopTo, engineVars, linkVars,
       LoopLifetime, OneLiveLoop, CallerCtx, LoopOK, ControlOK, Loops
  <2>3. LateInv'
    BY <1>0, <1>19 DEF SweepTune, Cancelled, LoopAt, LoopTo, engineVars, linkVars, LateInv,
       LoopOK, ControlOK, RadioOK, Loops, CallerCtx
  <2>4. BandInv'
    BY <1>0, <1>19 DEF SweepTune, Cancelled, LoopAt, LoopTo, engineVars, linkVars, BandInv,
       LoopOK, ControlOK, Loops, CallerCtx
  <2> QED
    BY <2>1, <2>2, <2>3, <2>4
<1>20. ASSUME NEW l \in Loops, SweepCollect(l) PROVE Control'
  <2>1. OneLiveLoop' /\ CallerCtx'
    BY <1>20 DEF SweepCollect, engineVars, radioVars, linkVars, OneLiveLoop, CallerCtx
  <2>2. LoopLifetime'
    BY <1>0, <1>20 DEF SweepCollect, LoopAt, engineVars, radioVars, linkVars, LoopLifetime,
       OneLiveLoop, CallerCtx, LoopOK, ControlOK, Loops
  <2>3. LateInv'
    BY <1>0, <1>20 DEF SweepCollect, LoopAt, engineVars, radioVars, linkVars, LateInv,
       LoopOK, ControlOK, RadioOK, Loops, CallerCtx
  <2>4. BandInv'
    BY <1>0, <1>20 DEF SweepCollect, LoopAt, engineVars, radioVars, linkVars, BandInv,
       LoopOK, ControlOK, Loops, CallerCtx
  <2> QED
    BY <2>1, <2>2, <2>3, <2>4
<1>21. ASSUME NEW l \in Loops, SweepFails(l) PROVE Control'
  <2>1. OneLiveLoop' /\ CallerCtx'
    BY <1>21 DEF SweepFails, engineVars, radioVars, linkVars, OneLiveLoop, CallerCtx
  <2>2. LoopLifetime'
    BY <1>0, <1>21 DEF SweepFails, Cancelled, NextBand, engineVars, radioVars, linkVars,
       LoopLifetime, OneLiveLoop, CallerCtx, LoopOK, ControlOK, Loops, LoopAt
  <2>3. LateInv'
    BY <1>0, <1>21 DEF SweepFails, Cancelled, NextBand, engineVars, radioVars, linkVars,
       LateInv, LoopOK, ControlOK, RadioOK, Loops, CallerCtx
  <2>4. BandInv'
    BY <1>0, <1>21 DEF SweepFails, Cancelled, NextBand, engineVars, radioVars, linkVars,
       BandInv, LoopOK, ControlOK, Loops, CallerCtx
  <2> QED
    BY <2>1, <2>2, <2>3, <2>4
<1>22. ASSUME NEW l \in Loops, LoopBroadcast(l) PROVE Control'
  <2>1. OneLiveLoop' /\ CallerCtx'
    BY <1>22 DEF LoopBroadcast, engineVars, linkVars, OneLiveLoop, CallerCtx
  <2>2. LoopLifetime'
    BY <1>0, <1>22 DEF LoopBroadcast, LoopAt, NextBand, Scan, engineVars, linkVars,
       LoopLifetime, OneLiveLoop, CallerCtx, LoopOK, ControlOK, Loops
  <2>3. LateInv'
    BY <1>0, <1>22 DEF LoopBroadcast, LoopAt, NextBand, Scan, engineVars, linkVars, LateInv,
       LoopOK, ControlOK, RadioOK, Loops, CallerCtx
  <2>4. BandInv'
    BY <1>0, <1>22 DEF LoopBroadcast, LoopAt, NextBand, Scan, engineVars, linkVars, BandInv,
       LoopOK, ControlOK, Loops, CallerCtx
  <2> QED
    BY <2>1, <2>2, <2>3, <2>4
<1>23. ASSUME NEW l \in Loops, LoopExit(l) PROVE Control'
  <2>1. OneLiveLoop' /\ CallerCtx'
    BY <1>23 DEF LoopExit, radioVars, linkVars, OneLiveLoop, CallerCtx
  <2>2. LoopLifetime'
    BY <1>0, <1>23 DEF LoopExit, LoopAt, IdleLoop, radioVars, linkVars, LoopLifetime,
       OneLiveLoop, CallerCtx, LoopOK, ControlOK, Loops
  <2>3. LateInv'
    BY <1>0, <1>23 DEF LoopExit, LoopAt, IdleLoop, radioVars, linkVars, LateInv, LoopOK,
       ControlOK, RadioOK, Loops, CallerCtx
  <2>4. BandInv'
    BY <1>0, <1>23 DEF LoopExit, LoopAt, IdleLoop, radioVars, linkVars, BandInv, LoopOK,
       ControlOK, Loops, CallerCtx
  <2> QED
    BY <2>1, <2>2, <2>3, <2>4
<1>24. CASE ReplaceBands
  BY <1>24 DEF ReplaceBands, engineVars, radioVars, linkVars, OneLiveLoop, LoopLifetime,
     CallerCtx, LateInv, BandInv, LoopAt
<1>25. CASE LinkLost
  BY <1>25 DEF LinkLost, engineVars, radioVars, OneLiveLoop, LoopLifetime, CallerCtx,
     LateInv, BandInv, LoopAt
<1>26. CASE LinkUp
  BY <1>26 DEF LinkUp, engineVars, radioVars, OneLiveLoop, LoopLifetime, CallerCtx, LateInv,
     BandInv, LoopAt
<1>27. CASE SendKept
  BY <1>27 DEF SendKept, engineVars, radioVars, OneLiveLoop, LoopLifetime, CallerCtx,
     LateInv, BandInv, LoopAt
<1>28. CASE OnConnectStatus
  BY <1>28 DEF OnConnectStatus, engineVars, radioVars, OneLiveLoop, LoopLifetime, CallerCtx,
     LateInv, BandInv, LoopAt
<1> HIDE DEF IInv
<1> QED
  BY NextCases, <1>1, <1>2, <1>3, <1>4, <1>5, <1>6, <1>7, <1>8, <1>9, <1>10, <1>11, <1>12,
     <1>13, <1>14, <1>15, <1>16, <1>17, <1>18, <1>19, <1>20, <1>21, <1>22, <1>23, <1>24,
     <1>25, <1>26, <1>27, <1>28

\* A step that leaves every variable alone keeps the invariant.
LEMMA StutterIInv == ASSUME IInv, UNCHANGED vars PROVE IInv'
<1> USE DEF vars, engineVars, radioVars, linkVars
<1>1. FlagsOK'
  BY Zenon DEF IInv, TypeOK, FlagsOK
<1>2. TypeOK'
  BY <1>1 DEF IInv, TypeOK, CallerOK, LoopOK, LocalsOK, ControlOK, RadioOK, StatusOK
<1>3. OneLiveLoop' /\ LoopLifetime' /\ CallerCtx' /\ LateInv' /\ BandInv'
  BY DEF IInv, OneLiveLoop, LoopLifetime, LoopAt, CallerCtx, LateInv, BandInv
<1> QED
  BY <1>2, <1>3 DEF IInv

\* The inductive invariant holds in every reachable state.
THEOREM Invariant == Safe => []IInv
<1>1. Init => IInv
  BY InitIInv
<1>2. IInv /\ [Next]_vars => IInv'
  <2>1. ASSUME IInv, Next PROVE IInv'
    BY <2>1, StepTypeOK, StepControl DEF IInv
  <2> QED
    BY <2>1, StutterIInv
<1> QED
  BY <1>1, <1>2, PTL DEF Safe

\* Type correctness of the engine, the locals of its loops included.
THEOREM Types == Safe => []TypeOK
<1>1. IInv => TypeOK
  BY DEF IInv
<1> QED
  BY <1>1, Invariant, PTL

\* However Start and Stop calls of any number of goroutines interleave, at
\* most one context is live and it is the one Stop will cancel.
THEOREM OneLive == Safe => []OneLiveLoop
<1>1. IInv => OneLiveLoop
  BY DEF IInv
<1> QED
  BY <1>1, Invariant, PTL

\* No loop runs before its Start and none leaves before its cancellation.
THEOREM Lifetime == Safe => []LoopLifetime
<1>1. IInv => LoopLifetime
  BY DEF IInv
<1> QED
  BY <1>1, Invariant, PTL

\* A stopped loop hands out at most the scan it was working on.
THEOREM LateScans == Safe => []LateScanAtMostOne
<1>1. IInv => LateScanAtMostOne
  BY DEF IInv, TypeOK, RadioOK, LateInv, LateScanAtMostOne
<1> QED
  BY <1>1, Invariant, PTL

\* No current band is left behind once every loop has gone.
THEOREM IdleBand == Safe => []IdleBandCleared
<1>1. IInv => IdleBandCleared
  BY DEF IInv, BandInv, IdleBandCleared
<1> QED
  BY <1>1, Invariant, PTL

\* The initial states of the engine are initial states of the promise.
LEMMA InitPromise == Init => Promise!Init
  BY DEF Init, Promise!Init, Promise!Sessions, Loops

\* What a broadcast hands out is a scan.
LEMMA BroadcastScan ==
  ASSUME TypeOK, NEW l \in Loops, LoopBroadcast(l)
  PROVE  lastScan' \in [label : Bands, data : Bands]
  BY DEF TypeOK, LocalsOK, LoopBroadcast, LoopAt, Scan

\* Start opens a session, Stop closes it, and a broadcast is a scan of the
\* open session or the leftover of a closed one.
LEMMA StepPromise ==
  ASSUME IInv, Next
  PROVE  Promise!Next \/ UNCHANGED Promise!vars
<1> USE BoundsAssumption, NamesAssumption
<1>0. CallerOK /\ ControlOK /\ RadioOK /\ FlagsOK /\ OneLiveLoop /\ LateInv /\ LoopLifetime
  BY DEF IInv, TypeOK
<1>1. ASSUME NEW c \in Callers, StartLocked(c)
      PROVE  Promise!Open
  BY <1>0, <1>1 DEF StartLocked, radioVars, OneLiveLoop, Promise!Open
<1>2. ASSUME NEW c \in Callers, StopLocked(c)
      PROVE  Promise!Close
  BY <1>0, <1>2 DEF StopLocked, radioVars, OneLiveLoop, Promise!Close
<1>3. ASSUME NEW l \in Loops, LoopBroadcast(l), l \notin ctxDone
      PROVE  Promise!Emit
  <2>1. l \in 1..spawned
    BY <1>0, <1>3 DEF LoopBroadcast, LoopLifetime, LoopAt, ControlOK, Loops
  <2>2. cancel = l
    BY <1>0, <1>3, <2>1 DEF OneLiveLoop
  <2>3. lastScan' \in [label : Bands, data : Bands]
    BY <1>3, BroadcastScan DEF IInv
  <2> QED
    BY <1>3, <2>2, <2>3 DEF LoopBroadcast, engineVars, Promise!Emit
<1>4. ASSUME NEW l \in Loops, LoopBroadcast(l), l \in ctxDone
      PROVE  Promise!EmitLeftover(l)
  <2>1. late[l] = 0
    BY <1>0, <1>4 DEF LoopBroadcast, LoopAt, LateInv
  <2>2. late' = [late EXCEPT ![l] = 1]
    BY <1>4, <2>1 DEF LoopBroadcast
  <2>3. lastScan' \in [label : Bands, data : Bands]
    BY <1>4, BroadcastScan DEF IInv
  <2> QED
    BY <1>4, <2>1, <2>2, <2>3 DEF LoopBroadcast, engineVars, Promise!EmitLeftover
<1>5. ASSUME NEW c \in Callers,
             \/ ApiStart(c) \/ StartRunning(c) \/ StartStatus(c) \/ StartNotify(c)
             \/ ApiStarted(c) \/ ApiStop(c) \/ StopNotRunning(c) \/ StopStatus(c)
             \/ StopNotify(c) \/ ApiStopped(c)
      PROVE  UNCHANGED Promise!vars
  BY <1>5 DEF ApiStart, StartRunning, StartStatus, StartNotify, ApiStarted, ApiStop,
     StopNotRunning, StopStatus, StopNotify, ApiStopped, engineVars, radioVars, Promise!vars
<1>6. ASSUME NEW l \in Loops,
             \/ LoopTop(l) \/ LoopNext(l) \/ LoopBand(l) \/ LoopStatus(l) \/ LoopConfigure(l)
             \/ SweepBegin(l) \/ SweepTune(l) \/ SweepCollect(l) \/ SweepFails(l)
             \/ LoopExit(l)
      PROVE  UNCHANGED Promise!vars
  BY <1>6 DEF LoopTop, LoopNext, LoopBand, LoopStatus, LoopConfigure, SweepBegin, SweepTune,
     SweepCollect, SweepFails, LoopExit, engineVars, radioVars, Promise!vars
<1>7. ASSUME ReplaceBands \/ LinkLost \/ LinkUp \/ SendKept \/ OnConnectStatus
      PROVE  UNCHANGED Promise!vars
  BY <1>7 DEF ReplaceBands, LinkLost, LinkUp, SendKept, OnConnectStatus, engineVars, radioVars,
     Promise!vars
<1>8. CASE \E c \in Callers : StartLocked(c) \/ StopLocked(c)
  BY <1>1, <1>2, <1>8 DEF Promise!Next
<1>9. CASE \E l \in Loops : LoopBroadcast(l)
  <2>1. Loops = Promise!Sessions
    BY DEF Loops, Promise!Sessions
  <2> QED
    BY <1>3, <1>4, <1>9, <2>1 DEF Promise!Next
<1> QED
  BY NextCases, <1>5, <1>6, <1>7, <1>8, <1>9

\* The engine, with all its interleavings, implements the sessions it
\* promises: one open at a time, at most one leftover scan of a closed one.
THEOREM Implements == Safe => KeepsSessions
<1>1. IInv /\ [Next]_vars => [Promise!Next]_Promise!vars
  <2>1. CASE Next
    BY <2>1, StepPromise
  <2>2. CASE UNCHANGED vars
    BY <2>2 DEF vars, engineVars, radioVars, Promise!vars
  <2> QED
    BY <2>1, <2>2
<1> QED
  BY <1>1, InitPromise, Invariant, PTL DEF Safe, KeepsSessions, Promise!Spec
=============================================================================
