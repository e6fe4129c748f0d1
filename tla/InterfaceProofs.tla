--------------------------- MODULE InterfaceProofs ---------------------------
(***************************************************************************)
(* Safety of the two user interfaces.                                      *)
(*                                                                         *)
(* Desktop, for any goroutines, engines and number of calls: one goroutine *)
(* at the most forwards scans.                                             *)
(*                                                                         *)
(* BrowserClient, for any scanners, views, delays and number of logins:    *)
(* what the store counts and subscribes is what the views show, what the   *)
(* broker was asked for covers it, and the indicator of the connection     *)
(* goes out for no outage shorter than Debounce.                           *)
(***************************************************************************)
EXTENDS BrowserClient, Desktop, FiniteSetTheorems, SequenceTheorems, TLAPS

(***************************************************************************)
(* The desktop application.  What a goroutine has still to run fits the    *)
(* mutexes it holds: a run of its code, with nothing in the way, ends with *)
(* nothing held, or comes to a mutex that it holds itself.  From this the  *)
(* state of each mutex is what the goroutines hold, and no goroutine       *)
(* unlocks what it did not lock.                                           *)
(***************************************************************************)
Mutexes == Engines \cup {App}
Holds == [Mutexes -> {"none", "read", "write"}]
Nothing == [m \in Mutexes |-> "none"]
AppRead == [Nothing EXCEPT ![App] = "read"]
AppWrite == [Nothing EXCEPT ![App] = "write"]

\* A call that would wait for itself goes no further.
Stuck == [m \in Mutexes |-> "stuck"]
Holdings == Holds \cup {Stuck}

ReadCalls == {"StartScanning", "StopScanning", "GetStatus"}
WriteCalls == {"Connect", "Disconnect", "shutdown", "SetBandEnabled", "SetGain", "EnableMQTT",
               "DisableMQTT", "create", "startMQTT", "forward", "forwarded"}
RunnerOps == {"closeClient", "disable", "noClient", "client", "drop", "go"}

\* What an instruction takes a goroutine from and to
Turns(h, a, k) ==
  LET m == a.arg IN
  \/ h = Stuck /\ k = Stuck
  \/ a.op = "Lock" /\ h \in Holds /\ h[m] = "none" /\ k = [h EXCEPT ![m] = "write"]
  \/ a.op = "RLock" /\ h \in Holds /\ h[m] = "none" /\ k = [h EXCEPT ![m] = "read"]
  \/ a.op \in {"Lock", "RLock"} /\ h \in Holds /\ h[m] = "write" /\ k = Stuck
  \/ a.op = "Unlock" /\ h \in Holds /\ h[m] = "write" /\ k = [h EXCEPT ![m] = "none"]
  \/ a.op = "RUnlock" /\ h \in Holds /\ h[m] = "read" /\ k = [h EXCEPT ![m] = "none"]
  \/ a.op \in {"start", "stop"} /\ k \in {Nothing, AppWrite} /\ h = [k EXCEPT ![m] = "write"]
  \/ a.op = "close" /\ k \in {Nothing, AppWrite} /\ h = [k EXCEPT ![m] = "read"]
  \/ a.op \in RunnerOps /\ h \in {Nothing, AppWrite} /\ k = h
  \/ a.op = "range" /\ h = Nothing /\ k = h
  \/ a.op \in ReadCalls /\ h = AppRead /\ k = Nothing
  \/ a.op \in WriteCalls /\ h = AppWrite /\ k = Nothing

Operations ==
  {"Lock", "RLock", "Unlock", "RUnlock", "start", "stop", "close", "range"}
    \cup RunnerOps \cup ReadCalls \cup WriteCalls
Instructions == [op : Operations, arg : Mutexes]

\* The instructions of a call, when there are n runners
CallInstructions(n) ==
  {Instr(op, m) : op \in {"Lock", "Unlock", "RLock", "RUnlock"}, m \in Mutexes}
    \cup {Instr(op, e) : op \in {"start", "stop", "close", "closeClient", "disable", "noClient",
                                 "client"}, e \in 1..n}
    \cup {Do(op) : op \in (ReadCalls \cup WriteCalls \cup {"drop"}) \ {"forward", "forwarded"}}
    \cup {Do("go") : e \in 1..n}

\* Those of forwardScans
ForwarderInstructions(n) ==
  {Lock(App), Unlock(App), Do("forward"), Do("forwarded")} \cup {Instr("range", e) : e \in 1..n}

Own(t, n) == IF t \in Callers THEN CallInstructions(n) ELSE ForwarderInstructions(n)

\* Code of the instructions S that takes a goroutine from h to k, if not to a
\* stop: H says what it holds after each
Fits(S, s, h, k) ==
  /\ s \in Seq(S)
  /\ \E H \in [Nat -> Holdings] :
       /\ H[0] = h /\ H[Len(s)] \in {k, Stuck}
       /\ \A i \in 1..Len(s) : Turns(H[i - 1], s[i], H[i])

-----------------------------------------------------------------------------
(* Code that fits                                                          *)

\* The empty code changes nothing.
LEMMA FitsEmpty ==
  ASSUME NEW S, NEW h \in Holdings
  PROVE  Fits(S, <<>>, h, h)
<1> DEFINE H == [i \in Nat |-> h]
<1>1. H \in [Nat -> Holdings] /\ H[0] = h /\ H[Len(<<>>)] = h /\ Len(<<>>) = 0
  OBVIOUS
<1>2. <<>> \in Seq(S)
  OBVIOUS
<1> HIDE DEF H
<1> QED
  BY <1>1, <1>2 DEF Fits

\* One instruction does what Turns says of it.
LEMMA FitsOne ==
  ASSUME NEW S, NEW a \in S, NEW h \in Holdings, NEW k \in Holdings,
         Turns(h, a, k) \/ Turns(h, a, Stuck)
  PROVE  Fits(S, <<a>>, h, k)
<1>1. PICK l \in {k, Stuck} : Turns(h, a, l)
  OBVIOUS
<1>2. l \in Holdings
  BY <1>1 DEF Holdings
<1> DEFINE H == [i \in Nat |-> IF i = 0 THEN h ELSE l]
<1>3. H \in [Nat -> Holdings] /\ H[0] = h /\ H[1] = l
  BY <1>2
<1> HIDE DEF H
<1>4. Len(<<a>>) = 1 /\ <<a>>[1] = a /\ <<a>> \in Seq(S)
  OBVIOUS
<1>5. \A i \in 1..Len(<<a>>) : Turns(H[i - 1], <<a>>[i], H[i])
  <2> TAKE i \in 1..Len(<<a>>)
  <2>1. i = 1 /\ i - 1 = 0
    BY <1>4
  <2> QED
    BY <2>1, <1>1, <1>3, <1>4
<1> QED
  BY <1>1, <1>3, <1>4, <1>5 DEF Fits

\* One after another
LEMMA FitsConcat ==
  ASSUME NEW S, NEW s, NEW u, NEW h, NEW k \in Holdings, NEW l \in Holdings,
         Fits(S, s, h, k), Fits(S, u, k, l)
  PROVE  Fits(S, s \o u, h, l)
<1>1. s \in Seq(S) /\ u \in Seq(S)
  BY DEF Fits
<1>2. PICK G \in [Nat -> Holdings] :
        /\ G[0] = h /\ G[Len(s)] \in {k, Stuck}
        /\ \A i \in 1..Len(s) : Turns(G[i - 1], s[i], G[i])
  BY DEF Fits
<1>3. PICK H \in [Nat -> Holdings] :
        /\ H[0] = G[Len(s)] /\ H[Len(u)] \in {l, Stuck}
        /\ \A i \in 1..Len(u) : Turns(H[i - 1], u[i], H[i])
  <2>1. CASE G[Len(s)] = k
    BY <2>1 DEF Fits
  <2>2. CASE G[Len(s)] = Stuck
    <3> DEFINE H == [i \in Nat |-> Stuck]
    <3>1. H \in [Nat -> Holdings] /\ \A i \in Nat : H[i] = Stuck
      BY DEF Holdings
    <3> HIDE DEF H
    <3>2. Len(u) \in Nat /\ \A i \in 1..Len(u) : i \in Nat /\ i - 1 \in Nat
      BY <1>1
    <3>3. \A i \in 1..Len(u) : Turns(H[i - 1], u[i], H[i])
      BY <3>1, <3>2 DEF Turns
    <3> QED
      BY <2>2, <3>1, <3>2, <3>3
  <2> QED
    BY <1>2, <2>1, <2>2
<1> DEFINE F == [i \in Nat |-> IF i <= Len(s) THEN G[i] ELSE H[i - Len(s)]]
<1>4. Len(s) \in Nat /\ Len(u) \in Nat
  BY <1>1
<1>5. F \in [Nat -> Holdings]
  BY <1>2, <1>3, <1>4
<1>6. /\ \A i \in 0..Len(s) : F[i] = G[i]
      /\ \A i \in 0..Len(u) : F[Len(s) + i] = H[i]
  BY <1>3, <1>4
<1> HIDE DEF F
<1>7. /\ s \o u \in Seq(S) /\ Len(s \o u) = Len(s) + Len(u)
      /\ \A i \in 1..Len(s) : (s \o u)[i] = s[i]
      /\ \A i \in 1..Len(u) : (s \o u)[Len(s) + i] = u[i]
  BY <1>1
<1>8. \A i \in 1..Len(s \o u) : Turns(F[i - 1], (s \o u)[i], F[i])
  <2> TAKE i \in 1..Len(s \o u)
  <2>1. CASE i <= Len(s)
    <3>1. i \in 1..Len(s) /\ i \in 0..Len(s) /\ i - 1 \in 0..Len(s)
      BY <2>1, <1>4, <1>7
    <3> QED
      BY <3>1, <1>2, <1>6, <1>7
  <2>2. CASE ~(i <= Len(s))
    <3> DEFINE j == i - Len(s)
    <3>1. j \in 1..Len(u) /\ j \in 0..Len(u) /\ j - 1 \in 0..Len(u)
      BY <2>2, <1>4, <1>7
    <3>2. i = Len(s) + j /\ i - 1 = Len(s) + (j - 1)
      BY <2>2, <1>4, <1>7
    <3> HIDE DEF j
    <3> QED
      BY <3>1, <3>2, <1>3, <1>6, <1>7
  <2> QED
    BY <2>1, <2>2
<1>9. F[0] = h /\ F[Len(s \o u)] \in {l, Stuck}
  BY <1>2, <1>3, <1>4, <1>6, <1>7
<1> QED
  BY <1>5, <1>7, <1>8, <1>9 DEF Fits

\* What has begun to run
LEMMA FitsHead ==
  ASSUME NEW S, NEW s, NEW h \in Holdings, NEW l \in Holdings, Fits(S, s, h, l), s # <<>>
  PROVE  /\ Head(s) \in S
         /\ \E k \in Holdings : Turns(h, Head(s), k) /\ Fits(S, Tail(s), k, l)
<1>1. s \in Seq(S) /\ Len(s) \in Nat /\ Len(s) >= 1
  BY DEF Fits
<1>2. PICK H \in [Nat -> Holdings] :
        /\ H[0] = h /\ H[Len(s)] \in {l, Stuck}
        /\ \A i \in 1..Len(s) : Turns(H[i - 1], s[i], H[i])
  BY DEF Fits
<1>3. Head(s) = s[1] /\ Head(s) \in S /\ Tail(s) \in Seq(S) /\ Len(Tail(s)) = Len(s) - 1
  BY <1>1
<1>4. \A i \in 1..Len(Tail(s)) : Tail(s)[i] = s[i + 1]
  BY <1>1
<1>5. H[1] \in Holdings /\ Turns(h, Head(s), H[1])
  <2>1. 1 \in 1..Len(s) /\ 1 - 1 = 0
    BY <1>1
  <2>2. Turns(H[1 - 1], s[1], H[1])
    BY <2>1, <1>2
  <2> QED
    BY <2>1, <2>2, <1>2, <1>3
<1> DEFINE G == [i \in Nat |-> H[i + 1]]
<1>6. G \in [Nat -> Holdings] /\ \A i \in Nat : G[i] = H[i + 1]
  BY <1>2
<1> HIDE DEF G
<1>7. G[0] = H[1] /\ G[Len(Tail(s))] = H[Len(s)]
  <2>1. 0 \in Nat /\ 0 + 1 = 1 /\ Len(s) - 1 \in Nat /\ (Len(s) - 1) + 1 = Len(s)
    BY <1>1
  <2> QED
    BY <2>1, <1>3, <1>6
<1>8. \A i \in 1..Len(Tail(s)) : Turns(G[i - 1], Tail(s)[i], G[i])
  <2> TAKE i \in 1..Len(Tail(s))
  <2>1. i + 1 \in 1..Len(s) /\ i \in Nat /\ i - 1 \in Nat /\ (i + 1) - 1 = i /\ (i - 1) + 1 = i
    BY <1>1, <1>3
  <2>2. Turns(H[(i + 1) - 1], s[i + 1], H[i + 1])
    BY <2>1, <1>2
  <2>3. G[i - 1] = H[i] /\ G[i] = H[i + 1]
    BY <2>1, <1>6
  <2> QED
    BY <2>1, <2>2, <2>3, <1>4
<1>9. Fits(S, Tail(s), H[1], l)
  BY <1>2, <1>3, <1>6, <1>7, <1>8 DEF Fits
<1> QED
  BY <1>3, <1>5, <1>9

\* More instructions do no harm.
LEMMA FitsMore ==
  ASSUME NEW S, NEW T, S \subseteq T, NEW s, NEW h, NEW k, Fits(S, s, h, k)
  PROVE  Fits(T, s, h, k)
<1>1. s \in Seq(T)
  BY DEF Fits
<1> QED
  BY <1>1 DEF Fits
-----------------------------------------------------------------------------
(* The pieces calls are made of                                            *)

Bases == {Nothing, AppWrite}

\* What goroutines hold, and mutexes taken and let go
LEMMA HoldFacts ==
  /\ App \in Mutexes /\ Engines \subseteq Mutexes /\ App \notin Engines
  /\ Nothing \in Holds /\ AppRead \in Holds /\ AppWrite \in Holds
  /\ Holds \subseteq Holdings /\ Stuck \in Holdings /\ Stuck \notin Holds
  /\ Nothing[App] = "none" /\ AppRead[App] = "read" /\ AppWrite[App] = "write"
  /\ \A m \in Mutexes, h \in Holds, w \in {"none", "read", "write"} : [h EXCEPT ![m] = w] \in Holds
  /\ [AppRead EXCEPT ![App] = "none"] = Nothing /\ [AppWrite EXCEPT ![App] = "none"] = Nothing
  /\ \A e \in Engines : \A b \in Bases \cup {AppRead} : \A w \in {"read", "write"} :
       /\ b[e] = "none"
       /\ [b EXCEPT ![e] = w][e] = w
       /\ [[b EXCEPT ![e] = w] EXCEPT ![e] = "none"] = b
       /\ [b EXCEPT ![e] = w][App] = b[App]
<1>1. App \in Mutexes /\ Engines \subseteq Mutexes /\ App \notin Engines
  BY BoundsAssumption DEF Mutexes, Engines
<1>2. Nothing \in Holds /\ Nothing[App] = "none" /\ \A m \in Mutexes : Nothing[m] = "none"
  BY <1>1 DEF Nothing, Holds
<1>3. \A m \in Mutexes, h \in Holds, w \in {"none", "read", "write"} : [h EXCEPT ![m] = w] \in Holds
  BY DEF Holds
<1>4. AppRead \in Holds /\ AppWrite \in Holds
  BY <1>1, <1>2, <1>3 DEF AppRead, AppWrite
<1>5. /\ AppRead[App] = "read" /\ AppWrite[App] = "write"
      /\ \A e \in Engines : AppRead[e] = "none" /\ AppWrite[e] = "none"
  BY <1>1, <1>2 DEF AppRead, AppWrite, Holds
<1>6. \A h \in Holds : \A m \in Mutexes : \A w \in {"read", "write"} :
        h[m] = "none" => /\ [h EXCEPT ![m] = w][m] = w
                         /\ [[h EXCEPT ![m] = w] EXCEPT ![m] = "none"] = h
  BY DEF Holds
<1>7. \A h \in Holds : \A e \in Engines : \A w \in {"read", "write"} :
        [h EXCEPT ![e] = w][App] = h[App]
  BY <1>1 DEF Holds
<1>8. [AppRead EXCEPT ![App] = "none"] = Nothing /\ [AppWrite EXCEPT ![App] = "none"] = Nothing
  BY <1>1, <1>2, <1>6 DEF AppRead, AppWrite
<1>9. Stuck \notin Holds
  BY <1>1 DEF Stuck, Holds
<1>10. \A b \in Bases \cup {AppRead} : b \in Holds /\ \A e \in Engines : b[e] = "none"
  BY <1>1, <1>2, <1>4, <1>5 DEF Bases
<1>11. \A e \in Engines : \A b \in Bases \cup {AppRead} : \A w \in {"read", "write"} :
       /\ b[e] = "none"
       /\ [b EXCEPT ![e] = w][e] = w
       /\ [[b EXCEPT ![e] = w] EXCEPT ![e] = "none"] = b
       /\ [b EXCEPT ![e] = w][App] = b[App]
  BY <1>1, <1>6, <1>7, <1>10
<1> QED
  BY <1>1, <1>2, <1>3, <1>4, <1>5, <1>8, <1>9, <1>11 DEF Holdings

\* The instructions of a call
LEMMA CallHas ==
  ASSUME NEW n \in Nat
  PROVE  /\ \A m \in Mutexes : {Lock(m), Unlock(m), RLock(m), RUnlock(m)} \subseteq CallInstructions(n)
         /\ \A e \in 1..n : \A op \in {"start", "stop", "close", "closeClient", "disable",
                                       "noClient", "client"} : Instr(op, e) \in CallInstructions(n)
         /\ \A op \in (ReadCalls \cup WriteCalls \cup {"drop"}) \ {"forward", "forwarded"} :
              Do(op) \in CallInstructions(n)
         /\ n > 0 => Do("go") \in CallInstructions(n)
<1>1. n > 0 => 1 \in 1..n
  OBVIOUS
<1> QED
  BY <1>1 DEF CallInstructions, Lock, Unlock, RLock, RUnlock

\* Sequences joined that are written out
LEMMA Joined ==
  ASSUME NEW S, NEW a \in S, NEW b \in S, NEW c \in S
  PROVE  /\ <<a>> \o <<b>> = <<a, b>>
         /\ <<a, b>> \o <<c>> = <<a, b, c>>
         /\ <<a>> \o <<b, c>> = <<a, b, c>>
<1>1. <<a>> \in Seq(S) /\ <<b>> \in Seq(S) /\ <<c>> \in Seq(S)
  OBVIOUS
<1>2. /\ <<a, b>> \in Seq(S) /\ <<b, c>> \in Seq(S) /\ <<a, b, c>> \in Seq(S)
      /\ Len(<<a, b>>) = 2 /\ Len(<<a, b, c>>) = 3
  OBVIOUS
<1>3. <<a>> \o <<b>> = <<a, b>>
  <2>1. /\ <<a>> \o <<b>> \in Seq(S) /\ Len(<<a>> \o <<b>>) = 1 + 1
        /\ \A i \in 1..1 + 1 : (<<a>> \o <<b>>)[i] = IF i <= 1 THEN <<a>>[i] ELSE <<b>>[i - 1]
    BY <1>1, ConcatProperties
  <2>2. Len(<<a>> \o <<b>>) = 2 /\ \A i \in 1..2 : (<<a>> \o <<b>>)[i] = <<a, b>>[i]
    BY <2>1
  <2>3. <<a>> \o <<b>> \in Seq(S)
    BY <2>1
  <2> QED
    BY <1>2, <2>2, <2>3, SeqEqual
<1>4. <<a, b>> \o <<c>> = <<a, b, c>>
  <2>1. /\ <<a, b>> \o <<c>> \in Seq(S) /\ Len(<<a, b>> \o <<c>>) = 2 + 1
        /\ \A i \in 1..2 + 1 :
             (<<a, b>> \o <<c>>)[i] = IF i <= 2 THEN <<a, b>>[i] ELSE <<c>>[i - 2]
    BY <1>1, <1>2, ConcatProperties
  <2>2. Len(<<a, b>> \o <<c>>) = 3 /\ \A i \in 1..3 : (<<a, b>> \o <<c>>)[i] = <<a, b, c>>[i]
    BY <2>1
  <2>3. <<a, b>> \o <<c>> \in Seq(S)
    BY <2>1
  <2> QED
    BY <1>2, <2>2, <2>3, SeqEqual
<1>5. <<a>> \o <<b, c>> = <<a, b, c>>
  <2>1. /\ <<a>> \o <<b, c>> \in Seq(S) /\ Len(<<a>> \o <<b, c>>) = 1 + 2
        /\ \A i \in 1..1 + 2 :
             (<<a>> \o <<b, c>>)[i] = IF i <= 1 THEN <<a>>[i] ELSE <<b, c>>[i - 1]
    BY <1>1, <1>2, ConcatProperties
  <2>2. Len(<<a>> \o <<b, c>>) = 3 /\ \A i \in 1..3 : (<<a>> \o <<b, c>>)[i] = <<a, b, c>>[i]
    BY <2>1
  <2>3. <<a>> \o <<b, c>> \in Seq(S)
    BY <2>1
  <2> QED
    BY <1>2, <2>2, <2>3, SeqEqual
<1> QED
  BY <1>3, <1>4, <1>5

\* Two pieces, written as one
LEMMA FitsTwo ==
  ASSUME NEW S, NEW a \in S, NEW c \in S, NEW h \in Holdings, NEW k \in Holdings, NEW l \in Holdings,
         Fits(S, <<a>>, h, k), Fits(S, <<c>>, k, l)
  PROVE  Fits(S, <<a, c>>, h, l)
<1>1. <<a>> \o <<c>> = <<a, c>>
  BY Joined
<1> QED
  BY <1>1, FitsConcat

LEMMA FitsLock ==
  ASSUME NEW S, NEW m \in Mutexes, NEW h \in Holds, Lock(m) \in S, h[m] = "none"
  PROVE  Fits(S, <<Lock(m)>>, h, [h EXCEPT ![m] = "write"])
<1>1. Turns(h, Lock(m), [h EXCEPT ![m] = "write"])
  BY DEF Turns, Lock, Instr
<1> QED
  BY <1>1, FitsOne, HoldFacts

LEMMA FitsUnlock ==
  ASSUME NEW S, NEW m \in Mutexes, NEW h \in Holds, Unlock(m) \in S, h[m] = "write"
  PROVE  Fits(S, <<Unlock(m)>>, h, [h EXCEPT ![m] = "none"])
<1>1. Turns(h, Unlock(m), [h EXCEPT ![m] = "none"])
  BY DEF Turns, Unlock, Instr
<1> QED
  BY <1>1, FitsOne, HoldFacts

LEMMA FitsRLock ==
  ASSUME NEW S, NEW m \in Mutexes, NEW h \in Holds, RLock(m) \in S, h[m] = "none"
  PROVE  Fits(S, <<RLock(m)>>, h, [h EXCEPT ![m] = "read"])
<1>1. Turns(h, RLock(m), [h EXCEPT ![m] = "read"])
  BY DEF Turns, RLock, Instr
<1> QED
  BY <1>1, FitsOne, HoldFacts

LEMMA FitsRUnlock ==
  ASSUME NEW S, NEW m \in Mutexes, NEW h \in Holds, RUnlock(m) \in S, h[m] = "read"
  PROVE  Fits(S, <<RUnlock(m)>>, h, [h EXCEPT ![m] = "none"])
<1>1. Turns(h, RUnlock(m), [h EXCEPT ![m] = "none"])
  BY DEF Turns, RUnlock, Instr
<1> QED
  BY <1>1, FitsOne, HoldFacts

\* A call back to the application comes back, or the goroutine has a.mu itself.
LEMMA FitsCallbacks ==
  ASSUME NEW n \in Nat, NEW h \in Holds, h[App] \in {"none", "write"}
  PROVE  /\ Fits(CallInstructions(n), Callback, h, h)
         /\ Fits(CallInstructions(n), MqttCallback, h, h)
<1> DEFINE S == CallInstructions(n)
<1>1. {Lock(App), Unlock(App), RLock(App), RUnlock(App)} \subseteq S
  BY CallHas, HoldFacts
<1>2. App \in Mutexes /\ h \in Holdings /\ Stuck \in Holdings
  BY HoldFacts
<1> HIDE DEF S
<1>3. CASE h[App] = "none"
  <2> DEFINE r == [h EXCEPT ![App] = "read"]
             w == [h EXCEPT ![App] = "write"]
  <2>1. /\ r \in Holds /\ r[App] = "read" /\ [r EXCEPT ![App] = "none"] = h
        /\ w \in Holds /\ w[App] = "write" /\ [w EXCEPT ![App] = "none"] = h
    BY <1>2, <1>3 DEF Holds
  <2>2. Fits(S, <<RLock(App)>>, h, r) /\ Fits(S, <<Lock(App)>>, h, w)
    BY <1>1, <1>2, <1>3, FitsRLock, FitsLock
  <2> HIDE DEF r, w
  <2>3. Fits(S, <<RUnlock(App)>>, r, h)
    BY <1>1, <1>2, <2>1, FitsRUnlock
  <2>4. Fits(S, <<Unlock(App)>>, w, h)
    BY <1>1, <1>2, <2>1, FitsUnlock
  <2>5. r \in Holdings /\ w \in Holdings
    BY <2>1 DEF Holdings
  <2>6. Fits(S, <<RLock(App), RUnlock(App)>>, h, h)
    BY <1>1, <1>2, <2>2, <2>3, <2>5, FitsTwo
  <2>7. Fits(S, <<Lock(App), Unlock(App)>>, h, h)
    BY <1>1, <1>2, <2>2, <2>4, <2>5, FitsTwo
  <2> QED
    BY <2>6, <2>7 DEF Callback, MqttCallback, S
<1>4. CASE h[App] = "write"
  <2>1. Turns(h, RLock(App), Stuck) /\ Turns(h, Lock(App), Stuck)
    BY <1>4 DEF Turns, RLock, Lock, Instr
  <2>2. Fits(S, <<RLock(App)>>, h, Stuck) /\ Fits(S, <<Lock(App)>>, h, Stuck)
    BY <1>1, <1>2, <2>1, FitsOne
  <2>3. \A a \in S : Turns(Stuck, a, Stuck)
    BY DEF Turns
  <2>4. Fits(S, <<RUnlock(App)>>, Stuck, h) /\ Fits(S, <<Unlock(App)>>, Stuck, h)
    BY <1>1, <1>2, <2>3, FitsOne
  <2>5. Fits(S, <<RLock(App), RUnlock(App)>>, h, h)
    BY <1>1, <1>2, <2>2, <2>4, FitsTwo
  <2>6. Fits(S, <<Lock(App), Unlock(App)>>, h, h)
    BY <1>1, <1>2, <2>2, <2>4, FitsTwo
  <2> QED
    BY <2>5, <2>6 DEF Callback, MqttCallback, S
<1> QED
  BY <1>3, <1>4

\* What a call asks of an engine and its runner leaves what it holds.
LEMMA FitsEngine ==
  ASSUME NEW n \in 0..MaxRunners, NEW e \in 1..n, NEW b \in Bases
  PROVE  /\ Fits(CallInstructions(n), Start(e), b, b)
         /\ Fits(CallInstructions(n), Stop(e), b, b)
         /\ Fits(CallInstructions(n), SetMQTTClient(e), b, b)
         /\ Fits(CallInstructions(n), UpdateConfig(e), b, b)
         /\ Fits(CallInstructions(n), CloseRunner(e), b, b)
<1> DEFINE S == CallInstructions(n)
           w == [b EXCEPT ![e] = "write"]
           r == [b EXCEPT ![e] = "read"]
<1>1. n \in Nat /\ e \in Engines /\ e \in Mutexes
  BY HoldFacts, BoundsAssumption DEF Engines
<1>2. /\ {Lock(e), Unlock(e), RLock(e), Instr("start", e), Instr("stop", e), Instr("close", e),
          Instr("closeClient", e)} \subseteq S
  BY <1>1, CallHas
<1>3. /\ b \in Holds /\ b \in Holdings /\ b[App] \in {"none", "write"}
      /\ b[e] = "none" /\ w \in Holds /\ w \in Holdings /\ r \in Holds /\ r \in Holdings
      /\ w[e] = "write" /\ [w EXCEPT ![e] = "none"] = b
  BY <1>1, HoldFacts DEF Bases
<1>4. /\ Turns(w, Instr("start", e), b) /\ Turns(w, Instr("stop", e), b)
      /\ Turns(r, Instr("close", e), b) /\ Turns(b, Instr("closeClient", e), b)
  BY DEF Turns, Instr, Bases, RunnerOps
<1>5. Fits(S, <<Lock(e)>>, b, w) /\ Fits(S, <<RLock(e)>>, b, r)
  BY <1>1, <1>2, <1>3, FitsLock, FitsRLock
<1>6. Fits(S, Callback, b, b)
  BY <1>1, <1>3, FitsCallbacks
<1> HIDE DEF S, w, r
<1>7. Fits(S, <<Unlock(e)>>, w, b)
  BY <1>1, <1>2, <1>3, FitsUnlock
<1>8. /\ Fits(S, <<Instr("start", e)>>, w, b) /\ Fits(S, <<Instr("stop", e)>>, w, b)
      /\ Fits(S, <<Instr("close", e)>>, r, b) /\ Fits(S, <<Instr("closeClient", e)>>, b, b)
  BY <1>2, <1>3, <1>4, FitsOne
<1>9. Fits(S, <<Lock(e), Instr("start", e)>>, b, b) /\ Fits(S, <<Lock(e), Instr("stop", e)>>, b, b)
  BY <1>2, <1>3, <1>5, <1>8, FitsTwo
<1>10. Fits(S, <<Lock(e), Unlock(e)>>, b, b) /\ Fits(S, <<RLock(e), Instr("close", e)>>, b, b)
  BY <1>2, <1>3, <1>5, <1>7, <1>8, FitsTwo
<1>11. Fits(S, <<Lock(e), Unlock(e)>> \o Callback, b, b)
  BY <1>3, <1>6, <1>10, FitsConcat DEF S
<1>12. Fits(S, <<RLock(e), Instr("close", e)>> \o <<Instr("closeClient", e)>>, b, b)
  BY <1>3, <1>8, <1>10, FitsConcat
<1>13. <<RLock(e), Instr("close", e)>> \o <<Instr("closeClient", e)>>
         = <<RLock(e), Instr("close", e), Instr("closeClient", e)>>
  BY <1>2, Joined
<1> QED
  BY <1>9, <1>10, <1>11, <1>12, <1>13 DEF S, Start, Stop, SetMQTTClient, UpdateConfig, CloseRunner

\* A piece that may be left out
LEMMA FitsWhen ==
  ASSUME NEW S, NEW s, NEW h \in Holdings, NEW condition \in BOOLEAN,
         condition => Fits(S, s, h, h)
  PROVE  Fits(S, When(condition, s), h, h)
<1>1. Fits(S, <<>>, h, h)
  BY FitsEmpty
<1> QED
  BY <1>1 DEF When
-----------------------------------------------------------------------------
(* The inductive invariant                                                 *)

\* A mutex is as the goroutines hold it, h[t] being what t holds.
Readers(m, h) == {t \in Threads : h[t][m] = "read"}

HeldAs(l, m, h) ==
  /\ \A t \in Threads : h[t][m] = "write" <=> l.writer = t
  /\ IsFiniteSet(Readers(m, h)) /\ l.readers = Cardinality(Readers(m, h))
  /\ l.writer # None => l.readers = 0 /\ l.pending = None /\ l.woken = {}

Fitting(h) == \A t \in Threads : Fits(Own(t, runners), code[t], h[t], Nothing)

LockInv ==
  \E h \in [Threads -> Holds] : Fitting(h) /\ \A m \in Mutexes : HeldAs(locks[m], m, h)

Types ==
  /\ locks \in [Mutexes -> Mutex]
  /\ code \in [Threads -> Seq(Instructions)]
  /\ call \in [Threads -> Calls \cup {"", "forwardScans"}] /\ calls \in 0..MaxCalls
  /\ runners \in 0..MaxRunners /\ runner \in {NoRunner, runners}
  /\ running \in [Engines -> BOOLEAN]
  /\ mqttClients \subseteq 1..runners
  /\ standalone \in BOOLEAN /\ forwarding \in BOOLEAN

\* What a forwarder has still to run: it waits for its turn, it forwards the
\* scans of engine e, or it found no runner
Waits(s)     == s \in {<<Lock(App), Do("forward")>>, <<Do("forward")>>}
Ranges(s, e) == s \in {<<Unlock(App), Instr("range", e)>>, <<Instr("range", e)>>}
Resets(s)    == s \in {<<Unlock(App), Lock(App), Do("forwarded")>>,
                       <<Lock(App), Do("forwarded")>>, <<Do("forwarded")>>}
Owns(s)      == Resets(s) \/ \E e \in Nat : Ranges(s, e)

\* forwardingScans says that one forwarder is at work, and a forwarder leaves
\* the first runner only to another that serves it.
ForwardInv ==
  /\ \A f \in Forwarders : code[f] \in {<<>>, <<Unlock(App)>>} \/ Waits(code[f]) \/ Owns(code[f])
  /\ forwarding <=> \E f \in Forwarders : Owns(code[f])
  /\ \A f, g \in Forwarders : Owns(code[f]) /\ Owns(code[g]) => f = g
  /\ \A f \in Forwarders, e \in Nat : Ranges(code[f], e) => e \in 1..runners
  /\ \A f \in Forwarders : call[f] = "forwardScans" \/ Waits(code[f]) => runners > 0
  /\ \A f \in Forwarders : Resets(code[f]) => runners > 0 /\ runner # 1
  /\ runner = 1 /\ (\E f \in Forwarders : call[f] = "forwardScans")
       => \E g \in Forwarders : Waits(code[g]) \/ Ranges(code[g], 1)

AppInv == Types /\ LockInv /\ ForwardInv

-----------------------------------------------------------------------------
(* Facts about steps                                                       *)

\* Who runs an instruction, and of what
LEMMA OwnCases ==
  ASSUME NEW t \in Threads, NEW n \in 0..MaxRunners, NEW a \in Own(t, n)
  PROVE  /\ a \in Instructions
         /\ a.op \in {"start", "stop", "close", "closeClient", "disable", "noClient", "client"}
              => t \in Callers /\ a.arg \in 1..n
         /\ a.op \in (ReadCalls \cup WriteCalls \cup {"drop", "go"}) \ {"forward", "forwarded"}
              => t \in Callers
         /\ a.op = "go" => n > 0
         /\ a.op \in {"forward", "forwarded", "range"} => t \in Forwarders
<1>1. 1..n \subseteq Engines
  BY BoundsAssumption DEF Engines
<1>2. a \in Instructions
  <2>1. \A op \in Operations, m \in Mutexes : Instr(op, m) \in Instructions
    BY DEF Instr, Instructions
  <2>2. \A e \in 1..n : e \in Mutexes
    BY <1>1, HoldFacts
  <2>3. App \in Mutexes
    BY HoldFacts
  <2>4. /\ {"Lock", "Unlock", "RLock", "RUnlock"} \subseteq Operations
        /\ {"start", "stop", "close", "closeClient", "disable", "noClient", "client", "range",
            "forward", "forwarded", "go", "drop"} \subseteq Operations
        /\ ReadCalls \subseteq Operations /\ WriteCalls \subseteq Operations
    BY DEF Operations, RunnerOps, WriteCalls
  <2>5. CallInstructions(n) \subseteq Instructions
    <3> SUFFICES ASSUME NEW i \in CallInstructions(n) PROVE i \in Instructions
      OBVIOUS
    <3>1. CASE \E op \in {"Lock", "Unlock", "RLock", "RUnlock"}, m \in Mutexes : i = Instr(op, m)
      BY <3>1, <2>1, <2>4
    <3>2. CASE \E op \in {"start", "stop", "close", "closeClient", "disable", "noClient",
                          "client"}, e \in 1..n : i = Instr(op, e)
      BY <3>2, <2>1, <2>2, <2>4
    <3>3. CASE \E op \in (ReadCalls \cup WriteCalls \cup {"drop"}) \ {"forward", "forwarded"} :
                 i = Instr(op, App)
      BY <3>3, <2>1, <2>3, <2>4
    <3>4. CASE i = Instr("go", App)
      BY <3>4, <2>1, <2>3, <2>4
    <3> QED
      BY <3>1, <3>2, <3>3, <3>4 DEF CallInstructions, Do
  <2>6. ForwarderInstructions(n) \subseteq Instructions
    BY <2>1, <2>2, <2>3, <2>4 DEF ForwarderInstructions, Do, Lock, Unlock
  <2> QED
    BY <2>5, <2>6 DEF Own
<1>3. CASE t \in Callers
  <2>1. t \notin Forwarders /\ Own(t, n) = CallInstructions(n)
    BY <1>3, ThreadsAssumption DEF Own
  <2>2. a.op = "go" => n > 0
    BY <2>1 DEF CallInstructions, Instr, Do, ReadCalls, WriteCalls
  <2>3. a.op \notin {"forward", "forwarded", "range"}
    BY <2>1 DEF CallInstructions, Instr, Do, ReadCalls, WriteCalls
  <2>4. a.op \in {"start", "stop", "close", "closeClient", "disable", "noClient", "client"}
              => a.arg \in 1..n
    BY <2>1 DEF CallInstructions, Instr, Do, ReadCalls, WriteCalls
  <2> QED
    BY <1>2, <1>3, <2>2, <2>3, <2>4
<1>4. CASE t \notin Callers
  <2>1. t \in Forwarders /\ Own(t, n) = ForwarderInstructions(n)
    BY <1>4 DEF Threads, Own
  <2>2. a.op \in {"Lock", "Unlock", "forward", "forwarded", "range"}
    BY <2>1 DEF ForwarderInstructions, Instr, Do, Lock, Unlock
  <2> QED
    BY <1>2, <2>1, <2>2 DEF ReadCalls, WriteCalls
<1> QED
  BY <1>3, <1>4

LEMMA OwnGrows ==
  ASSUME NEW t \in Threads, NEW n \in Nat, NEW m \in Nat, n <= m
  PROVE  Own(t, n) \subseteq Own(t, m)
<1>1. 1..n \subseteq 1..m
  OBVIOUS
<1> QED
  BY <1>1 DEF Own, CallInstructions, ForwarderInstructions

\* What Turns says of each instruction, for one who can go on
LEMMA TurnsCases ==
  ASSUME NEW h \in Holds, NEW a, NEW k, Turns(h, a, k)
  PROVE  /\ a.op = "Lock" => \/ h[a.arg] = "none" /\ k = [h EXCEPT ![a.arg] = "write"]
                             \/ h[a.arg] = "write"
         /\ a.op = "RLock" => \/ h[a.arg] = "none" /\ k = [h EXCEPT ![a.arg] = "read"]
                              \/ h[a.arg] = "write"
         /\ a.op = "Unlock" => h[a.arg] = "write" /\ k = [h EXCEPT ![a.arg] = "none"]
         /\ a.op = "RUnlock" => h[a.arg] = "read" /\ k = [h EXCEPT ![a.arg] = "none"]
         /\ a.op \in {"start", "stop"} => k \in Bases /\ h = [k EXCEPT ![a.arg] = "write"]
         /\ a.op = "close" => k \in Bases /\ h = [k EXCEPT ![a.arg] = "read"]
         /\ a.op \in RunnerOps => h \in Bases /\ k = h
         /\ a.op \in ReadCalls => h = AppRead /\ k = Nothing
         /\ a.op \in WriteCalls => h = AppWrite /\ k = Nothing
<1>1. h # Stuck
  BY HoldFacts
<1> QED
  BY <1>1 DEF Turns, Bases, RunnerOps, ReadCalls, WriteCalls

\* Other code for one goroutine, that fits what it then holds
LEMMA FitsStep ==
  ASSUME Types, NEW t \in Threads, NEW h \in [Threads -> Holds], Fitting(h),
         runners' \in 0..MaxRunners, runners <= runners', NEW c, NEW hh \in Holds,
         code' = [code EXCEPT ![t] = c], Fits(Own(t, runners'), c, hh, Nothing)
  PROVE  /\ code' \in [Threads -> Seq(Instructions)]
         /\ [h EXCEPT ![t] = hh] \in [Threads -> Holds]
         /\ Fitting([h EXCEPT ![t] = hh])'
<1> DEFINE g == [h EXCEPT ![t] = hh]
<1>1. g \in [Threads -> Holds] /\ g[t] = hh /\ \A u \in Threads \ {t} : g[u] = h[u]
  OBVIOUS
<1>2. code'[t] = c /\ \A u \in Threads \ {t} : code'[u] = code[u]
  BY DEF Types
<1>3. ASSUME NEW u \in Threads PROVE Fits(Own(u, runners'), code'[u], g[u], Nothing)
  <2>1. CASE u = t
    BY <2>1, <1>1, <1>2
  <2>2. CASE u # t
    <3>1. Fits(Own(u, runners), code[u], h[u], Nothing)
      BY DEF Fitting
    <3>2. runners \in Nat /\ runners' \in Nat
      <4>1. runners \in 0..MaxRunners /\ runners' \in 0..MaxRunners
        BY DEF Types
      <4> QED
        BY <4>1
    <3>3. Own(u, runners) \subseteq Own(u, runners')
      BY <3>2, OwnGrows
    <3> HIDE DEF g
    <3>4. Fits(Own(u, runners'), code[u], h[u], Nothing)
      BY <3>1, <3>3, FitsMore
    <3>5. u \in Threads \ {t}
      BY <2>2
    <3> QED
      BY <3>4, <3>5, <1>1, <1>2
  <2> QED
    BY <2>1, <2>2
<1>4. c \in Seq(Instructions)
  <2>1. Own(t, runners') \subseteq Instructions
    BY OwnCases
  <2>2. c \in Seq(Own(t, runners'))
    BY DEF Fits
  <2> QED
    BY <2>1, <2>2
<1>5. code' \in [Threads -> Seq(Instructions)]
  BY <1>4 DEF Types
<1> QED
  BY <1>1, <1>3, <1>5 DEF Fitting

\* The next instruction of a goroutine that has one is its own.
LEMMA HeadOwn ==
  ASSUME AppInv, NEW t \in Threads, Busy(t)
  PROVE  Head(code[t]) \in Own(t, runners)
<1>1. PICK h \in [Threads -> Holds] : Fitting(h)
  BY DEF AppInv, LockInv
<1>2. Fits(Own(t, runners), code[t], h[t], Nothing)
  BY <1>1 DEF Fitting
<1>3. h[t] \in Holdings /\ Nothing \in Holdings
  BY HoldFacts
<1> QED
  BY <1>2, <1>3, FitsHead DEF Busy

\* An instruction that leaves the mutexes and makes way for what fits in its place
LEMMA GoesFits ==
  ASSUME AppInv, NEW t \in Threads, Busy(t), NEW more, Goes(t, more),
         locks' = locks, runners' \in 0..MaxRunners, runners <= runners',
         \A h \in Holds, k \in Holdings :
           Turns(h, Head(code[t]), k) => Fits(Own(t, runners'), more, h, k)
  PROVE  LockInv' /\ code' \in [Threads -> Seq(Instructions)]
<1>1. PICK h \in [Threads -> Holds] : Fitting(h) /\ \A m \in Mutexes : HeldAs(locks[m], m, h)
  BY DEF AppInv, LockInv
<1>2. Fits(Own(t, runners), code[t], h[t], Nothing)
  BY <1>1 DEF Fitting
<1>3. h[t] \in Holds /\ h[t] \in Holdings /\ Nothing \in Holdings
  BY HoldFacts
<1>4. PICK k \in Holdings : Turns(h[t], Head(code[t]), k) /\ Fits(Own(t, runners), Tail(code[t]), k, Nothing)
  BY <1>2, <1>3, FitsHead DEF Busy
<1>5. Fits(Own(t, runners'), more, h[t], k)
  BY <1>3, <1>4
<1>6. runners \in Nat /\ runners' \in Nat
  <2>1. runners \in 0..MaxRunners /\ runners' \in 0..MaxRunners
    BY DEF AppInv, Types
  <2> QED
    BY <2>1
<1>7. Own(t, runners) \subseteq Own(t, runners')
  BY <1>6, OwnGrows
<1>8. Fits(Own(t, runners'), Tail(code[t]), k, Nothing)
  BY <1>4, <1>7, FitsMore
<1>9. Fits(Own(t, runners'), more \o Tail(code[t]), h[t], Nothing)
  BY <1>3, <1>5, <1>8, FitsConcat
<1>10. code' = [code EXCEPT ![t] = more \o Tail(code[t])]
  BY DEF Goes, AppInv, Types
<1>11. [h EXCEPT ![t] = h[t]] = h
  OBVIOUS
<1>12. Fitting([h EXCEPT ![t] = h[t]])' /\ code' \in [Threads -> Seq(Instructions)]
  BY <1>1, <1>3, <1>9, <1>10, FitsStep DEF AppInv
<1>13. Fitting(h)'
  BY <1>11, <1>12
<1>14. \A m \in Mutexes : HeldAs(locks'[m], m, h)
  BY <1>1
<1> QED
  BY <1>12, <1>13, <1>14 DEF LockInv
-----------------------------------------------------------------------------
(* Mutexes                                                                 *)

\* Those that hold m hold it still.
LEMMA HeldSame ==
  ASSUME NEW l, NEW m, NEW h, NEW g, HeldAs(l, m, h), \A u \in Threads : g[u][m] = h[u][m]
  PROVE  HeldAs(l, m, g)
<1>1. Readers(m, g) = Readers(m, h)
  BY DEF Readers
<1> QED
  BY <1>1 DEF HeldAs

\* What there is to a step of t at a mutex: the goroutines hold h, and when the
\* instruction is done g, where t has w of it
AtMutex(t, h, w, g) ==
  LET m == Arg(t)
      op == Head(code[t]).op
  IN  /\ Fitting(h) /\ \A i \in Mutexes : HeldAs(locks[i], i, h)
      /\ m \in Mutexes
      /\ op = "Lock" => w = "write" /\ h[t][m] \in {"none", "write"}
      /\ op = "RLock" => w = "read" /\ h[t][m] \in {"none", "write"}
      /\ op = "Unlock" => w = "none" /\ h[t][m] = "write"
      /\ op = "RUnlock" => w = "none" /\ h[t][m] = "read"
      /\ g[t][m] = w
      /\ \A u \in Threads, i \in Mutexes : u # t \/ i # m => g[u][i] = h[u][i]
      /\ Goes(t, <<>>) /\ runners' = runners /\ ~(op \in {"Lock", "RLock"} /\ h[t][m] = "write")
           => code' \in [Threads -> Seq(Instructions)] /\ Fitting(g)'

LEMMA MutexStep ==
  ASSUME AppInv, NEW t \in Threads, Busy(t),
         Head(code[t]).op \in {"Lock", "RLock", "Unlock", "RUnlock"}
  PROVE  \E h \in [Threads -> Holds], w \in {"none", "read", "write"}, g \in [Threads -> Holds] :
           AtMutex(t, h, w, g)
<1> DEFINE a == Head(code[t])
           m == Arg(t)
<1>1. PICK h \in [Threads -> Holds] : Fitting(h) /\ \A i \in Mutexes : HeldAs(locks[i], i, h)
  BY DEF AppInv, LockInv
<1>2. Fits(Own(t, runners), code[t], h[t], Nothing)
  BY <1>1 DEF Fitting
<1>3. h[t] \in Holds /\ h[t] \in Holdings /\ Nothing \in Holdings
  BY HoldFacts
<1>4. PICK k \in Holdings : Turns(h[t], a, k) /\ Fits(Own(t, runners), Tail(code[t]), k, Nothing)
  BY <1>2, <1>3, FitsHead DEF Busy
<1>5. runners \in 0..MaxRunners
  BY DEF AppInv, Types
<1>6. m \in Mutexes
  <2>1. a \in Instructions
    BY <1>5, HeadOwn, OwnCases
  <2> QED
    BY <2>1 DEF Instructions, Arg
<1>7. PICK w \in {"none", "read", "write"} :
        /\ a.op = "Lock" => w = "write"
        /\ a.op = "RLock" => w = "read"
        /\ a.op \in {"Unlock", "RUnlock"} => w = "none"
  OBVIOUS
<1>8. /\ (a.op \in {"Lock", "RLock"} /\ h[t][m] = "write") \/ k = [h[t] EXCEPT ![m] = w]
      /\ a.op \in {"Lock", "RLock"} => h[t][m] \in {"none", "write"}
      /\ a.op = "Unlock" => h[t][m] = "write"
      /\ a.op = "RUnlock" => h[t][m] = "read"
  BY <1>3, <1>4, <1>7, TurnsCases DEF Arg
<1>9. PICK g \in [Threads -> Holds] : g = [h EXCEPT ![t] = [h[t] EXCEPT ![m] = w]]
  <2>1. [h[t] EXCEPT ![m] = w] \in Holds
    BY <1>3, <1>6, HoldFacts
  <2> HIDE DEF m
  <2> QED
    BY <2>1
<1>10. g[t][m] = w /\ \A u \in Threads, i \in Mutexes : u # t \/ i # m => g[u][i] = h[u][i]
  <2>1. [h[t] EXCEPT ![m] = w][m] = w /\ \A i \in Mutexes : i # m => [h[t] EXCEPT ![m] = w][i] = h[t][i]
    BY <1>3, <1>6 DEF Holds
  <2> HIDE DEF m
  <2>2. g[t] = [h[t] EXCEPT ![m] = w] /\ \A u \in Threads : u # t => g[u] = h[u]
    BY <1>9
  <2> QED
    BY <2>1, <2>2
<1>11. ASSUME Goes(t, <<>>), runners' = runners, ~(a.op \in {"Lock", "RLock"} /\ h[t][m] = "write")
       PROVE  code' \in [Threads -> Seq(Instructions)] /\ Fitting(g)'
  <2>1. k = [h[t] EXCEPT ![m] = w]
    BY <1>8, <1>11
  <2>2. k \in Holds
    BY <1>3, <1>6, <2>1, HoldFacts
  <2>3. Tail(code[t]) \in Seq(Own(t, runners))
    BY <1>4 DEF Fits
  <2>4. <<>> \o Tail(code[t]) = Tail(code[t])
    BY <2>3, ConcatEmptySeq
  <2>5. code' = [code EXCEPT ![t] = Tail(code[t])]
    BY <1>11, <2>4 DEF Goes, AppInv, Types
  <2>6. Fits(Own(t, runners'), Tail(code[t]), k, Nothing)
    BY <1>4, <1>11
  <2>7. runners' \in 0..MaxRunners /\ runners <= runners'
    BY <1>5, <1>11
  <2>8. code' \in [Threads -> Seq(Instructions)] /\ Fitting([h EXCEPT ![t] = k])'
    BY <1>1, <2>2, <2>5, <2>6, <2>7, FitsStep DEF AppInv
  <2>9. [h EXCEPT ![t] = k] = g
    BY <1>9, <2>1
  <2> QED
    BY <2>8, <2>9 DEF Fitting
<1>12. /\ a.op = "Lock" => w = "write" /\ h[t][m] \in {"none", "write"}
       /\ a.op = "RLock" => w = "read" /\ h[t][m] \in {"none", "write"}
       /\ a.op = "Unlock" => w = "none" /\ h[t][m] = "write"
       /\ a.op = "RUnlock" => w = "none" /\ h[t][m] = "read"
  BY <1>7, <1>8
<1>13. AtMutex(t, h, w, g)
  BY <1>1, <1>6, <1>9, <1>10, <1>11, <1>12 DEF AtMutex
<1> QED
  BY <1>13

LEMMA RLocksStep ==
  ASSUME AppInv, NEW t \in Threads, RLocks(t)
  PROVE  Types' /\ LockInv'
<1> DEFINE m == Arg(t)
           l == locks[m]
<1>1. At(t, "RLock") /\ Busy(t) /\ Head(code[t]).op = "RLock"
  BY DEF RLocks, At
<1>2. PICK h \in [Threads -> Holds], w \in {"none", "read", "write"}, g \in [Threads -> Holds] :
        AtMutex(t, h, w, g)
  BY <1>1, MutexStep
<1>3. m \in Mutexes /\ Fitting(h) /\ \A i \in Mutexes : HeldAs(locks[i], i, h)
  BY <1>2 DEF AtMutex
<1>4. l \in Mutex /\ HeldAs(l, m, h)
  BY <1>3 DEF AppInv, Types
<1>5. UNCHANGED <<call, calls, runners, runner, running, mqttClients, standalone, forwarding>>
  BY DEF RLocks, state
<1>6. CASE /\ t \in l.woken \/ (l.writer = None /\ l.pending = None)
           /\ locks' = [locks EXCEPT ![m].readers = @ + 1, ![m].woken = @ \ {t}]
           /\ Goes(t, <<>>)
  <2>1. l.writer = None
    BY <1>4, <1>6 DEF HeldAs
  <2>2. h[t][m] = "none" /\ w = "read"
    <3>1. h[t][m] # "write"
      BY <1>4, <2>1, ThreadsAssumption DEF HeldAs
    <3> QED
      BY <3>1, <1>1, <1>2 DEF AtMutex
  <2>3. /\ g[t][m] = "read"
        /\ \A u \in Threads, i \in Mutexes : u # t \/ i # m => g[u][i] = h[u][i]
        /\ code' \in [Threads -> Seq(Instructions)] /\ Fitting(g)'
    BY <1>1, <1>2, <1>5, <1>6, <2>2 DEF AtMutex
  <2> HIDE DEF m
  <2>4. /\ locks'[m] = [l EXCEPT !.readers = @ + 1, !.woken = @ \ {t}]
        /\ \A i \in Mutexes \ {m} : locks'[i] = locks[i]
        /\ locks' \in [Mutexes -> Mutex]
    <3>1. [l EXCEPT !.readers = @ + 1, !.woken = @ \ {t}] \in Mutex
      <4>1. l.readers + 1 \in Nat /\ l.woken \ {t} \in SUBSET Threads
        BY <1>4 DEF Mutex
      <4> HIDE DEF l
      <4> QED
        BY <1>4, <4>1 DEF Mutex
    <3>2. locks' = [locks EXCEPT ![m] = [l EXCEPT !.readers = @ + 1, !.woken = @ \ {t}]]
      BY <1>3, <1>6 DEF AppInv, Types, Mutex
    <3> QED
      BY <3>1, <3>2, <1>3 DEF AppInv, Types
  <2>5. HeldAs(locks'[m], m, g)
    <3>1. /\ locks'[m].writer = l.writer /\ locks'[m].readers = l.readers + 1
          /\ l.readers \in Nat
      BY <1>4, <2>4 DEF Mutex
    <3>2. Readers(m, g) = Readers(m, h) \cup {t} /\ t \notin Readers(m, h)
      BY <1>3, <2>2, <2>3 DEF Readers
    <3>3. IsFiniteSet(Readers(m, g)) /\ Cardinality(Readers(m, g)) = Cardinality(Readers(m, h)) + 1
      BY <1>4, <3>2, FS_AddElement DEF HeldAs
    <3>4. \A u \in Threads : g[u][m] = "write" <=> h[u][m] = "write"
      BY <1>3, <2>2, <2>3
    <3> QED
      BY <1>4, <2>1, <3>1, <3>3, <3>4 DEF HeldAs
  <2>6. \A i \in Mutexes : HeldAs(locks'[i], i, g)
    <3> SUFFICES ASSUME NEW i \in Mutexes, i # m PROVE HeldAs(locks'[i], i, g)
      BY <2>5
    <3>1. HeldAs(locks[i], i, h) /\ locks'[i] = locks[i] /\ \A u \in Threads : g[u][i] = h[u][i]
      BY <1>3, <2>3, <2>4, <2>5
    <3> QED
      BY <3>1, HeldSame
  <2> QED
    BY <1>5, <2>3, <2>4, <2>6 DEF LockInv, AppInv, Types
<1>7. CASE /\ locks' = [locks EXCEPT ![m].waiting = @ \cup {t}]
           /\ UNCHANGED code
  <2> HIDE DEF m
  <2>1. /\ locks'[m] = [l EXCEPT !.waiting = @ \cup {t}]
        /\ \A i \in Mutexes \ {m} : locks'[i] = locks[i]
        /\ locks' \in [Mutexes -> Mutex]
    <3>1. [l EXCEPT !.waiting = @ \cup {t}] \in Mutex
      BY <1>4 DEF Mutex
    <3>2. locks' = [locks EXCEPT ![m] = [l EXCEPT !.waiting = @ \cup {t}]]
      BY <1>3, <1>7 DEF AppInv, Types, Mutex
    <3> QED
      BY <3>1, <3>2, <1>3 DEF AppInv, Types
  <2>2. HeldAs(locks'[m], m, h)
    BY <1>4, <2>1 DEF HeldAs, Mutex
  <2>3. \A i \in Mutexes : HeldAs(locks'[i], i, h)
    BY <1>3, <2>1, <2>2
  <2>4. Fitting(h)'
    BY <1>3, <1>5, <1>7 DEF Fitting
  <2> QED
    BY <1>5, <1>7, <2>1, <2>3, <2>4 DEF LockInv, AppInv, Types
<1> QED
  BY <1>6, <1>7 DEF RLocks

LEMMA RUnlocksStep ==
  ASSUME AppInv, NEW t \in Threads, RUnlocks(t)
  PROVE  Types' /\ LockInv'
<1> DEFINE m == Arg(t)
           l == locks[m]
<1>1. At(t, "RUnlock") /\ Busy(t) /\ Head(code[t]).op = "RUnlock"
  BY DEF RUnlocks, At
<1>2. PICK h \in [Threads -> Holds], w \in {"none", "read", "write"}, g \in [Threads -> Holds] :
        AtMutex(t, h, w, g)
  BY <1>1, MutexStep
<1>3. m \in Mutexes /\ Fitting(h) /\ \A i \in Mutexes : HeldAs(locks[i], i, h)
  BY <1>2 DEF AtMutex
<1>4. l \in Mutex /\ HeldAs(l, m, h)
  BY <1>3 DEF AppInv, Types
<1>5. /\ UNCHANGED <<call, calls, runners, runner, running, mqttClients, standalone, forwarding>>
      /\ locks' = [locks EXCEPT ![m].readers = @ - 1]
      /\ Goes(t, <<>>)
  BY DEF RUnlocks, state
<1>6. h[t][m] = "read" /\ w = "none"
  BY <1>1, <1>2 DEF AtMutex
<1>7. /\ g[t][m] = "none"
      /\ \A u \in Threads, i \in Mutexes : u # t \/ i # m => g[u][i] = h[u][i]
      /\ code' \in [Threads -> Seq(Instructions)] /\ Fitting(g)'
  BY <1>1, <1>2, <1>5, <1>6 DEF AtMutex
<1> HIDE DEF m
<1>8. l.readers \in Nat /\ l.readers >= 1 /\ IsFiniteSet(Readers(m, h) \ {t})
        /\ Cardinality(Readers(m, h) \ {t}) = l.readers - 1
  <2>1. t \in Readers(m, h)
    BY <1>6 DEF Readers
  <2>2. IsFiniteSet(Readers(m, h)) /\ l.readers = Cardinality(Readers(m, h)) /\ l.readers \in Nat
    BY <1>4 DEF HeldAs, Mutex
  <2>3. /\ IsFiniteSet(Readers(m, h) \ {t})
        /\ Cardinality(Readers(m, h) \ {t}) = Cardinality(Readers(m, h)) - 1
    BY <2>1, <2>2, FS_RemoveElement
  <2>4. Cardinality(Readers(m, h) \ {t}) \in Nat
    BY <2>3, FS_CardinalityType
  <2> QED
    BY <2>2, <2>3, <2>4
<1>9. /\ locks'[m] = [l EXCEPT !.readers = @ - 1]
      /\ \A i \in Mutexes \ {m} : locks'[i] = locks[i]
      /\ locks' \in [Mutexes -> Mutex]
  <2>1. [l EXCEPT !.readers = @ - 1] \in Mutex
    BY <1>4, <1>8 DEF Mutex
  <2>2. locks' = [locks EXCEPT ![m] = [l EXCEPT !.readers = @ - 1]]
    BY <1>3, <1>5 DEF AppInv, Types, Mutex
  <2> QED
    BY <2>1, <2>2, <1>3 DEF AppInv, Types
<1>10. HeldAs(locks'[m], m, g)
  <2>1. locks'[m].writer = l.writer /\ locks'[m].readers = l.readers - 1
    BY <1>4, <1>9 DEF Mutex
  <2>2. Readers(m, g) = Readers(m, h) \ {t}
    BY <1>3, <1>7 DEF Readers
  <2>3. \A u \in Threads : g[u][m] = "write" <=> h[u][m] = "write"
    BY <1>3, <1>6, <1>7
  <2>4. l.writer = None
    BY <1>4, <1>8 DEF HeldAs
  <2> QED
    BY <1>4, <1>8, <2>1, <2>2, <2>3, <2>4 DEF HeldAs
<1>11. \A i \in Mutexes : HeldAs(locks'[i], i, g)
  <2> SUFFICES ASSUME NEW i \in Mutexes, i # m PROVE HeldAs(locks'[i], i, g)
    BY <1>10
  <2>1. HeldAs(locks[i], i, h) /\ locks'[i] = locks[i] /\ \A u \in Threads : g[u][i] = h[u][i]
    BY <1>3, <1>7, <1>9, <1>10
  <2> QED
    BY <2>1, HeldSame
<1> QED
  BY <1>5, <1>7, <1>9, <1>11 DEF LockInv, AppInv, Types

LEMMA LocksStep ==
  ASSUME AppInv, NEW t \in Threads, Locks(t)
  PROVE  Types' /\ LockInv'
<1> DEFINE m == Arg(t)
           l == locks[m]
<1>1. At(t, "Lock") /\ Busy(t) /\ Head(code[t]).op = "Lock"
  BY DEF Locks, At
<1>2. PICK h \in [Threads -> Holds], w \in {"none", "read", "write"}, g \in [Threads -> Holds] :
        AtMutex(t, h, w, g)
  BY <1>1, MutexStep
<1>3. m \in Mutexes /\ Fitting(h) /\ \A i \in Mutexes : HeldAs(locks[i], i, h)
  BY <1>2 DEF AtMutex
<1>4. l \in Mutex /\ HeldAs(l, m, h)
  BY <1>3 DEF AppInv, Types
<1>5. UNCHANGED <<call, calls, runners, runner, running, mqttClients, standalone, forwarding>>
  BY DEF Locks, state
<1>6. CASE /\ l.writer = None /\ l.pending = None
           /\ locks' = [locks EXCEPT ![m].pending = t]
           /\ UNCHANGED code
  <2> HIDE DEF m
  <2>1. /\ locks'[m] = [l EXCEPT !.pending = t]
        /\ \A i \in Mutexes \ {m} : locks'[i] = locks[i]
        /\ locks' \in [Mutexes -> Mutex]
    <3>1. [l EXCEPT !.pending = t] \in Mutex
      BY <1>4 DEF Mutex
    <3>2. locks' = [locks EXCEPT ![m] = [l EXCEPT !.pending = t]]
      BY <1>3, <1>6 DEF AppInv, Types, Mutex
    <3> QED
      BY <3>1, <3>2, <1>3 DEF AppInv, Types
  <2>2. HeldAs(locks'[m], m, h)
    BY <1>4, <1>6, <2>1 DEF HeldAs, Mutex
  <2>3. \A i \in Mutexes : HeldAs(locks'[i], i, h)
    BY <1>3, <2>1, <2>2
  <2>4. Fitting(h)'
    BY <1>3, <1>5, <1>6 DEF Fitting
  <2> QED
    BY <1>5, <1>6, <2>1, <2>3, <2>4 DEF LockInv, AppInv, Types
<1>7. CASE /\ l.pending = t /\ l.readers = 0 /\ l.woken = {}
           /\ locks' = [locks EXCEPT ![m].pending = None, ![m].writer = t]
           /\ Goes(t, <<>>)
  <2>1. l.writer = None
    BY <1>4, <1>7, ThreadsAssumption DEF HeldAs
  <2>2. h[t][m] = "none" /\ w = "write"
    <3>1. h[t][m] # "write"
      BY <1>4, <2>1, ThreadsAssumption DEF HeldAs
    <3> QED
      BY <3>1, <1>1, <1>2 DEF AtMutex
  <2>3. /\ g[t][m] = "write"
        /\ \A u \in Threads, i \in Mutexes : u # t \/ i # m => g[u][i] = h[u][i]
        /\ code' \in [Threads -> Seq(Instructions)] /\ Fitting(g)'
    BY <1>1, <1>2, <1>5, <1>7, <2>2 DEF AtMutex
  <2> HIDE DEF m
  <2>4. /\ locks'[m] = [l EXCEPT !.pending = None, !.writer = t]
        /\ \A i \in Mutexes \ {m} : locks'[i] = locks[i]
        /\ locks' \in [Mutexes -> Mutex]
    <3>1. [l EXCEPT !.pending = None, !.writer = t] \in Mutex
      BY <1>4 DEF Mutex
    <3>2. locks' = [locks EXCEPT ![m] = [l EXCEPT !.pending = None, !.writer = t]]
      BY <1>3, <1>7 DEF AppInv, Types, Mutex
    <3> QED
      BY <3>1, <3>2, <1>3 DEF AppInv, Types
  <2>5. HeldAs(locks'[m], m, g)
    <3>1. /\ locks'[m].writer = t /\ locks'[m].readers = 0 /\ locks'[m].pending = None
          /\ locks'[m].woken = {}
      BY <1>4, <1>7, <2>4 DEF Mutex
    <3>2. Readers(m, g) = Readers(m, h)
      BY <1>3, <2>2, <2>3 DEF Readers
    <3>3. \A u \in Threads : g[u][m] = "write" <=> u = t
      BY <1>3, <1>4, <2>1, <2>3, ThreadsAssumption DEF HeldAs
    <3> QED
      BY <1>4, <1>7, <3>1, <3>2, <3>3 DEF HeldAs
  <2>6. \A i \in Mutexes : HeldAs(locks'[i], i, g)
    <3> SUFFICES ASSUME NEW i \in Mutexes, i # m PROVE HeldAs(locks'[i], i, g)
      BY <2>5
    <3>1. HeldAs(locks[i], i, h) /\ locks'[i] = locks[i] /\ \A u \in Threads : g[u][i] = h[u][i]
      BY <1>3, <2>3, <2>4, <2>5
    <3> QED
      BY <3>1, HeldSame
  <2> QED
    BY <1>5, <2>3, <2>4, <2>6 DEF LockInv, AppInv, Types
<1> QED
  BY <1>6, <1>7 DEF Locks

LEMMA UnlocksStep ==
  ASSUME AppInv, NEW t \in Threads, Unlocks(t)
  PROVE  Types' /\ LockInv'
<1> DEFINE m == Arg(t)
           l == locks[m]
<1>1. At(t, "Unlock") /\ Busy(t) /\ Head(code[t]).op = "Unlock"
  BY DEF Unlocks, At
<1>2. PICK h \in [Threads -> Holds], w \in {"none", "read", "write"}, g \in [Threads -> Holds] :
        AtMutex(t, h, w, g)
  BY <1>1, MutexStep
<1>3. m \in Mutexes /\ Fitting(h) /\ \A i \in Mutexes : HeldAs(locks[i], i, h)
  BY <1>2 DEF AtMutex
<1>4. l \in Mutex /\ HeldAs(l, m, h)
  BY <1>3 DEF AppInv, Types
<1>5. /\ UNCHANGED <<call, calls, runners, runner, running, mqttClients, standalone, forwarding>>
      /\ locks' = [locks EXCEPT ![m] = [Free EXCEPT !.woken = l.waiting]]
      /\ Goes(t, <<>>)
  BY DEF Unlocks, state
<1>6. h[t][m] = "write" /\ w = "none"
  BY <1>1, <1>2 DEF AtMutex
<1>7. /\ g[t][m] = "none"
      /\ \A u \in Threads, i \in Mutexes : u # t \/ i # m => g[u][i] = h[u][i]
      /\ code' \in [Threads -> Seq(Instructions)] /\ Fitting(g)'
  BY <1>1, <1>2, <1>5, <1>6 DEF AtMutex
<1> HIDE DEF m
<1>8. l.writer = t /\ l.readers = 0
  BY <1>4, <1>6, ThreadsAssumption DEF HeldAs
<1>9. /\ locks'[m] = [Free EXCEPT !.woken = l.waiting]
      /\ \A i \in Mutexes \ {m} : locks'[i] = locks[i]
      /\ locks' \in [Mutexes -> Mutex]
  <2>1. [Free EXCEPT !.woken = l.waiting] \in Mutex
    BY <1>4 DEF Mutex, Free
  <2> QED
    BY <2>1, <1>3, <1>5 DEF AppInv, Types
<1>10. HeldAs(locks'[m], m, g)
  <2>1. locks'[m].writer = None /\ locks'[m].readers = 0
    BY <1>9 DEF Free
  <2>2. Readers(m, g) = Readers(m, h)
    BY <1>3, <1>6, <1>7 DEF Readers
  <2>3. \A u \in Threads : g[u][m] # "write"
    BY <1>3, <1>4, <1>7, <1>8 DEF HeldAs
  <2> QED
    BY <1>4, <1>8, <2>1, <2>2, <2>3, ThreadsAssumption DEF HeldAs
<1>11. \A i \in Mutexes : HeldAs(locks'[i], i, g)
  <2> SUFFICES ASSUME NEW i \in Mutexes, i # m PROVE HeldAs(locks'[i], i, g)
    BY <1>10
  <2>1. HeldAs(locks[i], i, h) /\ locks'[i] = locks[i] /\ \A u \in Threads : g[u][i] = h[u][i]
    BY <1>3, <1>7, <1>9, <1>10
  <2> QED
    BY <2>1, HeldSame
<1> QED
  BY <1>5, <1>7, <1>9, <1>11 DEF LockInv, AppInv, Types
-----------------------------------------------------------------------------
(* Engines and runners                                                     *)

LEMMA RunnerCounts ==
  ASSUME NEW n \in 0..MaxRunners
  PROVE  n <= n /\ n \in Nat
OBVIOUS

\* A step at no mutex that leaves all but code, running and the clients
LEMMA PlainStep ==
  ASSUME AppInv, NEW t \in Threads, Busy(t), NEW more, Goes(t, more),
         \A h \in Holds, k \in Holdings :
           Turns(h, Head(code[t]), k) => Fits(Own(t, runners), more, h, k),
         UNCHANGED <<locks, calls, runners>>,
         call' \in [Threads -> Calls \cup {"", "forwardScans"}],
         runner' \in {NoRunner, runners}, running' \in [Engines -> BOOLEAN],
         mqttClients' \subseteq 1..runners, standalone' \in BOOLEAN, forwarding' \in BOOLEAN
  PROVE  Types' /\ LockInv'
<1>1. runners' \in 0..MaxRunners /\ runners <= runners'
  <2>1. runners \in 0..MaxRunners
    BY DEF AppInv, Types
  <2>2. \A n \in 0..MaxRunners : n <= n
    BY RunnerCounts
  <2>3. runners' = runners
    OBVIOUS
  <2> QED
    BY <2>1, <2>2, <2>3
<1>2. \A h \in Holds, k \in Holdings :
        Turns(h, Head(code[t]), k) => Fits(Own(t, runners'), more, h, k)
  OBVIOUS
<1>3. LockInv' /\ code' \in [Threads -> Seq(Instructions)]
  BY <1>1, <1>2, GoesFits
<1> QED
  BY <1>3 DEF AppInv, Types

\* One who runs an instruction of a call
LEMMA CallerStep ==
  ASSUME AppInv, NEW t \in Threads, Busy(t),
         Head(code[t]).op \in ((ReadCalls \cup WriteCalls \cup RunnerOps \cup {"start", "stop", "close"})
                                  \ {"forward", "forwarded"})
  PROVE  /\ t \in Callers /\ t \notin Forwarders
         /\ Own(t, runners) = CallInstructions(runners) /\ Own(t, runners') = CallInstructions(runners')
         /\ runners \in 0..MaxRunners /\ runners \in Nat
         /\ Head(code[t]).op \in {"start", "stop", "close", "closeClient", "disable", "noClient", "client"}
              => Arg(t) \in 1..runners /\ Arg(t) \in Engines /\ Arg(t) \in Mutexes
<1>1. runners \in 0..MaxRunners
  BY DEF AppInv, Types
<1>2. Head(code[t]) \in Own(t, runners)
  BY HeadOwn
<1>3. t \in Callers
  BY <1>1, <1>2, OwnCases DEF RunnerOps
<1>4. Head(code[t]).op \in {"start", "stop", "close", "closeClient", "disable", "noClient", "client"}
        => Arg(t) \in 1..runners
  BY <1>1, <1>2, OwnCases DEF Arg
<1>5. 1..runners \subseteq Engines /\ runners \in Nat
  BY <1>1, BoundsAssumption DEF Engines
<1> QED
  BY <1>1, <1>3, <1>4, <1>5, HoldFacts, ThreadsAssumption DEF Own

LEMMA EngineStartStep ==
  ASSUME AppInv, NEW t \in Threads, EngineStart(t)
  PROVE  Types' /\ LockInv'
<1> DEFINE e == Arg(t)
           S == CallInstructions(runners)
<1>1. At(t, "start") /\ Busy(t) /\ Head(code[t]).op = "start"
  BY DEF EngineStart, At
<1>2. e \in 1..runners /\ e \in Engines /\ e \in Mutexes /\ Own(t, runners) = S /\ runners \in Nat
  BY <1>1, CallerStep
<1>3. running[e] \in BOOLEAN
  BY <1>2 DEF AppInv, Types
<1>4. ASSUME NEW h \in Holds, NEW k \in Holdings, Turns(h, Head(code[t]), k)
      PROVE  Fits(Own(t, runners), <<Unlock(e)>> \o When(~running[e], Callback), h, k)
  <2>1. k \in Bases /\ h = [k EXCEPT ![e] = "write"]
    BY <1>1, <1>4, TurnsCases DEF Arg
  <2>2. k \in Holds /\ k[App] \in {"none", "write"} /\ h[e] = "write" /\ [h EXCEPT ![e] = "none"] = k
    BY <1>2, <2>1, HoldFacts DEF Bases
  <2>3. Unlock(e) \in S
    BY <1>2, CallHas
  <2>4. Fits(S, Callback, k, k)
    BY <1>2, <2>2, FitsCallbacks
  <2> HIDE DEF S, e
  <2>5. Fits(S, <<Unlock(e)>>, h, k)
    BY <1>2, <2>2, <2>3, FitsUnlock
  <2>6. Fits(S, When(~running[e], Callback), k, k)
    BY <1>3, <2>2, <2>4, FitsWhen
  <2> QED
    BY <1>2, <2>5, <2>6, FitsConcat
<1>5. /\ Goes(t, <<Unlock(e)>> \o When(~running[e], Callback))
      /\ running' = [running EXCEPT ![e] = TRUE]
      /\ UNCHANGED <<locks, call, calls, runners, runner, mqttClients, standalone, forwarding>>
  BY DEF EngineStart
<1>6. running' \in [Engines -> BOOLEAN]
  BY <1>5 DEF AppInv, Types
<1> HIDE DEF e, S
<1> QED
  BY <1>1, <1>4, <1>5, <1>6, PlainStep DEF AppInv, Types

LEMMA EngineStopStep ==
  ASSUME AppInv, NEW t \in Threads, EngineStop(t)
  PROVE  Types' /\ LockInv'
<1> DEFINE e == Arg(t)
           S == CallInstructions(runners)
<1>1. At(t, "stop") /\ Busy(t) /\ Head(code[t]).op = "stop"
  BY DEF EngineStop, At
<1>2. e \in 1..runners /\ e \in Engines /\ e \in Mutexes /\ Own(t, runners) = S /\ runners \in Nat
  BY <1>1, CallerStep
<1>3. running[e] \in BOOLEAN
  BY <1>2 DEF AppInv, Types
<1>4. ASSUME NEW h \in Holds, NEW k \in Holdings, Turns(h, Head(code[t]), k)
      PROVE  Fits(Own(t, runners), When(running[e], Callback) \o <<Unlock(e)>>, h, k)
  <2>1. k \in Bases /\ h = [k EXCEPT ![e] = "write"]
    BY <1>1, <1>4, TurnsCases DEF Arg
  <2>2. h[App] \in {"none", "write"} /\ h[e] = "write" /\ [h EXCEPT ![e] = "none"] = k
    BY <1>2, <2>1, HoldFacts DEF Bases
  <2>3. Unlock(e) \in S
    BY <1>2, CallHas
  <2>4. Fits(S, Callback, h, h)
    BY <1>2, <2>2, FitsCallbacks
  <2>5. h \in Holdings
    BY HoldFacts
  <2> HIDE DEF S, e
  <2>6. Fits(S, <<Unlock(e)>>, h, k)
    BY <1>2, <2>2, <2>3, FitsUnlock
  <2>7. Fits(S, When(running[e], Callback), h, h)
    BY <1>3, <2>4, <2>5, FitsWhen
  <2> QED
    BY <1>2, <2>5, <2>6, <2>7, FitsConcat
<1>5. /\ Goes(t, When(running[e], Callback) \o <<Unlock(e)>>)
      /\ running' = [running EXCEPT ![e] = FALSE]
      /\ UNCHANGED <<locks, call, calls, runners, runner, mqttClients, standalone, forwarding>>
  BY DEF EngineStop
<1>6. running' \in [Engines -> BOOLEAN]
  BY <1>5 DEF AppInv, Types
<1> HIDE DEF e, S
<1> QED
  BY <1>1, <1>4, <1>5, <1>6, PlainStep DEF AppInv, Types

LEMMA RunnerCloseStep ==
  ASSUME AppInv, NEW t \in Threads, RunnerClose(t)
  PROVE  Types' /\ LockInv'
<1> DEFINE e == Arg(t)
           S == CallInstructions(runners)
<1>1. At(t, "close") /\ Busy(t) /\ Head(code[t]).op = "close"
  BY DEF RunnerClose, At
<1>2. /\ e \in 1..runners /\ e \in Engines /\ e \in Mutexes /\ Own(t, runners) = S
      /\ runners \in Nat /\ runners \in 0..MaxRunners
  BY <1>1, CallerStep
<1>3. running[e] \in BOOLEAN
  BY <1>2 DEF AppInv, Types
<1>4. ASSUME NEW h \in Holds, NEW k \in Holdings, Turns(h, Head(code[t]), k)
      PROVE  Fits(Own(t, runners), <<RUnlock(e)>> \o When(running[e], Stop(e)), h, k)
  <2>1. k \in Bases /\ h = [k EXCEPT ![e] = "read"]
    BY <1>1, <1>4, TurnsCases DEF Arg
  <2>2. h[e] = "read" /\ [h EXCEPT ![e] = "none"] = k
    BY <1>2, <2>1, HoldFacts DEF Bases
  <2>3. RUnlock(e) \in S
    BY <1>2, CallHas
  <2>4. Fits(S, Stop(e), k, k)
    BY <1>2, <2>1, FitsEngine
  <2> HIDE DEF S, e
  <2>5. Fits(S, <<RUnlock(e)>>, h, k)
    BY <1>2, <2>2, <2>3, FitsRUnlock
  <2>6. Fits(S, When(running[e], Stop(e)), k, k)
    BY <1>3, <2>4, FitsWhen
  <2> QED
    BY <1>2, <2>5, <2>6, FitsConcat
<1>5. /\ Goes(t, <<RUnlock(e)>> \o When(running[e], Stop(e)))
      /\ UNCHANGED <<locks, call, calls, runners, runner, running, mqttClients, standalone, forwarding>>
  BY DEF RunnerClose, state
<1> HIDE DEF e, S
<1> QED
  BY <1>1, <1>4, <1>5, PlainStep DEF AppInv, Types

LEMMA RunnerCloseClientStep ==
  ASSUME AppInv, NEW t \in Threads, RunnerCloseClient(t)
  PROVE  Types' /\ LockInv'
<1> DEFINE S == CallInstructions(runners)
<1>1. At(t, "closeClient") /\ Busy(t) /\ Head(code[t]).op = "closeClient"
  BY DEF RunnerCloseClient, At
<1>2. Own(t, runners) = S /\ runners \in Nat
  BY <1>1, CallerStep DEF RunnerOps
<1>3. ASSUME NEW h \in Holds, NEW k \in Holdings, Turns(h, Head(code[t]), k)
      PROVE  Fits(Own(t, runners), When(Arg(t) \in mqttClients, MqttCallback), h, k)
  <2>1. h \in Bases /\ h = k
    BY <1>1, <1>3, TurnsCases DEF RunnerOps
  <2>2. h[App] \in {"none", "write"} /\ h \in Holdings
    BY <2>1, HoldFacts DEF Bases
  <2>3. Fits(S, MqttCallback, h, h)
    BY <1>2, <2>2, FitsCallbacks
  <2> HIDE DEF S
  <2>4. (Arg(t) \in mqttClients) \in BOOLEAN
    OBVIOUS
  <2> QED
    BY <1>2, <2>1, <2>2, <2>3, <2>4, FitsWhen
<1>4. /\ Goes(t, When(Arg(t) \in mqttClients, MqttCallback))
      /\ UNCHANGED <<locks, call, calls, runners, runner, running, mqttClients, standalone, forwarding>>
  BY DEF RunnerCloseClient, state
<1> HIDE DEF S
<1> QED
  BY <1>1, <1>3, <1>4, PlainStep DEF AppInv, Types

LEMMA RunnerDisableStep ==
  ASSUME AppInv, NEW t \in Threads, RunnerDisable(t)
  PROVE  Types' /\ LockInv'
<1> DEFINE e == Arg(t)
           S == CallInstructions(runners)
           more == When(e \in mqttClients, MqttCallback) \o <<Instr("noClient", e)>> \o SetMQTTClient(e)
<1>1. At(t, "disable") /\ Busy(t) /\ Head(code[t]).op = "disable"
  BY DEF RunnerDisable, At
<1>2. e \in 1..runners /\ Own(t, runners) = S /\ runners \in Nat /\ runners \in 0..MaxRunners
  BY <1>1, CallerStep DEF RunnerOps
<1>3. ASSUME NEW h \in Holds, NEW k \in Holdings, Turns(h, Head(code[t]), k)
      PROVE  Fits(Own(t, runners), more, h, k)
  <2>1. h \in Bases /\ h = k
    BY <1>1, <1>3, TurnsCases DEF RunnerOps
  <2>2. h[App] \in {"none", "write"} /\ h \in Holdings
    BY <2>1, HoldFacts DEF Bases
  <2>3. Fits(S, MqttCallback, h, h) /\ Fits(S, SetMQTTClient(e), h, h)
    BY <1>2, <2>1, <2>2, FitsCallbacks, FitsEngine
  <2>4. Instr("noClient", e) \in S
    BY <1>2, CallHas
  <2>5. Turns(h, Instr("noClient", e), h)
    BY <2>1 DEF Turns, Instr, RunnerOps, Bases
  <2> HIDE DEF S, e
  <2>6. Fits(S, <<Instr("noClient", e)>>, h, h)
    BY <2>2, <2>4, <2>5, FitsOne
  <2>7. (e \in mqttClients) \in BOOLEAN
    OBVIOUS
  <2>8. Fits(S, When(e \in mqttClients, MqttCallback), h, h)
    BY <2>2, <2>3, <2>7, FitsWhen
  <2>9. Fits(S, When(e \in mqttClients, MqttCallback) \o <<Instr("noClient", e)>>, h, h)
    BY <2>2, <2>6, <2>8, FitsConcat
  <2>10. Fits(S, more, h, h)
    BY <2>2, <2>3, <2>9, FitsConcat
  <2> QED
    BY <1>2, <2>1, <2>10
<1>4. /\ Goes(t, more)
      /\ UNCHANGED <<locks, call, calls, runners, runner, running, mqttClients, standalone, forwarding>>
  BY DEF RunnerDisable, state
<1> HIDE DEF e, S, more
<1> QED
  BY <1>1, <1>3, <1>4, PlainStep DEF AppInv, Types

LEMMA RunnerNoClientStep ==
  ASSUME AppInv, NEW t \in Threads, RunnerNoClient(t)
  PROVE  Types' /\ LockInv'
<1>1. At(t, "noClient") /\ Busy(t) /\ Head(code[t]).op = "noClient"
  BY DEF RunnerNoClient, At
<1>2. ASSUME NEW h \in Holds, NEW k \in Holdings, Turns(h, Head(code[t]), k)
      PROVE  Fits(Own(t, runners), <<>>, h, k)
  <2>1. h = k
    BY <1>1, <1>2, TurnsCases DEF RunnerOps
  <2> QED
    BY <2>1, FitsEmpty
<1>3. /\ Goes(t, <<>>)
      /\ mqttClients' = mqttClients \ {Arg(t)}
      /\ UNCHANGED <<locks, call, calls, runners, runner, running, standalone, forwarding>>
  BY DEF RunnerNoClient
<1> QED
  BY <1>1, <1>2, <1>3, PlainStep DEF AppInv, Types

LEMMA RunnerClientStep ==
  ASSUME AppInv, NEW t \in Threads, RunnerClient(t)
  PROVE  Types' /\ LockInv'
<1> DEFINE e == Arg(t)
           S == CallInstructions(runners)
<1>1. At(t, "client") /\ Busy(t) /\ Head(code[t]).op = "client"
  BY DEF RunnerClient, At
<1>2. e \in 1..runners /\ Own(t, runners) = S /\ runners \in Nat /\ runners \in 0..MaxRunners
  BY <1>1, CallerStep DEF RunnerOps
<1>3. ASSUME NEW h \in Holds, NEW k \in Holdings, Turns(h, Head(code[t]), k)
      PROVE  Fits(Own(t, runners), SetMQTTClient(e), h, k) /\ Fits(Own(t, runners), <<>>, h, k)
  <2>1. h \in Bases /\ h = k
    BY <1>1, <1>3, TurnsCases DEF RunnerOps
  <2>2. Fits(S, SetMQTTClient(e), h, h)
    BY <1>2, <2>1, FitsEngine
  <2>3. Fits(S, <<>>, h, h)
    BY <2>1, FitsEmpty
  <2> QED
    BY <1>2, <2>1, <2>2, <2>3
<1>4. UNCHANGED <<locks, call, calls, runners, runner, running, standalone, forwarding>>
  BY DEF RunnerClient
<1>5. CASE mqttClients' = mqttClients \cup {e} /\ Goes(t, SetMQTTClient(e))
  <2>1. mqttClients' \subseteq 1..runners
    BY <1>2, <1>5 DEF AppInv, Types
  <2> HIDE DEF e, S
  <2> QED
    BY <1>1, <1>3, <1>4, <1>5, <2>1, PlainStep DEF AppInv, Types
<1>6. CASE mqttClients' = mqttClients \ {e} /\ Goes(t, <<>>)
  <2> HIDE DEF e, S
  <2> QED
    BY <1>1, <1>3, <1>4, <1>6, PlainStep DEF AppInv, Types
<1> QED
  BY <1>5, <1>6 DEF RunnerClient
-----------------------------------------------------------------------------
(* The application's calls                                                 *)

\* What they are made of, with n runners
LEMMA CallParts ==
  ASSUME NEW n \in 0..MaxRunners
  PROVE  LET S == CallInstructions(n) IN
         /\ Fits(S, <<Unlock(App)>>, AppWrite, Nothing)
         /\ Fits(S, <<RUnlock(App)>>, AppRead, Nothing)
         /\ Fits(S, <<Lock(App)>>, Nothing, AppWrite)
         /\ Fits(S, <<RLock(App)>>, Nothing, AppRead)
         /\ \A op \in WriteCalls \ {"forward", "forwarded"} : Fits(S, <<Do(op)>>, AppWrite, Nothing)
         /\ \A op \in ReadCalls : Fits(S, <<Do(op)>>, AppRead, Nothing)
         /\ Fits(S, <<Do("drop")>>, AppWrite, AppWrite)
         /\ n > 0 => Fits(S, <<Do("go")>>, Nothing, Nothing)
         /\ \A e \in 1..n, op \in {"disable", "client"}, b \in Bases : Fits(S, <<Instr(op, e)>>, b, b)
         /\ \A e \in 1..n : Fits(S, <<RLock(e), RUnlock(e)>>, AppRead, AppRead)
<1> DEFINE S == CallInstructions(n)
<1>1. n \in Nat /\ 1..n \subseteq Engines /\ 1..n \subseteq Mutexes
  BY HoldFacts, BoundsAssumption DEF Engines
<1>2. /\ {Unlock(App), RUnlock(App), Lock(App), RLock(App), Do("drop")} \subseteq S
      /\ \A op \in WriteCalls \ {"forward", "forwarded"} : Do(op) \in S
      /\ \A op \in ReadCalls : Do(op) \in S
      /\ n > 0 => Do("go") \in S
      /\ \A e \in 1..n, op \in {"disable", "client"} : Instr(op, e) \in S
      /\ \A e \in 1..n : RLock(e) \in S /\ RUnlock(e) \in S
  <2>1. \A op \in ReadCalls : op \notin {"forward", "forwarded"}
    BY DEF ReadCalls
  <2>2. {Unlock(App), RUnlock(App), Lock(App), RLock(App)} \subseteq S
    BY <1>1, CallHas, HoldFacts
  <2>3. \A op \in (ReadCalls \cup WriteCalls \cup {"drop"}) \ {"forward", "forwarded"} : Do(op) \in S
    BY <1>1, CallHas
  <2>4. \A e \in 1..n : RLock(e) \in S /\ RUnlock(e) \in S
    BY <1>1, CallHas
  <2>5. \A e \in 1..n, op \in {"disable", "client"} : Instr(op, e) \in S
    BY <1>1, CallHas
  <2>6. n > 0 => Do("go") \in S
    BY <1>1, CallHas
  <2> HIDE DEF S
  <2> QED
    BY <2>1, <2>2, <2>3, <2>4, <2>5, <2>6
<1> HIDE DEF S
<1>3. /\ Nothing \in Holdings /\ AppRead \in Holdings /\ AppWrite \in Holdings
      /\ Nothing \in Holds /\ AppRead \in Holds /\ AppWrite \in Holds
      /\ App \in Mutexes /\ Nothing[App] = "none" /\ AppRead[App] = "read" /\ AppWrite[App] = "write"
      /\ [AppRead EXCEPT ![App] = "none"] = Nothing /\ [AppWrite EXCEPT ![App] = "none"] = Nothing
      /\ [Nothing EXCEPT ![App] = "read"] = AppRead /\ [Nothing EXCEPT ![App] = "write"] = AppWrite
  BY HoldFacts DEF AppRead, AppWrite
<1>4. Fits(S, <<Unlock(App)>>, AppWrite, Nothing)
  BY <1>2, <1>3, FitsUnlock
<1>5. Fits(S, <<RUnlock(App)>>, AppRead, Nothing)
  BY <1>2, <1>3, FitsRUnlock
<1>6. Fits(S, <<Lock(App)>>, Nothing, AppWrite)
  BY <1>2, <1>3, FitsLock
<1>7. Fits(S, <<RLock(App)>>, Nothing, AppRead)
  BY <1>2, <1>3, FitsRLock
<1>8. ASSUME NEW op \in WriteCalls \ {"forward", "forwarded"}
      PROVE  Fits(S, <<Do(op)>>, AppWrite, Nothing)
  <2>1. Turns(AppWrite, Do(op), Nothing)
    BY DEF Turns, Do, Instr
  <2> QED
    BY <1>2, <1>3, <2>1, FitsOne
<1>9. ASSUME NEW op \in ReadCalls
      PROVE  Fits(S, <<Do(op)>>, AppRead, Nothing)
  <2>1. Turns(AppRead, Do(op), Nothing)
    BY DEF Turns, Do, Instr
  <2> QED
    BY <1>2, <1>3, <2>1, FitsOne
<1>10. Fits(S, <<Do("drop")>>, AppWrite, AppWrite)
  <2>1. Turns(AppWrite, Do("drop"), AppWrite)
    BY DEF Turns, Do, Instr, RunnerOps
  <2> QED
    BY <1>2, <1>3, <2>1, FitsOne
<1>11. ASSUME n > 0
       PROVE  Fits(S, <<Do("go")>>, Nothing, Nothing)
  <2>1. Turns(Nothing, Do("go"), Nothing)
    BY DEF Turns, Do, Instr, RunnerOps
  <2> QED
    BY <1>2, <1>3, <1>11, <2>1, FitsOne
<1>12. ASSUME NEW e \in 1..n, NEW op \in {"disable", "client"}, NEW b \in Bases
       PROVE  Fits(S, <<Instr(op, e)>>, b, b)
  <2>1. Turns(b, Instr(op, e), b)
    BY DEF Turns, Instr, RunnerOps, Bases
  <2>2. Instr(op, e) \in S /\ b \in Holdings
    BY <1>2, <1>3 DEF Bases
  <2> QED
    BY <2>1, <2>2, FitsOne
<1>13. ASSUME NEW e \in 1..n
       PROVE  Fits(S, <<RLock(e), RUnlock(e)>>, AppRead, AppRead)
  <2> DEFINE r == [AppRead EXCEPT ![e] = "read"]
  <2>1. e \in Engines /\ e \in Mutexes
    BY <1>1
  <2>2. /\ AppRead[e] = "none" /\ r[e] = "read" /\ [r EXCEPT ![e] = "none"] = AppRead
        /\ r \in Holds /\ r \in Holdings
    BY <2>1, <1>3, HoldFacts
  <2>3. RLock(e) \in S /\ RUnlock(e) \in S
    BY <1>2
  <2>4. Fits(S, <<RLock(e)>>, AppRead, r)
    BY <1>3, <2>1, <2>2, <2>3, FitsRLock
  <2> HIDE DEF r
  <2>5. Fits(S, <<RUnlock(e)>>, r, AppRead)
    BY <2>1, <2>2, <2>3, FitsRUnlock
  <2> QED
    BY <1>3, <2>2, <2>3, <2>4, <2>5, FitsTwo
<1> QED
  BY <1>4, <1>5, <1>6, <1>7, <1>8, <1>9, <1>10, <1>11, <1>12, <1>13 DEF S

\* A call that begins under the lock of a.mu has no more of it when it is done,
\* if what it puts in its place gives the lock back.
LEMMA CallStep ==
  ASSUME AppInv, NEW t \in Threads, Busy(t),
         Head(code[t]).op \in (ReadCalls \cup WriteCalls) \ {"forward", "forwarded"},
         NEW more, Goes(t, more),
         Fits(CallInstructions(runners), more,
              IF Head(code[t]).op \in ReadCalls THEN AppRead ELSE AppWrite, Nothing),
         UNCHANGED <<locks, call, calls, runners, runner, running, mqttClients, forwarding>>,
         standalone' \in BOOLEAN
  PROVE  Types' /\ LockInv'
<1>1. Own(t, runners) = CallInstructions(runners)
  BY CallerStep DEF ReadCalls, WriteCalls
<1>2. ASSUME NEW h \in Holds, NEW k \in Holdings, Turns(h, Head(code[t]), k)
      PROVE  Fits(Own(t, runners), more, h, k)
  <2>1. k = Nothing /\ h = IF Head(code[t]).op \in ReadCalls THEN AppRead ELSE AppWrite
    <3>1. Head(code[t]).op \in WriteCalls => Head(code[t]).op \notin ReadCalls
      BY DEF ReadCalls, WriteCalls
    <3> QED
      BY <1>2, <3>1, TurnsCases
  <2> QED
    BY <1>1, <2>1
<1> QED
  BY <1>2, PlainStep DEF AppInv, Types

\* a.runner, where there is one, is an engine.
LEMMA RunnerType ==
  ASSUME AppInv
  PROVE  /\ runners \in 0..MaxRunners /\ runners \in Nat
         /\ runner # NoRunner => runner \in 1..runners /\ runners > 0
         /\ (runner # NoRunner) \in BOOLEAN /\ standalone \in BOOLEAN
         /\ Nothing \in Bases /\ AppWrite \in Bases
         /\ Nothing \in Holdings /\ AppRead \in Holdings /\ AppWrite \in Holdings
         /\ Fits(CallInstructions(runners), MqttCallback, AppWrite, AppWrite)
         /\ Fits(CallInstructions(runners), MqttCallback, Nothing, Nothing)
<1>1. runners \in 0..MaxRunners /\ runner \in {NoRunner, runners} /\ standalone \in BOOLEAN
  BY DEF AppInv, Types
<1>2. runners \in Nat /\ (runner # NoRunner => runner \in 1..runners /\ runners > 0)
  BY <1>1 DEF NoRunner
<1> QED
  BY <1>1, <1>2, HoldFacts, FitsCallbacks DEF Bases

\* Runner.Close under the lock
LEMMA FitsClose ==
  ASSUME AppInv
  PROVE  /\ Fits(CallInstructions(runners),
                 When(runner # NoRunner, CloseRunner(runner) \o <<Do("drop")>>), AppWrite, AppWrite)
         /\ Fits(CallInstructions(runners), When(runner # NoRunner, CloseRunner(runner)),
                 AppWrite, AppWrite)
<1> DEFINE S == CallInstructions(runners)
<1>1. runner # NoRunner => Fits(S, CloseRunner(runner), AppWrite, AppWrite)
  BY RunnerType, FitsEngine
<1>2. Fits(S, <<Do("drop")>>, AppWrite, AppWrite)
  BY RunnerType, CallParts
<1>3. AppWrite \in Holdings
  BY RunnerType
<1> HIDE DEF S
<1>4. runner # NoRunner => Fits(S, CloseRunner(runner) \o <<Do("drop")>>, AppWrite, AppWrite)
  BY <1>1, <1>2, <1>3, FitsConcat
<1> QED
  BY <1>1, <1>3, <1>4, FitsWhen, RunnerType DEF S

LEMMA ConnectStep ==
  ASSUME AppInv, NEW t \in Threads, Connect(t)
  PROVE  Types' /\ LockInv'
<1> DEFINE more == When(runner # NoRunner, CloseRunner(runner) \o <<Do("drop")>>) \o <<Do("create")>>
<1>1. At(t, "Connect") /\ Busy(t) /\ Head(code[t]).op = "Connect" /\ "Connect" \notin ReadCalls
  BY DEF Connect, At, ReadCalls
<1>2. Fits(CallInstructions(runners), <<Do("create")>>, AppWrite, Nothing)
  BY RunnerType, CallParts DEF WriteCalls
<1>3. Fits(CallInstructions(runners), more, AppWrite, Nothing)
  BY <1>2, FitsClose, FitsConcat, RunnerType
<1>4. /\ Goes(t, more)
      /\ UNCHANGED <<locks, call, calls, runners, runner, running, mqttClients, standalone, forwarding>>
  BY DEF Connect, state
<1> HIDE DEF more
<1> QED
  BY <1>1, <1>3, <1>4, CallStep, RunnerType DEF WriteCalls

LEMMA DisconnectStep ==
  ASSUME AppInv, NEW t \in Threads, Disconnect(t)
  PROVE  Types' /\ LockInv'
<1> DEFINE more == When(runner # NoRunner, CloseRunner(runner) \o <<Do("drop")>>) \o <<Unlock(App)>>
<1>1. At(t, "Disconnect") /\ Busy(t) /\ Head(code[t]).op = "Disconnect" /\ "Disconnect" \notin ReadCalls
  BY DEF Disconnect, At, ReadCalls
<1>2. Fits(CallInstructions(runners), <<Unlock(App)>>, AppWrite, Nothing)
  BY RunnerType, CallParts
<1>3. Fits(CallInstructions(runners), more, AppWrite, Nothing)
  BY <1>2, FitsClose, FitsConcat, RunnerType
<1>4. /\ Goes(t, more)
      /\ UNCHANGED <<locks, call, calls, runners, runner, running, mqttClients, standalone, forwarding>>
  BY DEF Disconnect, state
<1> HIDE DEF more
<1> QED
  BY <1>1, <1>3, <1>4, CallStep, RunnerType DEF WriteCalls

LEMMA ShutdownStep ==
  ASSUME AppInv, NEW t \in Threads, Shutdown(t)
  PROVE  Types' /\ LockInv'
<1> DEFINE S == CallInstructions(runners)
           more == When(standalone, MqttCallback) \o When(runner # NoRunner, CloseRunner(runner))
                     \o <<Unlock(App)>>
<1>1. At(t, "shutdown") /\ Busy(t) /\ Head(code[t]).op = "shutdown" /\ "shutdown" \notin ReadCalls
  BY DEF Shutdown, At, ReadCalls
<1>2. Fits(S, <<Unlock(App)>>, AppWrite, Nothing)
  BY RunnerType, CallParts
<1>3. Fits(S, When(standalone, MqttCallback), AppWrite, AppWrite)
  BY FitsWhen, RunnerType
<1>4. Fits(S, When(standalone, MqttCallback) \o When(runner # NoRunner, CloseRunner(runner)),
           AppWrite, AppWrite)
  BY <1>3, FitsClose, FitsConcat, RunnerType
<1>5. Fits(S, more, AppWrite, Nothing)
  BY <1>2, <1>4, FitsConcat, RunnerType
<1>6. /\ Goes(t, more)
      /\ UNCHANGED <<locks, call, calls, runners, runner, running, mqttClients, standalone, forwarding>>
  BY DEF Shutdown, state
<1> HIDE DEF more
<1> QED
  BY <1>1, <1>5, <1>6, CallStep, RunnerType DEF WriteCalls

LEMMA StartScanningStep ==
  ASSUME AppInv, NEW t \in Threads, StartScanning(t)
  PROVE  Types' /\ LockInv'
<1> DEFINE S == CallInstructions(runners)
           go == <<Do("go")>> \o Start(runner)
           more == <<RUnlock(App)>> \o When(runner # NoRunner, go)
<1>1. /\ At(t, "StartScanning") /\ Busy(t) /\ Head(code[t]).op = "StartScanning"
      /\ "StartScanning" \in ReadCalls
  BY DEF StartScanning, At, ReadCalls
<1>2. Fits(S, <<RUnlock(App)>>, AppRead, Nothing)
  BY RunnerType, CallParts
<1>3. ASSUME runner # NoRunner
      PROVE  Fits(S, go, Nothing, Nothing)
  <2>1. Fits(S, <<Do("go")>>, Nothing, Nothing)
    BY <1>3, RunnerType, CallParts
  <2>2. Fits(S, Start(runner), Nothing, Nothing)
    BY <1>3, RunnerType, FitsEngine
  <2> QED
    BY <2>1, <2>2, FitsConcat, RunnerType
<1>4. Fits(S, When(runner # NoRunner, go), Nothing, Nothing)
  BY <1>3, FitsWhen, RunnerType
<1>5. Fits(S, more, AppRead, Nothing)
  BY <1>2, <1>4, FitsConcat, RunnerType
<1>6. /\ Goes(t, more)
      /\ UNCHANGED <<locks, call, calls, runners, runner, running, mqttClients, standalone, forwarding>>
  BY DEF StartScanning, state
<1> HIDE DEF more
<1> QED
  BY <1>1, <1>5, <1>6, CallStep, RunnerType

LEMMA StopScanningStep ==
  ASSUME AppInv, NEW t \in Threads, StopScanning(t)
  PROVE  Types' /\ LockInv'
<1> DEFINE S == CallInstructions(runners)
           more == <<RUnlock(App)>> \o When(runner # NoRunner, Stop(runner))
<1>1. /\ At(t, "StopScanning") /\ Busy(t) /\ Head(code[t]).op = "StopScanning"
      /\ "StopScanning" \in ReadCalls
  BY DEF StopScanning, At, ReadCalls
<1>2. Fits(S, <<RUnlock(App)>>, AppRead, Nothing)
  BY RunnerType, CallParts
<1>3. runner # NoRunner => Fits(S, Stop(runner), Nothing, Nothing)
  BY RunnerType, FitsEngine
<1>4. Fits(S, When(runner # NoRunner, Stop(runner)), Nothing, Nothing)
  BY <1>3, FitsWhen, RunnerType
<1>5. Fits(S, more, AppRead, Nothing)
  BY <1>2, <1>4, FitsConcat, RunnerType
<1>6. /\ Goes(t, more)
      /\ UNCHANGED <<locks, call, calls, runners, runner, running, mqttClients, standalone, forwarding>>
  BY DEF StopScanning, state
<1> HIDE DEF more
<1> QED
  BY <1>1, <1>5, <1>6, CallStep, RunnerType

LEMMA GetStatusStep ==
  ASSUME AppInv, NEW t \in Threads, GetStatus(t)
  PROVE  Types' /\ LockInv'
<1> DEFINE S == CallInstructions(runners)
           read == <<RLock(runner), RUnlock(runner)>>
           more == When(runner # NoRunner, read \o read) \o <<RUnlock(App)>>
<1>1. At(t, "GetStatus") /\ Busy(t) /\ Head(code[t]).op = "GetStatus" /\ "GetStatus" \in ReadCalls
  BY DEF GetStatus, At, ReadCalls
<1>2. Fits(S, <<RUnlock(App)>>, AppRead, Nothing)
  BY RunnerType, CallParts
<1>3. runner # NoRunner => Fits(S, read, AppRead, AppRead)
  BY RunnerType, CallParts
<1>4. runner # NoRunner => Fits(S, read \o read, AppRead, AppRead)
  BY <1>3, RunnerType, FitsConcat
<1>5. Fits(S, When(runner # NoRunner, read \o read), AppRead, AppRead)
  BY <1>4, FitsWhen, RunnerType
<1>6. Fits(S, more, AppRead, Nothing)
  BY <1>2, <1>5, FitsConcat, RunnerType
<1>7. /\ Goes(t, more)
      /\ UNCHANGED <<locks, call, calls, runners, runner, running, mqttClients, standalone, forwarding>>
  BY DEF GetStatus, state
<1> HIDE DEF more
<1> QED
  BY <1>1, <1>6, <1>7, CallStep, RunnerType

LEMMA SetBandEnabledStep ==
  ASSUME AppInv, NEW t \in Threads, SetBandEnabled(t)
  PROVE  Types' /\ LockInv'
<1> DEFINE S == CallInstructions(runners)
           more == When(runner # NoRunner, UpdateConfig(runner)) \o <<Unlock(App)>>
<1>1. /\ At(t, "SetBandEnabled") /\ Busy(t) /\ Head(code[t]).op = "SetBandEnabled"
      /\ "SetBandEnabled" \notin ReadCalls
  BY DEF SetBandEnabled, At, ReadCalls
<1>2. Fits(S, <<Unlock(App)>>, AppWrite, Nothing)
  BY RunnerType, CallParts
<1>3. runner # NoRunner => Fits(S, UpdateConfig(runner), AppWrite, AppWrite)
  BY RunnerType, FitsEngine
<1>4. Fits(S, When(runner # NoRunner, UpdateConfig(runner)), AppWrite, AppWrite)
  BY <1>3, FitsWhen, HoldFacts, RunnerType
<1>5. Fits(S, more, AppWrite, Nothing)
  BY <1>2, <1>4, FitsConcat, RunnerType
<1>6. /\ Goes(t, more)
      /\ UNCHANGED <<locks, call, calls, runners, runner, running, mqttClients, standalone, forwarding>>
  BY DEF SetBandEnabled, state
<1> HIDE DEF more
<1> QED
  BY <1>1, <1>5, <1>6, CallStep, RunnerType DEF WriteCalls

LEMMA SetGainStep ==
  ASSUME AppInv, NEW t \in Threads, SetGain(t)
  PROVE  Types' /\ LockInv'
<1> DEFINE S == CallInstructions(runners)
           more == <<Unlock(App)>> \o When(runner # NoRunner, UpdateConfig(runner))
<1>1. At(t, "SetGain") /\ Busy(t) /\ Head(code[t]).op = "SetGain" /\ "SetGain" \notin ReadCalls
  BY DEF SetGain, At, ReadCalls
<1>2. Fits(S, <<Unlock(App)>>, AppWrite, Nothing)
  BY RunnerType, CallParts
<1>3. runner # NoRunner => Fits(S, UpdateConfig(runner), Nothing, Nothing)
  BY RunnerType, FitsEngine
<1>4. Fits(S, When(runner # NoRunner, UpdateConfig(runner)), Nothing, Nothing)
  BY <1>3, FitsWhen, RunnerType
<1>5. Fits(S, more, AppWrite, Nothing)
  BY <1>2, <1>4, FitsConcat, RunnerType
<1>6. /\ Goes(t, more)
      /\ UNCHANGED <<locks, call, calls, runners, runner, running, mqttClients, standalone, forwarding>>
  BY DEF SetGain, state
<1> HIDE DEF more
<1> QED
  BY <1>1, <1>5, <1>6, CallStep, RunnerType DEF WriteCalls

LEMMA EnableMQTTStep ==
  ASSUME AppInv, NEW t \in Threads, EnableMQTT(t)
  PROVE  Types' /\ LockInv'
<1> DEFINE S == CallInstructions(runners)
           last == <<Lock(App), Do("startMQTT")>>
           more == <<Unlock(App)>> \o When(standalone, MqttCallback) \o last
<1>1. At(t, "EnableMQTT") /\ Busy(t) /\ Head(code[t]).op = "EnableMQTT" /\ "EnableMQTT" \notin ReadCalls
  BY DEF EnableMQTT, At, ReadCalls
<1>2. /\ Fits(S, <<Unlock(App)>>, AppWrite, Nothing) /\ Fits(S, <<Lock(App)>>, Nothing, AppWrite)
      /\ Fits(S, <<Do("startMQTT")>>, AppWrite, Nothing)
  BY RunnerType, CallParts DEF WriteCalls
<1>3. Lock(App) \in S /\ Do("startMQTT") \in S
  BY RunnerType, CallHas, HoldFacts DEF WriteCalls
<1>4. Fits(S, last, Nothing, Nothing)
  BY <1>2, <1>3, FitsTwo, RunnerType
<1>5. Fits(S, When(standalone, MqttCallback), Nothing, Nothing)
  BY FitsWhen, RunnerType
<1>6. Fits(S, <<Unlock(App)>> \o When(standalone, MqttCallback), AppWrite, Nothing)
  BY <1>2, <1>5, FitsConcat, RunnerType
<1>7. Fits(S, more, AppWrite, Nothing)
  BY <1>4, <1>6, FitsConcat, RunnerType
<1>8. /\ Goes(t, more) /\ standalone' \in BOOLEAN
      /\ UNCHANGED <<locks, call, calls, runners, runner, running, mqttClients, forwarding>>
  BY DEF EnableMQTT
<1> HIDE DEF more
<1> QED
  BY <1>1, <1>7, <1>8, CallStep, RunnerType DEF WriteCalls

LEMMA StartMQTTRunnerStep ==
  ASSUME AppInv, NEW t \in Threads, StartMQTTRunner(t)
  PROVE  Types' /\ LockInv'
<1> DEFINE S == CallInstructions(runners)
           last == <<Instr("client", runner), Unlock(App)>>
           more == When(runner \in mqttClients, MqttCallback) \o last
<1>1. /\ At(t, "startMQTT") /\ Busy(t) /\ Head(code[t]).op = "startMQTT" /\ "startMQTT" \notin ReadCalls
      /\ runner # NoRunner
  BY DEF StartMQTTRunner, At, ReadCalls
<1>2. /\ Fits(S, <<Unlock(App)>>, AppWrite, Nothing)
      /\ Fits(S, <<Instr("client", runner)>>, AppWrite, AppWrite)
  BY <1>1, RunnerType, CallParts
<1>3. Unlock(App) \in S /\ Instr("client", runner) \in S
  BY <1>1, RunnerType, CallHas, HoldFacts
<1>4. Fits(S, last, AppWrite, Nothing)
  BY <1>2, <1>3, FitsTwo, RunnerType
<1>5. Fits(S, When(runner \in mqttClients, MqttCallback), AppWrite, AppWrite)
  <2>1. (runner \in mqttClients) \in BOOLEAN
    OBVIOUS
  <2> QED
    BY <2>1, FitsWhen, RunnerType
<1>6. Fits(S, more, AppWrite, Nothing)
  BY <1>4, <1>5, FitsConcat, RunnerType
<1>7. /\ Goes(t, more)
      /\ UNCHANGED <<locks, call, calls, runners, runner, running, mqttClients, standalone, forwarding>>
  BY DEF StartMQTTRunner, state
<1> HIDE DEF more
<1> QED
  BY <1>1, <1>6, <1>7, CallStep, RunnerType DEF WriteCalls

LEMMA DisableMQTTStep ==
  ASSUME AppInv, NEW t \in Threads, DisableMQTT(t)
  PROVE  Types' /\ LockInv'
<1> DEFINE S == CallInstructions(runners)
           one == When(runner # NoRunner, <<Instr("disable", runner)>>)
           two == When(standalone, MqttCallback)
           more == <<Unlock(App)>> \o one \o two \o MqttCallback
<1>1. At(t, "DisableMQTT") /\ Busy(t) /\ Head(code[t]).op = "DisableMQTT" /\ "DisableMQTT" \notin ReadCalls
  BY DEF DisableMQTT, At, ReadCalls
<1>2. Fits(S, <<Unlock(App)>>, AppWrite, Nothing)
  BY RunnerType, CallParts
<1>3. runner # NoRunner => Fits(S, <<Instr("disable", runner)>>, Nothing, Nothing)
  BY RunnerType, CallParts
<1>4. Fits(S, one, Nothing, Nothing) /\ Fits(S, two, Nothing, Nothing)
  BY <1>3, FitsWhen, RunnerType
<1> HIDE DEF one, two
<1>5. Fits(S, <<Unlock(App)>> \o one, AppWrite, Nothing)
  BY <1>2, <1>4, FitsConcat, RunnerType
<1>6. Fits(S, <<Unlock(App)>> \o one \o two, AppWrite, Nothing)
  BY <1>4, <1>5, FitsConcat, RunnerType
<1>7. Fits(S, more, AppWrite, Nothing)
  BY <1>6, FitsConcat, RunnerType
<1>8. /\ Goes(t, more) /\ standalone' \in BOOLEAN
      /\ UNCHANGED <<locks, call, calls, runners, runner, running, mqttClients, forwarding>>
  BY DEF DisableMQTT, one, two
<1> HIDE DEF more
<1> QED
  BY <1>1, <1>7, <1>8, CallStep, RunnerType DEF WriteCalls

\* What only lets go of a.mu
LEMMA FailsStep ==
  ASSUME AppInv, NEW t \in Threads, CreateFails(t) \/ StartMQTTStandalone(t) \/ StartMQTTFails(t)
  PROVE  Types' /\ LockInv'
<1>1. /\ Busy(t) /\ Head(code[t]).op \in {"create", "startMQTT"} /\ Head(code[t]).op \notin ReadCalls
      /\ Goes(t, <<Unlock(App)>>) /\ standalone' \in {standalone, TRUE}
      /\ UNCHANGED <<locks, call, calls, runners, runner, running, mqttClients, forwarding>>
  BY DEF CreateFails, StartMQTTStandalone, StartMQTTFails, At, ReadCalls, state
<1>2. Fits(CallInstructions(runners), <<Unlock(App)>>, AppWrite, Nothing)
  BY RunnerType, CallParts
<1>3. standalone' \in BOOLEAN
  BY <1>1, RunnerType
<1> QED
  BY <1>1, <1>2, <1>3, CallStep DEF WriteCalls

LEMMA DropStep ==
  ASSUME AppInv, NEW t \in Threads, Drop(t)
  PROVE  Types' /\ LockInv'
<1>1. At(t, "drop") /\ Busy(t) /\ Head(code[t]).op = "drop"
  BY DEF Drop, At
<1>2. ASSUME NEW h \in Holds, NEW k \in Holdings, Turns(h, Head(code[t]), k)
      PROVE  Fits(Own(t, runners), <<>>, h, k)
  <2>1. h = k
    BY <1>1, <1>2, TurnsCases DEF RunnerOps
  <2> QED
    BY <2>1, FitsEmpty
<1>3. /\ Goes(t, <<>>) /\ runner' = NoRunner
      /\ UNCHANGED <<locks, call, calls, runners, running, mqttClients, standalone, forwarding>>
  BY DEF Drop
<1> QED
  BY <1>1, <1>2, <1>3, PlainStep DEF AppInv, Types

LEMMA CreateStep ==
  ASSUME AppInv, NEW t \in Threads, Create(t)
  PROVE  Types' /\ LockInv'
<1> DEFINE e == runners + 1
           S == CallInstructions(e)
           go == <<Do("go")>> \o Start(e)
           more == <<Unlock(App)>> \o When(AutoStart, go)
<1>1. At(t, "create") /\ Busy(t) /\ Head(code[t]).op = "create"
  BY DEF Create, At
<1>2. /\ runners < MaxRunners /\ runners' = e /\ runner' = e /\ Goes(t, more)
      /\ UNCHANGED <<locks, call, calls, running, mqttClients, standalone, forwarding>>
  BY DEF Create
<1>3. runners \in 0..MaxRunners
  BY RunnerType
<1>4. e \in 0..MaxRunners /\ e \in 1..e /\ e > 0 /\ runners <= e /\ 1..runners \subseteq 1..e
  BY <1>2, <1>3, BoundsAssumption
<1>5. Own(t, runners') = CallInstructions(runners')
  BY <1>1, CallerStep DEF WriteCalls
<1> HIDE DEF e
<1>6. Fits(S, <<Unlock(App)>>, AppWrite, Nothing) /\ Fits(S, <<Do("go")>>, Nothing, Nothing)
  BY <1>4, CallParts
<1>7. Fits(S, Start(e), Nothing, Nothing)
  BY <1>4, FitsEngine, RunnerType
<1>8. Fits(S, go, Nothing, Nothing)
  BY <1>6, <1>7, FitsConcat, RunnerType
<1>9. Fits(S, When(AutoStart, go), Nothing, Nothing)
  BY <1>8, FitsWhen, RunnerType, CallsAssumption
<1>10. Fits(S, more, AppWrite, Nothing)
  BY <1>6, <1>9, FitsConcat, RunnerType
<1>11. ASSUME NEW h \in Holds, NEW k \in Holdings, Turns(h, Head(code[t]), k)
       PROVE  Fits(Own(t, runners'), more, h, k)
  <2>1. h = AppWrite /\ k = Nothing
    BY <1>1, <1>11, TurnsCases DEF WriteCalls
  <2> QED
    BY <1>2, <1>5, <1>10, <2>1
<1> HIDE DEF more
<1>12. runners' \in 0..MaxRunners /\ runners <= runners'
  BY <1>2, <1>4
<1>13. LockInv' /\ code' \in [Threads -> Seq(Instructions)]
  BY <1>1, <1>2, <1>11, <1>12, GoesFits
<1> QED
  BY <1>2, <1>4, <1>12, <1>13 DEF AppInv, Types
-----------------------------------------------------------------------------
(* Calls begin and forwarders go                                           *)

\* Nothing to run, nothing held
LEMMA FitsNothing ==
  ASSUME NEW S, NEW h \in Holds, NEW k, Fits(S, <<>>, h, k)
  PROVE  h = k
<1>1. Len(<<>>) = 0
  OBVIOUS
<1> QED
  BY <1>1, HoldFacts DEF Fits

LEMMA ProgramFits ==
  ASSUME NEW n \in 0..MaxRunners, NEW c \in Calls, NEW e,
         c \in {"apiStart", "apiStop", "apiBands"} => e \in 1..n
  PROVE  Fits(CallInstructions(n), Program(c, e), Nothing, Nothing)
<1> DEFINE S == CallInstructions(n)
<1>1. /\ Nothing \in Holds /\ Nothing \in Holdings /\ AppRead \in Holdings /\ AppWrite \in Holdings
      /\ Nothing[App] = "none" /\ Nothing \in Bases
  BY HoldFacts DEF Bases
<1>2. n \in Nat /\ App \in Mutexes
  BY RunnerCounts, HoldFacts
<1>3. CASE c \in ReadCalls
  <2>1. RLock(App) \in S /\ Do(c) \in S
    <3>1. c \in (ReadCalls \cup WriteCalls \cup {"drop"}) \ {"forward", "forwarded"}
      BY <1>3 DEF ReadCalls
    <3> QED
      BY <1>2, <3>1, CallHas
  <2>2. Fits(S, <<RLock(App)>>, Nothing, AppRead) /\ Fits(S, <<Do(c)>>, AppRead, Nothing)
    BY <1>3, CallParts
  <2> HIDE DEF S
  <2>3. Fits(S, <<RLock(App), Do(c)>>, Nothing, Nothing)
    BY <1>1, <2>1, <2>2, FitsTwo
  <2>4. Program(c, e) = <<RLock(App), Do(c)>>
    BY <1>3 DEF Program, ReadCalls
  <2> QED
    BY <2>3, <2>4 DEF S
<1>4. ASSUME NEW op \in WriteCalls \ {"forward", "forwarded"}
      PROVE  Fits(S, <<Lock(App), Do(op)>>, Nothing, Nothing)
  <2>1. Lock(App) \in S /\ Do(op) \in S
    BY <1>2, CallHas
  <2>2. Fits(S, <<Lock(App)>>, Nothing, AppWrite) /\ Fits(S, <<Do(op)>>, AppWrite, Nothing)
    BY CallParts
  <2> HIDE DEF S
  <2> QED
    BY <1>1, <2>1, <2>2, FitsTwo
<1>5. CASE c = "autoConnect"
  <2>1. Fits(S, <<Lock(App), Do("create")>>, Nothing, Nothing)
    BY <1>4 DEF WriteCalls
  <2> QED
    BY <1>5, <2>1 DEF Program
<1>6. CASE c = "mqttEvent"
  BY <1>1, <1>2, <1>6, FitsCallbacks DEF Program
<1>7. CASE c \in {"apiStart", "apiStop", "apiBands"}
  <2>1. /\ Fits(S, Start(e), Nothing, Nothing) /\ Fits(S, Stop(e), Nothing, Nothing)
        /\ Fits(S, UpdateConfig(e), Nothing, Nothing)
    BY <1>1, <1>7, FitsEngine
  <2> HIDE DEF S
  <2>2. Program(c, e) \in {Start(e), Stop(e), UpdateConfig(e)}
    BY <1>7 DEF Program
  <2> QED
    BY <2>1, <2>2 DEF S
<1>8. CASE c \in {"Connect", "Disconnect", "shutdown", "SetBandEnabled", "SetGain", "EnableMQTT",
                  "DisableMQTT"}
  <2>1. c \in WriteCalls \ {"forward", "forwarded"}
    BY <1>8 DEF WriteCalls
  <2>2. Program(c, e) = <<Lock(App), Do(c)>>
    BY <1>8 DEF Program
  <2> QED
    BY <1>4, <2>1, <2>2
<1> QED
  BY <1>3, <1>5, <1>6, <1>7, <1>8, CallsAssumption DEF ReadCalls

LEMMA BeginStep ==
  ASSUME AppInv, NEW t \in Threads, Begin(t)
  PROVE  Types' /\ LockInv'
<1>1. /\ t \in Callers /\ code[t] = <<>> /\ calls < MaxCalls /\ calls' = calls + 1
      /\ UNCHANGED <<locks, runners, runner, running, mqttClients, standalone, forwarding>>
  BY DEF Begin, Busy, state
<1>2. runners \in 0..MaxRunners /\ Own(t, runners) = CallInstructions(runners)
  BY <1>1, RunnerType DEF Own
<1>3. PICK c \in Calls :
        /\ call' = [call EXCEPT ![t] = c]
        /\ \/ /\ c \notin {"apiStart", "apiStop", "apiBands"}
              /\ code' = [code EXCEPT ![t] = Program(c, NoRunner)]
           \/ /\ c \in {"apiStart", "apiStop", "apiBands"}
              /\ \E e \in 1..runners : code' = [code EXCEPT ![t] = Program(c, e)]
  BY DEF Begin
<1>4. PICK p : Fits(Own(t, runners), p, Nothing, Nothing) /\ code' = [code EXCEPT ![t] = p]
  <2>1. CASE c \notin {"apiStart", "apiStop", "apiBands"}
    BY <1>2, <1>3, <2>1, ProgramFits
  <2>2. CASE c \in {"apiStart", "apiStop", "apiBands"}
    BY <1>2, <1>3, <2>2, ProgramFits
  <2> QED
    BY <2>1, <2>2
<1>5. PICK h \in [Threads -> Holds] : Fitting(h) /\ \A m \in Mutexes : HeldAs(locks[m], m, h)
  BY DEF AppInv, LockInv
<1>6. h[t] = Nothing
  BY <1>1, <1>5, FitsNothing DEF Fitting
<1>7. [h EXCEPT ![t] = Nothing] = h
  BY <1>6
<1>8. Fits(Own(t, runners'), p, Nothing, Nothing)
  BY <1>1, <1>4
<1>9. runners' \in 0..MaxRunners /\ runners <= runners'
  BY <1>1, <1>2, RunnerCounts
<1>10. Fitting([h EXCEPT ![t] = Nothing])' /\ code' \in [Threads -> Seq(Instructions)]
  BY <1>4, <1>5, <1>8, <1>9, FitsStep, HoldFacts DEF AppInv
<1>11. Fitting(h)'
  BY <1>7, <1>10
<1>12. \A m \in Mutexes : HeldAs(locks'[m], m, h)
  BY <1>1, <1>5
<1>13. calls' \in 0..MaxCalls
  <2>1. calls \in 0..MaxCalls
    BY DEF AppInv, Types
  <2> QED
    BY <1>1, <2>1, BoundsAssumption
<1>14. call' \in [Threads -> Calls \cup {"", "forwardScans"}]
  BY <1>3 DEF AppInv, Types
<1>15. LockInv'
  BY <1>11, <1>12 DEF LockInv
<1> QED
  BY <1>1, <1>9, <1>10, <1>13, <1>14, <1>15 DEF AppInv, Types

\* The forwarder's own instructions
LEMMA ForwarderParts ==
  ASSUME NEW n \in 0..MaxRunners
  PROVE  LET S == ForwarderInstructions(n) IN
         /\ Fits(S, <<Unlock(App)>>, AppWrite, Nothing)
         /\ Fits(S, <<Lock(App), Do("forward")>>, Nothing, Nothing)
         /\ Fits(S, <<Lock(App), Do("forwarded")>>, Nothing, Nothing)
         /\ \A e \in 1..n : Fits(S, <<Instr("range", e)>>, Nothing, Nothing)
<1> DEFINE S == ForwarderInstructions(n)
<1>1. /\ {Unlock(App), Lock(App), Do("forward"), Do("forwarded")} \subseteq S
      /\ \A e \in 1..n : Instr("range", e) \in S
  BY DEF ForwarderInstructions
<1>2. /\ App \in Mutexes /\ Nothing \in Holds /\ Nothing \in Holdings
      /\ AppWrite \in Holds /\ AppWrite \in Holdings
      /\ Nothing[App] = "none" /\ AppWrite[App] = "write"
      /\ [AppWrite EXCEPT ![App] = "none"] = Nothing
      /\ [Nothing EXCEPT ![App] = "write"] = AppWrite
  BY HoldFacts DEF AppWrite
<1> HIDE DEF S
<1>3. Fits(S, <<Unlock(App)>>, AppWrite, Nothing) /\ Fits(S, <<Lock(App)>>, Nothing, AppWrite)
  BY <1>1, <1>2, FitsUnlock, FitsLock
<1>4. ASSUME NEW op \in {"forward", "forwarded"}
      PROVE  Fits(S, <<Lock(App), Do(op)>>, Nothing, Nothing)
  <2>1. Turns(AppWrite, Do(op), Nothing)
    BY DEF Turns, Do, Instr, WriteCalls
  <2>2. Fits(S, <<Do(op)>>, AppWrite, Nothing)
    BY <1>1, <1>2, <2>1, FitsOne
  <2> QED
    BY <1>1, <1>2, <1>3, <2>2, FitsTwo
<1>5. ASSUME NEW e \in 1..n
      PROVE  Fits(S, <<Instr("range", e)>>, Nothing, Nothing)
  <2>1. Turns(Nothing, Instr("range", e), Nothing)
    BY DEF Turns, Instr
  <2> QED
    BY <1>1, <1>2, <2>1, FitsOne
<1> QED
  BY <1>3, <1>4, <1>5 DEF S

LEMMA GoStep ==
  ASSUME AppInv, NEW t \in Threads, Go(t)
  PROVE  Types' /\ LockInv'
<1> DEFINE new == <<Lock(App), Do("forward")>>
<1>1. /\ At(t, "go") /\ Busy(t) /\ Head(code[t]).op = "go"
      /\ UNCHANGED <<locks, calls, runners, runner, running, mqttClients, standalone, forwarding>>
  BY DEF Go, At, state
<1>2. PICK f \in Forwarders :
        /\ ~Busy(f)
        /\ code' = [code EXCEPT ![f] = new, ![t] = Tail(@)]
        /\ call' = [call EXCEPT ![f] = "forwardScans"]
  BY DEF Go
<1>3. f \in Threads /\ f \notin Callers /\ code[f] = <<>> /\ f # t
  BY <1>1, <1>2, ThreadsAssumption DEF Threads, Busy
<1>4. PICK h \in [Threads -> Holds] : Fitting(h) /\ \A m \in Mutexes : HeldAs(locks[m], m, h)
  BY DEF AppInv, LockInv
<1>5. h[f] = Nothing
  <2>1. Fits(Own(f, runners), <<>>, h[f], Nothing)
    BY <1>3, <1>4 DEF Fitting
  <2> QED
    BY <1>3, <2>1, FitsNothing
<1>6. Fits(Own(t, runners), Tail(code[t]), h[t], Nothing)
  <2>1. Fits(Own(t, runners), code[t], h[t], Nothing)
    BY <1>4 DEF Fitting
  <2>2. h[t] \in Holds /\ h[t] \in Holdings /\ Nothing \in Holdings
    BY HoldFacts
  <2>3. PICK k \in Holdings : /\ Turns(h[t], Head(code[t]), k)
                              /\ Fits(Own(t, runners), Tail(code[t]), k, Nothing)
    BY <1>1, <2>1, <2>2, FitsHead DEF Busy
  <2>4. h[t] = k
    BY <1>1, <2>2, <2>3, TurnsCases DEF RunnerOps
  <2> QED
    BY <2>3, <2>4
<1>7. Fits(Own(f, runners), new, Nothing, Nothing)
  BY <1>3, ForwarderParts, RunnerType DEF Own
<1> HIDE DEF new
<1>8. /\ code'[f] = new /\ code'[t] = Tail(code[t])
      /\ \A u \in Threads \ {f, t} : code'[u] = code[u]
      /\ DOMAIN code' = Threads /\ code' = [u \in Threads |-> code'[u]]
  BY <1>2, <1>3 DEF AppInv, Types
<1>9. ASSUME NEW u \in Threads
      PROVE  Fits(Own(u, runners), code'[u], h[u], Nothing)
  <2>1. CASE u = f
    BY <2>1, <1>5, <1>7, <1>8
  <2>2. CASE u = t
    BY <2>2, <1>6, <1>8
  <2>3. CASE u \notin {f, t}
    BY <2>3, <1>4, <1>8 DEF Fitting
  <2> QED
    BY <2>1, <2>2, <2>3
<1>10. code' \in [Threads -> Seq(Instructions)]
  <2>1. ASSUME NEW u \in Threads
        PROVE  code'[u] \in Seq(Instructions)
    <3>1. Own(u, runners) \subseteq Instructions
      BY OwnCases, RunnerType
    <3>2. code'[u] \in Seq(Own(u, runners))
      BY <1>9 DEF Fits
    <3> QED
      BY <3>1, <3>2
  <2> QED
    BY <1>8, <2>1
<1>11. Fitting(h)'
  BY <1>1, <1>9 DEF Fitting
<1>12. LockInv'
  BY <1>1, <1>4, <1>11 DEF LockInv
<1>13. call' \in [Threads -> Calls \cup {"", "forwardScans"}]
  BY <1>2 DEF AppInv, Types
<1> QED
  BY <1>1, <1>10, <1>12, <1>13 DEF AppInv, Types

\* One who runs an instruction of forwardScans
LEMMA ForwarderStep ==
  ASSUME AppInv, NEW t \in Threads, Busy(t), Head(code[t]).op \in {"forward", "forwarded"},
         NEW more, Goes(t, more),
         Fits(ForwarderInstructions(runners), more, AppWrite, Nothing),
         UNCHANGED <<locks, call, calls, runners, runner, running, mqttClients, standalone>>,
         forwarding' \in BOOLEAN
  PROVE  Types' /\ LockInv' /\ t \in Forwarders
<1>1. t \in Forwarders
  BY HeadOwn, OwnCases, RunnerType
<1>2. Own(t, runners) = ForwarderInstructions(runners)
  BY <1>1, ThreadsAssumption DEF Own
<1>3. ASSUME NEW h \in Holds, NEW k \in Holdings, Turns(h, Head(code[t]), k)
      PROVE  Fits(Own(t, runners), more, h, k)
  <2>1. h = AppWrite /\ k = Nothing
    BY <1>3, TurnsCases DEF WriteCalls
  <2> QED
    BY <1>2, <2>1
<1> QED
  BY <1>1, <1>3, PlainStep DEF AppInv, Types

LEMMA ForwardStep ==
  ASSUME AppInv, NEW t \in Threads, Forward(t)
  PROVE  Types' /\ LockInv' /\ t \in Forwarders
<1> DEFINE S == ForwarderInstructions(runners)
           then == IF runner = NoRunner THEN <<Lock(App), Do("forwarded")>> ELSE <<Instr("range", runner)>>
           more == <<Unlock(App)>> \o then
<1>1. At(t, "forward") /\ Busy(t) /\ Head(code[t]).op = "forward"
  BY DEF Forward, At
<1>2. Fits(S, <<Unlock(App)>>, AppWrite, Nothing)
  BY RunnerType, ForwarderParts
<1>3. Fits(S, then, Nothing, Nothing)
  BY RunnerType, ForwarderParts
<1>4. Fits(S, more, AppWrite, Nothing)
  BY <1>2, <1>3, FitsConcat, RunnerType
<1>5. /\ Goes(t, more) /\ forwarding' \in BOOLEAN
      /\ UNCHANGED <<locks, call, calls, runners, runner, running, mqttClients, standalone>>
  BY DEF Forward
<1> HIDE DEF more
<1> QED
  BY <1>1, <1>4, <1>5, ForwarderStep

LEMMA ForwardedStep ==
  ASSUME AppInv, NEW t \in Threads, ForwardedAlready(t) \/ Forwarded(t)
  PROVE  Types' /\ LockInv' /\ t \in Forwarders
<1>1. /\ Busy(t) /\ Head(code[t]).op \in {"forward", "forwarded"}
      /\ Goes(t, <<Unlock(App)>>) /\ forwarding' \in {forwarding, FALSE}
      /\ UNCHANGED <<locks, call, calls, runners, runner, running, mqttClients, standalone>>
  BY DEF ForwardedAlready, Forwarded, At, state
<1>2. Fits(ForwarderInstructions(runners), <<Unlock(App)>>, AppWrite, Nothing)
  BY RunnerType, ForwarderParts
<1>3. forwarding' \in BOOLEAN
  BY <1>1 DEF AppInv, Types
<1> QED
  BY <1>1, <1>2, <1>3, ForwarderStep
-----------------------------------------------------------------------------
(* Forwarders                                                              *)

\* What a forwarder has to run tells what it is at, whatever it has run of it.
LEMMA Stages ==
  ASSUME NEW s, s \in {<<>>, <<Unlock(App)>>} \/ Waits(s) \/ Owns(s)
  PROVE  /\ s = <<>> \/ s = <<Unlock(App)>> => ~Waits(s) /\ ~Owns(s)
         /\ Waits(s) => ~Owns(s)
         /\ Resets(s) => \A e \in Nat : ~Ranges(s, e)
         /\ \A e, d \in Nat : Ranges(s, e) /\ Ranges(s, d) => e = d
         /\ s # <<>> /\ Head(s).op \in {"Lock", "Unlock"} =>
              LET u == Tail(s) IN
              /\ u \in {<<>>, <<Unlock(App)>>} \/ Waits(u) \/ Owns(u)
              /\ Waits(u) <=> Waits(s)
              /\ Resets(u) <=> Resets(s)
              /\ \A e \in Nat : Ranges(u, e) <=> Ranges(s, e)
         /\ s # <<>> => Head(s).op \in {"Lock", "Unlock", "forward", "forwarded", "range"}
         /\ s # <<>> /\ Head(s).op = "forward" => Waits(s) /\ Tail(s) = <<>>
         /\ s # <<>> /\ Head(s).op = "forwarded" => Resets(s) /\ Tail(s) = <<>>
         /\ s # <<>> /\ Head(s).op = "range" => \E e \in Nat : s = <<Instr("range", e)>>
<1> DEFINE U == Unlock(App)
           L == Lock(App)
           F == Do("forward")
           G == Do("forwarded")
           R(e) == Instr("range", e)
<1>1. /\ U.op = "Unlock" /\ L.op = "Lock" /\ F.op = "forward" /\ G.op = "forwarded"
      /\ \A e \in Nat : R(e).op = "range" /\ R(e).arg = e
  BY DEF Unlock, Lock, Do, Instr
<1> HIDE DEF U, L, F, G, R
<1>2. \A a, b, c : /\ Tail(<<a>>) = <<>> /\ Tail(<<a, b>>) = <<b>> /\ Tail(<<a, b, c>>) = <<b, c>>
                   /\ Head(<<a>>) = a /\ Head(<<a, b>>) = a /\ Head(<<a, b, c>>) = a
  OBVIOUS
<1>3. /\ \A v : Waits(v) <=> v = <<L, F>> \/ v = <<F>>
      /\ \A v : Resets(v) <=> v = <<U, L, G>> \/ v = <<L, G>> \/ v = <<G>>
      /\ \A v : \A e \in Nat : Ranges(v, e) <=> v = <<U, R(e)>> \/ v = <<R(e)>>
  BY DEF Waits, Resets, Ranges, U, L, F, G, R
<1>4. CASE s = <<>>
  <2>1. ~Waits(s) /\ ~Resets(s) /\ \A e \in Nat : ~Ranges(s, e)
    BY <1>3, <1>4
  <2> QED
    BY <1>4, <2>1 DEF Owns
<1>5. CASE s = <<U>>
  <2>1. ~Waits(s) /\ ~Resets(s) /\ \A e \in Nat : ~Ranges(s, e)
    BY <1>1, <1>3, <1>5
  <2>2. ~Waits(<<>>) /\ ~Resets(<<>>) /\ \A e \in Nat : ~Ranges(<<>>, e)
    BY <1>3
  <2>3. Head(s) = U /\ Tail(s) = <<>>
    BY <1>2, <1>5
  <2> QED
    BY <1>1, <1>5, <2>1, <2>2, <2>3 DEF Owns, U
<1>6. CASE s = <<L, F>>
  <2>1. Waits(s) /\ ~Resets(s) /\ \A e \in Nat : ~Ranges(s, e)
    BY <1>1, <1>3, <1>6
  <2>2. Waits(<<F>>) /\ ~Resets(<<F>>) /\ \A e \in Nat : ~Ranges(<<F>>, e)
    BY <1>1, <1>3
  <2>3. Head(s) = L /\ Tail(s) = <<F>> /\ s # <<>> /\ s # <<U>>
    BY <1>2, <1>6
  <2> QED
    BY <1>1, <2>1, <2>2, <2>3 DEF Owns, U
<1>7. CASE s = <<F>>
  <2>1. Waits(s) /\ ~Resets(s) /\ \A e \in Nat : ~Ranges(s, e)
    BY <1>1, <1>3, <1>7
  <2>2. Head(s) = F /\ Tail(s) = <<>> /\ s # <<>> /\ s # <<U>>
    BY <1>1, <1>2, <1>7
  <2> QED
    BY <1>1, <2>1, <2>2 DEF Owns, U
<1>8. CASE s = <<U, L, G>>
  <2>1. ~Waits(s) /\ Resets(s) /\ \A e \in Nat : ~Ranges(s, e)
    BY <1>1, <1>3, <1>8
  <2>2. ~Waits(<<L, G>>) /\ Resets(<<L, G>>) /\ \A e \in Nat : ~Ranges(<<L, G>>, e)
    BY <1>1, <1>3
  <2>3. Head(s) = U /\ Tail(s) = <<L, G>> /\ s # <<>> /\ s # <<U>>
    BY <1>2, <1>8
  <2> QED
    BY <1>1, <2>1, <2>2, <2>3 DEF Owns, U
<1>9. CASE s = <<L, G>>
  <2>1. ~Waits(s) /\ Resets(s) /\ \A e \in Nat : ~Ranges(s, e)
    BY <1>1, <1>3, <1>9
  <2>2. ~Waits(<<G>>) /\ Resets(<<G>>) /\ \A e \in Nat : ~Ranges(<<G>>, e)
    BY <1>1, <1>3
  <2>3. Head(s) = L /\ Tail(s) = <<G>> /\ s # <<>> /\ s # <<U>>
    BY <1>2, <1>9
  <2> QED
    BY <1>1, <2>1, <2>2, <2>3 DEF Owns, U
<1>10. CASE s = <<G>>
  <2>1. ~Waits(s) /\ Resets(s) /\ \A e \in Nat : ~Ranges(s, e)
    BY <1>1, <1>3, <1>10
  <2>2. Head(s) = G /\ Tail(s) = <<>> /\ s # <<>> /\ s # <<U>>
    BY <1>1, <1>2, <1>10
  <2> QED
    BY <1>1, <2>1, <2>2 DEF Owns, U
<1>11. ASSUME NEW e \in Nat
       PROVE  \A d \in Nat : R(e) = R(d) => e = d
  BY <1>1
<1>12. ASSUME NEW e \in Nat, s = <<U, R(e)>>
       PROVE  /\ ~Waits(s) /\ ~Resets(s) /\ Ranges(s, e) /\ \A d \in Nat : Ranges(s, d) => d = e
              /\ Head(s) = U /\ Tail(s) = <<R(e)>> /\ s # <<>> /\ s # <<U>>
              /\ ~Waits(<<R(e)>>) /\ ~Resets(<<R(e)>>)
              /\ \A d \in Nat : Ranges(<<R(e)>>, d) <=> d = e
  <2>1. R(e).op = "range" /\ \A d \in Nat : R(d).op = "range" /\ (R(e) = R(d) => e = d)
    BY <1>1, <1>11
  <2>2. Head(s) = U /\ Tail(s) = <<R(e)>> /\ s # <<>> /\ s # <<U>>
    BY <1>2, <1>12
  <2>3. ~Waits(s) /\ ~Resets(s)
    BY <1>1, <1>3, <1>12, <2>1
  <2>4. Ranges(s, e) /\ \A d \in Nat : Ranges(s, d) => d = e
    BY <1>1, <1>3, <1>12, <2>1
  <2>5. ~Waits(<<R(e)>>) /\ ~Resets(<<R(e)>>)
    BY <1>1, <1>3, <2>1
  <2>6. \A d \in Nat : Ranges(<<R(e)>>, d) <=> d = e
    BY <1>1, <1>3, <2>1
  <2> QED
    BY <2>2, <2>3, <2>4, <2>5, <2>6
<1>13. ASSUME NEW e \in Nat, s = <<R(e)>>
       PROVE  /\ ~Waits(s) /\ ~Resets(s) /\ Ranges(s, e) /\ \A d \in Nat : Ranges(s, d) => d = e
              /\ Head(s) = R(e) /\ s # <<>> /\ s # <<U>>
  <2>1. R(e).op = "range" /\ \A d \in Nat : R(d).op = "range" /\ (R(e) = R(d) => e = d)
    BY <1>1, <1>11
  <2>2. Head(s) = R(e) /\ s # <<>> /\ s # <<U>>
    BY <1>1, <1>2, <1>13, <2>1
  <2>3. ~Waits(s) /\ ~Resets(s)
    BY <1>1, <1>3, <1>13, <2>1
  <2>4. Ranges(s, e) /\ \A d \in Nat : Ranges(s, d) => d = e
    BY <1>1, <1>3, <1>13, <2>1
  <2> QED
    BY <2>2, <2>3, <2>4
<1>14. CASE \E e \in Nat : s = <<U, R(e)>>
  BY <1>1, <1>12, <1>14 DEF Owns, U
<1>15. CASE \E e \in Nat : s = <<R(e)>>
  <2>1. PICK e \in Nat : s = <<R(e)>>
    BY <1>15
  <2>2. Head(s).op = "range"
    BY <1>1, <1>13, <2>1
  <2> QED
    BY <2>1, <2>2, <1>13 DEF Owns, U, R
<1> QED
  BY <1>3, <1>4, <1>5, <1>6, <1>7, <1>8, <1>9, <1>10, <1>14, <1>15 DEF Owns, U

\* A step of a call
LEMMA CallsKeepForward ==
  ASSUME AppInv, \A f \in Forwarders : code'[f] = code[f] /\ call'[f] = call[f],
         forwarding' = forwarding,
         \/ runners' = runners /\ runner' \in {runner, NoRunner}
         \/ runners' = runners + 1 /\ runner' = runners + 1
  PROVE  ForwardInv'
<1>1. /\ runners \in Nat /\ runners' \in Nat /\ runners <= runners'
      /\ runner' = 1 => runner = 1 \/ runners = 0
      /\ runners > 0 /\ runner # 1 => runner' # 1
      /\ runners > 0 => runners' > 0
  BY RunnerType DEF NoRunner
<1>2. 1..runners \subseteq 1..runners'
  BY <1>1
<1>3. ForwardInv
  BY DEF AppInv
<1>4. \A f \in Forwarders : code'[f] \in {<<>>, <<Unlock(App)>>} \/ Waits(code'[f]) \/ Owns(code'[f])
  BY <1>3 DEF ForwardInv
<1>5. forwarding' <=> \E f \in Forwarders : Owns(code'[f])
  BY <1>3 DEF ForwardInv
<1>6. \A f, g \in Forwarders : Owns(code'[f]) /\ Owns(code'[g]) => f = g
  BY <1>3 DEF ForwardInv
<1>7. \A f \in Forwarders, e \in Nat : Ranges(code'[f], e) => e \in 1..runners'
  BY <1>2, <1>3 DEF ForwardInv
<1>8. \A f \in Forwarders : call'[f] = "forwardScans" \/ Waits(code'[f]) => runners' > 0
  BY <1>1, <1>3 DEF ForwardInv
<1>9. \A f \in Forwarders : Resets(code'[f]) => runners' > 0 /\ runner' # 1
  BY <1>1, <1>3 DEF ForwardInv
<1>10. runner' = 1 /\ (\E f \in Forwarders : call'[f] = "forwardScans")
         => \E g \in Forwarders : Waits(code'[g]) \/ Ranges(code'[g], 1)
  <2>1. (\E f \in Forwarders : call'[f] = "forwardScans") => runners > 0
    BY <1>3 DEF ForwardInv
  <2>2. runner' = 1 /\ (\E f \in Forwarders : call'[f] = "forwardScans") => runner = 1
    BY <1>1, <2>1
  <2> QED
    BY <1>3, <2>2 DEF ForwardInv
<1> QED
  BY <1>4, <1>5, <1>6, <1>7, <1>8, <1>9, <1>10 DEF ForwardInv

\* A forwarder that takes a.mu or lets go of it is at the same afterwards.
LEMMA LockingKeepsForward ==
  ASSUME AppInv, NEW t \in Threads, Busy(t), Head(code[t]).op \in {"Lock", "RLock", "Unlock", "RUnlock"},
         Goes(t, <<>>) \/ code' = code,
         UNCHANGED <<call, calls, runners, runner, running, mqttClients, standalone, forwarding>>
  PROVE  ForwardInv'
<1>1. CASE code' = code
  BY <1>1, CallsKeepForward
<1>2. CASE t \notin Forwarders /\ Goes(t, <<>>)
  <2>1. \A f \in Forwarders : code'[f] = code[f]
    BY <1>2 DEF Goes, AppInv, Types, Threads
  <2> QED
    BY <2>1, CallsKeepForward
<1>3. CASE t \in Forwarders /\ Goes(t, <<>>)
  <2>1. code[t] \in Seq(Instructions)
    BY DEF AppInv, Types
  <2>2. <<>> \o Tail(code[t]) = Tail(code[t])
    BY <2>1, ConcatEmptySeq DEF Busy
  <2>3. code'[t] = Tail(code[t]) /\ \A f \in Forwarders \ {t} : code'[f] = code[f]
    BY <1>3, <2>2 DEF Goes, AppInv, Types, Threads
  <2>4. ForwardInv
    BY DEF AppInv
  <2>5. code[t] \in {<<>>, <<Unlock(App)>>} \/ Waits(code[t]) \/ Owns(code[t])
    BY <1>3, <2>4 DEF ForwardInv
  <2>6. /\ code'[t] \in {<<>>, <<Unlock(App)>>} \/ Waits(code'[t]) \/ Owns(code'[t])
        /\ Waits(code'[t]) <=> Waits(code[t])
        /\ Resets(code'[t]) <=> Resets(code[t])
        /\ \A e \in Nat : Ranges(code'[t], e) <=> Ranges(code[t], e)
    <3>1. Head(code[t]).op \in {"Lock", "Unlock"} /\ code[t] # <<>>
      BY <2>5, Stages DEF Busy
    <3> QED
      BY <2>3, <2>5, <3>1, Stages
  <2>7. \A f \in Forwarders :
          /\ code'[f] \in {<<>>, <<Unlock(App)>>} \/ Waits(code'[f]) \/ Owns(code'[f])
          /\ Waits(code'[f]) <=> Waits(code[f])
          /\ Resets(code'[f]) <=> Resets(code[f])
          /\ \A e \in Nat : Ranges(code'[f], e) <=> Ranges(code[f], e)
    <3>1. ASSUME NEW f \in Forwarders, f # t
          PROVE  code'[f] = code[f] /\ (code[f] \in {<<>>, <<Unlock(App)>>} \/ Waits(code[f]) \/ Owns(code[f]))
      BY <2>3, <2>4, <3>1 DEF ForwardInv
    <3> QED
      BY <2>6, <3>1
  <2>8. \A f \in Forwarders : Owns(code'[f]) <=> Owns(code[f])
    BY <2>7 DEF Owns
  <2>9. 1 \in Nat
    OBVIOUS
  <2>10. \A f \in Forwarders : Ranges(code'[f], 1) <=> Ranges(code[f], 1)
    BY <2>7, <2>9
  <2> QED
    BY <2>4, <2>7, <2>8, <2>10 DEF ForwardInv
<1> QED
  BY <1>1, <1>2, <1>3

LEMMA GoKeepsForward ==
  ASSUME AppInv, NEW t \in Threads, Go(t)
  PROVE  ForwardInv'
<1>1. /\ Busy(t) /\ Head(code[t]).op = "go"
      /\ UNCHANGED <<runners, runner, forwarding>>
  BY DEF Go, At, state
<1>2. PICK f \in Forwarders :
        /\ ~Busy(f)
        /\ code' = [code EXCEPT ![f] = <<Lock(App), Do("forward")>>, ![t] = Tail(@)]
        /\ call' = [call EXCEPT ![f] = "forwardScans"]
  BY DEF Go
<1>3. t \in Callers /\ t \notin Forwarders /\ runners > 0
  <2>1. Head(code[t]) \in Own(t, runners)
    BY <1>1, HeadOwn
  <2> QED
    BY <1>1, <2>1, OwnCases, RunnerType, ThreadsAssumption
<1>4. /\ code'[f] = <<Lock(App), Do("forward")>> /\ code[f] = <<>>
      /\ \A g \in Forwarders \ {f} : code'[g] = code[g]
      /\ call'[f] = "forwardScans" /\ \A g \in Forwarders \ {f} : call'[g] = call[g]
  BY <1>2, <1>3 DEF AppInv, Types, Threads, Busy
<1>5. Waits(code'[f]) /\ ~Owns(code'[f]) /\ ~Owns(code[f])
  <2>1. Waits(code'[f])
    BY <1>4 DEF Waits
  <2> QED
    BY <1>4, <2>1, Stages
<1>6. ForwardInv /\ \A e \in Nat : ~Ranges(code'[f], e) /\ ~Resets(code'[f])
  BY <1>5 DEF AppInv, Owns
<1>7. \A g \in Forwarders : code'[g] \in {<<>>, <<Unlock(App)>>} \/ Waits(code'[g]) \/ Owns(code'[g])
  BY <1>4, <1>5, <1>6 DEF ForwardInv
<1>8. \A g \in Forwarders : Owns(code'[g]) <=> Owns(code[g])
  BY <1>4, <1>5
<1>9. \A g \in Forwarders, e \in Nat : Ranges(code'[g], e) => e \in 1..runners
  BY <1>4, <1>6 DEF ForwardInv
<1>10. \A g \in Forwarders : Resets(code'[g]) => runners > 0 /\ runner # 1
  BY <1>4, <1>6 DEF ForwardInv
<1> QED
  BY <1>1, <1>3, <1>5, <1>6, <1>7, <1>8, <1>9, <1>10 DEF ForwardInv

LEMMA ForwardKeepsForward ==
  ASSUME AppInv, NEW t \in Threads, Forward(t)
  PROVE  ForwardInv'
<1>1. /\ Busy(t) /\ Head(code[t]).op = "forward" /\ ~forwarding /\ forwarding'
      /\ UNCHANGED <<call, runners, runner>>
      /\ Goes(t, <<Unlock(App)>> \o IF runner = NoRunner THEN <<Lock(App), Do("forwarded")>>
                                    ELSE <<Instr("range", runner)>>)
  BY DEF Forward, At
<1>2. t \in Forwarders /\ ForwardInv
  BY ForwardStep DEF AppInv
<1>3. Waits(code[t]) /\ Tail(code[t]) = <<>> /\ ~Owns(code[t])
  BY <1>1, <1>2, Stages DEF ForwardInv, Busy
<1>4. runners > 0 /\ \A f \in Forwarders : ~Owns(code[f])
  BY <1>1, <1>2, <1>3 DEF ForwardInv
<1>5. \A f \in Forwarders \ {t} : code'[f] = code[f]
  BY <1>1 DEF Goes, AppInv, Types, Threads
<1>6. {Unlock(App), Lock(App), Do("forwarded"), Instr("range", runner)} \subseteq Instructions
        \/ runner = NoRunner
  <2>1. App \in Mutexes /\ (runner # NoRunner => runner \in Mutexes)
    BY RunnerType, HoldFacts, BoundsAssumption DEF Engines
  <2>2. \A op \in Operations, m \in Mutexes : Instr(op, m) \in Instructions
    BY DEF Instr, Instructions
  <2>3. {"Unlock", "Lock", "forwarded", "range"} \subseteq Operations
    BY DEF Operations, WriteCalls
  <2> QED
    BY <2>1, <2>2, <2>3 DEF Unlock, Lock, Do
<1>7. CASE runner = NoRunner
  <2>1. {Unlock(App), Lock(App), Do("forwarded")} \subseteq Instructions
    <3>1. App \in Mutexes
      BY HoldFacts
    <3>2. {"Unlock", "Lock", "forwarded"} \subseteq Operations
      BY DEF Operations, WriteCalls
    <3> QED
      BY <3>1, <3>2 DEF Unlock, Lock, Do, Instr, Instructions
  <2>2. <<Unlock(App)>> \o <<Lock(App), Do("forwarded")>> = <<Unlock(App), Lock(App), Do("forwarded")>>
    BY <2>1, Joined
  <2>3. code'[t] = <<Unlock(App), Lock(App), Do("forwarded")>>
    <3>1. Goes(t, <<Unlock(App)>> \o <<Lock(App), Do("forwarded")>>)
      BY <1>1, <1>7
    <3>2. Goes(t, <<Unlock(App), Lock(App), Do("forwarded")>>)
      BY <2>2, <3>1
    <3>3. code'[t] = <<Unlock(App), Lock(App), Do("forwarded")>> \o <<>>
      BY <1>3, <3>2 DEF Goes, AppInv, Types
    <3> QED
      BY <2>1, <3>3, ConcatEmptySeq
  <2>4. Resets(code'[t])
    BY <2>3 DEF Resets
  <2>5. /\ Owns(code'[t]) /\ ~Waits(code'[t]) /\ \A e \in Nat : ~Ranges(code'[t], e)
    <3>1. Owns(code'[t])
      BY <2>4 DEF Owns
    <3> QED
      BY <2>4, <3>1, Stages
  <2>6. runner # 1
    BY <1>7 DEF NoRunner
  <2> QED
    BY <1>1, <1>2, <1>4, <1>5, <2>5, <2>6 DEF ForwardInv, Owns
<1>8. CASE runner # NoRunner
  <2>1. {Unlock(App), Instr("range", runner)} \subseteq Instructions /\ runner \in 1..runners /\ runner \in Nat
    BY <1>6, <1>8, RunnerType
  <2>2. code'[t] = <<Unlock(App), Instr("range", runner)>> \o <<>>
    BY <1>1, <1>3, <1>8, <2>1, Joined DEF Goes, AppInv, Types
  <2>3. code'[t] = <<Unlock(App), Instr("range", runner)>>
    BY <2>1, <2>2, ConcatEmptySeq
  <2>4. Ranges(code'[t], runner)
    BY <2>3 DEF Ranges
  <2>5. /\ Owns(code'[t]) /\ ~Waits(code'[t]) /\ ~Resets(code'[t])
        /\ \A e \in Nat : Ranges(code'[t], e) => e = runner
    <3>1. Owns(code'[t])
      BY <2>1, <2>4 DEF Owns
    <3> QED
      BY <2>1, <2>4, <3>1, Stages
  <2> QED
    BY <1>1, <1>2, <1>4, <1>5, <2>1, <2>4, <2>5 DEF ForwardInv, Owns
<1> QED
  BY <1>7, <1>8

\* A forwarder that has only to let go of a.mu is none.
LEMMA ForwardedKeepsForward ==
  ASSUME AppInv, NEW t \in Threads, ForwardedAlready(t) \/ Forwarded(t)
  PROVE  ForwardInv'
<1>1. /\ Busy(t) /\ UNCHANGED <<call, runners, runner>> /\ Goes(t, <<Unlock(App)>>)
  BY DEF ForwardedAlready, Forwarded, At, state
<1>2. t \in Forwarders /\ ForwardInv
  BY ForwardedStep DEF AppInv
<1>3. \A f \in Forwarders \ {t} : code'[f] = code[f]
  BY <1>1 DEF Goes, AppInv, Types, Threads
<1>4. ASSUME Tail(code[t]) = <<>>
      PROVE  code'[t] = <<Unlock(App)>>
  <2>1. Unlock(App) \in Instructions
    <3>1. App \in Mutexes /\ "Unlock" \in Operations
      BY HoldFacts DEF Operations
    <3> QED
      BY <3>1 DEF Unlock, Instr, Instructions
  <2>2. code'[t] = <<Unlock(App)>> \o <<>>
    BY <1>1, <1>4 DEF Goes, AppInv, Types
  <2> QED
    BY <2>1, <2>2, ConcatEmptySeq
<1>5. ASSUME code'[t] = <<Unlock(App)>>
      PROVE  ~Waits(code'[t]) /\ ~Owns(code'[t]) /\ ~Resets(code'[t]) /\ \A e \in Nat : ~Ranges(code'[t], e)
  <2>1. ~Waits(code'[t]) /\ ~Owns(code'[t])
    BY <1>5, Stages
  <2> QED
    BY <2>1 DEF Owns
<1>6. CASE ForwardedAlready(t)
  <2>1. Head(code[t]).op = "forward" /\ forwarding /\ forwarding'
    BY <1>6 DEF ForwardedAlready, At, state
  <2>2. Waits(code[t]) /\ Tail(code[t]) = <<>> /\ ~Owns(code[t])
    BY <1>1, <1>2, <2>1, Stages DEF ForwardInv, Busy
  <2>3. code'[t] = <<Unlock(App)>>
    BY <1>4, <2>2
  <2>4. ~Waits(code'[t]) /\ ~Owns(code'[t]) /\ ~Resets(code'[t]) /\ \A e \in Nat : ~Ranges(code'[t], e)
    BY <1>5, <2>3
  <2>5. PICK g \in Forwarders : Owns(code[g])
    BY <1>2, <2>1 DEF ForwardInv
  <2>6. g # t /\ code'[g] = code[g]
    BY <1>3, <2>2, <2>5
  <2>7. runner = 1 => Ranges(code'[g], 1)
    <3>1. ASSUME runner = 1
          PROVE  Ranges(code[g], 1)
      <4>1. PICK e \in Nat : Ranges(code[g], e)
        BY <1>2, <2>5, <3>1 DEF ForwardInv, Owns
      <4>2. e \in 1..runners
        BY <1>2, <4>1 DEF ForwardInv
      <4>3. e = 1
        <5>1. runner \in {NoRunner, runners}
          BY DEF AppInv, Types
        <5>2. runners = 1
          BY <3>1, <5>1 DEF NoRunner
        <5> QED
          BY <4>2, <5>2
      <4> QED
        BY <4>1, <4>3
    <3> QED
      BY <2>6, <3>1
  <2>8. \A f \in Forwarders : Owns(code'[f]) <=> Owns(code[f])
    BY <1>3, <2>2, <2>4
  <2>9. \A f \in Forwarders : /\ Waits(code'[f]) => Waits(code[f])
                              /\ Resets(code'[f]) => Resets(code[f])
                              /\ \A e \in Nat : Ranges(code'[f], e) => Ranges(code[f], e)
    BY <1>3, <2>4
  <2>10. \A f \in Forwarders :
           code'[f] \in {<<>>, <<Unlock(App)>>} \/ Waits(code'[f]) \/ Owns(code'[f])
    BY <1>2, <1>3, <2>3 DEF ForwardInv
  <2> QED
    BY <1>1, <1>2, <2>1, <2>7, <2>8, <2>9, <2>10 DEF ForwardInv
<1>7. CASE Forwarded(t)
  <2>1. Head(code[t]).op = "forwarded" /\ ~forwarding'
    BY <1>7 DEF Forwarded, At
  <2>2. Resets(code[t]) /\ Tail(code[t]) = <<>> /\ Owns(code[t])
    BY <1>1, <1>2, <2>1, Stages DEF ForwardInv, Busy, Owns
  <2>3. code'[t] = <<Unlock(App)>>
    BY <1>4, <2>2
  <2>4. ~Waits(code'[t]) /\ ~Owns(code'[t]) /\ ~Resets(code'[t]) /\ \A e \in Nat : ~Ranges(code'[t], e)
    BY <1>5, <2>3
  <2>5. runner # 1
    BY <1>2, <2>2 DEF ForwardInv
  <2>6. \A f \in Forwarders : ~Owns(code'[f])
    BY <1>2, <1>3, <2>2, <2>4 DEF ForwardInv
  <2>7. \A f \in Forwarders : ~Resets(code'[f]) /\ \A e \in Nat : ~Ranges(code'[f], e)
    BY <2>6 DEF Owns
  <2>8. \A f \in Forwarders :
          code'[f] \in {<<>>, <<Unlock(App)>>} \/ Waits(code'[f]) \/ Owns(code'[f])
    BY <1>2, <1>3, <2>3 DEF ForwardInv
  <2>9. \A f \in Forwarders : Waits(code'[f]) => Waits(code[f])
    BY <1>3, <2>4
  <2> QED
    BY <1>1, <1>2, <2>1, <2>5, <2>6, <2>7, <2>8, <2>9 DEF ForwardInv
<1> QED
  BY <1>6, <1>7

-----------------------------------------------------------------------------
(* The theorem                                                             *)

LEMMA InitAppInv ==
  ASSUME AppInit
  PROVE  AppInv
<1>1. 0 \in 0..MaxCalls /\ 0 \in 0..MaxRunners
  BY BoundsAssumption
<1>2. Free \in Mutex
  BY DEF Free, Mutex
<1>3. Types
  <2>1. /\ <<>> \in Seq(Instructions)
        /\ "" \in Calls \cup {"", "forwardScans"}
        /\ {} \subseteq 1..0
    OBVIOUS
  <2>2. locks \in [Mutexes -> Mutex]
    BY <1>2 DEF AppInit, Mutexes
  <2>3. code \in [Threads -> Seq(Instructions)] /\ call \in [Threads -> Calls \cup {"", "forwardScans"}]
    BY <2>1 DEF AppInit
  <2> QED
    BY <1>1, <2>1, <2>2, <2>3 DEF AppInit, Types, NoRunner
<1>4. LockInv
  <2> DEFINE h == [t \in Threads |-> Nothing]
  <2>1. h \in [Threads -> Holds] /\ \A t \in Threads : h[t] = Nothing
    BY HoldFacts
  <2> HIDE DEF h
  <2>2. Fitting(h)
    <3> SUFFICES ASSUME NEW t \in Threads
                 PROVE  Fits(Own(t, runners), code[t], h[t], Nothing)
      BY DEF Fitting
    <3>1. code[t] = <<>>
      BY DEF AppInit
    <3>2. Nothing \in Holdings
      BY HoldFacts
    <3> QED
      BY <2>1, <3>1, <3>2, FitsEmpty
  <2>3. ASSUME NEW m \in Mutexes PROVE HeldAs(locks[m], m, h)
    <3>1. locks[m] = Free
      BY DEF AppInit, Mutexes
    <3>2. \A t \in Threads : h[t][m] = "none"
      BY <2>1 DEF Nothing
    <3>3. Readers(m, h) = {}
      BY <3>2 DEF Readers
    <3> QED
      BY <3>1, <3>2, <3>3, FS_EmptySet, ThreadsAssumption DEF HeldAs, Free
  <2> QED
    BY <2>1, <2>2, <2>3 DEF LockInv
<1>5. ForwardInv
  <2>1. \A f \in Forwarders : code[f] = <<>> /\ call[f] = "" /\ f \in Threads
    BY DEF AppInit, Threads
  <2>2. \A f \in Forwarders : ~Waits(code[f]) /\ ~Owns(code[f])
    BY <2>1, Stages
  <2>3. \A f \in Forwarders : ~Resets(code[f]) /\ \A e \in Nat : ~Ranges(code[f], e)
    BY <2>2 DEF Owns
  <2> QED
    BY <2>1, <2>2, <2>3 DEF AppInit, ForwardInv
<1> QED
  BY <1>3, <1>4, <1>5 DEF AppInv

\* Every step of every goroutine
LEMMA StepAppInv ==
  ASSUME AppInv, NEW t \in Threads, Begin(t) \/ Step(t)
  PROVE  AppInv'
<1> USE DEF At, state
<1>1. CASE Begin(t)
  <2>1. Types' /\ LockInv'
    BY <1>1, BeginStep
  <2>2. \A f \in Forwarders : code'[f] = code[f] /\ call'[f] = call[f]
    BY <1>1, ThreadsAssumption DEF Begin, AppInv, Types, Threads
  <2>3. ForwardInv'
    BY <1>1, <2>2, CallsKeepForward DEF Begin
  <2> QED
    BY <2>1, <2>3 DEF AppInv
<1>2. CASE RLocks(t) \/ RUnlocks(t) \/ Locks(t) \/ Unlocks(t)
  <2>1. Types' /\ LockInv'
    BY <1>2, RLocksStep, RUnlocksStep, LocksStep, UnlocksStep
  <2>2. /\ Busy(t) /\ Head(code[t]).op \in {"Lock", "RLock", "Unlock", "RUnlock"}
        /\ Goes(t, <<>>) \/ code' = code
        /\ UNCHANGED <<call, calls, runners, runner, running, mqttClients, standalone, forwarding>>
    BY <1>2 DEF RLocks, RUnlocks, Locks, Unlocks
  <2>3. ForwardInv'
    BY <2>2, LockingKeepsForward
  <2> QED
    BY <2>1, <2>3 DEF AppInv
<1>3. CASE Go(t)
  BY <1>3, GoStep, GoKeepsForward DEF AppInv
<1>4. CASE Forward(t)
  BY <1>4, ForwardStep, ForwardKeepsForward DEF AppInv
<1>5. CASE ForwardedAlready(t) \/ Forwarded(t)
  BY <1>5, ForwardedStep, ForwardedKeepsForward DEF AppInv
<1>6. ASSUME Busy(t), Head(code[t]).op \in ((ReadCalls \cup WriteCalls \cup RunnerOps
                                               \cup {"start", "stop", "close"}) \ {"forward", "forwarded"}),
             \E more : Goes(t, more),
             UNCHANGED <<call, forwarding>>,
             \/ runners' = runners /\ runner' \in {runner, NoRunner}
             \/ runners' = runners + 1 /\ runner' = runners + 1
      PROVE  ForwardInv'
  <2>1. t \notin Forwarders
    BY <1>6, CallerStep
  <2>2. \A f \in Forwarders : code'[f] = code[f]
    BY <1>6, <2>1 DEF Goes, AppInv, Types, Threads
  <2> QED
    BY <1>6, <2>2, CallsKeepForward
<1>7. CASE EngineStart(t) \/ EngineStop(t)
  <2>1. Types' /\ LockInv'
    BY <1>7, EngineStartStep, EngineStopStep
  <2>2. ForwardInv'
    BY <1>6, <1>7 DEF EngineStart, EngineStop
  <2> QED
    BY <2>1, <2>2 DEF AppInv
<1>8. CASE RunnerClose(t) \/ RunnerCloseClient(t)
  <2>1. Types' /\ LockInv'
    BY <1>8, RunnerCloseStep, RunnerCloseClientStep
  <2>2. ForwardInv'
    BY <1>6, <1>8 DEF RunnerClose, RunnerCloseClient, RunnerOps
  <2> QED
    BY <2>1, <2>2 DEF AppInv
<1>9. CASE RunnerDisable(t) \/ RunnerNoClient(t) \/ RunnerClient(t)
  <2>1. Types' /\ LockInv'
    BY <1>9, RunnerDisableStep, RunnerNoClientStep, RunnerClientStep
  <2>2. ForwardInv'
    BY <1>6, <1>9 DEF RunnerDisable, RunnerNoClient, RunnerClient, RunnerOps
  <2> QED
    BY <2>1, <2>2 DEF AppInv
<1>10. CASE Connect(t) \/ Disconnect(t) \/ Shutdown(t)
  <2>1. Types' /\ LockInv'
    BY <1>10, ConnectStep, DisconnectStep, ShutdownStep
  <2>2. ForwardInv'
    BY <1>6, <1>10 DEF Connect, Disconnect, Shutdown, WriteCalls
  <2> QED
    BY <2>1, <2>2 DEF AppInv
<1>11. CASE Drop(t) \/ CreateFails(t) \/ Create(t)
  <2>1. Types' /\ LockInv'
    BY <1>11, DropStep, FailsStep, CreateStep
  <2>2. ForwardInv'
    BY <1>6, <1>11 DEF Drop, CreateFails, Create, WriteCalls, RunnerOps
  <2> QED
    BY <2>1, <2>2 DEF AppInv
<1>12. CASE StartScanning(t) \/ StopScanning(t) \/ GetStatus(t)
  <2>1. Types' /\ LockInv'
    BY <1>12, StartScanningStep, StopScanningStep, GetStatusStep
  <2>2. ForwardInv'
    BY <1>6, <1>12 DEF StartScanning, StopScanning, GetStatus, ReadCalls
  <2> QED
    BY <2>1, <2>2 DEF AppInv
<1>13. CASE SetBandEnabled(t) \/ SetGain(t)
  <2>1. Types' /\ LockInv'
    BY <1>13, SetBandEnabledStep, SetGainStep
  <2>2. ForwardInv'
    BY <1>6, <1>13 DEF SetBandEnabled, SetGain, WriteCalls
  <2> QED
    BY <2>1, <2>2 DEF AppInv
<1>14. CASE EnableMQTT(t) \/ DisableMQTT(t)
  <2>1. Types' /\ LockInv'
    BY <1>14, EnableMQTTStep, DisableMQTTStep
  <2>2. ForwardInv'
    BY <1>6, <1>14 DEF EnableMQTT, DisableMQTT, WriteCalls
  <2> QED
    BY <2>1, <2>2 DEF AppInv
<1>15. CASE StartMQTTRunner(t) \/ StartMQTTStandalone(t) \/ StartMQTTFails(t)
  <2>1. Types' /\ LockInv'
    BY <1>15, StartMQTTRunnerStep, FailsStep
  <2>2. ForwardInv'
    BY <1>6, <1>15 DEF StartMQTTRunner, StartMQTTStandalone, StartMQTTFails, WriteCalls
  <2> QED
    BY <2>1, <2>2 DEF AppInv
<1> QED
  BY <1>1, <1>2, <1>3, <1>4, <1>5, <1>7, <1>8, <1>9, <1>10, <1>11, <1>12, <1>13, <1>14, <1>15 DEF Step

LEMMA StutterAppInv ==
  ASSUME AppInv, UNCHANGED appVars
  PROVE  AppInv'
<1>1. Types' /\ ForwardInv'
  BY DEF AppInv, Types, ForwardInv, appVars
<1>2. PICK h \in [Threads -> Holds] : Fitting(h) /\ \A m \in Mutexes : HeldAs(locks[m], m, h)
  BY DEF AppInv, LockInv
<1>3. Fitting(h)' /\ \A m \in Mutexes : HeldAs(locks'[m], m, h)
  BY <1>2 DEF Fitting, appVars
<1> QED
  BY <1>1, <1>3 DEF AppInv, LockInv

LEMMA AppInvMeans ==
  ASSUME AppInv
  PROVE  ForwardedOnce
<1>1. AppTypeOK
  <2>1. \A m \in Mutexes : locks[m].writer # None => locks[m].readers = 0
    BY DEF AppInv, LockInv, HeldAs
  <2>2. runner \in 0..runners
    <3>1. runner \in {NoRunner, runners} /\ runners \in Nat
      BY RunnerType DEF AppInv, Types
    <3> QED
      BY <3>1 DEF NoRunner
  <2> QED
    BY <2>1, <2>2 DEF AppInv, Types, AppTypeOK, Mutexes
<1>2. ForwardInv
  BY DEF AppInv
<1>3. ASSUME NEW f \in Forwarders, Forwards(f)
      PROVE  /\ Owns(code[f]) /\ ~Waits(code[f])
             /\ \A e \in Nat : Ranges(code[f], e) => Arg(f) = e
  <2>1. code[f] # <<>> /\ Head(code[f]).op = "range"
    BY <1>3 DEF Forwards
  <2>2. code[f] \in {<<>>, <<Unlock(App)>>} \/ Waits(code[f]) \/ Owns(code[f])
    BY <1>2 DEF ForwardInv
  <2>3. PICK d \in Nat : code[f] = <<Instr("range", d)>>
    BY <2>1, <2>2, Stages
  <2>4. Ranges(code[f], d) /\ Arg(f) = d
    BY <2>3 DEF Ranges, Arg, Instr
  <2>5. Owns(code[f])
    BY <2>4 DEF Owns
  <2> QED
    BY <2>2, <2>4, <2>5, Stages
<1>4. \A t, u \in Forwarders : Forwards(t) /\ Forwards(u) => t = u
  BY <1>2, <1>3 DEF ForwardInv
<1>5. ASSUME Quiet, runner = 1, \E f \in Forwarders : call[f] = "forwardScans"
      PROVE  Served
  <2>1. PICK g \in Forwarders : Waits(code[g]) \/ Ranges(code[g], 1)
    BY <1>2, <1>5 DEF ForwardInv
  <2>2. code[g] # <<>>
    BY <2>1 DEF Waits, Ranges
  <2>3. Forwards(g)
    BY <1>5, <2>2 DEF Quiet, Busy, Threads
  <2>4. Ranges(code[g], 1) /\ Arg(g) = 1
    BY <1>3, <2>1, <2>3
  <2> QED
    BY <1>5, <2>3, <2>4 DEF Served
<1> QED
  BY <1>1, <1>4, <1>5 DEF ForwardedOnce

\* However many goroutines call the application, and whatever holds up a.mu,
\* one goroutine at the most forwards scans; and once the window asked for
\* them and every call has ended, those of the first runner go to it
\* (forwardScans, app.go:404).  Each mutex is as its goroutines hold it.
THEOREM ScansForwardedOnce == AppSpec => []ForwardedOnce
<1>1. AppInit => AppInv
  BY InitAppInv
<1>2. AppInv /\ [AppNext]_appVars => AppInv'
  BY StepAppInv, StutterAppInv DEF AppNext
<1>3. AppInv => ForwardedOnce
  BY AppInvMeans
<1> QED
  BY <1>1, <1>2, <1>3, PTL DEF AppSpec, AppSafe

-----------------------------------------------------------------------------
(***************************************************************************)
(* The store of the browser                                                *)
(***************************************************************************)
Viewers(s) == {v \in Views : s \in view[v]}
Shown == UNION {view[v] : v \in Views}

\* Someone is logged in while the store has a client, which is not over.
Session ==
  /\ auth <=> current # 0
  /\ current # 0 => clients[current].at # "over"

\* What is counted is shown.  It is all that is shown while there is a client;
\* a logout forgets the counts of views that stay for a while.
Counts ==
  /\ \A s \in Scanners : refs[s] <= Cardinality(Viewers(s))
  /\ current # 0 => \A s \in Scanners : refs[s] = Cardinality(Viewers(s))

\* The current client keeps the names of what is shown, and mqtt.js has asked
\* for all of them while the connection is up.
Subscribed ==
  current # 0 =>
    /\ clients[current].subs = Shown
    /\ clients[current].at = "up" => Shown \subseteq clients[current].asked

\* _disconnectTimer runs while mqtt.js tries, waits or has ended, and at no
\* other time.
Timers ==
  \A i \in Ids : clients[i].at \in {"asking", "failed", "up", "over"} => clients[i].timer = Off

\* What _disconnectTimer has left and the outage so far make up Debounce.
Countdown ==
  current # 0 /\ clients[current].timer # Off =>
    down + clients[current].timer >= Debounce

IInv == TypeOK /\ Session /\ Counts /\ Subscribed /\ Timers /\ Countdown /\ IndicatorFollows

TimerRange == 0..Debounce \cup {Off}
LeftRange  == 0..ReconnectPeriod \cup 0..ConnectTimeout \cup {Off}
Client     == [at : {"asking", "failed", "trying", "up", "waiting", "ended", "over"},
               subs : SUBSET Scanners, asked : SUBSET Scanners,
               timer : TimerRange, left : LeftRange]

USE BrowserClientAssumption DEF Off

-----------------------------------------------------------------------------
(* What the actions share                                                  *)

LEMMA Delays == Debounce \in Nat \ {0} /\ ReconnectPeriod \in Nat \ {0} /\ ConnectTimeout \in Nat \ {0}
  OBVIOUS

\* Of a set of clients that is a prefix of the numbers, the next one is new.
LEMMA Numbered ==
  ASSUME NEW n \in Nat
  PROVE  Cardinality(1..n) = n /\ IsFiniteSet(1..n)
  <1>1. 1 \in Int /\ n \in Int
    OBVIOUS
  <1>2. IsFiniteSet(1..n) /\ Cardinality(1..n) = IF 1 > n THEN 0 ELSE n - 1 + 1
    BY <1>1, FS_Interval, Zenon
  <1>. QED  BY <1>2

LEMMA IdsType == 
  ASSUME TypeOK
  PROVE  /\ Cardinality(Ids) \in Nat /\ current \in Nat
         /\ \A i \in Ids : i \in Nat \ {0} /\ clients[i] \in Client
  BY DEF TypeOK, Client, TimerRange, LeftRange

\* Setting one client leaves the others.
LEMMA SetOne ==
  ASSUME NEW i \in Ids, NEW c, Set(i, c)
  PROVE  /\ Ids' = Ids /\ clients'[i] = c
         /\ \A j \in Ids \ {i} : clients'[j] = clients[j]
  BY DEF Set, Ids

\* The prover's view of the next-state relation: what a step does to the clients
LEMMA NextCases ==
  ASSUME TypeOK, [Next]_vars
  PROVE  \/ Login \/ Logout \/ BeforeUnload \/ Visible \/ Tick
         \/ (\E i \in Ids : Credentials(i)) \/ (\E i \in Ids : Connack(i))
         \/ (\E i \in Ids : Close(i)) \/ (\E i \in Ids : Retry(i)) \/ (\E i \in Ids : Expire(i))
         \/ (\E v \in Views, S \in SUBSET Scanners : Show(v, S))
         \/ UNCHANGED vars
  BY DEF Next

\* How many views show a scanner, and what one view's change does to that
LEMMA ViewersCount ==
  ASSUME TypeOK, NEW s \in Scanners
  PROVE  /\ IsFiniteSet(Viewers(s)) /\ Cardinality(Viewers(s)) \in 0..Cardinality(Views)
         /\ Cardinality(Viewers(s)) = 0 <=> Viewers(s) = {}
         /\ Cardinality(Views) \in Nat
  <1>1. Viewers(s) \in SUBSET Views
    BY DEF Viewers
  <1>2. IsFiniteSet(Viewers(s)) /\ Cardinality(Viewers(s)) <= Cardinality(Views)
    BY <1>1, FS_Subset
  <1>3. Cardinality(Viewers(s)) \in Nat /\ Cardinality(Views) \in Nat
    BY <1>2, FS_CardinalityType
  <1>4. Cardinality(Viewers(s)) = 0 <=> Viewers(s) = {}
    BY <1>2, FS_EmptySet
  <1>. QED  BY <1>2, <1>3, <1>4

LEMMA ViewersChange ==
  ASSUME TypeOK, NEW v \in Views, NEW S \in SUBSET Scanners,
         view' = [view EXCEPT ![v] = S], NEW s \in Scanners
  PROVE  Cardinality(Viewers(s))' =
           IF s \in S \ view[v] THEN Cardinality(Viewers(s)) + 1
           ELSE IF s \in view[v] \ S THEN Cardinality(Viewers(s)) - 1
           ELSE Cardinality(Viewers(s))
  <1>. DEFINE W == Viewers(s)
  <1>1. IsFiniteSet(W)
    BY ViewersCount
  <1>2. W' = {w \in Views : s \in (IF w = v THEN S ELSE view[w])}
    BY DEF TypeOK, Viewers
  <1>3. W = {w \in Views : s \in view[w]}
    BY DEF Viewers
  <1>. HIDE DEF W
  <1>4. CASE s \in S \ view[v]
    <2>1. W' = W \cup {v} /\ v \notin W
      BY <1>2, <1>3, <1>4
    <2>. QED  BY <2>1, <1>1, <1>4, FS_AddElement DEF W
  <1>5. CASE s \in view[v] \ S
    <2>1. W' = W \ {v} /\ v \in W
      BY <1>2, <1>3, <1>5
    <2>. QED  BY <2>1, <1>1, <1>5, FS_RemoveElement DEF W
  <1>6. CASE s \notin S \ view[v] /\ s \notin view[v] \ S
    <2>1. W' = W
      BY <1>2, <1>3, <1>6
    <2>. QED  BY <2>1, <1>6 DEF W
  <1>. QED  BY <1>4, <1>5, <1>6

\* What an action of one client makes of it is a client.
LEMMA ClientSteps ==
  ASSUME NEW c \in Client
  PROVE  /\ Trying(c) \in Client /\ Disconnected(c) \in Client /\ Debounced(c) \in Client
         /\ Ended(c) \in Client /\ Fresh \in Client
         /\ [c EXCEPT !.at = "failed"] \in Client
         /\ [c EXCEPT !.at = "up", !.asked = Resubscribed(c), !.timer = Off, !.left = Off] \in Client
         /\ [Debounced(c) EXCEPT !.at = "waiting", !.left = ReconnectPeriod] \in Client
         /\ [c EXCEPT !.timer = Off] \in Client
         /\ \A S, T \in SUBSET Scanners : Unsubscribe(Subscribe(c, S), T) \in Client
         /\ c.timer # 0 /\ c.left # 0 =>
              [c EXCEPT !.timer = Second(@), !.left = Second(@)] \in Client
  <1>. USE DEF Client
  <1>0. /\ {0, Debounce, Off} \subseteq TimerRange /\ {0, ReconnectPeriod, ConnectTimeout, Off} \subseteq LeftRange
        /\ \A n \in TimerRange : n # 0 => Second(n) \in TimerRange
        /\ \A n \in LeftRange : n # 0 => Second(n) \in LeftRange
    BY Delays DEF TimerRange, LeftRange, Second
  <1>1. Trying(c) \in Client
    BY <1>0 DEF Trying
  <1>2. Disconnected(c) \in Client
    BY <1>0 DEF Disconnected
  <1>3. Debounced(c) \in Client
    BY <1>0 DEF Debounced
  <1>4. Ended(c) \in Client
    <2>1. \A d \in Client : [d EXCEPT !.at = "ended", !.left = Off] \in Client
      BY <1>0
    <2>. QED  BY <1>3, <2>1 DEF Ended
  <1>5. Fresh \in Client
    BY <1>0 DEF Fresh
  <1>6. [c EXCEPT !.at = "failed"] \in Client
    OBVIOUS
  <1>7. [c EXCEPT !.at = "up", !.asked = Resubscribed(c), !.timer = Off, !.left = Off] \in Client
    BY <1>0 DEF Resubscribed
  <1>8. [Debounced(c) EXCEPT !.at = "waiting", !.left = ReconnectPeriod] \in Client
    BY <1>0, <1>3
  <1>9. [c EXCEPT !.timer = Off] \in Client
    BY <1>0
  <1>10. \A S, T \in SUBSET Scanners : Unsubscribe(Subscribe(c, S), T) \in Client
    <2>1. \A d \in Client, S \in SUBSET Scanners : Subscribe(d, S) \in Client /\ Unsubscribe(d, S) \in Client
      BY DEF Subscribe, Unsubscribe
    <2>. QED  BY <2>1
  <1>11. ASSUME c.timer # 0, c.left # 0
         PROVE  [c EXCEPT !.timer = Second(@), !.left = Second(@)] \in Client
    BY <1>0, <1>11
  <1>. QED  BY <1>1, <1>2, <1>3, <1>4, <1>5, <1>6, <1>7, <1>8, <1>9, <1>10, <1>11

LEMMA SetClient ==
  ASSUME TypeOK, NEW i \in Ids, NEW c \in Client, Set(i, c)
  PROVE  Ids' = Ids /\ \A j \in Ids : clients'[j] \in Client
  <1>1. \A j \in Ids : clients[j] \in Client
    BY IdsType
  <1>2. Ids' = Ids /\ clients'[i] = c /\ \A j \in Ids \ {i} : clients'[j] = clients[j]
    BY SetOne
  <1>. QED  BY <1>1, <1>2

\* A login adds a client that is asking.
LEMMA LoginAdds ==
  ASSUME TypeOK, Login
  PROVE  /\ Ids' = Ids \cup {current'} /\ current' \notin Ids /\ current' # 0
         /\ Ids' = 1..Cardinality(Ids') /\ Cardinality(Ids') \in 0..MaxLogins
         /\ clients'[current'] = Fresh /\ \A i \in Ids : clients'[i] = clients[i]
  <1>1. Cardinality(Ids) \in Nat /\ Ids = 1..Cardinality(Ids)
    BY DEF TypeOK
  <1>. DEFINE n == Cardinality(Ids)
  <1>2. current' = n + 1 /\ n < MaxLogins
    BY DEF Login
  <1>3. Ids' = 1..n + 1
    BY <1>2 DEF Login, Ids
  <1>4. Cardinality(1..n + 1) = n + 1
    BY <1>1, Numbered
  <1>5. Ids = 1..n /\ n \in Nat
    BY <1>1
  <1>6. clients' = [i \in 1..n + 1 |-> IF i = n + 1 THEN Fresh ELSE clients[i]]
    BY <1>2 DEF Login
  <1>7. Cardinality(Ids') = n + 1
    BY <1>3, <1>4
  <1>. HIDE DEF n
  <1>. QED  BY <1>2, <1>3, <1>5, <1>6, <1>7, SMT

\* Actions that leave the set of clients alone keep the types of it.
LEMMA SameIds ==
  ASSUME TypeOK, Ids' = Ids, current' \in Ids \cup {0}, auth' \in BOOLEAN,
         \A i \in Ids : clients'[i] \in Client,
         view' \in [Views -> SUBSET Scanners],
         refs' \in [Scanners -> 0..Cardinality(Views)],
         ui' \in [connected : BOOLEAN, ticking : BOOLEAN], down' \in 0..Debounce + 1
  PROVE  TypeOK'
  BY DEF TypeOK, Client, TimerRange, LeftRange

LEMMA TypeStep ==
  ASSUME TypeOK, Session, Counts, [Next]_vars
  PROVE  TypeOK'
  <1>. USE Delays
  <1>0. /\ auth \in BOOLEAN /\ view \in [Views -> SUBSET Scanners] /\ current \in Ids \cup {0}
        /\ refs \in [Scanners -> 0..Cardinality(Views)]
        /\ ui \in [connected : BOOLEAN, ticking : BOOLEAN] /\ down \in 0..Debounce + 1
        /\ \A i \in Ids : clients[i] \in Client
    BY DEF TypeOK, Client, TimerRange, LeftRange
  <1>a. ui.ticking \in BOOLEAN
    BY <1>0
  <1>b. down \in Nat /\ down <= Debounce + 1 /\ Debounce \in Nat
    BY <1>0
  <1>1. CASE Login
    <2>1. /\ Ids' = 1..Cardinality(Ids') /\ Cardinality(Ids') \in 0..MaxLogins /\ current' \in Ids'
          /\ \A i \in Ids' : clients'[i] \in Client
      <3>1. Fresh \in Client
        BY DEF Client, Fresh, TimerRange, LeftRange
      <3>. QED  BY <1>0, <1>1, <3>1, LoginAdds
    <2>2. auth' \in BOOLEAN /\ view' = view /\ refs' = refs /\ ui' = ui /\ down' = 0
      BY <1>1 DEF Login
    <2>. QED  BY <1>0, <2>1, <2>2 DEF TypeOK, Client, TimerRange, LeftRange
  <1>2. CASE Logout
    <2>1. current \in Ids
      BY <1>0, <1>2 DEF Logout, Session
    <2>2. Disconnected(clients[current]) \in Client
      BY <1>0, <2>1, ClientSteps
    <2>3. Ids' = Ids /\ \A i \in Ids : clients'[i] \in Client
      BY <1>2, <2>1, <2>2, SetClient DEF Logout
    <2>4. Cardinality(Views) \in Nat
      BY FS_CardinalityType
    <2>5. /\ refs' \in [Scanners -> 0..Cardinality(Views)] /\ current' = 0 /\ auth' = FALSE
          /\ ui' \in [connected : BOOLEAN, ticking : BOOLEAN] /\ down' = 0 /\ view' = view
      BY <1>2, <2>4 DEF Logout
    <2>6. current' \in Ids \cup {0} /\ down' \in 0..Debounce + 1
      BY <1>b, <2>5
    <2>8. auth' \in BOOLEAN
      BY <2>5, Zenon
    <2>7. /\ view' \in [Views -> SUBSET Scanners]
          /\ refs' \in [Scanners -> 0..Cardinality(Views)]
          /\ ui' \in [connected : BOOLEAN, ticking : BOOLEAN]
      BY <1>0, <2>5
    <2>. QED  BY <2>3, <2>6, <2>7, <2>8, SameIds
  <1>3. CASE BeforeUnload
    <2>1. Ids' = Ids /\ \A i \in Ids : clients'[i] \in Client
      BY <1>0, <1>3, ClientSteps DEF BeforeUnload, Ids
    <2>. QED  BY <1>0, <1>3, <2>1, SameIds DEF BeforeUnload
  <1>4. CASE Visible
    <2>1. Ids' = Ids /\ \A i \in Ids : clients'[i] \in Client
      BY <1>0, <1>4, ClientSteps DEF Visible, Ids
    <2>. QED  BY <1>0, <1>4, <2>1, SameIds DEF Visible
  <1>5. CASE Tick
    <2>1. Ids' = Ids /\ \A i \in Ids : clients'[i] \in Client
      BY <1>0, <1>5, ClientSteps DEF Tick, Ids
    <2>2. down' \in 0..Debounce + 1
      <3>1. down' = down \/ (~(down > Debounce) /\ down' = down + 1)
        BY <1>5 DEF Tick
      <3>. QED  BY <1>b, <3>1
    <2>. QED  BY <1>0, <1>5, <2>1, <2>2, SameIds DEF Tick
  <1>6. ASSUME NEW i \in Ids, Credentials(i) PROVE TypeOK'
    <2>0. Trying(clients[i]) \in Client /\ [clients[i] EXCEPT !.at = "failed"] \in Client
      BY <1>0, ClientSteps
    <2>1. Ids' = Ids /\ \A j \in Ids : clients'[j] \in Client
      BY <1>6, <2>0, SetClient DEF Credentials
    <2>. QED  BY <1>0, <1>6, <2>1, SameIds DEF Credentials
  <1>7. ASSUME NEW i \in Ids, Connack(i) PROVE TypeOK'
    <2>0. [clients[i] EXCEPT !.at = "up", !.asked = Resubscribed(clients[i]), !.timer = Off, !.left = Off] \in Client
      BY <1>0, ClientSteps
    <2>1. Ids' = Ids /\ \A j \in Ids : clients'[j] \in Client
      BY <1>7, <2>0, SetClient DEF Connack
    <2>2. down' \in 0..Debounce + 1
      BY <1>0, <1>7 DEF Connack
    <2>3. ui' \in [connected : BOOLEAN, ticking : BOOLEAN]
      BY <1>0, <1>7 DEF Connack, Report
    <2>. QED  BY <1>0, <1>7, <2>1, <2>2, <2>3, SameIds DEF Connack
  <1>8. ASSUME NEW i \in Ids, Close(i) PROVE TypeOK'
    <2>0. [Debounced(clients[i]) EXCEPT !.at = "waiting", !.left = ReconnectPeriod] \in Client
      BY <1>0, ClientSteps
    <2>1. Ids' = Ids /\ \A j \in Ids : clients'[j] \in Client
      BY <1>8, <2>0, SetClient DEF Close
    <2>. QED  BY <1>0, <1>8, <2>1, SameIds DEF Close
  <1>9. ASSUME NEW i \in Ids, Retry(i) PROVE TypeOK'
    <2>0. Trying(clients[i]) \in Client
      BY <1>0, ClientSteps
    <2>1. Ids' = Ids /\ \A j \in Ids : clients'[j] \in Client
      BY <1>9, <2>0, SetClient DEF Retry
    <2>. QED  BY <1>0, <1>9, <2>1, SameIds DEF Retry
  <1>10. ASSUME NEW i \in Ids, Expire(i) PROVE TypeOK'
    <2>0. [clients[i] EXCEPT !.timer = Off] \in Client
      BY <1>0, ClientSteps
    <2>1. Ids' = Ids /\ \A j \in Ids : clients'[j] \in Client
      BY <1>10, <2>0, SetClient DEF Expire
    <2>2. ui' \in [connected : BOOLEAN, ticking : BOOLEAN]
      <3>1. ui' = ui \/ ui' = [connected |-> FALSE, ticking |-> ui.ticking \/ FALSE]
        BY <1>10 DEF Expire, Report
      <3>2. [connected |-> FALSE, ticking |-> ui.ticking \/ FALSE] \in [connected : BOOLEAN, ticking : BOOLEAN]
        BY <1>a
      <3>. QED  BY <1>0, <3>1, <3>2
    <2>. QED  BY <1>0, <1>10, <2>1, <2>2, SameIds DEF Expire
  <1>11. ASSUME NEW v \in Views, NEW S \in SUBSET Scanners, Show(v, S) PROVE TypeOK'
    <2>1. Ids' = Ids /\ \A j \in Ids : clients'[j] \in Client
      <3>1. CASE current = 0
        BY <1>0, <1>11, <3>1 DEF Show, Ids
      <3>2. CASE current # 0
        <4>. DEFINE first == {s \in S \ view[v] : refs'[s] = 1}
                    last  == {s \in view[v] \ S : refs[s] > 0 /\ refs'[s] = 0}
        <4>1. Set(current, Unsubscribe(Subscribe(clients[current], first), last))
          BY <1>11, <3>2 DEF Show
        <4>2. first \in SUBSET Scanners /\ last \in SUBSET Scanners
          BY <1>0
        <4>. HIDE DEF first, last
        <4>3. current \in Ids
          BY <1>0, <3>2
        <4>4. Unsubscribe(Subscribe(clients[current], first), last) \in Client
          BY <1>0, <4>2, <4>3, ClientSteps
        <4>. QED  BY <4>1, <4>3, <4>4, SetClient
      <3>. QED  BY <3>1, <3>2
    <2>2. view' \in [Views -> SUBSET Scanners]
      BY <1>0, <1>11 DEF Show
    <2>3. ASSUME NEW s \in Scanners
          PROVE  Counted(view[v], S)[s] \in 0..Cardinality(Views)
      <3>1. /\ refs[s] \in 0..Cardinality(Viewers(s))
            /\ Cardinality(Viewers(s)) \in 0..Cardinality(Views)
        BY <1>0, ViewersCount DEF Counts
      <3>2. CASE s \in S \ view[v]
        <4>1. Cardinality(Viewers(s))' = Cardinality(Viewers(s)) + 1
          BY <1>11, <3>2, ViewersChange DEF Show
        <4>2. Cardinality(Viewers(s))' <= Cardinality(Views)
          <5>1. Viewers(s)' \in SUBSET Views
            BY DEF Viewers
          <5>. QED  BY <5>1, FS_Subset
        <4>3. Counted(view[v], S)[s] = refs[s] + 1
          BY <3>2 DEF Counted
        <4>4. Cardinality(Views) \in Nat
          BY ViewersCount
        <4>. HIDE DEF Counted
        <4>. QED  BY <3>1, <4>1, <4>2, <4>3, <4>4
      <3>3. CASE s \notin S \ view[v]
        <4>1. Counted(view[v], S)[s] \in {Dropped(refs[s]), refs[s]}
          BY <3>3 DEF Counted
        <4>2. Dropped(refs[s]) \in 0..refs[s]
          BY <3>1, ViewersCount DEF Dropped
        <4>. QED  BY <1>0, <4>1, <4>2, ViewersCount
      <3>. QED  BY <3>2, <3>3
    <2>4. refs' \in [Scanners -> 0..Cardinality(Views)]
      BY <1>11, <2>3 DEF Show, Counted
    <2>. QED  BY <1>0, <1>11, <2>1, <2>2, <2>4, SameIds DEF Show
  <1>12. CASE UNCHANGED vars
    BY <1>12 DEF vars, TypeOK, Ids
  <1>. QED  BY <1>1, <1>2, <1>3, <1>4, <1>5, <1>6, <1>7, <1>8, <1>9, <1>10, <1>11, <1>12, NextCases

-----------------------------------------------------------------------------
(* What each action does to the fields of a client                         *)

LEMMA Fields ==
  ASSUME NEW c \in Client
  PROVE  /\ LET d == Trying(c) IN
              d.at = "trying" /\ d.subs = c.subs /\ d.asked = c.asked /\ d.timer = c.timer
         /\ LET d == Debounced(c) IN
              d.at = c.at /\ d.subs = c.subs /\ d.asked = c.asked /\ d.timer = Debounce
         /\ LET d == Disconnected(c) IN
              /\ d.at = (IF c.at \in {"asking", "failed"} THEN c.at ELSE "over")
              /\ d.timer = Off
         /\ LET d == [c EXCEPT !.at = "up", !.asked = Resubscribed(c), !.timer = Off, !.left = Off] IN
              d.at = "up" /\ d.subs = c.subs /\ d.asked = c.asked \cup c.subs /\ d.timer = Off
         /\ LET d == [c EXCEPT !.timer = Off] IN
              d.at = c.at /\ d.subs = c.subs /\ d.asked = c.asked /\ d.timer = Off
         /\ LET d == [c EXCEPT !.at = "failed"] IN
              d.at = "failed" /\ d.subs = c.subs /\ d.asked = c.asked /\ d.timer = c.timer
         /\ \A n \in LeftRange : LET d == [c EXCEPT !.at = "waiting", !.left = n] IN
              d.at = "waiting" /\ d.subs = c.subs /\ d.asked = c.asked /\ d.timer = c.timer
         /\ \A n \in LeftRange : LET d == [c EXCEPT !.at = "ended", !.left = n] IN
              d.at = "ended" /\ d.subs = c.subs /\ d.asked = c.asked /\ d.timer = c.timer
  BY DEF Client, Trying, Debounced, Disconnected, Resubscribed

LEMMA SubFields ==
  ASSUME NEW c \in Client, NEW S \in SUBSET Scanners, NEW T \in SUBSET Scanners
  PROVE  LET d == Unsubscribe(Subscribe(c, S), T) IN
           /\ d.at = c.at /\ d.timer = c.timer
           /\ d.subs = (c.subs \cup S) \ T
           /\ c.at = "up" => d.asked = (c.asked \cup S) \ T
  BY DEF Client, Subscribe, Unsubscribe

LEMMA SecondFields ==
  ASSUME NEW c \in Client
  PROVE  LET d == [c EXCEPT !.timer = Second(@), !.left = Second(@)] IN
           /\ d.at = c.at /\ d.subs = c.subs /\ d.asked = c.asked
           /\ d.timer = Second(c.timer)
  <1>1. \A m, n : LET d == [c EXCEPT !.timer = m, !.left = n] IN
           /\ d.at = c.at /\ d.subs = c.subs /\ d.asked = c.asked
           /\ d.timer = m
    BY DEF Client
  <1>. QED  BY <1>1, Zenon

Others(i) == Ids' = Ids /\ \A j \in Ids \ {i} : clients'[j] = clients[j]
SubsKept(i) == clients'[i].subs = clients[i].subs /\ clients'[i].asked = clients[i].asked

LEMMA AskStep ==
  ASSUME TypeOK, NEW i \in Ids, Credentials(i)
  PROVE  /\ Others(i) /\ SubsKept(i) /\ clients[i].at = "asking"
         /\ clients'[i].at \in {"trying", "failed"} /\ clients'[i].timer = clients[i].timer
         /\ UNCHANGED <<auth, view, current, refs, ui, down>>
  <1>. DEFINE c == clients[i]
  <1>1. c \in Client
    BY IdsType
  <1>2. \/ Set(i, Trying(c)) \/ Set(i, [c EXCEPT !.at = "failed"])
    BY DEF Credentials
  <1>3. Others(i) /\ clients'[i] \in {Trying(c), [c EXCEPT !.at = "failed"]}
    BY <1>2, SetOne DEF Others
  <1>4. c.at = "asking" /\ UNCHANGED <<auth, view, current, refs, ui, down>>
    BY DEF Credentials
  <1>. HIDE DEF c
  <1>5. /\ clients'[i].subs = c.subs /\ clients'[i].asked = c.asked
        /\ clients'[i].at \in {"trying", "failed"} /\ clients'[i].timer = c.timer
    <2>1. CASE clients'[i] = Trying(c)
      BY <1>1, <2>1, Fields
    <2>2. CASE clients'[i] = [c EXCEPT !.at = "failed"]
      BY <1>1, <2>2, Fields
    <2>. QED  BY <1>3, <2>1, <2>2
  <1>. QED  BY <1>3, <1>4, <1>5 DEF c, SubsKept

LEMMA ConnackStep ==
  ASSUME TypeOK, NEW i \in Ids, Connack(i)
  PROVE  /\ Others(i) /\ clients[i].at = "trying" /\ clients'[i].at = "up"
         /\ clients'[i].subs = clients[i].subs
         /\ clients'[i].asked = clients[i].asked \cup clients[i].subs
         /\ clients'[i].timer = Off /\ ui'.connected = TRUE
         /\ UNCHANGED <<auth, view, current, refs>>
  <1>. DEFINE c == clients[i]
  <1>1. c \in Client
    BY IdsType
  <1>2. Set(i, [c EXCEPT !.at = "up", !.asked = Resubscribed(c), !.timer = Off, !.left = Off])
    BY DEF Connack
  <1>3. /\ Others(i)
        /\ clients'[i] = [c EXCEPT !.at = "up", !.asked = Resubscribed(c), !.timer = Off, !.left = Off]
    BY <1>2, SetOne DEF Others
  <1>4. c.at = "trying" /\ ui'.connected = TRUE /\ UNCHANGED <<auth, view, current, refs>>
    BY DEF Connack, Report
  <1>. HIDE DEF c
  <1>5. /\ clients'[i].subs = c.subs /\ clients'[i].asked = c.asked \cup c.subs
        /\ clients'[i].at = "up" /\ clients'[i].timer = Off
    BY <1>1, <1>3, Fields
  <1>. QED  BY <1>3, <1>4, <1>5 DEF c

LEMMA CloseStep ==
  ASSUME TypeOK, NEW i \in Ids, Close(i)
  PROVE  /\ Others(i) /\ SubsKept(i) /\ clients[i].at \in {"trying", "up"}
         /\ clients'[i].at = "waiting" /\ clients'[i].timer = Debounce
         /\ UNCHANGED <<auth, view, current, refs, ui, down>>
  <1>. DEFINE c == clients[i]
              d == Debounced(c)
  <1>0. c \in Client /\ ReconnectPeriod \in LeftRange
    BY IdsType, Delays DEF LeftRange
  <1>1. c \in Client /\ d \in Client /\ ReconnectPeriod \in LeftRange
    BY <1>0, ClientSteps
  <1>2. Set(i, [d EXCEPT !.at = "waiting", !.left = ReconnectPeriod])
    BY DEF Close
  <1>3. Others(i) /\ clients'[i] = [d EXCEPT !.at = "waiting", !.left = ReconnectPeriod]
    BY <1>2, SetOne DEF Others
  <1>4. c.at \in {"trying", "up"} /\ UNCHANGED <<auth, view, current, refs, ui, down>>
    BY DEF Close
  <1>5. d.subs = c.subs /\ d.asked = c.asked /\ d.timer = Debounce
    BY <1>1, Fields
  <1>. HIDE DEF c, d
  <1>6. /\ clients'[i].subs = d.subs /\ clients'[i].asked = d.asked
        /\ clients'[i].at = "waiting" /\ clients'[i].timer = d.timer
    BY <1>1, <1>3, Fields
  <1>. QED  BY <1>3, <1>4, <1>5, <1>6 DEF c, SubsKept

LEMMA RetryStep ==
  ASSUME TypeOK, NEW i \in Ids, Retry(i)
  PROVE  /\ Others(i) /\ SubsKept(i) /\ clients[i].at = "waiting"
         /\ clients'[i].at = "trying" /\ clients'[i].timer = clients[i].timer
         /\ UNCHANGED <<auth, view, current, refs, ui, down>>
  <1>1. clients[i] \in Client
    BY IdsType
  <1>2. Others(i) /\ clients'[i] = Trying(clients[i])
    BY SetOne DEF Others, Retry
  <1>3. clients[i].at = "waiting" /\ UNCHANGED <<auth, view, current, refs, ui, down>>
    BY DEF Retry
  <1>. QED  BY <1>1, <1>2, <1>3, Fields DEF SubsKept

LEMMA ExpireStep ==
  ASSUME TypeOK, NEW i \in Ids, Expire(i)
  PROVE  /\ Others(i) /\ SubsKept(i) /\ clients[i].timer = 0
         /\ clients'[i].at = clients[i].at /\ clients'[i].timer = Off
         /\ IF clients[i].at = "up" THEN ui' = ui ELSE ui'.connected = FALSE
         /\ UNCHANGED <<auth, view, current, refs, down>>
  <1>. DEFINE c == clients[i]
  <1>1. c \in Client
    BY IdsType
  <1>2. Others(i) /\ clients'[i] = [c EXCEPT !.timer = Off]
    BY SetOne DEF Others, Expire
  <1>3. c.timer = 0 /\ UNCHANGED <<auth, view, current, refs, down>>
    BY DEF Expire
  <1>4. IF c.at = "up" THEN ui' = ui ELSE ui'.connected = FALSE
    BY DEF Expire, Report
  <1>. HIDE DEF c
  <1>5. /\ clients'[i].subs = c.subs /\ clients'[i].asked = c.asked
        /\ clients'[i].at = c.at /\ clients'[i].timer = Off
    BY <1>1, <1>2, Fields
  <1>. QED  BY <1>2, <1>3, <1>4, <1>5 DEF c, SubsKept

LEMMA UnloadStep ==
  ASSUME TypeOK, BeforeUnload
  PROVE  /\ Ids' = Ids /\ UNCHANGED <<auth, view, current, refs, ui, down>>
         /\ \A i \in Ids :
              \/ clients'[i] = clients[i] /\ clients[i].at \notin {"trying", "up", "waiting"}
              \/ /\ SubsKept(i) /\ clients[i].at \in {"trying", "up", "waiting"}
                 /\ clients'[i].at = "ended"
                 /\ clients'[i].timer = IF clients[i].at = "waiting" THEN clients[i].timer ELSE Debounce
  <1>1. Ids' = Ids /\ UNCHANGED <<auth, view, current, refs, ui, down>>
    BY DEF BeforeUnload, Ids
  <1>2. ASSUME NEW i \in Ids
        PROVE  \/ clients'[i] = clients[i] /\ clients[i].at \notin {"trying", "up", "waiting"}
               \/ /\ SubsKept(i) /\ clients[i].at \in {"trying", "up", "waiting"}
                  /\ clients'[i].at = "ended"
                  /\ clients'[i].timer = IF clients[i].at = "waiting" THEN clients[i].timer ELSE Debounce
    <2>. DEFINE c == clients[i]
                d == IF c.at = "waiting" THEN c ELSE Debounced(c)
    <2>1. c \in Client /\ Debounced(c) \in Client /\ Off \in LeftRange
      BY IdsType, ClientSteps DEF LeftRange
    <2>2. clients'[i] = IF Alive(c) THEN [d EXCEPT !.at = "ended", !.left = Off] ELSE c
      BY DEF BeforeUnload, Ended
    <2>3. d \in Client
      BY <2>1
    <2>4. /\ d.subs = c.subs /\ d.asked = c.asked
          /\ d.timer = IF c.at = "waiting" THEN c.timer ELSE Debounce
      BY <2>1, Fields
    <2>. HIDE DEF c, d
    <2>5. CASE Alive(c)
      <3>1. /\ clients'[i].subs = d.subs /\ clients'[i].asked = d.asked
            /\ clients'[i].at = "ended" /\ clients'[i].timer = d.timer
        BY <2>1, <2>2, <2>3, <2>5, Fields
      <3>. QED  BY <2>4, <2>5, <3>1 DEF c, SubsKept, Alive
    <2>6. CASE ~Alive(c)
      BY <2>2, <2>6 DEF c, Alive
    <2>. QED  BY <2>5, <2>6
  <1>. QED  BY <1>1, <1>2

LEMMA VisibleStep ==
  ASSUME TypeOK, Visible
  PROVE  /\ Ids' = Ids /\ UNCHANGED <<auth, view, current, refs, ui, down>>
         /\ \A i \in Ids :
              \/ clients'[i] = clients[i]
              \/ /\ SubsKept(i) /\ clients[i].at \in {"trying", "waiting", "ended"}
                 /\ clients'[i].at = "trying" /\ clients'[i].timer = clients[i].timer
  <1>1. Ids' = Ids /\ UNCHANGED <<auth, view, current, refs, ui, down>>
    BY DEF Visible, Ids
  <1>2. \A i \in Ids : clients'[i] =
          IF clients[i].at \in {"trying", "waiting", "ended"} THEN Trying(clients[i]) ELSE clients[i]
    BY DEF Visible
  <1>3. \A i \in Ids : clients[i] \in Client
    BY IdsType
  <1>. QED  BY <1>1, <1>2, <1>3, Fields DEF SubsKept

LEMMA TickStep ==
  ASSUME TypeOK, Tick
  PROVE  /\ Ids' = Ids /\ UNCHANGED <<auth, view, current, refs, ui>>
         /\ \A i \in Ids : /\ SubsKept(i) /\ clients'[i].at = clients[i].at
                           /\ clients'[i].timer = Second(clients[i].timer)
                           /\ clients[i].timer # 0
         /\ down' = IF IsUp(current) \/ current = 0 \/ down > Debounce THEN down ELSE down + 1
  <1>1. /\ Ids' = Ids /\ UNCHANGED <<auth, view, current, refs, ui>>
        /\ \A i \in Ids : clients[i].timer # 0
        /\ down' = IF IsUp(current) \/ current = 0 \/ down > Debounce THEN down ELSE down + 1
    BY DEF Tick, Ids
  <1>2. \A i \in Ids : clients'[i] = [clients[i] EXCEPT !.timer = Second(@), !.left = Second(@)]
    BY DEF Tick
  <1>3. \A i \in Ids : clients[i] \in Client
    BY IdsType
  <1>4. \A i \in Ids : /\ SubsKept(i) /\ clients'[i].at = clients[i].at
                       /\ clients'[i].timer = Second(clients[i].timer)
    BY <1>2, <1>3, SecondFields DEF SubsKept
  <1>. QED  BY <1>1, <1>4

\* The views' change: the client's names follow the counts.
LEMMA ShowStep ==
  ASSUME TypeOK, NEW v \in Views, NEW S \in SUBSET Scanners, Show(v, S), current # 0
  PROVE  LET c == clients[current]
             d == clients'[current]
             first == {s \in S \ view[v] : refs'[s] = 1}
             last  == {s \in view[v] \ S : refs[s] > 0 /\ refs'[s] = 0}
         IN  /\ current \in Ids /\ Others(current)
             /\ d.at = c.at /\ d.timer = c.timer /\ d.subs = (c.subs \cup first) \ last
             /\ c.at = "up" => d.asked = (c.asked \cup first) \ last
  <1>. DEFINE first == {s \in S \ view[v] : refs'[s] = 1}
              last  == {s \in view[v] \ S : refs[s] > 0 /\ refs'[s] = 0}
  <1>1. current \in Ids /\ view[v] \in SUBSET Scanners
    BY DEF TypeOK
  <1>2. clients[current] \in Client
    BY <1>1, IdsType
  <1>3. first \in SUBSET Scanners /\ last \in SUBSET Scanners
    BY <1>1
  <1>4. Set(current, Unsubscribe(Subscribe(clients[current], first), last))
    BY DEF Show
  <1>. HIDE DEF first, last
  <1>5. /\ Others(current)
        /\ clients'[current] = Unsubscribe(Subscribe(clients[current], first), last)
    BY <1>1, <1>4, SetOne DEF Others
  <1>6. LET c == clients[current]
            d == clients'[current]
        IN  /\ d.at = c.at /\ d.timer = c.timer /\ d.subs = (c.subs \cup first) \ last
            /\ c.at = "up" => d.asked = (c.asked \cup first) \ last
    BY <1>2, <1>3, <1>5, SubFields
  <1>. QED  BY <1>1, <1>5, <1>6 DEF first, last

LEMMA LogoutStep ==
  ASSUME TypeOK, Session, Logout
  PROVE  /\ current \in Ids /\ Others(current)
         /\ clients'[current].timer = Off
         /\ auth' = FALSE /\ current' = 0 /\ ui'.connected = FALSE /\ down' = 0 /\ view' = view
         /\ refs' = [s \in Scanners |-> 0]
         /\ clients'[current].at \in {"asking", "failed", "over"}
  <1>1. current \in Ids
    BY DEF Logout, Session, TypeOK
  <1>2. clients[current] \in Client
    BY <1>1, IdsType
  <1>3. Others(current) /\ clients'[current] = Disconnected(clients[current])
    BY <1>1, SetOne DEF Logout, Others
  <1>4. clients'[current].timer = Off /\ clients'[current].at \in {"asking", "failed", "over"}
    BY <1>2, <1>3, Fields
  <1>. QED  BY <1>1, <1>3, <1>4 DEF Logout

-----------------------------------------------------------------------------
(* The parts of the invariant                                              *)

LEMMA SessionStep ==
  ASSUME TypeOK, Session, [Next]_vars
  PROVE  Session'
  <1>0. current \in Ids \cup {0} /\ \A i \in Ids : i # 0
    BY IdsType DEF TypeOK
  <1>. USE DEF Session
  <1>1. CASE Login
    <2>1. current' # 0 /\ clients'[current'] = Fresh /\ auth' = TRUE
      BY <1>1, LoginAdds DEF Login
    <2>. QED  BY <2>1 DEF Fresh
  <1>2. CASE Logout
    BY <1>2 DEF Logout
  <1>3. CASE BeforeUnload
    BY <1>0, <1>3, UnloadStep
  <1>4. CASE Visible
    BY <1>0, <1>4, VisibleStep
  <1>5. CASE Tick
    BY <1>0, <1>5, TickStep
  <1>6. ASSUME NEW i \in Ids, Credentials(i) PROVE Session'
    BY <1>0, <1>6, AskStep DEF Others
  <1>7. ASSUME NEW i \in Ids, Connack(i) PROVE Session'
    BY <1>0, <1>7, ConnackStep DEF Others
  <1>8. ASSUME NEW i \in Ids, Close(i) PROVE Session'
    BY <1>0, <1>8, CloseStep DEF Others
  <1>9. ASSUME NEW i \in Ids, Retry(i) PROVE Session'
    BY <1>0, <1>9, RetryStep DEF Others
  <1>10. ASSUME NEW i \in Ids, Expire(i) PROVE Session'
    BY <1>0, <1>10, ExpireStep DEF Others
  <1>11. ASSUME NEW v \in Views, NEW S \in SUBSET Scanners, Show(v, S) PROVE Session'
    <2>1. UNCHANGED <<auth, current>>
      BY <1>11 DEF Show
    <2>. QED  BY <1>0, <1>11, <2>1, ShowStep
  <1>12. CASE UNCHANGED vars
    BY <1>12 DEF vars
  <1>. QED  BY <1>1, <1>2, <1>3, <1>4, <1>5, <1>6, <1>7, <1>8, <1>9, <1>10, <1>11, <1>12, NextCases

LEMMA CountsStep ==
  ASSUME TypeOK, Session, Counts, [Next]_vars
  PROVE  Counts'
  <1>1. CASE Login
    <2>1. ASSUME NEW s \in Scanners
          PROVE  refs'[s] = 0 /\ Cardinality(Viewers(s))' = 0
      <3>1. Viewers(s) = {} /\ Viewers(s)' = {}
        BY <1>1 DEF Login, Viewers
      <3>2. Cardinality(Viewers(s)) = 0 /\ Cardinality(Viewers(s))' = 0
        BY <3>1, FS_EmptySet
      <3>3. refs[s] \in Nat /\ refs[s] <= 0 /\ refs' = refs
        BY <1>1, <3>2 DEF Counts, TypeOK, Login
      <3>. QED  BY <3>2, <3>3
    <2>. QED  BY <2>1 DEF Counts
  <1>2. CASE Logout
    <2>1. ASSUME NEW s \in Scanners
          PROVE  Viewers(s)' = Viewers(s) /\ refs'[s] = 0 /\ Cardinality(Viewers(s)) >= 0
      <3>1. view' = view /\ refs' = [x \in Scanners |-> 0]
        BY <1>2, LogoutStep
      <3>2. Cardinality(Viewers(s)) >= 0
        BY ViewersCount
      <3>. QED  BY <3>1, <3>2 DEF Viewers
    <2>2. current' = 0
      BY <1>2 DEF Logout
    <2>. QED  BY <2>1, <2>2 DEF Counts
  <1>3. CASE UNCHANGED <<view, refs, current>>
    BY <1>3 DEF Counts, Viewers
  <1>4. ASSUME NEW v \in Views, NEW S \in SUBSET Scanners, Show(v, S) PROVE Counts'
    <2>. DEFINE n(s) == Cardinality(Viewers(s))
    <2>1. current' = current /\ refs' = Counted(view[v], S)
      BY <1>4 DEF Show
    <2>2. ASSUME NEW s \in Scanners
          PROVE  refs'[s] <= n(s)' /\ (current # 0 => refs'[s] = n(s)')
      <3>1. n(s)' = IF s \in S \ view[v] THEN n(s) + 1
                    ELSE IF s \in view[v] \ S THEN n(s) - 1 ELSE n(s)
        BY <1>4, ViewersChange DEF Show
      <3>2. refs'[s] = IF s \in S \ view[v] THEN refs[s] + 1
                       ELSE IF s \in view[v] \ S THEN (IF refs[s] = 0 THEN 0 ELSE refs[s] - 1)
                       ELSE refs[s]
        BY <2>1 DEF Counted, Dropped
      <3>3. refs[s] \in Nat /\ n(s) \in Nat
        BY ViewersCount DEF TypeOK
      <3>4. refs[s] <= n(s) /\ (current # 0 => refs[s] = n(s))
        BY DEF Counts
      <3>5. s \in view[v] => n(s) # 0
        BY ViewersCount DEF Viewers
      <3>. HIDE DEF n
      <3>. QED  BY <3>1, <3>2, <3>3, <3>4, <3>5
    <2>. QED  BY <2>1, <2>2 DEF Counts
  <1>5. \/ Login \/ Logout \/ UNCHANGED <<view, refs, current>>
        \/ \E v \in Views, S \in SUBSET Scanners : Show(v, S)
    BY NextCases, AskStep, ConnackStep, CloseStep, RetryStep, ExpireStep,
       UnloadStep, VisibleStep, TickStep DEF vars
  <1>. QED  BY <1>1, <1>2, <1>3, <1>4, <1>5

LEMMA SubscribedStep ==
  ASSUME TypeOK, Session, Counts, Subscribed, [Next]_vars
  PROVE  Subscribed'
  <1>0. current \in Ids \cup {0} /\ \A i \in Ids : i # 0
    BY IdsType DEF TypeOK
  <1>a. ASSUME view' = view, current' = current, current # 0 => SubsKept(current),
               current # 0 /\ clients'[current].at = "up" => clients[current].at = "up"
        PROVE  Subscribed'
    BY <1>a DEF Subscribed, SubsKept, Shown
  <1>1. CASE Login
    <2>1. clients'[current'] = Fresh
      BY <1>1, LoginAdds
    <2>2. Shown' = {}
      BY <1>1 DEF Login, Shown
    <2>. QED  BY <2>1, <2>2 DEF Subscribed, Fresh
  <1>2. CASE Logout
    BY <1>2 DEF Logout, Subscribed
  <1>3. CASE BeforeUnload
    BY <1>0, <1>3, <1>a, UnloadStep DEF SubsKept
  <1>4. CASE Visible
    BY <1>0, <1>4, <1>a, VisibleStep DEF SubsKept
  <1>5. CASE Tick
    BY <1>0, <1>5, <1>a, TickStep
  <1>6. ASSUME NEW i \in Ids, Credentials(i) PROVE Subscribed'
    BY <1>0, <1>6, <1>a, AskStep DEF Others, SubsKept
  <1>7. ASSUME NEW i \in Ids, Connack(i) PROVE Subscribed'
    <2>1. Shown' = Shown /\ current' = current
      <3>1. view' = view /\ current' = current
        BY <1>7, ConnackStep
      <3>. QED  BY <3>1 DEF Shown
    <2>2. current # 0 => clients'[current].subs = clients[current].subs
      BY <1>0, <1>7, ConnackStep DEF Others
    <2>3. current # 0 /\ clients'[current].at = "up" =>
            \/ clients'[current] = clients[current]
            \/ clients'[current].asked = clients[current].asked \cup clients[current].subs
      BY <1>0, <1>7, ConnackStep DEF Others
    <2>. QED  BY <2>1, <2>2, <2>3 DEF Subscribed
  <1>8. ASSUME NEW i \in Ids, Close(i) PROVE Subscribed'
    BY <1>0, <1>8, <1>a, CloseStep DEF Others, SubsKept
  <1>9. ASSUME NEW i \in Ids, Retry(i) PROVE Subscribed'
    BY <1>0, <1>9, <1>a, RetryStep DEF Others, SubsKept
  <1>10. ASSUME NEW i \in Ids, Expire(i) PROVE Subscribed'
    BY <1>0, <1>10, <1>a, ExpireStep DEF Others, SubsKept
  <1>11. ASSUME NEW v \in Views, NEW S \in SUBSET Scanners, Show(v, S), current # 0
         PROVE  Subscribed'
    <2>. DEFINE c == clients[current]
                d == clients'[current]
                first == {s \in S \ view[v] : refs'[s] = 1}
                last  == {s \in view[v] \ S : refs[s] > 0 /\ refs'[s] = 0}
    <2>1. /\ d.at = c.at /\ d.subs = (c.subs \cup first) \ last
          /\ c.at = "up" => d.asked = (c.asked \cup first) \ last
      BY <1>11, ShowStep
    <2>2. current' = current /\ view' = [view EXCEPT ![v] = S]
      BY <1>11 DEF Show
    <2>3. \A s \in Scanners : /\ s \in Shown <=> refs[s] # 0
                              /\ s \in Shown' <=> refs'[s] # 0
      <3>1. Counts' /\ TypeOK'
        BY CountsStep, TypeStep
      <3>2. ASSUME NEW s \in Scanners PROVE s \in Shown <=> refs[s] # 0
        <4>1. s \in Shown <=> Viewers(s) # {}
          BY DEF Shown, Viewers
        <4>. QED  BY <1>11, <4>1, ViewersCount DEF Counts
      <3>3. ASSUME NEW s \in Scanners PROVE s \in Shown' <=> refs'[s] # 0
        <4>1. s \in Shown' <=> Viewers(s)' # {}
          BY DEF Shown, Viewers
        <4>2. Viewers(s)' \in SUBSET Views
          BY DEF Viewers
        <4>3. IsFiniteSet(Viewers(s)')
          BY <4>2, FS_Subset
        <4>4. Cardinality(Viewers(s)') = 0 <=> Viewers(s)' = {}
          BY <4>3, FS_EmptySet
        <4>. QED  BY <1>11, <2>2, <3>1, <4>1, <4>4 DEF Counts
      <3>. QED  BY <3>2, <3>3
    <2>4. Shown \subseteq Scanners /\ Shown' \subseteq Scanners
      BY <2>2 DEF Shown, TypeOK
    <2>5. \A s \in Scanners : /\ refs[s] \in Nat
                              /\ refs'[s] = IF s \in S \ view[v] THEN refs[s] + 1
                                   ELSE IF s \in view[v] \ S THEN (IF refs[s] = 0 THEN 0 ELSE refs[s] - 1)
                                   ELSE refs[s]
      BY <1>11 DEF Show, Counted, Dropped, TypeOK
    <2>6. view[v] \subseteq Scanners
      BY DEF TypeOK
    <2>7. Shown' = (Shown \cup first) \ last
      <3>1. ASSUME NEW s \in Scanners PROVE s \in Shown' <=> s \in (Shown \cup first) \ last
        BY <2>3, <2>5
      <3>. QED  BY <2>4, <2>6, <3>1
    <2>8. c.subs = Shown /\ (c.at = "up" => Shown \subseteq c.asked)
      BY <1>11 DEF Subscribed
    <2>. HIDE DEF first, last
    <2>. QED  BY <2>1, <2>2, <2>7, <2>8 DEF Subscribed
  <1>12. ASSUME NEW v \in Views, NEW S \in SUBSET Scanners, Show(v, S), current = 0
         PROVE  Subscribed'
    BY <1>12 DEF Show, Subscribed
  <1>13. CASE UNCHANGED vars
    BY <1>13, <1>a DEF vars, SubsKept
  <1>. QED  BY <1>1, <1>2, <1>3, <1>4, <1>5, <1>6, <1>7, <1>8, <1>9, <1>10, <1>11, <1>12, <1>13, NextCases

LEMMA TimersStep ==
  ASSUME TypeOK, Session, Timers, [Next]_vars
  PROVE  Timers'
  <1>. USE DEF Timers
  <1>1. CASE Login
    <2>1. Fresh.timer = Off
      BY DEF Fresh
    <2>. QED  BY <1>1, <2>1, LoginAdds
  <1>2. CASE Logout
    BY <1>2, LogoutStep DEF Others
  <1>3. CASE BeforeUnload
    BY <1>3, UnloadStep
  <1>4. CASE Visible
    BY <1>4, VisibleStep
  <1>5. CASE Tick
    BY <1>5, TickStep DEF Second
  <1>6. ASSUME NEW i \in Ids, Credentials(i) PROVE Timers'
    BY <1>6, AskStep DEF Others
  <1>7. ASSUME NEW i \in Ids, Connack(i) PROVE Timers'
    BY <1>7, ConnackStep DEF Others
  <1>8. ASSUME NEW i \in Ids, Close(i) PROVE Timers'
    BY <1>8, CloseStep DEF Others
  <1>9. ASSUME NEW i \in Ids, Retry(i) PROVE Timers'
    BY <1>9, RetryStep DEF Others
  <1>10. ASSUME NEW i \in Ids, Expire(i) PROVE Timers'
    BY <1>10, ExpireStep DEF Others
  <1>11. ASSUME NEW v \in Views, NEW S \in SUBSET Scanners, Show(v, S) PROVE Timers'
    <2>1. CASE current = 0
      BY <1>11, <2>1 DEF Show, Ids
    <2>2. CASE current # 0
      BY <1>11, <2>2, ShowStep DEF Others
    <2>. QED  BY <2>1, <2>2
  <1>12. CASE UNCHANGED vars
    BY <1>12 DEF vars, Ids
  <1>. QED  BY <1>1, <1>2, <1>3, <1>4, <1>5, <1>6, <1>7, <1>8, <1>9, <1>10, <1>11, <1>12, NextCases

\* What a timer has left is a number of seconds.
LEMMA TimerType ==
  ASSUME TypeOK, NEW i \in Ids, clients[i].timer # Off
  PROVE  clients[i].timer \in 0..Debounce
  BY IdsType DEF Client, TimerRange

LEMMA CountdownStep ==
  ASSUME TypeOK, Session, Timers, Countdown, [Next]_vars
  PROVE  Countdown'
  <1>0. current \in Ids \cup {0} /\ \A i \in Ids : i # 0
    BY IdsType DEF TypeOK
  <1>a. down \in Nat /\ Debounce \in Nat
    BY Delays DEF TypeOK
  <1>b. ASSUME current' = current, down' = down,
               current # 0 => clients'[current].timer \in {clients[current].timer, Debounce, Off}
        PROVE  Countdown'
    BY <1>a, <1>b DEF Countdown
  <1>1. CASE Login
    BY <1>1, LoginAdds DEF Countdown, Fresh
  <1>2. CASE Logout
    BY <1>2, LogoutStep DEF Countdown
  <1>3. CASE BeforeUnload
    BY <1>0, <1>3, <1>b, UnloadStep
  <1>4. CASE Visible
    BY <1>0, <1>4, <1>b, VisibleStep
  <1>5. CASE Tick
    <2>. DEFINE t == clients[current].timer
    <2>1. CASE current # 0 /\ t # Off
      <3>1. current \in Ids
        BY <1>0, <2>1
      <3>2. t \in Nat /\ t # 0 /\ clients[current].at # "up"
        BY <1>5, <2>1, <3>1, TimerType, TickStep, Delays DEF Timers
      <3>3. down' = (IF down > Debounce THEN down ELSE down + 1) /\ current' = current
        BY <1>5, <2>1, <3>2, TickStep DEF IsUp
      <3>4. clients'[current].timer = t - 1
        BY <1>5, <2>1, <3>1, TickStep DEF Second
      <3>5. down + t >= Debounce
        BY <2>1 DEF Countdown
      <3>. HIDE DEF t
      <3>. QED  BY <1>a, <3>2, <3>3, <3>4, <3>5 DEF Countdown
    <2>2. CASE current = 0 \/ t = Off
      BY <1>0, <1>5, <2>2, TickStep DEF Countdown, Second
    <2>. QED  BY <2>1, <2>2
  <1>6. ASSUME NEW i \in Ids, Credentials(i) PROVE Countdown'
    BY <1>0, <1>6, <1>b, AskStep DEF Others
  <1>7. ASSUME NEW i \in Ids, Connack(i) PROVE Countdown'
    <2>1. CASE i = current
      BY <1>7, <2>1, ConnackStep DEF Countdown
    <2>2. CASE i # current
      <3>1. down' = down
        BY <1>7, <2>2 DEF Connack
      <3>. QED  BY <1>0, <1>7, <1>b, <2>2, <3>1, ConnackStep DEF Others
    <2>. QED  BY <2>1, <2>2
  <1>8. ASSUME NEW i \in Ids, Close(i) PROVE Countdown'
    BY <1>0, <1>8, <1>b, CloseStep DEF Others
  <1>9. ASSUME NEW i \in Ids, Retry(i) PROVE Countdown'
    BY <1>0, <1>9, <1>b, RetryStep DEF Others
  <1>10. ASSUME NEW i \in Ids, Expire(i) PROVE Countdown'
    BY <1>0, <1>10, <1>b, ExpireStep DEF Others
  <1>11. ASSUME NEW v \in Views, NEW S \in SUBSET Scanners, Show(v, S) PROVE Countdown'
    <2>1. UNCHANGED <<current, down>>
      BY <1>11 DEF Show
    <2>. QED  BY <1>11, <1>b, <2>1, ShowStep
  <1>12. CASE UNCHANGED vars
    BY <1>12 DEF vars, Countdown
  <1>. QED  BY <1>1, <1>2, <1>3, <1>4, <1>5, <1>6, <1>7, <1>8, <1>9, <1>10, <1>11, <1>12, NextCases

\* A client that a logout left behind and that got a connection stays.
LEMMA AloneBack ==
  ASSUME TypeOK, Session, [Next]_vars, Alone'
  PROVE  Alone
  <1>. USE DEF Alone
  <1>1. CASE Login
    BY <1>1, LoginAdds
  <1>2. CASE Logout
    <2>1. /\ Ids' = Ids /\ current' = 0 /\ 0 \notin Ids
          /\ \A i \in Ids \ {current} : clients'[i] = clients[i]
      BY <1>2, LogoutStep, IdsType DEF Others
    <2>. QED  BY <2>1
  <1>3. CASE BeforeUnload
    BY <1>3, UnloadStep
  <1>4. CASE Visible
    BY <1>4, VisibleStep
  <1>5. CASE Tick
    BY <1>5, TickStep
  <1>6. ASSUME NEW i \in Ids, Credentials(i) PROVE Alone
    BY <1>6, AskStep DEF Others
  <1>7. ASSUME NEW i \in Ids, Connack(i) PROVE Alone
    BY <1>7, ConnackStep DEF Others
  <1>8. ASSUME NEW i \in Ids, Close(i) PROVE Alone
    BY <1>8, CloseStep DEF Others
  <1>9. ASSUME NEW i \in Ids, Retry(i) PROVE Alone
    BY <1>9, RetryStep DEF Others
  <1>10. ASSUME NEW i \in Ids, Expire(i) PROVE Alone
    BY <1>10, ExpireStep DEF Others
  <1>11. ASSUME NEW v \in Views, NEW S \in SUBSET Scanners, Show(v, S) PROVE Alone
    <2>1. current' = current
      BY <1>11 DEF Show
    <2>2. CASE current = 0
      BY <1>11, <2>1, <2>2 DEF Show, Ids
    <2>3. CASE current # 0
      BY <1>11, <2>1, <2>3, ShowStep DEF Others
    <2>. QED  BY <2>2, <2>3
  <1>12. CASE UNCHANGED vars
    BY <1>12 DEF vars, Ids
  <1>. QED  BY <1>1, <1>2, <1>3, <1>4, <1>5, <1>6, <1>7, <1>8, <1>9, <1>10, <1>11, <1>12, NextCases

LEMMA IndicatorStep ==
  ASSUME TypeOK, Session, Timers, IndicatorFollows, [Next]_vars
  PROVE  IndicatorFollows'
  <1>. SUFFICES ASSUME Alone'
                PROVE  /\ IsUp(current)' => ui'.connected
                       /\ ui'.connected =>
                            IsUp(current)' \/ (current' # 0 /\ clients'[current'].timer # Off)
    BY DEF IndicatorFollows
  <1>. DEFINE Shows == /\ IsUp(current) => ui.connected
                       /\ ui.connected => IsUp(current) \/ (current # 0 /\ clients[current].timer # Off)
  <1>a. Alone /\ Shows
    BY AloneBack DEF IndicatorFollows
  <1>b. /\ current \in Ids \cup {0} /\ 0 \notin Ids
        /\ \A i \in Ids : clients[i].timer # Off => clients[i].timer \in 0..Debounce
        /\ Debounce # Off
    BY IdsType, TimerType, Delays DEF TypeOK
  <1>c. \A i \in Ids : i # current => /\ clients[i].at \in {"asking", "failed", "over"}
                                      /\ clients[i].timer = Off
    BY <1>a DEF Alone, Timers
  <1>d. ASSUME current' = current, Ids' = Ids, ui' = ui, current # 0 => current \in Ids,
               current # 0 /\ clients'[current].at # clients[current].at =>
                 clients[current].at # "up" /\ clients'[current].at # "up",
               current # 0 /\ clients[current].timer # Off => clients'[current].timer # Off
        PROVE  Shows'
    BY <1>a, <1>b, <1>d DEF IsUp
  <1>1. CASE Login
    <2>1. ~ui.connected
      BY <1>1, <1>a, <1>b DEF Login, Session, IsUp
    <2>. QED  BY <1>1, <2>1, LoginAdds DEF Login, IsUp, Fresh
  <1>2. CASE Logout
    BY <1>2, <1>b, LogoutStep DEF IsUp, Others
  <1>3. CASE BeforeUnload
    <2>1. CASE current # 0 /\ clients[current].at = "up"
      BY <1>3, <1>a, <1>b, <2>1, UnloadStep DEF IsUp
    <2>2. CASE current = 0 \/ clients[current].at # "up"
      BY <1>3, <1>b, <1>d, <2>2, UnloadStep
    <2>. QED  BY <2>1, <2>2
  <1>4. CASE Visible
    BY <1>4, <1>b, <1>d, VisibleStep
  <1>5. CASE Tick
    <2>1. current # 0 /\ clients[current].timer # Off => clients'[current].timer # Off
      BY <1>5, <1>b, TickStep DEF Second
    <2>. QED  BY <1>5, <1>b, <1>d, <2>1, TickStep
  <1>6. ASSUME NEW i \in Ids, Credentials(i) PROVE Shows'
    BY <1>6, <1>b, <1>d, AskStep DEF Others
  <1>7. ASSUME NEW i \in Ids, Connack(i) PROVE Shows'
    <2>1. i = current
      BY <1>7, <1>c, ConnackStep
    <2>. QED  BY <1>7, <2>1, ConnackStep DEF Others, IsUp
  <1>8. ASSUME NEW i \in Ids, Close(i) PROVE Shows'
    <2>1. i = current /\ current # 0
      BY <1>8, <1>b, <1>c, CloseStep
    <2>2. /\ current' = current /\ clients'[current].at # "up"
          /\ clients'[current].timer # Off
      BY <1>8, <1>b, <2>1, CloseStep
    <2>. QED  BY <2>1, <2>2 DEF IsUp
  <1>9. ASSUME NEW i \in Ids, Retry(i) PROVE Shows'
    BY <1>9, <1>b, <1>d, RetryStep DEF Others
  <1>10. ASSUME NEW i \in Ids, Expire(i) PROVE Shows'
    <2>1. i = current /\ clients[i].at # "up"
      <3>1. clients[i].timer = 0
        BY <1>10 DEF Expire
      <3>2. clients[i].timer # Off
        BY <3>1
      <3>. QED  BY <1>c, <3>2 DEF Timers
    <2>. QED  BY <1>10, <2>1, ExpireStep DEF IsUp
  <1>11. ASSUME NEW v \in Views, NEW S \in SUBSET Scanners, Show(v, S) PROVE Shows'
    <2>1. UNCHANGED <<current, ui>>
      BY <1>11 DEF Show
    <2>2. CASE current = 0
      BY <1>11, <1>a, <1>b, <2>1, <2>2 DEF Show, IsUp, Ids
    <2>3. CASE current # 0
      BY <1>11, <1>b, <1>d, <2>1, <2>3, ShowStep DEF Others
    <2>. QED  BY <2>2, <2>3
  <1>12. CASE UNCHANGED vars
    BY <1>12, <1>a DEF vars, Ids, IsUp
  <1>. QED  BY <1>1, <1>2, <1>3, <1>4, <1>5, <1>6, <1>7, <1>8, <1>9, <1>10, <1>11, <1>12, NextCases

-----------------------------------------------------------------------------
(* The theorems                                                            *)

LEMMA InitIInv == Init => IInv
  <1> SUFFICES ASSUME Init PROVE IInv
    OBVIOUS
  <1>1. Ids = {} /\ current = 0 /\ auth = FALSE /\ ui.connected = FALSE
    BY DEF Init, Ids
  <1>2. Cardinality(Ids) = 0 /\ Cardinality(Views) \in Nat /\ 1..0 = {}
    BY <1>1, FS_EmptySet, FS_CardinalityType
  <1>3. TypeOK
    <2>1. Ids = 1..Cardinality(Ids) /\ Cardinality(Ids) \in 0..MaxLogins
      BY <1>1, <1>2
    <2>2. refs \in [Scanners -> 0..Cardinality(Views)]
      BY <1>2 DEF Init
    <2>3. view \in [Views -> SUBSET Scanners] /\ ui \in [connected : BOOLEAN, ticking : BOOLEAN]
      BY DEF Init
    <2>4. down \in 0..Debounce + 1
      BY Delays DEF Init
    <2>5. auth \in BOOLEAN
      BY <1>1, Zenon
    <2>. QED  BY <1>1, <2>1, <2>2, <2>3, <2>4, <2>5 DEF TypeOK
  <1>4. Counts
    <2>1. \A s \in Scanners : Viewers(s) = {} /\ refs[s] = 0
      BY DEF Init, Viewers
    <2>2. \A s \in Scanners : Cardinality(Viewers(s)) = 0
      BY <2>1, FS_EmptySet
    <2>. QED  BY <1>1, <2>1, <2>2 DEF Counts
  <1>5. Session /\ Subscribed /\ Timers /\ Countdown /\ IndicatorFollows
    BY <1>1 DEF Session, Subscribed, Timers, Countdown, IndicatorFollows, IsUp
  <1>. QED  BY <1>3, <1>4, <1>5 DEF IInv

LEMMA StepIInv == IInv /\ [Next]_vars => IInv'
  <1> SUFFICES ASSUME IInv, [Next]_vars PROVE IInv'
    OBVIOUS
  <1> USE DEF IInv
  <1>1. TypeOK' /\ Session' /\ Counts'
    BY TypeStep, SessionStep, CountsStep
  <1>2. Subscribed' /\ Timers'
    BY SubscribedStep, TimersStep
  <1>3. Countdown' /\ IndicatorFollows'
    BY CountdownStep, IndicatorStep
  <1>. QED  BY <1>1, <1>2, <1>3

\* Whatever logins, logouts, outages and changes of views there are, the
\* invariant holds.
THEOREM Invariance == Spec => []IInv
  <1>. QED  BY InitIInv, StepIInv, PTL DEF Spec

\* Counting by views and forgetting the counts at a logout loses no name: while
\* there is a client, its subscriptions are those of the views.
THEOREM ViewsAreCounted == Spec => []ViewsCounted
  <1>1. IInv => ViewsCounted
    BY DEF IInv, ViewsCounted, Subscribed, Shown
  <1>. QED  BY Invariance, <1>1, PTL

\* Nothing that is shown waits in vain for a subscription at the broker.
THEOREM TopicsAreCovered == Spec => []TopicsCover
  <1>1. IInv => TopicsCover
    <2> SUFFICES ASSUME IInv, IsUp(current), NEW v \in Views
                 PROVE  view[v] \subseteq clients[current].asked
      BY DEF TopicsCover
    <2>1. current # 0
      BY IdsType DEF IInv, IsUp
    <2>2. Shown \subseteq clients[current].asked
      BY <2>1 DEF IInv, Subscribed, IsUp
    <2>. QED  BY <2>2 DEF Shown
  <1>. QED  BY Invariance, <1>1, PTL

\* The indicator goes with the connection, and over an outage with the timer.
THEOREM IndicatorDoesFollow == Spec => []IndicatorFollows
  <1>1. IInv => IndicatorFollows
    BY DEF IInv
  <1>. QED  BY Invariance, <1>1, PTL

\* The indicator of a user who stays goes out for no outage shorter than the
\* debounce, whatever the delays of the library are.
THEOREM NeverFlaps == Spec => NoFlapping
  <1>. DEFINE Calm == Alone /\ auth' /\ ui.connected /\ ~ui'.connected => down >= Debounce
  <1>1. IInv /\ [Next]_vars => [Calm]_vars
    <2> SUFFICES ASSUME IInv, Next, Alone, auth', ui.connected, ~ui'.connected
                 PROVE  down >= Debounce
      OBVIOUS
    <2>1. PICK i \in Ids : Expire(i)
      BY AskStep, ConnackStep, CloseStep, RetryStep, UnloadStep, VisibleStep, TickStep, LogoutStep,
         NextCases DEF IInv, Login, Show, vars
    <2>2. clients[i].timer = 0
      BY <2>1, ExpireStep DEF IInv
    <2>3. clients[i].timer # Off
      BY <2>2
    <2>4. i = current /\ current # 0
      BY <2>3, IdsType DEF IInv, Alone, Timers
    <2>5. down + 0 >= Debounce /\ down \in Nat /\ Debounce \in Nat
      BY <2>2, <2>3, <2>4, Delays DEF IInv, Countdown, TypeOK
    <2>. QED  BY <2>5
  <1>. QED  BY Invariance, <1>1, PTL DEF Spec, NoFlapping
=============================================================================
