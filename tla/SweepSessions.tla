---------------------------- MODULE SweepSessions ----------------------------
(***************************************************************************)
(* What the sweep engine promises its users, without goroutines, locks or  *)
(* hardware: sweeping is a sequence of sessions, one open at a time; scans *)
(* come out of a session while it is open, and a session that has been     *)
(* closed hands out at most the one scan it was working on.                *)
(***************************************************************************)
EXTENDS Naturals

CONSTANTS MaxSessions, Outputs, None

VARIABLES session, opened, closed, leftover, output

vars == <<session, opened, closed, leftover, output>>

Sessions == 1..MaxSessions

Init ==
  /\ session = None
  /\ opened = 0
  /\ closed = {}
  /\ leftover = [s \in Sessions |-> 0]
  /\ output = None

Open ==
  /\ session = None
  /\ opened < MaxSessions
  /\ session' = opened + 1
  /\ opened' = opened + 1
  /\ UNCHANGED <<closed, leftover, output>>

Close ==
  /\ session # None
  /\ closed' = closed \cup {session}
  /\ session' = None
  /\ UNCHANGED <<opened, leftover, output>>

Emit ==
  /\ session # None
  /\ output' \in Outputs
  /\ UNCHANGED <<session, opened, closed, leftover>>

EmitLeftover(s) ==
  /\ s \in closed
  /\ leftover[s] = 0
  /\ leftover' = [leftover EXCEPT ![s] = 1]
  /\ output' \in Outputs
  /\ UNCHANGED <<session, opened, closed>>

Next == Open \/ Close \/ Emit \/ \E s \in Sessions : EmitLeftover(s)

Spec == Init /\ [][Next]_vars
=============================================================================
