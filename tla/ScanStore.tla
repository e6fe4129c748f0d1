------------------------------ MODULE ScanStore ------------------------------
(***************************************************************************)
(* The scanner's own history: the table of internal/db/store.go, the       *)
(* queries its page makes of it, and the clean-up that internal/runner     *)
(* starts with the process.  Store's mutex makes each operation one step.  *)
(* Time is the clock's seconds, as the table keeps them.  What a preview   *)
(* shows of its scan's samples is Decimation's.                            *)
(***************************************************************************)
EXTENDS Integers, FiniteSets, Decimation

CONSTANTS
  Bands,
  Minute,     \* seconds per preview
  Window,     \* seconds a query looks back
  Retention,  \* retentionHours, in seconds
  Period,     \* of runCleanupLoop's ticker
  MaxScans, MaxTime, Down

ASSUME ScanStoreAssumption ==
  /\ {Minute, Period} \subseteq Nat \ {0}
  /\ {Window, Retention, MaxScans, MaxTime} \subseteq Nat
  /\ Down \notin Nat

VARIABLES
  scans,  \* the table: [id, band, timestamp]
  ids,    \* the largest id there was (AUTOINCREMENT)
  since,  \* when the process was started, or Down while it does not run
  ticker, \* when runCleanupLoop's ticker fires next
  now

storeVars == <<scans, ids, since, ticker, now>>

NewId == ids + 1

StoreScan(b) ==
  /\ since # Down /\ ids < MaxScans
  /\ ids' = NewId
  /\ scans' = scans \cup {[id |-> ids', band |-> b, timestamp |-> now]}
  /\ UNCHANGED <<since, ticker, now>>

\* Mutant: only what this process stored is deleted
KeptOrInherited(r) == r.timestamp >= now - Retention \/ r.timestamp < since

\* DELETE FROM scans WHERE timestamp < cutoff
Kept(r) == r.timestamp >= now - Retention

\* runCleanupLoop: the first clean-up comes after a whole period
Cleanup ==
  /\ since # Down /\ ticker = now
  /\ scans' = {r \in scans : Kept(r)}
  /\ ticker' = now + Period
  /\ UNCHANGED <<ids, since, now>>

\* NewStore, initStore; the table is a file
Start ==
  /\ since = Down
  /\ since' = now /\ ticker' = now + Period
  /\ UNCHANGED <<scans, ids, now>>

Stop ==
  /\ since # Down
  /\ since' = Down
  /\ UNCHANGED <<scans, ids, ticker, now>>

Tick ==
  /\ now < MaxTime
  /\ since # Down => ticker # now
  /\ now' = now + 1
  /\ UNCHANGED <<scans, ids, since, ticker>>

StoreInit ==
  /\ scans = {} /\ ids = 0
  /\ since = Down /\ ticker = 0
  /\ now = 0

StoreNext == Cleanup \/ Start \/ Stop \/ Tick \/ \E b \in Bands : StoreScan(b)

StoreSpec == StoreInit /\ [][StoreNext]_storeVars

-----------------------------------------------------------------------------
(* Queries                                                                  *)

Within(b) == {r \in scans : r.band = b /\ r.timestamp >= now - Window}

GetTimeline(b) == {[id |-> r.id, timestamp |-> r.timestamp] : r \in Within(b)}

\* Mutant: the subquery forgets the time
FirstEver(b) == {r.id : r \in {s \in scans : s.band = b /\ \A t \in scans :
  t.band = b /\ t.timestamp \div Minute = s.timestamp \div Minute => s.id <= t.id}}

\* SELECT MIN(id) ... GROUP BY (timestamp / 60), with the conditions again
First(b) == {r.id : r \in {s \in Within(b) : \A t \in Within(b) :
               t.timestamp \div Minute = s.timestamp \div Minute => s.id <= t.id}}

GetDecimatedScans(b) == {r \in Within(b) : r.id \in First(b)}

-----------------------------------------------------------------------------
(* Properties                                                               *)

StoreTypeOK ==
  /\ scans \subseteq [id : 1..ids, band : Bands, timestamp : 0..now]
  /\ \A r, s \in scans : r.id = s.id => r = s
  /\ ids \in 0..MaxScans
  /\ since \in 0..now \cup {Down}
  /\ ticker \in 0..MaxTime + Period
  /\ now \in 0..MaxTime

\* While a user drags over the timeline, the page shows previews: each entry
\* has one of its own minute, and a minute has no two.
PreviewCovers ==
  \A b \in Bands : \A e \in GetTimeline(b) :
    Cardinality({p \in GetDecimatedScans(b) :
      p.timestamp \div Minute = e.timestamp \div Minute}) = 1

\* The points of a preview, whatever the length of its scan, stand for all
\* samples but at most the last, so that a peak is shown (store.go:347).
SamplesKept == \A b \in Bands : GetDecimatedScans(b) # {} => BinsKeepSamples

\* A process that has been up for a period keeps no scan for longer than the
\* retention and another period, whatever other processes left behind.
OldGone ==
  /\ StoreTypeOK
  /\ since # Down /\ now > since + Period =>
       \A r \in scans : r.timestamp >= now - Retention - Period
=============================================================================
