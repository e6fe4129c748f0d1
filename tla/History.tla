------------------------------ MODULE History ------------------------------
(***************************************************************************)
(* What the read API makes of the rows that Rollup keeps (api/cache.py,    *)
(* ScanViewSet.at_time of api/views.py): the history of a window, the      *)
(* markers of the scrubber, and the row nearest to a time.  They read      *)
(* while the rollup job is at work.                                        *)
(***************************************************************************)
EXTENDS Rollup

CONSTANTS
  AtBucket,   \* width of the times that share an at_time answer
  PerScan, MaxPoints, Grains  \* bounds of the timeline, and its grains, finest first

ASSUME HistoryAssumption ==
  /\ {AtBucket, PerScan, MaxPoints} \subseteq Nat \ {0}
  /\ Grains \in Seq(Nat \ {0}) /\ Grains # <<>>

AllBands == "all"   \* no band was asked for

Named(band) == {r \in rows : band \in {AllBands, r.band}}
Within(S, from, to) == {r \in S : r.start \in from..to}
Raw(S) == {r \in S : r.res = 1}

\* Summaries of the finest tier there is one of
FinestOf(S) == LET tiers == {r.res : r \in S \ Raw(S)}
               IN  {r \in S : tiers # {} /\ r.res = Min(tiers)}

\* What ORDER BY start LIMIT n may give: rows of one time come in any order
Firsts(S, n) ==
  {q \in kSubset(Min({n, Cardinality(S)}), S) : \A r \in q, s \in S \ q : r.start <= s.start}

-----------------------------------------------------------------------------
\* Mutant: the summaries of the whole window
Uncut(S, scans) == S

\* Summaries are only of the time before the first raw scan.
Backfill(S, scans) == {r \in S : \A s \in scans : r.start < s.start}

\* The summaries and, behind them, the scans of an answer
ComputeHistory(band, from, to, limit) ==
  LET window == Within(Named(band), from, to)
      Older(scans) == Firsts(FinestOf(Backfill(window, scans)), limit - Cardinality(scans))
  IN  UNION {{[summaries |-> q, scans |-> p] : q \in Older(p)} : p \in Firsts(Raw(window), limit)}

-----------------------------------------------------------------------------
\* None: a marker for every row
Grain(from, to) ==
  LET wide == {i \in DOMAIN Grains : to - from <= MaxPoints * Grains[i]}
  IN  IF to - from <= PerScan THEN 1
      ELSE IF wide = {} THEN Grains[Len(Grains)] ELSE Grains[Min(wide)]

ComputeTimeline(band, from, to) ==
  {[time |-> Align(r.start, Grain(from, to)), band |-> r.band, raw |-> r.res = 1] :
     r \in Within(Named(band), from, to)}

-----------------------------------------------------------------------------
Distance(t, u) == IF t < u THEN u - t ELSE t - u

\* The nearest row before and after, the earlier of two as near
Nearest(S, t) ==
  LET near == {r \in S : \A s \in S : Distance(r.start, t) <= Distance(s.start, t)}
  IN  {r \in near : \A s \in near : r.start <= s.start}

\* Mutant: a summary is always the better answer
SummaryFirst(band, t) ==
  LET scans == Nearest(Raw(Named(band)), t)  summaries == Nearest(FinestOf(Named(band)), t)
  IN  IF summaries # {} THEN summaries ELSE scans

\* The nearer of the raw scans and the finest summaries; raw if as near
AtTime(band, t) ==
  LET scans == Nearest(Raw(Named(band)), t)  summaries == Nearest(FinestOf(Named(band)), t)
      nearer == \A r \in scans, s \in summaries : Distance(r.start, t) <= Distance(s.start, t)
  IN  IF scans # {} /\ nearer THEN scans ELSE summaries

-----------------------------------------------------------------------------
(* Properties                                                              *)

BandsAsked == Bands \cup {AllBands}
Between == run.pc # "idle" \/ aborts > 0

\* A history is no longer than its limit, its summaries are older than its
\* scans, and it shows no scan twice, once raw and once in a summary, whatever
\* was rolled up, arrived late, or lost its band; unless it is read between a
\* rollup and its purge, or the job died there.
HistoryOnce ==
  \A band \in BandsAsked, from \in 0..now, limit \in 1..(MaxScans + 1) :
    \A h \in ComputeHistory(band, from, now, limit) :
      /\ Cardinality(h.summaries) + Cardinality(h.scans) <= limit
      /\ \A r \in h.summaries, s \in h.scans : r.start < s.start
      /\ ~Between => \A r, s \in h.summaries \cup h.scans :
                       r # s => r.members \cap s.members = {}

\* "Bucket the target time so scrubber requests within the same ~10 s window
\* share a cache entry": the answer computed for one time is, for any other of
\* its bucket, off by less than two buckets more than the nearest row is; so a
\* raw marker of the scrubber leads to a row of its grain or next to it,
\* whatever of the rows was rolled up or purged by then.
AtTimeNear ==
  \A band \in BandsAsked, t, u \in 0..MaxTime : Align(t, AtBucket) = Align(u, AtBucket) =>
    /\ \A r \in AtTime(band, t), s \in Raw(Named(band)) \cup FinestOf(Named(band)) :
         Distance(r.start, u) <= Distance(s.start, u) + 2 * (AtBucket - 1)
    /\ \A from \in 0..now : \A m \in ComputeTimeline(band, from, now) : m.raw /\ m.time = u =>
         \E r \in AtTime(band, t) :
           Distance(r.start, u) < Grain(from, now) + 2 * (AtBucket - 1)
=============================================================================
