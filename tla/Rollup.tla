------------------------------- MODULE Rollup -------------------------------
(***************************************************************************)
(* Retention of one scanner's scans (Scanner.rollup in core/models.py):    *)
(* a periodic job rolls the rows of each tier that are older than the tier *)
(* keeps them up into summaries of the next tier, and then deletes them.   *)
(*                                                                         *)
(* Scans and summaries are both rows: a row covers the time bucket that    *)
(* begins at start and is res long (a scan's res is 1) and stands for the  *)
(* scans in members, whose peak and mean it holds; count is its            *)
(* scan_count.  The sweeps of a bucket are taken to be of one length: the  *)
(* few that uniform_length_subset leaves out are not told apart.           *)
(*                                                                         *)
(* Each query and each transaction is one step.  The job's list is read    *)
(* before the transaction that uses it, and rows are deleted in batches:   *)
(* scans may arrive, bands be deleted, and the job die between the steps.  *)
(***************************************************************************)
EXTENDS Naturals, Sequences, FiniteSets, FiniteSetsExt

CONSTANTS
  Bands,      \* bands of the scanner
  Tiers,      \* the retention policy: [res, keep], finest first
  BatchSize,  \* rows deleted at a time
  Ages,       \* how old a scan may be when it is stored
  MaxTime, MaxScans, MaxAborts, MaxDeletes, \* bounds
  None        \* no band

ASSUME TiersAssumption ==
  /\ Tiers \in Seq([res : Nat \ {0}, keep : Nat \ {0}]) /\ Tiers # <<>>
  /\ \A i \in 2..Len(Tiers) : Tiers[i].res > 1
ASSUME RowsAssumption ==
  /\ BatchSize \in Nat \ {0}
  /\ None \notin Bands
  /\ Ages \subseteq Nat /\ \A age \in Ages : age <= Tiers[1].keep
ASSUME BoundsAssumption == {MaxTime, MaxScans, MaxAborts, MaxDeletes} \subseteq Nat

VARIABLES
  now,     \* the time
  bands,   \* the bands there are
  rows,    \* the Scan and ScanSummary tables
  stored,  \* history: the time of every scan ever stored
  run,     \* the job: its next step, tier, time of start and list
  aborts, deletes

vars == <<now, bands, rows, stored, run, aborts, deletes>>

-----------------------------------------------------------------------------
Align(t, res) == (t \div res) * res

Ids == 1..MaxScans

Scan(id, band, t) == [res |-> 1, band |-> band, start |-> t, members |-> {id}, count |-> 1]

Resolutions == {Tiers[i].res : i \in DOMAIN Tiers} \cup {1}

Row == [res : Resolutions, band : Bands \cup {None}, start : 0..MaxTime,
        members : SUBSET Ids, count : Nat]

Idle == [pc |-> "idle", tier |-> 1, at |-> 0, list |-> {}]

TypeOK ==
  /\ now \in 0..MaxTime
  /\ bands \subseteq Bands
  /\ rows \subseteq Row
  /\ stored \in Seq(0..MaxTime) /\ Len(stored) <= MaxScans
  /\ run.pc \in {"idle", "read", "roll", "purge", "last"}
  /\ run.tier \in DOMAIN Tiers
  /\ run.pc \in {"read", "roll", "purge"} => run.tier > 1
  /\ run.at \in 0..now
  /\ run.list \subseteq Row
  /\ aborts \in 0..MaxAborts /\ deletes \in 0..MaxDeletes

Init ==
  /\ now = 0 /\ bands = Bands /\ rows = {} /\ stored = <<>> /\ run = Idle
  /\ aborts = 0 /\ deletes = 0

-----------------------------------------------------------------------------
(* The world around the job                                                *)

Tick ==
  /\ now < MaxTime
  /\ now' = now + 1
  /\ UNCHANGED <<bands, rows, stored, run, aborts, deletes>>

\* The bridge stores a scan, without a band when it does not know the name
StoreScan ==
  /\ Len(stored) < MaxScans
  /\ \E age \in {a \in Ages : a <= now}, band \in bands \cup {None} :
       /\ rows' = rows \cup {Scan(Len(stored) + 1, band, now - age)}
       /\ stored' = Append(stored, now - age)
  /\ UNCHANGED <<now, bands, run, aborts, deletes>>

\* Band is deleted in the admin: its rows stay, without a band
DeleteBand ==
  /\ deletes < MaxDeletes
  /\ deletes' = deletes + 1
  /\ \E band \in bands :
       /\ bands' = bands \ {band}
       /\ rows' = {IF r.band = band THEN [r EXCEPT !.band = None] ELSE r : r \in rows}
  /\ UNCHANGED <<now, stored, run, aborts>>

-----------------------------------------------------------------------------
(* Scanner.rollup                                                          *)

Begin ==
  /\ run.pc = "idle"
  /\ run' = [pc |-> IF Len(Tiers) > 1 THEN "read" ELSE "last",
             tier |-> Len(Tiers), at |-> now, list |-> {}]
  /\ UNCHANGED <<now, bands, rows, stored, aborts, deletes>>

\* Mutant: the cutoff moves on while the job runs
ExpiredByNow(i) ==
  {r \in rows : r.res = Tiers[i].res /\ r.start + Tiers[i].keep < now}

\* The rows of a tier that are older than the tier keeps them
Expired(i) ==
  {r \in rows : r.res = Tiers[i].res /\ r.start + Tiers[i].keep < run.at}

Read ==
  /\ run.pc = "read"
  /\ LET list == Expired(run.tier - 1) IN
     run' = [run EXCEPT !.pc = IF list = {} THEN "purge" ELSE "roll", !.list = list]
  /\ UNCHANGED <<now, bands, rows, stored, aborts, deletes>>

\* The list by band and bucket of the tier
Keys ==
  {[band |-> r.band, start |-> Align(r.start, Tiers[run.tier].res)] : r \in run.list}

Items(key) ==
  {r \in run.list : r.band = key.band /\ Align(r.start, Tiers[run.tier].res) = key.start}

\* The summaries there are for a key
Existing(key) ==
  {r \in rows : r.res = Tiers[run.tier].res /\ r.band = key.band /\ r.start = key.start}

Summary(key) ==
  [res     |-> Tiers[run.tier].res,
   band    |-> key.band,
   start   |-> key.start,
   members |-> UNION {r.members : r \in Items(key)},
   count   |-> MapThenSumSet(LAMBDA r : r.count, Items(key))]

\* Mutant: what the bucket already holds is added to
Accumulated(key) ==
  [res     |-> Tiers[run.tier].res,
   band    |-> key.band,
   start   |-> key.start,
   members |-> UNION {r.members : r \in Items(key) \cup Existing(key)},
   count   |-> MapThenSumSet(LAMBDA r : r.count, Items(key))
                 + MapThenSumSet(LAMBDA r : r.count, Existing(key))]

\* Mutant: a bucket is created and never updated
CreateOnly(key) == key.band \in bands \cup {None} /\ Existing(key) = {}

\* update_or_create needs the band, and at most one row to update: rows that
\* lost their bands may be several
Updatable(key) == key.band \in bands \cup {None} /\ Cardinality(Existing(key)) <= 1

\* Mutant: a summary that is there is added to
RollAdding ==
  /\ run.pc = "roll"
  /\ \A key \in Keys : Updatable(key)
  /\ rows' = (rows \ UNION {Existing(key) : key \in Keys}) \cup {Accumulated(key) : key \in Keys}
  /\ run' = [run EXCEPT !.pc = "purge", !.list = {}]
  /\ UNCHANGED <<now, bands, stored, aborts, deletes>>

\* One transaction: a summary that is there is replaced
Roll ==
  /\ run.pc = "roll"
  /\ \A key \in Keys : Updatable(key)
  /\ rows' = (rows \ UNION {Existing(key) : key \in Keys}) \cup {Summary(key) : key \in Keys}
  /\ run' = [run EXCEPT !.pc = "purge", !.list = {}]
  /\ UNCHANGED <<now, bands, stored, aborts, deletes>>

\* Mutant: the job goes on after a transaction that was rolled back
RollFailsOn ==
  /\ run.pc = "roll"
  /\ \E key \in Keys : ~Updatable(key)
  /\ run' = [run EXCEPT !.pc = "purge", !.list = {}]
  /\ UNCHANGED <<now, bands, rows, stored, aborts, deletes>>

\* The transaction is rolled back and the exception ends the job
RollFails ==
  /\ run.pc = "roll"
  /\ \E key \in Keys : ~Updatable(key)
  /\ run' = Idle
  /\ UNCHANGED <<now, bands, rows, stored, aborts, deletes>>

Delete(expired) ==
  /\ \E batch \in kSubset(Min({BatchSize, Cardinality(expired)}), expired) :
       rows' = rows \ batch
  /\ UNCHANGED <<now, bands, stored, run, aborts, deletes>>

\* Source rows go in batches; then the next finer tier is rolled up
Purge ==
  LET expired == Expired(run.tier - 1) IN
  /\ run.pc = "purge"
  /\ \/ expired # {} /\ Delete(expired)
     \/ /\ expired = {}
        /\ run' = IF run.tier > 2 THEN [run EXCEPT !.pc = "read", !.tier = @ - 1]
                  ELSE [run EXCEPT !.pc = "last", !.tier = Len(Tiers)]
        /\ UNCHANGED <<now, bands, rows, stored, aborts, deletes>>

\* Last the summaries of the coarsest tier: never scans
PurgeCoarsest ==
  LET expired == {r \in Expired(run.tier) : r.res # 1} IN
  /\ run.pc = "last"
  /\ \/ expired # {} /\ Delete(expired)
     \/ /\ expired = {} /\ run' = Idle
        /\ UNCHANGED <<now, bands, rows, stored, aborts, deletes>>

\* The database fails, or the scheduler is restarted
Abort ==
  /\ run.pc # "idle" /\ aborts < MaxAborts
  /\ aborts' = aborts + 1
  /\ run' = Idle
  /\ UNCHANGED <<now, bands, rows, stored, deletes>>

-----------------------------------------------------------------------------
Job == Begin \/ Read \/ Roll \/ RollFails \/ Purge \/ PurgeCoarsest

Next == Tick \/ StoreScan \/ DeleteBand \/ Job \/ Abort

Safe == Init /\ [][Next]_vars

\* The scheduler starts the job every five minutes, and a step of it ends.
\* Time need not pass, nor scans arrive.
Spec == Safe /\ WF_vars(Job)

-----------------------------------------------------------------------------
(* Properties                                                              *)

\* A summary counts each of its scans once and no other, whatever was retried
\* after a failure, and holds only scans of its bucket: the weights of
\* weighted_mean are right (models.py:188, 261; retention.py:154).
CountsExact ==
  /\ TypeOK
  /\ \A r \in rows :
       /\ r.count = Cardinality(r.members)
       /\ \A id \in r.members : Align(stored[id], r.res) = r.start

\* Nothing is deleted that the next tier does not hold: what a purge finds is
\* what the transaction before it rolled up (models.py:109-123).
PurgeCovered ==
  run.pc = "purge" =>
    \A r \in Expired(run.tier - 1) :
      \E s \in rows : s.res = Tiers[run.tier].res /\ r.members \subseteq s.members

\* Two summaries of one bucket that lost their bands: update_or_create then
\* fails on every run.
Orphans ==
  \E r, s \in rows : r # s /\ r.band = None /\ s.band = None /\ r.res = s.res
                       /\ r.start = s.start /\ r.res # 1

\* A scan that is older than the raw tier keeps it is deleted in the end, and
\* the scans before it, unless orphans stop the job (rollup.py:4-5).
RawScan(id) == \E r \in rows : r.res = 1 /\ r.members = {id}
ExpiredLeave ==
  \A id \in Ids :
    (id <= Len(stored) /\ RawScan(id) /\ stored[id] + Tiers[1].keep < now)
      ~> (~RawScan(id) \/ Orphans)

\* No scan is lost before the coarsest tier lets go of it: rolling up
\* "aggregates scans into summaries before purging, preserving historical
\* peak/average data" (cleanup_scans.py:5-6).
HistoryKept ==
  \A id \in DOMAIN stored :
    stored[id] + Tiers[Len(Tiers)].keep >= now => \E r \in rows : id \in r.members
=============================================================================
