----------------------------- MODULE ReadCache -----------------------------
(***************************************************************************)
(* The read path's cache (api/cache.py): history and timeline requests     *)
(* that share an answer for TTL, compute it one at a time under a Redis    *)
(* lock, and a warmer that computes what was asked for lately again,       *)
(* shortly before it expires.                                              *)
(*                                                                         *)
(* Of an answer the end of its time window is kept: how old it is.  A      *)
(* step is one Redis command or one computation, which takes time; time    *)
(* passes only while someone computes or waits.                            *)
(***************************************************************************)
EXTENDS Integers, FiniteSets, FiniteSetsExt

CONSTANTS
  Clients,     \* request threads, of any server process
  Requests,    \* what they ask for: [kind, band, window, limit]
  Cap,         \* the window of a read-only share session
  Bucket,      \* width of the buckets of an absolute window
  TTL, WarmTTL, LockTTL, Blocking, WarmEvery, MaxPerCycle,  \* as in the code
  MaxCompute,  \* what a request's, and the warmer's, computation takes at most
  MaxWarm,
  MaxTime, MaxEvents, \* bounds
  None

\* <<"h", hours>>, <<"c", cap>> or <<"s", start, end>>
Relative(w) == w[1] # "s"

\* A timeline has no limit.  The warmer runs just under the life of an answer;
\* how long a cycle takes is not bounded by that.
ASSUME CacheAssumption ==
  /\ {TTL, WarmTTL, Bucket, WarmEvery, LockTTL, Blocking, MaxPerCycle} \subseteq Nat \ {0}
  /\ {MaxCompute, MaxWarm, MaxTime, MaxEvents} \subseteq Nat
  /\ WarmEvery < TTL
  /\ \A r \in Requests :
       /\ r = [kind |-> r.kind, band |-> r.band, window |-> r.window, limit |-> r.limit]
       /\ r.kind = "history" \/ (r.kind = "timeline" /\ r.limit = 0)
       /\ ~Relative(r.window) => {r.window[2], r.window[3]} \subseteq Nat
  /\ Relative(Cap)
  /\ None \notin Clients

VARIABLES
  now,
  redis,    \* it answers
  entries,  \* cached answers: key to [ends, until]
  markers,  \* warm markers: signature to [spec, until]
  locks,    \* single-flight locks: key to [owner, until]
  req,      \* the request of each client
  warmer,   \* the warm cycle of the scheduler
  polled,   \* ghost: specs registered in the last WARM_TTL, to [until]
  kept,     \* ghost: those that every cycle since refreshed in time
  events

store == <<entries, markers, locks>>
vars == <<now, redis, store, req, warmer, kept, polled, events>>

-----------------------------------------------------------------------------
(* Windows and keys                                                        *)

Floor(t)    == (t \div Bucket) * Bucket

Ends(w, t)  == IF Relative(w) THEN t ELSE w[3]
RangeKey(w) == IF Relative(w) THEN w ELSE <<"s", Floor(w[2]), Floor(w[3])>>

\* history and timeline: a read-only session gets the capped window.
SpecOf(r, readonly) == IF readonly THEN [r EXCEPT !.window = Cap] ELSE r
Specs == Requests \cup {SpecOf(r, TRUE) : r \in Requests}

Key(s) == IF s.kind = "history" THEN <<"hist", s.band, RangeKey(s.window), s.limit>>
                                ELSE <<"tl", s.band, RangeKey(s.window)>>
Keys == {Key(s) : s \in Specs}

\* Mutant: the window is not part of it
SigAnyWindow(s) == <<s.kind, s.band, s.limit>>

Sig(s) == IF s.kind = "history" THEN <<"h", s.band, s.window, s.limit>>
                                ELSE <<"t", s.band, s.window>>

Put(f, k, v) == [j \in DOMAIN f \cup {k} |-> IF j = k THEN v ELSE f[j]]

\* What has a time to live, at the time t
Unexpired(f, t) == [k \in {j \in DOMAIN f : f[j].until > t} |-> f[k]]

\* A get is a miss when Redis does not answer, and a set is lost.
Live(k) == redis /\ k \in DOMAIN entries
Fill(k, ends) ==
  entries' = IF redis THEN Put(entries, k, [ends |-> ends, until |-> now + TTL]) ELSE entries

Event == events < MaxEvents /\ events' = events + 1

-----------------------------------------------------------------------------
(* A request                                                               *)

Idle == [at |-> "idle", spec |-> None, since |-> 0, from |-> 0, alone |-> FALSE,
         known |-> FALSE, failed |-> FALSE, warm |-> FALSE, cut |-> FALSE, age |-> 0, off |-> 0]

At(c, at)  == req[c].at = at
K(c)       == Key(req[c].spec)
Become(c, r) == req' = [req EXCEPT ![c] = r]
Asked(c)     == Ends(req[c].spec.window, req[c].since)
Move(c, at)  == Become(c, [req[c] EXCEPT !.at = at])
Calm       == UNCHANGED <<now, redis, warmer, kept, polled>>

Distance(t, u) == IF t < u THEN u - t ELSE t - u

\* The answer ends the request. A relative window ended some time ago by now,
\* an absolute one may not be quite the one asked for.
Answered(c, ends) ==
  IF Relative(req[c].spec.window) THEN [Idle EXCEPT !.age = now - ends]
                                  ELSE [Idle EXCEPT !.off = Distance(ends, req[c].spec.window[3])]

\* The window is resolved once; a relative one is registered with the warmer,
\* which may fail.
Ask(c, s) ==
  /\ At(c, "idle") /\ Event
  /\ Become(c, [Idle EXCEPT !.at = "get", !.spec = s, !.since = now,
                            !.warm = s \in kept, !.cut = ~redis])
  /\ IF Relative(s.window) /\ redis
     THEN /\ markers' = Put(markers, Sig(s), [spec |-> s, until |-> now + WarmTTL])
          /\ polled' = Put(polled, s, [until |-> now + WarmTTL])
     ELSE UNCHANGED <<markers, polled>>
  /\ UNCHANGED <<now, redis, entries, locks, warmer, kept>>

\* Mutant: an answer that is read lives on
Renewed(k) == [entries EXCEPT ![k].until = now + TTL]

AsRead(k) == entries

\* cache.get: what is there is the answer
Hit(c) == /\ Live(K(c)) /\ Become(c, Answered(c, entries[K(c)].ends))
          /\ entries' = AsRead(K(c))

Get(c) ==
  /\ At(c, "get")
  /\ \/ Hit(c)
     \/ ~Live(K(c)) /\ Move(c, "lock") /\ UNCHANGED entries
  /\ UNCHANGED <<markers, locks, events>> /\ Calm

Acquire(c) ==
  /\ At(c, "lock") /\ redis /\ K(c) \notin DOMAIN locks
  /\ locks' = Put(locks, K(c), [owner |-> c, until |-> now + LockTTL])
  /\ Move(c, "check")
  /\ UNCHANGED <<entries, markers, events>> /\ Calm

\* The lock was not to be had in time, or Redis does not answer: go on alone.
GiveUp(c) ==
  /\ At(c, "lock") /\ (~redis \/ now - req[c].since >= Blocking)
  /\ Move(c, "retry")
  /\ UNCHANGED <<store, events>> /\ Calm

Owns(c)    == redis /\ K(c) \in DOMAIN locks /\ locks[K(c)].owner = c
Release(c) == locks' = IF Owns(c) THEN [k \in DOMAIN locks \ {K(c)} |-> locks[k]] ELSE locks

Compute(c, alone) ==
  Become(c, [req[c] EXCEPT !.at = "compute", !.from = now, !.alone = alone,
                           !.known = Live(K(c))])

\* Another caller may have filled it.
Check(c) ==
  /\ At(c, "check")
  /\ \/ Hit(c) /\ Release(c)
     \/ ~Live(K(c)) /\ Compute(c, FALSE) /\ UNCHANGED <<entries, locks>>
  /\ UNCHANGED <<markers, events>> /\ Calm

\* Its own computation, or the one it waits for, left it nothing.
Failing(c) == [req[c] EXCEPT !.failed = TRUE]

\* The value is set and the lock released. It may be another's by now: the
\* error ends up where a lock that was not acquired does.
Computed(c) ==
  /\ At(c, "compute") /\ Fill(K(c), Asked(c))
  /\ IF req[c].alone
     THEN Become(c, Answered(c, Asked(c))) /\ UNCHANGED locks
     ELSE /\ Become(c, IF Owns(c) THEN Answered(c, Asked(c)) ELSE [Failing(c) EXCEPT !.at = "retry"])
          /\ Release(c)
  /\ UNCHANGED <<markers, events>> /\ Calm

Waits(d, c) == req[d].at \in {"lock", "retry"} /\ K(d) = K(c)

ComputeFails(c) ==
  /\ At(c, "compute") /\ Event
  /\ IF req[c].alone
     THEN Become(c, Idle) /\ UNCHANGED locks
     ELSE /\ req' = [d \in Clients |-> IF d = c THEN [Failing(c) EXCEPT !.at = "retry"]
                                       ELSE IF Owns(c) /\ Waits(d, c) THEN Failing(d) ELSE req[d]]
          /\ Release(c)
  /\ UNCHANGED <<entries, markers>> /\ Calm

\* Mutant: the second look forgotten
RetryBlind(c) ==
  /\ At(c, "retry") /\ Compute(c, TRUE)
  /\ UNCHANGED <<store, events>> /\ Calm

Retry(c) ==
  /\ At(c, "retry")
  /\ \/ Hit(c)
     \/ ~Live(K(c)) /\ Compute(c, TRUE) /\ UNCHANGED entries
  /\ UNCHANGED <<markers, locks, events>> /\ Calm

-----------------------------------------------------------------------------
(* The warm cycle                                                          *)

Warmth(w) == warmer' = w /\ UNCHANGED <<now, redis, locks, markers, req>>

\* specs[:WARM_MAX_PER_CYCLE], in the order Redis lists them
Cycle(S) == IF Cardinality(S) <= MaxPerCycle THEN {S} ELSE kSubset(MaxPerCycle, S)

WarmRun ==
  /\ warmer.at = "idle" /\ now >= warmer.due
  /\ LET specs == IF redis THEN {markers[g].spec : g \in DOMAIN markers} ELSE {}
     IN  \E todo \in Cycle(specs) :
           /\ Warmth([warmer EXCEPT !.at = "next", !.todo = todo, !.due = @ + WarmEvery])
           /\ kept' = kept \ (specs \ todo)
  /\ UNCHANGED <<entries, polled, events>>

\* A run that is due while the last one is at work is skipped (max_instances):
\* what was refreshed before waits too long for the next.
WarmSkipped ==
  /\ warmer.at # "idle" /\ now >= warmer.due
  /\ Warmth([warmer EXCEPT !.due = @ + WarmEvery])
  /\ kept' = {}
  /\ UNCHANGED <<entries, polled, events>>

WarmSpec ==
  /\ warmer.at = "next"
  /\ \/ \E s \in warmer.todo :
          Warmth([warmer EXCEPT !.at = "compute", !.todo = @ \ {s}, !.spec = s, !.from = now])
     \/ warmer.todo = {} /\ Warmth([warmer EXCEPT !.at = "idle"])
  /\ UNCHANGED <<entries, kept, polled, events>>

Between == [warmer EXCEPT !.at = "next", !.spec = None, !.from = 0]

Warmed ==
  /\ warmer.at = "compute"
  /\ Fill(Key(warmer.spec), Ends(warmer.spec.window, warmer.from))
  /\ kept' = IF redis THEN kept \cup ({warmer.spec} \cap DOMAIN polled) ELSE kept
  /\ Warmth(Between)
  /\ UNCHANGED <<polled, events>>

WarmFails ==
  /\ warmer.at = "compute" /\ Event
  /\ kept' = kept \ {warmer.spec}
  /\ Warmth(Between)
  /\ UNCHANGED <<entries, polled>>

-----------------------------------------------------------------------------
\* Redis goes, and comes back with what it had or without.
Outage ==
  /\ Event /\ redis' = ~redis
  /\ \/ UNCHANGED store
     \/ ~redis /\ entries' = << >> /\ markers' = << >> /\ locks' = << >>
  /\ kept' = {} /\ polled' = << >>
  /\ req' = [c \in Clients |-> IF At(c, "idle") THEN req[c] ELSE [req[c] EXCEPT !.cut = TRUE]]
  /\ UNCHANGED <<now, warmer>>

\* What the cycle has still to refresh at the time t, so long after it began
\* that the entries of the last one may be gone
Pending == warmer.todo \cup (IF warmer.at = "compute" THEN {warmer.spec} ELSE {})
Late(t) == IF t - (warmer.due - WarmEvery) < TTL - WarmEvery THEN {} ELSE Pending

\* Who waited for a lock that ran out, of a computation that takes longer
Outlasted(c, held) == At(c, "lock") /\ K(c) \notin held

\* What takes no time has happened; what does ends in time.
Tick ==
  /\ now < MaxTime /\ now' = now + 1
  /\ \A c \in Clients :
       \/ At(c, "idle")
       \/ At(c, "lock") /\ redis /\ K(c) \in DOMAIN locks /\ now - req[c].since < Blocking
       \/ At(c, "compute") /\ now - req[c].from < MaxCompute
  /\ now < warmer.due
  /\ warmer.at = "idle" \/ (warmer.at = "compute" /\ now - warmer.from < MaxWarm)
  /\ entries' = Unexpired(entries, now') /\ markers' = Unexpired(markers, now')
  /\ locks' = Unexpired(locks, now')
  /\ polled' = Unexpired(polled, now') /\ kept' = (kept \cap DOMAIN polled') \ Late(now')
  /\ req' = [c \in Clients |-> IF At(c, "idle") THEN Idle
                               ELSE IF Outlasted(c, DOMAIN locks') THEN Failing(c) ELSE req[c]]
  /\ UNCHANGED <<redis, warmer, events>>

Init ==
  /\ now = 0 /\ redis = TRUE
  /\ entries = << >> /\ markers = << >> /\ locks = << >>
  /\ req = [c \in Clients |-> Idle]
  /\ warmer = [at |-> "idle", todo |-> {}, spec |-> None, from |-> 0, due |-> WarmEvery]
  /\ kept = {} /\ polled = << >> /\ events = 0

Step(c) == Get(c) \/ Acquire(c) \/ GiveUp(c) \/ Check(c) \/ Computed(c) \/ ComputeFails(c) \/ Retry(c)

Next ==
  \/ \E c \in Clients : Step(c) \/ \E s \in Specs : Ask(c, s)
  \/ WarmRun \/ WarmSkipped \/ WarmSpec \/ Warmed \/ WarmFails \/ Outage \/ Tick

Spec == Init /\ [][Next]_vars

-----------------------------------------------------------------------------
(* Properties                                                              *)

Times == 0..(MaxTime + TTL + WarmTTL + LockTTL + WarmEvery)

TypeOK ==
  /\ now \in 0..MaxTime /\ kept \subseteq DOMAIN polled
  /\ DOMAIN entries \subseteq Keys /\ DOMAIN locks \subseteq Keys
  /\ \A k \in DOMAIN entries : entries[k].until \in Times
  /\ \A g \in DOMAIN markers : markers[g].spec \in Specs /\ Sig(markers[g].spec) = g
  /\ \A k \in DOMAIN locks : locks[k].owner \in Clients
  /\ \A c \in Clients : At(c, "idle") \/ req[c].spec \in Specs
  /\ warmer.todo \subseteq Specs /\ Cardinality(warmer.todo) <= MaxPerCycle
  /\ warmer.due \in now..(now + WarmEvery)

\* The request that holds the lock of k computes, or nobody is left to
Computes(o, k) == At(o, "compute") /\ ~req[o].alone /\ K(o) = k
Serves(o, k)   == Computes(o, k) /\ k \in DOMAIN locks /\ locks[k].owner = o
Holds(o, k)    == Computes(o, k) \/ (At(o, "check") /\ K(o) = k)
Orphaned(k)    == k \in DOMAIN locks /\ ~Holds(locks[k].owner, k)

\* "Collapses a cold-cache stampede of identical requests into one DB query"
\* (cache.py): of the requests for a key one computes, unless it outlives its
\* lock, and none computes what is there when it begins, under the lock or
\* without.  The ones that wait go on without it only when Redis went in the
\* meantime, their own computation or the one they wait for failed or outlived
\* its lock, an outage left a lock that nobody holds, or the one they wait for
\* takes as long as they wait at most, 10 s of the lock's 20: then all of them
\* compute beside it.
SingleFlight ==
  /\ TypeOK
  /\ \A c \in Clients :
       /\ At(c, "compute") => ~req[c].known
       /\ At(c, "retry") /\ ~req[c].failed /\ ~req[c].cut =>
            \/ Live(K(c)) \/ Orphaned(K(c))
            \/ \E o \in Clients : Serves(o, K(c)) /\ now - req[o].from >= Blocking
       /\ \A d \in Clients \ {c} :
            At(c, "compute") /\ Computes(d, K(c)) /\ ~req[c].alone =>
              \E x \in {c, d} : req[x].cut \/ now - req[x].from >= LockTTL

\* "Watched keys are always a HIT": who asks again within WARM_TTL finds the
\* key, whoever else asks for what and however slowly requests and the warmer
\* compute, when each cycle since then refreshed it, was not skipped, and came
\* to it less than TTL - WarmEvery, 2 s, after it began.
KeptWarm ==
  \A c \in Clients : At(c, "get") /\ req[c].warm /\ ~req[c].cut => Live(K(c))

\* No answer is staler, while it is served, than the entry's life and what
\* filled it add up to, the wait and the computations of a request or the
\* computation of the warmer, and an absolute window is missed by less than a
\* bucket: neither a warmer nor a slow request keeps old data alive.
FreshEnough ==
  LET asking == Blocking + 2 * MaxCompute
      bound  == TTL + (IF asking < MaxWarm THEN MaxWarm ELSE asking)
  IN  /\ \A k \in DOMAIN entries : Relative(k[3]) => entries[k].until - entries[k].ends <= bound
      /\ \A c \in Clients : req[c].age < bound /\ req[c].off < Bucket
=============================================================================
