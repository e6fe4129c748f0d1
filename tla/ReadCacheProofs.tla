--------------------------- MODULE ReadCacheProofs ---------------------------
(***************************************************************************)
(* Safety of ReadCache for any clients, requests and times to live that    *)
(* the assumption allows: who computes beside whom, no answer older than   *)
(* its life and what filled it, and the watched keys warm while cycles     *)
(* come to them in time, however long a cycle takes.                       *)
(***************************************************************************)
EXTENDS ReadCache, FiniteSetTheorems, TLAPS

\* What the life of an entry has left when the next cycle begins
Spare == TTL - WarmEvery

Ats == {"idle", "get", "lock", "check", "compute", "retry"}
Req == [at : Ats, spec : Specs \cup {None}, since : Nat, from : Nat, alone : BOOLEAN,
        known : BOOLEAN, failed : BOOLEAN, warm : BOOLEAN, cut : BOOLEAN, age : Int, off : Int]

Types ==
  /\ TypeOK
  /\ redis \in BOOLEAN /\ events \in Nat
  /\ req \in [Clients -> Req]
  /\ warmer \in [at : {"idle", "next", "compute"}, todo : SUBSET Specs,
                 spec : Specs \cup {None}, from : Nat, due : Nat]
  /\ IsFiniteSet(DOMAIN markers)

\* Nothing that has run out is there, and nothing lives longer than it may.
EntriesLive == \A k \in DOMAIN entries :
                 entries[k].until \in now + 1..now + TTL /\ entries[k].ends \in Nat
LocksLive   == \A k \in DOMAIN locks : locks[k].until \in now + 1..now + LockTTL
MarkersLive == \A g \in DOMAIN markers : markers[g].until \in now + 1..now + WarmTTL
PolledLive  == \A s \in DOMAIN polled : polled[s].until \in now + 1..now + WarmTTL
Expiry == EntriesLive /\ LocksLive /\ MarkersLive /\ PolledLive

\* How long a request has been on its way
Pace ==
  \A c \in Clients : LET r == req[c] IN
    /\ r.at = "get" => r.since = now
    /\ r.at = "lock" => r.since <= now /\ now - r.since <= Blocking
    /\ r.at = "check" => r.since <= now /\ now - r.since <= Blocking
    /\ r.at = "retry" => r.since <= now /\ now - r.since <= Blocking + MaxCompute
    /\ r.at = "compute" =>
         /\ r.since <= r.from /\ r.from <= now /\ now - r.from <= MaxCompute
         /\ r.from - r.since <= Blocking + (IF r.alone THEN MaxCompute ELSE 0)

\* Who checks or computes under a lock, and saw no outage, owns it for LockTTL.
Owned ==
  \A c \in Clients : LET r == req[c] IN
    /\ r.at = "check" /\ ~r.cut =>
         K(c) \in DOMAIN locks /\ locks[K(c)] = [owner |-> c, until |-> now + LockTTL]
    /\ r.at = "compute" => ~r.known
    /\ r.at = "compute" /\ ~r.alone =>
         /\ ~r.cut /\ now - r.from < LockTTL =>
              K(c) \in DOMAIN locks /\ locks[K(c)] = [owner |-> c, until |-> r.from + LockTTL]

\* An entry of an absolute window ends in the bucket that its key names.
Buckets ==
  \A k \in DOMAIN entries : ~Relative(k[3]) => Floor(entries[k].ends) = k[3][3]

\* A run comes when it is due, or is skipped.
Cycles ==
  /\ IsFiniteSet(warmer.todo)
  /\ warmer.due - WarmEvery <= now /\ now <= warmer.due
  /\ warmer.at = "idle" => warmer.todo = {}
  /\ warmer.at = "compute" =>
       /\ warmer.spec \in Specs /\ warmer.spec \notin warmer.todo
       /\ warmer.from <= now /\ now - warmer.from <= MaxWarm

\* What was refreshed by the last cycle lives as long as the one that is at
\* work has it on its list in time, what this one refreshed lives for the next.
Deadline(s) == Spare + (IF s \in Pending THEN warmer.due - WarmEvery ELSE warmer.due)

\* A marker stands for every spec that was registered lately, and what every
\* cycle since refreshed in time lives until the warmer is back.
Watched ==
  /\ DOMAIN polled # {} => redis
  /\ \A s \in DOMAIN polled :
       /\ s \in Specs /\ Relative(s.window)
       /\ Sig(s) \in DOMAIN markers /\ markers[Sig(s)].until >= polled[s].until
  /\ \A s \in kept : /\ Key(s) \in DOMAIN entries /\ entries[Key(s)].until >= Deadline(s)
                      /\ now < Deadline(s)

\* Who waits longer than an instant waits for one computation, which began
\* before it did and holds the lock, unless an outage left the lock behind, or
\* what it waited for is there and nobody computes it again.
Awaits ==
  /\ ~redis => \A c \in Clients : At(c, "idle") \/ req[c].cut
  /\ \A c \in Clients : ~req[c].failed /\ ~req[c].cut =>
       /\ At(c, "lock") /\ req[c].since < now =>
            \/ \E o \in Clients : Serves(o, K(c)) /\ req[o].from <= req[c].since
            \/ Orphaned(K(c))
            \/ Live(K(c)) /\ \A o \in Clients : ~Serves(o, K(c))
       /\ At(c, "retry") =>
            \/ \E o \in Clients : Serves(o, K(c)) /\ now - req[o].from >= Blocking
            \/ Orphaned(K(c)) \/ Live(K(c))

IInv == Types /\ Expiry /\ Pace /\ Owned /\ SingleFlight /\ Buckets /\ FreshEnough
          /\ Cycles /\ Watched /\ KeptWarm /\ Awaits

-----------------------------------------------------------------------------
(* Constants and operators                                                 *)

LEMMA Delays ==
  /\ TTL \in Nat \ {0} /\ WarmTTL \in Nat \ {0} /\ Bucket \in Nat \ {0} /\ WarmEvery \in Nat \ {0}
  /\ LockTTL \in Nat \ {0} /\ MaxPerCycle \in Nat \ {0} /\ Blocking \in Nat \ {0}
  /\ MaxCompute \in Nat /\ MaxWarm \in Nat /\ MaxTime \in Nat /\ MaxEvents \in Nat
  /\ Spare \in Nat \ {0} /\ Spare + WarmEvery = TTL
  BY CacheAssumption DEF Spare

\* Two times of one bucket are less than its width apart.
LEMMA SameBucket ==
  ASSUME NEW t \in Nat, NEW u \in Nat, Floor(t) = Floor(u)
  PROVE  Distance(t, u) < Bucket /\ Distance(t, u) \in Nat
  <1>. DEFINE x == (t \div Bucket) * Bucket
              y == (u \div Bucket) * Bucket
  <1>1. \A n \in Nat, d \in Nat \ {0} : n = d * (n \div d) + (n % d) /\ n % d \in 0..d - 1
    OBVIOUS
  <1>2. t = Bucket * (t \div Bucket) + (t % Bucket) /\ t % Bucket \in 0..Bucket - 1
    BY <1>1, Delays
  <1>3. u = Bucket * (u \div Bucket) + (u % Bucket) /\ u % Bucket \in 0..Bucket - 1
    BY <1>1, Delays
  <1>4. x \in Int /\ y \in Int /\ x = Bucket * (t \div Bucket) /\ y = Bucket * (u \div Bucket)
    BY Delays
  <1>5. t = x + (t % Bucket) /\ u = y + (u % Bucket)
    BY <1>2, <1>3, <1>4
  <1>6. x = y
    BY DEF Floor
  <1>. HIDE DEF x, y
  <1>7. t - u < Bucket /\ u - t < Bucket
    BY <1>2, <1>3, <1>4, <1>5, <1>6, Delays
  <1>. QED  BY <1>7 DEF Distance

LEMMA SpecTypes ==
  ASSUME NEW s \in Specs
  PROVE  /\ s = [kind |-> s.kind, band |-> s.band, window |-> s.window, limit |-> s.limit]
         /\ s.kind = "history" \/ (s.kind = "timeline" /\ s.limit = 0)
         /\ ~Relative(s.window) => s.window[2] \in Nat /\ s.window[3] \in Nat
  <1>1. CASE s \in Requests
    BY <1>1, CacheAssumption
  <1>2. ASSUME NEW r \in Requests, s = SpecOf(r, TRUE)
        PROVE  /\ s = [kind |-> r.kind, band |-> r.band, window |-> Cap, limit |-> r.limit]
               /\ r.kind = "history" \/ (r.kind = "timeline" /\ r.limit = 0)
    <2>1. s = [r EXCEPT !.window = Cap]
      BY <1>2 DEF SpecOf
    <2>2. r = [kind |-> r.kind, band |-> r.band, window |-> r.window, limit |-> r.limit]
      BY CacheAssumption
    <2>. QED  BY <2>1, <2>2, CacheAssumption
  <1>3. Relative(Cap)
    BY CacheAssumption
  <1>4. ASSUME NEW r \in Requests, s = SpecOf(r, TRUE)
        PROVE  /\ s = [kind |-> s.kind, band |-> s.band, window |-> s.window, limit |-> s.limit]
               /\ s.kind = "history" \/ (s.kind = "timeline" /\ s.limit = 0)
               /\ Relative(s.window)
    <2>0. s = [kind |-> r.kind, band |-> r.band, window |-> Cap, limit |-> r.limit]
      BY <1>2, <1>4
    <2>1. s.kind = r.kind /\ s.band = r.band /\ s.window = Cap /\ s.limit = r.limit
      BY <2>0
    <2>. QED  BY <1>2, <1>3, <1>4, <2>1
  <1>5. s \in Requests \/ \E r \in Requests : s = SpecOf(r, TRUE)
    BY DEF Specs
  <1>. QED  BY <1>1, <1>4, <1>5

\* One marker stands for one spec.
LEMMA OneSig ==
  ASSUME NEW s \in Specs, NEW t \in Specs, Sig(s) = Sig(t)
  PROVE  s = t
  <1>1. CASE s.kind = "history" /\ t.kind = "history"
    <2>1. s.band = t.band /\ s.window = t.window /\ s.limit = t.limit
      BY <1>1 DEF Sig
    <2>. QED  BY <1>1, <2>1, SpecTypes
  <1>2. CASE s.kind = "timeline" /\ t.kind = "timeline"
    <2>1. s.band = t.band /\ s.window = t.window
      BY <1>2 DEF Sig
    <2>. QED  BY <1>2, <2>1, SpecTypes
  <1>3. CASE s.kind # t.kind
    BY <1>3, SpecTypes DEF Sig
  <1>. QED  BY <1>1, <1>2, <1>3, SpecTypes

\* A key names the window, an absolute one by its buckets.
LEMMA KeyWindow ==
  ASSUME NEW s \in Specs
  PROVE  /\ Key(s) \in Keys /\ Key(s)[3] = RangeKey(s.window)
         /\ Relative(Key(s)[3]) <=> Relative(s.window)
         /\ ~Relative(s.window) => Key(s)[3][3] = Floor(s.window[3])
         /\ \A t : ~Relative(s.window) => Ends(s.window, t) = s.window[3]
         /\ \A t : Relative(s.window) => Ends(s.window, t) = t
  <1>1. Key(s) \in Keys /\ Key(s)[3] = RangeKey(s.window)
    BY DEF Key, Keys
  <1>2. ~Relative(s.window) => /\ RangeKey(s.window) = <<"s", Floor(s.window[2]), Floor(s.window[3])>>
                               /\ ~Relative(RangeKey(s.window))
    BY DEF RangeKey, Relative
  <1>3. Relative(s.window) => RangeKey(s.window) = s.window
    BY DEF RangeKey
  <1>. QED  BY <1>1, <1>2, <1>3 DEF Ends

-----------------------------------------------------------------------------
(* What a client's action does to its request                              *)

Others(c)  == \A d \in Clients \ {c} : req'[d] = req[d]
Carried(c) == /\ req'[c].spec = req[c].spec /\ req'[c].since = req[c].since
              /\ req'[c].warm = req[c].warm /\ req'[c].cut = req[c].cut
              /\ req'[c].age = req[c].age /\ req'[c].off = req[c].off
              /\ req'[c] \in Req
Goes(c, from, to) == req[c].at = from /\ req'[c].at = to /\ Carried(c)
\* A request that waits learns that there is nothing to wait for.
LetDown(c) == (Goes(c, "lock", "lock") \/ Goes(c, "retry", "retry")) /\ req'[c].failed
Ended(c)   == /\ req'[c].at = "idle" /\ req'[c] \in Req
Still      == UNCHANGED <<now, redis, warmer, kept, polled, markers>>

\* The answer's end: what was cached, or what was asked for
AnsweredWith(c, ends) ==
  /\ Ended(c)
  /\ Relative(req[c].spec.window) => req'[c].age = now - ends /\ req'[c].off = 0
  /\ ~Relative(req[c].spec.window) =>
       req'[c].age = 0 /\ req'[c].off = Distance(ends, req[c].spec.window[3])

LEMMA BecomeOne ==
  ASSUME Types, NEW c \in Clients, NEW r, Become(c, r)
  PROVE  req'[c] = r /\ Others(c) /\ DOMAIN req' = Clients
  BY DEF Types, Become, Others

LEMMA ReqTypes ==
  ASSUME Types, NEW c \in Clients
  PROVE  /\ req[c] \in Req /\ now \in Nat
         /\ ~At(c, "idle") => req[c].spec \in Specs
  BY DEF Types, TypeOK, At

LEMMA Moved ==
  ASSUME Types, NEW c \in Clients, NEW x \in Ats, Move(c, x)
  PROVE  /\ Others(c) /\ Carried(c) /\ req'[c].at = x
         /\ req'[c].from = req[c].from /\ req'[c].alone = req[c].alone
         /\ req'[c].known = req[c].known /\ req'[c].failed = req[c].failed
  <1>1. Others(c) /\ req'[c] = [req[c] EXCEPT !.at = x]
    BY BecomeOne DEF Move
  <1>2. \A r \in Req : LET q == [r EXCEPT !.at = x] IN
          /\ q \in Req /\ q.at = x /\ q.spec = r.spec /\ q.since = r.since /\ q.from = r.from
          /\ q.alone = r.alone /\ q.known = r.known /\ q.warm = r.warm /\ q.cut = r.cut
          /\ q.age = r.age /\ q.off = r.off /\ q.failed = r.failed
    BY DEF Req
  <1>. QED  BY <1>1, <1>2, ReqTypes DEF Carried

LEMMA Started ==
  ASSUME Types, NEW c \in Clients, NEW a \in BOOLEAN, Compute(c, a)
  PROVE  /\ Others(c) /\ Carried(c) /\ req'[c].at = "compute"
         /\ req'[c].from = now /\ req'[c].alone = a /\ (req'[c].known <=> Live(K(c)))
  <1>. DEFINE k == Live(K(c))
  <1>1. /\ Others(c)
        /\ req'[c] = [req[c] EXCEPT !.at = "compute", !.from = now, !.alone = a, !.known = k]
    BY BecomeOne DEF Compute
  <1>2. k \in BOOLEAN /\ now \in Nat
    BY ReqTypes DEF Live, Types
  <1>. HIDE DEF k
  <1>3. \A r \in Req : LET q == [r EXCEPT !.at = "compute", !.from = now, !.alone = a, !.known = k] IN
          /\ q \in Req /\ q.at = "compute" /\ q.spec = r.spec /\ q.since = r.since /\ q.from = now
          /\ q.alone = a /\ q.known = k /\ q.warm = r.warm /\ q.cut = r.cut
          /\ q.age = r.age /\ q.off = r.off
    BY <1>2 DEF Req, Ats
  <1>4. req[c] \in Req
    BY ReqTypes
  <1>5. /\ Others(c) /\ Carried(c) /\ req'[c].at = "compute"
        /\ req'[c].from = now /\ req'[c].alone = a /\ req'[c].known = k
    BY <1>1, <1>3, <1>4 DEF Carried
  <1>. QED  BY <1>5 DEF k

LEMMA IdleType ==
  Idle \in Req /\ Idle.at = "idle" /\ Idle.age = 0 /\ Idle.off = 0 /\ Idle.cut = FALSE
  BY DEF Idle, Req, Ats

LEMMA Served ==
  ASSUME Types, NEW c \in Clients, ~At(c, "idle"), NEW ends \in Nat, Become(c, Answered(c, ends))
  PROVE  Others(c) /\ AnsweredWith(c, ends)
  <1>. DEFINE s == req[c].spec
  <1>0. now \in Nat /\ s \in Specs
    BY ReqTypes
  <1>1. Others(c) /\ req'[c] = Answered(c, ends)
    BY BecomeOne
  <1>2. \A n \in Int : /\ [Idle EXCEPT !.age = n] \in Req /\ [Idle EXCEPT !.off = n] \in Req
                       /\ [Idle EXCEPT !.age = n].at = "idle" /\ [Idle EXCEPT !.off = n].at = "idle"
                       /\ [Idle EXCEPT !.age = n].age = n /\ [Idle EXCEPT !.off = n].off = n
                       /\ [Idle EXCEPT !.age = n].off = 0 /\ [Idle EXCEPT !.off = n].age = 0
    BY IdleType DEF Req
  <1>3. CASE Relative(s.window)
    <2>. DEFINE n == now - ends  r == [Idle EXCEPT !.age = n]
    <2>1. n \in Int
      BY <1>0
    <2>2. req'[c] = r
      BY <1>1, <1>3 DEF Answered
    <2>. HIDE DEF n
    <2>3. r \in Req /\ r.at = "idle" /\ r.age = n /\ r.off = 0
      BY <1>2, <2>1
    <2>. HIDE DEF r
    <2>4. Ended(c) /\ req'[c].age = n /\ req'[c].off = 0
      BY <2>2, <2>3 DEF Ended
    <2>. QED  BY <1>1, <1>3, <2>4 DEF AnsweredWith, n
  <1>4. CASE ~Relative(s.window)
    <2>. DEFINE n == Distance(ends, s.window[3])  r == [Idle EXCEPT !.off = n]
    <2>1. n \in Int
      BY <1>0, <1>4, SpecTypes DEF Distance
    <2>2. req'[c] = r
      BY <1>1, <1>4 DEF Answered
    <2>. HIDE DEF n
    <2>3. r \in Req /\ r.at = "idle" /\ r.off = n /\ r.age = 0
      BY <1>2, <2>1
    <2>. HIDE DEF r
    <2>4. Ended(c) /\ req'[c].off = n /\ req'[c].age = 0
      BY <2>2, <2>3 DEF Ended
    <2>. QED  BY <1>1, <1>4, <2>4 DEF AnsweredWith, n
  <1>. QED  BY <1>3, <1>4

-----------------------------------------------------------------------------
(* The actions of a client                                                 *)

\* What a client takes from the cache, and how it is served
CacheHit(c) == Live(K(c)) /\ AnsweredWith(c, entries[K(c)].ends) /\ entries' = entries

LEMMA HitFacts ==
  ASSUME Types, Expiry, NEW c \in Clients, ~At(c, "idle"), Hit(c)
  PROVE  CacheHit(c) /\ Others(c)
  <1>1. entries[K(c)].ends \in Nat
    BY DEF Hit, Live, Expiry, EntriesLive
  <1>. QED  BY <1>1, Served DEF Hit, AsRead, CacheHit

LEMMA AskStep ==
  ASSUME Types, NEW c \in Clients, NEW s \in Specs, Ask(c, s)
  PROVE  /\ Others(c) /\ req[c].at = "idle" /\ req'[c].at = "get" /\ req'[c] \in Req
         /\ req'[c].spec = s /\ req'[c].since = now /\ (req'[c].warm <=> s \in kept)
         /\ (req'[c].cut <=> ~redis) /\ req'[c].age = 0 /\ req'[c].off = 0
         /\ UNCHANGED <<now, redis, entries, locks, warmer, kept>>
         /\ events < MaxEvents /\ events' = events + 1
         /\ \/ /\ Relative(s.window) /\ redis
               /\ markers' = Put(markers, Sig(s), [spec |-> s, until |-> now + WarmTTL])
               /\ polled' = Put(polled, s, [until |-> now + WarmTTL])
            \/ UNCHANGED <<markers, polled>>
  <1>. DEFINE b == s \in kept
              n == ~redis
              q == [Idle EXCEPT !.at = "get", !.spec = s, !.since = now, !.warm = b, !.cut = n]
  <1>1. req'[c] = q /\ Others(c)
    BY BecomeOne DEF Ask
  <1>2. now \in Nat /\ b \in BOOLEAN /\ n \in BOOLEAN
    BY ReqTypes
  <1>. HIDE DEF b, n
  <1>3. /\ q.at = "get" /\ q \in Req /\ q.spec = s /\ q.since = now /\ q.warm = b
        /\ q.cut = n /\ q.age = 0 /\ q.off = 0
    <2>1. \A r \in Req : LET t == [r EXCEPT !.at = "get", !.spec = s, !.since = now, !.warm = b, !.cut = n] IN
            /\ t.at = "get" /\ t \in Req /\ t.spec = s /\ t.since = now /\ t.warm = b
            /\ t.cut = n /\ t.age = r.age /\ t.off = r.off
      BY <1>2 DEF Req, Ats
    <2>. QED  BY <2>1, IdleType
  <1>4. /\ UNCHANGED <<now, redis, entries, locks, warmer, kept>>
        /\ events < MaxEvents /\ events' = events + 1 /\ req[c].at = "idle"
        /\ \/ /\ Relative(s.window) /\ redis
              /\ markers' = Put(markers, Sig(s), [spec |-> s, until |-> now + WarmTTL])
              /\ polled' = Put(polled, s, [until |-> now + WarmTTL])
           \/ UNCHANGED <<markers, polled>>
    BY DEF Ask, Event, At
  <1>. HIDE DEF q
  <1>5. req'[c].warm = b /\ req'[c].cut = n
    BY <1>1, <1>3
  <1>. QED  BY <1>1, <1>3, <1>4, <1>5 DEF b, n

LEMMA GetStep ==
  ASSUME Types, Expiry, NEW c \in Clients, Get(c)
  PROVE  /\ Others(c) /\ req[c].at = "get" /\ Still /\ UNCHANGED <<events, entries, locks>>
         /\ CacheHit(c) \/ (~Live(K(c)) /\ req'[c].at = "lock" /\ Carried(c))
  <1>1. req[c].at = "get" /\ Still /\ UNCHANGED <<events, locks>>
    BY DEF Get, At, Calm, Still
  <1>2. \/ Hit(c)
        \/ ~Live(K(c)) /\ Move(c, "lock") /\ UNCHANGED entries
    BY DEF Get
  <1>. QED  BY <1>1, <1>2, HitFacts, Moved DEF At, CacheHit, Ats

LEMMA AcquireStep ==
  ASSUME Types, NEW c \in Clients, Acquire(c)
  PROVE  /\ Others(c) /\ req[c].at = "lock" /\ Still /\ UNCHANGED <<events, entries>>
         /\ req'[c].at = "check" /\ Carried(c) /\ redis /\ K(c) \notin DOMAIN locks
         /\ locks' = Put(locks, K(c), [owner |-> c, until |-> now + LockTTL])
  BY Moved DEF Acquire, At, Calm, Still, Ats

LEMMA GiveUpStep ==
  ASSUME Types, NEW c \in Clients, GiveUp(c)
  PROVE  /\ Others(c) /\ req[c].at = "lock" /\ Still /\ UNCHANGED <<events, entries, locks>>
         /\ req'[c].at = "retry" /\ Carried(c) /\ req'[c].failed = req[c].failed
         /\ ~redis \/ now - req[c].since >= Blocking
  BY Moved DEF GiveUp, At, Calm, Still, Ats, store

LEMMA CheckStep ==
  ASSUME Types, Expiry, NEW c \in Clients, Check(c)
  PROVE  /\ Others(c) /\ req[c].at = "check" /\ Still /\ UNCHANGED <<events, entries>>
         /\ \/ CacheHit(c) /\ Release(c)
            \/ /\ ~Live(K(c)) /\ req'[c].at = "compute" /\ Carried(c) /\ req'[c].from = now
               /\ req'[c].alone = FALSE /\ ~req'[c].known /\ UNCHANGED locks
  <1>1. req[c].at = "check" /\ Still /\ UNCHANGED events
    BY DEF Check, At, Calm, Still
  <1>2. \/ Hit(c) /\ Release(c)
        \/ ~Live(K(c)) /\ Compute(c, FALSE) /\ UNCHANGED <<entries, locks>>
    BY DEF Check
  <1>. QED  BY <1>1, <1>2, HitFacts, Started DEF At, CacheHit

LEMMA FailingFacts ==
  ASSUME Types, NEW c \in Clients
  PROVE  /\ LET q == Failing(c) IN
              /\ q \in Req /\ q.failed = TRUE /\ q.at = req[c].at /\ q.spec = req[c].spec
              /\ q.since = req[c].since /\ q.warm = req[c].warm /\ q.cut = req[c].cut
              /\ q.age = req[c].age /\ q.off = req[c].off
         /\ LET q == [Failing(c) EXCEPT !.at = "retry"] IN
              /\ q \in Req /\ q.failed = TRUE /\ q.at = "retry" /\ q.spec = req[c].spec
              /\ q.since = req[c].since /\ q.warm = req[c].warm /\ q.cut = req[c].cut
              /\ q.age = req[c].age /\ q.off = req[c].off
  <1>1. \A r \in Req : LET q == [r EXCEPT !.failed = TRUE] IN
          /\ q \in Req /\ q.failed = TRUE /\ q.at = r.at /\ q.spec = r.spec /\ q.since = r.since
          /\ q.warm = r.warm /\ q.cut = r.cut /\ q.age = r.age /\ q.off = r.off
    BY DEF Req
  <1>2. \A r \in Req : LET q == [r EXCEPT !.at = "retry"] IN
          /\ q \in Req /\ q.failed = r.failed /\ q.at = "retry" /\ q.spec = r.spec /\ q.since = r.since
          /\ q.warm = r.warm /\ q.cut = r.cut /\ q.age = r.age /\ q.off = r.off
    BY DEF Req, Ats
  <1>. DEFINE q == Failing(c)
  <1>3. /\ q \in Req /\ q.failed = TRUE /\ q.at = req[c].at /\ q.spec = req[c].spec
        /\ q.since = req[c].since /\ q.warm = req[c].warm /\ q.cut = req[c].cut
        /\ q.age = req[c].age /\ q.off = req[c].off
    BY <1>1, ReqTypes DEF Failing
  <1>. HIDE DEF q
  <1>4. LET p == [q EXCEPT !.at = "retry"] IN
          /\ p \in Req /\ p.failed = TRUE /\ p.at = "retry" /\ p.spec = req[c].spec
          /\ p.since = req[c].since /\ p.warm = req[c].warm /\ p.cut = req[c].cut
          /\ p.age = req[c].age /\ p.off = req[c].off
    BY <1>2, <1>3
  <1>. QED  BY <1>3, <1>4 DEF q

LEMMA ComputedStep ==
  ASSUME Types, Expiry, NEW c \in Clients, Computed(c)
  PROVE  /\ Others(c) /\ req[c].at = "compute" /\ Still /\ UNCHANGED events
         /\ Fill(K(c), Asked(c)) /\ Asked(c) \in Nat
         /\ \/ AnsweredWith(c, Asked(c)) /\ req[c].alone /\ UNCHANGED locks
            \/ AnsweredWith(c, Asked(c)) /\ ~req[c].alone /\ Release(c)
            \/ ~req[c].alone /\ req'[c].at = "retry" /\ req'[c].failed /\ Carried(c) /\ Release(c)
  <1>. DEFINE q == [Failing(c) EXCEPT !.at = "retry"]
  <1>1. req[c].at = "compute" /\ Still /\ UNCHANGED events /\ Fill(K(c), Asked(c))
    BY DEF Computed, At, Calm, Still
  <1>2. \/ req[c].alone /\ Become(c, Answered(c, Asked(c))) /\ UNCHANGED locks
        \/ ~req[c].alone /\ Become(c, Answered(c, Asked(c))) /\ Release(c)
        \/ ~req[c].alone /\ Become(c, q) /\ Release(c)
    BY DEF Computed
  <1>3. Asked(c) \in Nat
    BY <1>1, ReqTypes, SpecTypes DEF At, Asked, Ends, Req
  <1>5. /\ q \in Req /\ q.failed = TRUE /\ q.at = "retry" /\ q.spec = req[c].spec
        /\ q.since = req[c].since /\ q.warm = req[c].warm /\ q.cut = req[c].cut
        /\ q.age = req[c].age /\ q.off = req[c].off
    BY FailingFacts
  <1>. HIDE DEF q
  <1>4. Become(c, q) => /\ Others(c) /\ req'[c].at = "retry" /\ req'[c].failed /\ Carried(c)
    BY <1>5, BecomeOne DEF Carried
  <1>. QED  BY <1>1, <1>2, <1>3, <1>4, Served DEF At

LEMMA FailStep ==
  ASSUME Types, NEW c \in Clients, ComputeFails(c)
  PROVE  /\ req[c].at = "compute" /\ Still /\ UNCHANGED entries
         /\ events < MaxEvents /\ events' = events + 1
         /\ \/ /\ req[c].alone /\ Ended(c) /\ req'[c].age = 0 /\ req'[c].off = 0 /\ UNCHANGED locks
               /\ Others(c)
            \/ /\ ~req[c].alone /\ req'[c].at = "retry" /\ req'[c].failed /\ Carried(c) /\ Release(c)
               /\ \A d \in Clients \ {c} :
                    IF Owns(c) /\ Waits(d, c) THEN LetDown(d) ELSE req'[d] = req[d]
  <1>1. /\ req[c].at = "compute" /\ Still /\ UNCHANGED entries
        /\ events < MaxEvents /\ events' = events + 1
    BY DEF ComputeFails, At, Calm, Still, Event
  <1>2. CASE req[c].alone
    <2>1. Become(c, Idle) /\ UNCHANGED locks
      BY <1>2 DEF ComputeFails
    <2>2. Others(c) /\ Ended(c) /\ req'[c].age = 0 /\ req'[c].off = 0
      BY <2>1, BecomeOne, IdleType DEF Ended
    <2>. QED  BY <1>1, <1>2, <2>1, <2>2
  <1>3. CASE ~req[c].alone
    <2>1. /\ Release(c)
          /\ req' = [d \in Clients |-> IF d = c THEN [Failing(c) EXCEPT !.at = "retry"]
                                       ELSE IF Owns(c) /\ Waits(d, c) THEN Failing(d) ELSE req[d]]
      BY <1>3 DEF ComputeFails
    <2>2. req'[c] = [Failing(c) EXCEPT !.at = "retry"]
      BY <2>1
    <2>3. req'[c].at = "retry" /\ req'[c].failed /\ Carried(c)
      BY <2>2, FailingFacts DEF Carried
    <2>4. ASSUME NEW d \in Clients \ {c}
          PROVE  IF Owns(c) /\ Waits(d, c) THEN LetDown(d) ELSE req'[d] = req[d]
      <3>1. CASE Owns(c) /\ Waits(d, c)
        <4>1. req'[d] = Failing(d) /\ req[d].at \in {"lock", "retry"}
          BY <2>1, <2>4, <3>1 DEF Waits
        <4>2. LetDown(d)
          BY <4>1, FailingFacts DEF LetDown, Goes, Carried
        <4>. QED  BY <3>1, <4>2
      <3>2. CASE ~(Owns(c) /\ Waits(d, c))
        <4>1. req'[d] = req[d]
          BY <2>1, <2>4, <3>2
        <4>. QED  BY <3>2, <4>1
      <3>. QED  BY <3>1, <3>2
    <2>. QED  BY <1>1, <1>3, <2>1, <2>3, <2>4
  <1>. QED  BY <1>2, <1>3

LEMMA RetryStep ==
  ASSUME Types, Expiry, NEW c \in Clients, Retry(c)
  PROVE  /\ Others(c) /\ req[c].at = "retry" /\ Still /\ UNCHANGED <<events, entries, locks>>
         /\ \/ CacheHit(c)
            \/ /\ ~Live(K(c)) /\ req'[c].at = "compute" /\ Carried(c) /\ req'[c].from = now
               /\ req'[c].alone = TRUE /\ ~req'[c].known
  <1>1. req[c].at = "retry" /\ Still /\ UNCHANGED <<events, locks>>
    BY DEF Retry, At, Calm, Still
  <1>2. \/ Hit(c)
        \/ ~Live(K(c)) /\ Compute(c, TRUE) /\ UNCHANGED entries
    BY DEF Retry
  <1>. QED  BY <1>1, <1>2, HitFacts, Started DEF At, CacheHit

LEMMA OutageStep ==
  ASSUME Types, Outage
  PROVE  /\ UNCHANGED <<now, warmer>> /\ redis' = ~redis /\ kept' = {} /\ polled' = << >>
         /\ events < MaxEvents /\ events' = events + 1
         /\ \/ UNCHANGED <<entries, markers, locks>>
            \/ entries' = << >> /\ markers' = << >> /\ locks' = << >>
         /\ \A c \in Clients :
              \/ req[c].at = "idle" /\ req'[c] = req[c]
              \/ /\ req[c].at # "idle" /\ req'[c].cut = TRUE /\ req'[c] \in Req
                 /\ req'[c].at = req[c].at /\ req'[c].spec = req[c].spec
                 /\ req'[c].since = req[c].since /\ req'[c].from = req[c].from
                 /\ req'[c].alone = req[c].alone /\ req'[c].known = req[c].known
                 /\ req'[c].age = req[c].age /\ req'[c].off = req[c].off
  <1>1. \A r \in Req : LET q == [r EXCEPT !.cut = TRUE] IN
          /\ q \in Req /\ q.at = r.at /\ q.spec = r.spec /\ q.since = r.since /\ q.from = r.from
          /\ q.alone = r.alone /\ q.known = r.known /\ q.age = r.age /\ q.off = r.off
          /\ q.cut = TRUE
    BY DEF Req
  <1>2. \A c \in Clients : req'[c] = IF req[c].at = "idle" THEN req[c] ELSE [req[c] EXCEPT !.cut = TRUE]
    BY DEF Outage, At
  <1>3. \A c \in Clients : req[c] \in Req
    BY ReqTypes
  <1>4. \A c \in Clients :
              \/ req[c].at = "idle" /\ req'[c] = req[c]
              \/ /\ req[c].at # "idle" /\ req'[c].cut = TRUE /\ req'[c] \in Req
                 /\ req'[c].at = req[c].at /\ req'[c].spec = req[c].spec
                 /\ req'[c].since = req[c].since /\ req'[c].from = req[c].from
                 /\ req'[c].alone = req[c].alone /\ req'[c].known = req[c].known
                 /\ req'[c].age = req[c].age /\ req'[c].off = req[c].off
    <2> TAKE c \in Clients
    <2>1. CASE req[c].at = "idle"
      BY <1>2, <2>1
    <2>2. CASE req[c].at # "idle"
      <3>1. req'[c] = [req[c] EXCEPT !.cut = TRUE] /\ req[c] \in Req
        BY <1>2, <1>3, <2>2
      <3>. QED  BY <1>1, <2>2, <3>1
    <2>. QED  BY <2>1, <2>2
  <1>5. /\ UNCHANGED <<now, warmer>> /\ redis' = ~redis /\ kept' = {} /\ polled' = << >>
        /\ events < MaxEvents /\ events' = events + 1
        /\ \/ UNCHANGED <<entries, markers, locks>>
           \/ entries' = << >> /\ markers' = << >> /\ locks' = << >>
    BY DEF Outage, Event, store
  <1>. QED  BY <1>4, <1>5

LEMMA TickStep ==
  ASSUME Types, Tick
  PROVE  /\ now' = now + 1 /\ now < MaxTime /\ now < warmer.due /\ UNCHANGED <<redis, warmer, events>>
         /\ warmer.at = "idle" \/ (warmer.at = "compute" /\ now - warmer.from < MaxWarm)
         /\ entries' = Unexpired(entries, now + 1) /\ markers' = Unexpired(markers, now + 1)
         /\ locks' = Unexpired(locks, now + 1) /\ polled' = Unexpired(polled, now + 1)
         /\ kept' = (kept \cap DOMAIN polled') \ Late(now + 1)
         /\ \A c \in Clients :
              \/ req[c].at = "idle" /\ req'[c] = Idle
              \/ /\ req[c].at = "lock" /\ now - req[c].since < Blocking /\ Goes(c, "lock", "lock")
                 /\ redis /\ K(c) \in DOMAIN locks
                 /\ K(c) \in DOMAIN locks' \/ req'[c].failed
                 /\ K(c) \in DOMAIN locks' => req'[c] = req[c]
              \/ req[c].at = "compute" /\ now - req[c].from < MaxCompute /\ req'[c] = req[c]
  <1>1. /\ now' = now + 1 /\ now < MaxTime /\ now < warmer.due /\ UNCHANGED <<redis, warmer, events>>
        /\ warmer.at = "idle" \/ (warmer.at = "compute" /\ now - warmer.from < MaxWarm)
        /\ entries' = Unexpired(entries, now + 1) /\ markers' = Unexpired(markers, now + 1)
        /\ locks' = Unexpired(locks, now + 1) /\ polled' = Unexpired(polled, now + 1)
        /\ kept' = (kept \cap DOMAIN polled') \ Late(now + 1)
    BY DEF Tick
  <1>2. ASSUME NEW c \in Clients
        PROVE  \/ req[c].at = "idle" /\ req'[c] = Idle
               \/ /\ req[c].at = "lock" /\ now - req[c].since < Blocking /\ Goes(c, "lock", "lock")
                  /\ redis /\ K(c) \in DOMAIN locks
                  /\ K(c) \in DOMAIN locks' \/ req'[c].failed
                  /\ K(c) \in DOMAIN locks' => req'[c] = req[c]
               \/ req[c].at = "compute" /\ now - req[c].from < MaxCompute /\ req'[c] = req[c]
    <2>1. /\ \/ req[c].at = "idle"
             \/ /\ req[c].at = "lock" /\ redis /\ K(c) \in DOMAIN locks
                /\ now - req[c].since < Blocking
             \/ req[c].at = "compute" /\ now - req[c].from < MaxCompute
          /\ req'[c] = IF req[c].at = "idle" THEN Idle
                       ELSE IF req[c].at = "lock" /\ K(c) \notin DOMAIN locks' THEN Failing(c) ELSE req[c]
      BY DEF Tick, At, Outlasted
    <2>2. CASE req[c].at = "lock"
      <3>1. \/ K(c) \notin DOMAIN locks' /\ req'[c] = Failing(c)
            \/ K(c) \in DOMAIN locks' /\ req'[c] = req[c]
        BY <2>1, <2>2
      <3>2. Goes(c, "lock", "lock") /\ (K(c) \in DOMAIN locks' \/ req'[c].failed)
        BY <2>2, <3>1, FailingFacts, ReqTypes DEF Goes, Carried
      <3>. QED  BY <2>1, <2>2, <3>1, <3>2
    <2>. QED  BY <2>1, <2>2
  <1>. QED  BY <1>1, <1>2

-----------------------------------------------------------------------------
(* The actions of the warmer                                               *)

Warmer == [at : {"idle", "next", "compute"}, todo : SUBSET Specs,
           spec : Specs \cup {None}, from : Nat, due : Nat]
Aside  == UNCHANGED <<now, redis, locks, markers, req>>

LEMMA FiniteMarked ==
  ASSUME Types
  PROVE  IsFiniteSet({markers[g].spec : g \in DOMAIN markers})
  <1>. DEFINE D == DOMAIN markers
              T == {markers[g].spec : g \in D}
              f == [g \in D |-> markers[g].spec]
  <1>1. f \in Surjection(D, T)
    BY DEF Surjection
  <1>2. IsFiniteSet(D)
    BY DEF Types
  <1>. HIDE DEF D, T, f
  <1>3. IsFiniteSet(T)
    BY <1>1, <1>2, FS_Surjection
  <1>. QED  BY <1>3 DEF T, D

LEMMA WarmRunStep ==
  ASSUME Types, WarmRun
  PROVE  /\ Aside /\ warmer.at = "idle" /\ now >= warmer.due /\ UNCHANGED <<entries, polled, events>>
         /\ warmer' \in Warmer /\ warmer'.at = "next" /\ warmer'.due = warmer.due + WarmEvery
         /\ IsFiniteSet(warmer'.todo) /\ Cardinality(warmer'.todo) \in 0..MaxPerCycle
         /\ kept' \subseteq kept
         /\ redis => \A g \in DOMAIN markers :
                       markers[g].spec \in kept' => markers[g].spec \in warmer'.todo
  <1>. DEFINE specs == IF redis THEN {markers[g].spec : g \in DOMAIN markers} ELSE {}
  <1>1. warmer.at = "idle" /\ now >= warmer.due /\ UNCHANGED <<entries, polled, events>>
    BY DEF WarmRun
  <1>2. PICK todo \in Cycle(specs) :
          /\ Warmth([warmer EXCEPT !.at = "next", !.todo = todo, !.due = @ + WarmEvery])
          /\ kept' = kept \ (specs \ todo)
    BY DEF WarmRun
  <1>3. IsFiniteSet(specs)
    BY FiniteMarked, FS_EmptySet
  <1>4. specs \subseteq Specs
    BY DEF Types, TypeOK
  <1>5. redis => \A g \in DOMAIN markers : markers[g].spec \in specs
    OBVIOUS
  <1>. HIDE DEF specs
  <1>6. todo \subseteq specs /\ Cardinality(todo) <= MaxPerCycle
    <2>1. CASE Cardinality(specs) <= MaxPerCycle
      BY <1>2, <2>1 DEF Cycle
    <2>2. CASE ~(Cardinality(specs) <= MaxPerCycle)
      <3>1. todo \in kSubset(MaxPerCycle, specs)
        BY <1>2, <2>2 DEF Cycle
      <3>. QED  BY <3>1, Delays DEF kSubset
    <2>. QED  BY <2>1, <2>2
  <1>7. IsFiniteSet(todo) /\ Cardinality(todo) \in Nat
    BY <1>3, <1>6, FS_Subset, FS_CardinalityType
  <1>8. /\ Aside
        /\ warmer' = [warmer EXCEPT !.at = "next", !.todo = todo, !.due = @ + WarmEvery]
    BY <1>2 DEF Warmth, Aside
  <1>9. /\ warmer' \in Warmer /\ warmer'.at = "next" /\ warmer'.todo = todo
        /\ warmer'.due = warmer.due + WarmEvery
    <2>. DEFINE due == warmer.due + WarmEvery
    <2>1. warmer \in Warmer /\ due \in Nat /\ todo \in SUBSET Specs
      BY <1>4, <1>6, Delays DEF Types, Warmer
    <2>3. warmer' = [warmer EXCEPT !.at = "next", !.todo = todo, !.due = due]
      BY <1>8
    <2>. DEFINE v == [warmer EXCEPT !.at = "next", !.todo = todo, !.due = due]
    <2>. HIDE DEF due
    <2>2. /\ DOMAIN v = {"at", "todo", "spec", "from", "due"} /\ v.at = "next" /\ v.todo = todo /\ v.due = due
          /\ v.spec = warmer.spec /\ v.from = warmer.from
      BY <2>1 DEF Warmer
    <2>4. v \in Warmer /\ v.at = "next" /\ v.todo = todo /\ v.due = due
      BY <2>1, <2>2 DEF Warmer
    <2>5. warmer' = v
      BY <2>3
    <2>. HIDE DEF v
    <2>. QED  BY <2>4, <2>5 DEF due
  <1>10. Cardinality(todo) \in 0..MaxPerCycle
    BY <1>6, <1>7, Delays
  <1>11. kept' \subseteq kept /\ (\A s \in specs : s \in kept' => s \in todo)
    BY <1>2
  <1>. QED  BY <1>1, <1>5, <1>7, <1>8, <1>9, <1>10, <1>11

LEMMA WarmSkippedStep ==
  ASSUME Types, WarmSkipped
  PROVE  /\ Aside /\ warmer.at # "idle" /\ now >= warmer.due /\ UNCHANGED <<entries, polled, events>>
         /\ kept' = {} /\ warmer' \in Warmer /\ warmer'.due = warmer.due + WarmEvery
         /\ warmer'.at = warmer.at /\ warmer'.todo = warmer.todo /\ warmer'.spec = warmer.spec
         /\ warmer'.from = warmer.from
  <1>. DEFINE due == warmer.due + WarmEvery
  <1>1. /\ Aside /\ warmer.at # "idle" /\ now >= warmer.due /\ UNCHANGED <<entries, polled, events>>
        /\ kept' = {} /\ warmer' = [warmer EXCEPT !.due = due]
    BY DEF WarmSkipped, Warmth, Aside
  <1>2. warmer \in Warmer /\ due \in Nat
    BY Delays DEF Types, Warmer
  <1>3. \A w \in Warmer, n \in Nat : LET v == [w EXCEPT !.due = n] IN
          /\ v \in Warmer /\ v.due = n /\ v.at = w.at /\ v.todo = w.todo
          /\ v.spec = w.spec /\ v.from = w.from
    BY DEF Warmer
  <1>. HIDE DEF due
  <1>4. /\ warmer' \in Warmer /\ warmer'.due = due /\ warmer'.at = warmer.at
        /\ warmer'.todo = warmer.todo /\ warmer'.spec = warmer.spec /\ warmer'.from = warmer.from
    BY <1>1, <1>2, <1>3
  <1>. QED  BY <1>1, <1>4 DEF due

LEMMA WarmSpecStep ==
  ASSUME Types, WarmSpec
  PROVE  /\ Aside /\ warmer.at = "next" /\ UNCHANGED <<entries, kept, polled, events>>
         /\ warmer' \in Warmer /\ warmer'.due = warmer.due
         /\ \/ \E s \in warmer.todo : /\ warmer'.at = "compute" /\ warmer'.todo = warmer.todo \ {s}
                                      /\ warmer'.spec = s /\ warmer'.from = now
            \/ warmer.todo = {} /\ warmer'.at = "idle" /\ warmer'.todo = {}
  <1>1. warmer.at = "next" /\ UNCHANGED <<entries, kept, polled, events>>
    BY DEF WarmSpec
  <1>2. warmer \in Warmer /\ now \in Nat
    BY DEF Types, Warmer, TypeOK
  <1>3. CASE warmer.todo = {} /\ Warmth([warmer EXCEPT !.at = "idle"])
    <2>1. Aside /\ warmer' = [warmer EXCEPT !.at = "idle"]
      BY <1>3 DEF Warmth, Aside
    <2>2. LET v == [warmer EXCEPT !.at = "idle"]
          IN  v \in Warmer /\ v.at = "idle" /\ v.due = warmer.due /\ v.todo = warmer.todo
      BY <1>2 DEF Warmer
    <2>. QED  BY <1>1, <1>3, <2>1, <2>2
  <1>4. ASSUME NEW s \in warmer.todo,
               Warmth([warmer EXCEPT !.at = "compute", !.todo = @ \ {s}, !.spec = s, !.from = now])
        PROVE  /\ Aside /\ warmer' \in Warmer /\ warmer'.due = warmer.due
               /\ warmer'.at = "compute" /\ warmer'.todo = warmer.todo \ {s}
               /\ warmer'.spec = s /\ warmer'.from = now
    <2>1. Aside
      BY <1>4 DEF Warmth, Aside
    <2>2. warmer' = [warmer EXCEPT !.at = "compute", !.todo = warmer.todo \ {s}, !.spec = s, !.from = now]
      BY <1>4 DEF Warmth
    <2>3. s \in Specs /\ warmer.todo \ {s} \in SUBSET Specs
      BY <1>2 DEF Warmer
    <2>4. \A w \in Warmer, t \in SUBSET Specs :
            LET v == [w EXCEPT !.at = "compute", !.todo = t, !.spec = s, !.from = now]
            IN  /\ v \in Warmer /\ v.at = "compute" /\ v.due = w.due /\ v.todo = t
                /\ v.spec = s /\ v.from = now
      BY <1>2, <2>3 DEF Warmer
    <2>. QED  BY <1>2, <2>1, <2>2, <2>3, <2>4
  <1>5. \/ warmer.todo = {} /\ Warmth([warmer EXCEPT !.at = "idle"])
        \/ \E s \in warmer.todo :
             Warmth([warmer EXCEPT !.at = "compute", !.todo = @ \ {s}, !.spec = s, !.from = now])
    BY DEF WarmSpec
  <1>. QED  BY <1>1, <1>3, <1>4, <1>5

\* After a computation, whether it failed or not
WarmNext == /\ Aside /\ warmer.at = "compute" /\ UNCHANGED polled
            /\ warmer' \in Warmer /\ warmer'.at = "next" /\ warmer'.todo = warmer.todo
            /\ warmer'.due = warmer.due

LEMMA WarmNextFacts ==
  ASSUME Types, warmer.at = "compute", Warmth(Between), UNCHANGED polled
  PROVE  WarmNext
  <1>1. Aside /\ warmer' = [warmer EXCEPT !.at = "next", !.spec = None, !.from = 0]
    BY DEF Warmth, Aside, Between
  <1>2. \A w \in Warmer : LET v == [w EXCEPT !.at = "next", !.spec = None, !.from = 0]
                          IN  v \in Warmer /\ v.at = "next" /\ v.todo = w.todo /\ v.due = w.due
    BY DEF Warmer
  <1>3. warmer \in Warmer
    BY DEF Types, Warmer
  <1>. QED  BY <1>1, <1>2, <1>3 DEF WarmNext

LEMMA WarmedStep ==
  ASSUME Types, Warmed
  PROVE  /\ WarmNext /\ UNCHANGED events
         /\ Fill(Key(warmer.spec), Ends(warmer.spec.window, warmer.from))
         /\ kept' = IF redis THEN kept \cup ({warmer.spec} \cap DOMAIN polled) ELSE kept
  BY WarmNextFacts DEF Warmed

LEMMA WarmFailsStep ==
  ASSUME Types, WarmFails
  PROVE  WarmNext /\ UNCHANGED entries /\ kept' = kept \ {warmer.spec} /\ events' = events + 1 /\ events < MaxEvents
  BY WarmNextFacts DEF WarmFails, Event

-----------------------------------------------------------------------------
(* The parts of the invariant                                              *)

\* The prover's view of the next-state relation
LEMMA NextCases ==
  ASSUME [Next]_vars
  PROVE  \/ \E c \in Clients : Get(c) \/ Acquire(c) \/ GiveUp(c) \/ Check(c) \/ Computed(c)
                                 \/ ComputeFails(c) \/ Retry(c)
         \/ \E c \in Clients, s \in Specs : Ask(c, s)
         \/ WarmRun \/ WarmSkipped \/ WarmSpec \/ Warmed \/ WarmFails \/ Outage \/ Tick
         \/ UNCHANGED vars
  BY DEF Next, Step

\* An entry that a computation fills
LEMMA FillFacts ==
  ASSUME NEW k, NEW ends, Fill(k, ends)
  PROVE  \/ ~redis /\ entries' = entries
         \/ /\ redis /\ DOMAIN entries' = DOMAIN entries \cup {k}
            /\ entries'[k] = [ends |-> ends, until |-> now + TTL]
            /\ \A j \in DOMAIN entries : j # k => entries'[j] = entries[j]
  <1>. DEFINE v == [ends |-> ends, until |-> now + TTL]
  <1>1. CASE redis
    <2>1. entries' = Put(entries, k, v)
      BY <1>1 DEF Fill
    <2>. HIDE DEF v
    <2>2. /\ DOMAIN entries' = DOMAIN entries \cup {k} /\ entries'[k] = v
          /\ \A j \in DOMAIN entries : j # k => entries'[j] = entries[j]
      BY <2>1 DEF Put
    <2>. QED  BY <1>1, <2>2 DEF v
  <1>2. CASE ~redis
    BY <1>2 DEF Fill
  <1>. QED  BY <1>1, <1>2

LEMMA CyclesStep ==
  ASSUME Types, Cycles, [Next]_vars
  PROVE  Cycles'
  <1>0. /\ now \in Nat /\ warmer.due \in Nat /\ warmer.from \in Nat
        /\ IsFiniteSet(warmer.todo) /\ warmer.todo \subseteq Specs
    BY DEF Types, TypeOK, Cycles
  <1>1. CASE UNCHANGED <<now, warmer>>
    BY <1>1 DEF Cycles
  <1>2. CASE WarmRun
    <2>1. /\ warmer'.at = "next" /\ warmer'.due = warmer.due + WarmEvery /\ now' = now
          /\ IsFiniteSet(warmer'.todo) /\ now = warmer.due
      BY <1>0, <1>2, WarmRunStep DEF Aside, Cycles
    <2>. QED  BY <1>0, <2>1, Delays DEF Cycles
  <1>3. CASE WarmSkipped
    <2>1. /\ warmer'.due = warmer.due + WarmEvery /\ now' = now /\ now = warmer.due
          /\ warmer'.at = warmer.at /\ warmer'.todo = warmer.todo /\ warmer'.spec = warmer.spec
          /\ warmer'.from = warmer.from
      BY <1>0, <1>3, WarmSkippedStep DEF Aside, Cycles
    <2>. QED  BY <1>0, <2>1, Delays DEF Cycles
  <1>4. CASE WarmSpec
    <2>1. now' = now /\ warmer'.due = warmer.due /\ warmer.at = "next"
      BY <1>4, WarmSpecStep DEF Aside
    <2>2. CASE warmer'.at = "idle" /\ warmer'.todo = {}
      BY <2>1, <2>2, FS_EmptySet DEF Cycles
    <2>3. ASSUME NEW s \in warmer.todo, warmer'.at = "compute", warmer'.todo = warmer.todo \ {s},
                 warmer'.spec = s, warmer'.from = now
          PROVE  Cycles'
      <3>1. IsFiniteSet(warmer'.todo) /\ s \in Specs /\ s \notin warmer'.todo /\ MaxWarm \in Nat
        BY <1>0, <2>3, FS_RemoveElement, Delays
      <3>. QED  BY <1>0, <2>1, <2>3, <3>1 DEF Cycles
    <2>. QED  BY <1>4, <2>2, <2>3, WarmSpecStep
  <1>5. CASE WarmNext
    BY <1>5 DEF WarmNext, Aside, Cycles
  <1>6. CASE Tick
    <2>1. /\ now' = now + 1 /\ now < warmer.due /\ warmer' = warmer
          /\ warmer.at = "idle" \/ (warmer.at = "compute" /\ now - warmer.from < MaxWarm)
      BY <1>6, TickStep
    <2>. QED  BY <1>0, <2>1, Delays DEF Cycles
  <1>7. \/ UNCHANGED <<now, warmer>> \/ WarmRun \/ WarmSkipped \/ WarmSpec \/ WarmNext \/ Tick
    <2>1. ASSUME NEW c \in Clients,
                 Get(c) \/ Acquire(c) \/ GiveUp(c) \/ Check(c) \/ Computed(c) \/ ComputeFails(c) \/ Retry(c)
          PROVE  UNCHANGED <<now, warmer>>
      BY <2>1 DEF Get, Acquire, GiveUp, Check, Computed, ComputeFails, Retry, Calm
    <2>2. ASSUME NEW c \in Clients, NEW s \in Specs, Ask(c, s) PROVE UNCHANGED <<now, warmer>>
      BY <2>2 DEF Ask
    <2>. QED  BY <2>1, <2>2, NextCases, WarmedStep, WarmFailsStep, OutageStep DEF vars
  <1>. QED  BY <1>1, <1>2, <1>3, <1>4, <1>5, <1>6, <1>7

-----------------------------------------------------------------------------
(* What a step does to a client, and to the entries                        *)

\* From one step of a request to the next
Passes(c) ==
  \/ LetDown(c)
  \/ Goes(c, "get", "lock") \/ Goes(c, "lock", "check")
  \/ /\ Goes(c, "lock", "retry") /\ req'[c].failed = req[c].failed
     /\ ~redis \/ now - req[c].since >= Blocking
  \/ Goes(c, "compute", "retry") /\ ~req[c].alone /\ req'[c].failed
  \/ Goes(c, "check", "compute") /\ req'[c].from = now /\ ~req'[c].alone /\ ~req'[c].known
  \/ Goes(c, "retry", "compute") /\ req'[c].from = now /\ req'[c].alone

\* The request ends, with an answer or without.
Returns(c) ==
  /\ req[c].at # "idle" /\ Ended(c)
  /\ \/ req'[c].age = 0 /\ req'[c].off = 0
     \/ CacheHit(c)
     \/ req[c].at = "compute" /\ AnsweredWith(c, Asked(c))

Begins(c) ==
  /\ req[c].at = "idle" /\ req'[c].at = "get" /\ req'[c] \in Req /\ req'[c].spec \in Specs
  /\ req'[c].since = now /\ (req'[c].warm <=> req'[c].spec \in kept)
  /\ req'[c].age = 0 /\ req'[c].off = 0 /\ (req'[c].cut <=> ~redis) /\ UNCHANGED entries

LEMMA Moves ==
  ASSUME Types, Expiry, [Next]_vars, NEW c \in Clients
  PROVE  \/ UNCHANGED now /\ (req'[c] = req[c] \/ Passes(c) \/ Returns(c) \/ Begins(c))
         \/ Outage \/ Tick
  <1>1. ASSUME NEW d \in Clients,
               Get(d) \/ Acquire(d) \/ GiveUp(d) \/ Check(d) \/ Computed(d) \/ ComputeFails(d) \/ Retry(d)
        PROVE  /\ UNCHANGED now /\ (Passes(d) \/ Returns(d))
               /\ \A x \in Clients \ {d} : req'[x] = req[x] \/ LetDown(x)
    <2>1. CASE Get(d)
      BY <2>1, GetStep DEF Others, Still, Passes, Returns, Goes, CacheHit, AnsweredWith
    <2>2. CASE Acquire(d)
      BY <2>2, AcquireStep DEF Others, Still, Passes, Goes
    <2>3. CASE GiveUp(d)
      BY <2>3, GiveUpStep DEF Others, Still, Passes, Goes
    <2>4. CASE Check(d)
      BY <2>4, CheckStep DEF Others, Still, Passes, Returns, Goes, CacheHit, AnsweredWith
    <2>5. CASE Computed(d)
      BY <2>5, ComputedStep DEF Others, Still, Passes, Returns, Goes, AnsweredWith
    <2>6. CASE ComputeFails(d)
      BY <2>6, FailStep DEF Others, Still, Passes, Returns, Goes
    <2>7. CASE Retry(d)
      BY <2>7, RetryStep DEF Others, Still, Passes, Returns, Goes, CacheHit, AnsweredWith
    <2>. QED  BY <1>1, <2>1, <2>2, <2>3, <2>4, <2>5, <2>6, <2>7
  <1>2. ASSUME NEW d \in Clients, NEW s \in Specs, Ask(d, s)
        PROVE  UNCHANGED now /\ Others(d) /\ Begins(d)
    BY <1>2, AskStep DEF Begins
  <1>3. CASE WarmRun \/ WarmSkipped \/ WarmSpec \/ Warmed \/ WarmFails \/ UNCHANGED vars
    BY <1>3, WarmRunStep, WarmSkippedStep, WarmSpecStep, WarmedStep, WarmFailsStep DEF Aside, WarmNext, vars
  <1>4. \A d \in Clients : Others(d) => req'[c] = req[c] \/ d = c
    BY DEF Others
  <1>5. LetDown(c) => Passes(c)
    BY DEF Passes
  <1>. QED  BY <1>1, <1>2, <1>3, <1>4, <1>5, NextCases

\* How old what fills an entry may be
Lag == IF Blocking + 2 * MaxCompute < MaxWarm THEN MaxWarm ELSE Blocking + 2 * MaxCompute

\* An answer, to the spec s as of the time t, is put into the cache.
Filling(s, t) == /\ Fill(Key(s), Ends(s.window, t)) /\ Ends(s.window, t) \in Nat
                 /\ t <= now /\ now - t <= Lag

LEMMA Fills ==
  ASSUME Types, Expiry, Pace, Cycles, [Next]_vars
  PROVE  \/ UNCHANGED <<now, entries>>
         \/ UNCHANGED now /\ entries' = << >> /\ Outage
         \/ UNCHANGED <<now, redis>> /\ \E s \in Specs, t \in Nat : Filling(s, t)
         \/ Tick
  <1>1. ASSUME NEW c \in Clients,
               Get(c) \/ Acquire(c) \/ GiveUp(c) \/ Check(c) \/ ComputeFails(c) \/ Retry(c)
        PROVE  UNCHANGED <<now, entries>>
    BY <1>1, GetStep, AcquireStep, GiveUpStep, CheckStep, FailStep, RetryStep DEF Still
  <1>2. ASSUME NEW c \in Clients, Computed(c)
        PROVE  UNCHANGED <<now, redis>> /\ \E s \in Specs, t \in Nat : Filling(s, t)
    <2>. DEFINE s == req[c].spec
                t == req[c].since
    <2>1. /\ UNCHANGED <<now, redis>> /\ req[c].at = "compute" /\ Asked(c) \in Nat
          /\ Fill(Key(s), Ends(s.window, t))
      BY <1>2, ComputedStep DEF Still, Asked, K
    <2>2. s \in Specs /\ t \in Nat /\ req[c].from \in Nat /\ req[c].alone \in BOOLEAN /\ now \in Nat
      BY <2>1, ReqTypes DEF At, Req
    <2>3. /\ t <= req[c].from /\ req[c].from <= now /\ now - req[c].from <= MaxCompute
          /\ req[c].from - t <= Blocking + MaxCompute
      BY <2>1, <2>2, Delays DEF Pace
    <2>4. t <= now /\ now - t <= Lag
      BY <2>2, <2>3, Delays DEF Lag
    <2>. QED  BY <2>1, <2>2, <2>4 DEF Filling, Asked
  <1>3. ASSUME NEW c \in Clients, NEW s \in Specs, Ask(c, s) PROVE UNCHANGED <<now, entries>>
    BY <1>3, AskStep
  <1>4. CASE Warmed
    <2>. DEFINE s == warmer.spec
                t == warmer.from
    <2>1. UNCHANGED <<now, redis>> /\ warmer.at = "compute" /\ Fill(Key(s), Ends(s.window, t))
      BY <1>4, WarmedStep DEF WarmNext, Aside
    <2>2. s \in Specs /\ t \in Nat /\ now \in Nat /\ t <= now /\ now - t <= MaxWarm
      BY <2>1 DEF Cycles, Types, TypeOK
    <2>3. now - t <= Lag
      BY <2>2, Delays DEF Lag
    <2>4. Ends(s.window, t) \in Nat
      BY <2>2, SpecTypes DEF Ends
    <2>. QED  BY <2>1, <2>2, <2>3, <2>4 DEF Filling
  <1>5. CASE WarmRun \/ WarmSkipped \/ WarmSpec \/ WarmFails \/ UNCHANGED vars
    BY <1>5, WarmRunStep, WarmSkippedStep, WarmSpecStep, WarmFailsStep DEF Aside, WarmNext, vars, store
  <1>6. CASE Outage
    BY <1>6, OutageStep
  <1>. QED  BY <1>1, <1>2, <1>3, <1>4, <1>5, <1>6, NextCases

\* Release frees no lock but the client's own.
LEMMA ReleaseFacts ==
  ASSUME NEW c \in Clients, Release(c)
  PROVE  /\ DOMAIN locks' \subseteq DOMAIN locks
         /\ \A k \in DOMAIN locks' : locks'[k] = locks[k]
         /\ \A k \in DOMAIN locks : k \in DOMAIN locks' \/ locks[k].owner = c
  <1>1. CASE Owns(c)
    <2>1. locks' = [k \in DOMAIN locks \ {K(c)} |-> locks[k]] /\ locks[K(c)].owner = c
      BY <1>1 DEF Release, Owns
    <2>. QED  BY <2>1
  <1>2. CASE ~Owns(c)
    BY <1>2 DEF Release
  <1>. QED  BY <1>1, <1>2

-----------------------------------------------------------------------------
(* Each part is inductive, by what the parts before it say                 *)

\* What Filling does to the entries: one is new, the others stay.
LEMMA FilledEntries ==
  ASSUME NEW s \in Specs, NEW t \in Nat, Filling(s, t), now \in Nat,
         NEW k \in DOMAIN entries'
  PROVE  \/ k \in DOMAIN entries /\ entries'[k] = entries[k]
         \/ /\ k = Key(s) /\ entries'[k].ends = Ends(s.window, t)
            /\ entries'[k].until = now + TTL
  <1>1. CASE ~redis /\ entries' = entries
    BY <1>1
  <1>2. CASE /\ DOMAIN entries' = DOMAIN entries \cup {Key(s)}
             /\ entries'[Key(s)] = [ends |-> Ends(s.window, t), until |-> now + TTL]
             /\ \A j \in DOMAIN entries : j # Key(s) => entries'[j] = entries[j]
    BY <1>2
  <1>. QED  BY <1>1, <1>2, FillFacts DEF Filling

LEMMA EntriesStep ==
  ASSUME Types, Expiry, Pace, Cycles, [Next]_vars
  PROVE  EntriesLive'
  <1>0. now \in Nat /\ TTL \in Nat \ {0} /\ now + TTL \in now + 1..now + TTL
    BY Delays DEF Types, TypeOK
  <1>1. CASE UNCHANGED <<now, entries>>
    BY <1>1 DEF Expiry, EntriesLive
  <1>2. CASE entries' = << >>
    BY <1>2 DEF EntriesLive
  <1>3. ASSUME UNCHANGED now, NEW s \in Specs, NEW t \in Nat, Filling(s, t)
        PROVE  EntriesLive'
    <2>1. ASSUME NEW k \in DOMAIN entries'
          PROVE  entries'[k].until \in now + 1..now + TTL /\ entries'[k].ends \in Nat
      <3>1. CASE k \in DOMAIN entries /\ entries'[k] = entries[k]
        BY <3>1 DEF Expiry, EntriesLive
      <3>2. CASE entries'[k].ends = Ends(s.window, t) /\ entries'[k].until = now + TTL
        BY <1>0, <1>3, <3>2 DEF Filling
      <3>. QED  BY <1>0, <1>3, <3>1, <3>2, FilledEntries
    <2>. QED  BY <1>3, <2>1 DEF EntriesLive
  <1>4. CASE Tick
    <2>1. now' = now + 1 /\ entries' = Unexpired(entries, now + 1)
      BY <1>4, TickStep
    <2>2. ASSUME NEW k \in DOMAIN entries'
          PROVE  entries'[k].until \in now' + 1..now' + TTL /\ entries'[k].ends \in Nat
      <3>1. k \in DOMAIN entries /\ entries'[k] = entries[k] /\ entries[k].until > now + 1
        BY <2>1 DEF Unexpired
      <3>2. entries[k].until \in now + 1..now + TTL /\ entries[k].ends \in Nat
        BY <3>1 DEF Expiry, EntriesLive
      <3>. QED  BY <1>0, <2>1, <3>1, <3>2
    <2>. QED  BY <2>2 DEF EntriesLive
  <1>. QED  BY <1>1, <1>2, <1>3, <1>4, Fills

\* How the locks change
LEMMA LockMoves ==
  ASSUME Types, Expiry, [Next]_vars
  PROVE  \/ UNCHANGED <<now, locks>>
         \/ UNCHANGED now /\ \E c \in Clients : Acquire(c) \/ Release(c)
         \/ Outage \/ Tick
  <1>1. ASSUME NEW c \in Clients,
               Get(c) \/ GiveUp(c) \/ Check(c) \/ Computed(c) \/ ComputeFails(c) \/ Retry(c)
        PROVE  UNCHANGED now /\ (UNCHANGED locks \/ Release(c))
    BY <1>1, GetStep, GiveUpStep, CheckStep, ComputedStep, FailStep, RetryStep DEF Still
  <1>2. ASSUME NEW c \in Clients, Acquire(c) PROVE UNCHANGED now
    BY <1>2, AcquireStep DEF Still
  <1>3. ASSUME NEW c \in Clients, NEW s \in Specs, Ask(c, s) PROVE UNCHANGED <<now, locks>>
    BY <1>3, AskStep
  <1>4. CASE WarmRun \/ WarmSkipped \/ WarmSpec \/ Warmed \/ WarmFails \/ UNCHANGED vars
    BY <1>4, WarmRunStep, WarmSkippedStep, WarmSpecStep, WarmedStep, WarmFailsStep DEF Aside, WarmNext, vars, store
  <1>. QED  BY <1>1, <1>2, <1>3, <1>4, NextCases

LEMMA LocksStep ==
  ASSUME Types, Expiry, [Next]_vars
  PROVE  LocksLive'
  <1>0. now \in Nat /\ LockTTL \in Nat \ {0} /\ now + LockTTL \in now + 1..now + LockTTL
    BY Delays DEF Types, TypeOK
  <1>1. CASE UNCHANGED <<now, locks>>
    BY <1>1 DEF Expiry, LocksLive
  <1>2. ASSUME UNCHANGED now, NEW c \in Clients, Release(c) PROVE LocksLive'
    BY <1>2, ReleaseFacts DEF Expiry, LocksLive
  <1>3. ASSUME UNCHANGED now, NEW c \in Clients, Acquire(c) PROVE LocksLive'
    <2>. DEFINE v == [owner |-> c, until |-> now + LockTTL]
    <2>1. locks' = Put(locks, K(c), v) /\ v.until \in now + 1..now + LockTTL
      BY <1>0, <1>3, AcquireStep
    <2>. HIDE DEF v
    <2>2. \A k \in DOMAIN locks' : \/ locks'[k] = v
                                   \/ k \in DOMAIN locks /\ locks'[k] = locks[k]
      BY <2>1 DEF Put
    <2>. QED  BY <1>3, <2>1, <2>2 DEF Expiry, LocksLive
  <1>4. CASE Outage
    BY <1>4, OutageStep DEF Expiry, LocksLive
  <1>5. CASE Tick
    <2>1. now' = now + 1 /\ locks' = Unexpired(locks, now + 1)
      BY <1>5, TickStep
    <2>2. ASSUME NEW k \in DOMAIN locks' PROVE locks'[k].until \in now' + 1..now' + LockTTL
      <3>1. k \in DOMAIN locks /\ locks'[k] = locks[k] /\ locks[k].until > now + 1
        BY <2>1 DEF Unexpired
      <3>2. locks[k].until \in now + 1..now + LockTTL
        BY <3>1 DEF Expiry, LocksLive
      <3>. QED  BY <1>0, <2>1, <3>1, <3>2
    <2>. QED  BY <2>2 DEF LocksLive
  <1>. QED  BY <1>1, <1>2, <1>3, <1>4, <1>5, LockMoves

\* The markers, and with them the ghost of who polled
LEMMA MarkerMoves ==
  ASSUME Types, Expiry, [Next]_vars
  PROVE  \/ UNCHANGED <<now, markers, polled>>
         \/ UNCHANGED <<now, kept, entries, warmer, redis>> /\ redis /\ \E s \in Specs :
              /\ Relative(s.window)
              /\ markers' = Put(markers, Sig(s), [spec |-> s, until |-> now + WarmTTL])
              /\ polled' = Put(polled, s, [until |-> now + WarmTTL])
         \/ Outage \/ Tick
  <1>1. ASSUME NEW c \in Clients,
               Get(c) \/ Acquire(c) \/ GiveUp(c) \/ Check(c) \/ Computed(c) \/ ComputeFails(c) \/ Retry(c)
        PROVE  UNCHANGED <<now, markers, polled>>
    BY <1>1, GetStep, AcquireStep, GiveUpStep, CheckStep, ComputedStep, FailStep, RetryStep DEF Still
  <1>2. CASE WarmRun \/ WarmSkipped \/ WarmSpec \/ Warmed \/ WarmFails \/ UNCHANGED vars
    BY <1>2, WarmRunStep, WarmSkippedStep, WarmSpecStep, WarmedStep, WarmFailsStep DEF Aside, WarmNext, vars, store
  <1>. QED  BY <1>1, <1>2, AskStep, NextCases

LEMMA MarkersStep ==
  ASSUME Types, Expiry, [Next]_vars
  PROVE  MarkersLive' /\ PolledLive' /\ IsFiniteSet(DOMAIN markers')
  <1>0. now \in Nat /\ WarmTTL \in Nat \ {0} /\ now + WarmTTL \in now + 1..now + WarmTTL
    BY Delays DEF Types, TypeOK
  <1>1. CASE UNCHANGED <<now, markers, polled>>
    BY <1>1 DEF Expiry, MarkersLive, PolledLive, Types
  <1>2. ASSUME UNCHANGED now, NEW s \in Specs,
               markers' = Put(markers, Sig(s), [spec |-> s, until |-> now + WarmTTL]),
               polled' = Put(polled, s, [until |-> now + WarmTTL])
        PROVE  MarkersLive' /\ PolledLive' /\ IsFiniteSet(DOMAIN markers')
    <2>. DEFINE v == [spec |-> s, until |-> now + WarmTTL]
                u == [until |-> now + WarmTTL]
    <2>1. v.until \in now + 1..now + WarmTTL /\ u.until \in now + 1..now + WarmTTL
      BY <1>0
    <2>2. markers' = Put(markers, Sig(s), v) /\ polled' = Put(polled, s, u)
      BY <1>2
    <2>. HIDE DEF u, v
    <2>3. /\ \A g \in DOMAIN markers' : \/ markers'[g] = v
                                        \/ g \in DOMAIN markers /\ markers'[g] = markers[g]
          /\ \A g \in DOMAIN polled' : \/ polled'[g] = u
                                       \/ g \in DOMAIN polled /\ polled'[g] = polled[g]
          /\ DOMAIN markers' = DOMAIN markers \cup {Sig(s)}
      BY <2>2 DEF Put
    <2>4. IsFiniteSet(DOMAIN markers')
      BY <2>3, FS_AddElement DEF Types
    <2>. QED  BY <1>2, <2>1, <2>3, <2>4 DEF Expiry, MarkersLive, PolledLive
  <1>3. CASE Outage
    <2>1. now' = now /\ polled' = << >> /\ (markers' = markers \/ markers' = << >>)
      BY <1>3, OutageStep
    <2>2. DOMAIN << >> = {}
      OBVIOUS
    <2>. QED  BY <2>1, <2>2, FS_EmptySet DEF Expiry, MarkersLive, PolledLive, Types
  <1>4. CASE Tick
    <2>1. /\ now' = now + 1 /\ markers' = Unexpired(markers, now + 1)
          /\ polled' = Unexpired(polled, now + 1)
      BY <1>4, TickStep
    <2>2. ASSUME NEW g \in DOMAIN markers' PROVE markers'[g].until \in now' + 1..now' + WarmTTL
      <3>1. g \in DOMAIN markers /\ markers'[g] = markers[g] /\ markers[g].until > now + 1
        BY <2>1 DEF Unexpired
      <3>2. markers[g].until \in now + 1..now + WarmTTL
        BY <3>1 DEF Expiry, MarkersLive
      <3>. QED  BY <1>0, <2>1, <3>1, <3>2
    <2>3. ASSUME NEW s \in DOMAIN polled' PROVE polled'[s].until \in now' + 1..now' + WarmTTL
      <3>1. s \in DOMAIN polled /\ polled'[s] = polled[s] /\ polled[s].until > now + 1
        BY <2>1 DEF Unexpired
      <3>2. polled[s].until \in now + 1..now + WarmTTL
        BY <3>1 DEF Expiry, PolledLive
      <3>. QED  BY <1>0, <2>1, <3>1, <3>2
    <2>4. IsFiniteSet(DOMAIN markers')
      <3>1. DOMAIN markers' \subseteq DOMAIN markers
        BY <2>1 DEF Unexpired
      <3>. QED  BY <3>1, FS_Subset DEF Types
    <2>. QED  BY <2>2, <2>3, <2>4 DEF MarkersLive, PolledLive
  <1>. QED  BY <1>1, <1>2, <1>3, <1>4, MarkerMoves

LEMMA BucketsStep ==
  ASSUME Types, Expiry, Pace, Cycles, Buckets, [Next]_vars
  PROVE  Buckets'
  <1>1. CASE UNCHANGED entries
    BY <1>1 DEF Buckets
  <1>2. CASE entries' = << >>
    BY <1>2 DEF Buckets
  <1>3. ASSUME NEW s \in Specs, NEW t \in Nat, Filling(s, t)
        PROVE  Buckets'
    <2>1. ASSUME NEW k \in DOMAIN entries', ~Relative(k[3])
          PROVE  Floor(entries'[k].ends) = k[3][3]
      <3>1. CASE k \in DOMAIN entries /\ entries'[k] = entries[k]
        BY <2>1, <3>1 DEF Buckets
      <3>2. CASE k = Key(s) /\ entries'[k].ends = Ends(s.window, t)
        BY <2>1, <3>2, KeyWindow
      <3>3. now \in Nat
        BY DEF Types, TypeOK
      <3>. QED  BY <1>3, <3>1, <3>2, <3>3, FilledEntries
    <2>. QED  BY <2>1 DEF Buckets
  <1>4. CASE Tick
    <2>1. \A k \in DOMAIN entries' : k \in DOMAIN entries /\ entries'[k] = entries[k]
      BY <1>4, TickStep DEF Unexpired
    <2>. QED  BY <2>1 DEF Buckets
  <1>. QED  BY <1>1, <1>2, <1>3, <1>4, Fills

\* FreshEnough, of the entries and of the answers
Bound == TTL + Lag
FreshEntries == \A k \in DOMAIN entries : Relative(k[3]) => entries[k].until - entries[k].ends <= Bound
FreshAnswers == \A c \in Clients : req[c].age < Bound /\ req[c].off < Bucket

LEMMA FreshParts == FreshEnough <=> FreshEntries /\ FreshAnswers
  BY DEF FreshEnough, FreshEntries, FreshAnswers, Bound, Lag

LEMMA LagType == Lag \in Nat /\ Bound \in Nat /\ Lag < Bound /\ 0 < Bound /\ 0 < Bucket
  BY Delays DEF Lag, Bound

LEMMA FreshEntriesStep ==
  ASSUME Types, Expiry, Pace, Cycles, FreshEntries, [Next]_vars
  PROVE  FreshEntries'
  <1>1. CASE UNCHANGED entries
    BY <1>1 DEF FreshEntries, Bound, Lag
  <1>2. CASE entries' = << >>
    BY <1>2 DEF FreshEntries
  <1>3. ASSUME NEW s \in Specs, NEW t \in Nat, Filling(s, t)
        PROVE  FreshEntries'
    <2>0. now \in Nat
      BY DEF Types, TypeOK
    <2>1. ASSUME NEW k \in DOMAIN entries', Relative(k[3])
          PROVE  entries'[k].until - entries'[k].ends <= Bound
      <3>1. CASE k \in DOMAIN entries /\ entries'[k] = entries[k]
        BY <2>1, <3>1 DEF FreshEntries
      <3>2. CASE /\ k = Key(s) /\ entries'[k].ends = Ends(s.window, t)
                 /\ entries'[k].until = now + TTL
        <4>1. entries'[k].ends = t
          BY <2>1, <3>2, KeyWindow
        <4>. QED  BY <1>3, <2>0, <3>2, <4>1, LagType, Delays DEF Filling, Bound
      <3>. QED  BY <1>3, <2>0, <3>1, <3>2, FilledEntries
    <2>. QED  BY <2>1 DEF FreshEntries, Bound, Lag
  <1>4. CASE Tick
    <2>1. \A k \in DOMAIN entries' : k \in DOMAIN entries /\ entries'[k] = entries[k]
      BY <1>4, TickStep DEF Unexpired
    <2>. QED  BY <2>1 DEF FreshEntries, Bound, Lag
  <1>. QED  BY <1>1, <1>2, <1>3, <1>4, Fills

LEMMA FreshAnswersStep ==
  ASSUME Types, Expiry, Pace, Cycles, Buckets, FreshEntries, FreshAnswers, [Next]_vars
  PROVE  FreshAnswers'
  <1>. SUFFICES ASSUME NEW c \in Clients
                PROVE  req'[c].age < Bound /\ req'[c].off < Bucket
    BY DEF FreshAnswers, Bound, Lag
  <1>. DEFINE w == req[c].spec.window
  <1>0. now \in Nat /\ req[c].age < Bound /\ req[c].off < Bucket
    BY DEF FreshAnswers, Types, TypeOK
  <1>1. CASE req'[c].age = req[c].age /\ req'[c].off = req[c].off
    BY <1>0, <1>1
  <1>2. CASE req'[c].age = 0 /\ req'[c].off = 0
    BY <1>2, LagType
  <1>3. CASE req[c].at # "idle" /\ CacheHit(c)
    <2>. DEFINE k == K(c)
                e == entries[k]
    <2>1. req[c].spec \in Specs /\ k \in DOMAIN entries /\ AnsweredWith(c, e.ends)
      BY <1>3, ReqTypes DEF At, CacheHit, Live
    <2>2. e.until \in now + 1..now + TTL /\ e.ends \in Nat
      BY <2>1 DEF Expiry, EntriesLive
    <2>3. CASE Relative(w)
      <3>1. Relative(k[3])
        BY <2>1, <2>3, KeyWindow DEF K
      <3>2. e.until - e.ends <= Bound
        BY <2>1, <3>1 DEF FreshEntries
      <3>3. req'[c].age = now - e.ends /\ req'[c].off = 0
        BY <2>1, <2>3 DEF AnsweredWith
      <3>. HIDE DEF e
      <3>. QED  BY <1>0, <2>2, <3>2, <3>3, LagType, Delays
    <2>4. CASE ~Relative(w)
      <3>1. ~Relative(k[3]) /\ k[3][3] = Floor(w[3]) /\ w[3] \in Nat
        BY <2>1, <2>4, KeyWindow, SpecTypes DEF K
      <3>2. Floor(e.ends) = Floor(w[3])
        BY <2>1, <3>1 DEF Buckets
      <3>3. Distance(e.ends, w[3]) < Bucket
        BY <2>2, <3>1, <3>2, SameBucket
      <3>4. req'[c].age = 0 /\ req'[c].off = Distance(e.ends, w[3])
        BY <2>1, <2>4 DEF AnsweredWith
      <3>. QED  BY <3>3, <3>4, LagType
    <2>. QED  BY <2>3, <2>4
  <1>4. CASE req[c].at = "compute" /\ AnsweredWith(c, Asked(c))
    <2>1. req[c].spec \in Specs /\ req[c] \in Req /\ req[c].at = "compute"
      BY <1>4, ReqTypes DEF At
    <2>2. CASE Relative(w)
      <3>. DEFINE r == req[c]
      <3>1. r.since \in Nat /\ r.from \in Nat /\ r.alone \in BOOLEAN
        BY <2>1 DEF Req
      <3>2. /\ r.since <= r.from /\ r.from <= now /\ now - r.from <= MaxCompute
            /\ r.from - r.since <= Blocking + MaxCompute
        BY <2>1, <3>1, Delays DEF Pace
      <3>3. Asked(c) = r.since
        BY <2>1, <2>2, KeyWindow DEF Asked
      <3>4. req'[c].age = now - r.since /\ req'[c].off = 0
        BY <1>4, <2>2, <3>3 DEF AnsweredWith
      <3>. HIDE DEF r
      <3>5. now - r.since <= Lag
        BY <1>0, <3>1, <3>2, Delays DEF Lag
      <3>. QED  BY <1>0, <3>1, <3>4, <3>5, LagType
    <2>3. CASE ~Relative(w)
      <3>1. Asked(c) = w[3] /\ w[3] \in Nat
        BY <2>1, <2>3, KeyWindow, SpecTypes DEF Asked
      <3>2. Distance(w[3], w[3]) < Bucket
        BY <3>1, SameBucket
      <3>3. req'[c].age = 0 /\ req'[c].off = Distance(w[3], w[3])
        BY <1>4, <2>3, <3>1 DEF AnsweredWith
      <3>. QED  BY <3>2, <3>3, LagType
    <2>. QED  BY <2>2, <2>3
  <1>5. CASE Passes(c)
    BY <1>1, <1>5 DEF Passes, LetDown, Goes, Carried
  <1>6. CASE Outage
    BY <1>1, <1>6, OutageStep
  <1>7. CASE Tick
    BY <1>1, <1>2, <1>7, TickStep, IdleType DEF Goes, Carried
  <1>. QED  BY <1>1, <1>2, <1>3, <1>4, <1>5, <1>6, <1>7, Moves DEF Returns, Begins

LEMMA PaceStep ==
  ASSUME Types, Expiry, Pace, [Next]_vars
  PROVE  Pace'
  <1>. DEFINE Paced(r, n) ==
         /\ r.at = "get" => r.since = n
         /\ r.at = "lock" => r.since <= n /\ n - r.since <= Blocking
         /\ r.at = "check" => r.since <= n /\ n - r.since <= Blocking
         /\ r.at = "retry" => r.since <= n /\ n - r.since <= Blocking + MaxCompute
         /\ r.at = "compute" =>
              /\ r.since <= r.from /\ r.from <= n /\ n - r.from <= MaxCompute
              /\ r.from - r.since <= Blocking + (IF r.alone THEN MaxCompute ELSE 0)
  <1>. SUFFICES ASSUME NEW c \in Clients PROVE Paced(req'[c], now')
    BY DEF Pace
  <1>0. /\ now \in Nat /\ req[c] \in Req /\ Paced(req[c], now)
        /\ req[c].since \in Nat /\ req[c].from \in Nat /\ req[c].alone \in BOOLEAN
    BY ReqTypes DEF Pace, Req
  <1>. HIDE DEF Paced
  <1>1. CASE UNCHANGED now /\ req'[c] = req[c]
    BY <1>0, <1>1
  <1>2. CASE UNCHANGED now /\ Passes(c)
    BY <1>0, <1>2, Delays DEF Passes, LetDown, Goes, Carried, Paced
  <1>3. CASE req'[c].at = "idle"
    BY <1>3 DEF Paced
  <1>4. CASE UNCHANGED now /\ Begins(c)
    BY <1>4 DEF Begins, Paced
  <1>5. CASE Outage
    BY <1>0, <1>5, OutageStep DEF Paced
  <1>6. CASE Tick
    <2>1. /\ now' = now + 1
          /\ \/ req'[c] = Idle
             \/ /\ req[c].at = "lock" /\ now - req[c].since < Blocking
                /\ req'[c].at = "lock" /\ req'[c].since = req[c].since
             \/ req[c].at = "compute" /\ now - req[c].from < MaxCompute /\ req'[c] = req[c]
      BY <1>6, TickStep DEF Goes, Carried
    <2>. QED  BY <1>0, <2>1, Delays, IdleType DEF Paced
  <1>. QED  BY <1>1, <1>2, <1>3, <1>4, <1>5, <1>6, Moves DEF Returns, Ended

\* Owned, of the request r of the client c at the time n, with the locks l
Keeps(c, r, l, n) ==
  /\ r.at = "check" /\ ~r.cut =>
       Key(r.spec) \in DOMAIN l /\ l[Key(r.spec)] = [owner |-> c, until |-> n + LockTTL]
  /\ r.at = "compute" => ~r.known
  /\ r.at = "compute" /\ ~r.alone =>
       /\ ~r.cut /\ n - r.from < LockTTL =>
            Key(r.spec) \in DOMAIN l /\ l[Key(r.spec)] = [owner |-> c, until |-> r.from + LockTTL]

LEMMA OwnedKeeps == Owned <=> \A c \in Clients : Keeps(c, req[c], locks, now)
  BY DEF Owned, Keeps, K

LEMMA OwnedStep ==
  ASSUME Types, Expiry, Owned, [Next]_vars
  PROVE  Owned'
  <1>0. now \in Nat /\ \A c \in Clients : Keeps(c, req[c], locks, now)
    BY OwnedKeeps DEF Types, TypeOK
  <1>. SUFFICES ASSUME NEW c \in Clients PROVE Keeps(c, req'[c], locks', now')
    BY OwnedKeeps DEF Owned, Keeps, K
  <1>. DEFINE k == K(c)
              Kept == k \in DOMAIN locks => k \in DOMAIN locks' /\ locks'[k] = locks[k]
  \* A request that stays where it is
  <1>1. ASSUME UNCHANGED now, req'[c] = req[c], UNCHANGED locks \/ Kept
        PROVE  Keeps(c, req'[c], locks', now')
    BY <1>0, <1>1 DEF Keeps, K
  <1>2. ASSUME NEW d \in Clients, Release(d), UNCHANGED now, req'[c] = req[c], c # d
        PROVE  Keeps(c, req'[c], locks', now')
    <2>1. CASE k \in DOMAIN locks /\ locks[k].owner = d
      BY <1>0, <1>2, <2>1 DEF Keeps, K
    <2>2. CASE ~(k \in DOMAIN locks /\ locks[k].owner = d)
      BY <1>1, <1>2, <2>2, ReleaseFacts
    <2>. QED  BY <2>1, <2>2
  <1>3. CASE req'[c].at \in {"idle", "get", "lock", "retry"}
    BY <1>3 DEF Keeps
  <1>4. ASSUME NEW d \in Clients,
               Get(d) \/ GiveUp(d) \/ Computed(d) \/ ComputeFails(d)
        PROVE  Keeps(c, req'[c], locks', now')
    <2>1. /\ UNCHANGED now /\ (UNCHANGED locks \/ Release(d))
          /\ req'[d].at \in {"idle", "lock", "retry"}
          /\ \A x \in Clients \ {d} : req'[x] = req[x] \/ LetDown(x)
      BY <1>4, GetStep, GiveUpStep, ComputedStep, FailStep
      DEF Still, CacheHit, AnsweredWith, Ended, Others
    <2>2. c = d \/ req'[c] = req[c] \/ req'[c].at \in {"lock", "retry"}
      BY <2>1 DEF LetDown, Goes
    <2>. QED  BY <1>1, <1>2, <1>3, <2>1, <2>2
  <1>5. ASSUME NEW d \in Clients, Retry(d) PROVE Keeps(c, req'[c], locks', now')
    <2>1. /\ UNCHANGED <<now, locks>> /\ Others(d)
          /\ req'[d].at = "idle" \/ (req'[d].at = "compute" /\ req'[d].alone /\ ~req'[d].known)
      BY <1>5, RetryStep DEF Still, CacheHit, AnsweredWith, Ended
    <2>2. c = d \/ req'[c] = req[c]
      BY <2>1 DEF Others
    <2>3. CASE c = d /\ req'[c].at = "compute" /\ req'[c].alone /\ ~req'[c].known
      BY <2>3 DEF Keeps
    <2>. QED  BY <1>1, <1>3, <2>1, <2>2, <2>3
  <1>6. ASSUME NEW d \in Clients, Acquire(d) PROVE Keeps(c, req'[c], locks', now')
    <2>. DEFINE v == [owner |-> d, until |-> now + LockTTL]
    <2>1. /\ UNCHANGED now /\ Others(d) /\ req'[d].at = "check" /\ req'[d].spec = req[d].spec
          /\ K(d) \notin DOMAIN locks /\ locks' = Put(locks, K(d), v)
      BY <1>6, AcquireStep DEF Still, Carried
    <2>. HIDE DEF v
    <2>2. /\ K(d) \in DOMAIN locks' /\ locks'[K(d)] = v
          /\ \A j \in DOMAIN locks : j \in DOMAIN locks' /\ (j # K(d) => locks'[j] = locks[j])
      BY <2>1 DEF Put
    <2>3. CASE c = d
      BY <2>1, <2>2, <2>3 DEF Keeps, K, v
    <2>4. CASE c # d
      <3>1. req'[c] = req[c] /\ Kept
        BY <2>1, <2>2, <2>4 DEF Others
      <3>. QED  BY <1>1, <2>1, <3>1
    <2>. QED  BY <2>3, <2>4
  <1>7. ASSUME NEW d \in Clients, Check(d) PROVE Keeps(c, req'[c], locks', now')
    <2>1. /\ UNCHANGED now /\ Others(d) /\ req[d].at = "check"
          /\ \/ req'[d].at = "idle" /\ Release(d)
             \/ /\ req'[d].at = "compute" /\ Carried(d) /\ req'[d].from = now
                /\ req'[d].alone = FALSE /\ ~req'[d].known /\ UNCHANGED locks
      BY <1>7, CheckStep DEF Still, CacheHit, AnsweredWith, Ended
    <2>2. c = d \/ req'[c] = req[c]
      BY <2>1 DEF Others
    <2>3. CASE c = d /\ req'[c].at = "compute"
      BY <1>0, <2>1, <2>3, Delays DEF Keeps, K, Carried
    <2>. QED  BY <1>1, <1>2, <1>3, <2>1, <2>2, <2>3
  <1>8. ASSUME NEW d \in Clients, NEW s \in Specs, Ask(d, s)
        PROVE  Keeps(c, req'[c], locks', now')
    <2>1. UNCHANGED <<now, locks>> /\ req'[d].at = "get" /\ (c = d \/ req'[c] = req[c])
      BY <1>8, AskStep DEF Others
    <2>. QED  BY <1>1, <1>3, <2>1
  <1>9. CASE WarmRun \/ WarmSkipped \/ WarmSpec \/ Warmed \/ WarmFails \/ UNCHANGED vars
    BY <1>1, <1>9, WarmRunStep, WarmSkippedStep, WarmSpecStep, WarmedStep, WarmFailsStep
    DEF Aside, WarmNext, vars, store
  <1>10. CASE Outage
    <2>1. CASE req[c].at = "idle" /\ req'[c] = req[c]
      BY <1>3, <2>1
    <2>2. CASE /\ req'[c].cut = TRUE /\ req'[c].at = req[c].at
               /\ req'[c].alone = req[c].alone /\ req'[c].known = req[c].known
      BY <1>0, <2>2 DEF Keeps
    <2>. QED  BY <1>10, <2>1, <2>2, OutageStep
  <1>11. CASE Tick
    <2>1. now' = now + 1 /\ locks' = Unexpired(locks, now + 1)
      BY <1>11, TickStep
    <2>2. CASE req[c].at = "compute" /\ req'[c] = req[c]
      <3>. DEFINE r == req[c]
      <3>1. r.from \in Nat
        BY ReqTypes DEF Req
      <3>2. CASE r.alone
        BY <1>0, <2>2, <3>2 DEF Keeps
      <3>3. CASE ~r.alone /\ r.cut
        BY <1>0, <2>2, <3>3 DEF Keeps
      <3>5. CASE ~r.alone /\ ~(now + 1 - r.from < LockTTL)
        <4>1. ~r.known
          BY <1>0, <2>2, <3>5 DEF Keeps
        <4>2. ~(now' - r.from < LockTTL)
          BY <1>0, <2>1, <3>1, <3>5, Delays
        <4>. QED  BY <2>2, <4>1, <4>2 DEF Keeps
      <3>4. CASE ~r.alone /\ ~r.cut /\ now + 1 - r.from < LockTTL
        <4>. DEFINE v == [owner |-> c, until |-> r.from + LockTTL]
        <4>1. now - r.from < LockTTL
          BY <1>0, <3>1, <3>4, Delays
        <4>2. ~r.known /\ k \in DOMAIN locks /\ locks[k] = v
          BY <1>0, <2>2, <3>4, <4>1 DEF Keeps, K
        <4>3. v.until > now + 1
          BY <1>0, <3>1, <3>4, Delays
        <4>. HIDE DEF v
        <4>4. k \in DOMAIN locks' /\ locks'[k] = v
          BY <2>1, <4>2, <4>3 DEF Unexpired
        <4>. QED  BY <2>2, <3>4, <4>2, <4>4 DEF Keeps, K, v
      <3>. QED  BY <3>2, <3>3, <3>4, <3>5
    <2>3. CASE req'[c].at \in {"idle", "lock"}
      BY <1>3, <2>3
    <2>. QED  BY <1>11, <2>2, <2>3, TickStep, IdleType DEF Goes
  <1>. QED  BY <1>4, <1>5, <1>6, <1>7, <1>8, <1>9, <1>10, <1>11, NextCases

\* Who computes under a lock and has it still is the only one.
LEMMA OwnedAlone ==
  ASSUME Types, Owned, Awaits
  PROVE  SingleFlight
  <1>1. ASSUME NEW c \in Clients, At(c, "compute")
        PROVE  ~req[c].known
    BY <1>1 DEF Owned, At
  <1>3. ASSUME NEW c \in Clients, At(c, "retry"), ~req[c].failed, ~req[c].cut
        PROVE  \/ Live(K(c)) \/ Orphaned(K(c))
               \/ \E o \in Clients : Serves(o, K(c)) /\ now - req[o].from >= Blocking
    BY <1>3 DEF Awaits
  <1>2. ASSUME NEW c \in Clients, At(c, "compute"), ~req[c].alone,
               NEW d \in Clients \ {c}, At(d, "compute"), ~req[d].alone, K(d) = K(c)
        PROVE  \E x \in {c, d} : req[x].cut \/ now - req[x].from >= LockTTL
    <2>1. SUFFICES ASSUME \A x \in {c, d} : ~req[x].cut /\ ~(now - req[x].from >= LockTTL)
                   PROVE  FALSE
      OBVIOUS
    <2>2. now \in Nat /\ req[c].from \in Nat /\ req[d].from \in Nat
      BY ReqTypes DEF Req
    <2>3. now - req[c].from < LockTTL /\ now - req[d].from < LockTTL
      BY <2>1, <2>2, Delays
    <2>4. locks[K(c)] = [owner |-> c, until |-> req[c].from + LockTTL]
      BY <1>2, <2>1, <2>3 DEF Owned, At
    <2>5. locks[K(d)] = [owner |-> d, until |-> req[d].from + LockTTL]
      BY <1>2, <2>1, <2>3 DEF Owned, At
    <2>6. locks[K(c)].owner = c
      BY <2>4
    <2>7. locks[K(d)].owner = d
      BY <2>5
    <2>. QED  BY <1>2, <2>6, <2>7
  <1>. QED  BY <1>1, <1>2, <1>3 DEF SingleFlight, Computes, Types

LEMMA DeadlineBound ==
  ASSUME Types, Cycles, NEW s
  PROVE  /\ Deadline(s) \in Int /\ Deadline(s) <= Spare + warmer.due
         /\ now + TTL >= Deadline(s)
  BY Delays DEF Types, TypeOK, Cycles, Deadline

\* Watched, but for the entries of what is kept
Marked ==
  /\ DOMAIN polled # {} => redis
  /\ \A s \in DOMAIN polled :
       /\ s \in Specs /\ Relative(s.window)
       /\ Sig(s) \in DOMAIN markers /\ markers[Sig(s)].until >= polled[s].until

Fresh(s) == /\ Key(s) \in DOMAIN entries /\ entries[Key(s)].until >= Deadline(s)
            /\ now < Deadline(s)

LEMMA WatchedParts == Watched <=> Marked /\ \A s \in kept : Fresh(s)
  BY DEF Watched, Marked, Fresh

LEMMA MarkedStep ==
  ASSUME Types, Expiry, Marked, [Next]_vars
  PROVE  Marked'
  <1>0. now \in Nat /\ WarmTTL \in Nat
    BY Delays DEF Types, TypeOK
  <1>1. CASE UNCHANGED <<now, markers, polled>>
    <2>1. CASE UNCHANGED redis
      BY <1>1, <2>1 DEF Marked
    <2>2. CASE Outage
      BY <2>2, OutageStep DEF Marked
    <2>3. UNCHANGED redis \/ Outage
      <3>1. ASSUME NEW c \in Clients,
                   Get(c) \/ Acquire(c) \/ GiveUp(c) \/ Check(c) \/ Computed(c) \/ ComputeFails(c) \/ Retry(c)
            PROVE  UNCHANGED redis
        BY <3>1, GetStep, AcquireStep, GiveUpStep, CheckStep, ComputedStep, FailStep, RetryStep DEF Still
      <3>2. CASE WarmRun \/ WarmSkipped \/ WarmSpec \/ Warmed \/ WarmFails \/ UNCHANGED vars
        BY <3>2, WarmRunStep, WarmSkippedStep, WarmSpecStep, WarmedStep, WarmFailsStep DEF Aside, WarmNext, vars
      <3>. QED  BY <3>1, <3>2, AskStep, TickStep, NextCases
    <2>. QED  BY <2>1, <2>2, <2>3
  <1>2. ASSUME UNCHANGED redis, redis, NEW s \in Specs, Relative(s.window),
               markers' = Put(markers, Sig(s), [spec |-> s, until |-> now + WarmTTL]),
               polled' = Put(polled, s, [until |-> now + WarmTTL])
        PROVE  Marked'
    <2>. DEFINE v == [spec |-> s, until |-> now + WarmTTL]
                u == [until |-> now + WarmTTL]
    <2>1. v.until = now + WarmTTL /\ u.until = now + WarmTTL
      OBVIOUS
    <2>2. markers' = Put(markers, Sig(s), v) /\ polled' = Put(polled, s, u)
      BY <1>2
    <2>. HIDE DEF u, v
    <2>3. /\ DOMAIN markers' = DOMAIN markers \cup {Sig(s)} /\ markers'[Sig(s)] = v
          /\ \A g \in DOMAIN markers : g # Sig(s) => markers'[g] = markers[g]
          /\ DOMAIN polled' = DOMAIN polled \cup {s} /\ polled'[s] = u
          /\ \A t \in DOMAIN polled : t # s => polled'[t] = polled[t]
      BY <2>2 DEF Put
    <2>4. ASSUME NEW t \in DOMAIN polled'
          PROVE  /\ t \in Specs /\ Relative(t.window)
                 /\ Sig(t) \in DOMAIN markers' /\ markers'[Sig(t)].until >= polled'[t].until
      <3>1. CASE t = s
        <4>1. markers'[Sig(t)] = v /\ polled'[t] = u
          BY <2>3, <3>1
        <4>2. markers'[Sig(t)].until >= polled'[t].until
          BY <1>0, <2>1, <4>1
        <4>. QED  BY <1>2, <2>3, <3>1, <4>2
      <3>2. CASE t # s
        <4>1. /\ t \in DOMAIN polled /\ t \in Specs /\ Relative(t.window)
              /\ Sig(t) \in DOMAIN markers /\ markers[Sig(t)].until >= polled[t].until
          BY <2>3, <3>2 DEF Marked
        <4>2. Sig(t) # Sig(s)
          BY <3>2, <4>1, OneSig
        <4>. QED  BY <2>3, <3>2, <4>1, <4>2
      <3>. QED  BY <3>1, <3>2
    <2>. QED  BY <1>2, <2>4 DEF Marked
  <1>3. CASE Outage
    <2>1. DOMAIN polled' = {}
      BY <1>3, OutageStep
    <2>. QED  BY <2>1 DEF Marked
  <1>4. CASE Tick
    <2>1. /\ now' = now + 1 /\ markers' = Unexpired(markers, now + 1)
          /\ polled' = Unexpired(polled, now + 1) /\ redis' = redis
      BY <1>4, TickStep
    <2>2. \A s \in DOMAIN polled' : s \in DOMAIN polled /\ polled'[s] = polled[s] /\ polled[s].until > now + 1
      BY <2>1 DEF Unexpired
    <2>3. \A g \in DOMAIN markers : markers[g].until > now + 1
                                     => g \in DOMAIN markers' /\ markers'[g] = markers[g]
      BY <2>1 DEF Unexpired
    <2>4. ASSUME NEW s \in DOMAIN polled'
          PROVE  /\ s \in Specs /\ Relative(s.window)
                 /\ Sig(s) \in DOMAIN markers' /\ markers'[Sig(s)].until >= polled'[s].until
      <3>1. /\ s \in Specs /\ Relative(s.window) /\ Sig(s) \in DOMAIN markers
            /\ markers[Sig(s)].until >= polled[s].until
        BY <2>2 DEF Marked
      <3>2. polled[s].until \in Int /\ markers[Sig(s)].until \in Int
        BY <1>0, <2>2, <3>1 DEF Expiry, MarkersLive, PolledLive
      <3>3. markers[Sig(s)].until > now + 1
        BY <1>0, <2>2, <3>1, <3>2
      <3>. QED  BY <2>2, <2>3, <3>1, <3>3
    <2>. QED  BY <2>1, <2>2, <2>4 DEF Marked
  <1>. QED  BY <1>1, <1>2, <1>3, <1>4, MarkerMoves

\* What was fresh stays so while its deadline does.
LEMMA FreshStays ==
  ASSUME Types, Cycles, Cycles', UNCHANGED now, NEW s, Deadline(s)' = Deadline(s),
         s \in kept => Fresh(s), s \in kept,
         UNCHANGED entries \/ \E t \in Specs, n \in Nat : Filling(t, n)
  PROVE  Fresh(s)'
  <1>1. CASE UNCHANGED entries
    BY <1>1 DEF Fresh
  <1>2. ASSUME NEW t \in Specs, NEW n \in Nat, Filling(t, n)
        PROVE  Fresh(s)'
    <2>. DEFINE v == [ends |-> Ends(t.window, n), until |-> now + TTL]
    <2>1. v.until >= Deadline(s)
      BY DeadlineBound
    <2>2. \/ UNCHANGED entries
          \/ /\ DOMAIN entries' = DOMAIN entries \cup {Key(t)} /\ entries'[Key(t)] = v
             /\ \A j \in DOMAIN entries : j # Key(t) => entries'[j] = entries[j]
      BY <1>2, FillFacts DEF Filling
    <2>. HIDE DEF v
    <2>3. Key(s) \in DOMAIN entries /\ entries[Key(s)].until >= Deadline(s) /\ now < Deadline(s)
      BY DEF Fresh
    <2>4. CASE Key(s) = Key(t) /\ DOMAIN entries' = DOMAIN entries \cup {Key(t)} /\ entries'[Key(t)] = v
      BY <2>1, <2>3, <2>4 DEF Fresh
    <2>5. CASE Key(s) \in DOMAIN entries' /\ entries'[Key(s)] = entries[Key(s)]
      BY <2>3, <2>5 DEF Fresh
    <2>. QED  BY <1>1, <2>2, <2>3, <2>4, <2>5
  <1>. QED  BY <1>1, <1>2

LEMMA KeptStep ==
  ASSUME Types, Expiry, Pace, Cycles, Cycles', Watched, [Next]_vars, NEW s \in kept'
  PROVE  Fresh(s)'
  <1>0. /\ now \in Nat /\ warmer.due \in Nat /\ Spare \in Nat \ {0} /\ WarmEvery \in Nat
        /\ kept \subseteq DOMAIN polled /\ (\A t \in kept : Fresh(t)) /\ Marked
    BY WatchedParts, Delays DEF Types, TypeOK
  <1>1. UNCHANGED now => UNCHANGED entries \/ \E t \in Specs, n \in Nat : Filling(t, n)
    <2>1. CASE Tick
      BY <1>0, <2>1, TickStep
    <2>. QED  BY <2>1, Fills, OutageStep
  <1>2. CASE UNCHANGED <<now, warmer, kept>>
    <2>1. Deadline(s)' = Deadline(s)
      BY <1>2 DEF Deadline, Pending, Spare
    <2>. QED  BY <1>0, <1>1, <1>2, <2>1, FreshStays
  <1>3. CASE WarmRun
    <2>1. /\ UNCHANGED now /\ s \in kept /\ warmer.at = "idle" /\ warmer'.at = "next"
          /\ warmer'.due = warmer.due + WarmEvery
          /\ redis => \A g \in DOMAIN markers :
                        markers[g].spec \in kept' => markers[g].spec \in warmer'.todo
      BY <1>3, WarmRunStep DEF Aside
    <2>2. s \in Specs /\ redis /\ Sig(s) \in DOMAIN markers
      BY <1>0, <2>1 DEF Marked
    <2>3. markers[Sig(s)].spec = s
      BY <2>2, OneSig DEF Types, TypeOK
    <2>4. s \in warmer'.todo
      BY <2>1, <2>2, <2>3
    <2>5. Deadline(s) = Spare + warmer.due
      BY <2>1 DEF Deadline, Pending, Cycles
    <2>6. Deadline(s)' = Spare + (warmer'.due - WarmEvery)
      BY <2>1, <2>4 DEF Deadline, Pending, Spare
    <2>7. Deadline(s)' = Deadline(s)
      BY <1>0, <2>1, <2>5, <2>6
    <2>. QED  BY <1>0, <1>1, <2>1, <2>7, FreshStays
  <1>4. CASE WarmSpec
    <2>1. /\ UNCHANGED now /\ s \in kept /\ warmer.at = "next" /\ warmer'.due = warmer.due
          /\ \/ \E t \in warmer.todo : /\ warmer'.at = "compute" /\ warmer'.todo = warmer.todo \ {t}
                                        /\ warmer'.spec = t
             \/ warmer.todo = {} /\ warmer'.at = "idle" /\ warmer'.todo = {}
      BY <1>4, WarmSpecStep DEF Aside
    <2>2. (s \in Pending)' <=> s \in Pending
      <3>1. Pending = warmer.todo
        BY <2>1 DEF Pending
      <3>2. CASE warmer.todo = {} /\ warmer'.at = "idle" /\ warmer'.todo = {}
        BY <3>1, <3>2 DEF Pending
      <3>3. ASSUME NEW t \in warmer.todo, warmer'.at = "compute", warmer'.todo = warmer.todo \ {t},
                   warmer'.spec = t
            PROVE  (s \in Pending)' <=> s \in Pending
        BY <3>1, <3>3 DEF Pending
      <3>. QED  BY <2>1, <3>2, <3>3
    <2>3. Deadline(s)' = Deadline(s)
      BY <2>1, <2>2 DEF Deadline, Spare
    <2>. QED  BY <1>0, <1>1, <2>1, <2>3, FreshStays
  <1>5. CASE s \in kept /\ s # warmer.spec /\ WarmNext
    <2>1. /\ UNCHANGED now /\ warmer.at = "compute" /\ warmer'.at = "next"
          /\ warmer'.todo = warmer.todo /\ warmer'.due = warmer.due
      BY <1>5 DEF WarmNext, Aside
    <2>2. (s \in Pending)' <=> s \in Pending
      BY <1>5, <2>1 DEF Pending
    <2>3. Deadline(s)' = Deadline(s)
      BY <2>1, <2>2 DEF Deadline, Spare
    <2>. QED  BY <1>0, <1>1, <1>5, <2>1, <2>3, FreshStays
  <1>6. CASE Warmed
    <2>1. /\ WarmNext /\ now' = now /\ Fill(Key(warmer.spec), Ends(warmer.spec.window, warmer.from))
          /\ kept' = IF redis THEN kept \cup ({warmer.spec} \cap DOMAIN polled) ELSE kept
      BY <1>6, WarmedStep DEF WarmNext, Aside
    <2>2. CASE s \in kept /\ s # warmer.spec
      BY <1>5, <2>1, <2>2
    <2>3. CASE s = warmer.spec
      <3>. DEFINE v == [ends |-> Ends(s.window, warmer.from), until |-> now + TTL]
      <3>1. redis
        BY <1>0, <2>1, <2>3 DEF Marked
      <3>2. Key(s) \in DOMAIN entries' /\ entries'[Key(s)] = v
        BY <2>1, <2>3, <3>1, FillFacts
      <3>3. v.until = now + TTL
        OBVIOUS
      <3>. HIDE DEF v
      <3>4. /\ warmer'.due \in Int /\ warmer'.due <= now + WarmEvery /\ now <= warmer'.due
            /\ warmer'.at = "next" /\ s \notin warmer'.todo
        BY <1>0, <2>1, <2>3 DEF WarmNext, Cycles
      <3>5. Deadline(s)' = Spare + warmer'.due
        BY <3>4 DEF Deadline, Pending, Spare
      <3>6. entries'[Key(s)].until >= Deadline(s)' /\ now' < Deadline(s)'
        BY <1>0, <2>1, <3>2, <3>3, <3>4, <3>5, Delays
      <3>. QED  BY <3>2, <3>6 DEF Fresh
    <2>. QED  BY <2>1, <2>2, <2>3
  <1>7. CASE WarmFails
    BY <1>5, <1>7, WarmFailsStep
  <1>8. CASE Tick
    <2>1. /\ now' = now + 1 /\ now < warmer.due /\ warmer' = warmer /\ s \in kept
          /\ s \notin Late(now + 1) /\ entries' = Unexpired(entries, now + 1)
      BY <1>8, TickStep
    <2>2. Key(s) \in DOMAIN entries /\ entries[Key(s)].until >= Deadline(s)
      BY <1>0, <2>1 DEF Fresh
    <2>3. Deadline(s)' = Deadline(s)
      BY <2>1 DEF Deadline, Pending, Spare
    <2>4. Deadline(s) > now + 1
      <3>1. CASE s \notin Pending
        BY <1>0, <2>1, <3>1 DEF Deadline
      <3>2. CASE s \in Pending
        <4>1. now + 1 - (warmer.due - WarmEvery) < Spare
          <5>. DEFINE InTime(t) == t - (warmer.due - WarmEvery) < TTL - WarmEvery
          <5>1. \A t : ~InTime(t) => Late(t) = Pending
            BY Zenon DEF Late
          <5>. HIDE DEF InTime
          <5>2. InTime(now + 1)
            BY <2>1, <3>2, <5>1
          <5>. QED  BY <1>0, <5>2, Delays DEF InTime, Spare
        <4>2. Deadline(s) = Spare + (warmer.due - WarmEvery)
          BY <3>2 DEF Deadline
        <4>. QED  BY <1>0, <4>1, <4>2
      <3>. QED  BY <3>1, <3>2
    <2>5. entries[Key(s)].until > now + 1
      <3>1. entries[Key(s)].until \in Int /\ Deadline(s) \in Int
        BY <1>0, <2>2, DeadlineBound DEF Expiry, EntriesLive
      <3>. QED  BY <1>0, <2>2, <2>4, <3>1
    <2>6. Key(s) \in DOMAIN entries' /\ entries'[Key(s)] = entries[Key(s)]
      BY <2>1, <2>2, <2>5 DEF Unexpired
    <2>. QED  BY <2>1, <2>2, <2>3, <2>4, <2>6 DEF Fresh
  <1>9. CASE Outage
    BY <1>9, OutageStep
  <1>10. ASSUME NEW c \in Clients,
               Get(c) \/ Acquire(c) \/ GiveUp(c) \/ Check(c) \/ Computed(c) \/ ComputeFails(c) \/ Retry(c)
         PROVE  UNCHANGED <<now, warmer, kept>>
    BY <1>10, GetStep, AcquireStep, GiveUpStep, CheckStep, ComputedStep, FailStep, RetryStep DEF Still
  <1>11. CASE WarmSkipped
    BY <1>11, WarmSkippedStep
  <1>. QED  BY <1>2, <1>3, <1>4, <1>6, <1>7, <1>8, <1>9, <1>10, <1>11, AskStep, NextCases DEF vars

\* What is there stays, but for time and outages.
LEMMA Lasting ==
  ASSUME Types, Expiry, Pace, Cycles, [Next]_vars, ~Outage, ~Tick
  PROVE  UNCHANGED <<now, redis>> /\ DOMAIN entries \subseteq DOMAIN entries'
  <1>1. UNCHANGED redis
    <2>1. ASSUME NEW d \in Clients,
                 Get(d) \/ Acquire(d) \/ GiveUp(d) \/ Check(d) \/ Computed(d) \/ ComputeFails(d) \/ Retry(d)
          PROVE  UNCHANGED redis
      BY <2>1, GetStep, AcquireStep, GiveUpStep, CheckStep, ComputedStep, FailStep, RetryStep DEF Still
    <2>2. CASE WarmRun \/ WarmSkipped \/ WarmSpec \/ Warmed \/ WarmFails \/ UNCHANGED vars
      BY <2>2, WarmRunStep, WarmSkippedStep, WarmSpecStep, WarmedStep, WarmFailsStep DEF Aside, WarmNext, vars
    <2>. QED  BY <2>1, <2>2, AskStep, NextCases
  <1>2. UNCHANGED now /\ (UNCHANGED entries \/ \E s \in Specs, t \in Nat : Filling(s, t))
    BY Fills
  <1>3. DOMAIN entries \subseteq DOMAIN entries'
    BY <1>2, FillFacts DEF Filling
  <1>. QED  BY <1>1, <1>2, <1>3

\* A hit is owed to who asked for what is kept, until it looks.
LEMMA KeptWarmStep ==
  ASSUME Types, Expiry, Pace, Cycles, Watched, KeptWarm, [Next]_vars
  PROVE  KeptWarm'
  <1>. SUFFICES ASSUME NEW c \in Clients, req'[c].at = "get", req'[c].warm, ~req'[c].cut
                PROVE  redis' /\ Key(req'[c].spec) \in DOMAIN entries'
    BY DEF KeptWarm, At, Live, K
  <1>1. CASE Outage
    BY <1>1, OutageStep DEF Types
  <1>2. CASE Tick
    BY <1>2, TickStep, IdleType DEF Goes
  <1>3. CASE ~Outage /\ ~Tick
    <2>1. req'[c] = req[c] \/ Begins(c)
      BY <1>3, Moves DEF Passes, LetDown, Goes, Returns, Ended
    <2>2. CASE req'[c] = req[c]
      BY <1>3, <2>2, Lasting DEF KeptWarm, At, Live, K
    <2>3. CASE Begins(c)
      BY <1>3, <2>3, Lasting DEF Begins, Watched, Types, TypeOK
    <2>. QED  BY <2>1, <2>2, <2>3
  <1>. QED  BY <1>1, <1>2, <1>3

-----------------------------------------------------------------------------
(* Who waits, and for whom                                                 *)

\* A request that neither has a lock nor waits to compute under it
Bystander(r) == r.at # "check" /\ (r.at # "compute" \/ r.alone)

\* What a step does to the locks, and to those who compute under them
Quiet == /\ UNCHANGED locks
         /\ \A x \in Clients : req'[x] = req[x] \/ (Bystander(req[x]) /\ Bystander(req'[x]))
Takes(d) ==
  /\ Others(d) /\ Bystander(req[d]) /\ req'[d].at = "check" /\ req'[d].spec = req[d].spec
  /\ K(d) \notin DOMAIN locks
  /\ \E v : locks' = Put(locks, K(d), v) /\ v.owner = d
Starts(d) ==
  /\ Others(d) /\ UNCHANGED locks /\ req[d].at = "check" /\ ~Live(K(d))
  /\ req'[d].at = "compute" /\ req'[d].spec = req[d].spec
Leaves(d) ==
  /\ ~Bystander(req[d]) /\ Bystander(req'[d]) /\ Release(d)
  /\ \/ Others(d) /\ (redis => K(d) \in DOMAIN entries')
     \/ \A x \in Clients \ {d} : IF Owns(d) /\ Waits(x, d) THEN LetDown(x) ELSE req'[x] = req[x]

LEMMA LockKinds ==
  ASSUME Types, Expiry, [Next]_vars, ~Outage, ~Tick
  PROVE  Quiet \/ \E d \in Clients : Takes(d) \/ Starts(d) \/ Leaves(d)
  <1>1. ASSUME NEW d \in Clients, Get(d) \/ GiveUp(d) \/ Retry(d)
        PROVE  Quiet
    <2>1. /\ UNCHANGED locks /\ Others(d) /\ req[d].at \in {"get", "lock", "retry"}
          /\ req'[d].at \in {"idle", "lock", "retry"} \/ (req'[d].at = "compute" /\ req'[d].alone)
      BY <1>1, GetStep, GiveUpStep, RetryStep DEF CacheHit, AnsweredWith, Ended
    <2>2. Bystander(req[d]) /\ Bystander(req'[d])
      BY <2>1 DEF Bystander
    <2>. QED  BY <2>1, <2>2 DEF Quiet, Others
  <1>2. ASSUME NEW d \in Clients, Acquire(d)
        PROVE  Takes(d)
    <2>. DEFINE v == [owner |-> d, until |-> now + LockTTL]
    <2>1. /\ Others(d) /\ req[d].at = "lock" /\ req'[d].at = "check" /\ req'[d].spec = req[d].spec
          /\ K(d) \notin DOMAIN locks /\ locks' = Put(locks, K(d), v) /\ v.owner = d
      BY <1>2, AcquireStep DEF Carried
    <2>. HIDE DEF v
    <2>. QED  BY <2>1 DEF Takes, Bystander
  <1>3. ASSUME NEW d \in Clients, Check(d)
        PROVE  Starts(d) \/ Leaves(d)
    <2>1. /\ Others(d) /\ req[d].at = "check" /\ UNCHANGED entries
          /\ \/ Live(K(d)) /\ req'[d].at = "idle" /\ Release(d)
             \/ /\ ~Live(K(d)) /\ req'[d].at = "compute" /\ req'[d].spec = req[d].spec
                /\ UNCHANGED locks
      BY <1>3, CheckStep DEF CacheHit, AnsweredWith, Ended, Carried
    <2>2. CASE Live(K(d)) /\ req'[d].at = "idle" /\ Release(d)
      BY <2>1, <2>2 DEF Leaves, Bystander, Live
    <2>. QED  BY <2>1, <2>2 DEF Starts
  <1>4. ASSUME NEW d \in Clients, Computed(d)
        PROVE  Quiet \/ Leaves(d)
    <2>1. /\ Others(d) /\ req[d].at = "compute" /\ Fill(K(d), Asked(d))
          /\ req'[d].at \in {"idle", "retry"}
          /\ (req[d].alone /\ UNCHANGED locks) \/ (~req[d].alone /\ Release(d))
      BY <1>4, ComputedStep DEF AnsweredWith, Ended
    <2>2. redis => K(d) \in DOMAIN entries'
      BY <2>1, FillFacts
    <2>3. CASE req[d].alone /\ UNCHANGED locks
      BY <2>1, <2>3 DEF Quiet, Others, Bystander
    <2>4. CASE ~req[d].alone /\ Release(d)
      BY <2>1, <2>2, <2>4 DEF Leaves, Bystander
    <2>. QED  BY <2>1, <2>3, <2>4
  <1>5. ASSUME NEW d \in Clients, ComputeFails(d)
        PROVE  Quiet \/ Leaves(d)
    <2>1. /\ req[d].at = "compute"
          /\ \/ req[d].alone /\ req'[d].at = "idle" /\ UNCHANGED locks /\ Others(d)
             \/ /\ ~req[d].alone /\ req'[d].at = "retry" /\ Release(d)
                /\ \A x \in Clients \ {d} :
                     IF Owns(d) /\ Waits(x, d) THEN LetDown(x) ELSE req'[x] = req[x]
      BY <1>5, FailStep DEF Ended
    <2>2. CASE req[d].alone /\ req'[d].at = "idle" /\ UNCHANGED locks /\ Others(d)
      BY <2>1, <2>2 DEF Quiet, Others, Bystander
    <2>3. CASE /\ ~req[d].alone /\ req'[d].at = "retry" /\ Release(d)
               /\ \A x \in Clients \ {d} :
                    IF Owns(d) /\ Waits(x, d) THEN LetDown(x) ELSE req'[x] = req[x]
      BY <2>1, <2>3 DEF Leaves, Bystander
    <2>. QED  BY <2>1, <2>2, <2>3
  <1>6. ASSUME NEW d \in Clients, NEW s \in Specs, Ask(d, s)
        PROVE  Quiet
    <2>1. UNCHANGED locks /\ Others(d) /\ req[d].at = "idle" /\ req'[d].at = "get"
      BY <1>6, AskStep
    <2>. QED  BY <2>1 DEF Quiet, Others, Bystander
  <1>7. CASE WarmRun \/ WarmSkipped \/ WarmSpec \/ Warmed \/ WarmFails \/ UNCHANGED vars
    BY <1>7, WarmRunStep, WarmSkippedStep, WarmSpecStep, WarmedStep, WarmFailsStep
    DEF Aside, WarmNext, vars, store, Quiet
  <1>. QED  BY <1>1, <1>2, <1>3, <1>4, <1>5, <1>6, <1>7, NextCases

\* Of a request r: it computes the key k under the lock, or is about to.
ComputesAs(r, k) == r.at = "compute" /\ ~r.alone /\ Key(r.spec) = k
HoldsAs(r, k)    == ComputesAs(r, k) \/ (r.at = "check" /\ Key(r.spec) = k)
ServesAs(o, r, l, k) == ComputesAs(r, k) /\ k \in DOMAIN l /\ l[k].owner = o

LEMMA AsDefined ==
  /\ \A o, k : Serves(o, k) <=> ServesAs(o, req[o], locks, k)
  /\ \A k : Orphaned(k) <=> k \in DOMAIN locks /\ ~HoldsAs(req[locks[k].owner], k)
  BY DEF Serves, Computes, ServesAs, ComputesAs, HoldsAs, Orphaned, Holds, At, K

\* A lock that is left behind stays so.
LEMMA OrphanStays ==
  ASSUME Types, Expiry, [Next]_vars, ~Outage, ~Tick, NEW k \in DOMAIN locks,
         ~HoldsAs(req[locks[k].owner], k)
  PROVE  k \in DOMAIN locks' /\ ~HoldsAs(req'[locks'[k].owner], k)
  <1>. DEFINE x == locks[k].owner
  <1>0. x \in Clients
    BY DEF Types, TypeOK
  <1>. HIDE DEF x
  <1>1. CASE Quiet
    <2>1. req'[x] = req[x] \/ Bystander(req'[x])
      BY <1>0, <1>1 DEF Quiet
    <2>2. locks' = locks /\ ~HoldsAs(req'[x], k)
      BY <1>1, <2>1 DEF Quiet, Bystander, HoldsAs, ComputesAs, x
    <2>. QED  BY <2>2 DEF x
  <1>2. ASSUME NEW d \in Clients, Takes(d)
        PROVE  k \in DOMAIN locks' /\ ~HoldsAs(req'[locks'[k].owner], k)
    <2>1. k # K(d) /\ k \in DOMAIN locks' /\ locks'[k] = locks[k]
      BY <1>2 DEF Takes, Put
    <2>2. CASE x = d
      <3>1. ~HoldsAs(req'[x], k)
        BY <1>2, <2>1, <2>2 DEF Takes, HoldsAs, ComputesAs, K
      <3>. QED  BY <2>1, <3>1 DEF x
    <2>3. CASE x # d
      <3>1. req'[x] = req[x]
        BY <1>0, <1>2, <2>3 DEF Takes, Others
      <3>. QED  BY <2>1, <3>1 DEF x
    <2>. QED  BY <2>2, <2>3
  <1>3. ASSUME NEW d \in Clients, Starts(d)
        PROVE  k \in DOMAIN locks' /\ ~HoldsAs(req'[locks'[k].owner], k)
    <2>1. ~HoldsAs(req'[x], k)
      <3>1. CASE x = d
        <4>1. Key(req[d].spec) # k
          BY <1>3, <3>1 DEF Starts, HoldsAs, x
        <4>. QED  BY <1>3, <3>1, <4>1 DEF Starts, HoldsAs, ComputesAs
      <3>2. CASE x # d
        BY <1>0, <1>3, <3>2 DEF Starts, Others, x
      <3>. QED  BY <3>1, <3>2
    <2>2. locks' = locks
      BY <1>3 DEF Starts
    <2>. QED  BY <2>1, <2>2 DEF x
  <1>4. ASSUME NEW d \in Clients, Leaves(d)
        PROVE  k \in DOMAIN locks' /\ ~HoldsAs(req'[locks'[k].owner], k)
    <2>1. k \in DOMAIN locks' /\ locks'[k] = locks[k]
      <3>1. ~(Owns(d) /\ K(d) = k)
        BY <1>4 DEF Leaves, Owns, K, Bystander, HoldsAs, ComputesAs
      <3>. QED  BY <1>4, <3>1 DEF Leaves, Release
    <2>2. ~HoldsAs(req'[x], k)
      <3>1. CASE x = d
        BY <1>4, <3>1 DEF Leaves, Bystander, HoldsAs, ComputesAs
      <3>2. CASE x # d
        <4>1. req'[x] = req[x] \/ LetDown(x)
          BY <1>0, <1>4, <3>2 DEF Leaves, Others
        <4>. QED  BY <4>1 DEF LetDown, Goes, HoldsAs, ComputesAs, x
      <3>. QED  BY <3>1, <3>2
    <2>. QED  BY <2>1, <2>2 DEF x
  <1>. QED  BY <1>1, <1>2, <1>3, <1>4, LockKinds

\* Nobody computes what is there.
LEMMA FilledStays ==
  ASSUME Types, Expiry, [Next]_vars, ~Outage, ~Tick, NEW k, Live(k),
         \A o \in Clients : ~ServesAs(o, req[o], locks, k), NEW x \in Clients
  PROVE  ~ServesAs(x, req'[x], locks', k)
  <1>1. CASE Quiet
    BY <1>1 DEF Quiet, Bystander, ServesAs, ComputesAs
  <1>2. ASSUME NEW d \in Clients, Takes(d)
        PROVE  ~ServesAs(x, req'[x], locks', k)
    <2>1. CASE x = d
      BY <1>2, <2>1 DEF Takes, ServesAs, ComputesAs
    <2>2. CASE x # d
      <3>1. req'[x] = req[x]
        BY <1>2, <2>2 DEF Takes, Others
      <3>2. \A j \in DOMAIN locks' : locks'[j].owner = d \/ (j \in DOMAIN locks /\ locks'[j] = locks[j])
        BY <1>2 DEF Takes, Put
      <3>. QED  BY <2>2, <3>1, <3>2 DEF ServesAs
    <2>. QED  BY <2>1, <2>2
  <1>3. ASSUME NEW d \in Clients, Starts(d)
        PROVE  ~ServesAs(x, req'[x], locks', k)
    <2>1. CASE x = d
      BY <1>3, <2>1 DEF Starts, ServesAs, ComputesAs, K
    <2>2. CASE x # d
      BY <1>3, <2>2 DEF Starts, Others
    <2>. QED  BY <2>1, <2>2
  <1>4. ASSUME NEW d \in Clients, Leaves(d)
        PROVE  ~ServesAs(x, req'[x], locks', k)
    <2>1. CASE x = d
      BY <1>4, <2>1 DEF Leaves, Bystander, ServesAs, ComputesAs
    <2>2. CASE x # d
      <3>1. req'[x] = req[x] \/ LetDown(x)
        BY <1>4, <2>2 DEF Leaves, Others
      <3>2. \A j \in DOMAIN locks' : j \in DOMAIN locks /\ locks'[j] = locks[j]
        BY <1>4, ReleaseFacts DEF Leaves
      <3>. QED  BY <3>1, <3>2 DEF LetDown, Goes, ServesAs, ComputesAs
    <2>. QED  BY <2>1, <2>2
  <1>. QED  BY <1>1, <1>2, <1>3, <1>4, LockKinds

\* Who computes under the lock goes on, or has filled the entry, or lets
\* everybody down who waits.
LEMMA ServingEnds ==
  ASSUME Types, Expiry, [Next]_vars, ~Outage, ~Tick, redis, NEW k, NEW o \in Clients,
         ServesAs(o, req[o], locks, k)
  PROVE  \/ ServesAs(o, req'[o], locks', k) /\ req'[o] = req[o]
         \/ k \in DOMAIN entries' /\ \A x \in Clients : ~ServesAs(x, req'[x], locks', k)
         \/ \A x \in Clients : req[x].at \in {"lock", "retry"} /\ K(x) = k => req'[x].failed
  <1>0. req[o].at = "compute" /\ ~req[o].alone /\ K(o) = k /\ k \in DOMAIN locks /\ locks[k].owner = o
    BY DEF ServesAs, ComputesAs, K
  <1>1. CASE Quiet
    BY <1>0, <1>1 DEF Quiet, Bystander
  <1>2. ASSUME NEW d \in Clients, Takes(d)
        PROVE  ServesAs(o, req'[o], locks', k) /\ req'[o] = req[o]
    <2>1. d # o /\ k # K(d)
      BY <1>0, <1>2 DEF Takes, Bystander
    <2>2. req'[o] = req[o] /\ k \in DOMAIN locks' /\ locks'[k] = locks[k]
      BY <1>0, <1>2, <2>1 DEF Takes, Others, Put
    <2>. QED  BY <2>2 DEF ServesAs
  <1>3. ASSUME NEW d \in Clients, Starts(d)
        PROVE  ServesAs(o, req'[o], locks', k) /\ req'[o] = req[o]
    <2>1. d # o
      BY <1>0, <1>3 DEF Starts
    <2>. QED  BY <1>3, <2>1 DEF Starts, Others
  <1>4. ASSUME NEW d \in Clients \ {o}, Leaves(d)
        PROVE  ServesAs(o, req'[o], locks', k) /\ req'[o] = req[o]
    <2>1. req'[o] = req[o]
      BY <1>0, <1>4 DEF Leaves, Others, Waits
    <2>2. k \in DOMAIN locks' /\ locks'[k] = locks[k]
      BY <1>0, <1>4, ReleaseFacts DEF Leaves
    <2>. QED  BY <2>1, <2>2 DEF ServesAs
  <1>5. ASSUME Leaves(o)
        PROVE  \/ k \in DOMAIN entries' /\ \A x \in Clients : ~ServesAs(x, req'[x], locks', k)
               \/ \A x \in Clients : req[x].at \in {"lock", "retry"} /\ K(x) = k => req'[x].failed
    <2>1. Owns(o)
      BY <1>0 DEF Owns
    <2>2. k \notin DOMAIN locks'
      BY <1>0, <1>5, <2>1 DEF Leaves, Release
    <2>3. \A x \in Clients : ~ServesAs(x, req'[x], locks', k)
      BY <2>2 DEF ServesAs
    <2>4. CASE redis => K(o) \in DOMAIN entries'
      BY <1>0, <2>3, <2>4
    <2>5. CASE \A x \in Clients \ {o} : IF Owns(o) /\ Waits(x, o) THEN LetDown(x) ELSE req'[x] = req[x]
      BY <1>0, <2>1, <2>5 DEF Waits, LetDown
    <2>. QED  BY <1>5, <2>4, <2>5 DEF Leaves
  <1>. QED  BY <1>1, <1>2, <1>3, <1>4, <1>5, LockKinds

\* Awaits, of the client c
AwaitsOf(c) ==
  LET k == Key(req[c].spec) IN
  ~req[c].failed /\ ~req[c].cut =>
    /\ req[c].at = "lock" /\ req[c].since < now =>
         \/ \E o \in Clients : ServesAs(o, req[o], locks, k) /\ req[o].from <= req[c].since
         \/ k \in DOMAIN locks /\ ~HoldsAs(req[locks[k].owner], k)
         \/ Live(k) /\ \A o \in Clients : ~ServesAs(o, req[o], locks, k)
    /\ req[c].at = "retry" =>
         \/ \E o \in Clients : ServesAs(o, req[o], locks, k) /\ now - req[o].from >= Blocking
         \/ k \in DOMAIN locks /\ ~HoldsAs(req[locks[k].owner], k)
         \/ Live(k)
CutOff == ~redis => \A c \in Clients : req[c].at = "idle" \/ req[c].cut

LEMMA AwaitsParts == Awaits <=> CutOff /\ \A c \in Clients : AwaitsOf(c)
  BY AsDefined DEF Awaits, CutOff, AwaitsOf, At, K

LEMMA CutOffStep ==
  ASSUME Types, Expiry, Pace, Cycles, CutOff, [Next]_vars
  PROVE  CutOff'
  <1>. SUFFICES ASSUME ~redis', NEW c \in Clients PROVE req'[c].at = "idle" \/ req'[c].cut
    BY DEF CutOff
  <1>1. CASE Outage
    BY <1>1, OutageStep
  <1>2. CASE Tick
    BY <1>2, TickStep, IdleType DEF CutOff, Goes, Carried
  <1>3. CASE ~Outage /\ ~Tick
    <2>1. ~redis
      BY <1>3, Lasting
    <2>. QED  BY <1>3, <2>1, Moves DEF CutOff, Passes, LetDown, Goes, Carried, Returns, Ended, Begins
  <1>. QED  BY <1>1, <1>2, <1>3

LEMMA AwaitsTick ==
  ASSUME Types, Expiry, Pace, Tick, NEW c \in Clients, AwaitsOf(c)
  PROVE  AwaitsOf(c)'
  <1>. DEFINE k == Key(req[c].spec)
  <1>1. CASE req[c].at # "lock" \/ req'[c].failed \/ req[c].cut
    BY <1>1, TickStep, IdleType DEF AwaitsOf, Goes, Carried
  <1>2. CASE req[c].at = "lock" /\ ~req'[c].failed /\ ~req[c].cut
    <2>1. /\ now' = now + 1 /\ req'[c] = req[c] /\ k \in DOMAIN locks /\ k \in DOMAIN locks'
          /\ locks' = Unexpired(locks, now + 1)
      BY <1>2, TickStep DEF K
    <2>2. locks'[k] = locks[k]
      BY <2>1 DEF Unexpired
    <2>. DEFINE x == locks[k].owner
    <2>3. x \in Clients
      BY <2>1 DEF Types, TypeOK
    <2>. HIDE DEF x
    <2>4. \/ req'[x].at = "idle" /\ req[x].at = "idle"
          \/ req'[x].at = "lock" /\ req[x].at = "lock"
          \/ req[x].at = "compute" /\ req'[x] = req[x]
      <3>1. \/ req[x].at = "idle" /\ req'[x] = Idle
            \/ req[x].at = "lock" /\ Goes(x, "lock", "lock")
            \/ req[x].at = "compute" /\ req'[x] = req[x]
        BY <2>3, TickStep
      <3>. QED  BY <3>1, IdleType DEF Goes
    <2>5. CASE ~HoldsAs(req[x], k)
      <3>1. ~HoldsAs(req'[x], k)
        BY <2>4, <2>5 DEF HoldsAs, ComputesAs
      <3>2. k \in DOMAIN locks' /\ ~HoldsAs(req'[locks'[k].owner], k)
        BY <2>1, <2>2, <3>1 DEF x
      <3>. QED  BY <1>2, <2>1, <3>2 DEF AwaitsOf
    <2>6. CASE HoldsAs(req[x], k)
      <3>1. ComputesAs(req[x], k) /\ req'[x] = req[x]
        BY <2>4, <2>6 DEF HoldsAs, ComputesAs
      <3>2. ServesAs(x, req[x], locks, k) /\ ServesAs(x, req'[x], locks', k)
        BY <2>1, <2>2, <3>1 DEF ServesAs, x
      <3>3. /\ now \in Nat /\ req[c].since \in Nat /\ req[x].from \in Nat
            /\ req[c].since <= now /\ req[x].from <= now
        BY <1>2, <2>3, <3>1, ReqTypes DEF Pace, Req, ComputesAs
      <3>4. req[x].from <= req[c].since
        <4>1. CASE req[c].since = now
          BY <3>3, <4>1
        <4>2. CASE req[c].since < now /\ ~req[c].cut
          <5>1. \/ \E o \in Clients : ServesAs(o, req[o], locks, k) /\ req[o].from <= req[c].since
                \/ ~HoldsAs(req[x], k)
                \/ \A o \in Clients : ~ServesAs(o, req[o], locks, k)
            BY <1>2, <2>1, <4>2 DEF AwaitsOf, x
          <5>2. \A o \in Clients : ServesAs(o, req[o], locks, k) => o = x
            BY DEF ServesAs, x
          <5>. QED  BY <2>3, <2>6, <3>2, <5>1, <5>2
        <4>. QED  BY <1>2, <3>3, <4>1, <4>2
      <3>5. req'[c].at = "lock" => \E o \in Clients : ServesAs(o, req'[o], locks', k) /\ req'[o].from <= req'[c].since
        BY <2>1, <2>3, <3>1, <3>2, <3>4
      <3>. QED  BY <1>2, <2>1, <3>5 DEF AwaitsOf
    <2>. QED  BY <2>5, <2>6
  <1>. QED  BY <1>1, <1>2

LEMMA AwaitsStep ==
  ASSUME Types, Expiry, Pace, Cycles, Awaits, [Next]_vars
  PROVE  Awaits'
  <1>0. CutOff /\ \A c \in Clients : AwaitsOf(c)
    BY AwaitsParts
  <1>. SUFFICES ASSUME NEW c \in Clients PROVE AwaitsOf(c)'
    <2>1. SUFFICES ASSUME \A c \in Clients : AwaitsOf(c)' PROVE Awaits'
      OBVIOUS
    <2>2. (CutOff /\ \A c \in Clients : AwaitsOf(c))'
      BY <1>0, <2>1, CutOffStep
    <2>. QED  BY <2>2, AwaitsParts, PTL
  <1>1. CASE Tick
    BY <1>0, <1>1, AwaitsTick
  <1>2. CASE Outage
    BY <1>2, OutageStep DEF AwaitsOf
  <1>3. ASSUME ~Tick, ~Outage, ~req'[c].failed, ~req'[c].cut,
               \/ req'[c].at = "lock" /\ req'[c].since < now'
               \/ req'[c].at = "retry"
        PROVE  AwaitsOf(c)'
    <2>. DEFINE r == req[c]
    <2>. DEFINE k == Key(r.spec)
    <2>0. now \in Nat /\ r.since \in Nat /\ r \in Req
      BY ReqTypes DEF Req
    <2>1. /\ UNCHANGED <<now, redis>> /\ DOMAIN entries \subseteq DOMAIN entries'
      BY <1>3, Lasting
    <2>2. \/ req'[c] = r
          \/ /\ r.at = "lock" /\ req'[c].at = "retry" /\ Carried(c) /\ ~r.failed
             /\ ~redis \/ now - r.since >= Blocking
      BY <1>3, <2>0, <2>1, Moves DEF Passes, LetDown, Goes, Carried, Returns, Ended, Begins, Pace
    <2>3. /\ redis /\ ~r.cut /\ ~r.failed /\ req'[c].spec = r.spec /\ req'[c].since = r.since
          /\ r.at \in {"lock", "retry"}
      BY <1>0, <1>3, <2>2 DEF CutOff, Carried
    <2>4. ASSUME k \in DOMAIN locks, ~HoldsAs(req[locks[k].owner], k)
          PROVE  AwaitsOf(c)'
      <3>1. k \in DOMAIN locks' /\ ~HoldsAs(req'[locks'[k].owner], k)
        BY <1>3, <2>4, OrphanStays
      <3>. QED  BY <2>3, <3>1 DEF AwaitsOf
    <2>5. ASSUME k \in DOMAIN entries'
          PROVE  req'[c].at = "retry" => AwaitsOf(c)'
      BY <2>1, <2>3, <2>5 DEF AwaitsOf, Live
    <2>6. ASSUME k \in DOMAIN entries', \A o \in Clients : ~ServesAs(o, req'[o], locks', k)
          PROVE  AwaitsOf(c)'
      BY <2>1, <2>3, <2>6 DEF AwaitsOf, Live
    <2>7. ASSUME NEW o \in Clients, ServesAs(o, req[o], locks, k),
                 req'[c].at = "lock" => req[o].from <= r.since,
                 req'[c].at = "retry" => now - req[o].from >= Blocking
          PROVE  AwaitsOf(c)'
      <3>1. \/ ServesAs(o, req'[o], locks', k) /\ req'[o] = req[o]
            \/ k \in DOMAIN entries' /\ \A x \in Clients : ~ServesAs(x, req'[x], locks', k)
        BY <1>3, <2>3, <2>7, ServingEnds DEF K
      <3>2. CASE ServesAs(o, req'[o], locks', k) /\ req'[o] = req[o]
        BY <1>3, <2>1, <2>3, <2>7, <3>2 DEF AwaitsOf
      <3>. QED  BY <2>6, <3>1, <3>2
    <2>8. CASE req'[c] = r /\ r.at = "lock"
      <3>1. \/ \E o \in Clients : ServesAs(o, req[o], locks, k) /\ req[o].from <= r.since
            \/ k \in DOMAIN locks /\ ~HoldsAs(req[locks[k].owner], k)
            \/ Live(k) /\ \A o \in Clients : ~ServesAs(o, req[o], locks, k)
        BY <1>0, <1>3, <2>1, <2>3, <2>8 DEF AwaitsOf
      <3>2. CASE Live(k) /\ \A o \in Clients : ~ServesAs(o, req[o], locks, k)
        BY <1>3, <2>1, <2>6, <3>2, FilledStays DEF Live
      <3>. QED  BY <2>4, <2>7, <2>8, <3>1, <3>2
    <2>9. CASE req'[c] = r /\ r.at = "retry"
      <3>1. \/ \E o \in Clients : ServesAs(o, req[o], locks, k) /\ now - req[o].from >= Blocking
            \/ k \in DOMAIN locks /\ ~HoldsAs(req[locks[k].owner], k)
            \/ Live(k)
        BY <1>0, <2>3, <2>9 DEF AwaitsOf
      <3>2. CASE Live(k)
        BY <2>1, <2>5, <2>9, <3>2 DEF Live
      <3>. QED  BY <2>4, <2>7, <2>9, <3>1, <3>2
    <2>10. CASE /\ r.at = "lock" /\ req'[c].at = "retry" /\ now - r.since >= Blocking
      <3>1. r.since < now
        BY <2>0, <2>10, Delays
      <3>2. \/ \E o \in Clients : ServesAs(o, req[o], locks, k) /\ req[o].from <= r.since
            \/ k \in DOMAIN locks /\ ~HoldsAs(req[locks[k].owner], k)
            \/ Live(k)
        BY <1>0, <2>3, <2>10, <3>1 DEF AwaitsOf
      <3>3. ASSUME NEW o \in Clients, ServesAs(o, req[o], locks, k), req[o].from <= r.since
            PROVE  AwaitsOf(c)'
        <4>1. req[o].from \in Nat
          BY ReqTypes DEF Req
        <4>2. now - req[o].from >= Blocking
          BY <2>0, <2>10, <3>3, <4>1, Delays
        <4>. QED  BY <2>7, <2>10, <3>3, <4>2
      <3>4. CASE Live(k)
        BY <2>1, <2>5, <2>10, <3>4 DEF Live
      <3>. QED  BY <2>4, <3>2, <3>3, <3>4
    <2>. QED  BY <2>2, <2>3, <2>8, <2>9, <2>10
  <1>4. CASE \/ req'[c].failed \/ req'[c].cut
             \/ ~(\/ req'[c].at = "lock" /\ req'[c].since < now'
                  \/ req'[c].at = "retry")
    BY <1>4 DEF AwaitsOf
  <1>. QED  BY <1>1, <1>2, <1>3, <1>4

LEMMA ReqStep ==
  ASSUME Types, Expiry, [Next]_vars
  PROVE  req' \in [Clients -> Req]
  <1>1. ASSUME NEW c \in Clients PROVE req'[c] \in Req
    <2>1. req[c] \in Req
      BY ReqTypes
    <2>2. CASE Outage
      BY <2>1, <2>2, OutageStep
    <2>3. CASE Tick
      BY <2>1, <2>3, TickStep, IdleType DEF Goes, Carried
    <2>. QED  BY <2>1, <2>2, <2>3, Moves DEF Passes, LetDown, Goes, Carried, Returns, Ended, Begins
  <1>2. DOMAIN req' = Clients /\ req' = [c \in Clients |-> req'[c]]
    <2>1. \A c \in Clients : \A r : Become(c, r) => req' = [x \in Clients |-> req'[x]] /\ DOMAIN req' = Clients
      BY DEF Types, Become
    <2>2. ASSUME NEW c \in Clients,
                 Get(c) \/ Acquire(c) \/ GiveUp(c) \/ Check(c) \/ Computed(c) \/ Retry(c)
          PROVE  \E r : Become(c, r)
      BY <2>2 DEF Get, Hit, Acquire, GiveUp, Check, Compute, Computed, Retry, Move
    <2>3. ASSUME NEW c \in Clients, NEW s \in Specs, Ask(c, s) PROVE \E r : Become(c, r)
      BY <2>3 DEF Ask
    <2>4. CASE Outage \/ Tick \/ \E c \in Clients : ComputeFails(c)
      BY <2>4, <2>1 DEF Outage, Tick, ComputeFails
    <2>5. CASE WarmRun \/ WarmSkipped \/ WarmSpec \/ Warmed \/ WarmFails \/ UNCHANGED vars
      <3>1. req' = req
        BY <2>5, WarmRunStep, WarmSkippedStep, WarmSpecStep, WarmedStep, WarmFailsStep DEF Aside, WarmNext, vars
      <3>. QED  BY <3>1 DEF Types
    <2>. QED  BY <2>1, <2>2, <2>3, <2>4, <2>5, NextCases
  <1>. QED  BY <1>1, <1>2

LEMMA WarmerStep ==
  ASSUME Types, Expiry, [Next]_vars
  PROVE  warmer' \in Warmer /\ redis' \in BOOLEAN /\ events' \in Nat
  <1>0. warmer \in Warmer /\ redis \in BOOLEAN /\ events \in Nat
    BY DEF Types, Warmer
  <1>1. ASSUME NEW c \in Clients,
               Get(c) \/ Acquire(c) \/ GiveUp(c) \/ Check(c) \/ Computed(c) \/ ComputeFails(c) \/ Retry(c)
        PROVE  UNCHANGED <<warmer, redis>> /\ (UNCHANGED events \/ events' = events + 1)
    BY <1>1, GetStep, AcquireStep, GiveUpStep, CheckStep, ComputedStep, FailStep, RetryStep DEF Still
  <1>2. CASE WarmRun \/ WarmSkipped \/ WarmSpec \/ Warmed \/ WarmFails
    <2>1. warmer' \in Warmer /\ UNCHANGED redis
      BY <1>2, WarmRunStep, WarmSkippedStep, WarmSpecStep, WarmedStep, WarmFailsStep DEF Aside, WarmNext
    <2>2. UNCHANGED events \/ events' = events + 1
      BY <1>2, WarmRunStep, WarmSkippedStep, WarmSpecStep, WarmedStep, WarmFailsStep
    <2>. QED  BY <1>0, <2>1, <2>2
  <1>3. CASE UNCHANGED vars
    BY <1>0, <1>3 DEF vars
  <1>4. ASSUME NEW c \in Clients, NEW s \in Specs, Ask(c, s)
        PROVE  UNCHANGED <<warmer, redis>> /\ events' = events + 1
    BY <1>4, AskStep
  <1>5. CASE Outage
    <2>1. UNCHANGED warmer /\ redis' = ~redis /\ events' = events + 1
      BY <1>5, OutageStep
    <2>2. events' \in Nat
      BY <1>0, <2>1
    <2>. QED  BY <1>0, <2>1, <2>2
  <1>6. CASE Tick
    BY <1>0, <1>6, TickStep
  <1>7. UNCHANGED <<warmer, redis>> /\ (UNCHANGED events \/ events' = events + 1)
        => warmer' \in Warmer /\ redis' \in BOOLEAN /\ events' \in Nat
    BY <1>0
  <1>. QED  BY <1>1, <1>2, <1>3, <1>4, <1>5, <1>6, <1>7, NextCases

LEMMA DomainsStep ==
  ASSUME Types, Expiry, Pace, Cycles, [Next]_vars
  PROVE  /\ now' \in 0..MaxTime /\ kept' \subseteq DOMAIN polled'
         /\ DOMAIN entries' \subseteq Keys /\ DOMAIN locks' \subseteq Keys
         /\ \A g \in DOMAIN markers' : markers'[g].spec \in Specs /\ Sig(markers'[g].spec) = g
         /\ \A k \in DOMAIN locks' : locks'[k].owner \in Clients
  <1>0. /\ now \in 0..MaxTime /\ kept \subseteq DOMAIN polled /\ MaxTime \in Nat
        /\ DOMAIN entries \subseteq Keys /\ DOMAIN locks \subseteq Keys
        /\ \A g \in DOMAIN markers : markers[g].spec \in Specs /\ Sig(markers[g].spec) = g
        /\ \A k \in DOMAIN locks : locks[k].owner \in Clients
    BY Delays DEF Types, TypeOK
  <1>1. now' \in 0..MaxTime
    BY <1>0, Fills, TickStep
  <1>2. DOMAIN entries' \subseteq Keys
    <2>1. ASSUME NEW s \in Specs, NEW t \in Nat, Filling(s, t) PROVE DOMAIN entries' \subseteq Keys
      <3>1. Key(s) \in Keys
        BY KeyWindow
      <3>2. entries' = entries \/ DOMAIN entries' = DOMAIN entries \cup {Key(s)}
        BY <2>1, FillFacts DEF Filling
      <3>. QED  BY <1>0, <3>1, <3>2
    <2>2. Tick => DOMAIN entries' \subseteq DOMAIN entries
      BY TickStep DEF Unexpired
    <2>. QED  BY <1>0, <2>1, <2>2, Fills
  <1>3. DOMAIN locks' \subseteq Keys /\ \A k \in DOMAIN locks' : locks'[k].owner \in Clients
    <2>1. ASSUME NEW c \in Clients, Acquire(c)
          PROVE  DOMAIN locks' \subseteq Keys /\ \A k \in DOMAIN locks' : locks'[k].owner \in Clients
      <3>. DEFINE v == [owner |-> c, until |-> now + LockTTL]
      <3>1. locks' = Put(locks, K(c), v) /\ K(c) \in Keys /\ v.owner = c
        BY <2>1, AcquireStep, ReqTypes, KeyWindow DEF K, At
      <3>. HIDE DEF v
      <3>2. /\ DOMAIN locks' = DOMAIN locks \cup {K(c)}
            /\ \A k \in DOMAIN locks' : locks'[k] = v \/ (k \in DOMAIN locks /\ locks'[k] = locks[k])
        BY <3>1 DEF Put
      <3>. QED  BY <1>0, <3>1, <3>2
    <2>2. ASSUME NEW c \in Clients, Release(c)
          PROVE  DOMAIN locks' \subseteq Keys /\ \A k \in DOMAIN locks' : locks'[k].owner \in Clients
      BY <1>0, <2>2, ReleaseFacts
    <2>3. Tick => \A k \in DOMAIN locks' : k \in DOMAIN locks /\ locks'[k] = locks[k]
      BY TickStep DEF Unexpired
    <2>4. Outage => UNCHANGED locks \/ DOMAIN locks' = {}
      BY OutageStep
    <2>. QED  BY <1>0, <2>1, <2>2, <2>3, <2>4, LockMoves
  <1>4. \A g \in DOMAIN markers' : markers'[g].spec \in Specs /\ Sig(markers'[g].spec) = g
    <2>1. ASSUME NEW s \in Specs, markers' = Put(markers, Sig(s), [spec |-> s, until |-> now + WarmTTL])
          PROVE  \A g \in DOMAIN markers' : markers'[g].spec \in Specs /\ Sig(markers'[g].spec) = g
      <3>. DEFINE v == [spec |-> s, until |-> now + WarmTTL]
      <3>1. markers' = Put(markers, Sig(s), v) /\ v.spec = s
        BY <2>1
      <3>. HIDE DEF v
      <3>2. \A g \in DOMAIN markers' : \/ g = Sig(s) /\ markers'[g] = v
                                       \/ g \in DOMAIN markers /\ markers'[g] = markers[g]
        BY <3>1 DEF Put
      <3>. QED  BY <1>0, <3>1, <3>2
    <2>2. Tick => \A g \in DOMAIN markers' : g \in DOMAIN markers /\ markers'[g] = markers[g]
      BY TickStep DEF Unexpired
    <2>3. Outage => UNCHANGED markers \/ DOMAIN markers' = {}
      BY OutageStep
    <2>. QED  BY <1>0, <2>1, <2>2, <2>3, MarkerMoves
  <1>5. kept' \subseteq DOMAIN polled'
    <2>1. ASSUME NEW c \in Clients,
                 Get(c) \/ Acquire(c) \/ GiveUp(c) \/ Check(c) \/ Computed(c) \/ ComputeFails(c) \/ Retry(c)
          PROVE  UNCHANGED <<kept, polled>>
      BY <2>1, GetStep, AcquireStep, GiveUpStep, CheckStep, ComputedStep, FailStep, RetryStep DEF Still
    <2>2. ASSUME NEW c \in Clients, NEW s \in Specs, Ask(c, s)
          PROVE  UNCHANGED kept /\ DOMAIN polled \subseteq DOMAIN polled'
      <3>1. UNCHANGED kept /\ (UNCHANGED polled \/ polled' = Put(polled, s, [until |-> now + WarmTTL]))
        BY <2>2, AskStep
      <3>. DEFINE u == [until |-> now + WarmTTL]
      <3>. HIDE DEF u
      <3>2. \A f : DOMAIN f \subseteq DOMAIN Put(f, s, u)
        BY DEF Put
      <3>. QED  BY <3>1, <3>2 DEF u
    <2>3. CASE WarmRun \/ WarmSkipped \/ WarmSpec \/ WarmFails \/ UNCHANGED vars
      BY <1>0, <2>3, WarmRunStep, WarmSkippedStep, WarmSpecStep, WarmFailsStep DEF WarmNext, vars
    <2>4. CASE Warmed
      BY <1>0, <2>4, WarmedStep DEF WarmNext
    <2>5. CASE Outage
      BY <2>5, OutageStep
    <2>6. CASE Tick
      BY <2>6, TickStep
    <2>. QED  BY <1>0, <2>1, <2>2, <2>3, <2>4, <2>5, <2>6, NextCases
  <1>. QED  BY <1>1, <1>2, <1>3, <1>4, <1>5

LEMMA TypesStep ==
  ASSUME Types, Expiry, Pace, Cycles, Cycles', EntriesLive', [Next]_vars
  PROVE  Types'
  <1>1. \A c \in Clients : At(c, "idle")' \/ req'[c].spec \in Specs
    <2>. SUFFICES ASSUME NEW c \in Clients PROVE req'[c].at = "idle" \/ req'[c].spec \in Specs
      BY DEF At
    <2>1. req[c].at = "idle" \/ req[c].spec \in Specs
      BY ReqTypes DEF At
    <2>2. CASE Outage
      BY <2>1, <2>2, OutageStep
    <2>3. CASE Tick
      BY <2>1, <2>3, TickStep, IdleType DEF Goes, Carried
    <2>. QED  BY <2>1, <2>2, <2>3, Moves DEF Passes, LetDown, Goes, Carried, Returns, Ended, Begins
  <1>2. now' \in Nat /\ now' <= MaxTime /\ MaxTime \in Nat
    BY DomainsStep, Delays
  <1>3. \A k \in DOMAIN entries' : entries'[k].until \in Times
    BY <1>2, Delays DEF EntriesLive, Times
  <1>4. warmer' \in Warmer
    BY WarmerStep
  <1>5. warmer'.todo \subseteq Specs /\ warmer'.due \in Nat
    BY <1>4 DEF Warmer
  <1>6. warmer'.due \in now'..now' + WarmEvery
    BY <1>2, <1>5, Delays DEF Cycles
  <1>7. Cardinality(warmer'.todo) <= MaxPerCycle
    <2>0. Cardinality(warmer.todo) <= MaxPerCycle /\ IsFiniteSet(warmer.todo)
      BY DEF Types, TypeOK, Cycles
    <2>1. CASE WarmRun
      BY <2>1, WarmRunStep, Delays
    <2>2. CASE WarmSpec
      <3>1. warmer'.todo \subseteq warmer.todo
        BY <2>2, WarmSpecStep
      <3>2. Cardinality(warmer'.todo) <= Cardinality(warmer.todo)
        BY <2>0, <3>1, FS_Subset
      <3>3. Cardinality(warmer'.todo) \in Nat /\ Cardinality(warmer.todo) \in Nat
        BY <2>0, <3>1, FS_Subset, FS_CardinalityType
      <3>. QED  BY <2>0, <3>2, <3>3, Delays
    <2>3. CASE UNCHANGED warmer \/ warmer'.todo = warmer.todo
      BY <2>0, <2>3
    <2>4. ASSUME NEW c \in Clients,
                 Get(c) \/ Acquire(c) \/ GiveUp(c) \/ Check(c) \/ Computed(c) \/ ComputeFails(c) \/ Retry(c)
          PROVE  UNCHANGED warmer
      BY <2>4, GetStep, AcquireStep, GiveUpStep, CheckStep, ComputedStep, FailStep, RetryStep DEF Still
    <2>. QED  BY <2>1, <2>2, <2>3, <2>4, AskStep, WarmSkippedStep, WarmedStep, WarmFailsStep, OutageStep, TickStep,
                 NextCases DEF WarmNext, vars
  <1>. QED  BY <1>1, <1>3, <1>4, <1>5, <1>6, <1>7, DomainsStep, ReqStep, WarmerStep, MarkersStep
            DEF Types, TypeOK, Warmer

-----------------------------------------------------------------------------
(* The invariant                                                           *)

LEMMA InitIInv == Init => IInv
  <1>. SUFFICES ASSUME Init PROVE IInv
    OBVIOUS
  <1>1. /\ now = 0 /\ redis = TRUE /\ kept = {} /\ events = 0
        /\ DOMAIN entries = {} /\ DOMAIN markers = {} /\ DOMAIN locks = {} /\ DOMAIN polled = {}
        /\ req = [c \in Clients |-> Idle]
        /\ warmer = [at |-> "idle", todo |-> {}, spec |-> None, from |-> 0, due |-> WarmEvery]
    BY DEF Init
  <1>2. /\ warmer.at = "idle" /\ warmer.todo = {} /\ warmer.due = WarmEvery
        /\ warmer \in Warmer
    BY <1>1, Delays DEF Warmer
  <1>3. \A c \in Clients : req[c] = Idle
    BY <1>1
  <1>4. IsFiniteSet({}) /\ Cardinality({}) = 0
    BY FS_EmptySet
  <1>5. TypeOK
    BY <1>1, <1>2, <1>3, <1>4, Delays, IdleType DEF TypeOK, At
  <1>6. Types
    BY <1>1, <1>2, <1>4, <1>5, IdleType DEF Types, Warmer
  <1>7. Expiry /\ Buckets /\ FreshEntries
    BY <1>1 DEF Expiry, EntriesLive, LocksLive, MarkersLive, PolledLive, Buckets, FreshEntries
  <1>8. FreshAnswers
    BY <1>3, IdleType, LagType DEF FreshAnswers
  <1>9. Pace /\ Owned /\ KeptWarm /\ Awaits
    BY <1>1, <1>3, IdleType DEF Pace, Owned, KeptWarm, Awaits, At
  <1>10. Cycles
    BY <1>1, <1>2, <1>4, Delays DEF Cycles
  <1>11. Watched
    BY <1>1 DEF Watched
  <1>. QED  BY <1>6, <1>7, <1>8, <1>9, <1>10, <1>11, OwnedAlone, FreshParts DEF IInv

LEMMA StepIInv == IInv /\ [Next]_vars => IInv'
  <1>. SUFFICES ASSUME IInv, [Next]_vars PROVE IInv'
    OBVIOUS
  <1>0. /\ Types /\ Expiry /\ Pace /\ Owned /\ Buckets /\ FreshEntries /\ FreshAnswers
        /\ Cycles /\ Watched /\ KeptWarm /\ Awaits
    BY FreshParts DEF IInv
  <1>1. Cycles'
    BY <1>0, CyclesStep
  <1>2. EntriesLive' /\ LocksLive' /\ MarkersLive' /\ PolledLive'
    BY <1>0, EntriesStep, LocksStep, MarkersStep
  <1>3. Types'
    BY <1>0, <1>1, <1>2, TypesStep
  <1>4. Pace' /\ Owned' /\ Buckets'
    BY <1>0, PaceStep, OwnedStep, BucketsStep
  <1>5. FreshEntries' /\ FreshAnswers'
    BY <1>0, FreshEntriesStep, FreshAnswersStep
  <1>6. FreshEnough'
    BY <1>5, FreshParts DEF FreshEntries, FreshAnswers, Bound, Lag, FreshEnough
  <1>7. Watched'
    <2>1. Marked'
      BY <1>0, WatchedParts, MarkedStep
    <2>2. \A s \in kept' : Fresh(s)'
      BY <1>0, <1>1, KeptStep
    <2>. QED  BY <2>1, <2>2 DEF Watched, Marked, Fresh
  <1>8. KeptWarm'
    BY <1>0, KeptWarmStep
  <1>9. Awaits'
    BY <1>0, AwaitsStep
  <1>10. SingleFlight'
    BY <1>3, <1>4, <1>9, OwnedAlone, PTL
  <1>. QED  BY <1>1, <1>2, <1>3, <1>4, <1>6, <1>7, <1>8, <1>9, <1>10 DEF IInv, Expiry

\* The invariant holds in every state that the read path reaches.
THEOREM Invariance == Spec => []IInv
  BY InitIInv, StepIInv, PTL DEF Spec

\* "Collapses a cold-cache stampede of identical requests into one DB query":
\* for any number of clients, of the requests for a key one computes, unless it
\* outlives its lock; and who stops waiting for it, of its own lock and Redis
\* being well, does so for what is there, a lock that nobody holds, or the one
\* that computes all the time it waited.
THEOREM OneComputes == Spec => []SingleFlight
  BY Invariance, PTL DEF IInv

\* "Watched keys are always a HIT", for any number of watchers and however long
\* a cycle takes, as long as each comes to the key less than TTL - WarmEvery
\* after it began and none is skipped.
THEOREM WatchedStayWarm == Spec => []KeptWarm
  BY Invariance, PTL DEF IInv

\* No answer is older than an entry's life and what filled it add up to, however
\* many computations a cycle of the warmer strings together.
THEOREM AnswersAreFresh == Spec => []FreshEnough
  BY Invariance, PTL DEF IInv
=============================================================================
