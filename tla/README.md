# Verification of spectrum-scanner

TLA+ models of the parts of spectrum-scanner whose correctness depends on
concurrency, failure or order, the TLC runs that check them on small instances,
and theorems that TLAPS checks for all values of the constants: about the sweep
engine, the distribution and history of its scans, the scanner's configuration, the server's
bridge, retention, read cache and broker access control, and the browser's
subscriptions. Paths are relative to `src/`. `PROJECT.json` holds the same
information for tools: it maps every definition to the lines it models and
names, for every checked property, a mutated definition that breaks it.

    tlc -workers 2 -config engine_safety.cfg MCEngine.tla
    for m in *Proofs.tla; do tlapm $m; done

## 1. The system

A *scanner* (Go, `scanner/`) sweeps radio bands with a Pluto, Owon or TinySA
receiver, serves a local page and API, and publishes scans, status and
configuration over MQTT. It is built as a daemon (`cmd/scanner`) and as a
desktop application (`cmd/desktop`). The *server* (Python, `server/`) bridges
MQTT to a database, rolls old scans up, controls access and serves an API. The
*browser* (Vue, `frontend/`) takes history from the API and live scans from the
broker.

| component | state | operations | what is hard | what makes it correct |
|---|---|---|---|---|
| **sweep engine** `scanner/internal/scanner/engine.go` | `e.mu`, `running`, `cancel`, `currentBand`, the shared `Config`, one goroutine per Start | Start, Stop, the loop (snapshot, publish, configure, sweep, broadcast), status | Stop does not wait for the loop; Start notifies after it unlocks; the loop publishes outside the lock | one live loop, at most one scan after Stop, status and labels that tell the truth, a cancelled loop ends |
| **scanner configuration** `internal/config`, `internal/api/handlers.go`, `engine.go` | band list and gain in memory, the file, the retained message, the clients' copy | PUT bands, config, gain; MQTT bands and gain; save, load, publish | HTTP writes without the lock that MQTT takes; a Go slice is not one word; truncate before write | the copies agree when nothing is under way; saved edits survive a restart |
| **scanner MQTT client** `internal/mqtt/client.go` | connection, message store, subscriptions, last will | connect, OnConnect, publish, commands | OnConnect runs beside everything; kept messages are resumed in any order | retained messages are repaired after an outage |
| **radio backends** `internal/backend/*` | configured band, tuned frequency | Configure, Sweep | two loops may share one receiver | a sweep measures the band it is labelled with |
| **HTTP API and WebSocket hub** `internal/api` | set of connections | handlers, Broadcast, `/ws/scans` | two goroutines write one connection; a handler that ends only at a failed write | one writer per connection; a departed client is forgotten |
| **desktop application** `cmd/desktop/app.go` | `a.mu`, `runner`, `forwardingScans`, `standaloneMQTT` | connect, disconnect, start, stop, edit, MQTT, shutdown; callbacks | callbacks lock `a.mu` under `e.mu`, calls lock `e.mu` under `a.mu` | calls end; the scans of the runner reach the window |
| **scanner process** `cmd/scanner/main.go`, `internal/runner` | order of set-up, goroutines | start, signal, close | commands arrive before set-up has ended | nothing is lost in the order of set-up |
| **scan history** `internal/db/store.go` | table of scans | store, query with decimation, clean-up | clean-up and insertion race | what is kept is what was asked for |
| **retention and rollup** `server/core/models.py`, `retention.py` | Scan and ScanSummary rows | roll up a tier, purge a tier, scheduler | rows arrive, bands vanish and the job dies between its queries; the API reads beside it | nothing is purged uncovered, no scan is counted or shown twice, old rows leave |
| **MQTT bridge** `server/realtime/mqtt_bridge.py`, `mqtt_commands.py` | rate-limit stamps, rows of scanners and bands | on config, status, scan; publish commands | a handler is several statements beside forms and requests that save whole rows; failure between stamp and store; a shared client id | the database follows the scanner; edits survive; one scan per interval |
| **broker access control** `server/realtime/dynsec.py`, `signals.py` | clients and roles at the broker, one response slot | sync a user, a scanner, everything; jobs that signals dispatch | a late answer taken for the next one; three threads at one client; jobs that run before their transaction commits | the broker grants what the database grants |
| **read cache** `server/api/cache.py` | entries, warm markers and locks in Redis | cached_or_compute, register, warm cycle | locks and entries expire, computations overtake each other, Redis goes away | one computation per key, watched keys hit, bounded staleness |
| **API access control** `server/api/permissions.py` | grants, share links, sessions | scope of a request, write permissions | four places work the grants out on their own | they agree, with each other and with the broker's roles |
| **API views, serializers, admin** `server/api`, `server/core/admin.py` | rows, through the ORM | parse, query, save, render | whole rows are saved that were read before | what they change reaches bridge and broker |
| **browser store** `frontend/src/stores`, `frontend/src/lib` | subscription counts, scan caches, MQTT client | subscribe, history, connect, disconnect | every `await` is a point where the rest changes | a subscription in use is live; history and live scans merge |
| **charts and views** `frontend/src/components` | render state | draw | - | - |
| **standalone page** `frontend/src/standalone` | one socket, one cache | reconnect, edit bands | as the browser store | as the browser store |
| **calibration tools** `cmd/calibrate` | none | offline measurement | - | - |

How they interact: the HTTP handlers, the MQTT command handler and the desktop
application call the engine, which calls back (status and configuration
callbacks) and publishes through the MQTT client. The loop hands scans to
subscribers: MQTT, the WebSocket hub, the history, the desktop window. The
broker keeps the retained status and configuration, which the bridge writes to
the database and the browser shows. The rollup job and the cache read that
database.

`PROJECT.json` lists forty hazards of this code, each at its line, with the
properties that would catch it going wrong, or the reason none does.

## 2. What is modelled

| module | what | state |
|---|---|---|
| `Engine` | Start, Stop, the sweep loop, one receiver, the retained and the local status | composed with the MQTT connection as `internal/mqtt/client.go` uses it |
| `SweepSessions` | what the engine promises: sessions, one open at a time, at most one leftover scan | abstract, implemented by `Engine` (`Engine!Promise`) |
| `EngineProofs` | the theorems about `Engine` | |
| `ScanFeed` | how scans and status leave the engine: subscribers, the goroutine that stores, WebSocket clients, the hub, `Runner.Close` | beside `Engine`, from `engine.go`, `websocket.go`, `runner.go` |
| `ScanStore` | the scanner's own history: rows, queries, clean-up, restarts | `internal/db/store.go`, `runCleanupLoop` |
| `Decimation` | which samples a preview's points stand for, with the rounding of floating point | `decimatePower`, as sets of positions; extended by `ScanStore` |
| `ScanProofs` | the theorems about `ScanFeed`, `ScanStore` and `Decimation` | |
| `ConfigSync` | band list and gain and their three copies, all editors, failed saves, crash, restart, reconnect | handlers of the HTTP API, the engine, the MQTT client and `main` |
| `ConfigSyncProofs` | the theorems about `ConfigSync` | |
| `Rollup` | one scanner's retention job between arriving scans and vanishing bands | `Scanner.rollup`, the scheduler |
| `History` | what the API makes of those rows: history, timeline, the row nearest to a time | operators over `Rollup`'s rows, from `api/cache.py` and `ScanViewSet.at_time` |
| `RollupProofs` | the theorems about `Rollup` and `History` | |
| `ReadCache` | requests, the warmer and Redis: who computes, and how old an answer is | `cached_or_compute`, `_register`, `run_warm_cycle` |
| `ReadCacheProofs` | the theorems about `ReadCache` | |
| `Bridge` | a scanner's row, bands and scans, and everyone who writes them | `mqtt_bridge.py`, the REST serializer, the admin, a scanner and the broker |
| `BridgeProofs` | the theorems about `Bridge` | |
| `Access` | who may read and write what: rows, scopes, write permissions, browser sessions | operators over a record of rows; extended by `DynSec` |
| `DynSec` | the broker's clients and roles, and three threads that keep them in line with the rows | `dynsec.py`, `signals.py`, composed with `Access` |
| `DynSecProofs` | the theorems about `Access` and `DynSec` | |
| `BrowserClient` | the browser's connection to the broker, its timers, and the views that subscribe | `mqttClient.js`, connect and subscribe of `stores/scanners.js`, mqtt.js as they use it |
| `Desktop` | every call and callback that meets at `a.mu` and `e.mu` | `app.go` and the runner's close and MQTT switch |
| `InterfaceProofs` | the theorems about `BrowserClient` and `Desktop` | |
| `MC*` | values of the constants for TLC | |

### Engine

A goroutine's program counter and locals are `caller[c]` (an HTTP goroutine of
`Api`, or `Remote`, the one goroutine in which paho runs command handlers) and
`loop[l]` (the loop of the l-th Start; its context has the same number). Every
statement that touches shared state is one action:

| code | actions |
|---|---|
| `Start` 184-209 | `ApiStart`, `StartLocked` or `StartRunning`, `StartStatus`, `StartNotify`, `ApiStarted` (the handler's own broadcast) |
| `Stop` 211-233, with `e.mu` held throughout | `ApiStop`, `StopLocked` or `StopNotRunning`, `StopStatus`, `StopNotify`, `ApiStopped` |
| `runLoop` 257-333 | `LoopTop` (context test, snapshot), `LoopNext` (context test, next enabled band), `LoopBand`, `LoopStatus`, `LoopConfigure`, `SweepBegin`, `SweepTune`, `SweepCollect` or `SweepFails`, `LoopBroadcast`, `LoopExit` (the deferred reset) |
| a band list replaced by anyone | `ReplaceBands` |
| connection, OnConnect, kept messages | `LinkUp`, `LinkLost`, `OnConnectStatus`, `SendKept` |

`mu` is only kept where the code holds it over several statements: by Stop.
Everyone else takes it for one assignment, which is one action guarded by
`mu = None`. `hw` is the band the backend is configured for, `tuned` the band
the receiver stands on; a scan is the pair of its label and of the band its
samples were taken on. One segment stands for the segments of a sweep.
`late` counts the scans a loop hands out after its cancellation.

### ConfigSync

Three kinds of handlers share `config.Bands` and the gain. Each handler is a
program, a sequence of phases in the order of its statements
(`PutBandsProgram`, `HandleBandsProgram`, `OnConnectProgram`, ...), and each
phase one or more steps: `SetBands` is the two words of an unlocked slice
assignment, `Save` reads and fills in the list, marshals it, truncates the file
and writes it, `Publish` makes a list of the length it finds, copies and sends.
Between two steps any other goroutine may move. An unlocked reader that meets a
new length with an old array takes `Junk` past its end. `ToMHz` and `FromMHz` are the
conversions of `models.go` with their truncating division; `Rounded` is what both make of a list. A save may fail; `Crash`
kills the process anywhere; `Restart` loads the file, or the defaults when it is
empty; one that does not parse stops the program. `Panic` is an index out of range: it ends the request in an
HTTP handler and the process elsewhere. `SetConfigSaveFunc` is the point of
`main` before which the MQTT client can already deliver commands. `raced` is a
ghost: two edits overlapped, or an HTTP edit and the OnConnect handler did. The three copies
are compared where it is FALSE; `SomeoneGoesOn` is said of every state.

### Rollup

The job's queries, its transactions (one per bucket) and its delete batches are
steps; between two of them scans arrive, time passes, a band is deleted
(its summaries and its scans stay, with no band) and the job may die. A row
stands for the set of scans it summarises, so "nothing is lost" and "nothing is
counted twice" can be stated of rows. A summary of an existing bucket replaces
it, as `update_or_create` does.

### Desktop

A goroutine is the list of instructions it has still to run: lock operations of
a Go `RWMutex` (a waiting writer bars new readers; readers that waited go
before the next writer) and named pieces of `app.go`, each of which puts what it
calls in front of the rest. Callbacks of the engine and of the MQTT client are
lists too, so they run in the goroutine that calls them, under the locks that
goroutine holds. The names of this module's specification begin with `App` (`AppInit`,
`AppNext`, `AppSpec`), so that one module can speak of it and of `BrowserClient`.

### History

Operators over `Rollup`'s rows, evaluated in every state the job goes through:
`ComputeHistory` is `compute_history` with its backfill from the finest tier,
its order and its limit, `ComputeTimeline` the markers of the scrubber,
`AtTime` the answer to a click on one. A row's samples are the set of scans it
stands for, so that "shown twice" can be said.

### ReadCache

A request is a few Redis commands and at most two computations: `Ask` (resolve
the window, register it), `Get`, `Acquire` or `GiveUp`, `Check`, `Computed` or
`ComputeFails`, `Retry`. Of an answer the end of its window is kept, which says
how old it is. `WarmRun`, `WarmSpec`, `Warmed`, `WarmFails` are the warmer;
`Outage` takes Redis away and brings it back, with or without what it held. Time
is discrete, and passes only while someone computes or waits: `Tick` bounds each
computation, of a request (`MaxCompute`) and of the warmer (`MaxWarm`), and nothing
bounds a cycle: a run that is due while one is at work is skipped (`WarmSkipped`).
`polled` and `kept` are ghosts, what was asked for within `WARM_TTL`, and what every
cycle since refreshed in time: none skipped, none that left the key out or failed at
it, none that came to it `TTL - WarmEvery` or more after it began (`Late`). Of a
request `failed` says that its own computation, or the one it waits for, left it nothing.

### Bridge

A step is one write at the database with the reads before it, unless what was
read is written back later: then the read is a step and the save another.

| code | actions |
|---|---|
| `on_connect`, loss of the connection, death of the process | `BridgeUp`, `BridgeDown` |
| `handle_status`, one UPDATE | `HandleStatus` |
| `handle_config` 140-187 | `HandleConfig` (read), `SaveConfig` (all fields), `SaveBand` (each band), `ConfigEnds` |
| `handle_scan`, `store_scan` 111-244 | `HandleScan` (rate limit, read), `SeenScan` (`update_fields`), `StoreScan` |
| an exception that a handler swallows | `Fails` |
| `regenerate_token`, forms, PUT, PATCH | `Regenerate`, `EditRead`, `RestSave` |
| a posted scan | `PostRead`, `RestSave`, `PostScan` |
| deletions and edits in the admin | `DeleteScanner`, `EditBand` |
| the client's OnConnect; its last will; `Disconnect`, its status and then its end | `DeviceUp`; `DeviceLost`; `DeviceLeaves`, `DeviceGone` |
| the engine's `Start` and `Stop`, which does not wait for the loop | `DeviceStarts`, `DeviceStops` |
| its loops: the test of the context, the status before a sweep, the scan after it | `DeviceTurns`, `DeviceSweeps`, `DeviceScans` |
| `PublishConfig` after an edit | `DeviceConfig` |

The scanner is reduced to what it publishes (`Device*`; `Engine` has the loops in
full): `device` is its link, whether it runs, the bands its loops are at, its list,
and the status it published last. A sweep that passed its test publishes its status
and its scan whatever was stopped or disconnected meanwhile, as long as the client is
connected, which it is until `Disconnect`, having published, closes the connection. The broker is reduced to what
it retains. `ghost` remembers the last edits, and which of the three copies
(status, bands, stored scans) an overlap, an edit or a failure has put out of date.

### Access and DynSec

`Access` holds the rows that decide who may do what as one record, `db`, and the
functions the API computes of it. `get_request_scanner_ids` is `Scope`, the
permission classes are `MayWriteScanner` and its like, `user_permission` is
`ShownPermission`; a change of rows is a function from `db` to `db`.

`DynSec` adds the plugin at the broker and three threads: the executor of a
server process, a request for MQTT credentials, the scheduler's full sync. A
thread has an agenda of items (a user, a scanner, a scanner to forget, a list of
users still to be read), each a sequence of commands, and a command is a step:
`UserClient`, `UserRoles`, `UserDiff`; `ScannerRoles`, `ScannerClient`,
`ScannerPassword`, `ScannerDevice`, `ScannerDisabled`; `ForgetClient`,
`ForgetRoles`. `Exchange` is the single response slot: the first answer that
arrives is taken, be it the late one of a command that timed out. `Fails` is the
timeout, with the command lost or its answer late. A change of rows is a
`Save`, committed at once, or a `Begin` and a `Commit` with its jobs dispatched
at the `Begin`, as the signal handlers do inside the admin's transactions.
`Silent` are the changes of which no signal tells. `drift` collects the users
and scanners that a change without a signal, a failed command, a job that ran too
early or two threads at one client may have left behind.

### ScanFeed

`Engine` follows one loop's statements; `ScanFeed` follows what it hands out. A
broadcast is `BroadcastLocks`, one `Send` per subscriber (a full channel misses
the scan) and `BroadcastEnds`; `Subscribe` and `Unsubscribe` wait for no
broadcast, and keep new ones out while they wait, as Go's `RWMutex` does.
A broadcast of status is `CastBegins`, one `CastTo` per client and `CastEnded`;
Start does it after it let go of `e.mu`, Stop while it holds it (`mu`).
`Handler` is a WebSocket client's goroutine from `Add` to `Remove`, `Persistence` the
goroutine that stores, `CloseChecks`, `CloseStops` and `CloseWaits` are `Runner.Close`. A
client reads, does not read (who writes to it waits), or is gone (who writes to
it finds out). Commands stand for whoever starts and stops.

### ScanStore and Decimation

`Store`'s mutex makes an operation a step: `StoreScan`, `Cleanup` with its
ticker, `Start` and `Stop` of the process over the same file. `GetTimeline` and
`GetDecimatedScans` are operators, evaluated in every state; the second has its
condition twice, as the SQL has.

`Decimation` is operators only; `BinsKeepSamples` is worked out once for all lengths. `Product` is
`int(float64(i) * factor)` worked out exactly: of the quotient only what
rounding took off is kept (`Below`), which says when a product that should be
whole comes out one less. A `Bin` is the set of positions whose maximum a point shows.

### BrowserClient

An action is a task of the event loop; an `await` ends one. `Login` is
`connect` up to its request for credentials, `Credentials` the answer, of which
nobody asks whether it is still wanted. The store refers to the `current`
client; `clients` are all there were, each with its `_subscriptions` (`subs`), what
mqtt.js has subscribed (`asked`) and its timers in seconds. `Close` is the
library's event after a lost connection and after every attempt that failed.
`Show` mounts a view, takes it down or changes the scanners it shows.
`down` is a ghost: how long the connection has been away.

## 3. Runs

| run | states | question |
|---|---|---|
| `engine_safety` | 1,251,042 | Three callers and two loops in every interleaving: one live loop, idle band, refinement of `SweepSessions` |
| `engine_live` | 248,606 | Under fairness, with an outage and edited bands: does a cancelled loop end, is the status repaired? |
| `config` | 1,080,665 | An HTTP and an MQTT editor, failed saves, a lost connection or a crash: do file, retained message and clients agree with the bands when no edits overlapped, does a saved edit survive, and can somebody always go on? |
| `rollup` | 94,170 | Three tiers, arrivals, a deleted band and an aborted job: coverage, counts, progress, and what the API shows meanwhile |
| `rollup_loss` | violation | Does a summary keep what an earlier run put in it? |
| `desktop` | 90,638 | All fifteen calls, two at a time: lock discipline and forwarding |
| `dynsec` | 572,004 | Three threads, changes of rows, timeouts and late answers: does what is announced reach the broker, does a sync repair the rest, do REST and broker agree on scopes? |
| `bridge` | 4,160,175 | A scanner's messages, late ones among them, crashes, requests and the admin at its rows: status, bands, edits, pace |
| `readcache` | 1,768,205 | Two requests and a warmer that may be slow, waits shorter than locks, failures, outages: one computation, warm keys, staleness |
| `feed` | 41,073 | A loop, the goroutine that stores, a client, commands and Close: no send on a closed channel, the store closed last; under fairness broadcasts end, Close returns, a departed client is forgotten |
| `history` | 455,750 | Scans, clean-ups and restarts: does each entry have a preview, do old scans go? And which samples do its points stand for? |
| `browser` | 552,138 | Two logins, two views, outages, a page that is left: subscriptions and indicator |

`TypeOK` of each module (`AppTypeOK` of `Desktop`) is a theorem (section 5), or a conjunct of an invariant that a
run checks (`CountsExact`, `CopiesCurrent`, `ForwardedOnce`, `SyncMirrors`, `SingleFlight`,
`OldGone`, `ViewsCounted`), or both.

### Bounds, and why they are enough

* `engine_safety`: two HTTP goroutines and the command handler, `MaxStarts = 2`,
  one enabled and one disabled band, `MaxLosses = 0`. The hazards of the
  lifecycle need an old loop, a new loop and two callers that disagree; the
  number of enabled bands matters to none of these properties, and the theorems
  hold for any. The connection matters to the status only, which `engine_live`
  looks at.
* `engine_live`: one caller, one session, two bands, a second list that has
  dropped one of them, one outage: liveness of a loop is about one loop.
* `config`: one HTTP client, the command handler and OnConnect, two requests among
  band lists of length one and two and two gains, one fault (an outage or a crash). Two lengths are
  what a torn slice and a shorter text over a longer one need; two edits put a failed save
  before a good one, and one edit beside another, with the crash before, between or after
  them. Edges are in units of 100 kHz, and one of them is no whole MHz, so that saving it
  and loading it again changes it. The theorems hold for any lists and numbers.
* `rollup`, `rollup_loss`: resolutions 1, 2, 4 kept for 1, 3, 5 ticks, six
  ticks, two scans that may be one tick old when stored, one abort, one deleted
  band, delete batches of one row. Two scans and a resolution of two make a
  bucket that a cutoff splits; three tiers make one that is a source and a target.
* `desktop`: all calls, two at a time and two forwarding
  goroutines, three calls and two runners. A deadlock takes a holder and one that waits, or one call and its own
  callback. `AutoStart` is off; starting by hand is the same code.
* `dynsec`: one scanner in one folder, a user with a grant on the
  folder, a group with a grant on the scanner, a share of it, a legacy link, and
  any two of: a change of rows, a sign-in, a failed command. Two events put a
  failure or a second change between any two commands of the first one's sync;
  credentials requests and full syncs are not counted. Three grants give every pair
  of sources for one user's roles (rw over r, direct and by group, share and login).
* `bridge`: two bands, two band lists of which one moves a band and drops the
  other, an interval of two ticks in three, three messages under way, and any three
  events: the scanner's commands, edits and connections, requests, crashes, failures.
  What a sweep still publishes, and the end of `Disconnect`, are no events of their own:
  three events are a stop, a disconnection and a reconnection with a late scan among
  them, or a message, a form's save or a crash, and the next message. The scanner
  begins connected and at work, or not. The theorems hold for any number.
* `readcache`: a relative window and two absolute ones of the same bucket, and the capped
  form of them all, a life of four ticks, a cycle every two, three events (requests,
  failures, outages) in six ticks. A lock lives for two ticks and is waited for one, as
  in the code, where it is 20 s and 10 s: with computations of up to two ticks a request
  gives up on a lock whose owner is at work, and a lock is outlived. A cycle has one key,
  of two that may be watched, so the cap leaves one out, and takes up to two ticks, so a key
  is refreshed late and the next run is skipped. Cycles of several keys, and the order
  they take them in, are in the theorems, which hold for any number and any durations.
  Requests are for histories; the key of a timeline has no limit, and is in the theorems.
* `rollup` for `History`: buckets of two for `at_time`, markers of one, two or four
  ticks, every limit up to one more than the scans there are.

* `feed`: one client, one loop that may be restarted any number of times, and channels of
  one scan, so that they are full and empty often; the theorems about safety hold for any
  number of all three.
* `history`: two bands, four scans, minutes of two seconds, a window that
  begins within one, a clean-up period of two seconds in nine, restarts at will. For
  `SamplesKept` all lengths up to four samples a point, at the scanner's 200
  points; among them are whole and broken quotients of both binades.
* `browser`: the code's own times (5 s to report, 2 s between attempts, 5 s per
  attempt), two views of which both may show both scanners, two logins: the
  second may come while the first's client is still asking.

Deadlock is checked in the engine and rollup runs. In `config`
requests are bounded and in `desktop` calls are, so they rightly stop,
and forwarding goroutines wait for ever; in `dynsec`, `bridge`,
`readcache`, `history` and `browser` the number of events and the
time are, and in `feed` a closed runner does nothing more. There `CHECK_DEADLOCK FALSE`.

### Fairness

* Engine: weak fairness of each call that has begun, of each loop, of the
  OnConnect handler and of sending kept messages: goroutines are scheduled, and
  `Configure`, `Sweep` and publishing return. Nobody has to call Start or Stop,
  replace the bands, or restore the connection.
* ConfigSync: none. `SomeoneGoesOn` is the safety form of "requests end": while handlers are at
  work one of them can go on. A handler is a finite program without loops, and a Go
  mutex hands itself to a waiter after a millisecond (starvation mode), so that is enough.
* Rollup: weak fairness of the job's steps: the scheduler starts it every five
  minutes. Time need not pass and no scan has to arrive.
* Desktop: weak fairness of each goroutine's steps. The model's mutex queues as
  Go's does, and the number of calls is bounded, so no waiter is passed for ever.
* ScanFeed: weak fairness of the loops, of the goroutine that stores, of each
  handler and of a command that has begun: goroutines are scheduled, and `StoreScan`
  and the receiver return. Strong fairness of Close and of broadcasts of status, which
  wait for mutexes that others take meanwhile (Go's hand themselves to a waiter),
  and of `StoreCancelled`: a `select` with two cases ready picks one at random, so it
  cannot pass over `ctx.Done()` for ever. No command, client or Close has to come, and no
  client has to read: `CloseReturns` and `GoneForgotten` say what they assume of clients
  (`<>[]NobodyStuck`), the latter also that scans go on.
* Bridge, DynSec, ReadCache, ScanStore, BrowserClient: none; their properties are about safety, and their
  "in the end" is said of states in which nothing is under way (`Quiet`, `Idle`,
  `calm`).

## 4. What the runs found

**Summaries that forget** (`rollup_loss`, a run that TLC ends with a
counterexample). `cleanup_scans.py:5` says the rollup preserves historical peak and average data.
The cutoff is no bucket boundary (`models.py:107`); the second run over a bucket replaces
its summary (`models.py:188`, `261`) although the rows of the first part are gone.

What the other models let happen, and no run states, is in section 6.

## 5. What is proved

### Engine

`EngineProofs.tla`: 972 obligations. The assumptions are those `Engine`
declares: the names of goroutines, bands and "none" differ
(`NamesAssumption`), the bounds are naturals (`BoundsAssumption`), and the band
lists are finite sequences of bands (`ConfigsAssumption`). TLC evaluates them in
every engine run.

| theorem | statement |
|---|---|
| `Invariant` | `Safe => []IInv`, the inductive invariant |
| `Types` | `Safe => []TypeOK` (no run of its own) |
| `OneLive` | `Safe => []OneLiveLoop`: whoever calls, at most one context is live and it is the one Stop cancels |
| `Lifetime` | `Safe => []LoopLifetime`: no loop before its Start, none leaves before its cancellation (no run of its own) |
| `LateScans` | `Safe => []LateScanAtMostOne`: a stopped loop hands out at most one more scan (no run of its own; `SweepSessions` has the same bound) |
| `IdleBand` | `Safe => []IdleBandCleared`: no band stays when the last loop has gone |
| `Implements` | `Safe => KeepsSessions`: `Engine` implements `SweepSessions` |

They hold for any number of HTTP goroutines, bands, band lists, starts and
outages.

The argument. `OneLiveLoop` and `LoopLifetime` are not inductive: between
creating a context and spawning its loop Start holds the number in a local,
and it must still be one of the spawned (`CallerCtx`). `LateScanAtMostOne`
holds because a loop that handed out a scan after its cancellation cannot
reach another sweep: it is at the head of the list or of a pass, or leaving,
and each way on tests the context (`LateInv`). `IdleBandCleared` holds because
whoever set the band has yet to run its deferred reset (`BandInv`). So

    IInv == TypeOK /\ OneLiveLoop /\ LoopLifetime /\ CallerCtx /\ LateInv /\ BandInv

`InitIInv`, `StepTypeOK` and `StepControl` (one step per action, `NextCases`
splits `Next`) and `StutterIInv` prove it inductive; `BandListFacts`,
`PublishKeeps`, `LoopNextMoves`, `LoopTopMoves` are what actions share. The
type invariant says which locals a loop has at each statement (`LocalsOK`),
since a broadcast is well typed only when a sweep went before. For
`Implements`, `InitPromise` and `StepPromise` map `StartLocked` to `Open`,
`StopLocked` to `Close`, `LoopBroadcast` to `Emit` or `EmitLeftover` by whether
the loop's context is cancelled, and every other action to a stutter.

### Bridge

`BridgeProofs.tla`: 2562 obligations. `BridgeAssumption`: the interval is
positive, the bounds are naturals, two messages fit the queue, band lists are
functions from band names, and "none" is no band, number or row; `NoMessage`: nor a
message.

| theorem | statement |
|---|---|
| `Invariant` | `Spec => []IInv` |
| `TypesHold` | `Spec => []TypeOK` (no run of its own): among others, no band and no scan outlives its scanner's row |
| `Edits` | `Spec => []EditsSurvive`: an edit is undone only by a full save of a row read before |
| `Pace` | `Spec => []ScansPaced`: one scan of a band per interval and process, and no stamp without a scan, a failure or a deletion |
| `StatusIsMirrored` | `Spec => []StatusMirrored`: when nothing is under way the row shows the scanner's last status, unless a request's save, a failed update, or a scan or configuration taken after an offline status put it out of date |
| `BandsAreMirrored` | `Spec => []BandsMirrored`: and the table has the bands of a connected scanner, with its ranges |

The argument. `TypeOK` needs the types of what is on its way: messages at the
broker and in the inbox, the row a handler or a request holds (`Messages`,
`Handler`, `Requests`). `EditsSurvive` is inductive with those: every action
either leaves token and switch, or writes an edit, or saves a row whose difference
from the current one `Overwritten` names. `ScansPaced` speaks of the stored scans
alone; `Paced` relates them to the stamps: no scan of this process is later than
the stamp of its band, a handler on its way to store one began an interval after
that stamp, and scans of earlier processes carry smaller numbers.

    IInv == Clock /\ Messages /\ Handler /\ Tables /\ Requests /\ Ghosts
              /\ EditsSurvive /\ Paced /\ ScansPaced

Each part has its lemma with one step per action or group of actions that leaves
it alone; `PutType`, `Taking`, `RowKept`, `Publishing` are what actions share.

The mirrors hold of quiet states only and say nothing of how one gets there. They
follow from what is true on the way (`Mirror`): the newest message of a kind in the
inbox is what the broker retains (`Latest`), and that is what the scanner said last
(`Truthful`; a scanner that is gone left its last will or the status of `Disconnect`).
Every step of the scanner that changes its status, or the list of a connected one, has
the change in the messages it publishes (`DeviceSpeaks`), so to the tables it is a
message more or nothing (`Announced`). The late `online = True` of `handle_scan`
either agrees with the last status or marks the row out of date until the next. With no
status in the inbox the row shows what is retained (`StatusSettled`), and so does the row a
configuration's handler is about to save over it; with no configuration there each
band of the scanner is in the table or still to be written (`BandsSettled`).

    Mirror == Types /\ Behind /\ Gone /\ StatusSettled /\ BandsSettled

### ScanFeed

`ScanProofs.tla`, with `ScanStore`: 790 obligations. `ScanFeedAssumption`: a channel holds at
least one scan, and the clients' names are not those of the other goroutines.

| theorem | statement |
|---|---|
| `FeedInvariance` | `Spec => []FeedInv` |
| `Types` | `Spec => []TypeOK` (no run of its own) |
| `NoPanic` | `Spec => []NoSendOnClosed`: no channel is closed that a broadcast has left to send to |
| `StoreLast` | `Spec => []StoreClosedLast`: the store outlives the goroutine that stores |

The argument. `Unsubscribe` takes a channel away while no loop is sending; that
no loop then has anything left to send is `LeftWhileSending`, since what a
broadcast has left is taken from the subscribers when it begins. `StoreClosedLast` needs
that the goroutine that stores never comes back and has left the subscribers
when it is done (`StoreLeaves`).

    FeedInv == TypeOK /\ LeftWhileSending /\ NoSendOnClosed /\ StoreLeaves /\ StoreClosedLast

`LoopChanges` is what all steps of a loop share, `MembershipTypes` what
subscribing and unsubscribing do; then there is one lemma per goroutine.

### ScanStore and Decimation

`ScanProofs.tla`, for any bands, window, retention, period, points of a preview and
lengths of a scan. `ScanStoreAssumption`: minutes and the period are positive.
`DecimationAssumption`: so is the number of points.

| theorem | statement |
|---|---|
| `StoreInvariance` | `StoreSpec => []StoreInv` |
| `OldIsGone` | `StoreSpec => []OldGone`: a process that has been up for a period keeps nothing longer than the retention and another period, whatever earlier ones left |
| `PreviewsCover` | `StoreSpec => []PreviewCovers`: each entry of a timeline has one preview, of its minute |
| `PreviewsKeepSamples` | `StoreSpec => []SamplesKept`: the points of a preview stand for every sample of its scan but at most the last |

The argument. `OldGone` needs where the ticker stands: at most a period ahead, a
period or more after the start, and once it has fired nothing is left that was too
old then (`Ticking`). `PreviewsCover` needs no more than that ids are unique: a
minute of the timeline has a least id (`LeastExists`), which the join picks, and all
rows of an entry lie in one minute, of which the window may cut off a part for both
queries alike.

    StoreInv == Table /\ Ticking

`SamplesKept` says nothing of the state: it is about every length of a scan. The run works the rounding
of each product out; the proof does without. All it uses of `Product(n, i)` is that it is the
whole part of `i * n / Target` or, where that is exact, at worst the number below
(`ProductNear`). So where there are more samples than points, two bounds never coincide
(`ProductGrows`), the first is 0 and the last n or n - 1 (`ProductEnds`), and each sample
before that lies in the bin whose end is the least bound above it (`BinsKeep`).

### ConfigSync

`ConfigSyncProofs.tla`: 3453 obligations, for any goroutines of the HTTP server, lists,
edges, gains, requests and faults. `ListsAssumption` and `NamesAssumption`: lists are
sequences of bands, and "none", what lies past an array, and the two broken files are none of
them; `ProcsAssumption`: goroutines differ; `DefaultAssumption`: the edges of
`DefaultConfig` are whole MHz (`config.go:15`).

| theorem | statement |
|---|---|
| `Invariance` | `Spec => []ConfigInv` |
| `FileIsCurrent` | `Spec => []FileCurrent`: when nobody is at work and no save has failed, a restart would bring back the bands in use |
| `CopiesAreCurrent` | `Spec => []CopiesCurrent`: and on a connection that was never lost the broker retains them, and the clients saw no older ones |
| `EditsAreKept` | `Spec => []EditsSurvive`: through crashes and restarts, what was saved is not undone |

The argument. The three properties are said of states without overlapping edits (`raced`), two
of them of quiet ones; what is true on the way has two parts. `Base` holds in every state:
the phases a handler has still to go through are in an order in which whoever comes to "set" has
"save", "publish" and "notify" still before it (`Shape`, which every tail of a program keeps), a
step is one of its phase (`StepFits`), a list that is being put counts as put (`Listed`), and
whoever holds `e.mu` has it to unlock (`Locked`). `Calm` holds until two edits overlap:

* beside an HTTP handler nobody is at work, beside the command handler at most OnConnect,
  and not on a first connection, where commands come only after it has subscribed
  (`Sole`, `Wire`, together `Partner`);
* so what an editor has read or written in the middle of a phase stays so until its end
  (`Editing`): the half of the slice it has assigned, the size it has counted, the text it has
  marshalled and the file it has truncated;
* a slice is whole unless somebody is between its halves (`Whole`);
* the file is current, or somebody has yet to save, or a save has failed (`Filed`); the broker
  likewise for "publish" (`Wire`), the clients for "notify" (`Told`);
* whatever the file holds, while no edit has been missed, is near to a list that counts
  (`Surviving`), which is what a restart finds. `RoundedTwice` is why it may be restarted
  from again: what was loaded from a file is saved and loaded unchanged.

    ConfigInv == Base /\ (~raced => Calm)

There is one lemma per action; `PassOver` is what phases share that change neither
configuration nor copies, `AssignedCalm` what the two assignments share, and `SteppedCalm` and
`MovedCalm` what steps within a phase and ends of phases do. `Panic` is a case of `SavePrepare` and
`PublishFill`; the proof shows that it needs two editors, or a connection that was lost.

### Rollup and History

`RollupProofs.tla`: 1408 obligations, for any bands, retention policy, batch size,
number of scans, aborts and deletions.

| theorem | statement |
|---|---|
| `Invariance` | `Safe => []Inv` |
| `PurgesAreCovered` | `Safe => []PurgeCovered`: what a purge may delete is in a summary of the tier above, for every policy |
| `CountsAreExact` | `Multiples` implies `Safe => []CountsExact`: a count is the number of different scans, all of its bucket |
| `HistoryShowsOnce` | `Safe => []HistoryOnce`: a history shows each scan once, for every policy and whatever order the database gives rows of one time |
| `AnswersStayNear` | `Safe => []AtTimeNear`: what `at_time` finds is near to every time of its cache bucket |

The argument. The job's list is read before the transaction that uses it. In between
it is what the tier holds that is too old, or one of its rows lost its band and the
transaction will fail (`Listed`); a scan that arrives is younger than any cutoff
(`NewScanIsYoung`, from the assumption that a scan is stored before its tier lets go of it).

Rows stand for different scans, except between a rollup and its purge, when one of
the two is what the purge will delete, and after an abort (`Separate`). That is what
makes `HistoryOnce` true, and it is kept by a transaction because the list has no
two rows of one scan.

    Inv == Control /\ Records /\ Listed /\ PurgeCovered /\ Separate

`HistoryOnce` speaks of every answer the database may give (`Firsts`); that there always
is one is `HistoryAnswers`.

`CountsExact` is not inductive: a sum of counts is a number of scans only where the
rows that are added are disjoint. They are, because each row lies in the bucket its
scans fall into, has their band, and replaces the summary of that bucket (`Exact`).
That a sum over a set of rows is the cardinality of the union of their members
(`CountsAddUp`) is an induction; without an induction theorem it is made by a least
counterexample (`SumsAgree`), from the well-foundedness of the naturals.

The hypothesis `Multiples`: each resolution is a multiple of the one before, as in
every policy the repository names (`retention.py:54`). It is needed. With
resolutions 1, 2, 3 a bucket of two straddles two of three, and TLC finds a summary that
holds a scan outside of its bucket. `parse_retention_policy` accepts such a policy
(section 6).

### ReadCache

`ReadCacheProofs.tla`: 2590 obligations, for any number of requests and any specs.
`CacheAssumption`: durations are positive, and a run of the warmer is due before an entry
of the last one runs out (8 s, `scheduler.py:27`, and 10 s, `cache.py:34`). How long a
cycle takes, how many keys it has, and how waits, locks and computations compare is not assumed.

| theorem | statement |
|---|---|
| `Invariance` | `Spec => []IInv` |
| `OneComputes` | `Spec => []SingleFlight`: one request computes under a key's lock unless it outlives the lock; nobody computes what is there when it begins; and who goes on without the lock has one of the reasons the property names |
| `WatchedStayWarm` | `Spec => []KeptWarm`: a watched key that every cycle since refreshed in time is there |
| `AnswersAreFresh` | `Spec => []FreshEnough`: a bound on how old an answer is, however slow requests and warmer are |

The argument. The first part of `SingleFlight` speaks of two requests, `Owned` of one:
who computes under a lock still holds it, for `LockTTL` from when it looked. The part
about those that wait needs that who has waited longer than an instant waits for one
computation that began before it did (`Awaits`): so when it gives up, that one has
taken `Blocking`, or its answer is there, or an outage left the lock with nobody behind
it. `FreshEnough` needs how long a request has been on its way at each statement (`Pace`).
`KeptWarm` needs until when an entry lives (`Watched`): what the cycle at work has still
on its list lives until `TTL - WarmEvery` after that cycle was due, what it has refreshed
until as long after the next (`Deadline`). A cycle that comes later than that to a key, or is
skipped, takes the key from `kept`; that the others live from one cycle to the next,
in whatever order each takes its keys, is what is shown. Time passing is the hard step:
the guards of `Tick` are what keeps `Pace` and `Cycles`.

The proof corrected the bound in `FreshEnough`: a request may wait, compute, fail or outlive
its lock, and compute again on its own, all with the window it resolved at its start; so an
answer may be as old as the entry's life plus the longer of `Blocking + 2 * MaxCompute` and `MaxWarm`.

### Access and DynSec

`DynSecProofs.tla`: 6824 obligations, for any users, groups, scanners, folders,
grants, links and number of events. `AccessAssumption` and
`DynSecAssumption`: these sets are disjoint where the code keeps them in different
tables, users, scanners and grants are finite, and "none" is none of them.

| theorem | statement |
|---|---|
| `TypesHold` | `Spec => []TypeOK` (a conjunct of `SyncMirrors`): among others, no command names a user where it means a scanner |
| `WritersDoRead` | `Spec => []WritersMayRead`: who may write at the API may read |
| `ScopesMirror` | `Spec => []ScopeMirrored`: the roles the broker is asked for read and command exactly what the API lets the request read and write |
| `NeverCutOff` | `Spec => ReadKept` (action property): a sync never takes away, between two commands, what the user may read before and after |
| `JobsMirror` | `Spec => []AnnouncedMirrored`: when every job is done, the broker holds what the rows ask for of every subject outside of `drift`, whatever threads, transactions, late answers and failures interleave |
| `SyncRepairs` | `Spec => []SyncMirrors`: a periodic sync that nothing interferes with repairs everything, `drift` included, in one run |

The argument. The first two statements about rights are about rows alone: a folder holds
scanners that are there and ids are not used again (`Sound`, kept by every change of
rows), and on such rows the access rules agree case by case (`ReadersWrite`,
`ScopesAgree`). `ReadKept` needs what a thread has done so far: while it is the only
one at its client, each role that is wanted and no longer on its list to add has been
given (`Given`), and what it removes is not wanted. So

    IInv == Types /\ Given

with lemmas for what a command does to the clients of others (`Made`, `Done`) and
for each change of rows (`RowSteps`). `ReadKept` was stronger to begin with than what a run
had checked: it no longer excepts scanners that the broker has no roles of.

`AnnouncedMirrored` speaks of idle states only. What is true on the way is `Fit`, for
every subject by itself: its client and roles at the broker are those of the rows, or
it is in `drift`, or an item, a job or a list of users that is still to be read comes
to it (`UserOwed`, `DeviceOwed`, `TokenOwed`, `ForgetOwed`), or a job of the open
transaction was taken before it committed (`Hit`). Four facts carry it:

* whatever changes the rows dispatches jobs for all whom it concerns, or names them as
  missed (`Told`; `RowSteps` shows it for every form, endpoint and silent change, on
  rows whose grants are on scanners that are there, `GrantsHere`);
* a thread that is clean has got its subject somewhere (`Poised`): the client of a user is
  there and holds what is wanted and no longer to be added, a scanner's roles are there
  before its client is;
* each command does for its subject what it has to and leaves the others alone
  (`Serves`, one lemma per command up to `CommandsReady`), except that the deletion of a
  scanner's roles takes them from all;
* a scanner is forgotten last: its job is behind all others of its transaction, and no
  agenda holds it before the scanner is gone or its job was taken early (`ForgetLate`,
  `ForgetGone`). Without that, a sync between the two would give back a role that the
  job had taken away.

A thread that another was beside may leave an old token behind and its item undone, so a
token is owed while such a thread is busy (`Soiled`), and a user may hold roles on a
deleted scanner until that scanner is forgotten (`UserFits`).

`SyncRepairs` needs `Calmly` on top: while `calm` holds, only the scheduler's thread is
at work, what it read is what the rows say (`Fresh`), scanners come before users
(`Scanning`, `Granting`), and each scanner or user it has left behind fits (`Repaired`),
whatever `drift` says. `AloneClean` is where the order matters: a role can be given
because the scanner's roles were made before.

    IInv /\ Fit /\ Calmly

### BrowserClient

`InterfaceProofs.tla`, with `Desktop`: 1298 of its 4207 obligations, for any views (finitely many),
scanners, times and number of logins.

| theorem | statement |
|---|---|
| `Invariance` | `Spec => []IInv` |
| `ViewsAreCounted` | `Spec => []ViewsCounted`: while there is a client its subscriptions are what the views show |
| `TopicsAreCovered` | `Spec => []TopicsCover`: a connected client has asked for the topics of all that is shown |
| `IndicatorDoesFollow` | `Spec => []IndicatorFollows`: the indicator follows the connection of a store with one client |
| `NeverFlaps` | `Spec => NoFlapping` (action property): it goes out for no outage shorter than the debounce |

The argument. A logout clears the counts under the views, which then count down what is
not there; so counts are at most the number of views that show a scanner, and
equal to it while there is a client (`Counts`). `NoFlapping` needs that the
timer and the outage so far make up the debounce (`Countdown`).

    IInv == TypeOK /\ Session /\ Counts /\ Subscribed /\ Timers /\ Countdown /\ IndicatorFollows

### Desktop

`InterfaceProofs.tla`, the other 2909 obligations, for any goroutines, calls and numbers of
calls and runners. `ThreadsAssumption`: goroutines of calls and of `forwardScans` differ;
`CallsAssumption`: the calls are those of `app.go`; `BoundsAssumption`: a.mu is no engine.

| theorem | statement |
|---|---|
| `ScansForwardedOnce` | `AppSpec => []ForwardedOnce`: one goroutine at the most forwards scans, and once every call has ended those of the first runner reach the window |

The argument. That two forwarders do not both pass the test of `forwardingScans`, that the
flag is set exactly while one of them forwards or has still to reset it, and that one who
finds the flag set leaves the window to another (`ForwardInv`), are facts about what each
forwarder has still to run, which is one of few lists (`Waits`, `Ranges`, `Resets`).

`AppTypeOK` needs more: no `RUnlock` takes a count below 0, and no mutex has a writer and readers.
That depends on every call that is put together from lists. What a goroutine has still to run
`Fits` the mutexes it holds: run from there with nothing in the way it ends with
nothing held, or comes to a mutex that it holds itself, where it stays (`Stuck`; that calls do so is
the limit of section 6). Each list of `app.go`, the engine and the runner goes from one
holding to another (`Turns` for one instruction, `FitsConcat` for the sum), so each action
keeps it; and some assignment of holdings to goroutines explains every mutex: its
writer is who holds it to write, its count the number of those who hold it to read
(`LockInv`, `HeldAs`).

    AppInv == Types /\ LockInv /\ ForwardInv

### Only model-checked

* Every liveness property, `DisciplinedCallsEnd` of `Desktop` among them, and `SomeoneGoesOn` of
  `ConfigSync`: fairness and ENABLED are out of the prover's reach.

## 6. Known limits

Seen while modelling, and stated by no run. The scanner:

* A loop tests its context (`engine.go:278`) and publishes scanning = true
  (`engine.go:294`) outside `e.mu`; a Stop in between publishes false first, and the
  retained status says scanning until the next start or reconnect.
* Stop does not wait for the loop. After Stop and Start two loops sweep one receiver,
  and the old one labels what it measured on the new one's band (`engine.go:329`).
* `PublishConfig` reads at `client.go:319` and publishes at 351 without a lock, so
  with two editors an older reading can be published last. Configuration and status
  messages kept over an outage are resumed in any order, so `CopiesCurrent` says what is
  retained only of a first connection and of edits that did not overlap.
* With an HTTP and an MQTT editor two saves run at once and can leave the file
  garbled, with the tail of the longer text behind the shorter one
  (`config.go:88`); `FileCurrent` leaves them out (`raced`).
* A process killed between truncation and write has lost its configuration
  (`config.go:88`) and starts with the defaults. `EditsSurvive` of `ConfigSync`
  starts afresh from what the file holds only after such a crash or a failed save.
* An edge that is not a whole number of MHz is truncated when saved (`models.go:31`), so a
  restart may change it: `FileCurrent` and `EditsSurvive` compare lists to the MHz (`Rounded`).
* With two callers Start's notification, sent after it has unlocked (`engine.go:197`), can follow a
  later Stop's: the pages then show a stopped scanner as scanning.
* The desktop's `shutdown`, `Connect`, `Disconnect`, `SetBandEnabled` and `EnableMQTT` hold `a.mu` over
  calls whose callbacks lock it (`app.go:199`, `202`, `275`, `361`, `495`; `runner.go:306`), although
  `app.go:818` says such a call belongs outside of it: they wait for themselves when the runner
  scans or has a client. `GetStatus` takes the two locks in the order opposite to
  Stop (`app.go:468`, `engine.go:229`). `DisciplinedCallsEnd` is said of the other calls while
  none of these is stuck.
* The last bin of `decimatePower` ends at `int(200 * (n / 200))`, which rounding makes n - 1 for
  n = 201, 203, 205 and many more (`store.go:342`): a peak in the last sample is not shown, although
  `store.go:347` preserves peaks. `SamplesKept` excepts that sample. The server's
  `decimate_power` lets its last bin run to the end.
* The desktop's forwarding goroutine ranges over a closed runner's channel for ever and
  its flag keeps a second one from starting (`app.go:406`), so after a reconnect no
  scans reach the window.
* `StartScanning` uses the runner after it has released `a.mu` (`app.go:387`),
  and `autoConnect` replaces a runner without closing it (`app.go:160`):
  either leaves an engine scanning that no call reaches.

* The hub and a client's handler write one connection from two goroutines (`websocket.go:67`),
  which its library does not allow; what then happens is the library's.
* A client that refuses to read keeps Stop, and everyone who needs `e.mu`, waiting
  (`websocket.go:67`), so `CloseReturns` assumes there is none. A departed client is noticed
  at the next scan only.
* The first clean-up of the history comes after a whole hour of uptime (`runner.go:154`); a
  process that never lives that long keeps everything.
* After the desktop's Disconnect its web server's clients stay subscribed to the old engine.
* `useScanData.js:34` loses the last sample as `decimatePower` does.

The browser:

* A live scan that was stored has two markers on the timeline: its timestamp is compared
  as text, with nanoseconds on the one side and microseconds on the other (`scanners.js:199`).
* A logout while `connect` awaits its credentials does not stop it (`mqttClient.js:63`): a client
  that nobody refers to connects and reconnects for ever. With it the indicator follows two
  connections, so `IndicatorFollows` and `NoFlapping` are said of one (`Alone`).
* `mqttClient.js:166` reports a disconnection after five seconds, and each failed attempt, two
  seconds after the last, starts them again (`mqttClient.js:168`): while the broker refuses
  connections at once the indicator says connected.
* The answer to a load replaces the scrubber's cache, and live scans that came meanwhile are
  gone from it (`scanners.js:458`); the next live scan cuts a range of up to 1000 previews to
  200 (`scanners.js:233`).

The broker's roles, all in `drift` or left out of `Access`:

* `common/schemas/mqtt_topics.md:293` still gives the permissions of the go-auth plugin that
  dynamic security replaced (`mosquitto.conf:11`), under which every user read `spectrum/#`
  and wrote `spectrum/commands/*`. `DynSec` models the roles that `dynsec.py` gives.
* When a folder's scanners change, users who hold it through a group are not synced
  (`signals.py:71`); nor is anyone at a bulk revocation, an expiry, a change of the
  default group or the admin's form of a folder.
* A background sync of `demo_viewer`, which its own sign-in dispatches, removes the
  roles of every share session that is open (`dynsec.py:485`).
* `full_sync` never sets the password of a client that exists (`dynsec.py:483`), although
  `signals.py:4` calls it the recovery path: a device whose regenerated token was not pushed
  stays locked out.
* A job dispatched inside a transaction may read the rows as they were.
* A full sync that read a scanner's row before it was disabled or deleted makes its client again.
* The late answer of one command is taken for the next one's (`dynsec.py:80`).
* Two threads at one user may leave roles that neither wanted.
* A read-write share may command a scanner at the broker, but not through REST.
* A frequency that is assigned to a folder only is not in the unfiltered list.

The bridge:

* A configuration or a scan delivered after the last status of a scanner that is gone
  sets it online until its next status (`mqtt_bridge.py:159`, `210`): a retained configuration
  does at every reconnection of the bridge, and a scan when `DisableMQTT` (`runner.go:340`)
  disconnects while the engine sweeps, since `Disconnect` publishes "offline" before it
  closes the connection (`client.go:250`). A loop's own status on the way out leaves
  even the retained one saying online.
* `handle_config`, forms, PUT, PATCH and POST save whole rows: they undo an edit or a status
  in between, and insert a deleted scanner again.
* A scan that failed, or of an unknown scanner, still stamps the rate limit.
* `server/README.md:10` says that one scan per minute and band is stored;
  `STORE_INTERVAL_SECONDS` is 10 (`mqtt_bridge.py:30`). The model has the interval as a constant.
* Bands that left the configuration stay. A posted scan takes any scanner's band of its name.

The API's reads:

* `limit` keeps the oldest raw scans of a window. Only the finest tier of summaries
  fills in for them and only it is seen by `at_time`, so the timeline's markers of coarser summaries
  lead elsewhere, although `cache.py:212` says a drill-in returns the stored scan.
* A retention policy is taken whatever its resolutions are (`retention.py:50`). When one is no
  multiple of the one before, a summary gets scans of a neighbouring bucket
  (`CountsAreExact` has the hypothesis).
* `at_time` of a share may return a scan older than its cap.
* Between a rollup and its purge a scan is shown twice.
* A watched key expires, although `cache.py` calls it "always a HIT", when the cap of a cycle
  leaves it out, a cycle comes to it 2 s or more after it began (it may have 500 keys), or
  a cycle takes longer than 8 s and the next is skipped.
* A request waits 10 s for a lock that lives 20 s (`cache.py:53`): when a computation takes
  longer than that, all that wait for it compute beside it. They also do when it
  fails, outlives its lock, or held it when Redis went and came back: then nobody
  releases the lock, and each waits its 10 s and computes.

Left out of modules that are there:

* Engine: calibration, and `ScanOnce`, which nothing calls. Data races in the Go sense other than the ones named.
* ConfigSync: flags and environment variables, fields read once, the hardware
  range in a command's check.
* MQTT client: TLS, credentials, `DisableMQTT` outside `Desktop`.
* Rollup: short sweeps that `uniform_length_subset` drops, `dry_run`, the
  deprecated `cleanup_scans`; peak and mean values, which the sets of scans
  stand for.
* Bridge: `publish_command`, which connects with a fixed client id per command,
  ignores whether its message went out and answers "sent": it keeps nothing that
  a property could relate. `publish_timeline_update`. One request at a time; looking up the
  band of a scan and creating the scan are one step.
* DynSec: clean-up of orphans and `--force`, the bootstrap's groups and monitor client,
  group syncs called by hand, the sticky connection error, deletion of users, a
  user's regenerated MQTT token (`admin.py:416`, which is never pushed), several
  server processes, and full saves of a scanner's row by others, which dispatch
  the same job.
* Access: throttling, the admin site's own permissions.
* ReadCache: the per-scan cache and ETags of drill-ins, statistics.
* ScanFeed: the subscriber that forwards to MQTT, whose publishing does not wait, and the
  desktop's (`Desktop`); the wait of a handler for an engine that is not set yet; the second of the two
  messages of a greeting.
* ScanStore: a statement that fails (its scan, or the clean-up until the next, is
  skipped), a row that does not decompress, timestamps in another zone.
* BrowserClient: the timeline and caches of the time scrubber, which keep what answers and messages
  bring and have no part in the connection; commands and their answers, preferences, band lists and status
  in the store, `VITE_DEV` branches; errors of a subscription.
* Desktop: the web server's start and stop, dialogs, history queries.

Components not modelled: the scanner's standalone page, a smaller second browser store over
one WebSocket (section 7); `decimate_power` of the server. Of views, serializers and the admin only the operations are
modelled that `Bridge`, `DynSec`, `Access`, `History` and `ReadCache` need; the
rest is parsing and rendering. Charts are
rendering; the calibration tools are offline scripts over instruments; USB and HTTP
protocols of the receivers and their signal processing are I/O and floating point.

## 7. Plan

Every invariant that a passing run checks is proved, except `SomeoneGoesOn`; new ones come with
new models.

Models next: the caches of the scrubber and the standalone page; more operators
against reference definitions over bounded inputs: segments of a sweep,
`validateBands`, parsing of retention policies, `uniform_length_subset`. A new run takes the place of one whose properties a theorem covers, to
keep the whole set short enough to run on every change.

Abstract specifications worth stating: a configuration as one register with
acknowledged writes, implemented by `ConfigSync` for one editor; retention as a set of
scans each held at one resolution.
