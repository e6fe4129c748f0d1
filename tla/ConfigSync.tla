------------------------------ MODULE ConfigSync ------------------------------
(***************************************************************************)
(* The scanner's band list and gain, and their three copies: the config    *)
(* file, the retained MQTT message and what the WebSocket clients last     *)
(* saw.  They are edited by HTTP handlers (scanner/internal/api), which    *)
(* assign to the shared Config without a lock, and by the MQTT command     *)
(* handler (scanner/internal/scanner/engine.go), which locks e.mu; the     *)
(* OnConnect handler (scanner/internal/mqtt/client.go) publishes it.       *)
(*                                                                         *)
(* A handler is a program of phases ("set", "save", "publish", ...), each  *)
(* one or more steps; between two steps any other handler may take one.    *)
(* A Go slice is a length and an array: an assignment that is not locked   *)
(* against its readers writes them in either order, and a reader between   *)
(* the two takes Junk past the end of a shorter array.                     *)
(*                                                                         *)
(* The hardware's frequency range, which also limits a command's bands, is *)
(* left out of Valid; band names are compared as they are.                 *)
(***************************************************************************)
EXTENDS Naturals, Sequences

CONSTANTS
  Api,         \* goroutines of the HTTP server
  Remote,      \* the goroutine that runs the MQTT command handler
  Hook,        \* the goroutine that runs the OnConnect handler
  PutLists,    \* the band lists an HTTP client may put
  RemoteLists, \* the band lists an MQTT command may carry
  Names,       \* of bands; a zero value's is ""
  Gains,       \* the gains a client may ask for
  FirstList,   \* the bands of the config file at the start
  DefaultList, \* the bands of DefaultConfig
  FirstGain,   \* the gain of the config file and of DefaultConfig
  MHz,         \* one MHz in the unit of the edges
  MaxRequests, \* bound: how many requests and commands arrive
  MaxFaults,   \* bound: how often the connection is lost or the process killed
  Junk,        \* what lies beyond the end of an array
  Empty,       \* a config file that has been truncated
  Garbled,     \* a config file with the tail of an older, longer one
  None         \* no goroutine, no list, no text

Procs == Api \cup {Remote, Hook}
Lists == PutLists \cup RemoteLists \cup {FirstList, DefaultList}

Band == [name : Names, lo : Nat, hi : Nat]

ASSUME ListsAssumption == "" \in Names /\ \A list \in Lists : list \in Seq(Band)
ASSUME BoundsAssumption ==
  MHz \in Nat \ {0} /\ {MaxRequests, MaxFaults} \subseteq Nat
ASSUME ProcsAssumption ==
  None \notin Procs /\ Remote \notin Api /\ Hook \notin Api /\ Remote # Hook

\* What the config file or a message holds
Texts == [bands : Seq(Band \cup {Junk}), gain : Gains \cup {FirstGain}]

ASSUME NamesAssumption ==
  /\ Junk \notin Band
  /\ None \notin Lists /\ None \notin Gains /\ None \notin Texts
  /\ Empty \notin Texts /\ Garbled \notin Texts /\ Empty # Garbled

VARIABLES
  up,         \* the process runs
  saver,      \* the save callbacks are set and the HTTP server listens
  mu,         \* who holds e.mu, None if free
  array, len, \* config.Bands
  filled,     \* the MHz fields of the array's bands are filled in
  gain,       \* config.RxGain
  job,        \* per goroutine: the phases to go, the step, the locals
  file,       \* the config file
  link,       \* the MQTT connection: "new", "up" or "lost"
  subscribed, \* the command topics are subscribed
  requests, losses, crashes,
  outbox,     \* config messages the MQTT client keeps until it is connected
  retained,   \* the retained message of the config topic
  shown,      \* the config last broadcast to the WebSocket clients there are
  fresh,      \* history: the last list saved and those put after it
  missed,     \* history: an edit has not reached the file
  raced       \* history: two edits overlapped, or one by HTTP and an OnConnect

sliceVars == <<array, len, filled>>
linkVars  == <<link, subscribed, losses, outbox, retained>>
procVars  == <<up, saver, requests, crashes>>
histVars  == <<fresh, missed, raced>>
vars == <<procVars, mu, sliceVars, gain, job, file, linkVars, shown, histVars>>

-----------------------------------------------------------------------------
(* Data                                                                    *)

\* What a reader of config.Bands finds
View == [i \in 1..len |-> IF i <= Len(array) THEN array[i] ELSE Junk]

ZeroBand == [name |-> "", lo |-> 0, hi |-> 0]

\* PublishConfig fills a list of the size it found before
Padded(bands, size) ==
  [i \in 1..size |-> IF i <= Len(bands) THEN bands[i] ELSE ZeroBand]

MapBands(f(_), bands) ==
  [i \in DOMAIN bands |-> IF bands[i] = Junk THEN Junk ELSE f(bands[i])]

\* The YAML file holds whole MHz, as PrepareSave left them in the MHz fields
ToMHz(bands, prepared) ==
  LET InMHz(b) == [b EXCEPT !.lo = IF prepared THEN @ \div MHz ELSE 0,
                            !.hi = IF prepared THEN @ \div MHz ELSE 0]
  IN  MapBands(InMHz, bands)

\* NormalizeBands turns them into Hz again
FromMHz(bands) ==
  LET InHz(b) == [b EXCEPT !.lo = @ * MHz, !.hi = @ * MHz] IN MapBands(InHz, bands)

\* What is left of a list when it has been saved and loaded
Rounded(bands) == FromMHz(ToMHz(bands, TRUE))

\* The edges of DefaultConfig are whole MHz
ASSUME DefaultAssumption == Rounded(DefaultList) = DefaultList

Text(bands, g) == [bands |-> bands, gain |-> g]

\* LoadFromFile: an empty file leaves the defaults
Loaded ==
  IF file = Empty THEN Text(DefaultList, FirstGain) ELSE Text(FromMHz(file.bands), file.gain)

\* validateBands
Valid(list) ==
  /\ list # <<>>
  /\ \A i \in DOMAIN list : 0 < list[i].lo /\ list[i].lo < list[i].hi
  /\ \A i, j \in DOMAIN list : i # j => list[i].name # list[j].name

Idle == [todo |-> <<>>, step |-> "begin", list |-> None, gain |-> None, size |-> 0,
         text |-> None]

Phases == {"lock", "unlock", "set", "gain", "lockedGain", "update", "save", "publish",
           "notify", "subscribe"}
Steps == {"begin", "array", "len", "fill", "send", "prepare", "marshal", "open", "write"}

\* Whoever holds e.mu has still to unlock it
LockOK ==
  mu # None => \E i \in DOMAIN job[mu].todo : job[mu].todo[i] = "unlock"

TypeOK ==
  /\ LockOK
  /\ up \in BOOLEAN /\ saver \in BOOLEAN /\ filled \in BOOLEAN /\ missed \in BOOLEAN
  /\ raced \in BOOLEAN
  /\ mu \in Procs \cup {None}
  /\ len \in Nat
  /\ \A p \in Procs :
       /\ \A i \in DOMAIN job[p].todo : job[p].todo[i] \in Phases
       /\ job[p].step \in Steps
       /\ job[p].list \in Lists \cup {None}
       /\ job[p].gain \in Gains \cup {None}
  /\ link \in {"new", "up", "lost"} /\ subscribed \in BOOLEAN
  /\ requests \in 0..MaxRequests
  /\ losses + crashes \in 0..MaxFaults /\ {losses, crashes} \subseteq Nat

Init ==
  /\ up = TRUE /\ saver = FALSE /\ mu = None
  /\ array = Rounded(FirstList) /\ len = Len(FirstList) /\ filled = TRUE
  /\ gain = FirstGain
  /\ job = [p \in Procs |-> Idle]
  /\ file = Text(ToMHz(FirstList, TRUE), FirstGain)
  /\ link = "new" /\ subscribed = FALSE /\ requests = 0 /\ losses = 0 /\ crashes = 0
  /\ outbox = {} /\ retained = None /\ shown = None
  /\ fresh = {Rounded(FirstList)} /\ missed = FALSE
  /\ raced = FALSE

At(p, phase, step) ==
  job[p].todo # <<>> /\ Head(job[p].todo) = phase /\ job[p].step = step

\* Goroutine p goes to a step of its phase, or on to its next phase
To(p, step) == job' = [job EXCEPT ![p].step = step]
NextPhase(p) ==
  LET j == job[p]
      next == [j EXCEPT !.todo = Tail(j.todo), !.step = "begin", !.size = 0, !.text = None]
  IN  job' = [job EXCEPT ![p] = IF Len(j.todo) = 1 THEN Idle ELSE next]

-----------------------------------------------------------------------------
(* The handlers                                                            *)

\* Mutants: the file is written first; a return leaves e.mu locked; commands
\* are let in first
HandleBandsSavedFirst == <<"lock", "save", "set", "publish", "unlock", "notify">>
HandleBandsLocked     == <<"lock", "set", "save", "publish", "notify">>
OnConnectOpenFirst    == <<"subscribe", "publish">>

PutBandsProgram    == <<"set", "update", "publish", "notify", "save", "publish">>
PutConfigProgram   == <<"set", "update", "publish", "notify", "save">>
PutGainProgram     == <<"gain", "update", "publish", "notify", "save">>
HandleBandsProgram == <<"lock", "set", "save", "publish", "unlock", "notify">>
HandleGainProgram  == <<"lockedGain", "publish", "notify">>
OnConnectProgram   == <<"publish", "subscribe">>

Busy(P) == \E p \in P : job[p] # Idle

Begin(p, program, list, g) ==
  /\ up /\ job[p] = Idle
  /\ requests < MaxRequests
  /\ requests' = requests + 1
  /\ job' = [job EXCEPT ![p].todo = program, ![p].list = list, ![p].gain = g]
  /\ fresh' = IF list = None THEN fresh ELSE fresh \cup {list}
  /\ raced' = (raced \/ Busy(IF p = Remote THEN Api \cup {Remote} ELSE Procs))
  /\ UNCHANGED <<up, saver, crashes, mu, sliceVars, gain, file, linkVars, shown, missed>>

\* An HTTP handler takes any list; PUT /api/config ignores an empty one
HandlePut(p) ==
  /\ p \in Api /\ saver
  /\ \/ \E list \in PutLists : Begin(p, PutBandsProgram, list, None)
     \/ \E list \in PutLists \ {<<>>} : Begin(p, PutConfigProgram, list, None)
     \/ \E g \in Gains : Begin(p, PutGainProgram, None, g)

\* A command reaches a scanner that is connected and has subscribed
HandleCommand ==
  /\ link = "up" /\ subscribed
  /\ \/ \E list \in {valid \in RemoteLists : Valid(valid)} :
          Begin(Remote, HandleBandsProgram, list, None)
     \/ \E g \in Gains : Begin(Remote, HandleGainProgram, None, g)

-----------------------------------------------------------------------------
(* Phases that change the configuration                                    *)

Lock(p) ==
  /\ At(p, "lock", "begin") /\ mu = None
  /\ mu' = p
  /\ NextPhase(p)
  /\ UNCHANGED <<procVars, sliceVars, gain, file, linkVars, shown, histVars>>

Unlock(p) ==
  /\ At(p, "unlock", "begin")
  /\ mu' = None
  /\ NextPhase(p)
  /\ UNCHANGED <<procVars, sliceVars, gain, file, linkVars, shown, histVars>>

WriteLen(p)   == len' = Len(job[p].list) /\ UNCHANGED <<array, filled>>
WriteArray(p) == array' = job[p].list /\ filled' = FALSE /\ UNCHANGED len

\* config.Bands = bands, the two halves in either order
SetBands(p) ==
  /\ \/ At(p, "set", "begin") /\ WriteLen(p) /\ To(p, "array")
     \/ At(p, "set", "begin") /\ WriteArray(p) /\ To(p, "len")
     \/ At(p, "set", "array") /\ WriteArray(p) /\ NextPhase(p)
     \/ At(p, "set", "len") /\ WriteLen(p) /\ NextPhase(p)
  /\ UNCHANGED <<procVars, mu, gain, file, linkVars, shown, histVars>>

SetGain(p) ==
  /\ At(p, "gain", "begin") \/ (At(p, "lockedGain", "begin") /\ mu = None)
  /\ gain' = job[p].gain
  /\ NextPhase(p)
  /\ UNCHANGED <<procVars, mu, sliceVars, file, linkVars, shown, histVars>>

\* UpdateConfig stores the pointer the engine already has
Update(p) ==
  /\ At(p, "update", "begin") /\ mu = None
  /\ NextPhase(p)
  /\ UNCHANGED <<procVars, mu, sliceVars, gain, file, linkVars, shown, histVars>>

\* Nobody is connected before the HTTP server listens
Notify(p) ==
  /\ At(p, "notify", "begin")
  /\ shown' = IF saver THEN Text(View, gain) ELSE shown
  /\ NextPhase(p)
  /\ UNCHANGED <<procVars, mu, sliceVars, gain, file, linkVars, histVars>>

-----------------------------------------------------------------------------
(* The process                                                             *)

\* What the process leaves behind is the file and the broker's message
Die ==
  /\ up' = FALSE /\ saver' = FALSE /\ mu' = None
  /\ job' = [p \in Procs |-> Idle]
  /\ link' = "new" /\ subscribed' = FALSE /\ outbox' = {}
  /\ missed' = (missed \/ file \in {Empty, Garbled})
  /\ shown' = None
  /\ UNCHANGED <<requests, sliceVars, gain, file, losses, retained, fresh, raced>>

Crash == up /\ losses + crashes < MaxFaults /\ crashes' = crashes + 1 /\ Die

\* An index out of range: net/http recovers a handler of its own, any other
\* goroutine takes the process with it
Panic(p) ==
  IF p \in Api
    THEN /\ job' = [job EXCEPT ![p] = Idle]
         /\ missed' = TRUE
         /\ UNCHANGED <<procVars, mu, sliceVars, gain, file, linkVars, shown, fresh, raced>>
    ELSE Die /\ UNCHANGED crashes

\* A file that does not parse stops the program at once
Restart ==
  /\ ~up /\ file # Garbled
  /\ up' = TRUE
  /\ array' = Loaded.bands /\ len' = Len(Loaded.bands) /\ filled' = (file # Empty)
  /\ gain' = Loaded.gain
  /\ fresh' = IF missed THEN {Loaded.bands} ELSE fresh
  /\ missed' = FALSE
  /\ UNCHANGED <<saver, requests, crashes, mu, job, file, linkVars, shown, raced>>

\* main sets the save callbacks last, after the MQTT client has been started
SetConfigSaveFunc ==
  /\ up /\ ~saver
  /\ saver' = TRUE
  /\ UNCHANGED <<up, requests, crashes, mu, sliceVars, gain, job, file, linkVars, shown, histVars>>

-----------------------------------------------------------------------------
(* SaveToFile                                                              *)

\* The range loop of PrepareSave takes the length once ...
SaveBegin(p) ==
  /\ At(p, "save", "begin")
  /\ IF saver
       THEN /\ job' = [job EXCEPT ![p].step = "prepare", ![p].size = len]
            /\ UNCHANGED missed
       ELSE NextPhase(p) /\ missed' = TRUE
  /\ UNCHANGED <<procVars, mu, sliceVars, gain, file, linkVars, shown, fresh, raced>>

\* Mutant: the MHz fields are left as they are
SaveUnprepared(p) ==
  /\ At(p, "save", "prepare")
  /\ To(p, "marshal")
  /\ UNCHANGED <<procVars, mu, sliceVars, gain, file, linkVars, shown, histVars>>

\* ... and then indexes the list there is
SavePrepare(p) ==
  /\ At(p, "save", "prepare")
  /\ \/ job[p].size > len /\ Panic(p)
     \/ /\ job[p].size <= len
        /\ filled' = TRUE
        /\ To(p, "marshal")
        /\ UNCHANGED <<procVars, mu, array, len, gain, file, linkVars, shown, histVars>>

SaveMarshal(p) ==
  /\ At(p, "save", "marshal")
  /\ job' = [job EXCEPT ![p].step = "open", ![p].text = Text(ToMHz(View, filled), gain)]
  /\ UNCHANGED <<procVars, mu, sliceVars, gain, file, linkVars, shown, histVars>>

\* os.WriteFile: truncate ...
SaveOpen(p) ==
  /\ At(p, "save", "open")
  /\ \/ file' = Empty /\ To(p, "write") /\ UNCHANGED missed
     \/ UNCHANGED file /\ NextPhase(p) /\ missed' = TRUE
  /\ UNCHANGED <<procVars, mu, sliceVars, gain, linkVars, shown, fresh, raced>>

\* ... and write over what another writer may have put there since: a text
\* that is not longer leaves the tail of the other
Overwrite(text) ==
  IF file \in {Empty, Garbled}
    THEN file' = IF file = Empty THEN text ELSE Garbled
    ELSE \/ Len(file.bands) <= Len(text.bands) /\ file' = text
         \/ file # text /\ Len(text.bands) <= Len(file.bands) /\ file' = Garbled

SaveWrite(p) ==
  /\ At(p, "save", "write")
  /\ NextPhase(p)
  /\ \/ /\ Overwrite(job[p].text)
        /\ missed' = FALSE
        /\ fresh' = IF job[p].list = None THEN fresh
                    ELSE {job[q].list : q \in {q \in Procs : q = p \/ job[q].list # None}}
     \/ UNCHANGED <<file, fresh>> /\ missed' = TRUE
  /\ UNCHANGED <<procVars, mu, sliceVars, gain, linkVars, shown, raced>>

-----------------------------------------------------------------------------
(* PublishConfig and the MQTT connection                                   *)

PublishBegin(p) ==
  /\ At(p, "publish", "begin")
  /\ job' = [job EXCEPT ![p].step = "fill", ![p].size = len]
  /\ UNCHANGED <<procVars, mu, sliceVars, gain, file, linkVars, shown, histVars>>

PublishFill(p) ==
  /\ At(p, "publish", "fill")
  /\ \/ job[p].size < len /\ Panic(p)
     \/ /\ job[p].size >= len
        /\ job' = [job EXCEPT ![p].step = "send",
                              ![p].text = Text(Padded(View, job[p].size), gain)]
        /\ UNCHANGED <<procVars, mu, sliceVars, gain, file, linkVars, shown, histVars>>

\* Kept for the next connection when this one is lost, gone when there has
\* not been one
PublishSend(p) ==
  /\ At(p, "publish", "send")
  /\ NextPhase(p)
  /\ retained' = IF link = "up" THEN job[p].text ELSE retained
  /\ outbox' = IF link = "lost" THEN outbox \cup {job[p].text} ELSE outbox
  /\ UNCHANGED <<procVars, mu, sliceVars, gain, file, link, subscribed, losses, shown, histVars>>

Subscribe(p) ==
  /\ At(p, "subscribe", "begin")
  /\ subscribed' = (link = "up")
  /\ NextPhase(p)
  /\ UNCHANGED <<procVars, mu, sliceVars, gain, file, link, losses, outbox, retained, shown,
                 histVars>>

\* A connection comes up and its OnConnect handler begins
LinkUp ==
  /\ up /\ link # "up" /\ job[Hook] = Idle
  /\ link' = "up"
  /\ job' = [job EXCEPT ![Hook].todo = OnConnectProgram]
  /\ raced' = (raced \/ Busy(Api))
  /\ UNCHANGED <<procVars, mu, sliceVars, gain, file, subscribed, losses, outbox, retained,
                 shown, fresh, missed>>

LinkLost ==
  /\ link = "up" /\ losses + crashes < MaxFaults
  /\ link' = "lost" /\ subscribed' = FALSE
  /\ losses' = losses + 1
  /\ UNCHANGED <<procVars, mu, sliceVars, gain, job, file, outbox, retained, shown, histVars>>

SendKept ==
  /\ link = "up"
  /\ \E text \in outbox : retained' = text /\ outbox' = outbox \ {text}
  /\ UNCHANGED <<procVars, mu, sliceVars, gain, job, file, link, subscribed, losses, shown,
                 histVars>>

-----------------------------------------------------------------------------
Save(p) == SaveBegin(p) \/ SavePrepare(p) \/ SaveMarshal(p) \/ SaveOpen(p) \/ SaveWrite(p)
Publish(p) == PublishBegin(p) \/ PublishFill(p) \/ PublishSend(p)

Work(p) == \/ Lock(p) \/ Unlock(p) \/ SetBands(p) \/ SetGain(p) \/ Update(p) \/ Notify(p)
           \/ Save(p) \/ Publish(p) \/ Subscribe(p)

Next ==
  \/ \E p \in Api : HandlePut(p)
  \/ HandleCommand
  \/ \E p \in Procs : Work(p)
  \/ LinkUp \/ LinkLost \/ SendKept
  \/ Crash \/ Restart \/ SetConfigSaveFunc

Spec == Init /\ [][Next]_vars

-----------------------------------------------------------------------------
(* Properties                                                              *)

Quiet == up /\ \A p \in Procs : job[p] = Idle

\* When no request is under way and no save has failed, a restart would bring
\* back the bands the scanner sweeps, to the MHz: what was put last was also
\* saved last (engine.go:409-411, handlers.go:131-137).
FileCurrent ==
  Quiet /\ ~missed /\ ~raced =>
    file # Garbled /\ Loaded.bands = Rounded(View)

\* When no request is under way, the broker's retained message is the scanner's
\* configuration (engine.go:380-382), unless messages kept over an outage, which
\* are resumed in any order, came in between; nor do the WebSocket clients see
\* an older one than the last they were sent.
CopiesCurrent ==
  /\ TypeOK
  /\ Quiet /\ ~raced =>
       /\ link = "up" /\ losses = 0 => retained = Text(View, gain)
       /\ shown # None => shown = Text(View, gain)

\* The bands in use are the last that were saved or some that were put after
\* them, whatever restarts: an edit that was saved is not undone (main.go:107).
Setting == \E p \in Procs : At(p, "set", "array") \/ At(p, "set", "len")
EditsSurvive ==
  up /\ ~raced /\ ~Setting => \E list \in fresh : Rounded(list) = Rounded(View)

\* While handlers are at work one of them can go on, whoever holds e.mu and
\* whatever panics or overlaps: since a handler is a finite program and Go's
\* mutexes pass nobody over, each of them ends (engine.go:394).
SomeoneGoesOn == Busy(Procs) => \E p \in Procs : ENABLED Work(p)
=============================================================================
