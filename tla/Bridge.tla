------------------------------- MODULE Bridge -------------------------------
(***************************************************************************)
(* The server's copy of a scanner: the row of core/models.py, its bands    *)
(* and its scans, and everyone who writes them.  The MQTT bridge           *)
(* (realtime/mqtt_bridge.py) takes the scanner's messages one at a time    *)
(* and writes the row in several statements; requests of the REST API and  *)
(* forms of the admin read the row, change it and save all of it.          *)
(*                                                                         *)
(* A step is one write at the database, with the reads before it unless    *)
(* what was read is written back.  The scanner's engine and client are     *)
(* reduced to what they publish; configuration and status are retained by  *)
(* the broker, and sent again to a bridge that reconnects.                 *)
(***************************************************************************)
EXTENDS Integers, Sequences

CONSTANTS
  Bands,      \* band names
  Layouts,    \* band lists a scanner may have: functions from names to ranges
  FirstLayout,
  Foreign,    \* names that another scanner has a band of
  Interval,   \* STORE_INTERVAL_SECONDS, in ticks
  MaxTime, MaxQueue, MaxEvents,  \* bounds
  None

Ranges == UNION {{f[b] : b \in DOMAIN f} : f \in Layouts}
Band   == UNION {[B -> Ranges] : B \in SUBSET Bands}
Row    == [online : BOOLEAN, scanning : BOOLEAN, band : Bands \cup {None},
           token : 0..MaxEvents, enabled : BOOLEAN]

ASSUME BridgeAssumption ==
  /\ Interval \in Nat \ {0} /\ {MaxTime, MaxEvents} \subseteq Nat /\ MaxQueue \in Nat \ {0, 1}
  /\ FirstLayout \in Layouts /\ Layouts \subseteq Band
  /\ Foreign \subseteq Bands /\ None \notin Bands \cup Nat \cup Row

ASSUME NoMessage == None \notin [type : {"config"}, layout : Layouts]

VARIABLES
  device,   \* the scanner: its link, what its engine does (running, sweeps), its band
            \* list (layout), and the status it published last (online, scanning, band)
  retained, \* its retained status and configuration at the broker, or None
  inbox,    \* messages on their way to the bridge
  bridge,   \* the connection, and the handler that runs
  last,     \* last_store_times: band to time
  row,      \* the scanner's row, or None
  bands,    \* its band rows: name to range
  scans,    \* its stored scans
  rest,     \* a request that read the row and will save it, or None
  now, events,
  ghost     \* what was edited last, and what an overlap or failure put out of date

tables == <<row, bands, scans>>
vars == <<device, retained, inbox, bridge, last, tables, rest, now, events, ghost>>

Status(up, scanning, b) == [type |-> "status", online |-> up, scanning |-> scanning, band |-> b]
Config(f)   == [type |-> "config", layout |-> f]
ScanOf(b)   == [type |-> "scan", band |-> b]

\* "band" is the name in the message, "of" the band row: the scanner's, another
\* scanner's, or none.  "run" is the bridge process that stored it.
Scan == [band : Bands, of : {"own", "foreign", None}, time : 0..MaxTime,
         run : 0..MaxEvents \cup {None}]

\* Mutant: no band leaves the one there was
BandKept(r, m) == [r EXCEPT !.online = m.online, !.scanning = m.scanning,
                            !.band = IF m.band = None THEN @ ELSE m.band]

WithStatus(r, m) == [r EXCEPT !.online = m.online, !.scanning = m.scanning, !.band = m.band]

Put(f, k, v) == [j \in DOMAIN f \cup {k} |-> IF j = k THEN v ELSE f[j]]

Event == events < MaxEvents /\ events' = events + 1

-----------------------------------------------------------------------------
(* The scanner and the broker                                              *)

Publish(messages) ==
  /\ inbox' = IF bridge.up THEN inbox \o messages ELSE inbox
  /\ Len(inbox') <= MaxQueue
  /\ retained' = [k \in DOMAIN retained |->
       LET ofKind == {i \in DOMAIN messages : messages[i].type = k}
       IN  IF ofKind = {} THEN retained[k] ELSE messages[CHOOSE i \in ofKind : TRUE]]
  /\ UNCHANGED <<bridge, last, tables, rest, now, ghost>>

Said(d, online, scanning, b) == [d EXCEPT !.online = online, !.scanning = scanning, !.band = b]

\* IsConnected holds until Disconnect has published its status and left.
Connected == device.link # "down"

\* The device becomes d; it publishes, if it is connected, that it is online.
Tells(d, scanning, b) ==
  IF Connected THEN device' = Said(d, TRUE, scanning, b) /\ Publish(<<Status(TRUE, scanning, b)>>)
               ELSE device' = d /\ Publish(<<>>)

\* OnConnect publishes the configuration, then the status.
DeviceUp ==
  /\ device.link = "down" /\ Event
  /\ device' = Said([device EXCEPT !.link = "up"], TRUE, FALSE, None)
  /\ Publish(<<Config(device.layout), Status(TRUE, FALSE, None)>>)

\* The connection is lost: the broker publishes the will.
DeviceLost ==
  /\ Connected /\ Event
  /\ device' = Said([device EXCEPT !.link = "down"], FALSE, FALSE, None)
  /\ Publish(<<Status(FALSE, FALSE, None)>>)

\* Disconnect publishes that the scanner is offline,
DeviceLeaves ==
  /\ device.link = "up" /\ Event
  /\ device' = Said([device EXCEPT !.link = "leaving"], FALSE, FALSE, None)
  /\ Publish(<<Status(FALSE, FALSE, None)>>)

\* and closes the connection.  Loops that sweep publish until then.
DeviceGone ==
  /\ device.link = "leaving"
  /\ device' = [device EXCEPT !.link = "down"]
  /\ Publish(<<>>) /\ UNCHANGED events

DeviceStarts ==
  /\ ~device.running /\ Event
  /\ Tells([device EXCEPT !.running = TRUE], TRUE, None)

\* Stop does not wait for the loop.
DeviceStops ==
  /\ device.running /\ Event
  /\ Tells([device EXCEPT !.running = FALSE], FALSE, None)

\* A loop that is not cancelled comes to a band of the list as it was when the
\* round began,
DeviceTurns(b) ==
  /\ device.running /\ Event
  /\ device' = [device EXCEPT !.sweeps = @ \cup {b}]
  /\ Publish(<<>>)

\* publishes that it sweeps it,
DeviceSweeps(b) ==
  /\ b \in device.sweeps /\ UNCHANGED events
  /\ Tells(device, TRUE, b)

\* and what it found, whatever was stopped, edited or disconnected meanwhile.
DeviceScans(b) ==
  /\ b \in device.sweeps /\ UNCHANGED events
  /\ device' = [device EXCEPT !.sweeps = @ \ {b}]
  /\ Publish(IF Connected THEN <<ScanOf(b)>> ELSE <<>>)

\* The band list is replaced, or published again as it is.
DeviceConfig(f) ==
  /\ Event
  /\ device' = [device EXCEPT !.layout = f]
  /\ Publish(IF Connected THEN <<Config(f)>> ELSE <<>>)

-----------------------------------------------------------------------------
(* The bridge's connection and its process                                 *)

Waiting == [bridge EXCEPT !.at = "idle", !.read = None, !.todo = {}, !.band = None]

\* The connection is lost, or the process dies, and last_store_times with it.
BridgeDown ==
  /\ bridge.up /\ Event
  /\ \/ bridge.at = "idle" /\ bridge' = [Waiting EXCEPT !.up = FALSE] /\ UNCHANGED last
     \/ bridge' = [Waiting EXCEPT !.up = FALSE, !.run = @ + 1] /\ last' = << >>
  /\ inbox' = <<>>
  /\ UNCHANGED <<device, retained, tables, rest, now, ghost>>

Kept(type) == IF retained[type] = None THEN <<>> ELSE <<retained[type]>>

\* on_connect subscribes to scans, status and configuration, in this order.
Subscribed == Kept("status") \o Kept("config")

BridgeUp ==
  /\ ~bridge.up
  /\ bridge' = [Waiting EXCEPT !.up = TRUE]
  /\ inbox' = Subscribed
  /\ UNCHANGED <<device, retained, last, tables, rest, now, events, ghost>>

-----------------------------------------------------------------------------
(* on_message                                                              *)

Arrived(type) == bridge.up /\ bridge.at = "idle" /\ inbox # <<>> /\ Head(inbox).type = type
Take          == inbox' = Tail(inbox)
Elsewhere     == UNCHANGED <<device, retained, rest, now>>

\* handle_status: one UPDATE, which a scanner that is not there ignores
HandleStatus ==
  /\ Arrived("status") /\ Take
  /\ row' = IF row = None THEN None ELSE WithStatus(row, Head(inbox))
  /\ ghost' = [ghost EXCEPT !.status = row = None]
  /\ UNCHANGED <<bridge, last, bands, scans, events>> /\ Elsewhere

\* handle_config reads the row,
HandleConfig ==
  /\ Arrived("config") /\ Take
  /\ IF row = None
     THEN UNCHANGED <<bridge, ghost>>
     ELSE /\ bridge' = [bridge EXCEPT !.at = "config", !.read = [row EXCEPT !.online = TRUE],
                                      !.todo = {<<b, Head(inbox).layout[b]>> :
                                                  b \in DOMAIN Head(inbox).layout}]
          /\ ghost' = [ghost EXCEPT !.bands = FALSE, !.status = @ \/ ~device.online]
  /\ UNCHANGED <<last, tables, events>> /\ Elsewhere

\* The edits that saving all of r takes back, or may take back when it
\* inserts a row that was deleted
Overwritten(r) == {f \in {"token", "enabled"} : row = None \/ r[f] # row[f]}

\* saves all of it, which inserts a row that has been deleted meanwhile,
SaveConfig ==
  /\ bridge.at = "config"
  /\ row' = bridge.read
  /\ bridge' = [bridge EXCEPT !.at = "bands", !.read = None]
  /\ ghost' = [ghost EXCEPT !.lost = @ \cup Overwritten(bridge.read)]
  /\ UNCHANGED <<inbox, last, bands, scans, events>> /\ Elsewhere

\* Mutant: get_or_create
CreateBand(b, range) == IF b \in DOMAIN bands THEN bands ELSE Put(bands, b, range)

UpdateOrCreateBand(b, range) == Put(bands, b, range)

\* and then each band of the message.  A band that is not in it stays.
SaveBand ==
  /\ bridge.at = "bands" /\ row # None
  /\ \E todo \in bridge.todo :
       /\ bands' = UpdateOrCreateBand(todo[1], todo[2])
       /\ bridge' = [bridge EXCEPT !.todo = @ \ {todo}]
  /\ UNCHANGED <<inbox, last, row, scans, events, ghost>> /\ Elsewhere

ConfigEnds ==
  /\ bridge.at = "bands" /\ bridge.todo = {}
  /\ bridge' = Waiting
  /\ UNCHANGED <<inbox, last, tables, events, ghost>> /\ Elsewhere

-----------------------------------------------------------------------------
(* handle_scan and store_scan                                              *)

\* last_store_times is set however the attempt went.
Stamp(b, t) == last' = Put(last, b, t)

Due(b) == b \notin DOMAIN last \/ now - last[b] >= Interval

\* Mutant: a scan that is held back counts as well
HoldsOff(b) == last' = [last EXCEPT ![b] = now]

Holds(b) == UNCHANGED last

HandleScan ==
  /\ Arrived("scan") /\ Take
  /\ LET b == Head(inbox).band
     IN  CASE ~Due(b)    -> Holds(b) /\ UNCHANGED <<bridge, ghost>>
           [] Due(b) /\ row = None ->
                Stamp(b, now) /\ ghost' = [ghost EXCEPT !.unstored = @ \cup {b}] /\ UNCHANGED bridge
           [] OTHER      ->
                /\ bridge' = [bridge EXCEPT !.at = "seen", !.read = [row EXCEPT !.online = TRUE],
                                            !.band = b, !.began = now]
                /\ ghost' = [ghost EXCEPT !.status = @ \/ ~device.online] /\ UNCHANGED last
  /\ UNCHANGED <<tables, events>> /\ Elsewhere

\* Mutant: the whole row is saved
SeenRow == bridge.read

\* save(update_fields=['online', 'last_seen'])
SeenFields == [row EXCEPT !.online = bridge.read.online]

SeenScan ==
  /\ bridge.at = "seen" /\ row # None
  /\ row' = SeenFields
  /\ bridge' = [bridge EXCEPT !.at = "store"]
  /\ UNCHANGED <<inbox, last, bands, scans, events, ghost>> /\ Elsewhere

\* The scanner that a scan refers to is there.
Referred == row # None

StoreScan ==
  /\ bridge.at = "store" /\ Referred
  /\ scans' = scans \cup {[band |-> bridge.band, time |-> bridge.began, run |-> bridge.run,
                           of |-> IF bridge.band \in DOMAIN bands THEN "own" ELSE None]}
  /\ Stamp(bridge.band, bridge.began)
  /\ bridge' = Waiting
  /\ ghost' = [ghost EXCEPT !.unstored = @ \ {bridge.band}]
  /\ UNCHANGED <<inbox, row, bands, events>> /\ Elsewhere

\* A statement of a handler fails, and must when the row it needs is gone
\* (except that a full save inserts it). The exception is logged.
RowGone == row = None /\ (bridge.at \in {"seen", "store"} \/ (bridge.at = "bands" /\ bridge.todo # {}))

Fails ==
  /\ bridge.up /\ IF RowGone THEN UNCHANGED events ELSE Event
  /\ \/ bridge.at \in {"seen", "store"} /\ Stamp(bridge.band, bridge.began) /\ UNCHANGED inbox
        /\ ghost' = [ghost EXCEPT !.unstored = @ \cup {bridge.band}]
     \/ bridge.at \in {"config", "bands"} /\ UNCHANGED <<inbox, last>>
        /\ ghost' = [ghost EXCEPT !.bands = TRUE]
     \/ Arrived("status") /\ Take /\ UNCHANGED last
        /\ ghost' = [ghost EXCEPT !.status = TRUE]
  /\ bridge' = Waiting
  /\ UNCHANGED tables /\ Elsewhere

Tick == /\ now < MaxTime /\ now' = now + 1
        /\ UNCHANGED <<device, retained, inbox, bridge, last, tables, rest, events, ghost>>

-----------------------------------------------------------------------------
(* Requests and the admin                                                  *)

Aside == UNCHANGED <<device, retained, inbox, bridge, last, now>>

\* regenerate_token saves auth_token alone.
Regenerate ==
  /\ row # None /\ Event
  /\ row' = [row EXCEPT !.token = ghost.token + 1]
  /\ ghost' = [ghost EXCEPT !.token = @ + 1, !.lost = @ \ {"token"}]
  /\ UNCHANGED <<bands, scans, rest>> /\ Aside

\* The admin's form, PUT or PATCH: the row is read,
EditRead ==
  /\ rest = None /\ row # None /\ Event
  /\ rest' = [row |-> [row EXCEPT !.enabled = ~@], band |-> None, saved |-> FALSE]
  /\ UNCHANGED <<tables, ghost>> /\ Aside

\* A scan is posted: get_or_create,
PostRead(b) ==
  /\ rest = None /\ Event
  /\ LET found == IF row # None THEN row
                  ELSE [online |-> FALSE, scanning |-> FALSE, band |-> None,
                        token |-> ghost.token + 1, enabled |-> TRUE]
     IN  /\ row'  = found
         /\ rest' = [row |-> [found EXCEPT !.online = TRUE, !.band = b], band |-> b, saved |-> FALSE]
         /\ ghost' = IF row # None THEN ghost
                     ELSE [ghost EXCEPT !.token = found.token, !.enabled = TRUE, !.lost = {}]
  /\ UNCHANGED <<bands, scans>> /\ Aside

\* and either saves all it read, with what it changed.
RestSave ==
  /\ rest # None /\ ~rest.saved
  /\ row' = rest.row
  /\ LET edits == IF rest.band = None THEN {"enabled"} ELSE {}
         fields == {"online", "scanning", "band"}
     IN  ghost' = [ghost EXCEPT
           !.enabled = IF edits = {} THEN @ ELSE rest.row.enabled,
           !.lost    = (@ \cup Overwritten(rest.row)) \ edits,
           !.status  = @ \/ row = None \/ \E f \in fields : rest.row[f] # row[f]]
  /\ rest' = IF rest.band = None THEN None ELSE [rest EXCEPT !.saved = TRUE]
  /\ UNCHANGED <<bands, scans, events>> /\ Aside

\* The posted scan gets the first band of its name, whoever's it is.
BandsNamed(b) ==
  LET found == (IF b \in DOMAIN bands THEN {"own"} ELSE {}) \cup (IF b \in Foreign THEN {"foreign"} ELSE {})
  IN  IF found = {} THEN {None} ELSE found

PostScan ==
  /\ rest # None /\ rest.saved
  /\ \/ ~Referred /\ UNCHANGED scans
     \/ Referred /\ \E of \in BandsNamed(rest.band) :
          scans' = scans \cup {[band |-> rest.band, time |-> now, run |-> None, of |-> of]}
  /\ rest' = None
  /\ UNCHANGED <<row, bands, events, ghost>> /\ Aside

DeleteScanner ==
  /\ row # None /\ Event
  /\ row' = None /\ bands' = << >> /\ scans' = {}
  /\ ghost' = [ghost EXCEPT !.status = TRUE, !.bands = TRUE, !.unstored = DOMAIN last]
  /\ UNCHANGED rest /\ Aside

\* The admin edits or deletes a band.
EditBand(b) ==
  /\ b \in DOMAIN bands /\ Event
  /\ \/ \E range \in Ranges \ {bands[b]} : bands' = [bands EXCEPT ![b] = range] /\ UNCHANGED scans
     \/ /\ bands' = [c \in DOMAIN bands \ {b} |-> bands[c]]
        /\ scans' = {IF s.band = b /\ s.of = "own" THEN [s EXCEPT !.of = None] ELSE s : s \in scans}
  /\ ghost' = [ghost EXCEPT !.bands = TRUE]
  /\ UNCHANGED <<row, rest>> /\ Aside

-----------------------------------------------------------------------------
\* The scanner was made in the admin. It is up, or was never; its engine may run.
Init ==
  /\ \E up, running \in BOOLEAN :
       /\ device = [link |-> IF up THEN "up" ELSE "down", layout |-> FirstLayout,
                    online |-> up, scanning |-> up /\ running, band |-> None,
                    running |-> running, sweeps |-> {}]
       /\ retained = [status |-> IF up THEN Status(TRUE, running, None) ELSE None,
                      config |-> IF up THEN Config(FirstLayout) ELSE None]
  /\ inbox = <<>> /\ last = << >>
  /\ bridge = [up |-> FALSE, at |-> "idle", read |-> None, todo |-> {}, band |-> None,
               began |-> 0, run |-> 0]
  /\ row = [online |-> FALSE, scanning |-> FALSE, band |-> None, token |-> 0, enabled |-> TRUE]
  /\ bands = << >> /\ scans = {} /\ rest = None /\ now = 0 /\ events = 0
  /\ ghost = [token |-> 0, enabled |-> TRUE, lost |-> {}, status |-> FALSE, bands |-> TRUE,
              unstored |-> {}]

Device ==
  \/ DeviceUp \/ DeviceLost \/ DeviceLeaves \/ DeviceGone \/ DeviceStarts \/ DeviceStops
  \/ \E b \in Bands : DeviceTurns(b) \/ DeviceSweeps(b) \/ DeviceScans(b)
  \/ \E f \in Layouts : DeviceConfig(f)

Next ==
  \/ Device \/ BridgeDown \/ BridgeUp \/ Tick
  \/ HandleStatus \/ HandleConfig \/ SaveConfig \/ SaveBand \/ ConfigEnds
  \/ HandleScan \/ SeenScan \/ StoreScan \/ Fails
  \/ Regenerate \/ EditRead \/ RestSave \/ PostScan \/ DeleteScanner
  \/ \E b \in Bands : PostRead(b) \/ EditBand(b)

Spec == Init /\ [][Next]_vars

-----------------------------------------------------------------------------
(* Properties                                                              *)

TypeOK ==
  /\ device.layout \in Layouts /\ device.band \in Bands \cup {None} /\ device.sweeps \subseteq Bands
  /\ Len(inbox) <= MaxQueue /\ (bridge.up \/ inbox = <<>>)
  /\ row \in Row \cup {None} /\ bands \in Band /\ scans \subseteq Scan
  /\ bridge.read \in Row \cup {None} /\ (bridge.at \in {"seen", "store"} => bridge.band \in Bands)
  /\ DOMAIN last \subseteq Bands /\ \A b \in DOMAIN last : last[b] \in 0..now
  /\ (row = None => bands = << >> /\ scans = {})
  /\ ghost.lost \subseteq {"token", "enabled"} /\ ghost.unstored \subseteq Bands

Quiet == bridge.up /\ bridge.at = "idle" /\ inbox = <<>>

\* Once the bridge has taken all messages the row says what the scanner said of
\* itself last: whatever was lost while the bridge was away comes back with the
\* retained messages, and neither a late scan nor a half-done handler outlives
\* the status behind it.  Left out, until the next status, are a row that a
\* request saved over the status, a failed UPDATE, and a scan or configuration
\* that was delivered after the status of a scanner that is gone or leaves.
StatusMirrored ==
  Quiet /\ row # None /\ ~ghost.status /\ retained["status"] # None =>
    [online |-> row.online, scanning |-> row.scanning, band |-> row.band]
      = [online |-> device.online, scanning |-> device.scanning, band |-> device.band]

\* The bands of the row are those of the scanner, with its ranges, after any
\* crash, reconnection or deleted row, unless the admin edited one since or a
\* statement failed.
BandsMirrored ==
  Quiet /\ row # None /\ Connected /\ ~ghost.bands =>
    \A b \in DOMAIN device.layout : b \in DOMAIN bands /\ bands[b] = device.layout[b]

\* Neither status nor scans of a busy scanner undo what the admin did: a token
\* or a switch is lost only to a full save of a row that was read before.
EditsSurvive ==
  row # None => \A f \in {"token", "enabled"} \ ghost.lost : row[f] = ghost[f]

\* One bridge process stores one scan of a band per interval, no more and no
\* less: a scan is held back only for one that was stored less than an interval
\* ago, if that attempt did not fail.
ScansPaced ==
  /\ \A s, t \in scans : s.band = t.band /\ s.run = t.run /\ s.run # None /\ s.time < t.time =>
       t.time - s.time >= Interval
  /\ \A b \in DOMAIN last \ ghost.unstored :
       \E s \in scans : s.band = b /\ s.run = bridge.run /\ s.time = last[b]
=============================================================================
