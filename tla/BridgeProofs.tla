---------------------------- MODULE BridgeProofs ----------------------------
(***************************************************************************)
(* Theorems about Bridge, for any bands, band lists, interval and number   *)
(* of messages, edits and failures: the types of its tables, that edits    *)
(* survive, the pace of the stored scans, and that a bridge which has      *)
(* taken all messages shows the scanner's last status and its bands.  The  *)
(* argument is the inductive invariant IInv and, for the last, Mirror,     *)
(* whose parts are proved one at a time.                                   *)
(***************************************************************************)
EXTENDS Bridge, TLAPS

StatusMessage == [type : {"status"}, online : BOOLEAN, scanning : BOOLEAN,
                  band : Bands \cup {None}]
ConfigMessage == [type : {"config"}, layout : Layouts]
ScanMessage   == [type : {"scan"}, band : Bands]
Message       == StatusMessage \cup ConfigMessage \cup ScanMessage

Partial(S, T) == UNION {[B -> T] : B \in SUBSET S}

DeviceType == [link : {"up", "leaving", "down"}, layout : Layouts, online : BOOLEAN,
               scanning : BOOLEAN, band : Bands \cup {None}, running : BOOLEAN,
               sweeps : SUBSET Bands]

Clock == now \in 0..MaxTime /\ events \in 0..MaxEvents

Messages ==
  /\ device \in DeviceType
  /\ retained \in [status : StatusMessage \cup {None}, config : ConfigMessage \cup {None}]
  /\ inbox \in Seq(Message) /\ Len(inbox) <= MaxQueue

\* What a handler has read and has still to write
Handler ==
  /\ bridge \in [up : BOOLEAN, at : {"idle", "config", "bands", "seen", "store"},
                 read : Row \cup {None}, todo : SUBSET (Bands \X Ranges),
                 band : Bands \cup {None}, began : 0..MaxTime, run : 0..MaxEvents]
  /\ bridge.up \/ (bridge.at = "idle" /\ inbox = <<>>)
  /\ bridge.at \in {"config", "seen"} => bridge.read \in Row
  /\ bridge.at \in {"seen", "store"} => bridge.band \in Bands
  /\ bridge.began <= now /\ bridge.run <= events

Tables ==
  /\ row \in Row \cup {None} /\ bands \in Band /\ scans \subseteq Scan
  /\ row = None => bands = << >> /\ scans = {}

Requests ==
  /\ rest \in [row : Row, band : Bands \cup {None}, saved : BOOLEAN] \cup {None}
  /\ rest # None /\ rest.saved => rest.band \in Bands
  /\ last \in Partial(Bands, 0..MaxTime) /\ \A b \in DOMAIN last : last[b] <= now

Ghosts ==
  /\ ghost \in [token : 0..MaxEvents, enabled : BOOLEAN, lost : SUBSET {"token", "enabled"},
                status : BOOLEAN, bands : BOOLEAN, unstored : SUBSET Bands]
  /\ ghost.token <= events

\* A scan of this process is not later than its band's stamp, and one that is
\* being stored an interval after it.
Paced ==
  /\ \A s \in scans : s.run # None => s.run <= bridge.run
  /\ \A s \in scans : s.run = bridge.run => s.band \in DOMAIN last /\ s.time <= last[s.band]
  /\ bridge.at \in {"seen", "store"} /\ bridge.band \in DOMAIN last =>
       bridge.began - last[bridge.band] >= Interval

Types == Clock /\ Messages /\ Handler /\ Tables /\ Requests /\ Ghosts
IInv  == Types /\ EditsSurvive /\ Paced /\ ScansPaced

USE BridgeAssumption

-----------------------------------------------------------------------------
(* What the actions share                                                  *)

\* The prover's view of the next-state relation: one disjunct per action
LEMMA NextCases ==
  ASSUME Next
  PROVE  \/ Device \/ BridgeDown \/ BridgeUp \/ Tick
         \/ HandleStatus \/ HandleConfig \/ SaveConfig \/ SaveBand \/ ConfigEnds
         \/ HandleScan \/ SeenScan \/ StoreScan \/ Fails
         \/ Regenerate \/ EditRead \/ RestSave \/ PostScan \/ DeleteScanner
         \/ (\E b \in Bands : PostRead(b)) \/ (\E b \in Bands : EditBand(b))
  BY DEF Next

\* Setting one entry of a partial function keeps it one.
LEMMA PutType ==
  ASSUME NEW S, NEW T, NEW f \in Partial(S, T), NEW k \in S, NEW v \in T
  PROVE  /\ Put(f, k, v) \in Partial(S, T)
         /\ DOMAIN Put(f, k, v) = DOMAIN f \cup {k}
         /\ \A j \in DOMAIN Put(f, k, v) : Put(f, k, v)[j] = IF j = k THEN v ELSE f[j]
  <1>1. PICK B \in SUBSET S : f \in [B -> T]
    BY DEF Partial
  <1>2. Put(f, k, v) \in [B \cup {k} -> T]
    BY <1>1 DEF Put
  <1>. QED  BY <1>1, <1>2 DEF Put, Partial

LEMMA EmptyFunction ==
  ASSUME NEW S, NEW T
  PROVE  << >> \in Partial(S, T) /\ DOMAIN << >> = {}
  <1>1. << >> \in [{} -> T] /\ DOMAIN << >> = {}
    OBVIOUS
  <1>. QED  BY <1>1 DEF Partial

\* The message a handler takes, and what it leaves behind
LEMMA Taking ==
  ASSUME Messages, NEW type, Arrived(type), Take
  PROVE  /\ Head(inbox) \in Message /\ Head(inbox).type = type
         /\ inbox' \in Seq(Message) /\ Len(inbox') <= MaxQueue
  BY DEF Messages, Arrived, Take

LEMMA Sequence ==
  /\ \A m \in Message : <<m>> \in Seq(Message)
  /\ \A m, n \in Message : <<m, n>> \in Seq(Message)
  OBVIOUS

LEMMA StatusType ==
  ASSUME NEW m \in Message, m.type = "status" PROVE m \in StatusMessage
  BY DEF Message, StatusMessage, ConfigMessage, ScanMessage

LEMMA ConfigType ==
  ASSUME NEW m \in Message, m.type = "config" PROVE m \in ConfigMessage
  BY DEF Message, StatusMessage, ConfigMessage, ScanMessage

LEMMA ScanType ==
  ASSUME NEW m \in Message, m.type = "scan" PROVE m \in ScanMessage
  BY DEF Message, StatusMessage, ConfigMessage, ScanMessage

\* Changing the state of a row leaves its token and its switch.
LEMMA RowKept ==
  ASSUME NEW r \in Row
  PROVE  /\ \A m \in StatusMessage :
              /\ WithStatus(r, m) \in Row
              /\ WithStatus(r, m).token = r.token /\ WithStatus(r, m).enabled = r.enabled
         /\ \A b \in BOOLEAN :
              LET q == [r EXCEPT !.online = b]
              IN  q \in Row /\ q.online = b /\ q.token = r.token /\ q.enabled = r.enabled
         /\ \A n \in 0..MaxEvents :
              LET q == [r EXCEPT !.token = n]
              IN  q \in Row /\ q.token = n /\ q.enabled = r.enabled
         /\ r # None
  <1>1. ASSUME NEW m \in StatusMessage
        PROVE  /\ WithStatus(r, m) \in Row
               /\ WithStatus(r, m).token = r.token /\ WithStatus(r, m).enabled = r.enabled
    BY DEF Row, WithStatus, StatusMessage
  <1>2. ASSUME NEW b \in BOOLEAN
        PROVE  LET q == [r EXCEPT !.online = b]
               IN  q \in Row /\ q.online = b /\ q.token = r.token /\ q.enabled = r.enabled
    BY DEF Row
  <1>3. ASSUME NEW n \in 0..MaxEvents
        PROVE  LET q == [r EXCEPT !.token = n]
               IN  q \in Row /\ q.token = n /\ q.enabled = r.enabled
    BY DEF Row
  <1>. QED  BY <1>1, <1>2, <1>3

\* Messages that are published keep the broker's and the bridge's typed.
LEMMA Publishing ==
  ASSUME Messages, NEW messages \in Seq(Message), Publish(messages)
  PROVE  /\ retained' \in [status : StatusMessage \cup {None}, config : ConfigMessage \cup {None}]
         /\ inbox' \in Seq(Message) /\ Len(inbox') <= MaxQueue
  <1>1. inbox' \in Seq(Message) /\ Len(inbox') <= MaxQueue
    BY DEF Publish, Messages
  <1> DEFINE ofKind(k) == {i \in DOMAIN messages : messages[i].type = k}
             new(k)    == IF ofKind(k) = {} THEN retained[k]
                          ELSE messages[CHOOSE i \in ofKind(k) : TRUE]
  <1>2. retained' = [k \in DOMAIN retained |-> new(k)]
    BY DEF Publish
  <1>3. DOMAIN retained = {"status", "config"}
    BY DEF Messages
  <1>4. ASSUME NEW k \in {"status", "config"}, ofKind(k) # {}
        PROVE  new(k) \in Message /\ new(k).type = k
    <2>1. PICK i \in DOMAIN messages : i = (CHOOSE j \in ofKind(k) : TRUE) /\ messages[i].type = k
      BY <1>4
    <2>2. messages[i] \in Message
      OBVIOUS
    <2>. QED  BY <1>4, <2>1, <2>2
  <1>5. new("status") \in StatusMessage \cup {None}
    BY <1>4, StatusType DEF Messages
  <1>6. new("config") \in ConfigMessage \cup {None}
    BY <1>4, ConfigType DEF Messages
  <1>7. retained' = [status |-> new("status"), config |-> new("config")]
    <2>. HIDE DEF new
    <2>. QED  BY <1>2, <1>3
  <1>. HIDE DEF new
  <1>. QED  BY <1>1, <1>5, <1>6, <1>7

\* A step of the scanner leaves the tables and what writes them alone.
LEMMA DeviceFrame ==
  ASSUME Device
  PROVE  /\ UNCHANGED <<bridge, last, row, bands, scans, rest, now, ghost>>
         /\ Event \/ UNCHANGED events
         /\ bridge.up \/ inbox' = inbox
  <1>1. (\E m : Publish(m)) /\ (Event \/ UNCHANGED events)
    BY DEF Device, DeviceUp, DeviceLost, DeviceLeaves, DeviceGone, DeviceStarts, DeviceStops,
       DeviceTurns, DeviceSweeps, DeviceScans, DeviceConfig, Tells
  <1>. QED  BY <1>1 DEF Publish, tables

-----------------------------------------------------------------------------
(* What a step of the scanner publishes                                    *)

LEMMA MessageFacts ==
  /\ \A u, s \in BOOLEAN, b \in Bands \cup {None} :
       Status(u, s, b) \in Message /\ Status(u, s, b).type = "status"
  /\ \A f \in Layouts : Config(f) \in Message /\ Config(f).type = "config"
  /\ \A b \in Bands : ScanOf(b) \in Message /\ ScanOf(b).type = "scan"
  BY DEF Message, StatusMessage, ConfigMessage, ScanMessage, Status, Config, ScanOf

\* Of each kind a step of the scanner publishes one message at most, which is
\* retained.
OnePerKind(messages) ==
  \A i, j \in DOMAIN messages : messages[i].type = messages[j].type => i = j

LEMMA Short ==
  /\ <<>> \in Seq(Message) /\ OnePerKind(<<>>) /\ DOMAIN <<>> = {}
  /\ \A m \in Message : /\ <<m>> \in Seq(Message) /\ OnePerKind(<<m>>)
                        /\ DOMAIN <<m>> = {1} /\ <<m>>[1] = m
  /\ \A m, n \in Message : m.type # n.type =>
       /\ <<m, n>> \in Seq(Message) /\ OnePerKind(<<m, n>>)
       /\ DOMAIN <<m, n>> = {1, 2} /\ <<m, n>>[1] = m /\ <<m, n>>[2] = n
  <1>1. <<>> \in Seq(Message) /\ OnePerKind(<<>>) /\ DOMAIN <<>> = {}
    BY DEF OnePerKind
  <1>2. ASSUME NEW m \in Message
        PROVE  /\ <<m>> \in Seq(Message) /\ OnePerKind(<<m>>)
               /\ DOMAIN <<m>> = {1} /\ <<m>>[1] = m
    BY DEF OnePerKind
  <1>3. ASSUME NEW m \in Message, NEW n \in Message, m.type # n.type
        PROVE  /\ <<m, n>> \in Seq(Message) /\ OnePerKind(<<m, n>>)
               /\ DOMAIN <<m, n>> = {1, 2} /\ <<m, n>>[1] = m /\ <<m, n>>[2] = n
    <2>. DEFINE q == <<m, n>>
    <2>1. q \in Seq(Message) /\ DOMAIN q = {1, 2} /\ q[1] = m /\ q[2] = n
      OBVIOUS
    <2>. HIDE DEF q
    <2>2. OnePerKind(q)
      BY <1>3, <2>1 DEF OnePerKind
    <2>. QED  BY <2>1, <2>2 DEF q
  <1>. QED  BY <1>1, <1>2, <1>3

SameStatusSaid == /\ device'.online = device.online /\ device'.scanning = device.scanning
                  /\ device'.band = device.band

\* What changes of the status or the band list of a scanner that is connected
\* is in the messages.
Speaks(m) ==
  /\ device' \in DeviceType /\ OnePerKind(m)
  /\ \/ /\ \E i \in DOMAIN m : /\ m[i].type = "status"
                              /\ m[i] = Status(device'.online, device'.scanning, device'.band)
        /\ device'.online \/ (~device'.scanning /\ device'.band = None)
     \/ SameStatusSaid /\ \A i \in DOMAIN m : m[i].type # "status"
  /\ \/ \E i \in DOMAIN m : m[i].type = "config" /\ m[i] = Config(device'.layout)
     \/ /\ device'.link = "down" \/ (device.link # "down" /\ device'.layout = device.layout)
        /\ \A i \in DOMAIN m : m[i].type # "config"

Spoken == \E m \in Seq(Message) : Publish(m) /\ Speaks(m)

LEMMA SpeaksStatus ==
  ASSUME Messages, NEW d \in DeviceType, NEW u \in BOOLEAN, NEW s \in BOOLEAN,
         NEW b \in Bands \cup {None}, u \/ (~s /\ b = None),
         d.layout = device.layout, d.link = "down" \/ device.link # "down",
         device' = Said(d, u, s, b), Publish(<<Status(u, s, b)>>)
  PROVE  Spoken
  <1>. DEFINE x == Status(u, s, b)
              m == <<x>>
  <1>1. x \in Message /\ x.type = "status"
    BY MessageFacts
  <1>2. /\ device' \in DeviceType /\ device'.online = u /\ device'.scanning = s /\ device'.band = b
        /\ device'.layout = device.layout /\ device'.link = d.link
    BY DEF Said, DeviceType
  <1>3. Publish(m) /\ x = Status(device'.online, device'.scanning, device'.band)
    BY <1>2
  <1>. HIDE DEF x
  <1>4. m \in Seq(Message) /\ OnePerKind(m) /\ DOMAIN m = {1} /\ m[1] = x
    BY <1>1, Short
  <1>. HIDE DEF m
  <1>5. Speaks(m)
    BY <1>1, <1>2, <1>3, <1>4 DEF Speaks
  <1>. QED  BY <1>3, <1>4, <1>5 DEF Spoken

LEMMA SpeaksNothing ==
  ASSUME Messages, device' \in DeviceType, SameStatusSaid,
         device'.link = "down" \/ (device.link # "down" /\ device'.layout = device.layout),
         Publish(<<>>)
  PROVE  Spoken
  <1>1. Speaks(<<>>)
    BY Short DEF Speaks
  <1>. QED  BY <1>1, Short DEF Spoken

LEMMA SpeaksTells ==
  ASSUME Messages, NEW d \in DeviceType, NEW s \in BOOLEAN, NEW b \in Bands \cup {None},
         d.layout = device.layout, d.link = device.link, d.online = device.online,
         d.scanning = device.scanning, d.band = device.band, Tells(d, s, b)
  PROVE  Spoken
  <1>1. CASE Connected
    <2>1. device' = Said(d, TRUE, s, b) /\ Publish(<<Status(TRUE, s, b)>>)
      BY <1>1 DEF Tells
    <2>. QED  BY <1>1, <2>1, SpeaksStatus DEF Connected
  <1>2. CASE ~Connected
    <2>1. device' = d /\ Publish(<<>>)
      BY <1>2 DEF Tells
    <2>. QED  BY <1>2, <2>1, SpeaksNothing DEF Connected, SameStatusSaid
  <1>. QED  BY <1>1, <1>2

LEMMA DeviceSpeaks ==
  ASSUME Messages, Device PROVE Spoken
  <1>0. device \in DeviceType /\ TRUE \in BOOLEAN /\ FALSE \in BOOLEAN /\ None \in Bands \cup {None}
    BY DEF Messages
  <1>1. CASE DeviceUp
    <2>. DEFINE x == Config(device.layout)
                y == Status(TRUE, FALSE, None)
                m == <<x, y>>
    <2>1. x \in Message /\ x.type = "config" /\ y \in Message /\ y.type = "status"
      BY <1>0, MessageFacts DEF DeviceType
    <2>2. /\ device' \in DeviceType /\ device'.online = TRUE /\ device'.scanning = FALSE
          /\ device'.band = None /\ device'.layout = device.layout
      BY <1>0, <1>1 DEF DeviceUp, Said, DeviceType
    <2>3. /\ Publish(m) /\ y = Status(device'.online, device'.scanning, device'.band)
          /\ x = Config(device'.layout)
      BY <1>1, <2>2 DEF DeviceUp
    <2>. HIDE DEF x, y
    <2>4. m \in Seq(Message) /\ OnePerKind(m) /\ DOMAIN m = {1, 2} /\ m[1] = x /\ m[2] = y
      BY <2>1, Short
    <2>. HIDE DEF m
    <2>5. Speaks(m)
      BY <2>1, <2>2, <2>3, <2>4 DEF Speaks
    <2>. QED  BY <2>3, <2>4, <2>5 DEF Spoken
  <1>2. CASE DeviceLost
    <2>. DEFINE d == [device EXCEPT !.link = "down"]
    <2>1. d \in DeviceType /\ d.layout = device.layout /\ d.link = "down"
      BY <1>0 DEF DeviceType
    <2>2. device' = Said(d, FALSE, FALSE, None) /\ Publish(<<Status(FALSE, FALSE, None)>>)
      BY <1>2 DEF DeviceLost
    <2>. HIDE DEF d
    <2>. QED  BY <1>0, <2>1, <2>2, SpeaksStatus
  <1>3. CASE DeviceLeaves
    <2>. DEFINE d == [device EXCEPT !.link = "leaving"]
    <2>1. d \in DeviceType /\ d.layout = device.layout
      BY <1>0 DEF DeviceType
    <2>2. /\ device' = Said(d, FALSE, FALSE, None) /\ Publish(<<Status(FALSE, FALSE, None)>>)
          /\ device.link # "down"
      BY <1>3 DEF DeviceLeaves
    <2>. HIDE DEF d
    <2>. QED  BY <1>0, <2>1, <2>2, SpeaksStatus
  <1>4. CASE DeviceGone
    <2>1. device' \in DeviceType /\ SameStatusSaid /\ device'.link = "down"
      BY <1>0, <1>4 DEF DeviceGone, DeviceType, SameStatusSaid
    <2>. QED  BY <1>4, <2>1, SpeaksNothing DEF DeviceGone
  <1>5. ASSUME NEW r \in BOOLEAN, Tells([device EXCEPT !.running = r], r, None) PROVE Spoken
    <2>. DEFINE d == [device EXCEPT !.running = r]
    <2>1. /\ d \in DeviceType /\ d.layout = device.layout /\ d.link = device.link
          /\ d.online = device.online /\ d.scanning = device.scanning /\ d.band = device.band
      BY <1>0 DEF DeviceType
    <2>2. Tells(d, r, None)
      BY <1>5
    <2>. HIDE DEF d
    <2>. QED  BY <1>0, <2>1, <2>2, SpeaksTells
  <1>6. CASE DeviceStarts \/ DeviceStops
    BY <1>0, <1>5, <1>6 DEF DeviceStarts, DeviceStops
  <1>7. ASSUME NEW b \in Bands, DeviceTurns(b) PROVE Spoken
    <2>1. /\ device' \in DeviceType /\ SameStatusSaid /\ device'.layout = device.layout
          /\ device'.link = device.link
      BY <1>0, <1>7 DEF DeviceTurns, DeviceType, SameStatusSaid
    <2>. QED  BY <1>0, <1>7, <2>1, SpeaksNothing DEF DeviceTurns, DeviceType
  <1>8. ASSUME NEW b \in Bands, DeviceSweeps(b) PROVE Spoken
    BY <1>0, <1>8, SpeaksTells DEF DeviceSweeps
  <1>9. ASSUME NEW b \in Bands, DeviceScans(b) PROVE Spoken
    <2>1. /\ device' \in DeviceType /\ SameStatusSaid /\ device'.layout = device.layout
          /\ device'.link = device.link
      BY <1>0, <1>9 DEF DeviceScans, DeviceType, SameStatusSaid
    <2>2. CASE Connected
      <3>. DEFINE x == ScanOf(b)
                  m == <<x>>
      <3>1. x \in Message /\ x.type = "scan"
        BY MessageFacts
      <3>2. Publish(m)
        BY <1>9, <2>2 DEF DeviceScans
      <3>. HIDE DEF x
      <3>3. m \in Seq(Message) /\ OnePerKind(m) /\ DOMAIN m = {1} /\ m[1] = x
        BY <3>1, Short
      <3>. HIDE DEF m
      <3>4. Speaks(m)
        BY <2>1, <2>2, <3>1, <3>3 DEF Speaks, Connected
      <3>. QED  BY <3>2, <3>3, <3>4 DEF Spoken
    <2>3. CASE ~Connected
      BY <1>9, <2>1, <2>3, SpeaksNothing DEF DeviceScans, Connected
    <2>. QED  BY <2>2, <2>3
  <1>10. ASSUME NEW f \in Layouts, DeviceConfig(f) PROVE Spoken
    <2>1. /\ device' \in DeviceType /\ SameStatusSaid /\ device'.layout = f
          /\ device'.link = device.link
      BY <1>0, <1>10 DEF DeviceConfig, DeviceType, SameStatusSaid
    <2>2. CASE Connected
      <3>. DEFINE x == Config(f)
                  m == <<x>>
      <3>1. x \in Message /\ x.type = "config" /\ x = Config(device'.layout)
        BY <2>1, MessageFacts
      <3>2. Publish(m)
        BY <1>10, <2>2 DEF DeviceConfig
      <3>. HIDE DEF x
      <3>3. m \in Seq(Message) /\ OnePerKind(m) /\ DOMAIN m = {1} /\ m[1] = x
        BY <3>1, Short
      <3>. HIDE DEF m
      <3>4. Speaks(m)
        BY <2>1, <3>1, <3>3 DEF Speaks
      <3>. QED  BY <3>2, <3>3, <3>4 DEF Spoken
    <2>3. CASE ~Connected
      BY <1>10, <2>1, <2>3, SpeaksNothing DEF DeviceConfig, Connected
    <2>. QED  BY <2>2, <2>3
  <1>. QED  BY <1>1, <1>2, <1>3, <1>4, <1>6, <1>7, <1>8, <1>9, <1>10 DEF Device

-----------------------------------------------------------------------------
(* The initial states                                                      *)

LEMMA InitIInv == Init => IInv
<1> SUFFICES ASSUME Init PROVE IInv
  OBVIOUS
<1>1. Clock /\ Ghosts
  BY DEF Init, Clock, Ghosts
<1>2. Requests
  BY EmptyFunction DEF Init, Requests
<1>3. Messages
  BY DEF Init, Messages, DeviceType, Message, StatusMessage, ConfigMessage, Status, Config
<1>4. Handler
  BY DEF Init, Handler
<1>5. Tables
  <2>1. row \in Row
    BY DEF Init, Row
  <2>2. bands \in Band
    BY EmptyFunction DEF Init, Band, Partial
  <2>. QED  BY <2>1, <2>2 DEF Init, Tables
<1>6. EditsSurvive
  <2>. row.token = ghost.token /\ row.enabled = ghost.enabled
    BY DEF Init
  <2>. QED  BY DEF EditsSurvive
<1>7. Paced /\ ScansPaced
  BY EmptyFunction DEF Init, Paced, ScansPaced
<1>. QED  BY <1>1, <1>2, <1>3, <1>4, <1>5, <1>6, <1>7 DEF IInv, Types

-----------------------------------------------------------------------------
(* Each part, one action at a time                                         *)

LEMMA StepClock ==
  ASSUME Types, Next PROVE Clock' /\ now <= now' /\ events <= events'
<1>1. CASE UNCHANGED now /\ (Event \/ UNCHANGED events)
  BY <1>1 DEF Types, Clock, Event
<1>2. CASE Tick
  BY <1>2 DEF Types, Clock, Tick
<1>3. CASE Device
  BY <1>1, <1>3, DeviceFrame
<1>4. CASE \/ BridgeDown \/ BridgeUp \/ HandleStatus \/ HandleConfig \/ SaveConfig
           \/ SaveBand \/ ConfigEnds \/ HandleScan \/ SeenScan \/ StoreScan \/ Fails
  BY <1>1, <1>4 DEF BridgeDown, BridgeUp, HandleStatus, HandleConfig, SaveConfig, SaveBand,
     ConfigEnds, HandleScan, SeenScan, StoreScan, Fails, Elsewhere
<1>5. CASE \/ Regenerate \/ EditRead \/ RestSave \/ PostScan \/ DeleteScanner
           \/ (\E b \in Bands : PostRead(b)) \/ (\E b \in Bands : EditBand(b))
  BY <1>1, <1>5 DEF Regenerate, EditRead, RestSave, PostScan, DeleteScanner, PostRead, EditBand,
     Aside
<1>. QED  BY NextCases, <1>2, <1>3, <1>4, <1>5

LEMMA StepMessages ==
  ASSUME Types, Next PROVE Messages'
<1> USE DEF Types
<1> DEFINE retainedOK == retained' \in [status : StatusMessage \cup {None}, config : ConfigMessage \cup {None}]
           inboxOK    == inbox' \in Seq(Message) /\ Len(inbox') <= MaxQueue
           deviceOK   == device' \in DeviceType
<1> SUFFICES deviceOK /\ retainedOK /\ inboxOK
  BY DEF Messages
<1>1. CASE Device
  <2>1. PICK m \in Seq(Message) : Publish(m) /\ Speaks(m)
    BY <1>1, DeviceSpeaks DEF Spoken
  <2>. QED  BY <2>1, Publishing DEF Speaks
<1>8. CASE BridgeDown
  BY <1>8 DEF BridgeDown, Messages
<1>9. CASE BridgeUp
  <2>1. ASSUME NEW k \in {"status", "config"}
        PROVE  Kept(k) \in Seq(Message) /\ Len(Kept(k)) <= 1
    <3>1. retained[k] \in Message \cup {None}
      BY DEF Messages, Message
    <3>. QED  BY <3>1 DEF Kept
  <2>2. Subscribed \in Seq(Message) /\ Len(Subscribed) <= 2
    BY <2>1 DEF Subscribed
  <2>. QED  BY <1>9, <2>2 DEF BridgeUp, Messages
<1>10. CASE HandleStatus \/ HandleConfig \/ HandleScan
  BY <1>10, Taking DEF HandleStatus, HandleConfig, HandleScan, Elsewhere, Messages
<1>11. CASE Fails
  <2>1. CASE Arrived("status") /\ Take
    BY <1>11, <2>1, Taking DEF Fails, Elsewhere, Messages
  <2>2. CASE UNCHANGED inbox
    BY <1>11, <2>2 DEF Fails, Elsewhere, Messages
  <2>. QED  BY <1>11, <2>1, <2>2 DEF Fails
<1>12. CASE UNCHANGED <<device, retained, inbox>>
  BY <1>12 DEF Messages
<1>13. CASE \/ Tick \/ SaveConfig \/ SaveBand \/ ConfigEnds \/ SeenScan \/ StoreScan
            \/ Regenerate \/ EditRead \/ RestSave \/ PostScan \/ DeleteScanner
            \/ (\E b \in Bands : PostRead(b)) \/ (\E b \in Bands : EditBand(b))
  <2>. UNCHANGED <<device, retained, inbox>>
    BY <1>13 DEF Tick, SaveConfig, SaveBand, ConfigEnds, SeenScan, StoreScan, Elsewhere, Aside,
       Regenerate, EditRead, RestSave, PostScan, DeleteScanner, PostRead, EditBand
  <2>. QED  BY <1>12
<1>. HIDE DEF deviceOK, retainedOK, inboxOK
<1>. QED  BY NextCases, <1>1, <1>8, <1>9, <1>10, <1>11, <1>13

LEMMA StepHandler ==
  ASSUME Types, Next PROVE Handler'
<1> USE DEF Types
<1> DEFINE At   == {"idle", "config", "bands", "seen", "store"}
           Kind == [up : BOOLEAN, at : At, read : Row \cup {None}, todo : SUBSET (Bands \X Ranges),
                    band : Bands \cup {None}, began : 0..MaxTime, run : 0..MaxEvents]
<1>1. now <= now' /\ events <= events' /\ now' \in 0..MaxTime /\ events' \in 0..MaxEvents
      /\ now \in 0..MaxTime /\ events \in 0..MaxEvents
  BY StepClock DEF Clock
<1>2. bridge \in Kind /\ bridge.began \in 0..MaxTime /\ bridge.run \in 0..MaxEvents
  BY DEF Handler
<1>3. /\ Waiting \in Kind /\ Waiting.at = "idle" /\ Waiting.up = bridge.up
      /\ Waiting.began = bridge.began /\ Waiting.run = bridge.run
  BY <1>2 DEF Waiting
<1> DEFINE Stays == bridge'.began = bridge.began /\ bridge'.run = bridge.run
<1>0. ASSUME bridge' \in Kind, bridge'.up \/ (bridge'.at = "idle" /\ inbox' = <<>>),
             bridge'.at \in {"config", "seen"} => bridge'.read \in Row,
             bridge'.at \in {"seen", "store"} => bridge'.band \in Bands,
             Stays \/ (bridge'.began <= now /\ bridge'.run <= events')
      PROVE  Handler'
  <2>1. bridge'.began <= now' /\ bridge'.run <= events'
    <3>1. bridge.began <= now /\ bridge.run <= events
      BY DEF Handler
    <3>2. bridge'.began \in 0..MaxTime /\ bridge'.run \in 0..MaxEvents
      BY <1>0
    <3>. QED  BY <1>1, <1>2, <1>0, <3>1, <3>2
  <2>. QED  BY <1>0, <2>1 DEF Handler
<1>4. CASE UNCHANGED bridge /\ inbox = <<>> /\ ~bridge.up /\ inbox' = <<>>
  BY <1>1, <1>2, <1>4 DEF Handler
<1>5. CASE UNCHANGED bridge /\ bridge.up
  BY <1>1, <1>2, <1>5 DEF Handler
<1> HIDE DEF Kind
<1>6. CASE bridge' = Waiting /\ bridge.up
  BY <1>3, <1>6, <1>0
<1>7. CASE Device
  <2>1. UNCHANGED bridge /\ (bridge.up \/ inbox' = inbox)
    BY <1>7, DeviceFrame
  <2>. QED  BY <1>4, <1>5, <2>1 DEF Handler
<1>8. CASE \/ Tick \/ Regenerate \/ EditRead \/ RestSave \/ PostScan \/ DeleteScanner
           \/ (\E b \in Bands : PostRead(b)) \/ (\E b \in Bands : EditBand(b))
  <2>1. UNCHANGED <<bridge, inbox>>
    BY <1>8 DEF Tick, Regenerate, EditRead, RestSave, PostScan, DeleteScanner, PostRead, EditBand,
       Aside
  <2>. QED  BY <1>4, <1>5, <2>1 DEF Handler
<1>9. CASE BridgeDown
  <2>1. inbox' = <<>> /\ (\/ bridge' = [Waiting EXCEPT !.up = FALSE]
                          \/ bridge' = [Waiting EXCEPT !.up = FALSE, !.run = @ + 1])
    BY <1>9 DEF BridgeDown
  <2>2. events' = events + 1
    BY <1>9 DEF BridgeDown, Event
  <2>3. CASE bridge' = [Waiting EXCEPT !.up = FALSE]
    <3>1. bridge' \in Kind /\ bridge'.at = "idle" /\ Stays
      BY <1>3, <2>3 DEF Kind
    <3>. QED  BY <1>0, <2>1, <3>1
  <2>4. CASE bridge' = [Waiting EXCEPT !.up = FALSE, !.run = @ + 1]
    <3>1. bridge.run <= events
      BY DEF Handler
    <3>2. bridge'.run = bridge.run + 1 /\ bridge'.run \in 0..MaxEvents
      BY <1>1, <1>2, <1>3, <2>2, <2>4, <3>1 DEF Kind
    <3>3. bridge' \in Kind /\ bridge'.at = "idle" /\ bridge'.began = bridge.began
      BY <1>3, <2>4, <3>2 DEF Kind
    <3>4. bridge'.began <= now /\ bridge'.run <= events'
      BY <1>1, <1>2, <2>2, <3>1, <3>2, <3>3 DEF Handler
    <3>. QED  BY <1>0, <2>1, <3>3, <3>4
  <2>. QED  BY <2>1, <2>3, <2>4
<1>10. CASE BridgeUp
  <2>1. bridge' = [Waiting EXCEPT !.up = TRUE]
    BY <1>10 DEF BridgeUp
  <2>2. bridge' \in Kind /\ bridge'.at = "idle" /\ bridge'.up /\ Stays
    BY <1>3, <2>1 DEF Kind
  <2>. QED  BY <1>0, <2>2
<1>11. CASE HandleStatus
  BY <1>5, <1>11 DEF HandleStatus, Arrived
<1>12. CASE HandleConfig
  <2>1. bridge.up /\ Head(inbox) \in ConfigMessage
    BY <1>12, Taking, ConfigType DEF HandleConfig, Arrived
  <2>2. CASE row = None
    BY <1>5, <1>12, <2>1, <2>2 DEF HandleConfig
  <2>3. CASE row # None
    <3>1. [row EXCEPT !.online = TRUE] \in Row
      BY <2>3, RowKept DEF Tables
    <3>2. \A f \in Layouts : {<<b, f[b]>> : b \in DOMAIN f} \subseteq Bands \X Ranges
      BY DEF Band, Ranges
    <3>3. PICK read \in Row, todo \in SUBSET (Bands \X Ranges) :
            bridge' = [bridge EXCEPT !.at = "config", !.read = read, !.todo = todo]
      BY <1>12, <2>1, <2>3, <3>1, <3>2 DEF HandleConfig, ConfigMessage
    <3>4. /\ bridge' \in Kind /\ bridge'.up /\ Stays
          /\ bridge'.at = "config" /\ bridge'.read \in Row
      BY <1>2, <2>1, <3>3 DEF Kind
    <3>. QED  BY <1>0, <3>4
  <2>. QED  BY <2>2, <2>3
<1>13. CASE SaveConfig
  <2>1. bridge.up /\ bridge' = [bridge EXCEPT !.at = "bands", !.read = None]
    BY <1>13 DEF SaveConfig, Handler
  <2>2. bridge' \in Kind /\ bridge'.up /\ Stays /\ bridge'.at = "bands"
    BY <1>2, <2>1 DEF Kind
  <2>. QED  BY <1>0, <2>2
<1>14. CASE SaveBand
  <2>1. PICK todo \in bridge.todo : bridge' = [bridge EXCEPT !.todo = @ \ {todo}]
    BY <1>14 DEF SaveBand
  <2>2. bridge.up /\ bridge.at = "bands"
    BY <1>14 DEF SaveBand, Handler
  <2>3. bridge' \in Kind /\ bridge'.up /\ Stays /\ bridge'.at = "bands"
    BY <1>2, <2>1, <2>2 DEF Kind
  <2>. QED  BY <1>0, <2>3
<1>15. CASE HandleScan
  <2>1. bridge.up /\ Head(inbox) \in ScanMessage
    BY <1>15, Taking, ScanType DEF HandleScan, Arrived
  <2>2. CASE UNCHANGED bridge
    BY <1>5, <2>1, <2>2
  <2>3. CASE bridge' # bridge
    <3>1. row # None /\ bridge' = [bridge EXCEPT !.at = "seen",
                                     !.read = [row EXCEPT !.online = TRUE],
                                     !.band = Head(inbox).band, !.began = now]
      BY <1>15, <2>3 DEF HandleScan
    <3>2. [row EXCEPT !.online = TRUE] \in Row
      BY <3>1, RowKept DEF Tables
    <3>3. Head(inbox).band \in Bands
      BY <2>1 DEF ScanMessage
    <3>4. /\ bridge' \in Kind /\ bridge'.up /\ bridge'.began = now /\ bridge'.run = bridge.run
          /\ bridge'.at = "seen" /\ bridge'.read \in Row /\ bridge'.band \in Bands
      BY <1>1, <1>2, <2>1, <3>1, <3>2, <3>3 DEF Kind
    <3>5. bridge'.began <= now /\ bridge'.run <= events'
      BY <1>1, <1>2, <3>4 DEF Handler
    <3>. QED  BY <1>0, <3>4, <3>5
  <2>. QED  BY <2>2, <2>3
<1>16. CASE SeenScan
  <2>1. bridge.up /\ bridge.at = "seen" /\ bridge' = [bridge EXCEPT !.at = "store"]
    BY <1>16 DEF SeenScan, Handler
  <2>2. bridge' \in Kind /\ bridge'.up /\ Stays /\ bridge'.at = "store" /\ bridge'.band \in Bands
    BY <1>2, <2>1 DEF Kind, Handler
  <2>. QED  BY <1>0, <2>2
<1>17. CASE ConfigEnds \/ StoreScan \/ Fails
  <2>1. bridge' = Waiting /\ bridge.up
    BY <1>17 DEF ConfigEnds, StoreScan, Fails, Handler
  <2>. QED  BY <1>6, <2>1
<1>. QED  BY NextCases, <1>7, <1>8, <1>9, <1>10, <1>11, <1>12, <1>13, <1>14, <1>15, <1>16, <1>17

LEMMA StepTables ==
  ASSUME Types, Next PROVE Tables'
<1> USE DEF Types
<1>1. CASE UNCHANGED <<row, bands, scans>>
  BY <1>1 DEF Tables
<1>2. CASE Device \/ BridgeDown \/ BridgeUp \/ Tick
  BY <1>1, <1>2, DeviceFrame DEF BridgeDown, BridgeUp, Tick, tables
<1>3. CASE HandleConfig \/ ConfigEnds \/ HandleScan \/ Fails \/ EditRead
  BY <1>1, <1>3 DEF HandleConfig, ConfigEnds, HandleScan, Fails, EditRead, tables
<1>4. CASE UNCHANGED <<bands, scans>> /\ row # None /\ row' \in Row
  BY <1>4 DEF Tables
<1>5. CASE HandleStatus
  <2>1. Head(inbox) \in StatusMessage
    BY <1>5, Taking, StatusType DEF HandleStatus
  <2>2. row = None => row' = None
    BY <1>5 DEF HandleStatus
  <2>3. row # None => row' \in Row
    BY <1>5, <2>1, RowKept DEF HandleStatus, Tables
  <2>. QED  BY <1>1, <1>4, <1>5, <2>2, <2>3 DEF HandleStatus
<1>6. CASE SaveConfig
  <2>1. row' \in Row /\ UNCHANGED <<bands, scans>>
    BY <1>6 DEF SaveConfig, Handler
  <2>. QED  BY <2>1 DEF Tables
<1>7. CASE SaveBand
  <2>1. PICK todo \in bridge.todo : bands' = Put(bands, todo[1], todo[2])
    BY <1>7 DEF SaveBand, UpdateOrCreateBand
  <2>2. todo[1] \in Bands /\ todo[2] \in Ranges
    BY DEF Handler
  <2>3. bands' \in Band
    BY <2>1, <2>2, PutType DEF Tables, Band, Partial
  <2>. QED  BY <1>7, <2>3 DEF SaveBand, Tables
<1>8. CASE SeenScan
  <2>1. bridge.read.online \in BOOLEAN
    BY <1>8 DEF SeenScan, Handler, Row
  <2>2. row # None /\ row' \in Row
    BY <1>8, <2>1, RowKept DEF SeenScan, SeenFields, Tables
  <2>. QED  BY <1>4, <1>8, <2>2 DEF SeenScan
<1>9. CASE StoreScan
  <2>1. PICK of \in {"own", None} :
          scans' = scans \cup {[band |-> bridge.band, time |-> bridge.began, run |-> bridge.run,
                                of |-> of]}
    BY <1>9 DEF StoreScan
  <2>2. bridge.band \in Bands /\ bridge.began \in 0..MaxTime /\ bridge.run \in 0..MaxEvents
    BY <1>9 DEF StoreScan, Handler
  <2>3. [band |-> bridge.band, time |-> bridge.began, run |-> bridge.run, of |-> of] \in Scan
    BY <2>2 DEF Scan
  <2>. QED  BY <1>9, <2>1, <2>3 DEF StoreScan, Tables, Referred
<1>10. CASE Regenerate
  <2>1. ghost.token + 1 \in 0..MaxEvents
    BY <1>10 DEF Regenerate, Event, Ghosts, Clock
  <2>2. row # None /\ row' \in Row
    BY <1>10, <2>1, RowKept DEF Regenerate, Tables
  <2>. QED  BY <1>4, <1>10, <2>2 DEF Regenerate
<1>11. CASE RestSave
  <2>1. row' \in Row /\ UNCHANGED <<bands, scans>>
    BY <1>11 DEF RestSave, Requests
  <2>. QED  BY <2>1 DEF Tables
<1>12. CASE PostScan
  <2>1. CASE UNCHANGED scans
    BY <1>1, <1>12, <2>1 DEF PostScan
  <2>2. CASE scans' # scans
    <3>1. row # None
      BY <1>12, <2>2 DEF PostScan, Referred
    <3>2. PICK of \in BandsNamed(rest.band) :
            scans' = scans \cup {[band |-> rest.band, time |-> now, run |-> None, of |-> of]}
      BY <1>12, <2>2 DEF PostScan
    <3>3. of \in {"own", "foreign", None}
      BY DEF BandsNamed
    <3>4. rest.band \in Bands
      BY <1>12 DEF PostScan, Requests
    <3>5. [band |-> rest.band, time |-> now, run |-> None, of |-> of] \in Scan
      BY <3>3, <3>4 DEF Scan, Clock
    <3>. QED  BY <1>12, <3>1, <3>2, <3>5 DEF PostScan, Tables
  <2>. QED  BY <2>1, <2>2
<1>13. CASE DeleteScanner
  <2>1. << >> \in Band
    BY EmptyFunction DEF Band, Partial
  <2>. QED  BY <1>13, <2>1 DEF DeleteScanner, Tables
<1>14. ASSUME NEW b \in Bands, PostRead(b) PROVE Tables'
  <2>1. ghost.token + 1 \in 0..MaxEvents
    BY <1>14 DEF PostRead, Event, Ghosts, Clock
  <2>2. [online |-> FALSE, scanning |-> FALSE, band |-> None, token |-> ghost.token + 1,
         enabled |-> TRUE] \in Row
    BY <2>1 DEF Row
  <2>3. row' \in Row /\ UNCHANGED <<bands, scans>>
    BY <1>14, <2>2 DEF PostRead, Tables
  <2>. QED  BY <2>3 DEF Tables
<1>15. ASSUME NEW b \in Bands, EditBand(b) PROVE Tables'
  <2>1. b \in DOMAIN bands /\ UNCHANGED row
    BY <1>15 DEF EditBand
  <2>2. row # None
    BY <2>1, EmptyFunction DEF Tables
  <2>3. PICK B \in SUBSET Bands : bands \in [B -> Ranges]
    BY DEF Tables, Band
  <2>4. CASE \E range \in Ranges \ {bands[b]} : bands' = [bands EXCEPT ![b] = range] /\ UNCHANGED scans
    <3>1. bands' \in [B -> Ranges]
      BY <2>3, <2>4
    <3>. QED  BY <2>1, <2>2, <2>4, <3>1 DEF Tables, Band
  <2>5. CASE /\ bands' = [c \in DOMAIN bands \ {b} |-> bands[c]]
             /\ scans' = {IF s.band = b /\ s.of = "own" THEN [s EXCEPT !.of = None] ELSE s : s \in scans}
    <3>1. bands' \in [B \ {b} -> Ranges]
      BY <2>3, <2>5
    <3>2. \A s \in Scan : [s EXCEPT !.of = None] \in Scan
      BY DEF Scan
    <3>3. scans' \subseteq Scan
      BY <2>5, <3>2 DEF Tables
    <3>. QED  BY <2>1, <2>2, <3>1, <3>3 DEF Tables, Band
  <2>. QED  BY <1>15, <2>4, <2>5 DEF EditBand
<1>. QED  BY NextCases, <1>2, <1>3, <1>5, <1>6, <1>7, <1>8, <1>9, <1>10, <1>11, <1>12, <1>13,
             <1>14, <1>15

LEMMA StepRequests ==
  ASSUME Types, Next PROVE Requests'
<1> USE DEF Types
<1>1. now \in 0..MaxTime /\ now' \in 0..MaxTime /\ now <= now'
  BY StepClock DEF Clock
<1>2. CASE UNCHANGED <<rest, last>>
  BY <1>1, <1>2 DEF Requests, Partial
<1>3. ASSUME UNCHANGED rest, NEW b \in Bands, NEW t \in 0..MaxTime, t <= now, Stamp(b, t)
      PROVE  Requests'
  <2>1. last \in Partial(Bands, 0..MaxTime)
    BY DEF Requests
  <2>2. /\ last' \in Partial(Bands, 0..MaxTime) /\ DOMAIN last' = DOMAIN last \cup {b}
        /\ \A j \in DOMAIN last' : last'[j] = IF j = b THEN t ELSE last[j]
    <3>1. b \in Bands /\ t \in 0..MaxTime /\ last' = Put(last, b, t)
      BY <1>3 DEF Stamp
    <3>2. Put(last, b, t) \in Partial(Bands, 0..MaxTime)
      BY <2>1, <3>1, PutType
    <3>. QED  BY <3>1, <3>2 DEF Put
  <2>3. \A j \in DOMAIN last' : last'[j] <= now'
    <3>1. \A j \in DOMAIN last' : last'[j] \in 0..MaxTime /\ last'[j] <= now
      BY <1>3, <2>2 DEF Requests, Partial
    <3>. QED  BY <1>1, <3>1
  <2>. QED  BY <1>3, <2>2, <2>3 DEF Requests
<1>4. CASE UNCHANGED last /\ rest' = None
  BY <1>1, <1>4 DEF Requests, Partial
<1>5. CASE /\ UNCHANGED last
           /\ rest' \in [row : Row, band : Bands \cup {None}, saved : BOOLEAN]
           /\ rest'.saved => rest'.band \in Bands
  BY <1>1, <1>5 DEF Requests, Partial
<1>6. CASE Device \/ BridgeUp \/ Tick
  BY <1>2, <1>6, DeviceFrame DEF BridgeUp, Tick
<1>7. CASE BridgeDown
  <2>1. CASE UNCHANGED last
    BY <1>2, <1>7, <2>1 DEF BridgeDown
  <2>2. CASE last' = << >>
    BY <1>7, <2>2, EmptyFunction DEF BridgeDown, Requests
  <2>. QED  BY <1>7, <2>1, <2>2 DEF BridgeDown
<1>8. CASE HandleStatus \/ HandleConfig \/ SaveConfig \/ SaveBand \/ ConfigEnds \/ SeenScan
  BY <1>2, <1>8 DEF HandleStatus, HandleConfig, SaveConfig, SaveBand, ConfigEnds, SeenScan, Elsewhere
<1>9. CASE HandleScan
  <2>1. Head(inbox).band \in Bands
    BY <1>9, Taking, ScanType DEF HandleScan, ScanMessage
  <2>2. UNCHANGED rest /\ (UNCHANGED last \/ Stamp(Head(inbox).band, now))
    BY <1>9 DEF HandleScan, Elsewhere, Holds
  <2>. QED  BY <1>1, <1>2, <1>3, <2>1, <2>2
<1>10. CASE StoreScan \/ Fails
  <2>1. UNCHANGED rest /\ (UNCHANGED last \/ (/\ bridge.at \in {"seen", "store"}
                                               /\ Stamp(bridge.band, bridge.began)))
    BY <1>10 DEF StoreScan, Fails, Elsewhere
  <2>2. /\ bridge.began \in 0..MaxTime /\ bridge.began <= now
        /\ bridge.at \in {"seen", "store"} => bridge.band \in Bands
    BY DEF Handler
  <2>. QED  BY <1>2, <1>3, <2>1, <2>2
<1>11. CASE Regenerate \/ DeleteScanner \/ (\E b \in Bands : EditBand(b))
  BY <1>2, <1>11 DEF Regenerate, DeleteScanner, EditBand, Aside
<1>12. CASE EditRead
  <2>1. row \in Row
    BY <1>12 DEF EditRead, Tables
  <2>2. [row EXCEPT !.enabled = ~@] \in Row
    BY <2>1 DEF Row
  <2>3. UNCHANGED last /\ rest' = [row |-> [row EXCEPT !.enabled = ~@], band |-> None, saved |-> FALSE]
    BY <1>12 DEF EditRead, Aside
  <2>. QED  BY <1>5, <2>2, <2>3
<1>13. CASE RestSave
  <2>1. /\ rest \in [row : Row, band : Bands \cup {None}, saved : BOOLEAN]
        /\ UNCHANGED last
        /\ rest' = IF rest.band = None THEN None ELSE [rest EXCEPT !.saved = TRUE]
    BY <1>13 DEF RestSave, Aside, Requests
  <2>2. CASE rest.band = None
    BY <1>4, <2>1, <2>2
  <2>3. CASE rest.band # None
    <3>1. /\ rest' \in [row : Row, band : Bands \cup {None}, saved : BOOLEAN]
          /\ rest'.band \in Bands
      BY <2>1, <2>3
    <3>. QED  BY <1>5, <2>1, <3>1
  <2>. QED  BY <2>2, <2>3
<1>14. CASE PostScan
  BY <1>4, <1>14 DEF PostScan, Aside
<1>15. ASSUME NEW b \in Bands, PostRead(b) PROVE Requests'
  <2>1. row' \in Row
    <3>1. ghost.token + 1 \in 0..MaxEvents
      BY <1>15 DEF PostRead, Event, Ghosts, Clock
    <3>2. [online |-> FALSE, scanning |-> FALSE, band |-> None, token |-> ghost.token + 1,
           enabled |-> TRUE] \in Row
      BY <3>1 DEF Row
    <3>. QED  BY <1>15, <3>2 DEF PostRead, Tables
  <2>2. [row' EXCEPT !.online = TRUE, !.band = b] \in Row
    BY <2>1 DEF Row
  <2>3. /\ UNCHANGED last
        /\ rest' = [row |-> [row' EXCEPT !.online = TRUE, !.band = b], band |-> b, saved |-> FALSE]
    BY <1>15 DEF PostRead, Aside
  <2>4. /\ rest' \in [row : Row, band : Bands \cup {None}, saved : BOOLEAN]
        /\ rest'.band \in Bands
    BY <2>2, <2>3
  <2>. QED  BY <1>5, <2>3, <2>4
<1>. QED  BY NextCases, <1>6, <1>7, <1>8, <1>9, <1>10, <1>11, <1>12, <1>13, <1>14, <1>15

LEMMA StepGhosts ==
  ASSUME Types, Next PROVE Ghosts'
<1> USE DEF Types
<1> DEFINE Kind == [token : 0..MaxEvents, enabled : BOOLEAN, lost : SUBSET {"token", "enabled"},
                    status : BOOLEAN, bands : BOOLEAN, unstored : SUBSET Bands]
<1>1. events \in 0..MaxEvents /\ events' \in 0..MaxEvents /\ events <= events'
  BY StepClock DEF Clock
<1>2. ghost \in Kind /\ ghost.token \in 0..MaxEvents /\ ghost.token <= events
  BY DEF Ghosts
<1>3. ASSUME ghost' \in Kind, ghost'.token = ghost.token \/ ghost'.token <= events'
      PROVE  Ghosts'
  BY <1>1, <1>2, <1>3 DEF Ghosts
<1>4. \A r : Overwritten(r) \subseteq {"token", "enabled"}
  BY DEF Overwritten
<1>5. CASE UNCHANGED ghost
  BY <1>2, <1>3, <1>5
<1> HIDE DEF Kind
<1>7. CASE \/ Device \/ BridgeDown \/ BridgeUp \/ Tick \/ SaveBand \/ ConfigEnds \/ SeenScan
           \/ EditRead \/ PostScan
  BY <1>5, <1>7, DeviceFrame DEF BridgeDown, BridgeUp, Tick, SaveBand, ConfigEnds, SeenScan, EditRead, PostScan
<1>8. CASE HandleStatus
  <2>1. \E s \in BOOLEAN : ghost' = [ghost EXCEPT !.status = s]
    BY <1>8 DEF HandleStatus
  <2>2. ghost' \in Kind /\ ghost'.token = ghost.token
    BY <1>2, <2>1 DEF Kind
  <2>. QED  BY <1>3, <2>2
<1>9. CASE HandleConfig
  <2>1. CASE UNCHANGED ghost
    BY <1>5, <2>1
  <2>2. CASE ghost' = [ghost EXCEPT !.bands = FALSE, !.status = @ \/ ~device.online]
    <3>1. ghost' \in Kind /\ ghost'.token = ghost.token
      BY <1>2, <2>2 DEF Kind
    <3>. QED  BY <1>3, <3>1
  <2>. QED  BY <1>9, <2>1, <2>2 DEF HandleConfig
<1>10. CASE SaveConfig
  <2>1. ghost' = [ghost EXCEPT !.lost = @ \cup Overwritten(bridge.read)]
    BY <1>10 DEF SaveConfig
  <2>2. ghost' \in Kind /\ ghost'.token = ghost.token
    BY <1>2, <1>4, <2>1 DEF Kind
  <2>. QED  BY <1>3, <2>2
<1>11. CASE HandleScan \/ StoreScan
  <2>1. \/ UNCHANGED ghost
        \/ \E c \in BOOLEAN : ghost' = [ghost EXCEPT !.status = c]
        \/ \E b \in Bands : \/ ghost' = [ghost EXCEPT !.unstored = @ \cup {b}]
                            \/ ghost' = [ghost EXCEPT !.unstored = @ \ {b}]
    <3>1. CASE HandleScan
      <4>1. Head(inbox).band \in Bands
        BY <3>1, Taking, ScanType DEF HandleScan, ScanMessage
      <4>. QED  BY <3>1, <4>1 DEF HandleScan
    <3>2. CASE StoreScan
      <4>1. bridge.band \in Bands
        BY <3>2 DEF StoreScan, Handler
      <4>. QED  BY <3>2, <4>1 DEF StoreScan
    <3>. QED  BY <1>11, <3>1, <3>2
  <2>2. CASE ghost' # ghost
    <3>1. ghost' \in Kind /\ ghost'.token = ghost.token
      BY <1>2, <2>1, <2>2 DEF Kind
    <3>. QED  BY <1>3, <3>1
  <2>. QED  BY <1>5, <2>2
<1>12. CASE Fails
  <2>1. \/ bridge.at \in {"seen", "store"} /\ ghost' = [ghost EXCEPT !.unstored = @ \cup {bridge.band}]
        \/ ghost' = [ghost EXCEPT !.bands = TRUE]
        \/ ghost' = [ghost EXCEPT !.status = TRUE]
    BY <1>12 DEF Fails
  <2>2. bridge.at \in {"seen", "store"} => bridge.band \in Bands
    BY DEF Handler
  <2>3. CASE bridge.at \in {"seen", "store"} /\ ghost' = [ghost EXCEPT !.unstored = @ \cup {bridge.band}]
    <3>1. ghost' \in Kind /\ ghost'.token = ghost.token
      BY <1>2, <2>2, <2>3 DEF Kind
    <3>. QED  BY <1>3, <3>1
  <2>4. CASE ghost' = [ghost EXCEPT !.bands = TRUE]
    <3>1. ghost' \in Kind /\ ghost'.token = ghost.token
      BY <1>2, <2>4 DEF Kind
    <3>. QED  BY <1>3, <3>1
  <2>5. CASE ghost' = [ghost EXCEPT !.status = TRUE]
    <3>1. ghost' \in Kind /\ ghost'.token = ghost.token
      BY <1>2, <2>5 DEF Kind
    <3>. QED  BY <1>3, <3>1
  <2>. QED  BY <2>1, <2>3, <2>4, <2>5
<1>13. CASE Regenerate
  <2>1. ghost' = [ghost EXCEPT !.token = @ + 1, !.lost = @ \ {"token"}] /\ events' = events + 1
    BY <1>13 DEF Regenerate, Event
  <2>2. ghost.token + 1 \in 0..MaxEvents /\ ghost.token + 1 <= events'
    BY <1>1, <1>2, <2>1
  <2>3. ghost' \in Kind /\ ghost'.token <= events'
    BY <1>2, <2>1, <2>2 DEF Kind
  <2>. QED  BY <1>3, <2>3
<1>14. CASE RestSave
  <2>1. PICK e \in BOOLEAN, L \in SUBSET {"token", "enabled"}, s \in BOOLEAN :
          ghost' = [ghost EXCEPT !.enabled = e, !.lost = L, !.status = s]
    <3>1. rest.row.enabled \in BOOLEAN /\ ghost.enabled \in BOOLEAN
      BY <1>14 DEF RestSave, Requests, Row, Ghosts
    <3>2. \A edits \in {{}, {"enabled"}} :
            (ghost.lost \cup Overwritten(rest.row)) \ edits \in SUBSET {"token", "enabled"}
      BY <1>2, <1>4 DEF Kind
    <3>. QED  BY <1>14, <3>1, <3>2 DEF RestSave
  <2>2. ghost' \in Kind /\ ghost'.token = ghost.token
    BY <1>2, <2>1 DEF Kind
  <2>. QED  BY <1>3, <2>2
<1>15. CASE DeleteScanner
  <2>1. DOMAIN last \subseteq Bands
    BY DEF Requests, Partial
  <2>2. ghost' = [ghost EXCEPT !.status = TRUE, !.bands = TRUE, !.unstored = DOMAIN last]
    BY <1>15 DEF DeleteScanner
  <2>3. ghost' \in Kind /\ ghost'.token = ghost.token
    BY <1>2, <2>1, <2>2 DEF Kind
  <2>. QED  BY <1>3, <2>3
<1>16. ASSUME NEW b \in Bands, PostRead(b) PROVE Ghosts'
  <2>1. CASE row # None
    BY <1>5, <1>16, <2>1 DEF PostRead
  <2>2. CASE row = None
    <3>1. /\ ghost' = [ghost EXCEPT !.token = ghost.token + 1, !.enabled = TRUE, !.lost = {}]
          /\ events' = events + 1
      BY <1>16, <2>2 DEF PostRead, Event
    <3>2. ghost.token + 1 \in 0..MaxEvents /\ ghost.token + 1 <= events'
      BY <1>1, <1>2, <3>1
    <3>3. ghost' \in Kind /\ ghost'.token <= events'
      BY <1>2, <3>1, <3>2 DEF Kind
    <3>. QED  BY <1>3, <3>3
  <2>. QED  BY <2>1, <2>2
<1>17. ASSUME NEW b \in Bands, EditBand(b) PROVE Ghosts'
  <2>1. ghost' = [ghost EXCEPT !.bands = TRUE]
    BY <1>17 DEF EditBand
  <2>2. ghost' \in Kind /\ ghost'.token = ghost.token
    BY <1>2, <2>1 DEF Kind
  <2>. QED  BY <1>3, <2>2
<1>. QED  BY NextCases, <1>7, <1>8, <1>9, <1>10, <1>11, <1>12, <1>13, <1>14, <1>15, <1>16, <1>17

LEMMA StepTypes == ASSUME Types, Next PROVE Types'
  BY StepClock, StepMessages, StepHandler, StepTables, StepRequests, StepGhosts DEF Types

-----------------------------------------------------------------------------
(* Edits survive                                                           *)

LEMMA StepEdits ==
  ASSUME Types, EditsSurvive, Next PROVE EditsSurvive'
<1> USE DEF Types
<1> DEFINE Fields == {"token", "enabled"}
           Kind   == [token : 0..MaxEvents, enabled : BOOLEAN, lost : SUBSET Fields,
                      status : BOOLEAN, bands : BOOLEAN, unstored : SUBSET Bands]
<1>1. ghost \in Kind
  BY DEF Ghosts
\* It is enough that a field which is not lost was edited or kept.
<1>2. ASSUME row' # None => \A f \in Fields \ ghost'.lost : row'[f] = ghost'[f]
      PROVE  EditsSurvive'
  BY <1>2 DEF EditsSurvive
<1>3. ASSUME UNCHANGED row,
             ghost'.token = ghost.token, ghost'.enabled = ghost.enabled, ghost'.lost = ghost.lost
      PROVE  EditsSurvive'
  BY <1>3 DEF EditsSurvive
<1>4. ASSUME row # None, row'.token = row.token, row'.enabled = row.enabled, UNCHANGED ghost
      PROVE  EditsSurvive'
  BY <1>4 DEF EditsSurvive
<1>5. ASSUME NEW r \in Row, NEW f \in Fields, f \notin Overwritten(r), f \notin ghost.lost
      PROVE  row # None /\ r[f] = ghost[f]
  BY <1>5 DEF Overwritten, EditsSurvive
<1>6. CASE Device \/ BridgeDown \/ BridgeUp \/ Tick \/ SaveBand \/ ConfigEnds \/ EditRead \/ PostScan
  BY <1>3, <1>6, DeviceFrame DEF BridgeDown, BridgeUp, Tick, SaveBand, ConfigEnds, EditRead, PostScan, tables
<1>7. CASE HandleConfig \/ HandleScan \/ StoreScan \/ Fails \/ \E b \in Bands : EditBand(b)
  <2>1. /\ UNCHANGED row
        /\ \/ UNCHANGED ghost
           \/ \E s, t : \/ ghost' = [ghost EXCEPT !.bands = s, !.status = t]
                        \/ ghost' = [ghost EXCEPT !.bands = s] \/ ghost' = [ghost EXCEPT !.status = s]
                        \/ ghost' = [ghost EXCEPT !.unstored = s]
    <3>1. CASE HandleConfig
      BY <3>1 DEF HandleConfig, tables
    <3>2. CASE HandleScan
      BY <3>2 DEF HandleScan, tables
    <3>3. CASE StoreScan
      BY <3>3 DEF StoreScan
    <3>4. CASE Fails
      BY <3>4 DEF Fails, tables
    <3>5. CASE \E b \in Bands : EditBand(b)
      BY <3>5 DEF EditBand
    <3>. QED  BY <1>7, <3>1, <3>2, <3>3, <3>4, <3>5
  <2>2. ghost'.token = ghost.token /\ ghost'.enabled = ghost.enabled /\ ghost'.lost = ghost.lost
    BY <1>1, <2>1
  <2>. QED  BY <1>3, <2>1, <2>2
<1>8. CASE HandleStatus
  <2>1. PICK s \in BOOLEAN : ghost' = [ghost EXCEPT !.status = s]
    BY <1>8 DEF HandleStatus
  <2>2. ghost'.token = ghost.token /\ ghost'.enabled = ghost.enabled /\ ghost'.lost = ghost.lost
    BY <1>1, <2>1
  <2>3. CASE row = None
    BY <1>2, <1>8, <2>3 DEF HandleStatus
  <2>4. CASE row # None
    <3>1. Head(inbox) \in StatusMessage
      BY <1>8, Taking, StatusType DEF HandleStatus
    <3>2. row'.token = row.token /\ row'.enabled = row.enabled
      BY <1>8, <2>4, <3>1, RowKept DEF HandleStatus, Tables
    <3>. QED  BY <2>2, <2>4, <3>2 DEF EditsSurvive
  <2>. QED  BY <2>3, <2>4
<1>9. CASE SaveConfig
  <2>1. /\ row' = bridge.read /\ bridge.read \in Row
        /\ ghost' = [ghost EXCEPT !.lost = @ \cup Overwritten(bridge.read)]
    BY <1>9 DEF SaveConfig, Handler
  <2>2. /\ ghost'.token = ghost.token /\ ghost'.enabled = ghost.enabled
        /\ ghost'.lost = ghost.lost \cup Overwritten(bridge.read)
    BY <1>1, <2>1
  <2>3. ASSUME NEW f \in Fields \ ghost'.lost PROVE row'[f] = ghost'[f]
    BY <1>5, <2>1, <2>2
  <2>. QED  BY <1>2, <2>3
<1>10. CASE SeenScan
  <2>1. bridge.read.online \in BOOLEAN
    BY <1>10 DEF SeenScan, Handler, Row
  <2>2. row'.token = row.token /\ row'.enabled = row.enabled
    BY <1>10, <2>1, RowKept DEF SeenScan, SeenFields, Tables
  <2>. QED  BY <1>4, <1>10, <2>2 DEF SeenScan
<1>11. CASE Regenerate
  <2>1. row # None /\ row' = [row EXCEPT !.token = ghost.token + 1]
    BY <1>11 DEF Regenerate
  <2>2. ghost' = [ghost EXCEPT !.token = @ + 1, !.lost = @ \ {"token"}]
    BY <1>11 DEF Regenerate
  <2>3. row \in Row
    BY <2>1 DEF Tables
  <2>4. row'.token = ghost.token + 1 /\ row'.enabled = row.enabled
    BY <2>1, <2>3 DEF Row
  <2>5. /\ ghost'.token = ghost.token + 1 /\ ghost'.enabled = ghost.enabled
        /\ ghost'.lost = ghost.lost \ {"token"}
    BY <1>1, <2>2
  <2>. QED  BY <1>2, <2>1, <2>4, <2>5 DEF EditsSurvive
<1>12. CASE RestSave
  <2> DEFINE edits == IF rest.band = None THEN {"enabled"} ELSE {}
  <2>1. row' = rest.row /\ rest.row \in Row
    BY <1>12 DEF RestSave, Requests
  <2>2. /\ ghost'.token = ghost.token
        /\ ghost'.enabled = IF edits = {} THEN ghost.enabled ELSE rest.row.enabled
        /\ ghost'.lost = (ghost.lost \cup Overwritten(rest.row)) \ edits
    BY <1>1, <1>12 DEF RestSave
  <2>3. ASSUME NEW f \in Fields \ ghost'.lost PROVE row'[f] = ghost'[f]
    <3>1. CASE f \in edits
      BY <2>1, <2>2, <3>1
    <3>2. CASE f \notin edits
      <4>1. rest.row[f] = ghost[f]
        BY <1>5, <2>1, <2>2, <3>2
      <4>2. f = "token" \/ edits = {}
        BY <3>2
      <4>. QED  BY <2>1, <2>2, <4>1, <4>2
    <3>. QED  BY <3>1, <3>2
  <2>. QED  BY <1>2, <2>3
<1>13. CASE DeleteScanner
  BY <1>2, <1>13 DEF DeleteScanner
<1>14. ASSUME NEW b \in Bands, PostRead(b) PROVE EditsSurvive'
  <2>1. CASE row # None
    BY <1>14, <2>1 DEF PostRead, EditsSurvive
  <2>2. CASE row = None
    <3>1. /\ ghost' = [ghost EXCEPT !.token = ghost.token + 1, !.enabled = TRUE, !.lost = {}]
          /\ row'.token = ghost.token + 1 /\ row'.enabled = TRUE
      BY <1>14, <2>2 DEF PostRead
    <3>2. ghost'.token = ghost.token + 1 /\ ghost'.enabled = TRUE
      BY <1>1, <3>1
    <3>. QED  BY <1>2, <3>1, <3>2
  <2>. QED  BY <2>1, <2>2
<1>. QED  BY NextCases, <1>6, <1>7, <1>8, <1>9, <1>10, <1>11, <1>12, <1>13, <1>14

-----------------------------------------------------------------------------
(* The pace of the stored scans                                            *)

LEMMA StepPaced ==
  ASSUME Types, Paced, ScansPaced, Next PROVE Paced' /\ ScansPaced'
<1> USE DEF Types
<1> DEFINE Pace(S) == \A s, t \in S : s.band = t.band /\ s.run = t.run /\ s.run # None /\ s.time < t.time =>
                        t.time - s.time >= Interval
           Stored(S, b, t) == \E s \in S : s.band = b /\ s.run = bridge.run /\ s.time = t
           Storing(b) == bridge.at \in {"seen", "store"} /\ bridge.band \in DOMAIN last
           Like(s, t) == s.band = t.band /\ s.run = t.run /\ s.time = t.time
\* The numbers
<1>1. /\ bridge.began \in Nat /\ bridge.run \in Nat /\ now \in Nat
      /\ \A s \in scans : s.time \in Nat /\ s.run \in Nat \cup {None} /\ s.band \in Bands
      /\ \A b \in DOMAIN last : last[b] \in Nat
      /\ None \notin Nat /\ Interval \in Nat /\ ghost.unstored \subseteq Bands
  BY DEF Handler, Clock, Tables, Scan, Requests, Partial, Ghosts
\* Scans that are like the ones there were change nothing.
<1>2. ASSUME \A s \in scans' : \E t \in scans : Like(s, t),
             \A t \in scans : \E s \in scans' : Like(s, t),
             UNCHANGED last, bridge'.run = bridge.run, ghost'.unstored = ghost.unstored,
             \/ bridge'.at \notin {"seen", "store"}
             \/ bridge'.at \in {"seen", "store"} /\ bridge'.band \in DOMAIN last =>
                  bridge'.began - last[bridge'.band] >= Interval
      PROVE  Paced' /\ ScansPaced'
  <2>1. Paced'
    BY <1>2 DEF Paced
  <2>2. \A s, t \in scans' : s.band = t.band /\ s.run = t.run /\ s.run # None /\ s.time < t.time =>
          t.time - s.time >= Interval
    BY <1>2 DEF ScansPaced
  <2>3. \A b \in DOMAIN last' \ ghost'.unstored :
          \E s \in scans' : s.band = b /\ s.run = bridge'.run /\ s.time = last'[b]
    BY <1>2 DEF ScansPaced
  <2>. QED  BY <2>1, <2>2, <2>3 DEF ScansPaced
<1>3. ASSUME UNCHANGED <<scans, last>>, bridge'.run = bridge.run, ghost'.unstored = ghost.unstored,
             \/ bridge'.at \notin {"seen", "store"}
             \/ /\ bridge.at \in {"seen", "store"}
                /\ bridge'.band = bridge.band /\ bridge'.began = bridge.began
      PROVE  Paced' /\ ScansPaced'
  BY <1>2, <1>3 DEF Paced
<1>4. bridge \in [up : BOOLEAN, at : {"idle", "config", "bands", "seen", "store"},
                  read : Row \cup {None}, todo : SUBSET (Bands \X Ranges),
                  band : Bands \cup {None}, began : 0..MaxTime, run : 0..MaxEvents]
  BY DEF Handler
<1>5. ghost \in [token : 0..MaxEvents, enabled : BOOLEAN, lost : SUBSET {"token", "enabled"},
                 status : BOOLEAN, bands : BOOLEAN, unstored : SUBSET Bands]
  BY DEF Ghosts
<1>6. Waiting.at = "idle" /\ Waiting.run = bridge.run
  BY <1>4 DEF Waiting
<1>7. CASE Device \/ Tick \/ EditRead
  <2>1. UNCHANGED <<scans, last, bridge, ghost>>
    BY <1>7, DeviceFrame DEF Tick, EditRead, Aside, tables
  <2>. QED  BY <1>3, <2>1
<1>8. CASE BridgeDown
  <2>1. UNCHANGED <<scans, ghost>>
    BY <1>8 DEF BridgeDown, tables
  <2>2. CASE bridge' = [Waiting EXCEPT !.up = FALSE] /\ UNCHANGED last
    <3>1. bridge'.at = "idle" /\ bridge'.run = bridge.run
      BY <1>4, <2>2 DEF Waiting
    <3>. QED  BY <1>3, <2>1, <2>2, <3>1
  <2>3. CASE bridge' = [Waiting EXCEPT !.up = FALSE, !.run = @ + 1] /\ last' = << >>
    <3>1. bridge'.at = "idle" /\ bridge'.run = bridge.run + 1
      BY <1>4, <2>3 DEF Waiting
    <3>2. Paced'
      BY <1>1, <2>1, <3>1 DEF Paced
    <3>3. ScansPaced'
      BY <2>1, <2>3, EmptyFunction DEF ScansPaced
    <3>. QED  BY <3>2, <3>3
  <2>. QED  BY <1>8, <2>2, <2>3 DEF BridgeDown
<1>9. CASE BridgeUp
  <2>1. UNCHANGED <<scans, last, ghost>> /\ bridge'.at = "idle" /\ bridge'.run = bridge.run
    BY <1>4, <1>9 DEF BridgeUp, Waiting, tables
  <2>. QED  BY <1>3, <2>1
<1>10. CASE HandleStatus
  <2>1. /\ UNCHANGED <<scans, last, bridge>>
        /\ \E s \in BOOLEAN : ghost' = [ghost EXCEPT !.status = s]
    BY <1>10 DEF HandleStatus
  <2>2. ghost'.unstored = ghost.unstored
    BY <1>5, <2>1
  <2>. QED  BY <1>3, <2>1, <2>2
<1>11. CASE HandleConfig
  <2>1. /\ UNCHANGED <<scans, last>>
        /\ \/ UNCHANGED <<bridge, ghost>>
           \/ /\ \E r, t : bridge' = [bridge EXCEPT !.at = "config", !.read = r, !.todo = t]
              /\ ghost' = [ghost EXCEPT !.bands = FALSE, !.status = @ \/ ~device.online]
    BY <1>11 DEF HandleConfig, tables
  <2>2. CASE UNCHANGED <<bridge, ghost>>
    BY <1>3, <2>1, <2>2
  <2>3. CASE /\ \E r, t : bridge' = [bridge EXCEPT !.at = "config", !.read = r, !.todo = t]
             /\ ghost' = [ghost EXCEPT !.bands = FALSE, !.status = @ \/ ~device.online]
    <3>1. bridge'.at = "config" /\ bridge'.run = bridge.run /\ ghost'.unstored = ghost.unstored
      BY <1>4, <1>5, <2>3
    <3>. QED  BY <1>3, <2>1, <3>1
  <2>. QED  BY <2>1, <2>2, <2>3
<1>12. CASE SaveConfig
  <2>1. /\ UNCHANGED <<scans, last>> /\ bridge' = [bridge EXCEPT !.at = "bands", !.read = None]
        /\ \E l : ghost' = [ghost EXCEPT !.lost = l]
    BY <1>12 DEF SaveConfig
  <2>2. bridge'.at = "bands" /\ bridge'.run = bridge.run /\ ghost'.unstored = ghost.unstored
    BY <1>4, <1>5, <2>1
  <2>. QED  BY <1>3, <2>1, <2>2
<1>13. CASE SaveBand
  <2>1. /\ UNCHANGED <<scans, last, ghost>> /\ bridge.at = "bands"
        /\ \E t : bridge' = [bridge EXCEPT !.todo = t]
    BY <1>13 DEF SaveBand
  <2>2. bridge'.at = "bands" /\ bridge'.run = bridge.run
    BY <1>4, <2>1
  <2>. QED  BY <1>3, <2>1, <2>2
<1>14. CASE ConfigEnds
  <2>1. UNCHANGED <<scans, last, ghost>> /\ bridge' = Waiting
    BY <1>14 DEF ConfigEnds, tables
  <2>. QED  BY <1>3, <1>6, <2>1
<1>15. CASE SeenScan
  <2>1. /\ UNCHANGED <<scans, last, ghost>> /\ bridge.at = "seen"
        /\ bridge' = [bridge EXCEPT !.at = "store"]
    BY <1>15 DEF SeenScan
  <2>2. bridge'.run = bridge.run /\ bridge'.band = bridge.band /\ bridge'.began = bridge.began
    BY <1>4, <2>1
  <2>. QED  BY <1>3, <2>1, <2>2
<1>16. CASE Regenerate \/ RestSave \/ \E b \in Bands : PostRead(b)
  <2>1. /\ UNCHANGED <<scans, last, bridge>>
        /\ \/ UNCHANGED ghost
           \/ \E a, b, c : \/ ghost' = [ghost EXCEPT !.token = a, !.lost = b]
                           \/ ghost' = [ghost EXCEPT !.enabled = a, !.lost = b, !.status = c]
                           \/ ghost' = [ghost EXCEPT !.token = a, !.enabled = b, !.lost = c]
    <3>1. CASE Regenerate
      BY <3>1 DEF Regenerate, Aside
    <3>2. CASE RestSave
      BY <3>2 DEF RestSave, Aside
    <3>3. CASE \E b \in Bands : PostRead(b)
      BY <3>3 DEF PostRead, Aside
    <3>. QED  BY <1>16, <3>1, <3>2, <3>3
  <2>2. ghost'.unstored = ghost.unstored
    BY <1>5, <2>1
  <2>. QED  BY <1>3, <2>1, <2>2
<1>17. CASE DeleteScanner
  <2>1. /\ UNCHANGED <<last, bridge>> /\ scans' = {} /\ ghost'.unstored = DOMAIN last
    BY <1>5, <1>17 DEF DeleteScanner, Aside
  <2>. QED  BY <2>1 DEF Paced, ScansPaced
<1>18. ASSUME NEW b \in Bands, EditBand(b) PROVE Paced' /\ ScansPaced'
  <2>1. /\ UNCHANGED <<last, bridge>> /\ ghost' = [ghost EXCEPT !.bands = TRUE]
        /\ \/ UNCHANGED scans
           \/ scans' = {IF s.band = b /\ s.of = "own" THEN [s EXCEPT !.of = None] ELSE s : s \in scans}
    BY <1>18 DEF EditBand, Aside
  <2>2. ghost'.unstored = ghost.unstored
    BY <1>5, <2>1
  <2>3. \A s \in scans : Like([s EXCEPT !.of = None], s)
    BY DEF Tables, Scan
  <2>4. /\ \A s \in scans' : \E t \in scans : Like(s, t)
        /\ \A t \in scans : \E s \in scans' : Like(s, t)
    BY <2>1, <2>3
  <2>. QED  BY <1>2, <2>1, <2>2, <2>4 DEF Paced
<1>19. CASE PostScan
  <2>1. UNCHANGED <<last, bridge, ghost>>
    BY <1>19 DEF PostScan, Aside
  <2>2. CASE UNCHANGED scans
    BY <1>3, <2>1, <2>2
  <2>3. ASSUME NEW of, scans' = scans \cup {[band |-> rest.band, time |-> now, run |-> None, of |-> of]}
        PROVE  Paced' /\ ScansPaced'
    <3>1. \A s \in scans' : s \in scans \/ s.run = None
      BY <2>3
    <3>2. Paced'
      BY <1>1, <2>1, <3>1 DEF Paced
    <3>3. ScansPaced'
      <4>1. \A s, t \in scans' : s.band = t.band /\ s.run = t.run /\ s.run # None /\ s.time < t.time =>
              t.time - s.time >= Interval
        BY <3>1 DEF ScansPaced
      <4>2. scans \subseteq scans'
        BY <2>3
      <4>. QED  BY <2>1, <4>1, <4>2 DEF ScansPaced
    <3>. QED  BY <3>2, <3>3
  <2>. QED  BY <1>19, <2>2, <2>3 DEF PostScan
\* A stamp that is later than the last by an interval, and its scan or the
\* failure to store it
<1>20. ASSUME NEW b \in Bands, NEW t \in Nat, Stamp(b, t),
              b \in DOMAIN last => t - last[b] >= Interval,
              bridge'.run = bridge.run, bridge'.at = "idle",
              \/ scans' = scans /\ ghost'.unstored = ghost.unstored \cup {b}
              \/ /\ \E of : scans' = scans \cup {[band |-> b, time |-> t, run |-> bridge.run, of |-> of]}
                 /\ ghost'.unstored = ghost.unstored \ {b}
       PROVE  Paced' /\ ScansPaced'
  <2>1. /\ DOMAIN last' = DOMAIN last \cup {b} /\ last'[b] = t
        /\ \A c \in DOMAIN last \ {b} : last'[c] = last[c]
    BY <1>20 DEF Stamp, Put
  <2>2. \A s \in scans : s.run = bridge.run /\ s.band = b => t - s.time >= Interval
    <3>1. \A s \in scans : s.run = bridge.run /\ s.band = b =>
            b \in DOMAIN last /\ s.time <= last[b]
      BY DEF Paced
    <3>. QED  BY <1>1, <1>20, <3>1
  <2>3. \A s \in scans' : \/ s \in scans
                          \/ s.band = b /\ s.time = t /\ s.run = bridge.run
    BY <1>20
  <2>4. scans \subseteq scans'
    BY <1>20
  <2>5. Paced'
    <3>1. \A s \in scans' : s.run # None => s.run <= bridge'.run
      BY <1>1, <1>20, <2>3 DEF Paced
    <3>2. ASSUME NEW s \in scans', s.run = bridge'.run
          PROVE  s.band \in DOMAIN last' /\ s.time <= last'[s.band]
      <4>1. CASE s.band = b
        BY <1>1, <1>20, <2>1, <2>2, <2>3, <3>2, <4>1
      <4>2. CASE s.band # b
        <5>1. s \in scans /\ s.band \in DOMAIN last /\ s.time <= last[s.band]
          BY <1>20, <2>3, <3>2, <4>2 DEF Paced
        <5>. QED  BY <2>1, <4>2, <5>1
      <4>. QED  BY <4>1, <4>2
    <3>. QED  BY <1>20, <3>1, <3>2 DEF Paced
  <2>6. ASSUME NEW r \in scans', NEW s \in scans', r.band = s.band, r.run = s.run, r.run # None,
               r.time < s.time
        PROVE  s.time - r.time >= Interval
    <3>1. CASE r \in scans /\ s \in scans
      BY <2>6, <3>1 DEF ScansPaced
    <3>2. CASE r \in scans /\ s \notin scans
      BY <2>2, <2>3, <2>6, <3>2
    <3>3. CASE r \notin scans
      <4>1. r.band = b /\ r.time = t /\ r.run = bridge.run
        BY <2>3, <3>3
      <4>2. s \in scans => t - s.time >= Interval /\ s.time \in Nat
        BY <1>1, <2>2, <2>6, <4>1
      <4>. QED  BY <1>1, <1>20, <2>3, <2>6, <4>1, <4>2
    <3>. QED  BY <3>1, <3>2, <3>3
  <2>7. ASSUME NEW c \in DOMAIN last' \ ghost'.unstored
        PROVE  \E s \in scans' : s.band = c /\ s.run = bridge'.run /\ s.time = last'[c]
    <3>1. CASE c # b
      <4>1. c \in DOMAIN last \ ghost.unstored
        BY <1>20, <2>1, <2>7, <3>1
      <4>2. PICK s \in scans : s.band = c /\ s.run = bridge.run /\ s.time = last[c]
        BY <4>1 DEF ScansPaced
      <4>. QED  BY <1>20, <2>1, <2>4, <3>1, <4>1, <4>2
    <3>2. CASE c = b
      <4>1. PICK of : scans' = scans \cup {[band |-> b, time |-> t, run |-> bridge.run, of |-> of]}
        BY <1>20, <2>7, <3>2
      <4>2. [band |-> b, time |-> t, run |-> bridge.run, of |-> of] \in scans'
        BY <4>1
      <4>. QED  BY <1>20, <2>1, <3>2, <4>2
    <3>. QED  BY <3>1, <3>2
  <2>. QED  BY <2>5, <2>6, <2>7 DEF ScansPaced
<1>21. CASE HandleScan
  <2> DEFINE b == Head(inbox).band
  <2>1. b \in Bands /\ UNCHANGED scans /\ bridge.at = "idle"
    BY <1>21, Taking, ScanType DEF HandleScan, ScanMessage, tables, Arrived
  <2>2. CASE UNCHANGED <<last, bridge, ghost>>
    BY <1>3, <2>1, <2>2
  <2>3. CASE Due(b) /\ row = None
    <3>1. Stamp(b, now) /\ UNCHANGED bridge /\ ghost' = [ghost EXCEPT !.unstored = @ \cup {b}]
      BY <1>21, <2>3 DEF HandleScan
    <3>2. ghost'.unstored = ghost.unstored \cup {b}
      BY <1>5, <3>1
    <3>. QED  BY <1>1, <1>20, <2>1, <2>3, <3>1, <3>2 DEF Due
  <2>4. CASE Due(b) /\ row # None
    <3>1. /\ UNCHANGED last /\ \E x : ghost' = [ghost EXCEPT !.status = x]
          /\ \E r : bridge' = [bridge EXCEPT !.at = "seen", !.read = r, !.band = b, !.began = now]
      BY <1>21, <2>4 DEF HandleScan
    <3>2. /\ bridge'.at = "seen" /\ bridge'.band = b /\ bridge'.began = now /\ bridge'.run = bridge.run
          /\ ghost'.unstored = ghost.unstored
      BY <1>4, <1>5, <3>1
    <3>. QED  BY <1>2, <2>1, <2>4, <3>1, <3>2 DEF Due
  <2>. QED  BY <1>21, <2>2, <2>3, <2>4 DEF HandleScan, Holds
<1>22. CASE StoreScan
  <2>1. /\ bridge.at = "store" /\ Stamp(bridge.band, bridge.began) /\ bridge' = Waiting
        /\ \E of : scans' = scans \cup {[band |-> bridge.band, time |-> bridge.began, run |-> bridge.run,
                                         of |-> of]}
        /\ ghost' = [ghost EXCEPT !.unstored = @ \ {bridge.band}]
    BY <1>22 DEF StoreScan
  <2>2. ghost'.unstored = ghost.unstored \ {bridge.band} /\ bridge.band \in Bands
    BY <1>5, <2>1 DEF Handler
  <2>3. bridge.band \in DOMAIN last => bridge.began - last[bridge.band] >= Interval
    BY <2>1 DEF Paced
  <2>. QED  BY <1>1, <1>6, <1>20, <2>1, <2>2, <2>3
<1>23. CASE Fails
  <2>1. UNCHANGED scans /\ bridge'.at = "idle" /\ bridge'.run = bridge.run
    BY <1>6, <1>23 DEF Fails, tables
  <2>2. CASE /\ bridge.at \in {"seen", "store"} /\ Stamp(bridge.band, bridge.began)
             /\ ghost' = [ghost EXCEPT !.unstored = @ \cup {bridge.band}]
    <3>1. ghost'.unstored = ghost.unstored \cup {bridge.band} /\ bridge.band \in Bands
      BY <1>5, <2>2 DEF Handler
    <3>2. bridge.band \in DOMAIN last => bridge.began - last[bridge.band] >= Interval
      BY <2>2 DEF Paced
    <3>. QED  BY <1>1, <1>20, <2>1, <2>2, <3>1, <3>2
  <2>3. CASE UNCHANGED last /\ \E f : \/ ghost' = [ghost EXCEPT !.bands = f]
                                      \/ ghost' = [ghost EXCEPT !.status = f]
    <3>1. ghost'.unstored = ghost.unstored
      BY <1>5, <2>3
    <3>. QED  BY <1>3, <2>1, <2>3, <3>1
  <2>. QED  BY <1>23, <2>2, <2>3 DEF Fails
<1>. QED  BY NextCases, <1>7, <1>8, <1>9, <1>10, <1>11, <1>12, <1>13, <1>14, <1>15, <1>16, <1>17,
             <1>18, <1>19, <1>21, <1>22, <1>23

-----------------------------------------------------------------------------
(* What the messages on their way and the retained ones say of the scanner *)

InQueue(k) == \E i \in DOMAIN inbox : inbox[i].type = k

\* The last status, or configuration, on its way is the retained one.
Latest ==
  \A k \in {"status", "config"}, i \in DOMAIN inbox :
    inbox[i].type = k /\ (\A j \in DOMAIN inbox : j > i => inbox[j].type # k) =>
      inbox[i] = retained[k]

Truthful ==
  /\ retained.status # None =>
       retained.status = Status(device.online, device.scanning, device.band)
  /\ Connected => retained.config = Config(device.layout)
  /\ ~device.online => device.scanning = FALSE /\ device.band = None

\* A row that was deleted is out of date until a message is taken in full.
Gone == row = None => ghost.status /\ ghost.bands

Shows(r) == r.online = device.online /\ r.scanning = device.scanning /\ r.band = device.band

\* With no status on its way the row says what the scanner said last, and so
\* does what a handler is about to write over it.
StatusSettled ==
  /\ bridge.at = "seen" => bridge.read.online = TRUE
  /\ bridge.up /\ ~InQueue("status") =>
       /\ bridge.at \in {"seen", "store"} => device.online \/ ghost.status
       /\ ~ghost.status /\ retained.status # None =>
            Shows(row) /\ (bridge.at = "config" => Shows(bridge.read))

\* With no configuration on its way each band of the scanner is there or is
\* still to be written, and nothing else is.
BandsSettled ==
  /\ bridge.at \in {"config", "bands"} \/ bridge.todo = {}
  /\ bridge.up /\ Connected /\ ~ghost.bands /\ ~InQueue("config") =>
       /\ \A b \in DOMAIN device.layout :
            \/ <<b, device.layout[b]>> \in bridge.todo
            \/ b \in DOMAIN bands /\ bands[b] = device.layout[b]
       /\ \A t \in bridge.todo : \E b \in DOMAIN device.layout : t = <<b, device.layout[b]>>

Behind == Latest /\ Truthful
Mirror == Types /\ Behind /\ Gone /\ StatusSettled /\ BandsSettled

\* Messages that are appended
LEMMA Appending ==
  ASSUME Messages, NEW messages \in Seq(Message), inbox' = inbox \o messages
  PROVE  /\ \A k : InQueue(k) => InQueue(k)'
         /\ \A i \in DOMAIN messages : InQueue(messages[i].type)'
         /\ \A i \in DOMAIN inbox' :
              \/ i \in DOMAIN inbox /\ inbox'[i] = inbox[i]
              \/ /\ i \in Nat /\ i > Len(inbox) /\ i - Len(inbox) \in DOMAIN messages
                 /\ inbox'[i] = messages[i - Len(inbox)]
         /\ \A i \in DOMAIN inbox : i \in DOMAIN inbox' /\ inbox'[i] = inbox[i]
         /\ \A i \in DOMAIN messages :
              i + Len(inbox) \in DOMAIN inbox' /\ inbox'[i + Len(inbox)] = messages[i]
  <1>1. inbox \in Seq(Message)
    BY DEF Messages
  <1>2. \A i \in DOMAIN inbox : i \in DOMAIN inbox' /\ inbox'[i] = inbox[i]
    BY <1>1
  <1>3. \A i \in DOMAIN messages :
          i + Len(inbox) \in DOMAIN inbox' /\ inbox'[i + Len(inbox)] = messages[i]
    BY <1>1
  <1>4. \A i \in DOMAIN inbox' :
          \/ i \in DOMAIN inbox /\ inbox'[i] = inbox[i]
          \/ /\ i \in Nat /\ i > Len(inbox) /\ i - Len(inbox) \in DOMAIN messages
             /\ inbox'[i] = messages[i - Len(inbox)]
    BY <1>1
  <1>. QED  BY <1>2, <1>3, <1>4 DEF InQueue

\* and one that is taken
LEMMA Taken ==
  ASSUME Messages, NEW type, Arrived(type), Take
  PROVE  /\ \A k : k # type => (InQueue(k)' <=> InQueue(k))
         /\ \A i \in DOMAIN inbox' : i \in Nat /\ i + 1 \in DOMAIN inbox /\ inbox'[i] = inbox[i + 1]
         /\ \A i \in DOMAIN inbox : i \in Nat /\ (i > 1 => i - 1 \in DOMAIN inbox' /\ inbox'[i - 1] = inbox[i])
         /\ 1 \in DOMAIN inbox /\ inbox[1] = Head(inbox) /\ inbox[1].type = type
  <1>1. inbox \in Seq(Message) /\ inbox # <<>> /\ inbox' = Tail(inbox) /\ Head(inbox).type = type
    BY DEF Messages, Arrived, Take
  <1>2. 1 \in DOMAIN inbox /\ inbox[1] = Head(inbox)
    BY <1>1
  <1>3. \A i \in DOMAIN inbox' : i \in Nat /\ i + 1 \in DOMAIN inbox /\ inbox'[i] = inbox[i + 1]
    BY <1>1
  <1>4. \A i \in DOMAIN inbox :
          i \in Nat /\ i >= 1 /\ (i > 1 => i - 1 \in DOMAIN inbox' /\ inbox'[i - 1] = inbox[i])
    BY <1>1
  <1>5. ASSUME NEW k, k # type PROVE InQueue(k)' <=> InQueue(k)
    <2>1. InQueue(k)' => InQueue(k)
      BY <1>3 DEF InQueue
    <2>2. ASSUME NEW i \in DOMAIN inbox, inbox[i].type = k PROVE InQueue(k)'
      <3>1. i # 1
        BY <1>1, <1>2, <1>5, <2>2
      <3>2. i > 1
        BY <1>4, <3>1
      <3>. QED  BY <1>4, <2>2, <3>2 DEF InQueue
    <2>. QED  BY <2>1, <2>2 DEF InQueue
  <1>. QED  BY <1>1, <1>2, <1>3, <1>4, <1>5

\* What the message that was taken says, when none of its kind is behind it
LEMMA TakenLast ==
  ASSUME Messages, Latest, NEW type \in {"status", "config"}, Arrived(type), Take, ~InQueue(type)'
  PROVE  Head(inbox) = retained[type]
  <1>1. \A j \in DOMAIN inbox : j > 1 => inbox[j].type # type
    BY Taken DEF InQueue
  <1>2. 1 \in DOMAIN inbox /\ inbox[1] = Head(inbox) /\ inbox[1].type = type
    BY Taken
  <1>. QED  BY <1>1, <1>2 DEF Latest

LEMMA TakeBehind ==
  ASSUME Messages, Behind, NEW type, Arrived(type), Take, UNCHANGED <<device, retained>>
  PROVE  Behind'
  <1>1. Latest'
    <2>. SUFFICES ASSUME NEW k \in {"status", "config"}, NEW i \in DOMAIN inbox', inbox'[i].type = k,
                         \A j \in DOMAIN inbox' : j > i => inbox'[j].type # k
                  PROVE  inbox'[i] = retained[k]
      BY DEF Latest
    <2>1. i \in Nat /\ i + 1 \in DOMAIN inbox /\ inbox'[i] = inbox[i + 1]
      BY Taken
    <2>2. ASSUME NEW j \in DOMAIN inbox, j > i + 1 PROVE inbox[j].type # k
      <3>1. j \in Nat /\ j > 1 /\ j - 1 > i
        BY <2>1, <2>2, Taken
      <3>. QED  BY <3>1, Taken
    <2>. QED  BY <2>1, <2>2 DEF Behind, Latest
  <1>3. Truthful'
    BY DEF Behind, Truthful, Connected
  <1>. QED  BY <1>1, <1>3 DEF Behind

\* What is published is retained, the last of its kind.
LEMMA Retaining ==
  ASSUME Messages, NEW messages \in Seq(Message), OnePerKind(messages), Publish(messages),
         NEW k \in {"status", "config"}
  PROVE  /\ \A i \in DOMAIN messages : messages[i].type = k => retained'[k] = messages[i]
         /\ (\A i \in DOMAIN messages : messages[i].type # k) => retained'[k] = retained[k]
  <1>. DEFINE ofKind == {i \in DOMAIN messages : messages[i].type = k}
  <1>1. retained'[k] = IF ofKind = {} THEN retained[k] ELSE messages[CHOOSE i \in ofKind : TRUE]
    BY DEF Publish, Messages
  <1>2. ASSUME NEW i \in DOMAIN messages, messages[i].type = k PROVE retained'[k] = messages[i]
    <2>1. ofKind = {i}
      BY <1>2 DEF OnePerKind
    <2>. HIDE DEF ofKind
    <2>2. (CHOOSE j \in ofKind : TRUE) = i
      BY <2>1
    <2>. QED  BY <1>1, <2>1, <2>2
  <1>3. ASSUME \A i \in DOMAIN messages : messages[i].type # k PROVE retained'[k] = retained[k]
    BY <1>1, <1>3
  <1>. QED  BY <1>2, <1>3

LEMMA PublishLatest ==
  ASSUME Messages, bridge.up \/ inbox = <<>>, Latest,
         NEW messages \in Seq(Message), OnePerKind(messages), Publish(messages)
  PROVE  Latest'
  <1>1. CASE inbox' = <<>>
    BY <1>1 DEF Latest
  <1>2. CASE inbox' = inbox \o messages
    <2>. SUFFICES ASSUME NEW k \in {"status", "config"}, NEW i \in DOMAIN inbox', inbox'[i].type = k,
                         \A j \in DOMAIN inbox' : j > i => inbox'[j].type # k
                  PROVE  inbox'[i] = retained'[k]
      BY DEF Latest
    <2>0. Len(inbox) \in Nat
      BY DEF Messages
    <2>1. CASE i \in DOMAIN inbox /\ inbox'[i] = inbox[i]
      <3>0. i \in 1..Len(inbox)
        BY <2>1 DEF Messages
      <3>1. \A j \in DOMAIN inbox : j > i => inbox[j].type # k
        BY <1>2, Appending
      <3>2. inbox'[i] = retained[k]
        BY <2>1, <3>1 DEF Latest
      <3>3. ASSUME NEW j \in DOMAIN messages PROVE messages[j].type # k
        <4>1. j \in Nat \ {0}
          OBVIOUS
        <4>2. j + Len(inbox) > i
          BY <2>0, <3>0, <4>1
        <4>3. j + Len(inbox) \in DOMAIN inbox' /\ inbox'[j + Len(inbox)] = messages[j]
          BY <1>2, Appending
        <4>. QED  BY <4>2, <4>3
      <3>. QED  BY <3>2, <3>3, Retaining
    <2>2. CASE i - Len(inbox) \in DOMAIN messages /\ inbox'[i] = messages[i - Len(inbox)]
      BY <2>2, Retaining
    <2>. QED  BY <1>2, <2>1, <2>2, Appending
  <1>. QED  BY <1>1, <1>2 DEF Publish

\* What the messages behind, and the tables, may take from a step of the scanner
Announced ==
  /\ UNCHANGED <<bridge, row, bands, ghost>> /\ Behind'
  /\ bridge.up =>
       /\ \A k : InQueue(k) => InQueue(k)'
       /\ InQueue("status")' \/ (SameStatusSaid /\ retained'.status = retained.status)
       /\ \/ InQueue("config")' \/ device'.link = "down"
          \/ device.link # "down" /\ device'.layout = device.layout

LEMMA DeviceStep ==
  ASSUME Types, Behind, Device
  PROVE  Announced
  <1>0. Messages /\ (bridge.up \/ inbox = <<>>)
    BY DEF Types, Handler
  <1>1. UNCHANGED <<bridge, row, bands, ghost>>
    BY DeviceFrame
  <1>2. PICK m \in Seq(Message) : Publish(m) /\ Speaks(m)
    BY <1>0, DeviceSpeaks DEF Spoken
  <1>3. OnePerKind(m)
    BY <1>2 DEF Speaks
  <1>4. Latest'
    BY <1>0, <1>2, <1>3, PublishLatest DEF Behind
  <1>5. \/ /\ \E i \in DOMAIN m : m[i].type = "status"
           /\ retained'.status = Status(device'.online, device'.scanning, device'.band)
           /\ device'.online \/ (~device'.scanning /\ device'.band = None)
        \/ SameStatusSaid /\ retained'.status = retained.status
    <2>1. CASE SameStatusSaid /\ \A i \in DOMAIN m : m[i].type # "status"
      BY <1>0, <1>2, <1>3, <2>1, Retaining
    <2>2. CASE /\ \E i \in DOMAIN m : /\ m[i].type = "status"
                                     /\ m[i] = Status(device'.online, device'.scanning, device'.band)
               /\ device'.online \/ (~device'.scanning /\ device'.band = None)
      BY <1>0, <1>2, <1>3, <2>2, Retaining
    <2>. QED  BY <1>2, <2>1, <2>2 DEF Speaks
  <1>6. \/ /\ \E i \in DOMAIN m : m[i].type = "config"
           /\ retained'.config = Config(device'.layout)
        \/ device'.link = "down"
        \/ /\ device.link # "down" /\ device'.layout = device.layout
           /\ retained'.config = retained.config
    <2>1. CASE \A i \in DOMAIN m : m[i].type # "config"
      BY <1>0, <1>2, <1>3, <2>1, Retaining DEF Speaks
    <2>2. CASE \E i \in DOMAIN m : m[i].type = "config" /\ m[i] = Config(device'.layout)
      BY <1>0, <1>2, <1>3, <2>2, Retaining
    <2>. QED  BY <1>2, <2>1, <2>2 DEF Speaks
  <1>7. Truthful'
    <2>1. device' \in DeviceType
      BY <1>2 DEF Speaks
    <2>2. (retained.status # None => retained.status = Status(device.online, device.scanning, device.band))'
      BY <1>5 DEF SameStatusSaid, Behind, Truthful
    <2>3. (~device.online => device.scanning = FALSE /\ device.band = None)'
      BY <1>5, <2>1 DEF SameStatusSaid, Behind, Truthful, DeviceType
    <2>4. (Connected => retained.config = Config(device.layout))'
      BY <1>6 DEF Connected, Behind, Truthful
    <2>. QED  BY <2>2, <2>3, <2>4 DEF Truthful
  <1>8. ASSUME bridge.up
        PROVE  /\ \A k : InQueue(k) => InQueue(k)'
               /\ \A i \in DOMAIN m : InQueue(m[i].type)'
    <2>1. inbox' = inbox \o m
      BY <1>2, <1>8 DEF Publish
    <2>. QED  BY <1>0, <2>1, Appending
  <1>. QED  BY <1>1, <1>4, <1>5, <1>6, <1>7, <1>8 DEF Announced, Behind

LEMMA SubscribedFacts ==
  ASSUME Messages, inbox' = Subscribed
  PROVE  /\ \A k \in {"status", "config"} : retained[k] # None => InQueue(k)'
         /\ \A i \in DOMAIN inbox' : \E k \in {"status", "config"} :
              inbox'[i] = retained[k] /\ inbox'[i].type = k
  <1>. DEFINE s == retained.status
              c == retained.config
  <1>1. s \in StatusMessage \cup {None} /\ c \in ConfigMessage \cup {None}
    BY DEF Messages
  <1>2. (s # None => s.type = "status") /\ (c # None => c.type = "config")
    BY <1>1 DEF StatusMessage, ConfigMessage
  <1>3. inbox' = (IF s = None THEN <<>> ELSE <<s>>) \o (IF c = None THEN <<>> ELSE <<c>>)
    BY DEF Subscribed, Kept
  <1>. HIDE DEF s, c
  <1>4. /\ s # None /\ c # None => DOMAIN inbox' = {1, 2} /\ inbox'[1] = s /\ inbox'[2] = c
        /\ s # None /\ c = None => DOMAIN inbox' = {1} /\ inbox'[1] = s
        /\ s = None /\ c # None => DOMAIN inbox' = {1} /\ inbox'[1] = c
        /\ s = None /\ c = None => DOMAIN inbox' = {}
    BY <1>3
  <1>5. s = retained["status"] /\ c = retained["config"]
    BY DEF s, c
  <1>6. (s # None => InQueue("status")') /\ (c # None => InQueue("config")')
    BY <1>2, <1>4 DEF InQueue
  <1>. QED  BY <1>2, <1>4, <1>5, <1>6

LEMMA BehindStep ==
  ASSUME Types, Behind, Next PROVE Behind'
<1>0. Messages
  BY DEF Types
<1>1. CASE Device
  BY <1>1, DeviceStep DEF Announced
<1>2. CASE UNCHANGED <<device, retained, inbox>>
  BY <1>2 DEF Behind, Latest, Truthful, Connected
<1>3. CASE UNCHANGED <<device, retained>> /\ inbox' = <<>>
  BY <1>3 DEF Behind, Latest, Truthful, Connected
<1>4. CASE BridgeUp
  <2>1. UNCHANGED <<device, retained>> /\ inbox' = Subscribed
    BY <1>4 DEF BridgeUp
  <2>2. \A i \in DOMAIN inbox' : \E k \in {"status", "config"} :
          inbox'[i] = retained[k] /\ inbox'[i].type = k
    BY <1>0, <2>1, SubscribedFacts
  <2>3. Latest'
    BY <2>1, <2>2 DEF Latest
  <2>. QED  BY <2>1, <2>3 DEF Behind, Truthful, Connected
<1>5. CASE HandleStatus \/ HandleConfig \/ HandleScan
  BY <1>0, <1>5, TakeBehind DEF HandleStatus, HandleConfig, HandleScan, Elsewhere
<1>6. CASE Fails
  BY <1>0, <1>2, <1>6, TakeBehind DEF Fails, Elsewhere
<1>7. CASE BridgeDown
  BY <1>3, <1>7 DEF BridgeDown
<1>8. CASE \/ Tick \/ SaveConfig \/ SaveBand \/ ConfigEnds \/ SeenScan \/ StoreScan
           \/ Regenerate \/ EditRead \/ RestSave \/ PostScan \/ DeleteScanner
           \/ (\E b \in Bands : PostRead(b)) \/ (\E b \in Bands : EditBand(b))
  <2>. UNCHANGED <<device, retained, inbox>>
    BY <1>8 DEF Tick, SaveConfig, SaveBand, ConfigEnds, SeenScan, StoreScan, Elsewhere, Aside,
       Regenerate, EditRead, RestSave, PostScan, DeleteScanner, PostRead, EditBand
  <2>. QED  BY <1>2
<1>. QED  BY NextCases, <1>1, <1>3, <1>4, <1>5, <1>6, <1>7, <1>8

\* The handler and the ghosts, field by field
GhostType == [token : 0..MaxEvents, enabled : BOOLEAN, lost : SUBSET {"token", "enabled"},
              status : BOOLEAN, bands : BOOLEAN, unstored : SUBSET Bands]

LEMMA GhostFields ==
  ASSUME NEW g \in GhostType
  PROVE  /\ \A x : [g EXCEPT !.status = x].status = x /\ [g EXCEPT !.status = x].bands = g.bands
         /\ \A x : [g EXCEPT !.bands = x].bands = x /\ [g EXCEPT !.bands = x].status = g.status
         /\ \A x, y : LET h == [g EXCEPT !.bands = x, !.status = y] IN h.bands = x /\ h.status = y
         /\ \A x : [g EXCEPT !.lost = x].status = g.status /\ [g EXCEPT !.lost = x].bands = g.bands
         /\ \A x : [g EXCEPT !.unstored = x].status = g.status /\ [g EXCEPT !.unstored = x].bands = g.bands
         /\ \A x, y : LET h == [g EXCEPT !.token = x, !.lost = y]
                      IN  h.status = g.status /\ h.bands = g.bands
         /\ \A x, y, z : LET h == [g EXCEPT !.token = x, !.enabled = y, !.lost = z]
                         IN  h.status = g.status /\ h.bands = g.bands
         /\ \A x, y, z : LET h == [g EXCEPT !.enabled = x, !.lost = y, !.status = z]
                         IN  h.status = z /\ h.bands = g.bands
         /\ \A x, y, z : LET h == [g EXCEPT !.status = x, !.bands = y, !.unstored = z]
                         IN  h.status = x /\ h.bands = y
  BY DEF GhostType

BridgeType == [up : BOOLEAN, at : {"idle", "config", "bands", "seen", "store"},
               read : Row \cup {None}, todo : SUBSET (Bands \X Ranges),
               band : Bands \cup {None}, began : 0..MaxTime, run : 0..MaxEvents]

LEMMA WaitingFields ==
  ASSUME bridge \in BridgeType
  PROVE  /\ Waiting.at = "idle" /\ Waiting.todo = {} /\ Waiting.up = bridge.up
         /\ \A u : LET w == [Waiting EXCEPT !.up = u] IN w.at = "idle" /\ w.todo = {} /\ w.up = u
         /\ \A u, n : LET w == [Waiting EXCEPT !.up = u, !.run = n]
                      IN  w.at = "idle" /\ w.todo = {} /\ w.up = u
  BY DEF Waiting, BridgeType

\* What a step of a handler, a request or the admin changes of what is mirrored
LEMMA TypesOf ==
  ASSUME Types
  PROVE  /\ ghost \in GhostType /\ bridge \in BridgeType /\ Messages
         /\ ghost.status \in BOOLEAN /\ ghost.bands \in BOOLEAN
         /\ bridge.up \/ (bridge.at = "idle" /\ inbox = <<>>)
  BY DEF Types, Ghosts, Handler, GhostType, BridgeType

LEMMA StatusEffect ==
  ASSUME Types, HandleStatus
  PROVE  /\ UNCHANGED <<device, retained, bridge, bands>> /\ Arrived("status") /\ Take
         /\ row' = IF row = None THEN None ELSE WithStatus(row, Head(inbox))
         /\ (ghost'.status <=> row = None) /\ ghost'.bands = ghost.bands
  <1>. DEFINE x == row = None
  <1>1. /\ UNCHANGED <<device, retained, bridge, bands>> /\ Arrived("status") /\ Take
        /\ row' = IF row = None THEN None ELSE WithStatus(row, Head(inbox))
        /\ ghost' = [ghost EXCEPT !.status = x]
    BY DEF HandleStatus, Elsewhere
  <1>2. ghost \in GhostType
    BY TypesOf
  <1>. HIDE DEF x
  <1>3. ghost'.status = x /\ ghost'.bands = ghost.bands
    BY <1>1, <1>2, GhostFields
  <1>. QED  BY <1>1, <1>3 DEF x

LEMMA ConfigEffect ==
  ASSUME Types, HandleConfig
  PROVE  /\ UNCHANGED <<device, retained, row, bands>> /\ Arrived("config") /\ Take
         /\ \/ row = None /\ UNCHANGED <<bridge, ghost>>
            \/ /\ row # None /\ bridge'.at = "config" /\ bridge'.up = bridge.up
               /\ bridge'.read = [row EXCEPT !.online = TRUE]
               /\ bridge'.todo = {<<b, Head(inbox).layout[b]>> : b \in DOMAIN Head(inbox).layout}
               /\ ghost'.bands = FALSE /\ (ghost'.status <=> ghost.status \/ ~device.online)
  <1>. DEFINE x == ghost.status \/ ~device.online
              r == [row EXCEPT !.online = TRUE]
              t == {<<b, Head(inbox).layout[b]>> : b \in DOMAIN Head(inbox).layout}
  <1>1. UNCHANGED <<device, retained, row, bands>> /\ Arrived("config") /\ Take
    BY DEF HandleConfig, Elsewhere, tables
  <1>2. CASE row = None
    BY <1>1, <1>2 DEF HandleConfig
  <1>3. CASE row # None
    <2>1. /\ bridge' = [bridge EXCEPT !.at = "config", !.read = r, !.todo = t]
          /\ ghost' = [ghost EXCEPT !.bands = FALSE, !.status = x]
      BY <1>3 DEF HandleConfig
    <2>2. ghost \in GhostType /\ bridge \in BridgeType
      BY TypesOf
    <2>. HIDE DEF x, r, t
    <2>3. ghost'.status = x /\ ghost'.bands = FALSE
      BY <2>1, <2>2, GhostFields
    <2>4. bridge'.at = "config" /\ bridge'.read = r /\ bridge'.todo = t /\ bridge'.up = bridge.up
      BY <2>1, <2>2 DEF BridgeType
    <2>. QED  BY <1>1, <1>3, <2>3, <2>4 DEF x, r, t
  <1>. QED  BY <1>2, <1>3

LEMMA SaveConfigEffect ==
  ASSUME Types, SaveConfig
  PROVE  /\ UNCHANGED <<device, retained, inbox, bands>> /\ bridge.at = "config" /\ row' = bridge.read
         /\ bridge'.at = "bands" /\ bridge'.up = bridge.up /\ bridge'.todo = bridge.todo
         /\ ghost'.status = ghost.status /\ ghost'.bands = ghost.bands
  <1>1. /\ UNCHANGED <<device, retained, inbox, bands>> /\ bridge.at = "config" /\ row' = bridge.read
        /\ bridge' = [bridge EXCEPT !.at = "bands", !.read = None]
        /\ \E l : ghost' = [ghost EXCEPT !.lost = l]
    BY DEF SaveConfig, Elsewhere
  <1>2. bridge \in BridgeType /\ ghost \in GhostType
    BY TypesOf
  <1>3. bridge'.at = "bands" /\ bridge'.up = bridge.up /\ bridge'.todo = bridge.todo
    BY <1>1, <1>2 DEF BridgeType
  <1>4. ghost'.status = ghost.status /\ ghost'.bands = ghost.bands
    BY <1>1, <1>2, GhostFields
  <1>. QED  BY <1>1, <1>3, <1>4

LEMMA SaveBandEffect ==
  ASSUME Types, SaveBand
  PROVE  /\ UNCHANGED <<device, retained, inbox, row, ghost>> /\ bridge.at = "bands"
         /\ bridge'.at = "bands" /\ bridge'.up = bridge.up
         /\ \E t \in bridge.todo : /\ bands' = Put(bands, t[1], t[2])
                                   /\ bridge'.todo = bridge.todo \ {t}
  <1>1. UNCHANGED <<device, retained, inbox, row, ghost>> /\ bridge.at = "bands"
    BY DEF SaveBand, Elsewhere
  <1>2. PICK t \in bridge.todo : /\ bands' = Put(bands, t[1], t[2])
                                /\ bridge' = [bridge EXCEPT !.todo = bridge.todo \ {t}]
    BY DEF SaveBand, UpdateOrCreateBand
  <1>3. bridge \in BridgeType
    BY TypesOf
  <1>4. bridge'.at = "bands" /\ bridge'.up = bridge.up /\ bridge'.todo = bridge.todo \ {t}
    BY <1>1, <1>2, <1>3 DEF BridgeType
  <1>. QED  BY <1>1, <1>2, <1>4

LEMMA DownEffect ==
  ASSUME Types, BridgeDown
  PROVE  /\ UNCHANGED <<device, retained, row, bands, ghost>>
         /\ bridge'.at = "idle" /\ bridge'.todo = {} /\ bridge'.up = FALSE
  <1>. DEFINE n == Waiting.run + 1
  <1>1. /\ UNCHANGED <<device, retained, row, bands, ghost>>
        /\ \/ bridge' = [Waiting EXCEPT !.up = FALSE]
           \/ bridge' = [Waiting EXCEPT !.up = FALSE, !.run = n]
    BY DEF BridgeDown, tables
  <1>2. bridge \in BridgeType
    BY TypesOf
  <1>. HIDE DEF n
  <1>3. CASE bridge' = [Waiting EXCEPT !.up = FALSE]
    BY <1>1, <1>2, <1>3 DEF Waiting, BridgeType
  <1>4. CASE bridge' = [Waiting EXCEPT !.up = FALSE, !.run = n]
    BY <1>1, <1>2, <1>4 DEF Waiting, BridgeType
  <1>. QED  BY <1>1, <1>3, <1>4

LEMMA HandleScanEffect ==
  ASSUME Types, HandleScan
  PROVE  /\ UNCHANGED <<device, retained, row, bands>> /\ Arrived("scan") /\ Take
         /\ ghost'.bands = ghost.bands
         /\ \/ UNCHANGED bridge /\ ghost'.status = ghost.status
            \/ /\ row # None /\ (ghost'.status <=> ghost.status \/ ~device.online)
               /\ bridge'.at = "seen" /\ bridge'.up = bridge.up /\ bridge'.todo = bridge.todo
               /\ bridge'.read.online = TRUE
  <1>. DEFINE z == ghost.status \/ ~device.online
  <1>1. UNCHANGED <<device, retained, row, bands>> /\ Arrived("scan") /\ Take
    BY DEF HandleScan, Elsewhere, tables
  <1>2. \/ UNCHANGED <<bridge, ghost>>
        \/ UNCHANGED bridge /\ \E x : ghost' = [ghost EXCEPT !.unstored = x]
        \/ /\ ghost' = [ghost EXCEPT !.status = z] /\ row # None
           /\ \E b : bridge' = [bridge EXCEPT !.at = "seen", !.read = [row EXCEPT !.online = TRUE],
                                             !.band = b, !.began = now]
    BY DEF HandleScan
  <1>3. bridge \in BridgeType /\ ghost \in GhostType
    BY TypesOf
  <1>. HIDE DEF z
  <1>4. ASSUME NEW x, ghost' = [ghost EXCEPT !.unstored = x]
        PROVE  ghost'.status = ghost.status /\ ghost'.bands = ghost.bands
    BY <1>3, <1>4, GhostFields
  <1>6. ghost' = [ghost EXCEPT !.status = z] => ghost'.status = z /\ ghost'.bands = ghost.bands
    BY <1>3, GhostFields
  <1>5. ASSUME row # None, NEW b,
               bridge' = [bridge EXCEPT !.at = "seen", !.read = [row EXCEPT !.online = TRUE],
                                        !.band = b, !.began = now]
        PROVE  /\ bridge'.at = "seen" /\ bridge'.up = bridge.up /\ bridge'.todo = bridge.todo
               /\ bridge'.read.online = TRUE
    <2>1. row \in Row
      BY <1>5 DEF Types, Tables
    <2>. DEFINE r == [row EXCEPT !.online = TRUE]
    <2>2. r.online = TRUE
      BY <2>1, RowKept
    <2>. HIDE DEF r
    <2>3. /\ bridge'.at = "seen" /\ bridge'.up = bridge.up /\ bridge'.todo = bridge.todo
          /\ bridge'.read = r
      BY <1>3, <1>5 DEF BridgeType, r
    <2>. QED  BY <2>2, <2>3
  <1>. QED  BY <1>1, <1>2, <1>4, <1>5, <1>6 DEF z

LEMMA SeenEffect ==
  ASSUME Types, SeenScan
  PROVE  /\ UNCHANGED <<device, retained, inbox, bands, ghost>> /\ bridge.at = "seen" /\ row # None
         /\ row' = [row EXCEPT !.online = bridge.read.online]
         /\ bridge'.at = "store" /\ bridge'.up = bridge.up /\ bridge'.todo = bridge.todo
  <1>1. /\ UNCHANGED <<device, retained, inbox, bands, ghost>> /\ bridge.at = "seen" /\ row # None
        /\ row' = [row EXCEPT !.online = bridge.read.online]
        /\ bridge' = [bridge EXCEPT !.at = "store"]
    BY DEF SeenScan, SeenFields, Elsewhere
  <1>2. bridge \in BridgeType
    BY TypesOf
  <1>. QED  BY <1>1, <1>2 DEF BridgeType

\* The handlers that end
LEMMA EndEffect ==
  ASSUME Types, ConfigEnds \/ StoreScan \/ Fails
  PROVE  /\ UNCHANGED <<device, retained, row, bands>>
         /\ bridge'.at = "idle" /\ bridge'.todo = {} /\ bridge'.up = bridge.up
         /\ \/ /\ UNCHANGED inbox /\ ghost'.status = ghost.status
               /\ \/ ghost'.bands = TRUE
                  \/ ghost'.bands = ghost.bands /\ (bridge.at \in {"seen", "store"} \/ bridge.todo = {})
            \/ /\ Arrived("status") /\ Take /\ ghost'.status = TRUE /\ ghost'.bands = ghost.bands
  <1>0. bridge \in BridgeType /\ ghost \in GhostType
    BY TypesOf
  <1>1. /\ UNCHANGED <<device, retained, row, bands>> /\ bridge' = Waiting
    BY DEF ConfigEnds, StoreScan, Fails, Elsewhere, tables
  <1>2. bridge'.at = "idle" /\ bridge'.todo = {} /\ bridge'.up = bridge.up
    BY <1>0, <1>1, WaitingFields
  <1>3. \/ /\ UNCHANGED inbox
           /\ \/ UNCHANGED ghost /\ bridge.todo = {}
              \/ bridge.at \in {"seen", "store"} /\ \E x : ghost' = [ghost EXCEPT !.unstored = x]
              \/ ghost' = [ghost EXCEPT !.bands = TRUE]
        \/ Arrived("status") /\ Take /\ ghost' = [ghost EXCEPT !.status = TRUE]
    BY DEF ConfigEnds, StoreScan, Fails
  <1>4. ASSUME NEW x, ghost' = [ghost EXCEPT !.unstored = x]
        PROVE  ghost'.status = ghost.status /\ ghost'.bands = ghost.bands
    BY <1>0, <1>4, GhostFields
  <1>5. ghost' = [ghost EXCEPT !.bands = TRUE] => ghost'.bands = TRUE /\ ghost'.status = ghost.status
    BY <1>0, GhostFields
  <1>6. ghost' = [ghost EXCEPT !.status = TRUE] => ghost'.status = TRUE /\ ghost'.bands = ghost.bands
    BY <1>0, GhostFields
  <1>. QED  BY <1>1, <1>2, <1>3, <1>4, <1>5, <1>6

\* A request or the admin
LEMMA RequestEffect ==
  ASSUME Types, \/ Regenerate \/ EditRead \/ RestSave \/ PostScan \/ DeleteScanner
                \/ (\E b \in Bands : PostRead(b)) \/ (\E b \in Bands : EditBand(b))
  PROVE  /\ UNCHANGED <<device, retained, inbox, bridge>>
         /\ ghost'.bands = TRUE \/ (ghost'.bands = ghost.bands /\ UNCHANGED bands)
         /\ ghost'.bands = ghost.bands \/ ghost'.bands = TRUE
         /\ \/ ghost'.status = TRUE
            \/ /\ ghost'.status = ghost.status
               /\ \/ row = None \/ row' = row
                  \/ /\ row'.online = row.online /\ row'.scanning = row.scanning
                     /\ row'.band = row.band
         /\ row' # None \/ UNCHANGED <<row, ghost>> \/ (ghost'.status = TRUE /\ ghost'.bands = TRUE)
            \/ (row = None /\ ghost'.status = ghost.status /\ ghost'.bands = ghost.bands)
  <1>0. /\ bridge \in BridgeType /\ ghost \in GhostType /\ ghost.status \in BOOLEAN
        /\ row \in Row \cup {None}
    BY TypesOf DEF Types, Tables
  <1>1. CASE Regenerate
    <2>1. /\ UNCHANGED <<device, retained, inbox, bridge, bands>> /\ row # None
          /\ row' = [row EXCEPT !.token = ghost.token + 1]
          /\ \E x, y : ghost' = [ghost EXCEPT !.token = x, !.lost = y]
      BY <1>1 DEF Regenerate, Aside
    <2>2. /\ row'.online = row.online /\ row'.scanning = row.scanning /\ row'.band = row.band
          /\ row' # None
      <3>1. row \in Row
        BY <1>0, <2>1
      <3>2. row'.online = row.online /\ row'.scanning = row.scanning /\ row'.band = row.band
        BY <2>1, <3>1 DEF Row
      <3>3. ghost.token + 1 \in 0..MaxEvents
        BY <1>1 DEF Regenerate, Event, Types, Ghosts, Clock
      <3>4. row' \in Row
        BY <2>1, <3>1, <3>3, RowKept
      <3>. QED  BY <3>2, <3>4
    <2>. QED  BY <1>0, <2>1, <2>2, GhostFields
  <1>2. CASE EditRead
    BY <1>2 DEF EditRead, Aside, tables
  <1>3. CASE RestSave
    <2>. DEFINE fields == {"online", "scanning", "band"}
                x == ghost.status \/ row = None \/ \E f \in fields : rest.row[f] # row[f]
    <2>1. /\ UNCHANGED <<device, retained, inbox, bridge, bands>> /\ row' = rest.row
          /\ \E a, b : ghost' = [ghost EXCEPT !.enabled = a, !.lost = b, !.status = x]
      BY <1>3 DEF RestSave, Aside
    <2>2. row' # None
      BY <1>3, <2>1 DEF RestSave, Types, Requests
    <2>3. x \in BOOLEAN
      OBVIOUS
    <2>4. ~x => /\ ghost.status = FALSE /\ row'["online"] = row["online"]
                /\ row'["scanning"] = row["scanning"] /\ row'["band"] = row["band"]
      BY <1>0, <2>1
    <2>. HIDE DEF x
    <2>5. ghost'.status = x /\ ghost'.bands = ghost.bands
      BY <1>0, <2>1, GhostFields
    <2>. QED  BY <2>1, <2>2, <2>3, <2>4, <2>5
  <1>4. CASE PostScan
    BY <1>4 DEF PostScan, Aside
  <1>5. CASE DeleteScanner
    <2>1. /\ UNCHANGED <<device, retained, inbox, bridge>>
          /\ \E x : ghost' = [ghost EXCEPT !.status = TRUE, !.bands = TRUE, !.unstored = x]
      BY <1>5 DEF DeleteScanner, Aside
    <2>. QED  BY <1>0, <2>1, GhostFields
  <1>6. ASSUME NEW b \in Bands, PostRead(b)
        PROVE  /\ UNCHANGED <<device, retained, inbox, bridge, bands>>
               /\ ghost'.status = ghost.status /\ ghost'.bands = ghost.bands
               /\ row = None \/ row' = row
    <2>1. /\ UNCHANGED <<device, retained, inbox, bridge, bands>>
          /\ row # None => UNCHANGED <<row, ghost>>
          /\ row = None => \E x, y, z : ghost' = [ghost EXCEPT !.token = x, !.enabled = y, !.lost = z]
      BY <1>6 DEF PostRead, Aside
    <2>2. ASSUME NEW x, NEW y, NEW z, ghost' = [ghost EXCEPT !.token = x, !.enabled = y, !.lost = z]
          PROVE  ghost'.status = ghost.status /\ ghost'.bands = ghost.bands
      BY <1>0, <2>2, GhostFields
    <2>. QED  BY <2>1, <2>2
  <1>7. ASSUME NEW b \in Bands, EditBand(b)
        PROVE  /\ UNCHANGED <<device, retained, inbox, bridge, row>>
               /\ ghost'.status = ghost.status /\ ghost'.bands = TRUE
    <2>1. UNCHANGED <<device, retained, inbox, bridge, row>> /\ ghost' = [ghost EXCEPT !.bands = TRUE]
      BY <1>7 DEF EditBand, Aside
    <2>. QED  BY <1>0, <2>1, GhostFields
  <1>8. ASSUME NEW b \in Bands, EditBand(b) PROVE b \in DOMAIN bands
    BY <1>8 DEF EditBand
  <1>9. row = None => DOMAIN bands = {}
    BY EmptyFunction DEF Types, Tables
  <1>. QED  BY <1>1, <1>2, <1>3, <1>4, <1>5, <1>6, <1>7, <1>8, <1>9

LEMMA StepGone ==
  ASSUME Types, Gone, Next PROVE Gone'
<1>0. ghost.status \in BOOLEAN /\ ghost.bands \in BOOLEAN /\ row \in Row \cup {None}
  BY TypesOf DEF Types, Tables
<1>1. CASE UNCHANGED <<row, ghost>>
  BY <1>1 DEF Gone
<1>2. CASE UNCHANGED row /\ ghost'.status = ghost.status /\ ghost'.bands = ghost.bands
  BY <1>2 DEF Gone
<1>3. CASE HandleStatus
  <2>1. row' = None => row = None
    <3>1. row # None => WithStatus(row, Head(inbox)) # None
      BY <1>0, <1>3, StatusEffect, Taking, StatusType, RowKept, TypesOf
    <3>. QED  BY <1>3, <3>1, StatusEffect
  <2>. QED  BY <1>0, <1>3, <2>1, StatusEffect DEF Gone
<1>4. CASE HandleConfig
  BY <1>0, <1>4, ConfigEffect DEF Gone
<1>5. CASE SaveConfig
  BY <1>0, <1>5, SaveConfigEffect DEF Gone, Types, Handler
<1>6. CASE SaveBand
  BY <1>1, <1>6, SaveBandEffect
<1>7. CASE HandleScan
  BY <1>7, HandleScanEffect DEF Gone
<1>8. CASE SeenScan
  <2>1. row' = [row EXCEPT !.online = bridge.read.online] /\ row # None /\ UNCHANGED ghost
    BY <1>8, SeenEffect
  <2>2. bridge.read.online \in BOOLEAN /\ row \in Row
    BY <1>0, <1>8, <2>1, SeenEffect DEF Types, Handler, Row
  <2>. QED  BY <2>1, <2>2, RowKept DEF Gone
<1>9. CASE ConfigEnds \/ StoreScan \/ Fails
  BY <1>0, <1>9, EndEffect DEF Gone
<1>10. CASE \/ Regenerate \/ EditRead \/ RestSave \/ PostScan \/ DeleteScanner
            \/ (\E b \in Bands : PostRead(b)) \/ (\E b \in Bands : EditBand(b))
  BY <1>0, <1>10, RequestEffect DEF Gone
<1>11. CASE Device \/ BridgeDown \/ BridgeUp \/ Tick
  <2>1. UNCHANGED <<row, ghost>>
    BY <1>11, DeviceFrame DEF BridgeDown, BridgeUp, Tick, tables
  <2>. QED  BY <1>1, <2>1
<1>. QED  BY NextCases, <1>3, <1>4, <1>5, <1>6, <1>7, <1>8, <1>9, <1>10, <1>11

\* A step that leaves the scanner, the connection and the statuses on their way
LEMMA SameStatus ==
  ASSUME StatusSettled, UNCHANGED <<device, retained>>, bridge'.up = bridge.up,
         InQueue("status") => InQueue("status")',
         \/ bridge'.at \in {"idle", "bands"}
         \/ bridge'.at = bridge.at /\ bridge'.read = bridge.read,
         \/ ghost'.status = TRUE
         \/ ghost'.status = ghost.status /\ (Shows(row) => Shows(row)')
  PROVE  StatusSettled'
  <1>1. CASE bridge'.at \in {"idle", "bands"}
    BY <1>1 DEF StatusSettled
  <1>2. CASE bridge'.at = bridge.at /\ bridge'.read = bridge.read
    BY <1>2 DEF StatusSettled, Shows
  <1>. QED  BY <1>1, <1>2

LEMMA StepStatus ==
  ASSUME Types, Behind, Gone, StatusSettled, Next PROVE StatusSettled'
<1>0. /\ ghost.status \in BOOLEAN /\ row \in Row \cup {None} /\ device.online \in BOOLEAN
      /\ Messages /\ bridge \in BridgeType
  BY TypesOf DEF Types, Tables, Messages, DeviceType
<1>1. CASE Device
  <2>1. Announced
    BY <1>1, DeviceStep
  <2>2. CASE ~bridge.up
    BY <1>0, <2>1, <2>2, TypesOf DEF StatusSettled, Announced
  <2>3. CASE bridge.up /\ InQueue("status")'
    BY <2>1, <2>3 DEF StatusSettled, Announced
  <2>4. CASE /\ bridge.up /\ SameStatusSaid /\ retained'.status = retained.status
             /\ InQueue("status") => InQueue("status")'
    BY <2>1, <2>4 DEF StatusSettled, Announced, Shows, SameStatusSaid
  <2>. QED  BY <2>1, <2>2, <2>3, <2>4 DEF Announced
<1>2. CASE BridgeDown
  <2>1. bridge'.up = FALSE /\ bridge'.at = "idle"
    BY <1>2, DownEffect
  <2>. QED  BY <2>1 DEF StatusSettled
<1>3. CASE BridgeUp
  <2>1. UNCHANGED retained /\ inbox' = Subscribed /\ bridge'.at = "idle"
    BY <1>0, <1>3, WaitingFields DEF BridgeUp
  <2>2. retained["status"] # None => InQueue("status")'
    BY <1>0, <2>1, SubscribedFacts
  <2>. QED  BY <2>1, <2>2 DEF StatusSettled
<1>4. CASE HandleStatus
  <2>1. /\ UNCHANGED <<device, retained, bridge>> /\ bridge.at = "idle"
        /\ row' = IF row = None THEN None ELSE WithStatus(row, Head(inbox))
        /\ (ghost'.status <=> row = None)
    BY <1>4, StatusEffect DEF Arrived
  <2>2. ASSUME row # None, ~InQueue("status")', retained.status # None PROVE Shows(row)'
    <3>1. Head(inbox) = retained["status"]
      BY <1>0, <1>4, <2>2, StatusEffect, TakenLast DEF Behind
    <3>2. Head(inbox) = Status(device.online, device.scanning, device.band)
      BY <2>2, <3>1 DEF Behind, Truthful
    <3>3. row \in Row /\ row' = WithStatus(row, Head(inbox))
      BY <1>0, <2>1, <2>2
    <3>4. /\ Head(inbox).online = device.online /\ Head(inbox).scanning = device.scanning
          /\ Head(inbox).band = device.band
      BY <3>2 DEF Status
    <3>5. row'.online = device.online /\ row'.scanning = device.scanning /\ row'.band = device.band
      BY <3>3, <3>4 DEF WithStatus, Row
    <3>. QED  BY <2>1, <3>5 DEF Shows
  <2>. QED  BY <2>1, <2>2 DEF StatusSettled
<1>5. CASE HandleConfig
  <2>1. UNCHANGED <<device, retained, row>> /\ (InQueue("status")' <=> InQueue("status"))
    BY <1>0, <1>5, ConfigEffect, Taken
  <2>2. CASE UNCHANGED <<bridge, ghost>>
    BY <2>1, <2>2, SameStatus DEF Shows
  <2>3. CASE /\ row # None /\ bridge'.at = "config" /\ bridge'.up = bridge.up
             /\ bridge'.read = [row EXCEPT !.online = TRUE]
             /\ (ghost'.status <=> ghost.status \/ ~device.online)
    <3>1. row \in Row
      BY <1>0, <2>3
    <3>2. bridge'.read.online = TRUE /\ bridge'.read.scanning = row.scanning /\ bridge'.read.band = row.band
      BY <2>3, <3>1 DEF Row
    <3>. QED  BY <1>0, <2>1, <2>3, <3>2 DEF StatusSettled, Shows
  <2>. QED  BY <1>5, <2>2, <2>3, ConfigEffect
<1>6. CASE SaveConfig
  <2>1. /\ UNCHANGED <<device, retained, inbox>> /\ bridge.at = "config" /\ row' = bridge.read
        /\ bridge'.at = "bands" /\ bridge'.up = bridge.up /\ ghost'.status = ghost.status
    BY <1>6, SaveConfigEffect
  <2>2. InQueue("status")' <=> InQueue("status")
    BY <2>1 DEF InQueue
  <2>. QED  BY <2>1, <2>2 DEF StatusSettled, Shows
<1>7. CASE SaveBand
  <2>1. /\ UNCHANGED <<device, retained, inbox, row, ghost>> /\ bridge'.at = "bands"
        /\ bridge'.up = bridge.up
    BY <1>7, SaveBandEffect
  <2>. QED  BY <2>1, SameStatus DEF Shows, InQueue
<1>8. CASE HandleScan
  <2>1. UNCHANGED <<device, retained, row>> /\ (InQueue("status")' <=> InQueue("status"))
    BY <1>0, <1>8, HandleScanEffect, Taken
  <2>2. CASE UNCHANGED bridge /\ ghost'.status = ghost.status
    BY <2>1, <2>2, SameStatus DEF Shows
  <2>3. CASE /\ ghost'.status <=> ghost.status \/ ~device.online
             /\ bridge'.at = "seen" /\ bridge'.up = bridge.up /\ bridge'.read.online = TRUE
    BY <2>1, <2>3 DEF StatusSettled, Shows
  <2>. QED  BY <1>8, <2>2, <2>3, HandleScanEffect
<1>9. CASE SeenScan
  <2>1. /\ UNCHANGED <<device, retained, inbox, ghost>> /\ bridge.at = "seen" /\ row # None
        /\ row' = [row EXCEPT !.online = bridge.read.online]
        /\ bridge'.at = "store" /\ bridge'.up = bridge.up
    BY <1>9, SeenEffect
  <2>2. row \in Row /\ (InQueue("status")' <=> InQueue("status"))
    BY <1>0, <2>1 DEF InQueue
  <2>3. bridge.read.online = TRUE
    BY <2>1 DEF StatusSettled
  <2>4. row'.online = TRUE /\ row'.scanning = row.scanning /\ row'.band = row.band
    BY <2>1, <2>2, <2>3 DEF Row
  <2>. QED  BY <1>0, <2>1, <2>2, <2>4 DEF StatusSettled, Shows
<1>10. CASE ConfigEnds \/ StoreScan \/ Fails
  <2>1. UNCHANGED <<device, retained, row>> /\ bridge'.at = "idle" /\ bridge'.up = bridge.up
    BY <1>10, EndEffect
  <2>2. CASE UNCHANGED inbox /\ ghost'.status = ghost.status
    BY <2>1, <2>2, SameStatus DEF Shows, InQueue
  <2>3. CASE ghost'.status = TRUE
    BY <2>1, <2>3 DEF StatusSettled
  <2>. QED  BY <1>10, <2>2, <2>3, EndEffect
<1>11. CASE \/ Regenerate \/ EditRead \/ RestSave \/ PostScan \/ DeleteScanner
            \/ (\E b \in Bands : PostRead(b)) \/ (\E b \in Bands : EditBand(b))
  <2>1. UNCHANGED <<device, retained, inbox, bridge>> /\ (InQueue("status")' <=> InQueue("status"))
    BY <1>11, RequestEffect DEF InQueue
  <2>2. CASE ghost'.status = TRUE
    BY <2>1, <2>2, SameStatus
  <2>3. CASE ghost'.status = ghost.status /\ row = None
    BY <1>0, <2>1, <2>2, <2>3 DEF Gone
  <2>4. CASE /\ ghost'.status = ghost.status
             /\ \/ row' = row
                \/ /\ row'.online = row.online /\ row'.scanning = row.scanning
                   /\ row'.band = row.band
    <3>1. Shows(row) => Shows(row)'
      BY <2>1, <2>4 DEF Shows
    <3>. QED  BY <2>1, <2>4, <3>1, SameStatus
  <2>. QED  BY <1>11, <2>2, <2>3, <2>4, RequestEffect
<1>12. CASE Tick
  <2>1. UNCHANGED <<device, retained, inbox, bridge, row, ghost>>
    BY <1>12 DEF Tick, tables
  <2>. QED  BY <2>1, SameStatus DEF Shows, InQueue
<1>. QED  BY NextCases, <1>1, <1>2, <1>3, <1>4, <1>5, <1>6, <1>7, <1>8, <1>9, <1>10, <1>11, <1>12

\* A step that leaves the scanner, the connection, the bands, and the
\* configurations on their way
LEMMA SameBands ==
  ASSUME BandsSettled, UNCHANGED <<device, bands>>, bridge'.up = bridge.up,
         InQueue("config") => InQueue("config")',
         bridge'.todo = bridge.todo,
         bridge'.at \in {"config", "bands"} \/ bridge'.at = bridge.at \/ bridge.todo = {},
         ghost'.bands = TRUE \/ ghost'.bands = ghost.bands
  PROVE  BandsSettled'
  BY DEF BandsSettled, Connected

LEMMA StepBands ==
  ASSUME Types, Behind, Gone, BandsSettled, Next PROVE BandsSettled'
<1>0. /\ ghost.bands \in BOOLEAN /\ Messages /\ bridge \in BridgeType
      /\ bridge.at \notin {"config", "bands"} => bridge.todo = {}
  BY TypesOf DEF BandsSettled
<1>1. CASE Device
  <2>1. Announced
    BY <1>1, DeviceStep
  <2>2. CASE ~bridge.up
    BY <1>0, <2>1, <2>2, TypesOf DEF BandsSettled, Announced
  <2>3. CASE bridge.up /\ (InQueue("config")' \/ device'.link = "down")
    BY <2>1, <2>3 DEF BandsSettled, Announced, Connected
  <2>4. CASE /\ bridge.up /\ device.link # "down" /\ device'.layout = device.layout
             /\ InQueue("config") => InQueue("config")'
    BY <2>1, <2>4 DEF BandsSettled, Announced, Connected
  <2>. QED  BY <2>1, <2>2, <2>3, <2>4 DEF Announced
<1>2. CASE BridgeDown
  BY <1>2, DownEffect DEF BandsSettled
<1>3. CASE BridgeUp
  <2>1. /\ UNCHANGED <<device, retained>> /\ inbox' = Subscribed /\ bridge'.at = "idle"
        /\ bridge'.todo = {}
    BY <1>0, <1>3, WaitingFields DEF BridgeUp
  <2>2. ASSUME Connected PROVE InQueue("config")'
    <3>1. retained.config = Config(device.layout) /\ device.layout \in Layouts
      BY <1>0, <2>2 DEF Behind, Truthful, Messages, DeviceType
    <3>2. retained["config"] # None
      BY <3>1, NoMessage DEF Config
    <3>. QED  BY <1>0, <2>1, <3>2, SubscribedFacts
  <2>. QED  BY <2>1, <2>2 DEF BandsSettled, Connected
<1>4. CASE HandleStatus
  <2>1. /\ UNCHANGED <<device, bands, bridge>> /\ ghost'.bands = ghost.bands
        /\ (InQueue("config")' <=> InQueue("config"))
    BY <1>0, <1>4, StatusEffect, Taken
  <2>. QED  BY <2>1, SameBands
<1>5. CASE HandleConfig
  <2>1. UNCHANGED <<device, retained, row, bands>> /\ Arrived("config") /\ Take
    BY <1>5, ConfigEffect
  <2>2. CASE row = None /\ UNCHANGED <<bridge, ghost>>
    BY <2>1, <2>2 DEF BandsSettled, Gone, Arrived, Connected
  <2>3. CASE /\ bridge'.at = "config" /\ bridge'.up = bridge.up
             /\ bridge'.todo = {<<b, Head(inbox).layout[b]>> : b \in DOMAIN Head(inbox).layout}
    <3>1. ASSUME Connected, ~InQueue("config")' PROVE Head(inbox).layout = device.layout
      <4>1. Head(inbox) = retained["config"]
        BY <1>0, <2>1, <3>1, TakenLast DEF Behind
      <4>. QED  BY <3>1, <4>1 DEF Behind, Truthful, Config
    <3>. QED  BY <2>1, <2>3, <3>1 DEF BandsSettled, Connected
  <2>. QED  BY <1>5, <2>2, <2>3, ConfigEffect
<1>6. CASE SaveConfig
  <2>1. InQueue("config")' <=> InQueue("config")
    BY <1>6, SaveConfigEffect DEF InQueue
  <2>. QED  BY <1>6, <2>1, SaveConfigEffect, SameBands
<1>7. CASE SaveBand
  <2>1. /\ UNCHANGED <<device, retained, inbox, row, ghost>> /\ bridge'.at = "bands"
        /\ bridge'.up = bridge.up
    BY <1>7, SaveBandEffect
  <2>2. PICK t \in bridge.todo : bands' = Put(bands, t[1], t[2]) /\ bridge'.todo = bridge.todo \ {t}
    BY <1>7, SaveBandEffect
  <2>3. SUFFICES ASSUME bridge.up, Connected, ~ghost.bands, ~InQueue("config")
                 PROVE  /\ \A b \in DOMAIN device.layout :
                             \/ <<b, device.layout[b]>> \in bridge'.todo
                             \/ b \in DOMAIN bands' /\ bands'[b] = device.layout[b]
                        /\ \A u \in bridge'.todo :
                             \E b \in DOMAIN device.layout : u = <<b, device.layout[b]>>
    BY <2>1 DEF BandsSettled, InQueue, Connected
  <2>4. PICK c \in DOMAIN device.layout : t = <<c, device.layout[c]>>
    BY <2>2, <2>3 DEF BandsSettled
  <2>5. t[1] = c /\ t[2] = device.layout[c]
    BY <2>4
  <2>6. /\ DOMAIN bands' = DOMAIN bands \cup {c}
        /\ \A b \in DOMAIN bands' : bands'[b] = IF b = c THEN device.layout[c] ELSE bands[b]
    BY <2>2, <2>5 DEF Put
  <2>7. ASSUME NEW b \in DOMAIN device.layout
        PROVE  \/ <<b, device.layout[b]>> \in bridge'.todo
               \/ b \in DOMAIN bands' /\ bands'[b] = device.layout[b]
    <3>1. CASE b = c
      BY <2>6, <3>1
    <3>2. CASE b # c
      <4>1. <<b, device.layout[b]>> # t
        BY <2>5, <3>2
      <4>2. \/ <<b, device.layout[b]>> \in bridge.todo
            \/ b \in DOMAIN bands /\ bands[b] = device.layout[b]
        BY <2>3, <2>7 DEF BandsSettled
      <4>. QED  BY <2>2, <2>6, <3>2, <4>1, <4>2
    <3>. QED  BY <3>1, <3>2
  <2>8. \A u \in bridge'.todo : \E b \in DOMAIN device.layout : u = <<b, device.layout[b]>>
    BY <2>2, <2>3 DEF BandsSettled
  <2>. QED  BY <2>7, <2>8
<1>8. CASE HandleScan
  <2>1. /\ UNCHANGED <<device, bands>> /\ ghost'.bands = ghost.bands /\ bridge.at = "idle"
        /\ (InQueue("config")' <=> InQueue("config"))
        /\ bridge'.todo = bridge.todo /\ bridge'.up = bridge.up
    BY <1>0, <1>8, HandleScanEffect, Taken DEF Arrived
  <2>. QED  BY <1>0, <2>1, SameBands
<1>9. CASE SeenScan
  <2>1. InQueue("config")' <=> InQueue("config")
    BY <1>9, SeenEffect DEF InQueue
  <2>. QED  BY <1>0, <1>9, <2>1, SeenEffect, SameBands
<1>10. CASE ConfigEnds \/ StoreScan \/ Fails
  <2>1. /\ UNCHANGED <<device, bands>> /\ bridge'.at = "idle" /\ bridge'.todo = {}
        /\ bridge'.up = bridge.up
    BY <1>10, EndEffect
  <2>2. InQueue("config")' <=> InQueue("config")
    <3>1. UNCHANGED inbox \/ (Arrived("status") /\ Take)
      BY <1>10, EndEffect
    <3>2. CASE UNCHANGED inbox
      BY <3>2 DEF InQueue
    <3>3. CASE Arrived("status") /\ Take
      BY <1>0, <3>3, Taken
    <3>. QED  BY <3>1, <3>2, <3>3
  <2>3. ghost'.bands = TRUE \/ (ghost'.bands = ghost.bands /\ bridge.todo = {})
    BY <1>0, <1>10, EndEffect DEF Arrived
  <2>. QED  BY <2>1, <2>2, <2>3 DEF BandsSettled, Connected
<1>11. CASE \/ Regenerate \/ EditRead \/ RestSave \/ PostScan \/ DeleteScanner
            \/ (\E b \in Bands : PostRead(b)) \/ (\E b \in Bands : EditBand(b))
  <2>1. UNCHANGED <<device, inbox, bridge>> /\ (InQueue("config")' <=> InQueue("config"))
    BY <1>11, RequestEffect DEF InQueue
  <2>2. ghost'.bands = TRUE \/ (ghost'.bands = ghost.bands /\ UNCHANGED bands)
    BY <1>11, RequestEffect
  <2>. QED  BY <2>1, <2>2, SameBands DEF BandsSettled
<1>12. CASE Tick
  <2>1. UNCHANGED <<device, inbox, bridge, bands, ghost>>
    BY <1>12 DEF Tick, tables
  <2>. QED  BY <2>1, SameBands DEF InQueue
<1>. QED  BY NextCases, <1>1, <1>2, <1>3, <1>4, <1>5, <1>6, <1>7, <1>8, <1>9, <1>10, <1>11, <1>12

LEMMA InitMirror == Init => Mirror
  <1>. SUFFICES ASSUME Init PROVE Mirror
    OBVIOUS
  <1>1. Types
    BY InitIInv DEF IInv
  <1>2. PICK up \in BOOLEAN, running \in BOOLEAN :
          /\ device = [link |-> IF up THEN "up" ELSE "down", layout |-> FirstLayout,
                       online |-> up, scanning |-> up /\ running, band |-> None,
                       running |-> running, sweeps |-> {}]
          /\ retained = [status |-> IF up THEN Status(TRUE, running, None) ELSE None,
                         config |-> IF up THEN Config(FirstLayout) ELSE None]
    BY DEF Init
  <1>3. Truthful
    BY <1>2 DEF Truthful, Connected
  <1>4. Latest
    BY DEF Init, Latest
  <1>5. Gone
    <2>1. 0 \in 0..MaxEvents /\ None \notin Bands
      OBVIOUS
    <2>2. row \in Row
      BY <2>1 DEF Init, Row
    <2>. QED  BY <2>2, RowKept DEF Gone
  <1>6. StatusSettled /\ BandsSettled
    BY DEF Init, StatusSettled, BandsSettled
  <1>. QED  BY <1>1, <1>3, <1>4, <1>5, <1>6 DEF Mirror, Behind

LEMMA StutterMirror == ASSUME Mirror, UNCHANGED vars PROVE Mirror'
  <1>1. Types'
    BY DEF Mirror, Types, Clock, Messages, Handler, Tables, Requests, Ghosts, vars, tables
  <1>2. Behind' /\ Gone' /\ StatusSettled' /\ BandsSettled'
    BY DEF Mirror, Behind, Latest, Truthful, Connected, Gone, StatusSettled, BandsSettled, Shows,
       InQueue, vars, tables
  <1>. QED  BY <1>1, <1>2 DEF Mirror

-----------------------------------------------------------------------------
(* The theorems                                                            *)

LEMMA StutterIInv == ASSUME IInv, UNCHANGED vars PROVE IInv'
  BY DEF IInv, Types, Clock, Messages, Handler, Tables, Requests, Ghosts, EditsSurvive, Paced,
     ScansPaced, Partial, vars, tables

\* What a scanner's messages, requests, failures and the admin do to its tables
\* keeps the strengthened invariant, from which the rest follows.
THEOREM Invariant == Spec => []IInv
<1>1. Init => IInv
  BY InitIInv
<1>2. IInv /\ [Next]_vars => IInv'
  BY StepTypes, StepEdits, StepPaced, StutterIInv DEF IInv
<1>. QED  BY <1>1, <1>2, PTL DEF Spec

\* TypeOK of Bridge always holds: among others, no band and no scan outlives
\* the row of its scanner.
THEOREM TypesHold == Spec => []TypeOK
<1>1. IInv => TypeOK
  BY DEF IInv, Types, Messages, Handler, Tables, Requests, Ghosts, Clock, TypeOK, Partial, DeviceType
<1>. QED  BY <1>1, Invariant, PTL

\* EditsSurvive always holds: neither status nor scans undo what the admin did.
THEOREM Edits == Spec => []EditsSurvive
<1>1. IInv => EditsSurvive
  BY DEF IInv
<1>. QED  BY <1>1, Invariant, PTL

\* ScansPaced always holds: one scan of a band per interval and process, and
\* none held back but for one that was stored.
THEOREM Pace == Spec => []ScansPaced
<1>1. IInv => ScansPaced
  BY DEF IInv
<1>. QED  BY <1>1, Invariant, PTL

\* What is on its way, what is retained and what is written of a scanner always
\* agree, through disconnections, crashes and deleted rows.
THEOREM Mirrored == Spec => []Mirror
<1>1. Init => Mirror
  BY InitMirror
<1>2. Mirror /\ [Next]_vars => Mirror'
  BY StepTypes, BehindStep, StepGone, StepStatus, StepBands, StutterMirror DEF Mirror
<1>. QED  BY <1>1, <1>2, PTL DEF Spec

\* StatusMirrored always holds: a bridge that has taken all messages shows what
\* the scanner said of itself last.
THEOREM StatusIsMirrored == Spec => []StatusMirrored
<1>1. Mirror => StatusMirrored
  <2>. SUFFICES ASSUME Mirror, Quiet, ~ghost.status, retained["status"] # None
                PROVE  [online |-> row.online, scanning |-> row.scanning, band |-> row.band]
                         = [online |-> device.online, scanning |-> device.scanning, band |-> device.band]
    BY DEF StatusMirrored
  <2>1. ~InQueue("status")
    BY DEF Quiet, InQueue
  <2>. QED  BY <2>1 DEF Mirror, StatusSettled, Shows, Quiet
<1>. QED  BY <1>1, Mirrored, PTL

\* BandsMirrored always holds: and has the scanner's bands with its ranges.
THEOREM BandsAreMirrored == Spec => []BandsMirrored
<1>1. Mirror => BandsMirrored
  <2>. SUFFICES ASSUME Mirror, Quiet, Connected, ~ghost.bands
                PROVE  \A b \in DOMAIN device.layout : b \in DOMAIN bands /\ bands[b] = device.layout[b]
    BY DEF BandsMirrored
  <2>1. ~InQueue("config") /\ bridge.todo = {}
    BY DEF Quiet, InQueue, Mirror, BandsSettled
  <2>. QED  BY <2>1 DEF Mirror, BandsSettled, Quiet
<1>. QED  BY <1>1, Mirrored, PTL
=============================================================================
