------------------------------- MODULE DynSec -------------------------------
(***************************************************************************)
(* The broker's copy of the access rules (realtime/dynsec.py,              *)
(* realtime/signals.py): the clients and roles of Mosquitto's dynamic      *)
(* security plugin, and the three threads that bring them in line with the *)
(* database, one command at a time: the background executor of a server    *)
(* process, which takes the jobs the signal handlers dispatch; a request   *)
(* for MQTT credentials; and the periodic sync of the scheduler.           *)
(*                                                                         *)
(* The threads interleave between commands.  A transaction's jobs are      *)
(* dispatched before it commits, as m2m_changed and post_delete are sent   *)
(* inside it, and the admin wraps every form in one.                       *)
(***************************************************************************)
EXTENDS Access, Sequences, SequencesExt

CONSTANTS
  FirstGrants,   \* grants that may exist at the start
  FirstBaseline, \* whether Viewers holds view_scanner at the start
  MaxEvents      \* bound on changes of the rows, sign-ins and failed commands

Threads == {"exec", "web", "sched"}
\* exec and web are of one process and share its DynSecClient, whose lock is
\* held for a command; the scheduler makes a client for every sync.
Line(t) == IF t = "sched" THEN "sched" ELSE "server"

Role == ({"read", "rw", "device"} \X Scanners) \cup {<<"read-all">>, <<"staff-all">>}
Answer == [kind : {"ok", "exists", "data"}, roles : SUBSET Role]
Ok     == [kind |-> "ok", roles |-> {}]
Exists == [kind |-> "exists", roles |-> {}]

ASSUME DynSecAssumption ==
  /\ MaxEvents \in Nat /\ FirstBaseline \in BOOLEAN /\ FirstGrants \subseteq Grants
  /\ None \notin Answer

VARIABLES
  broker,  \* the plugin: clients, and the scanners it has roles for
  late,    \* per DynSecClient: the answer a command timed out on, or None
  queue,   \* jobs of the executor
  task,    \* per thread: what it has to sync, and how far it is
  txn,     \* an open transaction: the rows it will commit, its jobs; or None
  drift,   \* users and scanners a change or failure may have left behind
  calm,    \* since it began, a periodic sync had the broker to itself
  events

plumbing == <<late, queue, task, txn, drift, calm, events>>
vars == <<db, session, broker, plumbing>>

-----------------------------------------------------------------------------
(* What a user's client should hold                                        *)

\* compute_desired_roles and _add_grant_roles: rw replaces read
Desired(d, u, staff, grant, global) ==
  LET held == ActiveGrants(d, u)
                \cup (IF grant # None /\ IsValid(d, grant) THEN {grant} ELSE {})
      rw   == UNION {GrantScanners(d, g) : g \in {h \in held : GrantOf[h].permission = "rw"}}
      all  == UNION {GrantScanners(d, g) : g \in held}
  IN  IF staff THEN {<<"staff-all">>}
      ELSE IF global THEN {<<"read-all">>}
      ELSE ({"rw"} \X rw) \cup ({"read"} \X (all \ rw))
             \cup (IF grant = None /\ HasViewPerm(d, u) THEN {<<"read-all">>} ELSE {})

\* Mutant: a legacy link's session is a user's like any other
NoGlobalRead(x) == FALSE

\* mqtt_credentials: a readonly session without a grant reads everything.
GlobalRead(x) == x.readonly /\ x.grant = None

Plan(d, i) == IF i.inactive THEN {}
              ELSE Desired(d, i.name, i.staff, i.grant, i.global)

RolesOf(n) == IF n \in DOMAIN broker.clients THEN broker.clients[n].roles ELSE {}

Reads(R, d) ==
  IF R \cap {<<"read-all">>, <<"staff-all">>} # {} THEN AllScanners(d)
  ELSE {s \in AllScanners(d) : R \cap {<<"read", s>>, <<"rw", s>>} # {}}
Writes(R, d) ==
  IF <<"staff-all">> \in R THEN AllScanners(d)
  ELSE {s \in AllScanners(d) : <<"rw", s>> \in R}

-----------------------------------------------------------------------------
(* The broker's commands: what each makes of it                            *)

ScannerOf(r) == IF Len(r) = 2 THEN {r[2]} ELSE {}

WithClient(n, token, R) ==
  IF n \in DOMAIN broker.clients THEN broker
  ELSE [broker EXCEPT !.clients =
          [m \in DOMAIN @ \cup {n} |->
             IF m = n THEN [roles |-> R, token |-> token] ELSE @[m]]]
WithoutClient(n) ==
  [broker EXCEPT !.clients = [m \in DOMAIN @ \ {n} |-> @[m]]]
WithPassword(n, token) ==
  IF n \in DOMAIN broker.clients
  THEN [broker EXCEPT !.clients[n].token = token] ELSE broker
WithRole(n, r) ==
  IF n \in DOMAIN broker.clients /\ ScannerOf(r) \subseteq broker.roles
  THEN [broker EXCEPT !.clients[n].roles = @ \cup {r}] ELSE broker
WithoutRole(n, r) ==
  IF n \in DOMAIN broker.clients
  THEN [broker EXCEPT !.clients[n].roles = @ \ {r}] ELSE broker
WithScannerRoles(s) == [broker EXCEPT !.roles = @ \cup {s}]
WithoutScannerRoles(s) ==
  [roles   |-> broker.roles \ {s},
   clients |-> [m \in DOMAIN broker.clients |->
      [broker.clients[m] EXCEPT !.roles = {r \in @ : s \notin ScannerOf(r)}]]]

-----------------------------------------------------------------------------
(* Agendas                                                                 *)

\* A user as the thread read it, and the share session it acts for.
\* "guarded": a failure is logged and the next user taken.
UserItem(d, u, guarded) ==
  [kind |-> "user", name |-> u, guarded |-> guarded, staff |-> u \in d.staff,
   inactive |-> u \in d.inactive, grant |-> None, global |-> FALSE]
UserItems(d, U, guarded) == [i \in 1..Cardinality(U) |-> UserItem(d, SetToSeq(U)[i], guarded)]

\* A scanner's row as the thread read it
ScannerItem(d, s, password) ==
  [kind |-> "scanner", name |-> s, guarded |-> FALSE, row |-> d.scanners[s],
   password |-> password]
ScannerItems(d, S) == [i \in 1..Cardinality(S) |-> ScannerItem(d, SetToSeq(S)[i], FALSE)]

ForgetItem(s) == [kind |-> "forget", name |-> s, guarded |-> FALSE]

\* A list of users that is read once the scanners before it are done
QueryItem(of) == [kind |-> "query", name |-> of, guarded |-> FALSE]
All == "all"

FolderUsers(d, k) ==
  {u \in Users : \E g \in Grants : /\ GrantOf[g].who = u /\ GrantOf[g].scope = k
                                   /\ d.status[g] = "active"}
Queried(d, of) == IF of = All THEN d.creds ELSE FolderUsers(d, of)

\* Jobs, and the items the executor makes of one when it takes it
UserJob(u)              == [job |-> "user", of |-> u]
ScannerJob(s, password) == [job |-> "scanner", of |-> s, password |-> password]
ForgetJob(s)            == [job |-> "forget", of |-> s]
FolderJob(k, S)         == [job |-> "folder", of |-> k, scanners |-> S]
MembersJob(G)           == [job |-> "members", of |-> G]

Job == [job : {"user"}, of : Users] \cup [job : {"scanner"}, of : Scanners, password : BOOLEAN]
  \cup [job : {"forget"}, of : Scanners] \cup [job : {"members"}, of : Groups]
  \cup [job : {"folder"}, of : Folders, scanners : SUBSET Scanners]

Transaction == [rows : Database, jobs : Seq(Job), missed : SUBSET (Users \cup Scanners)]

ASSUME NoTransaction == None \notin Transaction

JobItems(d, j) ==
  CASE j.job = "user"    -> <<UserItem(d, j.of, FALSE)>>
    [] j.job = "scanner" -> IF j.of \in AllScanners(d)
                            THEN <<ScannerItem(d, j.of, j.password)>> ELSE <<>>
    [] j.job = "forget"  -> <<ForgetItem(j.of)>>
    [] j.job = "folder"  -> ScannerItems(d, j.scanners \cap AllScanners(d))
                              \o <<QueryItem(j.of)>>
    [] j.job = "members" -> UserItems(d, d.members[j.of] \cap d.creds, TRUE)

\* Mutant: the full sync leaves the users to their jobs
ScannersOnly(d) == ScannerItems(d, AllScanners(d))

SyncItems(d) == ScannerItems(d, AllScanners(d)) \o <<QueryItem(All)>>

\* want: what the rows asked for when they were read; clean: no other thread
\* was at the same subject, no command was refused, every answer was its own
Agenda(items) == [items |-> items, pc |-> "start", add |-> {}, remove |-> {},
                  want |-> {}, clean |-> TRUE]
Rest(t)  == [task[t] EXCEPT !.items = Tail(@)]
Now(t)   == Head(task[t].items)
Busy(t)  == task[t].items # <<>>
At(t, kind, pc) == Busy(t) /\ Now(t).kind = kind /\ task[t].pc = pc
Goto(t, pc) == [task[t] EXCEPT !.pc = pc]

Idle == queue = <<>> /\ txn = None /\ \A t \in Threads : ~Busy(t)

-----------------------------------------------------------------------------
(* Drift                                                                   *)

InDb(n) == IF n \in Users THEN n \in db.creds ELSE n \in AllScanners(db)

\* Roles the user's client should hold now, its share session aside
DesiredNow(d, u) == Plan(d, UserItem(d, u, FALSE))

\* The item did what the rows ask for now, and (a password aside, which only
\* a changed token or a new client sets) that is the subject's whole state.
Current(i, want) ==
  CASE i.kind = "user"    -> want = DesiredNow(db, i.name)
    [] i.kind = "scanner" -> InDb(i.name) /\ i.row = db.scanners[i.name]
    [] OTHER              -> ~InDb(i.name)

Settled(t, want, renews, clean) ==
  LET i == Now(t)
  IN  IF ~(clean /\ Current(i, want)) THEN drift \cup {i.name}
      ELSE IF renews THEN drift \ {i.name} ELSE drift

Subjects(i) == IF i.kind = "query" THEN Queried(db, i.name) ELSE {i.name}

\* Users whose roles, and scanners whose client, a change of rows concerns
Affected(d, e) ==
  {u \in Users : DesiredNow(d, u) # DesiredNow(e, u)}
    \cup {s \in Scanners : \/ s \in AllScanners(d) \ AllScanners(e)
                           \/ s \in AllScanners(e) \ AllScanners(d)
                           \/ s \in AllScanners(d) /\ d.scanners[s] # e.scanners[s]}

Announced(d, j) ==
  CASE j.job = "members" -> d.members[j.of]
    [] j.job = "folder"  -> FolderUsers(d, j.of)
    [] OTHER             -> {j.of}

ByJobs(d, jobs) == UNION {Announced(d, jobs[i]) : i \in DOMAIN jobs}

\* Those that jobs and half-done agendas would still come to
Waiting(d) ==
  ByJobs(d, queue)
    \cup UNION {Queried(d, i.name) :
           i \in {j \in UNION {Range(task[t].items) : t \in Threads} : j.kind = "query"}}

-----------------------------------------------------------------------------
(* One command: _send_command                                              *)

\* Another thread in the middle of the same subject
Rivals(t) == {o \in Threads \ {t} : /\ Busy(o) /\ Now(o).name = Now(t).name
                                    /\ task[o].pc # "start"}

\* The rows of task after t got an answer: "next" is t's own.
Proceed(t, next, renews, own) ==
  LET clean == own /\ Rivals(t) = {} /\ next.clean
      done  == Len(next.items) < Len(task[t].items)
  IN  /\ task' = [o \in Threads |->
           IF o = t THEN IF done THEN Agenda(next.items) ELSE [next EXCEPT !.clean = clean]
           ELSE IF o \in Rivals(t) THEN [task[o] EXCEPT !.clean = FALSE] ELSE task[o]]
      /\ drift' = IF done THEN Settled(t, next.want, renews, clean) ELSE drift

\* The command takes effect and the thread takes the first answer that
\* arrives: its own, or the late one, whose turn the command's own then takes.
\* "after" is the thread's next state by the answer, "renews" whether the item,
\* if this was its end, left nothing to a later one.
Answers(t, own) == {own, late[Line(t)]} \ {None}

Exchange(t, effect, own, after, renews) ==
  /\ broker' = effect
  /\ \/ /\ late' = [late EXCEPT ![Line(t)] = None]
        /\ Proceed(t, after[own], renews, TRUE)
        /\ UNCHANGED calm
     \/ /\ late[Line(t)] # None
        /\ late' = [late EXCEPT ![Line(t)] = own]
        /\ Proceed(t, after[late[Line(t)]], renews, FALSE)
        /\ calm' = FALSE
  /\ UNCHANGED <<queue, txn, events>>

\* No answer in five seconds: the command was lost, or its answer is late.
\* The exception ends the item, and all of the agenda unless it is guarded.
Fails(t, effect, own) ==
  /\ events < MaxEvents /\ events' = events + 1
  /\ \/ broker' = broker /\ late' = [late EXCEPT ![Line(t)] = None]
     \/ broker' = effect /\ late' = [late EXCEPT ![Line(t)] = own]
  /\ task' = [o \in Threads |->
       IF o = t THEN (IF Now(t).guarded THEN Agenda(Tail(task[t].items)) ELSE Agenda(<<>>))
       ELSE IF o \in Rivals(t) THEN [task[o] EXCEPT !.clean = FALSE] ELSE task[o]]
  /\ drift' = drift \cup (IF Now(t).guarded THEN {Now(t).name}
                          ELSE UNION {Subjects(task[t].items[i]) : i \in DOMAIN task[t].items})
  /\ calm' = FALSE
  /\ UNCHANGED <<queue, txn>>

Command(t, effect, own, after, renews) ==
  Exchange(t, effect, own, after, renews) \/ Fails(t, effect, own)

\* The same whatever the answer
Whatever(t, own, state) == [a \in Answers(t, own) |-> state]

-----------------------------------------------------------------------------
(* sync_user_roles                                                         *)

\* get_or_create of the credentials, and create_client
UserClient(t) ==
  /\ At(t, "user", "start")
  /\ LET u   == Now(t).name
         own == IF u \in DOMAIN broker.clients THEN Exists ELSE Ok
     IN  /\ u \in db.creds \/ txn = None
         /\ db' = [db EXCEPT !.creds = @ \cup {u}]
         /\ Command(t, WithClient(u, 0, {}), own, Whatever(t, own, Goto(t, "get")), TRUE)
  /\ UNCHANGED session

\* get_client, and the comparison with the roles the rows ask for: an answer
\* that is another command's has no data, and reads as a client without roles.
UserRoles(t) ==
  /\ At(t, "user", "get")
  /\ LET want  == Plan(db, Now(t))
         own   == [kind |-> "data", roles |-> RolesOf(Now(t).name)]
         after == [a \in Answers(t, own) |->
                     IF a.roles = want THEN [Rest(t) EXCEPT !.want = want]
                     ELSE [Goto(t, "diff") EXCEPT !.want = want, !.add = want \ a.roles,
                                                  !.remove = a.roles \ want]]
     IN  Command(t, broker, own, after, TRUE)
  /\ UNCHANGED <<db, session>>

\* Mutant: what is too much goes first
RemovalsFirst(t) == IF task[t].remove # {} THEN task[t].remove ELSE task[t].add

\* What is missing is added before what is too much is taken away.
Pending(t) == IF task[t].add # {} THEN task[t].add ELSE task[t].remove

\* A role that is not there is refused, and the refusal not looked at.
UserDiff(t) ==
  /\ At(t, "user", "diff")
  /\ \E r \in Pending(t) :
       LET u    == Now(t).name
           new  == r \in task[t].add
           last == task[t].add \cup task[t].remove = {r}
           next == [(IF last THEN Rest(t) ELSE task[t])
                      EXCEPT !.add = @ \ {r}, !.remove = @ \ {r},
                             !.clean = @ /\ (new => ScannerOf(r) \subseteq broker.roles)]
       IN  Command(t, IF new THEN WithRole(u, r) ELSE WithoutRole(u, r), Ok,
                   Whatever(t, Ok, next), TRUE)
  /\ UNCHANGED <<db, session>>

-----------------------------------------------------------------------------
(* ensure_scanner_roles and delete_scanner_roles                           *)

Device(s) == <<"device", s>>

\* A scanner's three roles are made, and deleted, as one.
ScannerRoles(t) ==
  /\ At(t, "scanner", "start")
  /\ Command(t, WithScannerRoles(Now(t).name), Ok, Whatever(t, Ok, Goto(t, "client")), TRUE)
  /\ UNCHANGED <<db, session>>

ScannerClient(t) ==
  /\ At(t, "scanner", "client") /\ Now(t).row.enabled
  /\ LET s     == Now(t).name
         own   == IF s \in DOMAIN broker.clients THEN Exists ELSE Ok
         after == [a \in Answers(t, own) |->
                     IF a.kind # "exists" THEN Rest(t)
                     ELSE Goto(t, IF Now(t).password THEN "password" ELSE "role")]
     IN  Command(t, IF s \in broker.roles
                    THEN WithClient(s, Now(t).row.token, {Device(s)}) ELSE broker,
                 own, after, own = Ok)
  /\ UNCHANGED <<db, session>>

ScannerPassword(t) ==
  /\ At(t, "scanner", "password")
  /\ Command(t, WithPassword(Now(t).name, Now(t).row.token), Ok,
             Whatever(t, Ok, Goto(t, "role")), TRUE)
  /\ UNCHANGED <<db, session>>

ScannerDevice(t) ==
  /\ At(t, "scanner", "role")
  /\ Command(t, WithRole(Now(t).name, Device(Now(t).name)), Ok,
             Whatever(t, Ok, Rest(t)), Now(t).password)
  /\ UNCHANGED <<db, session>>

ScannerDisabled(t) ==
  /\ At(t, "scanner", "client") /\ ~Now(t).row.enabled
  /\ Command(t, WithoutClient(Now(t).name), Ok, Whatever(t, Ok, Rest(t)), TRUE)
  /\ UNCHANGED <<db, session>>

ForgetClient(t) ==
  /\ At(t, "forget", "start")
  /\ Command(t, WithoutClient(Now(t).name), Ok, Whatever(t, Ok, Goto(t, "roles")), TRUE)
  /\ UNCHANGED <<db, session>>

ForgetRoles(t) ==
  /\ At(t, "forget", "roles")
  /\ Command(t, WithoutScannerRoles(Now(t).name), Ok, Whatever(t, Ok, Rest(t)), TRUE)
  /\ UNCHANGED <<db, session>>

-----------------------------------------------------------------------------
(* The threads                                                             *)

\* The users of a folder, or all that have credentials, are read after the
\* scanners before them were synced.
ReadUsers(t) ==
  /\ At(t, "query", "start")
  /\ task' = [task EXCEPT ![t] =
       Agenda(UserItems(db, Queried(db, Now(t).name), Now(t).name # All)
                \o Tail(task[t].items))]
  /\ UNCHANGED <<db, session, broker, late, queue, txn, drift, calm, events>>

\* The executor takes a job and reads the rows it is about.
TakeJob ==
  /\ ~Busy("exec") /\ queue # <<>>
  /\ task' = [task EXCEPT !["exec"] = Agenda(JobItems(db, Head(queue)))]
  /\ queue' = Tail(queue) /\ calm' = FALSE
  /\ UNCHANGED <<db, session, broker, late, txn, drift, events>>

\* mqtt_credentials
Credentials ==
  /\ ~Busy("web") /\ Request
  /\ session.user \in db.creds \/ txn = None
  /\ db' = [db EXCEPT !.creds = @ \cup {session.user}]
  /\ task' = [task EXCEPT !["web"] = Agenda(<<
       [UserItem(db, session.user, FALSE) EXCEPT !.grant = session.grant,
                                                 !.global = GlobalRead(session)]>>)]
  /\ calm' = FALSE
  /\ UNCHANGED <<session, broker, late, queue, txn, drift, events>>

\* run_dynsec_sync and the dynsec_sync command: full_sync with a new client
SyncStart ==
  /\ ~Busy("sched")
  /\ task' = [task EXCEPT !["sched"] = Agenda(SyncItems(db))]
  /\ late' = [late EXCEPT !["sched"] = None]
  /\ calm' = Idle
  /\ UNCHANGED <<db, session, broker, queue, txn, drift, events>>

-----------------------------------------------------------------------------
(* Changes of the rows, and the jobs their signals dispatch                *)

UserSaved(d, u) == IF u \in d.creds THEN <<UserJob(u)>> ELSE <<>>   \* on_user_save

\* Mutant: only a grant to a user is synced
UserGrantsOnly(g) == IF GrantOf[g].who \in Users THEN <<UserJob(GrantOf[g].who)>> ELSE <<>>

\* on_access_save, on_access_delete
GrantChanged(g) ==
  CASE GrantOf[g].who \in Users  -> <<UserJob(GrantOf[g].who)>>
    [] GrantOf[g].who \in Groups -> <<MembersJob(GrantOf[g].who)>>
    [] OTHER -> <<>>

GrantsOn(d, s) == {g \in Grants : GrantOf[g].scope = s /\ d.status[g] # "none"}

Change(d, jobs) ==
  /\ txn = None /\ events < MaxEvents /\ events' = events + 1
  /\ queue' = queue \o jobs /\ calm' = FALSE
  /\ UNCHANGED <<session, broker, late, task>>

\* "missed": subjects that no signal tells of.  A subject that a waiting job
\* would have come to and now will not is as much behind.
Save(d, jobs, missed) ==
  /\ Change(d, jobs) /\ db' = d /\ txn' = None
  /\ drift' = drift \cup missed \cup ((Waiting(db) \ Waiting(d)) \ ByJobs(d, jobs))

Begin(d, jobs, missed) ==
  /\ Change(d, jobs) /\ txn' = [rows |-> d, jobs |-> jobs, missed |-> missed]
  /\ UNCHANGED <<db, drift>>

\* A job that has been taken already read the rows as they were.
Commit ==
  /\ txn # None /\ db' = txn.rows /\ txn' = None
  /\ drift' = drift \cup txn.missed \cup (Waiting(db) \ Waiting(txn.rows))
                \cup (IF IsSuffix(txn.jobs, queue) THEN {} ELSE Affected(db, txn.rows))
  /\ UNCHANGED <<session, broker, late, queue, task, calm, events>>

\* A grant is made on a scanner, or folder, that is there.
Scoped(S, g) == GrantOf[g].scope \in Folders \cup S

\* create_access and revoke_access
ApiGrant(g) ==
  /\ GrantOf[g].who \notin Groups /\ Scoped(AllScanners(db), g)
  /\ \/ db.status[g] = "none" /\ Save(WithStatus(db, g, "active"), GrantChanged(g), {})
     \/ db.status[g] # "none" /\ Save(WithStatus(db, g, "revoked"), GrantChanged(g), {})

\* The admin's form of a grant, and its deletion
AdminGrant(g) ==
  /\ Scoped(AllScanners(db), g)
  /\ \E v \in {"none", "active", "revoked"} \ {db.status[g]} :
       Begin(WithStatus(db, g, v), GrantChanged(g), {})

\* regenerate_token, which saves auth_token alone
Regenerate(s) ==
  /\ s \in AllScanners(db) /\ db.scanners[s].token < MaxToken
  /\ Save(WithToken(db, s), <<ScannerJob(s, TRUE)>>, {})

\* The admin's form of a scanner: enabled, and its folders
AdminScanner(s) ==
  /\ s \in AllScanners(db)
  /\ Begin(WithScanner(db, s, [db.scanners[s] EXCEPT !.enabled = ~@]),
           <<ScannerJob(s, FALSE)>>, {})
NewScanner(s) ==
  /\ s \notin AllScanners(db) \cup db.deleted
  /\ Begin(WithNewScanner(db, s), <<ScannerJob(s, TRUE)>>, {})
DeleteScanner(s) ==
  /\ s \in AllScanners(db)
  /\ LET gone == SetToSeq({g \in GrantsOn(db, s) : GrantChanged(g) # <<>>})
     IN  Begin(WithoutScanner(db, s),
               [i \in DOMAIN gone |-> Head(GrantChanged(gone[i]))] \o <<ForgetJob(s)>>, {})

\* assign and release, and the folders in the admin's form of a scanner: the
\* users who have the folder through a group are not synced.
Toggle(k, s) == WithFolder(db, k, (db.folder[k] \cup {s}) \ (db.folder[k] \cap {s}))
Assign(k, s) ==
  /\ s \in AllScanners(db)
  /\ LET d == Toggle(k, s)
     IN  Begin(d, <<FolderJob(k, {s})>>, Affected(db, d) \ FolderUsers(d, k))

\* The admin's form of a user
AdminUser(u) ==
  \/ Begin([db EXCEPT !.staff = (@ \cup {u}) \ (@ \cap {u})], UserSaved(db, u), {})
  \/ Begin([db EXCEPT !.inactive = (@ \cup {u}) \ (@ \cap {u})], UserSaved(db, u), {})

\* A user joins or leaves a group: the admin's form, assign_default_groups
Membership(u, G) == Begin(WithMember(db, G, u), UserSaved(db, u), {})

\* Nothing is dispatched when the admin revokes or activates a selection,
\* when a grant expires, when the default group loses or gets view_scanner,
\* and when a folder's scanners are edited in the admin's form of the folder.
Unsignalled(d) == Save(d, <<>>, Affected(db, d))
Silent ==
  \/ \E r \in Rows : \/ db.status[r] = "active" /\ Unsignalled(WithStatus(db, r, "revoked"))
                     \/ db.status[r] = "revoked" /\ Unsignalled(WithStatus(db, r, "active"))
                     \/ db.status[r] # "none" /\ r \notin db.lapsed /\ Unsignalled(Lapsed(db, r))
  \/ Unsignalled([db EXCEPT !.baseline = ~@])
  \/ \E k \in Folders, s \in AllScanners(db) : Unsignalled(Toggle(k, s))

\* generate_share_link
NewLink(l) == db.status[l] = "none" /\ Save(WithStatus(db, l, "active"), <<>>, {})

-----------------------------------------------------------------------------
(* The browser's session: login() saves last_login, and so the user        *)

SignIn ==
  /\ txn = None /\ events < MaxEvents /\ events' = events + 1
  /\ \/ \E u \in Users : Login(u)
     \/ \E g \in Grants : OpenGrant(g)
     \/ \E l \in Links : OpenLink(l)
  /\ queue' = queue \o UserSaved(db, session'.user) /\ calm' = FALSE
  /\ UNCHANGED <<db, broker, late, task, txn, drift>>

SignOut == Logout /\ UNCHANGED <<db, broker, plumbing>>

-----------------------------------------------------------------------------
(* The server is deployed: dynsec_sync has run.                            *)

Init ==
  /\ \E active \in {{}, FirstGrants}, S \in {{}, Scanners} :
       db = [deleted |-> {}, staff |-> {}, inactive |-> {}, creds |-> Users \ {Demo},
             members |-> [G \in Groups |-> IF G = Viewers THEN Users ELSE {}],
             baseline |-> FirstBaseline, folder |-> [k \in Folders |-> S],
             scanners |-> [s \in S |-> [enabled |-> TRUE, token |-> 0]],
             status |-> [r \in Rows |-> IF r \in active /\ Scoped(S, r) THEN "active" ELSE "none"],
             lapsed |-> {}]
  /\ broker = [roles |-> AllScanners(db), clients |-> [n \in db.creds \cup AllScanners(db) |->
       [token |-> 0, roles |-> IF n \in Users THEN DesiredNow(db, n) ELSE {Device(n)}]]]
  /\ session = None /\ late = [l \in {"server", "sched"} |-> None]
  /\ queue = <<>> /\ task = [t \in Threads |-> Agenda(<<>>)] /\ txn = None
  /\ drift = {} /\ calm = FALSE /\ events = 0

Step(t) ==
  \/ UserClient(t) \/ UserRoles(t) \/ UserDiff(t)
  \/ ScannerRoles(t) \/ ScannerClient(t) \/ ScannerPassword(t) \/ ScannerDevice(t)
  \/ ScannerDisabled(t) \/ ForgetClient(t) \/ ForgetRoles(t) \/ ReadUsers(t)

Next ==
  \/ \E t \in Threads : Step(t)
  \/ TakeJob \/ Credentials \/ SyncStart \/ Commit
  \/ \E g \in Grants : ApiGrant(g) \/ AdminGrant(g)
  \/ \E s \in Scanners : Regenerate(s) \/ AdminScanner(s) \/ NewScanner(s) \/ DeleteScanner(s)
  \/ \E k \in Folders, s \in Scanners : Assign(k, s)
  \/ \E u \in Users : AdminUser(u) \/ \E G \in Groups : Membership(u, G)
  \/ \E l \in Links : NewLink(l)
  \/ Silent \/ SignIn \/ SignOut

Spec == Init /\ [][Next]_vars

-----------------------------------------------------------------------------
(* Properties                                                              *)

Item == [kind : {"user"}, name : Users, guarded : BOOLEAN, staff : BOOLEAN,
         inactive : BOOLEAN, grant : Grants \cup {None}, global : BOOLEAN]
  \cup [kind : {"scanner"}, name : Scanners, guarded : {FALSE}, row : Row, password : BOOLEAN]
  \cup [kind : {"forget"}, name : Scanners, guarded : {FALSE}]
  \cup [kind : {"query"}, name : Folders \cup {All}, guarded : {FALSE}]

TypeOK ==
  /\ AccessTypeOK
  /\ txn \in Transaction \cup {None} /\ queue \in Seq(Job)
  /\ broker.roles \subseteq Scanners /\ DOMAIN broker.clients \subseteq Users \cup Scanners
  /\ \A n \in DOMAIN broker.clients : broker.clients[n] \in
       [roles : SUBSET Role, token : 0..MaxToken]
  /\ \A l \in DOMAIN late : late[l] \in Answer \cup {None}
  /\ \A t \in Threads : /\ task[t].items \in Seq(Item)
                         /\ task[t].add \cup task[t].remove \cup task[t].want \subseteq Role
  /\ drift \subseteq Users \cup Scanners /\ calm \in BOOLEAN
  /\ events \in 0..MaxEvents

Undrifted(R) == {r \in R : ScannerOf(r) \cap drift = {}}

UserMirrored(u) == Undrifted(RolesOf(u)) = Undrifted(DesiredNow(db, u))

HasDevice(s) ==
  /\ s \in broker.roles
  /\ IF db.scanners[s].enabled THEN RolesOf(s) = {Device(s)}
                               ELSE s \notin DOMAIN broker.clients
HasToken(s) == s \in DOMAIN broker.clients => broker.clients[s].token = db.scanners[s].token

\* When every job is done the broker holds what the rows ask for: each change
\* that is signalled reaches every client it concerns, however the changes,
\* the jobs, the requests and the periodic sync interleave.  Left out are the
\* subjects of changes without a signal, of commands that failed, of jobs
\* that ran before their transaction committed, and those two threads were
\* at together, until a later sync has settled them.
AnnouncedMirrored ==
  Idle =>
    /\ \A u \in db.creds \ drift : UserMirrored(u)
    /\ \A s \in AllScanners(db) \ drift : HasDevice(s) /\ HasToken(s)
    /\ \A s \in db.deleted \ drift : s \notin broker.roles \cup DOMAIN broker.clients

\* A periodic sync that nothing else interferes with repairs whatever was
\* left behind of roles and clients, in one run.
SyncMirrors ==
  /\ TypeOK
  /\ calm /\ ~Busy("sched") =>
       /\ \A u \in db.creds : RolesOf(u) = DesiredNow(db, u)
       /\ \A s \in AllScanners(db) : HasDevice(s)

\* The roles computed for a session read exactly the scanners its requests
\* may read, and (shares aside) command exactly those its requests may:
\* "the broker-side mirror of the REST scope" (dynsec.py).
ScopeMirrored ==
  Request =>
    LET R == Plan(db, [UserItem(db, session.user, FALSE) EXCEPT
                         !.grant = session.grant, !.global = GlobalRead(session)])
    IN  /\ Reads(R, db) = Scope(db, session)
        /\ session.grant = None /\ ~session.readonly =>
             Writes(R, db) = {s \in AllScanners(db) : MayWriteScanner(db, session, s)}

\* A sync never cuts off a reader on the way: a scanner that a user's client
\* may read, and that the rows still let it read, stays readable between any
\* two commands (unless the scanner is being deleted).
ReadKept ==
  [][\A t \in Threads, u \in Users :
       At(t, "user", "diff") /\ Now(t).name = u /\ task[t].clean /\ Rivals(t) = {} =>
         Reads(RolesOf(u), db) \cap Reads(task[t].want, db)
             \cap AllScanners(IF txn = None THEN db ELSE txn.rows)
           \subseteq Reads(RolesOf(u)', db)]_vars
=============================================================================
