------------------------------- MODULE Access -------------------------------
(***************************************************************************)
(* Who may read and write what: the rows of the database that decide it    *)
(* (core/models.py), the scope of a REST request (api/permissions.py, the  *)
(* querysets of api/views.py), and the session of one browser.             *)
(*                                                                         *)
(* The rows are one record, db, so that a request and a broker role can be *)
(* computed from the same state.  An operation that changes them is a      *)
(* function from db to db here; DynSec decides when it takes effect and    *)
(* what it sets off.                                                       *)
(***************************************************************************)
EXTENDS FiniteSets, Naturals

CONSTANTS
  Users, Demo,      \* Demo: demo_viewer, the one user of all share sessions
  Groups, Viewers,  \* Django groups; Viewers: the default group
  Scanners, Folders,\* scanners, and scanner groups
  Grants, GrantOf,  \* Access rows, and their [who, scope, permission]
  Links,            \* ShareLink rows
  MaxToken,         \* bound on a scanner's regenerated tokens
  None

Token == "token"    \* the principal of a grant that is held by its link

ASSUME AccessAssumption ==
  /\ Demo \in Users /\ Viewers \in Groups /\ MaxToken \in Nat
  /\ GrantOf \in [Grants -> [who : Users \cup Groups \cup {Token},
                             scope : Scanners \cup Folders,
                             permission : {"r", "rw"}]]
  /\ None \notin Users \cup Scanners \cup Grants \cup Links \cup {"r", "rw"}
  /\ IsFiniteSet(Users) /\ IsFiniteSet(Scanners) /\ IsFiniteSet(Grants)
  /\ Users \cap Scanners = {} /\ Scanners \cap Folders = {} /\ Grants \cap Links = {}
  /\ Users \cap Groups = {} /\ Token \notin Users \cup Groups

VARIABLES
  db,       \* the rows
  session   \* [user, grant, readonly] of the browser, or None

Rows == Grants \cup Links   \* what can be active, revoked and expired
Row  == [enabled : BOOLEAN, token : 0..MaxToken]

Database ==
  [staff : SUBSET Users, inactive : SUBSET Users,
   creds : SUBSET Users,                    \* users with MQTT credentials
   members : [Groups -> SUBSET Users],
   baseline : BOOLEAN,                      \* Viewers holds view_scanner
   folder : [Folders -> SUBSET Scanners],
   scanners : UNION {[S -> Row] : S \in SUBSET Scanners},
   deleted : SUBSET Scanners,               \* an id is not used again
   status : [Rows -> {"none", "active", "revoked"}],
   lapsed : SUBSET Rows]                    \* expires_at has passed

\* Every visitor of a share link is demo_viewer. Its sessions are always held
\* to a grant or to reading, whoever the browser was before, and no other
\* user's session ever is.
Session == {x \in [user : Users, grant : Grants \cup {None}, readonly : BOOLEAN] :
              x.user = Demo <=> x.grant # None \/ x.readonly}

AccessTypeOK == db \in Database /\ session \in Session \cup {None}

-----------------------------------------------------------------------------
(* Grants                                                                  *)

AllScanners(d) == DOMAIN d.scanners

IsValid(d, r) == d.status[r] = "active" /\ r \notin d.lapsed

ActiveGrants(d, u) ==
  {g \in Grants : /\ IsValid(d, g)
                  /\ \/ GrantOf[g].who = u
                     \/ GrantOf[g].who \in Groups /\ u \in d.members[GrantOf[g].who]}

GrantScanners(d, g) ==
  IF GrantOf[g].scope \in Folders THEN d.folder[GrantOf[g].scope]
                                  ELSE {GrantOf[g].scope} \cap AllScanners(d)

\* Mutant: the branch for grants on a folder is missing
DirectScanners(d, u) == {GrantOf[g].scope : g \in ActiveGrants(d, u)} \cap AllScanners(d)

AccessibleScanners(d, u) == UNION {GrantScanners(d, g) : g \in ActiveGrants(d, u)}

AccessibleFolders(d, u) == {GrantOf[g].scope : g \in ActiveGrants(d, u)} \cap Folders

RwGrants(d, u) == {g \in ActiveGrants(d, u) : GrantOf[g].permission = "rw"}

RwScanners(d, u) == UNION {GrantScanners(d, g) : g \in RwGrants(d, u)}

RwFolders(d, u) == {GrantOf[g].scope : g \in RwGrants(d, u)} \cap Folders

\* user.has_perm('core.view_scanner')
HasViewPerm(d, u) == u \notin d.inactive /\ d.baseline /\ u \in d.members[Viewers]

-----------------------------------------------------------------------------
(* The scope of a request                                                  *)

ReadsAll(d, x) == x.grant = None /\ ~x.readonly /\ HasViewPerm(d, x.user)

\* get_request_scanner_ids, with all scanners for its None (unrestricted)
Scope(d, x) ==
  IF \/ x.user \in d.staff \/ ReadsAll(d, x)
     \/ x.grant = None /\ x.readonly
  THEN AllScanners(d)
  ELSE AccessibleScanners(d, x.user)
         \cup (IF x.grant # None /\ IsValid(d, x.grant)
               THEN GrantScanners(d, x.grant) ELSE {})

\* start, stop, push_bands, push_gain, PUT and DELETE of a scanner: the
\* queryset, ReadOnlyIfShareSession and HasScannerAccess
MayWriteScanner(d, x, s) ==
  /\ s \in Scope(d, x) /\ ~x.readonly
  /\ x.user \in d.staff \/ s \in RwScanners(d, x.user)

VisibleFolders(d, x) ==
  IF x.user \in d.staff \/ ReadsAll(d, x) THEN Folders ELSE AccessibleFolders(d, x.user)

\* assign and release
MayWriteFolder(d, x, k) ==
  /\ k \in VisibleFolders(d, x) /\ ~x.readonly
  /\ x.user \in d.staff \/ k \in RwFolders(d, x.user)

\* user_permission of a serialized scanner
ShownPermission(d, u, s) ==
  LET covering == {g \in ActiveGrants(d, u) : s \in GrantScanners(d, g)}
  IN  IF u \in d.staff \/ covering \cap RwGrants(d, u) # {} THEN "rw"
      ELSE IF covering # {} THEN "r" ELSE None

\* A monitored frequency is told apart by the scanners and folders it is
\* assigned to; one assigned to none is global.
Frequency == [scanners : SUBSET Scanners, folders : SUBSET Folders]
IsGlobal(f) == f.scanners = {} /\ f.folders = {}

\* get_monitored_frequencies_for_scanner
AppliesTo(d, f, s) ==
  IsGlobal(f) \/ s \in f.scanners \/ \E k \in f.folders : s \in d.folder[k]

\* The list without, and with, ?scanner=
Listed(d, x, f) ==
  \/ Scope(d, x) = AllScanners(d)
  \/ IsGlobal(f) \/ f.scanners \cap Scope(d, x) # {}
ListedFor(d, x, f, s) == s \in Scope(d, x) /\ AppliesTo(d, f, s)

MayCreateFrequency(d, x, s) ==
  ~x.readonly /\ s \in AllScanners(d) /\ (x.user \in d.staff \/ s \in RwScanners(d, x.user))

MayWriteFrequency(d, x, f) ==
  /\ ~x.readonly
  /\ \/ x.user \in d.staff
     \/ f.scanners \cap RwScanners(d, x.user) # {}
     \/ f.folders \cap RwFolders(d, x.user) # {}

-----------------------------------------------------------------------------
(* Changes of the rows                                                     *)

WithStatus(d, r, v) == [d EXCEPT !.status[r] = v]
Lapsed(d, r)        == [d EXCEPT !.lapsed = @ \cup {r}]
WithMember(d, G, u) ==
  [d EXCEPT !.members[G] = IF u \in @ THEN @ \ {u} ELSE @ \cup {u}]
WithFolder(d, k, S) == [d EXCEPT !.folder[k] = S]
WithScanner(d, s, row) == [d EXCEPT !.scanners[s] = row]

WithNewScanner(d, s) ==
  [d EXCEPT !.scanners = [t \in AllScanners(d) \cup {s} |->
     IF t = s THEN [enabled |-> TRUE, token |-> 0] ELSE @[t]]]

WithToken(d, s) == [d EXCEPT !.scanners[s].token = @ + 1]

\* Deleting a scanner takes the grants on it along.
WithoutScanner(d, s) ==
  [d EXCEPT !.scanners = [t \in AllScanners(d) \ {s} |-> d.scanners[t]],
            !.deleted  = @ \cup {s},
            !.folder   = [k \in Folders |-> @[k] \ {s}],
            !.status   = [r \in Rows |->
               IF r \in Grants /\ GrantOf[r].scope = s THEN "none" ELSE @[r]]]

-----------------------------------------------------------------------------
(* The browser's session                                                   *)

\* login() keeps the flags of a session that is of the same user already.
Flags(u) == IF session # None /\ session.user = u THEN session
            ELSE [user |-> u, grant |-> None, readonly |-> FALSE]

\* demo_viewer has no usable password.
Login(u) ==
  /\ u # Demo /\ u \notin db.inactive
  /\ session' = Flags(u)

Logout == session # None /\ session' = None

\* share_token_auth with the token of a grant
OpenGrant(g) ==
  /\ GrantOf[g].who = Token /\ IsValid(db, g) /\ Demo \notin db.inactive
  /\ session' = [Flags(Demo) EXCEPT !.grant = g, !.readonly = GrantOf[g].permission = "r"]

\* share_token_auth with the token of a legacy link
OpenLink(l) ==
  /\ IsValid(db, l) /\ Demo \notin db.inactive
  /\ session' = [Flags(Demo) EXCEPT !.readonly = TRUE]

\* A user who is deactivated has no session any more: get_user finds none.
Request == session # None /\ session.user \notin db.inactive

-----------------------------------------------------------------------------
(* Properties                                                              *)

\* What a request may write it may also read, and what it is shown to be
\* allowed to it is allowed: the querysets, the permission classes and the
\* serializer each work the grants out on their own.
WritersMayRead ==
  Request =>
    LET x == session  rw == RwScanners(db, x.user)  login == x.grant = None /\ ~x.readonly
    IN  /\ rw \subseteq Scope(db, x)
        /\ \A k \in VisibleFolders(db, x) : db.folder[k] \subseteq Scope(db, x)
        /\ \A s \in AllScanners(db) :
             LET f == [scanners |-> {s}, folders |-> {}]
             IN  /\ MayCreateFrequency(db, x, s) =>
                      /\ MayWriteFrequency(db, x, f)
                      /\ Listed(db, x, f) /\ ListedFor(db, x, f, s)
                 /\ login => (MayWriteScanner(db, x, s)
                                <=> ShownPermission(db, x.user, s) = "rw")
        /\ \A f \in Frequency : \A k \in f.folders :
             MayWriteFolder(db, x, k) /\ ~x.readonly => MayWriteFrequency(db, x, f)
=============================================================================
