---------------------------- MODULE DynSecProofs ----------------------------
(***************************************************************************)
(* Proofs about the broker's copy of the access rules (DynSec) and the     *)
(* rows it is computed from (Access).                                      *)
(*                                                                         *)
(* The argument has five parts.  Whatever changes the rows leaves folders *)
(* of scanners that are there, and never uses an id again (Sound,          *)
(* RowSteps); on such rows the API's own rules agree with each other and   *)
(* with the roles of the broker (ReadersWrite, ScopesAgree).  Every        *)
(* command is on the subject its thread is at, spares the clients of       *)
(* others, and leaves its thread clean only if nobody else was by (Made,   *)
(* Done).  So a thread that is still clean has given its client whatever   *)
(* is no longer on its list to add (Given), and what it takes away then    *)
(* cuts nobody off.                                                        *)
(*                                                                         *)
(* Whatever changes the rows announces whom the change concerns (Told).    *)
(* So the broker fits the rows for every subject, unless it is left        *)
(* behind (drift), a job, an agenda or a list of users still comes to it,  *)
(* or a job came to it before its transaction committed (Fit): a clean     *)
(* thread is on the way there (Poised), and each command does for its      *)
(* subject what it has to, and nothing to others (Serves, Ready).  A sync  *)
(* that has the broker to itself needs no drift: what it read is what the  *)
(* rows say (Fresh), and what it has been at fits (Repaired, Calmly).      *)
(***************************************************************************)
EXTENDS DynSec, FiniteSetTheorems, TLAPS

Partial(S, T) == UNION {[B -> T] : B \in SUBSET S}

-----------------------------------------------------------------------------
(* What is in a sequence                                                   *)

LEMMA InSequence ==
  ASSUME NEW X, NEW s \in Seq(X)
  PROVE  /\ \A x \in Range(s) : x \in X
         /\ \A i \in DOMAIN s : s[i] \in Range(s) /\ s[i] \in X
         /\ \A x \in Range(s) : \E i \in DOMAIN s : x = s[i]
  BY DEF Range

LEMMA InTail ==
  ASSUME NEW X, NEW s \in Seq(X), s # <<>>
  PROVE  /\ Head(s) \in X /\ Tail(s) \in Seq(X)
         /\ Head(s) = s[1] /\ 1 \in DOMAIN s
         /\ Range(s) = {Head(s)} \cup Range(Tail(s))
  <1>1. /\ Head(s) \in X /\ Tail(s) \in Seq(X) /\ Head(s) = s[1] /\ 1 \in DOMAIN s
        /\ Len(s) \in Nat /\ DOMAIN s = 1..Len(s) /\ DOMAIN Tail(s) = 1..(Len(s) - 1)
        /\ \A i \in DOMAIN Tail(s) : Tail(s)[i] = s[i + 1] /\ i + 1 \in DOMAIN s
    OBVIOUS
  <1>2. ASSUME NEW i \in DOMAIN s, i # 1
        PROVE  i - 1 \in DOMAIN Tail(s) /\ Tail(s)[i - 1] = s[i]
    <2>1. i - 1 \in 1..(Len(s) - 1) /\ (i - 1) + 1 = i
      BY <1>1, <1>2
    <2>. QED  BY <1>1, <2>1
  <1>3. Range(s) \subseteq {Head(s)} \cup Range(Tail(s))
    <2>1. ASSUME NEW i \in DOMAIN s PROVE s[i] \in {Head(s)} \cup Range(Tail(s))
      <3>1. CASE i = 1
        BY <1>1, <3>1
      <3>2. CASE i # 1
        BY <1>2, <3>2 DEF Range
      <3>. QED  BY <3>1, <3>2
    <2>. QED  BY <2>1 DEF Range
  <1>4. {Head(s)} \cup Range(Tail(s)) \subseteq Range(s)
    BY <1>1 DEF Range
  <1>. QED  BY <1>1, <1>3, <1>4

LEMMA InBoth ==
  ASSUME NEW X, NEW p \in Seq(X), NEW q \in Seq(X)
  PROVE  p \o q \in Seq(X) /\ Range(p \o q) = Range(p) \cup Range(q)
  <1>. DEFINE z == p \o q
  <1>1. /\ z \in Seq(X) /\ DOMAIN p = 1..Len(p) /\ DOMAIN q = 1..Len(q)
        /\ DOMAIN z = 1..(Len(p) + Len(q)) /\ Len(p) \in Nat /\ Len(q) \in Nat
        /\ \A i \in 1..Len(p) : z[i] = p[i]
        /\ \A i \in 1..(Len(p) + Len(q)) : i > Len(p) => z[i] = q[i - Len(p)]
    OBVIOUS
  <1>. HIDE DEF z
  <1>2. ASSUME NEW i \in DOMAIN z PROVE z[i] \in Range(p) \cup Range(q)
    <2>1. CASE i <= Len(p)
      <3>1. i \in DOMAIN p /\ z[i] = p[i]
        BY <1>1, <2>1
      <3>. QED  BY <3>1 DEF Range
    <2>2. CASE i > Len(p)
      <3>1. i - Len(p) \in DOMAIN q /\ z[i] = q[i - Len(p)]
        BY <1>1, <2>2
      <3>. QED  BY <3>1 DEF Range
    <2>. QED  BY <1>1, <2>1, <2>2
  <1>3. ASSUME NEW i \in DOMAIN p PROVE p[i] \in Range(z)
    <2>1. i \in DOMAIN z /\ z[i] = p[i]
      BY <1>1
    <2>. QED  BY <2>1 DEF Range
  <1>4. ASSUME NEW i \in DOMAIN q PROVE q[i] \in Range(z)
    <2>1. i + Len(p) \in DOMAIN z /\ i + Len(p) > Len(p) /\ (i + Len(p)) - Len(p) = i
      BY <1>1
    <2>2. z[i + Len(p)] = q[i]
      BY <1>1, <2>1
    <2>. QED  BY <2>1, <2>2 DEF Range
  <1>5. Range(z) = Range(p) \cup Range(q)
    BY <1>2, <1>3, <1>4 DEF Range
  <1>. QED  BY <1>1, <1>5 DEF z

LEMMA InOne ==
  ASSUME NEW x
  PROVE  Range(<<x>>) = {x} /\ Range(<<>>) = {} /\ <<x>> # <<>>
         /\ Head(<<x>>) = x
  BY DEF Range

\* The last elements of a sequence
LEMMA LastElements ==
  ASSUME NEW X, NEW s \in Seq(X), NEW t \in Seq(X)
  PROVE  IsSuffix(s, t) <=> /\ Len(s) <= Len(t)
                            /\ \A i \in 1..Len(s) : s[i] = t[Len(t) - Len(s) + i]
  <1>. DEFINE m == Len(s)
              n == Len(t)
              r == Reverse(s)
              q == Reverse(t)
  <1>1. m \in Nat /\ n \in Nat /\ DOMAIN s = 1..m /\ DOMAIN t = 1..n
    OBVIOUS
  <1>2. /\ r \in [1..m -> X] /\ \A i \in 1..m : r[i] = s[(m - i) + 1]
        /\ q \in [1..n -> X] /\ \A i \in 1..n : q[i] = t[(n - i) + 1]
    <2>1. \A i \in 1..m : (m - i) + 1 \in 1..m
      BY <1>1
    <2>2. \A i \in 1..n : (n - i) + 1 \in 1..n
      BY <1>1
    <2>. QED  BY <1>1, <2>1, <2>2 DEF Reverse
  <1>. HIDE DEF r, q
  <1>3. /\ r \in Seq(X) /\ Len(r) = m /\ q \in Seq(X) /\ Len(q) = n
    <2>1. \A k \in Nat : \A f \in [1..k -> X] : f \in Seq(X) /\ Len(f) = k
      OBVIOUS
    <2>. QED  BY <1>1, <1>2, <2>1
  <1>4. IsSuffix(s, t) <=> m <= n /\ SubSeq(r, 1, m) = SubSeq(q, 1, m)
    BY <1>3 DEF IsSuffix, IsPrefix, r, q
  <1>. SUFFICES ASSUME m <= n
                PROVE  SubSeq(r, 1, m) = SubSeq(q, 1, m) <=> \A i \in 1..m : s[i] = t[n - m + i]
    BY <1>4
  <1>5. /\ SubSeq(r, 1, m) = [i \in 1..m |-> r[i]]
        /\ SubSeq(q, 1, m) = [i \in 1..m |-> q[i]]
    <2>1. \A f : SubSeq(f, 1, m) = [i \in 1..m |-> f[i]]
      <3>1. \A f : SubSeq(f, 1, m) = [i \in 1..(1 + m - 1) |-> f[i + 1 - 1]]
        BY <1>1
      <3>. QED  BY <1>1, <3>1
    <2>. QED  BY <2>1
  <1>6. SubSeq(r, 1, m) = SubSeq(q, 1, m) <=> \A i \in 1..m : r[i] = q[i]
    <2>. DEFINE a == [i \in 1..m |-> r[i]]
                b == [i \in 1..m |-> q[i]]
    <2>1. a = b <=> \A i \in 1..m : a[i] = b[i]
      OBVIOUS
    <2>. QED  BY <1>5, <2>1
  <1>7. ASSUME \A i \in 1..m : r[i] = q[i], NEW i \in 1..m
        PROVE  s[i] = t[n - m + i]
    <2>1. (m - i) + 1 \in 1..m /\ (m - i) + 1 \in 1..n
      BY <1>1
    <2>2. /\ r[(m - i) + 1] = s[(m - ((m - i) + 1)) + 1]
          /\ q[(m - i) + 1] = t[(n - ((m - i) + 1)) + 1]
      BY <1>2, <2>1
    <2>3. (m - ((m - i) + 1)) + 1 = i /\ (n - ((m - i) + 1)) + 1 = n - m + i
      BY <1>1
    <2>. QED  BY <1>7, <2>1, <2>2, <2>3
  <1>8. ASSUME \A i \in 1..m : s[i] = t[n - m + i], NEW i \in 1..m
        PROVE  r[i] = q[i]
    <2>1. (m - i) + 1 \in 1..m /\ i \in 1..n /\ n - m + ((m - i) + 1) = (n - i) + 1
      BY <1>1
    <2>2. s[(m - i) + 1] = t[n - m + ((m - i) + 1)]
      BY <1>8, <2>1
    <2>3. r[i] = s[(m - i) + 1] /\ q[i] = t[(n - i) + 1]
      BY <1>2, <2>1
    <2>. QED  BY <2>1, <2>2, <2>3
  <1>. QED  BY <1>6, <1>7, <1>8

LEMMA SuffixFacts ==
  ASSUME NEW X, NEW s \in Seq(X), NEW t \in Seq(X)
  PROVE  /\ IsSuffix(s, t \o s)
         /\ IsSuffix(s, t) => Range(s) \subseteq Range(t)
         /\ t # <<>> /\ IsSuffix(s, Tail(t)) => IsSuffix(s, t)
         /\ IsSuffix(s, <<>>) => s = <<>>
  <1>1. Len(s) \in Nat /\ Len(t) \in Nat /\ DOMAIN s = 1..Len(s) /\ DOMAIN t = 1..Len(t)
    OBVIOUS
  <1>2. IsSuffix(s, t \o s)
    <2>. DEFINE z == t \o s
    <2>1. /\ z \in Seq(X) /\ Len(z) = Len(t) + Len(s)
          /\ \A i \in 1..(Len(t) + Len(s)) : i > Len(t) => z[i] = s[i - Len(t)]
      OBVIOUS
    <2>. HIDE DEF z
    <2>2. ASSUME NEW i \in 1..Len(s) PROVE s[i] = z[Len(z) - Len(s) + i]
      <3>1. /\ Len(z) - Len(s) + i = Len(t) + i /\ Len(t) + i \in 1..(Len(t) + Len(s))
            /\ Len(t) + i > Len(t) /\ (Len(t) + i) - Len(t) = i
        BY <1>1, <2>1
      <3>. QED  BY <2>1, <3>1
    <2>3. Len(s) <= Len(z)
      BY <1>1, <2>1
    <2>4. IsSuffix(s, z)
      BY <2>1, <2>2, <2>3, LastElements
    <2>. QED  BY <2>4 DEF z
  <1>3. ASSUME IsSuffix(s, t) PROVE Range(s) \subseteq Range(t)
    <2>1. Len(s) <= Len(t) /\ \A i \in 1..Len(s) : s[i] = t[Len(t) - Len(s) + i]
      BY <1>3, LastElements
    <2>2. \A i \in 1..Len(s) : Len(t) - Len(s) + i \in 1..Len(t)
      BY <1>1, <2>1
    <2>. QED  BY <1>1, <2>1, <2>2 DEF Range
  <1>4. ASSUME t # <<>>, IsSuffix(s, Tail(t)) PROVE IsSuffix(s, t)
    <2>. DEFINE u == Tail(t)
    <2>1. /\ u \in Seq(X) /\ Len(u) = Len(t) - 1 /\ Len(t) # 0
          /\ \A i \in 1..(Len(t) - 1) : u[i] = t[i + 1]
      BY <1>1, <1>4
    <2>. HIDE DEF u
    <2>2. Len(s) <= Len(u) /\ \A i \in 1..Len(s) : s[i] = u[Len(u) - Len(s) + i]
      BY <1>4, <2>1, LastElements DEF u
    <2>3. ASSUME NEW i \in 1..Len(s) PROVE s[i] = t[Len(t) - Len(s) + i]
      <3>1. /\ Len(u) - Len(s) + i \in 1..(Len(t) - 1)
            /\ (Len(u) - Len(s) + i) + 1 = Len(t) - Len(s) + i
        BY <1>1, <2>1, <2>2
      <3>. QED  BY <2>1, <2>2, <3>1
    <2>4. Len(s) <= Len(t)
      BY <1>1, <2>1, <2>2
    <2>. QED  BY <2>3, <2>4, LastElements
  <1>5. ASSUME IsSuffix(s, <<>>) PROVE s = <<>>
    <2>1. <<>> \in Seq(X) /\ Len(<<>>) = 0
      OBVIOUS
    <2>2. Len(s) <= 0
      BY <1>5, <2>1, LastElements
    <2>. QED  BY <1>1, <2>2
  <1>. QED  BY <1>2, <1>3, <1>4, <1>5

\* A listing of a finite set leaves nobody out.
LEMMA ListedAll ==
  ASSUME NEW S, IsFiniteSet(S)
  PROVE  \A x \in S : \E i \in 1..Cardinality(S) : SetToSeq(S)[i] = x
  <1>. DEFINE n == Cardinality(S)
              f == SetToSeq(S)
  <1>1. n \in Nat /\ ExistsBijection(1..n, S)
    BY FS_CardinalityType
  <1>2. \E g \in [1..n -> S] : IsInjective(g)
    BY <1>1 DEF ExistsBijection, Bijection, Injection
  <1>3. f \in [1..n -> S] /\ IsInjective(f)
    BY <1>2 DEF SetToSeq
  <1>. HIDE DEF n, f
  <1>4. Cardinality(1..n) = Cardinality(S)
    <2>1. Cardinality(1..n) = IF 1 > n THEN 0 ELSE n - 1 + 1
      BY <1>1, FS_Interval
    <2>. QED  BY <1>1, <2>1 DEF n
  <1>5. f \in Injection(1..n, S)
    BY <1>3 DEF Injection, IsInjective
  <1>6. f \in Surjection(1..n, S)
    BY <1>4, <1>5, FS_Injection
  <1>. QED  BY <1>6 DEF Surjection, n, f

USE AccessAssumption, DynSecAssumption

-----------------------------------------------------------------------------
(* The rows                                                                *)

\* A folder holds scanners that are there, and an id is not used again.
Sound(d) == /\ \A k \in Folders : d.folder[k] \subseteq AllScanners(d)
            /\ AllScanners(d) \cap d.deleted = {}

\* What a change of the rows may do to them
Follows(d, e) == e \in Database /\ Sound(e) /\ d.deleted \subseteq e.deleted

Statuses == [Rows -> {"none", "active", "revoked"}]
ScannerRows == UNION {[S -> Row] : S \in SUBSET Scanners}

\* The rows that a change of d is made of
LEMMA Parts ==
  ASSUME NEW d \in Database
  PROVE  /\ d.staff \subseteq Users /\ d.inactive \subseteq Users /\ d.creds \subseteq Users
         /\ d.members \in [Groups -> SUBSET Users] /\ d.baseline \in BOOLEAN
         /\ d.folder \in [Folders -> SUBSET Scanners]
         /\ d.scanners \in ScannerRows /\ AllScanners(d) \subseteq Scanners
         /\ \A s \in AllScanners(d) : d.scanners[s] \in Row
         /\ d.deleted \subseteq Scanners /\ d.status \in Statuses /\ d.lapsed \subseteq Rows
  <1>1. /\ d.staff \subseteq Users /\ d.inactive \subseteq Users /\ d.creds \subseteq Users
        /\ d.members \in [Groups -> SUBSET Users] /\ d.baseline \in BOOLEAN
        /\ d.folder \in [Folders -> SUBSET Scanners]
        /\ d.scanners \in ScannerRows
        /\ d.deleted \subseteq Scanners /\ d.status \in Statuses /\ d.lapsed \subseteq Rows
    BY DEF Database, Statuses, ScannerRows
  <1>2. \A x \in ScannerRows : \E S \in SUBSET Scanners : x \in [S -> Row]
    BY DEF ScannerRows
  <1>3. PICK S \in SUBSET Scanners : d.scanners \in [S -> Row]
    BY <1>1, <1>2
  <1>. QED  BY <1>1, <1>3 DEF AllScanners

LEMMA RowChanges ==
  ASSUME NEW d \in Database, Sound(d)
  PROVE  /\ \A x \in SUBSET Users : /\ Follows(d, [d EXCEPT !.staff = x])
                                   /\ Follows(d, [d EXCEPT !.inactive = x])
                                   /\ Follows(d, [d EXCEPT !.creds = x])
         /\ \A x \in BOOLEAN : Follows(d, [d EXCEPT !.baseline = x])
         /\ \A r \in Rows, v \in {"none", "active", "revoked"} : Follows(d, WithStatus(d, r, v))
         /\ \A r \in Rows : Follows(d, Lapsed(d, r))
         /\ \A G \in Groups, u \in Users : Follows(d, WithMember(d, G, u))
         /\ \A k \in Folders, S \in SUBSET AllScanners(d) : Follows(d, WithFolder(d, k, S))
         /\ \A s \in AllScanners(d), row \in Row : Follows(d, WithScanner(d, s, row))
         /\ \A s \in AllScanners(d) : d.scanners[s].token < MaxToken => Follows(d, WithToken(d, s))
         /\ \A s \in Scanners \ (AllScanners(d) \cup d.deleted) : Follows(d, WithNewScanner(d, s))
         /\ \A s \in AllScanners(d) :
              Follows(d, WithoutScanner(d, s)) /\ s \in WithoutScanner(d, s).deleted
  <1>. USE Parts
  <1>1. ASSUME NEW e \in Database, e.scanners = d.scanners, e.folder = d.folder, e.deleted = d.deleted
        PROVE  Follows(d, e)
    BY <1>1 DEF Follows, Sound, AllScanners
  <1>2. ASSUME NEW x \in SUBSET Users
        PROVE  /\ Follows(d, [d EXCEPT !.staff = x])
               /\ Follows(d, [d EXCEPT !.inactive = x])
               /\ Follows(d, [d EXCEPT !.creds = x])
    <2>1. /\ [d EXCEPT !.staff = x] \in Database
          /\ [d EXCEPT !.inactive = x] \in Database
          /\ [d EXCEPT !.creds = x] \in Database
      BY DEF Database
    <2>. QED  BY <1>1, <2>1 DEF Database
  <1>3. ASSUME NEW x \in BOOLEAN PROVE Follows(d, [d EXCEPT !.baseline = x])
    BY <1>1 DEF Database
  <1>4. ASSUME NEW r \in Rows, NEW v \in {"none", "active", "revoked"}
        PROVE  Follows(d, WithStatus(d, r, v))
    <2>. DEFINE x == [d.status EXCEPT ![r] = v]
    <2>1. WithStatus(d, r, v) = [d EXCEPT !.status = x] /\ x \in Statuses
      BY DEF WithStatus, Statuses
    <2>. HIDE DEF x
    <2>2. [d EXCEPT !.status = x] \in Database
      BY <2>1 DEF Database, Statuses
    <2>. QED  BY <1>1, <2>1, <2>2 DEF Database
  <1>5. ASSUME NEW r \in Rows PROVE Follows(d, Lapsed(d, r))
    <2>1. Lapsed(d, r) \in Database
      BY DEF Database, Lapsed
    <2>. QED  BY <1>1, <2>1 DEF Lapsed, Database
  <1>6. ASSUME NEW G \in Groups, NEW u \in Users PROVE Follows(d, WithMember(d, G, u))
    <2>. DEFINE x == [d.members EXCEPT ![G] = IF u \in @ THEN @ \ {u} ELSE @ \cup {u}]
    <2>1. WithMember(d, G, u) = [d EXCEPT !.members = x] /\ x \in [Groups -> SUBSET Users]
      BY DEF WithMember
    <2>. HIDE DEF x
    <2>. QED  BY <1>1, <2>1 DEF Database
  <1>7. ASSUME NEW k \in Folders, NEW S \in SUBSET AllScanners(d)
        PROVE  Follows(d, WithFolder(d, k, S))
    <2>. DEFINE x == [d.folder EXCEPT ![k] = S]
                e == WithFolder(d, k, S)
    <2>1. e = [d EXCEPT !.folder = x] /\ x \in [Folders -> SUBSET Scanners]
      BY DEF WithFolder
    <2>2. \A j \in Folders : x[j] \subseteq AllScanners(d)
      BY DEF Sound
    <2>. HIDE DEF x, e
    <2>3. e \in Database /\ e.folder = x /\ e.scanners = d.scanners /\ e.deleted = d.deleted
      BY <2>1 DEF Database
    <2>4. Follows(d, e)
      BY <2>2, <2>3 DEF Follows, Sound, AllScanners
    <2>. QED  BY <2>4 DEF e
  <1>8. ASSUME NEW x \in ScannerRows,
               \/ DOMAIN x = AllScanners(d)
               \/ \E s \in Scanners \ d.deleted : DOMAIN x = AllScanners(d) \cup {s}
        PROVE  Follows(d, [d EXCEPT !.scanners = x])
    <2>. DEFINE e == [d EXCEPT !.scanners = x]
    <2>1. e \in Database /\ e.folder = d.folder /\ e.scanners = x /\ e.deleted = d.deleted
      BY DEF Database, ScannerRows
    <2>. HIDE DEF e
    <2>2. /\ \A k \in Folders : d.folder[k] \subseteq DOMAIN x
          /\ DOMAIN x \cap d.deleted = {}
      <3>1. /\ \A k \in Folders : d.folder[k] \subseteq AllScanners(d)
            /\ AllScanners(d) \cap d.deleted = {}
        BY DEF Sound
      <3>2. CASE DOMAIN x = AllScanners(d)
        BY <3>1, <3>2
      <3>3. ASSUME NEW s \in Scanners \ d.deleted, DOMAIN x = AllScanners(d) \cup {s}
            PROVE  /\ \A k \in Folders : d.folder[k] \subseteq DOMAIN x
                   /\ DOMAIN x \cap d.deleted = {}
        BY <3>1, <3>3
      <3>. QED  BY <1>8, <3>2, <3>3
    <2>3. Follows(d, e)
      BY <2>1, <2>2 DEF Follows, Sound, AllScanners
    <2>. QED  BY <2>3 DEF e
  <1>9. ASSUME NEW s \in AllScanners(d), NEW row \in Row PROVE Follows(d, WithScanner(d, s, row))
    <2>. DEFINE x == [d.scanners EXCEPT ![s] = row]
    <2>1. WithScanner(d, s, row) = [d EXCEPT !.scanners = x]
      BY DEF WithScanner
    <2>2. x \in ScannerRows /\ DOMAIN x = AllScanners(d)
      BY DEF ScannerRows, AllScanners
    <2>. QED  BY <1>8, <2>1, <2>2
  <1>10. ASSUME NEW s \in AllScanners(d), d.scanners[s].token < MaxToken
         PROVE  Follows(d, WithToken(d, s))
    <2>. DEFINE row == [d.scanners[s] EXCEPT !.token = @ + 1]
                x   == [d.scanners EXCEPT ![s] = row]
    <2>1. row \in Row
      BY <1>10 DEF Row
    <2>2. WithToken(d, s) = [d EXCEPT !.scanners = x]
      BY DEF WithToken
    <2>. HIDE DEF row
    <2>3. x \in ScannerRows /\ DOMAIN x = AllScanners(d)
      BY <2>1 DEF ScannerRows, AllScanners
    <2>. QED  BY <1>8, <2>2, <2>3
  <1>11. ASSUME NEW s \in Scanners \ (AllScanners(d) \cup d.deleted)
         PROVE  Follows(d, WithNewScanner(d, s))
    <2>. DEFINE row == [enabled |-> TRUE, token |-> 0]
                x   == [t \in AllScanners(d) \cup {s} |-> IF t = s THEN row ELSE d.scanners[t]]
    <2>1. row \in Row
      BY DEF Row
    <2>2. WithNewScanner(d, s) = [d EXCEPT !.scanners = x]
      BY DEF WithNewScanner
    <2>. HIDE DEF row
    <2>3. x \in [AllScanners(d) \cup {s} -> Row] /\ AllScanners(d) \cup {s} \subseteq Scanners
      BY <2>1
    <2>4. x \in ScannerRows /\ DOMAIN x = AllScanners(d) \cup {s}
      BY <2>3 DEF ScannerRows
    <2>. HIDE DEF x
    <2>5. Follows(d, [d EXCEPT !.scanners = x])
      BY <1>8, <2>4
    <2>. QED  BY <2>2, <2>5
  <1>12. ASSUME NEW s \in AllScanners(d)
         PROVE  Follows(d, WithoutScanner(d, s)) /\ s \in WithoutScanner(d, s).deleted
    <2>. DEFINE x == [t \in AllScanners(d) \ {s} |-> d.scanners[t]]
                y == d.deleted \cup {s}
                z == [k \in Folders |-> d.folder[k] \ {s}]
                u == [r \in Rows |-> IF r \in Grants /\ GrantOf[r].scope = s THEN "none"
                                     ELSE d.status[r]]
                e == WithoutScanner(d, s)
    <2>1. e = [d EXCEPT !.scanners = x, !.deleted = y, !.folder = z, !.status = u]
      BY DEF WithoutScanner
    <2>2. x \in [AllScanners(d) \ {s} -> Row] /\ AllScanners(d) \ {s} \subseteq Scanners
      OBVIOUS
    <2>3. x \in ScannerRows /\ DOMAIN x = AllScanners(d) \ {s}
      BY <2>2 DEF ScannerRows
    <2>4. /\ y \subseteq Scanners /\ z \in [Folders -> SUBSET Scanners] /\ u \in Statuses
          /\ d.deleted \subseteq y /\ s \in y
          /\ (AllScanners(d) \ {s}) \cap y = {}
          /\ \A k \in Folders : z[k] \subseteq AllScanners(d) \ {s}
      BY DEF Sound, Statuses
    <2>. HIDE DEF x, y, z, u, e
    <2>5. e \in Database /\ e.scanners = x /\ e.deleted = y /\ e.folder = z
      BY <2>1, <2>3, <2>4 DEF Database, ScannerRows, Statuses
    <2>6. Follows(d, e) /\ s \in e.deleted
      BY <2>3, <2>4, <2>5 DEF Follows, Sound, AllScanners
    <2>. QED  BY <2>6 DEF e
  <1>. QED  BY <1>2, <1>3, <1>4, <1>5, <1>6, <1>7, <1>9, <1>10, <1>11, <1>12

-----------------------------------------------------------------------------
(* What the rows allow                                                     *)

LEMMA GrantsReach ==
  ASSUME NEW d \in Database, Sound(d)
  PROVE  /\ \A g \in Grants : GrantScanners(d, g) \subseteq AllScanners(d)
         /\ \A u : AccessibleScanners(d, u) \subseteq AllScanners(d)
         /\ \A u : RwScanners(d, u) \subseteq AccessibleScanners(d, u)
  <1>1. \A g \in Grants : GrantScanners(d, g) \subseteq AllScanners(d)
    BY DEF GrantScanners, Sound
  <1>. QED  BY <1>1 DEF AccessibleScanners, RwScanners, RwGrants, ActiveGrants

\* A session of a request
Acting(x) == x \in Session /\ x.user \in Users

LEMMA InScope ==
  ASSUME NEW d \in Database, Sound(d), NEW x, Acting(x)
  PROVE  /\ Scope(d, x) \subseteq AllScanners(d)
         /\ x.user \in d.staff => Scope(d, x) = AllScanners(d)
         /\ RwScanners(d, x.user) \subseteq Scope(d, x)
         /\ AccessibleScanners(d, x.user) \subseteq Scope(d, x)
  <1>1. x.grant \in Grants \cup {None}
    BY DEF Acting, Session
  <1>. QED  BY <1>1, GrantsReach DEF Scope

LEMMA ReadersWrite ==
  ASSUME db \in Database, Sound(db), session \in Session \cup {None}
  PROVE  WritersMayRead
  <1>. SUFFICES ASSUME Request
                PROVE  WritersMayRead
    BY DEF WritersMayRead
  <1>. DEFINE x == session
              rw == RwScanners(db, x.user)
  <1>1. Acting(x)
    BY DEF Request, Acting, Session
  <1>2. rw \subseteq Scope(db, x)
    BY <1>1, InScope
  <1>3. ASSUME NEW k \in VisibleFolders(db, x) PROVE db.folder[k] \subseteq Scope(db, x)
    <2>1. CASE x.user \in db.staff \/ ReadsAll(db, x)
      <3>1. k \in Folders /\ Scope(db, x) = AllScanners(db)
        BY <2>1 DEF VisibleFolders, Scope
      <3>. QED  BY <3>1 DEF Sound
    <2>2. CASE k \in AccessibleFolders(db, x.user)
      <3>1. db.folder[k] \subseteq AccessibleScanners(db, x.user)
        BY <2>2 DEF AccessibleFolders, AccessibleScanners, GrantScanners
      <3>. QED  BY <1>1, <3>1, InScope
    <2>. QED  BY <2>1, <2>2 DEF VisibleFolders
  <1>4. ASSUME NEW s \in AllScanners(db), MayCreateFrequency(db, x, s)
        PROVE  LET f == [scanners |-> {s}, folders |-> {}]
               IN  MayWriteFrequency(db, x, f) /\ Listed(db, x, f) /\ ListedFor(db, x, f, s)
    <2>. DEFINE f == [scanners |-> {s}, folders |-> {}]
    <2>1. s \in Scope(db, x)
      BY <1>1, <1>4, InScope DEF MayCreateFrequency
    <2>2. f.scanners = {s} /\ f.folders = {}
      OBVIOUS
    <2>. HIDE DEF f
    <2>3. MayWriteFrequency(db, x, f)
      BY <1>4, <2>2 DEF MayCreateFrequency, MayWriteFrequency
    <2>4. Listed(db, x, f) /\ ListedFor(db, x, f, s)
      BY <2>1, <2>2 DEF Listed, ListedFor, AppliesTo
    <2>. QED  BY <2>3, <2>4 DEF f
  <1>5. ASSUME NEW s \in AllScanners(db), ~x.readonly
        PROVE  MayWriteScanner(db, x, s) <=> ShownPermission(db, x.user, s) = "rw"
    <2>1. MayWriteScanner(db, x, s) <=> x.user \in db.staff \/ s \in rw
      BY <1>1, <1>5, InScope DEF MayWriteScanner
    <2>2. s \in rw <=> {g \in ActiveGrants(db, x.user) : s \in GrantScanners(db, g)}
                         \cap RwGrants(db, x.user) # {}
      BY DEF RwScanners, RwGrants
    <2>. QED  BY <2>1, <2>2 DEF ShownPermission
  <1>6. ASSUME NEW f \in Frequency, NEW k \in f.folders, MayWriteFolder(db, x, k)
        PROVE  MayWriteFrequency(db, x, f)
    BY <1>6 DEF MayWriteFolder, MayWriteFrequency
  <1>. QED  BY <1>2, <1>3, <1>4, <1>5, <1>6 DEF WritersMayRead

-----------------------------------------------------------------------------
(* What a client should hold                                               *)

LEMMA DesiredRoles ==
  ASSUME NEW d \in Database, NEW u, NEW grant \in Grants \cup {None}, NEW staff, NEW global
  PROVE  Desired(d, u, staff, grant, global) \subseteq Role
  <1>1. \A g \in Grants : GrantScanners(d, g) \subseteq Scanners
    BY Parts DEF GrantScanners
  <1>2. ActiveGrants(d, u) \subseteq Grants
    BY DEF ActiveGrants
  <1>. QED  BY <1>1, <1>2 DEF Desired, Role

LEMMA ScopesAgree ==
  ASSUME db \in Database, Sound(db), session \in Session \cup {None}
  PROVE  ScopeMirrored
  <1>. SUFFICES ASSUME Request
                PROVE  ScopeMirrored
    BY DEF ScopeMirrored
  <1>. DEFINE x == session
              i == [UserItem(db, x.user, FALSE) EXCEPT !.grant = x.grant, !.global = GlobalRead(x)]
              R == Plan(db, i)
  <1>1. /\ Acting(x) /\ x.user \notin db.inactive /\ x.grant \in Grants \cup {None}
        /\ x.readonly \in BOOLEAN
    BY DEF Request, Acting, Session
  <1>2. R = Desired(db, x.user, x.user \in db.staff, x.grant, GlobalRead(x))
    BY <1>1 DEF Plan, UserItem
  <1>. HIDE DEF R, i
  <1>. DEFINE held == ActiveGrants(db, x.user)
                        \cup (IF x.grant # None /\ IsValid(db, x.grant) THEN {x.grant} ELSE {})
              rw   == UNION {GrantScanners(db, g) : g \in {h \in held : GrantOf[h].permission = "rw"}}
              all  == UNION {GrantScanners(db, g) : g \in held}
  <1>3. CASE x.user \in db.staff
    <2>1. R = {<<"staff-all">>}
      BY <1>2, <1>3 DEF Desired
    <2>2. Reads(R, db) = AllScanners(db) /\ Writes(R, db) = AllScanners(db)
      BY <2>1 DEF Reads, Writes
    <2>3. Scope(db, x) = AllScanners(db)
      BY <1>3 DEF Scope
    <2>4. ~x.readonly => \A s \in AllScanners(db) : MayWriteScanner(db, x, s)
      BY <1>3, <2>3 DEF MayWriteScanner
    <2>. QED  BY <2>2, <2>3, <2>4 DEF ScopeMirrored, R, i
  <1>4. CASE x.user \notin db.staff /\ GlobalRead(x)
    <2>1. R = {<<"read-all">>}
      BY <1>2, <1>4 DEF Desired
    <2>2. Reads(R, db) = AllScanners(db) /\ Scope(db, x) = AllScanners(db) /\ x.readonly
      BY <1>4, <2>1 DEF Reads, Scope, GlobalRead
    <2>. QED  BY <2>2 DEF ScopeMirrored, R, i
  <1>5. CASE x.user \notin db.staff /\ ~GlobalRead(x)
    <2>1. R = ({"rw"} \X rw) \cup ({"read"} \X (all \ rw))
                \cup (IF x.grant = None /\ HasViewPerm(db, x.user) THEN {<<"read-all">>} ELSE {})
      BY <1>2, <1>5 DEF Desired
    <2>2. held \subseteq Grants
      BY <1>1 DEF ActiveGrants
    <2>3. rw \subseteq all /\ all \subseteq AllScanners(db)
      BY <2>2, GrantsReach
    <2>4. all = AccessibleScanners(db, x.user)
                  \cup (IF x.grant # None /\ IsValid(db, x.grant) THEN GrantScanners(db, x.grant) ELSE {})
      BY DEF AccessibleScanners
    <2>5. x.grant = None => rw = RwScanners(db, x.user)
      BY DEF RwScanners, RwGrants
    <2>. HIDE DEF held, rw, all
    <2>6. \A s : /\ <<"read", s>> \in R <=> s \in all \ rw
                 /\ <<"rw", s>> \in R <=> s \in rw
      BY <2>1
    <2>7. /\ <<"read-all">> \in R <=> x.grant = None /\ HasViewPerm(db, x.user)
          /\ <<"staff-all">> \notin R
      BY <2>1
    <2>8. Reads(R, db) = Scope(db, x)
      <3>1. CASE x.grant = None /\ HasViewPerm(db, x.user)
        <4>1. Scope(db, x) = AllScanners(db)
          BY <1>5, <3>1 DEF Scope, ReadsAll, GlobalRead
        <4>. QED  BY <2>7, <3>1, <4>1 DEF Reads
      <3>2. CASE ~(x.grant = None /\ HasViewPerm(db, x.user))
        <4>1. Scope(db, x) = all
          BY <1>5, <2>4, <3>2 DEF Scope, ReadsAll, GlobalRead
        <4>2. Reads(R, db) = {s \in AllScanners(db) : <<"read", s>> \in R \/ <<"rw", s>> \in R}
          BY <2>7, <3>2 DEF Reads
        <4>. QED  BY <2>3, <2>6, <4>1, <4>2
      <3>. QED  BY <3>1, <3>2
    <2>9. ASSUME x.grant = None, ~x.readonly
          PROVE  Writes(R, db) = {s \in AllScanners(db) : MayWriteScanner(db, x, s)}
      <3>1. Writes(R, db) = {s \in AllScanners(db) : s \in rw}
        BY <2>6, <2>7 DEF Writes
      <3>2. \A s \in AllScanners(db) : MayWriteScanner(db, x, s) <=> s \in RwScanners(db, x.user)
        BY <1>1, <1>5, <2>9, InScope DEF MayWriteScanner
      <3>. QED  BY <2>5, <2>9, <3>1, <3>2
    <2>. QED  BY <2>8, <2>9 DEF ScopeMirrored, R, i
  <1>. QED  BY <1>3, <1>4, <1>5

-----------------------------------------------------------------------------
(* Agendas                                                                 *)

LEMMA Listing ==
  ASSUME NEW S, IsFiniteSet(S)
  PROVE  Cardinality(S) \in Nat /\ SetToSeq(S) \in [1..Cardinality(S) -> S]
  <1>1. Cardinality(S) \in Nat /\ ExistsBijection(1..Cardinality(S), S)
    BY FS_CardinalityType
  <1>2. \E f \in [1..Cardinality(S) -> S] : IsInjective(f)
    BY <1>1 DEF ExistsBijection, Bijection, Injection
  <1>. QED  BY <1>1, <1>2 DEF SetToSeq

\* What an agenda may name: nothing but deleted scanners is forgotten.
Forgets(items, D) == \A i \in DOMAIN items : items[i].kind = "forget" => items[i].name \in D

LEMMA UserListed ==
  ASSUME NEW d \in Database, NEW U \in SUBSET Users, NEW guarded \in BOOLEAN, NEW D
  PROVE  /\ \A u \in Users : UserItem(d, u, guarded) \in Item
         /\ UserItems(d, U, guarded) \in Seq(Item) /\ Forgets(UserItems(d, U, guarded), D)
  <1>1. ASSUME NEW u \in Users
        PROVE  UserItem(d, u, guarded) \in Item /\ UserItem(d, u, guarded).kind = "user"
    <2>. DEFINE Made(a, b) ==
            [kind |-> "user", name |-> u, guarded |-> guarded, staff |-> a,
             inactive |-> b, grant |-> None, global |-> FALSE]
    <2>1. ASSUME NEW a \in BOOLEAN, NEW b \in BOOLEAN
          PROVE  Made(a, b) \in Item /\ Made(a, b).kind = "user"
      BY <1>1 DEF Item
    <2>2. UserItem(d, u, guarded) = Made(u \in d.staff, u \in d.inactive)
      BY DEF UserItem
    <2>3. (u \in d.staff) \in BOOLEAN /\ (u \in d.inactive) \in BOOLEAN
      OBVIOUS
    <2>. HIDE DEF Made
    <2>. QED  BY <2>1, <2>2, <2>3, Zenon
  <1>2. IsFiniteSet(U)
    BY FS_Subset
  <1>3. Cardinality(U) \in Nat /\ SetToSeq(U) \in [1..Cardinality(U) -> U]
    BY <1>2, Listing
  <1>. DEFINE its == UserItems(d, U, guarded)
              n   == Cardinality(U)
              f   == SetToSeq(U)
  <1>4. its = [i \in 1..n |-> UserItem(d, f[i], guarded)]
    BY DEF UserItems
  <1>. HIDE DEF its, n, f
  <1>5. \A i \in 1..n : UserItem(d, f[i], guarded) \in Item
                          /\ UserItem(d, f[i], guarded).kind = "user"
    BY <1>1, <1>3 DEF n, f
  <1>6. its \in Seq(Item) /\ DOMAIN its = 1..n /\ \A i \in 1..n : its[i].kind = "user"
    <2>1. n \in Nat
      BY <1>3 DEF n
    <2>. QED  BY <1>4, <1>5, <2>1
  <1>. QED  BY <1>1, <1>6 DEF Forgets, its

LEMMA ScannerListed ==
  ASSUME NEW d \in Database, NEW S \in SUBSET AllScanners(d), NEW password \in BOOLEAN, NEW D
  PROVE  /\ \A s \in AllScanners(d) : ScannerItem(d, s, password) \in Item
                                      /\ ScannerItem(d, s, password).kind = "scanner"
         /\ ScannerItems(d, S) \in Seq(Item) /\ Forgets(ScannerItems(d, S), D)
  <1>1. ASSUME NEW s \in AllScanners(d), NEW p \in BOOLEAN
        PROVE  ScannerItem(d, s, p) \in Item /\ ScannerItem(d, s, p).kind = "scanner"
    <2>1. s \in Scanners /\ d.scanners[s] \in Row
      BY Parts
    <2>. QED  BY <2>1 DEF ScannerItem, Item
  <1>2. IsFiniteSet(S)
    BY Parts, FS_Subset
  <1>3. Cardinality(S) \in Nat /\ SetToSeq(S) \in [1..Cardinality(S) -> S]
    BY <1>2, Listing
  <1>. DEFINE its == ScannerItems(d, S)
              n   == Cardinality(S)
              f   == SetToSeq(S)
  <1>4. its = [i \in 1..n |-> ScannerItem(d, f[i], FALSE)]
    BY DEF ScannerItems
  <1>. HIDE DEF its, n, f
  <1>5. \A i \in 1..n : ScannerItem(d, f[i], FALSE) \in Item
                          /\ ScannerItem(d, f[i], FALSE).kind = "scanner"
    BY <1>1, <1>3 DEF n, f
  <1>6. its \in Seq(Item) /\ DOMAIN its = 1..n /\ \A i \in 1..n : its[i].kind = "scanner"
    <2>1. n \in Nat
      BY <1>3 DEF n
    <2>2. its \in [1..n -> Item]
      BY <1>4, <1>5
    <2>3. its \in Seq(Item)
      BY <2>1, <2>2
    <2>4. \A i \in 1..n : its[i].kind = "scanner"
      BY <1>4, <1>5
    <2>. QED  BY <2>2, <2>3, <2>4
  <1>. QED  BY <1>1, <1>6 DEF Forgets, its

LEMMA QueryLast ==
  ASSUME NEW items \in Seq(Item), NEW of \in Folders \cup {All}, NEW D, Forgets(items, D)
  PROVE  items \o <<QueryItem(of)>> \in Seq(Item) /\ Forgets(items \o <<QueryItem(of)>>, D)
  <1>. DEFINE q   == QueryItem(of)
              its == items \o <<q>>
  <1>1. q \in Item /\ q.kind = "query"
    BY DEF QueryItem, Item
  <1>. HIDE DEF q
  <1>2. /\ its \in Seq(Item) /\ DOMAIN its = 1..(Len(items) + 1)
        /\ \A i \in 1..Len(items) : its[i] = items[i]
        /\ its[Len(items) + 1] = q
    BY <1>1
  <1>. HIDE DEF its
  <1>3. ASSUME NEW i \in DOMAIN its, its[i].kind = "forget"
        PROVE  its[i].name \in D
    <2>1. i # Len(items) + 1
      BY <1>1, <1>2, <1>3
    <2>2. i \in 1..Len(items) /\ DOMAIN items = 1..Len(items)
      BY <1>2, <1>3, <2>1
    <2>. QED  BY <1>2, <1>3, <2>2 DEF Forgets
  <1>. QED  BY <1>2, <1>3 DEF Forgets, its, q

LEMMA JobListed ==
  ASSUME NEW d \in Database, NEW j \in Job, NEW D, j.job = "forget" => j.of \in D
  PROVE  JobItems(d, j) \in Seq(Item) /\ Forgets(JobItems(d, j), D)
  <1>1. CASE j.job = "user"
    <2>1. JobItems(d, j) = <<UserItem(d, j.of, FALSE)>> /\ j.of \in Users
      BY <1>1 DEF JobItems, Job
    <2>. DEFINE i == UserItem(d, j.of, FALSE)
    <2>2. i \in Item /\ i.kind = "user"
      BY <2>1, UserListed DEF UserItem
    <2>3. JobItems(d, j) = <<i>>
      BY <2>1
    <2>. HIDE DEF i
    <2>. QED  BY <2>2, <2>3 DEF Forgets
  <1>2. CASE j.job = "scanner"
    <2>1. j.password \in BOOLEAN
      BY <1>2 DEF Job
    <2>2. CASE j.of \in AllScanners(d)
      <3>1. JobItems(d, j) = <<ScannerItem(d, j.of, j.password)>>
        BY <1>2, <2>2 DEF JobItems
      <3>2. /\ ScannerItem(d, j.of, j.password) \in Item
            /\ ScannerItem(d, j.of, j.password).kind = "scanner"
        BY <2>1, <2>2, ScannerListed
      <3>. QED  BY <3>1, <3>2 DEF Forgets
    <2>3. CASE j.of \notin AllScanners(d)
      <3>1. JobItems(d, j) = <<>>
        BY <1>2, <2>3 DEF JobItems
      <3>. QED  BY <3>1 DEF Forgets
    <2>. QED  BY <2>2, <2>3
  <1>3. CASE j.job = "forget"
    <2>1. JobItems(d, j) = <<ForgetItem(j.of)>> /\ j.of \in Scanners /\ j.of \in D
      BY <1>3 DEF JobItems, Job
    <2>2. ForgetItem(j.of) \in Item /\ ForgetItem(j.of).name \in D
      BY <2>1 DEF ForgetItem, Item
    <2>. QED  BY <2>1, <2>2 DEF Forgets
  <1>4. CASE j.job = "folder"
    <2>. DEFINE S == j.scanners \cap AllScanners(d)
    <2>1. JobItems(d, j) = ScannerItems(d, S) \o <<QueryItem(j.of)>> /\ j.of \in Folders
      BY <1>4 DEF JobItems, Job
    <2>2. ScannerItems(d, S) \in Seq(Item) /\ Forgets(ScannerItems(d, S), D)
      BY ScannerListed
    <2>. DEFINE its == ScannerItems(d, S)
    <2>. HIDE DEF its
    <2>3. /\ its \o <<QueryItem(j.of)>> \in Seq(Item)
          /\ Forgets(its \o <<QueryItem(j.of)>>, D)
      BY <2>1, <2>2, QueryLast DEF its
    <2>. QED  BY <2>1, <2>3 DEF its
  <1>5. CASE j.job = "members"
    <2>. DEFINE U == d.members[j.of] \cap d.creds
    <2>1. JobItems(d, j) = UserItems(d, U, TRUE) /\ j.of \in Groups
      BY <1>5 DEF JobItems, Job
    <2>2. U \in SUBSET Users
      BY Parts
    <2>. HIDE DEF U
    <2>3. UserItems(d, U, TRUE) \in Seq(Item) /\ Forgets(UserItems(d, U, TRUE), D)
      BY <2>2, UserListed
    <2>. QED  BY <2>1, <2>3
  <1>. QED  BY <1>1, <1>2, <1>3, <1>4, <1>5 DEF Job

LEMMA SyncListed ==
  ASSUME NEW d \in Database, NEW D
  PROVE  SyncItems(d) \in Seq(Item) /\ Forgets(SyncItems(d), D)
  <1>1. /\ ScannerItems(d, AllScanners(d)) \in Seq(Item)
        /\ Forgets(ScannerItems(d, AllScanners(d)), D)
    BY ScannerListed
  <1>. QED  BY <1>1, QueryLast DEF SyncItems

\* Whom an item is about
LEMMA About ==
  ASSUME NEW i \in Item, db \in Database
  PROVE  /\ Subjects(i) \subseteq Users \cup Scanners
         /\ i.kind # "query" => i.name \in Users \cup Scanners
         /\ i.kind = "user" => /\ i.name \in Users /\ i.grant \in Grants \cup {None}
         /\ i.kind = "scanner" => i.name \in Scanners /\ i.row \in Row
         /\ i.kind = "forget" => i.name \in Scanners
  <1>1. /\ i.kind \in {"user", "scanner", "forget", "query"}
        /\ i.kind = "user" => /\ i.name \in Users /\ i.grant \in Grants \cup {None}
        /\ i.kind = "scanner" => i.name \in Scanners /\ i.row \in Row
        /\ i.kind = "forget" => i.name \in Scanners
    BY DEF Item
  <1>2. \A of : Queried(db, of) \subseteq Users
    BY Parts DEF Queried, FolderUsers
  <1>. QED  BY <1>1, <1>2 DEF Subjects

LEMMA Dropping ==
  ASSUME NEW items \in Seq(Item), items # <<>>, NEW D, Forgets(items, D)
  PROVE  /\ Head(items) \in Item /\ Tail(items) \in Seq(Item)
         /\ Len(Tail(items)) < Len(items) /\ Forgets(Tail(items), D)
         /\ Head(items).kind = "forget" => Head(items).name \in D
  <1>1. /\ Head(items) \in Item /\ Tail(items) \in Seq(Item)
        /\ Len(Tail(items)) < Len(items)
        /\ \A i \in DOMAIN Tail(items) : Tail(items)[i] = items[i + 1] /\ i + 1 \in DOMAIN items
        /\ Head(items) = items[1] /\ 1 \in DOMAIN items
    OBVIOUS
  <1>. QED  BY <1>1 DEF Forgets

LEMMA Joining ==
  ASSUME NEW p \in Seq(Item), NEW q \in Seq(Item), NEW D, Forgets(p, D), Forgets(q, D)
  PROVE  p \o q \in Seq(Item) /\ Forgets(p \o q, D)
  <1>. DEFINE z == p \o q
  <1>1. /\ z \in Seq(Item) /\ DOMAIN p = 1..Len(p) /\ DOMAIN q = 1..Len(q)
        /\ DOMAIN z = 1..(Len(p) + Len(q)) /\ Len(p) \in Nat /\ Len(q) \in Nat
        /\ \A i \in 1..Len(p) : z[i] = p[i]
        /\ \A i \in 1..(Len(p) + Len(q)) : i > Len(p) => z[i] = q[i - Len(p)]
    OBVIOUS
  <1>. HIDE DEF z
  <1>2. ASSUME NEW i \in DOMAIN z, i \notin DOMAIN p
        PROVE  i - Len(p) \in DOMAIN q /\ z[i] = q[i - Len(p)]
    <2>1. i \in Int /\ i > Len(p) /\ i <= Len(p) + Len(q)
      BY <1>1, <1>2
    <2>2. i - Len(p) \in 1..Len(q)
      BY <1>1, <2>1
    <2>. QED  BY <1>1, <1>2, <2>1, <2>2
  <1>3. Forgets(z, D)
    BY <1>1, <1>2 DEF Forgets
  <1>. QED  BY <1>1, <1>3 DEF z

-----------------------------------------------------------------------------
(* The inductive invariant                                                 *)

Client     == [roles : SUBSET Role, token : 0..MaxToken]
BrokerType == [roles : SUBSET Scanners, clients : Partial(Users \cup Scanners, Client)]

Agendas == [items : Seq(Item),
            pc : {"start", "get", "diff", "client", "password", "role", "roles"},
            add : SUBSET Role, remove : SUBSET Role, want : SUBSET Role, clean : BOOLEAN]

\* Scanners that are deleted, or will be when the open transaction commits
Doomed == (IF txn = None THEN db ELSE txn.rows).deleted

RowsOK ==
  /\ db \in Database /\ Sound(db) /\ session \in Session \cup {None}
  /\ txn \in Transaction \cup {None}
  /\ txn # None => Follows(db, txn.rows)

\* Only a scanner that is deleted is forgotten.
Drops(jobs, D) == \A i \in DOMAIN jobs : jobs[i].job = "forget" => jobs[i].of \in D

JobsOK ==
  /\ queue \in Seq(Job)
  /\ Drops(queue, Doomed)

TasksOK ==
  /\ task \in [Threads -> Agendas]
  /\ \A t \in Threads : Forgets(task[t].items, Doomed)

BrokerOK == broker \in BrokerType /\ late \in [{"server", "sched"} -> Answer \cup {None}]

RestOK == drift \subseteq Users \cup Scanners /\ calm \in BOOLEAN /\ events \in 0..MaxEvents

\* A thread that got every answer for its user's client, and had it for itself,
\* has given it what is no longer on its list of roles to add.
GivenTo(t) ==
  Busy(t) /\ Now(t).kind = "user" /\ task[t].pc \in {"get", "diff"} /\ task[t].clean =>
    /\ Now(t).name \in DOMAIN broker.clients
    /\ task[t].pc = "diff" =>
         /\ task[t].remove \cap task[t].want = {}
         /\ \A r \in task[t].want \ task[t].add :
              ScannerOf(r) \cap Doomed = {} => r \in RolesOf(Now(t).name)

Given == \A t \in Threads : GivenTo(t)

Types == RowsOK /\ JobsOK /\ TasksOK /\ BrokerOK /\ RestOK
IInv  == Types /\ Given

-----------------------------------------------------------------------------
(* Changes of the rows                                                     *)

\* Jobs that forget nothing
Plain(jobs) == jobs \in Seq(Job) /\ \A i \in DOMAIN jobs : jobs[i].job # "forget"

LEMMA PlainJobs ==
  /\ Plain(<<>>)
  /\ \A d, u : u \in Users => Plain(UserSaved(d, u))
  /\ \A s \in Scanners, p \in BOOLEAN : Plain(<<ScannerJob(s, p)>>)
  /\ \A k \in Folders, S \in SUBSET Scanners : Plain(<<FolderJob(k, S)>>)
  /\ \A g \in Grants : Plain(GrantChanged(g))
  <1>1. ASSUME NEW j \in Job, j.job # "forget" PROVE Plain(<<j>>)
    BY <1>1 DEF Plain
  <1>2. Plain(<<>>)
    BY DEF Plain
  <1>3. ASSUME NEW u \in Users PROVE Plain(<<UserJob(u)>>)
    <2>1. UserJob(u) \in Job /\ UserJob(u).job # "forget"
      BY DEF UserJob, Job
    <2>. QED  BY <1>1, <2>1
  <1>4. ASSUME NEW s \in Scanners, NEW p \in BOOLEAN PROVE Plain(<<ScannerJob(s, p)>>)
    <2>1. ScannerJob(s, p) \in Job /\ ScannerJob(s, p).job # "forget"
      BY DEF ScannerJob, Job
    <2>. QED  BY <1>1, <2>1
  <1>5. ASSUME NEW k \in Folders, NEW S \in SUBSET Scanners PROVE Plain(<<FolderJob(k, S)>>)
    <2>1. FolderJob(k, S) \in Job /\ FolderJob(k, S).job # "forget"
      BY DEF FolderJob, Job
    <2>. QED  BY <1>1, <2>1
  <1>6. ASSUME NEW G \in Groups PROVE Plain(<<MembersJob(G)>>)
    <2>1. MembersJob(G) \in Job /\ MembersJob(G).job # "forget"
      BY DEF MembersJob, Job
    <2>. QED  BY <1>1, <2>1
  <1>7. ASSUME NEW g \in Grants PROVE Plain(GrantChanged(g))
    <2>1. CASE GrantOf[g].who \in Users
      BY <1>3, <2>1 DEF GrantChanged
    <2>2. CASE GrantOf[g].who \notin Users /\ GrantOf[g].who \in Groups
      BY <1>6, <2>2 DEF GrantChanged
    <2>3. CASE GrantOf[g].who \notin Users /\ GrantOf[g].who \notin Groups
      BY <1>2, <2>3 DEF GrantChanged
    <2>. QED  BY <2>1, <2>2, <2>3
  <1>. QED  BY <1>2, <1>3, <1>4, <1>5, <1>7 DEF UserSaved

LEMMA PlainDrops ==
  ASSUME NEW jobs, Plain(jobs), NEW D
  PROVE  jobs \in Seq(Job) /\ Drops(jobs, D)
  BY DEF Plain, Drops

LEMMA ForgetLast ==
  ASSUME NEW jobs, Plain(jobs), NEW s \in Scanners, NEW D, s \in D
  PROVE  jobs \o <<ForgetJob(s)>> \in Seq(Job) /\ Drops(jobs \o <<ForgetJob(s)>>, D)
  <1>. DEFINE j == ForgetJob(s)
  <1>1. j \in Job /\ j.of = s
    BY DEF ForgetJob, Job
  <1>. HIDE DEF j
  <1>2. jobs \in Seq(Job) /\ \A i \in DOMAIN jobs : jobs[i].job # "forget"
    BY DEF Plain
  <1>. DEFINE all == jobs \o <<j>>
  <1>3. /\ all \in Seq(Job) /\ DOMAIN all = 1..(Len(jobs) + 1) /\ DOMAIN jobs = 1..Len(jobs)
        /\ \A i \in 1..Len(jobs) : all[i] = jobs[i]
        /\ all[Len(jobs) + 1] = j
    BY <1>1, <1>2
  <1>. HIDE DEF all
  <1>4. ASSUME NEW i \in DOMAIN all, all[i].job = "forget" PROVE all[i].of \in D
    <2>1. CASE i \in 1..Len(jobs)
      BY <1>2, <1>3, <1>4, <2>1
    <2>2. CASE i = Len(jobs) + 1
      BY <1>1, <1>3, <2>2
    <2>. QED  BY <1>2, <1>3, <2>1, <2>2
  <1>. QED  BY <1>3, <1>4 DEF Drops, all, j

LEMMA Queueing ==
  ASSUME NEW p \in Seq(Job), NEW q \in Seq(Job), NEW D, Drops(p, D), Drops(q, D)
  PROVE  p \o q \in Seq(Job) /\ Drops(p \o q, D)
  <1>. DEFINE z == p \o q
  <1>1. /\ z \in Seq(Job) /\ DOMAIN p = 1..Len(p) /\ DOMAIN q = 1..Len(q)
        /\ DOMAIN z = 1..(Len(p) + Len(q)) /\ Len(p) \in Nat /\ Len(q) \in Nat
        /\ \A i \in 1..Len(p) : z[i] = p[i]
        /\ \A i \in 1..(Len(p) + Len(q)) : i > Len(p) => z[i] = q[i - Len(p)]
    OBVIOUS
  <1>. HIDE DEF z
  <1>2. ASSUME NEW i \in DOMAIN z, i \notin DOMAIN p
        PROVE  i - Len(p) \in DOMAIN q /\ z[i] = q[i - Len(p)]
    <2>1. i \in Int /\ i > Len(p) /\ i <= Len(p) + Len(q)
      BY <1>1, <1>2
    <2>2. i - Len(p) \in 1..Len(q)
      BY <1>1, <2>1
    <2>. QED  BY <1>1, <1>2, <2>1, <2>2
  <1>3. Drops(z, D)
    BY <1>1, <1>2 DEF Drops
  <1>. QED  BY <1>1, <1>3 DEF z

-----------------------------------------------------------------------------
(* What a change of the rows announces                                     *)

\* A grant that was ever made is on a folder, or on a scanner that is there.
GrantsHere(d) == \A g \in Grants : d.status[g] # "none" => Scoped(AllScanners(d), g)

\* Nothing more is asked for u than before, and less only on deleted scanners.
NoMore(d, e, u) ==
  /\ DesiredNow(e, u) \subseteq DesiredNow(d, u)
  /\ \A r \in DesiredNow(d, u) \ DesiredNow(e, u) : ScannerOf(r) \cap e.deleted # {}

\* The jobs of a change from d to e tell of every subject but those missed.
Told(d, e, jobs, missed) ==
  /\ e.creds = d.creds /\ GrantsHere(e)
  /\ \A u \in d.creds \ (missed \cup ByJobs(e, jobs)) : NoMore(d, e, u)
  /\ \A s \in AllScanners(e) \ missed :
       /\ \/ \E j \in Range(jobs) : j.job = "scanner" /\ j.of = s
          \/ s \in AllScanners(d) /\ d.scanners[s].enabled = e.scanners[s].enabled
       /\ \/ ScannerJob(s, TRUE) \in Range(jobs)
          \/ s \in AllScanners(d) /\ d.scanners[s].token = e.scanners[s].token
  /\ \A s \in e.deleted \ d.deleted : /\ s \in AllScanners(d)
                                      /\ s \in missed \/ ForgetJob(s) \in Range(jobs)

\* A scanner's deletion is the last a transaction tells of.
Lasts(jobs) == \A i \in DOMAIN jobs : jobs[i].job = "forget" => i = Len(jobs)

LEMMA SameDesired ==
  ASSUME NEW d, NEW e, NEW u \in Users,
         u \in d.staff <=> u \in e.staff, u \in d.inactive <=> u \in e.inactive,
         d.baseline = e.baseline, u \in d.members[Viewers] <=> u \in e.members[Viewers],
         ActiveGrants(d, u) = ActiveGrants(e, u),
         \A g \in ActiveGrants(d, u) : GrantScanners(d, g) = GrantScanners(e, g)
  PROVE  DesiredNow(d, u) = DesiredNow(e, u)
  <1>. DEFINE held == ActiveGrants(d, u)
              rws  == {h \in held : GrantOf[h].permission = "rw"}
              rw(x)  == UNION {GrantScanners(x, g) : g \in rws}
              all(x) == UNION {GrantScanners(x, g) : g \in held}
              view(x) == IF HasViewPerm(x, u) THEN {<<"read-all">>} ELSE {}
              want(x) == IF u \in x.inactive THEN {}
                         ELSE IF u \in x.staff THEN {<<"staff-all">>}
                         ELSE ({"rw"} \X rw(x)) \cup ({"read"} \X (all(x) \ rw(x))) \cup view(x)
  <1>1. DesiredNow(d, u) = want(d)
    BY DEF DesiredNow, Plan, UserItem, Desired
  <1>2. DesiredNow(e, u) = want(e)
    BY DEF DesiredNow, Plan, UserItem, Desired
  <1>3. rw(d) = rw(e) /\ all(d) = all(e)
    OBVIOUS
  <1>4. HasViewPerm(d, u) <=> HasViewPerm(e, u)
    BY DEF HasViewPerm
  <1>5. want(d) = want(e)
    BY <1>3, <1>4
  <1>. QED  BY <1>1, <1>2, <1>5

LEMMA SameNoMore ==
  ASSUME NEW d, NEW e, NEW u, DesiredNow(d, u) = DesiredNow(e, u)
  PROVE  NoMore(d, e, u)
  BY DEF NoMore

\* Whatever a change tells nobody of, it is right if it misses all it affects.
LEMMA MissedTold ==
  ASSUME NEW d \in Database, NEW e \in Database, Sound(e), NEW jobs, NEW missed,
         e.creds = d.creds, GrantsHere(e), e.deleted \ d.deleted \subseteq AllScanners(d),
         Affected(d, e) \ missed \subseteq ByJobs(e, jobs) \cap Users
  PROVE  Told(d, e, jobs, missed)
  <1>1. ASSUME NEW u \in d.creds \ (missed \cup ByJobs(e, jobs)) PROVE NoMore(d, e, u)
    <2>1. u \in Users /\ u \notin Affected(d, e)
      BY Parts
    <2>2. DesiredNow(d, u) = DesiredNow(e, u)
      BY <2>1 DEF Affected
    <2>. QED  BY <2>2, SameNoMore
  <1>2. ASSUME NEW s \in Scanners \ missed
        PROVE  s \notin Affected(d, e)
    BY <1>2
  <1>3. ASSUME NEW s \in AllScanners(e) \ missed
        PROVE  s \in AllScanners(d) /\ d.scanners[s] = e.scanners[s]
    <2>1. s \in Scanners
      BY Parts
    <2>. QED  BY <1>2, <1>3, <2>1 DEF Affected
  <1>4. ASSUME NEW s \in e.deleted \ d.deleted PROVE s \in AllScanners(d) /\ s \in missed
    <2>1. s \in AllScanners(d) \ AllScanners(e) /\ s \in Scanners
      BY Parts DEF Sound
    <2>. QED  BY <1>2, <2>1 DEF Affected
  <1>. QED  BY <1>1, <1>3, <1>4 DEF Told

\* A change that leaves scanners and deletions alone
LEMMA UsersTold ==
  ASSUME NEW d \in Database, NEW e \in Database, NEW jobs,
         e.creds = d.creds, e.scanners = d.scanners, e.deleted = d.deleted, GrantsHere(e),
         \A u \in d.creds \ ByJobs(e, jobs) : DesiredNow(d, u) = DesiredNow(e, u)
  PROVE  Told(d, e, jobs, {})
  BY SameNoMore DEF Told, AllScanners

LEMMA GrantsStay ==
  ASSUME NEW d, GrantsHere(d), NEW e, e.status = d.status, AllScanners(d) \subseteq AllScanners(e)
  PROVE  GrantsHere(e)
  BY DEF GrantsHere, Scoped

LEMMA StatusTold ==
  ASSUME NEW d \in Database, GrantsHere(d), NEW r \in Rows,
         NEW v \in {"none", "active", "revoked"},
         r \in Grants /\ v # "none" => d.status[r] # "none" \/ Scoped(AllScanners(d), r)
  PROVE  LET e == WithStatus(d, r, v)
         IN  /\ e.creds = d.creds /\ e.scanners = d.scanners /\ e.deleted = d.deleted
             /\ e.members = d.members /\ GrantsHere(e)
             /\ \A u \in Users : (\A g \in {r} \cap Grants : u # GrantOf[g].who
                                    /\ (GrantOf[g].who \in Groups => u \notin d.members[GrantOf[g].who]))
                  => DesiredNow(d, u) = DesiredNow(e, u)
  <1>. DEFINE x == [d.status EXCEPT ![r] = v]
              e == WithStatus(d, r, v)
  <1>1. e = [d EXCEPT !.status = x] /\ d.status \in Statuses
    BY Parts DEF WithStatus
  <1>2. x \in Statuses /\ x[r] = v /\ \A q \in Rows \ {r} : x[q] = d.status[q]
    BY <1>1 DEF Statuses
  <1>. HIDE DEF x, e
  <1>3. /\ e.creds = d.creds /\ e.scanners = d.scanners /\ e.deleted = d.deleted
        /\ e.members = d.members /\ e.status = x /\ e.folder = d.folder /\ e.staff = d.staff
        /\ e.inactive = d.inactive /\ e.baseline = d.baseline /\ e.lapsed = d.lapsed
    BY <1>1 DEF Database
  <1>4. Grants \subseteq Rows
    BY DEF Rows
  <1>5. GrantsHere(e)
    <2>1. ASSUME NEW g \in Grants, x[g] # "none" PROVE Scoped(AllScanners(d), g)
      BY <1>2, <1>4, <2>1 DEF GrantsHere
    <2>. QED  BY <1>3, <2>1 DEF GrantsHere, AllScanners
  <1>6. ASSUME NEW u \in Users,
               \A g \in {r} \cap Grants : u # GrantOf[g].who
                  /\ (GrantOf[g].who \in Groups => u \notin d.members[GrantOf[g].who])
        PROVE  DesiredNow(d, u) = DesiredNow(e, u)
    <2>1. \A g \in Grants \ {r} : IsValid(d, g) <=> IsValid(e, g)
      BY <1>2, <1>3, <1>4 DEF IsValid
    <2>2. ActiveGrants(d, u) = ActiveGrants(e, u)
      BY <1>3, <1>6, <2>1 DEF ActiveGrants
    <2>3. \A g : GrantScanners(d, g) = GrantScanners(e, g)
      BY <1>3 DEF GrantScanners, AllScanners
    <2>. QED  BY <1>3, <2>2, <2>3, SameDesired
  <1>. QED  BY <1>3, <1>5, <1>6 DEF e

LEMMA GrantTold ==
  ASSUME NEW d \in Database, GrantsHere(d), NEW g \in Grants,
         NEW v \in {"none", "active", "revoked"}, Scoped(AllScanners(d), g),
         WithStatus(d, g, v) \in Database
  PROVE  Told(d, WithStatus(d, g, v), GrantChanged(g), {})
  <1>. DEFINE e == WithStatus(d, g, v)
  <1>1. g \in Rows /\ {g} \cap Grants = {g}
    BY DEF Rows
  <1>2. /\ e.creds = d.creds /\ e.scanners = d.scanners /\ e.deleted = d.deleted
        /\ e.members = d.members /\ GrantsHere(e)
        /\ \A u \in Users : u # GrantOf[g].who
               /\ (GrantOf[g].who \in Groups => u \notin d.members[GrantOf[g].who])
             => DesiredNow(d, u) = DesiredNow(e, u)
    BY <1>1, StatusTold
  <1>. HIDE DEF e
  <1>3. ASSUME NEW u \in d.creds \ ByJobs(e, GrantChanged(g))
        PROVE  DesiredNow(d, u) = DesiredNow(e, u)
    <2>1. u \in Users
      BY Parts
    <2>2. CASE GrantOf[g].who \in Users
      <3>1. GrantChanged(g) = <<UserJob(GrantOf[g].who)>>
        BY <2>2 DEF GrantChanged
      <3>2. ByJobs(e, GrantChanged(g)) = {GrantOf[g].who}
        BY <3>1 DEF ByJobs, Announced, UserJob
      <3>. QED  BY <1>2, <2>1, <2>2, <3>2
    <2>3. CASE GrantOf[g].who \in Groups
      <3>1. GrantOf[g].who \notin Users
        BY <2>3
      <3>2. GrantChanged(g) = <<MembersJob(GrantOf[g].who)>>
        BY <2>3, <3>1 DEF GrantChanged
      <3>3. ByJobs(e, GrantChanged(g)) = e.members[GrantOf[g].who]
        BY <3>2 DEF ByJobs, Announced, MembersJob
      <3>. QED  BY <1>2, <2>1, <3>1, <3>3
    <2>4. CASE GrantOf[g].who \notin Users \cup Groups
      BY <1>2, <2>1, <2>4
    <2>. QED  BY <2>2, <2>3, <2>4
  <1>4. Told(d, e, GrantChanged(g), {})
    BY <1>2, <1>3, UsersTold DEF e
  <1>. QED  BY <1>4 DEF e

\* e is d with other rows of scanners
SameBut(d, e, x) ==
  /\ e.scanners = x /\ e.staff = d.staff /\ e.inactive = d.inactive /\ e.creds = d.creds
  /\ e.members = d.members /\ e.baseline = d.baseline /\ e.folder = d.folder
  /\ e.deleted = d.deleted /\ e.status = d.status /\ e.lapsed = d.lapsed

LEMMA OtherScanners ==
  ASSUME NEW d \in Database, NEW x
  PROVE  SameBut(d, [d EXCEPT !.scanners = x], x)
  BY DEF Database, SameBut

\* Rows of scanners that are there, or new: nobody has a grant on them yet.
LEMMA ScannersTold ==
  ASSUME NEW d \in Database, GrantsHere(d), NEW e \in Database, NEW x,
         SameBut(d, e, x), AllScanners(d) \subseteq DOMAIN x,
         NEW s, NEW p \in BOOLEAN,
         \A t \in DOMAIN x \ {s} : t \in AllScanners(d) /\ x[t] = d.scanners[t],
         ~p => s \in AllScanners(d) /\ x[s].token = d.scanners[s].token
  PROVE  Told(d, e, <<ScannerJob(s, p)>>, {})
  <1>1. /\ e.creds = d.creds /\ e.scanners = x /\ e.deleted = d.deleted
        /\ e.members = d.members /\ e.status = d.status /\ e.folder = d.folder /\ e.staff = d.staff
        /\ e.inactive = d.inactive /\ e.baseline = d.baseline /\ e.lapsed = d.lapsed
    BY DEF SameBut
  <1>2. AllScanners(e) = DOMAIN x
    BY <1>1 DEF AllScanners
  <1>3. GrantsHere(e)
    BY <1>1, <1>2, GrantsStay
  <1>4. ASSUME NEW u \in Users PROVE DesiredNow(d, u) = DesiredNow(e, u)
    <2>1. ActiveGrants(d, u) = ActiveGrants(e, u)
      BY <1>1 DEF ActiveGrants, IsValid
    <2>2. ASSUME NEW g \in ActiveGrants(d, u) PROVE GrantScanners(d, g) = GrantScanners(e, g)
      <3>1. g \in Grants /\ d.status[g] # "none"
        BY DEF ActiveGrants, IsValid
      <3>2. GrantOf[g].scope \in Folders \cup AllScanners(d)
        BY <3>1 DEF GrantsHere, Scoped
      <3>3. CASE GrantOf[g].scope \in Folders
        BY <1>1, <3>3 DEF GrantScanners
      <3>4. CASE GrantOf[g].scope \notin Folders
        <4>1. GrantOf[g].scope \in AllScanners(d) /\ GrantOf[g].scope \in AllScanners(e)
          BY <1>2, <3>2, <3>4
        <4>2. /\ GrantScanners(d, g) = {GrantOf[g].scope} \cap AllScanners(d)
              /\ GrantScanners(e, g) = {GrantOf[g].scope} \cap AllScanners(e)
          BY <3>4 DEF GrantScanners
        <4>. QED  BY <4>1, <4>2
      <3>. QED  BY <3>3, <3>4
    <2>. QED  BY <1>1, <2>1, <2>2, SameDesired
  <1>. DEFINE j == ScannerJob(s, p)
  <1>5. Range(<<j>>) = {j} /\ j.job = "scanner" /\ j.of = s /\ (p => j = ScannerJob(s, TRUE))
    BY InOne DEF ScannerJob
  <1>. HIDE DEF j
  <1>6. ASSUME NEW t \in DOMAIN x
        PROVE  /\ \/ \E k \in Range(<<j>>) : k.job = "scanner" /\ k.of = t
                  \/ t \in AllScanners(d) /\ d.scanners[t].enabled = e.scanners[t].enabled
               /\ \/ ScannerJob(t, TRUE) \in Range(<<j>>)
                  \/ t \in AllScanners(d) /\ d.scanners[t].token = e.scanners[t].token
    <2>1. CASE t # s
      BY <1>1, <2>1
    <2>2. CASE t = s
      BY <1>1, <1>5, <2>2
    <2>. QED  BY <2>1, <2>2
  <1>7. \A u \in d.creds : NoMore(d, e, u)
    BY <1>4, Parts, SameNoMore
  <1>8. Told(d, e, <<j>>, {})
    BY <1>1, <1>2, <1>3, <1>6, <1>7 DEF Told
  <1>. QED  BY <1>8 DEF j

LEMMA ByOneJob ==
  ASSUME NEW d, NEW jobs, NEW j \in Range(jobs)
  PROVE  Announced(d, j) \subseteq ByJobs(d, jobs)
  BY DEF Range, ByJobs

\* A user without grants on a scanner that is deleted loses its roles at most.
LEMMA WithoutRoles ==
  ASSUME NEW d, NEW e, NEW u \in Users, NEW s \in e.deleted,
         u \in d.staff <=> u \in e.staff, u \in d.inactive <=> u \in e.inactive,
         d.baseline = e.baseline, u \in d.members[Viewers] <=> u \in e.members[Viewers],
         ActiveGrants(d, u) = ActiveGrants(e, u),
         \A g \in ActiveGrants(d, u) : GrantScanners(e, g) = GrantScanners(d, g) \ {s}
  PROVE  NoMore(d, e, u)
  <1>. DEFINE held == ActiveGrants(d, u)
              rws  == {h \in held : GrantOf[h].permission = "rw"}
              rw(x)  == UNION {GrantScanners(x, g) : g \in rws}
              all(x) == UNION {GrantScanners(x, g) : g \in held}
              view(x) == IF HasViewPerm(x, u) THEN {<<"read-all">>} ELSE {}
              roles(x) == ({"rw"} \X rw(x)) \cup ({"read"} \X (all(x) \ rw(x))) \cup view(x)
              want(x) == IF u \in x.inactive THEN {}
                         ELSE IF u \in x.staff THEN {<<"staff-all">>} ELSE roles(x)
  <1>1. DesiredNow(d, u) = want(d)
    BY DEF DesiredNow, Plan, UserItem, Desired
  <1>2. DesiredNow(e, u) = want(e)
    BY DEF DesiredNow, Plan, UserItem, Desired
  <1>3. rw(e) = rw(d) \ {s} /\ all(e) = all(d) \ {s}
    OBVIOUS
  <1>4. view(d) = view(e)
    BY DEF HasViewPerm
  <1>. HIDE DEF rw, all, view
  <1>5. /\ roles(e) \subseteq roles(d)
        /\ roles(d) \ roles(e) \subseteq {<<"rw", s>>, <<"read", s>>}
    BY <1>3, <1>4
  <1>6. /\ want(e) \subseteq want(d)
        /\ want(d) \ want(e) \subseteq {<<"rw", s>>, <<"read", s>>}
    <2>. HIDE DEF roles
    <2>. QED  BY <1>5
  <1>. HIDE DEF want
  <1>7. ScannerOf(<<"rw", s>>) = {s} /\ ScannerOf(<<"read", s>>) = {s}
    BY DEF ScannerOf
  <1>. QED  BY <1>1, <1>2, <1>6, <1>7 DEF NoMore

LEMMA DeletionTold ==
  ASSUME NEW d \in Database, Sound(d), GrantsHere(d), NEW s \in AllScanners(d),
         WithoutScanner(d, s) \in Database,
         NEW jobs \in Seq(Job),
         \A g \in GrantsOn(d, s) : GrantChanged(g) # <<>> => Head(GrantChanged(g)) \in Range(jobs)
  PROVE  Told(d, WithoutScanner(d, s), jobs \o <<ForgetJob(s)>>, {})
  <1>. DEFINE x == [t \in AllScanners(d) \ {s} |-> d.scanners[t]]
              y == d.deleted \cup {s}
              z == [k \in Folders |-> d.folder[k] \ {s}]
              w == [r \in Rows |-> IF r \in Grants /\ GrantOf[r].scope = s THEN "none"
                                   ELSE d.status[r]]
              e == WithoutScanner(d, s)
              all == jobs \o <<ForgetJob(s)>>
  <1>1. e = [d EXCEPT !.scanners = x, !.deleted = y, !.folder = z, !.status = w]
    BY DEF WithoutScanner
  <1>2. e \in Database
    OBVIOUS
  <1>3. /\ DOMAIN x = AllScanners(d) \ {s} /\ \A t \in AllScanners(d) \ {s} : x[t] = d.scanners[t]
        /\ \A k \in Folders : z[k] = d.folder[k] \ {s}
        /\ \A r \in Rows : w[r] = IF r \in Grants /\ GrantOf[r].scope = s THEN "none"
                                  ELSE d.status[r]
    OBVIOUS
  <1>. HIDE DEF x, z, w, e
  <1>4. /\ e.creds = d.creds /\ e.scanners = x /\ e.deleted = y /\ e.folder = z /\ e.status = w
        /\ e.members = d.members /\ e.staff = d.staff /\ e.inactive = d.inactive
        /\ e.baseline = d.baseline /\ e.lapsed = d.lapsed
    BY <1>1 DEF Database
  <1>5. Grants \subseteq Rows /\ AllScanners(e) = AllScanners(d) \ {s}
    BY <1>3, <1>4 DEF Rows, AllScanners
  <1>6. ForgetJob(s) \in Job
    BY Parts DEF ForgetJob, Job
  <1>7. all \in Seq(Job) /\ Range(all) = Range(jobs) \cup {ForgetJob(s)}
    <2>. DEFINE j == ForgetJob(s)
                q == <<j>>
    <2>. HIDE DEF j
    <2>1. q \in Seq(Job) /\ Range(q) = {j}
      BY <1>6, InOne DEF j
    <2>. HIDE DEF q
    <2>2. jobs \o q \in Seq(Job) /\ Range(jobs \o q) = Range(jobs) \cup Range(q)
      BY <2>1, InBoth
    <2>. QED  BY <2>1, <2>2 DEF j, q
  <1>. HIDE DEF all
  <1>8. GrantsHere(e)
    <2>1. ASSUME NEW g \in Grants, w[g] # "none" PROVE Scoped(AllScanners(d) \ {s}, g)
      <3>1. d.status[g] # "none" /\ GrantOf[g].scope # s
        BY <1>3, <1>5, <2>1
      <3>. QED  BY <3>1 DEF GrantsHere, Scoped
    <2>. QED  BY <1>4, <1>5, <2>1 DEF GrantsHere
  <1>9. ASSUME NEW u \in d.creds \ ({} \cup ByJobs(e, all)) PROVE NoMore(d, e, u)
    <2>1. u \in Users
      BY Parts
    <2>2. ASSUME NEW g \in ActiveGrants(d, u), GrantOf[g].scope = s PROVE FALSE
      <3>1. g \in Grants /\ g \in GrantsOn(d, s)
        BY <2>2 DEF ActiveGrants, IsValid, GrantsOn
      <3>2. \A j \in Range(jobs) : u \notin Announced(e, j)
        BY <1>7, ByOneJob
      <3>3. CASE GrantOf[g].who = u
        <4>1. GrantChanged(g) = <<UserJob(u)>>
          BY <2>1, <3>3 DEF GrantChanged
        <4>2. GrantChanged(g) # <<>> /\ Head(GrantChanged(g)) = UserJob(u)
          BY <4>1, InOne
        <4>3. u \in Announced(e, UserJob(u))
          BY DEF Announced, UserJob
        <4>. QED  BY <3>1, <3>2, <4>2, <4>3
      <3>4. CASE GrantOf[g].who \in Groups /\ u \in d.members[GrantOf[g].who]
        <4>1. GrantChanged(g) = <<MembersJob(GrantOf[g].who)>>
          BY <3>4 DEF GrantChanged
        <4>2. GrantChanged(g) # <<>> /\ Head(GrantChanged(g)) = MembersJob(GrantOf[g].who)
          BY <4>1, InOne
        <4>3. u \in Announced(e, MembersJob(GrantOf[g].who))
          BY <1>4, <3>4 DEF Announced, MembersJob
        <4>. QED  BY <3>1, <3>2, <4>2, <4>3
      <3>. QED  BY <3>3, <3>4 DEF ActiveGrants
    <2>3. ActiveGrants(d, u) = ActiveGrants(e, u)
      <3>1. ASSUME NEW g \in Grants, GrantOf[g].scope # s PROVE IsValid(d, g) <=> IsValid(e, g)
        BY <1>3, <1>4, <1>5, <3>1 DEF IsValid
      <3>2. ASSUME NEW g \in Grants, GrantOf[g].scope = s PROVE ~IsValid(e, g)
        BY <1>3, <1>4, <1>5, <3>2 DEF IsValid
      <3>3. ActiveGrants(e, u) \subseteq ActiveGrants(d, u)
        BY <1>4, <3>1, <3>2 DEF ActiveGrants
      <3>4. ActiveGrants(d, u) \subseteq ActiveGrants(e, u)
        BY <1>4, <2>2, <3>1 DEF ActiveGrants
      <3>. QED  BY <3>3, <3>4
    <2>4. ASSUME NEW g \in ActiveGrants(d, u) PROVE GrantScanners(e, g) = GrantScanners(d, g) \ {s}
      <3>1. CASE GrantOf[g].scope \in Folders
        BY <1>3, <1>4, <3>1 DEF GrantScanners
      <3>2. CASE GrantOf[g].scope \notin Folders
        BY <1>5, <3>2 DEF GrantScanners
      <3>. QED  BY <3>1, <3>2
    <2>. QED  BY <1>4, <2>1, <2>3, <2>4, WithoutRoles
  <1>10. ASSUME NEW t \in AllScanners(e) PROVE t \in AllScanners(d) /\ d.scanners[t] = e.scanners[t]
    BY <1>3, <1>4, <1>5
  <1>11. ASSUME NEW t \in e.deleted \ d.deleted PROVE t \in AllScanners(d) /\ ForgetJob(t) \in Range(all)
    BY <1>4, <1>7
  <1>12. Told(d, e, all, {})
    BY <1>4, <1>8, <1>9, <1>10, <1>11 DEF Told
  <1>. QED  BY <1>12 DEF e, all

\* e is d with another row, or other groups, of u
OthersAlike(d, e, u) ==
  /\ e.creds = d.creds /\ e.scanners = d.scanners /\ e.deleted = d.deleted
  /\ e.folder = d.folder /\ e.status = d.status /\ e.lapsed = d.lapsed
  /\ e.baseline = d.baseline
  /\ \A v \in Users \ {u} : v \in d.staff <=> v \in e.staff
  /\ \A v \in Users \ {u} : v \in d.inactive <=> v \in e.inactive
  /\ \A v \in Users \ {u} : \A G \in Groups : v \in d.members[G] <=> v \in e.members[G]

\* The admin's forms of a user
LEMMA UserForms ==
  ASSUME NEW d \in Database, NEW u \in Users, NEW G \in Groups
  PROVE  /\ OthersAlike(d, [d EXCEPT !.staff = (@ \cup {u}) \ (@ \cap {u})], u)
         /\ OthersAlike(d, [d EXCEPT !.inactive = (@ \cup {u}) \ (@ \cap {u})], u)
         /\ OthersAlike(d, WithMember(d, G, u), u)
  <1>. DEFINE x == (d.staff \cup {u}) \ (d.staff \cap {u})
              y == (d.inactive \cup {u}) \ (d.inactive \cap {u})
              z == [d.members EXCEPT ![G] = IF u \in @ THEN @ \ {u} ELSE @ \cup {u}]
  <1>1. /\ \A v \in Users \ {u} : v \in d.staff <=> v \in x
        /\ \A v \in Users \ {u} : v \in d.inactive <=> v \in y
        /\ \A v \in Users \ {u} : \A H \in Groups : v \in d.members[H] <=> v \in z[H]
    BY Parts
  <1>2. WithMember(d, G, u) = [d EXCEPT !.members = z]
    BY DEF WithMember
  <1>. HIDE DEF x, y, z
  <1>7. ASSUME NEW e, e.creds = d.creds, e.scanners = d.scanners, e.deleted = d.deleted,
               e.folder = d.folder, e.status = d.status, e.lapsed = d.lapsed,
               e.baseline = d.baseline,
               e.staff \in {d.staff, x}, e.inactive \in {d.inactive, y}, e.members \in {d.members, z}
        PROVE  OthersAlike(d, e, u)
    <2>1. \A v \in Users \ {u} : v \in d.staff <=> v \in e.staff
      BY <1>1, <1>7
    <2>2. \A v \in Users \ {u} : v \in d.inactive <=> v \in e.inactive
      BY <1>1, <1>7
    <2>3. \A v \in Users \ {u} : \A H \in Groups : v \in d.members[H] <=> v \in e.members[H]
      BY <1>1, <1>7
    <2>. QED  BY <1>7, <2>1, <2>2, <2>3 DEF OthersAlike
  <1>3. OthersAlike(d, [d EXCEPT !.staff = x], u)
    BY <1>7 DEF Database
  <1>4. OthersAlike(d, [d EXCEPT !.inactive = y], u)
    BY <1>7 DEF Database
  <1>5. OthersAlike(d, [d EXCEPT !.members = z], u)
    BY <1>7 DEF Database
  <1>6. /\ [d EXCEPT !.staff = (@ \cup {u}) \ (@ \cap {u})] = [d EXCEPT !.staff = x]
        /\ [d EXCEPT !.inactive = (@ \cup {u}) \ (@ \cap {u})] = [d EXCEPT !.inactive = y]
    BY DEF x, y
  <1>. QED  BY <1>2, <1>3, <1>4, <1>5, <1>6

LEMMA UserTold ==
  ASSUME NEW d \in Database, GrantsHere(d), NEW e \in Database, NEW u \in Users,
         OthersAlike(d, e, u)
  PROVE  Told(d, e, UserSaved(d, u), {})
  <1>5. /\ e.creds = d.creds /\ e.scanners = d.scanners /\ e.deleted = d.deleted
        /\ e.folder = d.folder /\ e.status = d.status /\ e.lapsed = d.lapsed
        /\ e.baseline = d.baseline
        /\ \A v \in Users \ {u} : v \in d.staff <=> v \in e.staff
        /\ \A v \in Users \ {u} : v \in d.inactive <=> v \in e.inactive
        /\ \A v \in Users \ {u} : \A G \in Groups : v \in d.members[G] <=> v \in e.members[G]
    BY DEF OthersAlike
  <1>1. GrantsHere(e)
    BY <1>5, GrantsStay DEF AllScanners
  <1>2. ASSUME NEW v \in Users \ {u} PROVE DesiredNow(d, v) = DesiredNow(e, v)
    <2>1. ActiveGrants(d, v) = ActiveGrants(e, v)
      <3>1. \A g : IsValid(d, g) <=> IsValid(e, g)
        BY <1>5 DEF IsValid
      <3>2. \A G \in Groups : v \in d.members[G] <=> v \in e.members[G]
        BY <1>2, <1>5
      <3>. QED  BY <3>1, <3>2 DEF ActiveGrants
    <2>2. \A g : GrantScanners(d, g) = GrantScanners(e, g)
      BY <1>5 DEF GrantScanners, AllScanners
    <2>3. /\ v \in d.staff <=> v \in e.staff
          /\ v \in d.inactive <=> v \in e.inactive
          /\ v \in d.members[Viewers] <=> v \in e.members[Viewers]
      BY <1>2, <1>5
    <2>. QED  BY <1>2, <1>5, <2>1, <2>2, <2>3, SameDesired
  <1>3. u \in d.creds => u \in ByJobs(e, UserSaved(d, u))
    BY DEF UserSaved, ByJobs, Announced, UserJob
  <1>4. \A v \in d.creds \ ByJobs(e, UserSaved(d, u)) : DesiredNow(d, v) = DesiredNow(e, v)
    BY <1>2, <1>3, Parts
  <1>. QED  BY <1>1, <1>4, <1>5, UsersTold

-----------------------------------------------------------------------------
(* Every change of the rows                                                *)

\* What every change of the rows is
Written(d, jobs) == Follows(db, d) /\ jobs \in Seq(Job) /\ Drops(jobs, d.deleted)

RowChange ==
  \E d, jobs : \E missed \in SUBSET (Users \cup Scanners) :
    /\ Written(d, jobs)
    /\ GrantsHere(db) => Told(db, d, jobs, missed) /\ Lasts(jobs)
    /\ Save(d, jobs, missed) \/ Begin(d, jobs, missed)

LEMMA Concerned ==
  ASSUME NEW d, NEW e
  PROVE  Affected(d, e) \in SUBSET (Users \cup Scanners)
  BY DEF Affected

LEMMA RowSteps ==
  ASSUME db \in Database, Sound(db),
         \/ \E g \in Grants : ApiGrant(g) \/ AdminGrant(g)
         \/ \E s \in Scanners : Regenerate(s) \/ AdminScanner(s) \/ NewScanner(s) \/ DeleteScanner(s)
         \/ \E k \in Folders, s \in Scanners : Assign(k, s)
         \/ \E u \in Users : AdminUser(u) \/ \E G \in Groups : Membership(u, G)
         \/ \E l \in Links : NewLink(l)
         \/ Silent
  PROVE  RowChange
  <1>. USE Parts
  <1>1. ASSUME NEW d, Follows(db, d), NEW jobs, Plain(jobs),
               NEW missed \in SUBSET (Users \cup Scanners),
               GrantsHere(db) => Told(db, d, jobs, missed),
               Save(d, jobs, missed) \/ Begin(d, jobs, missed)
        PROVE  RowChange
    <2>1. Lasts(jobs)
      BY <1>1 DEF Plain, Lasts
    <2>. QED  BY <1>1, <2>1, PlainDrops DEF RowChange, Written
  <1>2. \A r \in Rows, v \in {"none", "active", "revoked"} : Follows(db, WithStatus(db, r, v))
    BY RowChanges
  <1>3. Grants \subseteq Rows /\ Links \subseteq Rows
    BY DEF Rows
  <1>4. ASSUME NEW g \in Grants, ApiGrant(g) \/ AdminGrant(g) PROVE RowChange
    <2>1. PICK v \in {"none", "active", "revoked"} :
            Save(WithStatus(db, g, v), GrantChanged(g), {})
              \/ Begin(WithStatus(db, g, v), GrantChanged(g), {})
      BY <1>4 DEF ApiGrant, AdminGrant
    <2>2. Follows(db, WithStatus(db, g, v)) /\ Scoped(AllScanners(db), g)
      BY <1>2, <1>3, <1>4 DEF ApiGrant, AdminGrant
    <2>3. GrantsHere(db) => Told(db, WithStatus(db, g, v), GrantChanged(g), {})
      BY <2>2, GrantTold DEF Follows
    <2>. QED  BY <1>1, <2>1, <2>2, <2>3, PlainJobs
  <1>5. ASSUME NEW s \in Scanners, Regenerate(s) PROVE RowChange
    <2>1. Follows(db, WithToken(db, s))
      BY <1>5, RowChanges DEF Regenerate
    <2>2. Save(WithToken(db, s), <<ScannerJob(s, TRUE)>>, {})
      BY <1>5 DEF Regenerate
    <2>3. GrantsHere(db) => Told(db, WithToken(db, s), <<ScannerJob(s, TRUE)>>, {})
      <3>. DEFINE x == [db.scanners EXCEPT ![s].token = @ + 1]
      <3>1. WithToken(db, s) = [db EXCEPT !.scanners = x] /\ DOMAIN x = AllScanners(db)
        BY DEF WithToken, AllScanners
      <3>2. \A t \in DOMAIN x \ {s} : x[t] = db.scanners[t]
        OBVIOUS
      <3>. DEFINE e == WithToken(db, s)
      <3>. HIDE DEF x, e
      <3>3. e \in Database /\ SameBut(db, e, x) /\ AllScanners(db) \subseteq DOMAIN x
        BY <2>1, <3>1, OtherScanners DEF Follows, e
      <3>4. \A t \in DOMAIN x \ {s} : t \in AllScanners(db) /\ x[t] = db.scanners[t]
        BY <3>1, <3>2
      <3>5. GrantsHere(db) => Told(db, e, <<ScannerJob(s, TRUE)>>, {})
        BY <3>3, <3>4, ScannersTold
      <3>. QED  BY <3>5 DEF e
    <2>. QED  BY <1>1, <2>1, <2>2, <2>3, PlainJobs
  <1>6. ASSUME NEW s \in Scanners, AdminScanner(s) PROVE RowChange
    <2>. DEFINE row == [db.scanners[s] EXCEPT !.enabled = ~@]
    <2>1. s \in AllScanners(db) /\ Begin(WithScanner(db, s, row), <<ScannerJob(s, FALSE)>>, {})
      BY <1>6 DEF AdminScanner
    <2>2. row \in Row
      <3>1. ASSUME NEW r \in Row PROVE [r EXCEPT !.enabled = ~@] \in Row
        BY DEF Row
      <3>. QED  BY <2>1, <3>1
    <2>. HIDE DEF row
    <2>3. Follows(db, WithScanner(db, s, row))
      BY <2>1, <2>2, RowChanges
    <2>4. row.token = db.scanners[s].token
      <3>1. \A r \in Row : [r EXCEPT !.enabled = ~@].token = r.token
        BY DEF Row
      <3>. QED  BY <2>1, <3>1 DEF row
    <2>5. GrantsHere(db) => Told(db, WithScanner(db, s, row), <<ScannerJob(s, FALSE)>>, {})
      <3>. DEFINE x == [db.scanners EXCEPT ![s] = row]
      <3>1. WithScanner(db, s, row) = [db EXCEPT !.scanners = x] /\ DOMAIN x = AllScanners(db)
        BY DEF WithScanner, AllScanners
      <3>2. x[s] = row /\ \A t \in DOMAIN x \ {s} : x[t] = db.scanners[t]
        BY <2>1 DEF AllScanners
      <3>. DEFINE e == WithScanner(db, s, row)
      <3>. HIDE DEF x, e
      <3>3. e \in Database /\ SameBut(db, e, x) /\ AllScanners(db) \subseteq DOMAIN x
        BY <2>3, <3>1, OtherScanners DEF Follows, e
      <3>4. \A t \in DOMAIN x \ {s} : t \in AllScanners(db) /\ x[t] = db.scanners[t]
        BY <3>1, <3>2
      <3>5. s \in AllScanners(db) /\ x[s].token = db.scanners[s].token
        BY <2>1, <2>4, <3>2
      <3>6. GrantsHere(db) => Told(db, e, <<ScannerJob(s, FALSE)>>, {})
        BY <3>3, <3>4, <3>5, ScannersTold
      <3>. QED  BY <3>6 DEF e
    <2>. QED  BY <1>1, <2>1, <2>3, <2>5, PlainJobs
  <1>7. ASSUME NEW s \in Scanners, NewScanner(s) PROVE RowChange
    <2>1. Follows(db, WithNewScanner(db, s))
      BY <1>7, RowChanges DEF NewScanner
    <2>2. Begin(WithNewScanner(db, s), <<ScannerJob(s, TRUE)>>, {})
      BY <1>7 DEF NewScanner
    <2>3. GrantsHere(db) => Told(db, WithNewScanner(db, s), <<ScannerJob(s, TRUE)>>, {})
      <3>. DEFINE x == [t \in AllScanners(db) \cup {s} |->
                          IF t = s THEN [enabled |-> TRUE, token |-> 0] ELSE db.scanners[t]]
      <3>1. WithNewScanner(db, s) = [db EXCEPT !.scanners = x]
        BY DEF WithNewScanner
      <3>2. DOMAIN x = AllScanners(db) \cup {s} /\ \A t \in DOMAIN x \ {s} : x[t] = db.scanners[t]
        OBVIOUS
      <3>. DEFINE e == WithNewScanner(db, s)
      <3>. HIDE DEF x, e
      <3>3. e \in Database /\ SameBut(db, e, x) /\ AllScanners(db) \subseteq DOMAIN x
        BY <2>1, <3>1, <3>2, OtherScanners DEF Follows, e
      <3>4. \A t \in DOMAIN x \ {s} : t \in AllScanners(db) /\ x[t] = db.scanners[t]
        BY <3>2
      <3>5. GrantsHere(db) => Told(db, e, <<ScannerJob(s, TRUE)>>, {})
        BY <3>3, <3>4, ScannersTold
      <3>. QED  BY <3>5 DEF e
    <2>. QED  BY <1>1, <2>1, <2>2, <2>3, PlainJobs
  <1>8. ASSUME NEW s \in Scanners, DeleteScanner(s) PROVE RowChange
    <2>. DEFINE G    == {g \in GrantsOn(db, s) : GrantChanged(g) # <<>>}
                gone == SetToSeq(G)
                jobs == [i \in DOMAIN gone |-> Head(GrantChanged(gone[i]))]
                d    == WithoutScanner(db, s)
    <2>1. s \in AllScanners(db) /\ Begin(d, jobs \o <<ForgetJob(s)>>, {})
      BY <1>8 DEF DeleteScanner
    <2>2. G \subseteq Grants /\ IsFiniteSet(G)
      <3>1. G \subseteq Grants
        BY DEF GrantsOn
      <3>. QED  BY <3>1, FS_Subset
    <2>3. Cardinality(G) \in Nat /\ gone \in [1..Cardinality(G) -> G]
      BY <2>2, Listing
    <2>4. ASSUME NEW g \in G
          PROVE  Head(GrantChanged(g)) \in Job /\ Head(GrantChanged(g)).job # "forget"
      <3>. DEFINE c == GrantChanged(g)
      <3>1. Plain(c) /\ c # <<>>
        BY <2>2, PlainJobs
      <3>. HIDE DEF c
      <3>2. c \in Seq(Job) /\ 1 \in DOMAIN c /\ Head(c) = c[1]
        BY <3>1 DEF Plain
      <3>3. Head(c) \in Job /\ Head(c).job # "forget"
        BY <3>1, <3>2 DEF Plain
      <3>. QED  BY <3>3 DEF c
    <2>5. jobs \in [1..Cardinality(G) -> Job] /\ \A i \in 1..Cardinality(G) : jobs[i].job # "forget"
      BY <2>3, <2>4
    <2>6. Follows(db, d) /\ s \in d.deleted
      BY <2>1, RowChanges
    <2>9. ASSUME NEW g \in G PROVE Head(GrantChanged(g)) \in Range(jobs)
      <3>1. PICK i \in 1..Cardinality(G) : gone[i] = g
        BY <2>2, ListedAll
      <3>2. DOMAIN gone = 1..Cardinality(G)
        BY <2>3
      <3>3. i \in DOMAIN jobs /\ jobs[i] = Head(GrantChanged(g))
        BY <3>1, <3>2
      <3>. QED  BY <3>3 DEF Range
    <2>10. ASSUME NEW g \in GrantsOn(db, s), GrantChanged(g) # <<>>
           PROVE  Head(GrantChanged(g)) \in Range(jobs)
      BY <2>9, <2>10
    <2>11. d = WithoutScanner(db, s)
      OBVIOUS
    <2>. HIDE DEF jobs, gone, d, G
    <2>7. Plain(jobs)
      <3>1. jobs \in Seq(Job)
        BY <2>3, <2>5
      <3>. QED  BY <2>5, <3>1 DEF Plain
    <2>8. Written(d, jobs \o <<ForgetJob(s)>>)
      BY <2>6, <2>7, ForgetLast DEF Written
    <2>12. GrantsHere(db) => Told(db, d, jobs \o <<ForgetJob(s)>>, {})
      <3>1. jobs \in Seq(Job) /\ d \in Database
        BY <2>6, <2>7 DEF Plain, Follows
      <3>. QED  BY <2>1, <2>10, <2>11, <3>1, DeletionTold
    <2>13. Lasts(jobs \o <<ForgetJob(s)>>)
      <3>. DEFINE j   == ForgetJob(s)
                  all == jobs \o <<j>>
      <3>1. jobs \in Seq(Job) /\ \A i \in DOMAIN jobs : jobs[i].job # "forget"
        BY <2>7 DEF Plain
      <3>. HIDE DEF j
      <3>2. /\ DOMAIN all = 1..(Len(jobs) + 1) /\ Len(all) = Len(jobs) + 1
            /\ DOMAIN jobs = 1..Len(jobs) /\ \A i \in 1..Len(jobs) : all[i] = jobs[i]
        BY <3>1
      <3>3. \A i \in DOMAIN all : all[i].job = "forget" => i = Len(all)
        BY <3>1, <3>2
      <3>. QED  BY <3>3 DEF Lasts, j
    <2>. QED  BY <2>1, <2>8, <2>12, <2>13 DEF RowChange
  <1>9. ASSUME NEW k \in Folders, NEW S \in SUBSET Scanners, NEW s \in AllScanners(db)
        PROVE  /\ Follows(db, Toggle(k, s)) /\ Toggle(k, s).creds = db.creds
               /\ Toggle(k, s).scanners = db.scanners /\ Toggle(k, s).status = db.status
               /\ Toggle(k, s).deleted = db.deleted
    <2>. DEFINE F == (db.folder[k] \cup {s}) \ (db.folder[k] \cap {s})
    <2>1. F \subseteq AllScanners(db)
      BY DEF Sound
    <2>2. Toggle(k, s) = WithFolder(db, k, F)
      BY DEF Toggle
    <2>. HIDE DEF F
    <2>3. /\ WithFolder(db, k, F).creds = db.creds /\ WithFolder(db, k, F).scanners = db.scanners
          /\ WithFolder(db, k, F).status = db.status /\ WithFolder(db, k, F).deleted = db.deleted
      BY DEF WithFolder, Database
    <2>. QED  BY <2>1, <2>2, <2>3, RowChanges
  <1>15. ASSUME NEW d, Follows(db, d), GrantsHere(d), d.creds = db.creds, d.deleted = db.deleted,
                NEW jobs, NEW missed, Affected(db, d) \ missed \subseteq ByJobs(d, jobs) \cap Users
         PROVE  Told(db, d, jobs, missed)
    BY <1>15, MissedTold DEF Follows
  <1>10. ASSUME NEW k \in Folders, NEW s \in Scanners, Assign(k, s) PROVE RowChange
    <2>. DEFINE d == Toggle(k, s)
    <2>1. s \in AllScanners(db) /\ Begin(d, <<FolderJob(k, {s})>>, Affected(db, d) \ FolderUsers(d, k))
      BY <1>10 DEF Assign
    <2>2. /\ Follows(db, d) /\ d.creds = db.creds /\ d.scanners = db.scanners
          /\ d.status = db.status /\ d.deleted = db.deleted
      BY <1>9, <2>1
    <2>. HIDE DEF d
    <2>. DEFINE missed == Affected(db, d) \ FolderUsers(d, k)
    <2>6. Affected(db, d) \ missed \subseteq ByJobs(d, <<FolderJob(k, {s})>>) \cap Users
      <3>1. ByJobs(d, <<FolderJob(k, {s})>>) = FolderUsers(d, k)
        BY DEF ByJobs, Announced, FolderJob
      <3>. QED  BY <3>1 DEF FolderUsers
    <2>7. GrantsHere(db) => Told(db, d, <<FolderJob(k, {s})>>, missed)
      <3>1. GrantsHere(db) => GrantsHere(d)
        BY <2>2, GrantsStay DEF AllScanners
      <3>. QED  BY <1>15, <2>2, <2>6, <3>1
    <2>3. missed \in SUBSET (Users \cup Scanners)
      BY Concerned
    <2>4. Plain(<<FolderJob(k, {s})>>)
      BY PlainJobs
    <2>5. Begin(d, <<FolderJob(k, {s})>>, missed)
      BY <2>1
    <2>. HIDE DEF missed
    <2>. QED  BY <1>1, <2>2, <2>3, <2>4, <2>5, <2>7
  <1>16. ASSUME NEW u \in Users, NEW d, Follows(db, d), OthersAlike(db, d, u),
                Begin(d, UserSaved(db, u), {})
         PROVE  RowChange
    <2>1. GrantsHere(db) => Told(db, d, UserSaved(db, u), {})
      BY <1>16, UserTold DEF Follows
    <2>. QED  BY <1>1, <1>16, <2>1, PlainJobs
  <1>11. ASSUME NEW u \in Users, AdminUser(u) PROVE RowChange
    <2>. DEFINE p == [db EXCEPT !.staff = (@ \cup {u}) \ (@ \cap {u})]
                q == [db EXCEPT !.inactive = (@ \cup {u}) \ (@ \cap {u})]
    <2>1. Begin(p, UserSaved(db, u), {}) \/ Begin(q, UserSaved(db, u), {})
      BY <1>11 DEF AdminUser
    <2>2. Follows(db, p) /\ Follows(db, q)
      <3>. DEFINE x == (db.staff \cup {u}) \ (db.staff \cap {u})
                  y == (db.inactive \cup {u}) \ (db.inactive \cap {u})
      <3>1. x \in SUBSET Users /\ y \in SUBSET Users
        OBVIOUS
      <3>2. p = [db EXCEPT !.staff = x] /\ q = [db EXCEPT !.inactive = y]
        OBVIOUS
      <3>. HIDE DEF x, y, p, q
      <3>3. Follows(db, [db EXCEPT !.staff = x]) /\ Follows(db, [db EXCEPT !.inactive = y])
        BY <3>1, RowChanges
      <3>. QED  BY <3>2, <3>3
    <2>3. OthersAlike(db, p, u) /\ OthersAlike(db, q, u)
      BY UserForms
    <2>. HIDE DEF p, q
    <2>. QED  BY <1>16, <2>1, <2>2, <2>3
  <1>12. ASSUME NEW u \in Users, NEW G \in Groups, Membership(u, G) PROVE RowChange
    <2>1. Follows(db, WithMember(db, G, u)) /\ OthersAlike(db, WithMember(db, G, u), u)
      BY RowChanges, UserForms
    <2>2. Begin(WithMember(db, G, u), UserSaved(db, u), {})
      BY <1>12 DEF Membership
    <2>. QED  BY <1>16, <2>1, <2>2
  <1>13. ASSUME NEW l \in Links, NewLink(l) PROVE RowChange
    <2>1. Save(WithStatus(db, l, "active"), <<>>, {})
      BY <1>13 DEF NewLink
    <2>2. l \in Rows /\ l \notin Grants /\ Follows(db, WithStatus(db, l, "active"))
      BY <1>2, <1>3
    <2>3. GrantsHere(db) => Told(db, WithStatus(db, l, "active"), <<>>, {})
      <3>. DEFINE d == WithStatus(db, l, "active")
      <3>. SUFFICES ASSUME GrantsHere(db) PROVE Told(db, d, <<>>, {})
        OBVIOUS
      <3>1. /\ d.creds = db.creds /\ d.scanners = db.scanners /\ d.deleted = db.deleted
            /\ GrantsHere(d) /\ \A u \in Users : DesiredNow(db, u) = DesiredNow(d, u)
        BY <2>2, StatusTold
      <3>. HIDE DEF d
      <3>. QED  BY <2>2, <3>1, UsersTold DEF Follows, d
    <2>. QED  BY <1>1, <2>1, <2>2, <2>3, PlainJobs
  <1>14. CASE Silent
    <2>1. PICK d : /\ Unsignalled(d) /\ Follows(db, d) /\ d.creds = db.creds
                   /\ d.deleted = db.deleted /\ (GrantsHere(db) => GrantsHere(d))
      <3>1. CASE \E r \in Rows :
               \/ db.status[r] = "active" /\ Unsignalled(WithStatus(db, r, "revoked"))
               \/ db.status[r] = "revoked" /\ Unsignalled(WithStatus(db, r, "active"))
               \/ db.status[r] # "none" /\ r \notin db.lapsed /\ Unsignalled(Lapsed(db, r))
        <4>1. ASSUME NEW r \in Rows
              PROVE  /\ Follows(db, Lapsed(db, r)) /\ Lapsed(db, r).creds = db.creds
                     /\ Lapsed(db, r).deleted = db.deleted
                     /\ GrantsHere(db) => GrantsHere(Lapsed(db, r))
          <5>1. /\ Lapsed(db, r).creds = db.creds /\ Lapsed(db, r).deleted = db.deleted
                /\ Lapsed(db, r).status = db.status /\ Lapsed(db, r).scanners = db.scanners
            BY DEF Lapsed, Database
          <5>. QED  BY <5>1, RowChanges, GrantsStay DEF AllScanners
        <4>2. ASSUME NEW r \in Rows, db.status[r] # "none", NEW v \in {"active", "revoked"}
              PROVE  /\ Follows(db, WithStatus(db, r, v)) /\ WithStatus(db, r, v).creds = db.creds
                     /\ WithStatus(db, r, v).deleted = db.deleted
                     /\ GrantsHere(db) => GrantsHere(WithStatus(db, r, v))
          <5>1. /\ WithStatus(db, r, v).creds = db.creds
                /\ WithStatus(db, r, v).deleted = db.deleted
            BY DEF WithStatus, Database
          <5>2. GrantsHere(db) => GrantsHere(WithStatus(db, r, v))
            BY <4>2, StatusTold
          <5>. QED  BY <1>2, <5>1, <5>2
        <4>3. PICK r \in Rows :
                 \/ db.status[r] = "active" /\ Unsignalled(WithStatus(db, r, "revoked"))
                 \/ db.status[r] = "revoked" /\ Unsignalled(WithStatus(db, r, "active"))
                 \/ Unsignalled(Lapsed(db, r))
          BY <3>1
        <4>. QED  BY <4>1, <4>2, <4>3
      <3>2. CASE Unsignalled([db EXCEPT !.baseline = ~@])
        <4>. DEFINE b == ~db.baseline
        <4>1. b \in BOOLEAN /\ [db EXCEPT !.baseline = ~@] = [db EXCEPT !.baseline = b]
          OBVIOUS
        <4>. HIDE DEF b
        <4>2. Follows(db, [db EXCEPT !.baseline = b])
          BY <4>1, RowChanges
        <4>. DEFINE d == [db EXCEPT !.baseline = b]
        <4>3. /\ d.creds = db.creds /\ d.deleted = db.deleted /\ d.status = db.status
              /\ d.scanners = db.scanners
          BY DEF Database
        <4>. HIDE DEF d
        <4>4. GrantsHere(db) => GrantsHere(d)
          BY <4>3, GrantsStay DEF AllScanners
        <4>5. Unsignalled(d) /\ Follows(db, d)
          BY <3>2, <4>1, <4>2 DEF d
        <4>. QED  BY <4>3, <4>4, <4>5
      <3>3. CASE \E k \in Folders, s \in AllScanners(db) : Unsignalled(Toggle(k, s))
        <4>1. PICK k \in Folders, s \in AllScanners(db) : Unsignalled(Toggle(k, s))
          BY <3>3
        <4>. DEFINE d == Toggle(k, s)
        <4>2. /\ Follows(db, d) /\ d.creds = db.creds /\ d.deleted = db.deleted
              /\ d.status = db.status /\ d.scanners = db.scanners
          BY <1>9
        <4>. HIDE DEF d
        <4>3. GrantsHere(db) => GrantsHere(d)
          BY <4>2, GrantsStay DEF AllScanners
        <4>. QED  BY <4>1, <4>2, <4>3 DEF d
      <3>. QED  BY <1>14, <3>1, <3>2, <3>3 DEF Silent
    <2>2. Save(d, <<>>, Affected(db, d)) /\ Affected(db, d) \in SUBSET (Users \cup Scanners)
      BY <2>1, Concerned DEF Unsignalled
    <2>. DEFINE missed == Affected(db, d)
    <2>3. Affected(db, d) \ missed \subseteq ByJobs(d, <<>>) \cap Users
      OBVIOUS
    <2>. HIDE DEF missed
    <2>4. GrantsHere(db) => Told(db, d, <<>>, missed)
      BY <1>15, <2>1, <2>3
    <2>. QED  BY <1>1, <2>1, <2>2, <2>4, PlainJobs DEF missed
  <1>. QED  BY <1>4, <1>5, <1>6, <1>7, <1>8, <1>10, <1>11, <1>12, <1>13, <1>14

-----------------------------------------------------------------------------
(* The broker's commands                                                   *)

Names == Users \cup Scanners

LEMMA Clients ==
  ASSUME broker \in BrokerType
  PROVE  /\ broker.roles \subseteq Scanners
         /\ broker = [roles |-> broker.roles, clients |-> broker.clients]
         /\ DOMAIN broker.clients \subseteq Names
         /\ broker.clients \in [DOMAIN broker.clients -> Client]
  <1>1. /\ broker.clients \in Partial(Names, Client) /\ broker.roles \subseteq Scanners
        /\ broker = [roles |-> broker.roles, clients |-> broker.clients]
    BY DEF BrokerType, Names
  <1>2. \A f \in Partial(Names, Client) : DOMAIN f \subseteq Names /\ f \in [DOMAIN f -> Client]
    BY DEF Partial
  <1>. QED  BY <1>1, <1>2

LEMMA NewClients ==
  ASSUME broker \in BrokerType, NEW B \in SUBSET Names, NEW f \in [B -> Client]
  PROVE  /\ [broker EXCEPT !.clients = f] \in BrokerType
         /\ [broker EXCEPT !.clients = f].clients = f
         /\ [broker EXCEPT !.clients = f].roles = broker.roles
  <1>1. f \in Partial(Names, Client)
    BY DEF Partial
  <1>2. broker = [roles |-> broker.roles, clients |-> broker.clients] /\ broker.roles \subseteq Scanners
    BY Clients
  <1>3. [broker EXCEPT !.clients = f] = [roles |-> broker.roles, clients |-> f]
    BY <1>2
  <1>. QED  BY <1>1, <1>2, <1>3 DEF BrokerType, Names

\* What a command leaves of the clients: those of others keep every role but
\* the ones of deleted scanners.
Keeps(effect, m) ==
  m \in DOMAIN broker.clients =>
    /\ m \in DOMAIN effect.clients
    /\ \A r \in broker.clients[m].roles :
         ScannerOf(r) \cap Doomed = {} => r \in effect.clients[m].roles

Spares(effect, n) == \A m \in Users \ {n} : Keeps(effect, m)

\* What a command may do
Allowed(effect, n) == effect \in BrokerType /\ Spares(effect, n)

LEMMA NoEffect ==
  ASSUME broker \in BrokerType, NEW n
  PROVE  Allowed(broker, n)
  BY DEF Allowed, Spares, Keeps

LEMMA ClientMade ==
  ASSUME broker \in BrokerType, NEW n \in Names, NEW token \in 0..MaxToken, NEW R \in SUBSET Role
  PROVE  LET e == WithClient(n, token, R)
         IN  /\ Allowed(e, n) /\ Keeps(e, n) /\ n \in DOMAIN e.clients
  <1>. DEFINE e == WithClient(n, token, R)
              f == [m \in DOMAIN broker.clients \cup {n} |->
                      IF m = n THEN [roles |-> R, token |-> token] ELSE broker.clients[m]]
  <1>. USE Clients
  <1>1. CASE n \in DOMAIN broker.clients
    BY <1>1, NoEffect DEF WithClient, Keeps
  <1>2. CASE n \notin DOMAIN broker.clients
    <2>1. [roles |-> R, token |-> token] \in Client
      BY DEF Client
    <2>2. DOMAIN broker.clients \cup {n} \in SUBSET Names
      OBVIOUS
    <2>3. f \in [DOMAIN broker.clients \cup {n} -> Client]
      BY <2>1
    <2>4. e = [broker EXCEPT !.clients = f]
      BY <1>2 DEF WithClient
    <2>5. \A m \in DOMAIN broker.clients : m \in DOMAIN f /\ f[m] = broker.clients[m]
      BY <1>2
    <2>. HIDE DEF f, e
    <2>6. e \in BrokerType /\ e.clients = f
      BY <2>2, <2>3, <2>4, NewClients
    <2>7. Allowed(e, n) /\ Keeps(e, n) /\ n \in DOMAIN e.clients
      BY <1>2, <2>3, <2>5, <2>6 DEF Allowed, Spares, Keeps
    <2>. QED  BY <2>7 DEF e
  <1>. QED  BY <1>1, <1>2

LEMMA ClientGone ==
  ASSUME broker \in BrokerType, NEW n
  PROVE  Allowed(WithoutClient(n), n)
  <1>. DEFINE e == WithoutClient(n)
              f == [m \in DOMAIN broker.clients \ {n} |-> broker.clients[m]]
  <1>1. e = [broker EXCEPT !.clients = f]
    BY DEF WithoutClient
  <1>2. f \in [DOMAIN broker.clients \ {n} -> Client] /\ DOMAIN broker.clients \ {n} \in SUBSET Names
    BY Clients
  <1>3. \A m \in DOMAIN broker.clients \ {n} : m \in DOMAIN f /\ f[m] = broker.clients[m]
    OBVIOUS
  <1>. HIDE DEF f, e
  <1>4. e \in BrokerType /\ e.clients = f
    BY <1>1, <1>2, NewClients
  <1>5. Allowed(e, n)
    BY <1>3, <1>4 DEF Allowed, Spares, Keeps
  <1>. QED  BY <1>5 DEF e

\* A command that changes one client, and only that
LEMMA OneClient ==
  ASSUME broker \in BrokerType, NEW n \in DOMAIN broker.clients, NEW c \in Client
  PROVE  /\ [broker EXCEPT !.clients[n] = c] \in BrokerType
         /\ DOMAIN [broker EXCEPT !.clients[n] = c].clients = DOMAIN broker.clients
         /\ [broker EXCEPT !.clients[n] = c].clients[n] = c
         /\ Spares([broker EXCEPT !.clients[n] = c], n)
  <1>. DEFINE f == [broker.clients EXCEPT ![n] = c]
              e == [broker EXCEPT !.clients[n] = c]
  <1>1. broker.clients \in [DOMAIN broker.clients -> Client] /\ DOMAIN broker.clients \in SUBSET Names
    BY Clients
  <1>2. e = [broker EXCEPT !.clients = f]
    BY Clients
  <1>3. /\ f \in [DOMAIN broker.clients -> Client] /\ f[n] = c
        /\ DOMAIN f = DOMAIN broker.clients
        /\ \A m \in DOMAIN broker.clients \ {n} : f[m] = broker.clients[m]
    BY <1>1
  <1>. HIDE DEF f, e
  <1>4. e \in BrokerType /\ e.clients = f
    BY <1>1, <1>2, <1>3, NewClients
  <1>5. Spares(e, n)
    BY <1>3, <1>4 DEF Spares, Keeps
  <1>6. e \in BrokerType /\ DOMAIN e.clients = DOMAIN broker.clients /\ e.clients[n] = c
    BY <1>3, <1>4
  <1>. QED  BY <1>5, <1>6 DEF e

LEMMA PasswordSet ==
  ASSUME broker \in BrokerType, NEW n, NEW token \in 0..MaxToken
  PROVE  Allowed(WithPassword(n, token), n)
  <1>1. CASE n \in DOMAIN broker.clients
    <2>. DEFINE c == [broker.clients[n] EXCEPT !.token = token]
    <2>1. c \in Client
      BY <1>1, Clients DEF Client
    <2>2. WithPassword(n, token) = [broker EXCEPT !.clients[n] = c]
      BY <1>1 DEF WithPassword
    <2>. HIDE DEF c
    <2>. QED  BY <1>1, <2>1, <2>2, OneClient DEF Allowed
  <1>2. CASE n \notin DOMAIN broker.clients
    BY <1>2, NoEffect DEF WithPassword
  <1>. QED  BY <1>1, <1>2

LEMMA RoleGiven ==
  ASSUME broker \in BrokerType, NEW n, NEW r \in Role
  PROVE  LET e == WithRole(n, r)
         IN  /\ Allowed(e, n) /\ Keeps(e, n)
             /\ n \in DOMAIN broker.clients /\ ScannerOf(r) \subseteq broker.roles =>
                  r \in e.clients[n].roles
  <1>1. CASE n \in DOMAIN broker.clients /\ ScannerOf(r) \subseteq broker.roles
    <2>. DEFINE c == [broker.clients[n] EXCEPT !.roles = @ \cup {r}]
                e == WithRole(n, r)
    <2>1. c \in Client /\ c.roles = broker.clients[n].roles \cup {r}
      BY <1>1, Clients DEF Client
    <2>2. e = [broker EXCEPT !.clients[n] = c]
      BY <1>1 DEF WithRole
    <2>. HIDE DEF c, e
    <2>3. Allowed(e, n) /\ DOMAIN e.clients = DOMAIN broker.clients /\ e.clients[n] = c
      BY <1>1, <2>1, <2>2, OneClient DEF Allowed
    <2>4. Keeps(e, n) /\ r \in e.clients[n].roles
      BY <2>1, <2>3 DEF Keeps
    <2>. QED  BY <2>3, <2>4 DEF e
  <1>2. CASE ~(n \in DOMAIN broker.clients /\ ScannerOf(r) \subseteq broker.roles)
    BY <1>2, NoEffect DEF WithRole, Keeps
  <1>. QED  BY <1>1, <1>2

LEMMA RoleTaken ==
  ASSUME broker \in BrokerType, NEW n, NEW r
  PROVE  LET e == WithoutRole(n, r)
         IN  /\ Allowed(e, n)
             /\ n \in DOMAIN broker.clients =>
                  n \in DOMAIN e.clients /\ broker.clients[n].roles \ {r} \subseteq e.clients[n].roles
  <1>1. CASE n \in DOMAIN broker.clients
    <2>. DEFINE c == [broker.clients[n] EXCEPT !.roles = @ \ {r}]
                e == WithoutRole(n, r)
    <2>1. c \in Client /\ c.roles = broker.clients[n].roles \ {r}
      BY <1>1, Clients DEF Client
    <2>2. e = [broker EXCEPT !.clients[n] = c]
      BY <1>1 DEF WithoutRole
    <2>. HIDE DEF c, e
    <2>3. Allowed(e, n) /\ DOMAIN e.clients = DOMAIN broker.clients /\ e.clients[n] = c
      BY <1>1, <2>1, <2>2, OneClient DEF Allowed
    <2>4. n \in DOMAIN e.clients /\ broker.clients[n].roles \ {r} \subseteq e.clients[n].roles
      BY <1>1, <2>1, <2>3
    <2>. QED  BY <2>3, <2>4 DEF e
  <1>2. CASE n \notin DOMAIN broker.clients
    BY <1>2, NoEffect DEF WithoutRole
  <1>. QED  BY <1>1, <1>2

LEMMA RolesMade ==
  ASSUME broker \in BrokerType, NEW s \in Scanners
  PROVE  Allowed(WithScannerRoles(s), s)
  <1>. DEFINE e == WithScannerRoles(s)
  <1>1. e = [roles |-> broker.roles \cup {s}, clients |-> broker.clients]
    <2>. DEFINE R == broker.roles \cup {s}
    <2>1. WithScannerRoles(s) = [broker EXCEPT !.roles = R]
      BY DEF WithScannerRoles
    <2>2. broker = [roles |-> broker.roles, clients |-> broker.clients]
      BY Clients
    <2>. HIDE DEF R
    <2>3. [broker EXCEPT !.roles = R] = [roles |-> R, clients |-> broker.clients]
      BY <2>2
    <2>. QED  BY <2>1, <2>3 DEF R, e
  <1>. HIDE DEF e
  <1>2. e \in BrokerType /\ e.clients = broker.clients
    BY <1>1, Clients DEF BrokerType
  <1>3. Allowed(e, s)
    BY <1>2 DEF Allowed, Spares, Keeps
  <1>. QED  BY <1>3 DEF e

LEMMA RolesGone ==
  ASSUME broker \in BrokerType, NEW s \in Doomed
  PROVE  Allowed(WithoutScannerRoles(s), s)
  <1>. DEFINE e == WithoutScannerRoles(s)
              C == broker.clients
              c(m) == [C[m] EXCEPT !.roles = {r \in @ : s \notin ScannerOf(r)}]
              f == [m \in DOMAIN C |-> c(m)]
  <1>1. e = [roles |-> broker.roles \ {s}, clients |-> f]
    BY DEF WithoutScannerRoles
  <1>2. \A m \in DOMAIN C : c(m) \in Client /\ c(m).roles = {r \in C[m].roles : s \notin ScannerOf(r)}
    BY Clients DEF Client
  <1>. HIDE DEF c
  <1>3. /\ f \in [DOMAIN C -> Client] /\ DOMAIN f = DOMAIN C
        /\ \A m \in DOMAIN C : f[m].roles = {r \in C[m].roles : s \notin ScannerOf(r)}
    BY <1>2
  <1>4. f \in Partial(Names, Client)
    BY <1>3, Clients DEF Partial
  <1>. HIDE DEF e, f
  <1>5. e \in BrokerType /\ e.clients = f
    BY <1>1, <1>4, Clients DEF BrokerType, Names
  <1>6. Allowed(e, s)
    BY <1>3, <1>5 DEF Allowed, Spares, Keeps
  <1>. QED  BY <1>6 DEF e

-----------------------------------------------------------------------------
(* The exchange of a command                                               *)

Clean(t, c) == [task[t] EXCEPT !.clean = c]

\* What a thread makes of an answer: the same agenda, or the rest of it
Followed(t, own, after) ==
  \A a \in Answers(t, own) :
    after[a] \in Agendas /\ after[a].items \in {task[t].items, Tail(task[t].items)}

\* Where a command leaves its thread: at the start of what is left, or where
\* an answer takes it, clean only if the answer was its own and nobody was by.
Left(t, effect, own, after) ==
  \/ \E items \in {<<>>, Tail(task[t].items)} : task'[t] = Agenda(items)
  \/ \E a \in Answers(t, own), c \in BOOLEAN :
       /\ after[a].items = task[t].items
       /\ task'[t] = [after[a] EXCEPT !.clean = c]
       /\ c => a = own /\ after[own].clean /\ Rivals(t) = {} /\ broker' = effect

Done(t, effect, own, after) ==
  /\ broker' \in {broker, effect} /\ late' \in [{"server", "sched"} -> Answer \cup {None}]
  /\ task' \in [Threads -> Agendas]
  /\ Left(t, effect, own, after)
  /\ \A o \in Threads \ {t} : task'[o] = IF o \in Rivals(t) THEN Clean(o, FALSE) ELSE task[o]
  /\ RestOK' /\ UNCHANGED <<queue, txn>>

LEMMA EmptyAgenda ==
  ASSUME NEW items \in Seq(Item)
  PROVE  /\ Agenda(items) \in Agendas /\ Agenda(items).items = items
         /\ Agenda(items).pc = "start"
  BY DEF Agenda, Agendas

LEMMA Unclean ==
  ASSUME NEW a \in Agendas, NEW c \in BOOLEAN
  PROVE  LET b == [a EXCEPT !.clean = c]
         IN  /\ b \in Agendas /\ b.items = a.items /\ b.pc = a.pc /\ b.add = a.add
             /\ b.remove = a.remove /\ b.want = a.want /\ b.clean = c
  BY DEF Agendas

LEMMA Commands ==
  ASSUME Types, NEW t \in Threads, Busy(t), Now(t).kind # "query",
         NEW effect \in BrokerType, NEW own \in Answer, NEW after, NEW renews,
         Followed(t, own, after), Command(t, effect, own, after, renews)
  PROVE  Done(t, effect, own, after)
  <1>. DEFINE items == task[t].items
  <1>1. /\ task \in [Threads -> Agendas] /\ task[t] \in Agendas
        /\ late \in [{"server", "sched"} -> Answer \cup {None}]
        /\ Line(t) \in {"server", "sched"}
        /\ db \in Database /\ drift \subseteq Names /\ calm \in BOOLEAN /\ events \in 0..MaxEvents
    BY DEF Types, RowsOK, TasksOK, BrokerOK, RestOK, Line, Names
  <1>2. /\ items \in Seq(Item) /\ items # <<>> /\ Now(t) \in Item
        /\ Tail(items) \in Seq(Item) /\ Len(Tail(items)) < Len(items)
    BY <1>1, Dropping DEF Agendas, Busy, Now, Forgets
  <1>3. Now(t).name \in Names
    BY <1>1, <1>2, About DEF Names
  <1>4. own \in Answers(t, own) /\ (late[Line(t)] # None => late[Line(t)] \in Answers(t, own))
    BY DEF Answers
  <1>5. ASSUME NEW l \in Answer \cup {None}
        PROVE  [late EXCEPT ![Line(t)] = l] \in [{"server", "sched"} -> Answer \cup {None}]
    BY <1>1
  <1>6. ASSUME NEW o \in Threads \ {t} PROVE Clean(o, FALSE) \in Agendas
    BY <1>1, Unclean DEF Clean
  <1>7. Agenda(<<>>) \in Agendas /\ Agenda(Tail(items)) \in Agendas
    <2>1. <<>> \in Seq(Item)
      OBVIOUS
    <2>. QED  BY <1>2, <2>1, EmptyAgenda
  <1>8. ASSUME NEW a \in Answers(t, own), NEW mine \in BOOLEAN, mine => a = own,
               broker' = effect, Proceed(t, after[a], renews, mine)
        PROVE  /\ task' \in [Threads -> Agendas] /\ Left(t, effect, own, after)
               /\ \A o \in Threads \ {t} :
                    task'[o] = IF o \in Rivals(t) THEN Clean(o, FALSE) ELSE task[o]
               /\ drift' \subseteq Names
    <2>. DEFINE next  == after[a]
                clean == mine /\ Rivals(t) = {} /\ next.clean
                done  == Len(next.items) < Len(items)
                new   == IF done THEN Agenda(next.items) ELSE [next EXCEPT !.clean = clean]
    <2>1. /\ task' = [o \in Threads |-> IF o = t THEN new
               ELSE IF o \in Rivals(t) THEN [task[o] EXCEPT !.clean = FALSE] ELSE task[o]]
          /\ drift' = IF done THEN Settled(t, next.want, renews, clean) ELSE drift
      BY <1>8 DEF Proceed
    <2>2. next \in Agendas /\ next.items \in {items, Tail(items)}
      BY DEF Followed
    <2>3. drift' \subseteq Names
      BY <1>1, <1>3, <2>1 DEF Settled
    <2>4. clean \in BOOLEAN /\ (clean => a = own /\ after[own].clean /\ Rivals(t) = {})
      <3>1. next.clean \in BOOLEAN
        BY <2>2 DEF Agendas
      <3>. QED  BY <1>8, <3>1
    <2>. HIDE DEF clean
    <2>5. /\ new \in Agendas
          /\ \/ new = Agenda(Tail(items))
             \/ next.items = items /\ new = [next EXCEPT !.clean = clean]
      <3>1. CASE next.items = Tail(items)
        BY <1>2, <1>7, <3>1
      <3>2. CASE next.items = items
        <4>1. ~done
          BY <1>2, <3>2
        <4>. QED  BY <2>2, <2>4, <3>2, <4>1, Unclean
      <3>. QED  BY <2>2, <3>1, <3>2
    <2>. HIDE DEF new, next
    <2>6. /\ task'[t] = new
          /\ \A o \in Threads \ {t} :
               task'[o] = IF o \in Rivals(t) THEN Clean(o, FALSE) ELSE task[o]
      BY <2>1 DEF Clean
    <2>7. task' \in [Threads -> Agendas]
      <3>1. ASSUME NEW o \in Threads PROVE task'[o] \in Agendas
        <4>1. CASE o = t
          BY <2>5, <2>6, <4>1
        <4>2. CASE o # t
          <5>1. task[o] \in Agendas /\ Clean(o, FALSE) \in Agendas
            BY <1>1, <1>6, <4>2
          <5>. QED  BY <2>6, <4>2, <5>1
        <4>. QED  BY <4>1, <4>2
      <3>. QED  BY <2>1, <3>1
    <2>8. Left(t, effect, own, after)
      <3>1. CASE new = Agenda(Tail(items))
        BY <2>6, <3>1 DEF Left
      <3>2. CASE next.items = items /\ new = [next EXCEPT !.clean = clean]
        <4>1. after[a].items = task[t].items /\ task'[t] = [after[a] EXCEPT !.clean = clean]
          BY <2>6, <3>2 DEF next
        <4>. QED  BY <1>8, <2>4, <4>1 DEF Left
      <3>. QED  BY <2>5, <3>1, <3>2
    <2>. QED  BY <2>3, <2>6, <2>7, <2>8
  <1>9. CASE Exchange(t, effect, own, after, renews)
    <2>1. CASE /\ late' = [late EXCEPT ![Line(t)] = None]
               /\ Proceed(t, after[own], renews, TRUE) /\ UNCHANGED calm
      BY <1>1, <1>4, <1>5, <1>8, <1>9, <2>1 DEF Done, Exchange, RestOK, Names
    <2>2. CASE /\ late[Line(t)] # None /\ late' = [late EXCEPT ![Line(t)] = own]
               /\ Proceed(t, after[late[Line(t)]], renews, FALSE) /\ calm' = FALSE
      BY <1>1, <1>4, <1>5, <1>8, <1>9, <2>2 DEF Done, Exchange, RestOK, Names
    <2>. QED  BY <1>9, <2>1, <2>2 DEF Exchange
  <1>10. CASE Fails(t, effect, own)
    <2>. DEFINE new == IF Now(t).guarded THEN Agenda(Tail(items)) ELSE Agenda(<<>>)
    <2>1. task' = [o \in Threads |-> IF o = t THEN new
               ELSE IF o \in Rivals(t) THEN [task[o] EXCEPT !.clean = FALSE] ELSE task[o]]
      BY <1>10 DEF Fails
    <2>2. new \in Agendas /\ \E its \in {<<>>, Tail(items)} : new = Agenda(its)
      BY <1>7
    <2>. HIDE DEF new
    <2>3. /\ task'[t] = new
          /\ \A o \in Threads \ {t} :
               task'[o] = IF o \in Rivals(t) THEN Clean(o, FALSE) ELSE task[o]
      BY <2>1 DEF Clean
    <2>4. task' \in [Threads -> Agendas]
      <3>1. ASSUME NEW o \in Threads PROVE task'[o] \in Agendas
        <4>1. CASE o = t
          BY <2>2, <2>3, <4>1
        <4>2. CASE o # t
          <5>1. task[o] \in Agendas /\ Clean(o, FALSE) \in Agendas
            BY <1>1, <1>6, <4>2
          <5>. QED  BY <2>3, <4>2, <5>1
        <4>. QED  BY <4>1, <4>2
      <3>. QED  BY <2>1, <3>1
    <2>5. Left(t, effect, own, after)
      BY <2>2, <2>3 DEF Left
    <2>6. drift' \subseteq Names
      <3>1. \A i \in DOMAIN items : Subjects(items[i]) \subseteq Names
        BY <1>1, <1>2, About DEF Names
      <3>. QED  BY <1>1, <1>3, <1>10, <3>1 DEF Fails
    <2>7. events' \in 0..MaxEvents /\ calm' \in BOOLEAN /\ UNCHANGED <<queue, txn>>
      <3>1. /\ events < MaxEvents /\ events' = events + 1 /\ calm' = FALSE
            /\ UNCHANGED <<queue, txn>>
        BY <1>10 DEF Fails
      <3>2. events' \in 0..MaxEvents
        BY <1>1, <3>1
      <3>. QED  BY <3>1, <3>2
    <2>8. broker' \in {broker, effect} /\ late' \in [{"server", "sched"} -> Answer \cup {None}]
      BY <1>5, <1>10 DEF Fails
    <2>. QED  BY <2>3, <2>4, <2>5, <2>6, <2>7, <2>8 DEF Done, RestOK, Names
  <1>. QED  BY <1>9, <1>10 DEF Command

-----------------------------------------------------------------------------
(* What each command does                                                  *)

\* The client has what an agenda no longer has to add.
Fulfils(t, effect, x) ==
  Now(t).kind = "user" /\ x.items = task[t].items /\ x.pc \in {"get", "diff"} /\ x.clean =>
    /\ Now(t).name \in DOMAIN effect.clients
    /\ x.pc = "diff" =>
         /\ x.remove \cap x.want = {}
         /\ \A r \in x.want \ x.add :
              ScannerOf(r) \cap Doomed = {} => r \in effect.clients[Now(t).name].roles

\* A command of t on the subject it is at
Made(t, effect, own, after) ==
  /\ Busy(t) /\ Now(t).kind # "query"
  /\ effect \in BrokerType /\ own \in Answer /\ Followed(t, own, after)
  /\ Allowed(effect, Now(t).name) /\ Fulfils(t, effect, after[own])
  /\ \E renews : Command(t, effect, own, after, renews)
  /\ session' = session
  /\ db' = db \/ \E u \in Users : db' = [db EXCEPT !.creds = @ \cup {u}]

Commanded(t) ==
  \/ UserClient(t) \/ UserRoles(t) \/ UserDiff(t)
  \/ ScannerRoles(t) \/ ScannerClient(t) \/ ScannerPassword(t) \/ ScannerDevice(t)
  \/ ScannerDisabled(t) \/ ForgetClient(t) \/ ForgetRoles(t)

LEMMA Moves ==
  ASSUME Types, NEW t \in Threads, Busy(t)
  PROVE  /\ task[t] \in Agendas /\ Now(t) \in Item
         /\ Rest(t) \in Agendas /\ Rest(t).items = Tail(task[t].items)
         /\ Rest(t).items # task[t].items
         /\ \A pc \in {"start", "get", "diff", "client", "password", "role", "roles"} :
              /\ Goto(t, pc) \in Agendas /\ Goto(t, pc).items = task[t].items
              /\ Goto(t, pc).pc = pc /\ Goto(t, pc).clean = task[t].clean
  <1>1. task[t] \in Agendas
    BY DEF Types, TasksOK
  <1>2. /\ task[t].items \in Seq(Item) /\ task[t].items # <<>> /\ Now(t) \in Item
        /\ Tail(task[t].items) \in Seq(Item) /\ Len(Tail(task[t].items)) < Len(task[t].items)
    BY <1>1, Dropping DEF Agendas, Busy, Now, Forgets
  <1>3. \A x \in Agendas : \A its \in Seq(Item) :
          [x EXCEPT !.items = its] \in Agendas /\ [x EXCEPT !.items = its].items = its
    BY DEF Agendas
  <1>4. Rest(t) \in Agendas /\ Rest(t).items = Tail(task[t].items)
    BY <1>1, <1>2, <1>3 DEF Rest
  <1>5. Rest(t).items # task[t].items
    <2>1. \A x \in Seq(Item) : x # <<>> => Tail(x) # x
      OBVIOUS
    <2>. QED  BY <1>2, <1>4, <2>1
  <1>6. \A pc \in {"start", "get", "diff", "client", "password", "role", "roles"} :
              /\ Goto(t, pc) \in Agendas /\ Goto(t, pc).items = task[t].items
              /\ Goto(t, pc).pc = pc /\ Goto(t, pc).clean = task[t].clean
    BY <1>1 DEF Goto, Agendas
  <1>. QED  BY <1>1, <1>2, <1>4, <1>5, <1>6

LEMMA OneAnswer ==
  ASSUME NEW t, NEW own \in Answer, NEW state \in Agendas,
         state.items \in {task[t].items, Tail(task[t].items)}
  PROVE  Followed(t, own, Whatever(t, own, state)) /\ Whatever(t, own, state)[own] = state
  BY DEF Followed, Whatever, Answers

LEMMA Replies == Ok \in Answer /\ Exists \in Answer
  BY DEF Answer, Ok, Exists

LEMMA Answered ==
  ASSUME BrokerOK, NEW t \in Threads, NEW own \in Answer
  PROVE  /\ own \in Answers(t, own)
         /\ \A a \in Answers(t, own) : a \in Answer /\ a.roles \subseteq Role
  BY DEF BrokerOK, Line, Answers, Answer

LEMMA UserClientMade ==
  ASSUME Types, Given, NEW t \in Threads, UserClient(t)
  PROVE  \E effect, own, after : Made(t, effect, own, after)
  <1>. DEFINE u      == Now(t).name
              own    == IF u \in DOMAIN broker.clients THEN Exists ELSE Ok
              effect == WithClient(u, 0, {})
              after  == Whatever(t, own, Goto(t, "get"))
  <1>1. At(t, "user", "start") /\ Busy(t) /\ Now(t).kind = "user"
    BY DEF UserClient, At
  <1>2. Now(t) \in Item /\ u \in Users
    BY <1>1, Moves, About DEF Types, RowsOK
  <1>3. own \in Answer
    BY Replies
  <1>4. /\ Allowed(effect, u) /\ u \in DOMAIN effect.clients /\ effect \in BrokerType
    BY <1>2, ClientMade DEF Types, BrokerOK, Names, Allowed
  <1>5. /\ Command(t, effect, own, after, TRUE)
        /\ session' = session /\ db' = [db EXCEPT !.creds = @ \cup {u}]
    BY DEF UserClient
  <1>. HIDE DEF own, effect
  <1>6. Followed(t, own, after) /\ after[own] = Goto(t, "get")
    BY <1>1, <1>3, Moves, OneAnswer
  <1>7. Fulfils(t, effect, Goto(t, "get"))
    BY <1>1, <1>4, Moves DEF Fulfils
  <1>. HIDE DEF after
  <1>8. Made(t, effect, own, after)
    BY <1>1, <1>2, <1>3, <1>4, <1>5, <1>6, <1>7 DEF Made
  <1>. QED  BY <1>8

LEMMA UserRolesMade ==
  ASSUME Types, Given, NEW t \in Threads, UserRoles(t)
  PROVE  \E effect, own, after : Made(t, effect, own, after)
  <1>. DEFINE n     == Now(t).name
              want  == Plan(db, Now(t))
              own   == [kind |-> "data", roles |-> RolesOf(n)]
              equal == [Rest(t) EXCEPT !.want = want]
              diff(a) == [Goto(t, "diff") EXCEPT !.want = want, !.add = want \ a.roles,
                                                 !.remove = a.roles \ want]
              after == [a \in Answers(t, own) |-> IF a.roles = want THEN equal ELSE diff(a)]
  <1>1. /\ At(t, "user", "get") /\ Busy(t) /\ Now(t).kind = "user" /\ task[t].pc = "get"
        /\ Command(t, broker, own, after, TRUE) /\ session' = session /\ db' = db
    BY DEF UserRoles, At
  <1>2. Now(t) \in Item /\ n \in Users /\ Now(t).grant \in Grants \cup {None}
    BY <1>1, Moves, About DEF Types, RowsOK
  <1>3. want \in SUBSET Role
    BY <1>2, DesiredRoles DEF Plan, Types, RowsOK
  <1>4. RolesOf(n) \in SUBSET Role
    BY Clients DEF RolesOf, Client, Types, BrokerOK
  <1>5. own \in Answer /\ own.roles = RolesOf(n)
    BY <1>4 DEF Answer
  <1>. HIDE DEF want, own
  <1>6. Allowed(broker, n) /\ broker \in BrokerType
    BY NoEffect DEF Types, BrokerOK
  <1>7. equal \in Agendas /\ equal.items = Tail(task[t].items)
    <2>1. \A x \in Agendas : [x EXCEPT !.want = want] \in Agendas
                               /\ [x EXCEPT !.want = want].items = x.items
      BY <1>3 DEF Agendas
    <2>. QED  BY <1>1, <2>1, Moves
  <1>8. ASSUME NEW a \in Answers(t, own)
        PROVE  /\ diff(a) \in Agendas /\ diff(a).items = task[t].items /\ diff(a).pc = "diff"
               /\ diff(a).want = want /\ diff(a).add = want \ a.roles
               /\ diff(a).remove = a.roles \ want
               /\ diff(a).clean = task[t].clean
    <2>2. a.roles \in SUBSET Role
      BY <1>5, Answered DEF Types
    <2>. DEFINE x == Goto(t, "diff")
                p == want \ a.roles
                q == a.roles \ want
                y == [x EXCEPT !.want = want, !.add = p, !.remove = q]
    <2>4. x \in Agendas /\ x.items = task[t].items /\ x.pc = "diff" /\ x.clean = task[t].clean
      BY <1>1, Moves
    <2>1. p \in SUBSET Role /\ q \in SUBSET Role
      BY <1>3, <2>2
    <2>. HIDE DEF x, p, q
    <2>5. /\ y \in Agendas /\ y.items = x.items /\ y.pc = x.pc /\ y.clean = x.clean
          /\ y.want = want /\ y.add = p /\ y.remove = q
      BY <1>3, <2>1, <2>4 DEF Agendas
    <2>6. diff(a) = y
      BY DEF x, p, q
    <2>. HIDE DEF y
    <2>. QED  BY <2>4, <2>5, <2>6 DEF p, q
  <1>. HIDE DEF equal, diff
  <1>9. Followed(t, own, after)
    BY <1>7, <1>8 DEF Followed
  <1>10. Fulfils(t, broker, after[own])
    <2>1. own \in Answers(t, own)
      BY <1>5, Answered DEF Types
    <2>2. CASE own.roles = want
      <3>1. after[own] = equal /\ equal.items # task[t].items
        BY <1>1, <1>7, <2>1, <2>2, Moves
      <3>. QED  BY <3>1 DEF Fulfils
    <2>3. CASE own.roles # want
      <3>1. after[own] = diff(own)
        BY <2>1, <2>3
      <3>2. ASSUME task[t].clean
            PROVE  /\ n \in DOMAIN broker.clients
                   /\ \A r \in want \ (want \ own.roles) : r \in broker.clients[n].roles
        <4>1. n \in DOMAIN broker.clients
          BY <1>1, <3>2 DEF Given, GivenTo
        <4>. QED  BY <1>5, <4>1 DEF RolesOf
      <3>. QED  BY <1>8, <2>1, <3>1, <3>2 DEF Fulfils
    <2>. QED  BY <2>2, <2>3
  <1>. HIDE DEF after
  <1>11. Made(t, broker, own, after)
    BY <1>1, <1>5, <1>6, <1>9, <1>10 DEF Made
  <1>. QED  BY <1>11

LEMMA UserDiffMade ==
  ASSUME Types, Given, NEW t \in Threads, UserDiff(t)
  PROVE  \E effect, own, after : Made(t, effect, own, after)
  <1>1. /\ At(t, "user", "diff") /\ Busy(t) /\ Now(t).kind = "user" /\ task[t].pc = "diff"
        /\ session' = session /\ db' = db
    BY DEF UserDiff, At
  <1>2. PICK r \in Pending(t) :
       LET u    == Now(t).name
           new  == r \in task[t].add
           last == task[t].add \cup task[t].remove = {r}
           next == [(IF last THEN Rest(t) ELSE task[t])
                      EXCEPT !.add = @ \ {r}, !.remove = @ \ {r},
                             !.clean = @ /\ (new => ScannerOf(r) \subseteq broker.roles)]
       IN  Command(t, IF new THEN WithRole(u, r) ELSE WithoutRole(u, r), Ok,
                   Whatever(t, Ok, next), TRUE)
    BY DEF UserDiff
  <1>. DEFINE n    == Now(t).name
              new  == r \in task[t].add
              last == task[t].add \cup task[t].remove = {r}
              from == IF last THEN Rest(t) ELSE task[t]
              okay == new => ScannerOf(r) \subseteq broker.roles
              next == [from EXCEPT !.add = @ \ {r}, !.remove = @ \ {r}, !.clean = @ /\ okay]
              effect == IF new THEN WithRole(n, r) ELSE WithoutRole(n, r)
              after  == Whatever(t, Ok, next)
  <1>3. Command(t, effect, Ok, after, TRUE)
    BY <1>2
  <1>4. Now(t) \in Item /\ n \in Users /\ task[t] \in Agendas
    BY <1>1, Moves, About DEF Types, RowsOK
  <1>5. r \in Role /\ (~new => r \in task[t].remove)
    BY <1>4 DEF Pending, Agendas
  <1>6. from \in Agendas /\ from.items \in {task[t].items, Tail(task[t].items)}
    BY <1>1, Moves
  <1>7. /\ next \in Agendas /\ next.items = from.items /\ next.pc = from.pc /\ next.want = from.want
        /\ next.add = from.add \ {r} /\ next.remove = from.remove \ {r}
        /\ next.clean = (from.clean /\ okay)
    <2>1. okay \in BOOLEAN
      OBVIOUS
    <2>. HIDE DEF okay, from
    <2>. DEFINE p == from.add \ {r}
                q == from.remove \ {r}
                c == from.clean /\ okay
    <2>2. next = [from EXCEPT !.add = p, !.remove = q, !.clean = c]
      OBVIOUS
    <2>3. p \in SUBSET Role /\ q \in SUBSET Role /\ c \in BOOLEAN
      <3>1. from.clean \in BOOLEAN /\ from.add \subseteq Role /\ from.remove \subseteq Role
        BY <1>6 DEF Agendas
      <3>. QED  BY <2>1, <3>1
    <2>. HIDE DEF p, q, c, next
    <2>4. /\ next \in Agendas /\ next.items = from.items /\ next.pc = from.pc
          /\ next.want = from.want /\ next.add = p /\ next.remove = q /\ next.clean = c
      BY <1>6, <2>2, <2>3 DEF Agendas
    <2>. QED  BY <2>4 DEF p, q, c
  <1>8. Ok \in Answer
    BY Replies
  <1>. HIDE DEF next
  <1>9. Followed(t, Ok, after) /\ after[Ok] = next
    <2>1. next \in Agendas /\ next.items \in {task[t].items, Tail(task[t].items)}
      BY <1>6, <1>7
    <2>. QED  BY <1>8, <2>1, OneAnswer
  <1>10. effect \in BrokerType /\ Allowed(effect, n)
    BY <1>5, RoleGiven, RoleTaken DEF Types, BrokerOK, Allowed
  <1>11. Fulfils(t, effect, next)
    <2>. SUFFICES ASSUME next.items = task[t].items, next.clean
                  PROVE  /\ n \in DOMAIN effect.clients
                         /\ next.remove \cap next.want = {}
                         /\ \A x \in next.want \ next.add :
                              ScannerOf(x) \cap Doomed = {} => x \in effect.clients[n].roles
      BY DEF Fulfils
    <2>1. from = task[t]
      <3>1. Rest(t).items # task[t].items
        BY <1>1, Moves
      <3>2. from.items = task[t].items
        BY <1>7
      <3>. QED  BY <3>1, <3>2
    <2>2. task[t].clean /\ okay
      BY <1>7, <2>1
    <2>3. /\ n \in DOMAIN broker.clients
          /\ task[t].remove \cap task[t].want = {}
          /\ \A x \in task[t].want \ task[t].add :
               ScannerOf(x) \cap Doomed = {} => x \in broker.clients[n].roles
      BY <1>1, <2>2 DEF Given, GivenTo, RolesOf
    <2>4. next.remove \cap next.want = {}
      BY <1>7, <2>1, <2>3
    <2>5. CASE new
      <3>1. effect = WithRole(n, r) /\ ScannerOf(r) \subseteq broker.roles
        BY <2>2, <2>5
      <3>2. Keeps(effect, n) /\ r \in effect.clients[n].roles
        BY <1>5, <2>3, <3>1, RoleGiven DEF Types, BrokerOK
      <3>. HIDE DEF effect
      <3>3. ASSUME NEW x \in next.want \ next.add, ScannerOf(x) \cap Doomed = {}
            PROVE  x \in effect.clients[n].roles
        <4>1. CASE x = r
          BY <3>2, <4>1
        <4>2. CASE x # r
          <5>1. x \in task[t].want \ task[t].add
            BY <1>7, <2>1, <3>3, <4>2
          <5>. QED  BY <2>3, <3>2, <3>3, <5>1 DEF Keeps
        <4>. QED  BY <4>1, <4>2
      <3>. QED  BY <2>3, <2>4, <3>2, <3>3 DEF Keeps
    <2>6. CASE ~new
      <3>1. effect = WithoutRole(n, r) /\ r \in task[t].remove
        BY <1>5, <2>6
      <3>2. n \in DOMAIN effect.clients /\ broker.clients[n].roles \ {r} \subseteq effect.clients[n].roles
        BY <2>3, <3>1, RoleTaken DEF Types, BrokerOK
      <3>. HIDE DEF effect
      <3>3. ASSUME NEW x \in next.want \ next.add, ScannerOf(x) \cap Doomed = {}
            PROVE  x \in effect.clients[n].roles
        <4>1. x \in task[t].want \ task[t].add /\ x # r
          BY <1>7, <2>1, <2>3, <2>6, <3>1, <3>3
        <4>. QED  BY <2>3, <3>2, <3>3, <4>1
      <3>. QED  BY <2>4, <3>2, <3>3
    <2>. QED  BY <2>5, <2>6
  <1>. HIDE DEF after, effect
  <1>12. Made(t, effect, Ok, after)
    BY <1>1, <1>3, <1>8, <1>9, <1>10, <1>11 DEF Made
  <1>. QED  BY <1>12

LEMMA OnScanner ==
  ASSUME NEW t, Busy(t), Now(t).kind \in {"scanner", "forget"},
         NEW effect, Allowed(effect, Now(t).name), NEW own \in Answer, NEW after,
         Followed(t, own, after), \E renews : Command(t, effect, own, after, renews),
         session' = session, db' = db
  PROVE  \E e, o, a : Made(t, e, o, a)
  <1>1. Made(t, effect, own, after)
    BY DEF Made, Allowed, Fulfils
  <1>. QED  BY <1>1

LEMMA ScannerMade ==
  ASSUME Types, NEW t \in Threads,
         \/ ScannerRoles(t) \/ ScannerClient(t) \/ ScannerPassword(t) \/ ScannerDevice(t)
         \/ ScannerDisabled(t) \/ ForgetClient(t) \/ ForgetRoles(t)
  PROVE  \E effect, own, after : Made(t, effect, own, after)
  <1>. DEFINE s == Now(t).name
  <1>1. /\ Busy(t) /\ Now(t).kind \in {"scanner", "forget"} /\ session' = session /\ db' = db
    BY DEF ScannerRoles, ScannerClient, ScannerPassword, ScannerDevice, ScannerDisabled,
           ForgetClient, ForgetRoles, At
  <1>2. /\ Now(t) \in Item /\ s \in Scanners /\ s \in Names
        /\ Now(t).kind = "scanner" => Now(t).row \in Row
    BY <1>1, Moves, About DEF Types, RowsOK, Names
  <1>3. broker \in BrokerType /\ Ok \in Answer /\ Exists \in Answer
    BY Replies DEF Types, BrokerOK
  <1>4. /\ Rest(t) \in Agendas /\ Rest(t).items = Tail(task[t].items)
        /\ \A pc \in {"client", "password", "role", "roles"} :
             Goto(t, pc) \in Agendas /\ Goto(t, pc).items = task[t].items
    BY <1>1, Moves
  <1>5. Followed(t, Ok, Whatever(t, Ok, Rest(t)))
    BY <1>3, <1>4, OneAnswer
  <1>6. \A pc \in {"client", "password", "role", "roles"} :
          Followed(t, Ok, Whatever(t, Ok, Goto(t, pc)))
    BY <1>3, <1>4, OneAnswer
  <1>7. Device(s) \in Role
    BY <1>2 DEF Device, Role
  <1>8. CASE ScannerRoles(t)
    <2>1. Command(t, WithScannerRoles(s), Ok, Whatever(t, Ok, Goto(t, "client")), TRUE)
      BY <1>8 DEF ScannerRoles
    <2>2. Allowed(WithScannerRoles(s), s)
      BY <1>2, <1>3, RolesMade
    <2>. QED  BY <1>1, <1>3, <1>6, <2>1, <2>2, OnScanner
  <1>9. CASE ScannerClient(t)
    <2>. DEFINE own    == IF s \in DOMAIN broker.clients THEN Exists ELSE Ok
                next   == IF Now(t).password THEN "password" ELSE "role"
                after  == [a \in Answers(t, own) |->
                             IF a.kind # "exists" THEN Rest(t) ELSE Goto(t, next)]
                made   == WithClient(s, Now(t).row.token, {Device(s)})
                effect == IF s \in broker.roles THEN made ELSE broker
    <2>1. Command(t, effect, own, after, own = Ok) /\ Now(t).kind = "scanner"
      BY <1>9 DEF ScannerClient, At
    <2>2. own \in Answer
      BY <1>3
    <2>3. Allowed(effect, s)
      <3>1. Now(t).row.token \in 0..MaxToken
        BY <1>2, <2>1 DEF Row
      <3>2. {Device(s)} \in SUBSET Role
        BY <1>7
      <3>3. Allowed(made, s)
        BY <1>2, <1>3, <3>1, <3>2, ClientMade
      <3>. QED  BY <1>3, <3>3, NoEffect
    <2>. HIDE DEF own, effect
    <2>4. Followed(t, own, after)
      <3>1. Goto(t, next) \in Agendas /\ Goto(t, next).items = task[t].items
        BY <1>4
      <3>. HIDE DEF next
      <3>. QED  BY <1>4, <3>1 DEF Followed
    <2>. HIDE DEF after
    <2>. QED  BY <1>1, <2>1, <2>2, <2>3, <2>4, OnScanner
  <1>10. CASE ScannerPassword(t)
    <2>1. Command(t, WithPassword(s, Now(t).row.token), Ok, Whatever(t, Ok, Goto(t, "role")), TRUE)
      BY <1>10 DEF ScannerPassword
    <2>2. Now(t).row.token \in 0..MaxToken
      BY <1>2, <1>10 DEF ScannerPassword, At, Row
    <2>3. Allowed(WithPassword(s, Now(t).row.token), s)
      BY <1>3, <2>2, PasswordSet
    <2>. QED  BY <1>1, <1>3, <1>6, <2>1, <2>3, OnScanner
  <1>11. CASE ScannerDevice(t)
    <2>1. Command(t, WithRole(s, Device(s)), Ok, Whatever(t, Ok, Rest(t)), Now(t).password)
      BY <1>11 DEF ScannerDevice
    <2>2. Allowed(WithRole(s, Device(s)), s)
      BY <1>3, <1>7, RoleGiven
    <2>. QED  BY <1>1, <1>3, <1>5, <2>1, <2>2, OnScanner
  <1>12. CASE ScannerDisabled(t)
    <2>1. Command(t, WithoutClient(s), Ok, Whatever(t, Ok, Rest(t)), TRUE)
      BY <1>12 DEF ScannerDisabled
    <2>. QED  BY <1>1, <1>3, <1>5, <2>1, ClientGone, OnScanner
  <1>13. CASE ForgetClient(t)
    <2>1. Command(t, WithoutClient(s), Ok, Whatever(t, Ok, Goto(t, "roles")), TRUE)
      BY <1>13 DEF ForgetClient
    <2>. QED  BY <1>1, <1>3, <1>6, <2>1, ClientGone, OnScanner
  <1>14. CASE ForgetRoles(t)
    <2>1. /\ Command(t, WithoutScannerRoles(s), Ok, Whatever(t, Ok, Rest(t)), TRUE)
          /\ Now(t).kind = "forget"
      BY <1>14 DEF ForgetRoles, At
    <2>2. s \in Doomed
      <3>1. /\ task[t].items \in Seq(Item) /\ Forgets(task[t].items, Doomed)
            /\ task[t].items # <<>>
        BY <1>1 DEF Types, TasksOK, Agendas, Busy
      <3>. QED  BY <2>1, <3>1, Dropping DEF Now
    <2>3. Allowed(WithoutScannerRoles(s), s)
      BY <1>3, <2>2, RolesGone
    <2>. QED  BY <1>1, <1>3, <1>5, <2>1, <2>3, OnScanner
  <1>. QED  BY <1>8, <1>9, <1>10, <1>11, <1>12, <1>13, <1>14

\* Every command of a thread is one on the subject it is at.
LEMMA CommandSteps ==
  ASSUME Types, Given, NEW t \in Threads, Commanded(t)
  PROVE  \E effect, own, after : Made(t, effect, own, after)
  BY UserClientMade, UserRolesMade, UserDiffMade, ScannerMade DEF Commanded

-----------------------------------------------------------------------------
(* The steps keep the invariant                                            *)

LEMMA DoneByCommand ==
  ASSUME Types, NEW t \in Threads, NEW effect, NEW own, NEW after, Made(t, effect, own, after)
  PROVE  Done(t, effect, own, after)
  BY Commands DEF Made

\* A command leaves the rows as they are, credentials aside.
LEMMA CommandRows ==
  ASSUME Types, NEW t \in Threads, NEW effect, NEW own, NEW after, Made(t, effect, own, after)
  PROVE  RowsOK' /\ JobsOK' /\ Doomed' = Doomed
  <1>1. /\ db \in Database /\ Sound(db) /\ txn \in Transaction \cup {None}
        /\ txn # None => Follows(db, txn.rows)
        /\ session \in Session \cup {None} /\ JobsOK
    BY DEF Types, RowsOK
  <1>2. txn' = txn /\ queue' = queue /\ session' = session
    BY DoneByCommand DEF Done, Made
  <1>3. Follows(db, db') /\ db'.deleted = db.deleted
    <2>1. CASE db' = db
      BY <1>1, <2>1 DEF Follows
    <2>2. ASSUME NEW u \in Users, db' = [db EXCEPT !.creds = @ \cup {u}]
          PROVE  Follows(db, db') /\ db'.deleted = db.deleted
      <3>. DEFINE x == db.creds \cup {u}
      <3>1. x \in SUBSET Users /\ db' = [db EXCEPT !.creds = x]
        BY <1>1, <2>2, Parts
      <3>. HIDE DEF x
      <3>. QED  BY <1>1, <3>1, RowChanges DEF Database
    <2>. QED  BY <2>1, <2>2 DEF Made
  <1>4. Doomed' = Doomed
    BY <1>2, <1>3 DEF Doomed
  <1>5. txn' # None => Follows(db', txn'.rows)
    BY <1>1, <1>2, <1>3 DEF Follows
  <1>6. RowsOK'
    BY <1>1, <1>2, <1>3, <1>5 DEF RowsOK, Follows
  <1>7. JobsOK'
    BY <1>1, <1>2, <1>4 DEF JobsOK, Drops
  <1>. QED  BY <1>4, <1>6, <1>7

LEMMA CommandTypes ==
  ASSUME Types, NEW t \in Threads, NEW effect, NEW own, NEW after, Made(t, effect, own, after)
  PROVE  Types'
  <1>1. Done(t, effect, own, after)
    BY DoneByCommand
  <1>2. RowsOK' /\ JobsOK' /\ Doomed' = Doomed
    BY CommandRows
  <1>3. BrokerOK' /\ RestOK'
    BY <1>1 DEF Done, Types, BrokerOK, Made
  <1>4. task' \in [Threads -> Agendas]
    BY <1>1 DEF Done
  <1>5. ASSUME NEW o \in Threads PROVE Forgets(task'[o].items, Doomed)
    <2>1. /\ task[o] \in Agendas /\ Forgets(task[o].items, Doomed)
          /\ task[t] \in Agendas /\ Forgets(task[t].items, Doomed) /\ task[t].items # <<>>
      BY DEF Types, TasksOK, Made, Busy
    <2>2. CASE o # t
      <3>1. Clean(o, FALSE).items = task[o].items
        BY <2>1, Unclean DEF Clean
      <3>2. task'[o] = IF o \in Rivals(t) THEN Clean(o, FALSE) ELSE task[o]
        BY <1>1, <2>2 DEF Done
      <3>3. task'[o].items = task[o].items
        BY <3>1, <3>2
      <3>. QED  BY <2>1, <3>3
    <2>3. CASE o = t
      <3>1. Tail(task[t].items) \in Seq(Item) /\ Forgets(Tail(task[t].items), Doomed)
        BY <2>1, Dropping DEF Agendas
      <3>2. CASE \E items \in {<<>>, Tail(task[t].items)} : task'[t] = Agenda(items)
        <4>1. <<>> \in Seq(Item) /\ Forgets(<<>>, Doomed)
          BY DEF Forgets
        <4>. QED  BY <2>3, <3>1, <3>2, <4>1, EmptyAgenda
      <3>3. ASSUME NEW a \in Answers(t, own), NEW c \in BOOLEAN,
                   after[a].items = task[t].items, task'[t] = [after[a] EXCEPT !.clean = c]
            PROVE  Forgets(task'[t].items, Doomed)
        <4>1. after[a] \in Agendas
          BY DEF Made, Followed
        <4>2. task'[t].items = task[t].items
          BY <3>3, <4>1, Unclean
        <4>. QED  BY <2>1, <4>2
      <3>. QED  BY <1>1, <2>3, <3>2, <3>3 DEF Done, Left
    <2>. QED  BY <2>2, <2>3
  <1>6. TasksOK'
    BY <1>2, <1>4, <1>5 DEF TasksOK, Forgets
  <1>. QED  BY <1>2, <1>3, <1>6 DEF Types

LEMMA CommandGiven ==
  ASSUME Types, Given, NEW t \in Threads, NEW effect, NEW own, NEW after,
         Made(t, effect, own, after)
  PROVE  Given'
  <1>1. Done(t, effect, own, after)
    BY DoneByCommand
  <1>2. Doomed' = Doomed
    BY CommandRows
  <1>3. /\ broker' \in {broker, effect} /\ Allowed(effect, Now(t).name) /\ own \in Answer
        /\ Followed(t, own, after) /\ Fulfils(t, effect, after[own]) /\ Busy(t)
    BY <1>1 DEF Done, Made
  <1>4. ASSUME NEW o \in Threads \ {t} PROVE GivenTo(o)'
    <2>1. task'[o] = IF o \in Rivals(t) THEN Clean(o, FALSE) ELSE task[o]
      BY <1>1 DEF Done
    <2>2. CASE o \in Rivals(t)
      <3>1. task'[o].clean = FALSE
        BY <2>1, <2>2, Unclean DEF Clean, Types, TasksOK
      <3>. QED  BY <3>1 DEF GivenTo
    <2>3. CASE o \notin Rivals(t)
      <3>. SUFFICES ASSUME Busy(o), Now(o).kind = "user", task[o].pc \in {"get", "diff"},
                           task[o].clean
                    PROVE  /\ Now(o).name \in DOMAIN broker'.clients
                           /\ task[o].pc = "diff" =>
                                /\ task[o].remove \cap task[o].want = {}
                                /\ \A r \in task[o].want \ task[o].add :
                                     ScannerOf(r) \cap Doomed = {} =>
                                       r \in broker'.clients[Now(o).name].roles
        BY <1>2, <2>1, <2>3 DEF GivenTo, Busy, Now, RolesOf
      <3>1. Now(o).name # Now(t).name
        BY <2>3 DEF Rivals
      <3>2. Now(o).name \in Users
        BY Moves, About DEF Types, RowsOK
      <3>3. Keeps(broker', Now(o).name)
        <4>1. Keeps(effect, Now(o).name)
          BY <1>3, <3>1, <3>2 DEF Allowed, Spares
        <4>2. Keeps(broker, Now(o).name)
          BY DEF Keeps
        <4>. QED  BY <1>3, <4>1, <4>2
      <3>4. /\ Now(o).name \in DOMAIN broker.clients
            /\ task[o].pc = "diff" =>
                 /\ task[o].remove \cap task[o].want = {}
                 /\ \A r \in task[o].want \ task[o].add :
                      ScannerOf(r) \cap Doomed = {} => r \in broker.clients[Now(o).name].roles
        BY DEF Given, GivenTo, RolesOf
      <3>. QED  BY <3>3, <3>4 DEF Keeps
    <2>. QED  BY <2>2, <2>3
  <1>5. GivenTo(t)'
    <2>1. CASE \E items \in {<<>>, Tail(task[t].items)} : task'[t] = Agenda(items)
      <3>1. task'[t].pc = "start"
        BY <2>1 DEF Agenda
      <3>. QED  BY <3>1 DEF GivenTo
    <2>2. ASSUME NEW a \in Answers(t, own), NEW c \in BOOLEAN,
                 after[a].items = task[t].items,
                 task'[t] = [after[a] EXCEPT !.clean = c],
                 c => a = own /\ after[own].clean /\ Rivals(t) = {} /\ broker' = effect
          PROVE  GivenTo(t)'
      <3>. DEFINE x == after[a]
      <3>1. x \in Agendas /\ x.items = task[t].items
        BY <1>3, <2>2 DEF Followed
      <3>. HIDE DEF x
      <3>2. /\ task'[t].items = task[t].items /\ task'[t].pc = x.pc /\ task'[t].add = x.add
            /\ task'[t].remove = x.remove /\ task'[t].want = x.want /\ task'[t].clean = c
        BY <2>2, <3>1, Unclean DEF x
      <3>. SUFFICES ASSUME Now(t).kind = "user", x.pc \in {"get", "diff"}, c
                    PROVE  /\ Now(t).name \in DOMAIN broker'.clients
                           /\ x.pc = "diff" =>
                                /\ x.remove \cap x.want = {}
                                /\ \A r \in x.want \ x.add :
                                     ScannerOf(r) \cap Doomed = {} =>
                                       r \in broker'.clients[Now(t).name].roles
        BY <1>2, <3>2 DEF GivenTo, Busy, Now, RolesOf
      <3>3. x = after[own] /\ x.clean /\ broker' = effect
        BY <2>2 DEF x
      <3>. QED  BY <1>3, <3>1, <3>3 DEF Fulfils
    <2>. QED  BY <1>1, <2>1, <2>2 DEF Done, Left
  <1>. QED  BY <1>4, <1>5 DEF Given

\* A step without a command may start agendas, and doom more scanners.
LEMMA OtherGiven ==
  ASSUME Given, broker' = broker, Doomed \subseteq Doomed',
         \A t \in Threads : task'[t] = task[t] \/ task'[t].pc = "start"
  PROVE  Given'
  <1>. SUFFICES ASSUME NEW t \in Threads PROVE GivenTo(t)'
    BY DEF Given
  <1>1. CASE task'[t] = task[t]
    <2>1. GivenTo(t)
      BY DEF Given
    <2>. QED  BY <1>1, <2>1 DEF GivenTo, Busy, Now, RolesOf
  <1>2. CASE task'[t].pc = "start"
    BY <1>2 DEF GivenTo
  <1>. QED  BY <1>1, <1>2

LEMMA MoreDoomed ==
  ASSUME NEW D, NEW E, D \subseteq E
  PROVE  /\ \A items : Forgets(items, D) => Forgets(items, E)
         /\ \A jobs : Drops(jobs, D) => Drops(jobs, E)
  BY DEF Forgets, Drops

LEMMA StillWaiting ==
  ASSUME NEW d \in Database, JobsOK
  PROVE  Waiting(d) \subseteq Names
  <1>1. \A of : Queried(db, of) \subseteq db.creds \cup Users /\ Queried(d, of) \subseteq Names
    BY Parts DEF Queried, FolderUsers, Names
  <1>2. \A j \in Job : Announced(d, j) \subseteq Names
    BY Parts DEF Announced, FolderUsers, Names, Job
  <1>3. ByJobs(d, queue) \subseteq Names
    BY <1>2 DEF ByJobs, JobsOK
  <1>. QED  BY <1>1, <1>3 DEF Waiting

LEMMA RowChangeStep ==
  ASSUME IInv, RowChange
  PROVE  IInv'
  <1>1. PICK d, jobs : \E missed \in SUBSET Names :
          Written(d, jobs) /\ (Save(d, jobs, missed) \/ Begin(d, jobs, missed))
    BY DEF RowChange, Names
  <1>2. PICK missed \in SUBSET Names :
          Written(d, jobs) /\ (Save(d, jobs, missed) \/ Begin(d, jobs, missed))
    BY <1>1
  <1>3. /\ txn = None /\ events < MaxEvents /\ events' = events + 1 /\ queue' = queue \o jobs
        /\ calm' = FALSE /\ session' = session /\ broker' = broker /\ late' = late /\ task' = task
    BY <1>2 DEF Save, Begin, Change
  <1>4. /\ d \in Database /\ Sound(d) /\ db.deleted \subseteq d.deleted
        /\ jobs \in Seq(Job) /\ Drops(jobs, d.deleted)
    BY <1>2 DEF Written, Follows
  <1>5. /\ db \in Database /\ Sound(db) /\ session \in Session \cup {None} /\ JobsOK /\ TasksOK
        /\ BrokerOK /\ RestOK /\ Given
    BY DEF IInv, Types, RowsOK
  <1>6. RowsOK' /\ Doomed' = d.deleted
    <2>1. CASE Save(d, jobs, missed)
      BY <1>3, <1>4, <1>5, <2>1 DEF Save, RowsOK, Doomed
    <2>2. CASE Begin(d, jobs, missed)
      <3>. DEFINE x == [rows |-> d, jobs |-> jobs, missed |-> missed]
      <3>1. x \in Transaction /\ x.rows = d
        BY <1>4 DEF Transaction, Names
      <3>. HIDE DEF x
      <3>2. txn' = x /\ db' = db
        BY <2>2 DEF Begin, x
      <3>3. txn' # None
        BY <3>1, <3>2, NoTransaction
      <3>. QED  BY <1>2, <1>3, <1>5, <3>1, <3>2, <3>3 DEF Written, RowsOK, Doomed
    <2>. QED  BY <1>2, <2>1, <2>2
  <1>7. Doomed \subseteq Doomed'
    BY <1>3, <1>4, <1>6 DEF Doomed
  <1>8. JobsOK'
    <2>1. queue \in Seq(Job) /\ Drops(queue, d.deleted)
      BY <1>5, <1>6, <1>7, MoreDoomed DEF JobsOK
    <2>2. queue \o jobs \in Seq(Job) /\ Drops(queue \o jobs, d.deleted)
      BY <1>4, <2>1, Queueing
    <2>. QED  BY <1>3, <1>6, <2>2 DEF JobsOK
  <1>9. TasksOK'
    <2>1. task' \in [Threads -> Agendas]
      BY <1>3, <1>5 DEF TasksOK
    <2>2. \A t \in Threads : Forgets(task'[t].items, Doomed')
      BY <1>3, <1>5, <1>7, MoreDoomed DEF TasksOK
    <2>. QED  BY <2>1, <2>2 DEF TasksOK
  <1>10. BrokerOK'
    BY <1>3, <1>5 DEF BrokerOK
  <1>11. RestOK'
    <2>1. drift' \subseteq Names
      <3>1. Waiting(db) \subseteq Names
        BY <1>5, StillWaiting
      <3>2. drift \subseteq Names
        BY <1>5 DEF RestOK, Names
      <3>. QED  BY <1>2, <3>1, <3>2 DEF Save, Begin
    <2>2. events' \in 0..MaxEvents
      BY <1>3, <1>5 DEF RestOK
    <2>. QED  BY <1>3, <2>1, <2>2 DEF RestOK, Names
  <1>12. Given'
    BY <1>3, <1>5, <1>7, OtherGiven
  <1>. QED  BY <1>6, <1>8, <1>9, <1>10, <1>11, <1>12 DEF IInv, Types

\* A thread takes up a new agenda.
LEMMA TakesUp ==
  ASSUME IInv, NEW t \in Threads, NEW items \in Seq(Item), Forgets(items, Doomed),
         task' = [task EXCEPT ![t] = Agenda(items)], broker' = broker, Doomed' = Doomed
  PROVE  TasksOK' /\ Given'
  <1>1. task \in [Threads -> Agendas] /\ \A o \in Threads : Forgets(task[o].items, Doomed)
    BY DEF IInv, Types, TasksOK
  <1>. DEFINE a == Agenda(items)
  <1>2. a \in Agendas /\ a.items = items /\ a.pc = "start"
    BY EmptyAgenda
  <1>. HIDE DEF a
  <1>3. task' = [task EXCEPT ![t] = a]
    BY DEF a
  <1>4. /\ task' \in [Threads -> Agendas] /\ task'[t] = a
        /\ \A o \in Threads \ {t} : task'[o] = task[o]
    BY <1>1, <1>2, <1>3
  <1>5. \A o \in Threads : Forgets(task'[o].items, Doomed)
    BY <1>1, <1>2, <1>4
  <1>6. TasksOK'
    BY <1>4, <1>5 DEF TasksOK
  <1>7. Given'
    BY <1>2, <1>4, OtherGiven DEF IInv
  <1>. QED  BY <1>6, <1>7

LEMMA ReadUsersStep ==
  ASSUME IInv, NEW t \in Threads, ReadUsers(t)
  PROVE  IInv'
  <1>. DEFINE its == UserItems(db, Queried(db, Now(t).name), Now(t).name # All)
              items == its \o Tail(task[t].items)
  <1>1. /\ Busy(t) /\ task' = [task EXCEPT ![t] = Agenda(items)]
        /\ UNCHANGED <<db, session, broker, late, queue, txn, drift, calm, events>>
    BY DEF ReadUsers, At
  <1>2. /\ db \in Database /\ task[t].items \in Seq(Item) /\ task[t].items # <<>>
        /\ Forgets(task[t].items, Doomed)
    BY <1>1 DEF IInv, Types, RowsOK, TasksOK, Agendas, Busy
  <1>3. its \in Seq(Item) /\ Forgets(its, Doomed)
    <2>1. Queried(db, Now(t).name) \in SUBSET Users
      BY <1>2, Parts DEF Queried, FolderUsers
    <2>2. (Now(t).name # All) \in BOOLEAN
      OBVIOUS
    <2>. DEFINE U == Queried(db, Now(t).name)
                g == Now(t).name # All
    <2>. HIDE DEF U, g
    <2>3. UserItems(db, U, g) \in Seq(Item) /\ Forgets(UserItems(db, U, g), Doomed)
      BY <1>2, <2>1, <2>2, UserListed DEF U, g
    <2>. QED  BY <2>3 DEF U, g
  <1>4. Tail(task[t].items) \in Seq(Item) /\ Forgets(Tail(task[t].items), Doomed)
    BY <1>2, Dropping
  <1>5. items \in Seq(Item) /\ Forgets(items, Doomed)
    <2>. HIDE DEF its
    <2>. QED  BY <1>3, <1>4, Joining
  <1>6. Doomed' = Doomed
    BY <1>1 DEF Doomed
  <1>. HIDE DEF items
  <1>7. TasksOK' /\ Given'
    BY <1>1, <1>5, <1>6, TakesUp
  <1>8. RowsOK' /\ JobsOK' /\ BrokerOK' /\ RestOK'
    <2>1. RowsOK /\ JobsOK /\ BrokerOK /\ RestOK
      BY DEF IInv, Types
    <2>. QED  BY <1>1, <1>6, <2>1 DEF RowsOK, JobsOK, BrokerOK, RestOK, Sound, AllScanners
  <1>. QED  BY <1>7, <1>8 DEF IInv, Types

LEMMA TakeJobStep ==
  ASSUME IInv, TakeJob
  PROVE  IInv'
  <1>. DEFINE j == Head(queue)
  <1>1. /\ queue # <<>> /\ task' = [task EXCEPT !["exec"] = Agenda(JobItems(db, j))]
        /\ queue' = Tail(queue) /\ calm' = FALSE
        /\ UNCHANGED <<db, session, broker, late, txn, drift, events>>
    BY DEF TakeJob
  <1>2. db \in Database /\ queue \in Seq(Job) /\ Drops(queue, Doomed)
    BY DEF IInv, Types, RowsOK, JobsOK
  <1>3. /\ j \in Job /\ j = queue[1] /\ 1 \in DOMAIN queue /\ Tail(queue) \in Seq(Job)
        /\ \A i \in DOMAIN Tail(queue) : Tail(queue)[i] = queue[i + 1] /\ i + 1 \in DOMAIN queue
    BY <1>1, <1>2
  <1>4. (j.job = "forget" => j.of \in Doomed) /\ Drops(Tail(queue), Doomed)
    BY <1>2, <1>3 DEF Drops
  <1>5. JobItems(db, j) \in Seq(Item) /\ Forgets(JobItems(db, j), Doomed)
    BY <1>2, <1>3, <1>4, JobListed
  <1>6. Doomed' = Doomed
    BY <1>1 DEF Doomed
  <1>. HIDE DEF j
  <1>7. TasksOK' /\ Given'
    BY <1>1, <1>5, <1>6, TakesUp DEF Threads
  <1>8. RowsOK' /\ JobsOK' /\ BrokerOK' /\ RestOK'
    <2>1. RowsOK /\ BrokerOK /\ RestOK
      BY DEF IInv, Types
    <2>2. JobsOK'
      BY <1>1, <1>3, <1>4, <1>6 DEF JobsOK
    <2>. QED  BY <1>1, <2>1, <2>2 DEF RowsOK, BrokerOK, RestOK
  <1>. QED  BY <1>7, <1>8 DEF IInv, Types

LEMMA CredentialsStep ==
  ASSUME IInv, Credentials
  PROVE  IInv'
  <1>. DEFINE u    == session.user
              i    == [UserItem(db, u, FALSE) EXCEPT !.grant = session.grant,
                                                     !.global = GlobalRead(session)]
  <1>1. /\ Request /\ db' = [db EXCEPT !.creds = @ \cup {u}] /\ calm' = FALSE
        /\ task' = [task EXCEPT !["web"] = Agenda(<<i>>)]
        /\ UNCHANGED <<session, broker, late, queue, txn, drift, events>>
    BY DEF Credentials
  <1>2. /\ db \in Database /\ Sound(db) /\ session \in Session
        /\ txn \in Transaction \cup {None} /\ (txn # None => Follows(db, txn.rows))
    BY <1>1 DEF IInv, Types, RowsOK, Request
  <1>3. u \in Users /\ session.grant \in Grants \cup {None} /\ GlobalRead(session) \in BOOLEAN
    BY <1>2 DEF Session, GlobalRead
  <1>4. i \in Item /\ i.kind = "user"
    <2>1. ASSUME NEW x \in Item, x.kind = "user", NEW g \in Grants \cup {None}, NEW b \in BOOLEAN
          PROVE  LET y == [x EXCEPT !.grant = g, !.global = b] IN y \in Item /\ y.kind = "user"
      <3>. DEFINE UserType == [kind : {"user"}, name : Users, guarded : BOOLEAN, staff : BOOLEAN,
                               inactive : BOOLEAN, grant : Grants \cup {None}, global : BOOLEAN]
                  y == [x EXCEPT !.grant = g, !.global = b]
      <3>1. x \in UserType
        BY <2>1 DEF Item
      <3>2. y \in UserType /\ y.kind = "user"
        BY <3>1
      <3>3. UserType \subseteq Item
        BY DEF Item
      <3>. QED  BY <3>2, <3>3
    <2>2. UserItem(db, u, FALSE) \in Item /\ UserItem(db, u, FALSE).kind = "user"
      BY <1>2, <1>3, UserListed DEF UserItem
    <2>. QED  BY <1>3, <2>1, <2>2
  <1>. HIDE DEF i
  <1>5. <<i>> \in Seq(Item) /\ Forgets(<<i>>, Doomed)
    BY <1>4 DEF Forgets
  <1>6. Follows(db, db') /\ db'.deleted = db.deleted
    <2>. DEFINE x == db.creds \cup {u}
    <2>1. x \in SUBSET Users /\ db' = [db EXCEPT !.creds = x]
      BY <1>1, <1>2, <1>3, Parts
    <2>. HIDE DEF x
    <2>. QED  BY <1>2, <2>1, RowChanges DEF Database
  <1>7. Doomed' = Doomed
    BY <1>1, <1>6 DEF Doomed
  <1>8. TasksOK' /\ Given'
    BY <1>1, <1>5, <1>7, TakesUp DEF Threads
  <1>9. RowsOK'
    BY <1>1, <1>2, <1>6 DEF RowsOK, Follows
  <1>10. JobsOK' /\ BrokerOK' /\ RestOK'
    <2>1. JobsOK /\ BrokerOK /\ RestOK
      BY DEF IInv, Types
    <2>. QED  BY <1>1, <1>7, <2>1 DEF JobsOK, BrokerOK, RestOK
  <1>. QED  BY <1>8, <1>9, <1>10 DEF IInv, Types

LEMMA SyncStartStep ==
  ASSUME IInv, SyncStart
  PROVE  IInv'
  <1>1. /\ task' = [task EXCEPT !["sched"] = Agenda(SyncItems(db))]
        /\ late' = [late EXCEPT !["sched"] = None] /\ calm' = Idle
        /\ UNCHANGED <<db, session, broker, queue, txn, drift, events>>
    BY DEF SyncStart
  <1>2. SyncItems(db) \in Seq(Item) /\ Forgets(SyncItems(db), Doomed)
    BY SyncListed DEF IInv, Types, RowsOK
  <1>3. Doomed' = Doomed
    BY <1>1 DEF Doomed
  <1>4. TasksOK' /\ Given'
    BY <1>1, <1>2, <1>3, TakesUp DEF Threads
  <1>5. RowsOK' /\ JobsOK'
    <2>1. RowsOK /\ JobsOK
      BY DEF IInv, Types
    <2>. QED  BY <1>1, <1>3, <2>1 DEF RowsOK, JobsOK
  <1>6. BrokerOK'
    BY <1>1 DEF IInv, Types, BrokerOK
  <1>7. RestOK'
    <2>1. Idle \in BOOLEAN
      BY DEF Idle
    <2>. QED  BY <1>1, <2>1 DEF IInv, Types, RestOK
  <1>. QED  BY <1>4, <1>5, <1>6, <1>7 DEF IInv, Types

LEMMA CommitStep ==
  ASSUME IInv, Commit
  PROVE  IInv'
  <1>. DEFINE behind == IF IsSuffix(txn.jobs, queue) THEN {} ELSE Affected(db, txn.rows)
  <1>1. /\ txn # None /\ db' = txn.rows /\ txn' = None
        /\ drift' = drift \cup txn.missed \cup (Waiting(db) \ Waiting(txn.rows)) \cup behind
        /\ UNCHANGED <<session, broker, late, queue, task, calm, events>>
    BY DEF Commit
  <1>2. /\ db \in Database /\ JobsOK /\ session \in Session \cup {None}
        /\ txn \in Transaction /\ Follows(db, txn.rows)
    BY <1>1 DEF IInv, Types, RowsOK
  <1>3. Doomed' = Doomed
    BY <1>1 DEF Doomed
  <1>4. RowsOK'
    BY <1>1, <1>2 DEF RowsOK, Follows
  <1>5. drift' \subseteq Names
    <2>1. txn.missed \subseteq Names
      BY <1>2 DEF Transaction, Names
    <2>2. behind \subseteq Names
      BY Concerned DEF Names
    <2>3. Waiting(db) \subseteq Names
      BY <1>2, StillWaiting
    <2>4. drift \subseteq Names
      BY DEF IInv, Types, RestOK, Names
    <2>. HIDE DEF behind
    <2>. QED  BY <1>1, <2>1, <2>2, <2>3, <2>4
  <1>6. JobsOK' /\ TasksOK' /\ BrokerOK'
    <2>1. JobsOK /\ TasksOK /\ BrokerOK
      BY DEF IInv, Types
    <2>. QED  BY <1>1, <1>3, <2>1 DEF JobsOK, TasksOK, BrokerOK
  <1>7. RestOK'
    BY <1>1, <1>5 DEF IInv, Types, RestOK, Names
  <1>8. Given'
    BY <1>1, <1>3, OtherGiven DEF IInv
  <1>. QED  BY <1>4, <1>6, <1>7, <1>8 DEF IInv, Types

\* Whose session a sign-in leaves the browser with
LEMMA SignedIn ==
  ASSUME session \in Session \cup {None},
         \/ \E u \in Users : Login(u)
         \/ \E g \in Grants : OpenGrant(g)
         \/ \E l \in Links : OpenLink(l)
  PROVE  session' \in Session
  <1>. DEFINE Sessions == [user : Users, grant : Grants \cup {None}, readonly : BOOLEAN]
  <1>1. ASSUME NEW u \in Users PROVE Flags(u) \in Sessions /\ Flags(u).user = u
    BY DEF Flags, Session
  <1>2. ASSUME NEW u \in Users, Login(u) PROVE session' \in Session
    BY <1>2 DEF Login, Flags, Session
  <1>3. ASSUME NEW g \in Grants, OpenGrant(g) PROVE session' \in Session
    <2>. DEFINE b == GrantOf[g].permission = "r"
                x == Flags(Demo)
    <2>1. session' = [x EXCEPT !.grant = g, !.readonly = b]
      BY <1>3 DEF OpenGrant
    <2>2. b \in BOOLEAN /\ g # None /\ x \in Sessions /\ x.user = Demo
      BY <1>1
    <2>. HIDE DEF b, x
    <2>3. session' \in Sessions /\ session'.user = Demo /\ session'.grant = g
      BY <2>1, <2>2
    <2>. QED  BY <2>2, <2>3 DEF Session
  <1>4. ASSUME NEW l \in Links, OpenLink(l) PROVE session' \in Session
    <2>. DEFINE x == Flags(Demo)
    <2>1. session' = [x EXCEPT !.readonly = TRUE]
      BY <1>4 DEF OpenLink
    <2>2. x \in Sessions /\ x.user = Demo
      BY <1>1
    <2>. HIDE DEF x
    <2>3. session' \in Sessions /\ session'.user = Demo /\ session'.readonly
      BY <2>1, <2>2
    <2>. QED  BY <2>3 DEF Session
  <1>. QED  BY <1>2, <1>3, <1>4

LEMMA SignInStep ==
  ASSUME IInv, SignIn
  PROVE  IInv'
  <1>1. /\ events < MaxEvents /\ events' = events + 1
        /\ queue' = queue \o UserSaved(db, session'.user) /\ calm' = FALSE
        /\ UNCHANGED <<db, broker, late, task, txn, drift>>
    BY DEF SignIn
  <1>2. session' \in Session
    BY SignedIn DEF IInv, Types, RowsOK, SignIn
  <1>3. Doomed' = Doomed
    BY <1>1 DEF Doomed
  <1>4. RowsOK'
    BY <1>1, <1>2 DEF IInv, Types, RowsOK
  <1>5. JobsOK'
    <2>. DEFINE jobs == UserSaved(db, session'.user)
    <2>1. session'.user \in Users
      BY <1>2 DEF Session
    <2>2. Plain(jobs)
      BY <2>1, PlainJobs
    <2>. HIDE DEF jobs
    <2>3. jobs \in Seq(Job) /\ Drops(jobs, Doomed)
      BY <2>2, PlainDrops
    <2>4. queue \in Seq(Job) /\ Drops(queue, Doomed)
      BY DEF IInv, Types, JobsOK
    <2>5. queue \o jobs \in Seq(Job) /\ Drops(queue \o jobs, Doomed)
      BY <2>3, <2>4, Queueing
    <2>. QED  BY <1>1, <1>3, <2>5 DEF JobsOK, jobs
  <1>6. TasksOK' /\ BrokerOK'
    <2>1. TasksOK /\ BrokerOK
      BY DEF IInv, Types
    <2>. QED  BY <1>1, <1>3, <2>1 DEF TasksOK, BrokerOK
  <1>7. RestOK'
    <2>1. events \in 0..MaxEvents /\ drift \subseteq Names
      BY DEF IInv, Types, RestOK, Names
    <2>2. events' \in 0..MaxEvents
      BY <1>1, <2>1
    <2>. QED  BY <1>1, <2>1, <2>2 DEF RestOK, Names
  <1>8. Given'
    BY <1>1, <1>3, OtherGiven DEF IInv
  <1>. QED  BY <1>4, <1>5, <1>6, <1>7, <1>8 DEF IInv, Types

\* The rows, the broker and the threads' agendas are as they were.
LEMMA QuietStep ==
  ASSUME IInv, session' \in Session \cup {None}, UNCHANGED <<db, broker, plumbing>>
  PROVE  IInv'
  <1>1. /\ db' = db /\ broker' = broker /\ late' = late /\ queue' = queue /\ task' = task
        /\ txn' = txn /\ drift' = drift /\ calm' = calm /\ events' = events
    BY DEF plumbing
  <1>2. Doomed' = Doomed
    BY <1>1 DEF Doomed
  <1>3. RowsOK /\ JobsOK /\ TasksOK /\ BrokerOK /\ RestOK
    BY DEF IInv, Types
  <1>4. RowsOK' /\ JobsOK' /\ TasksOK' /\ BrokerOK' /\ RestOK'
    BY <1>1, <1>2, <1>3 DEF RowsOK, JobsOK, TasksOK, BrokerOK, RestOK
  <1>5. Given'
    BY <1>1, <1>2, OtherGiven DEF IInv
  <1>. QED  BY <1>4, <1>5 DEF IInv, Types

LEMMA InitInv ==
  ASSUME Init
  PROVE  IInv
  <1>1. PICK active \in {{}, FirstGrants}, S \in {{}, Scanners} :
       db = [deleted |-> {}, staff |-> {}, inactive |-> {}, creds |-> Users \ {Demo},
             members |-> [G \in Groups |-> IF G = Viewers THEN Users ELSE {}],
             baseline |-> FirstBaseline, folder |-> [k \in Folders |-> S],
             scanners |-> [s \in S |-> [enabled |-> TRUE, token |-> 0]],
             status |-> [r \in Rows |-> IF r \in active /\ Scoped(S, r) THEN "active" ELSE "none"],
             lapsed |-> {}]
    BY DEF Init
  <1>. DEFINE members  == [G \in Groups |-> IF G = Viewers THEN Users ELSE {}]
              folder   == [k \in Folders |-> S]
              scanners == [s \in S |-> [enabled |-> TRUE, token |-> 0]]
              status   == [r \in Rows |-> IF r \in active /\ Scoped(S, r) THEN "active" ELSE "none"]
  <1>2. /\ members \in [Groups -> SUBSET Users] /\ folder \in [Folders -> SUBSET Scanners]
        /\ scanners \in ScannerRows /\ DOMAIN scanners = S /\ status \in Statuses
        /\ \A k \in Folders : folder[k] = S
    <2>1. members \in [Groups -> SUBSET Users] /\ folder \in [Folders -> SUBSET Scanners]
      OBVIOUS
    <2>2. scanners \in [S -> Row] /\ S \subseteq Scanners
      BY DEF Row
    <2>3. scanners \in ScannerRows
      BY <2>2 DEF ScannerRows
    <2>4. status \in Statuses
      BY DEF Statuses
    <2>. QED  BY <2>1, <2>3, <2>4
  <1>3. db = [deleted |-> {}, staff |-> {}, inactive |-> {}, creds |-> Users \ {Demo},
              members |-> members, baseline |-> FirstBaseline, folder |-> folder,
              scanners |-> scanners, status |-> status, lapsed |-> {}]
    BY <1>1
  <1>. HIDE DEF members, folder, scanners, status
  <1>4. /\ db \in Database /\ db.folder = folder /\ db.scanners = scanners /\ db.deleted = {}
        /\ db.creds \subseteq Users
    BY <1>2, <1>3 DEF Database, ScannerRows, Statuses
  <1>5. Sound(db)
    BY <1>2, <1>4 DEF Sound, AllScanners
  <1>6. /\ session = None /\ late = [l \in {"server", "sched"} |-> None] /\ queue = <<>>
        /\ task = [t \in Threads |-> Agenda(<<>>)] /\ txn = None /\ drift = {} /\ calm = FALSE
        /\ events = 0
        /\ broker = [roles |-> AllScanners(db), clients |-> [n \in db.creds \cup AllScanners(db) |->
             [token |-> 0, roles |-> IF n \in Users THEN DesiredNow(db, n) ELSE {Device(n)}]]]
    BY DEF Init
  <1>7. RowsOK
    BY <1>4, <1>5, <1>6 DEF RowsOK
  <1>8. JobsOK
    BY <1>6 DEF JobsOK, Drops
  <1>9. TasksOK /\ \A t \in Threads : task[t].pc = "start"
    <2>1. <<>> \in Seq(Item) /\ Forgets(<<>>, Doomed)
      BY DEF Forgets
    <2>2. Agenda(<<>>) \in Agendas /\ Agenda(<<>>).items = <<>> /\ Agenda(<<>>).pc = "start"
      BY <2>1, EmptyAgenda
    <2>. QED  BY <1>6, <2>1, <2>2 DEF TasksOK
  <1>10. BrokerOK
    <2>. DEFINE N    == db.creds \cup AllScanners(db)
                R(n) == IF n \in Users THEN DesiredNow(db, n) ELSE {Device(n)}
                f    == [n \in N |-> [token |-> 0, roles |-> R(n)]]
    <2>1. AllScanners(db) \subseteq Scanners /\ N \subseteq Names
      BY <1>4, Parts DEF Names
    <2>2. ASSUME NEW n \in N PROVE R(n) \in SUBSET Role
      <3>1. CASE n \in Users
        <4>. DEFINE i == UserItem(db, n, FALSE)
        <4>1. i.grant = None
          BY DEF UserItem
        <4>2. Plan(db, i) \subseteq Role
          BY <1>4, <4>1, DesiredRoles DEF Plan
        <4>. QED  BY <3>1, <4>2 DEF DesiredNow
      <3>2. CASE n \notin Users
        <4>1. n \in Scanners
          BY <2>1, <3>2 DEF Names
        <4>. QED  BY <3>2, <4>1 DEF Device, Role
      <3>. QED  BY <3>1, <3>2
    <2>. HIDE DEF R
    <2>3. f \in [N -> Client]
      BY <2>2 DEF Client
    <2>4. f \in Partial(Names, Client)
      BY <2>1, <2>3 DEF Partial
    <2>5. broker = [roles |-> AllScanners(db), clients |-> f]
      BY <1>6 DEF R
    <2>. HIDE DEF f
    <2>6. broker \in BrokerType
      BY <2>1, <2>4, <2>5 DEF BrokerType, Names
    <2>. QED  BY <1>6, <2>6 DEF BrokerOK
  <1>11. RestOK
    <2>1. 0 \in 0..MaxEvents
      OBVIOUS
    <2>. QED  BY <1>6, <2>1 DEF RestOK
  <1>12. Given
    BY <1>9 DEF Given, GivenTo
  <1>. QED  BY <1>7, <1>8, <1>9, <1>10, <1>11, <1>12 DEF IInv, Types

LEMMA NextInv ==
  ASSUME IInv, [Next]_vars
  PROVE  IInv'
  <1>1. ASSUME NEW t \in Threads, Commanded(t) PROVE IInv'
    <2>1. PICK effect, own, after : Made(t, effect, own, after)
      BY <1>1, CommandSteps DEF IInv
    <2>. QED  BY <2>1, CommandTypes, CommandGiven DEF IInv
  <1>2. ASSUME NEW t \in Threads, Step(t) PROVE IInv'
    BY <1>1, <1>2, ReadUsersStep DEF Step, Commanded
  <1>3. ASSUME \/ \E g \in Grants : ApiGrant(g) \/ AdminGrant(g)
               \/ \E s \in Scanners : Regenerate(s) \/ AdminScanner(s) \/ NewScanner(s) \/ DeleteScanner(s)
               \/ \E k \in Folders, s \in Scanners : Assign(k, s)
               \/ \E u \in Users : AdminUser(u) \/ \E G \in Groups : Membership(u, G)
               \/ \E l \in Links : NewLink(l)
               \/ Silent
        PROVE  IInv'
    BY <1>3, RowSteps, RowChangeStep DEF IInv, Types, RowsOK
  <1>4. CASE SignOut
    BY <1>4, QuietStep DEF SignOut, Logout
  <1>5. CASE UNCHANGED vars
    BY <1>5, QuietStep DEF vars, IInv, Types, RowsOK
  <1>. QED  BY <1>2, <1>3, <1>4, <1>5, TakeJobStep, CredentialsStep, SyncStartStep, CommitStep,
               SignInStep DEF Next

\* The rows, the queue, the agendas and the broker keep their types and fit
\* each other, whatever threads, requests and failures interleave.
THEOREM Invariance == Spec => []IInv
  <1>1. Init => IInv
    BY InitInv
  <1>2. IInv /\ [Next]_vars => IInv'
    BY NextInv
  <1>. QED  BY <1>1, <1>2, PTL DEF Spec

\* Every variable keeps its type: in particular a job always names a subject
\* that exists or existed, and an agenda roles the plugin knows.
THEOREM TypesHold == Spec => []TypeOK
  <1>1. ASSUME IInv PROVE TypeOK
    <2>1. AccessTypeOK /\ txn \in Transaction \cup {None} /\ queue \in Seq(Job)
      BY <1>1 DEF IInv, Types, RowsOK, JobsOK, AccessTypeOK
    <2>2. /\ broker.roles \subseteq Scanners /\ DOMAIN broker.clients \subseteq Users \cup Scanners
          /\ \A n \in DOMAIN broker.clients :
               broker.clients[n] \in [roles : SUBSET Role, token : 0..MaxToken]
      BY <1>1, Clients DEF IInv, Types, BrokerOK, Names, Client
    <2>3. \A l \in DOMAIN late : late[l] \in Answer \cup {None}
      BY <1>1 DEF IInv, Types, BrokerOK
    <2>4. \A t \in Threads : /\ task[t].items \in Seq(Item)
                              /\ task[t].add \cup task[t].remove \cup task[t].want \subseteq Role
      BY <1>1 DEF IInv, Types, TasksOK, Agendas
    <2>. QED  BY <1>1, <2>1, <2>2, <2>3, <2>4 DEF TypeOK, IInv, Types, RestOK
  <1>. QED  BY <1>1, Invariance, PTL

\* The querysets, the permission classes and the serializer of the API agree
\* in every state: what a request may write it may also read.
THEOREM WritersDoRead == Spec => []WritersMayRead
  <1>1. ASSUME IInv PROVE WritersMayRead
    BY <1>1, ReadersWrite DEF IInv, Types, RowsOK
  <1>. QED  BY <1>1, Invariance, PTL

\* The roles dynsec.py computes for a session mirror the scope of its
\* requests, for any rows that the program can reach.
THEOREM ScopesMirror == Spec => []ScopeMirrored
  <1>1. ASSUME IInv PROVE ScopeMirrored
    BY <1>1, ScopesAgree DEF IInv, Types, RowsOK
  <1>. QED  BY <1>1, Invariance, PTL

-----------------------------------------------------------------------------
(* A sync never cuts off a reader on the way                               *)

\* A client that keeps the roles of R, those of deleted scanners aside, may
\* read what R reads of the scanners that stay.
LEMMA StillReads ==
  ASSUME IInv, NEW R, NEW Q, \A r \in R : ScannerOf(r) \cap Doomed = {} => r \in Q
  PROVE  Reads(R, db) \cap AllScanners(IF txn = None THEN db ELSE txn.rows) \subseteq Reads(Q, db)
  <1>. SUFFICES ASSUME NEW s \in Reads(R, db), s \in AllScanners(IF txn = None THEN db ELSE txn.rows)
                PROVE  s \in Reads(Q, db)
    OBVIOUS
  <1>1. s \notin Doomed
    BY DEF IInv, Types, RowsOK, Follows, Sound, Doomed
  <1>2. s \in AllScanners(db)
    BY DEF Reads
  <1>3. CASE R \cap {<<"read-all">>, <<"staff-all">>} # {}
    <2>1. ScannerOf(<<"read-all">>) = {} /\ ScannerOf(<<"staff-all">>) = {}
      BY DEF ScannerOf
    <2>2. Q \cap {<<"read-all">>, <<"staff-all">>} # {}
      BY <1>3, <2>1
    <2>. QED  BY <1>2, <2>2 DEF Reads
  <1>4. CASE R \cap {<<"read-all">>, <<"staff-all">>} = {}
    <2>1. R \cap {<<"read", s>>, <<"rw", s>>} # {}
      BY <1>4 DEF Reads
    <2>2. ScannerOf(<<"read", s>>) = {s} /\ ScannerOf(<<"rw", s>>) = {s}
      BY DEF ScannerOf
    <2>3. Q \cap {<<"read", s>>, <<"rw", s>>} # {}
      BY <1>1, <2>1, <2>2
    <2>. QED  BY <1>2, <2>3 DEF Reads
  <1>. QED  BY <1>3, <1>4

LEMMA Effect ==
  ASSUME NEW t, NEW effect, NEW own, NEW after, NEW renews,
         Command(t, effect, own, after, renews)
  PROVE  broker' \in {broker, effect}
  BY DEF Command, Exchange, Fails

\* A client loses no role but those of deleted scanners.
Retains(u) == \A r \in RolesOf(u) : ScannerOf(r) \cap Doomed = {} => r \in RolesOf(u)'

LEMMA KeptRoles ==
  ASSUME NEW u, NEW effect, Keeps(effect, u), broker' \in {broker, effect}
  PROVE  Retains(u)
  BY DEF Keeps, Retains, RolesOf

LEMMA KeptByCommand ==
  ASSUME IInv, NEW o \in Threads, Commanded(o), NEW t \in Threads, NEW u \in Users,
         At(t, "user", "diff"), Now(t).name = u, task[t].clean, Rivals(t) = {}
  PROVE  \/ Retains(u)
         \/ \A r \in task[t].want : ScannerOf(r) \cap Doomed = {} => r \in RolesOf(u)'
  <1>1. broker \in BrokerType
    BY DEF IInv, Types, BrokerOK
  <1>2. PICK effect, own, after : Made(o, effect, own, after)
    BY CommandSteps DEF IInv
  <1>3. /\ Busy(o) /\ Now(o).kind # "query" /\ Allowed(effect, Now(o).name)
        /\ broker' \in {broker, effect}
    BY <1>2, Effect DEF Made
  <1>4. CASE Now(o).name # u
    <2>1. Keeps(effect, u)
      BY <1>3, <1>4 DEF Allowed, Spares
    <2>. QED  BY <1>3, <2>1, KeptRoles
  <1>5. CASE Now(o).name = u /\ o # t
    <2>1. task[o].pc = "start"
      BY <1>3, <1>5 DEF Rivals
    <2>2. Now(o).kind = "user"
      <3>1. Now(o) \in Item
        BY <1>3, Moves DEF IInv
      <3>2. Now(o).kind \in {"user", "scanner", "forget", "query"}
        BY <3>1 DEF Item
      <3>. QED  BY <1>3, <1>5, <3>1, <3>2, About DEF IInv, Types, RowsOK
    <2>3. UserClient(o)
      BY <2>1, <2>2 DEF Commanded, UserRoles, UserDiff, ScannerRoles, ScannerClient,
                        ScannerPassword, ScannerDevice, ScannerDisabled, ForgetClient,
                        ForgetRoles, At
    <2>4. broker' \in {broker, WithClient(u, 0, {})}
      BY <1>5, <2>3, Effect DEF UserClient
    <2>5. Keeps(WithClient(u, 0, {}), u)
      BY <1>1, ClientMade DEF Names
    <2>. QED  BY <2>4, <2>5, KeptRoles
  <1>6. CASE o = t
    <2>1. Busy(t) /\ Now(t).kind = "user" /\ task[t].pc = "diff" /\ task[t] \in Agendas
      BY DEF At, IInv, Types, TasksOK
    <2>2. UserDiff(t)
      BY <1>6, <2>1 DEF Commanded, UserClient, UserRoles, ScannerRoles, ScannerClient,
                        ScannerPassword, ScannerDevice, ScannerDisabled, ForgetClient,
                        ForgetRoles, At
    <2>3. PICK r \in Pending(t) :
            broker' \in {broker, IF r \in task[t].add THEN WithRole(u, r) ELSE WithoutRole(u, r)}
      BY <2>2, Effect DEF UserDiff
    <2>4. CASE r \in task[t].add
      <3>1. r \in Role
        BY <2>1, <2>4 DEF Agendas
      <3>2. Keeps(WithRole(u, r), u)
        BY <1>1, <3>1, RoleGiven
      <3>. QED  BY <2>3, <2>4, <3>2, KeptRoles
    <2>5. CASE r \notin task[t].add
      <3>1. task[t].add = {} /\ r \in task[t].remove
        BY <2>3, <2>5 DEF Pending
      <3>2. /\ u \in DOMAIN broker.clients /\ task[t].remove \cap task[t].want = {}
            /\ \A x \in task[t].want : ScannerOf(x) \cap Doomed = {} => x \in broker.clients[u].roles
        BY <2>1, <3>1 DEF IInv, Given, GivenTo, RolesOf
      <3>3. LET e == WithoutRole(u, r)
            IN  u \in DOMAIN e.clients /\ broker.clients[u].roles \ {r} \subseteq e.clients[u].roles
        BY <1>1, <3>2, RoleTaken
      <3>4. CASE broker' = broker
        BY <3>2, <3>4 DEF RolesOf
      <3>5. CASE broker' = WithoutRole(u, r)
        <4>1. u \in DOMAIN broker'.clients /\ broker.clients[u].roles \ {r} \subseteq broker'.clients[u].roles
          BY <3>3, <3>5
        <4>. QED  BY <3>1, <3>2, <4>1 DEF RolesOf
      <3>. QED  BY <2>3, <2>5, <3>4, <3>5
    <2>. QED  BY <2>4, <2>5
  <1>. QED  BY <1>4, <1>5, <1>6

LEMMA OnlyCommands ==
  ASSUME Next, \A t \in Threads : ~Commanded(t)
  PROVE  broker' = broker
  <1>1. ASSUME NEW d, NEW jobs, NEW missed, Save(d, jobs, missed) \/ Begin(d, jobs, missed)
        PROVE  broker' = broker
    BY <1>1 DEF Save, Begin, Change
  <1>2. ASSUME NEW t \in Threads, Step(t) PROVE broker' = broker
    <2>1. ReadUsers(t)
      BY <1>2 DEF Step, Commanded
    <2>. QED  BY <2>1 DEF ReadUsers
  <1>3. ASSUME \/ \E g \in Grants : ApiGrant(g) \/ AdminGrant(g)
               \/ \E s \in Scanners : Regenerate(s) \/ AdminScanner(s) \/ NewScanner(s) \/ DeleteScanner(s)
               \/ \E k \in Folders, s \in Scanners : Assign(k, s)
               \/ \E u \in Users : AdminUser(u) \/ \E G \in Groups : Membership(u, G)
               \/ \E l \in Links : NewLink(l)
               \/ Silent
        PROVE  broker' = broker
    BY <1>1, <1>3 DEF ApiGrant, AdminGrant, Regenerate, AdminScanner, NewScanner, DeleteScanner,
                      Assign, AdminUser, Membership, NewLink, Silent, Unsignalled
  <1>4. ASSUME TakeJob \/ Credentials \/ SyncStart \/ Commit \/ SignIn \/ SignOut
        PROVE  broker' = broker
    BY <1>4 DEF TakeJob, Credentials, SyncStart, Commit, SignIn, SignOut
  <1>. QED  BY <1>2, <1>3, <1>4 DEF Next

\* What a sync adds it adds before it takes away what is too much, so that a
\* user's client may read throughout what it may read before and after.
THEOREM NeverCutOff == Spec => ReadKept
  <1>1. ASSUME IInv, Next, NEW t \in Threads, NEW u \in Users,
               At(t, "user", "diff"), Now(t).name = u, task[t].clean, Rivals(t) = {}
        PROVE  Reads(RolesOf(u), db) \cap Reads(task[t].want, db)
                 \cap AllScanners(IF txn = None THEN db ELSE txn.rows)
                   \subseteq Reads(RolesOf(u)', db)
    <2>1. \/ Retains(u)
          \/ \A r \in task[t].want : ScannerOf(r) \cap Doomed = {} => r \in RolesOf(u)'
      <3>1. CASE \E o \in Threads : Commanded(o)
        BY <1>1, <3>1, KeptByCommand
      <3>2. CASE \A o \in Threads : ~Commanded(o)
        <4>1. broker' = broker
          BY <1>1, <3>2, OnlyCommands
        <4>. QED  BY <4>1 DEF Retains, RolesOf
      <3>. QED  BY <3>1, <3>2
    <2>2. CASE Retains(u)
      BY <1>1, <2>2, StillReads DEF Retains
    <2>3. CASE \A r \in task[t].want : ScannerOf(r) \cap Doomed = {} => r \in RolesOf(u)'
      BY <1>1, <2>3, StillReads
    <2>. QED  BY <2>1, <2>2, <2>3
  <1>2. IInv /\ [Next]_vars =>
          [\A t \in Threads, u \in Users :
             At(t, "user", "diff") /\ Now(t).name = u /\ task[t].clean /\ Rivals(t) = {} =>
               Reads(RolesOf(u), db) \cap Reads(task[t].want, db)
                   \cap AllScanners(IF txn = None THEN db ELSE txn.rows)
                 \subseteq Reads(RolesOf(u)', db)]_vars
    BY <1>1
  <1>. QED  BY <1>2, Invariance, PTL DEF Spec, ReadKept

-----------------------------------------------------------------------------
(* What the broker holds, and what is still to come                        *)

RolesIn(b, n) == IF n \in DOMAIN b.clients THEN b.clients[n].roles ELSE {}

\* A client fits the rows, roles on deleted scanners aside.
UserFits(b, d, u) ==
  /\ DesiredNow(d, u) \subseteq RolesIn(b, u)
  /\ \A r \in RolesIn(b, u) \ DesiredNow(d, u) : ScannerOf(r) \cap d.deleted # {}
DeviceFits(b, d, s) ==
  /\ s \in b.roles
  /\ IF d.scanners[s].enabled THEN RolesIn(b, s) = {Device(s)} ELSE s \notin DOMAIN b.clients
TokenFits(b, d, s) == s \in DOMAIN b.clients => b.clients[s].token = d.scanners[s].token
Forgotten(b, s)    == s \notin b.roles \cup DOMAIN b.clients

\* Items on some thread's agenda, and the subjects they come to
Work     == UNION {Range(task[t].items) : t \in Threads}
Faced(n) == \E i \in Work : i.kind # "query" /\ i.name = n

\* A thread that was not alone at a scanner may have set an old token.
Soiled(t, s) == /\ Busy(t) /\ Now(t).kind = "scanner" /\ Now(t).name = s
                /\ task[t].pc # "start" /\ ~task[t].clean

UserOwed(u)   == u \in Waiting(db) \/ Faced(u)
DeviceOwed(s) == Faced(s) \/ \E j \in Range(queue) : j.job = "scanner" /\ j.of = s
ForgetOwed(s) == Faced(s) \/ ForgetJob(s) \in Range(queue)
TokenOwed(s)  == \/ ScannerJob(s, TRUE) \in Range(queue)
                 \/ \E i \in Work : i.kind = "scanner" /\ i.name = s /\ i.password
                 \/ \E t \in Threads : Soiled(t, s)

\* A job of the open transaction was taken before it committed: whom it
\* concerns will be left behind.
Early == txn # None /\ ~IsSuffix(txn.jobs, queue)
Hit   == IF Early THEN Affected(db, txn.rows) ELSE {}
Gone  == db.deleted \cup (IF Early THEN txn.rows.deleted ELSE {})

UsersFit   == \A u \in db.creds : u \in drift \cup Hit \/ UserOwed(u) \/ UserFits(broker, db, u)
DevicesFit == \A s \in AllScanners(db) :
                s \in drift \cup Hit \/ DeviceOwed(s) \/ DeviceFits(broker, db, s)
TokensFit  == \A s \in AllScanners(db) :
                s \in drift \cup Hit \/ TokenOwed(s) \/ TokenFits(broker, db, s)
AllGone    == \A s \in db.deleted : s \in drift \/ ForgetOwed(s) \/ Forgotten(broker, s)

\* A client has roles that are there, a scanner's only its own.
Backed(b) == \A n \in DOMAIN b.clients : \A r \in b.clients[n].roles : ScannerOf(r) \subseteq b.roles
DeviceOnly(b) == \A s \in Scanners \cap DOMAIN b.clients : b.clients[s].roles \subseteq {Device(s)}

\* Where a thread that is still clean has got its subject
PoisedUser(x, b, n, D) ==
  /\ n \in DOMAIN b.clients
  /\ x.pc = "diff" =>
       /\ x.add \subseteq x.want /\ x.remove \cap x.want = {}
       /\ b.clients[n].roles \ x.remove \subseteq x.want
       /\ \A r \in x.want \ x.add : ScannerOf(r) \cap D = {} => r \in b.clients[n].roles
PoisedScanner(x, b, n, i) ==
  /\ n \in b.roles
  /\ x.pc \in {"password", "role"} => n \in DOMAIN b.clients /\ i.row.enabled
  /\ x.pc = "password" => i.password
  /\ x.pc = "role" /\ i.password => b.clients[n].token = i.row.token
Poised(x, i, b, D) ==
  /\ i.kind = "user" /\ x.pc \in {"get", "diff"} => PoisedUser(x, b, i.name, D)
  /\ i.kind = "scanner" /\ x.pc # "start" => PoisedScanner(x, b, i.name, i)
  /\ i.kind = "forget" /\ x.pc # "start" => i.name \notin DOMAIN b.clients

AllPoised == \A t \in Threads : Busy(t) /\ task[t].clean => Poised(task[t], Now(t), broker, Gone)

TxnTold == txn # None => Told(db, txn.rows, txn.jobs, txn.missed)

\* A scanner is forgotten when it is gone, or as the last that the open
\* transaction dispatched.
ForgetLate == \A i \in DOMAIN queue : queue[i].job = "forget" =>
  \/ queue[i].of \in db.deleted
  \/ /\ txn # None /\ queue[i].of \in txn.rows.deleted
     /\ i = Len(queue) /\ txn.jobs # <<>>
ForgetGone == \A i \in Work : i.kind = "forget" => i.name \in Gone

Fits == UsersFit /\ DevicesFit /\ TokensFit /\ AllGone
Fit  == /\ Fits /\ Backed(broker) /\ DeviceOnly(broker) /\ AllPoised
        /\ GrantsHere(db) /\ TxnTold /\ ForgetLate /\ ForgetGone

-----------------------------------------------------------------------------
LEMMA Awaits ==
  /\ \A d, u : u \in Waiting(d) <=>
       \/ \E j \in Range(queue) : u \in Announced(d, j)
       \/ \E i \in Work : i.kind = "query" /\ u \in Queried(d, i.name)
  /\ \A u : u \in Waiting(db)' <=>
       \/ \E j \in Range(queue') : u \in Announced(db', j)
       \/ \E i \in Work' : i.kind = "query" /\ u \in Queried(db', i.name)
  <1>1. \A d, u : u \in Waiting(d) <=>
       \/ \E j \in Range(queue) : u \in Announced(d, j)
       \/ \E i \in Work : i.kind = "query" /\ u \in Queried(d, i.name)
    BY DEF Waiting, ByJobs, Range, Work
  <1>2. \A u : u \in Waiting(db)' <=>
       \/ \E j \in Range(queue') : u \in Announced(db', j)
       \/ \E i \in Work' : i.kind = "query" /\ u \in Queried(db', i.name)
    BY DEF Waiting, ByJobs, Range, Work
  <1>. QED  BY <1>1, <1>2

LEMMA Works ==
  /\ \A i : i \in Work <=> \E t \in Threads : i \in Range(task[t].items)
  /\ \A i : i \in Work' <=> \E t \in Threads : i \in Range(task'[t].items)
  BY DEF Work

\* A change that leaves the broker and the rows alone, and drops nothing
LEMMA NothingDropped ==
  ASSUME Fits, broker' = broker, db' = db,
         drift \cup Hit \subseteq drift' \cup Hit', drift \subseteq drift',
         \A u \in db.creds : UserOwed(u) => UserOwed(u)',
         \A s \in AllScanners(db) : DeviceOwed(s) => DeviceOwed(s)',
         \A s \in AllScanners(db) : TokenOwed(s) => TokenOwed(s)',
         \A s \in db.deleted : ForgetOwed(s) => ForgetOwed(s)'
  PROVE  Fits'
  <1>1. UsersFit'
    BY DEF Fits, UsersFit
  <1>2. DevicesFit'
    BY DEF Fits, DevicesFit
  <1>3. TokensFit'
    BY DEF Fits, TokensFit
  <1>4. AllGone'
    BY DEF Fits, AllGone
  <1>. QED  BY <1>1, <1>2, <1>3, <1>4 DEF Fits

LEMMA StillFits ==
  ASSUME NEW b, NEW d, NEW e, NEW u, UserFits(b, d, u), NoMore(d, e, u), d.deleted \subseteq e.deleted
  PROVE  UserFits(b, e, u)
  BY DEF UserFits, NoMore

\* The rows change, and every subject the change concerns is told of, or
\* known to be left behind.
LEMMA RowsMove ==
  ASSUME Fits, Follows(db, db'), NEW jobs, NEW missed, Told(db, db', jobs, missed),
         broker' = broker, task' = task, txn' = None,
         Range(jobs) \subseteq Range(queue'), Range(queue) \subseteq Range(queue'),
         drift \cup Hit \cup missed \subseteq drift',
         \A u \in Waiting(db) : u \in drift' \/ u \in Waiting(db)'
  PROVE  Fits'
  <1>1. Work' = Work /\ \A t, s : Soiled(t, s)' <=> Soiled(t, s)
    BY DEF Work, Soiled, Busy, Now
  <1>2. Hit' = {}
    BY DEF Hit, Early
  <1>3. db.deleted \subseteq db'.deleted /\ db'.creds = db.creds
    BY DEF Follows, Told
  <1>4. UsersFit'
    <2>. SUFFICES ASSUME NEW u \in db'.creds, u \notin drift', ~UserOwed(u)'
                  PROVE  UserFits(broker, db', u)
      BY DEF UsersFit
    <2>1. u \in db.creds /\ u \notin drift \cup Hit \cup missed /\ ~UserOwed(u)
      BY <1>1, <1>3 DEF UserOwed, Faced
    <2>2. u \notin ByJobs(db', jobs)
      <3>1. \A j \in Range(queue') : u \notin Announced(db', j)
        BY Awaits DEF UserOwed
      <3>2. \A i \in DOMAIN jobs : jobs[i] \in Range(jobs)
        BY DEF Range
      <3>. QED  BY <3>1, <3>2 DEF ByJobs
    <2>3. UserFits(broker, db, u)
      BY <2>1 DEF Fits, UsersFit
    <2>4. NoMore(db, db', u)
      BY <2>1, <2>2 DEF Told
    <2>. QED  BY <1>3, <2>3, <2>4, StillFits
  <1>5. DevicesFit'
    <2>. SUFFICES ASSUME NEW s \in AllScanners(db'), s \notin drift', ~DeviceOwed(s)'
                  PROVE  DeviceFits(broker, db', s)
      BY DEF DevicesFit
    <2>1. s \notin drift \cup Hit \cup missed /\ ~DeviceOwed(s)
      BY <1>1 DEF DeviceOwed, Faced
    <2>2. ~\E j \in Range(jobs) : j.job = "scanner" /\ j.of = s
      BY DEF DeviceOwed
    <2>3. s \in AllScanners(db) /\ db.scanners[s].enabled = db'.scanners[s].enabled
      BY <2>1, <2>2 DEF Told
    <2>4. DeviceFits(broker, db, s)
      BY <2>1, <2>3 DEF Fits, DevicesFit
    <2>. QED  BY <2>3, <2>4 DEF DeviceFits
  <1>6. TokensFit'
    <2>. SUFFICES ASSUME NEW s \in AllScanners(db'), s \notin drift', ~TokenOwed(s)'
                  PROVE  TokenFits(broker, db', s)
      BY DEF TokensFit
    <2>1. s \notin drift \cup Hit \cup missed /\ ~TokenOwed(s)
      BY <1>1 DEF TokenOwed
    <2>2. ScannerJob(s, TRUE) \notin Range(jobs)
      BY DEF TokenOwed
    <2>3. s \in AllScanners(db) /\ db.scanners[s].token = db'.scanners[s].token
      BY <2>1, <2>2 DEF Told
    <2>4. TokenFits(broker, db, s)
      BY <2>1, <2>3 DEF Fits, TokensFit
    <2>. QED  BY <2>3, <2>4 DEF TokenFits
  <1>7. AllGone'
    <2>. SUFFICES ASSUME NEW s \in db'.deleted, s \notin drift', ~ForgetOwed(s)'
                  PROVE  Forgotten(broker, s)
      BY DEF AllGone
    <2>1. s \notin drift \cup missed /\ ~ForgetOwed(s)
      BY <1>1 DEF ForgetOwed, Faced
    <2>2. s \in db.deleted
      BY <2>1 DEF Told, ForgetOwed
    <2>. QED  BY <2>1, <2>2 DEF Fits, AllGone
  <1>. QED  BY <1>4, <1>5, <1>6, <1>7 DEF Fits

\* Agendas and clients are as far as they were: what is gone stays gone.
LEMMA PoisedStays ==
  ASSUME NEW x, NEW i, NEW b, NEW D, NEW E, D \subseteq E, Poised(x, i, b, D)
  PROVE  Poised(x, i, b, E)
  <1>1. ASSUME PoisedUser(x, b, i.name, D) PROVE PoisedUser(x, b, i.name, E)
    BY <1>1 DEF PoisedUser
  <1>. QED  BY <1>1 DEF Poised

LEMMA StayPoised ==
  ASSUME AllPoised, broker' = broker, Gone \subseteq Gone', NEW t \in Threads, task'[t] = task[t]
  PROVE  Busy(t)' /\ task'[t].clean => Poised(task'[t], Now(t)', broker', Gone')
  <1>1. Busy(t)' <=> Busy(t)
    BY DEF Busy
  <1>2. Now(t)' = Now(t)
    BY DEF Now
  <1>. QED  BY <1>1, <1>2, PoisedStays DEF AllPoised

\* A thread at the start of an item
LEMMA AtStart ==
  ASSUME NEW x, x.pc = "start", NEW i, NEW b, NEW D
  PROVE  Poised(x, i, b, D)
  BY DEF Poised

LEMMA SaveFits ==
  ASSUME IInv, Fit, NEW d, NEW jobs, NEW missed \in SUBSET Names, Written(d, jobs),
         Told(db, d, jobs, missed), Lasts(jobs), Save(d, jobs, missed)
  PROVE  Fit'
  <1>1. /\ txn = None /\ txn' = None /\ queue' = queue \o jobs /\ db' = d
        /\ drift' = drift \cup missed \cup ((Waiting(db) \ Waiting(d)) \ ByJobs(d, jobs))
        /\ broker' = broker /\ task' = task
    BY DEF Save, Change
  <1>2. /\ queue \in Seq(Job) /\ jobs \in Seq(Job) /\ Follows(db, d) /\ Drops(jobs, d.deleted)
    BY DEF IInv, Types, JobsOK, Written
  <1>3. queue' \in Seq(Job) /\ Range(queue') = Range(queue) \cup Range(jobs)
    BY <1>1, <1>2, InBoth
  <1>4. Hit = {} /\ Gone = db.deleted /\ Gone' = d.deleted
    BY <1>1 DEF Hit, Gone, Early
  <1>5. ASSUME NEW u \in Waiting(db), u \notin drift' PROVE u \in Waiting(db)'
    <2>1. u \in Waiting(d) \/ u \in ByJobs(d, jobs)
      BY <1>1, <1>5
    <2>2. ASSUME u \in Waiting(d) PROVE u \in Waiting(db)'
      <3>1. Work' = Work
        BY <1>1 DEF Work
      <3>. QED  BY <1>1, <1>3, <2>2, <3>1, Awaits
    <2>3. ASSUME u \in ByJobs(d, jobs) PROVE u \in Waiting(db)'
      <3>1. \E j \in Range(jobs) : u \in Announced(d, j)
        BY <2>3 DEF ByJobs, Range
      <3>. QED  BY <1>1, <1>3, <3>1, Awaits
    <2>. QED  BY <2>1, <2>2, <2>3
  <1>6. Fits'
    BY <1>1, <1>2, <1>3, <1>4, <1>5, RowsMove DEF Fit
  <1>7. Gone \subseteq Gone' /\ Work' = Work
    BY <1>1, <1>2, <1>4 DEF Follows, Work
  <1>8. AllPoised'
    BY <1>1, <1>7, StayPoised DEF Fit, AllPoised
  <1>9. ForgetLate'
    <2>1. ASSUME NEW i \in DOMAIN queue', queue'[i].job = "forget" PROVE queue'[i].of \in d.deleted
      <3>1. queue'[i] \in Range(queue) \cup Range(jobs)
        BY <1>3, InSequence
      <3>2. ASSUME NEW k \in DOMAIN queue, queue'[i] = queue[k] PROVE queue'[i].of \in d.deleted
        BY <1>1, <1>2, <2>1, <3>2 DEF Fit, ForgetLate, Follows
      <3>3. ASSUME NEW k \in DOMAIN jobs, queue'[i] = jobs[k] PROVE queue'[i].of \in d.deleted
        BY <1>2, <2>1, <3>3 DEF Drops
      <3>. QED  BY <3>1, <3>2, <3>3 DEF Range
    <2>. QED  BY <1>1, <2>1 DEF ForgetLate
  <1>10. ForgetGone'
    BY <1>7 DEF Fit, ForgetGone
  <1>. QED  BY <1>1, <1>6, <1>8, <1>9, <1>10 DEF Fit, TxnTold, Told

LEMMA BeginFits ==
  ASSUME IInv, Fit, NEW d, NEW jobs, NEW missed \in SUBSET Names, Written(d, jobs),
         Told(db, d, jobs, missed), Lasts(jobs), Begin(d, jobs, missed)
  PROVE  Fit'
  <1>1. /\ txn = None /\ txn' = [rows |-> d, jobs |-> jobs, missed |-> missed]
        /\ queue' = queue \o jobs /\ db' = db /\ drift' = drift /\ broker' = broker /\ task' = task
    BY DEF Begin, Change
  <1>2. /\ queue \in Seq(Job) /\ jobs \in Seq(Job) /\ d \in Database /\ Drops(jobs, d.deleted)
    BY DEF IInv, Types, JobsOK, Written, Follows
  <1>3. queue' \in Seq(Job) /\ Range(queue') = Range(queue) \cup Range(jobs)
    BY <1>1, <1>2, InBoth
  <1>4. txn'.rows = d /\ txn'.jobs = jobs /\ txn'.missed = missed
    BY <1>1
  <1>5. ~Early /\ ~Early' /\ Work' = Work
    <2>1. IsSuffix(jobs, queue')
      BY <1>1, <1>2, SuffixFacts
    <2>. QED  BY <1>1, <1>4, <2>1 DEF Early, Work
  <1>6. Hit = {} /\ Hit' = {} /\ Gone = db.deleted /\ Gone' = Gone
    BY <1>1, <1>5 DEF Hit, Gone
  <1>7. Fits'
    <2>1. \A u : UserOwed(u) => UserOwed(u)'
      <3>1. ASSUME NEW u \in Waiting(db) PROVE u \in Waiting(db)'
        BY <1>1, <1>3, <1>5, Awaits
      <3>. QED  BY <1>5, <3>1 DEF UserOwed, Faced
    <2>2. \A s : DeviceOwed(s) => DeviceOwed(s)'
      BY <1>3, <1>5 DEF DeviceOwed, Faced
    <2>3. \A s : ForgetOwed(s) => ForgetOwed(s)'
      BY <1>3, <1>5 DEF ForgetOwed, Faced
    <2>4. \A s : TokenOwed(s) => TokenOwed(s)'
      <3>1. \A t, s : Soiled(t, s)' <=> Soiled(t, s)
        BY <1>1 DEF Soiled, Busy, Now
      <3>. QED  BY <1>3, <1>5, <3>1 DEF TokenOwed
    <2>. QED  BY <1>1, <1>6, <2>1, <2>2, <2>3, <2>4, NothingDropped DEF Fit
  <1>8. AllPoised'
    BY <1>1, <1>6, StayPoised DEF Fit, AllPoised
  <1>9. ForgetLate'
    <2>1. /\ DOMAIN queue = 1..Len(queue) /\ DOMAIN jobs = 1..Len(jobs)
          /\ Len(queue) \in Nat /\ Len(jobs) \in Nat
          /\ DOMAIN queue' = 1..(Len(queue) + Len(jobs)) /\ Len(queue') = Len(queue) + Len(jobs)
          /\ \A i \in 1..Len(queue) : queue'[i] = queue[i]
          /\ \A i \in 1..Len(jobs) : queue'[Len(queue) + i] = jobs[i]
      BY <1>1, <1>2
    <2>2. ASSUME NEW i \in 1..Len(queue), queue[i].job = "forget" PROVE queue[i].of \in db.deleted
      BY <1>1, <2>1, <2>2 DEF Fit, ForgetLate
    <2>3. ASSUME NEW i \in 1..Len(jobs), jobs[i].job = "forget"
          PROVE  jobs[i].of \in d.deleted /\ i = Len(jobs) /\ jobs # <<>>
      <3>1. i \in DOMAIN jobs /\ jobs[i].job = "forget"
        BY <2>1, <2>3
      <3>2. jobs[i].of \in d.deleted /\ i = Len(jobs)
        BY <1>2, <3>1 DEF Drops, Lasts
      <3>3. jobs # <<>>
        BY <2>1, <3>1
      <3>. QED  BY <3>2, <3>3
    <2>4. txn' # None
      <3>1. txn' \in Transaction
        BY <1>1, <1>2 DEF Transaction, Names
      <3>. QED  BY <3>1, NoTransaction
    <2>5. ASSUME NEW i \in DOMAIN queue', queue'[i].job = "forget"
          PROVE  \/ queue'[i].of \in db.deleted
                 \/ queue'[i].of \in d.deleted /\ i = Len(queue') /\ jobs # <<>>
      <3>1. CASE i \in 1..Len(queue)
        BY <2>1, <2>2, <2>5, <3>1
      <3>2. CASE i \notin 1..Len(queue)
        <4>1. PICK k \in 1..Len(jobs) : i = Len(queue) + k
          <5>1. i - Len(queue) \in 1..Len(jobs) /\ i = Len(queue) + (i - Len(queue))
            BY <2>1, <3>2
          <5>. QED  BY <5>1
        <4>2. queue'[i] = jobs[k]
          BY <2>1, <4>1
        <4>. QED  BY <2>1, <2>3, <2>5, <4>1, <4>2
      <3>. QED  BY <3>1, <3>2
    <2>. QED  BY <1>1, <1>4, <2>4, <2>5 DEF ForgetLate
  <1>10. ForgetGone'
    BY <1>5, <1>6 DEF Fit, ForgetGone
  <1>11. TxnTold'
    BY <1>1, <1>4 DEF TxnTold
  <1>. QED  BY <1>1, <1>7, <1>8, <1>9, <1>10, <1>11 DEF Fit

LEMMA CommitFits ==
  ASSUME IInv, Fit, Commit
  PROVE  Fit'
  <1>1. /\ txn # None /\ db' = txn.rows /\ txn' = None /\ broker' = broker /\ task' = task
        /\ queue' = queue
        /\ drift' = drift \cup txn.missed \cup (Waiting(db) \ Waiting(txn.rows))
                \cup (IF IsSuffix(txn.jobs, queue) THEN {} ELSE Affected(db, txn.rows))
    BY DEF Commit
  <1>2. /\ queue \in Seq(Job) /\ txn.jobs \in Seq(Job) /\ db \in Database /\ Follows(db, db')
    BY <1>1 DEF IInv, Types, JobsOK, RowsOK, Transaction
  <1>3. Told(db, db', txn.jobs, txn.missed)
    BY <1>1 DEF Fit, TxnTold
  <1>4. Hit = IF IsSuffix(txn.jobs, queue) THEN {} ELSE Affected(db, txn.rows)
    BY <1>1 DEF Hit, Early
  <1>5. ASSUME NEW u \in Waiting(db), u \notin drift' PROVE u \in Waiting(db)'
    <2>1. u \in Waiting(db')
      BY <1>1, <1>5
    <2>2. Work' = Work
      BY <1>1 DEF Work
    <2>. QED  BY <1>1, <2>1, <2>2, Awaits
  <1>6. Fits'
    <2>1. CASE IsSuffix(txn.jobs, queue)
      <3>1. Range(txn.jobs) \subseteq Range(queue')
        BY <1>1, <1>2, <2>1, SuffixFacts
      <3>2. drift \cup Hit \cup txn.missed \subseteq drift'
        BY <1>1, <1>4
      <3>. QED  BY <1>1, <1>2, <1>3, <1>5, <3>1, <3>2, RowsMove DEF Fit
    <2>2. CASE ~IsSuffix(txn.jobs, queue)
      <3>. DEFINE jobs   == <<>>
                  missed == Affected(db, db')
      <3>1. Range(jobs) \subseteq Range(queue')
        BY InOne
      <3>2. Affected(db, db') \ missed \subseteq ByJobs(db', jobs) \cap Users
        OBVIOUS
      <3>3. drift \cup Hit \cup missed \subseteq drift'
        BY <1>1, <1>4, <2>2
      <3>. HIDE DEF jobs, missed
      <3>4. db'.creds = db.creds /\ GrantsHere(db') /\ db'.deleted \ db.deleted \subseteq AllScanners(db)
        BY <1>3 DEF Told
      <3>5. Told(db, db', jobs, missed)
        BY <1>2, <3>2, <3>4, MissedTold DEF Follows
      <3>. QED  BY <1>1, <1>2, <1>5, <3>1, <3>3, <3>5, RowsMove DEF Fit
    <2>. QED  BY <2>1, <2>2
  <1>7. Gone \subseteq Gone' /\ Work' = Work
    BY <1>1, <1>2 DEF Follows, Work, Gone
  <1>8. AllPoised'
    BY <1>1, <1>7, StayPoised DEF Fit, AllPoised
  <1>9. ForgetLate'
    BY <1>1, <1>2 DEF Fit, ForgetLate, Follows
  <1>10. ForgetGone'
    BY <1>7 DEF Fit, ForgetGone
  <1>. QED  BY <1>1, <1>3, <1>6, <1>8, <1>9, <1>10 DEF Fit, TxnTold, Told

-----------------------------------------------------------------------------
(* What new agendas are made of                                            *)

LEMMA UsersListed ==
  ASSUME NEW d, NEW U \in SUBSET Users, NEW guarded
  PROVE  Range(UserItems(d, U, guarded)) = {UserItem(d, u, guarded) : u \in U}
  <1>. DEFINE n == Cardinality(U)
              f == SetToSeq(U)
  <1>1. IsFiniteSet(U)
    BY FS_Subset
  <1>2. f \in [1..n -> U] /\ \A u \in U : \E i \in 1..n : f[i] = u
    BY <1>1, Listing, ListedAll
  <1>3. UserItems(d, U, guarded) = [i \in 1..n |-> UserItem(d, f[i], guarded)]
    BY DEF UserItems
  <1>. HIDE DEF n, f
  <1>4. Range(UserItems(d, U, guarded)) = {UserItem(d, f[i], guarded) : i \in 1..n}
    BY <1>3 DEF Range
  <1>. QED  BY <1>2, <1>4

LEMMA ScannersListed ==
  ASSUME NEW d \in Database, NEW S \in SUBSET AllScanners(d)
  PROVE  Range(ScannerItems(d, S)) = {ScannerItem(d, s, FALSE) : s \in S}
  <1>. DEFINE n == Cardinality(S)
              f == SetToSeq(S)
  <1>1. IsFiniteSet(S)
    BY Parts, FS_Subset
  <1>2. f \in [1..n -> S] /\ \A s \in S : \E i \in 1..n : f[i] = s
    BY <1>1, Listing, ListedAll
  <1>3. ScannerItems(d, S) = [i \in 1..n |-> ScannerItem(d, f[i], FALSE)]
    BY DEF ScannerItems
  <1>. HIDE DEF n, f
  <1>. DEFINE its  == ScannerItems(d, S)
              I(s) == ScannerItem(d, s, FALSE)
  <1>4. DOMAIN its = 1..n /\ \A i \in 1..n : its[i] = I(f[i])
    BY <1>3
  <1>. HIDE DEF its, I
  <1>5. Range(its) = {I(s) : s \in S}
    BY <1>2, <1>4 DEF Range
  <1>. QED  BY <1>5 DEF its, I

LEMMA Queries ==
  ASSUME NEW items \in Seq(Item), NEW of \in Folders \cup {All}
  PROVE  Range(items \o <<QueryItem(of)>>) = Range(items) \cup {QueryItem(of)}
  <1>. DEFINE q  == QueryItem(of)
              qs == <<q>>
  <1>1. q \in Item
    BY DEF QueryItem, Item
  <1>. HIDE DEF q
  <1>2. qs \in Seq(Item) /\ Range(qs) = {q}
    BY <1>1, InOne
  <1>. HIDE DEF qs
  <1>3. Range(items \o qs) = Range(items) \cup Range(qs)
    BY <1>2, InBoth
  <1>. QED  BY <1>2, <1>3 DEF qs, q

\* The items of a job come to whom it announces.
LEMMA JobTaken ==
  ASSUME NEW d \in Database, NEW j \in Job, NEW R, R = Range(JobItems(d, j))
  PROVE  /\ \A u \in d.creds : u \in Announced(d, j) =>
              \E i \in R : \/ i.kind # "query" /\ i.name = u
                           \/ i.kind = "query" /\ u \in Queried(d, i.name)
         /\ j.job = "scanner" /\ j.of \in AllScanners(d) =>
              \E i \in R : i.kind = "scanner" /\ i.name = j.of /\ i.password = j.password
         /\ j.job = "forget" => \E i \in R : i.kind = "forget" /\ i.name = j.of
         /\ \A i \in R : i.kind = "forget" => j.job = "forget" /\ i.name = j.of
  <1>1. \A u, p : UserItem(d, u, p).kind = "user" /\ UserItem(d, u, p).name = u
    BY DEF UserItem
  <1>2. \A s, p : /\ ScannerItem(d, s, p).kind = "scanner" /\ ScannerItem(d, s, p).name = s
                  /\ ScannerItem(d, s, p).password = p
    BY DEF ScannerItem
  <1>3. \A s : ForgetItem(s).kind = "forget" /\ ForgetItem(s).name = s
    BY DEF ForgetItem
  <1>4. \A k : QueryItem(k).kind = "query" /\ QueryItem(k).name = k
    BY DEF QueryItem
  <1>5. CASE j.job = "user"
    <2>1. R = {UserItem(d, j.of, FALSE)} /\ Announced(d, j) = {j.of}
      BY <1>5, InOne DEF JobItems, Announced
    <2>. QED  BY <1>1, <1>5, <2>1
  <1>6. CASE j.job = "scanner"
    <2>1. Announced(d, j) = {j.of} /\ j.of \notin Users
      BY <1>6 DEF Announced, Job
    <2>2. R = IF j.of \in AllScanners(d) THEN {ScannerItem(d, j.of, j.password)} ELSE {}
      BY <1>6, InOne DEF JobItems
    <2>. QED  BY <1>2, <1>6, <2>1, <2>2, Parts
  <1>7. CASE j.job = "forget"
    <2>1. Announced(d, j) = {j.of} /\ j.of \notin Users
      BY <1>7 DEF Announced, Job
    <2>2. R = {ForgetItem(j.of)}
      BY <1>7, InOne DEF JobItems
    <2>. QED  BY <1>3, <1>7, <2>1, <2>2, Parts
  <1>8. CASE j.job = "folder"
    <2>. DEFINE S == j.scanners \cap AllScanners(d)
    <2>1. Announced(d, j) = FolderUsers(d, j.of) /\ j.of \in Folders
      BY <1>8 DEF Announced, Job
    <2>2. R = Range(ScannerItems(d, S)) \cup {QueryItem(j.of)}
      <3>1. JobItems(d, j) = ScannerItems(d, S) \o <<QueryItem(j.of)>>
        BY <1>8 DEF JobItems
      <3>2. ScannerItems(d, S) \in Seq(Item)
        BY ScannerListed
      <3>. QED  BY <2>1, <3>1, <3>2, Queries
    <2>3. Range(ScannerItems(d, S)) = {ScannerItem(d, s, FALSE) : s \in S}
      BY ScannersListed
    <2>4. \A u \in d.creds : u \in FolderUsers(d, j.of) => u \in Queried(d, j.of)
      BY DEF Queried
    <2>. HIDE DEF S
    <2>5. \A i \in R : i.kind # "forget"
      <3>1. \A s : ScannerItem(d, s, FALSE).kind = "scanner"
        BY DEF ScannerItem
      <3>. QED  BY <1>4, <2>2, <2>3, <3>1
    <2>. QED  BY <1>4, <1>8, <2>1, <2>2, <2>4, <2>5
  <1>9. CASE j.job = "members"
    <2>. DEFINE U == d.members[j.of] \cap d.creds
    <2>1. Announced(d, j) = d.members[j.of] /\ JobItems(d, j) = UserItems(d, U, TRUE)
      BY <1>9 DEF Announced, JobItems
    <2>2. U \in SUBSET Users
      BY Parts
    <2>4. \A u \in d.creds : u \in d.members[j.of] => u \in U
      OBVIOUS
    <2>. DEFINE g == TRUE
    <2>. HIDE DEF U, g
    <2>3. R = {UserItem(d, u, g) : u \in U}
      <3>1. Range(UserItems(d, U, g)) = {UserItem(d, u, g) : u \in U}
        BY <2>2, UsersListed
      <3>. QED  BY <2>1, <3>1 DEF g
    <2>5. \A u \in U : \E i \in R : i.kind # "query" /\ i.name = u
      BY <1>1, <2>3
    <2>6. \A i \in R : i.kind = "user"
      BY <1>1, <2>3
    <2>7. \A u \in d.creds : u \in Announced(d, j) => u \in U
      BY <2>1, <2>4
    <2>. QED  BY <1>9, <2>5, <2>6, <2>7
  <1>. QED  BY <1>5, <1>6, <1>7, <1>8, <1>9 DEF Job

-----------------------------------------------------------------------------
(* The threads' own steps                                                  *)

\* A thread that is idle, or at a query, takes on new items.
LEMMA Taken ==
  ASSUME IInv, NEW t \in Threads, NEW items \in Seq(Item), task' = [task EXCEPT ![t] = Agenda(items)]
  PROVE  /\ \A o \in Threads \ {t} : task'[o] = task[o]
         /\ task'[t].items = items /\ task'[t].pc = "start" /\ task'[t].clean
         /\ \A i : i \in Work' <=> \/ i \in Range(items)
                                   \/ \E o \in Threads \ {t} : i \in Range(task[o].items)
         /\ ~Busy(t) => \A i : i \in Work' <=> i \in Range(items) \/ i \in Work
         /\ \A s : ~Soiled(t, s)'
         /\ \A o \in Threads \ {t} : \A s : Soiled(o, s)' <=> Soiled(o, s)
  <1>1. task'[t] = Agenda(items) /\ \A o \in Threads \ {t} : task'[o] = task[o]
    BY DEF IInv, Types, TasksOK
  <1>2. Agenda(items).items = items /\ Agenda(items).pc = "start" /\ Agenda(items).clean
    BY DEF Agenda
  <1>3. \A i : i \in Work' <=> \/ i \in Range(items)
                               \/ \E o \in Threads \ {t} : i \in Range(task[o].items)
    BY <1>1, <1>2, Works
  <1>4. ~Busy(t) => \A i : i \in Work' <=> i \in Range(items) \/ i \in Work
    <2>1. ~Busy(t) => Range(task[t].items) = {}
      BY InOne DEF Busy
    <2>. QED  BY <1>3, <2>1, Works
  <1>5. \A s : ~Soiled(t, s)'
    BY <1>1, <1>2 DEF Soiled
  <1>6. \A o \in Threads \ {t} : \A s : Soiled(o, s)' <=> Soiled(o, s)
    BY <1>1 DEF Soiled, Busy, Now
  <1>. QED  BY <1>1, <1>2, <1>3, <1>4, <1>5, <1>6

\* What was to be done is still to be done, when an idle thread takes items on.
LEMMA MoreToDo ==
  ASSUME IInv, NEW t \in Threads, ~Busy(t), NEW items \in Seq(Item),
         task' = [task EXCEPT ![t] = Agenda(items)], db' = db, queue' = queue
  PROVE  /\ \A u : UserOwed(u) => UserOwed(u)'
         /\ \A s : DeviceOwed(s) => DeviceOwed(s)'
         /\ \A s : TokenOwed(s) => TokenOwed(s)'
         /\ \A s : ForgetOwed(s) => ForgetOwed(s)'
  <1>1. \A i \in Work : i \in Work'
    BY Taken
  <1>2. \A n : Faced(n) => Faced(n)'
    BY <1>1 DEF Faced
  <1>3. \A o \in Threads : \A s : Soiled(o, s) => Soiled(o, s)'
    <2>1. \A s : ~Soiled(t, s)
      BY DEF Soiled
    <2>. QED  BY <2>1, Taken
  <1>4. \A u \in Waiting(db) : u \in Waiting(db)'
    BY <1>1, Awaits
  <1>5. \A u : UserOwed(u) => UserOwed(u)'
    BY <1>2, <1>4 DEF UserOwed
  <1>6. \A s : DeviceOwed(s) => DeviceOwed(s)'
    BY <1>2 DEF DeviceOwed
  <1>7. \A s : TokenOwed(s) => TokenOwed(s)'
    BY <1>1, <1>3 DEF TokenOwed
  <1>8. \A s : ForgetOwed(s) => ForgetOwed(s)'
    BY <1>2 DEF ForgetOwed
  <1>. QED  BY <1>5, <1>6, <1>7, <1>8

LEMMA AllStayPoised ==
  ASSUME AllPoised, broker' = broker, Gone \subseteq Gone', NEW t \in Threads, task'[t].pc = "start",
         \A o \in Threads \ {t} : task'[o] = task[o]
  PROVE  AllPoised'
  <1>1. ASSUME NEW o \in Threads
        PROVE  Busy(o)' /\ task'[o].clean => Poised(task'[o], Now(o)', broker', Gone')
    BY StayPoised, AtStart
  <1>. QED  BY <1>1 DEF AllPoised

LEMMA SyncContents ==
  ASSUME NEW d \in Database
  PROVE  Range(SyncItems(d)) = {ScannerItem(d, s, FALSE) : s \in AllScanners(d)} \cup {QueryItem(All)}
  <1>. DEFINE its == ScannerItems(d, AllScanners(d))
  <1>1. its \in Seq(Item) /\ Range(its) = {ScannerItem(d, s, FALSE) : s \in AllScanners(d)}
    BY ScannerListed, ScannersListed
  <1>2. SyncItems(d) = its \o <<QueryItem(All)>>
    BY DEF SyncItems
  <1>. HIDE DEF its
  <1>3. Range(its \o <<QueryItem(All)>>) = Range(its) \cup {QueryItem(All)}
    BY <1>1, Queries
  <1>. QED  BY <1>1, <1>2, <1>3

LEMMA SyncStartFits ==
  ASSUME IInv, Fit, SyncStart
  PROVE  Fit'
  <1>. DEFINE items == SyncItems(db)
  <1>1. /\ ~Busy("sched") /\ task' = [task EXCEPT !["sched"] = Agenda(items)]
        /\ db' = db /\ broker' = broker /\ queue' = queue /\ txn' = txn /\ drift' = drift
    BY DEF SyncStart
  <1>2. "sched" \in Threads /\ db \in Database /\ items \in Seq(Item)
    BY SyncListed DEF Threads, IInv, Types, RowsOK
  <1>3. \A i \in Range(items) : i.kind # "forget"
    <2>1. \A s : ScannerItem(db, s, FALSE).kind = "scanner"
      BY DEF ScannerItem
    <2>2. QueryItem(All).kind = "query"
      BY DEF QueryItem
    <2>. DEFINE R == Range(items)
                I(s) == ScannerItem(db, s, FALSE)
                q == QueryItem(All)
    <2>3. R = {I(s) : s \in AllScanners(db)} \cup {q}
      BY <1>2, SyncContents
    <2>. HIDE DEF R, I, q
    <2>4. (\A s : I(s).kind = "scanner") /\ q.kind = "query"
      BY <2>1, <2>2 DEF I, q
    <2>5. \A i \in R : i.kind # "forget"
      BY <2>3, <2>4
    <2>. QED  BY <2>5 DEF R
  <1>. HIDE DEF items
  <1>4. (Early' <=> Early) /\ Hit' = Hit /\ Gone' = Gone
    BY <1>1 DEF Early, Hit, Gone
  <1>5. Fits'
    BY <1>1, <1>2, <1>4, MoreToDo, NothingDropped DEF Fit
  <1>6. AllPoised'
    BY <1>1, <1>2, <1>4, Taken, AllStayPoised DEF Fit
  <1>7. ForgetGone'
    <2>1. \A i \in Work' : i \in Range(items) \/ i \in Work
      BY <1>1, <1>2, Taken
    <2>. QED  BY <1>3, <1>4, <2>1 DEF Fit, ForgetGone
  <1>. QED  BY <1>1, <1>5, <1>6, <1>7 DEF Fit, TxnTold, ForgetLate

LEMMA TakeJobFits ==
  ASSUME IInv, Fit, TakeJob
  PROVE  Fit'
  <1>. DEFINE t == "exec"
              j == Head(queue)
              items == JobItems(db, j)
  <1>1. /\ ~Busy(t) /\ queue # <<>> /\ task' = [task EXCEPT ![t] = Agenda(items)]
        /\ queue' = Tail(queue) /\ db' = db /\ broker' = broker /\ txn' = txn /\ drift' = drift
    BY DEF TakeJob
  <1>2. /\ queue \in Seq(Job) /\ db \in Database
        /\ txn # None => txn.jobs \in Seq(Job) /\ txn.rows.deleted \subseteq Scanners
    <2>1. txn # None => txn.rows \in Database
      BY DEF IInv, Types, RowsOK, Transaction
    <2>. QED  BY <2>1, Parts DEF IInv, Types, JobsOK, RowsOK, Transaction
  <1>3. /\ j \in Job /\ queue' \in Seq(Job) /\ j = queue[1] /\ 1 \in DOMAIN queue
        /\ Range(queue) = {j} \cup Range(queue')
        /\ \A i \in DOMAIN queue' : queue'[i] = queue[i + 1] /\ i + 1 \in DOMAIN queue
        /\ Len(queue') = Len(queue) - 1 /\ Len(queue) \in Nat
    <2>1. /\ \A i \in DOMAIN Tail(queue) : Tail(queue)[i] = queue[i + 1] /\ i + 1 \in DOMAIN queue
          /\ Len(Tail(queue)) = Len(queue) - 1 /\ Len(queue) \in Nat
      BY <1>1, <1>2
    <2>. QED  BY <1>1, <1>2, <2>1, InTail
  <1>4. items \in Seq(Item)
    BY <1>2, <1>3, JobListed
  <1>5. /\ t \in Threads
        /\ \A u \in db.creds : u \in Announced(db, j) =>
             \E i \in Range(items) : \/ i.kind # "query" /\ i.name = u
                                     \/ i.kind = "query" /\ u \in Queried(db, i.name)
        /\ j.job = "scanner" /\ j.of \in AllScanners(db) =>
             \E i \in Range(items) : i.kind = "scanner" /\ i.name = j.of /\ i.password = j.password
        /\ j.job = "forget" => \E i \in Range(items) : i.kind = "forget" /\ i.name = j.of
        /\ \A i \in Range(items) : i.kind = "forget" => j.job = "forget" /\ i.name = j.of
    BY <1>2, <1>3, JobTaken DEF Threads
  <1>. HIDE DEF t, items, j
  <1>6. Early => Early'
    BY <1>1, <1>2, SuffixFacts DEF Early
  <1>7. Hit \subseteq Hit' /\ Gone \subseteq Gone'
    BY <1>1, <1>6 DEF Hit, Gone
  <1>8. \A i : i \in Work' <=> i \in Range(items) \/ i \in Work
    BY <1>1, <1>4, <1>5, Taken
  <1>9. Fits'
    <2>1. ASSUME NEW u \in db.creds, UserOwed(u) PROVE UserOwed(u)'
      <3>1. CASE Faced(u)
        BY <1>8, <3>1 DEF UserOwed, Faced
      <3>2. CASE \E i \in Work : i.kind = "query" /\ u \in Queried(db, i.name)
        BY <1>1, <1>8, <3>2, Awaits DEF UserOwed
      <3>3. CASE \E k \in Range(queue') : u \in Announced(db, k)
        BY <1>1, <3>3, Awaits DEF UserOwed
      <3>4. CASE u \in Announced(db, j)
        <4>1. PICK i \in Range(items) : \/ i.kind # "query" /\ i.name = u
                                        \/ i.kind = "query" /\ u \in Queried(db, i.name)
          BY <1>5, <3>4
        <4>2. i \in Work'
          BY <1>8
        <4>3. Faced(u)' \/ u \in Waiting(db)'
          BY <1>1, <4>1, <4>2, Awaits DEF Faced
        <4>. QED  BY <4>3 DEF UserOwed
      <3>5. u \in Waiting(db) => \/ \E k \in Range(queue) : u \in Announced(db, k)
                                 \/ \E i \in Work : i.kind = "query" /\ u \in Queried(db, i.name)
        BY Awaits
      <3>. QED  BY <1>3, <2>1, <3>1, <3>2, <3>3, <3>4, <3>5 DEF UserOwed
    <2>2. ASSUME NEW s \in AllScanners(db), DeviceOwed(s) PROVE DeviceOwed(s)'
      BY <1>3, <1>5, <1>8, <2>2 DEF DeviceOwed, Faced
    <2>3. ASSUME NEW s, ForgetOwed(s) PROVE ForgetOwed(s)'
      <3>1. ForgetJob(s).job = "forget" /\ ForgetJob(s).of = s
        BY DEF ForgetJob
      <3>. QED  BY <1>3, <1>5, <1>8, <2>3, <3>1 DEF ForgetOwed, Faced
    <2>4. ASSUME NEW s \in AllScanners(db), TokenOwed(s) PROVE TokenOwed(s)'
      <3>1. /\ ScannerJob(s, TRUE).job = "scanner" /\ ScannerJob(s, TRUE).of = s
            /\ ScannerJob(s, TRUE).password
        BY DEF ScannerJob
      <3>2. ASSUME NEW o \in Threads, Soiled(o, s) PROVE Soiled(o, s)'
        <4>1. ~Soiled(t, s)
          BY <1>1 DEF Soiled
        <4>. QED  BY <1>1, <1>4, <1>5, <3>2, <4>1, Taken
      <3>3. ASSUME j = ScannerJob(s, TRUE) PROVE TokenOwed(s)'
        <4>1. \E i \in Range(items) : i.kind = "scanner" /\ i.name = s /\ i.password
          BY <1>5, <3>1, <3>3
        <4>. QED  BY <1>8, <4>1 DEF TokenOwed
      <3>. QED  BY <1>3, <1>8, <2>4, <3>2, <3>3 DEF TokenOwed
    <2>. QED  BY <1>1, <1>7, <2>1, <2>2, <2>3, <2>4, NothingDropped DEF Fit
  <1>10. AllPoised'
    BY <1>1, <1>4, <1>5, <1>7, Taken, AllStayPoised DEF Fit
  <1>11. ForgetLate'
    <2>1. ASSUME NEW i \in DOMAIN queue', queue'[i].job = "forget"
          PROVE  \/ queue'[i].of \in db.deleted
                 \/ /\ txn # None /\ queue'[i].of \in txn.rows.deleted
                    /\ i = Len(queue') /\ txn.jobs # <<>>
      <3>1. i + 1 \in DOMAIN queue /\ queue'[i] = queue[i + 1]
        BY <1>3
      <3>2. i \in Nat /\ (i + 1 = Len(queue) => i = Len(queue'))
        BY <1>3
      <3>. QED  BY <2>1, <3>1, <3>2 DEF Fit, ForgetLate
    <2>. QED  BY <1>1, <2>1 DEF ForgetLate
  <1>12. ForgetGone'
    <2>1. ASSUME j.job = "forget" PROVE j.of \in Gone'
      <3>1. CASE j.of \in db.deleted
        BY <1>1, <3>1 DEF Gone
      <3>2. CASE j.of \notin db.deleted
        <4>1. txn # None /\ j.of \in txn.rows.deleted /\ 1 = Len(queue) /\ txn.jobs # <<>>
          BY <1>3, <2>1, <3>2 DEF Fit, ForgetLate
        <4>2. queue' = <<>>
          <5>1. \A q \in Seq(Job) : Len(q) = 0 => q = <<>>
            OBVIOUS
          <5>4. Len(queue') = Len(queue) - 1
            BY <1>3
          <5>5. Len(queue) = 1
            BY <4>1
          <5>2. Len(queue') = 0
            BY <5>4, <5>5
          <5>3. queue' \in Seq(Job)
            BY <1>3
          <5>. QED  BY <5>1, <5>2, <5>3
        <4>3. Early'
          <5>. DEFINE js == txn.jobs
          <5>1. js \in Seq(Job) /\ js # <<>>
            BY <1>2, <4>1
          <5>. HIDE DEF js
          <5>2. ~IsSuffix(js, <<>>)
            BY <5>1, SuffixFacts
          <5>. QED  BY <1>1, <4>1, <4>2, <5>2 DEF Early, js
        <4>. QED  BY <1>1, <4>1, <4>3 DEF Gone
      <3>. QED  BY <3>1, <3>2
    <2>. QED  BY <1>5, <1>7, <1>8, <2>1 DEF Fit, ForgetGone
  <1>. QED  BY <1>1, <1>9, <1>10, <1>11, <1>12 DEF Fit, TxnTold

LEMMA ReadUsersFits ==
  ASSUME IInv, Fit, NEW t \in Threads, ReadUsers(t)
  PROVE  Fit'
  <1>. DEFINE U == Queried(db, Now(t).name)
              guarded == Now(t).name # All
              I(u) == UserItem(db, u, guarded)
              new  == UserItems(db, U, guarded)
              rest == Tail(task[t].items)
              items == new \o rest
  <1>1. /\ Busy(t) /\ Now(t).kind = "query" /\ task' = [task EXCEPT ![t] = Agenda(items)]
        /\ queue' = queue /\ db' = db /\ broker' = broker /\ txn' = txn /\ drift' = drift
    BY DEF ReadUsers, At
  <1>2. /\ db \in Database /\ task[t].items \in Seq(Item) /\ task[t].items # <<>>
        /\ U \in SUBSET Users /\ guarded \in BOOLEAN
    BY <1>1, Parts DEF IInv, Types, TasksOK, Agendas, RowsOK, Busy, Queried, FolderUsers
  <1>3. rest \in Seq(Item) /\ Range(task[t].items) = {Now(t)} \cup Range(rest)
    BY <1>2, InTail DEF Now
  <1>. HIDE DEF guarded, rest
  <1>4. new \in Seq(Item) /\ Range(new) = {I(u) : u \in U}
    <2>. HIDE DEF U, new
    <2>1. UserItems(db, U, guarded) \in Seq(Item)
      BY <1>2, UserListed
    <2>2. Range(UserItems(db, U, guarded)) = {UserItem(db, u, guarded) : u \in U}
      <3>1. U \in SUBSET Users
        BY <1>2
      <3>. QED  BY <3>1, UsersListed
    <2>. QED  BY <2>1, <2>2 DEF new
  <1>6. \A u : I(u).kind = "user" /\ I(u).name = u
    BY DEF UserItem
  <1>. HIDE DEF new, I
  <1>5. items \in Seq(Item) /\ Range(items) = Range(new) \cup Range(rest)
    BY <1>3, <1>4, InBoth
  <1>. HIDE DEF items
  <1>15. \A i : i \in Work' <=> \/ i \in Range(new) \cup Range(rest)
                                 \/ \E o \in Threads \ {t} : i \in Range(task[o].items)
    BY <1>1, <1>5, Taken
  <1>7. ASSUME NEW i \in Work, i # Now(t) PROVE i \in Work'
    <2>1. PICK o \in Threads : i \in Range(task[o].items)
      BY Works
    <2>2. CASE o = t
      BY <1>3, <1>7, <1>15, <2>1, <2>2
    <2>3. CASE o # t
      BY <1>15, <2>1, <2>3
    <2>. QED  BY <2>2, <2>3
  <1>8. \A i \in Work' : i.kind = "forget" => i \in Work
    <2>1. \A i \in Range(new) : i.kind = "user"
      BY <1>4, <1>6
    <2>2. \A i \in Range(rest) : i \in Work
      BY <1>3, Works
    <2>3. \A o \in Threads : \A i \in Range(task[o].items) : i \in Work
      BY Works
    <2>. QED  BY <1>15, <2>1, <2>2, <2>3
  <1>9. \A u \in U : Faced(u)'
    <2>1. ASSUME NEW u \in U PROVE I(u) \in Work'
      BY <1>4, <1>15
    <2>. QED  BY <1>6, <2>1 DEF Faced
  <1>10. (Early' <=> Early) /\ Hit' = Hit /\ Gone' = Gone
    BY <1>1 DEF Early, Hit, Gone
  <1>11. \A n : Faced(n) => Faced(n)'
    BY <1>1, <1>7 DEF Faced
  <1>12. Fits'
    <2>1. ASSUME NEW u, u \in Waiting(db) PROVE UserOwed(u)'
      <3>1. CASE \E k \in Range(queue) : u \in Announced(db, k)
        BY <1>1, <3>1, Awaits DEF UserOwed
      <3>2. ASSUME NEW i \in Work, i.kind = "query", u \in Queried(db, i.name)
            PROVE  UserOwed(u)'
        <4>1. CASE i = Now(t)
          BY <1>9, <3>2, <4>1 DEF UserOwed
        <4>2. CASE i # Now(t)
          BY <1>1, <1>7, <3>2, <4>2, Awaits DEF UserOwed
        <4>. QED  BY <4>1, <4>2
      <3>. QED  BY <2>1, <3>1, <3>2, Awaits
    <2>2. \A u : UserOwed(u) => UserOwed(u)'
      BY <1>11, <2>1 DEF UserOwed
    <2>3. \A s : DeviceOwed(s) => DeviceOwed(s)'
      BY <1>1, <1>11 DEF DeviceOwed
    <2>4. \A s : ForgetOwed(s) => ForgetOwed(s)'
      BY <1>1, <1>11 DEF ForgetOwed
    <2>5. ASSUME NEW s, TokenOwed(s) PROVE TokenOwed(s)'
      <3>1. ASSUME NEW o \in Threads, Soiled(o, s) PROVE Soiled(o, s)'
        <4>1. ~Soiled(t, s)
          BY <1>1 DEF Soiled
        <4>. QED  BY <1>1, <1>5, <3>1, <4>1, Taken
      <3>2. ASSUME NEW i \in Work, i.kind = "scanner" PROVE i \in Work'
        BY <1>1, <1>7, <3>2
      <3>. QED  BY <1>1, <2>5, <3>1, <3>2 DEF TokenOwed
    <2>. QED  BY <1>1, <1>10, <2>2, <2>3, <2>4, <2>5, NothingDropped DEF Fit
  <1>13. AllPoised'
    BY <1>1, <1>5, <1>10, Taken, AllStayPoised DEF Fit
  <1>14. ForgetGone'
    BY <1>8, <1>10 DEF Fit, ForgetGone
  <1>. QED  BY <1>1, <1>12, <1>13, <1>14 DEF Fit, TxnTold, ForgetLate

-----------------------------------------------------------------------------
(* Credentials are made for a user                                         *)

CredsOnly(d, e, n) ==
  /\ d.creds \subseteq e.creds /\ e.creds \subseteq d.creds \cup {n}
  /\ e.staff = d.staff /\ e.inactive = d.inactive /\ e.members = d.members
  /\ e.baseline = d.baseline /\ e.folder = d.folder /\ e.scanners = d.scanners
  /\ e.deleted = d.deleted /\ e.status = d.status /\ e.lapsed = d.lapsed

LEMMA CredsMade ==
  ASSUME NEW d \in Database, NEW n
  PROVE  /\ CredsOnly(d, [d EXCEPT !.creds = @ \cup {n}], n)
         /\ n \in d.creds => [d EXCEPT !.creds = @ \cup {n}] = d
         /\ CredsOnly(d, d, n)
  <1>. DEFINE x == d.creds \cup {n}
              e == [d EXCEPT !.creds = x]
  <1>1. n \in d.creds => x = d.creds
    OBVIOUS
  <1>2. /\ e.creds = x /\ e.staff = d.staff /\ e.inactive = d.inactive /\ e.members = d.members
        /\ e.baseline = d.baseline /\ e.folder = d.folder /\ e.scanners = d.scanners
        /\ e.deleted = d.deleted /\ e.status = d.status /\ e.lapsed = d.lapsed
    BY DEF Database
  <1>3. [d EXCEPT !.creds = d.creds] = d
    BY DEF Database
  <1>. QED  BY <1>1, <1>2, <1>3 DEF CredsOnly

LEMMA CredsAlike ==
  ASSUME NEW d, NEW e, NEW n, CredsOnly(d, e, n)
  PROVE  /\ AllScanners(e) = AllScanners(d)
         /\ \A u \in Users : DesiredNow(d, u) = DesiredNow(e, u)
         /\ \A b : \A u \in Users : UserFits(b, d, u) <=> UserFits(b, e, u)
         /\ \A b, s : DeviceFits(b, d, s) <=> DeviceFits(b, e, s)
         /\ \A b, s : TokenFits(b, d, s) <=> TokenFits(b, e, s)
         /\ \A j : Announced(e, j) = Announced(d, j)
         /\ \A of : Queried(d, of) \subseteq Queried(e, of)
         /\ GrantsHere(d) <=> GrantsHere(e)
         /\ \A x \in Transaction : Affected(d, x.rows) = Affected(e, x.rows)
  <1>1. AllScanners(e) = AllScanners(d)
    BY DEF CredsOnly, AllScanners
  <1>2. \A g \in Grants : GrantScanners(d, g) = GrantScanners(e, g)
    BY <1>1 DEF CredsOnly, GrantScanners
  <1>3. \A u : ActiveGrants(d, u) = ActiveGrants(e, u)
    BY DEF CredsOnly, ActiveGrants, IsValid
  <1>4. \A u \in Users : DesiredNow(d, u) = DesiredNow(e, u)
    <2>1. ASSUME NEW u \in Users PROVE DesiredNow(d, u) = DesiredNow(e, u)
      <3>1. \A g \in ActiveGrants(d, u) : g \in Grants
        BY DEF ActiveGrants
      <3>. QED  BY <1>2, <1>3, <3>1, SameDesired DEF CredsOnly
    <2>. QED  BY <2>1
  <1>5. \A b : \A u \in Users : UserFits(b, d, u) <=> UserFits(b, e, u)
    BY <1>4 DEF UserFits, CredsOnly
  <1>6. /\ \A b, s : DeviceFits(b, d, s) <=> DeviceFits(b, e, s)
        /\ \A b, s : TokenFits(b, d, s) <=> TokenFits(b, e, s)
    BY DEF DeviceFits, TokenFits, CredsOnly
  <1>7. \A k : FolderUsers(e, k) = FolderUsers(d, k)
    BY DEF FolderUsers, CredsOnly
  <1>8. \A j : Announced(e, j) = Announced(d, j)
    BY <1>7 DEF Announced, CredsOnly
  <1>9. \A of : Queried(d, of) \subseteq Queried(e, of)
    BY <1>7 DEF Queried, CredsOnly
  <1>10. GrantsHere(d) <=> GrantsHere(e)
    BY <1>1 DEF GrantsHere, CredsOnly
  <1>11. \A x \in Transaction : Affected(d, x.rows) = Affected(e, x.rows)
    BY <1>1, <1>4 DEF Affected, CredsOnly
  <1>. QED  BY <1>1, <1>4, <1>5, <1>6, <1>8, <1>9, <1>10, <1>11

LEMMA CredentialsFits ==
  ASSUME IInv, Fit, Credentials
  PROVE  Fit'
  <1>. DEFINE t == "web"
              u == session.user
              i == [UserItem(db, u, FALSE) EXCEPT !.grant = session.grant,
                                                  !.global = GlobalRead(session)]
              items == <<i>>
  <1>1. /\ ~Busy(t) /\ Request /\ (u \in db.creds \/ txn = None)
        /\ db' = [db EXCEPT !.creds = @ \cup {u}]
        /\ task' = [task EXCEPT ![t] = Agenda(items)]
        /\ broker' = broker /\ queue' = queue /\ txn' = txn /\ drift' = drift
    BY DEF Credentials
  <1>2. db \in Database /\ t \in Threads /\ (txn # None => txn \in Transaction) /\ u \in Users
    BY <1>1 DEF IInv, Types, RowsOK, Threads, Request, Session
  <1>3. CredsOnly(db, db', u) /\ (u \in db.creds => db' = db)
    BY <1>1, <1>2, CredsMade
  <1>4. items \in Seq(Item) /\ i.kind = "user" /\ i.name = u
    <2>1. task' \in [Threads -> Agendas]
      BY CredentialsStep DEF IInv, Types, TasksOK
    <2>2. task'[t] = Agenda(items)
      BY <1>1, <1>2 DEF IInv, Types, TasksOK
    <2>3. items \in Seq(Item)
      <3>1. \A x : Agenda(x) \in Agendas => x \in Seq(Item)
        BY DEF Agenda, Agendas
      <3>2. Agenda(items) \in Agendas
        BY <1>2, <2>1, <2>2
      <3>. HIDE DEF items
      <3>. QED  BY <3>1, <3>2
    <2>. QED  BY <2>3 DEF UserItem
  <1>5. Range(items) = {i}
    BY InOne
  <1>. HIDE DEF t, i, items
  <1>6. /\ \A x : x \in Work' <=> x = i \/ x \in Work
        /\ \A o \in Threads : \A s : Soiled(o, s) => Soiled(o, s)'
    <2>1. \A s : ~Soiled(t, s)
      BY <1>1 DEF Soiled
    <2>. QED  BY <1>1, <1>2, <1>4, <1>5, <2>1, Taken
  <1>7. /\ AllScanners(db') = AllScanners(db) /\ db'.deleted = db.deleted
        /\ \A n \in Users : UserFits(broker, db, n) <=> UserFits(broker, db', n)
        /\ \A s : DeviceFits(broker, db, s) <=> DeviceFits(broker, db', s)
        /\ \A s : TokenFits(broker, db, s) <=> TokenFits(broker, db', s)
        /\ \A j : Announced(db', j) = Announced(db, j)
        /\ \A of : Queried(db, of) \subseteq Queried(db', of)
        /\ GrantsHere(db) => GrantsHere(db')
    BY <1>3, CredsAlike DEF CredsOnly
  <1>8. (Early' <=> Early) /\ Hit' = Hit /\ Gone' = Gone
    <2>1. (Early' <=> Early) /\ (Early => txn # None)
      BY <1>1 DEF Early
    <2>2. txn # None => Affected(db, txn.rows) = Affected(db', txn.rows)
      BY <1>2, <1>3, CredsAlike
    <2>. QED  BY <1>1, <1>7, <2>1, <2>2 DEF Hit, Gone
  <1>9. \A n : Faced(n) => Faced(n)'
    BY <1>6 DEF Faced
  <1>10. UsersFit'
    <2>. SUFFICES ASSUME NEW n \in db'.creds, n \notin drift \cup Hit, ~UserOwed(n)'
                  PROVE  UserFits(broker, db', n)
      BY <1>1, <1>8 DEF UsersFit
    <2>1. n # u
      BY <1>4, <1>6 DEF UserOwed, Faced
    <2>2. n \in db.creds /\ n \in Users
      BY <1>2, <1>3, <2>1, Parts DEF CredsOnly
    <2>3. ~UserOwed(n)
      BY <1>1, <1>6, <1>7, <1>9, Awaits DEF UserOwed
    <2>. QED  BY <1>7, <2>2, <2>3 DEF Fit, Fits, UsersFit
  <1>11. DevicesFit'
    <2>1. \A s : DeviceOwed(s) => DeviceOwed(s)'
      BY <1>1, <1>9 DEF DeviceOwed
    <2>. QED  BY <1>1, <1>7, <1>8, <2>1 DEF Fit, Fits, DevicesFit
  <1>12. TokensFit'
    <2>1. \A s : TokenOwed(s) => TokenOwed(s)'
      BY <1>1, <1>6 DEF TokenOwed
    <2>. QED  BY <1>1, <1>7, <1>8, <2>1 DEF Fit, Fits, TokensFit
  <1>13. AllGone'
    <2>1. \A s : ForgetOwed(s) => ForgetOwed(s)'
      BY <1>1, <1>9 DEF ForgetOwed
    <2>. QED  BY <1>1, <1>7, <2>1 DEF Fit, Fits, AllGone
  <1>14. AllPoised'
    BY <1>1, <1>2, <1>4, <1>8, Taken, AllStayPoised DEF Fit
  <1>15. TxnTold'
    <2>1. txn # None => db' = db
      BY <1>1, <1>3
    <2>. QED  BY <1>1, <2>1 DEF Fit, TxnTold
  <1>16. ForgetLate'
    BY <1>1, <1>7 DEF Fit, ForgetLate
  <1>17. ForgetGone'
    BY <1>4, <1>6, <1>8 DEF Fit, ForgetGone
  <1>. QED  BY <1>1, <1>7, <1>10, <1>11, <1>12, <1>13, <1>14, <1>15, <1>16, <1>17 DEF Fit, Fits

\* Nothing but new jobs that forget nobody
LEMMA QueueFits ==
  ASSUME IInv, Fit, txn = None, NEW jobs, Plain(jobs), queue' = queue \o jobs,
         db' = db, broker' = broker, task' = task, txn' = txn, drift' = drift
  PROVE  Fit'
  <1>1. queue \in Seq(Job) /\ jobs \in Seq(Job)
    BY DEF IInv, Types, JobsOK, Plain
  <1>2. Range(queue) \subseteq Range(queue')
    BY <1>1, InBoth
  <1>3. Work' = Work /\ \A t, s : Soiled(t, s)' <=> Soiled(t, s)
    BY DEF Work, Soiled, Busy, Now
  <1>4. Hit' = Hit /\ Gone' = Gone
    BY DEF Hit, Gone, Early
  <1>5. Fits'
    <2>1. \A u : UserOwed(u) => UserOwed(u)'
      BY <1>2, <1>3, Awaits DEF UserOwed, Faced
    <2>2. /\ \A s : DeviceOwed(s) => DeviceOwed(s)'
          /\ \A s : TokenOwed(s) => TokenOwed(s)'
          /\ \A s : ForgetOwed(s) => ForgetOwed(s)'
      BY <1>2, <1>3 DEF DeviceOwed, TokenOwed, ForgetOwed, Faced
    <2>. QED  BY <1>4, <2>1, <2>2, NothingDropped DEF Fit
  <1>6. AllPoised'
    BY <1>4, StayPoised DEF Fit, AllPoised
  <1>7. ForgetLate'
    <2>. SUFFICES ASSUME NEW k \in DOMAIN queue', queue'[k].job = "forget"
                  PROVE  queue'[k].of \in db.deleted
      BY DEF ForgetLate
    <2>1. queue'[k] \in Range(queue') /\ Range(queue') = Range(queue) \cup Range(jobs)
      <3>1. queue'[k] \in Range(queue')
        BY DEF Range
      <3>. QED  BY <1>1, <3>1, InBoth
    <2>2. queue'[k] \notin Range(jobs)
      BY <1>1, InSequence DEF Plain
    <2>3. PICK l \in DOMAIN queue : queue'[k] = queue[l]
      BY <1>1, <2>1, <2>2, InSequence
    <2>. QED  BY <2>3 DEF Fit, ForgetLate
  <1>8. ForgetGone'
    BY <1>3, <1>4 DEF Fit, ForgetGone
  <1>. QED  BY <1>5, <1>6, <1>7, <1>8 DEF Fit, TxnTold

LEMMA SignInFits ==
  ASSUME IInv, Fit, SignIn
  PROVE  Fit'
  <1>. DEFINE jobs == UserSaved(db, session'.user)
  <1>1. /\ txn = None /\ txn' = txn /\ queue' = queue \o jobs
        /\ db' = db /\ broker' = broker /\ task' = task /\ drift' = drift
    BY DEF SignIn
  <1>2. session' \in Session
    BY SignedIn DEF IInv, Types, RowsOK, SignIn
  <1>3. Plain(jobs)
    <2>1. session'.user \in Users
      BY <1>2 DEF Session
    <2>. QED  BY <2>1, PlainJobs
  <1>. HIDE DEF jobs
  <1>. QED  BY <1>1, <1>3, QueueFits

LEMMA QuietFits ==
  ASSUME Fit, UNCHANGED <<db, broker, plumbing>>
  PROVE  Fit'
  <1>1. /\ db' = db /\ broker' = broker /\ queue' = queue /\ task' = task
        /\ txn' = txn /\ drift' = drift
    BY DEF plumbing
  <1>2. Work' = Work /\ \A t, s : Soiled(t, s)' <=> Soiled(t, s)
    BY <1>1 DEF Work, Soiled, Busy, Now
  <1>3. Hit' = Hit /\ Gone' = Gone
    BY <1>1 DEF Hit, Gone, Early
  <1>4. Fits'
    <2>1. \A u : UserOwed(u) => UserOwed(u)'
      BY <1>1, <1>2, Awaits DEF UserOwed, Faced
    <2>2. /\ \A s : DeviceOwed(s) => DeviceOwed(s)'
          /\ \A s : TokenOwed(s) => TokenOwed(s)'
          /\ \A s : ForgetOwed(s) => ForgetOwed(s)'
      BY <1>1, <1>2 DEF DeviceOwed, TokenOwed, ForgetOwed, Faced
    <2>. QED  BY <1>1, <1>3, <2>1, <2>2, NothingDropped DEF Fit
  <1>5. AllPoised'
    BY <1>1, <1>3, StayPoised DEF Fit, AllPoised
  <1>. QED  BY <1>1, <1>2, <1>3, <1>4, <1>5 DEF Fit, TxnTold, ForgetLate, ForgetGone

-----------------------------------------------------------------------------
(* What a command does to the broker                                       *)

\* It leaves everybody else's client alone, roles on a scanner that is gone
\* aside, and other scanners' roles.
Isolated(b, n) ==
  /\ \A m \in Names \ {n} :
       /\ m \in DOMAIN b.clients <=> m \in DOMAIN broker.clients
       /\ m \in DOMAIN broker.clients =>
            /\ b.clients[m].token = broker.clients[m].token
            /\ b.clients[m].roles \subseteq broker.clients[m].roles
            /\ \A r \in broker.clients[m].roles \ b.clients[m].roles :
                 n \in ScannerOf(r) /\ n \in Gone
  /\ \A s \in Scanners \ {n} : s \in b.roles <=> s \in broker.roles

\* It changes one client.
Touches(b, n) ==
  /\ b.roles = broker.roles
  /\ \A m : m # n => (m \in DOMAIN b.clients <=> m \in DOMAIN broker.clients)
  /\ \A m \in DOMAIN broker.clients \ {n} : b.clients[m] = broker.clients[m]

LEMMA TouchesOne ==
  ASSUME Backed(broker), DeviceOnly(broker), NEW b, NEW n, Touches(b, n),
         n \in DOMAIN b.clients =>
           /\ \A r \in b.clients[n].roles : ScannerOf(r) \subseteq broker.roles
           /\ n \in Scanners => b.clients[n].roles \subseteq {Device(n)}
  PROVE  Isolated(b, n) /\ Backed(b) /\ DeviceOnly(b)
  <1>1. Isolated(b, n)
    BY DEF Isolated, Touches
  <1>2. Backed(b)
    BY DEF Backed, Touches
  <1>3. DeviceOnly(b)
    BY DEF DeviceOnly, Touches
  <1>. QED  BY <1>1, <1>2, <1>3

LEMMA Unchanged ==
  ASSUME NEW n
  PROVE  Isolated(broker, n) /\ Touches(broker, n)
  BY DEF Isolated, Touches

LEMMA ClientAdded ==
  ASSUME broker \in BrokerType, NEW n, NEW token, NEW R
  PROVE  LET e == WithClient(n, token, R)
         IN  /\ Touches(e, n) /\ n \in DOMAIN e.clients
             /\ n \in DOMAIN broker.clients => e = broker
             /\ n \notin DOMAIN broker.clients =>
                  e.clients[n].roles = R /\ e.clients[n].token = token
  <1>. DEFINE e == WithClient(n, token, R)
              f == [m \in DOMAIN broker.clients \cup {n} |->
                      IF m = n THEN [roles |-> R, token |-> token] ELSE broker.clients[m]]
  <1>1. CASE n \in DOMAIN broker.clients
    BY <1>1 DEF WithClient, Touches
  <1>2. CASE n \notin DOMAIN broker.clients
    <2>1. e = [broker EXCEPT !.clients = f]
      BY <1>2 DEF WithClient
    <2>2. /\ DOMAIN f = DOMAIN broker.clients \cup {n}
          /\ \A m \in DOMAIN broker.clients : m # n => f[m] = broker.clients[m]
          /\ f[n].roles = R /\ f[n].token = token
      OBVIOUS
    <2>. HIDE DEF f, e
    <2>3. e.clients = f /\ e.roles = broker.roles
      BY <2>1, Clients
    <2>4. Touches(e, n)
      BY <1>2, <2>2, <2>3 DEF Touches
    <2>. QED  BY <1>2, <2>2, <2>3, <2>4 DEF e
  <1>. QED  BY <1>1, <1>2

LEMMA ClientRemoved ==
  ASSUME broker \in BrokerType, NEW n
  PROVE  LET e == WithoutClient(n) IN Touches(e, n) /\ n \notin DOMAIN e.clients
  <1>. DEFINE e == WithoutClient(n)
              f == [m \in DOMAIN broker.clients \ {n} |-> broker.clients[m]]
  <1>1. e = [broker EXCEPT !.clients = f]
    BY DEF WithoutClient
  <1>2. /\ DOMAIN f = DOMAIN broker.clients \ {n}
        /\ \A m \in DOMAIN broker.clients \ {n} : f[m] = broker.clients[m]
    OBVIOUS
  <1>. HIDE DEF f, e
  <1>3. e.clients = f /\ e.roles = broker.roles
    BY <1>1, Clients
  <1>4. Touches(e, n)
    BY <1>2, <1>3 DEF Touches
  <1>. QED  BY <1>2, <1>3, <1>4 DEF e

LEMMA ClientSet ==
  ASSUME broker \in BrokerType, NEW n \in DOMAIN broker.clients, NEW c, NEW b,
         b = [broker EXCEPT !.clients[n] = c]
  PROVE  /\ Touches(b, n) /\ DOMAIN b.clients = DOMAIN broker.clients /\ b.clients[n] = c
  <1>. DEFINE f == [broker.clients EXCEPT ![n] = c]
  <1>1. b = [broker EXCEPT !.clients = f]
    BY Clients
  <1>2. /\ DOMAIN f = DOMAIN broker.clients /\ f[n] = c
        /\ \A m \in DOMAIN broker.clients \ {n} : f[m] = broker.clients[m]
    BY Clients
  <1>. HIDE DEF f
  <1>3. b.clients = f /\ b.roles = broker.roles
    BY <1>1, Clients
  <1>. QED  BY <1>2, <1>3 DEF Touches

LEMMA PasswordGiven ==
  ASSUME broker \in BrokerType, NEW n, NEW token
  PROVE  LET e == WithPassword(n, token)
         IN  /\ Touches(e, n) /\ (n \in DOMAIN e.clients <=> n \in DOMAIN broker.clients)
             /\ n \in DOMAIN broker.clients =>
                  e.clients[n].roles = broker.clients[n].roles /\ e.clients[n].token = token
  <1>1. CASE n \in DOMAIN broker.clients
    <2>. DEFINE c == [broker.clients[n] EXCEPT !.token = token]
                e == WithPassword(n, token)
    <2>1. c.roles = broker.clients[n].roles /\ c.token = token
      BY <1>1, Clients DEF Client
    <2>2. e = [broker EXCEPT !.clients[n] = c]
      BY <1>1 DEF WithPassword
    <2>. HIDE DEF c, e
    <2>3. Touches(e, n) /\ DOMAIN e.clients = DOMAIN broker.clients /\ e.clients[n] = c
      BY <1>1, <2>2, ClientSet
    <2>. QED  BY <1>1, <2>1, <2>3 DEF e
  <1>2. CASE n \notin DOMAIN broker.clients
    BY <1>2, Unchanged DEF WithPassword
  <1>. QED  BY <1>1, <1>2

LEMMA RoleAdded ==
  ASSUME broker \in BrokerType, NEW n, NEW r
  PROVE  LET e == WithRole(n, r)
         IN  /\ Touches(e, n) /\ (n \in DOMAIN e.clients <=> n \in DOMAIN broker.clients)
             /\ n \in DOMAIN broker.clients =>
                  /\ e.clients[n].token = broker.clients[n].token
                  /\ IF ScannerOf(r) \subseteq broker.roles
                     THEN e.clients[n].roles = broker.clients[n].roles \cup {r}
                     ELSE e.clients[n].roles = broker.clients[n].roles
  <1>1. CASE n \in DOMAIN broker.clients /\ ScannerOf(r) \subseteq broker.roles
    <2>. DEFINE c == [broker.clients[n] EXCEPT !.roles = @ \cup {r}]
                e == WithRole(n, r)
    <2>1. c.roles = broker.clients[n].roles \cup {r} /\ c.token = broker.clients[n].token
      BY <1>1, Clients DEF Client
    <2>2. e = [broker EXCEPT !.clients[n] = c] /\ n \in DOMAIN broker.clients
      BY <1>1 DEF WithRole
    <2>. HIDE DEF c, e
    <2>3. Touches(e, n) /\ DOMAIN e.clients = DOMAIN broker.clients /\ e.clients[n] = c
      BY <2>2, ClientSet
    <2>. QED  BY <1>1, <2>1, <2>3 DEF e
  <1>2. CASE ~(n \in DOMAIN broker.clients /\ ScannerOf(r) \subseteq broker.roles)
    BY <1>2, Unchanged DEF WithRole
  <1>. QED  BY <1>1, <1>2

LEMMA RoleRemoved ==
  ASSUME broker \in BrokerType, NEW n, NEW r
  PROVE  LET e == WithoutRole(n, r)
         IN  /\ Touches(e, n) /\ (n \in DOMAIN e.clients <=> n \in DOMAIN broker.clients)
             /\ n \in DOMAIN broker.clients =>
                  e.clients[n].roles = broker.clients[n].roles \ {r}
  <1>1. CASE n \in DOMAIN broker.clients
    <2>. DEFINE c == [broker.clients[n] EXCEPT !.roles = @ \ {r}]
                e == WithoutRole(n, r)
    <2>1. c.roles = broker.clients[n].roles \ {r}
      BY <1>1, Clients DEF Client
    <2>2. e = [broker EXCEPT !.clients[n] = c]
      BY <1>1 DEF WithoutRole
    <2>. HIDE DEF c, e
    <2>3. Touches(e, n) /\ DOMAIN e.clients = DOMAIN broker.clients /\ e.clients[n] = c
      BY <1>1, <2>2, ClientSet
    <2>. QED  BY <1>1, <2>1, <2>3 DEF e
  <1>2. CASE n \notin DOMAIN broker.clients
    BY <1>2, Unchanged DEF WithoutRole
  <1>. QED  BY <1>1, <1>2

LEMMA ScannerRolesAdded ==
  ASSUME broker \in BrokerType, Backed(broker), DeviceOnly(broker), NEW s
  PROVE  LET e == WithScannerRoles(s)
         IN  /\ Isolated(e, s) /\ Backed(e) /\ DeviceOnly(e)
             /\ s \in e.roles /\ e.clients = broker.clients
  <1>. DEFINE e == WithScannerRoles(s)
              R == broker.roles \cup {s}
  <1>1. e = [broker EXCEPT !.roles = R]
    BY DEF WithScannerRoles
  <1>. HIDE DEF e, R
  <1>2. e.roles = R /\ e.clients = broker.clients
    BY <1>1, Clients
  <1>3. e.roles = broker.roles \cup {s}
    BY <1>2 DEF R
  <1>4. Isolated(e, s)
    BY <1>2, <1>3 DEF Isolated
  <1>5. Backed(e) /\ DeviceOnly(e)
    BY <1>2, <1>3 DEF Backed, DeviceOnly
  <1>. QED  BY <1>2, <1>3, <1>4, <1>5 DEF e

LEMMA ScannerRolesRemoved ==
  ASSUME broker \in BrokerType, Backed(broker), DeviceOnly(broker), NEW s \in Gone
  PROVE  LET e == WithoutScannerRoles(s)
         IN  /\ Isolated(e, s) /\ Backed(e) /\ DeviceOnly(e)
             /\ s \notin e.roles /\ DOMAIN e.clients = DOMAIN broker.clients
  <1>. DEFINE e == WithoutScannerRoles(s)
              C == broker.clients
              c(m) == [C[m] EXCEPT !.roles = {r \in @ : s \notin ScannerOf(r)}]
              f == [m \in DOMAIN C |-> c(m)]
  <1>1. e = [roles |-> broker.roles \ {s}, clients |-> f]
    BY DEF WithoutScannerRoles
  <1>2. \A m \in DOMAIN C : /\ c(m).roles = {r \in C[m].roles : s \notin ScannerOf(r)}
                            /\ c(m).token = C[m].token
    BY Clients DEF Client
  <1>. HIDE DEF c
  <1>3. /\ DOMAIN f = DOMAIN C
        /\ \A m \in DOMAIN C : /\ f[m].roles = {r \in C[m].roles : s \notin ScannerOf(r)}
                               /\ f[m].token = C[m].token
    BY <1>2
  <1>. HIDE DEF e, f
  <1>4. e.roles = broker.roles \ {s} /\ e.clients = f
    BY <1>1
  <1>5. Isolated(e, s)
    BY <1>3, <1>4 DEF Isolated
  <1>6. Backed(e)
    BY <1>3, <1>4 DEF Backed
  <1>7. DeviceOnly(e)
    BY <1>3, <1>4 DEF DeviceOnly
  <1>. QED  BY <1>3, <1>4, <1>5, <1>6, <1>7 DEF e

-----------------------------------------------------------------------------
(* Whom a command leaves as they were                                      *)

LEMMA OnThere ==
  ASSUME NEW d \in Database, Sound(d), NEW u, NEW r \in DesiredNow(d, u)
  PROVE  ScannerOf(r) \subseteq AllScanners(d)
  <1>. DEFINE i == UserItem(d, u, FALSE)
              held == ActiveGrants(d, u)
              rw   == UNION {GrantScanners(d, g) : g \in {h \in held : GrantOf[h].permission = "rw"}}
              all  == UNION {GrantScanners(d, g) : g \in held}
  <1>1. DesiredNow(d, u) \subseteq ({"rw"} \X rw) \cup ({"read"} \X (all \ rw))
                                     \cup {<<"read-all">>, <<"staff-all">>}
    <2>1. i.grant = None /\ i.name = u /\ DesiredNow(d, u) = Plan(d, i)
      BY DEF UserItem, DesiredNow
    <2>. HIDE DEF i
    <2>2. DesiredNow(d, u) \subseteq Desired(d, u, i.staff, None, i.global)
      BY <2>1 DEF Plan
    <2>. HIDE DEF held, rw, all
    <2>3. \A b, c : Desired(d, u, b, None, c) \subseteq
                   ({"rw"} \X rw) \cup ({"read"} \X (all \ rw))
                     \cup {<<"read-all">>, <<"staff-all">>}
      <3>1. held \cup {} = held
        OBVIOUS
      <3>. QED  BY <3>1 DEF Desired, held, rw, all
    <2>. QED  BY <2>2, <2>3
  <1>2. rw \subseteq AllScanners(d) /\ all \subseteq AllScanners(d)
    BY GrantsReach DEF ActiveGrants
  <1>. HIDE DEF rw, all
  <1>3. CASE r \in {<<"read-all">>, <<"staff-all">>}
    <2>1. Len(r) = 1
      BY <1>3
    <2>. QED  BY <2>1 DEF ScannerOf
  <1>4. CASE r \in ({"rw"} \X rw) \cup ({"read"} \X (all \ rw))
    <2>1. \E w \in {"rw", "read"}, s \in AllScanners(d) : r = <<w, s>>
      BY <1>2, <1>4
    <2>2. \A w, s : ScannerOf(<<w, s>>) = {s}
      BY DEF ScannerOf
    <2>. QED  BY <2>1, <2>2
  <1>. QED  BY <1>1, <1>3, <1>4

\* Whoever is not concerned by what was taken too early has no role on a
\* scanner that is gone, and no scanner that is there is gone.
LEMMA SafeRoles ==
  ASSUME IInv
  PROVE  /\ \A u \in Users \ Hit : \A r \in DesiredNow(db, u) : ScannerOf(r) \cap Gone = {}
         /\ \A s \in AllScanners(db) \cap Gone : s \in Hit
  <1>1. db \in Database /\ Sound(db)
    BY DEF IInv, Types, RowsOK
  <1>2. AllScanners(db) \cap db.deleted = {}
    BY <1>1 DEF Sound
  <1>3. ASSUME Early
        PROVE  /\ txn.rows \in Database /\ Sound(txn.rows)
               /\ AllScanners(txn.rows) \cap txn.rows.deleted = {}
    BY <1>3 DEF Early, IInv, Types, RowsOK, Follows, Sound
  <1>4. ASSUME NEW u \in Users \ Hit, NEW r \in DesiredNow(db, u)
        PROVE  ScannerOf(r) \cap Gone = {}
    <2>1. ScannerOf(r) \cap db.deleted = {}
      BY <1>1, <1>2, OnThere
    <2>2. ASSUME Early PROVE ScannerOf(r) \cap txn.rows.deleted = {}
      <3>1. DesiredNow(db, u) = DesiredNow(txn.rows, u)
        BY <2>2 DEF Hit, Affected
      <3>. DEFINE e == txn.rows
      <3>2. e \in Database /\ Sound(e) /\ r \in DesiredNow(e, u)
        BY <1>3, <2>2, <3>1
      <3>. HIDE DEF e
      <3>3. ScannerOf(r) \subseteq AllScanners(e)
        BY <3>2, OnThere
      <3>. QED  BY <1>3, <2>2, <3>3 DEF e
    <2>. QED  BY <2>1, <2>2 DEF Gone
  <1>5. ASSUME NEW s \in AllScanners(db) \cap Gone PROVE s \in Hit
    <2>1. Early /\ s \in txn.rows.deleted
      BY <1>2, <1>5 DEF Gone
    <2>2. s \notin AllScanners(txn.rows) /\ s \in Scanners
      BY <1>1, <1>3, <2>1, Parts
    <2>. QED  BY <2>1, <2>2 DEF Hit, Affected
  <1>. QED  BY <1>4, <1>5

\* What the rows, and what is still to come, say of a subject
Claim(m) ==
  /\ m \in db.creds => m \in drift \cup Hit \/ UserOwed(m) \/ UserFits(broker, db, m)
  /\ m \in AllScanners(db) => /\ m \in drift \cup Hit \/ DeviceOwed(m) \/ DeviceFits(broker, db, m)
                              /\ m \in drift \cup Hit \/ TokenOwed(m) \/ TokenFits(broker, db, m)
  /\ m \in db.deleted => m \in drift \/ ForgetOwed(m) \/ Forgotten(broker, m)

LEMMA Claims ==
  /\ Fits <=> \A m : Claim(m)
  /\ Fits' <=> \A m : Claim(m)'
  BY DEF Fits, Claim, UsersFit, DevicesFit, TokensFit, AllGone

LEMMA OthersKept ==
  ASSUME IInv, Fit, NEW n, CredsOnly(db, db', n), NEW b, Isolated(b, n), broker' \in {broker, b},
         queue' = queue, Hit' = Hit, Gone' = Gone, drift \ {n} \subseteq drift',
         \A x \in Work : x \in Work' \/ \A m \in Subjects(x) : m = n \/ m \in drift',
         \A o \in Threads : \A s : Soiled(o, s) => Soiled(o, s)' \/ s = n \/ s \in drift',
         NEW m, m # n
  PROVE  Claim(m)'
  <1>1. /\ db \in Database /\ db.creds \subseteq Users /\ AllScanners(db) \subseteq Scanners
        /\ db.deleted \subseteq Scanners /\ AllScanners(db) \cap db.deleted = {}
    BY Parts DEF IInv, Types, RowsOK, Sound
  <1>2. /\ AllScanners(db') = AllScanners(db) /\ db'.deleted = db.deleted
        /\ \A a : \A u \in Users : UserFits(a, db, u) <=> UserFits(a, db', u)
        /\ \A a, s : DeviceFits(a, db, s) <=> DeviceFits(a, db', s)
        /\ \A a, s : TokenFits(a, db, s) <=> TokenFits(a, db', s)
        /\ \A j : Announced(db', j) = Announced(db, j)
        /\ \A of : Queried(db, of) \subseteq Queried(db', of)
    BY CredsAlike DEF CredsOnly
  <1>3. \A x : x.kind # "query" => Subjects(x) = {x.name}
    BY DEF Subjects
  <1>4. \A x : x.kind = "query" => Subjects(x) = Queried(db, x.name)
    BY DEF Subjects
  <1>5. m \in drift => m \in drift'
    OBVIOUS
  <1>6. ASSUME m \notin drift', Faced(m) PROVE Faced(m)'
    <2>1. PICK x \in Work : x.kind # "query" /\ x.name = m
      BY <1>6 DEF Faced
    <2>2. x \in Work'
      BY <1>3, <1>6, <2>1
    <2>. QED  BY <2>1, <2>2 DEF Faced
  <1>7. ASSUME m \in Users, m \notin Hit, UserFits(broker, db, m) PROVE UserFits(broker', db, m)
    <2>1. CASE broker' = broker
      BY <1>7, <2>1
    <2>2. CASE broker' = b
      <3>1. DesiredNow(db, m) \subseteq RolesIn(b, m)
        <4>1. SUFFICES ASSUME NEW r \in DesiredNow(db, m) PROVE r \in RolesIn(b, m)
          OBVIOUS
        <4>2. r \in RolesIn(broker, m) /\ ScannerOf(r) \cap Gone = {}
          BY <1>7, SafeRoles DEF UserFits
        <4>. QED  BY <1>7, <4>2 DEF Isolated, RolesIn, Names
      <3>2. RolesIn(b, m) \subseteq RolesIn(broker, m)
        BY <1>7 DEF Isolated, RolesIn, Names
      <3>. QED  BY <1>7, <2>2, <3>1, <3>2 DEF UserFits
    <2>. QED  BY <2>1, <2>2
  <1>8. ASSUME m \in Scanners, DeviceFits(broker, db, m) PROVE DeviceFits(broker', db, m)
    <2>1. CASE broker' = broker
      BY <1>8, <2>1
    <2>2. CASE broker' = b
      <3>1. ScannerOf(Device(m)) = {m}
        BY DEF ScannerOf, Device
      <3>2. m \in b.roles /\ (m \in DOMAIN b.clients <=> m \in DOMAIN broker.clients)
        BY <1>8 DEF Isolated, DeviceFits, Names
      <3>3. ASSUME RolesIn(broker, m) = {Device(m)} PROVE RolesIn(b, m) = {Device(m)}
        BY <1>8, <3>1, <3>3 DEF Isolated, RolesIn, Names
      <3>. QED  BY <1>8, <2>2, <3>2, <3>3 DEF DeviceFits
    <2>. QED  BY <2>1, <2>2
  <1>9. ASSUME m \in Scanners, TokenFits(broker, db, m) PROVE TokenFits(broker', db, m)
    BY <1>9 DEF Isolated, TokenFits, Names
  <1>10. ASSUME m \in Scanners, Forgotten(broker, m) PROVE Forgotten(broker', m)
    BY <1>10 DEF Isolated, Forgotten, Names
  <1>11. Claim(m)
    BY Claims DEF Fit
  <1>12. ASSUME m \in db'.creds PROVE m \in drift' \cup Hit' \/ UserOwed(m)' \/ UserFits(broker', db', m)
    <2>. SUFFICES ASSUME m \notin drift' \cup Hit', ~UserOwed(m)'
                  PROVE  UserFits(broker', db', m)
      OBVIOUS
    <2>1. m \in db.creds /\ m \in Users
      BY <1>1, <1>12 DEF CredsOnly
    <2>2. m \notin Waiting(db)
      <3>1. ASSUME NEW x \in Work, x.kind = "query", m \in Queried(db, x.name) PROVE FALSE
        <4>1. x \in Work'
          BY <1>4, <3>1
        <4>. QED  BY <1>2, <3>1, <4>1, Awaits DEF UserOwed
      <3>2. \A j \in Range(queue) : m \notin Announced(db, j)
        BY <1>2, Awaits DEF UserOwed
      <3>. QED  BY <3>1, <3>2, Awaits
    <2>3. ~UserOwed(m)
      BY <1>6, <2>2 DEF UserOwed
    <2>4. UserFits(broker, db, m)
      BY <1>5, <1>11, <2>1, <2>3 DEF Claim
    <2>. QED  BY <1>2, <1>7, <2>1, <2>4
  <1>13. ASSUME m \in AllScanners(db'), m \notin drift' \cup Hit', ~DeviceOwed(m)'
         PROVE  DeviceFits(broker', db', m)
    <2>1. ~DeviceOwed(m)
      BY <1>6, <1>13 DEF DeviceOwed
    <2>2. m \in AllScanners(db) /\ m \notin drift \cup Hit
      BY <1>2, <1>5, <1>13
    <2>3. DeviceFits(broker, db, m)
      BY <1>11, <2>1, <2>2 DEF Claim
    <2>. QED  BY <1>1, <1>2, <1>8, <2>2, <2>3
  <1>14. ASSUME m \in AllScanners(db'), m \notin drift' \cup Hit', ~TokenOwed(m)'
         PROVE  TokenFits(broker', db', m)
    <2>1. ~TokenOwed(m)
      <3>1. ASSUME NEW x \in Work, x.kind = "scanner", x.name = m PROVE x \in Work'
        BY <1>3, <1>14, <3>1
      <3>. QED  BY <1>14, <3>1 DEF TokenOwed
    <2>2. m \in AllScanners(db) /\ m \notin drift \cup Hit
      BY <1>2, <1>5, <1>14
    <2>3. TokenFits(broker, db, m)
      BY <1>11, <2>1, <2>2 DEF Claim
    <2>. QED  BY <1>1, <1>2, <1>9, <2>2, <2>3
  <1>15. ASSUME m \in db'.deleted, m \notin drift', ~ForgetOwed(m)' PROVE Forgotten(broker', m)
    <2>1. ~ForgetOwed(m)
      BY <1>6, <1>15 DEF ForgetOwed
    <2>2. m \in db.deleted /\ m \notin drift
      BY <1>2, <1>5, <1>15
    <2>3. Forgotten(broker, m)
      BY <1>11, <2>1, <2>2 DEF Claim
    <2>. QED  BY <1>1, <1>10, <2>2, <2>3
  <1>. QED  BY <1>12, <1>13, <1>14, <1>15 DEF Claim

-----------------------------------------------------------------------------
(* How a command ends                                                      *)

\* The item, or the agenda, is given up, or an end that may have left its
\* subject behind
GivesUp(t, effect) ==
  /\ broker' \in {broker, effect} /\ drift \cup {Now(t).name} \subseteq drift'
  /\ \/ task'[t] = Agenda(Tail(task[t].items))
     \/ /\ task'[t] = Agenda(<<>>)
        /\ \A x \in Range(task[t].items) : Subjects(x) \subseteq drift'

GoesOn(t, effect, own, after) ==
  /\ broker' = effect /\ drift' = drift
  /\ \E a \in Answers(t, own), c \in BOOLEAN :
       /\ after[a].items = task[t].items
       /\ task'[t] = [after[a] EXCEPT !.clean = c]
       /\ c => a = own /\ after[own].clean /\ Rivals(t) = {}

Settles(t, effect, own, after, renews) ==
  /\ broker' = effect /\ task'[t] = Agenda(Tail(task[t].items))
  /\ after[own].items # task[t].items /\ after[own].clean /\ Rivals(t) = {}
  /\ Current(Now(t), after[own].want)
  /\ drift' = IF renews THEN drift \ {Now(t).name} ELSE drift

Ended(t, effect, own, after, renews) ==
  /\ \/ GivesUp(t, effect) \/ GoesOn(t, effect, own, after)
     \/ Settles(t, effect, own, after, renews)
  /\ \A o \in Threads \ {t} : task'[o] = IF o \in Rivals(t) THEN Clean(o, FALSE) ELSE task[o]
  /\ queue' = queue /\ txn' = txn

LEMMA Endings ==
  ASSUME Types, NEW t \in Threads, Busy(t), Now(t).kind # "query",
         NEW effect \in BrokerType, NEW own \in Answer, NEW after, NEW renews,
         Followed(t, own, after), Command(t, effect, own, after, renews)
  PROVE  Ended(t, effect, own, after, renews)
  <1>. DEFINE items == task[t].items
              n == Now(t).name
  <1>1. Done(t, effect, own, after)
    BY Commands
  <1>2. /\ \A o \in Threads \ {t} : task'[o] = IF o \in Rivals(t) THEN Clean(o, FALSE) ELSE task[o]
        /\ queue' = queue /\ txn' = txn
    BY <1>1 DEF Done
  <1>3. task[t] \in Agendas /\ items \in Seq(Item) /\ items # <<>> /\ Len(Tail(items)) < Len(items)
    BY Dropping DEF Types, TasksOK, Agendas, Busy
  <1>4. own \in Answers(t, own) /\ (late[Line(t)] # None => late[Line(t)] \in Answers(t, own))
    BY DEF Answers
  <1>5. ASSUME NEW a \in Answers(t, own), NEW mine \in BOOLEAN, mine => a = own,
               broker' = effect, Proceed(t, after[a], renews, mine)
        PROVE  \/ GivesUp(t, effect) \/ GoesOn(t, effect, own, after)
               \/ Settles(t, effect, own, after, renews)
    <2>. DEFINE next  == after[a]
                clean == mine /\ Rivals(t) = {} /\ next.clean
                done  == Len(next.items) < Len(items)
                new   == IF done THEN Agenda(next.items) ELSE [next EXCEPT !.clean = clean]
    <2>1. /\ task' = [o \in Threads |-> IF o = t THEN new
               ELSE IF o \in Rivals(t) THEN [task[o] EXCEPT !.clean = FALSE] ELSE task[o]]
          /\ drift' = IF done THEN Settled(t, next.want, renews, clean) ELSE drift
      BY <1>5 DEF Proceed
    <2>2. task'[t] = new
      BY <2>1
    <2>3. next \in Agendas /\ next.items \in {items, Tail(items)}
      BY DEF Followed
    <2>4. clean \in BOOLEAN /\ (clean => a = own /\ after[own].clean /\ Rivals(t) = {})
      <3>1. next.clean \in BOOLEAN
        BY <2>3 DEF Agendas
      <3>. QED  BY <1>5, <3>1
    <2>5. CASE next.items = Tail(items)
      <3>1. done
        BY <1>3, <2>5
      <3>2. task'[t] = Agenda(Tail(items)) /\ drift' = Settled(t, next.want, renews, clean)
        BY <2>1, <2>2, <2>5, <3>1
      <3>3. CASE clean /\ Current(Now(t), next.want)
        <4>1. a = own /\ after[own].clean /\ Rivals(t) = {}
          BY <2>4, <3>3
        <4>2. next.items # items
          <5>1. \A x \in Seq(Item) : x # <<>> => Tail(x) # x
            OBVIOUS
          <5>. QED  BY <1>3, <2>5, <5>1
        <4>. HIDE DEF clean
        <4>3. drift' = IF renews THEN drift \ {n} ELSE drift
          BY <3>2, <3>3 DEF Settled
        <4>4. Current(Now(t), after[own].want) /\ after[own].items # items
          BY <3>3, <4>1, <4>2
        <4>. QED  BY <1>5, <3>2, <4>1, <4>3, <4>4 DEF Settles
      <3>4. CASE ~(clean /\ Current(Now(t), next.want))
        <4>. HIDE DEF clean
        <4>1. drift' = drift \cup {n}
          BY <3>2, <3>4 DEF Settled
        <4>. QED  BY <1>5, <3>2, <4>1 DEF GivesUp
      <3>. QED  BY <3>3, <3>4
    <2>6. CASE next.items = items
      <3>1. ~done
        BY <1>3, <2>6
      <3>2. drift' = drift /\ task'[t] = [next EXCEPT !.clean = clean]
        BY <2>1, <2>2, <3>1
      <3>. HIDE DEF clean
      <3>. QED  BY <1>5, <2>4, <2>6, <3>2 DEF GoesOn
    <2>. QED  BY <2>3, <2>5, <2>6
  <1>6. CASE Exchange(t, effect, own, after, renews)
    <2>1. ASSUME Proceed(t, after[own], renews, TRUE)
          PROVE  \/ GivesUp(t, effect) \/ GoesOn(t, effect, own, after)
                 \/ Settles(t, effect, own, after, renews)
      BY <1>4, <1>5, <1>6, <2>1 DEF Exchange
    <2>2. ASSUME late[Line(t)] # None, Proceed(t, after[late[Line(t)]], renews, FALSE)
          PROVE  \/ GivesUp(t, effect) \/ GoesOn(t, effect, own, after)
                 \/ Settles(t, effect, own, after, renews)
      BY <1>4, <1>5, <1>6, <2>2 DEF Exchange
    <2>. QED  BY <1>2, <1>6, <2>1, <2>2 DEF Exchange, Ended
  <1>7. CASE Fails(t, effect, own)
    <2>1. /\ broker' \in {broker, effect}
          /\ drift' = drift \cup (IF Now(t).guarded THEN {n}
                                  ELSE UNION {Subjects(items[i]) : i \in DOMAIN items})
          /\ task'[t] = IF Now(t).guarded THEN Agenda(Tail(items)) ELSE Agenda(<<>>)
      BY <1>7 DEF Fails
    <2>2. CASE Now(t).guarded
      BY <1>2, <2>1, <2>2 DEF GivesUp, Ended
    <2>3. CASE ~Now(t).guarded
      <3>1. \A x \in Range(items) : Subjects(x) \subseteq drift'
        BY <2>1, <2>3 DEF Range
      <3>2. Now(t) \in Range(items)
        BY <1>3, InTail DEF Now
      <3>3. n \in drift'
        BY <3>1, <3>2 DEF Subjects
      <3>. QED  BY <1>2, <2>1, <2>3, <3>1, <3>3 DEF GivesUp, Ended
    <2>. QED  BY <2>2, <2>3
  <1>. QED  BY <1>6, <1>7 DEF Command

\* What a command has to do for its subject
Serves(t, effect, own, after, renews) ==
  LET i == Now(t)
      n == Now(t).name
  IN  /\ Isolated(effect, n) /\ Backed(effect) /\ DeviceOnly(effect)
      /\ CredsOnly(db, db', n) /\ (txn # None => db' = db)
      /\ \A a \in Answers(t, own) : after[a].items = task[t].items =>
           after[a].pc # "start" /\ (after[a].clean => task[t].clean)
      /\ after[own].items = task[t].items /\ after[own].clean =>
           /\ Poised(after[own], i, effect, Gone)
           /\ i.kind = "scanner" /\ ~i.password /\ TokenFits(broker, db, n) =>
                TokenFits(effect, db, n)
      /\ after[own].items # task[t].items /\ after[own].clean /\ Current(i, after[own].want) =>
           /\ task[t].clean /\ db' = db
           /\ i.kind = "user" /\ n \notin Hit => RolesIn(effect, n) = DesiredNow(db, n)
           /\ i.kind = "scanner" =>
                /\ DeviceFits(effect, db, n)
                /\ renews => TokenFits(effect, db, n)
                /\ ~renews => /\ ~i.password
                              /\ TokenFits(broker, db, n) => TokenFits(effect, db, n)
           /\ i.kind = "forget" => Forgotten(effect, n)

LEMMA PoisedApart ==
  ASSUME NEW n, NEW b, Isolated(b, n), NEW x, NEW i \in Item, i.name # n, Poised(x, i, broker, Gone)
  PROVE  Poised(x, i, b, Gone)
  <1>1. /\ i.kind = "user" => i.name \in Names
        /\ i.kind \in {"scanner", "forget"} => i.name \in Names /\ i.name \in Scanners
    BY DEF Item, Names
  <1>2. ASSUME i.kind = "user", PoisedUser(x, broker, i.name, Gone)
        PROVE  PoisedUser(x, b, i.name, Gone)
    <2>1. /\ i.name \in DOMAIN b.clients /\ i.name \in DOMAIN broker.clients
          /\ b.clients[i.name].roles \subseteq broker.clients[i.name].roles
          /\ \A r \in broker.clients[i.name].roles : ScannerOf(r) \cap Gone = {} =>
               r \in b.clients[i.name].roles
      BY <1>1, <1>2 DEF Isolated, PoisedUser
    <2>. QED  BY <1>2, <2>1 DEF PoisedUser
  <1>3. ASSUME i.kind = "scanner", PoisedScanner(x, broker, i.name, i)
        PROVE  PoisedScanner(x, b, i.name, i)
    <2>1. /\ i.name \in b.roles <=> i.name \in broker.roles
          /\ i.name \in DOMAIN b.clients <=> i.name \in DOMAIN broker.clients
          /\ i.name \in DOMAIN broker.clients =>
               b.clients[i.name].token = broker.clients[i.name].token
      BY <1>1, <1>3 DEF Isolated
    <2>. QED  BY <1>3, <2>1 DEF PoisedScanner
  <1>4. i.kind = "forget" => (i.name \in DOMAIN b.clients <=> i.name \in DOMAIN broker.clients)
    BY <1>1 DEF Isolated
  <1>. QED  BY <1>2, <1>3, <1>4 DEF Poised

\* The other threads, when t gets an answer
LEMMA Beside ==
  ASSUME Types, Fit, NEW t \in Threads, NEW effect, Isolated(effect, Now(t).name),
         broker' \in {broker, effect}, Gone' = Gone, NEW o \in Threads \ {t},
         task'[o] = IF o \in Rivals(t) THEN Clean(o, FALSE) ELSE task[o]
  PROVE  /\ task'[o].items = task[o].items
         /\ \A s : Soiled(o, s) => Soiled(o, s)'
         /\ Busy(o)' /\ task'[o].clean => Poised(task'[o], Now(o)', broker', Gone')
  <1>1. task[o] \in Agendas
    BY DEF Types, TasksOK
  <1>. DEFINE no == FALSE
              x == task'[o]
  <1>2. no \in BOOLEAN /\ ~no
    OBVIOUS
  <1>. HIDE DEF no
  <1>3. /\ Clean(o, no).items = task[o].items /\ Clean(o, no).pc = task[o].pc
        /\ Clean(o, no).clean = no
    BY <1>1, <1>2, Unclean DEF Clean
  <1>4. x = IF o \in Rivals(t) THEN Clean(o, no) ELSE task[o]
    BY DEF no
  <1>. HIDE DEF x
  <1>5. /\ x.items = task[o].items /\ x.pc = task[o].pc
        /\ x.clean => o \notin Rivals(t) /\ x = task[o]
        /\ ~task[o].clean => ~x.clean
    <2>1. CASE o \in Rivals(t)
      BY <1>2, <1>3, <1>4, <2>1
    <2>2. CASE o \notin Rivals(t)
      BY <1>4, <2>2
    <2>. QED  BY <2>1, <2>2
  <1>6. (Busy(o)' <=> Busy(o)) /\ Now(o)' = Now(o)
    BY <1>5 DEF Busy, Now, x
  <1>7. \A s : Soiled(o, s) => Soiled(o, s)'
    BY <1>5, <1>6 DEF Soiled, x
  <1>8. ASSUME Busy(o)', x.clean PROVE Poised(x, Now(o), broker', Gone)
    <2>1. x = task[o] /\ o \notin Rivals(t) /\ Busy(o)
      BY <1>5, <1>6, <1>8
    <2>2. Poised(x, Now(o), broker, Gone)
      BY <1>8, <2>1 DEF Fit, AllPoised
    <2>3. CASE broker' = broker
      BY <2>2, <2>3
    <2>4. CASE broker' = effect /\ Now(o).name # Now(t).name
      BY <2>1, <2>2, <2>4, Moves, PoisedApart
    <2>5. CASE Now(o).name = Now(t).name
      <3>1. x.pc = "start"
        BY <2>1, <2>5 DEF Rivals
      <3>. QED  BY <3>1, AtStart
    <2>. QED  BY <2>3, <2>4, <2>5
  <1>. QED  BY <1>5, <1>6, <1>7, <1>8 DEF x

\* What a command leaves as it was, whichever way it ends
LEMMA CommandFrame ==
  ASSUME IInv, Fit, NEW t \in Threads, Busy(t), Now(t).kind # "query",
         NEW effect, NEW own, NEW after, NEW renews, Followed(t, own, after),
         Ended(t, effect, own, after, renews), Serves(t, effect, own, after, renews)
  PROVE  /\ Hit' = Hit /\ Gone' = Gone
         /\ \A x \in Range(task'[t].items) : x \in Range(task[t].items)
         /\ Backed(broker') /\ DeviceOnly(broker') /\ GrantsHere(db') /\ TxnTold' /\ ForgetLate'
         /\ ForgetGone'
         /\ \A o \in Threads \ {t} :
              /\ task'[o].items = task[o].items
              /\ \A s : Soiled(o, s) => Soiled(o, s)'
              /\ Busy(o)' /\ task'[o].clean => Poised(task'[o], Now(o)', broker', Gone')
  <1>. DEFINE items == task[t].items
              n == Now(t).name
  <1>1. /\ Isolated(effect, n) /\ Backed(effect) /\ DeviceOnly(effect)
        /\ CredsOnly(db, db', n) /\ (txn # None => db' = db)
    BY DEF Serves
  <1>2. /\ broker' \in {broker, effect} /\ queue' = queue /\ txn' = txn
        /\ \A o \in Threads \ {t} : task'[o] = IF o \in Rivals(t) THEN Clean(o, FALSE) ELSE task[o]
    BY DEF Ended, GivesUp, GoesOn, Settles
  <1>3. (Early' <=> Early) /\ Hit' = Hit /\ Gone' = Gone
    <2>1. (Early' <=> Early) /\ (Early => txn # None)
      BY <1>2 DEF Early
    <2>2. txn # None => txn \in Transaction
      BY DEF IInv, Types, RowsOK
    <2>3. db'.deleted = db.deleted
      BY <1>1 DEF CredsOnly
    <2>4. txn # None => Affected(db, txn.rows) = Affected(db', txn.rows)
      BY <1>1, <2>2, CredsAlike
    <2>. QED  BY <1>2, <2>1, <2>3, <2>4 DEF Hit, Gone
  <1>4. task[t] \in Agendas /\ items \in Seq(Item) /\ items # <<>>
        /\ Range(items) = {Now(t)} \cup Range(Tail(items))
    <2>1. task[t] \in Agendas /\ items \in Seq(Item) /\ items # <<>>
      BY DEF IInv, Types, TasksOK, Agendas, Busy
    <2>. QED  BY <2>1, InTail DEF Now
  <1>5. \A x \in Range(task'[t].items) : x \in Range(items)
    <2>1. \A its : Agenda(its).items = its
      BY DEF Agenda
    <2>2. CASE task'[t] = Agenda(Tail(items))
      BY <1>4, <2>1, <2>2
    <2>3. CASE task'[t] = Agenda(<<>>)
      BY <2>1, <2>3, InOne
    <2>4. ASSUME NEW a \in Answers(t, own), NEW c \in BOOLEAN, after[a].items = items,
                 task'[t] = [after[a] EXCEPT !.clean = c]
          PROVE  task'[t].items = items
      <3>1. after[a] \in Agendas
        BY DEF Followed
      <3>. QED  BY <2>4, <3>1, Unclean
    <2>5. CASE GoesOn(t, effect, own, after)
      BY <2>4, <2>5 DEF GoesOn
    <2>. QED  BY <2>2, <2>3, <2>5 DEF Ended, GivesUp, Settles
  <1>6. \A o \in Threads \ {t} :
              /\ task'[o].items = task[o].items
              /\ \A s : Soiled(o, s) => Soiled(o, s)'
              /\ Busy(o)' /\ task'[o].clean => Poised(task'[o], Now(o)', broker', Gone')
    BY <1>1, <1>2, <1>3, Beside DEF IInv
  <1>7. \A x \in Work' : x \in Work
    BY <1>5, <1>6, Works
  <1>8. ForgetGone'
    BY <1>3, <1>7 DEF Fit, ForgetGone
  <1>9. Backed(broker') /\ DeviceOnly(broker')
    BY <1>1, <1>2 DEF Fit
  <1>10. GrantsHere(db')
    BY <1>1, CredsAlike DEF Fit
  <1>11. TxnTold'
    BY <1>1, <1>2 DEF Fit, TxnTold
  <1>12. ForgetLate'
    <2>1. db'.deleted = db.deleted
      BY <1>1 DEF CredsOnly
    <2>. QED  BY <1>2, <2>1 DEF Fit, ForgetLate
  <1>. QED  BY <1>3, <1>5, <1>6, <1>8, <1>9, <1>10, <1>11, <1>12

LEMMA FitFrom ==
  ASSUME \A m : Claim(m)', AllPoised', Backed(broker'), DeviceOnly(broker'), GrantsHere(db'),
         TxnTold', ForgetLate', ForgetGone'
  PROVE  Fit'
  BY Claims DEF Fit

\* A command that is under way, or over
Under(t, effect, own, after, renews) ==
  /\ Busy(t) /\ Now(t).kind # "query" /\ Followed(t, own, after)
  /\ Ended(t, effect, own, after, renews) /\ Serves(t, effect, own, after, renews)

LEMMA FreshStart ==
  ASSUME IInv, NEW t \in Threads, NEW items, task'[t] = Agenda(items)
  PROVE  /\ task'[t].items = items /\ task'[t].pc = "start"
         /\ \A s : ~Soiled(t, s)'
         /\ \A b, D : Poised(task'[t], Now(t)', b, D)
  <1>1. task'[t].items = items /\ task'[t].pc = "start"
    BY DEF Agenda
  <1>2. \A s : ~Soiled(t, s)'
    BY <1>1 DEF Soiled
  <1>. QED  BY <1>1, <1>2, AtStart

LEMMA GivesUpFits ==
  ASSUME IInv, Fit, NEW t \in Threads, NEW effect, NEW own, NEW after, NEW renews,
         Under(t, effect, own, after, renews), GivesUp(t, effect)
  PROVE  Fit'
  <1>. PICK n : n = Now(t).name
    OBVIOUS
  <1>. DEFINE items == task[t].items
  <1>1. /\ Hit' = Hit /\ Gone' = Gone
        /\ Backed(broker') /\ DeviceOnly(broker') /\ GrantsHere(db') /\ TxnTold' /\ ForgetLate'
        /\ ForgetGone'
        /\ \A o \in Threads \ {t} :
              /\ task'[o].items = task[o].items
              /\ \A s : Soiled(o, s) => Soiled(o, s)'
              /\ Busy(o)' /\ task'[o].clean => Poised(task'[o], Now(o)', broker', Gone')
    BY CommandFrame DEF Under
  <1>2. /\ broker' \in {broker, effect} /\ drift \cup {n} \subseteq drift' /\ queue' = queue
        /\ Isolated(effect, n) /\ CredsOnly(db, db', n)
    BY DEF GivesUp, Under, Ended, Serves
  <1>3. /\ items \in Seq(Item) /\ items # <<>>
        /\ Range(items) = {Now(t)} \cup Range(Tail(items))
    <2>1. items \in Seq(Item) /\ items # <<>>
      BY DEF Under, IInv, Types, TasksOK, Agendas, Busy
    <2>. QED  BY <2>1, InTail DEF Now
  <1>4. PICK its : /\ task'[t] = Agenda(its)
                   /\ \/ its = Tail(items)
                      \/ \A x \in Range(items) : Subjects(x) \subseteq drift'
    BY DEF GivesUp
  <1>5. /\ task'[t].items = its /\ task'[t].pc = "start" /\ (\A s : ~Soiled(t, s)')
        /\ \A b, D : Poised(task'[t], Now(t)', b, D)
    BY <1>4, FreshStart
  <1>6. Subjects(Now(t)) = {n}
    BY DEF Subjects, Under
  <1>7. ASSUME NEW x \in Work, x \notin Work' PROVE Subjects(x) \subseteq drift'
    <2>1. PICK o \in Threads : x \in Range(task[o].items)
      BY Works
    <2>2. o = t
      BY <1>1, <1>7, <2>1, Works
    <2>3. CASE its = Tail(items)
      <3>1. x = Now(t)
        BY <1>3, <1>5, <1>7, <2>1, <2>2, <2>3, Works
      <3>. QED  BY <1>2, <1>6, <3>1
    <2>4. CASE \A y \in Range(items) : Subjects(y) \subseteq drift'
      BY <2>1, <2>2, <2>4
    <2>. QED  BY <1>4, <2>3, <2>4
  <1>8. \A x \in Work : x \in Work' \/ \A m \in Subjects(x) : m = n \/ m \in drift'
    BY <1>7
  <1>9. \A o \in Threads : \A s : Soiled(o, s) => Soiled(o, s)' \/ s = n \/ s \in drift'
    <2>1. \A s : Soiled(t, s) => s = n
      BY DEF Soiled
    <2>. QED  BY <1>1, <2>1
  <1>10. ASSUME NEW m, m # n PROVE Claim(m)'
    BY <1>1, <1>2, <1>8, <1>9, <1>10, OthersKept
  <1>11. Claim(n)'
    BY <1>2 DEF Claim
  <1>12. AllPoised'
    <2>1. ASSUME NEW o \in Threads
          PROVE  Busy(o)' /\ task'[o].clean => Poised(task'[o], Now(o)', broker', Gone')
      BY <1>1, <1>5
    <2>. QED  BY <2>1 DEF AllPoised
  <1>. QED  BY <1>1, <1>10, <1>11, <1>12, FitFrom

LEMMA GoesOnFits ==
  ASSUME IInv, Fit, NEW t \in Threads, NEW effect, NEW own, NEW after, NEW renews,
         Under(t, effect, own, after, renews), GoesOn(t, effect, own, after)
  PROVE  Fit'
  <1>. PICK n : n = Now(t).name
    OBVIOUS
  <1>. DEFINE items == task[t].items
  <1>1. /\ Hit' = Hit /\ Gone' = Gone
        /\ Backed(broker') /\ DeviceOnly(broker') /\ GrantsHere(db') /\ TxnTold' /\ ForgetLate'
        /\ ForgetGone'
        /\ \A o \in Threads \ {t} :
              /\ task'[o].items = task[o].items
              /\ \A s : Soiled(o, s) => Soiled(o, s)'
              /\ Busy(o)' /\ task'[o].clean => Poised(task'[o], Now(o)', broker', Gone')
    BY CommandFrame DEF Under
  <1>2. /\ broker' = effect /\ drift' = drift /\ queue' = queue
        /\ Isolated(effect, n) /\ CredsOnly(db, db', n)
    BY DEF GoesOn, Under, Ended, Serves
  <1>3. PICK a \in Answers(t, own), c \in BOOLEAN :
           /\ after[a].items = items /\ task'[t] = [after[a] EXCEPT !.clean = c]
           /\ c => a = own /\ after[own].clean /\ Rivals(t) = {}
    BY DEF GoesOn
  <1>. DEFINE x == after[a]
              y == task'[t]
  <1>4. /\ x.pc # "start" /\ (x.clean => task[t].clean) /\ x \in Agendas
        /\ a = own /\ x.clean =>
             /\ Poised(x, Now(t), effect, Gone)
             /\ Now(t).kind = "scanner" /\ ~Now(t).password /\ TokenFits(broker, db, n) =>
                  TokenFits(effect, db, n)
    BY <1>3 DEF Under, Serves, Followed
  <1>5. /\ y.items = items /\ y.pc = x.pc /\ y.add = x.add /\ y.remove = x.remove
        /\ y.want = x.want /\ y.clean = c
    <2>. HIDE DEF x
    <2>. QED  BY <1>3, <1>4, Unclean DEF x
  <1>6. \A i, b, D : Poised(x, i, b, D) => Poised(y, i, b, D)
    <2>. HIDE DEF x, y
    <2>1. \A i, b, D : PoisedUser(x, b, i, D) => PoisedUser(y, b, i, D)
      BY <1>5 DEF PoisedUser
    <2>2. \A i, b, m : PoisedScanner(x, b, m, i) => PoisedScanner(y, b, m, i)
      BY <1>5 DEF PoisedScanner
    <2>. QED  BY <1>5, <2>1, <2>2 DEF Poised
  <1>. HIDE DEF x
  <1>7. Busy(t)' /\ Now(t)' = Now(t)
    <2>1. Busy(t)
      BY DEF Under
    <2>. QED  BY <1>5, <2>1 DEF Busy, Now
  <1>8. Work' = Work
    <2>1. \A o \in Threads : Range(task'[o].items) = Range(task[o].items)
      BY <1>1, <1>5
    <2>. QED  BY <2>1 DEF Work
  <1>9. \A s : Soiled(t, s) => Soiled(t, s)'
    <2>1. c => task[t].clean
      BY <1>3, <1>4 DEF x
    <2>. QED  BY <1>4, <1>5, <1>7, <2>1 DEF Soiled
  <1>10. ASSUME NEW m, m # n PROVE Claim(m)'
    <2>1. \A o \in Threads : \A s : Soiled(o, s) => Soiled(o, s)'
      BY <1>1, <1>9
    <2>. QED  BY <1>1, <1>2, <1>8, <1>10, <2>1, OthersKept
  <1>11. Claim(n)'
    <2>1. Now(t) \in Work /\ Now(t).kind # "query"
      <3>1. Now(t) \in Range(items)
        <4>1. items \in Seq(Item) /\ items # <<>>
          BY DEF Under, IInv, Types, TasksOK, Agendas, Busy
        <4>. QED  BY <4>1, InTail DEF Now
      <3>. QED  BY <3>1, Works DEF Under
    <2>2. Faced(n)'
      BY <1>8, <2>1 DEF Faced
    <2>3. UserOwed(n)' /\ DeviceOwed(n)' /\ ForgetOwed(n)'
      BY <2>2 DEF UserOwed, DeviceOwed, ForgetOwed
    <2>4. ASSUME n \in AllScanners(db'), n \notin drift' \cup Hit', ~TokenOwed(n)'
          PROVE  TokenFits(broker', db', n)
      <3>1. db \in Database /\ AllScanners(db') = AllScanners(db) /\ n \in Scanners
        <4>1. db \in Database /\ AllScanners(db') = AllScanners(db)
          BY <1>2, CredsAlike DEF IInv, Types, RowsOK
        <4>. QED  BY <2>4, <4>1, Parts
      <3>2. Now(t) \in Item
        BY Moves DEF Under, IInv
      <3>3. Now(t).kind # "user"
        BY <3>1, <3>2 DEF Item
      <3>4. CASE Now(t).kind = "forget"
        <4>1. n \in Gone
          BY <2>1, <3>4 DEF Fit, ForgetGone
        <4>. QED  BY <1>1, <2>4, <3>1, <4>1, SafeRoles
      <3>5. CASE Now(t).kind = "scanner"
        <4>1. ~Now(t).password
          BY <1>8, <2>1, <2>4, <3>5 DEF TokenOwed
        <4>2. c
          <5>1. ~Soiled(t, n)'
            BY <2>4 DEF TokenOwed
          <5>. QED  BY <1>4, <1>5, <1>7, <3>5, <5>1 DEF Soiled
        <4>3. ~TokenOwed(n)
          <5>1. \A o \in Threads : Soiled(o, n) => Soiled(o, n)'
            BY <1>1, <1>9
          <5>. QED  BY <1>2, <1>8, <2>4, <5>1 DEF TokenOwed
        <4>4. TokenFits(broker, db, n)
          BY <1>1, <1>2, <2>4, <3>1, <4>3 DEF Fit, Fits, TokensFit
        <4>5. TokenFits(effect, db, n)
          BY <1>3, <1>4, <3>5, <4>1, <4>2, <4>4 DEF x
        <4>. QED  BY <1>2, <4>5, CredsAlike
      <3>. QED  BY <2>1, <3>2, <3>3, <3>4, <3>5 DEF Item
    <2>. QED  BY <2>3, <2>4 DEF Claim
  <1>12. AllPoised'
    <2>1. c => Poised(y, Now(t), broker', Gone')
      BY <1>1, <1>2, <1>3, <1>4, <1>6 DEF x
    <2>2. ASSUME NEW o \in Threads
          PROVE  Busy(o)' /\ task'[o].clean => Poised(task'[o], Now(o)', broker', Gone')
      <3>1. CASE o = t
        BY <1>5, <1>7, <2>1, <3>1
      <3>2. CASE o # t
        BY <1>1, <3>2
      <3>. QED  BY <3>1, <3>2
    <2>. QED  BY <2>2 DEF AllPoised
  <1>. QED  BY <1>1, <1>10, <1>11, <1>12, FitFrom

LEMMA SettlesFits ==
  ASSUME IInv, Fit, NEW t \in Threads, NEW effect, NEW own, NEW after, NEW renews,
         Under(t, effect, own, after, renews), Settles(t, effect, own, after, renews)
  PROVE  Fit'
  <1>. PICK n : n = Now(t).name
    OBVIOUS
  <1>. DEFINE i == Now(t)
              items == task[t].items
  <1>1. /\ Hit' = Hit /\ Gone' = Gone
        /\ Backed(broker') /\ DeviceOnly(broker') /\ GrantsHere(db') /\ TxnTold' /\ ForgetLate'
        /\ ForgetGone'
        /\ \A o \in Threads \ {t} :
              /\ task'[o].items = task[o].items
              /\ \A s : Soiled(o, s) => Soiled(o, s)'
              /\ Busy(o)' /\ task'[o].clean => Poised(task'[o], Now(o)', broker', Gone')
    BY CommandFrame DEF Under
  <1>2. /\ broker' = effect /\ queue' = queue /\ Isolated(effect, n) /\ CredsOnly(db, db', n)
        /\ task'[t] = Agenda(Tail(items)) /\ Rivals(t) = {} /\ Current(i, after[own].want)
        /\ drift' = IF renews THEN drift \ {n} ELSE drift
        /\ i.kind # "query"
    BY DEF Settles, Under, Ended, Serves
  <1>3. /\ task[t].clean /\ db' = db
        /\ i.kind = "user" /\ n \notin Hit => UserFits(effect, db, n)
        /\ i.kind = "scanner" =>
             /\ DeviceFits(effect, db, n)
             /\ renews => TokenFits(effect, db, n)
             /\ ~renews => /\ ~i.password
                           /\ TokenFits(broker, db, n) => TokenFits(effect, db, n)
        /\ i.kind = "forget" => Forgotten(effect, n)
    BY DEF Settles, Under, Serves, UserFits
  <1>4. /\ items \in Seq(Item) /\ items # <<>>
        /\ Range(items) = {i} \cup Range(Tail(items))
    <2>1. items \in Seq(Item) /\ items # <<>>
      BY DEF Under, IInv, Types, TasksOK, Agendas, Busy
    <2>. QED  BY <2>1, InTail DEF Now
  <1>5. /\ task'[t].items = Tail(items) /\ task'[t].pc = "start" /\ (\A s : ~Soiled(t, s)')
        /\ \A b, D : Poised(task'[t], Now(t)', b, D)
    BY <1>2, FreshStart
  <1>6. Subjects(i) = {n}
    BY <1>2 DEF Subjects
  <1>7. ASSUME NEW x \in Work, x \notin Work' PROVE x = i
    <2>1. PICK o \in Threads : x \in Range(task[o].items)
      BY Works
    <2>2. o = t
      BY <1>1, <1>7, <2>1, Works
    <2>. QED  BY <1>4, <1>5, <1>7, <2>1, <2>2, Works
  <1>8. \A x \in Work : x \in Work' \/ \A m \in Subjects(x) : m = n \/ m \in drift'
    BY <1>6, <1>7
  <1>9. \A s : ~Soiled(t, s)
    BY <1>3 DEF Soiled
  <1>10. \A o \in Threads : \A s : Soiled(o, s) => Soiled(o, s)' \/ s = n \/ s \in drift'
    BY <1>1, <1>9
  <1>11. drift \ {n} \subseteq drift'
    BY <1>2
  <1>12. ASSUME NEW m, m # n PROVE Claim(m)'
    BY <1>1, <1>2, <1>8, <1>10, <1>11, <1>12, OthersKept
  <1>13. db \in Database /\ i \in Item /\ AllScanners(db) \subseteq Scanners /\ db.creds \subseteq Users
         /\ db.deleted \subseteq Scanners /\ AllScanners(db) \cap db.deleted = {}
    <2>1. db \in Database /\ Sound(db)
      BY DEF IInv, Types, RowsOK
    <2>. QED  BY <2>1, Moves, Parts DEF Under, IInv, Sound
  <1>14. CASE i.kind = "user"
    <2>1. n \in Users /\ n \notin AllScanners(db) /\ n \notin db.deleted
      BY <1>13, <1>14 DEF Item
    <2>. QED  BY <1>1, <1>2, <1>3, <1>12, <1>14, <2>1, <1>5, FitFrom DEF Claim, AllPoised
  <1>15. CASE i.kind = "scanner"
    <2>1. n \in Scanners /\ n \notin db.creds /\ n \in AllScanners(db) /\ n \notin db.deleted
      <3>1. n \in Scanners /\ n \notin Users
        BY <1>13, <1>15 DEF Item
      <3>. QED  BY <1>2, <1>13, <1>15, <3>1 DEF Current, InDb
    <2>2. ASSUME n \notin drift' \cup Hit', ~TokenOwed(n)' PROVE TokenFits(effect, db, n)
      <3>1. CASE renews
        BY <1>3, <1>15, <3>1
      <3>2. CASE ~renews
        <4>1. ~TokenOwed(n)
          <5>1. \A o \in Threads : Soiled(o, n) => Soiled(o, n)'
            BY <1>1, <1>9
          <5>2. \A x \in Work : x.kind = "scanner" /\ x.password => x \in Work'
            BY <1>3, <1>7, <1>15, <3>2
          <5>. QED  BY <1>2, <2>2, <5>1, <5>2 DEF TokenOwed
        <4>2. TokenFits(broker, db, n)
          BY <1>1, <1>2, <2>1, <2>2, <3>2, <4>1 DEF Fit, Fits, TokensFit
        <4>. QED  BY <1>3, <1>15, <3>2, <4>2
      <3>. QED  BY <3>1, <3>2
    <2>3. Claim(n)'
      BY <1>2, <1>3, <1>15, <2>1, <2>2 DEF Claim
    <2>. QED  BY <1>1, <1>5, <1>12, <2>3, FitFrom DEF AllPoised
  <1>16. CASE i.kind = "forget"
    <2>1. n \in Scanners /\ n \notin db.creds /\ n \notin AllScanners(db)
      <3>1. n \in Scanners /\ n \notin Users
        BY <1>13, <1>16 DEF Item
      <3>. QED  BY <1>2, <1>13, <1>16, <3>1 DEF Current, InDb
    <2>2. Claim(n)'
      BY <1>2, <1>3, <1>16, <2>1 DEF Claim
    <2>. QED  BY <1>1, <1>5, <1>12, <2>2, FitFrom DEF AllPoised
  <1>. QED  BY <1>2, <1>13, <1>14, <1>15, <1>16 DEF Item

LEMMA CommandFits ==
  ASSUME IInv, Fit, NEW t \in Threads, NEW effect, NEW own, NEW after, NEW renews,
         Under(t, effect, own, after, renews)
  PROVE  Fit'
  BY GivesUpFits, GoesOnFits, SettlesFits DEF Under, Ended

-----------------------------------------------------------------------------
(* What each command has to do for its subject                             *)

\* A thread that is clean stays so, if the roles it has to add are there, and
\* works towards what the rows asked for.
Aims(t, own, after) ==
  /\ task[t].clean /\ (At(t, "user", "diff") => \A r \in task[t].add : ScannerOf(r) \subseteq broker.roles) =>
       after[own].clean
  /\ Now(t).kind = "user" /\ (after[own].items # task[t].items \/ after[own].pc = "diff") =>
       after[own].want = IF task[t].pc = "diff" THEN task[t].want ELSE Plan(db, Now(t))

\* A command of t, and what is known of it
Ready(t, effect, own, after, renews) ==
  /\ Busy(t) /\ Now(t).kind # "query" /\ session' = session
  /\ Now(t).kind # "user" \/ Now(t).name \in db.creds => db' = db
  /\ effect \in BrokerType /\ own \in Answer /\ Followed(t, own, after)
  /\ Command(t, effect, own, after, renews)
  /\ Serves(t, effect, own, after, renews) /\ Aims(t, own, after)

LEMMA AnyAnswer ==
  ASSUME NEW t, NEW own, NEW state
  PROVE  \A a \in Answers(t, own) : Whatever(t, own, state)[a] = state
  BY DEF Whatever

LEMMA OneState ==
  ASSUME NEW t, NEW own \in Answer, NEW after, NEW state \in Agendas,
         \A a \in Answers(t, own) : after[a] = state,
         state.items \in {task[t].items, Tail(task[t].items)}
  PROVE  /\ Followed(t, own, after)
         /\ /\ state.clean = task[t].clean
            /\ Now(t).kind = "user" => state.items = task[t].items /\ state.pc # "diff"
            => Aims(t, own, after)
  <1>1. own \in Answers(t, own)
    BY DEF Answers
  <1>. QED  BY <1>1 DEF Followed, Aims

\* The command leaves the thread at its item, and does not settle it.
LEMMA ServesOn ==
  ASSUME NEW t, NEW effect, NEW own \in Answer, NEW after, NEW renews, NEW state,
         state.items = task[t].items, state.pc # "start", state.clean => task[t].clean,
         \A a \in Answers(t, own) : after[a] = state,
         Isolated(effect, Now(t).name), Backed(effect), DeviceOnly(effect),
         CredsOnly(db, db', Now(t).name), txn # None => db' = db,
         state.clean =>
           /\ Poised(state, Now(t), effect, Gone)
           /\ Now(t).kind = "scanner" /\ ~Now(t).password /\ TokenFits(broker, db, Now(t).name) =>
                TokenFits(effect, db, Now(t).name)
  PROVE  Serves(t, effect, own, after, renews)
  <1>1. own \in Answers(t, own)
    BY DEF Answers
  <1>. QED  BY <1>1 DEF Serves

\* The command is its item's last.
LEMMA ServesEnd ==
  ASSUME NEW t, NEW effect, NEW own \in Answer, NEW after, NEW renews \in BOOLEAN, NEW state,
         state.items # task[t].items, state.clean => task[t].clean, db' = db, db \in Database,
         \A a \in Answers(t, own) : after[a] = state,
         Isolated(effect, Now(t).name), Backed(effect), DeviceOnly(effect),
         Now(t).kind \in {"user", "scanner", "forget"},
         state.clean /\ Current(Now(t), state.want) =>
           /\ Now(t).kind = "user" /\ Now(t).name \notin Hit =>
                RolesIn(effect, Now(t).name) = DesiredNow(db, Now(t).name)
           /\ Now(t).kind = "scanner" =>
                /\ DeviceFits(effect, db, Now(t).name)
                /\ renews => TokenFits(effect, db, Now(t).name)
                /\ ~renews => /\ ~Now(t).password
                              /\ TokenFits(broker, db, Now(t).name) =>
                                   TokenFits(effect, db, Now(t).name)
           /\ Now(t).kind = "forget" => Forgotten(effect, Now(t).name)
  PROVE  Serves(t, effect, own, after, renews)
  <1>1. own \in Answers(t, own)
    BY DEF Answers
  <1>2. CredsOnly(db, db', Now(t).name)
    BY CredsMade
  <1>. QED  BY <1>1, <1>2 DEF Serves

LEMMA UserClientReady ==
  ASSUME Types, Fit, NEW t \in Threads, UserClient(t)
  PROVE  \E effect, own, after, renews : Ready(t, effect, own, after, renews)
  <1>. DEFINE u      == Now(t).name
              own    == IF u \in DOMAIN broker.clients THEN Exists ELSE Ok
              effect == WithClient(u, 0, {})
              after  == Whatever(t, own, Goto(t, "get"))
              yes    == TRUE
  <1>1. /\ At(t, "user", "start") /\ Busy(t) /\ Now(t).kind = "user" /\ session' = session
        /\ Command(t, effect, own, after, yes)
    BY DEF UserClient, At
  <1>2. Now(t) \in Item /\ u \in Users /\ u \notin Scanners
    BY <1>1, Moves, About DEF Types, RowsOK
  <1>3. own \in Answer
    BY Replies
  <1>4. /\ db' = [db EXCEPT !.creds = @ \cup {u}] /\ (u \in db.creds \/ txn = None)
    BY DEF UserClient
  <1>5. CredsOnly(db, db', u) /\ (txn # None => db' = db) /\ (u \in db.creds => db' = db)
    BY <1>4, CredsMade DEF Types, RowsOK
  <1>6. broker \in BrokerType /\ Backed(broker) /\ DeviceOnly(broker)
    BY DEF Types, BrokerOK, Fit
  <1>7. /\ Touches(effect, u) /\ u \in DOMAIN effect.clients
        /\ u \in DOMAIN broker.clients => effect = broker
        /\ u \notin DOMAIN broker.clients => effect.clients[u].roles = {}
    <2>. DEFINE none == {}
                zero == 0
    <2>. HIDE DEF none, zero
    <2>1. LET e == WithClient(u, zero, none)
          IN  /\ Touches(e, u) /\ u \in DOMAIN e.clients
              /\ u \in DOMAIN broker.clients => e = broker
              /\ u \notin DOMAIN broker.clients =>
                   e.clients[u].roles = none /\ e.clients[u].token = zero
      BY <1>6, ClientAdded
    <2>. QED  BY <2>1 DEF none, zero
  <1>8. effect \in BrokerType
    BY <1>2, <1>6, ClientMade DEF Names, Allowed
  <1>. HIDE DEF own, effect, after, yes
  <1>9. Isolated(effect, u) /\ Backed(effect) /\ DeviceOnly(effect)
    BY <1>2, <1>6, <1>7, TouchesOne DEF Backed
  <1>. DEFINE state == Goto(t, "get")
  <1>10. /\ state.items = task[t].items /\ state.pc = "get" /\ state.clean = task[t].clean
         /\ state \in Agendas
    BY <1>1, Moves
  <1>11. \A a \in Answers(t, own) : after[a] = state
    BY AnyAnswer DEF after
  <1>. HIDE DEF state
  <1>12. Poised(state, Now(t), effect, Gone)
    BY <1>1, <1>7, <1>10 DEF Poised, PoisedUser
  <1>13. Serves(t, effect, own, after, yes)
    BY <1>1, <1>3, <1>5, <1>9, <1>10, <1>11, <1>12, ServesOn
  <1>14. Followed(t, own, after) /\ Aims(t, own, after)
    BY <1>3, <1>10, <1>11, OneState
  <1>. QED  BY <1>1, <1>3, <1>5, <1>8, <1>13, <1>14 DEF Ready

LEMMA RestKeeps ==
  ASSUME Types, NEW t \in Threads, Busy(t)
  PROVE  /\ Rest(t).pc = task[t].pc /\ Rest(t).add = task[t].add
         /\ Rest(t).remove = task[t].remove /\ Rest(t).want = task[t].want
         /\ Rest(t).clean = task[t].clean
  <1>. DEFINE x == task[t]
              its == Tail(x.items)
  <1>1. Rest(t) = [x EXCEPT !.items = its] /\ x \in Agendas
    BY Moves DEF Rest
  <1>. HIDE DEF x, its
  <1>2. /\ Rest(t).pc = x.pc /\ Rest(t).add = x.add /\ Rest(t).remove = x.remove
        /\ Rest(t).want = x.want /\ Rest(t).clean = x.clean
    BY <1>1 DEF Agendas
  <1>. QED  BY <1>2 DEF x

LEMMA UserRolesReady ==
  ASSUME IInv, Fit, NEW t \in Threads, UserRoles(t)
  PROVE  \E effect, own, after, renews : Ready(t, effect, own, after, renews)
  <1>. DEFINE n     == Now(t).name
              want  == Plan(db, Now(t))
              own   == [kind |-> "data", roles |-> RolesOf(n)]
              equal == [Rest(t) EXCEPT !.want = want]
              diff(a) == [Goto(t, "diff") EXCEPT !.want = want, !.add = want \ a.roles,
                                                 !.remove = a.roles \ want]
              after == [a \in Answers(t, own) |-> IF a.roles = want THEN equal ELSE diff(a)]
              yes   == TRUE
  <1>1. /\ At(t, "user", "get") /\ Busy(t) /\ Now(t).kind = "user" /\ task[t].pc = "get"
        /\ Command(t, broker, own, after, yes) /\ session' = session /\ db' = db
    BY DEF UserRoles, At
  <1>2. Now(t) \in Item /\ n \in Users /\ Now(t).grant \in Grants \cup {None} /\ Types
    BY <1>1, Moves, About DEF IInv, Types, RowsOK
  <1>3. want \in SUBSET Role
    BY <1>2, DesiredRoles DEF Plan, Types, RowsOK
  <1>4. RolesOf(n) \in SUBSET Role /\ RolesOf(n) = RolesIn(broker, n)
    BY <1>2, Clients DEF RolesOf, RolesIn, Client, Types, BrokerOK
  <1>5. own \in Answer /\ own.roles = RolesOf(n) /\ own \in Answers(t, own)
    <2>1. own \in Answer /\ own.roles = RolesOf(n)
      BY <1>4 DEF Answer
    <2>. HIDE DEF own
    <2>. QED  BY <1>2, <2>1, Answered DEF Types
  <1>. HIDE DEF want, own, yes
  <1>6. /\ broker \in BrokerType /\ Backed(broker) /\ DeviceOnly(broker) /\ Isolated(broker, n)
        /\ CredsOnly(db, db', n) /\ db \in Database
    BY <1>1, <1>2, CredsMade, Unchanged DEF Types, BrokerOK, RowsOK, Fit
  <1>7. /\ equal \in Agendas /\ equal.items = Tail(task[t].items) /\ equal.want = want
        /\ equal.clean = task[t].clean
    <2>1. \A x \in Agendas : /\ [x EXCEPT !.want = want] \in Agendas
                             /\ [x EXCEPT !.want = want].items = x.items
                             /\ [x EXCEPT !.want = want].want = want
                             /\ [x EXCEPT !.want = want].clean = x.clean
      BY <1>3 DEF Agendas
    <2>2. /\ Rest(t) \in Agendas /\ Rest(t).items = Tail(task[t].items)
          /\ Rest(t).clean = task[t].clean
      BY <1>1, <1>2, RestKeeps, Moves
    <2>. QED  BY <2>1, <2>2
  <1>8. ASSUME NEW a \in Answers(t, own)
        PROVE  /\ diff(a) \in Agendas /\ diff(a).items = task[t].items /\ diff(a).pc = "diff"
               /\ diff(a).want = want /\ diff(a).add = want \ a.roles
               /\ diff(a).remove = a.roles \ want
               /\ diff(a).clean = task[t].clean
    <2>2. a.roles \in SUBSET Role
      BY <1>2, <1>5, Answered DEF Types
    <2>. DEFINE x == Goto(t, "diff")
                p == want \ a.roles
                q == a.roles \ want
                y == [x EXCEPT !.want = want, !.add = p, !.remove = q]
    <2>4. x \in Agendas /\ x.items = task[t].items /\ x.pc = "diff" /\ x.clean = task[t].clean
      BY <1>1, <1>2, Moves
    <2>1. p \in SUBSET Role /\ q \in SUBSET Role
      BY <1>3, <2>2
    <2>. HIDE DEF x, p, q
    <2>5. /\ y \in Agendas /\ y.items = x.items /\ y.pc = x.pc /\ y.clean = x.clean
          /\ y.want = want /\ y.add = p /\ y.remove = q
      BY <1>3, <2>1, <2>4 DEF Agendas
    <2>6. diff(a) = y
      BY DEF x, p, q
    <2>. HIDE DEF y
    <2>. QED  BY <2>4, <2>5, <2>6 DEF p, q
  <1>. HIDE DEF equal, diff
  <1>9. Followed(t, own, after)
    BY <1>7, <1>8 DEF Followed
  <1>10. /\ own.roles = want => after[own] = equal
         /\ own.roles # want => after[own] = diff(own)
         /\ \A a \in Answers(t, own) : after[a] \in {equal, diff(a)}
    BY <1>5
  <1>. HIDE DEF after
  <1>11. equal.items # task[t].items
    BY <1>1, <1>2, <1>7, Moves
  <1>12. Aims(t, own, after)
    BY <1>1, <1>5, <1>7, <1>8, <1>10 DEF Aims, want
  <1>13. ASSUME own.roles # want, task[t].clean PROVE Poised(diff(own), Now(t), broker, Gone)
    <2>1. n \in DOMAIN broker.clients
      BY <1>1, <1>13 DEF Fit, AllPoised, Poised, PoisedUser
    <2>2. own.roles = broker.clients[n].roles
      BY <1>4, <1>5, <2>1 DEF RolesIn
    <2>. DEFINE x == diff(own)
    <2>3. /\ x.want = want /\ x.add = want \ own.roles /\ x.remove = own.roles \ want
      BY <1>5, <1>8
    <2>. HIDE DEF x
    <2>4. PoisedUser(x, broker, n, Gone)
      BY <2>1, <2>2, <2>3 DEF PoisedUser
    <2>. QED  BY <1>1, <2>4 DEF Poised, x
  <1>14. ASSUME own.roles = want, Current(Now(t), want) PROVE RolesIn(broker, n) = DesiredNow(db, n)
    BY <1>1, <1>4, <1>5, <1>14 DEF Current
  <1>15. Serves(t, broker, own, after, yes)
    <2>1. \A a \in Answers(t, own) : after[a].items = task[t].items =>
            after[a].pc # "start" /\ (after[a].clean => task[t].clean)
      BY <1>8, <1>10, <1>11
    <2>2. after[own].items = task[t].items /\ after[own].clean => Poised(after[own], Now(t), broker, Gone)
      BY <1>5, <1>8, <1>10, <1>11, <1>13
    <2>3. after[own].items # task[t].items /\ after[own].clean /\ Current(Now(t), after[own].want) =>
            task[t].clean /\ RolesIn(broker, n) = DesiredNow(db, n)
      BY <1>5, <1>7, <1>8, <1>10, <1>14
    <2>. QED  BY <1>1, <1>6, <2>1, <2>2, <2>3 DEF Serves
  <1>. QED  BY <1>1, <1>5, <1>6, <1>9, <1>12, <1>15 DEF Ready

LEMMA UserDiffReady ==
  ASSUME IInv, Fit, NEW t \in Threads, UserDiff(t)
  PROVE  \E effect, own, after, renews : Ready(t, effect, own, after, renews)
  <1>1. /\ At(t, "user", "diff") /\ Busy(t) /\ Now(t).kind = "user" /\ task[t].pc = "diff"
        /\ session' = session /\ db' = db /\ Types
    BY DEF UserDiff, At, IInv
  <1>2. PICK r \in Pending(t) :
       LET u    == Now(t).name
           new  == r \in task[t].add
           last == task[t].add \cup task[t].remove = {r}
           next == [(IF last THEN Rest(t) ELSE task[t])
                      EXCEPT !.add = @ \ {r}, !.remove = @ \ {r},
                             !.clean = @ /\ (new => ScannerOf(r) \subseteq broker.roles)]
       IN  Command(t, IF new THEN WithRole(u, r) ELSE WithoutRole(u, r), Ok,
                   Whatever(t, Ok, next), TRUE)
    BY DEF UserDiff
  <1>. DEFINE n    == Now(t).name
              new  == r \in task[t].add
              last == task[t].add \cup task[t].remove = {r}
              from == IF last THEN Rest(t) ELSE task[t]
              okay == new => ScannerOf(r) \subseteq broker.roles
              next == [from EXCEPT !.add = @ \ {r}, !.remove = @ \ {r}, !.clean = @ /\ okay]
              effect == IF new THEN WithRole(n, r) ELSE WithoutRole(n, r)
              after  == Whatever(t, Ok, next)
              yes    == TRUE
  <1>3. Command(t, effect, Ok, after, yes)
    BY <1>2
  <1>4. Now(t) \in Item /\ n \in Users /\ n \notin Scanners /\ task[t] \in Agendas
    BY <1>1, Moves, About DEF Types, RowsOK
  <1>5. r \in Role /\ (~new => r \in task[t].remove /\ task[t].add = {})
    BY <1>4 DEF Pending, Agendas
  <1>6. /\ from \in Agendas /\ from.pc = task[t].pc /\ from.add = task[t].add
        /\ from.remove = task[t].remove /\ from.want = task[t].want /\ from.clean = task[t].clean
        /\ from.items = IF last THEN Tail(task[t].items) ELSE task[t].items
        /\ Tail(task[t].items) # task[t].items
    BY <1>1, Moves, RestKeeps
  <1>7. /\ next \in Agendas /\ next.items = from.items /\ next.pc = from.pc /\ next.want = from.want
        /\ next.add = from.add \ {r} /\ next.remove = from.remove \ {r}
        /\ next.clean = (from.clean /\ okay)
    <2>1. okay \in BOOLEAN
      OBVIOUS
    <2>. HIDE DEF okay, from
    <2>. DEFINE p == from.add \ {r}
                q == from.remove \ {r}
                c == from.clean /\ okay
    <2>2. next = [from EXCEPT !.add = p, !.remove = q, !.clean = c]
      OBVIOUS
    <2>3. p \in SUBSET Role /\ q \in SUBSET Role /\ c \in BOOLEAN
      <3>1. from.clean \in BOOLEAN /\ from.add \subseteq Role /\ from.remove \subseteq Role
        BY <1>6 DEF Agendas
      <3>. QED  BY <2>1, <3>1
    <2>. HIDE DEF p, q, c, next
    <2>4. /\ next \in Agendas /\ next.items = from.items /\ next.pc = from.pc
          /\ next.want = from.want /\ next.add = p /\ next.remove = q /\ next.clean = c
      BY <1>6, <2>2, <2>3 DEF Agendas
    <2>. QED  BY <2>4 DEF p, q, c
  <1>. HIDE DEF next, from
  <1>8. /\ next.add = task[t].add \ {r} /\ next.remove = task[t].remove \ {r}
        /\ next.pc = "diff" /\ next.want = task[t].want /\ next.clean = (task[t].clean /\ okay)
        /\ next.items = (IF last THEN Tail(task[t].items) ELSE task[t].items)
    BY <1>1, <1>6, <1>7
  <1>9. Ok \in Answer
    BY Replies
  <1>10. \A a \in Answers(t, Ok) : after[a] = next
    BY AnyAnswer
  <1>11. Followed(t, Ok, after)
    BY <1>6, <1>7, <1>8, <1>9, <1>10, OneState
  <1>12. effect \in BrokerType /\ broker \in BrokerType /\ Backed(broker) /\ DeviceOnly(broker)
    BY <1>1, <1>5, RoleGiven, RoleTaken DEF Types, BrokerOK, Allowed, Fit
  <1>13. /\ Touches(effect, n) /\ (n \in DOMAIN effect.clients <=> n \in DOMAIN broker.clients)
         /\ n \in DOMAIN broker.clients =>
              effect.clients[n].roles =
                IF ~new THEN broker.clients[n].roles \ {r}
                ELSE IF ScannerOf(r) \subseteq broker.roles THEN broker.clients[n].roles \cup {r}
                ELSE broker.clients[n].roles
    BY <1>12, RoleAdded, RoleRemoved
  <1>. HIDE DEF effect, after, yes
  <1>14. Isolated(effect, n) /\ Backed(effect) /\ DeviceOnly(effect)
    <2>1. n \in DOMAIN broker.clients =>
            \A x \in effect.clients[n].roles : ScannerOf(x) \subseteq broker.roles
      BY <1>12, <1>13 DEF Backed
    <2>. QED  BY <1>4, <1>12, <1>13, <2>1, TouchesOne
  <1>15. CredsOnly(db, db', n) /\ db \in Database
    BY <1>1, CredsMade DEF Types, RowsOK
  <1>16. Ok \in Answers(t, Ok)
    BY <1>9 DEF Answers
  <1>17. Aims(t, Ok, after)
    BY <1>1, <1>8, <1>10, <1>16 DEF Aims
  <1>18. ASSUME next.clean
         PROVE  /\ task[t].clean /\ okay /\ n \in DOMAIN broker.clients /\ n \in DOMAIN effect.clients
                /\ effect.clients[n].roles = IF new THEN broker.clients[n].roles \cup {r}
                                                    ELSE broker.clients[n].roles \ {r}
                /\ task[t].add \subseteq task[t].want /\ task[t].remove \cap task[t].want = {}
                /\ broker.clients[n].roles \ task[t].remove \subseteq task[t].want
                /\ \A x \in task[t].want \ task[t].add :
                     ScannerOf(x) \cap Gone = {} => x \in broker.clients[n].roles
    <2>1. task[t].clean /\ okay
      BY <1>8, <1>18
    <2>2. PoisedUser(task[t], broker, n, Gone)
      BY <1>1, <2>1 DEF Fit, AllPoised, Poised
    <2>. QED  BY <1>1, <1>13, <2>1, <2>2 DEF PoisedUser
  <1>19. ASSUME next.clean PROVE Poised(next, Now(t), effect, Gone)
    <2>1. /\ next.add \subseteq next.want /\ next.remove \cap next.want = {}
          /\ effect.clients[n].roles \ next.remove \subseteq next.want
      BY <1>5, <1>8, <1>18, <1>19
    <2>2. \A x \in next.want \ next.add : ScannerOf(x) \cap Gone = {} => x \in effect.clients[n].roles
      BY <1>5, <1>8, <1>18, <1>19
    <2>3. PoisedUser(next, effect, n, Gone)
      BY <1>18, <1>19, <2>1, <2>2 DEF PoisedUser
    <2>. QED  BY <1>1, <2>3 DEF Poised
  <1>20. ASSUME next.clean, last, next.want = DesiredNow(db, n), n \notin Hit
         PROVE  RolesIn(effect, n) = DesiredNow(db, n)
    <2>1. \A x \in task[t].want : ScannerOf(x) \cap Gone = {}
      BY <1>4, <1>8, <1>20, SafeRoles
    <2>2. effect.clients[n].roles = task[t].want
      <3>. DEFINE A == task[t].add
                  M == task[t].remove
                  W == task[t].want
                  B == broker.clients[n].roles
                  E == effect.clients[n].roles
      <3>1. /\ A \cup M = {r} /\ A \subseteq W /\ M \cap W = {} /\ B \ M \subseteq W /\ W \ A \subseteq B
            /\ r \in A => E = B \cup {r}
            /\ r \notin A => E = B \ {r}
        BY <1>18, <1>20, <2>1
      <3>. HIDE DEF A, M, W, B, E
      <3>2. /\ \A x : x \in A => x = r
            /\ \A x : x \in M => x = r
            /\ r \in A \/ r \in M
        BY <3>1
      <3>3. CASE r \in A
        <4>1. E = B \cup {r} /\ r \in W /\ r \notin M
          BY <3>1, <3>3
        <4>2. \A x : x \in E <=> x \in W
          BY <3>1, <3>2, <4>1
        <4>. QED  BY <4>2 DEF E, W
      <3>4. CASE r \notin A
        <4>1. E = B \ {r} /\ r \in M /\ r \notin W
          BY <3>1, <3>2, <3>4
        <4>2. \A x : x \in E <=> x \in W
          BY <3>1, <3>2, <3>4, <4>1
        <4>. QED  BY <4>2 DEF E, W
      <3>. QED  BY <3>3, <3>4
    <2>. QED  BY <1>8, <1>18, <1>20, <2>2 DEF RolesIn
  <1>21. Serves(t, effect, Ok, after, yes)
    <2>1. after[Ok] = next
      BY <1>10, <1>16
    <2>2. \A a \in Answers(t, Ok) : after[a].items = task[t].items =>
            after[a].pc # "start" /\ (after[a].clean => task[t].clean)
      BY <1>8, <1>10
    <2>3. next.items # task[t].items => last
      BY <1>8
    <2>4. Current(Now(t), next.want) => next.want = DesiredNow(db, n)
      BY <1>1 DEF Current
    <2>. HIDE DEF last, n
    <2>. QED  BY <1>1, <1>14, <1>15, <1>18, <1>19, <1>20, <2>1, <2>2, <2>3, <2>4 DEF Serves, n
  <1>. QED  BY <1>1, <1>3, <1>9, <1>11, <1>12, <1>17, <1>21 DEF Ready

\* A command on a scanner that is one of several, and one that is the last
LEMMA ScannerOn ==
  ASSUME Types, NEW t \in Threads, Busy(t), Now(t).kind \in {"scanner", "forget"},
         NEW pc \in {"client", "password", "role", "roles"}, NEW effect \in BrokerType, NEW renews,
         Command(t, effect, Ok, Whatever(t, Ok, Goto(t, pc)), renews), session' = session, db' = db,
         Isolated(effect, Now(t).name), Backed(effect), DeviceOnly(effect),
         ASSUME task[t].clean, NEW x, x.pc = pc
         PROVE  /\ Poised(x, Now(t), effect, Gone)
                /\ Now(t).kind = "scanner" /\ ~Now(t).password /\ TokenFits(broker, db, Now(t).name) =>
                     TokenFits(effect, db, Now(t).name)
  PROVE  \E e, own, after, r : Ready(t, e, own, after, r)
  <1>. DEFINE state == Goto(t, pc)
              after == Whatever(t, Ok, state)
  <1>1. /\ state \in Agendas /\ state.items = task[t].items /\ state.pc = pc
        /\ state.clean = task[t].clean
    BY Moves
  <1>2. Ok \in Answer /\ CredsOnly(db, db', Now(t).name)
    BY Replies, CredsMade DEF Types, RowsOK
  <1>3. \A a \in Answers(t, Ok) : after[a] = state
    BY AnyAnswer
  <1>4. Command(t, effect, Ok, after, renews)
    OBVIOUS
  <1>. HIDE DEF after, state
  <1>5. Followed(t, Ok, after) /\ Aims(t, Ok, after)
    BY <1>1, <1>2, <1>3, OneState
  <1>6. Serves(t, effect, Ok, after, renews)
    BY <1>1, <1>2, <1>3, ServesOn
  <1>7. Ready(t, effect, Ok, after, renews)
    BY <1>2, <1>4, <1>5, <1>6 DEF Ready
  <1>. QED  BY <1>7

LEMMA ScannerEnd ==
  ASSUME Types, NEW t \in Threads, Busy(t), Now(t).kind \in {"scanner", "forget"},
         NEW effect \in BrokerType, NEW renews \in BOOLEAN,
         Command(t, effect, Ok, Whatever(t, Ok, Rest(t)), renews), session' = session, db' = db,
         Isolated(effect, Now(t).name), Backed(effect), DeviceOnly(effect),
         ASSUME task[t].clean, NEW want, Current(Now(t), want)
         PROVE  /\ Now(t).kind = "scanner" =>
                     /\ DeviceFits(effect, db, Now(t).name)
                     /\ renews => TokenFits(effect, db, Now(t).name)
                     /\ ~renews => /\ ~Now(t).password
                                   /\ TokenFits(broker, db, Now(t).name) =>
                                        TokenFits(effect, db, Now(t).name)
                /\ Now(t).kind = "forget" => Forgotten(effect, Now(t).name)
  PROVE  \E e, own, after, r : Ready(t, e, own, after, r)
  <1>. DEFINE state == Rest(t)
              after == Whatever(t, Ok, state)
  <1>1. /\ state \in Agendas /\ state.items = Tail(task[t].items) /\ state.items # task[t].items
        /\ state.clean = task[t].clean
    BY Moves, RestKeeps
  <1>2. Ok \in Answer /\ db \in Database
    BY Replies DEF Types, RowsOK
  <1>3. \A a \in Answers(t, Ok) : after[a] = state
    BY AnyAnswer
  <1>4. Command(t, effect, Ok, after, renews)
    OBVIOUS
  <1>. HIDE DEF after, state
  <1>5. Followed(t, Ok, after) /\ Aims(t, Ok, after)
    BY <1>1, <1>2, <1>3, OneState
  <1>6. Serves(t, effect, Ok, after, renews)
    BY <1>1, <1>2, <1>3, ServesEnd
  <1>7. Ready(t, effect, Ok, after, renews)
    BY <1>2, <1>4, <1>5, <1>6 DEF Ready
  <1>. QED  BY <1>7

LEMMA ScannerClientReady ==
  ASSUME IInv, Fit, NEW t \in Threads, ScannerClient(t)
  PROVE  \E effect, own, after, renews : Ready(t, effect, own, after, renews)
  <1>. DEFINE s      == Now(t).name
              i      == Now(t)
              own    == IF s \in DOMAIN broker.clients THEN Exists ELSE Ok
              next   == IF i.password THEN "password" ELSE "role"
              onward == Goto(t, next)
              after  == [a \in Answers(t, own) |-> IF a.kind # "exists" THEN Rest(t) ELSE onward]
              made   == WithClient(s, i.row.token, {Device(s)})
              effect == IF s \in broker.roles THEN made ELSE broker
              renews == own = Ok
  <1>1. /\ Busy(t) /\ i.kind = "scanner" /\ task[t].pc = "client" /\ i.row.enabled
        /\ Command(t, effect, own, after, renews) /\ session' = session /\ db' = db /\ Types
    BY DEF ScannerClient, At, IInv
  <1>2. /\ i \in Item /\ s \in Scanners /\ s \in Names /\ i.row \in Row /\ i.row.token \in 0..MaxToken
        /\ s \notin Users /\ Device(s) \in Role
    <2>1. i \in Item /\ s \in Scanners /\ i.row \in Row
      BY <1>1, Moves, About DEF Types, RowsOK
    <2>. QED  BY <2>1 DEF Names, Row, Device, Role
  <1>3. /\ broker \in BrokerType /\ Backed(broker) /\ DeviceOnly(broker) /\ db \in Database
        /\ Ok \in Answer /\ Exists \in Answer /\ own \in Answer /\ Ok.kind = "ok" /\ Exists.kind = "exists"
    BY <1>1, Replies DEF Types, BrokerOK, RowsOK, Fit, Ok, Exists
  <1>4. /\ made \in BrokerType /\ Touches(made, s) /\ s \in DOMAIN made.clients
        /\ s \in DOMAIN broker.clients => made = broker
        /\ s \notin DOMAIN broker.clients =>
             made.clients[s].roles = {Device(s)} /\ made.clients[s].token = i.row.token
    <2>. DEFINE R == {Device(s)}
                token == i.row.token
    <2>1. R \in SUBSET Role /\ token \in 0..MaxToken
      BY <1>2
    <2>. HIDE DEF R, token
    <2>2. LET e == WithClient(s, token, R)
          IN  /\ Touches(e, s) /\ s \in DOMAIN e.clients
              /\ s \in DOMAIN broker.clients => e = broker
              /\ s \notin DOMAIN broker.clients =>
                   e.clients[s].roles = R /\ e.clients[s].token = token
      BY <1>3, ClientAdded
    <2>3. WithClient(s, token, R) \in BrokerType
      BY <1>2, <1>3, <2>1, ClientMade DEF Allowed
    <2>. QED  BY <2>2, <2>3 DEF R, token
  <1>5. /\ after[own] = IF s \in DOMAIN broker.clients THEN onward ELSE Rest(t)
        /\ own \in Answers(t, own)
        /\ \A a \in Answers(t, own) : after[a] \in {onward, Rest(t)}
    <2>1. own \in Answers(t, own)
      BY <1>1, <1>3, Answered DEF Types
    <2>. HIDE DEF onward
    <2>. QED  BY <1>3, <2>1
  <1>6. (own = Ok <=> s \notin DOMAIN broker.clients) /\ renews \in BOOLEAN
    BY <1>3
  <1>7. /\ onward \in Agendas /\ onward.items = task[t].items /\ onward.pc = next
        /\ onward.clean = task[t].clean /\ next \in {"password", "role"}
        /\ Rest(t) \in Agendas /\ Rest(t).items = Tail(task[t].items) /\ Rest(t).items # task[t].items
        /\ Rest(t).clean = task[t].clean
    <2>1. next \in {"password", "role"}
      OBVIOUS
    <2>. HIDE DEF next
    <2>. QED  BY <1>1, <2>1, Moves, RestKeeps
  <1>. HIDE DEF own, after, made, onward, renews
  <1>8. effect \in BrokerType /\ Isolated(effect, s) /\ Backed(effect) /\ DeviceOnly(effect)
    <2>1. CASE s \in broker.roles
      <3>1. ScannerOf(Device(s)) = {s}
        BY DEF ScannerOf, Device
      <3>2. /\ \A r \in made.clients[s].roles : ScannerOf(r) \subseteq broker.roles
            /\ made.clients[s].roles \subseteq {Device(s)}
        BY <1>2, <1>3, <1>4, <2>1, <3>1 DEF Backed, DeviceOnly
      <3>. QED  BY <1>3, <1>4, <2>1, <3>2, TouchesOne
    <2>2. CASE s \notin broker.roles
      BY <1>3, <2>2, Unchanged
    <2>. QED  BY <2>1, <2>2
  <1>9. ASSUME task[t].clean
        PROVE  effect = made /\ s \in effect.roles
    <2>1. s \in broker.roles
      BY <1>1, <1>9 DEF Fit, AllPoised, Poised, PoisedScanner
    <2>. QED  BY <1>4, <2>1 DEF Touches
  <1>10. ASSUME s \in DOMAIN broker.clients, task[t].clean
         PROVE  /\ Poised(onward, i, effect, Gone)
                /\ TokenFits(broker, db, s) => TokenFits(effect, db, s)
    <2>1. effect = broker /\ s \in effect.roles
      BY <1>4, <1>9, <1>10
    <2>2. PoisedScanner(onward, broker, s, i)
      BY <1>1, <1>7, <1>10, <2>1 DEF PoisedScanner
    <2>. QED  BY <1>1, <2>1, <2>2 DEF Poised
  <1>11. ASSUME s \notin DOMAIN broker.clients, task[t].clean, NEW want, Current(i, want)
         PROVE  DeviceFits(effect, db, s) /\ TokenFits(effect, db, s)
    <2>1. i.row = db.scanners[s]
      BY <1>1, <1>11 DEF Current
    <2>. HIDE DEF effect
    <2>. QED  BY <1>1, <1>4, <1>9, <1>11, <2>1 DEF DeviceFits, TokenFits, RolesIn
  <1>. HIDE DEF effect
  <1>12. CredsOnly(db, db', s)
    BY <1>1, <1>3, CredsMade
  <1>13. Followed(t, own, after)
    BY <1>5, <1>7 DEF Followed
  <1>14. Aims(t, own, after)
    BY <1>1, <1>5, <1>7 DEF Aims
  <1>15. Serves(t, effect, own, after, renews)
    <2>1. \A a \in Answers(t, own) : after[a].items = task[t].items =>
            after[a].pc # "start" /\ (after[a].clean => task[t].clean)
      BY <1>5, <1>7
    <2>2. after[own].items = task[t].items /\ after[own].clean =>
            /\ Poised(after[own], i, effect, Gone)
            /\ TokenFits(broker, db, s) => TokenFits(effect, db, s)
      BY <1>5, <1>7, <1>10
    <2>3. after[own].items # task[t].items /\ after[own].clean /\ Current(i, after[own].want) =>
            task[t].clean /\ DeviceFits(effect, db, s) /\ TokenFits(effect, db, s) /\ renews
      BY <1>5, <1>6, <1>7, <1>11 DEF renews
    <2>. QED  BY <1>1, <1>8, <1>12, <2>1, <2>2, <2>3 DEF Serves
  <1>. QED  BY <1>1, <1>3, <1>8, <1>13, <1>14, <1>15 DEF Ready

LEMMA ScannerReady ==
  ASSUME IInv, Fit, NEW t \in Threads,
         \/ ScannerRoles(t) \/ ScannerPassword(t) \/ ScannerDevice(t)
         \/ ScannerDisabled(t) \/ ForgetClient(t) \/ ForgetRoles(t)
  PROVE  \E effect, own, after, renews : Ready(t, effect, own, after, renews)
  <1>. DEFINE s == Now(t).name
              i == Now(t)
  <1>1. /\ Busy(t) /\ i.kind \in {"scanner", "forget"} /\ session' = session /\ db' = db /\ Types
    BY DEF ScannerRoles, ScannerPassword, ScannerDevice, ScannerDisabled, ForgetClient,
           ForgetRoles, At, IInv
  <1>2. /\ i \in Item /\ s \in Scanners /\ s \in Names /\ s \notin Users
        /\ i.kind = "scanner" => i.row \in Row /\ i.row.token \in 0..MaxToken /\ i.password \in BOOLEAN
    <2>1. i \in Item /\ s \in Scanners /\ (i.kind = "scanner" => i.row \in Row)
      BY <1>1, Moves, About DEF Types, RowsOK
    <2>2. i.kind = "scanner" => i.password \in BOOLEAN
      BY <2>1 DEF Item
    <2>. QED  BY <2>1, <2>2 DEF Names, Row
  <1>3. broker \in BrokerType /\ Backed(broker) /\ DeviceOnly(broker) /\ Device(s) \in Role
    BY <1>1, <1>2 DEF Types, BrokerOK, Fit, Device, Role
  <1>4. s \in DOMAIN broker.clients =>
          /\ broker.clients[s].roles \subseteq {Device(s)}
          /\ \A r \in broker.clients[s].roles : ScannerOf(r) \subseteq broker.roles
    BY <1>2, <1>3 DEF Backed, DeviceOnly
  <1>5. ASSUME NEW want, Current(i, want), i.kind = "scanner" PROVE i.row = db.scanners[s]
    BY <1>5 DEF Current
  <1>6. ASSUME task[t].clean PROVE Poised(task[t], i, broker, Gone)
    BY <1>1, <1>6 DEF Fit, AllPoised
  <1>7. /\ "client" \in {"client", "password", "role", "roles"}
        /\ "role" \in {"client", "password", "role", "roles"}
        /\ "roles" \in {"client", "password", "role", "roles"}
        /\ TRUE \in BOOLEAN
    OBVIOUS
  <1>8. CASE ScannerRoles(t)
    <2>. DEFINE effect == WithScannerRoles(s)
                pc     == "client"
                yes    == TRUE
    <2>1. Command(t, effect, Ok, Whatever(t, Ok, Goto(t, pc)), yes) /\ i.kind = "scanner"
      BY <1>8 DEF ScannerRoles, At
    <2>2. /\ effect \in BrokerType /\ Isolated(effect, s) /\ Backed(effect) /\ DeviceOnly(effect)
          /\ s \in effect.roles /\ effect.clients = broker.clients
      BY <1>2, <1>3, RolesMade, ScannerRolesAdded DEF Allowed
    <2>. HIDE DEF effect, yes
    <2>3. ASSUME NEW x, x.pc = pc PROVE Poised(x, i, effect, Gone)
      BY <2>1, <2>2, <2>3 DEF Poised, PoisedScanner
    <2>4. TokenFits(broker, db, s) => TokenFits(effect, db, s)
      BY <2>2 DEF TokenFits
    <2>5. pc \in {"client", "password", "role", "roles"}
      OBVIOUS
    <2>. HIDE DEF pc
    <2>. QED  BY <1>1, <2>1, <2>2, <2>3, <2>4, <2>5, ScannerOn
  <1>9. CASE ScannerPassword(t)
    <2>. DEFINE token  == i.row.token
                effect == WithPassword(s, token)
                pc     == "role"
                yes    == TRUE
    <2>1. /\ Command(t, effect, Ok, Whatever(t, Ok, Goto(t, pc)), yes) /\ i.kind = "scanner"
          /\ task[t].pc = "password"
      BY <1>9 DEF ScannerPassword, At
    <2>2. effect \in BrokerType /\ token \in 0..MaxToken
      BY <1>2, <1>3, <2>1, PasswordSet DEF Allowed
    <2>. HIDE DEF token
    <2>3. /\ Touches(effect, s) /\ (s \in DOMAIN effect.clients <=> s \in DOMAIN broker.clients)
          /\ s \in DOMAIN broker.clients =>
               effect.clients[s].roles = broker.clients[s].roles /\ effect.clients[s].token = token
      BY <1>3, PasswordGiven
    <2>. HIDE DEF effect, yes
    <2>4. Isolated(effect, s) /\ Backed(effect) /\ DeviceOnly(effect)
      BY <1>3, <1>4, <2>3, TouchesOne
    <2>5. ASSUME task[t].clean, NEW x, x.pc = pc PROVE Poised(x, i, effect, Gone) /\ i.password
      <3>1. PoisedScanner(task[t], broker, s, i)
        BY <1>6, <2>1, <2>5 DEF Poised
      <3>2. PoisedScanner(x, effect, s, i) /\ i.password
        BY <2>1, <2>3, <2>5, <3>1 DEF PoisedScanner, Touches, token
      <3>. QED  BY <2>1, <3>2 DEF Poised
    <2>6. pc \in {"client", "password", "role", "roles"}
      OBVIOUS
    <2>. HIDE DEF pc
    <2>. QED  BY <1>1, <2>1, <2>2, <2>4, <2>5, <2>6, ScannerOn
  <1>10. CASE ScannerDevice(t)
    <2>. DEFINE r      == Device(s)
                effect == WithRole(s, r)
    <2>1. /\ Command(t, effect, Ok, Whatever(t, Ok, Rest(t)), i.password) /\ i.kind = "scanner"
          /\ task[t].pc = "role"
      BY <1>10 DEF ScannerDevice, At
    <2>2. effect \in BrokerType /\ i.password \in BOOLEAN
      BY <1>2, <1>3, <2>1, RoleGiven DEF Allowed
    <2>3. ScannerOf(r) = {s}
      BY DEF ScannerOf, Device
    <2>. HIDE DEF r
    <2>4. /\ Touches(effect, s) /\ (s \in DOMAIN effect.clients <=> s \in DOMAIN broker.clients)
          /\ s \in DOMAIN broker.clients =>
               /\ effect.clients[s].token = broker.clients[s].token
               /\ IF ScannerOf(r) \subseteq broker.roles
                  THEN effect.clients[s].roles = broker.clients[s].roles \cup {r}
                  ELSE effect.clients[s].roles = broker.clients[s].roles
      BY <1>3, RoleAdded
    <2>. HIDE DEF effect
    <2>5. Isolated(effect, s) /\ Backed(effect) /\ DeviceOnly(effect)
      <3>1. s \in DOMAIN effect.clients =>
              /\ effect.clients[s].roles \subseteq {Device(s)}
              /\ \A x \in effect.clients[s].roles : ScannerOf(x) \subseteq broker.roles
        BY <1>4, <2>4 DEF r
      <3>. QED  BY <1>3, <2>4, <3>1, TouchesOne
    <2>6. ASSUME task[t].clean, NEW want, Current(i, want)
          PROVE  /\ DeviceFits(effect, db, s) /\ (i.password => TokenFits(effect, db, s))
                 /\ TokenFits(broker, db, s) => TokenFits(effect, db, s)
      <3>1. PoisedScanner(task[t], broker, s, i) /\ i.row = db.scanners[s]
        BY <1>5, <1>6, <2>1, <2>6 DEF Poised
      <3>2. s \in broker.roles /\ s \in DOMAIN broker.clients /\ db.scanners[s].enabled
            /\ (i.password => broker.clients[s].token = db.scanners[s].token)
        BY <2>1, <3>1 DEF PoisedScanner
      <3>3. effect.clients[s].roles = {Device(s)}
        BY <1>4, <2>3, <2>4, <3>2 DEF r
      <3>. QED  BY <2>4, <3>2, <3>3 DEF DeviceFits, TokenFits, RolesIn, Touches
    <2>. QED  BY <1>1, <2>1, <2>2, <2>5, <2>6, ScannerEnd
  <1>11. CASE ScannerDisabled(t)
    <2>. DEFINE effect == WithoutClient(s)
                yes    == TRUE
    <2>1. /\ Command(t, effect, Ok, Whatever(t, Ok, Rest(t)), yes) /\ i.kind = "scanner"
          /\ task[t].pc = "client" /\ ~i.row.enabled
      BY <1>11 DEF ScannerDisabled, At
    <2>2. effect \in BrokerType /\ Touches(effect, s) /\ s \notin DOMAIN effect.clients
      BY <1>3, ClientGone, ClientRemoved DEF Allowed
    <2>3. yes \in BOOLEAN
      OBVIOUS
    <2>. HIDE DEF effect, yes
    <2>4. Isolated(effect, s) /\ Backed(effect) /\ DeviceOnly(effect)
      BY <1>3, <2>2, TouchesOne
    <2>5. ASSUME task[t].clean, NEW want, Current(i, want)
          PROVE  DeviceFits(effect, db, s) /\ TokenFits(effect, db, s) /\ yes
      <3>1. PoisedScanner(task[t], broker, s, i) /\ i.row = db.scanners[s]
        BY <1>5, <1>6, <2>1, <2>5 DEF Poised
      <3>. QED  BY <2>1, <2>2, <3>1 DEF DeviceFits, TokenFits, PoisedScanner, Touches, yes
    <2>. QED  BY <1>1, <2>1, <2>2, <2>3, <2>4, <2>5, ScannerEnd
  <1>12. CASE ForgetClient(t)
    <2>. DEFINE effect == WithoutClient(s)
                pc     == "roles"
                yes    == TRUE
    <2>1. Command(t, effect, Ok, Whatever(t, Ok, Goto(t, pc)), yes) /\ i.kind = "forget"
      BY <1>12 DEF ForgetClient, At
    <2>2. effect \in BrokerType /\ Touches(effect, s) /\ s \notin DOMAIN effect.clients
      BY <1>3, ClientGone, ClientRemoved DEF Allowed
    <2>. HIDE DEF effect, yes
    <2>3. Isolated(effect, s) /\ Backed(effect) /\ DeviceOnly(effect)
      BY <1>3, <2>2, TouchesOne
    <2>4. \A x : Poised(x, i, effect, Gone)
      BY <2>1, <2>2 DEF Poised
    <2>5. pc \in {"client", "password", "role", "roles"}
      OBVIOUS
    <2>. HIDE DEF pc
    <2>. QED  BY <1>1, <2>1, <2>2, <2>3, <2>4, <2>5, ScannerOn
  <1>13. CASE ForgetRoles(t)
    <2>. DEFINE effect == WithoutScannerRoles(s)
                yes    == TRUE
    <2>1. /\ Command(t, effect, Ok, Whatever(t, Ok, Rest(t)), yes) /\ i.kind = "forget"
          /\ task[t].pc = "roles"
      BY <1>13 DEF ForgetRoles, At
    <2>2. /\ task[t].items \in Seq(Item) /\ Forgets(task[t].items, Doomed)
          /\ task[t].items # <<>>
      BY <1>1 DEF Types, TasksOK, Agendas, Busy
    <2>3. s \in Doomed
      BY <2>1, <2>2, Dropping DEF Now
    <2>4. s \in Gone
      <3>1. i \in Range(task[t].items)
        BY <2>2, InTail DEF Now
      <3>. QED  BY <2>1, <3>1, Works DEF Fit, ForgetGone
    <2>5. /\ effect \in BrokerType /\ Isolated(effect, s) /\ Backed(effect) /\ DeviceOnly(effect)
          /\ s \notin effect.roles /\ DOMAIN effect.clients = DOMAIN broker.clients
      BY <1>3, <2>3, <2>4, RolesGone, ScannerRolesRemoved DEF Allowed
    <2>6. yes \in BOOLEAN
      OBVIOUS
    <2>. HIDE DEF effect, yes
    <2>7. task[t].clean => Forgotten(effect, s)
      BY <1>6, <2>1, <2>5 DEF Poised, Forgotten
    <2>. QED  BY <1>1, <2>1, <2>5, <2>6, <2>7, ScannerEnd
  <1>. QED  BY <1>8, <1>9, <1>10, <1>11, <1>12, <1>13

\* Every command of a thread does for its subject what it has to.
LEMMA CommandsReady ==
  ASSUME IInv, Fit, NEW t \in Threads, Commanded(t)
  PROVE  \E effect, own, after, renews : Ready(t, effect, own, after, renews)
  BY UserClientReady, UserRolesReady, UserDiffReady, ScannerReady, ScannerClientReady
  DEF Commanded, IInv

LEMMA CommandedFits ==
  ASSUME IInv, Fit, NEW t \in Threads, Commanded(t)
  PROVE  Fit'
  <1>1. PICK effect, own, after, renews : Ready(t, effect, own, after, renews)
    BY CommandsReady
  <1>2. Under(t, effect, own, after, renews)
    BY <1>1, Endings DEF Ready, Under, IInv
  <1>. QED  BY <1>2, CommandFits

-----------------------------------------------------------------------------
(* The broker fits the rows, but for what is still to come                 *)

LEMMA InitFit ==
  ASSUME Init
  PROVE  Fit
  <1>1. PICK active \in {{}, FirstGrants}, S \in {{}, Scanners} :
       db = [deleted |-> {}, staff |-> {}, inactive |-> {}, creds |-> Users \ {Demo},
             members |-> [G \in Groups |-> IF G = Viewers THEN Users ELSE {}],
             baseline |-> FirstBaseline, folder |-> [k \in Folders |-> S],
             scanners |-> [s \in S |-> [enabled |-> TRUE, token |-> 0]],
             status |-> [r \in Rows |-> IF r \in active /\ Scoped(S, r) THEN "active" ELSE "none"],
             lapsed |-> {}]
    BY DEF Init
  <1>. DEFINE scanners == [s \in S |-> [enabled |-> TRUE, token |-> 0]]
              status   == [r \in Rows |-> IF r \in active /\ Scoped(S, r) THEN "active" ELSE "none"]
  <1>2. /\ db.scanners = scanners /\ db.status = status /\ db.deleted = {}
    BY <1>1
  <1>3. /\ AllScanners(db) = S /\ S \subseteq Scanners
        /\ \A s \in S : db.scanners[s].enabled /\ db.scanners[s].token = 0
    BY <1>2 DEF AllScanners
  <1>4. GrantsHere(db)
    <2>1. ASSUME NEW g \in Grants, db.status[g] # "none" PROVE Scoped(S, g)
      BY <1>2, <2>1 DEF Rows
    <2>. QED  BY <1>3, <2>1 DEF GrantsHere
  <1>5. /\ queue = <<>> /\ task = [t \in Threads |-> Agenda(<<>>)] /\ txn = None /\ drift = {}
    BY DEF Init
  <1>. DEFINE N    == db.creds \cup AllScanners(db)
              R(n) == IF n \in Users THEN DesiredNow(db, n) ELSE {Device(n)}
              f    == [n \in N |-> [token |-> 0, roles |-> R(n)]]
  <1>6. broker = [roles |-> AllScanners(db), clients |-> f]
    BY DEF Init
  <1>7. /\ db \in Database /\ Sound(db) /\ db.creds \subseteq Users /\ S \cap Users = {}
    <2>1. db \in Database /\ Sound(db)
      BY InitInv DEF IInv, Types, RowsOK
    <2>. QED  BY <1>3, <2>1, Parts
  <1>. HIDE DEF R
  <1>8. /\ broker.roles = S /\ DOMAIN broker.clients = db.creds \cup S
        /\ \A n \in db.creds \cup S : broker.clients[n].token = 0 /\ broker.clients[n].roles = R(n)
    BY <1>3, <1>6
  <1>9. /\ \A u \in db.creds : R(u) = DesiredNow(db, u)
        /\ \A s \in S : R(s) = {Device(s)}
    BY <1>7 DEF R
  <1>10. (\A t \in Threads : task[t].items = <<>>) /\ Work = {} /\ ~Early
    <2>1. \A t \in Threads : task[t].items = <<>>
      BY <1>5 DEF Agenda
    <2>2. Work = {}
      BY <2>1, InOne, Works
    <2>. QED  BY <1>5, <2>1, <2>2 DEF Early
  <1>11. UsersFit
    BY <1>8, <1>9 DEF UsersFit, UserFits, RolesIn
  <1>12. DevicesFit /\ TokensFit /\ AllGone
    BY <1>2, <1>3, <1>8, <1>9 DEF DevicesFit, DeviceFits, TokensFit, TokenFits, AllGone, RolesIn
  <1>13. Backed(broker)
    <2>1. ASSUME NEW s \in S, NEW r \in R(s) PROVE ScannerOf(r) \subseteq S
      <3>1. r = Device(s)
        BY <1>9, <2>1
      <3>. QED  BY <3>1 DEF ScannerOf, Device
    <2>2. ASSUME NEW u \in db.creds, NEW r \in R(u) PROVE ScannerOf(r) \subseteq S
      BY <1>3, <1>7, <1>9, OnThere
    <2>. QED  BY <1>8, <2>1, <2>2 DEF Backed
  <1>14. DeviceOnly(broker)
    BY <1>7, <1>8, <1>9 DEF DeviceOnly
  <1>15. AllPoised
    BY <1>10 DEF AllPoised, Busy
  <1>16. TxnTold /\ ForgetLate /\ ForgetGone
    BY <1>5, <1>10 DEF TxnTold, ForgetLate, ForgetGone
  <1>. QED  BY <1>4, <1>11, <1>12, <1>13, <1>14, <1>15, <1>16 DEF Fit, Fits

LEMMA NextFit ==
  ASSUME IInv, Fit, [Next]_vars
  PROVE  Fit'
  <1>1. ASSUME NEW t \in Threads, Step(t) PROVE Fit'
    BY <1>1, CommandedFits, ReadUsersFits DEF Step, Commanded
  <1>2. ASSUME \/ \E g \in Grants : ApiGrant(g) \/ AdminGrant(g)
               \/ \E s \in Scanners : Regenerate(s) \/ AdminScanner(s) \/ NewScanner(s) \/ DeleteScanner(s)
               \/ \E k \in Folders, s \in Scanners : Assign(k, s)
               \/ \E u \in Users : AdminUser(u) \/ \E G \in Groups : Membership(u, G)
               \/ \E l \in Links : NewLink(l)
               \/ Silent
        PROVE  Fit'
    <2>1. RowChange
      BY <1>2, RowSteps DEF IInv, Types, RowsOK
    <2>2. PICK d, jobs : \E missed \in SUBSET Names :
            /\ Written(d, jobs)
            /\ GrantsHere(db) => Told(db, d, jobs, missed) /\ Lasts(jobs)
            /\ Save(d, jobs, missed) \/ Begin(d, jobs, missed)
      BY <2>1 DEF RowChange, Names
    <2>3. PICK missed \in SUBSET Names :
            /\ Written(d, jobs)
            /\ GrantsHere(db) => Told(db, d, jobs, missed) /\ Lasts(jobs)
            /\ Save(d, jobs, missed) \/ Begin(d, jobs, missed)
      BY <2>2
    <2>4. GrantsHere(db)
      BY DEF Fit
    <2>. QED  BY <2>3, <2>4, SaveFits, BeginFits
  <1>3. CASE SignOut
    BY <1>3, QuietFits DEF SignOut
  <1>4. CASE UNCHANGED vars
    BY <1>4, QuietFits DEF vars
  <1>. QED  BY <1>1, <1>2, <1>3, <1>4, TakeJobFits, CredentialsFits, SyncStartFits, CommitFits,
               SignInFits DEF Next

LEMMA Fitting == Spec => [](IInv /\ Fit)
  <1>1. Init => IInv /\ Fit
    BY InitInv, InitFit
  <1>2. IInv /\ Fit /\ [Next]_vars => IInv' /\ Fit'
    BY NextInv, NextFit
  <1>. QED  BY <1>1, <1>2, PTL DEF Spec

LEMMA NothingLeft ==
  ASSUME IInv, Fit, Idle
  PROVE  AnnouncedMirrored
  <1>1. /\ queue = <<>> /\ txn = None /\ \A t \in Threads : ~Busy(t)
    BY DEF Idle
  <1>2. db \in Database /\ Sound(db) /\ db.creds \subseteq Users /\ AllScanners(db) \subseteq Scanners
        /\ AllScanners(db) \cap db.deleted = {} /\ db.deleted \subseteq Scanners
    <2>1. db \in Database /\ Sound(db)
      BY DEF IInv, Types, RowsOK
    <2>. QED  BY <2>1, Parts DEF Sound
  <1>3. Hit = {} /\ Work = {} /\ Range(queue) = {} /\ \A t \in Threads : \A s : ~Soiled(t, s)
    <2>1. \A t \in Threads : task[t].items = <<>>
      BY <1>1 DEF Busy
    <2>2. Work = {}
      BY <2>1, InOne, Works
    <2>3. Hit = {}
      BY <1>1 DEF Hit, Early
    <2>4. Range(queue) = {}
      BY <1>1, InOne
    <2>. QED  BY <1>1, <2>2, <2>3, <2>4 DEF Soiled
  <1>4. /\ \A u : ~UserOwed(u)
        /\ \A s : ~DeviceOwed(s) /\ ~ForgetOwed(s) /\ ~TokenOwed(s)
    BY <1>3, Awaits DEF UserOwed, DeviceOwed, ForgetOwed, TokenOwed, Faced
  <1>5. ASSUME NEW s \in db.deleted \ drift PROVE Forgotten(broker, s)
    BY <1>4, <1>5 DEF Fit, Fits, AllGone
  <1>6. ASSUME NEW u \in db.creds \ drift PROVE UserMirrored(u)
    <2>1. UserFits(broker, db, u) /\ RolesOf(u) = RolesIn(broker, u)
      BY <1>3, <1>4, <1>6 DEF Fit, Fits, UsersFit, RolesOf, RolesIn
    <2>2. ASSUME NEW r \in RolesIn(broker, u) \ DesiredNow(db, u) PROVE ScannerOf(r) \cap drift # {}
      <3>1. PICK s \in ScannerOf(r) : s \in db.deleted
        BY <2>1, <2>2 DEF UserFits
      <3>2. s \in broker.roles
        BY <2>2, <3>1 DEF Fit, Backed, RolesIn
      <3>. QED  BY <1>5, <3>1, <3>2 DEF Forgotten
    <2>3. DesiredNow(db, u) \subseteq RolesIn(broker, u)
      BY <2>1 DEF UserFits
    <2>. QED  BY <2>1, <2>2, <2>3 DEF UserMirrored, Undrifted
  <1>7. ASSUME NEW s \in AllScanners(db) \ drift PROVE HasDevice(s) /\ HasToken(s)
    <2>1. DeviceFits(broker, db, s) /\ TokenFits(broker, db, s)
      BY <1>3, <1>4, <1>7 DEF Fit, Fits, DevicesFit, TokensFit
    <2>. QED  BY <2>1 DEF DeviceFits, TokenFits, HasDevice, HasToken, RolesIn, RolesOf
  <1>. QED  BY <1>5, <1>6, <1>7 DEF AnnouncedMirrored, Forgotten

\* When every job is done, the broker holds what the rows ask for of every
\* subject that no unsignalled change, failed command, early job or other
\* thread left behind: whatever threads, transactions and failures interleave.
THEOREM JobsMirror == Spec => []AnnouncedMirrored
  <1>1. IInv /\ Fit => AnnouncedMirrored
    <2>1. ~Idle => AnnouncedMirrored
      BY DEF AnnouncedMirrored
    <2>. QED  BY <2>1, NothingLeft
  <1>. QED  BY <1>1, Fitting, PTL

-----------------------------------------------------------------------------
(* A periodic sync that has the broker to itself                           *)

\* The scanners come first, and then the list of users, who come last.
Scanning(items) ==
  /\ items # <<>>
  /\ \A k \in DOMAIN items : items[k].kind = IF k = Len(items) THEN "query" ELSE "scanner"
Granting(items) == \A i \in Range(items) : i.kind = "user"

\* What the sync read is what the rows say.
Fresh(i) ==
  /\ i.kind = "scanner" => i.name \in AllScanners(db) /\ i.row = db.scanners[i.name]
  /\ i.kind = "user" => i.name \in db.creds /\ Plan(db, i) = DesiredNow(db, i.name)
  /\ i.kind = "query" => i.name = All

Quiet ==
  /\ queue = <<>> /\ txn = None /\ ~Busy("exec") /\ ~Busy("web")
  /\ late["sched"] = None /\ task["sched"].clean

\* Each scanner it has left behind has its client, and each user its roles.
Repaired ==
  /\ \A s \in AllScanners(db) : Faced(s) \/ DeviceFits(broker, db, s)
  /\ Granting(task["sched"].items) =>
       \A u \in db.creds : Faced(u) \/ RolesIn(broker, u) = DesiredNow(db, u)

Aimed == At("sched", "user", "diff") => task["sched"].want = DesiredNow(db, Now("sched").name)

Calmly ==
  calm => /\ Quiet /\ Repaired /\ Aimed
          /\ Scanning(task["sched"].items) \/ Granting(task["sched"].items)
          /\ \A i \in Range(task["sched"].items) : Fresh(i)

LEMMA Alone ==
  ASSUME Quiet
  PROVE  /\ \A i : i \in Work <=> i \in Range(task["sched"].items)
         /\ \A t \in Threads : Busy(t) => t = "sched"
         /\ Hit = {} /\ Gone = db.deleted
  <1>1. task["exec"].items = <<>> /\ task["web"].items = <<>>
    BY DEF Quiet, Busy
  <1>2. \A i : i \in Work <=> i \in Range(task["sched"].items)
    BY <1>1, Works, InOne DEF Threads
  <1>3. Hit = {} /\ Gone = db.deleted
    BY DEF Quiet, Hit, Gone, Early
  <1>. QED  BY <1>1, <1>2, <1>3 DEF Threads, Busy

LEMMA StaysFresh ==
  ASSUME db' = db, NEW i, Fresh(i)
  PROVE  Fresh(i)'
  BY DEF Fresh

LEMMA Shorter ==
  ASSUME NEW items \in Seq(Item), items # <<>>
  PROVE  /\ Scanning(items) => /\ Head(items).kind \in {"scanner", "query"}
                               /\ Head(items).kind # "query" => Scanning(Tail(items))
                               /\ Head(items).kind = "query" => Tail(items) = <<>>
         /\ Granting(items) => Granting(Tail(items)) /\ Head(items).kind = "user"
         /\ Range(items) = {Head(items)} \cup Range(Tail(items))
  <1>. DEFINE rest == Tail(items)
              n == Len(items)
  <1>1. /\ n \in Nat /\ n > 0 /\ DOMAIN items = 1..n /\ Head(items) = items[1]
        /\ Len(rest) = n - 1 /\ DOMAIN rest = 1..(n - 1)
        /\ \A k \in 1..(n - 1) : rest[k] = items[k + 1]
    OBVIOUS
  <1>5. rest = <<>> <=> n = 1
    <2>1. rest \in Seq(Item)
      OBVIOUS
    <2>2. \A x \in Seq(Item) : x = <<>> <=> Len(x) = 0
      OBVIOUS
    <2>. HIDE DEF rest, n
    <2>. QED  BY <1>1, <2>1, <2>2
  <1>2. Range(items) = {Head(items)} \cup Range(rest)
    BY InTail
  <1>3. Granting(items) => Granting(rest) /\ Head(items).kind = "user"
    BY <1>2 DEF Granting
  <1>. HIDE DEF rest, n
  <1>4. ASSUME Scanning(items)
        PROVE  /\ Head(items).kind \in {"scanner", "query"}
               /\ Head(items).kind # "query" => Scanning(rest)
               /\ Head(items).kind = "query" => rest = <<>>
    <2>1. \A k \in 1..n : items[k].kind = IF k = n THEN "query" ELSE "scanner"
      BY <1>1, <1>4 DEF Scanning, n
    <2>2. 1 \in 1..n /\ Head(items).kind = IF n = 1 THEN "query" ELSE "scanner"
      BY <1>1, <2>1
    <2>3. ASSUME n # 1 PROVE Scanning(rest)
      <3>1. \A k \in 1..(n - 1) : k + 1 \in 1..n /\ (k + 1 = n <=> k = n - 1)
        BY <1>1
      <3>2. \A k \in 1..(n - 1) : rest[k].kind = IF k = n - 1 THEN "query" ELSE "scanner"
        BY <1>1, <2>1, <3>1
      <3>. QED  BY <1>1, <1>5, <2>3, <3>2 DEF Scanning
    <2>. QED  BY <1>1, <1>5, <2>2, <2>3
  <1>. QED  BY <1>2, <1>3, <1>4 DEF rest

\* The sync starts when nothing else goes on.
LEMMA SyncStartCalm ==
  ASSUME IInv, SyncStart
  PROVE  Calmly'
  <1>. SUFFICES ASSUME calm' PROVE Calmly'
    BY DEF Calmly
  <1>. DEFINE items == SyncItems(db)
              its   == ScannerItems(db, AllScanners(db))
              q     == QueryItem(All)
              t     == "sched"
  <1>1. /\ Idle /\ task' = [task EXCEPT ![t] = Agenda(items)] /\ late' = [late EXCEPT ![t] = None]
        /\ db' = db /\ broker' = broker /\ queue' = queue /\ txn' = txn
    BY DEF SyncStart
  <1>2. db \in Database /\ t \in Threads /\ items \in Seq(Item) /\ t \in DOMAIN late
    BY SyncListed DEF IInv, Types, RowsOK, BrokerOK, Threads
  <1>3. /\ task'[t].items = items /\ task'[t].pc = "start" /\ task'[t].clean
        /\ \A o \in Threads \ {t} : task'[o] = task[o]
        /\ \A i : i \in Range(items) => i \in Work'
    BY <1>1, <1>2, Taken
  <1>4. Quiet'
    <2>1. \A o \in Threads \ {t} : ~Busy(o)'
      BY <1>1, <1>3 DEF Idle, Busy
    <2>2. late'[t] = None
      BY <1>1, <1>2
    <2>. QED  BY <1>1, <1>3, <2>1, <2>2 DEF Quiet, Idle, Threads
  <1>5. Range(items) = {ScannerItem(db, s, FALSE) : s \in AllScanners(db)} \cup {q}
    BY <1>2, SyncContents
  <1>6. /\ \A s : /\ ScannerItem(db, s, FALSE).kind = "scanner"
                  /\ ScannerItem(db, s, FALSE).name = s
                  /\ ScannerItem(db, s, FALSE).row = db.scanners[s]
        /\ q.kind = "query" /\ q.name = All
    BY DEF ScannerItem, QueryItem
  <1>7. Scanning(items)
    <2>1. its \in Seq(Item) /\ Range(its) = {ScannerItem(db, s, FALSE) : s \in AllScanners(db)}
      BY <1>2, ScannerListed, ScannersListed
    <2>2. \A k \in DOMAIN its : its[k].kind = "scanner"
      <3>. HIDE DEF its
      <3>1. ASSUME NEW i \in Range(its) PROVE i.kind = "scanner"
        <4>1. PICK s \in AllScanners(db) : i = ScannerItem(db, s, FALSE)
          BY <2>1
        <4>. QED  BY <1>6, <4>1
      <3>. QED  BY <3>1 DEF Range
    <2>3. items = its \o <<q>>
      BY DEF SyncItems
    <2>4. q \in Item
      BY DEF QueryItem, Item
    <2>. HIDE DEF items, its, q
    <2>5. /\ Len(items) = Len(its) + 1 /\ Len(its) \in Nat /\ DOMAIN items = 1..(Len(its) + 1)
          /\ DOMAIN its = 1..Len(its) /\ items # <<>>
          /\ \A k \in 1..Len(its) : items[k] = its[k]
          /\ items[Len(its) + 1] = q
      BY <2>1, <2>3, <2>4
    <2>6. \A k \in 1..(Len(its) + 1) : k # Len(its) + 1 => k \in 1..Len(its)
      BY <2>5
    <2>. QED  BY <1>6, <2>2, <2>5, <2>6 DEF Scanning
  <1>8. \A i \in Range(items) : Fresh(i)
    <2>1. ASSUME NEW s \in AllScanners(db) PROVE Fresh(ScannerItem(db, s, FALSE))
      <3>1. PICK i : i = ScannerItem(db, s, FALSE)
        OBVIOUS
      <3>2. i.kind = "scanner" /\ i.name = s /\ i.row = db.scanners[s]
        BY <1>6, <3>1
      <3>. QED  BY <3>1, <3>2 DEF Fresh
    <2>2. Fresh(q)
      BY <1>6 DEF Fresh
    <2>. QED  BY <1>5, <2>1, <2>2
  <1>9. \A s \in AllScanners(db) : Faced(s)'
    <2>1. ASSUME NEW s \in AllScanners(db)
          PROVE  \E i \in Work' : i.kind = "scanner" /\ i.name = s
      BY <1>3, <1>5, <1>6
    <2>. QED  BY <2>1 DEF Faced
  <1>10. ~Granting(items)
    BY <1>5, <1>6 DEF Granting
  <1>. HIDE DEF items
  <1>11. Repaired' /\ Aimed'
    BY <1>1, <1>3, <1>9, <1>10 DEF Repaired, Aimed, At
  <1>12. \A i \in Range(items) : Fresh(i)'
    BY <1>1, <1>8, StaysFresh
  <1>. QED  BY <1>3, <1>4, <1>7, <1>11, <1>12 DEF Calmly

\* The users are read when every scanner is done.
LEMMA ReadUsersCalm ==
  ASSUME IInv, Calmly, NEW t \in Threads, ReadUsers(t)
  PROVE  Calmly'
  <1>. SUFFICES ASSUME calm' PROVE Calmly'
    BY DEF Calmly
  <1>. DEFINE U == Queried(db, Now(t).name)
              guarded == Now(t).name # All
              I(u) == UserItem(db, u, guarded)
              new  == UserItems(db, U, guarded)
              rest == Tail(task[t].items)
              items == new \o rest
  <1>1. /\ Busy(t) /\ Now(t).kind = "query" /\ task' = [task EXCEPT ![t] = Agenda(items)]
        /\ queue' = queue /\ db' = db /\ broker' = broker /\ txn' = txn /\ late' = late /\ calm
    BY DEF ReadUsers, At
  <1>2. /\ Quiet /\ Repaired /\ t = "sched"
        /\ Scanning(task[t].items) \/ Granting(task[t].items)
        /\ \A i \in Range(task[t].items) : Fresh(i)
    BY <1>1, Alone DEF Calmly
  <1>3. db \in Database /\ task[t].items \in Seq(Item) /\ task[t].items # <<>>
    BY <1>1 DEF IInv, Types, TasksOK, Agendas, RowsOK, Busy
  <1>4. rest = <<>> /\ Range(task[t].items) = {Now(t)} /\ ~Granting(task[t].items)
    BY <1>1, <1>2, <1>3, Shorter, InOne DEF Now
  <1>5. Now(t).name = All /\ U = db.creds /\ guarded = FALSE
    BY <1>1, <1>2, <1>4 DEF Fresh, Queried
  <1>6. db.creds \in SUBSET Users
    BY <1>3, Parts
  <1>7. new \in Seq(Item) /\ Range(new) = {I(u) : u \in db.creds}
    <2>1. guarded \in BOOLEAN
      OBVIOUS
    <2>. HIDE DEF guarded, U
    <2>2. UserItems(db, db.creds, guarded) \in Seq(Item)
      BY <1>3, <1>6, <2>1, UserListed
    <2>3. Range(UserItems(db, db.creds, guarded)) = {UserItem(db, u, guarded) : u \in db.creds}
      BY <1>3, <1>6, <2>1, UsersListed
    <2>. QED  BY <1>5, <2>2, <2>3
  <1>8. \A u : I(u).kind = "user" /\ I(u).name = u /\ Plan(db, I(u)) = DesiredNow(db, u)
    BY <1>5 DEF UserItem, DesiredNow
  <1>. HIDE DEF new, rest, I
  <1>9. items \in Seq(Item) /\ Range(items) = {I(u) : u \in db.creds}
    <2>1. items = new
      BY <1>4, <1>7
    <2>. QED  BY <1>7, <2>1
  <1>. HIDE DEF items
  <1>10. /\ task'[t].items = items /\ task'[t].pc = "start" /\ task'[t].clean
         /\ \A o \in Threads \ {t} : task'[o] = task[o]
         /\ \A i : i \in Range(items) => i \in Work'
    BY <1>1, <1>9, Taken
  <1>11. Quiet'
    <2>1. \A o \in Threads \ {t} : Busy(o)' <=> Busy(o)
      BY <1>10 DEF Busy
    <2>. QED  BY <1>1, <1>2, <1>10, <2>1 DEF Quiet, Threads
  <1>12. Granting(items)
    BY <1>8, <1>9 DEF Granting
  <1>13. \A i \in Range(items) : Fresh(i)'
    <2>1. \A u \in db.creds : Fresh(I(u))
      BY <1>8 DEF Fresh
    <2>2. \A i \in Range(items) : Fresh(i)
      BY <1>9, <2>1
    <2>. HIDE DEF items
    <2>. QED  BY <1>1, <2>2, StaysFresh
  <1>14. \A u \in db.creds : Faced(u)'
    BY <1>8, <1>9, <1>10 DEF Faced
  <1>15. \A s \in AllScanners(db) : DeviceFits(broker, db, s)
    <2>1. \A s : ~Faced(s)
      BY <1>1, <1>2, <1>4, Alone DEF Faced
    <2>. QED  BY <1>2, <2>1 DEF Repaired
  <1>16. Repaired' /\ Aimed'
    BY <1>1, <1>2, <1>10, <1>14, <1>15 DEF Repaired, Aimed, At
  <1>. QED  BY <1>2, <1>10, <1>11, <1>12, <1>13, <1>16 DEF Calmly

LEMMA Apart ==
  ASSUME NEW items \in Seq(Item), Scanning(items)
  PROVE  ~Granting(items)
  <1>. DEFINE n == Len(items)
  <1>1. n \in DOMAIN items
    BY DEF Scanning
  <1>2. items[n] \in Range(items) /\ items[n].kind = "query"
    BY <1>1 DEF Range, Scanning
  <1>. QED  BY <1>2 DEF Granting

LEMMA DeviceKept ==
  ASSUME NEW n, NEW b, Isolated(b, n), NEW d, NEW s \in Scanners, s # n, DeviceFits(broker, d, s)
  PROVE  DeviceFits(b, d, s)
  <1>1. ScannerOf(Device(s)) = {s}
    BY DEF ScannerOf, Device
  <1>2. s \in b.roles /\ (s \in DOMAIN b.clients <=> s \in DOMAIN broker.clients)
    BY DEF Isolated, DeviceFits, Names
  <1>3. ASSUME RolesIn(broker, s) = {Device(s)} PROVE RolesIn(b, s) = {Device(s)}
    BY <1>1, <1>3 DEF Isolated, RolesIn, Names
  <1>. QED  BY <1>2, <1>3 DEF DeviceFits

LEMMA RolesKept ==
  ASSUME NEW n, NEW b, Isolated(b, n), n \notin Gone, NEW u \in Users, u # n
  PROVE  RolesIn(b, u) = RolesIn(broker, u)
  <1>1. u \in DOMAIN b.clients <=> u \in DOMAIN broker.clients
    BY DEF Isolated, Names
  <1>2. u \in DOMAIN broker.clients =>
          \A r : r \in b.clients[u].roles <=> r \in broker.clients[u].roles
    BY DEF Isolated, Names
  <1>3. \A r : r \in RolesIn(b, u) <=> r \in RolesIn(broker, u)
    BY <1>1, <1>2 DEF RolesIn
  <1>. QED  BY <1>3

\* The command of a sync that is alone succeeds: the roles it adds are there.
LEMMA AloneClean ==
  ASSUME IInv, Fit, Calmly, calm, NEW own, NEW after, Busy("sched"), Aims("sched", own, after)
  PROVE  after[own].clean
  <1>. DEFINE t == "sched"
              i == Now(t)
  <1>1. Quiet /\ Repaired /\ Aimed /\ task[t].clean
    BY DEF Calmly, Quiet
  <1>2. /\ Scanning(task[t].items) \/ Granting(task[t].items)
        /\ \A x \in Range(task[t].items) : Fresh(x)
    BY DEF Calmly
  <1>3. /\ db \in Database /\ Sound(db) /\ t \in Threads /\ AllScanners(db) \subseteq Scanners
        /\ db.creds \subseteq Users
    <2>1. db \in Database /\ Sound(db) /\ t \in Threads
      BY DEF IInv, Types, RowsOK, Threads
    <2>. QED  BY <2>1, Parts
  <1>4. task[t].items \in Seq(Item) /\ task[t].items # <<>>
    BY <1>3 DEF IInv, Types, TasksOK, Agendas, Busy
  <1>5. ASSUME At(t, "user", "diff"), NEW r \in task[t].add PROVE ScannerOf(r) \subseteq broker.roles
    <2>1. Poised(task[t], i, broker, Gone) /\ i.kind = "user" /\ task[t].pc = "diff"
      BY <1>1, <1>3, <1>5 DEF Fit, AllPoised, At
    <2>2. r \in task[t].want
      BY <1>5, <2>1 DEF Poised, PoisedUser
    <2>3. r \in DesiredNow(db, i.name)
      BY <1>1, <1>5, <2>2 DEF Aimed
    <2>4. ScannerOf(r) \subseteq AllScanners(db)
      BY <1>3, <2>3, OnThere
    <2>5. Granting(task[t].items)
      BY <1>2, <1>4, <2>1, Shorter DEF Now
    <2>6. ASSUME NEW s \in AllScanners(db) PROVE s \in broker.roles
      <3>1. ~Faced(s)
        <4>1. SUFFICES ASSUME NEW x \in Range(task[t].items), x.name = s PROVE FALSE
          BY <1>1, Alone DEF Faced
        <4>2. x.kind = "user" /\ Fresh(x)
          BY <1>2, <2>5 DEF Granting
        <4>3. s \in db.creds
          BY <4>1, <4>2 DEF Fresh
        <4>. QED  BY <1>3, <2>6, <4>3
      <3>. QED  BY <1>1, <2>6, <3>1 DEF Repaired, DeviceFits
    <2>. QED  BY <2>4, <2>6
  <1>. QED  BY <1>1, <1>5 DEF Aims

\* What the sync, alone, makes of an answer
LEMMA AloneLeft ==
  ASSUME IInv, Fit, Calmly, calm', NEW t \in Threads, NEW effect, NEW own, NEW after, NEW renews,
         Ready(t, effect, own, after, renews)
  PROVE  /\ calm /\ t = "sched" /\ Quiet' /\ broker' = effect
         /\ \A i : i \in Work' <=> i \in Range(task'[t].items)
         /\ task[t].items \in Seq(Item) /\ after[own].clean
         /\ \/ /\ after[own].items = Tail(task[t].items) /\ after[own].items # task[t].items
               /\ task'[t].items = Tail(task[t].items) /\ task'[t].pc = "start"
            \/ /\ after[own].items = task[t].items /\ task'[t].items = task[t].items
               /\ task'[t].pc = after[own].pc /\ task'[t].want = after[own].want
  <1>. DEFINE items == task[t].items
              next  == after[own]
              done  == Len(next.items) < Len(items)
              yes   == TRUE
  <1>1. /\ Busy(t) /\ Now(t).kind # "query" /\ Followed(t, own, after) /\ own \in Answer
        /\ Command(t, effect, own, after, renews) /\ Aims(t, own, after)
    BY DEF Ready
  <1>2. ~Fails(t, effect, own)
    BY DEF Fails
  <1>3. /\ broker' = effect /\ late' = [late EXCEPT ![Line(t)] = None]
        /\ Proceed(t, next, renews, yes) /\ calm' = calm /\ queue' = queue /\ txn' = txn
    BY <1>1, <1>2 DEF Command, Exchange
  <1>4. calm /\ Quiet
    BY <1>3 DEF Calmly
  <1>5. t = "sched" /\ \A o \in Threads \ {t} : ~Busy(o) /\ task[o].items = <<>>
    BY <1>1, <1>4, Alone DEF Busy
  <1>6. Rivals(t) = {}
    BY <1>5 DEF Rivals
  <1>7. next.clean /\ task[t].clean
    BY <1>1, <1>4, <1>5, AloneClean DEF Quiet
  <1>8. items \in Seq(Item) /\ items # <<>> /\ Len(Tail(items)) < Len(items) /\ Tail(items) # items
    <2>1. items \in Seq(Item) /\ items # <<>>
      BY <1>1 DEF IInv, Types, TasksOK, Agendas, Busy
    <2>2. \A x \in Seq(Item) : x # <<>> => Tail(x) # x
      OBVIOUS
    <2>3. \A x \in Seq(Item) : x # <<>> => Len(Tail(x)) < Len(x)
      OBVIOUS
    <2>. QED  BY <2>1, <2>2, <2>3
  <1>9. next \in Agendas /\ next.items \in {items, Tail(items)}
    BY <1>1 DEF Followed, Answers, Answer
  <1>. DEFINE clean == yes /\ Rivals(t) = {} /\ next.clean
              new   == IF done THEN Agenda(next.items) ELSE [next EXCEPT !.clean = clean]
  <1>10. clean
    BY <1>6, <1>7
  <1>11. /\ task'[t] = new
         /\ \A o \in Threads \ {t} : task'[o] = task[o]
    <2>1. task' = [o \in Threads |-> IF o = t THEN new
               ELSE IF o \in Rivals(t) THEN [task[o] EXCEPT !.clean = FALSE] ELSE task[o]]
      BY <1>3 DEF Proceed
    <2>. HIDE DEF new
    <2>. QED  BY <1>6, <2>1
  <1>. HIDE DEF clean
  <1>12. /\ task'[t].clean
         /\ \/ /\ next.items = Tail(items) /\ next.items # items
               /\ task'[t].items = Tail(items) /\ task'[t].pc = "start"
            \/ /\ next.items = items /\ task'[t].items = items
               /\ task'[t].pc = next.pc /\ task'[t].want = next.want
    <2>1. CASE next.items = Tail(items)
      <3>1. done
        BY <1>8, <2>1
      <3>2. task'[t] = Agenda(Tail(items))
        BY <1>11, <2>1, <3>1
      <3>. QED  BY <1>8, <2>1, <3>2 DEF Agenda
    <2>2. CASE next.items = items
      <3>1. ~done
        BY <1>8, <2>2
      <3>2. task'[t] = [next EXCEPT !.clean = clean]
        BY <1>11, <3>1
      <3>3. clean \in BOOLEAN
        BY DEF clean
      <3>4. /\ task'[t].items = next.items /\ task'[t].pc = next.pc /\ task'[t].want = next.want
            /\ task'[t].clean = clean
        BY <1>9, <3>2, <3>3, Unclean
      <3>. QED  BY <1>10, <2>2, <3>4
    <2>. QED  BY <1>9, <2>1, <2>2
  <1>13. \A i : i \in Work' <=> i \in Range(task'[t].items)
    <2>1. \A o \in Threads \ {t} : task'[o].items = <<>>
      BY <1>5, <1>11
    <2>. QED  BY <2>1, Works, InOne
  <1>14. Quiet'
    <2>1. \A o \in Threads \ {t} : ~Busy(o)'
      BY <1>5, <1>11 DEF Busy
    <2>2. late'["sched"] = None
      BY <1>3, <1>5 DEF Line, IInv, Types, BrokerOK
    <2>. QED  BY <1>3, <1>4, <1>5, <1>12, <2>1, <2>2 DEF Quiet, Threads
  <1>. QED  BY <1>3, <1>4, <1>5, <1>7, <1>8, <1>12, <1>13, <1>14

LEMMA CommandCalm ==
  ASSUME IInv, Fit, Calmly, NEW t \in Threads, Commanded(t)
  PROVE  Calmly'
  <1>. SUFFICES ASSUME calm' PROVE Calmly'
    BY DEF Calmly
  <1>1. PICK effect, own, after, renews : Ready(t, effect, own, after, renews)
    BY CommandsReady
  <1>. PICK n : n = Now(t).name
    OBVIOUS
  <1>. PICK i : i = Now(t)
    OBVIOUS
  <1>. PICK items : items = task[t].items
    OBVIOUS
  <1>. DEFINE next == after[own]
              left == task'[t].items
              end  == next.items = Tail(items)
  <1>2. /\ calm /\ t = "sched" /\ Quiet' /\ broker' = effect
        /\ \A x : x \in Work' <=> x \in Range(left)
        /\ items \in Seq(Item) /\ next.clean
        /\ \/ /\ end /\ next.items # items /\ left = Tail(items) /\ task'[t].pc = "start"
           \/ /\ next.items = items /\ left = items
              /\ task'[t].pc = next.pc /\ task'[t].want = next.want
    BY <1>1, AloneLeft
  <1>3. /\ Busy(t) /\ i.kind # "query" /\ Serves(t, effect, own, after, renews)
        /\ Aims(t, own, after)
        /\ i.kind # "user" \/ n \in db.creds => db' = db
        /\ own \in Answers(t, own)
    BY <1>1 DEF Ready, Answers
  <1>4. /\ Quiet /\ Repaired /\ Aimed /\ (Scanning(items) \/ Granting(items))
        /\ \A x \in Range(items) : Fresh(x)
    BY <1>2 DEF Calmly
  <1>5. /\ items # <<>> /\ i = Head(items) /\ Range(items) = {i} \cup Range(Tail(items))
        /\ Scanning(items) => i.kind = "scanner" /\ Scanning(Tail(items)) /\ ~Granting(items)
                              /\ ~Granting(Tail(items))
        /\ Granting(items) => i.kind = "user" /\ Granting(Tail(items))
    <2>1. items # <<>> /\ i = Head(items)
      BY <1>3 DEF Busy, Now
    <2>2. /\ Range(items) = {i} \cup Range(Tail(items))
          /\ Scanning(items) => i.kind = "scanner" /\ Scanning(Tail(items))
          /\ Granting(items) => i.kind = "user" /\ Granting(Tail(items))
      BY <1>2, <1>3, <2>1, Shorter
    <2>3. Tail(items) \in Seq(Item)
      BY <1>2, <2>1
    <2>. QED  BY <1>2, <2>1, <2>2, <2>3, Apart
  <1>6. db' = db /\ Fresh(i) /\ i.name = n
    BY <1>3, <1>4, <1>5 DEF Fresh
  <1>7. /\ db \in Database /\ AllScanners(db) \subseteq Scanners /\ db.creds \subseteq Users
        /\ db.deleted \subseteq Scanners
    <2>1. db \in Database
      BY DEF IInv, Types, RowsOK
    <2>. QED  BY <2>1, Parts
  <1>8. /\ \A x : x \in Work <=> x \in Range(items)
        /\ Hit = {} /\ Gone = db.deleted
    <2>1. task["sched"].items = items /\ Quiet
      BY <1>2, <1>4
    <2>. QED  BY <2>1, Alone
  <1>9. Range(left) \subseteq Range(items) /\ (Scanning(left) \/ Granting(left))
        /\ (Granting(left) => Granting(items))
    BY <1>2, <1>4, <1>5
  <1>10. \A x \in Range(left) : Fresh(x)'
    BY <1>4, <1>6, <1>9, StaysFresh
  <1>11. \A m : m # n /\ Faced(m) => Faced(m)'
    <2>1. \A x \in Range(items) : x.name # n => x \in Range(left)
      BY <1>2, <1>5, <1>6
    <2>. QED  BY <1>2, <1>8, <2>1 DEF Faced
  <1>12. left = items => Faced(n)'
    BY <1>2, <1>3, <1>5, <1>6 DEF Faced
  <1>13. i.kind = "user" /\ ((end /\ next.items # items) \/ next.pc = "diff") => next.want = DesiredNow(db, n)
    <2>. SUFFICES ASSUME i.kind = "user", (end /\ next.items # items) \/ next.pc = "diff"
                  PROVE  next.want = DesiredNow(db, n)
      OBVIOUS
    <2>1. next.want = IF task[t].pc = "diff" THEN task[t].want ELSE Plan(db, i)
      BY <1>3 DEF Aims
    <2>2. CASE task[t].pc = "diff"
      <3>1. At("sched", "user", "diff") /\ Now("sched").name = n
        BY <1>2, <1>3, <2>2 DEF At
      <3>2. task["sched"].want = DesiredNow(db, n)
        BY <1>4, <3>1 DEF Aimed
      <3>. QED  BY <1>2, <2>1, <2>2, <3>2
    <2>3. CASE task[t].pc # "diff"
      BY <1>6, <2>1, <2>3 DEF Fresh
    <2>. QED  BY <2>2, <2>3
  <1>14. Isolated(effect, n)
    BY <1>3 DEF Serves
  <1>15. ASSUME NEW s \in AllScanners(db) PROVE Faced(s)' \/ DeviceFits(effect, db, s)
    <2>1. CASE s # n
      <3>1. Faced(s) \/ DeviceFits(broker, db, s)
        BY <1>4 DEF Repaired
      <3>2. DeviceFits(broker, db, s) => DeviceFits(effect, db, s)
        BY <1>7, <1>14, <2>1, DeviceKept
      <3>. QED  BY <1>11, <2>1, <3>1, <3>2
    <2>2. CASE s = n
      <3>1. CASE left = items
        BY <1>12, <2>2, <3>1
      <3>2. CASE end /\ next.items # items
        <4>1. i.kind = "scanner" /\ i.row = db.scanners[n] /\ n \notin Users
          <5>1. n \notin Users
            BY <1>7, <2>2
          <5>2. i.kind # "user"
            BY <1>6, <1>7, <5>1 DEF Fresh
          <5>. QED  BY <1>4, <1>5, <1>6, <5>1, <5>2 DEF Fresh
        <4>2. Current(i, next.want)
          BY <2>2, <4>1, <1>6 DEF Current, InDb
        <4>. QED  BY <1>2, <1>3, <2>2, <3>2, <4>1, <4>2 DEF Serves
      <3>. QED  BY <1>2, <3>1, <3>2
    <2>. QED  BY <2>1, <2>2
  <1>16. ASSUME Granting(left), NEW u \in db.creds PROVE Faced(u)' \/ RolesIn(effect, u) = DesiredNow(db, u)
    <2>1. Granting(items) /\ i.kind = "user" /\ n \in db.creds /\ n \notin Gone
      BY <1>5, <1>6, <1>7, <1>8, <1>9, <1>16 DEF Fresh
    <2>2. CASE u # n
      <3>1. Faced(u) \/ RolesIn(broker, u) = DesiredNow(db, u)
        <4>1. task["sched"].items = items
          BY <1>2
        <4>. QED  BY <1>4, <2>1, <4>1 DEF Repaired
      <3>2. RolesIn(effect, u) = RolesIn(broker, u)
        BY <1>7, <1>14, <2>1, <2>2, RolesKept
      <3>. QED  BY <1>11, <2>2, <3>1, <3>2
    <2>3. CASE u = n
      <3>1. CASE left = items
        BY <1>12, <2>3, <3>1
      <3>2. CASE end /\ next.items # items
        <4>1. Current(i, next.want)
          BY <1>6, <1>13, <2>1, <3>2 DEF Current
        <4>. QED  BY <1>2, <1>3, <1>8, <2>1, <2>3, <3>2, <4>1 DEF Serves
      <3>. QED  BY <1>2, <3>1, <3>2
    <2>. QED  BY <2>2, <2>3
  <1>17. Repaired'
    BY <1>2, <1>6, <1>15, <1>16 DEF Repaired
  <1>18. Aimed'
    BY <1>2, <1>5, <1>6, <1>13 DEF Aimed, At, Busy, Now
  <1>. QED  BY <1>2, <1>9, <1>10, <1>17, <1>18 DEF Calmly

LEMMA NextCalm ==
  ASSUME IInv, Fit, Calmly, [Next]_vars
  PROVE  Calmly'
  <1>1. ASSUME calm' = FALSE PROVE Calmly'
    BY <1>1 DEF Calmly
  <1>2. ASSUME NEW t \in Threads, Step(t) PROVE Calmly'
    BY <1>2, CommandCalm, ReadUsersCalm DEF Step, Commanded
  <1>3. ASSUME \/ \E g \in Grants : ApiGrant(g) \/ AdminGrant(g)
               \/ \E s \in Scanners : Regenerate(s) \/ AdminScanner(s) \/ NewScanner(s) \/ DeleteScanner(s)
               \/ \E k \in Folders, s \in Scanners : Assign(k, s)
               \/ \E u \in Users : AdminUser(u) \/ \E G \in Groups : Membership(u, G)
               \/ \E l \in Links : NewLink(l)
               \/ Silent
        PROVE  calm' = FALSE
    <2>1. RowChange
      BY <1>3, RowSteps DEF IInv, Types, RowsOK
    <2>2. PICK d, jobs, missed : Save(d, jobs, missed) \/ Begin(d, jobs, missed)
      BY <2>1 DEF RowChange
    <2>. QED  BY <2>2 DEF Save, Begin, Change
  <1>4. ASSUME TakeJob \/ Credentials \/ SignIn PROVE calm' = FALSE
    BY <1>4 DEF TakeJob, Credentials, SignIn
  <1>5. ASSUME Commit PROVE Calmly'
    <2>1. txn # None /\ calm' = calm
      BY <1>5 DEF Commit
    <2>. QED  BY <2>1 DEF Calmly, Quiet
  <1>6. ASSUME UNCHANGED <<db, broker, late, queue, task, txn, calm>> PROVE Calmly'
    <2>1. /\ Quiet' <=> Quiet
          /\ Repaired' <=> Repaired
          /\ Aimed' <=> Aimed
      BY <1>6 DEF Quiet, Repaired, Aimed, At, Busy, Now, Faced, Work
    <2>2. \A i : Fresh(i) => Fresh(i)'
      BY <1>6, StaysFresh
    <2>. QED  BY <1>6, <2>1, <2>2 DEF Calmly
  <1>7. CASE SignOut
    BY <1>6, <1>7 DEF SignOut, plumbing
  <1>8. CASE UNCHANGED vars
    BY <1>6, <1>8 DEF vars, plumbing
  <1>. QED  BY <1>1, <1>2, <1>3, <1>4, <1>5, <1>7, <1>8, SyncStartCalm DEF Next

\* A periodic sync that starts when nothing else goes on, gets every answer in
\* time and meets no change of the rows leaves the broker with what the rows
\* ask for, whatever was left behind before it.
THEOREM SyncRepairs == Spec => []SyncMirrors
  <1>1. Init => IInv /\ Fit /\ Calmly
    <2>1. Init => Calmly
      BY DEF Init, Calmly
    <2>. QED  BY <2>1, InitInv, InitFit
  <1>2. IInv /\ Fit /\ Calmly /\ [Next]_vars => IInv' /\ Fit' /\ Calmly'
    BY NextInv, NextFit, NextCalm
  <1>3. TypeOK /\ Calmly => SyncMirrors
    <2>. SUFFICES ASSUME TypeOK, Calmly, calm, ~Busy("sched")
                  PROVE  /\ \A u \in db.creds : RolesOf(u) = DesiredNow(db, u)
                         /\ \A s \in AllScanners(db) : HasDevice(s)
      BY DEF SyncMirrors
    <2>1. Quiet /\ Repaired /\ task["sched"].items = <<>>
      BY DEF Calmly, Busy
    <2>2. \A i : i \notin Work
      BY <2>1, Alone, InOne
    <2>3. (\A n : ~Faced(n)) /\ Granting(task["sched"].items)
      BY <2>1, <2>2, InOne DEF Faced, Granting
    <2>4. ASSUME NEW u \in db.creds PROVE RolesOf(u) = DesiredNow(db, u)
      BY <2>1, <2>3, <2>4 DEF Repaired, RolesOf, RolesIn
    <2>5. ASSUME NEW s \in AllScanners(db) PROVE HasDevice(s)
      <3>1. DeviceFits(broker, db, s)
        BY <2>1, <2>3, <2>5 DEF Repaired
      <3>. QED  BY <3>1 DEF DeviceFits, HasDevice, RolesOf, RolesIn
    <2>. QED  BY <2>4, <2>5
  <1>. QED  BY <1>1, <1>2, <1>3, TypesHold, PTL DEF Spec
=============================================================================
