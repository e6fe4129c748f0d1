---------------------------- MODULE RollupProofs ----------------------------
(***************************************************************************)
(* Proofs about the retention job (Rollup) and what the API makes of its   *)
(* rows (History): what a purge deletes has been summarised, and no        *)
(* history shows a scan twice, whatever the policy; counts are exact, when *)
(* each resolution is a multiple of the one before; and the row that       *)
(* stands for a time is near to it.                                        *)
(***************************************************************************)
EXTENDS History, FiniteSetTheorems, WellFoundedInduction, TLAPS

-----------------------------------------------------------------------------
(* Buckets                                                                 *)

\* A bucket holds the times it is the bucket of.
LEMMA AlignType ==
  ASSUME NEW t \in Nat, NEW k \in Nat \ {0}
  PROVE  Align(t, k) \in 0..t /\ t < Align(t, k) + k
  BY DEF Align

LEMMA AlignProduct ==
  ASSUME NEW t \in Nat, NEW k \in Nat \ {0}, NEW m \in Nat \ {0}
  PROVE  Align(Align(t, k), k * m) = Align(t, k * m)
  BY DEF Align

\* A bucket of a multiple of k is made of whole buckets of k.
LEMMA AlignTwice ==
  ASSUME NEW t \in Nat, NEW k \in Nat \ {0}, NEW R \in Nat \ {0}, R % k = 0
  PROVE  Align(Align(t, k), R) = Align(t, R)
  <1>1. PICK m \in Nat \ {0} : R = k * m
    <2>1. R = k * (R \div k)
      OBVIOUS
    <2>2. R \div k \in Nat \ {0}
      BY <2>1
    <2>. QED  BY <2>1, <2>2
  <1>. QED  BY <1>1, AlignProduct

-----------------------------------------------------------------------------
(* Sums: the counts of disjoint rows add up to the scans they stand for    *)

LEMMA LeastExists ==
  ASSUME NEW S, S \subseteq Nat, S # {}
  PROVE  \E m \in S : \A n \in S : m <= n
  <1>. DEFINE R == OpToRel(<, Nat)
  <1>1. IsWellFoundedOn(R, Nat)
    BY NatLessThanWellFounded
  <1>2. \A x, y \in Nat : <<x, y>> \in R <=> x < y
    BY DEF OpToRel
  <1>. HIDE DEF R
  <1>3. PICK m \in S : \A n \in S : <<n, m>> \notin R
    BY <1>1, WFMin
  <1>4. ASSUME NEW n \in S PROVE m <= n
    <2>1. n \in Nat /\ m \in Nat /\ ~(n < m)
      BY <1>2, <1>3
    <2>. QED  BY <2>1
  <1>. QED  BY <1>4

MembersOf(S) == UNION {r.members : r \in S}
Apart(S) == \A r, s \in S : r # s => r.members \cap s.members = {}
Counted(S) == \A r \in S : r.count = Cardinality(r.members)

\* The equation that a sum over the subsets of S satisfies
IsSum(f, S) ==
  f = [s \in SUBSET S |-> IF s = {} THEN 0
                          ELSE LET x == CHOOSE y \in s : TRUE IN x.count + f[s \ {x}]]

LEMMA SumIsChosen ==
  ASSUME NEW S
  PROVE  MapThenSumSet(LAMBDA r : r.count, S) = (CHOOSE f : IsSum(f, S))[S]
  BY DEF MapThenSumSet, MapThenFoldSet, IsSum

\* The number of scans that some rows stand for
Scans(S) == [s \in SUBSET S |-> Cardinality(MembersOf(s))]

LEMMA MembersSplit ==
  ASSUME NEW U, IsFiniteSet(U), NEW S, \A r \in S : r.members \subseteq U,
         Apart(S), Counted(S), NEW x \in S
  PROVE  /\ IsFiniteSet(MembersOf(S)) /\ Cardinality(MembersOf(S)) \in Nat
         /\ Cardinality(MembersOf(S)) = x.count + Cardinality(MembersOf(S \ {x}))
  <1>1. MembersOf(S) \in SUBSET U /\ MembersOf(S \ {x}) \in SUBSET U /\ x.members \in SUBSET U
    BY DEF MembersOf
  <1>2. /\ IsFiniteSet(MembersOf(S)) /\ IsFiniteSet(MembersOf(S \ {x})) /\ IsFiniteSet(x.members)
    BY <1>1, FS_Subset
  <1>3. MembersOf(S) = x.members \cup MembersOf(S \ {x})
    BY DEF MembersOf
  <1>4. x.members \cap MembersOf(S \ {x}) = {}
    BY DEF MembersOf, Apart
  <1>. DEFINE A == x.members  B == MembersOf(S \ {x})
  <1>5. Cardinality(A \cup B) = Cardinality(A) + Cardinality(B) - Cardinality(A \cap B)
    <2>1. IsFiniteSet(A) /\ IsFiniteSet(B)
      BY <1>2
    <2>. HIDE DEF A, B
    <2>. QED  BY <2>1, FS_Union
  <1>6. Cardinality(A \cap B) = 0
    BY <1>4, FS_EmptySet
  <1>7. /\ Cardinality(MembersOf(S)) \in Nat /\ Cardinality(x.members) \in Nat
        /\ Cardinality(MembersOf(S \ {x})) \in Nat
    BY <1>2, FS_CardinalityType
  <1>. QED  BY <1>2, <1>3, <1>5, <1>6, <1>7 DEF Counted

LEMMA ScansIsSum ==
  ASSUME NEW U, IsFiniteSet(U), NEW S, \A r \in S : r.members \subseteq U,
         Apart(S), Counted(S)
  PROVE  IsSum(Scans(S), S)
  <1>. DEFINE F == Scans(S)
              Body(s) == IF s = {} THEN 0
                         ELSE LET x == CHOOSE y \in s : TRUE IN x.count + F[s \ {x}]
  <1>1. ASSUME NEW s \in SUBSET S PROVE Cardinality(MembersOf(s)) = Body(s)
    <2>1. CASE s = {}
      <3>1. MembersOf(s) = {}
        BY <2>1 DEF MembersOf
      <3>. QED  BY <2>1, <3>1, FS_EmptySet
    <2>2. CASE s # {}
      <3>. DEFINE x == CHOOSE y \in s : TRUE
      <3>1. x \in s
        BY <2>2
      <3>. HIDE DEF x
      <3>2. Apart(s) /\ Counted(s) /\ \A r \in s : r.members \subseteq U
        BY DEF Apart, Counted
      <3>3. Cardinality(MembersOf(s)) = x.count + Cardinality(MembersOf(s \ {x}))
        BY <3>1, <3>2, MembersSplit
      <3>4. F[s \ {x}] = Cardinality(MembersOf(s \ {x}))
        BY DEF Scans
      <3>. QED  BY <2>2, <3>3, <3>4 DEF x
    <2>. QED  BY <2>1, <2>2
  <1>. QED  BY <1>1 DEF Scans, IsSum

\* Two functions that satisfy the equation agree: at a smallest set where they
\* did not they would agree on one row less.
LEMMA SumsAgree ==
  ASSUME NEW S, IsFiniteSet(S), NEW f, NEW g, IsSum(f, S), IsSum(g, S)
  PROVE  f[S] = g[S]
  <1>. DEFINE Bad == {s \in SUBSET S : f[s] # g[s]}
              Sizes == {n \in Nat : \E s \in Bad : Cardinality(s) = n}
  <1>1. ASSUME NEW s \in SUBSET S PROVE IsFiniteSet(s) /\ Cardinality(s) \in Nat
    BY FS_Subset, FS_CardinalityType
  <1>2. ASSUME Bad # {} PROVE FALSE
    <2>1. Sizes # {} /\ Sizes \subseteq Nat
      BY <1>1, <1>2
    <2>2. PICK m \in Sizes : \A n \in Sizes : m <= n
      BY <2>1, LeastExists
    <2>3. PICK s \in Bad : Cardinality(s) = m
      BY <2>2
    <2>4. s # {}
      BY <2>3 DEF IsSum
    <2>. DEFINE x == CHOOSE y \in s : TRUE
    <2>5. x \in s
      BY <2>4
    <2>6. f[s] = x.count + f[s \ {x}] /\ g[s] = x.count + g[s \ {x}]
      BY <2>4 DEF IsSum
    <2>. HIDE DEF x
    <2>7. s \ {x} \in Bad
      BY <2>3, <2>6
    <2>8. Cardinality(s \ {x}) = m - 1 /\ m \in Nat /\ Cardinality(s \ {x}) \in Nat
      BY <1>1, <2>2, <2>3, <2>5, FS_RemoveElement
    <2>9. m - 1 \in Sizes
      BY <2>7, <2>8
    <2>. QED  BY <2>2, <2>8, <2>9
  <1>. QED  BY <1>2

LEMMA CountsAddUp ==
  ASSUME NEW U, IsFiniteSet(U), NEW S, IsFiniteSet(S), \A r \in S : r.members \subseteq U,
         Apart(S), Counted(S)
  PROVE  MapThenSumSet(LAMBDA r : r.count, S) = Cardinality(MembersOf(S))
  <1>. DEFINE f == CHOOSE h : IsSum(h, S)
  <1>1. IsSum(Scans(S), S)
    BY ScansIsSum
  <1>2. IsSum(f, S)
    BY <1>1
  <1>3. MapThenSumSet(LAMBDA r : r.count, S) = f[S]
    BY SumIsChosen
  <1>. HIDE DEF f
  <1>4. f[S] = Scans(S)[S]
    BY <1>1, <1>2, SumsAgree
  <1>. QED  BY <1>3, <1>4 DEF Scans

-----------------------------------------------------------------------------
(* The rows, the job and its list                                          *)

LEMMA Constants ==
  /\ MaxTime \in Nat /\ MaxScans \in Nat /\ MaxAborts \in Nat /\ MaxDeletes \in Nat
  /\ Ages \subseteq Nat /\ \A age \in Ages : age <= Tiers[1].keep
  /\ None \notin Bands
  BY BoundsAssumption, RowsAssumption

LEMMA Ladder ==
  /\ Len(Tiers) \in Nat \ {0} /\ DOMAIN Tiers = 1..Len(Tiers)
  /\ \A i \in DOMAIN Tiers : Tiers[i].res \in Nat \ {0} /\ Tiers[i].keep \in Nat \ {0}
  /\ \A i \in DOMAIN Tiers : i > 1 => Tiers[i].res > 1
  <1>1. Len(Tiers) \in Nat \ {0} /\ DOMAIN Tiers = 1..Len(Tiers)
    BY TiersAssumption
  <1>2. \A i \in DOMAIN Tiers : Tiers[i] \in [res : Nat \ {0}, keep : Nat \ {0}]
    <2>. DEFINE T == [res : Nat \ {0}, keep : Nat \ {0}]
    <2>1. Tiers \in Seq(T)
      BY TiersAssumption
    <2>. HIDE DEF T
    <2>2. \A i \in DOMAIN Tiers : Tiers[i] \in T
      BY <2>1
    <2>. QED  BY <2>2 DEF T
  <1>3. \A i \in 2..Len(Tiers) : Tiers[i].res > 1
    BY TiersAssumption
  <1>. QED  BY <1>1, <1>2, <1>3

\* A row but for the number in count, which is what CountsExact is about: of no
\* later time than t, standing for some of the first n scans.
IsRow(r, t, n) ==
  /\ r = [res |-> r.res, band |-> r.band, start |-> r.start,
          members |-> r.members, count |-> r.count]
  /\ r.res \in Resolutions /\ r.band \in Bands \cup {None}
  /\ r.start \in 0..t /\ r.members \subseteq 1..n

Steps == {"idle", "read", "roll", "purge", "last"}

Control ==
  /\ now \in 0..MaxTime /\ bands \subseteq Bands
  /\ stored \in Seq(0..MaxTime) /\ Len(stored) <= MaxScans
  /\ run = [pc |-> run.pc, tier |-> run.tier, at |-> run.at, list |-> run.list]
  /\ run.pc \in Steps /\ run.tier \in DOMAIN Tiers /\ run.at \in 0..now
  /\ run.pc \in {"read", "roll", "purge"} => run.tier > 1
  /\ aborts \in 0..MaxAborts /\ deletes \in 0..MaxDeletes

Records ==
  /\ IsFiniteSet(rows) /\ IsFiniteSet(run.list)
  /\ \A r \in rows \cup run.list : IsRow(r, now, Len(stored))

\* A row of a band that was deleted: the transaction will fail.
Gone(r) == r.band \notin bands \cup {None}

\* Between the query and the transaction the list is what the tier holds that
\* is too old, or the band of one of its rows has been deleted.
Listed ==
  run.pc = "roll" =>
    /\ \A r \in run.list : r.res = Tiers[run.tier - 1].res
                              /\ (r \in Expired(run.tier - 1) \/ Gone(r))
    /\ \A r \in Expired(run.tier - 1) : r \in run.list \/ \E x \in run.list : Gone(x)

\* Rows stand for different scans, but for those that a rollup has summarised
\* and its purge has not yet deleted, and for what an aborted job left.
Separate ==
  aborts = 0 => \A r, s \in rows : r # s /\ r.members \cap s.members # {} =>
    run.pc = "purge" /\ (r \in Expired(run.tier - 1) \/ s \in Expired(run.tier - 1))

Inv == Control /\ Records /\ Listed /\ PurgeCovered /\ Separate

\* As many images as there are elements, at most
LEMMA ImageFinite ==
  ASSUME NEW S, IsFiniteSet(S), NEW f
  PROVE  IsFiniteSet({f[x] : x \in S})
  <1>. DEFINE T == {f[x] : x \in S}  g == [x \in S |-> f[x]]
  <1>1. g \in Surjection(S, T)
    BY DEF Surjection
  <1>. HIDE DEF T, g
  <1>2. IsFiniteSet(T)
    BY <1>1, FS_Surjection
  <1>. QED  BY <1>2 DEF T

LEMMA RowStays ==
  ASSUME NEW r, NEW t \in Nat, NEW n \in Nat, IsRow(r, t, n),
         NEW u \in Nat, NEW m \in Nat, t <= u, n <= m
  PROVE  IsRow(r, u, m)
  BY DEF IsRow

LEMMA RowMade ==
  ASSUME NEW t \in Nat, NEW n \in Nat, NEW res \in Resolutions, NEW band \in Bands \cup {None},
         NEW start \in 0..t, NEW members \in SUBSET (1..n), NEW count
  PROVE  IsRow([res |-> res, band |-> band, start |-> start, members |-> members, count |-> count],
               t, n)
  BY DEF IsRow

\* A row that lost its band
LEMMA Unbanded ==
  ASSUME NEW r, NEW t, NEW n, IsRow(r, t, n)
  PROVE  /\ [r EXCEPT !.band = None] = [res |-> r.res, band |-> None, start |-> r.start,
                                       members |-> r.members, count |-> r.count]
         /\ IsRow([r EXCEPT !.band = None], t, n)
  <1>1. [r EXCEPT !.band = None] = [res |-> r.res, band |-> None, start |-> r.start,
                                    members |-> r.members, count |-> r.count]
    BY DEF IsRow
  <1>. QED  BY <1>1 DEF IsRow

\* The number and the time of a new scan
LEMMA Arrives ==
  ASSUME Control, StoreScan
  PROVE  \E age \in Ages, band \in bands \cup {None} :
           LET new == Scan(Len(stored) + 1, band, now - age)
           IN  /\ rows' = rows \cup {new} /\ stored' = Append(stored, now - age)
               /\ now - age \in 0..now /\ IsRow(new, now, Len(stored) + 1)
               /\ Len(stored') = Len(stored) + 1 /\ Len(stored') <= MaxScans
  <1>1. PICK age \in {a \in Ages : a <= now}, band \in bands \cup {None} :
          /\ rows' = rows \cup {Scan(Len(stored) + 1, band, now - age)}
          /\ stored' = Append(stored, now - age)
    BY DEF StoreScan
  <1>2. now \in Nat /\ age \in Nat /\ age <= now /\ Len(stored) \in Nat /\ band \in Bands \cup {None}
    BY Constants DEF Control
  <1>3. now - age \in 0..now
    BY <1>2
  <1>4. 1 \in Resolutions /\ {Len(stored) + 1} \in SUBSET (1..(Len(stored) + 1))
    BY <1>2 DEF Resolutions
  <1>5. IsRow(Scan(Len(stored) + 1, band, now - age), now, Len(stored) + 1)
    <2>. DEFINE n == Len(stored) + 1  at == now - age
    <2>1. n \in Nat /\ at \in 0..now /\ {n} \in SUBSET (1..n)
      BY <1>2, <1>3, <1>4
    <2>. HIDE DEF n, at
    <2>2. IsRow([res |-> 1, band |-> band, start |-> at, members |-> {n}, count |-> 1], now, n)
      BY <1>2, <1>4, <2>1, RowMade
    <2>. QED  BY <2>2 DEF Scan, n, at
  <1>6. Len(stored) < MaxScans /\ Len(stored') = Len(stored) + 1
    BY <1>1 DEF StoreScan, Control
  <1>7. Len(stored') <= MaxScans
    BY <1>2, <1>6, Constants
  <1>. QED  BY <1>1, <1>3, <1>5, <1>6, <1>7

\* Every step, by what it does to the rows
LEMMA NextCases ==
  ASSUME [Next]_vars
  PROVE  \/ Tick \/ StoreScan \/ DeleteBand \/ Begin \/ Read \/ Roll \/ RollFails \/ Abort
         \/ (run.pc = "purge" /\ Delete(Expired(run.tier - 1)))
         \/ (run.pc = "last" /\ rows' \subseteq rows
               /\ UNCHANGED <<now, bands, stored, run, aborts, deletes>>)
         \/ (run.pc = "purge" /\ UNCHANGED <<now, bands, rows, stored, aborts, deletes>>
               /\ run' = IF run.tier > 2 THEN [run EXCEPT !.pc = "read", !.tier = @ - 1]
                         ELSE [run EXCEPT !.pc = "last", !.tier = Len(Tiers)])
         \/ (run.pc = "last" /\ run' = Idle
               /\ UNCHANGED <<now, bands, rows, stored, aborts, deletes>>)
         \/ UNCHANGED vars
  <1>1. CASE PurgeCoarsest
    BY <1>1 DEF PurgeCoarsest, Delete, kSubset
  <1>2. CASE Purge
    BY <1>2 DEF Purge
  <1>. QED  BY <1>1, <1>2 DEF Next, Job

LEMMA InitInv == Init => Inv
  <1>. SUFFICES ASSUME Init PROVE Inv
    OBVIOUS
  <1>1. 1 \in DOMAIN Tiers
    BY Ladder
  <1>2. Control
    BY <1>1, Constants DEF Init, Control, Idle, Steps
  <1>3. Records /\ Listed /\ PurgeCovered /\ Separate
    BY FS_EmptySet DEF Init, Records, Listed, PurgeCovered, Separate, Idle
  <1>. QED  BY <1>2, <1>3 DEF Inv

\* What the job may become: the rest of it, by its steps
LEMMA StepControl ==
  ASSUME Control, [Next]_vars
  PROVE  Control'
  <1>. USE DEF Control, Steps, Idle
  <1>1. CASE Tick
    BY <1>1, Constants DEF Tick
  <1>2. CASE StoreScan
    <2>1. PICK age \in Ages : /\ stored' = Append(stored, now - age) /\ now - age \in 0..now
                              /\ Len(stored') <= MaxScans
      BY <1>2, Arrives
    <2>2. stored' \in Seq(0..MaxTime)
      BY <2>1, Constants
    <2>. QED  BY <1>2, <2>1, <2>2 DEF StoreScan
  <1>3. CASE DeleteBand
    BY <1>3, Constants DEF DeleteBand
  <1>4. CASE Begin
    <2>1. Len(Tiers) \in DOMAIN Tiers /\ Len(Tiers) \in Nat
      BY Ladder
    <2>. QED  BY <1>4, <2>1 DEF Begin
  <1>5. CASE Read
    BY <1>5 DEF Read
  <1>6. CASE Roll
    BY <1>6 DEF Roll
  <1>7. ASSUME run' = Idle, UNCHANGED <<now, bands, stored, deletes>>, aborts' \in 0..MaxAborts
        PROVE  Control'
    BY <1>7, Ladder
  <1>8. CASE run.pc = "purge" /\ UNCHANGED <<now, bands, rows, stored, aborts, deletes>>
               /\ run' = IF run.tier > 2 THEN [run EXCEPT !.pc = "read", !.tier = @ - 1]
                         ELSE [run EXCEPT !.pc = "last", !.tier = Len(Tiers)]
    <2>1. Len(Tiers) \in DOMAIN Tiers /\ (run.tier > 2 => run.tier - 1 \in DOMAIN Tiers /\ run.tier - 1 > 1)
      BY Ladder
    <2>2. CASE run.tier > 2
      BY <1>8, <2>1, <2>2
    <2>3. CASE ~(run.tier > 2)
      BY <1>8, <2>1, <2>3
    <2>. QED  BY <2>2, <2>3
  <1>9. CASE UNCHANGED <<now, bands, stored, run, aborts, deletes>>
    BY <1>9
  <1>10. CASE RollFails
    BY <1>7, <1>10 DEF RollFails
  <1>11. CASE Abort
    BY <1>7, <1>11, Constants DEF Abort
  <1>. QED
    BY <1>1, <1>2, <1>3, <1>4, <1>5, <1>6, <1>7, <1>8, <1>9, <1>10, <1>11, NextCases DEF Delete, vars

\* The keys of a list are made of its rows.
LEMMA KeyOf ==
  ASSUME NEW key \in Keys
  PROVE  \E x \in Items(key) : /\ x \in run.list /\ key.band = x.band
                               /\ key.start = Align(x.start, Tiers[run.tier].res)
  BY DEF Keys, Items

LEMMA RollFacts ==
  ASSUME Roll
  PROVE  /\ rows' = (rows \ UNION {Existing(key) : key \in Keys}) \cup {Summary(key) : key \in Keys}
         /\ run.pc = "roll" /\ \A key \in Keys : key.band \in bands \cup {None}
         /\ UNCHANGED <<now, bands, stored, aborts, deletes>>
  BY DEF Roll, Updatable

LEMMA SummaryIsRow ==
  ASSUME Control, Records, NEW key \in Keys
  PROVE  IsRow(Summary(key), now, Len(stored))
  <1>1. PICK x \in run.list : /\ key.band = x.band
                              /\ key.start = Align(x.start, Tiers[run.tier].res)
    BY KeyOf
  <1>2. now \in Nat /\ Len(stored) \in Nat /\ x.start \in 0..now /\ x.band \in Bands \cup {None}
    BY Constants DEF Control, Records, IsRow
  <1>3. Tiers[run.tier].res \in Nat \ {0} /\ Tiers[run.tier].res \in Resolutions
    BY Ladder DEF Control, Resolutions
  <1>4. key.start \in 0..now
    <2>. DEFINE t == x.start  R == Tiers[run.tier].res
    <2>1. t \in Nat /\ t <= now /\ R \in Nat \ {0} /\ key.start = Align(t, R)
      BY <1>1, <1>2, <1>3
    <2>. HIDE DEF t, R
    <2>2. Align(t, R) \in 0..t
      BY <2>1, AlignType
    <2>. QED  BY <1>2, <2>1, <2>2
  <1>5. MembersOf(Items(key)) \in SUBSET (1..Len(stored))
    BY DEF Items, Records, IsRow, MembersOf
  <1>. DEFINE count == MapThenSumSet(LAMBDA r : r.count, Items(key))  members == MembersOf(Items(key))
  <1>. HIDE DEF count, members
  <1>6. IsRow([res |-> Tiers[run.tier].res, band |-> key.band, start |-> key.start,
               members |-> members, count |-> count], now, Len(stored))
    BY <1>1, <1>2, <1>3, <1>4, <1>5, RowMade DEF members
  <1>. QED  BY <1>6 DEF Summary, members, count, MembersOf

\* A transaction makes no more summaries than its list has rows.
LEMMA RolledFinite ==
  ASSUME Records, Roll
  PROVE  IsFiniteSet(rows')
  <1>. DEFINE f == [r \in run.list |-> [band |-> r.band, start |-> Align(r.start, Tiers[run.tier].res)]]
              g == [key \in Keys |-> Summary(key)]
              New == {Summary(key) : key \in Keys}
  <1>1. Keys = {f[r] : r \in run.list}
    BY DEF Keys
  <1>2. New = {g[key] : key \in Keys}
    OBVIOUS
  <1>3. rows' \subseteq rows \cup New
    BY RollFacts
  <1>. HIDE DEF f, g, New
  <1>4. IsFiniteSet(Keys)
    BY <1>1, ImageFinite DEF Records
  <1>5. IsFiniteSet(New)
    BY <1>2, <1>4, ImageFinite
  <1>. QED  BY <1>3, <1>5, FS_Union, FS_Subset DEF Records

LEMMA StepRecords ==
  ASSUME Control, Records, [Next]_vars
  PROVE  Records'
  <1>1. now \in Nat /\ Len(stored) \in Nat
    BY Constants DEF Control
  <1>2. ASSUME rows' \subseteq rows, run'.list \subseteq run.list \cup rows, stored' = stored,
               now' \in Nat, now <= now'
        PROVE  Records'
    <2>1. IsFiniteSet(rows') /\ IsFiniteSet(run'.list)
      <3>1. IsFiniteSet(run.list \cup rows)
        BY FS_Union DEF Records
      <3>. QED  BY <1>2, <3>1, FS_Subset DEF Records
    <2>. QED  BY <1>1, <1>2, <2>1, RowStays DEF Records
  <1>3. CASE StoreScan
    <2>1. PICK new : /\ rows' = rows \cup {new} /\ Len(stored') = Len(stored) + 1
                     /\ IsRow(new, now, Len(stored) + 1)
      BY <1>3, Arrives
    <2>2. now' = now /\ run' = run
      BY <1>3 DEF StoreScan
    <2>3. \A r \in rows \cup run.list : IsRow(r, now, Len(stored) + 1)
      BY <1>1, RowStays DEF Records
    <2>4. IsFiniteSet(rows')
      BY <2>1, FS_AddElement DEF Records
    <2>. QED  BY <2>1, <2>2, <2>3, <2>4 DEF Records
  <1>4. CASE DeleteBand
    <2>1. PICK band \in bands :
            rows' = {IF r.band = band THEN [r EXCEPT !.band = None] ELSE r : r \in rows}
      BY <1>4 DEF DeleteBand
    <2>2. now' = now /\ run' = run /\ stored' = stored
      BY <1>4 DEF DeleteBand
    <2>3. \A r \in rows : IsRow([r EXCEPT !.band = None], now, Len(stored))
      BY Unbanded DEF Records
    <2>4. IsFiniteSet(rows')
      <3>. DEFINE f == [r \in rows |-> IF r.band = band THEN [r EXCEPT !.band = None] ELSE r]
      <3>1. rows' = {f[r] : r \in rows}
        BY <2>1
      <3>. HIDE DEF f
      <3>. QED  BY <3>1, ImageFinite DEF Records
    <2>. QED  BY <2>1, <2>2, <2>3, <2>4 DEF Records
  <1>5. CASE Roll
    <2>1. run'.list = {} /\ rows' \subseteq rows \cup {Summary(key) : key \in Keys}
      BY <1>5 DEF Roll, Control
    <2>2. IsFiniteSet(rows')
      BY <1>5, RolledFinite
    <2>3. IsFiniteSet({})
      BY FS_EmptySet
    <2>. QED  BY <1>5, <2>1, <2>2, <2>3, RollFacts, SummaryIsRow DEF Records
  <1>6. CASE Tick
    BY <1>1, <1>2, <1>6 DEF Tick
  <1>7. CASE Begin \/ RollFails \/ Abort
    BY <1>1, <1>2, <1>7 DEF Begin, RollFails, Abort, Idle
  <1>8. CASE Read
    BY <1>1, <1>2, <1>8 DEF Read, Expired, Control
  <1>9. CASE run.pc = "purge" /\ Delete(Expired(run.tier - 1))
    BY <1>1, <1>2, <1>9 DEF Delete, kSubset
  <1>10. CASE run.pc = "purge" /\ UNCHANGED <<now, bands, rows, stored, aborts, deletes>>
               /\ run' = IF run.tier > 2 THEN [run EXCEPT !.pc = "read", !.tier = @ - 1]
                         ELSE [run EXCEPT !.pc = "last", !.tier = Len(Tiers)]
    <2>1. run'.list = run.list
      BY <1>10 DEF Control
    <2>. QED  BY <1>1, <1>2, <1>10, <2>1
  <1>11. CASE run.pc = "last" /\ run' = Idle
               /\ UNCHANGED <<now, bands, rows, stored, aborts, deletes>>
    BY <1>1, <1>2, <1>11 DEF Idle
  <1>12. CASE rows' \subseteq rows /\ UNCHANGED <<now, bands, stored, run, aborts, deletes>>
    BY <1>1, <1>2, <1>12
  <1>. QED
    BY <1>3, <1>4, <1>5, <1>6, <1>7, <1>8, <1>9, <1>10, <1>11, <1>12, NextCases DEF vars

-----------------------------------------------------------------------------
(* What a purge finds was rolled up before it                              *)

\* A scan that is stored while the job runs is too young for it.
LEMMA NewScanIsYoung ==
  ASSUME Control, StoreScan, NEW i \in DOMAIN Tiers
  PROVE  Expired(i)' = Expired(i)
  <1>1. PICK age \in Ages, band \in bands \cup {None} :
          /\ rows' = rows \cup {Scan(Len(stored) + 1, band, now - age)}
          /\ now - age \in 0..now
    BY Arrives
  <1>. DEFINE new == Scan(Len(stored) + 1, band, now - age)
  <1>2. new.res = 1 /\ new.start = now - age
    BY DEF Scan
  <1>3. run' = run /\ now \in Nat /\ run.at \in 0..now /\ age \in Nat /\ age <= Tiers[1].keep
    BY Constants DEF StoreScan, Control
  <1>4. Tiers[1].keep \in Nat
    BY Ladder
  <1>. HIDE DEF new
  <1>5. ~(new.res = Tiers[i].res /\ new.start + Tiers[i].keep < run.at)
    <2>1. CASE i = 1
      BY <1>2, <1>3, <1>4, <2>1
    <2>2. CASE i # 1
      <3>1. Tiers[i].res > 1
        BY <2>2, Ladder
      <3>. QED  BY <1>2, <3>1
    <2>. QED  BY <2>1, <2>2
  <1>. QED  BY <1>1, <1>3, <1>5 DEF Expired, new

\* What a deleted band makes of the rows that are too old
LEMMA ExpiredUnbanded ==
  ASSUME Records, DeleteBand, NEW i \in DOMAIN Tiers
  PROVE  \E band \in bands :
           /\ bands' = bands \ {band} /\ run' = run
           /\ \A r \in rows : r.band # band => r \in rows'
           /\ \A s \in rows : \E r \in rows' : r.res = s.res /\ r.members = s.members
           /\ \A r \in Expired(i)' : \E s \in Expired(i) :
                r.members = s.members /\ (s.band = band \/ r = s)
  <1>1. PICK band \in bands :
          /\ bands' = bands \ {band}
          /\ rows' = {IF r.band = band THEN [r EXCEPT !.band = None] ELSE r : r \in rows}
    BY DEF DeleteBand
  <1>2. run' = run
    BY DEF DeleteBand
  <1>3. ASSUME NEW s \in rows
        PROVE  LET r == [s EXCEPT !.band = None]
               IN  r.res = s.res /\ r.start = s.start /\ r.members = s.members
    BY Unbanded DEF Records
  <1>4. \A r \in rows : r.band # band => r \in rows'
    BY <1>1
  <1>5. \A s \in rows : \E r \in rows' : r.res = s.res /\ r.members = s.members
    BY <1>1, <1>3
  <1>6. ASSUME NEW r \in Expired(i)'
        PROVE  \E s \in Expired(i) : r.members = s.members /\ (s.band = band \/ r = s)
    <2>1. r \in rows' /\ r.res = Tiers[i].res /\ r.start + Tiers[i].keep < run.at
      BY <1>2 DEF Expired
    <2>2. PICK s \in rows : r = IF s.band = band THEN [s EXCEPT !.band = None] ELSE s
      BY <1>1, <2>1
    <2>3. r.res = s.res /\ r.start = s.start /\ r.members = s.members
      BY <1>3, <2>2
    <2>. QED  BY <2>1, <2>2, <2>3 DEF Expired
  <1>. QED  BY <1>1, <1>2, <1>4, <1>5, <1>6

LEMMA StepListed ==
  ASSUME Control, Records, Listed, [Next]_vars
  PROVE  Listed'
  <1>. SUFFICES ASSUME run'.pc = "roll" PROVE Listed'
    BY DEF Listed
  <1>1. CASE Read
    <2>1. /\ run'.list = Expired(run.tier - 1) /\ run'.tier = run.tier /\ run'.at = run.at
          /\ rows' = rows /\ bands' = bands
      BY <1>1 DEF Read, Control
    <2>2. Expired(run.tier - 1)' = Expired(run.tier - 1)
      BY <2>1 DEF Expired
    <2>. QED  BY <2>1, <2>2 DEF Listed, Expired
  <1>2. CASE StoreScan
    <2>1. run' = run /\ bands' = bands /\ rows \subseteq rows'
      BY <1>2 DEF StoreScan
    <2>2. run.pc = "roll" /\ run.tier - 1 \in DOMAIN Tiers
      BY <2>1, Ladder DEF Control
    <2>3. PICK i \in DOMAIN Tiers : i = run.tier - 1
      BY <2>2
    <2>4. Expired(i)' = Expired(i)
      BY <1>2, NewScanIsYoung
    <2>5. Expired(run.tier - 1)' = Expired(run.tier - 1)
      BY <2>1, <2>3, <2>4 DEF Expired
    <2>. QED  BY <2>1, <2>2, <2>5 DEF Listed, Gone
  <1>3. CASE DeleteBand
    <2>1. run.pc = "roll" /\ run' = run /\ run.tier - 1 \in DOMAIN Tiers
      BY <1>3, Ladder DEF DeleteBand, Control
    <2>2. PICK band \in bands :
           /\ bands' = bands \ {band}
           /\ \A r \in rows : r.band # band => r \in rows'
           /\ \A r \in Expired(run.tier - 1)' : \E s \in Expired(run.tier - 1) :
                s.band = band \/ r = s
      BY <1>3, <2>1, ExpiredUnbanded
    <2>3. band # None
      BY Constants DEF Control
    <2>4. \A r \in Expired(run.tier - 1) : r.band = band \/ r \in Expired(run.tier - 1)'
      BY <2>1, <2>2 DEF Expired
    <2>5. \A r \in run.list : r \in Expired(run.tier - 1) => r \in Expired(run.tier - 1)' \/ Gone(r)'
      BY <2>2, <2>3, <2>4 DEF Gone
    <2>. QED  BY <2>1, <2>2, <2>3, <2>5 DEF Listed, Gone
  <1>4. CASE Tick \/ UNCHANGED vars
    <2>1. UNCHANGED <<bands, rows, run>> /\ run.pc = "roll"
      BY <1>4 DEF Tick, vars
    <2>. QED  BY <2>1 DEF Listed, Gone, Expired
  <1>5. CASE ~(Read \/ StoreScan \/ DeleteBand \/ Tick \/ UNCHANGED vars)
    <2>1. CASE Begin \/ RollFails \/ Abort
      BY <2>1 DEF Begin, RollFails, Abort, Idle
    <2>2. CASE Roll
      BY <2>2 DEF Roll, Control
    <2>3. CASE run.pc \in {"purge", "last"} /\ UNCHANGED run
      BY <2>3
    <2>4. CASE run.pc = "purge"
               /\ run' = IF run.tier > 2 THEN [run EXCEPT !.pc = "read", !.tier = @ - 1]
                         ELSE [run EXCEPT !.pc = "last", !.tier = Len(Tiers)]
      BY <2>4 DEF Control
    <2>5. CASE run' = Idle
      BY <2>5 DEF Idle
    <2>. QED  BY <1>5, <2>1, <2>2, <2>3, <2>4, <2>5, NextCases DEF Delete
  <1>. QED  BY <1>1, <1>2, <1>3, <1>4, <1>5

\* When the transaction succeeds no band of its list has been deleted, so the
\* list is what the tier holds.
LEMMA ListIsThere ==
  ASSUME Control, Records, Listed, Roll
  PROVE  /\ run.list = Expired(run.tier - 1) /\ run.list \subseteq rows
         /\ \A x \in run.list : x.res = Tiers[run.tier - 1].res
  <1>1. ASSUME NEW x \in run.list PROVE ~Gone(x)
    <2>. DEFINE key == [band |-> x.band, start |-> Align(x.start, Tiers[run.tier].res)]
    <2>1. key \in Keys
      BY DEF Keys
    <2>2. key.band \in bands \cup {None}
      BY <2>1, RollFacts
    <2>. QED  BY <2>2 DEF Gone
  <1>. QED  BY <1>1, RollFacts DEF Listed, Expired

LEMMA StepCovered ==
  ASSUME Inv, [Next]_vars
  PROVE  PurgeCovered'
  <1>. USE DEF Inv
  <1>. SUFFICES ASSUME run'.pc = "purge" PROVE PurgeCovered'
    BY DEF PurgeCovered
  <1>1. CASE Read
    <2>1. /\ run'.list = Expired(run.tier - 1) /\ run'.tier = run.tier /\ run'.at = run.at
          /\ rows' = rows /\ Expired(run.tier - 1) = {}
      BY <1>1 DEF Read, Control
    <2>. QED  BY <2>1 DEF PurgeCovered, Expired
  <1>2. CASE Roll
    <2>1. run'.tier = run.tier /\ run'.at = run.at
      BY <1>2 DEF Roll, Control
    <2>. DEFINE res == Tiers[run.tier].res
    <2>2. ASSUME NEW r \in Expired(run.tier - 1)'
          PROVE  \E s \in rows' : s.res = res /\ r.members \subseteq s.members
      <3>1. CASE r \in rows
        <4>1. r \in run.list
          BY <1>2, <2>1, <3>1, ListIsThere DEF Expired
        <4>. DEFINE key == [band |-> r.band, start |-> Align(r.start, res)]
        <4>2. key \in Keys /\ r \in Items(key)
          BY <4>1 DEF Keys, Items
        <4>. HIDE DEF key
        <4>3. Summary(key) \in rows' /\ Summary(key).res = res /\ r.members \subseteq Summary(key).members
          BY <1>2, <4>2, RollFacts DEF Summary
        <4>. QED  BY <4>3
      <3>2. CASE r \notin rows
        <4>1. PICK key \in Keys : r = Summary(key)
          BY <1>2, <3>2, RollFacts DEF Expired
        <4>2. r.res = res /\ r \in rows'
          BY <4>1 DEF Summary, Expired
        <4>. QED  BY <4>2
      <3>. QED  BY <3>1, <3>2
    <2>. QED  BY <2>1, <2>2 DEF PurgeCovered
  <1>3. CASE StoreScan
    <2>1. run' = run /\ rows \subseteq rows'
      BY <1>3 DEF StoreScan
    <2>2. PICK i \in DOMAIN Tiers : i = run.tier - 1
      BY <2>1, Ladder DEF Control
    <2>3. Expired(i)' = Expired(i)
      BY <1>3, NewScanIsYoung
    <2>. QED  BY <2>1, <2>2, <2>3 DEF PurgeCovered
  <1>4. CASE DeleteBand
    <2>1. run' = run
      BY <1>4 DEF DeleteBand
    <2>2. PICK i \in DOMAIN Tiers : i = run.tier - 1
      BY <2>1, Ladder DEF Control
    <2>3. /\ \A s \in rows : \E r \in rows' : r.res = s.res /\ r.members = s.members
          /\ \A r \in Expired(i)' : \E s \in Expired(i) : r.members = s.members
      BY <1>4, ExpiredUnbanded
    <2>4. ASSUME NEW r \in Expired(i)'
          PROVE  \E s \in rows' : s.res = Tiers[run.tier].res /\ r.members \subseteq s.members
      <3>1. PICK q \in Expired(i) : r.members = q.members
        BY <2>3
      <3>2. PICK s \in rows : s.res = Tiers[run.tier].res /\ q.members \subseteq s.members
        BY <2>1, <2>2, <3>1 DEF PurgeCovered
      <3>. QED  BY <2>3, <3>1, <3>2
    <2>. QED  BY <2>1, <2>2, <2>4 DEF PurgeCovered
  <1>5. CASE run.pc = "purge" /\ Delete(Expired(run.tier - 1))
    <2>1. /\ run' = run /\ rows' \subseteq rows
          /\ \A s \in rows : s \notin Expired(run.tier - 1) => s \in rows'
      BY <1>5 DEF Delete, kSubset
    <2>2. ASSUME NEW r \in Expired(run.tier - 1), r \in rows'
          PROVE  \E s \in rows' : s.res = Tiers[run.tier].res /\ r.members \subseteq s.members
      <3>1. PICK s \in rows : s.res = Tiers[run.tier].res /\ r.members \subseteq s.members
        BY <1>5 DEF PurgeCovered
      <3>2. CASE s \in Expired(run.tier - 1)
        \* the two tiers are of one resolution, and r is a summary of its own
        BY <2>2, <3>1, <3>2 DEF Expired
      <3>3. CASE s \notin Expired(run.tier - 1)
        BY <2>1, <3>1, <3>3
      <3>. QED  BY <3>2, <3>3
    <2>3. Expired(run.tier - 1)' \subseteq Expired(run.tier - 1) \cap rows'
      BY <2>1 DEF Expired
    <2>. QED  BY <2>1, <2>2, <2>3 DEF PurgeCovered
  <1>6. CASE Tick \/ UNCHANGED vars
    <2>1. UNCHANGED <<rows, run>>
      BY <1>6 DEF Tick, vars
    <2>. QED  BY <2>1 DEF PurgeCovered, Expired
  <1>7. CASE run.pc = "purge"
               /\ run' = IF run.tier > 2 THEN [run EXCEPT !.pc = "read", !.tier = @ - 1]
                         ELSE [run EXCEPT !.pc = "last", !.tier = Len(Tiers)]
    BY <1>7 DEF Control
  <1>8. CASE Begin \/ RollFails \/ Abort \/ run' = Idle
    BY <1>8 DEF Begin, RollFails, Abort, Idle
  <1>9. CASE run.pc = "last" /\ UNCHANGED run
    BY <1>9
  <1>. QED
    BY <1>1, <1>2, <1>3, <1>4, <1>5, <1>6, <1>7, <1>8, <1>9, NextCases

\* Two rows of the same scan, one of which a purge is about to delete
Shared(r, s) == r # s /\ r.members \cap s.members # {}

LEMMA StepSeparate ==
  ASSUME Inv, [Next]_vars
  PROVE  Separate'
  <1>. USE DEF Inv, Shared
  <1>. SUFFICES ASSUME aborts' = 0, NEW r \in rows', NEW s \in rows', Shared(r, s)
                PROVE  /\ run'.pc = "purge"
                       /\ r \in Expired(run.tier - 1)' \/ s \in Expired(run.tier - 1)'
    BY DEF Separate
  <1>0. aborts \in Nat /\ run.pc \in Steps
    BY Constants DEF Control
  <1>1. ASSUME aborts = 0, NEW p \in rows, NEW q \in rows, Shared(p, q)
        PROVE  run.pc = "purge" /\ (p \in Expired(run.tier - 1) \/ q \in Expired(run.tier - 1))
    BY <1>1 DEF Separate
  <1>2. ASSUME aborts' = aborts, rows' \subseteq rows, run.pc # "purge" PROVE FALSE
    BY <1>1, <1>2
  <1>3. CASE UNCHANGED <<rows, run, aborts>>
    <2>1. Expired(run.tier - 1)' = Expired(run.tier - 1)
      BY <1>3 DEF Expired
    <2>. QED  BY <1>1, <1>3, <2>1
  <1>4. CASE StoreScan
    <2>1. PICK age \in Ages, band \in bands \cup {None} :
            rows' = rows \cup {Scan(Len(stored) + 1, band, now - age)}
      BY <1>4, Arrives
    <2>. DEFINE n == Len(stored) + 1  new == Scan(n, band, now - age)
    <2>2. \A q \in rows : n \notin q.members
      BY DEF Control, Records, IsRow
    <2>3. r \in rows /\ s \in rows
      <3>1. new.members = {n} /\ rows' = rows \cup {new}
        BY <2>1 DEF Scan
      <3>. HIDE DEF n, new
      <3>. QED  BY <2>2, <3>1
    <2>4. run' = run /\ aborts' = aborts
      BY <1>4 DEF StoreScan
    <2>5. run.pc = "purge" /\ (r \in Expired(run.tier - 1) \/ s \in Expired(run.tier - 1))
      BY <1>1, <2>3, <2>4
    <2>6. Expired(run.tier - 1) \subseteq Expired(run.tier - 1)'
      BY <2>1, <2>4 DEF Expired
    <2>. QED  BY <2>4, <2>5, <2>6
  <1>5. CASE DeleteBand
    <2>1. PICK band \in bands :
            rows' = {IF q.band = band THEN [q EXCEPT !.band = None] ELSE q : q \in rows}
      BY <1>5 DEF DeleteBand
    <2>2. PICK p \in rows, q \in rows :
            /\ r = IF p.band = band THEN [p EXCEPT !.band = None] ELSE p
            /\ s = IF q.band = band THEN [q EXCEPT !.band = None] ELSE q
      BY <2>1
    <2>3. /\ r.res = p.res /\ r.start = p.start /\ r.members = p.members
          /\ s.res = q.res /\ s.start = q.start /\ s.members = q.members
      <3>1. ASSUME NEW x \in rows
            PROVE  LET y == [x EXCEPT !.band = None]
                   IN  y.res = x.res /\ y.start = x.start /\ y.members = x.members
        BY Unbanded DEF Records
      <3>. QED  BY <2>2, <3>1
    <2>4. run' = run /\ aborts' = aborts
      BY <1>5 DEF DeleteBand
    <2>5. Shared(p, q)
      BY <2>2, <2>3
    <2>6. run.pc = "purge" /\ (p \in Expired(run.tier - 1) \/ q \in Expired(run.tier - 1))
      BY <1>1, <2>4, <2>5
    <2>. QED  BY <2>3, <2>4, <2>6 DEF Expired
  <1>6. CASE Begin \/ Read \/ RollFails
    BY <1>2, <1>6 DEF Begin, Read, RollFails
  <1>7. CASE Roll
    <2>. DEFINE Old == rows \ UNION {Existing(key) : key \in Keys}
    <2>1. /\ rows' = Old \cup {Summary(key) : key \in Keys}
          /\ run'.pc = "purge" /\ run'.tier = run.tier /\ run'.at = run.at /\ aborts' = aborts
      BY <1>7 DEF Roll, Control
    <2>2. run.pc = "roll" /\ run.list \subseteq rows /\ run.list = Expired(run.tier - 1)
      BY <1>7, ListIsThere, RollFacts
    <2>3. \A p, q \in rows : ~Shared(p, q)
      BY <1>1, <2>1, <2>2
    \* where a summary has a scan from
    <2>4. ASSUME NEW key \in Keys, NEW id \in Summary(key).members
          PROVE  \E x \in run.list : /\ id \in x.members
                                    /\ key = [band |-> x.band, start |-> Align(x.start, Tiers[run.tier].res)]
      BY DEF Summary, Items, Keys
    <2>5. ASSUME NEW p \in rows', NEW q \in Old, p \notin Old, Shared(p, q)
          PROVE  q \in Expired(run.tier - 1)'
      <3>1. PICK key \in Keys : p = Summary(key)
        BY <2>1, <2>5
      <3>2. PICK id \in p.members : id \in q.members
        BY <2>5
      <3>3. PICK x \in run.list : id \in x.members
        BY <2>4, <3>1, <3>2
      <3>4. x = q
        BY <2>2, <2>3, <3>2, <3>3
      <3>5. q \in rows' /\ q \in Expired(run.tier - 1)
        BY <2>1, <2>2, <3>3, <3>4
      <3>. QED  BY <2>1, <3>5 DEF Expired
    <2>6. CASE r \in Old /\ s \in Old
      BY <2>3, <2>6
    <2>7. CASE r \notin Old /\ s \in Old
      BY <2>1, <2>5, <2>7
    <2>8. CASE r \in Old /\ s \notin Old
      BY <2>1, <2>5, <2>8
    <2>9. CASE r \notin Old /\ s \notin Old
      <3>1. PICK key \in Keys, other \in Keys : r = Summary(key) /\ s = Summary(other)
        BY <2>1, <2>9
      <3>2. PICK id \in r.members : id \in s.members
        OBVIOUS
      <3>3. PICK x \in run.list, y \in run.list :
              /\ id \in x.members /\ id \in y.members
              /\ key = [band |-> x.band, start |-> Align(x.start, Tiers[run.tier].res)]
              /\ other = [band |-> y.band, start |-> Align(y.start, Tiers[run.tier].res)]
        BY <2>4, <3>1, <3>2
      <3>4. x = y
        BY <2>2, <2>3, <3>3
      <3>. QED  BY <3>1, <3>3, <3>4
    <2>. QED  BY <2>6, <2>7, <2>8, <2>9
  <1>8. CASE rows' \subseteq rows /\ run' = run /\ aborts' = aborts
    <2>1. run.pc = "purge" /\ (r \in Expired(run.tier - 1) \/ s \in Expired(run.tier - 1))
      BY <1>1, <1>8
    <2>. QED  BY <1>8, <2>1 DEF Expired
  <1>9. CASE run.pc = "purge" /\ Expired(run.tier - 1) = {} /\ rows' = rows /\ aborts' = aborts
    BY <1>1, <1>9
  <1>10. CASE Abort
    BY <1>0, <1>10 DEF Abort
  <1>11. CASE Purge
    BY <1>8, <1>9, <1>11 DEF Purge, Delete, kSubset
  <1>12. CASE PurgeCoarsest
    BY <1>2, <1>12 DEF PurgeCoarsest, Delete, kSubset
  <1>13. CASE Tick \/ UNCHANGED vars
    BY <1>3, <1>13 DEF Tick, vars
  <1>. QED
    BY <1>4, <1>5, <1>6, <1>7, <1>10, <1>11, <1>12, <1>13 DEF Next, Job

LEMMA NextInv == Inv /\ [Next]_vars => Inv'
  BY StepControl, StepRecords, StepListed, StepCovered, StepSeparate DEF Inv

\* Whatever arrives, is deleted or dies between the job's statements: the rows
\* are well formed, the list that a transaction works on is still what the tier
\* holds or the transaction will fail, and the purge that follows finds every
\* row covered (Scanner.rollup, one tier after the other).
THEOREM Invariance == Safe => []Inv
  BY InitInv, NextInv, PTL DEF Safe

\* What a purge may delete is contained in a summary of the tier above, for
\* every retention policy: Scanner.rollup deletes by the cutoff that it rolled
\* up by, and a new scan is too young for either.
THEOREM PurgesAreCovered == Safe => []PurgeCovered
  <1>1. Inv => PurgeCovered
    BY DEF Inv
  <1>. QED  BY <1>1, Invariance, PTL

-----------------------------------------------------------------------------
(* Every scan is counted once                                              *)

\* Buckets are made of whole buckets of the tier before, as in every policy
\* that the repository names.
Multiples == \A i \in 2..Len(Tiers) : Tiers[i].res % Tiers[i - 1].res = 0

\* The inductive part of CountsExact: the rows of one resolution hold disjoint
\* sets of scans, because each lies in the bucket that its scans fall into and
\* has their band.
Exact ==
  /\ Counted(rows \cup run.list)
  /\ \A r \in rows : \A id \in r.members : Align(stored[id], r.res) = r.start
  \* a scan has one band, whatever became of it
  /\ \A r, s \in rows : r.members \cap s.members # {} => r.band = s.band
  \* and is in one row of a resolution
  /\ \A r, s \in rows : r.res = s.res /\ r # s => r.members \cap s.members = {}

LEMMA InitExact == Init => Exact
  BY DEF Init, Exact, Counted, Idle

\* Deleting rows, and reading the list from the table
LEMMA ExactShrinks ==
  ASSUME Exact, rows' \subseteq rows, run'.list \subseteq run.list \cup rows, stored' = stored
  PROVE  Exact'
  <1>1. Counted(rows \cup run.list)'
    BY DEF Exact, Counted
  <1>. QED  BY <1>1 DEF Exact

LEMMA ExactArrives ==
  ASSUME Inv, Exact, StoreScan
  PROVE  Exact'
  <1>. USE DEF Inv
  <1>1. PICK age \in Ages, band \in bands \cup {None} :
          /\ rows' = rows \cup {Scan(Len(stored) + 1, band, now - age)}
          /\ stored' = Append(stored, now - age) /\ now - age \in 0..now
    BY Arrives
  <1>. DEFINE n == Len(stored) + 1  at == now - age  new == Scan(n, band, at)
  <1>2. /\ new.res = 1 /\ new.start = at /\ new.members = {n} /\ new.count = 1
    BY DEF Scan
  <1>3. /\ \A r \in rows : r.members \subseteq 1..Len(stored)
        /\ n \notin 1..Len(stored) /\ run' = run
        /\ stored'[n] = at /\ \A id \in 1..Len(stored) : stored'[id] = stored[id]
    BY <1>1 DEF StoreScan, Control, Records, IsRow
  <1>4. at \in Nat
    BY <1>1
  <1>. HIDE DEF n, at, new
  <1>5. Align(at, 1) = at
    BY <1>4 DEF Align
  <1>6. rows' = rows \cup {new}
    BY <1>1 DEF n, at, new
  <1>7. Counted(rows \cup run.list)'
    BY <1>2, <1>3, <1>6, FS_Singleton DEF Exact, Counted
  <1>8. \A r \in rows' : \A id \in r.members : Align(stored'[id], r.res) = r.start
    BY <1>2, <1>3, <1>5, <1>6 DEF Exact
  <1>9. \A r \in rows : r.members \cap new.members = {}
    BY <1>2, <1>3
  <1>. QED  BY <1>6, <1>7, <1>8, <1>9 DEF Exact

LEMMA ExactUnbanded ==
  ASSUME Inv, Exact, DeleteBand
  PROVE  Exact'
  <1>1. PICK band \in bands :
          rows' = {IF r.band = band THEN [r EXCEPT !.band = None] ELSE r : r \in rows}
    BY DEF DeleteBand
  <1>. DEFINE f == [r \in rows |-> IF r.band = band THEN [r EXCEPT !.band = None] ELSE r]
  <1>2. rows' = {f[r] : r \in rows}
    BY <1>1
  <1>3. ASSUME NEW r \in rows
        PROVE  /\ f[r].res = r.res /\ f[r].start = r.start
               /\ f[r].members = r.members /\ f[r].count = r.count
               /\ f[r].band = IF r.band = band THEN None ELSE r.band
    <2>1. IsRow(r, now, Len(stored))
      BY DEF Inv, Records
    <2>. QED  BY <2>1, Unbanded
  <1>. HIDE DEF f
  <1>4. run' = run /\ stored' = stored
    BY DEF DeleteBand
  <1>5. Counted(rows \cup run.list)'
    BY <1>2, <1>3, <1>4 DEF Exact, Counted
  <1>6. \A r \in rows' : \A id \in r.members : Align(stored'[id], r.res) = r.start
    BY <1>2, <1>3, <1>4 DEF Exact
  <1>7. \A r, s \in rows' : r.members \cap s.members # {} => r.band = s.band
    BY <1>2, <1>3 DEF Exact
  <1>8. \A r, s \in rows' : r.res = s.res /\ r # s => r.members \cap s.members = {}
    BY <1>2, <1>3 DEF Exact
  <1>. QED  BY <1>5, <1>6, <1>7, <1>8 DEF Exact

\* What the transaction makes of a key: its members are those of the rows of
\* the list that fall into its bucket, counted once.
LEMMA SummaryFacts ==
  ASSUME Inv, Exact, Multiples, Roll, NEW key \in Keys
  PROVE  /\ Summary(key).count = Cardinality(Summary(key).members)
         /\ \A id \in Summary(key).members :
              /\ Align(stored[id], Tiers[run.tier].res) = key.start
              /\ \E x \in Items(key) : id \in x.members /\ x \in rows
  <1>. USE DEF Inv
  <1>1. /\ run.list \subseteq rows
        /\ \A x \in run.list : x.res = Tiers[run.tier - 1].res
    BY ListIsThere
  <1>. DEFINE S == Items(key)  U == 1..Len(stored)  R == Tiers[run.tier].res
  <1>2. S \subseteq run.list /\ \A x \in S : x.band = key.band /\ Align(x.start, R) = key.start
    BY DEF Items
  <1>3. Summary(key).members = MembersOf(S)
        /\ Summary(key).count = MapThenSumSet(LAMBDA r : r.count, S)
    BY DEF Summary, MembersOf
  <1>4. IsFiniteSet(U)
    <2>1. Len(stored) \in Int
      BY DEF Control
    <2>. QED  BY <2>1, FS_Interval
  <1>5. IsFiniteSet(S)
    BY <1>2, FS_Subset DEF Records
  <1>6. /\ \A r \in S : r.members \subseteq U
        /\ Apart(S) /\ Counted(S)
    BY <1>1, <1>2 DEF Records, IsRow, Exact, Apart, Counted
  <1>. HIDE DEF S, U
  <1>7. Summary(key).count = Cardinality(Summary(key).members)
    BY <1>3, <1>4, <1>5, <1>6, CountsAddUp
  <1>8. ASSUME NEW id \in Summary(key).members
        PROVE  /\ Align(stored[id], R) = key.start
               /\ \E x \in S : id \in x.members /\ x \in rows
    <2>1. PICK x \in S : id \in x.members
      BY <1>3 DEF MembersOf
    <2>. DEFINE k == x.res  t == stored[id]
    <2>2. x \in rows /\ k = Tiers[run.tier - 1].res
      BY <1>1, <1>2
    <2>3. t \in Nat
      BY <1>6, <2>1, Constants DEF Control, U
    <2>4. run.tier \in 2..Len(Tiers) /\ run.tier - 1 \in DOMAIN Tiers
      BY Ladder, RollFacts DEF Control
    <2>5. k \in Nat \ {0} /\ R \in Nat \ {0} /\ R % k = 0
      BY <2>2, <2>4, Ladder DEF Multiples
    <2>6. Align(t, k) = x.start
      BY <2>1, <2>2 DEF Exact
    <2>7. Align(x.start, R) = key.start
      BY <1>2
    <2>. HIDE DEF k, t, R
    <2>8. Align(Align(t, k), R) = Align(t, R)
      BY <2>3, <2>5, AlignTwice
    <2>9. Align(t, R) = key.start
      BY <2>6, <2>7, <2>8
    <2>. QED  BY <2>1, <2>2, <2>9 DEF t
  <1>. QED  BY <1>7, <1>8 DEF S

LEMMA ExactRolls ==
  ASSUME Inv, Exact, Multiples, Roll
  PROVE  Exact'
  <1>. USE DEF Inv
  <1>. DEFINE R == Tiers[run.tier].res
              Old == rows \ UNION {Existing(key) : key \in Keys}
              New == {Summary(key) : key \in Keys}
  <1>1. rows' = Old \cup New /\ run'.list = {} /\ stored' = stored
    BY DEF Roll, Control
  <1>2. /\ run.list \subseteq rows
        /\ \A x \in run.list : x.res = Tiers[run.tier - 1].res
    BY ListIsThere
  <1>3. ASSUME NEW key \in Keys
        PROVE  /\ Summary(key).res = R /\ Summary(key).band = key.band /\ Summary(key).start = key.start
               /\ \A x \in Items(key) : x \in rows /\ x.band = key.band
                     /\ key = [band |-> x.band, start |-> Align(x.start, R)]
    BY <1>2 DEF Summary, Items, Keys
  <1>4. Counted(rows \cup run.list)'
    BY <1>1, SummaryFacts DEF Exact, Counted
  <1>5. \A r \in rows' : \A id \in r.members : Align(stored'[id], r.res) = r.start
    BY <1>1, <1>3, SummaryFacts DEF Exact
  \* where a row has a scan from
  <1>6. ASSUME NEW r \in rows', NEW id \in r.members
        PROVE  \E x \in rows : id \in x.members /\ x.band = r.band
    BY <1>1, <1>3, SummaryFacts
  <1>7. ASSUME NEW r \in rows', NEW s \in rows', r.members \cap s.members # {}
        PROVE  r.band = s.band
    <2>1. PICK id : id \in r.members /\ id \in s.members
      BY <1>7
    <2>2. PICK x \in rows, y \in rows : /\ id \in x.members /\ x.band = r.band
                                       /\ id \in y.members /\ y.band = s.band
      BY <1>6, <2>1
    <2>. QED  BY <2>2 DEF Exact
  \* a summary and a row that it did not replace
  <1>8. ASSUME NEW key \in Keys, NEW s \in Old, s.res = R,
               NEW id \in Summary(key).members, id \in s.members
        PROVE  FALSE
    <2>1. s.band = key.band
      BY <1>1, <1>3, <1>7, <1>8
    <2>2. s.start = key.start
      BY <1>8, SummaryFacts DEF Exact
    <2>3. s \in Existing(key)
      BY <1>8, <2>1, <2>2 DEF Existing
    <2>. QED  BY <2>3
  \* two summaries
  <1>9. ASSUME NEW key \in Keys, NEW other \in Keys,
                NEW id \in Summary(key).members, id \in Summary(other).members
         PROVE  key = other
    <2>1. PICK x \in Items(key), y \in Items(other) : id \in x.members /\ id \in y.members
      BY <1>9, SummaryFacts
    <2>2. x \in run.list /\ y \in run.list
      BY DEF Items
    <2>3. x = y
      BY <1>2, <2>1, <2>2 DEF Exact
    <2>. QED  BY <1>3, <2>3
  <1>10. \A r, s \in rows' : r.res = s.res /\ r # s => r.members \cap s.members = {}
    <2>1. SUFFICES ASSUME NEW r \in rows', NEW s \in rows', r.res = s.res, r # s,
                          NEW id \in r.members, id \in s.members
                   PROVE  FALSE
      OBVIOUS
    <2>2. CASE r \in Old /\ s \in Old
      BY <2>1, <2>2 DEF Exact
    <2>3. CASE r \in New /\ s \in Old
      BY <1>3, <1>8, <2>1, <2>3
    <2>4. CASE r \in Old /\ s \in New
      BY <1>3, <1>8, <2>1, <2>4
    <2>5. CASE r \in New /\ s \in New
      BY <1>9, <2>1, <2>5
    <2>. QED  BY <1>1, <2>2, <2>3, <2>4, <2>5
  <1>. QED  BY <1>4, <1>5, <1>7, <1>10 DEF Exact

LEMMA NextExact ==
  ASSUME Inv, Exact, Multiples, [Next]_vars
  PROVE  Exact'
  <1>1. CASE Tick \/ UNCHANGED vars
    BY <1>1, ExactShrinks DEF Tick, vars
  <1>2. CASE Begin \/ RollFails \/ Abort
    BY <1>2, ExactShrinks DEF Begin, RollFails, Abort, Idle
  <1>3. CASE Read
    BY <1>3, ExactShrinks DEF Read, Expired, Inv, Control
  <1>4. CASE run.pc = "purge" /\ Delete(Expired(run.tier - 1))
    BY <1>4, ExactShrinks DEF Delete, kSubset
  <1>5. CASE UNCHANGED <<rows, stored>>
               /\ run' = IF run.tier > 2 THEN [run EXCEPT !.pc = "read", !.tier = @ - 1]
                         ELSE [run EXCEPT !.pc = "last", !.tier = Len(Tiers)]
    <2>1. run'.list = run.list
      BY <1>5 DEF Inv, Control
    <2>. QED  BY <1>5, <2>1, ExactShrinks
  <1>6. CASE run' = Idle /\ UNCHANGED <<rows, stored>>
    BY <1>6, ExactShrinks DEF Idle
  <1>7. CASE rows' \subseteq rows /\ UNCHANGED <<stored, run>>
    BY <1>7, ExactShrinks
  <1>. QED
    BY <1>1, <1>2, <1>3, <1>4, <1>5, <1>6, <1>7, ExactArrives, ExactUnbanded, ExactRolls, NextCases

LEMMA RowsAreRows ==
  ASSUME Inv, Exact
  PROVE  rows \subseteq Row /\ run.list \subseteq Row
  <1>1. Len(stored) \in Int /\ now \in 0..MaxTime /\ Len(stored) <= MaxScans /\ MaxScans \in Nat
        /\ MaxTime \in Nat
    BY Constants DEF Inv, Control
  <1>2. ASSUME NEW r \in rows \cup run.list PROVE r \in Row
    <2>1. IsRow(r, now, Len(stored)) /\ r.count = Cardinality(r.members)
      BY DEF Inv, Records, Exact, Counted
    <2>2. IsFiniteSet(r.members)
      <3>1. IsFiniteSet(1..Len(stored))
        BY <1>1, FS_Interval
      <3>2. r.members \in SUBSET (1..Len(stored))
        BY <2>1 DEF IsRow
      <3>. QED  BY <3>1, <3>2, FS_Subset
    <2>3. r.count \in Nat
      BY <2>1, <2>2, FS_CardinalityType
    <2>4. r.start \in 0..MaxTime /\ r.members \subseteq Ids
      BY <1>1, <2>1 DEF IsRow, Ids
    <2>. QED  BY <2>1, <2>3, <2>4 DEF IsRow, Row
  <1>. QED  BY <1>2

\* Rows of one resolution and band are one per bucket, hold what falls into it,
\* and no scan is in two of them, as update_or_create of a bucket's summary
\* intends.
THEOREM Exactness ==
  ASSUME Multiples
  PROVE  Safe => [](Inv /\ Exact)
  <1>1. Init => Inv /\ Exact
    BY InitInv, InitExact
  <1>2. Inv /\ Exact /\ [Next]_vars => Inv' /\ Exact'
    BY NextInv, NextExact
  <1>. QED  BY <1>1, <1>2, PTL DEF Safe

\* scan_count, the sum of the counts of the rows that a summary was made of, is
\* the number of different scans it stands for, at every tier.
THEOREM CountsAreExact ==
  ASSUME Multiples
  PROVE  Safe => []CountsExact
  <1>1. Inv /\ Exact => CountsExact
    <2>. SUFFICES ASSUME Inv, Exact PROVE CountsExact
      OBVIOUS
    <2>1. TypeOK
      BY RowsAreRows DEF TypeOK, Inv, Control, Steps
    <2>. QED  BY <2>1 DEF CountsExact, Exact, Counted
  <1>. QED  BY <1>1, Exactness, PTL

-----------------------------------------------------------------------------
(* The row nearest to a time                                               *)

LEMMA DistanceType ==
  ASSUME NEW t \in Nat, NEW u \in Nat
  PROVE  Distance(t, u) \in Nat
  BY DEF Distance

LEMMA DistanceTriangle ==
  ASSUME NEW r \in Nat, NEW t \in Nat, NEW u \in Nat, NEW n \in Nat, Distance(t, u) <= n
  PROVE  Distance(r, u) <= Distance(r, t) + n /\ Distance(r, t) <= Distance(r, u) + n
  BY DEF Distance

LEMMA SameBucket ==
  ASSUME NEW t \in Nat, NEW u \in Nat, NEW k \in Nat \ {0}, Align(t, k) = Align(u, k)
  PROVE  Distance(t, u) <= k - 1
  <1>1. /\ Align(t, k) <= t /\ t < Align(t, k) + k /\ Align(t, k) \in Nat
        /\ Align(u, k) <= u /\ u < Align(u, k) + k
    BY AlignType
  <1>. QED  BY <1>1 DEF Distance

\* Of rows there is always a nearest one.
LEMMA NearestExists ==
  ASSUME NEW S, S # {}, \A r \in S : r.start \in Nat, NEW t \in Nat
  PROVE  Nearest(S, t) # {}
  <1>. DEFINE Ways == {n \in Nat : \E r \in S : n = Distance(r.start, t)}
              near == {r \in S : \A s \in S : Distance(r.start, t) <= Distance(s.start, t)}
              Starts == {n \in Nat : \E r \in near : n = r.start}
  <1>1. \A r \in S : Distance(r.start, t) \in Ways
    BY DistanceType
  <1>2. PICK m \in Ways : \A n \in Ways : m <= n
    <2>1. Ways # {} /\ Ways \subseteq Nat
      BY <1>1
    <2>. HIDE DEF Ways
    <2>. QED  BY <2>1, LeastExists
  <1>3. near # {}
    BY <1>1, <1>2
  <1>. HIDE DEF Ways
  <1>4. PICK k \in Starts : \A n \in Starts : k <= n
    <2>1. Starts # {} /\ Starts \subseteq Nat
      BY <1>3
    <2>. HIDE DEF Starts
    <2>. QED  BY <2>1, LeastExists
  <1>5. PICK r \in near : r.start = k
    BY <1>4
  <1>6. \A s \in near : r.start <= s.start
    BY <1>4, <1>5
  <1>. QED  BY <1>5, <1>6 DEF Nearest

LEMMA NearestIsNear ==
  ASSUME NEW S, NEW t, NEW r \in Nearest(S, t)
  PROVE  r \in S /\ \A s \in S : Distance(r.start, t) <= Distance(s.start, t)
  BY DEF Nearest

\* No row that is looked at is nearer than the answer, and there is an answer
\* when there is a raw scan.
LEMMA AtTimeNearest ==
  ASSUME \A r \in rows : r.start \in Nat, NEW band, NEW t \in Nat
  PROVE  LET R == Raw(Named(band))  F == FinestOf(Named(band))
         IN  /\ \A r \in AtTime(band, t) : r \in rows /\ \A s \in R \cup F :
                  Distance(r.start, t) <= Distance(s.start, t)
             /\ R # {} => AtTime(band, t) # {}
  <1>. DEFINE R == Raw(Named(band))  F == FinestOf(Named(band))
              scans == Nearest(R, t)  summaries == Nearest(F, t)
              nearer == \A r \in scans, s \in summaries : Distance(r.start, t) <= Distance(s.start, t)
  <1>1. R \subseteq rows /\ F \subseteq rows
    BY DEF Raw, FinestOf, Named
  <1>2. AtTime(band, t) = IF scans # {} /\ nearer THEN scans ELSE summaries
    BY DEF AtTime
  <1>3. /\ \A r \in R : r.start \in Nat
        /\ \A r \in F : r.start \in Nat
    BY <1>1
  <1>. HIDE DEF R, F
  <1>4. /\ R # {} => scans # {}
        /\ F # {} => summaries # {}
    BY <1>3, NearestExists
  <1>5. /\ \A r \in scans : r \in R /\ \A s \in R : Distance(r.start, t) <= Distance(s.start, t)
        /\ \A r \in summaries : r \in F /\ \A s \in F : Distance(r.start, t) <= Distance(s.start, t)
    BY NearestIsNear
  <1>6. \A r \in R \cup F : Distance(r.start, t) \in Nat
    BY <1>3, DistanceType
  <1>. HIDE DEF scans, summaries
  <1>7. CASE scans # {} /\ nearer
    <2>1. ASSUME NEW r \in scans, NEW s \in F PROVE Distance(r.start, t) <= Distance(s.start, t)
      <3>1. PICK q \in summaries : Distance(q.start, t) <= Distance(s.start, t)
        BY <1>4, <1>5
      <3>2. Distance(r.start, t) <= Distance(q.start, t)
        BY <1>7
      <3>. QED  BY <1>5, <1>6, <3>1, <3>2
    <2>. QED  BY <1>1, <1>2, <1>5, <1>7, <2>1 DEF R, F
  <1>8. CASE ~(scans # {} /\ nearer)
    <2>1. ASSUME NEW r \in summaries, NEW s \in R PROVE Distance(r.start, t) <= Distance(s.start, t)
      <3>1. PICK p \in scans, q \in summaries : ~(Distance(p.start, t) <= Distance(q.start, t))
        BY <1>4, <1>8
      <3>2. Distance(r.start, t) <= Distance(q.start, t) /\ Distance(p.start, t) <= Distance(s.start, t)
        BY <1>5
      <3>. QED  BY <1>5, <1>6, <3>1, <3>2
    <2>2. R # {} => summaries # {}
      BY <1>4, <1>8
    <2>. QED  BY <1>1, <1>2, <1>5, <1>8, <2>1, <2>2 DEF R, F
  <1>. QED  BY <1>7, <1>8

LEMMA GrainPositive ==
  ASSUME NEW from, NEW to
  PROVE  Grain(from, to) \in Nat \ {0}
  <1>1. Len(Grains) \in DOMAIN Grains /\ DOMAIN Grains \subseteq Nat
        /\ \A i \in DOMAIN Grains : Grains[i] \in Nat \ {0}
    <2>. DEFINE T == Nat \ {0}
    <2>1. Grains \in Seq(T) /\ Grains # <<>>
      BY HistoryAssumption
    <2>. HIDE DEF T
    <2>2. Len(Grains) \in DOMAIN Grains /\ DOMAIN Grains \subseteq Nat
          /\ \A i \in DOMAIN Grains : Grains[i] \in T
      BY <2>1
    <2>. QED  BY <2>2 DEF T
  <1>. DEFINE wide == {i \in DOMAIN Grains : to - from <= MaxPoints * Grains[i]}
  <1>2. wide # {} => Min(wide) \in wide
    <2>1. wide \subseteq Nat
      BY <1>1
    <2>. HIDE DEF wide
    <2>. QED  BY <2>1, LeastExists DEF Min
  <1>3. wide # {} => Grains[Min(wide)] \in Nat \ {0}
    BY <1>1, <1>2
  <1>. HIDE DEF wide
  <1>4. Grain(from, to) \in {1, Grains[Len(Grains)]} \/ (wide # {} /\ Grain(from, to) = Grains[Min(wide)])
    BY DEF Grain, wide
  <1>. QED  BY <1>1, <1>3, <1>4

LEMMA StartsAreNaturals ==
  ASSUME Inv
  PROVE  now \in Nat /\ \A r \in rows : r.start \in Nat
  BY Constants DEF Inv, Control, Records, IsRow

\* A row no farther from t than another is, for a time of t's bucket, off by
\* less than two buckets more.
LEMMA StillNear ==
  ASSUME NEW r \in Nat, NEW s \in Nat, NEW t \in Nat, NEW u \in Nat,
         Align(t, AtBucket) = Align(u, AtBucket), Distance(r, t) <= Distance(s, t)
  PROVE  Distance(r, u) <= Distance(s, u) + 2 * (AtBucket - 1)
  <1>1. AtBucket \in Nat \ {0}
    BY HistoryAssumption
  <1>. DEFINE n == AtBucket - 1
  <1>2. n \in Nat /\ Distance(t, u) <= n
    BY <1>1, SameBucket
  <1>. HIDE DEF n
  <1>3. Distance(r, u) <= Distance(r, t) + n /\ Distance(s, t) <= Distance(s, u) + n
    BY <1>2, DistanceTriangle
  <1>4. /\ Distance(r, u) \in Nat /\ Distance(r, t) \in Nat
        /\ Distance(s, t) \in Nat /\ Distance(s, u) \in Nat
    BY DistanceType
  <1>5. Distance(r, u) <= Distance(s, u) + 2 * n
    BY <1>2, <1>3, <1>4
  <1>. QED  BY <1>5 DEF n

LEMMA AnswersAreNear ==
  ASSUME Inv, NEW band, NEW t \in Nat, NEW u \in Nat, Align(t, AtBucket) = Align(u, AtBucket)
  PROVE  /\ \A r \in AtTime(band, t), s \in Raw(Named(band)) \cup FinestOf(Named(band)) :
              Distance(r.start, u) <= Distance(s.start, u) + 2 * (AtBucket - 1)
         /\ \A from \in 0..now : \A m \in ComputeTimeline(band, from, now) : m.raw /\ m.time = u =>
              \E r \in AtTime(band, t) :
                Distance(r.start, u) < Grain(from, now) + 2 * (AtBucket - 1)
  <1>. DEFINE R == Raw(Named(band))  F == FinestOf(Named(band))
  <1>1. R \subseteq rows /\ F \subseteq rows
    BY DEF Raw, FinestOf, Named
  <1>2. /\ \A r \in AtTime(band, t) : r \in rows /\ \A s \in R \cup F :
             Distance(r.start, t) <= Distance(s.start, t)
        /\ R # {} => AtTime(band, t) # {}
    BY StartsAreNaturals, AtTimeNearest
  <1>3. ASSUME NEW r \in AtTime(band, t), NEW s \in R \cup F
        PROVE  Distance(r.start, u) <= Distance(s.start, u) + 2 * (AtBucket - 1)
    <2>1. r.start \in Nat /\ s.start \in Nat
      BY <1>1, <1>2, StartsAreNaturals
    <2>2. Distance(r.start, t) <= Distance(s.start, t)
      BY <1>2
    <2>. QED  BY <2>1, <2>2, StillNear
  <1>4. ASSUME NEW from \in 0..now, NEW m \in ComputeTimeline(band, from, now), m.raw, m.time = u
        PROVE  \E r \in AtTime(band, t) :
                 Distance(r.start, u) < Grain(from, now) + 2 * (AtBucket - 1)
    <2>. DEFINE G == Grain(from, now)
    <2>1. G \in Nat \ {0}
      BY GrainPositive
    <2>2. PICK s \in Within(Named(band), from, now) :
            m = [time |-> Align(s.start, G), band |-> s.band, raw |-> s.res = 1]
      BY DEF ComputeTimeline
    <2>3. s \in R /\ Align(s.start, G) = u
      BY <1>4, <2>2 DEF Within, Raw
    <2>. HIDE DEF G, R, F
    <2>4. PICK r \in AtTime(band, t) : Distance(r.start, u) <= Distance(s.start, u) + 2 * (AtBucket - 1)
      BY <1>2, <1>3, <2>3
    <2>5. s.start \in Nat /\ r.start \in Nat
      BY <1>1, <1>2, <2>3, StartsAreNaturals
    <2>6. Distance(s.start, u) < G /\ Distance(s.start, u) \in Nat /\ Distance(r.start, u) \in Nat
      <3>. DEFINE x == s.start
      <3>1. x \in Nat /\ Align(x, G) <= x /\ x < Align(x, G) + G
        BY <2>1, <2>5, AlignType
      <3>2. u <= x /\ x < u + G
        BY <2>3, <3>1
      <3>. HIDE DEF x
      <3>3. Distance(x, u) < G
        BY <2>1, <3>1, <3>2 DEF Distance
      <3>. QED  BY <2>5, <3>3, DistanceType DEF x
    <2>7. AtBucket \in Nat
      BY HistoryAssumption
    <2>8. Distance(r.start, u) < G + 2 * (AtBucket - 1)
      BY <2>1, <2>4, <2>6, <2>7
    <2>. QED  BY <2>8 DEF G
  <1>. QED  BY <1>3, <1>4

\* The row that at_time finds for a time is, for every time of the same cache
\* bucket, nearly as near as any raw scan or row of the finest summaries; and a
\* marker of the timeline leads to a row of about its time.
THEOREM AnswersStayNear == Safe => []AtTimeNear
  <1>1. Inv => AtTimeNear
    <2>1. \A t \in 0..MaxTime : t \in Nat
      BY Constants
    <2>. QED  BY <2>1, AnswersAreNear DEF AtTimeNear
  <1>. QED  BY <1>1, Invariance, PTL

-----------------------------------------------------------------------------
(* The history of a window                                                 *)

LEMMA FirstsAre ==
  ASSUME NEW S, IsFiniteSet(S), NEW n \in Nat, NEW q \in Firsts(S, n)
  PROVE  q \subseteq S /\ Cardinality(q) \in Nat /\ Cardinality(q) <= n
  <1>1. Cardinality(S) \in Nat
    BY FS_CardinalityType
  <1>2. Min({n, Cardinality(S)}) \in Nat /\ Min({n, Cardinality(S)}) <= n
    BY <1>1 DEF Min
  <1>3. q \subseteq S /\ Cardinality(q) = Min({n, Cardinality(S)})
    BY DEF Firsts, kSubset
  <1>. QED  BY <1>2, <1>3

\* There always are such rows: the earliest of the others is added to the
\* first ones of a smaller number.
LEMMA FirstsExist ==
  ASSUME NEW S, IsFiniteSet(S), \A r \in S : r.start \in Nat, NEW n \in Nat
  PROVE  Firsts(S, n) # {}
  <1>. DEFINE Leading(q) == q \in SUBSET S /\ \A r \in q, s \in S \ q : r.start <= s.start
              Missing == {k \in Nat : k <= Cardinality(S) /\ \A q : Leading(q) => Cardinality(q) # k}
  <1>1. Cardinality(S) \in Nat
    BY FS_CardinalityType
  <1>2. ASSUME Missing # {} PROVE FALSE
    <2>1. PICK m \in Missing : \A k \in Missing : m <= k
      <3>1. Missing \subseteq Nat
        OBVIOUS
      <3>. HIDE DEF Missing
      <3>. QED  BY <1>2, <3>1, LeastExists
    <2>2. m # 0
      <3>1. Leading({}) /\ Cardinality({}) = 0
        BY FS_EmptySet
      <3>. QED  BY <3>1
    <2>3. m - 1 \in Nat /\ m - 1 \notin Missing /\ m <= Cardinality(S) /\ m - 1 < Cardinality(S)
      BY <1>1, <2>1, <2>2
    <2>4. PICK q : Leading(q) /\ Cardinality(q) = m - 1
      BY <1>1, <2>3
    <2>5. IsFiniteSet(q)
      BY <2>4, FS_Subset
    <2>6. S \ q # {}
      BY <2>3, <2>4
    <2>7. PICK s \in S \ q : \A t \in S \ q : s.start <= t.start
      <3>. DEFINE Starts == {k \in Nat : \E t \in S \ q : k = t.start}
      <3>1. Starts # {} /\ Starts \subseteq Nat
        BY <2>6
      <3>. HIDE DEF Starts
      <3>2. PICK k \in Starts : \A l \in Starts : k <= l
        BY <3>1, LeastExists
      <3>. QED  BY <3>2 DEF Starts
    <2>8. Leading(q \cup {s})
      BY <2>4, <2>7
    <2>9. Cardinality(q \cup {s}) = m
      <3>1. s \notin q /\ m \in Nat
        BY <2>1, <2>7
      <3>. HIDE DEF Missing
      <3>2. Cardinality(q \cup {s}) = Cardinality(q) + 1
        BY <2>5, <3>1, FS_AddElement
      <3>. QED  BY <2>4, <3>1, <3>2
    <2>. QED  BY <2>1, <2>8, <2>9
  <1>3. Min({n, Cardinality(S)}) \in Nat /\ Min({n, Cardinality(S)}) <= Cardinality(S)
    BY <1>1 DEF Min
  <1>4. PICK q : Leading(q) /\ Cardinality(q) = Min({n, Cardinality(S)})
    BY <1>2, <1>3
  <1>. QED  BY <1>4 DEF Firsts, kSubset

\* What an answer is made of
LEMMA HistoryParts ==
  ASSUME Inv, NEW band, NEW from, NEW to, NEW limit \in Nat,
         NEW h \in ComputeHistory(band, from, to, limit)
  PROVE  /\ h.scans \subseteq rows /\ h.summaries \subseteq rows
         /\ Cardinality(h.summaries) + Cardinality(h.scans) <= limit
         /\ \A r \in h.summaries, s \in h.scans : r.start < s.start
  <1>. DEFINE W == Within(Named(band), from, to)
              R == Raw(W)
              F(p) == FinestOf(Backfill(W, p))
  <1>1. PICK p, q : /\ p \in Firsts(R, limit) /\ q \in Firsts(F(p), limit - Cardinality(p))
                    /\ h = [summaries |-> q, scans |-> p]
    BY DEF ComputeHistory
  <1>2. /\ R \subseteq rows /\ F(p) \subseteq rows
        /\ \A r \in F(p), s \in p : r.start < s.start
    BY DEF Raw, FinestOf, Backfill, Within, Named
  <1>. HIDE DEF R, F
  <1>3. IsFiniteSet(R) /\ IsFiniteSet(F(p))
    BY <1>2, FS_Subset DEF Inv, Records
  <1>4. p \subseteq R /\ Cardinality(p) \in Nat /\ Cardinality(p) <= limit
    BY <1>1, <1>3, FirstsAre
  <1>5. limit - Cardinality(p) \in Nat
    BY <1>4
  <1>6. /\ q \subseteq F(p) /\ Cardinality(q) \in Nat
        /\ Cardinality(q) <= limit - Cardinality(p)
    BY <1>1, <1>3, <1>5, FirstsAre
  <1>. QED  BY <1>1, <1>2, <1>4, <1>6

\* No request for a history goes unanswered, so the theorem below is not about
\* nothing.
LEMMA HistoryAnswers ==
  ASSUME Inv, NEW band, NEW from, NEW to, NEW limit \in Nat
  PROVE  ComputeHistory(band, from, to, limit) # {}
  <1>. DEFINE W == Within(Named(band), from, to)
              R == Raw(W)
              F(p) == FinestOf(Backfill(W, p))
  <1>1. R \subseteq rows /\ \A p : F(p) \subseteq rows
    BY DEF Raw, FinestOf, Backfill, Within, Named
  <1>. HIDE DEF R, F
  <1>2. \A S \in SUBSET rows : IsFiniteSet(S) /\ \A r \in S : r.start \in Nat
    BY StartsAreNaturals, FS_Subset DEF Inv, Records
  <1>3. PICK p : p \in Firsts(R, limit)
    BY <1>1, <1>2, FirstsExist
  <1>4. limit - Cardinality(p) \in Nat
    <2>1. Cardinality(p) \in Nat /\ Cardinality(p) <= limit
      BY <1>1, <1>2, <1>3, FirstsAre
    <2>. QED  BY <2>1
  <1>5. PICK q : q \in Firsts(F(p), limit - Cardinality(p))
    <2>. DEFINE S == F(p)
    <2>1. IsFiniteSet(S) /\ \A r \in S : r.start \in Nat
      BY <1>1, <1>2
    <2>. HIDE DEF S
    <2>2. Firsts(S, limit - Cardinality(p)) # {}
      BY <1>4, <2>1, FirstsExist
    <2>. QED  BY <2>2 DEF S
  <1>6. [summaries |-> q, scans |-> p] \in ComputeHistory(band, from, to, limit)
    BY <1>3, <1>5 DEF ComputeHistory, R, F
  <1>. QED  BY <1>6

\* compute_history shows a scan once, raw or in a summary, whatever arrives and
\* is deleted beside the rollups before it, unless it is read between a rollup
\* and its purge; its summaries are older than its scans; and it keeps to the
\* limit.  For every policy, any window and any order among equal times.
THEOREM HistoryShowsOnce == Safe => []HistoryOnce
  <1>1. Inv => HistoryOnce
    <2>. SUFFICES ASSUME Inv, NEW band \in BandsAsked, NEW from \in 0..now,
                         NEW limit \in 1..(MaxScans + 1),
                         NEW h \in ComputeHistory(band, from, now, limit)
                  PROVE  /\ Cardinality(h.summaries) + Cardinality(h.scans) <= limit
                         /\ \A r \in h.summaries, s \in h.scans : r.start < s.start
                         /\ ~Between => \A r, s \in h.summaries \cup h.scans :
                                          r # s => r.members \cap s.members = {}
      BY DEF HistoryOnce
    <2>1. limit \in Nat
      BY Constants
    <2>2. ~Between => aborts = 0 /\ run.pc # "purge"
      BY Constants DEF Between, Inv, Control
    <2>3. ~Between => \A r, s \in rows : r # s => r.members \cap s.members = {}
      BY <2>2 DEF Inv, Separate
    <2>. QED  BY <2>1, <2>3, HistoryParts
  <1>. QED  BY <1>1, Invariance, PTL
=============================================================================
