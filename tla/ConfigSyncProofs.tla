-------------------------- MODULE ConfigSyncProofs --------------------------
(***************************************************************************)
(* Safety of ConfigSync, for any lists, gains, edges, goroutines and       *)
(* bounds: as long as edits do not overlap, the file is current when       *)
(* nobody is at work, so are the retained message and what the clients     *)
(* were shown, and an edit that was saved is never undone.                 *)
(*                                                                         *)
(* What makes it so is the order of each handler's phases (Shape), what a  *)
(* goroutine in the middle of one has read or written already (Editing),   *)
(* and who can be at work beside whom (Sole, Wire).                        *)
(***************************************************************************)
EXTENDS ConfigSync, TLAPS

Item == Band \cup {Junk}

LEMMA ConstantFacts ==
  /\ MHz \in Nat /\ MHz > 0 /\ MaxRequests \in Nat /\ MaxFaults \in Nat
  /\ "" \in Names /\ \A list \in Lists : list \in Seq(Band)
  /\ FirstList \in Lists /\ DefaultList \in Lists
  /\ None \notin Procs /\ Remote \notin Api /\ Hook \notin Api /\ Remote # Hook
  /\ Junk \notin Band
  /\ None \notin Lists /\ None \notin Gains /\ None \notin Texts
  /\ Empty \notin Texts /\ Garbled \notin Texts /\ Empty # Garbled
  /\ Rounded(DefaultList) = DefaultList
  <1>1. "" \in Names /\ \A list \in Lists : list \in Seq(Band)
    BY ListsAssumption
  <1>2. MHz \in Nat /\ MHz > 0 /\ MaxRequests \in Nat /\ MaxFaults \in Nat
    BY BoundsAssumption
  <1>3. FirstList \in Lists /\ DefaultList \in Lists
    BY DEF Lists
  <1>. QED  BY <1>1, <1>2, <1>3, ProcsAssumption, NamesAssumption, DefaultAssumption

LEMMA SeqFacts ==
  ASSUME NEW S, NEW s \in Seq(S)
  PROVE  /\ Len(s) \in Nat /\ DOMAIN s = 1..Len(s)
         /\ s = [i \in 1..Len(s) |-> s[i]]
         /\ \A i \in 1..Len(s) : s[i] \in S
  OBVIOUS

LEMMA IsSeq ==
  ASSUME NEW S, NEW n \in Nat, NEW f, f = [i \in 1..n |-> f[i]], \A i \in 1..n : f[i] \in S
  PROVE  f \in Seq(S) /\ Len(f) = n
  OBVIOUS

-----------------------------------------------------------------------------
(* Bands, in MHz and in Hz                                                 *)

InMHz(b, prepared) == [name |-> b.name, lo |-> IF prepared THEN b.lo \div MHz ELSE 0,
                       hi |-> IF prepared THEN b.hi \div MHz ELSE 0]
InHz(b) == [name |-> b.name, lo |-> b.lo * MHz, hi |-> b.hi * MHz]

LEMMA DivNat ==
  ASSUME NEW x \in Nat
  PROVE  x \div MHz \in Nat /\ x * MHz \in Nat /\ (x * MHz) \div MHz = x
  <1>1. MHz \in Nat /\ MHz > 0
    BY ConstantFacts
  <1>2. x \div MHz \in Nat
    BY <1>1
  <1>3. x * MHz \in Nat
    BY <1>1
  <1>4. (x * MHz) \div MHz = x
    BY <1>1
  <1>. QED  BY <1>2, <1>3, <1>4

LEMMA BandFacts ==
  ASSUME NEW b \in Band
  PROVE  /\ InHz(b) \in Band /\ InMHz(InHz(b), TRUE) = b
         /\ \A prepared \in BOOLEAN : InMHz(b, prepared) \in Band
  <1>1. b.lo \in Nat /\ b.hi \in Nat /\ b.name \in Names /\ b = [name |-> b.name, lo |-> b.lo, hi |-> b.hi]
    BY DEF Band
  <1>2. /\ b.lo \div MHz \in Nat /\ b.lo * MHz \in Nat /\ (b.lo * MHz) \div MHz = b.lo
        /\ b.hi \div MHz \in Nat /\ b.hi * MHz \in Nat /\ (b.hi * MHz) \div MHz = b.hi
    BY <1>1, DivNat
  <1>3. InHz(b) \in Band
    BY <1>1, <1>2 DEF InHz, Band
  <1>4. InMHz(InHz(b), TRUE) = b
    BY <1>1, <1>2 DEF InHz, InMHz
  <1>5. ASSUME NEW prepared \in BOOLEAN PROVE InMHz(b, prepared) \in Band
    BY <1>1, <1>2 DEF InMHz, Band
  <1>. QED  BY <1>3, <1>4, <1>5

\* A band with other edges.
LEMMA BandWith ==
  ASSUME NEW b \in Band, NEW x \in Nat, NEW y \in Nat
  PROVE  [b EXCEPT !.lo = x, !.hi = y] = [name |-> b.name, lo |-> x, hi |-> y]
  <1>1. PICK q : q = [b EXCEPT !.lo = x, !.hi = y]
    OBVIOUS
  <1>2. q \in Band /\ q.lo = x /\ q.hi = y /\ q.name = b.name
    BY <1>1 DEF Band
  <1>3. q = [name |-> q.name, lo |-> q.lo, hi |-> q.hi]
    BY <1>2 DEF Band
  <1>. QED  BY <1>1, <1>2, <1>3

LEMMA ToMHzIs ==
  ASSUME NEW bands \in Seq(Item), NEW prepared \in BOOLEAN
  PROVE  ToMHz(bands, prepared) =
           [i \in 1..Len(bands) |-> IF bands[i] = Junk THEN Junk ELSE InMHz(bands[i], prepared)]
  <1>1. DOMAIN bands = 1..Len(bands) /\ \A i \in 1..Len(bands) : bands[i] \in Item
    BY SeqFacts
  <1>2. ASSUME NEW b \in Band
        PROVE  [b EXCEPT !.lo = IF prepared THEN @ \div MHz ELSE 0,
                         !.hi = IF prepared THEN @ \div MHz ELSE 0] = InMHz(b, prepared)
    <2>1. b.lo \in Nat /\ b.hi \in Nat
      BY DEF Band
    <2>2. PICK x \in Nat, y \in Nat : x = (IF prepared THEN b.lo \div MHz ELSE 0) /\ y = (IF prepared THEN b.hi \div MHz ELSE 0)
      BY <2>1, DivNat
    <2>3. [b EXCEPT !.lo = x, !.hi = y] = [name |-> b.name, lo |-> x, hi |-> y]
      BY BandWith
    <2>. QED  BY <2>2, <2>3 DEF InMHz
  <1>. QED  BY <1>1, <1>2 DEF ToMHz, MapBands, Item

LEMMA FromMHzIs ==
  ASSUME NEW bands \in Seq(Item)
  PROVE  FromMHz(bands) = [i \in 1..Len(bands) |-> IF bands[i] = Junk THEN Junk ELSE InHz(bands[i])]
  <1>1. DOMAIN bands = 1..Len(bands) /\ \A i \in 1..Len(bands) : bands[i] \in Item
    BY SeqFacts
  <1>2. ASSUME NEW b \in Band
        PROVE  [b EXCEPT !.lo = @ * MHz, !.hi = @ * MHz] = InHz(b)
    <2>1. b.lo \in Nat /\ b.hi \in Nat
      BY DEF Band
    <2>2. PICK x \in Nat, y \in Nat : x = (b.lo * MHz) /\ y = (b.hi * MHz)
      BY <2>1, DivNat
    <2>3. [b EXCEPT !.lo = x, !.hi = y] = [name |-> b.name, lo |-> x, hi |-> y]
      BY BandWith
    <2>. QED  BY <2>2, <2>3 DEF InHz
  <1>. QED  BY <1>1, <1>2 DEF FromMHz, MapBands, Item

\* Both conversions keep the length, and bands are turned into bands.
LEMMA ConversionTypes ==
  ASSUME NEW bands \in Seq(Item), NEW prepared \in BOOLEAN
  PROVE  /\ ToMHz(bands, prepared) \in Seq(Item) /\ Len(ToMHz(bands, prepared)) = Len(bands)
         /\ FromMHz(bands) \in Seq(Item) /\ Len(FromMHz(bands)) = Len(bands)
  <1>. DEFINE m == ToMHz(bands, prepared)
              h == FromMHz(bands)
  <1>1. Len(bands) \in Nat /\ \A i \in 1..Len(bands) : bands[i] \in Item
    BY SeqFacts
  <1>2. /\ m = [i \in 1..Len(bands) |-> IF bands[i] = Junk THEN Junk ELSE InMHz(bands[i], prepared)]
        /\ h = [i \in 1..Len(bands) |-> IF bands[i] = Junk THEN Junk ELSE InHz(bands[i])]
    BY ToMHzIs, FromMHzIs
  <1>. HIDE DEF m, h
  <1>3. m = [i \in 1..Len(bands) |-> m[i]] /\ h = [i \in 1..Len(bands) |-> h[i]]
    BY <1>2
  <1>4. \A i \in 1..Len(bands) : m[i] \in Item /\ h[i] \in Item
    <2>1. \A b \in Band : InMHz(b, prepared) \in Band /\ InHz(b) \in Band
      BY BandFacts
    <2>. QED  BY <1>1, <1>2, <2>1 DEF Item
  <1>6. m \in Seq(Item) /\ Len(m) = Len(bands)
    BY <1>1, <1>3, <1>4, IsSeq
  <1>7. h \in Seq(Item) /\ Len(h) = Len(bands)
    BY <1>1, <1>3, <1>4, IsSeq
  <1>. QED  BY <1>6, <1>7 DEF m, h

\* What was loaded from a file is not changed by being saved and loaded again.
LEMMA RoundedTwice ==
  ASSUME NEW bands \in Seq(Item)
  PROVE  Rounded(FromMHz(bands)) = FromMHz(bands)
  <1>1. PICK h : h = FromMHz(bands)
    OBVIOUS
  <1>2. h = [i \in 1..Len(bands) |-> IF bands[i] = Junk THEN Junk ELSE InHz(bands[i])]
    BY <1>1, FromMHzIs
  <1>3. h \in Seq(Item) /\ Len(h) = Len(bands)
    BY <1>1, ConversionTypes
  <1>4. PICK m : m = ToMHz(h, TRUE)
    OBVIOUS
  <1>5. m = [i \in 1..Len(bands) |-> IF h[i] = Junk THEN Junk ELSE InMHz(h[i], TRUE)]
    BY <1>3, <1>4, ToMHzIs
  <1>6. \A i \in 1..Len(bands) : m[i] = bands[i]
    <2>1. \A b \in Band : InHz(b) \in Band /\ InMHz(InHz(b), TRUE) = b /\ b # Junk
      BY BandFacts, ConstantFacts
    <2>2. \A i \in 1..Len(bands) : bands[i] \in Item
      BY SeqFacts
    <2>3. \A b \in Band : InHz(b) # Junk
      BY <2>1, ConstantFacts
    <2>. QED  BY <1>2, <1>5, <2>1, <2>2, <2>3 DEF Item
  <1>7. m = bands
    <2>1. bands = [i \in 1..Len(bands) |-> bands[i]]
      BY SeqFacts
    <2>. QED  BY <1>5, <1>6, <2>1
  <1>. QED  BY <1>1, <1>4, <1>7 DEF Rounded

LEMMA RoundedTypes ==
  ASSUME NEW bands \in Seq(Item)
  PROVE  /\ Rounded(bands) \in Seq(Item) /\ Len(Rounded(bands)) = Len(bands)
         /\ Rounded(Rounded(bands)) = Rounded(bands)
  <1>1. PICK m : m = ToMHz(bands, TRUE)
    OBVIOUS
  <1>2. m \in Seq(Item) /\ Len(m) = Len(bands)
    BY <1>1, ConversionTypes
  <1>3. Rounded(bands) = FromMHz(m)
    BY <1>1 DEF Rounded
  <1>4. FromMHz(m) \in Seq(Item) /\ Len(FromMHz(m)) = Len(m)
    BY <1>2, ConversionTypes
  <1>. QED  BY <1>2, <1>3, <1>4, RoundedTwice

LEMMA BandSeqItem == ASSUME NEW bands \in Seq(Band) PROVE bands \in Seq(Item)
  BY DEF Item

-----------------------------------------------------------------------------
(* What a handler has still to do                                          *)

Has(s, x) == \E i \in 1..Len(s) : s[i] = x

\* Whoever comes to x has y still before it, or no y any more.
Later(s, x, y) == \A i \in 1..Len(s) : s[i] = x => \E j \in i + 1..Len(s) : s[j] = y
Never(s, x, y) == \A i \in 1..Len(s) : s[i] = x => \A j \in i + 1..Len(s) : s[j] # y

Shape(s) ==
  /\ Later(s, "set", "save") /\ Later(s, "set", "publish") /\ Later(s, "set", "notify")
  /\ Later(s, "gain", "publish") /\ Later(s, "gain", "notify")
  /\ Later(s, "lockedGain", "publish") /\ Later(s, "lockedGain", "notify")
  /\ Later(s, "lock", "unlock")
  /\ Never(s, "save", "set") /\ Never(s, "subscribe", "publish") /\ Never(s, "subscribe", "subscribe")

LEMMA TailIs ==
  ASSUME NEW S, NEW s \in Seq(S), s # <<>>
  PROVE  /\ Len(s) \in Nat /\ Len(s) > 0 /\ Tail(s) \in Seq(S) /\ Len(Tail(s)) = Len(s) - 1
         /\ Head(s) = s[1] /\ Head(s) \in S
         /\ \A i \in 1..Len(s) - 1 : Tail(s)[i] = s[i + 1]
  OBVIOUS

LEMMA HasTail ==
  ASSUME NEW S, NEW s \in Seq(S), s # <<>>, NEW x
  PROVE  Has(s, x) <=> Head(s) = x \/ Has(Tail(s), x)
  <1>1. /\ Len(s) \in Nat /\ Len(s) > 0 /\ Len(Tail(s)) = Len(s) - 1 /\ Head(s) = s[1]
        /\ \A i \in 1..Len(s) - 1 : Tail(s)[i] = s[i + 1]
    BY TailIs
  <1>2. ASSUME NEW i \in 1..Len(s), s[i] = x, Head(s) # x
        PROVE  Has(Tail(s), x)
    <2>1. i - 1 \in 1..Len(s) - 1 /\ Tail(s)[i - 1] = s[i]
      BY <1>1, <1>2
    <2>. QED  BY <1>1, <1>2, <2>1 DEF Has
  <1>3. ASSUME NEW i \in 1..Len(Tail(s)), Tail(s)[i] = x
        PROVE  Has(s, x)
    <2>1. i + 1 \in 1..Len(s) /\ s[i + 1] = x
      BY <1>1, <1>3
    <2>. QED  BY <2>1 DEF Has
  <1>4. Head(s) = x => Has(s, x)
    BY <1>1 DEF Has
  <1>. QED  BY <1>2, <1>3, <1>4 DEF Has

LEMMA LaterTail ==
  ASSUME NEW S, NEW s \in Seq(S), s # <<>>, NEW x, NEW y, Later(s, x, y)
  PROVE  Later(Tail(s), x, y) /\ (Head(s) = x => Has(Tail(s), y))
  <1>1. /\ Len(s) \in Nat /\ Len(s) > 0 /\ Len(Tail(s)) = Len(s) - 1 /\ Head(s) = s[1]
        /\ \A i \in 1..Len(s) - 1 : Tail(s)[i] = s[i + 1]
    BY TailIs
  <1>2. ASSUME NEW i \in 1..Len(s), s[i] = x
        PROVE  \E j \in 1..Len(s) - 1 : j >= i /\ Tail(s)[j] = y
    <2>1. PICK j \in i + 1..Len(s) : s[j] = y
      BY <1>2 DEF Later
    <2>2. j - 1 \in 1..Len(s) - 1 /\ j - 1 >= i /\ Tail(s)[j - 1] = s[j]
      BY <1>1, <2>1
    <2>. QED  BY <2>1, <2>2
  <1>3. ASSUME NEW i \in 1..Len(Tail(s)), Tail(s)[i] = x
        PROVE  \E j \in i + 1..Len(Tail(s)) : Tail(s)[j] = y
    <2>1. i + 1 \in 1..Len(s) /\ s[i + 1] = x
      BY <1>1, <1>3
    <2>2. PICK j \in 1..Len(s) - 1 : j >= i + 1 /\ Tail(s)[j] = y
      BY <1>2, <2>1
    <2>. QED  BY <1>1, <2>2
  <1>4. Head(s) = x => Has(Tail(s), y)
    BY <1>1, <1>2 DEF Has
  <1>. QED  BY <1>3, <1>4 DEF Later

LEMMA NeverTail ==
  ASSUME NEW S, NEW s \in Seq(S), s # <<>>, NEW x, NEW y, Never(s, x, y)
  PROVE  Never(Tail(s), x, y) /\ (Head(s) = x => ~Has(Tail(s), y))
  <1>1. /\ Len(s) \in Nat /\ Len(s) > 0 /\ Len(Tail(s)) = Len(s) - 1 /\ Head(s) = s[1]
        /\ \A i \in 1..Len(s) - 1 : Tail(s)[i] = s[i + 1]
    BY TailIs
  <1>2. ASSUME NEW i \in 1..Len(s), s[i] = x, NEW j \in 1..Len(s) - 1, j >= i
        PROVE  Tail(s)[j] # y
    <2>1. j + 1 \in i + 1..Len(s) /\ Tail(s)[j] = s[j + 1]
      BY <1>1, <1>2
    <2>. QED  BY <1>2, <2>1 DEF Never
  <1>3. ASSUME NEW i \in 1..Len(Tail(s)), Tail(s)[i] = x, NEW j \in i + 1..Len(Tail(s))
        PROVE  Tail(s)[j] # y
    <2>1. i + 1 \in 1..Len(s) /\ s[i + 1] = x /\ j \in 1..Len(s) - 1 /\ j >= i + 1
      BY <1>1, <1>3
    <2>. QED  BY <1>2, <2>1
  <1>4. Head(s) = x => ~Has(Tail(s), y)
    BY <1>1, <1>2 DEF Has
  <1>. QED  BY <1>3, <1>4 DEF Never

LEMMA ShapeTail ==
  ASSUME NEW S, NEW s \in Seq(S), s # <<>>, Shape(s)
  PROVE  /\ Shape(Tail(s))
         /\ Head(s) = "set" => Has(Tail(s), "save") /\ Has(Tail(s), "publish") /\ Has(Tail(s), "notify")
         /\ Head(s) \in {"gain", "lockedGain"} => Has(Tail(s), "publish") /\ Has(Tail(s), "notify")
         /\ Head(s) = "lock" => Has(Tail(s), "unlock")
         /\ Head(s) = "save" => ~Has(Tail(s), "set")
         /\ Head(s) = "subscribe" => ~Has(Tail(s), "publish") /\ ~Has(Tail(s), "subscribe")
  <1>1. /\ Later(s, "set", "save") /\ Later(s, "set", "publish") /\ Later(s, "set", "notify")
        /\ Later(s, "gain", "publish") /\ Later(s, "gain", "notify")
        /\ Later(s, "lockedGain", "publish") /\ Later(s, "lockedGain", "notify")
        /\ Later(s, "lock", "unlock")
        /\ Never(s, "save", "set") /\ Never(s, "subscribe", "publish") /\ Never(s, "subscribe", "subscribe")
    BY DEF Shape
  <1>2. \A x, y : Later(s, x, y) => Later(Tail(s), x, y) /\ (Head(s) = x => Has(Tail(s), y))
    BY LaterTail
  <1>3. \A x, y : Never(s, x, y) => Never(Tail(s), x, y) /\ (Head(s) = x => ~Has(Tail(s), y))
    BY NeverTail
  <1>4. Shape(Tail(s))
    BY <1>1, <1>2, <1>3 DEF Shape
  <1>. QED  BY <1>1, <1>2, <1>3, <1>4

LEMMA HasNone == \A x : ~Has(<<>>, x)
  BY DEF Has

Programs == {PutBandsProgram, PutConfigProgram, PutGainProgram, HandleBandsProgram,
             HandleGainProgram, OnConnectProgram}

\* Six programs of the HTTP server, the command handler and OnConnect.
LEMMA ProgramsShaped ==
  \A s \in Programs : s \in Seq(Phases) /\ s # <<>> /\ Shape(s)
  <1>1. PutBandsProgram \in Seq(Phases) /\ PutBandsProgram # <<>> /\ Shape(PutBandsProgram)
    BY DEF PutBandsProgram, Phases, Shape, Later, Never
  <1>2. PutConfigProgram \in Seq(Phases) /\ PutConfigProgram # <<>> /\ Shape(PutConfigProgram)
    BY DEF PutConfigProgram, Phases, Shape, Later, Never
  <1>3. PutGainProgram \in Seq(Phases) /\ PutGainProgram # <<>> /\ Shape(PutGainProgram)
    BY DEF PutGainProgram, Phases, Shape, Later, Never
  <1>4. HandleBandsProgram \in Seq(Phases) /\ HandleBandsProgram # <<>> /\ Shape(HandleBandsProgram)
    BY DEF HandleBandsProgram, Phases, Shape, Later, Never
  <1>5. HandleGainProgram \in Seq(Phases) /\ HandleGainProgram # <<>> /\ Shape(HandleGainProgram)
    BY DEF HandleGainProgram, Phases, Shape, Later, Never
  <1>6. OnConnectProgram \in Seq(Phases) /\ OnConnectProgram # <<>> /\ Shape(OnConnectProgram)
    BY DEF OnConnectProgram, Phases, Shape, Later, Never
  <1>. QED  BY <1>1, <1>2, <1>3, <1>4, <1>5, <1>6 DEF Programs

LEMMA ProgramPhases ==
  /\ \A s \in {PutBandsProgram, PutConfigProgram, HandleBandsProgram} :
       Has(s, "set") /\ ~Has(s, "gain") /\ ~Has(s, "lockedGain")
  /\ \A s \in {PutGainProgram, HandleGainProgram, OnConnectProgram} : ~Has(s, "set")
  /\ \A s \in Programs \ {HandleBandsProgram} : ~Has(s, "lock")
  /\ \A s \in Programs \ {OnConnectProgram} : ~Has(s, "subscribe")
  /\ ~Has(OnConnectProgram, "gain") /\ ~Has(OnConnectProgram, "lockedGain")
  /\ Has(OnConnectProgram, "publish") /\ ~Has(OnConnectProgram, "save")
  /\ \A i \in 1..Len(OnConnectProgram) : OnConnectProgram[i] \in {"publish", "subscribe"}
  <1>1. Has(PutBandsProgram, "set") /\ ~Has(PutBandsProgram, "gain") /\ ~Has(PutBandsProgram, "lockedGain")
        /\ ~Has(PutBandsProgram, "lock") /\ ~Has(PutBandsProgram, "subscribe")
    BY DEF PutBandsProgram, Has
  <1>2. Has(PutConfigProgram, "set") /\ ~Has(PutConfigProgram, "gain") /\ ~Has(PutConfigProgram, "lockedGain")
        /\ ~Has(PutConfigProgram, "lock") /\ ~Has(PutConfigProgram, "subscribe")
    BY DEF PutConfigProgram, Has
  <1>3. Has(HandleBandsProgram, "set") /\ ~Has(HandleBandsProgram, "gain") /\ ~Has(HandleBandsProgram, "lockedGain")
        /\ ~Has(HandleBandsProgram, "subscribe")
    BY DEF HandleBandsProgram, Has
  <1>4. ~Has(PutGainProgram, "set") /\ ~Has(PutGainProgram, "lock") /\ ~Has(PutGainProgram, "subscribe")
    BY DEF PutGainProgram, Has
  <1>5. ~Has(HandleGainProgram, "set") /\ ~Has(HandleGainProgram, "lock") /\ ~Has(HandleGainProgram, "subscribe")
    BY DEF HandleGainProgram, Has
  <1>6. /\ ~Has(OnConnectProgram, "set") /\ ~Has(OnConnectProgram, "lock")
        /\ ~Has(OnConnectProgram, "gain") /\ ~Has(OnConnectProgram, "lockedGain")
        /\ Has(OnConnectProgram, "publish") /\ ~Has(OnConnectProgram, "save")
        /\ \A i \in 1..Len(OnConnectProgram) : OnConnectProgram[i] \in {"publish", "subscribe"}
    BY DEF OnConnectProgram, Has
  <1>. QED  BY <1>1, <1>2, <1>3, <1>4, <1>5, <1>6 DEF Programs

-----------------------------------------------------------------------------
(* A goroutine's record                                                    *)

JobRecord == [todo : Seq(Phases), step : Steps, list : Lists \cup {None},
              gain : Gains \cup {None}, size : Nat, text : Texts \cup {None}]

\* The step is one of the phase it is in.
StepFits(j) ==
  \/ j.step = "begin"
  \/ (j.step \in {"array", "len"} /\ j.todo # <<>> /\ Head(j.todo) = "set")
  \/ (j.step \in {"prepare", "marshal", "open", "write"} /\ j.todo # <<>> /\ Head(j.todo) = "save")
  \/ (j.step \in {"fill", "send"} /\ j.todo # <<>> /\ Head(j.todo) = "publish")

Ordered(p, j) ==
  /\ Shape(j.todo)
  /\ j.todo = <<>> => j = Idle
  /\ StepFits(j)
  /\ Has(j.todo, "set") => j.list \in Lists
  /\ Has(j.todo, "gain") \/ Has(j.todo, "lockedGain") => j.gain \in Gains
  /\ Has(j.todo, "lock") => p = Remote
  /\ Has(j.todo, "subscribe") => p = Hook
  /\ p = Hook => /\ j.list = None
                 /\ \A i \in 1..Len(j.todo) : j.todo[i] \in {"publish", "subscribe"}
  /\ j.step \in {"send", "open", "write"} => j.text \in Texts

Jobs == job \in [Procs -> JobRecord] /\ \A p \in Procs : Ordered(p, job[p])

Others(p) == \A q \in Procs : q # p => job'[q] = job[q]

\* The next phase has begun, or the next step of this one.
Moved(p) ==
  /\ Others(p)
  /\ job'[p].todo = Tail(job[p].todo) /\ job'[p].step = "begin"
  /\ job'[p].list \in {job[p].list, None}
  /\ job'[p].todo # <<>> => job'[p].list = job[p].list /\ job'[p].gain = job[p].gain
  /\ job'[p].todo = <<>> => job'[p] = Idle

Stepped(p, step) ==
  /\ Others(p)
  /\ job'[p].todo = job[p].todo /\ job'[p].step = step
  /\ job'[p].list = job[p].list /\ job'[p].gain = job[p].gain

LEMMA IdleIs ==
  /\ Idle \in JobRecord /\ Idle.todo = <<>> /\ Idle.step = "begin" /\ Idle.list = None
  /\ Idle.gain = None
  /\ \A p \in Procs : Ordered(p, Idle)
  <1>1. /\ Idle.todo = <<>> /\ Idle.step = "begin" /\ Idle.list = None
        /\ Idle.gain = None /\ Idle.size = 0 /\ Idle.text = None
    BY DEF Idle
  <1>2. Idle \in JobRecord
    BY DEF Idle, JobRecord, Steps
  <1>3. Shape(<<>>) /\ Len(<<>>) = 0
    BY DEF Shape, Later, Never
  <1>. QED  BY <1>1, <1>2, <1>3, HasNone DEF Ordered, StepFits

LEMMA RecordStep ==
  ASSUME NEW j \in JobRecord, NEW step \in Steps, NEW r,
         r = [j EXCEPT !.step = step]
  PROVE  /\ r \in JobRecord /\ r.step = step /\ r.todo = j.todo /\ r.list = j.list
         /\ r.gain = j.gain /\ r.size = j.size /\ r.text = j.text
  BY DEF JobRecord

LEMMA RecordSize ==
  ASSUME NEW j \in JobRecord, NEW step \in Steps, NEW n \in Nat, NEW r,
         r = [j EXCEPT !.step = step, !.size = n]
  PROVE  /\ r \in JobRecord /\ r.step = step /\ r.todo = j.todo /\ r.list = j.list
         /\ r.gain = j.gain /\ r.size = n /\ r.text = j.text
  BY DEF JobRecord

LEMMA RecordText ==
  ASSUME NEW j \in JobRecord, NEW step \in Steps, NEW t \in Texts, NEW r,
         r = [j EXCEPT !.step = step, !.text = t]
  PROVE  /\ r \in JobRecord /\ r.step = step /\ r.todo = j.todo /\ r.list = j.list
         /\ r.gain = j.gain /\ r.size = j.size /\ r.text = t
  BY DEF JobRecord

LEMMA RecordIs ==
  ASSUME NEW j \in JobRecord
  PROVE  /\ j.todo \in Seq(Phases) /\ j.step \in Steps /\ j.list \in Lists \cup {None}
         /\ j.gain \in Gains \cup {None} /\ j.size \in Nat /\ j.text \in Texts \cup {None}
  BY DEF JobRecord

LEMMA RecordPopped ==
  ASSUME NEW j \in JobRecord, j.todo # <<>>, NEW r,
         r = [j EXCEPT !.todo = Tail(j.todo), !.step = "begin", !.size = 0, !.text = None]
  PROVE  /\ r \in JobRecord /\ r.step = "begin" /\ r.todo = Tail(j.todo) /\ r.list = j.list
         /\ r.gain = j.gain
  <1>1. Tail(j.todo) \in Seq(Phases) /\ "begin" \in Steps /\ 0 \in Nat
    BY RecordIs, TailIs DEF Steps
  <1>. QED  BY <1>1 DEF JobRecord

\* One goroutine's record changes.
LEMMA JobChanges ==
  ASSUME Jobs, NEW p \in Procs, NEW r \in JobRecord, job' = [job EXCEPT ![p] = r], Ordered(p, r)
  PROVE  Jobs' /\ Others(p) /\ job'[p] = r
  <1>1. job' \in [Procs -> JobRecord] /\ job'[p] = r /\ \A q \in Procs : q # p => job'[q] = job[q]
    BY DEF Jobs
  <1>. QED  BY <1>1 DEF Jobs, Others

LEMMA JobIs ==
  ASSUME Jobs, NEW p \in Procs
  PROVE  job[p] \in JobRecord /\ Ordered(p, job[p])
  BY DEF Jobs

LEMMA PopOrdered ==
  ASSUME NEW p \in Procs, NEW j \in JobRecord, Ordered(p, j), j.todo # <<>>,
         NEW r \in JobRecord, r.todo = Tail(j.todo), r.todo # <<>>, r.step = "begin",
         r.list = j.list, r.gain = j.gain
  PROVE  Ordered(p, r)
  <1>1. j.todo \in Seq(Phases)
    BY RecordIs
  <1>2. Shape(r.todo)
    BY <1>1, ShapeTail DEF Ordered
  <1>3. \A x : Has(r.todo, x) => Has(j.todo, x)
    BY <1>1, HasTail
  <1>4. ASSUME p = Hook
        PROVE  /\ r.list = None
               /\ \A i \in 1..Len(r.todo) : r.todo[i] \in {"publish", "subscribe"}
    <2>1. \A i \in 1..Len(j.todo) : j.todo[i] \in {"publish", "subscribe"}
      BY <1>4 DEF Ordered
    <2>2. /\ Len(j.todo) \in Nat /\ Len(r.todo) = Len(j.todo) - 1
          /\ \A i \in 1..Len(j.todo) - 1 : r.todo[i] = j.todo[i + 1]
      BY <1>1, TailIs
    <2>3. ASSUME NEW i \in 1..Len(r.todo) PROVE r.todo[i] \in {"publish", "subscribe"}
      <3>1. i + 1 \in 1..Len(j.todo) /\ r.todo[i] = j.todo[i + 1]
        BY <2>2
      <3>. QED  BY <2>1, <3>1
    <2>. QED  BY <1>4, <2>3 DEF Ordered
  <1>5. StepFits(r)
    BY DEF StepFits
  <1>. QED  BY <1>2, <1>3, <1>4, <1>5 DEF Ordered

LEMMA NoneLeft == \A s \in Seq(Phases) : Len(s) = 0 <=> s = <<>>
  OBVIOUS

LEMMA NextPhaseIs ==
  ASSUME Jobs, NEW p \in Procs, job[p].todo # <<>>, NextPhase(p)
  PROVE  Jobs' /\ Moved(p)
  <1>. DEFINE j == job[p]
              r == [j EXCEPT !.todo = Tail(j.todo), !.step = "begin", !.size = 0, !.text = None]
  <1>1. j \in JobRecord /\ Ordered(p, j) /\ j.todo \in Seq(Phases)
    BY JobIs, RecordIs
  <1>2. /\ r \in JobRecord /\ r.step = "begin" /\ r.todo = Tail(j.todo) /\ r.list = j.list
        /\ r.gain = j.gain
    BY <1>1, RecordPopped
  <1>3. /\ Len(j.todo) \in Nat /\ Len(j.todo) > 0 /\ Len(Tail(j.todo)) = Len(j.todo) - 1
        /\ Tail(j.todo) \in Seq(Phases)
    BY <1>1, TailIs
  <1>4. job' = [job EXCEPT ![p] = IF Len(j.todo) = 1 THEN Idle ELSE r]
    BY DEF NextPhase
  <1>. HIDE DEF r
  <1>5. CASE Len(j.todo) = 1
    <2>1. job' = [job EXCEPT ![p] = Idle]
      BY <1>4, <1>5
    <2>2. Idle \in JobRecord /\ Ordered(p, Idle)
      BY IdleIs
    <2>3. Jobs' /\ Others(p) /\ job'[p] = Idle
      BY <2>1, <2>2, JobChanges
    <2>4. Tail(j.todo) = <<>>
      <3>1. PICK t \in Seq(Phases) : t = Tail(j.todo)
        BY <1>3
      <3>2. Len(t) = 0
        BY <1>3, <1>5, <3>1
      <3>. QED  BY <3>1, <3>2, NoneLeft
    <2>. QED  BY <2>3, <2>4, IdleIs DEF Moved
  <1>6. CASE Len(j.todo) # 1
    <2>1. r.todo # <<>>
      <3>1. PICK t \in Seq(Phases) : t = Tail(j.todo)
        BY <1>3
      <3>2. Len(t) # 0
        BY <1>3, <1>6, <3>1
      <3>. QED  BY <1>2, <3>1, <3>2, NoneLeft
    <2>2. Ordered(p, r)
      BY <1>1, <1>2, <2>1, PopOrdered
    <2>3. job' = [job EXCEPT ![p] = r]
      BY <1>4, <1>6
    <2>4. Jobs' /\ Others(p) /\ job'[p] = r
      BY <1>2, <2>2, <2>3, JobChanges
    <2>. QED  BY <1>2, <2>1, <2>4 DEF Moved
  <1>. QED  BY <1>5, <1>6

LEMMA StepOrdered ==
  ASSUME NEW p \in Procs, NEW j \in JobRecord, Ordered(p, j), j.todo # <<>>,
         NEW r \in JobRecord, r.todo = j.todo, r.list = j.list, r.gain = j.gain,
         StepFits(r), r.step \in {"send", "open", "write"} => r.text \in Texts
  PROVE  Ordered(p, r)
  BY DEF Ordered

LEMMA ToIs ==
  ASSUME Jobs, NEW p \in Procs, job[p].todo # <<>>, NEW step \in Steps, To(p, step),
         NEW phase, Head(job[p].todo) = phase,
         \/ phase = "set" /\ step \in {"array", "len"}
         \/ phase = "save" /\ step \in {"marshal", "write"},
         step = "write" => job[p].text \in Texts
  PROVE  Jobs' /\ Stepped(p, step) /\ job'[p].size = job[p].size /\ job'[p].text = job[p].text
  <1>. DEFINE r == [job[p] EXCEPT !.step = step]
  <1>1. job[p] \in JobRecord /\ Ordered(p, job[p])
    BY JobIs
  <1>2. /\ r \in JobRecord /\ r.step = step /\ r.todo = job[p].todo /\ r.list = job[p].list
        /\ r.gain = job[p].gain /\ r.size = job[p].size /\ r.text = job[p].text
    BY <1>1, RecordStep
  <1>3. job' = [job EXCEPT ![p] = r]
    BY DEF To
  <1>. HIDE DEF r
  <1>4. StepFits(r)
    BY <1>2 DEF StepFits
  <1>5. Ordered(p, r)
    BY <1>1, <1>2, <1>4, StepOrdered
  <1>6. Jobs' /\ Others(p) /\ job'[p] = r
    BY <1>2, <1>3, <1>5, JobChanges
  <1>. QED  BY <1>2, <1>6 DEF Stepped

LEMMA ToSize ==
  ASSUME Jobs, NEW p \in Procs, job[p].todo # <<>>, NEW step, NEW n \in Nat,
         job' = [job EXCEPT ![p].step = step, ![p].size = n],
         \/ Head(job[p].todo) = "save" /\ step = "prepare"
         \/ Head(job[p].todo) = "publish" /\ step = "fill"
  PROVE  Jobs' /\ Stepped(p, step) /\ job'[p].size = n
  <1>1. PICK j \in JobRecord : j = job[p]
    BY JobIs
  <1>2. PICK r : r = [j EXCEPT !.step = step, !.size = n]
    OBVIOUS
  <1>3. job[p] \in JobRecord /\ Ordered(p, job[p]) /\ step \in Steps
    BY JobIs DEF Steps
  <1>4. /\ r \in JobRecord /\ r.step = step /\ r.todo = j.todo /\ r.list = j.list
        /\ r.gain = j.gain /\ r.size = n
    BY <1>3, <1>2 DEF JobRecord
  <1>5. job' = [job EXCEPT ![p] = r]
    BY <1>1, <1>2
  <1>6. StepFits(r)
    BY <1>1, <1>4 DEF StepFits
  <1>7. Ordered(p, r)
    BY <1>1, <1>3, <1>4, <1>6, StepOrdered
  <1>8. Jobs' /\ Others(p) /\ job'[p] = r
    BY <1>4, <1>5, <1>7, JobChanges
  <1>. QED  BY <1>1, <1>4, <1>8 DEF Stepped

LEMMA ToText ==
  ASSUME Jobs, NEW p \in Procs, job[p].todo # <<>>, NEW step, NEW text \in Texts,
         job' = [job EXCEPT ![p].step = step, ![p].text = text],
         \/ Head(job[p].todo) = "save" /\ step = "open"
         \/ Head(job[p].todo) = "publish" /\ step = "send"
  PROVE  Jobs' /\ Stepped(p, step) /\ job'[p].text = text
  <1>1. PICK j \in JobRecord : j = job[p]
    BY JobIs
  <1>2. PICK r : r = [j EXCEPT !.step = step, !.text = text]
    OBVIOUS
  <1>3. job[p] \in JobRecord /\ Ordered(p, job[p]) /\ step \in Steps
    BY JobIs DEF Steps
  <1>4. /\ r \in JobRecord /\ r.step = step /\ r.todo = j.todo /\ r.list = j.list
        /\ r.gain = j.gain /\ r.text = text
    BY <1>3, <1>2 DEF JobRecord
  <1>5. job' = [job EXCEPT ![p] = r]
    BY <1>1, <1>2
  <1>6. StepFits(r)
    BY <1>1, <1>4 DEF StepFits
  <1>7. Ordered(p, r)
    BY <1>1, <1>3, <1>4, <1>6, StepOrdered
  <1>8. Jobs' /\ Others(p) /\ job'[p] = r
    BY <1>4, <1>5, <1>7, JobChanges
  <1>. QED  BY <1>1, <1>4, <1>8 DEF Stepped

-----------------------------------------------------------------------------
(* The inductive invariant                                                 *)

Types ==
  /\ up \in BOOLEAN /\ saver \in BOOLEAN /\ filled \in BOOLEAN
  /\ missed \in BOOLEAN /\ raced \in BOOLEAN
  /\ array \in Seq(Item) /\ len \in Nat /\ gain \in Gains \cup {FirstGain}
  /\ file \in Texts \cup {Empty, Garbled}
  /\ link \in {"new", "up", "lost"} /\ subscribed \in BOOLEAN
  /\ requests \in 0..MaxRequests
  /\ losses \in Nat /\ crashes \in Nat /\ losses + crashes <= MaxFaults
  /\ fresh \subseteq Seq(Item)

\* Only the command handler takes e.mu, and who holds it has yet to unlock it.
Locked == mu = None \/ (mu = Remote /\ Has(job[Remote].todo, "unlock"))

\* A process that does not run has no goroutines, no connection and no clients.
Process ==
  /\ ~up => /\ ~saver /\ link = "new" /\ ~subscribed /\ mu = None /\ outbox = {}
            /\ \A p \in Procs : job[p] = Idle
  /\ ~saver => shown = None
  /\ subscribed => link = "up"

\* A list that is being put counts as put.
Listed == \A p \in Procs : job[p].list # None => job[p].list \in fresh

Base == Types /\ Jobs /\ Locked /\ Process /\ Listed

LEMMA BaseIs == Base => Types /\ Jobs /\ Locked /\ Process /\ Listed
  BY DEF Base

-----------------------------------------------------------------------------
(* What is read                                                            *)

LEMMA TextIs ==
  ASSUME NEW bands, NEW g
  PROVE  /\ Text(bands, g).bands = bands /\ Text(bands, g).gain = g
         /\ bands \in Seq(Item) /\ g \in Gains \cup {FirstGain} => Text(bands, g) \in Texts
  BY DEF Text, Texts, Item

LEMMA TextsAre ==
  ASSUME NEW text \in Texts
  PROVE  text.bands \in Seq(Item) /\ text.gain \in Gains \cup {FirstGain}
  BY DEF Texts, Item

LEMMA ViewIs ==
  ASSUME Types
  PROVE  /\ View \in Seq(Item)
         /\ len = Len(array) => View = array
  <1>1. len \in Nat /\ array \in Seq(Item) /\ Len(array) \in Nat
    BY DEF Types
  <1>2. PICK v : v = View
    OBVIOUS
  <1>3. v = [i \in 1..len |-> IF i <= Len(array) THEN array[i] ELSE Junk]
    BY <1>2 DEF View
  <1>4. v = [i \in 1..len |-> v[i]]
    BY <1>3
  <1>5. \A i \in 1..len : v[i] \in Item
    BY <1>1, <1>3 DEF Item
  <1>6. v \in Seq(Item)
    BY <1>1, <1>4, <1>5, IsSeq
  <1>7. ASSUME len = Len(array) PROVE v = array
    <2>1. array = [i \in 1..len |-> array[i]]
      BY <1>1, <1>7, SeqFacts
    <2>2. \A i \in 1..len : v[i] = array[i]
      BY <1>1, <1>3, <1>7
    <2>. QED  BY <1>4, <2>1, <2>2
  <1>. QED  BY <1>2, <1>6, <1>7

LEMMA PaddedIs ==
  ASSUME NEW bands \in Seq(Item), NEW size \in Nat
  PROVE  /\ Padded(bands, size) \in Seq(Item)
         /\ size = Len(bands) => Padded(bands, size) = bands
  <1>1. Len(bands) \in Nat /\ \A i \in 1..Len(bands) : bands[i] \in Item
    BY SeqFacts
  <1>2. PICK v : v = Padded(bands, size)
    OBVIOUS
  <1>3. v = [i \in 1..size |-> IF i <= Len(bands) THEN bands[i] ELSE ZeroBand]
    BY <1>2 DEF Padded
  <1>4. v = [i \in 1..size |-> v[i]]
    BY <1>3
  <1>5. ZeroBand \in Item
    BY ConstantFacts DEF ZeroBand, Item, Band
  <1>6. \A i \in 1..size : v[i] \in Item
    BY <1>1, <1>3, <1>5
  <1>7. v \in Seq(Item)
    BY <1>4, <1>6, IsSeq
  <1>8. ASSUME size = Len(bands) PROVE v = bands
    <2>1. bands = [i \in 1..size |-> bands[i]]
      BY <1>8, SeqFacts
    <2>2. \A i \in 1..size : v[i] = bands[i]
      BY <1>1, <1>3, <1>8
    <2>. QED  BY <1>4, <2>1, <2>2
  <1>. QED  BY <1>2, <1>7, <1>8

\* The file that Restart loads.
LEMMA LoadedIs ==
  ASSUME Types
  PROVE  /\ file = Empty => Loaded.bands = DefaultList /\ Loaded.gain = FirstGain
         /\ file # Empty => Loaded.bands = FromMHz(file.bands) /\ Loaded.gain = file.gain
         /\ file # Garbled => /\ Loaded.bands \in Seq(Item) /\ Loaded.gain \in Gains \cup {FirstGain}
                              /\ Rounded(Loaded.bands) = Loaded.bands
         /\ file # Garbled /\ file # Empty => file \in Texts
  <1>1. file = Empty => Loaded.bands = DefaultList /\ Loaded.gain = FirstGain
    BY TextIs DEF Loaded
  <1>2. file # Empty => Loaded.bands = FromMHz(file.bands) /\ Loaded.gain = file.gain
    BY TextIs DEF Loaded
  <1>3. DefaultList \in Seq(Item) /\ Rounded(DefaultList) = DefaultList
    BY ConstantFacts, BandSeqItem
  <1>4. file # Garbled /\ file # Empty => file \in Texts
    BY DEF Types
  <1>5. ASSUME file \in Texts
        PROVE  /\ FromMHz(file.bands) \in Seq(Item) /\ file.gain \in Gains \cup {FirstGain}
               /\ Rounded(FromMHz(file.bands)) = FromMHz(file.bands)
    BY <1>5, TextsAre, ConversionTypes, RoundedTwice
  <1>. QED  BY <1>1, <1>2, <1>3, <1>4, <1>5

-----------------------------------------------------------------------------
(* What a step of one goroutine leaves                                     *)

LEMMA ProcsAre == Remote \in Procs /\ Hook \in Procs /\ \A p \in Api : p \in Procs
  BY DEF Procs

LEMMA AtIs ==
  ASSUME Base, NEW p \in Procs, NEW phase, NEW step, At(p, phase, step)
  PROVE  /\ job[p].todo # <<>> /\ Head(job[p].todo) = phase /\ job[p].step = step
         /\ Has(job[p].todo, phase)
         /\ job[p] # Idle /\ up
  <1>1. job[p].todo # <<>> /\ Head(job[p].todo) = phase /\ job[p].step = step
    BY DEF At
  <1>2. job[p].todo \in Seq(Phases)
    BY BaseIs, JobIs, RecordIs
  <1>3. Has(job[p].todo, phase)
    BY <1>1, <1>2, HasTail
  <1>4. job[p] # Idle
    BY <1>1, IdleIs
  <1>. QED  BY <1>1, <1>3, <1>4, BaseIs DEF Process, Types

\* Phases that are not over stay to be done.
LEMMA MovedHas ==
  ASSUME Jobs, NEW p \in Procs, job[p].todo # <<>>, Moved(p), NEW q \in Procs, NEW x
  PROVE  /\ Has(job'[q].todo, x) => Has(job[q].todo, x)
         /\ Has(job[q].todo, x) => Has(job'[q].todo, x) \/ (q = p /\ Head(job[p].todo) = x)
  <1>1. job[p].todo \in Seq(Phases)
    BY JobIs, RecordIs
  <1>2. Has(job[p].todo, x) <=> Head(job[p].todo) = x \/ Has(Tail(job[p].todo), x)
    BY <1>1, HasTail
  <1>. QED  BY <1>2 DEF Moved, Others

LEMMA SteppedHas ==
  ASSUME NEW p \in Procs, NEW s, Stepped(p, s), NEW q \in Procs, NEW x
  PROVE  Has(job'[q].todo, x) <=> Has(job[q].todo, x)
  BY DEF Stepped, Others

LEMMA ListedKeep ==
  ASSUME Listed, NEW p \in Procs, Moved(p) \/ (\E s : Stepped(p, s)), fresh \subseteq fresh'
  PROVE  Listed'
  <1>1. \A q \in Procs : job'[q].list \in {job[q].list, None}
    BY DEF Moved, Stepped, Others
  <1>. QED  BY <1>1 DEF Listed

LEMMA LockedKeep ==
  ASSUME Jobs, Locked, NEW p \in Procs, mu' = mu,
         \/ job[p].todo # <<>> /\ Moved(p) /\ Head(job[p].todo) # "unlock"
         \/ \E s : Stepped(p, s)
  PROVE  Locked'
  <1>1. Remote \in Procs
    BY ProcsAre
  <1>2. Has(job[Remote].todo, "unlock") => Has(job'[Remote].todo, "unlock")
    BY <1>1, MovedHas, SteppedHas
  <1>. QED  BY <1>2 DEF Locked

LEMMA ProcessKeep ==
  ASSUME Process, up, up' = up, saver' = saver, saver \/ shown' = shown,
         subscribed' => link' = "up"
  PROVE  Process'
  BY DEF Process

LEMMA DieBase ==
  ASSUME Base, Die, crashes' \in Nat, losses + crashes' <= MaxFaults
  PROVE  Base'
  <1>1. /\ up' = FALSE /\ saver' = FALSE /\ mu' = None /\ job' = [p \in Procs |-> Idle]
        /\ link' = "new" /\ subscribed' = FALSE /\ outbox' = {}
        /\ missed' = (missed \/ file \in {Empty, Garbled}) /\ shown' = None
        /\ requests' = requests /\ array' = array /\ len' = len /\ filled' = filled /\ gain' = gain
        /\ file' = file /\ losses' = losses /\ retained' = retained /\ fresh' = fresh /\ raced' = raced
    BY DEF Die, sliceVars
  <1>2. \A p \in Procs : job'[p] = Idle
    BY <1>1
  <1>3. Types'
    <2>1. missed' \in BOOLEAN
      BY <1>1
    <2>. QED  BY <1>1, <2>1, BaseIs DEF Types
  <1>4. Jobs'
    <2>1. job' \in [Procs -> JobRecord]
      BY <1>1, IdleIs
    <2>. QED  BY <1>2, <2>1, IdleIs DEF Jobs
  <1>5. Locked' /\ Process'
    BY <1>1, <1>2 DEF Locked, Process
  <1>6. Listed'
    BY <1>2, IdleIs DEF Listed
  <1>. QED  BY <1>3, <1>4, <1>5, <1>6 DEF Base

\* The request of an HTTP handler ends.
LEMMA PanicBase ==
  ASSUME Base, NEW p \in Procs, up, Panic(p)
  PROVE  Base'
  <1>1. CASE p \in Api
    <2>1. /\ job' = [job EXCEPT ![p] = Idle] /\ missed' = TRUE
          /\ up' = up /\ saver' = saver /\ requests' = requests /\ crashes' = crashes /\ mu' = mu
          /\ array' = array /\ len' = len /\ filled' = filled /\ gain' = gain
          /\ file' = file /\ link' = link /\ subscribed' = subscribed /\ losses' = losses
          /\ outbox' = outbox /\ retained' = retained
          /\ shown' = shown /\ fresh' = fresh /\ raced' = raced
      BY <1>1 DEF Panic, procVars, sliceVars, linkVars
    <2>2. Jobs' /\ Others(p) /\ job'[p] = Idle
      BY <2>1, BaseIs, IdleIs, JobChanges
    <2>3. Types'
      BY <2>1, BaseIs DEF Types
    <2>4. Locked'
      <3>1. Remote # p /\ job'[Remote] = job[Remote]
        BY <1>1, <2>2, ConstantFacts, ProcsAre DEF Others
      <3>. QED  BY <2>1, <3>1, BaseIs DEF Locked
    <2>5. Process'
      BY <2>1, BaseIs DEF Process
    <2>6. Listed'
      BY <2>1, <2>2, BaseIs, IdleIs DEF Listed, Others
    <2>. QED  BY <2>2, <2>3, <2>4, <2>5, <2>6 DEF Base
  <1>2. CASE p \notin Api
    <2>1. Die /\ crashes' = crashes
      BY <1>2 DEF Panic
    <2>. QED  BY <2>1, BaseIs, DieBase DEF Types
  <1>. QED  BY <1>1, <1>2

-----------------------------------------------------------------------------
(* Edits that do not overlap                                               *)

Sole == \A p \in Api, q \in Procs : q # p /\ job[p] # Idle => job[q] = Idle

Halfway == \E p \in Procs : job[p].step \in {"array", "len"}
Whole == up /\ ~Halfway => len = Len(array)

\* An editor's list is in place once it has been set, and what it has read
\* for the file or for a message is still so.
Editing(p) ==
  /\ job[p].step = "array" => len = Len(job[p].list)
  /\ job[p].step = "len" => array = job[p].list
  /\ job[p].list # None /\ ~Has(job[p].todo, "set") => array = job[p].list
  /\ job[p].step = "prepare" => job[p].size = len
  /\ job[p].step = "marshal" => filled
  /\ job[p].step \in {"open", "write"} => job[p].text.bands = ToMHz(array, TRUE)
  /\ job[p].step = "write" => file = Empty
  /\ job[p].step = "fill" /\ (p # Hook \/ losses = 0) => job[p].size = len
  /\ job[p].step = "send" /\ (p # Hook \/ losses = 0) => job[p].text = Text(array, gain)

\* The file is current, or somebody has yet to save, or a save has failed.
Filed ==
  /\ file # Garbled
  /\ up /\ ~missed /\ (\A p \in Procs : ~Has(job[p].todo, "save")) => Loaded.bands = Rounded(array)

\* An edit that counts is in use, and in the file.
Near(bands) == \E list \in fresh : Rounded(list) = Rounded(bands)

Surviving ==
  /\ ~missed /\ file # Empty => Near(FromMHz(file.bands))
  /\ ~up /\ ~missed => file # Empty
  /\ up /\ ~Halfway => Near(array)

\* On a first connection no command comes before OnConnect has published, and
\* the broker has the configuration or somebody has yet to publish.
Wire ==
  losses = 0 =>
    /\ outbox = {} /\ link # "lost"
    /\ subscribed => job[Hook] = Idle
    /\ job[Remote] # Idle => subscribed
    /\ link = "up" =>
         (\E p \in Procs : Has(job[p].todo, "publish")) \/ retained = Text(array, gain)

Told == (\E p \in Procs : Has(job[p].todo, "notify")) \/ shown \in {None, Text(array, gain)}

Calm == Sole /\ Whole /\ (\A p \in Procs : Editing(p)) /\ Filed /\ Surviving /\ Wire /\ Told

ConfigInv == Base /\ (~raced => Calm)

LEMMA CalmIs == Calm => /\ Sole /\ Whole /\ (\A p \in Procs : Editing(p))
                        /\ Filed /\ Surviving /\ Wire /\ Told
  BY DEF Calm

-----------------------------------------------------------------------------

\* Beside the command handler only OnConnect can be at work, and not on a
\* first connection; beside an HTTP handler nobody.
LEMMA Partner ==
  ASSUME Calm, NEW p \in Procs, p # Hook, job[p] # Idle, NEW q \in Procs, q # p, job[q] # Idle
  PROVE  q = Hook /\ p = Remote /\ losses # 0
  <1>1. p \notin Api
    BY CalmIs DEF Sole
  <1>2. p = Remote
    BY <1>1 DEF Procs
  <1>3. q \notin Api
    BY CalmIs DEF Sole
  <1>4. q = Hook
    BY <1>2, <1>3 DEF Procs
  <1>5. losses # 0
    BY <1>2, <1>4, CalmIs DEF Wire
  <1>. QED  BY <1>2, <1>4, <1>5

LEMMA HookIs ==
  ASSUME NEW j \in JobRecord, Ordered(Hook, j)
  PROVE  /\ j.step \in {"begin", "fill", "send"} /\ j.list = None
         /\ \A x : Has(j.todo, x) => x \in {"publish", "subscribe"}
         /\ j.todo # <<>> => Head(j.todo) \in {"publish", "subscribe"}
  <1>1. \A i \in 1..Len(j.todo) : j.todo[i] \in {"publish", "subscribe"}
    BY DEF Ordered
  <1>2. \A x : Has(j.todo, x) => x \in {"publish", "subscribe"}
    BY <1>1 DEF Has
  <1>3. ASSUME j.todo # <<>> PROVE Head(j.todo) \in {"publish", "subscribe"}
    BY <1>2, <1>3, RecordIs, HasTail
  <1>4. j.step \in {"begin", "fill", "send"}
    BY <1>3 DEF Ordered, StepFits
  <1>. QED  BY <1>2, <1>3, <1>4 DEF Ordered

LEMMA IdleEditing ==
  ASSUME NEW q \in Procs, job'[q] = Idle
  PROVE  Editing(q)'
  <1>1. job'[q].step = "begin" /\ job'[q].list = None
    BY IdleIs
  <1>. QED  BY <1>1 DEF Editing

LEMMA HookEditing ==
  ASSUME Jobs', losses' # 0
  PROVE  Editing(Hook)'
  <1>1. job'[Hook] \in JobRecord /\ Ordered(Hook, job'[Hook])
    BY ProcsAre DEF Jobs
  <1>2. job'[Hook].step \in {"begin", "fill", "send"} /\ job'[Hook].list = None
    BY <1>1, HookIs
  <1>. QED  BY <1>2 DEF Editing

\* While an editor is at work, nobody else has read anything that must stay.
LEMMA OthersEditing ==
  ASSUME Calm, Jobs, Jobs', NEW p \in Procs, p # Hook, job[p] # Idle, Others(p), losses' = losses,
         NEW q \in Procs, q # p
  PROVE  Editing(q)'
  <1>1. job'[q] = job[q]
    BY DEF Others
  <1>2. CASE job[q] = Idle
    BY <1>1, <1>2, IdleEditing
  <1>3. CASE job[q] # Idle
    <2>1. q = Hook /\ losses # 0
      BY <1>3, Partner
    <2>. QED  BY <2>1, HookEditing
  <1>. QED  BY <1>2, <1>3

LEMMA SoleKeep ==
  ASSUME Sole, NEW p \in Procs, job[p] # Idle, Others(p)
  PROVE  Sole'
  <1>1. ASSUME NEW a \in Api, NEW q \in Procs, q # a, job'[a] # Idle
        PROVE  job'[q] = Idle
    <2>1. job[a] # Idle
      BY <1>1, ProcsAre DEF Others
    <2>2. job[q] = Idle
      BY <1>1, <2>1 DEF Sole
    <2>. QED  BY <2>2 DEF Others
  <1>. QED  BY <1>1 DEF Sole

LEMMA HalfwaySame ==
  ASSUME NEW p \in Procs, Others(p), job[p].step \notin {"array", "len"},
         job'[p].step \notin {"array", "len"}
  PROVE  Halfway' <=> Halfway
  BY DEF Halfway, Others

\* Nobody is halfway through an assignment beside an editor that is not.
LEMMA NotHalfway ==
  ASSUME Jobs, Calm, NEW p \in Procs, job[p] # Idle, job[p].step \notin {"array", "len"},
         p # Hook \/ losses = 0
  PROVE  ~Halfway
  <1>. SUFFICES ASSUME NEW q \in Procs, job[q].step \in {"array", "len"}
                PROVE  FALSE
    BY DEF Halfway
  <1>1. q # p /\ job[q] # Idle
    BY IdleIs
  <1>2. q # Hook
    <2>1. job[q] \in JobRecord /\ Ordered(q, job[q])
      BY JobIs
    <2>. QED  BY <2>1, HookIs
  <1>3. p = Hook /\ losses # 0
    BY <1>1, <1>2, Partner
  <1>. QED  BY <1>3

\* What one goroutine does, the configuration being left alone.
LEMMA QuietCalm ==
  ASSUME Calm, Jobs, Jobs', NEW p \in Procs, job[p] # Idle, Others(p),
         array' = array, len' = len, up' = up, losses' = losses,
         job[p].step \notin {"array", "len"}, job'[p].step \notin {"array", "len"},
         p # Hook \/ (filled' = filled /\ file' = file /\ gain' = gain)
  PROVE  /\ Sole' /\ Whole' /\ (Halfway' <=> Halfway)
         /\ \A q \in Procs : q # p => Editing(q)'
  <1>1. Sole'
    BY CalmIs, SoleKeep
  <1>2. Halfway' <=> Halfway
    BY HalfwaySame
  <1>3. Whole'
    BY <1>2, CalmIs DEF Whole
  <1>4. ASSUME NEW q \in Procs, q # p PROVE Editing(q)'
    <2>1. CASE p # Hook
      BY <1>4, <2>1, OthersEditing
    <2>2. CASE p = Hook
      <3>1. Editing(q) /\ job'[q] = job[q]
        BY <1>4, CalmIs DEF Others
      <3>2. filled' = filled /\ file' = file /\ gain' = gain
        BY <2>2
      <3>. QED  BY <3>1, <3>2 DEF Editing
    <2>. QED  BY <2>1, <2>2
  <1>. QED  BY <1>1, <1>2, <1>3, <1>4

LEMMA FiledKeep ==
  ASSUME Filed, file' = file, array' = array, up' = up, missed' \/ missed' = missed,
         missed' \/ \A q \in Procs : Has(job[q].todo, "save") => Has(job'[q].todo, "save")
  PROVE  Filed'
  <1>1. Loaded' = Loaded
    BY DEF Loaded
  <1>. QED  BY <1>1 DEF Filed

LEMMA SurvivingKeep ==
  ASSUME Surviving, file' = file, array' = array, up' = up, fresh' = fresh,
         missed' \/ missed' = missed, Halfway' <=> Halfway
  PROVE  Surviving'
  BY DEF Surviving, Near

LEMMA WireKeep ==
  ASSUME Wire, losses' = losses, outbox' = outbox, link' = link, subscribed' = subscribed,
         retained' = retained, array' = array, gain' = gain,
         job[Hook] = Idle => job'[Hook] = Idle, job[Remote] = Idle => job'[Remote] = Idle,
         \A q \in Procs : Has(job[q].todo, "publish") => Has(job'[q].todo, "publish")
  PROVE  Wire'
  BY DEF Wire

LEMMA ToldKeep ==
  ASSUME Told, shown' = shown, array' = array, gain' = gain,
         \A q \in Procs : Has(job[q].todo, "notify") => Has(job'[q].todo, "notify")
  PROVE  Told'
  BY DEF Told

\* Who is idle stays so when somebody else is at work.
LEMMA IdleStays ==
  ASSUME NEW p \in Procs, job[p] # Idle, Others(p), NEW q \in Procs, job[q] = Idle
  PROVE  job'[q] = Idle
  BY DEF Others

LEMMA MovedEditing ==
  ASSUME Jobs, NEW p \in Procs, job[p].todo # <<>>, Moved(p), Head(job[p].todo) # "set",
         Editing(p), array' = array
  PROVE  Editing(p)'
  <1>1. job'[p].step = "begin" /\ job'[p].list \in {job[p].list, None}
    BY DEF Moved
  <1>2. Has(job[p].todo, "set") => Has(job'[p].todo, "set")
    BY MovedHas
  <1>3. array' = array /\ (job'[p].list # None /\ ~Has(job'[p].todo, "set") => array = job'[p].list)
    BY <1>1, <1>2 DEF Editing
  <1>. QED  BY <1>1, <1>3 DEF Editing

\* A phase ends that has changed neither the configuration nor the file.
LEMMA MovedCalm ==
  ASSUME Calm, Jobs, Jobs', NEW p \in Procs, job[p].todo # <<>>, job[p] # Idle, Moved(p),
         Head(job[p].todo) # "set", job[p].step \notin {"array", "len"},
         array' = array, len' = len, filled' = filled, gain' = gain, file' = file, up' = up,
         losses' = losses, fresh' = fresh, missed' \/ (missed' = missed /\ Head(job[p].todo) # "save")
  PROVE  Sole' /\ Whole' /\ (\A q \in Procs : Editing(q)') /\ Filed' /\ Surviving'
  <1>1. Others(p) /\ job'[p].step = "begin"
    BY DEF Moved
  <1>2. Sole' /\ Whole' /\ (Halfway' <=> Halfway) /\ \A q \in Procs : q # p => Editing(q)'
    BY <1>1, QuietCalm
  <1>3. Editing(p)'
    BY CalmIs, MovedEditing
  <1>4. Filed'
    <2>1. missed' \/ \A q \in Procs : Has(job[q].todo, "save") => Has(job'[q].todo, "save")
      BY MovedHas
    <2>. QED  BY <2>1, CalmIs, FiledKeep
  <1>5. Surviving'
    BY <1>2, CalmIs, SurvivingKeep
  <1>. QED  BY <1>2, <1>3, <1>4, <1>5

LEMMA MovedWire ==
  ASSUME Wire, Jobs, NEW p \in Procs, job[p].todo # <<>>, job[p] # Idle, Moved(p),
         Head(job[p].todo) # "publish", losses' = losses, outbox' = outbox, link' = link,
         subscribed' = subscribed, retained' = retained, array' = array, gain' = gain
  PROVE  Wire'
  <1>1. \A q \in Procs : Has(job[q].todo, "publish") => Has(job'[q].todo, "publish")
    BY MovedHas
  <1>2. \A q \in {Hook, Remote} : job[q] = Idle => job'[q] = Idle
    BY IdleStays, ProcsAre DEF Moved
  <1>. QED  BY <1>1, <1>2, WireKeep

LEMMA MovedTold ==
  ASSUME Told, Jobs, NEW p \in Procs, job[p].todo # <<>>, Moved(p),
         Head(job[p].todo) # "notify", shown' = shown, array' = array, gain' = gain
  PROVE  Told'
  <1>1. \A q \in Procs : Has(job[q].todo, "notify") => Has(job'[q].todo, "notify")
    BY MovedHas
  <1>. QED  BY <1>1, ToldKeep

\* A step within a phase, the configuration being left alone.
LEMMA SteppedCalm ==
  ASSUME Calm, Jobs, Jobs', NEW p \in Procs, job[p] # Idle, NEW s, Stepped(p, s),
         s \notin {"array", "len"}, job[p].step \notin {"array", "len"},
         array' = array, len' = len, gain' = gain, up' = up,
         losses' = losses, fresh' = fresh, missed' = missed,
         p # Hook \/ (filled' = filled /\ file' = file),
         outbox' = outbox, link' = link, subscribed' = subscribed, retained' = retained,
         shown' = shown, Editing(p)'
  PROVE  /\ Sole' /\ Whole' /\ (\A q \in Procs : Editing(q)') /\ Wire' /\ Told'
         /\ Halfway' <=> Halfway
         /\ file' = file => Filed' /\ Surviving'
  <1>1. Others(p) /\ job'[p].step = s
    BY DEF Stepped
  <1>2. Sole' /\ Whole' /\ (Halfway' <=> Halfway) /\ \A q \in Procs : q # p => Editing(q)'
    BY <1>1, QuietCalm
  <1>3. \A q \in Procs : \A x : Has(job[q].todo, x) => Has(job'[q].todo, x)
    BY SteppedHas
  <1>4. \A q \in {Hook, Remote} : job[q] = Idle => job'[q] = Idle
    BY <1>1, IdleStays, ProcsAre
  <1>5. Wire'
    BY <1>3, <1>4, CalmIs, WireKeep
  <1>6. Told'
    BY <1>3, CalmIs, ToldKeep
  <1>7. ASSUME file' = file PROVE Filed' /\ Surviving'
    BY <1>2, <1>3, <1>7, CalmIs, FiledKeep, SurvivingKeep
  <1>. QED  BY <1>2, <1>5, <1>6, <1>7

-----------------------------------------------------------------------------
(* Phases that change the configuration, or nothing                        *)

LEMMA InvIs == ConfigInv => Base /\ (~raced => Calm)
  BY DEF ConfigInv

\* A phase begins with its goroutine's jobs in order.
LEMMA PhaseEnds ==
  ASSUME ConfigInv, NEW p \in Procs, NEW phase, NEW step, At(p, phase, step), NextPhase(p)
  PROVE  /\ job[p].todo # <<>> /\ Head(job[p].todo) = phase /\ job[p].step = step
         /\ job[p] # Idle /\ up /\ Jobs' /\ Moved(p)
  <1>1. Base /\ Jobs
    BY InvIs, BaseIs
  <1>. QED  BY <1>1, AtIs, NextPhaseIs

LEMMA PassOver ==
  ASSUME ConfigInv, NEW p \in Procs, NEW phase, NEW step, At(p, phase, step), NextPhase(p),
         step \notin {"array", "len"}, phase \notin {"set", "publish", "notify"},
         UNCHANGED <<procVars, sliceVars, gain, file, linkVars, shown, fresh, raced>>,
         missed' = TRUE \/ (missed' = missed /\ phase # "save"), Locked'
  PROVE  ConfigInv'
  <1>1. /\ up' = up /\ saver' = saver /\ requests' = requests /\ crashes' = crashes
        /\ array' = array /\ len' = len /\ filled' = filled /\ gain' = gain /\ file' = file
        /\ link' = link /\ subscribed' = subscribed /\ losses' = losses /\ outbox' = outbox
        /\ retained' = retained /\ shown' = shown /\ fresh' = fresh /\ raced' = raced
    BY DEF procVars, sliceVars, linkVars
  <1>2. Base /\ (~raced => Calm)
    BY InvIs
  <1>3. Types /\ Jobs /\ Locked /\ Process /\ Listed
    BY <1>2, BaseIs
  <1>4. /\ job[p].todo # <<>> /\ Head(job[p].todo) = phase /\ job[p].step = step
        /\ job[p] # Idle /\ up /\ Jobs' /\ Moved(p)
    BY PhaseEnds
  <1>5. Base'
    <2>1. missed' \in BOOLEAN
      BY <1>3 DEF Types
    <2>2. Types'
      BY <1>1, <1>3, <2>1 DEF Types
    <2>3. Process'
      BY <1>1, <1>3, <1>4, ProcessKeep DEF Process
    <2>4. Listed'
      BY <1>1, <1>3, <1>4, ListedKeep
    <2>. QED  BY <1>4, <2>2, <2>3, <2>4 DEF Base
  <1>6. ASSUME ~raced PROVE Calm'
    <2>1. Calm
      BY <1>2, <1>6
    <2>2. Sole' /\ Whole' /\ (\A q \in Procs : Editing(q)') /\ Filed' /\ Surviving'
      BY <1>1, <1>3, <1>4, <2>1, MovedCalm
    <2>3. Wire'
      BY <1>1, <1>3, <1>4, <2>1, CalmIs, MovedWire
    <2>4. Told'
      BY <1>1, <1>3, <1>4, <2>1, CalmIs, MovedTold
    <2>. QED  BY <2>2, <2>3, <2>4 DEF Calm
  <1>. QED  BY <1>1, <1>5, <1>6 DEF ConfigInv

LEMMA LockInv ==
  ASSUME ConfigInv, NEW p \in Procs, Lock(p)
  PROVE  ConfigInv'
  <1>1. At(p, "lock", "begin") /\ mu' = p /\ NextPhase(p)
    BY DEF Lock
  <1>2. UNCHANGED <<procVars, sliceVars, gain, file, linkVars, shown, fresh, raced>> /\ missed' = missed
    BY DEF Lock, histVars
  <1>3. job[p].todo # <<>> /\ Head(job[p].todo) = "lock" /\ Moved(p)
    BY <1>1, PhaseEnds
  <1>4. Base /\ Jobs
    BY InvIs, BaseIs
  <1>5. job[p].todo \in Seq(Phases) /\ Ordered(p, job[p])
    BY <1>4, JobIs, RecordIs
  <1>6. p = Remote
    <2>1. Has(job[p].todo, "lock")
      BY <1>1, <1>4, AtIs
    <2>. QED  BY <1>5, <2>1 DEF Ordered
  <1>7. Has(Tail(job[p].todo), "unlock")
    BY <1>3, <1>5, ShapeTail DEF Ordered
  <1>8. Locked'
    BY <1>1, <1>3, <1>6, <1>7 DEF Locked, Moved
  <1>. QED  BY <1>1, <1>2, <1>8, PassOver

LEMMA UnlockInv ==
  ASSUME ConfigInv, NEW p \in Procs, Unlock(p)
  PROVE  ConfigInv'
  <1>1. At(p, "unlock", "begin") /\ mu' = None /\ NextPhase(p)
    BY DEF Unlock
  <1>2. UNCHANGED <<procVars, sliceVars, gain, file, linkVars, shown, fresh, raced>> /\ missed' = missed
    BY DEF Unlock, histVars
  <1>3. Locked'
    BY <1>1 DEF Locked
  <1>. QED  BY <1>1, <1>2, <1>3, PassOver

LEMMA StaysLocked ==
  ASSUME ConfigInv, NEW p \in Procs, NEW phase, NEW step, At(p, phase, step), NextPhase(p),
         phase # "unlock", mu' = mu
  PROVE  Locked'
  <1>1. job[p].todo # <<>> /\ Head(job[p].todo) = phase /\ Moved(p)
    BY PhaseEnds
  <1>2. Jobs /\ Locked
    BY InvIs, BaseIs
  <1>. QED  BY <1>1, <1>2, LockedKeep

LEMMA UpdateInv ==
  ASSUME ConfigInv, NEW p \in Procs, Update(p)
  PROVE  ConfigInv'
  <1>1. At(p, "update", "begin") /\ mu' = mu /\ NextPhase(p)
    BY DEF Update
  <1>2. UNCHANGED <<procVars, sliceVars, gain, file, linkVars, shown, fresh, raced>> /\ missed' = missed
    BY DEF Update, histVars
  <1>3. Locked'
    BY <1>1, StaysLocked
  <1>. QED  BY <1>1, <1>2, <1>3, PassOver

\* One that is not OnConnect, being at any other phase.
LEMMA NotHook ==
  ASSUME ConfigInv, NEW p \in Procs, NEW phase, NEW step, At(p, phase, step),
         phase \notin {"publish", "subscribe"}
  PROVE  p # Hook
  <1>. SUFFICES ASSUME p = Hook PROVE FALSE
    OBVIOUS
  <1>1. Base /\ Jobs
    BY InvIs, BaseIs
  <1>2. job[p].todo # <<>> /\ Head(job[p].todo) = phase
    BY <1>1, AtIs
  <1>3. job[p] \in JobRecord /\ Ordered(Hook, job[p])
    BY <1>1, JobIs
  <1>. QED  BY <1>2, <1>3, HookIs

\* Clients are sent the configuration there is.
LEMMA NotifyInv ==
  ASSUME ConfigInv, NEW p \in Procs, Notify(p)
  PROVE  ConfigInv'
  <1>1. At(p, "notify", "begin") /\ NextPhase(p) /\ shown' = IF saver THEN Text(View, gain) ELSE shown
    BY DEF Notify
  <1>2. /\ up' = up /\ saver' = saver /\ requests' = requests /\ crashes' = crashes /\ mu' = mu
        /\ array' = array /\ len' = len /\ filled' = filled /\ gain' = gain /\ file' = file
        /\ link' = link /\ subscribed' = subscribed /\ losses' = losses /\ outbox' = outbox
        /\ retained' = retained /\ fresh' = fresh /\ missed' = missed /\ raced' = raced
    BY DEF Notify, procVars, sliceVars, linkVars, histVars
  <1>3. Base /\ (~raced => Calm)
    BY InvIs
  <1>4. Types /\ Jobs /\ Locked /\ Process /\ Listed
    BY <1>3, BaseIs
  <1>5. /\ job[p].todo # <<>> /\ Head(job[p].todo) = "notify" /\ job[p].step = "begin"
        /\ job[p] # Idle /\ up /\ Jobs' /\ Moved(p)
    BY <1>1, PhaseEnds
  <1>6. Base'
    <2>1. Types'
      BY <1>2, <1>4 DEF Types
    <2>2. Locked'
      BY <1>1, <1>2, StaysLocked
    <2>3. Process'
      BY <1>1, <1>2, <1>4, <1>5, ProcessKeep DEF Process
    <2>4. Listed'
      BY <1>2, <1>4, <1>5, ListedKeep
    <2>. QED  BY <1>5, <2>1, <2>2, <2>3, <2>4 DEF Base
  <1>7. ASSUME ~raced PROVE Calm'
    <2>1. Calm
      BY <1>3, <1>7
    <2>2. Sole' /\ Whole' /\ (\A q \in Procs : Editing(q)') /\ Filed' /\ Surviving'
      BY <1>2, <1>4, <1>5, <2>1, MovedCalm
    <2>3. Wire'
      BY <1>2, <1>4, <1>5, <2>1, CalmIs, MovedWire
    <2>4. Told'
      <3>1. p # Hook
        BY <1>1, NotHook
      <3>2. ~Halfway
        BY <1>4, <1>5, <2>1, <3>1, NotHalfway
      <3>3. View = array
        BY <1>4, <1>5, <2>1, <3>2, CalmIs, ViewIs DEF Whole
      <3>4. shown' \in {None, Text(array, gain)}
        BY <1>1, <1>4, <3>3 DEF Process
      <3>. QED  BY <1>2, <3>4 DEF Told
    <2>. QED  BY <2>2, <2>3, <2>4 DEF Calm
  <1>. QED  BY <1>2, <1>6, <1>7 DEF ConfigInv

\* The OnConnect handler subscribes last, once it has published.
LEMMA SubscribeInv ==
  ASSUME ConfigInv, NEW p \in Procs, Subscribe(p)
  PROVE  ConfigInv'
  <1>1. At(p, "subscribe", "begin") /\ NextPhase(p) /\ subscribed' = (link = "up")
    BY DEF Subscribe
  <1>2. /\ up' = up /\ saver' = saver /\ requests' = requests /\ crashes' = crashes /\ mu' = mu
        /\ array' = array /\ len' = len /\ filled' = filled /\ gain' = gain /\ file' = file
        /\ link' = link /\ losses' = losses /\ outbox' = outbox /\ shown' = shown
        /\ retained' = retained /\ fresh' = fresh /\ missed' = missed /\ raced' = raced
    BY DEF Subscribe, procVars, sliceVars, histVars
  <1>3. Base /\ (~raced => Calm)
    BY InvIs
  <1>4. Types /\ Jobs /\ Locked /\ Process /\ Listed
    BY <1>3, BaseIs
  <1>5. /\ job[p].todo # <<>> /\ Head(job[p].todo) = "subscribe" /\ job[p].step = "begin"
        /\ job[p] # Idle /\ up /\ Jobs' /\ Moved(p)
    BY <1>1, PhaseEnds
  <1>6. Base'
    <2>1. Types'
      BY <1>1, <1>2, <1>4 DEF Types
    <2>2. Locked'
      BY <1>1, <1>2, StaysLocked
    <2>3. Process'
      BY <1>1, <1>2, <1>4, <1>5, ProcessKeep
    <2>4. Listed'
      BY <1>2, <1>4, <1>5, ListedKeep
    <2>. QED  BY <1>5, <2>1, <2>2, <2>3, <2>4 DEF Base
  <1>7. ASSUME ~raced PROVE Calm'
    <2>1. Calm
      BY <1>3, <1>7
    <2>2. Sole' /\ Whole' /\ (\A q \in Procs : Editing(q)') /\ Filed' /\ Surviving'
      BY <1>2, <1>4, <1>5, <2>1, MovedCalm
    <2>3. Told'
      BY <1>2, <1>4, <1>5, <2>1, CalmIs, MovedTold
    <2>4. p = Hook
      <3>1. Ordered(p, job[p]) /\ Has(job[p].todo, "subscribe")
        BY <1>1, <1>3, <1>4, AtIs, JobIs
      <3>. QED  BY <3>1 DEF Ordered
    <2>5. job'[Hook] = Idle
      <3>1. job[p].todo \in Seq(Phases) /\ Ordered(p, job[p])
        BY <1>4, JobIs, RecordIs
      <3>2. ~Has(Tail(job[p].todo), "publish") /\ ~Has(Tail(job[p].todo), "subscribe")
        BY <1>5, <3>1, ShapeTail DEF Ordered
      <3>3. job'[Hook] \in JobRecord /\ Ordered(Hook, job'[Hook]) /\ job'[Hook].todo = Tail(job[p].todo)
        BY <1>5, <2>4, ProcsAre DEF Jobs, Moved
      <3>4. ASSUME job'[Hook].todo # <<>> PROVE FALSE
        <4>1. Head(job'[Hook].todo) \in {"publish", "subscribe"}
          BY <3>3, <3>4, HookIs
        <4>2. Has(job'[Hook].todo, Head(job'[Hook].todo))
          BY <3>3, <3>4, RecordIs, HasTail
        <4>. QED  BY <3>2, <3>3, <4>1, <4>2
      <3>. QED  BY <3>3, <3>4 DEF Ordered
    <2>6. Wire'
      <3>1. \A q \in Procs : Has(job[q].todo, "publish") => Has(job'[q].todo, "publish")
        BY <1>4, <1>5, MovedHas
      <3>2. losses = 0 => job'[Remote] = Idle
        <4>1. losses = 0 => job[Remote] = Idle
          BY <1>5, <2>1, <2>4, ProcsAre, ConstantFacts, CalmIs DEF Wire
        <4>. QED  BY <1>5, <4>1, ProcsAre, IdleStays DEF Moved
      <3>. QED  BY <1>2, <2>1, <2>5, <3>1, <3>2, CalmIs DEF Wire
    <2>. QED  BY <2>2, <2>3, <2>6 DEF Calm
  <1>. QED  BY <1>2, <1>6, <1>7 DEF ConfigInv

\* A step within a phase leaves goroutines and mutex in order.
LEMMA SteppedBase ==
  ASSUME ConfigInv, NEW p \in Procs, job[p] # Idle, up, NEW s, Stepped(p, s), Jobs', Types',
         up' = up, saver' = saver, mu' = mu, link' = link, subscribed' = subscribed, shown' = shown,
         fresh' = fresh
  PROVE  Base'
  <1>1. Types /\ Jobs /\ Locked /\ Process /\ Listed
    BY InvIs, BaseIs
  <1>2. Locked'
    BY <1>1, LockedKeep
  <1>3. Process'
    BY <1>1, ProcessKeep DEF Process
  <1>4. Listed'
    BY <1>1, ListedKeep
  <1>. QED  BY <1>2, <1>3, <1>4 DEF Base

LEMMA MovedBase ==
  ASSUME ConfigInv, NEW p \in Procs, job[p].todo # <<>>, Head(job[p].todo) # "unlock", up,
         Moved(p), Jobs', Types', up' = up, saver' = saver, mu' = mu, link' = link,
         subscribed' = subscribed, shown' = shown, fresh' = fresh
  PROVE  Base'
  <1>1. Types /\ Jobs /\ Locked /\ Process /\ Listed
    BY InvIs, BaseIs
  <1>2. Locked'
    BY <1>1, LockedKeep
  <1>3. Process'
    BY <1>1, ProcessKeep DEF Process
  <1>4. Listed'
    BY <1>1, ListedKeep
  <1>. QED  BY <1>2, <1>3, <1>4 DEF Base

\* An editor assigns: the rest of what it does is to save, publish and notify.
LEMMA AssignedCalm ==
  ASSUME Calm, Jobs, Jobs', NEW p \in Procs, p # Hook, job[p] # Idle, Others(p), up,
         Has(job'[p].todo, "save") \/ (array' = array /\ Filed'),
         Has(job'[p].todo, "publish"), Has(job'[p].todo, "notify"),
         Whole', Editing(p)', Halfway' \/ Near(array'),
         file' = file, up' = up, losses' = losses, fresh' = fresh, missed' = missed,
         outbox' = outbox, link' = link, subscribed' = subscribed
  PROVE  Calm'
  <1>1. Sole'
    BY CalmIs, SoleKeep
  <1>2. ASSUME NEW q \in Procs PROVE Editing(q)'
    BY OthersEditing
  <1>3. Filed'
    BY CalmIs DEF Filed
  <1>4. Surviving'
    BY CalmIs DEF Surviving, Near
  <1>5. Wire'
    <2>1. \A q \in {Hook, Remote} : job[q] = Idle => job'[q] = Idle
      BY IdleStays, ProcsAre
    <2>. QED  BY <2>1, CalmIs DEF Wire
  <1>6. Told'
    BY DEF Told
  <1>. QED  BY <1>1, <1>2, <1>3, <1>4, <1>5, <1>6 DEF Calm

LEMMA SetBandsInv ==
  ASSUME ConfigInv, NEW p \in Procs, SetBands(p)
  PROVE  ConfigInv'
  <1>1. /\ up' = up /\ saver' = saver /\ requests' = requests /\ crashes' = crashes /\ mu' = mu
        /\ gain' = gain /\ file' = file
        /\ link' = link /\ subscribed' = subscribed /\ losses' = losses /\ outbox' = outbox
        /\ retained' = retained /\ shown' = shown /\ fresh' = fresh /\ missed' = missed /\ raced' = raced
    BY DEF SetBands, procVars, linkVars, histVars
  <1>2. Base /\ (~raced => Calm)
    BY InvIs
  <1>3. Types /\ Jobs /\ Locked /\ Process /\ Listed
    BY <1>2, BaseIs
  <1>4. PICK old \in {"begin", "array", "len"} :
          /\ At(p, "set", old)
          /\ \/ old = "begin" /\ WriteLen(p) /\ To(p, "array")
             \/ old = "begin" /\ WriteArray(p) /\ To(p, "len")
             \/ old = "array" /\ WriteArray(p) /\ NextPhase(p)
             \/ old = "len" /\ WriteLen(p) /\ NextPhase(p)
    BY DEF SetBands
  <1>5. /\ job[p].todo # <<>> /\ Head(job[p].todo) = "set" /\ job[p].step = old
        /\ Has(job[p].todo, "set") /\ job[p] # Idle /\ up
    BY <1>2, <1>4, AtIs
  <1>6. p # Hook
    BY <1>4, NotHook
  <1>7. job[p].todo \in Seq(Phases) /\ Ordered(p, job[p]) /\ Shape(job[p].todo)
    BY <1>3, JobIs, RecordIs DEF Ordered
  <1>8. job[p].list \in Lists /\ job[p].list \in Seq(Item) /\ Len(job[p].list) \in Nat
    <2>1. job[p].list \in Lists
      BY <1>5, <1>7 DEF Ordered
    <2>2. job[p].list \in Seq(Band)
      BY <2>1, ConstantFacts
    <2>. QED  BY <2>1, <2>2, BandSeqItem, SeqFacts
  <1>9. Near(job[p].list) /\ job[p].list # None
    BY <1>3, <1>8, ConstantFacts DEF Listed, Near
  <1>10. /\ Has(Tail(job[p].todo), "save") /\ Has(Tail(job[p].todo), "publish")
         /\ Has(Tail(job[p].todo), "notify")
    BY <1>5, <1>7, ShapeTail
  <1>11. \A x : Has(Tail(job[p].todo), x) => Has(job[p].todo, x)
    BY <1>5, <1>7, HasTail
  <1>12. ASSUME array' \in Seq(Item), len' \in Nat, filled' \in BOOLEAN PROVE Types'
    BY <1>1, <1>3, <1>12 DEF Types
  <1>13. CASE old = "begin" /\ WriteLen(p) /\ To(p, "array")
    <2>1. len' = Len(job[p].list) /\ array' = array /\ filled' = filled
      BY <1>13 DEF WriteLen
    <2>2. Jobs' /\ Stepped(p, "array")
      BY <1>3, <1>5, <1>13, ToIs DEF Steps
    <2>3. Types'
      BY <1>3, <1>8, <1>12, <2>1 DEF Types
    <2>4. Base'
      BY <1>1, <1>5, <2>2, <2>3, SteppedBase
    <2>5. ASSUME ~raced PROVE Calm'
      <3>1. Others(p) /\ job'[p].step = "array" /\ job'[p].list = job[p].list /\ job'[p].todo = job[p].todo
        BY <2>2 DEF Stepped
      <3>2. Halfway'
        BY <3>1 DEF Halfway
      <3>3. Whole'
        BY <3>2 DEF Whole
      <3>4. Editing(p)'
        BY <1>5, <2>1, <3>1 DEF Editing
      <3>. QED  BY <1>1, <1>2, <1>3, <1>5, <1>6, <1>10, <1>11, <2>2, <2>5, <3>1, <3>2, <3>3, <3>4, AssignedCalm
    <2>. QED  BY <1>1, <2>4, <2>5 DEF ConfigInv
  <1>14. CASE old = "begin" /\ WriteArray(p) /\ To(p, "len")
    <2>1. array' = job[p].list /\ filled' = FALSE /\ len' = len
      BY <1>14 DEF WriteArray
    <2>2. Jobs' /\ Stepped(p, "len")
      BY <1>3, <1>5, <1>14, ToIs DEF Steps
    <2>3. Types'
      BY <1>3, <1>8, <1>12, <2>1 DEF Types
    <2>4. Base'
      BY <1>1, <1>5, <2>2, <2>3, SteppedBase
    <2>5. ASSUME ~raced PROVE Calm'
      <3>1. Others(p) /\ job'[p].step = "len" /\ job'[p].list = job[p].list /\ job'[p].todo = job[p].todo
        BY <2>2 DEF Stepped
      <3>2. Halfway'
        BY <3>1 DEF Halfway
      <3>3. Whole'
        BY <3>2 DEF Whole
      <3>4. Editing(p)'
        BY <1>5, <2>1, <3>1 DEF Editing
      <3>. QED  BY <1>1, <1>2, <1>3, <1>5, <1>6, <1>10, <1>11, <2>2, <2>5, <3>1, <3>2, <3>3, <3>4, AssignedCalm
    <2>. QED  BY <1>1, <2>4, <2>5 DEF ConfigInv
  <1>15. ASSUME NextPhase(p), array' \in Seq(Item), len' \in Nat, filled' \in BOOLEAN,
                ~raced => array' = job[p].list /\ len' = Len(job[p].list)
         PROVE  ConfigInv'
    <2>1. Jobs' /\ Moved(p)
      BY <1>3, <1>5, <1>15, NextPhaseIs
    <2>2. Types'
      BY <1>12, <1>15
    <2>3. Base'
      BY <1>1, <1>5, <2>1, <2>2, MovedBase
    <2>4. ASSUME ~raced PROVE Calm'
      <3>1. /\ Others(p) /\ job'[p].step = "begin" /\ job'[p].list \in {job[p].list, None}
            /\ job'[p].todo = Tail(job[p].todo)
        BY <2>1 DEF Moved
      <3>2. array' = job[p].list /\ len' = Len(job[p].list)
        BY <1>15, <2>4
      <3>3. Whole'
        BY <3>2 DEF Whole
      <3>4. Editing(p)'
        BY <3>1, <3>2 DEF Editing
      <3>5. Near(array')
        BY <1>9, <3>2
      <3>. QED  BY <1>1, <1>2, <1>3, <1>5, <1>6, <1>10, <2>1, <2>4, <3>1, <3>3, <3>4, <3>5, AssignedCalm
    <2>. QED  BY <1>1, <2>3, <2>4 DEF ConfigInv
  <1>16. CASE old = "array" /\ WriteArray(p) /\ NextPhase(p)
    <2>1. array' = job[p].list /\ filled' = FALSE /\ len' = len
      BY <1>16 DEF WriteArray
    <2>2. ~raced => len = Len(job[p].list)
      BY <1>2, <1>5, <1>16, CalmIs DEF Editing
    <2>. QED  BY <1>3, <1>8, <1>15, <1>16, <2>1, <2>2 DEF Types
  <1>17. CASE old = "len" /\ WriteLen(p) /\ NextPhase(p)
    <2>1. len' = Len(job[p].list) /\ array' = array /\ filled' = filled
      BY <1>17 DEF WriteLen
    <2>2. ~raced => array = job[p].list
      BY <1>2, <1>5, <1>17, CalmIs DEF Editing
    <2>. QED  BY <1>3, <1>8, <1>15, <1>17, <2>1, <2>2 DEF Types
  <1>. QED  BY <1>4, <1>13, <1>14, <1>16, <1>17

LEMMA SetGainInv ==
  ASSUME ConfigInv, NEW p \in Procs, SetGain(p)
  PROVE  ConfigInv'
  <1>1. /\ up' = up /\ saver' = saver /\ requests' = requests /\ crashes' = crashes /\ mu' = mu
        /\ array' = array /\ len' = len /\ filled' = filled /\ file' = file
        /\ link' = link /\ subscribed' = subscribed /\ losses' = losses /\ outbox' = outbox
        /\ retained' = retained /\ shown' = shown /\ fresh' = fresh /\ missed' = missed /\ raced' = raced
        /\ gain' = job[p].gain
    BY DEF SetGain, procVars, sliceVars, linkVars, histVars
  <1>2. Base /\ (~raced => Calm)
    BY InvIs
  <1>3. Types /\ Jobs /\ Locked /\ Process /\ Listed
    BY <1>2, BaseIs
  <1>4. PICK phase \in {"gain", "lockedGain"} : At(p, phase, "begin")
    BY DEF SetGain
  <1>5. /\ job[p].todo # <<>> /\ Head(job[p].todo) = phase /\ job[p].step = "begin"
        /\ Has(job[p].todo, phase) /\ job[p] # Idle /\ up
    BY <1>2, <1>4, AtIs
  <1>6. p # Hook
    BY <1>4, NotHook
  <1>7. job[p].todo \in Seq(Phases) /\ Ordered(p, job[p]) /\ Shape(job[p].todo)
    BY <1>3, JobIs, RecordIs DEF Ordered
  <1>8. NextPhase(p)
    BY DEF SetGain
  <1>9. Jobs' /\ Moved(p)
    BY <1>3, <1>5, <1>8, NextPhaseIs
  <1>10. gain' \in Gains
    BY <1>1, <1>5, <1>7 DEF Ordered
  <1>11. Base'
    <2>1. Types'
      BY <1>1, <1>3, <1>10 DEF Types
    <2>. QED  BY <1>1, <1>5, <1>9, <2>1, MovedBase
  <1>12. ASSUME ~raced PROVE Calm'
    <2>1. Calm
      BY <1>2, <1>12
    <2>2. Others(p) /\ job'[p].step = "begin" /\ job'[p].todo = Tail(job[p].todo)
      BY <1>9 DEF Moved
    <2>3. Has(job'[p].todo, "publish") /\ Has(job'[p].todo, "notify")
      BY <1>5, <1>7, <2>2, ShapeTail
    <2>4. Whole' /\ (Halfway' <=> Halfway)
      BY <1>1, <1>3, <1>5, <1>6, <1>9, <2>1, <2>2, QuietCalm
    <2>5. Editing(p)'
      BY <1>1, <1>3, <1>5, <1>9, <2>1, CalmIs, MovedEditing
    <2>6. Filed'
      <3>1. \A q \in Procs : Has(job[q].todo, "save") => Has(job'[q].todo, "save")
        BY <1>3, <1>5, <1>9, MovedHas
      <3>. QED  BY <1>1, <2>1, <3>1, CalmIs, FiledKeep
    <2>7. Halfway' \/ Near(array')
      BY <1>1, <1>5, <2>1, <2>4, CalmIs DEF Surviving
    <2>. QED  BY <1>1, <1>3, <1>5, <1>6, <1>9, <2>1, <2>2, <2>3, <2>4, <2>5, <2>6, <2>7, AssignedCalm
  <1>. QED  BY <1>1, <1>11, <1>12 DEF ConfigInv

-----------------------------------------------------------------------------
(* SaveToFile                                                              *)

LEMMA DieCalm ==
  ASSUME ConfigInv, ~raced, Die
  PROVE  Calm'
  <1>1. /\ up' = FALSE /\ job' = [p \in Procs |-> Idle]
        /\ link' = "new" /\ subscribed' = FALSE /\ outbox' = {}
        /\ missed' = (missed \/ file \in {Empty, Garbled}) /\ shown' = None
        /\ file' = file /\ losses' = losses /\ fresh' = fresh
    BY DEF Die
  <1>2. \A p \in Procs : job'[p] = Idle
    BY <1>1
  <1>3. Calm
    BY InvIs
  <1>4. Sole'
    BY <1>2, ProcsAre DEF Sole
  <1>5. Whole'
    BY <1>1 DEF Whole
  <1>6. \A p \in Procs : Editing(p)'
    BY <1>2, IdleEditing
  <1>7. Filed'
    BY <1>1, <1>3, CalmIs DEF Filed
  <1>8. Surviving'
    BY <1>1, <1>3, CalmIs DEF Surviving, Near
  <1>9. Wire'
    BY <1>1, <1>2, <1>3, CalmIs, ProcsAre DEF Wire
  <1>10. Told'
    BY <1>1 DEF Told
  <1>. QED  BY <1>4, <1>5, <1>6, <1>7, <1>8, <1>9, <1>10 DEF Calm

LEMMA SaveBeginInv ==
  ASSUME ConfigInv, NEW p \in Procs, SaveBegin(p)
  PROVE  ConfigInv'
  <1>1. /\ up' = up /\ saver' = saver /\ requests' = requests /\ crashes' = crashes /\ mu' = mu
        /\ array' = array /\ len' = len /\ filled' = filled /\ gain' = gain /\ file' = file
        /\ link' = link /\ subscribed' = subscribed /\ losses' = losses /\ outbox' = outbox
        /\ retained' = retained /\ shown' = shown /\ fresh' = fresh /\ raced' = raced
    BY DEF SaveBegin, procVars, sliceVars, linkVars
  <1>2. Base /\ (~raced => Calm)
    BY InvIs
  <1>3. Types /\ Jobs
    BY <1>2, BaseIs
  <1>4. At(p, "save", "begin")
    BY DEF SaveBegin
  <1>5. /\ job[p].todo # <<>> /\ Head(job[p].todo) = "save" /\ job[p].step = "begin"
        /\ job[p] # Idle /\ up
    BY <1>2, <1>4, AtIs
  <1>6. CASE saver
    <2>1. job' = [job EXCEPT ![p].step = "prepare", ![p].size = len] /\ missed' = missed
      BY <1>6 DEF SaveBegin
    <2>2. Jobs' /\ Stepped(p, "prepare") /\ job'[p].size = len
      <3>1. len \in Nat
        BY <1>3 DEF Types
      <3>. QED  BY <1>3, <1>5, <2>1, <3>1, ToSize
    <2>3. missed' = missed
      BY <2>1
    <2>4. Types'
      BY <1>1, <1>3, <2>3 DEF Types
    <2>5. Base'
      BY <1>1, <1>5, <2>2, <2>4, SteppedBase
    <2>6. ASSUME ~raced PROVE Calm'
      <3>1. Editing(p)'
        <4>1. /\ job'[p].step = "prepare" /\ job'[p].size = len' /\ job'[p].list = job[p].list
              /\ job'[p].todo = job[p].todo
          BY <1>1, <2>2 DEF Stepped
        <4>2. job[p].list # None /\ ~Has(job[p].todo, "set") => array = job[p].list
          BY <1>2, <2>6, CalmIs DEF Editing
        <4>. QED  BY <1>1, <4>1, <4>2 DEF Editing
      <3>2. p # Hook
        BY <1>4, NotHook
      <3>. QED  BY <1>1, <1>2, <1>3, <1>5, <2>2, <2>3, <2>6, <3>1, <3>2, SteppedCalm DEF Calm
    <2>. QED  BY <1>1, <2>5, <2>6 DEF ConfigInv
  <1>7. CASE ~saver
    <2>1. NextPhase(p) /\ missed' = TRUE
      BY <1>7 DEF SaveBegin
    <2>2. Locked'
      BY <1>1, <1>4, <2>1, StaysLocked
    <2>3. UNCHANGED <<procVars, sliceVars, gain, file, linkVars, shown, fresh, raced>>
      BY DEF SaveBegin
    <2>. QED  BY <1>4, <2>1, <2>2, <2>3, PassOver
  <1>. QED  BY <1>6, <1>7

\* An editor's own index stays within the list: others would have overlapped.
LEMMA SavePrepareInv ==
  ASSUME ConfigInv, NEW p \in Procs, SavePrepare(p)
  PROVE  ConfigInv'
  <1>1. At(p, "save", "prepare")
    BY DEF SavePrepare
  <1>2. Base /\ (~raced => Calm)
    BY InvIs
  <1>3. Types /\ Jobs
    BY <1>2, BaseIs
  <1>4. /\ job[p].todo # <<>> /\ Head(job[p].todo) = "save" /\ job[p].step = "prepare"
        /\ job[p] # Idle /\ up
    BY <1>1, <1>2, AtIs
  <1>5. ~raced => job[p].size = len
    BY <1>2, <1>4, CalmIs DEF Editing
  <1>6. p # Hook
    BY <1>1, NotHook
  <1>7. len \in Nat
    BY <1>3 DEF Types
  <1>8. CASE job[p].size > len /\ Panic(p)
    <2>1. Base'
      BY <1>2, <1>4, <1>8, PanicBase
    <2>2. raced
      BY <1>5, <1>7, <1>8
    <2>3. raced' = raced
      BY <1>8 DEF Panic, Die
    <2>. QED  BY <2>1, <2>2, <2>3 DEF ConfigInv
  <1>9. CASE /\ job[p].size <= len /\ filled' = TRUE /\ To(p, "marshal")
             /\ UNCHANGED <<procVars, mu, array, len, gain, file, linkVars, shown, histVars>>
    <2>1. /\ up' = up /\ saver' = saver /\ requests' = requests /\ crashes' = crashes /\ mu' = mu
          /\ array' = array /\ len' = len /\ filled' = TRUE /\ gain' = gain /\ file' = file
          /\ link' = link /\ subscribed' = subscribed /\ losses' = losses /\ outbox' = outbox
          /\ retained' = retained /\ shown' = shown /\ fresh' = fresh /\ missed' = missed /\ raced' = raced
      BY <1>9 DEF procVars, linkVars, histVars
    <2>2. Jobs' /\ Stepped(p, "marshal")
      BY <1>3, <1>4, <1>9, ToIs DEF Steps
    <2>3. Types'
      BY <1>3, <2>1 DEF Types
    <2>4. Base'
      BY <1>4, <2>1, <2>2, <2>3, SteppedBase
    <2>5. ASSUME ~raced PROVE Calm'
      <3>1. Editing(p)'
        <4>1. /\ job'[p].step = "marshal" /\ job'[p].list = job[p].list /\ job'[p].todo = job[p].todo
          BY <2>2 DEF Stepped
        <4>2. job[p].list # None /\ ~Has(job[p].todo, "set") => array = job[p].list
          BY <1>2, <2>5, CalmIs DEF Editing
        <4>. QED  BY <2>1, <4>1, <4>2 DEF Editing
      <3>. QED  BY <1>2, <1>3, <1>4, <1>6, <2>1, <2>2, <2>5, <3>1, SteppedCalm DEF Calm
    <2>. QED  BY <2>1, <2>4, <2>5 DEF ConfigInv
  <1>. QED  BY <1>8, <1>9 DEF SavePrepare

LEMMA SaveMarshalInv ==
  ASSUME ConfigInv, NEW p \in Procs, SaveMarshal(p)
  PROVE  ConfigInv'
  <1>1. /\ up' = up /\ saver' = saver /\ requests' = requests /\ crashes' = crashes /\ mu' = mu
        /\ array' = array /\ len' = len /\ filled' = filled /\ gain' = gain /\ file' = file
        /\ link' = link /\ subscribed' = subscribed /\ losses' = losses /\ outbox' = outbox
        /\ retained' = retained /\ shown' = shown /\ fresh' = fresh /\ missed' = missed /\ raced' = raced
    BY DEF SaveMarshal, procVars, sliceVars, linkVars, histVars
  <1>2. Base /\ (~raced => Calm)
    BY InvIs
  <1>3. Types /\ Jobs
    BY <1>2, BaseIs
  <1>4. At(p, "save", "marshal")
    BY DEF SaveMarshal
  <1>5. /\ job[p].todo # <<>> /\ Head(job[p].todo) = "save" /\ job[p].step = "marshal"
        /\ job[p] # Idle /\ up
    BY <1>2, <1>4, AtIs
  <1>6. p # Hook
    BY <1>4, NotHook
  <1>7. PICK text : text = Text(ToMHz(View, filled), gain)
    OBVIOUS
  <1>8. View \in Seq(Item) /\ filled \in BOOLEAN /\ gain \in Gains \cup {FirstGain}
    BY <1>3, ViewIs DEF Types
  <1>9. text \in Texts /\ text.bands = ToMHz(View, filled)
    BY <1>7, <1>8, ConversionTypes, TextIs
  <1>10. job' = [job EXCEPT ![p].step = "open", ![p].text = text]
    BY <1>7 DEF SaveMarshal
  <1>11. Jobs' /\ Stepped(p, "open") /\ job'[p].text = text
    BY <1>3, <1>5, <1>9, <1>10, ToText
  <1>12. Types'
    BY <1>1, <1>3 DEF Types
  <1>13. Base'
    BY <1>1, <1>5, <1>11, <1>12, SteppedBase
  <1>14. ASSUME ~raced PROVE Calm'
    <2>1. Calm
      BY <1>2, <1>14
    <2>2. ~Halfway
      BY <1>3, <1>5, <1>6, <2>1, NotHalfway
    <2>3. View = array
      BY <1>3, <1>5, <2>1, <2>2, CalmIs, ViewIs DEF Whole
    <2>4. filled = TRUE
      BY <1>5, <1>8, <2>1, CalmIs DEF Editing
    <2>5. text.bands = ToMHz(array, TRUE)
      BY <1>9, <2>3, <2>4
    <2>6. Editing(p)'
      <3>1. /\ job'[p].step = "open" /\ job'[p].list = job[p].list /\ job'[p].todo = job[p].todo
            /\ job'[p].text.bands = ToMHz(array, TRUE)
        BY <1>11, <2>5 DEF Stepped
      <3>2. job[p].list # None /\ ~Has(job[p].todo, "set") => array = job[p].list
        BY <2>1, CalmIs DEF Editing
      <3>3. array' = array
        BY <1>1
      <3>. QED  BY <3>1, <3>2, <3>3 DEF Editing
    <2>. QED  BY <1>1, <1>3, <1>5, <1>6, <1>11, <2>1, <2>6, SteppedCalm DEF Calm
  <1>. QED  BY <1>1, <1>13, <1>14 DEF ConfigInv

\* The file is empty while it is being written.
LEMMA SaveOpenInv ==
  ASSUME ConfigInv, NEW p \in Procs, SaveOpen(p)
  PROVE  ConfigInv'
  <1>1. /\ up' = up /\ saver' = saver /\ requests' = requests /\ crashes' = crashes /\ mu' = mu
        /\ array' = array /\ len' = len /\ filled' = filled /\ gain' = gain
        /\ link' = link /\ subscribed' = subscribed /\ losses' = losses /\ outbox' = outbox
        /\ retained' = retained /\ shown' = shown /\ fresh' = fresh /\ raced' = raced
    BY DEF SaveOpen, procVars, sliceVars, linkVars
  <1>2. Base /\ (~raced => Calm)
    BY InvIs
  <1>3. Types /\ Jobs
    BY <1>2, BaseIs
  <1>4. At(p, "save", "open")
    BY DEF SaveOpen
  <1>5. /\ job[p].todo # <<>> /\ Head(job[p].todo) = "save" /\ job[p].step = "open"
        /\ Has(job[p].todo, "save") /\ job[p] # Idle /\ up
    BY <1>2, <1>4, AtIs
  <1>6. p # Hook
    BY <1>4, NotHook
  <1>7. CASE file' = Empty /\ To(p, "write") /\ UNCHANGED missed
    <2>1. job[p].text \in Texts
      BY <1>3, <1>5, JobIs DEF Ordered
    <2>2. Jobs' /\ Stepped(p, "write") /\ job'[p].text = job[p].text
      BY <1>3, <1>5, <1>7, <2>1, ToIs DEF Steps
    <2>3. Types'
      BY <1>1, <1>3, <1>7 DEF Types
    <2>4. Base'
      BY <1>1, <1>5, <2>2, <2>3, SteppedBase
    <2>5. ASSUME ~raced PROVE Calm'
      <3>1. Calm
        BY <1>2, <2>5
      <3>2. Editing(p)'
        <4>1. /\ job'[p].step = "write" /\ job'[p].list = job[p].list /\ job'[p].todo = job[p].todo
          BY <2>2 DEF Stepped
        <4>2. /\ job[p].list # None /\ ~Has(job[p].todo, "set") => array = job[p].list
              /\ job[p].text.bands = ToMHz(array, TRUE)
          BY <1>5, <3>1, CalmIs DEF Editing
        <4>3. array' = array /\ file' = Empty
          BY <1>1, <1>7
        <4>. QED  BY <2>2, <4>1, <4>2, <4>3 DEF Editing
      <3>3. /\ Sole' /\ Whole' /\ (\A q \in Procs : Editing(q)') /\ Wire' /\ Told'
            /\ Halfway' <=> Halfway
        BY <1>1, <1>3, <1>5, <1>6, <1>7, <2>2, <3>1, <3>2, SteppedCalm
      <3>4. Filed'
        <4>1. Has(job'[p].todo, "save")
          BY <1>5, <2>2 DEF Stepped
        <4>. QED  BY <1>7, <4>1, ConstantFacts DEF Filed
      <3>5. Surviving'
        BY <1>1, <1>5, <1>7, <3>1, <3>3, CalmIs DEF Surviving, Near
      <3>. QED  BY <3>3, <3>4, <3>5 DEF Calm
    <2>. QED  BY <1>1, <2>4, <2>5 DEF ConfigInv
  <1>8. CASE UNCHANGED file /\ NextPhase(p) /\ missed' = TRUE
    <2>1. Locked'
      BY <1>1, <1>4, <1>8, StaysLocked
    <2>2. UNCHANGED <<procVars, sliceVars, gain, file, linkVars, shown, fresh, raced>>
      BY <1>8 DEF SaveOpen
    <2>. QED  BY <1>4, <1>8, <2>1, <2>2, PassOver
  <1>. QED  BY <1>7, <1>8 DEF SaveOpen

\* A save that succeeds leaves what its editor put, whatever was there before.
LEMMA SaveWriteInv ==
  ASSUME ConfigInv, NEW p \in Procs, SaveWrite(p)
  PROVE  ConfigInv'
  <1>1. /\ up' = up /\ saver' = saver /\ requests' = requests /\ crashes' = crashes /\ mu' = mu
        /\ array' = array /\ len' = len /\ filled' = filled /\ gain' = gain
        /\ link' = link /\ subscribed' = subscribed /\ losses' = losses /\ outbox' = outbox
        /\ retained' = retained /\ shown' = shown /\ raced' = raced
    BY DEF SaveWrite, procVars, sliceVars, linkVars
  <1>2. Base /\ (~raced => Calm)
    BY InvIs
  <1>3. Types /\ Jobs /\ Locked /\ Process /\ Listed
    BY <1>2, BaseIs
  <1>4. At(p, "save", "write") /\ NextPhase(p)
    BY DEF SaveWrite
  <1>5. /\ job[p].todo # <<>> /\ Head(job[p].todo) = "save" /\ job[p].step = "write"
        /\ job[p] # Idle /\ up
    BY <1>2, <1>4, AtIs
  <1>6. p # Hook
    BY <1>4, NotHook
  <1>7. Jobs' /\ Moved(p)
    BY <1>3, <1>4, <1>5, NextPhaseIs
  <1>8. job[p] \in JobRecord /\ Ordered(p, job[p]) /\ job[p].text \in Texts
    BY <1>3, <1>5, JobIs DEF Ordered
  <1>9. Locked'
    BY <1>1, <1>4, StaysLocked
  <1>10. CASE UNCHANGED <<file, fresh>> /\ missed' = TRUE
    <2>1. UNCHANGED <<procVars, sliceVars, gain, file, linkVars, shown, fresh, raced>>
      BY <1>10 DEF SaveWrite
    <2>. QED  BY <1>4, <1>9, <1>10, <2>1, PassOver
  <1>11. CASE /\ Overwrite(job[p].text)
              /\ missed' = FALSE
              /\ fresh' = IF job[p].list = None THEN fresh
                          ELSE {job[q].list : q \in {q \in Procs : q = p \/ job[q].list # None}}
    <2>1. file' \in {job[p].text, Garbled} /\ (file = Empty => file' = job[p].text)
      <3>1. CASE file \in {Empty, Garbled}
        BY <1>11, <3>1 DEF Overwrite
      <3>2. CASE file \notin {Empty, Garbled}
        BY <1>11, <3>2 DEF Overwrite
      <3>. QED  BY <3>1, <3>2
    <2>2. \A q \in Procs : job[q].list # None => job[q].list \in fresh' /\ job[q].list \in Seq(Item)
      <3>1. ASSUME NEW q \in Procs, job[q].list # None
            PROVE  job[q].list \in fresh' /\ job[q].list \in Seq(Item)
        <4>1. job[q].list \in Seq(Band)
          BY <1>3, <3>1, JobIs, RecordIs, ConstantFacts
        <4>2. job[q].list \in fresh
          BY <1>3, <3>1 DEF Listed
        <4>3. job[q].list \in fresh'
          BY <1>11, <3>1, <4>2
        <4>. QED  BY <4>1, <4>3, BandSeqItem
      <3>. QED  BY <3>1
    <2>3. Types'
      <3>1. file' \in Texts \cup {Empty, Garbled}
        BY <1>8, <2>1
      <3>2. fresh' \subseteq Seq(Item)
        <4>1. CASE job[p].list = None
          BY <1>3, <1>11, <4>1 DEF Types
        <4>2. CASE job[p].list # None
          <5>1. \A list \in fresh' : \E q \in Procs : list = job[q].list /\ job[q].list # None
            BY <1>11, <4>2
          <5>. QED  BY <2>2, <5>1
        <4>. QED  BY <4>1, <4>2
      <3>. QED  BY <1>1, <1>3, <1>11, <3>1, <3>2 DEF Types
    <2>4. Base'
      <3>1. Process'
        BY <1>1, <1>3, <1>5, ProcessKeep DEF Process
      <3>2. Listed'
        <4>1. \A q \in Procs : job'[q].list \in {job[q].list, None}
          BY <1>7 DEF Moved, Others
        <4>. QED  BY <2>2, <4>1 DEF Listed
      <3>. QED  BY <1>7, <1>9, <2>3, <3>1, <3>2 DEF Base
    <2>5. ASSUME ~raced PROVE Calm'
      <3>1. Calm /\ Editing(p)
        BY <1>2, <2>5, CalmIs
      <3>2. Others(p) /\ job'[p].step = "begin"
        BY <1>7 DEF Moved
      <3>3. Sole' /\ Whole' /\ (Halfway' <=> Halfway) /\ \A q \in Procs : q # p => Editing(q)'
        BY <1>1, <1>3, <1>5, <1>6, <1>7, <3>1, <3>2, QuietCalm
      <3>4. Editing(p)'
        BY <1>1, <1>3, <1>5, <1>7, <3>1, MovedEditing
      <3>5. file' = job[p].text /\ job[p].text.bands = ToMHz(array, TRUE)
        BY <1>5, <2>1, <3>1 DEF Editing
      <3>6. array \in Seq(Item)
        BY <1>3 DEF Types
      <3>7. FromMHz(file'.bands) = Rounded(array)
        BY <3>5 DEF Rounded
      <3>8. file' \in Texts /\ file' # Empty /\ file' # Garbled
        BY <1>8, <3>5, ConstantFacts
      <3>9. Loaded'.bands = Rounded(array)
        BY <2>3, <3>7, <3>8, LoadedIs, TextIs DEF Loaded
      <3>10. Filed'
        BY <1>1, <3>8, <3>9 DEF Filed
      <3>11. \E list \in fresh' : Rounded(list) = Rounded(array)
        <4>1. CASE job[p].list = None
          <5>1. ~Halfway
            BY <1>3, <1>5, <1>6, <3>1, NotHalfway
          <5>. QED  BY <1>5, <1>11, <3>1, <4>1, <5>1, CalmIs DEF Surviving, Near
        <4>2. CASE job[p].list # None
          <5>1. ~Has(job[p].todo, "set")
            BY <1>5, <1>8, RecordIs, HasTail, ShapeTail DEF Ordered
          <5>2. array = job[p].list
            BY <3>1, <4>2, <5>1 DEF Editing
          <5>. QED  BY <2>2, <4>2, <5>2
        <4>. QED  BY <4>1, <4>2
      <3>12. Near(FromMHz(file.bands))'
        <4>1. Rounded(FromMHz(file'.bands)) = Rounded(array)
          BY <3>6, <3>7, RoundedTypes
        <4>. QED  BY <3>11, <4>1 DEF Near
      <3>13. Surviving'
        BY <1>1, <1>5, <3>11, <3>12 DEF Surviving, Near
      <3>14. Wire' /\ Told'
        BY <1>1, <1>3, <1>5, <1>7, <3>1, CalmIs, MovedWire, MovedTold
      <3>. QED  BY <3>3, <3>4, <3>10, <3>13, <3>14 DEF Calm
    <2>. QED  BY <1>1, <2>4, <2>5 DEF ConfigInv
  <1>. QED  BY <1>10, <1>11 DEF SaveWrite

-----------------------------------------------------------------------------
(* PublishConfig                                                           *)

LEMMA PublishBeginInv ==
  ASSUME ConfigInv, NEW p \in Procs, PublishBegin(p)
  PROVE  ConfigInv'
  <1>1. /\ up' = up /\ saver' = saver /\ requests' = requests /\ crashes' = crashes /\ mu' = mu
        /\ array' = array /\ len' = len /\ filled' = filled /\ gain' = gain /\ file' = file
        /\ link' = link /\ subscribed' = subscribed /\ losses' = losses /\ outbox' = outbox
        /\ retained' = retained /\ shown' = shown /\ fresh' = fresh /\ missed' = missed /\ raced' = raced
    BY DEF PublishBegin, procVars, sliceVars, linkVars, histVars
  <1>2. Base /\ (~raced => Calm)
    BY InvIs
  <1>3. Types /\ Jobs
    BY <1>2, BaseIs
  <1>4. At(p, "publish", "begin") /\ job' = [job EXCEPT ![p].step = "fill", ![p].size = len]
    BY DEF PublishBegin
  <1>5. /\ job[p].todo # <<>> /\ Head(job[p].todo) = "publish" /\ job[p].step = "begin"
        /\ job[p] # Idle /\ up
    BY <1>2, <1>4, AtIs
  <1>6. Jobs' /\ Stepped(p, "fill") /\ job'[p].size = len
    <2>1. len \in Nat
      BY <1>3 DEF Types
    <2>. QED  BY <1>3, <1>4, <1>5, <2>1, ToSize
  <1>7. Types'
    BY <1>1, <1>3 DEF Types
  <1>8. Base'
    BY <1>1, <1>5, <1>6, <1>7, SteppedBase
  <1>9. ASSUME ~raced PROVE Calm'
    <2>1. Editing(p)'
      <3>1. /\ job'[p].step = "fill" /\ job'[p].size = len' /\ job'[p].list = job[p].list
            /\ job'[p].todo = job[p].todo
        BY <1>1, <1>6 DEF Stepped
      <3>2. job[p].list # None /\ ~Has(job[p].todo, "set") => array = job[p].list
        BY <1>2, <1>9, CalmIs DEF Editing
      <3>. QED  BY <1>1, <3>1, <3>2 DEF Editing
    <2>. QED  BY <1>1, <1>2, <1>3, <1>5, <1>6, <1>9, <2>1, SteppedCalm DEF Calm
  <1>. QED  BY <1>1, <1>8, <1>9 DEF ConfigInv

\* OnConnect may find a longer list than it made room for; an editor does not.
LEMMA PublishFillInv ==
  ASSUME ConfigInv, NEW p \in Procs, PublishFill(p)
  PROVE  ConfigInv'
  <1>1. At(p, "publish", "fill")
    BY DEF PublishFill
  <1>2. Base /\ (~raced => Calm)
    BY InvIs
  <1>3. Types /\ Jobs
    BY <1>2, BaseIs
  <1>4. /\ job[p].todo # <<>> /\ Head(job[p].todo) = "publish" /\ job[p].step = "fill"
        /\ job[p] # Idle /\ up
    BY <1>1, <1>2, AtIs
  <1>5. ~raced => (p # Hook \/ losses = 0 => job[p].size = len)
    BY <1>2, <1>4, CalmIs DEF Editing
  <1>6. len \in Nat /\ job[p].size \in Nat
    BY <1>3, JobIs, RecordIs DEF Types
  <1>7. CASE job[p].size < len /\ Panic(p)
    <2>1. Base'
      BY <1>2, <1>4, <1>7, PanicBase
    <2>2. raced' = raced
      BY <1>7 DEF Panic, Die
    <2>3. ASSUME ~raced PROVE Calm'
      <3>1. p = Hook
        BY <1>5, <1>6, <1>7, <2>3
      <3>2. Die
        BY <1>7, <3>1, ConstantFacts DEF Panic
      <3>. QED  BY <2>3, <3>2, DieCalm
    <2>. QED  BY <2>1, <2>2, <2>3 DEF ConfigInv
  <1>8. CASE /\ job[p].size >= len
             /\ job' = [job EXCEPT ![p].step = "send",
                                   ![p].text = Text(Padded(View, job[p].size), gain)]
             /\ UNCHANGED <<procVars, mu, sliceVars, gain, file, linkVars, shown, histVars>>
    <2>1. /\ up' = up /\ saver' = saver /\ requests' = requests /\ crashes' = crashes /\ mu' = mu
          /\ array' = array /\ len' = len /\ filled' = filled /\ gain' = gain /\ file' = file
          /\ link' = link /\ subscribed' = subscribed /\ losses' = losses /\ outbox' = outbox
          /\ retained' = retained /\ shown' = shown /\ fresh' = fresh /\ missed' = missed /\ raced' = raced
      BY <1>8 DEF procVars, sliceVars, linkVars, histVars
    <2>2. PICK text : text = Text(Padded(View, job[p].size), gain)
      OBVIOUS
    <2>3. View \in Seq(Item) /\ gain \in Gains \cup {FirstGain}
      BY <1>3, ViewIs DEF Types
    <2>4. text \in Texts
      BY <1>6, <2>2, <2>3, PaddedIs, TextIs
    <2>5. job' = [job EXCEPT ![p].step = "send", ![p].text = text]
      BY <1>8, <2>2
    <2>6. Jobs' /\ Stepped(p, "send") /\ job'[p].text = text
      BY <1>3, <1>4, <2>4, <2>5, ToText
    <2>7. Types'
      BY <1>3, <2>1 DEF Types
    <2>8. Base'
      BY <1>4, <2>1, <2>6, <2>7, SteppedBase
    <2>9. ASSUME ~raced PROVE Calm'
      <3>1. Calm
        BY <1>2, <2>9
      <3>2. ASSUME p # Hook \/ losses = 0 PROVE text = Text(array, gain)
        <4>1. ~Halfway
          BY <1>3, <1>4, <3>1, <3>2, NotHalfway
        <4>2. View = array /\ len = Len(array)
          BY <1>3, <1>4, <3>1, <4>1, CalmIs, ViewIs DEF Whole
        <4>3. job[p].size = Len(array)
          BY <1>5, <2>9, <3>2, <4>2
        <4>4. Padded(View, job[p].size) = array
          BY <1>6, <2>3, <4>2, <4>3, PaddedIs
        <4>. QED  BY <2>2, <4>4
      <3>3. Editing(p)'
        <4>1. /\ job'[p].step = "send" /\ job'[p].list = job[p].list /\ job'[p].todo = job[p].todo
          BY <2>6 DEF Stepped
        <4>2. job[p].list # None /\ ~Has(job[p].todo, "set") => array = job[p].list
          BY <3>1, CalmIs DEF Editing
        <4>. QED  BY <2>1, <2>6, <3>2, <4>1, <4>2 DEF Editing
      <3>. QED  BY <1>3, <1>4, <2>1, <2>6, <3>1, <3>3, SteppedCalm DEF Calm
    <2>. QED  BY <2>1, <2>8, <2>9 DEF ConfigInv
  <1>. QED  BY <1>7, <1>8 DEF PublishFill

LEMMA PublishSendInv ==
  ASSUME ConfigInv, NEW p \in Procs, PublishSend(p)
  PROVE  ConfigInv'
  <1>1. /\ up' = up /\ saver' = saver /\ requests' = requests /\ crashes' = crashes /\ mu' = mu
        /\ array' = array /\ len' = len /\ filled' = filled /\ gain' = gain /\ file' = file
        /\ link' = link /\ subscribed' = subscribed /\ losses' = losses
        /\ shown' = shown /\ fresh' = fresh /\ missed' = missed /\ raced' = raced
    BY DEF PublishSend, procVars, sliceVars, histVars
  <1>2. Base /\ (~raced => Calm)
    BY InvIs
  <1>3. Types /\ Jobs
    BY <1>2, BaseIs
  <1>4. /\ At(p, "publish", "send") /\ NextPhase(p)
        /\ retained' = IF link = "up" THEN job[p].text ELSE retained
        /\ outbox' = IF link = "lost" THEN outbox \cup {job[p].text} ELSE outbox
    BY DEF PublishSend
  <1>5. /\ job[p].todo # <<>> /\ Head(job[p].todo) = "publish" /\ job[p].step = "send"
        /\ job[p] # Idle /\ up
    BY <1>2, <1>4, AtIs
  <1>6. Jobs' /\ Moved(p)
    BY <1>3, <1>4, <1>5, NextPhaseIs
  <1>7. Types'
    BY <1>1, <1>3 DEF Types
  <1>8. Base'
    BY <1>1, <1>5, <1>6, <1>7, MovedBase
  <1>9. ASSUME ~raced PROVE Calm'
    <2>1. Calm
      BY <1>2, <1>9
    <2>2. Sole' /\ Whole' /\ (\A q \in Procs : Editing(q)') /\ Filed' /\ Surviving'
      BY <1>1, <1>3, <1>5, <1>6, <2>1, MovedCalm
    <2>3. Told'
      BY <1>1, <1>3, <1>5, <1>6, <2>1, CalmIs, MovedTold
    <2>4. Wire'
      <3>1. losses = 0 => job[p].text = Text(array, gain)
        BY <1>5, <2>1, CalmIs DEF Editing
      <3>2. \A q \in {Hook, Remote} : job[q] = Idle => job'[q] = Idle
        BY <1>5, <1>6, IdleStays, ProcsAre DEF Moved
      <3>. QED  BY <1>1, <1>4, <2>1, <3>1, <3>2, CalmIs DEF Wire
    <2>. QED  BY <2>2, <2>3, <2>4 DEF Calm
  <1>. QED  BY <1>1, <1>8, <1>9 DEF ConfigInv

-----------------------------------------------------------------------------
(* Requests and connections                                                *)

\* A goroutine that begins a program.
LEMMA ProgramOrdered ==
  ASSUME NEW p \in Procs, NEW program \in Programs, NEW r \in JobRecord,
         r.todo = program, r.step = "begin",
         \/ program \in {PutBandsProgram, PutConfigProgram, HandleBandsProgram} /\ r.list \in Lists
         \/ program \in {PutGainProgram, HandleGainProgram} /\ r.gain \in Gains
         \/ program = OnConnectProgram /\ r.list = None,
         p = Hook <=> program = OnConnectProgram, program = HandleBandsProgram => p = Remote
  PROVE  Ordered(p, r)
  <1>1. program \in Seq(Phases) /\ program # <<>> /\ Shape(program)
    BY ProgramsShaped
  <1>2. /\ Has(program, "set") => r.list \in Lists
        /\ Has(program, "gain") \/ Has(program, "lockedGain") => r.gain \in Gains
        /\ Has(program, "lock") => p = Remote
        /\ Has(program, "subscribe") => p = Hook
    BY ProgramPhases
  <1>3. p = Hook => /\ r.list = None
                    /\ \A i \in 1..Len(program) : program[i] \in {"publish", "subscribe"}
    <2>1. ASSUME p = Hook PROVE program = OnConnectProgram /\ r.list = None
      <3>1. OnConnectProgram \notin {PutBandsProgram, PutConfigProgram, HandleBandsProgram,
                                     PutGainProgram, HandleGainProgram}
        BY DEF OnConnectProgram, PutBandsProgram, PutConfigProgram, HandleBandsProgram,
               PutGainProgram, HandleGainProgram
      <3>. QED  BY <2>1, <3>1
    <2>. QED  BY <2>1, ProgramPhases
  <1>4. StepFits(r)
    BY DEF StepFits
  <1>. QED  BY <1>1, <1>2, <1>3, <1>4 DEF Ordered

LEMMA OneMore ==
  ASSUME Types, requests < MaxRequests, requests' = requests + 1
  PROVE  requests' \in 0..MaxRequests
  <1>1. MaxRequests \in Nat /\ requests \in 0..MaxRequests
    BY ConstantFacts DEF Types
  <1>. QED  BY <1>1

LEMMA BeginInv ==
  ASSUME ConfigInv, NEW p \in Api \cup {Remote}, NEW program \in Programs,
         NEW list \in Lists \cup {None}, NEW g \in Gains \cup {None}, Begin(p, program, list, g),
         \/ program \in {PutBandsProgram, PutConfigProgram, HandleBandsProgram} /\ list \in Lists
         \/ program \in {PutGainProgram, HandleGainProgram} /\ g \in Gains /\ list = None,
         program = HandleBandsProgram => p = Remote,
         p = Remote => link = "up" /\ subscribed
  PROVE  ConfigInv'
  <1>1. /\ up /\ job[p] = Idle /\ requests < MaxRequests /\ requests' = requests + 1
        /\ fresh' = IF list = None THEN fresh ELSE fresh \cup {list}
        /\ raced' = (raced \/ Busy(IF p = Remote THEN Api \cup {Remote} ELSE Procs))
        /\ up' = up /\ saver' = saver /\ crashes' = crashes /\ mu' = mu
        /\ array' = array /\ len' = len /\ filled' = filled /\ gain' = gain /\ file' = file
        /\ link' = link /\ subscribed' = subscribed /\ losses' = losses /\ outbox' = outbox
        /\ retained' = retained /\ shown' = shown /\ missed' = missed
    BY DEF Begin, sliceVars, linkVars
  <1>2. job' = [job EXCEPT ![p].todo = program, ![p].list = list, ![p].gain = g]
    BY DEF Begin
  <1>3. Base /\ (~raced => Calm)
    BY InvIs
  <1>4. Types /\ Jobs /\ Locked /\ Process /\ Listed
    BY <1>3, BaseIs
  <1>5. p \in Procs /\ p # Hook
    BY ConstantFacts DEF Procs
  <1>6. program # OnConnectProgram
    BY DEF OnConnectProgram, PutBandsProgram, PutConfigProgram, HandleBandsProgram,
           PutGainProgram, HandleGainProgram
  <1>7. PICK r \in JobRecord : /\ r.todo = program /\ r.step = "begin" /\ r.list = list
                              /\ r.gain = g /\ job' = [job EXCEPT ![p] = r]
    <2>1. PICK idle \in JobRecord : idle = job[p] /\ idle.step = "begin"
      BY <1>1, IdleIs
    <2>2. PICK r : r = [idle EXCEPT !.todo = program, !.list = list, !.gain = g]
      OBVIOUS
    <2>3. program \in Seq(Phases)
      BY ProgramsShaped
    <2>4. /\ r \in JobRecord /\ r.todo = program /\ r.step = "begin" /\ r.list = list
          /\ r.gain = g
      BY <2>1, <2>2, <2>3 DEF JobRecord
    <2>5. job' = [job EXCEPT ![p] = r]
      BY <1>2, <2>1, <2>2
    <2>. QED  BY <2>4, <2>5
  <1>8. Ordered(p, r)
    BY <1>5, <1>6, <1>7, ProgramOrdered
  <1>10. Jobs' /\ Others(p) /\ job'[p] = r
    BY <1>4, <1>5, <1>7, <1>8, JobChanges
  <1>11. list # None => list \in Seq(Item) /\ Has(program, "set")
    BY ConstantFacts, BandSeqItem, ProgramPhases
  <1>12. fresh \subseteq fresh' /\ (list # None => list \in fresh')
    BY <1>1
  <1>13. Base'
    <2>1. Types'
      <3>1. requests' \in 0..MaxRequests
        BY <1>1, <1>4, OneMore
      <3>2. fresh' \subseteq Seq(Item)
        BY <1>1, <1>4, <1>11 DEF Types
      <3>3. raced' \in BOOLEAN
        BY <1>1, <1>4 DEF Types, Busy
      <3>. QED  BY <1>1, <1>4, <3>1, <3>2, <3>3 DEF Types
    <2>2. Locked'
      <3>1. Has(job[Remote].todo, "unlock") => job'[Remote] = job[Remote]
        BY <1>1, <1>10, IdleIs, HasNone, ProcsAre DEF Others
      <3>. QED  BY <1>1, <1>4, <3>1 DEF Locked
    <2>3. Process'
      BY <1>1, <1>4 DEF Process
    <2>4. Listed'
      BY <1>4, <1>7, <1>10, <1>12 DEF Listed, Others
    <2>. QED  BY <1>10, <2>1, <2>2, <2>3, <2>4 DEF Base
  <1>14. ASSUME ~raced' PROVE Calm'
    <2>1. Calm /\ ~Busy(IF p = Remote THEN Api \cup {Remote} ELSE Procs)
      BY <1>1, <1>3, <1>14
    <2>2. \A a \in Api : job[a] = Idle
      BY <2>1, ProcsAre DEF Busy
    <2>3. p # Remote => \A q \in Procs : job[q] = Idle
      BY <2>1 DEF Busy
    <2>4. Sole'
      <3>1. CASE p = Remote
        <4>1. \A a \in Api : job'[a] = Idle
          BY <1>10, <2>2, <3>1, ConstantFacts, ProcsAre DEF Others
        <4>. QED  BY <4>1 DEF Sole
      <3>2. CASE p # Remote
        <4>1. \A q \in Procs : q # p => job'[q] = Idle
          BY <1>10, <2>3, <3>2 DEF Others
        <4>. QED  BY <4>1, ProcsAre DEF Sole
      <3>. QED  BY <3>1, <3>2
    <2>5. Halfway' <=> Halfway
      BY <1>1, <1>5, <1>7, <1>10, IdleIs, HalfwaySame
    <2>6. Whole'
      BY <1>1, <2>1, <2>5, CalmIs DEF Whole
    <2>7. ASSUME NEW q \in Procs PROVE Editing(q)'
      <3>1. CASE q = p
        BY <1>7, <1>10, <1>11, <3>1 DEF Editing
      <3>2. CASE q # p
        <4>1. Editing(q) /\ job'[q] = job[q]
          BY <1>10, <2>1, <3>2, CalmIs DEF Others
        <4>. QED  BY <1>1, <4>1 DEF Editing
      <3>. QED  BY <3>1, <3>2
    <2>8. \A q \in Procs : \A x : Has(job[q].todo, x) => Has(job'[q].todo, x)
      BY <1>1, <1>10, IdleIs, HasNone DEF Others
    <2>9. Filed'
      BY <1>1, <2>1, <2>8, CalmIs, FiledKeep
    <2>10. Surviving'
      BY <1>1, <1>12, <2>1, <2>5, CalmIs DEF Surviving, Near
    <2>11. Wire'
      <3>1. job'[Hook] = job[Hook] /\ (p # Remote => job'[Remote] = job[Remote])
        BY <1>5, <1>10, ProcsAre DEF Others
      <3>. QED  BY <1>1, <2>1, <2>8, <3>1, CalmIs DEF Wire
    <2>12. Told'
      BY <1>1, <2>1, <2>8, CalmIs, ToldKeep
    <2>. QED  BY <2>4, <2>6, <2>7, <2>9, <2>10, <2>11, <2>12 DEF Calm
  <1>. QED  BY <1>13, <1>14 DEF ConfigInv

LEMMA HandlePutInv ==
  ASSUME ConfigInv, NEW p \in Api, HandlePut(p)
  PROVE  ConfigInv'
  <1>1. p # Remote
    BY ConstantFacts
  <1>2. {PutBandsProgram, PutConfigProgram, PutGainProgram} \subseteq Programs \ {HandleBandsProgram}
    BY DEF Programs, HandleBandsProgram, PutBandsProgram, PutConfigProgram, PutGainProgram
  <1>3. ASSUME NEW list \in PutLists, NEW program \in {PutBandsProgram, PutConfigProgram},
               Begin(p, program, list, None)
        PROVE  ConfigInv'
    <2>1. list \in Lists
      BY DEF Lists
    <2>. QED  BY <1>1, <1>2, <1>3, <2>1, BeginInv
  <1>4. ASSUME NEW g \in Gains, Begin(p, PutGainProgram, None, g)
        PROVE  ConfigInv'
    BY <1>1, <1>2, <1>4, BeginInv
  <1>5. CASE \E list \in PutLists : Begin(p, PutBandsProgram, list, None)
    BY <1>3, <1>5
  <1>6. CASE \E list \in PutLists \ {<<>>} : Begin(p, PutConfigProgram, list, None)
    BY <1>3, <1>6
  <1>7. CASE \E g \in Gains : Begin(p, PutGainProgram, None, g)
    BY <1>4, <1>7
  <1>. QED  BY <1>5, <1>6, <1>7 DEF HandlePut

LEMMA HandleCommandInv ==
  ASSUME ConfigInv, HandleCommand
  PROVE  ConfigInv'
  <1>1. link = "up" /\ subscribed
    BY DEF HandleCommand
  <1>2. \A list \in {valid \in RemoteLists : Valid(valid)} : list \in Lists
    BY DEF Lists
  <1>3. CASE \E list \in {valid \in RemoteLists : Valid(valid)} :
               Begin(Remote, HandleBandsProgram, list, None)
    BY <1>1, <1>2, <1>3, BeginInv DEF Programs
  <1>4. CASE \E g \in Gains : Begin(Remote, HandleGainProgram, None, g)
    BY <1>1, <1>4, BeginInv DEF Programs
  <1>. QED  BY <1>3, <1>4 DEF HandleCommand

LEMMA LinkUpInv ==
  ASSUME ConfigInv, LinkUp
  PROVE  ConfigInv'
  <1>1. /\ up /\ link # "up" /\ job[Hook] = Idle /\ link' = "up"
        /\ raced' = (raced \/ Busy(Api))
        /\ up' = up /\ saver' = saver /\ requests' = requests /\ crashes' = crashes /\ mu' = mu
        /\ array' = array /\ len' = len /\ filled' = filled /\ gain' = gain /\ file' = file
        /\ subscribed' = subscribed /\ losses' = losses /\ outbox' = outbox
        /\ retained' = retained /\ shown' = shown /\ fresh' = fresh /\ missed' = missed
    BY DEF LinkUp, procVars, sliceVars
  <1>2. job' = [job EXCEPT ![Hook].todo = OnConnectProgram]
    BY DEF LinkUp
  <1>3. Base /\ (~raced => Calm)
    BY InvIs
  <1>4. Types /\ Jobs /\ Locked /\ Process /\ Listed
    BY <1>3, BaseIs
  <1>5. Hook \in Procs /\ Remote \in Procs /\ Hook # Remote
    BY ProcsAre, ConstantFacts
  <1>6. PICK r \in JobRecord : /\ r.todo = OnConnectProgram /\ r.step = "begin" /\ r.list = None
                              /\ job' = [job EXCEPT ![Hook] = r]
    <2>1. PICK idle \in JobRecord : idle = job[Hook] /\ idle.step = "begin" /\ idle.list = None
      BY <1>1, IdleIs
    <2>2. PICK r : r = [idle EXCEPT !.todo = OnConnectProgram]
      OBVIOUS
    <2>3. OnConnectProgram \in Seq(Phases)
      BY ProgramsShaped DEF Programs
    <2>4. r \in JobRecord /\ r.todo = OnConnectProgram /\ r.step = "begin" /\ r.list = None
      BY <2>1, <2>2, <2>3 DEF JobRecord
    <2>5. job' = [job EXCEPT ![Hook] = r]
      BY <1>2, <2>1, <2>2
    <2>. QED  BY <2>4, <2>5
  <1>7. OnConnectProgram # HandleBandsProgram /\ OnConnectProgram \in Programs
    BY DEF OnConnectProgram, HandleBandsProgram, Programs
  <1>8. Ordered(Hook, r)
    BY <1>5, <1>6, <1>7, ProgramOrdered
  <1>10. Jobs' /\ Others(Hook) /\ job'[Hook] = r
    BY <1>4, <1>5, <1>6, <1>8, JobChanges
  <1>11. Base'
    <2>1. raced' \in BOOLEAN
      BY <1>1, <1>4 DEF Types, Busy
    <2>2. Types'
      BY <1>1, <1>4, <2>1 DEF Types
    <2>3. Locked'
      BY <1>1, <1>4, <1>5, <1>10 DEF Locked, Others
    <2>4. Process'
      BY <1>1, <1>4 DEF Process
    <2>5. Listed'
      BY <1>1, <1>4, <1>6, <1>10 DEF Listed, Others
    <2>. QED  BY <1>10, <2>2, <2>3, <2>4, <2>5 DEF Base
  <1>12. ASSUME ~raced' PROVE Calm'
    <2>1. Calm /\ \A a \in Api : job[a] = Idle
      BY <1>1, <1>3, <1>12 DEF Busy
    <2>2. Sole'
      <3>1. \A a \in Api : job'[a] = Idle
        BY <1>10, <2>1, ConstantFacts, ProcsAre DEF Others
      <3>. QED  BY <3>1 DEF Sole
    <2>3. Halfway' <=> Halfway
      BY <1>1, <1>5, <1>6, <1>10, IdleIs, HalfwaySame
    <2>4. Whole'
      BY <1>1, <2>1, <2>3, CalmIs DEF Whole
    <2>5. ASSUME NEW q \in Procs PROVE Editing(q)'
      <3>1. CASE q = Hook
        BY <1>6, <1>10, <3>1 DEF Editing
      <3>2. CASE q # Hook
        <4>1. Editing(q) /\ job'[q] = job[q]
          BY <1>10, <2>1, <3>2, CalmIs DEF Others
        <4>. QED  BY <1>1, <4>1 DEF Editing
      <3>. QED  BY <3>1, <3>2
    <2>6. \A q \in Procs : \A x : Has(job[q].todo, x) => Has(job'[q].todo, x)
      BY <1>1, <1>10, IdleIs, HasNone DEF Others
    <2>7. Filed'
      BY <1>1, <2>1, <2>6, CalmIs, FiledKeep
    <2>8. Surviving'
      BY <1>1, <2>1, <2>3, CalmIs, SurvivingKeep
    <2>9. Wire'
      <3>1. ~subscribed
        BY <1>1, <1>4 DEF Process
      <3>2. job'[Remote] = job[Remote] /\ Has(job'[Hook].todo, "publish")
        BY <1>5, <1>6, <1>10, ProgramPhases DEF Others
      <3>. QED  BY <1>1, <1>5, <2>1, <3>1, <3>2, CalmIs DEF Wire
    <2>10. Told'
      BY <1>1, <2>1, <2>6, CalmIs, ToldKeep
    <2>. QED  BY <2>2, <2>4, <2>5, <2>7, <2>8, <2>9, <2>10 DEF Calm
  <1>. QED  BY <1>11, <1>12 DEF ConfigInv

\* Of what was promised of a first connection nothing is left.
LEMMA LinkLostInv ==
  ASSUME ConfigInv, LinkLost
  PROVE  ConfigInv'
  <1>1. /\ link = "up" /\ losses + crashes < MaxFaults /\ link' = "lost" /\ subscribed' = FALSE
        /\ losses' = losses + 1 /\ job' = job
        /\ up' = up /\ saver' = saver /\ requests' = requests /\ crashes' = crashes /\ mu' = mu
        /\ array' = array /\ len' = len /\ filled' = filled /\ gain' = gain /\ file' = file
        /\ outbox' = outbox /\ retained' = retained /\ shown' = shown
        /\ fresh' = fresh /\ missed' = missed /\ raced' = raced
    BY DEF LinkLost, procVars, sliceVars, histVars
  <1>2. Base /\ (~raced => Calm)
    BY InvIs
  <1>3. Types /\ Jobs /\ Locked /\ Process /\ Listed
    BY <1>2, BaseIs
  <1>4. losses' \in Nat /\ losses' # 0 /\ losses' + crashes' <= MaxFaults
    <2>1. losses \in Nat /\ crashes \in Nat /\ MaxFaults \in Nat
      BY <1>3, ConstantFacts DEF Types
    <2>2. losses + crashes < MaxFaults /\ losses' = losses + 1 /\ crashes' = crashes
      BY <1>1
    <2>. QED  BY <2>1, <2>2
  <1>5. Base'
    <2>1. Types'
      BY <1>1, <1>3, <1>4 DEF Types
    <2>2. Jobs' /\ Locked' /\ Listed'
      BY <1>1, <1>3 DEF Jobs, Locked, Listed
    <2>3. Process'
      BY <1>1, <1>3 DEF Process, Types
    <2>. QED  BY <2>1, <2>2, <2>3 DEF Base
  <1>6. ASSUME ~raced PROVE Calm'
    <2>1. Calm
      BY <1>2, <1>6
    <2>2. Sole' /\ (Halfway' <=> Halfway)
      BY <1>1, <2>1, CalmIs DEF Sole, Halfway
    <2>3. Whole'
      BY <1>1, <2>1, <2>2, CalmIs DEF Whole
    <2>4. ASSUME NEW q \in Procs PROVE Editing(q)'
      <3>1. Editing(q)
        BY <2>1, CalmIs
      <3>2. ~(q # Hook \/ losses' = 0) \/ q # Hook
        BY <1>4
      <3>. QED  BY <1>1, <1>4, <3>1 DEF Editing
    <2>5. Filed'
      BY <1>1, <2>1, CalmIs, FiledKeep
    <2>6. Surviving'
      BY <1>1, <2>1, <2>2, CalmIs, SurvivingKeep
    <2>7. Wire'
      BY <1>4 DEF Wire
    <2>8. Told'
      BY <1>1, <2>1, CalmIs, ToldKeep
    <2>. QED  BY <2>2, <2>3, <2>4, <2>5, <2>6, <2>7, <2>8 DEF Calm
  <1>. QED  BY <1>1, <1>5, <1>6 DEF ConfigInv

\* Nothing is kept of a first connection.
LEMMA SendKeptInv ==
  ASSUME ConfigInv, SendKept
  PROVE  ConfigInv'
  <1>1. /\ outbox # {} /\ outbox' \subseteq outbox /\ link = "up" /\ job' = job
        /\ up' = up /\ saver' = saver /\ requests' = requests /\ crashes' = crashes /\ mu' = mu
        /\ array' = array /\ len' = len /\ filled' = filled /\ gain' = gain /\ file' = file
        /\ link' = link /\ subscribed' = subscribed /\ losses' = losses
        /\ shown' = shown /\ fresh' = fresh /\ missed' = missed /\ raced' = raced
    BY DEF SendKept, procVars, sliceVars, histVars
  <1>2. Base /\ (~raced => Calm)
    BY InvIs
  <1>3. Types /\ Jobs /\ Locked /\ Process /\ Listed
    BY <1>2, BaseIs
  <1>4. Base'
    <2>1. Types'
      BY <1>1, <1>3 DEF Types
    <2>2. Jobs' /\ Locked' /\ Listed'
      BY <1>1, <1>3 DEF Jobs, Locked, Listed
    <2>3. Process'
      BY <1>1, <1>3 DEF Process
    <2>. QED  BY <2>1, <2>2, <2>3 DEF Base
  <1>5. ASSUME ~raced PROVE Calm'
    <2>1. Calm
      BY <1>2, <1>5
    <2>2. Sole' /\ (Halfway' <=> Halfway)
      BY <1>1, <2>1, CalmIs DEF Sole, Halfway
    <2>3. Whole'
      BY <1>1, <2>1, <2>2, CalmIs DEF Whole
    <2>4. ASSUME NEW q \in Procs PROVE Editing(q)'
      BY <1>1, <2>1, CalmIs DEF Editing
    <2>5. Filed' /\ Surviving'
      BY <1>1, <2>1, <2>2, CalmIs, FiledKeep, SurvivingKeep
    <2>6. losses # 0
      BY <1>1, <2>1, CalmIs DEF Wire
    <2>7. Wire'
      BY <1>1, <2>6 DEF Wire
    <2>8. Told'
      BY <1>1, <2>1, CalmIs, ToldKeep
    <2>. QED  BY <2>2, <2>3, <2>4, <2>5, <2>7, <2>8 DEF Calm
  <1>. QED  BY <1>1, <1>4, <1>5 DEF ConfigInv

-----------------------------------------------------------------------------
(* The process                                                             *)

LEMMA CrashInv ==
  ASSUME ConfigInv, Crash
  PROVE  ConfigInv'
  <1>1. Die /\ losses + crashes < MaxFaults /\ crashes' = crashes + 1 /\ raced' = raced
    BY DEF Crash, Die
  <1>2. Base
    BY InvIs
  <1>3. crashes' \in Nat /\ losses + crashes' <= MaxFaults
    <2>1. losses \in Nat /\ crashes \in Nat /\ MaxFaults \in Nat
      BY <1>2, BaseIs, ConstantFacts DEF Types
    <2>2. losses + crashes < MaxFaults /\ crashes' = crashes + 1
      BY <1>1
    <2>. QED  BY <2>1, <2>2
  <1>4. Base'
    BY <1>1, <1>2, <1>3, DieBase
  <1>5. ~raced => Calm'
    BY <1>1, DieCalm
  <1>. QED  BY <1>1, <1>4, <1>5 DEF ConfigInv

\* The file is what counts then: it has the edits, unless one was missed.
LEMMA RestartInv ==
  ASSUME ConfigInv, Restart
  PROVE  ConfigInv'
  <1>1. /\ ~up /\ file # Garbled /\ up' = TRUE
        /\ array' = Loaded.bands /\ len' = Len(Loaded.bands) /\ filled' = (file # Empty)
        /\ gain' = Loaded.gain /\ missed' = FALSE
        /\ fresh' = IF missed THEN {Loaded.bands} ELSE fresh
        /\ saver' = saver /\ requests' = requests /\ crashes' = crashes /\ mu' = mu
        /\ job' = job /\ file' = file /\ link' = link /\ subscribed' = subscribed
        /\ losses' = losses /\ outbox' = outbox /\ retained' = retained
        /\ shown' = shown /\ raced' = raced
    BY DEF Restart, linkVars
  <1>2. Base /\ (~raced => Calm)
    BY InvIs
  <1>3. Types /\ Jobs /\ Locked /\ Process /\ Listed
    BY <1>2, BaseIs
  <1>4. /\ ~saver /\ link = "new" /\ ~subscribed /\ mu = None /\ outbox = {} /\ shown = None
        /\ \A p \in Procs : job[p] = Idle
    BY <1>1, <1>3 DEF Process
  <1>5. /\ Loaded.bands \in Seq(Item) /\ Len(Loaded.bands) \in Nat
        /\ Loaded.gain \in Gains \cup {FirstGain} /\ Rounded(Loaded.bands) = Loaded.bands
    <2>1. Loaded.bands \in Seq(Item)
      BY <1>1, <1>3, LoadedIs
    <2>. QED  BY <1>1, <1>3, <2>1, LoadedIs, SeqFacts
  <1>6. Base'
    <2>1. Types'
      <3>1. fresh' \subseteq Seq(Item)
        BY <1>1, <1>3, <1>5 DEF Types
      <3>2. filled' \in BOOLEAN
        BY <1>1
      <3>. QED  BY <1>1, <1>3, <1>5, <3>1, <3>2 DEF Types
    <2>2. Jobs' /\ Locked'
      BY <1>1, <1>3 DEF Jobs, Locked
    <2>3. Listed'
      BY <1>1, <1>4, IdleIs DEF Listed
    <2>4. Process'
      BY <1>1, <1>4 DEF Process
    <2>. QED  BY <2>1, <2>2, <2>3, <2>4 DEF Base
  <1>7. ASSUME ~raced PROVE Calm'
    <2>1. Calm
      BY <1>2, <1>7
    <2>2. \A p \in Procs : job'[p] = Idle
      BY <1>1, <1>4
    <2>3. Sole'
      BY <2>2, ProcsAre DEF Sole
    <2>4. Whole'
      BY <1>1 DEF Whole
    <2>5. \A q \in Procs : Editing(q)'
      BY <2>2, IdleEditing
    <2>6. Loaded' = Loaded
      BY <1>1 DEF Loaded
    <2>7. Filed'
      BY <1>1, <1>5, <2>6 DEF Filed
    <2>8. Surviving'
      <3>1. file # Empty => Loaded.bands = FromMHz(file.bands)
        BY <1>3, LoadedIs
      <3>2. CASE missed
        BY <1>1, <3>1, <3>2 DEF Surviving, Near
      <3>3. CASE ~missed
        <4>1. file # Empty /\ Near(FromMHz(file.bands))
          BY <1>1, <2>1, <3>3, CalmIs DEF Surviving
        <4>2. Near(FromMHz(file.bands))' /\ array' = FromMHz(file.bands)
          BY <1>1, <3>1, <3>3, <4>1 DEF Near
        <4>. QED  BY <1>1, <4>2 DEF Surviving, Near
      <3>. QED  BY <3>2, <3>3
    <2>9. Wire'
      BY <1>1, <1>4, <2>2, ProcsAre DEF Wire
    <2>10. Told'
      BY <1>1, <1>4 DEF Told
    <2>. QED  BY <2>3, <2>4, <2>5, <2>7, <2>8, <2>9, <2>10 DEF Calm
  <1>. QED  BY <1>1, <1>6, <1>7 DEF ConfigInv

\* A step that is nobody's edit.
LEMMA CalmKept ==
  ASSUME Calm, job' = job, up' = up, array' = array, len' = len, filled' = filled, gain' = gain,
         file' = file, link' = link, subscribed' = subscribed, losses' = losses,
         outbox' = outbox, retained' = retained, shown' = shown, fresh' = fresh,
         missed' = missed
  PROVE  Calm'
  <1>1. Sole' /\ (Halfway' <=> Halfway)
    BY CalmIs DEF Sole, Halfway
  <1>2. Whole'
    BY <1>1, CalmIs DEF Whole
  <1>3. ASSUME NEW q \in Procs PROVE Editing(q)'
    BY CalmIs DEF Editing
  <1>4. Filed' /\ Surviving'
    BY <1>1, CalmIs, FiledKeep, SurvivingKeep
  <1>5. Wire' /\ Told'
    BY CalmIs, WireKeep, ToldKeep
  <1>. QED  BY <1>1, <1>2, <1>3, <1>4, <1>5 DEF Calm

LEMMA SetConfigSaveFuncInv ==
  ASSUME ConfigInv, SetConfigSaveFunc
  PROVE  ConfigInv'
  <1>1. /\ up /\ saver' = TRUE /\ job' = job
        /\ up' = up /\ requests' = requests /\ crashes' = crashes /\ mu' = mu
        /\ array' = array /\ len' = len /\ filled' = filled /\ gain' = gain /\ file' = file
        /\ link' = link /\ subscribed' = subscribed /\ losses' = losses /\ outbox' = outbox
        /\ retained' = retained /\ shown' = shown /\ fresh' = fresh /\ missed' = missed
        /\ raced' = raced
    BY DEF SetConfigSaveFunc, sliceVars, linkVars, histVars
  <1>2. Base /\ (~raced => Calm)
    BY InvIs
  <1>3. Types /\ Jobs /\ Locked /\ Process /\ Listed
    BY <1>2, BaseIs
  <1>4. Base'
    <2>1. Types'
      BY <1>1, <1>3 DEF Types
    <2>2. Jobs' /\ Locked' /\ Listed'
      BY <1>1, <1>3 DEF Jobs, Locked, Listed
    <2>3. Process'
      BY <1>1, <1>3 DEF Process
    <2>. QED  BY <2>1, <2>2, <2>3 DEF Base
  <1>5. ASSUME ~raced PROVE Calm'
    BY <1>1, <1>2, <1>5, CalmKept
  <1>. QED  BY <1>1, <1>4, <1>5 DEF ConfigInv

LEMMA StutterInv ==
  ASSUME ConfigInv, UNCHANGED vars
  PROVE  ConfigInv'
  <1>1. /\ saver' = saver /\ job' = job
        /\ up' = up /\ requests' = requests /\ crashes' = crashes /\ mu' = mu
        /\ array' = array /\ len' = len /\ filled' = filled /\ gain' = gain /\ file' = file
        /\ link' = link /\ subscribed' = subscribed /\ losses' = losses /\ outbox' = outbox
        /\ retained' = retained /\ shown' = shown /\ fresh' = fresh /\ missed' = missed
        /\ raced' = raced
    BY DEF vars, procVars, sliceVars, linkVars, histVars
  <1>2. Base /\ (~raced => Calm)
    BY InvIs
  <1>3. Types /\ Jobs /\ Locked /\ Process /\ Listed
    BY <1>2, BaseIs
  <1>4. Base'
    <2>1. Types' /\ Jobs'
      BY <1>1, <1>3 DEF Types, Jobs
    <2>2. Locked' /\ Listed' /\ Process'
      BY <1>1, <1>3 DEF Locked, Listed, Process
    <2>. QED  BY <2>1, <2>2 DEF Base
  <1>5. ASSUME ~raced PROVE Calm'
    BY <1>1, <1>2, <1>5, CalmKept
  <1>. QED  BY <1>1, <1>4, <1>5 DEF ConfigInv

-----------------------------------------------------------------------------
(* The theorems                                                            *)

LEMMA InitInv == Init => ConfigInv
  <1>. SUFFICES ASSUME Init PROVE ConfigInv
    OBVIOUS
  <1>1. /\ up = TRUE /\ saver = FALSE /\ mu = None /\ filled = TRUE /\ gain = FirstGain
        /\ array = Rounded(FirstList) /\ len = Len(FirstList)
        /\ file = Text(ToMHz(FirstList, TRUE), FirstGain)
        /\ job = [p \in Procs |-> Idle]
        /\ link = "new" /\ subscribed = FALSE /\ requests = 0 /\ losses = 0 /\ crashes = 0
        /\ outbox = {} /\ shown = None
        /\ fresh = {Rounded(FirstList)} /\ missed = FALSE /\ raced = FALSE
    BY DEF Init
  <1>2. \A p \in Procs : job[p] = Idle
    BY <1>1
  <1>3. FirstList \in Seq(Item)
    BY ConstantFacts, BandSeqItem
  <1>4. /\ Rounded(FirstList) \in Seq(Item) /\ Len(Rounded(FirstList)) = Len(FirstList)
        /\ Rounded(Rounded(FirstList)) = Rounded(FirstList) /\ Len(FirstList) \in Nat
    BY <1>3, RoundedTypes, SeqFacts
  <1>5. ToMHz(FirstList, TRUE) \in Seq(Item)
    BY <1>3, ConversionTypes
  <1>6. file \in Texts /\ file.bands = ToMHz(FirstList, TRUE)
    BY <1>1, <1>5, TextIs
  <1>7. file # Empty /\ file # Garbled /\ FromMHz(file.bands) = array
    BY <1>1, <1>6, ConstantFacts DEF Rounded
  <1>8. Types
    <2>1. requests \in 0..MaxRequests /\ losses \in Nat /\ crashes \in Nat /\ losses + crashes <= MaxFaults
      <3>1. MaxRequests \in Nat /\ MaxFaults \in Nat
        BY ConstantFacts
      <3>2. requests = 0 /\ losses = 0 /\ crashes = 0
        BY <1>1
      <3>. QED  BY <3>1, <3>2
    <2>2. /\ array \in Seq(Item) /\ len \in Nat /\ gain \in Gains \cup {FirstGain}
          /\ fresh \subseteq Seq(Item)
      BY <1>1, <1>4
    <2>. QED  BY <1>1, <1>6, <2>1, <2>2 DEF Types
  <1>9. Base
    <2>1. Jobs
      <3>1. job \in [Procs -> JobRecord]
        BY <1>1, IdleIs
      <3>. QED  BY <1>2, <3>1, IdleIs DEF Jobs
    <2>2. Locked /\ Process
      BY <1>1 DEF Locked, Process
    <2>3. Listed
      BY <1>2, IdleIs DEF Listed
    <2>. QED  BY <1>8, <2>1, <2>2, <2>3 DEF Base
  <1>10. Calm
    <2>1. Sole
      BY <1>2, ProcsAre DEF Sole
    <2>2. Whole
      BY <1>1, <1>4 DEF Whole
    <2>3. ASSUME NEW p \in Procs PROVE Editing(p)
      BY <1>2, IdleIs DEF Editing
    <2>4. Filed
      <3>1. Loaded.bands = FromMHz(file.bands)
        BY <1>7, <1>8, LoadedIs
      <3>. QED  BY <1>1, <1>4, <1>7, <3>1 DEF Filed
    <2>5. Surviving
      BY <1>1, <1>7 DEF Surviving, Near
    <2>6. Wire
      BY <1>1, <1>2, ProcsAre DEF Wire
    <2>7. Told
      BY <1>1 DEF Told
    <2>. QED  BY <2>1, <2>2, <2>3, <2>4, <2>5, <2>6, <2>7 DEF Calm
  <1>. QED  BY <1>9, <1>10 DEF ConfigInv

LEMMA WorkInv ==
  ASSUME ConfigInv, NEW p \in Procs, Work(p)
  PROVE  ConfigInv'
  <1>1. CASE Lock(p)
    BY <1>1, LockInv
  <1>2. CASE Unlock(p)
    BY <1>2, UnlockInv
  <1>3. CASE SetBands(p)
    BY <1>3, SetBandsInv
  <1>4. CASE SetGain(p)
    BY <1>4, SetGainInv
  <1>5. CASE Update(p)
    BY <1>5, UpdateInv
  <1>6. CASE Notify(p)
    BY <1>6, NotifyInv
  <1>7. CASE Save(p)
    BY <1>7, SaveBeginInv, SavePrepareInv, SaveMarshalInv, SaveOpenInv, SaveWriteInv DEF Save
  <1>8. CASE Publish(p)
    BY <1>8, PublishBeginInv, PublishFillInv, PublishSendInv DEF Publish
  <1>9. CASE Subscribe(p)
    BY <1>9, SubscribeInv
  <1>. QED  BY <1>1, <1>2, <1>3, <1>4, <1>5, <1>6, <1>7, <1>8, <1>9 DEF Work

LEMMA NextInv == ConfigInv /\ [Next]_vars => ConfigInv'
  <1>. SUFFICES ASSUME ConfigInv, [Next]_vars PROVE ConfigInv'
    OBVIOUS
  <1>1. CASE \E p \in Api : HandlePut(p)
    BY <1>1, HandlePutInv
  <1>2. CASE HandleCommand
    BY <1>2, HandleCommandInv
  <1>3. CASE \E p \in Procs : Work(p)
    BY <1>3, WorkInv
  <1>4. CASE LinkUp
    BY <1>4, LinkUpInv
  <1>5. CASE LinkLost
    BY <1>5, LinkLostInv
  <1>6. CASE SendKept
    BY <1>6, SendKeptInv
  <1>7. CASE Crash
    BY <1>7, CrashInv
  <1>8. CASE Restart
    BY <1>8, RestartInv
  <1>9. CASE SetConfigSaveFunc
    BY <1>9, SetConfigSaveFuncInv
  <1>10. CASE UNCHANGED vars
    BY <1>10, StutterInv
  <1>. QED
    BY <1>1, <1>2, <1>3, <1>4, <1>5, <1>6, <1>7, <1>8, <1>9, <1>10 DEF Next

\* Whatever is put, commanded, lost, killed or restarted: the goroutines keep
\* to their programs, and as long as no edits have overlapped, what they have
\* read stays so until it is written or sent.
THEOREM Invariance == Spec => []ConfigInv
  BY InitInv, NextInv, PTL DEF Spec

LEMMA TypesImply == Base => TypeOK
  <1>. SUFFICES ASSUME Base PROVE TypeOK
    OBVIOUS
  <1>1. Types /\ Jobs /\ Locked
    BY BaseIs
  <1>2. ASSUME NEW p \in Procs
        PROVE  /\ \A i \in DOMAIN job[p].todo : job[p].todo[i] \in Phases
               /\ job[p].step \in Steps
               /\ job[p].list \in Lists \cup {None}
               /\ job[p].gain \in Gains \cup {None}
    <2>1. /\ job[p].todo \in Seq(Phases) /\ job[p].step \in Steps
          /\ job[p].list \in Lists \cup {None} /\ job[p].gain \in Gains \cup {None}
      BY <1>1, JobIs, RecordIs
    <2>. QED  BY <2>1, SeqFacts
  <1>3. LockOK
    <2>1. job[Remote].todo \in Seq(Phases)
      BY <1>1, JobIs, RecordIs, ProcsAre
    <2>2. DOMAIN job[Remote].todo = 1..Len(job[Remote].todo)
      BY <2>1, SeqFacts
    <2>. QED  BY <1>1, <2>2 DEF LockOK, Locked, Has
  <1>4. mu \in Procs \cup {None}
    BY <1>1, ProcsAre DEF Locked
  <1>5. losses + crashes \in 0..MaxFaults /\ {losses, crashes} \subseteq Nat
    <2>1. losses \in Nat /\ crashes \in Nat /\ losses + crashes <= MaxFaults /\ MaxFaults \in Nat
      BY <1>1, ConstantFacts DEF Types
    <2>. QED  BY <2>1
  <1>6. /\ up \in BOOLEAN /\ saver \in BOOLEAN /\ filled \in BOOLEAN /\ missed \in BOOLEAN
        /\ raced \in BOOLEAN /\ len \in Nat
        /\ link \in {"new", "up", "lost"} /\ subscribed \in BOOLEAN
        /\ requests \in 0..MaxRequests
    BY <1>1 DEF Types
  <1>. QED  BY <1>2, <1>3, <1>4, <1>5, <1>6 DEF TypeOK

\* When nobody is at work a reader of config.Bands finds what is in use.
LEMMA WhenQuiet ==
  ASSUME ConfigInv, ~raced, Quiet
  PROVE  Calm /\ View = array /\ \A p \in Procs : \A x : ~Has(job[p].todo, x)
  <1>1. Base /\ Calm
    BY InvIs
  <1>2. up /\ \A p \in Procs : job[p] = Idle
    BY DEF Quiet
  <1>3. ~Halfway
    BY <1>2, IdleIs DEF Halfway
  <1>4. View = array
    BY <1>1, <1>2, <1>3, CalmIs, BaseIs, ViewIs DEF Whole
  <1>. QED  BY <1>1, <1>2, <1>4, IdleIs, HasNone

\* When nobody is at work and no save has failed, a restart would bring back
\* the bands in use, to the MHz: whoever assigns config.Bands saves after it,
\* and what he has marshalled stays in use until it is written.
THEOREM FileIsCurrent == Spec => []FileCurrent
  <1>1. ASSUME ConfigInv, Quiet, ~missed, ~raced
        PROVE  file # Garbled /\ Loaded.bands = Rounded(View)
    <2>1. Calm /\ View = array /\ \A p \in Procs : \A x : ~Has(job[p].todo, x)
      BY <1>1, WhenQuiet
    <2>2. up
      BY <1>1 DEF Quiet
    <2>. QED  BY <1>1, <2>1, <2>2, CalmIs DEF Filed
  <1>2. ConfigInv => FileCurrent
    BY <1>1 DEF FileCurrent
  <1>. QED  BY <1>2, Invariance, PTL

\* When nobody is at work, what the broker retains of a connection that was
\* never lost is the configuration, and so is what the clients were last sent.
THEOREM CopiesAreCurrent == Spec => []CopiesCurrent
  <1>1. ConfigInv => TypeOK
    BY InvIs, TypesImply
  <1>2. ASSUME ConfigInv, Quiet, ~raced
        PROVE  /\ link = "up" /\ losses = 0 => retained = Text(View, gain)
               /\ shown # None => shown = Text(View, gain)
    <2>1. Calm /\ View = array /\ \A p \in Procs : \A x : ~Has(job[p].todo, x)
      BY <1>2, WhenQuiet
    <2>2. Wire /\ Told
      BY <2>1, CalmIs
    <2>. QED  BY <2>1, <2>2 DEF Wire, Told
  <1>3. ConfigInv => CopiesCurrent
    BY <1>1, <1>2 DEF CopiesCurrent
  <1>. QED  BY <1>3, Invariance, PTL

\* The bands in use are the last that were saved or some put after them,
\* through any crashes and restarts, whichever writes they cut off.
THEOREM EditsAreKept == Spec => []EditsSurvive
  <1>1. ASSUME ConfigInv, up, ~raced, ~Setting
        PROVE  \E list \in fresh : Rounded(list) = Rounded(View)
    <2>1. Base /\ Calm
      BY <1>1, InvIs
    <2>2. ASSUME NEW p \in Procs, job[p].step \in {"array", "len"} PROVE Setting
      <3>1. job[p] \in JobRecord /\ Ordered(p, job[p])
        BY <2>1, BaseIs, JobIs
      <3>2. job[p].todo # <<>> /\ Head(job[p].todo) = "set"
        BY <2>2, <3>1 DEF Ordered, StepFits
      <3>. QED  BY <2>2, <3>2 DEF Setting, At
    <2>3. ~Halfway
      BY <1>1, <2>2 DEF Halfway
    <2>4. View = array
      BY <1>1, <2>1, <2>3, CalmIs, BaseIs, ViewIs DEF Whole
    <2>. QED  BY <1>1, <2>1, <2>3, <2>4, CalmIs DEF Surviving, Near
  <1>2. ConfigInv => EditsSurvive
    BY <1>1 DEF EditsSurvive
  <1>. QED  BY <1>2, Invariance, PTL
=============================================================================
