-------------------------- MODULE ImageFileProofs --------------------------
(***************************************************************************)
(* What a drive returns, for image files of any geometry and length and    *)
(* any sequence of reads.  The argument: the constructors give each drive  *)
(* the view its place among the drives calls for; such a view maps a block *)
(* to where the format keeps it, which is arithmetic; and the cache holds  *)
(* only what the view would return, so that a read answers the same        *)
(* whether it finds the block in the cache or not.                         *)
(*                                                                         *)
(* And what such a file is taken for, for every disc it can hold: of the   *)
(* layouts that are large enough the smallest serves, even when it is not  *)
(* the disc's own, and the second look, through a view of it, finds again  *)
(* what the first one found.                                               *)
(***************************************************************************)
EXTENDS ImageFile, Identify, FiniteSetTheorems, SequenceTheorems, TLAPS

ViewRecord == [skip : Nat, take : Nat, leave : Nat, total : Nat]
Place == [0..CachedSectors - 1 -> Nat \cup {Missing}]

\* The view of the i'th drive, by the format.
ViewOf(i) ==
  CASE kind = "ssd" -> NonInterleavedSide(i - 1)
    [] kind = "dsd" -> InterleavedSide(i - 1)
    [] kind = "mmb" -> IF i - 1 \in present THEN MmbDisc(i - 1) ELSE Unformatted

FileTyped == kind \in {"ssd", "dsd", "mmb"} /\ cylinders \in Nat \ {0} /\ length \in Nat

Viewed ==
  /\ views \in Seq(ViewRecord)
  /\ \A i \in DOMAIN views : views[i] = ViewOf(i)

Cached ==
  /\ cache \in Seq(Place)
  /\ pc = "opening" => cache = <<>>
  /\ pc = "connected" => Len(cache) = Len(views)

Answered == answer.view \in Nat /\ (answer.view # 0 => answer.block \in Nat)

ReadInv == FileTyped /\ Viewed /\ Cached /\ Answered /\ CacheCoherent /\ AnswerIsTheSector

----------------------------------------------------------------------------
(* Arithmetic *)

LEMMA Quotient ==
  ASSUME NEW d \in Nat \ {0}, NEW n \in Nat
  PROVE  n \div d \in Nat /\ n % d \in Nat /\ n % d < d /\ n = ((n \div d) * d) + (n % d)
<1>1. n = (d * (n \div d)) + (n % d)
  BY Z3
<1>2. n \div d \in Nat /\ n % d \in Nat /\ n % d < d
  OBVIOUS
<1> QED BY <1>1, <1>2

LEMMA WithinOne ==
  ASSUME NEW d \in Nat, NEW n \in Nat, n < d
  PROVE  n \div d = 0 /\ n % d = n
<1>1. n = (d * (n \div d)) + (n % d)
  BY Z3
<1>2. n \div d \in Nat /\ n % d \in Nat
  OBVIOUS
<1>3. n \div d = 0
  OBVIOUS
<1> QED BY <1>1, <1>2, <1>3

LEMMA Sides == ASSUME FileTyped PROVE SideSectors \in Nat \ {0}
<1>1. Spt \in Nat \ {0} /\ cylinders \in Nat \ {0}
  BY SizesAssumption DEF FileTyped
<1>2. \A a, b \in Nat \ {0} : a * b \in Nat \ {0}
  BY Z3
<1> QED BY <1>1, <1>2 DEF SideSectors

(* A place in the file is one of its sectors or there is nothing to read. *)
LEMMA MediaTyped == \A p \in Nat : MediaRead(p) \in Nat \cup {Missing}
  BY DEF MediaRead

LEMMA ReadTyped ==
  ASSUME NEW v \in ViewRecord, NEW b \in Nat
  PROVE  ViewRead(v, b) \in Nat \cup {Missing}
<1>1. v.skip \in Nat /\ v.take \in Nat /\ v.leave \in Nat
  BY DEF ViewRecord
<1>2. CASE v.take = 0 \/ b >= v.total
  BY <1>2 DEF ViewRead
<1>3. CASE ~(v.take = 0 \/ b >= v.total)
  <2>1. b \div v.take \in Nat /\ b % v.take \in Nat
    BY <1>1, <1>3, Quotient
  <2>2. v.take + v.leave \in Nat
    BY <1>1
  <2>3. (b \div v.take) * (v.take + v.leave) \in Nat
    BY <2>1, <2>2
  <2>4. Position(v, b) \in Nat
    BY <1>1, <2>1, <2>3 DEF Position
  <2> QED BY <1>3, <2>4, MediaTyped DEF ViewRead
<1> QED BY <1>2, <1>3

LEMMA ViewOfTyped == ASSUME FileTyped, NEW i \in Nat \ {0} PROVE ViewOf(i) \in ViewRecord
<1>1. SideSectors \in Nat /\ Spt \in Nat /\ CatSectors \in Nat /\ i - 1 \in Nat
  BY Sides, SizesAssumption
<1>2. (i - 1) * SideSectors \in Nat /\ (i - 1) * Spt \in Nat
  BY <1>1
<1>3. CASE kind = "ssd"
  BY <1>1, <1>2, <1>3 DEF ViewOf, NonInterleavedSide, View, ViewRecord
<1>4. CASE kind = "dsd"
  BY <1>1, <1>2, <1>4 DEF ViewOf, InterleavedSide, View, ViewRecord
<1>5. CASE kind = "mmb"
  <2>1. MmbDisc(i - 1) \in ViewRecord
    BY <1>1, <1>2 DEF MmbDisc, View, ViewRecord
  <2>2. Unformatted \in ViewRecord
    BY DEF Unformatted, View, ViewRecord
  <2> QED BY <1>5, <2>1, <2>2 DEF ViewOf
<1> QED BY <1>3, <1>4, <1>5 DEF FileTyped

(* A view finds a block where the format keeps that sector of the side. *)
LEMMA WholeSide ==
  ASSUME FileTyped, NEW side \in Nat, NEW b \in Nat, b < SideSectors, NEW base \in Nat
  PROVE  base + (side * cylinders + (b \div Spt)) * Spt + (b % Spt) = base + side * SideSectors + b
<1>1. cylinders \in Nat /\ Spt \in Nat \ {0}
  BY SizesAssumption DEF FileTyped
<1> DEFINE q == b \div Spt
           r == b % Spt
<1>2. q \in Nat /\ r \in Nat /\ b = (q * Spt) + r
  BY <1>1, Quotient
<1> HIDE DEF q, r
<1>3. (side * cylinders + q) * Spt = (side * (cylinders * Spt)) + (q * Spt)
  <2>1. \A x, y, z, w \in Nat : (x * y + z) * w = (x * (y * w)) + (z * w)
    BY Z3
  <2> QED BY <1>1, <1>2, <2>1
<1>4. base + (side * cylinders + q) * Spt + r = base + side * SideSectors + b
  <2>1. SideSectors = cylinders * Spt
    BY DEF SideSectors
  <2>2. side * SideSectors \in Nat /\ q * Spt \in Nat
    BY <1>1, <1>2, <2>1
  <2>3. (side * cylinders + q) * Spt = (side * SideSectors) + (q * Spt)
    BY <1>3, <2>1
  <2> QED BY <1>2, <2>2, <2>3
<1> QED BY <1>4 DEF q, r

LEMMA FoundWhereKept ==
  ASSUME FileTyped, NEW i \in Nat \ {0}, NEW b \in Nat, b < SideSectors,
         kind # "mmb" \/ i - 1 \in present
  PROVE  /\ ViewOf(i).take # 0 /\ ViewOf(i).total = SideSectors
         /\ Position(ViewOf(i), b) = Stored(i - 1, b \div Spt, b % Spt)
<1>1. /\ cylinders \in Nat \ {0} /\ Spt \in Nat \ {0} /\ CatSectors \in Nat
      /\ SideSectors \in Nat \ {0} /\ i - 1 \in Nat
  BY Sides, SizesAssumption DEF FileTyped
<1>2. b \div SideSectors = 0 /\ b % SideSectors = b
  BY <1>1, WithinOne
<1> DEFINE q == b \div Spt
           r == b % Spt
<1>3. q \in Nat /\ r \in Nat
  BY <1>1, Quotient
<1>4. CASE kind = "ssd"
  <2>1. ViewOf(i) = View((i - 1) * SideSectors, SideSectors, 0, SideSectors)
    BY <1>4 DEF ViewOf, NonInterleavedSide
  <2>2. Position(ViewOf(i), b) = (i - 1) * SideSectors + b
    <3>1. Position(ViewOf(i), b) = (i - 1) * SideSectors + 0 * (SideSectors + 0) + b
      BY <1>2, <2>1 DEF Position, View
    <3>2. (i - 1) * SideSectors \in Nat
      BY <1>1
    <3> QED BY <1>1, <3>1, <3>2
  <2>3. Stored(i - 1, q, r) = (i - 1) * SideSectors + b
    <3> DEFINE a == ((i - 1) * cylinders + q) * Spt
               c == (i - 1) * SideSectors
    <3>1. 0 + a + r = 0 + c + b
      BY <1>1, WholeSide
    <3>2. a \in Nat /\ c \in Nat
      BY <1>1, <1>3
    <3>3. Stored(i - 1, q, r) = a + r
      BY <1>4 DEF Stored
    <3> HIDE DEF a, c, q, r
    <3>4. a + r = c + b
      BY <1>3, <3>1, <3>2
    <3> QED BY <3>3, <3>4 DEF a, c
  <2> QED BY <1>1, <2>1, <2>2, <2>3 DEF View
<1>5. CASE kind = "dsd"
  <2>1. ViewOf(i) = View((i - 1) * Spt, Spt, Spt, SideSectors)
    BY <1>5 DEF ViewOf, InterleavedSide
  <2>2. Position(ViewOf(i), b) = (i - 1) * Spt + q * (Spt + Spt) + r
    BY <2>1 DEF Position, View
  <2>3. Stored(i - 1, q, r) = (2 * q + (i - 1)) * Spt + r
    BY <1>5 DEF Stored
  <2>4. (2 * q + (i - 1)) * Spt = (i - 1) * Spt + q * (Spt + Spt)
    <3>1. \A x, y, z \in Nat : (2 * x + y) * z = y * z + x * (z + z)
      BY Z3
    <3> QED BY <1>1, <1>3, <3>1
  <2> QED BY <1>1, <2>1, <2>2, <2>3, <2>4 DEF View
<1>6. CASE kind = "mmb"
  <2>1. ViewOf(i) = View(CatSectors + (i - 1) * SideSectors, SideSectors, 0, SideSectors)
    BY <1>6 DEF ViewOf, MmbDisc
  <2>2. Position(ViewOf(i), b) = CatSectors + (i - 1) * SideSectors + b
    <3>1. Position(ViewOf(i), b) = CatSectors + (i - 1) * SideSectors + 0 * (SideSectors + 0) + b
      BY <1>2, <2>1 DEF Position, View
    <3>2. (i - 1) * SideSectors \in Nat
      BY <1>1
    <3> QED BY <1>1, <3>1, <3>2
  <2>3. Stored(i - 1, q, r) = CatSectors + (i - 1) * SideSectors + b
    <3>1. Stored(i - 1, q, r) = CatSectors + ((i - 1) * cylinders + q) * Spt + r
      BY <1>6 DEF Stored
    <3> QED BY <1>1, <3>1, WholeSide
  <2> QED BY <1>1, <2>1, <2>2, <2>3 DEF View
<1> QED BY <1>4, <1>5, <1>6 DEF FileTyped

\* What AnswerIsTheSector says a read of block b of drive i returns.
SectorOf(i, b) ==
  IF (kind # "mmb" \/ i - 1 \in present) /\ b < SideSectors
    THEN Held(i - 1, b \div Spt, b % Spt)
    ELSE Missing

LEMMA ViewShowsTheSector ==
  ASSUME FileTyped, NEW i \in Nat \ {0}, NEW b \in Nat
  PROVE  ViewRead(ViewOf(i), b) = SectorOf(i, b)
<1>1. SideSectors \in Nat
  BY Sides
<1>2. CASE (kind # "mmb" \/ i - 1 \in present) /\ b < SideSectors
  <2>1. /\ ViewOf(i).take # 0 /\ ViewOf(i).total = SideSectors
        /\ Position(ViewOf(i), b) = Stored(i - 1, b \div Spt, b % Spt)
    BY <1>2, FoundWhereKept
  <2>2. ~(b >= SideSectors)
    BY <1>1, <1>2
  <2>3. ViewRead(ViewOf(i), b) = MediaRead(Stored(i - 1, b \div Spt, b % Spt))
    BY <2>1, <2>2 DEF ViewRead
  <2> QED BY <1>2, <2>3 DEF SectorOf, Held, MediaRead
<1>3. CASE kind = "mmb" /\ i - 1 \notin present
  <2>1. ViewOf(i).take = 0
    BY <1>3 DEF ViewOf, Unformatted, View
  <2> QED BY <1>3, <2>1 DEF ViewRead, SectorOf
<1>4. CASE (kind # "mmb" \/ i - 1 \in present) /\ ~(b < SideSectors)
  <2>1. ViewOf(i).total = SideSectors
    BY <1>4 DEF FileTyped, ViewOf, NonInterleavedSide, InterleavedSide, MmbDisc, View
  <2>2. b >= SideSectors
    BY <1>1, <1>4
  <2> QED BY <1>4, <2>1, <2>2 DEF ViewRead, SectorOf
<1> QED BY <1>2, <1>3, <1>4

----------------------------------------------------------------------------
(* The steps *)

LEMMA AnswerSaid ==
  AnswerIsTheSector <=> (answer.view # 0 => answer.got = SectorOf(answer.view, answer.block))
  BY DEF AnswerIsTheSector, SectorOf

LEMMA InitReads == Init => ReadInv
<1> SUFFICES ASSUME Init PROVE ReadInv
  OBVIOUS
<1>1. FileTyped
  <2>1. length \in Nat
    <3>1. \A n \in Nat : \A x \in 0..n : x \in Nat
      OBVIOUS
    <3>2. cylinders \in Nat /\ Spt \in Nat /\ Slack \in Nat /\ CatSectors \in Nat \ {0}
          /\ SectorEntries \in Nat \ {0}
      BY SizesAssumption DEF Init
    <3>3. SideSectors \in Nat
      BY <3>2 DEF SideSectors
    <3>4. CatSectors * SectorEntries \in Nat
      BY <3>2
    <3> DEFINE discs == CatSectors * SectorEntries - 1
    <3>5. discs \in Int
      BY <3>4
    <3> HIDE DEF discs
    <3>6. discs * SideSectors \in Int
      BY <3>3, <3>5
    <3> QED BY <3>2, <3>3, <3>6 DEF Init, discs
  <2> QED BY <2>1, SizesAssumption DEF Init, FileTyped
<1>2. views = <<>> /\ cache = <<>> /\ answer = NotAsked
  BY DEF Init
<1>3. Viewed /\ Cached /\ CacheCoherent
  BY <1>2 DEF Viewed, Cached, CacheCoherent, Init
<1>4. Answered /\ AnswerIsTheSector
  BY <1>2 DEF Answered, AnswerIsTheSector, NotAsked
<1> QED BY <1>1, <1>3, <1>4 DEF ReadInv

(* The file does not change, nor what the format says of it. *)
LEMMA SameFile ==
  ASSUME UNCHANGED file
  PROVE  /\ FileTyped => FileTyped'
         /\ \A i : ViewOf(i)' = ViewOf(i)
         /\ \A i, b : SectorOf(i, b)' = SectorOf(i, b)
         /\ \A v, b : ViewRead(v, b)' = ViewRead(v, b)
<1>1. UNCHANGED <<kind, cylinders, heads, length, present>>
  BY DEF file
<1>2. SideSectors' = SideSectors
  BY <1>1 DEF SideSectors
<1>3. \A i : ViewOf(i)' = ViewOf(i)
  BY <1>1, <1>2 DEF ViewOf, NonInterleavedSide, InterleavedSide, MmbDisc
<1>4. \A i, t, s : Held(i, t, s)' = Held(i, t, s)
  BY <1>1 DEF Held, Stored
<1>5. \A i, b : SectorOf(i, b)' = SectorOf(i, b)
  BY <1>1, <1>2, <1>4 DEF SectorOf
<1>6. \A v, b : ViewRead(v, b)' = ViewRead(v, b)
  BY <1>1 DEF ViewRead, MediaRead
<1>7. FileTyped => FileTyped'
  BY <1>1 DEF FileTyped
<1> QED BY <1>3, <1>5, <1>6, <1>7

(* The last answer stays right as long as it stays. *)
LEMMA AnswerStays ==
  ASSUME ReadInv, UNCHANGED <<file, answer>>
  PROVE  FileTyped' /\ Answered' /\ AnswerIsTheSector'
<1>1. FileTyped'
  BY SameFile DEF ReadInv
<1>2. answer' = answer
  OBVIOUS
<1>3. AnswerIsTheSector'
  <2>1. answer.view # 0 => answer.got = SectorOf(answer.view, answer.block)
    BY AnswerSaid DEF ReadInv
  <2>2. SectorOf(answer.view, answer.block)' = SectorOf(answer.view, answer.block)
    BY <1>2, SameFile
  <2>3. (answer.view # 0 => answer.got = SectorOf(answer.view, answer.block))'
    BY <1>2, <2>1, <2>2
  <2> QED BY <2>3, AnswerSaid DEF AnswerIsTheSector, SectorOf
<1> QED BY <1>1, <1>2, <1>3 DEF ReadInv, Answered

(* The next drive gets the view that its place calls for. *)
LEMMA StepAddView ==
  ASSUME ReadInv, pc = "opening", UNCHANGED <<pc, file, cache, answer>>,
         NEW x, x = ViewOf(Len(views) + 1),
         views' = Append(views, x) \/ views' = views \o <<x>>
  PROVE  ReadInv'
<1>1. views \in Seq(ViewRecord) /\ Len(views) \in Nat /\ FileTyped
  BY DEF ReadInv, Viewed
<1>2. x \in ViewRecord
  <2>1. Len(views) + 1 \in Nat \ {0}
    BY <1>1
  <2> QED BY <1>1, <2>1, ViewOfTyped
<1>3. /\ views' \in Seq(ViewRecord) /\ Len(views') = Len(views) + 1
      /\ \A i \in 1..Len(views) : views'[i] = views[i]
      /\ views'[Len(views) + 1] = x
  <2>1. CASE views' = Append(views, x)
    BY <1>1, <1>2, <2>1
  <2>2. CASE views' = views \o <<x>>
    <3>1. <<x>> \in Seq(ViewRecord) /\ Len(<<x>>) = 1 /\ <<x>>[1] = x
      BY <1>2
    <3> QED BY <1>1, <3>1, <2>2, ConcatProperties
  <2> QED BY <2>1, <2>2
<1>4. Viewed'
  <2>1. ASSUME NEW i \in 1..Len(views') PROVE views'[i] = ViewOf(i)
    <3>1. CASE i = Len(views) + 1
      BY <1>3, <3>1
    <3>2. CASE i # Len(views) + 1
      <4>1. i \in 1..Len(views)
        BY <1>1, <1>3, <3>2
      <4> QED BY <1>1, <1>3, <4>1 DEF ReadInv, Viewed
    <3> QED BY <3>1, <3>2
  <2>2. \A i : ViewOf(i)' = ViewOf(i)
    BY SameFile
  <2>3. DOMAIN views' = 1..Len(views')
    BY <1>3
  <2> QED BY <1>3, <2>1, <2>2, <2>3 DEF Viewed
<1>5. cache = <<>> /\ cache' = <<>>
  BY DEF ReadInv, Cached
<1>6. Cached' /\ CacheCoherent'
  BY <1>5 DEF ReadInv, Cached, CacheCoherent
<1> QED BY <1>4, <1>6, AnswerStays DEF ReadInv

LEMMA StepOpen == ASSUME ReadInv, Open PROVE ReadInv'
<1>1. CASE AddNonInterleavedSide
  <2>1. NonInterleavedSide(Len(views)) = ViewOf(Len(views) + 1)
    BY <1>1 DEF AddNonInterleavedSide, ViewOf, ReadInv, Viewed
  <2> QED BY <1>1, <2>1, StepAddView DEF AddNonInterleavedSide, AddSide
<1>2. CASE AddInterleavedSide
  <2>1. InterleavedSide(Len(views)) = ViewOf(Len(views) + 1)
    BY <1>2 DEF AddInterleavedSide, ViewOf, ReadInv, Viewed
  <2> QED BY <1>2, <2>1, StepAddView DEF AddInterleavedSide, AddSide
<1>3. CASE AddMmbSlot
  <2> DEFINE x == ViewOf(Len(views) + 1)
  <2>1. MmbSlot(Len(views)) = <<x>>
    <3>1. Len(views) + 1 - 1 = Len(views) /\ kind = "mmb"
      BY <1>3 DEF AddMmbSlot, ReadInv, Viewed
    <3>2. x = IF Len(views) \in present THEN MmbDisc(Len(views)) ELSE Unformatted
      BY <3>1 DEF ViewOf
    <3> HIDE DEF x
    <3> QED BY <3>2 DEF MmbSlot
  <2> HIDE DEF x
  <2>2. views' = views \o <<x>> /\ pc = "opening" /\ UNCHANGED <<pc, file, cache, answer>>
    BY <1>3, <2>1 DEF AddMmbSlot
  <2> QED BY <2>2, StepAddView DEF x
<1>4. CASE MmbTooShort
  <2>1. /\ pc' = "unusable" /\ UNCHANGED <<views, cache>> /\ UNCHANGED <<file, answer>>
    BY <1>4 DEF MmbTooShort
  <2>2. Viewed' /\ Cached'
    BY <2>1, SameFile DEF ReadInv, Viewed, Cached
  <2>3. CacheCoherent'
    BY <2>1, SameFile DEF ReadInv, CacheCoherent
  <2> QED BY <2>1, <2>2, <2>3, AnswerStays DEF ReadInv
<1>5. CASE ConnectDrives
  <2>1. /\ pc' = "connected" /\ views' = views /\ UNCHANGED <<file, answer>>
        /\ cache' = [i \in 1..Len(views) |-> [b \in 0..CachedSectors - 1 |-> Missing]]
    BY <1>5 DEF ConnectDrives
  <2>2. Len(views) \in Nat
    BY DEF ReadInv, Viewed
  <2>3. [b \in 0..CachedSectors - 1 |-> Missing] \in Place
    BY DEF Place
  <2>4. cache' \in Seq(Place) /\ Len(cache') = Len(views)
    BY <2>1, <2>2, <2>3, IsASeq
  <2>5. Viewed' /\ Cached'
    BY <2>1, <2>4, SameFile DEF ReadInv, Viewed, Cached
  <2>6. CacheCoherent'
    BY <2>1 DEF CacheCoherent
  <2> QED BY <2>1, <2>5, <2>6, AnswerStays DEF ReadInv
<1> QED BY <1>1, <1>2, <1>3, <1>4, <1>5 DEF Open

(* Through the cache or not, a read returns the sector. *)
LEMMA StepRead ==
  ASSUME ReadInv, NEW i \in DOMAIN views, NEW b \in Nat, CachedRead(i, b)
  PROVE  ReadInv'
<1> DEFINE got == IF Has(i, b) THEN cache[i][b] ELSE ViewRead(views[i], b)
<1>1. /\ pc = "connected" /\ UNCHANGED <<pc, views>> /\ UNCHANGED file
      /\ answer' = [view |-> i, block |-> b, got |-> got]
      /\ cache' = IF Has(i, b) \/ got = Missing THEN cache ELSE Put(i, b, got)
  BY DEF CachedRead
<1>2. /\ i \in Nat \ {0} /\ views[i] = ViewOf(i) /\ views[i] \in ViewRecord
      /\ Len(cache) = Len(views) /\ i \in DOMAIN cache /\ FileTyped
      /\ cache \in Seq(Place) /\ cache[i] \in Place
  BY <1>1 DEF ReadInv, Viewed, Cached
<1>3. got = ViewRead(views[i], b)
  BY <1>2 DEF ReadInv, CacheCoherent, Has
<1>4. got \in Nat \cup {Missing} /\ got = SectorOf(i, b)
  BY <1>2, <1>3, ReadTyped, ViewShowsTheSector
<1> HIDE DEF got
<1>5. Answered' /\ AnswerIsTheSector'
  <2>1. SectorOf(i, b)' = SectorOf(i, b)
    BY <1>1, SameFile
  <2>2. answer'.view = i /\ answer'.block = b /\ answer'.got = got
    BY <1>1
  <2>3. SectorOf(answer.view, answer.block)' = SectorOf(i, b)'
    BY <2>2 DEF SectorOf, Held, Stored, SideSectors
  <2>4. answer'.got = SectorOf(answer.view, answer.block)'
    BY <1>4, <2>1, <2>2, <2>3
  <2>5. AnswerIsTheSector'
    BY <2>4 DEF AnswerIsTheSector, SectorOf
  <2> QED BY <1>2, <2>2, <2>5 DEF Answered
<1>6. Viewed' /\ FileTyped'
  BY <1>1, SameFile DEF ReadInv, Viewed
<1>7. CASE cache' = cache
  <2>1. Cached'
    BY <1>1, <1>7 DEF ReadInv, Cached
  <2>2. CacheCoherent'
    BY <1>1, <1>7, SameFile DEF ReadInv, CacheCoherent
  <2> QED BY <1>5, <1>6, <2>1, <2>2 DEF ReadInv
<1>8. CASE b \in DOMAIN cache[i] /\ cache' = [cache EXCEPT ![i][b] = got]
  <2>1. [cache[i] EXCEPT ![b] = got] \in Place
    BY <1>2, <1>4, <1>8 DEF Place
  <2>2. cache' = [cache EXCEPT ![i] = [cache[i] EXCEPT ![b] = got]]
    BY <1>8
  <2>3. cache' \in Seq(Place) /\ Len(cache') = Len(cache)
    BY <1>2, <2>1, <2>2, ExceptSeq
  <2>4. Cached'
    BY <1>1, <1>2, <2>3 DEF ReadInv, Cached
  <2>5. ASSUME NEW j \in DOMAIN cache', NEW c \in DOMAIN cache'[j], cache'[j][c] # Missing
        PROVE  cache'[j][c] = ViewRead(views[j], c)
    <3>1. j \in DOMAIN cache
      BY <1>2, <2>2
    <3>2. CASE j = i /\ c = b
      BY <1>2, <1>3, <1>8, <2>2, <3>2
    <3>3. CASE j # i
      <4>1. cache'[j] = cache[j]
        BY <2>2, <3>1, <3>3
      <4> QED BY <2>5, <3>1, <4>1 DEF ReadInv, CacheCoherent
    <3>4. CASE j = i /\ c # b
      <4>1. cache'[i] = [cache[i] EXCEPT ![b] = got]
        BY <1>2, <2>2
      <4>2. c \in DOMAIN cache[i] /\ cache'[i][c] = cache[i][c]
        BY <2>5, <3>4, <4>1
      <4> QED BY <1>2, <2>5, <3>4, <4>2 DEF ReadInv, CacheCoherent
    <3> QED BY <3>2, <3>3, <3>4
  <2>6. CacheCoherent'
    <3>1. \A v, c : ViewRead(v, c)' = ViewRead(v, c)
      BY <1>1, SameFile
    <3>2. views' = views
      BY <1>1
    <3> QED BY <2>5, <3>1, <3>2 DEF CacheCoherent
  <2> QED BY <1>5, <1>6, <2>4, <2>6 DEF ReadInv
<1> QED BY <1>1, <1>7, <1>8 DEF Put

LEMMA StepReads == ReadInv /\ [Next]_vars => ReadInv'
<1> SUFFICES ASSUME ReadInv, [Next]_vars PROVE ReadInv'
  OBVIOUS
<1>1. CASE Open
  BY <1>1, StepOpen
<1>2. ASSUME NEW i \in DOMAIN views, NEW b \in 0..views[i].total, ReadBlock(i, b)
      PROVE  ReadInv'
  <2>1. views[i].total \in Nat
    <3>1. views[i] \in ViewRecord
      BY DEF ReadInv, Viewed
    <3> QED BY <3>1 DEF ViewRecord
  <2>2. b \in Nat
    BY <2>1
  <2> QED BY <1>2, <2>2, StepRead DEF ReadBlock
<1>3. ASSUME NEW i \in DOMAIN views, NEW track \in Argument, NEW sector \in Argument,
             DumpSector(i, track, sector)
      PROVE  ReadInv'
  <2>1. track \in Int /\ sector \in Int
    BY SizesAssumption DEF Argument
  <2>2. track * Spt + sector \in Int /\ Wrap \in Nat \ {0}
    <3>1. MaxCylinders * Spt \in Nat
      BY SizesAssumption
    <3>2. track * Spt \in Int
      BY <2>1, SizesAssumption
    <3> QED BY <2>1, <3>1, <3>2, WrapAssumption
  <2>3. \A n \in Int : n % Wrap \in Nat
    BY <2>2
  <2> QED BY <1>3, <2>2, <2>3, StepRead DEF DumpSector
<1>4. ASSUME NEW i \in DOMAIN views, NEW track \in Argument, NEW sector \in Argument,
             DumpRefused(i, track, sector)
      PROVE  ReadInv'
  <2>1. UNCHANGED <<pc, views, cache>> /\ UNCHANGED file /\ answer' = NotAsked
    BY <1>4 DEF DumpRefused
  <2>2. Answered' /\ AnswerIsTheSector'
    BY <2>1 DEF Answered, AnswerIsTheSector, NotAsked
  <2>3. Viewed' /\ Cached' /\ FileTyped'
    BY <2>1, SameFile DEF ReadInv, Viewed, Cached
  <2>4. CacheCoherent'
    BY <2>1, SameFile DEF ReadInv, CacheCoherent
  <2> QED BY <2>2, <2>3, <2>4 DEF ReadInv
<1>5. CASE UNCHANGED vars
  <2>1. UNCHANGED <<pc, views, cache>> /\ UNCHANGED <<file, answer>>
    BY <1>5 DEF vars, file
  <2>2. Viewed' /\ Cached'
    BY <2>1, SameFile DEF ReadInv, Viewed, Cached
  <2>3. CacheCoherent'
    BY <2>1, SameFile DEF ReadInv, CacheCoherent
  <2> QED BY <2>1, <2>2, <2>3, AnswerStays DEF ReadInv
<1> QED BY <1>1, <1>2, <1>3, <1>4, <1>5 DEF Next

----------------------------------------------------------------------------
\* Every drive of every .ssd, .dsd or .mmb file, of any geometry and however short the file is,
\* returns the sector that the format keeps there, or nothing; read through the cache or not
\* (FileView::read_block, FilePresentedBlockwise::read_block, CachedDevice::read_block).
THEOREM DrivesShowTheirSectors == Spec => []AnswerIsTheSector
<1>1. ReadInv => AnswerIsTheSector
  BY DEF ReadInv
<1> QED BY <1>1, InitReads, StepReads, PTL DEF Spec

\* A cached block is what the file view would return, after any sequence of reads
\* (SectorCache::put and get).
THEOREM CacheTellsTheTruth == Spec => []CacheCoherent
<1>1. ReadInv => CacheCoherent
  BY DEF ReadInv
<1> QED BY <1>1, InitReads, StepReads, PTL DEF Spec

----------------------------------------------------------------------------
(* No sector is shown twice *)

LEMMA OneWay ==
  ASSUME NEW d \in Nat, NEW p \in Nat, NEW q \in Nat, NEW r \in Nat, NEW s \in Nat, r < d, s < d,
         p * d + r = q * d + s
  PROVE  p = q /\ r = s
<1>1. \A x, y \in Nat : x < y => x * d + d <= y * d
  <2> SUFFICES ASSUME NEW x \in Nat, NEW y \in Nat, x < y PROVE x * d + d <= y * d
    OBVIOUS
  <2>1. PICK k \in Nat : y = x + 1 + k
    <3>1. y - x - 1 \in Nat /\ y = x + 1 + (y - x - 1)
      OBVIOUS
    <3> QED BY <3>1
  <2>2. y * d = (x * d) + d + (k * d)
    BY <2>1
  <2>3. k * d \in Nat /\ x * d \in Nat
    OBVIOUS
  <2> QED BY <2>2, <2>3
<1>2. p * d \in Nat /\ q * d \in Nat
  OBVIOUS
<1>3. ~(p < q)
  BY <1>1, <1>2
<1>4. ~(q < p)
  BY <1>1, <1>2
<1>5. p = q
  BY <1>3, <1>4
<1> QED BY <1>2, <1>5

LEMMA StoredOnce ==
  ASSUME FileTyped, NEW i \in Nat \ {0}, NEW j \in Nat \ {0}, kind = "dsd" => i <= 2 /\ j <= 2,
         NEW b \in Nat, NEW c \in Nat, b < SideSectors, c < SideSectors,
         Stored(i - 1, b \div Spt, b % Spt) = Stored(j - 1, c \div Spt, c % Spt)
  PROVE  i = j /\ b = c
<1>1. /\ cylinders \in Nat \ {0} /\ Spt \in Nat \ {0} /\ CatSectors \in Nat
      /\ SideSectors \in Nat \ {0} /\ i - 1 \in Nat /\ j - 1 \in Nat
  BY Sides, SizesAssumption DEF FileTyped
<1> DEFINE q == b \div Spt
           r == b % Spt
           t == c \div Spt
           u == c % Spt
<1>2. /\ q \in Nat /\ r \in Nat /\ r < Spt /\ b = (q * Spt) + r
      /\ t \in Nat /\ u \in Nat /\ u < Spt /\ c = (t * Spt) + u
  BY <1>1, Quotient
<1>3. CASE kind = "dsd"
  <2>1. (2 * q + (i - 1)) * Spt + r = (2 * t + (j - 1)) * Spt + u
    BY <1>3 DEF Stored
  <2> HIDE DEF q, r, t, u
  <2>2. 2 * q + (i - 1) \in Nat /\ 2 * t + (j - 1) \in Nat
    BY <1>1, <1>2
  <2>3. 2 * q + (i - 1) = 2 * t + (j - 1) /\ r = u
    BY <1>1, <1>2, <2>1, <2>2, OneWay
  <2>4. q = t /\ i = j
    BY <1>1, <1>2, <1>3, <2>3
  <2> QED BY <1>2, <2>3, <2>4
<1>4. CASE kind # "dsd"
  <2> DEFINE base == IF kind = "mmb" THEN CatSectors ELSE 0
  <2>1. base \in Nat
    BY <1>1
  <2>2. ASSUME NEW side \in Nat, NEW n \in Nat, n < SideSectors
        PROVE  Stored(side, n \div Spt, n % Spt) = base + (side * SideSectors + n)
    <3> DEFINE w == (side * cylinders + (n \div Spt)) * Spt
               z == n % Spt
    <3>1. base + w + z = base + side * SideSectors + n
      BY <2>1, <2>2, WholeSide
    <3>2. w \in Nat /\ z \in Nat /\ side * SideSectors \in Nat
      <4>1. n \div Spt \in Nat /\ z \in Nat
        BY <1>1, Quotient
      <4> QED BY <1>1, <4>1
    <3>3. CASE kind = "mmb"
      <4>1. Stored(side, n \div Spt, n % Spt) = base + w + z
        BY <3>3 DEF Stored
      <4> HIDE DEF w, z
      <4> QED BY <3>1, <3>2, <4>1, <2>1
    <3>4. CASE kind = "ssd"
      <4>1. Stored(side, n \div Spt, n % Spt) = w + z /\ base = 0
        BY <3>4 DEF Stored
      <4> HIDE DEF w, z, base
      <4> QED BY <3>1, <3>2, <4>1
    <3> QED BY <1>4, <3>3, <3>4 DEF FileTyped
  <2> HIDE DEF base
  <2>3. base + ((i - 1) * SideSectors + b) = base + ((j - 1) * SideSectors + c)
    <3>1. Stored(i - 1, b \div Spt, b % Spt) = base + ((i - 1) * SideSectors + b)
      BY <1>1, <2>2
    <3>2. Stored(j - 1, c \div Spt, c % Spt) = base + ((j - 1) * SideSectors + c)
      BY <1>1, <2>2
    <3> QED BY <3>1, <3>2
  <2>4. (i - 1) * SideSectors \in Nat /\ (j - 1) * SideSectors \in Nat
    BY <1>1
  <2>5. (i - 1) * SideSectors + b = (j - 1) * SideSectors + c
    BY <2>1, <2>3, <2>4
  <2>6. i - 1 = j - 1 /\ b = c
    BY <1>1, <2>5, OneWay
  <2> QED BY <1>1, <2>6
<1> QED BY <1>3, <1>4

LEMMA ShownOnce == ASSUME ReadInv, Len(views) <= ViewCount PROVE NothingShownTwice
<1> SUFFICES ASSUME NEW i \in DOMAIN views, NEW j \in DOMAIN views,
                    NEW b \in 0..views[i].total - 1, NEW c \in 0..views[j].total - 1,
                    views[i].take # 0, views[j].take # 0,
                    Position(views[i], b) = Position(views[j], c)
             PROVE  i = j /\ b = c
  BY DEF NothingShownTwice
<1>1. /\ FileTyped /\ i \in Nat \ {0} /\ j \in Nat \ {0}
      /\ views[i] = ViewOf(i) /\ views[j] = ViewOf(j)
      /\ i <= Len(views) /\ j <= Len(views) /\ Len(views) \in Nat
  BY DEF ReadInv, Viewed
<1>2. kind = "dsd" => i <= 2 /\ j <= 2
  BY <1>1 DEF ViewCount
<1>3. ASSUME NEW n \in Nat \ {0}, ViewOf(n).take # 0
      PROVE  (kind # "mmb" \/ n - 1 \in present) /\ ViewOf(n).total = SideSectors
  BY <1>1, <1>3
     DEF FileTyped, ViewOf, NonInterleavedSide, InterleavedSide, MmbDisc, View, Unformatted
<1>4. /\ kind # "mmb" \/ i - 1 \in present
      /\ kind # "mmb" \/ j - 1 \in present
      /\ views[i].total = SideSectors /\ views[j].total = SideSectors
  BY <1>1, <1>3
<1>5. b \in Nat /\ b < SideSectors /\ c \in Nat /\ c < SideSectors
  BY <1>1, <1>4, Sides
<1>6. /\ Position(ViewOf(i), b) = Stored(i - 1, b \div Spt, b % Spt)
      /\ Position(ViewOf(j), c) = Stored(j - 1, c \div Spt, c % Spt)
  BY <1>1, <1>4, <1>5, FoundWhereKept
<1> QED BY <1>1, <1>2, <1>5, <1>6, StoredOnce

----------------------------------------------------------------------------
(* dump-sector, and the types *)

Bounded ==
  /\ pc \in {"opening", "connected", "unusable"}
  /\ cylinders <= MaxCylinders /\ heads \in 1..2 /\ present \subseteq Slots
  /\ Len(views) <= ViewCount
  /\ answer \in [view : Nat, block : Nat, got : Nat \cup {Missing}]
  /\ asked \in [track : Argument, sector : Argument]

FullInv == ReadInv /\ Bounded /\ DumpsThatSector

LEMMA FullIsInv == FullInv => Inv
<1> SUFFICES ASSUME FullInv PROVE Inv
  OBVIOUS
<1>1. NothingShownTwice
  BY ShownOnce DEF FullInv, Bounded
<1>2. TypeOK
  BY DEF FullInv, Bounded, ReadInv, FileTyped, Viewed, Cached, TypeOK, ViewRecord, Place
<1> QED BY <1>1, <1>2 DEF FullInv, ReadInv, Inv

LEMMA NothingTyped == Nothing \in [track : Argument, sector : Argument]
                      /\ NotAsked \in [view : Nat, block : Nat, got : Nat \cup {Missing}]
<1>1. -1 \in Argument
  BY SizesAssumption DEF Argument
<1> QED BY <1>1 DEF Nothing, NotAsked

LEMMA InitFull == Init => FullInv
<1> SUFFICES ASSUME Init PROVE FullInv
  OBVIOUS
<1>1. ReadInv
  BY InitReads
<1>2. asked = Nothing /\ answer = NotAsked /\ views = <<>> /\ pc = "opening"
  BY DEF Init
<1>3. cylinders <= MaxCylinders /\ heads \in 1..2 /\ present \subseteq Slots
  BY SizesAssumption DEF Init
<1>4. Len(views) <= ViewCount
  <2>1. CatSectors * SectorEntries \in Nat \ {0}
    <3>1. \A a, b \in Nat \ {0} : a * b \in Nat \ {0}
      BY Z3
    <3> QED BY <3>1, SizesAssumption
  <2>2. Len(views) = 0
    BY <1>2
  <2>3. CASE kind = "ssd"
    BY <1>3, <2>2, <2>3 DEF ViewCount
  <2>4. CASE kind = "dsd"
    BY <2>2, <2>4 DEF ViewCount
  <2>5. CASE kind = "mmb"
    BY <2>1, <2>2, <2>5 DEF ViewCount
  <2> QED BY <2>3, <2>4, <2>5 DEF Init
<1>5. Bounded
  BY <1>2, <1>3, <1>4, NothingTyped DEF Bounded
<1>6. DumpsThatSector
  BY <1>2 DEF DumpsThatSector, Nothing
<1> QED BY <1>1, <1>5, <1>6 DEF FullInv

(* The block number of a track and sector that are on the disc is that of the sector. *)
LEMMA BlockOfSector ==
  ASSUME FileTyped, cylinders <= MaxCylinders, NEW t \in Nat, NEW s \in Nat, t < cylinders, s < Spt
  PROVE  LET b == (t * Spt + s) % Wrap
         IN  b \in Nat /\ b \div Spt = t /\ b % Spt = s
<1>1. Spt \in Nat \ {0} /\ cylinders \in Nat /\ MaxCylinders \in Nat
  BY SizesAssumption DEF FileTyped
<1> DEFINE n == t * Spt + s
<1>2. n \in Nat
  BY <1>1
<1>3. n < MaxCylinders * Spt
  <2>1. PICK k \in Nat : MaxCylinders = t + 1 + k
    <3>1. MaxCylinders - t - 1 \in Nat /\ MaxCylinders = t + 1 + (MaxCylinders - t - 1)
      BY <1>1
    <3> QED BY <3>1
  <2>2. MaxCylinders * Spt = (t * Spt) + Spt + (k * Spt)
    BY <1>1, <2>1
  <2>3. k * Spt \in Nat /\ t * Spt \in Nat
    BY <1>1
  <2> QED BY <1>1, <2>2, <2>3
<1>4. MaxCylinders * Spt \in Nat /\ Wrap \in Nat /\ n < Wrap
  BY <1>1, <1>2, <1>3, WrapAssumption
<1>5. n % Wrap = n
  BY <1>2, <1>4, WithinOne
<1>6. n = ((n \div Spt) * Spt) + (n % Spt) /\ n \div Spt \in Nat /\ n % Spt \in Nat /\ n % Spt < Spt
  BY <1>1, <1>2, Quotient
<1> DEFINE q == n \div Spt
           r == n % Spt
<1>7. t = q /\ s = r
  <2>1. t * Spt + s = q * Spt + r
    BY <1>6
  <2>2. q \in Nat /\ r \in Nat /\ r < Spt
    BY <1>6
  <2> HIDE DEF q, r
  <2> QED BY <1>1, <2>1, <2>2, OneWay
<1> QED BY <1>2, <1>5, <1>7

(* What a read leaves, dump-sector's included. *)
LEMMA ReadBounded ==
  ASSUME FullInv, NEW i \in DOMAIN views, NEW b \in Nat, CachedRead(i, b),
         asked' \in [track : Argument, sector : Argument]
  PROVE  /\ Bounded'
         /\ answer'.view = i /\ answer'.got = SectorOf(i, b)
<1> DEFINE got == IF Has(i, b) THEN cache[i][b] ELSE ViewRead(views[i], b)
<1>1. /\ pc = "connected" /\ UNCHANGED <<pc, views>> /\ UNCHANGED file
      /\ answer' = [view |-> i, block |-> b, got |-> got]
  BY DEF CachedRead
<1>2. /\ i \in Nat \ {0} /\ views[i] = ViewOf(i) /\ views[i] \in ViewRecord
      /\ Len(cache) = Len(views) /\ i \in DOMAIN cache /\ FileTyped
  BY <1>1 DEF FullInv, ReadInv, Viewed, Cached
<1>3. got = ViewRead(views[i], b)
  BY <1>2 DEF FullInv, ReadInv, CacheCoherent, Has
<1>4. got \in Nat \cup {Missing} /\ got = SectorOf(i, b)
  BY <1>2, <1>3, ReadTyped, ViewShowsTheSector
<1> HIDE DEF got
<1>5. answer' \in [view : Nat, block : Nat, got : Nat \cup {Missing}]
  BY <1>1, <1>2, <1>4
<1>6. ViewCount' = ViewCount
  BY <1>1 DEF ViewCount, file
<1> QED BY <1>1, <1>4, <1>5, <1>6 DEF FullInv, Bounded, file

(* Nothing of what dump-sector was asked and answered changes. *)
LEMMA AskedStays ==
  ASSUME FullInv, UNCHANGED <<file, answer, asked>>, Len(views') <= ViewCount,
         pc' \in {"opening", "connected", "unusable"}
  PROVE  Bounded' /\ DumpsThatSector'
<1>1. UNCHANGED <<kind, cylinders, heads, length, present>>
  BY DEF file
<1>2. ViewCount' = ViewCount
  BY <1>1 DEF ViewCount
<1>3. Bounded'
  BY <1>1, <1>2 DEF FullInv, Bounded
<1>4. \A i, t, s : Held(i, t, s)' = Held(i, t, s)
  BY <1>1 DEF Held, Stored
<1>5. DumpsThatSector'
  BY <1>1, <1>4 DEF FullInv, DumpsThatSector
<1> QED BY <1>3, <1>5

LEMMA OpenFull == ASSUME FullInv, Open PROVE Bounded' /\ DumpsThatSector'
<1>1. UNCHANGED <<file, answer, asked>>
  BY DEF Open, AddNonInterleavedSide, AddInterleavedSide, AddSide, AddMmbSlot, MmbTooShort,
         ConnectDrives
<1>2. pc' \in {"opening", "connected", "unusable"}
  BY DEF Open, AddNonInterleavedSide, AddInterleavedSide, AddSide, AddMmbSlot, MmbTooShort,
         ConnectDrives
<1>3. views \in Seq(ViewRecord) /\ Len(views) \in Nat /\ Len(views) <= ViewCount /\ FileTyped
  BY DEF FullInv, ReadInv, Viewed, Bounded
<1>4. heads \in 1..2 /\ CatSectors * SectorEntries \in Nat
  BY SizesAssumption DEF FullInv, Bounded
<1>5. Len(views') <= ViewCount
  <2>1. CASE AddNonInterleavedSide
    <3>1. kind = "ssd" /\ Len(views') = Len(views) + 1 /\ Len(views) < heads
      BY <1>3, <2>1 DEF AddNonInterleavedSide, AddSide
    <3> QED BY <1>3, <1>4, <3>1 DEF ViewCount
  <2>2. CASE AddInterleavedSide
    <3>1. kind = "dsd" /\ Len(views') = Len(views) + 1 /\ Len(views) < 2
      BY <1>3, <2>2 DEF AddInterleavedSide, AddSide
    <3> QED BY <1>3, <3>1 DEF ViewCount
  <2>3. CASE AddMmbSlot
    <3>1. /\ kind = "mmb" /\ Len(views) \in Slots /\ pc = "opening"
          /\ views' = views \o MmbSlot(Len(views))
      BY <2>3 DEF AddMmbSlot
    <3>2. Len(MmbSlot(Len(views))) = 1
      BY DEF MmbSlot
    <3>3. MmbSlot(Len(views)) \in Seq(ViewRecord)
      <4>1. /\ MmbDisc(Len(views)) = ViewOf(Len(views) + 1) \/ Len(views) \notin present
            /\ Unformatted \in ViewRecord
        BY <1>3, <3>1 DEF ViewOf, Unformatted, View, ViewRecord
      <4>2. ViewOf(Len(views) + 1) \in ViewRecord
        BY <1>3, ViewOfTyped
      <4> QED BY <4>1, <4>2 DEF MmbSlot
    <3>4. Len(views') = Len(views) + 1
      <4> DEFINE slot == MmbSlot(Len(views))
      <4>1. views \in Seq(ViewRecord) /\ slot \in Seq(ViewRecord) /\ Len(slot) = 1
            /\ views' = views \o slot
        BY <1>3, <3>1, <3>2, <3>3
      <4> HIDE DEF slot
      <4>2. Len(views \o slot) = Len(views) + Len(slot)
        BY <4>1, ConcatProperties
      <4> QED BY <4>1, <4>2
    <3> QED BY <1>3, <1>4, <3>1, <3>4 DEF ViewCount, Slots
  <2>4. CASE MmbTooShort \/ ConnectDrives
    BY <1>3, <2>4 DEF MmbTooShort, ConnectDrives
  <2> QED BY <2>1, <2>2, <2>3, <2>4 DEF Open
<1> QED BY <1>1, <1>2, <1>5, AskedStays

LEMMA StepFull == FullInv /\ [Next]_vars => FullInv'
<1> SUFFICES ASSUME FullInv, [Next]_vars PROVE FullInv'
  OBVIOUS
<1>1. ReadInv'
  BY StepReads DEF FullInv
<1>2. CASE Open
  BY <1>1, <1>2, OpenFull DEF FullInv
<1>3. ASSUME NEW i \in DOMAIN views, NEW b \in 0..views[i].total, ReadBlock(i, b)
      PROVE  FullInv'
  <2>1. views[i].total \in Nat
    <3>1. views[i] \in ViewRecord
      BY DEF FullInv, ReadInv, Viewed
    <3> QED BY <3>1 DEF ViewRecord
  <2>2. b \in Nat /\ CachedRead(i, b) /\ asked' = Nothing
    BY <1>3, <2>1 DEF ReadBlock
  <2>3. Bounded'
    BY <2>2, NothingTyped, ReadBounded
  <2>4. DumpsThatSector'
    BY <2>2 DEF DumpsThatSector, Nothing
  <2> QED BY <1>1, <2>3, <2>4 DEF FullInv
<1>4. ASSUME NEW i \in DOMAIN views, NEW track \in Argument, NEW sector \in Argument,
             DumpSector(i, track, sector)
      PROVE  FullInv'
  <2> DEFINE b == (track * Spt + sector) % Wrap
  <2>1. CachedRead(i, b) /\ asked' = [track |-> track, sector |-> sector]
        /\ track <= cylinders - 1 /\ sector <= Spt - 1
    BY <1>4 DEF DumpSector, Acceptable
  <2>2. b \in Nat
    <3>1. track \in Int /\ sector \in Int
      BY SizesAssumption DEF Argument
    <3>2. track * Spt + sector \in Int /\ Wrap \in Nat \ {0}
      <4>1. MaxCylinders * Spt \in Nat
        BY SizesAssumption
      <4>2. track * Spt \in Int
        BY <3>1, SizesAssumption
      <4> QED BY <3>1, <4>1, <4>2, WrapAssumption
    <3> QED BY <3>2
  <2>3. UNCHANGED file /\ FileTyped /\ cylinders <= MaxCylinders /\ i \in Nat \ {0}
    BY <2>1 DEF CachedRead, FullInv, Bounded, ReadInv, Viewed
  <2>4. ASSUME track >= 0, sector >= 0
        PROVE  b \div Spt = track /\ b % Spt = sector
    <3>1. track \in Nat /\ sector \in Nat /\ track < cylinders /\ sector < Spt
      BY <2>1, <2>3, <2>4, SizesAssumption DEF Argument, FileTyped
    <3> QED BY <2>3, <3>1, BlockOfSector
  <2> HIDE DEF b
  <2>5. Bounded' /\ answer'.view = i /\ answer'.got = SectorOf(i, b)
    BY <2>1, <2>2, ReadBounded
  <2>6. DumpsThatSector'
    <3> SUFFICES ASSUME track >= 0, sector >= 0
                 PROVE  /\ track < cylinders' /\ sector < Spt
                        /\ answer'.view # 0
                        /\ answer'.got \in {Missing, Held(answer.view - 1, track, sector)'}
      BY <2>1 DEF DumpsThatSector
    <3>1. track < cylinders' /\ sector < Spt
      BY <2>1, <2>3, SizesAssumption DEF file, FileTyped, Argument
    <3>2. SectorOf(i, b) \in {Missing, Held(i - 1, track, sector)}
      BY <2>4 DEF SectorOf
    <3>3. Held(answer.view - 1, track, sector)' = Held(i - 1, track, sector)
      BY <2>3, <2>5 DEF Held, Stored, file
    <3> QED BY <2>3, <2>5, <3>1, <3>2, <3>3
  <2> QED BY <1>1, <2>5, <2>6 DEF FullInv
<1>5. ASSUME NEW i \in DOMAIN views, NEW track \in Argument, NEW sector \in Argument,
             DumpRefused(i, track, sector)
      PROVE  FullInv'
  <2>1. /\ UNCHANGED <<pc, views, cache>> /\ UNCHANGED file /\ answer' = NotAsked
        /\ asked' = [track |-> track, sector |-> sector]
        /\ ~(track <= cylinders - 1 /\ sector <= Spt - 1)
    BY <1>5 DEF DumpRefused, Acceptable
  <2>2. ViewCount' = ViewCount
    BY <2>1 DEF ViewCount, file
  <2>3. asked' \in [track : Argument, sector : Argument]
    BY <2>1
  <2>4. Bounded'
    BY <2>1, <2>2, <2>3, NothingTyped DEF FullInv, Bounded, file
  <2>5. ~(track < cylinders' /\ sector < Spt)
    <3>1. cylinders' = cylinders /\ cylinders \in Nat /\ Spt \in Nat
      BY <2>1, SizesAssumption DEF file, FullInv, ReadInv, FileTyped
    <3>2. track \in Int /\ sector \in Int
      BY SizesAssumption DEF Argument
    <3> QED BY <2>1, <3>1, <3>2
  <2>6. DumpsThatSector'
    BY <2>1, <2>5 DEF DumpsThatSector
  <2> QED BY <1>1, <2>4, <2>6 DEF FullInv
<1>6. CASE UNCHANGED vars
  <2>1. UNCHANGED <<file, answer, asked>> /\ UNCHANGED <<pc, views>>
    BY <1>6 DEF vars, file
  <2>2. Len(views') <= ViewCount /\ pc' \in {"opening", "connected", "unusable"}
    BY <2>1 DEF FullInv, Bounded
  <2> QED BY <1>1, <2>1, <2>2, AskedStays DEF FullInv
<1> QED BY <1>2, <1>3, <1>4, <1>5, <1>6 DEF Next

\* For files of any geometry and length: the types hold, no sector of the file is shown by two
\* drives or twice by one, the cache tells the truth, and dump-sector with a track and a sector
\* of the disc shows that sector (the constructors in img_sdf.cc and img_mmb.cc, and cmd_dump.cc).
THEOREM SectorsApart == Spec => []Inv
  BY FullIsInv, InitFull, StepFull, PTL DEF Spec
----------------------------------------------------------------------------
(* What an image is taken for.                                              *)

\* The format and the count that a file is found to have.
FileFormat ==
  IF Bit3 THEN "HDFS" ELSE IF SmellsLikeWatford THEN "WDFS"
  ELSE IF SmellsLikeOpusDdos(16) THEN "OpusDDOS" ELSE "DFS"
FileTotal ==
  CASE FileFormat = "HDFS" -> GetHdfsSectorCount
    [] FileFormat = "OpusDDOS" -> disc.total
    [] OTHER -> GetDfsSectorCount

\* What of the layout that is taken the properties rest on.
LayoutRight(c) ==
  /\ SideSectorsOf(c) >= disc.total
  /\ InterleavedFile /\ ~(disc.gz /\ disc.sectors = 16) => c.sectors = disc.sectors
  /\ disc.format = "OpusDDOS" => c.sectors = 18 /\ SideSectorsOf(c) = disc.total

Counted == Supported \/ disc.format = "OpusDDOS"

LargeEnoughOnes == {c \in Candidates : LargeEnough(c)}
WithOtherCatalog ==
  IF Cardinality(LargeEnoughOnes) > 1
  THEN {c \in LargeEnoughOnes : OtherSideHasCatalogToo(c)} ELSE LargeEnoughOnes

Probing == {"hdfs", "watford", "opus", "acorn"}
Looking == {"geometry", "other side", "pick", "mount", "mounted", "bad file system",
            "assertion failed"}
AtMount == {"mount", "mounted", "bad file system", "assertion failed"}

\* Whole discs: named as the manual says, with a catalogue wherever one can be.
Ideal ==
  Conventional /\ ~TakenForAcorn /\ (disc.heads = 1 \/ disc.second) /\ Supported

DiscRight == disc \in Disc /\ Formatted(disc)

IdTypes ==
  /\ stage \in Probing \cup {"geometry", "other side", "pick", "mount"} \cup Outcome
  /\ format \in Format /\ total \in Nat /\ possible \subseteq Layout
  /\ chosen = {} \/ \E c \in Layout : chosen = {c}

ChosenRight ==
  \A c \in chosen : c \in MakeCandidateList /\ (Conventional /\ Counted => LayoutRight(c))

FoundRight ==
  /\ (stage \in Looking /\ chosen = {}) \/ (chosen # {} /\ Conventional)
       => format = FileFormat /\ total = FileTotal
  /\ stage = "watford" => ~Bit3
  /\ stage = "opus" => ~Bit3 /\ ~SmellsLikeWatford
  /\ stage = "acorn" => ~Bit3 /\ ~SmellsLikeWatford /\ ~SmellsLikeOpusDdos(Sector16)

\* What is found through a view is, in this respect, what the probes say.
CountRight == stage \in Looking => (format = "HDFS" /\ total = GetHdfsSectorCount)
  \/ (format = "OpusDDOS" /\ total = disc.total /\ disc.format = "OpusDDOS")
  \/ (format \in {"DFS", "WDFS"} /\ total = GetDfsSectorCount)

PossibleRight ==
  /\ stage = "other side" => possible = LargeEnoughOnes
  /\ stage = "pick" => possible = WithOtherCatalog
  /\ stage \in AtMount => chosen # {} /\ possible # {} /\ possible = LargeEnoughOnes

IdInv ==
  /\ DiscRight /\ IdTypes /\ ChosenRight /\ FoundRight /\ CountRight /\ PossibleRight
  /\ Ideal => stage \notin Outcome \ {"mounted"}

LEMMA LayoutTotals ==
  ASSUME NEW c \in Layout
  PROVE  /\ c.cylinders \in {35, 40, 80} /\ c.heads \in {1, 2} /\ c.sectors \in {10, 16, 18}
         /\ c.interleaved \in BOOLEAN
         /\ c.sectors = 10 => SideSectorsOf(c) \in {350, 400, 800}
         /\ c.sectors = 16 => SideSectorsOf(c) \in {560, 640, 1280}
         /\ c.sectors = 18 => SideSectorsOf(c) \in {630, 720, 1440}
         /\ c.heads = 1 => TotalSectors(c) = SideSectorsOf(c)
         /\ c.heads = 2 => TotalSectors(c) = 2 * SideSectorsOf(c)
<1>1. c.cylinders \in {35, 40, 80} /\ c.heads \in {1, 2} /\ c.sectors \in {10, 16, 18}
      /\ c.interleaved \in BOOLEAN
  BY DEF Layout
<1>2. CASE c.cylinders = 35
  BY <1>1, <1>2 DEF SideSectorsOf, TotalSectors
<1>3. CASE c.cylinders = 40
  BY <1>1, <1>3 DEF SideSectorsOf, TotalSectors
<1>4. CASE c.cylinders = 80
  BY <1>1, <1>4 DEF SideSectorsOf, TotalSectors
<1> QED BY <1>1, <1>2, <1>3, <1>4

LEMMA TrueLayoutFacts ==
  ASSUME DiscRight
  PROVE  /\ TrueLayout \in Layout
         /\ disc.format # "HDFS" => disc.total = SideSectorsOf(TrueLayout)
         /\ disc.format = "HDFS" => disc.total = TotalSectors(TrueLayout)
         /\ disc.format \in {"DFS", "HDFS"} => SideSectorsOf(TrueLayout) < 1024
         /\ disc.format = "OpusDDOS" => disc.sectors = 18
         /\ ImageSectors = TotalSectors(TrueLayout)
<1> USE DEF DiscRight, Disc, TrueLayout
<1>1. TrueLayout \in Layout
  BY DEF Layout
<1>2. disc.cylinders \in {35, 40, 80} /\ disc.heads \in {1, 2} /\ disc.sectors \in {10, 16, 18}
  OBVIOUS
<1>3. SideSectorsOf(TrueLayout) = disc.cylinders * disc.sectors
  BY DEF SideSectorsOf
<1>4. disc.total = disc.cylinders * disc.sectors * (IF disc.format = "HDFS" THEN disc.heads ELSE 1)
  BY DEF Formatted
<1>5. disc.format # "HDFS" => disc.total = SideSectorsOf(TrueLayout)
  BY <1>2, <1>3, <1>4
<1>6. TotalSectors(TrueLayout) = disc.cylinders * disc.heads * disc.sectors
  BY DEF TotalSectors
<1>7. disc.cylinders * disc.heads * disc.sectors = disc.cylinders * disc.sectors * disc.heads
  BY <1>2
<1> QED BY <1>1, <1>3, <1>4, <1>5, <1>6, <1>7 DEF Formatted, ImageSectors

LEMMA Counts ==
  ASSUME DiscRight
  PROVE  /\ TenBits \in Nat /\ TenBits > 2
         /\ GetHdfsSectorCount \in Nat /\ GetDfsSectorCount \in Nat
         /\ Supported /\ disc.format = "HDFS" => ~Bit2 /\ GetHdfsSectorCount = disc.total
         /\ Supported /\ disc.format \in {"DFS", "WDFS"} => GetDfsSectorCount = disc.total
         /\ Supported /\ Bit2 => disc.format = "WDFS"
         /\ disc.total \in Nat /\ disc.total > 2
<1> DEFINE s == SideSectorsOf(TrueLayout)
<1>1. s \in {350, 400, 800, 560, 640, 1280, 630, 720, 1440}
      /\ TotalSectors(TrueLayout) \in {s, 2 * s}
      /\ (disc.heads = 1 => TotalSectors(TrueLayout) = s)
      /\ (disc.heads = 2 => TotalSectors(TrueLayout) = 2 * s)
      /\ disc.heads \in {1, 2}
  BY TrueLayoutFacts, LayoutTotals DEF TrueLayout
<1>2. disc.format \in Format
  BY DEF DiscRight, Disc
<1>3. CASE disc.format \in {"DFS", "WDFS"}
  <2>1. StoredTotal = s /\ disc.total = s /\ (disc.format = "DFS" => s < 1024)
    BY <1>3, TrueLayoutFacts DEF StoredTotal, TwoSidedHdfs
  <2> HIDE DEF s
  <2> QED BY <1>1, <1>3, <2>1 DEF TenBits, Bit2, GetHdfsSectorCount, GetDfsSectorCount,
             Supported, TwoSidedHdfs
<1>4. CASE disc.format = "OpusDDOS"
  <2>1. StoredTotal = s \div 2 /\ disc.total = s
    BY <1>4, TrueLayoutFacts DEF StoredTotal, TwoSidedHdfs
  <2> HIDE DEF s
  <2> QED BY <1>1, <1>4, <2>1 DEF TenBits, Bit2, GetHdfsSectorCount, GetDfsSectorCount,
             Supported, TwoSidedHdfs
<1>5. CASE disc.format = "HDFS"
  <2>1. StoredTotal = s /\ disc.total = TotalSectors(TrueLayout) /\ s < 1024
    BY <1>1, <1>5, TrueLayoutFacts DEF StoredTotal, TwoSidedHdfs
  <2> HIDE DEF s
  <2> QED BY <1>1, <1>5, <2>1 DEF TenBits, Bit2, GetHdfsSectorCount, GetDfsSectorCount,
             Supported, TwoSidedHdfs
<1> QED BY <1>2, <1>3, <1>4, <1>5 DEF Format

\* What sector 1 of an Opus DDOS disc says of volume A is less than the disc.
LEMMA OpusCount ==
  ASSUME DiscRight, disc.format = "OpusDDOS"
  PROVE  TenBits <= disc.total
<1>1. StoredTotal = disc.total \div 2 /\ disc.total \in Nat
  BY Counts DEF StoredTotal, TwoSidedHdfs
<1> QED BY <1>1 DEF TenBits

LEMMA WhatIsFound ==
  ASSUME DiscRight
  PROVE  /\ FileFormat \in Format /\ FileTotal \in Nat
         /\ FileFormat = "HDFS" <=> disc.format = "HDFS"
         /\ ~TakenForAcorn => FileFormat = disc.format
         /\ disc.format = "OpusDDOS" => FileFormat = "OpusDDOS"
         /\ FileFormat = "OpusDDOS" => disc.format = "OpusDDOS"
         /\ Counted => FileTotal = disc.total
<1>1. disc.format \in Format /\ disc.starts \subseteq Nat /\ disc.marked \in BOOLEAN
  BY DEF DiscRight, Disc
<1>2. /\ disc.format = "WDFS" => disc.marked /\ 2 \notin disc.starts
      /\ disc.format # "WDFS" /\ disc.marked => 2 \in disc.starts
  BY DEF DiscRight, Formatted
<1>3. disc.format # "WDFS" => ~SmellsLikeWatford
  <2>1. 2 % 256 = 2
    OBVIOUS
  <2> QED BY <1>1, <1>2, <2>1 DEF SmellsLikeWatford
<1>4. disc.format = "WDFS" /\ ~TakenForAcorn => SmellsLikeWatford
  BY <1>1, <1>2 DEF SmellsLikeWatford, TakenForAcorn
<1>5. disc.format = "OpusDDOS" => SmellsLikeOpusDdos(16)
  <2> SUFFICES ASSUME disc.format = "OpusDDOS" PROVE SmellsLikeOpusDdos(16)
    OBVIOUS
  <2>1. disc.total \in {630, 720, 1440} /\ disc.total <= ImageSectors
    BY TrueLayoutFacts, LayoutTotals DEF TrueLayout
  <2> QED BY <2>1 DEF SmellsLikeOpusDdos
<1>6. disc.format # "OpusDDOS" => ~SmellsLikeOpusDdos(16)
  BY DEF SmellsLikeOpusDdos
<1>7. Bit3 <=> disc.format = "HDFS"
  BY DEF Bit3
<1>8. /\ FileFormat \in Format
      /\ FileFormat = "HDFS" <=> disc.format = "HDFS"
      /\ ~TakenForAcorn => FileFormat = disc.format
      /\ disc.format = "OpusDDOS" <=> FileFormat = "OpusDDOS"
  BY <1>1, <1>3, <1>4, <1>5, <1>6, <1>7 DEF FileFormat, Format
<1>9. FileTotal \in Nat
  BY <1>8, Counts DEF FileTotal
<1>10. Counted => FileTotal = disc.total
  BY <1>1, <1>8, Counts DEF FileTotal, Counted, Format
<1> QED BY <1>8, <1>9, <1>10

LEMMA CandidatesAreLayouts ==
  ASSUME IdTypes
  PROVE  /\ Candidates \subseteq Layout /\ MakeCandidateList \subseteq Layout
         /\ LargeEnoughOnes \subseteq Layout /\ WithOtherCatalog \subseteq LargeEnoughOnes
<1>1. MakeCandidateList \subseteq Layout
  BY DEF MakeCandidateList
<1>2. \A c \in Layout : [c EXCEPT !.heads = 1, !.interleaved = FALSE] \in Layout
  BY DEF Layout
<1>3. Candidates \subseteq Layout
  BY <1>1, <1>2 DEF Candidates, IdTypes
<1> QED BY <1>1, <1>3 DEF LargeEnoughOnes, WithOtherCatalog

LEMMA EnoughForDisc ==
  ASSUME DiscRight, Counted, format = FileFormat, total = FileTotal, NEW c \in Layout
  PROVE  LargeEnough(c) <=> SideSectorsOf(c) >= disc.total
<1>1. SingleSidedFilesystem
  BY WhatIsFound, Counts DEF SingleSidedFilesystem, Counted
<1> QED BY <1>1, WhatIsFound DEF LargeEnough

OneSided == [TrueLayout EXCEPT !.heads = 1, !.interleaved = FALSE]

\* The right layout, and the same of one side alone, are among those to choose from.
LEMMA RightCandidates ==
  ASSUME DiscRight, Conventional, Counted, chosen = {},
         format = FileFormat, total = FileTotal
  PROVE  /\ SideSectorsOf(TrueLayout) = disc.total
         /\ TrueLayout \in LargeEnoughOnes /\ TrueLayout \in Layout
         /\ disc.gz \/ ~InterleavedFile =>
              /\ OneSided \in LargeEnoughOnes /\ OneSided \in Layout
              /\ TotalSectors(OneSided) = disc.total /\ OneSided.sectors = disc.sectors
<1>1. TrueLayout \in Layout
  BY TrueLayoutFacts
<1>2. SideSectorsOf(TrueLayout) = disc.total
  <2>1. CASE disc.format # "HDFS"
    BY <2>1, TrueLayoutFacts
  <2>2. CASE disc.format = "HDFS"
    <3>1. disc.heads = 1
      BY <1>1, <2>2, LayoutTotals DEF Counted, Supported, TwoSidedHdfs, TrueLayout
    <3> QED BY <1>1, <2>2, <3>1, TrueLayoutFacts, LayoutTotals DEF TrueLayout
  <2> QED BY <2>1, <2>2
<1>3. disc.ext \in {"ssd", "sdd", "dsd", "ddd"} /\ disc.gz \in BOOLEAN
  BY DEF DiscRight, Disc
<1>4. Candidates = MakeCandidateList
  BY DEF Candidates
<1>5. TrueLayout \in MakeCandidateList
  BY <1>1, <1>3 DEF MakeCandidateList, TrueLayout, Conventional, InterleavedFile
<1>6. SideSectorsOf(TrueLayout) >= disc.total
  BY <1>1, <1>2, LayoutTotals
<1>7. TrueLayout \in LargeEnoughOnes
  BY <1>1, <1>4, <1>5, <1>6, EnoughForDisc DEF LargeEnoughOnes
<1>8. ASSUME disc.gz \/ ~InterleavedFile
      PROVE  /\ OneSided \in LargeEnoughOnes /\ OneSided \in Layout
             /\ TotalSectors(OneSided) = disc.total /\ OneSided.sectors = disc.sectors
  <2>1. OneSided \in Layout /\ OneSided.heads = 1 /\ OneSided.sectors = disc.sectors
        /\ OneSided.cylinders = disc.cylinders /\ ~OneSided.interleaved
    BY <1>1 DEF OneSided, TrueLayout, Layout
  <2>2. OneSided \in MakeCandidateList
    BY <1>3, <1>8, <2>1 DEF MakeCandidateList, Conventional, InterleavedFile
  <2>3. SideSectorsOf(OneSided) = disc.total
    BY <1>2, <2>1 DEF SideSectorsOf, TrueLayout
  <2>4. TotalSectors(OneSided) = disc.total
    BY <2>1, <2>3, LayoutTotals
  <2>5. SideSectorsOf(OneSided) >= disc.total
    BY <1>2, <1>6, <2>3
  <2> QED BY <1>4, <2>1, <2>2, <2>4, <2>5, EnoughForDisc DEF LargeEnoughOnes
<1> QED BY <1>1, <1>2, <1>7, <1>8

LEMMA FiniteLayouts ==
  /\ IsFiniteSet(Layout)
  /\ \A S \in SUBSET Layout :
       /\ IsFiniteSet(S) /\ Cardinality(S) \in Nat
       /\ Cardinality(S) <= 1 => \A x, y \in S : x = y
<1> DEFINE D == ({35, 40, 80} \X {1, 2}) \X ({10, 16, 18} \X BOOLEAN)
           F == [d \in D |-> [cylinders |-> d[1][1], heads |-> d[1][2],
                              sectors |-> d[2][1], interleaved |-> d[2][2]]]
<1>1. IsFiniteSet({35, 40, 80}) /\ IsFiniteSet({1, 2}) /\ IsFiniteSet({10, 16, 18})
      /\ IsFiniteSet(BOOLEAN)
  <2>1. ASSUME NEW x, NEW y PROVE IsFiniteSet({x, y})
    <3>1. IsFiniteSet({x} \cup {y}) /\ {x} \cup {y} = {x, y}
      BY FS_Singleton, FS_AddElement
    <3> QED BY <3>1
  <2>2. ASSUME NEW x, NEW y, NEW z PROVE IsFiniteSet({x, y, z})
    <3>1. IsFiniteSet({x, y} \cup {z}) /\ {x, y} \cup {z} = {x, y, z}
      BY <2>1, FS_AddElement
    <3> QED BY <3>1
  <2>3. BOOLEAN = {TRUE, FALSE}
    OBVIOUS
  <2>4. IsFiniteSet(BOOLEAN)
    BY <2>1, <2>3
  <2> QED BY <2>1, <2>2, <2>4
<1>2. IsFiniteSet(D)
  BY <1>1, FS_Product
<1>3. F \in [D -> Layout]
  BY DEF Layout
<1>4. \A c \in Layout : \E d \in D : F[d] = c
  <2> SUFFICES ASSUME NEW c \in Layout PROVE \E d \in D : F[d] = c
    OBVIOUS
  <2>1. <<<<c.cylinders, c.heads>>, <<c.sectors, c.interleaved>>>> \in D
    BY DEF Layout
  <2>2. F[<<<<c.cylinders, c.heads>>, <<c.sectors, c.interleaved>>>>] = c
    BY <2>1 DEF Layout
  <2> QED BY <2>1, <2>2
<1>5. IsFiniteSet(Layout)
  <2> HIDE DEF D, F
  <2>1. F \in Surjection(D, Layout)
    BY <1>3, <1>4 DEF Surjection
  <2> QED BY <1>2, <2>1, FS_Surjection
<1>6. ASSUME NEW S \in SUBSET Layout
      PROVE  /\ IsFiniteSet(S) /\ Cardinality(S) \in Nat
             /\ Cardinality(S) <= 1 => \A x, y \in S : x = y
  <2>1. IsFiniteSet(S) /\ Cardinality(S) \in Nat
    BY <1>5, FS_Subset, FS_CardinalityType
  <2>2. ASSUME Cardinality(S) <= 1, NEW x \in S, NEW y \in S, x # y PROVE FALSE
    <3>1. {x, y} \subseteq S /\ Cardinality({x, y}) = 2
      <4>1. Cardinality({x}) = 1 /\ IsFiniteSet({x})
        BY FS_Singleton
      <4>2. Cardinality({x} \cup {y}) = 2
        BY <2>2, <4>1, FS_AddElement
      <4>3. {x} \cup {y} = {x, y}
        OBVIOUS
      <4> QED BY <4>2, <4>3
    <3>2. Cardinality({x, y}) <= Cardinality(S)
      BY <2>1, <3>1, FS_Subset
    <3> QED BY <2>1, <2>2, <3>1, <3>2
  <2> QED BY <2>1, <2>2
<1> QED BY <1>5, <1>6

\* Why the layout that is taken serves, though another disc may have been made: a smaller one
\* is not large enough, a larger one comes behind; and where the sides are interleaved, the
\* catalogue of the other side is sought right behind the first track.
LEMMA SmallestIsRight ==
  ASSUME DiscRight, IdTypes, Conventional, Counted, chosen = {},
         format = FileFormat, total = FileTotal,
         possible = WithOtherCatalog, NEW c \in Smallest
  PROVE  LayoutRight(c)
<1>1. /\ c \in possible /\ \A d \in possible : ~Smaller(d, c)
      /\ c \in LargeEnoughOnes /\ c \in Layout /\ c \in MakeCandidateList
  <2>1. c \in possible /\ \A d \in possible \ {c} : Smaller(c, d) \/ ~Smaller(d, c)
    BY DEF Smallest
  <2>2. possible \subseteq Layout /\ c \in LargeEnoughOnes /\ c \in Layout
        /\ c \in MakeCandidateList
    BY <2>1, CandidatesAreLayouts DEF LargeEnoughOnes, Candidates
  <2>3. \A d \in Layout : TotalSectors(d) \in Nat
    <3> TAKE d \in Layout
    <3>1. SideSectorsOf(d) \in Nat
      BY LayoutTotals
    <3> QED BY <3>1, LayoutTotals
  <2>4. \A d \in possible : ~(Smaller(c, d) /\ Smaller(d, c))
    BY <2>2, <2>3 DEF Smaller
  <2>5. ~Smaller(c, c)
    BY <2>2, <2>3 DEF Smaller
  <2> QED BY <2>1, <2>2, <2>4, <2>5
<1>2. SideSectorsOf(c) >= disc.total
  BY <1>1, EnoughForDisc DEF LargeEnoughOnes
<1>3. disc.format = "OpusDDOS" => disc.sectors = 18
  BY TrueLayoutFacts
<1>4. disc.sectors \in {10, 16, 18} /\ disc.total \in Nat
      /\ SideSectorsOf(TrueLayout) = disc.total /\ TrueLayout \in Layout
      /\ (disc.sectors = 10 => disc.total \in {350, 400, 800})
      /\ (disc.sectors = 18 => disc.total \in {630, 720, 1440})
  BY RightCandidates, LayoutTotals, Counts DEF TrueLayout
<1>5. CASE disc.gz \/ ~InterleavedFile
  <2>1. ASSUME disc.sectors # 16 PROVE c.sectors = disc.sectors /\ SideSectorsOf(c) = disc.total
    <3> DEFINE w == OneSided
    <3>1. /\ w \in LargeEnoughOnes /\ w \in Layout
          /\ TotalSectors(w) = disc.total /\ w.sectors = disc.sectors /\ w.heads = 1
      BY <1>5, RightCandidates DEF OneSided, TrueLayout, Layout
    <3>2. w \in possible
      BY <3>1 DEF WithOtherCatalog, OtherSideHasCatalogToo
    <3>3. ~Smaller(w, c)
      BY <1>1, <3>2
    <3> HIDE DEF w
    <3>4. c.sectors # 16 /\ ~(TotalSectors(w) < TotalSectors(c))
      BY <2>1, <3>1, <3>3 DEF Smaller
    <3>5. /\ c.heads \in {1, 2} /\ SideSectorsOf(c) \in Nat
          /\ c.heads = 1 => TotalSectors(c) = SideSectorsOf(c)
          /\ c.heads = 2 => TotalSectors(c) = 2 * SideSectorsOf(c)
          /\ c.sectors \in {10, 16, 18}
          /\ c.sectors = 10 => SideSectorsOf(c) \in {350, 400, 800}
          /\ c.sectors = 18 => SideSectorsOf(c) \in {630, 720, 1440}
      BY <1>1, LayoutTotals
    <3>6. SideSectorsOf(c) = disc.total
      BY <1>2, <1>4, <3>1, <3>4, <3>5, Counts
    <3> QED BY <1>4, <2>1, <3>4, <3>5, <3>6
  <2> QED BY <1>2, <1>3, <1>5, <2>1 DEF LayoutRight
<1>6. CASE ~disc.gz /\ InterleavedFile
  <2>1. /\ disc.interleaved /\ disc.heads = 2 /\ (disc.sectors = 10 <=> disc.ext = "dsd")
        /\ c.interleaved /\ c.heads = 2 /\ (c.sectors = 10 <=> disc.ext = "dsd")
    BY <1>1, <1>6 DEF Conventional, InterleavedFile, MakeCandidateList
  <2>2. SecondSide = disc.sectors
    BY <2>1 DEF SecondSide
  <2>3. c.sectors \in {10, 16, 18} /\ TrueLayout \in LargeEnoughOnes
    BY <1>1, RightCandidates, LayoutTotals
  <2>4. ASSUME Cardinality(LargeEnoughOnes) > 1
        PROVE  c.sectors = disc.sectors /\ TrueLayout \in possible
    <3>1. OtherSideHasCatalogToo(c)
      BY <1>1, <2>4 DEF WithOtherCatalog
    <3>2. HasValidDfsCatalog(c.sectors)
      BY <2>1, <2>3, <3>1 DEF OtherSideHasCatalogToo
    <3>3. c.sectors = disc.sectors /\ disc.second
      BY <2>2, <2>3, <3>2 DEF HasValidDfsCatalog
    <3>4. OtherSideHasCatalogToo(TrueLayout)
      <4>1. disc.sectors * 1 = disc.sectors
        BY <1>4
      <4> QED BY <2>1, <3>2, <3>3, <4>1 DEF OtherSideHasCatalogToo, TrueLayout
    <3>5. TrueLayout \in possible
      BY <2>3, <2>4, <3>4 DEF WithOtherCatalog
    <3> QED BY <3>3, <3>5
  <2>5. ASSUME ~(Cardinality(LargeEnoughOnes) > 1)
        PROVE  c.sectors = disc.sectors /\ TrueLayout \in possible
    <3>1. LargeEnoughOnes \in SUBSET Layout /\ Cardinality(LargeEnoughOnes) <= 1
      BY <2>5, FiniteLayouts, CandidatesAreLayouts
    <3>2. c = TrueLayout
      BY <1>1, <2>3, <3>1, FiniteLayouts
    <3> QED BY <1>1, <2>5, <3>2 DEF TrueLayout, WithOtherCatalog
  <2>6. c.sectors = disc.sectors /\ TrueLayout \in possible
    BY <2>4, <2>5
  <2>7. disc.format = "OpusDDOS" => SideSectorsOf(c) = disc.total
    <3> SUFFICES ASSUME disc.format = "OpusDDOS" PROVE SideSectorsOf(c) = disc.total
      OBVIOUS
    <3>1. ~Smaller(TrueLayout, c) /\ c.sectors = 18 /\ TrueLayout.sectors = 18
      BY <1>1, <1>3, <2>6 DEF TrueLayout
    <3>2. ~(TotalSectors(TrueLayout) < TotalSectors(c))
      BY <3>1 DEF Smaller
    <3>3. /\ TotalSectors(TrueLayout) = 2 * disc.total
          /\ TotalSectors(c) = 2 * SideSectorsOf(c) /\ SideSectorsOf(c) \in Nat
      BY <1>1, <1>4, <2>1, <3>1, LayoutTotals DEF TrueLayout
    <3> QED BY <1>2, <1>4, <3>2, <3>3
  <2> QED BY <1>2, <1>3, <2>6, <2>7 DEF LayoutRight
<1> QED BY <1>5, <1>6

LEMMA SameImage ==
  ASSUME disc' = disc
  PROVE  /\ DiscRight' <=> DiscRight
         /\ FileFormat' = FileFormat /\ FileTotal' = FileTotal
         /\ GetHdfsSectorCount' = GetHdfsSectorCount /\ GetDfsSectorCount' = GetDfsSectorCount
         /\ Bit3' <=> Bit3
         /\ SmellsLikeWatford' <=> SmellsLikeWatford
         /\ \A at : SmellsLikeOpusDdos(at)' <=> SmellsLikeOpusDdos(at)
         /\ Conventional' <=> Conventional
         /\ Counted' <=> Counted
         /\ Ideal' <=> Ideal
         /\ MakeCandidateList' = MakeCandidateList
         /\ \A c : LayoutRight(c)' <=> LayoutRight(c)
<1>1. Bit2' = Bit2 /\ Bit3' = Bit3 /\ TenBits' = TenBits /\ ImageSectors' = ImageSectors
      /\ StoredTotal' = StoredTotal
  BY DEF Bit2, Bit3, TenBits, StoredTotal, TwoSidedHdfs, ImageSectors
<1>2. SmellsLikeWatford' = SmellsLikeWatford
      /\ \A at : SmellsLikeOpusDdos(at)' = SmellsLikeOpusDdos(at)
  BY <1>1 DEF SmellsLikeWatford, SmellsLikeOpusDdos
<1>3. GetHdfsSectorCount' = GetHdfsSectorCount /\ GetDfsSectorCount' = GetDfsSectorCount
  BY <1>1 DEF GetHdfsSectorCount, GetDfsSectorCount
<1>4. FileFormat' = FileFormat
  BY <1>1, <1>2 DEF FileFormat
<1>5. FileTotal' = FileTotal
  BY <1>3, <1>4 DEF FileTotal
<1>6. DiscRight' = DiscRight
  BY DEF DiscRight
<1>7. InterleavedFile' = InterleavedFile /\ Supported' = Supported
  BY DEF InterleavedFile, Supported, TwoSidedHdfs
<1>8. (Conventional' <=> Conventional) /\ (Counted' <=> Counted)
  BY <1>7 DEF Conventional, Counted
<1>9. TakenForAcorn' = TakenForAcorn
  BY DEF TakenForAcorn
<1>10. Ideal' <=> Ideal
  BY <1>7, <1>8, <1>9 DEF Ideal
<1>11. MakeCandidateList' = MakeCandidateList
  BY DEF MakeCandidateList
<1>12. \A c : LayoutRight(c)' <=> LayoutRight(c)
  BY <1>7 DEF LayoutRight, SideSectorsOf
<1> QED BY <1>1, <1>2, <1>3, <1>4, <1>5, <1>6, <1>8, <1>10, <1>11, <1>12

LEMMA SameChoice ==
  ASSUME disc' = disc, chosen' = chosen, format' = format, total' = total
  PROVE  LargeEnoughOnes' = LargeEnoughOnes /\ WithOtherCatalog' = WithOtherCatalog
         /\ Sector16' = Sector16
<1>1. Candidates' = Candidates
  BY SameImage DEF Candidates
<1>2. SingleSidedFilesystem' = SingleSidedFilesystem
  BY DEF SingleSidedFilesystem, Bit2, TwoSidedHdfs, StoredTotal
<1>3. \A c : LargeEnough(c)' = LargeEnough(c)
  BY <1>2 DEF LargeEnough, SideSectorsOf, TotalSectors
<1>4. LargeEnoughOnes' = LargeEnoughOnes
  BY <1>1, <1>3 DEF LargeEnoughOnes
<1>5. TenBits' = TenBits /\ SecondSide' = SecondSide
  BY DEF TenBits, StoredTotal, TwoSidedHdfs, SecondSide
<1>6. \A c : OtherSideHasCatalogToo(c)' = OtherSideHasCatalogToo(c)
  BY <1>5 DEF OtherSideHasCatalogToo, HasValidDfsCatalog
<1>7. Sector16' = Sector16
  BY DEF Sector16, ShownFrom, InterleavedFile, SideSectorsOf
<1> QED BY <1>4, <1>6, <1>7 DEF WithOtherCatalog

\* A step of a probe that finds nothing, or something.
LEMMA GotoKeeps ==
  ASSUME IdInv, NEW place \in Probing \cup {"mount"} \cup Outcome, Goto(place)
  PROVE  /\ DiscRight' /\ IdTypes' /\ ChosenRight'
         /\ stage' = place /\ chosen' = chosen /\ format' = format /\ total' = total
         /\ possible' = possible /\ disc' = disc
         /\ LargeEnoughOnes' = LargeEnoughOnes /\ Sector16' = Sector16
<1>1. /\ stage' = place /\ chosen' = chosen /\ format' = format /\ total' = total
      /\ possible' = possible /\ disc' = disc
  BY DEF Goto
<1>2. DiscRight'
  BY <1>1, SameImage DEF IdInv
<1>3. IdTypes'
  BY <1>1 DEF IdInv, IdTypes
<1>4. ChosenRight'
  BY <1>1, SameImage DEF IdInv, ChosenRight
<1> QED BY <1>1, <1>2, <1>3, <1>4, SameChoice

LEMMA FoundKeeps ==
  ASSUME IdInv, stage \in Probing, NEW f \in Format, NEW sectors \in Nat, Found(f, sectors),
         chosen = {} \/ Conventional => f = FileFormat /\ sectors = FileTotal,
         \/ f = "HDFS" /\ sectors = GetHdfsSectorCount
         \/ f = "OpusDDOS" /\ sectors = disc.total /\ disc.format = "OpusDDOS"
         \/ f \in {"DFS", "WDFS"} /\ sectors = GetDfsSectorCount
  PROVE  IdInv'
<1>1. /\ stage' = "geometry" /\ chosen' = chosen /\ format' = f /\ total' = sectors
      /\ possible' = possible /\ disc' = disc
  BY DEF Found
<1>2. DiscRight'
  BY <1>1, SameImage DEF IdInv
<1>3. IdTypes'
  BY <1>1 DEF IdInv, IdTypes
<1>4. ChosenRight'
  BY <1>1, SameImage DEF IdInv, ChosenRight
<1>5. FoundRight'
  BY <1>1, SameImage DEF IdInv, FoundRight
<1>6. CountRight'
  BY <1>1, SameImage DEF CountRight
<1>7. PossibleRight'
  BY <1>1 DEF PossibleRight, AtMount
<1> QED BY <1>1, <1>2, <1>3, <1>4, <1>5, <1>6, <1>7 DEF IdInv, Outcome

\* What is read as sector 16 is it, where it matters.
LEMMA Sector16Right ==
  ASSUME IdInv, chosen = {} \/ (Conventional /\ disc.format = "OpusDDOS")
  PROVE  Sector16 = 16
<1>1. CASE chosen = {}
  BY <1>1 DEF Sector16
<1>2. CASE chosen # {}
  <2>1. PICK c \in Layout : chosen = {c}
    BY <1>2 DEF IdInv, IdTypes
  <2>2. c.sectors = 18
    BY <1>2, <2>1 DEF IdInv, ChosenRight, Counted, LayoutRight
  <2>3. SideSectorsOf(c) \in Nat
    BY LayoutTotals
  <2>4. Sector16 = ShownFrom(c, 0, 16)
    <3>1. (CHOOSE d \in chosen : TRUE) = c
      BY <2>1
    <3> QED BY <1>2, <3>1 DEF Sector16
  <2>5. 16 \div 18 = 0 /\ 16 % 18 = 16 /\ 0 * SideSectorsOf(c) = 0
    BY <2>3
  <2> QED BY <2>2, <2>4, <2>5 DEF ShownFrom
<1> QED BY <1>1, <1>2

LEMMA StepProbeHdfs == ASSUME IdInv, ProbeHdfs PROVE IdInv'
<1>1. CASE Bit3
  <2>1. Found("HDFS", GetHdfsSectorCount) /\ stage \in Probing
    BY <1>1 DEF ProbeHdfs, Probing
  <2>2. FileFormat = "HDFS" /\ FileTotal = GetHdfsSectorCount
    BY <1>1 DEF FileFormat, FileTotal
  <2> QED BY <2>1, <2>2, FoundKeeps, Counts DEF IdInv, Format
<1>2. CASE ~Bit3
  <2>1. Goto("watford") /\ stage = "hdfs"
    BY <1>2 DEF ProbeHdfs
  <2>2. /\ DiscRight' /\ IdTypes' /\ ChosenRight' /\ disc' = disc /\ stage' = "watford"
        /\ chosen' = chosen /\ format' = format /\ total' = total
    BY <2>1, GotoKeeps DEF Probing
  <2>3. FoundRight'
    BY <1>2, <2>1, <2>2, SameImage DEF IdInv, FoundRight, Looking
  <2> QED BY <2>2, <2>3 DEF IdInv, CountRight, PossibleRight, Looking, AtMount, Outcome
<1> QED BY <1>1, <1>2

LEMMA StepProbeWatford == ASSUME IdInv, ProbeWatford PROVE IdInv'
<1>1. ~Bit3
  BY DEF IdInv, FoundRight, ProbeWatford
<1>2. CASE SmellsLikeWatford
  <2>1. Found("WDFS", GetDfsSectorCount) /\ stage \in Probing
    BY <1>2 DEF ProbeWatford, Probing
  <2>2. FileFormat = "WDFS" /\ FileTotal = GetDfsSectorCount
    BY <1>1, <1>2 DEF FileFormat, FileTotal
  <2> QED BY <2>1, <2>2, FoundKeeps, Counts DEF IdInv, Format
<1>3. CASE ~SmellsLikeWatford
  <2>1. Goto("opus") /\ stage = "watford"
    BY <1>3 DEF ProbeWatford
  <2>2. /\ DiscRight' /\ IdTypes' /\ ChosenRight' /\ disc' = disc /\ stage' = "opus"
        /\ chosen' = chosen /\ format' = format /\ total' = total
    BY <2>1, GotoKeeps DEF Probing
  <2>3. FoundRight'
    BY <1>1, <1>3, <2>1, <2>2, SameImage DEF IdInv, FoundRight, Looking
  <2> QED BY <2>2, <2>3 DEF IdInv, CountRight, PossibleRight, Looking, AtMount, Outcome
<1> QED BY <1>2, <1>3

LEMMA StepProbeOpus == ASSUME IdInv, ProbeOpus PROVE IdInv'
<1>1. ~Bit3 /\ ~SmellsLikeWatford /\ stage = "opus"
  BY DEF IdInv, FoundRight, ProbeOpus
<1>2. CASE SmellsLikeOpusDdos(Sector16)
  <2>1. Found("OpusDDOS", disc.total) /\ stage \in Probing
    BY <1>2 DEF ProbeOpus, Probing
  <2>2. SmellsLikeOpusDdos(16) /\ disc.format = "OpusDDOS"
    BY <1>2 DEF SmellsLikeOpusDdos
  <2>3. FileFormat = "OpusDDOS" /\ FileTotal = disc.total
    BY <1>1, <2>2 DEF FileFormat, FileTotal
  <2> QED BY <2>1, <2>2, <2>3, FoundKeeps, Counts DEF IdInv, Format
<1>3. CASE ~SmellsLikeOpusDdos(Sector16)
  <2>1. Goto("acorn")
    BY <1>3 DEF ProbeOpus
  <2>2. /\ DiscRight' /\ IdTypes' /\ ChosenRight' /\ disc' = disc /\ stage' = "acorn"
        /\ chosen' = chosen /\ format' = format /\ total' = total /\ Sector16' = Sector16
    BY <2>1, GotoKeeps DEF Probing
  <2>3. ~SmellsLikeOpusDdos(Sector16)'
    BY <1>3, <2>2, SameImage DEF SmellsLikeOpusDdos, ImageSectors
  <2>4. FoundRight'
    BY <1>1, <2>2, <2>3, SameImage DEF IdInv, FoundRight, Looking
  <2> QED BY <2>2, <2>4 DEF IdInv, CountRight, PossibleRight, Looking, AtMount, Outcome
<1> QED BY <1>2, <1>3

LEMMA StepProbeAcorn == ASSUME IdInv, ProbeAcorn PROVE IdInv'
<1>1. ~Bit3 /\ ~SmellsLikeWatford /\ ~SmellsLikeOpusDdos(Sector16) /\ stage = "acorn"
  BY DEF IdInv, FoundRight, ProbeAcorn
<1>2. HasValidDfsCatalog(0)
  BY Counts DEF HasValidDfsCatalog, IdInv
<1>3. Found("DFS", GetDfsSectorCount) /\ stage \in Probing
  BY <1>1, <1>2 DEF ProbeAcorn, Probing
<1>4. chosen = {} \/ Conventional => FileFormat = "DFS" /\ FileTotal = GetDfsSectorCount
  <2> SUFFICES ASSUME chosen = {} \/ Conventional PROVE FileFormat = "DFS"
    BY DEF FileTotal
  <2>1. ~SmellsLikeOpusDdos(16)
    BY <1>1, Sector16Right DEF SmellsLikeOpusDdos
  <2> QED BY <1>1, <2>1 DEF FileFormat
<1> QED BY <1>3, <1>4, FoundKeeps, Counts DEF IdInv, Format

LEMMA StepDropTooSmall == ASSUME IdInv, DropTooSmall PROVE IdInv'
<1>1. /\ stage = "geometry" /\ stage' = "other side" /\ chosen' = chosen /\ format' = format
      /\ total' = total /\ disc' = disc /\ possible' = LargeEnoughOnes
  BY DEF DropTooSmall, LargeEnoughOnes
<1>2. DiscRight' /\ ChosenRight'
  BY <1>1, SameImage DEF IdInv, ChosenRight
<1>3. IdTypes'
  BY <1>1, CandidatesAreLayouts DEF IdInv, IdTypes
<1>4. FoundRight' /\ CountRight'
  BY <1>1, SameImage DEF IdInv, FoundRight, CountRight, Looking
<1>5. PossibleRight'
  BY <1>1, SameChoice DEF PossibleRight, AtMount
<1> QED BY <1>1, <1>2, <1>3, <1>4, <1>5 DEF IdInv, Outcome

LEMMA StepDropWithoutOtherCatalog == ASSUME IdInv, DropWithoutOtherCatalog PROVE IdInv'
<1>1. /\ stage = "other side" /\ stage' = "pick" /\ chosen' = chosen /\ format' = format
      /\ total' = total /\ disc' = disc /\ possible' = WithOtherCatalog
  BY DEF DropWithoutOtherCatalog, WithOtherCatalog, IdInv, PossibleRight
<1>2. DiscRight' /\ ChosenRight'
  BY <1>1, SameImage DEF IdInv, ChosenRight
<1>3. IdTypes'
  <2>1. WithOtherCatalog \subseteq Layout
    BY CandidatesAreLayouts DEF IdInv
  <2> QED BY <1>1, <2>1 DEF IdInv, IdTypes
<1>4. FoundRight' /\ CountRight'
  BY <1>1, SameImage DEF IdInv, FoundRight, CountRight, Looking
<1>5. PossibleRight'
  BY <1>1, SameChoice DEF PossibleRight, AtMount
<1> QED BY <1>1, <1>2, <1>3, <1>4, <1>5 DEF IdInv, Outcome

\* Through a view there is one layout to choose from, of one side.
LEMMA OneCandidate ==
  ASSUME IdInv, NEW c \in Layout, chosen = {c}
  PROVE  \E d \in Layout :
            /\ Candidates = {d} /\ d.heads = 1 /\ d.sectors = c.sectors
            /\ SideSectorsOf(d) = SideSectorsOf(c) /\ TotalSectors(d) = SideSectorsOf(c)
            /\ LargeEnoughOnes \subseteq {d} /\ WithOtherCatalog = LargeEnoughOnes
            /\ Conventional /\ Counted => LargeEnoughOnes = {d}
<1> DEFINE d == [c EXCEPT !.heads = 1, !.interleaved = FALSE]
<1>1. d \in Layout /\ d.heads = 1 /\ d.sectors = c.sectors /\ d.cylinders = c.cylinders
  BY DEF Layout
<1>2. Candidates = {d}
  BY DEF Candidates
<1>3. SideSectorsOf(d) = SideSectorsOf(c)
  BY <1>1 DEF SideSectorsOf
<1> HIDE DEF d
<1>4. TotalSectors(d) = SideSectorsOf(c)
  <2>1. TotalSectors(d) = SideSectorsOf(d)
    BY <1>1, LayoutTotals
  <2> QED BY <1>3, <2>1
<1>5. OtherSideHasCatalogToo(d)
  BY <1>1 DEF OtherSideHasCatalogToo
<1>6. LargeEnoughOnes \subseteq {d} /\ WithOtherCatalog = LargeEnoughOnes
  BY <1>2, <1>5 DEF LargeEnoughOnes, WithOtherCatalog
<1>7. ASSUME Conventional, Counted PROVE LargeEnoughOnes = {d}
  <2>1. format = FileFormat /\ total = FileTotal /\ SideSectorsOf(c) >= disc.total
    BY <1>7 DEF IdInv, FoundRight, ChosenRight, LayoutRight
  <2>2. LargeEnough(d)
    BY <1>1, <1>3, <1>7, <2>1, EnoughForDisc DEF IdInv
  <2> QED BY <1>2, <2>2 DEF LargeEnoughOnes
<1> QED BY <1>1, <1>2, <1>3, <1>4, <1>6, <1>7

\* Of two layouts one comes before the other.
LEMMA OneSmallest ==
  ASSUME possible \subseteq Layout, NEW c \in Smallest, NEW d \in Smallest
  PROVE  c = d
<1> SUFFICES ASSUME c # d PROVE FALSE
  OBVIOUS
<1>1. c \in Layout /\ d \in Layout
      /\ (Smaller(c, d) \/ (~Smaller(d, c) /\ ListedBefore(c, d)))
      /\ (Smaller(d, c) \/ (~Smaller(c, d) /\ ListedBefore(d, c)))
  BY DEF Smallest
<1>2. TotalSectors(c) \in Nat /\ TotalSectors(d) \in Nat
  <2>1. \A x \in Layout : SideSectorsOf(x) \in Nat
    BY LayoutTotals
  <2>2. \A x \in Layout : TotalSectors(x) \in Nat
    BY <2>1, LayoutTotals
  <2> QED BY <1>1, <2>2
<1>3. ~(Smaller(c, d) /\ Smaller(d, c))
  BY <1>2 DEF Smaller
<1>4. ~(ListedBefore(c, d) /\ ListedBefore(d, c))
  <2> DEFINE rank(x) == 100 * (IF x.sectors = 10 THEN 0 ELSE 1) + 50 * (2 - x.heads)
                 + 10 * (CASE x.cylinders = 40 -> 0 [] x.cylinders = 80 -> 1 [] OTHER -> 2)
                 + 2 * (IF x.sectors = 16 THEN 1 ELSE 0) + (IF x.interleaved THEN 1 ELSE 0)
  <2>1. rank(c) \in Int /\ rank(d) \in Int
    BY <1>1, LayoutTotals
  <2>2. ListedBefore(c, d) <=> rank(c) < rank(d)
    BY DEF ListedBefore
  <2>3. ListedBefore(d, c) <=> rank(d) < rank(c)
    BY DEF ListedBefore
  <2> HIDE DEF rank
  <2> QED BY <2>1, <2>2, <2>3
<1> QED BY <1>1, <1>3, <1>4

\* An ideal disc has always a layout left.
LEMMA SomeLayoutLeft ==
  ASSUME IdInv, stage = "pick", Ideal
  PROVE  possible # {}
<1>1. Conventional /\ Counted /\ possible = WithOtherCatalog
  BY DEF Ideal, Counted, IdInv, PossibleRight
<1>2. CASE chosen = {}
  <2>1. TrueLayout \in LargeEnoughOnes /\ TrueLayout \in Layout
    BY <1>1, <1>2, RightCandidates DEF IdInv, FoundRight, Looking
  <2>2. OtherSideHasCatalogToo(TrueLayout)
    <3>1. CASE disc.heads = 1
      BY <3>1 DEF OtherSideHasCatalogToo, TrueLayout
    <3>2. CASE disc.second
      <4>1. disc.sectors \in {10, 16, 18} /\ disc.cylinders \in {35, 40, 80}
        BY <2>1, LayoutTotals DEF TrueLayout
      <4>2. SecondSide = disc.sectors * (IF disc.interleaved THEN 1 ELSE disc.cylinders)
        BY <4>1 DEF SecondSide
      <4> QED BY <3>2, <4>2, Counts DEF OtherSideHasCatalogToo, TrueLayout, HasValidDfsCatalog,
                 IdInv
    <3> QED BY <3>1, <3>2 DEF Ideal
  <2> QED BY <1>1, <2>1, <2>2 DEF WithOtherCatalog
<1>3. CASE chosen # {}
  <2>1. PICK c \in Layout : chosen = {c}
    BY <1>3 DEF IdInv, IdTypes
  <2>2. LargeEnoughOnes # {} /\ WithOtherCatalog = LargeEnoughOnes
    BY <1>1, <2>1, OneCandidate
  <2> QED BY <1>1, <2>2
<1> QED BY <1>2, <1>3

LEMMA StepPickSmallest == ASSUME IdInv, PickSmallest PROVE IdInv'
<1>1. stage = "pick" /\ possible = WithOtherCatalog
  BY DEF PickSmallest, IdInv, PossibleRight
<1>2. CASE possible = {}
  <2>1. PICK place \in {"unrecognised", "unformatted"} : Goto(place)
    BY <1>2 DEF PickSmallest
  <2>2. place \in Probing \cup {"mount"} \cup Outcome
    BY DEF Outcome
  <2>3. /\ DiscRight' /\ IdTypes' /\ ChosenRight' /\ disc' = disc /\ stage' = place
        /\ chosen' = chosen /\ format' = format /\ total' = total
    BY <2>1, <2>2, GotoKeeps
  <2>4. FoundRight' /\ CountRight' /\ PossibleRight'
    BY <2>3, SameImage DEF IdInv, FoundRight, CountRight, PossibleRight, Looking, AtMount
  <2>5. ~Ideal'
    BY <1>1, <1>2, <2>3, SameImage, SomeLayoutLeft
  <2> QED BY <2>3, <2>4, <2>5 DEF IdInv
<1>3. CASE possible # {} /\ chosen = {}
  <2>1. /\ chosen' = Smallest /\ stage' = "hdfs" /\ disc' = disc /\ format' = format
        /\ total' = total /\ possible' = possible
    BY <1>3 DEF PickSmallest
  <2>2. DiscRight'
    BY <2>1, SameImage DEF IdInv
  <2>3. format = FileFormat /\ total = FileTotal
    BY <1>1, <1>3 DEF IdInv, FoundRight, Looking
  <2>4. IdTypes'
    <3>1. Smallest \subseteq Layout /\ possible \subseteq Layout
      BY DEF Smallest, IdInv, IdTypes
    <3>2. Smallest = {} \/ \E c \in Layout : Smallest = {c}
      BY <3>1, OneSmallest
    <3> QED BY <2>1, <3>2 DEF IdInv, IdTypes, Probing
  <2>5. ChosenRight'
    <3>1. ASSUME NEW c \in Smallest PROVE c \in MakeCandidateList
      BY <1>1, <1>3 DEF Smallest, WithOtherCatalog, LargeEnoughOnes, Candidates
    <3>2. ASSUME NEW c \in Smallest, Conventional, Counted PROVE LayoutRight(c)
      BY <1>1, <1>3, <2>3, <3>2, SmallestIsRight DEF IdInv
    <3> QED BY <2>1, <3>1, <3>2, SameImage DEF ChosenRight
  <2>6. FoundRight' /\ CountRight' /\ PossibleRight'
    BY <2>1, <2>3, SameImage DEF FoundRight, CountRight, PossibleRight, Looking, AtMount
  <2> QED BY <2>1, <2>2, <2>4, <2>5, <2>6 DEF IdInv, Outcome
<1>4. CASE possible # {} /\ chosen # {}
  <2>1. Goto("mount")
    BY <1>4 DEF PickSmallest
  <2>2. /\ DiscRight' /\ IdTypes' /\ ChosenRight' /\ disc' = disc /\ stage' = "mount"
        /\ chosen' = chosen /\ format' = format /\ total' = total /\ possible' = possible
        /\ LargeEnoughOnes' = LargeEnoughOnes
    BY <2>1, GotoKeeps
  <2>3. possible = LargeEnoughOnes
    BY <1>1, <1>4, OneCandidate DEF IdInv, IdTypes
  <2>4. FoundRight' /\ CountRight'
    BY <1>1, <2>2, SameImage DEF IdInv, FoundRight, CountRight, Looking
  <2>5. PossibleRight'
    BY <1>4, <2>2, <2>3 DEF PossibleRight
  <2> QED BY <2>2, <2>4, <2>5 DEF IdInv, Outcome
<1> QED BY <1>2, <1>3, <1>4

LEMMA StepMount == ASSUME IdInv, Mount PROVE IdInv'
<1>1. stage = "mount" /\ chosen # {} /\ possible # {} /\ possible = LargeEnoughOnes
  BY DEF Mount, IdInv, PossibleRight, AtMount
<1>2. PICK d \in possible :
        IF format = "OpusDDOS" /\ (disc.total # TotalSectors(d) \/ d.sectors # 18)
        THEN Goto("bad file system")
        ELSE IF /\ Bit3 <=> format = "HDFS"
                /\ ~Bit3 /\ Bit2 => format = "WDFS"
        THEN Goto("mounted")
        ELSE Goto("assertion failed")
  BY DEF Mount
<1>3. PICK place \in {"bad file system", "mounted", "assertion failed"} :
        /\ Goto(place)
        /\ place = "bad file system" => format = "OpusDDOS"
                                        /\ (disc.total # TotalSectors(d) \/ d.sectors # 18)
        /\ place = "assertion failed" => ~((Bit3 <=> format = "HDFS")
                                           /\ (~Bit3 /\ Bit2 => format = "WDFS"))
  BY <1>2
<1>4. place \in Probing \cup {"mount"} \cup Outcome
  BY DEF Outcome
<1>5. /\ DiscRight' /\ IdTypes' /\ ChosenRight' /\ disc' = disc /\ stage' = place
      /\ chosen' = chosen /\ format' = format /\ total' = total /\ possible' = possible
      /\ LargeEnoughOnes' = LargeEnoughOnes
  BY <1>3, <1>4, GotoKeeps
<1>6. FoundRight' /\ CountRight' /\ PossibleRight'
  BY <1>1, <1>5, SameImage DEF IdInv, FoundRight, CountRight, PossibleRight, Looking, AtMount
<1>7. ASSUME Ideal PROVE place = "mounted"
  <2>1. PICK c \in Layout : chosen = {c}
    BY <1>1 DEF IdInv, IdTypes
  <2>2. Conventional /\ Counted /\ ~TakenForAcorn /\ Supported
    BY <1>7 DEF Ideal, Counted
  <2>3. format = disc.format
    BY <1>1, <2>2, WhatIsFound DEF IdInv, FoundRight
  <2>4. LayoutRight(c)
    BY <2>1, <2>2 DEF IdInv, ChosenRight
  <2>5. d.sectors = c.sectors /\ TotalSectors(d) = SideSectorsOf(c)
    BY <1>1, <2>1, OneCandidate
  <2>6. place # "bad file system"
    BY <1>3, <2>3, <2>4, <2>5 DEF LayoutRight
  <2>7. place # "assertion failed"
    BY <1>3, <2>2, <2>3, Counts DEF IdInv, Bit3
  <2> QED BY <2>6, <2>7
<1> QED BY <1>5, <1>6, <1>7, SameImage DEF IdInv

LEMMA IdentifyInitInv == IdentifyInit => IdInv
<1> SUFFICES ASSUME IdentifyInit PROVE IdInv
  OBVIOUS
<1>1. /\ stage = "hdfs" /\ format = "DFS" /\ total = 0 /\ possible = {} /\ chosen = {}
      /\ DiscRight
  BY DEF IdentifyInit, Start, DiscRight
<1> QED BY <1>1 DEF IdInv, IdTypes, ChosenRight, FoundRight, CountRight, PossibleRight,
           Probing, Looking, AtMount, Outcome, Format

LEMMA StepIdle == ASSUME IdInv, UNCHANGED ivars PROVE IdInv'
<1>1. /\ disc' = disc /\ stage' = stage /\ format' = format /\ total' = total
      /\ possible' = possible /\ chosen' = chosen
  BY DEF ivars
<1>2. DiscRight' /\ ChosenRight'
  BY <1>1, SameImage DEF IdInv, ChosenRight
<1>3. IdTypes'
  BY <1>1 DEF IdInv, IdTypes
<1>4. FoundRight'
  <2>1. Sector16' = Sector16
    BY <1>1, SameImage, SameChoice DEF Sector16, ShownFrom, InterleavedFile
  <2>2. SmellsLikeOpusDdos(Sector16)' <=> SmellsLikeOpusDdos(Sector16)
    BY <1>1, <2>1 DEF SmellsLikeOpusDdos, ImageSectors
  <2> QED BY <1>1, <2>2, SameImage DEF IdInv, FoundRight
<1>5. CountRight'
  BY <1>1, SameImage DEF IdInv, CountRight
<1>6. PossibleRight'
  BY <1>1, SameChoice DEF IdInv, PossibleRight
<1> QED BY <1>1, <1>2, <1>3, <1>4, <1>5, <1>6, SameImage DEF IdInv

LEMMA IdentifyStep == IdInv /\ [IdentifyNext]_ivars => IdInv'
  BY StepProbeHdfs, StepProbeWatford, StepProbeOpus, StepProbeAcorn, StepDropTooSmall,
     StepDropWithoutOtherCatalog, StepPickSmallest, StepMount, StepIdle DEF IdentifyNext

\* The side that is looked at, with all its sectors where the disc has them.
LEMMA RightLayoutPlaces ==
  ASSUME IdInv, NEW c \in Layout, chosen = {c}, Conventional, Supported,
         ~ (disc.gz /\ disc.sectors = 16)
  PROVE  SideZeroInPlace
<1>1. Chosen = c
  BY DEF Chosen
<1>2. SideSectorsOf(c) >= disc.total
      /\ (InterleavedFile => c.sectors = disc.sectors)
  BY DEF IdInv, ChosenRight, Counted, LayoutRight
<1>3. SideSectorsOf(c) \in Nat /\ SideSectorsOf(TrueLayout) \in Nat /\ disc.total \in Nat
  <2>1. \A x \in Layout : SideSectorsOf(x) \in Nat
    BY LayoutTotals
  <2> QED BY <2>1, TrueLayoutFacts, Counts DEF IdInv
<1> SUFFICES ASSUME NEW n \in 0..disc.total - 1
             PROVE  n < SideSectorsOf(c) /\ ShownFrom(c, 0, n) = ShownFrom(TrueLayout, 0, n)
  BY <1>1 DEF SideZeroInPlace
<1>4. n < SideSectorsOf(c)
  BY <1>2, <1>3
<1>5. CASE InterleavedFile
  <2>1. c.sectors = TrueLayout.sectors
    BY <1>2, <1>5 DEF TrueLayout
  <2> QED BY <1>4, <1>5, <2>1 DEF ShownFrom
<1>6. CASE ~InterleavedFile
  <2>1. 0 * SideSectorsOf(c) = 0 * SideSectorsOf(TrueLayout)
    BY <1>3
  <2> QED BY <1>4, <1>6, <2>1 DEF ShownFrom
<1> QED BY <1>5, <1>6

LEMMA InvPlaces == IdInv => PlacesSectors
<1> SUFFICES ASSUME IdInv PROVE PlacesSectors
  OBVIOUS
<1>1. disc \in Disc /\ IdTypes
  BY DEF IdInv, DiscRight
<1>2. stage \in AtMount => \E d \in Layout : possible = {d} /\ d \in LargeEnoughOnes
                                              /\ TotalSectors(d) = SideSectorsOf(d)
  <2> SUFFICES ASSUME stage \in AtMount
               PROVE  \E d \in Layout : possible = {d} /\ d \in LargeEnoughOnes
                                        /\ TotalSectors(d) = SideSectorsOf(d)
    OBVIOUS
  <2>1. chosen # {} /\ possible # {} /\ possible = LargeEnoughOnes
    BY DEF IdInv, PossibleRight
  <2>2. PICK c \in Layout : chosen = {c}
    BY <1>1, <2>1 DEF IdTypes
  <2>3. PICK d \in Layout : LargeEnoughOnes \subseteq {d} /\ d.heads = 1
    BY <2>2, OneCandidate
  <2>4. possible = {d}
    BY <2>1, <2>3
  <2>5. TotalSectors(d) = SideSectorsOf(d)
    BY <2>3, LayoutTotals
  <2> QED BY <2>1, <2>4, <2>5
<1>3. IdentifyTypeOK
  <2>1. Cardinality(chosen) <= 1
    <3>1. CASE chosen = {}
      BY <3>1, FS_EmptySet
    <3>2. CASE chosen # {}
      <4>1. PICK c \in Layout : chosen = {c}
        BY <1>1, <3>2 DEF IdTypes
      <4> QED BY <4>1, FS_Singleton
    <3> QED BY <3>1, <3>2
  <2>2. stage = "mount" => Cardinality(possible) = 1 /\ chosen # {}
    BY <1>2, FS_Singleton DEF AtMount, IdInv, PossibleRight
  <2>3. chosen \subseteq Layout
    BY <1>1 DEF IdTypes
  <2> QED BY <1>1, <2>1, <2>2, <2>3 DEF IdentifyTypeOK, IdTypes, Probing
<1>4. MountedFits
  <2> SUFFICES ASSUME stage = "mounted", ~disc.topbit, NEW d \in possible
               PROVE  CatalogTotal <= TotalSectors(d)
    BY DEF MountedFits
  <2>1. d \in Layout /\ LargeEnough(d) /\ TotalSectors(d) = SideSectorsOf(d)
    BY <1>2 DEF AtMount, LargeEnoughOnes
  <2>2. SideSectorsOf(d) >= total
    BY <2>1 DEF LargeEnough
  <2>3. CatalogTotal = TenBits
    BY Counts DEF CatalogTotal, IdInv
  <2>4. total >= TenBits
    <3>1. GetHdfsSectorCount >= TenBits /\ GetDfsSectorCount >= TenBits
      BY Counts DEF GetHdfsSectorCount, GetDfsSectorCount, IdInv
    <3>2. disc.format = "OpusDDOS" => disc.total >= TenBits
      BY OpusCount DEF IdInv
    <3> QED BY <3>1, <3>2 DEF IdInv, CountRight, Looking
  <2>5. SideSectorsOf(d) \in Nat /\ total \in Nat /\ TenBits \in Nat
    BY <1>1, <2>1, LayoutTotals, Counts DEF IdTypes, IdInv
  <2> QED BY <2>1, <2>2, <2>3, <2>4, <2>5
<1>5. ASSUME chosen # {}, Conventional, Supported, ~ (disc.gz /\ disc.sectors = 16)
      PROVE  SideZeroInPlace
  <2>1. PICK c \in Layout : chosen = {c}
    BY <1>1, <1>5 DEF IdTypes
  <2> QED BY <1>5, <2>1, RightLayoutPlaces
<1> QED BY <1>3, <1>4, <1>5 DEF PlacesSectors

LEMMA InvMounts == IdInv => ConventionalIsMounted
<1> SUFFICES ASSUME IdInv, Conventional, ~TakenForAcorn PROVE ConventionalIsMounted
  BY DEF ConventionalIsMounted
<1>1. stage = "mounted" => format = disc.format
  BY WhatIsFound DEF IdInv, FoundRight, PossibleRight, AtMount
<1>2. stage \in Outcome /\ (disc.heads = 1 \/ disc.second) /\ Supported => stage = "mounted"
  BY DEF IdInv, Ideal
<1> QED BY <1>1, <1>2 DEF ConventionalIsMounted

LEMMA LooksAgree ==
  ASSUME IdInv, [IdentifyNext]_ivars, chosen # {}, Conventional
  PROVE  UNCHANGED <<format, total>>
<1>1. CASE UNCHANGED ivars
  BY <1>1 DEF ivars
<1>2. CASE IdentifyNext
  <2>1. disc' = disc
    BY <1>2 DEF IdentifyNext, ProbeHdfs, ProbeWatford, ProbeOpus, ProbeAcorn, DropTooSmall,
                DropWithoutOtherCatalog, PickSmallest, Mount, Found, Goto
  <2>2. chosen' = chosen
    BY <1>2 DEF IdentifyNext, ProbeHdfs, ProbeWatford, ProbeOpus, ProbeAcorn, DropTooSmall,
                DropWithoutOtherCatalog, PickSmallest, Mount, Found, Goto
  <2>3. IdInv'
    BY <1>2, IdentifyStep
  <2>4. Conventional' /\ FileFormat' = FileFormat /\ FileTotal' = FileTotal
    BY <2>1, SameImage
  <2>5. format = FileFormat /\ total = FileTotal
    BY DEF IdInv, FoundRight
  <2>6. format' = FileFormat' /\ total' = FileTotal'
    BY <2>2, <2>3, <2>4 DEF IdInv, FoundRight
  <2> QED BY <2>4, <2>5, <2>6
<1> QED BY <1>1, <1>2

\* Every disc's identification (identify.cc, img_sdf.cc), whatever its geometry,
\* its files and the name of the image: the layout taken for an image named by
\* the conventions shows every sector of side 0 in its place, though the layout
\* may be another than the disc's; and a mounted side holds the sectors its
\* catalogue counts.
THEOREM LayoutPlacesSectors == IdentifySpec => []PlacesSectors
<1>1. IdentifySpec => []IdInv
  BY IdentifyInitInv, IdentifyStep, PTL DEF IdentifySpec
<1> QED BY <1>1, InvPlaces, PTL

\* A disc named by the conventions is mounted as what made it, and with a catalogue
\* on each side it never ends unrecognised, unformatted, refused by the constructor
\* of the file system (dfs_filesystem.cc) or at its assertions.
THEOREM ConventionalMounted == IdentifySpec => []ConventionalIsMounted
<1>1. IdentifySpec => []IdInv
  BY IdentifyInitInv, IdentifyStep, PTL DEF IdentifySpec
<1> QED BY <1>1, InvMounts, PTL

\* The second look at a side, through its view, finds the format and the total that
\* the first one found in the file (identify_file_system).
THEOREM BothLooksAgree == IdentifySpec => SidesAgree
<1>1. IdentifySpec => []IdInv
  BY IdentifyInitInv, IdentifyStep, PTL DEF IdentifySpec
<1>2. IdInv /\ [IdentifyNext]_ivars
        => [chosen # {} /\ Conventional => UNCHANGED <<format, total>>]_ivars
  BY LooksAgree
<1> QED BY <1>1, <1>2, PTL DEF IdentifySpec, SidesAgree
=============================================================================
