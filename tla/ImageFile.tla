----------------------------- MODULE ImageFile -----------------------------
(***************************************************************************)
(* Image files that hold the sectors of a disc directly: how the sides of  *)
(* an .ssd, .dsd or .mmb file become drives (img_sdf.cc, img_mmb.cc),      *)
(* where a block of a drive is looked for in the file (img_fileio.cc) and  *)
(* the cache through which commands read it (storage.cc).                  *)
(*                                                                         *)
(* The p'th sector of the file holds the number p, so that what a read     *)
(* returns says where in the file it came from.                            *)
(***************************************************************************)
EXTENDS Integers, Sequences

CONSTANTS
  Spt,            (* sectors per track                                     *)
  MaxCylinders,   (* bound: the most cylinders of an image                 *)
  Slack,          (* bound: how many sectors a file may have to spare      *)
  CatSectors,     (* sectors of an MMB file's own catalogue: 32            *)
  SectorEntries,  (* entries in a sector of it: 16                         *)
  CachedSectors,  (* how many blocks of a drive are cached: 4              *)
  Wrap            (* the block numbers of a sector_count_type: 2^32        *)

ASSUME SizesAssumption ==
  /\ Spt \in Nat \ {0} /\ MaxCylinders \in Nat \ {0} /\ Slack \in Nat
  /\ CatSectors \in Nat \ {0} /\ SectorEntries \in Nat \ {0} /\ CachedSectors \in Nat
ASSUME WrapAssumption == Wrap \in Nat /\ Wrap > MaxCylinders * Spt

VARIABLES
  pc,         (* "opening", then "connected" or "unusable"                 *)
  kind,       (* the file's extension                                      *)
  cylinders,  (* the geometry identify_image found                         *)
  heads,
  length,     (* whole sectors in the file                                 *)
  present,    (* which slots the catalogue of an MMB file says hold a disc *)
  views,      (* ViewFile::views_                                          *)
  cache,      (* per drive, SectorCache::cache_                            *)
  answer,     (* the last read_block of a drive, and what it returned      *)
  asked       (* the track and sector that dump-sector was asked for       *)

vars == <<pc, kind, cylinders, heads, length, present, views, cache, answer, asked>>
file == <<kind, cylinders, heads, length, present>>

Argument == (-1..MaxCylinders) \cup (-1..Spt)    \* bound: of dump-sector
Slots == 0..CatSectors * SectorEntries - 2
Missing == -1
Nothing == [track |-> -1, sector |-> -1]
NotAsked == [view |-> 0, block |-> 0, got |-> Missing]

SideSectors == cylinders * Spt

View(skip, take, leave, total) ==
  [skip |-> skip, take |-> take, leave |-> leave, total |-> total]

\* take = 0 marks a device that cannot be read.
Unformatted == View(0, 0, 1, 1)

----------------------------------------------------------------------------
(* Opening the file: each view is added by a step *)

NonInterleavedSide(surface) == View(surface * SideSectors, SideSectors, 0, SideSectors)

InterleavedSide(surface) == View(surface * Spt, Spt, Spt, SideSectors)

MmbDisc(slot) == View(CatSectors + slot * SideSectors, SideSectors, 0, SideSectors)

MmbSlot(slot) == IF slot \in present THEN <<MmbDisc(slot)>> ELSE <<Unformatted>>

AddSide(side, count) ==
  /\ pc = "opening"
  /\ Len(views) < count
  /\ views' = Append(views, side)
  /\ UNCHANGED <<pc, file, cache, answer, asked>>

AddNonInterleavedSide ==
  kind = "ssd" /\ AddSide(NonInterleavedSide(Len(views)), heads)

\* Both sides are added, whatever number of heads was identified.
AddInterleavedSide ==
  kind = "dsd" /\ AddSide(InterleavedSide(Len(views)), 2)

\* The catalogue sector that an entry is in is read before the entry is.
SlotSector(slot) == (slot + 1) \div SectorEntries

AddMmbSlot ==
  /\ kind = "mmb"
  /\ pc = "opening"
  /\ Len(views) \in Slots
  /\ SlotSector(Len(views)) < length
  /\ views' = views \o MmbSlot(Len(views))
  /\ UNCHANGED <<pc, file, cache, answer, asked>>

MmbTooShort ==
  /\ kind = "mmb"
  /\ pc = "opening"
  /\ Len(views) \in Slots
  /\ SlotSector(Len(views)) >= length
  /\ pc' = "unusable"
  /\ UNCHANGED <<file, views, cache, answer, asked>>

ViewCount == CASE kind = "ssd" -> heads
               [] kind = "dsd" -> 2
               [] kind = "mmb" -> CatSectors * SectorEntries - 1

\* Connecting the drives gives each of them an empty cache.
ConnectDrives ==
  /\ pc = "opening"
  /\ Len(views) = ViewCount
  /\ pc' = "connected"
  /\ cache' = [i \in 1..Len(views) |-> [b \in 0..CachedSectors - 1 |-> Missing]]
  /\ UNCHANGED <<file, views, answer, asked>>

----------------------------------------------------------------------------
(* Reading a block *)

Position(v, b) == v.skip + (b \div v.take) * (v.take + v.leave) + (b % v.take)

\* FilePresentedBlockwise::read_block: a short read is no block.
MediaRead(p) == IF p < length THEN p ELSE Missing

\* Wrong: the end of the device is left to the end of the file.
ViewReadToEndOfFile(v, b) ==
  IF v.take = 0 THEN Missing ELSE MediaRead(Position(v, b))

\* FileView::read_block
ViewRead(v, b) ==
  IF v.take = 0 \/ b >= v.total THEN Missing ELSE MediaRead(Position(v, b))

Has(i, b) == b \in DOMAIN cache[i] /\ cache[i][b] # Missing

\* Wrong: a block past the end of the cache is put in its last place.
PutClamped(i, b, got) ==
  LET place == IF b < CachedSectors THEN b ELSE CachedSectors - 1
  IN  [cache EXCEPT ![i][place] = got]

\* SectorCache::put
Put(i, b, got) == IF b \in DOMAIN cache[i] THEN [cache EXCEPT ![i][b] = got] ELSE cache

\* CachedDevice::read_block
CachedRead(i, b) ==
  /\ pc = "connected"
  /\ LET got == IF Has(i, b) THEN cache[i][b] ELSE ViewRead(views[i], b)
     IN  /\ answer' = [view |-> i, block |-> b, got |-> got]
         /\ cache' = IF Has(i, b) \/ got = Missing THEN cache ELSE Put(i, b, got)
  /\ UNCHANGED <<pc, file, views>>

ReadBlock(i, b) == CachedRead(i, b) /\ asked' = Nothing

----------------------------------------------------------------------------
(* dump-sector: numbers are whatever std::stol makes of the arguments      *)

\* get_arg
Acceptable(track, sector) == track <= cylinders - 1 /\ sector <= Spt - 1

\* The block number is put into a sector_count_type.
DumpSector(i, track, sector) ==
  /\ Acceptable(track, sector)
  /\ CachedRead(i, (track * Spt + sector) % Wrap)
  /\ asked' = [track |-> track, sector |-> sector]

DumpRefused(i, track, sector) ==
  /\ pc = "connected" /\ ~Acceptable(track, sector)
  /\ asked' = [track |-> track, sector |-> sector] /\ answer' = NotAsked
  /\ UNCHANGED <<pc, file, views, cache>>

----------------------------------------------------------------------------
Init ==
  /\ pc = "opening"
  /\ kind \in {"ssd", "dsd", "mmb"}
  /\ cylinders \in 1..MaxCylinders
  /\ heads \in IF kind = "mmb" THEN {1} ELSE 1..2
  /\ length \in 0..Slack + (IF kind = "mmb"
                            THEN CatSectors + (CatSectors * SectorEntries - 1) * SideSectors
                            ELSE 2 * SideSectors)
  /\ present \in IF kind = "mmb" THEN SUBSET Slots ELSE {{}}
  /\ views = <<>>
  /\ cache = <<>>
  /\ answer = NotAsked
  /\ asked = Nothing

Open == AddNonInterleavedSide \/ AddInterleavedSide \/ AddMmbSlot \/ MmbTooShort \/ ConnectDrives

Next ==
  \/ Open
  \/ \E i \in DOMAIN views :
       \/ \E b \in 0..views[i].total : ReadBlock(i, b)
       \/ \E track, sector \in Argument : DumpSector(i, track, sector) \/ DumpRefused(i, track, sector)

\* The constructors' loops run to their end; commands read what they like.
Spec == Init /\ [][Next]_vars /\ WF_vars(Open)

----------------------------------------------------------------------------
(* Where the formats keep a sector *)

\* Sector s of track t on a side (or of the disc in a slot)
Stored(side, t, s) ==
  CASE kind = "ssd" -> (side * cylinders + t) * Spt + s
    [] kind = "dsd" -> (2 * t + side) * Spt + s
    [] kind = "mmb" -> CatSectors + (side * cylinders + t) * Spt + s

Held(side, t, s) ==
  IF Stored(side, t, s) < length THEN Stored(side, t, s) ELSE Missing

\* The variables have their types.
TypeOK ==
  /\ pc \in {"opening", "connected", "unusable"}
  /\ kind \in {"ssd", "dsd", "mmb"}
  /\ cylinders \in Nat /\ heads \in 1..2 /\ length \in Nat
  /\ present \subseteq Slots
  /\ views \in Seq([skip : Nat, take : Nat, leave : Nat, total : Nat])
  /\ Len(views) <= ViewCount
  /\ cache \in Seq([0..CachedSectors - 1 -> Nat \cup {Missing}])
  /\ pc = "connected" => Len(cache) = Len(views)
  /\ answer \in [view : Nat, block : Nat, got : Nat \cup {Missing}]
  /\ asked \in [track : Argument, sector : Argument]

\* What a drive returns for block b is the sector that the file format keeps
\* on track b div Spt of that side, or nothing when the side ends before b or
\* the slot is not formatted; read through the cache or not.
AnswerIsTheSector ==
  (answer.view # 0) =>
    LET side == answer.view - 1
        formatted == kind # "mmb" \/ side \in present
    IN  answer.got = IF formatted /\ answer.block < SideSectors
                     THEN Held(side, answer.block \div Spt, answer.block % Spt)
                     ELSE Missing

\* dump-sector with a track and a sector that are on the disc shows that sector (get_arg and
\* the block number it makes of them); with others it shows nothing, unless one is negative.
DumpsThatSector ==
  asked.track >= 0 /\ asked.sector >= 0 =>
    IF asked.track < cylinders /\ asked.sector < Spt
      THEN /\ answer.view # 0
           /\ answer.got \in {Missing, Held(answer.view - 1, asked.track, asked.sector)}
      ELSE answer = NotAsked

\* What the message of get_arg says of its arguments: that they are "between 0 and" the number
\* of the last track or sector (and the manual: "These start at zero").
DumpArgumentsFromZero ==
  asked # Nothing /\ answer.got # Missing => asked.track >= 0 /\ asked.sector >= 0

\* No sector of the file is shown by two drives, or twice by one.
NothingShownTwice ==
  \A i, j \in DOMAIN views : \A b \in 0..views[i].total - 1, c \in 0..views[j].total - 1 :
    /\ views[i].take # 0 /\ views[j].take # 0
    /\ Position(views[i], b) = Position(views[j], c)
    => i = j /\ b = c

\* A cached block is what the file view would return for it now.
CacheCoherent ==
  \A i \in DOMAIN cache : \A b \in DOMAIN cache[i] :
    cache[i][b] # Missing => cache[i][b] = ViewRead(views[i], b)

\* The types hold, no two drives share a sector, the cache tells the truth, and dump-sector
\* finds its block.
Inv == TypeOK /\ NothingShownTwice /\ CacheCoherent /\ DumpsThatSector
=============================================================================
