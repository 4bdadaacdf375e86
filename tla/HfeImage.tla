------------------------------ MODULE HfeImage ------------------------------
(***************************************************************************)
(* How the sides of an HFE file become drives (HfeFile of img_hfe.cc): the *)
(* header, the table of tracks, each side's tracks decoded and tested, and *)
(* the search for a sector when a block of the drive is read.              *)
(*                                                                         *)
(* HfeStream models how a track's stream is taken from the file, and       *)
(* FmTrack and MfmTrack how sectors are found in it; here a track that is  *)
(* read gives any sectors.                                                 *)
(*                                                                         *)
(* Names that HxcImage would have too begin with hfe_ and Hfe, so that a   *)
(* module can extend both.                                                 *)
(***************************************************************************)
EXTENDS TrackImage

Signature == {"HXCPICFE", "HXCHFEV3", "other"}
Encoding == {"ISOIBM_MFM", "AMIGA_MFM", "ISOIBM_FM", "EMU_FM", "unknown"}
Fm == {"ISOIBM_FM", "EMU_FM"}
Mfm == {"ISOIBM_MFM", "AMIGA_MFM"}
Readable == {"ISOIBM_FM", "ISOIBM_MFM"}

\* `alternative' holds the encodings that track 0 of a side has, if not that of the rest.
Same == "same"
HfeHeader ==
  [HEADERSIGNATURE : Signature, number_of_track : Nat, number_of_side : Nat,
   track_encoding : Encoding, alternative : [{0, 1} -> {Same} \cup Encoding]]

VARIABLES
  hfe_header,
  truncated,              \* what the file ends in: "header", "table", or "nothing" of these
  hfe_pc,
  hfe_side, hfe_track,    \* of the loops
  sectors_per_track,      \* as far as known
  hfe_result,             \* read_all_sectors's
  hfe_acc,                \* the drives
  hfe_connected           \* those that the storage was given, with their formats
hfe_file == <<hfe_header, truncated>>
hfe_reading == <<hfe_side, hfe_track, sectors_per_track, hfe_result>>
hfe_vars == <<hfe_file, hfe_pc, hfe_reading, hfe_acc, hfe_connected>>

Unknown == -1
-----------------------------------------------------------------------------
HfeStart ==
  /\ hfe_pc = "header" /\ hfe_side = 0 /\ hfe_track = 0 /\ sectors_per_track = Unknown
  /\ hfe_result = <<>> /\ hfe_acc = <<>> /\ hfe_connected = <<>>

HfeInit == hfe_header \in HfeHeader /\ truncated \in {"header", "table", "nothing"} /\ HfeStart

\* An exception leaves the constructor: there is no image, and so no drive.
HfeRefuse ==
  /\ hfe_pc' = "refused" /\ hfe_acc' = <<>>
  /\ UNCHANGED <<hfe_file, hfe_reading, hfe_connected>>

HfeGo(where) == hfe_pc' = where /\ UNCHANGED <<hfe_file, hfe_reading, hfe_acc, hfe_connected>>

HfeReadHeader ==
  /\ hfe_pc = "header"
  /\ IF truncated = "header" \/ hfe_header.HEADERSIGNATURE = "other"
     THEN HfeRefuse ELSE HfeGo("table")

ReadTable ==
  /\ hfe_pc = "table"
  /\ IF truncated = "table" /\ hfe_header.number_of_track > 0 THEN HfeRefuse ELSE HfeGo("sides")

HfeStartSide ==
  /\ hfe_pc = "sides" /\ hfe_side < hfe_header.number_of_side
  /\ IF hfe_side \in {0, 1}
     THEN /\ hfe_pc' = "tracks"
          /\ hfe_track' = 0 /\ sectors_per_track' = Unknown /\ hfe_result' = <<>>
          /\ UNCHANGED <<hfe_file, hfe_side, hfe_acc, hfe_connected>>
     ELSE HfeGo("assertion failed: side")

EncodingOfTrack ==
  IF hfe_track = 0 /\ hfe_header.alternative[hfe_side] # Same
  THEN hfe_header.alternative[hfe_side] ELSE hfe_header.track_encoding

Accepts(track_sectors) ==
  /\ EncodingOfTrack \in Readable
  /\ sectors_per_track \in {Unknown, Len(track_sectors)}
  /\ Supported(track_sectors, hfe_track, hfe_side)

HfeReadTrack(found) ==
  /\ hfe_pc = "tracks" /\ hfe_track < hfe_header.number_of_track
  /\ \E track_sectors \in Sorted(found) :
       IF Accepts(track_sectors)
       THEN /\ hfe_result' = hfe_result \o track_sectors
            /\ sectors_per_track' = Len(track_sectors) /\ hfe_track' = hfe_track + 1
            /\ UNCHANGED <<hfe_file, hfe_pc, hfe_side, hfe_acc, hfe_connected>>
       ELSE HfeRefuse

\* The geometry is of one side.
HfeAddDrive ==
  hfe_acc' = Append(hfe_acc, [side |-> hfe_side, cylinders |-> hfe_header.number_of_track,
                              sectors |-> sectors_per_track, blocks |-> hfe_result])

HfeEndSide ==
  /\ hfe_pc = "tracks" /\ hfe_track = hfe_header.number_of_track
  /\ IF hfe_track = 0 THEN HfeGo("assertion failed: tracks")
     ELSE IF hfe_header.track_encoding \notin Fm \cup Mfm THEN HfeRefuse
     ELSE /\ HfeAddDrive /\ hfe_side' = hfe_side + 1 /\ hfe_pc' = "sides"
          /\ UNCHANGED <<hfe_file, hfe_track, sectors_per_track, hfe_result, hfe_connected>>

HfeEndSides == hfe_pc = "sides" /\ hfe_side >= hfe_header.number_of_side /\ HfeGo("made")

\* connect_drives: a side in which no file system is found is a drive too.
HfeConnect(format) ==
  /\ hfe_pc = "made" /\ Len(hfe_connected) < Len(hfe_acc)
  /\ hfe_connected' = Append(hfe_connected, [side |-> hfe_acc[Len(hfe_connected) + 1].side,
                                             format |-> format])
  /\ UNCHANGED <<hfe_file, hfe_pc, hfe_reading, hfe_acc>>

HfeConnected == hfe_pc = "made" /\ Len(hfe_connected) = Len(hfe_acc) /\ HfeGo("connected")

HfeStep ==
  HfeReadHeader \/ ReadTable \/ HfeStartSide \/ HfeEndSide \/ HfeEndSides \/ HfeConnected

HfeNext ==
  \/ HfeStep
  \/ \E found \in Seq(Sector) : HfeReadTrack(found)
  \/ \E format \in Formats : HfeConnect(format)

HfeSpec == HfeInit /\ [][HfeNext]_hfe_vars
-----------------------------------------------------------------------------
(* Reading a drive *)

FindSector(drive, cylinder, head, record) ==
  LET is == {i \in DOMAIN drive.blocks :
               /\ drive.blocks[i].cylinder = cylinder
               /\ drive.blocks[i].head = head
               /\ drive.blocks[i].record = record}
  IN IF is = {} THEN None ELSE drive.blocks[Min(is)]

\* Wrong: a block is the sector at its place in the list.
HfeReadBlockByPlace(drive, lba) ==
  IF lba >= Len(drive.blocks) THEN None ELSE drive.blocks[lba + 1]

\* The head is worked out as if the drive had both sides.
HfeReadBlock(drive, lba) ==
  IF lba >= Len(drive.blocks) THEN None
  ELSE LET per_side == drive.cylinders * drive.sectors IN
       FindSector(drive, (lba % per_side) \div drive.sectors, lba \div per_side,
                  lba % drive.sectors)
-----------------------------------------------------------------------------
(* Properties. *)

Blocks(drive) == 0..Len(drive.blocks)

\* Types: a drive's sectors are sectors, and the loops stay within the header's counts.
HfeTypeOK ==
  /\ hfe_pc \in {"header", "table", "sides", "tracks", "made", "refused", "connected",
                 "assertion failed: side", "assertion failed: tracks"}
  /\ hfe_side \in 0..hfe_header.number_of_side /\ hfe_track \in 0..hfe_header.number_of_track
  /\ sectors_per_track \in Nat \cup {Unknown}
  /\ \A d \in ToSet(hfe_acc) : d.side \in {0, 1} /\ None \notin ToSet(d.blocks)
  /\ Len(hfe_connected) <= Len(hfe_acc)

\* "dfs will not read such disc images": on every drive all tracks have the number of sectors
\* of its geometry, and are the tracks of its own side (read_all_sectors).
TracksAlike ==
  \A d \in ToSet(hfe_acc) :
    /\ \A c \in 0..d.cylinders - 1 :
         Cardinality({i \in DOMAIN d.blocks : d.blocks[i].cylinder = c}) = d.sectors
    /\ \A s \in ToSet(d.blocks) : s.head = d.side /\ s.cylinder < d.cylinders

\* A block is the sector of that address on the drive's side, or it is not there: no other
\* sector is ever given for it (DataAccessAdapter::read_block).
NeverMisplaced ==
  \A d \in ToSet(hfe_acc) : \A lba \in Blocks(d) :
    LET got == HfeReadBlock(d, lba) IN
      got # None => got.head = d.side /\ got.cylinder * d.sectors + got.record = lba

\* The first side of a disc whose tracks begin with record 0 can be read whole (read_block).
\* Nothing of the kind holds of a second side, or of records numbered from 1.
FirstSideReads ==
  \A d \in ToSet(hfe_acc) :
    /\ d.side = 0 /\ d.sectors > 0
    /\ \A s \in ToSet(d.blocks) :
         \E z \in ToSet(d.blocks) : z.cylinder = s.cylinder /\ z.record = 0
    => \A lba \in 0..d.cylinders * d.sectors - 1 : HfeReadBlock(d, lba) # None

\* The drives of an HFE file have alike tracks, all of their own side; a block is
\* the sector of that address or is not there, and of a first side whose tracks
\* begin with record 0 every block is there.
HfeReadsInPlace == HfeTypeOK /\ TracksAlike /\ NeverMisplaced /\ FirstSideReads
=============================================================================
