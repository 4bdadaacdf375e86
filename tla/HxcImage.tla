------------------------------ MODULE HxcImage ------------------------------
(***************************************************************************)
(* How the sides of an HxC MFM file become drives (img_hxcmfm.cc): the     *)
(* header, the list of tracks, which ends with the entry for the last      *)
(* track of the last side, each side's tracks decoded and tested, and      *)
(* reading a block of the drive.                                           *)
(*                                                                         *)
(* The file goes on behind the list: there an entry is made of whatever    *)
(* bytes follow, and behind the file's end of what is in memory.           *)
(*                                                                         *)
(* Names that HfeImage would have too begin with hxc_ and Hxc, so that a   *)
(* module can extend both.                                                 *)
(***************************************************************************)
EXTENDS TrackImage

CONSTANT MaxSides   (* max_supported_sides *)

HxcHeader ==
  [magic : BOOLEAN, list_in_header : BOOLEAN, interface_type : Nat, tracks : Nat, sides : Nat]

\* `fits' says that the data of the track are in the file.
HxcEntry == [track_number : Nat, side_number : Nat, fits : BOOLEAN]

VARIABLES
  hxc_header,
  list,           \* the entries of the list, as long as it is one
  hxc_pc,
  pos,            \* how many entries were read
  track_metadata, \* the entries that were kept
  hxc_side,       \* of the loop over the sides
  done,           \* the entries of this side whose tracks were read
  hxc_result,     \* read_all_sectors's
  hxc_acc,        \* the drives
  hxc_connected   \* those that the storage was given, with their formats
hxc_file == <<hxc_header, list>>
hxc_reading == <<hxc_side, done, hxc_result>>
hxc_vars == <<hxc_file, hxc_pc, pos, track_metadata, hxc_reading, hxc_acc, hxc_connected>>

SameKey(a, b) == a.track_number = b.track_number /\ a.side_number = b.side_number
-----------------------------------------------------------------------------
HxcStart ==
  /\ hxc_pc = "header" /\ pos = 0 /\ track_metadata = {}
  /\ hxc_side = 0 /\ done = {} /\ hxc_result = <<>> /\ hxc_acc = <<>> /\ hxc_connected = <<>>

HxcInit == hxc_header \in HxcHeader /\ list \in Seq(HxcEntry) /\ HxcStart

\* An exception leaves the constructor: there is no image, and so no drive.
HxcRefuse ==
  /\ hxc_pc' = "refused" /\ hxc_acc' = <<>>
  /\ UNCHANGED <<hxc_file, pos, track_metadata, hxc_reading, hxc_connected>>

HxcGo(where) ==
  /\ hxc_pc' = where
  /\ UNCHANGED <<hxc_file, pos, track_metadata, hxc_reading, hxc_acc, hxc_connected>>

HxcReadHeader ==
  /\ hxc_pc = "header"
  /\ IF hxc_header.magic /\ ~hxc_header.list_in_header /\ hxc_header.sides <= MaxSides
        /\ hxc_header.interface_type = 4
     THEN HxcGo("list") ELSE HxcRefuse

\* std::map::insert changes nothing if the key is there.
Keep(e) ==
  IF \E x \in track_metadata : SameKey(x, e) THEN track_metadata ELSE track_metadata \cup {e}

\* With no tracks, or no sides, there is no last entry.
IsLast(e) ==
  e.track_number = hxc_header.tracks - 1 /\ e.side_number = hxc_header.sides - 1

Insert(e) ==
  /\ hxc_pc = "list" /\ pos' = pos + 1
  /\ track_metadata' = Keep(e)
  /\ hxc_pc' = IF IsLast(e) THEN "sides" ELSE "list"
  /\ UNCHANGED <<hxc_file, hxc_reading, hxc_acc, hxc_connected>>

ReadEntry == pos < Len(list) /\ Insert(list[pos + 1])

\* Whatever is behind the list is taken for an entry of it.
ReadBeyond(e) == pos >= Len(list) /\ Insert(e)

HxcStartSide ==
  /\ hxc_pc = "sides" /\ hxc_side < hxc_header.sides
  /\ hxc_pc' = "tracks" /\ done' = {} /\ hxc_result' = <<>>
  /\ UNCHANGED <<hxc_file, pos, track_metadata, hxc_side, hxc_acc, hxc_connected>>

Remaining == {e \in track_metadata : e.side_number = hxc_side} \ done

\* Wrong: the order of the tracks is not that of their numbers.
NextEntryBackwards(e) == e \in Remaining /\ \A x \in Remaining : x.track_number <= e.track_number

\* The order of the map is that of the track numbers.
NextEntry(e) == e \in Remaining /\ \A x \in Remaining : e.track_number <= x.track_number

AddSectors(track_sectors) == hxc_result' = hxc_result \o track_sectors

HxcReadTrack(e, found) ==
  /\ hxc_pc = "tracks" /\ NextEntry(e)
  /\ \E track_sectors \in Sorted(found) :
       IF e.fits /\ Supported(track_sectors, e.track_number, e.side_number)
       THEN /\ AddSectors(track_sectors) /\ done' = done \cup {e}
            /\ UNCHANGED <<hxc_file, hxc_pc, pos, track_metadata, hxc_side>>
            /\ UNCHANGED <<hxc_acc, hxc_connected>>
       ELSE HxcRefuse

\* compute_geometry counts the cylinders and records that there are.
Cylinders(blocks) == {s.cylinder : s \in ToSet(blocks)}
Records(blocks) == {s.record : s \in ToSet(blocks)}

HxcEndSide ==
  /\ hxc_pc = "tracks" /\ Remaining = {}
  /\ hxc_acc' = Append(hxc_acc, [side |-> hxc_side, cylinders |-> Cardinality(Cylinders(hxc_result)),
                                 sectors |-> Cardinality(Records(hxc_result)),
                                 blocks |-> hxc_result])
  /\ hxc_side' = hxc_side + 1 /\ hxc_pc' = "sides"
  /\ UNCHANGED <<hxc_file, pos, track_metadata, done, hxc_result, hxc_connected>>

HxcEndSides == hxc_pc = "sides" /\ hxc_side >= hxc_header.sides /\ HxcGo("made")

\* connect_drives: a side in which no file system is found is a drive too.
HxcConnect(format) ==
  /\ hxc_pc = "made" /\ Len(hxc_connected) < Len(hxc_acc)
  /\ hxc_connected' = Append(hxc_connected, [side |-> hxc_acc[Len(hxc_connected) + 1].side,
                                             format |-> format])
  /\ UNCHANGED <<hxc_file, hxc_pc, pos, track_metadata, hxc_reading, hxc_acc>>

HxcConnected == hxc_pc = "made" /\ Len(hxc_connected) = Len(hxc_acc) /\ HxcGo("connected")

HxcStep ==
  HxcReadHeader \/ ReadEntry \/ HxcStartSide \/ HxcEndSide \/ HxcEndSides \/ HxcConnected

HxcNext ==
  \/ HxcStep
  \/ \E e \in HxcEntry : ReadBeyond(e)
  \/ \E e \in track_metadata, found \in Seq(Sector) : HxcReadTrack(e, found)
  \/ \E format \in Formats : HxcConnect(format)

HxcSpec == HxcInit /\ [][HxcNext]_hxc_vars

HxcReadBlock(drive, lba) == IF lba >= Len(drive.blocks) THEN None ELSE drive.blocks[lba + 1]
-----------------------------------------------------------------------------
(* Properties. *)

HasLast == \E i \in DOMAIN list : IsLast(list[i])

\* Types: a side has at most one entry for a track, and the loops stay within their bounds.
HxcTypeOK ==
  /\ hxc_pc \in {"header", "list", "sides", "tracks", "made", "refused", "connected"}
  /\ pos \in Nat /\ hxc_side \in 0..hxc_header.sides /\ done \subseteq track_metadata
  /\ \A a, b \in track_metadata : SameKey(a, b) => a = b
  /\ \A d \in ToSet(hxc_acc) : None \notin ToSet(d.blocks)
  /\ Len(hxc_connected) <= Len(hxc_acc)

\* A list that has the entry for the last track of the last side is read no further than its
\* end, and of two entries for a track the first is meant (get_track_metadata).
StaysInList ==
  HasLast =>
    /\ pos <= Len(list)
    /\ \A e \in track_metadata :
         \E i \in 1..pos : list[i] = e /\ \A j \in 1..i - 1 : ~SameKey(list[j], e)

\* On a drive that has as many sectors as its disc, with these cylinders and records, block lba
\* is the lba'th sector of the disc and the geometry is the disc's, whatever the order of the
\* list and of the sectors on a track (read_all_sectors, compute_geometry).
AtItsPlace ==
  \A d \in ToSet(hxc_acc) : \A first \in {0, 1} :
    /\ d.sectors > 0 /\ Len(d.blocks) = hxc_header.tracks * d.sectors
    /\ \A s \in ToSet(d.blocks) :
         s.cylinder < hxc_header.tracks /\ s.record \in first..first + d.sectors - 1
    => /\ d.cylinders = hxc_header.tracks
       /\ \A lba \in 0..d.cylinders * d.sectors - 1 :
            HxcReadBlock(d, lba) = At(lba \div d.sectors, d.side, first + (lba % d.sectors))

\* Every drive has the sectors of its own side, each once, in the order of their addresses.
SidesApart ==
  \A d \in ToSet(hxc_acc) :
    /\ \A i \in DOMAIN d.blocks : d.blocks[i].head = d.side
    /\ \A i \in 2..Len(d.blocks) : Before(d.blocks[i - 1], d.blocks[i])

\* The drives of an HxC file have the sectors of their own side, each once, and
\* block lba of a drive with regular tracks is the lba'th sector of the disc,
\* whatever the order of the list and of the sectors on a track.  A list that has
\* its last entry is read no further, and the first of two for a track is meant.
HxcReadsInPlace == HxcTypeOK /\ StaysInList /\ SidesApart /\ AtItsPlace
=============================================================================
