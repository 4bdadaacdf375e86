---------------------------- MODULE CatalogData ----------------------------
(***************************************************************************)
(* What a catalogue says (dfs_catalog.cc, dfs_catalog.h).  A catalogue is  *)
(* one fragment, or two in a Watford DFS disc; a fragment is the total     *)
(* sector count and up to 31 entries.  Of an entry only the first sector   *)
(* and the length matter here: names decide nothing about sectors.         *)
(***************************************************************************)
EXTENDS Integers, Sequences

CONSTANTS
  SectorBytes,   (* SECTOR_BYTES, 256 in the program                       *)
  OpusTrack      (* the sectors of one track of an Opus volume, 18         *)

ASSUME SectorBytesAssumption == SectorBytes \in Nat \ {0}
ASSUME OpusTrackAssumption == OpusTrack \in Nat

Format == {"DFS", "WDFS", "HDFS", "OpusDDOS"}

CatalogSectorsForFormat(f) == IF f = "WDFS" THEN 4 ELSE 2

\* Opus DDOS keeps the catalogues of its volumes in a track of their own.
DataSectorsReservedForCatalog(f) ==
  IF f = "OpusDDOS" THEN 0 ELSE CatalogSectorsForFormat(f)

FragmentCount(f) == IF f = "WDFS" THEN 2 ELSE 1

Entry == [start : Nat, length : Nat]

\* `aligned': the position of the last entry is a multiple of 8.
Fragment == [aligned : BOOLEAN, total : Nat, entries : Seq(Entry)]

Empty(e) == e.length = 0

SectorsFor(length) ==
  (length \div SectorBytes) + (IF length % SectorBytes = 0 THEN 0 ELSE 1)

LastSector(e) == IF Empty(e) THEN e.start ELSE e.start + SectorsFor(e.length) - 1

(* The sectors that hold bytes of a file: none for an empty one. *)
Body(e) == IF Empty(e) THEN {} ELSE e.start..LastSector(e)

\* Within a fragment files are listed from the end of the disc backwards.
Descending(entries) ==
  \A i, j \in DOMAIN entries :
    i < j /\ ~Empty(entries[i]) /\ ~Empty(entries[j])
      => LastSector(entries[j]) < entries[i].start
=============================================================================
