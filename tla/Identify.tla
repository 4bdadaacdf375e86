------------------------------ MODULE Identify ------------------------------
(***************************************************************************)
(* How a sector image becomes a mounted drive (identify.cc, img_sdf.cc,    *)
(* dfs_filesystem.cc).  The format of the file system is probed first, for *)
(* its total of sectors; the candidate layouts the file name allows are    *)
(* then dropped one filter after another, and the first of the smallest    *)
(* that are left is taken.  Each side is then identified again, through    *)
(* its view, with the one layout that was chosen, and mounted.             *)
(*                                                                         *)
(* `disc' is the disc the image was made of and how: the code sees it only *)
(* through the operators of the first section.                             *)
(***************************************************************************)
EXTENDS Integers, FiniteSets, CatalogData

Disc == [format : Format,             \* the filing system that made it
         cylinders : {35, 40, 80}, heads : {1, 2}, sectors : {10, 16, 18},
         interleaved : BOOLEAN,       \* the layout of the image file
         ext : {"ssd", "sdd", "dsd", "ddd"}, gz : BOOLEAN,
         total : Nat,                 \* sectors of the file system of side 0
         topbit : BOOLEAN,            \* of the first byte of the title
         solidisk : BOOLEAN,          \* Solidisk's bit 10 of a first sector
         marked : BOOLEAN,            \* sector 2 begins with eight bytes 0xAA
         starts : SUBSET Nat,         \* first sectors of the files in sector 1
         second : BOOLEAN]            \* side 1 has a catalogue too

\* As the filing systems leave their discs: Opus DDOS has 18 sectors to a track, and the
\* counts of Acorn DFS and HDFS go up to 1023 sectors on a side.  A Watford catalogue has
\* its mark, and no file in its sectors 2 and 3; on another disc a file there may begin so.
Formatted(d) ==
  /\ d.total = d.cylinders * d.sectors * (IF d.format = "HDFS" THEN d.heads ELSE 1)
  /\ d.format = "OpusDDOS" => d.sectors = 18
  /\ d.format \in {"DFS", "HDFS"} => d.cylinders * d.sectors < 1024
  /\ d.interleaved => d.heads = 2
  /\ d.second => d.heads = 2
  /\ IF d.format = "WDFS" THEN d.marked /\ 2 \notin d.starts ELSE d.marked => 2 \in d.starts

VARIABLES
  disc,
  stage,      \* the place in the program
  format,     \* the format found in the file, then through the view of side 0
  total,      \* the total sector count found with it
  possible,   \* the layouts not eliminated
  chosen      \* the layout taken, as a set of at most one
ivars == <<disc, stage, format, total, possible, chosen>>

-----------------------------------------------------------------------------
(* What can be read from the image. *)

ImageSectors == disc.cylinders * disc.sectors * disc.heads

TwoSidedHdfs == disc.format = "HDFS" /\ disc.heads = 2

\* Sector 1 of a two-sided HDFS counts one side; that of Opus DDOS counts
\* volume A, here half of the disc.
StoredTotal == IF TwoSidedHdfs \/ disc.format = "OpusDDOS" THEN disc.total \div 2 ELSE disc.total

\* Bits 2 and 3 of byte 6 of sector 1, and the ten bits below them.
Bit2 == TwoSidedHdfs \/ disc.solidisk \/ (StoredTotal \div 1024) % 2 = 1
Bit3 == disc.format = "HDFS"
TenBits == StoredTotal % 1024

\* Where side 1 begins in the image.
SecondSide == IF disc.interleaved THEN disc.sectors ELSE disc.cylinders * disc.sectors

HasValidDfsCatalog(lba) ==
  \/ lba = 0 /\ TenBits > 2
  \/ lba = SecondSide /\ disc.second /\ TenBits > 2

GetHdfsSectorCount == TenBits * (IF Bit2 THEN 2 ELSE 1)

GetDfsSectorCount == TenBits + (IF Bit2 THEN 1024 ELSE 0)

\* The count the catalogue itself gives, once the disc is mounted.
CatalogTotal ==
  TenBits + (IF format = "HDFS" /\ disc.topbit /\ (TenBits \div 512) % 2 = 0 THEN 512 ELSE 0)

\* Only the low byte of a first sector is in the last byte of an entry.
SmellsLikeWatford ==
  /\ \A s \in disc.starts : s % 256 # 2
  /\ disc.marked

\* Wrong: it is sought only in a file, not through a view.
SmellsLikeOpusInFile(at) == disc.format = "OpusDDOS" /\ chosen = {} /\ at = 16

\* The disc catalogue of Opus DDOS, when `at' is what is read as sector 16.
SmellsLikeOpusDdos(at) ==
  /\ disc.format = "OpusDDOS" /\ at = 16
  /\ disc.total \in {630, 720, 1440} /\ disc.total <= ImageSectors

SingleSidedFilesystem == ~ (format = "HDFS" /\ Bit2)

-----------------------------------------------------------------------------
(* Layouts, and the views an image file makes of one. *)

Layout == [cylinders : {35, 40, 80}, heads : {1, 2}, sectors : {10, 16, 18},
           interleaved : BOOLEAN]

TotalSectors(c) == c.cylinders * c.heads * c.sectors
SideSectorsOf(c) == c.cylinders * c.sectors

\* The layouts a name allows; no hint is taken from a name that ends in .gz.
MakeCandidateList ==
  {c \in Layout :
     disc.gz \/ IF disc.ext \in {"ssd", "sdd"} THEN ~c.interleaved
                ELSE c.interleaved /\ c.heads = 2}
  \cap {c \in Layout :
     disc.gz \/ (c.sectors = 10 <=> disc.ext \in {"ssd", "dsd"})}

\* Their order: encoding, sides, tracks, sectors, interleaving.
ListedBefore(c, d) ==
  LET rank(x) == 100 * (IF x.sectors = 10 THEN 0 ELSE 1) + 50 * (2 - x.heads)
                 + 10 * (CASE x.cylinders = 40 -> 0 [] x.cylinders = 80 -> 1 [] OTHER -> 2)
                 + 2 * (IF x.sectors = 16 THEN 1 ELSE 0) + (IF x.interleaved THEN 1 ELSE 0)
  IN rank(c) < rank(d)

\* Wrong: the larger layout is preferred.
SmallerIsLarger(c, d) == TotalSectors(c) > TotalSectors(d)

\* compare_formats: fewer sectors first, but sixteen to a track last.
Smaller(c, d) ==
  IF (c.sectors = 16) = (d.sectors = 16) THEN TotalSectors(c) < TotalSectors(d)
  ELSE d.sectors = 16

\* Wrong: both sides count, though the file system is on one.
LargeEnoughTogether(c) == TotalSectors(c) >= total

LargeEnough(c) ==
  (IF SingleSidedFilesystem THEN SideSectorsOf(c) ELSE TotalSectors(c)) >= total

OtherSideHasCatalogToo(c) ==
  c.heads = 1 \/ HasValidDfsCatalog(c.sectors * (IF c.interleaved THEN 1 ELSE c.cylinders))

\* The extension, .gz aside, says how the views are laid out.
InterleavedFile == disc.ext \in {"dsd", "ddd"}

\* The sector of the file that the view of a side shows at n.
ShownFrom(c, side, n) ==
  IF InterleavedFile
  THEN (n \div c.sectors) * 2 * c.sectors + side * c.sectors + (n % c.sectors)
  ELSE side * SideSectorsOf(c) + n

-----------------------------------------------------------------------------
Start ==
  /\ stage = "hdfs" /\ format = "DFS" /\ total = 0
  /\ possible = {} /\ chosen = {}

IdentifyInit == disc \in Disc /\ Formatted(disc) /\ Start

\* The sector read as sector 16: of the file at first, through the view later.
Sector16 == IF chosen = {} THEN 16 ELSE ShownFrom(CHOOSE c \in chosen : TRUE, 0, 16)

Found(f, sectors) ==
  /\ format' = f /\ total' = sectors
  /\ stage' = "geometry"
  /\ UNCHANGED <<disc, possible, chosen>>

Goto(place) == stage' = place /\ UNCHANGED <<disc, format, total, possible, chosen>>

ProbeHdfs ==
  /\ stage = "hdfs"
  /\ IF Bit3 THEN Found("HDFS", GetHdfsSectorCount) ELSE Goto("watford")

ProbeWatford ==
  /\ stage = "watford"
  /\ IF SmellsLikeWatford THEN Found("WDFS", GetDfsSectorCount) ELSE Goto("opus")

ProbeOpus ==
  /\ stage = "opus"
  /\ IF SmellsLikeOpusDdos(Sector16) THEN Found("OpusDDOS", disc.total) ELSE Goto("acorn")

\* Failing here, a file is not recognised, and a side counts as unformatted.
ProbeAcorn ==
  /\ stage = "acorn"
  /\ IF HasValidDfsCatalog(0) THEN Found("DFS", GetDfsSectorCount)
     ELSE Goto(IF chosen = {} THEN "unrecognised" ELSE "unformatted")

\* The whole list for a file; for a side just its own geometry, one-sided.
Candidates ==
  IF chosen = {} THEN MakeCandidateList
  ELSE {[c EXCEPT !.heads = 1, !.interleaved = FALSE] : c \in chosen}

DropTooSmall ==
  /\ stage = "geometry" /\ stage' = "other side"
  /\ possible' = {c \in Candidates : LargeEnough(c)}
  /\ UNCHANGED <<disc, format, total, chosen>>

\* Two-sided layouts with no catalogue on the other side, if there is a choice.
DropWithoutOtherCatalog ==
  /\ stage = "other side" /\ stage' = "pick"
  /\ possible' = IF Cardinality(possible) > 1
                 THEN {c \in possible : OtherSideHasCatalogToo(c)} ELSE possible
  /\ UNCHANGED <<disc, format, total, chosen>>

Smallest ==
  {c \in possible :
     \A d \in possible \ {c} : Smaller(c, d) \/ (~Smaller(d, c) /\ ListedBefore(c, d))}

\* The layout of a file is taken and its sides are connected; the format of a
\* side is taken, and the side mounted.
PickSmallest ==
  /\ stage = "pick"
  /\ IF possible = {}
     THEN Goto(IF chosen = {} THEN "unrecognised" ELSE "unformatted")
     ELSE IF chosen = {}
     THEN chosen' = Smallest /\ stage' = "hdfs" /\ UNCHANGED <<disc, format, total, possible>>
     ELSE Goto("mount")

\* The constructor of the file system: an Opus DDOS disc catalogue must agree
\* with the geometry, and the recognition bits with the format.
Mount ==
  /\ stage = "mount"
  /\ \E c \in possible :
       IF format = "OpusDDOS" /\ (disc.total # TotalSectors(c) \/ c.sectors # 18)
       THEN Goto("bad file system")
       ELSE IF /\ Bit3 <=> format = "HDFS"
               /\ ~Bit3 /\ Bit2 => format = "WDFS"
       THEN Goto("mounted")
       ELSE Goto("assertion failed")

IdentifyNext ==
  \/ ProbeHdfs \/ ProbeWatford \/ ProbeOpus \/ ProbeAcorn
  \/ DropTooSmall \/ DropWithoutOtherCatalog \/ PickSmallest \/ Mount

\* Identification is straight-line code: it runs on.
IdentifySpec == IdentifyInit /\ [][IdentifyNext]_ivars /\ WF_ivars(IdentifyNext)
-----------------------------------------------------------------------------
(* Properties. *)

Outcome == {"unrecognised", "unformatted", "bad file system", "assertion failed", "mounted"}

\* Types: one layout is chosen, and once a side is looked at it stays chosen.
IdentifyTypeOK ==
  /\ disc \in Disc
  /\ stage \in {"hdfs", "watford", "opus", "acorn", "geometry", "other side", "pick", "mount"}
               \cup Outcome
  /\ format \in Format /\ total \in Nat
  /\ possible \subseteq Layout /\ chosen \subseteq Layout
  /\ Cardinality(chosen) <= 1
  /\ stage = "mount" => Cardinality(possible) = 1 /\ chosen # {}

\* The manual lists Solidisk DFS and HDFS as not supported.
Supported == ~TwoSidedHdfs /\ ~disc.solidisk

\* The image is named as the manual's table of extensions has it: interleaved
\* files have two sides, and single density has ten sectors to a track.
Conventional ==
  /\ disc.interleaved <=> InterleavedFile
  /\ disc.interleaved => disc.heads = 2
  /\ disc.sectors = 10 <=> disc.ext \in {"ssd", "dsd"}

Chosen == CHOOSE c \in chosen : TRUE

TrueLayout == [cylinders |-> disc.cylinders, heads |-> disc.heads,
               sectors |-> disc.sectors, interleaved |-> disc.interleaved]

\* Side 0 is shown as the disc has it, every sector of it.
SideZeroInPlace ==
  \A n \in 0..disc.total - 1 :
    n < SideSectorsOf(Chosen) /\ ShownFrom(Chosen, 0, n) = ShownFrom(TrueLayout, 0, n)

\* A Watford disc with a file whose first sector is 258, 514 or 770.
TakenForAcorn == disc.format = "WDFS" /\ \E s \in disc.starts : s % 256 = 2

\* The side that is mounted has every sector its catalogue speaks of, unless
\* it is HDFS that adds a bit to the count.
MountedFits ==
  stage = "mounted" /\ ~disc.topbit => \A c \in possible : CatalogTotal <= TotalSectors(c)

\* Whatever is guessed for an image named by the conventions, rightly or not,
\* every sector of side 0 is shown in its place; if it is compressed, unless
\* it has 16 sectors to a track.  And the types hold, and the side that is mounted
\* is as large as it says.
PlacesSectors ==
  /\ IdentifyTypeOK /\ MountedFits
  /\ chosen # {} /\ Conventional /\ Supported /\ ~ (disc.gz /\ disc.sectors = 16)
       => SideZeroInPlace

\* What is found through the view of side 0 is what was found in the file,
\* though the two read some of their sectors from different places.
SidesAgree ==
  [][chosen # {} /\ Conventional => UNCHANGED <<format, total>>]_ivars

\* A disc named by the conventions is mounted as what made it, whatever its
\* files begin with, but for Watford discs taken for Acorn ones; and if it has a
\* catalogue on each of its sides it is always recognised, and its first side
\* mounted.
ConventionalIsMounted ==
  Conventional /\ ~TakenForAcorn =>
    /\ stage = "mounted" => format = disc.format
    /\ stage \in Outcome /\ (disc.heads = 1 \/ disc.second) /\ Supported => stage = "mounted"

=============================================================================
