---------------------------- MODULE OpusVolumes ----------------------------
(***************************************************************************)
(* The volumes of an Opus DDOS disc (opus_cat.cc, dfs_volume.cc, and       *)
(* smells_like_opus_ddos of identify.cc).  Track 0 holds the catalogues,   *)
(* two sectors for each volume, and behind them the disc catalogue, which  *)
(* has one first track for each volume.  The disc catalogue is read twice: *)
(* when the image is probed, without a geometry and distrustfully, and     *)
(* when it is mounted, with the geometry that was guessed from it.         *)
(***************************************************************************)
EXTENDS CatalogData, Functions

CONSTANTS
  Labels,      (* how many volumes there may be, 8 in the program: A to H  *)
  Standard     (* the totals of sectors a disc may have: 630, 720, 1440    *)

ASSUME LabelsAssumption == Labels \in Nat \ {0}
ASSUME TrackZeroAssumption == OpusTrack >= 2 * Labels + 2
ASSUME StandardAssumption == Standard \subseteq Nat \ {0}

Label == 1..Labels
DiscCatalogue == 2 * Labels        \* the sector it is in, 16

Sector16 == [total : Nat, spt : Nat, tracks : [Label -> Nat]]
Geometry == [cylinders : Nat, sectors : Nat]       \* of one side
None == [cylinders |-> 0, sectors |-> 0]           \* no geometry is passed

VolumeLocation == [label : Label, start : Nat, len : Nat]

CatalogLocation(v) == 2 * (v.label - 1)

VARIABLES
  sector16,      \* what the disc catalogue says
  device,        \* how many sectors can be read
  valid,         \* the labels whose catalogue sectors hold a valid catalogue
  geometry,
  pc,
  label,         \* of OpusDiscCatalogue's first loop
  offset,        \* the place in sector 16 that is read next
  locations,
  at,            \* the place in locations: of the second loop, then of the probe's
  next_sector
vars == <<sector16, device, valid, geometry, pc, label, offset, locations, at, next_sector>>

disc == <<sector16, device, valid>>

Probing == geometry = None

-----------------------------------------------------------------------------
Init ==
  /\ sector16 \in Sector16 /\ device \in Nat /\ valid \in SUBSET Label
  /\ geometry = None /\ pc = "probe"
  /\ label = 1 /\ offset = 1 /\ locations = <<>> /\ at = 0 /\ next_sector = 0

Goto(place) == pc' = place /\ UNCHANGED <<disc, geometry, label, offset, locations, at, next_sector>>

\* Too short a device, or a number of sectors that cannot be Opus DDOS's.
Probe ==
  /\ pc = "probe"
  /\ Goto(IF device > DiscCatalogue /\ sector16.spt = OpusTrack THEN "labels" ELSE "not opus")

\* An exception ends a probe, but goes through to the user from a mount.
Thrown == IF Probing THEN "not opus" ELSE "thrown"

GeometryAgrees ==
  /\ sector16.total = geometry.cylinders * geometry.sectors
  /\ sector16.spt = geometry.sectors

Check ==
  /\ pc = "check"
  /\ Goto(IF GeometryAgrees THEN "labels" ELSE "thrown")

\* Wrong: the sector before the track.
LocationOfEarly(l, track) ==
  [label |-> l, start |-> track * sector16.spt - 1, len |-> 0]

LocationOf(l, track) == [label |-> l, start |-> track * sector16.spt, len |-> 0]

\* The place in sector 16 moves on only behind a volume that is there.
NextOffset(track) == IF track = 0 THEN offset ELSE offset + 1

AddVolume ==
  /\ pc = "labels" /\ label <= Labels
  /\ LET track == sector16.tracks[offset] IN
       IF track # 0 /\ ~Probing /\ track >= geometry.cylinders
       THEN Goto(Thrown)
       ELSE /\ locations' = IF track = 0 THEN locations
                            ELSE Append(locations, LocationOf(label, track))
            /\ offset' = NextOffset(track)
            /\ label' = label + 1
            /\ UNCHANGED <<disc, geometry, pc, at, next_sector>>

\* Volumes that start together may come in either order.
SortVolumes ==
  /\ pc = "labels" /\ label > Labels
  /\ \E p \in Bijection(DOMAIN locations, DOMAIN locations) :
       LET sorted == [n \in DOMAIN locations |-> locations[p[n]]] IN
         /\ \A m, n \in DOMAIN locations : m < n => sorted[m].start <= sorted[n].start
         /\ locations' = sorted
  /\ pc' = "lengths" /\ at' = Len(locations) /\ next_sector' = sector16.total
  /\ UNCHANGED <<disc, geometry, label, offset>>

\* Wrong: every length reaches to the end of the disc.
SetLengthToEnd ==
  /\ pc = "lengths" /\ at > 0
  /\ IF sector16.total < locations[at].start
     THEN Goto(Thrown)
     ELSE /\ locations' = [locations EXCEPT ![at].len = sector16.total - locations[at].start]
          /\ at' = at - 1
          /\ UNCHANGED <<disc, geometry, pc, label, offset, next_sector>>

\* From the last volume to the first: a volume ends where the next begins.
SetLength ==
  /\ pc = "lengths" /\ at > 0
  /\ IF next_sector < locations[at].start
     THEN Goto(Thrown)
     ELSE /\ locations' = [locations EXCEPT ![at].len = next_sector - locations[at].start]
          /\ next_sector' = locations[at].start
          /\ at' = at - 1
          /\ UNCHANGED <<disc, geometry, pc, label, offset>>

LengthsSet ==
  /\ pc = "lengths" /\ at = 0
  /\ IF Probing /\ locations = <<>> THEN Goto("not opus")
     ELSE /\ pc' = IF Probing THEN "roots" ELSE "mounted"
          /\ at' = 1
          /\ UNCHANGED <<disc, geometry, label, offset, locations, next_sector>>

\* The probe looks at the catalogue of each volume it found.
CheckRoot ==
  /\ pc = "roots" /\ at <= Len(locations)
  /\ IF locations[at].label \in valid
     THEN at' = at + 1 /\ UNCHANGED <<disc, geometry, pc, label, offset, locations, next_sector>>
     ELSE Goto("not opus")

\* Then at the end of the disc, and is satisfied.  The image is mounted with a
\* geometry that is large enough for the total.
ProbeDone(g) ==
  /\ pc = "roots" /\ at > Len(locations)
  /\ IF sector16.total \in Standard /\ sector16.total <= device
     THEN /\ g.cylinders * g.sectors >= sector16.total
          /\ geometry' = g
          /\ pc' = "check" /\ label' = 1 /\ offset' = 1 /\ locations' = <<>> /\ at' = 0
          /\ UNCHANGED <<disc, next_sector>>
     ELSE Goto("not opus")

Loop == Probe \/ Check \/ AddVolume \/ SortVolumes \/ SetLength \/ LengthsSet \/ CheckRoot

Next == Loop \/ \E g \in Geometry \ {None} : ProbeDone(g)

Spec == Init /\ [][Next]_vars

-----------------------------------------------------------------------------
(* What a mounted disc answers. *)

Volumes == Range(locations)

NoVolume == [label |-> 0, start |-> 0, len |-> 0]
Find(l) == IF \E v \in Volumes : v.label = l THEN CHOOSE v \in Volumes : v.label = l ELSE NoVolume

\* The volume for a letter, or for none (0): A if there are several.
Mount(key) == Find(IF key = 0 /\ Len(locations) > 1 THEN 1 ELSE key)

NoSector == -1

\* Wrong: a volume is read from the start of the disc.
ReadBlockFromZero(v, lba) == IF lba > v.len \/ lba >= device THEN NoSector ELSE lba

\* The sector of the disc that a volume shows as its block lba.
ReadBlock(v, lba) ==
  IF lba > v.len \/ v.start + lba >= device THEN NoSector ELSE v.start + lba

Data(v) == v.start .. v.start + v.len - 1

CatalogSectors(v) == {CatalogLocation(v), CatalogLocation(v) + 1}
-----------------------------------------------------------------------------
(* Properties. *)

\* Types: the loops stay inside sector 16 and the list of volumes.
TypeOK ==
  /\ sector16 \in Sector16 /\ device \in Nat /\ valid \subseteq Label
  /\ geometry \in Geometry
  /\ pc \in {"probe", "check", "labels", "lengths", "roots", "mounted", "thrown", "not opus"}
  /\ label \in 1..Labels + 1 /\ offset \in 1..label
  /\ locations \in Seq(VolumeLocation)
  /\ at \in 0..Len(locations) + 1 /\ next_sector \in Nat

\* The volumes of a mounted disc tile it from the first of them to the end: no
\* sector belongs to two, and none is left out.
VolumesTile ==
  pc = "mounted" =>
    /\ \A m, n \in DOMAIN locations : m # n => Data(locations[m]) \cap Data(locations[n]) = {}
    /\ \A m \in DOMAIN locations :
         locations[m].start .. sector16.total - 1 \subseteq UNION {Data(v) : v \in Volumes}
    /\ UNION {Data(v) : v \in Volumes} \subseteq 0..sector16.total - 1

\* The catalogues, the disc catalogue and the files of the volumes of a mounted
\* disc are apart from each other.
CatalogsApart ==
  pc = "mounted" =>
    \A v \in Volumes :
      /\ CatalogSectors(v) \subseteq 0..DiscCatalogue - 1
      /\ \A w \in Volumes :
           /\ Data(w) \cap (0..DiscCatalogue + 1) = {}
           /\ w.label # v.label => CatalogSectors(w) \cap CatalogSectors(v) = {}

\* Two volumes show the same sector only where one is read at its very end.
ReadsApart ==
  pc = "mounted" =>
    \A v, w \in Volumes : \A a \in 0..v.len, b \in 0..w.len :
      v.label # w.label /\ ReadBlock(v, a) = ReadBlock(w, b) /\ ReadBlock(v, a) # NoSector
        => a = v.len \/ b = w.len

\* Every volume whose byte of sector 16 is not zero is there.
EveryVolumeFound ==
  pc = "mounted" =>
    \A l \in Label : sector16.tracks[l] # 0 => \E v \in Volumes : v.label = l
=============================================================================
