----------------------------- MODULE OpusProofs -----------------------------
(***************************************************************************)
(* Whatever the disc catalogue of an Opus DDOS disc says, on discs of any  *)
(* size with any number of volumes: if the disc is mounted its volumes     *)
(* tile it, and neither the volumes nor the catalogues overlap.            *)
(*                                                                         *)
(* The lengths are set from the last volume to the first.  The invariant   *)
(* follows that loop: the volumes behind its place tile what lies behind   *)
(* next_sector, which is where the first of them starts.                   *)
(***************************************************************************)
EXTENDS OpusVolumes, TLAPS

Sorted == \A m, n \in DOMAIN locations : m < n => locations[m].start <= locations[n].start

(* The volumes behind place a tile the sectors from next_sector to the end. *)
TiledBehind(a) ==
  /\ next_sector <= sector16.total
  /\ a < Len(locations) => next_sector = locations[a + 1].start
  /\ \A m \in a + 1..Len(locations) :
       /\ locations[m].start >= next_sector
       /\ locations[m].start + locations[m].len <= sector16.total
  /\ \A m, n \in a + 1..Len(locations) :
       m < n => locations[m].start + locations[m].len <= locations[n].start
  /\ \A s \in next_sector..sector16.total - 1 :
       \E m \in a + 1..Len(locations) :
         locations[m].start <= s /\ s < locations[m].start + locations[m].len

Tiling ==
  /\ pc \in {"lengths", "roots", "mounted"} => Sorted
  /\ pc = "lengths" => TiledBehind(at)
  /\ pc \in {"roots", "mounted"} => TiledBehind(0)

(* Volumes start behind track 0 and have letters of their own. *)
Apart ==
  /\ pc # "probe" => sector16.spt = OpusTrack \/ pc = "not opus"
  /\ \A m \in DOMAIN locations : locations[m].start >= OpusTrack
  /\ pc = "labels" => \A m \in DOMAIN locations : locations[m].label < label
  /\ \A m, n \in DOMAIN locations : m # n => locations[m].label # locations[n].label

AtInside ==
  /\ pc = "lengths" => at <= Len(locations)
  /\ pc \in {"probe", "check"} => locations = <<>>

IndInv == TypeOK /\ AtInside /\ Tiling /\ Apart

-----------------------------------------------------------------------------
LEMMA EmptyList == <<>> \in Seq(VolumeLocation) /\ Len(<<>>) = 0 /\ DOMAIN <<>> = {}
OBVIOUS

LEMMA InitHolds == Init => IndInv
<1> SUFFICES ASSUME Init PROVE IndInv
  OBVIOUS
<1>1. None \in Geometry
  BY DEF None, Geometry
<1>2. TypeOK
  BY <1>1, EmptyList, LabelsAssumption DEF Init, TypeOK
<1> QED BY <1>2, EmptyList DEF Init, IndInv, AtInside, Tiling, Apart

(* The parts of the state that the steps read. *)
LEMMA Typed ==
  ASSUME TypeOK
  PROVE  /\ sector16.total \in Nat /\ sector16.spt \in Nat
         /\ \A l \in Label : sector16.tracks[l] \in Nat
         /\ Len(locations) \in Nat /\ DOMAIN locations = 1..Len(locations)
         /\ \A m \in DOMAIN locations :
              /\ locations[m] \in VolumeLocation
              /\ locations[m].label \in Label
              /\ locations[m].start \in Nat /\ locations[m].len \in Nat
<1>1. /\ sector16.total \in Nat /\ sector16.spt \in Nat
      /\ \A l \in Label : sector16.tracks[l] \in Nat
  BY DEF TypeOK, Sector16
<1> locations \in Seq(VolumeLocation)
  BY DEF TypeOK
<1>2. Len(locations) \in Nat /\ DOMAIN locations = 1..Len(locations)
  OBVIOUS
<1>3. \A m \in DOMAIN locations : locations[m] \in VolumeLocation
  OBVIOUS
<1>4. \A v \in VolumeLocation : v.label \in Label /\ v.start \in Nat /\ v.len \in Nat
  BY DEF VolumeLocation
<1> QED BY <1>1, <1>2, <1>3, <1>4

(* A step to another place that leaves the volumes alone. *)
LEMMA GotoHolds ==
  ASSUME IndInv, NEW place, Goto(place),
         place \in {"labels", "thrown", "not opus"},
         place = "labels" => pc \in {"probe", "check"} /\ locations = <<>>,
         pc = "probe" => place = "not opus" \/ sector16.spt = OpusTrack,
         pc # "not opus"
  PROVE  IndInv'
<1>1. TypeOK'
  BY DEF IndInv, TypeOK, Goto, disc
<1>2. AtInside' /\ Tiling'
  BY DEF AtInside, Tiling, Goto
<1>3. Apart'
  <2>1. UNCHANGED <<sector16, locations, label>> /\ pc' = place
    BY DEF Goto, disc
  <2>2. sector16.spt = OpusTrack \/ pc' = "not opus"
    BY <2>1 DEF IndInv, Apart
  <2>3. place = "labels" => DOMAIN locations = {}
    BY EmptyList
  <2> QED BY <2>1, <2>2, <2>3 DEF IndInv, Apart
<1> QED BY <1>1, <1>2, <1>3 DEF IndInv

LEMMA Product == \A a, b \in Nat : a # 0 => a * b \in Nat /\ a * b >= b
OBVIOUS

LEMMA AddVolumeHolds == IndInv /\ AddVolume => IndInv'
<1> SUFFICES ASSUME IndInv, AddVolume PROVE IndInv'
  OBVIOUS
<1> DEFINE track == sector16.tracks[offset]
           loc == LocationOf(label, track)
<1>1. offset \in Label /\ label \in Label /\ track \in Nat
  BY Typed, LabelsAssumption DEF IndInv, TypeOK, AddVolume, Label
<1> Len(locations) \in Nat /\ at \in 0..Len(locations) + 1
  BY Typed DEF IndInv, TypeOK
<1>0. label \in 1..Labels /\ offset \in 1..label /\ Labels \in Nat
  BY <1>1, LabelsAssumption DEF IndInv, TypeOK, Label
<1>2. CASE track # 0 /\ ~Probing /\ track >= geometry.cylinders
  <2>1. Goto(Thrown)
    BY <1>2 DEF AddVolume
  <2> QED BY <2>1, GotoHolds DEF AddVolume, Thrown
<1>3. CASE ~(track # 0 /\ ~Probing /\ track >= geometry.cylinders)
  <2>1. /\ locations' = IF track = 0 THEN locations ELSE Append(locations, loc)
        /\ offset' = NextOffset(track) /\ label' = label + 1
        /\ UNCHANGED <<disc, geometry, pc, at, next_sector>> /\ pc = "labels"
    BY <1>3 DEF AddVolume
  <2>2. CASE track = 0
    <3>1. locations' = locations /\ offset' = offset
      BY <2>1, <2>2 DEF NextOffset
    <3>2. UNCHANGED <<sector16, device, valid, geometry, pc, at, next_sector, locations, offset>>
      BY <2>1, <3>1 DEF disc
    <3>3. TypeOK'
      <4>1. label' \in 1..Labels + 1 /\ offset' \in 1..label'
        BY <1>0, <2>1, <3>2
      <4> QED BY <3>2, <4>1 DEF IndInv, TypeOK
    <3>4. Apart'
      <4>1. \A m \in DOMAIN locations : locations[m].label < label + 1
        BY <1>1, <2>1, Typed DEF IndInv, Apart, Label
      <4> QED BY <2>1, <3>2, <4>1 DEF IndInv, Apart
    <3> QED BY <2>1, <3>2, <3>3, <3>4 DEF IndInv, AtInside, Tiling
  <2>3. CASE track # 0
    <3>1. locations' = Append(locations, loc) /\ offset' = offset + 1
      BY <2>1, <2>3 DEF NextOffset
    <3>2. sector16.spt = OpusTrack
      BY <2>1 DEF IndInv, Apart
    <3>3. track * sector16.spt \in Nat /\ track * sector16.spt >= OpusTrack
      BY <1>1, <2>3, <3>2, Product, OpusTrackAssumption
    <3>4. loc \in VolumeLocation /\ loc.label = label /\ loc.start >= OpusTrack
      BY <1>1, <3>3 DEF LocationOf, VolumeLocation
    <3>5. /\ locations' \in Seq(VolumeLocation) /\ Len(locations') = Len(locations) + 1
          /\ DOMAIN locations' = 1..Len(locations) + 1
          /\ locations'[Len(locations) + 1] = loc
          /\ \A m \in DOMAIN locations : locations'[m] = locations[m]
      <4>1. locations \in Seq(VolumeLocation)
        BY DEF IndInv, TypeOK
      <4> QED BY <3>1, <3>4, <4>1
    <3>6. TypeOK'
      <4>1. UNCHANGED <<sector16, device, valid, geometry, pc, at, next_sector>>
        BY <2>1 DEF disc
      <4>2. at \in 0..Len(locations') + 1
        BY <3>5
      <4>3. label' \in 1..Labels + 1 /\ offset' \in 1..label'
        BY <1>0, <2>1, <3>1
      <4> QED BY <3>5, <4>1, <4>2, <4>3 DEF IndInv, TypeOK
    <3>7. Apart'
      <4>1. \A m \in DOMAIN locations' : m \in DOMAIN locations \/ m = Len(locations) + 1
        BY <3>5, Typed DEF IndInv
      <4>2. \A m \in DOMAIN locations : locations[m].label < label /\ locations[m].label \in Nat
        BY <2>1, Typed DEF IndInv, Apart, Label
      <4>3. \A m \in DOMAIN locations' : locations'[m].start >= OpusTrack
        BY <3>4, <3>5, <4>1 DEF IndInv, Apart
      <4>4. \A m \in DOMAIN locations' : locations'[m].label < label'
        BY <1>1, <2>1, <3>4, <3>5, <4>1, <4>2 DEF Label
      <4>5. ASSUME NEW m \in DOMAIN locations', NEW n \in DOMAIN locations', m # n
            PROVE  locations'[m].label # locations'[n].label
        <5>1. label \in Nat
          BY <1>1 DEF Label
        <5>2. CASE m \in DOMAIN locations /\ n \in DOMAIN locations
          BY <3>5, <4>5, <5>2 DEF IndInv, Apart
        <5>3. CASE m \in DOMAIN locations /\ n = Len(locations) + 1
          BY <3>4, <3>5, <4>2, <5>1, <5>3
        <5>4. CASE m = Len(locations) + 1 /\ n \in DOMAIN locations
          BY <3>4, <3>5, <4>2, <5>1, <5>4
        <5> QED BY <4>1, <4>5, <5>2, <5>3, <5>4
      <4> QED BY <2>1, <3>2, <4>3, <4>4, <4>5 DEF Apart, disc
    <3> QED BY <2>1, <3>6, <3>7 DEF IndInv, AtInside, Tiling
  <2> QED BY <2>2, <2>3
<1> QED BY <1>2, <1>3

LEMMA SortVolumesHolds == IndInv /\ SortVolumes => IndInv'
<1> SUFFICES ASSUME IndInv, SortVolumes PROVE IndInv'
  OBVIOUS
<1>1. PICK p \in Bijection(DOMAIN locations, DOMAIN locations) :
        LET sorted == [n \in DOMAIN locations |-> locations[p[n]]] IN
          /\ \A m, n \in DOMAIN locations : m < n => sorted[m].start <= sorted[n].start
          /\ locations' = sorted
  BY DEF SortVolumes
<1>2. /\ p \in [DOMAIN locations -> DOMAIN locations]
      /\ \A m, n \in DOMAIN locations : p[m] = p[n] => m = n
  BY DEF Bijection, Injection, IsInjective
<1>3. /\ locations' \in Seq(VolumeLocation) /\ DOMAIN locations' = DOMAIN locations
      /\ Len(locations') = Len(locations)
      /\ \A n \in DOMAIN locations : locations'[n] = locations[p[n]]
  BY <1>1, <1>2, Typed DEF IndInv
<1>4. pc = "labels" /\ pc' = "lengths" /\ at' = Len(locations) /\ next_sector' = sector16.total
      /\ UNCHANGED <<sector16, device, valid, geometry, label, offset>>
  BY DEF SortVolumes, disc
<1>5. TypeOK' /\ AtInside'
  BY <1>3, <1>4, Typed DEF IndInv, TypeOK, AtInside
<1>6. Sorted'
  BY <1>1, <1>3 DEF Sorted
<1>7. TiledBehind(at)'
  <2>1. at' + 1..Len(locations') = {}
    BY <1>3, <1>4, Typed DEF IndInv
  <2>2. next_sector'..sector16'.total - 1 = {}
    BY <1>4, Typed DEF IndInv
  <2> QED BY <1>3, <1>4, <2>1, <2>2, Typed DEF IndInv, TiledBehind
<1>8. Apart'
  BY <1>2, <1>3, <1>4, Typed DEF IndInv, Apart
<1> QED BY <1>4, <1>5, <1>6, <1>7, <1>8 DEF IndInv, Tiling

LEMMA SetLengthHolds == IndInv /\ SetLength => IndInv'
<1> SUFFICES ASSUME IndInv, SetLength PROVE IndInv'
  OBVIOUS
<1> DEFINE here == locations[at]
<1>1. /\ pc = "lengths" /\ at \in DOMAIN locations /\ at \in Nat /\ at > 0
      /\ at <= Len(locations) /\ next_sector \in Nat
  BY Typed DEF IndInv, TypeOK, AtInside, SetLength
<1>2. here \in VolumeLocation /\ here.start \in Nat /\ here.label \in Label
  BY <1>1, Typed DEF IndInv
<1>3. CASE next_sector < here.start
  <2>1. Goto(Thrown)
    BY <1>3 DEF SetLength
  <2> QED BY <1>1, <2>1, GotoHolds DEF Thrown
<1>4. CASE ~(next_sector < here.start)
  <2>1. /\ locations' = [locations EXCEPT ![at].len = next_sector - here.start]
        /\ next_sector' = here.start /\ at' = at - 1
        /\ UNCHANGED <<sector16, device, valid, geometry, pc, label, offset>>
    BY <1>4 DEF SetLength, disc
  <2>2. next_sector - here.start \in Nat
    BY <1>1, <1>2, <1>4
  <2>3. [here EXCEPT !.len = next_sector - here.start] \in VolumeLocation
    BY <1>2, <2>2 DEF VolumeLocation
  <2>4. /\ locations' \in Seq(VolumeLocation) /\ DOMAIN locations' = DOMAIN locations
        /\ Len(locations') = Len(locations)
        /\ \A m \in DOMAIN locations :
             /\ locations'[m].start = locations[m].start
             /\ locations'[m].label = locations[m].label
             /\ m # at => locations'[m].len = locations[m].len
        /\ locations'[at].len = next_sector - here.start
    <3>1. locations' = [locations EXCEPT ![at] = [here EXCEPT !.len = next_sector - here.start]]
      BY <2>1
    <3>2. /\ locations' \in Seq(VolumeLocation) /\ DOMAIN locations' = DOMAIN locations
          /\ Len(locations') = Len(locations)
      BY <1>1, <2>3, <3>1 DEF IndInv, TypeOK
    <3>3. \A m \in DOMAIN locations : m # at => locations'[m] = locations[m]
      BY <3>1
    <3>4. locations'[at] = [here EXCEPT !.len = next_sector - here.start]
      BY <1>1, <3>1
    <3>5. /\ locations'[at].start = here.start /\ locations'[at].label = here.label
          /\ locations'[at].len = next_sector - here.start
      BY <1>2, <3>4 DEF VolumeLocation
    <3> QED BY <3>2, <3>3, <3>5
  <2>5. TypeOK' /\ AtInside'
    BY <1>1, <1>2, <2>1, <2>4, Typed DEF IndInv, TypeOK, AtInside
  <2>6. Sorted'
    BY <1>1, <2>4 DEF IndInv, Tiling, Sorted
  <2>7. TiledBehind(at)'
    <3>1. TiledBehind(at) /\ Sorted
      BY <1>1 DEF IndInv, Tiling
    <3>2. /\ Len(locations) \in Nat /\ sector16.total \in Nat
          /\ \A m \in at + 1..Len(locations) :
               m \in DOMAIN locations /\ locations[m].start \in Nat /\ locations[m].len \in Nat
      BY <1>1, Typed DEF IndInv
    <3>3. /\ at' + 1 = at /\ at..Len(locations) = {at} \cup (at + 1..Len(locations))
          /\ at \notin at + 1..Len(locations)
      BY <1>1, <2>1, <3>2
    <3>4. next_sector' <= sector16'.total
      BY <1>1, <1>2, <1>4, <2>1, <3>1, <3>2 DEF TiledBehind
    <3>5. \A m \in at' + 1..Len(locations') :
            /\ locations'[m].start >= next_sector'
            /\ locations'[m].start + locations'[m].len <= sector16'.total
      BY <1>1, <1>2, <1>4, <2>1, <2>4, <3>1, <3>2, <3>3 DEF TiledBehind
    <3>6. \A m, n \in at' + 1..Len(locations') :
            m < n => locations'[m].start + locations'[m].len <= locations'[n].start
      BY <1>1, <1>2, <2>1, <2>4, <3>1, <3>2, <3>3 DEF TiledBehind
    <3>7. ASSUME NEW s \in next_sector'..sector16'.total - 1
          PROVE  \E m \in at' + 1..Len(locations') :
                   locations'[m].start <= s /\ s < locations'[m].start + locations'[m].len
      <4>1. CASE s < next_sector
        BY <1>1, <1>2, <2>1, <2>4, <3>3, <4>1
      <4>2. CASE s >= next_sector
        <5>1. s \in next_sector..sector16.total - 1
          BY <1>1, <1>2, <2>1, <3>2, <4>2
        <5>2. PICK m \in at + 1..Len(locations) :
                locations[m].start <= s /\ s < locations[m].start + locations[m].len
          BY <3>1, <5>1 DEF TiledBehind
        <5>3. locations'[m].start = locations[m].start /\ locations'[m].len = locations[m].len
          BY <2>4, <3>2, <3>3
        <5> QED BY <2>4, <3>3, <5>2, <5>3
      <4> QED BY <1>1, <1>2, <2>1, <3>2, <4>1, <4>2
    <3>8. at' < Len(locations') => next_sector' = locations'[at' + 1].start
      BY <1>1, <2>1, <2>4, <3>3
    <3> QED BY <3>4, <3>5, <3>6, <3>7, <3>8 DEF TiledBehind
  <2>8. Apart'
    BY <1>1, <2>1, <2>4 DEF IndInv, Apart
  <2> QED BY <1>1, <2>1, <2>5, <2>6, <2>7, <2>8 DEF IndInv, Tiling
<1> QED BY <1>3, <1>4

LEMMA NextHolds == IndInv /\ [Next]_vars => IndInv'
<1> SUFFICES ASSUME IndInv, [Next]_vars PROVE IndInv'
  OBVIOUS
<1>1. CASE Probe
  <2>1. pc = "probe" /\ locations = <<>>
    BY <1>1 DEF Probe, IndInv, AtInside
  <2>2. CASE device > DiscCatalogue /\ sector16.spt = OpusTrack
    <3>1. Goto("labels")
      BY <1>1, <2>2 DEF Probe
    <3> QED BY <2>1, <2>2, <3>1, GotoHolds
  <2>3. CASE ~(device > DiscCatalogue /\ sector16.spt = OpusTrack)
    <3>1. Goto("not opus")
      BY <1>1, <2>3 DEF Probe
    <3> QED BY <2>1, <3>1, GotoHolds
  <2> QED BY <2>2, <2>3
<1>2. CASE Check
  <2>1. pc = "check" /\ locations = <<>>
    BY <1>2 DEF Check, IndInv, AtInside
  <2>2. Goto("labels") \/ Goto("thrown")
    BY <1>2 DEF Check
  <2> QED BY <2>1, <2>2, GotoHolds
<1>3. CASE AddVolume
  BY <1>3, AddVolumeHolds
<1>4. CASE SortVolumes
  BY <1>4, SortVolumesHolds
<1>5. CASE SetLength
  BY <1>5, SetLengthHolds
<1>6. CASE LengthsSet
  <2>1. CASE Probing /\ locations = <<>>
    BY <1>6, <2>1, GotoHolds DEF LengthsSet
  <2>2. CASE ~(Probing /\ locations = <<>>)
    <3>1. /\ pc = "lengths" /\ at = 0 /\ at' = 1 /\ pc' \in {"roots", "mounted"}
          /\ UNCHANGED <<sector16, device, valid, geometry, label, offset, locations, next_sector>>
      BY <1>6, <2>2 DEF LengthsSet, disc
    <3>2. TypeOK'
      <4>1. 1 \in 0..Len(locations) + 1
        BY Typed DEF IndInv
      <4> QED BY <3>1, <4>1 DEF IndInv, TypeOK
    <3>3. TiledBehind(0)
      BY <3>1 DEF IndInv, Tiling
    <3>4. TiledBehind(0)' /\ Sorted'
      BY <3>1, <3>3 DEF TiledBehind, IndInv, Tiling, Sorted
    <3> QED BY <3>1, <3>2, <3>4 DEF IndInv, AtInside, Tiling, Apart
  <2> QED BY <2>1, <2>2
<1>7. CASE CheckRoot
  <2>1. CASE locations[at].label \in valid
    <3>1. /\ pc = "roots" /\ at <= Len(locations) /\ at' = at + 1
          /\ UNCHANGED <<sector16, device, valid, geometry, pc, label, offset, locations, next_sector>>
      BY <1>7, <2>1 DEF CheckRoot, disc
    <3>2. TypeOK'
      BY <3>1, Typed DEF IndInv, TypeOK
    <3>3. TiledBehind(0)' /\ Sorted'
      BY <3>1 DEF IndInv, Tiling, TiledBehind, Sorted
    <3> QED BY <3>1, <3>2, <3>3 DEF IndInv, AtInside, Tiling, Apart
  <2>2. CASE locations[at].label \notin valid
    BY <1>7, <2>2, GotoHolds DEF CheckRoot
  <2> QED BY <2>1, <2>2
<1>8. CASE \E g \in Geometry \ {None} : ProbeDone(g)
  <2> PICK g \in Geometry \ {None} : ProbeDone(g)
    BY <1>8
  <2>1. CASE sector16.total \in Standard /\ sector16.total <= device
    <3>1. /\ pc = "roots" /\ pc' = "check" /\ geometry' = g /\ label' = 1 /\ offset' = 1
          /\ locations' = <<>> /\ at' = 0 /\ UNCHANGED <<sector16, device, valid, next_sector>>
      BY <2>1 DEF ProbeDone, disc
    <3>2. TypeOK'
      BY <3>1, LabelsAssumption DEF IndInv, TypeOK
    <3>3. Apart'
      BY <3>1 DEF IndInv, Apart
    <3> QED BY <3>1, <3>2, <3>3 DEF IndInv, AtInside, Tiling
  <2>2. CASE ~(sector16.total \in Standard /\ sector16.total <= device)
    BY <2>2, GotoHolds DEF ProbeDone
  <2> QED BY <2>1, <2>2
<1>9. CASE UNCHANGED vars
  BY <1>9 DEF vars, disc, IndInv, TypeOK, AtInside, Tiling, TiledBehind, Sorted, Apart
<1> QED BY <1>1, <1>2, <1>3, <1>4, <1>5, <1>6, <1>7, <1>8, <1>9 DEF Next, Loop

LEMMA Invariance == Spec => []IndInv
BY InitHolds, NextHolds, PTL DEF Spec

(* The loops of OpusDiscCatalogue over sector 16 and over the volumes stay  *)
(* inside them, and each location has a letter, a start and a length.      *)
THEOREM TypeCorrect == Spec => []TypeOK
<1>1. IndInv => TypeOK
  BY DEF IndInv
<1> QED BY <1>1, Invariance, PTL

(* Whatever tracks the disc catalogue gives its volumes, the disc is refused *)
(* or its volumes do not overlap and leave no sector out between the first  *)
(* of them and the disc's end (OpusDiscCatalogue, init_volumes).            *)
THEOREM VolumesTiled == Spec => []VolumesTile
<1>1. ASSUME IndInv PROVE VolumesTile
  <2> SUFFICES ASSUME pc = "mounted" PROVE VolumesTile
    BY DEF VolumesTile
  <2>1. /\ Len(locations) \in Nat /\ DOMAIN locations = 1..Len(locations)
        /\ sector16.total \in Nat
        /\ \A m \in DOMAIN locations : locations[m].start \in Nat /\ locations[m].len \in Nat
    BY <1>1, Typed DEF IndInv
  <2>2. TiledBehind(0)
    BY <1>1 DEF IndInv, Tiling
  <2>3. /\ \A m \in DOMAIN locations :
             /\ locations[m].start >= next_sector
             /\ locations[m].start + locations[m].len <= sector16.total
        /\ \A m, n \in DOMAIN locations :
             m < n => locations[m].start + locations[m].len <= locations[n].start
        /\ \A s \in next_sector..sector16.total - 1 :
             \E m \in DOMAIN locations :
               locations[m].start <= s /\ s < locations[m].start + locations[m].len
    BY <2>1, <2>2 DEF TiledBehind
  <2>4. ASSUME NEW m \in DOMAIN locations, NEW n \in DOMAIN locations, m # n
        PROVE  Data(locations[m]) \cap Data(locations[n]) = {}
    <3>1. m < n \/ n < m
      BY <2>1, <2>4
    <3>2. \/ locations[m].start + locations[m].len <= locations[n].start
          \/ locations[n].start + locations[n].len <= locations[m].start
      BY <2>3, <3>1
    <3>3. /\ locations[m].start \in Nat /\ locations[m].len \in Nat
          /\ locations[n].start \in Nat /\ locations[n].len \in Nat
      BY <2>1
    <3> QED BY <3>2, <3>3 DEF Data
  <2>5. ASSUME NEW m \in DOMAIN locations, NEW s \in locations[m].start .. sector16.total - 1
        PROVE  \E v \in Volumes : s \in Data(v)
    <3>1. next_sector \in Nat
      BY <1>1 DEF IndInv, TypeOK
    <3>2. s \in next_sector..sector16.total - 1
      BY <2>1, <2>3, <3>1
    <3>3. PICK n \in DOMAIN locations :
            locations[n].start <= s /\ s < locations[n].start + locations[n].len
      BY <2>3, <3>2
    <3>4. locations[n] \in Volumes /\ s \in Data(locations[n])
      BY <2>1, <3>2, <3>3 DEF Volumes, Range, Data
    <3> QED BY <3>4
  <2>6. ASSUME NEW v \in Volumes PROVE Data(v) \subseteq 0..sector16.total - 1
    <3>1. PICK m \in DOMAIN locations : v = locations[m]
      BY DEF Volumes, Range
    <3> QED BY <2>1, <2>3, <3>1 DEF Data
  <2> QED BY <2>4, <2>5, <2>6 DEF VolumesTile
<1> QED BY <1>1, Invariance, PTL

(* On a mounted disc the volumes' catalogues, the disc catalogue and the     *)
(* volumes' data have no sector in common (OpusDiscCatalogue, Volume).      *)
THEOREM CatalogsKeptApart == Spec => []CatalogsApart
<1>1. ASSUME IndInv PROVE CatalogsApart
  <2> SUFFICES ASSUME pc = "mounted", NEW v \in Volumes
               PROVE  /\ CatalogSectors(v) \subseteq 0..DiscCatalogue - 1
                      /\ \A w \in Volumes :
                           /\ Data(w) \cap (0..DiscCatalogue + 1) = {}
                           /\ w.label # v.label => CatalogSectors(w) \cap CatalogSectors(v) = {}
    BY DEF CatalogsApart
  <2>1. \A w \in Volumes : /\ w.label \in 1..Labels /\ w.label \in Nat
                           /\ w.start \in Nat /\ w.len \in Nat /\ w.start >= OpusTrack
    BY <1>1, Typed, LabelsAssumption DEF IndInv, Apart, Volumes, Range, Label
  <2>2. CatalogSectors(v) \subseteq 0..DiscCatalogue - 1
    BY <2>1, LabelsAssumption DEF CatalogSectors, CatalogLocation, DiscCatalogue
  <2>3. ASSUME NEW w \in Volumes PROVE Data(w) \cap (0..DiscCatalogue + 1) = {}
    BY <2>1, LabelsAssumption, TrackZeroAssumption, OpusTrackAssumption DEF Data, DiscCatalogue
  <2>4. ASSUME NEW w \in Volumes, w.label # v.label
        PROVE  CatalogSectors(w) \cap CatalogSectors(v) = {}
    BY <2>1, <2>4 DEF CatalogSectors, CatalogLocation
  <2> QED BY <2>2, <2>3, <2>4
<1> QED BY <1>1, Invariance, PTL

(* Two volumes of a mounted disc never show the same sector, but for the    *)
(* block behind the last of a volume, which Volume::read_block lets through. *)
THEOREM VolumesReadApart == Spec => []ReadsApart
<1>1. ASSUME IndInv PROVE ReadsApart
  <2> SUFFICES ASSUME pc = "mounted", NEW v \in Volumes, NEW w \in Volumes,
                      NEW a \in 0..v.len, NEW b \in 0..w.len,
                      v.label # w.label, ReadBlock(v, a) = ReadBlock(w, b),
                      ReadBlock(v, a) # NoSector, a # v.len, b # w.len
               PROVE  FALSE
    BY DEF ReadsApart
  <2>1. PICK m \in DOMAIN locations, n \in DOMAIN locations : v = locations[m] /\ w = locations[n]
    BY DEF Volumes, Range
  <2>2. /\ Len(locations) \in Nat /\ DOMAIN locations = 1..Len(locations)
        /\ v.start \in Nat /\ v.len \in Nat /\ w.start \in Nat /\ w.len \in Nat
    BY <1>1, <2>1, Typed DEF IndInv
  <2>3. TiledBehind(0)
    BY <1>1 DEF IndInv, Tiling
  <2>4. (m < n => v.start + v.len <= w.start) /\ (n < m => w.start + w.len <= v.start)
    BY <2>1, <2>2, <2>3 DEF TiledBehind
  <2>5. m < n \/ n < m
    BY <2>1, <2>2
  <2>6. v.start + a = w.start + b
    BY DEF ReadBlock
  <2>7. a \in Nat /\ b \in Nat /\ a < v.len /\ b < w.len
    BY <2>2
  <2>8. \/ v.start + v.len <= w.start
        \/ w.start + w.len <= v.start
    BY <2>4, <2>5
  <2> QED BY <2>2, <2>6, <2>7, <2>8
<1> QED BY <1>1, Invariance, PTL
=============================================================================
