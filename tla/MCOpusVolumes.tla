--------------------------- MODULE MCOpusVolumes ---------------------------
(* Three volumes on discs of four tracks of eight sectors, the first track *)
(* just large enough for three catalogues and the disc catalogue.          *)
EXTENDS OpusVolumes

CONSTANTS
  Tracks,       (* bound: the numbers of tracks of a disc                   *)
  MaxTrack      (* bound: the first tracks in sector 16, and of two others  *)

MCSector16 ==
  [total : {t * OpusTrack : t \in Tracks}, spt : {OpusTrack, OpusTrack + 1},
   tracks : [Label -> 0..MaxTrack]]

MCGeometry == [cylinders : Tracks, sectors : {OpusTrack, OpusTrack + 2}]

MCInit ==
  /\ sector16 \in MCSector16 /\ device \in {DiscCatalogue} \cup {t * OpusTrack : t \in Tracks}
  /\ valid \in {Label} \cup {Label \ {l} : l \in Label}
  /\ geometry = None /\ pc = "probe"
  /\ label = 1 /\ offset = 1 /\ locations = <<>> /\ at = 0 /\ next_sector = 0

MCNext == Loop \/ \E g \in MCGeometry : ProbeDone(g)

MCSpec == MCInit /\ [][MCNext]_vars
=============================================================================
