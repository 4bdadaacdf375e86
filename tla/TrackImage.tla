----------------------------- MODULE TrackImage -----------------------------
(***************************************************************************)
(* What the two image formats that hold tracks, and not sectors, share:    *)
(* the sectors that a decoder finds on a track (track.h), and which tracks *)
(* are accepted (check_track_is_supported of track.cc).                    *)
(*                                                                         *)
(* An accepted sector is told by its address, so its data are left out but *)
(* for whether they are the 256 bytes of a DFS sector.                     *)
(***************************************************************************)
EXTENDS Integers, SequencesExt

CONSTANT Formats     (* what a side can be identified as, and as nothing *)

Sector == [cylinder : Nat, head : Nat, record : Nat, whole : BOOLEAN]
None == [cylinder |-> -1, head |-> -1, record |-> -1, whole |-> FALSE]
At(c, h, r) == [cylinder |-> c, head |-> h, record |-> r, whole |-> TRUE]

\* SectorAddress::operator<
Before(a, b) ==
  \/ a.cylinder < b.cylinder
  \/ a.cylinder = b.cylinder /\ a.head < b.head
  \/ a.cylinder = b.cylinder /\ a.head = b.head /\ a.record < b.record

\* std::sort leaves sectors of the same address in any order.
Sorted(found) ==
  {[i \in DOMAIN found |-> found[p[i]]] :
     p \in {q \in Bijection(DOMAIN found, DOMAIN found) :
              \A i, j \in DOMAIN found : i < j => ~Before(found[q[j]], found[q[i]])}}

\* Any first record will do; the others follow it without a gap.
Supported(track_sectors, track, side) ==
  /\ \A i \in DOMAIN track_sectors :
       track_sectors[i].head = side /\ track_sectors[i].cylinder = track /\ track_sectors[i].whole
  /\ \A i \in 2..Len(track_sectors) : track_sectors[i].record = track_sectors[i - 1].record + 1

Drive == [side : Nat, cylinders : Nat, sectors : Nat, blocks : Seq(Sector)]
=============================================================================
