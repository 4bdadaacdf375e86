------------------------------- MODULE Track -------------------------------
(***************************************************************************)
(* What the FM and MFM track decoders share (track.h, track.cc): the       *)
(* track, the search for a bit pattern in it, the address read from a      *)
(* sector header, and the test that a decoded track can be used.           *)
(*                                                                         *)
(* A track is a sequence of cells, each a run of encoded bytes that means  *)
(* one thing.  Every sector is recorded as                                 *)
(*                                                                         *)
(*     sync idmark header gap sync datamark body ... body crc gap          *)
(*                                                                         *)
(* with its address and CRC in the header cell.  A cell reads back as it   *)
(* was written ("good"), as other bytes ("wrong") or not at all ("noise"). *)
(* A CRC comes out as zero exactly when a whole block is read as written:  *)
(* that a CRC of 16 bits can miss damage is left out.                      *)
(***************************************************************************)
EXTENDS Naturals, Sequences, FiniteSets

CONSTANT SectorBytes   (* the body cells of a sector of the supported size *)

\* `nth' tells the sectors of a track apart; `body' is the size the header
\* gives, 0 for an unexpected size code; `here' says that the cylinder and
\* head of the address are those of the track.
Sector == [nth : Nat, record : Nat, body : Nat, deleted : BOOLEAN, here : BOOLEAN]
NoSector == [nth |-> 0, record |-> 0, body |-> 0, deleted |-> FALSE, here |-> FALSE]

Cell == [t : {"sync", "idmark", "header", "gap", "datamark", "delmark", "body", "crc"},
         of : Sector, k : Nat, read : {"good", "wrong", "noise"}]

VARIABLES
  track,    (* the BitStream                                               *)
  pos,      (* thisbit: the next cell                                      *)
  state,    (* the decoder's state, then what became of the track          *)
  sec,      (* sec.address and sec_size                                    *)
  began,    (* history: where the header in sec was found                  *)
  result    (* the sectors decoded                                         *)

vars == <<track, pos, state, sec, began, result>>

Good(p) == p \in DOMAIN track /\ track[p].read = "good"
Is(p, kinds) == Good(p) /\ track[p].t \in kinds

\* BitStream::scan_for returns the first match at or after `start'.
ScanFor(Match(_), start, p) ==
  /\ p \in start..Len(track)
  /\ Match(p)
  /\ \A q \in start..p - 1 : ~Match(q)

ScanFails(Match(_), start) == \A p \in start..Len(track) : ~Match(p)

\* The bytes that follow a mark have a CRC of zero, are an ID address mark's,
\* and (decode_sector_address_and_size) have a known size code.
HeaderOK(p) == Is(p, {"header"}) /\ track[p].of.body # 0

\* A body of n cells and its CRC, read from p on, have a CRC of zero.
BodyOK(p, n) ==
  /\ Is(p + n, {"crc"})
  /\ track[p + n].of.body = n
  /\ \A k \in 1..n : Is(p + k - 1, {"body"}) /\ track[p + k - 1].of = track[p + n].of
                                            /\ track[p + k - 1].k = k

Decoded(p, n, at) ==
  [address |-> sec, data |-> track[p + n].of, header_at |-> began, data_at |-> at]

\* Reading n cells from p ends with the last of them, or with the first that
\* cannot be read: the position is then just after it, wherever that is.
ReadEnds(Legible(_), p, n, next) ==
  \/ /\ \A q \in p..p + n - 1 : Legible(q)
     /\ next = p + n
  \/ \E q \in p..p + n - 1 :
       /\ ~Legible(q)
       /\ \A r \in p..q - 1 : Legible(r)
       /\ next = q + 1

\* The track as a disc controller writes it: s begins at the cell p.
Introduces(cells, p, s) ==
  /\ p \in DOMAIN cells /\ p + 5 \in DOMAIN cells
  /\ \A q \in p..p + 5 : cells[q].of = s
  /\ cells[p].t = "sync" /\ cells[p + 1].t = "idmark" /\ cells[p + 2].t = "header"
  /\ cells[p + 3].t = "gap" /\ cells[p + 4].t = "sync"
  /\ cells[p + 5].t = IF s.deleted THEN "delmark" ELSE "datamark"

\* No header and no mark is out of its place, a body comes after the mark of
\* its own sector, and a sector has one header.  Whether anything of it can
\* still be read is another matter.
AsWritten(cells) ==
  /\ \A p \in DOMAIN cells :
       /\ cells[p].t = "header" => Introduces(cells, p - 2, cells[p].of)
       /\ cells[p].t \in {"datamark", "delmark"} => Introduces(cells, p - 5, cells[p].of)
       /\ cells[p].t = "body" /\ cells[p].k = 1 =>
            /\ p - 1 \in DOMAIN cells
            /\ cells[p - 1].t \in {"datamark", "delmark"}
            /\ cells[p - 1].of = cells[p].of
  /\ \A p, q \in DOMAIN cells :
       cells[p].t = "header" /\ cells[q].t = "header" /\ cells[p].of = cells[q].of => p = q

Start ==
  /\ pos = 1
  /\ state = "LookingForAddress"
  /\ sec = NoSector
  /\ began = 0
  /\ result = <<>>

\* The whole of s, from p on: what introduces it, its body, its CRC and a gap.
LaidOut(cells, p, s) ==
  /\ Introduces(cells, p, s)
  /\ p + 7 + s.body \in DOMAIN cells
  /\ \A q \in p..p + 7 + s.body : cells[q].of = s
  /\ \A k \in 1..s.body : cells[p + 5 + k].t = "body" /\ cells[p + 5 + k].k = k
  /\ cells[p + 6 + s.body].t = "crc" /\ cells[p + 7 + s.body].t = "gap"

\* But for gaps, everything on the track belongs to a whole sector.
WholeSectors(cells) ==
  \A q \in DOMAIN cells :
    cells[q].t # "gap" =>
      \E p \in DOMAIN cells :
        LaidOut(cells, p, cells[q].of) /\ q \in p..p + 6 + cells[q].of.body

\* Nothing is assumed of the track that is read.
Init == track \in Seq(Cell) /\ Start

----------------------------------------------------------------------------
(* check_track_is_supported, on the sorted sectors of the track *)

\* Wrong: a record number missing between two others is not noticed.
SupportedWithGaps ==
  \A i, j \in DOMAIN result :
    /\ result[i].address.here
    /\ result[i].address.body = SectorBytes
    /\ i # j => result[i].address.record # result[j].address.record

Supported ==
  LET record(i) == result[i].address.record
  IN  \A i \in DOMAIN result :
        /\ result[i].address.here
        /\ result[i].address.body = SectorBytes
        /\ \A j \in DOMAIN result : i # j => record(i) # record(j)
        \* The next number is there, unless this is the largest.
        /\ \/ \A j \in DOMAIN result : record(j) <= record(i)
           \/ \E j \in DOMAIN result : record(j) = record(i) + 1

CheckTrackIsSupported ==
  /\ state = "decoded"
  /\ state' = IF Supported THEN "accepted" ELSE "rejected"
  /\ UNCHANGED <<track, pos, sec, began, result>>

Finished == state \in {"accepted", "rejected"}

----------------------------------------------------------------------------
(* What is true of the decoders *)

Positions == [address : Sector, data : Sector, header_at : Nat, data_at : Nat]

\* The decoder's variables have their types, and a position it keeps is one
\* inside the track or just after it.
TypeOK ==
  /\ track \in Seq(Cell)
  /\ pos \in 1..Len(track) + 2
  /\ state \in {"LookingForAddress", "LookingForRecord", "decoded", "accepted", "rejected"}
  /\ sec \in Sector
  /\ began \in 0..Len(track)
  /\ result \in Seq(Positions)

\* Decoded sectors come from separate stretches of the track, in order: a
\* header is used for one record only, a record for one header only, and the
\* header comes first.  (The state machines in decode_fm_track and
\* decode_mfm_track fall back to looking for an address after every record.)
ResultsInTrackOrder ==
  \A i \in DOMAIN result :
    /\ result[i].header_at < result[i].data_at
    /\ \A j \in DOMAIN result : i < j => result[i].data_at < result[j].header_at

Recorded == {track[p].of : p \in {p \in DOMAIN track : track[p].t = "datamark"}}
Usable == {s \in Recorded : s.body # 0}
Recovered == {result[i].data : i \in {i \in DOMAIN result : result[i].data = result[i].address}}
Damaged == {p \in DOMAIN track : track[p].read # "good"}

OnTrack == {track[p].of : p \in DOMAIN track}

RecordNumbersDiffer ==
  \A r, s \in OnTrack : r.record = s.record => r = s

Beyond(s) ==
  \/ \A i \in DOMAIN result : s.record < result[i].address.record
  \/ \A i \in DOMAIN result : s.record > result[i].address.record

\* In a track that check_track_is_supported accepts, whatever the damage was, a
\* sector whose address is missing, and one whose data another address has, are
\* before its first or after its last record (if each sector has a number of
\* its own): a gap between two records is always noticed.
AcceptedLosesOnlyEnds ==
  state = "accepted" /\ RecordNumbersDiffer =>
    /\ \A s \in Usable \ Recovered : Beyond(s) \/ \E i \in DOMAIN result : result[i].address = s
    /\ \A i \in DOMAIN result :
         result[i].data # result[i].address => Beyond(result[i].data)

\* The decoder's loop comes to an end on every track.
Terminates == <>Finished
=============================================================================
