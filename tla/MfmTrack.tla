------------------------------ MODULE MfmTrack ------------------------------
(***************************************************************************)
(* decode_mfm_track (track_mfm.cc).  Header and record are both announced  *)
(* by three A1 bytes with a missing clock bit; which of the two follows is *)
(* only learnt by reading on.  A step is one pass of the decoder's loop.   *)
(***************************************************************************)
EXTENDS Track

\* The sync bytes break the clocking rule on purpose, so that reading cannot
\* run over them; and the last byte of a track is never read.
Legible(p) == p < Len(track) /\ track[p].t # "sync" /\ track[p].read # "noise"

Sync(p) == Is(p, {"sync"})

\* copy_mfm_bytes for the mark and the rest of the header, or for the mark,
\* the body and the CRC
ReadHeader(p, next) == ReadEnds(Legible, p + 1, 2, next)
ReadRecord(p, next) == ReadEnds(Legible, p + 1, sec.body + 2, next)

HeaderFollows(p) == Legible(p + 2) /\ Is(p + 1, {"idmark"}) /\ HeaderOK(p + 2)

RecordFollows(p) ==
  /\ Legible(p + 2 + sec.body)
  /\ Is(p + 1, {"datamark"})
  /\ BodyOK(p + 2, sec.body)

LookForSectorHeader ==
  /\ state = "LookingForAddress"
  /\ \E p \in pos..Len(track) :
       /\ ScanFor(Sync, pos, p)
       /\ ReadHeader(p, pos')
       /\ IF HeaderFollows(p)
          THEN /\ state' = "LookingForRecord"
               /\ sec' = track[p + 2].of
               /\ began' = p
          ELSE UNCHANGED <<state, sec, began>>
  /\ UNCHANGED <<track, result>>

\* Wrong: a record that cannot be used ends the track.
AfterRecordGiveUp == IF Len(result') > Len(result) THEN "LookingForAddress" ELSE "decoded"

\* Whatever is found, the next thing to look for is a header.
AfterRecord == "LookingForAddress"

LookForRecord ==
  /\ state = "LookingForRecord"
  /\ \E p \in pos..Len(track) :
       /\ ScanFor(Sync, pos, p)
       /\ ReadRecord(p, pos')
       /\ result' = IF RecordFollows(p)
                    THEN Append(result, Decoded(p + 2, sec.body, p))
                    ELSE result
  /\ state' = AfterRecord
  /\ UNCHANGED <<track, sec, began>>

TrackEnds ==
  /\ state \in {"LookingForAddress", "LookingForRecord"}
  /\ ScanFails(Sync, pos)
  /\ state' = "decoded"
  /\ UNCHANGED <<track, pos, sec, began, result>>

Next == LookForSectorHeader \/ LookForRecord \/ TrackEnds \/ CheckTrackIsSupported

Spec == Init /\ [][Next]_vars /\ WF_vars(Next)

----------------------------------------------------------------------------

\* Between the header a sector was found by and the sync before its data the
\* track holds no other readable sync: the record is the first thing after
\* the header, so no other sector's header can have been passed over.
NothingBetween ==
  \A i \in DOMAIN result :
    \A q \in result[i].header_at + 1..result[i].data_at - 1 : ~Sync(q)

\* For a record to be filed under another sector's address, that sector's own
\* data and the header of the record must both have lost their syncs; and
\* what is filed is never a control record's data.
MisfiledOnlyByLostMarks ==
  \A i \in DOMAIN result :
    /\ ~result[i].data.deleted
    /\ result[i].data # result[i].address =>
         \E p, q \in Damaged :
           /\ track[p].t = "sync" /\ track[p].of = result[i].address
           /\ track[q].t = "sync" /\ track[q].of = result[i].data
           /\ p < q
=============================================================================
