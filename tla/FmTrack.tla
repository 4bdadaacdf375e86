------------------------------ MODULE FmTrack ------------------------------
(***************************************************************************)
(* decode_fm_track (track_fm.cc).  An address mark is a byte with missing  *)
(* clock bits after at least two zero bytes, and each kind of mark has a   *)
(* pattern of its own: while the decoder looks for a record it does not    *)
(* see the header of another sector go by.  A step is one pass of the      *)
(* decoder's loop.                                                         *)
(***************************************************************************)
EXTENDS Track

\* copy_fm_bytes stops at a byte whose clock bits are not all there, as those
\* of a mark are; read_byte never reads the last byte of the track.
Legible(p) ==
  /\ p < Len(track)
  /\ track[p].t \notin {"idmark", "datamark", "delmark"}
  /\ track[p].read # "noise"

Mark(p, kinds) == Is(p, kinds) /\ p - 1 >= pos /\ Is(p - 1, {"sync"})
IdMark(p) == Mark(p, {"idmark"})

RecordMark(p) == Mark(p, {"datamark", "delmark"})

\* Wrong: an address that cannot be used is looked for again.
ReadHeaderRewinding(p, next) == next = p - 1

\* copy_fm_bytes for the rest of the header, or for the body and the CRC
ReadHeader(p, next) == ReadEnds(Legible, p + 1, 1, next)
ReadRecord(p, next) == ReadEnds(Legible, p + 1, sec.body + 1, next)

HeaderFollows(p) == Legible(p + 1) /\ HeaderOK(p + 1)

\* The record is read to the end, its CRC is right and it holds data.
RecordFollows(p) ==
  /\ Legible(p + 1 + sec.body)
  /\ Is(p, {"datamark"})
  /\ BodyOK(p + 1, sec.body)

LookForAddress ==
  /\ state = "LookingForAddress"
  /\ \E p \in pos..Len(track) :
       /\ ScanFor(IdMark, pos, p)
       /\ ReadHeader(p, pos')
       /\ IF HeaderFollows(p)
          THEN /\ state' = "LookingForRecord"
               /\ sec' = track[p + 1].of
               /\ began' = p
          ELSE UNCHANGED <<state, sec, began>>
  /\ UNCHANGED <<track, result>>

\* Wrong: a record that cannot be used leaves the decoder looking for one.
AfterRecordRetry == IF Len(result') > Len(result) THEN "LookingForAddress" ELSE state

\* Wrong: the decoder does not go back to looking for an address.
AfterRecordStuck == state

\* Whatever is found, the next thing to look for is an address.
AfterRecord == "LookingForAddress"

LookForRecord ==
  /\ state = "LookingForRecord"
  /\ \E p \in pos..Len(track) :
       /\ ScanFor(RecordMark, pos, p)
       /\ ReadRecord(p, pos')
       /\ result' = IF RecordFollows(p)
                    THEN Append(result, Decoded(p + 1, sec.body, p))
                    ELSE result
  /\ state' = AfterRecord
  /\ UNCHANGED <<track, sec, began>>

TrackEnds ==
  /\ \/ state = "LookingForAddress" /\ ScanFails(IdMark, pos)
     \/ state = "LookingForRecord" /\ ScanFails(RecordMark, pos)
  /\ state' = "decoded"
  /\ UNCHANGED <<track, pos, sec, began, result>>

Next == LookForAddress \/ LookForRecord \/ TrackEnds \/ CheckTrackIsSupported

Spec == Init /\ [][Next]_vars /\ WF_vars(Next)

----------------------------------------------------------------------------

\* A record filed under another sector's address is possible (see the README),
\* but only when that other sector's own mark, or the zero bytes before it,
\* could not be read; and what is filed is never a control record's data.
MisfiledOnlyByLostMarks ==
  \A i \in DOMAIN result :
    /\ ~result[i].data.deleted
    /\ result[i].data # result[i].address =>
         \E p \in Damaged :
           /\ track[p].t \in {"sync", "datamark", "delmark"}
           /\ track[p].of = result[i].address

\* The data returned for an address comes from the first record mark that can
\* be read after the header.
FirstRecordAfterHeader ==
  \A i \in DOMAIN result :
    \A q \in result[i].header_at + 3..result[i].data_at - 1 :
      ~(Is(q, {"datamark", "delmark"}) /\ Is(q - 1, {"sync"}))
=============================================================================
