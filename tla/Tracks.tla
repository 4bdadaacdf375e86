------------------------------- MODULE Tracks -------------------------------
(***************************************************************************)
(* One track and the decoder it is given to: the encoding that the image   *)
(* file gives for its tracks says which of the two that is.                *)
(***************************************************************************)
EXTENDS Track

VARIABLE encoding

FM == INSTANCE FmTrack
MFM == INSTANCE MfmTrack

AnyTrack == Init /\ encoding \in {"FM", "MFM"}

Decode ==
  /\ \/ encoding = "FM" /\ FM!Next
     \/ encoding = "MFM" /\ MFM!Next
  /\ UNCHANGED encoding

Spec == AnyTrack /\ [][Decode]_<<vars, encoding>>

OneSize == \A r, s \in OnTrack : r.body = s.body

\* What one damaged place can cost: the sector it is in, and the one whose mark
\* is taken for the mark that is lost.  In FM there may be a third: the second
\* is read with the size of the first, and when that is larger than its own the
\* reading only stops just after the next address mark, which is then missed.
CostOfDamage == IF encoding = "FM" /\ ~OneSize THEN 3 ELSE 2

\* Damage is contained: once the decoder is back to looking for an address it
\* finds the next one, so that a damaged place costs two sectors (or those
\* three), however long the track is.
LossBounded ==
  state = "decoded" =>
    Cardinality(Usable \ Recovered) <= CostOfDamage * Cardinality(Damaged)

\* What it takes for data to be returned under another sector's address: in FM
\* that this sector's own mark, or the zeros before it, cannot be read; in MFM
\* two lost syncs.  What is returned is never a control record's data.
MisfiledOnlyByLostMarks ==
  IF encoding = "FM" THEN FM!MisfiledOnlyByLostMarks ELSE MFM!MisfiledOnlyByLostMarks
=============================================================================
