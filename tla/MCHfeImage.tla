----------------------------- MODULE MCHfeImage -----------------------------
(* Discs of up to MaxHfeTracks tracks, each with one of a few kinds of     *)
(* contents: sectors numbered from 0 or from 1, in any order, one more or  *)
(* fewer, with a gap, twice, of another size, or from elsewhere.           *)
EXTENDS HfeImage

CONSTANTS
  MaxHfeTracks, MaxHfeSides,    (* bounds                                   *)
  HfeKinds                      (* of a track's contents                    *)

HfeFound(kind, track, side) ==
  CASE kind = "empty"    -> <<>>
    [] kind = "one"      -> <<At(track, side, 0)>>
    [] kind = "zero"     -> <<At(track, side, 1), At(track, side, 0)>>
    [] kind = "first"    -> <<At(track, side, 2), At(track, side, 1)>>
    [] kind = "three"    -> <<At(track, side, 1), At(track, side, 2), At(track, side, 0)>>
    [] kind = "gap"      -> <<At(track, side, 0), At(track, side, 2)>>
    [] kind = "twice"    -> <<At(track, side, 0), At(track, side, 0)>>
    [] kind = "cylinder" -> <<At(track, side, 0), At(track + 1, side, 1)>>
    [] kind = "head"     -> <<At(track, 1 - side, 0), At(track, side, 1)>>
    [] kind = "size"     -> <<At(track, side, 0), [At(track, side, 1) EXCEPT !.whole = FALSE]>>

MCHfeInit ==
  /\ truncated \in {"header", "table", "nothing"}
  /\ \E s \in Signature, t \in 0..MaxHfeTracks, n \in 0..MaxHfeSides, e \in Encoding :
       \E a0, a1 \in {Same, "ISOIBM_FM", "AMIGA_MFM"} :
         hfe_header = [HEADERSIGNATURE |-> s, number_of_track |-> t, number_of_side |-> n,
                       track_encoding |-> e, alternative |-> 0 :> a0 @@ 1 :> a1]
  /\ HfeStart

MCHfeNext ==
  \/ HfeStep
  \/ \E kind \in HfeKinds : HfeReadTrack(HfeFound(kind, hfe_track, hfe_side))
  \/ \E format \in Formats : HfeConnect(format)

\* No file of this kind is read.
NoHfe ==
  /\ truncated = "header"
  /\ hfe_header = [HEADERSIGNATURE |-> "other", number_of_track |-> 0, number_of_side |-> 0,
                   track_encoding |-> "unknown", alternative |-> [s \in {0, 1} |-> Same]]
  /\ HfeStart
=============================================================================
