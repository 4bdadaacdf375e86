----------------------------- MODULE MCHxcImage -----------------------------
(* Lists of up to MaxEntries entries, in any order and with entries that   *)
(* are there twice; behind a list, up to MaxBeyond more are read.          *)
EXTENDS HxcImage

CONSTANTS
  MaxHxcTracks, MaxEntries, MaxBeyond,    (* bounds                         *)
  HxcKinds                                (* of a track's contents          *)

HxcFound(kind, c, h) ==
  CASE kind = "empty"    -> <<>>
    [] kind = "one"      -> <<At(c, h, 0)>>
    [] kind = "zero"     -> <<At(c, h, 1), At(c, h, 0)>>
    [] kind = "first"    -> <<At(c, h, 2), At(c, h, 1)>>
    [] kind = "gap"      -> <<At(c, h, 2), At(c, h, 0)>>
    [] kind = "twice"    -> <<At(c, h, 0), At(c, h, 0)>>
    [] kind = "head"     -> <<At(c, h, 0), At(c, 1 - h, 1)>>

MCEntry == [track_number : 0..MaxHxcTracks - 1, side_number : {0, 1}, fits : {TRUE}]
Short == [track_number |-> 0, side_number |-> 0, fits |-> FALSE]

Fine(t, n) ==
  [magic |-> TRUE, list_in_header |-> FALSE, interface_type |-> 4, tracks |-> t, sides |-> n]

MCHeader ==
  {Fine(t, n) : t \in 0..MaxHxcTracks, n \in 0..MaxSides}
    \cup {[Fine(1, 1) EXCEPT !.magic = FALSE], [Fine(1, 1) EXCEPT !.list_in_header = TRUE],
          [Fine(1, 1) EXCEPT !.interface_type = 7], Fine(1, MaxSides + 1)}

MCHxcInit ==
  /\ hxc_header \in MCHeader
  /\ \E n \in 0..MaxEntries : list \in [1..n -> MCEntry \cup {Short}]
  /\ HxcStart

MCHxcNext ==
  \/ HxcStep
  \/ pos < Len(list) + MaxBeyond /\ \E e \in MCEntry : ReadBeyond(e)
  \/ \E e \in Remaining : \E kind \in HxcKinds :
       HxcReadTrack(e, HxcFound(kind, e.track_number, e.side_number))
  \/ \E format \in Formats : HxcConnect(format)

\* No file of this kind is read.
NoHxc == hxc_header = Fine(0, 0) /\ list = <<>> /\ HxcStart
=============================================================================
