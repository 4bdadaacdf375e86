---------------------------- MODULE MCFreeSpace ----------------------------
(* Discs of seven sectors of two bytes: catalogues of up to three entries,  *)
(* and Watford catalogues of up to two and one, or one and two.             *)
EXTENDS FreeSpace

CONSTANTS
  Total,        (* bound: the total sector count of every catalogue        *)
  Lengths       (* bound: the lengths of files                             *)

Entries(most, starts) == BoundedSeq([start : starts, length : Lengths], most)

MCFragment(most, starts) == [aligned : {TRUE}, total : {Total}, entries : Entries(most, starts)]

MCFreeInit ==
  /\ \/ /\ format \in {"DFS", "OpusDDOS"}
        /\ \E f \in MCFragment(3, 1..Total - 1) : fragments = <<f>>
     \/ /\ format = "WDFS"
        /\ \E m \in {1, 2} :
             \E f \in MCFragment(m, 3..Total), g \in MCFragment(3 - m, 3..Total) :
               fragments = <<f, g>>
  /\ device \in {Total - 1, Total}
  /\ Start
=============================================================================
