----------------------------- MODULE MCCatalog -----------------------------
(* Catalogues of up to three entries, or of two fragments of up to two and  *)
(* one, on discs of up to five sectors of two bytes.                         *)
EXTENDS Catalog, SequencesExt

CONSTANTS
  LastStart,    (* bound: the largest start sector of an entry             *)
  Lengths       (* bound: the lengths of files                             *)

Entries(most, starts) ==
  BoundedSeq([start : starts, length : Lengths], most)

MCFragment(most, starts, totals) ==
  [aligned : {TRUE}, total : totals, entries : Entries(most, starts)]

Ragged == [aligned |-> FALSE, total |-> LastStart, entries |-> <<>>]

MCInit ==
  /\ \/ /\ format \in {"DFS", "OpusDDOS"}
        /\ \E f \in MCFragment(3, 0..LastStart, {2, LastStart - 1}) :
             fragments = <<f>>
     \/ /\ format \in {"DFS", "HDFS"}
        /\ fragments = <<Ragged>>
     \/ /\ format = "WDFS"
        /\ \E f \in MCFragment(2, 3..LastStart, {4, LastStart}),
              g \in MCFragment(1, 3..LastStart, {LastStart}) :
             fragments = <<f, g>>
  /\ device \in {LastStart - 1, LastStart + 1}
  /\ Start

MCSpec == MCInit /\ [][Next]_vars
=============================================================================
