----------------------------- MODULE MCIdentify -----------------------------
(* Discs of every geometry the manual and the probe know, imaged and named *)
(* in every way, right or wrong.                                           *)
EXTENDS Identify

CONSTANTS
  Starts,       (* bound: the sets of first sectors of files                *)
  Compressed    (* bound: the images, by whether they are compressed        *)

\* The marks that a disc can have.
MarkedOf(f, w) == IF f = "WDFS" THEN {TRUE} ELSE IF 2 \in w THEN BOOLEAN ELSE {FALSE}

MCInit ==
  /\ \E f \in Format, x \in {"ssd", "sdd", "dsd", "ddd"}, z \in Compressed :
     \E g \in Layout, w \in Starts :
     \E t \in IF f = "HDFS" THEN BOOLEAN ELSE {FALSE},
        k \in IF f = "DFS" THEN BOOLEAN ELSE {FALSE},
        b \in IF g.heads = 2 /\ f # "HDFS" THEN BOOLEAN ELSE {FALSE} :
     \E m \in MarkedOf(f, w) :
       disc = [format |-> f, cylinders |-> g.cylinders, heads |-> g.heads,
               sectors |-> g.sectors, interleaved |-> g.interleaved,
               ext |-> x, gz |-> z,
               total |-> g.cylinders * g.sectors * (IF f = "HDFS" THEN g.heads ELSE 1),
               topbit |-> t, solidisk |-> k, marked |-> m, starts |-> w, second |-> b]
  /\ Formatted(disc) /\ Start

MCSpec == MCInit /\ [][IdentifyNext]_ivars
=============================================================================
