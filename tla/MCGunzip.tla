------------------------------ MODULE MCGunzip ------------------------------
(* Streams of up to MaxStream bytes, each of which brings out up to        *)
(* MaxGain, in files that are shorter or longer, with one byte wrong.      *)
EXTENDS Gunzip

CONSTANTS MaxStream, MaxGain, MaxExtra    (* bounds                         *)

MCTotals(n) ==
  {t \in [0..n -> 0..n * MaxGain] :
     t[0] = 0 /\ \A m \in 1..n : t[m] - t[m - 1] \in 0..MaxGain}

MCInit ==
  /\ stream \in 1..MaxStream /\ length \in 0..MaxStream + MaxExtra
  /\ corrupt \in 1..MaxStream + 1
  /\ total \in MCTotals(stream)
  /\ Start

MCSpec == MCInit /\ [][Next]_vars /\ WF_vars(Next)
=============================================================================
