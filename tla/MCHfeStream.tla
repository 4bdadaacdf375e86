---------------------------- MODULE MCHfeStream ----------------------------
(* Tracks of which one side has up to SideBytes bytes, and the other only  *)
(* data: a block and more of it.                                           *)
EXTENDS HfeStream

CONSTANTS
  Values,       (* the bytes of the side wanted                             *)
  SideBytes     (* bound: how many it has                                   *)

Filler == 1

\* A track whose bytes of side s are those of bytes.
Interleaved(bytes, s) ==
  LET Of(p) == (p \div (2 * Block)) * Block + (p % Block) + 1
      IsOurs(p) == (p \div Block) % 2 = s
      Needed == {p \in 0..4 * SideBytes : IsOurs(p) /\ Of(p) <= Len(bytes)}
      Length == IF Needed = {} THEN 0 ELSE Max(Needed) + 1
  IN [i \in 1..Length |-> IF IsOurs(i - 1) THEN bytes[Of(i - 1)] ELSE Filler]

MCStreamInit ==
  /\ hfe3 \in BOOLEAN /\ side \in {0, 1}
  /\ \E n \in 0..SideBytes : \E bytes \in [1..n -> Values] : raw = Interleaved(bytes, side)
  /\ Start
=============================================================================
