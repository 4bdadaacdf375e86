------------------------------ MODULE DriveMap ------------------------------
(***************************************************************************)
(* What a drive table promises: images are inserted whole, one after the   *)
(* other, and stay where they are.  An image inserted as a physical disc   *)
(* takes the lowest run of disc surfaces whose discs are free on BOTH      *)
(* sides; otherwise it takes the lowest free drives.                       *)
(***************************************************************************)
EXTENDS Integers

CONSTANTS Limit, MaxSides, Formatted

VARIABLES
  map,     (* what each slot holds                                         *)
  images   (* how many images have been inserted                           *)

Slot == 0..Limit
Drive == [file : Nat \ {0}, side : Nat, how : {"FIRST", "PHYSICAL"}, formatted : BOOLEAN]
NoDrive == [file |-> 0, side |-> 0, how |-> "FIRST", formatted |-> FALSE]

Free(s) == map[s] = NoDrive
Opposite(s) == IF s % 4 \in {0, 1} THEN s + 2 ELSE s - 2

\* A run of `count' surfaces from b on discs nobody uses.
FreeDiscs(b, count) ==
  \A k \in 0..count - 1 :
    b + 2 * k < Limit - 1 /\ Free(b + 2 * k) /\ Free(Opposite(b + 2 * k))

\* place[k] is the slot of the k'th side.
PhysicalPlaces(place, count) ==
  /\ count > 0 => FreeDiscs(place[0], count)
  /\ count > 0 => \A j \in 0..place[0] - 1 : ~FreeDiscs(j, count)
  /\ \A k \in 0..count - 1 : place[k] = place[0] + 2 * k

\* Every lower slot is taken already, or by an earlier side.
FirstPlaces(place, count) ==
  \A k \in 0..count - 1 :
    /\ Free(place[k])
    /\ \A s \in 0..place[k] - 1 :
         Free(s) <=> \E j \in 0..k - 1 : place[j] = s

Insert(how, count, place) ==
  /\ IF how = "PHYSICAL" THEN PhysicalPlaces(place, count) ELSE FirstPlaces(place, count)
  /\ \E formatted \in [0..count - 1 -> Formatted] :
       map' = [s \in Slot |->
                 IF \E k \in 0..count - 1 : place[k] = s
                 THEN LET k == CHOOSE k \in 0..count - 1 : place[k] = s
                      IN [file |-> images + 1, side |-> k, how |-> how,
                          formatted |-> formatted[k]]
                 ELSE map[s]]

Init ==
  /\ map = [s \in Slot |-> NoDrive]
  /\ images = 0

Next ==
  /\ images' = images + 1
  /\ \E how \in {"FIRST", "PHYSICAL"}, count \in 0..MaxSides :
       \E place \in [0..count - 1 -> Slot] : Insert(how, count, place)

Spec == Init /\ [][Next]_<<map, images>>
=============================================================================
