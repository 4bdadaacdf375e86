--------------------------- MODULE StorageProofs ---------------------------
(***************************************************************************)
(* Proofs about Storage, for every size of the drive table, every number   *)
(* of image files and every number of sides.                               *)
(***************************************************************************)
EXTENDS Storage, TLAPS

----------------------------------------------------------------------------
(* Slots and their discs *)

\* The surface below a second side is the first side of the same disc.
LEMMA SecondSideFacts ==
  ASSUME NEW s \in Nat, IsSecondSide(s)
  PROVE  s - 2 \in Nat /\ ~IsSecondSide(s - 2) /\ OppositeSurface(s) = s - 2
                       /\ OppositeSurface(s - 2) = s
BY DEF IsSecondSide, OppositeSurface

LEMMA FirstSideFacts ==
  ASSUME NEW s \in Nat, ~IsSecondSide(s)
  PROVE  IsSecondSide(s + 2) /\ OppositeSurface(s) = s + 2
BY DEF IsSecondSide, OppositeSurface

\* The lowest place that fits is never the second side of a disc: if it
\* fitted there it would fit on the first side too.  This is why
\* check_sequence_fits need not look at the other opposite surfaces.
LEMMA FirstFitOnFirstSide ==
  ASSUME NEW i \in 0..Limit - 1, NEW count \in Nat, FirstFit(i, count)
  PROVE  ~IsSecondSide(i)
<1> SUFFICES ASSUME IsSecondSide(i) PROVE FALSE
  OBVIOUS
<1>1. i \in Nat /\ Limit \in Nat
  BY LimitAssumption
<1>2. i - 2 \in 0..i - 1
  BY <1>1, SecondSideFacts
<1>3. CheckSequenceFits(i, count)
  BY DEF FirstFit
<1>4. CheckSequenceFits(i - 2, count)
  <2>1. ~IsDriveConnected(i - 2) /\ ~IsDriveConnected(OppositeSurface(i - 2))
    BY <1>1, <1>3, SecondSideFacts DEF CheckSequenceFits
  <2>2. ASSUME NEW k \in 0..count - 1
        PROVE  i - 2 + 2 * k < Limit - 1 /\ ~IsDriveConnected(i - 2 + 2 * k)
    <3>1. CASE k = 0
      <4>1. i + 2 * k < Limit - 1
        BY <1>3 DEF CheckSequenceFits
      <4>2. i - 2 + 2 * k = i - 2
        BY <3>1, <1>1
      <4> QED
        BY <4>1, <4>2, <2>1, <1>1, <3>1
    <3>2. CASE k # 0
      <4>1. k - 1 \in 0..count - 1 /\ i - 2 + 2 * k = i + 2 * (k - 1)
        BY <3>2, <1>1
      <4> QED
        BY <4>1, <1>3 DEF CheckSequenceFits
    <3> QED
      BY <3>1, <3>2
  <2> QED
    BY <2>1, <2>2 DEF CheckSequenceFits
<1> QED
  BY <1>2, <1>4 DEF FirstFit

----------------------------------------------------------------------------
(* The inductive invariant *)

\* No drive is of an image that has not been opened.
FilesBound ==
  \A s \in Slot : IsDriveConnected(s) =>
    /\ drives[s].file <= files + 1
    /\ pc \in {"options", "show", "command"} => drives[s].file <= files

\* The PHYSICAL loop began on a first side, has connected the sides before
\* `side' two slots apart, and the slots still to come are free.
PhysicalLoop ==
  pc = "physical" =>
    /\ how = "PHYSICAL"
    /\ n - 2 * side \in Nat
    /\ ~IsSecondSide(n - 2 * side)
    /\ \A k \in 0..side - 1 :
         LET s == n - 2 * side + 2 * k IN
         IsDriveConnected(s) /\ drives[s].file = files + 1 /\ drives[s].side = k
    /\ \A k \in 0..sides - side - 1 :
         n + 2 * k < Limit - 1 /\ ~IsDriveConnected(n + 2 * k)

\* The FIRST loop leaves no free slot behind.
FirstLoop ==
  pc = "first" => how = "FIRST" /\ \A s \in 0..n - 1 : IsDriveConnected(s)

\* show_drive_configuration has printed the slots before n, without a wrap.
ShowLoop ==
  /\ pc \in {"options", "physical", "first"} => shown = {}
  /\ pc = "show" => shown = 0..n - 1

\* Only the command mounts, and no image comes or goes any more.
MountsLate == mounted # NothingMounted => pc \in {"command", "exited"}

IndInv ==
  /\ TypeOK
  /\ CachesAgree
  /\ SecondSideNeedsFirst
  /\ PhysicalDiscIntact
  /\ SidesInPhysicalOrder
  /\ FilesBound
  /\ PhysicalLoop
  /\ FirstLoop
  /\ ShowLoop
  /\ ShowsEveryDrive
  /\ MountsLate
  /\ MountsALiveDisc

LEMMA LimitFacts == Limit \in Nat /\ Limit >= 3
BY LimitAssumption

LEMMA InitIndInv == Init => IndInv
<1> SUFFICES ASSUME Init PROVE IndInv
  OBVIOUS
<1>1. \A s \in Slot : ~IsDriveConnected(s)
  BY DEF Init, IsDriveConnected
<1>2. TypeOK
  BY LimitFacts DEF Init, TypeOK, Strategy, Slot, NothingMounted
<1>3. SecondSideNeedsFirst /\ PhysicalDiscIntact /\ SidesInPhysicalOrder /\ FilesBound
  BY <1>1 DEF SecondSideNeedsFirst, PhysicalDiscIntact, SidesInPhysicalOrder, FilesBound
<1> QED
  BY <1>2, <1>3 DEF Init, IndInv, CachesAgree, PhysicalLoop, FirstLoop, ShowLoop,
     ShowsEveryDrive, MountsLate, MountsALiveDisc

\* Connecting a free slot: what changes in the table.
LEMMA ConnectFreeSlot ==
  ASSUME TypeOK, CachesAgree,
         NEW s \in Slot, ~IsDriveConnected(s),
         NEW formatted \in Formatted,
         ConnectInternal(s, ConnectedNow(formatted))
  PROVE  /\ drives' = [drives EXCEPT ![s] = ConnectedNow(formatted)]
         /\ caches' = drives'
         /\ drives' \in [Slot -> Drive \cup {NoDrive}]
         /\ drives'[s] # NoDrive
         /\ drives'[s].file = files + 1
         /\ drives'[s].side = side
         /\ drives'[s].how = how
         /\ \A t \in Slot : t # s => drives'[t] = drives[t]
<1>1. drives' = [drives EXCEPT ![s] = ConnectedNow(formatted)] /\ caches' = drives'
  BY DEF ConnectInternal, CachesAgree
<1>2. ConnectedNow(formatted) \in Drive /\ ConnectedNow(formatted) # NoDrive
  BY BoundsAssumption DEF ConnectedNow, TypeOK, Drive, NoDrive
<1>3. drives \in [Slot -> Drive \cup {NoDrive}]
  BY DEF TypeOK
<1>4. drives'[s] = ConnectedNow(formatted)
  BY <1>1, <1>3
<1> QED
  BY <1>1, <1>2, <1>3, <1>4 DEF ConnectedNow

----------------------------------------------------------------------------
(* The invariant is preserved: the loops that connect drives *)

LEMMA ConnectPhysicalIndInv ==
  ASSUME IndInv, ConnectPhysical
  PROVE  IndInv'
<1> DEFINE base == n - 2 * side
<1>1. pc = "physical" /\ side < sides /\ how = "PHYSICAL" /\ n \in Slot
  BY DEF IndInv, ConnectPhysical, PhysicalLoop, TypeOK
<1>2. side \in Nat /\ sides \in Nat /\ n \in Nat /\ files \in Nat /\ Limit \in Nat
  BY LimitFacts DEF IndInv, TypeOK, Slot
<1>3. base \in Nat /\ ~IsSecondSide(base)
  BY <1>1 DEF IndInv, PhysicalLoop
<1>4. ~IsDriveConnected(n) /\ n < Limit - 1
  <2>1. 0 \in 0..sides - side - 1
    BY <1>1, <1>2
  <2>2. n + 2 * 0 < Limit - 1 /\ ~IsDriveConnected(n + 2 * 0)
    BY <1>1, <2>1 DEF IndInv, PhysicalLoop
  <2> QED
    BY <2>2, <1>2
<1>5. PICK formatted \in Formatted : ConnectInternal(n, ConnectedNow(formatted))
  BY DEF ConnectPhysical
<1>6. /\ caches' = drives'
      /\ drives' \in [Slot -> Drive \cup {NoDrive}]
      /\ drives'[n] # NoDrive
      /\ drives'[n].file = files + 1
      /\ drives'[n].side = side
      /\ drives'[n].how = "PHYSICAL"
      /\ \A t \in Slot : t # n => drives'[t] = drives[t]
  BY <1>1, <1>4, <1>5, ConnectFreeSlot DEF IndInv
<1>7. \A t \in Slot : IsDriveConnected(t)' <=> t = n \/ IsDriveConnected(t)
  BY <1>6, <1>4 DEF IsDriveConnected
<1>8. /\ side' = side + 1 /\ n' = n + 2
      /\ UNCHANGED <<pc, how, files, sides, shown, mounted>>
  BY DEF ConnectPhysical
<1>9. TypeOK'
  <2>1. n' \in Slot
    BY <1>2, <1>4, <1>8 DEF Slot
  <2>2. side' \in 0..sides'
    BY <1>1, <1>2, <1>8
  <2> QED
    BY <2>1, <2>2, <1>6, <1>8 DEF IndInv, TypeOK
<1>10. CachesAgree'
  BY <1>6 DEF CachesAgree
\* A slot below n on a second side is the slot connected the pass before.
<1>11. IsSecondSide(n) =>
         /\ n - 2 \in Slot /\ IsDriveConnected(n - 2)
         /\ drives[n - 2].file = files + 1
  <2> SUFFICES ASSUME IsSecondSide(n)
               PROVE  /\ n - 2 \in Slot /\ IsDriveConnected(n - 2)
                      /\ drives[n - 2].file = files + 1
    OBVIOUS
  <2>1. side # 0
    BY <1>2, <1>3
  <2>2. side - 1 \in 0..side - 1
    BY <2>1, <1>2
  <2>3. base + 2 * (side - 1) = n - 2
    BY <1>2
  <2>4. n - 2 \in Slot
    BY <1>1, <1>2, SecondSideFacts DEF Slot
  <2>5. LET s == n - 2 * side + 2 * (side - 1) IN
        IsDriveConnected(s) /\ drives[s].file = files + 1
    BY <1>1, <2>2 DEF IndInv, PhysicalLoop
  <2> QED
    BY <2>3, <2>4, <2>5
<1>12. SecondSideNeedsFirst'
  <2> SUFFICES ASSUME NEW s \in Slot, IsSecondSide(s), IsDriveConnected(s)'
               PROVE  IsDriveConnected(s - 2)'
    BY DEF SecondSideNeedsFirst, IsSecondSide
  <2>1. s - 2 \in Slot
    BY <1>2, SecondSideFacts DEF Slot
  <2>2. IsDriveConnected(s - 2)
    BY <1>7, <1>11 DEF IndInv, SecondSideNeedsFirst
  <2> QED
    BY <2>1, <2>2, <1>7
<1>13. PhysicalDiscIntact'
  <2> SUFFICES ASSUME NEW s \in Slot, NEW t \in Slot, t = OppositeSurface(s),
                      drives'[s] # NoDrive, drives'[t] # NoDrive,
                      drives'[s].file < drives'[t].file
               PROVE  drives'[t].how = "FIRST"
    BY DEF PhysicalDiscIntact, IsDriveConnected, OppositeSurface
  <2>1. CASE s # n /\ t # n
    BY <2>1, <1>6 DEF IndInv, PhysicalDiscIntact, IsDriveConnected
  <2>2. CASE s = n
    <3>1. t # n
      BY <2>2 DEF OppositeSurface, Slot
    <3>2. drives[t].file \in Nat /\ drives[t].file <= files + 1
      BY <3>1, <1>6 DEF IndInv, FilesBound, IsDriveConnected, TypeOK, Drive
    <3> QED
      BY <2>2, <3>1, <3>2, <1>2, <1>6
  <2>3. CASE t = n
    <3>1. s # n
      BY <2>3 DEF OppositeSurface, Slot
    <3>2. IsDriveConnected(s)
      BY <3>1, <1>6 DEF IsDriveConnected
    <3>3. CASE IsSecondSide(n)
      <4>1. s = n - 2
        BY <3>3, <2>3 DEF OppositeSurface, IsSecondSide, Slot
      <4> QED
        BY <4>1, <1>11, <3>3, <3>1, <1>6, <1>2, <2>3
    <3>4. CASE ~IsSecondSide(n)
      <4>1. IsSecondSide(s) /\ s - 2 = n
        BY <3>4, <2>3 DEF OppositeSurface, IsSecondSide, Slot
      <4> QED
        BY <4>1, <3>2, <1>4 DEF IndInv, SecondSideNeedsFirst
    <3> QED
      BY <3>3, <3>4
  <2> QED
    BY <2>1, <2>2, <2>3
<1>14. SidesInPhysicalOrder'
  <2> SUFFICES ASSUME NEW s \in Slot, drives'[s] # NoDrive, drives'[s].how = "PHYSICAL"
               PROVE  LET b == s - 2 * drives'[s].side IN
                      /\ b \in Slot
                      /\ ~IsSecondSide(b)
                      /\ \A k \in 0..drives'[s].side :
                           /\ drives'[b + 2 * k].file = drives'[s].file
                           /\ drives'[b + 2 * k].side = k
    BY DEF SidesInPhysicalOrder, IsDriveConnected, IsSecondSide
  <2>1. CASE s = n
    <3>1. drives'[s].side = side /\ s - 2 * drives'[s].side = base
      BY <2>1, <1>6
    <3>2. base \in Slot
      BY <1>1, <1>2, <1>3 DEF Slot
    <3>3. ASSUME NEW k \in 0..side
          PROVE  drives'[base + 2 * k].file = files + 1 /\ drives'[base + 2 * k].side = k
      <4>1. CASE k = side
        BY <4>1, <1>2, <1>6
      <4>2. CASE k # side
        <5>1. k \in 0..side - 1
          BY <4>2, <1>2
        <5>2. /\ drives[base + 2 * k].file = files + 1
              /\ drives[base + 2 * k].side = k
          BY <5>1, <1>1 DEF IndInv, PhysicalLoop
        <5>3. base + 2 * k \in Slot /\ base + 2 * k # n
          BY <5>1, <1>2, <1>3, <3>2, <1>4 DEF Slot
        <5> QED
          BY <5>2, <5>3, <1>6
      <4> QED
        BY <4>1, <4>2
    <3> QED
      BY <2>1, <3>1, <3>2, <3>3, <1>3, <1>6
  <2>2. CASE s # n
    <3> DEFINE b == s - 2 * drives[s].side
    <3>1. drives'[s] = drives[s] /\ drives[s] # NoDrive /\ drives[s].how = "PHYSICAL"
      BY <2>2, <1>6
    <3>2. /\ b \in Slot
          /\ ~IsSecondSide(b)
          /\ \A k \in 0..drives[s].side :
               drives[b + 2 * k].file = drives[s].file /\ drives[b + 2 * k].side = k
      BY <3>1 DEF IndInv, SidesInPhysicalOrder, IsDriveConnected
    <3>3. drives[s].file # 0 /\ drives[n].file = 0 /\ drives[s].side \in Nat
      BY <3>1, <1>1, <1>4 DEF IndInv, TypeOK, Drive, NoDrive, IsDriveConnected
    <3>4. ASSUME NEW k \in 0..drives[s].side
          PROVE  drives'[b + 2 * k] = drives[b + 2 * k]
      <4>1. b + 2 * k # n
        BY <3>2, <3>3
      <4>2. b + 2 * k \in Slot
        BY <3>2, <3>3, <1>2 DEF Slot
      <4> QED
        BY <4>1, <4>2, <1>6
    <3> QED
      BY <3>1, <3>2, <3>4
  <2> QED
    BY <2>1, <2>2
<1>15. FilesBound'
  BY <1>1, <1>2, <1>6, <1>7, <1>8 DEF IndInv, FilesBound, IsDriveConnected
<1>16. PhysicalLoop'
  <2>1. n' - 2 * side' = base
    BY <1>2, <1>8
  <2>2. ASSUME NEW k \in 0..side
        PROVE  LET s == base + 2 * k IN
               /\ drives'[s] # NoDrive
               /\ drives'[s].file = files + 1
               /\ drives'[s].side = k
    <3>1. CASE k = side
      BY <3>1, <1>2, <1>6
    <3>2. CASE k # side
      <4>1. k \in 0..side - 1
        BY <3>2, <1>2
      <4>2. /\ drives[base + 2 * k] # NoDrive
            /\ drives[base + 2 * k].file = files + 1
            /\ drives[base + 2 * k].side = k
        BY <4>1, <1>1 DEF IndInv, PhysicalLoop, IsDriveConnected
      <4>3. base + 2 * k \in Slot /\ base + 2 * k # n
        BY <4>1, <1>1, <1>2, <1>3 DEF Slot
      <4> QED
        BY <4>2, <4>3, <1>6
    <3> QED
      BY <3>1, <3>2
  <2>3. ASSUME NEW k \in 0..sides - (side + 1) - 1
        PROVE  n + 2 + 2 * k < Limit - 1 /\ drives'[n + 2 + 2 * k] = NoDrive
    <3>1. k + 1 \in 0..sides - side - 1 /\ n + 2 + 2 * k = n + 2 * (k + 1)
      BY <1>2
    <3>2. n + 2 * (k + 1) < Limit - 1 /\ drives[n + 2 * (k + 1)] = NoDrive
      BY <3>1, <1>1 DEF IndInv, PhysicalLoop, IsDriveConnected
    <3>3. n + 2 * (k + 1) \in Slot /\ n + 2 * (k + 1) # n
      BY <3>1, <3>2, <1>2 DEF Slot
    <3> QED
      BY <3>1, <3>2, <3>3, <1>6
  <2>4. side' - 1 = side
    BY <1>2, <1>8
  <2> QED
    BY <2>1, <2>2, <2>3, <2>4, <1>1, <1>3, <1>8
    DEF PhysicalLoop, IsDriveConnected, IsSecondSide
<1>17. FirstLoop' /\ ShowLoop' /\ ShowsEveryDrive' /\ MountsLate' /\ MountsALiveDisc'
  BY <1>1, <1>8 DEF IndInv, FirstLoop, ShowLoop, ShowsEveryDrive, MountsLate, MountsALiveDisc
<1> QED
  BY <1>9, <1>10, <1>12, <1>13, <1>14, <1>15, <1>16, <1>17 DEF IndInv

LEMMA ConnectFirstIndInv ==
  ASSUME IndInv, ConnectFirst
  PROVE  IndInv'
<1>1. pc = "first" /\ side < sides /\ how = "FIRST" /\ n \in Slot
  BY DEF IndInv, ConnectFirst, FirstLoop, TypeOK
<1>2. side \in Nat /\ sides \in Nat /\ files \in Nat /\ Limit \in Nat /\ n \in Nat
  BY LimitFacts DEF IndInv, TypeOK, Slot
<1> PICK stop \in n..Limit :
      /\ n' = stop
      /\ \A s \in n..stop - 1 : IsDriveConnected(s)
      /\ \/ /\ stop < Limit
            /\ ~IsDriveConnected(stop)
            /\ \E formatted \in Formatted : ConnectInternal(stop, ConnectedNow(formatted))
         \/ /\ stop = Limit
            /\ UNCHANGED <<drives, caches>>
  BY DEF ConnectFirst
<1>3. /\ side' = side + 1 /\ n' = stop
      /\ UNCHANGED <<pc, how, files, sides, shown, mounted>>
  BY DEF ConnectFirst
<1>4. /\ stop \in Slot /\ stop \in Nat /\ n <= stop /\ stop <= Limit
      /\ side' \in 0..sides'
  BY <1>1, <1>2, <1>3 DEF Slot
\* Everything below the slot the scan stopped at is taken.
<1>5. \A s \in 0..stop - 1 : IsDriveConnected(s)
  <2> TAKE s \in 0..stop - 1
  <2>1. s \in 0..n - 1 \/ s \in n..stop - 1
    BY <1>2, <1>4
  <2> QED
    BY <2>1, <1>1, <1>3 DEF IndInv, FirstLoop
<1>6. CASE UNCHANGED <<drives, caches>>
  <2>1. TypeOK'
    BY <1>3, <1>4, <1>6 DEF IndInv, TypeOK
  <2>2. CachesAgree' /\ SecondSideNeedsFirst' /\ PhysicalDiscIntact' /\ SidesInPhysicalOrder'
    BY <1>6 DEF IndInv, CachesAgree, SecondSideNeedsFirst, PhysicalDiscIntact,
       SidesInPhysicalOrder, IsDriveConnected
  <2>3. FilesBound' /\ FirstLoop'
    BY <1>1, <1>3, <1>5, <1>6 DEF IndInv, FilesBound, FirstLoop, IsDriveConnected
  <2>4. PhysicalLoop' /\ ShowLoop' /\ ShowsEveryDrive' /\ MountsLate' /\ MountsALiveDisc'
    BY <1>1, <1>3
    DEF IndInv, PhysicalLoop, ShowLoop, ShowsEveryDrive, MountsLate, MountsALiveDisc
  <2> QED
    BY <2>1, <2>2, <2>3, <2>4 DEF IndInv
<1>7. CASE /\ stop < Limit /\ ~IsDriveConnected(stop)
           /\ \E formatted \in Formatted : ConnectInternal(stop, ConnectedNow(formatted))
  <2>1. PICK formatted \in Formatted : ConnectInternal(stop, ConnectedNow(formatted))
    BY <1>7
  <2>2. /\ caches' = drives'
        /\ drives' \in [Slot -> Drive \cup {NoDrive}]
        /\ drives'[stop] # NoDrive
        /\ drives'[stop].file = files + 1
        /\ drives'[stop].how = "FIRST"
        /\ \A t \in Slot : t # stop => drives'[t] = drives[t]
    BY <1>1, <1>4, <1>7, <2>1, ConnectFreeSlot DEF IndInv
  <2>3. \A t \in Slot : drives'[t] # NoDrive <=> t = stop \/ IsDriveConnected(t)
    BY <2>2, <1>7 DEF IsDriveConnected
  <2>4. TypeOK'
    BY <1>3, <1>4, <2>2 DEF IndInv, TypeOK
  <2>5. CachesAgree'
    BY <2>2 DEF CachesAgree
  <2>6. SecondSideNeedsFirst'
    <3> SUFFICES ASSUME NEW s \in Slot, IsSecondSide(s), drives'[s] # NoDrive
                 PROVE  drives'[s - 2] # NoDrive
      BY DEF SecondSideNeedsFirst, IsSecondSide, IsDriveConnected
    <3>1. s - 2 \in Slot
      BY <1>2, SecondSideFacts DEF Slot
    <3>2. IsDriveConnected(s - 2)
      <4>1. CASE s = stop
        <5>1. s - 2 \in 0..stop - 1
          BY <4>1, <1>2, <1>4, SecondSideFacts DEF Slot
        <5> QED
          BY <5>1, <1>5
      <4>2. CASE s # stop
        BY <4>2, <2>3 DEF IndInv, SecondSideNeedsFirst
      <4> QED
        BY <4>1, <4>2
    <3> QED
      BY <3>1, <3>2, <2>3
  <2>7. PhysicalDiscIntact'
    <3> SUFFICES ASSUME NEW s \in Slot, NEW t \in Slot, t = OppositeSurface(s),
                        drives'[s] # NoDrive, drives'[t] # NoDrive,
                        drives'[s].file < drives'[t].file
                 PROVE  drives'[t].how = "FIRST"
      BY DEF PhysicalDiscIntact, IsDriveConnected, OppositeSurface
    <3>1. CASE t = stop
      BY <3>1, <2>2
    <3>2. CASE s = stop /\ t # stop
      <4>1. drives[t].file \in Nat /\ drives[t].file <= files + 1
        BY <3>2, <2>2 DEF IndInv, FilesBound, IsDriveConnected, TypeOK, Drive
      <4> QED
        BY <3>2, <4>1, <1>2, <2>2
    <3>3. CASE s # stop /\ t # stop
      BY <3>3, <2>2 DEF IndInv, PhysicalDiscIntact, IsDriveConnected
    <3> QED
      BY <3>1, <3>2, <3>3
  <2>8. SidesInPhysicalOrder'
    <3> SUFFICES ASSUME NEW s \in Slot, drives'[s] # NoDrive, drives'[s].how = "PHYSICAL"
                 PROVE  LET b == s - 2 * drives'[s].side IN
                        /\ b \in Slot
                        /\ ~IsSecondSide(b)
                        /\ \A k \in 0..drives'[s].side :
                             /\ drives'[b + 2 * k].file = drives'[s].file
                             /\ drives'[b + 2 * k].side = k
      BY DEF SidesInPhysicalOrder, IsDriveConnected, IsSecondSide
    <3> DEFINE b == s - 2 * drives[s].side
    <3>1. s # stop /\ drives'[s] = drives[s]
      BY <2>2
    <3>2. /\ b \in Slot
          /\ ~IsSecondSide(b)
          /\ \A k \in 0..drives[s].side :
               drives[b + 2 * k].file = drives[s].file /\ drives[b + 2 * k].side = k
      BY <3>1 DEF IndInv, SidesInPhysicalOrder, IsDriveConnected
    <3>3. drives[s].file # 0 /\ drives[stop].file = 0 /\ drives[s].side \in Nat
      BY <3>1, <1>4, <1>7 DEF IndInv, TypeOK, Drive, NoDrive, IsDriveConnected
    <3>4. ASSUME NEW k \in 0..drives[s].side
          PROVE  drives'[b + 2 * k] = drives[b + 2 * k]
      <4>1. b + 2 * k # stop
        BY <3>2, <3>3
      <4>2. b + 2 * k \in Slot
        BY <3>2, <3>3, <1>2 DEF Slot
      <4> QED
        BY <4>1, <4>2, <2>2
    <3> QED
      BY <3>1, <3>2, <3>4
  <2>9. FilesBound'
    BY <1>1, <1>2, <1>3, <2>2, <2>3 DEF IndInv, FilesBound, IsDriveConnected
  <2>10. FirstLoop'
    <3>1. \A s \in 0..stop - 1 : s \in Slot
      BY <1>2, <1>4 DEF Slot
    <3> QED
      BY <3>1, <1>1, <1>3, <1>5, <2>3 DEF FirstLoop, IsDriveConnected
  <2>11. PhysicalLoop' /\ ShowLoop' /\ ShowsEveryDrive' /\ MountsLate' /\ MountsALiveDisc'
    BY <1>1, <1>3
    DEF IndInv, PhysicalLoop, ShowLoop, ShowsEveryDrive, MountsLate, MountsALiveDisc
  <2> QED
    BY <2>4, <2>5, <2>6, <2>7, <2>8, <2>9, <2>10, <2>11 DEF IndInv
<1> QED
  BY <1>6, <1>7

----------------------------------------------------------------------------
(* The invariant is preserved: the other steps *)

\* A step that leaves the table alone and is not in a loop afterwards.
LEMMA TableUnchanged ==
  ASSUME IndInv, UNCHANGED <<drives, caches>>
  PROVE  CachesAgree' /\ SecondSideNeedsFirst' /\ PhysicalDiscIntact' /\ SidesInPhysicalOrder'
BY DEF IndInv, CachesAgree, SecondSideNeedsFirst, PhysicalDiscIntact,
   SidesInPhysicalOrder, IsDriveConnected

LEMMA OptImageFileIndInv ==
  ASSUME IndInv, NEW count \in 0..MaxSides, OptImageFile(count)
  PROVE  IndInv'
<1>1. /\ pc = "options" /\ sides' = count /\ side' = 0
      /\ UNCHANGED <<how, drives, caches, files, shown, mounted>>
  BY DEF OptImageFile
<1>2. count \in Nat /\ Limit \in Nat
  BY BoundsAssumption, LimitAssumption
<1>3. CachesAgree' /\ SecondSideNeedsFirst' /\ PhysicalDiscIntact' /\ SidesInPhysicalOrder'
  BY <1>1, TableUnchanged
<1>4. CASE how = "FIRST" /\ n' = 0 /\ pc' = "first"
  <2>1. TypeOK'
    BY <1>1, <1>2, <1>4 DEF IndInv, TypeOK, Slot
  <2>2. FilesBound'
    BY <1>1, <1>4 DEF IndInv, FilesBound, IsDriveConnected
  <2> QED
    BY <2>1, <2>2, <1>1, <1>3, <1>4
    DEF IndInv, PhysicalLoop, FirstLoop, ShowLoop, ShowsEveryDrive, MountsLate, MountsALiveDisc
<1>5. CASE /\ how = "PHYSICAL" /\ pc' = "physical"
           /\ \E i \in 0..Limit - 1 : FirstFit(i, count) /\ n' = i
  <2> PICK i \in 0..Limit - 1 : FirstFit(i, count) /\ n' = i
    BY <1>5
  <2>1. TypeOK'
    BY <1>1, <1>2, <1>5 DEF IndInv, TypeOK, Slot
  <2>2. FilesBound'
    BY <1>1, <1>5 DEF IndInv, FilesBound, IsDriveConnected
  <2>3. ~IsSecondSide(i)
    BY <1>2, FirstFitOnFirstSide
  <2>4. \A k \in 0..count - 1 : i + 2 * k < Limit - 1 /\ ~IsDriveConnected(i + 2 * k)
    BY DEF FirstFit, CheckSequenceFits
  <2>5. n' - 2 * side' = i /\ i \in Nat /\ count - 0 - 1 = count - 1
    BY <1>1, <1>2
  <2>6. PhysicalLoop'
    BY <1>1, <1>2, <1>5, <2>3, <2>4, <2>5 DEF PhysicalLoop, IsSecondSide, IsDriveConnected
  <2> QED
    BY <2>1, <2>2, <2>6, <1>1, <1>3, <1>5
    DEF IndInv, FirstLoop, ShowLoop, ShowsEveryDrive, MountsLate, MountsALiveDisc
<1>6. CASE how = "PHYSICAL" /\ n' = Limit /\ pc' = "exited"
  <2>1. TypeOK'
    BY <1>1, <1>2, <1>6 DEF IndInv, TypeOK, Slot
  <2>2. FilesBound'
    BY <1>1, <1>6 DEF IndInv, FilesBound, IsDriveConnected
  <2> QED
    BY <2>1, <2>2, <1>1, <1>3, <1>6
    DEF IndInv, PhysicalLoop, FirstLoop, ShowLoop, ShowsEveryDrive, MountsLate, MountsALiveDisc
<1> QED
  BY <1>4, <1>5, <1>6 DEF OptImageFile

\* An image is accepted: every connected drive is of a live image.
LEMMA ImageAcceptedIndInv ==
  ASSUME IndInv, PhysicalReturnsTrue \/ FirstReturns
  PROVE  IndInv'
<1>1. /\ pc \in {"physical", "first"}
      /\ UNCHANGED <<how, drives, caches, sides, side, n, shown, mounted>>
      /\ \/ files' = files + 1 /\ pc' = "options"
         \/ files' = files /\ pc' = "exited"
  BY DEF PhysicalReturnsTrue, FirstReturns, ImageAccepted
<1>2. CachesAgree' /\ SecondSideNeedsFirst' /\ PhysicalDiscIntact' /\ SidesInPhysicalOrder'
  BY <1>1, TableUnchanged
<1>3. TypeOK'
  BY <1>1 DEF IndInv, TypeOK
<1>4. FilesBound'
  <2>1. \A s \in Slot : IsDriveConnected(s) => drives[s].file \in Nat
    BY DEF IndInv, TypeOK, Drive, IsDriveConnected
  <2>2. files \in Nat
    BY DEF IndInv, TypeOK
  <2> QED
    BY <2>1, <2>2, <1>1 DEF IndInv, FilesBound, IsDriveConnected
<1> QED
  BY <1>1, <1>2, <1>3, <1>4
  DEF IndInv, PhysicalLoop, FirstLoop, ShowLoop, ShowsEveryDrive, MountsLate, MountsALiveDisc

LEMMA ShowDriveIndInv ==
  ASSUME IndInv, ShowDrive
  PROVE  IndInv'
<1> PICK last \in Slot : IsLoopLimit(last) /\ pc' = IF n < last THEN "show" ELSE "command"
  BY DEF ShowDrive
<1>1. /\ pc = "show" /\ shown' = shown \cup {n} /\ n' = (n + 1) % (Limit + 1)
      /\ UNCHANGED <<how, drives, caches, files, sides, side, mounted>>
  BY DEF ShowDrive
<1>2. n \in Nat /\ last \in Nat /\ Limit \in Nat /\ n <= Limit /\ last <= Limit
  BY LimitFacts DEF IndInv, TypeOK, Slot
<1>3. shown' = 0..n
  BY <1>1, <1>2 DEF IndInv, ShowLoop
<1>4. n' \in Slot
  BY <1>1, <1>2 DEF Slot
<1>5. n < last => n' = n + 1
  BY <1>1, <1>2
<1>6. TypeOK'
  BY <1>1, <1>2, <1>3, <1>4 DEF IndInv, TypeOK, Slot
<1>7. CachesAgree' /\ SecondSideNeedsFirst' /\ PhysicalDiscIntact' /\ SidesInPhysicalOrder'
  BY <1>1, TableUnchanged
<1>8. FilesBound'
  BY <1>1 DEF IndInv, FilesBound, IsDriveConnected
<1>9. ShowLoop'
  <2>1. CASE n < last
    BY <2>1, <1>2, <1>3, <1>5 DEF ShowLoop
  <2>2. CASE ~(n < last)
    BY <2>2 DEF ShowLoop
  <2> QED
    BY <2>1, <2>2
<1>10. ShowsEveryDrive'
  <2> SUFFICES ASSUME ~(n < last)
               PROVE  /\ 0..AcornDefaultLastSurface \subseteq 0..n
                      /\ \A s \in Slot : IsDriveConnected(s) => 0..s \subseteq 0..n
    BY <1>1, <1>3 DEF ShowsEveryDrive, IsDriveConnected
  <2>1. AcornDefaultLastSurface <= n
    BY <1>2 DEF IsLoopLimit, AcornDefaultLastSurface
  <2>2. ASSUME NEW s \in Slot, IsDriveConnected(s) PROVE s <= n
    BY <2>2, <1>2 DEF IsLoopLimit, Slot
  <2> QED
    BY <2>1, <2>2, <1>2 DEF Slot, AcornDefaultLastSurface
<1> QED
  BY <1>1, <1>6, <1>7, <1>8, <1>9, <1>10
  DEF IndInv, PhysicalLoop, FirstLoop, MountsLate, MountsALiveDisc

LEMMA MountFsIndInv ==
  ASSUME IndInv, NEW s \in Slot, MountFs(s)
  PROVE  IndInv'
<1>1. /\ pc = "command"
      /\ UNCHANGED <<pc, how, drives, caches, files, sides, side, n, shown>>
  BY DEF MountFs
<1>2. CachesAgree' /\ SecondSideNeedsFirst' /\ PhysicalDiscIntact' /\ SidesInPhysicalOrder'
  BY <1>1, TableUnchanged
<1>3. TypeOK'
  BY <1>1 DEF IndInv, TypeOK, MountFs, NothingMounted, SelectDrive
<1>4. MountsALiveDisc'
  <2>1. CASE SelectDrive(s) = NoDrive \/ ~HasFormat(s)
    BY <2>1 DEF MountFs, MountsALiveDisc
  <2>2. CASE ~(SelectDrive(s) = NoDrive \/ ~HasFormat(s))
    <3>1. mounted' = [device |-> caches[s], format_of |-> drives[s]]
      BY <2>2 DEF MountFs, SelectDrive
    <3>2. caches[s] = drives[s] /\ drives[s] # NoDrive /\ drives[s] \in Drive
      BY <2>2 DEF IndInv, CachesAgree, TypeOK, SelectDrive
    <3>3. drives[s].file <= files /\ files \in Nat /\ drives[s].file \in Nat \ {0}
      BY <3>2, <1>1 DEF IndInv, FilesBound, IsDriveConnected, Drive, TypeOK
    <3> QED
      BY <3>1, <3>2, <3>3, <1>1 DEF MountsALiveDisc
  <2> QED
    BY <2>1, <2>2
<1>5. FilesBound' /\ ShowsEveryDrive'
  BY <1>1 DEF IndInv, FilesBound, ShowsEveryDrive, IsDriveConnected
<1> QED
  BY <1>1, <1>2, <1>3, <1>4, <1>5 DEF IndInv, PhysicalLoop, FirstLoop, ShowLoop, MountsLate

\* The steps that move main() along without touching the table.
LEMMA ControlIndInv ==
  ASSUME IndInv,
         \/ \E strategy \in Strategy : OptAllocate(strategy)
         \/ OptionsEndTheProgram
         \/ OptionsDone
         \/ CommandReturns
         \/ UNCHANGED vars
  PROVE  IndInv'
<1>1. /\ UNCHANGED <<drives, caches, files, sides, side, shown, mounted>>
      /\ how' \in Strategy
      /\ \/ pc' = pc /\ n' = n /\ (pc = "options" \/ how' = how)
         \/ pc' = "exited" /\ n' = n
         \/ pc = "options" /\ pc' \in {"show", "command"} /\ n' = 0
  BY DEF IndInv, TypeOK, OptAllocate, OptionsEndTheProgram, OptionsDone, CommandReturns, vars
<1>2. CachesAgree' /\ SecondSideNeedsFirst' /\ PhysicalDiscIntact' /\ SidesInPhysicalOrder'
  BY <1>1, TableUnchanged
<1>3. TypeOK'
  BY <1>1, LimitFacts DEF IndInv, TypeOK, Slot
<1>4. FilesBound'
  BY <1>1 DEF IndInv, FilesBound, IsDriveConnected
<1>5. PhysicalLoop' /\ FirstLoop'
  BY <1>1 DEF IndInv, PhysicalLoop, FirstLoop, IsDriveConnected, IsSecondSide
<1>6. ShowLoop'
  <2>1. 0..0 - 1 = {}
    OBVIOUS
  <2>2. CASE pc' = pc /\ n' = n
    BY <2>2, <1>1 DEF IndInv, ShowLoop
  <2>3. CASE pc' = "exited"
    BY <2>3 DEF ShowLoop
  <2>4. CASE pc = "options" /\ pc' \in {"show", "command"} /\ n' = 0
    BY <2>1, <2>4, <1>1 DEF IndInv, ShowLoop
  <2> QED
    BY <2>2, <2>3, <2>4, <1>1
<1>7. ShowsEveryDrive' /\ MountsALiveDisc' /\ MountsLate'
  BY <1>1 DEF IndInv, ShowLoop, ShowsEveryDrive, MountsALiveDisc, MountsLate, IsDriveConnected
<1> QED
  BY <1>2, <1>3, <1>4, <1>5, <1>6, <1>7 DEF IndInv

LEMMA NextIndInv == IndInv /\ [Next]_vars => IndInv'
<1> SUFFICES ASSUME IndInv, [Next]_vars PROVE IndInv'
  OBVIOUS
<1>1. ASSUME NEW strategy \in Strategy, OptAllocate(strategy) PROVE IndInv'
  BY <1>1, ControlIndInv
<1>2. CASE OptionsEndTheProgram
  BY <1>2, ControlIndInv
<1>3. ASSUME NEW count \in 0..MaxSides, OptImageFile(count) PROVE IndInv'
  BY <1>3, OptImageFileIndInv
<1>4. CASE ConnectPhysical
  BY <1>4, ConnectPhysicalIndInv
<1>5. CASE PhysicalReturnsTrue
  BY <1>5, ImageAcceptedIndInv
<1>6. CASE ConnectFirst
  BY <1>6, ConnectFirstIndInv
<1>7. CASE FirstReturns
  BY <1>7, ImageAcceptedIndInv
<1>8. CASE OptionsDone
  BY <1>8, ControlIndInv
<1>9. CASE ShowDrive
  BY <1>9, ShowDriveIndInv
<1>10. ASSUME NEW s \in Slot, MountFs(s) PROVE IndInv'
  BY <1>10, MountFsIndInv
<1>11. CASE CommandReturns
  BY <1>11, ControlIndInv
<1>12. CASE Exited
  BY <1>12, ControlIndInv DEF Exited
<1>13. CASE UNCHANGED vars
  BY <1>13, ControlIndInv
<1> QED
  BY <1>1, <1>2, <1>3, <1>4, <1>5, <1>6, <1>7, <1>8, <1>9, <1>10, <1>11, <1>12, <1>13
  DEF Next

\* The inductive invariant holds in every reachable state: everything below
\* is read off it.
THEOREM Invariance == Spec => []IndInv
BY InitIndInv, NextIndInv, PTL DEF Spec

----------------------------------------------------------------------------
(* What the invariant says of the program *)

\* Type correctness; no selector arithmetic leaves the range of a
\* drive_number, whatever is connected (check_sequence_fits, connect_drives).
THEOREM TypeCorrect == Spec => []TypeOK
BY Invariance, PTL DEF IndInv

\* No mixture of the strategies uses a second side without its first.
THEOREM SecondSides == Spec => []SecondSideNeedsFirst
BY Invariance, PTL DEF IndInv

\* Asking about one opposite surface per image is enough: an image that is
\* connected under PHYSICAL never lands in a disc another image is in.
THEOREM PhysicalDiscs == Spec => []PhysicalDiscIntact
BY Invariance, PTL DEF IndInv

\* The sides of a PHYSICAL image are in order from the first side of a disc.
THEOREM PhysicalOrder == Spec => []SidesInPhysicalOrder
BY Invariance, PTL DEF IndInv

\* The assertion in connect_internal never fails in the PHYSICAL loop.
THEOREM AssertionHolds == Spec => []ConnectsFreeSlot
<1>1. IndInv => ConnectsFreeSlot
  <2> SUFFICES ASSUME IndInv, pc = "physical", side < sides PROVE ~IsDriveConnected(n)
    BY DEF ConnectsFreeSlot
  <2>1. side \in Nat /\ sides \in Nat /\ n \in Nat
    BY LimitFacts DEF IndInv, TypeOK, Slot
  <2>2. 0 \in 0..sides - side - 1 /\ n + 2 * 0 = n
    BY <2>1
  <2> QED
    BY <2>2 DEF IndInv, PhysicalLoop
<1> QED
  BY <1>1, Invariance, PTL

\* Whenever options are read or a command runs, the table points only at
\* images that main() keeps alive.
THEOREM NothingDangles == Spec => []NoDanglingDrive
<1>1. IndInv => NoDanglingDrive
  BY DEF IndInv, FilesBound, NoDanglingDrive
<1> QED
  BY <1>1, Invariance, PTL

\* A mount reads a live image, by the format identified for that side.
THEOREM MountsAreLive == Spec => []MountsALiveDisc
BY Invariance, PTL DEF IndInv

\* --show-config leaves no connected drive out.
THEOREM ShowConfigComplete == Spec => []ShowsEveryDrive
BY Invariance, PTL DEF IndInv

----------------------------------------------------------------------------
(* The drive table keeps the promise of DriveMap *)

(* The sides of the image under way are in the slots place gives, and in no   *)
(* others.                                                                    *)
Holds(place) ==
  /\ place \in [0..side - 1 -> Slot]
  /\ \A k \in 0..side - 1 :
       \E formatted \in Formatted :
         drives[place[k]] = [file |-> files + 1, side |-> k, how |-> how, formatted |-> formatted]
  /\ \A s \in Slot : drives[s].file = files + 1 => \E k \in 0..side - 1 : place[k] = s

(* place with the next side in slot s.                                        *)
Extended(place, s) == [k \in 0..side |-> IF k = side THEN s ELSE place[k]]

(* The run of surfaces from b is the one DriveMap wants for an image.         *)
LowestRun(b, count) ==
  count > 0 =>
    /\ Promise!FreeDiscs(b, count)
    /\ \A j \in 0..b - 1 : ~Promise!FreeDiscs(j, count)

(* Where the sides connected so far are: what a step of main() that DriveMap  *)
(* does not see has to keep, for the insertion to be seen at the end.         *)
Placed ==
  /\ pc \in {"physical", "first"} => sides \in 0..MaxSides
  /\ pc = "physical" =>
       /\ \E place \in [0..side - 1 -> Slot] :
            Holds(place) /\ \A k \in 0..side - 1 : place[k] = n - 2 * side + 2 * k
       /\ LowestRun(n - 2 * side, sides)
  /\ pc = "first" /\ n < Limit =>
       \E place \in [0..side - 1 -> Slot] : Holds(place) /\ Promise!FirstPlaces(place, side)

\* DriveMap sees as free the slots that are free and the slots of an image
\* that is not accepted yet.
LEMMA SeenFree ==
  ASSUME IndInv, NEW s \in Slot
  PROVE  /\ AcceptedDrives[s] = IF drives[s].file = files + 1 THEN NoDrive ELSE drives[s]
         /\ Promise!Free(s) <=> ~IsDriveConnected(s) \/ drives[s].file = files + 1
<1>1. files \in Nat /\ drives[s] \in Drive \cup {NoDrive}
  BY DEF IndInv, TypeOK
<1>2. drives[s] # NoDrive => drives[s].file \in Nat /\ drives[s].file <= files + 1
  BY <1>1 DEF IndInv, FilesBound, IsDriveConnected, Drive
<1>3. NoDrive.file = 0
  BY DEF NoDrive
<1>4. AcceptedDrives[s] = IF drives[s].file <= files THEN drives[s] ELSE NoDrive
  BY DEF AcceptedDrives
<1>5. AcceptedDrives[s] = IF drives[s].file = files + 1 THEN NoDrive ELSE drives[s]
  <2>1. CASE drives[s] = NoDrive
    BY <2>1, <1>1, <1>3, <1>4
  <2>2. CASE drives[s] # NoDrive
    BY <2>2, <1>1, <1>2, <1>4
  <2> QED
    BY <2>1, <2>2
<1>6. Promise!Free(s) <=> AcceptedDrives[s] = NoDrive
  BY DEF Promise!Free, Promise!NoDrive, NoDrive
<1> QED
  BY <1>5, <1>6 DEF IsDriveConnected

\* Before the image is accepted, connecting one of its sides is not seen.
LEMMA ConnectionUnseen ==
  ASSUME IndInv, NEW s \in Slot, ~IsDriveConnected(s), files' = files,
         drives' \in [Slot -> Drive \cup {NoDrive}],
         drives'[s].file = files + 1,
         \A t \in Slot : t # s => drives'[t] = drives[t]
  PROVE  AcceptedDrives' = AcceptedDrives
<1>1. files \in Nat /\ drives[s].file = 0 /\ drives[s] = NoDrive
  BY DEF IndInv, TypeOK, IsDriveConnected, NoDrive
<1>2. ASSUME NEW t \in Slot
      PROVE  (IF drives'[t].file <= files THEN drives'[t] ELSE NoDrive)
               = (IF drives[t].file <= files THEN drives[t] ELSE NoDrive)
  <2>1. CASE t = s
    BY <2>1, <1>1
  <2>2. CASE t # s
    BY <2>2
  <2> QED
    BY <2>1, <2>2
<1> QED
  BY <1>2 DEF AcceptedDrives, Slot

\* check_sequence_fits asks about one opposite surface only; where it stops,
\* every disc of the run is free on both sides, and nowhere below is there
\* such a run.
LEMMA FirstFitIsLowestRun ==
  ASSUME IndInv, pc = "options",
         NEW i \in 0..Limit - 1, NEW count \in Nat, FirstFit(i, count)
  PROVE  LowestRun(i, count)
<1> SUFFICES ASSUME count > 0
             PROVE  /\ Promise!FreeDiscs(i, count)
                    /\ \A j \in 0..i - 1 : ~Promise!FreeDiscs(j, count)
  BY DEF LowestRun
<1>1. Limit \in Nat /\ i \in Nat /\ files \in Nat
  BY LimitFacts DEF IndInv, TypeOK
<1>2. ~IsSecondSide(i)
  BY FirstFitOnFirstSide
<1>3. CheckSequenceFits(i, count) /\ \A j \in 0..i - 1 : ~CheckSequenceFits(j, count)
  BY DEF FirstFit
\* While options are read every drive is of an accepted image.
<1>4. ASSUME NEW s \in Slot PROVE Promise!Free(s) <=> ~IsDriveConnected(s)
  <2>1. IsDriveConnected(s) => drives[s].file \in Nat /\ drives[s].file <= files
    BY DEF IndInv, TypeOK, Drive, FilesBound, IsDriveConnected
  <2> QED
    BY <2>1, <1>1, SeenFree
<1>5. ASSUME NEW s \in Nat, s < Limit - 1
      PROVE  s \in Slot /\ OppositeSurface(s) \in Slot
                        /\ Promise!Opposite(s) = OppositeSurface(s)
  <2>1. s \in Slot
    BY <1>1, <1>5 DEF Slot
  <2>2. OppositeSurface(s) \in Slot
    BY <1>1, <1>5 DEF Slot, OppositeSurface
  <2> QED
    BY <2>1, <2>2 DEF OppositeSurface, Promise!Opposite
<1>6. Promise!FreeDiscs(i, count)
  <2> SUFFICES ASSUME NEW k \in 0..count - 1
               PROVE  /\ i + 2 * k < Limit - 1
                      /\ Promise!Free(i + 2 * k)
                      /\ Promise!Free(Promise!Opposite(i + 2 * k))
    BY DEF Promise!FreeDiscs
  <2> DEFINE s == i + 2 * k
  <2>1. s \in Nat /\ s < Limit - 1 /\ ~IsDriveConnected(s)
    BY <1>1, <1>3 DEF CheckSequenceFits
  <2>2. s \in Slot /\ OppositeSurface(s) \in Slot /\ Promise!Opposite(s) = OppositeSurface(s)
    BY <2>1, <1>5
  <2>3. ~IsDriveConnected(OppositeSurface(s))
    <3>1. CASE IsSecondSide(s)
      <4>1. k # 0
        BY <3>1, <1>1, <1>2
      <4>2. k - 1 \in 0..count - 1 /\ i + 2 * (k - 1) = s - 2
        BY <4>1, <1>1
      <4>3. ~IsDriveConnected(s - 2)
        BY <4>2, <1>3 DEF CheckSequenceFits
      <4> QED
        BY <3>1, <4>3, <2>1, SecondSideFacts
    <3>2. CASE ~IsSecondSide(s)
      <4>1. OppositeSurface(s) = s + 2 /\ IsSecondSide(s + 2) /\ s + 2 - 2 = s
        BY <3>2, <2>1, FirstSideFacts
      <4> QED
        BY <4>1, <2>1, <2>2 DEF IndInv, SecondSideNeedsFirst
    <3> QED
      BY <3>1, <3>2
  <2> QED
    BY <2>1, <2>2, <2>3, <1>4
<1>7. ASSUME NEW j \in 0..i - 1, Promise!FreeDiscs(j, count) PROVE CheckSequenceFits(j, count)
  <2>1. ASSUME NEW k \in 0..count - 1
        PROVE  j + 2 * k < Limit - 1 /\ ~IsDriveConnected(j + 2 * k)
    <3>1. j + 2 * k < Limit - 1 /\ Promise!Free(j + 2 * k)
      BY <1>7 DEF Promise!FreeDiscs
    <3>2. j + 2 * k \in Slot
      BY <3>1, <1>1, <1>5
    <3> QED
      BY <3>1, <3>2, <1>4
  <2>2. ~IsDriveConnected(j) /\ ~IsDriveConnected(OppositeSurface(j))
    <3>1. 0 \in 0..count - 1 /\ j + 2 * 0 = j /\ j \in Nat
      BY <1>1
    <3>2. j < Limit - 1 /\ ~IsDriveConnected(j)
      BY <3>1, <2>1
    <3>3. Promise!Free(Promise!Opposite(j + 2 * 0))
      BY <3>1, <1>7 DEF Promise!FreeDiscs
    <3> QED
      BY <3>1, <3>2, <3>3, <1>4, <1>5
  <2> QED
    BY <2>1, <2>2 DEF CheckSequenceFits
<1> QED
  BY <1>3, <1>6, <1>7

LEMMA InitPlaced == Init => Placed
BY DEF Init, Placed

LEMMA OptImageFilePlaced ==
  ASSUME IndInv, NEW count \in 0..MaxSides, OptImageFile(count)
  PROVE  Placed' /\ UNCHANGED <<AcceptedDrives, files>>
<1>1. /\ pc = "options" /\ sides' = count /\ side' = 0 /\ side' - 1 = -1
      /\ UNCHANGED <<how, drives, caches, files, shown, mounted>>
  BY DEF OptImageFile
<1>2. count \in Nat /\ Limit \in Nat /\ files \in Nat
  BY BoundsAssumption, LimitAssumption DEF IndInv, TypeOK
<1>3. AcceptedDrives' = AcceptedDrives
  BY <1>1 DEF AcceptedDrives
<1> DEFINE nowhere == [k \in 0..-1 |-> 0]
<1>4. nowhere \in [0..side' - 1 -> Slot]
  BY <1>1
<1>5. \A s \in Slot : drives[s].file # files + 1
  <2> TAKE s \in Slot
  <2>1. IsDriveConnected(s) => drives[s].file \in Nat /\ drives[s].file <= files
    BY <1>1 DEF IndInv, TypeOK, Drive, FilesBound, IsDriveConnected
  <2>2. ~IsDriveConnected(s) => drives[s].file = 0
    BY DEF IsDriveConnected, NoDrive
  <2> QED
    BY <2>1, <2>2, <1>2
<1>6. Holds(nowhere)'
  BY <1>1, <1>4, <1>5 DEF Holds
<1>7. CASE how = "FIRST" /\ n' = 0 /\ pc' = "first"
  <2>1. (Promise!FirstPlaces(nowhere, side))'
    BY <1>1 DEF Promise!FirstPlaces
  <2> QED
    BY <1>1, <1>3, <1>4, <1>6, <1>7, <2>1 DEF Placed
<1>8. CASE /\ how = "PHYSICAL" /\ pc' = "physical"
           /\ \E i \in 0..Limit - 1 : FirstFit(i, count) /\ n' = i
  <2> PICK i \in 0..Limit - 1 : FirstFit(i, count) /\ n' = i
    BY <1>8
  <2>1. LowestRun(i, count)
    BY <1>1, <1>2, FirstFitIsLowestRun
  <2>2. n' - 2 * side' = i
    BY <1>1, <1>2
  <2>3. LowestRun(n - 2 * side, sides)'
    BY <1>1, <1>3, <2>1, <2>2 DEF LowestRun, Promise!FreeDiscs, Promise!Free
  <2>4. \A k \in 0..side' - 1 : nowhere[k] = n' - 2 * side' + 2 * k
    BY <1>1
  <2> QED
    BY <1>1, <1>3, <1>4, <1>6, <1>8, <2>3, <2>4 DEF Placed
<1>9. CASE how = "PHYSICAL" /\ n' = Limit /\ pc' = "exited"
  BY <1>3, <1>1, <1>9 DEF Placed
<1> QED
  BY <1>7, <1>8, <1>9 DEF OptImageFile

\* One more side is connected, to a slot that was free.
LEMMA HoldsExtends ==
  ASSUME IndInv, NEW place, Holds(place),
         NEW s \in Slot, ~IsDriveConnected(s), NEW formatted \in Formatted,
         drives' = [drives EXCEPT ![s] = ConnectedNow(formatted)],
         side' = side + 1, UNCHANGED <<files, how>>,
         NEW longer, longer = Extended(place, s)
  PROVE  Holds(longer)'
<1>1. side \in Nat /\ files \in Nat /\ side' - 1 = side /\ drives \in [Slot -> Drive \cup {NoDrive}]
  BY DEF IndInv, TypeOK
<1>2. drives[s] = NoDrive /\ drives[s].file = 0
  BY DEF IsDriveConnected, NoDrive
<1>3. place \in [0..side - 1 -> Slot]
  BY DEF Holds
<1>4. /\ longer = [k \in 0..side |-> IF k = side THEN s ELSE place[k]]
      /\ \A k \in 0..side : k # side => k \in 0..side - 1
  BY <1>1 DEF Extended
<1>5. longer \in [0..side' - 1 -> Slot]
  BY <1>1, <1>3, <1>4
<1>6. drives'[s] = ConnectedNow(formatted) /\ \A t \in Slot : t # s => drives'[t] = drives[t]
  BY <1>1
<1>7. ASSUME NEW k \in 0..side
      PROVE  \E f \in Formatted :
               drives'[longer[k]] = [file |-> files + 1, side |-> k, how |-> how, formatted |-> f]
  <2>1. CASE k = side
    BY <2>1, <1>4, <1>6 DEF ConnectedNow
  <2>2. CASE k # side
    <3>1. k \in 0..side - 1 /\ longer[k] = place[k] /\ place[k] \in Slot
      BY <2>2, <1>3, <1>4
    <3>2. PICK f \in Formatted :
            drives[place[k]] = [file |-> files + 1, side |-> k, how |-> how, formatted |-> f]
      BY <3>1 DEF Holds
    <3>3. drives[place[k]].file = files + 1
      BY <3>2
    <3>4. place[k] # s
      BY <3>3, <1>1, <1>2
    <3> QED
      BY <3>1, <3>2, <3>4, <1>6
  <2> QED
    BY <2>1, <2>2
<1>8. ASSUME NEW t \in Slot, drives'[t].file = files + 1
      PROVE  \E k \in 0..side : longer[k] = t
  <2>1. CASE t = s
    <3>1. side \in 0..side /\ longer[side] = s
      BY <1>1, <1>4
    <3> QED
      BY <2>1, <3>1
  <2>2. CASE t # s
    <3>1. PICK k \in 0..side - 1 : place[k] = t
      BY <2>2, <1>6, <1>8 DEF Holds
    <3>2. k \in 0..side /\ longer[k] = place[k]
      BY <1>1, <1>4
    <3> QED
      BY <3>1, <3>2
  <2> QED
    BY <2>1, <2>2
<1>9. \A k \in 0..side' - 1 : \E f \in Formatted :
        drives'[longer[k]] = [file |-> files' + 1, side |-> k, how |-> how', formatted |-> f]
  BY <1>1, <1>7
<1>10. \A t \in Slot : drives'[t].file = files' + 1 => \E k \in 0..side' - 1 : longer[k] = t
  BY <1>1, <1>8
<1> QED
  BY <1>5, <1>9, <1>10 DEF Holds, Slot

LEMMA ConnectPhysicalPlaced ==
  ASSUME IndInv, Placed, ConnectPhysical
  PROVE  Placed' /\ UNCHANGED <<AcceptedDrives, files>>
<1>1. /\ pc = "physical" /\ side < sides /\ n \in Slot
      /\ side' = side + 1 /\ n' = n + 2
      /\ UNCHANGED <<pc, how, files, sides, shown, mounted>>
  BY DEF IndInv, ConnectPhysical, TypeOK
<1>2. side \in Nat /\ sides \in Nat /\ n \in Nat /\ Limit \in Nat
  BY LimitFacts DEF IndInv, TypeOK, Slot
<1>3. ~IsDriveConnected(n)
  <2>1. 0 \in 0..sides - side - 1 /\ n + 2 * 0 = n
    BY <1>1, <1>2
  <2> QED
    BY <1>1, <2>1 DEF IndInv, PhysicalLoop
<1>4. PICK formatted \in Formatted : ConnectInternal(n, ConnectedNow(formatted))
  BY DEF ConnectPhysical
<1>5. /\ drives' = [drives EXCEPT ![n] = ConnectedNow(formatted)]
      /\ drives' \in [Slot -> Drive \cup {NoDrive}]
      /\ drives'[n].file = files + 1
      /\ \A t \in Slot : t # n => drives'[t] = drives[t]
  BY <1>1, <1>3, <1>4, ConnectFreeSlot DEF IndInv
<1>6. AcceptedDrives' = AcceptedDrives
  BY <1>1, <1>3, <1>5, ConnectionUnseen
<1>7. n' - 2 * side' = n - 2 * side
  BY <1>1, <1>2
<1>8. LowestRun(n - 2 * side, sides)'
  <2>1. LowestRun(n - 2 * side, sides)
    BY <1>1 DEF Placed
  <2> QED
    BY <2>1, <1>1, <1>6, <1>7 DEF LowestRun, Promise!FreeDiscs, Promise!Free
<1> PICK place \in [0..side - 1 -> Slot] :
      Holds(place) /\ \A k \in 0..side - 1 : place[k] = n - 2 * side + 2 * k
  BY <1>1 DEF Placed
<1> PICK longer : longer = Extended(place, n)
  OBVIOUS
<1>9. Holds(longer)'
  BY <1>1, <1>3, <1>5, HoldsExtends
<1>10. side' - 1 = side
  BY <1>1, <1>2
<1>11. longer \in [0..side' - 1 -> Slot]
  BY <1>9 DEF Holds
<1>12. \A k \in 0..side' - 1 : longer[k] = n' - 2 * side' + 2 * k
  <2> SUFFICES ASSUME NEW k \in 0..side PROVE longer[k] = n - 2 * side + 2 * k
    BY <1>7, <1>10
  <2>1. CASE k = side
    BY <2>1, <1>2 DEF Extended
  <2>2. CASE k # side
    <3>1. k \in 0..side - 1 /\ longer[k] = place[k]
      BY <2>2, <1>2 DEF Extended
    <3> QED
      BY <3>1
  <2> QED
    BY <2>1, <2>2
<1>13. sides' \in 0..MaxSides
  BY <1>1 DEF Placed
<1> QED
  BY <1>1, <1>6, <1>8, <1>9, <1>11, <1>12, <1>13 DEF Placed

LEMMA ConnectFirstPlaced ==
  ASSUME IndInv, Placed, ConnectFirst
  PROVE  Placed' /\ UNCHANGED <<AcceptedDrives, files>>
<1>1. pc = "first" /\ side < sides /\ how = "FIRST" /\ n \in Slot
  BY DEF IndInv, ConnectFirst, FirstLoop, TypeOK
<1>2. side \in Nat /\ sides \in Nat /\ n \in Nat /\ Limit \in Nat
  BY LimitFacts DEF IndInv, TypeOK, Slot
<1> PICK stop \in n..Limit :
      /\ n' = stop
      /\ \A s \in n..stop - 1 : IsDriveConnected(s)
      /\ \/ /\ stop < Limit
            /\ ~IsDriveConnected(stop)
            /\ \E formatted \in Formatted : ConnectInternal(stop, ConnectedNow(formatted))
         \/ /\ stop = Limit
            /\ UNCHANGED <<drives, caches>>
  BY DEF ConnectFirst
<1>3. /\ side' = side + 1 /\ side' - 1 = side
      /\ UNCHANGED <<pc, how, files, sides, shown, mounted>>
  BY <1>2 DEF ConnectFirst
<1>4. sides' \in 0..MaxSides
  BY <1>1, <1>3 DEF Placed
<1>5. CASE stop = Limit /\ UNCHANGED <<drives, caches>>
  <2>1. AcceptedDrives' = AcceptedDrives
    BY <1>3, <1>5 DEF AcceptedDrives
  <2>2. ~(n' < Limit)
    BY <1>5, <1>2
  <2> QED
    BY <2>1, <2>2, <1>1, <1>3, <1>4 DEF Placed
<1>6. CASE /\ stop < Limit
           /\ ~IsDriveConnected(stop)
           /\ \E formatted \in Formatted : ConnectInternal(stop, ConnectedNow(formatted))
  <2> PICK formatted \in Formatted : ConnectInternal(stop, ConnectedNow(formatted))
    BY <1>6
  <2>1. stop \in Slot /\ stop \in Nat /\ n < Limit
    BY <1>2, <1>6 DEF Slot
  <2>2. /\ drives' = [drives EXCEPT ![stop] = ConnectedNow(formatted)]
        /\ drives' \in [Slot -> Drive \cup {NoDrive}]
        /\ drives'[stop].file = files + 1
        /\ \A t \in Slot : t # stop => drives'[t] = drives[t]
    BY <1>6, <2>1, ConnectFreeSlot DEF IndInv
  <2>3. AcceptedDrives' = AcceptedDrives
    BY <1>3, <1>6, <2>1, <2>2, ConnectionUnseen
  <2> PICK place \in [0..side - 1 -> Slot] : Holds(place) /\ Promise!FirstPlaces(place, side)
    BY <1>1, <2>1 DEF Placed
  <2> PICK longer : longer = Extended(place, stop)
    OBVIOUS
  <2>4. Holds(longer)'
    BY <1>3, <1>6, <2>1, <2>2, HoldsExtends
  <2>5. longer \in [0..side' - 1 -> Slot]
    BY <2>4 DEF Holds
  <2>6. ASSUME NEW k \in 0..side
        PROVE  /\ Promise!Free(longer[k])
               /\ \A s \in 0..longer[k] - 1 :
                    Promise!Free(s) <=> \E j \in 0..k - 1 : longer[j] = s
    <3>1. CASE k # side
      <4>1. k \in 0..side - 1 /\ longer[k] = place[k]
        BY <3>1, <1>2 DEF Extended
      <4>2. \A j \in 0..k - 1 : longer[j] = place[j]
        BY <4>1, <1>2 DEF Extended
      <4>3. /\ Promise!Free(place[k])
            /\ \A s \in 0..place[k] - 1 :
                 Promise!Free(s) <=> \E j \in 0..k - 1 : place[j] = s
        BY <4>1 DEF Promise!FirstPlaces
      <4>4. ASSUME NEW s \in 0..longer[k] - 1
            PROVE  Promise!Free(s) <=> \E j \in 0..k - 1 : longer[j] = s
        <5>1. s \in 0..place[k] - 1
          BY <4>1
        <5>2. Promise!Free(s) <=> \E j \in 0..k - 1 : place[j] = s
          BY <4>3, <5>1
        <5> QED
          BY <5>2, <4>2
      <4> QED
        BY <4>1, <4>3, <4>4
    <3>2. CASE k = side
      <4>1. longer[k] = stop
        BY <3>2 DEF Extended
      <4>2. Promise!Free(stop)
        BY <1>6, <2>1, SeenFree
      <4>3. \A j \in 0..side - 1 : longer[j] = place[j]
        BY <1>2 DEF Extended
      <4>4. ASSUME NEW s \in 0..stop - 1
            PROVE  Promise!Free(s) <=> \E j \in 0..side - 1 : place[j] = s
        <5>1. s \in Slot /\ (s \in 0..n - 1 \/ s \in n..stop - 1)
          BY <1>2, <2>1 DEF Slot
        <5>2. IsDriveConnected(s)
          BY <5>1, <1>1 DEF IndInv, FirstLoop
        <5>3. Promise!Free(s) <=> drives[s].file = files + 1
          BY <5>1, <5>2, SeenFree
        <5>4. ASSUME NEW j \in 0..side - 1, place[j] = s PROVE drives[s].file = files + 1
          <6>1. PICK f \in Formatted :
                  drives[place[j]]
                    = [file |-> files + 1, side |-> j, how |-> how, formatted |-> f]
            BY DEF Holds
          <6> QED
            BY <5>4, <6>1
        <5>5. drives[s].file = files + 1 => \E j \in 0..side - 1 : place[j] = s
          BY <5>1 DEF Holds
        <5> QED
          BY <5>3, <5>4, <5>5
      <4> QED
        BY <3>2, <4>1, <4>2, <4>3, <4>4
    <3> QED
      BY <3>1, <3>2
  <2>7. (Promise!FirstPlaces(longer, side))'
    <3>1. \A k \in 0..side : longer[k] \in Slot
      BY <2>5, <1>3
    <3> QED
      BY <2>3, <2>6, <1>3 DEF Promise!FirstPlaces, Promise!Free
  <2> QED
    BY <2>3, <2>4, <2>5, <2>7, <1>1, <1>3, <1>4 DEF Placed
<1> QED
  BY <1>5, <1>6

\* The steps that neither begin, extend nor accept an image.
LEMMA OtherStepsPlaced ==
  ASSUME IndInv, Placed,
         \/ \E strategy \in Strategy : OptAllocate(strategy)
         \/ OptionsEndTheProgram
         \/ FirstReturns /\ n = Limit
         \/ OptionsDone
         \/ ShowDrive
         \/ \E s \in Slot : MountFs(s)
         \/ CommandReturns
         \/ UNCHANGED vars
  PROVE  Placed' /\ UNCHANGED <<AcceptedDrives, files>>
<1>1. /\ UNCHANGED <<drives, caches, files, sides, side>>
      /\ \/ pc' \notin {"physical", "first"}
         \/ UNCHANGED <<pc, how, n>>
  <2>1. CASE FirstReturns /\ n = Limit
    <3>1. ~(n < Limit)
      BY <2>1, LimitFacts
    <3> QED
      BY <2>1, <3>1 DEF FirstReturns
  <2>2. CASE ShowDrive
    BY <2>2 DEF ShowDrive
  <2>3. CASE \E s \in Slot : MountFs(s)
    BY <2>3 DEF MountFs
  <2>4. CASE \/ \E strategy \in Strategy : OptAllocate(strategy)
             \/ OptionsEndTheProgram \/ OptionsDone \/ CommandReturns \/ UNCHANGED vars
    BY <2>4 DEF OptAllocate, OptionsEndTheProgram, OptionsDone, CommandReturns, vars
  <2> QED
    BY <2>1, <2>2, <2>3, <2>4
<1>2. AcceptedDrives' = AcceptedDrives
  BY <1>1 DEF AcceptedDrives
<1>3. CASE pc' \notin {"physical", "first"}
  BY <1>1, <1>2, <1>3 DEF Placed
<1>4. CASE UNCHANGED <<pc, how, n>>
  <2>1. \A place : Holds(place)' <=> Holds(place)
    BY <1>1, <1>4 DEF Holds
  <2>2. \A place : (Promise!FirstPlaces(place, side))' <=> Promise!FirstPlaces(place, side)
    BY <1>1, <1>2 DEF Promise!FirstPlaces, Promise!Free
  <2>3. LowestRun(n - 2 * side, sides)' <=> LowestRun(n - 2 * side, sides)
    BY <1>1, <1>2, <1>4 DEF LowestRun, Promise!FreeDiscs, Promise!Free
  <2> QED
    BY <1>1, <1>2, <1>4, <2>1, <2>2, <2>3 DEF Placed
<1> QED
  BY <1>1, <1>3, <1>4

\* When the image is accepted its sides appear where DriveMap puts them.
LEMMA AcceptanceInserts ==
  ASSUME IndInv, sides \in 0..MaxSides, side = sides,
         NEW place \in [0..side - 1 -> Slot], Holds(place),
         IF how = "PHYSICAL" THEN Promise!PhysicalPlaces(place, sides)
                             ELSE Promise!FirstPlaces(place, sides),
         files' = files + 1, drives' = drives
  PROVE  Promise!Next
<1>1. /\ files \in Nat /\ sides \in Nat /\ how \in {"FIRST", "PHYSICAL"}
      /\ drives \in [Slot -> Drive \cup {NoDrive}]
  BY DEF IndInv, TypeOK, Strategy
<1> PICK formatted \in [0..sides - 1 -> Formatted] :
      \A k \in 0..sides - 1 :
        drives[place[k]] = [file |-> files + 1, side |-> k, how |-> how,
                            formatted |-> formatted[k]]
  <2> DEFINE f == [k \in 0..sides - 1 |-> drives[place[k]].formatted]
  <2>1. ASSUME NEW k \in 0..sides - 1
        PROVE  /\ f[k] \in Formatted
               /\ drives[place[k]] = [file |-> files + 1, side |-> k, how |-> how,
                                      formatted |-> f[k]]
    <3>1. PICK ff \in Formatted :
            drives[place[k]] = [file |-> files + 1, side |-> k, how |-> how, formatted |-> ff]
      BY DEF Holds
    <3>2. f[k] = ff
      BY <3>1
    <3> QED
      BY <3>1, <3>2
  <2>2. f \in [0..sides - 1 -> Formatted]
    BY <2>1
  <2> HIDE DEF f
  <2> QED
    BY <2>1, <2>2
<1> DEFINE inserted(s) ==
      IF \E k \in 0..sides - 1 : place[k] = s
      THEN LET k == CHOOSE k \in 0..sides - 1 : place[k] = s
           IN [file |-> files + 1, side |-> k, how |-> how, formatted |-> formatted[k]]
      ELSE AcceptedDrives[s]
<1>2. ASSUME NEW s \in Slot PROVE AcceptedDrives'[s] = drives[s]
  <2>1. drives[s] # NoDrive => drives[s].file <= files + 1
    BY DEF IndInv, FilesBound, IsDriveConnected
  <2>2. drives[s] = NoDrive => drives[s].file = 0
    BY DEF NoDrive
  <2> QED
    BY <1>1, <2>1, <2>2 DEF AcceptedDrives
<1>3. ASSUME NEW s \in Slot PROVE inserted(s) = drives[s]
  <2>1. CASE \E k \in 0..sides - 1 : place[k] = s
    <3> DEFINE c == CHOOSE k \in 0..sides - 1 : place[k] = s
    <3>1. c \in 0..sides - 1 /\ place[c] = s
      BY <2>1
    <3>2. inserted(s) = [file |-> files + 1, side |-> c, how |-> how,
                         formatted |-> formatted[c]]
      BY <2>1
    <3> HIDE DEF c, inserted
    <3> QED
      BY <3>1, <3>2
  <2>2. CASE ~ \E k \in 0..sides - 1 : place[k] = s
    <3>1. drives[s].file # files + 1
      BY <2>2 DEF Holds
    <3> QED
      BY <2>2, <3>1, SeenFree
  <2> QED
    BY <2>1, <2>2
<1> HIDE DEF inserted
<1>4. AcceptedDrives' = [s \in Slot |-> inserted(s)]
  <2>1. AcceptedDrives' = [s \in Slot |-> AcceptedDrives'[s]]
    BY DEF AcceptedDrives, Slot
  <2> QED
    BY <1>2, <1>3, <2>1
<1>5. Promise!Insert(how, sides, place)
  BY <1>4 DEF Promise!Insert, inserted, Promise!Slot, Slot
<1>6. place \in [0..sides - 1 -> Promise!Slot]
  BY DEF Promise!Slot, Slot
<1> QED
  BY <1>1, <1>5, <1>6 DEF Promise!Next

LEMMA PhysicalAcceptance ==
  ASSUME IndInv, Placed, PhysicalReturnsTrue
  PROVE  Placed' /\ Promise!Next
<1>1. /\ pc = "physical" /\ side = sides /\ files' = files + 1 /\ pc' = "options"
      /\ drives' = drives /\ sides \in Nat /\ side \in Nat /\ n \in Nat
      /\ sides \in 0..MaxSides /\ how = "PHYSICAL"
  BY LimitFacts
  DEF PhysicalReturnsTrue, ImageAccepted, Placed, IndInv, PhysicalLoop, TypeOK, Slot
<1> PICK place \in [0..side - 1 -> Slot] :
      Holds(place) /\ \A k \in 0..side - 1 : place[k] = n - 2 * side + 2 * k
  BY <1>1 DEF Placed
<1>2. LowestRun(n - 2 * side, sides)
  BY <1>1 DEF Placed
<1>3. Promise!PhysicalPlaces(place, sides)
  <2>1. CASE sides > 0
    <3>1. 0 \in 0..sides - 1 /\ 0 \in 0..side - 1
      BY <1>1, <2>1
    <3>2. place[0] = n - 2 * side
      BY <1>1, <3>1
    <3>3. \A k \in 0..sides - 1 : place[k] = place[0] + 2 * k
      BY <1>1, <3>2
    <3> QED
      BY <1>2, <2>1, <3>2, <3>3 DEF LowestRun, Promise!PhysicalPlaces
  <2>2. CASE ~(sides > 0)
    <3>1. 0..sides - 1 = {}
      BY <1>1, <2>2
    <3> QED
      BY <2>2, <3>1 DEF Promise!PhysicalPlaces
  <2> QED
    BY <2>1, <2>2
<1>4. Promise!Next
  BY <1>1, <1>3, AcceptanceInserts
<1>5. Placed'
  BY <1>1 DEF Placed
<1> QED
  BY <1>4, <1>5

LEMMA FirstAcceptance ==
  ASSUME IndInv, Placed, FirstReturns, n # Limit
  PROVE  Placed' /\ Promise!Next
<1>1. /\ pc = "first" /\ side = sides /\ n < Limit /\ files' = files + 1 /\ pc' = "options"
      /\ drives' = drives /\ sides \in 0..MaxSides /\ how = "FIRST"
  BY DEF FirstReturns, ImageAccepted, Placed, IndInv, FirstLoop
<1> PICK place \in [0..side - 1 -> Slot] : Holds(place) /\ Promise!FirstPlaces(place, side)
  BY <1>1 DEF Placed
<1>2. Promise!Next
  BY <1>1, AcceptanceInserts
<1>3. Placed'
  BY <1>1 DEF Placed
<1> QED
  BY <1>2, <1>3

LEMMA NextPlaced ==
  ASSUME IndInv, Placed, [Next]_vars
  PROVE  Placed' /\ [Promise!Next]_<<AcceptedDrives, files>>
<1>1. CASE \/ \E strategy \in Strategy : OptAllocate(strategy)
           \/ OptionsEndTheProgram
           \/ FirstReturns /\ n = Limit
           \/ OptionsDone
           \/ ShowDrive
           \/ \E s \in Slot : MountFs(s)
           \/ CommandReturns
           \/ UNCHANGED vars
  BY <1>1, OtherStepsPlaced
<1>2. ASSUME NEW count \in 0..MaxSides, OptImageFile(count)
      PROVE  Placed' /\ UNCHANGED <<AcceptedDrives, files>>
  BY <1>2, OptImageFilePlaced
<1>3. CASE ConnectPhysical
  BY <1>3, ConnectPhysicalPlaced
<1>4. CASE PhysicalReturnsTrue
  BY <1>4, PhysicalAcceptance
<1>5. CASE ConnectFirst
  BY <1>5, ConnectFirstPlaced
<1>6. CASE FirstReturns /\ n # Limit
  BY <1>6, FirstAcceptance
<1>7. Exited => UNCHANGED vars
  BY DEF Exited
<1> QED
  BY <1>1, <1>2, <1>3, <1>4, <1>5, <1>6, <1>7 DEF Next

LEMMA InitPromise == Init => Promise!Init
<1> SUFFICES ASSUME Init PROVE Promise!Init
  OBVIOUS
<1>1. NoDrive.file = 0
  BY DEF NoDrive
<1>2. AcceptedDrives = [s \in Slot |-> NoDrive]
  BY <1>1 DEF Init, AcceptedDrives
<1> QED
  BY <1>2 DEF Init, Promise!Init, Promise!Slot, Promise!NoDrive, Slot, NoDrive

\* The drive table implements DriveMap: however the strategies are mixed and
\* wherever a connection fails, an accepted image appears at once and whole
\* in the lowest place DriveMap allows, and no later step moves it.
THEOREM Refinement == Spec => ImplementsDriveMap
<1>1. Init => Promise!Init
  BY InitPromise
<1>2. IndInv /\ Placed /\ [Next]_vars => Placed' /\ [Promise!Next]_<<AcceptedDrives, files>>
  BY NextPlaced
<1> QED
  BY <1>1, <1>2, InitPlaced, Invariance, PTL DEF Spec, ImplementsDriveMap, Promise!Spec
=============================================================================
