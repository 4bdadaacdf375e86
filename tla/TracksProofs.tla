---------------------------- MODULE TracksProofs ----------------------------
(***************************************************************************)
(* Proofs about both track decoders, for every track, of any length and    *)
(* with any damage: only the tracks of MCTracks are short.                 *)
(***************************************************************************)
EXTENDS Tracks, FiniteSetTheorems, FunctionTheorems, TLAPS

(* Both decoders *)

\* The decoder's loop has not ended yet.
Searching == state \in {"LookingForAddress", "LookingForRecord"}

\* Every sector decoded so far was found behind the decoder's position, and
\* behind the header it is holding on to.
ResultsBehind ==
  \A i \in DOMAIN result :
    /\ Searching => result[i].data_at < pos
    /\ state = "LookingForRecord" => result[i].data_at < began

----------------------------------------------------------------------------
(* FM *)

\* The header being held is the last thing that was read.
FmHeaderJustRead == state = "LookingForRecord" => pos = began + 2

FmIndInv ==
  /\ FM!TypeOK
  /\ FM!ResultsInTrackOrder
  /\ FM!FirstRecordAfterHeader
  /\ ResultsBehind
  /\ FmHeaderJustRead

\* A read that starts at most one past the end of the track moves the position
\* on, to at most two past the end: nothing after an unread cell is touched.
LEMMA FmReadStays ==
  ASSUME track \in Seq(FM!Cell), NEW p \in 1..Len(track), NEW n \in Nat \ {0}, NEW next,
         FM!ReadEnds(FM!Legible, p + 1, n, next)
  PROVE  next \in p + 2..Len(track) + 2
<1>1. Len(track) \in Nat /\ p \in Nat /\ n \in Nat
  OBVIOUS
<1>2. CASE /\ \A q \in p + 1..p + 1 + n - 1 : FM!Legible(q)
           /\ next = p + 1 + n
  <2>1. FM!Legible(p + n)
    BY <1>1, <1>2
  <2> QED
    BY <1>1, <1>2, <2>1 DEF FM!Legible
<1>3. CASE \E q \in p + 1..p + 1 + n - 1 :
              /\ ~FM!Legible(q)
              /\ \A r \in p + 1..q - 1 : FM!Legible(r)
              /\ next = q + 1
  <2>1. PICK q \in p + 1..p + 1 + n - 1 :
              /\ ~FM!Legible(q)
              /\ \A r \in p + 1..q - 1 : FM!Legible(r)
              /\ next = q + 1
    BY <1>3
  <2>2. q \in Nat /\ (q = p + 1 \/ q - 1 \in p + 1..q - 1)
    BY <1>1
  <2>3. q = p + 1 \/ FM!Legible(q - 1)
    BY <2>1, <2>2
  <2>4. q = p + 1 \/ q - 1 < Len(track)
    BY <2>3 DEF FM!Legible
  <2> QED
    BY <1>1, <2>1, <2>2, <2>4
<1> QED
  BY <1>2, <1>3 DEF FM!ReadEnds

\* After a mark, the one cell of a header is read whether it is legible or not.
LEMMA FmHeaderRead ==
  ASSUME NEW p \in Nat, NEW next, FM!ReadHeader(p, next)
  PROVE  next = p + 2
<1>1. p + 1..p + 1 + 1 - 1 = {p + 1}
  OBVIOUS
<1> QED
  BY <1>1 DEF FM!ReadHeader, FM!ReadEnds

LEMMA FmInitHolds == FM!Init => FmIndInv
<1> SUFFICES ASSUME FM!Init PROVE FmIndInv
  OBVIOUS
<1>1. Len(track) \in Nat /\ FM!NoSector \in FM!Sector
  BY DEF FM!Init, FM!NoSector, FM!Sector
<1> QED
  BY <1>1 DEF FM!Init, FM!Start, FmIndInv, FM!TypeOK, FM!ResultsInTrackOrder,
     FM!FirstRecordAfterHeader,
              ResultsBehind, FmHeaderJustRead, Searching

LEMMA FmHeaderStep == FmIndInv /\ FM!LookForAddress => FmIndInv'
<1> SUFFICES ASSUME FmIndInv, FM!LookForAddress PROVE FmIndInv'
  OBVIOUS
<1> USE DEF FmIndInv
<1>1. PICK p \in pos..Len(track) :
        /\ FM!ReadHeader(p, pos')
        /\ IF FM!HeaderFollows(p)
           THEN /\ state' = "LookingForRecord"
                /\ sec' = track[p + 1].of
                /\ began' = p
           ELSE UNCHANGED <<state, sec, began>>
  BY DEF FM!LookForAddress
<1>2. state = "LookingForAddress" /\ track' = track /\ result' = result
  BY DEF FM!LookForAddress
<1>3. Len(track) \in Nat /\ pos \in Nat /\ p \in Nat /\ p \in 1..Len(track) /\ pos >= 1
  BY DEF FM!TypeOK
<1>4. pos' = p + 2
  BY <1>1, <1>3, FmHeaderRead
<1>5. \A i \in DOMAIN result : result[i].data_at \in Nat /\ result[i].data_at < pos
  <2>1. \A i \in DOMAIN result : result[i] \in FM!Positions
    BY DEF FM!TypeOK
  <2> QED
    BY <1>2, <2>1 DEF ResultsBehind, Searching, FM!Positions
<1>6. CASE FM!HeaderFollows(p)
  <2>1. track[p + 1].of \in FM!Sector
    <3>1. p + 1 \in DOMAIN track
      BY <1>6 DEF FM!HeaderFollows, FM!HeaderOK, FM!Is, FM!Good
    <3>2. track[p + 1] \in FM!Cell
      BY <3>1 DEF FM!TypeOK
    <3> QED
      BY <3>2 DEF FM!Cell
  <2>2. FM!TypeOK'
    BY <1>1, <1>2, <1>3, <1>4, <1>6, <2>1 DEF FM!TypeOK
  <2>3. ResultsBehind'
    BY <1>1, <1>2, <1>3, <1>4, <1>5, <1>6 DEF ResultsBehind, Searching
  <2>4. FmHeaderJustRead'
    BY <1>1, <1>4, <1>6 DEF FmHeaderJustRead
  <2> QED
    BY <1>2, <2>2, <2>3, <2>4
    DEF FM!ResultsInTrackOrder, FM!FirstRecordAfterHeader, FM!Is, FM!Good
<1>7. CASE ~FM!HeaderFollows(p)
  <2>1. UNCHANGED <<state, sec, began>>
    BY <1>1, <1>7
  <2>2. FM!TypeOK'
    BY <1>2, <1>3, <1>4, <2>1 DEF FM!TypeOK
  <2>3. ResultsBehind'
    BY <1>2, <1>3, <1>4, <1>5, <2>1 DEF ResultsBehind, Searching
  <2>4. FmHeaderJustRead'
    BY <1>2, <2>1 DEF FmHeaderJustRead
  <2> QED
    BY <1>2, <2>2, <2>3, <2>4
    DEF FM!ResultsInTrackOrder, FM!FirstRecordAfterHeader, FM!Is, FM!Good
<1> QED
  BY <1>6, <1>7

LEMMA FmRecordStep == FmIndInv /\ FM!LookForRecord => FmIndInv'
<1> SUFFICES ASSUME FmIndInv, FM!LookForRecord PROVE FmIndInv'
  OBVIOUS
<1> USE DEF FmIndInv
<1>1. PICK p \in pos..Len(track) :
        /\ FM!ScanFor(FM!RecordMark, pos, p)
        /\ FM!ReadRecord(p, pos')
        /\ result' = IF FM!RecordFollows(p)
                     THEN Append(result, FM!Decoded(p + 1, sec.body, p))
                     ELSE result
  BY DEF FM!LookForRecord
<1>2. /\ state = "LookingForRecord" /\ state' = "LookingForAddress"
      /\ track' = track /\ sec' = sec /\ began' = began
  BY DEF FM!LookForRecord, FM!AfterRecord
<1>3. Len(track) \in Nat /\ pos \in Nat /\ p \in Nat /\ p \in 1..Len(track) /\ pos >= 1
      /\ began \in Nat /\ began < p
  BY <1>2 DEF FM!TypeOK, FmHeaderJustRead
<1>4. sec.body \in Nat /\ sec.body + 1 \in Nat \ {0}
  BY DEF FM!TypeOK, FM!Sector
<1>5. pos' \in p + 2..Len(track) + 2
  BY <1>1, <1>3, <1>4, FmReadStays DEF FM!ReadRecord, FM!TypeOK
<1>6. \A i \in DOMAIN result :
        /\ result[i].data_at \in Nat /\ result[i].data_at < pos /\ result[i].data_at < began
        /\ result[i].header_at \in Nat
  <2>1. \A i \in DOMAIN result : result[i] \in FM!Positions
    BY DEF FM!TypeOK
  <2> QED
    BY <1>2, <2>1 DEF ResultsBehind, Searching, FM!Positions
<1>7. \A q \in began + 3..p - 1 : ~(FM!Is(q, {"datamark", "delmark"}) /\ FM!Is(q - 1, {"sync"}))
  <2> TAKE q \in began + 3..p - 1
  <2>1. q \in pos..p - 1 /\ q - 1 >= pos
    BY <1>2, <1>3 DEF FmHeaderJustRead
  <2>2. ~FM!RecordMark(q)
    BY <1>1, <2>1 DEF FM!ScanFor
  <2> QED
    BY <2>1, <2>2 DEF FM!RecordMark, FM!Mark
<1>8. CASE FM!RecordFollows(p)
  <2> DEFINE d == FM!Decoded(p + 1, sec.body, p)
  <2>1. result' = Append(result, d)
    BY <1>1, <1>8
  <2>2. d \in FM!Positions /\ d.header_at = began /\ d.data_at = p
    <3>1. p + 1 + sec.body \in DOMAIN track
      BY <1>8 DEF FM!RecordFollows, FM!BodyOK, FM!Is, FM!Good
    <3>2. track[p + 1 + sec.body].of \in FM!Sector
      <4>1. track[p + 1 + sec.body] \in FM!Cell
        BY <3>1 DEF FM!TypeOK
      <4> QED
        BY <4>1 DEF FM!Cell
    <3> QED
      BY <1>3, <3>2 DEF FM!Decoded, FM!Positions, FM!TypeOK
  <2> HIDE DEF d
  <2>3. /\ result' \in Seq(FM!Positions)
        /\ Len(result') = Len(result) + 1
        /\ Len(result) \in Nat
        /\ \A i \in 1..Len(result) : result'[i] = result[i]
        /\ result'[Len(result) + 1] = d
        /\ DOMAIN result = 1..Len(result) /\ DOMAIN result' = 1..Len(result) + 1
    BY <2>1, <2>2 DEF FM!TypeOK
  <2>4. FM!TypeOK'
    BY <1>2, <1>3, <1>5, <2>3 DEF FM!TypeOK
  <2>5. FM!ResultsInTrackOrder'
    <3> SUFFICES ASSUME NEW i \in 1..Len(result) + 1
                 PROVE  /\ result'[i].header_at < result'[i].data_at
                        /\ \A j \in 1..Len(result) + 1 :
                             i < j => result'[i].data_at < result'[j].header_at
      BY <2>3 DEF FM!ResultsInTrackOrder
    <3>1. CASE i = Len(result) + 1
      BY <1>3, <2>2, <2>3, <3>1
    <3>2. CASE i \in 1..Len(result)
      <4>1. result[i].header_at < result[i].data_at
        BY <2>3, <3>2 DEF FM!ResultsInTrackOrder
      <4>2. ASSUME NEW j \in 1..Len(result) + 1, i < j
            PROVE  result'[i].data_at < result'[j].header_at
        <5>1. CASE j = Len(result) + 1
          BY <1>6, <2>2, <2>3, <3>2, <5>1
        <5>2. CASE j \in 1..Len(result)
          BY <2>3, <3>2, <4>2, <5>2 DEF FM!ResultsInTrackOrder
        <5> QED
          BY <2>3, <5>1, <5>2
      <4> QED
        BY <2>3, <3>2, <4>1, <4>2
    <3> QED
      BY <2>3, <3>1, <3>2
  <2>6. FM!FirstRecordAfterHeader'
    <3> SUFFICES ASSUME NEW i \in 1..Len(result) + 1,
                        NEW q \in result'[i].header_at + 3..result'[i].data_at - 1
                 PROVE  ~(FM!Is(q, {"datamark", "delmark"}) /\ FM!Is(q - 1, {"sync"}))
      BY <1>2, <2>3 DEF FM!FirstRecordAfterHeader, FM!Is, FM!Good
    <3>1. CASE i = Len(result) + 1
      BY <1>7, <2>2, <2>3, <3>1
    <3>2. CASE i \in 1..Len(result)
      BY <2>3, <3>2 DEF FM!FirstRecordAfterHeader
    <3> QED
      BY <2>3, <3>1, <3>2
  <2>7. ResultsBehind'
    <3> SUFFICES ASSUME NEW i \in 1..Len(result) + 1 PROVE result'[i].data_at < pos'
      BY <1>2, <2>3 DEF ResultsBehind, Searching
    <3>1. CASE i = Len(result) + 1
      BY <1>3, <1>5, <2>2, <2>3, <3>1
    <3>2. CASE i \in 1..Len(result)
      BY <1>3, <1>5, <1>6, <2>3, <3>2
    <3> QED
      BY <2>3, <3>1, <3>2
  <2> QED
    BY <1>2, <2>4, <2>5, <2>6, <2>7 DEF FmHeaderJustRead
<1>9. CASE ~FM!RecordFollows(p)
  <2>1. result' = result
    BY <1>1, <1>9
  <2>2. FM!TypeOK'
    BY <1>2, <1>3, <1>5, <2>1 DEF FM!TypeOK
  <2>3. ResultsBehind'
    BY <1>2, <1>3, <1>5, <1>6, <2>1 DEF ResultsBehind, Searching
  <2> QED
    BY <1>2, <2>1, <2>2, <2>3
    DEF FM!ResultsInTrackOrder, FM!FirstRecordAfterHeader, FmHeaderJustRead, FM!Is, FM!Good
<1> QED
  BY <1>8, <1>9

LEMMA FmLastSteps ==
  FmIndInv /\ (FM!TrackEnds \/ FM!CheckTrackIsSupported \/ UNCHANGED FM!vars) => FmIndInv'
<1> SUFFICES ASSUME FmIndInv, FM!TrackEnds \/ FM!CheckTrackIsSupported \/ UNCHANGED FM!vars
             PROVE  FmIndInv'
  OBVIOUS
<1>1. UNCHANGED <<track, pos, sec, began, result>>
  BY DEF FM!TrackEnds, FM!CheckTrackIsSupported, FM!vars
<1>2. state' = state \/ state' \in {"decoded", "accepted", "rejected"}
  BY DEF FM!TrackEnds, FM!CheckTrackIsSupported, FM!vars
<1>3. FM!TypeOK'
  BY <1>1, <1>2 DEF FmIndInv, FM!TypeOK
<1>4. ResultsBehind'
  BY <1>1, <1>2 DEF FmIndInv, ResultsBehind, Searching
<1>5. FmHeaderJustRead'
  BY <1>1, <1>2 DEF FmIndInv, FmHeaderJustRead
<1> QED
  BY <1>1, <1>3, <1>4, <1>5
  DEF FmIndInv, FM!ResultsInTrackOrder, FM!FirstRecordAfterHeader, FM!Is, FM!Good

----------------------------------------------------------------------------
(* MFM *)

\* The header being held was the last thing read that began with a sync.
MfmHeaderJustRead ==
  state = "LookingForRecord" =>
    /\ began < pos
    /\ \A q \in began + 1..pos - 1 : ~MFM!Sync(q)

MfmIndInv ==
  /\ MFM!TypeOK
  /\ MFM!ResultsInTrackOrder
  /\ MFM!NothingBetween
  /\ ResultsBehind
  /\ MfmHeaderJustRead

\* A read that starts at most one past the end of the track moves the position
\* on, to at most two past the end: nothing after an unread cell is touched.
LEMMA MfmReadStays ==
  ASSUME track \in Seq(MFM!Cell), NEW p \in 1..Len(track), NEW n \in Nat \ {0}, NEW next,
         MFM!ReadEnds(MFM!Legible, p + 1, n, next)
  PROVE  next \in p + 2..Len(track) + 2
<1>1. Len(track) \in Nat /\ p \in Nat /\ n \in Nat
  OBVIOUS
<1>2. CASE /\ \A q \in p + 1..p + 1 + n - 1 : MFM!Legible(q)
           /\ next = p + 1 + n
  <2>1. MFM!Legible(p + n)
    BY <1>1, <1>2
  <2> QED
    BY <1>1, <1>2, <2>1 DEF MFM!Legible
<1>3. CASE \E q \in p + 1..p + 1 + n - 1 :
              /\ ~MFM!Legible(q)
              /\ \A r \in p + 1..q - 1 : MFM!Legible(r)
              /\ next = q + 1
  <2>1. PICK q \in p + 1..p + 1 + n - 1 :
              /\ ~MFM!Legible(q)
              /\ \A r \in p + 1..q - 1 : MFM!Legible(r)
              /\ next = q + 1
    BY <1>3
  <2>2. q \in Nat /\ (q = p + 1 \/ q - 1 \in p + 1..q - 1)
    BY <1>1
  <2>3. q = p + 1 \/ MFM!Legible(q - 1)
    BY <2>1, <2>2
  <2>4. q = p + 1 \/ q - 1 < Len(track)
    BY <2>3 DEF MFM!Legible
  <2> QED
    BY <1>1, <2>1, <2>2, <2>4
<1> QED
  BY <1>2, <1>3 DEF MFM!ReadEnds

\* A header that can be used is read to its end.
LEMMA MfmHeaderRead ==
  ASSUME track \in Seq(MFM!Cell), NEW p \in 1..Len(track), NEW next,
         MFM!ReadHeader(p, next), MFM!HeaderFollows(p)
  PROVE  /\ next = p + 3
         /\ ~MFM!Sync(p + 1) /\ ~MFM!Sync(p + 2)
         /\ track[p + 2].of \in MFM!Sector
<1>1. Len(track) \in Nat /\ p \in Nat
  OBVIOUS
<1>2. MFM!Legible(p + 2) /\ track[p + 1].t = "idmark" /\ track[p + 2].t = "header"
      /\ track[p + 1].read = "good" /\ p + 2 \in DOMAIN track
  BY DEF MFM!HeaderFollows, MFM!HeaderOK, MFM!Is, MFM!Good
<1>3. MFM!Legible(p + 1)
  BY <1>1, <1>2 DEF MFM!Legible
<1>4. \A q \in p + 1..p + 2 : MFM!Legible(q)
  BY <1>1, <1>2, <1>3
<1>5. next = p + 3
  BY <1>1, <1>4 DEF MFM!ReadHeader, MFM!ReadEnds
<1>6. track[p + 2] \in MFM!Cell
  BY <1>2
<1> QED
  BY <1>2, <1>5, <1>6 DEF MFM!Sync, MFM!Is, MFM!Cell

LEMMA MfmInitHolds == MFM!Init => MfmIndInv
<1> SUFFICES ASSUME MFM!Init PROVE MfmIndInv
  OBVIOUS
<1>1. Len(track) \in Nat /\ MFM!NoSector \in MFM!Sector
  BY DEF MFM!Init, MFM!NoSector, MFM!Sector
<1> QED
  BY <1>1 DEF MFM!Init, MFM!Start, MfmIndInv, MFM!TypeOK, MFM!ResultsInTrackOrder,
     MFM!NothingBetween,
              ResultsBehind, MfmHeaderJustRead, Searching

LEMMA MfmHeaderStep == MfmIndInv /\ MFM!LookForSectorHeader => MfmIndInv'
<1> SUFFICES ASSUME MfmIndInv, MFM!LookForSectorHeader PROVE MfmIndInv'
  OBVIOUS
<1> USE DEF MfmIndInv
<1>1. PICK p \in pos..Len(track) :
        /\ MFM!ScanFor(MFM!Sync, pos, p)
        /\ MFM!ReadHeader(p, pos')
        /\ IF MFM!HeaderFollows(p)
           THEN /\ state' = "LookingForRecord"
                /\ sec' = track[p + 2].of
                /\ began' = p
           ELSE UNCHANGED <<state, sec, began>>
  BY DEF MFM!LookForSectorHeader
<1>2. state = "LookingForAddress" /\ track' = track /\ result' = result
  BY DEF MFM!LookForSectorHeader
<1>3. Len(track) \in Nat /\ pos \in Nat /\ p \in Nat /\ p \in 1..Len(track) /\ pos >= 1
  BY DEF MFM!TypeOK
<1>4. pos' \in p + 2..Len(track) + 2
  BY <1>1, <1>3, MfmReadStays DEF MFM!ReadHeader, MFM!TypeOK
<1>5. \A i \in DOMAIN result : result[i].data_at \in Nat /\ result[i].data_at < pos
  <2>1. \A i \in DOMAIN result : result[i] \in MFM!Positions
    BY DEF MFM!TypeOK
  <2> QED
    BY <1>2, <2>1 DEF ResultsBehind, Searching, MFM!Positions
<1>6. CASE MFM!HeaderFollows(p)
  <2>1. pos' = p + 3 /\ ~MFM!Sync(p + 1) /\ ~MFM!Sync(p + 2) /\ track[p + 2].of \in MFM!Sector
    BY <1>1, <1>3, <1>6, MfmHeaderRead DEF MFM!TypeOK
  <2>2. MFM!TypeOK'
    BY <1>1, <1>2, <1>3, <1>4, <1>6, <2>1 DEF MFM!TypeOK
  <2>3. ResultsBehind'
    BY <1>1, <1>2, <1>3, <1>5, <1>6, <2>1 DEF ResultsBehind, Searching
  <2>4. MfmHeaderJustRead'
    <3>1. \A q \in p + 1..p + 2 : ~MFM!Sync(q)
      BY <1>3, <2>1
    <3> QED
      BY <1>1, <1>2, <1>3, <1>6, <2>1, <3>1
      DEF MfmHeaderJustRead, MFM!Sync, MFM!Is, MFM!Good
  <2> QED
    BY <1>2, <2>2, <2>3, <2>4
    DEF MFM!ResultsInTrackOrder, MFM!NothingBetween, MFM!Sync, MFM!Is, MFM!Good
<1>7. CASE ~MFM!HeaderFollows(p)
  <2>1. UNCHANGED <<state, sec, began>>
    BY <1>1, <1>7
  <2>2. MFM!TypeOK'
    BY <1>2, <1>3, <1>4, <2>1 DEF MFM!TypeOK
  <2>3. ResultsBehind'
    BY <1>2, <1>3, <1>4, <1>5, <2>1 DEF ResultsBehind, Searching
  <2> QED
    BY <1>2, <2>1, <2>2, <2>3
    DEF MFM!ResultsInTrackOrder, MFM!NothingBetween, MfmHeaderJustRead, MFM!Sync, MFM!Is,
       MFM!Good
<1> QED
  BY <1>6, <1>7

LEMMA MfmRecordStep == MfmIndInv /\ MFM!LookForRecord => MfmIndInv'
<1> SUFFICES ASSUME MfmIndInv, MFM!LookForRecord PROVE MfmIndInv'
  OBVIOUS
<1> USE DEF MfmIndInv
<1>1. PICK p \in pos..Len(track) :
        /\ MFM!ScanFor(MFM!Sync, pos, p)
        /\ MFM!ReadRecord(p, pos')
        /\ result' = IF MFM!RecordFollows(p)
                     THEN Append(result, MFM!Decoded(p + 2, sec.body, p))
                     ELSE result
  BY DEF MFM!LookForRecord
<1>2. /\ state = "LookingForRecord" /\ state' = "LookingForAddress"
      /\ track' = track /\ sec' = sec /\ began' = began
  BY DEF MFM!LookForRecord, MFM!AfterRecord
<1>3. Len(track) \in Nat /\ pos \in Nat /\ p \in Nat /\ p \in 1..Len(track) /\ pos >= 1
      /\ began \in Nat /\ began < p
  BY <1>2 DEF MFM!TypeOK, MfmHeaderJustRead
<1>4. sec.body \in Nat /\ sec.body + 2 \in Nat \ {0}
  BY DEF MFM!TypeOK, MFM!Sector
<1>5. pos' \in p + 2..Len(track) + 2
  BY <1>1, <1>3, <1>4, MfmReadStays DEF MFM!ReadRecord, MFM!TypeOK
<1>6. \A i \in DOMAIN result :
        /\ result[i].data_at \in Nat /\ result[i].data_at < pos /\ result[i].data_at < began
        /\ result[i].header_at \in Nat
  <2>1. \A i \in DOMAIN result : result[i] \in MFM!Positions
    BY DEF MFM!TypeOK
  <2> QED
    BY <1>2, <2>1 DEF ResultsBehind, Searching, MFM!Positions
<1>7. \A q \in began + 1..p - 1 : ~MFM!Sync(q)
  <2> TAKE q \in began + 1..p - 1
  <2>1. q \in began + 1..pos - 1 \/ q \in pos..p - 1
    BY <1>3
  <2> QED
    BY <1>1, <1>2, <2>1 DEF MFM!ScanFor, MfmHeaderJustRead
<1>8. CASE MFM!RecordFollows(p)
  <2> DEFINE d == MFM!Decoded(p + 2, sec.body, p)
  <2>1. result' = Append(result, d)
    BY <1>1, <1>8
  <2>2. d \in MFM!Positions /\ d.header_at = began /\ d.data_at = p
    <3>1. p + 2 + sec.body \in DOMAIN track
      BY <1>8 DEF MFM!RecordFollows, MFM!BodyOK, MFM!Is, MFM!Good
    <3>2. track[p + 2 + sec.body].of \in MFM!Sector
      <4>1. track[p + 2 + sec.body] \in MFM!Cell
        BY <3>1 DEF MFM!TypeOK
      <4> QED
        BY <4>1 DEF MFM!Cell
    <3> QED
      BY <1>3, <3>2 DEF MFM!Decoded, MFM!Positions, MFM!TypeOK
  <2> HIDE DEF d
  <2>3. /\ result' \in Seq(MFM!Positions)
        /\ Len(result') = Len(result) + 1
        /\ Len(result) \in Nat
        /\ \A i \in 1..Len(result) : result'[i] = result[i]
        /\ result'[Len(result) + 1] = d
        /\ DOMAIN result = 1..Len(result) /\ DOMAIN result' = 1..Len(result) + 1
    BY <2>1, <2>2 DEF MFM!TypeOK
  <2>4. MFM!TypeOK'
    BY <1>2, <1>3, <1>5, <2>3 DEF MFM!TypeOK
  <2>5. MFM!ResultsInTrackOrder'
    <3> SUFFICES ASSUME NEW i \in 1..Len(result) + 1
                 PROVE  /\ result'[i].header_at < result'[i].data_at
                        /\ \A j \in 1..Len(result) + 1 :
                             i < j => result'[i].data_at < result'[j].header_at
      BY <2>3 DEF MFM!ResultsInTrackOrder
    <3>1. CASE i = Len(result) + 1
      BY <1>3, <2>2, <2>3, <3>1
    <3>2. CASE i \in 1..Len(result)
      <4>1. result[i].header_at < result[i].data_at
        BY <2>3, <3>2 DEF MFM!ResultsInTrackOrder
      <4>2. ASSUME NEW j \in 1..Len(result) + 1, i < j
            PROVE  result'[i].data_at < result'[j].header_at
        <5>1. CASE j = Len(result) + 1
          BY <1>6, <2>2, <2>3, <3>2, <5>1
        <5>2. CASE j \in 1..Len(result)
          BY <2>3, <3>2, <4>2, <5>2 DEF MFM!ResultsInTrackOrder
        <5> QED
          BY <2>3, <5>1, <5>2
      <4> QED
        BY <2>3, <3>2, <4>1, <4>2
    <3> QED
      BY <2>3, <3>1, <3>2
  <2>6. MFM!NothingBetween'
    <3> SUFFICES ASSUME NEW i \in 1..Len(result) + 1,
                        NEW q \in result'[i].header_at + 1..result'[i].data_at - 1
                 PROVE  ~MFM!Sync(q)
      BY <1>2, <2>3 DEF MFM!NothingBetween, MFM!Sync, MFM!Is, MFM!Good
    <3>1. CASE i = Len(result) + 1
      BY <1>7, <2>2, <2>3, <3>1
    <3>2. CASE i \in 1..Len(result)
      BY <2>3, <3>2 DEF MFM!NothingBetween
    <3> QED
      BY <2>3, <3>1, <3>2
  <2>7. ResultsBehind'
    <3> SUFFICES ASSUME NEW i \in 1..Len(result) + 1 PROVE result'[i].data_at < pos'
      BY <1>2, <2>3 DEF ResultsBehind, Searching
    <3>1. CASE i = Len(result) + 1
      BY <1>3, <1>5, <2>2, <2>3, <3>1
    <3>2. CASE i \in 1..Len(result)
      BY <1>3, <1>5, <1>6, <2>3, <3>2
    <3> QED
      BY <2>3, <3>1, <3>2
  <2> QED
    BY <1>2, <2>4, <2>5, <2>6, <2>7 DEF MfmHeaderJustRead
<1>9. CASE ~MFM!RecordFollows(p)
  <2>1. result' = result
    BY <1>1, <1>9
  <2>2. MFM!TypeOK'
    BY <1>2, <1>3, <1>5, <2>1 DEF MFM!TypeOK
  <2>3. ResultsBehind'
    BY <1>2, <1>3, <1>5, <1>6, <2>1 DEF ResultsBehind, Searching
  <2> QED
    BY <1>2, <2>1, <2>2, <2>3
    DEF MFM!ResultsInTrackOrder, MFM!NothingBetween, MfmHeaderJustRead, MFM!Sync, MFM!Is,
       MFM!Good
<1> QED
  BY <1>8, <1>9

LEMMA MfmLastSteps ==
  MfmIndInv /\ (MFM!TrackEnds \/ MFM!CheckTrackIsSupported \/ UNCHANGED MFM!vars) => MfmIndInv'
<1> SUFFICES ASSUME MfmIndInv, MFM!TrackEnds \/ MFM!CheckTrackIsSupported \/ UNCHANGED MFM!vars
             PROVE  MfmIndInv'
  OBVIOUS
<1>1. UNCHANGED <<track, pos, sec, began, result>>
  BY DEF MFM!TrackEnds, MFM!CheckTrackIsSupported, MFM!vars
<1>2. state' = state \/ state' \in {"decoded", "accepted", "rejected"}
  BY DEF MFM!TrackEnds, MFM!CheckTrackIsSupported, MFM!vars
<1>3. MFM!TypeOK'
  BY <1>1, <1>2 DEF MfmIndInv, MFM!TypeOK
<1>4. ResultsBehind'
  BY <1>1, <1>2 DEF MfmIndInv, ResultsBehind, Searching
<1>5. MfmHeaderJustRead'
  BY <1>1, <1>2 DEF MfmIndInv, MfmHeaderJustRead, MFM!Sync, MFM!Is, MFM!Good
<1> QED
  BY <1>1, <1>3, <1>4, <1>5
  DEF MfmIndInv, MFM!ResultsInTrackOrder, MFM!NothingBetween, MFM!Sync, MFM!Is, MFM!Good

----------------------------------------------------------------------------
(* Where the sectors come from *)

\* What is searched for is the mark itself in FM, the sync before it in MFM.
Lead == IF encoding = "FM" THEN 0 ELSE 1

\* At p is the address mark of a header that gives the address of s.
HeaderOf(p, s) ==
  /\ p \in DOMAIN track /\ p + 1 \in DOMAIN track
  /\ track[p].t = "idmark" /\ track[p + 1].t = "header"
  /\ track[p + 1].of = s /\ s.body # 0

\* At p is the mark of a record, and the body that begins behind it is of s.
RecordOf(p, s) ==
  /\ p \in DOMAIN track /\ p + 1 \in DOMAIN track
  /\ track[p].t = "datamark"
  /\ track[p + 1].t = "body" /\ track[p + 1].k = 1
  /\ track[p + 1].of = s

\* The address of a result is in its header, its data in its record; the header
\* held while a record is looked for is that of the address in sec.
Found ==
  /\ state = "LookingForRecord" => HeaderOf(began + Lead, sec)
  /\ \A i \in DOMAIN result :
       /\ HeaderOf(result[i].header_at + Lead, result[i].address)
       /\ RecordOf(result[i].data_at + Lead, result[i].data)

AcceptedIsSupported == state = "accepted" => Supported

IndInv ==
  /\ encoding \in {"FM", "MFM"}
  /\ encoding = "FM" => FmIndInv
  /\ encoding = "MFM" => MfmIndInv
  /\ Found
  /\ AcceptedIsSupported

LEMMA BodyBegins ==
  ASSUME track \in Seq(Cell), NEW p \in Nat, p # 0, NEW n \in Nat \ {0},
         BodyOK(p, n)
  PROVE  /\ p \in DOMAIN track /\ p + n \in DOMAIN track
         /\ track[p].t = "body" /\ track[p].k = 1 /\ track[p].of = track[p + n].of
<1>1. 1 \in 1..n /\ p + 1 - 1 = p
  OBVIOUS
<1>2. Is(p + 1 - 1, {"body"}) /\ track[p + 1 - 1].of = track[p + n].of
                              /\ track[p + 1 - 1].k = 1
  BY <1>1 DEF BodyOK
<1> QED
  BY <1>1, <1>2 DEF BodyOK, Is, Good

\* A record is appended to the results.
LEMMA AppendFound ==
  ASSUME TypeOK, Found, encoding' = encoding, track' = track, state' # "LookingForRecord",
         NEW d, result' = Append(result, d),
         HeaderOf(d.header_at + Lead, d.address), RecordOf(d.data_at + Lead, d.data)
  PROVE  Found'
<1>1. /\ Len(result') = Len(result) + 1 /\ Len(result) \in Nat
      /\ DOMAIN result = 1..Len(result) /\ DOMAIN result' = 1..Len(result) + 1
      /\ \A i \in 1..Len(result) : result'[i] = result[i]
      /\ result'[Len(result) + 1] = d
  BY DEF TypeOK
<1>2. Lead' = Lead
  BY DEF Lead
<1>3. ASSUME NEW i \in DOMAIN result'
      PROVE  /\ HeaderOf(result'[i].header_at + Lead, result'[i].address)
             /\ RecordOf(result'[i].data_at + Lead, result'[i].data)
  <2>1. CASE i = Len(result) + 1
    BY <1>1, <2>1
  <2>2. CASE i # Len(result) + 1
    <3>1. i \in DOMAIN result /\ result'[i] = result[i]
      BY <1>1, <2>2
    <3> QED
      BY <3>1 DEF Found
  <2> QED
    BY <2>1, <2>2
<1> QED
  BY <1>2, <1>3 DEF Found, HeaderOf, RecordOf

\* Nothing but the state changes, or a header is held now.
LEMMA SameFound ==
  ASSUME Found, encoding' = encoding, track' = track, result' = result,
         state' = "LookingForRecord" => HeaderOf(began' + Lead, sec')
  PROVE  Found'
<1>1. Lead' = Lead
  BY DEF Lead
<1> QED
  BY <1>1 DEF Found, HeaderOf, RecordOf

LEMMA FmFound ==
  ASSUME FmIndInv, Found, encoding = "FM", FM!Next, encoding' = encoding
  PROVE  Found'
<1> USE DEF FmIndInv
<1>1. TypeOK /\ Lead = 0 /\ pos \in Nat /\ pos >= 1 /\ began \in Nat
  BY DEF FM!TypeOK, TypeOK, FM!Cell, Cell, FM!Sector, Sector, FM!Positions, Positions, Lead
<1>2. CASE FM!LookForAddress
  <2>1. PICK p \in pos..Len(track) :
          /\ FM!ScanFor(FM!IdMark, pos, p)
          /\ IF FM!HeaderFollows(p)
             THEN /\ state' = "LookingForRecord"
                  /\ sec' = track[p + 1].of
                  /\ began' = p
             ELSE UNCHANGED <<state, sec, began>>
    BY <1>2 DEF FM!LookForAddress
  <2>2. track' = track /\ result' = result /\ state = "LookingForAddress" /\ p \in Nat
    BY <1>1, <1>2 DEF FM!LookForAddress
  <2>3. FM!IdMark(p)
    BY <2>1 DEF FM!ScanFor
  <2>4. p \in DOMAIN track /\ track[p].t = "idmark" /\ p + 0 = p
    BY <2>2, <2>3 DEF FM!IdMark, FM!Mark, FM!Is, FM!Good
  <2>5. FM!HeaderFollows(p) => HeaderOf(p + 0, track[p + 1].of)
    BY <2>4 DEF FM!HeaderFollows, FM!HeaderOK, FM!Is, FM!Good, HeaderOf
  <2> QED
    BY <1>1, <2>1, <2>2, <2>5, SameFound
<1>3. CASE FM!LookForRecord
  <2>1. PICK p \in pos..Len(track) :
          result' = IF FM!RecordFollows(p)
                    THEN Append(result, FM!Decoded(p + 1, sec.body, p))
                    ELSE result
    BY <1>3 DEF FM!LookForRecord
  <2>2. /\ track' = track /\ state = "LookingForRecord" /\ state' # "LookingForRecord"
        /\ p \in Nat /\ sec.body \in Nat
    BY <1>1, <1>3 DEF FM!LookForRecord, FM!AfterRecord, TypeOK, Sector
  <2>3. HeaderOf(began + 0, sec)
    BY <1>1, <2>2 DEF Found
  <2>4. CASE FM!RecordFollows(p)
    <3> DEFINE d == FM!Decoded(p + 1, sec.body, p)
    <3>1. BodyOK(p + 1, sec.body) /\ FM!Is(p, {"datamark"})
      BY <2>4 DEF FM!RecordFollows, FM!BodyOK, BodyOK, FM!Is, FM!Good, Is, Good
    <3>2. sec.body # 0
      BY <2>3 DEF HeaderOf
    <3>3. /\ track[p + 1].t = "body" /\ track[p + 1].k = 1 /\ p + 1 \in DOMAIN track
          /\ track[p + 1].of = track[p + 1 + sec.body].of
      BY <1>1, <2>2, <3>1, <3>2, BodyBegins DEF TypeOK
    <3>4. /\ d.address = sec /\ d.data = track[p + 1 + sec.body].of
          /\ d.header_at = began /\ d.data_at = p
      BY DEF FM!Decoded
    <3>5. result' = Append(result, d)
      BY <2>1, <2>4
    <3> HIDE DEF d
    <3>6. RecordOf(d.data_at + 0, d.data)
      BY <2>2, <3>1, <3>3, <3>4 DEF RecordOf, FM!Is, FM!Good
    <3> QED
      BY <1>1, <2>2, <2>3, <3>4, <3>5, <3>6, AppendFound
  <2>5. CASE ~FM!RecordFollows(p)
    BY <2>1, <2>2, <2>5, SameFound
  <2> QED
    BY <2>4, <2>5
<1>4. CASE FM!TrackEnds \/ FM!CheckTrackIsSupported
  BY <1>4, SameFound DEF FM!TrackEnds, FM!CheckTrackIsSupported
<1> QED
  BY <1>2, <1>3, <1>4 DEF FM!Next

LEMMA MfmFound ==
  ASSUME MfmIndInv, Found, encoding = "MFM", MFM!Next, encoding' = encoding
  PROVE  Found'
<1> USE DEF MfmIndInv
<1>1. TypeOK /\ Lead = 1 /\ pos \in Nat /\ pos >= 1 /\ began \in Nat
  BY
  DEF MFM!TypeOK, TypeOK, MFM!Cell, Cell, MFM!Sector, Sector, MFM!Positions, Positions, Lead
<1>2. CASE MFM!LookForSectorHeader
  <2>1. PICK p \in pos..Len(track) :
          IF MFM!HeaderFollows(p)
          THEN /\ state' = "LookingForRecord"
               /\ sec' = track[p + 2].of
               /\ began' = p
          ELSE UNCHANGED <<state, sec, began>>
    BY <1>2 DEF MFM!LookForSectorHeader
  <2>2. track' = track /\ result' = result /\ state = "LookingForAddress" /\ p \in Nat
    BY <1>1, <1>2 DEF MFM!LookForSectorHeader
  <2>3. MFM!HeaderFollows(p) => HeaderOf(p + 1, track[p + 2].of)
    BY <2>2 DEF MFM!HeaderFollows, MFM!HeaderOK, MFM!Is, MFM!Good, HeaderOf
  <2> QED
    BY <1>1, <2>1, <2>2, <2>3, SameFound
<1>3. CASE MFM!LookForRecord
  <2>1. PICK p \in pos..Len(track) :
          result' = IF MFM!RecordFollows(p)
                    THEN Append(result, MFM!Decoded(p + 2, sec.body, p))
                    ELSE result
    BY <1>3 DEF MFM!LookForRecord
  <2>2. /\ track' = track /\ state = "LookingForRecord" /\ state' # "LookingForRecord"
        /\ p \in Nat /\ sec.body \in Nat
    BY <1>1, <1>3 DEF MFM!LookForRecord, MFM!AfterRecord, TypeOK, Sector
  <2>3. HeaderOf(began + 1, sec)
    BY <1>1, <2>2 DEF Found
  <2>4. CASE MFM!RecordFollows(p)
    <3> DEFINE d == MFM!Decoded(p + 2, sec.body, p)
    <3>1. BodyOK(p + 2, sec.body) /\ MFM!Is(p + 1, {"datamark"})
      <4>1. MFM!BodyOK(p + 2, sec.body) /\ MFM!Is(p + 1, {"datamark"})
        BY <2>4 DEF MFM!RecordFollows
      <4>2. MFM!BodyOK(p + 2, sec.body) => BodyOK(p + 2, sec.body)
        BY DEF MFM!BodyOK, BodyOK, MFM!Is, MFM!Good, Is, Good
      <4> QED
        BY <4>1, <4>2
    <3>2. sec.body # 0
      BY <2>3 DEF HeaderOf
    <3>3. /\ track[p + 2].t = "body" /\ track[p + 2].k = 1 /\ p + 2 \in DOMAIN track
          /\ track[p + 2].of = track[p + 2 + sec.body].of
      <4>1. track \in Seq(Cell) /\ p + 2 \in Nat /\ p + 2 # 0 /\ sec.body \in Nat \ {0}
        BY <1>1, <2>2, <3>2 DEF TypeOK
      <4> QED
        BY <3>1, <4>1, BodyBegins
    <3>4. /\ d.address = sec /\ d.data = track[p + 2 + sec.body].of
          /\ d.header_at = began /\ d.data_at = p
      BY DEF MFM!Decoded
    <3>5. result' = Append(result, d)
      BY <2>1, <2>4
    <3> HIDE DEF d
    <3>6. RecordOf(d.data_at + 1, d.data)
      BY <2>2, <3>1, <3>3, <3>4 DEF RecordOf, MFM!Is, MFM!Good
    <3> QED
      BY <1>1, <2>2, <2>3, <3>4, <3>5, <3>6, AppendFound
  <2>5. CASE ~MFM!RecordFollows(p)
    BY <2>1, <2>2, <2>5, SameFound
  <2> QED
    BY <2>4, <2>5
<1>4. CASE MFM!TrackEnds \/ MFM!CheckTrackIsSupported
  BY <1>4, SameFound DEF MFM!TrackEnds, MFM!CheckTrackIsSupported
<1> QED
  BY <1>2, <1>3, <1>4 DEF MFM!Next

LEMMA InitIndInv == AnyTrack => IndInv
<1> SUFFICES ASSUME AnyTrack PROVE IndInv
  OBVIOUS
<1>1. Init /\ encoding \in {"FM", "MFM"}
  BY DEF AnyTrack
<1>2. FmIndInv
  BY <1>1, FmInitHolds DEF Init, Start, FM!Init, FM!Start, Cell, FM!Cell, Sector, FM!Sector,
     NoSector, FM!NoSector
<1>3. MfmIndInv
  BY <1>1, MfmInitHolds DEF Init, Start, MFM!Init, MFM!Start, Cell, MFM!Cell, Sector,
     MFM!Sector, NoSector, MFM!NoSector
<1>4. Found /\ AcceptedIsSupported
  BY <1>1 DEF Init, Start, Found, AcceptedIsSupported
<1> QED
  BY <1>1, <1>2, <1>3, <1>4 DEF IndInv

LEMMA NextIndInv == IndInv /\ [Decode]_<<vars, encoding>> => IndInv'
<1> SUFFICES ASSUME IndInv, [Decode]_<<vars, encoding>> PROVE IndInv'
  OBVIOUS
<1>1. CASE encoding = "FM" /\ FM!Next /\ encoding' = encoding
  <2>1. FmIndInv'
    BY <1>1, FmHeaderStep, FmRecordStep, FmLastSteps DEF IndInv, FM!Next
  <2>2. Found'
    BY <1>1, FmFound DEF IndInv
  <2>3. AcceptedIsSupported'
    BY <1>1 DEF FM!Next, FM!LookForAddress, FM!LookForRecord, FM!AfterRecord, FM!TrackEnds,
       FM!CheckTrackIsSupported, FM!Supported, Supported, AcceptedIsSupported, IndInv
  <2> QED
    BY <1>1, <2>1, <2>2, <2>3 DEF IndInv
<1>2. CASE encoding = "MFM" /\ MFM!Next /\ encoding' = encoding
  <2>1. MfmIndInv'
    BY <1>2, MfmHeaderStep, MfmRecordStep, MfmLastSteps DEF IndInv, MFM!Next
  <2>2. Found'
    BY <1>2, MfmFound DEF IndInv
  <2>3. AcceptedIsSupported'
    BY <1>2 DEF MFM!Next, MFM!LookForSectorHeader, MFM!LookForRecord, MFM!AfterRecord,
       MFM!TrackEnds, MFM!CheckTrackIsSupported, MFM!Supported, Supported,
       AcceptedIsSupported, IndInv
  <2> QED
    BY <1>2, <2>1, <2>2, <2>3 DEF IndInv
<1>3. CASE UNCHANGED <<vars, encoding>>
  <2>1. UNCHANGED vars /\ encoding' = encoding
    BY <1>3
  <2>2. UNCHANGED FM!vars /\ UNCHANGED MFM!vars
    BY <2>1 DEF vars, FM!vars, MFM!vars
  <2>3. (FmIndInv => FmIndInv') /\ (MfmIndInv => MfmIndInv')
    BY <2>2, FmLastSteps, MfmLastSteps
  <2>4. Found' /\ AcceptedIsSupported'
    BY <2>1
    DEF IndInv, vars, Found, HeaderOf, RecordOf, Lead, AcceptedIsSupported, Supported
  <2> QED
    BY <2>1, <2>3, <2>4 DEF IndInv
<1> QED
  BY <1>1, <1>2, <1>3 DEF Decode

\* The invariant the theorems below follow from holds of every decoding.
THEOREM Invariance == Spec => []IndInv
BY InitIndInv, NextIndInv, PTL DEF Spec

LEMMA SharedFacts == IndInv => TypeOK /\ ResultsInTrackOrder
<1> SUFFICES ASSUME IndInv PROVE TypeOK /\ ResultsInTrackOrder
  OBVIOUS
<1>1. CASE encoding = "FM"
  BY <1>1 DEF IndInv, FmIndInv, FM!TypeOK, TypeOK, FM!Cell, Cell, FM!Sector, Sector,
     FM!Positions, Positions, FM!ResultsInTrackOrder, ResultsInTrackOrder
<1>2. CASE encoding = "MFM"
  BY <1>2 DEF IndInv, MfmIndInv, MFM!TypeOK, TypeOK, MFM!Cell, Cell, MFM!Sector, Sector,
     MFM!Positions, Positions, MFM!ResultsInTrackOrder, ResultsInTrackOrder
<1> QED
  BY <1>1, <1>2 DEF IndInv

\* The position stays within two cells of the end of any track, and every
\* sector decoded is of the right type.
THEOREM TypeCorrect == Spec => []TypeOK
BY Invariance, SharedFacts, PTL

\* Sectors decoded from any track come from separate stretches of it, in order.
THEOREM TrackOrder == Spec => []ResultsInTrackOrder
BY Invariance, SharedFacts, PTL

\* On any FM track, the record returned under an address is the first one after
\* the header that has a readable mark.
THEOREM NearestRecord == Spec => [](encoding = "FM" => FM!FirstRecordAfterHeader)
<1>1. IndInv => (encoding = "FM" => FM!FirstRecordAfterHeader)
  BY DEF IndInv, FmIndInv
<1> QED
  BY <1>1, Invariance, PTL

\* On any MFM track, no readable sync lies between a header and the sync of the
\* record returned under its address.
THEOREM NothingPassedOver == Spec => [](encoding = "MFM" => MFM!NothingBetween)
<1>1. IndInv => (encoding = "MFM" => MFM!NothingBetween)
  BY DEF IndInv, MfmIndInv
<1> QED
  BY <1>1, Invariance, PTL

----------------------------------------------------------------------------
(* Tracks that were written as a disc controller writes them *)

\* The six cells that begin the sector whose address mark is at p.
LEMMA AroundHeader ==
  ASSUME AsWritten(track), track \in Seq(Cell), NEW p \in Nat, NEW s, HeaderOf(p, s)
  PROVE  Introduces(track, p - 1, s) /\ p - 1 \in Nat
<1>1. p + 1 \in DOMAIN track /\ track[p + 1].t = "header" /\ track[p + 1].of = s
  BY DEF HeaderOf
<1>2. Introduces(track, (p + 1) - 2, track[p + 1].of)
  BY <1>1 DEF AsWritten
<1>3. (p + 1) - 2 = p - 1
  OBVIOUS
<1>4. Introduces(track, p - 1, s)
  BY <1>1, <1>2, <1>3
<1>5. p - 1 \in DOMAIN track
  BY <1>4 DEF Introduces
<1> QED
  BY <1>4, <1>5

\* The six cells that begin the sector whose data is read from p.
LEMMA BeforeRecord ==
  ASSUME AsWritten(track), track \in Seq(Cell), NEW p \in Nat, NEW s, RecordOf(p, s)
  PROVE  Introduces(track, p - 5, s) /\ p - 5 \in Nat /\ ~s.deleted
<1>1. /\ p \in DOMAIN track /\ track[p].t = "datamark"
      /\ p + 1 \in DOMAIN track /\ track[p + 1].t = "body" /\ track[p + 1].k = 1
      /\ track[p + 1].of = s
  BY DEF RecordOf
<1>2. track[(p + 1) - 1].of = s /\ (p + 1) - 1 = p
  BY <1>1 DEF AsWritten
<1>3. Introduces(track, p - 5, s)
  BY <1>1, <1>2 DEF AsWritten
<1>4. p - 5 \in DOMAIN track /\ (p - 5) + 5 = p
  BY <1>3 DEF Introduces
<1>5. track[p].t = IF s.deleted THEN "delmark" ELSE "datamark"
  BY <1>3, <1>4 DEF Introduces
<1> QED
  BY <1>1, <1>3, <1>4, <1>5

\* The positions of a result, as numbers.
LEMMA Places ==
  ASSUME IndInv, NEW i \in DOMAIN result
  PROVE  /\ track \in Seq(Cell)
         /\ result[i].header_at \in Nat /\ result[i].data_at \in Nat
         /\ result[i].header_at < result[i].data_at
         /\ Lead \in Nat
         /\ result[i].address \in Sector /\ result[i].data \in Sector
<1>1. TypeOK /\ ResultsInTrackOrder
  BY SharedFacts
<1>2. result[i] \in Positions /\ track \in Seq(Cell)
  BY <1>1 DEF TypeOK
<1>3. result[i].header_at < result[i].data_at
  BY <1>1 DEF ResultsInTrackOrder
<1> QED
  BY <1>2, <1>3 DEF Positions, Lead

LEMMA FmMisfiled ==
  ASSUME IndInv, AsWritten(track), encoding = "FM"
  PROVE  FM!MisfiledOnlyByLostMarks
<1> SUFFICES ASSUME NEW i \in DOMAIN result
             PROVE  /\ ~result[i].data.deleted
                    /\ result[i].data # result[i].address =>
                         \E p \in FM!Damaged :
                           /\ track[p].t \in {"sync", "datamark", "delmark"}
                           /\ track[p].of = result[i].address
  BY DEF FM!MisfiledOnlyByLostMarks
<1> DEFINE h == result[i].header_at
           d == result[i].data_at
           a == result[i].address
           s == result[i].data
<1>1. track \in Seq(Cell) /\ h \in Nat /\ d \in Nat /\ h < d
  BY Places
<1>2. HeaderOf(h, a) /\ RecordOf(d, s)
  <2>1. HeaderOf(h + Lead, a) /\ RecordOf(d + Lead, s)
    BY DEF IndInv, Found
  <2>2. h + Lead = h /\ d + Lead = d
    BY <1>1 DEF Lead
  <2> QED
    BY <2>1, <2>2
<1>3. \A q \in h + 3..d - 1 : ~(FM!Is(q, {"datamark", "delmark"}) /\ FM!Is(q - 1, {"sync"}))
  BY DEF IndInv, FmIndInv, FM!FirstRecordAfterHeader
<1> HIDE DEF h, d, a, s
<1>4. Introduces(track, h - 1, a) /\ h - 1 \in Nat
  BY <1>1, <1>2, AroundHeader
<1>5. Introduces(track, d - 5, s) /\ d - 5 \in Nat /\ ~s.deleted
  BY <1>1, <1>2, BeforeRecord
<1>6. /\ track[h].t = "idmark" /\ track[h + 1].t = "header" /\ track[h + 2].t = "gap"
      /\ track[h + 3].t = "sync" /\ track[h + 4].t \in {"datamark", "delmark"}
      /\ track[h + 3].of = a /\ track[h + 4].of = a
      /\ h + 3 \in DOMAIN track /\ h + 4 \in DOMAIN track
  <2>1. /\ (h - 1) + 1 = h /\ (h - 1) + 2 = h + 1 /\ (h - 1) + 3 = h + 2 /\ (h - 1) + 4 = h + 3
        /\ (h - 1) + 5 = h + 4 /\ h + 3 \in h - 1..(h - 1) + 5 /\ h + 4 \in h - 1..(h - 1) + 5
    BY <1>1
  <2>2. h + 4 \in DOMAIN track
    BY <1>4, <2>1 DEF Introduces
  <2>3. h + 3 \in DOMAIN track
    BY <1>1, <2>2
  <2> QED
    BY <1>4, <2>1, <2>2, <2>3 DEF Introduces
<1>7. track[d].t = "datamark" /\ track[d].of = s
  <2>1. d \in d - 5..(d - 5) + 5
    BY <1>1
  <2> QED
    BY <1>2, <1>5, <2>1 DEF Introduces, RecordOf
\* The record's own mark is not passed over when it can be read.
<1>8. ASSUME track[h + 3].read = "good", track[h + 4].read = "good"
      PROVE  s = a
  <2>1. FM!Is(h + 4, {"datamark", "delmark"}) /\ FM!Is(h + 3, {"sync"})
    BY <1>6, <1>8 DEF FM!Is, FM!Good
  <2>2. ~(h + 4 \in h + 3..d - 1)
    BY <1>1, <1>3, <2>1
  <2>3. d # h + 1 /\ d # h + 2 /\ d # h + 3
    BY <1>6, <1>7
  <2>4. d = h + 4
    BY <1>1, <2>2, <2>3
  <2> QED
    BY <1>6, <1>7, <2>4
<1>9. s # a => \E p \in FM!Damaged :
                  track[p].t \in {"sync", "datamark", "delmark"} /\ track[p].of = a
  BY <1>6, <1>8 DEF FM!Damaged
<1> QED
  BY <1>5, <1>9 DEF a, s

LEMMA MfmMisfiled ==
  ASSUME IndInv, AsWritten(track), encoding = "MFM"
  PROVE  MFM!MisfiledOnlyByLostMarks
<1> SUFFICES ASSUME NEW i \in DOMAIN result
             PROVE  /\ ~result[i].data.deleted
                    /\ result[i].data # result[i].address =>
                         \E p, q \in MFM!Damaged :
                           /\ track[p].t = "sync" /\ track[p].of = result[i].address
                           /\ track[q].t = "sync" /\ track[q].of = result[i].data
                           /\ p < q
  BY DEF MFM!MisfiledOnlyByLostMarks
<1> DEFINE h == result[i].header_at
           d == result[i].data_at
           a == result[i].address
           s == result[i].data
<1>1. track \in Seq(Cell) /\ h \in Nat /\ d \in Nat /\ h < d
  BY Places
<1>2. HeaderOf(h + 1, a) /\ RecordOf(d + 1, s)
  <2>1. HeaderOf(h + Lead, a) /\ RecordOf(d + Lead, s)
    BY DEF IndInv, Found
  <2>2. h + Lead = h + 1 /\ d + Lead = d + 1
    BY <1>1 DEF Lead
  <2> QED
    BY <2>1, <2>2
<1>3. \A q \in h + 1..d - 1 : ~MFM!Sync(q)
  BY DEF IndInv, MfmIndInv, MFM!NothingBetween
<1> HIDE DEF h, d, a, s
<1>4. Introduces(track, h, a)
  <2>1. Introduces(track, (h + 1) - 1, a) /\ (h + 1) - 1 = h
    BY <1>1, <1>2, AroundHeader
  <2> QED
    BY <2>1
<1>5. Introduces(track, d - 4, s) /\ d - 4 \in Nat /\ ~s.deleted
  <2>1. /\ Introduces(track, (d + 1) - 5, s) /\ (d + 1) - 5 \in Nat
        /\ ~s.deleted /\ (d + 1) - 5 = d - 4
    BY <1>1, <1>2, BeforeRecord
  <2> QED
    BY <2>1
<1>6. /\ track[h + 1].t = "idmark" /\ track[h + 2].t = "header" /\ track[h + 3].t = "gap"
      /\ track[h + 4].t = "sync" /\ track[h + 5].t \in {"datamark", "delmark"}
      /\ \A q \in h..h + 5 : q \in DOMAIN track /\ track[q].of = a
  <2>1. h \in DOMAIN track /\ h + 5 \in DOMAIN track
    BY <1>4 DEF Introduces
  <2>2. \A q \in h..h + 5 : q \in DOMAIN track
    BY <1>1, <2>1
  <2> QED
    BY <1>4, <2>2 DEF Introduces
<1>7. /\ track[d - 4].t = "sync" /\ track[d].t = "sync"
      /\ \A q \in d - 4..d + 1 : q \in DOMAIN track /\ track[q].of = s
  <2>1. /\ d - 4 \in DOMAIN track /\ d + 1 \in DOMAIN track
        /\ (d - 4) + 5 = d + 1 /\ (d - 4) + 4 = d
    BY <1>1, <1>5 DEF Introduces
  <2>2. \A q \in d - 4..d + 1 : q \in DOMAIN track
    BY <1>1, <2>1
  <2> QED
    BY <1>5, <2>1, <2>2 DEF Introduces
\* The cells of two sectors do not overlap.
<1>8. ASSUME s # a
      PROVE  /\ h + 4 \in MFM!Damaged /\ track[h + 4].of = a
             /\ d - 4 \in MFM!Damaged /\ track[d - 4].of = s
             /\ h + 4 < d - 4
  <2>1. h + 4 \in h..h + 5 /\ h + 5 \in h..h + 5 /\ d - 4 \in d - 4..d + 1
    BY <1>1
  <2>2. ASSUME d - 4 <= h + 5 PROVE FALSE
    <3>1. h < d - 4 \/ d - 4 <= h
      BY <1>1, <1>5
    <3>2. CASE h < d - 4
      <4>1. d - 4 \in h..h + 5
        BY <1>1, <2>2, <3>2
      <4> QED
        BY <1>6, <1>7, <1>8, <2>1, <4>1
    <3>3. CASE d - 4 <= h
      <4>1. h \in d - 4..d + 1 /\ h \in h..h + 5
        BY <1>1, <3>3
      <4> QED
        BY <1>6, <1>7, <1>8, <4>1
    <3> QED
      BY <3>1, <3>2, <3>3
  <2>3. h + 5 < d - 4
    BY <1>1, <1>5, <2>2
  <2>4. ~MFM!Sync(h + 4) /\ ~MFM!Sync(d - 4)
    <3>1. h + 4 \in h + 1..d - 1 /\ d - 4 \in h + 1..d - 1
      BY <1>1, <2>3
    <3> QED
      BY <1>3, <3>1
  <2>5. h + 4 \in DOMAIN track /\ d - 4 \in DOMAIN track
    BY <1>6, <1>7, <2>1
  <2>6. track[h + 4].read # "good" /\ track[d - 4].read # "good"
    BY <1>6, <1>7, <2>4, <2>5 DEF MFM!Sync, MFM!Is, MFM!Good
  <2> QED
    BY <1>1, <1>6, <1>7, <2>1, <2>3, <2>5, <2>6 DEF MFM!Damaged
<1> QED
  BY <1>5, <1>6, <1>7, <1>8 DEF a, s

\* On every track that was written properly, whatever has been lost of it since,
\* data comes under another sector's address only when in FM that sector's mark
\* or the zeros before it are lost, in MFM the syncs of both; and no result holds
\* the data of a control record.
THEOREM Misfiled == Spec => [](AsWritten(track) => MisfiledOnlyByLostMarks)
<1>1. IndInv => (AsWritten(track) => MisfiledOnlyByLostMarks)
  BY FmMisfiled, MfmMisfiled DEF IndInv, MisfiledOnlyByLostMarks
<1> QED
  BY <1>1, Invariance, PTL

----------------------------------------------------------------------------
(* Accepted tracks *)

\* A set of numbers has a least element: what stands in for induction here.
LEMMA NatLeast ==
  ASSUME NEW T, T \subseteq Nat, T # {}
  PROVE  \E x \in T : \A y \in T : x <= y
<1> DEFINE R == {ss \in Nat \X Nat : ss[1] < ss[2]}
<1>1. IsWellFoundedOn(R, Nat)
  BY NatLessThanWellFounded DEF OpToRel
<1> HIDE DEF R
<1>2. PICK x \in T : \A y \in T : ~ (<<y, x>> \in R)
  BY <1>1, WFMin
<1>3. ASSUME NEW y \in T, y < x PROVE <<y, x>> \in R
  BY <1>3 DEF R
<1>4. ASSUME NEW y \in T PROVE x <= y
  <2>1. x \in Nat /\ y \in Nat
    OBVIOUS
  <2>2. ~(y < x)
    BY <1>2, <1>3
  <2> QED
    BY <2>1, <2>2
<1> QED
  BY <1>4

\* check_track_is_supported only looks at one record and the next; it follows
\* that between the first and the last no number is missing.
LEMMA RecordsContiguous ==
  ASSUME TypeOK, Supported, NEW i \in DOMAIN result, NEW j \in DOMAIN result,
         NEW r \in Nat, result[i].address.record <= r, r <= result[j].address.record
  PROVE  \E m \in DOMAIN result : result[m].address.record = r
<1> DEFINE rec(m) == result[m].address.record
           T == {x \in Nat : /\ rec(i) <= x /\ x <= rec(j)
                             /\ \A m \in DOMAIN result : rec(m) # x}
<1>1. \A m \in DOMAIN result : rec(m) \in Nat
  <2> TAKE m \in DOMAIN result
  <2>1. result[m] \in Positions
    BY DEF TypeOK
  <2> QED
    BY <2>1 DEF Positions, Sector
<1>2. \A m \in DOMAIN result :
        \/ \A q \in DOMAIN result : rec(q) <= rec(m)
        \/ \E q \in DOMAIN result : rec(q) = rec(m) + 1
  BY DEF Supported
<1> HIDE DEF rec
<1>3. T = {}
  <2> SUFFICES ASSUME T # {} PROVE FALSE
    OBVIOUS
  <2>1. PICK x \in T : \A y \in T : x <= y
    BY NatLeast
  <2>2. x \in Nat /\ rec(i) <= x /\ x <= rec(j) /\ \A m \in DOMAIN result : rec(m) # x
    OBVIOUS
  <2>3. rec(i) < x
    BY <1>1, <2>2
  <2>4. x - 1 \in Nat /\ rec(i) <= x - 1 /\ x - 1 <= rec(j)
    BY <1>1, <2>2, <2>3
  <2>5. x - 1 \notin T
    BY <2>1, <2>2
  <2>6. PICK m \in DOMAIN result : rec(m) = x - 1
    BY <2>4, <2>5
  <2>7. ~(rec(j) <= rec(m))
    BY <1>1, <2>2, <2>6
  <2>8. PICK q \in DOMAIN result : rec(q) = rec(m) + 1
    BY <1>2, <2>7
  <2>9. rec(q) = x
    BY <2>2, <2>6, <2>8
  <2> QED
    BY <2>2, <2>9
<1>4. \E m \in DOMAIN result : rec(m) = r
  BY <1>3 DEF rec
<1> QED
  BY <1>4 DEF rec

\* A record number that is not beyond the others is that of a result.
LEMMA WithinIsFound ==
  ASSUME IndInv, state = "accepted", RecordNumbersDiffer,
         NEW s \in OnTrack, ~Beyond(s)
  PROVE  \E m \in DOMAIN result : result[m].address = s
<1>1. TypeOK /\ Supported
  BY SharedFacts DEF IndInv, AcceptedIsSupported
<1>2. \A m \in DOMAIN result : result[m].address.record \in Nat
  <2> TAKE m \in DOMAIN result
  <2>1. result[m].address \in Sector
    BY Places
  <2> QED
    BY <2>1 DEF Sector
<1>3. s.record \in Nat
  <2>1. PICK p \in DOMAIN track : s = track[p].of
    BY DEF OnTrack
  <2>2. track[p] \in Cell
    BY <1>1 DEF TypeOK
  <2> QED
    BY <2>1, <2>2 DEF Cell, Sector
<1>4. PICK i \in DOMAIN result : ~(s.record < result[i].address.record)
  BY DEF Beyond
<1>5. PICK j \in DOMAIN result : ~(s.record > result[j].address.record)
  BY DEF Beyond
<1>6. result[i].address.record <= s.record /\ s.record <= result[j].address.record
  BY <1>2, <1>3, <1>4, <1>5
<1>7. PICK m \in DOMAIN result : result[m].address.record = s.record
  BY <1>1, <1>3, <1>6, RecordsContiguous
<1>8. result[m].address \in OnTrack
  <2>1. HeaderOf(result[m].header_at + Lead, result[m].address)
    BY DEF IndInv, Found
  <2> QED
    BY <2>1 DEF HeaderOf, OnTrack
<1>9. result[m].address = s
  BY <1>7, <1>8 DEF RecordNumbersDiffer
<1> QED
  BY <1>9

\* Data whose own address was found was filed under it: no result can come
\* between the header of a sector and its record.
LEMMA FiledUnderOwn ==
  ASSUME IndInv, AsWritten(track),
         NEW i \in DOMAIN result, NEW m \in DOMAIN result,
         result[m].address = result[i].data
  PROVE  m = i
<1> DEFINE h == result[i].header_at + Lead
           d == result[i].data_at + Lead
           g == result[m].header_at + Lead
           s == result[i].data
<1>1. /\ track \in Seq(Cell) /\ h \in Nat /\ d \in Nat /\ g \in Nat /\ h < d
      /\ i \in Nat /\ m \in Nat
  <2>1. TypeOK
    BY SharedFacts
  <2>2. i \in Nat /\ m \in Nat
    BY <2>1 DEF TypeOK
  <2> QED
    BY <2>2, Places
<1>2. HeaderOf(h, result[i].address) /\ RecordOf(d, s) /\ HeaderOf(g, s)
  BY DEF IndInv, Found
<1>3. i < m => d < g
  <2> SUFFICES ASSUME i < m PROVE d < g
    OBVIOUS
  <2>1. result[i].data_at < result[m].header_at
    BY SharedFacts DEF ResultsInTrackOrder
  <2> QED
    BY <2>1, Places
<1>4. m < i => g < h
  <2> SUFFICES ASSUME m < i PROVE g < h
    OBVIOUS
  <2>1. /\ result[m].data_at < result[i].header_at
        /\ result[m].header_at < result[m].data_at
    BY SharedFacts DEF ResultsInTrackOrder
  <2> QED
    BY <2>1, Places
<1> HIDE DEF h, d, g, s
<1>5. Introduces(track, d - 5, s) /\ d - 5 \in Nat
  BY <1>1, <1>2, BeforeRecord
\* The sector has one header, four cells before its mark.
<1>6. /\ d - 3 = g + 1 /\ track[g + 1].t = "header" /\ track[g + 2].t = "gap"
      /\ track[g + 3].t = "sync" /\ track[g + 4].t = "datamark" /\ d = g + 4
  <2>1. /\ (d - 5) + 2 = d - 3 /\ (d - 5) + 3 = d - 2 /\ (d - 5) + 4 = d - 1
        /\ d - 3 \in d - 5..(d - 5) + 5
    BY <1>1, <1>5
  <2>2. /\ track[d - 3].t = "header" /\ track[d - 2].t = "gap" /\ track[d - 1].t = "sync"
        /\ track[d - 3].of = s
    BY <1>5, <2>1 DEF Introduces
  <2>3. d \in DOMAIN track /\ track[d].t = "datamark"
    BY <1>2 DEF RecordOf
  <2>4. d - 3 \in DOMAIN track
    BY <1>1, <1>5, <2>3
  <2>5. g + 1 \in DOMAIN track /\ track[g + 1].t = "header" /\ track[g + 1].of = s
    BY <1>2 DEF HeaderOf
  <2>6. d - 3 = g + 1
    BY <2>2, <2>4, <2>5 DEF AsWritten
  <2>7. d = g + 4 /\ d - 2 = g + 2 /\ d - 1 = g + 3
    BY <1>1, <2>6
  <2> QED
    BY <2>2, <2>3, <2>5, <2>6, <2>7
<1>7. track[h].t = "idmark"
  BY <1>2 DEF HeaderOf
<1>8. ~(i < m)
  BY <1>1, <1>3, <1>6
<1>9. ~(m < i)
  <2> SUFFICES ASSUME m < i PROVE FALSE
    OBVIOUS
  <2>1. h = g + 1 \/ h = g + 2 \/ h = g + 3
    BY <1>1, <1>4, <1>6
  <2> QED
    BY <1>6, <1>7, <2>1
<1> QED
  BY <1>1, <1>8, <1>9

\* What check_track_is_supported accepts lacks sectors at its ends only, on any
\* properly written track whose sectors have a number each, whatever was lost.
THEOREM AcceptedIsWhole == Spec => [](AsWritten(track) => AcceptedLosesOnlyEnds)
<1>1. ASSUME IndInv, AsWritten(track) PROVE AcceptedLosesOnlyEnds
  <2> SUFFICES ASSUME state = "accepted", RecordNumbersDiffer
               PROVE  /\ \A s \in Usable \ Recovered :
                           Beyond(s) \/ \E i \in DOMAIN result : result[i].address = s
                      /\ \A i \in DOMAIN result :
                           result[i].data # result[i].address => Beyond(result[i].data)
    BY DEF AcceptedLosesOnlyEnds
  <2>1. Usable \subseteq OnTrack
    BY DEF Usable, Recorded, OnTrack
  <2>2. ASSUME NEW s \in Usable \ Recovered
        PROVE  Beyond(s) \/ \E i \in DOMAIN result : result[i].address = s
    BY <1>1, <2>1, WithinIsFound
  <2>3. ASSUME NEW i \in DOMAIN result, result[i].data # result[i].address
        PROVE  Beyond(result[i].data)
    <3>1. result[i].data \in OnTrack
      <4>1. RecordOf(result[i].data_at + Lead, result[i].data)
        BY <1>1 DEF IndInv, Found
      <4> QED
        BY <4>1 DEF RecordOf, OnTrack
    <3>2. ASSUME NEW m \in DOMAIN result PROVE result[m].address # result[i].data
      BY <1>1, <2>3, FiledUnderOwn
    <3> QED
      BY <1>1, <3>1, <3>2, WithinIsFound
  <2> QED
    BY <2>2, <2>3
<1> QED
  BY <1>1, Invariance, PTL

----------------------------------------------------------------------------
(* What damage costs *)

Whole == track \in Seq(Cell) /\ AsWritten(track) /\ WholeSectors(track)

ReadableMarks ==
  {p \in DOMAIN track : Is(p, {"datamark", "delmark"}) /\ Is(p - 1, {"sync"})}
ReadableSyncs == {p \in DOMAIN track : Is(p, {"sync"})}

\* What the decoder takes for the beginning of a record.
Announced == IF encoding = "FM" THEN ReadableMarks ELSE ReadableSyncs

IdMarks == {p \in DOMAIN track : track[p].t = "idmark"}

\* The marks of the sectors that hold data.
DataMarks == {p \in DOMAIN track : track[p].t = "datamark" /\ track[p].of.body # 0}

NextIn(S, p, q) == q \in S /\ p < q /\ \A r \in S : p < r => q <= r

\* The sectors that damage at d can cost: its own; in FM the one whose mark is
\* the next that can be read; and the one whose address mark comes after what is
\* taken for the beginning of the record.
Charged(d, n, s) ==
  \/ n = 1 /\ s = track[d].of
  \/ /\ n = 2 /\ encoding = "FM"
     /\ \E p \in Nat : NextIn(Announced, d, p) /\ s = track[p].of
  \/ /\ n = IF encoding = "FM" THEN 3 ELSE 2
     /\ \E p, q \in Nat :
          NextIn(Announced, d, p) /\ NextIn(IdMarks, p, q) /\ s = track[q].of

Settled(s) ==
  \/ s \in Recovered
  \/ \E d \in Damaged, n \in 1..CostOfDamage : Charged(d, n, s)

\* Every sector with data that begins before b is recovered or paid for.
SettledBefore(b) == \A m \in DataMarks : m - 5 < b => Settled(track[m].of)

\* The header being held is that of the first sector that may not be settled.
LossInv ==
  /\ state = "LookingForAddress" => SettledBefore(pos)
  /\ state = "LookingForRecord" => SettledBefore(began + Lead - 1)
  /\ state = "decoded" => \A m \in DataMarks : Settled(track[m].of)

\* A charge is made to one sector only.
LEMMA ChargedOnce ==
  ASSUME NEW d, NEW n, NEW s, NEW u, Charged(d, n, s), Charged(d, n, u)
  PROVE  s = u
<1>1. ASSUME NEW S, NEW p \in Nat, NEW q \in Nat, NEW r,
             NextIn(S, r, p), NextIn(S, r, q)
      PROVE  p = q
  BY <1>1 DEF NextIn
<1>2. CASE n = 1
  BY <1>2 DEF Charged
<1>3. CASE n = 2 /\ encoding = "FM"
  BY <1>1, <1>3 DEF Charged
<1>4. CASE n = (IF encoding = "FM" THEN 3 ELSE 2)
  <2>1. PICK p, q \in Nat :
          NextIn(Announced, d, p) /\ NextIn(IdMarks, p, q) /\ s = track[q].of
    BY <1>4 DEF Charged
  <2>2. PICK x, y \in Nat :
          NextIn(Announced, d, x) /\ NextIn(IdMarks, x, y) /\ u = track[y].of
    BY <1>4 DEF Charged
  <2>3. p = x
    BY <1>1, <2>1, <2>2
  <2>4. q = y
    BY <1>1, <2>1, <2>2, <2>3
  <2> QED
    BY <2>1, <2>2, <2>4
<1> QED
  BY <1>2, <1>3, <1>4 DEF Charged

\* What each cell of a sector is.
LEMMA CellsOf ==
  ASSUME Whole, NEW p \in Nat, NEW s \in Sector, LaidOut(track, p, s),
         NEW q \in p..p + 7 + s.body
  PROVE  /\ q \in DOMAIN track /\ track[q].of = s
         /\ track[q].t = "sync" => q = p \/ q = p + 4
         /\ track[q].t = "idmark" => q = p + 1
         /\ track[q].t = "header" => q = p + 2
         /\ track[q].t \in {"datamark", "delmark"} => q = p + 5
<1>1. s.body \in Nat /\ q \in Nat /\ DOMAIN track = 1..Len(track) /\ Len(track) \in Nat
  BY DEF Sector, Whole
<1>2. /\ p \in DOMAIN track /\ p + 7 + s.body \in DOMAIN track /\ track[q].of = s
      /\ Introduces(track, p, s)
      /\ \A k \in 1..s.body : track[p + 5 + k].t = "body"
      /\ track[p + 6 + s.body].t = "crc" /\ track[p + 7 + s.body].t = "gap"
  BY DEF LaidOut, Introduces
<1>3. q \in DOMAIN track
  BY <1>1, <1>2
<1>4. /\ track[p].t = "sync" /\ track[p + 1].t = "idmark" /\ track[p + 2].t = "header"
      /\ track[p + 3].t = "gap" /\ track[p + 4].t = "sync"
      /\ track[p + 5].t \in {"datamark", "delmark"}
  BY <1>2 DEF Introduces
<1>5. CASE q <= p + 5
  <2>1. q = p \/ q = p + 1 \/ q = p + 2 \/ q = p + 3 \/ q = p + 4 \/ q = p + 5
    BY <1>1, <1>5
  <2> QED
    BY <1>2, <1>3, <1>4, <2>1
<1>6. CASE q > p + 5
  <2>1. \/ q - 5 - p \in 1..s.body /\ p + 5 + (q - 5 - p) = q
        \/ q = p + 6 + s.body
        \/ q = p + 7 + s.body
    BY <1>1, <1>6
  <2>2. track[q].t \in {"body", "crc", "gap"}
    BY <1>2, <2>1
  <2> QED
    BY <1>2, <1>3, <2>2
<1> QED
  BY <1>1, <1>5, <1>6

\* Only one sector lies at a place.
LEMMA SectorsApart ==
  ASSUME Whole, NEW x \in Nat, NEW s \in Sector, LaidOut(track, x, s),
         NEW y \in Nat, NEW u \in Sector, LaidOut(track, y, u), y \in x..x + 7 + s.body
  PROVE  y = x /\ u = s
<1>1. track[y].of = s
  BY CellsOf
<1>2. track[y].of = u
  <2>1. y \in y..y + 5
    OBVIOUS
  <2> QED
    BY <2>1 DEF LaidOut, Introduces
<1>3. /\ x + 2 \in DOMAIN track /\ track[x + 2].t = "header" /\ track[x + 2].of = s
      /\ y + 2 \in DOMAIN track /\ track[y + 2].t = "header" /\ track[y + 2].of = u
  <2>1. s.body \in Nat /\ u.body \in Nat
    BY DEF Sector
  <2>2. x + 2 \in x..x + 7 + s.body /\ y + 2 \in y..y + 7 + u.body
    BY <2>1
  <2> QED
    BY <2>2, CellsOf DEF LaidOut, Introduces
<1>4. x + 2 = y + 2
  BY <1>1, <1>2, <1>3 DEF Whole, AsWritten
<1> QED
  BY <1>1, <1>2, <1>4

\* The sector a cell belongs to, by what the cell is.
LEMMA Placed ==
  ASSUME Whole, NEW q \in DOMAIN track
  PROVE  /\ q \in Nat /\ track[q].of \in Sector
         /\ track[q].t \in {"datamark", "delmark"} =>
              q - 5 \in Nat /\ LaidOut(track, q - 5, track[q].of)
         /\ track[q].t = "idmark" => q - 1 \in Nat /\ LaidOut(track, q - 1, track[q].of)
         /\ track[q].t = "sync" =>
              \/ LaidOut(track, q, track[q].of)
              \/ q - 4 \in Nat /\ LaidOut(track, q - 4, track[q].of)
<1>1. q \in Nat /\ track[q] \in Cell
  BY DEF Whole
<1>2. track[q].of \in Sector
  BY <1>1 DEF Cell
<1>3. SUFFICES ASSUME track[q].t # "gap"
      PROVE  /\ track[q].t \in {"datamark", "delmark"} =>
                  q - 5 \in Nat /\ LaidOut(track, q - 5, track[q].of)
             /\ track[q].t = "idmark" => q - 1 \in Nat /\ LaidOut(track, q - 1, track[q].of)
             /\ track[q].t = "sync" =>
                  \/ LaidOut(track, q, track[q].of)
                  \/ q - 4 \in Nat /\ LaidOut(track, q - 4, track[q].of)
  BY <1>1, <1>2
<1>4. PICK p \in DOMAIN track :
        LaidOut(track, p, track[q].of) /\ q \in p..p + 6 + track[q].of.body
  BY <1>3 DEF Whole, WholeSectors
<1>5. p \in Nat /\ track[q].of.body \in Nat
  BY <1>2 DEF Whole, Sector
<1>6. q \in p..p + 7 + track[q].of.body
  BY <1>1, <1>4, <1>5
<1>7. /\ track[q].t = "sync" => q = p \/ q = p + 4
      /\ track[q].t = "idmark" => q = p + 1
      /\ track[q].t \in {"datamark", "delmark"} => q = p + 5
  BY <1>2, <1>4, <1>5, <1>6, CellsOf
<1>8. (p + 5) - 5 = p /\ (p + 4) - 4 = p /\ (p + 1) - 1 = p
  BY <1>5
<1> QED
  BY <1>4, <1>5, <1>7, <1>8

\* A sector with data, and what lies where in it.
LEMMA DataSector ==
  ASSUME Whole, NEW m \in DataMarks
  PROVE  /\ m \in Nat /\ m - 5 \in Nat
         /\ track[m].of \in Sector /\ track[m].of.body \in Nat \ {0}
         /\ LaidOut(track, m - 5, track[m].of)
         /\ m - 5 \in DOMAIN track /\ track[m - 5].t = "sync"
         /\ m - 4 \in DOMAIN track /\ track[m - 4].t = "idmark"
         /\ m - 3 \in DOMAIN track /\ track[m - 3].t = "header"
         /\ m - 1 \in DOMAIN track /\ track[m - 1].t = "sync"
         /\ \A q \in m - 5..m + 2 + track[m].of.body :
              q \in DOMAIN track /\ track[q].of = track[m].of
<1>1. m \in DOMAIN track /\ track[m].t = "datamark" /\ track[m].of.body # 0
  BY DEF DataMarks
<1>2. /\ m \in Nat /\ m - 5 \in Nat /\ track[m].of \in Sector
      /\ LaidOut(track, m - 5, track[m].of)
  BY <1>1, Placed
<1>3. track[m].of.body \in Nat \ {0}
  BY <1>1, <1>2 DEF Sector
<1>4. /\ (m - 5) + 1 = m - 4 /\ (m - 5) + 2 = m - 3 /\ (m - 5) + 4 = m - 1
      /\ (m - 5) + 7 + track[m].of.body = m + 2 + track[m].of.body
  BY <1>2, <1>3
<1>5. \A q \in m - 5..m + 2 + track[m].of.body :
        q \in DOMAIN track /\ track[q].of = track[m].of
  <2> TAKE q \in m - 5..m + 2 + track[m].of.body
  <2> QED
    BY <1>2, <1>4, CellsOf
<1>6. /\ m - 5 \in m - 5..m + 2 + track[m].of.body /\ m - 4 \in m - 5..m + 2 + track[m].of.body
      /\ m - 3 \in m - 5..m + 2 + track[m].of.body /\ m - 1 \in m - 5..m + 2 + track[m].of.body
  BY <1>2, <1>3
<1>7. /\ track[m - 5].t = "sync" /\ track[m - 4].t = "idmark" /\ track[m - 3].t = "header"
      /\ track[m - 1].t = "sync"
  BY <1>2, <1>4 DEF LaidOut, Introduces
<1> QED
  BY <1>2, <1>3, <1>5, <1>6, <1>7

\* Nothing more is owed for a sector that has itself been damaged.
LEMMA OwnDamage ==
  ASSUME NEW d \in DOMAIN track, track[d].read # "good"
  PROVE  Settled(track[d].of)
<1>1. d \in Damaged
  BY DEF Damaged
<1>2. Charged(d, 1, track[d].of)
  BY DEF Charged
<1>3. 1 \in 1..CostOfDamage
  BY DEF CostOfDamage
<1> QED
  BY <1>1, <1>2, <1>3 DEF Settled

\* A sector that begins at or after the start of another one begins after its end.
LEMMA BeginsBehind ==
  ASSUME Whole, NEW m \in DataMarks, NEW x \in Nat, NEW s \in Sector, LaidOut(track, x, s),
         x <= m - 5, m - 5 # x
  PROVE  m - 5 > x + 7 + s.body
<1>1. /\ m - 5 \in Nat /\ track[m].of \in Sector
      /\ LaidOut(track, m - 5, track[m].of)
  BY DataSector
<1>2. s.body \in Nat
  BY DEF Sector
<1>3. ~(m - 5 \in x..x + 7 + s.body)
  BY <1>1, SectorsApart
<1> QED
  BY <1>1, <1>2, <1>3

----------------------------------------------------------------------------
(* ... in FM *)

LEMMA FmSame ==
  ASSUME NEW p, NEW kinds
  PROVE  (FM!Is(p, kinds) <=> Is(p, kinds)) /\ FM!Cell = Cell
BY DEF FM!Is, FM!Good, Is, Good, FM!Cell, Cell, FM!Sector, Sector

\* A read ends at the latest behind a cell that cannot be read.
LEMMA FmReadStops ==
  ASSUME NEW p \in Nat, NEW n \in Nat, NEW next, FM!ReadEnds(FM!Legible, p, n, next)
  PROVE  /\ next \in Nat /\ next <= p + n
         /\ \A z \in Nat : p <= z /\ ~FM!Legible(z) => next <= z + 1
<1>1. CASE /\ \A q \in p..p + n - 1 : FM!Legible(q)
           /\ next = p + n
  <2>1. ASSUME NEW z \in Nat, p <= z, ~FM!Legible(z) PROVE next <= z + 1
    <3>1. ~(z \in p..p + n - 1)
      BY <1>1, <2>1
    <3> QED
      BY <1>1, <2>1, <3>1
  <2> QED
    BY <1>1, <2>1
<1>2. CASE \E q \in p..p + n - 1 :
              /\ ~FM!Legible(q)
              /\ \A r \in p..q - 1 : FM!Legible(r)
              /\ next = q + 1
  <2>1. PICK q \in p..p + n - 1 :
              /\ ~FM!Legible(q)
              /\ \A r \in p..q - 1 : FM!Legible(r)
              /\ next = q + 1
    BY <1>2
  <2>2. q \in Nat
    BY <2>1
  <2>3. ASSUME NEW z \in Nat, p <= z, ~FM!Legible(z) PROVE next <= z + 1
    <3>1. ~(z \in p..q - 1)
      BY <2>1, <2>3
    <3> QED
      BY <2>1, <2>2, <2>3, <3>1
  <2> QED
    BY <2>1, <2>2, <2>3
<1> QED
  BY <1>1, <1>2 DEF FM!ReadEnds

\* An address that is passed over, or cannot be used, is of a damaged sector.
LEMMA FmAddressSettles ==
  ASSUME IndInv, Whole, encoding = "FM", SettledBefore(pos), FM!LookForAddress,
         NEW m \in DataMarks,
         m - 5 < IF state' = "LookingForRecord" THEN began' - 1 ELSE pos'
  PROVE  Settled(track[m].of)
<1>1. PICK p \in pos..Len(track) :
        /\ FM!ScanFor(FM!IdMark, pos, p)
        /\ FM!ReadHeader(p, pos')
        /\ IF FM!HeaderFollows(p)
           THEN state' = "LookingForRecord" /\ began' = p
           ELSE state' = state
  BY DEF FM!LookForAddress
<1>2. state = "LookingForAddress"
  BY DEF FM!LookForAddress
<1>3. /\ pos \in Nat /\ pos >= 1 /\ p \in Nat /\ Len(track) \in Nat
      /\ DOMAIN track = 1..Len(track)
  BY SharedFacts DEF TypeOK, Whole
<1>4. pos' = p + 2
  BY <1>1, <1>3, FmHeaderRead
<1>5. p \in DOMAIN track /\ track[p].t = "idmark" /\ p - 1 >= pos
  BY <1>1, <1>3 DEF FM!ScanFor, FM!IdMark, FM!Mark, FM!Is, FM!Good
<1>6. p - 1 \in Nat /\ track[p].of \in Sector /\ LaidOut(track, p - 1, track[p].of)
  BY <1>5, Placed
<1> DEFINE s == track[m].of
<1>7. /\ m \in Nat /\ m - 5 \in Nat /\ s \in Sector /\ s.body \in Nat \ {0}
      /\ LaidOut(track, m - 5, s)
      /\ m - 5 \in DOMAIN track /\ track[m - 5].t = "sync"
      /\ m - 4 \in DOMAIN track /\ track[m - 4].t = "idmark"
      /\ m - 3 \in DOMAIN track /\ track[m - 3].t = "header"
      /\ \A q \in m - 5..m + 2 + s.body : q \in DOMAIN track /\ track[q].of = s
  BY DataSector
<1> HIDE DEF s
<1>8. track[m - 5].of = s /\ track[m - 4].of = s /\ track[m - 3].of = s
  BY <1>7
<1>9. CASE m - 5 < pos
  BY <1>9 DEF SettledBefore, s
<1>10. CASE m - 5 >= pos /\ m - 4 < p
  <2>1. m - 4 \in pos..p - 1 /\ (m - 4) - 1 = m - 5
    BY <1>3, <1>7, <1>10
  <2>2. ~FM!IdMark(m - 4)
    BY <1>1, <2>1 DEF FM!ScanFor
  <2>3. track[m - 4].read # "good" \/ track[m - 5].read # "good"
    BY <1>7, <1>10, <2>1, <2>2 DEF FM!IdMark, FM!Mark, FM!Is, FM!Good
  <2> QED
    BY <1>7, <1>8, <2>3, OwnDamage DEF s
<1>11. CASE m - 4 = p
  <2>1. ~FM!HeaderFollows(p)
    BY <1>1, <1>3, <1>7, <1>11
  <2>2. m - 3 = p + 1 /\ m - 3 < Len(track)
    <3>1. m \in m - 5..m + 2 + s.body
      BY <1>7
    <3> QED
      BY <1>3, <1>7, <1>11, <3>1
  <2>3. track[m - 3].read # "good"
    BY <1>7, <1>8, <2>1, <2>2
    DEF FM!HeaderFollows, FM!HeaderOK, FM!Legible, FM!Is, FM!Good
  <2> QED
    BY <1>7, <1>8, <2>3, OwnDamage DEF s
<1>12. CASE m - 4 > p
  <2>1. p - 1 <= m - 5 /\ m - 5 # p - 1 /\ track[p].of.body \in Nat
    <3>1. track[p].of.body \in Nat
      BY <1>6 DEF Sector
    <3>2. m - 5 # p
      BY <1>5, <1>7
    <3>3. p < m - 4 /\ m \in Nat /\ p \in Nat
      BY <1>3, <1>7, <1>12
    <3> QED
      BY <3>1, <3>2, <3>3
  <2>2. m - 5 > (p - 1) + 7 + track[p].of.body
    BY <1>6, <2>1, BeginsBehind
  <2> QED
    BY <1>1, <1>2, <1>3, <1>4, <1>7, <2>1, <2>2
<1> QED
  BY <1>3, <1>7, <1>9, <1>10, <1>11, <1>12

\* The sector whose header is being held.
LEMMA FmHeld ==
  ASSUME IndInv, Whole, encoding = "FM", state = "LookingForRecord"
  PROVE  /\ began \in Nat /\ began - 1 \in Nat /\ pos = began + 2
         /\ sec \in Sector /\ sec.body \in Nat \ {0} /\ sec \in OnTrack
         /\ LaidOut(track, began - 1, sec)
         /\ began + 3 \in DOMAIN track /\ track[began + 3].of = sec
         /\ track[began + 2].t = "gap" /\ track[began + 3].t = "sync"
         /\ began + 4 \in DOMAIN track /\ track[began + 4].of = sec
         /\ track[began + 4].t = IF sec.deleted THEN "delmark" ELSE "datamark"
<1>1. began \in Nat /\ sec \in Sector /\ pos = began + 2
  BY SharedFacts DEF IndInv, FmIndInv, FmHeaderJustRead, TypeOK
<1>2. HeaderOf(began, sec)
  <2>1. HeaderOf(began + 0, sec) /\ began + 0 = began
    BY <1>1 DEF IndInv, Found, Lead
  <2> QED
    BY <2>1
<1>3. began \in DOMAIN track /\ track[began].t = "idmark"
  BY <1>2 DEF HeaderOf
<1>4. began - 1 \in Nat /\ Introduces(track, began - 1, sec)
  BY <1>1, <1>2, AroundHeader DEF Whole
<1>5. LaidOut(track, began - 1, sec)
  <2>1. began \in (began - 1)..(began - 1) + 5
    BY <1>1, <1>4
  <2>2. track[began].of = sec
    BY <1>4, <2>1 DEF Introduces
  <2> QED
    BY <1>3, <2>2, Placed
<1>6. sec.body \in Nat \ {0}
  BY <1>1, <1>2 DEF HeaderOf, Sector
<1>7. /\ (began - 1) + 3 = began + 2 /\ (began - 1) + 4 = began + 3
      /\ (began - 1) + 5 = began + 4
      /\ began + 3 \in (began - 1)..(began - 1) + 7 + sec.body
      /\ began + 4 \in (began - 1)..(began - 1) + 7 + sec.body
  BY <1>1, <1>4, <1>6
<1>8. /\ began + 3 \in DOMAIN track /\ track[began + 3].of = sec
      /\ began + 4 \in DOMAIN track /\ track[began + 4].of = sec
  <2>1. ASSUME NEW p \in Nat, NEW q \in p..p + 7 + sec.body, LaidOut(track, p, sec)
        PROVE  q \in DOMAIN track /\ track[q].of = sec
    BY <1>1, <2>1, CellsOf
  <2>2. began + 3 \in DOMAIN track /\ track[began + 3].of = sec
    BY <1>4, <1>5, <1>7, <2>1
  <2>3. began + 4 \in DOMAIN track /\ track[began + 4].of = sec
    BY <1>4, <1>5, <1>7, <2>1
  <2> QED
    BY <2>2, <2>3
<1>9. /\ track[began + 2].t = "gap" /\ track[began + 3].t = "sync"
      /\ track[began + 4].t = IF sec.deleted THEN "delmark" ELSE "datamark"
  BY <1>4, <1>7 DEF Introduces
<1>10. sec \in OnTrack
  BY <1>8 DEF OnTrack
<1> QED
  BY <1>1, <1>4, <1>5, <1>6, <1>8, <1>9, <1>10

\* A mark that the search for a record passes over is of a damaged sector.
LEMMA FmMarkPassed ==
  ASSUME Whole, NEW m \in DataMarks, pos \in Nat, m - 1 >= pos, ~FM!RecordMark(m)
  PROVE  Settled(track[m].of)
<1>1. /\ m \in DOMAIN track /\ track[m].t = "datamark"
      /\ m - 1 \in DOMAIN track /\ track[m - 1].t = "sync" /\ track[m - 1].of = track[m].of
  <2>1. m - 1 \in m - 5..m + 2 + track[m].of.body
    BY DataSector
  <2> QED
    BY <2>1, DataSector DEF DataMarks
<1>2. track[m].read # "good" \/ track[m - 1].read # "good"
  BY <1>1 DEF FM!RecordMark, FM!Mark, FM!Is, FM!Good
<1> QED
  BY <1>1, <1>2, OwnDamage

\* The record of the held header, read from its own mark, is recovered unless
\* something of it is damaged.
LEMMA FmOwnRecord ==
  ASSUME IndInv, Whole, encoding = "FM", state = "LookingForRecord",
         ~sec.deleted, Good(began + 4), ~FM!RecordFollows(began + 4)
  PROVE  Settled(sec)
<1>1. /\ began \in Nat /\ began - 1 \in Nat /\ sec \in Sector /\ sec.body \in Nat \ {0}
      /\ LaidOut(track, began - 1, sec)
      /\ began + 4 \in DOMAIN track /\ track[began + 4].t = "datamark"
  BY FmHeld
<1>2. Len(track) \in Nat /\ DOMAIN track = 1..Len(track)
  BY DEF Whole
<1> SUFFICES ASSUME ~Settled(sec) PROVE FALSE
  OBVIOUS
<1>3. \A q \in began + 4..began + 6 + sec.body :
        q \in DOMAIN track /\ track[q].of = sec /\ track[q].read = "good"
  <2> TAKE q \in began + 4..began + 6 + sec.body
  <2>1. q \in (began - 1)..(began - 1) + 7 + sec.body
    BY <1>1
  <2>2. q \in DOMAIN track /\ track[q].of = sec
    BY <1>1, <2>1, CellsOf
  <2> QED
    BY <2>2, OwnDamage
<1>4. /\ \A k \in 1..sec.body : track[began + 4 + k].t = "body" /\ track[began + 4 + k].k = k
      /\ track[began + 5 + sec.body].t = "crc"
  <2>1. /\ \A k \in 1..sec.body : (began - 1) + 5 + k = began + 4 + k
        /\ (began - 1) + 6 + sec.body = began + 5 + sec.body
    BY <1>1
  <2> QED
    BY <1>1, <2>1 DEF LaidOut
<1>5. FM!Legible(began + 5 + sec.body)
  <2>1. /\ began + 5 + sec.body \in began + 4..began + 6 + sec.body
        /\ began + 6 + sec.body \in began + 4..began + 6 + sec.body
    BY <1>1
  <2>2. began + 5 + sec.body < Len(track)
    BY <1>1, <1>2, <1>3, <2>1
  <2> QED
    BY <1>3, <1>4, <2>1, <2>2 DEF FM!Legible
<1>6. FM!BodyOK(began + 5, sec.body)
  <2>1. began + 5 + sec.body \in began + 4..began + 6 + sec.body
    BY <1>1
  <2>2. FM!Is(began + 5 + sec.body, {"crc"}) /\ track[began + 5 + sec.body].of = sec
    BY <1>3, <1>4, <2>1 DEF FM!Is, FM!Good
  <2>3. ASSUME NEW k \in 1..sec.body
        PROVE  /\ FM!Is(began + 5 + k - 1, {"body"})
               /\ track[began + 5 + k - 1].of = sec /\ track[began + 5 + k - 1].k = k
    <3>1. /\ began + 5 + k - 1 = began + 4 + k
          /\ began + 4 + k \in began + 4..began + 6 + sec.body
      BY <1>1
    <3> QED
      BY <1>3, <1>4, <3>1 DEF FM!Is, FM!Good
  <2> QED
    BY <2>2, <2>3 DEF FM!BodyOK
<1>7. FM!Is(began + 4, {"datamark"})
  BY <1>1 DEF FM!Is, FM!Good, Good
<1>8. began + 4 + 1 + sec.body = began + 5 + sec.body /\ began + 4 + 1 = began + 5
  BY <1>1
<1> QED
  BY <1>5, <1>6, <1>7, <1>8 DEF FM!RecordFollows

\* When a record is read, every sector before its end is recovered or paid for.
LEMMA FmRecordSettles ==
  ASSUME IndInv, Whole, encoding = "FM", SettledBefore(began - 1), FM!LookForRecord,
         NEW m \in DataMarks, m - 5 < pos'
  PROVE  Settled(track[m].of) \/ track[m].of \in Recovered'
<1>1. PICK p \in pos..Len(track) :
        /\ FM!ScanFor(FM!RecordMark, pos, p)
        /\ FM!ReadRecord(p, pos')
        /\ result' = IF FM!RecordFollows(p)
                     THEN Append(result, FM!Decoded(p + 1, sec.body, p))
                     ELSE result
  BY DEF FM!LookForRecord
<1>2. state = "LookingForRecord"
  BY DEF FM!LookForRecord
<1>3. /\ began \in Nat /\ began - 1 \in Nat /\ pos = began + 2
      /\ sec \in Sector /\ sec.body \in Nat \ {0} /\ sec \in OnTrack
      /\ LaidOut(track, began - 1, sec)
      /\ began + 3 \in DOMAIN track /\ track[began + 3].of = sec
      /\ track[began + 2].t = "gap" /\ track[began + 3].t = "sync"
      /\ began + 4 \in DOMAIN track /\ track[began + 4].of = sec
      /\ track[began + 4].t = IF sec.deleted THEN "delmark" ELSE "datamark"
  BY <1>2, FmHeld
<1>4. p \in Nat /\ p >= began + 2 /\ Len(track) \in Nat /\ DOMAIN track = 1..Len(track)
  BY <1>1, <1>3 DEF Whole
<1>5. /\ FM!RecordMark(p) /\ p \in DOMAIN track /\ track[p].t \in {"datamark", "delmark"}
      /\ p - 1 >= pos /\ Is(p, {"datamark", "delmark"}) /\ Is(p - 1, {"sync"})
  <2>1. FM!RecordMark(p)
    BY <1>1 DEF FM!ScanFor
  <2> QED
    BY <2>1 DEF FM!RecordMark, FM!Mark, FM!Is, FM!Good, Is, Good
<1>6. \A r \in pos..p - 1 : ~FM!RecordMark(r)
  BY <1>1 DEF FM!ScanFor
<1>7. /\ pos' \in Nat /\ pos' <= p + 2 + sec.body
      /\ \A z \in Nat : p < z /\ ~FM!Legible(z) => pos' <= z + 1
  <2>1. p + 1 \in Nat /\ sec.body + 1 \in Nat /\ p + 1 + (sec.body + 1) = p + 2 + sec.body
        /\ \A z \in Nat : p < z => p + 1 <= z
    <3>1. sec.body \in Nat /\ p \in Nat
      BY <1>3, <1>4
    <3> QED
      BY <3>1
  <2> QED
    BY <1>1, <2>1, FmReadStops DEF FM!ReadRecord
<1>8. p >= began + 4
  BY <1>3, <1>4, <1>5
<1> DEFINE s == track[m].of
<1>9. /\ m \in Nat /\ m - 5 \in Nat /\ s \in Sector /\ LaidOut(track, m - 5, s)
      /\ m - 4 \in DOMAIN track /\ track[m - 4].t = "idmark" /\ track[m - 4].of = s
      /\ track[m - 5].t = "sync"
      /\ m \in DOMAIN track /\ track[m].t = "datamark"
  <2>1. m - 4 \in m - 5..m + 2 + s.body
    <3>1. m \in Nat /\ s.body \in Nat
      BY DataSector
    <3> QED
      BY <3>1
  <2> QED
    BY <2>1, DataSector DEF DataMarks
<1> HIDE DEF s
<1>10. CASE m - 5 < began - 1
  BY <1>10 DEF SettledBefore, s
<1>11. CASE m = began + 4
  <2>1. s = sec
    BY <1>3, <1>11 DEF s
  <2>2. ~sec.deleted
    BY <1>3, <1>9, <1>11
  <2>3. CASE p = began + 4
    <3>1. Good(began + 4)
      BY <1>5, <2>3 DEF Is
    <3>2. CASE FM!RecordFollows(p)
      <4> DEFINE d == FM!Decoded(p + 1, sec.body, p)
      <4>1. result' = Append(result, d)
        BY <1>1, <3>2
      <4>2. d.address = sec /\ d.data = sec
        <5>1. /\ p + 1 + sec.body = (began - 1) + 6 + sec.body
              /\ p + 1 + sec.body \in (began - 1)..(began - 1) + 7 + sec.body
          BY <1>3, <2>3
        <5>2. track[p + 1 + sec.body].of = sec
          BY <1>3, <5>1, CellsOf
        <5> QED
          BY <5>2 DEF FM!Decoded
      <4> HIDE DEF d
      <4>3. Len(result) + 1 \in DOMAIN result' /\ result'[Len(result) + 1] = d
        <5>1. result \in Seq(Positions)
          BY SharedFacts DEF TypeOK
        <5> QED
          BY <4>1, <5>1
      <4> QED
        BY <2>1, <4>2, <4>3 DEF Recovered, s
    <3>3. CASE ~FM!RecordFollows(p)
      BY <1>2, <2>1, <2>2, <2>3, <3>1, <3>3, FmOwnRecord DEF s
    <3> QED
      BY <3>2, <3>3
  <2>4. CASE p > began + 4
    <3>1. ~FM!RecordMark(m)
      BY <1>3, <1>4, <1>6, <1>11, <2>4
    <3> QED
      BY <1>3, <1>9, <1>11, <3>1, FmMarkPassed DEF s
  <2> QED
    BY <1>3, <1>4, <1>8, <2>3, <2>4
\* The sector begins behind the held header's.
<1>12. CASE m - 5 > began - 1
  <2>1. m - 5 > (began - 1) + 7 + sec.body
    BY <1>3, <1>9, <1>12, BeginsBehind
  <2>2. p # began + 4
    <3> SUFFICES ASSUME p = began + 4 PROVE FALSE
      OBVIOUS
    <3>1. began \in Nat /\ sec.body \in Nat /\ m \in Nat /\ pos' \in Nat
      BY <1>3, <1>7, <1>9
    <3>2. pos' <= p + 2 + sec.body
      BY <1>7
    <3> QED
      BY <2>1, <3>1, <3>2
  <2>3. p > began + 4
    BY <1>3, <1>4, <1>8, <2>2
  <2>4. CASE m < p
    <3>1. ~FM!RecordMark(m) /\ m - 1 >= pos
      BY <1>3, <1>4, <1>6, <1>9, <1>12, <2>4
    <3> QED
      BY <1>3, <3>1, FmMarkPassed DEF s
  \* The mark of the held header's record is damaged, and p is the next one.
  <2>5. PICK d \in {began + 3, began + 4} : track[d].read # "good"
    <3>1. ~FM!RecordMark(began + 4)
      BY <1>3, <1>4, <1>6, <2>3
    <3> QED
      BY <1>3, <3>1 DEF FM!RecordMark, FM!Mark, FM!Is, FM!Good
  <2>6. d \in Damaged /\ d \in Nat /\ pos < d /\ d < p
    BY <1>3, <1>4, <2>3, <2>5 DEF Damaged
  <2>7. NextIn(Announced, d, p)
    <3>1. p \in ReadableMarks
      BY <1>5 DEF ReadableMarks
    <3>2. ASSUME NEW r \in ReadableMarks, d < r, r < p PROVE FALSE
      <4>1. r \in Nat /\ r \in pos..p - 1 /\ r - 1 >= pos
        BY <1>3, <1>4, <2>6, <3>2 DEF ReadableMarks
      <4>2. FM!RecordMark(r)
        BY <4>1 DEF ReadableMarks, FM!RecordMark, FM!Mark, FM!Is, FM!Good, Is, Good
      <4> QED
        BY <1>6, <4>1, <4>2
    <3>3. \A r \in ReadableMarks : d < r => p <= r
      BY <1>4, <3>2 DEF ReadableMarks
    <3> QED
      BY <2>6, <3>1, <3>3 DEF NextIn, Announced
  <2>8. CASE m = p
    <3>1. Charged(d, 2, s)
      BY <1>4, <2>7, <2>8 DEF Charged, s
    <3>2. 2 \in 1..CostOfDamage
      BY DEF CostOfDamage
    <3> QED
      BY <2>6, <3>1, <3>2 DEF Settled, s
  \* It begins behind the record read at p, but that was read too far.
  <2>9. CASE m > p
    <3>1. /\ p - 5 \in Nat /\ track[p].of \in Sector /\ track[p].of.body \in Nat
          /\ LaidOut(track, p - 5, track[p].of) /\ track[p].of \in OnTrack
      <4>1. p - 5 \in Nat /\ track[p].of \in Sector /\ LaidOut(track, p - 5, track[p].of)
        BY <1>5, Placed
      <4> QED
        BY <1>5, <4>1 DEF Sector, OnTrack
    <3>2. m - 5 > (p - 5) + 7 + track[p].of.body
      <4>1. p - 5 <= m - 5 /\ m - 5 # p - 5
        BY <1>4, <1>9, <2>9
      <4> QED
        BY <3>1, <4>1, BeginsBehind
    <3>3. ~OneSize
      <4> SUFFICES ASSUME OneSize PROVE FALSE
        OBVIOUS
      <4>1. track[p].of.body = sec.body
        BY <1>3, <3>1 DEF OneSize
      <4> QED
        BY <1>3, <1>4, <1>7, <1>9, <3>1, <3>2, <4>1
    <3>4. NextIn(IdMarks, p, m - 4)
      <4>1. m - 4 \in IdMarks /\ p < m - 4 /\ m - 4 \in Nat
        BY <1>4, <1>9, <3>1, <3>2 DEF IdMarks
      <4>2. ASSUME NEW r \in IdMarks, p < r, r < m - 4 PROVE FALSE
        <5>1. r \in Nat /\ track[r].t = "idmark"
          BY <1>4 DEF IdMarks
        <5>2. pos' <= r + 1
          BY <1>7, <4>2, <5>1 DEF FM!Legible
        <5>3. r = m - 5
          BY <1>7, <1>9, <4>2, <5>1, <5>2
        <5> QED
          BY <1>9, <5>1, <5>3
      <4>3. \A r \in IdMarks : p < r => m - 4 <= r
        BY <1>4, <4>1, <4>2 DEF IdMarks
      <4> QED
        BY <4>1, <4>3 DEF NextIn
    <3>5. Charged(d, 3, s)
      <4>1. m - 4 \in Nat
        BY <1>4, <1>9
      <4> QED
        BY <1>4, <1>9, <2>7, <3>4, <4>1 DEF Charged
    <3>6. 3 \in 1..CostOfDamage
      BY <3>3 DEF CostOfDamage
    <3> QED
      BY <2>6, <3>5, <3>6 DEF Settled, s
  <2> QED
    BY <1>4, <1>9, <2>4, <2>8, <2>9
<1> QED
  BY <1>3, <1>9, <1>10, <1>11, <1>12 DEF s

\* When the track ends, so does what is left of it without a readable mark.
LEMMA FmEndSettles ==
  ASSUME IndInv, Whole, encoding = "FM", LossInv, FM!TrackEnds, NEW m \in DataMarks
  PROVE  Settled(track[m].of)
<1>1. /\ m \in DOMAIN track /\ m \in Nat /\ m - 5 \in Nat /\ track[m].of \in Sector
      /\ LaidOut(track, m - 5, track[m].of)
      /\ m - 5 \in DOMAIN track /\ track[m - 5].t = "sync" /\ track[m - 5].of = track[m].of
      /\ m - 4 \in DOMAIN track /\ track[m - 4].t = "idmark" /\ track[m - 4].of = track[m].of
  <2>1. m - 4 \in m - 5..m + 2 + track[m].of.body /\ m - 5 \in m - 5..m + 2 + track[m].of.body
    BY DataSector
  <2> QED
    BY <2>1, DataSector DEF DataMarks
<1>2. /\ pos \in Nat /\ Len(track) \in Nat /\ DOMAIN track = 1..Len(track) /\ pos >= 1
  BY SharedFacts DEF TypeOK, Whole
<1>3. CASE state = "LookingForAddress"
  <2>1. CASE m - 5 < pos
    BY <1>3, <2>1 DEF LossInv, SettledBefore
  <2>2. CASE m - 5 >= pos
    <3>1. m - 4 \in pos..Len(track) /\ (m - 4) - 1 = m - 5
      BY <1>1, <1>2, <2>2
    <3>2. ~FM!IdMark(m - 4)
      BY <1>3, <3>1 DEF FM!TrackEnds, FM!ScanFails
    <3>3. track[m - 4].read # "good" \/ track[m - 5].read # "good"
      BY <1>1, <2>2, <3>1, <3>2 DEF FM!IdMark, FM!Mark, FM!Is, FM!Good
    <3> QED
      BY <1>1, <3>3, OwnDamage
  <2> QED
    BY <1>1, <1>2, <2>1, <2>2
<1>4. CASE state = "LookingForRecord"
  <2>1. began \in Nat /\ began - 1 \in Nat /\ pos = began + 2
    BY <1>4, FmHeld
  <2>2. CASE m - 5 < began - 1
    <3>1. began + Lead - 1 = began - 1
      BY <2>1 DEF Lead
    <3> QED
      BY <1>4, <2>2, <3>1 DEF LossInv, SettledBefore
  <2>3. CASE m - 5 >= began - 1
    <3>1. m - 1 >= pos /\ m \in pos..Len(track)
      BY <1>1, <1>2, <2>1, <2>3
    <3>2. ~FM!RecordMark(m)
      BY <1>4, <3>1 DEF FM!TrackEnds, FM!ScanFails
    <3> QED
      BY <1>2, <3>1, <3>2, FmMarkPassed
  <2> QED
    BY <1>1, <2>1, <2>2, <2>3
<1> QED
  BY <1>3, <1>4 DEF FM!TrackEnds

----------------------------------------------------------------------------
(* ... in MFM *)

\* A read ends at the latest behind a cell that cannot be read.
LEMMA MfmReadStops ==
  ASSUME NEW p \in Nat, NEW n \in Nat, NEW next, MFM!ReadEnds(MFM!Legible, p, n, next)
  PROVE  /\ next \in Nat /\ next <= p + n
         /\ \A z \in Nat : p <= z /\ ~MFM!Legible(z) => next <= z + 1
<1>1. CASE /\ \A q \in p..p + n - 1 : MFM!Legible(q)
           /\ next = p + n
  <2>1. ASSUME NEW z \in Nat, p <= z, ~MFM!Legible(z) PROVE next <= z + 1
    <3>1. ~(z \in p..p + n - 1)
      BY <1>1, <2>1
    <3> QED
      BY <1>1, <2>1, <3>1
  <2> QED
    BY <1>1, <2>1
<1>2. CASE \E q \in p..p + n - 1 :
              /\ ~MFM!Legible(q)
              /\ \A r \in p..q - 1 : MFM!Legible(r)
              /\ next = q + 1
  <2>1. PICK q \in p..p + n - 1 :
              /\ ~MFM!Legible(q)
              /\ \A r \in p..q - 1 : MFM!Legible(r)
              /\ next = q + 1
    BY <1>2
  <2>2. q \in Nat
    BY <2>1
  <2>3. ASSUME NEW z \in Nat, p <= z, ~MFM!Legible(z) PROVE next <= z + 1
    <3>1. ~(z \in p..q - 1)
      BY <2>1, <2>3
    <3> QED
      BY <2>1, <2>2, <2>3, <3>1
  <2> QED
    BY <2>1, <2>2, <2>3
<1> QED
  BY <1>1, <1>2 DEF MFM!ReadEnds

\* Nothing is owed for a sector whose first sync the search passes over.
LEMMA MfmSyncPassed ==
  ASSUME Whole, NEW m \in DataMarks, ~MFM!Sync(m - 5)
  PROVE  Settled(track[m].of)
<1>1. m - 5 \in DOMAIN track /\ track[m - 5].t = "sync" /\ track[m - 5].of = track[m].of
  <2>1. m - 5 \in m - 5..m + 2 + track[m].of.body
    <3>1. m \in Nat /\ track[m].of.body \in Nat
      BY DataSector
    <3> QED
      BY <3>1
  <2> QED
    BY <2>1, DataSector
<1>2. track[m - 5].read # "good"
  BY <1>1 DEF MFM!Sync, MFM!Is, MFM!Good
<1> QED
  BY <1>1, <1>2, OwnDamage

\* An address that is passed over, or cannot be used, is of a damaged sector.
LEMMA MfmAddressSettles ==
  ASSUME IndInv, Whole, encoding = "MFM", SettledBefore(pos), MFM!LookForSectorHeader,
         NEW m \in DataMarks,
         m - 5 < IF state' = "LookingForRecord" THEN began' ELSE pos'
  PROVE  Settled(track[m].of)
<1>1. PICK p \in pos..Len(track) :
        /\ MFM!ScanFor(MFM!Sync, pos, p)
        /\ MFM!ReadHeader(p, pos')
        /\ IF MFM!HeaderFollows(p)
           THEN state' = "LookingForRecord" /\ began' = p
           ELSE state' = state
  BY DEF MFM!LookForSectorHeader
<1>2. state = "LookingForAddress"
  BY DEF MFM!LookForSectorHeader
<1>3. /\ pos \in Nat /\ pos >= 1 /\ p \in Nat /\ Len(track) \in Nat
      /\ DOMAIN track = 1..Len(track)
  BY SharedFacts DEF TypeOK, Whole
<1>4. pos' \in Nat /\ pos' <= p + 3
  <2>1. p + 1 \in Nat /\ 2 \in Nat /\ p + 1 + 2 = p + 3
    BY <1>3
  <2> QED
    BY <1>1, <2>1, MfmReadStops DEF MFM!ReadHeader
<1>5. p \in DOMAIN track /\ track[p].t = "sync"
  BY <1>1, <1>3 DEF MFM!ScanFor, MFM!Sync, MFM!Is, MFM!Good
<1> DEFINE s == track[m].of
<1>6. m \in Nat /\ m - 5 \in Nat /\ s \in Sector /\ s.body \in Nat \ {0}
  BY DataSector
<1>7. /\ LaidOut(track, m - 5, s)
      /\ m - 4 \in DOMAIN track /\ track[m - 4].t = "idmark" /\ track[m - 4].of = s
      /\ m - 3 \in DOMAIN track /\ track[m - 3].t = "header" /\ track[m - 3].of = s
      /\ m \in DOMAIN track
  <2>1. /\ m - 4 \in m - 5..m + 2 + s.body /\ m - 3 \in m - 5..m + 2 + s.body
        /\ m \in m - 5..m + 2 + s.body
    BY <1>6
  <2> QED
    BY <2>1, DataSector
<1> HIDE DEF s
<1>8. CASE m - 5 < pos
  BY <1>8 DEF SettledBefore, s
<1>9. CASE m - 5 >= pos /\ m - 5 < p
  <2>1. ~MFM!Sync(m - 5)
    BY <1>1, <1>3, <1>6, <1>9 DEF MFM!ScanFor
  <2> QED
    BY <2>1, MfmSyncPassed DEF s
<1>10. CASE m - 5 = p
  <2>1. ~MFM!HeaderFollows(p)
    BY <1>1, <1>3, <1>6, <1>10
  <2>2. m - 3 = p + 2 /\ m - 4 = p + 1 /\ m - 3 < Len(track)
    BY <1>3, <1>6, <1>7, <1>10
  <2>3. track[m - 3].read # "good" \/ track[m - 4].read # "good"
    BY <1>6, <1>7, <2>1, <2>2
    DEF MFM!HeaderFollows, MFM!HeaderOK, MFM!Legible, MFM!Is, MFM!Good
  <2> QED
    BY <1>7, <2>3, OwnDamage DEF s
\* The two cells behind the sync belong to the same sector as the sync.
<1>11. CASE m - 5 > p
  <2>1. track[p].of \in Sector /\ track[p].of.body \in Nat
    BY <1>5, Placed DEF Sector
  <2>2. CASE LaidOut(track, p, track[p].of)
    <3>1. p <= m - 5 /\ m - 5 # p
      BY <1>3, <1>6, <1>11
    <3>2. m - 5 > p + 7 + track[p].of.body
      BY <1>3, <2>1, <2>2, <3>1, BeginsBehind
    <3> QED
      BY <1>1, <1>2, <1>3, <1>4, <1>6, <2>1, <3>2
  <2>3. CASE p - 4 \in Nat /\ LaidOut(track, p - 4, track[p].of)
    <3>1. p - 4 <= m - 5 /\ m - 5 # p - 4
      BY <1>3, <1>6, <1>11
    <3>2. m - 5 > (p - 4) + 7 + track[p].of.body
      BY <1>3, <2>1, <2>3, <3>1, BeginsBehind
    <3> QED
      BY <1>1, <1>2, <1>3, <1>4, <1>6, <2>1, <3>2
  <2> QED
    BY <1>5, <2>2, <2>3, Placed
<1> QED
  BY <1>3, <1>6, <1>8, <1>9, <1>10, <1>11

\* The sector whose header is being held.
LEMMA MfmHeld ==
  ASSUME IndInv, Whole, encoding = "MFM", state = "LookingForRecord"
  PROVE  /\ began \in Nat /\ began < pos /\ \A q \in began + 1..pos - 1 : ~MFM!Sync(q)
         /\ sec \in Sector /\ sec.body \in Nat \ {0}
         /\ LaidOut(track, began, sec)
         /\ \A q \in began..began + 7 + sec.body : q \in DOMAIN track /\ track[q].of = sec
<1>1. /\ began \in Nat /\ sec \in Sector
      /\ began < pos /\ \A q \in began + 1..pos - 1 : ~MFM!Sync(q)
  BY SharedFacts DEF IndInv, MfmIndInv, MfmHeaderJustRead, TypeOK
<1>2. HeaderOf(began + 1, sec)
  BY DEF IndInv, Found, Lead
<1>3. Introduces(track, began, sec)
  <2>1. Introduces(track, (began + 1) - 1, sec) /\ (began + 1) - 1 = began
    BY <1>1, <1>2, AroundHeader DEF Whole
  <2> QED
    BY <2>1
<1>4. began + 1 \in DOMAIN track /\ track[began + 1].t = "idmark" /\ track[began + 1].of = sec
  <2>1. began + 1 \in began..began + 5
    BY <1>1
  <2> QED
    BY <1>2, <1>3, <2>1 DEF HeaderOf, Introduces
<1>5. LaidOut(track, began, sec)
  <2>1. LaidOut(track, (began + 1) - 1, sec) /\ (began + 1) - 1 = began
    BY <1>1, <1>4, Placed
  <2> QED
    BY <2>1
<1>6. sec.body \in Nat \ {0}
  BY <1>1, <1>2 DEF HeaderOf, Sector
<1>7. \A q \in began..began + 7 + sec.body : q \in DOMAIN track /\ track[q].of = sec
  BY <1>1, <1>5, CellsOf
<1> QED
  BY <1>1, <1>5, <1>6, <1>7

\* The record of the held header, read from its own sync, is recovered unless
\* something of it is damaged.
LEMMA MfmOwnRecord ==
  ASSUME IndInv, Whole, encoding = "MFM", state = "LookingForRecord",
         ~sec.deleted, ~MFM!RecordFollows(began + 4)
  PROVE  Settled(sec)
<1>1. /\ began \in Nat /\ sec \in Sector /\ sec.body \in Nat \ {0}
      /\ LaidOut(track, began, sec)
      /\ \A q \in began..began + 7 + sec.body : q \in DOMAIN track /\ track[q].of = sec
  BY MfmHeld
<1>2. Len(track) \in Nat /\ DOMAIN track = 1..Len(track)
  BY DEF Whole
<1> SUFFICES ASSUME ~Settled(sec) PROVE FALSE
  OBVIOUS
<1>3. \A q \in began..began + 7 + sec.body :
        q \in DOMAIN track /\ track[q].of = sec /\ track[q].read = "good"
  BY <1>1, OwnDamage
<1>4. /\ track[began + 5].t = "datamark"
      /\ \A k \in 1..sec.body : track[began + 5 + k].t = "body" /\ track[began + 5 + k].k = k
      /\ track[began + 6 + sec.body].t = "crc"
  BY <1>1 DEF LaidOut, Introduces
<1>5. MFM!Legible(began + 6 + sec.body)
  <2>1. /\ began + 6 + sec.body \in began..began + 7 + sec.body
        /\ began + 7 + sec.body \in began..began + 7 + sec.body
    BY <1>1
  <2>2. began + 6 + sec.body < Len(track)
    BY <1>1, <1>2, <2>1
  <2> QED
    BY <1>3, <1>4, <2>1, <2>2 DEF MFM!Legible
<1>6. MFM!BodyOK(began + 6, sec.body)
  <2>1. began + 6 + sec.body \in began..began + 7 + sec.body
    BY <1>1
  <2>2. MFM!Is(began + 6 + sec.body, {"crc"}) /\ track[began + 6 + sec.body].of = sec
    BY <1>3, <1>4, <2>1 DEF MFM!Is, MFM!Good
  <2>3. ASSUME NEW k \in 1..sec.body
        PROVE  /\ MFM!Is(began + 6 + k - 1, {"body"})
               /\ track[began + 6 + k - 1].of = sec /\ track[began + 6 + k - 1].k = k
    <3>1. /\ began + 6 + k - 1 = began + 5 + k
          /\ began + 5 + k \in began..began + 7 + sec.body
      BY <1>1
    <3> QED
      BY <1>3, <1>4, <3>1 DEF MFM!Is, MFM!Good
  <2> QED
    BY <2>2, <2>3 DEF MFM!BodyOK
<1>7. MFM!Is(began + 5, {"datamark"})
  <2>1. began + 5 \in began..began + 7 + sec.body
    BY <1>1
  <2> QED
    BY <1>3, <1>4, <2>1 DEF MFM!Is, MFM!Good
<1>8. /\ began + 4 + 2 + sec.body = began + 6 + sec.body /\ began + 4 + 2 = began + 6
      /\ began + 4 + 1 = began + 5
  BY <1>1
<1> QED
  BY <1>5, <1>6, <1>7, <1>8 DEF MFM!RecordFollows

\* When a record is read, every sector before its end is recovered or paid for.
LEMMA MfmRecordSettles ==
  ASSUME IndInv, Whole, encoding = "MFM", SettledBefore(began), MFM!LookForRecord,
         NEW m \in DataMarks, m - 5 < pos'
  PROVE  Settled(track[m].of) \/ track[m].of \in Recovered'
<1>1. PICK p \in pos..Len(track) :
        /\ MFM!ScanFor(MFM!Sync, pos, p)
        /\ MFM!ReadRecord(p, pos')
        /\ result' = IF MFM!RecordFollows(p)
                     THEN Append(result, MFM!Decoded(p + 2, sec.body, p))
                     ELSE result
  BY DEF MFM!LookForRecord
<1>2. state = "LookingForRecord"
  BY DEF MFM!LookForRecord
<1>3. /\ began \in Nat /\ began < pos /\ \A q \in began + 1..pos - 1 : ~MFM!Sync(q)
      /\ sec \in Sector /\ sec.body \in Nat \ {0}
      /\ LaidOut(track, began, sec)
      /\ \A q \in began..began + 7 + sec.body : q \in DOMAIN track /\ track[q].of = sec
  BY <1>2, MfmHeld
<1>4. /\ pos \in Nat /\ p \in Nat /\ p > began
      /\ Len(track) \in Nat /\ DOMAIN track = 1..Len(track)
  BY <1>3, SharedFacts DEF TypeOK, Whole
<1>5. MFM!Sync(p) /\ p \in DOMAIN track /\ track[p].t = "sync" /\ Is(p, {"sync"})
  <2>1. MFM!Sync(p)
    BY <1>1 DEF MFM!ScanFor
  <2> QED
    BY <2>1 DEF MFM!Sync, MFM!Is, MFM!Good, Is, Good
<1>6. \A r \in began + 1..p - 1 : ~MFM!Sync(r)
  <2> TAKE r \in began + 1..p - 1
  <2>1. r \in began + 1..pos - 1 \/ r \in pos..p - 1
    BY <1>3, <1>4
  <2> QED
    BY <1>1, <1>3, <2>1 DEF MFM!ScanFor
<1>7. /\ pos' \in Nat /\ pos' <= p + 3 + sec.body
      /\ \A z \in Nat : p < z /\ ~MFM!Legible(z) => pos' <= z + 1
  <2>1. sec.body \in Nat /\ p \in Nat
    BY <1>3, <1>4
  <2>2. p + 1 \in Nat /\ sec.body + 2 \in Nat /\ p + 1 + (sec.body + 2) = p + 3 + sec.body
        /\ \A z \in Nat : p < z => p + 1 <= z
    BY <2>1
  <2> QED
    BY <1>1, <2>2, MfmReadStops DEF MFM!ReadRecord
<1>8. p >= began + 4
  <2> SUFFICES ASSUME p < began + 4 PROVE FALSE
    BY <1>3, <1>4
  <2>1. p \in began..began + 7 + sec.body /\ p # began /\ p # began + 4
    BY <1>3, <1>4
  <2> QED
    BY <1>3, <1>5, <2>1, CellsOf
<1>9. /\ began + 4 \in DOMAIN track /\ track[began + 4].t = "sync" /\ track[began + 4].of = sec
      /\ track[began + 5].t = IF sec.deleted THEN "delmark" ELSE "datamark"
  <2>1. began + 4 \in began..began + 7 + sec.body
    BY <1>3
  <2> QED
    BY <1>3, <2>1 DEF LaidOut, Introduces
<1> DEFINE s == track[m].of
<1>10. /\ m \in Nat /\ m - 5 \in Nat /\ s \in Sector /\ LaidOut(track, m - 5, s)
       /\ m - 4 \in DOMAIN track /\ track[m - 4].t = "idmark" /\ track[m - 4].of = s
       /\ track[m - 5].t = "sync"
       /\ m \in DOMAIN track /\ track[m].t = "datamark"
  <2>1. m - 4 \in m - 5..m + 2 + s.body
    <3>1. m \in Nat /\ s.body \in Nat
      BY DataSector
    <3> QED
      BY <3>1
  <2> QED
    BY <2>1, DataSector DEF DataMarks
<1> HIDE DEF s
<1>11. CASE m - 5 < began
  BY <1>11 DEF SettledBefore, s
<1>12. CASE m - 5 = began
  <2>1. m = began + 5
    BY <1>3, <1>10, <1>12
  <2>2. s = sec
    <3>1. m \in began..began + 7 + sec.body
      BY <1>3, <2>1
    <3> QED
      BY <1>3, <3>1 DEF s
  <2>3. ~sec.deleted
    BY <1>9, <1>10, <2>1
  <2>4. CASE p = began + 4
    <3>1. CASE MFM!RecordFollows(p)
      <4> DEFINE d == MFM!Decoded(p + 2, sec.body, p)
      <4>1. result' = Append(result, d)
        BY <1>1, <3>1
      <4>2. d.address = sec /\ d.data = sec
        <5>1. p + 2 + sec.body \in began..began + 7 + sec.body
          BY <1>3, <2>4
        <5>2. track[p + 2 + sec.body].of = sec
          BY <1>3, <5>1
        <5> QED
          BY <5>2 DEF MFM!Decoded
      <4> HIDE DEF d
      <4>3. Len(result) + 1 \in DOMAIN result' /\ result'[Len(result) + 1] = d
        <5>1. result \in Seq(Positions)
          BY SharedFacts DEF TypeOK
        <5> QED
          BY <4>1, <5>1
      <4> QED
        BY <2>2, <4>2, <4>3 DEF Recovered, s
    <3>2. CASE ~MFM!RecordFollows(p)
      BY <1>2, <2>2, <2>3, <2>4, <3>2, MfmOwnRecord DEF s
    <3> QED
      BY <3>1, <3>2
  <2>5. CASE p > began + 4
    <3>1. ~MFM!Sync(began + 4)
      BY <1>3, <1>4, <1>6, <2>5
    <3>2. track[began + 4].read # "good"
      BY <1>9, <3>1 DEF MFM!Sync, MFM!Is, MFM!Good
    <3> QED
      BY <1>9, <2>2, <3>2, OwnDamage DEF s
  <2> QED
    BY <1>3, <1>4, <1>8, <2>4, <2>5
\* The sector begins behind the held header's.
<1>13. CASE m - 5 > began
  <2>1. m - 5 > began + 7 + sec.body
    <3>1. began <= m - 5 /\ m - 5 # began
      BY <1>3, <1>10, <1>13
    <3> QED
      BY <1>3, <3>1, BeginsBehind
  <2>2. p > began + 4
    <3> SUFFICES ASSUME p = began + 4 PROVE FALSE
      BY <1>3, <1>4, <1>8
    <3>1. began \in Nat /\ sec.body \in Nat /\ m \in Nat /\ pos' \in Nat
      BY <1>3, <1>7, <1>10
    <3>2. pos' <= p + 3 + sec.body
      BY <1>7
    <3> QED
      BY <2>1, <3>1, <3>2
  <2>3. CASE m - 5 < p
    <3>1. ~MFM!Sync(m - 5)
      BY <1>3, <1>4, <1>6, <1>10, <1>13, <2>3
    <3> QED
      BY <3>1, MfmSyncPassed DEF s
  \* The sync of the held header's record is damaged, and p is the next one.
  <2>4. CASE m - 5 >= p
    <3>1. began + 4 \in Damaged
      <4>1. ~MFM!Sync(began + 4)
        BY <1>3, <1>4, <1>6, <2>2
      <4> QED
        BY <1>9, <4>1 DEF MFM!Sync, MFM!Is, MFM!Good, Damaged
    <3>2. NextIn(Announced, began + 4, p)
      <4>1. p \in ReadableSyncs
        BY <1>5 DEF ReadableSyncs
      <4>2. ASSUME NEW r \in ReadableSyncs, began + 4 < r PROVE p <= r
        <5>1. MFM!Sync(r) /\ r \in Nat
          BY <1>4 DEF ReadableSyncs, MFM!Sync, MFM!Is, MFM!Good, Is, Good
        <5>2. ~(r \in began + 1..p - 1)
          BY <1>6, <5>1
        <5> QED
          BY <1>3, <1>4, <4>2, <5>1, <5>2
      <4>3. began + 4 < p
        BY <2>2
      <4> QED
        BY <4>1, <4>2, <4>3 DEF NextIn, Announced
    \* Any address mark between would be followed by a sync that ends the reading.
    <3>3. NextIn(IdMarks, p, m - 4)
      <4>1. m - 4 \in IdMarks /\ p < m - 4 /\ m - 4 \in Nat
        BY <1>4, <1>10, <2>4 DEF IdMarks
      <4>2. ASSUME NEW r \in IdMarks, p < r, r < m - 4 PROVE FALSE
        <5>1. r \in Nat /\ r \in DOMAIN track /\ track[r].t = "idmark"
          BY <1>4 DEF IdMarks
        <5>2. /\ r - 1 \in Nat /\ LaidOut(track, r - 1, track[r].of)
              /\ track[r].of \in Sector /\ track[r].of.body \in Nat
          BY <5>1, Placed DEF Sector
        <5>3. r # m - 5
          BY <1>10, <5>1
        <5>4. r - 1 <= m - 5 /\ m - 5 # r - 1
          BY <1>10, <4>2, <5>1, <5>2, <5>3
        <5>5. m - 5 > (r - 1) + 7 + track[r].of.body
          BY <5>2, <5>4, BeginsBehind
        <5>6. track[r + 3].t = "sync"
          <6>1. (r - 1) + 4 = r + 3
            BY <5>1, <5>2
          <6> QED
            BY <5>2, <6>1 DEF LaidOut, Introduces
        <5>7. pos' <= (r + 3) + 1
          <6>1. r + 3 \in Nat /\ p < r + 3
            BY <1>4, <4>2, <5>1
          <6> QED
            BY <1>7, <5>6, <6>1 DEF MFM!Legible
        <5>8. pos' \in Nat /\ m \in Nat /\ m - 5 < pos' /\ track[r].of.body \in Nat
          BY <1>4, <1>7, <1>10, <5>2
        <5> QED
          BY <5>1, <5>5, <5>7, <5>8
      <4>3. \A r \in IdMarks : p < r => m - 4 <= r
        BY <1>4, <4>1, <4>2 DEF IdMarks
      <4> QED
        BY <4>1, <4>3 DEF NextIn
    <3>4. Charged(began + 4, 2, s)
      <4>1. m - 4 \in Nat
        BY <1>4, <1>10
      <4> QED
        BY <1>4, <1>10, <3>2, <3>3, <4>1 DEF Charged
    <3>5. 2 \in 1..CostOfDamage
      BY DEF CostOfDamage
    <3> QED
      BY <3>1, <3>4, <3>5 DEF Settled, s
  <2> QED
    BY <1>4, <1>10, <2>3, <2>4
<1> QED
  BY <1>3, <1>10, <1>11, <1>12, <1>13 DEF s

\* When the track ends, so does what is left of it without a readable sync.
LEMMA MfmEndSettles ==
  ASSUME IndInv, Whole, encoding = "MFM", LossInv, MFM!TrackEnds, NEW m \in DataMarks
  PROVE  Settled(track[m].of)
<1>1. m \in Nat /\ m - 5 \in Nat /\ m - 5 \in DOMAIN track
  BY DataSector
<1>2. /\ pos \in Nat /\ Len(track) \in Nat /\ DOMAIN track = 1..Len(track)
  BY SharedFacts DEF TypeOK, Whole
<1>3. \A r \in pos..Len(track) : ~MFM!Sync(r)
  BY DEF MFM!TrackEnds, MFM!ScanFails
<1>4. m - 5 >= pos => Settled(track[m].of)
  BY <1>1, <1>2, <1>3, MfmSyncPassed
<1>5. CASE state = "LookingForAddress"
  <2>1. m - 5 < pos => Settled(track[m].of)
    BY <1>5 DEF LossInv, SettledBefore
  <2> QED
    BY <1>1, <1>2, <1>4, <2>1
<1>6. CASE state = "LookingForRecord"
  <2>1. /\ began \in Nat /\ began < pos /\ \A q \in began + 1..pos - 1 : ~MFM!Sync(q)
        /\ sec.body \in Nat \ {0} /\ LaidOut(track, began, sec)
        /\ \A q \in began..began + 7 + sec.body : q \in DOMAIN track /\ track[q].of = sec
    BY <1>6, MfmHeld
  <2>2. CASE m - 5 < began
    <3>1. began + Lead - 1 = began
      BY <2>1 DEF Lead
    <3> QED
      BY <1>6, <2>2, <3>1 DEF LossInv, SettledBefore
  <2>3. CASE m - 5 = began
    <3>1. /\ began + 4 \in began..began + 7 + sec.body
          /\ m \in began..began + 7 + sec.body
      BY <1>1, <2>1, <2>3
    <3>2. /\ began + 4 \in DOMAIN track /\ track[began + 4].t = "sync"
          /\ track[began + 4].of = track[m].of
      BY <2>1, <3>1 DEF LaidOut, Introduces
    <3>3. began + 4 \in began + 1..pos - 1 \/ began + 4 \in pos..Len(track)
      BY <1>2, <2>1, <3>2
    <3>4. ~MFM!Sync(began + 4)
      BY <1>3, <2>1, <3>3
    <3>5. track[began + 4].read # "good"
      BY <3>2, <3>4 DEF MFM!Sync, MFM!Is, MFM!Good
    <3> QED
      BY <3>2, <3>5, OwnDamage
  <2>4. CASE m - 5 > began
    <3>1. m - 5 >= pos \/ m - 5 \in began + 1..pos - 1
      BY <1>1, <1>2, <2>1, <2>4
    <3> QED
      BY <1>4, <2>1, <3>1, MfmSyncPassed
  <2> QED
    BY <1>1, <2>1, <2>2, <2>3, <2>4
<1> QED
  BY <1>5, <1>6 DEF MFM!TrackEnds

----------------------------------------------------------------------------
(* ... and in both *)

\* What is settled stays settled: the track is not written, results are kept.
LEMMA SettledKept ==
  ASSUME result \in Seq(Positions), track' = track, encoding' = encoding,
         result' = result \/ \E d : result' = Append(result, d)
  PROVE  Recovered \subseteq Recovered' /\ \A s : Settled(s) => Settled(s)'
<1>1. Recovered \subseteq Recovered'
  <2>1. CASE result' = result
    BY <2>1 DEF Recovered
  <2>2. CASE \E d : result' = Append(result, d)
    <3>1. \A i \in DOMAIN result : i \in DOMAIN result' /\ result'[i] = result[i]
      <4>1. PICK d : result' = Append(result, d)
        BY <2>2
      <4>2. ASSUME NEW i \in DOMAIN result
            PROVE  i \in DOMAIN Append(result, d) /\ Append(result, d)[i] = result[i]
        OBVIOUS
      <4> QED
        BY <4>1, <4>2
    <3>2. ASSUME NEW s \in Recovered PROVE s \in Recovered'
      <4>1. PICK i \in DOMAIN result :
              result[i].data = result[i].address /\ s = result[i].data
        BY <3>2 DEF Recovered
      <4> QED
        BY <3>1, <4>1 DEF Recovered
    <3> QED
      BY <3>2
  <2> QED
    BY <2>1, <2>2
<1>2. Damaged' = Damaged /\ OnTrack' = OnTrack /\ IdMarks' = IdMarks
  BY DEF Damaged, OnTrack, IdMarks
<1>3. Announced' = Announced
  BY DEF Announced, ReadableMarks, ReadableSyncs, Is, Good
<1>4. CostOfDamage' = CostOfDamage
  BY <1>2 DEF CostOfDamage, OneSize
<1>5. \A d, n, s : Charged(d, n, s) => Charged(d, n, s)'
  BY <1>2, <1>3 DEF Charged, NextIn
<1> QED
  BY <1>1, <1>2, <1>4, <1>5 DEF Settled

LEMMA LossInitHolds == AnyTrack /\ Whole => LossInv
<1> SUFFICES ASSUME AnyTrack, Whole PROVE LossInv
  OBVIOUS
<1>1. state = "LookingForAddress" /\ pos = 1
  BY DEF AnyTrack, Init, Start
<1>2. ASSUME NEW m \in DataMarks PROVE ~(m - 5 < pos)
  <2>1. m - 5 \in 1..Len(track) /\ Len(track) \in Nat
    BY DataSector DEF Whole
  <2> QED
    BY <1>1, <2>1
<1> QED
  BY <1>1, <1>2 DEF LossInv, SettledBefore

LEMMA FmLossStep ==
  ASSUME IndInv, Whole, LossInv, encoding = "FM", FM!Next, encoding' = encoding
  PROVE  LossInv' /\ track' = track
<1>1. result \in Seq(Positions) /\ began \in Nat
  BY SharedFacts DEF TypeOK
<1>2. CASE FM!LookForAddress
  <2>1. track' = track /\ result' = result /\ state = "LookingForAddress" /\ SettledBefore(pos)
    BY <1>2 DEF FM!LookForAddress, LossInv
  <2>2. \/ state' = "LookingForAddress"
        \/ state' = "LookingForRecord" /\ began' \in Nat
    <3>1. PICK p \in pos..Len(track) :
            IF FM!HeaderFollows(p)
            THEN state' = "LookingForRecord" /\ began' = p
            ELSE state' = state
      BY <1>2 DEF FM!LookForAddress
    <3>2. pos \in Nat
      BY SharedFacts DEF TypeOK
    <3> QED
      BY <2>1, <3>1, <3>2
  <2>3. DataMarks' = DataMarks /\ \A s : Settled(s) => Settled(s)'
    BY <1>1, <2>1, SettledKept DEF DataMarks
  <2>4. CASE state' = "LookingForAddress"
    <3>1. ASSUME NEW m \in DataMarks, m - 5 < pos' PROVE Settled(track[m].of)
      BY <1>2, <2>1, <2>4, <3>1, FmAddressSettles
    <3> QED
      BY <2>1, <2>3, <2>4, <3>1 DEF LossInv, SettledBefore
  <2>5. CASE state' = "LookingForRecord" /\ began' \in Nat
    <3>1. ASSUME NEW m \in DataMarks, m - 5 < began' - 1 PROVE Settled(track[m].of)
      BY <1>2, <2>1, <2>5, <3>1, FmAddressSettles
    <3>2. (began + Lead - 1)' = began' - 1
      BY <2>5 DEF Lead
    <3> QED
      BY <2>1, <2>3, <2>5, <3>1, <3>2 DEF LossInv, SettledBefore
  <2> QED
    BY <2>1, <2>2, <2>4, <2>5
<1>3. CASE FM!LookForRecord
  <2>1. /\ track' = track /\ state = "LookingForRecord" /\ state' = "LookingForAddress"
        /\ result' = result \/ \E d : result' = Append(result, d)
    BY <1>3 DEF FM!LookForRecord, FM!AfterRecord
  <2>2. SettledBefore(began - 1)
    <3>1. began + Lead - 1 = began - 1
      BY <1>1 DEF Lead
    <3> QED
      BY <2>1, <3>1 DEF LossInv
  <2>3. DataMarks' = DataMarks /\ \A s : Settled(s) => Settled(s)'
    BY <1>1, <2>1, SettledKept DEF DataMarks
  <2>4. ASSUME NEW m \in DataMarks, m - 5 < pos' PROVE Settled(track[m].of)'
    <3>1. Settled(track[m].of) \/ track[m].of \in Recovered'
      BY <1>3, <2>2, <2>4, FmRecordSettles
    <3>2. track[m].of \in Recovered' => Settled(track[m].of)'
      BY <2>1 DEF Settled
    <3>3. Settled(track[m].of) => Settled(track[m].of)'
      BY <2>1, <2>3
    <3> QED
      BY <3>1, <3>2, <3>3
  <2> QED
    BY <2>1, <2>3, <2>4 DEF LossInv, SettledBefore
<1>4. CASE FM!TrackEnds
  <2>1. track' = track /\ result' = result /\ state' = "decoded"
    BY <1>4 DEF FM!TrackEnds
  <2>2. DataMarks' = DataMarks /\ \A s : Settled(s) => Settled(s)'
    BY <1>1, <2>1, SettledKept DEF DataMarks
  <2>3. \A m \in DataMarks : Settled(track[m].of)
    BY <1>4, FmEndSettles
  <2> QED
    BY <2>1, <2>2, <2>3 DEF LossInv
<1>5. CASE FM!CheckTrackIsSupported
  BY <1>5 DEF FM!CheckTrackIsSupported, LossInv
<1> QED
  BY <1>2, <1>3, <1>4, <1>5 DEF FM!Next

LEMMA MfmLossStep ==
  ASSUME IndInv, Whole, LossInv, encoding = "MFM", MFM!Next, encoding' = encoding
  PROVE  LossInv' /\ track' = track
<1>1. result \in Seq(Positions) /\ began \in Nat
  BY SharedFacts DEF TypeOK
<1>2. CASE MFM!LookForSectorHeader
  <2>1. track' = track /\ result' = result /\ state = "LookingForAddress" /\ SettledBefore(pos)
    BY <1>2 DEF MFM!LookForSectorHeader, LossInv
  <2>2. \/ state' = "LookingForAddress"
        \/ state' = "LookingForRecord" /\ began' \in Nat
    <3>1. PICK p \in pos..Len(track) :
            IF MFM!HeaderFollows(p)
            THEN state' = "LookingForRecord" /\ began' = p
            ELSE state' = state
      BY <1>2 DEF MFM!LookForSectorHeader
    <3>2. pos \in Nat
      BY SharedFacts DEF TypeOK
    <3> QED
      BY <2>1, <3>1, <3>2
  <2>3. DataMarks' = DataMarks /\ \A s : Settled(s) => Settled(s)'
    BY <1>1, <2>1, SettledKept DEF DataMarks
  <2>4. CASE state' = "LookingForAddress"
    <3>1. ASSUME NEW m \in DataMarks, m - 5 < pos' PROVE Settled(track[m].of)
      BY <1>2, <2>1, <2>4, <3>1, MfmAddressSettles
    <3> QED
      BY <2>1, <2>3, <2>4, <3>1 DEF LossInv, SettledBefore
  <2>5. CASE state' = "LookingForRecord" /\ began' \in Nat
    <3>1. ASSUME NEW m \in DataMarks, m - 5 < began' PROVE Settled(track[m].of)
      BY <1>2, <2>1, <2>5, <3>1, MfmAddressSettles
    <3>2. (began + Lead - 1)' = began'
      <4>1. Lead' = 1 /\ began' \in Nat
        BY <2>5 DEF Lead
      <4>2. \A x \in Nat : x + 1 - 1 = x
        OBVIOUS
      <4> QED
        BY <4>1, <4>2
    <3> QED
      BY <2>1, <2>3, <2>5, <3>1, <3>2 DEF LossInv, SettledBefore
  <2> QED
    BY <2>1, <2>2, <2>4, <2>5
<1>3. CASE MFM!LookForRecord
  <2>1. /\ track' = track /\ state = "LookingForRecord" /\ state' = "LookingForAddress"
        /\ result' = result \/ \E d : result' = Append(result, d)
    BY <1>3 DEF MFM!LookForRecord, MFM!AfterRecord
  <2>2. SettledBefore(began)
    <3>1. began + Lead - 1 = began
      BY <1>1 DEF Lead
    <3> QED
      BY <2>1, <3>1 DEF LossInv
  <2>3. DataMarks' = DataMarks /\ \A s : Settled(s) => Settled(s)'
    BY <1>1, <2>1, SettledKept DEF DataMarks
  <2>4. ASSUME NEW m \in DataMarks, m - 5 < pos' PROVE Settled(track[m].of)'
    <3>1. Settled(track[m].of) \/ track[m].of \in Recovered'
      BY <1>3, <2>2, <2>4, MfmRecordSettles
    <3>2. track[m].of \in Recovered' => Settled(track[m].of)'
      BY <2>1 DEF Settled
    <3>3. Settled(track[m].of) => Settled(track[m].of)'
      BY <2>1, <2>3
    <3> QED
      BY <3>1, <3>2, <3>3
  <2> QED
    BY <2>1, <2>3, <2>4 DEF LossInv, SettledBefore
<1>4. CASE MFM!TrackEnds
  <2>1. track' = track /\ result' = result /\ state' = "decoded"
    BY <1>4 DEF MFM!TrackEnds
  <2>2. DataMarks' = DataMarks /\ \A s : Settled(s) => Settled(s)'
    BY <1>1, <2>1, SettledKept DEF DataMarks
  <2>3. \A m \in DataMarks : Settled(track[m].of)
    BY <1>4, MfmEndSettles
  <2> QED
    BY <2>1, <2>2, <2>3 DEF LossInv
<1>5. CASE MFM!CheckTrackIsSupported
  BY <1>5 DEF MFM!CheckTrackIsSupported, LossInv
<1> QED
  BY <1>2, <1>3, <1>4, <1>5 DEF MFM!Next

LEMMA LossStep ==
  IndInv /\ (Whole => LossInv) /\ [Decode]_<<vars, encoding>> => (Whole => LossInv)'
<1> SUFFICES ASSUME IndInv, Whole => LossInv, [Decode]_<<vars, encoding>>, Whole'
             PROVE  LossInv'
  OBVIOUS
<1>1. track' = track
  BY DEF Decode, vars, FM!Next, FM!LookForAddress, FM!LookForRecord, FM!TrackEnds,
     FM!CheckTrackIsSupported, MFM!Next, MFM!LookForSectorHeader, MFM!LookForRecord,
     MFM!TrackEnds, MFM!CheckTrackIsSupported
<1>2. Whole
  BY <1>1 DEF Whole
<1>3. CASE UNCHANGED <<vars, encoding>>
  <2>1. UNCHANGED <<track, pos, state, sec, began, result, encoding>>
    BY <1>3 DEF vars
  <2>2. result \in Seq(Positions)
    BY SharedFacts DEF TypeOK
  <2>3. DataMarks' = DataMarks /\ \A s : Settled(s) => Settled(s)'
    BY <2>1, <2>2, SettledKept DEF DataMarks
  <2>4. Lead' = Lead
    BY <2>1 DEF Lead
  <2> QED
    BY <1>2, <2>1, <2>3, <2>4 DEF LossInv, SettledBefore
<1> QED
  BY <1>2, <1>3, FmLossStep, MfmLossStep DEF Decode

\* So many sectors at most are lost as charges can be made.
LEMMA LossCounted ==
  ASSUME IndInv, Whole, LossInv
  PROVE  LossBounded
<1> SUFFICES ASSUME state = "decoded"
             PROVE  Cardinality(Usable \ Recovered) <= CostOfDamage * Cardinality(Damaged)
  BY DEF LossBounded
<1> DEFINE Lost == Usable \ Recovered
           Charges == Damaged \X (1..CostOfDamage)
           f == [s \in Lost |-> CHOOSE c \in Charges : Charged(c[1], c[2], s)]
<1>1. ASSUME NEW s \in Lost
      PROVE  f[s] \in Charges /\ Charged(f[s][1], f[s][2], s)
  <2>1. PICK m \in DataMarks : s = track[m].of
    BY DEF Usable, Recorded, DataMarks
  <2>2. Settled(s)
    BY <2>1 DEF LossInv
  <2>3. PICK d \in Damaged, n \in 1..CostOfDamage : Charged(d, n, s)
    BY <2>2 DEF Settled
  <2>4. <<d, n>> \in Charges /\ <<d, n>>[1] = d /\ <<d, n>>[2] = n
    OBVIOUS
  <2> QED
    BY <2>3, <2>4
<1>2. f \in [Lost -> Charges]
  BY <1>1
<1>3. ASSUME NEW s \in Lost, NEW u \in Lost, f[s] = f[u] PROVE s = u
  BY <1>1, <1>3, ChargedOnce
<1> HIDE DEF f
<1>4. f \in Injection(Lost, Charges)
  BY <1>2, <1>3, Fun_IsInj
<1>5. IsFiniteSet(Damaged) /\ Cardinality(Damaged) \in Nat
  <2>1. Len(track) \in Nat /\ Damaged \in SUBSET (1..Len(track))
    BY DEF Damaged, Whole
  <2>2. IsFiniteSet(1..Len(track))
    BY <2>1, FS_Interval
  <2> QED
    BY <2>1, <2>2, FS_Subset, FS_CardinalityType
<1>6. CostOfDamage \in {2, 3}
  BY DEF CostOfDamage
<1>7. IsFiniteSet(1..CostOfDamage) /\ Cardinality(1..CostOfDamage) = CostOfDamage
  <2>1. 1 \in Int /\ CostOfDamage \in Int /\ CostOfDamage - 1 + 1 = CostOfDamage
        /\ ~(1 > CostOfDamage)
    BY <1>6
  <2> QED
    BY <2>1, FS_Interval
<1>8. IsFiniteSet(Charges) /\ Cardinality(Charges) = Cardinality(Damaged) * CostOfDamage
  BY <1>5, <1>7, FS_Product
<1>9. Cardinality(Lost) <= Cardinality(Charges)
  BY <1>4, <1>8, FS_Injection
<1>10. Cardinality(Damaged) * CostOfDamage = CostOfDamage * Cardinality(Damaged)
  BY <1>5, <1>6
<1> QED
  BY <1>8, <1>9, <1>10

\* On any properly written track, however long and however badly damaged, one
\* damaged place costs two sectors at most (in FM with sectors of several sizes
\* three): the decoders never lose their way for longer.
THEOREM DamageContained ==
  Spec => [](AsWritten(track) /\ WholeSectors(track) => LossBounded)
<1>1. AnyTrack => (Whole => LossInv)
  BY LossInitHolds
<1>2. IndInv /\ (Whole => LossInv) =>
        (AsWritten(track) /\ WholeSectors(track) => LossBounded)
  BY LossCounted, SharedFacts DEF Whole, TypeOK
<1> QED
  BY <1>1, <1>2, LossStep, Invariance, PTL DEF Spec
=============================================================================
