--------------------------- MODULE CatalogProofs ---------------------------
(***************************************************************************)
(* What valid() promises of a catalogue, for any number of entries of any  *)
(* length on a device of any size: files that pass are apart, and reading  *)
(* one of them keeps to its own sectors.                                   *)
(*                                                                         *)
(* valid() remembers only the start of the file it saw last.  The          *)
(* invariant says why that is enough: no file before the current entry     *)
(* starts below last_file_start, because each ended below the one before.  *)
(***************************************************************************)
EXTENDS Catalog, TLAPS

(* The part of fragment f before entry n is as valid() wants it. *)
CheckedTo(f, n) ==
  /\ \A i, j \in 1..n - 1 :
       i < j /\ ~Empty(f.entries[i]) /\ ~Empty(f.entries[j])
         => LastSector(f.entries[j]) < f.entries[i].start
  /\ \A i \in 1..n - 1 : InsideOrFirst(f, i)

WholeChecked(f) == CheckedTo(f, Len(f.entries) + 1)

Checking ==
  pc = "entries" =>
    /\ CheckedTo(Here, pos)
    /\ \A i \in 1..pos - 1 :
         Empty(Here.entries[i])
           \/ (last_file_start # NoFile /\ Here.entries[i].start >= last_file_start)

FragmentsBehind ==
  /\ pc \in {"fragment", "entries"} => \A f \in 1..frag - 1 : WholeChecked(fragments[f])
  /\ Passed => \A f \in DOMAIN fragments : WholeChecked(fragments[f])

(* What has been visited lies in the file being read, behind sec. *)
VisitedBehind ==
  /\ pc \in {"fragment", "entries", "valid", "invalid"} => visited = {}
  /\ pc \in {"reading", "read", "unreadable"} =>
       /\ pos \in DOMAIN Here.entries
       /\ sec >= Now.start /\ sec <= LastSector(Now) + 1
       /\ Empty(Now) => left = 0
       /\ visited \subseteq Body(Now)

IndInv == TypeOK /\ Checking /\ FragmentsBehind /\ VisitedBehind

----------------------------------------------------------------------------
LEMMA OneOrTwoFragments == \A f : FragmentCount(f) \in {1, 2}
BY DEF FragmentCount

(* A file that is not empty has at least one sector. *)
LEMMA SectorsOfFile == \A n \in Nat : SectorsFor(n) \in Nat /\ (n # 0 => SectorsFor(n) >= 1)
<1> SUFFICES ASSUME NEW n \in Nat PROVE SectorsFor(n) \in Nat /\ (n # 0 => SectorsFor(n) >= 1)
  OBVIOUS
<1>1. n \div SectorBytes \in Nat
  BY SectorBytesAssumption
<1>2. n # 0 /\ n \div SectorBytes = 0 => n % SectorBytes # 0
  BY SectorBytesAssumption
<1> QED BY <1>1, <1>2 DEF SectorsFor

LEMMA LastOfEntry ==
  \A e \in Entry : LastSector(e) \in Nat /\ LastSector(e) >= e.start
<1> SUFFICES ASSUME NEW e \in Entry PROVE LastSector(e) \in Nat /\ LastSector(e) >= e.start
  OBVIOUS
<1>1. e.start \in Nat /\ e.length \in Nat
  BY DEF Entry
<1>2. SectorsFor(e.length) \in Nat /\ (e.length # 0 => SectorsFor(e.length) >= 1)
  BY <1>1, SectorsOfFile
<1> QED BY <1>1, <1>2 DEF LastSector, Empty

LEMMA InitHolds == Init => IndInv
<1> SUFFICES ASSUME Init PROVE IndInv
  OBVIOUS
<1>1. frag \in DOMAIN fragments
  BY OneOrTwoFragments DEF Init, Start
<1>2. TypeOK
  BY <1>1 DEF Init, Start, TypeOK, NoFile
<1> QED BY <1>2 DEF Init, Start, IndInv, Checking, FragmentsBehind, VisitedBehind, Passed

(* The entry the loops are at. *)
LEMMA Typed ==
  ASSUME TypeOK
  PROVE  /\ Here \in Fragment
         /\ Here.entries \in Seq(Entry)
         /\ Here.total \in Nat
         /\ DOMAIN Here.entries = 1..Len(Here.entries)
         /\ Len(Here.entries) \in Nat
         /\ \A i \in DOMAIN Here.entries : Here.entries[i] \in Entry
<1>1. Here \in Fragment
  BY DEF TypeOK, Here
<1>2. Here.entries \in Seq(Entry) /\ Here.total \in Nat
  BY <1>1 DEF Fragment
<1> QED BY <1>1, <1>2

----------------------------------------------------------------------------
(* Validation *)

LEMMA BeginStep == IndInv /\ BeginFragment => IndInv'
<1> SUFFICES ASSUME IndInv, BeginFragment PROVE IndInv'
  OBVIOUS
<1> USE DEF IndInv, BeginFragment, disc, reading
<1>1. TypeOK'
  BY Typed DEF TypeOK, PlaceInFragment, Here, NoFile
<1>2. Checking'
  BY DEF Checking, CheckedTo
<1>3. FragmentsBehind'
  BY DEF FragmentsBehind, Passed
<1>4. VisitedBehind'
  BY DEF VisitedBehind, Passed
<1> QED BY <1>1, <1>2, <1>3, <1>4

(* The current entry joins the ones behind it: it is empty, or it ends below
   all of them and inside the device, or it is the first file. *)
LEMMA EntryJoins ==
  ASSUME NEW f, f.entries \in Seq(Entry),
         NEW n \in DOMAIN f.entries,
         CheckedTo(f, n),
         \/ Empty(f.entries[n])
         \/ \A i \in 1..n - 1 : Empty(f.entries[i])
         \/ /\ LastSector(f.entries[n]) < f.total
            /\ \A i \in 1..n - 1 :
                 ~Empty(f.entries[i]) => LastSector(f.entries[n]) < f.entries[i].start
  PROVE  CheckedTo(f, n + 1)
<1>1. n \in Nat /\ n >= 1
  OBVIOUS
<1>2. \A i \in 1..(n + 1) - 1 : i \in 1..n - 1 \/ i = n
  BY <1>1
<1>3. ASSUME NEW i \in 1..(n + 1) - 1, NEW j \in 1..(n + 1) - 1,
             i < j, ~Empty(f.entries[i]), ~Empty(f.entries[j])
      PROVE  LastSector(f.entries[j]) < f.entries[i].start
  <2>1. i \in 1..n - 1
    BY <1>1, <1>2, <1>3
  <2>2. CASE j = n
    BY <1>3, <2>1, <2>2
  <2>3. CASE j \in 1..n - 1
    BY <1>3, <2>1, <2>3 DEF CheckedTo
  <2> QED BY <1>2, <2>2, <2>3
<1>4. ASSUME NEW i \in 1..(n + 1) - 1 PROVE InsideOrFirst(f, i)
  <2>1. CASE i \in 1..n - 1
    BY <2>1 DEF CheckedTo
  <2>2. CASE i = n
    BY <2>2 DEF InsideOrFirst, FirstFile
  <2> QED BY <1>2, <2>1, <2>2
<1> QED BY <1>3, <1>4 DEF CheckedTo

LEMMA SkipStep == IndInv /\ SkipEmptyEntry => IndInv'
<1> SUFFICES ASSUME IndInv, SkipEmptyEntry PROVE IndInv'
  OBVIOUS
<1> USE DEF IndInv, SkipEmptyEntry, disc, reading
<1>0. Here' = Here /\ pos \in DOMAIN Here.entries /\ Here.entries \in Seq(Entry)
  BY Typed DEF Here
<1>1. TypeOK'
  BY <1>0, Typed DEF TypeOK, PlaceInFragment
<1>2. Checking'
  <2>1. CheckedTo(Here, pos + 1)
    BY <1>0, EntryJoins DEF Checking, Now
  <2>2. \A i \in 1..(pos + 1) - 1 : i \in 1..pos - 1 \/ i = pos
    BY <1>0
  <2> QED BY <1>0, <2>1, <2>2 DEF Checking, Now
<1>3. FragmentsBehind'
  BY DEF FragmentsBehind, Passed
<1>4. VisitedBehind'
  BY DEF VisitedBehind, Passed
<1> QED BY <1>1, <1>2, <1>3, <1>4

LEMMA CheckStep == IndInv /\ CheckEntry => IndInv'
<1> SUFFICES ASSUME IndInv, CheckEntry PROVE IndInv'
  OBVIOUS
<1> USE DEF IndInv, CheckEntry, disc, reading
<1>0. /\ Here' = Here /\ pos \in DOMAIN Here.entries /\ Here.entries \in Seq(Entry)
      /\ Now = Here.entries[pos] /\ Now \in Entry /\ Now.start \in Nat
      /\ LastSector(Now) \in Nat /\ LastSector(Now) >= Now.start
      /\ Here.total \in Nat
      /\ \A i \in DOMAIN Here.entries : Here.entries[i].start \in Nat
  <2>1. Now \in Entry /\ \A i \in DOMAIN Here.entries : Here.entries[i].start \in Nat
    BY Typed DEF Now, Entry
  <2> QED BY <2>1, Typed, LastOfEntry DEF Here, Now, Entry
<1>1. TypeOK'
  BY <1>0, Typed DEF TypeOK, PlaceInFragment
<1>2. Checking'
  <2>1. CASE pc' = "invalid"
    BY <2>1 DEF Checking
  <2>2. CASE pc' = pc /\ pos' = pos + 1 /\ last_file_start' = Now.start
    <3>1. last_file_start = NoFile \/ (LastSector(Now) < Here.total /\ LastSector(Now) < last_file_start)
      BY <1>0, <2>2 DEF TypeOK, Misplaced, NoFile
    <3>2. \A i \in 1..pos - 1 :
            Empty(Here.entries[i])
              \/ (last_file_start # NoFile /\ Here.entries[i].start >= last_file_start)
      BY DEF Checking
    <3>3. \A i \in 1..pos - 1 : i \in DOMAIN Here.entries
      BY <1>0
    <3>4. \A i \in 1..pos - 1 : ~Empty(Here.entries[i]) =>
            LastSector(Now) < Here.total /\ LastSector(Now) < Here.entries[i].start
      BY <1>0, <3>1, <3>2, <3>3 DEF TypeOK, NoFile
    <3>5. CheckedTo(Here, pos)
      BY DEF Checking
    <3>6. \/ \A i \in 1..pos - 1 : Empty(Here.entries[i])
          \/ /\ LastSector(Now) < Here.total
             /\ \A i \in 1..pos - 1 :
                 ~Empty(Here.entries[i]) => LastSector(Now) < Here.entries[i].start
      BY <3>4
    <3>7. CheckedTo(Here, pos + 1)
      BY <1>0, <3>5, <3>6, EntryJoins
    <3>8. \A i \in 1..(pos + 1) - 1 : i \in 1..pos - 1 \/ i = pos
      BY <1>0
    <3>9. \A i \in 1..(pos + 1) - 1 :
            Empty(Here.entries[i]) \/ (Now.start # NoFile /\ Here.entries[i].start >= Now.start)
      BY <1>0, <3>3, <3>4, <3>8 DEF NoFile
    <3> QED BY <1>0, <2>2, <3>7, <3>9 DEF Checking
  <2> QED BY <2>1, <2>2
<1>3. FragmentsBehind'
  BY DEF FragmentsBehind, Passed
<1>4. VisitedBehind'
  BY DEF VisitedBehind, Passed
<1> QED BY <1>1, <1>2, <1>3, <1>4

LEMMA EndStep == IndInv /\ EndFragment => IndInv'
<1> SUFFICES ASSUME IndInv, EndFragment PROVE IndInv'
  OBVIOUS
<1> USE DEF IndInv, EndFragment, disc, reading
<1>0. DOMAIN fragments = 1..FragmentCount(format) /\ FragmentCount(format) \in {1, 2}
  BY OneOrTwoFragments DEF TypeOK
<1>1. TypeOK'
  BY <1>0, Typed DEF TypeOK, PlaceInFragment
<1>2. Checking'
  BY DEF Checking
<1>3. WholeChecked(Here)
  <2>1. pos = Len(Here.entries) + 1
    BY Typed DEF TypeOK, PlaceInFragment
  <2> QED BY <2>1 DEF Checking, WholeChecked
<1>4. \A f \in 1..frag : WholeChecked(fragments[f])
  <2>1. \A f \in 1..frag : f \in 1..frag - 1 \/ f = frag
    BY <1>0 DEF TypeOK
  <2> QED BY <1>3, <2>1 DEF FragmentsBehind, Here
<1>5. FragmentsBehind'
  <2>2. CASE frag = FragmentCount(format)
    BY <1>0, <1>4, <2>2 DEF FragmentsBehind, Passed
  <2>3. CASE frag # FragmentCount(format)
    <3>1. pc' = "fragment" /\ frag' = frag + 1 /\ fragments' = fragments
      BY <2>3
    <3>2. \A f \in 1..(frag + 1) - 1 : f \in 1..frag
      BY <1>0 DEF TypeOK
    <3> QED BY <1>4, <3>1, <3>2 DEF FragmentsBehind, Passed
  <2> QED BY <2>2, <2>3
<1>6. VisitedBehind'
  BY DEF VisitedBehind
<1> QED BY <1>1, <1>2, <1>5, <1>6

----------------------------------------------------------------------------
(* Reading *)

LEMMA OpenStep == IndInv /\ OpenFile => IndInv'
<1> SUFFICES ASSUME IndInv, OpenFile PROVE IndInv'
  OBVIOUS
<1> USE DEF IndInv, OpenFile, disc
<1>1. PICK f \in DOMAIN fragments : \E i \in DOMAIN fragments[f].entries :
           /\ frag' = f /\ pos' = i
           /\ sec' = fragments[f].entries[i].start
           /\ left' = fragments[f].entries[i].length
  OBVIOUS
<1>2. PICK i \in DOMAIN fragments[f].entries :
           /\ frag' = f /\ pos' = i
           /\ sec' = fragments[f].entries[i].start
           /\ left' = fragments[f].entries[i].length
  BY <1>1
<1>3. fragments[f].entries \in Seq(Entry)
  BY DEF TypeOK, Fragment
<1>4. fragments[f].entries[i] \in Entry /\ i \in Nat /\ i \in 1..Len(fragments[f].entries)
  BY <1>3
<1>5. /\ sec' \in Nat /\ left' \in Nat
      /\ LastSector(fragments[f].entries[i]) \in Nat
      /\ LastSector(fragments[f].entries[i]) >= sec'
  BY <1>2, <1>4, LastOfEntry DEF Entry
<1>6. TypeOK'
  BY <1>2, <1>3, <1>4, <1>5 DEF TypeOK, PlaceInFragment, Here
<1>7. VisitedBehind'
  <2>1. visited' = {}
    BY DEF VisitedBehind
  <2> QED BY <1>2, <1>5, <2>1 DEF VisitedBehind, Here, Now, Empty
<1> QED BY <1>6, <1>7 DEF Checking, FragmentsBehind, Passed

LEMMA VisitStep == IndInv /\ VisitSector => IndInv'
<1> SUFFICES ASSUME IndInv, VisitSector PROVE IndInv'
  OBVIOUS
<1> USE DEF IndInv, VisitSector, disc
<1>0. /\ Here' = Here /\ Now' = Now
      /\ pos \in DOMAIN Here.entries /\ Now \in Entry /\ Now.start \in Nat
      /\ LastSector(Now) \in Nat
      /\ left \in Nat /\ sec \in Nat
      /\ sec >= Now.start /\ sec <= LastSector(Now)
  BY Typed, LastOfEntry DEF VisitedBehind, TypeOK, Here, Now, Entry, MoreToVisit
<1>1. Piece \in Nat /\ left - Piece \in Nat /\ (left = 0 => Piece = 0)
  BY <1>0, SectorBytesAssumption DEF Piece
<1>2. CASE Readable
  <2>1. sec' = sec + 1 /\ left' = left - Piece
        /\ visited' = IF Piece = 0 THEN visited ELSE visited \cup {sec}
    BY <1>2 DEF Readable, NextSector
  <2>2. TypeOK'
    BY <1>0, <1>1, <1>2, <2>1 DEF TypeOK, PlaceInFragment, Readable
  <2>3. Empty(Now) => left' = 0
    BY <1>0, <1>1, <2>1 DEF VisitedBehind
  <2>4. visited' \subseteq Body(Now)
    <3>1. Piece # 0 => ~Empty(Now)
      BY <1>1 DEF VisitedBehind
    <3>2. ~Empty(Now) => sec \in Body(Now)
      BY <1>0 DEF Body
    <3> QED BY <2>1, <3>1, <3>2 DEF VisitedBehind
  <2>5. sec' >= Now.start /\ sec' <= LastSector(Now) + 1
    BY <1>0, <2>1
  <2>6. VisitedBehind'
    BY <1>0, <1>2, <2>3, <2>4, <2>5 DEF VisitedBehind, Readable
  <2> QED BY <1>2, <2>2, <2>6 DEF Checking, FragmentsBehind, Passed, Readable
<1>3. CASE ~Readable
  BY <1>0, <1>3 DEF TypeOK, PlaceInFragment, Checking, FragmentsBehind, Passed, VisitedBehind,
     reading, Readable
<1> QED BY <1>2, <1>3

LEMMA OtherSteps == IndInv /\ (FileRead \/ UNCHANGED vars) => IndInv'
<1> SUFFICES ASSUME IndInv, FileRead \/ UNCHANGED vars PROVE IndInv'
  OBVIOUS
<1>1. /\ UNCHANGED <<format, fragments, device, frag, pos, last_file_start, sec, left, visited>>
      /\ pc' = pc \/ (pc = "reading" /\ pc' = "read")
  BY DEF FileRead, vars, disc, reading
<1>2. Here' = Here /\ Now' = Now
  BY <1>1 DEF Here, Now
<1>3. TypeOK'
  BY <1>1, <1>2 DEF IndInv, TypeOK, PlaceInFragment
<1> QED BY <1>1, <1>2, <1>3 DEF IndInv, Checking, FragmentsBehind, Passed, VisitedBehind

----------------------------------------------------------------------------
(* The theorems *)

\* Every state valid() and visit_file_body_piecewise go through satisfies the
\* invariant: the entries behind the current one are as valid() wants them.
THEOREM Invariance == Spec => []IndInv
<1>1. IndInv /\ [Next]_vars => IndInv'
  BY BeginStep, SkipStep, CheckStep, EndStep, OpenStep, VisitStep, OtherSteps
     DEF Next, Valid, VisitFileBody
<1> QED BY InitHolds, <1>1, PTL DEF Spec

\* The loops of valid() and visit_file_body_piecewise stay within the entries
\* there are, and the count of bytes left never goes below zero.
THEOREM TypeCorrect == Spec => []TypeOK
<1>1. IndInv => TypeOK
  BY DEF IndInv
<1> QED BY Invariance, <1>1, PTL

\* Any two files of a fragment that valid() accepts are apart, although it
\* compares each only with the last file before it.
THEOREM FilesApart == Spec => []ValidMeansDescending
<1>1. IndInv => ValidMeansDescending
  <2> SUFFICES ASSUME IndInv, Passed, NEW f \in DOMAIN fragments
               PROVE  Descending(fragments[f].entries)
    BY DEF ValidMeansDescending
  <2>1. WholeChecked(fragments[f])
    BY DEF IndInv, FragmentsBehind
  <2>2. fragments[f].entries \in Seq(Entry)
    BY DEF IndInv, TypeOK, Fragment
  <2> QED BY <2>1, <2>2 DEF WholeChecked, CheckedTo, Descending
<1> QED BY Invariance, <1>1, PTL

\* Every file but the first of a fragment that valid() accepts ends on the
\* device the catalogue describes.
THEOREM AllButFirstInside == Spec => []ValidMeansInside
<1>1. IndInv => ValidMeansInside
  <2> SUFFICES ASSUME IndInv, Passed, NEW f \in DOMAIN fragments,
                      NEW i \in DOMAIN fragments[f].entries
               PROVE  InsideOrFirst(fragments[f], i)
    BY DEF ValidMeansInside
  <2>1. WholeChecked(fragments[f])
    BY DEF IndInv, FragmentsBehind
  <2>2. fragments[f].entries \in Seq(Entry)
    BY DEF IndInv, TypeOK, Fragment
  <2> QED BY <2>1, <2>2 DEF WholeChecked, CheckedTo
<1> QED BY Invariance, <1>1, PTL

\* Reading a file of an accepted catalogue visits no sector that holds bytes of
\* another file of its fragment.
THEOREM OwnSectorsOnly == Spec => []ReadsOwnSectors
<1>1. IndInv => ReadsOwnSectors
  <2> SUFFICES ASSUME IndInv, NEW i \in DOMAIN Here.entries,
                      pc \in {"reading", "read", "unreadable"}, i # pos
               PROVE  visited \cap Body(Here.entries[i]) = {}
    BY DEF ReadsOwnSectors
  <2>1. pos \in DOMAIN Here.entries /\ visited \subseteq Body(Now)
    BY DEF IndInv, VisitedBehind
  <2>2. WholeChecked(Here)
    BY DEF IndInv, FragmentsBehind, TypeOK, Passed, Here
  <2>3. Here.entries \in Seq(Entry)
    BY Typed DEF IndInv
  <2>4. /\ Now.start \in Nat /\ Here.entries[i].start \in Nat
        /\ LastSector(Now) \in Nat /\ LastSector(Here.entries[i]) \in Nat
    <3>1. Now \in Entry /\ Here.entries[i] \in Entry
      BY <2>1, <2>3 DEF Now
    <3>2. \A e \in Entry : e.start \in Nat
      BY DEF Entry
    <3> QED BY <3>1, <3>2, LastOfEntry
  <2>5. i \in Nat /\ pos \in Nat /\ (i < pos \/ pos < i)
    BY <2>1, <2>3
  <2>6. \/ Empty(Now) \/ Empty(Here.entries[i])
        \/ LastSector(Now) < Here.entries[i].start
        \/ LastSector(Here.entries[i]) < Now.start
    BY <2>1, <2>2, <2>3, <2>5 DEF WholeChecked, CheckedTo, Now
  <2>7. Body(Now) \cap Body(Here.entries[i]) = {}
    BY <2>4, <2>6 DEF Body
  <2> QED BY <2>1, <2>7
<1> QED BY Invariance, <1>1, PTL

----------------------------------------------------------------------------
(* A catalogue that is refused *)

(* What valid() compares with is the start of a file it has seen. *)
LastSeen ==
  pc = "entries" /\ last_file_start # NoFile =>
    \E i \in 1..pos - 1 :
      ~Empty(Here.entries[i]) /\ Here.entries[i].start = last_file_start

Refusing == LastSeen /\ WellFormedAccepted

(* A well formed fragment has room for its catalogue, and no entry of it is
   misplaced behind another. *)
LEMMA WellFormedNotTooSmall ==
  ASSUME NEW f \in Fragment, WellFormed(f)
  PROVE  f.aligned /\ ~TotalTooSmall(f)
<1>1. f.total \in Nat
  BY DEF Fragment
<1>2. CASE format = "OpusDDOS"
  BY <1>1, <1>2, OpusTrackAssumption DEF WellFormed, TotalTooSmall
<1>3. CASE format # "OpusDDOS"
  BY <1>1, <1>3
     DEF WellFormed, TotalTooSmall, DataSectorsReservedForCatalog, CatalogSectorsForFormat
<1> QED BY <1>2, <1>3

LEMMA WellFormedNotMisplaced ==
  ASSUME IndInv, LastSeen, pc = "entries", pos \in DOMAIN Here.entries, ~Empty(Now),
         last_file_start # NoFile, WellFormed(Here)
  PROVE  ~Misplaced
<1>1. PICK i \in 1..pos - 1 :
        ~Empty(Here.entries[i]) /\ Here.entries[i].start = last_file_start
  BY DEF LastSeen
<1>2. Here.entries \in Seq(Entry) /\ Here.total \in Nat
  BY Typed DEF IndInv
<1>3. i \in DOMAIN Here.entries /\ i < pos
  BY <1>2
<1>4. LastSector(Now) < last_file_start
  BY <1>1, <1>3 DEF WellFormed, Descending, Now
<1>5. Now \in Entry /\ Now.start \in Nat
  <2>1. Now \in Entry
    BY <1>2 DEF Now
  <2> QED BY <2>1 DEF Entry
<1>6. LastSector(Now) \in Nat /\ LastSector(Now) >= Now.start
  BY <1>5, LastOfEntry
<1>7. LastSector(Now) \in Body(Now)
  BY <1>5, <1>6 DEF Body
<1>8. LastSector(Now) < Here.total
  BY <1>2, <1>6, <1>7 DEF WellFormed, Now
<1>9. last_file_start \in Nat
  BY DEF IndInv, TypeOK
<1> QED BY <1>2, <1>4, <1>6, <1>8, <1>9 DEF Misplaced

LEMMA RefusingStep == IndInv /\ Refusing /\ [Next]_vars => Refusing'
<1> SUFFICES ASSUME IndInv, Refusing, [Next]_vars PROVE Refusing'
  OBVIOUS
<1> USE DEF Refusing
<1>0. frag \in DOMAIN fragments /\ Here \in Fragment
  BY Typed DEF IndInv, TypeOK
<1>1. CASE BeginFragment
  <2>1. LastSeen'
    BY <1>1 DEF BeginFragment, LastSeen
  <2>2. pc' = "invalid" => ~WellFormed(Here)
    BY <1>0, <1>1, WellFormedNotTooSmall DEF BeginFragment
  <2>3. UNCHANGED <<format, fragments>>
    BY <1>1 DEF BeginFragment, disc
  <2> QED BY <1>0, <2>1, <2>2, <2>3 DEF WellFormedAccepted, WellFormed, Here
<1>2. CASE SkipEmptyEntry
  <2>1. UNCHANGED <<format, fragments, pc, frag, last_file_start>> /\ pos' = pos + 1
        /\ pos \in Nat /\ Here' = Here
    BY <1>2 DEF SkipEmptyEntry, disc, IndInv, TypeOK, Here
  <2>2. 1..pos - 1 \subseteq 1..pos' - 1
    BY <2>1
  <2> QED BY <2>1, <2>2 DEF LastSeen, WellFormedAccepted, WellFormed
<1>3. CASE CheckEntry
  <2>1. UNCHANGED <<format, fragments, frag>> /\ Here' = Here /\ pos \in Nat /\ pos >= 1
    BY <1>3, Typed DEF CheckEntry, disc, Here, IndInv, TypeOK, PlaceInFragment
  <2>2. pc' = "invalid" => ~WellFormed(Here)
    BY <1>3, WellFormedNotMisplaced DEF CheckEntry
  <2>3. LastSeen'
    <3>1. CASE pc' = "invalid"
      BY <3>1 DEF LastSeen
    <3>2. CASE pc' # "invalid"
      <4>1. pos' = pos + 1 /\ last_file_start' = Now.start /\ ~Empty(Now)
        BY <1>3, <3>2 DEF CheckEntry
      <4>2. pos \in 1..pos' - 1
        BY <2>1, <4>1
      <4> QED BY <2>1, <4>1, <4>2 DEF LastSeen, Now
    <3> QED BY <3>1, <3>2
  <2> QED BY <1>0, <2>1, <2>2, <2>3 DEF WellFormedAccepted, WellFormed, Here
<1>4. CASE EndFragment
  BY <1>4 DEF EndFragment, disc, LastSeen, WellFormedAccepted
<1>5. CASE OpenFile
  BY <1>5 DEF OpenFile, disc, LastSeen, WellFormedAccepted
<1>6. CASE VisitFileBody
  BY <1>6 DEF VisitFileBody, VisitSector, FileRead, LastSeen, WellFormedAccepted
<1>7. CASE UNCHANGED vars
  BY <1>7 DEF vars, LastSeen, WellFormedAccepted, WellFormed, Here
<1> QED BY <1>1, <1>2, <1>3, <1>4, <1>5, <1>6, <1>7 DEF Next, Valid

\* valid() never refuses a catalogue that a disc filing system writes, for any
\* number of entries and wherever the empty ones are.
THEOREM NeverRefused == Spec => []WellFormedAccepted
<1>1. Init => Refusing
  BY DEF Init, Start, Refusing, LastSeen, WellFormedAccepted
<1>2. Refusing => WellFormedAccepted
  BY DEF Refusing
<1> QED BY Invariance, RefusingStep, <1>1, <1>2, PTL DEF Spec

----------------------------------------------------------------------------
(* A file that is read *)

(* What has been passed of the file, and what is left of it: all but the last
   of its sectors are full. *)
PassedAndLeft ==
  pc \in {"reading", "read", "unreadable"} /\ ~Empty(Now) =>
    /\ visited = Now.start..sec - 1
    /\ left = IF sec <= LastSector(Now)
              THEN Now.length - (sec - Now.start) * SectorBytes ELSE 0

ReadEnded ==
  /\ pc = "read" => sec = LastSector(Now) + 1
  /\ pc = "unreadable" => sec <= LastSector(Now) /\ sec >= device

Reading == PassedAndLeft /\ ReadEnded

\* All sectors but the last are full, and the last is not empty.
LEMMA SectorsHold ==
  ASSUME NEW n \in Nat, n # 0
  PROVE  /\ SectorsFor(n) * SectorBytes >= n
         /\ (SectorsFor(n) - 1) * SectorBytes < n
<1> DEFINE q == n \div SectorBytes
           r == n % SectorBytes
<1>1. q \in Nat /\ r \in Nat /\ n = q * SectorBytes + r /\ r < SectorBytes
  BY SectorBytesAssumption
<1> HIDE DEF q, r
<1>2. SectorsFor(n) = q + (IF r = 0 THEN 0 ELSE 1)
  BY DEF SectorsFor, q, r
<1>3. CASE r = 0
  <2>1. (q - 1) * SectorBytes = q * SectorBytes - SectorBytes
    BY <1>1, SectorBytesAssumption
  <2>2. q * SectorBytes \in Nat
    BY <1>1, SectorBytesAssumption
  <2> QED BY <1>1, <1>2, <1>3, <2>1, <2>2, SectorBytesAssumption
<1>4. CASE r # 0
  <2>1. (q + 1) * SectorBytes = q * SectorBytes + SectorBytes
    BY <1>1, SectorBytesAssumption
  <2>2. q * SectorBytes \in Nat
    BY <1>1, SectorBytesAssumption
  <2> QED BY <1>1, <1>2, <1>4, <2>1, <2>2, SectorBytesAssumption
<1> QED BY <1>3, <1>4

(* The sector the loop is at is the k-th of the file: it has a piece of it, and
   all of the rest if it is the last. *)
LEMMA PieceOfSector ==
  ASSUME NEW n \in Nat, n # 0, NEW k \in Nat, k < SectorsFor(n), left = n - k * SectorBytes
  PROVE  /\ Piece # 0
         /\ k + 1 < SectorsFor(n) => left - Piece = n - (k + 1) * SectorBytes
         /\ k + 1 = SectorsFor(n) => left - Piece = 0
<1> DEFINE S == SectorsFor(n)
<1>1. S \in Nat /\ SectorBytes \in Nat \ {0}
  BY SectorsOfFile, SectorBytesAssumption
<1>2. S * SectorBytes >= n /\ (S - 1) * SectorBytes < n
  BY SectorsHold
<1> HIDE DEF S
<1>3. (k + 1) * SectorBytes = k * SectorBytes + SectorBytes /\ k * SectorBytes \in Nat
  BY <1>1
<1>4. k * SectorBytes <= (S - 1) * SectorBytes
  BY <1>1 DEF S
<1>5. (S - 1) * SectorBytes \in Nat /\ S * SectorBytes \in Nat
  BY <1>1 DEF S
<1>6. left \in Nat /\ left > 0
  BY <1>2, <1>3, <1>4, <1>5
<1>7. ASSUME k + 1 < S PROVE left > SectorBytes
  <2>1. (k + 1) * SectorBytes <= (S - 1) * SectorBytes
    BY <1>1, <1>7
  <2> QED BY <1>1, <1>2, <1>3, <1>5, <2>1
<1>8. ASSUME k + 1 = S PROVE left <= SectorBytes
  BY <1>1, <1>2, <1>3, <1>8
<1> QED BY <1>1, <1>3, <1>6, <1>7, <1>8 DEF Piece, S

(* What the invariants say of the file under way. *)
LEMMA FileUnderWay ==
  ASSUME IndInv, pc \in {"reading", "read", "unreadable"}
  PROVE  /\ Now \in Entry /\ Now.start \in Nat /\ Now.length \in Nat
         /\ LastSector(Now) \in Nat /\ sec \in Nat /\ left \in Nat
         /\ sec >= Now.start /\ sec <= LastSector(Now) + 1
         /\ Empty(Now) => left = 0 /\ visited = {}
         /\ ~Empty(Now) => LastSector(Now) = Now.start + SectorsFor(Now.length) - 1
                           /\ Now.length # 0
                           /\ SectorsFor(Now.length) \in Nat /\ SectorsFor(Now.length) >= 1
<1>1. Now \in Entry
  BY Typed DEF IndInv, VisitedBehind, Now
<1>2. Now.start \in Nat /\ Now.length \in Nat
  BY <1>1 DEF Entry
<1>3. LastSector(Now) \in Nat
  BY <1>1, LastOfEntry
<1>4. Empty(Now) => visited = {}
  BY DEF IndInv, VisitedBehind, Body
<1> QED BY <1>1, <1>2, <1>3, <1>4, SectorsOfFile
       DEF IndInv, TypeOK, VisitedBehind, LastSector, Empty

LEMMA ReadingStep == IndInv /\ Reading /\ [Next]_vars => Reading'
<1> SUFFICES ASSUME IndInv, Reading, [Next]_vars PROVE Reading'
  OBVIOUS
<1> USE DEF Reading
<1>1. CASE Valid
  <2>1. pc' \in {"fragment", "entries", "valid", "invalid"}
    BY <1>1 DEF Valid, BeginFragment, SkipEmptyEntry, CheckEntry, EndFragment
  <2> QED BY <2>1 DEF PassedAndLeft, ReadEnded
<1>2. CASE OpenFile
  <2>1. PICK f \in DOMAIN fragments : \E i \in DOMAIN fragments[f].entries :
             /\ frag' = f /\ pos' = i
             /\ sec' = fragments[f].entries[i].start
             /\ left' = fragments[f].entries[i].length
    BY <1>2 DEF OpenFile
  <2>2. PICK i \in DOMAIN fragments[f].entries :
             /\ frag' = f /\ pos' = i
             /\ sec' = fragments[f].entries[i].start
             /\ left' = fragments[f].entries[i].length
    BY <2>1
  <2>3. /\ pc = "valid" /\ pc' = "reading"
        /\ UNCHANGED <<format, fragments, device, visited>>
    BY <1>2 DEF OpenFile, disc
  <2>4. Now' = fragments[f].entries[i] /\ sec' = Now.start' /\ left' = Now.length'
    BY <2>2, <2>3 DEF Now, Here
  <2>5. Now' \in Entry
    <3>1. fragments[f].entries \in Seq(Entry)
      BY DEF IndInv, TypeOK, Fragment
    <3> QED BY <2>4, <3>1
  <2>6. Now.start' \in Nat /\ Now.length' \in Nat /\ LastSector(Now)' >= Now.start'
    BY <2>5, LastOfEntry DEF Entry
  <2>7. visited' = {}
    BY <2>3 DEF IndInv, VisitedBehind
  <2>8. visited' = Now.start'..sec' - 1
    BY <2>4, <2>6, <2>7
  <2>9. left' = Now.length' - (sec' - Now.start') * SectorBytes
    BY <2>4, <2>6, SectorBytesAssumption
  <2> QED BY <2>3, <2>4, <2>6, <2>8, <2>9 DEF PassedAndLeft, ReadEnded
<1>3. CASE VisitSector
  <2>1. /\ pc = "reading" /\ sec <= LastSector(Now) /\ Now' = Now
        /\ UNCHANGED <<format, fragments, device>>
    BY <1>3 DEF VisitSector, MoreToVisit, disc, Now, Here
  <2> DEFINE n == Now.length
             k == sec - Now.start
  <2>2. CASE ~Readable
    <3>1. pc' = "unreadable" /\ UNCHANGED <<sec, left, visited>>
      BY <1>3, <2>2 DEF VisitSector, reading
    <3>2. sec >= device
      BY <2>2, FileUnderWay, <2>1 DEF Readable, IndInv, TypeOK
    <3> QED BY <2>1, <3>1, <3>2 DEF PassedAndLeft, ReadEnded
  <2>3. CASE Readable
    <3>1. /\ pc' = "reading" /\ left' = left - Piece /\ sec' = sec + 1
          /\ visited' = IF Piece = 0 THEN visited ELSE visited \cup {sec}
      BY <1>3, <2>1, <2>3 DEF VisitSector, NextSector
    <3>2. ASSUME ~Empty(Now)
          PROVE  /\ visited' = Now.start..sec' - 1
                 /\ left' = IF sec' <= LastSector(Now)
                            THEN Now.length - (sec' - Now.start) * SectorBytes ELSE 0
      <4>1. /\ n \in Nat /\ n # 0 /\ k \in Nat /\ k < SectorsFor(n) /\ Now.start \in Nat
            /\ sec \in Nat /\ LastSector(Now) = Now.start + SectorsFor(n) - 1
            /\ SectorsFor(n) \in Nat
        BY <2>1, <3>2, FileUnderWay
      <4>2. left = n - k * SectorBytes /\ visited = Now.start..sec - 1
        BY <2>1, <3>2 DEF PassedAndLeft
      <4>3. /\ Piece # 0
            /\ k + 1 < SectorsFor(n) => left - Piece = n - (k + 1) * SectorBytes
            /\ k + 1 = SectorsFor(n) => left - Piece = 0
        BY <4>1, <4>2, PieceOfSector
      <4>4. sec' - Now.start = k + 1
        BY <3>1, <4>1
      <4>5. visited' = Now.start..sec' - 1
        BY <3>1, <4>1, <4>2, <4>3
      <4>6. sec' <= LastSector(Now) <=> k + 1 < SectorsFor(n)
        BY <3>1, <4>1
      <4>7. k + 1 < SectorsFor(n) \/ k + 1 = SectorsFor(n)
        BY <4>1
      <4> QED BY <3>1, <4>3, <4>4, <4>5, <4>6, <4>7
    <3> QED BY <2>1, <3>1, <3>2 DEF PassedAndLeft, ReadEnded
  <2> QED BY <2>2, <2>3
<1>4. CASE FileRead
  <2>1. /\ pc = "reading" /\ pc' = "read" /\ ~(sec <= LastSector(Now))
        /\ Now' = Now /\ UNCHANGED <<sec, left, visited>>
    BY <1>4 DEF FileRead, MoreToVisit, disc, reading, Now, Here
  <2>2. sec = LastSector(Now) + 1
    BY <2>1, FileUnderWay
  <2> QED BY <2>1, <2>2 DEF PassedAndLeft, ReadEnded
<1>5. CASE UNCHANGED vars
  BY <1>5 DEF vars, PassedAndLeft, ReadEnded, Now, Here
<1> QED BY <1>1, <1>2, <1>3, <1>4, <1>5 DEF Next, VisitFileBody

\* A file that is read to its end has had each of its sectors visited, and the
\* pieces add up to its length, for files and sectors of any size; and only a
\* medium that ends too early stops a read (visit_file_body_piecewise).
THEOREM FilesReadWhole == Spec => []ReadWhole
<1>1. Init => Reading
  BY DEF Init, Start, Reading, PassedAndLeft, ReadEnded
<1>2. IndInv /\ Reading => ReadWhole
  <2> SUFFICES ASSUME IndInv, Reading PROVE ReadWhole
    OBVIOUS
  <2>1. ASSUME pc = "read" PROVE visited = Body(Now) /\ left = 0
    <3>1. CASE Empty(Now)
      BY <2>1, <3>1, FileUnderWay DEF Body
    <3>2. CASE ~Empty(Now)
      <4>1. sec = LastSector(Now) + 1 /\ sec \in Nat /\ LastSector(Now) \in Nat
        BY <2>1, FileUnderWay DEF Reading, ReadEnded
      <4>2. sec - 1 = LastSector(Now) /\ ~(sec <= LastSector(Now))
        BY <4>1
      <4> QED BY <2>1, <3>2, <4>2 DEF Reading, PassedAndLeft, Body
    <3> QED BY <3>1, <3>2
  <2>2. ASSUME pc = "unreadable" PROVE LastSector(Now) >= device
    BY <2>2, FileUnderWay DEF Reading, ReadEnded, IndInv, TypeOK
  <2> QED BY <2>1, <2>2 DEF ReadWhole
<1> QED BY Invariance, ReadingStep, <1>1, <1>2, PTL DEF Spec
=============================================================================
