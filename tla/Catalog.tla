------------------------------ MODULE Catalog ------------------------------
(***************************************************************************)
(* Validation of a catalogue (CatalogFragment::valid, Catalog::valid) one  *)
(* entry at a time, and then the reading of one of its files               *)
(* (CatalogEntry::visit_file_body_piecewise) one sector at a time.         *)
(***************************************************************************)
EXTENDS CatalogData

VARIABLES
  format,     (* Catalog::disc_format_                                     *)
  fragments,  (* Catalog::fragments_                                       *)
  device,     (* how many sectors of the medium can be read                *)
  pc,
  frag, pos,  (* the fragment and the entry the loops are at               *)
  last_file_start, (* of valid(): NoFile until a file has been seen        *)
  sec, left,  (* of visit_file_body_piecewise: sector, bytes still to pass *)
  visited     (* history: the sectors whose bytes the visitor was given    *)

vars == <<format, fragments, device, pc, frag, pos, last_file_start, sec, left, visited>>
disc == <<format, fragments, device>>
reading == <<sec, left, visited>>

NoFile == -1
Here == fragments[frag]
Now == Here.entries[pos]

Start ==
  /\ pc = "fragment"
  /\ frag = 1 /\ pos = 1
  /\ last_file_start = NoFile
  /\ sec = 0 /\ left = 0 /\ visited = {}

(* Nothing is assumed of the bytes a catalogue is read from. *)
Init ==
  /\ format \in Format
  /\ fragments \in [1..FragmentCount(format) -> Fragment]
  /\ device \in Nat
  /\ Start

----------------------------------------------------------------------------
(* Catalog::valid *)

TotalTooSmall(f) ==
  IF format = "OpusDDOS" THEN f.total < OpusTrack
                         ELSE f.total <= CatalogSectorsForFormat(format)

BeginFragment ==
  /\ pc = "fragment"
  /\ IF ~Here.aligned \/ TotalTooSmall(Here)
       THEN pc' = "invalid"
       ELSE pc' = "entries"
  /\ pos' = 1
  /\ last_file_start' = NoFile
  /\ UNCHANGED <<disc, frag, reading>>

\* An entry of length zero cannot overlap with anything.
SkipEmptyEntry ==
  /\ pc = "entries" /\ pos \in DOMAIN Here.entries
  /\ Empty(Now)
  /\ pos' = pos + 1
  /\ UNCHANGED <<disc, pc, frag, last_file_start, reading>>

\* Wrong: the file before may end where this one starts.
MisplacedTouching ==
  LastSector(Now) >= Here.total \/ LastSector(Now) > last_file_start

\* Wrong: only the first sector is compared.
MisplacedByStart ==
  LastSector(Now) >= Here.total \/ Now.start >= last_file_start

\* Wrong: a free sector is wanted between two files.
MisplacedAdjacent ==
  LastSector(Now) >= Here.total \/ LastSector(Now) + 1 >= last_file_start

\* Wrong: the end of the device is not checked.
MisplacedUnbounded == LastSector(Now) >= last_file_start

Misplaced == LastSector(Now) >= Here.total \/ LastSector(Now) >= last_file_start

\* The first file seen is compared with nothing.
CheckEntry ==
  /\ pc = "entries" /\ pos \in DOMAIN Here.entries
  /\ ~Empty(Now)
  /\ IF last_file_start # NoFile /\ Misplaced
       THEN pc' = "invalid" /\ UNCHANGED <<pos, last_file_start>>
       ELSE pc' = pc /\ pos' = pos + 1 /\ last_file_start' = Now.start
  /\ UNCHANGED <<disc, frag, reading>>

EndFragment ==
  /\ pc = "entries" /\ pos \notin DOMAIN Here.entries
  /\ IF frag = FragmentCount(format)
       THEN pc' = "valid" /\ frag' = frag
       ELSE pc' = "fragment" /\ frag' = frag + 1
  /\ UNCHANGED <<disc, pos, last_file_start, reading>>

----------------------------------------------------------------------------
(* CatalogEntry::visit_file_body_piecewise *)

OpenFile ==
  /\ pc = "valid"
  /\ \E f \in DOMAIN fragments : \E i \in DOMAIN fragments[f].entries :
       /\ frag' = f /\ pos' = i
       /\ sec' = fragments[f].entries[i].start
       /\ left' = fragments[f].entries[i].length
  /\ pc' = "reading"
  /\ UNCHANGED <<disc, last_file_start, visited>>

Piece == IF left > SectorBytes THEN SectorBytes ELSE left

\* Wrong: the last sector of the file is left out.
MoreToVisitExclusive == sec < LastSector(Now)

MoreToVisit == sec <= LastSector(Now)

Readable == sec < device

NextSector == sec + 1

VisitSector ==
  /\ pc = "reading" /\ MoreToVisit
  /\ IF Readable
       THEN /\ pc' = pc
            /\ visited' = IF Piece = 0 THEN visited ELSE visited \cup {sec}
            /\ left' = left - Piece
            /\ sec' = NextSector
       ELSE pc' = "unreadable" /\ UNCHANGED reading
  /\ UNCHANGED <<disc, frag, pos, last_file_start>>

FileRead ==
  /\ pc = "reading" /\ ~MoreToVisit
  /\ pc' = "read"
  /\ UNCHANGED <<disc, frag, pos, last_file_start, reading>>

Valid == BeginFragment \/ SkipEmptyEntry \/ CheckEntry \/ EndFragment
VisitFileBody == VisitSector \/ FileRead

Next == Valid \/ OpenFile \/ VisitFileBody

Spec == Init /\ [][Next]_vars /\ WF_vars(Valid \/ VisitFileBody)

----------------------------------------------------------------------------
(* Properties *)

Passed == pc \in {"valid", "reading", "read", "unreadable"}

PlaceInFragment == frag \in DOMAIN fragments /\ pos \in 1..Len(Here.entries) + 1

\* Types; the loops stay in the fragments and the entries there are, and the
\* bytes still to be visited never go below zero.
TypeOK ==
  /\ format \in Format
  /\ fragments \in [1..FragmentCount(format) -> Fragment]
  /\ device \in Nat
  /\ pc \in {"fragment", "entries", "valid", "invalid", "reading", "unreadable", "read"}
  /\ frag \in DOMAIN fragments
  /\ pc \in {"entries", "reading", "unreadable", "read"} => PlaceInFragment
  /\ pos \in Nat
  /\ last_file_start \in Nat \cup {NoFile}
  /\ sec \in Nat /\ left \in Nat
  /\ visited \subseteq Nat

\* valid() compares neighbours only, and skips empty entries, yet in a fragment
\* that passes any two files are apart and in descending order.
ValidMeansDescending ==
  Passed =>
    \A f \in DOMAIN fragments : Descending(fragments[f].entries)

FirstFile(entries, i) == \A j \in 1..i - 1 : Empty(entries[j])

InsideOrFirst(f, i) ==
  \/ Empty(f.entries[i])
  \/ FirstFile(f.entries, i)
  \/ LastSector(f.entries[i]) < f.total

\* Every file of a fragment that passes lies in the device its catalogue
\* describes, except perhaps the first one listed: valid() does not look.
ValidMeansInside ==
  Passed =>
    \A f \in DOMAIN fragments :
      \A i \in DOMAIN fragments[f].entries : InsideOrFirst(fragments[f], i)

\* What a disc filing system writes: room for the catalogue, files one before
\* the other in front of the end of the disc.
WellFormed(f) ==
  /\ f.aligned
  /\ f.total > DataSectorsReservedForCatalog(format)
  /\ format = "OpusDDOS" => f.total >= OpusTrack
  /\ Descending(f.entries)
  /\ \A i \in DOMAIN f.entries : Body(f.entries[i]) \subseteq 0..f.total - 1

\* valid() never refuses such a catalogue, wherever its empty entries are.
WellFormedAccepted ==
  pc = "invalid" => \E f \in DOMAIN fragments : ~WellFormed(fragments[f])

\* Reading a file of a valid catalogue never visits a sector that holds bytes of
\* another file in the same fragment.
ReadsOwnSectors ==
  \A i \in DOMAIN Here.entries :
    pc \in {"reading", "read", "unreadable"} /\ i # pos => visited \cap Body(Here.entries[i]) = {}

\* A file read to the end has had each of its sectors visited, and the pieces
\* given to the visitor add up to its length.  Only a medium shorter than the
\* file makes a read fail, or one on which an empty file has its start sector
\* past the end.
ReadWhole ==
  /\ pc = "read" => visited = Body(Now) /\ left = 0
  /\ pc = "unreadable" => LastSector(Now) >= device
=============================================================================
