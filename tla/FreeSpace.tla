----------------------------- MODULE FreeSpace -----------------------------
(***************************************************************************)
(* The commands that say what a disc has room for: extract-unused          *)
(* (cmd_extract_unused.cc, over the sector map of dfs_unused.cc), space    *)
(* (cmd_space.cc) and free (cmd_free.cc).  Each works out the free sectors *)
(* in its own way from the same catalogue; the steps are the passes of     *)
(* their loops.  Only Opus DDOS and Acorn DFS catalogues have been through *)
(* valid() when a command runs, so any catalogue may be met here.          *)
(***************************************************************************)
EXTENDS CatalogData, FiniteSets, SequencesExt

VARIABLES
  format, fragments,
  device,   (* how many sectors of the medium can be read                  *)
  pc,
  frag, pos,(* catalog and entry the loop of a command is at               *)
  used_by,  (* SectorMap::used_by_                                         *)
  sec,      (* the loop of extract-unused                                  *)
  begin,    (* where the span under way began                              *)
  spans,    (* the files written: first sector, end, and end of the data   *)
  gaps,     (* gaps of space                                               *)
  added_initial_gap,
  sectors_used  (* of free *)

vars == <<format, fragments, device, pc, frag, pos, used_by, sec, begin, spans,
          gaps, added_initial_gap, sectors_used>>
disc == <<format, fragments, device>>
mapping == <<used_by, sec, begin, spans>>
spacing == <<gaps, added_initial_gap>>

TotalSectors == fragments[1].total     \* Catalog::total_sectors
Reserved == DataSectorsReservedForCatalog(format)
Places == UNION {{c} \X DOMAIN fragments[c].entries : c \in DOMAIN fragments}
At(place) == fragments[place[1]].entries[place[2]]
NoSpan == -1

Start ==
  /\ pc = "command"
  /\ frag = 1 /\ pos = 1
  /\ used_by = <<>> /\ sec = 0 /\ begin = NoSpan /\ spans = <<>>
  /\ gaps = <<>> /\ added_initial_gap = FALSE
  /\ sectors_used = 0

Init ==
  /\ format \in Format /\ device \in Nat
  /\ fragments \in Seq(Fragment) /\ Len(fragments) = FragmentCount(format)
  /\ Start

\* The next entry in the order of Catalog::entries().
NextEntry ==
  IF pos < Len(fragments[frag].entries)
    THEN frag' = frag /\ pos' = pos + 1
    ELSE frag' = frag + 1 /\ pos' = 1
EntryHere == frag \in DOMAIN fragments /\ pos \in DOMAIN fragments[frag].entries
NoEntriesHere == frag \in DOMAIN fragments /\ pos \notin DOMAIN fragments[frag].entries
EntriesDone == frag \notin DOMAIN fragments

----------------------------------------------------------------------------
(* extract-unused: Catalog::map_sectors, then the loop over the sectors.   *)
(* A catalogue in a track of its own is a matter for OpusVolumes.          *)

ExtractUnused ==
  /\ pc = "command" /\ format # "OpusDDOS"
  /\ pc' = "map"
  /\ used_by' = [s \in 0..CatalogSectorsForFormat(format) - 1 |-> "catalog"]
  /\ UNCHANGED <<disc, frag, pos, sec, begin, spans, spacing, sectors_used>>

\* add_file_sectors(start, last + 1): an empty file is given one sector.
FileSectors(e) == e.start..LastSector(e)

\* std::map::insert keeps what a sector is used by already.
Insert(map, sectors, owner) ==
  [s \in DOMAIN map \cup sectors |-> IF s \in DOMAIN map THEN map[s] ELSE owner]

MapFile ==
  /\ pc = "map" /\ EntryHere
  /\ used_by' = Insert(used_by, FileSectors(At(<<frag, pos>>)), <<frag, pos>>)
  /\ NextEntry
  /\ UNCHANGED <<disc, pc, sec, begin, spans, spacing, sectors_used>>

MapNextFragment ==
  /\ pc = "map" /\ NoEntriesHere
  /\ NextEntry
  /\ UNCHANGED <<disc, pc, mapping, spacing, sectors_used>>

\* add_other(last_sec, ":::end") makes sure that the last span ends.
MapDone ==
  /\ pc = "map" /\ EntriesDone
  /\ used_by' = [s \in DOMAIN used_by \cup {TotalSectors} |->
                  IF s = TotalSectors THEN ":::end" ELSE used_by[s]]
  /\ pc' = "scan"
  /\ UNCHANGED <<disc, frag, pos, sec, begin, spans, spacing, sectors_used>>

\* write_span stops quietly at a sector it cannot read.
WriteSpan ==
  Append(spans, [first |-> begin, end |-> sec, written |-> Max({begin, Min({sec, device})})])

\* Wrong: the next span starts where this one did.
AfterSpanKept == begin

AfterSpan == NoSpan

ScanSector ==
  /\ pc = "scan" /\ sec <= TotalSectors
  /\ sec' = sec + 1
  /\ IF sec \in DOMAIN used_by
       THEN /\ spans' = IF begin # NoSpan THEN WriteSpan ELSE spans
            /\ begin' = AfterSpan
       ELSE /\ begin' = IF begin = NoSpan THEN sec ELSE begin
            /\ UNCHANGED spans
  /\ UNCHANGED <<disc, pc, frag, pos, used_by, spacing, sectors_used>>

ScanDone ==
  /\ pc = "scan" /\ sec > TotalSectors
  /\ pc' = "extracted"
  /\ UNCHANGED <<disc, frag, pos, mapping, spacing, sectors_used>>

----------------------------------------------------------------------------
(* space: from the last entry of the last catalog to the first of the first *)

Space ==
  /\ pc = "command"
  /\ pc' = "space"
  /\ frag' = Len(fragments)
  /\ pos' = Len(fragments[Len(fragments)].entries)
  /\ UNCHANGED <<disc, mapping, spacing, sectors_used>>

Before(p, q) == p[1] < q[1] \/ (p[1] = q[1] /\ p[2] < q[2])

\* first_file_entry_pos: the lowest start, and of those the first listed.
IsFirstFile(p) ==
  /\ p \in Places
  /\ \A q \in Places \ {p} :
       \/ At(p).start < At(q).start
       \/ At(p).start = At(q).start /\ Before(p, q)

\* Wrong: the files of the next catalogue are taken to be in rising order.
StartSecOfNextFront ==
  CASE pos > 1 -> At(<<frag, pos - 1>>).start
    [] pos = 1 /\ frag = Len(fragments) -> TotalSectors
    [] OTHER -> Head(fragments[frag + 1].entries).start

\* start_sec_of_next, for an entry that has one to ask about.
StartSecOfNext ==
  CASE pos > 1 -> At(<<frag, pos - 1>>).start
    [] pos = 1 /\ frag = Len(fragments) -> TotalSectors
    [] OTHER -> Last(fragments[frag + 1].entries).start

\* .back() of an empty vector: undefined.
NextIsNowhere == pos = 1 /\ frag < Len(fragments) /\ fragments[frag + 1].entries = <<>>

OutOfOrder(last, next) == last > next

\* maybe_gap, when it does not throw.
MaybeGap(list, last, next) == IF next > last THEN Append(list, next - last) ELSE list

InitialGapHere == frag = 1 /\ IsFirstFile(<<frag, pos>>)

SpaceEntry ==
  /\ pc = "space" /\ EntryHere
  /\ LET e == At(<<frag, pos>>)
         before == IF InitialGapHere THEN MaybeGap(gaps, Reserved, e.start) ELSE gaps
     IN  IF InitialGapHere /\ OutOfOrder(Reserved, e.start)
           THEN pc' = "thrown" /\ UNCHANGED spacing
         ELSE IF NextIsNowhere
           THEN pc' = "undefined" /\ UNCHANGED spacing
         ELSE IF OutOfOrder(LastSector(e) + 1, StartSecOfNext)
           THEN pc' = "thrown" /\ UNCHANGED spacing
         ELSE /\ pc' = pc
              /\ gaps' = MaybeGap(before, LastSector(e) + 1, StartSecOfNext)
              /\ added_initial_gap' = (added_initial_gap \/ InitialGapHere)
  /\ pos' = pos - 1
  /\ UNCHANGED <<disc, frag, mapping, sectors_used>>

SpaceNextCatalog ==
  /\ pc = "space" /\ pos = 0 /\ frag > 1
  /\ frag' = frag - 1
  /\ pos' = Len(fragments[frag - 1].entries)
  /\ UNCHANGED <<disc, pc, mapping, spacing, sectors_used>>

Following == IF Places = {} THEN TotalSectors
             ELSE At(CHOOSE p \in Places : IsFirstFile(p)).start

SpaceDone ==
  /\ pc = "space" /\ pos = 0 /\ frag = 1
  /\ IF added_initial_gap
       THEN pc' = "spaced" /\ UNCHANGED spacing
     ELSE IF OutOfOrder(Reserved, Following)
       THEN pc' = "thrown" /\ UNCHANGED spacing
     ELSE /\ pc' = "spaced"
          /\ gaps' = MaybeGap(gaps, Reserved, Following)
          /\ added_initial_gap' = TRUE
  /\ UNCHANGED <<disc, frag, pos, mapping, sectors_used>>

----------------------------------------------------------------------------
(* free *)

\* The catalogue is taken to be two sectors, whatever the format.
Free ==
  /\ pc = "command"
  /\ pc' = "free"
  /\ sectors_used' = 2
  /\ UNCHANGED <<disc, frag, pos, mapping, spacing>>

SectorsForThisFile(e) == SectorsFor(e.length)

FreeEntry ==
  /\ pc = "free" /\ EntryHere
  /\ LET end == At(<<frag, pos>>).start + SectorsForThisFile(At(<<frag, pos>>))
     IN  sectors_used' = IF end > sectors_used THEN end ELSE sectors_used
  /\ NextEntry
  /\ UNCHANGED <<disc, pc, mapping, spacing>>

FreeNextFragment ==
  /\ pc = "free" /\ NoEntriesHere
  /\ NextEntry
  /\ UNCHANGED <<disc, pc, mapping, spacing, sectors_used>>

FreeDone ==
  /\ pc = "free" /\ EntriesDone
  /\ pc' = "freed"
  /\ UNCHANGED <<disc, frag, pos, mapping, spacing, sectors_used>>

----------------------------------------------------------------------------
Loops == \/ MapFile \/ MapNextFragment \/ MapDone \/ ScanSector \/ ScanDone
         \/ SpaceEntry \/ SpaceNextCatalog \/ SpaceDone
         \/ FreeEntry \/ FreeNextFragment \/ FreeDone

Next == ExtractUnused \/ Space \/ Free \/ Loops

Spec == Init /\ [][Next]_vars

----------------------------------------------------------------------------
(* Properties *)

TypeOK ==
  /\ format \in Format /\ device \in Nat
  /\ fragments \in Seq(Fragment) /\ Len(fragments) = FragmentCount(format)
  /\ pc \in {"command", "map", "scan", "extracted", "space", "spaced", "thrown",
             "undefined", "free", "freed"}
  /\ frag \in 1..Len(fragments) + 1 /\ pos \in Nat
  /\ sec \in 0..TotalSectors + 1
  /\ begin \in {NoSpan} \cup 0..sec - 1
  /\ \A i \in DOMAIN spans : spans[i].first <= spans[i].written /\ spans[i].first < spans[i].end
  /\ gaps \in Seq(Nat \ {0})
  /\ sectors_used \in Nat

CatalogInUse == 0..Reserved - 1
InUse == CatalogInUse \cup UNION {Body(At(p)) : p \in Places}
EmptyAt == {At(p).start : p \in {p \in Places : Empty(At(p))}}
Disc == 0..TotalSectors - 1
Span(s) == s.first..s.end - 1

\* The files extract-unused writes are the free stretches of the disc: together
\* they hold every sector that is neither in use nor the start sector of an
\* empty file, no two of them touch, and what the medium has of them is written,
\* whatever order the catalogue is in.
SpansAreTheFreeStretches ==
  pc = "extracted" =>
    /\ UNION {Span(spans[i]) : i \in DOMAIN spans} = Disc \ (InUse \cup EmptyAt)
    /\ \A i \in 1..Len(spans) - 1 : spans[i].end < spans[i + 1].first
    /\ \A i \in DOMAIN spans : \A s \in Span(spans[i]) : s < device => s < spans[i].written

\* Where two files claim a sector the sector map shows the one listed first,
\* and never a file instead of the catalogue.
FirstListedOwnsSector ==
  pc \in {"scan", "extracted"} =>
    \A s \in Disc \cap InUse :
      IF s \in CatalogInUse THEN used_by[s] = "catalog"
      ELSE /\ used_by[s] \in Places /\ s \in FileSectors(At(used_by[s]))
           /\ \A p \in Places : Before(p, used_by[s]) => s \notin Body(At(p))

\* What extract-unused finds on a disc, and how its map came by it.
UnusedAreTheFreeStretches == SpansAreTheFreeStretches /\ FirstListedOwnsSector

\* Files one before the other from the end of the disc to the catalogue, those
\* of a second catalogue behind those of the first; every file has a body.
Tidy ==
  /\ \A p \in Places : ~Empty(At(p)) /\ Body(At(p)) \subseteq Disc \ CatalogInUse
  /\ \A c \in DOMAIN fragments : Descending(fragments[c].entries)
  /\ \A p, q \in Places : p[1] < q[1] => LastSector(At(p)) < At(q).start
  /\ Reserved <= TotalSectors

\* Every sector free calls free is behind every file; what it calls used ends
\* with a file, or with a catalogue of two sectors.
FreeIsBehindFiles ==
  pc = "freed" =>
    /\ \A p \in Places : \A s \in Body(At(p)) : s < sectors_used
    /\ sectors_used = 2 \/ sectors_used - 1 \in UNION {Body(At(p)) : p \in Places}
         \/ sectors_used \in EmptyAt

SumOf(list) ==
  LET upTo[n \in 0..Len(list)] == IF n = 0 THEN 0 ELSE upTo[n - 1] + list[n]
  IN  upTo[Len(list)]

\* On a tidy disc the gaps add up to the free sectors: none is left out and
\* none counted twice, though the first gap is added at an odd moment; and
\* space never calls such a catalogue out of order.
SpaceAddsUp ==
  Tidy => /\ pc = "spaced" => SumOf(gaps) = Cardinality(Disc \ InUse)
          /\ pc # "thrown"

\* The gap before the first file is added once on any disc: the assertion of
\* add_initial_gap (cmd_space.cc:176) holds wherever it is called.
FirstGapOnce == pc = "space" /\ EntryHere /\ InitialGapHere => ~added_initial_gap

\* What space and free say of the room on a disc.
SpaceAndFreeAddUp == TypeOK /\ SpaceAddsUp /\ FirstGapOnce /\ FreeIsBehindFiles

=============================================================================
