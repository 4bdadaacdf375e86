--------------------------- MODULE MCDiscCommands ---------------------------
(***************************************************************************)
(* The commands that do more with a catalogue than to show it, each on the *)
(* catalogues that are hard for it: extract-files, the three that look for *)
(* free sectors, cat, and those that find files by their names.            *)
(***************************************************************************)
EXTENDS MCExtractFiles, MCFreeSpace, MCCat

CONSTANTS MaxSurface, MostTyped    \* of names

VARIABLES
  running,
  command, arg, ctx, matcher, wanted, catalog, entry, listed, found, doing

OfNames == <<command, arg, ctx, matcher, wanted, catalog, entry, listed, found, doing>>
mcvars == <<running, evars, vars, cvars, OfNames>>

Naming == INSTANCE MCFileNames

NoExtract ==
  current_directory = "." /\ entries = <<>> /\ readable = 0 /\ before = <<>> /\ StartExtracting
NoSpace ==
  /\ format = "DFS" /\ device = 0
  /\ fragments = <<[aligned |-> TRUE, total |-> Reserved, entries |-> <<>>]>>
  /\ Start
NoNames ==
  /\ command = 0 /\ arg = 0 /\ ctx = 0 /\ matcher = 0 /\ wanted = 0 /\ catalog = 0
  /\ entry = 0 /\ listed = 0 /\ found = 0 /\ doing = 0

MCInit ==
  \/ running = "extract-files" /\ MCExtractInit /\ NoSpace /\ NoCat /\ NoNames
  \/ running = "free space" /\ MCFreeInit /\ NoExtract /\ NoCat /\ NoNames
  \/ running = "cat" /\ MCCatInit /\ NoExtract /\ NoSpace /\ NoNames
  \/ running = "names" /\ Naming!MCNamesInit /\ NoExtract /\ NoSpace /\ NoCat

MCNext ==
  \/ running = "extract-files" /\ Extract /\ UNCHANGED <<running, vars, cvars, OfNames>>
  \/ running = "free space" /\ Next /\ UNCHANGED <<running, evars, cvars, OfNames>>
  \/ running = "cat" /\ ShowCat /\ UNCHANGED <<running, evars, vars, OfNames>>
  \/ running = "names" /\ Naming!NamesNext /\ UNCHANGED <<running, evars, vars, cvars>>

MCSpec == MCInit /\ [][MCNext]_mcvars

\* info lists the files that the manual says a wildcard means.
WildcardsAsDocumented == running = "names" => Naming!NamesTypeOK /\ Naming!WildcardsAsDocumented

\* What type finds under a name, info lists under it, and the other way round.
FoundMeansListed == running = "names" => Naming!FoundMeansListed
=============================================================================
