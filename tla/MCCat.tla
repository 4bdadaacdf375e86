------------------------------- MODULE MCCat -------------------------------
(* Catalogues of up to MostListed files, two directories of which differ only *)
(* by a small letter, on screens of one, two and four columns; and of up to   *)
(* MostMixed files, some of which are odd: in directory 0, or with characters *)
(* that move the counter of the stream.                                       *)
EXTENDS Cat
CONSTANTS MostListed, MostMixed     (* bounds *)

File(dir, name, locked) == [dir |-> dir, name |-> name, locked |-> locked]
Dollar == 36
Files ==
  {File(Dollar, <<65>>, FALSE), File(Dollar, <<65, 66, 67, 68, 69, 70, 71>>, TRUE),
   File(66, <<97, 66>>, FALSE), File(66, <<65, 98>>, TRUE), File(98, <<>>, FALSE)}

\* Seven TABs, two that end where a column begins, a line end, a carriage return, and TAB for a
\* directory.
Odd ==
  {File(0, <<65>>, FALSE), File(Tab, <<65>>, FALSE), File(66, <<65, LineEnd, 66>>, TRUE),
   File(Dollar, <<65, Return, 66>>, FALSE), File(Dollar, [i \in 1..7 |-> Tab], FALSE),
   File(Dollar, <<Tab, Tab, 65, 66, 67, 68>>, FALSE)}

MCCatInit ==
  /\ ui \in {"Acorn", "Watford"} /\ screen_width \in {20, 40, 80}
  /\ cat_directory \in {Dollar, 66, 68}
  /\ \/ cat_entries \in {s \in BoundedSeq(Files, MostListed) : IsInjective(s)}
     \/ cat_entries \in {s \in BoundedSeq(Files \cup Odd, MostMixed) : IsInjective(s)}
  /\ StartCat

\* No catalogue is shown.
NoCat ==
  ui = "Acorn" /\ screen_width = 40 /\ cat_directory = Dollar /\ cat_entries = <<>> /\ StartCat
=============================================================================
