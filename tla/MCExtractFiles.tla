--------------------------- MODULE MCExtractFiles ---------------------------
(* Catalogues of up to MostEntries entries in two directories, some with names    *)
(* that clash, and a destination with or without a file of such a name.     *)
EXTENDS ExtractFiles, SequencesExt

CONSTANTS FileLengths, MostEntries

Names == {<<"X">>, <<Inf>>, <<"X", Inf>>}

Listed ==
  {[dir |-> d, name |-> n, start |-> 2, length |-> l] :
     d \in Part \ {Inf, "."}, n \in Names, l \in FileLengths}

MCExtractInit ==
  /\ current_directory \in Part \ {Inf}
  /\ entries \in BoundedSeq(Listed, MostEntries)
  /\ readable \in {3, 5}
  /\ before \in {<<>>, [n \in {<<"X", Inf>>} |-> OldFile]}
  /\ StartExtracting
=============================================================================
