---------------------------- MODULE MCFileNames ----------------------------
(* Arguments of up to MostTyped characters behind every kind of drive, on    *)
(* drive 0, an Acorn DFS disc, and drive 1, of which volumes A and B are.    *)
EXTENDS Integers, SequencesExt

CONSTANTS MaxSurface, MostTyped     (* bounds *)

VARIABLES command, arg, ctx, matcher, wanted, catalog, entry, listed, found, doing

File(d, n) == [dir |-> d, name |-> n]
Entries ==
  <<File("A", <<"A">>), File("A", <<"B", "A">>), File("B", <<"A", "B">>), File("a", <<"b">>),
    File("A", <<"a">>), File("B", <<"A", ".", "B">>), File("A", <<"#">>), File("A", <<>>)>>
Volumes == [x \in {"A", "B"} |-> IF x = "A" THEN Entries ELSE Reverse(Entries)]
MCDiscs == [d \in {0, 1} |-> IF d = 0 THEN [x \in {""} |-> Entries] ELSE Volumes]

INSTANCE FileNames WITH Discs <- MCDiscs

\* Of an argument behind its drive, if it has one.
Typed == {"A", "a", "B", ".", "#", "*", "^"}
Drives ==
  {<<>>, <<":", "0", ".">>, <<":", "1", ".">>, <<":", "1", "B", ".">>, <<":", "0", "0", ".">>,
   <<":", "1", "0", ".">>, <<":", "+", "0", ".">>, <<":", " ", "0", ".">>, <<":", "-", "0", ".">>,
   <<":", "0", "A", ".">>, <<":", "0">>, <<":">>}

MCNamesInit ==
  /\ command \in {"info", "type"}
  /\ \E d \in Drives, t \in BoundedSeq(Typed, MostTyped) : arg = d \o t
  /\ ctx \in {[vol |-> [surface |-> 0, letter |-> ""], dir |-> "A"],
              [vol |-> [surface |-> 1, letter |-> "B"], dir |-> "B"]}
  /\ Begin
=============================================================================
