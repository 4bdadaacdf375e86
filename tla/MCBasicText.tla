---------------------------- MODULE MCBasicText ----------------------------
(* Programs of a few short lines: with loops; cut off at every byte; with  *)
(* a byte changed; with a GOTO to line numbers around every power of two   *)
(* that their encoding splits; and two files, one after the other.         *)
EXTENDS BasicText

CONSTANTS
  MaxLines,        (* bound: the lines of a program with loops             *)
  Listos,          (* bound: the LIST options it is listed with            *)
  NumberBytes,     (* bound: the bytes of the line numbers in a GOTO       *)
  ChangedTo        (* bound: what a byte of a program is changed to        *)

PRINT == Out("word", 241, 0)
GOTO(n) == <<Out("word", 229, 0), Out("target", n, 0)>>
Str(b) == <<Out("word", Quote, 0), Out("byte", b, 0), Out("byte", Quote, 0)>>

Bodies(d) ==
  {<<>>, <<PRINT>> \o Str(134), <<PRINT, PRINT, PRINT, PRINT>>, GOTO(300),
   <<Out("word", 200, 0), PRINT>>}
    \cup {<<Out("word", x, Max(Second(d, x)))>> : x \in {x \in Extensions : Second(d, x) # {}}}
    \cup (IF d = "PDP11" THEN {<<Out("word", 200, 152), PRINT>>} ELSE {})

\* No program has LOAD where the byte introduces another keyword.
BodiesOf(d) == {b \in Bodies(d) : Base[d][200] = "extended" => <<Out("word", 200, 0), PRINT>> # b}

Numbered(bodies) == [n \in DOMAIN bodies |-> [number |-> 300 * n, items |-> bodies[n]]]
Programs(bodies, n) == {Numbered(s) : s \in UNION {[1..k -> bodies] : k \in 0..n}}

LoopBodies == {<<>>} \cup {<<Out("word", w, 0)>> : w \in LoopWords}

There(bytes) == [there |-> TRUE, bytes |-> bytes]

Start(d, l, ps, fs) ==
  /\ dialect = d /\ listo = l /\ programs = ps /\ files = fs
  /\ BasicTokenised /\ BasicStart

Whole(d, l, program) == Start(d, l, <<program>>, <<There(Saved(d, program))>>)

LoopsInit ==
  \E d \in {"6502", "Windows"}, l \in Listos, program \in Programs(LoopBodies, MaxLines) :
    Whole(d, l, program)

CutInit ==
  \E d \in Dialect : \E program \in Programs(BodiesOf(d), 2) :
    LET whole == Saved(d, program) IN
      \E k \in 0..Len(whole) : Start(d, 7, <<program>>, <<There(SubSeq(whole, 1, k))>>)

ChangedInit ==
  \E d \in Dialect : \E program \in Programs(BodiesOf(d), 1) :
    LET whole == Saved(d, program) IN
      \E k \in DOMAIN whole, b \in ChangedTo :
        Start(d, 7, <<program>>, <<There([whole EXCEPT ![k] = b])>>)

TargetInit ==
  \E d \in {"6502", "Z80"}, hi, lo \in NumberBytes :
    Whole(d, 0, Numbered(<<GOTO(256 * hi + lo)>>))

TwoInit ==
  \E d \in {"6502", "Z80"} :
    LET program == Numbered(<<<<PRINT>>, <<Out("word", FOR, 0)>>>>)
        whole == Saved(d, program)
        some == {Missing, There(<<>>), There(whole), There(SubSeq(whole, 1, Len(whole) - 4))}
    IN \E f, g \in some : Start(d, 7, <<program, program>>, <<f, g>>)

MCInit == LoopsInit \/ CutInit \/ ChangedInit \/ TargetInit \/ TwoInit

MCSpec == MCInit /\ [][BasicNext]_bvars
=============================================================================
