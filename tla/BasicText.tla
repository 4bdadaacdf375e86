----------------------------- MODULE BasicText -----------------------------
(***************************************************************************)
(* bbcbasic_to_text: saved BBC BASIC programs are listed one after the     *)
(* other (bbcbasic_to_text.c, decoder.c, lines.c).  A file is a sequence   *)
(* of bytes.  What is printed is a sequence of items, without the wording. *)
(*                                                                         *)
(* The buffer a line is read into is static: it keeps what the lines       *)
(* before left in it, also those of another file.                          *)
(***************************************************************************)
EXTENDS BasicTokens, SequencesExt

CONSTANTS Numbers      (* the numbers that lines have, 0 to 65535          *)

ASSUME NumbersAssumption == Numbers \subseteq Short

\* A keyword or a character, one within a string, the number in a GOTO.
Item == [kind : {"word", "byte", "target"}, a : Nat, b : Nat]
Line == [number : Numbers, items : Seq(Item)]

Output == [kind : {"number", "word", "byte", "target", "newline"}, a : Nat, b : Nat]
Out(k, a, b) == [kind |-> k, a |-> a, b |-> b]

Missing == [there |-> FALSE, bytes |-> <<>>]       \* a file that cannot be opened
Input == [there : BOOLEAN, bytes : Seq(Byte)]

VARIABLES
  programs,     \* what was saved: a sequence of lines for each file
  files, dialect, listo,          \* the command line
  verdicts,     \* one for each file that was dealt with
  exitval, stage,
  pos,          \* how many bytes of the file were read
  buf, indent, number,
  len, p,       \* the length of the line's data, and how much of it is decoded
  in_string,
  file_pos,     \* the place in the file, as it is counted for messages
  told,         \* the place that a message named, or Nowhere
  out
bvars == <<programs, files, dialect, listo, verdicts, exitval, stage, pos, buf, indent,
          number, len, p, in_string, file_pos, told, out>>

commandLine == <<programs, files, dialect, listo>>
line == <<buf, indent, number, len, p, in_string, file_pos>>

Nowhere == -1
Bytes == files[Len(verdicts) + 1].bytes
Left == Len(Bytes) - pos
Ahead(k) == Bytes[pos + k]

-----------------------------------------------------------------------------
(* What was saved, and how BASIC has its lines in memory.                  *)

TargetBytes(n) ==
  LET lo == n % 256  hi == n \div 256 IN
    <<Xor(84, (lo \div 64) * 16 + (hi \div 64) * 4), 64 + (lo % 64), 64 + (hi % 64)>>

ItemBytes(i) ==
  IF i.kind = "target" THEN <<LineNum>> \o TargetBytes(i.a)
  ELSE IF i.b # 0 THEN <<i.a, i.b>> ELSE <<i.a>>

Over(program, Op(_)) == FlattenSeq([n \in DOMAIN program |-> Op(program[n])])

\* Behind an odd number of quotes are the characters of a string; elsewhere are keywords
\* and numbers of lines.  LOAD of the PDP-11 is told from QUIT by what follows it.
Quotes(items, n) ==
  Cardinality({k \in 1..n : items[k].kind # "target" /\ items[k].a = Quote})
Keyword(d, i) ==
  CASE Base[d][i.a] = "word" -> i.b = 0
    [] Base[d][i.a] = "extended" -> i.b \in Second(d, i.a)
    [] Base[d][i.a] = "pdp_c8" -> i.b \in {0, 152}
    [] OTHER -> FALSE
Tokenised(d, items) ==
  /\ Len(Over(items, ItemBytes)) <= 251
  /\ \A k \in DOMAIN items :
       IF Quotes(items, k - 1) % 2 = 1
       THEN items[k].kind = "byte" /\ items[k].a \in Byte \ {0} /\ items[k].b = 0
       ELSE \/ items[k].kind = "target" /\ items[k].a \in Short /\ items[k].b = 0
            \/ items[k].kind = "word" /\ items[k].a \in Byte \ {0} /\ Keyword(d, items[k])
  /\ \A k \in DOMAIN items :
       items[k].kind = "word" /\ items[k].b = 0 /\ Base[d][items[k].a] = "pdp_c8"
         => k < Len(items) /\ (items[k + 1].kind = "target" \/ items[k + 1].a # 152)

-----------------------------------------------------------------------------
BasicTokenised ==
  \A i \in DOMAIN programs : \A l \in ToSet(programs[i]) : Tokenised(dialect, l.items)

BasicStart ==
  /\ verdicts = <<>> /\ exitval = 0 /\ stage = "open" /\ pos = 0
  /\ buf = <<>> /\ indent = 0 /\ number = 0 /\ len = 0 /\ p = 0
  /\ in_string = FALSE /\ file_pos = 0 /\ told = Nowhere /\ out = <<>>

BasicInit ==
  /\ dialect \in Dialect /\ listo \in 0..7
  /\ files \in Seq(Input) /\ files # <<>>
  /\ programs \in Seq(Seq(Line)) /\ Len(programs) = Len(files)
  /\ BasicTokenised /\ BasicStart

\* The loop over the files goes on after an error, which it remembers.
Dealt(verdict) ==
  /\ verdicts' = Append(verdicts, verdict)
  /\ exitval' = IF verdict = "ok" THEN exitval ELSE 1
  /\ stage' = "open"
  /\ UNCHANGED <<commandLine, pos, line, out>>

Ends(verdict) == Dealt(verdict) /\ UNCHANGED told

Open ==
  /\ stage = "open" /\ Len(verdicts) < Len(files)
  /\ IF ~files[Len(verdicts) + 1].there THEN Ends("missing")
     ELSE /\ stage' = "line" /\ pos' = 0 /\ indent' = 0
          /\ UNCHANGED <<commandLine, verdicts, exitval, buf, number, len, p, in_string,
                         file_pos, told, out>>

Exit ==
  /\ stage = "open" /\ Len(verdicts) = Len(files)
  /\ stage' = "exit"
  /\ UNCHANGED <<commandLine, verdicts, exitval, pos, line, told, out>>

\* Wrong: the end of the file is the end of a program.
EndOfFileAnywhere ==
  /\ stage = "line" /\ Left = 0 /\ Ends("ok")

\* A file that is entirely empty is a program.
EndOfFile ==
  /\ stage = "line" /\ Left = 0
  /\ Ends(IF pos = 0 THEN "ok" ELSE "premature end-of-file")

(* What is not read of the data stays as it was in the buffer. *)
Filled(header, nread) ==
  SubSeq(Bytes, pos + header + 1, pos + header + nread) \o SubSeq(buf, nread + 1, Len(buf))
At(b, k) == IF k <= Len(b) THEN b[k] ELSE 0

\* The data was read and a part of it is to be decoded.
DecodeLine(n, header, nread, data) ==
  /\ number' = n /\ len' = data
  /\ p' = 0 /\ in_string' = FALSE
  /\ buf' = Filled(header, nread)
  /\ pos' = pos + header + nread /\ file_pos' = pos + header
  /\ stage' = "number"
  /\ UNCHANGED <<commandLine, verdicts, exitval, indent, told, out>>

-----------------------------------------------------------------------------
(* <CR> <hi> <lo> <len> data ..., and <CR> <255> at the end. *)

BigLine == stage = "line" /\ LeadingCR(dialect) /\ Left > 0

NoCarriageReturn == BigLine /\ Ahead(1) # CR /\ Ends("line did not start with 0x0D")

BigEnd == BigLine /\ Ahead(1) = CR /\ Left = 2 /\ Ahead(2) = 255 /\ Ends("ok")

BigCut ==
  /\ BigLine /\ Ahead(1) = CR
  /\ Left \in {1, 3} \/ (Left = 2 /\ Ahead(2) # 255)
  /\ Ends("premature end-of-file")

BigNumber == 256 * Ahead(2) + Ahead(3)

BigBody ==
  /\ BigLine /\ Ahead(1) = CR /\ Left >= 4
  /\ LET n == Ahead(4) - 4 IN
       \/ n < 0 /\ Ends("impossibly short")
       \/ n > Left - 4 /\ Ends("premature end-of-file")
       \/ n \in 0..Left - 4 /\ DecodeLine(BigNumber, 4, n, n)

-----------------------------------------------------------------------------
(* <len> <lo> <hi> data ... <CR>, and <0> <255> <255> at the end. *)

LittleLine == stage = "line" /\ ~LeadingCR(dialect) /\ Left > 0

\* Bytes behind the end are let pass with a warning.
LittleEnd ==
  /\ LittleLine /\ Ahead(1) = 0
  /\ IF \E k \in 2..Min({3, Left}) : Ahead(k) # 255 THEN Ends("expected 0xFF")
     ELSE Ends(IF Left < 3 THEN "premature end-of-file" ELSE "ok")

LittleCut ==
  /\ LittleLine /\ Ahead(1) # 0
  /\ \/ Ahead(1) < 3 /\ Ends("impossibly short")
     \/ Ahead(1) >= 3 /\ Left < 3 /\ Ends("premature end-of-file")

\* A line that is cut off is not noticed: what the buffer held is its end.
\* A line without even a carriage return is left out.
LittleBody ==
  /\ LittleLine /\ Ahead(1) >= 3 /\ Left >= 3
  /\ LET n == Ahead(1) - 3
         nread == Min({n, Left - 3})
         last == At(Filled(3, nread), n)
     IN \/ /\ n = 0 /\ pos' = pos + 3
           /\ UNCHANGED <<commandLine, verdicts, exitval, stage, line, told, out>>
        \/ n > 0 /\ last # CR /\ Ends("expected 0x0D at the end of the line")
        \/ n > 0 /\ last = CR /\ DecodeLine(256 * Ahead(3) + Ahead(2), 3, nread, n - 1)

-----------------------------------------------------------------------------
(* decode_line *)

Occurrences(b) == Cardinality({k \in 1..len : At(buf, k) = b})
Loops(for, repeat) ==
  2 * ((IF Bit(listo, 2) = 1 THEN Occurrences(for) ELSE 0)
       + (IF Bit(listo, 4) = 1 THEN Occurrences(repeat) ELSE 0))

\* Wrong: a loop's end does not change the indentation of its own line.
NumberBefore ==
  /\ stage = "number" /\ stage' = "bytes"
  /\ indent' = indent - Loops(NEXT, UNTIL)
  /\ out' = Append(out, Out("number", number, Bit(listo, 1) + Max({indent, 0})))
  /\ UNCHANGED <<commandLine, verdicts, exitval, pos, buf, number, len, p, in_string,
                 file_pos, told>>

\* The bytes of the keywords that end a loop are counted wherever they are.
Number ==
  /\ stage = "number" /\ stage' = "bytes"
  /\ indent' = indent - Loops(NEXT, UNTIL)
  /\ out' = Append(out, Out("number", number, Bit(listo, 1) + Max({indent', 0})))
  /\ UNCHANGED <<commandLine, verdicts, exitval, pos, buf, number, len, p, in_string,
                 file_pos, told>>

Uch == At(buf, p + 1)
Rest == len - p - 1                      \* how many bytes are behind it
Class == Base[dialect][Uch]

Decodes == stage = "bytes" /\ p < len

\* The place in the file is counted once for each item, however long it is.
Put(item, n) ==
  /\ out' = Append(out, item)
  /\ p' = p + n /\ file_pos' = file_pos + 1
  /\ in_string' = IF Uch = Quote THEN ~in_string ELSE in_string
  /\ UNCHANGED <<commandLine, verdicts, exitval, stage, pos, buf, indent, number, len, told>>

RanOver == Decodes /\ Uch = 0 /\ Ends("ran over the end of the input")

InString == Decodes /\ Uch # 0 /\ in_string /\ Put(Out("byte", Uch, 0), 1)

Outside == Decodes /\ Uch # 0 /\ ~in_string

Word == Outside /\ Class = "word" /\ Put(Out("word", Uch, 0), 1)

Invalid ==
  /\ Outside /\ Class = "invalid"
  /\ told' = file_pos /\ Dealt("saw unexpected token")

FastVariable == Outside /\ Class = "fastvar" /\ Ends("crunched")

LineNumber ==
  /\ Outside /\ Class = "line_num"
  /\ IF Rest < 3 THEN Ends("end-of-line in the middle of a line number")
     ELSE Put(Out("target", Target(At(buf, p + 2), At(buf, p + 3), At(buf, p + 4)), 0), 4)

ExtendedToken ==
  /\ Outside /\ Class = "extended"
  /\ LET second == At(buf, p + 2) IN
       \/ Rest = 0 /\ Ends("unexpected end-of-line")
       \/ Rest > 0 /\ second \notin Second(dialect, Uch) /\ Ends("saw sequence")
       \/ Rest > 0 /\ second \in Second(dialect, Uch) /\ Put(Out("word", Uch, second), 2)

\* LOAD, unless QUIT's second byte follows; but some byte must follow.
PdpToken ==
  /\ Outside /\ Class = "pdp_c8"
  /\ IF Rest = 0 THEN Ends("unexpected end-of-line")
     ELSE IF At(buf, p + 2) = 152 THEN Put(Out("word", Uch, 152), 2)
     ELSE Put(Out("word", Uch, 0), 1)

EndLine ==
  /\ stage = "bytes" /\ p = len /\ stage' = "line"
  /\ out' = Append(out, Out("newline", 0, 0))
  /\ indent' = indent + Loops(FOR, REPEAT)
  /\ UNCHANGED <<commandLine, verdicts, exitval, pos, buf, number, len, p, in_string,
                 file_pos, told>>

BasicNext ==
  \/ Open \/ Exit \/ EndOfFile
  \/ NoCarriageReturn \/ BigEnd \/ BigCut \/ BigBody
  \/ LittleEnd \/ LittleCut \/ LittleBody
  \/ Number \/ RanOver \/ InString \/ Word \/ Invalid \/ FastVariable
  \/ LineNumber \/ ExtendedToken \/ PdpToken \/ EndLine

BasicSpec == BasicInit /\ [][BasicNext]_bvars

-----------------------------------------------------------------------------
(* What BASIC saves, and what a listing of it has: for the properties.      *)

SavedLine(d, l) ==
  LET data == Over(l.items, ItemBytes)
      n == Len(data) + 4
      hi == l.number \div 256
      lo == l.number % 256
  IN IF LeadingCR(d) THEN <<CR, hi, lo, n>> \o data ELSE <<n, lo, hi>> \o data \o <<CR>>

SavedLines(d, program) == Over(program, LAMBDA l : SavedLine(d, l))
Saved(d, program) ==
  SavedLines(d, program) \o (IF LeadingCR(d) THEN <<CR, 255>> ELSE <<0, 255, 255>>)

Listing(program) ==
  Over(program, LAMBDA l : <<Out("number", l.number, 0)>> \o l.items \o <<Out("newline", 0, 0)>>)

\* A listing without its indentation.
Bare(o) == [k \in DOMAIN o |-> IF o[k].kind = "number" THEN [o[k] EXCEPT !.b = 0] ELSE o[k]]

Intact(i) == files[i].there /\ files[i].bytes = Saved(dialect, programs[i])
CutOff(i) ==
  /\ files[i].there /\ files[i].bytes # <<>>
  /\ IsStrictPrefix(files[i].bytes, Saved(dialect, programs[i]))
  /\ \A l \in ToSet(programs[i]) : l.number \div 256 # 255

\* The lines of a program with a word, and the loops that are open within a line: those
\* begun in a line before it that no line up to it ends.
With(program, word) == {i \in DOMAIN program : Out("word", word, 0) \in ToSet(program[i].items)}
Balance(begins, ends, i, j) ==
  Cardinality(begins \cap (i..j)) - Cardinality(ends \cap (i..j))
Around(begins, ends, i) ==
  {j \in begins \cap (1..i - 1) : \A k \in j..i : Balance(begins, ends, j, k) > 0}

Indentation(program, i) ==
  Bit(listo, 1)
  + 2 * (Bit(listo, 2) * Cardinality(Around(With(program, FOR), With(program, NEXT), i))
         + Bit(listo, 4) * Cardinality(Around(With(program, REPEAT), With(program, UNTIL), i)))

\* No line has two words of loops, every loop's end has its beginning, and no string has
\* the byte of such a word.
LoopWords == {FOR, NEXT, REPEAT, UNTIL}
LoopAt(l, m) == l.items[m] \in {Out("word", w, 0) : w \in LoopWords}
Balanced(program) ==
  /\ \A l \in ToSet(program) :
       \A m, n \in DOMAIN l.items : LoopAt(l, m) /\ LoopAt(l, n) => m = n
  /\ \A i \in DOMAIN program :
       /\ Balance(With(program, FOR), With(program, NEXT), 1, i) >= 0
       /\ Balance(With(program, REPEAT), With(program, UNTIL), 1, i) >= 0
NoLoopsInStrings(program) ==
  \A l \in ToSet(program), w \in LoopWords : Out("byte", w, 0) \notin ToSet(l.items)

Indentations == FlattenSeq([k \in DOMAIN out |->
                  IF out[k].kind = "number" THEN <<out[k].b>> ELSE <<>>])
Expected == Over(programs, LAMBDA q : [i \in DOMAIN q |-> Indentation(q, i)])

-----------------------------------------------------------------------------
(* Properties. *)

\* Types: a line is not read behind its end, and every byte has a class.
BasicTypeOK ==
  /\ stage \in {"open", "line", "number", "bytes", "exit"}
  /\ exitval \in 0..1 /\ Len(verdicts) <= Len(files)
  /\ stage \in {"line", "number", "bytes"} => pos \in 0..Len(Bytes)
  /\ len \in 0..251 /\ p \in 0..len /\ Len(buf) <= 252
  /\ indent \in Int /\ number \in Short /\ in_string \in BOOLEAN
  /\ file_pos \in Nat /\ told \in Nat \cup {Nowhere}
  /\ ToSet(out) \subseteq Output
  /\ DOMAIN Base[dialect] = Byte

\* An intact program is listed, every token and line number of it, and nothing
\* of the programs before it shows.
ProgramsListed ==
  stage = "exit" /\ (\A i \in DOMAIN files : Intact(i))
    => /\ Bare(out) = Over(programs, Listing)
       /\ exitval = 0

\* A loop's body is indented, and its end is where its beginning is.
LoopsIndented ==
  stage = "exit" /\ (\A i \in DOMAIN files : Intact(i))
  /\ (\A i \in DOMAIN files : Balanced(programs[i]) /\ NoLoopsInStrings(programs[i]))
    => Indentations = Expected

\* What is listed of it until then is a part of the program.
CutListed ==
  Len(files) = 1 /\ LeadingCR(dialect) /\ (CutOff(1) \/ Intact(1))
    => IsPrefix(Bare(out), Listing(programs[1]))

\* A program that was cut off is refused, wherever the cut is, and the exit status
\* remembers a failure of any of the files.  The types hold, and what is listed until
\* the cut is a part of the program.
CutRefused ==
  /\ BasicTypeOK /\ CutListed
  /\ \A i \in DOMAIN verdicts :
       CutOff(i) => /\ verdicts[i] # "ok"
                    /\ LeadingCR(dialect) => verdicts[i] = "premature end-of-file"
  /\ stage = "exit" => /\ Len(verdicts) = Len(files)
                    /\ exitval = 0 <=> ToSet(verdicts) \subseteq {"ok"}

=============================================================================
