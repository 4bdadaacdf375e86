---------------------------- MODULE BasicTokens ----------------------------
(***************************************************************************)
(* The dialects of BBC BASIC that bbcbasic_to_text knows (tokens.c), the   *)
(* classes of the bytes of a line in each, and the line numbers that a     *)
(* GOTO holds (lines.c).                                                   *)
(***************************************************************************)
EXTENDS Integers, TLC

Byte == 0..255
LastShort == 65535
Short == 0..LastShort
Dialect == {"6502", "PDP11", "Z80", "ARM", "Windows", "Mac"}

\* Lines of the other dialects begin with their length.
LeadingCR(d) == d \in {"6502", "ARM", "Mac", "PDP11"}

CR == 13
Quote == 34
LineNum == 141
FOR == 227
NEXT == 237
REPEAT == 245
UNTIL == 253
Extensions == 198..200

\* The dialect whose column of base_map is used.
Column(d) == CASE d = "Mac" -> "ARM" [] d = "PDP11" -> "6502" [] OTHER -> d

\* What base_map says of each byte; every keyword and character is a "word".
Table(c) ==
  [b \in Byte |->
     CASE b \in 0..16 -> IF c = "Windows" /\ b # 0 THEN "word" ELSE "invalid"
       [] b \in 24..31 -> IF c = "Windows" THEN "fastvar" ELSE "word"
       [] b = 127 -> IF c = "ARM" THEN "word" ELSE "invalid"
       [] b = LineNum -> "line_num"
       [] b \in Extensions -> IF c = "ARM" THEN "extended" ELSE "word"
       [] OTHER -> "word"]

\* build_mapping: the entries of the table, and those it puts in afterwards.
Mapping(d) ==
  [b \in Byte |-> CASE b \in {CR, 127} -> "word"
                    [] d = "PDP11" /\ b = 200 -> "pdp_c8"
                    [] OTHER -> Table(Column(d))[b]]

Base == [d \in Dialect |-> Mapping(d)]

\* The bytes that are a keyword behind an extension code.
Second(d, intro) ==
  CASE d = "ARM" -> 142..(CASE intro = 198 -> 143 [] intro = 199 -> 159 [] OTHER -> 166)
    [] d = "Mac" -> 142..(CASE intro = 198 -> 150 [] intro = 199 -> 155 [] OTHER -> 152)
    [] OTHER -> {}

\* The bit of weight w, and the exclusive or of two bytes.
Bit(b, w) == (b \div w) % 2
Xor(a, b) ==
  LET bit(w) == w * ((Bit(a, w) + Bit(b, w)) % 2)
  IN bit(128) + bit(64) + bit(32) + bit(16) + bit(8) + bit(4) + bit(2) + bit(1)

\* Wrong: bits that belong to the low byte's lower part are not masked.
TargetNoMask(b1, b2, b3) ==
  256 * Xor(b3, (b1 * 16) % 256) + Xor(b2, (b1 * 4) % 256)

\* print_target_line_number: the two highest bits of each byte are in b1.
Target(b1, b2, b3) ==
  256 * Xor(b3, (b1 * 16) % 256) + Xor(b2, (((b1 * 4) % 256) \div 64) * 64)
=============================================================================
