----------------------------- MODULE HfeStream -----------------------------
(***************************************************************************)
(* How the stream of one side of a track is taken out of an HFE file       *)
(* (copy_hfe and read_all_sectors of img_hfe.cc).  The file has the sides  *)
(* in turn, a block of each; in version 3 some bytes are instructions, and *)
(* some of these have an argument in the byte behind them.                 *)
(*                                                                         *)
(* A bit of the stream is told by where it comes from, <<byte, bit>>, so   *)
(* that what the bits say does not matter.  The bits that stand for weak   *)
(* ones come from no byte.                                                 *)
(***************************************************************************)
EXTENDS Integers, FiniteSets, SequencesExt

CONSTANTS
  Block,       (* side_block_size, 256 in the program                       *)
  Bits         (* of a byte: 8                                              *)

ASSUME BlockAssumption == Block \in Nat \ {0}
ASSUME BitsAssumption == Bits \in Nat \ {0}

NOP == 240
SETINDEX == 241
SETBITRATE == 242
SKIPBITS == 243
RAND == 244
Byte == 0..255
IsOpcode(b) == b >= 240
NoArgument == {NOP, SETINDEX}
Known == NoArgument \cup {SETBITRATE, SKIPBITS, RAND}

VARIABLES
  hfe3, raw, side,      \* the version, a track's bytes of both sides, the side wanted
  begin_offset,
  begin, end,           \* copy_hfe's: the next byte, the end of the block
  this_op, got_bits,
  out,                  \* the bits that were shifted in, at most a byte of them
  track_stream,
  warned,               \* history: where a block ended within an instruction
  pc
vars == <<hfe3, raw, side, begin_offset, begin, end, this_op, got_bits, out, track_stream,
          warned, pc>>
track == <<hfe3, raw, side>>

NoOp == 0
NoByte == -1
-----------------------------------------------------------------------------
Start ==
  /\ begin_offset = Block * side /\ begin = 0 /\ end = 0
  /\ this_op = NoOp /\ got_bits = 0 /\ out = <<>>
  /\ track_stream = <<>> /\ warned = {} /\ pc = "blocks"

Init == hfe3 \in BOOLEAN /\ raw \in Seq(Byte) /\ side \in {0, 1} /\ Start

\* Wrong: the next block is the other side's.
StartBlockOther ==
  /\ pc = "blocks" /\ begin_offset < Len(raw)
  /\ begin' = begin_offset /\ end' = Min({begin_offset + Block, Len(raw)})
  /\ begin_offset' = begin_offset + Block
  /\ this_op' = NoOp /\ got_bits' = 0 /\ out' = <<>>
  /\ pc' = "copy_hfe"
  /\ UNCHANGED <<track, track_stream, warned>>

\* Each block of the side is copied by a call of its own, which begins anew.
StartBlock ==
  /\ pc = "blocks" /\ begin_offset < Len(raw)
  /\ begin' = begin_offset /\ end' = Min({begin_offset + Block, Len(raw)})
  /\ begin_offset' = begin_offset + 2 * Block
  /\ this_op' = NoOp /\ got_bits' = 0 /\ out' = <<>>
  /\ pc' = "copy_hfe"
  /\ UNCHANGED <<track, track_stream, warned>>

\* A block that ends within an instruction is warned of.
EndBlock ==
  /\ pc = "copy_hfe" /\ begin = end
  /\ warned' = IF this_op # NoOp THEN warned \cup {end} ELSE warned
  /\ pc' = "blocks"
  /\ UNCHANGED <<track, begin_offset, begin, end, this_op, got_bits, out, track_stream>>

EndTrack ==
  /\ pc = "blocks" /\ begin_offset >= Len(raw)
  /\ pc' = "done"
  /\ UNCHANGED <<track, begin_offset, begin, end, this_op, got_bits, out, track_stream, warned>>

In == raw[begin + 1]
Reads == pc = "copy_hfe" /\ begin # end
Argument == Reads /\ this_op # NoOp

\* The byte gives no bits, and leaves op to the next.
Consume(op) ==
  /\ begin' = begin + 1 /\ this_op' = op
  /\ UNCHANGED <<track, begin_offset, end, got_bits, out, track_stream, warned, pc>>

\* The bits of the byte, without the first n of them.
From(n) == [k \in 1..Bits - n |-> <<begin, n + k - 1>>]
Zeros == [k \in 1..Bits |-> <<NoByte, k - 1>>]
Newest(bits) == SubSeq(bits, Max({1, Len(bits) - Bits + 1}), Len(bits))

\* A byte is put out only when the count of bits is that of a byte, after a whole byte of input.
Emit(bits) ==
  /\ begin' = begin + 1 /\ this_op' = NoOp
  /\ IF got_bits + Len(bits) = Bits
     THEN /\ track_stream' = Append(track_stream, out \o bits)
          /\ out' = <<>> /\ got_bits' = 0
     ELSE /\ out' = Newest(out \o bits) /\ got_bits' = got_bits + Len(bits)
          /\ UNCHANGED track_stream
  /\ UNCHANGED <<track, begin_offset, end, warned, pc>>

SetBitRate == Argument /\ this_op = SETBITRATE /\ Consume(NoOp)

\* What is put out are the bits of the argument that are not skipped.
SkipBits ==
  /\ Argument /\ this_op = SKIPBITS
  /\ IF In >= Bits THEN Consume(NoOp) ELSE Emit(From(In))

\* Wrong: weak bits are taken for data.
RandAsData == Argument /\ this_op = RAND /\ Emit(From(0))
Rand == Argument /\ this_op = RAND /\ Emit(Zeros)

InvalidOpcode ==
  /\ Argument /\ this_op \notin Known
  /\ pc' = "invalid"
  /\ UNCHANGED <<track, begin_offset, begin, end, this_op, got_bits, out, track_stream, warned>>

Opcode ==
  /\ Reads /\ this_op = NoOp /\ hfe3 /\ IsOpcode(In)
  /\ Consume(IF In \in NoArgument THEN NoOp ELSE In)

Data == Reads /\ this_op = NoOp /\ ~(hfe3 /\ IsOpcode(In)) /\ Emit(From(0))

Next ==
  \/ StartBlock \/ EndBlock \/ EndTrack
  \/ SetBitRate \/ SkipBits \/ Rand \/ InvalidOpcode \/ Opcode \/ Data

\* The program is one thread, and a loop that can go on does.
Spec == Init /\ [][Next]_vars /\ WF_vars(Next)
-----------------------------------------------------------------------------
(* What the bytes of a side mean, taken as one stream. *)

\* Where the side's bytes are in the track, and the one in front of a byte.
Places == {p \in 0..Len(raw) - 1 : (p \div Block) % 2 = side}
Previous(p) == IF p % Block = 0 THEN p - Block - 1 ELSE p - 1
SideByte(p) == raw[p + 1]

IsArgument ==
  LET f[p \in Places] ==
        /\ hfe3 /\ Previous(p) \in Places /\ ~f[Previous(p)]
        /\ IsOpcode(SideByte(Previous(p))) /\ SideByte(Previous(p)) \notin NoArgument
  IN f
Arguments == {p \in Places : IsArgument[p]}
Instructions == {p \in Places \ Arguments : hfe3 /\ IsOpcode(SideByte(p))}
DataBytes == Places \ (Arguments \cup Instructions)

BitsOf(p) == [b \in 1..Bits |-> <<p, b - 1>>]

\* The bytes that stand for eight bits, if none are skipped, and which.
Speaking == DataBytes \cup {p \in Arguments : SideByte(Previous(p)) = RAND}
Meaning(p) == IF p \in DataBytes THEN BitsOf(p) ELSE Zeros

\* No instruction has its argument in the next block.
NoneSplit == \A p \in Arguments : p % Block # 0
NoneSkipped == \A p \in Arguments : SideByte(Previous(p)) # SKIPBITS

IsReal(bit) == bit[1] # NoByte
ComesBefore(x, y) == x[1] < y[1] \/ (x[1] = y[1] /\ x[2] < y[2])

\* The bits of these bytes that are bits of the track come in its order.
InOrder(bytes) ==
  \A i, j \in DOMAIN bytes : \A b \in DOMAIN bytes[i], c \in DOMAIN bytes[j] :
    (i < j \/ (i = j /\ b < c)) /\ IsReal(bytes[i][b]) /\ IsReal(bytes[j][c])
      => ComesBefore(bytes[i][b], bytes[j][c])
-----------------------------------------------------------------------------
(* Properties. *)

\* Types: what copy_hfe holds back is at most a byte, every byte that it puts out is a whole
\* one, and only an instruction with an argument waits for the next byte.
TypeOK ==
  /\ hfe3 \in BOOLEAN /\ side \in {0, 1} /\ pc \in {"blocks", "copy_hfe", "done", "invalid"}
  /\ begin \in 0..end /\ end <= Len(raw) /\ begin_offset \in Nat
  /\ this_op \in {NoOp} \cup {b \in Byte : IsOpcode(b) /\ b \notin NoArgument}
  /\ got_bits \in Nat /\ Len(out) <= Bits
  /\ \A i \in DOMAIN track_stream : Len(track_stream[i]) = Bits

\* Whatever is skipped or cut, no bit is put out twice or out of order, and none comes from
\* the other side (the shifts of copy_hfe, and begin_offset).
BitsInOrder ==
  /\ InOrder(track_stream)
  /\ \A i \in DOMAIN track_stream : \A b \in DOMAIN track_stream[i] :
       IsReal(track_stream[i][b]) => track_stream[i][b][1] \in Places

\* A track is refused exactly if it has an unknown instruction with its argument (the default
\* of copy_hfe's switch over this_op): what is data, or the argument of another, is not taken
\* for an instruction.
RefusedIfUnknown ==
  LET Unknown == \E p \in Arguments : SideByte(Previous(p)) \notin Known IN
    NoneSplit => (pc = "invalid" => Unknown) /\ (pc = "done" => ~Unknown)

\* Whatever copy_hfe skips or cuts, what it puts out of a side is in order, once and of that
\* side; and the track is refused exactly if it has an instruction nobody knows.
StreamInOrder == TypeOK /\ BitsInOrder /\ RefusedIfUnknown

\* A side in which nothing is skipped and no block ends within an instruction is put out
\* whole: every byte that stands for bits has its place in their order, with the instructions
\* left out and weak bits as zeros (copy_hfe and the loop over the blocks in read_all_sectors).
StreamIsWhole ==
  pc = "done" /\ NoneSkipped /\ NoneSplit =>
    /\ Len(track_stream) = Cardinality(Speaking)
    /\ \A p \in Speaking : track_stream[Cardinality({q \in Speaking : q <= p})] = Meaning(p)

=============================================================================
