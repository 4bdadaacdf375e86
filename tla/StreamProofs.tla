---------------------------- MODULE StreamProofs ----------------------------
(***************************************************************************)
(* Two programs that take a file byte after byte.                          *)
(*                                                                         *)
(* For buffers and files of any size, a file that is decompressed without  *)
(* an error is whole, and one that is whole is decompressed.  The argument *)
(* is an account of the bytes: what was written and what zlib still holds  *)
(* are what came out of the bytes it was given.  It needs that the input   *)
(* buffer is empty when it is filled, and so that the inner loop ends only *)
(* when zlib has taken all the input, is at the end, or fails.             *)
(*                                                                         *)
(* For programs of any lines, in any dialect, a file as BASIC saved it is  *)
(* listed, item by item, and one that was cut off is refused.  The         *)
(* argument is that the place in the file is always the beginning of a     *)
(* saved line, or an item in it, and that the listing has come as far as   *)
(* the place.  Only in the dialects without a carriage return in front can *)
(* it be lost: a last line may be completed with what the buffer held, but *)
(* then the file is at its end and does not get to the mark of the end.    *)
(* Its indentation follows the loops: how much is listed tells which line  *)
(* is read, and the indentation is twice the loops that are open there.    *)
(***************************************************************************)
EXTENDS Gunzip, BasicText, FiniteSetTheorems, SequenceTheorems, WellFoundedInduction, TLAPS

Account ==
  /\ ~io_failed => written + pending = total[Next_in]
  /\ Next_in <= corrupt - 1

AtTheEnd == zerr = "Z_STREAM_END" => pending = 0 /\ Next_in = stream

\* zlib is told that there is no more input only at the end of the file.
ToldTheEnd == pc = "inflate" => got > 0 \/ consumed = length

DoneAtTheEnd == pc = "done" => zerr = "Z_STREAM_END" /\ ~io_failed

Running == pc \in {"read", "inflate"} => ~io_failed

IndInv ==
  /\ TypeOK /\ Account /\ AtTheEnd /\ ToldTheEnd /\ DoneAtTheEnd /\ Running
  /\ InputNotLost /\ SoundIsOpened
-----------------------------------------------------------------------------
(* The smaller of two numbers is one of them, and no larger than either. *)
LEMMA LeastIs ==
  ASSUME NEW a \in Int, NEW b \in Int
  PROVE  Least(a, b) \in {a, b} /\ Least(a, b) <= a /\ Least(a, b) <= b
BY DEF Least

(* What a call of inflate takes and gives is within what there is. *)
LEMMA CallBounds ==
  ASSUME IndInv, NEW k, Takes(k)
  PROVE  /\ k \in Nat /\ k <= avail_in
         /\ Next_in \in Nat /\ Next_in + k <= stream /\ Next_in + k <= corrupt - 1
         /\ Held(k) \in Nat /\ Held(k) = pending + total[Next_in + k] - total[Next_in]
         /\ total[Next_in + k] \in Nat /\ total[Next_in] \in Nat
         /\ Given(k) \in 0..OutputBufSize /\ Given(k) <= Held(k)
         /\ Given(k) < OutputBufSize => Given(k) = Held(k) /\ k = Limit
         /\ Limit = avail_in \/ Next_in + Limit = stream \/ Next_in + Limit = corrupt - 1
<1>1. /\ stream \in Nat /\ corrupt \in Nat /\ avail_in \in Nat /\ consumed \in Nat
      /\ avail_in <= consumed /\ pending \in Nat /\ Next_in <= stream /\ Next_in <= corrupt - 1
      /\ got \in Nat
  BY BufferAssumption DEF IndInv, TypeOK, Account, File
<1>2. Next_in \in Nat
  BY <1>1 DEF Next_in
<1>3. DEFINE room == Least(stream, corrupt - 1)
<1>4. room \in {stream, corrupt - 1} /\ room <= stream /\ room <= corrupt - 1
  BY <1>1, LeastIs
<1>5. /\ Limit \in {avail_in, room - Next_in} /\ Limit <= avail_in /\ Limit <= room - Next_in
  <2>1. avail_in \in Int /\ room - Next_in \in Int
    BY <1>1, <1>2, <1>4
  <2> QED BY <2>1, LeastIs DEF Limit
<1>6. k \in Nat /\ k <= Limit
  BY <1>1, <1>2, <1>4, <1>5 DEF Takes
<1>7. /\ k <= avail_in /\ Next_in + k <= stream /\ Next_in + k <= corrupt - 1
      /\ Limit = avail_in \/ Next_in + Limit = stream \/ Next_in + Limit = corrupt - 1
  BY <1>1, <1>2, <1>4, <1>5, <1>6
<1>8. /\ total[Next_in + k] \in Nat /\ total[Next_in] \in Nat
      /\ total[Next_in] <= total[Next_in + k]
  <2>1. Next_in \in 0..stream /\ Next_in + k \in 0..stream /\ Next_in <= Next_in + k
    BY <1>1, <1>2, <1>6, <1>7
  <2>2. /\ total \in [0..stream -> Nat]
        /\ \A m, n \in 0..stream : m <= n => total[m] <= total[n]
    BY DEF IndInv, TypeOK, File
  <2> QED BY <2>1, <2>2
<1>9. Held(k) \in Nat /\ Held(k) = pending + total[Next_in + k] - total[Next_in]
  BY <1>1, <1>8 DEF Held
<1>10. /\ Given(k) \in 0..OutputBufSize /\ Given(k) <= Held(k)
       /\ Given(k) < OutputBufSize => Given(k) = Held(k) /\ Held(k) < OutputBufSize
  BY <1>9, BufferAssumption DEF Given, Least
<1>11. Given(k) < OutputBufSize => k = Limit
  BY <1>9, <1>10, BufferAssumption DEF Takes
<1> QED BY <1>2, <1>6, <1>7, <1>8, <1>9, <1>10, <1>11

(* A call keeps the types and the account, whether or not its output could be *)
(* written.                                                                   *)
LEMMA CallKeeps ==
  ASSUME IndInv, NEW k, Call(k)
  PROVE  /\ UNCHANGED <<file, consumed, got>>
         /\ avail_in' \in 0..got' /\ avail_in' <= consumed' /\ Next_in' = Next_in + k
         /\ avail_out' \in 0..OutputBufSize
         /\ pending' \in Nat /\ Given(k) + pending' = Held(k)
         /\ zerr' \in {"Z_OK", "Z_STREAM_END", "Z_BUF_ERROR", "Z_DATA_ERROR"}
         /\ Next_in' <= stream' /\ Next_in' <= corrupt' - 1
         /\ AtTheEnd'
<1>1. Takes(k) /\ UNCHANGED <<file, consumed, got>> /\ pending' = Held(k) - Given(k)
      /\ avail_in' = avail_in - k /\ avail_out' = OutputBufSize - Given(k) /\ zerr' = Result(k)
  BY DEF Call
<1>2. /\ stream' = stream /\ corrupt' = corrupt /\ consumed' = consumed /\ got' = got
  BY <1>1 DEF file
<1>3. avail_in \in 0..got /\ avail_in <= consumed /\ consumed \in Nat /\ got \in Nat
  BY BufferAssumption DEF IndInv, TypeOK, File
<1>4. Next_in' = Next_in + k /\ avail_in' \in 0..got' /\ avail_in' <= consumed'
  BY <1>1, <1>2, <1>3, CallBounds DEF Next_in
<1>5. /\ avail_out' \in 0..OutputBufSize /\ pending' \in Nat /\ Given(k) + pending' = Held(k)
  BY <1>1, CallBounds, BufferAssumption
<1>6. zerr' \in {"Z_OK", "Z_STREAM_END", "Z_BUF_ERROR", "Z_DATA_ERROR"}
  BY <1>1 DEF Result
<1>7. Next_in' <= stream' /\ Next_in' <= corrupt' - 1
  BY <1>1, <1>2, <1>4, CallBounds
<1>8. AtTheEnd'
  <2> SUFFICES ASSUME zerr' = "Z_STREAM_END" PROVE pending' = 0 /\ Next_in' = stream'
    BY DEF AtTheEnd
  <2>1. Next_in + k = stream /\ Given(k) = Held(k)
    BY <1>1 DEF Result
  <2> QED BY <1>1, <1>2, <1>4, <2>1, CallBounds
<1> QED BY <1>1, <1>4, <1>5, <1>6, <1>7, <1>8
-----------------------------------------------------------------------------
LEMMA InitHolds == Init => IndInv
<1> SUFFICES ASSUME Init PROVE IndInv
  OBVIOUS
<1>1. File /\ Start
  BY DEF Init
<1>2. /\ stream \in Nat \ {0} /\ length \in Nat /\ corrupt \in Nat \ {0} /\ total[0] = 0
  BY <1>1 DEF File
<1>3. Next_in = 0
  BY <1>1 DEF Start, Next_in
<1>4. TypeOK
  <2>1. /\ consumed \in 0..length /\ got \in 0..InputBufSize /\ avail_in \in 0..got
        /\ avail_in <= consumed /\ Next_in <= stream /\ avail_out \in 0..OutputBufSize
    BY <1>1, <1>2, <1>3, BufferAssumption DEF Start
  <2>2. /\ pc = "read" /\ zerr = "Z_OK" /\ pending \in Nat /\ written \in Nat
        /\ io_failed \in BOOLEAN
    BY <1>1 DEF Start
  <2> QED BY <1>1, <2>1, <2>2 DEF TypeOK
<1>5. Account
  BY <1>1, <1>2, <1>3 DEF Start, Account
<1>6. AtTheEnd /\ ToldTheEnd /\ DoneAtTheEnd /\ Running /\ InputNotLost /\ SoundIsOpened
  BY <1>1 DEF Start, AtTheEnd, ToldTheEnd, DoneAtTheEnd, Running, InputNotLost, SoundIsOpened
<1> QED BY <1>4, <1>5, <1>6 DEF IndInv

LEMMA FillKeeps == ASSUME IndInv, Fill PROVE IndInv'
<1>1. /\ pc = "read" /\ zerr # "Z_STREAM_END" /\ avail_in = 0 /\ ~io_failed
  BY DEF IndInv, Fill, InputNotLost, Running
<1>2. /\ got' = Least(InputBufSize, length - consumed)
      /\ avail_in' = got' /\ consumed' = consumed + got' /\ pc' = "inflate"
      /\ UNCHANGED <<file, avail_out, zerr, pending, written, io_failed>>
  BY DEF Fill
<1>3. consumed \in 0..length /\ length \in Nat /\ length - consumed \in Nat
  BY DEF IndInv, TypeOK, File
<1>4. /\ got' \in 0..InputBufSize /\ got' <= length - consumed
      /\ got' > 0 \/ got' = length - consumed
  BY <1>2, <1>3, BufferAssumption DEF Least
<1>5. Next_in' = Next_in
  BY <1>1, <1>2, <1>3, <1>4 DEF Next_in
<1>6. TypeOK'
  BY <1>2, <1>3, <1>4, <1>5 DEF IndInv, TypeOK, File, file
<1>7. Account' /\ AtTheEnd'
  BY <1>1, <1>2, <1>5 DEF IndInv, Account, AtTheEnd, file
<1>8. ToldTheEnd'
  BY <1>2, <1>3, <1>4 DEF ToldTheEnd, file
<1>9. DoneAtTheEnd' /\ Running' /\ InputNotLost' /\ SoundIsOpened'
  BY <1>1, <1>2 DEF DoneAtTheEnd, Running, InputNotLost, SoundIsOpened
<1> QED BY <1>6, <1>7, <1>8, <1>9 DEF IndInv

LEMMA ReadFailsKeeps == ASSUME IndInv, ReadFails PROVE IndInv'
<1>1. pc' = "error" /\ io_failed' = TRUE
      /\ UNCHANGED <<file, consumed, got, avail_in, avail_out, zerr, pending, written>>
  BY DEF ReadFails, Fail
<1>2. Next_in' = Next_in
  BY <1>1 DEF Next_in
<1>3. TypeOK'
  BY <1>1, <1>2 DEF IndInv, TypeOK, File, file
<1>4. Account' /\ AtTheEnd'
  BY <1>1, <1>2 DEF IndInv, Account, AtTheEnd, file
<1>5. ToldTheEnd' /\ DoneAtTheEnd' /\ Running' /\ InputNotLost' /\ SoundIsOpened'
  BY <1>1 DEF ToldTheEnd, DoneAtTheEnd, Running, InputNotLost, SoundIsOpened
<1> QED BY <1>3, <1>4, <1>5 DEF IndInv

LEMMA DoneKeeps == ASSUME IndInv, Done PROVE IndInv'
<1>1. /\ pc = "read" /\ zerr = "Z_STREAM_END" /\ pc' = "done" /\ ~io_failed
      /\ UNCHANGED <<file, consumed, got, avail_in, avail_out, zerr, pending, written, io_failed>>
  BY DEF IndInv, Running, Done
<1>2. Next_in' = Next_in
  BY <1>1 DEF Next_in
<1>3. TypeOK'
  BY <1>1, <1>2 DEF IndInv, TypeOK, File, file
<1>4. Account' /\ AtTheEnd'
  BY <1>1, <1>2 DEF IndInv, Account, AtTheEnd, file
<1>5. ToldTheEnd' /\ DoneAtTheEnd' /\ Running' /\ InputNotLost' /\ SoundIsOpened'
  BY <1>1 DEF ToldTheEnd, DoneAtTheEnd, Running, InputNotLost, SoundIsOpened
<1> QED BY <1>3, <1>4, <1>5 DEF IndInv

LEMMA WriteFailsKeeps == ASSUME IndInv, NEW k \in 0..InputBufSize, WriteFails(k) PROVE IndInv'
<1>1. Call(k) /\ pc' = "error" /\ io_failed' = TRUE /\ written' = written
  BY DEF WriteFails, Fail
<1>2. TypeOK'
  BY <1>1, CallKeeps DEF IndInv, TypeOK, File, file
<1>3. Account' /\ AtTheEnd'
  BY <1>1, CallKeeps DEF Account
<1>4. ToldTheEnd' /\ DoneAtTheEnd' /\ Running' /\ InputNotLost' /\ SoundIsOpened'
  BY <1>1 DEF ToldTheEnd, DoneAtTheEnd, Running, InputNotLost, SoundIsOpened
<1> QED BY <1>2, <1>3, <1>4 DEF IndInv

LEMMA InflateKeeps == ASSUME IndInv, NEW k \in 0..InputBufSize, Inflate(k) PROVE IndInv'
<1>1. /\ Call(k) /\ written' = written + Given(k) /\ pc' = After(k) /\ io_failed' = io_failed
      /\ Takes(k) /\ pc = "inflate" /\ ~io_failed /\ zerr' = Result(k)
  BY DEF Inflate, Call, IndInv, Running
<1>2. pc' \in {"read", "inflate", "error"}
  BY <1>1 DEF After
<1>3. written \in Nat /\ written + pending = total[Next_in]
  BY <1>1 DEF IndInv, TypeOK, Account
<1>4. pending \in Nat /\ avail_in \in Nat /\ avail_in' = avail_in - k
      /\ consumed \in Nat /\ got \in Nat /\ avail_in <= got /\ stream \in Nat /\ length \in Nat
      /\ corrupt \in Nat
  BY <1>1, BufferAssumption DEF IndInv, TypeOK, File, Call
<1>5. TypeOK'
  <2>1. written' \in Nat
    BY <1>1, <1>3, CallBounds
  <2> QED BY <1>1, <1>2, <2>1, CallKeeps DEF IndInv, TypeOK, File, file
<1>6. Account'
  <2>1. total' = total /\ Next_in' = Next_in + k
    BY <1>1, CallKeeps DEF file
  <2>2. written' + pending' = total[Next_in + k]
    BY <1>1, <1>3, <1>4, CallBounds, CallKeeps
  <2> QED BY <1>1, <2>1, <2>2, CallKeeps DEF Account
<1>7. AtTheEnd'
  BY <1>1, CallKeeps
<1>8. ToldTheEnd'
  BY <1>1, CallKeeps DEF IndInv, ToldTheEnd, file
<1>9. DoneAtTheEnd' /\ Running'
  BY <1>1, <1>2 DEF DoneAtTheEnd, Running
<1>10. InputNotLost'
  <2> SUFFICES ASSUME pc' = "read", zerr' # "Z_STREAM_END" PROVE avail_in' = 0
    BY DEF InputNotLost
  <2>1. /\ Given(k) < OutputBufSize
        /\ Result(k) \notin {"Z_DATA_ERROR", "Z_STREAM_END"}
    BY <1>1, CallBounds, BufferAssumption DEF After, Throws, Result
  <2>2. k = Limit /\ Given(k) = Held(k)
    BY <1>1, <2>1, CallBounds
  <2>3. Next_in + k # stream
    BY <2>1, <2>2 DEF Result
  <2>4. CASE Limit = avail_in
    BY <1>4, <2>2, <2>4
  <2>5. CASE Next_in + Limit = corrupt - 1
    <3>1. Next_in + k + 1 = corrupt
      BY <1>1, <1>4, <2>2, <2>5, CallBounds
    <3>2. ~(k < avail_in)
      BY <2>1, <2>2, <2>3, <3>1 DEF Result
    <3> QED BY <1>1, <1>4, <3>2, CallBounds
  <2> QED BY <1>1, <2>2, <2>3, <2>4, <2>5, CallBounds
<1>11. SoundIsOpened'
  <2> SUFFICES ASSUME pc' = "error" PROVE ~(length >= stream /\ corrupt > stream)
    BY <1>1, CallKeeps DEF SoundIsOpened, Sound, file
  <2>1. Result(k) \in {"Z_DATA_ERROR", "Z_BUF_ERROR"}
    BY <1>1 DEF After, Throws, Result
  <2>2. CASE Result(k) = "Z_DATA_ERROR"
    <3>1. Next_in + k + 1 = corrupt /\ Given(k) < OutputBufSize
      BY <2>2 DEF Result
    <3>2. Next_in + k # stream
      BY <1>1, <2>2, <3>1, CallBounds DEF Result
    <3> QED BY <1>1, <1>4, <3>1, <3>2, CallBounds
  <2>3. CASE Result(k) = "Z_BUF_ERROR"
    <3>1. ~(got > 0) /\ k = 0 /\ Given(k) = 0
      BY <1>1, <2>3 DEF After, Result
    <3>2. consumed = length /\ avail_in = 0
      BY <1>1, <1>4, <3>1 DEF IndInv, ToldTheEnd
    <3>3. Given(k) = Held(k) /\ Next_in = length
      BY <1>1, <1>4, <3>1, <3>2, CallBounds, BufferAssumption DEF Next_in
    <3>4. Next_in + k # stream
      BY <2>3, <3>3 DEF Result
    <3> QED BY <1>1, <1>4, <3>1, <3>3, <3>4, CallBounds
  <2> QED BY <2>1, <2>2, <2>3
<1> QED BY <1>5, <1>6, <1>7, <1>8, <1>9, <1>10, <1>11 DEF IndInv

LEMMA StutterKeeps == ASSUME IndInv, UNCHANGED vars PROVE IndInv'
BY DEF vars, file, IndInv, TypeOK, File, Account, AtTheEnd, ToldTheEnd, DoneAtTheEnd, Running,
       InputNotLost, SoundIsOpened, Sound, Next_in

LEMMA NextHolds == IndInv /\ [Next]_vars => IndInv'
<1> SUFFICES ASSUME IndInv, [Next]_vars PROVE IndInv'
  OBVIOUS
<1>1. CASE Fill
  BY <1>1, FillKeeps
<1>2. CASE ReadFails
  BY <1>2, ReadFailsKeeps
<1>3. CASE Done
  BY <1>3, DoneKeeps
<1>4. ASSUME NEW k \in 0..InputBufSize, Inflate(k) PROVE IndInv'
  BY <1>4, InflateKeeps
<1>5. ASSUME NEW k \in 0..InputBufSize, WriteFails(k) PROVE IndInv'
  BY <1>5, WriteFailsKeeps
<1>6. CASE UNCHANGED vars
  BY <1>6, StutterKeeps
<1> QED BY <1>1, <1>2, <1>3, <1>4, <1>5, <1>6 DEF Next

LEMMA Invariance == Spec => []IndInv
BY InitHolds, NextHolds, PTL DEF Spec
-----------------------------------------------------------------------------
(* zlib's variables and the buffers keep within their bounds, in the loops of *)
(* write_decompressed_data.                                                   *)
THEOREM TypeCorrect == Spec => []TypeOK
<1>1. IndInv => TypeOK
  BY DEF IndInv
<1> QED BY <1>1, Invariance, PTL

(* If write_decompressed_data returns, the file was neither cut off nor       *)
(* damaged, and all that comes out of it was written.                         *)
THEOREM WholeImage == Spec => []WholeIfDone
<1>1. ASSUME IndInv PROVE WholeIfDone
  <2> SUFFICES ASSUME pc = "done" PROVE Sound /\ written = total[stream]
    BY DEF WholeIfDone
  <2>1. zerr = "Z_STREAM_END" /\ ~io_failed
    BY <1>1 DEF IndInv, DoneAtTheEnd
  <2>2. pending = 0 /\ Next_in = stream /\ Next_in <= corrupt - 1
        /\ written + pending = total[Next_in]
    BY <1>1, <2>1 DEF IndInv, AtTheEnd, Account
  <2>3. /\ avail_in \in Nat /\ consumed \in Nat /\ length \in Nat /\ consumed <= length
        /\ stream \in Nat /\ corrupt \in Nat /\ written \in Nat
    BY <1>1 DEF IndInv, TypeOK, File
  <2> QED BY <2>2, <2>3 DEF Next_in, Sound
<1> QED BY <1>1, Invariance, PTL

(* No byte that was read is overwritten before zlib has taken it.             *)
THEOREM NothingLost == Spec => []InputNotLost
<1>1. IndInv => InputNotLost
  BY DEF IndInv
<1> QED BY <1>1, Invariance, PTL

(* A file that is whole is not refused, whatever the sizes of the buffers.    *)
THEOREM SoundAccepted == Spec => []SoundIsOpened
<1>1. IndInv => SoundIsOpened
  BY DEF IndInv
<1> QED BY <1>1, Invariance, PTL

-----------------------------------------------------------------------------
(* The number that a GOTO holds: print_target_line_number of lines.c.      *)

\* A number below 64 is the sum of its bits, and 64 more has the same ones.
LEMMA SmallBits ==
  ASSUME NEW x \in 0..63
  PROVE  /\ x = 32 * Bit(x, 32) + 16 * Bit(x, 16) + 8 * Bit(x, 8) + 4 * Bit(x, 4)
                + 2 * Bit(x, 2) + Bit(x, 1)
         /\ \A w \in {1, 2, 4, 8, 16, 32} : Bit(64 + x, w) = Bit(x, w) /\ Bit(x, w) \in 0..1
         /\ Bit(64 + x, 64) = 1 /\ Bit(64 + x, 128) = 0
  BY DEF Bit

\* An exclusive or with a multiple of 64 changes the two highest bits only.
LEMMA XorHigh ==
  ASSUME NEW x \in 0..63
  PROVE  /\ Xor(64 + x, 0) = 64 + x /\ Xor(64 + x, 64) = x
         /\ Xor(64 + x, 128) = 192 + x /\ Xor(64 + x, 192) = 128 + x
<1>1. \A w \in {1, 2, 4, 8, 16, 32} :
        Bit(0, w) = 0 /\ Bit(64, w) = 0 /\ Bit(128, w) = 0 /\ Bit(192, w) = 0
  BY DEF Bit
<1>2. /\ Bit(0, 64) = 0 /\ Bit(64, 64) = 1 /\ Bit(128, 64) = 0 /\ Bit(192, 64) = 1
      /\ Bit(0, 128) = 0 /\ Bit(64, 128) = 0 /\ Bit(128, 128) = 1 /\ Bit(192, 128) = 1
  BY DEF Bit
<1>3. \A w \in {1, 2, 4, 8, 16, 32} : w * ((Bit(64 + x, w) + 0) % 2) = w * Bit(x, w)
  BY SmallBits
<1> QED BY <1>1, <1>2, <1>3, SmallBits DEF Xor

\* The two bits of weight 4 and 16 of a number's first byte, moved to the top.
High(v) == CASE v = 0 -> 64 [] v = 1 -> 0 [] v = 2 -> 192 [] v = 3 -> 128
\* Where print_target_line_number finds these bits for either byte.
OfThird(c) == (c * 16) % 256
OfSecond(c) == (((c * 4) % 256) \div 64) * 64
\* The first of the three bytes, with the highest bits of both others.
First(u, v) == Xor(84, u * 16 + v * 4)

\* From the first byte the highest bits of both others come back.
LEMMA XorOfNumber ==
  ASSUME NEW u \in 0..3, NEW v \in 0..3
  PROVE  First(u, v) \in Byte /\ OfThird(First(u, v)) = High(v) /\ OfSecond(First(u, v)) = High(u)
<1>1. First(u, v) = 64 + (CASE v = 0 -> 4 [] v = 1 -> 0 [] v = 2 -> 12 [] v = 3 -> 8)
                     + (CASE u = 0 -> 16 [] u = 1 -> 0 [] u = 2 -> 48 [] u = 3 -> 32)
  <2>1. CASE u = 0
    BY <2>1 DEF First, Xor, Bit
  <2>2. CASE u = 1
    BY <2>2 DEF First, Xor, Bit
  <2>3. CASE u = 2
    BY <2>3 DEF First, Xor, Bit
  <2>4. CASE u = 3
    BY <2>4 DEF First, Xor, Bit
  <2> QED BY <2>1, <2>2, <2>3, <2>4
<1>2. u \in {0, 1, 2, 3} /\ v \in {0, 1, 2, 3}
  OBVIOUS
<1>3. CASE u = 0
  BY <1>1, <1>2, <1>3 DEF Byte, OfThird, OfSecond, High
<1>4. CASE u = 1
  BY <1>1, <1>2, <1>4 DEF Byte, OfThird, OfSecond, High
<1>5. CASE u = 2
  BY <1>1, <1>2, <1>5 DEF Byte, OfThird, OfSecond, High
<1>6. CASE u = 3
  BY <1>1, <1>2, <1>6 DEF Byte, OfThird, OfSecond, High
<1> QED BY <1>2, <1>3, <1>4, <1>5, <1>6

\* A byte of the number, whose highest bits were moved to another byte.
LEMMA HighBits ==
  ASSUME NEW v \in 0..3, NEW y \in 0..63
  PROVE  Xor(64 + y, High(v)) = 64 * v + y
<1>1. v \in {0, 1, 2, 3}
  OBVIOUS
<1>2. High(0) = 64 /\ High(1) = 0 /\ High(2) = 192 /\ High(3) = 128
  BY DEF High
<1>3. /\ Xor(64 + y, 0) = 64 + y /\ Xor(64 + y, 64) = y
      /\ Xor(64 + y, 128) = 192 + y /\ Xor(64 + y, 192) = 128 + y
  BY XorHigh
<1> QED BY <1>1, <1>2, <1>3

\* The three bytes of a number whose bytes are 64 * u + x and 64 * v + y.
Three(u, v, x, y) == <<First(u, v), 64 + x, 64 + y>>
Value(u, v, x, y) == 256 * (64 * v + y) + (64 * u + x)
Decoded(w, n) == w \in Seq(Byte) /\ Len(w) = 3 /\ Target(w[1], w[2], w[3]) = n

\* Those three bytes are read as the number.
LEMMA TargetOfParts ==
  ASSUME NEW u \in 0..3, NEW v \in 0..3, NEW x \in 0..63, NEW y \in 0..63
  PROVE  Decoded(Three(u, v, x, y), Value(u, v, x, y))
<1>1. PICK c : c = First(u, v)
  OBVIOUS
<1>2. OfThird(c) = High(v) /\ OfSecond(c) = High(u) /\ c \in Byte
  BY <1>1, XorOfNumber
<1>3. Xor(64 + y, High(v)) = 64 * v + y /\ Xor(64 + x, High(u)) = 64 * u + x
  BY HighBits
<1>4. Target(c, 64 + x, 64 + y) = 256 * Xor(64 + y, OfThird(c)) + Xor(64 + x, OfSecond(c))
  BY DEF Target, OfThird, OfSecond
<1>5. 64 + x \in Byte /\ 64 + y \in Byte
  BY DEF Byte
<1>6. Target(c, 64 + x, 64 + y) = Value(u, v, x, y)
  BY <1>2, <1>3, <1>4 DEF Value
<1>7. /\ <<c, 64 + x, 64 + y>> \in Seq(Byte) /\ Len(<<c, 64 + x, 64 + y>>) = 3
      /\ <<c, 64 + x, 64 + y>>[1] = c /\ <<c, 64 + x, 64 + y>>[2] = 64 + x
      /\ <<c, 64 + x, 64 + y>>[3] = 64 + y
  BY <1>2, <1>5
<1>8. Three(u, v, x, y) = <<c, 64 + x, 64 + y>>
  BY <1>1 DEF Three
<1> QED BY <1>6, <1>7, <1>8 DEF Decoded

\* A number's bytes, and a byte's lowest six and highest two bits.
Lower(n) == n % 256
Upper(n) == n \div 256
Six(b) == b % 64
Two(b) == b \div 64

\* A number below 65536 is made of its two bytes,
LEMMA TwoBytes ==
  ASSUME NEW n \in Short
  PROVE  Lower(n) \in 0..255 /\ Upper(n) \in 0..255 /\ n = 256 * Upper(n) + Lower(n)
  BY DEF Lower, Upper, Short, LastShort

\* and a byte of its six and two bits.
LEMMA TwoParts ==
  ASSUME NEW b \in 0..255
  PROVE  Six(b) \in 0..63 /\ Two(b) \in 0..3 /\ b = 64 * Two(b) + Six(b)
  BY DEF Six, Two

\* The number that a GOTO holds is read as it was written.
LEMMA TargetDecoded ==
  ASSUME NEW n \in Short
  PROVE  Decoded(TargetBytes(n), n)
<1>1. TargetBytes(n) = Three(Two(Lower(n)), Two(Upper(n)), Six(Lower(n)), Six(Upper(n)))
  BY DEF TargetBytes, First, Three, Two, Six, Lower, Upper
<1>2. Lower(n) \in 0..255 /\ Upper(n) \in 0..255 /\ n = 256 * Upper(n) + Lower(n)
  BY TwoBytes
<1>3. /\ Two(Lower(n)) \in 0..3 /\ Two(Upper(n)) \in 0..3
      /\ Six(Lower(n)) \in 0..63 /\ Six(Upper(n)) \in 0..63
      /\ Lower(n) = 64 * Two(Lower(n)) + Six(Lower(n))
      /\ Upper(n) = 64 * Two(Upper(n)) + Six(Upper(n))
  BY <1>2, TwoParts
<1>4. n = Value(Two(Lower(n)), Two(Upper(n)), Six(Lower(n)), Six(Upper(n)))
  BY <1>2, <1>3 DEF Value
<1> QED BY <1>1, <1>3, <1>4, TargetOfParts

\* Every byte has a class, and that of a line number is the same in all dialects.
LEMMA Classes ==
  ASSUME NEW d \in Dialect
  PROVE  DOMAIN Base[d] = Byte /\ Base[d][LineNum] = "line_num"
<1>1. Base[d] = Mapping(d)
  BY DEF Base
<1>2. DOMAIN Mapping(d) = Byte /\ 141 \in Byte
  BY DEF Mapping, Byte
<1>3. Mapping(d)[141] = Table(Column(d))[141]
  BY <1>2 DEF Mapping, CR
<1>4. ASSUME NEW c PROVE Table(c)[141] = "line_num"
  <2>1. /\ 141 \notin 0..16 /\ 141 \notin 24..31 /\ 141 # 127 /\ 141 = LineNum
        /\ 141 \notin Extensions
    BY DEF LineNum, Extensions
  <2> QED BY <1>2, <2>1, Zenon DEF Table
<1> QED BY <1>1, <1>2, <1>3, <1>4 DEF LineNum

\* An exclusive or is a number again, and so is what is read for any three bytes.
LEMMA XorNat ==
  ASSUME NEW a \in Nat, NEW b \in Nat PROVE Xor(a, b) \in Nat
<1>1. \A w \in {128, 64, 32, 16, 8, 4, 2, 1} : Bit(a, w) \in Nat /\ Bit(b, w) \in Nat
  BY DEF Bit
<1>2. \A w \in {128, 64, 32, 16, 8, 4, 2, 1} : w * ((Bit(a, w) + Bit(b, w)) % 2) \in Nat
  <2>1. ASSUME NEW c \in Nat, NEW d \in Nat PROVE (c + d) % 2 \in 0..1
    OBVIOUS
  <2>2. \A w \in {128, 64, 32, 16, 8, 4, 2, 1} : (Bit(a, w) + Bit(b, w)) % 2 \in 0..1
    BY <1>1, <2>1
  <2> QED BY <2>2
<1> QED BY <1>2 DEF Xor

\* Whatever the three bytes are, a number is read.
LEMMA TargetNat ==
  ASSUME NEW a \in Byte, NEW b \in Byte, NEW c \in Byte PROVE Target(a, b, c) \in Nat
<1>1. (a * 16) % 256 \in Nat /\ (((a * 4) % 256) \div 64) * 64 \in Nat
      /\ b \in Nat /\ c \in Nat
  BY DEF Byte
<1>2. Xor(c, (a * 16) % 256) \in Nat /\ Xor(b, (((a * 4) % 256) \div 64) * 64) \in Nat
  BY <1>1, XorNat
<1> QED BY <1>2 DEF Target
-----------------------------------------------------------------------------
(* Sequences that are joined to one, and the places of the parts in it.    *)

\* Numbers, if there are any, have a least one.
LEMMA NatLeast ==
  ASSUME NEW T, T \subseteq Nat, T # {}
  PROVE  \E x \in T : \A y \in T : x <= y
<1> DEFINE R == {ss \in Nat \X Nat : ss[1] < ss[2]}
<1>1. IsWellFoundedOn(R, Nat)
  BY NatLessThanWellFounded DEF OpToRel
<1> HIDE DEF R
<1>2. PICK x \in T : \A y \in T : ~ (<<y, x>> \in R)
  BY <1>1, WFMin
<1>3. ASSUME NEW y \in T, y < x PROVE <<y, x>> \in R
  BY <1>3 DEF R
<1>4. ASSUME NEW y \in T PROVE x <= y
  <2>1. x \in Nat /\ y \in Nat
    OBVIOUS
  <2>2. ~(y < x)
    BY <1>2, <1>3
  <2> QED
    BY <2>1, <2>2
<1> QED
  BY <1>4

\* What is joined of the first sequences, one after the other.
Joins(s, m, f) ==
  f = [i \in 1..m |-> IF i = 1 THEN s[i] ELSE f[i-1] \o s[i]]

\* A function that joins has these values,
LEMMA JoinsEach ==
  ASSUME NEW s, NEW m, NEW f, Joins(s, m, f)
  PROVE  /\ DOMAIN f = 1..m
         /\ \A i \in 1..m : f[i] = (IF i = 1 THEN s[i] ELSE f[i-1] \o s[i])
<1> DEFINE h == [i \in 1..m |-> IF i = 1 THEN s[i] ELSE f[i-1] \o s[i]]
<1>1. f = h
  BY DEF Joins
<1>2. DOMAIN h = 1..m /\ \A i \in 1..m : h[i] = (IF i = 1 THEN s[i] ELSE f[i-1] \o s[i])
  OBVIOUS
<1> HIDE DEF h
<1> QED BY <1>1, <1>2

\* and what has these values is such a function.
LEMMA EachJoins ==
  ASSUME NEW s, NEW m, NEW X, NEW f, f \in [1..m -> X],
         \A i \in 1..m : f[i] = (IF i = 1 THEN s[i] ELSE f[i-1] \o s[i])
  PROVE  Joins(s, m, f)
<1> DEFINE h == [i \in 1..m |-> IF i = 1 THEN s[i] ELSE f[i-1] \o s[i]]
<1>1. DOMAIN h = 1..m /\ \A i \in 1..m : h[i] = f[i]
  OBVIOUS
<1>2. f = h
  BY <1>1
<1> QED BY <1>2 DEF Joins

\* From what joins m - 1 sequences to what joins m,
LEMMA JoinsLonger ==
  ASSUME NEW S, NEW s \in Seq(Seq(S)), NEW m \in 1..Len(s),
         \E f : Joins(s, m - 1, f) /\ f \in [1..m - 1 -> Seq(S)]
  PROVE  \E f : Joins(s, m, f) /\ f \in [1..m -> Seq(S)]
<1>1. PICK f : Joins(s, m - 1, f) /\ f \in [1..m - 1 -> Seq(S)]
  OBVIOUS
<1> DEFINE last == IF m = 1 THEN s[1] ELSE f[m-1] \o s[m]
           g == [i \in 1..m |-> IF i < m THEN f[i] ELSE last]
<1>2. last \in Seq(S)
  <2>1. s[m] \in Seq(S)
    OBVIOUS
  <2>2. m # 1 => f[m-1] \in Seq(S)
    BY <1>1
  <2> QED BY <2>1, <2>2
<1>3. g \in [1..m -> Seq(S)]
  <2> HIDE DEF last
  <2>1. \A i \in 1..m : i < m => f[i] \in Seq(S)
    BY <1>1
  <2> QED BY <1>2, <2>1
<1>0. \A j \in 1..m - 1 : f[j] = (IF j = 1 THEN s[j] ELSE f[j-1] \o s[j])
  <2> DEFINE k == m - 1
  <2>1. Joins(s, k, f)
    BY <1>1
  <2> HIDE DEF k
  <2>2. \A j \in 1..k : f[j] = (IF j = 1 THEN s[j] ELSE f[j-1] \o s[j])
    BY <2>1, JoinsEach
  <2> QED BY <2>2 DEF k
<1>4. ASSUME NEW i \in 1..m
      PROVE  g[i] = (IF i = 1 THEN s[i] ELSE g[i-1] \o s[i])
  <2>1. CASE i < m
    <3>1. m - 1 \in 0..Len(s) /\ i \in 1..m - 1
      BY <2>1
    <3>2. f[i] = (IF i = 1 THEN s[i] ELSE f[i-1] \o s[i])
      BY <1>0, <3>1
    <3>3. g[i] = f[i] /\ (i > 1 => g[i-1] = f[i-1])
      BY <2>1
    <3> QED BY <3>2, <3>3
  <2>2. CASE i = m
    <3>1. g[i] = last /\ (i > 1 => g[i-1] = f[i-1])
      BY <2>2
    <3> QED BY <2>2, <3>1
  <2> QED BY <2>1, <2>2
<1> HIDE DEF g
<1>5. Joins(s, m, g)
  BY <1>3, <1>4, EachJoins
<1> QED BY <1>3, <1>5

\* and so up from none: FlattenSeq of any sequence of sequences means something.
LEMMA JoinsExist ==
  ASSUME NEW S, NEW s \in Seq(Seq(S)), NEW m \in 0..Len(s)
  PROVE  \E f : Joins(s, m, f) /\ f \in [1..m -> Seq(S)]
<1> DEFINE Made(n) == \E f : Joins(s, n, f) /\ f \in [1..n -> Seq(S)]
           T == {n \in 0..Len(s) : ~Made(n)}
<1>1. Made(0)
  <2> DEFINE e == [i \in 1..0 |-> <<>>]
  <2>1. e \in [1..0 -> Seq(S)]
    OBVIOUS
  <2>3. \A i \in 1..0 : e[i] = (IF i = 1 THEN s[i] ELSE e[i-1] \o s[i])
    OBVIOUS
  <2> HIDE DEF e
  <2>2. Joins(s, 0, e)
    BY <2>1, <2>3, EachJoins
  <2> QED BY <2>1, <2>2
<1>2. ASSUME NEW n \in 1..Len(s), Made(n - 1) PROVE Made(n)
  BY <1>2, JoinsLonger
<1>0. SUFFICES ASSUME T # {} PROVE FALSE
  BY <1>0
<1> HIDE DEF Made
<1>3. T \subseteq Nat
  OBVIOUS
<1>4. PICK n \in T : \A y \in T : n <= y
  BY <1>0, <1>3, NatLeast
<1>5. n # 0 /\ n \in 0..Len(s)
  BY <1>1
<1>6. n - 1 \in 0..Len(s) /\ n - 1 \notin T
  BY <1>4, <1>5
<1> QED BY <1>2, <1>5, <1>6

\* FlattenSeq is the last of what is joined.
LEMMA FlattenIs ==
  ASSUME NEW S, NEW s \in Seq(Seq(S))
  PROVE  /\ Len(s) = 0 => FlattenSeq(s) = <<>>
         /\ Len(s) > 0 => \E f : Joins(s, Len(s), f) /\ FlattenSeq(s) = f[Len(s)]
<1>1. Len(s) = 0 => FlattenSeq(s) = <<>>
  BY DEF FlattenSeq
<1>2. ASSUME Len(s) > 0 PROVE \E f : Joins(s, Len(s), f) /\ FlattenSeq(s) = f[Len(s)]
  <2> DEFINE c == CHOOSE f : f = [i \in 1..Len(s) |-> IF i = 1 THEN s[i] ELSE f[i-1] \o s[i]]
  <2>1. FlattenSeq(s) = c[Len(s)]
    BY <1>2 DEF FlattenSeq
  <2>2. \E f : f = [i \in 1..Len(s) |-> IF i = 1 THEN s[i] ELSE f[i-1] \o s[i]]
    <3>1. Len(s) \in 0..Len(s)
      OBVIOUS
    <3>2. PICK f : Joins(s, Len(s), f)
      BY <3>1, JoinsExist
    <3> QED BY <3>2 DEF Joins
  <2>3. c = [i \in 1..Len(s) |-> IF i = 1 THEN s[i] ELSE c[i-1] \o s[i]]
    BY <2>2
  <2>4. Joins(s, Len(s), c)
    BY <2>3 DEF Joins
  <2> QED BY <2>1, <2>4
<1> QED BY <1>1, <1>2

\* Of no sequences nothing is joined.
LEMMA FlattenNone == ASSUME NEW s, Len(s) = 0, s = <<>> PROVE FlattenSeq(s) = <<>>
  BY DEF FlattenSeq

\* What is joined of the first m sequences depends on these alone.
LEMMA JoinsSame ==
  ASSUME NEW s, NEW t, NEW m \in Nat, NEW n \in Nat, m <= n, NEW f, NEW g,
         Joins(s, m, f), Joins(t, n, g), \A i \in 1..m : s[i] = t[i]
  PROVE  \A i \in 1..m : f[i] = g[i]
<1> DEFINE T == {i \in 1..m : f[i] # g[i]}
<1>0. SUFFICES ASSUME T # {} PROVE FALSE
  BY <1>0
<1>1. \A i \in 1..m : f[i] = (IF i = 1 THEN s[i] ELSE f[i-1] \o s[i])
  BY JoinsEach
<1>2. \A i \in 1..n : g[i] = (IF i = 1 THEN t[i] ELSE g[i-1] \o t[i])
  BY JoinsEach
<1>3. T \subseteq Nat
  OBVIOUS
<1>4. PICK i \in T : \A y \in T : i <= y
  BY <1>0, <1>3, NatLeast
<1>5. i \in 1..m /\ i \in 1..n /\ s[i] = t[i] /\ f[i] # g[i]
  OBVIOUS
<1>6. ASSUME i # 1 PROVE f[i-1] = g[i-1]
  <2>1. i - 1 \in 1..m /\ i - 1 \notin T
    BY <1>4, <1>5, <1>6
  <2> QED BY <2>1
<1> QED BY <1>1, <1>2, <1>5, <1>6

\* What is joined is a sequence of what the parts had.
LEMMA FlattenTyped ==
  ASSUME NEW S, NEW s \in Seq(Seq(S)) PROVE FlattenSeq(s) \in Seq(S)
<1>1. CASE Len(s) = 0
  <2>1. FlattenSeq(s) = <<>>
    BY <1>1, FlattenIs, Zenon
  <2> QED BY <2>1
<1>2. CASE Len(s) > 0
  <2>1. Len(s) \in 0..Len(s) /\ Len(s) \in Nat
    OBVIOUS
  <2>2. PICK f : Joins(s, Len(s), f) /\ FlattenSeq(s) = f[Len(s)]
    BY <1>2, FlattenIs
  <2>3. PICK g : Joins(s, Len(s), g) /\ g \in [1..Len(s) -> Seq(S)]
    BY <2>1, JoinsExist
  <2>4. \A i \in 1..Len(s) : f[i] = g[i]
    <3>1. Len(s) \in Nat /\ Len(s) <= Len(s) /\ \A i \in 1..Len(s) : s[i] = s[i]
      BY <2>1
    <3>2. Joins(s, Len(s), f) /\ Joins(s, Len(s), g)
      BY <2>2, <2>3
    <3> QED BY <3>1, <3>2, JoinsSame
  <2>5. Len(s) \in 1..Len(s)
    BY <1>2
  <2> QED BY <2>2, <2>3, <2>4, <2>5
<1> QED BY <1>1, <1>2

\* One sequence more comes behind what is joined of the others.
LEMMA FlattenAppend ==
  ASSUME NEW S, NEW s \in Seq(Seq(S)), NEW x \in Seq(S)
  PROVE  FlattenSeq(Append(s, x)) = FlattenSeq(s) \o x
<1> DEFINE t == Append(s, x)
<1>1. t \in Seq(Seq(S)) /\ Len(t) = Len(s) + 1 /\ t[Len(s) + 1] = x
      /\ \A i \in 1..Len(s) : s[i] = t[i]
  OBVIOUS
<1> HIDE DEF t
<1>2. Len(s) \in Nat /\ Len(t) \in Nat /\ Len(s) <= Len(t)
  BY <1>1
<1>3. PICK g : Joins(t, Len(t), g) /\ FlattenSeq(t) = g[Len(t)]
  BY <1>1, FlattenIs
<1>4. FlattenSeq(t) = IF Len(s) = 0 THEN x ELSE g[Len(s)] \o x
  <2>1. \A i \in 1..Len(t) : g[i] = (IF i = 1 THEN t[i] ELSE g[i-1] \o t[i])
    BY <1>3, JoinsEach
  <2>2. Len(t) \in 1..Len(t) /\ Len(t) - 1 = Len(s)
    BY <1>1, <1>2
  <2> QED BY <1>1, <1>2, <1>3, <2>1, <2>2
<1>5. CASE Len(s) = 0
  <2>1. FlattenSeq(s) = <<>>
    BY <1>5, FlattenIs, Zenon
  <2>2. <<>> \o x = x
    OBVIOUS
  <2>3. FlattenSeq(t) = FlattenSeq(s) \o x
    BY <1>4, <1>5, <2>1, <2>2
  <2> QED BY <2>3 DEF t
<1>6. CASE Len(s) > 0
  <2>1. PICK f : Joins(s, Len(s), f) /\ FlattenSeq(s) = f[Len(s)]
    BY <1>6, FlattenIs
  <2> DEFINE m == Len(s)
             n == Len(t)
  <2>2. /\ m \in Nat /\ n \in Nat /\ m <= n /\ Joins(s, m, f) /\ Joins(t, n, g)
        /\ \A i \in 1..m : s[i] = t[i]
    BY <1>1, <1>2, <1>3, <2>1
  <2> HIDE DEF m, n
  <2>5. \A i \in 1..m : f[i] = g[i]
    BY <2>2, JoinsSame
  <2>3. Len(s) \in 1..Len(s) /\ f[Len(s)] = g[Len(s)]
    BY <1>2, <1>6, <2>5 DEF m
  <2>4. FlattenSeq(t) = FlattenSeq(s) \o x
    BY <1>4, <1>6, <2>1, <2>3
  <2> QED BY <2>4 DEF t
<1> QED BY <1>2, <1>5, <1>6

\* What is joined before the next sequence.
Before(s, j) == FlattenSeq(SubSeq(s, 1, j))

\* What the first j parts make, from nothing to all, one part after the other.
LEMMA BeforeSteps ==
  ASSUME NEW S, NEW s \in Seq(Seq(S))
  PROVE  /\ Before(s, 0) = <<>> /\ Before(s, Len(s)) = FlattenSeq(s)
         /\ \A j \in 0..Len(s) : Before(s, j) \in Seq(S)
         /\ \A j \in 0..Len(s) - 1 : s[j + 1] \in Seq(S) /\ Before(s, j + 1) = Before(s, j) \o s[j + 1]
<1>1. Before(s, 0) = <<>>
  <2>1. SubSeq(s, 1, 0) = <<>> /\ Len(<<>>) = 0
    OBVIOUS
  <2> QED BY <2>1, FlattenNone DEF Before
<1>2. SubSeq(s, 1, Len(s)) = s
  OBVIOUS
<1>3. \A j \in 0..Len(s) : SubSeq(s, 1, j) \in Seq(Seq(S))
  OBVIOUS
<1>4. \A j \in 0..Len(s) : Before(s, j) \in Seq(S)
  BY <1>3, FlattenTyped DEF Before
<1>5. ASSUME NEW j \in 0..Len(s) - 1
      PROVE  s[j + 1] \in Seq(S) /\ Before(s, j + 1) = Before(s, j) \o s[j + 1]
  <2>1. s[j + 1] \in Seq(S) /\ SubSeq(s, 1, j) \in Seq(Seq(S))
    OBVIOUS
  <2>2. SubSeq(s, 1, j + 1) = Append(SubSeq(s, 1, j), s[j + 1])
    OBVIOUS
  <2> QED BY <2>1, <2>2, FlattenAppend DEF Before
<1> QED BY <1>1, <1>2, <1>4, <1>5 DEF Before

\* Each of the sequences is found whole in what is joined, behind those before it.
Holds(t, a, x) == a + Len(x) <= Len(t) /\ \A k \in 1..Len(x) : t[a + k] = x[k]

\* What the first parts make stays the beginning when more are joined.
LEMMA BeforeStays ==
  ASSUME NEW S, NEW s \in Seq(Seq(S)), NEW j \in 0..Len(s), NEW m \in 0..Len(s), j <= m
  PROVE  Holds(Before(s, m), 0, Before(s, j))
<1> DEFINE T == {n \in j..Len(s) : ~Holds(Before(s, n), 0, Before(s, j))}
<1>0. SUFFICES ASSUME T # {} PROVE FALSE
  <2>1. m \in j..Len(s)
    OBVIOUS
  <2> QED BY <1>0, <2>1
<1>1. T \subseteq Nat
  OBVIOUS
<1>2. PICK n \in T : \A y \in T : n <= y
  BY <1>0, <1>1, NatLeast
<1>3. n # j
  <2>1. Before(s, j) \in Seq(S)
    BY BeforeSteps
  <2>2. Holds(Before(s, j), 0, Before(s, j))
    BY <2>1 DEF Holds
  <2> QED BY <2>2
<1> DEFINE p0 == n - 1
<1>4. p0 \in j..Len(s) /\ p0 \in 0..Len(s) - 1 /\ n = p0 + 1 /\ p0 \notin T
  BY <1>2, <1>3
<1>5. Holds(Before(s, p0), 0, Before(s, j))
  BY <1>4
<1> HIDE DEF p0
<1>6. /\ Before(s, p0) \in Seq(S) /\ s[n] \in Seq(S) /\ Before(s, j) \in Seq(S)
      /\ Before(s, n) = Before(s, p0) \o s[n]
  BY <1>4, BeforeSteps
<1>7. Holds(Before(s, n), 0, Before(s, j))
  <2> DEFINE a == Before(s, p0)  b == Before(s, j)  c == s[n]
  <2>1. a \in Seq(S) /\ b \in Seq(S) /\ c \in Seq(S) /\ Holds(a, 0, b)
    BY <1>5, <1>6
  <2> HIDE DEF a, b, c
  <2>2. Holds(a \o c, 0, b)
    BY <2>1 DEF Holds
  <2> QED BY <1>6, <2>2 DEF a, b, c
<1> QED BY <1>7

\* Each part is in the whole, right behind the parts before it.
LEMMA FlattenHolds ==
  ASSUME NEW S, NEW s \in Seq(Seq(S)), NEW j \in 0..Len(s) - 1
  PROVE  /\ Before(s, j) \in Seq(S) /\ s[j + 1] \in Seq(S) /\ FlattenSeq(s) \in Seq(S)
         /\ Holds(FlattenSeq(s), Len(Before(s, j)), s[j + 1])
         /\ Len(Before(s, j + 1)) = Len(Before(s, j)) + Len(s[j + 1])
         /\ Holds(FlattenSeq(s), 0, Before(s, j + 1))
<1>1. j + 1 \in 0..Len(s) /\ Len(s) \in 0..Len(s)
  OBVIOUS
<1>2. /\ Before(s, j) \in Seq(S) /\ s[j + 1] \in Seq(S) /\ FlattenSeq(s) \in Seq(S)
      /\ Before(s, j + 1) = Before(s, j) \o s[j + 1]
      /\ Before(s, Len(s)) = FlattenSeq(s)
  <2>1. FlattenSeq(s) \in Seq(S) /\ Before(s, Len(s)) = FlattenSeq(s)
    BY BeforeSteps, FlattenTyped
  <2>2. j \in 0..Len(s)
    OBVIOUS
  <2>3. Before(s, j) \in Seq(S)
    BY <2>2, BeforeSteps
  <2>4. s[j + 1] \in Seq(S) /\ Before(s, j + 1) = Before(s, j) \o s[j + 1]
    BY BeforeSteps
  <2> QED BY <2>1, <2>3, <2>4
<1>3. Holds(FlattenSeq(s), 0, Before(s, j + 1))
  BY <1>1, <1>2, BeforeStays
<1> DEFINE a == Before(s, j)  c == s[j + 1]  t == FlattenSeq(s)
<1>4. a \in Seq(S) /\ c \in Seq(S) /\ t \in Seq(S) /\ Holds(t, 0, a \o c)
  BY <1>2, <1>3
<1>5. Len(Before(s, j + 1)) = Len(a) + Len(c)
  BY <1>2
<1> HIDE DEF a, c, t
<1>6. Holds(t, Len(a), c)
  <2>1. Len(a \o c) = Len(a) + Len(c) /\ Len(a) + Len(c) <= Len(t)
    BY <1>4 DEF Holds
  <2>2. ASSUME NEW k \in 1..Len(c) PROVE t[Len(a) + k] = c[k]
    <3>1. Len(a) + k \in 1..Len(a \o c) /\ (a \o c)[Len(a) + k] = c[k]
      BY <1>4, <2>1
    <3>2. t[0 + (Len(a) + k)] = (a \o c)[Len(a) + k]
      BY <1>4, <3>1 DEF Holds
    <3> QED BY <1>4, <3>1, <3>2
  <2> QED BY <2>1, <2>2 DEF Holds
<1> QED BY <1>2, <1>3, <1>5, <1>6 DEF a, c, t
-----------------------------------------------------------------------------
(* The items of a line, in the bytes that BASIC has for them.              *)

\* What may be the next item of a line: in a string, or elsewhere.
Keeps(d, quoted, i) ==
  IF quoted THEN i.kind = "byte" /\ i.a \in Byte \ {0} /\ i.b = 0
  ELSE \/ i.kind = "target" /\ i.a \in Short /\ i.b = 0
       \/ i.kind = "word" /\ i.a \in Byte \ {0} /\ Keyword(d, i)

\* A sequence over a set is one over any wider set.
LEMMA SeqWider ==
  ASSUME NEW S, NEW U, S \subseteq U, NEW w \in Seq(S) PROVE w \in Seq(U)
  OBVIOUS

\* What is in a sequence that is put together of two, and where.
LEMMA ConcatIs ==
  ASSUME NEW S, NEW h \in Seq(S), NEW w \in Seq(S)
  PROVE  /\ h \o w \in Seq(S) /\ Len(h \o w) = Len(h) + Len(w)
         /\ \A k \in 1..Len(h) : (h \o w)[k] = h[k]
         /\ \A k \in 1..Len(w) : (h \o w)[Len(h) + k] = w[k]
  OBVIOUS

\* Four values in the order they are written.
LEMMA FourOf ==
  ASSUME NEW x, NEW h, NEW w, Len(h) = 1, Len(w) = 3, Len(x) = Len(h) + Len(w),
         \A k \in 1..Len(h) : x[k] = h[k], \A k \in 1..Len(w) : x[Len(h) + k] = w[k]
  PROVE  /\ Len(x) = 4 /\ x[1] = h[1] /\ x[2] = w[1] /\ x[3] = w[2] /\ x[4] = w[3]
<1>1. 1 \in 1..Len(h) /\ 1 \in 1..Len(w) /\ 2 \in 1..Len(w) /\ 3 \in 1..Len(w)
  OBVIOUS
<1>2. x[1] = h[1] /\ x[Len(h) + 1] = w[1] /\ x[Len(h) + 2] = w[2] /\ x[Len(h) + 3] = w[3]
  BY <1>1
<1> QED BY <1>2

\* Second bytes are bytes.
LEMMA SecondTyped ==
  ASSUME NEW d, NEW intro, NEW b \in Second(d, intro) PROVE b \in Nat /\ b # 0
  BY DEF Second

\* A keyword's first byte is of one of three classes.
LEMMA KeywordClasses ==
  ASSUME NEW d \in Dialect, NEW i \in Item, Keyword(d, i)
  PROVE  \/ Base[d][i.a] = "word" /\ i.b = 0
         \/ Base[d][i.a] = "extended" /\ i.b \in Second(d, i.a) /\ i.b # 0
         \/ Base[d][i.a] = "pdp_c8" /\ i.b \in {0, 152}
  BY SecondTyped DEF Keyword

\* Each item is saved as one to four bytes, and its first byte tells what it is.
LEMMA ItemBytesAre ==
  ASSUME NEW d \in Dialect, NEW quoted \in BOOLEAN, NEW i \in Item, Keeps(d, quoted, i)
  PROVE  LET x == ItemBytes(i)
         IN /\ x \in Seq(Nat)
            /\ i.kind = "target" => /\ Len(x) = 4 /\ x[1] = LineNum
                                    /\ Target(x[2], x[3], x[4]) = i.a /\ i.b = 0
            /\ i.kind # "target" /\ i.b # 0 => Len(x) = 2 /\ x[1] = i.a /\ x[2] = i.b
            /\ i.kind # "target" /\ i.b = 0 => Len(x) = 1 /\ x[1] = i.a
<1> DEFINE x == ItemBytes(i)
<1>1. CASE i.kind = "target"
  <2> DEFINE w == TargetBytes(i.a)
  <2>1. i.a \in Short /\ i.b = 0
    BY <1>1 DEF Keeps
  <2>2. w \in Seq(Byte) /\ Len(w) = 3 /\ Target(w[1], w[2], w[3]) = i.a
    BY <2>1, TargetDecoded DEF Decoded
  <2>3. x = <<LineNum>> \o w
    BY <1>1 DEF ItemBytes
  <2> HIDE DEF w, x
  <2>4. LineNum \in Nat /\ w \in Seq(Nat)
    <3>1. LineNum \in Nat
      BY DEF LineNum
    <3>2. Byte \subseteq Nat
      BY DEF Byte
    <3>3. w \in Seq(Nat)
      BY <2>2, <3>2, SeqWider
    <3> QED BY <3>1, <3>3
  <2>5. /\ x \in Seq(Nat) /\ Len(x) = 4 /\ x[1] = LineNum
        /\ x[2] = w[1] /\ x[3] = w[2] /\ x[4] = w[3]
    <3> DEFINE h == <<LineNum>>
    <3>0. h \in Seq(Nat)
      BY <2>4
    <3>1. Len(h) = 1 /\ h[1] = LineNum
      OBVIOUS
    <3> HIDE DEF h
    <3>2. x = h \o w
      BY <2>3 DEF h
    <3>3. /\ x \in Seq(Nat) /\ Len(x) = Len(h) + Len(w)
          /\ \A k \in 1..Len(h) : x[k] = h[k]
          /\ \A k \in 1..Len(w) : x[Len(h) + k] = w[k]
      BY <2>4, <3>0, <3>2, ConcatIs
    <3> QED BY <2>2, <3>1, <3>3, FourOf
  <2> QED BY <1>1, <2>1, <2>2, <2>5 DEF x
<1>2. CASE i.kind # "target"
  <2>1. x = IF i.b # 0 THEN <<i.a, i.b>> ELSE <<i.a>>
    BY <1>2 DEF ItemBytes
  <2>2. i.a \in Nat /\ i.b \in Nat
    BY DEF Item
  <2> HIDE DEF x
  <2> QED BY <1>2, <2>1, <2>2 DEF x
<1> QED BY <1>1, <1>2

\* The steps that decode an item, or find that they cannot.
Decoding ==
  RanOver \/ InString \/ Word \/ Invalid \/ FastVariable \/ LineNumber \/ ExtendedToken \/ PdpToken

\* An item is decoded as what was saved.
LEMMA ItemDecoded ==
  ASSUME dialect \in Dialect, in_string \in BOOLEAN, p \in Nat, len \in Nat,
         NEW i \in Item, Keeps(dialect, in_string, i), NEW x, x = ItemBytes(i),
         p + Len(x) <= len, \A k \in 1..Len(x) : At(buf, p + k) = x[k],
         i.kind = "word" /\ i.b = 0 /\ Base[dialect][i.a] = "pdp_c8"
           => p + 2 <= len /\ At(buf, p + 2) # 152,
         Decoding
  PROVE  Put(i, Len(x))
<1>1. /\ i = Out(i.kind, i.a, i.b) /\ i.a \in Nat /\ i.b \in Nat
      /\ i.kind \in {"word", "byte", "target"}
  BY DEF Item, Out
<1>2. /\ i.kind = "target" => /\ Len(x) = 4 /\ x[1] = LineNum
                              /\ Target(x[2], x[3], x[4]) = i.a /\ i.b = 0
      /\ i.kind # "target" /\ i.b # 0 => Len(x) = 2 /\ x[1] = i.a /\ x[2] = i.b
      /\ i.kind # "target" /\ i.b = 0 => Len(x) = 1 /\ x[1] = i.a
  BY ItemBytesAre
<1>3. /\ Uch = (IF i.kind = "target" THEN LineNum ELSE i.a)
      /\ Uch # 0
  BY <1>1, <1>2 DEF Uch, Keeps, LineNum
<1>4. CASE in_string
  <2>1. i.kind = "byte" /\ i.b = 0 /\ Len(x) = 1 /\ i.a = Uch
    BY <1>2, <1>3, <1>4 DEF Keeps
  <2>2. InString
    BY <1>3, <1>4 DEF Decoding, RanOver, Outside, Word, Invalid, FastVariable, LineNumber,
                      ExtendedToken, PdpToken
  <2> QED BY <1>1, <2>1, <2>2 DEF InString
<1>5. CASE ~in_string /\ i.kind = "target"
  <2>1. Class = "line_num" /\ Len(x) = 4
    BY <1>2, <1>3, <1>5, Classes DEF Class
  <2>2. LineNumber
    BY <1>3, <1>5, <2>1 DEF Decoding, RanOver, InString, Word, Invalid, FastVariable,
                            ExtendedToken, PdpToken
  <2>3. /\ ~(Rest < 3)
        /\ At(buf, p + 2) = x[2] /\ At(buf, p + 3) = x[3] /\ At(buf, p + 4) = x[4]
    BY <2>1 DEF Rest
  <2>4. Put(Out("target", Target(At(buf, p + 2), At(buf, p + 3), At(buf, p + 4)), 0), 4)
    BY <2>2, <2>3 DEF LineNumber
  <2> QED BY <1>1, <1>2, <1>5, <2>1, <2>3, <2>4
<1>6. CASE ~in_string /\ i.kind # "target"
  <2>1. i.kind = "word" /\ Keyword(dialect, i) /\ Uch = i.a
    BY <1>3, <1>6 DEF Keeps
  <2>2. CASE Class = "word" /\ i.b = 0
    <3>1. Word
      BY <1>3, <1>6, <2>2 DEF Decoding, RanOver, InString, LineNumber, Invalid, FastVariable,
                              ExtendedToken, PdpToken
    <3>2. Put(Out("word", Uch, 0), 1)
      BY <3>1 DEF Word
    <3>3. Len(x) = 1
      BY <1>2, <2>1, <2>2
    <3> QED BY <1>1, <2>1, <2>2, <3>2, <3>3
  <2>3. CASE Class = "extended" /\ i.b \in Second(dialect, i.a) /\ i.b # 0
    <3>1. ExtendedToken
      BY <1>3, <1>6, <2>3 DEF Decoding, RanOver, InString, LineNumber, Invalid, FastVariable,
                              Word, PdpToken
    <3>2. Len(x) = 2 /\ At(buf, p + 2) = i.b /\ Rest # 0
      BY <1>2, <2>1, <2>3 DEF Rest
    <3>3. Put(Out("word", Uch, i.b), 2)
      BY <2>1, <2>3, <3>1, <3>2 DEF ExtendedToken
    <3> QED BY <1>1, <2>1, <3>2, <3>3
  <2>4. CASE Class = "pdp_c8" /\ i.b \in {0, 152}
    <3>1. PdpToken
      BY <1>3, <1>6, <2>4 DEF Decoding, RanOver, InString, LineNumber, Invalid, FastVariable,
                              Word, ExtendedToken
    <3>2. CASE i.b = 0
      <4>1. Len(x) = 1 /\ Rest # 0 /\ At(buf, p + 2) # 152
        BY <1>2, <2>1, <2>4, <3>2 DEF Rest, Class
      <4>2. Put(Out("word", Uch, 0), 1)
        BY <3>1, <4>1 DEF PdpToken
      <4> QED BY <1>1, <2>1, <3>2, <4>1, <4>2
    <3>3. CASE i.b = 152
      <4>0. i.b # 0 /\ i.kind # "target"
        BY <2>1, <3>3
      <4>1. Len(x) = 2 /\ Rest # 0 /\ At(buf, p + 2) = 152
        BY <1>2, <3>3, <4>0 DEF Rest
      <4>2. Put(Out("word", Uch, 152), 2)
        BY <3>1, <4>1 DEF PdpToken
      <4> QED BY <1>1, <2>1, <3>3, <4>1, <4>2
    <3> QED BY <2>4, <3>2, <3>3
  <2> QED BY <2>1, <2>2, <2>3, <2>4, KeywordClasses DEF Class
<1> QED BY <1>4, <1>5, <1>6

\* The bytes of a line's items, one after the other.
ItemSeqs(l) == [n \in DOMAIN l.items |-> ItemBytes(l.items[n])]
Data(l) == Over(l.items, ItemBytes)

\* Each item of a line that BASIC saved can be decoded where it stands.
LEMMA KeptItems ==
  ASSUME NEW d \in Dialect, NEW l \in Line, Tokenised(d, l.items), NEW k \in 1..Len(l.items)
  PROVE  /\ l.items[k] \in Item /\ Keeps(d, Quotes(l.items, k - 1) % 2 = 1, l.items[k])
         /\ l.items[k].kind = "word" /\ l.items[k].b = 0 /\ Base[d][l.items[k].a] = "pdp_c8"
              => /\ k < Len(l.items)
                 /\ l.items[k + 1].kind = "target" \/ l.items[k + 1].a # 152
<1>1. l.items \in Seq(Item) /\ DOMAIN l.items = 1..Len(l.items)
  BY DEF Line
<1>2. k \in DOMAIN l.items
  BY <1>1
<1> QED BY <1>1, <1>2 DEF Tokenised, Keeps

\* A line's data is made of the bytes of its items, 251 at most.
LEMMA DataIs ==
  ASSUME NEW d \in Dialect, NEW l \in Line, Tokenised(d, l.items)
  PROVE  /\ ItemSeqs(l) \in Seq(Seq(Nat)) /\ Len(ItemSeqs(l)) = Len(l.items)
         /\ Data(l) = FlattenSeq(ItemSeqs(l)) /\ Data(l) \in Seq(Nat) /\ Len(Data(l)) <= 251
         /\ \A k \in 1..Len(l.items) : /\ ItemSeqs(l)[k] = ItemBytes(l.items[k])
                                       /\ Len(ItemBytes(l.items[k])) \in Nat \ {0}
<1>1. l.items \in Seq(Item) /\ DOMAIN l.items = 1..Len(l.items) /\ Len(l.items) \in Nat
  BY DEF Line
<1>2. ASSUME NEW k \in 1..Len(l.items)
      PROVE  ItemBytes(l.items[k]) \in Seq(Nat) /\ Len(ItemBytes(l.items[k])) \in Nat \ {0}
  <2>1. /\ l.items[k] \in Item /\ (Quotes(l.items, k - 1) % 2 = 1) \in BOOLEAN
        /\ Keeps(d, Quotes(l.items, k - 1) % 2 = 1, l.items[k])
    BY KeptItems
  <2> HIDE DEF Keeps
  <2>2. PICK q \in BOOLEAN : Keeps(d, q, l.items[k])
    BY <2>1
  <2> QED BY <2>1, <2>2, ItemBytesAre
<1>3. /\ ItemSeqs(l) \in Seq(Seq(Nat)) /\ Len(ItemSeqs(l)) = Len(l.items)
      /\ \A k \in 1..Len(l.items) : ItemSeqs(l)[k] = ItemBytes(l.items[k])
  BY <1>1, <1>2 DEF ItemSeqs
<1>4. Data(l) = FlattenSeq(ItemSeqs(l))
  BY DEF Data, Over, ItemSeqs
<1>5. Len(Data(l)) <= 251
  BY DEF Data, Tokenised
<1> QED BY <1>2, <1>3, <1>4, <1>5, FlattenTyped

\* Whether the next item is in a string is known from the quotes before it.
LEMMA QuotesStep ==
  ASSUME NEW s, NEW k \in Nat
  PROVE  /\ Quotes(s, 0) = 0 /\ Quotes(s, k) \in Nat
         /\ Quotes(s, k + 1)
              = Quotes(s, k) + (IF s[k + 1].kind # "target" /\ s[k + 1].a = Quote THEN 1 ELSE 0)
<1> DEFINE Q(n) == {j \in 1..n : s[j].kind # "target" /\ s[j].a = Quote}
<1>1. \A n \in Nat : IsFiniteSet(Q(n)) /\ Cardinality(Q(n)) \in Nat
  <2>1. ASSUME NEW n \in Nat PROVE IsFiniteSet(Q(n))
    <3>1. IsFiniteSet(1..n) /\ Q(n) \subseteq 1..n
      BY FS_Interval
    <3> QED BY <3>1, FS_Subset
  <2> QED BY <2>1, FS_CardinalityType
<1>2. Q(0) = {} /\ Cardinality({}) = 0
  BY FS_EmptySet
<1>3. CASE s[k + 1].kind # "target" /\ s[k + 1].a = Quote
  <2>1. Q(k + 1) = Q(k) \cup {k + 1} /\ k + 1 \notin Q(k)
    BY <1>3
  <2> HIDE DEF Q
  <2>2. Cardinality(Q(k + 1)) = Cardinality(Q(k)) + 1
    BY <1>1, <2>1, FS_AddElement
  <2> QED BY <1>1, <1>2, <1>3, <2>2 DEF Quotes, Q
<1>4. CASE ~(s[k + 1].kind # "target" /\ s[k + 1].a = Quote)
  <2>1. Q(k + 1) = Q(k)
    BY <1>4
  <2> HIDE DEF Q
  <2>2. Cardinality(Q(k + 1)) = Cardinality(Q(k)) + 0 /\ Cardinality(Q(k)) \in Nat
    BY <1>1, <2>1
  <2> QED BY <1>2, <1>4, <2>2 DEF Quotes, Q
<1> QED BY <1>3, <1>4
-----------------------------------------------------------------------------
(* A line in the buffer, and what decode_line makes of it.                 *)

\* The line is in the buffer, and its first k items are decoded.
LineIn(l) == len = Len(Data(l)) /\ \A n \in 1..len : At(buf, n) = Data(l)[n]
Through(l, k) ==
  /\ p = Len(Before(ItemSeqs(l), k)) /\ in_string = (Quotes(l.items, k) % 2 = 1)

\* The item behind the first k is in the buffer, where the first k end.
LEMMA ItemThere ==
  ASSUME NEW d \in Dialect, NEW l \in Line, Tokenised(d, l.items),
         LineIn(l), NEW k \in 0..Len(l.items) - 1
  PROVE  LET a == Len(Before(ItemSeqs(l), k))  x == ItemBytes(l.items[k + 1])
         IN /\ a \in Nat /\ Len(x) \in Nat \ {0} /\ a + Len(x) <= len /\ len \in Nat
            /\ Len(Before(ItemSeqs(l), k + 1)) = a + Len(x)
            /\ \A n \in 1..Len(x) : At(buf, a + n) = x[n]
<1> DEFINE a == Len(Before(ItemSeqs(l), k))  x == ItemBytes(l.items[k + 1])  s == ItemSeqs(l)
<1>0. Len(l.items) \in Nat /\ k + 1 \in 1..Len(l.items)
  BY DEF Line
<1>1. /\ s \in Seq(Seq(Nat)) /\ Len(s) = Len(l.items) /\ s[k + 1] = x /\ Len(x) \in Nat \ {0}
      /\ Data(l) = FlattenSeq(s) /\ Data(l) \in Seq(Nat)
  BY <1>0, DataIs
<1>2. /\ Before(s, k) \in Seq(Nat) /\ Holds(FlattenSeq(s), Len(Before(s, k)), s[k + 1])
      /\ Len(Before(s, k + 1)) = Len(Before(s, k)) + Len(s[k + 1])
  BY <1>1, FlattenHolds
<1>3. len = Len(Data(l)) /\ len \in Nat /\ a \in Nat
  BY <1>1, <1>2 DEF LineIn
<1>4. a + Len(x) <= len
  BY <1>1, <1>2, <1>3 DEF Holds
<1>5. ASSUME NEW n \in 1..Len(x) PROVE At(buf, a + n) = x[n]
  <2>0. Len(x) \in Nat
    BY <1>1
  <2>1. a + n \in 1..len
    BY <1>3, <1>4, <2>0
  <2>2. Data(l)[a + n] = x[n]
    BY <1>1, <1>2 DEF Holds
  <2> QED BY <2>1, <2>2 DEF LineIn
<1> QED BY <1>1, <1>2, <1>3, <1>4, <1>5

\* In a line that BASIC saved each step decodes one item, and it is the right one.
LEMMA LineDecoded ==
  ASSUME dialect \in Dialect, NEW l \in Line, Tokenised(dialect, l.items),
         LineIn(l), NEW k \in 0..Len(l.items), Through(l, k), p < len, Decoding
  PROVE  /\ k + 1 \in 0..Len(l.items) /\ Through(l, k + 1)'
         /\ out' = Append(out, l.items[k + 1])
         /\ UNCHANGED <<commandLine, verdicts, exitval, stage, pos, buf, indent, number, len, told>>
<1>1. /\ ItemSeqs(l) \in Seq(Seq(Nat)) /\ Len(ItemSeqs(l)) = Len(l.items)
      /\ Data(l) = FlattenSeq(ItemSeqs(l)) /\ Len(l.items) \in Nat
  BY DataIs DEF Line
<1>2. k # Len(l.items)
  <2>1. SUFFICES ASSUME k = Len(l.items) PROVE FALSE
    OBVIOUS
  <2>2. Before(ItemSeqs(l), k) = Data(l)
    BY <1>1, <2>1, BeforeSteps
  <2>3. p = len /\ len \in Nat
    BY <2>2, DataIs DEF Through, LineIn
  <2> QED BY <2>3
<1>3. k \in 0..Len(l.items) - 1 /\ k + 1 \in 1..Len(l.items)
  BY <1>1, <1>2
<1>0. k \in Nat
  BY <1>1
<1> DEFINE i == l.items[k + 1]  x == ItemBytes(i)
<1>4. /\ p \in Nat /\ Len(x) \in Nat \ {0} /\ p + Len(x) <= len /\ len \in Nat
      /\ Len(Before(ItemSeqs(l), k + 1)) = p + Len(x)
      /\ \A n \in 1..Len(x) : At(buf, p + n) = x[n]
  BY <1>3, ItemThere DEF Through
<1>5. i \in Item /\ Keeps(dialect, in_string, i) /\ in_string \in BOOLEAN
  BY <1>3, KeptItems DEF Through
<1>6. i.kind = "word" /\ i.b = 0 /\ Base[dialect][i.a] = "pdp_c8"
        => p + 2 <= len /\ At(buf, p + 2) # 152
  <2>1. SUFFICES ASSUME i.kind = "word" /\ i.b = 0 /\ Base[dialect][i.a] = "pdp_c8"
                 PROVE  p + 2 <= len /\ At(buf, p + 2) # 152
    OBVIOUS
  <2> DEFINE m == k + 1  j == l.items[m + 1]  y == ItemBytes(j)
  <2>2. k + 1 < Len(l.items) /\ (j.kind = "target" \/ j.a # 152)
    <3>1. k + 1 < Len(l.items) /\ (l.items[(k + 1) + 1].kind = "target" \/ l.items[(k + 1) + 1].a # 152)
      BY <1>3, <2>1, KeptItems
    <3> QED BY <3>1
  <2>3. m \in 0..Len(l.items) - 1 /\ m + 1 \in 1..Len(l.items)
    BY <1>1, <1>3, <2>2
  <2>4. Len(x) = 1
    BY <1>5, <2>1, ItemBytesAre
  <2> DEFINE q1 == p + 1
  <2>9. q1 = Len(Before(ItemSeqs(l), m))
    BY <1>4, <2>4
  <2> HIDE DEF m, q1
  <2>5. /\ Len(y) \in Nat \ {0} /\ q1 + Len(y) <= len
        /\ \A n \in 1..Len(y) : At(buf, q1 + n) = y[n]
    BY <2>3, <2>9, ItemThere
  <2>6. y[1] # 152
    <3>1. PICK q \in BOOLEAN : j \in Item /\ Keeps(dialect, q, j)
      BY <2>3, KeptItems
    <3>2. y[1] = IF j.kind = "target" THEN LineNum ELSE j.a
      BY <3>1, ItemBytesAre
    <3> QED BY <2>2, <3>2 DEF LineNum
  <2>7. 1 \in 1..Len(y) /\ q1 + 1 = p + 2 /\ q1 \in Nat
    BY <1>4, <2>5 DEF q1
  <2>8. At(buf, p + 2) = y[1]
    BY <2>5, <2>7
  <2>10. p + 2 <= len
    <3>1. q1 + Len(y) <= len /\ Len(y) \in Nat \ {0} /\ len \in Nat
      BY <1>4, <2>5
    <3> QED BY <2>7, <3>1
  <2> QED BY <2>6, <2>8, <2>10
<1>7. Put(i, Len(x))
  BY <1>4, <1>5, <1>6, ItemDecoded
<1>8. /\ Uch = IF i.kind = "target" THEN LineNum ELSE i.a
  <2>1. x[1] = IF i.kind = "target" THEN LineNum ELSE i.a
    BY <1>5, ItemBytesAre
  <2> QED BY <1>4, <2>1 DEF Uch
<1>9. Quotes(l.items, k + 1) % 2 = 1 <=> (IF Uch = Quote THEN ~in_string ELSE in_string)
  <2>1. /\ Quotes(l.items, k) \in Nat
        /\ Quotes(l.items, k + 1)
             = Quotes(l.items, k) + (IF i.kind # "target" /\ i.a = Quote THEN 1 ELSE 0)
    BY <1>0, QuotesStep
  <2>2. (i.kind # "target" /\ i.a = Quote) <=> Uch = Quote
    BY <1>8 DEF LineNum, Quote
  <2>3. in_string <=> Quotes(l.items, k) % 2 = 1
    BY DEF Through
  <2> QED BY <2>1, <2>2, <2>3
<1>10. p' = p + Len(x) /\ in_string' = (Quotes(l.items, k + 1) % 2 = 1)
  BY <1>5, <1>7, <1>9 DEF Put
<1>11. Through(l, k + 1)'
  BY <1>4, <1>10 DEF Through
<1> QED BY <1>3, <1>7, <1>11 DEF Put

\* The data ends where the items do.
LEMMA LineEnds ==
  ASSUME NEW d \in Dialect, NEW l \in Line, Tokenised(d, l.items),
         LineIn(l), NEW k \in 0..Len(l.items), Through(l, k), p = len
  PROVE  k = Len(l.items)
<1>1. SUFFICES ASSUME k # Len(l.items) PROVE FALSE
  OBVIOUS
<1>2. k \in 0..Len(l.items) - 1
  BY <1>1 DEF Line
<1>3. Len(Before(ItemSeqs(l), k)) + Len(ItemBytes(l.items[k + 1])) <= len
      /\ Len(ItemBytes(l.items[k + 1])) \in Nat \ {0} /\ len \in Nat
      /\ Len(Before(ItemSeqs(l), k)) \in Nat
  BY <1>2, ItemThere
<1> QED BY <1>3 DEF Through
-----------------------------------------------------------------------------
(* A saved line and a saved program in the bytes of a file.                *)

\* The bytes in front of a line's data, in either order.
LEMMA FourBytes ==
  ASSUME NEW a \in Nat, NEW b \in Nat, NEW c \in Nat, NEW e \in Nat, NEW h, h = <<a, b, c, e>>
  PROVE  h \in Seq(Nat) /\ Len(h) = 4 /\ h[1] = a /\ h[2] = b /\ h[3] = c /\ h[4] = e
  OBVIOUS

\* Three of them,
LEMMA ThreeBytes ==
  ASSUME NEW a \in Nat, NEW b \in Nat, NEW c \in Nat, NEW h, h = <<a, b, c>>
  PROVE  h \in Seq(Nat) /\ Len(h) = 3 /\ h[1] = a /\ h[2] = b /\ h[3] = c
  OBVIOUS

\* The parts of a sequence that was put together of two.
Glued(x, h, w) ==
  /\ x \in Seq(Nat) /\ Len(x) = Len(h) + Len(w)
  /\ \A k \in 1..Len(h) : x[k] = h[k]
  /\ \A k \in 1..Len(w) : x[Len(h) + k] = w[k]

\* Two sequences one after the other are such a sequence.
LEMMA Parts ==
  ASSUME NEW h \in Seq(Nat), NEW w \in Seq(Nat) PROVE Glued(h \o w, h, w)
  BY ConcatIs DEF Glued

\* Numbers of lines are numbers.
LEMMA ShortNat == Short \subseteq Nat
  BY DEF Short, LastShort

\* The data of a line is in s, behind the first h bytes.
DataAt(s, h, l) == \A n \in 1..Len(Data(l)) : s[h + n] = Data(l)[n]

\* The bytes of a saved line that begins with a carriage return,
LEMMA BigLineIs ==
  ASSUME NEW d \in Dialect, NEW l \in Line, Tokenised(d, l.items), LeadingCR(d),
         NEW s, s = SavedLine(d, l)
  PROVE  /\ s \in Seq(Nat) /\ Len(s) = 4 + Len(Data(l))
         /\ s[1] = CR /\ s[2] = l.number \div 256 /\ s[3] = l.number % 256
         /\ s[4] = Len(Data(l)) + 4
         /\ DataAt(s, 4, l)
<1>1. Data(l) \in Seq(Nat) /\ Len(Data(l)) \in Nat
  BY DataIs
<1>2. CR \in Nat /\ l.number \div 256 \in Nat /\ l.number % 256 \in Nat
  <2>1. l.number \in Nat
    BY NumbersAssumption, ShortNat DEF Line
  <2> QED BY <2>1 DEF CR
<1> DEFINE h == <<CR, l.number \div 256, l.number % 256, Len(Data(l)) + 4>>
<1>3. /\ h \in Seq(Nat) /\ Len(h) = 4 /\ h[1] = CR /\ h[2] = l.number \div 256
      /\ h[3] = l.number % 256 /\ h[4] = Len(Data(l)) + 4
  BY <1>1, <1>2, FourBytes
<1>4. s = h \o Data(l)
  BY DEF SavedLine, Data
<1> HIDE DEF h
<1>5. h \in Seq(Nat)
  BY <1>3
<1>7. Glued(s, h, Data(l))
  BY <1>1, <1>4, <1>5, Parts
<1>6. /\ s \in Seq(Nat) /\ Len(s) = 4 + Len(Data(l)) /\ \A k \in 1..4 : s[k] = h[k]
      /\ \A k \in 1..Len(Data(l)) : s[4 + k] = Data(l)[k]
  BY <1>1, <1>3, <1>7 DEF Glued
<1>8. DataAt(s, 4, l)
  BY <1>6 DEF DataAt
<1> QED BY <1>3, <1>6, <1>8

\* and of one that begins with its length and ends with a carriage return.
LEMMA LittleLineIs ==
  ASSUME NEW d \in Dialect, NEW l \in Line, Tokenised(d, l.items), ~LeadingCR(d),
         NEW s, s = SavedLine(d, l)
  PROVE  /\ s \in Seq(Nat) /\ Len(s) = 4 + Len(Data(l))
         /\ s[1] = Len(Data(l)) + 4 /\ s[2] = l.number % 256 /\ s[3] = l.number \div 256
         /\ s[4 + Len(Data(l))] = CR
         /\ DataAt(s, 3, l)
<1>1. Data(l) \in Seq(Nat) /\ Len(Data(l)) \in Nat
  BY DataIs
<1>2. CR \in Nat /\ l.number \div 256 \in Nat /\ l.number % 256 \in Nat
  <2>1. l.number \in Nat
    BY NumbersAssumption, ShortNat DEF Line
  <2> QED BY <2>1 DEF CR
<1> DEFINE h == <<Len(Data(l)) + 4, l.number % 256, l.number \div 256>>
           e == <<CR>>
<1>3. /\ h \in Seq(Nat) /\ Len(h) = 3 /\ h[1] = Len(Data(l)) + 4 /\ h[2] = l.number % 256
      /\ h[3] = l.number \div 256
  BY <1>1, <1>2, ThreeBytes
<1>4. e \in Seq(Nat) /\ Len(e) = 1 /\ e[1] = CR
  BY <1>2
<1>5. s = (h \o Data(l)) \o e
  BY DEF SavedLine, Data
<1> HIDE DEF h, e
<1>6. h \in Seq(Nat)
  BY <1>3
<1>7. PICK x : x = h \o Data(l)
  OBVIOUS
<1>0. Glued(x, h, Data(l))
  BY <1>1, <1>6, <1>7, Parts
<1>8. /\ x \in Seq(Nat) /\ Len(x) = 3 + Len(Data(l)) /\ \A k \in 1..3 : x[k] = h[k]
      /\ \A k \in 1..Len(Data(l)) : x[3 + k] = Data(l)[k]
  BY <1>1, <1>3, <1>0 DEF Glued
<1>9. PICK m \in Nat : m = 3 + Len(Data(l)) /\ m = Len(x)
  BY <1>1, <1>8
<1>10. e \in Seq(Nat) /\ x \in Seq(Nat) /\ s = x \o e
  BY <1>4, <1>5, <1>7, <1>8
<1>15. Glued(s, x, e)
  BY <1>10, Parts
<1>11. /\ s \in Seq(Nat) /\ Len(s) = m + Len(e) /\ \A k \in 1..m : s[k] = x[k]
       /\ \A k \in 1..Len(e) : s[m + k] = e[k]
  BY <1>9, <1>15 DEF Glued
<1>12. Len(s) = 4 + Len(Data(l)) /\ s[4 + Len(Data(l))] = CR
  <2>1. 1 \in 1..Len(e) /\ m + 1 = 4 + Len(Data(l))
    BY <1>1, <1>4, <1>9
  <2> QED BY <1>4, <1>9, <1>11, <2>1
<1>13. s[1] = h[1] /\ s[2] = h[2] /\ s[3] = h[3]
  BY <1>1, <1>8, <1>9, <1>11
<1>14. ASSUME NEW n \in 1..Len(Data(l)) PROVE s[3 + n] = Data(l)[n]
  <2>1. 3 + n \in 1..m
    BY <1>1, <1>9
  <2> QED BY <1>8, <1>11, <2>1
<1>16. DataAt(s, 3, l)
  BY <1>14 DEF DataAt
<1> QED BY <1>3, <1>11, <1>12, <1>13, <1>16

\* The lines of a saved program, and where in the file each of them begins.
LineSeqs(d, program) == [n \in DOMAIN program |-> SavedLine(d, program[n])]
Place(d, program, j) == Len(Before(LineSeqs(d, program), j))
\* The mark of the end, and what can be saved.
EndOf(d) == IF LeadingCR(d) THEN <<CR, 255>> ELSE <<0, 255, 255>>
Savable(d, program) ==
  program \in Seq(Line) /\ \A j \in 1..Len(program) : Tokenised(d, program[j].items)

\* A saved program is its lines and the mark of the end.
LEMMA SavedParts ==
  ASSUME NEW d \in Dialect, NEW program, Savable(d, program)
  PROVE  /\ LineSeqs(d, program) \in Seq(Seq(Nat)) /\ Len(LineSeqs(d, program)) = Len(program)
         /\ \A j \in 1..Len(program) : LineSeqs(d, program)[j] = SavedLine(d, program[j])
         /\ Saved(d, program) = FlattenSeq(LineSeqs(d, program)) \o EndOf(d)
         /\ EndOf(d) \in Seq(Nat) /\ Len(program) \in Nat
         /\ Len(EndOf(d)) = (IF LeadingCR(d) THEN 2 ELSE 3)
<1>1. /\ program \in Seq(Line) /\ DOMAIN program = 1..Len(program) /\ Len(program) \in Nat
      /\ \A j \in 1..Len(program) : program[j] \in Line /\ Tokenised(d, program[j].items)
  BY DEF Savable
<1>2. \A j \in 1..Len(program) : SavedLine(d, program[j]) \in Seq(Nat)
  <2>1. ASSUME NEW j \in 1..Len(program) PROVE SavedLine(d, program[j]) \in Seq(Nat)
    <3>1. program[j] \in Line /\ Tokenised(d, program[j].items)
      BY <1>1
    <3>2. CASE LeadingCR(d)
      BY <3>1, <3>2, BigLineIs
    <3>3. CASE ~LeadingCR(d)
      BY <3>1, <3>3, LittleLineIs
    <3> QED BY <3>2, <3>3
  <2> QED BY <2>1
<1>3. /\ LineSeqs(d, program) \in Seq(Seq(Nat)) /\ Len(LineSeqs(d, program)) = Len(program)
      /\ \A j \in 1..Len(program) : LineSeqs(d, program)[j] = SavedLine(d, program[j])
  BY <1>1, <1>2 DEF LineSeqs
<1>4. Saved(d, program) = FlattenSeq(LineSeqs(d, program)) \o EndOf(d)
  BY DEF Saved, SavedLines, Over, LineSeqs, EndOf
<1>5. EndOf(d) \in Seq(Nat) /\ Len(EndOf(d)) = (IF LeadingCR(d) THEN 2 ELSE 3)
  BY DEF EndOf, CR
<1> QED BY <1>1, <1>3, <1>4, <1>5

\* Where each line and the mark of the end are in the file.
LEMMA SavedIs ==
  ASSUME NEW d \in Dialect, NEW program, Savable(d, program)
  PROVE  /\ Saved(d, program) \in Seq(Nat) /\ Len(Saved(d, program)) \in Nat
         /\ Place(d, program, 0) = 0 /\ Len(program) \in Nat
         /\ \A j \in 0..Len(program) : /\ Place(d, program, j) \in Nat
                                       /\ Place(d, program, j) + Len(EndOf(d)) <= Len(Saved(d, program))
         /\ \A j \in 0..Len(program) - 1 :
              /\ Place(d, program, j + 1) = Place(d, program, j) + Len(SavedLine(d, program[j + 1]))
              /\ \A n \in 1..Len(SavedLine(d, program[j + 1])) :
                   Saved(d, program)[Place(d, program, j) + n] = SavedLine(d, program[j + 1])[n]
         /\ Place(d, program, Len(program)) + Len(EndOf(d)) = Len(Saved(d, program))
         /\ \A n \in 1..Len(EndOf(d)) :
              Saved(d, program)[Place(d, program, Len(program)) + n] = EndOf(d)[n]
<1> DEFINE s == LineSeqs(d, program)  t == FlattenSeq(s)  e == EndOf(d)
<1>1. /\ s \in Seq(Seq(Nat)) /\ Len(s) = Len(program) /\ Len(program) \in Nat /\ e \in Seq(Nat)
      /\ \A j \in 1..Len(program) : s[j] = SavedLine(d, program[j])
      /\ Saved(d, program) = t \o e
  BY SavedParts
<1> HIDE DEF s, e
<1>2. t \in Seq(Nat) /\ Before(s, 0) = <<>> /\ Before(s, Len(s)) = t
      /\ \A j \in 0..Len(s) : Before(s, j) \in Seq(Nat)
  BY <1>1, BeforeSteps, FlattenTyped
<1>3. \A j \in 0..Len(s) : Len(Before(s, j)) \in Nat /\ Len(Before(s, j)) <= Len(t)
  <2>1. ASSUME NEW j \in 0..Len(s) PROVE Len(Before(s, j)) <= Len(t)
    <3>1. Len(s) \in 0..Len(s) /\ j <= Len(s)
      BY <1>1
    <3>2. Holds(Before(s, Len(s)), 0, Before(s, j))
      BY <1>1, <3>1, BeforeStays
    <3>3. Len(Before(s, j)) \in Nat
      BY <1>2
    <3> QED BY <1>2, <3>2, <3>3 DEF Holds
  <2> QED BY <1>2, <2>1
<1> HIDE DEF t
<1>4. PICK n \in Nat : n = Len(t)
  BY <1>2
<1>5. PICK x : x = Saved(d, program)
  OBVIOUS
<1>14. Glued(x, t, e)
  BY <1>1, <1>2, <1>5, Parts
<1>6. /\ x \in Seq(Nat) /\ Len(x) = n + Len(e) /\ \A k \in 1..n : x[k] = t[k]
      /\ \A k \in 1..Len(e) : x[n + k] = e[k]
  BY <1>4, <1>14 DEF Glued
<1>7. ASSUME NEW j \in 0..Len(program) - 1
      PROVE  /\ Len(Before(s, j + 1)) = Len(Before(s, j)) + Len(s[j + 1])
             /\ \A k \in 1..Len(s[j + 1]) : x[Len(Before(s, j)) + k] = s[j + 1][k]
  <2>1. /\ s[j + 1] \in Seq(Nat) /\ Holds(t, Len(Before(s, j)), s[j + 1])
        /\ Len(Before(s, j + 1)) = Len(Before(s, j)) + Len(s[j + 1])
    BY <1>1, FlattenHolds DEF t
  <2>2. Len(Before(s, j)) \in Nat /\ Len(s[j + 1]) \in Nat
    BY <1>1, <1>3, <2>1
  <2>3. Len(Before(s, j)) + Len(s[j + 1]) <= n
    BY <1>4, <2>1 DEF Holds
  <2>4. ASSUME NEW k \in 1..Len(s[j + 1]) PROVE x[Len(Before(s, j)) + k] = s[j + 1][k]
    <3>1. Len(Before(s, j)) + k \in 1..n
      BY <1>4, <2>2, <2>3
    <3>2. t[Len(Before(s, j)) + k] = s[j + 1][k]
      BY <2>1 DEF Holds
    <3> QED BY <1>6, <3>1, <3>2
  <2> QED BY <2>1, <2>4
<1>8. Len(Before(s, 0)) = 0 /\ Len(Before(s, Len(program))) = n
  BY <1>1, <1>2, <1>4
<1>9. Len(e) \in Nat
  BY <1>1
<1>10. \A j \in 0..Len(program) : Place(d, program, j) = Len(Before(s, j))
  BY DEF Place, s
<1>11. Len(x) \in Nat /\ \A j \in 0..Len(program) : Len(Before(s, j)) \in Nat /\ Len(Before(s, j)) + Len(e) <= Len(x)
  BY <1>1, <1>3, <1>4, <1>6, <1>9
<1>12. \A j \in 0..Len(program) - 1 :
         s[j + 1] = SavedLine(d, program[j + 1]) /\ j \in 0..Len(program) /\ j + 1 \in 0..Len(program)
  BY <1>1
<1>13. 0 \in 0..Len(program) /\ Len(program) \in 0..Len(program)
  BY <1>1
<1>15. /\ Saved(d, program) \in Seq(Nat) /\ Len(Saved(d, program)) \in Nat
       /\ Place(d, program, 0) = 0 /\ Len(program) \in Nat
  BY <1>1, <1>5, <1>6, <1>8, <1>10, <1>11, <1>13
<1>16. \A j \in 0..Len(program) : /\ Place(d, program, j) \in Nat
                                  /\ Place(d, program, j) + Len(EndOf(d)) <= Len(Saved(d, program))
  BY <1>5, <1>10, <1>11 DEF e
<1>17. ASSUME NEW j \in 0..Len(program) - 1
       PROVE  /\ Place(d, program, j + 1) = Place(d, program, j) + Len(SavedLine(d, program[j + 1]))
              /\ \A k \in 1..Len(SavedLine(d, program[j + 1])) :
                   Saved(d, program)[Place(d, program, j) + k] = SavedLine(d, program[j + 1])[k]
  BY <1>5, <1>7, <1>10, <1>12
<1>18. /\ Place(d, program, Len(program)) + Len(EndOf(d)) = Len(Saved(d, program))
       /\ \A k \in 1..Len(EndOf(d)) :
            Saved(d, program)[Place(d, program, Len(program)) + k] = EndOf(d)[k]
  BY <1>5, <1>6, <1>8, <1>10, <1>13 DEF e
<1> QED BY <1>15, <1>16, <1>17, <1>18

\* The next line's bytes, at its place.
LEMMA SavedStep ==
  ASSUME NEW d \in Dialect, NEW program, Savable(d, program), NEW j \in 0..Len(program) - 1
  PROVE  /\ Place(d, program, j + 1) = Place(d, program, j) + Len(SavedLine(d, program[j + 1]))
         /\ \A n \in 1..Len(SavedLine(d, program[j + 1])) :
              Saved(d, program)[Place(d, program, j) + n] = SavedLine(d, program[j + 1])[n]
  BY SavedIs
-----------------------------------------------------------------------------
(* The files of the command line.                                          *)

\* What the command line is, from the first state on.
CommandLine ==
  /\ dialect \in Dialect /\ listo \in 0..7
  /\ files \in Seq(Input) /\ Len(files) > 0
  /\ programs \in Seq(Seq(Line)) /\ Len(programs) = Len(files)
  /\ BasicTokenised

\* The file that is read, what it was saved from, and the files of which something is claimed.
Current == Len(verdicts) + 1
Program == programs[Current]
Good(i) == Intact(i) \/ CutOff(i)

\* Each program can be saved, and each file has bytes.
LEMMA ProgramSavable ==
  ASSUME CommandLine, NEW i \in 1..Len(files)
  PROVE  Savable(dialect, programs[i]) /\ files[i].bytes \in Seq(Byte)
<1>1. /\ programs[i] \in Seq(Line) /\ i \in DOMAIN programs /\ files[i] \in Input
  BY DEF CommandLine
<1>2. \A j \in 1..Len(programs[i]) : programs[i][j] \in ToSet(programs[i])
  BY <1>1 DEF ToSet
<1>3. \A l \in ToSet(programs[i]) : Tokenised(dialect, l.items)
  BY <1>1 DEF CommandLine, BasicTokenised
<1>4. files[i].bytes \in Seq(Byte)
  BY <1>1 DEF Input
<1> QED BY <1>1, <1>2, <1>3, <1>4 DEF Savable

\* A good file begins as what was saved.
LEMMA GoodFile ==
  ASSUME CommandLine, NEW i \in 1..Len(files), Good(i),
         NEW b, b = files[i].bytes, NEW s, s = Saved(dialect, programs[i])
  PROVE  /\ Len(b) \in Nat /\ Len(s) \in Nat /\ Len(b) <= Len(s) /\ \A n \in 1..Len(b) : b[n] = s[n]
         /\ Intact(i) => Len(b) = Len(s)
         /\ CutOff(i) => /\ Len(b) < Len(s) /\ Len(b) > 0 /\ ~Intact(i)
                         /\ \A j \in 1..Len(programs[i]) : programs[i][j].number \div 256 # 255
<1>1. b \in Seq(Byte) /\ s \in Seq(Nat) /\ Len(b) \in Nat /\ Len(s) \in Nat
  BY ProgramSavable, SavedIs DEF CommandLine
<1>2. CASE Intact(i)
  <2>1. b = s
    BY <1>2 DEF Intact
  <2>2. ~CutOff(i)
    BY <2>1 DEF CutOff, IsStrictPrefix
  <2> QED BY <1>1, <1>2, <2>1, <2>2
<1>3. CASE CutOff(i)
  <2>1. /\ b # <<>> /\ b # s /\ Len(b) <= Len(s) /\ SubSeq(b, 1, Len(b)) = SubSeq(s, 1, Len(b))
    BY <1>3 DEF CutOff, IsStrictPrefix, IsPrefix
  <2>2. \A n \in 1..Len(b) : b[n] = s[n]
    <3>1. ASSUME NEW n \in 1..Len(b) PROVE b[n] = s[n]
      <4>1. SubSeq(b, 1, Len(b))[n] = b[n] /\ SubSeq(s, 1, Len(b))[n] = s[n]
        BY <1>1, <2>1
      <4> QED BY <2>1, <4>1
    <3> QED BY <3>1
  <2>3. Len(b) # Len(s)
    <3>1. SUFFICES ASSUME Len(b) = Len(s) PROVE b = s
      BY <2>1
    <3> QED BY <1>1, <2>2, <3>1
  <2>4. Len(b) > 0
    BY <1>1, <2>1
  <2>5. \A j \in 1..Len(programs[i]) : programs[i][j].number \div 256 # 255
    <3>1. programs[i] \in Seq(Line)
      BY DEF CommandLine
    <3>2. \A j \in 1..Len(programs[i]) : programs[i][j] \in ToSet(programs[i])
      BY <3>1 DEF ToSet
    <3> QED BY <1>3, <3>2 DEF CutOff
  <2>6. ~Intact(i)
    BY <2>1 DEF Intact
  <2> QED BY <1>1, <2>1, <2>2, <2>3, <2>4, <2>5, <2>6
<1> QED BY <1>2, <1>3 DEF Good

\* The line that is read next, of a good file.
LEMMA ReadsLine ==
  ASSUME CommandLine, Current \in 1..Len(files), Good(Current), pos \in 0..Len(Bytes),
         NEW j \in 0..Len(Program) - 1, pos = Place(dialect, Program, j)
  PROVE  LET s == SavedLine(dialect, Program[j + 1])
         IN /\ Program[j + 1] \in Line /\ Tokenised(dialect, Program[j + 1].items)
            /\ Left \in Nat /\ Len(s) \in Nat /\ \A k \in 1..Len(s) : k <= Left => Ahead(k) = s[k]
            /\ Place(dialect, Program, j + 1) = pos + Len(s) /\ j + 1 \in 1..Len(Program)
            /\ Intact(Current) => Left >= Len(s) + 2
<1> DEFINE s == SavedLine(dialect, Program[j + 1])  a == Saved(dialect, Program)
           e == EndOf(dialect)
<1>1. Savable(dialect, Program) /\ dialect \in Dialect
  BY ProgramSavable DEF Program, CommandLine
<1>2. /\ Len(Program) \in Nat /\ Program[j + 1] \in Line
      /\ Tokenised(dialect, Program[j + 1].items) /\ j + 1 \in 1..Len(Program)
  BY <1>1 DEF Savable
<1>3. /\ Place(dialect, Program, j + 1) = pos + Len(s)
      /\ \A n \in 1..Len(s) : a[pos + n] = s[n]
      /\ Place(dialect, Program, j + 1) + Len(e) <= Len(a)
  <2>1. j + 1 \in 0..Len(Program)
    BY <1>2
  <2>2. \A i \in 0..Len(Program) : Place(dialect, Program, i) + Len(e) <= Len(a)
    BY <1>1, SavedIs
  <2>3. /\ Place(dialect, Program, j + 1) = Place(dialect, Program, j) + Len(s)
        /\ \A n \in 1..Len(s) : a[Place(dialect, Program, j) + n] = s[n]
    <3>1. PICK q : q = Program
      OBVIOUS
    <3>2. Savable(dialect, q) /\ dialect \in Dialect /\ j \in 0..Len(q) - 1
      BY <1>1, <3>1
    <3>3. /\ Place(dialect, q, j + 1) = Place(dialect, q, j) + Len(SavedLine(dialect, q[j + 1]))
          /\ \A n \in 1..Len(SavedLine(dialect, q[j + 1])) :
               Saved(dialect, q)[Place(dialect, q, j) + n] = SavedLine(dialect, q[j + 1])[n]
      BY <3>2, SavedStep
    <3> QED BY <3>1, <3>3, Zenon
  <2> HIDE DEF s, a, e
  <2> QED BY <2>1, <2>2, <2>3
<1>4. Len(e) = 2 \/ Len(e) = 3
  BY <1>1, SavedParts
<1>5. Len(s) \in Nat
  <2>1. CASE LeadingCR(dialect)
    BY <1>1, <1>2, <2>1, BigLineIs
  <2>2. CASE ~LeadingCR(dialect)
    BY <1>1, <1>2, <2>2, LittleLineIs
  <2> QED BY <2>1, <2>2
<1>6. /\ Len(Bytes) \in Nat /\ Len(a) \in Nat /\ \A n \in 1..Len(Bytes) : Bytes[n] = a[n]
      /\ Intact(Current) => Len(Bytes) = Len(a)
  BY GoodFile DEF Bytes, Current, Program
<1> HIDE DEF s, a, e
<1>7. pos \in Nat /\ Left \in Nat /\ Len(Bytes) = pos + Left
  BY <1>6 DEF Left
<1>8. ASSUME NEW k \in 1..Len(s), k <= Left PROVE Ahead(k) = s[k]
  <2>1. pos + k \in 1..Len(Bytes)
    BY <1>5, <1>7, <1>8
  <2> QED BY <1>3, <1>6, <2>1 DEF Ahead
<1>9. Intact(Current) => Left >= Len(s) + 2
  <2>1. SUFFICES ASSUME Intact(Current) PROVE Left >= Len(s) + 2
    OBVIOUS
  <2>2. Len(Bytes) = Len(a) /\ Len(Bytes) = pos + Left /\ (pos + Len(s)) + Len(e) <= Len(a)
    BY <1>3, <1>6, <1>7, <2>1
  <2>3. Len(e) >= 2 /\ Len(e) \in Nat
    <3>1. CASE Len(e) = 2
      BY <3>1
    <3>2. CASE Len(e) = 3
      BY <3>2
    <3> QED BY <1>4, <3>1, <3>2
  <2> HIDE DEF Left
  <2> QED BY <1>5, <1>7, <2>2, <2>3
<1> QED BY <1>2, <1>3, <1>5, <1>7, <1>8, <1>9 DEF s

\* Behind the last line is the end.
LEMMA ReadsEnd ==
  ASSUME CommandLine, Current \in 1..Len(files), Good(Current), pos \in 0..Len(Bytes),
         pos = Place(dialect, Program, Len(Program)), NEW e, e = EndOf(dialect)
  PROVE  /\ Left \in Nat /\ Left <= Len(e) /\ \A k \in 1..Left : Ahead(k) = e[k]
         /\ Intact(Current) => Left = Len(e)
         /\ CutOff(Current) => Left < Len(e)
<1> DEFINE a == Saved(dialect, Program)
<1>1. Savable(dialect, Program) /\ dialect \in Dialect
  BY ProgramSavable DEF Program, CommandLine
<1>2. pos + Len(e) = Len(a) /\ \A n \in 1..Len(e) : a[pos + n] = e[n]
  BY <1>1, SavedIs
<1>3. Len(e) \in Nat
  BY <1>1, SavedParts
<1>4. /\ Len(Bytes) \in Nat /\ Len(a) \in Nat /\ \A n \in 1..Len(Bytes) : Bytes[n] = a[n]
      /\ Len(Bytes) <= Len(a)
      /\ Intact(Current) => Len(Bytes) = Len(a)
      /\ CutOff(Current) => Len(Bytes) < Len(a)
  BY GoodFile DEF Bytes, Current, Program
<1> HIDE DEF a
<1>5. pos \in Nat /\ Left \in Nat /\ Len(Bytes) = pos + Left
  BY <1>4 DEF Left
<1>6. ASSUME NEW k \in 1..Left PROVE Ahead(k) = e[k]
  <2>1. pos + k \in 1..Len(Bytes) /\ k \in 1..Len(e)
    BY <1>2, <1>3, <1>4, <1>5
  <2> QED BY <1>2, <1>4, <2>1 DEF Ahead
<1> QED BY <1>2, <1>3, <1>4, <1>5, <1>6
-----------------------------------------------------------------------------
(* What is listed.                                                         *)

\* An item of what is printed, without the indentation.
Plain(x) == IF x.kind = "number" THEN [x EXCEPT !.b = 0] ELSE x

\* An item without its indentation is an item.
LEMMA PlainTyped ==
  ASSUME NEW x \in Output PROVE Plain(x) \in Output
  BY DEF Plain, Output

\* Leaving out the indentation goes item by item.
LEMMA BareAppend ==
  ASSUME NEW o \in Seq(Output), NEW x \in Output
  PROVE  /\ Bare(o) \in Seq(Output) /\ Append(o, x) \in Seq(Output) /\ Plain(x) \in Output
         /\ Bare(Append(o, x)) = Append(Bare(o), Plain(x))
<1>1. \A q \in Seq(Output) : /\ DOMAIN q = 1..Len(q) /\ Len(q) \in Nat
                             /\ Bare(q) \in Seq(Output) /\ Len(Bare(q)) = Len(q)
                             /\ \A k \in 1..Len(q) : Bare(q)[k] = Plain(q[k])
  <2>1. ASSUME NEW q \in Seq(Output)
        PROVE  /\ DOMAIN q = 1..Len(q) /\ Len(q) \in Nat
               /\ Bare(q) \in Seq(Output) /\ Len(Bare(q)) = Len(q)
               /\ \A k \in 1..Len(q) : Bare(q)[k] = Plain(q[k])
    <3>1. DOMAIN q = 1..Len(q) /\ Len(q) \in Nat /\ \A k \in 1..Len(q) : q[k] \in Output
      OBVIOUS
    <3>2. Bare(q) = [k \in 1..Len(q) |-> Plain(q[k])]
      BY <3>1 DEF Bare, Plain
    <3>3. \A k \in 1..Len(q) : Plain(q[k]) \in Output
      BY <3>1, PlainTyped
    <3> QED BY <3>1, <3>2, <3>3
  <2> QED BY <2>1
<1>2. Plain(x) \in Output
  BY PlainTyped
<1>3. PICK r : r = Append(o, x)
  OBVIOUS
<1>4. /\ r \in Seq(Output) /\ Len(r) = Len(o) + 1 /\ r[Len(o) + 1] = x /\ Len(o) \in Nat
      /\ \A k \in 1..Len(o) : r[k] = o[k]
  BY <1>3
<1>5. Bare(r) = Append(Bare(o), Plain(x))
  <2>1. PICK s : s = Append(Bare(o), Plain(x))
    OBVIOUS
  <2>2. /\ s \in Seq(Output) /\ Len(s) = Len(o) + 1 /\ s[Len(o) + 1] = Plain(x)
        /\ \A k \in 1..Len(o) : s[k] = Bare(o)[k]
    BY <1>1, <1>2, <2>1
  <2>3. Bare(r) \in Seq(Output) /\ Len(Bare(r)) = Len(o) + 1
    BY <1>1, <1>4
  <2>4. ASSUME NEW k \in 1..Len(o) + 1 PROVE Bare(r)[k] = s[k]
    <3>1. Bare(r)[k] = Plain(r[k])
      BY <1>1, <1>4
    <3>2. k \in 1..Len(o) \/ k = Len(o) + 1
      BY <1>4
    <3> QED BY <1>1, <1>4, <2>2, <3>1, <3>2
  <2>5. Bare(r) = s
    BY <2>2, <2>3, <2>4
  <2> QED BY <2>1, <2>5
<1> QED BY <1>1, <1>2, <1>3, <1>4, <1>5

\* What a line of a program shows, and the lines of a program one after the other.
ListingOf(l) == <<Out("number", l.number, 0)>> \o l.items \o <<Out("newline", 0, 0)>>
Texts(program) == [n \in DOMAIN program |-> ListingOf(program[n])]
Listings == [n \in DOMAIN programs |-> Listing(programs[n])]

\* What is put out by a step is an item.
LEMMA OutTyped ==
  ASSUME NEW k \in {"number", "word", "byte", "target", "newline"}, NEW a \in Nat, NEW b \in Nat
  PROVE  Out(k, a, b) \in Output /\ Plain(Out(k, a, b)) = (IF k = "number" THEN Out(k, a, 0) ELSE Out(k, a, b))
  BY DEF Out, Output, Plain

\* The items of a line are shown as they are.
LEMMA ItemsShown ==
  ASSUME NEW i \in Item PROVE i \in Output /\ Plain(i) = i
  BY DEF Item, Output, Plain

\* A line's listing: its number, its items, and the end of the line.
LEMMA ListingOfIs ==
  ASSUME NEW l \in Line
  PROVE  /\ ListingOf(l) \in Seq(Output) /\ Len(ListingOf(l)) = Len(l.items) + 2
         /\ ListingOf(l)[1] = Out("number", l.number, 0)
         /\ ListingOf(l)[Len(l.items) + 2] = Out("newline", 0, 0)
         /\ \A k \in 1..Len(l.items) : ListingOf(l)[k + 1] = l.items[k]
<1>1. l.items \in Seq(Item) /\ l.number \in Nat /\ Len(l.items) \in Nat
  <2>1. l.items \in Seq(Item) /\ l.number \in Numbers
    BY DEF Line
  <2>2. l.number \in Nat
    BY <2>1, NumbersAssumption, ShortNat, Zenon
  <2> QED BY <2>1, <2>2
<1>2. Item \subseteq Output
  BY ItemsShown
<1>3. l.items \in Seq(Output)
  BY <1>1, <1>2, SeqWider
<1>4. Out("number", l.number, 0) \in Output /\ Out("newline", 0, 0) \in Output
  BY <1>1, OutTyped
<1> DEFINE h == <<Out("number", l.number, 0)>>  e == <<Out("newline", 0, 0)>>
<1>5. h \in Seq(Output) /\ e \in Seq(Output)
  BY <1>4
<1>6. Len(h) = 1 /\ h[1] = Out("number", l.number, 0) /\ Len(e) = 1 /\ e[1] = Out("newline", 0, 0)
  OBVIOUS
<1>7. ListingOf(l) = (h \o l.items) \o e
  BY DEF ListingOf
<1> HIDE DEF h, e
<1>8. PICK x : x = h \o l.items
  OBVIOUS
<1>9. /\ x \in Seq(Output) /\ Len(x) = Len(h) + Len(l.items)
      /\ \A k \in 1..Len(h) : x[k] = h[k]
      /\ \A k \in 1..Len(l.items) : x[Len(h) + k] = l.items[k]
  BY <1>3, <1>5, <1>8, ConcatIs
<1>10. PICK y : y = x \o e
  OBVIOUS
<1>11. /\ y \in Seq(Output) /\ Len(y) = Len(x) + Len(e)
       /\ \A k \in 1..Len(x) : y[k] = x[k]
       /\ \A k \in 1..Len(e) : y[Len(x) + k] = e[k]
  <2>1. x \in Seq(Output)
    BY <1>9
  <2> QED BY <1>5, <1>10, <2>1, ConcatIs
<1>12. y = ListingOf(l)
  BY <1>7, <1>8, <1>10
<1>13. Len(x) = Len(l.items) + 1 /\ Len(y) = Len(l.items) + 2
  BY <1>1, <1>6, <1>9, <1>11
<1>14. y[1] = Out("number", l.number, 0)
  <2>1. 1 \in 1..Len(x) /\ 1 \in 1..Len(h)
    BY <1>1, <1>6, <1>13
  <2> QED BY <1>6, <1>9, <1>11, <2>1
<1>15. y[Len(l.items) + 2] = Out("newline", 0, 0)
  <2>1. 1 \in 1..Len(e) /\ Len(x) + 1 = Len(l.items) + 2
    BY <1>1, <1>6, <1>13
  <2> QED BY <1>6, <1>11, <2>1
<1>16. ASSUME NEW k \in 1..Len(l.items) PROVE y[k + 1] = l.items[k]
  <2>1. k + 1 \in 1..Len(x) /\ Len(h) + k = k + 1
    BY <1>1, <1>6, <1>13
  <2> QED BY <1>9, <1>11, <2>1
<1> QED BY <1>11, <1>12, <1>13, <1>14, <1>15, <1>16

\* A program's listing is that of its lines, one after the other,
LEMMA TextsAre ==
  ASSUME NEW program \in Seq(Line)
  PROVE  /\ Texts(program) \in Seq(Seq(Output)) /\ Len(Texts(program)) = Len(program)
         /\ \A j \in 1..Len(program) : Texts(program)[j] = ListingOf(program[j])
         /\ Listing(program) = FlattenSeq(Texts(program)) /\ Listing(program) \in Seq(Output)
<1>1. \A j \in 1..Len(program) : ListingOf(program[j]) \in Seq(Output)
  <2>1. \A j \in 1..Len(program) : program[j] \in Line
    OBVIOUS
  <2> QED BY <2>1, ListingOfIs
<1>2. DOMAIN program = 1..Len(program) /\ Len(program) \in Nat
  OBVIOUS
<1>3. /\ Texts(program) \in Seq(Seq(Output)) /\ Len(Texts(program)) = Len(program)
      /\ \A j \in 1..Len(program) : Texts(program)[j] = ListingOf(program[j])
  BY <1>1, <1>2 DEF Texts
<1>4. Listing(program) = FlattenSeq(Texts(program))
  BY DEF Listing, Over, Texts, ListingOf
<1> QED BY <1>3, <1>4, FlattenTyped

\* and that of all programs is theirs.
LEMMA ListingsAre ==
  ASSUME CommandLine
  PROVE  /\ Listings \in Seq(Seq(Output)) /\ Len(Listings) = Len(files)
         /\ \A i \in 1..Len(files) : Listings[i] = Listing(programs[i])
         /\ Over(programs, Listing) = FlattenSeq(Listings)
<1>1. /\ programs \in Seq(Seq(Line)) /\ Len(programs) = Len(files) /\ Len(files) \in Nat
      /\ DOMAIN programs = 1..Len(files)
  BY DEF CommandLine
<1>2. \A i \in 1..Len(files) : programs[i] \in Seq(Line)
  BY <1>1
<1>3. \A i \in 1..Len(files) : Listing(programs[i]) \in Seq(Output)
  BY <1>2, TextsAre
<1> QED BY <1>1, <1>3 DEF Listings, Over
-----------------------------------------------------------------------------
(* The types of bbcbasic_to_text.                                          *)

\* The stages at which a file is read.
Reads == {"line", "number", "bytes"}

\* What can be said of a file that fails, and of any.
Failure ==
  {"missing", "premature end-of-file", "line did not start with 0x0D", "impossibly short",
   "expected 0xFF", "expected 0x0D at the end of the line", "ran over the end of the input",
   "saw unexpected token", "crunched", "end-of-line in the middle of a line number",
   "unexpected end-of-line", "saw sequence"}
Verdict == Failure \cup {"ok"}

\* All but one of the things said of a file are failures.
LEMMA Verdicts ==
  /\ "missing" \in Failure /\ "premature end-of-file" \in Failure
  /\ "line did not start with 0x0D" \in Failure /\ "impossibly short" \in Failure
  /\ "expected 0xFF" \in Failure /\ "expected 0x0D at the end of the line" \in Failure
  /\ "ran over the end of the input" \in Failure /\ "saw unexpected token" \in Failure
  /\ "crunched" \in Failure /\ "end-of-line in the middle of a line number" \in Failure
  /\ "unexpected end-of-line" \in Failure /\ "saw sequence" \in Failure
  /\ "ok" \in Verdict /\ "ok" \notin Failure
  /\ Failure \subseteq Verdict
  BY DEF Failure, Verdict

\* The types, with what the proofs need and TLC does not evaluate.
BasicTypes ==
  /\ CommandLine
  /\ stage \in {"open", "exit"} \cup Reads
  /\ verdicts \in Seq(Verdict) /\ Len(verdicts) <= Len(files) /\ exitval \in 0..1
  /\ stage \in Reads => Current \in 1..Len(files) /\ pos \in 0..Len(Bytes)
  /\ pos \in Nat /\ buf \in Seq(Byte) /\ Len(buf) <= 252
  /\ indent \in Int /\ number \in Short
  /\ len \in 0..251 /\ p \in 0..len /\ in_string \in BOOLEAN
  /\ file_pos \in Nat /\ told \in Nat \cup {Nowhere}
  /\ out \in Seq(Output)

\* What no step changes.
LEMMA CommandLineStays == ASSUME CommandLine, UNCHANGED commandLine PROVE CommandLine'
  BY DEF CommandLine, commandLine, BasicTokenised

\* At has a byte of the buffer, or a zero behind its end.
LEMMA AtTyped == ASSUME NEW b \in Seq(Byte), NEW k \in Nat \ {0} PROVE At(b, k) \in Byte
<1>1. 0 \in Byte
  BY DEF Byte
<1>2. k <= Len(b) => k \in 1..Len(b)
  OBVIOUS
<1> QED BY <1>1, <1>2 DEF At

\* Bytes are numbers up to 255.
LEMMA ByteNat == Byte \subseteq Nat /\ \A b \in Byte : b \in Nat /\ b <= 255
  BY DEF Byte

\* The file that is read has bytes,
LEMMA BytesTyped ==
  ASSUME BasicTypes, Current \in 1..Len(files)
  PROVE  Bytes \in Seq(Byte) /\ Len(Bytes) \in Nat
<1>1. files[Current] \in Input
  BY DEF BasicTypes, CommandLine
<1> QED BY <1>1 DEF Input, Bytes, Current

\* and so has what is ahead in it,
LEMMA AheadTyped ==
  ASSUME BasicTypes, stage \in Reads, NEW k \in Nat \ {0}, k <= Left
  PROVE  Ahead(k) \in Byte /\ Ahead(k) \in Nat /\ Ahead(k) <= 255
<1>1. pos \in Nat /\ Bytes \in Seq(Byte) /\ Len(Bytes) \in Nat
  BY BytesTyped DEF BasicTypes
<1>2. pos + k \in 1..Len(Bytes)
  BY <1>1 DEF Left
<1>3. Ahead(k) \in Byte
  BY <1>1, <1>2 DEF Ahead
<1> QED BY <1>3, ByteNat

\* of which there is as much as the place in the file leaves.
LEMMA LeftTyped ==
  ASSUME BasicTypes, stage \in Reads PROVE Left \in Nat /\ pos + Left = Len(Bytes) /\ Len(Bytes) \in Nat
<1>1. pos \in 0..Len(Bytes) /\ Len(Bytes) \in Nat
  BY BytesTyped DEF BasicTypes
<1> QED BY <1>1 DEF Left

\* When a file was dealt with the types still hold,
LEMMA DealtTypes ==
  ASSUME BasicTypes, Current \in 1..Len(files), NEW v \in Verdict, Dealt(v),
         told' \in Nat \cup {Nowhere}
  PROVE  BasicTypes'
<1>1. CommandLine'
  BY CommandLineStays DEF BasicTypes, Dealt
<1>2. /\ verdicts' \in Seq(Verdict) /\ Len(verdicts') = Len(verdicts) + 1
      /\ verdicts' = Append(verdicts, v)
  BY DEF BasicTypes, Dealt
<1>3. Len(verdicts') <= Len(files') /\ files' = files
  <2>1. files' = files /\ Len(files) \in Nat /\ Len(verdicts) \in Nat
    BY DEF Dealt, commandLine, BasicTypes, CommandLine
  <2> QED BY <1>2, <2>1 DEF Current
<1>4. exitval' \in 0..1 /\ stage' = "open"
  BY DEF Dealt, BasicTypes
<1>5. stage' \notin Reads /\ stage' \in {"open", "exit"} \cup Reads
  BY <1>4 DEF Reads
<1> QED BY <1>1, <1>2, <1>3, <1>4, <1>5 DEF Dealt, BasicTypes, line

\* also without a place for the message.
LEMMA EndsTypes ==
  ASSUME BasicTypes, Current \in 1..Len(files), NEW v \in Verdict, Ends(v)
  PROVE  BasicTypes'
<1>1. Dealt(v) /\ told' \in Nat \cup {Nowhere}
  BY DEF Ends, BasicTypes
<1> QED BY <1>1, DealtTypes

\* The buffer holds bytes, never more than the longest line or what it held.
LEMMA FilledTyped ==
  ASSUME BasicTypes, stage \in Reads, NEW header \in {3, 4}, NEW nread \in Nat,
         header + nread <= Left, nread <= 252
  PROVE  /\ Filled(header, nread) \in Seq(Byte) /\ Len(Filled(header, nread)) <= 252
         /\ \A k \in 1..nread : At(Filled(header, nread), k) = Ahead(header + k)
<1>1. /\ pos \in Nat /\ Bytes \in Seq(Byte) /\ Len(Bytes) \in Nat /\ buf \in Seq(Byte)
      /\ Len(buf) \in Nat /\ Len(buf) <= 252 /\ Left \in Nat /\ Len(Bytes) = pos + Left
  BY BytesTyped, LeftTyped DEF BasicTypes
<1>2. PICK a \in Nat : a = pos + header
  BY <1>1
<1>3. a + nread <= Len(Bytes)
  BY <1>1, <1>2
<1> DEFINE x == SubSeq(Bytes, a + 1, a + nread)
           y == SubSeq(buf, nread + 1, Len(buf))
<1>4. x \in Seq(Byte) /\ Len(x) = nread /\ \A k \in 1..nread : x[k] = Bytes[a + k]
  BY <1>1, <1>2, <1>3
<1>5. y \in Seq(Byte) /\ Len(y) = (IF nread < Len(buf) THEN Len(buf) - nread ELSE 0)
  BY <1>1
<1>6. Filled(header, nread) = x \o y
  BY <1>2 DEF Filled
<1> HIDE DEF x, y
<1>7. PICK z : z = x \o y
  OBVIOUS
<1>8. z \in Seq(Byte) /\ Len(z) = Len(x) + Len(y) /\ \A k \in 1..Len(x) : z[k] = x[k]
  <2>1. x \in Seq(Byte) /\ y \in Seq(Byte)
    BY <1>4, <1>5
  <2> QED BY <1>7, <2>1, ConcatIs
<1>9. Len(z) <= 252 /\ nread <= Len(z)
  <2>1. Len(y) \in Nat
    BY <1>1, <1>5
  <2> QED BY <1>1, <1>4, <1>5, <1>8, <2>1
<1>10. ASSUME NEW k \in 1..nread PROVE At(z, k) = Ahead(header + k)
  <2>1. z[k] = Bytes[a + k] /\ a + k = pos + (header + k)
    BY <1>1, <1>2, <1>4, <1>8
  <2>2. k <= Len(z)
    BY <1>8, <1>9
  <2> QED BY <2>1, <2>2 DEF At, Ahead
<1> QED BY <1>6, <1>7, <1>8, <1>9, <1>10

\* When a line was read the types still hold.
LEMMA DecodeLineTypes ==
  ASSUME BasicTypes, stage \in Reads, NEW n \in Short, NEW header \in {3, 4}, NEW nread \in Nat,
         header + nread <= Left, nread <= 252, NEW data \in 0..251,
         DecodeLine(n, header, nread, data)
  PROVE  BasicTypes'
<1>1. CommandLine'
  BY CommandLineStays DEF BasicTypes, DecodeLine
<1>2. /\ files' = files /\ verdicts' = verdicts /\ Bytes' = Bytes /\ Current' = Current
  BY DEF DecodeLine, commandLine, Bytes, Current
<1>3. pos' \in Nat /\ pos' \in 0..Len(Bytes) /\ file_pos' \in Nat
  <2>1. pos \in Nat /\ Left \in Nat /\ pos + Left = Len(Bytes)
    BY LeftTyped DEF BasicTypes
  <2>2. pos' = pos + header + nread /\ file_pos' = pos + header
    BY DEF DecodeLine
  <2> QED BY <2>1, <2>2
<1>4. buf' \in Seq(Byte) /\ Len(buf') <= 252
  BY FilledTyped DEF DecodeLine
<1>5. stage' = "number" /\ stage' \in Reads
  BY DEF DecodeLine, Reads
<1>6. Current' \in 1..Len(files') /\ pos' \in 0..Len(Bytes')
  BY <1>2, <1>3 DEF BasicTypes
<1>7. Len(verdicts') <= Len(files') /\ verdicts' \in Seq(Verdict)
  BY <1>2 DEF BasicTypes
<1>8. number' \in Short /\ len' \in 0..251 /\ p' \in 0..len' /\ in_string' \in BOOLEAN
  <2>1. number' = n /\ len' = data /\ p' = 0 /\ in_string' = FALSE
    BY DEF DecodeLine
  <2>2. 0 \in 0..data
    OBVIOUS
  <2>3. len' \in 0..251 /\ p' \in 0..len'
    BY <2>1, <2>2, Zenon
  <2>4. number' \in Short /\ in_string' \in BOOLEAN
    BY <2>1, Zenon
  <2> QED BY <2>3, <2>4
<1>9. indent' \in Int /\ exitval' \in 0..1 /\ told' \in Nat \cup {Nowhere} /\ out' \in Seq(Output)
  BY DEF DecodeLine, BasicTypes
<1> QED BY <1>1, <1>3, <1>4, <1>5, <1>6, <1>7, <1>8, <1>9 DEF BasicTypes

\* A step within a line, or out of it, that leaves the file and the buffer alone.
Stays ==
  /\ UNCHANGED <<commandLine, verdicts, exitval, buf, number, told>>
  /\ stage \in Reads /\ stage' \in Reads

\* When a step leaves the file and the buffer alone the types still hold.
LEMMA StaysTypes ==
  ASSUME BasicTypes, Stays, pos' \in 0..Len(Bytes), pos' \in Nat, len' \in 0..251, p' \in 0..len',
         in_string' \in BOOLEAN, file_pos' \in Nat, indent' \in Int, out' \in Seq(Output)
  PROVE  BasicTypes'
<1>1. CommandLine'
  BY CommandLineStays DEF BasicTypes, Stays
<1>2. /\ files' = files /\ verdicts' = verdicts /\ Bytes' = Bytes /\ Current' = Current
  BY DEF Stays, commandLine, Bytes, Current
<1>3. Current' \in 1..Len(files') /\ pos' \in 0..Len(Bytes')
  BY <1>2 DEF BasicTypes, Stays
<1>4. Len(verdicts') <= Len(files') /\ verdicts' \in Seq(Verdict)
  BY <1>2 DEF BasicTypes
<1> QED BY <1>1, <1>3, <1>4 DEF Stays, BasicTypes

\* The change of the indentation is a number.
LEMMA LoopsTyped ==
  ASSUME BasicTypes, NEW a, NEW b PROVE Loops(a, b) \in Nat
<1>1. \A x : Occurrences(x) \in Nat
  <2>1. ASSUME NEW x PROVE Occurrences(x) \in Nat
    <3>1. len \in Nat
      BY DEF BasicTypes
    <3>2. IsFiniteSet(1..len) /\ {k \in 1..len : At(buf, k) = x} \subseteq 1..len
      BY <3>1, FS_Interval
    <3>3. IsFiniteSet({k \in 1..len : At(buf, k) = x})
      BY <3>2, FS_Subset
    <3> QED BY <3>3, FS_CardinalityType DEF Occurrences
  <2> QED BY <2>1
<1> QED BY <1>1 DEF Loops

\* A bit is a number.
LEMMA BitTyped == ASSUME NEW b \in Nat, NEW w \in Nat \ {0} PROVE Bit(b, w) \in Nat
  BY DEF Bit

\* The indentation that is shown is not negative.
LEMMA MaxTyped == ASSUME NEW x \in Int PROVE Max({x, 0}) \in Nat
<1>1. \E m \in {x, 0} : \A y \in {x, 0} : m >= y
  <2>1. CASE x >= 0
    BY <2>1
  <2>2. CASE x < 0
    BY <2>2
  <2> QED BY <2>1, <2>2
<1>2. Max({x, 0}) \in {x, 0} /\ \A y \in {x, 0} : Max({x, 0}) >= y
  BY <1>1 DEF Max
<1> QED BY <1>2

\* While a file is read it is one of the files.
LEMMA CurrentTyped ==
  ASSUME BasicTypes, stage \in Reads PROVE Current \in 1..Len(files)
  BY DEF BasicTypes

\* Two bytes make the number of a line.
LEMMA ShortOf ==
  ASSUME NEW hi \in Byte, NEW lo \in Byte PROVE 256 * hi + lo \in Short
<1>1. hi \in Nat /\ hi <= 255 /\ lo \in Nat /\ lo <= 255
  BY ByteNat
<1>2. 256 * hi + lo \in Nat /\ 256 * hi + lo <= LastShort
  BY <1>1 DEF LastShort
<1>3. LastShort \in Nat
  BY DEF LastShort
<1> QED BY <1>1, <1>2, <1>3 DEF Short

\* What a step makes of a line that begins with its carriage return.
LEMMA BigBodyDoes ==
  ASSUME BasicTypes, BigBody
  PROVE  LET n == Ahead(4) - 4
         IN \/ \E v \in Verdict : Ends(v)
            \/ /\ n \in 0..251 /\ 4 + n <= Left /\ BigNumber \in Short
               /\ DecodeLine(BigNumber, 4, n, n)
<1>1. stage \in Reads /\ Left >= 4
  BY DEF BigBody, BigLine, Reads
<1>2. Left \in Nat
  BY <1>1, LeftTyped
<1>3. Ahead(2) \in Byte /\ Ahead(3) \in Byte /\ Ahead(4) \in Nat /\ Ahead(4) <= 255
  BY <1>1, <1>2, AheadTyped
<1>4. BigNumber \in Short
  BY <1>3, ShortOf DEF BigNumber
<1> DEFINE n == Ahead(4) - 4
<1>5. CASE Ends("impossibly short") \/ Ends("premature end-of-file")
  BY <1>5, Verdicts, Zenon
<1>6. CASE n \in 0..Left - 4 /\ DecodeLine(BigNumber, 4, n, n)
  BY <1>2, <1>3, <1>4, <1>6
<1> QED BY <1>5, <1>6 DEF BigBody

\* The lesser of two numbers.
LEMMA MinIs ==
  ASSUME NEW x \in Int, NEW y \in Int PROVE Min({x, y}) = IF x <= y THEN x ELSE y
<1>1. \E m \in {x, y} : \A z \in {x, y} : m <= z
  <2>1. CASE x <= y
    BY <2>1
  <2>2. CASE ~(x <= y)
    BY <2>2
  <2> QED BY <2>1, <2>2
<1>2. Min({x, y}) \in {x, y} /\ \A z \in {x, y} : Min({x, y}) <= z
  BY <1>1 DEF Min
<1> QED BY <1>2

\* and of one that begins with its length.
LEMMA LittleBodyDoes ==
  ASSUME BasicTypes, LittleBody
  PROVE  LET n == Ahead(1) - 3
             nread == IF n <= Left - 3 THEN n ELSE Left - 3
         IN /\ n \in 0..252 /\ nread \in Nat /\ nread <= 252 /\ 3 + nread <= Left
            /\ \/ n = 0 /\ pos' = pos + 3
                  /\ UNCHANGED <<commandLine, verdicts, exitval, stage, line, told, out>>
               \/ n > 0 /\ At(Filled(3, nread), n) # CR /\ Ends("expected 0x0D at the end of the line")
               \/ /\ n > 0 /\ 256 * Ahead(3) + Ahead(2) \in Short
                  /\ At(Filled(3, nread), n) = CR
                  /\ DecodeLine(256 * Ahead(3) + Ahead(2), 3, nread, n - 1)
<1>1. stage \in Reads /\ Left >= 3 /\ Ahead(1) >= 3
  BY DEF LittleBody, LittleLine, Reads
<1>2. Left \in Nat
  BY <1>1, LeftTyped
<1>3. Ahead(2) \in Byte /\ Ahead(3) \in Byte /\ Ahead(1) \in Nat /\ Ahead(1) <= 255
  BY <1>1, <1>2, AheadTyped
<1>4. 256 * Ahead(3) + Ahead(2) \in Short
  BY <1>3, ShortOf
<1> DEFINE n == Ahead(1) - 3
           nread == IF n <= Left - 3 THEN n ELSE Left - 3
<1>5. n \in 0..252 /\ nread \in Nat /\ nread <= 252 /\ 3 + nread <= Left
  BY <1>1, <1>2, <1>3
<1>6. Min({n, Left - 3}) = nread
  BY <1>2, <1>3, MinIs
<1> HIDE DEF nread
<1>7. \/ n = 0 /\ pos' = pos + 3
         /\ UNCHANGED <<commandLine, verdicts, exitval, stage, line, told, out>>
      \/ n > 0 /\ At(Filled(3, nread), n) # CR /\ Ends("expected 0x0D at the end of the line")
      \/ n > 0 /\ At(Filled(3, nread), n) = CR
         /\ DecodeLine(256 * Ahead(3) + Ahead(2), 3, nread, n - 1)
  BY <1>6 DEF LittleBody
<1> QED BY <1>4, <1>5, <1>7 DEF nread

\* A decoding step fails or shows an item.
Fails == \E v \in Failure : Dealt(v) /\ told' \in Nat \cup {Nowhere}
Shows == \E x \in Output, n \in 1..4 : p + n <= len /\ Put(x, n) /\ x.kind # "number"

\* The end of a file with a failure.
LEMMA EndsFails ==
  ASSUME BasicTypes, NEW v \in Failure, Ends(v) PROVE Fails
<1>1. Dealt(v) /\ told' \in Nat \cup {Nowhere}
  BY DEF Ends, BasicTypes
<1> QED BY <1>1 DEF Fails

\* Showing an item within the line.
LEMMA PutShows ==
  ASSUME NEW k \in {"word", "byte", "target"}, NEW a \in Nat, NEW b \in Nat, NEW n \in 1..4,
         p + n <= len, Put(Out(k, a, b), n)
  PROVE  Shows
<1>1. Out(k, a, b) \in Output /\ Out(k, a, b).kind # "number"
  BY DEF Out, Output
<1> QED BY <1>1 DEF Shows

\* What a step makes of the bytes of an item.
LEMMA DecodingDoes ==
  ASSUME BasicTypes, Decoding
  PROVE  stage = "bytes" /\ p < len /\ (Fails \/ Shows)
<1>1. stage = "bytes" /\ p < len
  BY DEF Decoding, RanOver, InString, Word, Invalid, FastVariable, LineNumber, ExtendedToken,
         PdpToken, Outside, Decodes
<1>2. p \in Nat /\ len \in Nat /\ buf \in Seq(Byte) /\ file_pos \in Nat /\ told \in Nat \cup {Nowhere}
  BY DEF BasicTypes
<1>3. /\ Uch \in Byte /\ At(buf, p + 2) \in Byte /\ At(buf, p + 3) \in Byte /\ At(buf, p + 4) \in Byte
      /\ Uch \in Nat /\ At(buf, p + 2) \in Nat
  <2>1. /\ p + 1 \in Nat \ {0} /\ p + 2 \in Nat \ {0} /\ p + 3 \in Nat \ {0}
        /\ p + 4 \in Nat \ {0}
    BY <1>2
  <2>2. \A k \in Nat \ {0} : At(buf, k) \in Byte /\ At(buf, k) \in Nat
    BY <1>2, AtTyped, ByteNat
  <2> QED BY <2>1, <2>2, Zenon DEF Uch
<1>4. CASE RanOver
  <2>1. Ends("ran over the end of the input")
    BY <1>4 DEF RanOver
  <2> QED BY <1>1, <2>1, EndsFails, Verdicts, Zenon
<1>5. CASE InString
  <2>1. Put(Out("byte", Uch, 0), 1) /\ p + 1 <= len
    BY <1>1, <1>2, <1>5 DEF InString
  <2> QED BY <1>1, <1>3, <2>1, PutShows
<1>6. CASE Word
  <2>1. Put(Out("word", Uch, 0), 1) /\ p + 1 <= len
    BY <1>1, <1>2, <1>6 DEF Word
  <2> QED BY <1>1, <1>3, <2>1, PutShows
<1>7. CASE Invalid
  <2>1. Dealt("saw unexpected token") /\ told' \in Nat \cup {Nowhere}
    BY <1>2, <1>7 DEF Invalid
  <2> QED BY <1>1, <2>1, Verdicts, Zenon DEF Fails
<1>8. CASE FastVariable
  <2>1. Ends("crunched")
    BY <1>8 DEF FastVariable
  <2> QED BY <1>1, <2>1, EndsFails, Verdicts, Zenon
<1>9. CASE LineNumber
  <2>1. CASE Rest < 3
    <3>1. Ends("end-of-line in the middle of a line number")
      BY <1>9, <2>1 DEF LineNumber
    <3> QED BY <1>1, <3>1, EndsFails, Verdicts, Zenon
  <2>2. CASE ~(Rest < 3)
    <3>1. Target(At(buf, p + 2), At(buf, p + 3), At(buf, p + 4)) \in Nat
      BY <1>3, TargetNat
    <3>2. Put(Out("target", Target(At(buf, p + 2), At(buf, p + 3), At(buf, p + 4)), 0), 4)
      BY <1>9, <2>2 DEF LineNumber
    <3>3. p + 4 <= len
      BY <1>2, <2>2 DEF Rest
    <3> QED BY <1>1, <3>1, <3>2, <3>3, PutShows
  <2> QED BY <2>1, <2>2
<1>10. CASE ExtendedToken
  <2>1. CASE Ends("unexpected end-of-line")
    BY <1>1, <2>1, EndsFails, Verdicts, Zenon
  <2>2. CASE Ends("saw sequence")
    BY <1>1, <2>2, EndsFails, Verdicts, Zenon
  <2>3. CASE Rest > 0 /\ Put(Out("word", Uch, At(buf, p + 2)), 2)
    <3>1. p + 2 <= len
      BY <1>2, <2>3 DEF Rest
    <3> QED BY <1>1, <1>3, <2>3, <3>1, PutShows
  <2> QED BY <1>10, <2>1, <2>2, <2>3 DEF ExtendedToken
<1>11. CASE PdpToken
  <2>1. CASE Ends("unexpected end-of-line")
    BY <1>1, <2>1, EndsFails, Verdicts, Zenon
  <2>2. CASE Rest # 0 /\ Put(Out("word", Uch, 152), 2)
    <3>1. p + 2 <= len
      BY <1>1, <1>2, <2>2 DEF Rest
    <3> QED BY <1>1, <1>3, <2>2, <3>1, PutShows
  <2>3. CASE Rest # 0 /\ Put(Out("word", Uch, 0), 1)
    <3>1. p + 1 <= len
      BY <1>1, <1>2
    <3> QED BY <1>1, <1>3, <2>3, <3>1, PutShows
  <2> QED BY <1>11, <2>1, <2>2, <2>3 DEF PdpToken
<1> QED BY <1>4, <1>5, <1>6, <1>7, <1>8, <1>9, <1>10, <1>11 DEF Decoding

\* These steps end the file with something that can be said of it.
LEMMA EndingsEnd ==
  ASSUME EndOfFile \/ NoCarriageReturn \/ BigEnd \/ BigCut \/ LittleEnd \/ LittleCut
  PROVE  \E v \in Verdict : Ends(v)
<1>1. CASE EndOfFile
  <2>1. Ends("ok") \/ Ends("premature end-of-file")
    BY <1>1 DEF EndOfFile
  <2> QED BY <2>1, Verdicts, Zenon
<1>2. CASE NoCarriageReturn
  <2>1. Ends("line did not start with 0x0D")
    BY <1>2 DEF NoCarriageReturn
  <2> QED BY <2>1, Verdicts, Zenon
<1>3. CASE BigEnd
  <2>1. Ends("ok")
    BY <1>3 DEF BigEnd
  <2> QED BY <2>1, Verdicts, Zenon
<1>4. CASE BigCut
  <2>1. Ends("premature end-of-file")
    BY <1>4 DEF BigCut
  <2> QED BY <2>1, Verdicts, Zenon
<1>5. CASE LittleEnd
  <2>1. Ends("expected 0xFF") \/ Ends("premature end-of-file") \/ Ends("ok")
    BY <1>5 DEF LittleEnd
  <2> QED BY <2>1, Verdicts, Zenon
<1>6. CASE LittleCut
  <2>1. Ends("impossibly short") \/ Ends("premature end-of-file")
    BY <1>6 DEF LittleCut
  <2> QED BY <2>1, Verdicts, Zenon
<1> QED BY <1>1, <1>2, <1>3, <1>4, <1>5, <1>6

\* Every step keeps the types.
LEMMA BasicTypesStep ==
  ASSUME BasicTypes, [BasicNext]_bvars PROVE BasicTypes'
<1>1. CASE UNCHANGED bvars
  <2>1. CommandLine'
    BY <1>1, CommandLineStays DEF BasicTypes, bvars, commandLine
  <2> QED BY <1>1, <2>1 DEF BasicTypes, bvars, Bytes, Current
<1>2. ASSUME stage \in Reads, NEW v \in Verdict, Ends(v) PROVE BasicTypes'
  BY <1>2, CurrentTyped, EndsTypes
<1>3. CASE Open
  <2>1. Current \in 1..Len(files)
    BY <1>3 DEF Open, Current, BasicTypes, CommandLine
  <2>2. CASE ~files[Current].there
    <3>1. Ends("missing")
      BY <1>3, <2>2 DEF Open, Current
    <3> QED BY <2>1, <3>1, Verdicts, EndsTypes, Zenon
  <2>3. CASE files[Current].there
    <3>1. /\ stage' = "line" /\ pos' = 0 /\ indent' = 0
          /\ UNCHANGED <<commandLine, verdicts, exitval, buf, number, len, p, in_string,
                         file_pos, told, out>>
      BY <1>3, <2>3 DEF Open, Current
    <3>2. CommandLine' /\ Bytes' = Bytes /\ Current' = Current /\ files' = files
      BY <3>1, CommandLineStays DEF BasicTypes, Bytes, Current, commandLine
    <3>3. pos' \in 0..Len(Bytes) /\ pos' \in Nat /\ indent' \in Int /\ stage' \in Reads
      BY <2>1, <3>1, BytesTyped DEF Reads
    <3> QED BY <2>1, <3>1, <3>2, <3>3 DEF BasicTypes
  <2> QED BY <2>2, <2>3
<1>4. CASE Exit
  <2>1. CommandLine' /\ stage' = "exit" /\ stage' \notin Reads
    BY <1>4, CommandLineStays DEF Exit, BasicTypes, Reads
  <2> QED BY <1>4, <2>1 DEF Exit, BasicTypes, commandLine, line
<1>5. CASE EndOfFile \/ NoCarriageReturn \/ BigEnd \/ BigCut \/ LittleEnd \/ LittleCut
  <2>1. stage \in Reads
    BY <1>5 DEF EndOfFile, NoCarriageReturn, BigEnd, BigCut, LittleEnd, LittleCut, BigLine,
                LittleLine, Reads
  <2>2. PICK v \in Verdict : Ends(v)
    BY <1>5, EndingsEnd
  <2> QED BY <1>2, <2>1, <2>2
<1>6. CASE BigBody
  <2>1. stage \in Reads
    BY <1>6 DEF BigBody, BigLine, Reads
  <2> DEFINE n == Ahead(4) - 4
  <2>2. CASE \E v \in Verdict : Ends(v)
    BY <1>2, <2>1, <2>2
  <2>3. CASE n \in 0..251 /\ 4 + n <= Left /\ BigNumber \in Short /\ DecodeLine(BigNumber, 4, n, n)
    <3>1. n \in Nat /\ n <= 252
      BY <2>3
    <3> HIDE DEF n
    <3> QED BY <2>1, <2>3, <3>1, DecodeLineTypes
  <2> QED BY <1>6, <2>2, <2>3, BigBodyDoes
<1>7. CASE LittleBody
  <2>1. stage \in Reads
    BY <1>7 DEF LittleBody, LittleLine, Reads
  <2> DEFINE n == Ahead(1) - 3
             nread == IF n <= Left - 3 THEN n ELSE Left - 3
             c == 256 * Ahead(3) + Ahead(2)
  <2>0. /\ n \in 0..252 /\ nread \in Nat /\ nread <= 252 /\ 3 + nread <= Left
        /\ \/ n = 0 /\ pos' = pos + 3
              /\ UNCHANGED <<commandLine, verdicts, exitval, stage, line, told, out>>
           \/ n > 0 /\ Ends("expected 0x0D at the end of the line")
           \/ n > 0 /\ c \in Short /\ DecodeLine(c, 3, nread, n - 1)
    BY <1>7, LittleBodyDoes, Zenon
  <2>00. Left >= 3 /\ Left \in Nat /\ pos + Left = Len(Bytes) /\ pos \in Nat
    BY <1>7, <2>1, LeftTyped DEF LittleBody, BasicTypes
  <2> HIDE DEF n, nread, c
  <2>000. n \in Int /\ n <= 252
    <3>1. n \in 0..252
      BY <2>0, Zenon
    <3> QED BY <3>1
  <2>2. CASE Ends("expected 0x0D at the end of the line")
    <3>1. \E v \in Verdict : Ends(v)
      BY <2>2, Verdicts, Zenon
    <3> QED BY <1>2, <2>1, <3>1
  <2>3. CASE n > 0 /\ c \in Short /\ DecodeLine(c, 3, nread, n - 1)
    <3>1. n - 1 \in 0..251
      <4> QED BY <2>000, <2>3
    <3> QED BY <2>0, <2>1, <2>3, <3>1, DecodeLineTypes
  <2>4. CASE pos' = pos + 3 /\ UNCHANGED <<commandLine, verdicts, exitval, stage, line, told, out>>
    <3>1. pos' \in 0..Len(Bytes) /\ pos' \in Nat
      BY <2>00, <2>4
    <3> QED BY <2>1, <2>4, <3>1, StaysTypes DEF Stays, line, BasicTypes
  <2> QED BY <2>0, <2>2, <2>3, <2>4
<1>8. CASE Number
  <2>1. stage \in Reads /\ stage' \in Reads
    BY <1>8 DEF Number, Reads
  <2>2. indent' \in Int
    BY <1>8, LoopsTyped DEF Number, BasicTypes
  <2>3. Out("number", number, Bit(listo, 1) + Max({indent', 0})) \in Output
    <3>3. listo \in Nat /\ number \in Short
      BY DEF BasicTypes, CommandLine
    <3>4. number \in Nat
      BY <3>3, ShortNat, Zenon
    <3>1. Bit(listo, 1) \in Nat /\ Max({indent', 0}) \in Nat /\ number \in Nat
      BY <2>2, <3>3, <3>4, BitTyped, MaxTyped
    <3>2. Bit(listo, 1) + Max({indent', 0}) \in Nat
      BY <3>1
    <3> QED BY <3>1, <3>2, OutTyped
  <2>4. out' \in Seq(Output)
    BY <1>8, <2>3 DEF Number, BasicTypes
  <2>5. pos' \in 0..Len(Bytes) /\ pos' \in Nat
    BY <1>8, <2>1 DEF Number, BasicTypes
  <2> QED BY <1>8, <2>1, <2>2, <2>4, <2>5, StaysTypes DEF Number, Stays, BasicTypes
<1>9. CASE EndLine
  <2>1. stage \in Reads /\ stage' \in Reads
    BY <1>9 DEF EndLine, Reads
  <2>2. indent' \in Int
    BY <1>9, LoopsTyped DEF EndLine, BasicTypes
  <2>4. out' \in Seq(Output)
    BY <1>9, OutTyped DEF EndLine, BasicTypes
  <2>5. pos' \in 0..Len(Bytes) /\ pos' \in Nat
    BY <1>9, <2>1 DEF EndLine, BasicTypes
  <2> QED BY <1>9, <2>1, <2>2, <2>4, <2>5, StaysTypes DEF EndLine, Stays, BasicTypes
<1>10. CASE Decoding
  <2>1. stage = "bytes" /\ stage \in Reads
    BY <1>10, DecodingDoes DEF Reads
  <2>2. CASE Fails
    <3>1. PICK v \in Verdict : Dealt(v) /\ told' \in Nat \cup {Nowhere}
      BY <2>2, Verdicts DEF Fails
    <3> QED BY <2>1, <3>1, CurrentTyped, DealtTypes
  <2>3. CASE Shows
    <3>1. PICK x \in Output, n \in 1..4 : p + n <= len /\ Put(x, n)
      BY <2>3 DEF Shows
    <3>2. p' \in 0..len' /\ len' \in 0..251
      BY <3>1 DEF Put, BasicTypes
    <3>3. file_pos' \in Nat /\ indent' \in Int /\ in_string' \in BOOLEAN
      <4>1. file_pos' \in Nat /\ indent' \in Int
        BY <3>1 DEF Put, BasicTypes
      <4>2. in_string' = (IF Uch = Quote THEN ~in_string ELSE in_string) /\ in_string \in BOOLEAN
        BY <3>1 DEF Put, BasicTypes
      <4>3. in_string' \in BOOLEAN
        BY <4>2
      <4> QED BY <4>1, <4>3
    <3>6. out' \in Seq(Output)
      BY <3>1 DEF Put, BasicTypes
    <3>4. pos' \in 0..Len(Bytes) /\ pos' \in Nat
      BY <2>1, <3>1 DEF Put, BasicTypes
    <3>5. Stays
      BY <2>1, <3>1 DEF Put, Stays
    <3> QED BY <3>2, <3>3, <3>4, <3>5, <3>6, StaysTypes
  <2> QED BY <1>10, <2>2, <2>3, DecodingDoes
<1> QED
  BY <1>1, <1>3, <1>4, <1>5, <1>6, <1>7, <1>8, <1>9, <1>10 DEF BasicNext, Decoding
-----------------------------------------------------------------------------
(* The inductive invariant of bbcbasic_to_text.                            *)

\* What the listing has while the files that were dealt with are all intact.
Heard(v) == \A i \in 1..v : Intact(i)
Listed(t) == Heard(Len(verdicts)) => Bare(out) = Before(Listings, Len(verdicts)) \o t

\* What is answered of a file.
Answer(i, v) ==
  /\ Intact(i) => v = "ok"
  /\ CutOff(i) => v # "ok" /\ (LeadingCR(dialect) => v = "premature end-of-file")

\* The last line of a file of this kind, with what the buffer held for its end.
Overran == ~LeadingCR(dialect) /\ CutOff(Current) /\ pos = Len(Bytes) /\ pos > 0

\* Between two lines, and in a line k items of which are listed.
AtLine(j) == pos = Place(dialect, Program, j) /\ Listed(Before(Texts(Program), j))
InLine(j, k) ==
  /\ pos = Place(dialect, Program, j + 1)
  /\ LineIn(Program[j + 1]) /\ Through(Program[j + 1], k)
AtNumber(j) ==
  InLine(j, 0) /\ number = Program[j + 1].number /\ Listed(Before(Texts(Program), j))
AtBytes(j, k) ==
  /\ InLine(j, k)
  /\ Listed(Before(Texts(Program), j) \o SubSeq(ListingOf(Program[j + 1]), 1, k + 1))

Reading ==
  stage \in Reads /\ Good(Current) =>
    \/ Overran
    \/ stage = "line" /\ \E j \in 0..Len(Program) : AtLine(j)
    \/ stage = "number" /\ \E j \in 0..Len(Program) - 1 : AtNumber(j)
    \/ stage = "bytes" /\ \E j \in 0..Len(Program) - 1 :
                            \E k \in 0..Len(Program[j + 1].items) : AtBytes(j, k)

\* What was said of each file, and what the exit status makes of it.
Answered == \A i \in 1..Len(verdicts) : Answer(i, verdicts[i])
Exits ==
  /\ stage = "exit" => Len(verdicts) = Len(files)
  /\ exitval = 0 <=> \A i \in 1..Len(verdicts) : verdicts[i] = "ok"
\* Between two files all that was listed is whole programs.
Between ==
  stage \notin Reads =>
    /\ Heard(Len(verdicts)) => Bare(out) = Before(Listings, Len(verdicts))
    /\ CutListed

\* What holds in every state, and is kept by every step.
BasicInv == BasicTypes /\ Answered /\ Exits /\ Between /\ Reading
-----------------------------------------------------------------------------
(* The listing, item by item, and that it is a part of the program's.      *)

\* A sequence that agrees with a longer one is a prefix of it.
LEMMA PrefixIs ==
  ASSUME NEW S, NEW a \in Seq(S), NEW z \in Seq(S), Len(a) <= Len(z),
         \A k \in 1..Len(a) : a[k] = z[k]
  PROVE  IsPrefix(a, z)
<1>1. SubSeq(a, 1, Len(a)) = SubSeq(z, 1, Len(a))
  OBVIOUS
<1> QED BY <1>1 DEF IsPrefix

\* An element behind the second of two sequences.
LEMMA ConcatAppend ==
  ASSUME NEW S, NEW a \in Seq(S), NEW b \in Seq(S), NEW x \in S
  PROVE  Append(a \o b, x) = a \o Append(b, x)
  OBVIOUS

\* The part of a line that is listed, behind what comes before it.
LEMMA PartListed ==
  ASSUME NEW b \in Seq(Output), NEW t \in Seq(Output), NEW k \in 0..Len(t) - 1
  PROVE  /\ b \o SubSeq(t, 1, k) \in Seq(Output) /\ t[k + 1] \in Output
         /\ Append(b \o SubSeq(t, 1, k), t[k + 1]) = b \o SubSeq(t, 1, k + 1)
<1>1. t[k + 1] \in Output /\ k + 1 \in 1..Len(t) /\ k \in Nat /\ Len(t) \in Nat
  OBVIOUS
<1>2. PICK x : x = SubSeq(t, 1, k)
  OBVIOUS
<1>3. PICK y : y = SubSeq(t, 1, k + 1)
  OBVIOUS
<1>4. x \in Seq(Output) /\ y \in Seq(Output) /\ y = Append(x, t[k + 1])
  BY <1>1, <1>2, <1>3
<1>5. Append(b \o x, t[k + 1]) = b \o Append(x, t[k + 1])
  <2>1. x \in Seq(Output) /\ t[k + 1] \in Output
    BY <1>1, <1>4
  <2>2. \A z \in Output : Append(b \o x, z) = b \o Append(x, z)
    BY <2>1, ConcatAppend
  <2> QED BY <2>1, <2>2
<1>6. b \o x \in Seq(Output)
  BY <1>4
<1> QED BY <1>1, <1>2, <1>3, <1>4, <1>5, <1>6

\* Of a line's listing nothing, and all.
LEMMA PartsListed ==
  ASSUME NEW b \in Seq(Output), NEW t \in Seq(Output)
  PROVE  b \o SubSeq(t, 1, 0) = b /\ b \o SubSeq(t, 1, Len(t)) = b \o t
<1>1. SubSeq(t, 1, 0) = <<>> /\ SubSeq(t, 1, Len(t)) = t
  OBVIOUS
<1> QED BY <1>1

\* What was listed of the files before is a listing.
LEMMA BeforeTyped ==
  ASSUME CommandLine, NEW v \in 0..Len(files)
  PROVE  Before(Listings, v) \in Seq(Output)
  BY ListingsAre, BeforeSteps

\* One more item is listed.
LEMMA ListedMore ==
  ASSUME BasicTypes, NEW t \in Seq(Output), Listed(t), NEW x \in Output, NEW y \in Output,
         y = Plain(x), out' = Append(out, x), UNCHANGED <<commandLine, verdicts>>
  PROVE  Listed(Append(t, y))'
<1>1. out \in Seq(Output) /\ CommandLine /\ Len(verdicts) \in 0..Len(files)
  BY DEF BasicTypes, CommandLine
<1>2. Before(Listings, Len(verdicts)) \in Seq(Output)
  BY <1>1, BeforeTyped
<1>3. Bare(out') = Append(Bare(out), y)
  BY <1>1, BareAppend
<1>4. Heard(Len(verdicts)) => Bare(out') = Before(Listings, Len(verdicts)) \o Append(t, y)
  <2>1. PICK b \in Seq(Output) : b = Before(Listings, Len(verdicts))
    BY <1>2
  <2>2. Append(b \o t, y) = b \o Append(t, y)
    <3>1. t \in Seq(Output) /\ b \in Seq(Output) /\ y \in Output
      OBVIOUS
    <3>2. \A z \in Output : Append(b \o t, z) = b \o Append(t, z)
      BY <3>1, ConcatAppend
    <3> QED BY <3>1, <3>2
  <2>3. Heard(Len(verdicts)) => Bare(out) = b \o t
    BY <2>1 DEF Listed
  <2> QED BY <1>3, <2>1, <2>2, <2>3
<1>5. /\ files' = files /\ programs' = programs /\ dialect' = dialect /\ verdicts' = verdicts
  BY DEF commandLine
<1>6. (Heard(Len(verdicts)))' <=> Heard(Len(verdicts))
  BY <1>5 DEF Heard, Intact
<1>7. Listings' = Listings
  BY <1>5 DEF Listings
<1> QED BY <1>4, <1>5, <1>6, <1>7 DEF Listed

\* A step that lists nothing leaves the listing as it is.
LEMMA ListedStays ==
  ASSUME NEW t, Listed(t), UNCHANGED <<commandLine, verdicts, out>> PROVE Listed(t)'
  BY DEF commandLine, Listed, Listings, Heard, Intact

\* Whatever is listed of a program is a part of its listing.
LEMMA PartOfListing ==
  ASSUME NEW program \in Seq(Line), NEW o,
         \/ \E j \in 0..Len(program) : o = Before(Texts(program), j)
         \/ \E j \in 0..Len(program) - 1 : \E k \in 0..Len(program[j + 1].items) :
              o = Before(Texts(program), j) \o SubSeq(ListingOf(program[j + 1]), 1, k + 1)
  PROVE  IsPrefix(o, Listing(program))
<1> DEFINE s == Texts(program)  f == Listing(program)
<1>1. /\ s \in Seq(Seq(Output)) /\ Len(s) = Len(program) /\ f = FlattenSeq(s) /\ f \in Seq(Output)
      /\ \A j \in 1..Len(program) : s[j] = ListingOf(program[j])
      /\ Len(program) \in Nat
  BY TextsAre
<1> HIDE DEF s, f
<1>2. ASSUME NEW j \in 0..Len(program), o = Before(s, j) PROVE IsPrefix(o, f)
  <2>1. Len(s) \in 0..Len(s) /\ j \in 0..Len(s) /\ j <= Len(s)
    BY <1>1
  <2>2. Holds(Before(s, Len(s)), 0, Before(s, j))
    BY <1>1, <2>1, BeforeStays
  <2>3. Before(s, Len(s)) = f /\ o \in Seq(Output)
    BY <1>1, <1>2, <2>1, BeforeSteps
  <2>4. Len(o) <= Len(f) /\ \A k \in 1..Len(o) : o[k] = f[k]
    <3>1. 0 + Len(o) <= Len(f) /\ \A k \in 1..Len(o) : f[0 + k] = o[k]
      BY <1>2, <2>2, <2>3 DEF Holds
    <3> QED BY <2>3, <3>1
  <2> QED BY <1>1, <2>3, <2>4, PrefixIs
<1>3. ASSUME NEW j \in 0..Len(program) - 1, NEW k \in 0..Len(program[j + 1].items),
             o = Before(s, j) \o SubSeq(ListingOf(program[j + 1]), 1, k + 1)
      PROVE  IsPrefix(o, f)
  <2>1. j \in 0..Len(s) - 1 /\ j + 1 \in 1..Len(program) /\ program[j + 1] \in Line
    BY <1>1
  <2>2. PICK t : t = s[j + 1]
    OBVIOUS
  <2>3. PICK b : b = Before(s, j)
    OBVIOUS
  <2>4. /\ b \in Seq(Output) /\ t \in Seq(Output)
        /\ Holds(f, Len(b), t) /\ Holds(f, 0, Before(s, j + 1)) /\ Before(s, j + 1) = b \o t
    <3>1. /\ Before(s, j) \in Seq(Output) /\ s[j + 1] \in Seq(Output)
          /\ Holds(FlattenSeq(s), Len(Before(s, j)), s[j + 1])
          /\ Holds(FlattenSeq(s), 0, Before(s, j + 1))
      BY <1>1, <2>1, FlattenHolds
    <3>2. Before(s, j + 1) = Before(s, j) \o s[j + 1]
      BY <1>1, <2>1, BeforeSteps
    <3> QED BY <1>1, <2>2, <2>3, <3>1, <3>2
  <2>5. t = ListingOf(program[j + 1]) /\ k + 1 \in 1..Len(t) /\ Len(t) \in Nat
    <3>1. t = ListingOf(program[j + 1])
      BY <1>1, <2>1, <2>2
    <3>2. Len(t) = Len(program[j + 1].items) + 2 /\ Len(program[j + 1].items) \in Nat
      BY <2>1, <3>1, ListingOfIs DEF Line
    <3> QED BY <3>1, <3>2
  <2>6. PICK x : x = SubSeq(t, 1, k + 1)
    OBVIOUS
  <2>7. x \in Seq(Output) /\ Len(x) = k + 1 /\ \A i \in 1..k + 1 : x[i] = t[i]
    BY <2>4, <2>5, <2>6
  <2>8. PICK m \in 1..Len(t) : m = k + 1
    BY <2>5
  <2>9. /\ o \in Seq(Output) /\ Len(o) = Len(b) + Len(x)
        /\ \A i \in 1..Len(b) : o[i] = b[i]
        /\ \A i \in 1..Len(x) : o[Len(b) + i] = x[i]
    <3>1. o = b \o x
      BY <1>3, <2>3, <2>5, <2>6
    <3>2. x \in Seq(Output) /\ b \in Seq(Output)
      BY <2>4, <2>7
    <3> QED BY <3>1, <3>2, ConcatIs
  <2>10. PICK y : y = b \o t
    OBVIOUS
  <2>11. /\ Len(y) = Len(b) + Len(t) /\ \A i \in 1..Len(b) : y[i] = b[i]
         /\ y \in Seq(Output)
    <3>1. t \in Seq(Output) /\ b \in Seq(Output)
      BY <2>4
    <3> QED BY <2>10, <3>1, ConcatIs
  <2>12. Len(f) \in Nat /\ Len(b) \in Nat /\ Len(y) \in Nat
    BY <1>1, <2>4, <2>11
  <2>13. \A i \in 1..Len(b) : f[i] = b[i]
    <3>1. Holds(f, 0, y)
      BY <2>4, <2>10
    <3>2. ASSUME NEW i \in 1..Len(b) PROVE f[i] = b[i]
      <4>1. i \in 1..Len(y) /\ 0 + i = i
        BY <2>5, <2>11, <2>12
      <4>2. f[0 + i] = y[i]
        BY <3>1, <4>1 DEF Holds
      <4> QED BY <2>11, <4>1, <4>2
    <3> QED BY <3>2
  <2>14. Len(x) = m /\ \A i \in 1..m : x[i] = t[i] /\ f[Len(b) + i] = t[i]
    <3>1. \A i \in 1..Len(t) : f[Len(b) + i] = t[i]
      BY <2>4 DEF Holds
    <3> QED BY <2>5, <2>7, <2>8, <3>1
  <2>15. Len(o) <= Len(f)
    <3>1. Len(b) + Len(t) <= Len(f)
      BY <2>4 DEF Holds
    <3> QED BY <2>5, <2>8, <2>9, <2>12, <2>14, <3>1
  <2>16. ASSUME NEW i \in 1..Len(o) PROVE o[i] = f[i]
    <3>1. CASE i <= Len(b)
      <4>1. i \in 1..Len(b)
        BY <2>12, <3>1
      <4> QED BY <2>9, <2>13, <4>1
    <3>2. CASE ~(i <= Len(b))
      <4>1. PICK n \in 1..m : i = Len(b) + n
        <5>1. i - Len(b) \in 1..m /\ i = Len(b) + (i - Len(b))
          BY <2>8, <2>9, <2>12, <2>14, <3>2
        <5> QED BY <5>1
      <4> QED BY <2>9, <2>14, <4>1
    <3> QED BY <3>1, <3>2
  <2> QED BY <1>1, <2>9, <2>15, <2>16, PrefixIs
<1> QED BY <1>2, <1>3 DEF s, f

\* So whatever is listed of a single program is a part of its listing.
LEMMA CutIs == BasicInv => CutListed
<1>1. SUFFICES ASSUME BasicInv, stage \in Reads, Len(files) = 1, LeadingCR(dialect), Good(1)
               PROVE  IsPrefix(Bare(out), Listing(programs[1]))
  BY DEF BasicInv, Between, CutListed, Good
<1>2. BasicTypes /\ CommandLine /\ Current \in 1..Len(files)
  BY <1>1, CurrentTyped DEF BasicInv, BasicTypes
<1>3. Len(verdicts) = 0 /\ Current = 1
  BY <1>1, <1>2 DEF BasicTypes, Current
<1>4. Heard(Len(verdicts))
  BY <1>3 DEF Heard
<1>5. ASSUME NEW t \in Seq(Output), Listed(t) PROVE Bare(out) = t
  <2>1. Bare(out) = Before(Listings, 0) \o t
    BY <1>3, <1>4, <1>5 DEF Listed
  <2>2. Before(Listings, 0) = <<>>
    BY <1>2, ListingsAre, BeforeSteps
  <2> QED BY <2>1, <2>2
<1>6. Program \in Seq(Line) /\ Program = programs[1]
  BY <1>1, <1>2, <1>3 DEF CommandLine, Program
<1>7. /\ \A j \in 0..Len(Program) : Before(Texts(Program), j) \in Seq(Output)
      /\ \A j \in 0..Len(Program) - 1 : ListingOf(Program[j + 1]) \in Seq(Output)
                                        /\ Before(Texts(Program), j) \in Seq(Output)
  <2>1. /\ Texts(Program) \in Seq(Seq(Output)) /\ Len(Texts(Program)) = Len(Program)
        /\ Len(Program) \in Nat
    BY <1>6, TextsAre
  <2>2. \A j \in 0..Len(Program) : Before(Texts(Program), j) \in Seq(Output)
    BY <2>1, BeforeSteps
  <2>3. \A j \in 0..Len(Program) - 1 : Program[j + 1] \in Line
    BY <1>6
  <2> QED BY <2>1, <2>2, <2>3, ListingOfIs
<1>8. ~Overran
  BY <1>1 DEF Overran
<1>9. CASE \E j \in 0..Len(Program) : AtLine(j)
  <2>1. PICK j \in 0..Len(Program) : Listed(Before(Texts(Program), j))
    BY <1>9 DEF AtLine
  <2>2. Bare(out) = Before(Texts(Program), j)
    BY <1>5, <1>7, <2>1
  <2> QED BY <1>6, <2>2, PartOfListing
<1>10. CASE \E j \in 0..Len(Program) - 1 : AtNumber(j)
  <2>1. PICK j \in 0..Len(Program) - 1 : Listed(Before(Texts(Program), j))
    BY <1>10 DEF AtNumber
  <2>2. Bare(out) = Before(Texts(Program), j) /\ j \in 0..Len(Program)
    BY <1>5, <1>7, <2>1
  <2> QED BY <1>6, <2>2, PartOfListing
<1>11. CASE \E j \in 0..Len(Program) - 1 : \E k \in 0..Len(Program[j + 1].items) : AtBytes(j, k)
  <2>0. PICK j \in 0..Len(Program) - 1 : \E k \in 0..Len(Program[j + 1].items) : AtBytes(j, k)
    BY <1>11
  <2>1. PICK k \in 0..Len(Program[j + 1].items) :
          Listed(Before(Texts(Program), j) \o SubSeq(ListingOf(Program[j + 1]), 1, k + 1))
    BY <2>0 DEF AtBytes
  <2>2. PICK b \in Seq(Output) : b = Before(Texts(Program), j)
    BY <1>7
  <2>3. PICK t \in Seq(Output) : t = ListingOf(Program[j + 1])
    BY <1>7
  <2>4. SubSeq(t, 1, k + 1) \in Seq(Output)
    <3>1. Len(t) = Len(Program[j + 1].items) + 2 /\ Len(Program[j + 1].items) \in Nat
      <4>1. Program[j + 1] \in Line
        BY <1>6
      <4> QED BY <2>3, <4>1, ListingOfIs DEF Line
    <3>2. k + 1 \in 1..Len(t)
      BY <3>1
    <3> QED BY <3>2
  <2>5. b \o SubSeq(t, 1, k + 1) \in Seq(Output)
    BY <2>4
  <2>6. Bare(out) = Before(Texts(Program), j) \o SubSeq(ListingOf(Program[j + 1]), 1, k + 1)
    BY <1>5, <2>1, <2>2, <2>3, <2>5
  <2> QED BY <1>6, <2>6, PartOfListing
<1> QED BY <1>1, <1>3, <1>6, <1>8, <1>9, <1>10, <1>11 DEF BasicInv, Reading
-----------------------------------------------------------------------------
(* Steps that deal with a file, and steps that go on in it.                *)

\* Whether a file is intact or cut off does not change.
LEMMA KindStays ==
  ASSUME UNCHANGED commandLine, NEW i
  PROVE  /\ Intact(i)' <=> Intact(i)
         /\ CutOff(i)' <=> CutOff(i)
         /\ dialect' = dialect
<1>1. files' = files /\ programs' = programs /\ dialect' = dialect
  BY DEF commandLine
<1>2. Intact(i)' <=> Intact(i)
  BY <1>1 DEF Intact
<1>3. CutOff(i)' <=> CutOff(i)
  BY <1>1 DEF CutOff
<1> QED BY <1>1, <1>2, <1>3

\* A file is dealt with: it is answered as it deserves.
LEMMA DealtKeeps ==
  ASSUME BasicInv, Current \in 1..Len(files), NEW v \in Verdict, Dealt(v),
         told' \in Nat \cup {Nowhere}, Answer(Current, v),
         Intact(Current) => Listed(Listing(Program))
  PROVE  BasicInv'
<1>1. BasicTypes'
  BY DealtTypes DEF BasicInv
<1>2. /\ files' = files /\ programs' = programs /\ dialect' = dialect /\ out' = out
      /\ stage' = "open" /\ stage' \notin Reads /\ exitval' = (IF v = "ok" THEN exitval ELSE 1)
      /\ verdicts' = Append(verdicts, v)
  BY DEF Dealt, commandLine, Reads
<1>3. BasicTypes /\ CommandLine /\ verdicts \in Seq(Verdict)
  BY DEF BasicInv, BasicTypes
<1>4. /\ Len(verdicts') = Current /\ verdicts'[Current] = v /\ Len(verdicts) \in Nat
      /\ Current = Len(verdicts) + 1
      /\ \A i \in 1..Len(verdicts) : verdicts'[i] = verdicts[i]
  BY <1>2, <1>3 DEF Current
<1>5. \A i \in 1..Current : i \in 1..Len(verdicts) \/ i = Current
  BY <1>4
<1>6. \A i \in 1..Current : Answer(i, verdicts'[i])
  <2>1. \A i \in 1..Len(verdicts) : Answer(i, verdicts[i])
    BY DEF BasicInv, Answered
  <2> QED BY <1>4, <1>5, <2>1
<1>7. Answered'
  <2>1. ASSUME NEW i \in 1..Len(verdicts') PROVE (Answer(i, verdicts[i]))'
    <3>1. Answer(i, verdicts'[i])
      BY <1>4, <1>6
    <3>2. /\ Intact(i)' <=> Intact(i)
          /\ CutOff(i)' <=> CutOff(i)
      BY KindStays DEF Dealt
    <3> QED BY <1>2, <3>1, <3>2 DEF Answer
  <2> QED BY <2>1 DEF Answered
<1>8. Exits'
  <2>1. exitval = 0 <=> \A i \in 1..Len(verdicts) : verdicts[i] = "ok"
    BY DEF BasicInv, Exits
  <2>2. exitval' = 0 <=> (v = "ok" /\ exitval = 0)
    BY <1>2
  <2>3. (\A i \in 1..Current : verdicts'[i] = "ok") <=> (v = "ok" /\ \A i \in 1..Len(verdicts) : verdicts[i] = "ok")
    <3>1. Current \in 1..Current /\ \A i \in 1..Len(verdicts) : i \in 1..Current
      BY <1>4
    <3> QED BY <1>4, <1>5, <3>1
  <2> QED BY <1>2, <1>4, <2>1, <2>2, <2>3 DEF Exits
<1>9. Heard(Current) => Bare(out) = Before(Listings, Current)
  <2>1. SUFFICES ASSUME Heard(Current) PROVE Bare(out) = Before(Listings, Current)
    OBVIOUS
  <2>2. Heard(Len(verdicts)) /\ Intact(Current)
    <3>1. Current \in 1..Current /\ \A i \in 1..Len(verdicts) : i \in 1..Current
      BY <1>4
    <3> QED BY <2>1, <3>1 DEF Heard
  <2>3. Bare(out) = Before(Listings, Len(verdicts)) \o Listing(Program)
    BY <2>2 DEF Listed
  <2>4. /\ Listings \in Seq(Seq(Output)) /\ Len(Listings) = Len(files)
        /\ Listings[Current] = Listing(Program) /\ Len(files) \in Nat
    <3>1. Len(files) \in Nat /\ Program = programs[Current]
      BY <1>3 DEF Program, CommandLine
    <3> QED BY <1>3, <3>1, ListingsAre
  <2>5. Len(verdicts) \in 0..Len(Listings) - 1
    BY <1>4, <2>4
  <2>6. Before(Listings, Len(verdicts) + 1) = Before(Listings, Len(verdicts)) \o Listings[Len(verdicts) + 1]
    BY <2>4, <2>5, BeforeSteps
  <2> QED BY <1>4, <2>3, <2>4, <2>6
<1>10. CutListed /\ CutListed'
  <2>1. CutListed
    BY CutIs
  <2> QED BY <1>2, <2>1 DEF CutListed, CutOff, Intact
<1>11. Between'
  <2>1. (Heard(Len(verdicts)))' => Heard(Current)
    BY <1>2, <1>4 DEF Heard, Intact
  <2>2. Listings' = Listings
    BY <1>2 DEF Listings
  <2> QED BY <1>2, <1>4, <1>9, <1>10, <2>1, <2>2 DEF Between
<1>12. Reading'
  BY <1>2 DEF Reading
<1> QED BY <1>1, <1>7, <1>8, <1>11, <1>12 DEF BasicInv

\* A step within a file.
LEMMA ReadsKeeps ==
  ASSUME BasicInv, BasicTypes', UNCHANGED <<commandLine, verdicts, exitval>>, stage' \in Reads,
         Reading'
  PROVE  BasicInv'
<1>1. /\ files' = files /\ programs' = programs /\ dialect' = dialect
  BY DEF commandLine
<1>2. Answered'
  BY <1>1 DEF BasicInv, Answered, Answer, Intact, CutOff
<1>3. Exits'
  <2>1. stage' # "exit"
    BY DEF Reads
  <2> QED BY <2>1 DEF BasicInv, Exits
<1>4. Between'
  BY DEF Between
<1> QED BY <1>2, <1>3, <1>4 DEF BasicInv

\* A file that is none of both is answered anyhow.
LEMMA OtherFails ==
  ASSUME BasicInv, Current \in 1..Len(files), NEW v \in Verdict, Dealt(v),
         told' \in Nat \cup {Nowhere}, ~Good(Current)
  PROVE  BasicInv'
<1>1. ~Intact(Current) /\ ~CutOff(Current)
  BY DEF Good
<1> QED BY <1>1, DealtKeeps DEF Answer

\* A file that is cut off is refused.
LEMMA CutFails ==
  ASSUME BasicInv, Current \in 1..Len(files), NEW v \in Verdict, Dealt(v),
         told' \in Nat \cup {Nowhere}, ~Intact(Current), v # "ok",
         LeadingCR(dialect) => v = "premature end-of-file"
  PROVE  BasicInv'
  BY DealtKeeps DEF Answer

\* A step within a file goes on in it, or deals with it.
GoesOn == UNCHANGED <<commandLine, verdicts, exitval>> /\ stage' \in Reads
Deals(v) == Dealt(v) /\ told' \in Nat \cup {Nowhere}

\* Ending is dealing.
LEMMA EndsDeals == ASSUME BasicTypes, NEW v, Ends(v) PROVE Deals(v)
  BY DEF Ends, Deals, BasicTypes

\* Every step within a file does one of both, and behind the header no step succeeds with
\* the file.
LEMMA ReadsDoes ==
  ASSUME BasicTypes, stage \in Reads, BasicNext
  PROVE  \/ GoesOn /\ (stage # "line" => pos' = pos)
         \/ \E v \in Verdict : Deals(v) /\ (stage # "line" => v # "ok")
<1>0. stage # "open" /\ stage # "exit"
  BY DEF Reads
<1>1. CASE EndOfFile \/ NoCarriageReturn \/ BigEnd \/ BigCut \/ LittleEnd \/ LittleCut
  <2>1. stage = "line"
    BY <1>1 DEF EndOfFile, NoCarriageReturn, BigEnd, BigCut, LittleEnd, LittleCut, BigLine,
                LittleLine
  <2>2. PICK v \in Verdict : Ends(v)
    BY <1>1, EndingsEnd
  <2> QED BY <2>1, <2>2, EndsDeals
<1>2. CASE BigBody
  <2>1. stage = "line"
    BY <1>2 DEF BigBody, BigLine
  <2>2. CASE \E v \in Verdict : Ends(v)
    BY <2>1, <2>2, EndsDeals
  <2>3. CASE \E n, h, m, d : DecodeLine(n, h, m, d)
    BY <2>1, <2>3 DEF DecodeLine, GoesOn, Reads
  <2> QED BY <1>2, <2>2, <2>3, BigBodyDoes
<1>3. CASE LittleBody
  <2>1. stage = "line"
    BY <1>3 DEF LittleBody, LittleLine
  <2>2. CASE Ends("expected 0x0D at the end of the line")
    <3>1. \E v \in Verdict : Ends(v)
      BY <2>2, Verdicts, Zenon
    <3> QED BY <2>1, <3>1, EndsDeals
  <2>3. CASE \E n, h, m, d : DecodeLine(n, h, m, d)
    BY <2>1, <2>3 DEF DecodeLine, GoesOn, Reads
  <2>4. CASE UNCHANGED <<commandLine, verdicts, exitval, stage, line, told, out>>
    BY <2>1, <2>4 DEF GoesOn
  <2> QED BY <1>3, <2>2, <2>3, <2>4, LittleBodyDoes
<1>4. CASE Number
  BY <1>4 DEF Number, GoesOn, Reads
<1>5. CASE EndLine
  BY <1>5 DEF EndLine, GoesOn, Reads
<1>6. CASE Decoding
  <2>1. stage = "bytes"
    BY <1>6, DecodingDoes
  <2>2. CASE Fails
    <3>1. PICK v \in Failure : Deals(v)
      BY <2>2 DEF Fails, Deals
    <3>2. v \in Verdict /\ v # "ok"
      BY Verdicts
    <3> QED BY <3>1, <3>2
  <2>3. CASE Shows
    BY <2>1, <2>3 DEF Shows, Put, GoesOn, Reads
  <2> QED BY <1>6, <2>2, <2>3, DecodingDoes
<1> QED
  BY <1>0, <1>1, <1>2, <1>3, <1>4, <1>5, <1>6 DEF BasicNext, Decoding, Open, Exit

\* Within a file it stays the same file.
LEMMA FileStays ==
  ASSUME GoesOn
  PROVE  /\ Current' = Current /\ Program' = Program /\ Bytes' = Bytes /\ dialect' = dialect
         /\ Good(Current)' <=> Good(Current)
         /\ CutOff(Current)' <=> CutOff(Current)
         /\ Intact(Current)' <=> Intact(Current)
<1>1. verdicts' = verdicts /\ files' = files /\ programs' = programs /\ dialect' = dialect
  BY DEF GoesOn, commandLine
<1>2. Current' = Current /\ Program' = Program /\ Bytes' = Bytes
  BY <1>1 DEF Current, Program, Bytes
<1>3. CutOff(Current)' <=> CutOff(Current)
  BY <1>1, <1>2 DEF CutOff
<1>4. Intact(Current)' <=> Intact(Current)
  BY <1>1, <1>2 DEF Intact
<1>5. Good(Current)' <=> Good(Current)
  BY <1>3, <1>4 DEF Good
<1> QED BY <1>1, <1>2, <1>3, <1>4, <1>5

\* A step that goes on keeps the invariant if its place is right.
LEMMA GoesOnKeeps ==
  ASSUME BasicInv, BasicTypes', GoesOn, Reading' PROVE BasicInv'
  BY ReadsKeeps DEF GoesOn

\* Whatever is in a file that is neither whole nor cut off.
LEMMA OtherKeeps ==
  ASSUME BasicInv, BasicTypes', stage \in Reads, BasicNext, ~Good(Current) PROVE BasicInv'
<1>1. BasicTypes /\ Current \in 1..Len(files)
  BY CurrentTyped DEF BasicInv
<1>2. CASE GoesOn
  <2>1. Reading'
    BY <1>2, FileStays DEF Reading
  <2> QED BY <1>2, <2>1, GoesOnKeeps
<1>3. CASE \E v \in Verdict : Deals(v)
  <2>1. PICK v \in Verdict : Dealt(v) /\ told' \in Nat \cup {Nowhere}
    BY <1>3 DEF Deals
  <2> QED BY <1>1, <2>1, OtherFails
<1> QED BY <1>1, <1>2, <1>3, ReadsDoes

\* A file that was cut off is not intact.
LEMMA CutNotIntact == ASSUME NEW i, CutOff(i) PROVE ~Intact(i) /\ Good(i)
  BY DEF CutOff, Intact, IsStrictPrefix, Good

\* In a last line with the end of another nothing more is claimed: no step makes it a success.
LEMMA OverranKeeps ==
  ASSUME BasicInv, BasicTypes', stage \in {"number", "bytes"}, BasicNext, Overran PROVE BasicInv'
<1>1. BasicTypes /\ stage \in Reads /\ stage # "line"
  BY DEF BasicInv, Reads
<1>2. Current \in 1..Len(files)
  BY <1>1, CurrentTyped
<1>3. CASE GoesOn /\ pos' = pos
  <2>1. Overran'
    BY <1>3, FileStays DEF Overran
  <2>2. Reading'
    BY <2>1 DEF Reading
  <2> QED BY <1>3, <2>2, GoesOnKeeps
<1>4. CASE \E v \in Verdict : Deals(v) /\ v # "ok"
  <2>1. PICK v \in Verdict : Dealt(v) /\ told' \in Nat \cup {Nowhere} /\ v # "ok"
    BY <1>4 DEF Deals
  <2>2. ~LeadingCR(dialect) /\ ~Intact(Current)
    BY CutNotIntact DEF Overran
  <2> QED BY <1>2, <2>1, <2>2, CutFails
<1> QED BY <1>1, <1>3, <1>4, ReadsDoes
-----------------------------------------------------------------------------
(* Steps between two lines: what is next in the file.                      *)

\* What the invariant says of a file that is read.
LEMMA InvFacts ==
  ASSUME BasicInv, stage \in Reads
  PROVE  /\ BasicTypes /\ CommandLine /\ Current \in 1..Len(files) /\ pos \in Nat
         /\ pos \in 0..Len(Bytes) /\ Left \in Nat /\ pos + Left = Len(Bytes) /\ Len(Bytes) \in Nat
         /\ dialect \in Dialect
<1>1. BasicTypes
  BY DEF BasicInv
<1>2. Left \in Nat /\ pos + Left = Len(Bytes) /\ Len(Bytes) \in Nat
  BY <1>1, LeftTyped
<1>3. /\ CommandLine /\ Current \in 1..Len(files) /\ pos \in Nat /\ pos \in 0..Len(Bytes)
      /\ dialect \in Dialect
  BY <1>1 DEF BasicTypes, CommandLine
<1> QED BY <1>1, <1>2, <1>3

\* When there is more to read, it is the next line or the mark of the end.
LEMMA AtSomeLine ==
  ASSUME BasicInv, stage = "line", Good(Current), Left > 0
  PROVE  \E j \in 0..Len(Program) : AtLine(j)
<1>1. stage \in Reads
  BY DEF Reads
<1>2. Left \in Nat /\ pos + Left = Len(Bytes) /\ pos \in Nat
  BY <1>1, InvFacts
<1>3. ~Overran
  BY <1>2 DEF Overran
<1> QED BY <1>1, <1>3 DEF BasicInv, Reading

\* The line is read, whole, into the buffer.
LEMMA LineTaken ==
  ASSUME BasicInv, BasicTypes', stage = "line", Good(Current), NEW j \in 0..Len(Program) - 1,
         AtLine(j), NEW l, l = Program[j + 1], NEW h \in {3, 4}, NEW m \in Nat, m <= 252, h + m <= Left,
         DecodeLine(l.number, h, m, Len(Data(l))), pos + h + m = Place(dialect, Program, j + 1),
         Len(Data(l)) <= m, \A k \in 1..Len(Data(l)) : Ahead(h + k) = Data(l)[k]
  PROVE  BasicInv'
<1>1. stage \in Reads
  BY DEF Reads
<1>2. BasicTypes /\ CommandLine /\ Current \in 1..Len(files)
  BY <1>1, InvFacts
<1>3. GoesOn
  BY DEF DecodeLine, GoesOn, Reads
<1>4. /\ Current' = Current /\ Program' = Program /\ dialect' = dialect
      /\ Good(Current)' <=> Good(Current)
  BY <1>3, FileStays
<1>5. Savable(dialect, Program) /\ dialect \in Dialect
  BY <1>2, ProgramSavable DEF Program, CommandLine
<1>6. l \in Line /\ Tokenised(dialect, l.items)
  <2>1. Program \in Seq(Line) /\ \A n \in 1..Len(Program) : Tokenised(dialect, Program[n].items)
    BY <1>5 DEF Savable
  <2>2. j + 1 \in 1..Len(Program)
    BY <2>1
  <2> QED BY <2>1, <2>2
<1>7. Len(Data(l)) \in Nat
  BY <1>5, <1>6, DataIs
<1>8. LineIn(l)'
  <2>1. /\ buf' = Filled(h, m) /\ len' = Len(Data(l))
    BY DEF DecodeLine
  <2>2. \A k \in 1..m : At(Filled(h, m), k) = Ahead(h + k)
    BY <1>1, <1>2, FilledTyped
  <2>3. \A k \in 1..Len(Data(l)) : At(Filled(h, m), k) = Data(l)[k]
    BY <1>7, <2>2
  <2> QED BY <2>1, <2>3 DEF LineIn
<1>9. Through(l, 0)'
  <2>1. p' = 0 /\ in_string' = FALSE
    BY DEF DecodeLine
  <2>2. Before(ItemSeqs(l), 0) = <<>>
    BY <1>5, <1>6, DataIs, BeforeSteps
  <2>3. Quotes(l.items, 0) = 0
    <3>1. 0 \in Nat
      OBVIOUS
    <3> QED BY <3>1, QuotesStep
  <2>4. p' = Len(Before(ItemSeqs(l), 0)) /\ in_string' = (Quotes(l.items, 0) % 2 = 1)
    <3>1. ~(Quotes(l.items, 0) % 2 = 1)
      BY <2>3
    <3>2. Len(<<>>) = 0
      OBVIOUS
    <3>3. p' = Len(Before(ItemSeqs(l), 0))
      BY <2>1, <2>2, <3>2, Zenon
    <3> QED BY <2>1, <3>1, <3>3, Zenon
  <2> QED BY <2>4 DEF Through
<1>10. pos' = Place(dialect, Program, j + 1) /\ number' = l.number /\ stage' = "number" /\ out' = out
  BY DEF DecodeLine
<1>11. (Listed(Before(Texts(Program), j)))'
  <2>1. PICK t : t = Before(Texts(Program), j)
    OBVIOUS
  <2>2. Listed(t)'
    BY <1>3, <1>10, <2>1, ListedStays DEF AtLine, GoesOn
  <2> QED BY <1>4, <2>1, <2>2
<1>12. AtNumber(j)'
  BY <1>4, <1>8, <1>9, <1>10, <1>11 DEF AtNumber, InLine
<1>13. Reading'
  BY <1>4, <1>10, <1>12 DEF Reading
<1> QED BY <1>3, <1>13, GoesOnKeeps

\* Behind the last line everything is listed.
LEMMA AllListed ==
  ASSUME BasicInv, stage \in Reads, AtLine(Len(Program)) PROVE Listed(Listing(Program))
<1>1. CommandLine /\ Current \in 1..Len(files)
  BY InvFacts
<1>2. Program \in Seq(Line)
  BY <1>1 DEF CommandLine, Program
<1>3. Before(Texts(Program), Len(Program)) = Listing(Program)
  <2>1. /\ Texts(Program) \in Seq(Seq(Output)) /\ Len(Texts(Program)) = Len(Program)
        /\ Listing(Program) = FlattenSeq(Texts(Program))
    BY <1>2, TextsAre
  <2>2. Before(Texts(Program), Len(Texts(Program))) = FlattenSeq(Texts(Program))
    BY <2>1, BeforeSteps
  <2> QED BY <2>1, <2>2
<1> QED BY <1>3 DEF AtLine

\* An intact file ends well only behind its last line.
LEMMA GoodEnds ==
  ASSUME BasicInv, stage \in Reads, NEW v \in Verdict, Ends(v), Answer(Current, v),
         Intact(Current) => AtLine(Len(Program))
  PROVE  BasicInv'
<1>1. BasicTypes /\ Current \in 1..Len(files)
  BY InvFacts
<1>2. Dealt(v) /\ told' \in Nat \cup {Nowhere}
  BY <1>1, EndsDeals DEF Deals
<1>3. Intact(Current) => Listed(Listing(Program))
  BY AllListed
<1> QED BY <1>1, <1>2, <1>3, DealtKeeps

\* A file that was cut off ends with a failure.
LEMMA CutEnds ==
  ASSUME BasicInv, stage \in Reads, NEW v \in Failure, Ends(v), ~Intact(Current),
         LeadingCR(dialect) => v = "premature end-of-file"
  PROVE  BasicInv'
<1>1. BasicTypes /\ Current \in 1..Len(files)
  BY InvFacts
<1>2. Dealt(v) /\ told' \in Nat \cup {Nowhere} /\ v # "ok" /\ v \in Verdict
  BY <1>1, EndsDeals, Verdicts DEF Deals
<1> QED BY <1>1, <1>2, CutFails

\* The end of the file, where it may be and elsewhere.
LEMMA EndOfFileKeeps ==
  ASSUME BasicInv, EndOfFile, Good(Current) PROVE BasicInv'
<1>1. stage \in Reads /\ stage = "line" /\ Left = 0
  BY DEF EndOfFile, Reads
<1>2. /\ BasicTypes /\ CommandLine /\ Current \in 1..Len(files) /\ pos \in Nat
      /\ pos \in 0..Len(Bytes) /\ Len(Bytes) = pos
  BY <1>1, InvFacts
<1>3. CutOff(Current)
  <2>1. SUFFICES ASSUME Intact(Current) PROVE FALSE
    BY DEF Good
  <2>2. ~Overran
    BY <2>1, CutNotIntact DEF Overran
  <2>3. PICK j \in 0..Len(Program) : AtLine(j)
    BY <1>1, <2>2 DEF BasicInv, Reading
  <2>4. Len(Program) \in Nat /\ dialect \in Dialect
    BY <1>2 DEF CommandLine, Program
  <2>5. CASE j \in 0..Len(Program) - 1
    <3>1. Left >= Len(SavedLine(dialect, Program[j + 1])) + 2
          /\ Len(SavedLine(dialect, Program[j + 1])) \in Nat
      BY <1>2, <2>1, <2>3, <2>5, ReadsLine DEF AtLine
    <3> QED BY <1>1, <3>1
  <2>6. CASE j = Len(Program)
    <3>1. PICK e : e = EndOf(dialect)
      OBVIOUS
    <3>2. Left = Len(e)
      BY <1>2, <2>1, <2>3, <2>6, <3>1, ReadsEnd DEF AtLine
    <3>3. Len(e) \in {2, 3}
      <4>1. Savable(dialect, Program)
        BY <1>2, ProgramSavable DEF Program
      <4> QED BY <2>4, <3>1, <4>1, SavedParts
    <3> QED BY <1>1, <3>2, <3>3
  <2> QED BY <2>4, <2>5, <2>6
<1>4. Len(Bytes) > 0 /\ ~Intact(Current)
  <2>1. PICK b : b = files[Current].bytes
    OBVIOUS
  <2>2. PICK s : s = Saved(dialect, programs[Current])
    OBVIOUS
  <2>3. Len(b) > 0 /\ ~Intact(Current)
    BY <1>2, <1>3, <2>1, <2>2, GoodFile
  <2> QED BY <2>1, <2>3 DEF Bytes, Current
<1>5. pos # 0
  BY <1>2, <1>4
<1>6. Ends("premature end-of-file")
  BY <1>5 DEF EndOfFile
<1> QED BY <1>1, <1>4, <1>6, CutEnds, Verdicts, Zenon

\* A number's bytes make the number.
LEMMA NumberParts ==
  ASSUME NEW n \in Short
  PROVE  n \div 256 \in Nat /\ n % 256 \in Nat /\ 256 * (n \div 256) + (n % 256) = n
<1>1. n \in Nat
  BY ShortNat
<1> QED BY <1>1

\* A line that begins with its carriage return.
LEMMA BigKeeps ==
  ASSUME BasicInv, BasicTypes', Good(Current),
         NoCarriageReturn \/ BigEnd \/ BigCut \/ BigBody
  PROVE  BasicInv'
<1>1. stage = "line" /\ stage \in Reads /\ LeadingCR(dialect) /\ Left > 0
  BY DEF NoCarriageReturn, BigEnd, BigCut, BigBody, BigLine, Reads
<1>2. /\ BasicTypes /\ CommandLine /\ Current \in 1..Len(files) /\ pos \in Nat
      /\ pos \in 0..Len(Bytes) /\ Left \in Nat /\ dialect \in Dialect
  BY <1>1, InvFacts
<1>3. PICK j \in 0..Len(Program) : AtLine(j)
  BY <1>1, AtSomeLine
<1>4. Len(Program) \in Nat /\ Savable(dialect, Program)
  BY <1>2, ProgramSavable DEF CommandLine, Program
<1>5. CASE j \in 0..Len(Program) - 1
  <2>0. PICK l : l = Program[j + 1]
    OBVIOUS
  <2>1. PICK s : s = SavedLine(dialect, l)
    OBVIOUS
  <2>2. /\ l \in Line /\ Tokenised(dialect, l.items)
        /\ Len(s) \in Nat /\ \A k \in 1..Len(s) : k <= Left => Ahead(k) = s[k]
        /\ Place(dialect, Program, j + 1) = pos + Len(s) /\ j + 1 \in 1..Len(Program)
        /\ Intact(Current) => Left >= Len(s) + 2
    BY <1>2, <1>3, <1>5, <2>0, <2>1, ReadsLine DEF AtLine
  <2>3. /\ Len(s) = 4 + Len(Data(l))
        /\ s[1] = CR /\ s[2] = l.number \div 256 /\ s[3] = l.number % 256
        /\ s[4] = Len(Data(l)) + 4
        /\ DataAt(s, 4, l)
    <3>1. l \in Line /\ Tokenised(dialect, l.items) /\ LeadingCR(dialect) /\ dialect \in Dialect
      BY <1>1, <1>2, <2>2
    <3>2. /\ s \in Seq(Nat) /\ Len(s) = 4 + Len(Data(l)) /\ s[1] = CR
      BY <2>1, <3>1, BigLineIs
    <3>3. s[4] = Len(Data(l)) + 4
      BY <2>1, <3>1, BigLineIs
    <3>4. s[2] = l.number \div 256
      BY <2>1, <3>1, BigLineIs
    <3>6. s[3] = l.number % 256
      BY <2>1, <3>1, BigLineIs
    <3>5. DataAt(s, 4, l)
      BY <2>1, <3>1, BigLineIs
    <3> QED BY <3>2, <3>3, <3>4, <3>5, <3>6
  <2>4. PICK m \in Nat : m = Len(Data(l)) /\ m <= 251
    BY <1>2, <2>2, DataIs
  <2>5. 1 \in 1..Len(s) /\ 2 \in 1..Len(s) /\ 3 \in 1..Len(s) /\ 4 \in 1..Len(s) /\ Len(s) = m + 4
    BY <2>3, <2>4
  <2>6. /\ Ahead(1) = CR /\ (2 <= Left => Ahead(2) = l.number \div 256)
        /\ (3 <= Left => Ahead(3) = l.number % 256) /\ (4 <= Left => Ahead(4) = m + 4)
    BY <1>1, <1>2, <2>2, <2>3, <2>4, <2>5
  <2>7. Intact(Current) => Left >= m + 6
    BY <2>2, <2>5
  <2>12. ~(m < 0) /\ \A x \in {1, 2, 3} : ~(x >= m + 6)
    BY <2>4
  <2>8. ~NoCarriageReturn
    BY <2>6 DEF NoCarriageReturn
  <2>9. ~BigEnd
    <3>1. SUFFICES ASSUME BigEnd PROVE FALSE
      OBVIOUS
    <3>2. Left = 2 /\ Ahead(2) = 255
      BY <3>1 DEF BigEnd
    <3>3. ~Intact(Current)
      BY <2>4, <2>7, <3>2
    <3>4. CutOff(Current)
      BY <3>3 DEF Good
    <3>5. \A i \in 1..Len(programs[Current]) : programs[Current][i].number \div 256 # 255
      <4>1. PICK b : b = files[Current].bytes
        OBVIOUS
      <4>2. PICK z : z = Saved(dialect, programs[Current])
        OBVIOUS
      <4> QED BY <1>2, <3>4, <4>1, <4>2, GoodFile DEF Good
    <3>6. l.number \div 256 # 255
      BY <2>0, <2>2, <3>5 DEF Program
    <3> QED BY <2>6, <3>2, <3>6
  <2>10. CASE BigCut
    <3>1. Ends("premature end-of-file") /\ Left \in {1, 2, 3}
      BY <2>10 DEF BigCut
    <3>2. ~Intact(Current)
      BY <2>7, <2>12, <3>1, Zenon
    <3> QED BY <1>1, <3>1, <3>2, CutEnds, Verdicts, Zenon
  <2>11. CASE BigBody
    <3>1. Left >= 4 /\ Ahead(4) = m + 4 /\ Ahead(4) - 4 = m
      <4>1. Left >= 4
        BY <2>11 DEF BigBody
      <4> QED BY <1>2, <2>4, <2>6, <4>1
    <3>2. \/ m < 0 /\ Ends("impossibly short")
          \/ m > Left - 4 /\ Ends("premature end-of-file")
          \/ m \in 0..Left - 4 /\ DecodeLine(BigNumber, 4, m, m)
      BY <2>11, <3>1 DEF BigBody
    <3>3. CASE m > Left - 4 /\ Ends("premature end-of-file")
      <4>1. ~(Left >= m + 6)
        <5>1. m > Left - 4
          BY <3>3, Zenon
        <5> QED BY <1>2, <5>1
      <4>2. ~Intact(Current)
        BY <2>7, <4>1, Zenon
      <4> QED BY <1>1, <3>3, <4>2, CutEnds, Verdicts, Zenon
    <3>4. CASE m \in 0..Left - 4 /\ DecodeLine(BigNumber, 4, m, m)
      <4>1. BigNumber = l.number
        <5>1. l.number \in Short
          BY <2>2, NumbersAssumption DEF Line
        <5>2. Ahead(2) = l.number \div 256 /\ Ahead(3) = l.number % 256
          BY <1>2, <2>6, <3>1
        <5> QED BY <5>1, <5>2, NumberParts DEF BigNumber
      <4>2. DecodeLine(l.number, 4, m, Len(Data(l)))
        BY <2>4, <3>4, <4>1
      <4>3. /\ pos + 4 + m = Place(dialect, Program, j + 1) /\ 4 + m <= Left /\ m <= 252
            /\ Len(Data(l)) <= m
        BY <1>2, <2>2, <2>4, <2>5, <3>4
      <4>4. ASSUME NEW k \in 1..Len(Data(l)) PROVE Ahead(4 + k) = Data(l)[k]
        <5>1. 4 + k \in 1..Len(s) /\ 4 + k <= Left
          BY <1>2, <2>4, <2>5, <4>3
        <5> QED BY <2>2, <2>3, <5>1 DEF DataAt
      <4> QED BY <1>1, <1>3, <1>5, <2>0, <4>2, <4>3, <4>4, LineTaken
    <3> QED BY <2>12, <3>2, <3>3, <3>4, Zenon
  <2> QED BY <2>8, <2>9, <2>10, <2>11
<1>6. CASE j = Len(Program)
  <2>1. PICK e : e = EndOf(dialect)
    OBVIOUS
  <2>2. /\ Left <= Len(e) /\ \A k \in 1..Left : Ahead(k) = e[k]
        /\ Intact(Current) => Left = Len(e)
        /\ CutOff(Current) => Left < Len(e)
    BY <1>2, <1>3, <1>6, <2>1, ReadsEnd DEF AtLine
  <2>3. Len(e) = 2 /\ e[1] = CR /\ e[2] = 255
    BY <1>1, <2>1 DEF EndOf
  <2>4. Left \in {1, 2} /\ Ahead(1) = CR /\ (Left = 2 => Ahead(2) = 255)
    <3>1. Left \in {1, 2} /\ 1 \in 1..Left /\ (Left = 2 => 2 \in 1..Left)
      BY <1>1, <1>2, <2>2, <2>3
    <3> QED BY <2>2, <2>3, <3>1
  <2>5. ~NoCarriageReturn /\ ~BigBody
    <3>1. ~(Left >= 4)
      BY <2>4
    <3> QED BY <2>4, <3>1, Zenon DEF NoCarriageReturn, BigBody
  <2>6. CASE BigEnd
    <3>1. Ends("ok") /\ Left = 2
      BY <2>6 DEF BigEnd
    <3>2. ~CutOff(Current)
      BY <2>2, <2>3, <3>1
    <3>3. Answer(Current, "ok")
      BY <3>2 DEF Answer
    <3>4. AtLine(Len(Program))
      BY <1>3, <1>6
    <3> QED BY <1>1, <3>1, <3>3, <3>4, GoodEnds, Verdicts, Zenon
  <2>7. CASE BigCut
    <3>1. Ends("premature end-of-file")
      BY <2>7, Zenon DEF BigCut
    <3>2. Left # 2
      <4>1. Left \in {1, 3} \/ (Left = 2 /\ Ahead(2) # 255)
        BY <2>7, Zenon DEF BigCut
      <4>2. CASE Left \in {1, 3}
        BY <4>2
      <4>3. CASE Left = 2 /\ Ahead(2) # 255
        BY <2>4, <4>3, Zenon
      <4> QED BY <4>1, <4>2, <4>3
    <3>3. ~Intact(Current)
      BY <2>2, <2>3, <3>2
    <3> QED BY <1>1, <3>1, <3>3, CutEnds, Verdicts, Zenon
  <2> QED BY <2>5, <2>6, <2>7
<1>7. j \in 0..Len(Program) - 1 \/ j = Len(Program)
  BY <1>4
<1> QED BY <1>5, <1>6, <1>7

\* A line that begins with its length.
LEMMA LittleKeeps ==
  ASSUME BasicInv, BasicTypes', Good(Current), LittleEnd \/ LittleCut \/ LittleBody
  PROVE  BasicInv'
<1>1. stage = "line" /\ stage \in Reads /\ ~LeadingCR(dialect) /\ Left > 0
  BY DEF LittleEnd, LittleCut, LittleBody, LittleLine, Reads
<1>2. /\ BasicTypes /\ CommandLine /\ Current \in 1..Len(files) /\ pos \in Nat
      /\ pos \in 0..Len(Bytes) /\ Left \in Nat /\ dialect \in Dialect /\ pos + Left = Len(Bytes)
  BY <1>1, InvFacts
<1>3. PICK j \in 0..Len(Program) : AtLine(j)
  BY <1>1, AtSomeLine
<1>4. Len(Program) \in Nat /\ Savable(dialect, Program)
  BY <1>2, ProgramSavable DEF CommandLine, Program
<1>5. CASE j \in 0..Len(Program) - 1
  <2>0. PICK l : l = Program[j + 1]
    OBVIOUS
  <2>1. PICK s : s = SavedLine(dialect, l)
    OBVIOUS
  <2>2. /\ l \in Line /\ Tokenised(dialect, l.items)
        /\ Len(s) \in Nat /\ \A k \in 1..Len(s) : k <= Left => Ahead(k) = s[k]
        /\ Place(dialect, Program, j + 1) = pos + Len(s) /\ j + 1 \in 1..Len(Program)
        /\ Intact(Current) => Left >= Len(s) + 2
    BY <1>2, <1>3, <1>5, <2>0, <2>1, ReadsLine DEF AtLine
  <2>3. /\ Len(s) = 4 + Len(Data(l))
        /\ s[1] = Len(Data(l)) + 4 /\ s[2] = l.number % 256 /\ s[3] = l.number \div 256
        /\ s[4 + Len(Data(l))] = CR /\ DataAt(s, 3, l)
    <3>1. l \in Line /\ Tokenised(dialect, l.items) /\ ~LeadingCR(dialect) /\ dialect \in Dialect
      BY <1>1, <1>2, <2>2
    <3>2. Len(s) = 4 + Len(Data(l)) /\ s[1] = Len(Data(l)) + 4
      BY <2>1, <3>1, LittleLineIs
    <3>3. s[2] = l.number % 256
      BY <2>1, <3>1, LittleLineIs
    <3>4. s[3] = l.number \div 256
      BY <2>1, <3>1, LittleLineIs
    <3>5. s[4 + Len(Data(l))] = CR
      BY <2>1, <3>1, LittleLineIs
    <3>6. DataAt(s, 3, l)
      BY <2>1, <3>1, LittleLineIs
    <3> QED BY <3>2, <3>3, <3>4, <3>5, <3>6
  <2>4. PICK m \in Nat : m = Len(Data(l)) /\ m <= 251
    BY <1>2, <2>2, DataIs
  <2>5. 1 \in 1..Len(s) /\ 2 \in 1..Len(s) /\ 3 \in 1..Len(s) /\ 4 + m \in 1..Len(s) /\ Len(s) = m + 4
    BY <2>3, <2>4
  <2>6. /\ Ahead(1) = m + 4 /\ (2 <= Left => Ahead(2) = l.number % 256)
        /\ (3 <= Left => Ahead(3) = l.number \div 256) /\ (4 + m <= Left => Ahead(4 + m) = CR)
    BY <1>1, <1>2, <2>2, <2>3, <2>4, <2>5
  <2>7. Intact(Current) => Left >= m + 6
    BY <2>2, <2>5
  <2>8. ~LittleEnd
    <3>1. Ahead(1) # 0
      BY <2>4, <2>6
    <3> QED BY <3>1 DEF LittleEnd
  <2>9. CASE LittleCut
    <3>1. ~(Ahead(1) < 3)
      BY <2>4, <2>6
    <3>2. Ends("premature end-of-file") /\ Left < 3
      BY <2>9, <3>1, Zenon DEF LittleCut
    <3>3. ~(Left >= m + 6)
      <4>1. Left < 3
        BY <3>2, Zenon
      <4> QED BY <1>2, <2>4, <4>1
    <3>4. ~Intact(Current)
      BY <2>7, <3>3, Zenon
    <3> QED BY <1>1, <3>2, <3>4, CutEnds, Verdicts, Zenon
  <2>10. CASE LittleBody
    <3>0. Left >= 3
      BY <2>10 DEF LittleBody
    <3>1. PICK n \in Nat : n = m + 1 /\ n = Ahead(1) - 3 /\ n > 0 /\ n - 1 = m /\ n <= 252
      BY <2>4, <2>6
    <3>2. 256 * Ahead(3) + Ahead(2) = l.number
      <4>1. l.number \in Short
        BY <2>2, NumbersAssumption DEF Line
      <4>2. Ahead(2) = l.number % 256 /\ Ahead(3) = l.number \div 256
        BY <1>2, <2>6, <3>0
      <4> QED BY <4>1, <4>2, NumberParts
    <3>3. ASSUME NEW nread, nread = (IF n <= Left - 3 THEN n ELSE Left - 3)
          PROVE  /\ nread \in Nat /\ nread <= 252 /\ 3 + nread <= Left
                 /\ \/ At(Filled(3, nread), n) # CR /\ Ends("expected 0x0D at the end of the line")
                    \/ /\ At(Filled(3, nread), n) = CR
                       /\ DecodeLine(l.number, 3, nread, m)
      <4>1. ~(n = 0)
        BY <3>1
      <4> QED BY <1>2, <2>10, <3>1, <3>2, <3>3, <4>1, LittleBodyDoes
    <3>4. CASE n <= Left - 3
      <4>1. /\ \/ At(Filled(3, n), n) # CR /\ Ends("expected 0x0D at the end of the line")
               \/ At(Filled(3, n), n) = CR /\ DecodeLine(l.number, 3, n, m)
        BY <3>3, <3>4
      <4>2. 3 + n <= Left /\ 4 + m <= Left /\ 3 + n = 4 + m /\ n \in 1..n
        BY <1>2, <3>1, <3>4
      <4>3. At(Filled(3, n), n) = CR
        <5>1. At(Filled(3, n), n) = Ahead(3 + n)
          BY <1>1, <1>2, <3>1, <4>2, FilledTyped
        <5> QED BY <2>6, <4>2, <5>1
      <4>4. DecodeLine(l.number, 3, n, Len(Data(l)))
        BY <2>4, <4>1, <4>3
      <4>5. pos + 3 + n = Place(dialect, Program, j + 1) /\ Len(Data(l)) <= n
        BY <1>2, <2>2, <2>4, <2>5, <3>1
      <4>6. ASSUME NEW k \in 1..Len(Data(l)) PROVE Ahead(3 + k) = Data(l)[k]
        <5>1. 3 + k \in 1..Len(s) /\ 3 + k <= Left
          BY <1>2, <2>4, <2>5, <4>2
        <5> QED BY <2>2, <2>3, <5>1 DEF DataAt
      <4> QED BY <1>1, <1>3, <1>5, <2>0, <3>1, <4>2, <4>4, <4>5, <4>6, LineTaken
    <3>5. CASE ~(n <= Left - 3)
      <4>1. PICK r : r = Left - 3
        OBVIOUS
      <4>2. /\ \/ Ends("expected 0x0D at the end of the line")
               \/ DecodeLine(l.number, 3, r, m)
        BY <3>3, <3>5, <4>1
      <4>3. ~(Left >= m + 6)
        BY <1>2, <2>4, <3>1, <3>5
      <4>4. ~Intact(Current) /\ CutOff(Current)
        BY <2>7, <4>3 DEF Good
      <4>5. CASE Ends("expected 0x0D at the end of the line")
        BY <1>1, <4>4, <4>5, CutEnds, Verdicts, Zenon
      <4>6. CASE DecodeLine(l.number, 3, r, m)
        <5>1. GoesOn /\ pos' = pos + 3 + r
          BY <4>6 DEF DecodeLine, GoesOn, Reads
        <5>2. pos' = Len(Bytes) /\ pos' > 0
          BY <1>2, <3>0, <4>1, <5>1
        <5>3. Overran'
          BY <1>1, <4>4, <5>1, <5>2, FileStays DEF Overran
        <5>4. Reading'
          BY <5>3 DEF Reading
        <5> QED BY <5>1, <5>4, GoesOnKeeps
      <4> QED BY <4>2, <4>5, <4>6
    <3> QED BY <3>4, <3>5
  <2> QED BY <2>8, <2>9, <2>10
<1>6. CASE j = Len(Program)
  <2>1. PICK e : e = EndOf(dialect)
    OBVIOUS
  <2>2. /\ Left <= Len(e) /\ \A k \in 1..Left : Ahead(k) = e[k]
        /\ Intact(Current) => Left = Len(e)
        /\ CutOff(Current) => Left < Len(e)
    BY <1>2, <1>3, <1>6, <2>1, ReadsEnd DEF AtLine
  <2>3. Len(e) = 3 /\ e[1] = 0 /\ e[2] = 255 /\ e[3] = 255
    BY <1>1, <2>1 DEF EndOf
  <2>4. Left \in {1, 2, 3} /\ Ahead(1) = 0 /\ \A k \in 2..Left : Ahead(k) = 255
    <3>1. Left \in {1, 2, 3} /\ 1 \in 1..Left
      BY <1>1, <1>2, <2>2, <2>3
    <3>2. ASSUME NEW k \in 2..Left PROVE Ahead(k) = 255
      <4>1. k \in 1..Left /\ (k = 2 \/ k = 3)
        BY <3>1
      <4> QED BY <2>2, <2>3, <4>1
    <3> QED BY <2>2, <2>3, <3>1, <3>2
  <2>5. ~LittleCut /\ ~LittleBody
    <3>1. ~(Ahead(1) >= 3)
      BY <2>4
    <3> QED BY <2>4, <3>1, Zenon DEF LittleCut, LittleBody
  <2>6. CASE LittleEnd
    <3>1. Min({3, Left}) = Left
      <4>1. Left \in Int /\ 3 \in Int /\ (3 <= Left => Left = 3)
        BY <2>4
      <4> QED BY <4>1, MinIs
    <3>2. Ends(IF Left < 3 THEN "premature end-of-file" ELSE "ok")
      <4>1. ~\E k \in 2..Min({3, Left}) : Ahead(k) # 255
        BY <2>4, <3>1
      <4> QED BY <2>6, <4>1, Zenon DEF LittleEnd
    <3>3. CASE Left < 3
      <4>1. Ends("premature end-of-file")
        BY <3>2, <3>3, Zenon
      <4>2. ~Intact(Current)
        BY <2>2, <2>3, <3>3
      <4> QED BY <1>1, <4>1, <4>2, CutEnds, Verdicts, Zenon
    <3>4. CASE ~(Left < 3)
      <4>1. Ends("ok")
        BY <3>2, <3>4, Zenon
      <4>2. ~CutOff(Current)
        BY <2>2, <2>3, <3>4
      <4>3. Answer(Current, "ok")
        BY <4>2 DEF Answer
      <4>4. AtLine(Len(Program))
        BY <1>3, <1>6
      <4> QED BY <1>1, <4>1, <4>3, <4>4, GoodEnds, Verdicts, Zenon
    <3> QED BY <3>3, <3>4
  <2> QED BY <2>5, <2>6
<1>7. j \in 0..Len(Program) - 1 \/ j = Len(Program)
  BY <1>4
<1> QED BY <1>5, <1>6, <1>7
-----------------------------------------------------------------------------
(* Steps within a line.                                                    *)

\* The line that is decoded, and what comes before it.
LEMMA InLineFacts ==
  ASSUME BasicInv, stage \in Reads, NEW j \in 0..Len(Program) - 1, NEW l, l = Program[j + 1]
  PROVE  /\ l \in Line /\ Tokenised(dialect, l.items) /\ Len(l.items) \in Nat /\ l.number \in Nat
         /\ ListingOf(l) \in Seq(Output) /\ Len(ListingOf(l)) = Len(l.items) + 2
         /\ Before(Texts(Program), j) \in Seq(Output) /\ j + 1 \in 0..Len(Program)
         /\ Before(Texts(Program), j + 1) = Before(Texts(Program), j) \o ListingOf(l)
<1>1. CommandLine /\ Current \in 1..Len(files) /\ dialect \in Dialect
  BY InvFacts
<1>2. Savable(dialect, Program)
  BY <1>1, ProgramSavable DEF Program
<1>3. Program \in Seq(Line) /\ Len(Program) \in Nat /\ j + 1 \in 1..Len(Program)
  BY <1>2 DEF Savable
<1>4. l \in Line /\ Tokenised(dialect, l.items)
  BY <1>2, <1>3 DEF Savable
<1>5. Len(l.items) \in Nat /\ l.number \in Numbers
  BY <1>4 DEF Line
<1>6. l.number \in Nat
  BY <1>5, NumbersAssumption, ShortNat, Zenon
<1>7. /\ Texts(Program) \in Seq(Seq(Output)) /\ Len(Texts(Program)) = Len(Program)
      /\ Texts(Program)[j + 1] = ListingOf(l)
  BY <1>3, TextsAre
<1>8. /\ Before(Texts(Program), j) \in Seq(Output)
      /\ Before(Texts(Program), j + 1) = Before(Texts(Program), j) \o Texts(Program)[j + 1]
  <2>1. j \in 0..Len(Texts(Program)) /\ j \in 0..Len(Texts(Program)) - 1
    BY <1>3, <1>7
  <2> QED BY <1>7, <2>1, BeforeSteps
<1>9. ListingOf(l) \in Seq(Output) /\ Len(ListingOf(l)) = Len(l.items) + 2
  BY <1>4, ListingOfIs
<1> QED BY <1>3, <1>4, <1>5, <1>6, <1>7, <1>8, <1>9

\* One more item of a line is listed.
LEMMA ItemListed ==
  ASSUME BasicInv, stage \in Reads, NEW j \in 0..Len(Program) - 1, NEW l, l = Program[j + 1],
         NEW b, b = Before(Texts(Program), j), NEW k \in 0..Len(l.items) + 1,
         Listed(b \o SubSeq(ListingOf(l), 1, k)),
         NEW x \in Output, ListingOf(l)[k + 1] = Plain(x), out' = Append(out, x),
         UNCHANGED <<commandLine, verdicts>>
  PROVE  Listed(b \o SubSeq(ListingOf(l), 1, k + 1))'
<1>1. PICK t \in Seq(Output) : t = ListingOf(l) /\ Len(t) = Len(l.items) + 2 /\ Len(l.items) \in Nat
  BY InLineFacts
<1>2. b \in Seq(Output)
  BY InLineFacts
<1>3. k \in 0..Len(t) - 1
  BY <1>1
<1>4. PICK c \in Seq(Output) : c = b \o SubSeq(t, 1, k)
  BY <1>2, <1>3, PartListed
<1>5. PICK y \in Output : y = t[k + 1]
  BY <1>2, <1>3, PartListed
<1>6. Append(c, y) = b \o SubSeq(t, 1, k + 1)
  BY <1>2, <1>3, <1>4, <1>5, PartListed
<1>7. BasicTypes
  BY DEF BasicInv
<1>8. Listed(c)
  BY <1>1, <1>4
<1>9. y = Plain(x)
  BY <1>1, <1>5
<1>10. Listed(Append(c, y))'
  BY <1>7, <1>8, <1>9, ListedMore
<1> QED BY <1>1, <1>6, <1>10

\* The step that shows a line's number,
LEMMA NumberKeeps ==
  ASSUME BasicInv, BasicTypes', Good(Current), Number, ~Overran PROVE BasicInv'
<1>1. stage = "number" /\ stage \in Reads /\ stage' = "bytes" /\ stage' \in Reads
  BY DEF Number, Reads
<1>2. PICK j \in 0..Len(Program) - 1 : AtNumber(j)
  BY <1>1 DEF BasicInv, Reading
<1>3. GoesOn /\ UNCHANGED <<commandLine, verdicts, pos, buf, len, p, in_string>>
  BY <1>1 DEF Number, GoesOn
<1>4. /\ Current' = Current /\ Program' = Program /\ dialect' = dialect
  BY <1>3, FileStays
<1>5. PICK l : l = Program[j + 1]
  OBVIOUS
<1>6. PICK b : b = Before(Texts(Program), j)
  OBVIOUS
<1>7. /\ ListingOf(l) \in Seq(Output) /\ Len(l.items) \in Nat /\ b \in Seq(Output) /\ l \in Line
      /\ l.number \in Nat /\ 0 \in 0..Len(l.items) + 1 /\ 0 \in 0..Len(l.items)
  BY <1>1, <1>5, <1>6, InLineFacts
<1>8. Listed(b \o SubSeq(ListingOf(l), 1, 0))
  <2>1. b \o SubSeq(ListingOf(l), 1, 0) = b
    BY <1>7, PartsListed
  <2>2. Listed(b)
    BY <1>2, <1>6 DEF AtNumber
  <2> QED BY <2>1, <2>2
<1>9. PICK a \in Nat : out' = Append(out, Out("number", l.number, a))
  <2>1. number = l.number
    BY <1>2, <1>5 DEF AtNumber
  <2>2. Bit(listo, 1) + Max({indent', 0}) \in Nat
    <3>1. listo \in Nat /\ indent' \in Int
      BY DEF BasicInv, BasicTypes, CommandLine
    <3>2. Bit(listo, 1) \in Nat /\ Max({indent', 0}) \in Nat
      BY <3>1, BitTyped, MaxTyped
    <3> QED BY <3>2
  <2> QED BY <2>1, <2>2 DEF Number
<1>10. PICK x \in Output : x = Out("number", l.number, a) /\ Plain(x) = Out("number", l.number, 0)
  BY <1>7, OutTyped
<1>11. ListingOf(l)[0 + 1] = Plain(x)
  <2>1. ListingOf(l)[1] = Out("number", l.number, 0)
    BY <1>7, ListingOfIs
  <2> QED BY <1>10, <2>1
<1>12. Listed(b \o SubSeq(ListingOf(l), 1, 0 + 1))'
  BY <1>1, <1>3, <1>5, <1>6, <1>7, <1>8, <1>9, <1>10, <1>11, ItemListed
<1>13. InLine(j, 0)'
  <2>1. InLine(j, 0)
    BY <1>2 DEF AtNumber
  <2> QED BY <1>3, <1>4, <2>1 DEF InLine, LineIn, Through
<1>14. AtBytes(j, 0)'
  BY <1>4, <1>5, <1>6, <1>12, <1>13 DEF AtBytes
<1>15. Reading'
  <2>1. (0 \in 0..Len(Program[j + 1].items))' /\ (j \in 0..Len(Program) - 1)'
    BY <1>4, <1>5, <1>7
  <2> QED BY <1>1, <1>14, <2>1 DEF Reading
<1> QED BY <1>3, <1>15, GoesOnKeeps

\* those that show its items,
LEMMA DecodingKeeps ==
  ASSUME BasicInv, BasicTypes', Good(Current), Decoding, ~Overran PROVE BasicInv'
<1>0. BasicTypes
  BY DEF BasicInv
<1>1. stage = "bytes" /\ stage \in Reads /\ p < len
  BY <1>0, DecodingDoes DEF Reads
<1>2. PICK j \in 0..Len(Program) - 1 : \E k \in 0..Len(Program[j + 1].items) : AtBytes(j, k)
  BY <1>1 DEF BasicInv, Reading
<1>3. PICK l : l = Program[j + 1]
  OBVIOUS
<1>4. PICK k \in 0..Len(l.items) : AtBytes(j, k)
  BY <1>2, <1>3
<1>5. PICK b : b = Before(Texts(Program), j)
  OBVIOUS
<1>6. /\ l \in Line /\ Tokenised(dialect, l.items) /\ Len(l.items) \in Nat /\ dialect \in Dialect
  BY <1>1, <1>3, InLineFacts, InvFacts
<1>7. LineIn(l) /\ Through(l, k) /\ pos = Place(dialect, Program, j + 1)
  BY <1>3, <1>4 DEF AtBytes, InLine
<1>8. /\ k + 1 \in 0..Len(l.items) /\ Through(l, k + 1)' /\ out' = Append(out, l.items[k + 1])
      /\ UNCHANGED <<commandLine, verdicts, exitval, stage, pos, buf, indent, number, len, told>>
  BY <1>1, <1>6, <1>7, LineDecoded
<1>9. GoesOn
  BY <1>1, <1>8 DEF GoesOn
<1>10. /\ Current' = Current /\ Program' = Program /\ dialect' = dialect
  BY <1>9, FileStays
<1>11. l.items[k + 1] \in Output /\ Plain(l.items[k + 1]) = l.items[k + 1]
  <2>1. k + 1 \in 1..Len(l.items) /\ l.items \in Seq(Item)
    BY <1>6, <1>8 DEF Line
  <2>2. l.items[k + 1] \in Item
    BY <2>1
  <2> QED BY <2>2, ItemsShown
<1>12. ListingOf(l)[(k + 1) + 1] = l.items[k + 1]
  <2>1. k + 1 \in 1..Len(l.items)
    BY <1>6, <1>8
  <2> QED BY <1>6, <2>1, ListingOfIs
<1>13. PICK n \in 0..Len(l.items) + 1 : n = k + 1
  BY <1>6, <1>8
<1>14. Listed(b \o SubSeq(ListingOf(l), 1, n))
  BY <1>3, <1>4, <1>5, <1>13 DEF AtBytes
<1>15. Listed(b \o SubSeq(ListingOf(l), 1, n + 1))'
  <2>1. PICK x \in Output : x = l.items[k + 1] /\ ListingOf(l)[n + 1] = Plain(x)
    BY <1>11, <1>12, <1>13
  <2>2. out' = Append(out, x) /\ UNCHANGED <<commandLine, verdicts>>
    BY <1>8, <2>1
  <2> QED BY <1>1, <1>3, <1>5, <1>14, <2>1, <2>2, ItemListed
<1>16. InLine(j, n)'
  <2>1. LineIn(l)'
    BY <1>7, <1>8 DEF LineIn
  <2>2. Through(l, n)'
    BY <1>8, <1>13
  <2> QED BY <1>3, <1>7, <1>8, <1>10, <2>1, <2>2 DEF InLine
<1>17. AtBytes(j, n)'
  BY <1>3, <1>5, <1>10, <1>15, <1>16 DEF AtBytes
<1>18. Reading'
  <2>1. (n \in 0..Len(Program[j + 1].items))' /\ (j \in 0..Len(Program) - 1)'
    BY <1>3, <1>8, <1>10, <1>13
  <2> QED BY <1>1, <1>8, <1>17, <2>1 DEF Reading
<1> QED BY <1>9, <1>18, GoesOnKeeps

\* and the one that ends it.
LEMMA EndLineKeeps ==
  ASSUME BasicInv, BasicTypes', Good(Current), EndLine, ~Overran PROVE BasicInv'
<1>1. stage = "bytes" /\ stage \in Reads /\ p = len /\ stage' = "line" /\ stage' \in Reads
  BY DEF EndLine, Reads
<1>2. PICK j \in 0..Len(Program) - 1 : \E k \in 0..Len(Program[j + 1].items) : AtBytes(j, k)
  BY <1>1 DEF BasicInv, Reading
<1>3. PICK l : l = Program[j + 1]
  OBVIOUS
<1>4. PICK k \in 0..Len(l.items) : AtBytes(j, k)
  BY <1>2, <1>3
<1>5. PICK b : b = Before(Texts(Program), j)
  OBVIOUS
<1>6. /\ l \in Line /\ Tokenised(dialect, l.items) /\ Len(l.items) \in Nat /\ dialect \in Dialect
      /\ ListingOf(l) \in Seq(Output) /\ b \in Seq(Output) /\ Len(ListingOf(l)) = Len(l.items) + 2
      /\ Before(Texts(Program), j + 1) = b \o ListingOf(l) /\ j + 1 \in 0..Len(Program)
  BY <1>1, <1>3, <1>5, InLineFacts, InvFacts
<1>7. LineIn(l) /\ Through(l, k) /\ pos = Place(dialect, Program, j + 1)
  BY <1>3, <1>4 DEF AtBytes, InLine
<1>8. k = Len(l.items)
  BY <1>1, <1>6, <1>7, LineEnds
<1>9. GoesOn /\ UNCHANGED <<commandLine, verdicts, pos>>
  BY <1>1 DEF EndLine, GoesOn
<1>10. /\ Current' = Current /\ Program' = Program /\ dialect' = dialect
  BY <1>9, FileStays
<1>11. PICK n \in 0..Len(l.items) + 1 : n = k + 1 /\ n + 1 = Len(ListingOf(l))
  BY <1>6, <1>8
<1>12. Listed(b \o SubSeq(ListingOf(l), 1, n))
  BY <1>3, <1>4, <1>5, <1>11 DEF AtBytes
<1>13. Listed(b \o SubSeq(ListingOf(l), 1, n + 1))'
  <2>1. ListingOf(l)[Len(l.items) + 2] = Out("newline", 0, 0)
    BY <1>6, ListingOfIs
  <2>2. PICK x \in Output : x = Out("newline", 0, 0) /\ Plain(x) = Out("newline", 0, 0)
    BY OutTyped
  <2>3. ListingOf(l)[n + 1] = Plain(x)
    BY <1>6, <1>11, <2>1, <2>2
  <2>4. out' = Append(out, x)
    BY <2>2 DEF EndLine
  <2> QED BY <1>1, <1>3, <1>5, <1>9, <1>12, <2>3, <2>4, ItemListed
<1>14. b \o SubSeq(ListingOf(l), 1, n + 1) = Before(Texts(Program), j + 1)
  <2>1. b \o SubSeq(ListingOf(l), 1, Len(ListingOf(l))) = b \o ListingOf(l)
    BY <1>6, PartsListed
  <2> QED BY <1>6, <1>11, <2>1
<1>15. AtLine(j + 1)'
  <2>1. (Listed(Before(Texts(Program), j + 1)))'
    BY <1>10, <1>13, <1>14
  <2> QED BY <1>7, <1>9, <1>10, <2>1 DEF AtLine
<1>16. Reading'
  <2>1. (j + 1 \in 0..Len(Program))'
    BY <1>6, <1>10
  <2> QED BY <1>1, <1>15, <2>1 DEF Reading
<1> QED BY <1>9, <1>16, GoesOnKeeps
-----------------------------------------------------------------------------
(* The steps together.                                                     *)

\* The next file is opened, or cannot be.
LEMMA OpenKeeps ==
  ASSUME BasicInv, BasicTypes', Open PROVE BasicInv'
<1>1. BasicTypes /\ CommandLine /\ stage \notin Reads /\ stage = "open"
  BY DEF BasicInv, BasicTypes, Open, Reads
<1>2. Current \in 1..Len(files) /\ Len(verdicts) \in 0..Len(files)
  <2>1. Len(verdicts) < Len(files)
    BY DEF Open
  <2>2. verdicts \in Seq(Verdict) /\ files \in Seq(Input)
    BY <1>1 DEF BasicTypes, CommandLine
  <2>3. Len(verdicts) \in Nat /\ Len(files) \in Nat
    BY <2>2
  <2> QED BY <2>1, <2>3 DEF Current
<1>3. CASE ~files[Current].there
  <2>1. Ends("missing")
    BY <1>3 DEF Open, Current
  <2>2. ~Good(Current)
    BY <1>3 DEF Good, Intact, CutOff
  <2>3. PICK v \in Verdict : Ends(v)
    BY <2>1, Verdicts, Zenon
  <2>4. Dealt(v) /\ told' \in Nat \cup {Nowhere}
    BY <1>1, <2>3, EndsDeals DEF Deals
  <2> QED BY <1>2, <2>2, <2>4, OtherFails
<1>4. CASE files[Current].there
  <2>1. /\ stage' = "line" /\ pos' = 0 /\ stage' \in Reads
        /\ UNCHANGED <<commandLine, verdicts, exitval, out>>
    BY <1>4 DEF Open, Current, Reads
  <2>2. GoesOn
    BY <2>1 DEF GoesOn
  <2>3. /\ Current' = Current /\ Program' = Program /\ dialect' = dialect
    BY <2>2, FileStays
  <2>4. Savable(dialect, Program) /\ dialect \in Dialect /\ Program \in Seq(Line)
    BY <1>1, <1>2, ProgramSavable DEF Program, CommandLine
  <2>5. Place(dialect, Program, 0) = 0
    BY <2>4, SavedIs
  <2>6. Before(Texts(Program), 0) = <<>>
    BY <2>4, TextsAre, BeforeSteps
  <2>7. Listed(<<>>)
    <3>1. Before(Listings, Len(verdicts)) \in Seq(Output)
      BY <1>1, <1>2, BeforeTyped
    <3>2. Before(Listings, Len(verdicts)) \o <<>> = Before(Listings, Len(verdicts))
      BY <3>1
    <3>3. Heard(Len(verdicts)) => Bare(out) = Before(Listings, Len(verdicts))
      BY <1>1 DEF BasicInv, Between
    <3> QED BY <3>2, <3>3 DEF Listed
  <2>8. Listed(Before(Texts(Program), 0))'
    <3>1. PICK t : t = <<>>
      OBVIOUS
    <3>2. Listed(t)'
      BY <2>1, <2>7, <3>1, ListedStays
    <3> QED BY <2>3, <2>6, <3>1, <3>2
  <2>9. AtLine(0)'
    BY <2>1, <2>3, <2>5, <2>8 DEF AtLine
  <2>10. Reading'
    <3>1. (0 \in 0..Len(Program))'
      BY <2>3, <2>4
    <3> QED BY <2>1, <2>9, <3>1 DEF Reading
  <2> QED BY <2>2, <2>10, GoesOnKeeps
<1> QED BY <1>3, <1>4

\* After the last file the program exits.
LEMMA ExitKeeps ==
  ASSUME BasicInv, BasicTypes', Exit PROVE BasicInv'
<1>1. /\ files' = files /\ programs' = programs /\ dialect' = dialect /\ verdicts' = verdicts
      /\ exitval' = exitval /\ out' = out /\ stage = "open" /\ stage' = "exit"
      /\ stage \notin Reads /\ stage' \notin Reads /\ Len(verdicts) = Len(files)
  BY DEF Exit, commandLine, Reads
<1>2. Answered'
  BY <1>1 DEF BasicInv, Answered, Answer, Intact, CutOff
<1>3. Exits'
  BY <1>1 DEF BasicInv, Exits
<1>4. Between'
  BY <1>1 DEF BasicInv, Between, Heard, Listings, CutListed, Intact, CutOff
<1>5. Reading'
  BY <1>1 DEF Reading
<1> QED BY <1>2, <1>3, <1>4, <1>5 DEF BasicInv

\* A step that changes nothing keeps the invariant.
LEMMA BasicStutters == ASSUME BasicInv, BasicTypes', UNCHANGED bvars PROVE BasicInv'
<1>1. /\ files' = files /\ programs' = programs /\ dialect' = dialect /\ verdicts' = verdicts
      /\ exitval' = exitval /\ out' = out /\ stage' = stage /\ pos' = pos /\ number' = number
      /\ len' = len /\ buf' = buf /\ p' = p /\ in_string' = in_string
  BY DEF bvars
<1>2. Answered'
  BY <1>1 DEF BasicInv, Answered, Answer, Intact, CutOff
<1>3. Exits'
  BY <1>1 DEF BasicInv, Exits
<1>4. Between'
  BY <1>1 DEF BasicInv, Between, Heard, Listings, CutListed, Intact, CutOff
<1>5. Reading'
  <2>1. /\ Current' = Current /\ Program' = Program /\ Bytes' = Bytes /\ Listings' = Listings
    BY <1>1 DEF Current, Program, Bytes, Listings
  <2>2. /\ Good(Current)' <=> Good(Current)
        /\ Overran' <=> Overran
    BY <1>1, <2>1 DEF Good, Overran, Intact, CutOff
  <2>3. \A j : AtLine(j)' <=> AtLine(j)
    BY <1>1, <2>1 DEF AtLine, Listed, Heard, Intact
  <2>4. \A j, k : InLine(j, k)' <=> InLine(j, k)
    BY <1>1, <2>1 DEF InLine, LineIn, Through
  <2>5. \A j : AtNumber(j)' <=> AtNumber(j)
    BY <1>1, <2>1, <2>4 DEF AtNumber, Listed, Heard, Intact
  <2>6. \A j, k : AtBytes(j, k)' <=> AtBytes(j, k)
    BY <1>1, <2>1, <2>4 DEF AtBytes, Listed, Heard, Intact
  <2> QED BY <1>1, <2>1, <2>2, <2>3, <2>5, <2>6 DEF BasicInv, Reading
<1> QED BY <1>2, <1>3, <1>4, <1>5 DEF BasicInv

\* The invariant holds at first,
LEMMA BasicStarts == BasicInit => BasicInv
<1> SUFFICES ASSUME BasicInit PROVE BasicInv
  OBVIOUS
<1>1. CommandLine
  <2>1. files # <<>> /\ files \in Seq(Input) => Len(files) > 0
    OBVIOUS
  <2> QED BY <2>1 DEF BasicInit, CommandLine
<1>2. /\ verdicts = <<>> /\ exitval = 0 /\ stage = "open" /\ pos = 0
      /\ buf = <<>> /\ indent = 0 /\ number = 0 /\ len = 0 /\ p = 0
      /\ in_string = FALSE /\ file_pos = 0 /\ told = Nowhere /\ out = <<>>
  BY DEF BasicInit, BasicStart
<1>3. BasicTypes
  <2>1. 0 \in Short
    <3>1. LastShort \in Nat
      BY DEF LastShort
    <3> QED BY <3>1 DEF Short
  <2>2. verdicts \in Seq(Verdict) /\ Len(verdicts) = 0 /\ buf \in Seq(Byte) /\ Len(buf) = 0
        /\ out \in Seq(Output)
    BY <1>2
  <2>3. stage \notin Reads /\ stage \in {"open", "exit"} \cup Reads
    BY <1>2 DEF Reads
  <2>4. Len(verdicts) <= Len(files)
    BY <1>1, <2>2 DEF CommandLine
  <2>5. len \in 0..251 /\ p \in 0..len /\ exitval \in 0..1 /\ pos \in Nat /\ file_pos \in Nat
        /\ indent \in Int /\ Len(buf) <= 252
    BY <1>2
  <2>6. in_string \in BOOLEAN /\ told \in Nat \cup {Nowhere} /\ number \in Short
    BY <1>2, <2>1
  <2> QED BY <1>1, <2>2, <2>3, <2>4, <2>5, <2>6 DEF BasicTypes
<1>4. Len(verdicts) = 0 /\ 1..Len(verdicts) = {} /\ stage \notin Reads
  BY <1>2 DEF Reads
<1>5. Answered
  BY <1>4 DEF Answered
<1>6. Exits
  BY <1>2, <1>4 DEF Exits
<1>7. Bare(out) = <<>>
  BY <1>2 DEF Bare
<1>8. Before(Listings, Len(verdicts)) = <<>>
  <2>1. Before(Listings, 0) = <<>>
    BY <1>1, ListingsAre, BeforeSteps
  <2> QED BY <1>4, <2>1
<1>9. CutListed
  <2>1. SUFFICES ASSUME Len(files) = 1 PROVE IsPrefix(Bare(out), Listing(programs[1]))
    BY DEF CutListed
  <2>2. Listing(programs[1]) \in Seq(Output)
    BY <1>1, <2>1, TextsAre DEF CommandLine
  <2>3. PICK e : e = <<>>
    OBVIOUS
  <2>4. e \in Seq(Output) /\ Len(e) = 0
    BY <2>3
  <2>5. Len(e) <= Len(Listing(programs[1])) /\ \A k \in 1..Len(e) : e[k] = Listing(programs[1])[k]
    BY <2>2, <2>4
  <2> QED BY <1>7, <2>2, <2>3, <2>4, <2>5, PrefixIs
<1>10. Between
  BY <1>7, <1>8, <1>9 DEF Between
<1>11. Reading
  BY <1>4 DEF Reading
<1> QED BY <1>3, <1>5, <1>6, <1>10, <1>11 DEF BasicInv

\* every step keeps it,
LEMMA BasicKeeps == BasicInv /\ [BasicNext]_bvars => BasicInv'
<1> SUFFICES ASSUME BasicInv, [BasicNext]_bvars PROVE BasicInv'
  OBVIOUS
<1>1. BasicTypes'
  BY BasicTypesStep DEF BasicInv
<1>2. CASE UNCHANGED bvars
  BY <1>1, <1>2, BasicStutters
<1>3. CASE Open
  BY <1>1, <1>3, OpenKeeps
<1>4. CASE Exit
  BY <1>1, <1>4, ExitKeeps
<1>5. CASE BasicNext /\ stage \in Reads /\ ~Good(Current)
  BY <1>1, <1>5, OtherKeeps
<1>6. CASE BasicNext /\ stage \in {"number", "bytes"} /\ Overran
  BY <1>1, <1>6, OverranKeeps
<1>7. ASSUME BasicNext, ~Open, ~Exit, Good(Current),
             stage \in {"number", "bytes"} => ~Overran
      PROVE  BasicInv'
  <2>1. CASE EndOfFile
    BY <1>7, <2>1, EndOfFileKeeps
  <2>2. CASE NoCarriageReturn \/ BigEnd \/ BigCut \/ BigBody
    BY <1>1, <1>7, <2>2, BigKeeps
  <2>3. CASE LittleEnd \/ LittleCut \/ LittleBody
    BY <1>1, <1>7, <2>3, LittleKeeps
  <2>4. CASE Number
    BY <1>1, <1>7, <2>4, NumberKeeps DEF Number
  <2>5. CASE Decoding
    <3>1. stage = "bytes"
      BY <2>5, DecodingDoes DEF BasicInv
    <3> QED BY <1>1, <1>7, <2>5, <3>1, DecodingKeeps
  <2>6. CASE EndLine
    BY <1>1, <1>7, <2>6, EndLineKeeps DEF EndLine
  <2> QED BY <1>7, <2>1, <2>2, <2>3, <2>4, <2>5, <2>6 DEF BasicNext, Decoding
<1>8. BasicNext => Open \/ Exit \/ stage \in Reads
  <2>1. Decoding => stage = "bytes"
    BY DecodingDoes DEF BasicInv
  <2> QED
    BY <2>1 DEF BasicNext, EndOfFile, NoCarriageReturn, BigEnd, BigCut, BigBody, BigLine, LittleEnd,
       LittleCut, LittleBody, LittleLine, Number, EndLine, Decoding, Reads
<1> QED BY <1>2, <1>3, <1>4, <1>5, <1>6, <1>7, <1>8

\* and so it holds always.
LEMMA BasicInvariant == BasicSpec => []BasicInv
<1>1. BasicInit => BasicInv
  BY BasicStarts
<1>2. BasicInv /\ [BasicNext]_bvars => BasicInv'
  BY BasicKeeps
<1> QED BY <1>1, <1>2, PTL DEF BasicSpec

\* The types as TLC checks them follow from those of the proofs.
LEMMA BasicTyped == BasicTypes => BasicTypeOK
<1> SUFFICES ASSUME BasicTypes PROVE BasicTypeOK
  OBVIOUS
<1>1. stage \in {"open", "line", "number", "bytes", "exit"}
  BY DEF BasicTypes, Reads
<1>2. stage \in {"line", "number", "bytes"} => pos \in 0..Len(Bytes)
  BY DEF BasicTypes, Reads
<1>3. DOMAIN Base[dialect] = Byte
  BY Classes DEF BasicTypes, CommandLine
<1>4. ToSet(out) \subseteq Output
  BY DEF BasicTypes, ToSet
<1> QED BY <1>1, <1>2, <1>3, <1>4 DEF BasicTypes, BasicTypeOK

(* However many files there are and wherever one is cut off, at a place that  *)
(* is not its beginning: decode_big_endian_program and                        *)
(* decode_little_endian_program of lines.c refuse it, the former with the     *)
(* message for it, what was listed until then is the beginning of the         *)
(* program, and wrapped_main remembers in exitval that a file failed.  The    *)
(* types hold whatever is in the files.                                       *)
THEOREM BasicCutRefused == BasicSpec => []CutRefused
<1>1. BasicInv => CutRefused
  <2> SUFFICES ASSUME BasicInv PROVE CutRefused
    OBVIOUS
  <2>1. BasicTypeOK /\ CutListed /\ verdicts \in Seq(Verdict) /\ DOMAIN verdicts = 1..Len(verdicts)
    BY BasicTyped, CutIs DEF BasicInv, BasicTypes
  <2>2. \A i \in DOMAIN verdicts :
          CutOff(i) => /\ verdicts[i] # "ok"
                       /\ LeadingCR(dialect) => verdicts[i] = "premature end-of-file"
    BY <2>1 DEF BasicInv, Answered, Answer
  <2>3. ToSet(verdicts) \subseteq {"ok"} <=> \A i \in 1..Len(verdicts) : verdicts[i] = "ok"
    BY <2>1 DEF ToSet
  <2> QED BY <2>1, <2>2, <2>3 DEF CutRefused, BasicInv, Exits
<1> QED BY <1>1, BasicInvariant, PTL

(* Whatever programs BASIC saved, if each file is as it was saved then        *)
(* decode_line lists every line of each, with its number, every keyword,      *)
(* character and line number of it in order and nothing else, and             *)
(* bbcbasic_to_text succeeds: nothing is left over in the buffer or the state *)
(* of the decoder from the lines and programs before.                         *)
THEOREM BasicProgramsListed == BasicSpec => []ProgramsListed
<1>1. BasicInv => ProgramsListed
  <2> SUFFICES ASSUME BasicInv, stage = "exit", \A i \in DOMAIN files : Intact(i)
               PROVE  Bare(out) = Over(programs, Listing) /\ exitval = 0
    BY DEF ProgramsListed
  <2>1. /\ CommandLine /\ Len(verdicts) = Len(files) /\ stage \notin Reads
        /\ DOMAIN files = 1..Len(files)
    BY DEF BasicInv, BasicTypes, Exits, CommandLine, Reads
  <2>2. Heard(Len(verdicts))
    BY <2>1 DEF Heard
  <2>3. Bare(out) = Before(Listings, Len(verdicts))
    BY <2>1, <2>2 DEF BasicInv, Between
  <2>4. Before(Listings, Len(verdicts)) = Over(programs, Listing)
    <3>1. /\ Listings \in Seq(Seq(Output)) /\ Len(Listings) = Len(files)
          /\ Over(programs, Listing) = FlattenSeq(Listings)
      BY <2>1, ListingsAre
    <3>2. Before(Listings, Len(Listings)) = FlattenSeq(Listings)
      BY <3>1, BeforeSteps
    <3> QED BY <2>1, <3>1, <3>2
  <2>5. exitval = 0
    BY <2>1, <2>2 DEF BasicInv, Exits, Answered, Answer, Heard
  <2> QED BY <2>3, <2>4, <2>5
<1> QED BY <1>1, BasicInvariant, PTL

-----------------------------------------------------------------------------
(* The indentation of loops.  How many are open around a line is a question of *)
(* pairs of lines, and decode_line only adds and takes away: the two agree as  *)
(* there is one open loop at each depth.                                       *)

\* How many loops are open behind line i.
Depth(B, E, i) == Balance(B, E, 1, i)

\* The lines that begin loops and those that end some, of n lines in all.
Loopy(B, E, n) ==
  /\ n \in Nat /\ B \subseteq 1..n /\ E \subseteq 1..n /\ B \cap E = {}
  /\ \A i \in 1..n : Depth(B, E, i) >= 0

\* Lines are counted in finite sets.
LEMMA Upto ==
  ASSUME NEW B, NEW i \in Nat, NEW j \in Nat
  PROVE  IsFiniteSet(B \cap (i..j)) /\ Cardinality(B \cap (i..j)) \in Nat
<1>1. IsFiniteSet(i..j)
  BY FS_Interval
<1>2. B \cap (i..j) \in SUBSET (i..j)
  OBVIOUS
<1>3. IsFiniteSet(B \cap (i..j))
  BY <1>1, <1>2, FS_Subset
<1> QED BY <1>3, FS_CardinalityType

\* A line more.
LEMMA UptoNext ==
  ASSUME NEW B, NEW i \in Nat, NEW j \in Nat, i <= j + 1
  PROVE  Cardinality(B \cap (i..j + 1)) = Cardinality(B \cap (i..j)) + (IF j + 1 \in B THEN 1 ELSE 0)
<1>1. IsFiniteSet(B \cap (i..j)) /\ Cardinality(B \cap (i..j)) \in Nat
  BY Upto
<1>2. CASE j + 1 \in B
  <2>1. B \cap (i..j + 1) = (B \cap (i..j)) \cup {j + 1} /\ j + 1 \notin B \cap (i..j)
    BY <1>2
  <2> QED BY <1>1, <1>2, <2>1, FS_AddElement
<1>3. CASE j + 1 \notin B
  <2>1. B \cap (i..j + 1) = B \cap (i..j)
    BY <1>3
  <2> QED BY <1>1, <1>3, <2>1
<1> QED BY <1>2, <1>3

\* The lines up to j are those before line i, and the others.
LEMMA UptoSplit ==
  ASSUME NEW B, NEW i \in Nat \ {0}, NEW j \in Nat, i <= j + 1
  PROVE  Cardinality(B \cap (1..j)) = Cardinality(B \cap (1..i - 1)) + Cardinality(B \cap (i..j))
<1> DEFINE S == B \cap (1..i - 1)  T == B \cap (i..j)
<1>1. IsFiniteSet(S) /\ IsFiniteSet(T) /\ Cardinality(S) \in Nat /\ Cardinality(T) \in Nat
  <2>1. i - 1 \in Nat /\ 1 \in Nat /\ i \in Nat
    OBVIOUS
  <2> QED BY <2>1, Upto
<1>2. S \cap T = {} /\ S \cup T = B \cap (1..j)
  OBVIOUS
<1>3. Cardinality(S \cup T) = Cardinality(S) + Cardinality(T) - Cardinality(S \cap T)
  BY <1>1, FS_Union
<1>4. Cardinality(S \cap T) = 0
  BY <1>2, FS_EmptySet
<1>5. PICK s, t : s = Cardinality(S) /\ t = Cardinality(T)
  OBVIOUS
<1>6. Cardinality(S \cup T) = s + t
  BY <1>1, <1>3, <1>4, <1>5
<1> QED BY <1>2, <1>5, <1>6

\* The depth of the loops line after line, and between two lines.
LEMMA DepthIs ==
  ASSUME NEW n, NEW B, NEW E, Loopy(B, E, n)
  PROVE  /\ \A i \in 0..n : Depth(B, E, i) \in Nat
         /\ Depth(B, E, 0) = 0
         /\ \A i \in 0..n - 1 : Depth(B, E, i + 1) = Depth(B, E, i)
                  + (IF i + 1 \in B THEN 1 ELSE 0) - (IF i + 1 \in E THEN 1 ELSE 0)
         /\ \A i \in 1..n, j \in 0..n :
              i <= j + 1 => Balance(B, E, i, j) = Depth(B, E, j) - Depth(B, E, i - 1)
<1>0. n \in Nat /\ B \subseteq 1..n /\ E \subseteq 1..n
  BY DEF Loopy
<1>1. \A i \in 0..n : Cardinality(B \cap (1..i)) \in Nat /\ Cardinality(E \cap (1..i)) \in Nat
  <2>1. 1 \in Nat /\ 0..n \subseteq Nat
    BY <1>0
  <2> QED BY <2>1, Upto
<1>2. Depth(B, E, 0) = 0
  <2>1. B \cap (1..0) = {} /\ E \cap (1..0) = {}
    OBVIOUS
  <2> QED BY <2>1, FS_EmptySet DEF Depth, Balance
<1>3. ASSUME NEW i \in 0..n PROVE Depth(B, E, i) \in Nat
  <2>1. CASE i = 0
    BY <1>2, <2>1
  <2>2. CASE i # 0
    <3>1. i \in 1..n
      BY <1>0, <2>2
    <3>2. Depth(B, E, i) >= 0
      BY <3>1 DEF Loopy
    <3>3. Depth(B, E, i) \in Int
      BY <1>1 DEF Depth, Balance
    <3> QED BY <3>2, <3>3
  <2> QED BY <2>1, <2>2
<1>4. ASSUME NEW i \in 0..n - 1
      PROVE  Depth(B, E, i + 1) = Depth(B, E, i)
                  + (IF i + 1 \in B THEN 1 ELSE 0) - (IF i + 1 \in E THEN 1 ELSE 0)
  <2>0. i \in Nat /\ 1 \in Nat /\ 1 <= i + 1 /\ i \in 0..n
    BY <1>0
  <2>1. /\ Cardinality(B \cap (1..i + 1)) = Cardinality(B \cap (1..i)) + (IF i + 1 \in B THEN 1 ELSE 0)
        /\ Cardinality(E \cap (1..i + 1)) = Cardinality(E \cap (1..i)) + (IF i + 1 \in E THEN 1 ELSE 0)
    BY <2>0, UptoNext
  <2>2. Cardinality(B \cap (1..i)) \in Nat /\ Cardinality(E \cap (1..i)) \in Nat
    BY <1>1, <2>0
  <2>3. PICK b, e : b = Cardinality(B \cap (1..i)) /\ e = Cardinality(E \cap (1..i))
    OBVIOUS
  <2> QED BY <2>1, <2>2, <2>3 DEF Depth, Balance
<1>5. ASSUME NEW i \in 1..n, NEW j \in 0..n, i <= j + 1
      PROVE  Balance(B, E, i, j) = Depth(B, E, j) - Depth(B, E, i - 1)
  <2>0. i \in Nat \ {0} /\ j \in Nat /\ i - 1 \in 0..n
    BY <1>0
  <2>1. /\ Cardinality(B \cap (1..j)) = Cardinality(B \cap (1..i - 1)) + Cardinality(B \cap (i..j))
        /\ Cardinality(E \cap (1..j)) = Cardinality(E \cap (1..i - 1)) + Cardinality(E \cap (i..j))
    BY <1>5, <2>0, UptoSplit
  <2>2. /\ Cardinality(B \cap (1..i - 1)) \in Nat /\ Cardinality(E \cap (1..i - 1)) \in Nat
        /\ Cardinality(B \cap (i..j)) \in Nat /\ Cardinality(E \cap (i..j)) \in Nat
    BY <1>0, <1>1, <2>0, Upto
  <2> QED BY <2>1, <2>2 DEF Depth, Balance
<1> QED BY <1>2, <1>3, <1>4, <1>5

\* The loops that are open behind line i, and that there is one at each depth.
Opened(B, E, i) == {j \in B \cap (1..i) : \A k \in j..i : Balance(B, E, j, k) > 0}
Layers(B, E, i) ==
  /\ IsFiniteSet(Opened(B, E, i)) /\ Cardinality(Opened(B, E, i)) = Depth(B, E, i)
  /\ \A v \in 1..Depth(B, E, i) : \E j \in Opened(B, E, i) : Depth(B, E, j) = v

\* A loop is open as long as the depth does not fall below that behind its beginning.
LEMMA OpenedIs ==
  ASSUME NEW n, NEW B, NEW E, Loopy(B, E, n), NEW i \in 0..n
  PROVE  /\ Opened(B, E, i) \subseteq B \cap (1..i)
         /\ \A j \in B \cap (1..i) :
              j \in Opened(B, E, i) <=> \A k \in j..i : Depth(B, E, k) >= Depth(B, E, j)
<1>0. n \in Nat /\ B \subseteq 1..n /\ E \subseteq 1..n /\ B \cap E = {}
  BY DEF Loopy
<1>1. ASSUME NEW j \in B \cap (1..i), NEW k \in j..i
      PROVE  Balance(B, E, j, k) > 0 <=> Depth(B, E, k) >= Depth(B, E, j)
  <2>0. j \in 1..n /\ k \in 0..n /\ j <= k + 1 /\ j - 1 \in 0..n - 1 /\ (j - 1) + 1 = j /\ j \in 0..n
      /\ j - 1 \in 0..n
    BY <1>0
  <2>1. Balance(B, E, j, k) = Depth(B, E, k) - Depth(B, E, j - 1)
    BY <2>0, DepthIs
  <2>2. Depth(B, E, j) = Depth(B, E, j - 1) + 1
    <3>1. j \in B /\ j \notin E
      BY <1>0
    <3>2. \A q \in 0..n - 1 : Depth(B, E, q + 1) = Depth(B, E, q)
                  + (IF q + 1 \in B THEN 1 ELSE 0) - (IF q + 1 \in E THEN 1 ELSE 0)
      BY DepthIs
    <3>3. Depth(B, E, (j - 1) + 1) = Depth(B, E, j - 1)
                  + (IF (j - 1) + 1 \in B THEN 1 ELSE 0) - (IF (j - 1) + 1 \in E THEN 1 ELSE 0)
      BY <2>0, <3>2
    <3>4. Depth(B, E, j - 1) \in Nat
      <4> QED BY <2>0, DepthIs
    <3> QED BY <2>0, <3>1, <3>3, <3>4
  <2>3. Depth(B, E, k) \in Nat /\ Depth(B, E, j - 1) \in Nat
    <3> QED BY <2>0, DepthIs
  <2> QED BY <2>1, <2>2, <2>3
<1> QED BY <1>1 DEF Opened

\* One line more, that begins a loop, ends one, or does none of both.
LEMMA LayersNext ==
  ASSUME NEW n, NEW B, NEW E, Loopy(B, E, n), NEW i \in 0..n - 1, Layers(B, E, i)
  PROVE  Layers(B, E, i + 1)
<1> DEFINE O == Opened(B, E, i)  P == Opened(B, E, i + 1)  D(k) == Depth(B, E, k)
<1>0. /\ n \in Nat /\ B \subseteq 1..n /\ E \subseteq 1..n /\ B \cap E = {}
      /\ i \in 0..n /\ i + 1 \in 0..n /\ i + 1 \in 1..n
  BY DEF Loopy
<1>1. /\ \A k \in 0..n : D(k) \in Nat
      /\ D(i + 1) = D(i) + (IF i + 1 \in B THEN 1 ELSE 0) - (IF i + 1 \in E THEN 1 ELSE 0)
  BY DepthIs
<1>2. /\ O \subseteq B \cap (1..i) /\ P \subseteq B \cap (1..i + 1)
      /\ \A j \in B \cap (1..i) : j \in O <=> \A k \in j..i : D(k) >= D(j)
      /\ \A j \in B \cap (1..i + 1) : j \in P <=> \A k \in j..i + 1 : D(k) >= D(j)
  BY <1>0, OpenedIs
<1>3. /\ IsFiniteSet(O) /\ Cardinality(O) = D(i)
      /\ \A v \in 1..D(i) : \E j \in O : D(j) = v
  BY DEF Layers
<1> HIDE DEF O, P, D
<1>4. \A j \in B \cap (1..i) : j \in P <=> j \in O /\ D(i + 1) >= D(j)
  <2>1. ASSUME NEW j \in B \cap (1..i) PROVE j \in P <=> j \in O /\ D(i + 1) >= D(j)
    <3>1. j..i + 1 = (j..i) \cup {i + 1} /\ j \in B \cap (1..i + 1)
      BY <1>0
    <3> QED BY <1>2, <3>1
  <2> QED BY <2>1
<1>5. \A j \in O : D(j) <= D(i) /\ j \in 0..n /\ j \in 1..i /\ j \in B
  <2>1. ASSUME NEW j \in O PROVE D(j) <= D(i) /\ j \in 0..n /\ j \in 1..i /\ j \in B
    <3>1. j \in B \cap (1..i)
      BY <1>2
    <3>2. i \in j..i /\ j \in 0..n
      BY <1>0, <3>1
    <3>3. D(i) >= D(j) /\ D(i) \in Nat /\ D(j) \in Nat
      BY <1>0, <1>1, <1>2, <3>1, <3>2
    <3> QED BY <3>1, <3>2, <3>3
  <2> QED BY <2>1
<1>6. D(i) \in Nat /\ D(i + 1) \in Nat
  BY <1>0, <1>1
<1>7. SUFFICES /\ IsFiniteSet(P) /\ Cardinality(P) = D(i + 1)
               /\ \A v \in 1..D(i + 1) : \E j \in P : D(j) = v
  BY DEF Layers, P, D
<1>8. CASE i + 1 \in B
  <2>1. D(i + 1) = D(i) + 1
    BY <1>0, <1>1, <1>6, <1>8
  <2>2. i + 1 \in P
    <3>1. i + 1 \in B \cap (1..i + 1) /\ (i + 1)..(i + 1) = {i + 1}
      BY <1>0, <1>8
    <3>2. D(i + 1) >= D(i + 1)
      BY <1>6
    <3> QED BY <1>2, <3>1, <3>2
  <2>3. P = O \cup {i + 1}
    <3>1. ASSUME NEW j \in P PROVE j \in O \cup {i + 1}
      <4>1. j \in B \cap (1..i) \/ j = i + 1
        BY <1>0, <1>2
      <4> QED BY <1>4, <4>1
    <3>2. ASSUME NEW j \in O PROVE j \in P
      <4>1. D(j) <= D(i) /\ D(j) \in Nat /\ j \in B \cap (1..i)
        BY <1>1, <1>5
      <4> QED BY <1>4, <1>6, <2>1, <4>1
    <3> QED BY <2>2, <3>1, <3>2
  <2>4. i + 1 \notin O
    BY <1>0, <1>5
  <2>5. IsFiniteSet(P) /\ Cardinality(P) = D(i) + 1
    BY <1>3, <2>3, <2>4, FS_AddElement
  <2>6. ASSUME NEW v \in 1..D(i + 1) PROVE \E j \in P : D(j) = v
    <3>1. CASE v = D(i + 1)
      BY <2>2, <3>1
    <3>2. CASE v # D(i + 1)
      <4>1. v \in 1..D(i)
        BY <1>6, <2>1, <3>2
      <4> QED BY <1>3, <2>3, <4>1
    <3> QED BY <3>1, <3>2
  <2> QED BY <2>1, <2>5, <2>6
<1>9. ASSUME i + 1 \notin B PROVE P \subseteq O
  <2>1. ASSUME NEW j \in P PROVE j \in O
    <3>1. j \in B \cap (1..i + 1) /\ j # i + 1
      BY <1>2, <1>9
    <3>2. j \in B \cap (1..i)
      BY <1>0, <3>1
    <3> QED BY <1>4, <3>2
  <2> QED BY <2>1
<1>10. CASE i + 1 \notin B /\ i + 1 \notin E
  <2>1. D(i + 1) = D(i)
    BY <1>1, <1>6, <1>10
  <2>2. P = O
    <3>1. ASSUME NEW j \in O PROVE j \in P
      <4>1. D(j) <= D(i) /\ D(j) \in Nat /\ j \in B \cap (1..i)
        BY <1>1, <1>5
      <4> QED BY <1>4, <1>6, <2>1, <4>1
    <3> QED BY <1>9, <1>10, <3>1
  <2> QED BY <1>3, <2>1, <2>2
<1>11. CASE i + 1 \notin B /\ i + 1 \in E
  <2>1. D(i) = D(i + 1) + 1 /\ D(i) \in 1..D(i)
    BY <1>1, <1>6, <1>11
  <2>2. PICK q \in O : D(q) = D(i)
    BY <1>3, <2>1
  <2>3. ASSUME NEW j \in O, j # q PROVE D(j) < D(i)
    <3>0. SUFFICES ASSUME D(j) >= D(i) PROVE FALSE
      BY <1>1, <1>5, <1>6
    <3>1. D(j) = D(i) /\ j \in B \cap (1..i) /\ q \in B \cap (1..i)
      BY <1>1, <1>5, <1>6, <3>0
    <3>2. ASSUME NEW a \in O, NEW b \in O, a < b, D(a) = D(b) PROVE FALSE
      <4>1. a \in 1..i /\ b \in 1..i /\ a \in B /\ b \in B /\ b \notin E
        BY <1>0, <1>5
      <4>2. b - 1 \in 0..n - 1 /\ (b - 1) + 1 = b /\ b - 1 \in a..i /\ b - 1 \in 0..n
        BY <1>0, <3>2, <4>1
      <4>3. D(b - 1) >= D(a)
        BY <1>2, <4>1, <4>2
      <4>4. D(b) = D(b - 1) + 1
        <5>1. \A k \in 0..n - 1 : D(k + 1) = D(k)
                + (IF k + 1 \in B THEN 1 ELSE 0) - (IF k + 1 \in E THEN 1 ELSE 0)
          BY DepthIs DEF D
        <5>2. D((b - 1) + 1) = D(b - 1)
                + (IF (b - 1) + 1 \in B THEN 1 ELSE 0) - (IF (b - 1) + 1 \in E THEN 1 ELSE 0)
          BY <4>2, <5>1
        <5>3. D(b - 1) \in Nat
          BY <1>1, <4>2
        <5> QED BY <4>1, <4>2, <5>2, <5>3
      <4>5. D(b - 1) \in Nat /\ D(a) \in Nat
        <5>1. a \in 0..n
          BY <1>0, <4>1
        <5> QED BY <1>1, <4>2, <5>1
      <4> QED BY <3>2, <4>3, <4>4, <4>5
    <3>3. j < q \/ q < j
      BY <2>3, <3>1
    <3> QED BY <2>2, <3>1, <3>2, <3>3
  <2>4. P = O \ {q}
    <3>1. q \notin P
      <4>1. q \in B \cap (1..i) /\ ~(D(i + 1) >= D(q))
        BY <1>5, <1>6, <2>1, <2>2
      <4> QED BY <1>4, <4>1
    <3>2. ASSUME NEW j \in O, j # q PROVE j \in P
      <4>1. D(j) < D(i) /\ D(j) \in Nat /\ j \in B \cap (1..i)
        BY <1>1, <1>5, <2>3, <3>2
      <4>2. D(i + 1) >= D(j)
        BY <1>6, <2>1, <4>1
      <4> QED BY <1>4, <4>1, <4>2
    <3> QED BY <1>9, <1>11, <3>1, <3>2
  <2>5. IsFiniteSet(P) /\ Cardinality(P) = D(i) - 1
    BY <1>3, <2>4, FS_RemoveElement
  <2>6. ASSUME NEW v \in 1..D(i + 1) PROVE \E j \in P : D(j) = v
    <3>1. v \in 1..D(i) /\ v # D(i)
      BY <1>6, <2>1
    <3>2. PICK j \in O : D(j) = v
      BY <1>3, <3>1
    <3> QED BY <2>2, <2>4, <3>1, <3>2
  <2> QED BY <1>6, <2>1, <2>5, <2>6
<1> QED BY <1>8, <1>10, <1>11

\* By induction, behind every line.
LEMMA LayersAll ==
  ASSUME NEW n, NEW B, NEW E, Loopy(B, E, n), NEW i \in 0..n
  PROVE  Layers(B, E, i)
<1> DEFINE T == {k \in 0..n : ~Layers(B, E, k)}
<1>0. n \in Nat
  BY DEF Loopy
<1>1. Layers(B, E, 0)
  <2>1. Depth(B, E, 0) = 0 /\ Opened(B, E, 0) = {}
    <3>1. B \cap (1..0) = {}
      OBVIOUS
    <3> QED BY <3>1, DepthIs DEF Opened
  <2>2. 1..0 = {}
    OBVIOUS
  <2> QED BY <2>1, <2>2, FS_EmptySet DEF Layers
<1>2. SUFFICES ASSUME T # {} PROVE FALSE
  BY <1>2
<1>3. T \subseteq Nat
  OBVIOUS
<1>4. PICK k \in T : \A y \in T : k <= y
  BY <1>2, <1>3, NatLeast
<1>5. k # 0 /\ k \in 0..n
  BY <1>1
<1>6. k - 1 \in 0..n - 1 /\ k - 1 \in 0..n /\ (k - 1) + 1 = k /\ k - 1 < k
  BY <1>0, <1>5
<1>7. Layers(B, E, k - 1)
  <2>1. k - 1 \notin T
    BY <1>4, <1>6
  <2> QED BY <1>6, <2>1
<1>8. Layers(B, E, (k - 1) + 1)
  BY <1>6, <1>7, LayersNext
<1> QED BY <1>5, <1>6, <1>8

\* As many loops are open around a line as behind the line before, but for the one it ends.
LEMMA LoopsAround ==
  ASSUME NEW n, NEW B, NEW E, Loopy(B, E, n), NEW i \in 1..n
  PROVE  /\ Cardinality(Around(B, E, i)) = Depth(B, E, i - 1) - (IF i \in E THEN 1 ELSE 0)
         /\ Depth(B, E, i - 1) \in Nat /\ Cardinality(Around(B, E, i)) \in Nat
         /\ Depth(B, E, i) = Depth(B, E, i - 1)
              + (IF i \in B THEN 1 ELSE 0) - (IF i \in E THEN 1 ELSE 0)
<1>0. /\ n \in Nat /\ B \subseteq 1..n /\ E \subseteq 1..n /\ B \cap E = {}
      /\ i \in 0..n /\ i - 1 \in 0..n - 1 /\ i - 1 \in 0..n /\ (i - 1) + 1 = i
  BY DEF Loopy
<1>1. Layers(B, E, i)
  BY <1>0, LayersAll
<1>2. PICK O : O = Opened(B, E, i)
  OBVIOUS
<1>3. IsFiniteSet(O) /\ Cardinality(O) = Depth(B, E, i)
  BY <1>1, <1>2 DEF Layers
<1>4. Around(B, E, i) = O \ {i}
  <2>1. B \cap (1..i - 1) = (B \cap (1..i)) \ {i}
    BY <1>0
  <2> QED BY <1>2, <2>1 DEF Around, Opened
<1>5. /\ Depth(B, E, i) \in Nat /\ Depth(B, E, i - 1) \in Nat
      /\ Depth(B, E, (i - 1) + 1) = Depth(B, E, i - 1)
           + (IF (i - 1) + 1 \in B THEN 1 ELSE 0) - (IF (i - 1) + 1 \in E THEN 1 ELSE 0)
  BY <1>0, DepthIs
<1>6. i \in O <=> i \in B
  <2>1. i \in B => i \in B \cap (1..i) /\ i..i = {i} /\ Depth(B, E, i) >= Depth(B, E, i)
    BY <1>5
  <2> QED BY <1>0, <1>2, <2>1, OpenedIs
<1>7. IsFiniteSet(O \ {i}) /\ Cardinality(O \ {i}) = IF i \in O THEN Cardinality(O) - 1 ELSE Cardinality(O)
  BY <1>3, FS_RemoveElement
<1>8. Cardinality(O \ {i}) \in Nat
  BY <1>7, FS_CardinalityType
<1> QED BY <1>0, <1>3, <1>4, <1>5, <1>6, <1>7, <1>8

\* The first byte of a number in a GOTO.
LEMMA FirstSmall ==
  ASSUME NEW u \in 0..3, NEW v \in 0..3 PROVE First(u, v) \in 0..127
<1>1. First(u, v) = 64 + (CASE v = 0 -> 4 [] v = 1 -> 0 [] v = 2 -> 12 [] v = 3 -> 8)
                     + (CASE u = 0 -> 16 [] u = 1 -> 0 [] u = 2 -> 48 [] u = 3 -> 32)
  <2>1. CASE u = 0
    BY <2>1 DEF First, Xor, Bit
  <2>2. CASE u = 1
    BY <2>2 DEF First, Xor, Bit
  <2>3. CASE u = 2
    BY <2>3 DEF First, Xor, Bit
  <2>4. CASE u = 3
    BY <2>4 DEF First, Xor, Bit
  <2> QED BY <2>1, <2>2, <2>3, <2>4
<1>2. u \in {0, 1, 2, 3} /\ v \in {0, 1, 2, 3}
  OBVIOUS
<1>3. /\ (CASE v = 0 -> 4 [] v = 1 -> 0 [] v = 2 -> 12 [] v = 3 -> 8) \in 0..12
      /\ (CASE u = 0 -> 16 [] u = 1 -> 0 [] u = 2 -> 48 [] u = 3 -> 32) \in 0..48
  BY <1>2
<1> QED BY <1>1, <1>3

\* The bytes of a number in a GOTO are no words of loops.
LEMMA TargetSmall ==
  ASSUME NEW n \in Short
  PROVE  /\ Len(TargetBytes(n)) = 3 /\ TargetBytes(n)[1] \in 0..127
         /\ TargetBytes(n)[2] \in 0..127 /\ TargetBytes(n)[3] \in 0..127
<1>1. TargetBytes(n) = Three(Two(Lower(n)), Two(Upper(n)), Six(Lower(n)), Six(Upper(n)))
  BY DEF TargetBytes, First, Three, Two, Six, Lower, Upper
<1>2. Lower(n) \in 0..255 /\ Upper(n) \in 0..255
  BY TwoBytes
<1>3. /\ Two(Lower(n)) \in 0..3 /\ Two(Upper(n)) \in 0..3
      /\ Six(Lower(n)) \in 0..63 /\ Six(Upper(n)) \in 0..63
  BY <1>2, TwoParts
<1>4. First(Two(Lower(n)), Two(Upper(n))) \in 0..127
  BY <1>3, FirstSmall
<1>5. PICK f, x, y : f = First(Two(Lower(n)), Two(Upper(n))) /\ x = 64 + Six(Lower(n)) /\ y = 64 + Six(Upper(n))
  OBVIOUS
<1>6. TargetBytes(n) = <<f, x, y>>
  BY <1>1, <1>5 DEF Three
<1>7. f \in 0..127 /\ x \in 0..127 /\ y \in 0..127
  BY <1>3, <1>4, <1>5
<1> QED BY <1>6, <1>7

\* In every dialect the bytes of loops are those of words without a second byte.
LEMMA LoopWordIs ==
  ASSUME NEW d \in Dialect, NEW w \in LoopWords
  PROVE  /\ w \in {227, 237, 245, 253} /\ w \in Byte \ {0} /\ Base[d][w] = "word"
<1>1. w \in {227, 237, 245, 253} /\ w \in Byte \ {0}
  BY DEF LoopWords, FOR, NEXT, REPEAT, UNTIL, Byte
<1>2. Base[d] = Mapping(d)
  BY DEF Base
<1>3. w \notin {CR, 127} /\ w # 200 /\ w \notin 0..16 /\ w \notin 24..31 /\ w # 127 /\ w # LineNum
      /\ w \notin Extensions
  BY <1>1 DEF CR, LineNum, Extensions
<1>4. Table(Column(d))[w] = "word"
  BY <1>1, <1>3 DEF Table
<1>5. Mapping(d)[w] = "word"
  BY <1>1, <1>3, <1>4 DEF Mapping
<1> QED BY <1>1, <1>2, <1>5

\* They are larger than the other bytes that an item may have behind its first.
LEMMA LoopsHigh ==
  ASSUME NEW w \in LoopWords
  PROVE  /\ \A v \in 0..127 : v # w
         /\ \A v \in 142..166 : v # w
         /\ 141 # w /\ 0 # w /\ 152 # w
<1>1. w = 227 \/ w = 237 \/ w = 245 \/ w = 253
  BY DEF LoopWords, FOR, NEXT, REPEAT, UNTIL
<1> QED BY <1>1

\* The byte of a word of a loop is nowhere but in that word, and in strings.
LEMMA LoopByte ==
  ASSUME NEW d \in Dialect, NEW quoted \in BOOLEAN, NEW i \in Item, Keeps(d, quoted, i),
         NEW w \in LoopWords, i # Out("byte", w, 0), NEW n \in 1..Len(ItemBytes(i))
  PROVE  ItemBytes(i)[n] = w <=> n = 1 /\ i = Out("word", w, 0)
<1> DEFINE x == ItemBytes(i)
<1>0. /\ w \in {227, 237, 245, 253} /\ Base[d][w] = "word"
      /\ i = Out(i.kind, i.a, i.b) /\ i.a \in Nat /\ i.b \in Nat
      /\ i.kind \in {"word", "byte", "target"}
  BY LoopWordIs DEF Item, Out
<1>1. CASE i.kind = "target"
  <2>1. i.a \in Short
    BY <1>1 DEF Keeps
  <2>2. PICK t : t = TargetBytes(i.a)
    OBVIOUS
  <2>3. t \in Seq(Byte) /\ Len(t) = 3 /\ t[1] \in 0..127 /\ t[2] \in 0..127 /\ t[3] \in 0..127
    BY <2>1, <2>2, TargetSmall, TargetDecoded DEF Decoded
  <2>4. x = <<141>> \o t
    BY <1>1, <2>2 DEF ItemBytes, LineNum
  <2>5. Len(x) = 4 /\ x[1] = 141 /\ x[2] = t[1] /\ x[3] = t[2] /\ x[4] = t[3]
    <3>1. Byte \subseteq Nat
      BY ByteNat
    <3>2. t \in Seq(Nat)
      BY <2>3, <3>1, SeqWider
    <3>3. PICK h : h = <<141>>
      OBVIOUS
    <3>4. h \in Seq(Nat) /\ Len(h) = 1 /\ h[1] = 141
      BY <3>3
    <3>5. x = h \o t
      BY <2>4, <3>3
    <3> HIDE DEF x
    <3>6. /\ Len(x) = Len(h) + Len(t) /\ \A k \in 1..Len(h) : x[k] = h[k]
          /\ \A k \in 1..Len(t) : x[Len(h) + k] = t[k]
      <4>1. h \in Seq(Nat)
        BY <3>4
      <4>2. Glued(h \o t, h, t)
        BY <3>2, <4>1, Parts
      <4> QED BY <3>5, <4>2 DEF Glued
    <3>7. Len(x) = 4 /\ x[1] = h[1] /\ x[2] = t[1] /\ x[3] = t[2] /\ x[4] = t[3]
      BY <2>3, <3>4, <3>6, FourOf
    <3> QED BY <3>4, <3>7
  <2>6. n \in {1, 2, 3, 4}
    BY <2>5
  <2>7. x[n] # w
    <3> HIDE DEF x
    <3>1. \A v \in 0..127 : v # w
      BY LoopsHigh
    <3>2. 141 # w
      BY LoopsHigh
    <3>3. x[n] = 141 \/ x[n] \in 0..127
      <4>1. CASE n = 1
        BY <2>5, <4>1
      <4>2. CASE n = 2
        BY <2>3, <2>5, <4>2
      <4>3. CASE n = 3
        BY <2>3, <2>5, <4>3
      <4>4. CASE n = 4
        BY <2>3, <2>5, <4>4
      <4> QED BY <2>6, <4>1, <4>2, <4>3, <4>4
    <3> QED BY <3>1, <3>2, <3>3
  <2>8. i # Out("word", w, 0)
    BY <1>1 DEF Out
  <2> QED BY <2>7, <2>8
<1>2. CASE i.kind = "byte"
  <2>1. x = <<i.a>> /\ i.b = 0
    BY <1>2 DEF ItemBytes, Keeps
  <2>2. n = 1
    BY <2>1
  <2>3. i.a # w
    BY <1>0, <1>2, <2>1
  <2>4. i # Out("word", w, 0)
    BY <1>2 DEF Out
  <2> QED BY <2>1, <2>2, <2>3, <2>4
<1>3. CASE i.kind = "word" /\ i.b = 0
  <2>1. x = <<i.a>>
    BY <1>3 DEF ItemBytes
  <2>2. n = 1 /\ x[1] = i.a
    BY <2>1
  <2>3. i = Out("word", w, 0) <=> i.a = w
    <3>1. i = Out("word", i.a, 0)
      BY <1>0, <1>3
    <3> QED BY <3>1 DEF Out
  <2> QED BY <2>2, <2>3
<1>4. CASE i.kind = "word" /\ i.b # 0
  <2>1. x = <<i.a, i.b>>
    BY <1>4 DEF ItemBytes
  <2>2. n \in {1, 2} /\ x[1] = i.a /\ x[2] = i.b
    BY <2>1
  <2>3. Keyword(d, i)
    BY <1>4 DEF Keeps
  <2>4. Base[d][i.a] # "word"
    BY <1>4, <2>3 DEF Keyword
  <2>5. i.a # w
    BY <1>0, <2>4
  <2>6. i.b # w
    <3>1. i.b \in Second(d, i.a) \/ i.b \in {0, 152}
      BY <2>3, <2>4 DEF Keyword
    <3>2. Second(d, i.a) \subseteq 142..166
      BY DEF Second
    <3>3. \A v \in 142..166 : v # w
      BY LoopsHigh
    <3>4. 0 # w /\ 152 # w
      BY LoopsHigh
    <3>5. i.b \in 142..166 \/ i.b = 0 \/ i.b = 152
      BY <3>1, <3>2
    <3> QED BY <3>3, <3>4, <3>5
  <2>7. i # Out("word", w, 0)
    BY <1>4 DEF Out
  <2> QED BY <2>2, <2>5, <2>6, <2>7
<1> QED BY <1>0, <1>1, <1>2, <1>3, <1>4

\* Each element of what is joined comes from one of the parts.
LEMMA FlattenFrom ==
  ASSUME NEW S, NEW s \in Seq(Seq(S)), NEW k \in 1..Len(FlattenSeq(s))
  PROVE  \E m \in 1..Len(s) :
           /\ Len(Before(s, m - 1)) \in Nat /\ k - Len(Before(s, m - 1)) \in 1..Len(s[m])
           /\ FlattenSeq(s)[k] = s[m][k - Len(Before(s, m - 1))]
<1> DEFINE T == {m \in 0..Len(s) : Len(Before(s, m)) >= k}
<1>0. /\ Len(s) \in Nat /\ Len(s) \in 0..Len(s) /\ Before(s, Len(s)) = FlattenSeq(s)
      /\ Before(s, 0) = <<>> /\ \A m \in 0..Len(s) : Before(s, m) \in Seq(S)
  BY BeforeSteps
<1>1. Len(s) \in T
  <2>1. Len(Before(s, Len(s))) >= k
    <3>1. FlattenSeq(s) \in Seq(S)
      BY <1>0
    <3> QED BY <1>0, <3>1
  <2> QED BY <1>0, <2>1
<1>2. T \subseteq Nat
  OBVIOUS
<1>3. PICK m \in T : \A y \in T : m <= y
  BY <1>1, <1>2, NatLeast
<1>4. m # 0 /\ m \in 0..Len(s) /\ Len(Before(s, m)) >= k
  BY <1>0
<1>5. m \in 1..Len(s) /\ m - 1 \in 0..Len(s) - 1 /\ m - 1 \in 0..Len(s) /\ (m - 1) + 1 = m /\ m - 1 < m
  BY <1>0, <1>4
<1>6. ~(Len(Before(s, m - 1)) >= k)
  <2>1. m - 1 \notin T
    BY <1>3, <1>5
  <2> QED BY <1>5, <2>1
<1>7. /\ s[(m - 1) + 1] \in Seq(S)
      /\ Holds(FlattenSeq(s), Len(Before(s, m - 1)), s[(m - 1) + 1])
      /\ Len(Before(s, (m - 1) + 1)) = Len(Before(s, m - 1)) + Len(s[(m - 1) + 1])
  BY <1>5, FlattenHolds
<1>8. /\ s[m] \in Seq(S) /\ Holds(FlattenSeq(s), Len(Before(s, m - 1)), s[m])
      /\ Len(Before(s, m)) = Len(Before(s, m - 1)) + Len(s[m])
  BY <1>5, <1>7
<1>9. PICK a : a = Len(Before(s, m - 1))
  OBVIOUS
<1>10. a \in Nat
  <2>1. Before(s, m - 1) \in Seq(S)
    BY <1>0, <1>5
  <2> QED BY <1>9, <2>1
<1>11. Len(s[m]) \in Nat
  BY <1>8
<1>12. k - a \in 1..Len(s[m])
  <2>1. PICK c, e, z : c = Len(s[m]) /\ e = Len(Before(s, m)) /\ z = Len(FlattenSeq(s))
    OBVIOUS
  <2>2. z \in Nat /\ k \in 1..z
    <3>1. FlattenSeq(s) \in Seq(S)
      BY <1>0
    <3> QED BY <2>1, <3>1
  <2>3. e >= k /\ ~(a >= k) /\ e = a + c /\ c \in Nat
    BY <1>4, <1>6, <1>8, <1>9, <1>11, <2>1
  <2>4. k - a \in 1..c
    BY <1>10, <2>2, <2>3
  <2> QED BY <2>1, <2>4
<1>13. FlattenSeq(s)[a + (k - a)] = s[m][k - a]
  BY <1>8, <1>9, <1>12 DEF Holds
<1>14. a + (k - a) = k
  BY <1>10
<1> QED BY <1>5, <1>9, <1>10, <1>12, <1>13, <1>14

\* How often the byte of a word is in the line that was read: once, if it has that word.
LEMMA LineOccurrences ==
  ASSUME NEW d \in Dialect, NEW l \in Line, Tokenised(d, l.items), LineIn(l),
         NEW w \in LoopWords, Out("byte", w, 0) \notin ToSet(l.items),
         \A m, n \in DOMAIN l.items : LoopAt(l, m) /\ LoopAt(l, n) => m = n
  PROVE  Occurrences(w) = IF Out("word", w, 0) \in ToSet(l.items) THEN 1 ELSE 0
<1> DEFINE s == ItemSeqs(l)
           o == Out("word", w, 0)
           S == {k \in 1..len : At(buf, k) = w}
<1>0. /\ s \in Seq(Seq(Nat)) /\ Len(s) = Len(l.items) /\ Data(l) = FlattenSeq(s) /\ Data(l) \in Seq(Nat)
      /\ \A k \in 1..Len(l.items) : s[k] = ItemBytes(l.items[k]) /\ Len(ItemBytes(l.items[k])) \in Nat \ {0}
  BY DataIs
<1>1. l.items \in Seq(Item) /\ Len(l.items) \in Nat /\ DOMAIN l.items = 1..Len(l.items)
  BY DEF Line
<1>2. len = Len(FlattenSeq(s)) /\ \A n \in 1..len : At(buf, n) = FlattenSeq(s)[n]
  BY <1>0 DEF LineIn
<1>3. \A m \in 1..Len(l.items) : l.items[m] = o => LoopAt(l, m)
  BY DEF LoopAt
<1>4. ASSUME NEW m \in 1..Len(l.items), NEW n \in 1..Len(ItemBytes(l.items[m]))
      PROVE  ItemBytes(l.items[m])[n] = w <=> n = 1 /\ l.items[m] = o
  <2>1. PICK i, q : i = l.items[m] /\ q = (Quotes(l.items, m - 1) % 2 = 1)
    OBVIOUS
  <2>2. i \in Item /\ Keeps(d, q, i)
    BY <2>1, KeptItems
  <2>3. i # Out("byte", w, 0)
    BY <1>1, <2>1 DEF ToSet
  <2>4. q \in BOOLEAN
    BY <2>1
  <2>5. n \in 1..Len(ItemBytes(i))
    BY <2>1
  <2>6. ItemBytes(i)[n] = w <=> n = 1 /\ i = Out("word", w, 0)
    BY <2>2, <2>3, <2>4, <2>5, LoopByte
  <2> QED BY <2>1, <2>6
<1> HIDE DEF s, o
<1>5. ASSUME NEW k \in S
      PROVE  \E m \in 1..Len(l.items) : /\ l.items[m] = o /\ Len(Before(s, m - 1)) \in Nat
                                        /\ k = Len(Before(s, m - 1)) + 1
  <2>1. k \in 1..Len(FlattenSeq(s)) /\ FlattenSeq(s)[k] = w
    BY <1>2
  <2>2. PICK m \in 1..Len(s) :
           /\ Len(Before(s, m - 1)) \in Nat /\ k - Len(Before(s, m - 1)) \in 1..Len(s[m])
           /\ FlattenSeq(s)[k] = s[m][k - Len(Before(s, m - 1))]
    BY <1>0, <2>1, FlattenFrom
  <2>3. PICK a : a = Len(Before(s, m - 1))
    OBVIOUS
  <2>4. m \in 1..Len(l.items) /\ s[m] = ItemBytes(l.items[m])
    BY <1>0
  <2>5. k - a \in 1..Len(ItemBytes(l.items[m])) /\ ItemBytes(l.items[m])[k - a] = w
    BY <2>1, <2>2, <2>3, <2>4
  <2>6. k - a = 1 /\ l.items[m] = o
    BY <1>4, <2>4, <2>5
  <2>7. a \in Nat /\ k \in Nat
    BY <2>1, <2>2, <2>3
  <2>8. k = a + 1
    BY <2>6, <2>7
  <2> QED BY <2>3, <2>4, <2>6, <2>7, <2>8
<1>6. o \in ToSet(l.items) <=> \E m \in 1..Len(l.items) : l.items[m] = o
  BY <1>1 DEF ToSet
<1>7. Occurrences(w) = Cardinality(S)
  BY DEF Occurrences
<1> HIDE DEF S
<1>8. CASE o \notin ToSet(l.items)
  <2>1. S = {}
    BY <1>5, <1>6, <1>8
  <2> QED BY <1>7, <1>8, <2>1, FS_EmptySet DEF o
<1>9. CASE o \in ToSet(l.items)
  <2>1. PICK m \in 1..Len(l.items) : l.items[m] = o
    BY <1>6, <1>9
  <2>2. PICK a : a = Len(Before(s, m - 1))
    OBVIOUS
  <2>3. \A k \in S : k = a + 1
    <3>1. ASSUME NEW k \in S PROVE k = a + 1
      <4>1. PICK n \in 1..Len(l.items) : l.items[n] = o /\ k = Len(Before(s, n - 1)) + 1
        BY <1>5
      <4>2. n = m
        BY <1>1, <1>3, <2>1, <4>1
      <4> QED BY <2>2, <4>1, <4>2
    <3> QED BY <3>1
  <2>4. a + 1 \in S
    <3>1. m - 1 \in 0..Len(s) - 1 /\ (m - 1) + 1 = m
      BY <1>0, <1>1
    <3>2. /\ Before(s, m - 1) \in Seq(Nat) /\ s[(m - 1) + 1] \in Seq(Nat) /\ FlattenSeq(s) \in Seq(Nat)
          /\ Holds(FlattenSeq(s), Len(Before(s, m - 1)), s[(m - 1) + 1])
      BY <1>0, <3>1, FlattenHolds
    <3>3. PICK x : x = s[m]
      OBVIOUS
    <3>4. x = ItemBytes(l.items[m]) /\ Len(x) \in Nat \ {0} /\ x[1] = w
      <4>1. s[m] = ItemBytes(l.items[m]) /\ Len(ItemBytes(l.items[m])) \in Nat \ {0}
        BY <1>0
      <4>2. 1 \in 1..Len(ItemBytes(l.items[m]))
        BY <4>1
      <4> QED BY <1>4, <2>1, <3>3, <4>1, <4>2
    <3>5. Holds(FlattenSeq(s), a, x) /\ a \in Nat
      BY <2>2, <3>1, <3>2, <3>3
    <3>6. 1 \in 1..Len(x) /\ Len(FlattenSeq(s)) \in Nat
      BY <3>2, <3>4
    <3>7. a + 1 \in 1..Len(FlattenSeq(s)) /\ FlattenSeq(s)[a + 1] = x[1]
      BY <3>4, <3>5, <3>6 DEF Holds
    <3> QED BY <1>2, <3>4, <3>7 DEF S
  <2>5. S = {a + 1}
    BY <2>3, <2>4
  <2>6. Cardinality(S) = 1
    BY <2>5, FS_Singleton
  <2> QED BY <1>7, <1>9, <2>6 DEF o
<1> QED BY <1>8, <1>9

\* What f loops of the one kind and r of the other make of an indentation.
Twice(f, r) == 2 * (Bit(listo, 2) * f + Bit(listo, 4) * r)

\* The indentation for more loops and for fewer.
LEMMA Twices ==
  ASSUME listo \in 0..7, NEW f \in Int, NEW r \in Int, NEW a \in Int, NEW b \in Int
  PROVE  /\ Twice(f, r) \in Int /\ Twice(0, 0) = 0
         /\ Twice(f + a, r + b) = Twice(f, r) + Twice(a, b)
         /\ Twice(f - a, r - b) = Twice(f, r) - Twice(a, b)
         /\ f \in Nat /\ r \in Nat => Twice(f, r) \in Nat
         /\ 2 * ((IF Bit(listo, 2) = 1 THEN f ELSE 0) + (IF Bit(listo, 4) = 1 THEN r ELSE 0))
              = Twice(f, r)
<1>1. Bit(listo, 2) \in {0, 1} /\ Bit(listo, 4) \in {0, 1}
  BY DEF Bit
<1>2. PICK u, v : u = Bit(listo, 2) /\ v = Bit(listo, 4)
  OBVIOUS
<1>3. CASE u = 0 /\ v = 0
  <2>1. \A x \in Int, y \in Int : Twice(x, y) = 0
    BY <1>2, <1>3 DEF Twice
  <2>2. 0 \in Int /\ f + a \in Int /\ r + b \in Int /\ f - a \in Int /\ r - b \in Int
    OBVIOUS
  <2> QED BY <1>2, <1>3, <2>1, <2>2
<1>4. CASE u = 0 /\ v = 1
  BY <1>2, <1>4 DEF Twice
<1>5. CASE u = 1 /\ v = 0
  BY <1>2, <1>5 DEF Twice
<1>6. CASE u = 1 /\ v = 1
  BY <1>2, <1>6 DEF Twice
<1> QED BY <1>1, <1>2, <1>3, <1>4, <1>5, <1>6

\* The indentation behind a line, and that of a line without what is the same of all.
Deep(q, i) ==
  Twice(Depth(With(q, FOR), With(q, NEXT), i), Depth(With(q, REPEAT), With(q, UNTIL), i))
Within(q, i) ==
  Twice(Cardinality(Around(With(q, FOR), With(q, NEXT), i)),
        Cardinality(Around(With(q, REPEAT), With(q, UNTIL), i)))
\* Whether line i has a word.
One(q, i, w) == IF i \in With(q, w) THEN 1 ELSE 0

\* No line begins a loop and ends one.
LEMMA ProgramLoopy ==
  ASSUME NEW q \in Seq(Line), Balanced(q)
  PROVE  /\ Loopy(With(q, FOR), With(q, NEXT), Len(q))
         /\ Loopy(With(q, REPEAT), With(q, UNTIL), Len(q))
<1>0. Len(q) \in Nat /\ DOMAIN q = 1..Len(q)
  OBVIOUS
<1>1. ASSUME NEW v \in LoopWords, NEW w \in LoopWords, v # w, NEW i \in With(q, v), i \in With(q, w)
      PROVE  FALSE
  <2>1. i \in 1..Len(q) /\ q[i] \in Line /\ q[i] \in ToSet(q)
    BY <1>0 DEF With, ToSet
  <2>2. PICK m \in DOMAIN q[i].items : q[i].items[m] = Out("word", v, 0)
    BY <1>1 DEF With, ToSet
  <2>3. PICK n \in DOMAIN q[i].items : q[i].items[n] = Out("word", w, 0)
    BY <1>1 DEF With, ToSet
  <2>4. LoopAt(q[i], m) /\ LoopAt(q[i], n)
    BY <2>2, <2>3 DEF LoopAt
  <2>5. m = n
    BY <2>1, <2>4 DEF Balanced
  <2>6. Out("word", v, 0) = Out("word", w, 0)
    BY <2>2, <2>3, <2>5
  <2> QED BY <1>1, <2>6 DEF Out
<1>2. \A w : With(q, w) \subseteq 1..Len(q)
  BY <1>0 DEF With
<1>3. /\ FOR \in LoopWords /\ NEXT \in LoopWords /\ REPEAT \in LoopWords /\ UNTIL \in LoopWords
      /\ FOR # NEXT /\ REPEAT # UNTIL
  BY DEF LoopWords, FOR, NEXT, REPEAT, UNTIL
<1>4. With(q, FOR) \cap With(q, NEXT) = {} /\ With(q, REPEAT) \cap With(q, UNTIL) = {}
  BY <1>1, <1>3
<1> QED BY <1>0, <1>2, <1>4 DEF Balanced, Loopy, Depth

\* A line takes back the indentation for the loops it ends, and adds that for those it begins.
LEMMA LineLoops ==
  ASSUME listo \in 0..7, NEW q \in Seq(Line), Balanced(q), NEW i \in 1..Len(q)
  PROVE  /\ Within(q, i) = Deep(q, i - 1) - Twice(One(q, i, NEXT), One(q, i, UNTIL))
         /\ Deep(q, i) = Within(q, i) + Twice(One(q, i, FOR), One(q, i, REPEAT))
         /\ Within(q, i) \in Nat /\ Deep(q, 0) = 0
         /\ Indentation(q, i) = Bit(listo, 1) + Within(q, i)
<1> DEFINE F == With(q, FOR)  N == With(q, NEXT)  R == With(q, REPEAT)  U == With(q, UNTIL)
<1>1. Loopy(F, N, Len(q)) /\ Loopy(R, U, Len(q))
  BY ProgramLoopy
<1>2. PICK f, af, g : f = Depth(F, N, i - 1) /\ af = Cardinality(Around(F, N, i)) /\ g = Depth(F, N, i)
  OBVIOUS
<1>3. PICK r, ar, h : r = Depth(R, U, i - 1) /\ ar = Cardinality(Around(R, U, i)) /\ h = Depth(R, U, i)
  OBVIOUS
<1>4. /\ af = f - One(q, i, NEXT) /\ f \in Nat /\ af \in Nat
      /\ g = f + One(q, i, FOR) - One(q, i, NEXT)
  <2>1. /\ Cardinality(Around(F, N, i)) = Depth(F, N, i - 1) - (IF i \in N THEN 1 ELSE 0)
        /\ Depth(F, N, i - 1) \in Nat /\ Cardinality(Around(F, N, i)) \in Nat
        /\ Depth(F, N, i) = Depth(F, N, i - 1)
              + (IF i \in F THEN 1 ELSE 0) - (IF i \in N THEN 1 ELSE 0)
    BY <1>1, LoopsAround
  <2> QED BY <1>2, <2>1 DEF One
<1>5. /\ ar = r - One(q, i, UNTIL) /\ r \in Nat /\ ar \in Nat
      /\ h = r + One(q, i, REPEAT) - One(q, i, UNTIL)
  <2>1. /\ Cardinality(Around(R, U, i)) = Depth(R, U, i - 1) - (IF i \in U THEN 1 ELSE 0)
        /\ Depth(R, U, i - 1) \in Nat /\ Cardinality(Around(R, U, i)) \in Nat
        /\ Depth(R, U, i) = Depth(R, U, i - 1)
              + (IF i \in R THEN 1 ELSE 0) - (IF i \in U THEN 1 ELSE 0)
    BY <1>1, LoopsAround
  <2> QED BY <1>3, <2>1 DEF One
<1>6. /\ Deep(q, i - 1) = Twice(f, r) /\ Within(q, i) = Twice(af, ar) /\ Deep(q, i) = Twice(g, h)
  BY <1>2, <1>3 DEF Deep, Within
<1>7. PICK n, u, a, b : n = One(q, i, NEXT) /\ u = One(q, i, UNTIL)
                        /\ a = One(q, i, FOR) /\ b = One(q, i, REPEAT)
  OBVIOUS
<1>8. n \in 0..1 /\ u \in 0..1 /\ a \in 0..1 /\ b \in 0..1
  BY <1>7 DEF One
<1>9. f \in Int /\ r \in Int /\ n \in Int /\ u \in Int /\ a \in Int /\ b \in Int /\ af \in Int /\ ar \in Int
  BY <1>4, <1>5, <1>8
<1>10. af = f - n /\ ar = r - u /\ g = af + a /\ h = ar + b
  <2>1. af = f - n /\ ar = r - u /\ g = f + a - n /\ h = r + b - u
    BY <1>4, <1>5, <1>7
  <2> QED BY <1>9, <2>1
<1>11. Twice(f - n, r - u) = Twice(f, r) - Twice(n, u)
  BY <1>9, Twices
<1>12. Twice(af + a, ar + b) = Twice(af, ar) + Twice(a, b)
  BY <1>9, Twices
<1>13. Twice(af, ar) \in Nat
  BY <1>4, <1>5, <1>9, Twices
<1>14. Deep(q, 0) = 0
  <2>1. Depth(F, N, 0) = 0 /\ Depth(R, U, 0) = 0
    BY <1>1, DepthIs
  <2>2. Twice(0, 0) = 0
    BY <1>9, Twices
  <2> QED BY <2>1, <2>2 DEF Deep
<1>15. Indentation(q, i) = Bit(listo, 1) + Within(q, i)
  BY DEF Indentation, Within, Twice
<1> QED BY <1>6, <1>7, <1>10, <1>11, <1>12, <1>13, <1>14, <1>15

\* What is counted in the line that was read is what the program has in it.
LEMMA LoopsOfLine ==
  ASSUME CommandLine, NEW q \in Seq(Line), Balanced(q), NoLoopsInStrings(q), NEW i \in 1..Len(q),
         Tokenised(dialect, q[i].items), LineIn(q[i])
  PROVE  /\ Loops(NEXT, UNTIL) = Twice(One(q, i, NEXT), One(q, i, UNTIL))
         /\ Loops(FOR, REPEAT) = Twice(One(q, i, FOR), One(q, i, REPEAT))
<1>1. /\ FOR \in LoopWords /\ NEXT \in LoopWords /\ REPEAT \in LoopWords /\ UNTIL \in LoopWords
  BY DEF LoopWords
<1>2. dialect \in Dialect /\ listo \in 0..7
  BY DEF CommandLine
<1>3. q[i] \in Line /\ q[i] \in ToSet(q) /\ DOMAIN q = 1..Len(q)
  BY DEF ToSet
<1>4. ASSUME NEW w \in LoopWords PROVE Occurrences(w) = One(q, i, w) /\ One(q, i, w) \in Int
  <2>1. PICK l : l = q[i]
    OBVIOUS
  <2>2. /\ l \in Line /\ Tokenised(dialect, l.items) /\ LineIn(l)
        /\ Out("byte", w, 0) \notin ToSet(l.items)
        /\ \A m, n \in DOMAIN l.items : LoopAt(l, m) /\ LoopAt(l, n) => m = n
    BY <1>3, <2>1 DEF Balanced, NoLoopsInStrings
  <2>3. Occurrences(w) = IF Out("word", w, 0) \in ToSet(l.items) THEN 1 ELSE 0
    BY <1>2, <2>2, LineOccurrences
  <2>4. i \in With(q, w) <=> Out("word", w, 0) \in ToSet(l.items)
    BY <1>3, <2>1 DEF With
  <2> QED BY <2>3, <2>4 DEF One
<1>5. ASSUME NEW v \in LoopWords, NEW w \in LoopWords
      PROVE  Loops(v, w) = Twice(One(q, i, v), One(q, i, w))
  <2>1. PICK a, b : a = One(q, i, v) /\ b = One(q, i, w)
    OBVIOUS
  <2>2. a = Occurrences(v) /\ b = Occurrences(w) /\ a \in Int /\ b \in Int
    BY <1>4, <2>1
  <2>3. 2 * ((IF Bit(listo, 2) = 1 THEN a ELSE 0) + (IF Bit(listo, 4) = 1 THEN b ELSE 0))
              = Twice(a, b)
    BY <1>2, <2>2, Twices
  <2> QED BY <2>1, <2>2, <2>3 DEF Loops
<1> QED BY <1>1, <1>5

\* A place within a program's listing: a items of line j + 1 behind the lines before it.
Where(q, j, a) ==
  /\ j \in 0..Len(q) /\ a \in Nat
  /\ IF j = Len(q) THEN a = 0 ELSE a < Len(ListingOf(q[j + 1]))
\* How much is listed of a program before line j + 1.
Above(q, j) == Len(Before(Texts(q), j))

\* What a line adds to it.
LEMMA LineShows ==
  ASSUME NEW q \in Seq(Line), NEW j \in 0..Len(q) - 1
  PROVE  /\ Above(q, j) \in Nat /\ Above(q, j + 1) = Above(q, j) + Len(ListingOf(q[j + 1]))
         /\ Len(ListingOf(q[j + 1])) \in Nat /\ Len(ListingOf(q[j + 1])) >= 2
         /\ Len(ListingOf(q[j + 1])) = Len(q[j + 1].items) + 2
<1>1. j \in 0..Len(Texts(q)) - 1 /\ j + 1 \in 1..Len(q) /\ Texts(q) \in Seq(Seq(Output))
      /\ Len(Texts(q)) = Len(q)
  BY TextsAre
<1>2. Texts(q)[j + 1] = ListingOf(q[j + 1])
  BY <1>1, TextsAre
<1>3. q[j + 1] \in Line
  BY <1>1
<1>4. ListingOf(q[j + 1]) \in Seq(Output) /\ Len(ListingOf(q[j + 1])) = Len(q[j + 1].items) + 2
  BY <1>3, ListingOfIs
<1>5. Len(q[j + 1].items) \in Nat
  BY <1>3 DEF Line
<1>6. /\ Before(Texts(q), j) \in Seq(Output)
      /\ Len(Before(Texts(q), j + 1)) = Len(Before(Texts(q), j)) + Len(Texts(q)[j + 1])
  BY <1>1, FlattenHolds
<1>7. Len(Before(Texts(q), j)) \in Nat
  BY <1>6
<1> QED BY <1>2, <1>4, <1>5, <1>6, <1>7 DEF Above

\* More lines list no less.
LEMMA LinesShow ==
  ASSUME NEW q \in Seq(Line), NEW j \in 0..Len(q), NEW m \in 0..Len(q), j <= m
  PROVE  Above(q, j) \in Nat /\ Above(q, m) \in Nat /\ Above(q, j) <= Above(q, m)
<1>1. /\ j \in 0..Len(Texts(q)) /\ m \in 0..Len(Texts(q)) /\ Texts(q) \in Seq(Seq(Output))
  BY TextsAre
<1>2. Holds(Before(Texts(q), m), 0, Before(Texts(q), j))
  BY <1>1, BeforeStays
<1>3. Before(Texts(q), j) \in Seq(Output) /\ Before(Texts(q), m) \in Seq(Output)
  BY <1>1, BeforeSteps
<1>4. Len(Before(Texts(q), j)) \in Nat /\ Len(Before(Texts(q), m)) \in Nat
  BY <1>3
<1>5. 0 + Len(Before(Texts(q), j)) <= Len(Before(Texts(q), m))
  BY <1>2 DEF Holds
<1> QED BY <1>4, <1>5 DEF Above

\* How much is listed tells what line it is.
LEMMA LineBefore ==
  ASSUME NEW q \in Seq(Line), NEW j, NEW a, NEW m, NEW b, Where(q, j, a), Where(q, m, b), j < m
  PROVE  Above(q, j) + a < Above(q, m) + b
<1>1. /\ j \in 0..Len(q) - 1 /\ j + 1 \in 0..Len(q) /\ m \in 0..Len(q) /\ j + 1 <= m
      /\ a \in Nat /\ b \in Nat /\ j # Len(q)
  BY DEF Where
<1>2. PICK x, y, z, n : x = Above(q, j) /\ y = Above(q, j + 1) /\ z = Above(q, m)
                        /\ n = Len(ListingOf(q[j + 1]))
  OBVIOUS
<1>3. x \in Nat /\ n \in Nat /\ y = x + n
  BY <1>1, <1>2, LineShows
<1>4. y \in Nat /\ z \in Nat /\ y <= z
  BY <1>1, <1>2, LinesShow
<1>5. a < n
  BY <1>1, <1>2 DEF Where
<1> QED BY <1>1, <1>2, <1>3, <1>4, <1>5

\* Two places of the same length are the same.
LEMMA LineUnique ==
  ASSUME NEW q \in Seq(Line), NEW j, NEW a, NEW m, NEW b, Where(q, j, a), Where(q, m, b),
         Above(q, j) + a = Above(q, m) + b
  PROVE  j = m /\ a = b
<1>1. j \in 0..Len(q) /\ m \in 0..Len(q) /\ a \in Nat /\ b \in Nat
  BY DEF Where
<1>2. Above(q, j) \in Nat /\ Above(q, m) \in Nat
  <2>1. j <= j /\ m <= m
    BY <1>1
  <2> QED BY <1>1, <2>1, LinesShow
<1>3. ~(j < m)
  <2>1. SUFFICES ASSUME j < m PROVE FALSE
    OBVIOUS
  <2>2. Above(q, j) + a < Above(q, m) + b
    BY <2>1, LineBefore
  <2> QED BY <1>1, <1>2, <2>2
<1>4. ~(m < j)
  <2>1. SUFFICES ASSUME m < j PROVE FALSE
    OBVIOUS
  <2>2. Above(q, m) + b < Above(q, j) + a
    BY <2>1, LineBefore
  <2> QED BY <1>1, <1>2, <2>2
<1>5. j = m
  BY <1>1, <1>3, <1>4
<1> QED BY <1>1, <1>2, <1>5

\* All files are whole.
AllIntact == \A i \in 1..Len(files) : Intact(i)
\* So much is listed: the programs before, the lines before and a items.
Reached(j, a) ==
  Where(Program, j, a) /\ Len(out) = Len(Before(Listings, Len(verdicts))) + (Above(Program, j) + a)

\* The length of what is listed.
LEMMA ListedLength ==
  ASSUME BasicTypes, AllIntact, NEW t \in Seq(Output), Listed(t)
  PROVE  Len(out) = Len(Before(Listings, Len(verdicts))) + Len(t)
<1>1. CommandLine /\ Len(verdicts) \in 0..Len(files) /\ out \in Seq(Output)
  BY DEF BasicTypes
<1>2. Before(Listings, Len(verdicts)) \in Seq(Output)
  BY <1>1, BeforeTyped
<1>3. Heard(Len(verdicts))
  BY <1>1 DEF Heard, AllIntact
<1>4. Bare(out) = Before(Listings, Len(verdicts)) \o t
  BY <1>3 DEF Listed
<1>5. Len(Bare(out)) = Len(out)
  BY <1>1 DEF Bare
<1>6. Len(Before(Listings, Len(verdicts)) \o t) = Len(Before(Listings, Len(verdicts))) + Len(t)
  BY <1>2
<1> QED BY <1>4, <1>5, <1>6

\* Where the listing is, at each stage of reading a file.
LEMMA ReachedLine ==
  ASSUME BasicInv, AllIntact, stage \in Reads
  PROVE  \E j, a :
           /\ Reached(j, a)
           /\ stage = "line" => a = 0
           /\ stage = "number" => a = 0 /\ j < Len(Program) /\ AtNumber(j)
           /\ stage = "bytes" => a > 0 /\ j < Len(Program) /\ InLine(j, a - 1)
<1>0. /\ BasicTypes /\ CommandLine /\ Current \in 1..Len(files) /\ Reading /\ Program \in Seq(Line)
  <2>1. BasicTypes /\ CommandLine /\ Current \in 1..Len(files) /\ Reading
    BY DEF BasicInv, BasicTypes
  <2>2. Current \in 1..Len(programs) /\ programs \in Seq(Seq(Line))
    BY <2>1 DEF CommandLine
  <2> QED BY <2>1, <2>2 DEF Program
<1>1. Intact(Current) /\ Good(Current) /\ ~CutOff(Current)
  BY <1>0, CutNotIntact DEF AllIntact, Good
<1>2. \/ stage = "line" /\ \E j \in 0..Len(Program) : AtLine(j)
      \/ stage = "number" /\ \E j \in 0..Len(Program) - 1 : AtNumber(j)
      \/ stage = "bytes" /\ \E j \in 0..Len(Program) - 1 :
                              \E k \in 0..Len(Program[j + 1].items) : AtBytes(j, k)
  BY <1>0, <1>1 DEF Reading, Overran
<1>3. PICK q : q = Program
  OBVIOUS
<1>4. Len(q) \in Nat /\ q \in Seq(Line) /\ Texts(q) \in Seq(Seq(Output)) /\ Len(Texts(q)) = Len(q)
  BY <1>0, <1>3, TextsAre
<1>5. \A j \in 0..Len(q) : Before(Texts(q), j) \in Seq(Output) /\ Len(Before(Texts(q), j)) \in Nat
  BY <1>4, BeforeSteps
<1>6. ASSUME NEW j \in 0..Len(q), Listed(Before(Texts(q), j)) PROVE Reached(j, 0)
  <2>1. Where(q, j, 0)
    <3>1. CASE j = Len(q)
      BY <1>4, <3>1 DEF Where
    <3>2. CASE j # Len(q)
      <4>1. j \in 0..Len(q) - 1
        BY <1>4, <3>2
      <4>2. Len(ListingOf(q[j + 1])) \in Nat /\ Len(ListingOf(q[j + 1])) >= 2
        BY <1>4, <4>1, LineShows
      <4> QED BY <3>2, <4>2 DEF Where
    <3> QED BY <3>1, <3>2
  <2>2. Len(out) = Len(Before(Listings, Len(verdicts))) + Len(Before(Texts(q), j))
    BY <1>0, <1>5, <1>6, ListedLength
  <2>3. Len(Before(Texts(q), j)) + 0 = Len(Before(Texts(q), j))
    BY <1>5
  <2> QED BY <1>3, <2>1, <2>2, <2>3 DEF Reached, Above
<1>7. CASE stage = "line"
  <2>1. PICK j \in 0..Len(q) : AtLine(j)
    BY <1>2, <1>3, <1>7
  <2>2. Reached(j, 0)
    BY <1>3, <1>6, <2>1 DEF AtLine
  <2> QED BY <1>7, <2>2
<1>8. CASE stage = "number"
  <2>1. PICK j \in 0..Len(q) - 1 : AtNumber(j)
    BY <1>2, <1>3, <1>8
  <2>2. j \in 0..Len(q) /\ j < Len(q)
    BY <1>4
  <2>3. Reached(j, 0)
    BY <1>3, <1>6, <2>1, <2>2 DEF AtNumber
  <2> QED BY <1>3, <1>8, <2>1, <2>2, <2>3
<1>9. CASE stage = "bytes"
  <2>1. PICK j \in 0..Len(q) - 1 : \E k \in 0..Len(q[j + 1].items) : AtBytes(j, k)
    BY <1>2, <1>3, <1>9
  <2>2. PICK k \in 0..Len(q[j + 1].items) : AtBytes(j, k)
    BY <2>1
  <2>3. j \in 0..Len(q) /\ j < Len(q) /\ j # Len(q) /\ j + 1 \in 1..Len(q) /\ q[j + 1] \in Line
    BY <1>4
  <2>4. PICK t, n : t = ListingOf(q[j + 1]) /\ n = Len(q[j + 1].items)
    OBVIOUS
  <2>5. t \in Seq(Output) /\ Len(t) = n + 2 /\ n \in Nat /\ k \in 0..n
    BY <2>3, <2>4, ListingOfIs DEF Line
  <2>6. PICK b : b = Before(Texts(q), j)
    OBVIOUS
  <2>7. b \in Seq(Output) /\ Len(b) \in Nat
    BY <1>5, <2>3, <2>6
  <2>8. SubSeq(t, 1, k + 1) \in Seq(Output) /\ Len(SubSeq(t, 1, k + 1)) = k + 1
    <3>1. k + 1 \in 1..Len(t)
      BY <2>5
    <3> QED BY <2>5, <3>1
  <2>9. b \o SubSeq(t, 1, k + 1) \in Seq(Output) /\ Len(b \o SubSeq(t, 1, k + 1)) = Len(b) + (k + 1)
    BY <2>7, <2>8
  <2>10. Listed(b \o SubSeq(t, 1, k + 1)) /\ InLine(j, k)
    BY <1>3, <2>2, <2>4, <2>6 DEF AtBytes
  <2>11. Len(out) = Len(Before(Listings, Len(verdicts))) + (Len(b) + (k + 1))
    BY <1>0, <2>9, <2>10, ListedLength
  <2>12. Where(q, j, k + 1)
    BY <2>3, <2>4, <2>5 DEF Where
  <2>13. Reached(j, k + 1)
    BY <1>3, <2>6, <2>11, <2>12 DEF Reached, Above
  <2>14. k + 1 > 0 /\ (k + 1) - 1 = k
    BY <2>5
  <2> QED BY <1>3, <1>9, <2>3, <2>10, <2>13, <2>14
<1> QED BY <1>2, <1>7, <1>8, <1>9

\* What an item of the listing says of the indentation.
Margin(x) == IF x.kind = "number" THEN <<x.b>> ELSE <<>>
Margins(o) == [k \in DOMAIN o |-> Margin(o[k])]

LEMMA MarginTyped ==
  ASSUME NEW x \in Output PROVE Margin(x) \in Seq(Nat)
<1>1. x.b \in Nat
  BY DEF Output
<1> QED BY <1>1 DEF Margin

\* One more item adds its own.
LEMMA MarginsAppend ==
  ASSUME NEW o \in Seq(Output), NEW x \in Output
  PROVE  /\ FlattenSeq(Margins(o)) \in Seq(Nat)
         /\ FlattenSeq(Margins(Append(o, x))) = FlattenSeq(Margins(o)) \o Margin(x)
<1>1. \A q \in Seq(Output) : /\ Margins(q) \in Seq(Seq(Nat)) /\ Len(Margins(q)) = Len(q)
                             /\ \A k \in 1..Len(q) : Margins(q)[k] = Margin(q[k])
  <2>1. ASSUME NEW q \in Seq(Output)
        PROVE  /\ Margins(q) \in Seq(Seq(Nat)) /\ Len(Margins(q)) = Len(q)
               /\ \A k \in 1..Len(q) : Margins(q)[k] = Margin(q[k])
    <3>1. DOMAIN q = 1..Len(q) /\ Len(q) \in Nat /\ \A k \in 1..Len(q) : q[k] \in Output
      OBVIOUS
    <3>2. Margins(q) = [k \in 1..Len(q) |-> Margin(q[k])]
      BY <3>1 DEF Margins
    <3>3. \A k \in 1..Len(q) : Margin(q[k]) \in Seq(Nat)
      BY <3>1, MarginTyped
    <3> QED BY <3>1, <3>2, <3>3
  <2> QED BY <2>1
<1>2. PICK r : r = Append(o, x)
  OBVIOUS
<1>3. /\ r \in Seq(Output) /\ Len(r) = Len(o) + 1 /\ r[Len(o) + 1] = x /\ Len(o) \in Nat
      /\ \A k \in 1..Len(o) : r[k] = o[k]
  BY <1>2
<1>4. PICK u, m : u = Margins(o) /\ m = Margin(x)
  OBVIOUS
<1>5. u \in Seq(Seq(Nat)) /\ m \in Seq(Nat) /\ Len(u) = Len(o)
  BY <1>1, <1>4, MarginTyped
<1>6. Margins(r) = Append(u, m)
  <2>1. PICK s : s = Append(u, m)
    OBVIOUS
  <2>2. /\ s \in Seq(Seq(Nat)) /\ Len(s) = Len(o) + 1 /\ s[Len(o) + 1] = m
        /\ \A k \in 1..Len(o) : s[k] = u[k]
    BY <1>3, <1>5, <2>1
  <2>3. Margins(r) \in Seq(Seq(Nat)) /\ Len(Margins(r)) = Len(o) + 1
    BY <1>1, <1>3
  <2>4. ASSUME NEW k \in 1..Len(o) + 1 PROVE Margins(r)[k] = s[k]
    <3>1. Margins(r)[k] = Margin(r[k])
      BY <1>1, <1>3
    <3>2. CASE k \in 1..Len(o)
      BY <1>1, <1>3, <1>4, <2>2, <3>1, <3>2
    <3>3. CASE k = Len(o) + 1
      BY <1>3, <1>4, <2>2, <3>1, <3>3
    <3> QED BY <1>3, <3>2, <3>3
  <2>5. Margins(r) = s
    BY <2>2, <2>3, <2>4
  <2> QED BY <2>1, <2>5
<1>7. FlattenSeq(Append(u, m)) = FlattenSeq(u) \o m
  BY <1>5, FlattenAppend
<1>8. FlattenSeq(u) \in Seq(Nat)
  BY <1>5, FlattenTyped
<1> QED BY <1>2, <1>4, <1>6, <1>7, <1>8

LEMMA IndentationsAre == Indentations = FlattenSeq(Margins(out)) /\ Margins(<<>>) = <<>>
  BY DEF Indentations, Margins, Margin

\* Only a number adds an indentation.
LEMMA ItemIndents ==
  ASSUME out \in Seq(Output), NEW x \in Output, out' = Append(out, x)
  PROVE  /\ Indentations \in Seq(Nat)
         /\ x.kind = "number" => Indentations' = Append(Indentations, x.b)
         /\ x.kind # "number" => Indentations' = Indentations
<1>1. PICK s, o : s = Indentations /\ o = Append(out, x)
  OBVIOUS
<1>2. s = FlattenSeq(Margins(out)) /\ Indentations' = FlattenSeq(Margins(o))
  <2>1. Indentations' = FlattenSeq(Margins(out'))
    BY DEF Indentations, Margins, Margin
  <2> QED BY <1>1, <2>1, IndentationsAre
<1>3. s \in Seq(Nat) /\ Indentations' = s \o Margin(x)
  BY <1>1, <1>2, MarginsAppend
<1>4. x.b \in Nat
  BY DEF Output
<1>5. s \o <<x.b>> = Append(s, x.b) /\ s \o <<>> = s
  BY <1>3, <1>4
<1> QED BY <1>1, <1>3, <1>5 DEF Margin

\* The indentations that are wanted, of a program and of all.
Exp(q) == [i \in DOMAIN q |-> Indentation(q, i)]
Exps == [n \in DOMAIN programs |-> Exp(programs[n])]

\* All files are whole, and their programs are such that loops can be told.
AllSaved ==
  /\ AllIntact
  /\ \A i \in 1..Len(files) : Balanced(programs[i]) /\ NoLoopsInStrings(programs[i])

\* They are those that LineLoops speaks of.
LEMMA ExpIs ==
  ASSUME CommandLine, NEW q \in Seq(Line), Balanced(q)
  PROVE  /\ Exp(q) \in Seq(Nat) /\ Len(Exp(q)) = Len(q)
         /\ \A i \in 1..Len(q) : Exp(q)[i] = Bit(listo, 1) + Within(q, i) /\ Exp(q)[i] \in Nat
<1>1. listo \in 0..7 /\ DOMAIN q = 1..Len(q) /\ Len(q) \in Nat
  BY DEF CommandLine
<1>2. Bit(listo, 1) \in Nat
  BY <1>1 DEF Bit
<1>3. ASSUME NEW i \in 1..Len(q)
      PROVE  Indentation(q, i) = Bit(listo, 1) + Within(q, i) /\ Indentation(q, i) \in Nat
  <2>1. Within(q, i) \in Nat /\ Indentation(q, i) = Bit(listo, 1) + Within(q, i)
    BY <1>1, LineLoops
  <2> QED BY <1>2, <2>1
<1>4. Exp(q) = [i \in 1..Len(q) |-> Indentation(q, i)]
  BY <1>1 DEF Exp
<1> QED BY <1>1, <1>3, <1>4

LEMMA ExpsAre ==
  ASSUME CommandLine, AllSaved
  PROVE  /\ Exps \in Seq(Seq(Nat)) /\ Len(Exps) = Len(files) /\ Len(files) \in Nat
         /\ \A i \in 1..Len(files) : Exps[i] = Exp(programs[i])
         /\ Expected = FlattenSeq(Exps)
<1>1. /\ Len(programs) = Len(files) /\ programs \in Seq(Seq(Line)) /\ DOMAIN programs = 1..Len(files)
      /\ Len(files) \in Nat
  BY DEF CommandLine
<1>2. ASSUME NEW i \in 1..Len(files) PROVE Exp(programs[i]) \in Seq(Nat)
  <2>1. programs[i] \in Seq(Line) /\ Balanced(programs[i])
    BY <1>1 DEF AllSaved
  <2> QED BY <2>1, ExpIs
<1>3. Exps = [i \in 1..Len(files) |-> Exp(programs[i])]
  BY <1>1 DEF Exps
<1>4. Expected = FlattenSeq(Exps)
  BY DEF Expected, Over, Exps, Exp
<1> QED BY <1>1, <1>2, <1>3, <1>4

\* The indentations of the programs before, and of the first m lines of this one.
Indented(m) == Indentations = Before(Exps, Len(verdicts)) \o SubSeq(Exp(Program), 1, m)

\* Between two lines, and in line j + 1 behind its number.
LoopsAtLine(j) == Reached(j, 0) /\ indent = Deep(Program, j) /\ Indented(j)
LoopsInLine(j, a) ==
  /\ Reached(j, a) /\ a > 0 /\ j < Len(Program)
  /\ indent = Within(Program, j + 1) /\ Indented(j + 1)

\* How far lines are indented, as long as all that was saved is read.
LoopsInv ==
  AllSaved =>
    /\ stage \notin Reads => Indentations = Before(Exps, Len(verdicts))
    /\ stage \in {"line", "number"} => \E j : LoopsAtLine(j)
    /\ stage = "bytes" => \E j, a : LoopsInLine(j, a)

\* They depend on the command line alone.
LEMMA SavedStays ==
  ASSUME UNCHANGED commandLine
  PROVE  /\ AllSaved' <=> AllSaved
         /\ AllIntact' <=> AllIntact
         /\ Exps' = Exps /\ Listings' = Listings
         /\ \A q, j : /\ Exp(q)' = Exp(q) /\ Deep(q, j)' = Deep(q, j)
                      /\ Within(q, j)' = Within(q, j)
<1>1. /\ listo' = listo /\ files' = files /\ programs' = programs /\ dialect' = dialect
  BY DEF commandLine
<1>2. AllIntact' <=> AllIntact
  BY <1>1 DEF AllIntact, Intact
<1>3. AllSaved' <=> AllSaved
  BY <1>1, <1>2 DEF AllSaved
<1>4. \A q, j : Indentation(q, j)' = Indentation(q, j)
  BY <1>1 DEF Indentation
<1>5. \A q : Exp(q)' = Exp(q)
  BY <1>1 DEF Exp, Indentation
<1>6. Exps' = Exps
  BY <1>1 DEF Exps, Exp, Indentation
<1>7. \A q, j : Deep(q, j)' = Deep(q, j) /\ Within(q, j)' = Within(q, j)
  BY <1>1 DEF Deep, Within, Twice
<1>8. Listings' = Listings
  BY <1>1 DEF Listings
<1> QED BY <1>2, <1>3, <1>5, <1>6, <1>7, <1>8

\* The program that is read.
LEMMA ProgramFacts ==
  ASSUME BasicInv, AllSaved, Current \in 1..Len(files), NEW q, q = Program
  PROVE  /\ CommandLine /\ BasicTypes /\ AllIntact /\ Intact(Current) /\ listo \in 0..7
         /\ q \in Seq(Line) /\ Len(q) \in Nat /\ Balanced(q) /\ NoLoopsInStrings(q)
         /\ \A i \in 1..Len(q) : Tokenised(dialect, q[i].items)
         /\ Exp(q) \in Seq(Nat) /\ Len(Exp(q)) = Len(q)
         /\ Len(verdicts) \in 0..Len(files) - 1 /\ Len(verdicts) \in 0..Len(files)
         /\ out \in Seq(Output) /\ indent \in Int
         /\ Before(Exps, Len(verdicts)) \in Seq(Nat)
         /\ Before(Exps, Current) = Before(Exps, Len(verdicts)) \o Exp(q)
         /\ Len(Before(Listings, Len(verdicts))) \in Nat
<1>1. CommandLine /\ BasicTypes
  BY DEF BasicInv, BasicTypes
<1>2. AllIntact /\ Intact(Current)
  BY DEF AllSaved, AllIntact
<1>3. Balanced(q) /\ NoLoopsInStrings(q)
  BY DEF AllSaved, Program
<1>4. listo \in 0..7 /\ Len(programs) = Len(files) /\ programs \in Seq(Seq(Line)) /\ Len(files) \in Nat
  BY <1>1 DEF CommandLine
<1>5. q \in Seq(Line) /\ Len(q) \in Nat
  <2>1. q \in Seq(Line)
    BY <1>4 DEF Program
  <2> QED BY <2>1
<1>6. \A i \in 1..Len(q) : Tokenised(dialect, q[i].items)
  <2>1. Savable(dialect, q)
    BY <1>1, ProgramSavable DEF Program
  <2> QED BY <2>1 DEF Savable
<1>7. Exp(q) \in Seq(Nat) /\ Len(Exp(q)) = Len(q)
  BY <1>1, <1>3, <1>5, ExpIs
<1>8. Len(verdicts) \in Nat /\ out \in Seq(Output) /\ indent \in Int
  BY <1>1 DEF BasicTypes
<1>9. /\ Len(verdicts) \in 0..Len(files) - 1 /\ Len(verdicts) \in 0..Len(files)
      /\ Len(verdicts) + 1 = Current
  BY <1>4, <1>8 DEF Current
<1>10. Exps \in Seq(Seq(Nat)) /\ Len(Exps) = Len(files) /\ Exps[Current] = Exp(q)
  BY <1>1, ExpsAre DEF Program
<1>11. /\ Before(Exps, Len(verdicts)) \in Seq(Nat)
       /\ Before(Exps, Len(verdicts) + 1) = Before(Exps, Len(verdicts)) \o Exps[Len(verdicts) + 1]
  BY <1>9, <1>10, BeforeSteps
<1>12. Before(Listings, Len(verdicts)) \in Seq(Output)
  BY <1>1, <1>9, BeforeTyped
<1>13. Len(Before(Listings, Len(verdicts))) \in Nat
  BY <1>12
<1> QED BY <1>1, <1>2, <1>3, <1>4, <1>5, <1>6, <1>7, <1>8, <1>9, <1>10, <1>11, <1>13

\* Two places that are reached are the same.
LEMMA ReachedOnce ==
  ASSUME BasicInv, AllSaved, Current \in 1..Len(files),
         NEW j, NEW a, NEW m, NEW b, Reached(j, a), Reached(m, b)
  PROVE  j = m /\ a = b
<1>1. PICK q, x : q = Program /\ x = Len(Before(Listings, Len(verdicts)))
  OBVIOUS
<1>2. q \in Seq(Line) /\ x \in Nat /\ Len(q) \in Nat
  BY <1>1, ProgramFacts
<1>3. /\ Where(q, j, a) /\ Where(q, m, b)
      /\ x + (Above(q, j) + a) = x + (Above(q, m) + b)
  BY <1>1 DEF Reached
<1>4. j \in 0..Len(q) /\ m \in 0..Len(q) /\ a \in Nat /\ b \in Nat
  BY <1>3 DEF Where
<1>5. Above(q, j) \in Nat /\ Above(q, m) \in Nat
  <2>1. j <= j /\ m <= m
    BY <1>2, <1>4
  <2> QED BY <1>2, <1>4, <2>1, LinesShow
<1>6. Above(q, j) + a = Above(q, m) + b
  BY <1>2, <1>3, <1>4, <1>5
<1> QED BY <1>2, <1>3, <1>6, LineUnique

\* One more item of a line is listed: the next of its items, or the line is at its end.
LEMMA ReachedMore ==
  ASSUME BasicInv, AllSaved, Current \in 1..Len(files), GoesOn,
         NEW j, NEW a, Reached(j, a), j < Len(Program), NEW x \in Output, out' = Append(out, x)
  PROVE  /\ j \in 0..Len(Program) - 1 /\ a \in Nat /\ a < Len(ListingOf(Program[j + 1]))
         /\ a + 1 < Len(ListingOf(Program[j + 1])) => Reached(j, a + 1)'
         /\ a + 1 = Len(ListingOf(Program[j + 1])) => Reached(j + 1, 0)'
<1>1. PICK q, y : q = Program /\ y = Len(Before(Listings, Len(verdicts)))
  OBVIOUS
<1>2. q \in Seq(Line) /\ y \in Nat /\ Len(q) \in Nat /\ out \in Seq(Output)
  BY <1>1, ProgramFacts
<1>3. Where(q, j, a) /\ Len(out) = y + (Above(q, j) + a)
  BY <1>1 DEF Reached
<1>4. /\ j \in 0..Len(q) - 1 /\ j \in 0..Len(q) /\ j # Len(q) /\ a \in Nat /\ a < Len(ListingOf(q[j + 1]))
      /\ j + 1 \in 0..Len(q)
  BY <1>1, <1>2, <1>3 DEF Where
<1>5. PICK n, d : n = Len(ListingOf(q[j + 1])) /\ d = Above(q, j)
  OBVIOUS
<1>6. d \in Nat /\ n \in Nat /\ Above(q, j + 1) = d + n
  BY <1>2, <1>4, <1>5, LineShows
<1>7. Len(out') = Len(out) + 1
  BY <1>2
<1>8. Len(out') = y + (d + (a + 1))
  <2>1. Len(out) = y + (d + a)
    BY <1>3, <1>5
  <2>2. y \in Nat /\ d \in Nat /\ a \in Nat
    BY <1>2, <1>4, <1>6
  <2>3. (y + (d + a)) + 1 = y + (d + (a + 1))
    BY <2>2
  <2> QED BY <1>7, <2>1, <2>3
<1>9. /\ Program' = q /\ verdicts' = verdicts /\ Listings' = Listings
  BY <1>1, FileStays, SavedStays DEF GoesOn
<1>10. Len(Before(Listings, Len(verdicts)))' = y
  BY <1>1, <1>9
<1>11. ASSUME a + 1 < n PROVE Reached(j, a + 1)'
  <2>1. Where(q, j, a + 1)
    BY <1>4, <1>5, <1>11 DEF Where
  <2> QED BY <1>5, <1>8, <1>9, <1>10, <2>1 DEF Reached
<1>12. ASSUME a + 1 = n PROVE Reached(j + 1, 0)'
  <2>1. Where(q, j + 1, 0)
    <3>1. CASE j + 1 = Len(q)
      BY <1>4, <3>1 DEF Where
    <3>2. CASE j + 1 # Len(q)
      <4>1. j + 1 \in 0..Len(q) - 1
        BY <1>2, <1>4, <3>2
      <4>2. Len(ListingOf(q[(j + 1) + 1])) \in Nat /\ Len(ListingOf(q[(j + 1) + 1])) >= 2
        BY <1>2, <4>1, LineShows
      <4>3. 0 < Len(ListingOf(q[(j + 1) + 1]))
        BY <4>2
      <4> QED BY <1>4, <3>2, <4>3 DEF Where
    <3> QED BY <3>1, <3>2
  <2>2. Len(out') = y + (Above(q, j + 1) + 0)
    BY <1>6, <1>8, <1>12
  <2> QED BY <1>9, <1>10, <2>1, <2>2 DEF Reached
<1> QED BY <1>1, <1>4, <1>5, <1>11, <1>12

\* A step between two lines that goes on in the file lists nothing.
LEMMA LineQuiet ==
  ASSUME BasicTypes, stage = "line", BasicNext, GoesOn
  PROVE  stage' \in {"line", "number"} /\ UNCHANGED <<out, indent>>
<1>0. stage' # "open"
  BY DEF GoesOn, Reads
<1>1. \A v : ~Ends(v)
  BY <1>0 DEF Ends, Dealt
<1>2. CASE EndOfFile \/ NoCarriageReturn \/ BigEnd \/ BigCut \/ LittleEnd \/ LittleCut
  BY <1>1, <1>2, EndingsEnd
<1>3. CASE BigBody
  <2>1. \E n, h, m, d : DecodeLine(n, h, m, d)
    BY <1>1, <1>3, BigBodyDoes
  <2> QED BY <2>1 DEF DecodeLine
<1>4. CASE LittleBody
  <2>1. CASE \E n, h, m, d : DecodeLine(n, h, m, d)
    BY <2>1 DEF DecodeLine
  <2>2. CASE UNCHANGED <<commandLine, verdicts, exitval, stage, line, told, out>>
    BY <2>2 DEF line
  <2> QED BY <1>1, <1>4, <2>1, <2>2, LittleBodyDoes
<1>5. CASE Decoding
  BY <1>5, DecodingDoes
<1> QED
  BY <1>2, <1>3, <1>4, <1>5 DEF BasicNext, Decoding, Open, Exit, Number, EndLine

\* So it indents nothing.
LEMMA LineStepIndents ==
  ASSUME BasicInv, LoopsInv, stage = "line", BasicNext, GoesOn PROVE LoopsInv'
<1>1. SUFFICES ASSUME AllSaved PROVE \E j : LoopsAtLine(j)'
  <2>1. stage' \in {"line", "number"} /\ stage' \in Reads /\ stage' # "bytes"
    BY LineQuiet DEF GoesOn, BasicInv
  <2>2. AllSaved' <=> AllSaved
    BY SavedStays DEF GoesOn
  <2> QED BY <1>1, <2>1, <2>2 DEF LoopsInv
<1>2. PICK j : LoopsAtLine(j)
  BY <1>1 DEF LoopsInv
<1>3. UNCHANGED <<out, indent, verdicts>> /\ Program' = Program /\ Exps' = Exps /\ Listings' = Listings
  BY LineQuiet, FileStays, SavedStays DEF GoesOn, BasicInv
<1>4. PICK q : q = Program
  OBVIOUS
<1>5. Exp(q)' = Exp(q) /\ Deep(q, j)' = Deep(q, j)
  BY SavedStays DEF GoesOn
<1>6. Exp(Program)' = Exp(Program) /\ Deep(Program, j)' = Deep(Program, j)
  <2>1. Exp(Program)' = Exp(q)' /\ Deep(Program, j)' = Deep(q, j)'
    BY <1>3, <1>4 DEF Exp, Indentation, Deep, Twice
  <2> QED BY <1>4, <1>5, <2>1
<1>7. Indentations' = Indentations
  BY <1>3 DEF Indentations
<1>8. Reached(j, 0)'
  BY <1>2, <1>3 DEF LoopsAtLine, Reached
<1>9. Indented(j)'
  BY <1>2, <1>3, <1>6, <1>7 DEF LoopsAtLine, Indented
<1> QED BY <1>2, <1>3, <1>6, <1>8, <1>9 DEF LoopsAtLine

\* When a file is dealt with, all of it is listed.
LEMMA DealtIndents ==
  ASSUME BasicInv, BasicInv', LoopsInv, stage \in Reads, NEW v \in Verdict, Dealt(v)
  PROVE  LoopsInv'
<1>0. Current \in 1..Len(files) /\ BasicTypes /\ CommandLine
  BY InvFacts
<1>1. UNCHANGED commandLine /\ verdicts' = Append(verdicts, v) /\ out' = out /\ stage' = "open"
  BY DEF Dealt
<1>2. SUFFICES ASSUME AllSaved PROVE Indentations' = Before(Exps, Len(verdicts))'
  <2>1. AllSaved' <=> AllSaved
    BY <1>1, SavedStays
  <2> QED BY <1>1, <1>2, <2>1 DEF LoopsInv
<1>3. PICK q, y : q = Program /\ y = Len(Before(Listings, Len(verdicts)))
  OBVIOUS
<1>4. /\ q \in Seq(Line) /\ y \in Nat /\ Len(q) \in Nat /\ out \in Seq(Output) /\ AllIntact
      /\ Exp(q) \in Seq(Nat) /\ Len(Exp(q)) = Len(q) /\ Len(verdicts) \in 0..Len(files) - 1
      /\ Before(Exps, Current) = Before(Exps, Len(verdicts)) \o Exp(q)
  BY <1>0, <1>2, <1>3, ProgramFacts
<1>5. Len(verdicts') = Current
  <2>1. verdicts \in Seq(Verdict)
    BY <1>0 DEF BasicTypes
  <2> QED BY <1>1, <2>1 DEF Current
<1>6. Listings' = Listings /\ Exps' = Exps /\ files' = files /\ (AllIntact' <=> AllIntact)
  BY <1>1, SavedStays DEF commandLine
<1>7. Bare(out) = Before(Listings, Current)
  <2>1. Heard(Len(verdicts))'
    <3>1. Current \in Nat /\ Current <= Len(files)
      BY <1>0
    <3> QED BY <1>0, <1>4, <1>5, <1>6 DEF Heard, AllIntact
  <2>2. stage' \notin Reads
    BY <1>1 DEF Reads
  <2>3. (Bare(out) = Before(Listings, Len(verdicts)))'
    BY <2>1, <2>2 DEF BasicInv, Between
  <2>4. Bare(out)' = Bare(out)
    BY <1>1 DEF Bare
  <2> QED BY <1>5, <1>6, <2>3, <2>4
<1>8. Reached(Len(q), 0)
  <2>1. /\ Listings \in Seq(Seq(Output)) /\ Len(Listings) = Len(files)
        /\ Listings[Current] = Listing(q)
    BY <1>0, <1>3, ListingsAre DEF Program
  <2>2. Len(verdicts) \in 0..Len(Listings) - 1 /\ Len(verdicts) + 1 = Current
    BY <1>4, <2>1 DEF Current
  <2>3. Len(Before(Listings, Current)) = y + Len(Listing(q))
    BY <1>3, <2>1, <2>2, FlattenHolds
  <2>4. Listing(q) = Before(Texts(q), Len(q)) /\ Len(Listing(q)) \in Nat
    <3>1. /\ Texts(q) \in Seq(Seq(Output)) /\ Len(Texts(q)) = Len(q)
          /\ Listing(q) = FlattenSeq(Texts(q)) /\ Listing(q) \in Seq(Output)
      BY <1>4, TextsAre
    <3> QED BY <3>1, BeforeSteps
  <2>5. Len(Bare(out)) = Len(out)
    BY <1>4 DEF Bare
  <2>6. Len(out) = y + (Above(q, Len(q)) + 0)
    BY <1>7, <2>3, <2>4, <2>5 DEF Above
  <2>7. Where(q, Len(q), 0)
    BY <1>4 DEF Where
  <2> QED BY <1>3, <2>6, <2>7 DEF Reached
<1>9. Indented(Len(q))
  <2>1. CASE stage = "bytes"
    <3>1. PICK j, a : LoopsInLine(j, a)
      BY <1>2, <2>1 DEF LoopsInv
    <3>2. Reached(j, a) /\ a > 0
      BY <3>1 DEF LoopsInLine
    <3>3. a = 0
      BY <1>0, <1>2, <1>8, <3>2, ReachedOnce
    <3> QED BY <3>2, <3>3
  <2>2. CASE stage # "bytes"
    <3>1. stage \in {"line", "number"}
      BY <2>2 DEF Reads
    <3>2. PICK j : LoopsAtLine(j)
      BY <1>2, <3>1 DEF LoopsInv
    <3>3. Reached(j, 0) /\ Indented(j)
      BY <3>2 DEF LoopsAtLine
    <3>4. j = Len(q)
      BY <1>0, <1>2, <1>8, <3>3, ReachedOnce
    <3> QED BY <3>3, <3>4
  <2> QED BY <2>1, <2>2
<1>10. SubSeq(Exp(q), 1, Len(q)) = Exp(q)
  <2>1. PICK e : e = Exp(q)
    OBVIOUS
  <2>2. SubSeq(e, 1, Len(e)) = e
    BY <1>4, <2>1
  <2> QED BY <1>4, <2>1, <2>2
<1>11. Indentations = Before(Exps, Current)
  BY <1>3, <1>4, <1>9, <1>10 DEF Indented
<1>12. Indentations' = Indentations
  BY <1>1 DEF Indentations
<1> QED BY <1>5, <1>6, <1>11, <1>12

\* One element more of what comes behind another sequence.
LEMMA PartsOf ==
  ASSUME NEW S, NEW b \in Seq(S), NEW t \in Seq(S), NEW k \in 0..Len(t) - 1
  PROVE  Append(b \o SubSeq(t, 1, k), t[k + 1]) = b \o SubSeq(t, 1, k + 1)
<1>1. t[k + 1] \in S /\ k + 1 \in 1..Len(t) /\ k \in Nat /\ Len(t) \in Nat
  OBVIOUS
<1>2. PICK x : x = SubSeq(t, 1, k)
  OBVIOUS
<1>3. PICK y : y = SubSeq(t, 1, k + 1)
  OBVIOUS
<1>4. x \in Seq(S) /\ y \in Seq(S) /\ y = Append(x, t[k + 1])
  BY <1>1, <1>2, <1>3
<1>5. Append(b \o x, t[k + 1]) = b \o Append(x, t[k + 1])
  <2>1. x \in Seq(S) /\ t[k + 1] \in S
    BY <1>1, <1>4
  <2>2. \A z \in S : Append(b \o x, z) = b \o Append(x, z)
    BY <2>1, ConcatAppend
  <2> QED BY <2>1, <2>2
<1> QED BY <1>2, <1>3, <1>4, <1>5

LEMMA MaxNat == ASSUME NEW x \in Nat PROVE Max({x, 0}) = x
<1>1. x \in {x, 0} /\ \A y \in {x, 0} : x >= y
  OBVIOUS
<1>2. Max({x, 0}) \in {x, 0} /\ \A y \in {x, 0} : Max({x, 0}) >= y
  BY <1>1 DEF Max
<1> QED BY <1>2

\* The number of a line is listed with its indentation.
LEMMA NumberIndents ==
  ASSUME BasicInv, LoopsInv, Number PROVE LoopsInv'
<1>0. /\ stage = "number" /\ stage' = "bytes" /\ stage \in Reads /\ GoesOn
      /\ UNCHANGED <<commandLine, verdicts>>
  BY DEF Number, Reads, GoesOn
<1>1. SUFFICES ASSUME AllSaved PROVE \E j, a : LoopsInLine(j, a)'
  <2>1. AllSaved' <=> AllSaved
    BY <1>0, SavedStays
  <2>2. stage' \in Reads /\ stage' \notin {"line", "number"}
    BY <1>0 DEF Reads
  <2> QED BY <1>1, <2>1, <2>2 DEF LoopsInv
<1>2. Current \in 1..Len(files) /\ BasicTypes /\ CommandLine
  BY <1>0, InvFacts
<1>3. PICK q : q = Program
  OBVIOUS
<1>4. /\ q \in Seq(Line) /\ Len(q) \in Nat /\ out \in Seq(Output) /\ AllIntact /\ listo \in 0..7
      /\ Exp(q) \in Seq(Nat) /\ Len(Exp(q)) = Len(q) /\ Balanced(q) /\ NoLoopsInStrings(q)
      /\ \A i \in 1..Len(q) : Tokenised(dialect, q[i].items)
      /\ Before(Exps, Len(verdicts)) \in Seq(Nat)
  BY <1>1, <1>2, <1>3, ProgramFacts
<1>5. PICK j : LoopsAtLine(j)
  BY <1>0, <1>1 DEF LoopsInv
<1>6. PICK m : Reached(m, 0) /\ m < Len(q) /\ AtNumber(m)
  BY <1>0, <1>3, <1>4, ReachedLine
<1>7. j = m
  BY <1>1, <1>2, <1>5, <1>6, ReachedOnce DEF LoopsAtLine
<1>8. j \in 0..Len(q) - 1 /\ j + 1 \in 1..Len(q) /\ (j + 1) - 1 = j
  BY <1>3, <1>4, <1>6, <1>7 DEF Reached, Where
<1>9. LineIn(q[j + 1])
  BY <1>3, <1>6, <1>7 DEF AtNumber, InLine
<1>10. indent' = Within(q, j + 1)
  <2>1. Loops(NEXT, UNTIL) = Twice(One(q, j + 1, NEXT), One(q, j + 1, UNTIL))
    BY <1>2, <1>4, <1>8, <1>9, LoopsOfLine
  <2>2. Within(q, j + 1) = Deep(q, (j + 1) - 1) - Twice(One(q, j + 1, NEXT), One(q, j + 1, UNTIL))
    BY <1>4, <1>8, LineLoops
  <2>3. indent = Deep(q, j) /\ indent' = indent - Loops(NEXT, UNTIL)
    BY <1>3, <1>5 DEF LoopsAtLine, Number
  <2> QED BY <1>8, <2>1, <2>2, <2>3
<1>11. Within(q, j + 1) \in Nat
  BY <1>4, <1>8, LineLoops
<1>12. PICK b : b = Bit(listo, 1) + Max({indent', 0})
  OBVIOUS
<1>13. b = Exp(q)[j + 1] /\ b \in Nat
  <2>1. Max({indent', 0}) = indent'
    BY <1>10, <1>11, MaxNat
  <2> QED BY <1>2, <1>4, <1>8, <1>10, <1>12, <2>1, ExpIs
<1>14. PICK x : x = Out("number", number, b)
  OBVIOUS
<1>15. x \in Output /\ x.kind = "number" /\ x.b = b /\ out' = Append(out, x)
  <2>1. number \in Nat
    BY <1>2, ShortNat DEF BasicTypes
  <2> QED BY <1>12, <1>13, <1>14, <2>1 DEF Output, Out, Number
<1>16. Indentations' = Append(Indentations, b)
  BY <1>4, <1>15, ItemIndents
<1>17. Reached(j, 1)'
  <2>1. Len(ListingOf(q[j + 1])) \in Nat /\ Len(ListingOf(q[j + 1])) >= 2
    BY <1>4, <1>8, LineShows
  <2>2. 0 + 1 < Len(ListingOf(q[j + 1]))
    BY <2>1
  <2>3. Reached(j, 0) /\ j < Len(Program)
    BY <1>3, <1>6, <1>7
  <2>4. Reached(j, 0 + 1)'
    BY <1>0, <1>1, <1>2, <1>3, <1>15, <2>2, <2>3, ReachedMore
  <2> QED BY <2>4
<1>18. /\ Program' = q /\ verdicts' = verdicts /\ Exps' = Exps /\ Exp(q)' = Exp(q)
       /\ Within(q, j + 1)' = Within(q, j + 1)
  BY <1>0, <1>3, FileStays, SavedStays DEF GoesOn
<1>19. Indented(j + 1)'
  <2>1. Indentations = Before(Exps, Len(verdicts)) \o SubSeq(Exp(q), 1, j)
    BY <1>3, <1>5 DEF LoopsAtLine, Indented
  <2>2. Indentations' = Before(Exps, Len(verdicts)) \o SubSeq(Exp(q), 1, j + 1)
    BY <1>4, <1>8, <1>13, <1>16, <2>1, PartsOf
  <2>3. Exp(Program)' = Exp(q)'
    BY <1>18 DEF Exp, Indentation
  <2> QED BY <1>18, <2>2, <2>3 DEF Indented
<1>20. (indent = Within(Program, j + 1))'
  <2>1. Within(Program, j + 1)' = Within(q, j + 1)'
    BY <1>18 DEF Within, Twice
  <2> QED BY <1>10, <1>18, <2>1
<1>21. (j < Len(Program))' /\ 1 > 0
  BY <1>6, <1>7, <1>18
<1> QED BY <1>17, <1>19, <1>20, <1>21 DEF LoopsInLine

\* An item of a line changes no indentation, and is not the last thing a line lists.
LEMMA ItemStepIndents ==
  ASSUME BasicInv, LoopsInv, stage \in Reads, Decoding, GoesOn PROVE LoopsInv'
<1>0. BasicTypes /\ stage = "bytes" /\ p < len
  BY DecodingDoes DEF BasicInv
<1>1. PICK x \in Output, n \in 1..4 : Put(x, n) /\ x.kind # "number"
  <2>1. ~Fails
    BY DEF Fails, Dealt, GoesOn, Reads
  <2> QED BY <1>0, <2>1, DecodingDoes DEF Shows
<1>2. out' = Append(out, x) /\ UNCHANGED <<commandLine, verdicts, stage, indent>>
  BY <1>1 DEF Put
<1>3. SUFFICES ASSUME AllSaved PROVE \E j, a : LoopsInLine(j, a)'
  <2>1. AllSaved' <=> AllSaved
    BY <1>2, SavedStays
  <2>2. stage' \in Reads /\ stage' \notin {"line", "number"}
    BY <1>0, <1>2 DEF Reads
  <2> QED BY <1>3, <2>1, <2>2 DEF LoopsInv
<1>4. Current \in 1..Len(files) /\ CommandLine /\ dialect \in Dialect
  BY InvFacts
<1>5. PICK q : q = Program
  OBVIOUS
<1>6. /\ q \in Seq(Line) /\ Len(q) \in Nat /\ out \in Seq(Output) /\ AllIntact
      /\ \A i \in 1..Len(q) : Tokenised(dialect, q[i].items)
  BY <1>3, <1>4, <1>5, ProgramFacts
<1>7. PICK j, a : LoopsInLine(j, a)
  BY <1>0, <1>3 DEF LoopsInv
<1>8. PICK m, b : Reached(m, b) /\ InLine(m, b - 1)
  BY <1>0, <1>6, ReachedLine
<1>9. j = m /\ a = b
  BY <1>3, <1>4, <1>7, <1>8, ReachedOnce DEF LoopsInLine
<1>10. /\ j \in 0..Len(q) - 1 /\ j + 1 \in 1..Len(q) /\ q[j + 1] \in Line
       /\ a \in Nat /\ a > 0 /\ a < Len(ListingOf(q[j + 1])) /\ j # Len(q)
  BY <1>5, <1>6, <1>7 DEF LoopsInLine, Reached, Where
<1>11. PICK l : l = q[j + 1]
  OBVIOUS
<1>12. /\ l \in Line /\ Tokenised(dialect, l.items) /\ Len(l.items) \in Nat
       /\ Len(ListingOf(l)) = Len(l.items) + 2
  <2>1. l \in Line
    BY <1>10, <1>11
  <2> QED BY <1>6, <1>10, <1>11, <2>1, ListingOfIs DEF Line
<1>13. LineIn(l) /\ Through(l, a - 1) /\ a - 1 \in 0..Len(l.items)
  BY <1>5, <1>8, <1>9, <1>10, <1>11, <1>12 DEF InLine
<1>14. (a - 1) + 1 \in 0..Len(l.items)
  BY <1>0, <1>4, <1>12, <1>13, LineDecoded
<1>15. a + 1 < Len(ListingOf(q[j + 1]))
  BY <1>10, <1>11, <1>12, <1>14
<1>16. Reached(j, a + 1)'
  <2>1. Reached(j, a) /\ j < Len(Program)
    BY <1>7 DEF LoopsInLine
  <2> QED BY <1>2, <1>3, <1>4, <1>5, <1>15, <2>1, ReachedMore
<1>17. /\ Program' = q /\ Exps' = Exps /\ Exp(q)' = Exp(q)
       /\ Within(q, j + 1)' = Within(q, j + 1)
  BY <1>2, <1>5, FileStays, SavedStays
<1>18. Indentations' = Indentations
  BY <1>1, <1>2, <1>6, ItemIndents
<1>19. Indented(j + 1)'
  <2>1. Indentations = Before(Exps, Len(verdicts)) \o SubSeq(Exp(q), 1, j + 1)
    BY <1>5, <1>7 DEF LoopsInLine, Indented
  <2>2. Exp(Program)' = Exp(q)'
    BY <1>17 DEF Exp, Indentation
  <2> QED BY <1>2, <1>17, <1>18, <2>1, <2>2 DEF Indented
<1>20. (indent = Within(Program, j + 1))'
  <2>1. Within(Program, j + 1)' = Within(q, j + 1)'
    BY <1>17 DEF Within, Twice
  <2> QED BY <1>2, <1>5, <1>7, <1>17, <2>1 DEF LoopsInLine
<1>21. (j < Len(Program))' /\ a + 1 > 0
  BY <1>6, <1>10, <1>17
<1> QED BY <1>16, <1>19, <1>20, <1>21 DEF LoopsInLine

\* The end of a line adds the loops it begins.
LEMMA EndLineIndents ==
  ASSUME BasicInv, LoopsInv, EndLine PROVE LoopsInv'
<1>0. /\ stage = "bytes" /\ stage' = "line" /\ stage \in Reads /\ GoesOn /\ p = len
      /\ UNCHANGED <<commandLine, verdicts>>
  BY DEF EndLine, Reads, GoesOn
<1>1. SUFFICES ASSUME AllSaved PROVE \E j : LoopsAtLine(j)'
  <2>1. AllSaved' <=> AllSaved
    BY <1>0, SavedStays
  <2>2. stage' \in Reads /\ stage' # "bytes"
    BY <1>0 DEF Reads
  <2> QED BY <1>1, <2>1, <2>2 DEF LoopsInv
<1>2. Current \in 1..Len(files) /\ BasicTypes /\ CommandLine /\ dialect \in Dialect
  BY <1>0, InvFacts
<1>3. PICK q : q = Program
  OBVIOUS
<1>4. /\ q \in Seq(Line) /\ Len(q) \in Nat /\ out \in Seq(Output) /\ AllIntact /\ listo \in 0..7
      /\ Balanced(q) /\ NoLoopsInStrings(q)
      /\ \A i \in 1..Len(q) : Tokenised(dialect, q[i].items)
  BY <1>1, <1>2, <1>3, ProgramFacts
<1>5. PICK j, a : LoopsInLine(j, a)
  BY <1>0, <1>1 DEF LoopsInv
<1>6. PICK m, b : Reached(m, b) /\ InLine(m, b - 1)
  BY <1>0, <1>4, ReachedLine
<1>7. j = m /\ a = b
  BY <1>1, <1>2, <1>5, <1>6, ReachedOnce DEF LoopsInLine
<1>8. /\ j \in 0..Len(q) - 1 /\ j + 1 \in 1..Len(q) /\ q[j + 1] \in Line
      /\ a \in Nat /\ a > 0 /\ a < Len(ListingOf(q[j + 1])) /\ j # Len(q)
  BY <1>3, <1>4, <1>5 DEF LoopsInLine, Reached, Where
<1>9. PICK l : l = q[j + 1]
  OBVIOUS
<1>10. /\ l \in Line /\ Tokenised(dialect, l.items) /\ Len(l.items) \in Nat
       /\ Len(ListingOf(l)) = Len(l.items) + 2
  <2>1. l \in Line
    BY <1>8, <1>9
  <2> QED BY <1>4, <1>8, <1>9, <2>1, ListingOfIs DEF Line
<1>11. LineIn(l) /\ Through(l, a - 1) /\ a - 1 \in 0..Len(l.items)
  BY <1>3, <1>6, <1>7, <1>8, <1>9, <1>10 DEF InLine
<1>12. a - 1 = Len(l.items)
  BY <1>0, <1>2, <1>10, <1>11, LineEnds
<1>13. a + 1 = Len(ListingOf(q[j + 1]))
  BY <1>8, <1>9, <1>10, <1>12
<1>14. PICK x : x = Out("newline", 0, 0)
  OBVIOUS
<1>15. x \in Output /\ x.kind # "number" /\ out' = Append(out, x)
  BY <1>14 DEF Output, Out, EndLine
<1>16. Reached(j + 1, 0)'
  <2>1. Reached(j, a) /\ j < Len(Program)
    BY <1>5 DEF LoopsInLine
  <2> QED BY <1>0, <1>1, <1>2, <1>3, <1>13, <1>15, <2>1, ReachedMore
<1>17. indent' = Deep(q, j + 1)
  <2>1. Loops(FOR, REPEAT) = Twice(One(q, j + 1, FOR), One(q, j + 1, REPEAT))
    BY <1>2, <1>4, <1>8, <1>9, <1>11, LoopsOfLine
  <2>2. Deep(q, j + 1) = Within(q, j + 1) + Twice(One(q, j + 1, FOR), One(q, j + 1, REPEAT))
    BY <1>4, <1>8, LineLoops
  <2>3. indent = Within(q, j + 1) /\ indent' = indent + Loops(FOR, REPEAT)
    BY <1>3, <1>5 DEF LoopsInLine, EndLine
  <2> QED BY <2>1, <2>2, <2>3
<1>18. /\ Program' = q /\ Exps' = Exps /\ Exp(q)' = Exp(q)
       /\ Deep(q, j + 1)' = Deep(q, j + 1)
  BY <1>0, <1>3, FileStays, SavedStays
<1>19. Indentations' = Indentations
  BY <1>4, <1>15, ItemIndents
<1>20. Indented(j + 1)'
  <2>1. Indentations = Before(Exps, Len(verdicts)) \o SubSeq(Exp(q), 1, j + 1)
    BY <1>3, <1>5 DEF LoopsInLine, Indented
  <2>2. Exp(Program)' = Exp(q)'
    BY <1>18 DEF Exp, Indentation
  <2> QED BY <1>0, <1>18, <1>19, <2>1, <2>2 DEF Indented
<1>21. (indent = Deep(Program, j + 1))'
  <2>1. Deep(Program, j + 1)' = Deep(q, j + 1)'
    BY <1>18 DEF Deep, Twice
  <2> QED BY <1>17, <1>18, <2>1
<1> QED BY <1>16, <1>20, <1>21 DEF LoopsAtLine

\* At the beginning of a file nothing of it is listed, and no loop is open.
LEMMA OpenIndents ==
  ASSUME BasicInv, LoopsInv, Open PROVE LoopsInv'
<1>1. BasicTypes /\ CommandLine /\ stage \notin Reads /\ UNCHANGED commandLine
  BY DEF BasicInv, BasicTypes, Open, Reads, Ends, Dealt
<1>2. Current \in 1..Len(files)
  <2>1. Len(verdicts) < Len(files)
    BY DEF Open
  <2>2. verdicts \in Seq(Verdict) /\ files \in Seq(Input)
    BY <1>1 DEF BasicTypes, CommandLine
  <2>3. Len(verdicts) \in Nat /\ Len(files) \in Nat
    BY <2>2
  <2> QED BY <2>1, <2>3 DEF Current
<1>3. AllSaved' <=> AllSaved
  BY <1>1, SavedStays
<1>4. SUFFICES ASSUME AllSaved
               PROVE  stage' = "line" /\ LoopsAtLine(0)'
  <2>1. stage' = "line" => stage' \in Reads /\ stage' # "bytes"
    BY DEF Reads
  <2> QED BY <1>3, <1>4, <2>1 DEF LoopsInv
<1>5. PICK q, y : q = Program /\ y = Len(Before(Listings, Len(verdicts)))
  OBVIOUS
<1>6. /\ q \in Seq(Line) /\ Len(q) \in Nat /\ y \in Nat /\ AllIntact /\ Intact(Current) /\ listo \in 0..7
      /\ Exp(q) \in Seq(Nat) /\ Balanced(q) /\ out \in Seq(Output)
      /\ Before(Exps, Len(verdicts)) \in Seq(Nat) /\ Len(verdicts) \in 0..Len(files)
  BY <1>2, <1>4, <1>5, ProgramFacts
<1>7. /\ stage' = "line" /\ indent' = 0 /\ stage' \in Reads
      /\ UNCHANGED <<commandLine, verdicts, exitval, out>>
  <2>1. files[Len(verdicts) + 1].there
    BY <1>6 DEF Intact, Current
  <2> QED BY <2>1 DEF Open, Reads
<1>8. /\ Program' = q /\ Exps' = Exps /\ Listings' = Listings
      /\ Exp(q)' = Exp(q) /\ Deep(q, 0)' = Deep(q, 0)
  BY <1>5, <1>7, FileStays, SavedStays DEF GoesOn
<1>9. Reached(0, 0)'
  <2>1. Before(Texts(q), 0) = <<>>
    BY <1>6, TextsAre, BeforeSteps
  <2>2. Above(q, 0) = 0
    BY <2>1 DEF Above
  <2>3. Bare(out) = Before(Listings, Len(verdicts))
    BY <1>1, <1>6 DEF BasicInv, Between, Heard, AllIntact
  <2>4. Len(Bare(out)) = Len(out)
    BY <1>6 DEF Bare
  <2>5. Len(out) = y + (Above(q, 0) + 0)
    BY <1>5, <1>6, <2>2, <2>3, <2>4
  <2>6. Where(q, 0, 0)
    <3>1. CASE 0 = Len(q)
      BY <1>6, <3>1 DEF Where
    <3>2. CASE 0 # Len(q)
      <4>1. 0 \in 0..Len(q) - 1
        BY <1>6, <3>2
      <4>2. Len(ListingOf(q[0 + 1])) \in Nat /\ Len(ListingOf(q[0 + 1])) >= 2
        BY <1>6, <4>1, LineShows
      <4>3. 0 < Len(ListingOf(q[0 + 1]))
        BY <4>2
      <4> QED BY <1>6, <3>2, <4>3 DEF Where
    <3> QED BY <3>1, <3>2
  <2> QED BY <1>5, <1>7, <1>8, <2>5, <2>6 DEF Reached
<1>10. (indent = Deep(Program, 0))'
  <2>1. Deep(q, 0) = 0
    <3>1. Loopy(With(q, FOR), With(q, NEXT), Len(q)) /\ Loopy(With(q, REPEAT), With(q, UNTIL), Len(q))
      BY <1>6, ProgramLoopy
    <3>2. /\ Depth(With(q, FOR), With(q, NEXT), 0) = 0 /\ Depth(With(q, REPEAT), With(q, UNTIL), 0) = 0
      BY <3>1, DepthIs
    <3>3. Twice(0, 0) = 0
      BY <1>6, Twices
    <3> QED BY <3>2, <3>3 DEF Deep
  <2>2. Deep(Program, 0)' = Deep(q, 0)'
    BY <1>8 DEF Deep, Twice
  <2> QED BY <1>7, <1>8, <2>1, <2>2
<1>11. Indented(0)'
  <2>1. Indentations = Before(Exps, Len(verdicts))
    BY <1>1, <1>4 DEF LoopsInv
  <2>2. Indentations' = Indentations
    BY <1>7 DEF Indentations
  <2>3. SubSeq(Exp(q), 1, 0) = <<>>
    BY <1>6
  <2>4. Before(Exps, Len(verdicts)) \o <<>> = Before(Exps, Len(verdicts))
    BY <1>6
  <2>5. Exp(Program)' = Exp(q)'
    BY <1>8 DEF Exp, Indentation
  <2> QED BY <1>7, <1>8, <2>1, <2>2, <2>3, <2>4, <2>5 DEF Indented
<1> QED BY <1>7, <1>9, <1>10, <1>11 DEF LoopsAtLine

LEMMA StillIndents ==
  ASSUME LoopsInv, UNCHANGED bvars PROVE LoopsInv'
<1>1. /\ UNCHANGED <<commandLine, verdicts, out, indent, stage>> /\ UNCHANGED programs
  BY DEF bvars, commandLine
<1>2. /\ AllSaved' <=> AllSaved
      /\ Exps' = Exps /\ Listings' = Listings /\ Program' = Program /\ Indentations' = Indentations
  BY <1>1, SavedStays DEF Program, Current, Indentations
<1>3. PICK q : q = Program
  OBVIOUS
<1>4. Exp(Program)' = Exp(Program)
  BY <1>1, <1>2 DEF Exp, Indentation, commandLine
<1>5. \A j : Deep(Program, j)' = Deep(Program, j) /\ Within(Program, j)' = Within(Program, j)
  BY <1>1, <1>2 DEF Deep, Within, Twice, commandLine
<1>6. \A j, a : (Reached(j, a)' <=> Reached(j, a)) /\ (Indented(j)' <=> Indented(j))
  BY <1>1, <1>2, <1>4 DEF Reached, Indented
<1>7. \A j, a : (LoopsAtLine(j)' <=> LoopsAtLine(j)) /\ (LoopsInLine(j, a)' <=> LoopsInLine(j, a))
  BY <1>1, <1>2, <1>5, <1>6 DEF LoopsAtLine, LoopsInLine
<1> QED BY <1>1, <1>2, <1>7 DEF LoopsInv

LEMMA ExitIndents ==
  ASSUME LoopsInv, Exit PROVE LoopsInv'
<1>1. /\ UNCHANGED <<commandLine, verdicts, out>> /\ stage = "open" /\ stage' = "exit"
  BY DEF Exit
<1>2. AllSaved' <=> AllSaved
  BY <1>1, SavedStays
<1>3. Exps' = Exps /\ Indentations' = Indentations
  BY <1>1, SavedStays DEF Indentations
<1> QED BY <1>1, <1>2, <1>3 DEF LoopsInv, Reads

LEMMA LoopsStart == BasicInit => LoopsInv
<1> SUFFICES ASSUME BasicInit, AllSaved PROVE LoopsInv
  BY DEF LoopsInv
<1>1. BasicInv /\ stage = "open" /\ out = <<>> /\ Len(verdicts) = 0
  BY BasicStarts DEF BasicInit, BasicStart
<1>2. CommandLine
  BY <1>1 DEF BasicInv, BasicTypes
<1>3. Before(Exps, Len(verdicts)) = <<>>
  BY <1>1, <1>2, ExpsAre, BeforeSteps
<1>4. Indentations = <<>>
  <2>1. Len(Margins(out)) = 0 /\ Margins(out) = <<>>
    BY <1>1, IndentationsAre
  <2> QED BY <2>1, IndentationsAre, FlattenNone
<1> QED BY <1>1, <1>3, <1>4 DEF LoopsInv, Reads

\* Each step keeps the indentations as they are wanted.
LEMMA LoopsKeep == BasicInv /\ BasicInv' /\ LoopsInv /\ [BasicNext]_bvars => LoopsInv'
<1> SUFFICES ASSUME BasicInv, BasicInv', LoopsInv, [BasicNext]_bvars PROVE LoopsInv'
  OBVIOUS
<1>1. CASE UNCHANGED bvars
  BY <1>1, StillIndents
<1>2. CASE Open
  BY <1>2, OpenIndents
<1>3. CASE Exit
  BY <1>3, ExitIndents
<1>4. CASE BasicNext /\ stage \in Reads
  <2>1. BasicTypes
    BY DEF BasicInv
  <2>2. CASE \E v \in Verdict : Deals(v)
    BY <1>4, <2>2, DealtIndents DEF Deals
  <2>3. CASE GoesOn
    <3>1. CASE stage = "line"
      BY <1>4, <2>3, <3>1, LineStepIndents
    <3>2. CASE Number
      BY <3>2, NumberIndents
    <3>3. CASE EndLine
      BY <3>3, EndLineIndents
    <3>4. CASE Decoding
      BY <1>4, <2>3, <3>4, ItemStepIndents
    <3>5. stage = "line" \/ Number \/ EndLine \/ Decoding
      BY <1>4
      DEF BasicNext, Open, Exit, EndOfFile, NoCarriageReturn, BigEnd, BigCut, BigBody, BigLine, LittleEnd,
          LittleCut, LittleBody, LittleLine, Decoding, Reads
    <3> QED BY <3>1, <3>2, <3>3, <3>4, <3>5
  <2> QED BY <1>4, <2>1, <2>2, <2>3, ReadsDoes
<1>5. BasicNext => Open \/ Exit \/ stage \in Reads
  <2>1. Decoding => stage = "bytes"
    BY DecodingDoes DEF BasicInv
  <2> QED
    BY <2>1 DEF BasicNext, EndOfFile, NoCarriageReturn, BigEnd, BigCut, BigBody, BigLine, LittleEnd,
       LittleCut, LittleBody, LittleLine, Number, EndLine, Decoding, Reads
<1> QED BY <1>1, <1>2, <1>3, <1>4, <1>5

(* Whatever programs BASIC saved, if each file is as it was saved, no line    *)
(* has two words of loops, every NEXT and UNTIL has its FOR and REPEAT, and   *)
(* no string has the byte of such a word, then decode_line indents every line *)
(* by two for each loop that is open around it, a loop's first and last line  *)
(* alike, as far as LISTO asks for it: counting bytes finds the words, the    *)
(* indentation is never below zero, and nothing of it is left to the next     *)
(* program.                                                                   *)
THEOREM BasicLoopsIndented == BasicSpec => []LoopsIndented
<1>1. BasicInv /\ LoopsInv => LoopsIndented
  <2> SUFFICES ASSUME BasicInv, LoopsInv, stage = "exit", \A i \in DOMAIN files : Intact(i),
                      \A i \in DOMAIN files : Balanced(programs[i]) /\ NoLoopsInStrings(programs[i])
               PROVE  Indentations = Expected
    BY DEF LoopsIndented
  <2>1. /\ CommandLine /\ Len(verdicts) = Len(files) /\ stage \notin Reads
        /\ DOMAIN files = 1..Len(files)
    BY DEF BasicInv, BasicTypes, Exits, CommandLine, Reads
  <2>2. AllSaved
    BY <2>1 DEF AllSaved, AllIntact
  <2>3. Indentations = Before(Exps, Len(verdicts))
    BY <2>1, <2>2 DEF LoopsInv
  <2>4. Exps \in Seq(Seq(Nat)) /\ Len(Exps) = Len(files) /\ Expected = FlattenSeq(Exps)
    BY <2>1, <2>2, ExpsAre
  <2>5. Before(Exps, Len(Exps)) = FlattenSeq(Exps)
    BY <2>4, BeforeSteps
  <2> QED BY <2>1, <2>3, <2>4, <2>5
<1>2. BasicInit => LoopsInv
  BY LoopsStart
<1>3. BasicInv /\ BasicInv' /\ LoopsInv /\ [BasicNext]_bvars => LoopsInv'
  BY LoopsKeep
<1> QED BY <1>1, <1>2, <1>3, BasicInvariant, PTL DEF BasicSpec

=============================================================================
