------------------------------- MODULE Gunzip -------------------------------
(***************************************************************************)
(* How a compressed image is decompressed before it is opened: the loops   *)
(* of write_decompressed_data (img_gzfile.cc) around zlib's inflate.       *)
(*                                                                         *)
(* A file is a stream of compressed bytes, perhaps cut off and perhaps     *)
(* with something behind it.  What the bytes are does not matter here, but *)
(* how many bytes each of them brings out: total[n] of them come from the  *)
(* first n.  That zlib gives these, in order, is assumed.                  *)
(***************************************************************************)
EXTENDS Integers

CONSTANTS
  InputBufSize,    (* input_buf_size, 512 in the program                    *)
  OutputBufSize    (* output_buf_size, 1024                                 *)

ASSUME BufferAssumption ==
  InputBufSize \in Nat \ {0} /\ OutputBufSize \in Nat \ {0}

VARIABLES
  stream,       \* how many bytes the compressed stream has, its trailer included
  total,        \* of its first bytes
  length,       \* of the file
  corrupt,      \* the first byte that is wrong, in zlib's eyes
  pc,
  consumed,     \* how many bytes were read from the file
  got, avail_in, avail_out, zerr,
  pending,      \* what zlib holds, decompressed
  written,      \* to the temporary file
  io_failed     \* history: a read or write failed
vars == <<stream, total, length, corrupt, pc, consumed, got, avail_in, avail_out, zerr,
          pending, written, io_failed>>
file == <<stream, total, length, corrupt>>

File ==
  /\ stream \in Nat \ {0} /\ length \in Nat /\ corrupt \in Nat \ {0}
  /\ total \in [0..stream -> Nat] /\ total[0] = 0
  /\ \A m, n \in 0..stream : m <= n => total[m] <= total[n]

Least(a, b) == IF a <= b THEN a ELSE b
-----------------------------------------------------------------------------
Start ==
  /\ pc = "read" /\ consumed = 0 /\ got = 0 /\ avail_in = 0 /\ avail_out = 0
  /\ zerr = "Z_OK" /\ pending = 0 /\ written = 0 /\ io_failed = FALSE

Init == File /\ Start

\* At the end of the file there is nothing to give to zlib, which is then told so.
Fill ==
  /\ pc = "read" /\ zerr # "Z_STREAM_END"
  /\ got' = Least(InputBufSize, length - consumed)
  /\ avail_in' = got' /\ consumed' = consumed + got' /\ pc' = "inflate"
  /\ UNCHANGED <<file, avail_out, zerr, pending, written, io_failed>>

Fail == pc' = "error" /\ io_failed' = TRUE

ReadFails ==
  /\ pc = "read" /\ zerr # "Z_STREAM_END"
  /\ Fail
  /\ UNCHANGED <<file, consumed, got, avail_in, avail_out, zerr, pending, written>>

\* zlib takes the next k bytes of the input, and stops only if it needs more of it, has no
\* more room, or is at the end, or at a byte that is wrong.
Next_in == consumed - avail_in
Limit == Least(avail_in, Least(stream, corrupt - 1) - Next_in)
Held(k) == pending + total[Next_in + k] - total[Next_in]
Takes(k) == k \in 0..Limit /\ (k = Limit \/ Held(k) >= OutputBufSize)
Given(k) == Least(OutputBufSize, Held(k))

Result(k) ==
  IF Next_in + k = stream /\ Given(k) = Held(k) THEN "Z_STREAM_END"
  ELSE IF Next_in + k + 1 = corrupt /\ k < avail_in /\ Given(k) < OutputBufSize
       THEN "Z_DATA_ERROR"
  ELSE IF k = 0 /\ Given(k) = 0 THEN "Z_BUF_ERROR" ELSE "Z_OK"

\* check_zlib_error_code: everything but Z_OK is an exception.
Throws(code) == code # "Z_OK"

\* Wrong: whatever is held back is asked for later, when more was read.
AfterEarly(k) ==
  IF Result(k) \in {"Z_OK", "Z_STREAM_END"} \/ (Result(k) = "Z_BUF_ERROR" /\ got > 0)
  THEN "read" ELSE "error"

\* Wrong: that zlib could do nothing is an error, even if more can be read.
AfterStrict(k) ==
  IF Result(k) \notin {"Z_OK", "Z_STREAM_END"} THEN "error"
  ELSE IF Given(k) = OutputBufSize THEN "inflate" ELSE "read"

\* Wrong: more is read even if there was no more.
AfterAgain(k) ==
  IF Result(k) = "Z_BUF_ERROR" THEN "read"
  ELSE IF Result(k) \notin {"Z_OK", "Z_STREAM_END"} THEN "error"
  ELSE IF Given(k) = OutputBufSize THEN "inflate" ELSE "read"

\* More of the input is wanted, or there is an error, or zlib may have more to give.
After(k) ==
  IF Result(k) = "Z_BUF_ERROR" /\ got > 0 THEN "read"
  ELSE IF Result(k) # "Z_STREAM_END" /\ Throws(Result(k)) THEN "error"
  ELSE IF Given(k) = OutputBufSize THEN "inflate" ELSE "read"

\* The call of inflate, for k bytes, and what zlib's variables are behind it.
Call(k) ==
  /\ pc = "inflate" /\ Takes(k)
  /\ avail_in' = avail_in - k /\ avail_out' = OutputBufSize - Given(k)
  /\ pending' = Held(k) - Given(k) /\ zerr' = Result(k)
  /\ UNCHANGED <<file, consumed, got>>

Inflate(k) ==
  /\ Call(k)
  /\ written' = written + Given(k) /\ pc' = After(k)
  /\ UNCHANGED io_failed

WriteFails(k) == Call(k) /\ Given(k) > 0 /\ Fail /\ UNCHANGED written

Done ==
  /\ pc = "read" /\ zerr = "Z_STREAM_END"
  /\ pc' = "done"
  /\ UNCHANGED <<file, consumed, got, avail_in, avail_out, zerr, pending, written, io_failed>>

Next ==
  \/ Fill \/ ReadFails \/ Done
  \/ \E k \in 0..InputBufSize : Inflate(k) \/ WriteFails(k)

\* The program is one thread, and a loop that can go on does.
Spec == Init /\ [][Next]_vars /\ WF_vars(Next)
-----------------------------------------------------------------------------
(* Properties. *)

Sound == length >= stream /\ corrupt > stream

\* Types: the input buffer holds what was read last, or the rest of it, and zlib is never
\* past the end of the stream.
TypeOK ==
  /\ File
  /\ pc \in {"read", "inflate", "done", "error"}
  /\ consumed \in 0..length /\ got \in 0..InputBufSize /\ avail_in \in 0..got
  /\ avail_in <= consumed /\ Next_in <= stream
  /\ avail_out \in 0..OutputBufSize
  /\ zerr \in {"Z_OK", "Z_STREAM_END", "Z_BUF_ERROR", "Z_DATA_ERROR"}
  /\ pending \in Nat /\ written \in Nat /\ io_failed \in BOOLEAN

\* An image that is opened is whole: the file was neither cut off nor damaged, and all that
\* comes out of it was written (write_decompressed_data).
WholeIfDone == pc = "done" => Sound /\ written = total[stream]

\* Nothing that was read is thrown away: when the input buffer is filled again, zlib has
\* taken all of it, unless it is at the end of the stream.
InputNotLost == pc = "read" => avail_in = 0 \/ zerr = "Z_STREAM_END"

\* A sound file is not refused, wherever the buffers' ends fall (check_zlib_error_code).
SoundIsOpened == pc = "error" => ~Sound \/ io_failed

\* The loops end, whatever the file has.
Ending == <>(pc \in {"done", "error"})
=============================================================================
