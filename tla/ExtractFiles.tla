---------------------------- MODULE ExtractFiles ----------------------------
(***************************************************************************)
(* extract-files (cmd_extract_files.cc): for each entry of the catalogue,  *)
(* in its order, a file with the body and one, ".inf", that describes it.  *)
(* The first failure ends the command, with what is written by then.       *)
(*                                                                         *)
(* A name of the host is a sequence of what is between its dots; so is the *)
(* name of an entry, which holds whatever characters the disc has.  Of a   *)
(* file only its size matters, and which of the files written it is.       *)
(***************************************************************************)
EXTENDS CatalogData

CONSTANTS
  Part,          (* what names are made of                                  *)
  Inf,           (* "inf"                                                   *)
  BufferBytes    (* what an ofstream can hold back                          *)

ASSUME InfAssumption == Inf \in Part
ASSUME BufferAssumption == BufferBytes \in Nat

VARIABLES
  current_directory, entries,
  readable,      \* how many sectors of the medium can be read
  before,        \* history: the files of the destination directory at the start
  files,         \* its files: a function from names
  item, stage,   \* the entry of the loop, and how far it is
  block, len,    \* visit_file_body_piecewise's sector and bytes left
  held,          \* the bytes outfile holds back
  unnoticed      \* history: entries whose last bytes were lost by close()

source == <<current_directory, entries, readable, before>>
evars == <<source, files, item, stage, block, len, held, unnoticed>>

Old == 0
Content == [entry : Nat, kind : {"body", "inf", "old"}, bytes : Nat]

\* Wrong: the directory is never in the name.
BodyNameOnly(e) == e.name

BodyName(e) == IF e.dir = current_directory THEN e.name ELSE <<e.dir>> \o e.name
InfName(e) == Append(BodyName(e), Inf)

Now == entries[item]
HasEntry == stage = "entry" /\ item \in DOMAIN entries

BodyFile(n) == [entry |-> item, kind |-> "body", bytes |-> n]
InfFile(n) == [entry |-> item, kind |-> "inf", bytes |-> n]
Put(name, content) ==
  files' = [n \in DOMAIN files \cup {name} |-> IF n = name THEN content ELSE files[n]]

StartExtracting ==
  /\ files = before
  /\ item = 1 /\ stage = "entry" /\ block = 0 /\ len = 0 /\ held = 0 /\ unnoticed = {}
-----------------------------------------------------------------------------
\* std::ofstream::out makes the file anew, or empties it.
CreateBody ==
  /\ HasEntry
  /\ Put(BodyName(Now), BodyFile(0))
  /\ stage' = "body" /\ block' = Now.start /\ len' = Now.length /\ held' = 0
  /\ UNCHANGED <<source, item, unnoticed>>

CannotCreateBody ==
  /\ HasEntry
  /\ stage' = "no_body"
  /\ UNCHANGED <<source, files, item, block, len, held, unnoticed>>

MoreToRead == stage = "body" /\ block <= LastSector(Now)

\* n more bytes get into the file.
Flush(n) == Put(BodyName(Now), BodyFile(files[BodyName(Now)].bytes + n))

\* BadFileSystem: the ofstream is closed on the way to main().
CannotRead ==
  /\ MoreToRead /\ block >= readable
  /\ \E n \in 0..held : Flush(n)
  /\ stage' = "thrown"
  /\ UNCHANGED <<source, item, block, len, held, unnoticed>>

VisitLen == IF len > SectorBytes THEN SectorBytes ELSE len
NextBlock == block' = block + 1 /\ len' = len - VisitLen /\ UNCHANGED <<source, item, stage, unnoticed>>

\* What an ofstream holds back of what it was given is its own affair.
WritePiece ==
  /\ MoreToRead /\ block < readable
  /\ \E kept \in 0..held + VisitLen :
       /\ kept <= BufferBytes
       /\ Flush(held + VisitLen - kept)
       /\ held' = kept
  /\ NextBlock

\* Wrong: the loop goes on when the file cannot be written.
CannotWriteGoesOn ==
  /\ MoreToRead /\ block < readable /\ held + VisitLen > 0
  /\ \E n \in 0..held + VisitLen : Flush(n)
  /\ held' = 0
  /\ NextBlock

\* The visitor's false ends the loop and the command; some bytes may have got there.
CannotWrite ==
  /\ MoreToRead /\ block < readable /\ held + VisitLen > 0
  /\ \E n \in 0..held + VisitLen : Flush(n)
  /\ stage' = "body_failed"
  /\ UNCHANGED <<source, item, block, len, held, unnoticed>>

\* outfile.close(), after which nobody asks whether it went well.
CloseBody ==
  /\ stage = "body" /\ block > LastSector(Now)
  /\ \E n \in 0..held :
       /\ Flush(n)
       /\ unnoticed' = IF n < held THEN unnoticed \cup {item} ELSE unnoticed
  /\ held' = 0
  /\ stage' = "inf"
  /\ UNCHANGED <<source, item, block, len>>

\* The size of an .inf file is 1 when all of it is there.
CreateInf ==
  /\ stage = "inf"
  /\ Put(InfName(Now), InfFile(1))
  /\ item' = item + 1 /\ stage' = "entry"
  /\ UNCHANGED <<source, block, len, held, unnoticed>>

CannotCreateInf ==
  /\ stage = "inf"
  /\ UNCHANGED files \/ Put(InfName(Now), InfFile(0))
  /\ stage' = "inf_failed"
  /\ UNCHANGED <<source, item, block, len, held, unnoticed>>

Finish ==
  /\ stage = "entry" /\ item > Len(entries)
  /\ stage' = "extracted"
  /\ UNCHANGED <<source, files, item, block, len, held, unnoticed>>

Extract ==
  \/ CreateBody \/ CannotCreateBody
  \/ CannotRead \/ WritePiece \/ CannotWrite \/ CloseBody
  \/ CreateInf \/ CannotCreateInf \/ Finish

NamedEntry == [dir : Part, name : Seq(Part), start : Nat, length : Nat]
OldFile == [entry |-> Old, kind |-> "old", bytes |-> 0]

ExtractInit ==
  /\ current_directory \in Part /\ entries \in Seq(NamedEntry) /\ readable \in Nat
  /\ \E names \in SUBSET Seq(Part) : before = [n \in names |-> OldFile]
  /\ StartExtracting

ExtractSpec == ExtractInit /\ [][Extract]_evars
-----------------------------------------------------------------------------
(* Properties. *)

Ends == {"no_body", "thrown", "body_failed", "inf_failed", "extracted"}

ExtractTypeOK ==
  /\ current_directory \in Part /\ entries \in Seq(NamedEntry) /\ readable \in Nat
  /\ DOMAIN files \subseteq Seq(Part) /\ \A n \in DOMAIN files : files[n] \in Content
  /\ item \in 1..Len(entries) + 1
  /\ stage \in {"entry", "body", "inf"} \cup Ends
  /\ stage \notin {"entry", "extracted"} => item \in DOMAIN entries
  /\ block \in Nat /\ len \in Nat /\ held \in Nat
  /\ unnoticed \subseteq DOMAIN entries

\* The files in the order they are written: body and .inf of entry 1, of entry 2 and so on.
FileName(k) == IF k % 2 = 1 THEN BodyName(entries[(k + 1) \div 2]) ELSE InfName(entries[k \div 2])
Whole(k) ==
  IF k % 2 = 1
  THEN [entry |-> (k + 1) \div 2, kind |-> "body", bytes |-> entries[(k + 1) \div 2].length]
  ELSE [entry |-> k \div 2, kind |-> "inf", bytes |-> 1]

Finished == 2 * (item - 1) + (IF stage \in {"inf", "inf_failed"} THEN 1 ELSE 0)
Started ==
  Finished + (IF stage \in {"body", "thrown", "body_failed", "inf_failed"} THEN 1 ELSE 0)

\* A file that is finished is whole unless a later one has the same name, or its last bytes
\* were lost by close(); what the command neither finished nor began is as it was.
EachFinishedIsWhole ==
  /\ \A k \in 1..Finished :
       (\A j \in k + 1..Started : FileName(j) # FileName(k)) /\ (k + 1) \div 2 \notin unnoticed
         => FileName(k) \in DOMAIN files /\ files[FileName(k)] = Whole(k)
  /\ \A n \in DOMAIN files :
       (\A k \in 1..Started : FileName(k) # n) => n \in DOMAIN before /\ files[n] = before[n]
  /\ \A n \in DOMAIN before : n \in DOMAIN files

\* Wherever the command stops, the types hold, and each file it finished is whole unless a later
\* one has its name, or close() lost its last bytes, which nobody asks about; so nothing but a
\* whole body has an .inf of its entry.  The destination's other files are as they were.
FinishedAreWhole == ExtractTypeOK /\ EachFinishedIsWhole

\* No two entries are named alike, no name has a dot in it, and no file "inf" of another
\* directory than the current one can be taken for the .inf of a file named as that directory.
NamesApart ==
  /\ \A i \in DOMAIN entries : Len(entries[i].name) = 1
  /\ \A i, j \in DOMAIN entries :
       /\ entries[i].dir = entries[j].dir /\ entries[i].name = entries[j].name => i = j
       /\ entries[i].name = <<entries[j].dir>> /\ entries[j].name = <<Inf>>
            => entries[i].dir # current_directory \/ entries[j].dir = current_directory

\* The directory is in the name of a file where it has to be: success means that every entry of
\* such a catalogue has a file with its body and an .inf beside it, whatever the current
\* directory is (BodyName, and the order of the loop), but for bytes lost by close().
AllExtracted ==
  stage = "extracted" /\ NamesApart =>
    \A i \in DOMAIN entries \ unnoticed :
      \E n \in DOMAIN files :
        /\ files[n] = [entry |-> i, kind |-> "body", bytes |-> entries[i].length]
        /\ Append(n, Inf) \in DOMAIN files
        /\ files[Append(n, Inf)] = [entry |-> i, kind |-> "inf", bytes |-> 1]
=============================================================================
