------------------------- MODULE DiscCommandsProofs -------------------------
(***************************************************************************)
(* Proofs about the commands on a mounted disc, for every catalogue and    *)
(* every length of file: what extract-files leaves behind (ExtractFiles),  *)
(* what extract-unused, space and free say is free (FreeSpace), and how    *)
(* cat puts the files in order and in columns (Cat).                       *)
(*                                                                         *)
(* Of extract-files.  The files are numbered in the order in which they    *)
(* are begun, so that "a later file of the same name" is a greater number. *)
(* Two invariants make the promise inductive, whatever step fails: of the  *)
(* body under way, what is in the file, what is held back and what is      *)
(* still to be read add up to its length; and what is still to be read     *)
(* fits the sectors still to be visited, so nothing is left when the loop  *)
(* over the sectors ends.                                                  *)
(*                                                                         *)
(* Of the free sectors.  What extract-unused writes is what is free, the   *)
(* gaps of space add up, and free calls no sector free that a file holds.  *)
(*                                                                         *)
(* Of cat.  The two counters agree: the column of current_col begins where *)
(* the last file does, and colstream's col_ is behind that file.           *)
(***************************************************************************)
EXTENDS ExtractFiles, FreeSpace, Cat, FiniteSetTheorems, SequenceTheorems,
  WellFoundedInduction, TLAPS

----------------------------------------------------------------------------
(* What extract-files leaves behind.                                        *)

\* FinishedAreWhole's three parts, of files fs of which f are finished, s are begun and the
\* entries in un lost their last bytes.
WholeUpTo(fs, f, s, un) ==
  /\ \A k \in 1..f :
       (\A j \in k + 1..s : FileName(j) # FileName(k)) /\ (k + 1) \div 2 \notin un
         => FileName(k) \in DOMAIN fs /\ fs[FileName(k)] = Whole(k)
  /\ \A n \in DOMAIN fs :
       (\A k \in 1..s : FileName(k) # n) => n \in DOMAIN before /\ fs[n] = before[n]
  /\ \A n \in DOMAIN before : n \in DOMAIN fs

BodyUnderWay ==
  stage = "body" =>
    /\ BodyName(Now) \in DOMAIN files
    /\ files[BodyName(Now)] = BodyFile(Now.length - len - held)
    /\ len + held <= Now.length

RoomInSectors ==
  stage = "body" =>
    block <= LastSector(Now) + 1 /\ len <= (LastSector(Now) + 1 - block) * SectorBytes

IInv == ExtractTypeOK /\ EachFinishedIsWhole /\ BodyUnderWay /\ RoomInSectors

----------------------------------------------------------------------------
LEMMA QuotientAndRest ==
  ASSUME NEW d \in Nat \ {0}, NEW n \in Nat
  PROVE  n \div d \in Nat /\ n % d \in Nat /\ n % d < d /\ n = ((n \div d) * d) + (n % d)
<1>1. n = (d * (n \div d)) + (n % d)
  BY Z3
<1>2. n \div d \in Nat /\ n % d \in Nat /\ n % d < d
  OBVIOUS
<1> QED BY <1>1, <1>2

(* The sectors of a file hold all of it. *)
LEMMA FileFitsSectors ==
  ASSUME NEW e \in NamedEntry
  PROVE  /\ LastSector(e) \in Int /\ e.start <= LastSector(e) + 1
         /\ e.length <= (LastSector(e) + 1 - e.start) * SectorBytes
<1> DEFINE q == e.length \div SectorBytes
           r == e.length % SectorBytes
<1>1. e.start \in Nat /\ e.length \in Nat
  BY DEF NamedEntry
<1>2. q \in Nat /\ r \in Nat /\ r < SectorBytes /\ e.length = (q * SectorBytes) + r
  BY <1>1, SectorBytesAssumption, QuotientAndRest
<1> HIDE DEF q, r
<1>3. CASE Empty(e)
  BY <1>1, <1>3, SectorBytesAssumption DEF Empty, LastSector
<1>4. CASE ~Empty(e)
  <2>1. SectorsFor(e.length) = q + (IF r = 0 THEN 0 ELSE 1)
    BY DEF SectorsFor, q, r
  <2>2. LastSector(e) = e.start + SectorsFor(e.length) - 1
    BY <1>4 DEF LastSector
  <2>3. LastSector(e) + 1 - e.start = q + (IF r = 0 THEN 0 ELSE 1)
    BY <1>1, <1>2, <2>1, <2>2
  <2>4. (q + 1) * SectorBytes = q * SectorBytes + SectorBytes
    BY <1>2, SectorBytesAssumption
  <2>5. e.length <= (q + (IF r = 0 THEN 0 ELSE 1)) * SectorBytes
    <3>1. CASE r = 0
      BY <1>1, <1>2, <3>1, SectorBytesAssumption
    <3>2. CASE r # 0
      BY <1>1, <1>2, <2>4, <3>2, SectorBytesAssumption
    <3> QED BY <3>1, <3>2
  <2> QED BY <1>1, <1>2, <2>1, <2>2, <2>3, <2>5
<1> QED BY <1>3, <1>4

(* One sector more, and its bytes less. *)
LEMMA OneSectorLess ==
  ASSUME NEW n \in Nat, NEW l \in Nat, l <= (n + 1) * SectorBytes
  PROVE  l - (IF l > SectorBytes THEN SectorBytes ELSE l) <= n * SectorBytes
<1>1. (n + 1) * SectorBytes = n * SectorBytes + SectorBytes
  BY SectorBytesAssumption
<1>2. n * SectorBytes \in Nat
  BY SectorBytesAssumption
<1> QED BY <1>1, <1>2, SectorBytesAssumption

(* The names and the entry of the loop. *)
LEMMA NamesTyped ==
  ASSUME ExtractTypeOK, NEW i \in DOMAIN entries
  PROVE  /\ entries[i] \in NamedEntry
         /\ BodyName(entries[i]) \in Seq(Part) /\ InfName(entries[i]) \in Seq(Part)
<1>1. entries[i] \in NamedEntry
  BY DEF ExtractTypeOK
<1>2. entries[i].dir \in Part /\ entries[i].name \in Seq(Part)
  BY <1>1 DEF NamedEntry
<1>3. BodyName(entries[i]) \in Seq(Part)
  BY <1>2 DEF BodyName
<1>4. InfName(entries[i]) \in Seq(Part)
  BY <1>3, InfAssumption DEF InfName
<1> QED BY <1>1, <1>3, <1>4

(* The newest file takes its name from an older one, and from no other. *)
LEMMA NewestFile ==
  ASSUME NEW fs, NEW f \in Nat, NEW s \in Nat, NEW un, WholeUpTo(fs, f, s, un),
         NEW f2 \in Nat, NEW s2 \in Nat, NEW un2, NEW c, f <= s, s <= s2, f < s2, un \subseteq un2,
         \/ f2 = f
         \/ f2 = f + 1 /\ s2 = f2 /\ ((f2 + 1) \div 2 \notin un2 => c = Whole(f2)),
         NEW fs2, DOMAIN fs2 = DOMAIN fs \cup {FileName(s2)},
         \A n \in DOMAIN fs2 : fs2[n] = IF n = FileName(s2) THEN c ELSE fs[n]
  PROVE  WholeUpTo(fs2, f2, s2, un2)
<1>1. DOMAIN fs2 = DOMAIN fs \cup {FileName(s2)}
  OBVIOUS
<1>2. \A n \in DOMAIN fs2 : fs2[n] = IF n = FileName(s2) THEN c ELSE fs[n]
  OBVIOUS
<1>3. ASSUME NEW k \in 1..f2,
             \A j \in k + 1..s2 : FileName(j) # FileName(k), (k + 1) \div 2 \notin un2
      PROVE  FileName(k) \in DOMAIN fs2 /\ fs2[FileName(k)] = Whole(k)
  <2>1. CASE k <= f
    <3>1. k \in 1..f /\ s2 \in k + 1..s2 /\ k + 1..s \subseteq k + 1..s2
      BY <2>1
    <3>2. FileName(s2) # FileName(k)
      BY <3>1, <1>3
    <3>3. FileName(k) \in DOMAIN fs /\ fs[FileName(k)] = Whole(k)
      BY <3>1, <1>3 DEF WholeUpTo
    <3> QED BY <3>2, <3>3, <1>1, <1>2
  <2>2. CASE ~(k <= f)
    <3>1. k = s2 /\ f2 = s2 /\ k = f2
      BY <2>2
    <3>2. c = Whole(k)
      BY <3>1, <1>3, <2>2
    <3> QED BY <3>1, <3>2, <1>1, <1>2
  <2> QED BY <2>1, <2>2
<1>4. ASSUME NEW n \in DOMAIN fs2, \A k \in 1..s2 : FileName(k) # n
      PROVE  n \in DOMAIN before /\ fs2[n] = before[n]
  <2>1. s2 \in 1..s2 /\ 1..s \subseteq 1..s2
    OBVIOUS
  <2>2. n # FileName(s2) /\ n \in DOMAIN fs
    BY <2>1, <1>4, <1>1
  <2>3. fs2[n] = fs[n]
    BY <2>2, <1>2
  <2> QED BY <2>1, <2>2, <2>3, <1>4 DEF WholeUpTo
<1>5. \A n \in DOMAIN before : n \in DOMAIN fs2
  BY <1>1 DEF WholeUpTo
<1> QED BY <1>3, <1>4, <1>5 DEF WholeUpTo

----------------------------------------------------------------------------
(* How the files of entry i are numbered. *)
LEMMA Numbers ==
  ASSUME NEW i \in Nat \ {0}
  PROVE  /\ FileName(2 * i - 1) = BodyName(entries[i]) /\ FileName(2 * i) = InfName(entries[i])
         /\ Whole(2 * i - 1) = [entry |-> i, kind |-> "body", bytes |-> entries[i].length]
         /\ Whole(2 * i) = [entry |-> i, kind |-> "inf", bytes |-> 1]
         /\ (2 * i - 1 + 1) \div 2 = i /\ (2 * i + 1) \div 2 = i
<1>1. (2 * i) % 2 = 0 /\ (2 * i - 1) % 2 = 1
  OBVIOUS
<1>2. (2 * i) \div 2 = i /\ (2 * i - 1 + 1) \div 2 = i /\ (2 * i + 1) \div 2 = i
  OBVIOUS
<1>3. FileName(2 * i - 1) = BodyName(entries[i])
  BY <1>1, <1>2 DEF FileName
<1>4. FileName(2 * i) = InfName(entries[i])
  BY <1>1, <1>2 DEF FileName
<1>5. Whole(2 * i - 1) = [entry |-> i, kind |-> "body", bytes |-> entries[i].length]
  BY <1>1, <1>2 DEF Whole
<1>6. Whole(2 * i) = [entry |-> i, kind |-> "inf", bytes |-> 1]
  BY <1>1, <1>2 DEF Whole
<1> QED BY <1>2, <1>3, <1>4, <1>5, <1>6

LEMMA InParts == EachFinishedIsWhole <=> WholeUpTo(files, Finished, Started, unnoticed)
  BY DEF EachFinishedIsWhole, WholeUpTo

(* The steps leave the disc alone, so the names after a step are those before it. *)
LEMMA SameSource ==
  ASSUME UNCHANGED source, WholeUpTo(files', Finished', Started', unnoticed')
  PROVE  EachFinishedIsWhole'
<1>1. \A k : FileName(k)' = FileName(k)
  BY DEF FileName, BodyName, InfName, source
<1>2. \A k : Whole(k)' = Whole(k)
  BY DEF Whole, source
<1>3. before' = before
  BY DEF source
<1> QED BY <1>1, <1>2, <1>3 DEF EachFinishedIsWhole, WholeUpTo

LEMMA PutTyped ==
  ASSUME ExtractTypeOK, NEW name \in Seq(Part), NEW content \in Content, Put(name, content)
  PROVE  /\ DOMAIN files' \subseteq Seq(Part)
         /\ \A n \in DOMAIN files' : files'[n] \in Content
  BY DEF Put, ExtractTypeOK

----------------------------------------------------------------------------
LEMMA InitHolds == ExtractInit => IInv
<1> SUFFICES ASSUME ExtractInit PROVE IInv
  OBVIOUS
<1>1. files = before /\ item = 1 /\ stage = "entry" /\ block = 0 /\ len = 0 /\ held = 0
      /\ unnoticed = {}
  BY DEF ExtractInit, StartExtracting
<1>2. PICK names \in SUBSET Seq(Part) : before = [n \in names |-> OldFile]
  BY DEF ExtractInit
<1>3. OldFile \in Content
  BY DEF OldFile, Old, Content
<1>4. entries \in Seq(NamedEntry) /\ current_directory \in Part /\ readable \in Nat
  BY DEF ExtractInit
<1>5. ExtractTypeOK
  BY <1>1, <1>2, <1>3, <1>4 DEF ExtractTypeOK, Ends
<1>6. Finished = 0 /\ Started = 0
  BY <1>1 DEF Finished, Started
<1>7. EachFinishedIsWhole
  BY <1>1, <1>6 DEF EachFinishedIsWhole
<1> QED BY <1>1, <1>5, <1>7 DEF IInv, BodyUnderWay, RoomInSectors

(* What a step knows of the entry it is at. *)
LEMMA AtEntry ==
  ASSUME IInv, item \in DOMAIN entries
  PROVE  /\ item \in Nat \ {0} /\ Now \in NamedEntry /\ Now.length \in Nat /\ Now.start \in Nat
         /\ BodyName(Now) \in Seq(Part) /\ InfName(Now) \in Seq(Part)
         /\ item <= Len(entries) /\ Len(entries) \in Nat
         /\ LastSector(Now) \in Int
         /\ Now.start <= LastSector(Now) + 1
         /\ Now.length <= (LastSector(Now) + 1 - Now.start) * SectorBytes
         /\ WholeUpTo(files, Finished, Started, unnoticed)
<1>1. ExtractTypeOK /\ EachFinishedIsWhole
  BY DEF IInv
<1>2. entries \in Seq(NamedEntry) /\ item \in 1..Len(entries) /\ Len(entries) \in Nat
  BY <1>1 DEF ExtractTypeOK
<1>3. Now \in NamedEntry /\ BodyName(Now) \in Seq(Part) /\ InfName(Now) \in Seq(Part)
  BY <1>1, NamesTyped DEF Now
<1>4. Now.length \in Nat /\ Now.start \in Nat
  BY <1>3 DEF NamedEntry
<1>5. /\ LastSector(Now) \in Int /\ Now.start <= LastSector(Now) + 1
      /\ Now.length <= (LastSector(Now) + 1 - Now.start) * SectorBytes
  BY <1>3, FileFitsSectors
<1> QED BY <1>1, <1>2, <1>3, <1>4, <1>5, InParts

----------------------------------------------------------------------------
(* A file is put that is the newest: the promise is that of NewestFile. *)
LEMMA PutNewest ==
  ASSUME IInv, UNCHANGED source, item \in DOMAIN entries,
         NEW name, NEW c, Put(name, c),
         Finished \in Nat, Started \in Nat, Finished' \in Nat, Started' \in Nat,
         Finished <= Started, Started <= Started', Finished < Started',
         unnoticed \subseteq unnoticed', name = FileName(Started'),
         \/ Finished' = Finished
         \/ /\ Finished' = Finished + 1 /\ Started' = Finished'
            /\ (Finished' + 1) \div 2 \notin unnoticed' => c = Whole(Finished')
  PROVE  EachFinishedIsWhole'
<1>1. WholeUpTo(files, Finished, Started, unnoticed)
  BY AtEntry
<1> DEFINE fs == files
           f == Finished
           s == Started
           un == unnoticed
           fs2 == files'
           f2 == Finished'
           s2 == Started'
           un2 == unnoticed'
<1>2. /\ DOMAIN fs2 = DOMAIN fs \cup {FileName(s2)}
      /\ \A n \in DOMAIN fs2 : fs2[n] = IF n = FileName(s2) THEN c ELSE fs[n]
  BY DEF Put
<1>3. /\ WholeUpTo(fs, f, s, un) /\ f \in Nat /\ s \in Nat /\ f2 \in Nat /\ s2 \in Nat
      /\ f <= s /\ s <= s2 /\ f < s2 /\ un \subseteq un2
      /\ \/ f2 = f
         \/ f2 = f + 1 /\ s2 = f2 /\ ((f2 + 1) \div 2 \notin un2 => c = Whole(f2))
  BY <1>1
<1> HIDE DEF fs, f, s, un, fs2, f2, s2, un2
<1>4. WholeUpTo(fs2, f2, s2, un2)
  <2>1. DOMAIN fs2 = DOMAIN fs \cup {FileName(s2)}
    BY <1>2
  <2>2. \A n \in DOMAIN fs2 : fs2[n] = IF n = FileName(s2) THEN c ELSE fs[n]
    BY <1>2
  <2> QED
    BY ONLY <1>3, <2>1, <2>2, NewestFile
<1>5. WholeUpTo(files', Finished', Started', unnoticed')
  BY <1>4 DEF fs2, f2, s2, un2
<1> QED BY <1>5, SameSource

LEMMA StepCreateBody == ASSUME IInv, CreateBody PROVE IInv'
<1>1. stage = "entry" /\ item \in DOMAIN entries /\ UNCHANGED source /\ item' = item
      /\ unnoticed' = unnoticed /\ stage' = "body" /\ block' = Now.start /\ len' = Now.length
      /\ held' = 0 /\ Put(BodyName(Now), BodyFile(0))
  BY DEF CreateBody, HasEntry
<1>2. /\ item \in Nat \ {0} /\ Now \in NamedEntry /\ Now.length \in Nat /\ Now.start \in Nat
      /\ BodyName(Now) \in Seq(Part)
      /\ Now.start <= LastSector(Now) + 1
      /\ Now.length <= (LastSector(Now) + 1 - Now.start) * SectorBytes
  BY <1>1, AtEntry
<1>3. Now' = Now /\ LastSector(Now)' = LastSector(Now) /\ BodyName(Now)' = BodyName(Now)
  BY <1>1 DEF Now, source, LastSector, Empty, BodyName
<1>4. ExtractTypeOK'
  <2>1. BodyFile(0) \in Content
    BY <1>2 DEF BodyFile, Content
  <2>2. ExtractTypeOK
    BY DEF IInv
  <2>3. DOMAIN files' \subseteq Seq(Part) /\ \A n \in DOMAIN files' : files'[n] \in Content
    BY <1>1, <1>2, <2>1, <2>2, PutTyped
  <2> QED BY <1>1, <1>2, <2>2, <2>3 DEF ExtractTypeOK, source, Ends
<1>5. EachFinishedIsWhole'
  <2>1. Finished = 2 * item - 2 /\ Started = 2 * item - 2
    BY <1>1, <1>2 DEF Finished, Started
  <2>2. Finished' = 2 * item - 2 /\ Started' = 2 * item - 1
    BY <1>1, <1>2 DEF Finished, Started
  <2>3. BodyName(Now) = FileName(2 * item - 1)
    BY <1>2, Numbers DEF Now
  <2> QED BY <1>1, <1>2, <2>1, <2>2, <2>3, PutNewest
<1>6. BodyUnderWay'
  <2>1. BodyName(Now) \in DOMAIN files' /\ files'[BodyName(Now)] = BodyFile(0)
    BY <1>1 DEF Put
  <2>2. Now'.length - len' - held' = 0 /\ len' + held' <= Now'.length
    BY <1>1, <1>2, <1>3
  <2>3. BodyFile(0)' = BodyFile(0)
    BY <1>1 DEF BodyFile
  <2> QED BY <1>3, <2>1, <2>2, <1>1 DEF BodyUnderWay, BodyFile
<1>7. RoomInSectors'
  BY <1>1, <1>2, <1>3 DEF RoomInSectors
<1> QED BY <1>4, <1>5, <1>6, <1>7 DEF IInv

(* Nothing is written, and what is finished and begun stays so. *)
LEMMA NothingWritten ==
  ASSUME IInv, UNCHANGED <<source, files, item, block, len, held, unnoticed>>, ExtractTypeOK',
         stage' # "body", Finished' = Finished, Finished \in Nat, Started \in Nat, Started' \in Nat,
         Started <= Started'
  PROVE  IInv'
<1>1. WholeUpTo(files, Finished, Started, unnoticed)
  BY InParts DEF IInv
<1>2. WholeUpTo(files', Finished', Started', unnoticed')
  <2>1. 1..Started \subseteq 1..Started' /\ \A k \in Nat : k + 1..Started \subseteq k + 1..Started'
    OBVIOUS
  <2>2. \A k \in 1..Finished : k \in Nat
    OBVIOUS
  <2> QED BY <1>1, <2>1, <2>2 DEF WholeUpTo
<1>3. EachFinishedIsWhole'
  BY <1>2, SameSource
<1> QED BY <1>3 DEF IInv, BodyUnderWay, RoomInSectors

(* The body under way, before and after a piece of it. *)
LEMMA UnderWay ==
  ASSUME IInv, stage = "body"
  PROVE  /\ item \in DOMAIN entries
         /\ block \in Nat /\ len \in Nat /\ held \in Nat /\ readable \in Nat
         /\ unnoticed \subseteq DOMAIN entries
         /\ BodyName(Now) \in DOMAIN files
         /\ files[BodyName(Now)].bytes = Now.length - len - held
         /\ len + held <= Now.length
         /\ block <= LastSector(Now) + 1 /\ len <= (LastSector(Now) + 1 - block) * SectorBytes
         /\ Finished = 2 * item - 2 /\ Started = 2 * item - 1
         /\ BodyName(Now) = FileName(2 * item - 1)
<1>1. ExtractTypeOK
  BY DEF IInv
<1>2. /\ item \in DOMAIN entries /\ block \in Nat /\ len \in Nat /\ held \in Nat
      /\ readable \in Nat /\ unnoticed \subseteq DOMAIN entries
  BY <1>1 DEF ExtractTypeOK
<1>3. item \in Nat \ {0}
  BY <1>2, AtEntry
<1>4. Finished = 2 * item - 2 /\ Started = 2 * item - 1
  BY <1>3 DEF Finished, Started
<1>5. BodyName(Now) = FileName(2 * item - 1)
  BY <1>3, Numbers DEF Now
<1> QED BY <1>2, <1>4, <1>5 DEF IInv, BodyUnderWay, RoomInSectors, BodyFile

LEMMA CountsOfABody ==
  ASSUME item \in Nat \ {0}, item' = item, stage' \in {"body", "thrown", "body_failed"}
  PROVE  Finished' = 2 * item - 2 /\ Started' = 2 * item - 1
<1>1. CASE stage' = "body"
  BY <1>1 DEF Finished, Started
<1>2. CASE stage' = "thrown"
  BY <1>2 DEF Finished, Started
<1>3. CASE stage' = "body_failed"
  BY <1>3 DEF Finished, Started
<1> QED BY <1>1, <1>2, <1>3

(* Bytes that get into the body under way. *)
LEMMA BodyGrows ==
  ASSUME IInv, stage = "body", UNCHANGED source, item' = item, NEW n \in Nat, Flush(n)
  PROVE  /\ DOMAIN files' \subseteq Seq(Part) /\ \A m \in DOMAIN files' : files'[m] \in Content
         /\ BodyName(Now) \in DOMAIN files'
         /\ files'[BodyName(Now)] = BodyFile(Now.length - len - held + n)
         /\ unnoticed' = unnoticed /\ stage' \in {"body", "thrown", "body_failed"}
              => EachFinishedIsWhole'
<1>1. /\ item \in DOMAIN entries /\ len \in Nat /\ held \in Nat /\ len + held <= Now.length
      /\ files[BodyName(Now)].bytes = Now.length - len - held
      /\ Finished = 2 * item - 2 /\ Started = 2 * item - 1
      /\ BodyName(Now) = FileName(2 * item - 1)
  BY UnderWay
<1>2. item \in Nat \ {0} /\ Now.length \in Nat /\ BodyName(Now) \in Seq(Part)
  BY <1>1, AtEntry
<1> DEFINE b == Now.length - len - held + n
<1>3. b \in Nat
  BY <1>1, <1>2
<1>4. Put(BodyName(Now), BodyFile(b))
  BY <1>1 DEF Flush
<1>5. BodyFile(b) \in Content
  BY <1>2, <1>3 DEF BodyFile, Content
<1> HIDE DEF b
<1>6. DOMAIN files' \subseteq Seq(Part) /\ \A m \in DOMAIN files' : files'[m] \in Content
  BY <1>2, <1>4, <1>5, PutTyped DEF IInv
<1>7. BodyName(Now) \in DOMAIN files' /\ files'[BodyName(Now)] = BodyFile(b)
  BY <1>4 DEF Put
<1>8. ASSUME unnoticed' = unnoticed, stage' \in {"body", "thrown", "body_failed"}
      PROVE  EachFinishedIsWhole'
  <2>1. item' = item /\ stage' \in {"body", "thrown", "body_failed"}
    BY <1>8
  <2>2. Finished' = 2 * item - 2 /\ Started' = 2 * item - 1
    BY <1>2, <2>1, CountsOfABody
  <2>3. /\ Finished \in Nat /\ Started \in Nat /\ Finished' \in Nat /\ Started' \in Nat
        /\ Finished <= Started /\ Started <= Started' /\ Finished < Started'
        /\ Finished' = Finished
    BY <1>1, <1>2, <2>2
  <2>4. unnoticed \subseteq unnoticed' /\ UNCHANGED source /\ BodyName(Now) = FileName(Started')
    BY <1>1, <1>8, <2>2
  <2> QED BY <1>1, <1>4, <2>3, <2>4, PutNewest
<1> QED BY <1>6, <1>7, <1>8 DEF b

LEMMA StepWritePiece == ASSUME IInv, WritePiece PROVE IInv'
<1>1. /\ stage = "body" /\ block <= LastSector(Now) /\ UNCHANGED <<source, item, stage, unnoticed>>
      /\ block' = block + 1 /\ len' = len - VisitLen
  BY DEF WritePiece, MoreToRead, NextBlock
<1>2. PICK kept \in 0..held + VisitLen :
        kept <= BufferBytes /\ Flush(held + VisitLen - kept) /\ held' = kept
  BY DEF WritePiece
<1>3. /\ item \in DOMAIN entries /\ block \in Nat /\ len \in Nat /\ held \in Nat
      /\ len + held <= Now.length
      /\ len <= (LastSector(Now) + 1 - block) * SectorBytes
  BY <1>1, UnderWay
<1>4. /\ item \in Nat \ {0} /\ Now.length \in Nat /\ LastSector(Now) \in Int
  BY <1>3, AtEntry
<1>5. VisitLen \in Nat /\ VisitLen <= len
  BY <1>3, SectorBytesAssumption DEF VisitLen
<1>6. held + VisitLen - kept \in Nat /\ kept \in Nat
  BY <1>2, <1>3, <1>5
<1>7. /\ DOMAIN files' \subseteq Seq(Part) /\ \A m \in DOMAIN files' : files'[m] \in Content
      /\ BodyName(Now) \in DOMAIN files'
      /\ files'[BodyName(Now)] = BodyFile(Now.length - len - held + (held + VisitLen - kept))
      /\ EachFinishedIsWhole'
  BY <1>1, <1>2, <1>6, BodyGrows
<1>8. ExtractTypeOK'
  BY <1>1, <1>2, <1>3, <1>5, <1>6, <1>7 DEF IInv, ExtractTypeOK, source, Ends
<1>9. Now' = Now /\ LastSector(Now)' = LastSector(Now) /\ BodyName(Now)' = BodyName(Now)
  BY <1>1 DEF Now, source, LastSector, Empty, BodyName
<1>10. BodyUnderWay'
  <2>1. Now'.length - len' - held' = Now.length - len - held + (held + VisitLen - kept)
        /\ len' + held' <= Now'.length
    BY <1>1, <1>2, <1>3, <1>4, <1>5, <1>6, <1>9
  <2> QED BY <1>1, <1>7, <1>9, <2>1 DEF BodyUnderWay, BodyFile
<1>11. RoomInSectors'
  <2> DEFINE room == LastSector(Now) - block
  <2>1. room \in Nat /\ len <= (room + 1) * SectorBytes
    <3>1. room + 1 = LastSector(Now) + 1 - block
      BY <1>3, <1>4
    <3> QED BY <1>1, <1>3, <1>4, <3>1
  <2> HIDE DEF room
  <2>2. len - VisitLen <= room * SectorBytes
    BY <1>3, <2>1, OneSectorLess DEF VisitLen
  <2>3. LastSector(Now) + 1 - (block + 1) = room
    BY <1>3, <1>4 DEF room
  <2> QED BY <1>1, <1>3, <1>4, <1>9, <2>2, <2>3 DEF RoomInSectors
<1> QED BY <1>7, <1>8, <1>10, <1>11 DEF IInv

(* The command ends in the middle of a body, some more bytes of which got into the file. *)
LEMMA StepBodyFails ==
  ASSUME IInv, CannotRead \/ CannotWrite
  PROVE  IInv'
<1>1. /\ stage = "body" /\ UNCHANGED <<source, item, block, len, held, unnoticed>>
      /\ stage' \in {"thrown", "body_failed"}
  BY DEF CannotRead, CannotWrite, MoreToRead
<1>2. /\ item \in DOMAIN entries /\ len \in Nat /\ held \in Nat
  BY <1>1, UnderWay
<1>3. PICK n \in Nat : Flush(n)
  <2>1. \A m \in 0..held : m \in Nat
    BY <1>2
  <2>2. \A m \in 0..held + VisitLen : m \in Nat
    BY <1>2, SectorBytesAssumption DEF VisitLen
  <2>3. CASE CannotRead
    BY <2>1, <2>3 DEF CannotRead
  <2>4. CASE CannotWrite
    BY <2>2, <2>4 DEF CannotWrite
  <2> QED BY <2>3, <2>4
<1>4. /\ DOMAIN files' \subseteq Seq(Part) /\ \A m \in DOMAIN files' : files'[m] \in Content
      /\ EachFinishedIsWhole'
  BY <1>1, <1>3, BodyGrows
<1>5. ExtractTypeOK'
  BY <1>1, <1>2, <1>4 DEF IInv, ExtractTypeOK, source, Ends
<1> QED BY <1>1, <1>4, <1>5 DEF IInv, BodyUnderWay, RoomInSectors

(* When the loop over the sectors ends nothing is left to read, so only what close() loses is
   missing of the body. *)
LEMMA StepCloseBody == ASSUME IInv, CloseBody PROVE IInv'
<1>1. /\ stage = "body" /\ block > LastSector(Now) /\ UNCHANGED <<source, item, block, len>>
      /\ held' = 0 /\ stage' = "inf"
  BY DEF CloseBody
<1>2. PICK n \in 0..held :
        Flush(n) /\ unnoticed' = IF n < held THEN unnoticed \cup {item} ELSE unnoticed
  BY DEF CloseBody
<1>3. /\ item \in DOMAIN entries /\ block \in Nat /\ len \in Nat /\ held \in Nat
      /\ block <= LastSector(Now) + 1 /\ len <= (LastSector(Now) + 1 - block) * SectorBytes
      /\ files[BodyName(Now)].bytes = Now.length - len - held
      /\ unnoticed \subseteq DOMAIN entries
      /\ Finished = 2 * item - 2 /\ Started = 2 * item - 1
      /\ BodyName(Now) = FileName(2 * item - 1)
  BY <1>1, UnderWay
<1>4. /\ item \in Nat \ {0} /\ Now.length \in Nat /\ LastSector(Now) \in Int
  BY <1>3, AtEntry
<1>5. len = 0
  <2>1. LastSector(Now) + 1 - block = 0
    BY <1>1, <1>3, <1>4
  <2>2. len <= 0 * SectorBytes
    BY <1>3, <2>1
  <2> QED BY <1>3, <2>2, SectorBytesAssumption
<1>6. /\ DOMAIN files' \subseteq Seq(Part) /\ \A m \in DOMAIN files' : files'[m] \in Content
  BY <1>1, <1>2, <1>3, BodyGrows
<1>7. ExtractTypeOK'
  BY <1>1, <1>2, <1>3, <1>6 DEF IInv, ExtractTypeOK, source, Ends
<1>8. Finished' = 2 * item - 1 /\ Started' = 2 * item - 1
  BY <1>1, <1>4 DEF Finished, Started
<1>9. EachFinishedIsWhole'
  <2> DEFINE c == BodyFile(files[BodyName(Now)].bytes + n)
  <2>1. Put(BodyName(Now), c)
    BY <1>2 DEF Flush
  <2>2. ASSUME (Finished' + 1) \div 2 \notin unnoticed'
        PROVE  c = Whole(Finished')
    <3>1. (Finished' + 1) \div 2 = item
      BY <1>4, <1>8, Numbers
    <3>2. n = held
      BY <1>2, <1>3, <2>2, <3>1
    <3>3. files[BodyName(Now)].bytes + n = Now.length
      BY <1>3, <1>4, <1>5, <3>2
    <3>4. Whole(Finished') = [entry |-> item, kind |-> "body", bytes |-> Now.length]
      BY <1>4, <1>8, Numbers DEF Now
    <3> QED BY <3>3, <3>4 DEF BodyFile
  <2>3. unnoticed \subseteq unnoticed'
    BY <1>2
  <2> HIDE DEF c
  <2> QED BY <1>1, <1>3, <1>4, <1>8, <2>1, <2>2, <2>3, PutNewest
<1> QED BY <1>1, <1>7, <1>9 DEF IInv, BodyUnderWay, RoomInSectors

LEMMA StepCreateInf == ASSUME IInv, CreateInf PROVE IInv'
<1>1. /\ stage = "inf" /\ Put(InfName(Now), InfFile(1)) /\ item' = item + 1 /\ stage' = "entry"
      /\ UNCHANGED source /\ UNCHANGED <<block, len, held>> /\ unnoticed' = unnoticed
  BY DEF CreateInf
<1>2. ExtractTypeOK /\ item \in DOMAIN entries
  BY <1>1 DEF IInv, ExtractTypeOK
<1>3. /\ item \in Nat \ {0} /\ InfName(Now) \in Seq(Part)
      /\ item <= Len(entries) /\ Len(entries) \in Nat
  BY <1>2, AtEntry
<1>4. ExtractTypeOK'
  <2>1. InfFile(1) \in Content
    BY <1>3 DEF InfFile, Content
  <2>2. DOMAIN files' \subseteq Seq(Part) /\ \A n \in DOMAIN files' : files'[n] \in Content
    BY <1>1, <1>2, <1>3, <2>1, PutTyped
  <2>3. item' \in 1..Len(entries) + 1 /\ stage' \in {"entry", "body", "inf"} \cup Ends
        /\ stage' \in {"entry", "extracted"}
    BY <1>1, <1>3
  <2> QED BY <1>1, <1>2, <2>2, <2>3 DEF ExtractTypeOK, source
<1>5. EachFinishedIsWhole'
  <2>1. Finished = 2 * item - 1 /\ Started = 2 * item - 1
    BY <1>1, <1>3 DEF Finished, Started
  <2>2. Finished' = 2 * item /\ Started' = 2 * item
    BY <1>1, <1>3 DEF Finished, Started
  <2>3. InfName(Now) = FileName(Started') /\ InfFile(1) = Whole(Finished')
    BY <1>3, <2>2, Numbers DEF Now, InfFile
  <2>4. /\ Finished \in Nat /\ Started \in Nat /\ Finished' \in Nat /\ Started' \in Nat
        /\ Finished <= Started /\ Started <= Started' /\ Finished < Started'
        /\ Finished' = Finished + 1 /\ Started' = Finished'
    BY <1>3, <2>1, <2>2
  <2> QED BY <1>1, <1>2, <2>3, <2>4, PutNewest
<1> QED BY <1>1, <1>4, <1>5 DEF IInv, BodyUnderWay, RoomInSectors

LEMMA StepCannotCreateInf == ASSUME IInv, CannotCreateInf PROVE IInv'
<1>1. /\ stage = "inf" /\ stage' = "inf_failed" /\ item' = item /\ UNCHANGED source
      /\ UNCHANGED <<block, len, held>> /\ unnoticed' = unnoticed
      /\ UNCHANGED files \/ Put(InfName(Now), InfFile(0))
  BY DEF CannotCreateInf
<1>2. ExtractTypeOK /\ item \in DOMAIN entries
  BY <1>1 DEF IInv, ExtractTypeOK
<1>3. item \in Nat \ {0} /\ InfName(Now) \in Seq(Part)
  BY <1>2, AtEntry
<1>4. Finished = 2 * item - 1 /\ Started = 2 * item - 1
  BY <1>1, <1>3 DEF Finished, Started
<1>5. Finished' = 2 * item - 1 /\ Started' = 2 * item
  BY <1>1, <1>3 DEF Finished, Started
<1>6. DOMAIN files' \subseteq Seq(Part) /\ \A n \in DOMAIN files' : files'[n] \in Content
  <2>1. InfFile(0) \in Content
    BY <1>3 DEF InfFile, Content
  <2>2. CASE UNCHANGED files
    BY <1>2, <2>2 DEF ExtractTypeOK
  <2>3. CASE Put(InfName(Now), InfFile(0))
    BY <1>2, <1>3, <2>1, <2>3, PutTyped
  <2> QED BY <1>1, <2>2, <2>3
<1>7. ExtractTypeOK'
  <2>1. stage' \in Ends
    BY <1>1 DEF Ends
  <2> QED BY <1>1, <1>2, <1>6, <2>1 DEF ExtractTypeOK, source
<1>8. CASE UNCHANGED files
  <2>1. UNCHANGED <<source, files, item, block, len, held, unnoticed>> /\ stage' # "body"
    BY <1>1, <1>8
  <2> QED BY <1>3, <1>4, <1>5, <1>7, <2>1, NothingWritten
<1>9. CASE Put(InfName(Now), InfFile(0))
  <2>1. InfName(Now) = FileName(Started')
    BY <1>3, <1>5, Numbers DEF Now
  <2>2. /\ Finished \in Nat /\ Started \in Nat /\ Finished' \in Nat /\ Started' \in Nat
        /\ Finished <= Started /\ Started <= Started' /\ Finished < Started'
        /\ Finished' = Finished
    BY <1>3, <1>4, <1>5
  <2>3. EachFinishedIsWhole'
    BY <1>1, <1>2, <1>9, <2>1, <2>2, PutNewest
  <2> QED BY <1>1, <1>7, <2>3 DEF IInv, BodyUnderWay, RoomInSectors
<1> QED BY <1>1, <1>8, <1>9

LEMMA StepCannotCreateBody == ASSUME IInv, CannotCreateBody PROVE IInv'
<1>1. /\ stage = "entry" /\ item \in DOMAIN entries /\ stage' = "no_body"
      /\ UNCHANGED <<source, files, item, block, len, held, unnoticed>>
  BY DEF CannotCreateBody, HasEntry
<1>2. item \in Nat \ {0}
  BY <1>1, AtEntry
<1>3. Finished = 2 * item - 2 /\ Started = 2 * item - 2
  BY <1>1, <1>2 DEF Finished, Started
<1>4. Finished' = 2 * item - 2 /\ Started' = 2 * item - 2
  BY <1>1, <1>2 DEF Finished, Started
<1>5. ExtractTypeOK'
  <2>1. stage' \in Ends
    BY <1>1 DEF Ends
  <2> QED BY <1>1, <2>1 DEF IInv, ExtractTypeOK, source
<1> QED BY <1>1, <1>2, <1>3, <1>4, <1>5, NothingWritten

LEMMA StepFinish == ASSUME IInv, Finish PROVE IInv'
<1>1. /\ stage = "entry" /\ stage' = "extracted"
      /\ UNCHANGED <<source, files, item, block, len, held, unnoticed>>
  BY DEF Finish
<1>2. item \in Nat \ {0}
  BY DEF IInv, ExtractTypeOK
<1>3. Finished = 2 * item - 2 /\ Started = 2 * item - 2
  BY <1>1, <1>2 DEF Finished, Started
<1>4. Finished' = 2 * item - 2 /\ Started' = 2 * item - 2
  BY <1>1, <1>2 DEF Finished, Started
<1>5. ExtractTypeOK'
  <2>1. stage' \in Ends
    BY <1>1 DEF Ends
  <2> QED BY <1>1, <2>1 DEF IInv, ExtractTypeOK, source
<1> QED BY <1>1, <1>2, <1>3, <1>4, <1>5, NothingWritten

LEMMA Unmoved == ASSUME IInv, UNCHANGED evars PROVE IInv'
<1>1. UNCHANGED <<current_directory, entries, readable, before, files, item, stage, block, len,
                  held, unnoticed>>
  BY DEF evars, source
<1>2. ExtractTypeOK'
  BY <1>1 DEF IInv, ExtractTypeOK
<1>3. EachFinishedIsWhole'
  <2>1. UNCHANGED source /\ Finished' = Finished /\ Started' = Started
    BY <1>1 DEF source, Finished, Started
  <2>2. WholeUpTo(files', Finished', Started', unnoticed')
    BY <1>1, <2>1, InParts DEF IInv
  <2> QED BY <2>1, <2>2, SameSource
<1>4. Now' = Now /\ LastSector(Now)' = LastSector(Now) /\ BodyName(Now)' = BodyName(Now)
  BY <1>1 DEF Now, LastSector, Empty, BodyName
<1>5. BodyUnderWay'
  BY <1>1, <1>4 DEF IInv, BodyUnderWay, BodyFile
<1>6. RoomInSectors'
  BY <1>1, <1>4 DEF IInv, RoomInSectors
<1> QED BY <1>2, <1>3, <1>5, <1>6 DEF IInv

LEMMA StepHolds == IInv /\ [Extract]_evars => IInv'
<1> SUFFICES ASSUME IInv, [Extract]_evars PROVE IInv'
  OBVIOUS
<1>1. CASE CreateBody
  BY <1>1, StepCreateBody
<1>2. CASE CannotCreateBody
  BY <1>2, StepCannotCreateBody
<1>3. CASE CannotRead \/ CannotWrite
  BY <1>3, StepBodyFails
<1>4. CASE WritePiece
  BY <1>4, StepWritePiece
<1>5. CASE CloseBody
  BY <1>5, StepCloseBody
<1>6. CASE CreateInf
  BY <1>6, StepCreateInf
<1>7. CASE CannotCreateInf
  BY <1>7, StepCannotCreateInf
<1>8. CASE Finish
  BY <1>8, StepFinish
<1>9. CASE UNCHANGED evars
  BY <1>9, Unmoved
<1> QED BY <1>1, <1>2, <1>3, <1>4, <1>5, <1>6, <1>7, <1>8, <1>9 DEF Extract

----------------------------------------------------------------------------
\* Whatever fails and wherever extract-files stops, with any number of entries and any names:
\* the types hold, and each file it finished is whole unless a later one has its name, or its
\* last bytes were lost by the close() nobody looks at; other files are as they were.
THEOREM FinishedFilesWhole == ExtractSpec => []FinishedAreWhole
<1>1. IInv => FinishedAreWhole
  BY DEF IInv, FinishedAreWhole
<1> QED BY <1>1, InitHolds, StepHolds, PTL DEF ExtractSpec

----------------------------------------------------------------------------
(* Short sequences, element by element. *)
LEMMA TwoParts ==
  ASSUME NEW S, NEW s \in Seq(S), NEW a \in S, NEW b \in S, Len(s) = 2, s[1] = a, s[2] = b
  PROVE  s = <<a, b>>
<1> DEFINE t == <<a, b>>
<1>1. t \in Seq(S) /\ Len(t) = 2 /\ t[1] = a /\ t[2] = b
  OBVIOUS
<1> HIDE DEF t
<1>2. \A i \in 1..Len(s) : s[i] = t[i]
  BY <1>1
<1>3. s = t
  BY <1>1, <1>2, SeqEqual
<1> QED BY <1>3 DEF t

LEMMA ShortNames ==
  ASSUME NEW S, NEW a \in S, NEW b \in S, NEW c \in S
  PROVE  /\ \A s \in Seq(S) : Len(s) = 1 => s[1] \in S /\ s = <<s[1]>>
         /\ <<a>> \o <<b>> = <<a, b>> /\ Append(<<a>>, b) = <<a, b>>
         /\ Append(<<a, b>>, c) = <<a, b, c>>
<1>1. ASSUME NEW s \in Seq(S), Len(s) = 1 PROVE s[1] \in S /\ s = <<s[1]>>
  <2>1. s[1] \in S
    BY <1>1, ElementOfSeq
  <2> DEFINE o == <<s[1]>>
  <2>2. o \in Seq(S) /\ Len(o) = 1 /\ o[1] = s[1]
    BY <2>1
  <2> HIDE DEF o
  <2>3. \A i \in 1..Len(s) : s[i] = o[i]
    BY <1>1, <2>2
  <2>4. s = o
    BY <1>1, <2>2, <2>3, SeqEqual
  <2> QED BY <2>1, <2>4 DEF o
<1> DEFINE s == <<a>> \o <<b>>
           t == Append(<<a>>, b)
           u == Append(<<a, b>>, c)
           v == <<a, b, c>>
<1>2. <<a>> \in Seq(S) /\ <<b>> \in Seq(S) /\ <<a, b>> \in Seq(S)
  OBVIOUS
<1>3. s \in Seq(S) /\ Len(s) = 2 /\ s[1] = a /\ s[2] = b
  BY <1>2
<1>4. t \in Seq(S) /\ Len(t) = 2 /\ t[1] = a /\ t[2] = b
  BY <1>2
<1>5. u \in Seq(S) /\ Len(u) = 3 /\ u[1] = a /\ u[2] = b /\ u[3] = c
  BY <1>2
<1>6. v \in Seq(S) /\ Len(v) = 3 /\ v[1] = a /\ v[2] = b /\ v[3] = c
  OBVIOUS
<1> HIDE DEF s, t, u, v
<1>7. s = <<a, b>> /\ t = <<a, b>>
  BY <1>3, <1>4, TwoParts
<1>8. \A i \in 1..Len(u) : u[i] = v[i]
  BY <1>5, <1>6
<1>9. u = v
  BY <1>5, <1>6, <1>8, SeqEqual
<1> QED BY <1>1, <1>7, <1>9 DEF s, t, u, v

(* The names of the files of a catalogue whose names are apart. *)
LEMMA NameShapes ==
  ASSUME ExtractTypeOK, NamesApart, NEW i \in DOMAIN entries
  PROVE  LET e == entries[i]
         IN  /\ e.name = <<e.name[1]>>
             /\ BodyName(e) = IF e.dir = current_directory
                              THEN <<e.name[1]>> ELSE <<e.dir, e.name[1]>>
             /\ InfName(e) = IF e.dir = current_directory
                             THEN <<e.name[1], Inf>> ELSE <<e.dir, e.name[1], Inf>>
<1> DEFINE e == entries[i]
           n == e.name[1]
<1>1. e.dir \in Part /\ e.name \in Seq(Part)
  BY NamesTyped DEF NamedEntry
<1>2. n \in Part /\ e.name = <<n>>
  <2>1. Len(e.name) = 1
    BY DEF NamesApart
  <2> QED BY <1>1, <2>1, InfAssumption, ShortNames
<1> HIDE DEF e, n
<1>3. <<e.dir>> \o <<n>> = <<e.dir, n>>
  BY <1>1, <1>2, InfAssumption, ShortNames
<1>4. Append(<<n>>, Inf) = <<n, Inf>> /\ Append(<<e.dir, n>>, Inf) = <<e.dir, n, Inf>>
  BY <1>1, <1>2, InfAssumption, ShortNames
<1>5. BodyName(e) = IF e.dir = current_directory THEN <<n>> ELSE <<e.dir, n>>
  BY <1>2, <1>3 DEF BodyName
<1>6. InfName(e) = IF e.dir = current_directory THEN <<n, Inf>> ELSE <<e.dir, n, Inf>>
  BY <1>4, <1>5 DEF InfName
<1> QED BY <1>2, <1>5, <1>6 DEF e, n

LEMMA EntriesApart ==
  ASSUME ExtractTypeOK, NamesApart, NEW i \in DOMAIN entries, NEW j \in DOMAIN entries
  PROVE  /\ BodyName(entries[i]) = BodyName(entries[j]) => i = j
         /\ InfName(entries[i]) = InfName(entries[j]) => i = j
         /\ BodyName(entries[i]) # InfName(entries[j])
<1> DEFINE a == entries[i]
           b == entries[j]
           m == a.name[1]
           n == b.name[1]
<1>1. /\ a.name = <<m>> /\ b.name = <<n>>
      /\ BodyName(a) = IF a.dir = current_directory THEN <<m>> ELSE <<a.dir, m>>
      /\ BodyName(b) = IF b.dir = current_directory THEN <<n>> ELSE <<b.dir, n>>
      /\ InfName(a) = IF a.dir = current_directory THEN <<m, Inf>> ELSE <<a.dir, m, Inf>>
      /\ InfName(b) = IF b.dir = current_directory THEN <<n, Inf>> ELSE <<b.dir, n, Inf>>
  BY NameShapes
<1>2. a.dir = b.dir /\ a.name = b.name => i = j
  BY DEF NamesApart
<1>3. b.name = <<a.dir>> /\ a.name = <<Inf>>
        => b.dir # current_directory \/ a.dir = current_directory
  BY DEF NamesApart
<1> HIDE DEF a, b, m, n
<1>4. BodyName(a) = BodyName(b) => i = j
  BY <1>1, <1>2
<1>5. InfName(a) = InfName(b) => i = j
  BY <1>1, <1>2
<1>6. BodyName(a) # InfName(b)
  BY <1>1, <1>3
<1> QED BY <1>4, <1>5, <1>6 DEF a, b

LEMMA FilesApart ==
  ASSUME ExtractTypeOK, NamesApart,
         NEW k \in 1..2 * Len(entries), NEW l \in 1..2 * Len(entries), FileName(k) = FileName(l)
  PROVE  k = l
<1>1. entries \in Seq(NamedEntry) /\ Len(entries) \in Nat /\ DOMAIN entries = 1..Len(entries)
  BY DEF ExtractTypeOK
<1>2. \A x \in 1..2 * Len(entries) : \E i \in DOMAIN entries : x = 2 * i - 1 \/ x = 2 * i
  <2> SUFFICES ASSUME NEW x \in 1..2 * Len(entries)
               PROVE  \E i \in DOMAIN entries : x = 2 * i - 1 \/ x = 2 * i
    OBVIOUS
  <2> DEFINE i == (x + 1) \div 2
  <2>1. i \in 1..Len(entries) /\ (x = 2 * i - 1 \/ x = 2 * i)
    BY <1>1
  <2> QED BY <1>1, <2>1
<1>3. PICK i \in DOMAIN entries : k = 2 * i - 1 \/ k = 2 * i
  BY <1>2
<1>4. PICK j \in DOMAIN entries : l = 2 * j - 1 \/ l = 2 * j
  BY <1>2
<1>5. i \in Nat \ {0} /\ j \in Nat \ {0}
  BY <1>1
<1>6. /\ FileName(2 * i - 1) = BodyName(entries[i]) /\ FileName(2 * i) = InfName(entries[i])
      /\ FileName(2 * j - 1) = BodyName(entries[j]) /\ FileName(2 * j) = InfName(entries[j])
  BY <1>5, Numbers
<1>7. CASE k = 2 * i - 1 /\ l = 2 * j - 1
  BY <1>6, <1>7, EntriesApart
<1>8. CASE k = 2 * i /\ l = 2 * j
  BY <1>6, <1>8, EntriesApart
<1>9. CASE k = 2 * i - 1 /\ l = 2 * j
  BY <1>6, <1>9, EntriesApart
<1>10. CASE k = 2 * i /\ l = 2 * j - 1
  BY <1>6, <1>10, EntriesApart
<1> QED BY <1>3, <1>4, <1>7, <1>8, <1>9, <1>10

(* Success is told when the last entry is behind. *)
EndIsTheEnd == stage = "extracted" => item > Len(entries)

LEMMA EndHolds == ExtractSpec => []EndIsTheEnd
<1>1. ExtractInit => EndIsTheEnd
  BY DEF ExtractInit, StartExtracting, EndIsTheEnd
<1>2. EndIsTheEnd /\ [Extract]_evars => EndIsTheEnd'
  <2> SUFFICES ASSUME EndIsTheEnd, [Extract]_evars, stage' = "extracted"
               PROVE  item' > Len(entries')
    BY DEF EndIsTheEnd
  <2>1. CASE Finish
    BY <2>1 DEF Finish, source
  <2>2. CASE UNCHANGED evars
    BY <2>2 DEF evars, source, EndIsTheEnd
  <2>3. Finish \/ UNCHANGED evars
    BY DEF Extract, CreateBody, CannotCreateBody, CannotRead, WritePiece, MoreToRead, NextBlock,
           CannotWrite, CloseBody, CreateInf, CannotCreateInf
  <2> QED BY <2>1, <2>2, <2>3
<1> QED BY <1>1, <1>2, PTL DEF ExtractSpec

\* When the names of the catalogue are apart, success means that every entry, of however many,
\* has its whole body in a file and the .inf of it beside, but for bytes lost by close().
THEOREM EverythingExtracted == ExtractSpec => []AllExtracted
<1>1. IInv /\ EndIsTheEnd => AllExtracted
  <2> SUFFICES ASSUME IInv, EndIsTheEnd, stage = "extracted", NamesApart,
                      NEW i \in DOMAIN entries \ unnoticed
               PROVE  \E n \in DOMAIN files :
                        /\ files[n] = [entry |-> i, kind |-> "body", bytes |-> entries[i].length]
                        /\ Append(n, Inf) \in DOMAIN files
                        /\ files[Append(n, Inf)] = [entry |-> i, kind |-> "inf", bytes |-> 1]
    BY DEF AllExtracted
  <2>1. ExtractTypeOK /\ WholeUpTo(files, Finished, Started, unnoticed)
    BY InParts DEF IInv
  <2>2. Len(entries) \in Nat /\ item = Len(entries) + 1 /\ i \in 1..Len(entries)
    BY <2>1 DEF ExtractTypeOK, EndIsTheEnd
  <2>3. Finished = 2 * Len(entries) /\ Started = 2 * Len(entries)
    BY <2>2 DEF Finished, Started
  <2>4. ASSUME NEW k \in 1..2 * Len(entries), (k + 1) \div 2 \notin unnoticed
        PROVE  FileName(k) \in DOMAIN files /\ files[FileName(k)] = Whole(k)
    <3>1. ASSUME NEW j \in k + 1..2 * Len(entries) PROVE FileName(j) # FileName(k)
      <4>1. j \in 1..2 * Len(entries) /\ j # k
        BY <2>2
      <4> QED BY <2>1, <4>1, FilesApart
    <3> QED BY <2>1, <2>3, <2>4, <3>1 DEF WholeUpTo
  <2>5. /\ 2 * i - 1 \in 1..2 * Len(entries) /\ 2 * i \in 1..2 * Len(entries)
        /\ (2 * i - 1 + 1) \div 2 = i /\ (2 * i + 1) \div 2 = i
    <3>1. i \in Nat \ {0} /\ i <= Len(entries)
      BY <2>2
    <3>2. 2 * i - 1 \in 1..2 * Len(entries) /\ 2 * i \in 1..2 * Len(entries)
      BY <2>2, <3>1
    <3> QED BY <3>1, <3>2, Numbers
  <2>6. /\ FileName(2 * i - 1) = BodyName(entries[i]) /\ FileName(2 * i) = InfName(entries[i])
        /\ Whole(2 * i - 1) = [entry |-> i, kind |-> "body", bytes |-> entries[i].length]
        /\ Whole(2 * i) = [entry |-> i, kind |-> "inf", bytes |-> 1]
    BY <2>2, Numbers
  <2>7. FileName(2 * i - 1) \in DOMAIN files /\ files[FileName(2 * i - 1)] = Whole(2 * i - 1)
    BY <2>4, <2>5
  <2>8. FileName(2 * i) \in DOMAIN files /\ files[FileName(2 * i)] = Whole(2 * i)
    BY <2>4, <2>5
  <2>9. InfName(entries[i]) = Append(BodyName(entries[i]), Inf)
    BY DEF InfName
  <2> QED BY <2>6, <2>7, <2>8, <2>9
<1> QED BY <1>1, InitHolds, StepHolds, EndHolds, PTL DEF ExtractSpec

----------------------------------------------------------------------------
(* What is free, of an image or a volume: files and their places.           *)

DiscOK ==
  /\ format \in Format /\ device \in Nat
  /\ fragments \in Seq(Fragment) /\ Len(fragments) = FragmentCount(format)

LEMMA SectorsOfFile == \A n \in Nat : SectorsFor(n) \in Nat /\ (n # 0 => SectorsFor(n) >= 1)
<1> SUFFICES ASSUME NEW n \in Nat PROVE SectorsFor(n) \in Nat /\ (n # 0 => SectorsFor(n) >= 1)
  OBVIOUS
<1>1. n \div SectorBytes \in Nat /\ n % SectorBytes \in 0..SectorBytes - 1
  BY SectorBytesAssumption
<1>2. n = SectorBytes * (n \div SectorBytes) + (n % SectorBytes)
  BY SectorBytesAssumption
<1>3. n # 0 => n \div SectorBytes # 0 \/ n % SectorBytes # 0
  <2> SUFFICES ASSUME n # 0, n \div SectorBytes = 0, n % SectorBytes = 0 PROVE FALSE
    OBVIOUS
  <2>1. SectorBytes * (n \div SectorBytes) = 0
    BY SectorBytesAssumption
  <2> QED
    BY <2>1, <1>2
<1> QED
  BY <1>1, <1>3 DEF SectorsFor

\* A file ends where it starts or later, and one with a body starts with it.
LEMMA FileFacts ==
  ASSUME NEW e \in Entry
  PROVE  /\ e.start \in Nat /\ e.length \in Nat
         /\ LastSector(e) \in Nat /\ e.start <= LastSector(e)
         /\ ~Empty(e) => /\ e.start \in Body(e) /\ LastSector(e) \in Body(e)
                         /\ LastSector(e) + 1 = e.start + SectorsFor(e.length)
                         /\ Body(e) = FileSectors(e)
         /\ Empty(e) => /\ Body(e) = {} /\ FileSectors(e) = {e.start}
                        /\ e.start + SectorsFor(e.length) = e.start
         /\ Body(e) \subseteq FileSectors(e) /\ FileSectors(e) \subseteq Nat
         /\ Body(e) = {s \in Nat : ~Empty(e) /\ e.start <= s /\ s <= LastSector(e)}
<1>1. e.start \in Nat /\ e.length \in Nat
  BY DEF Entry
<1>2. SectorsFor(e.length) \in Nat /\ (e.length # 0 => SectorsFor(e.length) >= 1)
  BY <1>1, SectorsOfFile
<1>3. SectorsFor(0) = 0
  BY SectorBytesAssumption DEF SectorsFor
<1>4. LastSector(e) \in Nat /\ e.start <= LastSector(e)
  BY <1>1, <1>2 DEF LastSector, Empty
<1>5. ~Empty(e) => LastSector(e) + 1 = e.start + SectorsFor(e.length)
  BY <1>1, <1>2 DEF LastSector, Empty
<1>6. Empty(e) => LastSector(e) = e.start /\ e.start + SectorsFor(e.length) = e.start
  BY <1>1, <1>3 DEF LastSector, Empty
<1> QED
  BY <1>1, <1>4, <1>5, <1>6 DEF Body, FileSectors

\* A place is a catalog and the position of an entry in it.
LEMMA PlaceFacts ==
  ASSUME DiscOK
  PROVE  /\ \A p : p \in Places <=> /\ p = <<p[1], p[2]>> /\ p[1] \in DOMAIN fragments
                                    /\ p[2] \in DOMAIN fragments[p[1]].entries
         /\ \A p \in Places : At(p) \in Entry /\ p[1] \in Nat \ {0} /\ p[2] \in Nat \ {0}
         /\ \A c \in DOMAIN fragments : /\ fragments[c].entries \in Seq(Entry)
                                        /\ Len(fragments[c].entries) \in Nat
                                        /\ fragments[c].total \in Nat
         /\ TotalSectors \in Nat
         /\ Len(fragments) \in {1, 2} /\ DOMAIN fragments = 1..Len(fragments)
         /\ Reserved \in Nat
<1>1. Len(fragments) \in {1, 2} /\ DOMAIN fragments = 1..Len(fragments)
  <2>1. fragments \in Seq(Fragment) /\ FragmentCount(format) \in {1, 2}
    BY DEF DiscOK, FragmentCount
  <2> QED
    BY <2>1 DEF DiscOK
<1>2. \A c \in DOMAIN fragments : /\ fragments[c].entries \in Seq(Entry)
                                  /\ Len(fragments[c].entries) \in Nat
                                  /\ fragments[c].total \in Nat
  <2> SUFFICES ASSUME NEW c \in DOMAIN fragments
               PROVE  /\ fragments[c].entries \in Seq(Entry)
                      /\ Len(fragments[c].entries) \in Nat
                      /\ fragments[c].total \in Nat
    OBVIOUS
  <2>1. fragments[c] \in Fragment
    BY DEF DiscOK
  <2> QED
    BY <2>1 DEF Fragment
<1>3. \A p : p \in Places <=> /\ p = <<p[1], p[2]>> /\ p[1] \in DOMAIN fragments
                              /\ p[2] \in DOMAIN fragments[p[1]].entries
  BY DEF Places
<1>4. \A p \in Places : At(p) \in Entry /\ p[1] \in Nat \ {0} /\ p[2] \in Nat \ {0}
  BY <1>1, <1>2, <1>3 DEF At
<1>5. Reserved \in Nat
  BY DEF Reserved, DataSectorsReservedForCatalog, CatalogSectorsForFormat
<1> QED
  BY <1>1, <1>2, <1>3, <1>4, <1>5 DEF TotalSectors

----------------------------------------------------------------------------
(* The loops over the entries *)

\* Going forwards: the entries passed are those before the one the loop is at.
LEMMA PassedNext ==
  ASSUME DiscOK, EntryHere, NextEntry
  PROVE  /\ \A p \in Places : Before(p, <<frag', pos'>>)
                                <=> Before(p, <<frag, pos>>) \/ p = <<frag, pos>>
         /\ frag' \in 1..Len(fragments) + 1 /\ pos' \in Nat \ {0}
         /\ <<frag, pos>> \in Places /\ ~Before(<<frag, pos>>, <<frag, pos>>)
<1>1. /\ frag \in 1..Len(fragments) /\ pos \in 1..Len(fragments[frag].entries)
      /\ Len(fragments) \in Nat /\ Len(fragments[frag].entries) \in Nat
  BY PlaceFacts DEF EntryHere
<1>2. <<frag, pos>> \in Places
  BY PlaceFacts DEF EntryHere
<1>3. ASSUME NEW p \in Places
      PROVE  Before(p, <<frag', pos'>>) <=> Before(p, <<frag, pos>>) \/ p = <<frag, pos>>
  <2>1. /\ p = <<p[1], p[2]>> /\ p[1] \in Nat \ {0} /\ p[2] \in Nat \ {0}
        /\ p[2] \in DOMAIN fragments[p[1]].entries
    BY PlaceFacts
  <2>2. p[1] = frag => p[2] <= Len(fragments[frag].entries)
    BY <1>1, <2>1, PlaceFacts
  <2>3. p = <<frag, pos>> <=> p[1] = frag /\ p[2] = pos
    BY <2>1
  <2>4. CASE pos < Len(fragments[frag].entries)
    BY <1>1, <2>1, <2>3, <2>4 DEF NextEntry, Before
  <2>5. CASE ~(pos < Len(fragments[frag].entries))
    BY <1>1, <2>1, <2>2, <2>3, <2>5 DEF NextEntry, Before
  <2> QED
    BY <2>4, <2>5
<1>4. frag' \in 1..Len(fragments) + 1 /\ pos' \in Nat \ {0}
  BY <1>1 DEF NextEntry
<1> QED
  BY <1>1, <1>2, <1>3, <1>4 DEF Before

LEMMA PassedNextFragment ==
  ASSUME DiscOK, NoEntriesHere, NextEntry, pos \in Nat \ {0}, frag \in 1..Len(fragments) + 1
  PROVE  /\ \A p \in Places : Before(p, <<frag', pos'>>) <=> Before(p, <<frag, pos>>)
         /\ frag' \in 1..Len(fragments) + 1 /\ pos' \in Nat \ {0}
<1>1. /\ frag \in 1..Len(fragments) /\ pos > Len(fragments[frag].entries)
      /\ Len(fragments) \in Nat /\ Len(fragments[frag].entries) \in Nat
  BY PlaceFacts DEF NoEntriesHere
<1>2. frag' = frag + 1 /\ pos' = 1
  BY <1>1 DEF NextEntry
<1>3. ASSUME NEW p \in Places
      PROVE  Before(p, <<frag', pos'>>) <=> Before(p, <<frag, pos>>)
  <2>1. p[1] \in Nat \ {0} /\ p[2] \in Nat \ {0} /\ p[2] \in DOMAIN fragments[p[1]].entries
    BY PlaceFacts
  <2>2. p[1] = frag => p[2] <= Len(fragments[frag].entries)
    BY <1>1, <2>1, PlaceFacts
  <2> QED
    BY <1>1, <1>2, <2>1, <2>2 DEF Before
<1> QED
  BY <1>1, <1>2, <1>3

LEMMA AllPassed ==
  ASSUME DiscOK, EntriesDone, frag \in 1..Len(fragments) + 1
  PROVE  \A p \in Places : Before(p, <<frag, pos>>)
<1>1. frag = Len(fragments) + 1 /\ Len(fragments) \in Nat
  BY PlaceFacts DEF EntriesDone
<1>2. \A p \in Places : p[1] \in 1..Len(fragments)
  BY PlaceFacts
<1> QED
  BY <1>1, <1>2 DEF Before

\* Going backwards: the entries passed are those behind the one the loop is at.
LEMMA PassedBackwards ==
  ASSUME DiscOK, EntryHere
  PROVE  /\ \A p \in Places : Before(<<frag, pos - 1>>, p)
                                <=> Before(<<frag, pos>>, p) \/ p = <<frag, pos>>
         /\ <<frag, pos>> \in Places /\ ~Before(<<frag, pos>>, <<frag, pos>>)
<1>1. frag \in Nat /\ pos \in Nat \ {0} /\ <<frag, pos>> \in Places
  BY PlaceFacts DEF EntryHere
<1>2. ASSUME NEW p \in Places
      PROVE  Before(<<frag, pos - 1>>, p) <=> Before(<<frag, pos>>, p) \/ p = <<frag, pos>>
  <2>1. p = <<p[1], p[2]>> /\ p[1] \in Nat \ {0} /\ p[2] \in Nat \ {0}
    BY PlaceFacts
  <2>2. p = <<frag, pos>> <=> p[1] = frag /\ p[2] = pos
    BY <2>1
  <2> QED
    BY <1>1, <2>1, <2>2 DEF Before
<1> QED
  BY <1>1, <1>2 DEF Before

\* Later on the disc, where files are listed from its end backwards.
Above(q, p) == q[1] > p[1] \/ (q[1] = p[1] /\ q[2] < p[2])

\* The next file of start_sec_of_next is the one after this one on the disc.
LEMMA NextOnDisc ==
  ASSUME DiscOK, EntryHere, ~NextIsNowhere
  PROVE  \/ /\ StartSecOfNext = TotalSectors
            /\ \A r \in Places : ~Above(r, <<frag, pos>>)
         \/ \E q \in Places : /\ StartSecOfNext = At(q).start
                              /\ Above(q, <<frag, pos>>)
                              /\ \A r \in Places : Above(r, <<frag, pos>>) => r = q \/ Above(r, q)
<1>1. /\ frag \in 1..Len(fragments) /\ pos \in 1..Len(fragments[frag].entries)
      /\ Len(fragments) \in {1, 2} /\ Len(fragments[frag].entries) \in Nat
  BY PlaceFacts DEF EntryHere
<1>2. \A r \in Places : /\ r = <<r[1], r[2]>> /\ r[1] \in 1..Len(fragments)
                        /\ r[2] \in 1..Len(fragments[r[1]].entries)
  BY PlaceFacts
<1>3. CASE pos > 1
  <2> DEFINE q == <<frag, pos - 1>>
  <2>1. q \in Places
    BY <1>1, <1>3, PlaceFacts
  <2>2. StartSecOfNext = At(q).start
    BY <1>1, <1>3 DEF StartSecOfNext
  <2>3. Above(q, <<frag, pos>>)
    BY <1>1, <1>3 DEF Above
  <2>4. ASSUME NEW r \in Places, Above(r, <<frag, pos>>) PROVE r = q \/ Above(r, q)
    <3>1. r = <<r[1], r[2]>> /\ r[1] \in Nat /\ r[2] \in Nat
      BY <1>1, <1>2, PlaceFacts
    <3>2. r[1] > frag \/ (r[1] = frag /\ r[2] < pos)
      BY <2>4 DEF Above
    <3> QED
      BY <3>1, <3>2, <1>1 DEF Above
  <2> QED
    BY <2>1, <2>2, <2>3, <2>4
<1>4. CASE pos = 1 /\ frag = Len(fragments)
  <2>1. StartSecOfNext = TotalSectors
    BY <1>1, <1>4 DEF StartSecOfNext
  <2>2. \A r \in Places : ~Above(r, <<frag, pos>>)
    BY <1>1, <1>2, <1>4, PlaceFacts DEF Above
  <2> QED
    BY <2>1, <2>2
<1>5. CASE pos = 1 /\ frag # Len(fragments)
  <2> DEFINE n == Len(fragments[frag + 1].entries)
             q == <<frag + 1, n>>
  <2>1. frag = 1 /\ Len(fragments) = 2
    <3>1. \A c \in 1..2 : \A k \in 1..c : k # c => k = 1 /\ c = 2
      OBVIOUS
    <3>2. Len(fragments) \in 1..2 /\ frag \in 1..Len(fragments) /\ frag # Len(fragments)
      BY <1>1, <1>5
    <3> QED
      BY <3>1, <3>2
  <2>2. fragments[2].entries # <<>> /\ fragments[2].entries \in Seq(Entry)
    BY <2>1, <1>5, PlaceFacts DEF NextIsNowhere
  <2>3. n \in Nat \ {0}
    BY <2>1, <2>2
  <2>4. q \in Places
    BY <2>1, <2>3, PlaceFacts
  <2>5. StartSecOfNext = At(q).start
    BY <1>5, <2>1 DEF StartSecOfNext, Last, At
  <2>6. Above(q, <<frag, pos>>)
    BY <2>1 DEF Above
  <2>7. ASSUME NEW r \in Places, Above(r, <<frag, pos>>) PROVE r = q \/ Above(r, q)
    <3>1. r = <<r[1], r[2]>> /\ r[1] \in {1, 2} /\ r[2] \in 1..Len(fragments[r[1]].entries)
      BY <1>1, <1>2, <2>1
    <3>2. r[1] = 2
      BY <2>7, <3>1, <1>5, <2>1 DEF Above
    <3>3. r[2] \in 1..n
      BY <3>1, <3>2, <2>1
    <3> QED
      BY <2>1, <2>3, <3>1, <3>2, <3>3 DEF Above
  <2> QED
    BY <2>4, <2>5, <2>6, <2>7
<1> QED
  BY <1>1, <1>3, <1>4, <1>5

LEMMA NextStartIsNumber ==
  ASSUME DiscOK, EntryHere, ~NextIsNowhere
  PROVE  StartSecOfNext \in Nat
<1>1. \A q \in Places : At(q).start \in Nat
  BY PlaceFacts, FileFacts
<1>2. TotalSectors \in Nat
  BY PlaceFacts
<1> QED
  BY <1>1, <1>2, NextOnDisc

\* A set of numbers has a least element: what stands in for induction here.
LEMMA NatLeast ==
  ASSUME NEW T, T \subseteq Nat, T # {}
  PROVE  \E x \in T : \A y \in T : x <= y
<1> DEFINE R == {ss \in Nat \X Nat : ss[1] < ss[2]}
<1>1. IsWellFoundedOn(R, Nat)
  BY NatLessThanWellFounded DEF OpToRel
<1> HIDE DEF R
<1>2. PICK x \in T : \A y \in T : ~ (<<y, x>> \in R)
  BY <1>1, WFMin
<1>3. ASSUME NEW y \in T, y < x PROVE <<y, x>> \in R
  BY <1>3 DEF R
<1>4. ASSUME NEW y \in T PROVE x <= y
  <2>1. x \in Nat /\ y \in Nat
    OBVIOUS
  <2>2. ~(y < x)
    BY <1>2, <1>3
  <2> QED
    BY <2>1, <2>2
<1> QED
  BY <1>4

\* The first file is unique, and there is one on a disc with files.
LEMMA FirstFile ==
  ASSUME DiscOK
  PROVE  /\ \A p, q : IsFirstFile(p) /\ IsFirstFile(q) => p = q
         /\ Places # {} => \E p \in Places : IsFirstFile(p)
         /\ \A p : IsFirstFile(p) => p \in Places /\ \A q \in Places : At(p).start <= At(q).start
<1>1. \A p \in Places : /\ p = <<p[1], p[2]>> /\ p[1] \in Nat /\ p[2] \in Nat
                         /\ At(p).start \in Nat
  BY PlaceFacts, FileFacts
<1>2. \A p, q : IsFirstFile(p) /\ IsFirstFile(q) => p = q
  BY <1>1 DEF IsFirstFile, Before
<1>3. ASSUME Places # {} PROVE \E p \in Places : IsFirstFile(p)
  <2>1. PICK a \in {At(p).start : p \in Places} : \A y \in {At(p).start : p \in Places} : a <= y
    BY <1>1, <1>3, NatLeast
  <2> DEFINE A == {p \in Places : At(p).start = a}
  <2>2. PICK b \in {p[1] : p \in A} : \A y \in {p[1] : p \in A} : b <= y
    BY <1>1, <2>1, NatLeast
  <2> DEFINE B == {p \in A : p[1] = b}
  <2>3. PICK d \in {p[2] : p \in B} : \A y \in {p[2] : p \in B} : d <= y
    BY <1>1, <2>2, NatLeast
  <2>4. PICK p \in B : p[2] = d
    BY <2>3
  <2>5. ASSUME NEW q \in Places \ {p}
        PROVE  At(p).start < At(q).start \/ (At(p).start = At(q).start /\ Before(p, q))
    <3>1. At(p).start = a /\ a <= At(q).start /\ p[1] = b /\ p \in Places
      BY <2>1, <2>4
    <3>2. CASE At(q).start = a
      <4>1. q \in A /\ b <= q[1]
        BY <3>2, <2>2
      <4>2. q[1] = b => d <= q[2] /\ q[2] # d
        <5>1. q[1] = b => q \in B
          BY <4>1
        <5> QED
          BY <5>1, <2>3, <2>4, <3>1, <1>1
      <4> QED
        BY <4>1, <4>2, <3>1, <3>2, <2>4, <1>1 DEF Before
    <3> QED
      BY <3>1, <3>2, <1>1
  <2> QED
    BY <2>4, <2>5 DEF IsFirstFile
<1>4. ASSUME NEW p, IsFirstFile(p), NEW q \in Places
      PROVE  p \in Places /\ At(p).start <= At(q).start
  BY <1>1, <1>4 DEF IsFirstFile
<1> QED
  BY <1>2, <1>3, <1>4 DEF IsFirstFile

LEMMA FollowingIsNumber ==
  ASSUME DiscOK
  PROVE  /\ Following \in Nat
         /\ Places # {} => \E p \in Places : IsFirstFile(p) /\ Following = At(p).start
<1>1. TotalSectors \in Nat /\ \A p \in Places : At(p).start \in Nat
  BY PlaceFacts, FileFacts
<1>2. Places # {} => \E p \in Places : IsFirstFile(p)
  BY FirstFile
<1>3. Places # {} => LET p == CHOOSE p \in Places : IsFirstFile(p)
                     IN  p \in Places /\ IsFirstFile(p)
  BY <1>2
<1> QED
  BY <1>1, <1>3 DEF Following

LEMMA GapType ==
  ASSUME NEW list \in Seq(Nat \ {0}), NEW last \in Nat, NEW next \in Nat
  PROVE  MaybeGap(list, last, next) \in Seq(Nat \ {0})
BY DEF MaybeGap

LEMMA SpanWritten ==
  ASSUME begin \in Nat, sec \in Nat, device \in Nat
  PROVE  LET w == Max({begin, Min({sec, device})})
         IN  w \in Nat /\ begin <= w /\ \A s \in Nat : s < sec /\ s < device => s < w
<1> DEFINE m == Min({sec, device})
           w == Max({begin, m})
<1>1. m = IF sec <= device THEN sec ELSE device
  BY DEF Min
<1>2. m \in Nat
  BY <1>1
<1> HIDE DEF m
<1>3. w = IF begin >= m THEN begin ELSE m
  BY <1>2 DEF Max
<1> QED
  BY <1>1, <1>2, <1>3 DEF m

----------------------------------------------------------------------------
(* Type correctness *)

SpanType == [first : Nat, end : Nat, written : Nat]

\* What the type invariant rests on: where the loops over the entries can be.
LoopsOK ==
  /\ spans \in Seq(SpanType)
  /\ pc = "command" => frag = 1 /\ pos = 1
  /\ pc \in {"map", "free"} => pos \in Nat \ {0}
  /\ pc = "space" => frag \in DOMAIN fragments /\ pos \in 0..Len(fragments[frag].entries)

TypeInv == TypeOK /\ LoopsOK

LEMMA TypeGivesDisc == TypeInv => DiscOK
BY DEF TypeInv, TypeOK, DiscOK

LEMMA InitTypeInv == Init => TypeInv
<1> SUFFICES ASSUME Init PROVE TypeInv
  OBVIOUS
<1>1. DiscOK
  BY DEF Init, DiscOK
<1>2. Len(fragments) \in {1, 2} /\ TotalSectors \in Nat
  BY <1>1, PlaceFacts
<1> QED
  BY <1>2 DEF Init, Start, TypeInv, TypeOK, LoopsOK

LEMMA NextTypeInv == TypeInv /\ [Next]_vars => TypeInv'
<1> SUFFICES ASSUME TypeInv, [Next]_vars PROVE TypeInv'
  OBVIOUS
<1>1. DiscOK
  BY TypeGivesDisc
<1> USE DEF TypeInv, TypeOK, LoopsOK
<1>2. CASE UNCHANGED vars
  BY <1>2 DEF vars, TotalSectors
<1>3. CASE ExtractUnused
  BY <1>3 DEF ExtractUnused, disc, spacing, TotalSectors
<1>4. CASE MapFile
  <2>1. frag' \in 1..Len(fragments) + 1 /\ pos' \in Nat \ {0}
    BY <1>1, <1>4, PassedNext DEF MapFile
  <2> QED
    BY <1>4, <2>1 DEF MapFile, disc, spacing, TotalSectors
<1>5. CASE MapNextFragment
  <2>1. frag' \in 1..Len(fragments) + 1 /\ pos' \in Nat \ {0}
    BY <1>1, <1>5, PassedNextFragment DEF MapNextFragment
  <2> QED
    BY <1>5, <2>1 DEF MapNextFragment, disc, mapping, spacing, TotalSectors
<1>6. CASE MapDone
  BY <1>6 DEF MapDone, disc, spacing, TotalSectors
<1>7. CASE ScanSector
  <2>1. TotalSectors \in Nat /\ TotalSectors' = TotalSectors
    BY <1>1, <1>7, PlaceFacts DEF ScanSector, disc, TotalSectors
  <2>2. sec \in Nat /\ sec' = sec + 1 /\ sec' \in 0..TotalSectors + 1
    BY <2>1, <1>7 DEF ScanSector
  <2>3. begin' \in {NoSpan} \cup 0..sec' - 1
    BY <2>2, <1>7 DEF ScanSector, AfterSpan
  <2>4. /\ spans' \in Seq(SpanType)
        /\ \A i \in DOMAIN spans' : /\ spans'[i].first <= spans'[i].written
                                    /\ spans'[i].first < spans'[i].end
    <3>1. CASE spans' = spans
      BY <3>1
    <3>2. CASE spans' = WriteSpan /\ begin # NoSpan
      <4> DEFINE s == [first |-> begin, end |-> sec,
                       written |-> Max({begin, Min({sec, device})})]
      <4>1. begin \in 0..sec - 1
        BY <3>2
      <4>2. s \in SpanType /\ s.first <= s.written /\ s.first < s.end
        BY <4>1, <2>2, SpanWritten DEF SpanType
      <4>3. spans' = Append(spans, s)
        BY <3>2 DEF WriteSpan
      <4> HIDE DEF s
      <4>4. /\ Len(spans) \in Nat /\ DOMAIN spans = 1..Len(spans)
            /\ DOMAIN spans' = 1..Len(spans) + 1 /\ spans' \in Seq(SpanType)
            /\ \A i \in 1..Len(spans) : spans'[i] = spans[i]
            /\ spans'[Len(spans) + 1] = s
        BY <4>2, <4>3
      <4>5. \A i \in 1..Len(spans) + 1 : i \in 1..Len(spans) \/ i = Len(spans) + 1
        BY <4>4
      <4> QED
        BY <4>2, <4>4, <4>5
    <3> QED
      BY <3>1, <3>2, <1>7 DEF ScanSector
  <2> QED
    BY <1>7, <2>1, <2>2, <2>3, <2>4 DEF ScanSector, disc, spacing
<1>8. CASE ScanDone
  BY <1>8 DEF ScanDone, disc, mapping, spacing, TotalSectors
<1>9. CASE Space
  <2>1. Len(fragments) \in {1, 2} /\ Len(fragments) \in DOMAIN fragments
    BY <1>1, PlaceFacts
  <2>2. Len(fragments[Len(fragments)].entries) \in Nat
    BY <1>1, <2>1, PlaceFacts
  <2> QED
    BY <1>9, <2>1, <2>2 DEF Space, disc, mapping, spacing, TotalSectors
<1>10. CASE SpaceEntry
  <2>1. /\ frag \in 1..Len(fragments) /\ pos \in 1..Len(fragments[frag].entries)
        /\ Len(fragments) \in {1, 2} /\ Len(fragments[frag].entries) \in Nat
        /\ <<frag, pos>> \in Places /\ At(<<frag, pos>>) \in Entry /\ Reserved \in Nat
    <3>1. <<frag, pos>> \in Places
      BY <1>1, <1>10, PassedBackwards DEF SpaceEntry
    <3> QED
      BY <1>1, <1>10, <3>1, PlaceFacts DEF SpaceEntry, EntryHere
  <2>2. At(<<frag, pos>>).start \in Nat /\ LastSector(At(<<frag, pos>>)) + 1 \in Nat
    BY <2>1, FileFacts
  <2>3. ~NextIsNowhere => StartSecOfNext \in Nat
    BY <1>1, <1>10, NextStartIsNumber DEF SpaceEntry
  <2>4. gaps' \in Seq(Nat \ {0})
    <3> DEFINE e == At(<<frag, pos>>)
               begun == IF InitialGapHere THEN MaybeGap(gaps, Reserved, e.start) ELSE gaps
    <3>1. gaps \in Seq(Nat \ {0})
      OBVIOUS
    <3>2. begun \in Seq(Nat \ {0})
      BY <3>1, <2>1, <2>2, GapType
    <3>3. CASE UNCHANGED gaps
      BY <3>1, <3>3
    <3>4. CASE ~NextIsNowhere /\ gaps' = MaybeGap(begun, LastSector(e) + 1, StartSecOfNext)
      BY <3>2, <3>4, <2>2, <2>3, GapType
    <3> QED
      BY <1>10, <3>3, <3>4 DEF SpaceEntry, spacing
  <2> QED
    BY <1>10, <2>1, <2>4 DEF SpaceEntry, disc, mapping, TotalSectors
<1>11. CASE SpaceNextCatalog
  <2>1. frag - 1 \in DOMAIN fragments /\ Len(fragments[frag - 1].entries) \in Nat
    BY <1>1, <1>11, PlaceFacts DEF SpaceNextCatalog
  <2> QED
    BY <1>1, <1>11, <2>1, PlaceFacts
    DEF SpaceNextCatalog, disc, mapping, spacing, TotalSectors
<1>12. CASE SpaceDone
  <2>1. Reserved \in Nat /\ Following \in Nat
    BY <1>1, PlaceFacts, FollowingIsNumber
  <2>2. gaps' \in Seq(Nat \ {0})
    BY <1>12, <2>1, GapType DEF SpaceDone, spacing
  <2> QED
    BY <1>12, <2>2 DEF SpaceDone, disc, mapping, TotalSectors
<1>13. CASE Free
  BY <1>13 DEF Free, disc, mapping, spacing, TotalSectors
<1>14. CASE FreeEntry
  <2>1. /\ frag' \in 1..Len(fragments) + 1 /\ pos' \in Nat \ {0}
        /\ <<frag, pos>> \in Places
    BY <1>1, <1>14, PassedNext DEF FreeEntry
  <2>2. At(<<frag, pos>>) \in Entry
    BY <1>1, <2>1, PlaceFacts
  <2>3. At(<<frag, pos>>).start + SectorsForThisFile(At(<<frag, pos>>)) \in Nat
    <3>1. At(<<frag, pos>>).start \in Nat /\ At(<<frag, pos>>).length \in Nat
      BY <2>2, FileFacts
    <3>2. SectorsForThisFile(At(<<frag, pos>>)) \in Nat
      BY <3>1, SectorsOfFile DEF SectorsForThisFile
    <3> HIDE DEF TypeInv, TypeOK, LoopsOK
    <3> QED
      BY <3>1, <3>2
  <2> QED
    BY <1>14, <2>1, <2>3 DEF FreeEntry, disc, mapping, spacing, TotalSectors
<1>15. CASE FreeNextFragment
  <2>1. frag' \in 1..Len(fragments) + 1 /\ pos' \in Nat \ {0}
    BY <1>1, <1>15, PassedNextFragment DEF FreeNextFragment
  <2> QED
    BY <1>15, <2>1 DEF FreeNextFragment, disc, mapping, spacing, TotalSectors
<1>16. CASE FreeDone
  BY <1>16 DEF FreeDone, disc, mapping, spacing, TotalSectors
<1> QED
  BY <1>2, <1>3, <1>4, <1>5, <1>6, <1>7, <1>8, <1>9, <1>10, <1>11, <1>12, <1>13,
     <1>14, <1>15, <1>16 DEF Next, Loops

----------------------------------------------------------------------------
(* The sector map of extract-unused *)

Passed == IF pc \in {"map", "free"} THEN {p \in Places : Before(p, <<frag, pos>>)} ELSE Places
End == IF pc = "map" THEN {} ELSE {TotalSectors}
Sectors(P) == UNION {FileSectors(At(p)) : p \in P}

OwnedByFirst(s, p) ==
  /\ p \in Passed /\ s \in FileSectors(At(p))
  /\ \A q \in Places : Before(q, p) => s \notin FileSectors(At(q))

\* The map of the catalogue and the files passed; of two files the first stays.
MapOK ==
  pc \in {"map", "scan", "extracted"} =>
    /\ format # "OpusDDOS"
    /\ DOMAIN used_by = CatalogInUse \cup Sectors(Passed) \cup End
    /\ \A s \in CatalogInUse \ End : used_by[s] = "catalog"
    /\ \A s \in Sectors(Passed) \ (CatalogInUse \cup End) : OwnedByFirst(s, used_by[s])

Mapping == TypeInv /\ MapOK

\* What a place is does not change while the disc does not.
LEMMA SameDisc ==
  ASSUME UNCHANGED disc
  PROVE  /\ Places' = Places /\ CatalogInUse' = CatalogInUse /\ TotalSectors' = TotalSectors
         /\ \A p : At(p)' = At(p) /\ \A q : Before(q, p)' = Before(q, p)
         /\ DiscOK' = DiscOK /\ Reserved' = Reserved
BY DEF disc, Places, CatalogInUse, Reserved, TotalSectors, At, Before, DiscOK

LEMMA BeforeOrder ==
  ASSUME DiscOK
  PROVE  /\ \A p, q \in Places : p = q \/ Before(p, q) \/ Before(q, p)
         /\ \A p \in Places : ~Before(p, p)
<1>1. \A p \in Places : p = <<p[1], p[2]>> /\ p[1] \in Nat /\ p[2] \in Nat
  BY PlaceFacts
<1> QED
  BY <1>1 DEF Before

\* One more file in the map.
LEMMA InsertFile ==
  ASSUME Mapping, MapFile
  PROVE  MapOK'
<1> DEFINE here == <<frag, pos>>
           new == FileSectors(At(here))
<1>1. DiscOK /\ pc = "map" /\ pc' = "map" /\ UNCHANGED disc
  BY TypeGivesDisc DEF Mapping, MapFile
<1>2. /\ \A p \in Places : Before(p, <<frag', pos'>>) <=> Before(p, here) \/ p = here
      /\ here \in Places /\ ~Before(here, here)
  BY <1>1, PassedNext DEF MapFile
<1>3. Passed' = Passed \cup {here} /\ here \notin Passed
  BY <1>1, <1>2, SameDisc DEF Passed
<1>4. Sectors(Passed)' = Sectors(Passed) \cup new /\ End = {} /\ End' = {}
  BY <1>1, <1>3, SameDisc DEF Sectors, FileSectors, LastSector, Empty, SectorsFor, End
<1>5. /\ format' # "OpusDDOS" /\ CatalogInUse' = CatalogInUse
      /\ DOMAIN used_by = CatalogInUse \cup Sectors(Passed)
  BY <1>1, <1>4, SameDisc DEF Mapping, MapOK, disc
<1>6. used_by' = [s \in DOMAIN used_by \cup new |-> IF s \in DOMAIN used_by THEN used_by[s] ELSE here]
  BY DEF MapFile, Insert
<1> HIDE DEF new, here
<1>7. DOMAIN used_by' = CatalogInUse' \cup Sectors(Passed)' \cup End'
  BY <1>4, <1>5, <1>6
<1>8. \A s \in CatalogInUse' : used_by'[s] = "catalog"
  BY <1>1, <1>4, <1>5, <1>6 DEF Mapping, MapOK
<1>9. ASSUME NEW s \in Sectors(Passed)', s \notin CatalogInUse' PROVE OwnedByFirst(s, used_by[s])'
  <2>1. \A p : FileSectors(At(p))' = FileSectors(At(p))
    BY <1>1, SameDisc DEF FileSectors, LastSector, Empty, SectorsFor
  <2>2. CASE s \in Sectors(Passed)
    <3>1. OwnedByFirst(s, used_by[s]) /\ used_by'[s] = used_by[s]
      BY <2>2, <1>1, <1>4, <1>5, <1>6, <1>9 DEF Mapping, MapOK
    <3> QED
      BY <3>1, <1>3, <1>1, <2>1, SameDisc DEF OwnedByFirst
  <2>3. CASE s \notin Sectors(Passed)
    <3>1. s \in new /\ used_by'[s] = here
      BY <2>3, <1>4, <1>5, <1>6, <1>9
    <3>2. ASSUME NEW q \in Places, Before(q, here) PROVE s \notin FileSectors(At(q))
      <4>1. q \in Passed
        BY <3>2, <1>1 DEF Passed, here
      <4> QED
        BY <4>1, <2>3 DEF Sectors
    <3> QED
      BY <3>1, <3>2, <1>1, <1>3, <2>1, SameDisc DEF OwnedByFirst, new
  <2> QED
    BY <2>2, <2>3
<1> QED
  BY <1>1, <1>4, <1>5, <1>7, <1>8, <1>9 DEF MapOK

\* Everything in the map carries over while the entries passed are the same.
LEMMA MapSame ==
  ASSUME MapOK, UNCHANGED <<disc, used_by>>, Passed' = Passed, End' = End,
         pc \in {"map", "scan", "extracted"} \/ pc' \notin {"map", "scan", "extracted"}
  PROVE  MapOK'
<1>1. \A p : FileSectors(At(p))' = FileSectors(At(p))
  BY SameDisc DEF FileSectors, LastSector, Empty, SectorsFor
<1>2. Sectors(Passed)' = Sectors(Passed)
  BY <1>1 DEF Sectors
<1>3. \A s, p : OwnedByFirst(s, p) => OwnedByFirst(s, p)'
  BY <1>1, SameDisc DEF OwnedByFirst
<1>4. format' = format
  BY DEF disc
<1> QED
  BY <1>2, <1>3, <1>4, SameDisc DEF MapOK

LEMMA NextMapOK == Mapping /\ [Next]_vars => MapOK'
<1> SUFFICES ASSUME Mapping, [Next]_vars PROVE MapOK'
  OBVIOUS
<1>1. TypeInv /\ MapOK /\ DiscOK
  BY TypeGivesDisc DEF Mapping
<1>2. CASE UNCHANGED vars
  <2>1. UNCHANGED <<disc, used_by>> /\ pc' = pc /\ frag' = frag /\ pos' = pos
    BY <1>2 DEF vars, disc
  <2> QED
    BY <2>1, <1>1, MapSame, SameDisc DEF Passed, End, MapOK
<1>3. CASE ExtractUnused
  <2>1. /\ pc' = "map" /\ frag' = 1 /\ pos' = 1 /\ UNCHANGED disc /\ format # "OpusDDOS"
        /\ used_by' = [s \in 0..CatalogSectorsForFormat(format) - 1 |-> "catalog"]
    BY <1>3, <1>1 DEF ExtractUnused, TypeInv, LoopsOK
  <2>2. ASSUME NEW p \in Places PROVE ~Before(p, <<1, 1>>)
    BY <1>1, PlaceFacts DEF Before
  <2>3. Passed' = {} /\ End' = {}
    BY <2>1, <2>2, SameDisc DEF Passed, End
  <2>4. Sectors(Passed)' = {}
    BY <2>3 DEF Sectors
  <2>5. CatalogInUse' = 0..CatalogSectorsForFormat(format) - 1 /\ format' = format
    BY <2>1, SameDisc DEF CatalogInUse, Reserved, DataSectorsReservedForCatalog, disc
  <2> QED
    BY <2>1, <2>3, <2>4, <2>5 DEF MapOK
<1>4. CASE MapFile
  BY <1>4, InsertFile
<1>5. CASE MapNextFragment
  <2>1. /\ pc = "map" /\ pc' = "map" /\ UNCHANGED <<disc, used_by>>
        /\ pos \in Nat \ {0} /\ frag \in 1..Len(fragments) + 1
    BY <1>5, <1>1 DEF MapNextFragment, mapping, TypeInv, TypeOK, LoopsOK
  <2>2. \A p \in Places : Before(p, <<frag', pos'>>) <=> Before(p, <<frag, pos>>)
    BY <1>1, <1>5, <2>1, PassedNextFragment DEF MapNextFragment
  <2>3. Passed' = Passed /\ End' = End
    BY <2>1, <2>2, SameDisc DEF Passed, End
  <2> QED
    BY <2>1, <2>3, <1>1, MapSame
<1>6. CASE MapDone
  <2>1. /\ pc = "map" /\ pc' = "scan" /\ UNCHANGED disc
        /\ used_by' = [s \in DOMAIN used_by \cup {TotalSectors} |->
                         IF s = TotalSectors THEN ":::end" ELSE used_by[s]]
    BY <1>6 DEF MapDone
  <2>2. \A p \in Places : Before(p, <<frag, pos>>)
    BY <1>1, <1>6, AllPassed DEF MapDone, TypeInv, TypeOK
  <2>3. Passed' = Passed /\ End = {} /\ End' = {TotalSectors}
    BY <2>1, <2>2, SameDisc DEF Passed, End
  <2>4. \A p : FileSectors(At(p))' = FileSectors(At(p))
    BY <2>1, SameDisc DEF FileSectors, LastSector, Empty, SectorsFor
  <2>5. Sectors(Passed)' = Sectors(Passed) /\ CatalogInUse' = CatalogInUse
    BY <2>1, <2>3, <2>4, SameDisc DEF Sectors
  <2>6. /\ format # "OpusDDOS" /\ format' = format
        /\ DOMAIN used_by = CatalogInUse \cup Sectors(Passed)
        /\ \A s \in CatalogInUse : used_by[s] = "catalog"
        /\ \A s \in Sectors(Passed) \ CatalogInUse : OwnedByFirst(s, used_by[s])
    BY <1>1, <2>1, <2>3 DEF MapOK, disc
  <2>7. \A s, p : OwnedByFirst(s, p) => OwnedByFirst(s, p)'
    BY <2>1, <2>3, <2>4, SameDisc DEF OwnedByFirst
  <2>8. DOMAIN used_by' = CatalogInUse \cup Sectors(Passed) \cup {TotalSectors}
    BY <2>1, <2>6
  <2>9. \A s \in DOMAIN used_by \ {TotalSectors} : used_by'[s] = used_by[s]
    BY <2>1
  <2>10. \A s \in Sectors(Passed) \ (CatalogInUse \cup {TotalSectors}) :
           OwnedByFirst(s, used_by[s])'
    BY <2>6, <2>7, <2>9
  <2> QED
    BY <2>1, <2>3, <2>5, <2>6, <2>8, <2>9, <2>10 DEF MapOK
<1>7. CASE ScanSector \/ ScanDone
  <2>1. UNCHANGED <<disc, used_by>> /\ pc = "scan" /\ pc' \in {"scan", "extracted"}
    BY <1>7 DEF ScanSector, ScanDone, mapping
  <2> QED
    BY <2>1, <1>1, MapSame, SameDisc DEF Passed, End
<1>8. CASE \/ Space \/ SpaceEntry \/ SpaceNextCatalog \/ SpaceDone
           \/ Free \/ FreeEntry \/ FreeNextFragment \/ FreeDone
  <2>1. pc' \notin {"map", "scan", "extracted"}
    BY <1>8 DEF Space, SpaceEntry, SpaceNextCatalog, SpaceDone, Free, FreeEntry,
       FreeNextFragment, FreeDone
  <2> QED
    BY <2>1 DEF MapOK
<1> QED
  BY <1>2, <1>3, <1>4, <1>5, <1>6, <1>7, <1>8 DEF Next, Loops

----------------------------------------------------------------------------
(* The files that extract-unused writes *)

InSpans(s) == \E i \in DOMAIN spans : spans[i].first <= s /\ s < spans[i].end

\* Of the sectors scanned so far those in spans, or in the one under way, are
\* the ones the map does not have.
ScanOK ==
  /\ pc \in {"command", "map"} => sec = 0 /\ begin = NoSpan /\ spans = <<>>
  /\ pc \in {"scan", "extracted"} =>
       /\ \A s \in 0..sec - 1 :
            s \in DOMAIN used_by <=> ~InSpans(s) /\ (begin = NoSpan \/ s < begin)
       /\ \A i \in DOMAIN spans : /\ spans[i].end < sec
                                  /\ begin # NoSpan => spans[i].end < begin
       /\ \A i \in 1..Len(spans) - 1 : spans[i].end < spans[i + 1].first
       /\ \A i \in DOMAIN spans : \A s \in Span(spans[i]) : s < device => s < spans[i].written
  /\ pc = "extracted" => sec > TotalSectors

LEMMA SpanNumbers ==
  ASSUME NEW list \in Seq(SpanType)
  PROVE  \A i \in DOMAIN list : list[i].first \in Nat /\ list[i].end \in Nat
<1> SUFFICES ASSUME NEW i \in DOMAIN list PROVE list[i].first \in Nat /\ list[i].end \in Nat
  OBVIOUS
<1>1. list[i] \in SpanType
  OBVIOUS
<1> QED
  BY <1>1 DEF SpanType

\* A used sector ends the span under way.
LEMMA SpanEnds ==
  ASSUME TypeInv, ScanOK, pc = "scan", begin # NoSpan, sec \in DOMAIN used_by,
         spans' = WriteSpan, begin' = NoSpan, sec' = sec + 1, pc' = pc,
         UNCHANGED <<disc, used_by>>
  PROVE  ScanOK'
<1> DEFINE w == Max({begin, Min({sec, device})})
           new == [first |-> begin, end |-> sec, written |-> w]
           n == Len(spans)
<1>1. /\ sec \in Nat /\ begin \in Nat /\ begin < sec /\ device \in Nat
      /\ spans \in Seq(SpanType) /\ n \in Nat
  BY PlaceFacts, TypeGivesDisc DEF TypeInv, TypeOK, LoopsOK
<1>2. w \in Nat /\ begin <= w /\ \A s \in Nat : s < sec /\ s < device => s < w
  BY <1>1, SpanWritten
<1> HIDE DEF w
<1>3. new \in SpanType /\ spans' = Append(spans, new)
  BY <1>1, <1>2 DEF SpanType, WriteSpan, w
<1>4. /\ new.first = begin /\ new.end = sec /\ new.written = w
      /\ \A i \in 1..n : spans[i].end \in Nat /\ spans[i].first \in Nat
  BY <1>1, SpanNumbers
<1> HIDE DEF new
<1>5. /\ DOMAIN spans = 1..n /\ DOMAIN spans' = 1..n + 1 /\ Len(spans') = n + 1
      /\ \A i \in 1..n : spans'[i] = spans[i]
      /\ spans'[n + 1] = new
      /\ \A i \in 1..n + 1 : i \in 1..n \/ i = n + 1
  BY <1>1, <1>3
<1> HIDE DEF n
<1>6. \A i \in 1..n : spans[i].end < sec /\ spans[i].end < begin
  BY <1>5 DEF ScanOK
<1>7. \A s \in Nat : InSpans(s)' <=> InSpans(s) \/ (begin <= s /\ s < sec)
  BY <1>1, <1>4, <1>5 DEF InSpans
<1>8. ASSUME NEW s \in 0..sec' - 1
      PROVE  s \in DOMAIN used_by <=> ~InSpans(s)'
  <2>1. CASE s = sec
    <3>1. ~InSpans(s)
      BY <1>1, <1>4, <1>5, <1>6, <2>1 DEF InSpans
    <3> QED
      BY <3>1, <2>1, <1>1, <1>7
  <2>2. CASE s # sec
    <3>1. s \in 0..sec - 1 /\ s < sec
      BY <2>2, <1>1, <1>8
    <3>2. s \in DOMAIN used_by <=> ~InSpans(s) /\ s < begin
      BY <3>1, <1>1 DEF ScanOK, NoSpan
    <3> QED
      BY <3>1, <3>2, <1>1, <1>7
  <2> QED
    BY <2>1, <2>2
<1>9. \A i \in 1..n + 1 : spans'[i].end < sec'
  BY <1>1, <1>4, <1>5, <1>6
<1>10. \A i \in 1..n : spans'[i].end < spans'[i + 1].first
  <2> SUFFICES ASSUME NEW i \in 1..n PROVE spans'[i].end < spans'[i + 1].first
    OBVIOUS
  <2>1. CASE i = n
    BY <2>1, <1>4, <1>5, <1>6
  <2>2. CASE i # n
    <3>1. i \in 1..n - 1 /\ i + 1 \in 1..n
      BY <2>2, <1>1 DEF n
    <3> QED
      BY <3>1, <1>5 DEF ScanOK, n
  <2> QED
    BY <2>1, <2>2
<1>11. \A i \in 1..n + 1 : \A s \in Span(spans'[i]) : s < device => s < spans'[i].written
  <2> SUFFICES ASSUME NEW i \in 1..n + 1, NEW s \in Span(spans'[i]), s < device
               PROVE  s < spans'[i].written
    OBVIOUS
  <2>1. CASE i \in 1..n
    BY <2>1, <1>5 DEF ScanOK
  <2>2. CASE i = n + 1
    BY <2>2, <1>1, <1>2, <1>4, <1>5 DEF Span
  <2> QED
    BY <2>1, <2>2, <1>5
<1>12. device' = device /\ used_by' = used_by /\ pc' = "scan" /\ begin' = NoSpan
      /\ \A x : Span(x)' = Span(x)
  BY DEF disc, Span
<1>13. \A s \in 0..sec' - 1 :
         s \in DOMAIN used_by' <=> ~InSpans(s)' /\ (begin' = NoSpan \/ s < begin')
  BY <1>8, <1>12
<1>14. \A i \in DOMAIN spans' : spans'[i].end < sec' /\ (begin' # NoSpan => spans'[i].end < begin')
  BY <1>5, <1>9, <1>12
<1>15. \A i \in 1..Len(spans') - 1 : spans'[i].end < spans'[i + 1].first
  <2>1. n \in Nat
    BY <1>1 DEF n
  <2>2. Len(spans') - 1 = n
    BY <1>5, <2>1
  <2> QED
    BY <1>10, <2>2
<1>16. (\A i \in DOMAIN spans : \A s \in Span(spans[i]) : s < device => s < spans[i].written)'
  <2>1. \A i \in DOMAIN spans' : \A s \in Span(spans'[i]) : s < device => s < spans'[i].written
    BY <1>5, <1>11
  <2> QED
    BY <1>12, <2>1
<1>17. pc' \notin {"command", "map", "extracted"}
  BY <1>12
<1> QED
  BY <1>13, <1>14, <1>15, <1>16, <1>17 DEF ScanOK

\* Otherwise the spans stay, and a free sector starts one or goes on with it.
LEMMA SpansStay ==
  ASSUME TypeInv, ScanOK, pc = "scan", UNCHANGED <<disc, used_by, spans, pc>>, sec' = sec + 1,
         \/ sec \in DOMAIN used_by /\ begin = NoSpan /\ begin' = NoSpan
         \/ /\ sec \notin DOMAIN used_by
            /\ begin' = IF begin = NoSpan THEN sec ELSE begin
  PROVE  ScanOK'
<1>1. /\ sec \in Nat /\ begin \in {NoSpan} \cup 0..sec - 1 /\ spans \in Seq(SpanType)
      /\ \A i \in DOMAIN spans : spans[i].end \in Nat /\ spans[i].first \in Nat
  <2>1. spans \in Seq(SpanType) /\ sec \in Nat
    BY PlaceFacts, TypeGivesDisc DEF TypeInv, TypeOK, LoopsOK
  <2>2. \A i \in DOMAIN spans : spans[i].end \in Nat /\ spans[i].first \in Nat
    BY <2>1, SpanNumbers
  <2> QED
    BY <2>1, <2>2 DEF TypeInv, TypeOK
<1>2. \A i \in DOMAIN spans : /\ spans[i].end < sec
                              /\ begin # NoSpan => spans[i].end < begin
  BY DEF ScanOK
<1>3. \A s : InSpans(s)' <=> InSpans(s)
  BY DEF InSpans
<1>4. ASSUME NEW s \in 0..sec' - 1
      PROVE  s \in DOMAIN used_by <=> ~InSpans(s) /\ (begin' = NoSpan \/ s < begin')
  <2>1. CASE s = sec
    <3>1. ~InSpans(s)
      BY <2>1, <1>1, <1>2 DEF InSpans
    <3> QED
      BY <3>1, <2>1, <1>1 DEF NoSpan
  <2>2. CASE s # sec
    <3>1. s \in 0..sec - 1 /\ s < sec
      BY <2>2, <1>1, <1>4
    <3>2. s \in DOMAIN used_by <=> ~InSpans(s) /\ (begin = NoSpan \/ s < begin)
      BY <3>1 DEF ScanOK
    <3> QED
      BY <3>1, <3>2, <1>1 DEF NoSpan
  <2> QED
    BY <2>1, <2>2
<1>5. \A i \in DOMAIN spans : /\ spans[i].end < sec'
                              /\ begin' # NoSpan => spans[i].end < begin'
  BY <1>1, <1>2
<1>6. device' = device /\ \A x : Span(x)' = Span(x)
  BY DEF disc, Span
<1> QED
  BY <1>1, <1>3, <1>4, <1>5, <1>6 DEF ScanOK

LEMMA NextScanOK == TypeInv /\ ScanOK /\ [Next]_vars => ScanOK'
<1> SUFFICES ASSUME TypeInv, ScanOK, [Next]_vars PROVE ScanOK'
  OBVIOUS
<1>1. CASE ScanSector
  <2>1. /\ pc = "scan" /\ pc' = "scan" /\ sec' = sec + 1 /\ UNCHANGED <<disc, used_by>>
    BY <1>1 DEF ScanSector
  <2>2. CASE sec \in DOMAIN used_by /\ begin # NoSpan
    BY <1>1, <2>1, <2>2, SpanEnds DEF ScanSector, AfterSpan
  <2>3. CASE sec \in DOMAIN used_by /\ begin = NoSpan
    BY <1>1, <2>1, <2>3, SpansStay DEF ScanSector, AfterSpan
  <2>4. CASE sec \notin DOMAIN used_by
    BY <1>1, <2>1, <2>4, SpansStay DEF ScanSector
  <2> QED
    BY <2>2, <2>3, <2>4
<1>2. CASE ScanDone
  <2>1. /\ UNCHANGED <<disc, used_by, sec, begin, spans>>
        /\ pc = "scan" /\ pc' = "extracted" /\ sec > TotalSectors
    BY <1>2 DEF ScanDone, mapping
  <2>2. /\ \A s : InSpans(s)' <=> InSpans(s)
        /\ \A x : Span(x)' = Span(x)
        /\ device' = device /\ TotalSectors' = TotalSectors
    BY <2>1, SameDisc DEF InSpans, Span, disc
  <2> QED
    BY <2>1, <2>2 DEF ScanOK
<1>3. CASE MapDone
  <2>1. pc = "map" /\ pc' = "scan" /\ sec' = 0 /\ begin' = NoSpan /\ spans' = <<>>
    BY <1>3 DEF MapDone, ScanOK
  <2>2. (0..sec' - 1) = {} /\ DOMAIN spans' = {} /\ (1..Len(spans') - 1) = {}
    BY <2>1
  <2> QED
    BY <2>1, <2>2 DEF ScanOK
<1>4. CASE ExtractUnused \/ MapFile \/ MapNextFragment
  <2>1. /\ pc \in {"command", "map"} /\ pc' = "map"
        /\ UNCHANGED <<sec, begin, spans>>
    BY <1>4 DEF ExtractUnused, MapFile, MapNextFragment, mapping
  <2> QED
    BY <2>1 DEF ScanOK
<1>5. CASE \/ Space \/ SpaceEntry \/ SpaceNextCatalog \/ SpaceDone
           \/ Free \/ FreeEntry \/ FreeNextFragment \/ FreeDone
  <2>1. pc' \notin {"command", "map", "scan", "extracted"}
    BY <1>5 DEF Space, SpaceEntry, SpaceNextCatalog, SpaceDone, Free, FreeEntry,
       FreeNextFragment, FreeDone
  <2> QED
    BY <2>1 DEF ScanOK
<1>6. CASE UNCHANGED vars
  <2>1. UNCHANGED <<disc, used_by, sec, begin, spans, pc>>
    BY <1>6 DEF vars, disc
  <2>2. /\ \A s : InSpans(s)' <=> InSpans(s)
        /\ \A x : Span(x)' = Span(x)
        /\ device' = device /\ TotalSectors' = TotalSectors
    BY <2>1, SameDisc DEF InSpans, Span, disc
  <2> QED
    BY <2>1, <2>2 DEF ScanOK
<1> QED
  BY <1>1, <1>2, <1>3, <1>4, <1>5, <1>6 DEF Next, Loops


\* The sectors of the map are those in use and the starts of empty files.
LEMMA MappedSectors ==
  ASSUME DiscOK, pc \in {"scan", "extracted"}
  PROVE  CatalogInUse \cup Sectors(Passed) = InUse \cup EmptyAt
<1>1. Passed = Places
  BY DEF Passed
<1>2. \A p \in Places :
        /\ Empty(At(p)) => FileSectors(At(p)) = {At(p).start} /\ Body(At(p)) = {}
        /\ ~Empty(At(p)) => FileSectors(At(p)) = Body(At(p))
  BY PlaceFacts, FileFacts
<1> QED
  BY <1>1, <1>2 DEF Sectors, InUse, EmptyAt

LEMMA WhatIsWritten ==
  ASSUME TypeInv, MapOK, ScanOK
  PROVE  SpansAreTheFreeStretches
<1> SUFFICES ASSUME pc = "extracted"
             PROVE  /\ UNION {Span(spans[i]) : i \in DOMAIN spans} = Disc \ (InUse \cup EmptyAt)
                    /\ \A i \in 1..Len(spans) - 1 : spans[i].end < spans[i + 1].first
                    /\ \A i \in DOMAIN spans :
                         \A s \in Span(spans[i]) : s < device => s < spans[i].written
  BY DEF SpansAreTheFreeStretches
<1>1. /\ DiscOK /\ TotalSectors \in Nat /\ sec \in 0..TotalSectors + 1 /\ sec > TotalSectors
      /\ begin \in {NoSpan} \cup 0..sec - 1
  BY TypeGivesDisc, PlaceFacts DEF TypeInv, TypeOK, ScanOK
<1>2. sec = TotalSectors + 1
  BY <1>1
<1>3. /\ DOMAIN used_by = InUse \cup EmptyAt \cup {TotalSectors}
  BY <1>1, MappedSectors DEF MapOK, End
<1>4. begin = NoSpan
  <2>1. TotalSectors \in 0..sec - 1 /\ TotalSectors \in DOMAIN used_by
    BY <1>1, <1>2, <1>3
  <2>2. begin = NoSpan \/ TotalSectors < begin
    BY <2>1 DEF ScanOK
  <2> QED
    BY <2>2, <1>1, <1>2
<1>5. \A s \in 0..TotalSectors : s \in DOMAIN used_by <=> ~InSpans(s)
  BY <1>1, <1>2, <1>4 DEF ScanOK
<1>6. \A i \in DOMAIN spans : /\ spans[i].first \in Nat /\ spans[i].end \in Nat
                              /\ spans[i].end <= TotalSectors
  <2>1. \A i \in DOMAIN spans : spans[i].first \in Nat /\ spans[i].end \in Nat
    BY SpanNumbers DEF TypeInv, LoopsOK
  <2>2. \A i \in DOMAIN spans : spans[i].end < sec
    BY DEF ScanOK
  <2> QED
    BY <2>1, <2>2, <1>1, <1>2
<1>7. \A s : s \in UNION {Span(spans[i]) : i \in DOMAIN spans} <=> s \in Disc /\ InSpans(s)
  <2>1. \A i \in DOMAIN spans : \A s : s \in Span(spans[i])
          <=> s \in Disc /\ spans[i].first <= s /\ s < spans[i].end
    BY <1>1, <1>6 DEF Span, Disc
  <2> QED
    BY <2>1 DEF InSpans
<1>8. \A s \in Disc : InSpans(s) <=> s \notin InUse \cup EmptyAt
  BY <1>1, <1>3, <1>5 DEF Disc
<1>9. UNION {Span(spans[i]) : i \in DOMAIN spans} = Disc \ (InUse \cup EmptyAt)
  BY <1>7, <1>8
<1> QED
  BY <1>9 DEF ScanOK

LEMMA WhoOwnsASector ==
  ASSUME TypeInv, MapOK
  PROVE  FirstListedOwnsSector
<1> SUFFICES ASSUME pc \in {"scan", "extracted"}, NEW s \in Disc \cap InUse
             PROVE  IF s \in CatalogInUse THEN used_by[s] = "catalog"
                    ELSE /\ used_by[s] \in Places /\ s \in FileSectors(At(used_by[s]))
                         /\ \A p \in Places : Before(p, used_by[s]) => s \notin Body(At(p))
  BY DEF FirstListedOwnsSector
<1>1. DiscOK /\ TotalSectors \in Nat /\ Passed = Places /\ End = {TotalSectors}
  BY TypeGivesDisc, PlaceFacts DEF Passed, End
<1>2. s \notin End
  BY <1>1 DEF Disc
<1>3. CASE s \in CatalogInUse
  BY <1>2, <1>3 DEF MapOK
<1>4. CASE s \notin CatalogInUse
  <2>1. \A p \in Places : Body(At(p)) \subseteq FileSectors(At(p))
    BY <1>1, PlaceFacts, FileFacts
  <2>2. s \in Sectors(Passed)
    BY <1>1, <1>4, <2>1 DEF Sectors, InUse
  <2>3. OwnedByFirst(s, used_by[s])
    BY <1>2, <1>4, <2>2 DEF MapOK
  <2> QED
    BY <1>1, <1>4, <2>1, <2>3 DEF OwnedByFirst
<1> QED
  BY <1>3, <1>4

(* What extract-unused writes is exactly what neither the catalogue nor a  *)
(* file holds, for every catalogue, in whatever order its files are; and   *)
(* of two files that claim a sector the sector map shows the one listed    *)
(* first (cmd_extract_unused.cc, SectorMap::add_file_sectors).             *)
THEOREM UnusedIsFree == Spec => []UnusedAreTheFreeStretches
<1> DEFINE Inv == TypeInv /\ MapOK /\ ScanOK
<1>1. Init => Inv
  <2>1. Init => MapOK /\ ScanOK
    BY DEF Init, Start, MapOK, ScanOK
  <2> QED
    BY <2>1, InitTypeInv
<1>2. Inv /\ [Next]_vars => Inv'
  BY NextTypeInv, NextMapOK, NextScanOK DEF Mapping
<1>3. Inv => UnusedAreTheFreeStretches
  BY WhatIsWritten, WhoOwnsASector DEF UnusedAreTheFreeStretches
<1> QED
  BY <1>1, <1>2, <1>3, PTL DEF Spec

----------------------------------------------------------------------------
(* What free calls free *)

EndsWithFile(n) == n = 2 \/ n - 1 \in UNION {Body(At(p)) : p \in Places} \/ n \in EmptyAt

FreeOK ==
  pc \in {"free", "freed"} =>
    /\ \A p \in Passed : \A s \in Body(At(p)) : s < sectors_used
    /\ EndsWithFile(sectors_used)

LEMMA SameBodies ==
  ASSUME UNCHANGED disc
  PROVE  /\ \A p : Body(At(p))' = Body(At(p))
         /\ \A n : EndsWithFile(n)' = EndsWithFile(n)
<1>1. Places' = Places /\ \A p : At(p)' = At(p)
  BY SameDisc
<1>2. \A p : Body(At(p))' = Body(At(p))
  BY <1>1 DEF Body, LastSector, SectorsFor, Empty
<1>3. EmptyAt' = EmptyAt
  BY <1>1 DEF EmptyAt, Empty
<1>4. \A n : EndsWithFile(n)' = EndsWithFile(n)
  BY <1>1, <1>2, <1>3 DEF EndsWithFile
<1> QED
  BY <1>2, <1>4

\* One more file: what is used reaches behind it, and still ends with a file.
LEMMA FreeCountsFile ==
  ASSUME TypeInv, FreeOK, FreeEntry
  PROVE  FreeOK'
<1> DEFINE here == <<frag, pos>>
           e == At(here)
           end == e.start + SectorsForThisFile(e)
<1>1. DiscOK /\ pc = "free" /\ pc' = "free" /\ UNCHANGED disc /\ sectors_used \in Nat
  BY TypeGivesDisc DEF FreeEntry, TypeInv, TypeOK
<1>2. /\ \A p \in Places : Before(p, <<frag', pos'>>) <=> Before(p, here) \/ p = here
      /\ here \in Places
  BY <1>1, PassedNext DEF FreeEntry
<1>3. Passed' = Passed \cup {here}
  BY <1>1, <1>2, SameDisc DEF Passed
<1>4. e \in Entry
  BY <1>1, <1>2, PlaceFacts
<1>5. /\ e.start \in Nat /\ LastSector(e) \in Nat
      /\ ~Empty(e) => end = LastSector(e) + 1 /\ LastSector(e) \in Body(e)
      /\ Empty(e) => end = e.start /\ Body(e) = {}
      /\ \A s \in Body(e) : s \in Nat /\ s <= LastSector(e)
  BY <1>4, FileFacts DEF SectorsForThisFile
<1>6. sectors_used' = IF end > sectors_used THEN end ELSE sectors_used
  BY DEF FreeEntry
<1>7. end \in Nat
  BY <1>5
<1> HIDE DEF end
<1>8. sectors_used' \in Nat /\ sectors_used <= sectors_used' /\ end <= sectors_used'
  BY <1>1, <1>6, <1>7
<1>9. ASSUME NEW p \in Passed \cup {here}, NEW s \in Body(At(p)) PROVE s < sectors_used'
  <2>1. CASE p = here
    BY <2>1, <1>5, <1>7, <1>8, <1>9
  <2>2. CASE p # here
    <3>1. p \in Passed /\ p \in Places
      BY <2>2, <1>1, <1>9 DEF Passed
    <3>2. s < sectors_used
      BY <3>1, <1>1, <1>9 DEF FreeOK
    <3>3. s \in Nat
      BY <3>1, <1>1, <1>9, PlaceFacts, FileFacts
    <3> QED
      BY <3>2, <3>3, <1>1, <1>8
  <2> QED
    BY <2>1, <2>2
<1>10. EndsWithFile(end)
  <2>1. CASE Empty(e)
    BY <2>1, <1>2, <1>5 DEF EndsWithFile, EmptyAt
  <2>2. CASE ~Empty(e)
    <3>1. end - 1 \in Body(At(here))
      BY <2>2, <1>5
    <3> QED
      BY <3>1, <1>2 DEF EndsWithFile
  <2> QED
    BY <2>1, <2>2
<1>11. EndsWithFile(sectors_used')
  BY <1>1, <1>6, <1>10 DEF FreeOK
<1> QED
  BY <1>1, <1>3, <1>9, <1>11, SameBodies DEF FreeOK

LEMMA FreeSame ==
  ASSUME FreeOK, UNCHANGED <<disc, sectors_used>>, Passed' = Passed, pc \in {"free", "freed"}
  PROVE  FreeOK'
BY SameBodies DEF FreeOK

LEMMA NextFreeOK == TypeInv /\ FreeOK /\ [Next]_vars => FreeOK'
<1> SUFFICES ASSUME TypeInv, FreeOK, [Next]_vars PROVE FreeOK'
  OBVIOUS
<1>1. DiscOK
  BY TypeGivesDisc
<1>2. CASE Free
  <2>1. /\ pc' = "free" /\ frag' = 1 /\ pos' = 1 /\ sectors_used' = 2 /\ UNCHANGED disc
    BY <1>2 DEF Free, TypeInv, LoopsOK
  <2>2. ASSUME NEW p \in Places PROVE ~Before(p, <<1, 1>>)
    BY <1>1, PlaceFacts DEF Before
  <2>3. Passed' = {}
    BY <2>1, <2>2, SameDisc DEF Passed
  <2> QED
    BY <2>1, <2>3 DEF FreeOK, EndsWithFile
<1>3. CASE FreeEntry
  BY <1>3, FreeCountsFile
<1>4. CASE FreeNextFragment
  <2>1. /\ pc = "free" /\ pc' = "free" /\ UNCHANGED <<disc, sectors_used>>
        /\ pos \in Nat \ {0} /\ frag \in 1..Len(fragments) + 1
    BY <1>4 DEF FreeNextFragment, TypeInv, TypeOK, LoopsOK
  <2>2. \A p \in Places : Before(p, <<frag', pos'>>) <=> Before(p, <<frag, pos>>)
    BY <1>1, <1>4, <2>1, PassedNextFragment DEF FreeNextFragment
  <2>3. Passed' = Passed
    BY <2>1, <2>2, SameDisc DEF Passed
  <2> QED
    BY <2>1, <2>3, FreeSame
<1>5. CASE FreeDone
  <2>1. pc = "free" /\ pc' = "freed" /\ UNCHANGED <<disc, sectors_used>>
    BY <1>5 DEF FreeDone
  <2>2. \A p \in Places : Before(p, <<frag, pos>>)
    BY <1>1, <1>5, AllPassed DEF FreeDone, TypeInv, TypeOK
  <2>3. Passed' = Passed
    BY <2>1, <2>2, SameDisc DEF Passed
  <2> QED
    BY <2>1, <2>3, FreeSame
<1>6. CASE UNCHANGED vars
  <2>1. UNCHANGED <<disc, sectors_used>> /\ pc' = pc /\ frag' = frag /\ pos' = pos
    BY <1>6 DEF vars, disc
  <2>2. Passed' = Passed
    BY <2>1, SameDisc DEF Passed
  <2> QED
    BY <2>1, <2>2, FreeSame DEF FreeOK
<1>7. CASE \/ ExtractUnused \/ MapFile \/ MapNextFragment \/ MapDone \/ ScanSector \/ ScanDone
           \/ Space \/ SpaceEntry \/ SpaceNextCatalog \/ SpaceDone
  <2>1. pc' \notin {"free", "freed"}
    BY <1>7 DEF ExtractUnused, MapFile, MapNextFragment, MapDone, ScanSector, ScanDone,
       Space, SpaceEntry, SpaceNextCatalog, SpaceDone
  <2> QED
    BY <2>1 DEF FreeOK
<1> QED
  BY <1>2, <1>3, <1>4, <1>5, <1>6, <1>7 DEF Next, Loops

LEMMA FreedIsBehindFiles == FreeOK => FreeIsBehindFiles
BY DEF FreeOK, FreeIsBehindFiles, Passed, EndsWithFile

----------------------------------------------------------------------------
(* Sums of gaps *)

\* The recursion in SumOf has a solution: a list with none for some beginning
\* of it would have a shortest such beginning.
LEMMA SumExists ==
  ASSUME NEW list \in Seq(Nat)
  PROVE  \E f : f = [n \in 0..Len(list) |-> IF n = 0 THEN 0 ELSE f[n - 1] + list[n]]
<1> DEFINE Sol(f, m) == f = [n \in 0..m |-> IF n = 0 THEN 0 ELSE f[n - 1] + list[n]]
           Bad == {m \in 0..Len(list) : ~\E f : Sol(f, m)}
<1>1. Len(list) \in Nat
  OBVIOUS
<1>2. Bad = {}
  <2> SUFFICES ASSUME Bad # {} PROVE FALSE
    OBVIOUS
  <2> HIDE DEF Sol
  <2>1. PICK m \in Bad : \A y \in Bad : m <= y
    <3>1. Bad \subseteq Nat
      OBVIOUS
    <3> HIDE DEF Bad
    <3> QED
      BY <3>1, NatLeast
  <2>2. m \in 0..Len(list) /\ ~\E f : Sol(f, m)
    OBVIOUS
  <2> USE DEF Sol
  <2>3. m # 0
    <3> SUFFICES ASSUME m = 0 PROVE FALSE
      OBVIOUS
    <3> DEFINE f == [n \in 0..0 |-> 0]
    <3>1. Sol(f, 0)
      OBVIOUS
    <3> QED
      BY <3>1, <2>2
  <2>4. m - 1 \in 0..Len(list) /\ m - 1 \notin Bad
    <3>1. m - 1 \in 0..Len(list) /\ ~(m <= m - 1)
      BY <2>2, <2>3, <1>1
    <3> HIDE DEF Bad
    <3> QED
      BY <3>1, <2>1
  <2>5. PICK g : Sol(g, m - 1)
    BY <2>4
  <2> DEFINE f == [n \in 0..m |-> IF n = m THEN g[m - 1] + list[m] ELSE g[n]]
  <2>6. \A n \in 0..m - 1 : g[n] = IF n = 0 THEN 0 ELSE g[n - 1] + list[n]
    BY <2>5
  <2>7. ASSUME NEW n \in 0..m PROVE f[n] = IF n = 0 THEN 0 ELSE f[n - 1] + list[n]
    <3>1. CASE n = m
      BY <3>1, <2>2, <2>3
    <3>2. CASE n # m
      <4>1. n \in 0..m - 1 /\ (n # 0 => n - 1 \in 0..m - 1)
        BY <3>2, <2>2
      <4>2. f[n] = g[n] /\ (n # 0 => f[n - 1] = g[n - 1])
        BY <4>1, <2>2
      <4> QED
        BY <4>1, <4>2, <2>6
    <3> QED
      BY <3>1, <3>2
  <2>8. Sol(f, m)
    BY <2>7
  <2> QED
    BY <2>2, <2>8
<1>3. \E f : Sol(f, Len(list))
  BY <1>1, <1>2
<1> QED
  BY <1>3


LEMMA SumSteps ==
  ASSUME NEW list \in Seq(Nat)
  PROVE  \E f : /\ SumOf(list) = f[Len(list)]
                /\ f[0] = 0
                /\ \A n \in 1..Len(list) : f[n] = f[n - 1] + list[n]
<1> DEFINE IsSum(f) == f = [n \in 0..Len(list) |-> IF n = 0 THEN 0 ELSE f[n - 1] + list[n]]
           upTo == CHOOSE f : IsSum(f)
<1>1. IsSum(upTo)
  <2>1. \E f : IsSum(f)
    BY SumExists
  <2> HIDE DEF IsSum
  <2> QED
    BY <2>1
<1>2. SumOf(list) = upTo[Len(list)]
  BY DEF SumOf
<1>3. Len(list) \in Nat
  OBVIOUS
<1> HIDE DEF upTo
<1>4. upTo[0] = 0 /\ \A n \in 1..Len(list) : upTo[n] = upTo[n - 1] + list[n]
  <2>1. \A n \in 0..Len(list) : upTo[n] = IF n = 0 THEN 0 ELSE upTo[n - 1] + list[n]
    BY <1>1
  <2> QED
    BY <2>1, <1>3
<1> QED
  BY <1>2, <1>4

\* f holds the sums of the first numbers of a list, up to the m-th.
Totals(f, list, m) == f[0] = 0 /\ \A n \in 1..m : f[n] = f[n - 1] + list[n]

\* Two sums of the same numbers agree as far as they go.
LEMMA SumsAgree ==
  ASSUME NEW list, NEW m \in Nat, NEW f, NEW g, Totals(f, list, m), Totals(g, list, m)
  PROVE  f[m] = g[m]
<1> USE DEF Totals
<1> DEFINE Bad == {n \in 0..m : f[n] # g[n]}
<1> SUFFICES ASSUME Bad # {} PROVE FALSE
  OBVIOUS
<1>1. PICK n \in Bad : \A y \in Bad : n <= y
  <2>1. Bad \subseteq Nat
    OBVIOUS
  <2> HIDE DEF Bad
  <2> QED
    BY <2>1, NatLeast
<1>2. n \in 0..m /\ f[n] # g[n] /\ n # 0
  OBVIOUS
<1>3. n - 1 \in 0..m /\ n \in 1..m /\ ~(n <= n - 1)
  BY <1>2
<1>4. f[n - 1] = g[n - 1]
  BY <1>1, <1>3
<1> QED
  BY <1>2, <1>3, <1>4

\* A sum is a number, and one more gap adds to it.
LEMMA SumNumber ==
  ASSUME NEW m \in Nat, NEW list \in Seq(Nat), m <= Len(list), NEW f, f[0] = 0,
         \A n \in 1..Len(list) : f[n] = f[n - 1] + list[n]
  PROVE  f[m] \in Nat
<1> DEFINE Bad == {n \in 0..m : f[n] \notin Nat}
<1> SUFFICES ASSUME Bad # {} PROVE FALSE
  OBVIOUS
<1>1. PICK n \in Bad : \A y \in Bad : n <= y
  <2>1. Bad \subseteq Nat
    OBVIOUS
  <2> HIDE DEF Bad
  <2> QED
    BY <2>1, NatLeast
<1>2. n \in 0..m /\ f[n] \notin Nat /\ n # 0
  OBVIOUS
<1>3. n - 1 \in 0..m /\ n \in 1..Len(list) /\ ~(n <= n - 1)
  BY <1>2
<1>4. f[n - 1] \in Nat /\ list[n] \in Nat
  BY <1>1, <1>3
<1> QED
  BY <1>2, <1>3, <1>4

LEMMA SumGrows ==
  ASSUME NEW list \in Seq(Nat), NEW x \in Nat
  PROVE  SumOf(<<>>) = 0 /\ SumOf(list) \in Nat /\ SumOf(Append(list, x)) = SumOf(list) + x
<1> DEFINE more == Append(list, x)
           m == Len(list)
<1>1. /\ more \in Seq(Nat) /\ Len(more) = m + 1 /\ m \in Nat
      /\ more[m + 1] = x /\ \A n \in 1..m : more[n] = list[n]
  OBVIOUS
<1>2. PICK f : /\ SumOf(list) = f[m] /\ f[0] = 0
               /\ \A n \in 1..m : f[n] = f[n - 1] + list[n]
  BY SumSteps
<1>3. PICK g : /\ SumOf(more) = g[m + 1] /\ g[0] = 0
               /\ \A n \in 1..m + 1 : g[n] = g[n - 1] + more[n]
  <2> HIDE DEF more, m
  <2>1. \E g : /\ SumOf(more) = g[Len(more)] /\ g[0] = 0
               /\ \A n \in 1..Len(more) : g[n] = g[n - 1] + more[n]
    BY <1>1, SumSteps
  <2> QED
    BY <1>1, <2>1
<1> HIDE DEF more, m
<1>4. \A n \in 1..m : g[n] = g[n - 1] + list[n]
  BY <1>1, <1>3
<1>5. f[m] = g[m]
  <2>1. m \in Nat
    BY <1>1
  <2>2. Totals(f, list, m)
    BY <1>2 DEF Totals
  <2>3. Totals(g, list, m)
    BY <1>3, <1>4 DEF Totals
  <2> QED
    BY <2>1, <2>2, <2>3, SumsAgree
<1>6. g[m + 1] = g[m] + x
  <2>1. m + 1 \in 1..m + 1 /\ m + 1 - 1 = m
    BY <1>1
  <2> QED
    BY <2>1, <1>1, <1>3
<1>7. f[m] \in Nat
  BY <1>1, <1>2, SumNumber DEF m
<1>8. SumOf(<<>>) = 0
  <2>1. PICK h : SumOf(<<>>) = h[Len(<<>>)] /\ h[0] = 0
    <3>1. <<>> \in Seq(Nat)
      OBVIOUS
    <3> QED
      BY <3>1, SumSteps
  <2> QED
    BY <2>1
<1> QED
  BY <1>2, <1>3, <1>5, <1>6, <1>7, <1>8 DEF more

----------------------------------------------------------------------------
(* Tidy discs *)

FreeSectors == Disc \ InUse

Behind(s, p) ==
  /\ LastSector(At(p)) < s
  /\ \A q \in Places : LastSector(At(p)) < At(q).start => s < At(q).start
BelowAll(s) == \A p \in Places : s < At(p).start

LEMMA TidyFile ==
  ASSUME DiscOK, Tidy
  PROVE  /\ Reserved \in Nat /\ TotalSectors \in Nat /\ Reserved <= TotalSectors
         /\ \A p \in Places : /\ At(p).start \in Nat /\ LastSector(At(p)) \in Nat
                              /\ Reserved <= At(p).start /\ At(p).start <= LastSector(At(p))
                              /\ LastSector(At(p)) < TotalSectors
                              /\ Body(At(p)) = At(p).start..LastSector(At(p))
<1>1. Reserved \in Nat /\ TotalSectors \in Nat /\ Reserved <= TotalSectors
  BY PlaceFacts DEF Tidy
<1>2. ASSUME NEW p \in Places
      PROVE  /\ At(p).start \in Nat /\ LastSector(At(p)) \in Nat
             /\ Reserved <= At(p).start /\ At(p).start <= LastSector(At(p))
             /\ LastSector(At(p)) < TotalSectors
             /\ Body(At(p)) = At(p).start..LastSector(At(p))
  <2>1. At(p) \in Entry /\ ~Empty(At(p)) /\ Body(At(p)) \subseteq Disc \ CatalogInUse
    BY PlaceFacts DEF Tidy
  <2>2. /\ At(p).start \in Nat /\ LastSector(At(p)) \in Nat /\ At(p).start <= LastSector(At(p))
        /\ At(p).start \in Body(At(p)) /\ LastSector(At(p)) \in Body(At(p))
    BY <2>1, FileFacts
  <2>3. LastSector(At(p)) \in 0..TotalSectors - 1 /\ At(p).start \notin 0..Reserved - 1
    BY <2>1, <2>2 DEF Disc, CatalogInUse
  <2> QED
    BY <2>1, <2>2, <2>3, <1>1 DEF Body
<1> QED
  BY <1>1, <1>2

\* Places are in the order of the files on the disc.
LEMMA TidyOrder ==
  ASSUME DiscOK, Tidy, NEW p \in Places, NEW q \in Places
  PROVE  /\ p = q \/ Above(p, q) \/ Above(q, p)
         /\ Above(q, p) => LastSector(At(p)) < At(q).start
<1>1. /\ p = <<p[1], p[2]>> /\ p[1] \in Nat /\ p[2] \in Nat
      /\ q = <<q[1], q[2]>> /\ q[1] \in Nat /\ q[2] \in Nat
  BY PlaceFacts
<1>2. p = q \/ Above(p, q) \/ Above(q, p)
  BY <1>1 DEF Above
<1>3. ASSUME q[1] > p[1] PROVE LastSector(At(p)) < At(q).start
  <2>1. p[1] < q[1]
    BY <1>1, <1>3
  <2> QED
    BY <2>1 DEF Tidy
<1>4. ASSUME q[1] = p[1], q[2] < p[2] PROVE LastSector(At(p)) < At(q).start
  <2> DEFINE list == fragments[p[1]].entries
  <2>1. /\ p[1] \in DOMAIN fragments /\ p[2] \in DOMAIN list /\ q[2] \in DOMAIN list
        /\ At(p) = list[p[2]] /\ At(q) = list[q[2]]
    BY <1>4, PlaceFacts DEF At
  <2>2. Descending(list) /\ ~Empty(At(p)) /\ ~Empty(At(q))
    BY <2>1 DEF Tidy
  <2> HIDE DEF list
  <2> QED
    BY <1>4, <2>1, <2>2 DEF Descending
<1> QED
  BY <1>2, <1>3, <1>4 DEF Above

LEMMA FreeFacts ==
  ASSUME DiscOK, Tidy
  PROVE  FreeSectors = {s \in Nat : /\ Reserved <= s /\ s < TotalSectors
                                    /\ \A p \in Places : s < At(p).start \/ LastSector(At(p)) < s}
<1>1. ASSUME NEW s \in Nat, NEW p \in Places
      PROVE  s \in Body(At(p)) <=> ~(s < At(p).start \/ LastSector(At(p)) < s)
  BY TidyFile
<1>2. \A s : s \in FreeSectors <=> /\ s \in 0..TotalSectors - 1 /\ s \notin 0..Reserved - 1
                                   /\ \A p \in Places : s \notin Body(At(p))
  BY DEF FreeSectors, Disc, InUse, CatalogInUse
<1>3. Reserved \in Nat /\ TotalSectors \in Nat
  BY TidyFile
<1>4. \A s : s \in FreeSectors <=> /\ s \in Nat /\ s < TotalSectors /\ Reserved <= s
                                   /\ \A p \in Places : s \notin Body(At(p))
  BY <1>2, <1>3
<1> QED
  BY <1>1, <1>4

\* What is free behind a file is what lies between it and the next one.
LEMMA GapAfter ==
  ASSUME DiscOK, Tidy, EntryHere, ~NextIsNowhere
  PROVE  LET last == LastSector(At(<<frag, pos>>)) + 1
         IN  /\ last \in Nat /\ StartSecOfNext \in Nat /\ last <= StartSecOfNext
             /\ {s \in FreeSectors : Behind(s, <<frag, pos>>)} = last..StartSecOfNext - 1
<1> DEFINE here == <<frag, pos>>
           e == At(here)
           last == LastSector(e) + 1
           next == StartSecOfNext
<1>1. here \in Places
  BY PassedBackwards
<1>2. /\ e.start \in Nat /\ LastSector(e) \in Nat /\ e.start <= LastSector(e)
      /\ Reserved <= e.start /\ LastSector(e) < TotalSectors
      /\ Reserved \in Nat /\ TotalSectors \in Nat
  BY <1>1, TidyFile
<1>3. \A q \in Places : /\ At(q).start \in Nat /\ LastSector(At(q)) \in Nat
                        /\ At(q).start <= LastSector(At(q)) /\ LastSector(At(q)) < TotalSectors
  BY TidyFile
<1>4. \A q \in Places : LastSector(e) < At(q).start => Above(q, here)
  <2> SUFFICES ASSUME NEW q \in Places, LastSector(e) < At(q).start PROVE Above(q, here)
    OBVIOUS
  <2>1. q = here \/ Above(here, q) \/ Above(q, here)
    BY <1>1, TidyOrder
  <2>2. Above(here, q) => LastSector(At(q)) < e.start
    BY <1>1, TidyOrder
  <2> QED
    BY <2>1, <2>2, <1>2, <1>3
<1>5. \A q \in Places : Above(q, here) => LastSector(e) < At(q).start
  BY <1>1, TidyOrder
<1>6. \A q \in Places : Above(here, q) => LastSector(At(q)) < e.start
  BY <1>1, TidyOrder
\* next is where the files above begin, or the end of the disc.
<1>7. /\ next \in Nat /\ LastSector(e) < next /\ next <= TotalSectors
      /\ \A q \in Places : Above(q, here) => next <= At(q).start
      /\ next = TotalSectors \/ \E q \in Places : Above(q, here) /\ next = At(q).start
  <2>1. CASE next = TotalSectors /\ \A r \in Places : ~Above(r, here)
    BY <2>1, <1>2
  <2>2. ASSUME NEW q \in Places, next = At(q).start, Above(q, here),
               \A r \in Places : Above(r, here) => r = q \/ Above(r, q)
        PROVE  /\ next \in Nat /\ LastSector(e) < next /\ next <= TotalSectors
               /\ \A r \in Places : Above(r, here) => next <= At(r).start
    <3>1. \A r \in Places : Above(r, q) => LastSector(At(q)) < At(r).start
      BY TidyOrder
    <3> HIDE DEF here, e, next
    <3> QED
      BY <2>2, <3>1, <1>2, <1>3, <1>5
  <2> QED
    BY <2>1, <2>2, NextOnDisc
<1> HIDE DEF next, e
<1>8. ASSUME NEW s \in FreeSectors, Behind(s, here) PROVE s \in last..next - 1
  <2>1. s \in Nat /\ s < TotalSectors /\ LastSector(e) < s
    BY <1>8, FreeFacts DEF Behind, e
  <2>2. \A q \in Places : LastSector(e) < At(q).start => s < At(q).start
    BY <1>8 DEF Behind, e
  <2>3. s < next
    BY <2>1, <2>2, <1>5, <1>7
  <2> QED
    BY <2>1, <2>3, <1>2, <1>7
<1>9. ASSUME NEW s \in last..next - 1 PROVE s \in FreeSectors /\ Behind(s, here)
  <2>1. s \in Nat /\ LastSector(e) < s /\ s < next
    BY <1>2, <1>7, <1>9
  <2>2. \A q \in Places : Above(q, here) => s < At(q).start
    BY <2>1, <1>3, <1>7
  <2>3. \A q \in Places : Above(here, q) => LastSector(At(q)) < s
    BY <2>1, <1>2, <1>3, <1>6
  <2>4. \A q \in Places : q = here \/ Above(here, q) \/ Above(q, here)
    BY <1>1, TidyOrder
  <2>5. \A q \in Places : s < At(q).start \/ LastSector(At(q)) < s
    BY <2>1, <2>2, <2>3, <2>4 DEF e
  <2>6. Reserved <= s /\ s < TotalSectors
    BY <2>1, <1>2, <1>7
  <2>7. s \in FreeSectors
    BY <2>1, <2>5, <2>6, FreeFacts
  <2>8. Behind(s, here)
    BY <2>1, <2>2, <1>4 DEF Behind, e
  <2> QED
    BY <2>7, <2>8
<1> QED
  BY <1>2, <1>7, <1>8, <1>9 DEF next, e


\* What is free before every file is what lies between the catalogue and the
\* first file; on a disc without files everything is.
LEMMA GapBefore ==
  ASSUME DiscOK, Tidy
  PROVE  /\ Reserved \in Nat /\ Following \in Nat /\ Reserved <= Following
         /\ {s \in FreeSectors : BelowAll(s)} = Reserved..Following - 1
         /\ \A p : IsFirstFile(p) => Following = At(p).start
<1>1. /\ Reserved \in Nat /\ TotalSectors \in Nat /\ Reserved <= TotalSectors
      /\ \A p \in Places : /\ At(p).start \in Nat /\ Reserved <= At(p).start
                           /\ At(p).start <= LastSector(At(p)) /\ LastSector(At(p)) \in Nat
                           /\ LastSector(At(p)) < TotalSectors
  BY TidyFile
<1>2. /\ Following \in Nat /\ Reserved <= Following /\ Following <= TotalSectors
      /\ \A p \in Places : Following <= At(p).start
      /\ Following = TotalSectors \/ \E p \in Places : Following = At(p).start
      /\ \A p : IsFirstFile(p) => Following = At(p).start
  <2>1. CASE Places = {}
    BY <2>1, <1>1 DEF Following, IsFirstFile
  <2>2. CASE Places # {}
    <3>1. PICK f \in Places : IsFirstFile(f) /\ Following = At(f).start
      BY <2>2, FollowingIsNumber
    <3>2. \A p : IsFirstFile(p) => p = f
      BY <3>1, FirstFile
    <3>3. \A p \in Places : At(f).start <= At(p).start
      BY <3>1, FirstFile
    <3> QED
      BY <3>1, <3>2, <3>3, <1>1
  <2> QED
    BY <2>1, <2>2
<1>3. ASSUME NEW s \in FreeSectors, BelowAll(s) PROVE s \in Reserved..Following - 1
  <2>1. s \in Nat /\ Reserved <= s /\ s < TotalSectors
    BY FreeFacts
  <2>2. s < Following
    BY <2>1, <1>2, <1>3 DEF BelowAll
  <2> QED
    BY <2>1, <2>2, <1>1, <1>2
<1>4. ASSUME NEW s \in Reserved..Following - 1 PROVE s \in FreeSectors /\ BelowAll(s)
  <2>1. s \in Nat /\ Reserved <= s /\ s < Following /\ s < TotalSectors
    BY <1>1, <1>2, <1>4
  <2>2. \A p \in Places : s < At(p).start
    BY <2>1, <1>1, <1>2
  <2> QED
    BY <2>1, <2>2, FreeFacts DEF BelowAll
<1> QED
  BY <1>1, <1>2, <1>3, <1>4

\* Every free sector is before every file or behind one, and never both.
LEMMA GapsCover ==
  ASSUME DiscOK, Tidy, NEW s \in FreeSectors
  PROVE  BelowAll(s) \/ \E p \in Places : Behind(s, p)
<1> SUFFICES ASSUME ~BelowAll(s) PROVE \E p \in Places : Behind(s, p)
  OBVIOUS
<1>1. /\ s \in Nat
      /\ \A p \in Places : s < At(p).start \/ LastSector(At(p)) < s
  BY FreeFacts
<1>2. \A p \in Places : /\ At(p).start \in Nat /\ LastSector(At(p)) \in Nat
                        /\ At(p).start <= LastSector(At(p))
  BY TidyFile
<1> DEFINE D == {s - LastSector(At(p)) : p \in {p \in Places : LastSector(At(p)) < s}}
<1>3. PICK d \in D : \A y \in D : d <= y
  <2>1. D \subseteq Nat
    BY <1>1, <1>2
  <2>2. D # {}
    BY <1>1, <1>2 DEF BelowAll
  <2> HIDE DEF D
  <2> QED
    BY <2>1, <2>2, NatLeast
<1>4. PICK p \in Places : LastSector(At(p)) < s /\ d = s - LastSector(At(p))
  OBVIOUS
<1>5. ASSUME NEW q \in Places, LastSector(At(p)) < At(q).start PROVE s < At(q).start
  <2> SUFFICES ASSUME LastSector(At(q)) < s PROVE FALSE
    BY <1>1
  <2>1. s - LastSector(At(q)) \in D
    OBVIOUS
  <2>2. d <= s - LastSector(At(q))
    BY <1>3, <2>1
  <2> QED
    BY <2>2, <1>1, <1>2, <1>4, <1>5
<1> QED
  BY <1>4, <1>5 DEF Behind

LEMMA GapsApart ==
  ASSUME DiscOK, Tidy, NEW s \in Nat, NEW p \in Places, Behind(s, p)
  PROVE  ~BelowAll(s) /\ \A q \in Places : Behind(s, q) => q = p
<1>1. \A q \in Places : /\ At(q).start \in Nat /\ LastSector(At(q)) \in Nat
                        /\ At(q).start <= LastSector(At(q))
  BY TidyFile
<1>2. ~BelowAll(s)
  <2>1. LastSector(At(p)) < s /\ ~(s < At(p).start)
    BY <1>1 DEF Behind
  <2> QED
    BY <2>1 DEF BelowAll
<1>3. ASSUME NEW q \in Places, Behind(s, q), q # p PROVE FALSE
  <2>1. Above(p, q) \/ Above(q, p)
    BY <1>3, TidyOrder
  <2>2. LastSector(At(p)) < s /\ LastSector(At(q)) < s
    BY <1>3 DEF Behind
  <2>3. CASE Above(p, q)
    <3>1. LastSector(At(q)) < At(p).start
      BY <2>3, TidyOrder
    <3>2. s < At(p).start
      BY <3>1, <1>3 DEF Behind
    <3> QED
      BY <3>2, <2>2, <1>1
  <2>4. CASE Above(q, p)
    <3>1. LastSector(At(p)) < At(q).start
      BY <2>4, TidyOrder
    <3>2. s < At(q).start
      BY <3>1 DEF Behind
    <3> QED
      BY <3>2, <2>2, <1>1
  <2> QED
    BY <2>1, <2>3, <2>4
<1> QED
  BY <1>2, <1>3

\* A gap adds to the sum the number of its sectors.
LEMMA GapAdds ==
  ASSUME NEW list \in Seq(Nat \ {0}), NEW last \in Nat, NEW next \in Nat, last <= next
  PROVE  /\ SumOf(MaybeGap(list, last, next)) = SumOf(list) + Cardinality(last..next - 1)
         /\ SumOf(list) \in Nat /\ IsFiniteSet(last..next - 1)
<1>1. list \in Seq(Nat)
  <2>1. \A i \in 1..Len(list) : list[i] \in Nat
    OBVIOUS
  <2> QED
    BY <2>1
<1>2. next - last \in Nat
  OBVIOUS
<1>3. SumOf(list) \in Nat /\ SumOf(Append(list, next - last)) = SumOf(list) + (next - last)
  BY <1>1, <1>2, SumGrows
<1>4. IsFiniteSet(last..next - 1) /\ Cardinality(last..next - 1) = next - last
  <2>1. next - 1 \in Int /\ last \in Int
    OBVIOUS
  <2>2. /\ IsFiniteSet(last..next - 1)
        /\ Cardinality(last..next - 1) = IF last > next - 1 THEN 0 ELSE next - 1 - last + 1
    BY <2>1, FS_Interval
  <2> QED
    BY <2>2
<1>5. CASE next > last
  BY <1>3, <1>4, <1>5 DEF MaybeGap
<1>6. CASE ~(next > last)
  BY <1>2, <1>3, <1>4, <1>6 DEF MaybeGap
<1> QED
  BY <1>5, <1>6, <1>3, <1>4

LEMMA CountsAdd ==
  ASSUME NEW S, NEW T, IsFiniteSet(S), IsFiniteSet(T), S \cap T = {}
  PROVE  IsFiniteSet(S \cup T) /\ Cardinality(S \cup T) = Cardinality(S) + Cardinality(T)
<1>1. Cardinality(S \cap T) = 0
  BY FS_EmptySet
<1>2. Cardinality(S) \in Nat /\ Cardinality(T) \in Nat
  BY FS_CardinalityType
<1>3. /\ IsFiniteSet(S \cup T)
      /\ Cardinality(S \cup T) = Cardinality(S) + Cardinality(T) - Cardinality(S \cap T)
  BY FS_Union
<1> QED
  BY <1>1, <1>2, <1>3

----------------------------------------------------------------------------
(* The gaps of space *)

Seen(p) == Before(<<frag, pos>>, p)

\* The free sectors that space has counted.
Counted ==
  {s \in FreeSectors : \/ \E p \in Places : Seen(p) /\ Behind(s, p)
                       \/ added_initial_gap /\ BelowAll(s)}

SpaceOK ==
  /\ added_initial_gap \in BOOLEAN
  /\ pc = "command" => gaps = <<>> /\ ~added_initial_gap
  /\ pc = "space" =>
       (added_initial_gap <=> \E p \in Places : p[1] = 1 /\ Seen(p) /\ IsFirstFile(p))
  /\ Tidy => /\ pc = "space" => SumOf(gaps) = Cardinality(Counted)
             /\ pc = "spaced" => SumOf(gaps) = Cardinality(FreeSectors)
             /\ pc # "thrown"

LEMMA SameTidy ==
  ASSUME UNCHANGED disc
  PROVE  /\ Tidy' = Tidy /\ FreeSectors' = FreeSectors
         /\ \A s : BelowAll(s)' = BelowAll(s) /\ \A p : Behind(s, p)' = Behind(s, p)
         /\ \A p : IsFirstFile(p)' = IsFirstFile(p)
<1>1. /\ Places' = Places /\ CatalogInUse' = CatalogInUse /\ TotalSectors' = TotalSectors
      /\ Reserved' = Reserved /\ fragments' = fragments
      /\ \A p : At(p)' = At(p) /\ \A q : Before(q, p)' = Before(q, p)
  BY SameDisc DEF disc
<1>2. Disc' = Disc /\ \A p : Body(At(p))' = Body(At(p))
  BY <1>1, SameBodies DEF Disc
<1>3. InUse' = InUse /\ FreeSectors' = FreeSectors
  BY <1>1, <1>2 DEF InUse, FreeSectors
<1>4. \A p : LastSector(At(p))' = LastSector(At(p)) /\ Empty(At(p))' = Empty(At(p))
  BY <1>1 DEF LastSector, Empty, SectorsFor
<1>5. \A c : Descending(fragments[c].entries)' = Descending(fragments[c].entries)
  BY <1>1 DEF Descending, LastSector, Empty, SectorsFor
<1>6. Tidy' = Tidy
  BY <1>1, <1>2, <1>4, <1>5 DEF Tidy
<1>7. \A s : BelowAll(s)' = BelowAll(s)
  BY <1>1 DEF BelowAll
<1>8. \A s, p : Behind(s, p)' = Behind(s, p)
  BY <1>1, <1>4 DEF Behind
<1>9. \A p : IsFirstFile(p)' = IsFirstFile(p)
  BY <1>1 DEF IsFirstFile
<1> QED
  BY <1>3, <1>6, <1>7, <1>8, <1>9

LEMMA FreeIsFinite ==
  ASSUME DiscOK, NEW S \in SUBSET FreeSectors
  PROVE  IsFiniteSet(S)
<1>1. IsFiniteSet(Disc)
  <2>1. 0 \in Int /\ TotalSectors - 1 \in Int
    BY PlaceFacts
  <2> QED
    BY <2>1, FS_Interval DEF Disc
<1>2. S \in SUBSET Disc
  BY DEF FreeSectors
<1> QED
  BY <1>1, <1>2, FS_Subset

\* One more file of a tidy disc: its gap, and perhaps the first one, are new.
LEMMA SpaceCountsFile ==
  ASSUME TypeInv, SpaceOK, SpaceEntry, pc' = "space", Tidy, EntryHere, ~NextIsNowhere,
         LET e == At(<<frag, pos>>)
             begun == IF InitialGapHere THEN MaybeGap(gaps, Reserved, e.start) ELSE gaps
         IN  /\ gaps' = MaybeGap(begun, LastSector(e) + 1, StartSecOfNext)
             /\ added_initial_gap' = (added_initial_gap \/ InitialGapHere)
  PROVE  SumOf(gaps') = Cardinality(Counted')
<1> DEFINE here == <<frag, pos>>
           e == At(here)
           begun == IF InitialGapHere THEN MaybeGap(gaps, Reserved, e.start) ELSE gaps
           A == {s \in FreeSectors : Behind(s, here)}
           I == IF InitialGapHere THEN {s \in FreeSectors : BelowAll(s)} ELSE {}
<1>1. /\ DiscOK /\ pc = "space" /\ UNCHANGED disc /\ frag' = frag /\ pos' = pos - 1
      /\ gaps \in Seq(Nat \ {0})
  BY TypeGivesDisc DEF SpaceEntry, TypeInv, TypeOK
<1>2. /\ \A p \in Places : Seen(p)' <=> Seen(p) \/ p = here
      /\ here \in Places /\ ~Seen(here)
  BY <1>1, PassedBackwards, SameDisc DEF Seen
<1>3. FreeSectors \subseteq Nat
  BY <1>1, FreeFacts
<1>4. /\ LastSector(e) + 1 \in Nat /\ StartSecOfNext \in Nat
      /\ LastSector(e) + 1 <= StartSecOfNext /\ A = LastSector(e) + 1..StartSecOfNext - 1
  BY <1>1, GapAfter
<1>5. InitialGapHere => /\ Reserved \in Nat /\ e.start \in Nat /\ Reserved <= e.start
                        /\ I = Reserved..e.start - 1 /\ ~added_initial_gap
  <2> SUFFICES ASSUME InitialGapHere
               PROVE  /\ Reserved \in Nat /\ e.start \in Nat /\ Reserved <= e.start
                      /\ I = Reserved..e.start - 1 /\ ~added_initial_gap
    OBVIOUS
  <2>1. IsFirstFile(here) /\ Following = e.start
    BY <1>1, GapBefore DEF InitialGapHere
  <2>2. \A p \in Places : IsFirstFile(p) => p = here
    BY <1>1, <2>1, FirstFile
  <2>3. ~added_initial_gap
    BY <1>1, <1>2, <2>2 DEF SpaceOK
  <2> QED
    BY <1>1, <2>1, <2>3, GapBefore
<1> HIDE DEF A, I, e
<1>6. SumOf(begun) = SumOf(gaps) + Cardinality(I) /\ begun \in Seq(Nat \ {0})
  <2>1. CASE InitialGapHere
    <3>1. SumOf(begun) = SumOf(gaps) + Cardinality(I)
      BY <2>1, <1>1, <1>5, GapAdds
    <3>2. begun \in Seq(Nat \ {0})
      BY <2>1, <1>1, <1>5, GapType
    <3> QED
      BY <3>1, <3>2
  <2>2. CASE ~InitialGapHere
    <3>1. Cardinality(I) = 0
      BY <2>2, FS_EmptySet DEF I
    <3>2. SumOf(gaps) \in Nat
      BY <1>1, <1>4, GapAdds
    <3> QED
      BY <2>2, <3>1, <3>2, <1>1
  <2> QED
    BY <2>1, <2>2
<1>7. SumOf(gaps') = SumOf(begun) + Cardinality(A)
  <2> HIDE DEF begun
  <2>1. gaps' = MaybeGap(begun, LastSector(e) + 1, StartSecOfNext)
    BY DEF begun, e
  <2> QED
    BY <2>1, <1>4, <1>6, GapAdds
<1>8. Counted' = (Counted \cup I) \cup A
  <2>1. \A s : s \in Counted' <=>
          /\ s \in FreeSectors
          /\ \/ \E p \in Places : (Seen(p) \/ p = here) /\ Behind(s, p)
             \/ (added_initial_gap \/ InitialGapHere) /\ BelowAll(s)
    BY <1>1, <1>2, SameDisc, SameTidy DEF Counted
  <2>2. \A s : s \in A <=> s \in FreeSectors /\ Behind(s, here)
    BY DEF A
  <2>3. \A s : s \in I <=> s \in FreeSectors /\ InitialGapHere /\ BelowAll(s)
    BY DEF I
  <2>4. \A s : s \in Counted <=>
          /\ s \in FreeSectors
          /\ \/ \E p \in Places : Seen(p) /\ Behind(s, p)
             \/ added_initial_gap /\ BelowAll(s)
    BY DEF Counted
  <2> QED
    BY <2>1, <2>2, <2>3, <2>4, <1>2
<1>9. Counted \cap I = {}
  <2> SUFFICES ASSUME NEW s \in Counted, s \in I PROVE FALSE
    OBVIOUS
  <2>1. s \in Nat /\ InitialGapHere /\ BelowAll(s)
    BY <1>3 DEF I, Counted
  <2>2. PICK p \in Places : Behind(s, p)
    BY <2>1, <1>5 DEF Counted
  <2> QED
    BY <2>1, <2>2, <1>1, GapsApart
<1>10. (Counted \cup I) \cap A = {}
  <2> SUFFICES ASSUME NEW s \in A, s \in Counted \cup I PROVE FALSE
    OBVIOUS
  <2>1. s \in Nat /\ Behind(s, here)
    BY <1>3 DEF A
  <2>2. ~BelowAll(s) /\ \A q \in Places : Behind(s, q) => q = here
    BY <2>1, <1>1, <1>2, GapsApart
  <2> QED
    BY <2>2, <1>2 DEF Counted, I
<1>11. IsFiniteSet(Counted) /\ IsFiniteSet(I) /\ IsFiniteSet(A)
  <2>1. Counted \in SUBSET FreeSectors /\ I \in SUBSET FreeSectors /\ A \in SUBSET FreeSectors
    BY DEF Counted, I, A
  <2> QED
    BY <2>1, <1>1, FreeIsFinite
<1>12. /\ IsFiniteSet(Counted \cup I)
       /\ Cardinality(Counted \cup I) = Cardinality(Counted) + Cardinality(I)
  BY <1>9, <1>11, CountsAdd
<1>13. Cardinality(Counted') = Cardinality(Counted \cup I) + Cardinality(A)
  BY <1>8, <1>10, <1>11, <1>12, CountsAdd
<1>14. SumOf(gaps) = Cardinality(Counted)
  BY <1>1 DEF SpaceOK
<1> QED
  BY <1>6, <1>7, <1>12, <1>13, <1>14

LEMMA SpaceEntryOK ==
  ASSUME TypeInv, SpaceOK, SpaceEntry
  PROVE  SpaceOK'
<1> DEFINE here == <<frag, pos>>
           e == At(here)
           begun == IF InitialGapHere THEN MaybeGap(gaps, Reserved, e.start) ELSE gaps
<1>1. /\ DiscOK /\ pc = "space" /\ EntryHere /\ UNCHANGED disc /\ frag' = frag /\ pos' = pos - 1
  BY TypeGivesDisc DEF SpaceEntry
<1>2. /\ \A p \in Places : Seen(p)' <=> Seen(p) \/ p = here
      /\ here \in Places /\ ~Seen(here)
  BY <1>1, PassedBackwards, SameDisc DEF Seen
<1>3. Tidy => ~(InitialGapHere /\ OutOfOrder(Reserved, e.start))
  <2> SUFFICES ASSUME Tidy PROVE ~OutOfOrder(Reserved, e.start)
    OBVIOUS
  <2>1. Reserved \in Nat /\ e.start \in Nat /\ Reserved <= e.start
    BY <1>1, <1>2, TidyFile
  <2> QED
    BY <2>1 DEF OutOfOrder
<1>4. Tidy /\ ~NextIsNowhere => ~OutOfOrder(LastSector(e) + 1, StartSecOfNext)
  BY <1>1, GapAfter DEF OutOfOrder
<1> HIDE DEF here, e, begun
<1>5. \/ pc' = "thrown" /\ ~Tidy /\ added_initial_gap' = added_initial_gap
      \/ pc' = "undefined" /\ added_initial_gap' = added_initial_gap
      \/ /\ pc' = "space" /\ ~NextIsNowhere
         /\ gaps' = MaybeGap(begun, LastSector(e) + 1, StartSecOfNext)
         /\ added_initial_gap' = (added_initial_gap \/ InitialGapHere)
  BY <1>1, <1>3, <1>4 DEF SpaceEntry, spacing, here, e, begun
<1>6. added_initial_gap' \in BOOLEAN
  BY <1>5 DEF SpaceOK
<1>7. CASE \/ pc' = "thrown" /\ ~Tidy
           \/ pc' = "undefined"
  BY <1>1, <1>6, <1>7, SameTidy DEF SpaceOK
<1>8. CASE /\ pc' = "space" /\ ~NextIsNowhere
           /\ gaps' = MaybeGap(begun, LastSector(e) + 1, StartSecOfNext)
           /\ added_initial_gap' = (added_initial_gap \/ InitialGapHere)
  <2>1. added_initial_gap' <=> \E p \in Places' : p[1] = 1 /\ Seen(p)' /\ IsFirstFile(p)'
    <3>1. added_initial_gap <=> \E p \in Places : p[1] = 1 /\ Seen(p) /\ IsFirstFile(p)
      BY <1>1 DEF SpaceOK
    <3>2. InitialGapHere <=> here[1] = 1 /\ IsFirstFile(here)
      BY DEF InitialGapHere, here
    <3>3. Places' = Places /\ \A p : IsFirstFile(p)' = IsFirstFile(p)
      BY <1>1, SameDisc, SameTidy
    <3> QED
      BY <3>1, <3>2, <3>3, <1>2, <1>8
  <2>2. Tidy => SumOf(gaps') = Cardinality(Counted')
    BY <1>1, <1>8, SpaceCountsFile DEF here, e, begun
  <2>3. Tidy => SumOf(gaps)' = Cardinality(Counted)'
    BY <2>2 DEF SumOf
  <2> QED
    BY <1>1, <1>6, <1>8, <2>1, <2>3, SameTidy DEF SpaceOK
<1> QED
  BY <1>5, <1>7, <1>8


\* The end of the loop: every gap has been counted, the first one at the latest.
LEMMA SpaceDoneOK ==
  ASSUME TypeInv, SpaceOK, SpaceDone
  PROVE  SpaceOK'
<1>1. /\ DiscOK /\ pc = "space" /\ UNCHANGED disc /\ gaps \in Seq(Nat \ {0})
      /\ pos = 0 /\ frag = 1
  BY TypeGivesDisc DEF SpaceDone, TypeInv, TypeOK
<1>2. \A p \in Places : Seen(p)
  BY <1>1, PlaceFacts DEF Seen, Before
<1>3. Tidy => ~OutOfOrder(Reserved, Following)
  BY <1>1, GapBefore DEF OutOfOrder
<1>4. \/ added_initial_gap /\ pc' = "spaced" /\ UNCHANGED <<gaps, added_initial_gap>>
      \/ pc' = "thrown" /\ ~Tidy /\ UNCHANGED added_initial_gap
      \/ /\ ~added_initial_gap /\ pc' = "spaced" /\ added_initial_gap' = TRUE
         /\ gaps' = MaybeGap(gaps, Reserved, Following)
  BY <1>3 DEF SpaceDone, spacing
<1>5. added_initial_gap' \in BOOLEAN /\ pc' \notin {"command", "space"}
  BY <1>4 DEF SpaceOK
<1>6. ASSUME Tidy PROVE pc' = "spaced" /\ SumOf(gaps') = Cardinality(FreeSectors)
  <2>1. SumOf(gaps) = Cardinality(Counted)
    BY <1>1, <1>6 DEF SpaceOK
  <2>2. CASE added_initial_gap /\ pc' = "spaced" /\ UNCHANGED gaps
    <3>1. Counted = FreeSectors
      BY <1>1, <1>2, <1>6, <2>2, GapsCover DEF Counted
    <3> QED
      BY <2>1, <2>2, <3>1
  <2>3. CASE /\ ~added_initial_gap /\ pc' = "spaced"
             /\ gaps' = MaybeGap(gaps, Reserved, Following)
    <3> DEFINE I == {s \in FreeSectors : BelowAll(s)}
    <3>1. /\ Reserved \in Nat /\ Following \in Nat /\ Reserved <= Following
          /\ I = Reserved..Following - 1
      BY <1>1, <1>6, GapBefore
    <3>2. SumOf(gaps') = SumOf(gaps) + Cardinality(I)
      BY <2>3, <3>1, <1>1, GapAdds
    <3>3. Counted \cup I = FreeSectors
      BY <1>1, <1>2, <1>6, GapsCover DEF Counted
    <3>4. Counted \cap I = {}
      <4>1. FreeSectors \subseteq Nat
        BY <1>1, <1>6, FreeFacts
      <4> QED
        BY <4>1, <1>1, <1>6, <2>3, GapsApart DEF Counted
    <3>5. IsFiniteSet(Counted) /\ IsFiniteSet(I)
      <4>1. Counted \in SUBSET FreeSectors /\ I \in SUBSET FreeSectors
        BY DEF Counted
      <4> QED
        BY <4>1, <1>1, FreeIsFinite
    <3> HIDE DEF I
    <3>6. Cardinality(Counted \cup I) = Cardinality(Counted) + Cardinality(I)
      BY <3>4, <3>5, CountsAdd
    <3> QED
      BY <2>1, <2>3, <3>2, <3>3, <3>6
  <2> QED
    BY <1>4, <1>6, <2>2, <2>3
<1>7. SumOf(gaps)' = SumOf(gaps')
  BY DEF SumOf
<1> QED
  BY <1>1, <1>5, <1>6, <1>7, SameTidy DEF SpaceOK

LEMMA SpaceNextCatalogOK ==
  ASSUME TypeInv, SpaceOK, SpaceNextCatalog
  PROVE  SpaceOK'
<1>1. /\ DiscOK /\ pc = "space" /\ pc' = "space" /\ UNCHANGED disc
      /\ pos = 0 /\ frag \in Nat /\ frag > 1 /\ frag' = frag - 1
      /\ pos' = Len(fragments[frag - 1].entries)
      /\ gaps' = gaps /\ added_initial_gap' = added_initial_gap
  BY TypeGivesDisc, PlaceFacts DEF SpaceNextCatalog, TypeInv, TypeOK, spacing
<1>2. ASSUME NEW p \in Places
      PROVE  Seen(p)' <=> Seen(p)
  <2>1. p[1] \in Nat \ {0} /\ p[2] \in Nat \ {0} /\ p[2] \in DOMAIN fragments[p[1]].entries
    BY <1>1, PlaceFacts
  <2>2. p[1] = frag - 1 => p[2] <= pos' /\ pos' \in Nat
    BY <1>1, <2>1, PlaceFacts
  <2>3. Seen(p)' <=> frag' < p[1] \/ (frag' = p[1] /\ pos' < p[2])
    BY DEF Seen, Before
  <2>4. Seen(p) <=> frag < p[1] \/ (frag = p[1] /\ pos < p[2])
    BY DEF Seen, Before
  <2> QED
    BY <1>1, <2>1, <2>2, <2>3, <2>4
<1>3. Places' = Places /\ \A p : IsFirstFile(p)' = IsFirstFile(p)
  BY <1>1, SameDisc, SameTidy
<1>4. Counted' = Counted
  BY <1>1, <1>2, <1>3, SameTidy DEF Counted
<1>5. SumOf(gaps)' = SumOf(gaps)
  BY <1>1 DEF SumOf
<1> QED
  BY <1>1, <1>2, <1>3, <1>4, <1>5, SameTidy DEF SpaceOK

LEMMA SpaceStarts ==
  ASSUME TypeInv, SpaceOK, Space
  PROVE  SpaceOK'
<1>1. /\ DiscOK /\ pc' = "space" /\ UNCHANGED disc /\ frag' = Len(fragments)
      /\ pos' = Len(fragments[Len(fragments)].entries)
      /\ gaps' = <<>> /\ added_initial_gap' = FALSE
  BY TypeGivesDisc DEF Space, SpaceOK, spacing
<1>2. ASSUME NEW p \in Places PROVE ~Seen(p)'
  <2>1. /\ p[1] \in DOMAIN fragments /\ p[2] \in DOMAIN fragments[p[1]].entries
        /\ p[1] \in Nat /\ p[2] \in Nat /\ Len(fragments) \in Nat
        /\ DOMAIN fragments = 1..Len(fragments)
    BY <1>1, PlaceFacts
  <2>2. p[1] <= Len(fragments)
    BY <2>1
  <2>3. p[1] = Len(fragments) => p[2] <= pos' /\ pos' \in Nat
    BY <1>1, <2>1, PlaceFacts
  <2>4. Seen(p)' <=> frag' < p[1] \/ (frag' = p[1] /\ pos' < p[2])
    BY DEF Seen, Before
  <2> QED
    BY <1>1, <2>1, <2>2, <2>3, <2>4
<1>3. Places' = Places
  BY <1>1, SameDisc
<1>4. Counted' = {}
  BY <1>1, <1>2, <1>3 DEF Counted
<1>5. SumOf(gaps)' = 0 /\ Cardinality(Counted)' = 0
  <2>1. SumOf(<<>>) = 0
    <3>1. <<>> \in Seq(Nat) /\ 0 \in Nat
      OBVIOUS
    <3> QED
      BY <3>1, SumGrows
  <2>2. SumOf(gaps)' = SumOf(<<>>)
    BY <1>1 DEF SumOf
  <2> QED
    BY <2>1, <2>2, <1>4, FS_EmptySet
<1> QED
  BY <1>1, <1>2, <1>3, <1>5, SameTidy DEF SpaceOK

LEMMA NextSpaceOK == TypeInv /\ SpaceOK /\ [Next]_vars => SpaceOK'
<1> SUFFICES ASSUME TypeInv, SpaceOK, [Next]_vars PROVE SpaceOK'
  OBVIOUS
<1>1. CASE Space
  BY <1>1, SpaceStarts
<1>2. CASE SpaceEntry
  BY <1>2, SpaceEntryOK
<1>3. CASE SpaceNextCatalog
  BY <1>3, SpaceNextCatalogOK
<1>4. CASE SpaceDone
  BY <1>4, SpaceDoneOK
<1>5. CASE \/ ExtractUnused \/ MapFile \/ MapNextFragment \/ MapDone \/ ScanSector \/ ScanDone
           \/ Free \/ FreeEntry \/ FreeNextFragment \/ FreeDone
  <2>1. /\ pc' \notin {"command", "space", "spaced", "thrown"}
        /\ added_initial_gap' = added_initial_gap
    BY <1>5 DEF ExtractUnused, MapFile, MapNextFragment, MapDone, ScanSector, ScanDone,
       Free, FreeEntry, FreeNextFragment, FreeDone, spacing
  <2> QED
    BY <2>1 DEF SpaceOK
<1>6. CASE UNCHANGED vars
  <2>1. UNCHANGED disc /\ UNCHANGED <<pc, frag, pos, gaps, added_initial_gap>>
    BY <1>6 DEF vars, disc
  <2>2. /\ \A p : Seen(p)' <=> Seen(p)
        /\ SumOf(gaps)' = SumOf(gaps) /\ Places' = Places
    BY <2>1, SameDisc DEF Seen, Before, SumOf
  <2>3. Counted' = Counted
    BY <2>1, <2>2, SameTidy DEF Counted
  <2> QED
    BY <2>1, <2>2, <2>3, SameTidy DEF SpaceOK
<1> QED
  BY <1>1, <1>2, <1>3, <1>4, <1>5, <1>6 DEF Next, Loops

LEMMA SpacedAddsUp ==
  ASSUME TypeInv, SpaceOK
  PROVE  SpaceAddsUp /\ FirstGapOnce
<1>1. SpaceAddsUp
  BY DEF SpaceOK, SpaceAddsUp, FreeSectors
<1>2. ASSUME pc = "space", EntryHere, InitialGapHere, added_initial_gap PROVE FALSE
  <2>1. DiscOK /\ IsFirstFile(<<frag, pos>>)
    BY <1>2, TypeGivesDisc DEF InitialGapHere
  <2>2. PICK p \in Places : Seen(p) /\ IsFirstFile(p)
    BY <1>2 DEF SpaceOK
  <2>3. p = <<frag, pos>>
    BY <2>1, <2>2, FirstFile
  <2> QED
    BY <1>2, <2>1, <2>2, <2>3, PassedBackwards DEF Seen
<1> QED
  BY <1>1, <1>2 DEF FirstGapOnce

(* The gaps of space add up to the free sectors of a tidy disc, and space  *)
(* never calls such a disc out of order; its assertion about the first gap *)
(* holds on any disc; and free calls no sector of a file free              *)
(* (cmd_space.cc, cmd_free.cc).                                            *)
THEOREM RoomAddsUp == Spec => []SpaceAndFreeAddUp
<1> DEFINE Inv == TypeInv /\ SpaceOK /\ FreeOK
<1>1. Init => Inv
  <2>1. Init => SpaceOK /\ FreeOK
    BY DEF Init, Start, SpaceOK, FreeOK
  <2> QED
    BY <2>1, InitTypeInv
<1>2. Inv /\ [Next]_vars => Inv'
  BY NextTypeInv, NextSpaceOK, NextFreeOK
<1>3. Inv => SpaceAndFreeAddUp
  BY SpacedAddsUp, FreedIsBehindFiles DEF SpaceAndFreeAddUp, TypeInv
<1> QED
  BY <1>1, <1>2, <1>3, PTL DEF Spec

----------------------------------------------------------------------------
(* How cat puts the files in columns.                                       *)

\* Where column c begins.
Begin(c) == c * ColWidth

Numbered == DOMAIN cat_entries

FileAt(k) == cat_entries[order[k]]

CatInputs ==
  /\ ui \in {"Acorn", "Watford"} /\ screen_width \in Int
  /\ cat_directory \in DirectoryCode /\ cat_entries \in Seq(ListedFile)

PlaceType == [row : Nat, col : Nat, current_col : 0..3]

CatTypes ==
  /\ shown \in Nat /\ printed_gap \in BOOLEAN /\ first \in BOOLEAN
  /\ step \in {"sort", "entries", "shown"}
  /\ place \in PlaceType
  /\ cells \in Seq([entry : Nat, row : Nat, col : Nat]) /\ Len(cells) = shown

\* Before the sort nothing is in order or shown; behind it every entry has its place.
Ordered ==
  /\ step = "sort" => order = <<>> /\ shown = 0
  /\ step # "sort" =>
       /\ order \in [Numbered -> Numbered]
       /\ \A e \in Numbered : \E i \in Numbered : order[i] = e
       /\ \A i, j \in Numbered : i < j => ~CompareEntries(FileAt(j), FileAt(i))
  /\ shown <= Len(cat_entries)
  /\ step = "shown" => shown = Len(cat_entries)
  /\ \A k \in 1..shown : cells[k].entry = order[k]

\* The two counters, which agree about the column where every file is plain.
CountersAgree ==
  /\ first <=> shown = 0
  /\ NoneInDirectory0 => (printed_gap <=> shown > 0 /\ ~IsCurrent(shown))
  /\ step # "shown" /\ shown = 0 => place = [row |-> 0, col |-> 0, current_col |-> 0]
  /\ step # "shown" /\ shown > 0 =>
       /\ place.current_col < SelectOutputColumns /\ cells[shown].row <= place.row
       /\ AllPlain =>
            /\ cells[shown].col = Begin(place.current_col) /\ cells[shown].row = place.row
            /\ place.col = Begin(place.current_col) + Len(Text(Shown(shown)))

\* Where a file is put: at the beginning of a column, and behind the one in front of it.
CellInColumn(k) ==
  /\ \E c \in 0..3 : c < SelectOutputColumns /\ cells[k].col = Begin(c)
  /\ AllPlain /\ k > 1 /\ cells[k].row = cells[k - 1].row => cells[k].col > cells[k - 1].col
  /\ k > 1 => cells[k].row >= cells[k - 1].row

\* No file is in directory 0 or has a character that moves the stream's counter alone.
Usual == AllPlain /\ NoneInDirectory0

\* In the column behind it, on the next line, or behind the empty line.
CellNext(k) ==
  /\ k = 1 => cells[k].col = 0 /\ cells[k].row = (IF IsCurrent(k) THEN 0 ELSE 1)
  /\ NewGroup(k) => cells[k].col = 0 /\ cells[k].row = cells[k - 1].row + 2
  /\ k > 1 /\ ~NewGroup(k) =>
       \/ cells[k].row = cells[k - 1].row /\ cells[k].col = cells[k - 1].col + ColWidth
       \/ /\ cells[k].row = cells[k - 1].row + 1 /\ cells[k].col = 0
          /\ cells[k - 1].col + ColWidth = Rmargin

CatIInv ==
  /\ CatInputs /\ CatTypes /\ Ordered /\ CountersAgree
  /\ \A k \in 1..shown : CellInColumn(k) /\ (Usual => CellNext(k))

\* Columns begin one width after the other, and 0 is the first.
LEMMA Begins ==
  /\ \A c \in 0..4 : Begin(c) \in Nat /\ Begin(c + 1) = Begin(c) + ColWidth
  /\ \A c \in 0..4 : Begin(c) % ColWidth = 0
  /\ \A c, d \in 0..4 : c < d => Begin(c) + ColWidth <= Begin(d)
  /\ Begin(0) = 0
<1> USE ColWidthAssumption
<1>1. Begin(0) = 0
  BY DEF Begin
<1>2. \A c \in 0..4 : Begin(c) \in Nat /\ Begin(c + 1) = Begin(c) + ColWidth
  BY DEF Begin
<1>3. \A c, d \in 0..4 : c < d => Begin(c) + ColWidth <= Begin(d)
  <2>1. Begin(1) = ColWidth /\ Begin(2) = 2 * ColWidth /\ Begin(3) = 3 * ColWidth
        /\ Begin(4) = 4 * ColWidth
    BY DEF Begin
  <2> QED BY <1>1, <2>1
<1>4. \A c \in 0..4 : Begin(c) % ColWidth = 0
  <2> SUFFICES ASSUME NEW c \in 0..4 PROVE (c * ColWidth) % ColWidth = 0
    BY DEF Begin
  <2> DEFINE q == (c * ColWidth) \div ColWidth
  <2>1. /\ q \in Nat /\ (c * ColWidth) % ColWidth \in Nat
        /\ (c * ColWidth) % ColWidth < ColWidth
        /\ c * ColWidth = (q * ColWidth) + ((c * ColWidth) % ColWidth)
    BY QuotientAndRest
  <2>2. ASSUME NEW a \in Nat, NEW b \in Nat, NEW r \in Nat, r < ColWidth,
               a * ColWidth = (b * ColWidth) + r
        PROVE  r = 0
    <3>1. CASE a = b
      BY <2>2, <3>1
    <3>2. CASE a < b
      <4>1. (b - a) * ColWidth >= ColWidth
        BY <3>2
      <4>2. (b * ColWidth) = (a * ColWidth) + ((b - a) * ColWidth)
        OBVIOUS
      <4> QED BY <2>2, <4>1, <4>2
    <3>3. CASE b < a
      <4>1. (a - b) * ColWidth >= ColWidth
        BY <3>3
      <4>2. (a * ColWidth) = (b * ColWidth) + ((a - b) * ColWidth)
        OBVIOUS
      <4> QED BY <2>2, <4>1, <4>2
    <3> QED BY <3>1, <3>2, <3>3
  <2> HIDE DEF q
  <2> QED BY <2>1, <2>2
<1> QED BY <1>1, <1>2, <1>3, <1>4

LEMMA Columns ==
  /\ SelectOutputColumns \in 1..4
  /\ Rmargin = Begin(SelectOutputColumns)
BY DEF SelectOutputColumns, Rmargin, Begin

----------------------------------------------------------------------------
(* Texts, and where they end.                                               *)

\* The recursion in PutOut has a solution, as the one in SumOf has.
LEMMA PutOutExists ==
  ASSUME NEW at \in PlaceType, NEW text \in Seq(Nat)
  PROVE  \E f : f = [n \in 0..Len(text) |-> IF n = 0 THEN at ELSE UpdateCol(f[n - 1], text[n])]
<1> DEFINE Sol(f, l) == f = [n \in 0..l |-> IF n = 0 THEN at ELSE UpdateCol(f[n - 1], text[n])]
           Bad == {l \in Nat : ~\E f : Sol(f, l)}
<1> SUFFICES ASSUME Bad # {} PROVE FALSE
  <2>1. Len(text) \in Nat
    OBVIOUS
  <2> QED BY <2>1
<1>1. PICK l \in Bad : \A y \in Bad : l <= y
  <2> HIDE DEF Sol
  <2>1. Bad \subseteq Nat
    OBVIOUS
  <2> HIDE DEF Bad
  <2> QED BY <2>1, NatLeast
<1>2. l \in Nat /\ ~\E f : Sol(f, l)
  OBVIOUS
<1>3. l # 0
  <2> SUFFICES ASSUME l = 0 PROVE FALSE
    OBVIOUS
  <2> DEFINE f == [n \in 0..0 |-> at]
  <2>1. Sol(f, 0)
    OBVIOUS
  <2> QED BY <1>2, <2>1
<1>4. \E g : Sol(g, l - 1)
  <2>1. l - 1 \in Nat /\ ~(l <= l - 1)
    BY <1>2, <1>3
  <2> HIDE DEF Sol
  <2>2. l - 1 \notin Bad
    <3> HIDE DEF Bad
    <3> QED BY <1>1, <2>1
  <2> QED BY <2>1, <2>2
<1>5. PICK g : Sol(g, l - 1)
  BY <1>4
<1> DEFINE f == [n \in 0..l |-> IF n = l THEN UpdateCol(g[l - 1], text[l]) ELSE g[n]]
<1>6. \A n \in 0..l - 1 : g[n] = IF n = 0 THEN at ELSE UpdateCol(g[n - 1], text[n])
  BY <1>5
<1>7. ASSUME NEW n \in 0..l
      PROVE  f[n] = IF n = 0 THEN at ELSE UpdateCol(f[n - 1], text[n])
  <2>1. CASE n = l
    BY <1>2, <1>3, <2>1
  <2>2. CASE n # l
    <3>1. n \in 0..l - 1 /\ (n # 0 => n - 1 \in 0..l - 1)
      BY <1>2, <2>2
    <3>2. f[n] = g[n] /\ (n # 0 => f[n - 1] = g[n - 1])
      BY <1>2, <3>1
    <3> QED BY <1>6, <3>1, <3>2
  <2> QED BY <2>1, <2>2
<1>8. Sol(f, l)
  BY <1>7
<1> QED BY <1>2, <1>8

\* What one character does to a place.
LEMMA OneCharacter ==
  ASSUME NEW at \in PlaceType, NEW ch \in Nat
  PROVE  LET b == UpdateCol(at, ch)
         IN /\ b \in PlaceType /\ b.current_col = at.current_col /\ b.row >= at.row
            /\ ch \notin {Tab, LineEnd, Return} => b.row = at.row /\ b.col = at.col + 1
<1> DEFINE b == UpdateCol(at, ch)
<1>1. at.row \in Nat /\ at.col \in Nat /\ at.current_col \in 0..3
      /\ at = [row |-> at.row, col |-> at.col, current_col |-> at.current_col]
  BY DEF PlaceType
<1>2. CASE ch = LineEnd
  <2>1. b = [row |-> at.row + 1, col |-> 0, current_col |-> at.current_col]
    <3>1. b = [at EXCEPT !.row = @ + 1, !.col = 0]
      BY <1>2 DEF UpdateCol, LineEnd, Return, Tab
    <3> QED BY <3>1 DEF PlaceType
  <2> HIDE DEF b
  <2> QED BY <1>1, <1>2, <2>1 DEF PlaceType, b
<1>3. CASE ch = Return
  <2>1. b = [at EXCEPT !.col = 0]
    BY <1>3 DEF UpdateCol, LineEnd, Return, Tab
  <2> HIDE DEF b
  <2> QED BY <1>1, <1>3, <2>1 DEF PlaceType, b
<1>4. CASE ch = Tab
  <2>1. b = [at EXCEPT !.col = @ + (TabWidth - (@ % TabWidth))]
    BY <1>4 DEF UpdateCol, LineEnd, Return, Tab
  <2>2. at.col + (TabWidth - (at.col % TabWidth)) \in Nat
    BY <1>1 DEF TabWidth
  <2> HIDE DEF b
  <2> QED BY <1>1, <1>4, <2>1, <2>2 DEF PlaceType, b
<1>5. CASE ch \notin {Tab, LineEnd, Return}
  <2>1. b = [at EXCEPT !.col = @ + 1]
    BY <1>5 DEF UpdateCol
  <2> HIDE DEF b
  <2> QED BY <1>1, <2>1 DEF PlaceType, b
<1> QED BY <1>2, <1>3, <1>4, <1>5

\* A text moves the stream's counter only, and the row; without TAB, line end and return it
\* ends as many columns further as it is long.
LEMMA TextEnds ==
  ASSUME NEW at \in PlaceType, NEW text \in Seq(Nat)
  PROVE  LET b == PutOut(at, text)
         IN /\ b \in PlaceType /\ b.current_col = at.current_col /\ b.row >= at.row
            /\ (\A n \in 1..Len(text) : text[n] \notin {Tab, LineEnd, Return}) =>
                 b.row = at.row /\ b.col = at.col + Len(text)
<1> DEFINE Ordinary == \A n \in 1..Len(text) : text[n] \notin {Tab, LineEnd, Return}
           IsPut(f) ==
             f = [n \in 0..Len(text) |-> IF n = 0 THEN at ELSE UpdateCol(f[n - 1], text[n])]
           upTo == CHOOSE f : IsPut(f)
           Good(n) == /\ upTo[n] \in PlaceType /\ upTo[n].current_col = at.current_col
                      /\ upTo[n].row >= at.row
                      /\ Ordinary => upTo[n].row = at.row /\ upTo[n].col = at.col + n
           Bad == {n \in 0..Len(text) : ~Good(n)}
<1>1. Len(text) \in Nat /\ \A n \in 1..Len(text) : text[n] \in Nat
  OBVIOUS
<1>2. IsPut(upTo)
  <2>1. \E f : IsPut(f)
    BY PutOutExists
  <2> HIDE DEF IsPut
  <2> QED BY <2>1
<1>3. PutOut(at, text) = upTo[Len(text)]
  BY DEF PutOut
<1> HIDE DEF upTo
<1>4. upTo[0] = at /\ \A n \in 1..Len(text) : upTo[n] = UpdateCol(upTo[n - 1], text[n])
  <2>1. \A n \in 0..Len(text) : upTo[n] = IF n = 0 THEN at ELSE UpdateCol(upTo[n - 1], text[n])
    BY <1>2
  <2> QED BY <1>1, <2>1
<1>5. at.row \in Nat /\ at.col \in Nat
  BY DEF PlaceType
<1>6. Bad = {}
  <2> SUFFICES ASSUME Bad # {} PROVE FALSE
    OBVIOUS
  <2> HIDE DEF Good
  <2>1. PICK n \in Bad : \A y \in Bad : n <= y
    <3>1. Bad \subseteq Nat
      OBVIOUS
    <3> HIDE DEF Bad
    <3> QED BY <3>1, NatLeast
  <2>2. n \in 0..Len(text) /\ ~Good(n)
    OBVIOUS
  <2>3. n # 0
    <3>1. Good(0)
      BY <1>4, <1>5 DEF Good
    <3> QED BY <2>2, <3>1
  <2>4. n - 1 \in 0..Len(text) /\ n \in 1..Len(text) /\ ~(n <= n - 1)
    BY <1>1, <2>2, <2>3
  <2>5. Good(n - 1)
    <3>1. n - 1 \notin Bad
      <4> HIDE DEF Bad
      <4> QED BY <2>1, <2>4
    <3> QED BY <2>4, <3>1
  <2>6. upTo[n] = UpdateCol(upTo[n - 1], text[n]) /\ text[n] \in Nat
    BY <1>1, <1>4, <2>4
  <2>7. PICK a \in PlaceType : a = upTo[n - 1]
    BY <2>5 DEF Good
  <2>8. a.row \in Nat /\ a.col \in Nat
    BY <2>7 DEF PlaceType
  <2>9. PICK b \in PlaceType : b = UpdateCol(a, text[n])
    BY <2>6, <2>7, OneCharacter
  <2>10. /\ b.current_col = a.current_col /\ b.row >= a.row /\ b.row \in Nat
         /\ Ordinary => b.row = a.row /\ b.col = a.col + 1
    <3>1. b.row \in Nat
      BY <2>9 DEF PlaceType
    <3> QED BY <2>4, <2>6, <2>9, <3>1, OneCharacter
  <2> HIDE DEF Ordinary
  <2>11. Good(n)
    <3>1. /\ a.current_col = at.current_col /\ a.row >= at.row
          /\ Ordinary => a.row = at.row /\ a.col = at.col + (n - 1)
      BY <2>5, <2>7 DEF Good
    <3>2. upTo[n] = b
      BY <2>6, <2>7, <2>9
    <3> QED BY <1>5, <2>4, <2>8, <2>9, <2>10, <3>1, <3>2 DEF Good
  <2> QED BY <2>2, <2>11
<1>7. Good(Len(text))
  BY <1>1, <1>6
<1> QED BY <1>3, <1>7

LEMMA Joined ==
  ASSUME NEW S, NEW s \in Seq(S), NEW t \in Seq(S)
  PROVE  s \o t \in Seq(S) /\ Len(s \o t) = Len(s) + Len(t)
         /\ Len(s) \in Nat /\ Len(t) \in Nat
OBVIOUS

LEMMA LengthsAdd ==
  ASSUME NEW S, NEW s \in Seq(S), NEW t \in Seq(S), NEW a, NEW b, Len(s) = a, Len(t) = b
  PROVE  s \o t \in Seq(S) /\ Len(s \o t) = a + b
BY Joined

LEMMA BlanksLong ==
  ASSUME NEW S, 32 \in S, NEW n \in Nat
  PROVE  Blanks(n) \in Seq(S) /\ Len(Blanks(n)) = n
<1>1. Blanks(n) \in [1..n -> S]
  BY DEF Blanks
<1> QED BY <1>1, LenProperties

\* What is put out for a file is wider than nothing, and narrower than a column.
LEMMA TextLong ==
  ASSUME NEW S, 32 \in S, 46 \in S, 76 \in S, NEW e \in ListedFile, e.name \in Seq(S),
         e.dir # cat_directory => e.dir \in S
  PROVE  Text(e) \in Seq(S) /\ Len(Text(e)) \in 8..17
<1> DEFINE front == Blanks(IF ui = "Watford" THEN 3 ELSE 2)
           where == IF e.dir # cat_directory THEN <<e.dir, 46>> ELSE Blanks(2)
           text == front \o where \o e.name
           left == Blanks(IF Len(text) < 8 THEN 8 - Len(text) ELSE 0)
           lock == IF e.locked THEN Blanks(4) \o <<76>> ELSE <<>>
<1>0. \A n \in Nat : Blanks(n) \in Seq(S) /\ Len(Blanks(n)) = n
  BY BlanksLong
<1>1. front \in Seq(S) /\ Len(front) \in 2..3
  <2>1. PICK p \in 2..3 : p = IF ui = "Watford" THEN 3 ELSE 2
    OBVIOUS
  <2>2. Blanks(p) \in Seq(S) /\ Len(Blanks(p)) = p
    BY <1>0
  <2> QED BY <2>1, <2>2
<1>2. where \in Seq(S) /\ Len(where) = 2
  <2>1. Blanks(2) \in Seq(S) /\ Len(Blanks(2)) = 2
    BY <1>0
  <2>2. ASSUME e.dir \in S PROVE <<e.dir, 46>> \in Seq(S) /\ Len(<<e.dir, 46>>) = 2
    BY <2>2
  <2> QED BY <2>1, <2>2
<1>3. lock \in Seq(S) /\ Len(lock) \in {0, 5}
  <2>1. PICK s \in Seq(S) : s = Blanks(4) /\ Len(s) = 4
    BY <1>0
  <2>2. <<76>> \in Seq(S) /\ Len(<<76>>) = 1
    OBVIOUS
  <2>5. PICK t \in Seq(S) : t = <<76>> /\ Len(t) = 1
    BY <2>2
  <2>6. s \o t \in Seq(S) /\ Len(s \o t) = 5
    <3>1. PICK a \in {4}, b \in {1} : a = Len(s) /\ b = Len(t)
      BY <2>1, <2>5
    <3>2. s \o t \in Seq(S) /\ Len(s \o t) = a + b
      BY <3>1, LengthsAdd
    <3>3. a + b = 5
      OBVIOUS
    <3> QED BY <3>2, <3>3
  <2>3. Blanks(4) \o <<76>> \in Seq(S) /\ Len(Blanks(4) \o <<76>>) = 5
    BY <2>1, <2>5, <2>6
  <2>4. <<>> \in Seq(S) /\ Len(<<>>) = 0
    OBVIOUS
  <2> QED BY <2>3, <2>4
<1>4. Len(e.name) \in 0..7
  <2>1. Len(e.name) <= 7
    BY DEF ListedFile, Name
  <2>2. PICK k \in Nat : k = Len(e.name)
    BY LenProperties
  <2>3. k <= 7
    BY <2>1, <2>2, Zenon
  <2>4. k \in 0..7
    BY <2>3
  <2> QED BY <2>2, <2>4
<1>5. Text(e) = left \o text \o lock
  BY DEF Text
<1> HIDE DEF front, where, lock
<1>6. front \o where \in Seq(S) /\ Len(front \o where) \in 4..5
  <2>1. PICK s \in Seq(S), t \in Seq(S) : s = front /\ t = where
    BY <1>1, <1>2
  <2>2. PICK a \in 2..3, b \in {2} : a = Len(s) /\ b = Len(t)
    BY <1>1, <1>2, <2>1
  <2>3. s \o t \in Seq(S) /\ Len(s \o t) = a + b
    BY <2>2, LengthsAdd
  <2>4. a + b \in 4..5
    OBVIOUS
  <2> QED BY <2>1, <2>3, <2>4
<1>7. text \in Seq(S) /\ Len(text) \in 4..12
  <2>1. PICK s \in Seq(S) : s = front \o where /\ Len(s) \in 4..5
    BY <1>6
  <2>2. PICK m \in Seq(S) : m = e.name /\ Len(m) \in 0..7
    BY <1>4
  <2>3. PICK a \in 4..5, b \in 0..7 : a = Len(s) /\ b = Len(m)
    BY <2>1, <2>2
  <2>4. s \o m \in Seq(S) /\ Len(s \o m) = a + b
    BY <2>3, LengthsAdd
  <2>5. a + b \in 4..12
    OBVIOUS
  <2> QED BY <2>1, <2>2, <2>4, <2>5
<1> HIDE DEF text
<1>8. left \in Seq(S) /\ Len(left) = IF Len(text) < 8 THEN 8 - Len(text) ELSE 0
  <2>1. (IF Len(text) < 8 THEN 8 - Len(text) ELSE 0) \in Nat
    BY <1>7
  <2> QED BY <1>0, <2>1
<1> HIDE DEF left
<1>9. left \o text \in Seq(S) /\ Len(left \o text) \in 8..12
  <2>1. PICK b \in 4..12 : b = Len(text)
    BY <1>7
  <2>2. PICK a \in 0..4 : a = (IF b < 8 THEN 8 - b ELSE 0) /\ a = Len(left)
    <3>1. PICK a : a = (IF b < 8 THEN 8 - b ELSE 0)
      OBVIOUS
    <3>2. a \in 0..4
      BY <3>1
    <3>3. a = Len(left)
      BY <1>8, <2>1, <3>1
    <3> QED BY <3>1, <3>2, <3>3
  <2>3. left \o text \in Seq(S) /\ Len(left \o text) = a + b
    BY <1>7, <1>8, <2>1, <2>2, LengthsAdd
  <2>4. a + b \in 8..12
    BY <2>2
  <2> QED BY <2>3, <2>4
<1>10. PICK s \in Seq(S) : s = left \o text /\ Len(s) \in 8..12
  BY <1>9
<1>11. PICK t \in Seq(S) : t = lock /\ Len(t) \in {0, 5}
  BY <1>3
<1>12. PICK a \in 8..12, b \in {0, 5} : a = Len(s) /\ b = Len(t)
  BY <1>10, <1>11
<1>13. s \o t \in Seq(S) /\ Len(s \o t) = a + b
  BY <1>12, LengthsAdd
<1>14. Text(e) = s \o t
  BY <1>5, <1>10, <1>11
<1>15. a + b \in 8..17
  OBVIOUS
<1> QED BY <1>13, <1>14, <1>15

\* A file's directory and the characters of its name are codes.
LEMMA FileCodes ==
  ASSUME NEW e \in ListedFile
  PROVE  /\ e.dir \in Nat /\ Len(e.name) \in Nat /\ DOMAIN e.name = 1..Len(e.name)
         /\ e.name = [i \in 1..Len(e.name) |-> e.name[i]]
         /\ \A i \in 1..Len(e.name) : e.name[i] \in Nat
         /\ e.name \in Seq(Nat)
<1>1. e.dir \in Nat
  BY DEF ListedFile, DirectoryCode
<1>2. PICK s \in Seq(NameCode) : s = e.name
  BY DEF ListedFile, Name
<1>3. /\ Len(s) \in Nat /\ DOMAIN s = 1..Len(s) /\ s = [i \in 1..Len(s) |-> s[i]]
      /\ \A i \in 1..Len(s) : s[i] \in NameCode
  BY LenProperties, ElementOfSeq
<1>4. NameCode \subseteq Nat
  BY DEF NameCode
<1>5. s \in Seq(Nat)
  <2>1. s \in [1..Len(s) -> Nat]
    BY <1>3, <1>4
  <2> QED BY <1>3, <2>1, SeqDef
<1> QED BY <1>1, <1>2, <1>3, <1>4, <1>5

LEMMA TextWide ==
  ASSUME NEW e \in ListedFile
  PROVE  Text(e) \in Seq(Nat) /\ Len(Text(e)) \in 8..17
<1> QED BY FileCodes, TextLong

\* Where a file that was put out ends.
LEMMA FileEnds ==
  ASSUME NEW e \in ListedFile, NEW at \in PlaceType
  PROVE  LET b == PutOut(at, Text(e))
         IN /\ b \in PlaceType /\ b.current_col = at.current_col /\ b.row >= at.row
            /\ Plain(e) => b.row = at.row /\ b.col = at.col + Len(Text(e))
<1> DEFINE Moves == {Tab, LineEnd, Return}
<1>1. /\ e.dir \in Nat /\ Len(e.name) \in Nat /\ DOMAIN e.name = 1..Len(e.name)
      /\ \A i \in 1..Len(e.name) : e.name[i] \in Nat
      /\ e.name = [i \in 1..Len(e.name) |-> e.name[i]]
  BY FileCodes
<1>2. Text(e) \in Seq(Nat)
  BY TextWide
<1>3. ASSUME Plain(e)
      PROVE  \A n \in 1..Len(Text(e)) : Text(e)[n] \notin Moves
  <2> DEFINE S == Nat \ Moves
  <2>1. 32 \in S /\ 46 \in S /\ 76 \in S
    BY DEF Tab, LineEnd, Return
  <2>2. e.dir # cat_directory => e.dir \in S
    BY <1>1, <1>3 DEF Plain
  <2>3. e.name \in Seq(S)
    <3>1. \A i \in 1..Len(e.name) : e.name[i] \in S
      BY <1>1, <1>3 DEF Plain
    <3>2. Len(e.name) \in Nat /\ e.name = [i \in 1..Len(e.name) |-> e.name[i]]
      BY <1>1
    <3> HIDE DEF S
    <3> QED BY <3>1, <3>2, SeqDef
  <2> HIDE DEF S
  <2>4. Text(e) \in Seq(S)
    BY <2>1, <2>2, <2>3, TextLong
  <2>5. \A n \in 1..Len(Text(e)) : Text(e)[n] \in S
    BY <2>4, ElementOfSeq
  <2> QED BY <2>5 DEF S
<1> QED BY <1>2, <1>3, TextEnds

----------------------------------------------------------------------------
\* What the order says of two files.
LEMMA OrderOfTwo ==
  ASSUME CatInputs, NEW l \in ListedFile, NEW r \in ListedFile, ~CompareEntries(r, l)
  PROVE  /\ l.dir # 0 /\ r.dir # 0 =>
              /\ r.dir = cat_directory => l.dir = cat_directory
              /\ l.dir # cat_directory => Lower(l.dir) <= Lower(r.dir)
         /\ l.dir = r.dir => ~CaseInsensitiveLess(r.name, l.name)
<1>1. /\ l.dir \in DirectoryCode /\ r.dir \in DirectoryCode /\ cat_directory \in DirectoryCode
      /\ \A d \in DirectoryCode : Lower(d) \in Nat /\ (d # 0 => Lower(d) > 0)
  BY DEF ListedFile, DirectoryCode, Lower, CatInputs
<1>2. ~(MapDir(r.dir) < MapDir(l.dir))
      /\ ~(MapDir(r.dir) = MapDir(l.dir) /\ CaseInsensitiveLess(r.name, l.name))
  BY DEF CompareEntries
<1>3. l.dir = r.dir => ~CaseInsensitiveLess(r.name, l.name)
  BY <1>2
<1> HIDE DEF Lower, CaseInsensitiveLess
<1>4. l.dir # 0 /\ r.dir = cat_directory => l.dir = cat_directory
  BY <1>1, <1>2 DEF MapDir
<1>5. l.dir # 0 /\ r.dir # 0 /\ l.dir # cat_directory => Lower(l.dir) <= Lower(r.dir)
  BY <1>1, <1>2, <1>4 DEF MapDir
<1> QED BY <1>3, <1>4, <1>5

LEMMA CatInitHolds == CatInit => CatIInv
<1> SUFFICES ASSUME CatInit PROVE CatIInv
  OBVIOUS
<1> USE DEF CatInit, StartCat
<1>1. CatInputs
  BY DEF CatInputs
<1>2. CatTypes
  <2>1. cells \in Seq([entry : Nat, row : Nat, col : Nat]) /\ Len(cells) = 0
    BY EmptySeq
  <2>2. place \in PlaceType
    BY DEF PlaceType
  <2> QED BY <2>1, <2>2 DEF CatTypes
<1>3. Ordered
  BY <1>1 DEF Ordered, CatInputs
<1>4. CountersAgree
  BY DEF CountersAgree
<1> QED BY <1>1, <1>2, <1>3, <1>4 DEF CatIInv

LEMMA StepSort == ASSUME CatIInv, Sort PROVE CatIInv'
<1> USE DEF CatIInv, Sort
<1>1. CatInputs'
  BY DEF CatInputs, inputs
<1>2. CatTypes'
  BY DEF CatTypes
<1>3. shown = 0 /\ shown' = 0
  BY DEF Ordered
<1>4. Ordered'
  <2> PICK p \in Bijection(Numbered, Numbered) :
        /\ \A i, j \in Numbered :
             i < j => ~CompareEntries(cat_entries[p[j]], cat_entries[p[i]])
        /\ order' = [i \in Numbered |-> p[i]]
    BY DEF Numbered
  <2>1. p \in [Numbered -> Numbered] /\ \A e \in Numbered : \E i \in Numbered : p[i] = e
    BY DEF Bijection, Injection, Surjection
  <2>2. order' = p
    BY <2>1
  <2>3. cat_entries' = cat_entries /\ cat_directory' = cat_directory /\ Numbered' = Numbered
    BY DEF inputs, Numbered
  <2>4. \A i, j \in Numbered : i < j => ~CompareEntries(FileAt(j), FileAt(i))'
    BY <2>2, <2>3 DEF FileAt, CompareEntries, MapDir
  <2> QED BY <1>1, <1>3, <2>1, <2>2, <2>3, <2>4 DEF Ordered, CatInputs
<1>5. CountersAgree'
  <2>1. NoneInDirectory0' = NoneInDirectory0
    BY DEF NoneInDirectory0, inputs
  <2> QED BY <1>3, <2>1 DEF CountersAgree
<1> QED BY <1>1, <1>2, <1>3, <1>4, <1>5

LEMMA StepEndCat == ASSUME CatIInv, EndCat PROVE CatIInv'
<1> USE DEF CatIInv, EndCat
<1>1. CatInputs'
  BY DEF CatInputs, inputs
<1>2. CatTypes'
  BY DEF CatTypes, PlaceType, NextLine
<1>3. /\ cat_entries' = cat_entries /\ cat_directory' = cat_directory /\ order' = order
      /\ cells' = cells /\ shown' = shown /\ ui' = ui /\ screen_width' = screen_width
  BY DEF inputs
<1>4. shown' = Len(cat_entries)
  BY LenProperties DEF Ordered, Numbered, CatInputs
<1>5. Ordered'
  BY <1>3, <1>4 DEF Ordered, FileAt, CompareEntries, MapDir, Numbered
<1>6. CountersAgree'
  BY <1>3 DEF CountersAgree, IsCurrent, Shown, NoneInDirectory0
<1>7. \A k \in 1..shown' : CellInColumn(k)' /\ (Usual' => CellNext(k)')
  BY <1>3 DEF CellInColumn, CellNext, IsCurrent, NewGroup, Shown, Rmargin, SelectOutputColumns,
     NoneInDirectory0, Usual, AllPlain, Plain
<1> QED BY <1>1, <1>2, <1>5, <1>6, <1>7

\* The next column is one of the screen, or a line begins.
LEMMA SomeColumn ==
  ASSUME NEW at \in PlaceType, at.current_col < SelectOutputColumns
  PROVE  LET b == NextColumn(at)
         IN /\ b \in PlaceType /\ b.current_col < SelectOutputColumns /\ b.row >= at.row
            /\ \E c \in 0..3 : c < SelectOutputColumns /\ b.col = Begin(c)
<1> DEFINE c == at.current_col + 1
           d == IF at.col = Begin(c) THEN c + 1 ELSE c
           b == NextColumn(at)
<1>1. /\ at.current_col \in 0..3 /\ at.row \in Nat /\ c \in 1..4 /\ c <= SelectOutputColumns
      /\ SelectOutputColumns \in 1..4
  BY Columns DEF PlaceType
<1>2. b = IF Begin(d) >= Rmargin THEN NextLine(at)
          ELSE AdvanceToColumn([at EXCEPT !.current_col = c], Begin(d))
  BY DEF NextColumn, Begin
<1>3. d \in {c, c + 1}
  OBVIOUS
<1> HIDE DEF b, c, d
<1>4. CASE Begin(d) >= Rmargin
  <2>1. b = [row |-> at.row + 1, col |-> 0, current_col |-> 0]
    BY <1>2, <1>4 DEF NextLine
  <2>2. 0 \in 0..3 /\ 0 < SelectOutputColumns /\ b.col = Begin(0)
    BY <1>1, <2>1, Begins
  <2> QED BY <1>1, <2>1, <2>2 DEF b, PlaceType
<1>5. CASE ~(Begin(d) >= Rmargin)
  <2>1. d < SelectOutputColumns
    <3> SUFFICES ASSUME ~(d < SelectOutputColumns) PROVE FALSE
      OBVIOUS
    <3>1. d = SelectOutputColumns \/ (c = SelectOutputColumns /\ d = c + 1)
      BY <1>1, <1>3
    <3>2. Begin(SelectOutputColumns) \in Nat
          /\ Begin(SelectOutputColumns + 1) = Begin(SelectOutputColumns) + ColWidth
      BY <1>1, Begins
    <3>3. Begin(d) >= Begin(SelectOutputColumns)
      BY <3>1, <3>2, ColWidthAssumption
    <3> QED BY <1>5, <3>3, Columns
  <2>2. d \in 0..3 /\ c \in 0..3 /\ c < SelectOutputColumns
    BY <1>1, <1>3, <2>1
  <2>3. Begin(d) \in Nat
    BY <2>2, Begins
  <2>4. /\ b.col = Begin(d) /\ b.current_col = c /\ b.row >= at.row /\ b.row \in Nat
        /\ b = [row |-> b.row, col |-> b.col, current_col |-> b.current_col]
    <3>1. b = AdvanceToColumn([at EXCEPT !.current_col = c], Begin(d))
      BY <1>2, <1>5
    <3>2. b = [row |-> IF at.col > Begin(d) THEN at.row + 1 ELSE at.row, col |-> Begin(d),
               current_col |-> c]
      BY <3>1 DEF AdvanceToColumn, PlaceType
    <3> QED BY <1>1, <3>2
  <2> QED BY <2>1, <2>2, <2>3, <2>4 DEF b, PlaceType
<1> QED BY <1>4, <1>5

\* Behind a file, the next column begins where the screen has room for it; else a line.
LEMMA NextColumnPlace ==
  ASSUME NEW at \in PlaceType, NEW w \in 8..17,
         at.current_col < SelectOutputColumns, at.col = Begin(at.current_col) + w
  PROVE  LET b == NextColumn(at)
         IN /\ b \in PlaceType /\ b.current_col < SelectOutputColumns
            /\ b.col = Begin(b.current_col)
            /\ \/ b.row = at.row /\ b.col = Begin(at.current_col) + ColWidth
               \/ /\ b.row = at.row + 1 /\ b.col = 0
                  /\ Begin(at.current_col) + ColWidth = Rmargin
<1> DEFINE c == at.current_col + 1
           b == NextColumn(at)
<1>1. /\ at.current_col \in 0..3 /\ at.row \in Nat /\ c \in 1..4 /\ c <= SelectOutputColumns
      /\ SelectOutputColumns \in 1..4
  BY Columns DEF PlaceType
<1>2. /\ Begin(at.current_col) \in Nat /\ Begin(c) = Begin(at.current_col) + ColWidth
      /\ Begin(c) \in Nat /\ at.col < Begin(c)
  <2> DEFINE d == at.current_col
  <2>1. d \in 0..4 /\ c = d + 1
    BY <1>1
  <2> HIDE DEF c, d
  <2>2. Begin(d) \in Nat /\ Begin(c) = Begin(d) + ColWidth
    BY <2>1, Begins
  <2>3. at.col = Begin(d) + w
    BY DEF d
  <2> QED BY <2>2, <2>3, ColWidthAssumption DEF d
<1>3. b = IF Begin(c) >= Rmargin THEN NextLine(at)
          ELSE AdvanceToColumn([at EXCEPT !.current_col = c], Begin(c))
  <2>1. at.col # Begin(c)
    BY <1>2
  <2> QED BY <2>1 DEF NextColumn, Begin
<1> HIDE DEF b, c
<1>4. CASE c = SelectOutputColumns
  <2>1. Begin(c) = Rmargin
    BY <1>4, Columns
  <2>2. b = [row |-> at.row + 1, col |-> 0, current_col |-> 0]
    BY <1>2, <1>3, <2>1 DEF NextLine
  <2> QED BY <1>1, <1>2, <2>1, <2>2, Begins DEF b, PlaceType
<1>5. CASE c < SelectOutputColumns
  <2>1. Begin(c) < Rmargin
    <3>1. c \in 0..4 /\ SelectOutputColumns \in 0..4
      BY <1>1
    <3>2. Begin(c) + ColWidth <= Begin(SelectOutputColumns)
          /\ Begin(SelectOutputColumns) \in Nat
      BY <1>5, <3>1, Begins
    <3> QED BY <1>2, <3>2, Columns, ColWidthAssumption
  <2>2. b = [row |-> at.row, col |-> Begin(c), current_col |-> c]
    <3>1. b = AdvanceToColumn([at EXCEPT !.current_col = c], Begin(c))
      BY <1>2, <1>3, <2>1, Columns, Begins
    <3>2. ~(at.col > Begin(c))
      BY <1>2 DEF PlaceType
    <3> QED BY <3>1, <3>2 DEF AdvanceToColumn, PlaceType
  <2>3. c \in 0..3
    BY <1>1, <1>5
  <2> QED BY <1>1, <1>2, <1>5, <2>2, <2>3 DEF b, PlaceType
<1> QED BY <1>1, <1>4, <1>5

LEMMA StepShowEntry ==
  ASSUME CatIInv, ShowEntry, NEW n, n = shown + 1
  PROVE  CatIInv'
<1> USE DEF CatIInv
<1> DEFINE e == FileAt(n)
           gap == e.dir # cat_directory /\ ~printed_gap
           spaced == IF ~gap THEN place
                     ELSE NextLine(IF place.col > 0 THEN NextLine(place) ELSE place)
           at == IF gap \/ first THEN spaced ELSE NextColumn(spaced)
           cell == [entry |-> order[n], row |-> at.row, col |-> at.col]
<1>1. /\ step = "entries" /\ step' = "entries" /\ shown < Len(order)
      /\ printed_gap' = (printed_gap \/ gap)
      /\ cells' = Append(cells, cell)
      /\ place' = PutOut(at, Text(e))
      /\ first' = FALSE /\ shown' = n
  BY DEF ShowEntry, FileAt
<1>2. /\ cat_entries' = cat_entries /\ cat_directory' = cat_directory /\ order' = order
      /\ ui' = ui /\ screen_width' = screen_width /\ NoneInDirectory0' = NoneInDirectory0
      /\ AllPlain' = AllPlain /\ Usual' = Usual
  BY DEF ShowEntry, inputs, NoneInDirectory0, AllPlain, Plain, Usual
<1>3. CatInputs'
  BY <1>2 DEF CatInputs
<1>4. /\ Numbered = 1..Len(cat_entries) /\ Len(cat_entries) \in Nat
      /\ \A i \in Numbered : cat_entries[i] \in ListedFile
      /\ order \in [Numbered -> Numbered] /\ Len(order) = Len(cat_entries)
      /\ shown \in Nat /\ n \in Numbered /\ n \in Nat /\ Len(cells) = shown
      /\ \A k \in 1..n : k \in Numbered
  <2>1. Numbered = 1..Len(cat_entries) /\ Len(cat_entries) \in Nat
        /\ \A i \in Numbered : cat_entries[i] \in ListedFile
    BY DEF Numbered, CatInputs
  <2>2. order \in [Numbered -> Numbered]
    BY <1>1 DEF Ordered
  <2>3. Len(order) = Len(cat_entries)
    BY <2>1, <2>2, LenProperties
  <2> QED BY <1>1, <2>1, <2>2, <2>3 DEF CatTypes
<1>5. e \in ListedFile /\ \A k \in 1..shown : FileAt(k) \in ListedFile /\ Shown(k) = FileAt(k)
  <2>1. \A k \in Numbered : FileAt(k) \in ListedFile
    BY <1>4 DEF FileAt
  <2>2. \A k \in 1..shown : Shown(k) = FileAt(k)
    BY DEF FileAt, Ordered, Shown
  <2> QED BY <1>4, <2>1, <2>2
<1>6. /\ \A k \in 1..shown : cells'[k] = cells[k]
      /\ cells'[n] = cell /\ Len(cells') = n
  BY <1>1, <1>4, AppendProperties DEF CatTypes
<1>7. /\ \A k \in 1..shown : Shown(k)' = Shown(k)
      /\ Shown(n)' = e
  BY <1>2, <1>6 DEF Shown, FileAt
<1> HIDE DEF e, gap, spaced, at, cell
<1>8. Text(e)' = Text(e) /\ (AllPlain => Plain(e))
  BY <1>2, <1>4 DEF e, FileAt, Text, AllPlain, Numbered
\* All that is not of the current directory comes spaced all that is.
<1>9. NoneInDirectory0 /\ shown > 0 /\ e.dir = cat_directory => IsCurrent(shown)
  <2> SUFFICES ASSUME NoneInDirectory0, shown > 0, e.dir = cat_directory PROVE IsCurrent(shown)
    OBVIOUS
  <2>1. ~CompareEntries(e, FileAt(shown)) /\ FileAt(shown) \in ListedFile
    BY <1>1, <1>4, <1>5 DEF Ordered, e
  <2>2. e.dir # 0 /\ FileAt(shown).dir # 0
    BY <1>4 DEF NoneInDirectory0, FileAt, Numbered, e
  <2> QED BY <1>4, <1>5, <2>1, <2>2, OrderOfTwo DEF IsCurrent
<1>11. NoneInDirectory0 => (gap <=> e.dir # cat_directory /\ (shown = 0 \/ IsCurrent(shown)))
  BY <1>4 DEF gap, CountersAgree
\* Where the file is put, whatever the files before.
<1>12. /\ at \in PlaceType /\ at.current_col < SelectOutputColumns
       /\ \E c \in 0..3 : c < SelectOutputColumns /\ at.col = Begin(c)
       /\ shown = 0 =>
            at = [row |-> IF gap THEN 1 ELSE 0, col |-> 0, current_col |-> 0]
       /\ shown > 0 => at.row >= place.row
  <2>1. place \in PlaceType /\ 0 < SelectOutputColumns /\ Begin(0) = 0 /\ place.row \in Nat
    BY Columns, Begins DEF CatTypes, PlaceType
  <2>2. CASE shown = 0
    <3>1. place = [row |-> 0, col |-> 0, current_col |-> 0] /\ first
      BY <1>1, <2>2 DEF CountersAgree
    <3>2. at = [row |-> IF gap THEN 1 ELSE 0, col |-> 0, current_col |-> 0]
      BY <3>1 DEF at, spaced, NextLine
    <3>3. 0 \in 0..3 /\ 0 < SelectOutputColumns /\ at.col = Begin(0)
      BY <2>1, <3>2
    <3> QED BY <2>1, <2>2, <3>2, <3>3 DEF PlaceType
  <2>3. CASE shown > 0
    <3>1. place.current_col < SelectOutputColumns /\ ~first
      BY <1>1, <2>3 DEF CountersAgree
    <3>2. CASE gap
      <4>1. PICK down \in {1, 2} :
              at = [row |-> place.row + down, col |-> 0, current_col |-> 0]
        <5>1. spaced = NextLine(IF place.col > 0 THEN NextLine(place) ELSE place) /\ at = spaced
          BY <3>2 DEF at, spaced
        <5>2. CASE place.col > 0
          <6>1. at = [row |-> place.row + 1 + 1, col |-> 0, current_col |-> 0]
            BY <5>1, <5>2 DEF NextLine
          <6> QED BY <2>1, <6>1
        <5>3. CASE ~(place.col > 0)
          <6>1. at = [row |-> place.row + 1, col |-> 0, current_col |-> 0]
            BY <5>1, <5>3 DEF NextLine
          <6> QED BY <2>1, <6>1
        <5> QED BY <5>2, <5>3
      <4>2. 0 \in 0..3 /\ 0 < SelectOutputColumns /\ at.col = Begin(0)
        BY <2>1, <4>1
      <4> QED BY <2>1, <2>3, <4>1, <4>2 DEF PlaceType
    <3>3. CASE ~gap
      <4>1. at = NextColumn(place)
        BY <3>1, <3>3 DEF at, spaced
      <4> QED BY <2>1, <2>3, <3>1, <4>1, SomeColumn
    <3> QED BY <3>2, <3>3
  <2> QED BY <1>4, <2>2, <2>3
\* Where it is put behind plain files.
<1>17. AllPlain =>
       /\ at.col = Begin(at.current_col)
       /\ shown > 0 /\ gap => at.col = 0 /\ at.row = cells[shown].row + 2
       /\ shown > 0 /\ ~gap =>
            \/ at.row = cells[shown].row /\ at.col = cells[shown].col + ColWidth
            \/ /\ at.row = cells[shown].row + 1 /\ at.col = 0
               /\ cells[shown].col + ColWidth = Rmargin
  <2> SUFFICES ASSUME AllPlain
               PROVE  /\ at.col = Begin(at.current_col)
                      /\ shown > 0 /\ gap => at.col = 0 /\ at.row = cells[shown].row + 2
                      /\ shown > 0 /\ ~gap =>
                           \/ /\ at.row = cells[shown].row
                              /\ at.col = cells[shown].col + ColWidth
                           \/ /\ at.row = cells[shown].row + 1 /\ at.col = 0
                              /\ cells[shown].col + ColWidth = Rmargin
    OBVIOUS
  <2>1. /\ place \in PlaceType /\ Begin(0) = 0 /\ \A c \in 0..3 : Begin(c) \in Nat
    BY Begins DEF CatTypes
  <2>2. CASE shown = 0
    BY <1>12, <2>1, <2>2
  <2>3. CASE shown > 0
    <3>1. /\ place.current_col < SelectOutputColumns
          /\ cells[shown].col = Begin(place.current_col) /\ cells[shown].row = place.row
          /\ place.col = Begin(place.current_col) + Len(Text(Shown(shown)))
          /\ ~first
      BY <1>1, <2>3 DEF CountersAgree
    <3>2. PICK w \in 8..17 : place.col = Begin(place.current_col) + w
      <4>1. Len(Text(Shown(shown))) \in 8..17
        BY <1>4, <1>5, <2>3, TextWide
      <4> QED BY <3>1, <4>1
    <3>3. place.col > 0 /\ place.row \in Nat
      BY <2>1, <3>2 DEF PlaceType
    <3>4. CASE gap
      <4>1. at = [row |-> place.row + 2, col |-> 0, current_col |-> 0]
        BY <3>3, <3>4 DEF at, spaced, NextLine
      <4> QED BY <2>1, <2>3, <3>1, <3>3, <3>4, <4>1 DEF PlaceType
    <3>5. CASE ~gap
      <4>1. at = NextColumn(place)
        BY <3>1, <3>5 DEF at, spaced
      <4> QED BY <2>1, <2>3, <3>1, <3>2, <3>5, <4>1, NextColumnPlace
    <3> QED BY <3>4, <3>5
  <2> QED BY <1>4, <2>2, <2>3
\* And where it ends.
<1>18. /\ place' \in PlaceType /\ place'.current_col = at.current_col /\ place'.row >= at.row
       /\ AllPlain => place'.row = at.row /\ place'.col = at.col + Len(Text(e))
  BY <1>1, <1>5, <1>8, <1>12, FileEnds
<1>13. CatTypes'
  <2>2. place' \in PlaceType
    BY <1>18
  <2>3. cell \in [entry : Nat, row : Nat, col : Nat]
    BY <1>4, <1>12 DEF cell, PlaceType
  <2>4. cells' \in Seq([entry : Nat, row : Nat, col : Nat])
    BY <1>1, <2>3, AppendProperties DEF CatTypes
  <2>5. printed_gap' \in BOOLEAN
    BY <1>1 DEF CatTypes, gap
  <2> QED BY <1>1, <1>4, <1>6, <2>2, <2>4, <2>5 DEF CatTypes
<1>14. Ordered'
  <2>1. Numbered' = Numbered /\ \A k : FileAt(k)' = FileAt(k)
    BY <1>2 DEF Numbered, FileAt
  <2>2. \A i, j \in Numbered : i < j => ~CompareEntries(FileAt(j), FileAt(i))'
    BY <1>1, <1>2, <2>1 DEF Ordered, CompareEntries, MapDir
  <2>3. \A k \in 1..n : cells'[k].entry = order[k]
    <3>1. \A k \in 1..shown : cells'[k].entry = order[k]
      BY <1>6 DEF Ordered
    <3>2. cells'[n].entry = order[n]
      BY <1>6 DEF cell
    <3> QED BY <1>4, <3>1, <3>2
  <2>4. /\ order' \in [Numbered' -> Numbered']
        /\ \A i \in Numbered' : \E j \in Numbered' : order'[j] = i
    BY <1>1, <1>2, <2>1 DEF Ordered
  <2>5. n <= Len(cat_entries)
    BY <1>4
  <2> QED BY <1>1, <1>2, <2>1, <2>2, <2>3, <2>4, <2>5 DEF Ordered
<1>15. CountersAgree'
  <2>1. NoneInDirectory0 => (printed_gap' <=> ~(IsCurrent(n)'))
    <3> SUFFICES ASSUME NoneInDirectory0 PROVE printed_gap' <=> ~(IsCurrent(n)')
      OBVIOUS
    <3>1. IsCurrent(n)' <=> e.dir = cat_directory
      BY <1>2, <1>7 DEF IsCurrent
    <3>2. printed_gap \in BOOLEAN
      BY DEF CatTypes
    <3>3. CASE e.dir = cat_directory
      <4>1. ~printed_gap
        BY <1>9, <3>3 DEF CountersAgree
      <4> QED BY <1>1, <3>1, <3>3, <4>1 DEF gap
    <3>4. CASE e.dir # cat_directory
      BY <1>1, <3>1, <3>2, <3>4 DEF gap
    <3> QED BY <3>3, <3>4
  <2>3. /\ SelectOutputColumns' = SelectOutputColumns
        /\ Begin(place.current_col)' = Begin(at.current_col)
        /\ Text(Shown(n))' = Text(e)
    BY <1>2, <1>7, <1>18 DEF SelectOutputColumns, Begin, Text
  <2>4. cells'[n].col = at.col /\ cells'[n].row = at.row
    BY <1>6 DEF cell
  <2>5. AllPlain' => /\ cells'[n].col = Begin(place.current_col)' /\ cells'[n].row = place'.row
                     /\ place'.col = Begin(place.current_col)' + Len(Text(Shown(n))')
    BY <1>2, <1>17, <1>18, <2>3, <2>4
  <2>6. place'.current_col < SelectOutputColumns' /\ cells'[n].row <= place'.row
    BY <1>12, <1>18, <2>3, <2>4 DEF PlaceType
  <2> QED BY <1>1, <1>2, <1>4, <2>1, <2>5, <2>6 DEF CountersAgree
<1>16. \A k \in 1..n : CellInColumn(k)' /\ (Usual => CellNext(k)')
  <2>1. SelectOutputColumns' = SelectOutputColumns /\ Rmargin' = Rmargin
    BY <1>2 DEF SelectOutputColumns, Rmargin
  <2>2. \A k \in 1..shown : (IsCurrent(k)' <=> IsCurrent(k))
    BY <1>2, <1>7 DEF IsCurrent
  <2>3. ASSUME NEW k \in 1..shown
        PROVE  CellInColumn(k)' /\ (Usual => CellNext(k)')
    <3>1. k > 1 => k - 1 \in 1..shown
      BY <1>4
    <3>2. NewGroup(k)' <=> NewGroup(k)
      BY <2>2, <3>1 DEF NewGroup
    <3>3. cells'[k] = cells[k] /\ (k > 1 => cells'[k - 1] = cells[k - 1])
      BY <1>6, <3>1
    <3>4. IsCurrent(k)' <=> IsCurrent(k)
      BY <2>2
    <3>5. CellInColumn(k)'
      BY <1>2, <2>1, <3>3 DEF CellInColumn, Begin
    <3>6. ASSUME Usual PROVE CellNext(k)'
      <4>1. CellNext(k)
        BY <3>6
      <4>2. k = 1 => cells'[k].col = 0 /\ cells'[k].row = (IF IsCurrent(k)' THEN 0 ELSE 1)
        BY <3>3, <3>4, <4>1 DEF CellNext
      <4>3. NewGroup(k)' => cells'[k].col = 0 /\ cells'[k].row = cells'[k - 1].row + 2
        BY <3>2, <3>3, <4>1 DEF CellNext, NewGroup
      <4>4. k > 1 /\ ~NewGroup(k)' =>
              \/ /\ cells'[k].row = cells'[k - 1].row
                 /\ cells'[k].col = cells'[k - 1].col + ColWidth
              \/ /\ cells'[k].row = cells'[k - 1].row + 1 /\ cells'[k].col = 0
                 /\ cells'[k - 1].col + ColWidth = Rmargin'
        BY <2>1, <3>2, <3>3, <4>1 DEF CellNext
      <4> QED BY <4>2, <4>3, <4>4 DEF CellNext
    <3> QED BY <3>5, <3>6
  <2>4. n - 1 = shown /\ (n > 1 <=> shown > 0) /\ (shown > 0 => shown \in 1..shown)
    BY <1>4
  <2>5. /\ cells'[n].col = at.col /\ cells'[n].row = at.row
        /\ shown > 0 => cells'[n - 1] = cells[shown]
    BY <1>6, <2>4 DEF cell
  <2>6. CellInColumn(n)'
    <3>1. \E c \in 0..3 : c < SelectOutputColumns' /\ cells'[n].col = c * ColWidth
      BY <1>12, <2>1, <2>5 DEF PlaceType, Begin
    <3>2. shown > 0 => cells[shown].row \in Nat /\ cells[shown].col \in Nat
      <4>1. cells \in Seq([entry : Nat, row : Nat, col : Nat])
        BY DEF CatTypes
      <4> DEFINE Cell == [entry : Nat, row : Nat, col : Nat]
      <4>2. ASSUME shown > 0 PROVE cells[shown] \in Cell
        <5> HIDE DEF Cell, CatIInv
        <5>1. cells \in Seq(Cell)
          BY <4>1 DEF Cell
        <5>2. shown \in 1..Len(cells)
          BY <1>4, <4>2
        <5> QED BY <5>1, <5>2, ElementOfSeq
      <4> QED BY <4>2
    <3>3. shown > 0 => at.row >= cells[shown].row
      <4>1. shown > 0 => cells[shown].row <= place.row /\ at.row >= place.row
        BY <1>1, <1>12 DEF CountersAgree
      <4>2. place.row \in Nat /\ at.row \in Nat
        BY <1>12 DEF CatTypes, PlaceType
      <4> QED BY <3>2, <4>1, <4>2
    <3>4. shown > 0 /\ AllPlain /\ at.row = cells[shown].row => at.col > cells[shown].col
      BY <1>17, <3>2, ColWidthAssumption
    <3> QED BY <1>2, <2>4, <2>5, <3>1, <3>3, <3>4 DEF CellInColumn, Begin
  <2>7. ASSUME Usual PROVE CellNext(n)'
    <3>0. NoneInDirectory0 /\ AllPlain
      BY <2>7 DEF Usual
    <3>1. IsCurrent(n)' <=> e.dir = cat_directory
      BY <1>2, <1>7 DEF IsCurrent
    <3>2. NewGroup(n)' <=> shown > 0 /\ gap
      BY <1>11, <2>2, <2>4, <3>0, <3>1 DEF NewGroup
    <3>3. shown = 0 => (IF IsCurrent(n)' THEN 0 ELSE 1) = (IF gap THEN 1 ELSE 0)
      BY <1>11, <3>0, <3>1
    <3> QED BY <1>4, <1>12, <1>17, <2>1, <2>4, <2>5, <3>0, <3>2, <3>3 DEF CellNext
  <2> QED BY <1>4, <2>3, <2>6, <2>7
<1> QED BY <1>1, <1>2, <1>3, <1>13, <1>14, <1>15, <1>16

LEMMA CatStays == CatIInv /\ UNCHANGED cvars => CatIInv'
<1> SUFFICES ASSUME CatIInv, UNCHANGED cvars PROVE CatIInv'
  OBVIOUS
<1> USE DEF CatIInv, cvars, inputs
<1>1. CatInputs'
  BY DEF CatInputs
<1>2. CatTypes'
  BY DEF CatTypes
<1>3. Ordered'
  BY DEF Ordered, FileAt, CompareEntries, MapDir, Numbered
<1>4. CountersAgree'
  BY DEF CountersAgree, IsCurrent, Shown, SelectOutputColumns, Text, NoneInDirectory0, AllPlain,
     Plain
<1>5. \A k \in 1..shown' : CellInColumn(k)' /\ (Usual' => CellNext(k)')
  BY DEF CellInColumn, CellNext, IsCurrent, NewGroup, Shown, Rmargin, SelectOutputColumns,
     NoneInDirectory0, Usual, AllPlain, Plain
<1> QED BY <1>1, <1>2, <1>3, <1>4, <1>5

LEMMA CatStepHolds == CatIInv /\ [ShowCat]_cvars => CatIInv'
<1> SUFFICES ASSUME CatIInv, ShowCat PROVE CatIInv'
  BY CatStays
<1>1. CASE Sort
  BY <1>1, StepSort
<1>2. CASE ShowEntry
  BY <1>2, StepShowEntry
<1>3. CASE EndCat
  BY <1>3, StepEndCat
<1> QED BY <1>1, <1>2, <1>3 DEF ShowCat

\* What the invariant says of the files that are shown is what cat promises of them.
LEMMA InColumns == CatIInv => CatInColumns
<1> SUFFICES ASSUME CatIInv PROVE CatInColumns
  OBVIOUS
<1> USE DEF CatIInv
<1>1. /\ shown \in Nat /\ Len(cells) = shown /\ DOMAIN cells = 1..shown
      /\ Numbered = 1..Len(cat_entries) /\ Len(cat_entries) \in Nat
      /\ shown <= Len(cat_entries)
      /\ \A k \in 1..shown : k \in Numbered
  BY DEF CatTypes, CatInputs, Ordered, Numbered
<1>2. shown > 0 => step # "sort"
  BY DEF Ordered
<1>3. \A k \in 1..shown : Shown(k) = FileAt(k) /\ FileAt(k) \in ListedFile
  <2>1. ASSUME NEW k \in 1..shown PROVE order[k] \in Numbered /\ cells[k].entry = order[k]
    <3>1. shown > 0 /\ k \in Numbered
      BY <1>1
    <3>2. order \in [Numbered -> Numbered]
      BY <1>2, <3>1 DEF Ordered
    <3> QED BY <3>1, <3>2 DEF Ordered
  <2>2. \A e \in Numbered : cat_entries[e] \in ListedFile
    BY DEF Numbered, CatInputs
  <2> QED BY <2>1, <2>2 DEF Shown, FileAt
<1>4. CatTypeOK
  <2>1. order \in Seq(Numbered)
    <3>1. CASE step = "sort"
      BY <3>1, EmptySeq DEF Ordered
    <3>2. CASE step # "sort"
      <4>1. order \in [1..Len(cat_entries) -> Numbered]
        BY <1>1, <3>2 DEF Ordered
      <4> HIDE DEF CatIInv
      <4> QED BY <1>1, <4>1, SeqDef
    <3> QED BY <3>1, <3>2
  <2> QED BY <1>1, <2>1 DEF CatTypeOK, CatTypes, PlaceType, Numbered
<1>5. step = "shown" =>
        /\ Len(cells) = Len(cat_entries)
        /\ \A e \in DOMAIN cat_entries : \E k \in DOMAIN cells : cells[k].entry = e
  <2> SUFFICES ASSUME step = "shown" PROVE
        /\ shown = Len(cat_entries)
        /\ \A e \in Numbered : \E k \in 1..shown : cells[k].entry = e
    BY <1>1 DEF Numbered
  <2>1. shown = Len(cat_entries)
    BY DEF Ordered
  <2>2. \A e \in Numbered : \E k \in Numbered : order[k] = e
    BY DEF Ordered
  <2>3. \A k \in 1..shown : cells[k].entry = order[k]
    BY DEF Ordered
  <2>4. ASSUME NEW e \in Numbered PROVE \E k \in 1..shown : cells[k].entry = e
    <3> PICK k \in Numbered : order[k] = e
      BY <2>2
    <3>1. k \in 1..shown /\ cells[k].entry = e
      BY <1>1, <2>1, <2>3
    <3> QED BY <3>1
  <2> QED BY <2>1, <2>4
<1>6. ASSUME NEW j \in 1..shown, NEW k \in 1..shown, j < k
      PROVE  /\ NoneInDirectory0 =>
                  /\ IsCurrent(k) => IsCurrent(j)
                  /\ ~IsCurrent(j) => Lower(Shown(j).dir) <= Lower(Shown(k).dir)
             /\ Shown(j).dir = Shown(k).dir => ~CaseInsensitiveLess(Shown(k).name, Shown(j).name)
  <2>1. ~CompareEntries(FileAt(k), FileAt(j))
    BY <1>1, <1>2, <1>6 DEF Ordered
  <2>2. NoneInDirectory0 => Shown(j).dir # 0 /\ Shown(k).dir # 0
    <3>1. step # "sort" /\ j \in Numbered /\ k \in Numbered
      BY <1>1, <1>2
    <3>2. order[j] \in Numbered /\ order[k] \in Numbered
      BY <3>1 DEF Ordered
    <3> QED BY <1>3, <3>2 DEF NoneInDirectory0, FileAt, Numbered
  <2> QED BY <1>3, <2>1, <2>2, OrderOfTwo DEF IsCurrent
<1>7. ASSUME NEW k \in 1..shown
      PROVE  cells[k].col % ColWidth = 0 /\ cells[k].col + ColWidth <= Rmargin
  <2>1. PICK c \in 0..3 : c < SelectOutputColumns /\ cells[k].col = Begin(c)
    BY DEF CellInColumn
  <2>2. Begin(c) % ColWidth = 0
    BY Begins
  <2>3. Begin(c) + ColWidth <= Rmargin
    BY <2>1, Begins, Columns
  <2> QED BY <2>1, <2>2, <2>3
<1>9. ASSUME AllPlain, step = "entries", shown > 0
      PROVE  /\ place.row = cells[shown].row
             /\ place.col \in cells[shown].col + 1..cells[shown].col + ColWidth - 1
  <2>1. /\ cells[shown].col = Begin(place.current_col) /\ cells[shown].row = place.row
        /\ place.col = Begin(place.current_col) + Len(Text(Shown(shown)))
    BY <1>9 DEF CountersAgree
  <2>2. PICK w \in 8..17 : w = Len(Text(Shown(shown)))
    <3>1. shown \in 1..shown
      BY <1>1, <1>9
    <3> QED BY <1>3, <3>1, TextWide
  <2>3. PICK b \in Nat : b = Begin(place.current_col)
    <3>1. place.current_col \in 0..3
      BY DEF CatTypes, PlaceType
    <3>2. \A c \in 0..3 : Begin(c) \in Nat
      BY Begins
    <3> QED BY <3>1, <3>2
  <2>4. place.col = b + w /\ cells[shown].col = b
    BY <2>1, <2>2, <2>3
  <2>5. b + w \in b + 1..b + ColWidth - 1
    BY ColWidthAssumption
  <2> QED BY <2>1, <2>4, <2>5
<1>8. FilesInColumns
  <2>1. \A k \in 1..shown : CellInColumn(k) /\ (AllPlain /\ NoneInDirectory0 => CellNext(k))
    BY DEF Usual
  <2> QED BY <1>1, <1>5, <1>6, <1>7, <1>9, <2>1 DEF FilesInColumns, CellInColumn, CellNext
<1> QED BY <1>4, <1>8 DEF CatInColumns

(* cat shows every file of a catalogue once, each from where a column of the  *)
(* screen begins.  Where no name or directory has a TAB, a line end or a      *)
(* carriage return (AllPlain), the columns do not run into each other.  Where *)
(* no file is in directory 0 (NoneInDirectory0), those of the current         *)
(* directory are first; where both hold, the others come behind one empty     *)
(* line, and line after line is filled.  This is so for every catalogue of    *)
(* each kind and every width of the screen (CommandCat::invoke).              *)
THEOREM ShownInColumns == CatSpec => []CatInColumns
<1>1. CatInit => CatIInv
  BY CatInitHolds
<1>2. CatIInv /\ [ShowCat]_cvars => CatIInv'
  BY CatStepHolds
<1>3. CatIInv => CatInColumns
  BY InColumns
<1> QED BY <1>1, <1>2, <1>3, PTL DEF CatSpec
=============================================================================
