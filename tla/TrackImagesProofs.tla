------------------------- MODULE TrackImagesProofs -------------------------
(***************************************************************************)
(* Proofs about images that hold tracks: the stream of a side of an HFE    *)
(* file's track, for blocks and bytes of any size and for every track; and *)
(* the drives that are made of HFE and HxC files, for any number of tracks *)
(* and sides and whatever sectors are found on the tracks.                 *)
(***************************************************************************)
EXTENDS HfeStream, HfeImage, HxcImage, FiniteSetTheorems, WellFoundedInduction, TLAPS

Bit == ({NoByte} \cup Nat) \X Nat

\* The bytes put out, and behind them the bits that are held back.
Rows == Append(track_stream, out)

Typed ==
  /\ hfe3 \in BOOLEAN /\ raw \in Seq(Byte) /\ side \in {0, 1}
  /\ pc \in {"blocks", "copy_hfe", "done", "invalid"}
  /\ begin \in Nat /\ end \in Nat /\ begin <= end /\ end <= Len(raw) /\ begin_offset \in Nat
  /\ pc = "done" => begin_offset >= Len(raw)
  /\ this_op \in {NoOp} \cup {b \in Byte : IsOpcode(b) /\ b \notin NoArgument}
  /\ got_bits \in Nat /\ out \in Seq(Bit) /\ track_stream \in Seq(Seq(Bit))
  /\ Len(out) = IF got_bits < Bits THEN got_bits ELSE Bits
  /\ \A i \in DOMAIN track_stream : Len(track_stream[i]) = Bits

\* The n-th block of the side begins here.
First(n) == Block * (2 * n + side)

Copying == pc \in {"copy_hfe", "invalid"}

\* The bytes that are copied are those of one block of the side, and the next
\* block is the side's next.
Framed ==
  \E n \in Nat :
    IF Copying
    THEN /\ begin_offset = First(n + 1)
         /\ First(n) <= begin /\ end <= First(n) + Block
         /\ end = First(n) + Block \/ end = Len(raw)
    ELSE begin_offset = First(n) /\ begin <= First(n)

\* The bits of these bytes come in the order of the track, and are of the side.
Sound(bytes, limit) ==
  /\ InOrder(bytes)
  /\ \A i \in DOMAIN bytes : \A b \in DOMAIN bytes[i] :
       IsReal(bytes[i][b]) => bytes[i][b][1] \in Places /\ bytes[i][b][1] < limit

TakesArgument(b) == IsOpcode(b) /\ b \notin NoArgument
Asks(q) == SideByte(Previous(q))

\* The bytes in front of this one were copied.
Passed == IF Copying THEN begin ELSE begin_offset

\* this_op is the instruction of which the next byte is the argument, and no
\* unknown one was passed.
Understood ==
  NoneSplit =>
    /\ Copying /\ begin < end =>
         /\ begin \in Arguments <=> this_op # NoOp
         /\ begin \in Arguments => this_op = Asks(begin)
    /\ \A q \in Arguments : q < Passed => Asks(q) \in Known
    /\ pc = "invalid" => \E q \in Arguments : Asks(q) \notin Known

\* Is kept by every step.
IndInv == Typed /\ Framed /\ Sound(Rows, begin) /\ Understood

----------------------------------------------------------------------------
(* Blocks, and where the bytes of the side are.                             *)

LEMMA DivMod ==
  ASSUME NEW q \in Nat, NEW r \in 0..Block - 1
  PROVE  (Block * q + r) \div Block = q /\ (Block * q + r) % Block = r
BY BlockAssumption

LEMMA Quotient ==
  ASSUME NEW q \in Nat, NEW x \in Nat, Block * q <= x, x < Block * q + Block
  PROVE  x \div Block = q /\ x % Block = x - Block * q
<1> DEFINE r == x - Block * q
<1>1. Block * q \in Nat
  BY BlockAssumption
<1>2. r \in 0..Block - 1 /\ x = Block * q + r
  BY <1>1, BlockAssumption
<1> HIDE DEF r
<1>3. (Block * q + r) \div Block = q /\ (Block * q + r) % Block = r
  BY <1>2, DivMod
<1> QED
  BY <1>2, <1>3 DEF r

LEMMA Firsts ==
  ASSUME side \in {0, 1}, NEW n \in Nat
  PROVE  /\ First(n) \in Nat /\ First(n) + Block <= First(n + 1)
         /\ First(n + 1) = First(n) + Block + Block
<1>1. Block * (2 * (n + 1) + side) = Block * (2 * n + side) + Block + Block
  <2> DEFINE k == 2 * n + side
  <2>1. k \in Nat /\ 2 * (n + 1) + side = k + 1 + 1
    OBVIOUS
  <2> HIDE DEF k
  <2>2. Block * (k + 1 + 1) = Block * k + Block + Block
    BY <2>1, BlockAssumption
  <2> QED
    BY <2>1, <2>2 DEF k
<1>2. Block * (2 * n + side) \in Nat
  <2>1. 2 * n + side \in Nat
    OBVIOUS
  <2> QED
    BY <2>1, BlockAssumption
<1> QED
  BY <1>1, <1>2, BlockAssumption DEF First

LEMMA InBlock ==
  ASSUME side \in {0, 1}, NEW n \in Nat, NEW p \in Nat, First(n) <= p, p < First(n) + Block
  PROVE  /\ (p \div Block) % 2 = side
         /\ p % Block = p - First(n)
<1>1. 2 * n + side \in Nat /\ (2 * n + side) % 2 = side
  OBVIOUS
<1> DEFINE k == 2 * n + side
<1> HIDE DEF k
<1>2. k \in Nat /\ k % 2 = side /\ First(n) = Block * k
  BY <1>1 DEF First, k
<1>3. p \div Block = k /\ p % Block = p - Block * k
  BY <1>2, Quotient
<1> QED
  BY <1>2, <1>3

\* Between two blocks of the side is one of the other.
LEMMA BetweenBlocks ==
  ASSUME side \in {0, 1}, NEW n \in Nat, NEW p \in Nat, First(n) + Block <= p, p < First(n + 1)
  PROVE  p \notin Places
<1>1. 2 * n + side + 1 \in Nat /\ (2 * n + side + 1) % 2 # side /\ 2 * n + side \in Nat
  OBVIOUS
<1> DEFINE k == 2 * n + side
<1> HIDE DEF k
<1>2. k \in Nat /\ k + 1 \in Nat /\ (k + 1) % 2 # side /\ First(n) = Block * k
  BY <1>1 DEF First, k
<1>3. Block * (k + 1) = Block * k + Block
  BY <1>2, BlockAssumption
<1>4. p < Block * (k + 1) + Block
  BY <1>2, <1>3, Firsts
<1>5. p \div Block = k + 1
  BY <1>2, <1>3, <1>4, Quotient
<1> QED
  BY <1>2, <1>5 DEF Places

LEMMA PlacesOf ==
  ASSUME side \in {0, 1}, Len(raw) \in Nat, NEW n \in Nat, NEW p \in Nat,
         First(n) <= p, p < First(n) + Block, p < Len(raw)
  PROVE  /\ p \in Places
         /\ p = First(n) => p % Block = 0
         /\ p # First(n) => p % Block # 0 /\ Previous(p) = p - 1 /\ p - 1 \in Places
<1>1. First(n) \in Nat
  BY Firsts
<1>2. p \in Places /\ p % Block = p - First(n)
  BY InBlock DEF Places
<1>3. CASE p # First(n)
  <2>1. p - 1 \in Nat /\ First(n) <= p - 1 /\ p - 1 < First(n) + Block /\ p - 1 \in 0..Len(raw) - 1
    BY <1>1, <1>3, BlockAssumption
  <2>2. p - 1 \in Places
    BY <2>1, InBlock DEF Places
  <2> QED
    BY <1>1, <1>2, <1>3, <2>2 DEF Previous
<1>4. CASE p = First(n)
  BY <1>1, <1>2, <1>4
<1> QED
  BY <1>3, <1>4

----------------------------------------------------------------------------
(* Arguments: the recursion has a solution.                                 *)

LEMMA NatLeast ==
  ASSUME NEW T, T \subseteq Nat, T # {}
  PROVE  \E x \in T : \A y \in T : x <= y
<1> DEFINE R == {ss \in Nat \X Nat : ss[1] < ss[2]}
<1>1. IsWellFoundedOn(R, Nat)
  BY NatLessThanWellFounded DEF OpToRel
<1> HIDE DEF R
<1>2. PICK x \in T : \A y \in T : ~ (<<y, x>> \in R)
  BY <1>1, WFMin
<1>3. ASSUME NEW y \in T, y < x PROVE <<y, x>> \in R
  BY <1>3 DEF R
<1>4. ASSUME NEW y \in T PROVE x <= y
  <2>1. x \in Nat /\ y \in Nat
    OBVIOUS
  <2>2. ~(y < x)
    BY <1>2, <1>3
  <2> QED
    BY <2>1, <2>2
<1> QED
  BY <1>4

\* Whether the byte at p is an argument, if f says so of those in front of it.
IsArgumentAfter(f, p) ==
  /\ hfe3 /\ Previous(p) \in Places /\ ~f[Previous(p)]
  /\ IsOpcode(SideByte(Previous(p))) /\ SideByte(Previous(p)) \notin NoArgument

LEMMA PreviousIsBefore ==
  ASSUME Len(raw) \in Nat, NEW p \in Places
  PROVE  p \in Nat /\ p < Len(raw) /\ Previous(p) < p
BY BlockAssumption DEF Places, Previous

\* A track of which there were none for the bytes in front of some byte would
\* have a first such byte.
LEMMA ArgumentsExist ==
  ASSUME Len(raw) \in Nat
  PROVE  \E f : f = [p \in Places |-> IsArgumentAfter(f, p)]
<1> DEFINE Below(m) == {p \in Places : p < m}
           Sol(f, m) == f = [p \in Below(m) |-> IsArgumentAfter(f, p)]
           Bad == {m \in 0..Len(raw) : ~\E f : Sol(f, m)}
<1>1. Bad = {}
  <2> SUFFICES ASSUME Bad # {} PROVE FALSE
    OBVIOUS
  <2> HIDE DEF Sol
  <2>1. PICK m \in Bad : \A y \in Bad : m <= y
    <3>1. Bad \subseteq Nat
      OBVIOUS
    <3> HIDE DEF Bad
    <3> QED
      BY <3>1, NatLeast
  <2>2. m \in 0..Len(raw) /\ ~\E f : Sol(f, m)
    OBVIOUS
  <2>3. m # 0
    <3> SUFFICES ASSUME m = 0 PROVE FALSE
      OBVIOUS
    <3>1. Below(0) = {}
      BY PreviousIsBefore
    <3> DEFINE f == [p \in {} |-> FALSE]
    <3>2. Sol(f, 0)
      BY <3>1 DEF Sol
    <3> QED
      BY <3>2, <2>2
  <2>4. m - 1 \in 0..Len(raw) /\ m - 1 \notin Bad
    <3>1. m - 1 \in 0..Len(raw) /\ ~(m <= m - 1)
      BY <2>2, <2>3
    <3> HIDE DEF Bad
    <3> QED
      BY <3>1, <2>1
  <2>5. PICK g : Sol(g, m - 1)
    BY <2>4
  <2> DEFINE f == [p \in Below(m) |-> IF p = m - 1 THEN IsArgumentAfter(g, p) ELSE g[p]]
  <2>6. \A p \in Below(m - 1) : g[p] = IsArgumentAfter(g, p)
    BY <2>5 DEF Sol
  <2>7. ASSUME NEW p \in Below(m) PROVE f[p] = IsArgumentAfter(f, p)
    <3>1. p \in Places /\ p \in Nat /\ p < m /\ Previous(p) < p
      BY PreviousIsBefore
    <3>2. f[p] = IsArgumentAfter(g, p)
      <4>1. CASE p = m - 1
        BY <4>1
      <4>2. CASE p # m - 1
        <5>1. p \in Below(m - 1)
          BY <3>1, <4>2, <2>2
        <5> QED
          BY <5>1, <4>2, <2>6
      <4> QED
        BY <4>1, <4>2
    <3>3. Previous(p) \in Places => f[Previous(p)] = g[Previous(p)]
      <4> SUFFICES ASSUME Previous(p) \in Places PROVE f[Previous(p)] = g[Previous(p)]
        OBVIOUS
      <4>1. Previous(p) \in Nat /\ Previous(p) < m /\ Previous(p) # m - 1
        <5> DEFINE q == Previous(p)
        <5>1. q \in Places /\ q < p
          BY <3>1
        <5> HIDE DEF q
        <5>2. q \in Nat
          BY <5>1, PreviousIsBefore
        <5> QED
          BY <2>2, <3>1, <5>1, <5>2 DEF q
      <4> QED
        BY <4>1
    <3>4. IsArgumentAfter(g, p) = IsArgumentAfter(f, p)
      <4> HIDE DEF f
      <4> QED
        BY <3>3 DEF IsArgumentAfter
    <3> HIDE DEF f
    <3> QED
      BY <3>2, <3>4
  <2>8. Sol(f, m)
    <3>1. f = [p \in Below(m) |-> f[p]]
      OBVIOUS
    <3> HIDE DEF f
    <3>2. [p \in Below(m) |-> f[p]] = [p \in Below(m) |-> IsArgumentAfter(f, p)]
      BY <2>7
    <3> QED
      BY <3>1, <3>2 DEF Sol
  <2> HIDE DEF f
  <2> QED
    BY <2>2, <2>8
<1>2. Below(Len(raw)) = Places
  BY PreviousIsBefore
<1>3. \E f : Sol(f, Len(raw))
  <2> HIDE DEF Sol
  <2>1. Len(raw) \in 0..Len(raw)
    OBVIOUS
  <2>2. Len(raw) \notin Bad
    <3> HIDE DEF Bad
    <3> QED
      BY <1>1
  <2> QED
    BY <2>1, <2>2
<1> QED
  BY <1>2, <1>3

LEMMA ArgumentsAre ==
  ASSUME Len(raw) \in Nat, NEW p \in Places
  PROVE  p \in Arguments <=>
           /\ hfe3 /\ Previous(p) \in Places /\ Previous(p) \notin Arguments
           /\ TakesArgument(SideByte(Previous(p)))
<1> DEFINE IsIt(f) == f = [q \in Places |-> IsArgumentAfter(f, q)]
<1>1. IsArgument = CHOOSE f : IsIt(f)
  BY DEF IsArgument, IsArgumentAfter
<1>2. \E f : IsIt(f)
  BY ArgumentsExist
<1>3. IsIt(IsArgument)
  <2> HIDE DEF IsIt
  <2> QED
    BY <1>1, <1>2
<1>4. \A q \in Places : IsArgument[q] = IsArgumentAfter(IsArgument, q)
  BY <1>3
<1> QED
  BY <1>4 DEF Arguments, IsArgumentAfter, TakesArgument

----------------------------------------------------------------------------
(* The order of the bits.                                                   *)

LEMMA MinOfTwo ==
  ASSUME NEW a \in Int, NEW b \in Int
  PROVE  Min({a, b}) = IF a <= b THEN a ELSE b
BY DEF Min

LEMMA MaxOfTwo ==
  ASSUME NEW a \in Int, NEW b \in Int
  PROVE  Max({a, b}) = IF a >= b THEN a ELSE b
BY DEF Max

LEMMA SoundLater ==
  ASSUME NEW rows, NEW m \in Nat, NEW n \in Nat, m <= n, side \in {0, 1}, Sound(rows, m)
  PROVE  Sound(rows, n)
<1> SUFFICES ASSUME NEW i \in DOMAIN rows, NEW b \in DOMAIN rows[i], IsReal(rows[i][b])
             PROVE  rows[i][b][1] < n
  BY DEF Sound
<1>1. rows[i][b][1] \in Places /\ rows[i][b][1] < m
  BY DEF Sound
<1> QED
  BY <1>1 DEF Places

LEMMA RowsAre ==
  ASSUME NEW ts \in Seq(Seq(Bit)), NEW o \in Seq(Bit)
  PROVE  /\ Len(ts) \in Nat /\ Append(ts, o) \in Seq(Seq(Bit))
         /\ DOMAIN Append(ts, o) = 1..Len(ts) + 1 /\ DOMAIN ts = 1..Len(ts)
         /\ \A i \in 1..Len(ts) : Append(ts, o)[i] = ts[i] /\ DOMAIN ts[i] = 1..Len(ts[i])
         /\ Append(ts, o)[Len(ts) + 1] = o
         /\ DOMAIN o = 1..Len(o) /\ Len(o) \in Nat
<1>1. \A i \in 1..Len(ts) : ts[i] \in Seq(Bit)
  OBVIOUS
<1>2. \A i \in 1..Len(ts) : DOMAIN ts[i] = 1..Len(ts[i])
  BY <1>1
<1> QED
  BY <1>2

\* What is held back may be cut at its front.
LEMMA SoundCut ==
  ASSUME NEW ts \in Seq(Seq(Bit)), NEW o \in Seq(Bit), NEW limit, Sound(Append(ts, o), limit),
         NEW o2 \in Seq(Bit), NEW k \in Nat,
         \A b \in DOMAIN o2 : b + k \in DOMAIN o /\ o2[b] = o[b + k]
  PROVE  Sound(Append(ts, o2), limit)
<1> DEFINE rows == Append(ts, o)
           less == Append(ts, o2)
           n == Len(ts)
<1>1. /\ n \in Nat /\ DOMAIN rows = 1..n + 1 /\ DOMAIN less = 1..n + 1
      /\ \A i \in 1..n : rows[i] = ts[i] /\ less[i] = ts[i]
      /\ rows[n + 1] = o /\ less[n + 1] = o2 /\ DOMAIN o2 = 1..Len(o2) /\ Len(o2) \in Nat
  BY RowsAre
<1> HIDE DEF rows, less, n
<1>2. \A b \in DOMAIN less[n + 1] :
        b \in Nat /\ b + k \in DOMAIN rows[n + 1] /\ less[n + 1][b] = rows[n + 1][b + k]
  BY <1>1
<1>3. ASSUME NEW i \in 1..n + 1, i # n + 1 PROVE less[i] = rows[i]
  <2>1. i \in 1..n
    BY <1>1, <1>3
  <2> QED
    BY <1>1, <2>1
<1>4. Sound(rows, limit)
  BY DEF rows
<1>5. ASSUME NEW i \in 1..n + 1, NEW b \in DOMAIN less[i]
      PROVE  \E e \in DOMAIN rows[i] : /\ less[i][b] = rows[i][e]
                                       /\ i = n + 1 => b \in Nat /\ e = b + k
                                       /\ i # n + 1 => e = b
  <2>1. CASE i = n + 1
    BY <1>2, <2>1
  <2>2. CASE i # n + 1
    BY <1>3, <2>2
  <2> QED
    BY <2>1, <2>2
<1>6. ASSUME NEW i \in 1..n + 1, NEW b \in DOMAIN less[i], IsReal(less[i][b])
      PROVE  less[i][b][1] \in Places /\ less[i][b][1] < limit
  <2>1. PICK e \in DOMAIN rows[i] : less[i][b] = rows[i][e]
    BY <1>5
  <2> QED
    BY <1>1, <1>4, <1>6, <2>1 DEF Sound
<1>7. ASSUME NEW i \in 1..n + 1, NEW j \in 1..n + 1,
             NEW b \in DOMAIN less[i], NEW c \in DOMAIN less[j],
             i < j \/ (i = j /\ b < c), IsReal(less[i][b]), IsReal(less[j][c])
      PROVE  ComesBefore(less[i][b], less[j][c])
  <2>1. PICK e \in DOMAIN rows[i] : /\ less[i][b] = rows[i][e]
                                    /\ i = n + 1 => b \in Nat /\ e = b + k
                                    /\ i # n + 1 => e = b
    BY <1>5
  <2>2. PICK f \in DOMAIN rows[j] : /\ less[j][c] = rows[j][f]
                                    /\ j = n + 1 => c \in Nat /\ f = c + k
                                    /\ j # n + 1 => f = c
    BY <1>5
  <2>3. i < j \/ (i = j /\ e < f)
    <3>1. CASE i = n + 1 /\ j = n + 1
      BY <1>7, <2>1, <2>2, <3>1
    <3>2. CASE ~(i = n + 1 /\ j = n + 1)
      BY <1>7, <2>1, <2>2, <3>2
    <3> QED
      BY <3>1, <3>2
  <2>4. IsReal(rows[i][e]) /\ IsReal(rows[j][f])
    BY <1>7, <2>1, <2>2
  <2>5. ComesBefore(rows[i][e], rows[j][f])
    BY <1>1, <1>4, <2>3, <2>4 DEF Sound, InOrder
  <2> QED
    BY <2>1, <2>2, <2>5
<1>8. Sound(less, limit)
  BY <1>1, <1>6, <1>7 DEF Sound, InOrder
<1> QED
  BY <1>8 DEF less

\* A whole byte is put out, and nothing is held back.
LEMMA SoundPut ==
  ASSUME NEW rows \in Seq(Seq(Bit)), NEW limit, Sound(rows, limit)
  PROVE  Sound(Append(rows, <<>>), limit)
<1> DEFINE more == Append(rows, <<>>)
<1>1. ASSUME NEW i \in DOMAIN more, NEW b \in DOMAIN more[i]
      PROVE  i \in DOMAIN rows /\ more[i] = rows[i]
  <2>1. <<>> \in Seq(Bit)
    OBVIOUS
  <2>2. /\ DOMAIN more = 1..Len(rows) + 1 /\ DOMAIN rows = 1..Len(rows)
        /\ more[Len(rows) + 1] = <<>> /\ Len(rows) \in Nat
        /\ \A j \in 1..Len(rows) : more[j] = rows[j]
    BY <2>1, RowsAre
  <2> HIDE DEF more
  <2>3. i # Len(rows) + 1
    BY <2>2
  <2> QED
    BY <2>2, <2>3
<1> HIDE DEF more
<1>2. Sound(more, limit)
  BY <1>1 DEF Sound, InOrder
<1> QED
  BY <1>2 DEF more

LEMMA SoundWhole ==
  ASSUME NEW ts \in Seq(Seq(Bit)), NEW o \in Seq(Bit), NEW limit, Sound(Append(ts, o), limit)
  PROVE  Sound(ts, limit)
<1> DEFINE rows == Append(ts, o)
<1>1. \A i \in DOMAIN ts : i \in DOMAIN rows /\ rows[i] = ts[i]
  BY RowsAre
<1> HIDE DEF rows
<1>2. Sound(rows, limit)
  BY DEF rows
<1> QED
  BY <1>1, <1>2 DEF Sound, InOrder

\* The bits of the byte at p, in their order, or of no byte.
FromByte(more, p) ==
  /\ \A b \in DOMAIN more : IsReal(more[b]) => more[b][1] = p
  /\ \A b, c \in DOMAIN more :
       b < c /\ IsReal(more[b]) /\ IsReal(more[c]) => more[b][2] < more[c][2]

\* Behind what is held back come the bits of the next byte.
LEMMA SoundExtended ==
  ASSUME side \in {0, 1}, NEW p \in Places, NEW ts \in Seq(Seq(Bit)), NEW o \in Seq(Bit),
         Sound(Append(ts, o), p), NEW more \in Seq(Bit), FromByte(more, p)
  PROVE  Sound(Append(ts, o \o more), p + 1)
<1> DEFINE rows == Append(ts, o)
           both == o \o more
           next == Append(ts, both)
           n == Len(ts)
           IsOld(i, b) == i <= n \/ b <= Len(o)
<1>1. both \in Seq(Bit) /\ Len(both) = Len(o) + Len(more)
  OBVIOUS
<1>2. \A b \in 1..Len(o) : both[b] = o[b]
  OBVIOUS
<1>3. \A b \in 1..Len(more) : both[b + Len(o)] = more[b]
  OBVIOUS
<1> HIDE DEF both
<1>4. /\ n \in Nat /\ DOMAIN rows = 1..n + 1 /\ DOMAIN next = 1..n + 1
      /\ \A i \in 1..n : rows[i] = ts[i] /\ next[i] = ts[i]
      /\ rows[n + 1] = o /\ next[n + 1] = both
      /\ DOMAIN o = 1..Len(o) /\ DOMAIN both = 1..Len(o) + Len(more)
      /\ Len(o) \in Nat /\ Len(more) \in Nat /\ DOMAIN more = 1..Len(more)
  BY <1>1, RowsAre
<1>5. p \in Nat
  BY DEF Places
<1>6. Sound(rows, p)
  OBVIOUS
<1> HIDE DEF rows, next, n
<1>7. ASSUME NEW i \in 1..n + 1, NEW b \in DOMAIN next[i], IsOld(i, b)
      PROVE  b \in DOMAIN rows[i] /\ next[i][b] = rows[i][b]
  <2>1. CASE i = n + 1
    <3>1. b \in 1..Len(o) + Len(more) /\ b <= Len(o)
      BY <1>4, <1>7, <2>1
    <3>2. b \in 1..Len(o)
      BY <1>4, <3>1
    <3> QED
      BY <1>2, <1>4, <2>1, <3>2
  <2>2. CASE i # n + 1
    <3>1. i \in 1..n
      BY <1>4, <2>2
    <3> QED
      BY <1>4, <3>1
  <2> QED
    BY <2>1, <2>2
<1>8. ASSUME NEW i \in 1..n + 1, NEW b \in DOMAIN next[i], ~IsOld(i, b)
      PROVE  /\ i = n + 1 /\ b \in Nat /\ b > Len(o) /\ b - Len(o) \in DOMAIN more
             /\ next[i][b] = more[b - Len(o)]
  <2>1. i = n + 1
    BY <1>4, <1>8
  <2>2. b \in 1..Len(o) + Len(more) /\ b > Len(o)
    BY <1>4, <1>8, <2>1
  <2>3. b - Len(o) \in 1..Len(more) /\ (b - Len(o)) + Len(o) = b
    BY <1>4, <2>2
  <2> QED
    BY <1>3, <1>4, <2>1, <2>2, <2>3
<1>9. ASSUME NEW i \in 1..n + 1, NEW b \in DOMAIN next[i], IsReal(next[i][b])
      PROVE  /\ next[i][b][1] \in Places /\ next[i][b][1] < p + 1
             /\ IsOld(i, b) => next[i][b][1] < p
             /\ ~IsOld(i, b) => next[i][b][1] = p
  <2>1. CASE IsOld(i, b)
    <3>1. next[i][b][1] \in Places /\ next[i][b][1] < p
      BY <1>4, <1>6, <1>7, <1>9, <2>1 DEF Sound
    <3>2. next[i][b][1] \in Nat
      BY <3>1 DEF Places
    <3> QED
      BY <1>5, <2>1, <3>1, <3>2
  <2>2. CASE ~IsOld(i, b)
    <3>1. next[i][b][1] = p
      BY <1>8, <1>9, <2>2 DEF FromByte
    <3> HIDE DEF IsOld
    <3> QED
      BY <1>5, <2>2, <3>1
  <2> QED
    BY <2>1, <2>2
<1>10. ASSUME NEW i \in 1..n + 1, NEW j \in 1..n + 1,
              NEW b \in DOMAIN next[i], NEW c \in DOMAIN next[j],
              i < j \/ (i = j /\ b < c), IsReal(next[i][b]), IsReal(next[j][c])
       PROVE  ComesBefore(next[i][b], next[j][c])
  <2>1. CASE IsOld(i, b) /\ IsOld(j, c)
    <3>1. /\ b \in DOMAIN rows[i] /\ next[i][b] = rows[i][b]
          /\ c \in DOMAIN rows[j] /\ next[j][c] = rows[j][c]
      BY <1>7, <2>1
    <3> QED
      BY <1>4, <1>6, <1>10, <3>1 DEF Sound, InOrder
  <2>2. CASE IsOld(i, b) /\ ~IsOld(j, c)
    <3>1. next[i][b][1] < p /\ next[j][c][1] = p
      BY <1>9, <1>10, <2>2
    <3> QED
      BY <3>1 DEF ComesBefore
  <2>3. CASE ~IsOld(i, b) /\ ~IsOld(j, c)
    <3>1. /\ i = n + 1 /\ j = n + 1 /\ b \in Nat /\ c \in Nat
          /\ b - Len(o) \in DOMAIN more /\ next[i][b] = more[b - Len(o)]
          /\ c - Len(o) \in DOMAIN more /\ next[j][c] = more[c - Len(o)]
      BY <1>8, <2>3
    <3>2. b - Len(o) < c - Len(o)
      BY <1>4, <1>10, <3>1
    <3>3. next[i][b][2] < next[j][c][2]
      BY <1>10, <3>1, <3>2 DEF FromByte
    <3>4. next[i][b][1] = p /\ next[j][c][1] = p
      BY <1>9, <1>10, <2>3
    <3> QED
      BY <3>3, <3>4 DEF ComesBefore
  <2>4. CASE ~IsOld(i, b) /\ IsOld(j, c)
    <3>1. i = n + 1 /\ b \in Nat /\ b > Len(o)
      BY <1>8, <2>4
    <3>2. j = n + 1 /\ b < c
      BY <1>4, <1>10, <3>1
    <3>3. c \in Nat /\ c <= Len(o)
      BY <1>4, <2>4, <3>2
    <3> QED
      BY <1>4, <3>1, <3>2, <3>3
  <2> QED
    BY <2>1, <2>2, <2>3, <2>4
<1>11. Sound(next, p + 1)
  BY <1>4, <1>9, <1>10 DEF Sound, InOrder
<1> QED
  BY <1>11 DEF next, both

----------------------------------------------------------------------------
(* What a step puts out.                                                    *)

LEMMA NewestIs ==
  ASSUME NEW bits \in Seq(Bit)
  PROVE  /\ Newest(bits) \in Seq(Bit)
         /\ Len(Newest(bits)) = IF Len(bits) <= Bits THEN Len(bits) ELSE Bits
         /\ \E k \in Nat : \A b \in DOMAIN Newest(bits) :
              b + k \in DOMAIN bits /\ Newest(bits)[b] = bits[b + k]
<1> DEFINE m == Max({1, Len(bits) - Bits + 1})
<1>1. Len(bits) \in Nat /\ DOMAIN bits = 1..Len(bits)
  OBVIOUS
<1>2. m = IF Len(bits) <= Bits THEN 1 ELSE Len(bits) - Bits + 1
  <2>1. m = IF 1 >= Len(bits) - Bits + 1 THEN 1 ELSE Len(bits) - Bits + 1
    BY <1>1, BitsAssumption, MaxOfTwo
  <2> HIDE DEF m
  <2> QED
    BY <1>1, <2>1, BitsAssumption
<1>3. Newest(bits) = SubSeq(bits, m, Len(bits))
  BY DEF Newest
<1> HIDE DEF m
<1>4. m \in Nat /\ m >= 1 /\ m <= Len(bits) + 1
  BY <1>1, <1>2, BitsAssumption
<1>5. \A i \in m..Len(bits) : bits[i] \in Bit
  <2>1. \A i \in 1..Len(bits) : bits[i] \in Bit
    OBVIOUS
  <2> QED
    BY <1>1, <1>4, <2>1
<1>6. /\ Newest(bits) \in Seq(Bit)
      /\ Len(Newest(bits)) = Len(bits) - m + 1
      /\ \A i \in 1..Len(bits) - m + 1 : Newest(bits)[i] = bits[m + i - 1]
  BY <1>1, <1>3, <1>4, <1>5
<1>7. Len(Newest(bits)) = IF Len(bits) <= Bits THEN Len(bits) ELSE Bits
  BY <1>1, <1>2, <1>6, BitsAssumption
<1>8. \A b \in DOMAIN Newest(bits) :
        b + (m - 1) \in DOMAIN bits /\ Newest(bits)[b] = bits[b + (m - 1)]
  <2> TAKE b \in DOMAIN Newest(bits)
  <2>1. b \in 1..Len(bits) - m + 1
    BY <1>6
  <2>2. b + (m - 1) \in 1..Len(bits) /\ m + b - 1 = b + (m - 1)
    BY <1>1, <1>4, <2>1
  <2> QED
    BY <1>1, <1>6, <2>1, <2>2
<1>9. m - 1 \in Nat
  BY <1>4
<1> QED
  BY <1>6, <1>7, <1>8, <1>9

LEMMA BitsOfByte ==
  ASSUME begin \in Nat, NEW n \in 0..Bits - 1
  PROVE  From(n) \in Seq(Bit) /\ Len(From(n)) \in 1..Bits /\ FromByte(From(n), begin)
<1>1. \A k \in 1..Bits - n : <<begin, n + k - 1>> \in Bit
  BY BitsAssumption DEF Bit
<1>2. Bits - n \in Nat /\ Bits - n \in 1..Bits
  BY BitsAssumption
<1>3. From(n) \in Seq(Bit) /\ Len(From(n)) = Bits - n
  BY <1>1, <1>2 DEF From
<1>4. FromByte(From(n), begin)
  BY <1>2 DEF FromByte, From
<1> QED
  BY <1>2, <1>3, <1>4

LEMMA BitsOfNoByte ==
  Zeros \in Seq(Bit) /\ Len(Zeros) \in 1..Bits /\ FromByte(Zeros, begin)
<1>1. \A k \in 1..Bits : <<NoByte, k - 1>> \in Bit
  BY BitsAssumption DEF Bit
<1>2. Zeros \in Seq(Bit) /\ Len(Zeros) = Bits
  BY <1>1, BitsAssumption DEF Zeros
<1>3. FromByte(Zeros, begin)
  BY DEF FromByte, Zeros, IsReal
<1> QED
  BY <1>2, <1>3, BitsAssumption

\* What is true of the bits, whatever the bytes were.
Kept ==
  /\ got_bits \in Nat /\ out \in Seq(Bit) /\ track_stream \in Seq(Seq(Bit))
  /\ Len(out) = IF got_bits < Bits THEN got_bits ELSE Bits
  /\ \A i \in DOMAIN track_stream : Len(track_stream[i]) = Bits
  /\ Sound(Rows, begin)

LEMMA SameTrack ==
  ASSUME UNCHANGED track
  PROVE  /\ Places' = Places /\ Arguments' = Arguments /\ NoneSplit' = NoneSplit
         /\ \A q : Asks(q)' = Asks(q)
         /\ \A n : First(n)' = First(n)
         /\ \A rows, limit : Sound(rows, limit)' <=> Sound(rows, limit)
BY DEF track, Places, Arguments, IsArgument, NoneSplit, Asks, SideByte, Previous, First, Sound

LEMMA EmitKept ==
  ASSUME Kept, side \in {0, 1}, begin \in Places, NEW bits \in Seq(Bit), Len(bits) \in 1..Bits,
         FromByte(bits, begin), Emit(bits)
  PROVE  Kept'
<1> DEFINE both == out \o bits
<1>1. /\ both \in Seq(Bit) /\ Len(both) = Len(out) + Len(bits)
      /\ Len(bits) \in Nat /\ Len(out) \in Nat /\ begin' = begin + 1
  <2>1. out \in Seq(Bit)
    BY DEF Kept
  <2>2. both \in Seq(Bit) /\ Len(both) = Len(out) + Len(bits)
        /\ Len(bits) \in Nat /\ Len(out) \in Nat
    BY <2>1
  <2>3. begin' = begin + 1
    BY DEF Emit
  <2> HIDE DEF both
  <2> QED
    BY <2>2, <2>3
<1> HIDE DEF both
<1>2. Sound(Append(track_stream, both), begin + 1)
  BY SoundExtended DEF Kept, Rows, both
<1>3. UNCHANGED track
  BY DEF Emit
<1>4. CASE got_bits + Len(bits) = Bits
  <2>1. track_stream' = Append(track_stream, both) /\ out' = <<>> /\ got_bits' = 0
    BY <1>4 DEF Emit, both
  <2>2. Len(both) = Bits
    BY <1>1, <1>4, BitsAssumption DEF Kept
  <2>3. track_stream' \in Seq(Seq(Bit))
    BY <1>1, <2>1 DEF Kept
  <2>4. Rows' = Append(Append(track_stream, both), <<>>)
    BY <2>1 DEF Rows
  <2>5. Sound(Rows', begin')
    BY <1>1, <1>2, <2>1, <2>3, <2>4, SoundPut
  <2>6. \A i \in DOMAIN track_stream' : Len(track_stream'[i]) = Bits
    <3>1. /\ DOMAIN track_stream' = 1..Len(track_stream) + 1 /\ Len(track_stream) \in Nat
          /\ DOMAIN track_stream = 1..Len(track_stream)
          /\ \A i \in 1..Len(track_stream) : track_stream'[i] = track_stream[i]
          /\ track_stream'[Len(track_stream) + 1] = both
      BY <1>1, <2>1, RowsAre DEF Kept
    <3> TAKE i \in DOMAIN track_stream'
    <3>2. i \in 1..Len(track_stream) \/ i = Len(track_stream) + 1
      BY <3>1
    <3> QED
      BY <2>2, <3>1, <3>2 DEF Kept
  <2>7. Sound(Rows, begin)'
    BY <1>3, <2>5, SameTrack
  <2>8. out' \in Seq(Bit) /\ Len(out') = 0
    BY <2>1
  <2>9. got_bits' \in Nat /\ Len(out') = IF got_bits' < Bits THEN got_bits' ELSE Bits
    BY <2>1, <2>8, BitsAssumption
  <2> QED
    BY <2>3, <2>6, <2>7, <2>8, <2>9 DEF Kept
<1>5. CASE got_bits + Len(bits) # Bits
  <2>1. out' = Newest(both) /\ got_bits' = got_bits + Len(bits) /\ track_stream' = track_stream
    BY <1>5 DEF Emit, both
  <2>2. /\ out' \in Seq(Bit)
        /\ Len(out') = IF Len(both) <= Bits THEN Len(both) ELSE Bits
    BY <1>1, <2>1, NewestIs
  <2>3. Len(out') = IF got_bits' < Bits THEN got_bits' ELSE Bits
    BY <1>1, <1>5, <2>1, <2>2, BitsAssumption DEF Kept
  <2>4. PICK k \in Nat : \A b \in DOMAIN out' : b + k \in DOMAIN both /\ out'[b] = both[b + k]
    BY <1>1, <2>1, NewestIs
  <2>5. Sound(Append(track_stream, out'), begin + 1)
    BY <1>1, <1>2, <2>2, <2>4, SoundCut DEF Kept
  <2>6. Sound(Rows', begin')
    BY <1>1, <2>1, <2>5 DEF Rows
  <2>7. Sound(Rows, begin)'
    BY <1>3, <2>6, SameTrack
  <2>8. got_bits' \in Nat
    BY <1>1, <2>1 DEF Kept
  <2> QED
    BY <2>1, <2>2, <2>3, <2>7, <2>8 DEF Kept
<1> QED
  BY <1>4, <1>5

\* Nothing is put out.
LEMMA NothingKept ==
  ASSUME Kept, side \in {0, 1}, begin \in Nat, begin' \in Nat, begin <= begin',
         UNCHANGED <<track, got_bits, out, track_stream>>
  PROVE  Kept'
<1>1. Sound(Rows, begin')
  BY SoundLater DEF Kept
<1>2. Rows' = Rows
  BY DEF Rows
<1>3. Sound(Rows', begin')
  BY <1>1, <1>2
<1>4. Sound(Rows, begin)'
  BY <1>3, SameTrack
<1> QED
  BY <1>4 DEF Kept

----------------------------------------------------------------------------
(* The steps.                                                               *)

LEMMA RawTyped ==
  ASSUME Typed
  PROVE  /\ Len(raw) \in Nat /\ DOMAIN raw = 1..Len(raw)
         /\ \A p \in 0..Len(raw) - 1 : SideByte(p) \in Byte
<1>1. \A i \in 1..Len(raw) : raw[i] \in Byte
  BY DEF Typed
<1> QED
  BY <1>1 DEF Typed, SideByte

LEMMA Reading ==
  ASSUME Typed, Framed, Copying, begin < end
  PROVE  /\ begin \in Places /\ In = SideByte(begin) /\ In \in Byte
         /\ begin + 1 < end => Previous(begin + 1) = begin /\ begin + 1 \in Places
<1>1. begin \in Nat /\ end \in Nat /\ end <= Len(raw) /\ side \in {0, 1}
  BY DEF Typed
<1>2. PICK n \in Nat : First(n) <= begin /\ end <= First(n) + Block
  BY DEF Framed
<1>3. First(n) \in Nat /\ Len(raw) \in Nat
  BY <1>1, Firsts, RawTyped
<1>4. begin \in Places
  BY <1>1, <1>2, <1>3, PlacesOf, BlockAssumption
<1>5. ASSUME begin + 1 < end PROVE Previous(begin + 1) = begin /\ begin + 1 \in Places
  <2> DEFINE p == begin + 1
  <2>1. p \in Nat /\ First(n) <= p /\ p < First(n) + Block /\ p < Len(raw) /\ p # First(n)
        /\ p - 1 = begin
    BY <1>1, <1>2, <1>3, <1>5, BlockAssumption
  <2> HIDE DEF p
  <2>2. Previous(p) = p - 1 /\ p \in Places
    BY <1>1, <1>3, <2>1, PlacesOf
  <2> QED
    BY <2>1, <2>2 DEF p
<1>6. In \in Byte
  <2>1. begin \in 0..Len(raw) - 1
    BY <1>1, <1>3
  <2> QED
    BY <2>1, RawTyped DEF In, SideByte
<1> QED
  BY <1>4, <1>5, <1>6 DEF In, SideByte

LEMMA FramedOn ==
  ASSUME Typed, Framed, begin < end, begin' = begin + 1, UNCHANGED <<track, begin_offset, end>>,
         Copying, Copying'
  PROVE  Framed'
<1>1. PICK n \in Nat : /\ begin_offset = First(n + 1)
                       /\ First(n) <= begin /\ end <= First(n) + Block
                       /\ end = First(n) + Block \/ end = Len(raw)
  BY DEF Framed
<1>2. First(n) \in Nat /\ begin \in Nat
  BY Firsts DEF Typed
<1>3. First(n)' = First(n) /\ First(n + 1)' = First(n + 1) /\ raw' = raw
  BY SameTrack DEF track
<1>4. First(n) <= begin'
  BY <1>1, <1>2
<1> QED
  BY <1>1, <1>3, <1>4 DEF Framed

\* A byte is passed that is the known argument of this_op, or else an
\* instruction or data.
LEMMA UnderstoodOn ==
  ASSUME Typed, Framed, Understood, pc = "copy_hfe", begin < end, begin' = begin + 1,
         UNCHANGED <<track, end, pc>>,
         this_op # NoOp => this_op \in Known /\ this_op' = NoOp,
         this_op = NoOp => this_op' = IF hfe3 /\ TakesArgument(In) THEN In ELSE NoOp
  PROVE  Understood'
<1> SUFFICES ASSUME NoneSplit
             PROVE  /\ begin' < end' =>
                         /\ begin' \in Arguments <=> this_op' # NoOp
                         /\ begin' \in Arguments => this_op' = Asks(begin')
                    /\ \A q \in Arguments : q < begin' => Asks(q) \in Known
  <2>1. /\ Arguments' = Arguments /\ NoneSplit' = NoneSplit /\ \A q : Asks(q)' = Asks(q)
        /\ pc' = "copy_hfe" /\ Passed' = begin'
    BY SameTrack DEF Passed, Copying
  <2>2. NoneSplit' => NoneSplit
    BY <2>1
  <2>3. (begin' < end') => (Asks(begin))' = Asks(begin')
    BY DEF Asks, SideByte, Previous, track
  <2> QED
    BY <2>1, <2>2, <2>3 DEF Understood
<1>1. /\ begin \in Places /\ In = SideByte(begin) /\ In \in Byte
      /\ begin + 1 < end => Previous(begin + 1) = begin /\ begin + 1 \in Places
  BY Reading DEF Copying
<1>2. /\ begin \in Arguments <=> this_op # NoOp
      /\ begin \in Arguments => this_op = Asks(begin)
      /\ \A q \in Arguments : q < begin => Asks(q) \in Known
  BY DEF Understood, Copying, Passed
<1>3. begin \in Nat /\ Arguments \subseteq Nat
  BY DEF Typed, Arguments, Places
<1>4. ASSUME NEW q \in Arguments, q < begin' PROVE Asks(q) \in Known
  <2>1. q < begin \/ q = begin
    BY <1>3, <1>4
  <2> QED
    BY <1>2, <2>1
<1>5. ASSUME begin' < end'
      PROVE  /\ begin' \in Arguments <=> this_op' # NoOp
             /\ begin' \in Arguments => this_op' = Asks(begin')
  <2>1. Previous(begin + 1) = begin /\ begin + 1 \in Places
    BY <1>1, <1>5
  <2>2. begin + 1 \in Arguments <=> hfe3 /\ begin \notin Arguments /\ TakesArgument(In)
    BY <1>1, <2>1, ArgumentsAre, RawTyped
  <2>3. Asks(begin + 1) = In
    BY <1>1, <2>1 DEF Asks
  <2>4. TakesArgument(In) => In # NoOp
    BY <1>1 DEF TakesArgument, IsOpcode, NoOp, Byte
  <2>5. CASE this_op = NoOp
    BY <1>2, <2>2, <2>3, <2>4, <2>5
  <2>6. CASE this_op # NoOp
    BY <1>2, <2>2, <2>6
  <2> QED
    BY <2>5, <2>6
<1> QED
  BY <1>4, <1>5

LEMMA KeptIs ==
  ASSUME IndInv
  PROVE  Kept
BY DEF IndInv, Typed, Kept

\* A byte is copied.
LEMMA MovesOn ==
  ASSUME IndInv, pc = "copy_hfe", begin < end, Kept', begin' = begin + 1,
         UNCHANGED <<track, begin_offset, end, pc>>,
         this_op # NoOp => this_op \in Known /\ this_op' = NoOp,
         this_op = NoOp => this_op' = IF hfe3 /\ TakesArgument(In) THEN In ELSE NoOp
  PROVE  IndInv'
<1>1. Typed /\ Framed /\ Understood /\ Copying /\ Copying'
  BY DEF IndInv, Copying
<1>2. Framed'
  BY <1>1, FramedOn
<1>3. Understood'
  BY <1>1, UnderstoodOn
<1>4. this_op' \in {NoOp} \cup {b \in Byte : IsOpcode(b) /\ b \notin NoArgument}
  <2>1. In \in Byte
    BY <1>1, Reading
  <2> QED
    BY <2>1 DEF TakesArgument
<1>5. begin' \in Nat /\ begin' <= end' /\ end' \in Nat /\ end' <= Len(raw') /\ begin_offset' \in Nat
  BY <1>1 DEF Typed, track
<1>6. Typed'
  BY <1>1, <1>4, <1>5 DEF Typed, Kept, track
<1> QED
  BY <1>2, <1>3, <1>6 DEF IndInv, Kept

LEMMA ConsumeStep ==
  ASSUME IndInv, pc = "copy_hfe", begin < end, NEW op, Consume(op),
         this_op # NoOp => this_op \in Known /\ op = NoOp,
         this_op = NoOp => op = IF hfe3 /\ TakesArgument(In) THEN In ELSE NoOp
  PROVE  IndInv'
<1>1. /\ begin' = begin + 1 /\ this_op' = op
      /\ UNCHANGED <<track, begin_offset, end, pc>>
      /\ UNCHANGED <<track, got_bits, out, track_stream>>
  BY DEF Consume
<1>2. begin \in Nat /\ begin' \in Nat /\ begin <= begin' /\ side \in {0, 1}
  BY <1>1 DEF IndInv, Typed
<1>3. Kept'
  BY <1>1, <1>2, KeptIs, NothingKept
<1> QED
  BY <1>1, <1>3, MovesOn

LEMMA EmitStep ==
  ASSUME IndInv, pc = "copy_hfe", begin < end,
         NEW bits \in Seq(Bit), Len(bits) \in 1..Bits, FromByte(bits, begin), Emit(bits),
         this_op # NoOp => this_op \in Known,
         this_op = NoOp => ~(hfe3 /\ TakesArgument(In))
  PROVE  IndInv'
<1>1. /\ begin' = begin + 1 /\ this_op' = NoOp
      /\ UNCHANGED <<track, begin_offset, end, pc>>
  BY DEF Emit
<1>2. Typed /\ Framed /\ Copying /\ side \in {0, 1}
  BY DEF IndInv, Typed, Copying
<1>3. begin \in Places
  BY <1>2, Reading
<1>4. Kept'
  BY <1>2, <1>3, KeptIs, EmitKept
<1> QED
  BY <1>1, <1>4, MovesOn

\* A byte that is there.
LEMMA AtByte ==
  ASSUME IndInv, Reads
  PROVE  pc = "copy_hfe" /\ begin < end /\ begin \in Nat /\ In \in Byte
<1>1. pc = "copy_hfe" /\ begin < end /\ begin \in Nat
  BY DEF IndInv, Typed, Reads
<1> QED
  BY <1>1, Reading DEF IndInv, Copying

LEMMA StepByte ==
  ASSUME IndInv, SetBitRate \/ SkipBits \/ Rand \/ Opcode \/ Data
  PROVE  IndInv'
<1> USE DEF Argument
<1>1. CASE SetBitRate
  <2>1. Consume(NoOp) /\ this_op = SETBITRATE /\ this_op # NoOp /\ Reads
    BY <1>1 DEF SetBitRate
  <2> QED
    BY <2>1, AtByte, ConsumeStep DEF Known
<1>2. CASE SkipBits
  <2>1. this_op = SKIPBITS /\ this_op # NoOp /\ Reads /\ this_op \in Known
    BY <1>2 DEF SkipBits, Known
  <2>2. CASE In >= Bits
    <3>1. Consume(NoOp)
      BY <1>2, <2>2 DEF SkipBits
    <3> QED
      BY <2>1, <3>1, AtByte, ConsumeStep
  <2>3. CASE ~(In >= Bits)
    <3>1. Emit(From(In))
      BY <1>2, <2>3 DEF SkipBits
    <3>2. In \in 0..Bits - 1 /\ begin \in Nat
      BY <2>1, <2>3, AtByte, BitsAssumption DEF Byte
    <3>3. From(In) \in Seq(Bit) /\ Len(From(In)) \in 1..Bits /\ FromByte(From(In), begin)
      BY <3>2, BitsOfByte
    <3> QED
      BY <2>1, <3>1, <3>3, AtByte, EmitStep
  <2> QED
    BY <2>2, <2>3
<1>3. CASE Rand
  <2>1. this_op = RAND /\ this_op # NoOp /\ Reads /\ this_op \in Known /\ Emit(Zeros)
    BY <1>3 DEF Rand, Known
  <2> QED
    BY <2>1, AtByte, BitsOfNoByte, EmitStep
<1>4. CASE Opcode
  <2>1. Reads /\ this_op = NoOp /\ hfe3 /\ IsOpcode(In)
        /\ Consume(IF In \in NoArgument THEN NoOp ELSE In)
    BY <1>4 DEF Opcode
  <2>2. (IF In \in NoArgument THEN NoOp ELSE In) = IF hfe3 /\ TakesArgument(In) THEN In ELSE NoOp
    BY <2>1 DEF TakesArgument
  <2> QED
    BY <2>1, <2>2, AtByte, ConsumeStep
<1>5. CASE Data
  <2>1. Reads /\ this_op = NoOp /\ ~(hfe3 /\ IsOpcode(In)) /\ Emit(From(0))
    BY <1>5 DEF Data
  <2>2. 0 \in 0..Bits - 1 /\ begin \in Nat
    BY <2>1, AtByte, BitsAssumption
  <2>3. From(0) \in Seq(Bit) /\ Len(From(0)) \in 1..Bits /\ FromByte(From(0), begin)
    BY <2>2, BitsOfByte
  <2>4. ~(hfe3 /\ TakesArgument(In))
    BY <2>1 DEF TakesArgument
  <2> QED
    BY <2>1, <2>3, <2>4, AtByte, EmitStep
<1> QED
  BY <1>1, <1>2, <1>3, <1>4, <1>5

LEMMA StepInvalid ==
  ASSUME IndInv, InvalidOpcode
  PROVE  IndInv'
<1>1. Reads /\ this_op # NoOp /\ this_op \notin Known /\ pc' = "invalid"
      /\ UNCHANGED <<track, begin_offset, begin, end, this_op, got_bits, out, track_stream>>
  BY DEF InvalidOpcode, Argument
<1>2. pc = "copy_hfe" /\ begin < end /\ begin \in Nat
  BY <1>1, AtByte
<1>3. Kept'
  BY <1>1, <1>2, KeptIs, NothingKept DEF IndInv, Typed
<1>4. Typed'
  BY <1>1 DEF IndInv, Typed, track
<1>5. Framed'
  BY <1>1, <1>2, SameTrack DEF IndInv, Framed, Copying, track
<1>6. Understood'
  <2>1. /\ NoneSplit' = NoneSplit /\ Arguments' = Arguments /\ \A q : Asks(q)' = Asks(q)
        /\ begin' = begin /\ end' = end /\ this_op' = this_op
    BY <1>1, SameTrack
  <2>2. Passed' = begin /\ Passed = begin /\ Copying
    BY <1>1, <1>2 DEF Passed, Copying
  <2>3. Asks(begin)' = Asks(begin)
    BY <1>1 DEF Asks, SideByte, Previous, track
  <2> SUFFICES ASSUME NoneSplit
               PROVE  /\ begin \in Arguments <=> this_op # NoOp
                      /\ begin \in Arguments => this_op = Asks(begin)
                      /\ \A q \in Arguments : q < begin => Asks(q) \in Known
                      /\ \E q \in Arguments : Asks(q) \notin Known
    BY <1>1, <2>1, <2>2, <2>3 DEF Understood
  <2>4. /\ begin \in Arguments <=> this_op # NoOp
        /\ begin \in Arguments => this_op = Asks(begin)
        /\ \A q \in Arguments : q < begin => Asks(q) \in Known
    BY <1>2, <2>2 DEF IndInv, Understood
  <2> QED
    BY <1>1, <2>4
<1> QED
  BY <1>3, <1>4, <1>5, <1>6 DEF IndInv, Kept

LEMMA StepStartBlock ==
  ASSUME IndInv, StartBlock
  PROVE  IndInv'
<1>1. /\ pc = "blocks" /\ begin_offset < Len(raw)
      /\ begin' = begin_offset /\ end' = Min({begin_offset + Block, Len(raw)})
      /\ begin_offset' = begin_offset + 2 * Block
      /\ this_op' = NoOp /\ got_bits' = 0 /\ out' = <<>>
      /\ pc' = "copy_hfe" /\ UNCHANGED track /\ track_stream' = track_stream
  BY DEF StartBlock
<1>2. Len(raw) \in Nat /\ side \in {0, 1} /\ begin_offset \in Nat /\ begin \in Nat
  BY RawTyped DEF IndInv, Typed
<1>3. end' = IF begin_offset + Block <= Len(raw) THEN begin_offset + Block ELSE Len(raw)
  BY <1>1, <1>2, MinOfTwo, BlockAssumption
<1>4. PICK n \in Nat : begin_offset = First(n) /\ begin <= First(n)
  BY <1>1 DEF IndInv, Framed, Copying
<1>5. First(n) \in Nat /\ First(n + 1) = First(n) + Block + Block
  BY <1>2, Firsts
<1>6. Typed'
  <2>1. begin' \in Nat /\ end' \in Nat /\ begin' <= end' /\ end' <= Len(raw')
        /\ begin_offset' \in Nat
    BY <1>1, <1>2, <1>3, BlockAssumption DEF track
  <2>2. out' \in Seq(Bit) /\ Len(out') = 0
    BY <1>1
  <2>3. Len(out') = IF got_bits' < Bits THEN got_bits' ELSE Bits
    BY <1>1, <2>2, BitsAssumption
  <2> QED
    BY <1>1, <2>1, <2>2, <2>3 DEF IndInv, Typed, track
<1>7. Framed'
  <2>1. First(n)' = First(n) /\ First(n + 1)' = First(n + 1) /\ raw' = raw /\ Copying'
    BY <1>1, SameTrack DEF track, Copying
  <2>2. begin_offset' = First(n + 1) /\ First(n) <= begin' /\ end' <= First(n) + Block
        /\ (end' = First(n) + Block \/ end' = Len(raw))
    BY <1>1, <1>2, <1>3, <1>4, <1>5, BlockAssumption
  <2> QED
    BY <2>1, <2>2 DEF Framed
<1>8. Sound(Rows, begin)'
  <2>1. Sound(Rows, begin_offset)
    BY <1>2, <1>4, SoundLater DEF IndInv
  <2>2. out \in Seq(Bit) /\ track_stream \in Seq(Seq(Bit)) /\ <<>> \in Seq(Bit)
    BY DEF IndInv, Typed
  <2>3. \A b \in DOMAIN <<>> : b + 0 \in DOMAIN out /\ <<>>[b] = out[b + 0]
    OBVIOUS
  <2>4. Sound(Append(track_stream, <<>>), begin_offset)
    BY <2>1, <2>2, <2>3, SoundCut DEF Rows
  <2>5. Sound(Rows', begin')
    BY <1>1, <2>4 DEF Rows
  <2> QED
    BY <1>1, <2>5, SameTrack
<1>9. Understood'
  <2>1. /\ NoneSplit' = NoneSplit /\ Arguments' = Arguments /\ \A q : Asks(q)' = Asks(q)
    BY <1>1, SameTrack
  <2>2. Passed' = begin_offset /\ Passed = begin_offset
    BY <1>1 DEF Passed, Copying
  <2> SUFFICES ASSUME NoneSplit
               PROVE  /\ begin_offset \notin Arguments
                      /\ \A q \in Arguments : q < begin_offset => Asks(q) \in Known
    BY <1>1, <2>1, <2>2 DEF Understood
  <2>3. begin_offset % Block = 0
    BY <1>1, <1>2, <1>4, PlacesOf, BlockAssumption
  <2>4. begin_offset \notin Arguments
    BY <2>3 DEF NoneSplit
  <2> QED
    BY <2>2, <2>4 DEF IndInv, Understood
<1> QED
  BY <1>6, <1>7, <1>8, <1>9 DEF IndInv

LEMMA StepEndBlock ==
  ASSUME IndInv, EndBlock
  PROVE  IndInv'
<1>1. /\ pc = "copy_hfe" /\ begin = end /\ pc' = "blocks"
      /\ UNCHANGED <<track, begin_offset, begin, end, this_op, got_bits, out, track_stream>>
  BY DEF EndBlock
<1>2. begin \in Nat /\ Len(raw) \in Nat /\ side \in {0, 1}
  BY RawTyped DEF IndInv, Typed
<1>3. PICK n \in Nat : /\ begin_offset = First(n + 1)
                       /\ First(n) <= begin /\ end <= First(n) + Block
                       /\ end = First(n) + Block \/ end = Len(raw)
  BY <1>1 DEF IndInv, Framed, Copying
<1>4. First(n) \in Nat /\ First(n) + Block <= First(n + 1) /\ First(n + 1) \in Nat /\ n + 1 \in Nat
  <2>1. n + 1 \in Nat
    OBVIOUS
  <2>2. First(n) \in Nat /\ First(n) + Block <= First(n + 1)
    BY <1>2, Firsts
  <2>3. First(n + 1) \in Nat
    BY <1>2, <2>1, Firsts
  <2> QED
    BY <2>1, <2>2, <2>3
<1>5. Kept'
  BY <1>1, <1>2, KeptIs, NothingKept
<1>6. Typed'
  BY <1>1 DEF IndInv, Typed, track
<1>7. Framed'
  <2>1. First(n + 1)' = First(n + 1) /\ ~Copying' /\ begin' = begin /\ begin_offset' = begin_offset
    BY <1>1, SameTrack DEF Copying
  <2>2. begin <= First(n + 1)
    BY <1>1, <1>2, <1>3, <1>4, BlockAssumption
  <2> QED
    BY <1>3, <1>4, <2>1, <2>2 DEF Framed
<1>8. Understood'
  <2>1. /\ NoneSplit' = NoneSplit /\ Arguments' = Arguments /\ \A q : Asks(q)' = Asks(q)
    BY <1>1, SameTrack
  <2>2. Passed' = begin_offset /\ Passed = begin /\ ~Copying'
    BY <1>1 DEF Passed, Copying
  <2> SUFFICES ASSUME NoneSplit, NEW q \in Arguments, q < begin_offset PROVE Asks(q) \in Known
    BY <1>1, <2>1, <2>2 DEF Understood
  <2>3. q \in Places /\ q \in Nat /\ q < Len(raw)
    BY <1>2, PreviousIsBefore DEF Arguments
  <2>4. CASE q < begin
    BY <2>2, <2>4 DEF IndInv, Understood
  <2>5. CASE ~(q < begin)
    <3>1. First(n) + Block <= q /\ q < First(n + 1)
      BY <1>1, <1>2, <1>3, <1>4, <2>3, <2>5
    <3> QED
      BY <1>2, <2>3, <3>1, BetweenBlocks
  <2> QED
    BY <2>4, <2>5
<1> QED
  BY <1>5, <1>6, <1>7, <1>8 DEF IndInv, Kept

\* The end of the track, and a step that changes nothing.
LEMMA StepIdle ==
  ASSUME IndInv, EndTrack \/ UNCHANGED vars
  PROVE  IndInv'
<1>1. UNCHANGED <<track, begin_offset, begin, end, this_op, got_bits, out, track_stream>>
      /\ (pc' = pc \/ (pc = "blocks" /\ pc' = "done" /\ begin_offset >= Len(raw)))
  BY DEF EndTrack, vars, track
<1>2. begin \in Nat /\ side \in {0, 1}
  BY DEF IndInv, Typed
<1>3. Kept'
  BY <1>1, <1>2, KeptIs, NothingKept
<1>4. Typed'
  BY <1>1 DEF IndInv, Typed, track
<1>5. Copying' = Copying /\ Passed' = Passed
  BY <1>1 DEF Copying, Passed
<1>6. Framed'
  BY <1>1, <1>5, SameTrack DEF IndInv, Framed, track
<1>7. Understood'
  <2>1. /\ NoneSplit' = NoneSplit /\ Arguments' = Arguments /\ \A q : Asks(q)' = Asks(q)
    BY <1>1, SameTrack
  <2>2. Asks(begin)' = Asks(begin)
    BY <1>1 DEF Asks, SideByte, Previous, track
  <2> QED
    BY <1>1, <1>5, <2>1, <2>2 DEF IndInv, Understood
<1> QED
  BY <1>3, <1>4, <1>6, <1>7 DEF IndInv, Kept

LEMMA InitHolds == Init => IndInv
<1> SUFFICES ASSUME Init PROVE IndInv
  OBVIOUS
<1>1. /\ hfe3 \in BOOLEAN /\ raw \in Seq(Byte) /\ side \in {0, 1}
      /\ begin_offset = Block * side /\ begin = 0 /\ end = 0
      /\ this_op = NoOp /\ got_bits = 0 /\ out = <<>>
      /\ track_stream = <<>> /\ pc = "blocks"
  BY DEF Init, Start
<1>2. begin_offset = First(0) /\ First(0) \in Nat
  BY <1>1, BlockAssumption DEF First
<1>3. Typed
  BY <1>1, <1>2, BitsAssumption DEF Typed
<1>4. Framed
  BY <1>1, <1>2 DEF Framed, Copying
<1>5. Rows = <<<<>>>>
  BY <1>1 DEF Rows
<1>6. Sound(Rows, begin)
  BY <1>5 DEF Sound, InOrder
<1>7. Understood
  <2>1. \A q \in Arguments : ~(q < begin_offset)
    <3> TAKE q \in Arguments
    <3>1. q \in Places /\ q \in Nat
      BY <1>1, PreviousIsBefore DEF Arguments
    <3>2. CASE side = 0
      BY <1>1, <3>1, <3>2, BlockAssumption
    <3>3. CASE side = 1
      <4> SUFFICES ASSUME q < Block PROVE FALSE
        BY <1>1, <3>3, BlockAssumption
      <4>1. q \div Block = 0
        BY <3>1, Quotient, BlockAssumption
      <4> QED
        BY <3>1, <3>3, <4>1 DEF Places
    <3> QED
      BY <1>1, <3>2, <3>3
  <2> QED
    BY <1>1, <2>1 DEF Understood, Copying, Passed
<1> QED
  BY <1>3, <1>4, <1>6, <1>7 DEF IndInv

LEMMA NextHolds == IndInv /\ [Next]_vars => IndInv'
BY StepByte, StepInvalid, StepStartBlock, StepEndBlock, StepIdle DEF Next

LEMMA Invariance == Spec => []IndInv
BY InitHolds, NextHolds, PTL DEF Spec

(* Whatever bytes a track has, in version 3 with its instructions and in the *)
(* others: what copy_hfe puts out of a side is in order, once and of that    *)
(* side; what it holds back is at most a byte; and the track is refused      *)
(* exactly if it has an instruction nobody knows.                            *)
THEOREM StreamOrdered == Spec => []StreamInOrder
<1>1. ASSUME IndInv PROVE StreamInOrder
  <2>1. Typed /\ Framed /\ Sound(Rows, begin) /\ Understood
    BY <1>1 DEF IndInv
  <2>2. TypeOK
    BY <2>1, BitsAssumption DEF Typed, TypeOK
  <2>3. Sound(track_stream, begin)
    BY <2>1, SoundWhole DEF Typed, Rows
  <2>4. BitsInOrder
    BY <2>3 DEF Sound, BitsInOrder
  <2>5. RefusedIfUnknown
    <3>1. ASSUME NoneSplit, pc = "invalid" PROVE \E q \in Arguments : Asks(q) \notin Known
      BY <2>1, <3>1 DEF Understood
    <3>2. ASSUME NoneSplit, pc = "done", NEW q \in Arguments PROVE Asks(q) \in Known
      <4>1. q \in Nat /\ q < Len(raw) /\ Len(raw) \in Nat
        BY <2>1, RawTyped, PreviousIsBefore DEF Arguments
      <4>2. Passed = begin_offset /\ begin_offset >= Len(raw) /\ begin_offset \in Nat
        BY <2>1, <3>2 DEF Passed, Copying, Typed
      <4>3. q < Passed
        BY <4>1, <4>2
      <4> QED
        BY <2>1, <3>2, <4>3 DEF Understood
    <3> QED
      BY <3>1, <3>2 DEF RefusedIfUnknown, Asks
  <2> QED
    BY <2>2, <2>4, <2>5 DEF StreamInOrder
<1> QED
  BY <1>1, Invariance, PTL

----------------------------------------------------------------------------
(* Sides that are put out whole.                                            *)

\* The bytes in front of n that stand for bits; and those up to p, of which p is the last.
Spoken(n) == {q \in Speaking : q < n}
UpTo(p) == {q \in Speaking : q <= p}

\* What was passed is put out, each byte at its rank, and nothing is held back.
Whole ==
  NoneSplit /\ NoneSkipped =>
    /\ got_bits = 0
    /\ Len(track_stream) = Cardinality(Spoken(Passed))
    /\ \A p \in Spoken(Passed) : track_stream[Cardinality(UpTo(p))] = Meaning(p)

WholeInv == IndInv /\ Whole

LEMMA SpokenFinite ==
  ASSUME Len(raw) \in Nat
  PROVE  /\ Speaking \subseteq 0..Len(raw) - 1
         /\ \A n : IsFiniteSet(Spoken(n)) /\ Cardinality(Spoken(n)) \in Nat
         /\ \A p : IsFiniteSet(UpTo(p)) /\ Cardinality(UpTo(p)) \in Nat
<1>1. Speaking \subseteq Places /\ Places \subseteq 0..Len(raw) - 1
  BY DEF Speaking, DataBytes, Arguments, Places
<1>2. IsFiniteSet(0..Len(raw) - 1)
  BY FS_Interval
<1>3. ASSUME NEW T \in SUBSET (0..Len(raw) - 1) PROVE IsFiniteSet(T) /\ Cardinality(T) \in Nat
  <2>1. IsFiniteSet(T)
    BY <1>2, FS_Subset
  <2> QED
    BY <2>1, FS_CardinalityType
<1>4. \A n : Spoken(n) \in SUBSET (0..Len(raw) - 1)
  BY <1>1 DEF Spoken
<1>5. \A p : UpTo(p) \in SUBSET (0..Len(raw) - 1)
  BY <1>1 DEF UpTo
<1>6. \A n : IsFiniteSet(Spoken(n)) /\ Cardinality(Spoken(n)) \in Nat
  BY <1>3, <1>4
<1>7. \A p : IsFiniteSet(UpTo(p)) /\ Cardinality(UpTo(p)) \in Nat
  BY <1>3, <1>5
<1> QED
  BY <1>1, <1>6, <1>7

\* A byte that was passed has its rank among those that were.
LEMMA RankIs ==
  ASSUME Len(raw) \in Nat, NEW n \in Nat, NEW p \in Spoken(n)
  PROVE  Cardinality(UpTo(p)) \in 1..Cardinality(Spoken(n))
<1>1. p \in Nat /\ p < n /\ p \in Speaking /\ Speaking \subseteq Nat
  BY SpokenFinite DEF Spoken
<1>2. UpTo(p) \in SUBSET Spoken(n)
  <2>1. \A q \in Speaking : q <= p => q < n
    BY <1>1
  <2>2. UpTo(p) = {q \in Speaking : q <= p} /\ Spoken(n) = {q \in Speaking : q < n}
    BY DEF UpTo, Spoken
  <2> QED
    BY <2>1, <2>2
<1>3. Cardinality(UpTo(p)) <= Cardinality(Spoken(n))
  BY <1>2, SpokenFinite, FS_Subset
<1>4. UpTo(p) # {}
  BY <1>1 DEF UpTo
<1>5. Cardinality(UpTo(p)) # 0
  BY <1>4, SpokenFinite, FS_EmptySet
<1>6. Cardinality(UpTo(p)) \in Nat /\ Cardinality(Spoken(n)) \in Nat
  BY SpokenFinite
<1> QED
  BY <1>3, <1>5, <1>6

LEMMA SpokenOn ==
  ASSUME Len(raw) \in Nat, NEW n \in Nat
  PROVE  /\ n \notin Speaking => Spoken(n + 1) = Spoken(n)
         /\ n \in Speaking =>
              /\ Spoken(n + 1) = Spoken(n) \cup {n} /\ Spoken(n + 1) = UpTo(n)
              /\ Cardinality(Spoken(n + 1)) = Cardinality(Spoken(n)) + 1
<1>1. Speaking \subseteq Nat
  BY SpokenFinite
<1>2. \A q \in Speaking : (q < n + 1 <=> q < n \/ q = n) /\ (q < n + 1 <=> q <= n)
  BY <1>1
<1>3. n \notin Speaking => Spoken(n + 1) = Spoken(n)
  BY <1>2 DEF Spoken
<1>4. ASSUME n \in Speaking
      PROVE  /\ Spoken(n + 1) = Spoken(n) \cup {n} /\ Spoken(n + 1) = UpTo(n)
             /\ Cardinality(Spoken(n + 1)) = Cardinality(Spoken(n)) + 1
  <2>1. Spoken(n + 1) = Spoken(n) \cup {n}
    BY <1>2, <1>4 DEF Spoken
  <2>2. Spoken(n + 1) = UpTo(n)
    BY <1>2 DEF Spoken, UpTo
  <2>3. n \notin Spoken(n)
    BY DEF Spoken
  <2>4. Cardinality(Spoken(n) \cup {n}) = Cardinality(Spoken(n)) + 1
    BY <2>3, SpokenFinite, FS_AddElement
  <2> QED
    BY <2>1, <2>2, <2>4
<1> QED
  BY <1>3, <1>4

LEMMA SameMeaning ==
  ASSUME UNCHANGED track
  PROVE  /\ Speaking' = Speaking /\ NoneSkipped' = NoneSkipped /\ NoneSplit' = NoneSplit
         /\ \A n : Spoken(n)' = Spoken(n)
         /\ \A p : UpTo(p)' = UpTo(p)
         /\ \A p : Meaning(p)' = Meaning(p)
<1>1. /\ Places' = Places /\ Arguments' = Arguments /\ NoneSplit' = NoneSplit
  BY SameTrack
<1>2. Instructions' = Instructions
  BY <1>1 DEF Instructions, SideByte, track
<1>3. DataBytes' = DataBytes
  BY <1>1, <1>2 DEF DataBytes
<1>4. Speaking' = Speaking
  BY <1>1, <1>3 DEF Speaking, SideByte, Previous, track
<1>5. NoneSkipped' = NoneSkipped
  BY <1>1 DEF NoneSkipped, SideByte, Previous, track
<1>6. \A p : Meaning(p)' = Meaning(p)
  BY <1>3 DEF Meaning, BitsOf, Zeros
<1>7. \A n : Spoken(n)' = Spoken(n)
  BY <1>4 DEF Spoken
<1>8. \A p : UpTo(p)' = UpTo(p)
  BY <1>4 DEF UpTo
<1> QED
  BY <1>1, <1>4, <1>5, <1>6, <1>7, <1>8

\* What the byte means that is read next.
LEMMA NextByteMeans ==
  ASSUME IndInv, Reads, NoneSplit, NoneSkipped
  PROVE  /\ begin \in Places
         /\ this_op # SKIPBITS
         /\ this_op = RAND => begin \in Speaking /\ Meaning(begin) = Zeros
         /\ this_op # NoOp /\ this_op # RAND => begin \notin Speaking
         /\ this_op = NoOp /\ hfe3 /\ IsOpcode(In) => begin \notin Speaking
         /\ this_op = NoOp /\ ~(hfe3 /\ IsOpcode(In)) =>
              begin \in Speaking /\ Meaning(begin) = BitsOf(begin)
<1>1. /\ begin \in Places /\ In = SideByte(begin) /\ Copying /\ begin < end
  BY AtByte, Reading DEF IndInv, Copying
<1>2. /\ begin \in Arguments <=> this_op # NoOp
      /\ begin \in Arguments => this_op = SideByte(Previous(begin))
  BY <1>1 DEF IndInv, Understood, Asks
<1>3. NoOp # SKIPBITS /\ NoOp # RAND
  BY DEF NoOp, SKIPBITS, RAND
<1>4. this_op # SKIPBITS
  BY <1>2, <1>3 DEF NoneSkipped
<1>5. begin \in Arguments => begin \notin DataBytes
  BY DEF DataBytes
<1>6. this_op = RAND => begin \in Speaking /\ Meaning(begin) = Zeros
  BY <1>2, <1>3, <1>5 DEF Speaking, Meaning
<1>7. this_op # NoOp /\ this_op # RAND => begin \notin Speaking
  BY <1>2, <1>5 DEF Speaking
<1>8. this_op = NoOp => (begin \in Instructions <=> hfe3 /\ IsOpcode(In))
  BY <1>1, <1>2 DEF Instructions
<1>9. this_op = NoOp => (begin \in DataBytes <=> ~(hfe3 /\ IsOpcode(In)))
  BY <1>1, <1>2, <1>8 DEF DataBytes
<1>10. this_op = NoOp => (begin \in Speaking <=> begin \in DataBytes)
  BY <1>2 DEF Speaking
<1> QED
  BY <1>1, <1>4, <1>6, <1>7, <1>9, <1>10 DEF Meaning

LEMMA SilentWhole ==
  ASSUME WholeInv, Reads, NEW op, Consume(op), NoneSplit /\ NoneSkipped => begin \notin Speaking
  PROVE  Whole'
<1>1. /\ begin' = begin + 1 /\ UNCHANGED track /\ pc' = pc
      /\ got_bits' = got_bits /\ track_stream' = track_stream
  BY DEF Consume
<1>2. Len(raw) \in Nat /\ begin \in Nat /\ Passed = begin /\ Passed' = begin + 1
  BY <1>1, AtByte, RawTyped DEF WholeInv, IndInv, Passed, Copying
<1> SUFFICES ASSUME NoneSplit, NoneSkipped
             PROVE  /\ got_bits = 0
                    /\ Len(track_stream) = Cardinality(Spoken(begin + 1))
                    /\ \A p \in Spoken(begin + 1) : track_stream[Cardinality(UpTo(p))] = Meaning(p)
  BY <1>1, <1>2, SameMeaning DEF Whole
<1>3. Spoken(begin + 1) = Spoken(begin)
  BY <1>2, SpokenOn
<1> QED
  BY <1>2, <1>3 DEF WholeInv, Whole

LEMMA SpeaksWhole ==
  ASSUME WholeInv, Reads, NEW bits \in Seq(Bit), Len(bits) = Bits, Emit(bits),
         NoneSplit /\ NoneSkipped => begin \in Speaking /\ Meaning(begin) = bits
  PROVE  Whole'
<1>1. /\ begin' = begin + 1 /\ UNCHANGED track /\ pc' = pc
      /\ got_bits = 0 => track_stream' = Append(track_stream, out \o bits) /\ got_bits' = 0
  BY BitsAssumption DEF Emit
<1>2. Len(raw) \in Nat /\ begin \in Nat /\ Passed = begin /\ Passed' = begin + 1
  BY <1>1, AtByte, RawTyped DEF WholeInv, IndInv, Passed, Copying
<1> SUFFICES ASSUME NoneSplit, NoneSkipped
             PROVE  /\ got_bits' = 0
                    /\ Len(track_stream') = Cardinality(Spoken(begin + 1))
                    /\ \A p \in Spoken(begin + 1) :
                         track_stream'[Cardinality(UpTo(p))] = Meaning(p)
  BY <1>1, <1>2, SameMeaning DEF Whole
<1>3. /\ got_bits = 0 /\ Len(track_stream) = Cardinality(Spoken(begin))
      /\ \A p \in Spoken(begin) : track_stream[Cardinality(UpTo(p))] = Meaning(p)
  BY <1>2 DEF WholeInv, Whole
<1>4. out = <<>> /\ track_stream \in Seq(Seq(Bit))
  <2>1. out \in Seq(Bit) /\ Len(out) = 0 /\ track_stream \in Seq(Seq(Bit))
    BY <1>3, BitsAssumption DEF WholeInv, IndInv, Typed
  <2> QED
    BY <2>1
<1>5. track_stream' = Append(track_stream, bits) /\ got_bits' = 0
  BY <1>1, <1>3, <1>4
<1>6. /\ Len(track_stream) \in Nat /\ Len(track_stream') = Len(track_stream) + 1
      /\ \A i \in 1..Len(track_stream) : track_stream'[i] = track_stream[i]
      /\ track_stream'[Len(track_stream) + 1] = bits
  BY <1>4, <1>5
<1>7. /\ Spoken(begin + 1) = Spoken(begin) \cup {begin} /\ Spoken(begin + 1) = UpTo(begin)
      /\ Cardinality(Spoken(begin + 1)) = Cardinality(Spoken(begin)) + 1
  BY <1>2, SpokenOn
<1>8. ASSUME NEW p \in Spoken(begin + 1)
      PROVE  track_stream'[Cardinality(UpTo(p))] = Meaning(p)
  <2>1. CASE p \in Spoken(begin)
    <3>1. Cardinality(UpTo(p)) \in 1..Len(track_stream)
      BY <1>2, <1>3, <2>1, RankIs
    <3> QED
      BY <1>3, <1>6, <2>1, <3>1
  <2>2. CASE p = begin
    BY <1>3, <1>6, <1>7, <2>2
  <2> QED
    BY <1>7, <2>1, <2>2
<1> QED
  BY <1>3, <1>5, <1>6, <1>7, <1>8

LEMMA WholeByte ==
  ASSUME WholeInv, SetBitRate \/ SkipBits \/ Rand \/ Opcode \/ Data
  PROVE  Whole'
<1> USE DEF Argument
<1>1. IndInv
  BY DEF WholeInv
<1>2. CASE SetBitRate
  <2>1. Consume(NoOp) /\ this_op # NoOp /\ this_op # RAND /\ Reads
    BY <1>2 DEF SetBitRate, SETBITRATE, RAND
  <2> QED
    BY <1>1, <2>1, NextByteMeans, SilentWhole
<1>3. CASE SkipBits
  <2>1. Reads /\ this_op = SKIPBITS
    BY <1>3 DEF SkipBits
  <2>2. ~(NoneSplit /\ NoneSkipped)
    BY <1>1, <2>1, NextByteMeans
  <2>3. UNCHANGED track
    BY <1>3 DEF SkipBits, Consume, Emit
  <2> QED
    BY <2>2, <2>3, SameMeaning DEF Whole
<1>4. CASE Rand
  <2>1. Reads /\ this_op = RAND /\ Emit(Zeros)
    BY <1>4 DEF Rand
  <2>2. Zeros \in Seq(Bit) /\ Len(Zeros) = Bits
    <3>1. Zeros \in Seq(Bit)
      BY BitsOfNoByte
    <3> QED
      BY <3>1, BitsAssumption DEF Zeros
  <2> QED
    BY <1>1, <2>1, <2>2, NextByteMeans, SpeaksWhole
<1>5. CASE Opcode
  <2>1. Reads /\ this_op = NoOp /\ hfe3 /\ IsOpcode(In)
        /\ Consume(IF In \in NoArgument THEN NoOp ELSE In)
    BY <1>5 DEF Opcode
  <2> QED
    BY <1>1, <2>1, NextByteMeans, SilentWhole
<1>6. CASE Data
  <2>1. Reads /\ this_op = NoOp /\ ~(hfe3 /\ IsOpcode(In)) /\ Emit(From(0))
    BY <1>6 DEF Data
  <2>2. 0 \in 0..Bits - 1 /\ begin \in Nat
    BY <1>1, <2>1, AtByte, BitsAssumption
  <2>3. From(0) = BitsOf(begin)
    <3>1. Bits - 0 = Bits /\ \A k \in 1..Bits : 0 + k - 1 = k - 1
      BY BitsAssumption
    <3> QED
      BY <3>1 DEF From, BitsOf
  <2>4. From(0) \in Seq(Bit)
    BY <2>2, BitsOfByte
  <2>5. Len(From(0)) = Bits
    BY <2>3, <2>4, BitsAssumption DEF BitsOf
  <2> QED
    BY <1>1, <2>1, <2>3, <2>4, <2>5, NextByteMeans, SpeaksWhole
<1> QED
  BY <1>2, <1>3, <1>4, <1>5, <1>6

\* What is passed between two blocks is not the side's.
LEMMA WholeEndBlock ==
  ASSUME WholeInv, EndBlock
  PROVE  Whole'
<1>1. /\ pc = "copy_hfe" /\ begin = end /\ pc' = "blocks"
      /\ UNCHANGED <<track, begin_offset, got_bits, track_stream>>
  BY DEF EndBlock
<1>2. begin \in Nat /\ end \in Nat /\ Len(raw) \in Nat /\ side \in {0, 1} /\ begin_offset \in Nat
  BY RawTyped DEF WholeInv, IndInv, Typed
<1>3. PICK n \in Nat : /\ begin_offset = First(n + 1)
                       /\ First(n) <= begin /\ end <= First(n) + Block
                       /\ end = First(n) + Block \/ end = Len(raw)
  BY <1>1 DEF WholeInv, IndInv, Framed, Copying
<1>4. First(n) \in Nat /\ First(n) + Block <= First(n + 1)
  BY <1>2, Firsts
<1>5. Passed = begin /\ Passed' = begin_offset
  BY <1>1 DEF Passed, Copying
<1>6. Speaking \subseteq Places /\ Speaking \subseteq 0..Len(raw) - 1
  BY <1>2, SpokenFinite DEF Speaking, DataBytes, Arguments
<1>7. ASSUME NEW q \in Speaking PROVE q < begin_offset <=> q < begin
  <2>1. q \in Places /\ q \in Nat /\ q < Len(raw)
    BY <1>2, <1>6
  <2>2. begin <= begin_offset
    BY <1>1, <1>2, <1>3, <1>4, BlockAssumption
  <2>3. ~(First(n) + Block <= q /\ q < First(n + 1))
    BY <1>2, <2>1, BetweenBlocks
  <2> QED
    BY <1>1, <1>2, <1>3, <1>4, <2>1, <2>2, <2>3, BlockAssumption
<1>8. Spoken(begin_offset) = Spoken(begin)
  BY <1>7 DEF Spoken
<1> QED
  BY <1>1, <1>5, <1>8, SameMeaning DEF WholeInv, Whole

LEMMA WholeStartBlock ==
  ASSUME WholeInv, StartBlock
  PROVE  Whole'
<1>1. /\ pc = "blocks" /\ begin' = begin_offset /\ pc' = "copy_hfe" /\ got_bits' = 0
      /\ UNCHANGED <<track, track_stream>>
  BY DEF StartBlock
<1>2. Passed = begin_offset /\ Passed' = begin_offset
  BY <1>1 DEF Passed, Copying
<1> QED
  BY <1>1, <1>2, SameMeaning DEF WholeInv, Whole

LEMMA WholeIdle ==
  ASSUME WholeInv, InvalidOpcode \/ EndTrack \/ UNCHANGED vars
  PROVE  Whole'
<1>1. /\ UNCHANGED <<track, begin_offset, begin, got_bits, track_stream>>
      /\ Copying' = Copying
  BY DEF InvalidOpcode, Argument, Reads, EndTrack, vars, track, Copying
<1>2. Passed' = Passed
  BY <1>1 DEF Passed
<1> QED
  BY <1>1, <1>2, SameMeaning DEF WholeInv, Whole

LEMMA WholeInit == Init => WholeInv
<1> SUFFICES ASSUME Init PROVE WholeInv
  OBVIOUS
<1>1. IndInv
  BY InitHolds
<1>2. /\ pc = "blocks" /\ got_bits = 0 /\ track_stream = <<>> /\ begin_offset = Block * side
      /\ side \in {0, 1}
  BY DEF Init, Start
<1>3. Len(raw) \in Nat
  BY <1>1, RawTyped DEF IndInv
<1>4. Passed = begin_offset
  BY <1>2 DEF Passed, Copying
<1>5. Spoken(begin_offset) = {}
  <2> SUFFICES ASSUME NEW q \in Speaking, q < begin_offset PROVE FALSE
    BY DEF Spoken
  <2>1. q \in Places /\ q \in Nat
    BY <1>3, SpokenFinite DEF Speaking, DataBytes, Arguments
  <2>2. CASE side = 0
    BY <1>2, <2>1, <2>2, BlockAssumption
  <2>3. CASE side = 1
    <3>1. q < Block
      BY <1>2, <2>3, BlockAssumption
    <3>2. q \div Block = 0
      BY <2>1, <3>1, Quotient, BlockAssumption
    <3> QED
      BY <2>1, <2>3, <3>2 DEF Places
  <2> QED
    BY <1>2, <2>2, <2>3
<1>6. Len(track_stream) = Cardinality(Spoken(begin_offset))
  BY <1>2, <1>5, FS_EmptySet
<1> QED
  BY <1>1, <1>2, <1>4, <1>5, <1>6 DEF WholeInv, Whole

LEMMA WholeNext == WholeInv /\ [Next]_vars => WholeInv'
<1> SUFFICES ASSUME WholeInv, [Next]_vars PROVE WholeInv'
  OBVIOUS
<1>1. IndInv'
  BY NextHolds DEF WholeInv
<1>2. Whole'
  BY WholeByte, WholeEndBlock, WholeStartBlock, WholeIdle DEF Next
<1> QED
  BY <1>1, <1>2 DEF WholeInv

(* A side in which nothing is skipped and no block ends within an instruction *)
(* is put out whole: as many bytes as stand for bits, each at its rank, with  *)
(* its own bits, or zeros where these are weak (copy_hfe and the loop over    *)
(* the blocks in read_all_sectors).                                           *)
THEOREM StreamWhole == Spec => []StreamIsWhole
<1>1. Spec => []WholeInv
  BY WholeInit, WholeNext, PTL DEF Spec
<1>2. ASSUME WholeInv PROVE StreamIsWhole
  <2> SUFFICES ASSUME pc = "done", NoneSkipped, NoneSplit
               PROVE  /\ Len(track_stream) = Cardinality(Speaking)
                      /\ \A p \in Speaking :
                           track_stream[Cardinality({q \in Speaking : q <= p})] = Meaning(p)
    BY DEF StreamIsWhole
  <2>1. Passed = begin_offset /\ begin_offset >= Len(raw) /\ begin_offset \in Nat
        /\ Len(raw) \in Nat
    BY <1>2, RawTyped DEF WholeInv, IndInv, Typed, Passed, Copying
  <2>2. Spoken(Passed) = Speaking
    BY <2>1, SpokenFinite DEF Spoken
  <2> QED
    BY <1>2, <2>2 DEF WholeInv, Whole, UpTo
<1> QED
  BY <1>1, <1>2, PTL

----------------------------------------------------------------------------
(* Tracks of as many sectors, one behind the other.                         *)

LEMMA DividedBy ==
  ASSUME NEW n \in Nat \ {0}, NEW q \in Nat, NEW r \in 0..n - 1
  PROVE  (n * q + r) \div n = q /\ (n * q + r) % n = r
OBVIOUS

LEMMA Division ==
  ASSUME NEW n \in Nat \ {0}, NEW x \in Nat
  PROVE  x \div n \in Nat /\ x % n \in 0..n - 1 /\ x = n * (x \div n) + (x % n)
OBVIOUS

LEMMA TimesGrows ==
  ASSUME NEW n \in Nat, NEW a \in Nat, NEW b \in Nat, a < b
  PROVE  n * a \in Nat /\ n * b \in Nat /\ n * (a + 1) = n * a + n /\ n * a + n <= n * b
<1>1. PICK k \in Nat : b = a + 1 + k
  <2>1. b - a - 1 \in Nat /\ b = a + 1 + (b - a - 1)
    OBVIOUS
  <2> QED
    BY <2>1
<1>2. n * (a + 1 + k) = n * a + n + n * k /\ n * k \in Nat
  OBVIOUS
<1> QED
  BY <1>1, <1>2

\* Where the x-th of t tracks with n blocks is.
LEMMA QuotientBelow ==
  ASSUME NEW n \in Nat, NEW t \in Nat, NEW x \in Nat, x < n * t
  PROVE  n > 0 /\ x \div n \in 0..t - 1 /\ x % n \in 0..n - 1 /\ x = n * (x \div n) + (x % n)
<1>1. n > 0
  <2>1. CASE n = 0
    BY <2>1
  <2> QED
    BY <2>1
<1>2. x \div n \in Nat /\ x % n \in 0..n - 1 /\ x = n * (x \div n) + (x % n)
  BY <1>1, Division
<1>3. x \div n < t
  <2> DEFINE q == x \div n
  <2>1. q \in Nat /\ n * q <= x
    BY <1>2, TimesGrows
  <2> HIDE DEF q
  <2>2. CASE t <= q
    <3>1. n * t <= n * q
      <4>1. CASE t = q
        BY <4>1, <2>1
      <4>2. CASE t < q
        BY <4>2, <2>1, TimesGrows
      <4> QED
        BY <2>1, <2>2, <4>1, <4>2
    <3> QED
      BY <2>1, <3>1
  <2> QED
    BY <2>1, <2>2 DEF q
<1> QED
  BY <1>1, <1>2, <1>3

\* Behind the first m sectors are the n of a track, in order and without a gap.
Row(blocks, m, n, t, head) ==
  \E base \in Nat : \A k \in 1..n : blocks[m + k] = At(t, head, base + k - 1)

Tracks(blocks, tracks, sectors, head) ==
  /\ blocks \in Seq(Sector) /\ Len(blocks) = sectors * tracks
  /\ \A t \in 0..tracks - 1 : Row(blocks, sectors * t, sectors, t, head)

LEMMA SortedIs ==
  ASSUME NEW found \in Seq(Sector), NEW sorted \in Sorted(found)
  PROVE  sorted \in Seq(Sector) /\ Len(sorted) = Len(found)
<1>1. PICK q \in Bijection(DOMAIN found, DOMAIN found) :
        sorted = [i \in DOMAIN found |-> found[q[i]]]
  BY DEF Sorted
<1>2. DOMAIN found = 1..Len(found) /\ Len(found) \in Nat
  OBVIOUS
<1>3. \A i \in DOMAIN found : q[i] \in DOMAIN found
  BY DEF Bijection, Injection, IsInjective
<1>4. \A i \in 1..Len(found) : found[q[i]] \in Sector
  BY <1>2, <1>3
<1> QED
  BY <1>1, <1>2, <1>4

LEMMA SupportedIs ==
  ASSUME NEW sorted \in Seq(Sector), NEW t, NEW head, Supported(sorted, t, head)
  PROVE  Row(sorted, 0, Len(sorted), t, head)
<1>1. CASE Len(sorted) = 0
  <2>1. 0 \in Nat /\ 1..Len(sorted) = {}
    BY <1>1
  <2> QED
    BY <2>1 DEF Row
<1>2. CASE Len(sorted) > 0
  <2> DEFINE base == sorted[1].record
             R == {k \in 1..Len(sorted) : sorted[k].record # base + k - 1}
  <2>1. Len(sorted) \in Nat /\ DOMAIN sorted = 1..Len(sorted)
    OBVIOUS
  <2>2. \A k \in 1..Len(sorted) : sorted[k] \in Sector
    OBVIOUS
  <2>3. base \in Nat
    BY <1>2, <2>1, <2>2 DEF Sector
  <2>4. ASSUME R # {} PROVE FALSE
    <3>1. PICK k \in R : \A y \in R : k <= y
      <4>1. R \subseteq Nat /\ R # {}
        BY <2>4
      <4> HIDE DEF R
      <4> QED
        BY <4>1, NatLeast
    <3>2. k \in 2..Len(sorted)
      BY <1>2, <2>1, <2>3
    <3>3. k - 1 \notin R /\ k - 1 \in 1..Len(sorted)
      BY <2>1, <3>1, <3>2
    <3>4. sorted[k].record = sorted[k - 1].record + 1
      BY <3>2 DEF Supported
    <3>5. sorted[k - 1].record = base + (k - 1) - 1
      BY <3>3
    <3>6. sorted[k].record # base + k - 1
      BY <3>1
    <3> HIDE DEF base
    <3> QED
      BY <2>3, <3>2, <3>4, <3>5, <3>6
  <2>5. ASSUME NEW k \in 1..Len(sorted) PROVE sorted[k] = At(t, head, base + k - 1)
    <3>1. sorted[k] \in Sector /\ sorted[k].record = base + k - 1
      BY <2>2, <2>4
    <3>2. sorted[k].head = head /\ sorted[k].cylinder = t /\ sorted[k].whole
      BY <2>1 DEF Supported
    <3>3. sorted[k].whole = TRUE
      BY <3>1, <3>2 DEF Sector
    <3> QED
      BY <3>1, <3>2, <3>3 DEF Sector, At
  <2>6. \A k \in 1..Len(sorted) : sorted[0 + k] = At(t, head, base + k - 1)
    BY <2>5
  <2> HIDE DEF base
  <2> QED
    BY <2>3, <2>6 DEF Row
<1> QED
  BY <1>1, <1>2

LEMMA NoTracks ==
  ASSUME NEW n \in Nat, NEW head
  PROVE  Tracks(<<>>, 0, n, head)
<1>1. 0..0 - 1 = {} /\ n * 0 = 0 /\ <<>> \in Seq(Sector) /\ Len(<<>>) = 0
  OBVIOUS
<1> QED
  BY <1>1 DEF Tracks

LEMMA TrackAdded ==
  ASSUME NEW blocks, NEW t \in Nat, NEW head, NEW sorted \in Seq(Sector),
         Tracks(blocks, t, Len(sorted), head), Supported(sorted, t, head)
  PROVE  Tracks(blocks \o sorted, t + 1, Len(sorted), head)
<1> DEFINE n == Len(sorted)
           added == blocks \o sorted
<1>1. n \in Nat /\ blocks \in Seq(Sector) /\ Len(blocks) = n * t
  BY DEF Tracks
<1>2. n * t \in Nat /\ n * (t + 1) = n * t + n
  BY <1>1, TimesGrows
<1>3. added \in Seq(Sector) /\ Len(added) = n * t + n
  BY <1>1
<1>4. /\ \A i \in 1..Len(blocks) : added[i] = blocks[i]
      /\ \A i \in 1..n : added[Len(blocks) + i] = sorted[i]
  BY <1>1
<1> HIDE DEF n
<1>5. \A x \in 0..t - 1 : Row(blocks, n * x, n, x, head)
  BY DEF Tracks, n
<1>6. Row(sorted, 0, n, t, head)
  BY SupportedIs DEF n
<1> HIDE DEF added
<1>7. ASSUME NEW x \in 0..t - 1 PROVE Row(added, n * x, n, x, head)
  <2>1. PICK base \in Nat : \A k \in 1..n : blocks[n * x + k] = At(x, head, base + k - 1)
    BY <1>5 DEF Row
  <2>2. ASSUME NEW k \in 1..n PROVE added[n * x + k] = At(x, head, base + k - 1)
    <3>1. n * x \in Nat /\ n * x + n <= n * t
      BY <1>1, TimesGrows
    <3>2. n * x + k \in 1..Len(blocks)
      BY <1>1, <1>2, <3>1
    <3> QED
      BY <1>4, <2>1, <3>2
  <2> QED
    BY <2>2 DEF Row
<1>8. Row(added, n * t, n, t, head)
  <2>1. PICK base \in Nat : \A k \in 1..n : sorted[0 + k] = At(t, head, base + k - 1)
    BY <1>6 DEF Row
  <2> DEFINE m == n * t
  <2>2. m \in Nat /\ Len(blocks) = m
    BY <1>1, <1>2
  <2>3. ASSUME NEW k \in 1..n PROVE added[m + k] = At(t, head, base + k - 1)
    BY <1>4, <2>1, <2>2
  <2> QED
    BY <2>3 DEF Row
<1>9. Len(added) = n * (t + 1) /\ \A x \in 0..t + 1 - 1 : x \in 0..t - 1 \/ x = t
  BY <1>2, <1>3
<1>10. Tracks(added, t + 1, n, head)
  BY <1>3, <1>7, <1>8, <1>9 DEF Tracks
<1> QED
  BY <1>10 DEF added, n

\* The i-th sector is the k-th of track t.
Lies(blocks, i, n, t, k, head) ==
  /\ i = n * t + k
  /\ blocks[i].cylinder = t /\ blocks[i].head = head /\ blocks[i].record \in Nat

LEMMA InTracks ==
  ASSUME NEW blocks, NEW tracks \in Nat, NEW n \in Nat, NEW head, Tracks(blocks, tracks, n, head),
         NEW i \in DOMAIN blocks
  PROVE  n > 0 /\ \E t \in 0..tracks - 1, k \in 1..n : Lies(blocks, i, n, t, k, head)
<1> DEFINE x == i - 1
           t == x \div n
           k == (x % n) + 1
           m == n * t
<1>1. x \in Nat /\ x < n * tracks /\ i = x + 1
  <2>1. n * tracks \in Nat
    OBVIOUS
  <2>2. DOMAIN blocks = 1..Len(blocks) /\ Len(blocks) = n * tracks
    BY DEF Tracks
  <2> QED
    BY <2>1, <2>2
<1> HIDE DEF x
<1>2. n > 0 /\ t \in 0..tracks - 1 /\ k \in 1..n /\ i = m + k /\ m \in Nat
  <2>1. /\ n > 0 /\ t \in 0..tracks - 1 /\ x % n \in 0..n - 1
        /\ x = n * t + (x % n)
    BY <1>1, QuotientBelow
  <2> HIDE DEF t
  <2>2. n * t \in Nat
    BY <2>1
  <2> DEFINE r == x % n
  <2>3. r \in 0..n - 1 /\ x = m + r /\ m \in Nat
    BY <2>1, <2>2
  <2> HIDE DEF r, m
  <2>4. r + 1 \in 1..n /\ i = m + (r + 1)
    BY <1>1, <2>3
  <2> QED
    BY <2>1, <2>3, <2>4 DEF r
<1> HIDE DEF t, k
<1>3. PICK base \in Nat : \A y \in 1..n : blocks[m + y] = At(t, head, base + y - 1)
  BY <1>2 DEF Tracks, Row
<1>4. blocks[i] = At(t, head, base + k - 1) /\ base + k - 1 \in Nat
  BY <1>2, <1>3
<1>5. blocks[i].cylinder = t /\ blocks[i].head = head /\ blocks[i].record \in Nat
  BY <1>4 DEF At
<1>6. Lies(blocks, i, n, t, k, head)
  BY <1>2, <1>5 DEF Lies
<1> QED
  BY <1>2, <1>6

\* TracksAlike of a drive.
LEMMA AlikeIs ==
  ASSUME NEW blocks, NEW tracks \in Nat, NEW n \in Nat, NEW head, Tracks(blocks, tracks, n, head),
         NEW c \in 0..tracks - 1
  PROVE  Cardinality({i \in DOMAIN blocks : blocks[i].cylinder = c}) = n
<1> DEFINE Is == {i \in DOMAIN blocks : blocks[i].cylinder = c}
           m == n * c
<1>1. m \in Nat /\ m + n <= n * tracks
  BY TimesGrows
<1>2. DOMAIN blocks = 1..Len(blocks) /\ Len(blocks) = n * tracks
  BY DEF Tracks
<1>3. Row(blocks, m, n, c, head)
  BY DEF Tracks
<1>4. ASSUME NEW i \in Is PROVE i \in m + 1..m + n
  <2>1. PICK t \in 0..tracks - 1, k \in 1..n : Lies(blocks, i, n, t, k, head)
    BY InTracks
  <2>2. t = c
    BY <2>1 DEF Lies
  <2>3. i = m + k
    BY <2>1, <2>2 DEF Lies
  <2> HIDE DEF m
  <2> QED
    BY <1>1, <2>3
<1>5. ASSUME NEW i \in m + 1..m + n PROVE i \in Is
  <2> DEFINE k == i - m
  <2>1. k \in 1..n /\ i = m + k
    BY <1>1
  <2>2. i \in 1..Len(blocks)
    <3> DEFINE all == n * tracks
    <3>1. all \in Nat /\ m + n <= all /\ Len(blocks) = all
      BY <1>1, <1>2
    <3> HIDE DEF m, k, all
    <3> QED
      BY <1>1, <2>1, <3>1
  <2> HIDE DEF k, m
  <2>3. PICK base \in Nat : \A x \in 1..n : blocks[m + x] = At(c, head, base + x - 1)
    BY <1>3 DEF Row
  <2>4. blocks[i] = At(c, head, base + k - 1)
    BY <1>1, <2>1, <2>3
  <2>5. blocks[i].cylinder = c
    BY <2>4 DEF At
  <2> QED
    BY <1>2, <2>2, <2>5
<1>6. Is = m + 1..m + n
  <2> HIDE DEF Is, m
  <2> QED
    BY <1>4, <1>5
<1>7. Cardinality(m + 1..m + n) = n
  <2> HIDE DEF m
  <2>1. m + 1 \in Int /\ m + n \in Int
    BY <1>1
  <2>2. Cardinality(m + 1..m + n) = IF m + 1 > m + n THEN 0 ELSE (m + n) - (m + 1) + 1
    BY <2>1, FS_Interval
  <2> QED
    BY <1>1, <2>2
<1> QED
  BY <1>6, <1>7

LEMMA MinIs ==
  ASSUME NEW S, S \subseteq Nat, S # {}
  PROVE  Min(S) \in S
<1>1. \E x \in S : \A y \in S : x <= y
  BY NatLeast
<1> QED
  BY <1>1 DEF Min

\* What is found has the address looked for; of nothing else is there any.
LEMMA FoundIs ==
  ASSUME NEW drive, drive.blocks \in Seq(Sector), NEW c, NEW h, NEW r
  PROVE  LET got == FindSector(drive, c, h, r) IN
           /\ got # None => got.cylinder = c /\ got.head = h /\ got.record = r
                            /\ got \in ToSet(drive.blocks)
           /\ \A i \in DOMAIN drive.blocks :
                drive.blocks[i].cylinder = c /\ drive.blocks[i].head = h
                  /\ drive.blocks[i].record = r => got # None
<1> DEFINE is == {i \in DOMAIN drive.blocks :
                    /\ drive.blocks[i].cylinder = c
                    /\ drive.blocks[i].head = h
                    /\ drive.blocks[i].record = r}
           got == FindSector(drive, c, h, r)
<1>1. got = IF is = {} THEN None ELSE drive.blocks[Min(is)]
  BY DEF FindSector
<1>2. is \subseteq Nat
  OBVIOUS
<1>3. CASE is = {}
  <2>1. got = None
    BY <1>1, <1>3
  <2> QED
    BY <1>3, <2>1
<1>4. CASE is # {}
  <2> DEFINE at == Min(is)
  <2>1. at \in is
    <3> HIDE DEF is
    <3> QED
      BY <1>2, <1>4, MinIs
  <2>2. got = drive.blocks[at]
    BY <1>1, <1>4
  <2> HIDE DEF at, got
  <2>3. got \in Sector /\ got.cylinder = c /\ got.head = h /\ got.record = r
    BY <2>1, <2>2
  <2>4. got # None
    BY <2>3 DEF Sector, None
  <2>5. got \in ToSet(drive.blocks)
    BY <2>1, <2>2 DEF ToSet
  <2> QED
    BY <2>3, <2>4, <2>5 DEF got
<1> QED
  BY <1>3, <1>4

\* What the reader makes of the tracks of one side.
HfeDrive(d) ==
  /\ d.side \in {0, 1} /\ d.cylinders \in Nat /\ d.sectors \in Nat
  /\ Tracks(d.blocks, d.cylinders, d.sectors, d.side)

LEMMA DriveBlock ==
  ASSUME NEW d, HfeDrive(d), NEW lba \in Nat, lba < d.cylinders * d.sectors
  PROVE  /\ HfeReadBlock(d, lba) = FindSector(d, lba \div d.sectors, 0, lba % d.sectors)
         /\ d.sectors > 0 /\ lba \div d.sectors \in 0..d.cylinders - 1
         /\ lba % d.sectors \in 0..d.sectors - 1
         /\ lba = d.sectors * (lba \div d.sectors) + (lba % d.sectors)
<1> DEFINE n == d.sectors
           m == d.cylinders
           all == m * n
<1>1. n \in Nat /\ m \in Nat /\ all \in Nat /\ all = n * m /\ lba < all
  BY DEF HfeDrive
<1>2. Len(d.blocks) = all
  BY <1>1 DEF HfeDrive, Tracks
<1>3. n > 0 /\ lba \div n \in 0..m - 1 /\ lba % n \in 0..n - 1 /\ lba = n * (lba \div n) + (lba % n)
  BY <1>1, QuotientBelow
<1>4. lba \div all = 0 /\ lba % all = lba
  <2> HIDE DEF all
  <2>1. all \in Nat \ {0} /\ lba \in 0..all - 1 /\ 0 \in Nat
    BY <1>1
  <2>2. (all * 0 + lba) \div all = 0 /\ (all * 0 + lba) % all = lba
    BY <2>1, DividedBy
  <2>3. all * 0 + lba = lba
    BY <2>1
  <2> QED
    BY <2>2, <2>3
<1>5. ~(lba >= Len(d.blocks))
  <2> HIDE DEF all
  <2> QED
    BY <1>1, <1>2
<1>6. HfeReadBlock(d, lba) = FindSector(d, (lba % all) \div n, lba \div all, lba % n)
  BY <1>5 DEF HfeReadBlock
<1>7. HfeReadBlock(d, lba) = FindSector(d, lba \div n, 0, lba % n)
  <2> HIDE DEF all, n
  <2> QED
    BY <1>4, <1>6
<1> QED
  BY <1>3, <1>7

LEMMA NeverMisplacedIs ==
  ASSUME NEW d, HfeDrive(d), NEW lba \in Nat, NEW got, got = HfeReadBlock(d, lba), got # None
  PROVE  got.head = d.side /\ got.cylinder * d.sectors + got.record = lba
<1> DEFINE n == d.sectors
           c == lba \div n
           r == lba % n
<1>1. n \in Nat /\ d.cylinders \in Nat /\ d.cylinders * n = n * d.cylinders
      /\ d.cylinders * n \in Nat
  BY DEF HfeDrive
<1>2. Len(d.blocks) = d.cylinders * n /\ d.blocks \in Seq(Sector)
  BY <1>1 DEF HfeDrive, Tracks
<1>3. lba < d.cylinders * n
  <2>1. ~(lba >= Len(d.blocks))
    BY DEF HfeReadBlock
  <2> DEFINE all == d.cylinders * n
  <2>2. all \in Nat /\ Len(d.blocks) = all
    BY <1>1, <1>2
  <2> HIDE DEF all
  <2> QED
    BY <2>1, <2>2 DEF all
<1>4. /\ got = FindSector(d, c, 0, r)
      /\ n > 0 /\ c \in 0..d.cylinders - 1 /\ r \in 0..n - 1 /\ lba = n * c + r
  BY <1>3, DriveBlock
<1> HIDE DEF c, r
<1>5. got.cylinder = c /\ got.head = 0 /\ got.record = r /\ got \in ToSet(d.blocks)
  BY <1>2, <1>4, FoundIs
<1>6. PICK i \in DOMAIN d.blocks : got = d.blocks[i]
  BY <1>5 DEF ToSet
<1>7. got.head = d.side
  <2>1. PICK t \in 0..d.cylinders - 1, k \in 1..n : Lies(d.blocks, i, n, t, k, d.side)
    BY <1>1, <1>6, InTracks DEF HfeDrive
  <2> QED
    BY <1>6, <2>1 DEF Lies
<1>8. c * n = n * c
  BY <1>1, <1>4
<1> QED
  BY <1>4, <1>5, <1>7, <1>8

LEMMA FirstSideIs ==
  ASSUME NEW d, HfeDrive(d), d.side = 0,
         \A s \in ToSet(d.blocks) :
           \E z \in ToSet(d.blocks) : z.cylinder = s.cylinder /\ z.record = 0,
         NEW lba \in Nat, lba < d.cylinders * d.sectors
  PROVE  HfeReadBlock(d, lba) # None
<1> DEFINE n == d.sectors
           c == lba \div n
           r == lba % n
           m == n * c
<1>1. /\ HfeReadBlock(d, lba) = FindSector(d, c, 0, r)
      /\ n > 0 /\ c \in 0..d.cylinders - 1 /\ r \in 0..n - 1
  BY DriveBlock
<1>2. /\ n \in Nat /\ d.cylinders \in Nat /\ Tracks(d.blocks, d.cylinders, n, 0)
      /\ d.blocks \in Seq(Sector) /\ Len(d.blocks) = n * d.cylinders
  BY DEF HfeDrive, Tracks
<1> HIDE DEF c, r, n
<1>3. PICK base \in Nat : \A k \in 1..n : d.blocks[m + k] = At(c, 0, base + k - 1)
  <2>1. Row(d.blocks, m, n, c, 0)
    BY <1>1, <1>2 DEF Tracks
  <2> QED
    BY <2>1 DEF Row
<1>4. m \in Nat /\ m + n <= n * d.cylinders
  <2>1. n \in Nat /\ c \in Nat /\ d.cylinders \in Nat /\ c < d.cylinders
    BY <1>1, <1>2
  <2> QED
    BY <2>1, TimesGrows
<1>5. \A k \in 1..n : m + k \in DOMAIN d.blocks
  <2> DEFINE all == n * d.cylinders
  <2>1. all \in Nat /\ Len(d.blocks) = all /\ m + n <= all
    BY <1>2, <1>4
  <2>2. DOMAIN d.blocks = 1..Len(d.blocks)
    BY <1>2
  <2> HIDE DEF m, all
  <2> QED
    BY <1>2, <1>4, <2>1, <2>2
<1>6. PICK z \in ToSet(d.blocks) : z.cylinder = c /\ z.record = 0
  <2>1. d.blocks[m + 1] \in ToSet(d.blocks) /\ d.blocks[m + 1].cylinder = c
    <3>1. 1 \in 1..n
      BY <1>1, <1>2
    <3> HIDE DEF m
    <3>2. m + 1 \in DOMAIN d.blocks /\ d.blocks[m + 1] = At(c, 0, base + 1 - 1)
      BY <1>3, <1>5, <3>1
    <3>3. At(c, 0, base + 1 - 1).cylinder = c
      BY DEF At
    <3> QED
      BY <3>2, <3>3 DEF ToSet
  <2> QED
    BY <2>1
<1>7. base = 0
  <2>1. PICK i \in DOMAIN d.blocks : z = d.blocks[i]
    BY <1>6 DEF ToSet
  <2>2. PICK t \in 0..d.cylinders - 1, k \in 1..n : Lies(d.blocks, i, n, t, k, 0)
    BY <1>2, InTracks
  <2>3. t = c
    BY <1>6, <2>1, <2>2 DEF Lies
  <2>4. i = m + k
    BY <2>2, <2>3 DEF Lies
  <2>5. z = At(c, 0, base + k - 1)
    <3> HIDE DEF m
    <3> QED
      BY <1>3, <2>1, <2>4
  <2> QED
    BY <1>2, <1>6, <2>5 DEF At
<1>8. d.blocks[m + (r + 1)] = At(c, 0, r) /\ m + (r + 1) \in DOMAIN d.blocks
  <2>1. r + 1 \in 1..n /\ base + (r + 1) - 1 = r
    BY <1>1, <1>2, <1>7
  <2> HIDE DEF m
  <2> QED
    BY <1>3, <1>5, <2>1
<1> DEFINE j == m + (r + 1)
<1>9. d.blocks[j].cylinder = c /\ d.blocks[j].head = 0 /\ d.blocks[j].record = r
      /\ j \in DOMAIN d.blocks
  BY <1>8 DEF At
<1> HIDE DEF j
<1> QED
  BY <1>1, <1>2, <1>9, FoundIs

----------------------------------------------------------------------------
(* The drives of an HFE file.                                               *)

\* What was read of the side so far is whole tracks, and of as many sectors each.
HfeSoFar ==
  IF hfe_track = 0 THEN sectors_per_track = Unknown /\ hfe_result = <<>>
  ELSE sectors_per_track \in Nat /\ Tracks(hfe_result, hfe_track, sectors_per_track, hfe_side)

HfeTyped ==
  /\ hfe_header \in HfeHeader
  /\ hfe_pc \in {"header", "table", "sides", "tracks", "made", "refused", "connected",
                 "assertion failed: side", "assertion failed: tracks"}
  /\ hfe_side \in 0..hfe_header.number_of_side /\ hfe_track \in 0..hfe_header.number_of_track
  /\ sectors_per_track \in Nat \cup {Unknown}
  /\ hfe_acc \in Seq(Drive)
  /\ hfe_connected \in Seq([side : Nat, format : Formats])

\* Is kept by every step.
HfeInv ==
  /\ HfeTyped
  /\ hfe_pc = "tracks" =>
       hfe_side \in {0, 1} /\ hfe_side < hfe_header.number_of_side /\ HfeSoFar
  /\ \A i \in DOMAIN hfe_acc : HfeDrive(hfe_acc[i])
  /\ Len(hfe_connected) <= Len(hfe_acc)
  /\ hfe_pc \notin {"made", "connected"} => hfe_connected = <<>>

LEMMA HfeInitHolds == HfeInit => HfeInv
<1> SUFFICES ASSUME HfeInit PROVE HfeInv
  OBVIOUS
<1>1. hfe_header.number_of_side \in Nat /\ hfe_header.number_of_track \in Nat
  BY DEF HfeInit, HfeHeader
<1>2. hfe_acc = <<>> /\ hfe_connected = <<>> /\ hfe_pc = "header"
  BY DEF HfeInit, HfeStart
<1>3. HfeTyped
  BY <1>1 DEF HfeInit, HfeStart, HfeTyped
<1> QED
  BY <1>2, <1>3 DEF HfeInv

\* A step that leaves the drives and the loops alone, or refuses the file.
LEMMA HfeGoStep ==
  ASSUME HfeInv, NEW where, HfeGo(where),
         where \in {"table", "sides", "made", "connected",
                    "assertion failed: side", "assertion failed: tracks"},
         hfe_pc \in {"made", "connected"} => where \in {"made", "connected"}
  PROVE  HfeInv'
<1>1. UNCHANGED <<hfe_header, hfe_side, hfe_track, sectors_per_track, hfe_acc, hfe_connected>>
  BY DEF HfeGo, hfe_file, hfe_reading
<1>2. HfeTyped'
  BY <1>1 DEF HfeInv, HfeTyped, HfeGo
<1> QED
  BY <1>1, <1>2 DEF HfeInv, HfeGo, HfeDrive

LEMMA HfeRefuseStep ==
  ASSUME HfeInv, HfeRefuse, hfe_pc \notin {"made", "connected"}
  PROVE  HfeInv'
<1>1. UNCHANGED <<hfe_header, hfe_side, hfe_track, sectors_per_track, hfe_connected>>
      /\ hfe_pc' = "refused" /\ hfe_acc' = <<>>
  BY DEF HfeRefuse, hfe_file, hfe_reading
<1>2. HfeTyped'
  <2>1. hfe_acc' \in Seq(Drive)
    BY <1>1
  <2> QED
    BY <1>1, <2>1 DEF HfeInv, HfeTyped
<1>3. hfe_connected' = <<>>
  BY <1>1 DEF HfeInv
<1> QED
  BY <1>1, <1>2, <1>3 DEF HfeInv

LEMMA HfeStartSideStep ==
  ASSUME HfeInv, HfeStartSide
  PROVE  HfeInv'
<1>1. CASE hfe_side \in {0, 1}
  <2>1. /\ hfe_pc' = "tracks" /\ hfe_track' = 0 /\ sectors_per_track' = Unknown
        /\ hfe_result' = <<>> /\ UNCHANGED <<hfe_header, hfe_side, hfe_acc, hfe_connected>>
        /\ hfe_side < hfe_header.number_of_side /\ hfe_pc = "sides"
    BY <1>1 DEF HfeStartSide, hfe_file
  <2>2. HfeTyped'
    <3>1. hfe_header.number_of_track \in Nat
      BY DEF HfeInv, HfeTyped, HfeHeader
    <3> QED
      BY <2>1, <3>1 DEF HfeInv, HfeTyped
  <2>3. HfeSoFar'
    BY <2>1 DEF HfeSoFar
  <2> QED
    BY <1>1, <2>1, <2>2, <2>3 DEF HfeInv, HfeDrive
<1>2. CASE hfe_side \notin {0, 1}
  BY <1>2, HfeGoStep DEF HfeStartSide
<1> QED
  BY <1>1, <1>2

LEMMA HfeReadTrackStep ==
  ASSUME HfeInv, NEW found \in Seq(Sector), HfeReadTrack(found)
  PROVE  HfeInv'
<1>1. hfe_pc = "tracks" /\ hfe_track < hfe_header.number_of_track
  BY DEF HfeReadTrack
<1>2. PICK sorted \in Sorted(found) :
        IF Accepts(sorted)
        THEN /\ hfe_result' = hfe_result \o sorted
             /\ sectors_per_track' = Len(sorted) /\ hfe_track' = hfe_track + 1
             /\ UNCHANGED <<hfe_file, hfe_pc, hfe_side, hfe_acc, hfe_connected>>
        ELSE HfeRefuse
  BY DEF HfeReadTrack
<1>3. sorted \in Seq(Sector)
  BY <1>2, SortedIs
<1>4. CASE Accepts(sorted)
  <2>1. /\ hfe_result' = hfe_result \o sorted
        /\ sectors_per_track' = Len(sorted) /\ hfe_track' = hfe_track + 1
        /\ UNCHANGED <<hfe_header, hfe_pc, hfe_side, hfe_acc, hfe_connected>>
    BY <1>2, <1>4 DEF hfe_file
  <2>2. Len(sorted) \in Nat /\ hfe_track \in Nat /\ hfe_header.number_of_track \in Nat
    <3>1. hfe_header.number_of_track \in Nat /\ hfe_track \in 0..hfe_header.number_of_track
      BY DEF HfeInv, HfeTyped, HfeHeader
    <3> QED
      BY <1>3, <3>1
  <2>3. HfeTyped'
    BY <1>1, <2>1, <2>2 DEF HfeInv, HfeTyped
  <2>4. Tracks(hfe_result, hfe_track, Len(sorted), hfe_side)
    <3>1. CASE hfe_track = 0
      <4>1. hfe_result = <<>>
        BY <1>1, <3>1 DEF HfeInv, HfeSoFar
      <4> QED
        BY <2>2, <3>1, <4>1, NoTracks
    <3>2. CASE hfe_track # 0
      <4>1. /\ sectors_per_track \in Nat
            /\ Tracks(hfe_result, hfe_track, sectors_per_track, hfe_side)
        BY <1>1, <3>2 DEF HfeInv, HfeSoFar
      <4>2. sectors_per_track = Len(sorted)
        BY <1>4, <4>1 DEF Accepts, Unknown
      <4> QED
        BY <4>1, <4>2
    <3> QED
      BY <3>1, <3>2
  <2>5. Tracks(hfe_result \o sorted, hfe_track + 1, Len(sorted), hfe_side)
    BY <1>3, <1>4, <2>2, <2>4, TrackAdded DEF Accepts
  <2>6. HfeSoFar'
    BY <2>1, <2>2, <2>5 DEF HfeSoFar
  <2> QED
    BY <1>1, <2>1, <2>3, <2>6 DEF HfeInv, HfeDrive
<1>5. CASE ~Accepts(sorted)
  BY <1>1, <1>2, <1>5, HfeRefuseStep
<1> QED
  BY <1>4, <1>5

LEMMA HfeEndSideStep ==
  ASSUME HfeInv, HfeEndSide
  PROVE  HfeInv'
<1>1. hfe_pc = "tracks" /\ hfe_track = hfe_header.number_of_track
  BY DEF HfeEndSide
<1>2. CASE hfe_track = 0
  BY <1>1, <1>2, HfeGoStep DEF HfeEndSide
<1>3. CASE hfe_track # 0 /\ hfe_header.track_encoding \notin Fm \cup Mfm
  BY <1>1, <1>3, HfeRefuseStep DEF HfeEndSide
<1>4. CASE hfe_track # 0 /\ hfe_header.track_encoding \in Fm \cup Mfm
  <2> DEFINE d == [side |-> hfe_side, cylinders |-> hfe_header.number_of_track,
                   sectors |-> sectors_per_track, blocks |-> hfe_result]
  <2>1. /\ hfe_acc' = Append(hfe_acc, d) /\ hfe_side' = hfe_side + 1 /\ hfe_pc' = "sides"
        /\ UNCHANGED <<hfe_header, hfe_track, sectors_per_track, hfe_result, hfe_connected>>
    BY <1>4 DEF HfeEndSide, HfeAddDrive, hfe_file
  <2>2. /\ hfe_side \in {0, 1} /\ hfe_side < hfe_header.number_of_side
        /\ hfe_header.number_of_side \in Nat /\ hfe_header.number_of_track \in Nat
        /\ sectors_per_track \in Nat
        /\ Tracks(hfe_result, hfe_header.number_of_track, sectors_per_track, hfe_side)
    BY <1>1, <1>4 DEF HfeInv, HfeTyped, HfeHeader, HfeSoFar
  <2>3. d \in Drive /\ HfeDrive(d)
    BY <2>2 DEF Drive, HfeDrive, Tracks
  <2> HIDE DEF d
  <2>4. hfe_acc \in Seq(Drive) /\ \A i \in DOMAIN hfe_acc : HfeDrive(hfe_acc[i])
    BY DEF HfeInv, HfeTyped
  <2>5. hfe_acc' \in Seq(Drive) /\ Len(hfe_acc') = Len(hfe_acc) + 1
    BY <2>1, <2>3, <2>4
  <2>6. \A i \in DOMAIN hfe_acc' : HfeDrive(hfe_acc'[i])
    BY <2>1, <2>3, <2>4
  <2>7. HfeTyped'
    <3>1. hfe_side' \in 0..hfe_header'.number_of_side
      BY <2>1, <2>2
    <3> QED
      BY <2>1, <2>5, <3>1 DEF HfeInv, HfeTyped
  <2>8. hfe_connected' = <<>> /\ Len(<<>>) <= Len(hfe_acc')
    BY <1>1, <2>1, <2>5 DEF HfeInv
  <2> QED
    BY <2>1, <2>6, <2>7, <2>8 DEF HfeInv, HfeDrive
<1> QED
  BY <1>2, <1>3, <1>4

LEMMA HfeConnectStep ==
  ASSUME HfeInv, NEW format \in Formats, HfeConnect(format)
  PROVE  HfeInv'
<1> DEFINE n == Len(hfe_connected) + 1
<1>1. /\ hfe_pc = "made" /\ Len(hfe_connected) < Len(hfe_acc)
      /\ hfe_connected' = Append(hfe_connected, [side |-> hfe_acc[n].side, format |-> format])
      /\ UNCHANGED <<hfe_header, hfe_pc, hfe_side, hfe_track, sectors_per_track, hfe_acc>>
  BY DEF HfeConnect, hfe_file, hfe_reading
<1>2. hfe_acc \in Seq(Drive) /\ hfe_connected \in Seq([side : Nat, format : Formats])
  BY DEF HfeInv, HfeTyped
<1>3. hfe_acc[n].side \in Nat
  <2>1. n \in 1..Len(hfe_acc)
    BY <1>1, <1>2
  <2>2. hfe_acc[n] \in Drive
    BY <1>2, <2>1
  <2> QED
    BY <2>2 DEF Drive
<1> DEFINE x == [side |-> hfe_acc[n].side, format |-> format]
<1>4. x \in [side : Nat, format : Formats] /\ hfe_connected' = Append(hfe_connected, x)
  BY <1>1, <1>3
<1> HIDE DEF x, n
<1>5. /\ hfe_connected' \in Seq([side : Nat, format : Formats])
      /\ Len(hfe_connected') = Len(hfe_connected) + 1
  BY <1>2, <1>4
<1>6. Len(hfe_connected') <= Len(hfe_acc')
  BY <1>1, <1>2, <1>5
<1>7. HfeTyped'
  BY <1>1, <1>5 DEF HfeInv, HfeTyped
<1> QED
  BY <1>1, <1>6, <1>7 DEF HfeInv, HfeDrive

LEMMA HfeNextHolds ==
  ASSUME HfeInv, [HfeNext]_hfe_vars
  PROVE  HfeInv'
<1>1. CASE HfeReadHeader
  BY <1>1, HfeGoStep, HfeRefuseStep DEF HfeReadHeader
<1>2. CASE ReadTable
  BY <1>2, HfeGoStep, HfeRefuseStep DEF ReadTable
<1>3. CASE HfeStartSide
  BY <1>3, HfeStartSideStep
<1>4. CASE \E found \in Seq(Sector) : HfeReadTrack(found)
  BY <1>4, HfeReadTrackStep
<1>5. CASE HfeEndSide
  BY <1>5, HfeEndSideStep
<1>6. CASE HfeEndSides
  BY <1>6, HfeGoStep DEF HfeEndSides
<1>7. CASE \E format \in Formats : HfeConnect(format)
  BY <1>7, HfeConnectStep
<1>8. CASE HfeConnected
  BY <1>8, HfeGoStep DEF HfeConnected
<1>9. CASE UNCHANGED hfe_vars
  <2>1. /\ UNCHANGED <<hfe_header, hfe_pc, hfe_side, hfe_track, sectors_per_track>>
        /\ UNCHANGED <<hfe_result, hfe_acc, hfe_connected>>
    BY <1>9 DEF hfe_vars, hfe_file, hfe_reading
  <2>2. HfeTyped'
    BY <2>1 DEF HfeInv, HfeTyped
  <2>3. HfeSoFar = HfeSoFar'
    BY <2>1 DEF HfeSoFar
  <2> QED
    BY <2>1, <2>2, <2>3 DEF HfeInv, HfeDrive
<1> QED
  BY <1>1, <1>2, <1>3, <1>4, <1>5, <1>6, <1>7, <1>8, <1>9 DEF HfeNext, HfeStep

LEMMA HfeInvariance == HfeSpec => []HfeInv
<1>1. HfeInit => HfeInv
  BY HfeInitHolds
<1>2. HfeInv /\ [HfeNext]_hfe_vars => HfeInv'
  BY HfeNextHolds
<1> QED
  BY <1>1, <1>2, PTL DEF HfeSpec

\* However many tracks and sides an HFE file has and whatever is found on its tracks, its drives
\* have alike tracks, all of their own side; a block is the sector of that address or is not
\* there, and of a first side whose tracks begin with record 0 every block is there
\* (read_all_sectors, DataAccessAdapter::read_block).
THEOREM HfeInPlace == HfeSpec => []HfeReadsInPlace
<1>1. HfeInv => HfeReadsInPlace
  <2> SUFFICES ASSUME HfeInv PROVE HfeReadsInPlace
    OBVIOUS
  <2>1. ASSUME NEW d \in ToSet(hfe_acc) PROVE HfeDrive(d)
    BY DEF HfeInv, ToSet
  <2>2. ASSUME NEW d \in ToSet(hfe_acc)
        PROVE  /\ d.side \in {0, 1} /\ d.blocks \in Seq(Sector) /\ Len(d.blocks) \in Nat
               /\ d.cylinders \in Nat /\ d.sectors \in Nat
    BY <2>1 DEF HfeDrive, Tracks
  <2>3. HfeTypeOK
    <3>1. ASSUME NEW d \in ToSet(hfe_acc) PROVE None \notin ToSet(d.blocks)
      <4>1. ToSet(d.blocks) \subseteq Sector
        BY <2>2 DEF ToSet
      <4> QED
        BY <4>1 DEF Sector, None
    <3> QED
      BY <2>2, <3>1 DEF HfeInv, HfeTyped, HfeTypeOK
  <2>4. TracksAlike
    <3>1. ASSUME NEW d \in ToSet(hfe_acc), NEW c \in 0..d.cylinders - 1
          PROVE  Cardinality({i \in DOMAIN d.blocks : d.blocks[i].cylinder = c}) = d.sectors
      BY <2>1, <2>2, AlikeIs DEF HfeDrive
    <3>2. ASSUME NEW d \in ToSet(hfe_acc), NEW s \in ToSet(d.blocks)
          PROVE  s.head = d.side /\ s.cylinder < d.cylinders
      <4>1. PICK i \in DOMAIN d.blocks : s = d.blocks[i]
        BY DEF ToSet
      <4>2. PICK t \in 0..d.cylinders - 1, k \in 1..d.sectors :
              Lies(d.blocks, i, d.sectors, t, k, d.side)
        BY <2>1, <2>2, InTracks DEF HfeDrive
      <4> QED
        BY <2>2, <4>1, <4>2 DEF Lies
    <3> QED
      BY <3>1, <3>2 DEF TracksAlike
  <2>5. NeverMisplaced
    <3>1. ASSUME NEW d \in ToSet(hfe_acc), NEW lba \in Blocks(d)
          PROVE  LET got == HfeReadBlock(d, lba) IN
                   got # None => got.head = d.side /\ got.cylinder * d.sectors + got.record = lba
      <4>1. lba \in Nat
        BY <2>2 DEF Blocks
      <4> QED
        BY <2>1, <4>1, NeverMisplacedIs
    <3> QED
      BY <3>1 DEF NeverMisplaced
  <2>6. FirstSideReads
    <3>1. ASSUME NEW d \in ToSet(hfe_acc), d.side = 0,
                 \A s \in ToSet(d.blocks) :
                   \E z \in ToSet(d.blocks) : z.cylinder = s.cylinder /\ z.record = 0,
                 NEW lba \in 0..d.cylinders * d.sectors - 1
          PROVE  HfeReadBlock(d, lba) # None
      <4> DEFINE all == d.cylinders * d.sectors
      <4>1. all \in Nat
        BY <2>2
      <4> HIDE DEF all
      <4>2. lba \in 0..all - 1
        BY DEF all
      <4>3. lba \in Nat /\ lba < all
        BY <4>1, <4>2
      <4> QED
        BY <2>1, <3>1, <4>3, FirstSideIs DEF all
    <3> QED
      BY <3>1 DEF FirstSideReads
  <2> QED
    BY <2>3, <2>4, <2>5, <2>6 DEF HfeReadsInPlace
<1> QED
  BY <1>1, HfeInvariance, PTL

----------------------------------------------------------------------------
(* Sectors in the order of their addresses.                                 *)

\* Numbers that grow and leave none out are those of the places.
LEMMA RankIsPlace ==
  ASSUME NEW n \in Nat, NEW f \in [1..n -> 0..n - 1], \A i \in 2..n : f[i - 1] < f[i]
  PROVE  \A i \in 1..n : f[i] = i - 1
<1> DEFINE Low == {i \in 1..n : f[i] < i - 1}
           High == {k \in 0..n - 1 : f[n - k] > n - k - 1}
<1>1. \A i \in 1..n : f[i] \in Nat /\ f[i] <= n - 1
  OBVIOUS
<1>2. ASSUME Low # {} PROVE FALSE
  <2>1. Low \subseteq Nat /\ Low # {}
    <3>1. Low \subseteq 1..n /\ 1..n \subseteq Nat
      OBVIOUS
    <3> HIDE DEF Low
    <3> QED
      BY <1>2, <3>1
  <2>2. PICK i \in Low : \A y \in Low : i <= y
    <3> HIDE DEF Low
    <3> QED
      BY <2>1, NatLeast
  <2>3. i \in 2..n /\ i - 1 \in 1..n
    BY <1>1, <2>2
  <2>4. ~(f[i - 1] < i - 1 - 1)
    BY <2>2, <2>3
  <2> QED
    BY <1>1, <2>2, <2>3, <2>4
<1>3. ASSUME High # {} PROVE FALSE
  <2>1. High \subseteq Nat /\ High # {}
    BY <1>3
  <2>2. PICK k \in High : \A y \in High : k <= y
    <3> HIDE DEF High
    <3> QED
      BY <2>1, NatLeast
  <2> DEFINE i == n - k
  <2>3. i \in 1..n /\ f[i] > i - 1
    BY <2>2
  <2>4. i # n
    BY <1>1, <2>3
  <2>5. i + 1 \in 2..n /\ f[i] < f[i + 1]
    <3>1. i + 1 \in 2..n /\ (i + 1) - 1 = i
      BY <2>3, <2>4
    <3> HIDE DEF i
    <3>2. f[(i + 1) - 1] < f[i + 1]
      BY <3>1
    <3> QED
      BY <3>1, <3>2
  <2>6. ~(f[i + 1] > i)
    <3>1. k \in 0..n - 1 /\ k # 0
      BY <2>2, <2>4
    <3>2. k - 1 \in 0..n - 1 /\ ~(k <= k - 1) /\ n - (k - 1) = i + 1 /\ n - (k - 1) - 1 = i
      BY <3>1
    <3>3. k - 1 \notin High
      <4> HIDE DEF High
      <4> QED
        BY <2>2, <3>2
    <3> QED
      BY <3>2, <3>3
  <2> HIDE DEF i
  <2>7. f[i] \in Nat /\ f[i + 1] \in Nat
    BY <1>1, <2>3, <2>5
  <2> QED
    BY <2>3, <2>5, <2>6, <2>7
<1>4. ASSUME NEW i \in 1..n PROVE f[i] = i - 1
  <2>1. ~(f[i] < i - 1)
    BY <1>2
  <2>2. ~(f[i] > i - 1)
    <3>1. n - i \in 0..n - 1 /\ n - (n - i) = i
      OBVIOUS
    <3>2. n - i \notin High
      BY <1>3
    <3> QED
      BY <3>1, <3>2
  <2>3. f[i] \in Nat
    BY <1>1
  <2> QED
    BY <2>1, <2>2, <2>3
<1> QED
  BY <1>4

\* Sectors of one side in the order of their addresses, none of them twice.
Ascending(blocks, head) ==
  /\ blocks \in Seq(Sector)
  /\ \A i \in DOMAIN blocks : blocks[i].head = head /\ blocks[i].whole = TRUE
  /\ \A i, j \in DOMAIN blocks : i < j => Before(blocks[i], blocks[j])

LEMMA TrackBehind ==
  ASSUME NEW blocks, NEW head, Ascending(blocks, head), NEW t \in Nat,
         \A i \in DOMAIN blocks : blocks[i].cylinder < t,
         NEW sorted \in Seq(Sector), Supported(sorted, t, head)
  PROVE  Ascending(blocks \o sorted, head)
<1> DEFINE m == Len(blocks)
           n == Len(sorted)
           added == blocks \o sorted
<1>1. /\ blocks \in Seq(Sector) /\ m \in Nat /\ n \in Nat
      /\ DOMAIN blocks = 1..m /\ DOMAIN sorted = 1..n
  BY DEF Ascending
<1>2. added \in Seq(Sector) /\ DOMAIN added = 1..m + n
  BY <1>1
<1>3. /\ \A i \in 1..m : added[i] = blocks[i]
      /\ \A k \in 1..n : added[m + k] = sorted[k]
  BY <1>1
<1> HIDE DEF added
<1>4. Row(sorted, 0, n, t, head)
  BY SupportedIs
<1> HIDE DEF m, n
<1>5. PICK base \in Nat : \A k \in 1..n : sorted[0 + k] = At(t, head, base + k - 1)
  BY <1>4 DEF Row
<1>6. ASSUME NEW k \in 1..n PROVE added[m + k] = At(t, head, base + k - 1)
  <2>1. 0 + k = k
    BY <1>1
  <2>2. sorted[k] = At(t, head, base + k - 1)
    BY <1>5, <2>1
  <2> QED
    BY <1>3, <2>2
<1>7. \A i \in 1..m + n : i \in 1..m \/ (i - m \in 1..n /\ m + (i - m) = i)
  BY <1>1
<1>8. ASSUME NEW i \in 1..m + n PROVE added[i].head = head /\ added[i].whole = TRUE
  <2>1. CASE i \in 1..m
    BY <1>1, <1>3, <2>1 DEF Ascending
  <2>2. CASE i \notin 1..m
    <3> DEFINE k == i - m
    <3>1. k \in 1..n /\ i = m + k
      BY <1>1, <1>7, <2>2
    <3> HIDE DEF k
    <3>2. added[i] = At(t, head, base + k - 1)
      BY <1>6, <3>1
    <3> QED
      BY <3>2 DEF At
  <2> QED
    BY <2>1, <2>2
<1>9. ASSUME NEW i \in 1..m + n, NEW j \in 1..m + n, i < j PROVE Before(added[i], added[j])
  <2>1. CASE j \in 1..m
    <3>1. i \in 1..m
      BY <1>1, <1>9, <2>1
    <3>2. Before(blocks[i], blocks[j])
      BY <1>1, <1>9, <2>1, <3>1 DEF Ascending
    <3> QED
      BY <1>3, <2>1, <3>1, <3>2
  <2>2. CASE j \notin 1..m
    <3> DEFINE k == j - m
    <3>1. k \in 1..n /\ j = m + k
      BY <1>1, <1>7, <2>2
    <3> HIDE DEF k
    <3>2. added[j] = At(t, head, base + k - 1)
      BY <1>6, <3>1
    <3>3. CASE i \in 1..m
      <4>1. added[i].cylinder < t
        BY <1>1, <1>3, <3>3
      <4> QED
        BY <3>2, <4>1 DEF At, Before
    <3>4. CASE i \notin 1..m
      <4> DEFINE l == i - m
      <4>1. l \in 1..n /\ i = m + l
        BY <1>1, <1>7, <3>4
      <4> HIDE DEF l
      <4>2. added[i] = At(t, head, base + l - 1)
        BY <1>6, <4>1
      <4>3. base + l - 1 < base + k - 1
        BY <1>1, <1>9, <3>1, <4>1
      <4> QED
        BY <3>2, <4>2, <4>3 DEF At, Before
    <3> QED
      BY <3>3, <3>4
  <2> QED
    BY <2>1, <2>2
<1>10. Ascending(added, head)
  BY <1>2, <1>8, <1>9 DEF Ascending
<1> QED
  BY <1>10 DEF added

LEMMA NumbersFinite ==
  ASSUME NEW blocks \in Seq(Sector)
  PROVE  Cardinality(Cylinders(blocks)) \in Nat /\ Cardinality(Records(blocks)) \in Nat
<1>1. IsFiniteSet(1..Len(blocks))
  BY FS_Interval
<1>2. Cylinders(blocks) = {blocks[i].cylinder : i \in 1..Len(blocks)}
  BY DEF Cylinders, ToSet
<1>3. Records(blocks) = {blocks[i].record : i \in 1..Len(blocks)}
  BY DEF Records, ToSet
<1>4. IsFiniteSet(Cylinders(blocks)) /\ IsFiniteSet(Records(blocks))
  <2>1. [i \in 1..Len(blocks) |-> blocks[i].cylinder]
          \in Surjection(1..Len(blocks), Cylinders(blocks))
    BY <1>2 DEF Surjection
  <2>2. [i \in 1..Len(blocks) |-> blocks[i].record]
          \in Surjection(1..Len(blocks), Records(blocks))
    BY <1>3 DEF Surjection
  <2> QED
    BY <1>1, <2>1, <2>2, FS_Surjection
<1> QED
  BY <1>4, FS_CardinalityType

\* A sector's number on the disc.
Rank(s, n, first) == n * s.cylinder + (s.record - first)

\* There are as many as there are places for them.
Regular(blocks, head, tracks, n, first) ==
  /\ Ascending(blocks, head) /\ Len(blocks) = tracks * n
  /\ \A s \in ToSet(blocks) : s.cylinder < tracks /\ s.record \in first..first + n - 1

LEMMA PlaceIs ==
  ASSUME NEW blocks, NEW head, NEW tracks \in Nat, NEW n \in Nat, NEW first \in Nat,
         Regular(blocks, head, tracks, n, first), NEW i \in DOMAIN blocks
  PROVE  /\ n > 0 /\ i - 1 \in Nat
         /\ blocks[i] = At((i - 1) \div n, head, first + ((i - 1) % n))
<1> DEFINE all == n * tracks
           f == [j \in 1..all |-> Rank(blocks[j], n, first)]
<1>1. all \in Nat /\ blocks \in Seq(Sector) /\ Len(blocks) = all /\ DOMAIN blocks = 1..all
  BY DEF Regular, Ascending
<1>2. ASSUME NEW j \in 1..all
      PROVE  /\ blocks[j].cylinder \in 0..tracks - 1 /\ blocks[j].record - first \in 0..n - 1
             /\ blocks[j] \in Sector
  <2>1. blocks[j] \in Sector /\ blocks[j] \in ToSet(blocks)
    BY <1>1 DEF ToSet
  <2>2. blocks[j].cylinder \in Nat /\ blocks[j].cylinder < tracks
        /\ blocks[j].record \in first..first + n - 1
    BY <2>1 DEF Regular, Sector
  <2> QED
    BY <2>1, <2>2
<1>3. ASSUME NEW j \in 1..all PROVE Rank(blocks[j], n, first) \in 0..all - 1
  <2> DEFINE c == blocks[j].cylinder
             r == blocks[j].record - first
  <2>1. c \in 0..tracks - 1 /\ r \in 0..n - 1
    BY <1>2
  <2> HIDE DEF c, r
  <2>2. n * c \in Nat /\ n * c + n <= all
    BY <2>1, TimesGrows
  <2> DEFINE m == n * c
  <2>3. m + r \in 0..all - 1
    <3>1. m \in Nat /\ m + n <= all
      BY <2>2
    <3> HIDE DEF m, all
    <3> QED
      BY <1>1, <2>1, <3>1
  <2> QED
    BY <2>3 DEF Rank, c, r
<1>4. ASSUME NEW j \in 2..all
      PROVE  Rank(blocks[j - 1], n, first) < Rank(blocks[j], n, first)
  <2> DEFINE a == blocks[j - 1].cylinder
             b == blocks[j].cylinder
             p == blocks[j - 1].record - first
             q == blocks[j].record - first
  <2>1. j - 1 \in 1..all /\ j \in 1..all /\ j - 1 < j
    BY <1>1
  <2>2. a \in 0..tracks - 1 /\ b \in 0..tracks - 1 /\ p \in 0..n - 1 /\ q \in 0..n - 1
    BY <1>2, <2>1
  <2>3. Before(blocks[j - 1], blocks[j]) /\ blocks[j - 1].head = blocks[j].head
    BY <1>1, <2>1 DEF Regular, Ascending
  <2>4. /\ blocks[j - 1].head \in Nat /\ blocks[j - 1].record \in Nat /\ blocks[j].record \in Nat
    BY <1>2, <2>1 DEF Sector
  <2>5. a < b \/ (a = b /\ p < q)
    BY <2>3, <2>4 DEF Before
  <2> HIDE DEF a, b, p, q
  <2>6. n * a + p < n * b + q
    <3> DEFINE x == n * a
               y == n * b
    <3>1. CASE a < b
      <4>1. x \in Nat /\ y \in Nat /\ x + n <= y
        BY <2>2, <3>1, TimesGrows
      <4> HIDE DEF x, y
      <4>2. x + p < y + q
        BY <2>2, <4>1
      <4> QED
        BY <4>2 DEF x, y
    <3>2. CASE a = b /\ p < q
      <4>1. x = y /\ x \in Nat
        BY <2>2, <3>2
      <4> HIDE DEF x, y
      <4>2. x + p < y + q
        BY <2>2, <3>2, <4>1
      <4> QED
        BY <4>2 DEF x, y
    <3> QED
      BY <2>5, <3>1, <3>2
  <2> QED
    BY <2>6 DEF Rank, a, b, p, q
<1>5. f \in [1..all -> 0..all - 1]
  BY <1>3
<1>6. \A j \in 2..all : f[j - 1] < f[j]
  <2>1. \A j \in 2..all : j \in 1..all /\ j - 1 \in 1..all
    BY <1>1
  <2> HIDE DEF all
  <2> QED
    BY <1>4, <2>1
<1>7. f[i] = i - 1
  <2> HIDE DEF f, all
  <2> QED
    BY <1>1, <1>5, <1>6, RankIsPlace
<1> DEFINE c == blocks[i].cylinder
           r == blocks[i].record - first
<1>8. c \in 0..tracks - 1 /\ r \in 0..n - 1 /\ n * c + r = i - 1 /\ blocks[i] \in Sector
  <2>1. i \in 1..all
    BY <1>1
  <2> HIDE DEF all
  <2>2. f[i] = Rank(blocks[i], n, first)
    BY <2>1
  <2> QED
    BY <1>2, <1>7, <2>1, <2>2 DEF Rank
<1>9. blocks[i].head = head /\ blocks[i].whole = TRUE /\ blocks[i].record = first + r
  BY <1>8 DEF Regular, Ascending, Sector
<1>10. blocks[i] = At(c, head, first + r)
  BY <1>8, <1>9 DEF At, Sector
<1> HIDE DEF c, r, f, all
<1>11. n \in Nat \ {0} /\ c \in Nat
  BY <1>8
<1>12. (n * c + r) \div n = c /\ (n * c + r) % n = r
  BY <1>8, <1>11, DividedBy
<1>13. i - 1 \in Nat
  BY <1>1
<1>14. (i - 1) \div n = c /\ (i - 1) % n = r
  BY <1>8, <1>12
<1>15. blocks[i] = At((i - 1) \div n, head, first + ((i - 1) % n))
  BY <1>10, <1>14
<1> QED
  BY <1>11, <1>13, <1>15

LEMMA CylindersAre ==
  ASSUME NEW blocks, NEW head, NEW tracks \in Nat, NEW n \in Nat \ {0}, NEW first \in Nat,
         Regular(blocks, head, tracks, n, first)
  PROVE  Cardinality(Cylinders(blocks)) = tracks
<1>1. ASSUME NEW c \in Cylinders(blocks) PROVE c \in 0..tracks - 1
  <2>1. PICK i \in DOMAIN blocks : c = blocks[i].cylinder
    BY DEF Cylinders, ToSet
  <2>2. blocks[i] \in Sector /\ blocks[i] \in ToSet(blocks)
    BY DEF Regular, Ascending, ToSet
  <2>3. c \in Nat /\ c < tracks
    BY <2>1, <2>2 DEF Regular, Sector
  <2> QED
    BY <2>3
<1>2. ASSUME NEW c \in 0..tracks - 1 PROVE c \in Cylinders(blocks)
  <2> DEFINE m == n * c
             all == n * tracks
             i == m + 1
  <2>1. m \in Nat /\ m + n <= all /\ Len(blocks) = all
    BY TimesGrows DEF Regular
  <2>2. i \in DOMAIN blocks
    <3> HIDE DEF m, all
    <3> QED
      BY <2>1 DEF Regular, Ascending
  <2>4. i - 1 = n * c + 0
    BY <2>1
  <2> HIDE DEF i, m, all
  <2>3. blocks[i] = At((i - 1) \div n, head, first + ((i - 1) % n))
    <3>1. n \in Nat
      OBVIOUS
    <3> QED
      BY <2>2, <3>1, PlaceIs
  <2>5. (n * c + 0) \div n = c
    <3>1. 0 \in 0..n - 1 /\ c \in Nat
      OBVIOUS
    <3> QED
      BY <3>1, DividedBy
  <2>6. blocks[i].cylinder = c
    BY <2>3, <2>4, <2>5 DEF At
  <2> QED
    BY <2>2, <2>6 DEF Cylinders, ToSet
<1>3. Cylinders(blocks) = 0..tracks - 1
  BY <1>1, <1>2
<1>4. Cardinality(0..tracks - 1) = IF 0 > tracks - 1 THEN 0 ELSE (tracks - 1) - 0 + 1
  BY FS_Interval
<1> QED
  BY <1>3, <1>4

----------------------------------------------------------------------------
(* The drives of an HxC file.                                               *)

\* What was kept of the list, as long as the list is one.
ListRead ==
  HasLast =>
    /\ pos <= Len(list)
    /\ \A e \in track_metadata :
         \E i \in 1..pos : list[i] = e /\ \A j \in 1..i - 1 : ~SameKey(list[j], e)
    /\ \A j \in 1..pos : \E x \in track_metadata : SameKey(x, list[j])
    /\ hxc_pc \in {"header", "list"} => \A j \in 1..pos : ~IsLast(list[j])

\* What was read of the side so far are its tracks with the least numbers.
HxcSoFar ==
  /\ hxc_side < hxc_header.sides
  /\ \A e \in done : e.side_number = hxc_side
  /\ \A e \in done, x \in Remaining : e.track_number < x.track_number
  /\ Ascending(hxc_result, hxc_side)
  /\ \A i \in DOMAIN hxc_result : \E e \in done : hxc_result[i].cylinder = e.track_number

\* What the reader makes of the tracks of one side.
HxcDrive(d) ==
  /\ Ascending(d.blocks, d.side)
  /\ d.cylinders = Cardinality(Cylinders(d.blocks))

HxcTyped ==
  /\ hxc_header \in HxcHeader /\ list \in Seq(HxcEntry)
  /\ hxc_pc \in {"header", "list", "sides", "tracks", "made", "refused", "connected"}
  /\ pos \in Nat /\ track_metadata \subseteq HxcEntry /\ done \subseteq track_metadata
  /\ hxc_side \in 0..hxc_header.sides
  /\ hxc_acc \in Seq(Drive)
  /\ hxc_connected \in Seq([side : Nat, format : Formats])

KeysDiffer == \A a, b \in track_metadata : SameKey(a, b) => a = b

\* Is kept by every step.
HxcInv ==
  /\ HxcTyped /\ KeysDiffer /\ ListRead
  /\ hxc_pc = "tracks" => HxcSoFar
  /\ \A i \in DOMAIN hxc_acc : HxcDrive(hxc_acc[i])
  /\ Len(hxc_connected) <= Len(hxc_acc)
  /\ hxc_pc \notin {"made", "connected"} => hxc_connected = <<>>

LEMMA HxcInitHolds == HxcInit => HxcInv
<1> SUFFICES ASSUME HxcInit PROVE HxcInv
  OBVIOUS
<1>1. hxc_header.sides \in Nat /\ hxc_header \in HxcHeader /\ list \in Seq(HxcEntry)
  BY DEF HxcInit, HxcHeader
<1>2. /\ hxc_acc = <<>> /\ hxc_connected = <<>> /\ hxc_pc = "header" /\ pos = 0
      /\ track_metadata = {} /\ done = {} /\ hxc_side = 0
  BY DEF HxcInit, HxcStart
<1>3. HxcTyped
  BY <1>1, <1>2 DEF HxcTyped
<1>4. ListRead
  <2>1. 1..pos = {} /\ pos <= Len(list)
    BY <1>1, <1>2
  <2> QED
    BY <1>2, <2>1 DEF ListRead
<1> QED
  BY <1>2, <1>3, <1>4 DEF HxcInv, KeysDiffer

LEMMA HxcGoStep ==
  ASSUME HxcInv, NEW where, HxcGo(where), where \in {"list", "made", "connected"},
         where = "list" => hxc_pc = "header",
         hxc_pc \in {"made", "connected"} => where \in {"made", "connected"}
  PROVE  HxcInv'
<1>1. /\ UNCHANGED <<hxc_header, list, pos, track_metadata, hxc_side, done, hxc_acc, hxc_connected>>
      /\ hxc_pc' = where
  BY DEF HxcGo, hxc_file, hxc_reading
<1>2. HxcTyped' /\ KeysDiffer'
  BY <1>1 DEF HxcInv, HxcTyped, KeysDiffer, SameKey
<1>3. ListRead'
  BY <1>1 DEF HxcInv, ListRead, HasLast, IsLast, SameKey
<1> QED
  BY <1>1, <1>2, <1>3 DEF HxcInv, HxcDrive

LEMMA HxcRefuseStep ==
  ASSUME HxcInv, HxcRefuse, hxc_pc \notin {"made", "connected"}
  PROVE  HxcInv'
<1>1. /\ UNCHANGED <<hxc_header, list, pos, track_metadata, hxc_side, done, hxc_connected>>
      /\ hxc_pc' = "refused" /\ hxc_acc' = <<>>
  BY DEF HxcRefuse, hxc_file, hxc_reading
<1>2. HxcTyped' /\ KeysDiffer'
  <2>1. hxc_acc' \in Seq(Drive)
    BY <1>1
  <2> QED
    BY <1>1, <2>1 DEF HxcInv, HxcTyped, KeysDiffer, SameKey
<1>3. ListRead'
  BY <1>1 DEF HxcInv, ListRead, HasLast, IsLast, SameKey
<1>4. hxc_connected' = <<>>
  BY <1>1 DEF HxcInv
<1> QED
  BY <1>1, <1>2, <1>3, <1>4 DEF HxcInv

\* The next entry of the list is read, or what is taken for one behind it.
LEMMA InsertStep ==
  ASSUME HxcInv, NEW e \in HxcEntry, Insert(e), pos < Len(list) => e = list[pos + 1]
  PROVE  HxcInv'
<1>1. /\ UNCHANGED <<hxc_header, list, hxc_side, done, hxc_acc, hxc_connected>>
      /\ hxc_pc = "list" /\ pos' = pos + 1 /\ track_metadata' = Keep(e)
      /\ hxc_pc' = IF IsLast(e) THEN "sides" ELSE "list"
  BY DEF Insert, hxc_file, hxc_reading
<1>2. pos \in Nat /\ Len(list) \in Nat /\ DOMAIN list = 1..Len(list)
  BY DEF HxcInv, HxcTyped
<1>3. track_metadata \subseteq Keep(e) /\ Keep(e) \subseteq track_metadata \cup {e}
  BY DEF Keep
<1>4. HxcTyped'
  BY <1>1, <1>2, <1>3 DEF HxcInv, HxcTyped
<1>5. KeysDiffer'
  <2>1. KeysDiffer
    BY DEF HxcInv
  <2>2. ASSUME NEW a \in Keep(e), NEW b \in Keep(e), SameKey(a, b) PROVE a = b
    BY <2>1, <2>2 DEF KeysDiffer, Keep, SameKey
  <2> QED
    BY <1>1, <2>2 DEF KeysDiffer, SameKey
<1>6. ASSUME HasLast
      PROVE  /\ pos + 1 <= Len(list)
             /\ \A x \in Keep(e) :
                  \E i \in 1..pos + 1 : list[i] = x /\ \A j \in 1..i - 1 : ~SameKey(list[j], x)
             /\ \A j \in 1..pos + 1 : \E x \in Keep(e) : SameKey(x, list[j])
             /\ ~IsLast(e) => \A j \in 1..pos + 1 : ~IsLast(list[j])
  <2>1. /\ pos <= Len(list)
        /\ \A x \in track_metadata :
             \E i \in 1..pos : list[i] = x /\ \A j \in 1..i - 1 : ~SameKey(list[j], x)
        /\ \A j \in 1..pos : \E x \in track_metadata : SameKey(x, list[j])
        /\ \A j \in 1..pos : ~IsLast(list[j])
    BY <1>1, <1>6 DEF HxcInv, ListRead
  <2>2. pos < Len(list)
    <3>1. PICK i \in DOMAIN list : IsLast(list[i])
      BY <1>6 DEF HasLast
    <3> QED
      BY <1>2, <2>1, <3>1
  <2>3. e = list[pos + 1]
    BY <2>2
  <2>4. \A j \in 1..pos + 1 : j \in 1..pos \/ j = pos + 1
    BY <1>2
  <2>5. ASSUME NEW x \in Keep(e)
        PROVE  \E i \in 1..pos + 1 : list[i] = x /\ \A j \in 1..i - 1 : ~SameKey(list[j], x)
    <3>1. CASE x \in track_metadata
      <4>1. PICK i \in 1..pos : list[i] = x /\ \A j \in 1..i - 1 : ~SameKey(list[j], x)
        BY <2>1, <3>1
      <4>2. i \in 1..pos + 1
        BY <1>2
      <4> QED
        BY <4>1, <4>2
    <3>2. CASE x \notin track_metadata
      <4>1. x = e /\ \A y \in track_metadata : ~SameKey(y, e)
        BY <3>2 DEF Keep
      <4>2. ASSUME NEW j \in 1..pos PROVE ~SameKey(list[j], e)
        <5>1. PICK y \in track_metadata : SameKey(y, list[j])
          BY <2>1
        <5> QED
          BY <4>1, <5>1 DEF SameKey
      <4>3. pos + 1 \in 1..pos + 1 /\ (pos + 1) - 1 = pos
        BY <1>2
      <4> QED
        BY <2>3, <4>1, <4>2, <4>3
    <3> QED
      BY <3>1, <3>2
  <2>6. ASSUME NEW j \in 1..pos + 1 PROVE \E x \in Keep(e) : SameKey(x, list[j])
    <3>1. CASE j \in 1..pos
      BY <1>3, <2>1, <3>1
    <3>2. CASE j = pos + 1
      BY <2>3, <3>2 DEF Keep, SameKey
    <3> QED
      BY <2>4, <3>1, <3>2
  <2>7. ASSUME ~IsLast(e), NEW j \in 1..pos + 1 PROVE ~IsLast(list[j])
    BY <2>1, <2>3, <2>4, <2>7
  <2>8. pos + 1 <= Len(list)
    BY <1>2, <2>2
  <2> QED
    BY <2>5, <2>6, <2>7, <2>8
<1>7. ListRead'
  <2>1. HasLast' <=> HasLast
    BY <1>1 DEF HasLast, IsLast
  <2>2. \A x : IsLast(x)' <=> IsLast(x)
    BY <1>1 DEF IsLast
  <2> QED
    BY <1>1, <1>6, <2>1 DEF ListRead, IsLast, SameKey
<1>8. hxc_connected' = <<>>
  BY <1>1 DEF HxcInv
<1> QED
  BY <1>1, <1>4, <1>5, <1>7, <1>8 DEF HxcInv, HxcDrive

LEMMA HxcStartSideStep ==
  ASSUME HxcInv, HxcStartSide
  PROVE  HxcInv'
<1>1. /\ UNCHANGED <<hxc_header, list, pos, track_metadata, hxc_side, hxc_acc, hxc_connected>>
      /\ hxc_pc = "sides" /\ hxc_pc' = "tracks" /\ done' = {} /\ hxc_result' = <<>>
      /\ hxc_side < hxc_header.sides
  BY DEF HxcStartSide, hxc_file
<1>2. HxcTyped' /\ KeysDiffer'
  BY <1>1 DEF HxcInv, HxcTyped, KeysDiffer, SameKey
<1>3. ListRead'
  BY <1>1 DEF HxcInv, ListRead, HasLast, IsLast, SameKey
<1>4. HxcSoFar'
  <2>1. hxc_result' \in Seq(Sector) /\ DOMAIN hxc_result' = {}
    BY <1>1
  <2>2. Ascending(hxc_result', hxc_side)
    BY <2>1 DEF Ascending
  <2> QED
    BY <1>1, <2>1, <2>2 DEF HxcSoFar, Ascending, Before
<1> QED
  BY <1>1, <1>2, <1>3, <1>4 DEF HxcInv, HxcDrive

LEMMA HxcReadTrackStep ==
  ASSUME HxcInv, NEW e \in track_metadata, NEW found \in Seq(Sector), HxcReadTrack(e, found)
  PROVE  HxcInv'
<1>1. /\ hxc_pc = "tracks" /\ e \in Remaining /\ HxcSoFar
      /\ \A x \in Remaining : e.track_number <= x.track_number
  BY DEF HxcReadTrack, NextEntry, HxcInv
<1>2. PICK sorted \in Sorted(found) :
        IF e.fits /\ Supported(sorted, e.track_number, e.side_number)
        THEN /\ AddSectors(sorted) /\ done' = done \cup {e}
             /\ UNCHANGED <<hxc_file, hxc_pc, pos, track_metadata, hxc_side>>
             /\ UNCHANGED <<hxc_acc, hxc_connected>>
        ELSE HxcRefuse
  BY DEF HxcReadTrack
<1>3. sorted \in Seq(Sector)
  BY <1>2, SortedIs
<1>4. CASE e.fits /\ Supported(sorted, e.track_number, e.side_number)
  <2>1. /\ UNCHANGED <<hxc_header, list, hxc_pc, pos, track_metadata, hxc_side>>
        /\ UNCHANGED <<hxc_acc, hxc_connected>>
        /\ done' = done \cup {e} /\ hxc_result' = hxc_result \o sorted
    BY <1>2, <1>4 DEF AddSectors, hxc_file
  <2>2. HxcTyped' /\ KeysDiffer'
    BY <2>1 DEF HxcInv, HxcTyped, KeysDiffer, SameKey
  <2>3. ListRead'
    BY <2>1 DEF HxcInv, ListRead, HasLast, IsLast, SameKey
  <2>4. /\ e.track_number \in Nat /\ e.side_number = hxc_side /\ track_metadata \subseteq HxcEntry
        /\ Remaining' = Remaining \ {e}
    BY <1>1, <2>1 DEF HxcInv, HxcTyped, HxcEntry, Remaining
  <2>5. Ascending(hxc_result \o sorted, hxc_side)
    <3>1. \A i \in DOMAIN hxc_result : hxc_result[i].cylinder < e.track_number
      BY <1>1 DEF HxcSoFar
    <3>2. Ascending(hxc_result, hxc_side)
      BY <1>1 DEF HxcSoFar
    <3> QED
      BY <1>3, <1>4, <2>4, <3>1, <3>2, TrackBehind
  <2>6. ASSUME NEW d \in done \cup {e}, NEW x \in Remaining \ {e}
        PROVE  d.track_number < x.track_number
    <3>1. CASE d \in done
      BY <1>1, <3>1 DEF HxcSoFar
    <3>2. CASE d = e
      <4>1. e.track_number <= x.track_number /\ x \in HxcEntry /\ x.side_number = hxc_side
            /\ x \in track_metadata
        BY <1>1, <2>4 DEF Remaining
      <4>2. x.track_number # e.track_number
        BY <2>4, <4>1 DEF HxcInv, KeysDiffer, SameKey
      <4> QED
        BY <2>4, <3>2, <4>1, <4>2 DEF HxcEntry
    <3> QED
      BY <3>1, <3>2
  <2>7. ASSUME NEW i \in DOMAIN (hxc_result \o sorted)
        PROVE  \E d \in done \cup {e} : (hxc_result \o sorted)[i].cylinder = d.track_number
    <3> DEFINE m == Len(hxc_result)
    <3>1. hxc_result \in Seq(Sector) /\ m \in Nat /\ Len(sorted) \in Nat
      BY <1>1, <1>3 DEF HxcSoFar, Ascending
    <3>2. CASE i \in 1..m
      <4>1. (hxc_result \o sorted)[i] = hxc_result[i] /\ i \in DOMAIN hxc_result
        BY <1>3, <3>1, <3>2
      <4> QED
        BY <1>1, <4>1 DEF HxcSoFar
    <3>3. CASE i \notin 1..m
      <4>1. i - m \in DOMAIN sorted /\ (hxc_result \o sorted)[i] = sorted[i - m]
        BY <1>3, <3>1, <3>3
      <4>2. (hxc_result \o sorted)[i].cylinder = e.track_number
        BY <1>4, <4>1 DEF Supported
      <4> QED
        BY <4>2
    <3> QED
      BY <3>2, <3>3
  <2>8. HxcSoFar'
    <3> DEFINE r == hxc_result \o sorted
               w == done \cup {e}
    <3>1. /\ Ascending(r, hxc_side)
          /\ \A i \in DOMAIN r : \E x \in w : r[i].cylinder = x.track_number
          /\ \A x \in w, y \in Remaining \ {e} : x.track_number < y.track_number
      BY <2>5, <2>6, <2>7
    <3>2. /\ \A x \in w : x.side_number = hxc_side
          /\ hxc_side < hxc_header.sides
      BY <1>1, <2>4 DEF HxcSoFar
    <3>3. /\ UNCHANGED <<hxc_side, hxc_header>> /\ hxc_result' = r /\ done' = w
          /\ Remaining' = Remaining \ {e}
      BY <2>1, <2>4
    <3> HIDE DEF r, w
    <3>4. Ascending(hxc_result, hxc_side)'
      BY <3>1, <3>3 DEF Ascending, Before
    <3> QED
      BY <3>1, <3>2, <3>3, <3>4 DEF HxcSoFar
  <2> QED
    BY <1>1, <2>1, <2>2, <2>3, <2>8 DEF HxcInv, HxcDrive
<1>5. CASE ~(e.fits /\ Supported(sorted, e.track_number, e.side_number))
  BY <1>1, <1>2, <1>5, HxcRefuseStep
<1> QED
  BY <1>4, <1>5

LEMMA HxcEndSideStep ==
  ASSUME HxcInv, HxcEndSide
  PROVE  HxcInv'
<1> DEFINE d == [side |-> hxc_side, cylinders |-> Cardinality(Cylinders(hxc_result)),
                 sectors |-> Cardinality(Records(hxc_result)), blocks |-> hxc_result]
<1>1. /\ hxc_pc = "tracks" /\ hxc_acc' = Append(hxc_acc, d)
      /\ hxc_side' = hxc_side + 1 /\ hxc_pc' = "sides"
      /\ UNCHANGED <<hxc_header, list, pos, track_metadata, done, hxc_connected>>
  BY DEF HxcEndSide, hxc_file
<1>2. /\ hxc_side < hxc_header.sides /\ Ascending(hxc_result, hxc_side)
      /\ hxc_side \in 0..hxc_header.sides /\ hxc_header.sides \in Nat
  BY <1>1 DEF HxcInv, HxcTyped, HxcHeader, HxcSoFar
<1>3. hxc_result \in Seq(Sector)
  BY <1>2 DEF Ascending
<1>4. d \in Drive /\ HxcDrive(d)
  BY <1>2, <1>3, NumbersFinite DEF Drive, HxcDrive
<1> HIDE DEF d
<1>5. hxc_acc \in Seq(Drive) /\ \A i \in DOMAIN hxc_acc : HxcDrive(hxc_acc[i])
  BY DEF HxcInv, HxcTyped
<1>6. /\ hxc_acc' \in Seq(Drive) /\ Len(hxc_acc') = Len(hxc_acc) + 1
      /\ \A i \in DOMAIN hxc_acc' : HxcDrive(hxc_acc'[i])
  BY <1>1, <1>4, <1>5
<1>7. HxcTyped' /\ KeysDiffer'
  <2>1. hxc_side' \in 0..hxc_header'.sides
    BY <1>1, <1>2
  <2> QED
    BY <1>1, <1>6, <2>1 DEF HxcInv, HxcTyped, KeysDiffer, SameKey
<1>8. ListRead'
  BY <1>1 DEF HxcInv, ListRead, HasLast, IsLast, SameKey
<1>9. hxc_connected' = <<>> /\ Len(<<>>) <= Len(hxc_acc')
  BY <1>1, <1>6 DEF HxcInv
<1> QED
  BY <1>1, <1>6, <1>7, <1>8, <1>9 DEF HxcInv, HxcDrive

LEMMA HxcConnectStep ==
  ASSUME HxcInv, NEW format \in Formats, HxcConnect(format)
  PROVE  HxcInv'
<1> DEFINE n == Len(hxc_connected) + 1
           c == [side |-> hxc_acc[n].side, format |-> format]
<1>1. /\ hxc_pc = "made" /\ Len(hxc_connected) < Len(hxc_acc)
      /\ hxc_connected' = Append(hxc_connected, c)
      /\ UNCHANGED <<hxc_header, list, hxc_pc, pos, track_metadata, hxc_side, done, hxc_acc>>
  BY DEF HxcConnect, hxc_file, hxc_reading
<1>2. hxc_acc \in Seq(Drive) /\ hxc_connected \in Seq([side : Nat, format : Formats])
  BY DEF HxcInv, HxcTyped
<1>3. c \in [side : Nat, format : Formats]
  <2>1. n \in 1..Len(hxc_acc)
    BY <1>1, <1>2
  <2>2. hxc_acc[n] \in Drive
    BY <1>2, <2>1
  <2> QED
    BY <2>2 DEF Drive
<1> HIDE DEF c, n
<1>4. /\ hxc_connected' \in Seq([side : Nat, format : Formats])
      /\ Len(hxc_connected') = Len(hxc_connected) + 1
  BY <1>1, <1>2, <1>3
<1>5. Len(hxc_connected') <= Len(hxc_acc')
  BY <1>1, <1>2, <1>4
<1>6. HxcTyped' /\ KeysDiffer'
  BY <1>1, <1>4 DEF HxcInv, HxcTyped, KeysDiffer, SameKey
<1>7. ListRead'
  BY <1>1 DEF HxcInv, ListRead, HasLast, IsLast, SameKey
<1> QED
  BY <1>1, <1>5, <1>6, <1>7 DEF HxcInv, HxcDrive

LEMMA HxcNextHolds ==
  ASSUME HxcInv, [HxcNext]_hxc_vars
  PROVE  HxcInv'
<1>1. CASE HxcReadHeader
  BY <1>1, HxcGoStep, HxcRefuseStep DEF HxcReadHeader
<1>2. CASE ReadEntry
  <2>1. list[pos + 1] \in HxcEntry
    BY <1>2 DEF ReadEntry, HxcInv, HxcTyped
  <2> QED
    BY <1>2, <2>1, InsertStep DEF ReadEntry
<1>3. CASE \E e \in HxcEntry : ReadBeyond(e)
  <2>1. PICK e \in HxcEntry : pos >= Len(list) /\ Insert(e)
    BY <1>3 DEF ReadBeyond
  <2>2. ~(pos < Len(list))
    BY <2>1 DEF HxcInv, HxcTyped
  <2> QED
    BY <2>1, <2>2, InsertStep
<1>4. CASE HxcStartSide
  BY <1>4, HxcStartSideStep
<1>5. CASE \E e \in track_metadata, found \in Seq(Sector) : HxcReadTrack(e, found)
  BY <1>5, HxcReadTrackStep
<1>6. CASE HxcEndSide
  BY <1>6, HxcEndSideStep
<1>7. CASE HxcEndSides
  BY <1>7, HxcGoStep DEF HxcEndSides
<1>8. CASE \E format \in Formats : HxcConnect(format)
  BY <1>8, HxcConnectStep
<1>9. CASE HxcConnected
  BY <1>9, HxcGoStep DEF HxcConnected
<1>10. CASE UNCHANGED hxc_vars
  <2>1. /\ UNCHANGED <<hxc_header, list, hxc_pc, pos, track_metadata>>
        /\ UNCHANGED <<hxc_side, done, hxc_result, hxc_acc, hxc_connected>>
    BY <1>10 DEF hxc_vars, hxc_file, hxc_reading
  <2>2. HxcTyped' /\ KeysDiffer'
    BY <2>1 DEF HxcInv, HxcTyped, KeysDiffer, SameKey
  <2>3. ListRead'
    BY <2>1 DEF HxcInv, ListRead, HasLast, IsLast, SameKey
  <2>4. HxcSoFar' = HxcSoFar
    BY <2>1 DEF HxcSoFar, Remaining, Ascending, Before
  <2> QED
    BY <2>1, <2>2, <2>3, <2>4 DEF HxcInv, HxcDrive
<1> QED
  BY <1>1, <1>2, <1>3, <1>4, <1>5, <1>6, <1>7, <1>8, <1>9, <1>10 DEF HxcNext, HxcStep

LEMMA HxcInvariance == HxcSpec => []HxcInv
<1>1. HxcInit => HxcInv
  BY HxcInitHolds
<1>2. HxcInv /\ [HxcNext]_hxc_vars => HxcInv'
  BY HxcNextHolds
<1> QED
  BY <1>1, <1>2, PTL DEF HxcSpec

\* However many tracks and sides an HxC file lists, in whatever order, and whatever sectors are
\* found on its tracks, its drives have the sectors of their own side, each once; if they are
\* as many as there are places for them, block lba is the lba'th sector of the disc.  A list
\* that has its last entry is read no further, and the first of two entries for a track is
\* meant (get_track_metadata, read_all_sectors, compute_geometry).
THEOREM HxcInPlace == HxcSpec => []HxcReadsInPlace
<1>1. HxcInv => HxcReadsInPlace
  <2> SUFFICES ASSUME HxcInv PROVE HxcReadsInPlace
    OBVIOUS
  <2>1. ASSUME NEW d \in ToSet(hxc_acc)
        PROVE  /\ HxcDrive(d) /\ d \in Drive /\ Ascending(d.blocks, d.side)
               /\ d.blocks \in Seq(Sector)
    BY DEF HxcInv, HxcTyped, ToSet, HxcDrive, Ascending
  <2>2. HxcTypeOK
    <3>1. ASSUME NEW d \in ToSet(hxc_acc) PROVE None \notin ToSet(d.blocks)
      <4>1. ToSet(d.blocks) \subseteq Sector
        BY <2>1 DEF ToSet
      <4> QED
        BY <4>1 DEF Sector, None
    <3> QED
      BY <3>1 DEF HxcInv, HxcTyped, KeysDiffer, HxcTypeOK
  <2>3. StaysInList
    BY DEF HxcInv, ListRead, StaysInList
  <2>4. SidesApart
    <3>1. ASSUME NEW d \in ToSet(hxc_acc)
          PROVE  /\ \A i \in DOMAIN d.blocks : d.blocks[i].head = d.side
                 /\ \A i \in 2..Len(d.blocks) : Before(d.blocks[i - 1], d.blocks[i])
      <4>1. \A i \in 2..Len(d.blocks) :
              i \in DOMAIN d.blocks /\ i - 1 \in DOMAIN d.blocks /\ i - 1 < i
        BY <2>1
      <4> QED
        BY <2>1, <4>1 DEF Ascending
    <3> QED
      BY <3>1 DEF SidesApart
  <2>5. AtItsPlace
    <3>1. ASSUME NEW d \in ToSet(hxc_acc), NEW first \in {0, 1},
                 d.sectors > 0, Len(d.blocks) = hxc_header.tracks * d.sectors,
                 \A s \in ToSet(d.blocks) :
                   s.cylinder < hxc_header.tracks /\ s.record \in first..first + d.sectors - 1
          PROVE  /\ d.cylinders = hxc_header.tracks
                 /\ \A lba \in 0..d.cylinders * d.sectors - 1 :
                      HxcReadBlock(d, lba)
                        = At(lba \div d.sectors, d.side, first + (lba % d.sectors))
      <4> DEFINE m == hxc_header.tracks
                 n == d.sectors
                 all == m * n
      <4>1. m \in Nat /\ n \in Nat \ {0} /\ first \in Nat
        BY <2>1, <3>1 DEF HxcInv, HxcTyped, HxcHeader, Drive
      <4>2. Regular(d.blocks, d.side, m, n, first)
        BY <2>1, <3>1 DEF Regular
      <4> HIDE DEF m, n
      <4>3. d.cylinders = m
        BY <2>1, <4>1, <4>2, CylindersAre DEF HxcDrive
      <4>4. all \in Nat /\ Len(d.blocks) = all
        BY <4>1, <4>2 DEF Regular
      <4> HIDE DEF all
      <4>5. ASSUME NEW lba \in 0..all - 1
            PROVE  HxcReadBlock(d, lba) = At(lba \div n, d.side, first + (lba % n))
        <5> DEFINE i == lba + 1
        <5>1. i \in DOMAIN d.blocks /\ i - 1 = lba /\ ~(lba >= Len(d.blocks))
          BY <2>1, <4>4
        <5>2. HxcReadBlock(d, lba) = d.blocks[i]
          BY <5>1 DEF HxcReadBlock
        <5> HIDE DEF i
        <5>3. n \in Nat
          BY <4>1
        <5>4. d.blocks[i] = At((i - 1) \div n, d.side, first + ((i - 1) % n))
          BY <4>1, <4>2, <5>1, <5>3, PlaceIs
        <5> QED
          BY <5>1, <5>2, <5>4
      <4> QED
        BY <4>3, <4>5 DEF all, m, n
    <3> QED
      BY <3>1 DEF AtItsPlace
  <2> QED
    BY <2>2, <2>3, <2>4, <2>5 DEF HxcReadsInPlace
<1> QED
  BY <1>1, HxcInvariance, PTL
=============================================================================
