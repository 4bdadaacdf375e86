-------------------------------- MODULE Cat --------------------------------
(***************************************************************************)
(* How cat puts the files of a catalogue in order and in columns           *)
(* (cmd_cat.cc), behind a heading that it has left with two line ends.     *)
(* Characters are their codes: the order of names is an order of codes.    *)
(* Two counters know the place on the line: colstream's counts characters, *)
(* the other columns, and each is set back by some line ends.  A name can  *)
(* have any character but blank and NUL, and three of them move only the   *)
(* first: TAB, line end and carriage return (see AllPlain).                *)
(***************************************************************************)
EXTENDS Integers, SequencesExt

CONSTANT ColWidth      (* col_width, 20 in the program                       *)

\* The longest name of a locked file fits.
ASSUME ColWidthAssumption == ColWidth \in Nat /\ ColWidth > 17

VARIABLES
  ui, screen_width, cat_directory, cat_entries,
  order,        \* the numbers of the entries, sorted
  shown,        \* how many of them are put out
  printed_gap, first,
  place,        \* the row, colstream's col_, and current_col
  cells,        \* where each was put
  step
inputs == <<ui, screen_width, cat_directory, cat_entries>>
cvars == <<inputs, order, shown, printed_gap, first, place, cells, step>>

SelectOutputColumns ==
  CASE screen_width < 40 -> 1
    [] ui = "Watford" /\ screen_width >= 80 -> 4
    [] OTHER -> 2
Rmargin == SelectOutputColumns * ColWidth

Lower(ch) == IF ch \in 65..90 THEN ch + 32 ELSE ch

\* std::mismatch without regard to case; the shorter of two that agree is less.
CaseInsensitiveLess(l, r) ==
  LET differ == {i \in DOMAIN l \cap DOMAIN r : Lower(l[i]) # Lower(r[i])}
  IN IF differ = {} THEN Len(l) < Len(r)
     ELSE Lower(l[Min(differ)]) < Lower(r[Min(differ)])

MapDir(dir) == IF dir = cat_directory THEN 0 ELSE Lower(dir)

CompareEntries(l, r) ==
  \/ MapDir(l.dir) < MapDir(r.dir)
  \/ MapDir(l.dir) = MapDir(r.dir) /\ CaseInsensitiveLess(l.name, r.name)

\* A file's directory is seven bits; 0 cannot be typed, but can be on a disc.
DirectoryCode == 0..127
\* A name is seven bytes at most of seven bits each, and ends before a blank or NUL.
NameCode == (1..127) \ {32}
Name == {name \in Seq(NameCode) : Len(name) <= 7}
ListedFile == [dir : DirectoryCode, name : Name, locked : BOOLEAN]

StartCat ==
  /\ order = <<>> /\ shown = 0 /\ printed_gap = FALSE /\ first = TRUE
  /\ place = [row |-> 0, col |-> 0, current_col |-> 0]
  /\ cells = <<>> /\ step = "sort"

CatInit ==
  /\ ui \in {"Acorn", "Watford"} /\ screen_width \in Int
  /\ cat_directory \in DirectoryCode \ {0} /\ cat_entries \in Seq(ListedFile)
  /\ StartCat
-----------------------------------------------------------------------------
\* std::sort leaves entries that compare equal in any order.
Sort ==
  /\ step = "sort"
  /\ \E p \in Bijection(DOMAIN cat_entries, DOMAIN cat_entries) :
       /\ \A i, j \in DOMAIN cat_entries :
            i < j => ~CompareEntries(cat_entries[p[j]], cat_entries[p[i]])
       /\ order' = [i \in DOMAIN cat_entries |-> p[i]]
  /\ step' = "entries"
  /\ UNCHANGED <<inputs, shown, printed_gap, first, place, cells>>

NextLine(at) == [row |-> at.row + 1, col |-> 0, current_col |-> 0]

\* colstream::advance_to_column: its own line end leaves current_col alone.
AdvanceToColumn(at, n) ==
  [at EXCEPT !.row = IF at.col > n THEN @ + 1 ELSE @, !.col = n]

\* Wrong: a column may begin at the right margin.
NextColumnAtMargin(at) ==
  LET c == at.current_col + 1
      next == IF at.col = c * ColWidth THEN (c + 1) * ColWidth ELSE c * ColWidth
  IN IF next > Rmargin THEN NextLine(at)
     ELSE AdvanceToColumn([at EXCEPT !.current_col = c], next)

NextColumn(at) ==
  LET c == at.current_col + 1
      next == IF at.col = c * ColWidth THEN (c + 1) * ColWidth ELSE c * ColWidth
  IN IF next >= Rmargin THEN NextLine(at)
     ELSE AdvanceToColumn([at EXCEPT !.current_col = c], next)

Tab == 9
LineEnd == 10
Return == 13
TabWidth == 8

\* colstream::update_col, and the row that a line end puts below; current_col stays.
UpdateCol(at, ch) ==
  CASE ch = LineEnd -> [at EXCEPT !.row = @ + 1, !.col = 0]
    [] ch = Return -> [at EXCEPT !.col = 0]
    [] ch = Tab -> [at EXCEPT !.col = @ + (TabWidth - (@ % TabWidth))]
    [] OTHER -> [at EXCEPT !.col = @ + 1]

\* The place behind a text that begins at one.
PutOut(at, text) ==
  LET upTo[n \in 0..Len(text)] == IF n = 0 THEN at ELSE UpdateCol(upTo[n - 1], text[n])
  IN upTo[Len(text)]

Blanks(n) == [i \in 1..n |-> 32]

\* Blanks, the directory and its dot or two blanks, and the name, at the right of eight
\* characters; and for a locked file its L at the right of five.
Text(e) ==
  LET text == Blanks(IF ui = "Watford" THEN 3 ELSE 2)
                \o (IF e.dir # cat_directory THEN <<e.dir, 46>> ELSE Blanks(2)) \o e.name
  IN Blanks(IF Len(text) < 8 THEN 8 - Len(text) ELSE 0) \o text
       \o (IF e.locked THEN Blanks(4) \o <<76>> ELSE <<>>)

ShowEntry ==
  /\ step = "entries" /\ shown < Len(order)
  /\ LET e == cat_entries[order[shown + 1]]
         gap == e.dir # cat_directory /\ ~printed_gap
         spaced == IF ~gap THEN place
                   ELSE NextLine(IF place.col > 0 THEN NextLine(place) ELSE place)
         at == IF gap \/ first THEN spaced ELSE NextColumn(spaced)
     IN /\ printed_gap' = (printed_gap \/ gap)
        /\ cells' = Append(cells, [entry |-> order[shown + 1], row |-> at.row, col |-> at.col])
        /\ place' = PutOut(at, Text(e))
  /\ first' = FALSE
  /\ shown' = shown + 1
  /\ UNCHANGED <<inputs, order, step>>

EndCat ==
  /\ step = "entries" /\ shown = Len(order)
  /\ place' = NextLine(place)
  /\ step' = "shown"
  /\ UNCHANGED <<inputs, order, shown, printed_gap, first, cells>>

ShowCat == Sort \/ ShowEntry \/ EndCat

CatSpec == CatInit /\ [][ShowCat]_cvars
-----------------------------------------------------------------------------
(* Properties. *)

CatTypeOK ==
  /\ order \in Seq(DOMAIN cat_entries) /\ shown = Len(cells) /\ shown <= Len(cat_entries)
  /\ place.row \in Nat /\ place.col \in Nat /\ place.current_col \in 0..3
  /\ step \in {"sort", "entries", "shown"} /\ printed_gap \in BOOLEAN /\ first \in BOOLEAN

Shown(k) == cat_entries[cells[k].entry]
IsCurrent(k) == Shown(k).dir = cat_directory
NewGroup(k) == k > 1 /\ IsCurrent(k - 1) /\ ~IsCurrent(k)

\* MapDir takes a file of directory 0 for one of the current directory.
NoneInDirectory0 == \A e \in DOMAIN cat_entries : cat_entries[e].dir # 0

\* No TAB, line end or carriage return is put out in a directory or a name: without one, a file
\* is as wide as its text is long.
Plain(e) ==
  /\ e.dir # cat_directory => e.dir \notin {Tab, LineEnd, Return}
  /\ \A i \in DOMAIN e.name : e.name[i] \notin {Tab, LineEnd, Return}
AllPlain == \A e \in DOMAIN cat_entries : Plain(cat_entries[e])

\* Every file is shown, once, from where a column of the screen begins, and none above the one
\* before.  Where all are plain, each ends within its column, and begins right of the one before.
\* Where none is in directory 0, those of the current directory come first, then the others by
\* directory, and by name within a directory; and if they are plain too, behind one empty line,
\* and a line is filled before the next is begun.
FilesInColumns ==
  /\ step = "shown" =>
       /\ Len(cells) = Len(cat_entries)
       /\ \A e \in DOMAIN cat_entries : \E k \in DOMAIN cells : cells[k].entry = e
  /\ \A j, k \in DOMAIN cells :
       j < k =>
         /\ NoneInDirectory0 =>
              /\ IsCurrent(k) => IsCurrent(j)
              /\ ~IsCurrent(j) => Lower(Shown(j).dir) <= Lower(Shown(k).dir)
         /\ Shown(j).dir = Shown(k).dir => ~CaseInsensitiveLess(Shown(k).name, Shown(j).name)
  /\ \A k \in DOMAIN cells :
       /\ cells[k].col % ColWidth = 0 /\ cells[k].col + ColWidth <= Rmargin
       /\ k > 1 => cells[k].row >= cells[k - 1].row
  /\ AllPlain /\ step = "entries" /\ shown > 0 =>
       /\ place.row = cells[shown].row
       /\ place.col \in cells[shown].col + 1..cells[shown].col + ColWidth - 1
  /\ \A k \in DOMAIN cells : AllPlain =>
       (k > 1 /\ cells[k].row = cells[k - 1].row => cells[k].col > cells[k - 1].col)
  /\ \A k \in DOMAIN cells : AllPlain /\ NoneInDirectory0 =>
       /\ k = 1 => cells[k].col = 0 /\ cells[k].row = (IF IsCurrent(k) THEN 0 ELSE 1)
       /\ NewGroup(k) => cells[k].col = 0 /\ cells[k].row = cells[k - 1].row + 2
       /\ k > 1 /\ ~NewGroup(k) =>
            \/ cells[k].row = cells[k - 1].row /\ cells[k].col = cells[k - 1].col + ColWidth
            \/ /\ cells[k].row = cells[k - 1].row + 1 /\ cells[k].col = 0
               /\ cells[k - 1].col + ColWidth = Rmargin

\* cat shows every file once, in its order and its columns.
CatInColumns == CatTypeOK /\ FilesInColumns
=============================================================================
