------------------------------ MODULE FileNames ------------------------------
(***************************************************************************)
(* How the commands that name files find them: parse_filename (fsp.cc) and *)
(* has_name for type, list and dump, and AFSPMatcher (afsp.cc), which makes*)
(* a regular expression of a wildcard, for info.  Both take the same names *)
(* apart, each in its own way.                                             *)
(*                                                                         *)
(* A text is a sequence of characters.                                     *)
(***************************************************************************)
EXTENDS Integers, FiniteSets, SequencesExt

CONSTANTS
  MaxSurface,  (* the largest drive number, 2^32 - 1                        *)
  Discs        (* what can be mounted: surface -> volume letter -> entries  *)

NoLetter == ""
Letters == {"A", "B", "C", "D", "E", "F", "G", "H"}
Digits == <<"0", "1", "2", "3", "4", "5", "6", "7", "8", "9">>
IsDigit(ch) == ch \in ToSet(Digits)
DigitValue(ch) == (CHOOSE d \in DOMAIN Digits : Digits[d] = ch) - 1

\* The letters of the texts here, with their small ones.
Small == [A |-> "a", B |-> "b", C |-> "c", D |-> "d", E |-> "e", F |-> "f", G |-> "g", H |-> "h"]
Down(ch) == IF ch \in DOMAIN Small THEN Small[ch] ELSE ch
Up(ch) == IF \E c \in DOMAIN Small : Small[c] = ch THEN CHOOSE c \in DOMAIN Small : Small[c] = ch ELSE ch

\* The character at p, or what a C++ string has behind its last.
At(text, p) == IF p \in DOMAIN text THEN text[p] ELSE ""
From(text, p) == SubSeq(text, p, Len(text))
Failed == [ok |-> FALSE]
-----------------------------------------------------------------------------
(* Drive numbers and volumes (driveselector.cc). *)

Blanks(text) == CHOOSE n \in 0..Len(text) : At(text, n + 1) # " " /\ \A i \in 1..n : text[i] = " "
RunOfDigits(text, p) ==
  CHOOSE n \in 0..Len(text) :
    ~IsDigit(At(text, p + n)) /\ \A i \in p..p + n - 1 : IsDigit(At(text, i))
ValueOf(digits) == FoldLeft(LAMBDA n, ch : 10 * n + DigitValue(ch), 0, digits)

\* std::stol, and coerce to what a drive number may be; end is how much was read.
ParseSurface(text) ==
  LET sign == IF At(text, Blanks(text) + 1) \in {"+", "-"} THEN 1 ELSE 0
      p == Blanks(text) + sign + 1
      n == RunOfDigits(text, p)
      value == ValueOf(SubSeq(text, p, p + n - 1))
      negative == At(text, p - 1) = "-" /\ sign = 1
  IN IF n = 0 \/ (negative /\ value > 0) \/ value > MaxSurface THEN Failed
     ELSE [ok |-> TRUE, surface |-> value, end |-> p + n - 1]

\* VolumeSelector::parse
ParseVolume(text) ==
  LET s == ParseSurface(text) IN
    IF ~s.ok THEN Failed
    ELSE IF At(text, s.end + 1) \in Letters
      THEN [ok |-> TRUE, end |-> s.end + 1, vol |-> [surface |-> s.surface, letter |-> text[s.end + 1]]]
      ELSE [ok |-> TRUE, end |-> s.end, vol |-> [surface |-> s.surface, letter |-> NoLetter]]

DigitsOf(n) ==
  LET f[m \in 0..n] == IF m < 10 THEN <<Digits[m + 1]>> ELSE Append(f[m \div 10], Digits[(m % 10) + 1])
  IN f[n]
VolumeText(vol) == DigitsOf(vol.surface) \o (IF vol.letter = NoLetter THEN <<>> ELSE <<vol.letter>>)

\* FileSystem::mount: of several volumes, the first is meant if none is named.
Mount(vol) ==
  LET volumes == IF vol.surface \in DOMAIN Discs THEN Discs[vol.surface] ELSE <<>>
      key == IF Cardinality(DOMAIN volumes) > 1 /\ vol.letter = NoLetter THEN "A" ELSE vol.letter
  IN IF key \in DOMAIN volumes THEN [ok |-> TRUE, entries |-> volumes[key]] ELSE Failed
-----------------------------------------------------------------------------
(* Plain names. *)

\* parse_filename
ParseFilename(ctx, fsp) ==
  LET hasDrive == At(fsp, 1) = ":"
      got == ParseVolume(From(fsp, 2))
      name == IF hasDrive THEN From(fsp, got.end + 3) ELSE fsp
      vol == IF hasDrive THEN got.vol ELSE ctx.vol
  IN IF hasDrive /\ (~got.ok \/ At(fsp, got.end + 2) # ".") THEN Failed
     ELSE IF Len(name) > 2 /\ name[2] = "."
       THEN [ok |-> TRUE, vol |-> vol, dir |-> name[1], name |-> From(name, 3)]
       ELSE [ok |-> TRUE, vol |-> vol, dir |-> ctx.dir, name |-> name]

CaseInsensitiveEqual(s, t) == Len(s) = Len(t) /\ \A i \in DOMAIN s : Down(s[i]) = Down(t[i])

\* Wrong: a file of any directory will do.
HasNameAnywhere(entry, wanted) == CaseInsensitiveEqual(wanted.name, entry.name)

\* CatalogEntry::has_name: the directory has to be as it is written.
HasName(entry, wanted) ==
  wanted.dir = entry.dir /\ CaseInsensitiveEqual(wanted.name, entry.name)
-----------------------------------------------------------------------------
(* Wildcards. *)

IsDrive(t) ==
  /\ Len(t) >= 3 /\ t[1] = ":" /\ Last(t) = "." /\ IsDigit(t[2])
  /\ \A i \in 3..Len(t) - 1 : IsDigit(t[i]) \/ (i = Len(t) - 1 /\ t[i] \in Letters)

\* transform_string_with_regex for ^(:[0-9]+[A-H]?[.])?([^apart][.])?([^apart]+)$: what is left
\* out is supplied.  The dots leave one way at most to take a text apart.
Qualified(vol, dir, text, apart) ==
  LET Ways == {w \in (0..Len(text)) \X (0..Len(text)) :
                 /\ w[1] = 0 \/ IsDrive(SubSeq(text, 1, w[1]))
                 /\ \/ w[2] = w[1]
                    \/ w[2] = w[1] + 2 /\ text[w[2] - 1] \notin apart /\ text[w[2]] = "."
                 /\ w[2] < Len(text) /\ \A i \in w[2] + 1..Len(text) : text[i] \notin apart}
      way == CHOOSE w \in Ways : TRUE
      drive == IF way[1] = 0 THEN <<":">> \o VolumeText(vol) \o <<".">> ELSE SubSeq(text, 1, way[1])
      directory == IF way[2] = way[1] THEN <<dir, ".">> ELSE SubSeq(text, way[1] + 1, way[2])
  IN IF Ways = {} THEN Failed
     ELSE [ok |-> TRUE, text |-> drive \o directory \o From(text, way[2] + 1)]

ExtendWildcard(vol, dir, wild) == Qualified(vol, dir, wild, {"."})
Qualify(vol, dir, name) == Qualified(vol, dir, name, {".", ":", "#", "*"})

\* Wrong: a letter is only what was typed.
ExpressionOfTyped(ch) ==
  CASE ch = ":" -> <<":">>
    [] ch = "#" -> <<"[", "^", ".", "]">>
    [] ch = "*" -> <<"[", "^", ".", "]", "*">>
    [] OTHER -> <<"[", ch, "]">>

ExpressionOf(ch) ==
  CASE ch = ":" -> <<":">>
    [] ch = "#" -> <<"[", "^", ".", "]">>
    [] ch = "*" -> <<"[", "^", ".", "]", "*">>
    [] Up(ch) # Down(ch) -> <<"[", Up(ch), Down(ch), "]">>
    [] OTHER -> <<"[", ch, "]">>

\* Between its ^ and its $.
Expression(wild) == FlattenSeq([i \in DOMAIN wild |-> ExpressionOf(wild[i])])

\* regcomp, for characters and bracket expressions, with and without a star.  A bracket
\* expression ends with the first ] that is not its first member; [. [= and [: begin something
\* else that no text here ends.
Compile(ere) ==
  LET Negated(p) == ere[p] = "[" /\ At(ere, p + 1) = "^"
      Member(p) == IF Negated(p) THEN p + 2 ELSE p + 1
      Ends(p) == {e \in Member(p) + 1..Len(ere) : ere[e] = "]"}
      Opens(i) == ere[i] = "[" /\ At(ere, i + 1) \in {".", "=", ":"}
      Bad(p) == ere[p] = "[" /\ (Ends(p) = {} \/ \E i \in Member(p)..Min(Ends(p)) : Opens(i))
      End(p) == IF ere[p] = "[" THEN Min(Ends(p)) ELSE p
      Atom(p) ==
        [negated |-> Negated(p), star |-> At(ere, End(p) + 1) = "*",
         members |-> IF ere[p] = "[" THEN {ere[i] : i \in Member(p)..End(p) - 1} ELSE {ere[p]}]
      atoms[p \in 1..Len(ere) + 1] ==
        IF p > Len(ere) THEN [ok |-> TRUE, atoms |-> <<>>]
        ELSE IF Bad(p) THEN Failed
        ELSE LET behind == atoms[End(p) + (IF Atom(p).star THEN 2 ELSE 1)]
             IN IF behind.ok THEN [ok |-> TRUE, atoms |-> <<Atom(p)>> \o behind.atoms] ELSE Failed
  IN atoms[1]

\* regexec, for a text that has to match from its beginning to its end.
Matches(atoms, text) ==
  LET Is(a, ch) == (ch \in a.members) # a.negated
      m[i \in 1..Len(atoms) + 1, j \in 1..Len(text) + 1] ==
        IF i > Len(atoms) THEN j > Len(text)
        ELSE LET here == j <= Len(text) /\ Is(atoms[i], text[j]) IN
          IF atoms[i].star THEN m[i + 1, j] \/ (here /\ m[i, j + 1]) ELSE here /\ m[i + 1, j + 1]
  IN m[1, 1]

\* The constructor of AFSPMatcher, with convert_wildcard_into_extended_regex.
MakeMatcher(ctx, wild) ==
  LET full == ExtendWildcard(ctx.vol, ctx.dir, wild)
      got == ParseVolume(From(full.text, 2))
      compiled == Compile(Expression(full.text))
  IN IF ~full.ok \/ ~got.ok \/ At(full.text, got.end + 2) # "." \/ ~compiled.ok THEN Failed
     ELSE [ok |-> TRUE, vol |-> got.vol, atoms |-> compiled.atoms]

\* AFSPMatcher::matches: the name is taken apart as if a user had typed it.
Selects(matcher, entry) ==
  LET full == Qualify(matcher.vol, entry.dir, entry.name)
  IN full.ok /\ Matches(matcher.atoms, full.text)
-----------------------------------------------------------------------------
(* The commands. *)

VARIABLES
  command, arg, ctx,    \* what the user asks for, and the current volume and directory
  matcher, wanted,      \* info's, and body_command's
  catalog, entry,       \* the entries of the volume, and the one the loop of info is at
  listed, found,        \* what info lists, and the entry that body_command finds
  doing
request == <<command, arg, ctx>>
nvars == <<request, matcher, wanted, catalog, entry, listed, found, doing>>

Begin ==
  /\ matcher = Failed /\ wanted = Failed /\ catalog = <<>> /\ entry = 1
  /\ listed = <<>> /\ found = 0 /\ doing = "name"

Pattern ==
  /\ doing = "name" /\ command = "info"
  /\ matcher' = MakeMatcher(ctx, arg)
  /\ doing' = IF matcher'.ok THEN "mount" ELSE "refused"
  /\ UNCHANGED <<request, wanted, catalog, entry, listed, found>>

Name ==
  /\ doing = "name" /\ command = "type"
  /\ wanted' = ParseFilename(ctx, arg)
  /\ doing' = IF wanted'.ok THEN "mount" ELSE "refused"
  /\ UNCHANGED <<request, matcher, catalog, entry, listed, found>>

MountVolume ==
  /\ doing = "mount"
  /\ LET got == Mount(IF command = "info" THEN matcher.vol ELSE wanted.vol) IN
       IF got.ok THEN catalog' = got.entries /\ doing' = "entries"
       ELSE catalog' = catalog /\ doing' = "not mounted"
  /\ UNCHANGED <<request, matcher, wanted, entry, listed, found>>

InfoEntry ==
  /\ doing = "entries" /\ command = "info" /\ entry <= Len(catalog)
  /\ listed' = IF Selects(matcher, catalog[entry]) THEN Append(listed, entry) ELSE listed
  /\ entry' = entry + 1
  /\ UNCHANGED <<request, matcher, wanted, catalog, found, doing>>

InfoDone ==
  /\ doing = "entries" /\ command = "info" /\ entry > Len(catalog)
  /\ doing' = "listed"
  /\ UNCHANGED <<request, matcher, wanted, catalog, entry, listed, found>>

\* find_catalog_entry_for_name: the first that has the name.
Find ==
  /\ doing = "entries" /\ command = "type"
  /\ LET named == {e \in DOMAIN catalog : HasName(catalog[e], wanted)} IN
       IF named = {} THEN found' = 0 /\ doing' = "not found"
       ELSE found' = Min(named) /\ doing' = "found"
  /\ UNCHANGED <<request, matcher, wanted, catalog, entry, listed>>

NamesNext == Pattern \/ Name \/ MountVolume \/ InfoEntry \/ InfoDone \/ Find
-----------------------------------------------------------------------------
(* Names and wildcards as the manual has them (doc/dfs.1). *)

\* :N.D.NAME, where the drive and the directory may be left out.
InManual(text) ==
  LET dots == {i \in DOMAIN text : text[i] = "."}
      drive == IF At(text, 1) = ":" /\ dots # {} THEN SubSeq(text, 1, Min(dots)) ELSE <<>>
      rest == From(text, Len(drive) + 1)
      directory == IF At(rest, 2) = "." THEN <<rest[1]>> ELSE <<>>
      name == From(rest, IF directory = <<>> THEN 1 ELSE 3)
      volume == ParseVolume(From(drive, 2))
  IN IF \/ name = <<>> \/ "." \in ToSet(name) \cup ToSet(directory) \/ name[1] = ":"
        \/ drive # <<>> /\ (~IsDrive(drive) \/ ~volume.ok)
     THEN Failed
     ELSE [ok |-> TRUE, name |-> name,
           vol |-> IF drive = <<>> THEN ctx.vol ELSE volume.vol,
           dir |-> IF directory = <<>> THEN <<ctx.dir>> ELSE directory]

\* # is any character but a dot, * any number of them; small letters are as good as capitals.
Fits(pattern, text) ==
  LET f[i \in 1..Len(pattern) + 1, j \in 1..Len(text) + 1] ==
        IF i > Len(pattern) THEN j > Len(text)
        ELSE IF pattern[i] = "*"
          THEN f[i + 1, j] \/ (j <= Len(text) /\ text[j] # "." /\ f[i, j + 1])
        ELSE /\ j <= Len(text)
             /\ IF pattern[i] = "#" THEN text[j] # "." ELSE Down(pattern[i]) = Down(text[j])
             /\ f[i + 1, j + 1]
  IN f[1, 1]

Meant(e) == LET m == InManual(arg) IN m.ok /\ Fits(m.dir, <<e.dir>>) /\ Fits(m.name, e.name)
-----------------------------------------------------------------------------
(* Properties. *)

NamesTypeOK ==
  /\ command \in {"info", "type"} /\ entry \in 1..Len(catalog) + 1
  /\ ToSet(listed) \subseteq 1..entry - 1 /\ found \in 0..Len(catalog)
  /\ doing \in {"name", "mount", "entries", "refused", "not mounted", "listed", "not found", "found"}

\* A caret makes a bracket expression that goes on past its end, and a zero in front of the
\* number of a drive is a character like others.
UsualDrive == At(arg, 1) = ":" /\ At(arg, 2) = "0" => ~IsDigit(At(arg, 3))
UsualWildcard == "^" \notin ToSet(arg) /\ UsualDrive

\* A name that a disc filing system would have written.
UsualName(e) == Len(e.name) > 0 /\ ToSet(e.name) \cap {".", ":", "#", "*"} = {}

\* info lists the files that the manual says a wildcard means, in the order of the catalogue and
\* of the volume it names, and refuses no wildcard that has a meaning.
WildcardsAsDocumented ==
  command = "info" /\ UsualWildcard =>
    /\ doing = "listed" =>
         \A e \in DOMAIN catalog :
           UsualName(catalog[e]) => (e \in ToSet(listed) <=> Meant(catalog[e]))
    /\ \A i, j \in DOMAIN listed : i < j => listed[i] < listed[j]
    /\ doing \in {"entries", "listed"} /\ InManual(arg).ok
         => catalog = Mount(InManual(arg).vol).entries
    /\ doing = "refused" => ~InManual(arg).ok

\* The two ways to take a name apart agree: what type finds under a name without wildcards, info
\* lists under it; and what info lists and is in the directory as it was typed, type finds, or
\* a file listed earlier that has the same name.
FoundMeansListed ==
  command = "type" /\ UsualWildcard /\ ToSet(arg) \cap {"#", "*"} = {} =>
    LET m == MakeMatcher(ctx, arg) IN
    /\ doing = "found" /\ UsualName(catalog[found]) /\ (At(arg, 1) = ":" => IsDigit(At(arg, 2))) =>
         m.ok /\ Mount(m.vol) = Mount(wanted.vol) /\ Selects(m, catalog[found])
    /\ m.ok /\ Mount(m.vol).ok /\ doing \in {"refused", "not mounted", "not found", "found"} =>
         \A e \in DOMAIN Mount(m.vol).entries :
           LET it == Mount(m.vol).entries[e] IN
             UsualName(it) /\ Selects(m, it) /\ <<it.dir>> = InManual(arg).dir
               => doing = "found" /\ found <= e
=============================================================================
