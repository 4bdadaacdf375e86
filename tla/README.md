# beebtools: a TLA+ development

beebtools reads disc images of the BBC Micro. `dfs` (C++, `src/dfs`) opens image
files, works out how the discs in them are laid out, and runs one command on
them; `bbcbasic_to_text` (C, `src/basic`) turns tokenised BASIC programs back
into text. Both are sequential and only read their inputs. What is hard in them
is not concurrency: it is that they walk through data nobody checked. Positions,
lengths, counts and slots are computed from bytes of a file that may be damaged,
short, or laid out by another convention, and one step of several can fail after
the others have changed something. The models keep those loops step by step and
abstract the bytes to what a decision of the code tells apart.

## The system

| part | state | operations | talks to |
|---|---|---|---|
| drive table (`storage.cc`, `driveselector.cc`, `main.cc`) | allocation strategy; slots with their devices and caches; list of live image files | the option loop, connecting an image under either strategy, `--show-config`, mounting | image files put devices in it; every command takes devices out |
| sector image files (`img_sdf.cc`, `img_mmb.cc`, `img_fileio.cc`) | views on a file: skip, take, leave, total | building the views; reading a block of a view | reads through the sector cache of the drive table |
| sector cache (`storage.cc`) | the first blocks of a drive, read or not | get, put | between a command and its device |
| track decoders (`track_fm.cc`, `track_mfm.cc`, `track.cc`) | position in a bit stream, state, the address last read, sectors found | two state machines; test that the sectors found make a usable track | called for each track by the HFE and HxC readers |
| flux image files (`img_hfe.cc`, `img_hxcmfm.cc`) | track look-up table, decoded sectors by address | read header, copy the side's half of each block, decode, read a sector | track decoders; appear as devices |
| compressed images (`img_gzfile.cc`) | zlib stream, temporary file | inflate until the end of the stream | the file it writes is opened as a sector image |
| identification (`identify.cc`, `geometry.cc`) | candidates left; format found | probe the format, drop geometries, pick the smallest | called when an image file is opened and when a side is connected |
| catalogue (`dfs_catalog.cc`) | fragments of up to 31 entries | read, validate, look a file up, map sectors, read a file | identification calls it to decide; commands to list |
| volumes (`opus_cat.cc`, `dfs_volume.cc`, `dfs_filesystem.cc`) | volume letters with their first sector and length | read the disc catalogue, read a block of a volume, map sectors | between a device and a catalogue |
| commands (`cmd_*.cc`, `dfs_unused.cc`) | loop variables of the command | cat, info, list, type, dump, extract-files, extract-unused, free, space, sector-map, show-titles | mount through the drive table |
| file names (`fsp.cc`, `afsp.cc`) | none | parse a name; make a regular expression of a wildcard and match entries with it | commands, and through them the drive table |
| BASIC detokeniser (`src/basic`) | position in a line, in-string and indent state, token maps | split into lines, expand tokens, indent | none |

What makes each part correct:

- *drive table*: two images never share a slot, nor a physical disc unless the
  user asked for it; what is mounted is an image that still exists, read by the
  format found for it; an image goes in whole or the program stops.
- *sector images and cache*: every block of every side is shown once, from the
  right place, whether it came from the cache or the file, and reading past the
  end of a side shows nothing.
- *track decoders*: a damaged place costs a few sectors, and the decoder finds its
  way again; a record is returned under another sector's address only if marks were lost.
- *flux images*: the two sides of an HFE file are told apart and no bit is used
  twice; a block of a drive is the sector of that address or is not there.
- *compressed images*: what is opened is all of what was compressed.
- *catalogue*: a catalogue that passes `valid()` describes files that do not
  overlap; one that a disc filing system wrote passes; a file is read whole.
- *volumes*: volumes tile the disc, and a read in one does not see another.
- *identification*: an image made by the conventions is recognised for what it
  is; one recognised is big enough for its file system.
- *commands on free space*: the free sectors they report are the ones no file
  and no catalogue uses, each once.
- *extraction*: a file that was written is whole, or the command says that it
  failed; success means every file, whatever their names.
- *cat*: each file is shown once, sorted, and where names have only characters that are
  one column wide, none runs into the next.
- *file names*: a name means the same file to every command, and a wildcard means
  what the manual says.
- *BASIC*: every line, token and line number of a saved program is listed, and a
  program that was cut off is refused.

Which of these behaviours are hard, and where, is the list of hazards in
`PROJECT.json`. No part runs concurrently with another and nothing is persisted
between runs, so there are no interleavings or recoveries: the hazards are long
sequences of legal steps, loops at their boundaries, values kept from an earlier
pass, and failures after half of the work.

## How the models are written

One step is one pass of a loop of the code, with everything the pass calls. `pc`
or `stage` is the place between loops. What the program reads (options, cells of
a track, entries, bytes) is chosen in `Init` or by `\E` and does not change. The
modules declare the code's numbers (sector size, table size, buffer sizes, bits
of a byte) as CONSTANTS, so that the instances can be small and the proofs
general; the `MC` module of each adds the bounds and the initial states.

Operators that begin with a comment `Wrong:` are plausible mistakes. No
specification uses them: each replaces one definition of the code to show that a
property notices.

Every module with loops has `Spec == Init /\ [][Next]_vars`. Fairness is added only
where a liveness property is checked, and only for the steps of the running
loop: a sequential program that is in a loop executes its next pass. Nothing is
assumed of the user, of the files or of the medium.

Deadlock is not checked where the modelled program stops (everywhere but in
`storage`, whose program always ends in a state that stutters).

## The modules, what their runs show, and what is proved

### Storage, DriveMap, StorageProofs: the drive table (run `storage`)

`Storage` is `main()`'s option loop with everything it calls in
`StorageConfiguration`. `drives` and `caches` are the two maps, `files` the size
of the vector of live images, `pc` the place in `main()`; the other variables are
the loop variables of `connect_drives` and `show_drive_configuration`. One pass
of a loop is one step, so the table is seen half filled. Each entry of the table
carries, as history, the strategy in force when it was made. Which files open,
and how many sides they have, is chosen freely.

`DriveMap` is the promise: a table into which an image is inserted whole, on
slots and discs nobody uses, or not at all. `Storage` implements it
(`ImplementsDriveMap`) with `map` read as the entries of images that `main()` has
accepted: a half-connected image is not visible until its `connect_drives` has
returned.

*Checked:* every mixture of the two strategies with three images of up to three
sides, on eight slots. Eight slots are two physical discs, and three images of
three sides need more: both strategies meet the end of the table, in the middle
of an image. `LoopsEnd` assumes weak fairness of the loops' bodies only.

*Proved*, for every table size, number of files and number of sides: eight
properties, among them `PhysicalDiscIntact`, `NoDanglingDrive` and
`MountsALiveDisc`, and the refinement (`Refinement == Spec => ImplementsDriveMap`).
The invariants are not inductive alone. The strengthening adds that a
slot in use was filled in the order its strategy prescribes, that the slots the
current PHYSICAL loop will still use are free (this is what makes the check of a
single opposite slot enough), and that `caches` and `drives` have the same
entries. The refinement is step by step: every pass of the loops is a stutter of
`DriveMap` but the one that accepts an image. For that one the proof needs what
the loops have done by then: the slots of the image are filled from the lowest
place that was free when it began, without a slot of another image among them.

### Track, FmTrack, MfmTrack, Tracks, TracksProofs: decoding a track (run `tracks`)

A track is a sequence of `Cell`s: sync bytes, address marks, headers, gaps,
data, CRC. A cell is readable, reads as something else, or is noise the bit
reader rejects. That is all the decoders can tell apart: the bit patterns and
the CRC polynomial only decide between those cases. `Track` holds what the two
encodings share (searching, the address decoder, `check_track_is_supported`) and
the properties; `FmTrack` and `MfmTrack` are the two state machines, one step
per turn of the `while` loop. The MFM decoder looks for a sync and then looks at
the mark; the FM decoder looks for a mark. That difference decides what damage
can do. `Tracks` is both on the same track: its variable `encoding` is what an
image file says of its tracks.

*Checked:* eight layouts of three or four sectors (in order, interleaved, with a
deleted record, a large sector in the middle or first, a sector of the other side,
an unknown size code, a repeated sector) with every pair of cells damaged in
either way. Two damaged cells are what it takes for the MFM decoder to misfile a
record; three sectors are one before, at and behind the damage, and the fourth
goes with the large sector, whose record can cost three. `LossBounded`: a damaged cell costs two
sectors at most, or in FM with sectors of several sizes three.
`AcceptedLosesOnlyEnds`: on a track that `check_track_is_supported` accepts, what
is missing was at an end. `MisfiledOnlyByLostMarks` says exactly what damage makes
data come under another sector's address; the code cannot rule it out (see the
divergences).

*Proved*, for tracks of any length with any damage. Without an assumption: type
correctness (positions never run off the track), `ResultsInTrackOrder`, and what
lies between a header and the record returned for it (`NearestRecord`,
`NothingPassedOver`). The invariant adds that everything returned lies behind the
current position, and what the header just read was. Of a track `AsWritten`,
that is one on which headers, marks and bodies are where a disc controller puts
them, however little of it can still be read:

- `Misfiled`: `MisfiledOnlyByLostMarks`. The invariant says which cells each
  result was read from; that no readable mark is between them does the rest.
- `AcceptedIsWhole`: `AcceptedLosesOnlyEnds`. `check_track_is_supported` looks at
  a record number and the next; that no number between the first and the last is
  missing is an induction, made by looking at the least number that would be
  (`NatLeast`: a set of numbers that is not empty has a least element).
- `DamageContained`: `LossBounded`, if also all of each sector is on the track
  (`WholeSectors`). Each sector that is lost is charged to a damaged cell in one of
  two or three ways (`Charged`): it is its own; or it holds the mark that is taken
  for the one that is damaged; or, in FM, it is the sector behind that. A cell is
  charged once in each way, so the charges are an injection and the bound follows.
  The invariant `LossInv` says that every sector that begins before the decoder's
  position, or before the header it holds, is recovered or charged.

`MCTracks` assumes (`TracksAsWritten`), and TLC confirms, that every track of the
run satisfies both conditions, so that they are conditions on how a track was
written, not on its damage.

The proofs corrected the model twice. `AcceptedLosesOnlyEnds` is false when two
sectors on the track have the same record number, even if one of them is
never read: `RecordNumbersDiffer` is now about all sectors on the track. And
`LossBounded`, of two sectors for each damaged cell, is false in FM when a large
sector is before a small one: when the mark of the large one is lost, the next
record is read with its size, over the end of its own sector and up to the mark of
the third. `copy_fm_bytes` (src/dfs/track_fm.cc:56) stops behind that mark, and the
third sector is not found.

### ImageFile, ImageFileProofs: sector images and the cache (runs `image_file`, `dump_sector`)

`ImageFile` opens a .ssd, .dsd or .mmb file step by step (one step per view
added), connects the views, and then answers reads through `SectorCache`. The
file's content is which sector of which side is at which position. `Position`
keeps the code's division and remainder; the sizes 80 tracks, 511 slots and 4
cached sectors are constants. `DumpSector` is the command that reads a sector by
track and number: `get_arg`'s limits, and the block number it puts into a
`sector_count_type`, where a negative one wraps (`Wrap`, 2^32 in the program, 64 in the run).

*Checked:* every kind, geometry and file length within two cylinders of two
sectors and three slots, with files shorter and longer than the geometry says:
two cylinders are what interleaving needs to be wrong in the second; two cached
sectors leave blocks that are not cached. The arguments of dump-sector go from -1
to one past the last. `AnswerIsTheSector` compares each answer with what the
format keeps there; `Inv` adds that no position is shown twice, that the cache
agrees with the file, and that dump-sector finds its block. `dump_sector` is the
finding: a negative sector number shows a sector of the track before.

*Proved*, for any geometry, file length, number of slots and size of the cache:
`AnswerIsTheSector` and all of `Inv`. The invariant gives each drive the view
that its place calls for; a lemma on division shows that such a view maps a block
to where the format keeps the sector; and what the cache holds is what the view
would return, so it makes no difference. That no sector is shown twice is the
uniqueness of quotient and remainder, on the two levels of interleaving. The
proof of dump-sector needs `Wrap` to be more than the sectors of a side, which
is why `WrapAssumption` says so.

### CatalogData, Catalog, CatalogProofs: catalogues (run `catalog`)

`CatalogData` has the arithmetic of entries (`last_sector`, an empty file's
sectors, the catalogue sectors of each format) that three modules share. An entry
is its start sector and length; names do not matter to these parts. `Catalog` is
`CatalogFragment::valid`, entry by entry, with `last_file_start` as in the code,
then `CatalogEntry::visit_file_body_piecewise`, sector by sector.

*Checked:* three entries, or fragments of two and one entries, on discs of five
sectors of two bytes, with files that are empty, one sector and a sector and a
half, and media that end earlier. `valid()` compares each file only with the file
before it that was not empty: a third entry, with an empty one in the middle, is
what can go wrong. `ValidMeansInside` leaves out the first file, which the code
does not check; `ReadWhole` says of empty files what the code does.

*Proved*, for any number of entries on any device: types, and that the bytes left
never go below zero; `ValidMeansDescending`, from the invariant that the
entries passed so far are in order and the last start remembered is the least of
the files among them; `ValidMeansInside`; `ReadsOwnSectors`, from the former
and that what was visited lies between the start and the current sector;
`WellFormedAccepted`, from the invariant that the start an entry is compared with
is that of a file before it; and `ReadWhole`, from what has been visited and what is
left of the length at each sector.

### Commands on the files of a catalogue (run `disc_commands`)

`MCDiscCommands` runs one of four models, which its variable `running` names.
They share no state: each command mounts a disc, does its work and ends.
`DiscCommandsProofs` has the proofs about the first two.

**ExtractFiles: extract-files.** Each step that touches the
destination directory is an action: creating the body, a sector read and written,
closing, creating the `.inf`; and for each of them its failure. `files` is the
directory, a function from names to what is in the file; `held` is what the
`ofstream` has not yet given to the system, any amount up to `BufferBytes`. A name
is a sequence of what is between its dots, so that the body of one entry can have
the name of another's `.inf`, as it can on a disc.

*Checked:* up to two entries out of twelve that take each other's names (`X` and
`INF` in the directories `D` and `X`), empty or of one and a half sectors, from
each current directory and none, on a medium that ends within the files or not,
and with or without a file of such a name there before. `FinishedAreWhole` says
what is on the host wherever the command stops; `AllExtracted` what success
means. Two entries are enough for every clash, which is between two files.

*Proved* (DiscCommandsProofs), for any number of entries and any names: both. The files are numbered
in the order they are begun, which turns 'a later file of the same name' into a
greater number (`NewestFile`). The invariant adds that of the body under way what
is written, held back and still to be read add up to its length, and that what is
still to be read fits the sectors still to be visited: so the loop, which counts
sectors, ends with no bytes left. `EverythingExtracted` rests on the lemma that
`NamesApart` keeps all files apart.

**FreeSpace: extract-unused, space and free.** Three commands find free sectors,
each in its own way: over a sector map, by the gaps between neighbours in
catalogue order, and by the largest end. Each is a chain of loops over entries or
sectors. A choice the C++ standard leaves undefined, `back()` of an empty list in
`space`, is the place `undefined`.

*Checked:* discs of seven sectors of two bytes with up to three entries, and Watford
discs with two and one or one and two, in any order, valid or not (only two
formats are validated), on a medium that is whole or one sector short. Seven
sectors leave room for a gap before, between and behind two files with a
catalogue of four. What `SpaceAndFreeAddUp` says of `space` is about `Tidy`
discs, which `space` is written for; the rest, and `UnusedAreTheFreeStretches`,
is about any.

*Proved* (DiscCommandsProofs), for any number of entries in any order on a disc of any
size: both. For extract-unused the invariants are that the map holds the sectors
of the entries passed, each under the first that has it (`MapOK`), and that the
spans written so far, with the one under way, are the free sectors below the
current one (`ScanOK`). For `space` the invariant (`SpaceOK`) is that the sum of the
gaps is the number of free sectors it has counted: those behind the files passed,
and those before all files once the first gap is added (`Counted`). Each pass of the loop adds exactly the sectors between a file and
the one that the code takes for the next (`GapsCover`, `GapsApart`), although that
one can be in the other catalogue. The sum is a recursive function, and what it is
for a list with one more element is shown by a least counterexample (`SumExists`,
`SumGrows`). `FirstGapOnce` is the assertion in `add_initial_gap`
(src/dfs/cmd_space.cc:176).

**Cat: cat.** Sorting (`std::sort` may leave equal entries in any order), the gap
before the other directories, and the columns: `place` has both counters, the
stream's own and `current_col`, with the line ends that set back one of them only. What is put
out for a file (`Text`) goes through `UpdateCol` character by character, for a name on a disc
can have any character but blank and NUL: a TAB moves the stream's counter to a multiple of 8, a
line end or carriage return sets it back to 0, and neither touches `current_col`. Columns are
the stream's: it counts one for every other character, whatever a terminal makes of it.

*Checked:* up to five entries (locked, of full length, empty, of two directories that
differ by a small letter) in any order, on one, two and four columns, and up to three with odd
ones among them: of directory 0 or TAB, with a line end, a carriage return, seven TABs, or two
that end a name right where the next column begins. Five files are one more than the widest
line has columns.

*Proved* (DiscCommandsProofs), for any entries, any screen and columns of any width above 17,
which the longest name of a locked file fills: `CatInColumns`. Whatever the names, each file is
shown once, from where a column of the screen begins and no higher than the one before
(`SomeColumn`). The rest has two conditions, without which the code does otherwise (see the
divergences). `AllPlain`: nothing that is put out has a TAB, line end or carriage return. Then
the two counters agree (`CountersAgree`): the last file begins where column `current_col` does
and `col_` is right behind it, because a text of plain characters ends as many columns further
as it is long (`TextEnds`, by a least counterexample, for `PutOut` is a recursive function); so
a file never ends where the next column begins and `next_column` never skips one.
`NoneInDirectory0` is for the order; with both, the empty line comes once, where the order leaves
the current directory, because `printed_gap` says of which kind the last file was, and a line is
filled before the next is begun.

**FileNames: info, type, list and dump.** A text is a sequence of characters, for
here the characters are the behaviour: `ParseFilename` takes a name apart by hand,
`Qualified` does it as the regular expression of `afsp.cc` would, and
`Expression` writes the expression for a wildcard out, character by character,
for `Compile` and `Matches`, which stand for the POSIX functions (external), to read. `InManual` and
`Fits` are the meaning the manual (`src/doc/dfs.1`, DFS WILDCARDS) gives them.

*Checked:* arguments of up to three out of seven characters behind twelve ways to
begin with a drive, right and wrong, from two current directories, on an
Acorn disc and an Opus disc of two volumes, whose eight entries have names
in small letters, with a dot, with a `#`, and none. `WildcardsAsDocumented`
compares info with the manual, `FoundMeansListed` the two ways to read a name
with each other. Three characters are a directory, its dot and a name.

### Identify, ImageFileProofs: what a file is (run `identify`)

`disc` is how the disc was made and imaged, and the code sees it only through
operators that say what the probes read. `Formatted` is what the filing systems
see to: how many sectors a disc has for its geometry, how far a count in the
catalogue goes, and where Watford DFS puts its mark. The candidate layouts go through the
filters in the code's order; the choice is the minimum by `compare_formats`, the
first in list order among equals. The second pass, through the view of a side,
is the same actions with `chosen` set.

*Checked:* with the real numbers: every geometry the program knows, each format,
every extension, right or wrong, compressed or not, and file starts that contain
2 or a number whose low byte is 2. `PlacesSectors` is the property that matters:
the size guessed may be wrong, yet every sector of side 0 is where it was, for
the layout agrees in what counts. Each property names what it excepts.

### OpusVolumes, OpusProofs: Opus DDOS (run `opus`, and `opus_gap`)

The probe, the loop over the letters in sector 16 (with the code's `offset`
separate from the letter, because one path does not advance it), sorting, the
lengths from back to front, and reading a block of a volume.

*Checked:* three volumes with tracks 0 to 5 each, discs of 3 to 5 tracks of eight
sectors, with valid and invalid volume catalogues. Eight sectors are the smallest track that
holds three catalogues and the disc catalogue. `ReadsApart` has one exception:
block `len` of a volume, which the code returns. `opus_gap` is the finding: a
letter that follows one with track zero is lost.

*Proved*, for any sizes and any disc catalogue: types; `VolumesTile`, from the
invariant that the volumes already given a length tile the disc from the current
`next_sector` to its end; `CatalogsApart`; and `ReadsApart`, which follows from the
tiling for all blocks but `len`.

### BasicTokens, BasicText, StreamProofs: bbcbasic_to_text (run `basic`)

`BasicTokens` has the dialects' token maps as what each byte is (a character, a
word, the start of a longer token, a line number, invalid) and the arithmetic of
line numbers. `BasicText` reads the files given one after the other: the line
header of either kind, the body, the end of file, and the indentation. `Saved`
is the encoding, written from what the decoder undoes. What a file was saved from
is in `programs`, which the code never sees; `BasicTokenised` says that BASIC has
turned it into tokens: 251 bytes of data to a line at most, keywords and line numbers
of the dialect outside of strings, characters within. The files can be anything.

*Checked:* programs of up to four lines with loops under four LIST options;
programs of up to two lines in every dialect, cut off at every byte; one line
with each byte changed to ten other values, among them quote, carriage return,
and the tokens of each class; a GOTO to each number made of ten bytes around the
powers of two that the encoding splits; and two files of which one is missing,
empty or cut.

*Proved* (StreamProofs), for any programs that are tokenised, any number of files with
any bytes, and any set of line numbers (`NumbersAssumption`): `CutRefused`, the types
included, `ProgramsListed` and `LoopsIndented`. Types alone hold of any file (`BasicTypes`). Of a file
that is intact or cut off the invariant (`Reading` in `BasicInv`) says where the
program is: at the beginning of a saved line (`AtLine`), or in one, whose bytes are in the
buffer, behind its k-th item (`InLine`), with the listing come as far as that (`Listed`).
A step then finds the bytes of the next item, which are those of no other (`ItemDecoded`);
for the number in a GOTO that is `TargetDecoded`, for all 65536 of them by the parts that
the encoding moves, not one after the other. A quote in a string ends it for the program
as it does for BASIC, because `in_string` is whether the quotes so far are odd
in number. Where a file is cut off the next header or body is short, with one exception:
in a dialect with the length first, the last line may be completed from the
buffer (`Overran`). Its items are anything, but the file is at its end and not at its
beginning, so it is refused at the next header, if not before. That `FlattenSeq` of the
community modules means something and goes part by part is shown by a least
counterexample (`JoinsExist`, `FlattenAppend`).

`LoopsIndented` is proved from that invariant. `Indentation` counts the loops around a
line, a question of pairs of lines; `decode_line` counts bytes and adds and takes away. That
the counts are those of words is `LineOccurrences`: where `NoLoopsInStrings` holds, no byte
of an item but the word itself has its value, neither a second byte nor one of the number in
a GOTO. That a balance kept line by line is the number of loops that are open is
`LoopsAround`, by induction with the stronger statement that one open loop was begun
at each depth (`Layers`): without it a line that ends a loop could end none or two. The
invariant `LoopsInv` then gives `indent` and the indentations listed so far, for the line
that is read; which one it is the length of the listing tells (`ReachedOnce`).

### TrackImage, HfeStream, HfeImage, HxcImage, TrackImagesProofs: files of tracks (run `track_images`)

`HfeStream` is the copying of one side's bits out of blocks that alternate between
the sides, with the instructions of HFE version 3. `HfeImage` and `HxcImage` are
the readers: header, look-up table or list of entries, the loops over sides and
tracks, how decoded sectors become a drive, and `read_block`. They take from the
decoders only the sectors found, which are any sectors in the specifications and one of
ten kinds of contents in the run. The run is of all three; `reader` says which one works,
and the names that two of them would have in common begin with `hfe_` or `hxc_`. The order
that `std::sort` gives sectors of the same address is left open (`Sorted` is a set).

In `HfeStream` a bit is told by the byte it comes from and its place there. What
a side means as one stream, apart from how `copy_hfe` goes through it, is stated by the
definitions from `Places` to `NoneSkipped`: which bytes are the side's, which of them
are arguments (one behind another that is an argument itself is not, hence the
recursion), which stand for bits.

*Checked:* of the stream, blocks of three bytes of four bits instead of 256 and
eight, every sequence of up to four bytes out of data and all five instructions
with an unknown one: a full block and the start of the next. Of the readers, up to two
tracks; HFE with up to three sides in the header, ten kinds; HxC with
lists of up to four entries in any order and one beyond, five kinds. Two tracks
are enough for tracks that differ.

`HfeReadsInPlace` includes that a block is never another sector, and says only
of first sides with records numbered from 0 that they can be read: the others
cannot (see the divergences).

*Proved* (TrackImagesProofs), for blocks and bytes of any size (`BlockAssumption`,
`BitsAssumption`: at least one) and tracks of any bytes and length: both properties of the
stream. For `StreamInOrder` the invariant `IndInv` says where the copying is
(`Framed`: within the n-th block of the side), that the bytes put out with the bits
held back behind them are in order and come from bytes already passed (`Sound`), and
that `this_op` is what the next byte is the argument of (`Understood`). A byte is an
argument by recursion over the side; that the recursion has a solution is shown by a
least counterexample (`ArgumentsExist`). `StreamIsWhole` needs also that what was
passed is put out, each byte at its rank, with nothing held back (`Whole`). The rank is
the number of bytes up to it that stand for bits, and a step passes one byte, or
none of the side (`BetweenBlocks`).

*Proved* of the readers, for any number of tracks and sides, any list and any sectors found:
`HfeReadsInPlace` and `HxcReadsInPlace`. `HfeInv` says that what was read of a side is
whole tracks of as many sectors, sector k of track t at n * t + k with records that
follow each other (`Tracks`); nothing says that a sort orders anything, only that a track is
accepted if the order it ends in has no gap. Where a block's number leads is then
division with remainder (`QuotientBelow`). `HxcInv` says what was kept of the list
(`ListRead`), and that the sectors read of a side are in the order of their addresses, of
tracks with lesser numbers than those to come (`HxcSoFar`). That they are at their
places if there is one for each follows from `RankIsPlace`: numbers that grow and leave
none out are 0, 1, 2 and so on.

### Gunzip, StreamProofs: compressed images (run `gunzip`)

`write_decompressed_data`: the loop that reads, the loop that inflates and
writes, the tests of zlib's answer. zlib is external: at each call it takes
input and gives output as its manual allows, `total[n]` being what the first `n`
bytes of the stream bring out, and answers `Z_BUF_ERROR` if it can do nothing.

*Checked:* input buffer 2, output buffer 3, streams of up to four bytes each of which
brings out up to four: both buffers are filled and crossed, in one call and over several.
The file is cut anywhere, damaged anywhere or has up to two bytes behind the stream.
`Ending` under `WF_vars(Next)`.

*Proved*, for buffers of any size and any stream: types, `WholeIfDone`,
`SoundIsOpened`, and that the input buffer is never overwritten while it has
input. The invariant is an account: bytes written and bytes pending in zlib are
what the stream has brought out of the input taken so far, and a flag says
whether zlib has been told of the end.

## What is only model-checked

- Liveness (`LoopsEnd`, `Terminates`, `Ending`): beyond the prover.
- FileNames: it matches texts by recursive functions, and what those compute for
  every text needs induction over texts. An induction over numbers can be made
  without an induction theorem, by the least number for which something fails
  (`NatLeast` in TracksProofs, DiscCommandsProofs, TrackImagesProofs and StreamProofs),
  and the proofs use that for sums, for record numbers and for what is joined of many
  parts.
- The two findings, which are counterexamples.

## What is not modelled

- Of the commands: the headings of `cat`, the layout of `info`, `list`, `type`,
  `dump` and `sector-map`, what is in an `.inf` file, `help`. `show-titles` adds
  nothing to mounting but a title.
- `splitimage`, support code (hex dumps, string utilities, exceptions), tests.
- The bit patterns of FM and MFM, CRCs, the insides of zlib and of the regular
  expression functions beyond the expressions that `afsp.cc` writes.
- `guess_geometry_from_total_bytes`, which only tests call.

## Known divergences

`opus_gap` and `dump_sector` are runs that find the code at odds with what its tests
and messages say. While
modelling, these other disagreements were met. The properties are stated so that
they hold of the code as it is; the exception each makes is named here.

- `src/dfs/storage.cc:237`: connect_drives puts the second of two single-sided
  images in drive 1 under FIRST (the lowest free slot), and also in drive 1
  under PHYSICAL. The comment at dfs/storage.h:40-45 gives drive 1 for PHYSICAL
  and goes on 'For strategy PHYSICAL, the second will be drive 2, as if the two
  image files represented the two sides of a physical floppy': that sentence
  fits neither strategy. *Here:* no property uses the comment.
- `src/dfs/track_fm.cc:237`: While looking for a record decode_fm_track searches for
  data and control marks only, so when the mark of sector A cannot be read it
  passes over the header of the next sector B and returns B's data under A's
  address, with a correct CRC. It says of what it found (dfs/track_fm.cc:243)
  'This record has address ' A. check_track_is_supported notices the missing B
  only if B is not the last record of the track. decode_mfm_track stops at the
  next header and loses both sectors instead. *Here:* `MisfiledOnlyByLostMarks`
  allows it.
- `src/dfs/img_fileio.cc:197`: The position of block x ends in sector % take_. The
  comment at dfs/img_fileio.cc:180 gives it as 'initial_skip_ + (x / take_) *
  (take_ + leave_) + x % (take_ + leave_)', which is wrong for every block past
  the first take_ of an interleaved file. *Here:* `AnswerIsTheSector` is about
  the code's formula.
- `src/dfs/dfs_catalog.cc:336`: CatalogFragment::valid compares a file with
  total_sectors() only if an earlier file was seen, so the first non-empty entry
  (the last file on the disc) may end anywhere: a catalogue is valid whose only
  file runs off the disc. The message at dfs/dfs_catalog.cc:340-344 is meant for
  that case: 'indicates a file body ending at sector ... but the device only has
  ... sectors in total'. *Here:* `ValidMeansInside` excepts the first file.
- `src/dfs/dfs_unused.cc:88`: The sector map gives an empty file its start sector
  (last_sector() + 1 is one past it), so extract-unused writes no file for that
  sector. src/dfs/dfs_catalog.cc:329-331 says of such an entry that it 'actually
  occupies zero sectors, so it cannot overlap with anything', and the usage at
  src/dfs/cmd_extract_unused.cc:65 promises a file 'For each span of unused
  space in the selected drive'. *Here:* `SpansAreTheFreeStretches`, a part of
  `UnusedAreTheFreeStretches`, excepts `EmptyAt`.
- `src/dfs/cmd_space.cc:236`: maybe_gap is given last_sec+1 even for an empty file,
  so an empty file that shares its start sector with the next file makes space
  stop with 'catalog entries are out of order'. CatalogFragment::valid accepts
  that catalogue: src/dfs/dfs_catalog.cc:329 'it actually occupies zero sectors,
  so it cannot overlap with anything'. *Here:* `SpaceAddsUp`, a part of
  `SpaceAndFreeAddUp`, requires `Tidy`.
- `src/dfs/cmd_space.cc:157`: For the first entry of the first catalogue
  start_sec_of_next takes catalogs[catalog+1].back(), which is undefined when
  the second Watford catalogue has no entries, as on any Watford disc with no
  more than 31 files. The comment at src/dfs/cmd_space.cc:125-130 takes it that
  there is one: 'The last file in that catalog occurs immediately after the
  first file mentioned in the catalog in sector 1'. *Here:* the place
  `undefined`; `Tidy` discs get there too, and `SpaceAddsUp` says nothing of
  them.
- `src/dfs/cmd_free.cc:107`: sectors_used starts at 2 for every format, so on a
  Watford disc without files free reports sectors 2 and 3 as free.
  src/dfs/dfs_catalog.cc:370-371: 'All DFS formats have two sectors of catalog
  data, at sectors 0 and 1.  WDFS also at 2 and 3.' *Here:* `FreeIsBehindFiles`,
  the other part, allows two sectors.
- `src/dfs/identify.cc:173`: smells_like_watford compares only the low byte of a
  first sector with 2, so a Watford disc with a file at sector 258, 514 or 770
  is mounted as Acorn DFS and its second catalogue is not read. The comment at
  src/dfs/identify.cc:166-167 says 'we check whether the body of any file (of
  the standard DFS 31 files) starts in sector 2'. *Here:* `TakenForAcorn` is
  excepted.
- `src/dfs/identify.cc:479`: A one-sided layout of the same cylinders is as large as
  a two-sided one to large_enough and always smaller to compare_formats, so the
  two-sided one is never picked for a .ssd or .sdd file and its second side
  cannot be reached. src/doc/dfs.1:668 lists 'ssd|No|Single|10|1 or 2', and
  src/dfs/identify.cc:424-426 says the filter before 'helps us distinguish 40
  track two-sided SSD files from 80 track one-sided SSD files'. *Here:* only
  side 0 is spoken of.
- `src/dfs/dfs_catalog.cc:213`: The catalogue takes ten bits of the total sector
  count; the probe takes eleven (src/dfs/identify.cc:97, '// bits 8-10'). A
  Watford disc of 1280 or 1440 sectors is identified by that total and then read
  as one of 256 or 416. src/dfs/dfs_filesystem.cc:69 says of bit 2 'recognition
  ID, low bit: Watford large (if b3 unset)'. *Here:* `MountedFits` uses the
  catalogue's total.
- `src/dfs/identify.cc:97`: Bit 2 always adds 1024 to the total, so a Solidisk disc
  that has it set is too large for every layout its name allows and is not
  recognised; if its name gives no hint, a layout is found and the assertion at
  src/dfs/dfs_filesystem.cc:100 fails. src/dfs/dfs_filesystem.cc:70 says of the
  bit 'For Solidisk DDFS, bit 10 of start sector', and src/doc/dfs.1:765-770 of
  Solidisk DFS that 'such images will be treated as if they were actually Acorn
  DFS images'. *Here:* `Supported` excepts it.
- `src/dfs/identify.cc:607`: make_candidate_list looks for .ssd, .ddd and so on at
  the end of the name and finds .gz, so a compressed image has no hints. An
  interleaved one of 16 sectors to a track with a blank second side is then
  given a one-sided layout of 18, and its views, interleaved by the extension,
  show the wrong sectors. src/doc/dfs.1:656: 'Any of the supported disc images
  may be compressed'. *Here:* `PlacesSectors` excepts compressed discs of 16
  sectors.
- `src/dfs/identify.cc:454`: An interleaved image with no catalogue on its second
  side that more than one layout fits loses all of them to the filter and is
  refused, though the smallest could be picked. The comment at
  src/dfs/identify.cc:452-453 says the filter 'has some false negatives.
  Therefore, only use it if we would otherwise not be able to guess the format.'
  *Here:* `ConventionalIsMounted` requires the second catalogue.
- `src/dfs/dfs_filesystem.cc:196`: Volume A is assumed only if there is more than
  one volume; on an Opus DDOS disc with volume A alone, a drive without a letter
  is 'no file system found'. src/dfs/driveselector.h:32-34: 'In Opus DDOS,
  surface N may have up to 8 volumes, but if no volume is specidied, A is
  assumed.' *Here:* not in a property.
- `src/dfs/dfs_volume.h:69`: A volume of len_ sectors refuses block numbers greater
  than len_, so block len_, the first sector of the next volume, is returned.
  src/dfs/abstractio.h:42-43: 'On read beyond EOF, returns empty optional.'
  *Here:* `ReadsApart` excepts block `len`.
- `src/basic/lines.c:257`: The tokens of a loop's end are counted in every byte of
  the line, those in strings included, and move the indentation.
  src/doc/bbcbasic.5:216-221: 'Strings can contain non-ASCII characters but
  these are not expanded as if they are tokens.' *Here:* `LoopsIndented`
  requires `NoLoopsInStrings`.
- `src/basic/lines.c:265`: A line that has FOR and NEXT is listed one level further
  out, before its FOR counts, so in the body of another loop it is not indented.
  src/doc/bbcbasic_to_text.1:92: 'When set, indent the body of \fBFOR\fR ...
  \fBNEXT\fR loops.' *Here:* `Balanced` allows one loop token to a line.
- `src/basic/lines.c:415`: A short read of a little-endian line without an error
  goes on, and the rest of the line is what the static buffer held of the lines
  before, so text is listed that the file does not have.
  src/doc/bbcbasic_to_text.1:15-16: 'program reads a saved BBC BASIC file (in
  any of several dialects) and writes the text of the program'. *Here:*
  `CutListed` speaks of dialects with a leading carriage return.
- `src/basic/lines.c:423`: A little-endian program that ends within a line is
  reported as a line without its carriage return. The tests of files that are
  cut off, e.g. src/basic/tests/invalid_input_test.sh:100: 'expect_error
  "premature end-of-file"', cut only where the code looks for the end. *Here:*
  `CutRefused` tells the message only for those dialects.
- `src/basic/lines.c:331`: A byte other than 0xFF in the mark of the end is
  'expected to see a byte with value 0xFF'.
  src/basic/tests/invalid_input_test.sh:132: 'expect_error "premature
  end-of-file"' for incomplete-eof-marker-1.bbc, which has such a mark (the test
  passes because its egrep -r does not look at the message). *Here:* the message
  is not in a property.
- `src/basic/lines.c:499`: Bytes behind 0x0D 0xFF make it a line with a very large
  number. src/doc/bbcbasic.5:210-211: 'Nothing should be read after the
  end-of-file marker (even though some files do include additional bytes).'
  *Here:* not in a property.
- `src/basic/lines.c:303`: The place is counted once for a line number or an
  extended token, because handle_token adds to its own copy.
  src/basic/lines.c:191: 'file_pos += 3;', and the message 'saw unexpected token
  0x%02X at file position %ld' of src/basic/lines.c:167. *Here:* `told` is
  modelled, no property uses it.
- `src/basic/tokens.c:321`: Byte 0x7F is made a character of every dialect but ARM
  and Mac. src/doc/bbcbasic.5:332-333 and :341: 'The token 0x7F is valid only on
  ARM and Mac', 'invalid' for the others, as base_map has it
  (src/basic/tokens.c:91). *Here:* the token maps are as the code makes them.
- `src/dfs/img_hfe.cc:571`: After the argument of SKIPBITS the code goes on to the
  loop that puts out bits, so what is put out are the argument's own bits that
  are not skipped, and not those of the byte behind it. src/dfs/img_hfe.cc:537:
  'this byte the operant to an HFEv3 opcode.' *Here:* `StreamWhole` requires
  that nothing is skipped.
- `src/dfs/img_hfe.cc:681`: A byte is put out only if exactly 8 bits have come
  together after a whole input byte; when fewer than 8 were held back the count
  steps over 8, and nothing more is put out in the block.
  src/dfs/img_hfe.cc:565: 'bits to skip', with the number of the argument.
  *Here:* the same.
- `src/dfs/img_hfe.cc:690`: copy_hfe is called for each block of 256 bytes with its
  state anew, so an instruction whose argument is in the side's next block is
  given up, its argument is read as data, and the warning says that the stream
  ends there. src/dfs/img_hfe.cc:519: 'warning: track data stream ends in the
  middle of an HFEv3'. *Here:* `NoneSplit` excepts it.
- `src/dfs/img_hfe.cc:346`: The drive of a side has only its own sectors, so the
  head worked out from the block's number is always 0; those of the second side
  must have head 1 to be accepted (src/dfs/track.cc:188), so none is ever found.
  src/doc/dfs.1:672: 'hfe|n/a|Either|Any|1 or 2'. *Here:* `FirstSideReads`
  speaks of the first side.
- `src/dfs/img_hfe.cc:349`: The record is looked for under the block's number modulo
  the sectors of a track, from 0, so on a track whose records are 1 to n, which
  is accepted, block 0 is not there and record n is never read.
  src/dfs/track.h:40 says of a record: 'note: 1-based'. *Here:* `FirstSideReads`
  requires records from 0.
- `src/dfs/img_hfe.cc:457`: The loop goes up to the number of sides in the header,
  which nothing has tested, so the third side fails the assertion instead of
  being refused. src/dfs/img_hfe.cc:712: 'assert(side == 0 || side == 1);'
  *Here:* the place `assertion failed: side`.
- `src/dfs/img_hfe.cc:717`: With no tracks in the header the loop is not entered and
  the assertion behind it fails; the file is not refused.
  src/dfs/img_hfe.cc:842: 'assert(header_.number_of_track > 0);' *Here:* the
  place `assertion failed: tracks`.
- `src/dfs/img_hxcmfm.cc:437`: The sectors of a track are added to the side's
  without comparing their number with that of other tracks, and blocks are found
  by their place in that list, so on such a disc a block is a sector of another
  track than its number says. src/doc/dfs.1:738-741: 'The HxC and HFE file
  formats can represent disc images which don't have this property, but dfs (1)
  will not read such disc images.' *Here:* `AtItsPlace` requires as
  many sectors as the disc has places.
- `src/dfs/cmd_extract_files.cc:171`: outfile.close() can fail to write what the
  stream held back, and nothing looks at the stream afterwards: the body is
  incomplete, its .inf is written and the command succeeds. The write before is
  tested and ends the command. *Here:* `FinishedAreWhole` and `AllExtracted`
  except the entries in `unnoticed`.
- `src/dfs/cmd_extract_files.cc:174`: the body of file INF in directory X is named as
  the .inf of file X in the current directory (and so is that of a file whose name ends in .INF),
  and the later overwrites the earlier. The usage at
  src/dfs/cmd_extract_files.cc:81-82: 'All files from the selected drive ... are
  extracted into the destination directory.' *Here:* `NamesApart`; on a host that
  takes capitals for small letters, or where the names on the disc are spelt `inf`.
- `src/dfs/afsp.cc:221`: a character that is no letter is put between brackets
  alone, and '[^]' is the beginning of a longer expression: a wildcard with `^`
  is refused or matches something else. The table in the manual's DFS WILDCARDS
  has only `#`, `*` and `.` as 'special characters'. *Here:* `UsualWildcard`.
- `src/dfs/afsp.cc:241`: the drive of a wildcard is text that is compared with the
  text of a number, so `:00.A.X` lists nothing; and a sign or a blank before the number is a
  bad name. type, which reads a number (src/dfs/driveselector.cc:112), accepts all three. *Here:*
  `UsualDrive`, and the condition on `:` in `FoundMeansListed`.
- `src/dfs/dfs_catalog.cc:143`: type finds a file only in the directory as it is
  spelt, info lists it under small and capital letter alike. *Here:*
  `FoundMeansListed` has the condition on the directory.
- `src/dfs/afsp.cc:239`: the name of an entry is taken apart like one that was typed, so
  an entry whose name has a dot, or is empty, is listed as something else or never. *Here:*
  `UsualName`.
- `src/dfs/dfs_catalog.cc:385`: 'throw new BadFileSystem' throws a pointer, which
  `catch (std::exception& e)` in src/dfs/main.cc:335 does not catch: a disc that
  ends within its catalogue ends the program with abort() instead of the message. *Here:* not in
  a property.
- `src/dfs/cmd_cat.cc:506`: the current directory is put in order as character 0, which
  a directory on a disc (seven bits of a byte) can be too: its files are mixed with those of
  the current directory, behind an empty line that then comes too early. src/dfs/cmd_cat.cc:501
  says 'Ensure that entries in the current directory sort first'. *Here:* `NoneInDirectory0`.
- `src/dfs/cmd_cat.cc:138`: a TAB, line end or carriage return in a name or a directory moves
  `col_` and not `current_col`. A name of seven TABs leaves `col_` at 56 with `current_col` 0, and
  the next file begins at column 20 of the next row; two TABs and four letters end at 20, and the
  column there is skipped; behind a carriage return two files can begin at one place.
  `CatalogEntry::name` (src/dfs/dfs_catalog.cc:118) lets these characters through. *Here:* modelled;
  the condition `AllPlain`.
- `src/dfs/cmd_show_titles.cc:113`: a title that cannot be read makes the command
  fail without the message that show_title left in `error`. *Here:* not modelled.

## Plan

The order was: the drive table and its refinement; the decoders, where data nobody checked decides
most; images and catalogues; free space, identification and volumes; BASIC;
HFE, HxC and gzip; extract-files, cat, file names and the arguments of dump-sector;
the proofs of ImageFile, ExtractFiles and FreeSpace, of what damage does to a track,
of the refinement of DriveMap, of the HFE stream, of the readers of tracks, of cat's columns,
of Identify and of BasicText.
What is left, in order:

1. Composition: HfeStream, the decoders and HfeImage on one small file, so that
   what the stream puts out is what the decoder reads.
2. `sector-map` on the sector map of FreeSpace, and `create_inf_file`'s fields.
3. Proofs: the wildcards of FileNames.
