------------------------------ MODULE Storage ------------------------------
(***************************************************************************)
(* The drive table of the dfs program: how the --file options of one       *)
(* command line are given drive slots (main.cc, storage.cc,                *)
(* driveselector.cc), and how a command then reaches a disc through them.  *)
(*                                                                         *)
(* Slots are the BBC Micro's drive numbers.  Slots 0 and 2 are the two     *)
(* sides of one physical disc, 1 and 3 of the next, 4 and 6 of a third...  *)
(* Each pass of a loop that connects or shows a drive is a step, so the    *)
(* half-connected tables the program goes through are states here.         *)
(***************************************************************************)
EXTENDS Integers

CONSTANTS
  Limit,     (* the largest drive_number, 2^32 - 1 in the program          *)
  MaxSides,  (* bound: the most sides one image file presents              *)
  MaxFiles,  (* bound: the most --file options that succeed                *)
  Formatted  (* bound: whether a side has a format; BOOLEAN in the program *)

ASSUME LimitAssumption == Limit \in Nat /\ Limit % 4 = 3
ASSUME BoundsAssumption ==
  MaxSides \in Nat /\ MaxFiles \in Nat /\ Formatted \subseteq BOOLEAN

VARIABLES
  pc,        (* where main() is                                            *)
  how,       (* how_to_allocate_drives                                     *)
  drives,    (* StorageConfiguration::drives_                              *)
  caches,    (* StorageConfiguration::caches_: whose sectors a slot reads  *)
  files,     (* size of main()'s vector of live image files                *)
  sides,     (* drives.size() in the connect_drives call under way         *)
  side,      (* which of them its loop has reached                         *)
  n,         (* the loop variable of connect_drives or show_drive_...      *)
  shown,     (* the slots show_drive_configuration has printed             *)
  mounted    (* what the last StorageConfiguration::mount_fs found         *)

vars == <<pc, how, drives, caches, files, sides, side, n, shown, mounted>>

Strategy == {"FIRST", "PHYSICAL"}
Slot == 0..Limit
AcornDefaultLastSurface == 3

(***************************************************************************)
(* What a slot holds: side `side' of the image opened by the `file'th      *)
(* --file option.  `formatted' is DriveConfig's optional format; `how' is  *)
(* a history field, the strategy in force when the slot was filled.        *)
(***************************************************************************)
Drive == [file : Nat \ {0}, side : Nat, how : Strategy, formatted : BOOLEAN]
NoDrive == [file |-> 0, side |-> 0, how |-> "FIRST", formatted |-> FALSE]

NothingMounted == [device |-> NoDrive, format_of |-> NoDrive]

IsDriveConnected(s) == drives[s] # NoDrive

OppositeSurface(s) == IF s % 4 \in {0, 1} THEN s + 2 ELSE s - 2
IsSecondSide(s) == s % 4 \in {2, 3}

----------------------------------------------------------------------------
(* Where connect_drives puts an image *)

\* Wrong: the slot of the other side may be taken.
FitsIgnoringOpposite(i, count) ==
  \A k \in 0..count - 1 : i + 2 * k < Limit - 1 /\ ~IsDriveConnected(i + 2 * k)

\* check_sequence_fits: the opposite surface is only asked about for the
\* first drive of the sequence.
CheckSequenceFits(i, count) ==
  /\ ~IsDriveConnected(i)
  /\ ~IsDriveConnected(OppositeSurface(i))
  /\ \A k \in 0..count - 1 : i + 2 * k < Limit - 1 /\ ~IsDriveConnected(i + 2 * k)

\* Wrong: any free slot, whether or not the sides after the first find room.
FreeSlotAnywhere(i, count) == ~IsDriveConnected(i) /\ i + 2 * count < Limit

\* The slot at which connect_drives' PHYSICAL loop stops.
FirstFit(i, count) ==
  /\ CheckSequenceFits(i, count)
  /\ \A j \in 0..i - 1 : ~CheckSequenceFits(j, count)

\* connect_internal: map::emplace keeps an entry that is already there,
\* caches_[n] = ... replaces it.
ConnectInternal(s, d) ==
  /\ drives' = IF IsDriveConnected(s) THEN drives ELSE [drives EXCEPT ![s] = d]
  /\ caches' = [caches EXCEPT ![s] = d]

ConnectedNow(formatted) ==
  [file |-> files + 1, side |-> side, how |-> how, formatted |-> formatted]

----------------------------------------------------------------------------
(* The option loop of main() *)

Init ==
  /\ pc = "options"
  /\ how = "PHYSICAL"
  /\ drives = [s \in Slot |-> NoDrive]
  /\ caches = [s \in Slot |-> NoDrive]
  /\ files = 0
  /\ sides = 0
  /\ side = 0
  /\ n = 0
  /\ shown = {}
  /\ mounted = NothingMounted

\* --drive-first, --drive-physical
OptAllocate(strategy) ==
  /\ pc = "options"
  /\ how' = strategy
  /\ UNCHANGED <<pc, drives, caches, files, sides, side, n, shown, mounted>>

\* Any option error, --help, an image file make_image_file() rejects, and a
\* missing or unknown command end the program.
OptionsEndTheProgram ==
  /\ pc = "options"
  /\ pc' = "exited"
  /\ UNCHANGED <<how, drives, caches, files, sides, side, n, shown, mounted>>

\* --file names an image of `count' sides; connect_drives is called.
OptImageFile(count) ==
  /\ pc = "options"
  /\ files < MaxFiles
  /\ sides' = count
  /\ side' = 0
  /\ \/ /\ how = "FIRST"
        /\ n' = 0
        /\ pc' = "first"
     \/ /\ how = "PHYSICAL"
        /\ \E i \in 0..Limit - 1 : FirstFit(i, count) /\ n' = i
        /\ pc' = "physical"
     \/ /\ how = "PHYSICAL"
        /\ \A i \in 0..Limit - 1 : ~CheckSequenceFits(i, count)
        /\ n' = Limit
        /\ pc' = "exited"
  /\ UNCHANGED <<how, drives, caches, files, shown, mounted>>

\* Wrong: nobody owns the image any more, its drives dangle.
ImageDropped ==
  /\ files' = files
  /\ pc' = "options"

\* The image is now owned by the vector `files'.
ImageAccepted ==
  /\ files' = files + 1
  /\ pc' = "options"

\* One pass of the PHYSICAL loop: n = n.next().next().
ConnectPhysical ==
  /\ pc = "physical"
  /\ side < sides
  /\ \E formatted \in Formatted : ConnectInternal(n, ConnectedNow(formatted))
  /\ side' = side + 1
  /\ n' = n + 2
  /\ UNCHANGED <<pc, how, files, sides, shown, mounted>>

PhysicalReturnsTrue ==
  /\ pc = "physical"
  /\ side = sides
  /\ ImageAccepted
  /\ UNCHANGED <<how, drives, caches, sides, side, n, shown, mounted>>

\* Wrong: a drive that finds no slot is tried again.
ConnectFirstRetrying ==
  /\ pc = "first"
  /\ side < sides
  /\ \E stop \in n..Limit :
       /\ n' = stop
       /\ \A s \in n..stop - 1 : IsDriveConnected(s)
       /\ \/ /\ stop < Limit
             /\ ~IsDriveConnected(stop)
             /\ \E formatted \in Formatted : ConnectInternal(stop, ConnectedNow(formatted))
             /\ side' = side + 1
          \/ /\ stop = Limit
             /\ UNCHANGED <<drives, caches, side>>
  /\ UNCHANGED <<pc, how, files, sides, shown, mounted>>

\* One pass of the FIRST loop: the inner loop goes on from the slot the
\* last drive took, and may run off the end of the slots.
ConnectFirst ==
  /\ pc = "first"
  /\ side < sides
  /\ side' = side + 1
  /\ \E stop \in n..Limit :
       /\ n' = stop
       /\ \A s \in n..stop - 1 : IsDriveConnected(s)
       /\ \/ /\ stop < Limit
             /\ ~IsDriveConnected(stop)
             /\ \E formatted \in Formatted : ConnectInternal(stop, ConnectedNow(formatted))
          \/ /\ stop = Limit
             /\ UNCHANGED <<drives, caches>>
  /\ UNCHANGED <<pc, how, files, sides, shown, mounted>>

\* return n < limit: the sides already connected stay in the table of a
\* program that is about to exit.
FirstReturns ==
  /\ pc = "first"
  /\ side = sides
  /\ \/ /\ n < Limit
        /\ ImageAccepted
     \/ /\ n = Limit
        /\ pc' = "exited"
        /\ UNCHANGED files
  /\ UNCHANGED <<how, drives, caches, sides, side, n, shown, mounted>>

\* The command is known; --show-config may have been given.
OptionsDone ==
  /\ pc = "options"
  /\ pc' \in {"show", "command"}
  /\ n' = 0
  /\ UNCHANGED <<how, drives, caches, files, sides, side, shown, mounted>>

----------------------------------------------------------------------------
(* show_drive_configuration and the command *)

\* max(drives_.rbegin()->first, acorn_default_last_surface())
IsLoopLimit(s) ==
  /\ s >= AcornDefaultLastSurface
  /\ s = AcornDefaultLastSurface \/ IsDriveConnected(s)
  /\ \A t \in s + 1..Limit : ~IsDriveConnected(t)

\* One pass of do show(i); while (i.postincrement() < loop_limit): the
\* comparison uses the old value, the increment wraps.
ShowDrive ==
  /\ pc = "show"
  /\ shown' = shown \cup {n}
  /\ n' = (n + 1) % (Limit + 1)
  /\ \E last \in Slot :
       /\ IsLoopLimit(last)
       /\ pc' = IF n < last THEN "show" ELSE "command"
  /\ UNCHANGED <<how, drives, caches, files, sides, side, mounted>>

\* select_drive looks in caches_, drive_format in drives_.
SelectDrive(s) == caches[s]
HasFormat(s) == IsDriveConnected(s) /\ drives[s].formatted

\* mount_fs
MountFs(s) ==
  /\ pc = "command"
  /\ mounted' = IF SelectDrive(s) = NoDrive \/ ~HasFormat(s)
                THEN NothingMounted
                ELSE [device |-> SelectDrive(s), format_of |-> drives[s]]
  /\ UNCHANGED <<pc, how, drives, caches, files, sides, side, n, shown>>

CommandReturns ==
  /\ pc = "command"
  /\ pc' = "exited"
  /\ UNCHANGED <<how, drives, caches, files, sides, side, n, shown, mounted>>

Exited ==
  /\ pc = "exited"
  /\ UNCHANGED vars

Next ==
  \/ \E strategy \in Strategy : OptAllocate(strategy)
  \/ OptionsEndTheProgram
  \/ \E count \in 0..MaxSides : OptImageFile(count)
  \/ ConnectPhysical
  \/ PhysicalReturnsTrue
  \/ ConnectFirst
  \/ FirstReturns
  \/ OptionsDone
  \/ ShowDrive
  \/ \E s \in Slot : MountFs(s)
  \/ CommandReturns
  \/ Exited

Spec == Init /\ [][Next]_vars

\* The steps of a loop the program has entered: nothing but the end of the
\* loop stops them.
LoopStep ==
  ConnectPhysical \/ PhysicalReturnsTrue \/ ConnectFirst \/ FirstReturns \/ ShowDrive

FairSpec == Spec /\ WF_vars(LoopStep)

----------------------------------------------------------------------------
(* Properties *)

\* Every variable has its type.  For n this also says that no selector
\* next() or corresponding_side_of_next_device() computes is out of range,
\* which in the program would be an exception halfway through a connection.
TypeOK ==
  /\ pc \in {"options", "physical", "first", "show", "command", "exited"}
  /\ how \in Strategy
  /\ drives \in [Slot -> Drive \cup {NoDrive}]
  /\ caches \in [Slot -> Drive \cup {NoDrive}]
  /\ files \in Nat
  /\ sides \in Nat
  /\ side \in 0..sides
  /\ n \in Slot
  /\ shown \subseteq Slot
  /\ mounted \in [device : Drive \cup {NoDrive}, format_of : Drive \cup {NoDrive}]

\* The second side of a disc is never in use without its first side, under
\* any mixture of the two strategies and halfway through a connection too.
\* check_sequence_fits relies on it: it does not ask about the opposite
\* surface of the later drives of a sequence.
SecondSideNeedsFirst ==
  \A s \in Slot : IsSecondSide(s) /\ IsDriveConnected(s) => IsDriveConnected(s - 2)

\* Under PHYSICAL an image never becomes the other side of a disc that an
\* earlier image is in ("behave as if image files were physical discs",
\* storage.h); only FIRST makes two images share a disc.
PhysicalDiscIntact ==
  \A s \in Slot : \A t \in Slot :
    /\ t = OppositeSurface(s)
    /\ IsDriveConnected(s)
    /\ IsDriveConnected(t)
    /\ drives[s].file < drives[t].file
    => drives[t].how = "FIRST"

\* The sides of an image connected under PHYSICAL are on consecutive disc
\* surfaces, in order, and side 0 is the first side of a disc.
SidesInPhysicalOrder ==
  \A s \in Slot :
    IsDriveConnected(s) /\ drives[s].how = "PHYSICAL" =>
      LET base == s - 2 * drives[s].side IN
      /\ base \in Slot
      /\ ~IsSecondSide(base)
      /\ \A k \in 0..drives[s].side :
           /\ drives[base + 2 * k].file = drives[s].file
           /\ drives[base + 2 * k].side = k

\* select_drive (caches_) and drive_format (drives_) speak of the same
\* device in every slot.
CachesAgree == caches = drives

\* A mount never reads one disc by the format of another, nor a disc whose
\* image file is gone, whatever failed before the command started.
MountsALiveDisc ==
  mounted # NothingMounted =>
    /\ mounted.device = mounted.format_of
    /\ mounted.device.file \in 1..files

\* assert(!is_drive_connected(n)) in connect_internal holds.
ConnectsFreeSlot ==
  pc = "physical" /\ side < sides => ~IsDriveConnected(n)

\* Outside a connect_drives call every connected drive belongs to an image
\* file main() keeps alive: the table holds unowned pointers, and an image
\* whose connection failed halfway is destroyed.
NoDanglingDrive ==
  pc \in {"options", "show", "command"} =>
    \A s \in Slot : IsDriveConnected(s) => drives[s].file <= files

\* show_drive_configuration reports every slot up to the last connected
\* one, and never fewer than the four of a standard machine.
ShowsEveryDrive ==
  pc = "command" /\ shown # {} =>
    /\ 0..AcornDefaultLastSurface \subseteq shown
    /\ \A s \in Slot : IsDriveConnected(s) => 0..s \subseteq shown

\* Every loop main() enters ends.
LoopsEnd ==
  (pc \in {"physical", "first", "show"}) ~> (pc \in {"options", "command", "exited"})

\* What the drive table promises: an accepted image appears at once, whole,
\* in the places DriveMap says, and nothing ever leaves it.
AcceptedDrives ==
  [s \in Slot |-> IF drives[s].file <= files THEN drives[s] ELSE NoDrive]

Promise == INSTANCE DriveMap WITH map <- AcceptedDrives, images <- files

ImplementsDriveMap == Promise!Spec
=============================================================================
