------------------------------ MODULE DataResize ------------------------------
(***************************************************************************)
(* Growing the data partition to the end of the SD card                    *)
(* (radio_web/data_partition.py, run at every boot by S12data-resize): the *)
(* partition table, then the kernel's idea of the partition, then the file *)
(* system in it.  Sizes are sectors from the start of the partition; the   *)
(* file system counts blocks.                                              *)
(***************************************************************************)
EXTENDS Naturals

CONSTANTS
  Card,        \* target_sectors: from the partition's start to the card's end
  Sizes,       \* what images make the partition
  Block,       \* sectors per block of the file system
  MinGrow,     \* MIN_GROW_SECTORS
  MaxTrouble   \* bound: how often a call fails or the power does

\* An image's partition is not empty and fits on the card.
ASSUME SizesAssumption == Card \in Nat /\ Sizes \subseteq 1 .. Card /\ Block \in Nat \ {0}

VARIABLES
  mbr, original,   \* the size in the table, and that of the image
  copy,            \* mbr.backup: the size it shows, 0 if there is none
  kernel,          \* the partition as the kernel knows it
  fs,              \* the blocks of the file system
  pending,         \* the marker file
  at,              \* where expand() is, or "off"
  trouble

resizeVars == <<mbr, original, copy, kernel, fs, pending, at, trouble>>

ResizeInit ==
  /\ original \in Sizes /\ mbr = original /\ kernel = original
  /\ fs = original \div Block
  /\ copy = 0 /\ pending = FALSE /\ at = "off" /\ trouble = 0

Trouble == trouble < MaxTrouble /\ trouble' = trouble + 1

\* The kernel reads the table when the radio starts.
PowersOn ==
  /\ at = "off"
  /\ kernel' = mbr /\ at' = "discover"
  /\ UNCHANGED <<mbr, original, copy, fs, pending, trouble>>

PowerGoes ==
  /\ at # "off" /\ Trouble
  /\ at' = "off"
  /\ UNCHANGED <<mbr, original, copy, kernel, fs, pending>>

\* Switched off when expand has run.
SwitchOff ==
  /\ at = "done"
  /\ at' = "off"
  /\ UNCHANGED <<mbr, original, copy, kernel, fs, pending, trouble>>

Available == Card - kernel

\* Mutant: a partition with no room left needs nothing.
DiscoverFull ==
  /\ at = "discover"
  /\ at' = IF mbr \notin {kernel, Card} \/ Available < MinGrow THEN "done" ELSE "mark"
  /\ UNCHANGED <<mbr, original, copy, kernel, fs, pending, trouble>>

\* discover_layout and validate_mbr: the table agrees with the kernel, or was
\* written before; little room is left alone.
Discover ==
  /\ at = "discover"
  /\ at' = IF mbr \notin {kernel, Card} THEN "done"
           ELSE IF Available < MinGrow THEN "grow" ELSE "mark"
  /\ UNCHANGED <<mbr, original, copy, kernel, fs, pending, trouble>>

\* Mutant: a run that was cut off has saved the table.
MarkedBefore ==
  /\ at = "mark"
  /\ pending' = TRUE /\ at' = IF pending THEN "write" ELSE "save"
  /\ UNCHANGED <<mbr, original, copy, kernel, fs, trouble>>

Mark ==
  /\ at = "mark"
  /\ pending' = TRUE /\ at' = "save"
  /\ UNCHANGED <<mbr, original, copy, kernel, fs, trouble>>

\* The table is saved once.
Save ==
  /\ at = "save"
  /\ copy' = (IF copy = 0 THEN mbr ELSE copy) /\ at' = "write"
  /\ UNCHANGED <<mbr, original, kernel, fs, pending, trouble>>

\* _write_mbr: one sector.
Write ==
  /\ at = "write"
  /\ mbr' = Card /\ at' = "tell"
  /\ UNCHANGED <<original, copy, kernel, fs, pending, trouble>>

\* _resize_kernel_partition: a refusal is left to the next boot.
Tell ==
  /\ at = "tell"
  /\ \/ kernel' = Card /\ at' = "grow" /\ UNCHANGED trouble
     \/ Trouble /\ at' = "done" /\ UNCHANGED kernel
  /\ UNCHANGED <<mbr, original, copy, fs, pending>>

Target == Card \div Block

\* _finish: the file system grows to the card's end, which the ioctl refuses
\* beyond the partition; it may stop half-way.
Grow ==
  /\ at = "grow"
  /\ at' = "done"
  /\ \/ /\ fs >= Target \/ Target * Block <= kernel
        /\ fs' = (IF fs < Target THEN Target ELSE fs)
        /\ pending' = FALSE /\ UNCHANGED trouble
     \/ /\ fs < Target /\ Target * Block > kernel
        /\ UNCHANGED <<fs, pending, trouble>>
     \/ /\ fs < Target /\ Target * Block <= kernel /\ Trouble
        /\ fs' \in fs .. Target /\ UNCHANGED pending
  /\ UNCHANGED <<mbr, original, copy, kernel>>

Run == PowersOn \/ Discover \/ Mark \/ Save \/ Write \/ Tell \/ Grow
ResizeNext == Run \/ SwitchOff \/ PowerGoes

\* The radio is switched on and off again and again, and the script runs.
ResizeFairness == WF_resizeVars(Run) /\ WF_resizeVars(SwitchOff)

ResizeSpec == ResizeInit /\ [][ResizeNext]_resizeVars /\ ResizeFairness

\* Whatever fails, the file system lies in the partition, the kernel's
\* partition in the table's, and the first table ever replaced is kept.
Contained ==
  /\ fs * Block <= kernel /\ kernel <= mbr /\ mbr <= Card
  /\ mbr # original => copy = original
  /\ at \in {"off", "discover", "mark", "save", "write", "tell", "grow", "done"}

\* In the end the file system has the whole card, and nothing is pending,
\* unless the image left less than MinGrow (persistent-data.md: the marker is
\* "removed after the filesystem reaches its target size").
Expanded ==
  Card - original >= MinGrow \/ original = Card => <>[](fs = Target /\ ~pending)

=============================================================================
