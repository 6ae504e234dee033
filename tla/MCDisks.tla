-------------------------------- MODULE MCDisks --------------------------------
(* Two partitions of a flash of three blocks, a FAT on the first and a littlefs *)
(* on the rest; a FAT on the heap and on the loopback device, whose blocks are  *)
(* half a sector, whose size is no multiple of a sector and whose image finds    *)
(* no room for all of it.                                                       *)
EXTENDS Disks

CONSTANTS part1, part2

MCPartStart == [d \in Partitions |-> IF d = part1 THEN 0 ELSE 4]
MCPartLength == [d \in Partitions |-> IF d = part1 THEN 4 ELSE 0]
MCBlockCells == [d \in Devices |-> IF d = Loop THEN 1 ELSE 2]

\* Next does not look at what happened last.
Stores == <<using, host, flash, ram, image, saved, fildes, ready, known, blank, work>>
=============================================================================
