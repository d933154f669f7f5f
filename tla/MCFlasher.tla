----------------------------- MODULE MCFlasher -----------------------------
(***************************************************************************)
(* A flash of 16 bytes: 4 for the bootloader, 8 for a bitstream, then the  *)
(* header.  The images end before the header (0, 1, 4, 7), in it (9), one  *)
(* byte after the flash (13), or would not fit into an empty flash (17).   *)
(* Bound: the second run has the option of the first, or programs a        *)
(* bitstream of the same size after an update of the bootloader.           *)
(***************************************************************************)
EXTENDS Flasher, TLC

MCSectorSize == "M25P128" :> 4 @@ "MT25QL128" :> 2
MCWornCells == {10}

NextOption ==
  runs' > 1 => \/ mode' = mode
               \/ mode = "boot" /\ mode' = "afpga" /\ size' = size

MCSpec == Init /\ [][Next /\ NextOption]_vars /\ Fairness
=============================================================================
