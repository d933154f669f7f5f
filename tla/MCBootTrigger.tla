---------------------------- MODULE MCBootTrigger ----------------------------
(***************************************************************************)
(* BootTrigger over a sequence of five bytes that keeps what is peculiar   *)
(* in the one of the board: the first byte occurs once, another one twice. *)
(***************************************************************************)
EXTENDS BootTrigger

MCN == 5
MCMagic == <<"de", "ad", "be", "ba", "be">>
MCByte == {"de", "ad", "be", "ba", "00"}
=============================================================================
