----------------------------- MODULE MCSfpgaBoot -----------------------------
(***************************************************************************)
(* SfpgaBoot with bitstreams of two bytes.                                 *)
(***************************************************************************)
EXTENDS SfpgaBoot

AllOps == {"trigger", "swrst", "start", "exit", "fifo", "far"}

\* Hosts that leave the flash alone while the card boots from it.
NoFar == AllOps \ {"far"}
=============================================================================
