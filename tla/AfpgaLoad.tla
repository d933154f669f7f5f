----------------------------- MODULE AfpgaLoad -----------------------------
(***************************************************************************)
(* What a download promises to the rest of the driver, without words,      *)
(* FIFO or loader: every download clears the AFPGA before it sends it      *)
(* anything, success is reported only of an AFPGA configured after that,   *)
(* and the AFPGA starts only between downloads, when the host has given    *)
(* the VME bus up.                                                         *)
(***************************************************************************)
CONSTANT Failures     \* the errors a download can end with

VARIABLES
  busy,       \* a download is going on
  outcome,    \* of the latest download: "none" while it is going on
  cleared,    \* the latest download has cleared the AFPGA for its own words
  fpga        \* "blank", "configured" or "running"

vars == <<busy, outcome, cleared, fpga>>

Init ==
  /\ busy = FALSE
  /\ outcome = "none"
  /\ cleared = TRUE
  /\ fpga = "blank"

\* An AFPGA that an earlier download left held by the bootloader may keep what
\* it has for the moment; one that runs is stopped.
Begin ==
  /\ ~busy
  /\ busy' = TRUE
  /\ outcome' = "none"
  /\ cleared' = FALSE
  /\ fpga' = "blank" \/ (fpga # "running" /\ fpga' = fpga)

\* A download that cannot begin leaves the AFPGA alone.
Refuse ==
  /\ ~busy
  /\ outcome' \in Failures
  /\ UNCHANGED <<busy, cleared, fpga>>

\* Words of an earlier download may still configure the AFPGA after that: the
\* download clears it before it sends its own.
Clear ==
  /\ busy
  /\ ~cleared
  /\ cleared' = TRUE
  /\ fpga' = "blank"
  /\ UNCHANGED <<busy, outcome>>

\* The AFPGA may raise DONE late, after the driver has given up.
Configure ==
  /\ fpga = "blank"
  /\ fpga' = "configured"
  /\ UNCHANGED <<busy, outcome, cleared>>

Succeed ==
  /\ busy
  /\ outcome = "none"
  /\ cleared
  /\ fpga = "configured"
  /\ outcome' = "ok"
  /\ UNCHANGED <<busy, cleared, fpga>>

\* A download that fails before its end is over at once; one that fails at
\* its end still hands the bus back.
Fail ==
  /\ busy
  /\ outcome = "none"
  /\ cleared
  /\ outcome' \in Failures
  /\ busy' \in BOOLEAN
  /\ UNCHANGED <<cleared, fpga>>

HandBack ==
  /\ busy
  /\ outcome # "none"
  /\ busy' = FALSE
  /\ UNCHANGED <<outcome, cleared, fpga>>

Run ==
  /\ ~busy
  /\ fpga = "configured"
  /\ fpga' = "running"
  /\ UNCHANGED <<busy, outcome, cleared>>

Next ==
  \/ Begin
  \/ Refuse
  \/ Clear
  \/ Configure
  \/ Succeed
  \/ Fail
  \/ HandBack
  \/ Run

Spec == Init /\ [][Next]_vars
=============================================================================
