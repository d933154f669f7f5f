---------------------------- MODULE XilinxLoader ----------------------------
(***************************************************************************)
(* The engine of the System FPGA that configures the Application FPGA      *)
(* (AFPGA) in passive serial mode (p_main_fsm of xilinx_loader.vhd), with  *)
(* the AFPGA at its pins.  Its inputs -- the CSR pulses, the words it      *)
(* fetches -- come from the host or from the flash: the modules that       *)
(* extend this one (Download, SfpgaBoot) say when each action happens.     *)
(*                                                                         *)
(* A step shifts a whole byte; the clock divider and the counted delays    *)
(* only say that a state is left later, so they are left to interleaving.  *)
(***************************************************************************)
EXTENDS Integers, Sequences

CONSTANT
  ConfigLen     \* how many bytes the AFPGA needs before it raises DONE

ASSUME ConfigLenAssumption == ConfigLen \in Nat \ {0}

VARIABLES
  state,        \* the state of p_main_fsm
  csr_done,     \* the CSR.DONE flag
  csr_error,    \* the CSR.ERROR flag
  d_data,       \* the bytes of the current word that are still to be shifted
  d_last,       \* the current word is the last one (XLAST)
  afpga,        \* what the AFPGA is doing
  received,     \* the bytes the AFPGA took since it was last cleared
  alive         \* the AFPGA answers on INIT_B; fixed for a behaviour

loaderVars == <<state, csr_done, csr_error, d_data, d_last>>
afpgaVars == <<afpga, received>>
xldrVars == <<loaderVars, afpgaVars, alive>>

\* SHIFT stands for READ_FIFO2, OUTPUT_BIT and CLOCK_EDGE: a word is in
\* d_data and its bits go out; STARTUP for STARTUP_CCLK0 and STARTUP_CCLK1.
LoaderState ==
  {"IDLE", "EXTEND_PROG", "WAIT_INIT", "WAIT_INIT2", "READ_FIFO", "SHIFT",
   "WAIT_DONE", "GOT_DONE", "STARTUP"}

\* The AFPGA: clearing its memory (INIT_B low), waiting for its bitstream,
\* configured (DONE high) with its pins still in hi-z, or running.
AfpgaState == {"clearing", "ready", "done", "running"}

Done == afpga \in {"done", "running"}

XldrTypeOK ==
  /\ state \in LoaderState
  /\ csr_done \in BOOLEAN
  /\ csr_error \in BOOLEAN
  /\ d_data \in Seq(Int)
  /\ d_last \in BOOLEAN
  /\ afpga \in AfpgaState
  /\ received \in Seq(Int)
  /\ alive \in BOOLEAN

XldrInit ==
  /\ state = "IDLE"
  /\ csr_done = FALSE
  /\ csr_error = FALSE
  /\ d_data = <<>>
  /\ d_last = FALSE
  /\ afpga = "ready"
  /\ received = <<>>
  /\ alive \in BOOLEAN

-----------------------------------------------------------------------------
(* The AFPGA.                                                              *)

\* PROG_B low, from the loader or from the erase pulse: everything is lost.
ClearAfpga ==
  /\ afpga' = IF alive THEN "clearing" ELSE afpga
  /\ received' = <<>>

\* The memory is clear and INIT_B is released, once PROG_B is.
AfpgaReady ==
  /\ afpga = "clearing"
  /\ state \notin {"EXTEND_PROG", "WAIT_INIT"}
  /\ afpga' = "ready"
  /\ UNCHANGED <<loaderVars, received, alive>>

\* The AFPGA has a whole bitstream with a good checksum, whose bytes are
\* 1, 2, 3, ...
Configurable ==
  /\ afpga = "ready"
  /\ alive
  /\ Len(received) >= ConfigLen
  /\ \A i \in 1 .. ConfigLen : received[i] = i

\* The loader sees DONE high.  The AFPGA raises it at a clock the loader gives;
\* that and the synchroniser may take a few more bytes.
AfpgaDone ==
  /\ Configurable
  /\ state \in {"SHIFT", "READ_FIFO", "WAIT_DONE"}
  /\ afpga' = "done"
  /\ UNCHANGED <<loaderVars, received, alive>>

-----------------------------------------------------------------------------
(* The loader.                                                             *)

\* CSR.SWRST: whatever it was doing, back to IDLE.
Swrst ==
  /\ state' = "IDLE"
  /\ csr_done' = FALSE
  /\ csr_error' = FALSE
  /\ UNCHANGED <<d_data, d_last, afpgaVars, alive>>

\* CSR.START is obeyed in IDLE only: clears the flags and the AFPGA.
Start ==
  IF state = "IDLE"
  THEN /\ state' = "EXTEND_PROG"
       /\ csr_done' = FALSE
       /\ csr_error' = FALSE
       /\ ClearAfpga
       /\ UNCHANGED <<d_data, d_last, alive>>
  ELSE UNCHANGED xldrVars

\* PROG_B has been low long enough.
ProgExtended ==
  /\ state = "EXTEND_PROG"
  /\ state' = "WAIT_INIT"
  /\ UNCHANGED <<csr_done, csr_error, d_data, d_last, afpgaVars, alive>>

\* INIT_B went low.  Only an AFPGA that is there pulls it low.
InitSeen ==
  /\ state = "WAIT_INIT"
  /\ alive
  /\ state' = "WAIT_INIT2"
  /\ UNCHANGED <<csr_done, csr_error, d_data, d_last, afpgaVars, alive>>

InitTimeout ==
  /\ state = "WAIT_INIT"
  /\ ~alive
  /\ state' = "IDLE"
  /\ csr_done' = TRUE
  /\ csr_error' = TRUE
  /\ UNCHANGED <<d_data, d_last, afpgaVars, alive>>

\* INIT_B is high again.  There is no timeout in this state.
InitReleased ==
  /\ state = "WAIT_INIT2"
  /\ afpga # "clearing"
  /\ state' = "READ_FIFO"
  /\ UNCHANGED <<csr_done, csr_error, d_data, d_last, afpgaVars, alive>>

\* csr_rd_o pops the source in two states: in READ_FIFO the word is used ...
Fetch(bytes, last) ==
  /\ state = "READ_FIFO"
  /\ state' = "SHIFT"
  /\ d_data' = bytes
  /\ d_last' = last
  /\ UNCHANGED <<csr_done, csr_error, afpgaVars, alive>>

\* ... and in IDLE it is dropped.
Drop ==
  /\ state = "IDLE"
  /\ UNCHANGED xldrVars

\* A byte goes out, unless DONE is seen first; after the last byte of the
\* word the next word is fetched, or DONE awaited if it was the last word.
ShiftByte ==
  /\ state = "SHIFT"
  /\ ~Done
  /\ received' = IF afpga = "ready" THEN Append(received, Head(d_data)) ELSE received
  /\ d_data' = Tail(d_data)
  /\ state' = CASE Len(d_data) > 1 -> "SHIFT"
                [] Len(d_data) = 1 -> IF d_last THEN "WAIT_DONE" ELSE "READ_FIFO"
  /\ UNCHANGED <<csr_done, csr_error, d_last, afpga, alive>>

\* DONE is high in the middle of a word: the rest of the word is dropped.
DoneWhileShifting ==
  /\ state = "SHIFT"
  /\ Done
  /\ state' = "GOT_DONE"
  /\ UNCHANGED <<csr_done, csr_error, d_data, d_last, afpgaVars, alive>>

\* GOT_DONE raises the flag one clock after it is entered ...
FlagDone ==
  /\ state = "GOT_DONE"
  /\ ~csr_done
  /\ csr_done' = TRUE
  /\ csr_error' = FALSE
  /\ UNCHANGED <<state, d_data, d_last, afpgaVars, alive>>

\* Fault: the startup clocks are forgotten.
NoStartupClocks ==
  /\ state' = IF state = "GOT_DONE" THEN "IDLE" ELSE state
  /\ UNCHANGED <<csr_done, csr_error, d_data, d_last, afpgaVars, alive>>

\* ... and is left by a startup pulse (CSR.EXIT) only; any other state
\* ignores it.
StartupPulse ==
  /\ state' = IF state = "GOT_DONE" THEN "STARTUP" ELSE state
  /\ csr_done' = (csr_done \/ state = "GOT_DONE")
  /\ csr_error' = (csr_error /\ state # "GOT_DONE")
  /\ UNCHANGED <<d_data, d_last, afpgaVars, alive>>

\* DONE after the last word, or its timeout.
DoneAfterLast ==
  /\ state = "WAIT_DONE"
  /\ Done
  /\ state' = "IDLE"
  /\ csr_done' = TRUE
  /\ csr_error' = FALSE
  /\ UNCHANGED <<d_data, d_last, afpgaVars, alive>>

\* Fault: the timeout is not an error.
TimeoutIsSuccess ==
  /\ state = "WAIT_DONE"
  /\ state' = "IDLE"
  /\ csr_done' = TRUE
  /\ UNCHANGED <<csr_error, d_data, d_last, afpgaVars, alive>>

DoneTimeout ==
  /\ state = "WAIT_DONE"
  /\ state' = "IDLE"
  /\ csr_done' = TRUE
  /\ csr_error' = TRUE
  /\ UNCHANGED <<d_data, d_last, afpgaVars, alive>>

\* The startup clocks have been given: a configured AFPGA runs.
StartupEnd ==
  /\ state = "STARTUP"
  /\ state' = "IDLE"
  /\ afpga' = IF afpga = "done" THEN "running" ELSE afpga
  /\ UNCHANGED <<csr_done, csr_error, d_data, d_last, received, alive>>

\* The steps the loader takes by itself.
Internal ==
  \/ ProgExtended
  \/ InitSeen
  \/ InitTimeout
  \/ InitReleased
  \/ ShiftByte
  \/ DoneWhileShifting
  \/ FlagDone
  \/ DoneAfterLast
  \/ DoneTimeout
  \/ StartupEnd
=============================================================================
