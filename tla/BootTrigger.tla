----------------------------- MODULE BootTrigger -----------------------------
(***************************************************************************)
(* The detector of the boot trigger sequence in the System FPGA            *)
(* (p_detect_boot_trigger of sfpga_bootloader.vhd).  A host activates the  *)
(* bootloader by writing N magic bytes, in order, to the BTRIGR register.  *)
(*                                                                         *)
(* Two actions stand for the clock edges of the process: one on which the  *)
(* register file presents a byte (btrigr_wr_o = '1') and one on which it   *)
(* does not.  A write takes the register file several clocks, so two       *)
(* bytes are never presented on consecutive edges: `strobe' says that the  *)
(* last edge presented one.                                                *)
(*                                                                         *)
(* `recent' and `streak' are history variables that the code does not      *)
(* have; the detector never reads them.                                    *)
(***************************************************************************)
EXTENDS Integers

CONSTANTS
  Byte,      \* what a host may write to BTRIGR
  NoByte,    \* fills `recent' before the first writes
  N,         \* the length of the magic sequence (8 on the board)
  Magic      \* the magic sequence

\* The sequence of the code is 0xde 0xad 0xbe 0xef 0xca 0xfe 0xba 0xbe: its
\* first byte occurs nowhere else in it.
ASSUME MagicAssumption ==
  /\ N \in Nat \ {0, 1}
  /\ Magic \in [1 .. N -> Byte]
  /\ \A i \in 2 .. N : Magic[i] # Magic[1]
  /\ NoByte \notin Byte

VARIABLES
  boot_state,     \* k < N: TWORDk, the next byte expected is Magic[k + 1];
                  \* N: BOOT_READY
  boot_trig_p1,   \* the pulse that starts the bootloader
  strobe,         \* the last clock edge presented a byte
  recent,         \* history: the last N bytes presented, the newest at N
  streak          \* history: the length of the longest suffix of the bytes
                  \* presented that runs through Magic over and over; above
                  \* 2 * N it counts on from N + 1

vars == <<boot_state, boot_trig_p1, strobe, recent, streak>>

BOOT_READY == N

TypeOK ==
  /\ boot_state \in 0 .. N
  /\ boot_trig_p1 \in BOOLEAN
  /\ strobe \in BOOLEAN
  /\ recent \in [1 .. N -> Byte \cup {NoByte}]
  /\ streak \in 0 .. 2 * N

Init ==
  /\ boot_state = 0
  /\ boot_trig_p1 = FALSE
  /\ strobe = FALSE
  /\ recent = [i \in 1 .. N |-> NoByte]
  /\ streak = 0

-----------------------------------------------------------------------------
\* Fault: a wrong byte is ignored instead of starting over.
StepIgnoresWrong(b) ==
  boot_state' = IF b = Magic[boot_state + 1] THEN boot_state + 1 ELSE boot_state

\* f_bootseq_step: on to the next state if the byte is the one expected, back
\* to the first state if it is any other -- the first magic byte included.
f_bootseq_step(b) ==
  boot_state' = IF b = Magic[boot_state + 1] THEN boot_state + 1 ELSE 0

\* The byte of Magic that continues a streak of length s.
NextOfStreak(s) == Magic[IF s < N THEN s + 1 ELSE IF s < 2 * N THEN s - N + 1 ELSE 1]

Remember(b) ==
  /\ recent' = [i \in 1 .. N |-> IF i = N THEN b ELSE recent[i + 1]]
  /\ streak' = IF b = NextOfStreak(streak)
               THEN IF streak < 2 * N THEN streak + 1 ELSE N + 1
               ELSE IF b = Magic[1] THEN 1 ELSE 0

\* Fault: TWORD0 does not end the pulse.
WriteKeepsPulse(b) ==
  /\ ~strobe
  /\ boot_trig_p1' = boot_trig_p1
  /\ f_bootseq_step(b)
  /\ strobe' = TRUE
  /\ Remember(b)

\* A clock edge on which a host's byte is presented.  BOOT_READY lasts one
\* clock and follows a strobe, so no byte is presented in it.
WriteBtrigr(b) ==
  /\ ~strobe
  /\ boot_trig_p1' = (boot_trig_p1 /\ boot_state # 0)
  /\ f_bootseq_step(b)
  /\ strobe' = TRUE
  /\ Remember(b)

\* Fault: an edge without a byte counts as a wrong byte.
IdleStartsOver ==
  /\ boot_trig_p1' = (boot_state = BOOT_READY)
  /\ boot_state' = 0
  /\ strobe' = FALSE
  /\ UNCHANGED <<recent, streak>>

\* A clock edge with nothing to read: TWORD0 ends the pulse, BOOT_READY
\* starts it, the other states wait for a byte.
Idle ==
  /\ boot_trig_p1' = \/ boot_state = BOOT_READY
                     \/ boot_trig_p1 /\ boot_state # 0
  /\ boot_state' = IF boot_state = BOOT_READY THEN 0 ELSE boot_state
  /\ strobe' = FALSE
  /\ UNCHANGED <<recent, streak>>

Next == Idle \/ \E b \in Byte : WriteBtrigr(b)

Spec == Init /\ [][Next]_vars

-----------------------------------------------------------------------------
\* The pulse, which erases the Application FPGA and switches the card to the
\* host's bitstream, starts only when the last N bytes written are the magic
\* sequence: no pattern of other writes, however long, can start it.
PulseOnlyAfterMagic ==
  [][(~boot_trig_p1 /\ boot_trig_p1') => recent = Magic]_vars

\* The detector may be left halfway by a host that was interrupted, and the
\* next complete sequence can then be missed.  A second complete sequence
\* right after it never is: the detector has found its place again.
SecondSequenceFires ==
  (strobe /\ streak = 2 * N) => boot_state = BOOT_READY

-----------------------------------------------------------------------------
\* The strengthening that makes the two properties inductive: in TWORDk the
\* last k bytes were the first k of Magic ...
Matched ==
  \A i \in 1 .. boot_state : recent[N - boot_state + i] = Magic[i]

\* ... and BOOT_READY is entered by a strobe and left on the next edge.
ReadyAfterStrobe ==
  boot_state = BOOT_READY => strobe

\* While the pulse lasts the detector is back at its start.
PulseAtStart ==
  boot_trig_p1 => boot_state = 0

\* A streak shorter than N finds the detector either in step with it or back
\* at the start; from its N-th byte on, in step (BOOT_READY and TWORD0 are
\* both 0 modulo N).
InStep ==
  /\ (0 < streak /\ streak < N) => boot_state \in {0, streak}
  /\ streak = N => boot_state \in {0, N}
  /\ (N < streak /\ streak < 2 * N) => boot_state = streak - N
  /\ streak = 2 * N => boot_state = IF strobe THEN N ELSE 0

IInv ==
  /\ TypeOK
  /\ Matched
  /\ ReadyAfterStrobe
  /\ PulseAtStart
  /\ InStep
=============================================================================
