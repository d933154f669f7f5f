------------------------------- MODULE MiniVme -------------------------------
(***************************************************************************)
(* The VME core of the System FPGA (mini_vme.vhd) and the bus side of its  *)
(* register file (svec_xloader_wb.vhd), clock by clock.                    *)
(*                                                                         *)
(* The bus is asynchronous: its strobes pass synchronisers, which may see  *)
(* an edge one clock late, and everything decoded from the bus is a clock  *)
(* older than what it was decoded from.  All cards see all bus cycles.     *)
(*                                                                         *)
(* TRUE stands for an asserted signal, whatever its level.                 *)
(***************************************************************************)
EXTENDS Integers

CONSTANTS
  Data,         \* what the data lines may carry
  Targets       \* the addresses that bus masters use, see Target

\* Whose CR/CSR space an address is in, and whether its offset there is one of
\* the bootloader's registers (0x70000 to 0x70020).
Target == [mine : BOOLEAN, register : BOOLEAN]

ASSUME MiniVmeAssumption == Targets \subseteq Target

VARIABLES
  as,             \* the address strobe on the bus ...
  ds,             \* ... the data strobe ...
  cycle,          \* ... and the rest of the current bus cycle
  as_synced, as_p1,             \* the synchronised strobes and the pulses
  ds_synced, ds_p1,             \* that mark their leading edges
  addr_latched, addr_valid,
  data_latched, data_valid,
  match,          \* am_match, addr_match and dtype_match
  state,          \* of p_fsm
  stb, we, adr, dat,            \* to the register file
  ack_in,         \* of the register file: clocks until ack, 0 if idle
  writes          \* history: how often the register file took a write in the
                  \* current bus cycle, counted up to 2

busVars == <<as, ds, cycle>>
syncVars == <<as_synced, as_p1, ds_synced, ds_p1>>
latchVars == <<addr_latched, addr_valid, data_latched, data_valid, match>>
masterVars == <<state, stb, we, adr, dat>>
vars == <<busVars, syncVars, latchVars, masterVars, ack_in, writes>>

\* A cycle of another width or address modifier counts as another card's.
BusCycle == [target : Targets, write : BOOLEAN, data : Data]

TypeOK ==
  /\ as \in BOOLEAN /\ ds \in BOOLEAN
  /\ cycle \in BusCycle
  /\ as_synced \in BOOLEAN /\ as_p1 \in BOOLEAN
  /\ ds_synced \in BOOLEAN /\ ds_p1 \in BOOLEAN
  /\ addr_latched \in Target /\ addr_valid \in BOOLEAN
  /\ data_latched \in Data /\ data_valid \in BOOLEAN
  /\ match \in BOOLEAN
  /\ state \in {"IDLE", "DECODE_ADDR", "EXEC_CYCLE", "WAIT_ACK", "DTACK"}
  /\ stb \in BOOLEAN /\ we \in BOOLEAN
  /\ adr \in Target /\ dat \in Data
  /\ ack_in \in 0 .. 3
  /\ writes \in 0 .. 2

\* The latches have no reset value.
Init ==
  /\ as = FALSE /\ ds = FALSE
  /\ cycle \in BusCycle
  /\ as_synced = FALSE /\ as_p1 = FALSE
  /\ ds_synced = FALSE /\ ds_p1 = FALSE
  /\ addr_latched \in Targets /\ addr_valid = FALSE
  /\ data_latched \in Data /\ data_valid = FALSE
  /\ match = FALSE
  /\ state = "IDLE"
  /\ stb = FALSE /\ we = FALSE
  /\ adr = addr_latched /\ dat = data_latched
  /\ ack_in = 0
  /\ writes = 0

-----------------------------------------------------------------------------
(* The bus masters.                                                        *)

\* The next cycle begins when the strobes of the last one are gone from the
\* synchronisers.
BeginCycle ==
  /\ ~as /\ ~ds /\ ~as_synced /\ ~ds_synced
  /\ as' = TRUE
  /\ cycle' \in BusCycle
  /\ writes' = 0
  /\ UNCHANGED <<ds, syncVars, latchVars, masterVars, ack_in>>

StrobeData ==
  /\ as /\ ~ds
  /\ ds' = TRUE
  /\ UNCHANGED <<as, cycle, syncVars, latchVars, masterVars, ack_in, writes>>

ForRegister(t) == t.mine /\ t.register

\* A cycle lasts until the addressed card acknowledges it, or the bus times
\* out; the latter takes longer than this card needs for any answer, and both
\* take longer than the synchronisers.
EndCycle ==
  /\ as /\ ds
  /\ as_synced /\ ds_synced
  /\ ForRegister(cycle.target) => state = "DTACK"
  /\ as' = FALSE
  /\ ds' = FALSE
  /\ UNCHANGED <<cycle, syncVars, latchVars, masterVars, ack_in, writes>>

-----------------------------------------------------------------------------
(* A clock edge: every process reads the values before it.                 *)

\* gc_sync_ffs: what the synchronisers have of the strobes after this edge.
Synchronise(a, d) ==
  /\ as_synced' = a
  /\ as_p1' = (a /\ ~as_synced)
  /\ ds_synced' = d
  /\ ds_p1' = (d /\ ~ds_synced)

\* p_latch_addr and p_latch_data.
Latch ==
  /\ addr_valid' = (as_p1 \/ (addr_valid /\ as_synced))
  /\ addr_latched' = IF as_p1 THEN cycle.target ELSE addr_latched
  /\ data_valid' = (ds_p1 \/ (data_valid /\ ds_synced))
  /\ data_latched' = IF ds_p1 THEN cycle.data ELSE data_latched

\* p_decode: the match of what is latched is known one clock later.
Decode == match' = addr_latched.mine

MasterIdle == stb' = stb /\ UNCHANGED <<we, adr, dat>>

\* p_fsm, state by state.

\* Fault: the data strobe is not awaited.
IdleEarly ==
  /\ state = "IDLE"
  /\ state' = IF addr_valid THEN "DECODE_ADDR" ELSE "IDLE"
  /\ MasterIdle

Idle ==
  /\ state = "IDLE"
  /\ state' = IF addr_valid /\ data_valid THEN "DECODE_ADDR" ELSE "IDLE"
  /\ MasterIdle

\* An address of this card outside the registers is neither executed nor
\* refused: the state is kept.
DecodeAddr ==
  /\ state = "DECODE_ADDR"
  /\ state' = CASE ~addr_valid -> "DECODE_ADDR"
                [] addr_valid /\ ~match -> "IDLE"
                [] addr_valid /\ match /\ addr_latched.register -> "EXEC_CYCLE"
                [] addr_valid /\ match /\ ~addr_latched.register -> "DECODE_ADDR"
  /\ we' = IF state' = "EXEC_CYCLE" THEN cycle.write ELSE we
  /\ UNCHANGED <<stb, adr, dat>>

ExecCycle ==
  /\ state = "EXEC_CYCLE"
  /\ state' = "WAIT_ACK"
  /\ stb' = TRUE
  /\ adr' = addr_latched
  /\ dat' = data_latched
  /\ UNCHANGED we

Ack == ack_in = 1

\* Fault: the strobe is left on.
StrobeLeftOn ==
  /\ state = "WAIT_ACK"
  /\ state' = CASE Ack -> "DTACK"
                [] ~Ack /\ ~ds_synced -> "IDLE"
                [] ~Ack /\ ds_synced -> "WAIT_ACK"
  /\ MasterIdle

\* Fault: the level of the data strobe is misread.
GiveUpEarly ==
  /\ state = "WAIT_ACK"
  /\ stb' = FALSE
  /\ state' = CASE Ack -> "DTACK"
                [] ~Ack /\ ds_synced -> "IDLE"
                [] ~Ack /\ ~ds_synced -> "WAIT_ACK"
  /\ UNCHANGED <<we, adr, dat>>

\* The adapter in front of the register file never stalls.
WaitAck ==
  /\ state = "WAIT_ACK"
  /\ stb' = FALSE
  /\ state' = CASE Ack -> "DTACK"
                [] ~Ack /\ ~ds_synced -> "IDLE"
                [] ~Ack /\ ds_synced -> "WAIT_ACK"
  /\ UNCHANGED <<we, adr, dat>>

Dtack ==
  /\ state = "DTACK"
  /\ state' = IF ~ds_synced /\ ~as_synced THEN "IDLE" ELSE "DTACK"
  /\ MasterIdle

Fsm == Idle \/ DecodeAddr \/ ExecCycle \/ WaitAck \/ Dtack

\* The register file takes a strobe when no ack is in progress.
Takes == stb /\ ack_in = 0

\* Fault: the acknowledge counter is not stopped at zero.
AckUnderflow ==
  /\ ack_in' \in IF Takes THEN {1, 3} ELSE {ack_in - 1}
  /\ writes' = IF Takes /\ we /\ writes < 2 THEN writes + 1 ELSE writes

\* CSR is acknowledged two clocks later than the other registers.
RegisterFile ==
  /\ ack_in' \in IF Takes THEN {1, 3} ELSE {IF ack_in = 0 THEN 0 ELSE ack_in - 1}
  /\ writes' = IF Takes /\ we /\ writes < 2 THEN writes + 1 ELSE writes

Clock(a, d) ==
  /\ Synchronise(a, d)
  /\ Latch
  /\ Decode
  /\ Fsm
  /\ RegisterFile
  /\ UNCHANGED busVars

\* An edge of a strobe may be seen one clock late.
LateClock == \E a \in {as, as_synced}, d \in {ds, ds_synced} : Clock(a, d)

Next == BeginCycle \/ StrobeData \/ EndCycle \/ LateClock

Spec == Init /\ [][Next]_vars

\* The clock runs, and the synchronisers see the strobes again and again.
FairSpec == Spec /\ WF_vars(Clock(as, ds)) /\ WF_vars(StrobeData)

-----------------------------------------------------------------------------
\* A write reaches a register only in a bus cycle that is for this card's
\* registers, and with the data of that cycle: neither the address nor the data
\* are left over from an earlier cycle, however late the strobes are seen.
\* This is what hdl-bootloader.rst:43-45 says: all other transfers are ignored.
OthersIgnored ==
  [][(Takes /\ we /\ ack_in' # 0)
     => as /\ cycle.write /\ ForRegister(cycle.target) /\ dat = cycle.data]_vars

\* A cycle that is acknowledged has been executed, once.
AcknowledgedOnce ==
  state = "DTACK" /\ as_synced
  => /\ ForRegister(cycle.target)
     /\ writes = IF cycle.write THEN 1 ELSE 0

\* A master that accesses a register gets its acknowledgement.
CyclesAnswered ==
  (as /\ ForRegister(cycle.target)) ~> (state = "DTACK")
=============================================================================
